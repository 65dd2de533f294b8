---------------------------- MODULE MCAutoSplitting ----------------------------
(* The instance of AutoSplitting for TLC.                                      *)
EXTENDS AutoSplitting

ThreeTriggers == <<50, 80, 100>>
===============================================================================
