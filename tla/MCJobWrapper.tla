------------------------------ MODULE MCJobWrapper -----------------------------
(* Instances of JobWrapper for TLC.                                            *)
EXTENDS JobWrapper

Ad(n, transfer, logs, noStageout, policy) ==
    [outputs |-> n, transferOutputs |-> transfer, saveLogs |-> logs, noStageout |-> noStageout,
     policy |-> policy]

(* Two outputs with or without logs and with each policy; jobs that have       *)
(* nothing to stage out.                                                       *)
Ads ==
    {Ad(2, TRUE, logs, FALSE, p) : logs \in BOOLEAN, p \in {<<"local">>, <<"remote">>, <<"local", "remote">>}}
        \cup {Ad(0, TRUE, TRUE, FALSE, <<"local">>), Ad(1, FALSE, TRUE, FALSE, <<"local">>),
              Ad(1, TRUE, TRUE, TRUE, <<"remote">>)}
===============================================================================
