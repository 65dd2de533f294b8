------------------------------ MODULE TaskStatus ------------------------------
(* What the row of a task promises: the diagram of its status, drawn by the    *)
(* commands it is given. A step changes a row the way the diagram allows,      *)
(* unless the writer did not know the row it replaced: from then on the row    *)
(* has been raced and nothing is promised.                                     *)
CONSTANTS Tasks

VARIABLES row,   \* task -> [status, command]
          raced  \* task -> some write replaced a row its writer had not seen

vars == <<row, raced>>

(* The outcomes of a command, in the status of the row and in its command.     *)
Outcomes == [
    SUBMIT   |-> {"SUBMITTED", "TAPERECALL", "UPLOADED", "SUBMITFAILED"},
    KILL     |-> {"KILLED", "KILLFAILED"},
    RESUBMIT |-> {"SUBMITTED", "RESUBMITFAILED"}]

Init == /\ row = [t \in Tasks |-> [status |-> "NONE", command |-> "NULL"]]
        /\ raced = [t \in Tasks |-> FALSE]

(* User commands and the commands they name.                                   *)
User(r, n) ==
    \/ r.status = "NONE" /\ n = [status |-> "NEW", command |-> "SUBMIT"]
    \/ /\ r.status \in {"SUBMITTED", "KILLED", "KILLFAILED", "RESUBMITFAILED", "FAILED"}
       /\ n.status = "NEW" /\ n.command \in {"KILL", "RESUBMIT"}
    \/ /\ r.status \in {"SUBMITFAILED", "UPLOADED"}
       /\ n = [status |-> "NEW", command |-> "SUBMIT"]
    \/ r.status = "TAPERECALL" /\ n = [status |-> "KILLRECALL", command |-> "KILL"]
    \/ /\ r = [status |-> "NEW", command |-> "SUBMIT"]
       /\ n = [status |-> "KILLED", command |-> "KILL"]

(* The TaskWorker: the command stays until an outcome is reported, which may   *)
(* clear it. QUEUED goes back to NEW at a restart.                             *)
Worker(r, n) ==
    \/ r.status = "HOLDING" /\ n = [r EXCEPT !.status = "QUEUED"]
    \/ r.status = "QUEUED" /\ n = [r EXCEPT !.status = "NEW"]
    \/ r.status = "QUEUED" /\ n.status \in Outcomes[r.command] /\ n.command \in {r.command, "NULL"}

(* A task of a banned user fails, a rejected command fails or is dropped.      *)
Refused(r, n) ==
    /\ r.status = "HOLDING" /\ n.command = r.command
    /\ \/ r.command = "SUBMIT" /\ n.status = "SUBMITFAILED"
       \/ r.command = "KILL" /\ n.status \in {"KILLFAILED", "SUBMITTED"}
       \/ r.command = "RESUBMIT" /\ n.status \in {"RESUBMITFAILED", "SUBMITTED"}

(* A reporter that got no answer replaces its report by another of the same    *)
(* command.                                                                    *)
Retracted(r, n) ==
    \E c \in DOMAIN Outcomes :
        /\ r.status \in Outcomes[c] /\ n.status \in Outcomes[c]
        /\ r.command \in {c, "NULL"} /\ n.command \in {r.command, "NULL"}

(* The automatic splitting of a running task may fail.                         *)
Split(r, n) == r.status = "SUBMITTED" /\ n = [r EXCEPT !.status = "FAILED"]

Recalled(r, n) ==
    \/ r.status = "TAPERECALL" /\ n = [status |-> "NEW", command |-> "SUBMIT"]
    \/ r.status = "TAPERECALL" /\ n = [r EXCEPT !.status = "FAILED"]
    \/ r.status = "KILLRECALL" /\ n = [status |-> "KILLED", command |-> "KILL"]

Change(t) ==
    /\ \A u \in Tasks \ {t} : row'[u] = row[u] /\ raced'[u] = raced[u]
    /\ \/ raced[t] \/ raced'[t]
       \/ LET r == row[t]
              n == row'[t] IN
          \/ User(r, n) \/ Worker(r, n) \/ Refused(r, n)
          \/ Retracted(r, n) \/ Recalled(r, n) \/ Split(r, n)
    /\ raced[t] => raced'[t]

(* A TaskWorker acquires NEW tasks, several at once.                           *)
Acquire(S) ==
    /\ \A t \in S : row[t].status = "NEW"
    /\ row' = [t \in Tasks |-> IF t \in S THEN [row[t] EXCEPT !.status = "HOLDING"] ELSE row[t]]
    /\ UNCHANGED raced

Next == (\E t \in Tasks : Change(t)) \/ (\E S \in SUBSET Tasks : Acquire(S))

Spec == Init /\ [][Next]_vars
===============================================================================
