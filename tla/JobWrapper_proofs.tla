--------------------------- MODULE JobWrapper_proofs ---------------------------
(* Proofs about the job wrapper, for any number of outputs, any ads, codes of  *)
(* the application and evictions: a flag of the report stands for a file, and  *)
(* what looks like a success is one.                                           *)
(*                                                                             *)
(* Neither is inductive. A run ends with exit status 0 because nothing was     *)
(* recorded on the way, so that IInv says what is recorded: a check that       *)
(* failed leaves exit_code (Recorded), a copy that failed leaves               *)
(* first_stageout_failure_code (FailureKept), each way that could be used is   *)
(* used or made superfluous (FailureKept), a policy that is done has all the   *)
(* outputs flagged (AllFlagged), and one that waits has none (UntriedClean).   *)
EXTENDS JobWrapper, TLAPS

(* The places of the wrapper: before anything of the stage-out is known, with  *)
(* the report read, and while files are copied.                                *)
Early == {"run", "ad", "report"}
Checking == {"outputs", "archive", "init"}
Copying == {"logs", "files", "clean", "remove"}

ErrorCodes == {80000, 60302, 60318, 60311, 60307, 60403}
Status == {None, 0} \cup ErrorCodes
StatusType == [valid : Status, exist : Status, inReport : Status, archive : Status,
               init : [Policies -> Status], logs : [Policies -> Status],
               outputs : [Policies -> Status]]
PolicyLists == {<<>>, <<"local">>, <<"remote">>, <<"local", "remote">>, <<"remote", "local">>}

(* Closer types than those of TypeOK. The codes of cmscp.py are none that the  *)
(* eight bits of an exit status make a success of.                             *)
Shape ==
    /\ at \in Early \cup Checking \cup Copying \cup {"end"}
    /\ exitInfo \in {0} \cup ErrorCodes /\ firstCode \in {None} \cup ErrorCodes
    /\ wrapper \in {None} \cup Nat /\ status \in StatusType /\ policies \in PolicyLists
    /\ at = "run" => exit = None

(* What cmscp.py knows on its way.                                             *)
NothingKnown ==
    /\ at \in Early => wrapper = None /\ exitInfo = 0 /\ status = NoStatus
    /\ at \in Early \cup Checking =>
        /\ flags = {} /\ completed = {} /\ direct = {} /\ firstCode = None
        /\ \A p \in Policies : status.logs[p] = None /\ status.outputs[p] = None

(* Stage-out of at least one output, by the code of the application.           *)
Judged ==
    /\ at \in Checking \cup Copying =>
        /\ wrapper \in {None, code}
        /\ wrapper = None => status.valid # 0
        /\ status.valid # 0 => exitInfo # 0
    /\ at \in {"report"} \cup Checking \cup Copying => setup.outputs >= 1
    /\ at \in {"report"} \cup Checking => policies # <<>>

(* What is wrong with the outputs, or with all ways to copy them, is recorded. *)
Recorded ==
    /\ at \in Checking \cup Copying => (status.inReport = 0 => status.valid = 0)
    /\ at \in {"archive", "init"} \cup Copying => OutputsCondition \/ exitInfo # 0
    /\ at \in Copying => exitInfo # 0 \/ \E p \in Policies : status.init[p] = 0
    /\ at \in Copying => \A p \in Policies : status.init[p] = 0 => OutputsCondition

(* The policies still to try have copied nothing.                              *)
Untried(p) == Listed(p) /\ (at = "logs" \/ p # Policy)
UntriedClean == at \in Copying =>
    \A p \in Policies : Untried(p) => status.logs[p] = None /\ status.outputs[p] = None

(* A copy that failed leaves a code; a policy that could be used has been, or  *)
(* will be, unless the outputs are there by then.                              *)
FailureKept ==
    /\ at \in Copying => \A p \in Policies :
        Failed(status.logs[p]) \/ Failed(status.outputs[p]) => firstCode # None
    /\ at \in Copying => \A p \in Policies :
        status.init[p] = 0 =>
            \/ Untried(p) \/ (at = "files" /\ p = Policy)
            \/ firstCode # None \/ \E q \in Policies : status.outputs[q] = 0

(* A policy with the status of success has all outputs flagged, but for the    *)
(* one at work, which has those before next.                                   *)
AllFlagged ==
    /\ at \in Copying => \A p \in Policies :
        status.outputs[p] = 0 /\ ~(at \in {"files", "remove"} /\ p = Policy) =>
            \A f \in 1..setup.outputs : <<f, p>> \in flags
    /\ at = "files" =>
        /\ next <= setup.outputs
        /\ next > 1 => OutputsWanted /\ status.logs[Policy] \in {None, 0}
        /\ status.outputs[Policy] = (IF next > 1 THEN 0 ELSE None)
        /\ \A f \in 1..(next - 1) : <<f, Policy>> \in flags
    /\ at \in {"files", "clean", "remove"} => policies # <<>>

(* What is about to be removed has no flag any more.                           *)
Unmarked == at = "remove" =>
    /\ CleanWanted
    /\ \A f \in ToClean(Policy) : <<f, Policy>> \notin flags
    /\ {f \in Files : <<f, "local">> \in flags}
         = IF Policy = "local" THEN completed \cap {Log} ELSE completed

IInv == /\ TypeOK /\ Shape /\ NothingKnown /\ Judged /\ Recorded
        /\ UntriedClean /\ FailureKept /\ AllFlagged /\ Unmarked
        /\ ReportedIsStored /\ SuccessIsStored

-------------------------------------------------------------------------------
(* Lemmas about the operators.                                                 *)

(* An exit status has eight bits.                                              *)
LEMMA EightBits == ASSUME NEW c \in Nat PROVE c % 256 \in 0..255
  OBVIOUS

(* None of the codes of cmscp.py is a multiple of 256, so that none of them    *)
(* looks like a success.                                                       *)
LEMMA ErrorStatus == ASSUME NEW c \in ErrorCodes PROVE c \in Nat /\ c # 0 /\ c % 256 # 0
  BY DEF ErrorCodes

(* The codes that are written to cmscp_status.                                 *)
LEMMA StatusCodes == {None, 0, 80000, 60302, 60318, 60311, 60307, 60403} \subseteq Status
  BY DEF Status, ErrorCodes

(* The policies to try: the first, and at most one other.                      *)
LEMMA PolicyList ==
    ASSUME NEW l \in PolicyLists
    PROVE  /\ Len(l) \in 0..2
           /\ l = <<>> => Len(l) = 0
           /\ l # <<>> => /\ Head(l) \in Policies /\ Tail(l) \in PolicyLists
                          /\ Head(l) = l[1] /\ Len(l) >= 1
                          /\ Len(l) = 1 => Tail(l) = <<>>
                          /\ Len(l) = 2 => l[2] \in Policies \ {Head(l)} /\ Tail(l) = <<l[2]>>
  <1> USE DEF PolicyLists, Policies
  <1>1. CASE l = <<>>
    BY <1>1
  <1>2. CASE l = <<"local">>
    BY <1>2
  <1>3. CASE l = <<"remote">>
    BY <1>3
  <1>4. CASE l = <<"local", "remote">>
    BY <1>4
  <1>5. CASE l = <<"remote", "local">>
    BY <1>5
  <1> QED
    BY <1>1, <1>2, <1>3, <1>4, <1>5

(* There are at most two policies.                                             *)
LEMMA AtMostTwo == \A l \in PolicyLists : Len(l) <= 2
  BY PolicyList

(* A policy is listed while it is the first one or the one after it.           *)
LEMMA ListedPolicies ==
    ASSUME policies \in PolicyLists
    PROVE  /\ policies = <<>> => \A p \in Policies : ~Listed(p)
           /\ policies # <<>> => /\ Policy \in Policies /\ Listed(Policy)
                                 /\ Tail(policies) \in PolicyLists
           /\ policies # <<>> /\ policies' = Tail(policies) =>
                    \A p \in Policies : Listed(p)' <=> Listed(p) /\ p # Policy
           /\ policies' = <<>> => \A p \in Policies : ~Listed(p)'
           /\ policies' = policies => /\ \A p \in Policies : Listed(p)' <=> Listed(p)
                                      /\ Policy' = Policy
  <1>1. policies = <<>> => \A p \in Policies : ~Listed(p)
    BY PolicyList DEF Listed
  <1>2. ASSUME policies # <<>>
        PROVE  Policy \in Policies /\ Listed(Policy) /\ Tail(policies) \in PolicyLists
    BY <1>2, PolicyList DEF Listed, Policy
  <1>3. ASSUME policies # <<>>, policies' = Tail(policies), NEW p \in Policies
        PROVE  Listed(p)' <=> Listed(p) /\ p # Policy
    <2> USE <1>3, PolicyList DEF Listed, Policy
    <2>1. CASE Len(policies) = 1
      BY <2>1
    <2>2. CASE Len(policies) = 2
      <3>1. policies' = <<policies[2]>> /\ policies[1] = Policy /\ policies[2] # Policy
        BY <2>2
      <3>2. Listed(p) <=> p \in {policies[1], policies[2]}
        BY <2>2
      <3>3. Listed(p)' <=> p = policies[2]
        BY <3>1
      <3> QED
        BY <3>1, <3>2, <3>3
    <2> QED
      BY <2>1, <2>2
  <1>4. policies' = <<>> => \A p \in Policies : ~Listed(p)'
    BY DEF Listed
  <1>5. policies' = policies => /\ \A p \in Policies : Listed(p)' <=> Listed(p)
                                /\ Policy' = Policy
    BY DEF Listed, Policy
  <1> QED
    BY <1>1, <1>2, <1>3, <1>4, <1>5

(* At the end only what the job has said and left behind matters.              *)
LEMMA AtEnd ==
    ASSUME at' = "end", TypeOK', Shape', ReportedIsStored', SuccessIsStored'
    PROVE  IInv'
  BY DEF IInv, NothingKnown, Judged, Recorded, UntriedClean, FailureKept, AllFlagged,
         Unmarked, Early, Checking, Copying

-------------------------------------------------------------------------------
(* The initial state and every action: one lemma each, InvX for the action X.  *)

(* A job starts with nothing known and nothing stored.                         *)
LEMMA InvInit == Init => IInv
  <1> SUFFICES ASSUME Init PROVE IInv
    OBVIOUS
  <1> USE JobWrapperAssumption
  <1>1. TypeOK
    BY DEF Init, TypeOK, None, Files, Policies
  <1>2. Shape
    BY DEF Init, Shape, Early, Checking, Copying, None, StatusType, Status, NoStatus,
           PolicyLists
  <1>3. NothingKnown
    BY DEF Init, NothingKnown, NoStatus
  <1>4. Judged /\ Recorded /\ UntriedClean /\ FailureKept /\ AllFlagged /\ Unmarked
    BY DEF Init, Judged, Recorded, UntriedClean, FailureKept, AllFlagged, Unmarked, Checking, Copying
  <1>5. ReportedIsStored /\ SuccessIsStored
    BY DEF Init, ReportedIsStored, SuccessIsStored
  <1> QED
    BY <1>1, <1>2, <1>3, <1>4, <1>5 DEF IInv

(* The application: the stage-out starts only with exit status 0.              *)
LEMMA InvCMSRunAnalysis == IInv /\ CMSRunAnalysis => IInv'
  <1> SUFFICES ASSUME IInv, CMSRunAnalysis PROVE IInv'
    OBVIOUS
  <1> USE JobWrapperAssumption
  <1>1. PICK c \in NoReportCodes \cup ReportedCodes \cup AppCodes :
            /\ \/ c \in NoReportCodes /\ code' = code
               \/ c \in ReportedCodes \cup AppCodes /\ code' = c
            /\ exit' = c % 256
            /\ at' = IF exit' = 0 THEN "ad" ELSE "end"
    BY DEF CMSRunAnalysis
  <1>2. c \in Nat /\ exit' \in 0..255
    BY <1>1, EightBits DEF NoReportCodes, ReportedCodes
  <1>3. UNCHANGED <<setup, flags, cmscp, stored, restarts>> /\ at = "run"
    BY DEF CMSRunAnalysis
  <1>4. TypeOK'
    BY <1>1, <1>2, <1>3 DEF IInv, TypeOK, cmscp
  <1>5. Shape'
    BY <1>1, <1>3 DEF IInv, Shape, cmscp, Early, Checking, Copying
  <1>6. ReportedIsStored'
    BY <1>3 DEF IInv, ReportedIsStored, cmscp, Directory
  <1>7. CASE exit' = 0
    <2>1. at' = "ad"
      BY <1>1, <1>7
    <2>2. NothingKnown'
      BY <2>1, <1>3 DEF IInv, NothingKnown, cmscp, Early, Checking
    <2>3. (Judged /\ Recorded /\ UntriedClean /\ FailureKept /\ AllFlagged /\ Unmarked
          /\ SuccessIsStored)'
      BY <2>1 DEF Judged, Recorded, UntriedClean, FailureKept, AllFlagged, Unmarked,
                  SuccessIsStored,
                  Checking, Copying
    <2> QED
      BY <1>4, <1>5, <1>6, <2>2, <2>3 DEF IInv
  <1>8. CASE exit' # 0
    BY <1>1, <1>4, <1>5, <1>6, <1>8, AtEnd DEF SuccessIsStored
  <1> QED
    BY <1>7, <1>8

(* An end of main in which a failure is told: the job is not a success.        *)
LEMMA FailureTold ==
    ASSUME TypeOK, Shape, NEW info \in {0} \cup ErrorCodes, Ends(info), policies' \in PolicyLists,
           UNCHANGED <<wrapper, status, firstCode>>,
           info # 0 \/ wrapper \notin {0, None}, wrapper \in {None, code}
    PROVE  /\ exitInfo' \in {0} \cup ErrorCodes /\ exit' \in 0..255
           /\ code' \in {None} \cup Nat
           /\ exit' # 0 \/ code' # 0
           /\ Shape'
  <1>1. PICK c \in Nat :
            /\ c = IF wrapper \in {0, None} THEN info ELSE wrapper
            /\ exit' = c % 256
    BY ErrorStatus DEF Ends, Shape
  <1>2. /\ exitInfo' = info /\ at' = "end"
        /\ code' = IF wrapper = 0 /\ info # 0 THEN info ELSE code
    BY DEF Ends
  <1>3. exit' \in 0..255
    <2>1. c % 256 \in 0..255
      BY EightBits
    <2> QED
      BY <1>1, <2>1, Zenon
  <1>4. code' \in {None} \cup Nat
    BY <1>2, ErrorStatus DEF TypeOK
  <1>5. exit' # 0 \/ code' # 0
    <2>1. CASE wrapper \in {0, None}
      <3>1. c \in ErrorCodes
        BY <1>1, <2>1
      <3>2. c % 256 # 0
        BY <3>1, ErrorStatus
      <3> QED
        BY <1>1, <3>2, Zenon
    <2>2. CASE wrapper \notin {0, None}
      BY <1>2, <2>2
    <2> QED
      BY <2>1, <2>2
  <1>6. Shape'
    BY <1>2 DEF Shape, Early, Checking, Copying
  <1> QED
    BY <1>2, <1>3, <1>4, <1>5, <1>6

(* The end of main keeps the invariant, if it is no success or nothing was to  *)
(* be staged out, and no flag is set and no flagged file removed.              *)
LEMMA InvEnds ==
    ASSUME IInv, at # "end", NEW info \in {0} \cup ErrorCodes, Ends(info), policies' \in PolicyLists,
           UNCHANGED <<setup, wrapper, status, firstCode, next, restarts>>,
           flags' \subseteq flags, completed' \subseteq Files, direct' \subseteq Files,
           stored' \subseteq stored,
           \A f \in Files, p \in Policies : <<f, p>> \in flags' => <<f, p, Directory>> \in stored',
           wrapper \in {None, code},
           \/ info # 0 \/ wrapper \notin {0, None}
           \/ exit' = 0 /\ code' = 0 => SuccessIsStored'
    PROVE  IInv'
  <1> USE JobWrapperAssumption
  <1>1. exitInfo' = info /\ at' = "end" /\ code' = IF wrapper = 0 /\ info # 0 THEN info ELSE code
    BY DEF Ends
  <1>2. PICK c \in Nat :
            /\ c = IF wrapper \in {0, None} THEN info ELSE wrapper
            /\ exit' = c % 256
    BY ErrorStatus DEF Ends, IInv, Shape
  <1>3. exit' \in 0..255
    <2>1. c % 256 \in 0..255
      BY EightBits
    <2> QED
      BY <1>2, <2>1, Zenon
  <1>4. code' \in {None} \cup Nat /\ exitInfo' \in Nat
    BY <1>1, ErrorStatus DEF IInv, TypeOK
  <1>5. Shape'
    BY <1>1 DEF IInv, Shape, Early, Checking, Copying
  <1>6. TypeOK'
    <2>1. Len(policies') <= 2
      BY AtMostTwo, Zenon
    <2> QED
      BY <1>1, <1>3, <1>4, <2>1 DEF IInv, TypeOK
  <1>7. ReportedIsStored'
    BY DEF ReportedIsStored, Directory
  <1>8. SuccessIsStored'
    <2>1. CASE info # 0 \/ wrapper \notin {0, None}
      <3>1. CASE wrapper \in {0, None}
        <4>1. c \in ErrorCodes
          BY <1>2, <2>1, <3>1
        <4>2. c % 256 # 0
          BY <4>1, ErrorStatus
        <4>3. exit' # 0
          BY <1>2, <4>2, Zenon
        <4> QED
          BY <4>3 DEF SuccessIsStored
      <3>2. CASE wrapper \notin {0, None}
        BY <1>1, <3>2 DEF SuccessIsStored
      <3> QED
        BY <3>1, <3>2
    <2>2. CASE exit' = 0 /\ code' = 0 => SuccessIsStored'
      BY <2>2 DEF SuccessIsStored
    <2> QED
      BY <2>1, <2>2
  <1> QED
    BY <1>1, <1>5, <1>6, <1>7, <1>8, AtEnd

(* The ad: main ends early only with nothing to stage out, or told.            *)
LEMMA InvReadJobAd == IInv /\ ReadJobAd => IInv'
  <1> SUFFICES ASSUME IInv, ReadJobAd PROVE IInv'
    OBVIOUS
  <1> USE JobWrapperAssumption
  <1>1. /\ at = "ad"
        /\ UNCHANGED <<setup, flags, wrapper, status, next, firstCode, completed, direct, stored,
                       restarts>>
    BY DEF ReadJobAd
  <1>2. /\ wrapper = None /\ exitInfo = 0 /\ status = NoStatus
        /\ flags = {} /\ completed = {} /\ direct = {}
    BY <1>1 DEF IInv, NothingKnown, Early
  <1>3. CASE Raises /\ UNCHANGED policies
    <2>1. 80000 \in ErrorCodes
      BY DEF ErrorCodes
    <2> QED
      BY <1>1, <1>2, <1>3, <2>1, InvEnds DEF Raises, IInv, Shape
  <1>4. CASE (setup.noStageout \/ NothingToDo) /\ Ends(0) /\ UNCHANGED policies
    <2>1. SuccessIsStored'
      <3>1. setup'.noStageout \/ ~setup'.transferOutputs \/ 1..setup'.outputs = {}
        BY <1>1, <1>4 DEF NothingToDo
      <3>2. "local" \in Policies
        BY DEF Policies
      <3> QED
        BY <3>1, <3>2 DEF SuccessIsStored
    <2> QED
      BY <1>1, <1>2, <1>4, <2>1, InvEnds DEF IInv, Shape
  <1>5. CASE /\ ~setup.noStageout /\ ~NothingToDo
             /\ Goes("ad", "report") /\ policies' \in {setup.policy, <<"remote">>}
             /\ UNCHANGED <<exitInfo, code, exit>>
    <2>1. policies' \in PolicyLists /\ policies' # <<>> /\ setup.outputs >= 1 /\ at' = "report"
      <3>1. /\ setup.outputs \in Nat
            /\ setup.policy \in {<<"local">>, <<"remote">>, <<"local", "remote">>}
        BY DEF IInv, TypeOK
      <3>2. setup.outputs # 0 /\ at' = "report" /\ policies' \in {setup.policy, <<"remote">>}
        BY <1>5 DEF NothingToDo, Goes
      <3> QED
        BY <3>1, <3>2 DEF PolicyLists
    <2>2. TypeOK'
      <3>1. Len(policies') <= 2
        BY <2>1, AtMostTwo
      <3> QED
        BY <1>1, <1>5, <2>1, <3>1 DEF IInv, TypeOK
    <2>3. Shape' /\ NothingKnown' /\ ReportedIsStored'
      BY <1>1, <1>2, <1>5, <2>1 DEF IInv, Shape, NothingKnown, ReportedIsStored, Early, Checking, Copying
    <2>4. (Judged /\ Recorded /\ UntriedClean /\ FailureKept /\ AllFlagged /\ Unmarked
          /\ SuccessIsStored)'
      BY <1>1, <2>1 DEF Judged, Recorded, UntriedClean, FailureKept, AllFlagged, Unmarked,
                  SuccessIsStored,
                  Checking, Copying
    <2> QED
      BY <2>2, <2>3, <2>4 DEF IInv
  <1> QED
    BY <1>3, <1>4, <1>5 DEF ReadJobAd

(* A report that is not valid leaves an exit code that nothing resets.         *)
LEMMA InvValidateReport == IInv /\ ValidateReport => IInv'
  <1> SUFFICES ASSUME IInv, ValidateReport PROVE IInv'
    OBVIOUS
  <1> USE JobWrapperAssumption
  <1>1. PICK valid \in {0, 80000} :
            /\ code = None => valid # 0
            /\ status' = [status EXCEPT !.valid = valid]
            /\ exitInfo' = UpdateExitInfo(exitInfo, valid)
            /\ wrapper' \in {code} \cup (IF valid # 0 THEN {None} ELSE {})
    BY DEF ValidateReport
  <1>2. /\ at = "report" /\ at' = "outputs"
        /\ policies' \in {policies} \cup (IF Len(policies) = 2 THEN {<<"remote", "local">>} ELSE {})
        /\ UNCHANGED <<setup, exit, report, next, firstCode, completed, direct, stored, restarts>>
    BY DEF ValidateReport, Goes
  <1>3. /\ wrapper = None /\ exitInfo = 0 /\ status = NoStatus /\ setup.outputs >= 1
        /\ flags = {} /\ completed = {} /\ direct = {} /\ firstCode = None
    BY <1>2 DEF IInv, NothingKnown, Judged, Early
  <1>4. policies' \in PolicyLists /\ policies' # <<>>
    BY <1>2 DEF IInv, Shape, Judged, PolicyLists
  <1>5. exitInfo' = valid
    BY <1>1, <1>3 DEF UpdateExitInfo, None
  <1>6. status'.valid = valid /\ status'.inReport = None
        /\ \A p \in Policies : status'.logs[p] = None /\ status'.outputs[p] = None
    BY <1>1, <1>3 DEF NoStatus
  <1>7. TypeOK'
    <2>1. Len(policies') <= 2
      BY <1>4, AtMostTwo
    <2> QED
      BY <1>2, <1>5, <2>1 DEF IInv, TypeOK, report
  <1>8. Shape'
    <2>1. status' \in StatusType
      BY <1>1, <1>3, StatusCodes DEF StatusType, NoStatus
    <2>2. wrapper' \in {None} \cup Nat
      BY <1>1 DEF IInv, TypeOK
    <2> QED
      BY <1>2, <1>3, <1>4, <1>5, <2>1, <2>2 DEF Shape, ErrorCodes, Checking
  <1>9. NothingKnown'
    BY <1>2, <1>3, <1>6 DEF NothingKnown, Early, report
  <1>10. Judged' /\ Recorded'
    BY <1>1, <1>2, <1>3, <1>4, <1>5, <1>6 DEF Judged, Recorded, Checking, Copying, report, None
  <1>11. (UntriedClean /\ FailureKept /\ AllFlagged /\ Unmarked /\ ReportedIsStored
          /\ SuccessIsStored)'
    BY <1>2, <1>3 DEF UntriedClean, FailureKept, AllFlagged, Unmarked,
           ReportedIsStored, SuccessIsStored,
                      Copying, report
  <1> QED
    BY <1>7, <1>8, <1>9, <1>10, <1>11 DEF IInv

(* What the assignment of makeLogsArchive to cmscp_status leaves alone.         *)
LEMMA StatusArchived ==
    ASSUME NEW st \in StatusType, NEW c \in Status, NEW st2, st2 = [st EXCEPT !.archive = c]
    PROVE  /\ st2 \in StatusType
           /\ st2.valid = st.valid /\ st2.logs = st.logs /\ st2.outputs = st.outputs
           /\ st2.exist = st.exist /\ st2.inReport = st.inReport
  BY DEF StatusType

(* The first failure is kept.                                                  *)
LEMMA UpdateKeeps ==
    ASSUME NEW info \in {0} \cup ErrorCodes, NEW c \in Status
    PROVE  /\ UpdateExitInfo(info, c) \in {0} \cup ErrorCodes
           /\ info # 0 => UpdateExitInfo(info, c) # 0
           /\ c \in ErrorCodes => UpdateExitInfo(info, c) # 0
  BY ErrorStatus DEF UpdateExitInfo, Status, None

(* A check of what is there, before the stage-out, keeps the invariant if it   *)
(* records what is wrong.                                                      *)
LEMMA InvCheck ==
    ASSUME IInv, at \in {"outputs", "archive"}, at' \in {"archive", "init"},
           exitInfo' \in {0} \cup ErrorCodes, status' \in StatusType,
           exitInfo # 0 => exitInfo' # 0,
           status'.valid = status.valid, status'.logs = status.logs,
           status'.outputs = status.outputs,
           status'.inReport = 0 => status.valid = 0, OutputsCondition' \/ exitInfo' # 0,
           UNCHANGED <<setup, exit, report, wrapper, policies, next, firstCode, completed, direct,
                       stored, restarts>>
    PROVE  IInv'
  <1> USE JobWrapperAssumption
  <1>1. /\ flags = {} /\ completed = {} /\ firstCode = None /\ direct = {}
        /\ \A p \in Policies : status.logs[p] = None /\ status.outputs[p] = None
    BY DEF IInv, NothingKnown, Checking
  <1>2. TypeOK'
    BY ErrorStatus DEF IInv, TypeOK, report
  <1>3. Shape' /\ NothingKnown'
    BY <1>1 DEF IInv, Shape, NothingKnown, Checking, Early, report
  <1>4. Judged' /\ Recorded'
    BY DEF IInv, Judged, Recorded, Checking, Copying, report
  <1>5. (UntriedClean /\ FailureKept /\ AllFlagged /\ Unmarked /\ ReportedIsStored
          /\ SuccessIsStored)'
    BY <1>1 DEF UntriedClean, FailureKept, AllFlagged, Unmarked,
           ReportedIsStored, SuccessIsStored,
                      Copying, report
  <1> QED
    BY <1>2, <1>3, <1>4, <1>5 DEF IInv

(* Outputs that are missing leave an exit code.                                *)
LEMMA InvCheckOutputs == IInv /\ CheckOutputs => IInv'
  <1> SUFFICES ASSUME IInv, CheckOutputs PROVE IInv'
    OBVIOUS
  <1>1. PICK exist \in {0, 60302, 80000}, inReport \in {0, 60318, None} :
            OutputsChecked(exist, inReport)
    BY DEF CheckOutputs
  <1>2. inReport = None <=> ~(status.valid = 0 /\ exist = 0)
    BY <1>1 DEF OutputsChecked
  <1>3. status' = [status EXCEPT !.exist = exist, !.inReport = inReport]
    BY <1>1 DEF OutputsChecked
  <1>4. exitInfo' = UpdateExitInfo(UpdateExitInfo(exitInfo, exist), inReport)
    BY <1>1 DEF OutputsChecked
  <1>5. /\ at = "outputs" /\ at' = "archive"
        /\ UNCHANGED <<setup, exit, report, wrapper, policies, next, firstCode, completed, direct, stored,
                       restarts>>
    BY DEF CheckOutputs, Goes
  <1>6. status \in StatusType /\ exitInfo \in {0} \cup ErrorCodes
    BY DEF IInv, Shape
  <1>7. exist \in Status /\ inReport \in Status
    BY StatusCodes
  <1>8. /\ status' \in StatusType
        /\ status'.valid = status.valid /\ status'.logs = status.logs
        /\ status'.outputs = status.outputs /\ status'.exist = exist /\ status'.inReport = inReport
    <2> DEFINE st == [status EXCEPT !.exist = exist]
    <2>1. /\ st \in StatusType
          /\ st.valid = status.valid /\ st.logs = status.logs /\ st.outputs = status.outputs
          /\ st.exist = exist
      BY <1>6, <1>7 DEF StatusType
    <2>2. status' = [st EXCEPT !.inReport = inReport]
      BY <1>3
    <2> HIDE DEF st
    <2> QED
      BY <2>1, <2>2, <1>7 DEF StatusType
  <1>9. /\ exitInfo' \in {0} \cup ErrorCodes
        /\ exitInfo # 0 => exitInfo' # 0
        /\ exist \in ErrorCodes \/ inReport \in ErrorCodes => exitInfo' # 0
    <2> DEFINE first == UpdateExitInfo(exitInfo, exist)
    <2>1. /\ first \in {0} \cup ErrorCodes /\ (exitInfo # 0 => first # 0)
          /\ exist \in ErrorCodes => first # 0
      BY <1>6, <1>7, UpdateKeeps
    <2>2. exitInfo' = UpdateExitInfo(first, inReport)
      BY <1>4
    <2> HIDE DEF first
    <2>3. /\ exitInfo' \in {0} \cup ErrorCodes /\ (first # 0 => exitInfo' # 0)
          /\ inReport \in ErrorCodes => exitInfo' # 0
      BY <2>1, <2>2, <1>7, UpdateKeeps
    <2> QED
      BY <2>1, <2>3
  <1>10. status'.inReport = 0 => status.valid = 0
    BY <1>2, <1>8 DEF None
  <1>11. OutputsCondition' \/ exitInfo' # 0
    <2>1. status.valid # 0 => exitInfo # 0
      BY <1>5 DEF IInv, Judged, Checking
    <2>2. (exist # 0 => exist \in ErrorCodes) /\ (inReport \notin {0, None} => inReport \in ErrorCodes)
      BY DEF ErrorCodes
    <2> QED
      BY <2>1, <2>2, <1>2, <1>8, <1>9 DEF OutputsCondition
  <1> QED
    BY <1>5, <1>8, <1>9, <1>10, <1>11, InvCheck

(* The archive of the logs adds a failure at most.                             *)
LEMMA InvMakeLogsArchive == IInv /\ MakeLogsArchive => IInv'
  <1> SUFFICES ASSUME IInv, MakeLogsArchive PROVE IInv'
    OBVIOUS
  <1>1. PICK c \in {0, 80000, None} :
            status' = [status EXCEPT !.archive = c] /\ exitInfo' = UpdateExitInfo(exitInfo, c)
    BY DEF MakeLogsArchive
  <1>2. /\ at = "archive" /\ at' = "init"
        /\ UNCHANGED <<setup, exit, report, wrapper, policies, next, firstCode, completed, direct, stored,
                       restarts>>
    BY DEF MakeLogsArchive, Goes
  <1>3. status \in StatusType /\ exitInfo \in {0} \cup ErrorCodes
    BY DEF IInv, Shape
  <1>4. c \in Status
    BY StatusCodes
  <1>5. /\ status' \in StatusType
        /\ status'.valid = status.valid /\ status'.logs = status.logs
        /\ status'.outputs = status.outputs
        /\ status'.exist = status.exist /\ status'.inReport = status.inReport
    BY <1>1, <1>3, <1>4, StatusArchived
  <1>6. exitInfo' \in {0} \cup ErrorCodes /\ (exitInfo # 0 => exitInfo' # 0)
    BY <1>1, <1>3, <1>4, UpdateKeeps
  <1>7. /\ status'.inReport = 0 => status.valid = 0
        /\ OutputsCondition' \/ exitInfo' # 0
    BY <1>2, <1>5, <1>6 DEF IInv, Recorded, OutputsCondition, Checking
  <1> QED
    BY <1>2, <1>5, <1>6, <1>7, InvCheck

(* The reset of the exit code comes with a way that can be used.               *)
LEMMA InvInitStageout == IInv /\ InitStageout => IInv'
  <1> SUFFICES ASSUME IInv, InitStageout PROVE IInv'
    OBVIOUS
  <1> USE JobWrapperAssumption
  <1>1. PICK init \in [Policies -> {0, 60311, None}] :
            /\ \A p \in Policies : init[p] = None <=> ~(Listed(p) /\ OutputsCondition)
            /\ status' = [status EXCEPT !.init = init]
            /\ exitInfo' = IF init["local"] # 0
                           THEN ForceExitInfo(UpdateExitInfo(exitInfo, init["local"]), init["remote"])
                           ELSE UpdateExitInfo(exitInfo, init["local"])
    BY DEF InitStageout
  <1>2. /\ at = "init" /\ at' = "logs"
        /\ UNCHANGED <<setup, exit, report, wrapper, policies, next, firstCode, completed, direct, stored,
                       restarts>>
    BY DEF InitStageout, Goes
  <1>3. /\ flags = {} /\ completed = {} /\ direct = {} /\ firstCode = None /\ policies # <<>>
        /\ \A p \in Policies : status.logs[p] = None /\ status.outputs[p] = None
    BY <1>2 DEF IInv, NothingKnown, Judged, Checking
  <1>4. status \in StatusType /\ exitInfo \in {0} \cup ErrorCodes /\ policies \in PolicyLists
    BY DEF IInv, Shape
  <1>5. /\ status' \in StatusType
        /\ status'.valid = status.valid /\ status'.logs = status.logs
        /\ status'.outputs = status.outputs /\ status'.init = init
        /\ status'.exist = status.exist /\ status'.inReport = status.inReport
    <2>1. init \in [Policies -> Status]
      BY StatusCodes
    <2> QED
      BY <1>1, <1>4, <2>1 DEF StatusType
  <1>6. init["local"] \in {0, 60311, None} /\ init["remote"] \in {0, 60311, None}
    BY DEF Policies
  <1>7. exitInfo' \in {0} \cup ErrorCodes
    BY <1>1, <1>4, <1>6 DEF UpdateExitInfo, ForceExitInfo, ErrorCodes
  <1>8. ASSUME ~OutputsCondition PROVE exitInfo' # 0
    <2>1. init["local"] = None /\ init["remote"] = None
      BY <1>1, <1>8 DEF Policies
    <2>2. exitInfo # 0
      BY <1>2, <1>8 DEF IInv, Recorded
    <2> QED
      BY <1>1, <2>1, <2>2 DEF UpdateExitInfo, ForceExitInfo, None
  <1>9. ASSUME OutputsCondition PROVE exitInfo' # 0 \/ \E p \in Policies : init[p] = 0
    <2>1. init["local"] # None \/ init["remote"] # None
      BY <1>1, <1>3, <1>4, <1>9, ListedPolicies DEF Policies
    <2>2. CASE init["local"] = 0 \/ init["remote"] = 0
      BY <2>2 DEF Policies
    <2>3. CASE init["local"] # 0 /\ init["remote"] # 0
      BY <1>1, <1>6, <2>1, <2>3 DEF UpdateExitInfo, ForceExitInfo, None
    <2> QED
      BY <2>2, <2>3
  <1>10. TypeOK'
    BY <1>2, <1>7, ErrorStatus DEF IInv, TypeOK, report
  <1>11. Shape' /\ NothingKnown'
    BY <1>2, <1>5, <1>7 DEF IInv, Shape, NothingKnown, Checking, Copying, Early, report
  <1>12. OutputsCondition' <=> OutputsCondition
    BY <1>5 DEF OutputsCondition
  <1>13. Judged'
    <2>1. status.valid # 0 => ~OutputsCondition
      BY <1>2 DEF IInv, Recorded, Checking, OutputsCondition
    <2> QED
      BY <1>2, <1>5, <1>8, <2>1 DEF IInv, Judged, Checking, Copying, report
  <1>14. Recorded'
    <2>1. \A p \in Policies : init[p] = 0 => OutputsCondition
      BY <1>1 DEF None
    <2> QED
      BY <2>1, <1>2, <1>5, <1>8, <1>9, <1>12 DEF IInv, Recorded, Checking, Copying
  <1>15. UntriedClean'
    BY <1>3, <1>5 DEF UntriedClean
  <1>16. FailureKept'
    <2>1. \A p \in Policies : init[p] = 0 => Listed(p)
      BY <1>1 DEF None
    <2> QED
      BY <1>2, <1>3, <1>4, <1>5, <2>1, ListedPolicies DEF FailureKept, Failed, Untried
  <1>17. AllFlagged'
    BY <1>2, <1>3, <1>5 DEF AllFlagged, None
  <1>18. ReportedIsStored' /\ SuccessIsStored'
    BY <1>2, <1>3 DEF ReportedIsStored, SuccessIsStored, report
  <1> QED
    BY <1>2, <1>10, <1>11, <1>13, <1>14, <1>15, <1>16, <1>17, <1>18 DEF IInv, Unmarked

(* A job that dies has an exit status that is no success.                      *)
LEMMA InvDies == IInv /\ Dies => IInv'
  <1> SUFFICES ASSUME IInv, Dies PROVE IInv'
    OBVIOUS
  <1>1. exit' \in 1..255 /\ at' = "end"
        /\ UNCHANGED <<setup, report, cmscp, stored, restarts>>
    BY DEF Dies
  <1>2. TypeOK' /\ Shape'
    BY <1>1 DEF IInv, TypeOK, Shape, Early, Checking, Copying, report, cmscp
  <1>3. ReportedIsStored' /\ SuccessIsStored'
    BY <1>1 DEF IInv, ReportedIsStored, SuccessIsStored, Directory, report, cmscp
  <1> QED
    BY <1>1, <1>2, <1>3, AtEnd

(* A job that starts again knows nothing of what it has stored.                *)
LEMMA InvEvicted == IInv /\ Evicted => IInv'
  <1> SUFFICES ASSUME IInv, Evicted PROVE IInv'
    OBVIOUS
  <1> USE JobWrapperAssumption
  <1>1. /\ restarts' = restarts + 1 /\ restarts < MaxRestarts
        /\ at' = "run" /\ exit' = None /\ code' = None /\ flags' = {}
        /\ exitInfo' = 0 /\ wrapper' = None /\ status' = NoStatus /\ policies' = <<>> /\ next' = 1
        /\ firstCode' = None /\ completed' = {} /\ direct' = {}
        /\ UNCHANGED <<setup, stored>>
    BY DEF Evicted
  <1>2. TypeOK'
    BY <1>1 DEF IInv, TypeOK, None
  <1>3. Shape'
    BY <1>1 DEF Shape, Early, Checking, Copying, None, StatusType, Status, NoStatus,
           PolicyLists
  <1>4. NothingKnown'
    BY <1>1 DEF NothingKnown, NoStatus
  <1>5. (Judged /\ Recorded /\ UntriedClean /\ FailureKept /\ AllFlagged /\ Unmarked)'
    BY <1>1 DEF Judged, Recorded, UntriedClean, FailureKept, AllFlagged, Unmarked, Checking, Copying
  <1>6. (ReportedIsStored /\ SuccessIsStored)'
    BY <1>1 DEF ReportedIsStored, SuccessIsStored
  <1> QED
    BY <1>2, <1>3, <1>4, <1>5, <1>6 DEF IInv

(* A copy: what can be cleaned is what is flagged, and the flag is set only    *)
(* for a file that is there.                                                   *)
CopyKept ==
    /\ flags' \subseteq Files \X Policies /\ completed' \subseteq Files /\ direct' \subseteq Files
    /\ stored' \subseteq Files \X Policies \X {"done", "failed"}
    /\ {g \in Files : <<g, "local">> \in flags'} = completed'
    /\ flags \subseteq flags'
    /\ ReportedIsStored'

(* What is copied keeps it so.                                                 *)
LEMMA Copied ==
    ASSUME IInv, at \in {"logs", "files"}, wrapper' = wrapper,
           NEW f \in Files, NEW p \in Policies, NEW c \in {0, 60307, 60403}, PerformStageout(f, p, c)
    PROVE  CopyKept
  <1>1. /\ stored' = stored \/ stored' = stored \cup {<<f, p, Directory>>}
        /\ c = 0 => stored' = stored \cup {<<f, p, Directory>>}
    <2>1. CASE c = 0
      BY <2>1 DEF PerformStageout
    <2>2. CASE c # 0
      BY <2>2 DEF PerformStageout
    <2> QED
      BY <2>1, <2>2
  <1>2. /\ flags' = IF c = 0 THEN flags \cup {<<f, p>>} ELSE flags
        /\ completed' = IF p = "local" /\ c = 0 THEN completed \cup {f} ELSE completed
        /\ direct' = IF p = "remote" THEN direct \cup {f} ELSE direct
    BY DEF PerformStageout
  <1>3. Directory \in {"done", "failed"} /\ Directory' = Directory
    BY DEF Directory
  <1>4. /\ flags \subseteq Files \X Policies /\ completed \subseteq Files /\ direct \subseteq Files
        /\ stored \subseteq Files \X Policies \X {"done", "failed"}
        /\ {g \in Files : <<g, "local">> \in flags} = completed
    BY DEF IInv, TypeOK
  <1>5. stored \subseteq stored' /\ (c = 0 => <<f, p, Directory>> \in stored')
    BY <1>1
  <1>6. stored' \subseteq Files \X Policies \X {"done", "failed"}
    BY <1>1, <1>3, <1>4
  <1>7. flags' \subseteq Files \X Policies /\ completed' \subseteq Files /\ direct' \subseteq Files
    BY <1>2, <1>4
  <1>8. {g \in Files : <<g, "local">> \in flags'} = completed'
    BY <1>2, <1>4 DEF Policies
  <1>9. ReportedIsStored'
    BY <1>2, <1>3, <1>5 DEF IInv, ReportedIsStored
  <1> QED
    BY <1>2, <1>6, <1>7, <1>8, <1>9 DEF CopyKept

(* Without a copy nothing changes.                                             *)
LEMMA NotCopied ==
    ASSUME IInv, at \in {"logs", "files"}, wrapper' = wrapper, NoStageout
    PROVE  CopyKept
  BY DEF CopyKept, NoStageout, IInv, TypeOK, ReportedIsStored, Directory

(* The judgement on the job is the same while files are copied.                *)
LEMMA CopyingKeeps ==
    ASSUME IInv, at \in Copying, at' \in Copying,
           UNCHANGED <<setup, code, exitInfo, wrapper>>,
           status'.valid = status.valid, status'.exist = status.exist,
           status'.inReport = status.inReport, status'.init = status.init
    PROVE  NothingKnown' /\ Judged' /\ Recorded' /\ SuccessIsStored'
  <1>1. OutputsCondition' <=> OutputsCondition
    BY DEF OutputsCondition
  <1>2. NothingKnown' /\ Judged' /\ SuccessIsStored'
    BY DEF IInv, NothingKnown, Judged, SuccessIsStored, Copying, Checking, Early
  <1>3. Recorded'
    BY <1>1 DEF IInv, Recorded, Copying, Checking
  <1> QED
    BY <1>2, <1>3

(* first_stageout_failure_code.                                                *)
LEMMA FirstCode ==
    ASSUME firstCode \in {None} \cup ErrorCodes, NEW c \in {0, 60307, 60403}
    PROVE  /\ First(c) \in {None} \cup ErrorCodes
           /\ firstCode # None \/ c # 0 => First(c) # None
  BY DEF First, ErrorCodes, None

(* The logs, with the policy to try.                                           *)
LEMMA InvStageLogs == IInv /\ StageLogs => IInv'
  <1> SUFFICES ASSUME IInv, StageLogs PROVE IInv'
    OBVIOUS
  <1> USE JobWrapperAssumption
  <1>1. /\ policies # <<>> /\ at = "logs" /\ at' = "files" /\ next' = 1
        /\ UNCHANGED <<setup, exit, code, exitInfo, wrapper, policies, restarts>>
    BY DEF StageLogs, Goes
  <1>2. /\ Policy \in Policies /\ Listed(Policy) /\ Policy' = Policy
        /\ \A p \in Policies : Listed(p)' <=> Listed(p)
    BY <1>1, ListedPolicies DEF IInv, Shape
  <1>3. status \in StatusType /\ firstCode \in {None} \cup ErrorCodes /\ setup.outputs >= 1
        /\ at \in Copying /\ at' \in Copying
    BY <1>1 DEF IInv, Shape, Judged, Copying
  <1>4. /\ status' \in StatusType /\ firstCode' \in {None} \cup ErrorCodes
        /\ status'.valid = status.valid /\ status'.exist = status.exist
        /\ status'.inReport = status.inReport /\ status'.init = status.init
        /\ status'.outputs = status.outputs
        /\ \A p \in Policies \ {Policy} : status'.logs[p] = status.logs[p]
        /\ firstCode # None => firstCode' # None
        /\ Failed(status'.logs[Policy]) => firstCode' # None
        /\ CopyKept
    <2>1. ASSUME NEW c \in {0, 60307, 60403}, PerformStageout(Log, Policy, c),
                 status' = [status EXCEPT !.logs[Policy] = c], firstCode' = First(c)
          PROVE  <1>4!:
      <3>1. c \in Status /\ Log \in Files
        BY StatusCodes DEF Log, Files
      <3>2. /\ status' \in StatusType /\ status'.logs[Policy] = c
            /\ status'.valid = status.valid /\ status'.exist = status.exist
            /\ status'.inReport = status.inReport /\ status'.init = status.init
            /\ status'.outputs = status.outputs
            /\ \A p \in Policies \ {Policy} : status'.logs[p] = status.logs[p]
        BY <2>1, <3>1, <1>2, <1>3 DEF StatusType
      <3>3. /\ firstCode' \in {None} \cup ErrorCodes
            /\ firstCode # None \/ c # 0 => firstCode' # None
        BY <2>1, <1>3, FirstCode
      <3>4. Failed(status'.logs[Policy]) => firstCode' # None
        BY <3>2, <3>3 DEF Failed
      <3>5. CopyKept
        <4>1. PICK p \in Policies : p = Policy
          BY <1>2
        <4>2. PerformStageout(Log, p, c)
          BY <2>1, <4>1
        <4> QED
          BY <4>2, <3>1, <1>1, <1>3, Copied
      <3> QED
        BY <3>2, <3>3, <3>4, <3>5
    <2>2. ASSUME NoStageout, UNCHANGED <<status, firstCode>>
          PROVE  <1>4!:
      <3>1. Failed(status.logs[Policy]) => firstCode # None
        BY <1>2, <1>3 DEF IInv, FailureKept
      <3> QED
        BY <2>2, <3>1, <1>1, <1>3, NotCopied
    <2> QED
      BY <2>1, <2>2 DEF StageLogs
  <1>5. TypeOK'
    BY <1>1, <1>3, <1>4 DEF IInv, TypeOK, CopyKept
  <1>6. Shape'
    BY <1>1, <1>3, <1>4 DEF IInv, Shape
  <1>7. NothingKnown' /\ Judged' /\ Recorded' /\ SuccessIsStored'
    BY <1>1, <1>3, <1>4, CopyingKeeps
  <1>8. UntriedClean'
    BY <1>1, <1>2, <1>3, <1>4 DEF IInv, UntriedClean, Untried
  <1>9. FailureKept'
    BY <1>1, <1>2, <1>3, <1>4 DEF IInv, FailureKept, Untried
  <1>10. AllFlagged'
    <2>1. status.outputs[Policy] = None
      BY <1>1, <1>2, <1>3 DEF IInv, UntriedClean, Untried
    <2> QED
      BY <2>1, <1>1, <1>2, <1>3, <1>4 DEF IInv, AllFlagged, CopyKept
  <1> QED
    BY <1>1, <1>4, <1>5, <1>6, <1>7, <1>8, <1>9, <1>10 DEF IInv, CopyKept, Unmarked

(* One output, with that policy, or none.                                      *)
LEMMA InvStageOutput == IInv /\ StageOutput => IInv'
  <1> SUFFICES ASSUME IInv, StageOutput PROVE IInv'
    OBVIOUS
  <1>1. /\ policies # <<>> /\ at = "files" /\ at' \in {"files", "clean"}
        /\ UNCHANGED <<setup, exit, code, exitInfo, wrapper, policies, restarts>>
    BY DEF StageOutput, IInv, AllFlagged
  <1>2. /\ Policy' = Policy /\ \A p \in Policies : Listed(p)' <=> Listed(p)
    BY <1>1, ListedPolicies DEF IInv, Shape
  <1>3. PICK p \in Policies : p = Policy
    BY <1>1, ListedPolicies DEF IInv, Shape
  <1>4. /\ status \in StatusType /\ firstCode \in {None} \cup ErrorCodes /\ setup.outputs >= 1
        /\ at \in Copying /\ at' \in Copying
    BY <1>1 DEF IInv, Shape, Judged, Copying
  <1>5. /\ next \in Nat /\ next >= 1 /\ next <= setup.outputs
        /\ setup.outputs \in Nat /\ setup.outputs <= NumOutputs /\ NumOutputs \in Nat
    BY <1>1, JobWrapperAssumption DEF IInv, TypeOK, AllFlagged
  <1>6. /\ next > 1 => OutputsWanted /\ status.logs[p] \in {None, 0}
        /\ status.outputs[p] = (IF next > 1 THEN 0 ELSE None)
        /\ \A f \in 1..(next - 1) : <<f, p>> \in flags
    BY <1>1, <1>3 DEF IInv, AllFlagged
  <1>7. CASE OutputsWanted /\ status.logs[Policy] \in {None, 0}
    <2>1. PICK c \in {0, 60307, 60403} :
            /\ PerformStageout(next, Policy, c)
            /\ status' = [status EXCEPT !.outputs[Policy] = c]
            /\ firstCode' = First(c)
            /\ next' = next + 1
            /\ at' = IF c = 0 /\ next < setup.outputs THEN "files" ELSE "clean"
      BY <1>7 DEF StageOutput
    <2>2. PICK f \in Files : f = next
      BY <1>5 DEF Files, Log
    <2>3. PerformStageout(f, p, c)
      BY <1>3, <2>1, <2>2
    <2>4. CopyKept
      BY <1>1, <1>4, <2>3, Copied
    <2>5. flags \subseteq flags' /\ (c = 0 => <<next, p>> \in flags')
      BY <2>2, <2>3 DEF PerformStageout
    <2>6. c \in Status
      BY StatusCodes
    <2>7. /\ status' \in StatusType /\ status'.outputs[p] = c
          /\ status'.valid = status.valid /\ status'.exist = status.exist
          /\ status'.inReport = status.inReport /\ status'.init = status.init
          /\ status'.logs = status.logs
          /\ \A q \in Policies \ {p} : status'.outputs[q] = status.outputs[q]
      BY <1>3, <1>4, <2>1, <2>6 DEF StatusType
    <2>8. /\ firstCode' \in {None} \cup ErrorCodes
          /\ firstCode # None \/ c # 0 => firstCode' # None
      BY <2>1, <1>4, FirstCode
    <2>9. TypeOK'
      BY <1>1, <1>4, <1>5, <2>1, <2>4 DEF IInv, TypeOK, CopyKept
    <2>10. Shape'
      BY <1>1, <1>4, <2>7, <2>8 DEF IInv, Shape
    <2>11. NothingKnown' /\ Judged' /\ Recorded' /\ SuccessIsStored'
      BY <1>1, <1>4, <2>7, CopyingKeeps
    <2>12. UntriedClean'
      BY <1>1, <1>2, <1>3, <1>4, <2>7 DEF IInv, UntriedClean, Untried
    <2>13. FailureKept'
      <3>1. \A q \in Policies : Failed(status'.logs[q]) \/ Failed(status'.outputs[q]) => firstCode' # None
        BY <1>4, <2>7, <2>8 DEF IInv, FailureKept, Failed
      <3>2. ASSUME NEW q \in Policies, status'.init[q] = 0
            PROVE  \/ Untried(q)' \/ (at' = "files" /\ q = Policy')
                   \/ firstCode' # None \/ \E r \in Policies : status'.outputs[r] = 0
        <4>1. CASE c = 0
          BY <2>7, <4>1
        <4>2. CASE c # 0
          BY <2>8, <4>2
        <4> QED
          BY <4>1, <4>2
      <3> QED
        BY <3>1, <3>2 DEF FailureKept
    <2>14. AllFlagged'
      <3>1. ASSUME NEW q \in Policies, status'.outputs[q] = 0, ~(at' = "files" /\ q = Policy'),
                   NEW g \in 1..setup.outputs
            PROVE  <<g, q>> \in flags'
        <4>1. CASE q # p
          BY <1>1, <1>3, <1>4, <2>5, <2>7, <3>1, <4>1 DEF IInv, AllFlagged
        <4>2. CASE q = p
          <5>1. c = 0 /\ next = setup.outputs
            BY <1>2, <1>3, <1>5, <2>1, <2>7, <3>1, <4>2
          <5>2. g = next \/ g \in 1..(next - 1)
            BY <1>5, <5>1
          <5> QED
            BY <1>6, <2>5, <4>2, <5>1, <5>2
        <4> QED
          BY <4>1, <4>2
      <3>2. ASSUME at' = "files"
            PROVE  /\ next' <= setup'.outputs
                   /\ OutputsWanted' /\ status'.logs[Policy'] \in {None, 0}
                   /\ next' > 1 /\ status'.outputs[Policy'] = 0
                   /\ \A g \in 1..(next' - 1) : <<g, Policy'>> \in flags'
        <4>1. c = 0 /\ next' = next + 1 /\ next < setup.outputs
          BY <2>1, <3>2
        <4>2. Other(p) \in Policies \ {p}
          BY DEF Other, Policies
        <4>3. OutputsWanted'
          BY <1>2, <1>3, <1>7, <2>7, <4>2 DEF OutputsWanted, OutputsCondition, Ready
        <4>4. \A g \in 1..(next' - 1) : g = next \/ g \in 1..(next - 1)
          BY <1>5, <4>1
        <4> QED
          BY <1>1, <1>2, <1>3, <1>5, <1>6, <1>7, <2>5, <2>7, <4>1, <4>3, <4>4
      <3> QED
        BY <1>1, <3>1, <3>2 DEF AllFlagged
    <2> QED
      BY <1>1, <2>4, <2>9, <2>10, <2>11, <2>12, <2>13, <2>14 DEF IInv, CopyKept, Unmarked
  <1>8. CASE ~(OutputsWanted /\ status.logs[Policy] \in {None, 0})
    <2>1. /\ NoStageout /\ at' = "clean" /\ UNCHANGED <<firstCode, next>>
          /\ status' = IF OutputsWanted THEN [status EXCEPT !.outputs[Policy] = 60318] ELSE status
      BY <1>8 DEF StageOutput
    <2>2. CopyKept
      BY <1>1, <1>4, <2>1, NotCopied
    <2>3. 60318 \in Status
      BY StatusCodes
    <2>4. /\ status' \in StatusType
          /\ status'.valid = status.valid /\ status'.exist = status.exist
          /\ status'.inReport = status.inReport /\ status'.init = status.init
          /\ status'.logs = status.logs
          /\ \A q \in Policies \ {p} : status'.outputs[q] = status.outputs[q]
          /\ status'.outputs[p] = IF OutputsWanted THEN 60318 ELSE status.outputs[p]
      BY <1>3, <1>4, <2>1, <2>3 DEF StatusType
    <2>5. status.outputs[p] = None /\ status'.outputs[p] # 0
      BY <1>3, <1>6, <1>8, <2>4 DEF None
    <2>6. OutputsWanted => firstCode # None
      BY <1>3, <1>4, <1>8 DEF IInv, FailureKept, Failed
    <2>7. TypeOK'
      BY <1>1, <1>4, <2>1, <2>2 DEF IInv, TypeOK, CopyKept
    <2>8. Shape'
      BY <1>1, <1>4, <2>1, <2>4 DEF IInv, Shape
    <2>9. NothingKnown' /\ Judged' /\ Recorded' /\ SuccessIsStored'
      BY <1>1, <1>4, <2>4, CopyingKeeps
    <2>10. UntriedClean'
      BY <1>1, <1>2, <1>3, <1>4, <2>4 DEF IInv, UntriedClean, Untried
    <2>11. FailureKept'
      <3>1. \A q \in Policies : Failed(status'.logs[q]) \/ Failed(status'.outputs[q]) => firstCode' # None
        BY <1>4, <2>1, <2>4, <2>5, <2>6 DEF IInv, FailureKept, Failed
      <3>2. ASSUME NEW q \in Policies, status'.init[q] = 0, firstCode = None, ~Untried(q)'
            PROVE  \E r \in Policies : status'.outputs[r] = 0
        <4>1. OutputsCondition /\ ~OutputsWanted /\ status.init[q] = 0
          BY <1>4, <2>4, <2>6, <3>2 DEF IInv, Recorded
        <4>2. CASE q = p
          <5>1. status.outputs[Other(p)] = 0
            BY <1>3, <2>4, <4>1, <4>2 DEF OutputsWanted, Ready
          <5>2. Other(p) \in Policies \ {p}
            BY DEF Other, Policies
          <5> QED
            BY <2>4, <5>1, <5>2
        <4>3. CASE q # p
          <5>1. ~Untried(q)
            BY <1>1, <1>2, <3>2 DEF Untried
          <5>2. PICK r \in Policies : status.outputs[r] = 0
            BY <1>3, <1>4, <3>2, <4>1, <4>3, <5>1 DEF IInv, FailureKept
          <5>3. r # p
            BY <2>5, <5>2 DEF None
          <5> QED
            BY <2>4, <5>2, <5>3
        <4> QED
          BY <4>2, <4>3
      <3> QED
        BY <2>1, <3>1, <3>2 DEF FailureKept
    <2>12. AllFlagged'
      <3>1. ASSUME NEW q \in Policies, status'.outputs[q] = 0
            PROVE  \A g \in 1..setup.outputs : <<g, q>> \in flags'
        <4>1. q # p /\ status.outputs[q] = 0
          BY <2>4, <2>5, <3>1
        <4>2. \A g \in 1..setup.outputs : <<g, q>> \in flags
          BY <1>3, <1>4, <4>1 DEF IInv, AllFlagged
        <4> QED
          BY <2>1, <4>2 DEF NoStageout
      <3> QED
        BY <1>1, <2>1, <3>1 DEF AllFlagged
    <2> QED
      BY <1>1, <2>2, <2>7, <2>8, <2>9, <2>10, <2>11, <2>12 DEF IInv, CopyKept, Unmarked
  <1> QED
    BY <1>7, <1>8

(* What is cleaned is no success any more.                                     *)
LEMMA CleanedStatus ==
    ASSUME status \in StatusType, NEW p \in Policies
    PROVE  /\ Cleaned(p) \in StatusType
           /\ Cleaned(p).valid = status.valid /\ Cleaned(p).exist = status.exist
           /\ Cleaned(p).inReport = status.inReport /\ Cleaned(p).init = status.init
           /\ Cleaned(p).logs[p] # 0 /\ Cleaned(p).outputs[p] # 0
           /\ \A q \in Policies \ {p} : /\ Cleaned(p).logs[q] = status.logs[q]
                                        /\ Cleaned(p).outputs[q] = status.outputs[q]
  <1> DEFINE st == [status EXCEPT !.logs[p] = IF @ = 0 THEN 60318 ELSE @]
  <1>1. 60318 \in Status
    BY StatusCodes
  <1>2. /\ st \in StatusType
        /\ st.valid = status.valid /\ st.exist = status.exist
        /\ st.inReport = status.inReport /\ st.init = status.init /\ st.outputs = status.outputs
        /\ st.logs[p] # 0
        /\ \A q \in Policies \ {p} : st.logs[q] = status.logs[q]
    BY <1>1 DEF StatusType
  <1>3. Cleaned(p) = [st EXCEPT !.outputs[p] = IF @ = 0 THEN 60318 ELSE @]
    BY DEF Cleaned
  <1> HIDE DEF st
  <1> QED
    BY <1>1, <1>2, <1>3 DEF StatusType

(* After a policy: with the outputs there nothing is left to try, otherwise    *)
(* what comes after it.                                                        *)
LEMMA AfterPolicy ==
    ASSUME policies \in PolicyLists, policies # <<>>, NEW st, policies' = After(st)
    PROVE  /\ policies' \in PolicyLists
           /\ \A q \in Policies : Listed(q)' => Listed(q) /\ q # Policy
           /\ \/ st.outputs[Policy] = 0
              \/ \A q \in Policies : Listed(q) /\ q # Policy => Listed(q)'
  <1>1. CASE policies' = <<>> /\ st.outputs[Policy] = 0
    <2>1. \A q \in Policies : ~Listed(q)'
      BY <1>1, ListedPolicies
    <2> QED
      BY <1>1, <2>1 DEF PolicyLists
  <1>2. CASE policies' = Tail(policies)
    <2>1. /\ Tail(policies) \in PolicyLists
          /\ \A q \in Policies : Listed(q)' <=> Listed(q) /\ q # Policy
      BY <1>2, ListedPolicies
    <2> QED
      BY <1>2, <2>1
  <1> QED
    BY <1>1, <1>2 DEF After

(* What is to be cleaned loses its flag: the report is right before and after  *)
(* the removal.                                                                *)
LEMMA Unflagging ==
    ASSUME IInv, at = "clean", NEW p \in Policies, flags' = Unflagged(p)
    PROVE  /\ flags' \subseteq flags
           /\ \A f \in ToClean(p) : <<f, p>> \notin flags'
           /\ \A f \in Files, q \in Policies \ {p} : <<f, q>> \in flags => <<f, q>> \in flags'
           /\ {f \in Files : <<f, "local">> \in flags'}
                = IF p = "local" THEN completed \cap {Log} ELSE completed
  <1>1. /\ flags \subseteq Files \X Policies /\ completed \subseteq Files
        /\ \A f \in Files : <<f, "local">> \in flags <=> f \in completed
    BY DEF IInv, TypeOK
  <1>2. \A f \in Files, q \in Policies :
            <<f, q>> \in flags' <=> <<f, q>> \in flags /\ ~(q = p /\ f \in ToClean(p))
    BY DEF Unflagged
  <1>3. flags' \subseteq flags /\ \A f \in ToClean(p) : <<f, p>> \notin flags'
    BY DEF Unflagged
  <1>4. \A f \in Files, q \in Policies \ {p} : <<f, q>> \in flags => <<f, q>> \in flags'
    BY <1>2
  <1>5. {f \in Files : <<f, "local">> \in flags'}
            = IF p = "local" THEN completed \cap {Log} ELSE completed
    <2>1. "local" \in Policies
      BY DEF Policies
    <2>2. CASE p = "local"
      BY <1>1, <1>2, <2>1, <2>2 DEF ToClean
    <2>3. CASE p # "local"
      BY <1>1, <1>2, <2>1, <2>3
    <2> QED
      BY <2>2, <2>3
  <1> QED
    BY <1>3, <1>4, <1>5

(* After a failure the report changes, and nothing else; otherwise the next    *)
(* policy is chosen.                                                           *)
LEMMA InvCleanStageoutArea == IInv /\ CleanStageoutArea => IInv'
  <1> SUFFICES ASSUME IInv, CleanStageoutArea PROVE IInv'
    OBVIOUS
  <1>1. /\ at = "clean" /\ policies # <<>>
        /\ UNCHANGED <<setup, exit, code, exitInfo, wrapper, status, next, firstCode, completed,
                       direct, stored, restarts>>
    BY DEF CleanStageoutArea, IInv, AllFlagged
  <1>2. PICK p \in Policies : p = Policy
    BY <1>1, ListedPolicies DEF IInv, Shape
  <1>3. /\ status \in StatusType /\ policies \in PolicyLists /\ at \in Copying
        /\ wrapper \in {None, code}
    BY <1>1 DEF IInv, Shape, Judged, Copying
  <1>4. CASE CleanWanted
    <2>1. flags' = Unflagged(p) /\ at' = "remove" /\ at' \in Copying /\ policies' = policies
      BY <1>2, <1>4 DEF CleanStageoutArea, Copying
    <2>2. /\ flags' \subseteq flags
          /\ \A f \in ToClean(p) : <<f, p>> \notin flags'
          /\ \A f \in Files, q \in Policies \ {p} : <<f, q>> \in flags => <<f, q>> \in flags'
          /\ {f \in Files : <<f, "local">> \in flags'}
               = IF p = "local" THEN completed \cap {Log} ELSE completed
      BY <1>1, <2>1, Unflagging
    <2>3. Policy' = p /\ \A q \in Policies : Listed(q)' <=> Listed(q)
      BY <1>2, <1>3, <2>1, ListedPolicies
    <2>4. firstCode # None
      BY <1>2, <1>3, <1>4 DEF IInv, FailureKept, CleanWanted
    <2>5. TypeOK' /\ Shape'
      BY <1>1, <2>1, <2>2 DEF IInv, TypeOK, Shape
    <2>6. NothingKnown' /\ Judged' /\ Recorded' /\ SuccessIsStored'
      BY <1>1, <1>3, <2>1, CopyingKeeps
    <2>7. UntriedClean'
      BY <1>1, <1>2, <1>3, <2>1, <2>3 DEF IInv, UntriedClean, Untried
    <2>8. FailureKept'
      BY <1>1, <2>4 DEF FailureKept
    <2>9. AllFlagged'
      <3>1. ASSUME NEW q \in Policies, status.outputs[q] = 0, q # p, NEW f \in 1..setup.outputs
            PROVE  <<f, q>> \in flags'
        <4>1. <<f, q>> \in flags
          BY <1>1, <1>3, <3>1 DEF IInv, AllFlagged
        <4>2. f \in Files
          BY <1>1, <4>1 DEF IInv, TypeOK
        <4> QED
          BY <2>2, <3>1, <4>1, <4>2
      <3> QED
        BY <1>1, <2>1, <2>3, <3>1 DEF AllFlagged
    <2>10. Unmarked'
      <3>1. CleanWanted'
        BY <1>1, <1>2, <1>4, <2>3 DEF CleanWanted
      <3>2. ToClean(Policy)' = ToClean(p)
        BY <1>1, <2>3 DEF ToClean
      <3> QED
        BY <1>1, <2>2, <2>3, <3>1, <3>2 DEF Unmarked
    <2>11. ReportedIsStored'
      BY <1>1, <2>2 DEF IInv, ReportedIsStored, Directory
    <2> QED
      BY <2>5, <2>6, <2>7, <2>8, <2>9, <2>10, <2>11 DEF IInv
  <1>5. CASE ~CleanWanted
    <2>1. /\ at' = "logs" /\ policies' = After(status) /\ at' \in Copying /\ flags' = flags
      BY <1>5 DEF CleanStageoutArea, Copying
    <2>2. /\ policies' \in PolicyLists
          /\ \A q \in Policies : Listed(q)' => Listed(q) /\ q # p
          /\ \/ status.outputs[p] = 0
             \/ \A q \in Policies : Listed(q) /\ q # p => Listed(q)'
      BY <1>1, <1>2, <1>3, <2>1, AfterPolicy
    <2>3. TypeOK'
      <3>1. Len(policies') <= 2
        BY <2>2, AtMostTwo
      <3> QED
        BY <1>1, <2>1, <3>1 DEF IInv, TypeOK
    <2>4. Shape'
      BY <1>1, <2>1, <2>2 DEF IInv, Shape
    <2>5. NothingKnown' /\ Judged' /\ Recorded' /\ SuccessIsStored'
      BY <1>1, <1>3, <2>1, CopyingKeeps
    <2>6. UntriedClean'
      BY <1>1, <1>2, <1>3, <2>1, <2>2 DEF IInv, UntriedClean, Untried
    <2>7. FailureKept'
      BY <1>1, <1>2, <1>3, <2>1, <2>2 DEF IInv, FailureKept, Untried
    <2>8. AllFlagged' /\ Unmarked' /\ ReportedIsStored'
      BY <1>1, <1>3, <2>1 DEF IInv, AllFlagged, Unmarked, ReportedIsStored, Directory
    <2> QED
      BY <2>3, <2>4, <2>5, <2>6, <2>7, <2>8 DEF IInv
  <1> QED
    BY <1>4, <1>5

(* What is removed is not in the report.                                       *)
LEMMA Removing ==
    ASSUME IInv, at = "remove", wrapper' = wrapper, flags' = flags, NEW p \in Policies, p = Policy,
           NEW gone \in SUBSET ToClean(p), stored' = stored \ (gone \X {p} \X {Directory})
    PROVE  /\ stored' \subseteq stored
           /\ \A f \in Files, q \in Policies : <<f, q>> \in flags' => <<f, q, Directory>> \in stored'
  <1>1. \A f \in Files, q \in Policies : <<f, q>> \in flags => <<f, q, Directory>> \in stored
    BY DEF IInv, ReportedIsStored
  <1>2. \A f \in gone : <<f, p>> \notin flags
    BY DEF IInv, Unmarked
  <1>3. \A f \in Files, q \in Policies :
            <<f, q, Directory>> \in stored' <=>
                <<f, q, Directory>> \in stored /\ ~(q = p /\ f \in gone)
    OBVIOUS
  <1> QED
    BY <1>1, <1>2, <1>3

(* The removal, and the choice of the next policy.                             *)
LEMMA InvRemoveFiles == IInv /\ RemoveFiles => IInv'
  <1> SUFFICES ASSUME IInv, RemoveFiles PROVE IInv'
    OBVIOUS
  <1>1. /\ at = "remove" /\ policies # <<>>
        /\ UNCHANGED <<setup, flags, wrapper, next, firstCode, restarts>>
    BY DEF RemoveFiles, IInv, AllFlagged
  <1>2. PICK p \in Policies : p = Policy
    BY <1>1, ListedPolicies DEF IInv, Shape
  <1>3. /\ status \in StatusType /\ policies \in PolicyLists /\ at \in Copying
        /\ wrapper \in {None, code}
    BY <1>1 DEF IInv, Shape, Judged, Copying
  <1>4. PICK gone \in SUBSET ToClean(Policy) :
            /\ stored' = stored \ (gone \X {Policy} \X {Directory})
            /\ \/ /\ Policy = "local" => gone = ToClean(Policy)
                  /\ completed' = IF Policy = "local" THEN completed \cap {Log} ELSE completed
                  /\ direct' = IF Policy = "remote" THEN {} ELSE direct
                  /\ status' = Cleaned(Policy) /\ policies' = After(Cleaned(Policy)) /\ at' = "logs"
                  /\ UNCHANGED <<exit, code, exitInfo>>
               \/ /\ Policy = "local" /\ gone # ToClean(Policy)
                  /\ Raises /\ UNCHANGED <<status, policies, completed, direct>>
    BY DEF RemoveFiles
  <1>5. /\ stored' \subseteq stored
        /\ \A f \in Files, q \in Policies : <<f, q>> \in flags' => <<f, q, Directory>> \in stored'
    BY <1>1, <1>2, <1>4, Removing
  <1>6. /\ CleanWanted
        /\ {f \in Files : <<f, "local">> \in flags}
             = IF p = "local" THEN completed \cap {Log} ELSE completed
    BY <1>1, <1>2 DEF IInv, Unmarked
  <1>7. CASE Raises /\ UNCHANGED <<status, policies, completed, direct>>
    <2>1. 80000 \in ErrorCodes
      BY DEF ErrorCodes
    <2>2. completed' \subseteq Files /\ direct' \subseteq Files
      BY <1>7 DEF IInv, TypeOK
    <2> QED
      BY <1>1, <1>3, <1>5, <1>7, <2>1, <2>2, InvEnds DEF Raises
  <1>8. CASE /\ completed' = IF Policy = "local" THEN completed \cap {Log} ELSE completed
             /\ direct' = IF Policy = "remote" THEN {} ELSE direct
             /\ status' = Cleaned(Policy) /\ policies' = After(Cleaned(Policy)) /\ at' = "logs"
             /\ UNCHANGED <<exit, code, exitInfo>>
    <2>1. status' = Cleaned(p) /\ policies' = After(Cleaned(p)) /\ at' = "logs" /\ at' \in Copying
      BY <1>2, <1>8 DEF Copying
    <2>2. /\ status' \in StatusType
          /\ status'.valid = status.valid /\ status'.exist = status.exist
          /\ status'.inReport = status.inReport /\ status'.init = status.init
          /\ status'.outputs[p] # 0
          /\ \A q \in Policies \ {p} : /\ status'.logs[q] = status.logs[q]
                                       /\ status'.outputs[q] = status.outputs[q]
      BY <1>3, <2>1, CleanedStatus
    <2>3. /\ policies' \in PolicyLists
          /\ \A q \in Policies : Listed(q)' => Listed(q) /\ q # p
      BY <1>1, <1>2, <1>3, <2>1, AfterPolicy
    <2>4. firstCode # None
      BY <1>2, <1>3, <1>6 DEF IInv, FailureKept, CleanWanted
    <2>5. TypeOK'
      <3>1. Len(policies') <= 2
        BY <2>3, AtMostTwo
      <3>2. {f \in Files : <<f, "local">> \in flags'} = completed' /\ completed' \subseteq Files
        BY <1>1, <1>2, <1>6, <1>8 DEF IInv, TypeOK
      <3>3. direct' \subseteq Files
        BY <1>8 DEF IInv, TypeOK
      <3> QED
        BY <1>1, <1>5, <1>8, <3>1, <3>2, <3>3 DEF IInv, TypeOK
    <2>6. Shape'
      BY <1>1, <1>8, <2>1, <2>2, <2>3 DEF IInv, Shape
    <2>7. NothingKnown' /\ Judged' /\ Recorded' /\ SuccessIsStored'
      BY <1>1, <1>3, <1>8, <2>1, <2>2, CopyingKeeps
    <2>8. UntriedClean'
      BY <1>1, <1>2, <1>3, <2>2, <2>3 DEF IInv, UntriedClean, Untried
    <2>9. FailureKept'
      BY <1>1, <2>4 DEF FailureKept
    <2>10. AllFlagged'
      <3>1. ASSUME NEW q \in Policies, status'.outputs[q] = 0, NEW f \in 1..setup.outputs
            PROVE  <<f, q>> \in flags'
        <4>1. q # p /\ status.outputs[q] = 0
          BY <2>2, <3>1
        <4> QED
          BY <1>1, <1>2, <1>3, <4>1 DEF IInv, AllFlagged
      <3> QED
        BY <1>1, <2>1, <3>1 DEF AllFlagged
    <2>11. ReportedIsStored'
      BY <1>1, <1>5 DEF ReportedIsStored, Directory
    <2>12. Unmarked'
      BY <2>1 DEF Unmarked
    <2> QED
      BY <2>5, <2>6, <2>7, <2>8, <2>9, <2>10, <2>11, <2>12 DEF IInv
  <1> QED
    BY <1>4, <1>7, <1>8

(* The end of main: without a failure to tell the outputs are there.           *)
LEMMA InvCmscpEnds == IInv /\ CmscpEnds => IInv'
  <1> SUFFICES ASSUME IInv, CmscpEnds PROVE IInv'
    OBVIOUS
  <1> DEFINE result == IF StageoutFailed THEN UpdateExitInfo(exitInfo, firstCode) ELSE exitInfo
  <1>1. /\ at = "logs" /\ policies = <<>> /\ Ends(result)
        /\ UNCHANGED <<setup, flags, wrapper, status, policies, next, firstCode, completed, direct, stored,
                       restarts>>
    BY DEF CmscpEnds
  <1>2. /\ exitInfo \in {0} \cup ErrorCodes /\ firstCode \in {None} \cup ErrorCodes
        /\ at \in Copying /\ policies \in PolicyLists
    BY <1>1 DEF IInv, Shape, Copying
  <1>3. /\ wrapper \in {None, code} /\ (wrapper = None => exitInfo # 0)
    BY <1>1, <1>2 DEF IInv, Judged
  <1>4. PICK info \in {0} \cup ErrorCodes : info = result
    BY <1>2, ErrorStatus DEF UpdateExitInfo
  <1>5. info = 0 => exitInfo = 0 /\ (StageoutFailed => firstCode = None)
    BY <1>2, <1>4, ErrorStatus DEF UpdateExitInfo
  <1>6. ASSUME info = 0, wrapper \in {0, None} PROVE SuccessIsStored'
    <2>1. wrapper = 0 /\ exitInfo = 0 /\ Directory' = "done" /\ Directory = "done"
      BY <1>1, <1>3, <1>5, <1>6 DEF Directory
    <2>2. PICK p \in Policies : status.outputs[p] = 0
      <3>1. CASE firstCode = None
        <4>1. PICK q \in Policies : status.init[q] = 0
          BY <1>2, <2>1 DEF IInv, Recorded
        <4>2. ~Untried(q) /\ ~(at = "files" /\ q = Policy)
          BY <1>1, <1>2, ListedPolicies DEF Untried
        <4> QED
          BY <1>2, <3>1, <4>1, <4>2 DEF IInv, FailureKept
      <3>2. CASE firstCode # None
        BY <1>5, <1>6, <3>2 DEF StageoutFailed, Missing
      <3> QED
        BY <3>1, <3>2
    <2>3. \A f \in 1..setup.outputs : <<f, p>> \in flags
      BY <1>1, <1>2, <2>2 DEF IInv, AllFlagged
    <2>4. \A f \in 1..setup.outputs : <<f, p, "done">> \in stored
      <3>1. \A f \in 1..setup.outputs : f \in Files
        BY <2>3 DEF IInv, TypeOK
      <3> QED
        BY <2>1, <2>3, <3>1 DEF IInv, ReportedIsStored
    <2> QED
      BY <1>1, <2>3, <2>4 DEF SuccessIsStored
  <1>7. Ends(info)
    BY <1>1, <1>4 DEF Ends
  <1>8. /\ flags' \subseteq flags /\ completed' \subseteq Files /\ direct' \subseteq Files
        /\ stored' \subseteq stored
        /\ \A f \in Files, p \in Policies : <<f, p>> \in flags' => <<f, p, Directory>> \in stored'
    BY <1>1 DEF IInv, TypeOK, ReportedIsStored
  <1> HIDE DEF result
  <1> QED
    BY <1>1, <1>2, <1>3, <1>6, <1>7, <1>8, InvEnds

-------------------------------------------------------------------------------
(* The theorems.                                                               *)

(* The inductive invariant holds in every reachable state.                     *)
THEOREM Invariance == Spec => []IInv
  <1>1. Init => IInv
    BY InvInit
  <1>2. IInv /\ [Next]_vars => IInv'
    <2> SUFFICES ASSUME IInv, [Next]_vars PROVE IInv'
      OBVIOUS
    <2>1. CASE UNCHANGED vars
      <3>1. (/\ TypeOK /\ Shape /\ NothingKnown /\ Judged /\ Recorded /\ UntriedClean /\ FailureKept
             /\ AllFlagged /\ ReportedIsStored /\ SuccessIsStored)'
        BY <2>1 DEF vars, report, cmscp, IInv, TypeOK, Shape, NothingKnown, Judged, Recorded,
                    UntriedClean, FailureKept, AllFlagged, ReportedIsStored, SuccessIsStored,
                    OutputsCondition, OutputsWanted, Ready, Untried, Listed, Policy, Directory
      <3>2. Unmarked'
        BY <2>1 DEF vars, report, cmscp, IInv, Unmarked, CleanWanted, Failed, ToClean, Policy
      <3> QED
        BY <3>1, <3>2 DEF IInv
    <2> QED
      BY <2>1, InvCMSRunAnalysis, InvReadJobAd, InvValidateReport, InvCheckOutputs,
         InvMakeLogsArchive, InvInitStageout, InvStageLogs, InvStageOutput, InvCleanStageoutArea,
         InvRemoveFiles, InvCmscpEnds, InvDies, InvEvicted DEF Next
  <1> QED
    BY <1>1, <1>2, PTL DEF Spec

(* Type correctness of the job wrapper.                                        *)
THEOREM TypeCorrect == Spec => []TypeOK
  <1>1. IInv => TypeOK
    BY DEF IInv
  <1> QED
    BY <1>1, Invariance, PTL

(* For any number of outputs, ad, code and eviction: what the report flags as  *)
(* staged out is there.                                                        *)
THEOREM FlagsAreStored == Spec => []ReportedIsStored
  <1>1. IInv => ReportedIsStored
    BY DEF IInv
  <1> QED
    BY <1>1, Invariance, PTL

(* And whatever failed on the way, a job that looks like a success has all of  *)
(* the outputs that were asked for staged out with one policy.                 *)
THEOREM SuccessesAreStored == Spec => []SuccessIsStored
  <1>1. IInv => SuccessIsStored
    BY DEF IInv
  <1> QED
    BY <1>1, Invariance, PTL

-------------------------------------------------------------------------------
(* A run of the wrapper ends.                                                  *)

(* What it takes to try a number of policies: for each one the logs, the       *)
(* outputs and the cleaning.                                                   *)
PolicySteps(n) == n * (setup.outputs + 3)

(* The steps that the wrapper may still take, at most.                         *)
StepsLeft ==
    CASE at = "end"     -> 0
      [] at = "logs"    -> PolicySteps(Len(policies)) + 1
      [] at = "files"   -> PolicySteps(Len(policies) - 1) + (setup.outputs - next) + 4
      [] at = "clean"   -> PolicySteps(Len(policies) - 1) + 3
      [] at = "remove"  -> PolicySteps(Len(policies) - 1) + 2
      [] at = "init"    -> PolicySteps(2) + 2
      [] at = "archive" -> PolicySteps(2) + 3
      [] at = "outputs" -> PolicySteps(2) + 4
      [] at = "report"  -> PolicySteps(2) + 5
      [] at = "ad"      -> PolicySteps(2) + 6
      [] at = "run"     -> PolicySteps(2) + 7

MaxSteps == 2 * NumOutputs + 13

(* What the invariant says of the numbers.                                     *)
LEMMA Numbers ==
    ASSUME IInv
    PROVE  /\ setup.outputs \in Nat /\ NumOutputs \in Nat /\ setup.outputs <= NumOutputs
           /\ next \in Nat /\ (at = "files" => next <= setup.outputs) /\ Len(policies) \in 0..2
           /\ at \in {"files", "clean", "remove"} => Len(policies) >= 1
           /\ at \in Early \cup Checking \cup Copying \cup {"end"}
  <1>1. setup.outputs \in 0..NumOutputs /\ NumOutputs \in Nat
    BY JobWrapperAssumption DEF IInv, TypeOK
  <1>2. next \in 1..(NumOutputs + 1)
    BY DEF IInv, TypeOK
  <1>3. /\ Len(policies) \in 0..2 /\ (policies # <<>> => Len(policies) >= 1)
    BY PolicyList DEF IInv, Shape
  <1>4. at \in {"files", "clean", "remove"} => policies # <<>>
    BY DEF IInv, AllFlagged
  <1>5. at = "files" => next <= setup.outputs
    BY DEF IInv, AllFlagged
  <1>6. at \in Early \cup Checking \cup Copying \cup {"end"}
    BY DEF IInv, Shape
  <1> QED
    BY <1>1, <1>2, <1>3, <1>4, <1>5, <1>6

(* There are at most two policies to try.                                      *)
LEMMA PoliciesToTry ==
    ASSUME setup.outputs \in Nat
    PROVE  /\ PolicySteps(0) = 0 /\ PolicySteps(1) = setup.outputs + 3
           /\ PolicySteps(2) = 2 * setup.outputs + 6
  BY DEF PolicySteps

(* and at least one for which logs or outputs are copied, or cleaned.          *)
LEMMA PolicyAtWork ==
    ASSUME setup.outputs \in Nat, NEW n \in 0..2
    PROVE  /\ PolicySteps(n) \in 0..PolicySteps(2)
           /\ n >= 1 => /\ PolicySteps(n - 1) \in Nat
                        /\ PolicySteps(n) = PolicySteps(n - 1) + setup.outputs + 3
  <1>1. CASE n = 0
    BY <1>1, PoliciesToTry
  <1>2. CASE n = 1
    BY <1>2, PoliciesToTry
  <1>3. CASE n = 2
    BY <1>3, PoliciesToTry
  <1> QED
    BY <1>1, <1>2, <1>3

(* All that is to be tried takes no more than two policies.                    *)
LEMMA StepsToTry ==
    ASSUME IInv
    PROVE  \E a, b \in Nat : /\ a = PolicySteps(Len(policies)) /\ b = PolicySteps(2)
                            /\ b = 2 * setup.outputs + 6 /\ a <= b
  <1>1. setup.outputs \in Nat /\ Len(policies) \in 0..2
    BY Numbers
  <1>2. PolicySteps(2) \in Nat /\ PolicySteps(2) = 2 * setup.outputs + 6
    BY <1>1, PoliciesToTry
  <1>3. PolicySteps(Len(policies)) \in 0..PolicySteps(2)
    BY <1>1, PolicyAtWork
  <1> QED
    BY <1>2, <1>3

(* The wrapper never has more than twice the outputs, and thirteen steps left, *)
(* and one at least before its end.                                            *)
LEMMA StepsBounded == ASSUME IInv PROVE StepsLeft \in 0..MaxSteps /\ (at # "end" => StepsLeft >= 1)
  <1>1. PICK n \in Nat, m \in Nat : n = setup.outputs /\ m = NumOutputs /\ n <= m
    BY Numbers
  <1>2. /\ next \in Nat /\ (at = "files" => next <= n) /\ Len(policies) \in 0..2
        /\ at \in {"files", "clean", "remove"} => Len(policies) >= 1
    BY <1>1, Numbers
  <1>3. PICK a \in Nat, b \in Nat :
          a = PolicySteps(Len(policies)) /\ b = PolicySteps(2) /\ b = 2 * n + 6 /\ a <= b
    BY <1>1, StepsToTry
  <1>4. PICK s \in Nat : s = MaxSteps /\ s = 2 * m + 13
    BY <1>1 DEF MaxSteps
  <1>5. b = 2 * n + 6 /\ a <= b
    BY <1>3
  <1>6. b + 7 <= s
    BY <1>1, <1>4, <1>5
  <1>7. ASSUME NEW k \in 0..7 PROVE b + k \in 0..s /\ a + k \in 0..s
    BY <1>5, <1>6
  <1>8. CASE at = "end"
    <2>1. StepsLeft = 0
      BY <1>8 DEF StepsLeft
    <2> QED
      BY <1>4, <1>8, <2>1
  <1>9. CASE at \in Early \cup Checking
    <2>1. StepsLeft \in {b + 2, b + 3, b + 4, b + 5, b + 6, b + 7}
      BY <1>3, <1>9 DEF StepsLeft, Early, Checking
    <2>2. PICK k \in 2..7 : StepsLeft = b + k
      BY <2>1
    <2>3. b + k \in 0..s /\ b + k >= 1
      BY <1>7
    <2> QED
      BY <1>4, <2>2, <2>3
  <1>10. CASE at = "logs"
    <2>1. StepsLeft = a + 1
      BY <1>3, <1>10 DEF StepsLeft
    <2>2. a + 1 \in 0..s /\ a + 1 >= 1
      BY <1>7
    <2> QED
      BY <1>4, <2>1, <2>2
  <1>11. CASE at \in {"files", "clean", "remove"}
    <2>1. PICK d \in Nat : d = PolicySteps(Len(policies) - 1) /\ a = d + n + 3
      BY <1>1, <1>2, <1>3, <1>11, PolicyAtWork
    <2>2. /\ at = "files" => StepsLeft = d + (n - next) + 4
          /\ at = "clean" => StepsLeft = d + 3
          /\ at = "remove" => StepsLeft = d + 2
      BY <1>1, <2>1 DEF StepsLeft
    <2>3. d + n + 4 <= s
      <3>1. a = d + n + 3 /\ a + 1 <= s
        BY <1>7, <2>1
      <3> QED
        BY <3>1
    <2>4. CASE at = "files"
      <3>1. next \in Nat /\ next <= n
        BY <1>2, <2>4
      <3>2. d + (n - next) + 4 \in 1..s
        BY <2>3, <3>1
      <3> QED
        BY <1>4, <2>2, <2>4, <3>2
    <2>5. CASE at \in {"clean", "remove"}
      <3>1. d + 2 \in 1..s /\ d + 3 \in 1..s
        BY <1>1, <2>3
      <3> QED
        BY <1>4, <2>2, <2>5, <3>1
    <2> QED
      BY <1>11, <2>4, <2>5
  <1> QED
    BY <1>8, <1>9, <1>10, <1>11, Numbers DEF Copying

(* The steps that are left at each place, told by how it stands to the others. *)
LEMMA StepsAt ==
    ASSUME IInv, NEW d \in Nat, at \in Copying => d = PolicySteps(Len(policies) - 1)
    PROVE  /\ at = "files" => StepsLeft = d + (setup.outputs - next) + 4
           /\ at = "clean" => StepsLeft = d + 3
           /\ at = "remove" => StepsLeft = d + 2
           /\ at = "logs" /\ policies # <<>> => StepsLeft = d + setup.outputs + 4
  <1>1. /\ at = "files" => StepsLeft = d + (setup.outputs - next) + 4
        /\ at = "clean" => StepsLeft = d + 3
        /\ at = "remove" => StepsLeft = d + 2
    BY DEF StepsLeft, Copying
  <1>2. ASSUME at = "logs", policies # <<>> PROVE StepsLeft = d + setup.outputs + 4
    <2>1. setup.outputs \in Nat /\ Len(policies) \in 0..2 /\ Len(policies) >= 1
      BY <1>2, Numbers, PolicyList DEF IInv, Shape
    <2>2. PolicySteps(Len(policies)) = d + setup.outputs + 3
      BY <1>2, <2>1, PolicyAtWork DEF Copying
    <2>3. StepsLeft = PolicySteps(Len(policies)) + 1
      BY <1>2 DEF StepsLeft
    <2> QED
      BY <2>1, <2>2, <2>3
  <1> QED
    BY <1>1, <1>2

(* On the way to the first copy.                                               *)
LEMMA GoesForward ==
    ASSUME IInv, UNCHANGED setup,
           <<at, at'>> \in {<<"run", "ad">>, <<"ad", "report">>, <<"report", "outputs">>,
                            <<"outputs", "archive">>, <<"archive", "init">>}
    PROVE  StepsLeft' < StepsLeft
  <1>1. PICK b \in Nat : b = PolicySteps(2)
    BY Numbers, PoliciesToTry
  <1>2. PolicySteps(2)' = b
    BY <1>1 DEF PolicySteps
  <1> QED
    BY <1>1, <1>2 DEF StepsLeft

(* The end.                                                                    *)
LEMMA GoesToEnd ==
    ASSUME IInv, at # "end", at' = "end"
    PROVE  StepsLeft' < StepsLeft
  <1>1. StepsLeft' = 0
    BY DEF StepsLeft
  <1>2. NumOutputs \in Nat /\ StepsLeft \in 0..MaxSteps /\ StepsLeft >= 1
    BY Numbers, StepsBounded
  <1> QED
    BY <1>1, <1>2 DEF MaxSteps

(* The logs and the outputs: the policies to try stay what they are.           *)
LEMMA CopyAdvances ==
    ASSUME IInv, StageLogs \/ StageOutput
    PROVE  StepsLeft' < StepsLeft
  <1>1. /\ UNCHANGED <<setup, policies>> /\ policies # <<>> /\ at \in Copying
        /\ \/ at = "logs" /\ at' = "files" /\ next' = 1
           \/ at = "files" /\ at' = "files" /\ next' = next + 1
           \/ at = "files" /\ at' = "clean"
    BY DEF StageLogs, StageOutput, Goes, Copying, IInv, AllFlagged
  <1>2. /\ setup.outputs \in Nat /\ next \in Nat /\ (at = "files" => next <= setup.outputs)
        /\ Len(policies) \in 0..2 /\ Len(policies) >= 1
    BY <1>1, Numbers, PolicyList DEF IInv, Shape
  <1>3. PICK d \in Nat : d = PolicySteps(Len(policies) - 1)
    BY <1>2, PolicyAtWork
  <1>4. PolicySteps(Len(policies) - 1)' = d
    BY <1>1, <1>3 DEF PolicySteps
  <1>5. /\ at' = "files" => StepsLeft' = d + (setup.outputs - next') + 4
        /\ at' = "clean" => StepsLeft' = d + 3
    BY <1>1, <1>4 DEF StepsLeft
  <1>6. /\ at = "files" => StepsLeft = d + (setup.outputs - next) + 4
        /\ at = "logs" => StepsLeft = d + setup.outputs + 4
    BY <1>1, <1>3, StepsAt
  <1>7. CASE at = "logs" /\ at' = "files" /\ next' = 1
    BY <1>2, <1>5, <1>6, <1>7
  <1>8. CASE at = "files" /\ at' = "files" /\ next' = next + 1
    BY <1>2, <1>5, <1>6, <1>8
  <1>9. CASE at = "files" /\ at' = "clean"
    BY <1>2, <1>5, <1>6, <1>9
  <1> QED
    BY <1>1, <1>7, <1>8, <1>9

(* A policy that has been tried is not tried again.                            *)
LEMMA CleaningAdvances ==
    ASSUME IInv, CleanStageoutArea \/ RemoveFiles, at' # "end"
    PROVE  StepsLeft' < StepsLeft
  <1>1. /\ UNCHANGED setup
        /\ \/ at = "clean" /\ at' = "remove" /\ policies' = policies
           \/ at \in {"clean", "remove"} /\ at' = "logs" /\ policies' \in {<<>>, Tail(policies)}
    BY DEF CleanStageoutArea, RemoveFiles, Raises, Ends, After
  <1>2. /\ setup.outputs \in Nat /\ policies \in PolicyLists /\ policies # <<>>
        /\ Len(policies) \in 0..2 /\ Len(policies) >= 1
    BY <1>1, Numbers DEF IInv, Shape, AllFlagged
  <1>3. PICK d \in Nat : d = PolicySteps(Len(policies) - 1)
    BY <1>2, PolicyAtWork
  <1>4. StepsLeft = IF at = "clean" THEN d + 3 ELSE d + 2
    BY <1>1, <1>3, StepsAt DEF Copying
  <1>5. CASE at' = "remove"
    <2>1. StepsLeft' = d + 2 /\ at = "clean"
      BY <1>1, <1>3, <1>5 DEF StepsLeft, PolicySteps
    <2> QED
      BY <1>4, <2>1
  <1>6. CASE at' # "remove"
    <2>1. at' = "logs" /\ policies' \in {<<>>, Tail(policies)}
      BY <1>1, <1>6
    <2>2. PICK e \in Nat : e = PolicySteps(Len(policies')) /\ e <= d
      <3>1. CASE policies' = Tail(policies)
        <4>1. Len(policies') = Len(policies) - 1
          BY <1>2, <3>1 DEF PolicyLists
        <4> QED
          BY <1>3, <4>1
      <3>2. CASE policies' = <<>>
        <4>1. Len(policies') = 0
          BY <3>2
        <4> QED
          BY <1>2, <1>3, <4>1, PoliciesToTry
      <3> QED
        BY <2>1, <3>1, <3>2
    <2>3. StepsLeft' = e + 1
      BY <1>1, <2>1, <2>2 DEF StepsLeft, PolicySteps
    <2> QED
      BY <1>4, <2>2, <2>3
  <1> QED
    BY <1>5, <1>6

(* Each step but an eviction leaves fewer.                                     *)
LEMMA WrapperStep ==
    ASSUME IInv, Next
    PROVE  Evicted \/ StepsLeft' < StepsLeft
  <1>1. CASE CMSRunAnalysis
    <2>1. at = "run" /\ at' \in {"ad", "end"} /\ UNCHANGED setup
      BY <1>1 DEF CMSRunAnalysis
    <2> QED
      BY <2>1, GoesForward, GoesToEnd
  <1>2. CASE ReadJobAd
    <2>1. at = "ad" /\ at' \in {"report", "end"} /\ UNCHANGED setup
      BY <1>2 DEF ReadJobAd, Raises, Ends, Goes
    <2> QED
      BY <2>1, GoesForward, GoesToEnd
  <1>3. CASE ValidateReport \/ CheckOutputs \/ MakeLogsArchive
    <2>1. /\ UNCHANGED setup
          /\ <<at, at'>> \in {<<"report", "outputs">>, <<"outputs", "archive">>, <<"archive", "init">>}
      BY <1>3 DEF ValidateReport, CheckOutputs, MakeLogsArchive, Goes
    <2> QED
      BY <2>1, GoesForward
  <1>4. CASE InitStageout
    <2>1. at = "init" /\ at' = "logs" /\ UNCHANGED <<setup, policies>>
      BY <1>4 DEF InitStageout, Goes
    <2>2. PICK a \in Nat, b \in Nat : a = PolicySteps(Len(policies)) /\ b = PolicySteps(2) /\ a <= b
      BY StepsToTry
    <2>3. StepsLeft = b + 2
      BY <2>1, <2>2 DEF StepsLeft
    <2>4. StepsLeft' = a + 1
      BY <2>1, <2>2 DEF StepsLeft, PolicySteps
    <2> QED
      BY <2>2, <2>3, <2>4
  <1>5. CASE StageLogs \/ StageOutput
    BY <1>5, CopyAdvances
  <1>6. CASE CleanStageoutArea \/ RemoveFiles
    <2>1. at \in {"clean", "remove"}
      BY <1>6 DEF CleanStageoutArea, RemoveFiles
    <2> QED
      BY <1>6, <2>1, CleaningAdvances, GoesToEnd
  <1>7. CASE CmscpEnds \/ Dies
    <2>1. at # "end" /\ at' = "end"
      BY <1>7 DEF CmscpEnds, Ends, Dies
    <2> QED
      BY <2>1, GoesToEnd
  <1> QED
    BY <1>1, <1>2, <1>3, <1>4, <1>5, <1>6, <1>7 DEF Next

(* A run of the wrapper that is not evicted comes to its end, in MaxSteps steps*)
(* at most, whatever fails: no policy is tried twice (the loop over them in    *)
(* main of cmscp.py), and an output is not tried again after it failed.        *)
THEOREM WrapperAdvances ==
    Spec => [](StepsLeft \in 0..MaxSteps) /\ [][Evicted \/ StepsLeft' < StepsLeft]_vars
  <1>1. IInv => StepsLeft \in 0..MaxSteps
    BY StepsBounded
  <1>2. IInv => [Next => Evicted \/ StepsLeft' < StepsLeft]_vars
    BY WrapperStep
  <1> QED
    BY <1>1, <1>2, Invariance, PTL DEF Spec
===============================================================================
