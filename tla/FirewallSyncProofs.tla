-------------------------- MODULE FirewallSyncProofs --------------------------
(***************************************************************************)
(* The operator's own ports survive, for any set of ports and any number   *)
(* of changes, failures, crashes and late requests.                        *)
(*                                                                         *)
(* OperatorPortsKept is not inductive: a request in progress closes the    *)
(* ports it took from the ledger and will write a ledger of its own, so    *)
(* neither may name a port of the operator, nor may the ports it opens,    *)
(* which enter the ledger.  Those come from the ports that were not open   *)
(* when the request started: that the operator's are always open is what   *)
(* keeps them out.                                                         *)
(*                                                                         *)
(* RecordedStatusTrue needs in addition that what a request will report    *)
(* stays true until it is answered (JobReports): it never closes a port it *)
(* has reported, since what it closes and what it was asked for are        *)
(* disjoint.                                                               *)
(***************************************************************************)
EXTENDS FirewallSync, TLAPS

\* The request in progress touches no port of the operator's, and the port it is
\* half done with is one it set out to open, or to close once all are open.
JobSpares ==
  /\ (job.add \cup job.del \cup job.led) \cap Operator = {}
  /\ job.half # None => job.half \in IF job.add = {} THEN job.del ELSE job.add

FirewallInv == TypeOK /\ JobSpares /\ OperatorPortsKept

\* The operator's ports are safe with an idle backend.
LEMMA NoJobSpares == ASSUME job' = NoJob PROVE JobSpares'
BY DEF JobSpares, NoJob

\* An idle agent is a job like any other to the types.
LEMMA NoJobTyped == NoJob \in Job
BY FirewallAssumption DEF NoJob, NoReport, Job, Reports

\* A failed sync records a state for every port.
LEMMA FailedTyped == ASSUME NEW S PROVE Failed(S) \in [Keys -> Reports]
BY DEF Failed, Reports

\* So does a manager that has recorded nothing yet.
LEMMA NoReportTyped == NoReport \in [Keys -> Reports]
BY DEF NoReport, Reports

\* Steps of the store and of the manager, which leave the backend alone.
LEMMA BackendKept ==
  ASSUME FirewallInv, UNCHANGED <<open, perm, ledger>>,
         job' = job \/ job' = NoJob \/ job' = [job EXCEPT !.awaited = FALSE]
  PROVE  JobSpares' /\ OperatorPortsKept'
<1>1. OperatorPortsKept'
  BY DEF FirewallInv, OperatorPortsKept
<1>2. JobSpares'
  <2>1. CASE job' = job
    BY <2>1 DEF FirewallInv, JobSpares
  <2>2. CASE job' = NoJob
    BY <2>2, NoJobSpares
  <2>3. CASE job' = [job EXCEPT !.awaited = FALSE]
    BY <2>3 DEF FirewallInv, JobSpares, TypeOK, Job
  <2> QED BY <2>1, <2>2, <2>3
<1> QED BY <1>1, <1>2

\* At first only the operator's ports are open and nobody works.
LEMMA FirewallInit == Init => FirewallInv
<1> SUFFICES ASSUME Init PROVE FirewallInv
  OBVIOUS
<1>1. TypeOK
  BY NoJobTyped, NoReportTyped, FirewallAssumption DEF Init, TypeOK
<1>2. JobSpares
  BY DEF Init, JobSpares, NoJob
<1>3. OperatorPortsKept
  BY DEF Init, OperatorPortsKept
<1> QED BY <1>1, <1>2, <1>3 DEF FirewallInv

\* A fault is counted.
LEMMA FaultTyped == ASSUME faults \in Nat, Fault PROVE faults' \in Nat
BY DEF Fault

-----------------------------------------------------------------------------
(* One lemma per action *)

\* What is saved has the shape of what is in memory.
LEMMA SaveTyped ==
  ASSUME FirewallInv, SaveAndSync, want' \subseteq Keys \ Own, managed' \in BOOLEAN
  PROVE  /\ disk' \in [want : SUBSET (Keys \ Own), managed : BOOLEAN]
         /\ owed' \in BOOLEAN
         /\ faults' \in Nat
<1>1. CASE /\ disk' = [want |-> want', managed |-> managed']
           /\ owed' = TRUE
           /\ UNCHANGED faults
  BY <1>1 DEF FirewallInv, TypeOK
<1>2. CASE Fault /\ UNCHANGED <<disk, owed>>
  BY <1>2, FaultTyped DEF FirewallInv, TypeOK
<1> QED BY <1>1, <1>2 DEF SaveAndSync

\* A forward comes or goes: only what is wanted changes.
LEMMA ChangeForwardStep ==
  ASSUME FirewallInv, NEW k \in Keys, ChangeForward(k)
  PROVE  FirewallInv'
<1>1. TypeOK'
  <2>1. want' \subseteq Keys \ Own /\ managed' \in BOOLEAN
    BY DEF ChangeForward, FirewallInv, TypeOK
  <2> QED BY <2>1, SaveTyped DEF ChangeForward, FirewallInv, TypeOK
<1>2. JobSpares' /\ OperatorPortsKept'
  BY BackendKept DEF ChangeForward
<1> QED BY <1>1, <1>2 DEF FirewallInv

\* The firewall mode is set: only what is wanted changes.
LEMMA ChangeModeStep ==
  ASSUME FirewallInv, ChangeMode
  PROVE  FirewallInv'
<1>1. TypeOK'
  <2>1. want' \subseteq Keys \ Own /\ managed' \in BOOLEAN
    BY DEF ChangeMode, FirewallInv, TypeOK
  <2> QED BY <2>1, SaveTyped DEF ChangeMode, FirewallInv, TypeOK
<1>2. JobSpares' /\ OperatorPortsKept'
  BY BackendKept DEF ChangeMode
<1> QED BY <1>1, <1>2 DEF FirewallInv

\* The manager's timer or a trigger asks for another sync.
LEMMA TimerFiresStep ==
  ASSUME FirewallInv, TimerFires
  PROVE  FirewallInv'
<1>1. TypeOK'
  BY DEF TimerFires, FirewallInv, TypeOK
<1>2. JobSpares' /\ OperatorPortsKept'
  BY BackendKept DEF TimerFires
<1> QED BY <1>1, <1>2 DEF FirewallInv

\* Sync sends what is wanted now to the agent, or fails to reach it.
LEMMA SyncStartsStep ==
  ASSUME FirewallInv, SyncStarts
  PROVE  FirewallInv'
<1>1. TypeOK'
  <2>1. status' \in [Keys -> Reports]
    BY FailedTyped, NoReportTyped DEF SyncStarts, FirewallInv, TypeOK
  <2>2. inbox' \subseteq Request
    <3>1. [rules |-> Desired, awaited |-> TRUE] \in Request
      BY FirewallAssumption DEF FirewallInv, TypeOK, Request, Desired
    <3>2. inbox' = inbox \/ inbox' = inbox \cup {[rules |-> Desired, awaited |-> TRUE]}
      BY DEF SyncStarts
    <3> QED BY <3>1, <3>2 DEF FirewallInv, TypeOK
  <2>3. faults' \in Nat
    BY FaultTyped DEF SyncStarts, FirewallInv, TypeOK
  <2> QED BY <2>1, <2>2, <2>3 DEF SyncStarts, FirewallInv, TypeOK
<1>2. JobSpares' /\ OperatorPortsKept'
  BY BackendKept DEF SyncStarts
<1> QED BY <1>1, <1>2 DEF FirewallInv

\* Giving up on requests keeps their shape.
LEMMA AbandonTyped ==
  ASSUME FirewallInv, Abandon
  PROVE  /\ inbox' \subseteq Request
         /\ job' \in Job
         /\ ~job'.busy => job' = NoJob
<1>1. inbox' \subseteq Request
  BY DEF Abandon, FirewallInv, TypeOK, Request
<1>2. job' \in Job
  BY DEF Abandon, FirewallInv, TypeOK, Job
<1>3. ASSUME ~job'.busy PROVE job' = NoJob
  <2>1. job = NoJob
    BY <1>3 DEF Abandon, FirewallInv, TypeOK, Job
  <2> QED BY <2>1 DEF Abandon, NoJob
<1> QED BY <1>1, <1>2, <1>3

\* Sync gives up at its deadline; the agent goes on with the request.
LEMMA GiveUpStep ==
  ASSUME FirewallInv, GiveUp
  PROVE  FirewallInv'
<1>1. TypeOK'
  BY FailedTyped, AbandonTyped DEF GiveUp, FirewallInv, TypeOK
<1>2. JobSpares' /\ OperatorPortsKept'
  BY BackendKept DEF GiveUp, Abandon
<1> QED BY <1>1, <1>2 DEF FirewallInv

\* What the backend opens or closes was not open before or is in the ledger, and
\* the operator's ports are neither.
LEMMA JobStartsStep ==
  ASSUME FirewallInv, NEW r \in inbox, JobStarts(r)
  PROVE  FirewallInv'
<1>r. r.rules \subseteq Keys /\ r.awaited \in BOOLEAN
  BY DEF FirewallInv, TypeOK, Request
<1>1. CASE job' = job
  <2>1. status' \in [Keys -> Reports]
    BY FailedTyped DEF JobStarts, Answer, FirewallInv, TypeOK
  <2>2. TypeOK'
    BY <1>1, <2>1, FaultTyped DEF JobStarts, FirewallInv, TypeOK
  <2>3. JobSpares' /\ OperatorPortsKept'
    BY <1>1, BackendKept DEF JobStarts
  <2> QED BY <2>2, <2>3 DEF FirewallInv
<1>2. CASE job' # job
  <2> DEFINE res == [k \in Keys |-> IF k \notin r.rules \cap open THEN "none"
                                    ELSE IF k \in ledger THEN "open" ELSE "existing"]
  <2>1. /\ job' = [busy |-> TRUE, rules |-> r.rules, awaited |-> r.awaited,
                   add |-> r.rules \ open, del |-> ledger \ r.rules, half |-> None,
                   led |-> ledger, res |-> res]
        /\ UNCHANGED <<status, faults>>
    BY <1>2 DEF JobStarts
  <2>2. res \in [Keys -> Reports]
    BY DEF Reports
  <2> HIDE DEF res
  <2>3. job' \in Job /\ job'.busy
    BY <2>1, <2>2, <1>r DEF Job, FirewallInv, TypeOK
  <2>4. TypeOK'
    BY <2>1, <2>3 DEF JobStarts, FirewallInv, TypeOK
  <2>5. OperatorPortsKept'
    BY DEF JobStarts, FirewallInv, OperatorPortsKept
  <2>6. JobSpares'
    BY <2>1 DEF FirewallInv, JobSpares, OperatorPortsKept
  <2> QED BY <2>4, <2>5, <2>6 DEF FirewallInv
<1> QED BY <1>1, <1>2

\* A request with work left is in progress.
LEMMA WorkingIsBusy ==
  ASSUME FirewallInv, job.add # {} \/ job.del # {} \/ job.half # None
  PROVE  job.busy
BY DEF FirewallInv, TypeOK, NoJob

\* A port is opened in the runtime configuration: one that was not open.
LEMMA AddRuntimeStep ==
  ASSUME FirewallInv, NEW k \in Keys, AddRuntime(k)
  PROVE  FirewallInv'
<1>b. job.busy /\ k \notin Operator
  BY WorkingIsBusy DEF AddRuntime, FirewallInv, JobSpares
<1>1. CASE open' = open \cup {k} /\ job' = [job EXCEPT !.half = k] /\ UNCHANGED faults
  <2>1. job' \in Job /\ job'.busy
    BY <1>1, <1>b DEF FirewallInv, TypeOK, Job
  <2>2. TypeOK'
    BY <1>1, <2>1 DEF AddRuntime, FirewallInv, TypeOK
  <2>3. JobSpares'
    BY <1>1 DEF AddRuntime, FirewallInv, TypeOK, Job, JobSpares
  <2>4. OperatorPortsKept'
    BY <1>1 DEF AddRuntime, FirewallInv, OperatorPortsKept
  <2> QED BY <2>2, <2>3, <2>4 DEF FirewallInv
<1>2. CASE /\ Fault
           /\ open' \in {open, open \cup {k}}
           /\ job' = [job EXCEPT !.add = @ \ {k}, !.res[k] = "error"]
  <2>1. job' \in Job /\ job'.busy
    BY <1>2, <1>b DEF FirewallInv, TypeOK, Job, Reports
  <2>2. TypeOK'
    BY <1>2, <2>1, FaultTyped DEF AddRuntime, FirewallInv, TypeOK
  <2>3. JobSpares'
    BY <1>2 DEF AddRuntime, FirewallInv, TypeOK, Job, JobSpares
  <2>4. OperatorPortsKept'
    BY <1>2 DEF AddRuntime, FirewallInv, OperatorPortsKept
  <2> QED BY <2>2, <2>3, <2>4 DEF FirewallInv
<1> QED BY <1>1, <1>2 DEF AddRuntime

\* It is made permanent and belongs to the ledger.
LEMMA AddPermanentStep ==
  ASSUME FirewallInv, AddPermanent
  PROVE  FirewallInv'
<1>b. job.busy /\ job.half \in job.add /\ job.half \in Keys /\ job.half \notin Operator
  BY WorkingIsBusy DEF AddPermanent, FirewallInv, JobSpares, TypeOK, Job
<1>1. CASE /\ perm' = perm \cup {job.half}
           /\ job' = [job EXCEPT !.add = @ \ {job.half}, !.half = None,
                                 !.led = @ \cup {job.half}, !.res[job.half] = "open"]
           /\ UNCHANGED faults
  <2>1. job' \in Job /\ job'.busy
    BY <1>1, <1>b DEF FirewallInv, TypeOK, Job, Reports
  <2>2. TypeOK'
    BY <1>1, <1>b, <2>1 DEF AddPermanent, FirewallInv, TypeOK
  <2>3. JobSpares'
    BY <1>1, <1>b DEF FirewallInv, TypeOK, Job, JobSpares
  <2>4. OperatorPortsKept'
    BY <1>1 DEF AddPermanent, FirewallInv, OperatorPortsKept
  <2> QED BY <2>2, <2>3, <2>4 DEF FirewallInv
<1>2. CASE /\ Fault
           /\ perm' \in {perm, perm \cup {job.half}}
           /\ job' = [job EXCEPT !.add = @ \ {job.half}, !.half = None,
                                 !.res[job.half] = "error"]
  <2>1. job' \in Job /\ job'.busy
    BY <1>2, <1>b DEF FirewallInv, TypeOK, Job, Reports
  <2>2. TypeOK'
    BY <1>2, <1>b, <2>1, FaultTyped DEF AddPermanent, FirewallInv, TypeOK
  <2>3. JobSpares'
    BY <1>2, <1>b DEF FirewallInv, TypeOK, Job, JobSpares
  <2>4. OperatorPortsKept'
    BY <1>2 DEF AddPermanent, FirewallInv, OperatorPortsKept
  <2> QED BY <2>2, <2>3, <2>4 DEF FirewallInv
<1> QED BY <1>1, <1>2 DEF AddPermanent

\* A port of the ledger is closed in the runtime configuration.
LEMMA RemoveRuntimeStep ==
  ASSUME FirewallInv, NEW k \in Keys, RemoveRuntime(k)
  PROVE  FirewallInv'
<1>b. job.busy /\ k \notin Operator
  BY WorkingIsBusy DEF RemoveRuntime, FirewallInv, JobSpares
<1>1. CASE open' = open \ {k} /\ job' = [job EXCEPT !.half = k] /\ UNCHANGED faults
  <2>1. job' \in Job /\ job'.busy
    BY <1>1, <1>b DEF FirewallInv, TypeOK, Job
  <2>2. TypeOK'
    BY <1>1, <2>1 DEF RemoveRuntime, FirewallInv, TypeOK
  <2>3. JobSpares'
    BY <1>1 DEF RemoveRuntime, FirewallInv, TypeOK, Job, JobSpares
  <2>4. OperatorPortsKept'
    BY <1>1, <1>b DEF RemoveRuntime, FirewallInv, OperatorPortsKept
  <2> QED BY <2>2, <2>3, <2>4 DEF FirewallInv
<1>2. CASE /\ Fault
           /\ open' \in {open, open \ {k}}
           /\ job' = [job EXCEPT !.del = @ \ {k}]
  <2>1. job' \in Job /\ job'.busy
    BY <1>2, <1>b DEF FirewallInv, TypeOK, Job
  <2>2. TypeOK'
    BY <1>2, <2>1, FaultTyped DEF RemoveRuntime, FirewallInv, TypeOK
  <2>3. JobSpares'
    BY <1>2 DEF RemoveRuntime, FirewallInv, TypeOK, Job, JobSpares
  <2>4. OperatorPortsKept'
    BY <1>2, <1>b DEF RemoveRuntime, FirewallInv, OperatorPortsKept
  <2> QED BY <2>2, <2>3, <2>4 DEF FirewallInv
<1> QED BY <1>1, <1>2 DEF RemoveRuntime

\* It is closed for good and leaves the ledger.
LEMMA RemovePermanentStep ==
  ASSUME FirewallInv, RemovePermanent
  PROVE  FirewallInv'
<1>b. job.busy /\ job.half \in job.del /\ job.half \in Keys /\ job.half \notin Operator
  BY WorkingIsBusy DEF RemovePermanent, FirewallInv, JobSpares, TypeOK, Job
<1>1. CASE /\ perm' = perm \ {job.half}
           /\ job' = [job EXCEPT !.del = @ \ {job.half}, !.half = None,
                                 !.led = @ \ {job.half}]
           /\ UNCHANGED faults
  <2>1. job' \in Job /\ job'.busy
    BY <1>1, <1>b DEF FirewallInv, TypeOK, Job
  <2>2. TypeOK'
    BY <1>1, <2>1 DEF RemovePermanent, FirewallInv, TypeOK
  <2>3. JobSpares'
    BY <1>1 DEF FirewallInv, TypeOK, Job, JobSpares
  <2>4. OperatorPortsKept'
    BY <1>1, <1>b DEF RemovePermanent, FirewallInv, OperatorPortsKept
  <2> QED BY <2>2, <2>3, <2>4 DEF FirewallInv
<1>2. CASE /\ Fault
           /\ perm' \in {perm, perm \ {job.half}}
           /\ job' = [job EXCEPT !.del = @ \ {job.half}, !.half = None]
  <2>1. job' \in Job /\ job'.busy
    BY <1>2, <1>b DEF FirewallInv, TypeOK, Job
  <2>2. TypeOK'
    BY <1>2, <2>1, FaultTyped DEF RemovePermanent, FirewallInv, TypeOK
  <2>3. JobSpares'
    BY <1>2 DEF FirewallInv, TypeOK, Job, JobSpares
  <2>4. OperatorPortsKept'
    BY <1>2, <1>b DEF RemovePermanent, FirewallInv, OperatorPortsKept
  <2> QED BY <2>2, <2>3, <2>4 DEF FirewallInv
<1> QED BY <1>1, <1>2 DEF RemovePermanent

\* The ledger is written and the request answered.
LEMMA SaveLedgerStep ==
  ASSUME FirewallInv, SaveLedger
  PROVE  FirewallInv'
<1>1. status' \in [Keys -> Reports]
  BY FailedTyped DEF SaveLedger, Answer, FirewallInv, TypeOK, Job
<1>2. TypeOK'
  <2>1. ledger' \subseteq Keys /\ faults' \in Nat
    BY FaultTyped DEF SaveLedger, FirewallInv, TypeOK, Job
  <2> QED BY <1>1, <2>1, NoJobTyped DEF SaveLedger, FirewallInv, TypeOK
<1>3. JobSpares'
  BY NoJobSpares DEF SaveLedger
<1>4. OperatorPortsKept'
  BY DEF SaveLedger, FirewallInv, JobSpares, OperatorPortsKept
<1> QED BY <1>2, <1>3, <1>4 DEF FirewallInv

\* A crash of the agent loses the job, not the ledger nor the rules.
LEMMA AgentCrashesStep ==
  ASSUME FirewallInv, AgentCrashes
  PROVE  FirewallInv'
<1>1. TypeOK'
  BY FailedTyped, NoJobTyped, FaultTyped DEF AgentCrashes, FirewallInv, TypeOK
<1>2. JobSpares' /\ OperatorPortsKept'
  BY BackendKept DEF AgentCrashes
<1> QED BY <1>1, <1>2 DEF FirewallInv

\* The agent starts with the ledger of its file.
LEMMA AgentStartsStep ==
  ASSUME FirewallInv, AgentStarts
  PROVE  FirewallInv'
<1>1. TypeOK'
  BY DEF AgentStarts, FirewallInv, TypeOK
<1>2. JobSpares' /\ OperatorPortsKept'
  BY BackendKept DEF AgentStarts
<1> QED BY <1>1, <1>2 DEF FirewallInv

\* A restart of the server leaves the agent at its work.
LEMMA ServerRestartsStep ==
  ASSUME FirewallInv, ServerRestarts
  PROVE  FirewallInv'
<1>1. TypeOK'
  BY NoReportTyped, AbandonTyped, FaultTyped
     DEF ServerRestarts, Load, FirewallInv, TypeOK
<1>2. JobSpares' /\ OperatorPortsKept'
  BY BackendKept DEF ServerRestarts, Abandon
<1> QED BY <1>1, <1>2 DEF FirewallInv

\* A reboot leaves the permanent rules, which have spared the operator.
LEMMA RebootStep ==
  ASSUME FirewallInv, Reboot
  PROVE  FirewallInv'
<1>1. TypeOK'
  BY NoReportTyped, NoJobTyped, FaultTyped DEF Reboot, Load, FirewallInv, TypeOK
<1>2. JobSpares'
  BY NoJobSpares DEF Reboot
<1>3. OperatorPortsKept'
  BY DEF Reboot, FirewallInv, OperatorPortsKept
<1> QED BY <1>1, <1>2, <1>3 DEF FirewallInv

-----------------------------------------------------------------------------

\* Every step keeps the inductive invariant.
LEMMA FirewallStep == FirewallInv /\ [Next]_vars => FirewallInv'
<1> SUFFICES ASSUME FirewallInv, [Next]_vars PROVE FirewallInv'
  OBVIOUS
<1>1. CASE UNCHANGED vars
  BY <1>1 DEF vars, FirewallInv, TypeOK, JobSpares, OperatorPortsKept
<1>2. CASE Next
  BY <1>2, ChangeForwardStep, ChangeModeStep, TimerFiresStep, SyncStartsStep, GiveUpStep,
     JobStartsStep, AddRuntimeStep, AddPermanentStep, RemoveRuntimeStep,
     RemovePermanentStep, SaveLedgerStep, AgentCrashesStep, AgentStartsStep,
     ServerRestartsStep, RebootStep DEF Next
<1> QED BY <1>1, <1>2

\* The inductive invariant of the manager, the agent and the firewalld backend.
THEOREM FirewallSafety == Spec => []FirewallInv
BY FirewallInit, FirewallStep, PTL DEF Spec

\* Requests, the ledger and what the manager records keep their types, and the
\* backend forgets a request it is done with.
THEOREM FirewallTypeCorrect == Spec => []TypeOK
<1>1. FirewallInv => TypeOK
  BY DEF FirewallInv
<1> QED BY <1>1, FirewallSafety, PTL

\* Nothing the manager, the agent or the backend does closes a port the operator
\* opened or takes it for its own.
THEOREM OperatorPortsAlwaysKept == Spec => []OperatorPortsKept
<1>1. FirewallInv => OperatorPortsKept
  BY DEF FirewallInv
<1> QED BY <1>1, FirewallSafety, PTL

-----------------------------------------------------------------------------
(* What the manager records *)

\* What the request in progress will report is true already and stays true while
\* it goes on: it closes no port it has reported.
JobReports ==
  /\ job.add \cap job.del = {}
  /\ job.half # None /\ job.add # {} => job.half \in open
  /\ \A k \in Keys : /\ job.res[k] = "open" => k \in job.led
                     /\ job.res[k] \in {"open", "existing"} => k \in open \ job.del

\* An idle agent has nothing to report.
LEMMA NoJobReports == ASSUME job' = NoJob PROVE JobReports'
BY DEF JobReports, NoJob, NoReport

\* Nor has one at the start.
LEMMA ReportsInit == Init => JobReports
BY DEF Init, JobReports, NoJob, NoReport

\* Steps that leave the work of the backend alone, or end it.
LEMMA ReportsKept ==
  ASSUME FirewallInv, JobReports,
         job' = NoJob \/ ((job' = job \/ job' = [job EXCEPT !.awaited = FALSE]) /\ open' = open)
  PROVE  JobReports'
<1>1. CASE job' = NoJob
  BY <1>1, NoJobReports
<1>2. CASE job' = job /\ open' = open
  BY <1>2 DEF JobReports
<1>3. CASE job' = [job EXCEPT !.awaited = FALSE] /\ open' = open
  BY <1>3 DEF JobReports, FirewallInv, TypeOK, Job
<1> QED BY <1>1, <1>2, <1>3

\* What a job will report stays true until it is answered, whoever steps.
LEMMA ReportsStep ==
  ASSUME FirewallInv, JobReports, [Next]_vars
  PROVE  JobReports'
<1> USE DEF FirewallInv
<1>1. ASSUME NEW r \in inbox, JobStarts(r) PROVE JobReports'
  <2>1. CASE job' = job
    BY <1>1, <2>1, ReportsKept DEF JobStarts
  <2>2. CASE job' # job
    <3>1. /\ job'.add = r.rules \ open /\ job'.del = ledger \ r.rules /\ job'.led = ledger
          /\ job'.res = [k \in Keys |-> IF k \notin r.rules \cap open THEN "none"
                                        ELSE IF k \in ledger THEN "open" ELSE "existing"]
          /\ open' = open
      BY <1>1, <2>2 DEF JobStarts
    <3>2. job'.half = None
      BY <1>1, <2>2 DEF JobStarts
    <3> QED BY <3>1, <3>2 DEF JobReports
  <2> QED BY <2>1, <2>2
<1>2. ASSUME NEW k \in Keys, AddRuntime(k) PROVE JobReports'
  <2>1. CASE open' = open \cup {k} /\ job' = [job EXCEPT !.half = k]
    BY <2>1 DEF JobReports, TypeOK, Job
  <2>2. CASE /\ open' \in {open, open \cup {k}}
             /\ job' = [job EXCEPT !.add = @ \ {k}, !.res[k] = "error"]
    BY <2>2 DEF JobReports, TypeOK, Job
  <2> QED BY <1>2, <2>1, <2>2 DEF AddRuntime
<1>3. ASSUME AddPermanent PROVE JobReports'
  <2>b. job.half \in job.add /\ job.half \in Keys
    BY <1>3 DEF AddPermanent, JobSpares, TypeOK, Job
  <2>1. CASE job' = [job EXCEPT !.add = @ \ {job.half}, !.half = None,
                                !.led = @ \cup {job.half}, !.res[job.half] = "open"]
    BY <1>3, <2>1, <2>b DEF AddPermanent, JobReports, JobSpares, TypeOK, Job
  <2>2. CASE job' = [job EXCEPT !.add = @ \ {job.half}, !.half = None,
                                !.res[job.half] = "error"]
    BY <1>3, <2>2, <2>b DEF AddPermanent, JobReports, TypeOK, Job
  <2> QED BY <1>3, <2>1, <2>2 DEF AddPermanent
<1>4. ASSUME NEW k \in Keys, RemoveRuntime(k) PROVE JobReports'
  <2>1. CASE open' = open \ {k} /\ job' = [job EXCEPT !.half = k]
    BY <1>4, <2>1 DEF RemoveRuntime, JobReports, TypeOK, Job
  <2>2. CASE open' \in {open, open \ {k}} /\ job' = [job EXCEPT !.del = @ \ {k}]
    BY <1>4, <2>2 DEF RemoveRuntime, JobReports, TypeOK, Job
  <2> QED BY <1>4, <2>1, <2>2 DEF RemoveRuntime
<1>5. ASSUME RemovePermanent PROVE JobReports'
  <2>b. job.half \in job.del /\ job.half \in Keys
    BY <1>5 DEF RemovePermanent, JobSpares, TypeOK, Job
  <2>1. CASE job' = [job EXCEPT !.del = @ \ {job.half}, !.half = None,
                                !.led = @ \ {job.half}]
    <3>1. /\ job'.add = job.add /\ job'.half = None /\ job'.res = job.res
          /\ job'.del = job.del \ {job.half} /\ job'.led = job.led \ {job.half}
          /\ open' = open
      BY <1>5, <2>1 DEF RemovePermanent, TypeOK, Job
    <3> QED BY <3>1, <2>b DEF JobReports
  <2>2. CASE job' = [job EXCEPT !.del = @ \ {job.half}, !.half = None]
    <3>1. /\ job'.add = job.add /\ job'.half = None /\ job'.res = job.res
          /\ job'.del = job.del \ {job.half} /\ job'.led = job.led
          /\ open' = open
      BY <1>5, <2>2 DEF RemovePermanent, TypeOK, Job
    <3> QED BY <3>1 DEF JobReports
  <2> QED BY <1>5, <2>1, <2>2 DEF RemovePermanent
<1>6. CASE SaveLedger \/ AgentCrashes \/ Reboot
  BY <1>6, NoJobReports DEF SaveLedger, AgentCrashes, Reboot
<1>7. CASE (\E k \in Keys : ChangeForward(k)) \/ ChangeMode \/ TimerFires \/ SyncStarts
           \/ AgentStarts \/ UNCHANGED vars
  BY <1>7, ReportsKept DEF ChangeForward, ChangeMode, TimerFires, SyncStarts, AgentStarts, vars
<1>8. CASE GiveUp \/ ServerRestarts
  BY <1>8, ReportsKept DEF GiveUp, ServerRestarts, Abandon
<1> QED BY <1>1, <1>2, <1>3, <1>4, <1>5, <1>6, <1>7, <1>8 DEF Next

\* What Sync records in this step is true of the firewall and of the ledger.
Recorded ==
  \A k \in Keys : /\ status'[k] \in {"open", "existing"} => k \in open'
                  /\ status'[k] = "open" => k \in ledger'

\* An error and "nothing managed" claim nothing.
LEMMA FailureRecorded ==
  ASSUME status' = NoReport \/ \E S : status' = Failed(S)
  PROVE  Recorded
BY DEF Recorded, NoReport, Failed

\* The answer of a request that has ended is what Sync records.
LEMMA AnswerRecorded ==
  ASSUME FirewallInv, JobReports, SaveLedger, status' # status
  PROVE  Recorded
<1>1. CASE ledger' = job.led /\ status' = job.res
  <2>1. open' = open
    BY DEF SaveLedger
  <2> QED BY <1>1, <2>1 DEF JobReports, Recorded
<1>2. CASE status' = Failed(job.rules)
  BY <1>2, FailureRecorded
<1> QED BY <1>1, <1>2 DEF SaveLedger, Answer

\* Whatever step records another status records a true one.
LEMMA StatusStep ==
  ASSUME FirewallInv, JobReports, Next, status' # status
  PROVE  Recorded
<1>1. CASE SyncStarts \/ GiveUp \/ AgentCrashes \/ ServerRestarts \/ Reboot
  BY <1>1, FailureRecorded DEF SyncStarts, GiveUp, AgentCrashes, ServerRestarts, Reboot
<1>2. ASSUME NEW r \in inbox, JobStarts(r) PROVE Recorded
  BY <1>2, FailureRecorded DEF JobStarts, Answer
<1>3. CASE SaveLedger
  BY <1>3, AnswerRecorded
<1>4. ASSUME NEW k \in Keys, ChangeForward(k) \/ AddRuntime(k) \/ RemoveRuntime(k) PROVE FALSE
  BY <1>4 DEF ChangeForward, AddRuntime, RemoveRuntime
<1>5. CASE ChangeMode \/ TimerFires \/ AgentStarts \/ AddPermanent \/ RemovePermanent
  BY <1>5 DEF ChangeMode, TimerFires, AgentStarts, AddPermanent, RemovePermanent
<1> QED BY <1>1, <1>2, <1>3, <1>4, <1>5 DEF Next

\* Whatever Sync records as open is open when it records it and in the ledger if
\* it is the agent's, however many requests were given up and served late and
\* whatever command or save failed.
THEOREM StatusAlwaysTrue == Spec => RecordedStatusTrue
<1>1. Spec => []JobReports
  <2>1. FirewallInv /\ JobReports /\ [Next]_vars => JobReports'
    BY ReportsStep
  <2> QED BY <2>1, ReportsInit, FirewallSafety, PTL DEF Spec
<1>2. FirewallInv /\ JobReports /\ [Next]_vars =>
        [status' # status =>
           \A k \in Keys : /\ status'[k] \in {"open", "existing"} => k \in open'
                           /\ status'[k] = "open" => k \in ledger']_vars
  BY StatusStep DEF Recorded, vars
<1> QED BY <1>1, <1>2, FirewallSafety, PTL DEF Spec, RecordedStatusTrue

=============================================================================
