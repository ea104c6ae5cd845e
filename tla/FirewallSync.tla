----------------------------- MODULE FirewallSync -----------------------------
(***************************************************************************)
(* The host firewall: the server's manager, the root agent and firewalld.  *)
(*                                                                         *)
(* The manager (fwManager) asks the agent over a unix socket to make the   *)
(* ports it has opened equal to a list computed from the store; one Sync   *)
(* runs at a time, after every change and from a timer.  The agent serves  *)
(* every request in a goroutine and lets one of them work at a time.  The  *)
(* manager stops waiting when its deadline passes, and the agent does not  *)
(* notice.  firewalld keeps no comments, so the backend remembers what it  *)
(* opened in a ledger file, which it writes at the end; every port is      *)
(* opened and closed by two commands, one for the running and one for the  *)
(* permanent configuration.                                                *)
(***************************************************************************)
EXTENDS Naturals

CONSTANTS
  Keys,        \* "port/proto" keys
  Own,         \* the tunnel port and the management port
  Operator,    \* ports the operator opened by hand
  None,        \* no port
  MaxChanges,  \* bound: changes of forwards and of the mode
  MaxFaults    \* bound: failing commands and saves, cancelled
               \* requests, crashes, restarts and reboots

ASSUME FirewallAssumption ==
  /\ Own \subseteq Keys
  /\ Operator \subseteq Keys
  /\ None \notin Keys
  /\ MaxChanges \in Nat
  /\ MaxFaults \in Nat

VARIABLES
  want,     \* keys of the enabled forwards in the store
  managed,  \* Settings.Firewall is not "off"
  disk,     \* the two as the state file has them
  owed,     \* a handler, the starting server or Run is about to call Sync
  status,   \* fwManager.rules: what the last Sync recorded for each key
  inbox,    \* requests whose goroutine in the agent waits for its mutex
  job,      \* the request the backend works on, if any
  up,       \* is the agent running?
  open,     \* firewalld: ports of the running configuration
  perm,     \* firewalld: ports of the permanent configuration
  ledger,   \* the ledger file: ports the backend has opened
  changes,  \* changes so far
  faults    \* faults so far

vars == <<want, managed, disk, owed, status, inbox, job, up, open, perm, ledger,
          changes, faults>>

Reports == {"none", "open", "existing", "error"}

Request == [rules : SUBSET Keys, awaited : BOOLEAN]

NoReport == [k \in Keys |-> "none"]

NoJob == [busy |-> FALSE, rules |-> {}, awaited |-> FALSE, add |-> {}, del |-> {},
          half |-> None, led |-> {}, res |-> NoReport]

\* One more of the things that may go wrong.
Fault ==
  /\ faults < MaxFaults
  /\ faults' = faults + 1

-----------------------------------------------------------------------------
(* The store *)

\* What follows a change in memory: the state file is written and the handler
\* goes on to call Sync, or the save fails and it returns.
SaveAndSync ==
  \/ /\ disk' = [want |-> want', managed |-> managed']
     /\ owed' = TRUE
     /\ UNCHANGED faults
  \/ Fault /\ UNCHANGED <<disk, owed>>

\* A forward is enabled or disabled, created or deleted; reserved ports are no
\* forward's.
ChangeForward(k) ==
  /\ k \notin Own
  /\ changes < MaxChanges
  /\ changes' = changes + 1
  /\ want' = IF k \in want THEN want \ {k} ELSE want \cup {k}
  /\ UNCHANGED managed
  /\ SaveAndSync
  /\ UNCHANGED <<status, inbox, job, up, open, perm, ledger>>

\* handlePutSettings switches between "off" and a managed mode.
ChangeMode ==
  /\ changes < MaxChanges
  /\ changes' = changes + 1
  /\ managed' = ~managed
  /\ UNCHANGED want
  /\ SaveAndSync
  /\ UNCHANGED <<status, inbox, job, up, open, perm, ledger>>

-----------------------------------------------------------------------------
(* fwManager *)

Desired == want \cup Own

\* Sync holds syncMu until it is answered: it waits for one request at most.
Waiting == job.awaited \/ \E r \in inbox : r.awaited

\* What Sync records when it gets no answer, or one that is an error.
Failed(rules) == [k \in Keys |-> IF k \in rules THEN "error" ELSE "none"]

\* Variant with a defect: the timer leads to a Sync only if the last one failed.
TimerFiresAfterFailure ==
  /\ ~owed
  /\ owed' = \E k \in Keys : status[k] = "error"
  /\ UNCHANGED <<want, managed, disk, status, inbox, job, up, open, perm, ledger, changes, faults>>

\* Run's timer, which is set again after every Sync.
TimerFires ==
  /\ ~owed
  /\ owed' = TRUE
  /\ UNCHANGED <<want, managed, disk, status, inbox, job, up, open, perm, ledger, changes, faults>>

\* Sync, called by a handler, at the start or by the timer.  With the mode off
\* or no agent socket it records that nothing is managed; a socket nobody
\* listens on is an error, and so is an API request cancelled before the agent
\* was reached.
SyncStarts ==
  /\ owed /\ ~Waiting
  /\ owed' = FALSE
  /\ \/ ~managed /\ status' = NoReport /\ UNCHANGED <<inbox, faults>>
     \/ /\ managed /\ ~up
        /\ status' \in {NoReport, Failed(Desired)}
        /\ UNCHANGED <<inbox, faults>>
     \/ managed /\ up /\ Fault /\ status' = Failed(Desired) /\ UNCHANGED inbox
     \/ /\ managed /\ up
        /\ inbox' = inbox \cup {[rules |-> Desired, awaited |-> TRUE]}
        /\ UNCHANGED <<status, faults>>
  /\ UNCHANGED <<want, managed, disk, job, up, open, perm, ledger, changes>>

\* Nobody waits for the requests at the agent any more.
Abandon ==
  /\ inbox' = {[r EXCEPT !.awaited = FALSE] : r \in inbox}
  /\ job' = [job EXCEPT !.awaited = FALSE]

\* What the request that is waited for asked for.
Asked == UNION {r.rules : r \in {q \in inbox : q.awaited}}
           \cup (IF job.awaited THEN job.rules ELSE {})

\* The deadline of ninety seconds passes; the agent goes on.
GiveUp ==
  /\ Waiting
  /\ status' = Failed(Asked)
  /\ Abandon
  /\ UNCHANGED <<want, managed, disk, owed, up, open, perm, ledger, changes, faults>>

-----------------------------------------------------------------------------
(* The agent and the firewalld backend *)

\* The answer reaches the manager if it still waits.
Answer(awaited, report) == status' = IF awaited THEN report ELSE status

\* Variant with a defect: a wanted port that is open is taken for the agent's.
JobStartsAdopting(r) ==
  /\ up /\ ~job.busy
  /\ r \in inbox
  /\ inbox' = inbox \ {r}
  /\ job' = [busy |-> TRUE, rules |-> r.rules, awaited |-> r.awaited,
             add |-> r.rules \ open, del |-> ledger \ r.rules, half |-> None,
             led |-> ledger \cup (r.rules \cap open),
             res |-> [k \in Keys |-> IF k \in r.rules \cap open THEN "open" ELSE "none"]]
  /\ UNCHANGED <<want, managed, disk, owed, status, up, open, perm, ledger, changes, faults>>

\* Sync of the backend: firewalld is asked for its ports, the ledger is read,
\* and every wanted port that is open already is the agent's or the operator's.
\* If firewalld does not answer or the ledger cannot be read, that is all.
JobStarts(r) ==
  /\ up /\ ~job.busy
  /\ r \in inbox
  /\ inbox' = inbox \ {r}
  /\ \/ /\ job' = [busy |-> TRUE, rules |-> r.rules, awaited |-> r.awaited,
                   add |-> r.rules \ open, del |-> ledger \ r.rules, half |-> None,
                   led |-> ledger,
                   res |-> [k \in Keys |->
                              IF k \notin r.rules \cap open THEN "none"
                              ELSE IF k \in ledger THEN "open" ELSE "existing"]]
        /\ UNCHANGED <<status, faults>>
     \/ /\ Fault
        /\ Answer(r.awaited, Failed(r.rules))
        /\ UNCHANGED job
  /\ UNCHANGED <<want, managed, disk, owed, up, open, perm, ledger, changes>>

\* Variant with a defect: port's error is not looked at.
AddRuntimeUnchecked(k) ==
  /\ k \in job.add /\ job.half = None
  /\ \/ /\ open' = open \cup {k}
        /\ job' = [job EXCEPT !.half = k]
        /\ UNCHANGED faults
     \/ /\ Fault
        /\ job' = [job EXCEPT !.add = @ \ {k}, !.led = @ \cup {k}, !.res[k] = "open"]
        /\ UNCHANGED open
  /\ UNCHANGED <<want, managed, disk, owed, status, inbox, up, perm, ledger, changes>>

\* A missing port is opened in the running configuration ...  A command that
\* fails may have had its effect: after a minute it is killed.
AddRuntime(k) ==
  /\ k \in job.add /\ job.half = None
  /\ \/ /\ open' = open \cup {k}
        /\ job' = [job EXCEPT !.half = k]
        /\ UNCHANGED faults
     \/ /\ Fault
        /\ open' \in {open, open \cup {k}}
        /\ job' = [job EXCEPT !.add = @ \ {k}, !.res[k] = "error"]
  /\ UNCHANGED <<want, managed, disk, owed, status, inbox, up, perm, ledger, changes>>

\* ... and then in the permanent one.  Only after both is it in the ledger.
AddPermanent ==
  /\ job.add # {} /\ job.half # None
  /\ \/ /\ perm' = perm \cup {job.half}
        /\ job' = [job EXCEPT !.add = @ \ {job.half}, !.half = None,
                              !.led = @ \cup {job.half}, !.res[job.half] = "open"]
        /\ UNCHANGED faults
     \/ /\ Fault
        /\ perm' \in {perm, perm \cup {job.half}}
        /\ job' = [job EXCEPT !.add = @ \ {job.half}, !.half = None,
                              !.res[job.half] = "error"]
  /\ UNCHANGED <<want, managed, disk, owed, status, inbox, up, open, ledger, changes>>

\* Then the ports of the ledger that are not wanted are closed the same way; one
\* that cannot be closed stays in the ledger.
RemoveRuntime(k) ==
  /\ job.add = {}
  /\ k \in job.del /\ job.half = None
  /\ \/ /\ open' = open \ {k}
        /\ job' = [job EXCEPT !.half = k]
        /\ UNCHANGED faults
     \/ /\ Fault
        /\ open' \in {open, open \ {k}}
        /\ job' = [job EXCEPT !.del = @ \ {k}]
  /\ UNCHANGED <<want, managed, disk, owed, status, inbox, up, perm, ledger, changes>>

RemovePermanent ==
  /\ job.add = {} /\ job.half # None
  /\ \/ /\ perm' = perm \ {job.half}
        /\ job' = [job EXCEPT !.del = @ \ {job.half}, !.half = None,
                              !.led = @ \ {job.half}]
        /\ UNCHANGED faults
     \/ /\ Fault
        /\ perm' \in {perm, perm \ {job.half}}
        /\ job' = [job EXCEPT !.del = @ \ {job.half}, !.half = None]
  /\ UNCHANGED <<want, managed, disk, owed, status, inbox, up, open, ledger, changes>>

\* Variant with a defect: a failed save ends the request and leaves its work.
SaveLedgerForgetful ==
  /\ job.busy
  /\ job.add = {} /\ job.del = {}
  /\ \/ /\ ledger' = job.led
        /\ job' = NoJob
        /\ Answer(job.awaited, job.res)
        /\ UNCHANGED faults
     \/ /\ Fault
        /\ job' = [job EXCEPT !.busy = FALSE, !.awaited = FALSE]
        /\ Answer(job.awaited, Failed(job.rules))
        /\ UNCHANGED ledger
  /\ UNCHANGED <<want, managed, disk, owed, inbox, up, open, perm, changes>>

\* The ledger is written and the request answered.
SaveLedger ==
  /\ job.busy
  /\ job.add = {} /\ job.del = {}
  /\ \/ /\ ledger' = job.led
        /\ Answer(job.awaited, job.res)
        /\ UNCHANGED faults
     \/ /\ Fault
        /\ Answer(job.awaited, Failed(job.rules))
        /\ UNCHANGED ledger
  /\ job' = NoJob
  /\ UNCHANGED <<want, managed, disk, owed, inbox, up, open, perm, changes>>

-----------------------------------------------------------------------------
(* Crashes and restarts *)

\* The agent dies: its requests are gone and a waiting Sync reads an error.
AgentCrashes ==
  /\ up
  /\ Fault
  /\ up' = FALSE
  /\ inbox' = {} /\ job' = NoJob
  /\ status' = IF Waiting THEN Failed(Asked) ELSE status
  /\ UNCHANGED <<want, managed, disk, owed, open, perm, ledger, changes>>

AgentStarts ==
  /\ ~up
  /\ up' = TRUE
  /\ UNCHANGED <<want, managed, disk, owed, status, inbox, job, open, perm, ledger, changes, faults>>

\* What the server has in memory after it has started.
Load ==
  /\ want' = disk.want /\ managed' = disk.managed
  /\ UNCHANGED disk

\* The server restarts: its requests live on in the agent, and Run starts with
\* a Sync.
ServerRestarts ==
  /\ Fault
  /\ Abandon
  /\ Load
  /\ owed' = TRUE
  /\ status' = NoReport
  /\ UNCHANGED <<up, open, perm, ledger, changes>>

\* The host restarts, and firewalld with the permanent configuration.
Reboot ==
  /\ Fault
  /\ open' = perm
  /\ inbox' = {} /\ job' = NoJob
  /\ up' = FALSE
  /\ owed' = TRUE
  /\ status' = NoReport
  /\ Load
  /\ UNCHANGED <<perm, ledger, changes>>

-----------------------------------------------------------------------------

Init ==
  /\ want = {} /\ managed = TRUE /\ owed = TRUE
  /\ disk = [want |-> {}, managed |-> TRUE]
  /\ status = NoReport
  /\ inbox = {} /\ job = NoJob /\ up = TRUE
  /\ open = Operator /\ perm = Operator /\ ledger = {}
  /\ changes = 0 /\ faults = 0

Next ==
  \/ \E k \in Keys : ChangeForward(k)
  \/ ChangeMode
  \/ TimerFires
  \/ SyncStarts
  \/ GiveUp
  \/ \E r \in inbox : JobStarts(r)
  \/ \E k \in Keys : AddRuntime(k)
  \/ AddPermanent
  \/ \E k \in Keys : RemoveRuntime(k)
  \/ RemovePermanent
  \/ SaveLedger
  \/ AgentCrashes
  \/ AgentStarts
  \/ ServerRestarts
  \/ Reboot

Spec == Init /\ [][Next]_vars

JobRuns ==
  \/ (\E r \in inbox : JobStarts(r)) \/ AddPermanent \/ RemovePermanent \/ SaveLedger
  \/ \E k \in Keys : AddRuntime(k) \/ RemoveRuntime(k)

\* The timer fires every five minutes or sooner and Sync gets its mutex, the
\* agent's goroutines run on and commands end (after a minute they are killed),
\* and systemd starts the agent again.  Changes, deadlines and faults are the environment's.
Fairness ==
  /\ WF_vars(TimerFires) /\ WF_vars(SyncStarts)
  /\ WF_vars(JobRuns)
  /\ WF_vars(AgentStarts)

FairSpec == Spec /\ Fairness

-----------------------------------------------------------------------------
(* Properties *)

Job == [busy : BOOLEAN, rules : SUBSET Keys, awaited : BOOLEAN, add : SUBSET Keys,
        del : SUBSET Keys, half : Keys \cup {None}, led : SUBSET Keys,
        res : [Keys -> Reports]]

\* Every variable has the shape its Go counterpart has, and nothing is left of a
\* request the backend is done with.
TypeOK ==
  /\ want \subseteq Keys \ Own
  /\ disk \in [want : SUBSET (Keys \ Own), managed : BOOLEAN]
  /\ managed \in BOOLEAN /\ owed \in BOOLEAN /\ up \in BOOLEAN
  /\ status \in [Keys -> Reports]
  /\ inbox \subseteq Request
  /\ job \in Job
  /\ ~job.busy => job = NoJob
  /\ open \subseteq Keys /\ perm \subseteq Keys /\ ledger \subseteq Keys
  /\ changes \in Nat /\ faults \in Nat

\* A port the operator opened is never closed and never becomes the agent's,
\* whatever forwards use it, whatever fails or crashes in between, and however
\* late a request is served.
OperatorPortsKept ==
  /\ Operator \subseteq open \cap perm
  /\ ledger \cap Operator = {}

\* What Sync records as open is open at that moment, and what it records as the
\* agent's is in the ledger, so that it will be closed: no answer of an older
\* request and no failed command is taken for a success.
RecordedStatusTrue ==
  [][status' # status =>
       \A k \in Keys : /\ status'[k] \in {"open", "existing"} => k \in open'
                       /\ status'[k] = "open" => k \in ledger']_vars

\* When changes and faults have ended, the firewall lets every enabled forward
\* and the server's own ports through and stays so, although requests of earlier
\* Syncs may still be served late.
WantedPortsOpen == <>[](managed => Desired \subseteq open)

\* When changes have ended, the port of a forward that was disabled or deleted is
\* closed and stays so, although a request of an earlier Sync may open it again
\* late: as long as no command or save has failed and nothing has crashed.
UnwantedPortsClose == <>[](managed /\ faults = 0 => open \subseteq Desired \cup Operator)

=============================================================================
