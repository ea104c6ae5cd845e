------------------------------ MODULE SelfUpdate ------------------------------
(***************************************************************************)
(* The server's update of itself.  The server process (selfUpdater) stages *)
(* the client binaries of a release in <data-dir>/updates/<version> and    *)
(* hands the tag to the root agent (Updater).  The agent fetches the       *)
(* server binary, swaps it in, keeps the one before as .previous, restarts *)
(* the unit and waits for the new version to answer; if it does not, the   *)
(* previous binary comes back.  A server that starts moves the client      *)
(* binaries staged for its own version into the directory it serves.       *)
(*                                                                         *)
(* Both processes may be killed between any two steps.  systemd starts     *)
(* them again from the binary that is installed then; what is left of the  *)
(* update is what is on disk.                                              *)
(***************************************************************************)
EXTENDS Naturals

CONSTANTS
  MaxVersion,    \* releases are 1..MaxVersion, in the order of their tags
  NPlatforms,    \* clientPlatforms is the list 1..NPlatforms
  MaxRecords,    \* bound: no update is started after so many records
  MaxCrashes,    \* bound: crashes of the server
  MaxKills,      \* bound: the agent is killed
  MaxFaults,     \* bound: renames and restarts that fail
  None           \* no record, no goroutine

ASSUME SelfUpdateAssumption ==
  /\ MaxVersion \in Nat \ {0} /\ NPlatforms \in Nat \ {0}
  /\ {MaxRecords, MaxCrashes, MaxKills, MaxFaults} \subseteq Nat

Versions == 1..MaxVersion
Platforms == 1..NPlatforms
Missing == 0     \* no file at the path
Cut == MaxVersion + 1  \* a file that is only partly written

Record == [state : {"pending", "done", "failed", "rolled_back"}, to : Versions, at : Nat]
StageRecord == [to : Versions, at : 1..NPlatforms + 1, pc : {"download", "write", "install"}]
JobRecord == [to : Versions, pc : {"fetch", "write", "written", "verify", "remove", "keep", "install",
                                   "restart", "health", "rollback", "rerun"}]

ASSUME NoneAssumption == None \notin Record /\ None \notin StageRecord /\ None \notin JobRecord

VARIABLES
  up,        \* the server: down, starting (Run before Serve), serving
  running,   \* its version
  latest,    \* the newest release it knows, 0 before the first check
  asked,     \* versions of start calls between their checks and the lock
  busy,      \* selfUpdater.busy
  local,     \* selfUpdater.local
  stage,     \* stageAndInstall: version, platform, where it is; or None
  staged,    \* updates/<version>: none, cut or whole for every platform
  bin,       \* the client binaries the server hands out
  agentUp,   \* is the agent running?
  agentBusy, \* Updater.busy
  job,       \* Updater.run: version and where it is; or None
  rec,       \* the update record, in the agent and in its file
  restarting,\* the agent has scheduled its own restart
  exe, new, prev, \* BinPath, BinPath.new, BinPath.previous
  clock,     \* stamps StartedAt of the records
  aged,      \* records up to this stamp are older than stalePendingAfter
  before,    \* history: the binary installed when the agent's job began
  unsafe,    \* history: a version was staged that could be started meanwhile
  gap,       \* history: the agent left BinPath empty
  behind,    \* history: the job's server was older than the installed binary
  crashes, kills, faults  \* used up of the bounds

server == <<up, running, latest, asked, busy, local, stage>>
dirs == <<staged, bin>>
agent == <<agentUp, agentBusy, job, rec, restarting>>
files == <<exe, new, prev>>
history == <<before, unsafe, gap, behind>>
bounds == <<crashes, kills, faults>>
vars == <<server, dirs, agent, files, clock, aged, history, bounds>>

newerVersion(a, b) == a > b

Fault == faults < MaxFaults /\ faults' = faults + 1
NoFault == UNCHANGED faults

\* A rename of a file that is not there fails in any case.
RenameFails(file) == IF file = Missing THEN NoFault ELSE Fault

\* last(): the local record unless the agent's is younger; a pending record
\* that is too old is shown as failed.
Last ==
  LET shown == IF local # None /\ (rec = None \/ rec.at <= local.at) THEN local ELSE rec
  IN  IF shown # None /\ shown.state = "pending" /\ shown.at <= aged
      THEN [shown EXCEPT !.state = "failed"] ELSE shown

InProgress == Last # None /\ Last.state = "pending"

-----------------------------------------------------------------------------
(* The server: release check and start *)

\* check: the newest release is MaxVersion; a failed check changes nothing.
Check ==
  /\ up = "serving"
  /\ latest' = MaxVersion
  /\ UNCHANGED <<up, running, asked, busy, local, stage, dirs, agent, files, clock, aged, history, bounds>>

\* Variant with a defect: any release may be installed.
AcceptableAny(v) == v \in Versions

\* The latest release if it is newer, or the running one again.
Acceptable(v) ==
  \/ v = latest /\ newerVersion(latest, running)
  \/ v = running

\* start, its checks: the version, an agent that answers, no update pending.
Ask(v) ==
  /\ up = "serving" /\ v \notin asked
  /\ Acceptable(v)
  /\ agentUp
  /\ ~InProgress
  /\ asked' = asked \cup {v}
  /\ UNCHANGED <<up, running, latest, busy, local, stage, dirs, agent, files, clock, aged, history, bounds>>

\* start, under the lock: refused while this process stages another update.
StartRefused(v) ==
  /\ v \in asked /\ busy
  /\ asked' = asked \ {v}
  /\ UNCHANGED <<up, running, latest, busy, local, stage, dirs, agent, files, clock, aged, history, bounds>>

StartUpdate(v) ==
  /\ v \in asked /\ ~busy
  /\ clock < MaxRecords
  /\ asked' = asked \ {v}
  /\ busy' = TRUE
  /\ clock' = clock + 1
  /\ local' = [state |-> "pending", to |-> v, at |-> clock + 1]
  /\ stage' = [to |-> v, at |-> 1, pc |-> "download"]
  /\ unsafe' = (unsafe \/ v \in {running, exe} \/ (job # None /\ job.to = v))
  /\ UNCHANGED <<up, running, latest, dirs, agent, files, aged, before, gap, behind, bounds>>

-----------------------------------------------------------------------------
(* The server: stageAndInstall *)

\* Variant with a defect: an early return leaves busy set.
StagingEndsBusy(state) ==
  /\ stage' = None
  /\ UNCHANGED busy
  /\ local' = [local EXCEPT !.state = state]

\* setLocal with the outcome, and the deferred release of busy.
StagingEnds(state) ==
  /\ stage' = None
  /\ busy' = FALSE
  /\ local' = [local EXCEPT !.state = state]

\* A download or its checksum is wrong, or the file cannot be written: the
\* whole staging directory is removed.
StageFails ==
  /\ stage # None /\ stage.pc \in {"download", "write"}
  /\ staged' = [staged EXCEPT ![stage.to] = [p \in Platforms |-> "none"]]
  /\ StagingEnds("failed")
  /\ UNCHANGED <<up, running, latest, asked, bin, agent, files, clock, aged, history, bounds>>

\* Variant with a defect: a file that an earlier attempt left is not fetched again.
StageDownloadSkips ==
  /\ stage # None /\ stage.pc = "download"
  /\ IF staged[stage.to][stage.at] = "none"
     THEN /\ stage' = [stage EXCEPT !.pc = "write"]
          /\ staged' = [staged EXCEPT ![stage.to][stage.at] = "cut"]
     ELSE /\ stage' = [stage EXCEPT !.at = @ + 1, !.pc = IF stage.at = NPlatforms THEN "install" ELSE "download"]
          /\ UNCHANGED staged
  /\ UNCHANGED <<up, running, latest, asked, busy, local, bin, agent, files, clock, aged, history, bounds>>

\* The asset is here and matches SHA256SUMS; WriteFile truncates the file.
StageDownload ==
  /\ stage # None /\ stage.pc = "download"
  /\ stage' = [stage EXCEPT !.pc = "write"]
  /\ staged' = [staged EXCEPT ![stage.to][stage.at] = "cut"]
  /\ UNCHANGED <<up, running, latest, asked, busy, local, bin, agent, files, clock, aged, history, bounds>>

\* Variant with a defect: the list of platforms is overrun.
StageWrittenPastEnd ==
  /\ stage # None /\ stage.pc = "write"
  /\ stage' = [stage EXCEPT !.at = @ + 1, !.pc = IF stage.at > NPlatforms THEN "install" ELSE "download"]
  /\ staged' = [staged EXCEPT ![stage.to][stage.at] = "whole"]
  /\ UNCHANGED <<up, running, latest, asked, busy, local, bin, agent, files, clock, aged, history, bounds>>

StageWritten ==
  /\ stage # None /\ stage.pc = "write"
  /\ stage' = [stage EXCEPT !.at = @ + 1, !.pc = IF stage.at = NPlatforms THEN "install" ELSE "download"]
  /\ staged' = [staged EXCEPT ![stage.to][stage.at] = "whole"]
  /\ UNCHANGED <<up, running, latest, asked, busy, local, bin, agent, files, clock, aged, history, bounds>>

\* The agent does not answer, or refuses because it is busy.
HandOffRefused ==
  /\ stage # None /\ stage.pc = "install"
  /\ ~agentUp \/ agentBusy
  /\ StagingEnds("failed")
  /\ UNCHANGED <<up, running, latest, asked, dirs, agent, files, clock, aged, history, bounds>>

\* The agent's Start accepts the tag and writes the pending record.  When its
\* answer arrives in time the server drops its own record, else it marks it failed.
HandOff(answered) ==
  /\ stage # None /\ stage.pc = "install"
  /\ agentUp /\ ~agentBusy
  /\ agentBusy' = TRUE
  /\ clock' = clock + 1
  /\ rec' = [state |-> "pending", to |-> stage.to, at |-> clock + 1]
  /\ job' = [to |-> stage.to, pc |-> "fetch"]
  /\ before' = exe /\ behind' = (running < exe)
  /\ stage' = None
  /\ busy' = FALSE
  /\ local' = IF answered THEN None ELSE [local EXCEPT !.state = "failed"]
  /\ UNCHANGED <<up, running, latest, asked, dirs, agentUp, restarting, files, aged, unsafe, gap, bounds>>

-----------------------------------------------------------------------------
(* The server: process life *)

ForgetAll == latest' = 0 /\ asked' = {} /\ busy' = FALSE /\ local' = None /\ stage' = None

\* systemd starts the unit from BinPath.
StartServer == up' = "starting" /\ running' = exe /\ ForgetAll

ServerCrash ==
  /\ up # "down" /\ crashes < MaxCrashes
  /\ up' = "down" /\ ForgetAll
  /\ crashes' = crashes + 1
  /\ UNCHANGED <<running, dirs, agent, files, clock, aged, history, kills, faults>>

\* Restart=always
ServerStarts ==
  /\ up = "down" /\ exe # Missing
  /\ StartServer
  /\ UNCHANGED <<dirs, agent, files, clock, aged, history, bounds>>

\* adoptStaged, one file: it is renamed into bin.
Adopt(p) ==
  /\ up = "starting" /\ staged[running][p] # "none"
  /\ staged' = [staged EXCEPT ![running][p] = "none"]
  /\ bin' = [bin EXCEPT ![p] = [version |-> running, whole |-> staged[running][p] = "whole"]]
  /\ UNCHANGED <<server, agent, files, clock, aged, history, bounds>>

\* RemoveAll of updates/<version>
Without(removed) == [v \in Versions |-> IF v \in removed THEN [p \in Platforms |-> "none"] ELSE staged[v]]

\* The rest of adoptStaged: directories of other versions older than
\* stagingKeepFor are removed, and so is that of the running version, with the
\* files that could not be renamed.  It stays when there is no bin directory to
\* rename into or it cannot be removed.  Then the listeners are served.
Serve(old) ==
  /\ up = "starting" /\ up' = "serving"
  /\ IF \A p \in Platforms : staged[running][p] = "none"
     THEN staged' = Without(old) /\ NoFault
     ELSE staged' \in {Without(old \cup {running}), Without(old)} /\ Fault
  /\ UNCHANGED <<running, latest, asked, busy, local, stage, bin, agent, files, clock, aged, history, crashes, kills>>

-----------------------------------------------------------------------------
(* The agent: Updater.run *)

At(pc) == job # None /\ job.pc = pc
Goto(pc) == job' = [job EXCEPT !.pc = pc]
Stays == UNCHANGED <<agentBusy, rec>>

\* set with the outcome, and the deferred release of busy.
JobEnds(state) ==
  /\ job' = None
  /\ agentBusy' = FALSE
  /\ rec' = [rec EXCEPT !.state = state]

RestOfInstall == UNCHANGED <<server, dirs, agentUp, clock, aged, before, unsafe, behind, crashes, kills>>
RestOfJob == RestOfInstall /\ UNCHANGED gap

\* What fetchBinary returns: the binary of the release.  Anything else that
\* arrives is refused by its checksum.
fetchBinary(v) == v

\* verifyBinary: the file runs and names its version.
verifyBinary(file, v) == file = v

\* Downloaded and verified, or the update fails.
Fetch ==
  /\ At("fetch")
  /\ \/ Goto("write") /\ Stays
     \/ JobEnds("failed")
  /\ UNCHANGED <<files, restarting, faults>> /\ RestOfJob

\* WriteFile(BinPath.new): truncated first, and that is how it may stay.
WriteNew ==
  /\ At("write") /\ new' = Cut
  /\ \/ Goto("written") /\ Stays
     \/ JobEnds("failed")
  /\ UNCHANGED <<exe, prev, restarting, faults>> /\ RestOfJob

WrittenNew ==
  /\ At("written") /\ new' = fetchBinary(job.to)
  /\ Goto("verify") /\ Stays
  /\ UNCHANGED <<exe, prev, restarting, faults>> /\ RestOfJob

\* If the new file is not right it is removed.
Verify ==
  /\ At("verify")
  /\ \/ verifyBinary(new, job.to) /\ Goto("remove") /\ Stays /\ UNCHANGED new
     \/ new' = Missing /\ JobEnds("failed")
  /\ UNCHANGED <<exe, prev, restarting, faults>> /\ RestOfJob

RemovePrevious ==
  /\ At("remove") /\ prev' = Missing
  /\ Goto("keep") /\ Stays
  /\ UNCHANGED <<exe, new, restarting, faults>> /\ RestOfJob

KeepPrevious ==
  /\ At("keep")
  /\ \/ exe # Missing /\ prev' = exe /\ exe' = Missing /\ UNCHANGED new /\ NoFault /\ Goto("install") /\ Stays
     \/ /\ RenameFails(exe)
        /\ new' = Missing /\ UNCHANGED <<exe, prev>> /\ JobEnds("failed")
  /\ UNCHANGED restarting /\ RestOfJob

\* Variant with a defect: the first rename is not undone.
InstallNewNoUndo ==
  /\ At("install")
  /\ \/ exe' = new /\ new' = Missing /\ NoFault /\ Goto("restart") /\ Stays
     \/ UNCHANGED <<exe, new>> /\ Fault /\ JobEnds("failed")
  /\ UNCHANGED <<prev, restarting>> /\ RestOfJob

\* The second rename; if it fails the first is undone, unless that fails too.
InstallNew ==
  /\ At("install")
  /\ \/ exe' = new /\ new' = Missing /\ UNCHANGED prev /\ NoFault /\ Goto("restart") /\ Stays
     \/ exe' = prev /\ prev' = Missing /\ UNCHANGED new /\ Fault /\ JobEnds("failed")
     \/ UNCHANGED files /\ faults + 2 <= MaxFaults /\ faults' = faults + 2 /\ JobEnds("failed")
  /\ gap' = (gap \/ faults' = faults + 2)
  /\ UNCHANGED restarting /\ RestOfInstall

\* systemctl restart
RestartServer ==
  /\ At("restart") /\ Stays
  /\ \/ exe # Missing /\ StartServer /\ NoFault /\ Goto("health")
     \/ Fault /\ up' = "down" /\ ForgetAll /\ UNCHANGED running /\ Goto("rollback")
  /\ UNCHANGED <<dirs, agentUp, restarting, files, clock, aged, history, crashes, kills>>

\* waitHealthy sees the version: done, and the agent's own restart is scheduled.
Healthy ==
  /\ At("health") /\ up = "serving" /\ running = job.to
  /\ JobEnds("done")
  /\ restarting' = TRUE
  /\ UNCHANGED <<files, faults>> /\ RestOfJob

\* waitHealthy gives up after its timeout.
Unhealthy ==
  /\ At("health")
  /\ Goto("rollback") /\ Stays
  /\ UNCHANGED <<files, restarting, faults>> /\ RestOfJob

\* Variant with a defect: the binary is not put back before the restart.
RollbackRenameMissing ==
  /\ At("rollback")
  /\ Goto("rerun") /\ Stays
  /\ UNCHANGED <<files, restarting, faults>> /\ RestOfJob

RollbackRename ==
  /\ At("rollback")
  /\ \/ prev # Missing /\ exe' = prev /\ prev' = Missing /\ UNCHANGED new /\ NoFault /\ Goto("rerun") /\ Stays
     \/ /\ RenameFails(prev)
        /\ UNCHANGED files /\ JobEnds("failed")
  /\ UNCHANGED restarting /\ RestOfJob

RollbackRestart ==
  /\ At("rerun")
  /\ \/ exe # Missing /\ StartServer /\ NoFault /\ JobEnds("rolled_back")
     \/ Fault /\ up' = "down" /\ ForgetAll /\ UNCHANGED running /\ JobEnds("failed")
  /\ UNCHANGED <<dirs, agentUp, restarting, files, clock, aged, history, crashes, kills>>

-----------------------------------------------------------------------------
(* The agent: process life *)

\* The goroutine dies with the process; the record and the files stay.
AgentDies ==
  /\ agentUp' = FALSE
  /\ job' = None
  /\ agentBusy' = FALSE
  /\ gap' = (gap \/ At("install"))
  /\ UNCHANGED <<server, dirs, rec, files, clock, aged, before, unsafe, behind, crashes, faults>>

AgentKilled ==
  /\ agentUp /\ kills < MaxKills /\ kills' = kills + 1
  /\ AgentDies /\ UNCHANGED restarting

\* The transient unit restarts the agent two seconds after an update is done.
AgentRestartsItself ==
  /\ agentUp /\ restarting /\ restarting' = FALSE
  /\ AgentDies /\ UNCHANGED kills

\* init reads the record file again; nothing resumes a pending job.
AgentStarts ==
  /\ ~agentUp /\ exe # Missing
  /\ agentUp' = TRUE
  /\ UNCHANGED <<server, dirs, agentBusy, job, rec, restarting, files, clock, aged, history, bounds>>

\* stalePendingAfter passes.
Age ==
  /\ aged < clock /\ aged' = clock
  /\ UNCHANGED <<server, dirs, agent, files, clock, history, bounds>>

-----------------------------------------------------------------------------
\* A server of release 1 with the client binaries its installer put in place.
Init ==
  /\ up = "serving" /\ running = 1 /\ latest = 0 /\ asked = {} /\ busy = FALSE
  /\ local = None /\ stage = None
  /\ staged = [v \in Versions |-> [p \in Platforms |-> "none"]]
  /\ bin = [p \in Platforms |-> [version |-> 1, whole |-> TRUE]]
  /\ agentUp = TRUE /\ agentBusy = FALSE /\ job = None /\ rec = None /\ restarting = FALSE
  /\ exe = 1 /\ new = Missing /\ prev = Missing
  /\ clock = 0 /\ aged = 0
  /\ before = 1 /\ unsafe = FALSE /\ gap = FALSE /\ behind = FALSE
  /\ crashes = 0 /\ kills = 0 /\ faults = 0

Staging == StageFails \/ StageDownload \/ StageWritten \/ HandOffRefused \/ \E b \in BOOLEAN : HandOff(b)

ServerLives == ServerStarts \/ (\E p \in Platforms : Adopt(p)) \/ \E old \in SUBSET (Versions \ {running}) : Serve(old)

Installing ==
  \/ Fetch \/ WriteNew \/ WrittenNew \/ Verify \/ RemovePrevious \/ KeepPrevious \/ InstallNew
  \/ RestartServer \/ Healthy \/ Unhealthy \/ RollbackRename \/ RollbackRestart

Next ==
  \/ Check
  \/ \E v \in Versions : Ask(v) \/ StartRefused(v) \/ StartUpdate(v)
  \/ Staging
  \/ ServerCrash \/ ServerLives
  \/ Installing
  \/ AgentKilled \/ AgentRestartsItself \/ AgentStarts
  \/ Age

Spec == Init /\ [][Next]_vars

\* Downloads, the test run of the binary and the health probe have time limits;
\* systemd ends a systemctl job after its own and starts the units again.
Fairness == WF_vars(Staging) /\ WF_vars(Installing) /\ WF_vars(ServerLives) /\ WF_vars(AgentStarts)

FairSpec == Spec /\ Fairness

-----------------------------------------------------------------------------
TypeOK ==
  /\ up \in {"down", "starting", "serving"} /\ running \in Versions /\ latest \in 0..MaxVersion
  /\ asked \subseteq Versions /\ busy \in BOOLEAN
  /\ local \in Record \cup {None}
  /\ stage \in StageRecord \cup {None}
  /\ staged \in [Versions -> [Platforms -> {"none", "cut", "whole"}]]
  /\ bin \in [Platforms -> [version : Versions, whole : BOOLEAN]]
  /\ agentUp \in BOOLEAN /\ agentBusy \in BOOLEAN /\ restarting \in BOOLEAN
  /\ job \in JobRecord \cup {None}
  /\ rec \in Record \cup {None}
  /\ exe \in 0..MaxVersion /\ new \in 0..Cut /\ prev \in 0..MaxVersion
  /\ clock \in Nat /\ aged \in 0..clock
  /\ before \in 0..MaxVersion /\ unsafe \in BOOLEAN /\ gap \in BOOLEAN /\ behind \in BOOLEAN
  /\ crashes \in Nat /\ kills \in Nat /\ faults \in Nat

\* The record the server shows tells the truth about the binary that is
\* installed: after "done" it is the version asked for, and after
\* "rolled_back" the one that was installed when the job began.
RecordTells ==
  rec # None =>
    /\ rec.state = "done" => exe = rec.to
    /\ rec.state = "rolled_back" => exe = before

\* There is always a binary to start the server and the agent from: BinPath is
\* empty between the two renames of an install, for good if the agent is killed
\* there or the rename that undoes the first one fails as well, and never else.
BinaryInstalled == exe = Missing <=> At("install") \/ gap

\* adoptStaged never puts a half written client binary into the directory the
\* server hands out, unless the staged version was one that could be started
\* while it was being staged: a reinstall, or a second try while the agent works.
ServedWhole == unsafe \/ \A p \in Platforms : bin[p].whole

\* What the API document says of adoptStaged: client pushes match the
\* running version.
ServedMatchesRunning == up = "serving" => \A p \in Platforms : bin[p].version = running

\* The server runs an older version than before only when the agent has put the
\* previous binary back, or when the server that handed the job over was itself
\* older than the binary installed then: the agent had been killed between an
\* install and the restart, and the older server was told to reinstall itself.
\* start refuses downgrades, but compares with the version that runs.
NoDowngrade == [][running' < running => running' = before \/ behind]_vars

\* Neither the server nor the agent stays busy with an update: busy is
\* released on every path, so a later update is not refused for ever.
UpdateEnds == (busy ~> ~busy) /\ (agentBusy ~> ~agentBusy)
=============================================================================
