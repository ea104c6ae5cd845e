--------------------------- MODULE SelfUpdateProofs ---------------------------
(***************************************************************************)
(* What the update of the server keeps, for any number of releases and     *)
(* platforms and however often the processes are killed, renames fail or   *)
(* updates are started.                                                    *)
(*                                                                         *)
(* The record tells the truth because every step of a job knows where the  *)
(* three files are.  What is handed out is whole because nothing is staged *)
(* for a version that some start could pick up meanwhile; what may be      *)
(* started is therefore tracked through the job.                           *)
(***************************************************************************)
EXTENDS SelfUpdate, TLAPS

\* Steps of a job before and after BinPath has been moved away.
Preparing == {"fetch", "write", "written", "verify", "remove", "keep"}
Installed == {"restart", "health", "rollback"}

\* busy keeps a second job out.
BusyWithJob == job # None => agentBusy = TRUE

\* Where the three files are at every step of the agent's job, and that the
\* record it will settle is its own.
JobFiles ==
  job # None =>
    /\ rec \in Record /\ rec.state = "pending" /\ rec.to = job.to
    /\ job.pc \in Preparing => exe = before
    /\ job.pc \in {"verify", "remove", "keep", "install"} => new = job.to
    /\ job.pc = "install" => exe = Missing
    /\ job.pc \in Installed => exe = job.to
    /\ job.pc \in Installed \cup {"install"} => prev = before /\ before \in Versions
    /\ job.pc = "rerun" => exe = before /\ exe \in Versions

\* Updates are asked for and staged by a server that serves, and the files
\* before the one being staged have been written.
StageSound ==
  /\ asked # {} => up = "serving"
  /\ stage # None =>
       /\ up = "serving" /\ local \in Record
       /\ stage.pc = "install" <=> stage.at = NPlatforms + 1
       /\ \A p \in Platforms : p < stage.at => staged[stage.to][p] = "whole"

\* The versions a server may be started from, now or by the job under way.
Startable == {running, exe} \cup (IF job = None THEN {} ELSE {job.to, before})

\* Only the newest release and the running one are asked for.
NewestAsked == latest \in {0, MaxVersion} /\ asked \subseteq {running, MaxVersion}

\* Unless it is unsafe, nothing is staged while the agent works, and nothing
\* that could be started meanwhile; so a job is for the newest release.
StagedApart ==
  unsafe = FALSE =>
    /\ stage # None => job = None /\ stage.to = MaxVersion /\ stage.to \notin Startable
    /\ job # None => job.to = MaxVersion

\* What a server that may be started would adopt has been written to the end.
StartableWhole ==
  unsafe = FALSE => \A v \in Versions, p \in Platforms : v \in Startable => staged[v][p] # "cut"

\* A start accepts no older version.
AsksUpward ==
  /\ \A v \in asked : running <= v
  /\ stage # None => running <= stage.to

\* An install that left BinPath empty is over, and no later one gets as far.
GapLasts == gap = TRUE => job = None \/ job.pc \in Preparing

\* A job that was handed over by a server no older than the installed binary
\* leads to no older version, and what is installed below the running version
\* is what the agent has put back.
JobUpward ==
  behind = FALSE =>
    /\ job # None => running <= job.to /\ before <= job.to
    /\ exe \in Versions /\ exe < running => exe = before

SelfUpdateInv ==
  /\ TypeOK /\ BusyWithJob /\ JobFiles /\ RecordTells /\ BinaryInstalled /\ GapLasts
  /\ StageSound /\ NewestAsked /\ StagedApart /\ StartableWhole /\ ServedWhole
  /\ AsksUpward /\ JobUpward

-----------------------------------------------------------------------------
(* The steps the actions are built from *)

\* Goto moves the job and changes nothing else of it.
LEMMA GotoFacts ==
  ASSUME TypeOK, job # None,
         NEW pc \in {"fetch", "write", "written", "verify", "remove", "keep", "install",
                     "restart", "health", "rollback", "rerun"},
         Goto(pc)
  PROVE  job' \in JobRecord /\ job' # None /\ job'.to = job.to /\ job'.pc = pc
<1>1. job' \in JobRecord /\ job'.to = job.to /\ job'.pc = pc
  BY DEF Goto, TypeOK, JobRecord
<1> QED BY <1>1, NoneAssumption

\* JobEnds settles the record of the job.
LEMMA JobEndsFacts ==
  ASSUME TypeOK, JobFiles, job # None, NEW s \in {"pending", "done", "failed", "rolled_back"}, JobEnds(s)
  PROVE  /\ job' = None /\ agentBusy' = FALSE
         /\ rec' \in Record /\ rec' # None /\ rec'.state = s /\ rec'.to = rec.to
<1>1. rec' \in Record /\ rec'.state = s /\ rec'.to = rec.to
  BY DEF JobEnds, JobFiles, Record
<1> QED BY <1>1, NoneAssumption DEF JobEnds

\* StagingEnds frees the server for the next update.
LEMMA StagingEndsFacts ==
  ASSUME TypeOK, StageSound, stage # None, NEW s \in {"pending", "done", "failed", "rolled_back"}, StagingEnds(s)
  PROVE  stage' = None /\ busy' = FALSE /\ local' \in Record
BY DEF StagingEnds, StageSound, Record

\* A download opens the file of the platform the goroutine is at.
LEMMA StageDownloadFacts ==
  ASSUME TypeOK, StageSound, StageDownload
  PROVE  /\ stage' \in StageRecord /\ stage' # None
         /\ stage'.to = stage.to /\ stage'.at = stage.at /\ stage'.pc = "write"
         /\ stage.at \in Platforms /\ stage.to \in Versions
         /\ staged' \in [Versions -> [Platforms -> {"none", "cut", "whole"}]]
         /\ \A v \in Versions, p \in Platforms :
              staged'[v][p] = IF v = stage.to /\ p = stage.at THEN "cut" ELSE staged[v][p]
<1>1. /\ stage' \in StageRecord /\ stage'.to = stage.to /\ stage'.at = stage.at /\ stage'.pc = "write"
      /\ stage.to \in Versions /\ stage.at \in 1..NPlatforms + 1 /\ stage.at # NPlatforms + 1
  BY DEF StageDownload, TypeOK, StageRecord, StageSound
<1>2. stage.at \in Platforms
  BY <1>1, SelfUpdateAssumption DEF Platforms
<1>3. staged' \in [Versions -> [Platforms -> {"none", "cut", "whole"}]]
  BY <1>1, <1>2 DEF StageDownload, TypeOK
<1>4. \A v \in Versions, p \in Platforms :
        staged'[v][p] = IF v = stage.to /\ p = stage.at THEN "cut" ELSE staged[v][p]
  BY <1>1, <1>2 DEF StageDownload, TypeOK
<1> QED BY <1>1, <1>2, <1>3, <1>4, NoneAssumption

\* A written file is whole, and the goroutine is at the next platform.
LEMMA StageWrittenFacts ==
  ASSUME TypeOK, StageSound, StageWritten
  PROVE  /\ stage' \in StageRecord /\ stage' # None
         /\ stage'.to = stage.to /\ stage'.at = stage.at + 1
         /\ stage'.pc = IF stage.at = NPlatforms THEN "install" ELSE "download"
         /\ stage.at \in Platforms /\ stage.to \in Versions
         /\ staged' \in [Versions -> [Platforms -> {"none", "cut", "whole"}]]
         /\ \A v \in Versions, p \in Platforms :
              staged'[v][p] = IF v = stage.to /\ p = stage.at THEN "whole" ELSE staged[v][p]
<1>1. /\ stage.to \in Versions /\ stage.at \in 1..NPlatforms + 1 /\ stage.at # NPlatforms + 1
      /\ stage.pc \in {"download", "write", "install"} /\ stage \in StageRecord
  BY DEF StageWritten, TypeOK, StageRecord, StageSound
<1>2. stage.at \in Platforms /\ stage.at + 1 \in 1..NPlatforms + 1
  BY <1>1, SelfUpdateAssumption DEF Platforms
<1>3. /\ stage' \in StageRecord /\ stage'.to = stage.to /\ stage'.at = stage.at + 1
      /\ stage'.pc = IF stage.at = NPlatforms THEN "install" ELSE "download"
  BY <1>1, <1>2 DEF StageWritten, StageRecord
<1>4. staged' \in [Versions -> [Platforms -> {"none", "cut", "whole"}]]
  BY <1>1, <1>2 DEF StageWritten, TypeOK
<1>5. \A v \in Versions, p \in Platforms :
        staged'[v][p] = IF v = stage.to /\ p = stage.at THEN "whole" ELSE staged[v][p]
  BY <1>1, <1>2 DEF StageWritten, TypeOK
<1> QED BY <1>1, <1>2, <1>3, <1>4, <1>5, NoneAssumption

\* RemoveAll takes files away and adds none.
LEMMA WithoutFacts ==
  ASSUME TypeOK, NEW old
  PROVE  /\ Without(old) \in [Versions -> [Platforms -> {"none", "cut", "whole"}]]
         /\ \A v \in Versions, p \in Platforms : Without(old)[v][p] \in {"none", staged[v][p]}
BY DEF Without, TypeOK

-----------------------------------------------------------------------------
(* The invariant is kept, part by part *)

\* The types, variable group by variable group.
ServerType ==
  /\ up \in {"down", "starting", "serving"} /\ running \in Versions /\ latest \in 0..MaxVersion
  /\ asked \subseteq Versions /\ busy \in BOOLEAN
  /\ local \in Record \cup {None}
  /\ stage \in StageRecord \cup {None}
DirsType ==
  /\ staged \in [Versions -> [Platforms -> {"none", "cut", "whole"}]]
  /\ bin \in [Platforms -> [version : Versions, whole : BOOLEAN]]
AgentType ==
  /\ agentUp \in BOOLEAN /\ agentBusy \in BOOLEAN /\ restarting \in BOOLEAN
  /\ job \in JobRecord \cup {None}
  /\ rec \in Record \cup {None}
FilesType == exe \in 0..MaxVersion /\ new \in 0..Cut /\ prev \in 0..MaxVersion /\ before \in 0..MaxVersion
CountsType ==
  /\ clock \in Nat /\ aged \in 0..clock
  /\ crashes \in Nat /\ kills \in Nat /\ faults \in Nat
  /\ unsafe \in BOOLEAN /\ gap \in BOOLEAN /\ behind \in BOOLEAN

\* The type invariant in its parts.
LEMMA TypeParts == TypeOK <=> ServerType /\ DirsType /\ AgentType /\ FilesType /\ CountsType
BY DEF TypeOK, ServerType, DirsType, AgentType, FilesType, CountsType

\* A server that stops has forgotten its update.
LEMMA ForgetAllFacts ==
  ASSUME ForgetAll
  PROVE  /\ latest' = 0 /\ latest' \in 0..MaxVersion /\ asked' = {} /\ asked' \subseteq Versions
         /\ busy' \in BOOLEAN /\ local' = None /\ stage' = None
<1>1. latest' \in 0..MaxVersion
  BY SelfUpdateAssumption DEF ForgetAll
<1> QED BY <1>1 DEF ForgetAll

\* The server's variables keep their types.
LEMMA ServerTypeStep ==
  ASSUME SelfUpdateInv, [Next]_vars
  PROVE  ServerType'
<1> USE DEF SelfUpdateInv
<1>0. ASSUME UNCHANGED <<up, running, latest, asked, busy, local, stage>> PROVE ServerType'
  BY <1>0 DEF ServerType, TypeOK
<1>1. ASSUME Check PROVE ServerType'
  BY SelfUpdateAssumption, <1>1
     DEF Check, dirs, agent, files, history, bounds, ServerType, TypeOK, Versions
<1>2. ASSUME NEW v \in Versions, Ask(v) PROVE ServerType'
  BY SelfUpdateAssumption, <1>2
     DEF Ask, dirs, agent, files, history, bounds, ServerType, TypeOK, Versions
<1>3. ASSUME NEW v \in Versions, StartRefused(v) PROVE ServerType'
  BY SelfUpdateAssumption, <1>3
     DEF StartRefused, dirs, agent, files, history, bounds, ServerType, TypeOK, Versions
<1>4. ASSUME NEW v \in Versions, StartUpdate(v) PROVE ServerType'
  <2>1. local' \in Record /\ stage' \in StageRecord
    BY SelfUpdateAssumption, <1>4 DEF StartUpdate, Record, StageRecord, TypeOK
  <2> QED BY <2>1, <1>4 DEF StartUpdate, ServerType, TypeOK
<1>5. ASSUME StageFails PROVE ServerType'
  BY SelfUpdateAssumption, StagingEndsFacts, <1>5
     DEF StageFails, StagingEnds, agent, files, history, bounds, ServerType, TypeOK, Versions
<1>6. ASSUME StageDownload PROVE ServerType'
  BY SelfUpdateAssumption, StageDownloadFacts, <1>6
     DEF StageDownload, agent, files, history, bounds, ServerType, TypeOK, Versions
<1>7. ASSUME StageWritten PROVE ServerType'
  BY SelfUpdateAssumption, StageWrittenFacts, <1>7
     DEF StageWritten, agent, files, history, bounds, ServerType, TypeOK, Versions
<1>8. ASSUME HandOffRefused PROVE ServerType'
  BY SelfUpdateAssumption, StagingEndsFacts, <1>8
     DEF HandOffRefused, StagingEnds, dirs, agent, files, history, bounds, ServerType, TypeOK,
         Versions
<1>9. ASSUME NEW b \in BOOLEAN, HandOff(b) PROVE ServerType'
  <2>1. local' \in Record \cup {None}
    BY <1>9 DEF HandOff, Record, StageSound
  <2> QED BY <2>1, <1>9 DEF HandOff, ServerType, TypeOK
<1>10. ASSUME ServerCrash PROVE ServerType'
  BY <1>10, ForgetAllFacts DEF ServerCrash, ServerType, TypeOK
<1>11. ASSUME ServerStarts PROVE ServerType'
  <2>1. exe \in Versions
    BY SelfUpdateAssumption, <1>11 DEF ServerStarts, TypeOK, Versions, Missing
  <2> QED BY <2>1, <1>11, ForgetAllFacts DEF ServerStarts, StartServer, ServerType, TypeOK
<1>12. ASSUME NEW p \in Platforms, Adopt(p) PROVE ServerType'
  BY <1>0, <1>12 DEF Adopt, server, agent, files, history, bounds
<1>13. ASSUME NEW old \in SUBSET (Versions \ {running}), Serve(old) PROVE ServerType'
  BY SelfUpdateAssumption, <1>13
     DEF Serve, agent, files, history, bounds, ServerType, TypeOK, Versions
<1>14. ASSUME Fetch PROVE ServerType'
  BY <1>0, <1>14 DEF Fetch, At, RestOfJob, RestOfInstall, Stays, server, dirs, files, history
<1>15. ASSUME WriteNew PROVE ServerType'
  BY <1>0, <1>15 DEF WriteNew, At, RestOfJob, RestOfInstall, Stays, server, dirs, history
<1>16. ASSUME WrittenNew PROVE ServerType'
  BY <1>0, <1>16 DEF WrittenNew, At, RestOfJob, RestOfInstall, Stays, server, dirs, history
<1>17. ASSUME Verify PROVE ServerType'
  BY <1>0, <1>17 DEF Verify, At, RestOfJob, RestOfInstall, Stays, server, dirs, history
<1>18. ASSUME RemovePrevious PROVE ServerType'
  BY <1>0, <1>18 DEF RemovePrevious, At, RestOfJob, RestOfInstall, Stays, server, dirs, history
<1>19. ASSUME KeepPrevious PROVE ServerType'
  BY <1>0, <1>19
     DEF KeepPrevious, At, RestOfJob, RestOfInstall, RenameFails, Fault, NoFault, Stays, server, dirs, history
<1>20. ASSUME InstallNew PROVE ServerType'
  BY <1>0, <1>20
     DEF InstallNew, At, RestOfJob, RestOfInstall, RenameFails, Fault, NoFault, Stays, server, dirs, files,
         history
<1>21. ASSUME RestartServer PROVE ServerType'
  <2>1. exe \in Versions \cup {Missing}
    BY SelfUpdateAssumption DEF TypeOK, Versions, Missing
  <2> QED BY <2>1, <1>21, ForgetAllFacts DEF RestartServer, StartServer, ServerType, TypeOK
<1>22. ASSUME Healthy PROVE ServerType'
  BY <1>0, <1>22 DEF Healthy, At, RestOfJob, RestOfInstall, Stays, server, dirs, files, history
<1>23. ASSUME Unhealthy PROVE ServerType'
  BY <1>0, <1>23 DEF Unhealthy, At, RestOfJob, RestOfInstall, Stays, server, dirs, files, history
<1>24. ASSUME RollbackRename PROVE ServerType'
  BY <1>0, <1>24
     DEF RollbackRename, At, RestOfJob, RestOfInstall, RenameFails, Fault, NoFault, Stays, server, dirs, files,
         history
<1>25. ASSUME RollbackRestart PROVE ServerType'
  <2>1. exe \in Versions \cup {Missing}
    BY SelfUpdateAssumption DEF TypeOK, Versions, Missing
  <2> QED BY <2>1, <1>25, ForgetAllFacts DEF RollbackRestart, StartServer, ServerType, TypeOK
<1>26. ASSUME AgentKilled PROVE ServerType'
  BY <1>0, <1>26 DEF AgentKilled, AgentDies, server, dirs, files
<1>27. ASSUME AgentRestartsItself PROVE ServerType'
  BY <1>0, <1>27 DEF AgentRestartsItself, AgentDies, server, dirs, files
<1>28. ASSUME AgentStarts PROVE ServerType'
  BY <1>0, <1>28 DEF AgentStarts, server, dirs, files, history, bounds
<1>29. ASSUME Age PROVE ServerType'
  BY <1>0, <1>29 DEF Age, server, dirs, agent, files, history, bounds
<1>30. CASE UNCHANGED vars
  BY <1>0, <1>30 DEF vars, server, dirs, agent, files, history, bounds
<1> QED BY <1>1, <1>2, <1>3, <1>4, <1>5, <1>6, <1>7, <1>8, <1>9, <1>10, <1>11, <1>12, <1>13, <1>14,
           <1>15, <1>16, <1>17, <1>18, <1>19, <1>20, <1>21, <1>22, <1>23, <1>24, <1>25, <1>26,
           <1>27, <1>28, <1>29, <1>30
           DEF Next, Staging, ServerLives, Installing

\* So do the directories.
LEMMA DirsTypeStep ==
  ASSUME SelfUpdateInv, [Next]_vars
  PROVE  DirsType'
<1> USE DEF SelfUpdateInv
<1>0. ASSUME UNCHANGED <<staged, bin>> PROVE DirsType'
  BY <1>0 DEF DirsType, TypeOK
<1>1. ASSUME Check PROVE DirsType'
  BY <1>0, <1>1 DEF Check, dirs, agent, files, history, bounds
<1>2. ASSUME NEW v \in Versions, Ask(v) PROVE DirsType'
  BY <1>0, <1>2 DEF Ask, dirs, agent, files, history, bounds
<1>3. ASSUME NEW v \in Versions, StartRefused(v) PROVE DirsType'
  BY <1>0, <1>3 DEF StartRefused, dirs, agent, files, history, bounds
<1>4. ASSUME NEW v \in Versions, StartUpdate(v) PROVE DirsType'
  BY <1>0, <1>4 DEF StartUpdate, dirs, agent, files, bounds
<1>5. ASSUME StageFails PROVE DirsType'
  BY SelfUpdateAssumption, StagingEndsFacts, <1>5
     DEF StageFails, StagingEnds, agent, files, history, bounds, DirsType, TypeOK
<1>6. ASSUME StageDownload PROVE DirsType'
  BY SelfUpdateAssumption, StageDownloadFacts, <1>6
     DEF StageDownload, agent, files, history, bounds, DirsType, TypeOK
<1>7. ASSUME StageWritten PROVE DirsType'
  BY SelfUpdateAssumption, StageWrittenFacts, <1>7
     DEF StageWritten, agent, files, history, bounds, DirsType, TypeOK
<1>8. ASSUME HandOffRefused PROVE DirsType'
  BY <1>0, <1>8 DEF HandOffRefused, StagingEnds, dirs, agent, files, history, bounds
<1>9. ASSUME NEW b \in BOOLEAN, HandOff(b) PROVE DirsType'
  BY <1>0, <1>9 DEF HandOff, dirs, files, bounds
<1>10. ASSUME ServerCrash PROVE DirsType'
  BY <1>0, <1>10 DEF ServerCrash, ForgetAll, dirs, agent, files, history
<1>11. ASSUME ServerStarts PROVE DirsType'
  BY <1>0, <1>11 DEF ServerStarts, StartServer, ForgetAll, dirs, agent, files, history, bounds
<1>12. ASSUME NEW p \in Platforms, Adopt(p) PROVE DirsType'
  <2>1. running \in Versions /\ staged[running][p] \in {"none", "cut", "whole"}
    BY DEF TypeOK
  <2>2. [version |-> running, whole |-> staged[running][p] = "whole"] \in [version : Versions, whole : BOOLEAN]
    BY <2>1
  <2>3. bin' \in [Platforms -> [version : Versions, whole : BOOLEAN]]
    BY <2>2, <1>12 DEF Adopt, TypeOK
  <2>4. staged' \in [Versions -> [Platforms -> {"none", "cut", "whole"}]]
    BY <2>1, <1>12 DEF Adopt, TypeOK
  <2> QED BY <2>3, <2>4 DEF DirsType
<1>13. ASSUME NEW old \in SUBSET (Versions \ {running}), Serve(old) PROVE DirsType'
  BY <1>13, WithoutFacts DEF Serve, DirsType, TypeOK
<1>14. ASSUME Fetch PROVE DirsType'
  BY <1>0, <1>14 DEF Fetch, At, RestOfJob, RestOfInstall, Stays, server, dirs, files, history
<1>15. ASSUME WriteNew PROVE DirsType'
  BY <1>0, <1>15 DEF WriteNew, At, RestOfJob, RestOfInstall, Stays, server, dirs, history
<1>16. ASSUME WrittenNew PROVE DirsType'
  BY <1>0, <1>16 DEF WrittenNew, At, RestOfJob, RestOfInstall, Stays, server, dirs, history
<1>17. ASSUME Verify PROVE DirsType'
  BY <1>0, <1>17 DEF Verify, At, RestOfJob, RestOfInstall, Stays, server, dirs, history
<1>18. ASSUME RemovePrevious PROVE DirsType'
  BY <1>0, <1>18 DEF RemovePrevious, At, RestOfJob, RestOfInstall, Stays, server, dirs, history
<1>19. ASSUME KeepPrevious PROVE DirsType'
  BY <1>0, <1>19
     DEF KeepPrevious, At, RestOfJob, RestOfInstall, RenameFails, Fault, NoFault, Stays, server, dirs, history
<1>20. ASSUME InstallNew PROVE DirsType'
  BY <1>0, <1>20
     DEF InstallNew, At, RestOfJob, RestOfInstall, RenameFails, Fault, NoFault, Stays, server, dirs, files,
         history
<1>21. ASSUME RestartServer PROVE DirsType'
  BY <1>0, <1>21
     DEF RestartServer, At, StartServer, ForgetAll, Fault, NoFault, Stays, dirs, files, history
<1>22. ASSUME Healthy PROVE DirsType'
  BY <1>0, <1>22 DEF Healthy, At, RestOfJob, RestOfInstall, Stays, server, dirs, files, history
<1>23. ASSUME Unhealthy PROVE DirsType'
  BY <1>0, <1>23 DEF Unhealthy, At, RestOfJob, RestOfInstall, Stays, server, dirs, files, history
<1>24. ASSUME RollbackRename PROVE DirsType'
  BY <1>0, <1>24
     DEF RollbackRename, At, RestOfJob, RestOfInstall, RenameFails, Fault, NoFault, Stays, server, dirs, files,
         history
<1>25. ASSUME RollbackRestart PROVE DirsType'
  BY <1>0, <1>25
     DEF RollbackRestart, At, StartServer, ForgetAll, Fault, NoFault, Stays, dirs, files,
         history
<1>26. ASSUME AgentKilled PROVE DirsType'
  BY <1>0, <1>26 DEF AgentKilled, AgentDies, server, dirs, files
<1>27. ASSUME AgentRestartsItself PROVE DirsType'
  BY <1>0, <1>27 DEF AgentRestartsItself, AgentDies, server, dirs, files
<1>28. ASSUME AgentStarts PROVE DirsType'
  BY <1>0, <1>28 DEF AgentStarts, server, dirs, files, history, bounds
<1>29. ASSUME Age PROVE DirsType'
  BY <1>0, <1>29 DEF Age, server, dirs, agent, files, history, bounds
<1>30. CASE UNCHANGED vars
  BY <1>0, <1>30 DEF vars, server, dirs, agent, files, history, bounds
<1> QED BY <1>1, <1>2, <1>3, <1>4, <1>5, <1>6, <1>7, <1>8, <1>9, <1>10, <1>11, <1>12, <1>13, <1>14,
           <1>15, <1>16, <1>17, <1>18, <1>19, <1>20, <1>21, <1>22, <1>23, <1>24, <1>25, <1>26,
           <1>27, <1>28, <1>29, <1>30
           DEF Next, Staging, ServerLives, Installing

\* So does the agent.
LEMMA AgentTypeStep ==
  ASSUME SelfUpdateInv, [Next]_vars
  PROVE  AgentType'
<1> USE DEF SelfUpdateInv
<1>0. ASSUME UNCHANGED <<agentUp, agentBusy, job, rec, restarting>> PROVE AgentType'
  BY <1>0 DEF AgentType, TypeOK
<1>1. ASSUME Check PROVE AgentType'
  BY <1>0, <1>1 DEF Check, dirs, agent, files, history, bounds
<1>2. ASSUME NEW v \in Versions, Ask(v) PROVE AgentType'
  BY <1>0, <1>2 DEF Ask, dirs, agent, files, history, bounds
<1>3. ASSUME NEW v \in Versions, StartRefused(v) PROVE AgentType'
  BY <1>0, <1>3 DEF StartRefused, dirs, agent, files, history, bounds
<1>4. ASSUME NEW v \in Versions, StartUpdate(v) PROVE AgentType'
  BY <1>0, <1>4 DEF StartUpdate, dirs, agent, files, bounds
<1>5. ASSUME StageFails PROVE AgentType'
  BY <1>0, <1>5 DEF StageFails, StagingEnds, agent, files, history, bounds
<1>6. ASSUME StageDownload PROVE AgentType'
  BY <1>0, <1>6 DEF StageDownload, agent, files, history, bounds
<1>7. ASSUME StageWritten PROVE AgentType'
  BY <1>0, <1>7 DEF StageWritten, agent, files, history, bounds
<1>8. ASSUME HandOffRefused PROVE AgentType'
  BY <1>0, <1>8 DEF HandOffRefused, StagingEnds, dirs, agent, files, history, bounds
<1>9. ASSUME NEW b \in BOOLEAN, HandOff(b) PROVE AgentType'
  <2>1. rec' \in Record /\ job' \in JobRecord
    BY <1>9 DEF HandOff, Record, JobRecord, StageRecord, TypeOK
  <2> QED BY <2>1, <1>9 DEF HandOff, AgentType, TypeOK
<1>10. ASSUME ServerCrash PROVE AgentType'
  BY <1>0, <1>10 DEF ServerCrash, ForgetAll, dirs, agent, files, history
<1>11. ASSUME ServerStarts PROVE AgentType'
  BY <1>0, <1>11 DEF ServerStarts, StartServer, ForgetAll, dirs, agent, files, history, bounds
<1>12. ASSUME NEW p \in Platforms, Adopt(p) PROVE AgentType'
  BY <1>0, <1>12 DEF Adopt, server, agent, files, history, bounds
<1>13. ASSUME NEW old \in SUBSET (Versions \ {running}), Serve(old) PROVE AgentType'
  BY <1>0, <1>13 DEF Serve, agent, files, history, bounds
<1>14. ASSUME Fetch PROVE AgentType'
  BY GotoFacts, JobEndsFacts, <1>14
     DEF Fetch, At, RestOfJob, RestOfInstall, Stays, server, dirs, files, history, AgentType, TypeOK
<1>15. ASSUME WriteNew PROVE AgentType'
  BY GotoFacts, JobEndsFacts, <1>15
     DEF WriteNew, At, RestOfJob, RestOfInstall, Stays, server, dirs, history, AgentType, TypeOK
<1>16. ASSUME WrittenNew PROVE AgentType'
  BY GotoFacts, JobEndsFacts, <1>16
     DEF WrittenNew, At, RestOfJob, RestOfInstall, Stays, server, dirs, history, AgentType, TypeOK
<1>17. ASSUME Verify PROVE AgentType'
  BY GotoFacts, JobEndsFacts, <1>17
     DEF Verify, At, RestOfJob, RestOfInstall, Stays, server, dirs, history, AgentType, TypeOK
<1>18. ASSUME RemovePrevious PROVE AgentType'
  BY GotoFacts, JobEndsFacts, <1>18
     DEF RemovePrevious, At, RestOfJob, RestOfInstall, Stays, server, dirs, history, AgentType, TypeOK
<1>19. ASSUME KeepPrevious PROVE AgentType'
  BY GotoFacts, JobEndsFacts, <1>19
     DEF KeepPrevious, At, RestOfJob, RestOfInstall, RenameFails, Fault, NoFault, Stays, server, dirs, history,
         AgentType, TypeOK
<1>20. ASSUME InstallNew PROVE AgentType'
  BY GotoFacts, JobEndsFacts, <1>20
     DEF InstallNew, At, RestOfJob, RestOfInstall, RenameFails, Fault, NoFault, Stays, server, dirs, files,
         history, AgentType, TypeOK
<1>21. ASSUME RestartServer PROVE AgentType'
  BY GotoFacts, JobEndsFacts, <1>21
     DEF RestartServer, At, StartServer, ForgetAll, Fault, NoFault, Stays, dirs, files, history,
         AgentType, TypeOK
<1>22. ASSUME Healthy PROVE AgentType'
  BY GotoFacts, JobEndsFacts, <1>22
     DEF Healthy, At, RestOfJob, RestOfInstall, Stays, server, dirs, files, history, AgentType, TypeOK
<1>23. ASSUME Unhealthy PROVE AgentType'
  BY GotoFacts, JobEndsFacts, <1>23
     DEF Unhealthy, At, RestOfJob, RestOfInstall, Stays, server, dirs, files, history, AgentType, TypeOK
<1>24. ASSUME RollbackRename PROVE AgentType'
  BY GotoFacts, JobEndsFacts, <1>24
     DEF RollbackRename, At, RestOfJob, RestOfInstall, RenameFails, Fault, NoFault, Stays, server, dirs, files,
         history, AgentType, TypeOK
<1>25. ASSUME RollbackRestart PROVE AgentType'
  BY GotoFacts, JobEndsFacts, <1>25
     DEF RollbackRestart, At, StartServer, ForgetAll, Fault, NoFault, Stays, dirs, files,
         history, AgentType, TypeOK
<1>26. ASSUME AgentKilled PROVE AgentType'
  BY <1>26 DEF AgentKilled, AgentDies, server, dirs, files, AgentType, TypeOK
<1>27. ASSUME AgentRestartsItself PROVE AgentType'
  BY <1>27 DEF AgentRestartsItself, AgentDies, server, dirs, files, AgentType, TypeOK
<1>28. ASSUME AgentStarts PROVE AgentType'
  BY <1>28 DEF AgentStarts, server, dirs, files, history, bounds, AgentType, TypeOK
<1>29. ASSUME Age PROVE AgentType'
  BY <1>0, <1>29 DEF Age, server, dirs, agent, files, history, bounds
<1>30. CASE UNCHANGED vars
  BY <1>0, <1>30 DEF vars, server, dirs, agent, files, history, bounds
<1> QED BY <1>1, <1>2, <1>3, <1>4, <1>5, <1>6, <1>7, <1>8, <1>9, <1>10, <1>11, <1>12, <1>13, <1>14,
           <1>15, <1>16, <1>17, <1>18, <1>19, <1>20, <1>21, <1>22, <1>23, <1>24, <1>25, <1>26,
           <1>27, <1>28, <1>29, <1>30
           DEF Next, Staging, ServerLives, Installing

\* So do the files.
LEMMA FilesTypeStep ==
  ASSUME SelfUpdateInv, [Next]_vars
  PROVE  FilesType'
<1> USE DEF SelfUpdateInv
<1>0. ASSUME UNCHANGED <<exe, new, prev, before>> PROVE FilesType'
  BY <1>0 DEF FilesType, TypeOK
<1>1. ASSUME Check PROVE FilesType'
  BY <1>0, <1>1 DEF Check, dirs, agent, files, history, bounds
<1>2. ASSUME NEW v \in Versions, Ask(v) PROVE FilesType'
  BY <1>0, <1>2 DEF Ask, dirs, agent, files, history, bounds
<1>3. ASSUME NEW v \in Versions, StartRefused(v) PROVE FilesType'
  BY <1>0, <1>3 DEF StartRefused, dirs, agent, files, history, bounds
<1>4. ASSUME NEW v \in Versions, StartUpdate(v) PROVE FilesType'
  BY <1>0, <1>4 DEF StartUpdate, dirs, agent, files, bounds
<1>5. ASSUME StageFails PROVE FilesType'
  BY <1>0, <1>5 DEF StageFails, StagingEnds, agent, files, history, bounds
<1>6. ASSUME StageDownload PROVE FilesType'
  BY <1>0, <1>6 DEF StageDownload, agent, files, history, bounds
<1>7. ASSUME StageWritten PROVE FilesType'
  BY <1>0, <1>7 DEF StageWritten, agent, files, history, bounds
<1>8. ASSUME HandOffRefused PROVE FilesType'
  BY <1>0, <1>8 DEF HandOffRefused, StagingEnds, dirs, agent, files, history, bounds
<1>9. ASSUME NEW b \in BOOLEAN, HandOff(b) PROVE FilesType'
  BY SelfUpdateAssumption, <1>9
     DEF HandOff, dirs, files, bounds, FilesType, TypeOK, Missing, Cut, JobFiles, fetchBinary,
         JobRecord, Versions
<1>10. ASSUME ServerCrash PROVE FilesType'
  BY <1>0, <1>10 DEF ServerCrash, ForgetAll, dirs, agent, files, history
<1>11. ASSUME ServerStarts PROVE FilesType'
  BY <1>0, <1>11 DEF ServerStarts, StartServer, ForgetAll, dirs, agent, files, history, bounds
<1>12. ASSUME NEW p \in Platforms, Adopt(p) PROVE FilesType'
  BY <1>0, <1>12 DEF Adopt, server, agent, files, history, bounds
<1>13. ASSUME NEW old \in SUBSET (Versions \ {running}), Serve(old) PROVE FilesType'
  BY <1>0, <1>13 DEF Serve, agent, files, history, bounds
<1>14. ASSUME Fetch PROVE FilesType'
  BY <1>0, <1>14 DEF Fetch, At, RestOfJob, RestOfInstall, Stays, server, dirs, files, history
<1>15. ASSUME WriteNew PROVE FilesType'
  BY SelfUpdateAssumption, GotoFacts, JobEndsFacts, <1>15
     DEF WriteNew, At, RestOfJob, RestOfInstall, Stays, server, dirs, history, FilesType, TypeOK, Missing, Cut,
         JobFiles, fetchBinary, JobRecord, Versions
<1>16. ASSUME WrittenNew PROVE FilesType'
  BY SelfUpdateAssumption, GotoFacts, JobEndsFacts, <1>16
     DEF WrittenNew, At, RestOfJob, RestOfInstall, Stays, server, dirs, history, FilesType, TypeOK, Missing,
         Cut, JobFiles, fetchBinary, JobRecord, Versions
<1>17. ASSUME Verify PROVE FilesType'
  BY SelfUpdateAssumption, GotoFacts, JobEndsFacts, <1>17
     DEF Verify, At, RestOfJob, RestOfInstall, Stays, server, dirs, history, FilesType, TypeOK, Missing, Cut,
         JobFiles, fetchBinary, JobRecord, Versions
<1>18. ASSUME RemovePrevious PROVE FilesType'
  BY SelfUpdateAssumption, GotoFacts, JobEndsFacts, <1>18
     DEF RemovePrevious, At, RestOfJob, RestOfInstall, Stays, server, dirs, history, FilesType, TypeOK,
         Missing, Cut, JobFiles, fetchBinary, JobRecord, Versions
<1>19. ASSUME KeepPrevious PROVE FilesType'
  <2>1. 0 \in 0..MaxVersion /\ 0 \in 0..Cut
    BY SelfUpdateAssumption DEF Cut
  <2> QED BY <1>19, <2>1 DEF KeepPrevious, RestOfJob, RestOfInstall, history, FilesType, TypeOK, Missing
<1>20. ASSUME InstallNew PROVE FilesType'
  <2>1. new \in 0..MaxVersion /\ prev \in 0..MaxVersion /\ 0 \in 0..MaxVersion /\ 0 \in 0..Cut
    BY SelfUpdateAssumption, <1>20 DEF InstallNew, At, JobFiles, JobRecord, Versions, TypeOK, Cut
  <2> QED BY <1>20, <2>1 DEF InstallNew, RestOfJob, RestOfInstall, files, history, FilesType, TypeOK, Missing
<1>21. ASSUME RestartServer PROVE FilesType'
  BY <1>0, <1>21
     DEF RestartServer, At, StartServer, ForgetAll, Fault, NoFault, Stays, dirs, files, history
<1>22. ASSUME Healthy PROVE FilesType'
  BY <1>0, <1>22 DEF Healthy, At, RestOfJob, RestOfInstall, Stays, server, dirs, files, history
<1>23. ASSUME Unhealthy PROVE FilesType'
  BY <1>0, <1>23 DEF Unhealthy, At, RestOfJob, RestOfInstall, Stays, server, dirs, files, history
<1>24. ASSUME RollbackRename PROVE FilesType'
  <2>1. 0 \in 0..MaxVersion
    BY SelfUpdateAssumption
  <2> QED BY <1>24, <2>1 DEF RollbackRename, RestOfJob, RestOfInstall, files, history, FilesType, TypeOK, Missing
<1>25. ASSUME RollbackRestart PROVE FilesType'
  BY <1>0, <1>25
     DEF RollbackRestart, At, StartServer, ForgetAll, Fault, NoFault, Stays, dirs, files,
         history
<1>26. ASSUME AgentKilled PROVE FilesType'
  BY <1>0, <1>26 DEF AgentKilled, AgentDies, server, dirs, files
<1>27. ASSUME AgentRestartsItself PROVE FilesType'
  BY <1>0, <1>27 DEF AgentRestartsItself, AgentDies, server, dirs, files
<1>28. ASSUME AgentStarts PROVE FilesType'
  BY <1>0, <1>28 DEF AgentStarts, server, dirs, files, history, bounds
<1>29. ASSUME Age PROVE FilesType'
  BY <1>0, <1>29 DEF Age, server, dirs, agent, files, history, bounds
<1>30. CASE UNCHANGED vars
  BY <1>0, <1>30 DEF vars, server, dirs, agent, files, history, bounds
<1> QED BY <1>1, <1>2, <1>3, <1>4, <1>5, <1>6, <1>7, <1>8, <1>9, <1>10, <1>11, <1>12, <1>13, <1>14,
           <1>15, <1>16, <1>17, <1>18, <1>19, <1>20, <1>21, <1>22, <1>23, <1>24, <1>25, <1>26,
           <1>27, <1>28, <1>29, <1>30
           DEF Next, Staging, ServerLives, Installing

\* So do the counters.
LEMMA CountsTypeStep ==
  ASSUME SelfUpdateInv, [Next]_vars
  PROVE  CountsType'
<1> USE DEF SelfUpdateInv
<1>0. ASSUME UNCHANGED <<clock, aged, crashes, kills, faults, unsafe, gap, behind>> PROVE CountsType'
  BY <1>0 DEF CountsType, TypeOK
<1>1. ASSUME Check PROVE CountsType'
  BY <1>0, <1>1 DEF Check, dirs, agent, files, history, bounds
<1>2. ASSUME NEW v \in Versions, Ask(v) PROVE CountsType'
  BY <1>0, <1>2 DEF Ask, dirs, agent, files, history, bounds
<1>3. ASSUME NEW v \in Versions, StartRefused(v) PROVE CountsType'
  BY <1>0, <1>3 DEF StartRefused, dirs, agent, files, history, bounds
<1>4. ASSUME NEW v \in Versions, StartUpdate(v) PROVE CountsType'
  BY SelfUpdateAssumption, <1>4 DEF StartUpdate, dirs, agent, files, bounds, CountsType, TypeOK
<1>5. ASSUME StageFails PROVE CountsType'
  BY <1>0, <1>5 DEF StageFails, StagingEnds, agent, files, history, bounds
<1>6. ASSUME StageDownload PROVE CountsType'
  BY <1>0, <1>6 DEF StageDownload, agent, files, history, bounds
<1>7. ASSUME StageWritten PROVE CountsType'
  BY <1>0, <1>7 DEF StageWritten, agent, files, history, bounds
<1>8. ASSUME HandOffRefused PROVE CountsType'
  BY <1>0, <1>8 DEF HandOffRefused, StagingEnds, dirs, agent, files, history, bounds
<1>9. ASSUME NEW b \in BOOLEAN, HandOff(b) PROVE CountsType'
  BY SelfUpdateAssumption, <1>9 DEF HandOff, dirs, files, bounds, CountsType, TypeOK
<1>10. ASSUME ServerCrash PROVE CountsType'
  BY SelfUpdateAssumption, <1>10
     DEF ServerCrash, ForgetAll, dirs, agent, files, history, CountsType, TypeOK
<1>11. ASSUME ServerStarts PROVE CountsType'
  BY <1>0, <1>11 DEF ServerStarts, StartServer, ForgetAll, dirs, agent, files, history, bounds
<1>12. ASSUME NEW p \in Platforms, Adopt(p) PROVE CountsType'
  BY SelfUpdateAssumption, <1>12
     DEF Adopt, server, agent, files, history, bounds, CountsType, TypeOK
<1>13. ASSUME NEW old \in SUBSET (Versions \ {running}), Serve(old) PROVE CountsType'
  BY SelfUpdateAssumption, <1>13 DEF Serve, Fault, NoFault, agent, files, history, CountsType, TypeOK
<1>14. ASSUME Fetch PROVE CountsType'
  BY <1>0, <1>14 DEF Fetch, At, RestOfJob, RestOfInstall, Stays, server, dirs, files, history
<1>15. ASSUME WriteNew PROVE CountsType'
  BY <1>0, <1>15 DEF WriteNew, At, RestOfJob, RestOfInstall, Stays, server, dirs, history
<1>16. ASSUME WrittenNew PROVE CountsType'
  BY <1>0, <1>16 DEF WrittenNew, At, RestOfJob, RestOfInstall, Stays, server, dirs, history
<1>17. ASSUME Verify PROVE CountsType'
  BY <1>0, <1>17 DEF Verify, At, RestOfJob, RestOfInstall, Stays, server, dirs, history
<1>18. ASSUME RemovePrevious PROVE CountsType'
  BY <1>0, <1>18 DEF RemovePrevious, At, RestOfJob, RestOfInstall, Stays, server, dirs, history
<1>19. ASSUME KeepPrevious PROVE CountsType'
  BY SelfUpdateAssumption, GotoFacts, JobEndsFacts, <1>19
     DEF KeepPrevious, At, RestOfJob, RestOfInstall, RenameFails, Fault, NoFault, Stays, server, dirs, history,
         CountsType, TypeOK
<1>20. ASSUME InstallNew PROVE CountsType'
  BY SelfUpdateAssumption, GotoFacts, JobEndsFacts, <1>20
     DEF InstallNew, At, RestOfJob, RestOfInstall, RenameFails, Fault, NoFault, Stays, server, dirs, files,
         history, CountsType, TypeOK
<1>21. ASSUME RestartServer PROVE CountsType'
  BY SelfUpdateAssumption, GotoFacts, JobEndsFacts, <1>21
     DEF RestartServer, At, StartServer, ForgetAll, Fault, NoFault, Stays, dirs, files, history,
         CountsType, TypeOK
<1>22. ASSUME Healthy PROVE CountsType'
  BY <1>0, <1>22 DEF Healthy, At, RestOfJob, RestOfInstall, Stays, server, dirs, files, history
<1>23. ASSUME Unhealthy PROVE CountsType'
  BY <1>0, <1>23 DEF Unhealthy, At, RestOfJob, RestOfInstall, Stays, server, dirs, files, history
<1>24. ASSUME RollbackRename PROVE CountsType'
  BY SelfUpdateAssumption, GotoFacts, JobEndsFacts, <1>24
     DEF RollbackRename, At, RestOfJob, RestOfInstall, RenameFails, Fault, NoFault, Stays, server, dirs, files,
         history, CountsType, TypeOK
<1>25. ASSUME RollbackRestart PROVE CountsType'
  BY SelfUpdateAssumption, GotoFacts, JobEndsFacts, <1>25
     DEF RollbackRestart, At, StartServer, ForgetAll, Fault, NoFault, Stays, dirs, files,
         history, CountsType, TypeOK
<1>26. ASSUME AgentKilled PROVE CountsType'
  BY SelfUpdateAssumption, <1>26 DEF AgentKilled, AgentDies, server, dirs, files, CountsType, TypeOK
<1>27. ASSUME AgentRestartsItself PROVE CountsType'
  BY SelfUpdateAssumption, <1>27
     DEF AgentRestartsItself, AgentDies, server, dirs, files, CountsType, TypeOK
<1>28. ASSUME AgentStarts PROVE CountsType'
  BY <1>0, <1>28 DEF AgentStarts, server, dirs, files, history, bounds
<1>29. ASSUME Age PROVE CountsType'
  BY SelfUpdateAssumption, <1>29
     DEF Age, server, dirs, agent, files, history, bounds, CountsType, TypeOK
<1>30. CASE UNCHANGED vars
  BY <1>0, <1>30 DEF vars, server, dirs, agent, files, history, bounds
<1> QED BY <1>1, <1>2, <1>3, <1>4, <1>5, <1>6, <1>7, <1>8, <1>9, <1>10, <1>11, <1>12, <1>13, <1>14,
           <1>15, <1>16, <1>17, <1>18, <1>19, <1>20, <1>21, <1>22, <1>23, <1>24, <1>25, <1>26,
           <1>27, <1>28, <1>29, <1>30
           DEF Next, Staging, ServerLives, Installing

\* The five parts make up TypeOK.
LEMMA TypeStep ==
  ASSUME SelfUpdateInv, [Next]_vars
  PROVE  TypeOK'
<1>1. ServerType' /\ DirsType' /\ AgentType' /\ FilesType' /\ CountsType'
  BY ServerTypeStep, DirsTypeStep, AgentTypeStep, FilesTypeStep, CountsTypeStep
<1> QED BY <1>1 DEF TypeOK, ServerType, DirsType, AgentType, FilesType, CountsType

\* A job keeps the agent busy until it ends.
LEMMA BusyWithJobStep ==
  ASSUME SelfUpdateInv, [Next]_vars
  PROVE  BusyWithJob'
<1> USE DEF SelfUpdateInv
<1>0. ASSUME UNCHANGED <<job, agentBusy>> PROVE BusyWithJob'
  BY <1>0 DEF BusyWithJob
<1>1. ASSUME Check PROVE BusyWithJob'
  BY <1>0, <1>1 DEF Check, dirs, agent, files, history, bounds
<1>2. ASSUME NEW v \in Versions, Ask(v) PROVE BusyWithJob'
  BY <1>0, <1>2 DEF Ask, dirs, agent, files, history, bounds
<1>3. ASSUME NEW v \in Versions, StartRefused(v) PROVE BusyWithJob'
  BY <1>0, <1>3 DEF StartRefused, dirs, agent, files, history, bounds
<1>4. ASSUME NEW v \in Versions, StartUpdate(v) PROVE BusyWithJob'
  BY <1>0, <1>4 DEF StartUpdate, dirs, agent, files, bounds
<1>5. ASSUME StageFails PROVE BusyWithJob'
  BY <1>0, <1>5 DEF StageFails, StagingEnds, agent, files, history, bounds
<1>6. ASSUME StageDownload PROVE BusyWithJob'
  BY <1>0, <1>6 DEF StageDownload, agent, files, history, bounds
<1>7. ASSUME StageWritten PROVE BusyWithJob'
  BY <1>0, <1>7 DEF StageWritten, agent, files, history, bounds
<1>8. ASSUME HandOffRefused PROVE BusyWithJob'
  BY <1>0, <1>8 DEF HandOffRefused, StagingEnds, dirs, agent, files, history, bounds
<1>9. ASSUME NEW b \in BOOLEAN, HandOff(b) PROVE BusyWithJob'
  BY <1>9 DEF HandOff, dirs, files, bounds, BusyWithJob, TypeOK
<1>10. ASSUME ServerCrash PROVE BusyWithJob'
  BY <1>0, <1>10 DEF ServerCrash, ForgetAll, dirs, agent, files, history
<1>11. ASSUME ServerStarts PROVE BusyWithJob'
  BY <1>0, <1>11 DEF ServerStarts, StartServer, ForgetAll, dirs, agent, files, history, bounds
<1>12. ASSUME NEW p \in Platforms, Adopt(p) PROVE BusyWithJob'
  BY <1>0, <1>12 DEF Adopt, server, agent, files, history, bounds
<1>13. ASSUME NEW old \in SUBSET (Versions \ {running}), Serve(old) PROVE BusyWithJob'
  BY <1>0, <1>13 DEF Serve, agent, files, history, bounds
<1>14. ASSUME Fetch PROVE BusyWithJob'
  BY GotoFacts, JobEndsFacts, <1>14
     DEF Fetch, At, RestOfJob, RestOfInstall, Stays, server, dirs, files, history, BusyWithJob, TypeOK
<1>15. ASSUME WriteNew PROVE BusyWithJob'
  BY GotoFacts, JobEndsFacts, <1>15
     DEF WriteNew, At, RestOfJob, RestOfInstall, Stays, server, dirs, history, BusyWithJob, TypeOK
<1>16. ASSUME WrittenNew PROVE BusyWithJob'
  BY GotoFacts, JobEndsFacts, <1>16
     DEF WrittenNew, At, RestOfJob, RestOfInstall, Stays, server, dirs, history, BusyWithJob, TypeOK
<1>17. ASSUME Verify PROVE BusyWithJob'
  BY GotoFacts, JobEndsFacts, <1>17
     DEF Verify, At, RestOfJob, RestOfInstall, Stays, server, dirs, history, BusyWithJob, TypeOK
<1>18. ASSUME RemovePrevious PROVE BusyWithJob'
  BY GotoFacts, JobEndsFacts, <1>18
     DEF RemovePrevious, At, RestOfJob, RestOfInstall, Stays, server, dirs, history, BusyWithJob, TypeOK
<1>19. ASSUME KeepPrevious PROVE BusyWithJob'
  BY GotoFacts, JobEndsFacts, <1>19
     DEF KeepPrevious, At, RestOfJob, RestOfInstall, RenameFails, Fault, NoFault, Stays, server, dirs, history,
         BusyWithJob, TypeOK
<1>20. ASSUME InstallNew PROVE BusyWithJob'
  BY GotoFacts, JobEndsFacts, <1>20
     DEF InstallNew, At, RestOfJob, RestOfInstall, RenameFails, Fault, NoFault, Stays, server, dirs, files,
         history, BusyWithJob, TypeOK
<1>21. ASSUME RestartServer PROVE BusyWithJob'
  BY GotoFacts, JobEndsFacts, <1>21
     DEF RestartServer, At, StartServer, ForgetAll, Fault, NoFault, Stays, dirs, files, history,
         BusyWithJob, TypeOK
<1>22. ASSUME Healthy PROVE BusyWithJob'
  BY GotoFacts, JobEndsFacts, <1>22
     DEF Healthy, At, RestOfJob, RestOfInstall, Stays, server, dirs, files, history, BusyWithJob, TypeOK
<1>23. ASSUME Unhealthy PROVE BusyWithJob'
  BY GotoFacts, JobEndsFacts, <1>23
     DEF Unhealthy, At, RestOfJob, RestOfInstall, Stays, server, dirs, files, history, BusyWithJob, TypeOK
<1>24. ASSUME RollbackRename PROVE BusyWithJob'
  BY GotoFacts, JobEndsFacts, <1>24
     DEF RollbackRename, At, RestOfJob, RestOfInstall, RenameFails, Fault, NoFault, Stays, server, dirs, files,
         history, BusyWithJob, TypeOK
<1>25. ASSUME RollbackRestart PROVE BusyWithJob'
  BY GotoFacts, JobEndsFacts, <1>25
     DEF RollbackRestart, At, StartServer, ForgetAll, Fault, NoFault, Stays, dirs, files,
         history, BusyWithJob, TypeOK
<1>26. ASSUME AgentKilled PROVE BusyWithJob'
  BY <1>26 DEF AgentKilled, AgentDies, server, dirs, files, BusyWithJob, TypeOK
<1>27. ASSUME AgentRestartsItself PROVE BusyWithJob'
  BY <1>27 DEF AgentRestartsItself, AgentDies, server, dirs, files, BusyWithJob, TypeOK
<1>28. ASSUME AgentStarts PROVE BusyWithJob'
  BY <1>0, <1>28 DEF AgentStarts, server, dirs, files, history, bounds
<1>29. ASSUME Age PROVE BusyWithJob'
  BY <1>0, <1>29 DEF Age, server, dirs, agent, files, history, bounds
<1>30. CASE UNCHANGED vars
  BY <1>0, <1>30 DEF vars, server, dirs, agent, files, history, bounds
<1> QED BY <1>1, <1>2, <1>3, <1>4, <1>5, <1>6, <1>7, <1>8, <1>9, <1>10, <1>11, <1>12, <1>13, <1>14,
           <1>15, <1>16, <1>17, <1>18, <1>19, <1>20, <1>21, <1>22, <1>23, <1>24, <1>25, <1>26,
           <1>27, <1>28, <1>29, <1>30
           DEF Next, Staging, ServerLives, Installing

\* A job finds the files where the step before left them.
LEMMA JobFilesStep ==
  ASSUME SelfUpdateInv, [Next]_vars
  PROVE  JobFiles'
<1> USE DEF SelfUpdateInv
<1>0. ASSUME UNCHANGED <<job, rec, exe, new, prev, before>> PROVE JobFiles'
  BY <1>0 DEF JobFiles
<1>1. ASSUME Check PROVE JobFiles'
  BY <1>0, <1>1 DEF Check, dirs, agent, files, history, bounds
<1>2. ASSUME NEW v \in Versions, Ask(v) PROVE JobFiles'
  BY <1>0, <1>2 DEF Ask, dirs, agent, files, history, bounds
<1>3. ASSUME NEW v \in Versions, StartRefused(v) PROVE JobFiles'
  BY <1>0, <1>3 DEF StartRefused, dirs, agent, files, history, bounds
<1>4. ASSUME NEW v \in Versions, StartUpdate(v) PROVE JobFiles'
  BY <1>0, <1>4 DEF StartUpdate, dirs, agent, files, bounds
<1>5. ASSUME StageFails PROVE JobFiles'
  BY <1>0, <1>5 DEF StageFails, StagingEnds, agent, files, history, bounds
<1>6. ASSUME StageDownload PROVE JobFiles'
  BY <1>0, <1>6 DEF StageDownload, agent, files, history, bounds
<1>7. ASSUME StageWritten PROVE JobFiles'
  BY <1>0, <1>7 DEF StageWritten, agent, files, history, bounds
<1>8. ASSUME HandOffRefused PROVE JobFiles'
  BY <1>0, <1>8 DEF HandOffRefused, StagingEnds, dirs, agent, files, history, bounds
<1>9. ASSUME NEW b \in BOOLEAN, HandOff(b) PROVE JobFiles'
  <2>1. rec' \in Record /\ rec'.state = "pending" /\ rec'.to = job'.to /\ job'.pc = "fetch" /\ exe' = before'
    BY <1>9 DEF HandOff, Record, StageRecord, TypeOK, files
  <2> QED BY <2>1 DEF JobFiles, Preparing, Installed
<1>10. ASSUME ServerCrash PROVE JobFiles'
  BY <1>0, <1>10 DEF ServerCrash, ForgetAll, dirs, agent, files, history
<1>11. ASSUME ServerStarts PROVE JobFiles'
  BY <1>0, <1>11 DEF ServerStarts, StartServer, ForgetAll, dirs, agent, files, history, bounds
<1>12. ASSUME NEW p \in Platforms, Adopt(p) PROVE JobFiles'
  BY <1>0, <1>12 DEF Adopt, server, agent, files, history, bounds
<1>13. ASSUME NEW old \in SUBSET (Versions \ {running}), Serve(old) PROVE JobFiles'
  BY <1>0, <1>13 DEF Serve, agent, files, history, bounds
<1>14. ASSUME Fetch PROVE JobFiles'
  BY SelfUpdateAssumption, GotoFacts, JobEndsFacts, <1>14
     DEF Fetch, At, RestOfJob, RestOfInstall, Stays, server, dirs, files, history, JobFiles, TypeOK, Preparing,
         Installed, fetchBinary, verifyBinary, Missing, Versions
<1>15. ASSUME WriteNew PROVE JobFiles'
  BY SelfUpdateAssumption, GotoFacts, JobEndsFacts, <1>15
     DEF WriteNew, At, RestOfJob, RestOfInstall, Stays, server, dirs, history, JobFiles, TypeOK, Preparing,
         Installed, fetchBinary, verifyBinary, Missing, Versions
<1>16. ASSUME WrittenNew PROVE JobFiles'
  BY SelfUpdateAssumption, GotoFacts, JobEndsFacts, <1>16
     DEF WrittenNew, At, RestOfJob, RestOfInstall, Stays, server, dirs, history, JobFiles, TypeOK, Preparing,
         Installed, fetchBinary, verifyBinary, Missing, Versions
<1>17. ASSUME Verify PROVE JobFiles'
  BY SelfUpdateAssumption, GotoFacts, JobEndsFacts, <1>17
     DEF Verify, At, RestOfJob, RestOfInstall, Stays, server, dirs, history, JobFiles, TypeOK, Preparing,
         Installed, fetchBinary, verifyBinary, Missing, Versions
<1>18. ASSUME RemovePrevious PROVE JobFiles'
  BY SelfUpdateAssumption, GotoFacts, JobEndsFacts, <1>18
     DEF RemovePrevious, At, RestOfJob, RestOfInstall, Stays, server, dirs, history, JobFiles, TypeOK,
         Preparing, Installed, fetchBinary, verifyBinary, Missing, Versions
<1>19. ASSUME KeepPrevious PROVE JobFiles'
  <2>1. exe \in Versions \cup {Missing}
    BY SelfUpdateAssumption DEF TypeOK, Versions, Missing
  <2>2. CASE exe # Missing /\ prev' = exe /\ exe' = Missing /\ UNCHANGED new /\ Goto("install") /\ Stays
    BY <1>19, <2>1, <2>2, GotoFacts
       DEF KeepPrevious, At, RestOfJob, RestOfInstall, Stays, history, JobFiles, Preparing, Installed
  <2>3. CASE JobEnds("failed")
    BY <1>19, <2>3 DEF JobEnds, JobFiles
  <2> QED BY <1>19, <2>2, <2>3 DEF KeepPrevious
<1>20. ASSUME InstallNew PROVE JobFiles'
  BY SelfUpdateAssumption, GotoFacts, JobEndsFacts, <1>20
     DEF InstallNew, At, RestOfJob, RestOfInstall, RenameFails, Fault, NoFault, Stays, server, dirs, files,
         history, JobFiles, TypeOK, Preparing, Installed, fetchBinary, verifyBinary, Missing,
         Versions
<1>21. ASSUME RestartServer PROVE JobFiles'
  BY SelfUpdateAssumption, GotoFacts, JobEndsFacts, <1>21
     DEF RestartServer, At, StartServer, ForgetAll, Fault, NoFault, Stays, dirs, files, history,
         JobFiles, TypeOK, Preparing, Installed, fetchBinary, verifyBinary, Missing, Versions
<1>22. ASSUME Healthy PROVE JobFiles'
  BY SelfUpdateAssumption, GotoFacts, JobEndsFacts, <1>22
     DEF Healthy, At, RestOfJob, RestOfInstall, Stays, server, dirs, files, history, JobFiles, TypeOK,
         Preparing, Installed, fetchBinary, verifyBinary, Missing, Versions
<1>23. ASSUME Unhealthy PROVE JobFiles'
  BY SelfUpdateAssumption, GotoFacts, JobEndsFacts, <1>23
     DEF Unhealthy, At, RestOfJob, RestOfInstall, Stays, server, dirs, files, history, JobFiles, TypeOK,
         Preparing, Installed, fetchBinary, verifyBinary, Missing, Versions
<1>24. ASSUME RollbackRename PROVE JobFiles'
  BY SelfUpdateAssumption, GotoFacts, JobEndsFacts, <1>24
     DEF RollbackRename, At, RestOfJob, RestOfInstall, RenameFails, Fault, NoFault, Stays, server, dirs, files,
         history, JobFiles, TypeOK, Preparing, Installed, fetchBinary, verifyBinary, Missing,
         Versions
<1>25. ASSUME RollbackRestart PROVE JobFiles'
  BY SelfUpdateAssumption, GotoFacts, JobEndsFacts, <1>25
     DEF RollbackRestart, At, StartServer, ForgetAll, Fault, NoFault, Stays, dirs, files,
         history, JobFiles, TypeOK, Preparing, Installed, fetchBinary, verifyBinary, Missing,
         Versions
<1>26. ASSUME AgentKilled PROVE JobFiles'
  BY SelfUpdateAssumption, <1>26
     DEF AgentKilled, AgentDies, server, dirs, files, JobFiles, TypeOK, Preparing, Installed,
         fetchBinary, verifyBinary, Missing, Versions
<1>27. ASSUME AgentRestartsItself PROVE JobFiles'
  BY SelfUpdateAssumption, <1>27
     DEF AgentRestartsItself, AgentDies, server, dirs, files, JobFiles, TypeOK, Preparing,
         Installed, fetchBinary, verifyBinary, Missing, Versions
<1>28. ASSUME AgentStarts PROVE JobFiles'
  BY <1>0, <1>28 DEF AgentStarts, server, dirs, files, history, bounds
<1>29. ASSUME Age PROVE JobFiles'
  BY <1>0, <1>29 DEF Age, server, dirs, agent, files, history, bounds
<1>30. CASE UNCHANGED vars
  BY <1>0, <1>30 DEF vars, server, dirs, agent, files, history, bounds
<1> QED BY <1>1, <1>2, <1>3, <1>4, <1>5, <1>6, <1>7, <1>8, <1>9, <1>10, <1>11, <1>12, <1>13, <1>14,
           <1>15, <1>16, <1>17, <1>18, <1>19, <1>20, <1>21, <1>22, <1>23, <1>24, <1>25, <1>26,
           <1>27, <1>28, <1>29, <1>30
           DEF Next, Staging, ServerLives, Installing

\* The files before the one being staged are whole.
LEMMA StageSoundStep ==
  ASSUME SelfUpdateInv, [Next]_vars
  PROVE  StageSound'
<1> USE DEF SelfUpdateInv
<1>0. ASSUME UNCHANGED <<up, asked, local, stage, staged>> PROVE StageSound'
  BY <1>0 DEF StageSound
<1>1. ASSUME Check PROVE StageSound'
  BY <1>0, <1>1 DEF Check, dirs, agent, files, history, bounds
<1>2. ASSUME NEW v \in Versions, Ask(v) PROVE StageSound'
  BY <1>2 DEF Ask, dirs, agent, files, history, bounds, StageSound, TypeOK
<1>3. ASSUME NEW v \in Versions, StartRefused(v) PROVE StageSound'
  BY <1>3 DEF StartRefused, dirs, agent, files, history, bounds, StageSound, TypeOK
<1>4. ASSUME NEW v \in Versions, StartUpdate(v) PROVE StageSound'
  <2>1. local' \in Record /\ stage'.at = 1 /\ stage'.pc = "download" /\ 1 # NPlatforms + 1
    BY SelfUpdateAssumption, <1>4 DEF StartUpdate, Record, TypeOK
  <2>2. up' = "serving"
    BY <1>4 DEF StartUpdate, StageSound
  <2>3. \A p \in Platforms : ~ (p < 1)
    BY SelfUpdateAssumption DEF Platforms
  <2> QED BY <2>1, <2>2, <2>3 DEF StageSound
<1>5. ASSUME StageFails PROVE StageSound'
  BY StagingEndsFacts, <1>5
     DEF StageFails, StagingEnds, agent, files, history, bounds, StageSound, TypeOK
<1>6. ASSUME StageDownload PROVE StageSound'
  <2>1. stage'.at = stage.at /\ stage'.to = stage.to /\ stage.to \in Versions /\ stage.at \in Platforms /\ stage'.pc = "write"
    BY StageDownloadFacts, <1>6
  <2>2. \A p \in Platforms : p < stage'.at => staged'[stage'.to][p] = "whole"
    BY <2>1, StageDownloadFacts, <1>6 DEF StageSound, StageDownload, Platforms
  <2>3. stage.at # NPlatforms + 1
    BY <2>1, SelfUpdateAssumption DEF Platforms
  <2> QED BY <2>1, <2>2, <2>3, <1>6 DEF StageSound, StageDownload
<1>7. ASSUME StageWritten PROVE StageSound'
  <2>1. /\ stage'.at = stage.at + 1 /\ stage'.to = stage.to /\ stage.to \in Versions /\ stage.at \in Platforms
        /\ stage'.pc = IF stage.at = NPlatforms THEN "install" ELSE "download"
    BY StageWrittenFacts, <1>7
  <2>2. \A p \in Platforms : p < stage'.at => p < stage.at \/ p = stage.at
    BY <2>1, SelfUpdateAssumption DEF Platforms
  <2>3. \A p \in Platforms : p < stage'.at => staged'[stage'.to][p] = "whole"
    BY <2>1, <2>2, StageWrittenFacts, <1>7 DEF StageSound, StageWritten
  <2>4. stage'.pc = "install" <=> stage'.at = NPlatforms + 1
    BY <2>1, SelfUpdateAssumption DEF Platforms
  <2> QED BY <2>1, <2>3, <2>4, <1>7 DEF StageSound, StageWritten
<1>8. ASSUME HandOffRefused PROVE StageSound'
  BY StagingEndsFacts, <1>8
     DEF HandOffRefused, StagingEnds, dirs, agent, files, history, bounds, StageSound, TypeOK
<1>9. ASSUME NEW b \in BOOLEAN, HandOff(b) PROVE StageSound'
  BY <1>9 DEF HandOff, dirs, files, bounds, StageSound, TypeOK
<1>10. ASSUME ServerCrash PROVE StageSound'
  BY <1>10 DEF ServerCrash, ForgetAll, dirs, agent, files, history, StageSound, TypeOK
<1>11. ASSUME ServerStarts PROVE StageSound'
  BY <1>11
     DEF ServerStarts, StartServer, ForgetAll, dirs, agent, files, history, bounds, StageSound,
         TypeOK
<1>12. ASSUME NEW p \in Platforms, Adopt(p) PROVE StageSound'
  BY <1>12 DEF Adopt, server, agent, files, history, bounds, StageSound, TypeOK
<1>13. ASSUME NEW old \in SUBSET (Versions \ {running}), Serve(old) PROVE StageSound'
  BY <1>13 DEF Serve, agent, files, history, bounds, StageSound, TypeOK
<1>14. ASSUME Fetch PROVE StageSound'
  BY <1>0, <1>14 DEF Fetch, At, RestOfJob, RestOfInstall, Stays, server, dirs, files, history
<1>15. ASSUME WriteNew PROVE StageSound'
  BY <1>0, <1>15 DEF WriteNew, At, RestOfJob, RestOfInstall, Stays, server, dirs, history
<1>16. ASSUME WrittenNew PROVE StageSound'
  BY <1>0, <1>16 DEF WrittenNew, At, RestOfJob, RestOfInstall, Stays, server, dirs, history
<1>17. ASSUME Verify PROVE StageSound'
  BY <1>0, <1>17 DEF Verify, At, RestOfJob, RestOfInstall, Stays, server, dirs, history
<1>18. ASSUME RemovePrevious PROVE StageSound'
  BY <1>0, <1>18 DEF RemovePrevious, At, RestOfJob, RestOfInstall, Stays, server, dirs, history
<1>19. ASSUME KeepPrevious PROVE StageSound'
  BY <1>0, <1>19
     DEF KeepPrevious, At, RestOfJob, RestOfInstall, RenameFails, Fault, NoFault, Stays, server, dirs, history
<1>20. ASSUME InstallNew PROVE StageSound'
  BY <1>0, <1>20
     DEF InstallNew, At, RestOfJob, RestOfInstall, RenameFails, Fault, NoFault, Stays, server, dirs, files,
         history
<1>21. ASSUME RestartServer PROVE StageSound'
  BY GotoFacts, JobEndsFacts, <1>21
     DEF RestartServer, At, StartServer, ForgetAll, Fault, NoFault, Stays, dirs, files, history,
         StageSound, TypeOK
<1>22. ASSUME Healthy PROVE StageSound'
  BY <1>0, <1>22 DEF Healthy, At, RestOfJob, RestOfInstall, Stays, server, dirs, files, history
<1>23. ASSUME Unhealthy PROVE StageSound'
  BY <1>0, <1>23 DEF Unhealthy, At, RestOfJob, RestOfInstall, Stays, server, dirs, files, history
<1>24. ASSUME RollbackRename PROVE StageSound'
  BY <1>0, <1>24
     DEF RollbackRename, At, RestOfJob, RestOfInstall, RenameFails, Fault, NoFault, Stays, server, dirs, files,
         history
<1>25. ASSUME RollbackRestart PROVE StageSound'
  BY GotoFacts, JobEndsFacts, <1>25
     DEF RollbackRestart, At, StartServer, ForgetAll, Fault, NoFault, Stays, dirs, files,
         history, StageSound, TypeOK
<1>26. ASSUME AgentKilled PROVE StageSound'
  BY <1>0, <1>26 DEF AgentKilled, AgentDies, server, dirs, files
<1>27. ASSUME AgentRestartsItself PROVE StageSound'
  BY <1>0, <1>27 DEF AgentRestartsItself, AgentDies, server, dirs, files
<1>28. ASSUME AgentStarts PROVE StageSound'
  BY <1>0, <1>28 DEF AgentStarts, server, dirs, files, history, bounds
<1>29. ASSUME Age PROVE StageSound'
  BY <1>0, <1>29 DEF Age, server, dirs, agent, files, history, bounds
<1>30. CASE UNCHANGED vars
  BY <1>0, <1>30 DEF vars, server, dirs, agent, files, history, bounds
<1> QED BY <1>1, <1>2, <1>3, <1>4, <1>5, <1>6, <1>7, <1>8, <1>9, <1>10, <1>11, <1>12, <1>13, <1>14,
           <1>15, <1>16, <1>17, <1>18, <1>19, <1>20, <1>21, <1>22, <1>23, <1>24, <1>25, <1>26,
           <1>27, <1>28, <1>29, <1>30
           DEF Next, Staging, ServerLives, Installing

\* A record is settled when the files say the same.
LEMMA RecordTellsStep ==
  ASSUME SelfUpdateInv, [Next]_vars
  PROVE  RecordTells'
<1> USE DEF SelfUpdateInv
<1>0. ASSUME UNCHANGED <<rec, exe, before>> PROVE RecordTells'
  BY <1>0 DEF RecordTells
<1>1. ASSUME Check PROVE RecordTells'
  BY <1>0, <1>1 DEF Check, dirs, agent, files, history, bounds
<1>2. ASSUME NEW v \in Versions, Ask(v) PROVE RecordTells'
  BY <1>0, <1>2 DEF Ask, dirs, agent, files, history, bounds
<1>3. ASSUME NEW v \in Versions, StartRefused(v) PROVE RecordTells'
  BY <1>0, <1>3 DEF StartRefused, dirs, agent, files, history, bounds
<1>4. ASSUME NEW v \in Versions, StartUpdate(v) PROVE RecordTells'
  BY <1>0, <1>4 DEF StartUpdate, dirs, agent, files, bounds
<1>5. ASSUME StageFails PROVE RecordTells'
  BY <1>0, <1>5 DEF StageFails, StagingEnds, agent, files, history, bounds
<1>6. ASSUME StageDownload PROVE RecordTells'
  BY <1>0, <1>6 DEF StageDownload, agent, files, history, bounds
<1>7. ASSUME StageWritten PROVE RecordTells'
  BY <1>0, <1>7 DEF StageWritten, agent, files, history, bounds
<1>8. ASSUME HandOffRefused PROVE RecordTells'
  BY <1>0, <1>8 DEF HandOffRefused, StagingEnds, dirs, agent, files, history, bounds
<1>9. ASSUME NEW b \in BOOLEAN, HandOff(b) PROVE RecordTells'
  BY <1>9
     DEF HandOff, dirs, files, bounds, RecordTells, TypeOK, JobFiles, Preparing, Installed,
         Missing
<1>10. ASSUME ServerCrash PROVE RecordTells'
  BY <1>0, <1>10 DEF ServerCrash, ForgetAll, dirs, agent, files, history
<1>11. ASSUME ServerStarts PROVE RecordTells'
  BY <1>0, <1>11 DEF ServerStarts, StartServer, ForgetAll, dirs, agent, files, history, bounds
<1>12. ASSUME NEW p \in Platforms, Adopt(p) PROVE RecordTells'
  BY <1>0, <1>12 DEF Adopt, server, agent, files, history, bounds
<1>13. ASSUME NEW old \in SUBSET (Versions \ {running}), Serve(old) PROVE RecordTells'
  BY <1>0, <1>13 DEF Serve, agent, files, history, bounds
<1>14. ASSUME Fetch PROVE RecordTells'
  BY GotoFacts, JobEndsFacts, <1>14
     DEF Fetch, At, RestOfJob, RestOfInstall, Stays, server, dirs, files, history, RecordTells, TypeOK,
         JobFiles, Preparing, Installed, Missing
<1>15. ASSUME WriteNew PROVE RecordTells'
  BY GotoFacts, JobEndsFacts, <1>15
     DEF WriteNew, At, RestOfJob, RestOfInstall, Stays, server, dirs, history, RecordTells, TypeOK, JobFiles,
         Preparing, Installed, Missing
<1>16. ASSUME WrittenNew PROVE RecordTells'
  BY GotoFacts, JobEndsFacts, <1>16
     DEF WrittenNew, At, RestOfJob, RestOfInstall, Stays, server, dirs, history, RecordTells, TypeOK, JobFiles,
         Preparing, Installed, Missing
<1>17. ASSUME Verify PROVE RecordTells'
  BY GotoFacts, JobEndsFacts, <1>17
     DEF Verify, At, RestOfJob, RestOfInstall, Stays, server, dirs, history, RecordTells, TypeOK, JobFiles,
         Preparing, Installed, Missing
<1>18. ASSUME RemovePrevious PROVE RecordTells'
  BY GotoFacts, JobEndsFacts, <1>18
     DEF RemovePrevious, At, RestOfJob, RestOfInstall, Stays, server, dirs, history, RecordTells, TypeOK,
         JobFiles, Preparing, Installed, Missing
<1>19. ASSUME KeepPrevious PROVE RecordTells'
  BY GotoFacts, JobEndsFacts, <1>19
     DEF KeepPrevious, At, RestOfJob, RestOfInstall, RenameFails, Fault, NoFault, Stays, server, dirs, history,
         RecordTells, TypeOK, JobFiles, Preparing, Installed, Missing
<1>20. ASSUME InstallNew PROVE RecordTells'
  BY GotoFacts, JobEndsFacts, <1>20
     DEF InstallNew, At, RestOfJob, RestOfInstall, RenameFails, Fault, NoFault, Stays, server, dirs, files,
         history, RecordTells, TypeOK, JobFiles, Preparing, Installed, Missing
<1>21. ASSUME RestartServer PROVE RecordTells'
  BY GotoFacts, JobEndsFacts, <1>21
     DEF RestartServer, At, StartServer, ForgetAll, Fault, NoFault, Stays, dirs, files, history,
         RecordTells, TypeOK, JobFiles, Preparing, Installed, Missing
<1>22. ASSUME Healthy PROVE RecordTells'
  BY GotoFacts, JobEndsFacts, <1>22
     DEF Healthy, At, RestOfJob, RestOfInstall, Stays, server, dirs, files, history, RecordTells, TypeOK,
         JobFiles, Preparing, Installed, Missing
<1>23. ASSUME Unhealthy PROVE RecordTells'
  BY GotoFacts, JobEndsFacts, <1>23
     DEF Unhealthy, At, RestOfJob, RestOfInstall, Stays, server, dirs, files, history, RecordTells, TypeOK,
         JobFiles, Preparing, Installed, Missing
<1>24. ASSUME RollbackRename PROVE RecordTells'
  BY GotoFacts, JobEndsFacts, <1>24
     DEF RollbackRename, At, RestOfJob, RestOfInstall, RenameFails, Fault, NoFault, Stays, server, dirs, files,
         history, RecordTells, TypeOK, JobFiles, Preparing, Installed, Missing
<1>25. ASSUME RollbackRestart PROVE RecordTells'
  BY GotoFacts, JobEndsFacts, <1>25
     DEF RollbackRestart, At, StartServer, ForgetAll, Fault, NoFault, Stays, dirs, files,
         history, RecordTells, TypeOK, JobFiles, Preparing, Installed, Missing
<1>26. ASSUME AgentKilled PROVE RecordTells'
  BY <1>0, <1>26 DEF AgentKilled, AgentDies, server, dirs, files
<1>27. ASSUME AgentRestartsItself PROVE RecordTells'
  BY <1>0, <1>27 DEF AgentRestartsItself, AgentDies, server, dirs, files
<1>28. ASSUME AgentStarts PROVE RecordTells'
  BY <1>0, <1>28 DEF AgentStarts, server, dirs, files, history, bounds
<1>29. ASSUME Age PROVE RecordTells'
  BY <1>0, <1>29 DEF Age, server, dirs, agent, files, history, bounds
<1>30. CASE UNCHANGED vars
  BY <1>0, <1>30 DEF vars, server, dirs, agent, files, history, bounds
<1> QED BY <1>1, <1>2, <1>3, <1>4, <1>5, <1>6, <1>7, <1>8, <1>9, <1>10, <1>11, <1>12, <1>13, <1>14,
           <1>15, <1>16, <1>17, <1>18, <1>19, <1>20, <1>21, <1>22, <1>23, <1>24, <1>25, <1>26,
           <1>27, <1>28, <1>29, <1>30
           DEF Next, Staging, ServerLives, Installing

\* BinPath is never empty for longer than an install, or it stays so.
LEMMA BinaryInstalledStep ==
  ASSUME SelfUpdateInv, [Next]_vars
  PROVE  BinaryInstalled' /\ GapLasts'
<1> USE DEF SelfUpdateInv
<1>0. ASSUME UNCHANGED <<exe, job, gap>> PROVE BinaryInstalled' /\ GapLasts'
  BY <1>0 DEF BinaryInstalled, GapLasts, At
<1>a. ASSUME job # None, UNCHANGED <<exe, gap>>, ~ At("install"),
             job' = None \/ (job' # None /\ job'.pc # "install" /\ (job.pc \in Preparing => job'.pc \in Preparing))
      PROVE  BinaryInstalled' /\ GapLasts'
  BY <1>a DEF BinaryInstalled, GapLasts, At
<1>1. ASSUME Check PROVE BinaryInstalled' /\ GapLasts'
  BY <1>0, <1>1 DEF Check, dirs, agent, files, history, bounds
<1>2. ASSUME NEW v \in Versions, Ask(v) PROVE BinaryInstalled' /\ GapLasts'
  BY <1>0, <1>2 DEF Ask, dirs, agent, files, history, bounds
<1>3. ASSUME NEW v \in Versions, StartRefused(v) PROVE BinaryInstalled' /\ GapLasts'
  BY <1>0, <1>3 DEF StartRefused, dirs, agent, files, history, bounds
<1>4. ASSUME NEW v \in Versions, StartUpdate(v) PROVE BinaryInstalled' /\ GapLasts'
  BY <1>0, <1>4 DEF StartUpdate, dirs, agent, files, bounds
<1>5. ASSUME StageFails PROVE BinaryInstalled' /\ GapLasts'
  BY <1>0, <1>5 DEF StageFails, StagingEnds, agent, files, history, bounds
<1>6. ASSUME StageDownload PROVE BinaryInstalled' /\ GapLasts'
  BY <1>0, <1>6 DEF StageDownload, agent, files, history, bounds
<1>7. ASSUME StageWritten PROVE BinaryInstalled' /\ GapLasts'
  BY <1>0, <1>7 DEF StageWritten, agent, files, history, bounds
<1>8. ASSUME HandOffRefused PROVE BinaryInstalled' /\ GapLasts'
  BY <1>0, <1>8 DEF HandOffRefused, StagingEnds, dirs, agent, files, history, bounds
<1>9. ASSUME NEW b \in BOOLEAN, HandOff(b) PROVE BinaryInstalled' /\ GapLasts'
  <2>1. job = None
    BY <1>9 DEF HandOff, BusyWithJob
  <2>2. exe = Missing <=> gap
    BY <2>1 DEF BinaryInstalled, At
  <2>3. exe' = exe /\ gap' = gap /\ job' = [to |-> stage.to, pc |-> "fetch"]
    BY <1>9 DEF HandOff, files
  <2>4. job'.pc = "fetch"
    BY <2>3
  <2> QED BY <2>2, <2>3, <2>4 DEF BinaryInstalled, GapLasts, At, Preparing
<1>10. ASSUME ServerCrash PROVE BinaryInstalled' /\ GapLasts'
  BY <1>0, <1>10 DEF ServerCrash, ForgetAll, dirs, agent, files, history
<1>11. ASSUME ServerStarts PROVE BinaryInstalled' /\ GapLasts'
  BY <1>0, <1>11 DEF ServerStarts, StartServer, ForgetAll, dirs, agent, files, history, bounds
<1>12. ASSUME NEW p \in Platforms, Adopt(p) PROVE BinaryInstalled' /\ GapLasts'
  BY <1>0, <1>12 DEF Adopt, server, agent, files, history, bounds
<1>13. ASSUME NEW old \in SUBSET (Versions \ {running}), Serve(old) PROVE BinaryInstalled' /\ GapLasts'
  BY <1>0, <1>13 DEF Serve, agent, files, history
<1>14. ASSUME Fetch PROVE BinaryInstalled' /\ GapLasts'
  <2>1. job # None /\ job.pc = "fetch" /\ UNCHANGED <<exe, gap>> /\ (Goto("write") \/ job' = None)
    BY <1>14 DEF Fetch, At, JobEnds, RestOfJob, RestOfInstall, server, files, history
  <2> QED BY <1>a, <2>1, GotoFacts DEF At, Preparing
<1>15. ASSUME WriteNew PROVE BinaryInstalled' /\ GapLasts'
  <2>1. job # None /\ job.pc = "write" /\ UNCHANGED <<exe, gap>> /\ (Goto("written") \/ job' = None)
    BY <1>15 DEF WriteNew, At, JobEnds, RestOfJob, RestOfInstall, server, files, history
  <2> QED BY <1>a, <2>1, GotoFacts DEF At, Preparing
<1>16. ASSUME WrittenNew PROVE BinaryInstalled' /\ GapLasts'
  <2>1. job # None /\ job.pc = "written" /\ UNCHANGED <<exe, gap>> /\ (Goto("verify"))
    BY <1>16 DEF WrittenNew, At, JobEnds, RestOfJob, RestOfInstall, server, files, history
  <2> QED BY <1>a, <2>1, GotoFacts DEF At, Preparing
<1>17. ASSUME Verify PROVE BinaryInstalled' /\ GapLasts'
  <2>1. job # None /\ job.pc = "verify" /\ UNCHANGED <<exe, gap>> /\ (Goto("remove") \/ job' = None)
    BY <1>17 DEF Verify, At, JobEnds, RestOfJob, RestOfInstall, server, files, history
  <2> QED BY <1>a, <2>1, GotoFacts DEF At, Preparing
<1>18. ASSUME RemovePrevious PROVE BinaryInstalled' /\ GapLasts'
  <2>1. job # None /\ job.pc = "remove" /\ UNCHANGED <<exe, gap>> /\ (Goto("keep"))
    BY <1>18 DEF RemovePrevious, At, JobEnds, RestOfJob, RestOfInstall, server, files, history
  <2> QED BY <1>a, <2>1, GotoFacts DEF At, Preparing
<1>19. ASSUME KeepPrevious PROVE BinaryInstalled' /\ GapLasts'
  <2>1. job # None /\ job.pc = "keep" /\ gap' = gap
    BY <1>19 DEF KeepPrevious, At, RestOfJob, RestOfInstall
  <2>2. CASE exe # Missing /\ exe' = Missing /\ Goto("install")
    <3>1. job' # None /\ job'.pc = "install"
      BY <2>1, <2>2, GotoFacts
    <3>2. ~ gap
      BY <2>2 DEF BinaryInstalled
    <3> QED BY <2>1, <2>2, <3>1, <3>2 DEF BinaryInstalled, GapLasts, At
  <2>3. CASE exe' = exe /\ job' = None
    BY <1>a, <2>1, <2>3 DEF At
  <2> QED BY <1>19, <2>2, <2>3 DEF KeepPrevious, JobEnds
<1>20. ASSUME InstallNew PROVE BinaryInstalled' /\ GapLasts'
  <2>1. job # None /\ job.pc = "install" /\ gap = FALSE /\ faults \in Nat
    BY <1>20 DEF InstallNew, At, GapLasts, Preparing, TypeOK
  <2>2. exe = Missing /\ new # Missing /\ prev # Missing
    BY <2>1, SelfUpdateAssumption DEF JobFiles, Installed, Missing, Versions, TypeOK, JobRecord
  <2>3. gap' <=> faults' = faults + 2
    BY <1>20, <2>1, Zenon DEF InstallNew
  <2>3a. gap' \in BOOLEAN
    BY <1>20, Zenon DEF InstallNew
  <2>3b. faults # faults + 2 /\ faults + 1 # faults + 2
    BY <2>1
  <2>4. CASE exe' = new /\ faults' = faults /\ Goto("restart")
    <3>1. job' # None /\ job'.pc = "restart"
      BY <2>1, <2>4, GotoFacts
    <3>2. ~ gap'
      BY <2>3, <2>3b, <2>4, Zenon
    <3> QED BY <2>2, <2>4, <3>1, <3>2 DEF BinaryInstalled, GapLasts, At
  <2>5. CASE exe' = prev /\ faults' = faults + 1 /\ job' = None
    <3>1. ~ gap'
      BY <2>3, <2>3b, <2>5, Zenon
    <3> QED BY <2>2, <2>5, <3>1 DEF BinaryInstalled, GapLasts, At
  <2>6. CASE exe' = exe /\ faults' = faults + 2 /\ job' = None
    <3>1. gap' = TRUE
      BY <2>3, <2>3a, <2>6, Zenon
    <3> QED BY <2>2, <2>6, <3>1 DEF BinaryInstalled, GapLasts, At
  <2> QED BY <1>20, <2>4, <2>5, <2>6 DEF InstallNew, JobEnds, Fault, NoFault, files
<1>21. ASSUME RestartServer PROVE BinaryInstalled' /\ GapLasts'
  <2>1. job # None /\ job.pc = "restart" /\ UNCHANGED <<exe, gap>> /\ (Goto("health") \/ Goto("rollback"))
    BY <1>21 DEF RestartServer, At, files, history
  <2> QED BY <1>a, <2>1, GotoFacts DEF At, Preparing
<1>22. ASSUME Healthy PROVE BinaryInstalled' /\ GapLasts'
  <2>1. job # None /\ job.pc = "health" /\ UNCHANGED <<exe, gap>> /\ job' = None
    BY <1>22 DEF Healthy, At, JobEnds, RestOfJob, RestOfInstall, server, files, history
  <2> QED BY <1>a, <2>1, GotoFacts DEF At, Preparing
<1>23. ASSUME Unhealthy PROVE BinaryInstalled' /\ GapLasts'
  <2>1. job # None /\ job.pc = "health" /\ UNCHANGED <<exe, gap>> /\ (Goto("rollback"))
    BY <1>23 DEF Unhealthy, At, JobEnds, RestOfJob, RestOfInstall, server, files, history
  <2> QED BY <1>a, <2>1, GotoFacts DEF At, Preparing
<1>24. ASSUME RollbackRename PROVE BinaryInstalled' /\ GapLasts'
  <2>1. job # None /\ job.pc = "rollback" /\ gap' = gap /\ gap # TRUE
    BY <1>24 DEF RollbackRename, At, RestOfJob, RestOfInstall, GapLasts, Preparing
  <2>2. CASE prev # Missing /\ exe' = prev /\ Goto("rerun")
    <3>1. job' # None /\ job'.pc = "rerun"
      BY <2>1, <2>2, GotoFacts
    <3>2. gap' = FALSE
      BY <2>1 DEF TypeOK
    <3> QED BY <2>2, <3>1, <3>2 DEF BinaryInstalled, GapLasts, At
  <2>3. CASE exe' = exe /\ job' = None
    BY <1>a, <2>1, <2>3 DEF At
  <2> QED BY <1>24, <2>2, <2>3 DEF RollbackRename, JobEnds, files
<1>25. ASSUME RollbackRestart PROVE BinaryInstalled' /\ GapLasts'
  <2>1. job # None /\ job.pc = "rerun" /\ UNCHANGED <<exe, gap>> /\ job' = None
    BY <1>25 DEF RollbackRestart, At, JobEnds, files, history
  <2> QED BY <1>a, <2>1 DEF At
<1>26. ASSUME AgentKilled \/ AgentRestartsItself PROVE BinaryInstalled' /\ GapLasts'
  <2>1. exe' = exe /\ job' = None /\ gap' = (gap \/ At("install"))
    BY <1>26 DEF AgentKilled, AgentRestartsItself, AgentDies, files
  <2> QED BY <2>1 DEF BinaryInstalled, GapLasts, At
<1>27. ASSUME AgentStarts PROVE BinaryInstalled' /\ GapLasts'
  BY <1>0, <1>27 DEF AgentStarts, server, dirs, files, history, bounds
<1>28. ASSUME Age PROVE BinaryInstalled' /\ GapLasts'
  BY <1>0, <1>28 DEF Age, server, dirs, agent, files, history, bounds
<1>29. CASE UNCHANGED vars
  BY <1>0, <1>29 DEF vars, server, dirs, agent, files, history, bounds
<1> QED BY <1>1, <1>2, <1>3, <1>4, <1>5, <1>6, <1>7, <1>8, <1>9, <1>10, <1>11, <1>12, <1>13, <1>14,
           <1>15, <1>16, <1>17, <1>18, <1>19, <1>20, <1>21, <1>22, <1>23, <1>24, <1>25, <1>26,
           <1>27, <1>28, <1>29
           DEF Next, Staging, ServerLives, Installing

\* Asking for an update.
LEMMA NewestAskedStep ==
  ASSUME SelfUpdateInv, [Next]_vars
  PROVE  NewestAsked'
<1> USE DEF SelfUpdateInv
<1>0. ASSUME UNCHANGED <<latest, asked, running>> PROVE NewestAsked'
  BY <1>0 DEF NewestAsked
<1>1. ASSUME Check PROVE NewestAsked'
  BY <1>1 DEF Check, dirs, agent, files, history, bounds, NewestAsked, TypeOK
<1>2. ASSUME NEW v \in Versions, Ask(v) PROVE NewestAsked'
  <2>1. v # 0
    BY SelfUpdateAssumption DEF Versions
  <2> QED BY <2>1, <1>2 DEF Ask, Acceptable, NewestAsked
<1>3. ASSUME NEW v \in Versions, StartRefused(v) PROVE NewestAsked'
  BY <1>3 DEF StartRefused, dirs, agent, files, history, bounds, NewestAsked, TypeOK
<1>4. ASSUME NEW v \in Versions, StartUpdate(v) PROVE NewestAsked'
  BY <1>4 DEF StartUpdate, dirs, agent, files, bounds, NewestAsked, TypeOK
<1>5. ASSUME StageFails PROVE NewestAsked'
  BY <1>0, <1>5 DEF StageFails, StagingEnds, agent, files, history, bounds
<1>6. ASSUME StageDownload PROVE NewestAsked'
  BY <1>0, <1>6 DEF StageDownload, agent, files, history, bounds
<1>7. ASSUME StageWritten PROVE NewestAsked'
  BY <1>0, <1>7 DEF StageWritten, agent, files, history, bounds
<1>8. ASSUME HandOffRefused PROVE NewestAsked'
  BY <1>0, <1>8 DEF HandOffRefused, StagingEnds, dirs, agent, files, history, bounds
<1>9. ASSUME NEW b \in BOOLEAN, HandOff(b) PROVE NewestAsked'
  BY <1>0, <1>9 DEF HandOff, dirs, files, bounds
<1>10. ASSUME ServerCrash PROVE NewestAsked'
  BY <1>10 DEF ServerCrash, ForgetAll, dirs, agent, files, history, NewestAsked, TypeOK
<1>11. ASSUME ServerStarts PROVE NewestAsked'
  BY <1>11
     DEF ServerStarts, StartServer, ForgetAll, dirs, agent, files, history, bounds, NewestAsked,
         TypeOK
<1>12. ASSUME NEW p \in Platforms, Adopt(p) PROVE NewestAsked'
  BY <1>0, <1>12 DEF Adopt, server, agent, files, history, bounds
<1>13. ASSUME NEW old \in SUBSET (Versions \ {running}), Serve(old) PROVE NewestAsked'
  BY <1>0, <1>13 DEF Serve, agent, files, history, bounds
<1>14. ASSUME Fetch PROVE NewestAsked'
  BY <1>0, <1>14 DEF Fetch, At, RestOfJob, RestOfInstall, Stays, server, dirs, files, history
<1>15. ASSUME WriteNew PROVE NewestAsked'
  BY <1>0, <1>15 DEF WriteNew, At, RestOfJob, RestOfInstall, Stays, server, dirs, history
<1>16. ASSUME WrittenNew PROVE NewestAsked'
  BY <1>0, <1>16 DEF WrittenNew, At, RestOfJob, RestOfInstall, Stays, server, dirs, history
<1>17. ASSUME Verify PROVE NewestAsked'
  BY <1>0, <1>17 DEF Verify, At, RestOfJob, RestOfInstall, Stays, server, dirs, history
<1>18. ASSUME RemovePrevious PROVE NewestAsked'
  BY <1>0, <1>18 DEF RemovePrevious, At, RestOfJob, RestOfInstall, Stays, server, dirs, history
<1>19. ASSUME KeepPrevious PROVE NewestAsked'
  BY <1>0, <1>19
     DEF KeepPrevious, At, RestOfJob, RestOfInstall, RenameFails, Fault, NoFault, Stays, server, dirs, history
<1>20. ASSUME InstallNew PROVE NewestAsked'
  BY <1>0, <1>20
     DEF InstallNew, At, RestOfJob, RestOfInstall, RenameFails, Fault, NoFault, Stays, server, dirs, files,
         history
<1>21. ASSUME RestartServer PROVE NewestAsked'
  BY GotoFacts, JobEndsFacts, <1>21
     DEF RestartServer, At, StartServer, ForgetAll, Fault, NoFault, Stays, dirs, files, history,
         NewestAsked, TypeOK
<1>22. ASSUME Healthy PROVE NewestAsked'
  BY <1>0, <1>22 DEF Healthy, At, RestOfJob, RestOfInstall, Stays, server, dirs, files, history
<1>23. ASSUME Unhealthy PROVE NewestAsked'
  BY <1>0, <1>23 DEF Unhealthy, At, RestOfJob, RestOfInstall, Stays, server, dirs, files, history
<1>24. ASSUME RollbackRename PROVE NewestAsked'
  BY <1>0, <1>24
     DEF RollbackRename, At, RestOfJob, RestOfInstall, RenameFails, Fault, NoFault, Stays, server, dirs, files,
         history
<1>25. ASSUME RollbackRestart PROVE NewestAsked'
  BY GotoFacts, JobEndsFacts, <1>25
     DEF RollbackRestart, At, StartServer, ForgetAll, Fault, NoFault, Stays, dirs, files,
         history, NewestAsked, TypeOK
<1>26. ASSUME AgentKilled PROVE NewestAsked'
  BY <1>0, <1>26 DEF AgentKilled, AgentDies, server, dirs, files
<1>27. ASSUME AgentRestartsItself PROVE NewestAsked'
  BY <1>0, <1>27 DEF AgentRestartsItself, AgentDies, server, dirs, files
<1>28. ASSUME AgentStarts PROVE NewestAsked'
  BY <1>0, <1>28 DEF AgentStarts, server, dirs, files, history, bounds
<1>29. ASSUME Age PROVE NewestAsked'
  BY <1>0, <1>29 DEF Age, server, dirs, agent, files, history, bounds
<1>30. CASE UNCHANGED vars
  BY <1>0, <1>30 DEF vars, server, dirs, agent, files, history, bounds
<1> QED BY <1>1, <1>2, <1>3, <1>4, <1>5, <1>6, <1>7, <1>8, <1>9, <1>10, <1>11, <1>12, <1>13, <1>14,
           <1>15, <1>16, <1>17, <1>18, <1>19, <1>20, <1>21, <1>22, <1>23, <1>24, <1>25, <1>26,
           <1>27, <1>28, <1>29, <1>30
           DEF Next, Staging, ServerLives, Installing

\* Staging stays apart from what may be started.
LEMMA StagedApartStep ==
  ASSUME SelfUpdateInv, [Next]_vars
  PROVE  StagedApart'
<1> USE DEF SelfUpdateInv
<1>0. ASSUME UNCHANGED <<unsafe, stage, job, running, exe, before>> PROVE StagedApart'
  BY <1>0 DEF StagedApart, Startable
<1>1. ASSUME Check PROVE StagedApart'
  BY <1>0, <1>1 DEF Check, dirs, agent, files, history, bounds
<1>2. ASSUME NEW v \in Versions, Ask(v) PROVE StagedApart'
  BY <1>0, <1>2 DEF Ask, dirs, agent, files, history, bounds
<1>3. ASSUME NEW v \in Versions, StartRefused(v) PROVE StagedApart'
  BY <1>0, <1>3 DEF StartRefused, dirs, agent, files, history, bounds
<1>4. ASSUME NEW v \in Versions, StartUpdate(v) PROVE StagedApart'
  <2>1. v \in {running, MaxVersion} /\ stage'.to = v
    BY <1>4 DEF StartUpdate, NewestAsked
  <2>2. unsafe' = FALSE => unsafe = FALSE /\ v \notin {running, exe} /\ ~ (job # None /\ job.to = v)
    <3> SUFFICES ASSUME unsafe' = FALSE
                 PROVE  unsafe = FALSE /\ v \notin {running, exe} /\ ~ (job # None /\ job.to = v)
      OBVIOUS
    <3>1. unsafe' <=> (unsafe \/ v \in {running, exe} \/ (job # None /\ job.to = v))
      BY <1>4 DEF StartUpdate
    <3>2. unsafe \in BOOLEAN
      BY DEF TypeOK
    <3> QED BY <3>1, <3>2, Zenon
  <2>3. unsafe' = FALSE => job = None /\ v = MaxVersion
    BY <2>1, <2>2 DEF StagedApart
  <2> QED BY <1>4, <2>1, <2>2, <2>3 DEF StartUpdate, agent, files, StagedApart, Startable
<1>5. ASSUME StageFails PROVE StagedApart'
  BY StagingEndsFacts, <1>5
     DEF StageFails, StagingEnds, agent, files, history, bounds, StagedApart, TypeOK, Startable
<1>6. ASSUME StageDownload PROVE StagedApart'
  BY StageDownloadFacts, <1>6
     DEF StageDownload, agent, files, history, bounds, StagedApart, TypeOK, Startable
<1>7. ASSUME StageWritten PROVE StagedApart'
  BY StageWrittenFacts, <1>7
     DEF StageWritten, agent, files, history, bounds, StagedApart, TypeOK, Startable
<1>8. ASSUME HandOffRefused PROVE StagedApart'
  BY StagingEndsFacts, <1>8
     DEF HandOffRefused, StagingEnds, dirs, agent, files, history, bounds, StagedApart, TypeOK,
         Startable
<1>9. ASSUME NEW b \in BOOLEAN, HandOff(b) PROVE StagedApart'
  <2>1. stage' = None /\ job'.to = stage.to /\ unsafe' = unsafe
    BY <1>9 DEF HandOff
  <2> QED BY <1>9, <2>1 DEF HandOff, StagedApart
<1>10. ASSUME ServerCrash PROVE StagedApart'
  BY <1>10 DEF ServerCrash, ForgetAll, dirs, agent, files, history, StagedApart, TypeOK, Startable
<1>11. ASSUME ServerStarts PROVE StagedApart'
  BY <1>11
     DEF ServerStarts, StartServer, ForgetAll, dirs, agent, files, history, bounds, StagedApart,
         TypeOK, Startable
<1>12. ASSUME NEW p \in Platforms, Adopt(p) PROVE StagedApart'
  BY <1>0, <1>12 DEF Adopt, server, agent, files, history, bounds
<1>13. ASSUME NEW old \in SUBSET (Versions \ {running}), Serve(old) PROVE StagedApart'
  BY <1>0, <1>13 DEF Serve, agent, files, history, bounds
<1>14. ASSUME Fetch PROVE StagedApart'
  BY GotoFacts, JobEndsFacts, <1>14 DEF Fetch, At, RestOfJob, RestOfInstall, server, history, StagedApart
<1>15. ASSUME WriteNew PROVE StagedApart'
  BY GotoFacts, JobEndsFacts, <1>15 DEF WriteNew, At, RestOfJob, RestOfInstall, server, history, StagedApart
<1>16. ASSUME WrittenNew PROVE StagedApart'
  BY GotoFacts, JobEndsFacts, <1>16 DEF WrittenNew, At, RestOfJob, RestOfInstall, server, history, StagedApart
<1>17. ASSUME Verify PROVE StagedApart'
  BY GotoFacts, JobEndsFacts, <1>17 DEF Verify, At, RestOfJob, RestOfInstall, server, history, StagedApart
<1>18. ASSUME RemovePrevious PROVE StagedApart'
  BY GotoFacts, JobEndsFacts, <1>18 DEF RemovePrevious, At, RestOfJob, RestOfInstall, server, history, StagedApart
<1>19. ASSUME KeepPrevious PROVE StagedApart'
  BY GotoFacts, JobEndsFacts, <1>19 DEF KeepPrevious, At, RestOfJob, RestOfInstall, server, history, StagedApart
<1>20. ASSUME InstallNew PROVE StagedApart'
  BY GotoFacts, JobEndsFacts, <1>20 DEF InstallNew, At, RestOfJob, RestOfInstall, server, history, StagedApart
<1>21. ASSUME RestartServer PROVE StagedApart'
  BY GotoFacts, JobEndsFacts, ForgetAllFacts, <1>21
     DEF RestartServer, At, StartServer, Stays, history, StagedApart
<1>22. ASSUME Healthy PROVE StagedApart'
  BY GotoFacts, JobEndsFacts, <1>22 DEF Healthy, At, RestOfJob, RestOfInstall, server, history, StagedApart
<1>23. ASSUME Unhealthy PROVE StagedApart'
  BY GotoFacts, JobEndsFacts, <1>23 DEF Unhealthy, At, RestOfJob, RestOfInstall, server, history, StagedApart
<1>24. ASSUME RollbackRename PROVE StagedApart'
  BY GotoFacts, JobEndsFacts, <1>24 DEF RollbackRename, At, RestOfJob, RestOfInstall, server, history, StagedApart
<1>25. ASSUME RollbackRestart PROVE StagedApart'
  BY GotoFacts, JobEndsFacts, ForgetAllFacts, <1>25
     DEF RollbackRestart, At, StartServer, Stays, history, StagedApart
<1>26. ASSUME AgentKilled PROVE StagedApart'
  BY <1>26 DEF AgentKilled, AgentDies, server, dirs, files, StagedApart, TypeOK, Startable
<1>27. ASSUME AgentRestartsItself PROVE StagedApart'
  BY <1>27 DEF AgentRestartsItself, AgentDies, server, dirs, files, StagedApart, TypeOK, Startable
<1>28. ASSUME AgentStarts PROVE StagedApart'
  BY <1>0, <1>28 DEF AgentStarts, server, dirs, files, history, bounds
<1>29. ASSUME Age PROVE StagedApart'
  BY <1>0, <1>29 DEF Age, server, dirs, agent, files, history, bounds
<1>30. CASE UNCHANGED vars
  BY <1>0, <1>30 DEF vars, server, dirs, agent, files, history, bounds
<1> QED BY <1>1, <1>2, <1>3, <1>4, <1>5, <1>6, <1>7, <1>8, <1>9, <1>10, <1>11, <1>12, <1>13, <1>14,
           <1>15, <1>16, <1>17, <1>18, <1>19, <1>20, <1>21, <1>22, <1>23, <1>24, <1>25, <1>26,
           <1>27, <1>28, <1>29, <1>30
           DEF Next, Staging, ServerLives, Installing

\* What may be started next could be started already: no step but HandOff adds
\* a version, and HandOff the one that has just been staged.
LEMMA StartableShrinks ==
  ASSUME SelfUpdateInv, [Next]_vars, ~ \E b \in BOOLEAN : HandOff(b)
  PROVE  Startable' \cap Versions \subseteq Startable
<1> USE DEF SelfUpdateInv
<1>0. ASSUME UNCHANGED <<running, exe, job, before>> PROVE Startable' \cap Versions \subseteq Startable
  BY <1>0 DEF Startable
<1>1. ASSUME Check PROVE Startable' \cap Versions \subseteq Startable
  BY <1>0, <1>1 DEF Check, dirs, agent, files, history, bounds
<1>2. ASSUME NEW v \in Versions, Ask(v) PROVE Startable' \cap Versions \subseteq Startable
  BY <1>0, <1>2 DEF Ask, dirs, agent, files, history, bounds
<1>3. ASSUME NEW v \in Versions, StartRefused(v) PROVE Startable' \cap Versions \subseteq Startable
  BY <1>0, <1>3 DEF StartRefused, dirs, agent, files, history, bounds
<1>4. ASSUME NEW v \in Versions, StartUpdate(v) PROVE Startable' \cap Versions \subseteq Startable
  BY <1>0, <1>4 DEF StartUpdate, dirs, agent, files, bounds
<1>5. ASSUME StageFails PROVE Startable' \cap Versions \subseteq Startable
  BY <1>0, <1>5 DEF StageFails, StagingEnds, agent, files, history, bounds
<1>6. ASSUME StageDownload PROVE Startable' \cap Versions \subseteq Startable
  BY <1>0, <1>6 DEF StageDownload, agent, files, history, bounds
<1>7. ASSUME StageWritten PROVE Startable' \cap Versions \subseteq Startable
  BY <1>0, <1>7 DEF StageWritten, agent, files, history, bounds
<1>8. ASSUME HandOffRefused PROVE Startable' \cap Versions \subseteq Startable
  BY <1>0, <1>8 DEF HandOffRefused, StagingEnds, dirs, agent, files, history, bounds
<1>9. ASSUME NEW b \in BOOLEAN, HandOff(b) PROVE Startable' \cap Versions \subseteq Startable
  BY <1>9
<1>10. ASSUME ServerCrash PROVE Startable' \cap Versions \subseteq Startable
  BY <1>0, <1>10 DEF ServerCrash, ForgetAll, dirs, agent, files, history
<1>11. ASSUME ServerStarts PROVE Startable' \cap Versions \subseteq Startable
  BY <1>11 DEF ServerStarts, StartServer, ForgetAll, dirs, agent, files, history, bounds, Startable
<1>12. ASSUME NEW p \in Platforms, Adopt(p) PROVE Startable' \cap Versions \subseteq Startable
  BY <1>0, <1>12 DEF Adopt, server, agent, files, history, bounds
<1>13. ASSUME NEW old \in SUBSET (Versions \ {running}), Serve(old) PROVE Startable' \cap Versions \subseteq Startable
  BY <1>0, <1>13 DEF Serve, agent, files, history, bounds
<1>14. ASSUME Fetch PROVE Startable' \cap Versions \subseteq Startable
  <2>1. exe' \in {Missing, exe, job.to, before} /\ running' = running /\ before' = before /\ job # None
    BY <1>14 DEF Fetch, At, RestOfJob, RestOfInstall, Stays, server, dirs, files, history, JobFiles, Installed
  <2>2. job' = None \/ (job' # None /\ job'.to = job.to)
    BY <1>14, <2>1, GotoFacts, JobEndsFacts DEF Fetch, At
  <2>3. Missing \notin Versions
    BY SelfUpdateAssumption DEF Missing, Versions
  <2> QED BY <2>1, <2>2, <2>3 DEF Startable
<1>15. ASSUME WriteNew PROVE Startable' \cap Versions \subseteq Startable
  <2>1. exe' \in {Missing, exe, job.to, before} /\ running' = running /\ before' = before /\ job # None
    BY <1>15 DEF WriteNew, At, RestOfJob, RestOfInstall, Stays, server, dirs, history, JobFiles, Installed
  <2>2. job' = None \/ (job' # None /\ job'.to = job.to)
    BY <1>15, <2>1, GotoFacts, JobEndsFacts DEF WriteNew, At
  <2>3. Missing \notin Versions
    BY SelfUpdateAssumption DEF Missing, Versions
  <2> QED BY <2>1, <2>2, <2>3 DEF Startable
<1>16. ASSUME WrittenNew PROVE Startable' \cap Versions \subseteq Startable
  <2>1. exe' \in {Missing, exe, job.to, before} /\ running' = running /\ before' = before /\ job # None
    BY <1>16 DEF WrittenNew, At, RestOfJob, RestOfInstall, Stays, server, dirs, history, JobFiles, Installed
  <2>2. job' = None \/ (job' # None /\ job'.to = job.to)
    BY <1>16, <2>1, GotoFacts, JobEndsFacts DEF WrittenNew, At
  <2>3. Missing \notin Versions
    BY SelfUpdateAssumption DEF Missing, Versions
  <2> QED BY <2>1, <2>2, <2>3 DEF Startable
<1>17. ASSUME Verify PROVE Startable' \cap Versions \subseteq Startable
  <2>1. exe' \in {Missing, exe, job.to, before} /\ running' = running /\ before' = before /\ job # None
    BY <1>17 DEF Verify, At, RestOfJob, RestOfInstall, Stays, server, dirs, history, JobFiles, Installed
  <2>2. job' = None \/ (job' # None /\ job'.to = job.to)
    BY <1>17, <2>1, GotoFacts, JobEndsFacts DEF Verify, At
  <2>3. Missing \notin Versions
    BY SelfUpdateAssumption DEF Missing, Versions
  <2> QED BY <2>1, <2>2, <2>3 DEF Startable
<1>18. ASSUME RemovePrevious PROVE Startable' \cap Versions \subseteq Startable
  <2>1. exe' \in {Missing, exe, job.to, before} /\ running' = running /\ before' = before /\ job # None
    BY <1>18 DEF RemovePrevious, At, RestOfJob, RestOfInstall, Stays, server, dirs, history, JobFiles, Installed
  <2>2. job' = None \/ (job' # None /\ job'.to = job.to)
    BY <1>18, <2>1, GotoFacts, JobEndsFacts DEF RemovePrevious, At
  <2>3. Missing \notin Versions
    BY SelfUpdateAssumption DEF Missing, Versions
  <2> QED BY <2>1, <2>2, <2>3 DEF Startable
<1>19. ASSUME KeepPrevious PROVE Startable' \cap Versions \subseteq Startable
  <2>1. exe' \in {Missing, exe, job.to, before} /\ running' = running /\ before' = before /\ job # None
    BY <1>19
       DEF KeepPrevious, At, RestOfJob, RestOfInstall, RenameFails, Fault, NoFault, Stays, server, dirs,
           history, JobFiles, Installed
  <2>2. job' = None \/ (job' # None /\ job'.to = job.to)
    BY <1>19, <2>1, GotoFacts, JobEndsFacts DEF KeepPrevious, At
  <2>3. Missing \notin Versions
    BY SelfUpdateAssumption DEF Missing, Versions
  <2> QED BY <2>1, <2>2, <2>3 DEF Startable
<1>20. ASSUME InstallNew PROVE Startable' \cap Versions \subseteq Startable
  <2>1. exe' \in {Missing, exe, job.to, before} /\ running' = running /\ before' = before /\ job # None
    BY <1>20
       DEF InstallNew, At, RestOfJob, RestOfInstall, RenameFails, Fault, NoFault, Stays, server, dirs, files,
           history, JobFiles, Installed
  <2>2. job' = None \/ (job' # None /\ job'.to = job.to)
    BY <1>20, <2>1, GotoFacts, JobEndsFacts DEF InstallNew, At
  <2>3. Missing \notin Versions
    BY SelfUpdateAssumption DEF Missing, Versions
  <2> QED BY <2>1, <2>2, <2>3 DEF Startable
<1>21. ASSUME RestartServer PROVE Startable' \cap Versions \subseteq Startable
  BY <1>21, GotoFacts, JobEndsFacts
     DEF RestartServer, At, StartServer, Stays, files, history, Startable
<1>22. ASSUME Healthy PROVE Startable' \cap Versions \subseteq Startable
  <2>1. exe' \in {Missing, exe, job.to, before} /\ running' = running /\ before' = before /\ job # None
    BY <1>22 DEF Healthy, At, RestOfJob, RestOfInstall, Stays, server, dirs, files, history, JobFiles, Installed
  <2>2. job' = None \/ (job' # None /\ job'.to = job.to)
    BY <1>22, <2>1, GotoFacts, JobEndsFacts DEF Healthy, At
  <2>3. Missing \notin Versions
    BY SelfUpdateAssumption DEF Missing, Versions
  <2> QED BY <2>1, <2>2, <2>3 DEF Startable
<1>23. ASSUME Unhealthy PROVE Startable' \cap Versions \subseteq Startable
  <2>1. exe' \in {Missing, exe, job.to, before} /\ running' = running /\ before' = before /\ job # None
    BY <1>23 DEF Unhealthy, At, RestOfJob, RestOfInstall, Stays, server, dirs, files, history, JobFiles, Installed
  <2>2. job' = None \/ (job' # None /\ job'.to = job.to)
    BY <1>23, <2>1, GotoFacts, JobEndsFacts DEF Unhealthy, At
  <2>3. Missing \notin Versions
    BY SelfUpdateAssumption DEF Missing, Versions
  <2> QED BY <2>1, <2>2, <2>3 DEF Startable
<1>24. ASSUME RollbackRename PROVE Startable' \cap Versions \subseteq Startable
  <2>1. exe' \in {Missing, exe, job.to, before} /\ running' = running /\ before' = before /\ job # None
    BY <1>24
       DEF RollbackRename, At, RestOfJob, RestOfInstall, RenameFails, Fault, NoFault, Stays, server, dirs,
           files, history, JobFiles, Installed
  <2>2. job' = None \/ (job' # None /\ job'.to = job.to)
    BY <1>24, <2>1, GotoFacts, JobEndsFacts DEF RollbackRename, At
  <2>3. Missing \notin Versions
    BY SelfUpdateAssumption DEF Missing, Versions
  <2> QED BY <2>1, <2>2, <2>3 DEF Startable
<1>25. ASSUME RollbackRestart PROVE Startable' \cap Versions \subseteq Startable
  BY <1>25, GotoFacts, JobEndsFacts
     DEF RollbackRestart, At, StartServer, Stays, files, history, Startable
<1>26. ASSUME AgentKilled PROVE Startable' \cap Versions \subseteq Startable
  BY <1>26 DEF AgentKilled, AgentDies, server, dirs, files, Startable
<1>27. ASSUME AgentRestartsItself PROVE Startable' \cap Versions \subseteq Startable
  BY <1>27 DEF AgentRestartsItself, AgentDies, server, dirs, files, Startable
<1>28. ASSUME AgentStarts PROVE Startable' \cap Versions \subseteq Startable
  BY <1>0, <1>28 DEF AgentStarts, server, dirs, files, history, bounds
<1>29. ASSUME Age PROVE Startable' \cap Versions \subseteq Startable
  BY <1>0, <1>29 DEF Age, server, dirs, agent, files, history, bounds
<1>30. CASE UNCHANGED vars
  BY <1>0, <1>30 DEF vars, server, dirs, agent, files, history, bounds
<1> QED BY <1>1, <1>2, <1>3, <1>4, <1>5, <1>6, <1>7, <1>8, <1>9, <1>10, <1>11, <1>12, <1>13, <1>14,
           <1>15, <1>16, <1>17, <1>18, <1>19, <1>20, <1>21, <1>22, <1>23, <1>24, <1>25, <1>26,
           <1>27, <1>28, <1>29, <1>30
           DEF Next, Staging, ServerLives, Installing

\* No file is cut short but by the staging of its version.
LEMMA CutOnlyStaged ==
  ASSUME SelfUpdateInv, [Next]_vars, NEW w \in Versions, NEW q \in Platforms,
         staged'[w][q] = "cut", staged[w][q] # "cut"
  PROVE  StageDownload /\ w = stage.to
<1> USE DEF SelfUpdateInv
<1>0. staged' # staged
  OBVIOUS
<1>1. ASSUME Check PROVE StageDownload /\ w = stage.to
  BY <1>0, <1>1 DEF Check, dirs, agent, files, history, bounds
<1>2. ASSUME NEW v \in Versions, Ask(v) PROVE StageDownload /\ w = stage.to
  BY <1>0, <1>2 DEF Ask, dirs, agent, files, history, bounds
<1>3. ASSUME NEW v \in Versions, StartRefused(v) PROVE StageDownload /\ w = stage.to
  BY <1>0, <1>3 DEF StartRefused, dirs, agent, files, history, bounds
<1>4. ASSUME NEW v \in Versions, StartUpdate(v) PROVE StageDownload /\ w = stage.to
  BY <1>0, <1>4 DEF StartUpdate, dirs, agent, files, bounds
<1>5. ASSUME StageFails PROVE StageDownload /\ w = stage.to
  BY <1>5 DEF StageFails, TypeOK, StageRecord
<1>6. ASSUME StageDownload PROVE StageDownload /\ w = stage.to
  BY <1>6, StageDownloadFacts
<1>7. ASSUME StageWritten PROVE StageDownload /\ w = stage.to
  BY <1>7, StageWrittenFacts
<1>8. ASSUME HandOffRefused PROVE StageDownload /\ w = stage.to
  BY <1>0, <1>8 DEF HandOffRefused, StagingEnds, dirs, agent, files, history, bounds
<1>9. ASSUME NEW b \in BOOLEAN, HandOff(b) PROVE StageDownload /\ w = stage.to
  BY <1>0, <1>9 DEF HandOff, dirs, files, bounds
<1>10. ASSUME ServerCrash PROVE StageDownload /\ w = stage.to
  BY <1>0, <1>10 DEF ServerCrash, ForgetAll, dirs, agent, files, history
<1>11. ASSUME ServerStarts PROVE StageDownload /\ w = stage.to
  BY <1>0, <1>11 DEF ServerStarts, StartServer, ForgetAll, dirs, agent, files, history, bounds
<1>12. ASSUME NEW p \in Platforms, Adopt(p) PROVE StageDownload /\ w = stage.to
  BY <1>12 DEF Adopt, TypeOK, StageRecord
<1>13. ASSUME NEW old \in SUBSET (Versions \ {running}), Serve(old) PROVE StageDownload /\ w = stage.to
  BY <1>13, WithoutFacts DEF Serve
<1>14. ASSUME Fetch PROVE StageDownload /\ w = stage.to
  BY <1>0, <1>14 DEF Fetch, At, RestOfJob, RestOfInstall, Stays, server, dirs, files, history
<1>15. ASSUME WriteNew PROVE StageDownload /\ w = stage.to
  BY <1>0, <1>15 DEF WriteNew, At, RestOfJob, RestOfInstall, Stays, server, dirs, history
<1>16. ASSUME WrittenNew PROVE StageDownload /\ w = stage.to
  BY <1>0, <1>16 DEF WrittenNew, At, RestOfJob, RestOfInstall, Stays, server, dirs, history
<1>17. ASSUME Verify PROVE StageDownload /\ w = stage.to
  BY <1>0, <1>17 DEF Verify, At, RestOfJob, RestOfInstall, Stays, server, dirs, history
<1>18. ASSUME RemovePrevious PROVE StageDownload /\ w = stage.to
  BY <1>0, <1>18 DEF RemovePrevious, At, RestOfJob, RestOfInstall, Stays, server, dirs, history
<1>19. ASSUME KeepPrevious PROVE StageDownload /\ w = stage.to
  BY <1>0, <1>19
     DEF KeepPrevious, At, RestOfJob, RestOfInstall, RenameFails, Fault, NoFault, Stays, server, dirs, history
<1>20. ASSUME InstallNew PROVE StageDownload /\ w = stage.to
  BY <1>0, <1>20
     DEF InstallNew, At, RestOfJob, RestOfInstall, RenameFails, Fault, NoFault, Stays, server, dirs, files,
         history
<1>21. ASSUME RestartServer PROVE StageDownload /\ w = stage.to
  BY <1>0, <1>21
     DEF RestartServer, At, StartServer, ForgetAll, Fault, NoFault, Stays, dirs, files, history
<1>22. ASSUME Healthy PROVE StageDownload /\ w = stage.to
  BY <1>0, <1>22 DEF Healthy, At, RestOfJob, RestOfInstall, Stays, server, dirs, files, history
<1>23. ASSUME Unhealthy PROVE StageDownload /\ w = stage.to
  BY <1>0, <1>23 DEF Unhealthy, At, RestOfJob, RestOfInstall, Stays, server, dirs, files, history
<1>24. ASSUME RollbackRename PROVE StageDownload /\ w = stage.to
  BY <1>0, <1>24
     DEF RollbackRename, At, RestOfJob, RestOfInstall, RenameFails, Fault, NoFault, Stays, server, dirs, files,
         history
<1>25. ASSUME RollbackRestart PROVE StageDownload /\ w = stage.to
  BY <1>0, <1>25
     DEF RollbackRestart, At, StartServer, ForgetAll, Fault, NoFault, Stays, dirs, files,
         history
<1>26. ASSUME AgentKilled PROVE StageDownload /\ w = stage.to
  BY <1>0, <1>26 DEF AgentKilled, AgentDies, server, dirs, files
<1>27. ASSUME AgentRestartsItself PROVE StageDownload /\ w = stage.to
  BY <1>0, <1>27 DEF AgentRestartsItself, AgentDies, server, dirs, files
<1>28. ASSUME AgentStarts PROVE StageDownload /\ w = stage.to
  BY <1>0, <1>28 DEF AgentStarts, server, dirs, files, history, bounds
<1>29. ASSUME Age PROVE StageDownload /\ w = stage.to
  BY <1>0, <1>29 DEF Age, server, dirs, agent, files, history, bounds
<1>30. CASE UNCHANGED vars
  BY <1>0, <1>30 DEF vars, server, dirs, agent, files, history, bounds
<1> QED BY <1>1, <1>2, <1>3, <1>4, <1>5, <1>6, <1>7, <1>8, <1>9, <1>10, <1>11, <1>12, <1>13, <1>14,
           <1>15, <1>16, <1>17, <1>18, <1>19, <1>20, <1>21, <1>22, <1>23, <1>24, <1>25, <1>26,
           <1>27, <1>28, <1>29, <1>30
           DEF Next, Staging, ServerLives, Installing

\* Once a staging is unsafe the history says so for ever.
LEMMA UnsafeStays ==
  ASSUME SelfUpdateInv, [Next]_vars, unsafe' = FALSE
  PROVE  unsafe = FALSE
<1> USE DEF SelfUpdateInv
<1>0. unsafe \in BOOLEAN
  BY DEF TypeOK
<1>1. ASSUME Check PROVE unsafe = FALSE
  BY <1>1 DEF Check, dirs, agent, files, history, bounds
<1>2. ASSUME NEW v \in Versions, Ask(v) PROVE unsafe = FALSE
  BY <1>2 DEF Ask, dirs, agent, files, history, bounds
<1>3. ASSUME NEW v \in Versions, StartRefused(v) PROVE unsafe = FALSE
  BY <1>3 DEF StartRefused, dirs, agent, files, history, bounds
<1>4. ASSUME NEW v \in Versions, StartUpdate(v) PROVE unsafe = FALSE
  <2>1. unsafe' <=> (unsafe \/ v \in {running, exe} \/ (job # None /\ job.to = v))
    BY <1>4 DEF StartUpdate
  <2> QED BY <1>0, <2>1, Zenon
<1>5. ASSUME StageFails PROVE unsafe = FALSE
  BY <1>5 DEF StageFails, StagingEnds, agent, files, history, bounds
<1>6. ASSUME StageDownload PROVE unsafe = FALSE
  BY <1>6 DEF StageDownload, agent, files, history, bounds
<1>7. ASSUME StageWritten PROVE unsafe = FALSE
  BY <1>7 DEF StageWritten, agent, files, history, bounds
<1>8. ASSUME HandOffRefused PROVE unsafe = FALSE
  BY <1>8 DEF HandOffRefused, StagingEnds, dirs, agent, files, history, bounds
<1>9. ASSUME NEW b \in BOOLEAN, HandOff(b) PROVE unsafe = FALSE
  BY <1>9 DEF HandOff, dirs, files, bounds
<1>10. ASSUME ServerCrash PROVE unsafe = FALSE
  BY <1>10 DEF ServerCrash, ForgetAll, dirs, agent, files, history
<1>11. ASSUME ServerStarts PROVE unsafe = FALSE
  BY <1>11 DEF ServerStarts, StartServer, ForgetAll, dirs, agent, files, history, bounds
<1>12. ASSUME NEW p \in Platforms, Adopt(p) PROVE unsafe = FALSE
  BY <1>12 DEF Adopt, server, agent, files, history, bounds
<1>13. ASSUME NEW old \in SUBSET (Versions \ {running}), Serve(old) PROVE unsafe = FALSE
  BY <1>13 DEF Serve, agent, files, history, bounds
<1>14. ASSUME Fetch PROVE unsafe = FALSE
  BY <1>14 DEF Fetch, At, RestOfJob, RestOfInstall, Stays, server, dirs, files, history
<1>15. ASSUME WriteNew PROVE unsafe = FALSE
  BY <1>15 DEF WriteNew, At, RestOfJob, RestOfInstall, Stays, server, dirs, history
<1>16. ASSUME WrittenNew PROVE unsafe = FALSE
  BY <1>16 DEF WrittenNew, At, RestOfJob, RestOfInstall, Stays, server, dirs, history
<1>17. ASSUME Verify PROVE unsafe = FALSE
  BY <1>17 DEF Verify, At, RestOfJob, RestOfInstall, Stays, server, dirs, history
<1>18. ASSUME RemovePrevious PROVE unsafe = FALSE
  BY <1>18 DEF RemovePrevious, At, RestOfJob, RestOfInstall, Stays, server, dirs, history
<1>19. ASSUME KeepPrevious PROVE unsafe = FALSE
  BY <1>19
     DEF KeepPrevious, At, RestOfJob, RestOfInstall, RenameFails, Fault, NoFault, Stays, server, dirs, history
<1>20. ASSUME InstallNew PROVE unsafe = FALSE
  BY <1>20
     DEF InstallNew, At, RestOfJob, RestOfInstall, RenameFails, Fault, NoFault, Stays, server, dirs, files,
         history
<1>21. ASSUME RestartServer PROVE unsafe = FALSE
  BY <1>21
     DEF RestartServer, At, StartServer, ForgetAll, Fault, NoFault, Stays, dirs, files, history
<1>22. ASSUME Healthy PROVE unsafe = FALSE
  BY <1>22 DEF Healthy, At, RestOfJob, RestOfInstall, Stays, server, dirs, files, history
<1>23. ASSUME Unhealthy PROVE unsafe = FALSE
  BY <1>23 DEF Unhealthy, At, RestOfJob, RestOfInstall, Stays, server, dirs, files, history
<1>24. ASSUME RollbackRename PROVE unsafe = FALSE
  BY <1>24
     DEF RollbackRename, At, RestOfJob, RestOfInstall, RenameFails, Fault, NoFault, Stays, server, dirs, files,
         history
<1>25. ASSUME RollbackRestart PROVE unsafe = FALSE
  BY <1>25
     DEF RollbackRestart, At, StartServer, ForgetAll, Fault, NoFault, Stays, dirs, files,
         history
<1>26. ASSUME AgentKilled PROVE unsafe = FALSE
  BY <1>26 DEF AgentKilled, AgentDies, server, dirs, files
<1>27. ASSUME AgentRestartsItself PROVE unsafe = FALSE
  BY <1>27 DEF AgentRestartsItself, AgentDies, server, dirs, files
<1>28. ASSUME AgentStarts PROVE unsafe = FALSE
  BY <1>28 DEF AgentStarts, server, dirs, files, history, bounds
<1>29. ASSUME Age PROVE unsafe = FALSE
  BY <1>29 DEF Age, server, dirs, agent, files, history, bounds
<1>30. CASE UNCHANGED vars
  BY <1>30 DEF vars, history
<1> QED BY <1>1, <1>2, <1>3, <1>4, <1>5, <1>6, <1>7, <1>8, <1>9, <1>10, <1>11, <1>12, <1>13, <1>14,
           <1>15, <1>16, <1>17, <1>18, <1>19, <1>20, <1>21, <1>22, <1>23, <1>24, <1>25, <1>26,
           <1>27, <1>28, <1>29, <1>30
           DEF Next, Staging, ServerLives, Installing

\* What may be started stays whole.
LEMMA StartableWholeStep ==
  ASSUME SelfUpdateInv, [Next]_vars
  PROVE  StartableWhole'
<1> USE DEF SelfUpdateInv
<1> SUFFICES ASSUME unsafe' = FALSE, NEW v \in Versions, NEW p \in Platforms, v \in Startable', staged'[v][p] = "cut"
             PROVE  FALSE
  BY DEF StartableWhole
<1>1. unsafe = FALSE
  BY UnsafeStays
<1>2. ASSUME NEW b \in BOOLEAN, HandOff(b) PROVE FALSE
  <2>1. staged' = staged /\ v \in {running, exe, stage.to}
    BY <1>2 DEF HandOff, dirs, files, Startable
  <2>2. CASE v \in {running, exe}
    BY <1>1, <2>1, <2>2 DEF StartableWhole, Startable
  <2>3. CASE v = stage.to
    <3>1. stage.at = NPlatforms + 1 /\ p < NPlatforms + 1
      BY <1>2, SelfUpdateAssumption DEF HandOff, StageSound, Platforms
    <3> QED BY <1>2, <2>1, <2>3, <3>1 DEF HandOff, StageSound
  <2> QED BY <2>1, <2>2, <2>3
<1>3. CASE ~ \E b \in BOOLEAN : HandOff(b)
  <2>1. v \in Startable
    BY <1>3, StartableShrinks
  <2>2. staged[v][p] # "cut"
    BY <1>1, <2>1 DEF StartableWhole
  <2>3. StageDownload /\ v = stage.to
    BY <2>2, CutOnlyStaged
  <2> QED BY <1>1, <2>1, <2>3 DEF StagedApart, StageDownload
<1> QED BY <1>2, <1>3

\* So what is adopted is whole.
LEMMA ServedWholeStep ==
  ASSUME SelfUpdateInv, [Next]_vars
  PROVE  ServedWhole'
<1> USE DEF SelfUpdateInv
<1>0. ASSUME UNCHANGED <<unsafe, bin>> PROVE ServedWhole'
  BY <1>0 DEF ServedWhole
<1>1. ASSUME Check PROVE ServedWhole'
  BY <1>0, <1>1 DEF Check, dirs, agent, files, history, bounds
<1>2. ASSUME NEW v \in Versions, Ask(v) PROVE ServedWhole'
  BY <1>0, <1>2 DEF Ask, dirs, agent, files, history, bounds
<1>3. ASSUME NEW v \in Versions, StartRefused(v) PROVE ServedWhole'
  BY <1>0, <1>3 DEF StartRefused, dirs, agent, files, history, bounds
<1>4. ASSUME NEW v \in Versions, StartUpdate(v) PROVE ServedWhole'
  BY UnsafeStays, <1>4 DEF StartUpdate, dirs, ServedWhole, TypeOK
<1>5. ASSUME StageFails PROVE ServedWhole'
  BY <1>0, <1>5 DEF StageFails, StagingEnds, agent, files, history, bounds
<1>6. ASSUME StageDownload PROVE ServedWhole'
  BY <1>0, <1>6 DEF StageDownload, agent, files, history, bounds
<1>7. ASSUME StageWritten PROVE ServedWhole'
  BY <1>0, <1>7 DEF StageWritten, agent, files, history, bounds
<1>8. ASSUME HandOffRefused PROVE ServedWhole'
  BY <1>0, <1>8 DEF HandOffRefused, StagingEnds, dirs, agent, files, history, bounds
<1>9. ASSUME NEW b \in BOOLEAN, HandOff(b) PROVE ServedWhole'
  BY <1>0, <1>9 DEF HandOff, dirs, files, bounds
<1>10. ASSUME ServerCrash PROVE ServedWhole'
  BY <1>0, <1>10 DEF ServerCrash, ForgetAll, dirs, agent, files, history
<1>11. ASSUME ServerStarts PROVE ServedWhole'
  BY <1>0, <1>11 DEF ServerStarts, StartServer, ForgetAll, dirs, agent, files, history, bounds
<1>12. ASSUME NEW p \in Platforms, Adopt(p) PROVE ServedWhole'
  <2>1. CASE unsafe
    BY <1>12, <2>1 DEF Adopt, history, ServedWhole
  <2>2. CASE unsafe = FALSE
    <3>1. running \in Versions /\ staged[running][p] \in {"none", "cut", "whole"}
      BY DEF TypeOK
    <3>2. staged[running][p] = "whole"
      BY <1>12, <2>2, <3>1 DEF Adopt, StartableWhole, Startable
    <3>3. ASSUME NEW q \in Platforms PROVE bin'[q].whole
      <4>1. bin[q].whole
        BY <2>2 DEF ServedWhole
      <4> QED BY <1>12, <3>2, <4>1 DEF Adopt, TypeOK
    <3> QED BY <3>3 DEF ServedWhole
  <2> QED BY <2>1, <2>2 DEF TypeOK
<1>13. ASSUME NEW old \in SUBSET (Versions \ {running}), Serve(old) PROVE ServedWhole'
  BY <1>0, <1>13 DEF Serve, agent, files, history, bounds
<1>14. ASSUME Fetch PROVE ServedWhole'
  BY <1>0, <1>14 DEF Fetch, At, RestOfJob, RestOfInstall, Stays, server, dirs, files, history
<1>15. ASSUME WriteNew PROVE ServedWhole'
  BY <1>0, <1>15 DEF WriteNew, At, RestOfJob, RestOfInstall, Stays, server, dirs, history
<1>16. ASSUME WrittenNew PROVE ServedWhole'
  BY <1>0, <1>16 DEF WrittenNew, At, RestOfJob, RestOfInstall, Stays, server, dirs, history
<1>17. ASSUME Verify PROVE ServedWhole'
  BY <1>0, <1>17 DEF Verify, At, RestOfJob, RestOfInstall, Stays, server, dirs, history
<1>18. ASSUME RemovePrevious PROVE ServedWhole'
  BY <1>0, <1>18 DEF RemovePrevious, At, RestOfJob, RestOfInstall, Stays, server, dirs, history
<1>19. ASSUME KeepPrevious PROVE ServedWhole'
  BY <1>0, <1>19
     DEF KeepPrevious, At, RestOfJob, RestOfInstall, RenameFails, Fault, NoFault, Stays, server, dirs, history
<1>20. ASSUME InstallNew PROVE ServedWhole'
  BY <1>0, <1>20
     DEF InstallNew, At, RestOfJob, RestOfInstall, RenameFails, Fault, NoFault, Stays, server, dirs, files,
         history
<1>21. ASSUME RestartServer PROVE ServedWhole'
  BY <1>0, <1>21
     DEF RestartServer, At, StartServer, ForgetAll, Fault, NoFault, Stays, dirs, files, history
<1>22. ASSUME Healthy PROVE ServedWhole'
  BY <1>0, <1>22 DEF Healthy, At, RestOfJob, RestOfInstall, Stays, server, dirs, files, history
<1>23. ASSUME Unhealthy PROVE ServedWhole'
  BY <1>0, <1>23 DEF Unhealthy, At, RestOfJob, RestOfInstall, Stays, server, dirs, files, history
<1>24. ASSUME RollbackRename PROVE ServedWhole'
  BY <1>0, <1>24
     DEF RollbackRename, At, RestOfJob, RestOfInstall, RenameFails, Fault, NoFault, Stays, server, dirs, files,
         history
<1>25. ASSUME RollbackRestart PROVE ServedWhole'
  BY <1>0, <1>25
     DEF RollbackRestart, At, StartServer, ForgetAll, Fault, NoFault, Stays, dirs, files,
         history
<1>26. ASSUME AgentKilled PROVE ServedWhole'
  BY <1>0, <1>26 DEF AgentKilled, AgentDies, server, dirs, files
<1>27. ASSUME AgentRestartsItself PROVE ServedWhole'
  BY <1>0, <1>27 DEF AgentRestartsItself, AgentDies, server, dirs, files
<1>28. ASSUME AgentStarts PROVE ServedWhole'
  BY <1>0, <1>28 DEF AgentStarts, server, dirs, files, history, bounds
<1>29. ASSUME Age PROVE ServedWhole'
  BY <1>0, <1>29 DEF Age, server, dirs, agent, files, history, bounds
<1>30. CASE UNCHANGED vars
  BY <1>0, <1>30 DEF vars, server, dirs, agent, files, history, bounds
<1> QED BY <1>1, <1>2, <1>3, <1>4, <1>5, <1>6, <1>7, <1>8, <1>9, <1>10, <1>11, <1>12, <1>13, <1>14,
           <1>15, <1>16, <1>17, <1>18, <1>19, <1>20, <1>21, <1>22, <1>23, <1>24, <1>25, <1>26,
           <1>27, <1>28, <1>29, <1>30
           DEF Next, Staging, ServerLives, Installing

\* No older version is asked for.
LEMMA AsksUpwardStep ==
  ASSUME SelfUpdateInv, [Next]_vars
  PROVE  AsksUpward'
<1> USE DEF SelfUpdateInv
<1>0. ASSUME UNCHANGED <<asked, stage, running>> PROVE AsksUpward'
  BY <1>0 DEF AsksUpward
<1>1. ASSUME Check PROVE AsksUpward'
  BY <1>0, <1>1 DEF Check, dirs, agent, files, history, bounds
<1>2. ASSUME NEW v \in Versions, Ask(v) PROVE AsksUpward'
  BY <1>2, SelfUpdateAssumption DEF Ask, Acceptable, newerVersion, AsksUpward, TypeOK, Versions
<1>3. ASSUME NEW v \in Versions, StartRefused(v) PROVE AsksUpward'
  BY <1>3 DEF StartRefused, dirs, agent, files, history, bounds, AsksUpward, TypeOK
<1>4. ASSUME NEW v \in Versions, StartUpdate(v) PROVE AsksUpward'
  BY <1>4 DEF StartUpdate, AsksUpward
<1>5. ASSUME StageFails PROVE AsksUpward'
  BY StagingEndsFacts, <1>5
     DEF StageFails, StagingEnds, agent, files, history, bounds, AsksUpward, TypeOK
<1>6. ASSUME StageDownload PROVE AsksUpward'
  BY StageDownloadFacts, <1>6 DEF StageDownload, agent, files, history, bounds, AsksUpward, TypeOK
<1>7. ASSUME StageWritten PROVE AsksUpward'
  BY StageWrittenFacts, <1>7 DEF StageWritten, agent, files, history, bounds, AsksUpward, TypeOK
<1>8. ASSUME HandOffRefused PROVE AsksUpward'
  BY StagingEndsFacts, <1>8
     DEF HandOffRefused, StagingEnds, dirs, agent, files, history, bounds, AsksUpward, TypeOK
<1>9. ASSUME NEW b \in BOOLEAN, HandOff(b) PROVE AsksUpward'
  BY <1>9 DEF HandOff, dirs, files, bounds, AsksUpward, TypeOK
<1>10. ASSUME ServerCrash PROVE AsksUpward'
  BY <1>10 DEF ServerCrash, ForgetAll, dirs, agent, files, history, AsksUpward, TypeOK
<1>11. ASSUME ServerStarts PROVE AsksUpward'
  BY <1>11
     DEF ServerStarts, StartServer, ForgetAll, dirs, agent, files, history, bounds, AsksUpward,
         TypeOK
<1>12. ASSUME NEW p \in Platforms, Adopt(p) PROVE AsksUpward'
  BY <1>0, <1>12 DEF Adopt, server, agent, files, history, bounds
<1>13. ASSUME NEW old \in SUBSET (Versions \ {running}), Serve(old) PROVE AsksUpward'
  BY <1>0, <1>13 DEF Serve, agent, files, history, bounds
<1>14. ASSUME Fetch PROVE AsksUpward'
  BY <1>0, <1>14 DEF Fetch, At, RestOfJob, RestOfInstall, Stays, server, dirs, files, history
<1>15. ASSUME WriteNew PROVE AsksUpward'
  BY <1>0, <1>15 DEF WriteNew, At, RestOfJob, RestOfInstall, Stays, server, dirs, history
<1>16. ASSUME WrittenNew PROVE AsksUpward'
  BY <1>0, <1>16 DEF WrittenNew, At, RestOfJob, RestOfInstall, Stays, server, dirs, history
<1>17. ASSUME Verify PROVE AsksUpward'
  BY <1>0, <1>17 DEF Verify, At, RestOfJob, RestOfInstall, Stays, server, dirs, history
<1>18. ASSUME RemovePrevious PROVE AsksUpward'
  BY <1>0, <1>18 DEF RemovePrevious, At, RestOfJob, RestOfInstall, Stays, server, dirs, history
<1>19. ASSUME KeepPrevious PROVE AsksUpward'
  BY <1>0, <1>19
     DEF KeepPrevious, At, RestOfJob, RestOfInstall, RenameFails, Fault, NoFault, Stays, server, dirs, history
<1>20. ASSUME InstallNew PROVE AsksUpward'
  BY <1>0, <1>20
     DEF InstallNew, At, RestOfJob, RestOfInstall, RenameFails, Fault, NoFault, Stays, server, dirs, files,
         history
<1>21. ASSUME RestartServer PROVE AsksUpward'
  BY GotoFacts, JobEndsFacts, <1>21
     DEF RestartServer, At, StartServer, ForgetAll, Fault, NoFault, Stays, dirs, files, history,
         AsksUpward, TypeOK
<1>22. ASSUME Healthy PROVE AsksUpward'
  BY <1>0, <1>22 DEF Healthy, At, RestOfJob, RestOfInstall, Stays, server, dirs, files, history
<1>23. ASSUME Unhealthy PROVE AsksUpward'
  BY <1>0, <1>23 DEF Unhealthy, At, RestOfJob, RestOfInstall, Stays, server, dirs, files, history
<1>24. ASSUME RollbackRename PROVE AsksUpward'
  BY <1>0, <1>24
     DEF RollbackRename, At, RestOfJob, RestOfInstall, RenameFails, Fault, NoFault, Stays, server, dirs, files,
         history
<1>25. ASSUME RollbackRestart PROVE AsksUpward'
  BY GotoFacts, JobEndsFacts, <1>25
     DEF RollbackRestart, At, StartServer, ForgetAll, Fault, NoFault, Stays, dirs, files,
         history, AsksUpward, TypeOK
<1>26. ASSUME AgentKilled PROVE AsksUpward'
  BY <1>0, <1>26 DEF AgentKilled, AgentDies, server, dirs, files
<1>27. ASSUME AgentRestartsItself PROVE AsksUpward'
  BY <1>0, <1>27 DEF AgentRestartsItself, AgentDies, server, dirs, files
<1>28. ASSUME AgentStarts PROVE AsksUpward'
  BY <1>0, <1>28 DEF AgentStarts, server, dirs, files, history, bounds
<1>29. ASSUME Age PROVE AsksUpward'
  BY <1>0, <1>29 DEF Age, server, dirs, agent, files, history, bounds
<1>30. CASE UNCHANGED vars
  BY <1>0, <1>30 DEF vars, server, dirs, agent, files, history, bounds
<1> QED BY <1>1, <1>2, <1>3, <1>4, <1>5, <1>6, <1>7, <1>8, <1>9, <1>10, <1>11, <1>12, <1>13, <1>14,
           <1>15, <1>16, <1>17, <1>18, <1>19, <1>20, <1>21, <1>22, <1>23, <1>24, <1>25, <1>26,
           <1>27, <1>28, <1>29, <1>30
           DEF Next, Staging, ServerLives, Installing

\* A job leads upward, and what it leaves behind is not below what runs.
LEMMA JobUpwardStep ==
  ASSUME SelfUpdateInv, [Next]_vars
  PROVE  JobUpward'
<1> USE DEF SelfUpdateInv
<1>0. ASSUME UNCHANGED <<behind, job, running, exe, before>> PROVE JobUpward'
  BY <1>0 DEF JobUpward
<1>a. ASSUME UNCHANGED <<behind, running, exe, before>>, job # None, job' = None \/ (job' # None /\ job'.to = job.to)
      PROVE  JobUpward'
  BY <1>a DEF JobUpward
<1>1. ASSUME Check PROVE JobUpward'
  BY <1>0, <1>1 DEF Check, dirs, agent, files, history, bounds
<1>2. ASSUME NEW v \in Versions, Ask(v) PROVE JobUpward'
  BY <1>0, <1>2 DEF Ask, dirs, agent, files, history, bounds
<1>3. ASSUME NEW v \in Versions, StartRefused(v) PROVE JobUpward'
  BY <1>0, <1>3 DEF StartRefused, dirs, agent, files, history, bounds
<1>4. ASSUME NEW v \in Versions, StartUpdate(v) PROVE JobUpward'
  BY <1>0, <1>4 DEF StartUpdate, dirs, agent, files, bounds
<1>5. ASSUME StageFails PROVE JobUpward'
  BY <1>0, <1>5 DEF StageFails, StagingEnds, agent, files, history, bounds
<1>6. ASSUME StageDownload PROVE JobUpward'
  BY <1>0, <1>6 DEF StageDownload, agent, files, history, bounds
<1>7. ASSUME StageWritten PROVE JobUpward'
  BY <1>0, <1>7 DEF StageWritten, agent, files, history, bounds
<1>8. ASSUME HandOffRefused PROVE JobUpward'
  BY <1>0, <1>8 DEF HandOffRefused, StagingEnds, dirs, agent, files, history, bounds
<1>9. ASSUME NEW b \in BOOLEAN, HandOff(b) PROVE JobUpward'
  <2>1. /\ stage.to \in Versions /\ job' = [to |-> stage.to, pc |-> "fetch"] /\ before' = exe
        /\ running' = running /\ exe' = exe /\ behind' = (running < exe) /\ running <= stage.to
    BY <1>9 DEF HandOff, files, AsksUpward, TypeOK, StageRecord
  <2>2. job'.to = stage.to /\ exe \in Nat /\ running \in Nat /\ stage.to \in Nat
    BY <2>1, SelfUpdateAssumption DEF TypeOK, Versions
  <2>3. behind' = FALSE => ~ (running < exe)
    BY <2>1, Zenon
  <2>4. behind' = FALSE => exe <= running
    BY <2>2, <2>3
  <2> QED BY <2>1, <2>2, <2>4 DEF JobUpward
<1>10. ASSUME ServerCrash PROVE JobUpward'
  BY <1>0, <1>10 DEF ServerCrash, agent, files, history
<1>11. ASSUME ServerStarts PROVE JobUpward'
  <2>1. job # None => exe \in {before, job.to}
    BY <1>11 DEF ServerStarts, JobFiles, Preparing, Installed, TypeOK, JobRecord, Missing
  <2>2. behind = FALSE /\ job # None => exe <= job.to /\ before <= job.to
    BY <2>1, SelfUpdateAssumption DEF JobUpward, TypeOK, JobRecord, Versions
  <2>3. running' = exe /\ exe' = exe /\ job' = job /\ before' = before /\ behind' = behind /\ exe \in Nat
    BY <1>11, SelfUpdateAssumption DEF ServerStarts, StartServer, agent, files, history, TypeOK
  <2> QED BY <2>2, <2>3 DEF JobUpward
<1>12. ASSUME NEW p \in Platforms, Adopt(p) PROVE JobUpward'
  BY <1>0, <1>12 DEF Adopt, server, agent, files, history, bounds
<1>13. ASSUME NEW old \in SUBSET (Versions \ {running}), Serve(old) PROVE JobUpward'
  BY <1>0, <1>13 DEF Serve, agent, files, history
<1>14. ASSUME Fetch PROVE JobUpward'
  <2>1. job # None /\ UNCHANGED <<behind, running, exe, before>> /\ (Goto("write") \/ job' = None)
    BY <1>14 DEF Fetch, At, JobEnds, RestOfJob, RestOfInstall, server, files, history
  <2> QED BY <1>a, <2>1, GotoFacts
<1>15. ASSUME WriteNew PROVE JobUpward'
  <2>1. job # None /\ UNCHANGED <<behind, running, exe, before>> /\ (Goto("written") \/ job' = None)
    BY <1>15 DEF WriteNew, At, JobEnds, RestOfJob, RestOfInstall, server, files, history
  <2> QED BY <1>a, <2>1, GotoFacts
<1>16. ASSUME WrittenNew PROVE JobUpward'
  <2>1. job # None /\ UNCHANGED <<behind, running, exe, before>> /\ Goto("verify")
    BY <1>16 DEF WrittenNew, At, JobEnds, RestOfJob, RestOfInstall, server, files, history
  <2> QED BY <1>a, <2>1, GotoFacts
<1>17. ASSUME Verify PROVE JobUpward'
  <2>1. job # None /\ UNCHANGED <<behind, running, exe, before>> /\ (Goto("remove") \/ job' = None)
    BY <1>17 DEF Verify, At, JobEnds, RestOfJob, RestOfInstall, server, files, history
  <2> QED BY <1>a, <2>1, GotoFacts
<1>18. ASSUME RemovePrevious PROVE JobUpward'
  <2>1. job # None /\ UNCHANGED <<behind, running, exe, before>> /\ Goto("keep")
    BY <1>18 DEF RemovePrevious, At, JobEnds, RestOfJob, RestOfInstall, server, files, history
  <2> QED BY <1>a, <2>1, GotoFacts
<1>19. ASSUME KeepPrevious PROVE JobUpward'
  <2>1. running' = running /\ before' = before /\ behind' = behind /\ job # None
    BY <1>19 DEF KeepPrevious, At, RestOfJob, RestOfInstall, server
  <2>2. CASE exe' = Missing /\ Goto("install")
    <3>1. job' # None /\ job'.to = job.to /\ exe' \notin Versions
      BY <2>1, <2>2, GotoFacts, SelfUpdateAssumption DEF Missing, Versions
    <3> QED BY <2>1, <3>1 DEF JobUpward
  <2>3. CASE exe' = exe /\ job' = None
    BY <1>a, <2>1, <2>3
  <2> QED BY <1>19, <2>2, <2>3 DEF KeepPrevious, JobEnds
<1>20. ASSUME InstallNew PROVE JobUpward'
  <2>1. running' = running /\ before' = before /\ behind' = behind /\ job # None /\ job.pc = "install"
    BY <1>20 DEF InstallNew, At, RestOfInstall, server
  <2>2. new = job.to /\ prev = before /\ running \in Nat /\ job.to \in Nat
    BY <2>1, SelfUpdateAssumption DEF JobFiles, TypeOK, JobRecord, Versions
  <2>3. CASE exe' = new /\ Goto("restart")
    <3>1. job' # None /\ job'.to = job.to
      BY <2>1, <2>3, GotoFacts
    <3>2. behind = FALSE => running <= job.to /\ before <= job.to
      BY <2>1 DEF JobUpward
    <3> QED BY <2>1, <2>2, <2>3, <3>1, <3>2 DEF JobUpward
  <2>4. CASE exe' = prev /\ job' = None
    BY <2>1, <2>2, <2>4 DEF JobUpward
  <2>5. CASE exe' = exe /\ job' = None
    BY <1>a, <2>1, <2>5
  <2> QED BY <1>20, <2>3, <2>4, <2>5 DEF InstallNew, JobEnds, files
<1>21. ASSUME RestartServer PROVE JobUpward'
  <2>1. job # None /\ exe = job.to /\ exe' = exe /\ before' = before /\ behind' = behind
    BY <1>21 DEF RestartServer, At, files, history, JobFiles, Installed
  <2>2. job' # None /\ job'.to = job.to
    BY <1>21, <2>1, GotoFacts DEF RestartServer
  <2>3. running' = exe \/ running' = running
    BY <1>21 DEF RestartServer, StartServer
  <2>4. job.to \in Nat /\ running \in Nat
    BY <2>1, SelfUpdateAssumption DEF TypeOK, JobRecord, Versions
  <2> QED BY <2>1, <2>2, <2>3, <2>4 DEF JobUpward
<1>22. ASSUME Healthy PROVE JobUpward'
  <2>1. job # None /\ UNCHANGED <<behind, running, exe, before>> /\ job' = None
    BY <1>22 DEF Healthy, At, JobEnds, RestOfJob, RestOfInstall, server, files, history
  <2> QED BY <1>a, <2>1, GotoFacts
<1>23. ASSUME Unhealthy PROVE JobUpward'
  <2>1. job # None /\ UNCHANGED <<behind, running, exe, before>> /\ Goto("rollback")
    BY <1>23 DEF Unhealthy, At, JobEnds, RestOfJob, RestOfInstall, server, files, history
  <2> QED BY <1>a, <2>1, GotoFacts
<1>24. ASSUME RollbackRename PROVE JobUpward'
  <2>1. running' = running /\ before' = before /\ behind' = behind /\ job # None /\ job.pc = "rollback"
    BY <1>24 DEF RollbackRename, At, RestOfJob, RestOfInstall, server
  <2>2. prev = before
    BY <2>1 DEF JobFiles, Installed
  <2>3. CASE exe' = prev /\ Goto("rerun")
    <3>1. job' # None /\ job'.to = job.to
      BY <2>1, <2>3, GotoFacts
    <3> QED BY <2>1, <2>2, <2>3, <3>1 DEF JobUpward
  <2>4. CASE exe' = exe /\ job' = None
    BY <1>a, <2>1, <2>4
  <2> QED BY <1>24, <2>3, <2>4 DEF RollbackRename, JobEnds, files
<1>25. ASSUME RollbackRestart PROVE JobUpward'
  <2>1. job' = None /\ exe' = exe /\ before' = before /\ behind' = behind /\ running' \in {exe, running}
    BY <1>25 DEF RollbackRestart, StartServer, JobEnds, files, history
  <2>2. exe \in Nat
    BY SelfUpdateAssumption DEF TypeOK
  <2> QED BY <2>1, <2>2 DEF JobUpward
<1>26. ASSUME AgentKilled \/ AgentRestartsItself PROVE JobUpward'
  <2>1. job' = None /\ UNCHANGED <<behind, running, exe, before>>
    BY <1>26 DEF AgentKilled, AgentRestartsItself, AgentDies, server, files
  <2> QED BY <2>1 DEF JobUpward
<1>27. ASSUME AgentStarts PROVE JobUpward'
  BY <1>0, <1>27 DEF AgentStarts, server, dirs, files, history, bounds
<1>28. ASSUME Age PROVE JobUpward'
  BY <1>0, <1>28 DEF Age, server, dirs, agent, files, history, bounds
<1>29. CASE UNCHANGED vars
  BY <1>0, <1>29 DEF vars, server, dirs, agent, files, history, bounds
<1> QED BY <1>1, <1>2, <1>3, <1>4, <1>5, <1>6, <1>7, <1>8, <1>9, <1>10, <1>11, <1>12, <1>13, <1>14,
           <1>15, <1>16, <1>17, <1>18, <1>19, <1>20, <1>21, <1>22, <1>23, <1>24, <1>25, <1>26,
           <1>27, <1>28, <1>29
           DEF Next, Staging, ServerLives, Installing

\* A server goes back to an older version only when the agent has put the one
\* before back, or in a job that a server behind the installed binary asked for.
LEMMA DowngradeStep ==
  ASSUME SelfUpdateInv, [Next]_vars, behind = FALSE, running' < running
  PROVE  running' = before
<1> USE DEF SelfUpdateInv
<1>0. running' # running
  BY SelfUpdateAssumption DEF TypeOK, Versions
<1>a. ASSUME running' = exe, exe # Missing PROVE running' = before
  BY <1>a, SelfUpdateAssumption DEF TypeOK, JobUpward, Versions, Missing
<1>1. ASSUME Check PROVE running' = before
  BY <1>0, <1>1 DEF Check, dirs, agent, files, history, bounds
<1>2. ASSUME NEW v \in Versions, Ask(v) PROVE running' = before
  BY <1>0, <1>2 DEF Ask, dirs, agent, files, history, bounds
<1>3. ASSUME NEW v \in Versions, StartRefused(v) PROVE running' = before
  BY <1>0, <1>3 DEF StartRefused, dirs, agent, files, history, bounds
<1>4. ASSUME NEW v \in Versions, StartUpdate(v) PROVE running' = before
  BY <1>0, <1>4 DEF StartUpdate, dirs, agent, files, bounds
<1>5. ASSUME StageFails PROVE running' = before
  BY <1>0, <1>5 DEF StageFails, StagingEnds, agent, files, history, bounds
<1>6. ASSUME StageDownload PROVE running' = before
  BY <1>0, <1>6 DEF StageDownload, agent, files, history, bounds
<1>7. ASSUME StageWritten PROVE running' = before
  BY <1>0, <1>7 DEF StageWritten, agent, files, history, bounds
<1>8. ASSUME HandOffRefused PROVE running' = before
  BY <1>0, <1>8 DEF HandOffRefused, StagingEnds, dirs, agent, files, history, bounds
<1>9. ASSUME NEW b \in BOOLEAN, HandOff(b) PROVE running' = before
  BY <1>0, <1>9 DEF HandOff, dirs, files, bounds
<1>10. ASSUME ServerCrash PROVE running' = before
  BY <1>0, <1>10 DEF ServerCrash, ForgetAll, dirs, agent, files, history
<1>11. ASSUME ServerStarts PROVE running' = before
  BY <1>0, <1>a, <1>11 DEF ServerStarts, StartServer
<1>12. ASSUME NEW p \in Platforms, Adopt(p) PROVE running' = before
  BY <1>0, <1>12 DEF Adopt, server, agent, files, history, bounds
<1>13. ASSUME NEW old \in SUBSET (Versions \ {running}), Serve(old) PROVE running' = before
  BY <1>0, <1>13 DEF Serve, agent, files, history, bounds
<1>14. ASSUME Fetch PROVE running' = before
  BY <1>0, <1>14 DEF Fetch, At, RestOfJob, RestOfInstall, Stays, server, dirs, files, history
<1>15. ASSUME WriteNew PROVE running' = before
  BY <1>0, <1>15 DEF WriteNew, At, RestOfJob, RestOfInstall, Stays, server, dirs, history
<1>16. ASSUME WrittenNew PROVE running' = before
  BY <1>0, <1>16 DEF WrittenNew, At, RestOfJob, RestOfInstall, Stays, server, dirs, history
<1>17. ASSUME Verify PROVE running' = before
  BY <1>0, <1>17 DEF Verify, At, RestOfJob, RestOfInstall, Stays, server, dirs, history
<1>18. ASSUME RemovePrevious PROVE running' = before
  BY <1>0, <1>18 DEF RemovePrevious, At, RestOfJob, RestOfInstall, Stays, server, dirs, history
<1>19. ASSUME KeepPrevious PROVE running' = before
  BY <1>0, <1>19
     DEF KeepPrevious, At, RestOfJob, RestOfInstall, RenameFails, Fault, NoFault, Stays, server, dirs, history
<1>20. ASSUME InstallNew PROVE running' = before
  BY <1>0, <1>20
     DEF InstallNew, At, RestOfJob, RestOfInstall, RenameFails, Fault, NoFault, Stays, server, dirs, files,
         history
<1>21. ASSUME RestartServer PROVE running' = before
  BY <1>0, <1>a, <1>21 DEF RestartServer, StartServer
<1>22. ASSUME Healthy PROVE running' = before
  BY <1>0, <1>22 DEF Healthy, At, RestOfJob, RestOfInstall, Stays, server, dirs, files, history
<1>23. ASSUME Unhealthy PROVE running' = before
  BY <1>0, <1>23 DEF Unhealthy, At, RestOfJob, RestOfInstall, Stays, server, dirs, files, history
<1>24. ASSUME RollbackRename PROVE running' = before
  BY <1>0, <1>24
     DEF RollbackRename, At, RestOfJob, RestOfInstall, RenameFails, Fault, NoFault, Stays, server, dirs, files,
         history
<1>25. ASSUME RollbackRestart PROVE running' = before
  BY <1>0, <1>a, <1>25 DEF RollbackRestart, StartServer
<1>26. ASSUME AgentKilled PROVE running' = before
  BY <1>0, <1>26 DEF AgentKilled, AgentDies, server, dirs, files
<1>27. ASSUME AgentRestartsItself PROVE running' = before
  BY <1>0, <1>27 DEF AgentRestartsItself, AgentDies, server, dirs, files
<1>28. ASSUME AgentStarts PROVE running' = before
  BY <1>0, <1>28 DEF AgentStarts, server, dirs, files, history, bounds
<1>29. ASSUME Age PROVE running' = before
  BY <1>0, <1>29 DEF Age, server, dirs, agent, files, history, bounds
<1>30. CASE UNCHANGED vars
  BY <1>0, <1>30 DEF vars, server
<1> QED BY <1>1, <1>2, <1>3, <1>4, <1>5, <1>6, <1>7, <1>8, <1>9, <1>10, <1>11, <1>12, <1>13, <1>14,
           <1>15, <1>16, <1>17, <1>18, <1>19, <1>20, <1>21, <1>22, <1>23, <1>24, <1>25, <1>26,
           <1>27, <1>28, <1>29, <1>30
           DEF Next, Staging, ServerLives, Installing

-----------------------------------------------------------------------------
(* The results *)

\* The invariant holds of a fresh server.
LEMMA SelfUpdateInit == Init => SelfUpdateInv
<1> SUFFICES ASSUME Init PROVE SelfUpdateInv
  OBVIOUS
<1> USE DEF Init
<1>1. 1 \in Versions /\ 1 \in 0..MaxVersion /\ 0 \in 0..MaxVersion /\ 0 \in 0..Cut /\ 0 \in 0..0
  BY SelfUpdateAssumption DEF Versions, Cut
<1>2. ServerType /\ AgentType /\ FilesType /\ CountsType
  BY <1>1 DEF ServerType, AgentType, FilesType, CountsType, Missing
<1>3. staged \in [Versions -> [Platforms -> {"none", "cut", "whole"}]]
  OBVIOUS
<1>4. bin \in [Platforms -> [version : Versions, whole : BOOLEAN]]
  BY <1>1
<1>5. TypeOK
  BY <1>2, <1>3, <1>4, TypeParts DEF DirsType
<1>6. BusyWithJob /\ JobFiles /\ RecordTells /\ StageSound /\ NewestAsked /\ StagedApart /\ AsksUpward
  BY DEF BusyWithJob, JobFiles, RecordTells, StageSound, NewestAsked, StagedApart, AsksUpward
<1>7. BinaryInstalled
  BY DEF BinaryInstalled, Missing, At
<1>8. StartableWhole /\ ServedWhole
  BY DEF StartableWhole, ServedWhole
<1>9. JobUpward /\ GapLasts
  BY DEF JobUpward, GapLasts
<1> QED BY <1>5, <1>6, <1>7, <1>8, <1>9 DEF SelfUpdateInv

\* Every step keeps the invariant.
LEMMA SelfUpdateStep == SelfUpdateInv /\ [Next]_vars => SelfUpdateInv'
BY TypeStep, BusyWithJobStep, JobFilesStep, RecordTellsStep, BinaryInstalledStep, StageSoundStep,
   NewestAskedStep, StagedApartStep, StartableWholeStep, ServedWholeStep, AsksUpwardStep, JobUpwardStep
   DEF SelfUpdateInv

\* The invariant holds in every behaviour.
LEMMA SelfUpdateInvariant == Spec => []SelfUpdateInv
BY SelfUpdateInit, SelfUpdateStep, PTL DEF Spec

\* The variables keep their types through every crash and retry.
THEOREM SelfUpdateTypeCorrect == Spec => []TypeOK
<1>1. SelfUpdateInv => TypeOK
  BY DEF SelfUpdateInv
<1> QED BY <1>1, SelfUpdateInvariant, PTL

\* The record of an update that is done or rolled back names the binary that is
\* installed, whatever was killed or failed since (RecordTells).
THEOREM RecordAlwaysTells == Spec => []RecordTells
<1>1. SelfUpdateInv => RecordTells
  BY DEF SelfUpdateInv
<1> QED BY <1>1, SelfUpdateInvariant, PTL

\* BinPath is empty inside an install and, for good, after one that was killed
\* there or could not undo its first rename; never else (BinaryInstalled).
THEOREM AlwaysABinary == Spec => []BinaryInstalled
<1>1. SelfUpdateInv => BinaryInstalled
  BY DEF SelfUpdateInv
<1> QED BY <1>1, SelfUpdateInvariant, PTL

\* adoptStaged hands out whole client binaries only, unless a version was
\* staged that could be started meanwhile (ServedWhole).
THEOREM AlwaysServedWhole == Spec => []ServedWhole
<1>1. SelfUpdateInv => ServedWhole
  BY DEF SelfUpdateInv
<1> QED BY <1>1, SelfUpdateInvariant, PTL

\* The server never runs an older version than before but the one the agent has
\* put back, unless the job came from a server that was itself behind the
\* installed binary (NoDowngrade).
THEOREM NeverDowngrades == Spec => NoDowngrade
<1>1. SelfUpdateInv /\ [Next]_vars => [running' < running => running' = before \/ behind]_vars
  <2> SUFFICES ASSUME SelfUpdateInv, [Next]_vars, running' < running, ~ behind
               PROVE  running' = before
    OBVIOUS
  <2>1. behind = FALSE
    BY DEF SelfUpdateInv, TypeOK
  <2> QED BY <2>1, DowngradeStep
<1> QED BY <1>1, SelfUpdateInvariant, PTL DEF Spec, NoDowngrade
=============================================================================
