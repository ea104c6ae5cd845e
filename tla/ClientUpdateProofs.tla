-------------------------- MODULE ClientUpdateProofs --------------------------
(***************************************************************************)
(* What the update of a client keeps, for any number of sessions, pushes,  *)
(* crashes and replaced servers.                                           *)
(*                                                                         *)
(* The executable is intact because updates share one temporary file and   *)
(* never overlap.  That "done" means running rests on more: that all the   *)
(* client is at leads to the version of the server, and that what a        *)
(* session said of that version when it registered is still so when its    *)
(* noteReconnect comes.                                                    *)
(***************************************************************************)
EXTENDS ClientUpdate, TLAPS

\* Updates do not overlap: the flag is set while a goroutine runs, and there is
\* only one.
OneJob ==
  /\ \A j \in Jobs : jobs[j] # None => updating = TRUE
  /\ \A i, j \in Jobs : jobs[i] # None /\ jobs[j] # None => i = j

\* So the temporary file is still the one that was checked when it is installed.
InstallsChecked == \A j \in Jobs : At(j, "install") => tmp = jobs[j].target

\* The record and the messages under way are of the server that runs now.
TargetsCurrent ==
  /\ rec # None => rec.target = version
  /\ \A m \in down : m.target = version

\* Unless an older update was left over when the server was replaced, all that
\* the client is at leads to the server's version, and what a session said of
\* that version is still so.
LeadsToVersion ==
  leftover = FALSE =>
    /\ \A j \in Jobs : jobs[j] # None => jobs[j].target = version /\ proc # version
    /\ exe \in {proc, version}
    /\ \A s \in noting : s.hello = version => proc = version
    /\ rec # None /\ rec.state = "done" => proc = version

ClientUpdateInv ==
  TypeOK /\ OneJob /\ InstallsChecked /\ ExeIntact /\ TargetsCurrent /\ LeadsToVersion

-----------------------------------------------------------------------------
(* The types *)

\* The types, variable group by variable group.
ServerType ==
  /\ version \in Versions /\ served \in Contents
  /\ rec \in Record \cup {None}
  /\ checked \in 0..Callers /\ read \subseteq [sess : Sessions, content : Contents]
SessionType ==
  /\ n \in 0..MaxSessions /\ conn \in 0..n
  /\ reg \in [id : 1..n, hello : Versions] \cup {None} /\ noting \subseteq [id : 1..n, hello : Versions]
NetType ==
  /\ down \subseteq Message
  /\ up \in [Sessions -> Nat]
ClientType ==
  /\ proc \in Versions /\ exe \in Contents /\ tmp \in Contents \cup {Missing}
  /\ jobs \in [Jobs -> Job \cup {None}]
CountsType == updating \in BOOLEAN /\ leftover \in BOOLEAN /\ pushes \in Nat /\ events \in Nat

\* The server's variables keep their types.
LEMMA ServerTypeStep ==
  ASSUME ClientUpdateInv, [Next]_vars
  PROVE  ServerType'
<1> USE DEF ClientUpdateInv
<1>0. ASSUME UNCHANGED <<version, served, rec, checked, read>> PROVE ServerType'
  BY <1>0 DEF ServerType, TypeOK
<1>1. ASSUME Expire PROVE ServerType'
  <2>1. rec' \in Record
    BY <1>1 DEF Expire, Settle, Pending, TypeOK, Record
  <2> QED BY <2>1, <1>1 DEF Expire, ServerType, TypeOK
<1>2. ASSUME Forget PROVE ServerType'
  BY <1>2 DEF Forget, net, client, bounds, ServerType, TypeOK
<1>3. ASSUME PushCheck PROVE ServerType'
  <2>1. checked' \in 0..Callers
    BY ClientUpdateAssumption, <1>3 DEF PushCheck, TypeOK
  <2> QED BY <2>1, <1>3 DEF PushCheck, ServerType, TypeOK
<1>4. ASSUME PushRead PROVE ServerType'
  <2>1. checked' \in 0..Callers
    BY ClientUpdateAssumption, <1>4 DEF PushRead, TypeOK
  <2>2. reg # None => [sess |-> reg.id, content |-> Info] \in [sess : Sessions, content : Contents]
    BY ClientUpdateAssumption DEF TypeOK, Sessions, Info
  <2>3. read' \subseteq [sess : Sessions, content : Contents]
    BY <2>2, <1>4 DEF PushRead, TypeOK
  <2> QED BY <2>1, <2>3, <1>4 DEF PushRead, ServerType, TypeOK
<1>5. ASSUME NEW r \in read, PushWrite(r) PROVE ServerType'
  <2>1. rec' \in Record
    BY <1>5 DEF PushWrite, TypeOK, Record
  <2> QED BY <2>1, <1>5 DEF PushWrite, ServerType, TypeOK
<1>6. ASSUME NEW s \in Sessions, HandleFailed(s) PROVE ServerType'
  <2>1. rec' \in Record \cup {None}
    BY <1>6 DEF HandleFailed, Settle, Pending, TypeOK, Record
  <2> QED BY <2>1, <1>6 DEF HandleFailed, ServerType, TypeOK
<1>7. ASSUME NEW x \in noting, NoteReconnect(x) PROVE ServerType'
  <2>1. rec' \in Record \cup {None}
    BY <1>7 DEF NoteReconnect, Settle, Pending, TypeOK, Record
  <2> QED BY <2>1, <1>7 DEF NoteReconnect, ServerType, TypeOK
<1>7a. ASSUME NEW x \in noting, HelloFails(x) PROVE ServerType'
  BY <1>0, <1>7a DEF HelloFails, net, client, bounds
<1>8. ASSUME DropSession PROVE ServerType'
  BY <1>0, <1>8 DEF DropSession, net, client, bounds
<1>9. ASSUME Connect PROVE ServerType'
  BY <1>0, <1>9 DEF Connect, client, bounds
<1>10. ASSUME Break PROVE ServerType'
  BY <1>0, <1>10 DEF Break, srv, client, bounds
<1>11. ASSUME NEW c \in Contents, ServedChanges(c) PROVE ServerType'
  BY <1>11 DEF ServedChanges, Event, net, client, ServerType, TypeOK
<1>12. ASSUME NEW v \in Versions, ServerRestarts(v) PROVE ServerType'
  <2>1. 0 \in 0..Callers
    BY ClientUpdateAssumption
  <2> QED BY <2>1, <1>12 DEF ServerRestarts, ServerType, TypeOK
<1>13. ASSUME NEW m \in down, RefuseMessage(m) PROVE ServerType'
  BY <1>0, <1>13 DEF RefuseMessage, SendFailed, srv, client, bounds
<1>14. ASSUME NEW m \in down, TakeMessage(m) PROVE ServerType'
  BY <1>0, <1>14 DEF TakeMessage, JobStarts, SendFailed, Quiet, srv, bounds
<1>15. ASSUME NEW j \in Jobs, OpenDownload(j) PROVE ServerType'
  BY <1>0, <1>15 DEF OpenDownload, At, Goto, JobFails, Quiet, RestOfJob, srv, bounds
<1>16. ASSUME NEW j \in Jobs, CopyDownload(j) PROVE ServerType'
  BY <1>0, <1>16 DEF CopyDownload, At, Goto, JobFails, Quiet, RestOfJob, srv, bounds
<1>17. ASSUME NEW j \in Jobs, VerifyBinary(j) PROVE ServerType'
  BY <1>0, <1>17 DEF VerifyBinary, At, Goto, JobFails, Quiet, RestOfJob, srv, bounds
<1>18. ASSUME NEW j \in Jobs, InstallBinary(j) PROVE ServerType'
  BY <1>0, <1>18 DEF InstallBinary, At, Goto, JobFails, Quiet, RestOfJob, srv, bounds
<1>19. ASSUME NEW j \in Jobs, Restart(j) PROVE ServerType'
  BY <1>0, <1>19 DEF Restart, At, NewProcess, JobFails, Quiet, srv, bounds
<1>20. ASSUME ClientCrash PROVE ServerType'
  BY <1>0, <1>20 DEF ClientCrash, Event, NewProcess, Quiet, srv
<1>21. CASE UNCHANGED vars
  BY <1>0, <1>21 DEF vars, srv, net, client, bounds
<1> QED BY <1>1, <1>2, <1>3, <1>4, <1>5, <1>6, <1>7, <1>7a, <1>8, <1>9, <1>10, <1>11, <1>12, <1>13, <1>14,
           <1>15, <1>16, <1>17, <1>18, <1>19, <1>20, <1>21
           DEF Next, JobStep

\* So do the sessions.
LEMMA SessionTypeStep ==
  ASSUME ClientUpdateInv, [Next]_vars
  PROVE  SessionType'
<1> USE DEF ClientUpdateInv
<1>0. ASSUME UNCHANGED <<n, conn, reg, noting>> PROVE SessionType'
  BY <1>0 DEF SessionType, TypeOK
<1>1. ASSUME Expire PROVE SessionType'
  BY <1>0, <1>1 DEF Expire, Settle, net, client, bounds
<1>2. ASSUME Forget PROVE SessionType'
  BY <1>0, <1>2 DEF Forget, net, client, bounds
<1>3. ASSUME PushCheck PROVE SessionType'
  BY <1>0, <1>3 DEF PushCheck, net, client, bounds
<1>4. ASSUME PushRead PROVE SessionType'
  BY <1>0, <1>4 DEF PushRead, net, client, bounds
<1>5. ASSUME NEW r \in read, PushWrite(r) PROVE SessionType'
  BY <1>0, <1>5 DEF PushWrite, client
<1>6. ASSUME NEW s \in Sessions, HandleFailed(s) PROVE SessionType'
  BY <1>0, <1>6 DEF HandleFailed, Settle, client, bounds
<1>7. ASSUME NEW x \in noting, NoteReconnect(x) PROVE SessionType'
  BY ClientUpdateAssumption, <1>7
     DEF NoteReconnect, Settle, net, client, bounds, SessionType, TypeOK, Missing
<1>7a. ASSUME NEW x \in noting, HelloFails(x) PROVE SessionType'
  BY ClientUpdateAssumption, <1>7a DEF HelloFails, net, client, bounds, SessionType, TypeOK, Missing
<1>8. ASSUME DropSession PROVE SessionType'
  BY ClientUpdateAssumption, <1>8 DEF DropSession, net, client, bounds, SessionType, TypeOK, Missing
<1>9. ASSUME Connect PROVE SessionType'
  <2>1. n' \in 0..MaxSessions /\ conn' \in 0..n' /\ n + 1 \in 1..n' /\ 1..n \subseteq 1..n'
    BY ClientUpdateAssumption, <1>9 DEF Connect, TypeOK
  <2>2. [id |-> n + 1, hello |-> proc] \in [id : 1..n', hello : Versions]
    BY <2>1 DEF TypeOK
  <2>3. noting \subseteq [id : 1..n', hello : Versions]
    BY <2>1 DEF TypeOK
  <2> QED BY <2>1, <2>2, <2>3, <1>9 DEF Connect, SessionType
<1>10. ASSUME Break PROVE SessionType'
  BY ClientUpdateAssumption, <1>10 DEF Break, srv, client, bounds, SessionType, TypeOK, Missing
<1>11. ASSUME NEW c \in Contents, ServedChanges(c) PROVE SessionType'
  BY <1>0, <1>11 DEF ServedChanges, Event, net, client
<1>12. ASSUME NEW v \in Versions, ServerRestarts(v) PROVE SessionType'
  BY ClientUpdateAssumption, <1>12 DEF ServerRestarts, Event, SessionType, TypeOK, Missing
<1>13. ASSUME NEW m \in down, RefuseMessage(m) PROVE SessionType'
  BY <1>0, <1>13 DEF RefuseMessage, SendFailed, srv, client, bounds
<1>14. ASSUME NEW m \in down, TakeMessage(m) PROVE SessionType'
  BY <1>0, <1>14 DEF TakeMessage, JobStarts, SendFailed, Quiet, srv, bounds
<1>15. ASSUME NEW j \in Jobs, OpenDownload(j) PROVE SessionType'
  BY <1>0, <1>15 DEF OpenDownload, At, Goto, JobFails, Quiet, RestOfJob, srv, bounds
<1>16. ASSUME NEW j \in Jobs, CopyDownload(j) PROVE SessionType'
  BY <1>0, <1>16 DEF CopyDownload, At, Goto, JobFails, Quiet, RestOfJob, srv, bounds
<1>17. ASSUME NEW j \in Jobs, VerifyBinary(j) PROVE SessionType'
  BY <1>0, <1>17 DEF VerifyBinary, At, Goto, JobFails, Quiet, RestOfJob, srv, bounds
<1>18. ASSUME NEW j \in Jobs, InstallBinary(j) PROVE SessionType'
  BY <1>0, <1>18 DEF InstallBinary, At, Goto, JobFails, Quiet, RestOfJob, srv, bounds
<1>19. ASSUME NEW j \in Jobs, Restart(j) PROVE SessionType'
  BY ClientUpdateAssumption, <1>19
     DEF Restart, At, NewProcess, JobFails, Quiet, srv, bounds, SessionType, TypeOK, Missing
<1>20. ASSUME ClientCrash PROVE SessionType'
  BY ClientUpdateAssumption, <1>20
     DEF ClientCrash, Event, NewProcess, Quiet, srv, SessionType, TypeOK, Missing
<1>21. CASE UNCHANGED vars
  BY <1>0, <1>21 DEF vars, srv, net, client, bounds
<1> QED BY <1>1, <1>2, <1>3, <1>4, <1>5, <1>6, <1>7, <1>7a, <1>8, <1>9, <1>10, <1>11, <1>12, <1>13, <1>14,
           <1>15, <1>16, <1>17, <1>18, <1>19, <1>20, <1>21
           DEF Next, JobStep

\* So do the messages under way.
LEMMA NetTypeStep ==
  ASSUME ClientUpdateInv, [Next]_vars
  PROVE  NetType'
<1> USE DEF ClientUpdateInv
<1>0. ASSUME UNCHANGED <<down, up>> PROVE NetType'
  BY <1>0 DEF NetType, TypeOK
<1>1. ASSUME Expire PROVE NetType'
  BY <1>0, <1>1 DEF Expire, Settle, net, client, bounds
<1>2. ASSUME Forget PROVE NetType'
  BY <1>0, <1>2 DEF Forget, net, client, bounds
<1>3. ASSUME PushCheck PROVE NetType'
  BY <1>0, <1>3 DEF PushCheck, net, client, bounds
<1>4. ASSUME PushRead PROVE NetType'
  BY <1>0, <1>4 DEF PushRead, net, client, bounds
<1>5. ASSUME NEW r \in read, PushWrite(r) PROVE NetType'
  <2>1. r.sess \in Sessions /\ r.content \in Contents
    BY DEF TypeOK
  <2>2. pushes + 1 \in Jobs
    BY ClientUpdateAssumption, <1>5 DEF PushWrite, TypeOK, Jobs
  <2>3. r.sess = conn => [sess |-> conn, target |-> version, content |-> r.content, id |-> pushes + 1] \in Message
    BY <2>1, <2>2 DEF TypeOK, Message
  <2> QED BY <2>3, <1>5 DEF PushWrite, NetType, TypeOK
<1>6. ASSUME NEW s \in Sessions, HandleFailed(s) PROVE NetType'
  BY <1>6 DEF HandleFailed, Settle, client, bounds, NetType, TypeOK
<1>7. ASSUME NEW x \in noting, NoteReconnect(x) PROVE NetType'
  BY <1>0, <1>7 DEF NoteReconnect, Settle, net, client, bounds
<1>7a. ASSUME NEW x \in noting, HelloFails(x) PROVE NetType'
  BY <1>0, <1>7a DEF HelloFails, net, client, bounds
<1>8. ASSUME DropSession PROVE NetType'
  BY <1>0, <1>8 DEF DropSession, net, client, bounds
<1>9. ASSUME Connect PROVE NetType'
  BY <1>0, <1>9 DEF Connect, client, bounds
<1>10. ASSUME Break PROVE NetType'
  BY <1>10 DEF Break, srv, client, bounds, NetType, TypeOK
<1>11. ASSUME NEW c \in Contents, ServedChanges(c) PROVE NetType'
  BY <1>0, <1>11 DEF ServedChanges, Event, net, client
<1>12. ASSUME NEW v \in Versions, ServerRestarts(v) PROVE NetType'
  BY <1>12 DEF ServerRestarts, Event, NetType, TypeOK
<1>13. ASSUME NEW m \in down, RefuseMessage(m) PROVE NetType'
  <2>1. m.sess \in Sessions
    BY DEF TypeOK, Message
  <2> QED BY <2>1, <1>13 DEF RefuseMessage, SendFailed, NetType, TypeOK
<1>14. ASSUME NEW m \in down, TakeMessage(m) PROVE NetType'
  <2>1. m.sess \in Sessions
    BY DEF TypeOK, Message
  <2> QED BY <2>1, <1>14 DEF TakeMessage, JobStarts, SendFailed, Quiet, NetType, TypeOK
<1>15. ASSUME NEW j \in Jobs, OpenDownload(j) PROVE NetType'
  <2>1. jobs[j].sess \in Sessions
    BY <1>15 DEF OpenDownload, At, TypeOK, Job
  <2>2. up' \in [Sessions -> Nat]
    BY <2>1, <1>15 DEF OpenDownload, JobFails, SendFailed, Quiet, TypeOK
  <2> QED BY <2>2, <1>15 DEF OpenDownload, RestOfJob, NetType, TypeOK
<1>16. ASSUME NEW j \in Jobs, CopyDownload(j) PROVE NetType'
  <2>1. jobs[j].sess \in Sessions
    BY <1>16 DEF CopyDownload, At, TypeOK, Job
  <2>2. up' \in [Sessions -> Nat]
    BY <2>1, <1>16 DEF CopyDownload, JobFails, SendFailed, Quiet, TypeOK
  <2> QED BY <2>2, <1>16 DEF CopyDownload, RestOfJob, NetType, TypeOK
<1>17. ASSUME NEW j \in Jobs, VerifyBinary(j) PROVE NetType'
  <2>1. jobs[j].sess \in Sessions
    BY <1>17 DEF VerifyBinary, At, TypeOK, Job
  <2>2. up' \in [Sessions -> Nat]
    BY <2>1, <1>17 DEF VerifyBinary, JobFails, SendFailed, Quiet, TypeOK
  <2> QED BY <2>2, <1>17 DEF VerifyBinary, RestOfJob, NetType, TypeOK
<1>18. ASSUME NEW j \in Jobs, InstallBinary(j) PROVE NetType'
  <2>1. jobs[j].sess \in Sessions
    BY <1>18 DEF InstallBinary, At, TypeOK, Job
  <2>2. up' \in [Sessions -> Nat]
    BY <2>1, <1>18 DEF InstallBinary, JobFails, SendFailed, Quiet, TypeOK
  <2> QED BY <2>2, <1>18 DEF InstallBinary, RestOfJob, NetType, TypeOK
<1>19. ASSUME NEW j \in Jobs, Restart(j) PROVE NetType'
  <2>1. jobs[j].sess \in Sessions
    BY <1>19 DEF Restart, At, TypeOK, Job
  <2>2. up' \in [Sessions -> Nat]
    BY <2>1, <1>19 DEF Restart, JobFails, SendFailed, Quiet, TypeOK
  <2> QED BY <2>2, <1>19 DEF Restart, RestOfJob, NetType, TypeOK
<1>20. ASSUME ClientCrash PROVE NetType'
  BY <1>20 DEF ClientCrash, Event, NewProcess, Quiet, srv, NetType, TypeOK
<1>21. CASE UNCHANGED vars
  BY <1>0, <1>21 DEF vars, srv, net, client, bounds
<1> QED BY <1>1, <1>2, <1>3, <1>4, <1>5, <1>6, <1>7, <1>7a, <1>8, <1>9, <1>10, <1>11, <1>12, <1>13, <1>14,
           <1>15, <1>16, <1>17, <1>18, <1>19, <1>20, <1>21
           DEF Next, JobStep

\* Goto moves one job, and JobFails ends it.
LEMMA JobMoves ==
  ASSUME TypeOK, NEW j \in Jobs, jobs[j] # None,
         NEW pc \in {"open", "copy", "verify", "install", "restart"}, Goto(j, pc)
  PROVE  /\ jobs' \in [Jobs -> Job \cup {None}]
         /\ jobs'[j].target = jobs[j].target /\ jobs'[j].pc = pc
         /\ \A i \in Jobs : i # j => jobs'[i] = jobs[i]
BY DEF Goto, TypeOK, Job

\* A goroutine that fails ends and clears the updating flag; the others go on.
LEMMA JobIsGone ==
  ASSUME TypeOK, NEW j \in Jobs, JobFails(j)
  PROVE  /\ jobs' \in [Jobs -> Job \cup {None}] /\ jobs'[j] = None
         /\ \A i \in Jobs : i # j => jobs'[i] = jobs[i]
         /\ updating' = FALSE
BY DEF JobFails, TypeOK

\* So does the client.
LEMMA ClientTypeStep ==
  ASSUME ClientUpdateInv, [Next]_vars
  PROVE  ClientType'
<1> USE DEF ClientUpdateInv
<1>0. ASSUME UNCHANGED <<proc, exe, tmp, jobs>> PROVE ClientType'
  BY <1>0 DEF ClientType, TypeOK
<1>1. ASSUME Expire PROVE ClientType'
  BY <1>0, <1>1 DEF Expire, Settle, net, client, bounds
<1>2. ASSUME Forget PROVE ClientType'
  BY <1>0, <1>2 DEF Forget, net, client, bounds
<1>3. ASSUME PushCheck PROVE ClientType'
  BY <1>0, <1>3 DEF PushCheck, net, client, bounds
<1>4. ASSUME PushRead PROVE ClientType'
  BY <1>0, <1>4 DEF PushRead, net, client, bounds
<1>5. ASSUME NEW r \in read, PushWrite(r) PROVE ClientType'
  BY <1>0, <1>5 DEF PushWrite, client
<1>6. ASSUME NEW s \in Sessions, HandleFailed(s) PROVE ClientType'
  BY <1>0, <1>6 DEF HandleFailed, Settle, client, bounds
<1>7. ASSUME NEW x \in noting, NoteReconnect(x) PROVE ClientType'
  BY <1>0, <1>7 DEF NoteReconnect, Settle, net, client, bounds
<1>7a. ASSUME NEW x \in noting, HelloFails(x) PROVE ClientType'
  BY <1>0, <1>7a DEF HelloFails, net, client, bounds
<1>8. ASSUME DropSession PROVE ClientType'
  BY <1>0, <1>8 DEF DropSession, net, client, bounds
<1>9. ASSUME Connect PROVE ClientType'
  BY <1>0, <1>9 DEF Connect, client, bounds
<1>10. ASSUME Break PROVE ClientType'
  BY <1>0, <1>10 DEF Break, srv, client, bounds
<1>11. ASSUME NEW c \in Contents, ServedChanges(c) PROVE ClientType'
  BY <1>0, <1>11 DEF ServedChanges, Event, net, client
<1>12. ASSUME NEW v \in Versions, ServerRestarts(v) PROVE ClientType'
  BY <1>0, <1>12 DEF ServerRestarts, Event
<1>13. ASSUME NEW m \in down, RefuseMessage(m) PROVE ClientType'
  BY <1>0, <1>13 DEF RefuseMessage, SendFailed, srv, client, bounds
<1>14. ASSUME NEW m \in down, TakeMessage(m) PROVE ClientType'
  <2>1. [sess |-> m.sess, target |-> m.target, content |-> m.content, pc |-> "open"] \in Job /\ m.id \in Jobs
    BY DEF TypeOK, Message, Job
  <2> QED BY <2>1, <1>14 DEF TakeMessage, JobStarts, ClientType, TypeOK
<1>15. ASSUME NEW j \in Jobs, OpenDownload(j) PROVE ClientType'
  <2>1. jobs[j] # None /\ jobs' \in [Jobs -> Job \cup {None}]
    BY <1>15, JobMoves, JobIsGone DEF OpenDownload, At
  <2> QED BY <2>1, <1>15 DEF OpenDownload, ClientType, Contents, TypeOK
<1>16. ASSUME NEW j \in Jobs, CopyDownload(j) PROVE ClientType'
  <2>1. jobs[j] # None /\ jobs' \in [Jobs -> Job \cup {None}]
    BY <1>16, JobMoves, JobIsGone DEF CopyDownload, At
  <2> QED BY <2>1, <1>16 DEF CopyDownload, ClientType, Contents, TypeOK
<1>17. ASSUME NEW j \in Jobs, VerifyBinary(j) PROVE ClientType'
  <2>1. jobs[j] # None /\ jobs' \in [Jobs -> Job \cup {None}]
    BY <1>17, JobMoves, JobIsGone DEF VerifyBinary, At
  <2> QED BY <2>1, <1>17 DEF VerifyBinary, ClientType, Contents, TypeOK
<1>18. ASSUME NEW j \in Jobs, InstallBinary(j) PROVE ClientType'
  <2>1. jobs[j] # None /\ jobs' \in [Jobs -> Job \cup {None}]
    BY <1>18, JobMoves, JobIsGone DEF InstallBinary, At
  <2>2. tmp' \in Contents \cup {Missing} /\ exe' \in Contents
    BY <1>18 DEF InstallBinary, TypeOK
  <2> QED BY <2>1, <2>2, <1>18 DEF InstallBinary, ClientType, TypeOK
<1>19. ASSUME NEW j \in Jobs, Restart(j) PROVE ClientType'
  <2>1. jobs' \in [Jobs -> Job \cup {None}]
    BY <1>19, JobIsGone DEF Restart, NewProcess
  <2>2. proc' \in Versions /\ exe' \in Contents /\ tmp' \in Contents \cup {Missing}
    BY <1>19 DEF Restart, NewProcess, ExeIntact, TypeOK
  <2> QED BY <2>1, <2>2 DEF ClientType
<1>20. ASSUME ClientCrash PROVE ClientType'
  <2>1. jobs' \in [Jobs -> Job \cup {None}]
    BY <1>20 DEF ClientCrash, NewProcess
  <2> QED BY <2>1, <1>20 DEF ClientCrash, NewProcess, ClientType, TypeOK
<1>21. CASE UNCHANGED vars
  BY <1>0, <1>21 DEF vars, srv, net, client, bounds
<1> QED BY <1>1, <1>2, <1>3, <1>4, <1>5, <1>6, <1>7, <1>7a, <1>8, <1>9, <1>10, <1>11, <1>12, <1>13, <1>14,
           <1>15, <1>16, <1>17, <1>18, <1>19, <1>20, <1>21
           DEF Next, JobStep

\* So do the flags and the counters.
LEMMA CountsTypeStep ==
  ASSUME ClientUpdateInv, [Next]_vars
  PROVE  CountsType'
<1> USE DEF ClientUpdateInv
<1>0. ASSUME UNCHANGED <<updating, leftover, pushes, events>> PROVE CountsType'
  BY <1>0 DEF CountsType, TypeOK
<1>1. ASSUME Expire PROVE CountsType'
  BY <1>0, <1>1 DEF Expire, Settle, net, client, bounds
<1>2. ASSUME Forget PROVE CountsType'
  BY <1>0, <1>2 DEF Forget, net, client, bounds
<1>3. ASSUME PushCheck PROVE CountsType'
  BY <1>0, <1>3 DEF PushCheck, net, client, bounds
<1>4. ASSUME PushRead PROVE CountsType'
  BY <1>0, <1>4 DEF PushRead, net, client, bounds
<1>5. ASSUME NEW r \in read, PushWrite(r) PROVE CountsType'
  BY <1>5 DEF PushWrite, client, CountsType, TypeOK
<1>6. ASSUME NEW s \in Sessions, HandleFailed(s) PROVE CountsType'
  BY <1>0, <1>6 DEF HandleFailed, Settle, client, bounds
<1>7. ASSUME NEW x \in noting, NoteReconnect(x) PROVE CountsType'
  BY <1>0, <1>7 DEF NoteReconnect, Settle, net, client, bounds
<1>7a. ASSUME NEW x \in noting, HelloFails(x) PROVE CountsType'
  BY <1>0, <1>7a DEF HelloFails, net, client, bounds
<1>8. ASSUME DropSession PROVE CountsType'
  BY <1>0, <1>8 DEF DropSession, net, client, bounds
<1>9. ASSUME Connect PROVE CountsType'
  BY <1>0, <1>9 DEF Connect, client, bounds
<1>10. ASSUME Break PROVE CountsType'
  BY <1>0, <1>10 DEF Break, srv, client, bounds
<1>11. ASSUME NEW c \in Contents, ServedChanges(c) PROVE CountsType'
  BY <1>11 DEF ServedChanges, Event, net, client, CountsType, TypeOK
<1>12. ASSUME NEW v \in Versions, ServerRestarts(v) PROVE CountsType'
  BY <1>12 DEF ServerRestarts, Event, CountsType, TypeOK
<1>13. ASSUME NEW m \in down, RefuseMessage(m) PROVE CountsType'
  BY <1>0, <1>13 DEF RefuseMessage, SendFailed, srv, client, bounds
<1>14. ASSUME NEW m \in down, TakeMessage(m) PROVE CountsType'
  BY <1>14 DEF TakeMessage, JobStarts, SendFailed, Quiet, srv, bounds, CountsType, TypeOK
<1>15. ASSUME NEW j \in Jobs, OpenDownload(j) PROVE CountsType'
  BY <1>15, JobIsGone DEF OpenDownload, RestOfJob, bounds, CountsType, TypeOK
<1>16. ASSUME NEW j \in Jobs, CopyDownload(j) PROVE CountsType'
  BY <1>16, JobIsGone DEF CopyDownload, RestOfJob, bounds, CountsType, TypeOK
<1>17. ASSUME NEW j \in Jobs, VerifyBinary(j) PROVE CountsType'
  BY <1>17, JobIsGone DEF VerifyBinary, RestOfJob, bounds, CountsType, TypeOK
<1>18. ASSUME NEW j \in Jobs, InstallBinary(j) PROVE CountsType'
  BY <1>18, JobIsGone DEF InstallBinary, RestOfJob, bounds, CountsType, TypeOK
<1>19. ASSUME NEW j \in Jobs, Restart(j) PROVE CountsType'
  BY <1>19 DEF Restart, At, NewProcess, JobFails, Quiet, srv, bounds, CountsType, TypeOK
<1>20. ASSUME ClientCrash PROVE CountsType'
  <2>1. events' \in Nat
    BY <1>20 DEF ClientCrash, Event, TypeOK
  <2>2. updating' \in BOOLEAN
    BY <1>20 DEF ClientCrash, NewProcess
  <2> QED BY <2>1, <2>2, <1>20 DEF ClientCrash, CountsType, TypeOK
<1>21. CASE UNCHANGED vars
  BY <1>0, <1>21 DEF vars, srv, net, client, bounds
<1> QED BY <1>1, <1>2, <1>3, <1>4, <1>5, <1>6, <1>7, <1>7a, <1>8, <1>9, <1>10, <1>11, <1>12, <1>13, <1>14,
           <1>15, <1>16, <1>17, <1>18, <1>19, <1>20, <1>21
           DEF Next, JobStep

\* The five parts make up TypeOK.
LEMMA TypeStep ==
  ASSUME ClientUpdateInv, [Next]_vars
  PROVE  TypeOK'
<1>1. ServerType' /\ SessionType' /\ NetType' /\ ClientType' /\ CountsType'
  BY ServerTypeStep, SessionTypeStep, NetTypeStep, ClientTypeStep, CountsTypeStep
<1> QED BY <1>1 DEF TypeOK, ServerType, SessionType, NetType, ClientType, CountsType

-----------------------------------------------------------------------------
(* The rest of the invariant *)

\* The flag is taken with the goroutine and released with it.
LEMMA OneJobStep ==
  ASSUME ClientUpdateInv, [Next]_vars
  PROVE  OneJob'
<1> USE DEF ClientUpdateInv
<1>0. ASSUME UNCHANGED <<jobs, updating>> PROVE OneJob'
  BY <1>0 DEF OneJob
<1>1. ASSUME Expire PROVE OneJob'
  BY <1>0, <1>1 DEF Expire, Settle, net, client, bounds
<1>2. ASSUME Forget PROVE OneJob'
  BY <1>0, <1>2 DEF Forget, net, client, bounds
<1>3. ASSUME PushCheck PROVE OneJob'
  BY <1>0, <1>3 DEF PushCheck, net, client, bounds
<1>4. ASSUME PushRead PROVE OneJob'
  BY <1>0, <1>4 DEF PushRead, net, client, bounds
<1>5. ASSUME NEW r \in read, PushWrite(r) PROVE OneJob'
  BY <1>0, <1>5 DEF PushWrite, client
<1>6. ASSUME NEW s \in Sessions, HandleFailed(s) PROVE OneJob'
  BY <1>0, <1>6 DEF HandleFailed, Settle, client, bounds
<1>7. ASSUME NEW x \in noting, NoteReconnect(x) PROVE OneJob'
  BY <1>0, <1>7 DEF NoteReconnect, Settle, net, client, bounds
<1>7a. ASSUME NEW x \in noting, HelloFails(x) PROVE OneJob'
  BY <1>0, <1>7a DEF HelloFails, net, client, bounds
<1>8. ASSUME DropSession PROVE OneJob'
  BY <1>0, <1>8 DEF DropSession, net, client, bounds
<1>9. ASSUME Connect PROVE OneJob'
  BY <1>0, <1>9 DEF Connect, client, bounds
<1>10. ASSUME Break PROVE OneJob'
  BY <1>0, <1>10 DEF Break, srv, client, bounds
<1>11. ASSUME NEW c \in Contents, ServedChanges(c) PROVE OneJob'
  BY <1>0, <1>11 DEF ServedChanges, Event, net, client
<1>12. ASSUME NEW v \in Versions, ServerRestarts(v) PROVE OneJob'
  BY <1>0, <1>12 DEF ServerRestarts, Event
<1>13. ASSUME NEW m \in down, RefuseMessage(m) PROVE OneJob'
  BY <1>0, <1>13 DEF RefuseMessage, SendFailed, srv, client, bounds
<1>14. ASSUME NEW m \in down, TakeMessage(m) PROVE OneJob'
  <2>1. \A i \in Jobs : jobs[i] = None
    BY <1>14 DEF TakeMessage, OneJob
  <2>2. \A i \in Jobs : jobs'[i] # None => i = m.id /\ updating' = TRUE
    BY <2>1, <1>14 DEF TakeMessage, JobStarts, TypeOK
  <2> QED BY <2>2 DEF OneJob
<1>15. ASSUME NEW j \in Jobs, OpenDownload(j) PROVE OneJob'
  <2>1. jobs[j] # None /\ updating = TRUE /\ \A i \in Jobs : i # j => jobs[i] = None
    BY <1>15 DEF OpenDownload, At, OneJob
  <2>2. CASE JobFails(j)
    BY <2>1, <2>2, JobIsGone DEF OneJob
  <2>3. CASE UNCHANGED updating /\ \E pc \in {"copy", "verify", "install", "restart"} : Goto(j, pc)
    BY <2>1, <2>3, JobMoves DEF OneJob
  <2> QED BY <1>15, <2>2, <2>3 DEF OpenDownload
<1>16. ASSUME NEW j \in Jobs, CopyDownload(j) PROVE OneJob'
  <2>1. jobs[j] # None /\ updating = TRUE /\ \A i \in Jobs : i # j => jobs[i] = None
    BY <1>16 DEF CopyDownload, At, OneJob
  <2>2. CASE JobFails(j)
    BY <2>1, <2>2, JobIsGone DEF OneJob
  <2>3. CASE UNCHANGED updating /\ \E pc \in {"copy", "verify", "install", "restart"} : Goto(j, pc)
    BY <2>1, <2>3, JobMoves DEF OneJob
  <2> QED BY <1>16, <2>2, <2>3 DEF CopyDownload
<1>17. ASSUME NEW j \in Jobs, VerifyBinary(j) PROVE OneJob'
  <2>1. jobs[j] # None /\ updating = TRUE /\ \A i \in Jobs : i # j => jobs[i] = None
    BY <1>17 DEF VerifyBinary, At, OneJob
  <2>2. CASE JobFails(j)
    BY <2>1, <2>2, JobIsGone DEF OneJob
  <2>3. CASE UNCHANGED updating /\ \E pc \in {"copy", "verify", "install", "restart"} : Goto(j, pc)
    BY <2>1, <2>3, JobMoves DEF OneJob
  <2> QED BY <1>17, <2>2, <2>3 DEF VerifyBinary
<1>18. ASSUME NEW j \in Jobs, InstallBinary(j) PROVE OneJob'
  <2>1. jobs[j] # None /\ updating = TRUE /\ \A i \in Jobs : i # j => jobs[i] = None
    BY <1>18 DEF InstallBinary, At, OneJob
  <2>2. CASE JobFails(j)
    BY <2>1, <2>2, JobIsGone DEF OneJob
  <2>3. CASE UNCHANGED updating /\ \E pc \in {"copy", "verify", "install", "restart"} : Goto(j, pc)
    BY <2>1, <2>3, JobMoves DEF OneJob
  <2> QED BY <1>18, <2>2, <2>3 DEF InstallBinary
<1>19. ASSUME NEW j \in Jobs, Restart(j) PROVE OneJob'
  <2>1. \A i \in Jobs : i # j => jobs[i] = None
    BY <1>19 DEF Restart, At, OneJob
  <2>2. \A i \in Jobs : jobs'[i] = None
    BY <2>1, <1>19, JobIsGone DEF Restart, NewProcess
  <2> QED BY <2>2 DEF OneJob
<1>20. ASSUME ClientCrash PROVE OneJob'
  BY <1>20 DEF ClientCrash, NewProcess, OneJob
<1>21. CASE UNCHANGED vars
  BY <1>0, <1>21 DEF vars, srv, net, client, bounds
<1> QED BY <1>1, <1>2, <1>3, <1>4, <1>5, <1>6, <1>7, <1>7a, <1>8, <1>9, <1>10, <1>11, <1>12, <1>13, <1>14,
           <1>15, <1>16, <1>17, <1>18, <1>19, <1>20, <1>21
           DEF Next, JobStep

\* No other job touches the file between its check and its installation.
LEMMA InstallsCheckedStep ==
  ASSUME ClientUpdateInv, [Next]_vars
  PROVE  InstallsChecked'
<1> USE DEF ClientUpdateInv
<1>0. ASSUME UNCHANGED <<jobs, tmp>> PROVE InstallsChecked'
  BY <1>0 DEF InstallsChecked, At
<1>1. ASSUME Expire PROVE InstallsChecked'
  BY <1>0, <1>1 DEF Expire, Settle, net, client, bounds
<1>2. ASSUME Forget PROVE InstallsChecked'
  BY <1>0, <1>2 DEF Forget, net, client, bounds
<1>3. ASSUME PushCheck PROVE InstallsChecked'
  BY <1>0, <1>3 DEF PushCheck, net, client, bounds
<1>4. ASSUME PushRead PROVE InstallsChecked'
  BY <1>0, <1>4 DEF PushRead, net, client, bounds
<1>5. ASSUME NEW r \in read, PushWrite(r) PROVE InstallsChecked'
  BY <1>0, <1>5 DEF PushWrite, client
<1>6. ASSUME NEW s \in Sessions, HandleFailed(s) PROVE InstallsChecked'
  BY <1>0, <1>6 DEF HandleFailed, Settle, client, bounds
<1>7. ASSUME NEW x \in noting, NoteReconnect(x) PROVE InstallsChecked'
  BY <1>0, <1>7 DEF NoteReconnect, Settle, net, client, bounds
<1>7a. ASSUME NEW x \in noting, HelloFails(x) PROVE InstallsChecked'
  BY <1>0, <1>7a DEF HelloFails, net, client, bounds
<1>8. ASSUME DropSession PROVE InstallsChecked'
  BY <1>0, <1>8 DEF DropSession, net, client, bounds
<1>9. ASSUME Connect PROVE InstallsChecked'
  BY <1>0, <1>9 DEF Connect, client, bounds
<1>10. ASSUME Break PROVE InstallsChecked'
  BY <1>0, <1>10 DEF Break, srv, client, bounds
<1>11. ASSUME NEW c \in Contents, ServedChanges(c) PROVE InstallsChecked'
  BY <1>0, <1>11 DEF ServedChanges, Event, net, client
<1>12. ASSUME NEW v \in Versions, ServerRestarts(v) PROVE InstallsChecked'
  BY <1>0, <1>12 DEF ServerRestarts, Event
<1>13. ASSUME NEW m \in down, RefuseMessage(m) PROVE InstallsChecked'
  BY <1>0, <1>13 DEF RefuseMessage, SendFailed, srv, client, bounds
<1>14. ASSUME NEW m \in down, TakeMessage(m) PROVE InstallsChecked'
  <2>1. \A i \in Jobs : i # m.id => jobs'[i] = jobs[i]
    BY <1>14 DEF TakeMessage, JobStarts, TypeOK
  <2>2. jobs'[m.id] = jobs[m.id] \/ jobs'[m.id].pc = "open"
    BY <1>14 DEF TakeMessage, JobStarts, TypeOK, Message
  <2>3. tmp' = tmp
    BY <1>14 DEF TakeMessage, JobStarts
  <2> QED BY <2>1, <2>2, <2>3 DEF InstallsChecked, At
<1>15. ASSUME NEW j \in Jobs, OpenDownload(j) PROVE InstallsChecked'
  <2>1. jobs[j] # None /\ \A i \in Jobs : i # j => jobs[i] = None
    BY <1>15 DEF OpenDownload, At, OneJob
  <2>2. CASE JobFails(j)
    BY <2>1, <2>2, JobIsGone DEF InstallsChecked, At
  <2>3. CASE Goto(j, "copy")
    BY <2>1, <2>3, JobMoves DEF InstallsChecked, At
  <2> QED BY <1>15, <2>2, <2>3 DEF OpenDownload
<1>16. ASSUME NEW j \in Jobs, CopyDownload(j) PROVE InstallsChecked'
  <2>1. jobs[j] # None /\ \A i \in Jobs : i # j => jobs[i] = None
    BY <1>16 DEF CopyDownload, At, OneJob
  <2>2. CASE JobFails(j)
    BY <2>1, <2>2, JobIsGone DEF InstallsChecked, At
  <2>3. CASE Goto(j, "verify")
    BY <2>1, <2>3, JobMoves DEF InstallsChecked, At
  <2> QED BY <1>16, <2>2, <2>3 DEF CopyDownload
<1>17. ASSUME NEW j \in Jobs, VerifyBinary(j) PROVE InstallsChecked'
  <2>1. jobs[j] # None /\ \A i \in Jobs : i # j => jobs[i] = None
    BY <1>17 DEF VerifyBinary, At, OneJob
  <2>2. CASE JobFails(j)
    BY <2>1, <2>2, JobIsGone DEF InstallsChecked, At
  <2>3. CASE Goto(j, "install") /\ tmp = jobs[j].target /\ UNCHANGED tmp
    BY <2>1, <2>3, JobMoves DEF InstallsChecked, At
  <2> QED BY <1>17, <2>2, <2>3 DEF VerifyBinary
<1>18. ASSUME NEW j \in Jobs, InstallBinary(j) PROVE InstallsChecked'
  <2>1. jobs[j] # None /\ \A i \in Jobs : i # j => jobs[i] = None
    BY <1>18 DEF InstallBinary, At, OneJob
  <2>2. CASE JobFails(j)
    BY <2>1, <2>2, JobIsGone DEF InstallsChecked, At
  <2>3. CASE Goto(j, "restart")
    BY <2>1, <2>3, JobMoves DEF InstallsChecked, At
  <2> QED BY <1>18, <2>2, <2>3 DEF InstallBinary
<1>19. ASSUME NEW j \in Jobs, Restart(j) PROVE InstallsChecked'
  <2>1. \A i \in Jobs : i # j => jobs[i] = None
    BY <1>19 DEF Restart, At, OneJob
  <2>2. \A i \in Jobs : jobs'[i] = None
    BY <2>1, <1>19, JobIsGone DEF Restart, NewProcess
  <2> QED BY <2>2 DEF InstallsChecked, At
<1>20. ASSUME ClientCrash PROVE InstallsChecked'
  BY <1>20 DEF ClientCrash, NewProcess, InstallsChecked, At
<1>21. CASE UNCHANGED vars
  BY <1>0, <1>21 DEF vars, srv, net, client, bounds
<1> QED BY <1>1, <1>2, <1>3, <1>4, <1>5, <1>6, <1>7, <1>7a, <1>8, <1>9, <1>10, <1>11, <1>12, <1>13, <1>14,
           <1>15, <1>16, <1>17, <1>18, <1>19, <1>20, <1>21
           DEF Next, JobStep

\* Only a checked file becomes the executable.
LEMMA ExeIntactStep ==
  ASSUME ClientUpdateInv, [Next]_vars
  PROVE  ExeIntact'
<1> USE DEF ClientUpdateInv
<1>0. ASSUME UNCHANGED <<exe>> PROVE ExeIntact'
  BY <1>0 DEF ExeIntact
<1>1. ASSUME Expire PROVE ExeIntact'
  BY <1>0, <1>1 DEF Expire, Settle, net, client, bounds
<1>2. ASSUME Forget PROVE ExeIntact'
  BY <1>0, <1>2 DEF Forget, net, client, bounds
<1>3. ASSUME PushCheck PROVE ExeIntact'
  BY <1>0, <1>3 DEF PushCheck, net, client, bounds
<1>4. ASSUME PushRead PROVE ExeIntact'
  BY <1>0, <1>4 DEF PushRead, net, client, bounds
<1>5. ASSUME NEW r \in read, PushWrite(r) PROVE ExeIntact'
  BY <1>0, <1>5 DEF PushWrite, client
<1>6. ASSUME NEW s \in Sessions, HandleFailed(s) PROVE ExeIntact'
  BY <1>0, <1>6 DEF HandleFailed, Settle, client, bounds
<1>7. ASSUME NEW x \in noting, NoteReconnect(x) PROVE ExeIntact'
  BY <1>0, <1>7 DEF NoteReconnect, Settle, net, client, bounds
<1>7a. ASSUME NEW x \in noting, HelloFails(x) PROVE ExeIntact'
  BY <1>0, <1>7a DEF HelloFails, net, client, bounds
<1>8. ASSUME DropSession PROVE ExeIntact'
  BY <1>0, <1>8 DEF DropSession, net, client, bounds
<1>9. ASSUME Connect PROVE ExeIntact'
  BY <1>0, <1>9 DEF Connect, client, bounds
<1>10. ASSUME Break PROVE ExeIntact'
  BY <1>0, <1>10 DEF Break, srv, client, bounds
<1>11. ASSUME NEW c \in Contents, ServedChanges(c) PROVE ExeIntact'
  BY <1>0, <1>11 DEF ServedChanges, Event, net, client
<1>12. ASSUME NEW v \in Versions, ServerRestarts(v) PROVE ExeIntact'
  BY <1>0, <1>12 DEF ServerRestarts, Event
<1>13. ASSUME NEW m \in down, RefuseMessage(m) PROVE ExeIntact'
  BY <1>0, <1>13 DEF RefuseMessage, SendFailed, srv, client, bounds
<1>14. ASSUME NEW m \in down, TakeMessage(m) PROVE ExeIntact'
  BY <1>0, <1>14 DEF TakeMessage, JobStarts, SendFailed, Quiet, srv, bounds
<1>15. ASSUME NEW j \in Jobs, OpenDownload(j) PROVE ExeIntact'
  BY <1>0, <1>15 DEF OpenDownload, At, Goto, JobFails, Quiet, RestOfJob, srv, bounds
<1>16. ASSUME NEW j \in Jobs, CopyDownload(j) PROVE ExeIntact'
  BY <1>0, <1>16 DEF CopyDownload, At, Goto, JobFails, Quiet, RestOfJob, srv, bounds
<1>17. ASSUME NEW j \in Jobs, VerifyBinary(j) PROVE ExeIntact'
  BY <1>0, <1>17 DEF VerifyBinary, At, Goto, JobFails, Quiet, RestOfJob, srv, bounds
<1>18. ASSUME NEW j \in Jobs, InstallBinary(j) PROVE ExeIntact'
  <2>1. tmp = jobs[j].target /\ jobs[j].target \in Versions
    BY <1>18 DEF InstallBinary, At, InstallsChecked, TypeOK, Job
  <2> QED BY <2>1, <1>18 DEF InstallBinary, ExeIntact
<1>19. ASSUME NEW j \in Jobs, Restart(j) PROVE ExeIntact'
  BY <1>19 DEF Restart, At, NewProcess, JobFails, Quiet, srv, bounds, ExeIntact
<1>20. ASSUME ClientCrash PROVE ExeIntact'
  BY <1>20 DEF ClientCrash, Event, NewProcess, Quiet, srv, ExeIntact
<1>21. CASE UNCHANGED vars
  BY <1>0, <1>21 DEF vars, srv, net, client, bounds
<1> QED BY <1>1, <1>2, <1>3, <1>4, <1>5, <1>6, <1>7, <1>7a, <1>8, <1>9, <1>10, <1>11, <1>12, <1>13, <1>14,
           <1>15, <1>16, <1>17, <1>18, <1>19, <1>20, <1>21
           DEF Next, JobStep

\* A replaced server forgets its pushes.
LEMMA TargetsCurrentStep ==
  ASSUME ClientUpdateInv, [Next]_vars
  PROVE  TargetsCurrent'
<1> USE DEF ClientUpdateInv
<1>0. ASSUME UNCHANGED <<rec, version, down>> PROVE TargetsCurrent'
  BY <1>0 DEF TargetsCurrent
<1>1. ASSUME Expire PROVE TargetsCurrent'
  <2>1. Pending => rec \in Record
    BY DEF Pending, TypeOK
  <2>2. rec' # None => rec'.target = version
    BY <2>1, <1>1 DEF Expire, Settle, Pending, Record, TargetsCurrent
  <2> QED BY <2>2, <1>1 DEF Expire, net, TargetsCurrent
<1>2. ASSUME Forget PROVE TargetsCurrent'
  BY <1>2 DEF Forget, net, client, bounds, TargetsCurrent, TypeOK
<1>3. ASSUME PushCheck PROVE TargetsCurrent'
  BY <1>0, <1>3 DEF PushCheck, net, client, bounds
<1>4. ASSUME PushRead PROVE TargetsCurrent'
  BY <1>0, <1>4 DEF PushRead, net, client, bounds
<1>5. ASSUME NEW r \in read, PushWrite(r) PROVE TargetsCurrent'
  BY <1>5 DEF PushWrite, client, TargetsCurrent, TypeOK
<1>6. ASSUME NEW s \in Sessions, HandleFailed(s) PROVE TargetsCurrent'
  <2>1. Pending => rec \in Record
    BY DEF Pending, TypeOK
  <2>2. rec' # None => rec'.target = version
    BY <2>1, <1>6 DEF HandleFailed, Settle, Pending, Record, TargetsCurrent
  <2> QED BY <2>2, <1>6 DEF HandleFailed, net, TargetsCurrent
<1>7. ASSUME NEW x \in noting, NoteReconnect(x) PROVE TargetsCurrent'
  <2>1. Pending => rec \in Record
    BY DEF Pending, TypeOK
  <2>2. rec' # None => rec'.target = version
    BY <2>1, <1>7 DEF NoteReconnect, Settle, Pending, Record, TargetsCurrent
  <2> QED BY <2>2, <1>7 DEF NoteReconnect, net, TargetsCurrent
<1>7a. ASSUME NEW x \in noting, HelloFails(x) PROVE TargetsCurrent'
  BY <1>0, <1>7a DEF HelloFails, net, client, bounds
<1>8. ASSUME DropSession PROVE TargetsCurrent'
  BY <1>0, <1>8 DEF DropSession, net, client, bounds
<1>9. ASSUME Connect PROVE TargetsCurrent'
  BY <1>0, <1>9 DEF Connect, client, bounds
<1>10. ASSUME Break PROVE TargetsCurrent'
  BY <1>10 DEF Break, srv, client, bounds, TargetsCurrent, TypeOK
<1>11. ASSUME NEW c \in Contents, ServedChanges(c) PROVE TargetsCurrent'
  BY <1>0, <1>11 DEF ServedChanges, Event, net, client
<1>12. ASSUME NEW v \in Versions, ServerRestarts(v) PROVE TargetsCurrent'
  BY <1>12 DEF ServerRestarts, Event, TargetsCurrent, TypeOK
<1>13. ASSUME NEW m \in down, RefuseMessage(m) PROVE TargetsCurrent'
  BY <1>13 DEF RefuseMessage, SendFailed, srv, client, bounds, TargetsCurrent, TypeOK
<1>14. ASSUME NEW m \in down, TakeMessage(m) PROVE TargetsCurrent'
  BY <1>14 DEF TakeMessage, JobStarts, SendFailed, Quiet, srv, bounds, TargetsCurrent, TypeOK
<1>15. ASSUME NEW j \in Jobs, OpenDownload(j) PROVE TargetsCurrent'
  BY <1>0, <1>15 DEF OpenDownload, At, Goto, JobFails, Quiet, RestOfJob, srv, bounds
<1>16. ASSUME NEW j \in Jobs, CopyDownload(j) PROVE TargetsCurrent'
  BY <1>0, <1>16 DEF CopyDownload, At, Goto, JobFails, Quiet, RestOfJob, srv, bounds
<1>17. ASSUME NEW j \in Jobs, VerifyBinary(j) PROVE TargetsCurrent'
  BY <1>0, <1>17 DEF VerifyBinary, At, Goto, JobFails, Quiet, RestOfJob, srv, bounds
<1>18. ASSUME NEW j \in Jobs, InstallBinary(j) PROVE TargetsCurrent'
  BY <1>0, <1>18 DEF InstallBinary, At, Goto, JobFails, Quiet, RestOfJob, srv, bounds
<1>19. ASSUME NEW j \in Jobs, Restart(j) PROVE TargetsCurrent'
  BY <1>19 DEF Restart, At, NewProcess, JobFails, Quiet, srv, bounds, TargetsCurrent, TypeOK
<1>20. ASSUME ClientCrash PROVE TargetsCurrent'
  BY <1>20 DEF ClientCrash, Event, NewProcess, Quiet, srv, TargetsCurrent, TypeOK
<1>21. CASE UNCHANGED vars
  BY <1>0, <1>21 DEF vars, srv, net, client, bounds
<1> QED BY <1>1, <1>2, <1>3, <1>4, <1>5, <1>6, <1>7, <1>7a, <1>8, <1>9, <1>10, <1>11, <1>12, <1>13, <1>14,
           <1>15, <1>16, <1>17, <1>18, <1>19, <1>20, <1>21
           DEF Next, JobStep

\* All that the client is at still leads to the version of the server.
LEMMA LeadsToVersionStep ==
  ASSUME ClientUpdateInv, [Next]_vars
  PROVE  LeadsToVersion'
<1> USE DEF ClientUpdateInv
<1>0. ASSUME UNCHANGED <<leftover, jobs, version, proc, exe, noting, rec>> PROVE LeadsToVersion'
  BY <1>0 DEF LeadsToVersion
<1>1. ASSUME Expire PROVE LeadsToVersion'
  <2>1. rec'.state = "failed"
    BY <1>1 DEF Expire, Settle, Pending, TypeOK, Record
  <2> QED BY <2>1, <1>1 DEF Expire, client, LeadsToVersion
<1>2. ASSUME Forget PROVE LeadsToVersion'
  BY <1>2 DEF Forget, net, client, bounds, LeadsToVersion, client
<1>3. ASSUME PushCheck PROVE LeadsToVersion'
  BY <1>0, <1>3 DEF PushCheck, net, client, bounds
<1>4. ASSUME PushRead PROVE LeadsToVersion'
  BY <1>0, <1>4 DEF PushRead, net, client, bounds
<1>5. ASSUME NEW r \in read, PushWrite(r) PROVE LeadsToVersion'
  <2>1. rec'.state = "pending"
    BY <1>5 DEF PushWrite
  <2> QED BY <2>1, <1>5 DEF PushWrite, client, LeadsToVersion
<1>6. ASSUME NEW s \in Sessions, HandleFailed(s) PROVE LeadsToVersion'
  <2>1. rec' = rec \/ rec'.state = "failed"
    BY <1>6 DEF HandleFailed, Settle, Pending, TypeOK, Record
  <2> QED BY <2>1, <1>6 DEF HandleFailed, client, LeadsToVersion
<1>7. ASSUME NEW x \in noting, NoteReconnect(x) PROVE LeadsToVersion'
  <2>1. rec' = rec \/ rec'.state = "failed" \/ (rec'.state = "done" /\ x.hello = version)
    BY <1>7 DEF NoteReconnect, Settle, Pending, TypeOK, Record, TargetsCurrent
  <2>2. leftover = FALSE /\ x.hello = version => proc = version
    BY DEF LeadsToVersion
  <2> QED BY <2>1, <2>2, <1>7 DEF NoteReconnect, client, LeadsToVersion
<1>7a. ASSUME NEW x \in noting, HelloFails(x) PROVE LeadsToVersion'
  BY <1>7a DEF HelloFails, client, LeadsToVersion
<1>8. ASSUME DropSession PROVE LeadsToVersion'
  BY <1>0, <1>8 DEF DropSession, net, client, bounds
<1>9. ASSUME Connect PROVE LeadsToVersion'
  BY <1>9 DEF Connect, client, bounds, LeadsToVersion, client
<1>10. ASSUME Break PROVE LeadsToVersion'
  BY <1>0, <1>10 DEF Break, srv, client, bounds
<1>11. ASSUME NEW c \in Contents, ServedChanges(c) PROVE LeadsToVersion'
  BY <1>0, <1>11 DEF ServedChanges, Event, net, client
<1>12. ASSUME NEW v \in Versions, ServerRestarts(v) PROVE LeadsToVersion'
  <2> SUFFICES ASSUME leftover' = FALSE
               PROVE  /\ \A j \in Jobs : jobs'[j] # None => jobs'[j].target = version' /\ proc' # version'
                      /\ exe' \in {proc', version'}
    BY <1>12 DEF ServerRestarts, LeadsToVersion
  <2>1. ~ updating /\ exe = proc
    <3>1. leftover' <=> (leftover \/ updating \/ exe # proc)
      BY <1>12 DEF ServerRestarts
    <3> QED BY <3>1, Zenon
  <2>2. \A j \in Jobs : jobs'[j] = None
    BY <2>1, <1>12 DEF ServerRestarts, OneJob
  <2> QED BY <2>1, <2>2, <1>12 DEF ServerRestarts
<1>13. ASSUME NEW m \in down, RefuseMessage(m) PROVE LeadsToVersion'
  BY <1>0, <1>13 DEF RefuseMessage, SendFailed, srv, client, bounds
<1>14. ASSUME NEW m \in down, TakeMessage(m) PROVE LeadsToVersion'
  <2>1. m.target = version
    BY DEF TargetsCurrent
  <2>2. \A i \in Jobs : jobs'[i] = jobs[i] \/ (jobs'[i].target = version /\ proc # version)
    BY <2>1, <1>14 DEF TakeMessage, JobStarts, TypeOK, Message
  <2> QED BY <2>2, <1>14 DEF TakeMessage, JobStarts, srv, LeadsToVersion
<1>15. ASSUME NEW j \in Jobs, OpenDownload(j) PROVE LeadsToVersion'
  <2>1. jobs[j] # None /\ \A i \in Jobs : jobs'[i] = None \/ (jobs[i] # None /\ jobs'[i].target = jobs[i].target)
    BY <1>15, JobMoves, JobIsGone DEF OpenDownload, At
  <2>2. UNCHANGED <<version, rec, noting, leftover, proc>>
    BY <1>15 DEF OpenDownload, RestOfJob, srv
  <2>3. leftover = FALSE => exe' \in {proc, version}
    BY <2>1, <1>15 DEF OpenDownload, LeadsToVersion, InstallsChecked
  <2> QED BY <2>1, <2>2, <2>3 DEF LeadsToVersion
<1>16. ASSUME NEW j \in Jobs, CopyDownload(j) PROVE LeadsToVersion'
  <2>1. jobs[j] # None /\ \A i \in Jobs : jobs'[i] = None \/ (jobs[i] # None /\ jobs'[i].target = jobs[i].target)
    BY <1>16, JobMoves, JobIsGone DEF CopyDownload, At
  <2>2. UNCHANGED <<version, rec, noting, leftover, proc>>
    BY <1>16 DEF CopyDownload, RestOfJob, srv
  <2>3. leftover = FALSE => exe' \in {proc, version}
    BY <2>1, <1>16 DEF CopyDownload, LeadsToVersion, InstallsChecked
  <2> QED BY <2>1, <2>2, <2>3 DEF LeadsToVersion
<1>17. ASSUME NEW j \in Jobs, VerifyBinary(j) PROVE LeadsToVersion'
  <2>1. jobs[j] # None /\ \A i \in Jobs : jobs'[i] = None \/ (jobs[i] # None /\ jobs'[i].target = jobs[i].target)
    BY <1>17, JobMoves, JobIsGone DEF VerifyBinary, At
  <2>2. UNCHANGED <<version, rec, noting, leftover, proc>>
    BY <1>17 DEF VerifyBinary, RestOfJob, srv
  <2>3. leftover = FALSE => exe' \in {proc, version}
    BY <2>1, <1>17 DEF VerifyBinary, LeadsToVersion, InstallsChecked
  <2> QED BY <2>1, <2>2, <2>3 DEF LeadsToVersion
<1>18. ASSUME NEW j \in Jobs, InstallBinary(j) PROVE LeadsToVersion'
  <2>1. jobs[j] # None /\ \A i \in Jobs : jobs'[i] = None \/ (jobs[i] # None /\ jobs'[i].target = jobs[i].target)
    BY <1>18, JobMoves, JobIsGone DEF InstallBinary, At
  <2>2. UNCHANGED <<version, rec, noting, leftover, proc>>
    BY <1>18 DEF InstallBinary, RestOfJob, srv
  <2>3. leftover = FALSE => exe' \in {proc, version}
    BY <2>1, <1>18 DEF InstallBinary, LeadsToVersion, InstallsChecked
  <2> QED BY <2>1, <2>2, <2>3 DEF LeadsToVersion
<1>19. ASSUME NEW j \in Jobs, Restart(j) PROVE LeadsToVersion'
  <2>1. CASE NewProcess
    BY <2>1, <1>19 DEF Restart, NewProcess, srv, LeadsToVersion
  <2>2. CASE JobFails(j) /\ UNCHANGED <<proc, exe>>
    <3>1. \A i \in Jobs : jobs'[i] = None \/ jobs'[i] = jobs[i]
      BY <2>2, JobIsGone
    <3> QED BY <2>2, <3>1, <1>19 DEF Restart, srv, LeadsToVersion
  <2> QED BY <1>19, <2>1, <2>2 DEF Restart
<1>20. ASSUME ClientCrash PROVE LeadsToVersion'
  BY <1>20 DEF ClientCrash, NewProcess, srv, LeadsToVersion
<1>21. CASE UNCHANGED vars
  BY <1>0, <1>21 DEF vars, srv, net, client, bounds
<1> QED BY <1>1, <1>2, <1>3, <1>4, <1>5, <1>6, <1>7, <1>7a, <1>8, <1>9, <1>10, <1>11, <1>12, <1>13, <1>14,
           <1>15, <1>16, <1>17, <1>18, <1>19, <1>20, <1>21
           DEF Next, JobStep

-----------------------------------------------------------------------------
(* The results *)

\* The invariant holds before the first session.
LEMMA ClientUpdateInit == Init => ClientUpdateInv
<1> SUFFICES ASSUME Init PROVE ClientUpdateInv
  OBVIOUS
<1> USE DEF Init
<1>1. /\ 1 \in Versions /\ MaxVersion \in Versions /\ 0 \in 0..Callers /\ 0 \in 0..MaxSessions /\ 0 \in 0..0
      /\ MaxVersion \in Contents /\ 1 \in Contents
  BY ClientUpdateAssumption DEF Versions, Contents
<1>2. TypeOK
  BY <1>1 DEF TypeOK, Missing
<1>3. OneJob /\ InstallsChecked /\ TargetsCurrent
  BY DEF OneJob, InstallsChecked, At, TargetsCurrent
<1>4. ExeIntact /\ LeadsToVersion
  BY <1>1 DEF ExeIntact, LeadsToVersion
<1> QED BY <1>2, <1>3, <1>4 DEF ClientUpdateInv

\* Every step keeps the invariant.
LEMMA ClientUpdateStep == ClientUpdateInv /\ [Next]_vars => ClientUpdateInv'
BY TypeStep, OneJobStep, InstallsCheckedStep, ExeIntactStep, TargetsCurrentStep, LeadsToVersionStep
   DEF ClientUpdateInv

\* The invariant holds in every behaviour.
LEMMA ClientUpdateInvariant == Spec => []ClientUpdateInv
BY ClientUpdateInit, ClientUpdateStep, PTL DEF Spec

\* The variables keep their types through every broken session and crash.
THEOREM ClientUpdateTypeCorrect == Spec => []TypeOK
<1>1. ClientUpdateInv => TypeOK
  BY DEF ClientUpdateInv
<1> QED BY <1>1, ClientUpdateInvariant, PTL

\* The client's executable is always a complete binary that named its version
\* (ExeIntact).
THEOREM ExeAlwaysIntact == Spec => []ExeIntact
<1>1. ClientUpdateInv => ExeIntact
  BY DEF ClientUpdateInv
<1> QED BY <1>1, ClientUpdateInvariant, PTL

\* A push shown as done has been followed: the client runs the target, from the
\* executable it will be started from again (DoneMeansRunning).
THEOREM DoneAlwaysMeansRunning == Spec => []DoneMeansRunning
<1>1. ClientUpdateInv => DoneMeansRunning
  <2> SUFFICES ASSUME ClientUpdateInv, rec # None, rec.state = "done", ~leftover
               PROVE  proc = rec.target /\ exe = rec.target
    BY DEF DoneMeansRunning
  <2>1. leftover = FALSE /\ rec.target = version
    BY DEF ClientUpdateInv, TypeOK, TargetsCurrent
  <2> QED BY <2>1 DEF ClientUpdateInv, LeadsToVersion
<1> QED BY <1>1, ClientUpdateInvariant, PTL
=============================================================================
