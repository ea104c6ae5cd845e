----------------------------- MODULE ClientUpdate -----------------------------
(***************************************************************************)
(* A server pushes its own version to one client.                          *)
(*                                                                         *)
(* The push is an "update" message that names the size and hash of a       *)
(* binary the server serves.  The client downloads the file over a stream  *)
(* of the same session, checks it, runs it, renames it over its executable *)
(* and execs it.  Its progress comes back as "update_status" messages; the *)
(* record the server keeps of the push is settled by a failure reported by *)
(* the client, by its next registration, or by a time limit.               *)
(*                                                                         *)
(* Sessions break and are registered again while this goes on; the client  *)
(* may be killed, the server replaced by another version.  The updates map *)
(* is read and written under the tunnel's lock, but PushUpdate decides,    *)
(* reads and writes in three separate steps.                               *)
(***************************************************************************)
EXTENDS Naturals

CONSTANTS
  MaxVersion,   \* versions of the program are 1..MaxVersion
  Callers,      \* how many calls of PushUpdate may be past their checks at once
  MaxSessions,  \* bound: sessions ever registered, numbered in their order
  MaxPushes,    \* bound: update messages sent
  MaxEvents,    \* bound: crashes of the client, restarts of the server and
                \* changes of the served file, together
  None          \* no record, no caller, no goroutine

ASSUME ClientUpdateAssumption ==
  /\ MaxVersion \in Nat \ {0}
  /\ {Callers, MaxSessions, MaxPushes, MaxEvents} \subseteq Nat

Versions == 1..MaxVersion
Missing == 0               \* no file, no session
Broken == MaxVersion + 1   \* a file that does not run: cut short or not a program
Contents == Versions \cup {Broken}
Sessions == 1..MaxSessions
Jobs == 1..MaxPushes       \* a goroutine for every update message

Record == [state : {"pending", "done", "failed"}, target : Versions]
Message == [sess : Sessions, target : Versions, content : Contents, id : Jobs]
Job == [sess : Sessions, target : Versions, content : Contents,
        pc : {"open", "copy", "verify", "install", "restart"}]

VARIABLES
  version,  \* Tunnel.version of the server that runs now
  served,   \* the client binary in the server's bin directory
  rec,      \* Tunnel.updates of the client: state and target
  reg,      \* the registered session: its number and the version in its Hello
  noting,   \* sessions whose noteReconnect is still to come
  checked,  \* calls of PushUpdate that have passed UpdateAvailability
  read,     \* the one that has read the session and the file, and what they were
  down,     \* update messages on their way to the client
  up,       \* status messages on their way to the server, by session
  n,        \* sessions used
  conn,     \* the session the client has open
  proc,     \* the version of the client process
  exe, tmp, \* its executable, and the file downloads go to
  updating, \* the flag that keeps updates from overlapping
  jobs,     \* the update goroutines, by message
  leftover, \* history: the server was replaced while the client was updating, or
            \* before it ran what an update had installed
  pushes, events  \* used up of the bounds

srv == <<version, served, rec, reg, noting, checked, read>>
net == <<down, up, n, conn>>
client == <<proc, exe, tmp, updating, jobs, leftover>>
bounds == <<pushes, events>>
vars == <<srv, net, client, bounds>>

Pending == rec # None /\ rec.state = "pending"

Event == events < MaxEvents /\ events' = events + 1

Settle(state) == rec' = [rec EXCEPT !.state = state]

-----------------------------------------------------------------------------
(* The server *)

\* UpdateStatus, called by every view of the client: a pending record with no
\* sign of life for updateTimeout is failed.  Progress messages renew that
\* time and do nothing else; here it may have passed at any moment.
Expire ==
  /\ Pending
  /\ Settle("failed")
  /\ UNCHANGED <<version, served, reg, noting, checked, read, net, client, bounds>>

\* A done record is shown for a day.
Forget ==
  /\ rec # None /\ rec.state = "done"
  /\ rec' = None
  /\ UNCHANGED <<version, served, reg, noting, checked, read, net, client, bounds>>

\* UpdateAvailability: online, on another version, no update in progress.
PushCheck ==
  /\ checked < Callers
  /\ reg # None /\ reg.hello # version /\ ~Pending
  /\ checked' = checked + 1
  /\ UNCHANGED <<version, served, rec, reg, noting, read, net, client, bounds>>

\* binaryCache.info: the size and hash of the file that is served now; the cache
\* is by modification time.
Info == served

\* The session is looked up again, and the file is hashed.
PushRead ==
  /\ checked > 0 /\ checked' = checked - 1
  /\ read' = IF reg = None THEN read ELSE read \cup {[sess |-> reg.id, content |-> Info]}
  /\ UNCHANGED <<version, served, rec, reg, noting, net, client, bounds>>

\* The record is written and the message sent, to a session that may be gone.
PushWrite(r) ==
  /\ r \in read /\ pushes < MaxPushes /\ pushes' = pushes + 1
  /\ rec' = [state |-> "pending", target |-> version]
  /\ down' = IF r.sess # conn THEN down
             ELSE down \cup {[sess |-> conn, target |-> version, content |-> r.content, id |-> pushes + 1]}
  /\ read' = read \ {r}
  /\ UNCHANGED <<version, served, reg, noting, checked, up, n, conn, client, events>>

\* handleClientMessage: a failure, from whichever session of the client,
\* settles a pending record.  A session's loop starts after its noteReconnect.
HandleFailed(s) ==
  /\ up[s] > 0 /\ \A x \in noting : x.id # s
  /\ up' = [up EXCEPT ![s] = @ - 1]
  /\ IF Pending THEN Settle("failed") ELSE UNCHANGED rec
  /\ UNCHANGED <<version, served, reg, noting, checked, read, down, n, conn, client, bounds>>

\* Variant with a defect: a client that comes back is taken for updated.
NoteReconnectAny(s) ==
  /\ s \in noting /\ noting' = noting \ {s}
  /\ IF Pending THEN Settle("done") ELSE UNCHANGED rec
  /\ UNCHANGED <<version, served, reg, checked, read, net, client, bounds>>

\* noteReconnect settles a pending record.  The automatic push it may go on
\* with is a PushUpdate like any other.
NoteReconnect(s) ==
  /\ s \in noting /\ noting' = noting \ {s}
  /\ IF Pending THEN Settle(IF s.hello = rec.target THEN "done" ELSE "failed") ELSE UNCHANGED rec
  /\ UNCHANGED <<version, served, reg, checked, read, net, client, bounds>>

\* Nothing that the client did on session s shows that it was answered.
Unheard(s) == up[s] = 0 /\ ~ \E j \in Jobs : jobs[j] # None /\ jobs[j].sess = s

\* The HelloResponse cannot be written, because the session is broken by then:
\* the registration is taken back, and no noteReconnect follows.
HelloFails(s) ==
  /\ s \in noting /\ noting' = noting \ {s}
  /\ s.id # conn /\ Unheard(s.id)
  /\ reg' = IF reg = s THEN None ELSE reg
  /\ UNCHANGED <<version, served, rec, checked, read, net, client, bounds>>

\* dropSession: the server notices that the session is gone.
DropSession ==
  /\ reg # None /\ reg.id # conn
  /\ reg' = None
  /\ UNCHANGED <<version, served, rec, noting, checked, read, net, client, bounds>>

\* The installer or adoptStaged replaces the served file.
ServedChanges(c) ==
  /\ c # served /\ Event
  /\ served' = c
  /\ UNCHANGED <<version, rec, reg, noting, checked, read, net, client, pushes>>

\* The server process is replaced by one of another version.
ServerRestarts(v) ==
  /\ v # version /\ n < MaxSessions /\ Event
  /\ version' = v
  /\ rec' = None /\ reg' = None /\ noting' = {}
  /\ checked' = 0 /\ read' = {}
  /\ down' = {} /\ up' = [s \in Sessions |-> 0] /\ conn' = Missing
  /\ leftover' = (leftover \/ updating \/ exe # proc)
  /\ UNCHANGED <<served, n, proc, exe, tmp, updating, jobs, pushes>>

-----------------------------------------------------------------------------
(* The session *)

\* Run's loop registers a new session, which replaces the one before.
Connect ==
  /\ conn = Missing /\ n < MaxSessions
  /\ n' = n + 1 /\ conn' = n + 1
  /\ reg' = [id |-> n + 1, hello |-> proc]
  /\ noting' = noting \cup {reg'}
  /\ UNCHANGED <<version, served, rec, checked, read, down, up, client, bounds>>

\* What the client has sent may still be read by the server's loop.  (Bound:
\* the last session is not broken from outside.)
Break ==
  /\ conn # Missing /\ n < MaxSessions
  /\ conn' = Missing /\ down' = {}
  /\ UNCHANGED <<srv, up, n, client, bounds>>

-----------------------------------------------------------------------------
(* The client: runUpdate and doUpdate *)

At(j, pc) == jobs[j] # None /\ jobs[j].pc = pc
Goto(j, pc) == jobs' = [jobs EXCEPT ![j].pc = pc]

\* sendStatus("failed") on the control stream of the session that brought the message.
SendFailed(s) == up' = IF s = conn THEN [up EXCEPT ![s] = @ + 1] ELSE up

Quiet == UNCHANGED up

\* Variant with a defect: an error does not reach the server.
JobFailsSilently(j) ==
  /\ jobs' = [jobs EXCEPT ![j] = None]
  /\ updating' = FALSE
  /\ Quiet

\* doUpdate returned an error: it is reported, and updating is released.
JobFails(j) ==
  /\ jobs' = [jobs EXCEPT ![j] = None]
  /\ updating' = FALSE
  /\ SendFailed(jobs[j].sess)

\* The goroutine of message m starts; the version that runs already is not
\* installed again.
JobStarts(m) ==
  /\ down' = down \ {m}
  /\ IF m.target = proc
     THEN SendFailed(m.sess) /\ UNCHANGED <<updating, jobs>>
     ELSE /\ updating' = TRUE
          /\ jobs' = [jobs EXCEPT ![m.id] = [sess |-> m.sess, target |-> m.target, content |-> m.content, pc |-> "open"]]
          /\ Quiet
  /\ UNCHANGED <<srv, n, conn, proc, exe, tmp, leftover, bounds>>

\* Variant with a defect: the flag is not looked at.
TakeMessageAlways(m) == m \in down /\ JobStarts(m)

\* runUpdate claims the flag with a compare-and-swap.
TakeMessage(m) == m \in down /\ ~updating /\ JobStarts(m)

\* runUpdate refuses a second update while one runs.
RefuseMessage(m) ==
  /\ m \in down /\ updating
  /\ down' = down \ {m}
  /\ SendFailed(m.sess)
  /\ UNCHANGED <<srv, n, conn, client, bounds>>

RestOfJob == UNCHANGED <<srv, down, n, leftover, bounds>>

\* handleClientStream answers on the session of the push, with the file it has.
Serves(j) == jobs[j].sess = conn /\ Info = jobs[j].content

\* download opens a stream of the session; the server's header must name the
\* announced file.  The temporary file is truncated.
OpenDownload(j) ==
  /\ At(j, "open")
  /\ \/ /\ Serves(j)
        /\ tmp' = Broken /\ Goto(j, "copy") /\ Quiet /\ UNCHANGED updating
     \/ JobFails(j) /\ tmp' = Missing
  /\ UNCHANGED <<conn, proc, exe>> /\ RestOfJob

\* The bytes arrive while the session lasts; size and hash are compared.
CopyDownload(j) ==
  /\ At(j, "copy")
  /\ \/ /\ Serves(j)
        /\ tmp' = served /\ Goto(j, "verify") /\ Quiet /\ UNCHANGED updating
     \/ JobFails(j) /\ tmp' = Missing
  /\ UNCHANGED <<conn, proc, exe>> /\ RestOfJob

\* verifyBinary runs the file and compares the version it prints.
VerifyBinary(j) ==
  /\ At(j, "verify")
  /\ \/ tmp = jobs[j].target /\ Goto(j, "install") /\ Quiet /\ UNCHANGED <<tmp, updating>>
     \/ JobFails(j) /\ tmp' = Missing
  /\ UNCHANGED <<conn, proc, exe>> /\ RestOfJob

\* installBinary: one rename over the running executable.
InstallBinary(j) ==
  /\ At(j, "install")
  /\ \/ /\ tmp # Missing /\ exe' = tmp /\ tmp' = Missing
        /\ Goto(j, "restart") /\ Quiet /\ UNCHANGED updating
     \/ JobFails(j) /\ tmp' = Missing /\ UNCHANGED exe
  /\ UNCHANGED <<conn, proc>> /\ RestOfJob

\* A new image of the program: no goroutine survives, the connection is
\* closed, and Run removes what updates left behind.
NewProcess ==
  /\ proc' = exe /\ tmp' = Missing
  /\ updating' = FALSE /\ jobs' = [j \in Jobs |-> None]
  /\ conn' = Missing
  /\ UNCHANGED exe

Restart(j) ==
  /\ At(j, "restart")
  /\ \/ NewProcess /\ down' = {} /\ Quiet
     \/ JobFails(j) /\ UNCHANGED <<down, conn, proc, exe, tmp>>
  /\ UNCHANGED <<srv, n, leftover, bounds>>

\* The client is killed; its service manager starts the executable.
ClientCrash ==
  /\ n < MaxSessions /\ Event
  /\ exe \in Versions
  /\ NewProcess /\ down' = {} /\ Quiet
  /\ UNCHANGED <<srv, n, leftover, pushes>>

-----------------------------------------------------------------------------
Init ==
  /\ version = MaxVersion /\ served = MaxVersion
  /\ rec = None /\ reg = None /\ noting = {}
  /\ checked = 0 /\ read = {}
  /\ down = {} /\ up = [s \in Sessions |-> 0] /\ n = 0 /\ conn = Missing
  /\ proc = 1 /\ exe = 1 /\ tmp = Missing /\ updating = FALSE /\ jobs = [j \in Jobs |-> None] /\ leftover = FALSE
  /\ pushes = 0 /\ events = 0

JobStep(j) ==
  OpenDownload(j) \/ CopyDownload(j) \/ VerifyBinary(j) \/ InstallBinary(j) \/ Restart(j)

Next ==
  \/ Expire \/ Forget
  \/ PushCheck \/ PushRead \/ \E r \in read : PushWrite(r)
  \/ (\E s \in Sessions : HandleFailed(s)) \/ \E x \in noting : NoteReconnect(x) \/ HelloFails(x)
  \/ DropSession \/ Connect \/ Break
  \/ \E c \in Contents : ServedChanges(c)
  \/ \E v \in Versions : ServerRestarts(v)
  \/ \E m \in down : RefuseMessage(m) \/ TakeMessage(m)
  \/ \E j \in Jobs : JobStep(j)
  \/ ClientCrash

Spec == Init /\ [][Next]_vars

\* Deadlines end the download and the test run of the binary, the client
\* connects again for ever, and the server reads what arrives.
Fairness ==
  /\ \A j \in Jobs : WF_vars(JobStep(j))
  /\ WF_vars(Connect)
  /\ \A s \in Sessions :
       /\ WF_vars(HandleFailed(s))
       /\ WF_vars(\E x \in noting : x.id = s /\ (NoteReconnect(x) \/ HelloFails(x)))

FairSpec == Spec /\ Fairness

-----------------------------------------------------------------------------
TypeOK ==
  /\ version \in Versions /\ served \in Contents
  /\ rec \in Record \cup {None}
  /\ reg \in [id : 1..n, hello : Versions] \cup {None} /\ noting \subseteq [id : 1..n, hello : Versions]
  /\ checked \in 0..Callers /\ read \subseteq [sess : Sessions, content : Contents]
  /\ down \subseteq Message
  /\ up \in [Sessions -> Nat] /\ n \in 0..MaxSessions /\ conn \in 0..n
  /\ proc \in Versions /\ exe \in Contents /\ tmp \in Contents \cup {Missing} /\ updating \in BOOLEAN
  /\ jobs \in [Jobs -> Job \cup {None}]
  /\ leftover \in BOOLEAN /\ pushes \in Nat /\ events \in Nat

\* Whatever happens to sessions, served files and pushes, the client's
\* executable is always a complete binary that ran and named its version:
\* updates share one temporary file and never overlap.
ExeIntact == exe \in Versions

\* A push shown as done is one the client has really followed: it runs the
\* target, and no older update goroutine can replace that binary any more.
\* (Not so when the server was replaced by another version while the client
\* was updating or had not yet run what it installed: a delayed noteReconnect
\* of an earlier session then mistakes what that session said for the outcome
\* of a later push.)
DoneMeansRunning == rec # None /\ rec.state = "done" /\ ~leftover => proc = rec.target /\ exe = rec.target

\* A push that the client has taken up on the session it has open is settled
\* without waiting for the time limit: by its error report, or by the
\* registration that follows a restart or a broken session.
AnswerSettles ==
  (Pending /\ \E j \in Jobs : jobs[j] # None /\ jobs[j].sess = conn) ~> (~Pending \/ n = MaxSessions)
=============================================================================
