------------------------------- MODULE Forwards -------------------------------
(***************************************************************************)
(* The forward table of the SpawnRelay server and the public listeners     *)
(* that serve it.                                                          *)
(*                                                                         *)
(* The table lives twice: in memory (store.Store.state, here clients and   *)
(* fwd) and in the state file (here disk).  Every API handler that changes *)
(* it runs inside store.Update, which holds the store's lock, calls the    *)
(* handler's function and then saves.  The listeners (Tunnel.runners) are  *)
(* a second table with its own lock: creating and editing handlers bind    *)
(* them while they hold the store's lock, deleting handlers close them     *)
(* after they have released it, and a group change walks over its members  *)
(* one Apply or Remove at a time.  All of those may interleave, any bind   *)
(* or save may fail, and the process may be restarted at any point.        *)
(***************************************************************************)
EXTENDS Naturals, FiniteSets

CONSTANTS
  Clients,      \* client ids the store may hand out
  Ids,          \* forward and group ids the store may hand out
  Ports,        \* public ports requests name
  Reserved,     \* the tunnel port and the management port
  Targets,      \* client-side target addresses
  MaxGroup,     \* store.MaxGroupPorts: members of one group
  None,         \* no forward, no listener
  BindMayFail,  \* may the operating system refuse a bind?
  SaveMayFail   \* may writing the state file fail?

ASSUME ForwardsAssumption ==
  /\ Ports \subseteq Nat
  /\ Reserved \subseteq Nat
  /\ MaxGroup \in Nat \ {0}
  /\ BindMayFail \in BOOLEAN
  /\ SaveMayFail \in BOOLEAN

VARIABLES
  clients,   \* State.Clients in memory: the set of client ids
  fwd,       \* State.Forwards in memory: id -> forward
  disk,      \* the state file: what the last successful save wrote
  runner,    \* Tunnel.runners: id -> the forward its listeners were started for
  txn,       \* the group change that holds the store's lock, if any
  pend,      \* ids whose handler has still to call Tunnel.Remove
  replying   \* groups whose handler has committed and still renders its answer

vars == <<clients, fwd, disk, runner, txn, pend, replying>>

-----------------------------------------------------------------------------
(* Forwards and their ports *)

Protos == {"tcp", "udp", "both"}

Forward ==
  [client : Clients, group : Ids, port : Ports, proto : Protos,
   target : Targets, enabled : BOOLEAN]

Table == [Ids -> Forward \cup {None}]

ASSUME NoneAssumption == None \notin Forward

HasTCP(f) == f.proto \in {"tcp", "both"}
HasUDP(f) == f.proto \in {"udp", "both"}

\* Two forwards that need the same socket.
Overlap(f, o) ==
  /\ f.port = o.port
  /\ (HasTCP(f) /\ HasTCP(o)) \/ (HasUDP(f) /\ HasUDP(o))

\* Same ignores the group: two forwards with identical listeners.
Same(f, o) ==
  /\ f.client = o.client
  /\ f.proto = o.proto
  /\ f.port = o.port
  /\ f.target = o.target
  /\ f.enabled = o.enabled

Used(tbl) == {i \in Ids : tbl[i] # None}

MembersIn(tbl, g) == {i \in Used(tbl) : tbl[i].group = g}

Members(g) == MembersIn(fwd, g)

\* Variant with a defect: disabled forwards are overlooked.
PortConflictEnabledOnly(i, f) ==
  \E j \in Used(fwd) \ {i} : fwd[j].enabled /\ Overlap(f, fwd[j])

\* State.PortConflict: some other forward, enabled or not, has f's socket.
PortConflict(i, f) ==
  \E j \in Used(fwd) \ {i} : Overlap(f, fwd[j])

\* groupPortConflict: the same, ignoring every member of the group.
GroupPortConflict(g, f) ==
  \E j \in Used(fwd) \ Members(g) : Overlap(f, fwd[j])

\* store.NewID draws ids at random: a new one is in no table and no handler.
Fresh(i) ==
  /\ i \notin Used(fwd) \cup Used(disk.fwd) \cup Used(runner)
  /\ Members(i) = {} /\ MembersIn(disk.fwd, i) = {}
  /\ i \notin pend \cup replying

-----------------------------------------------------------------------------
(* Tunnel: one step per call, each under the tunnel's lock *)

\* None of our own listeners has a socket f needs (f's own are closed).
Bindable(i, f) ==
  \A j \in Used(runner) \ {i} : ~Overlap(f, runner[j])

RunsSame(i, f) == runner[i] # None /\ Same(runner[i], f)

\* Apply returns nil: nothing to do, stopped because disabled, or (re)started.
ApplyOk(i, f) ==
  \/ /\ RunsSame(i, f)
     /\ UNCHANGED runner
  \/ /\ ~RunsSame(i, f)
     /\ ~f.enabled
     /\ runner' = [runner EXCEPT ![i] = None]
  \/ /\ ~RunsSame(i, f)
     /\ f.enabled
     /\ Bindable(i, f)
     /\ runner' = [runner EXCEPT ![i] = f]

\* Apply returns a bind error: the previous listener, if there was one, is
\* started again, which the operating system may refuse as well.
ApplyFails(i, f) ==
  /\ ~RunsSame(i, f)
  /\ f.enabled
  /\ BindMayFail \/ ~Bindable(i, f)
  /\ \/ UNCHANGED runner
     \/ BindMayFail /\ runner' = [runner EXCEPT ![i] = None]

Remove(i) == runner' = [runner EXCEPT ![i] = None]

-----------------------------------------------------------------------------
(* store.Update: the lock, the change in memory, the save *)

Unlocked == txn.op = "idle"

Saved(cs, tbl) ==
  /\ clients' = cs
  /\ fwd' = tbl
  /\ disk' = [clients |-> cs, fwd |-> tbl]

\* The change stays in memory and the handler is told of an error.
SaveFails(cs, tbl) ==
  /\ SaveMayFail
  /\ clients' = cs
  /\ fwd' = tbl
  /\ UNCHANGED disk

\* The table without the forwards in gone.
Without(gone) == [i \in Ids |-> IF i \in gone THEN None ELSE fwd[i]]

-----------------------------------------------------------------------------
(* Clients *)

CreateClient(c) ==
  /\ Unlocked
  /\ c \notin clients \cup disk.clients
  /\ Saved(clients \cup {c}, fwd) \/ SaveFails(clients \cup {c}, fwd)
  /\ UNCHANGED <<runner, txn, pend, replying>>

\* The client's forwards go with it; their listeners are closed later.
DeleteClient(c) ==
  LET gone == {i \in Used(fwd) : fwd[i].client = c} IN
  /\ Unlocked
  /\ c \in clients
  /\ \/ /\ Saved(clients \ {c}, Without(gone))
        /\ pend' = pend \cup gone
     \/ /\ SaveFails(clients \ {c}, Without(gone))
        /\ UNCHANGED pend
  /\ UNCHANGED <<runner, txn, replying>>

-----------------------------------------------------------------------------
(* Single forwards *)

\* What handleCreateForward and handleUpdateForward require of the new value.
Acceptable(i, f) ==
  /\ f.port \notin Reserved
  /\ f.client \in clients
  /\ ~PortConflict(i, f)

\* A forward created on its own is a group of one.  When the listener cannot
\* be bound nothing has changed; when the save fails the handler removes the
\* listener but the forward stays in memory.
CreateForward(i, f) ==
  /\ Unlocked
  /\ Fresh(i)
  /\ f.group = i
  /\ Acceptable(i, f)
  /\ ApplyOk(i, f)
  /\ \/ /\ Saved(clients, [fwd EXCEPT ![i] = f])
        /\ UNCHANGED pend
     \/ /\ SaveFails(clients, [fwd EXCEPT ![i] = f])
        /\ pend' = pend \cup {i}
  /\ UNCHANGED <<txn, replying>>

\* Variant with a defect: the group is not looked at.
MayMoveAny(i, f) == f.client \in clients

\* Only a group of one may change its client here.
MayMove(i, f) == f.client = fwd[i].client \/ Members(fwd[i].group) = {i}

UpdateForward(i, f) ==
  /\ Unlocked
  /\ i \in Used(fwd)
  /\ f.group = fwd[i].group
  /\ MayMove(i, f)
  /\ Acceptable(i, f)
  /\ \/ /\ ApplyOk(i, f)
        /\ \/ Saved(clients, [fwd EXCEPT ![i] = f])
           \/ SaveFails(clients, [fwd EXCEPT ![i] = f])
     \/ /\ ApplyFails(i, f)
        /\ UNCHANGED <<clients, fwd, disk>>
  /\ UNCHANGED <<txn, pend, replying>>

DeleteForward(i) ==
  /\ Unlocked
  /\ i \in Used(fwd)
  /\ \/ /\ Saved(clients, Without({i}))
        /\ pend' = pend \cup {i}
     \/ /\ SaveFails(clients, Without({i}))
        /\ UNCHANGED pend
  /\ UNCHANGED <<runner, txn, replying>>

\* The Tunnel.Remove a handler makes after it has released the store's lock.
RemovePending(i) ==
  /\ i \in pend
  /\ Remove(i)
  /\ pend' = pend \ {i}
  /\ UNCHANGED <<clients, fwd, disk, txn, replying>>

-----------------------------------------------------------------------------
(* Forward groups *)

\* Variant with a defect: port 0 passes validation.
EntryUnchecked == [port : Ports \cup {0}, proto : Protos]

Entry == [port : Ports, proto : Protos]

\* What ParsePortSpec accepts: 1..MaxGroup entries, no two on one socket.
PortSpecs ==
  {es \in SUBSET Entry :
     /\ es # {} /\ Cardinality(es) <= MaxGroup
     /\ \A e, o \in es : e # o => ~Overlap(e, o)}

\* expandGroup's ids: the member that has an entry's port and protocol keeps
\* its id, every other entry gets a new one.
Namings(g, es) ==
  {m \in [es -> Ids] :
     /\ \A e, o \in es : e # o => m[e] # m[o]
     /\ \A e \in es :
          LET old == {i \in Members(g) : fwd[i].port = e.port /\ fwd[i].proto = e.proto}
          IN  IF old = {} THEN m[e] # g /\ Fresh(m[e]) ELSE m[e] \in old}

\* expandGroup's members: the group-level fields are written to every one.
Expansion(g, m, c, t, en) ==
  [i \in Ids |->
     IF \E e \in DOMAIN m : m[e] = i
     THEN LET e == CHOOSE x \in DOMAIN m : m[x] = i
          IN  [client |-> c, group |-> g, port |-> e.port, proto |-> e.proto,
               target |-> t, enabled |-> en]
     ELSE None]

NoChange == [op |-> "idle", group |-> None, next |-> [i \in Ids |-> None],
             first |-> {}, then |-> {}]

\* commitGroup up to and including the start of ApplyGroup: the members that
\* drop out are stopped first, then the members of next are applied.
ChangeGroup(g, m, c, t, en) ==
  LET next == Expansion(g, m, c, t, en) IN
  /\ \A e \in DOMAIN m : e.port \notin Reserved
  /\ c \in clients
  /\ \A i \in Used(next) : ~GroupPortConflict(g, next[i])
  /\ txn' = [op |-> "forward", group |-> g, next |-> next,
             first |-> Members(g) \ Used(next), then |-> Used(next)]
  /\ UNCHANGED <<clients, fwd, disk, runner, pend, replying>>

CreateGroup(g) ==
  /\ Unlocked
  /\ Fresh(g)
  /\ \E es \in PortSpecs, c \in Clients, t \in Targets, en \in BOOLEAN :
       \E m \in Namings(g, es) : ChangeGroup(g, m, c, t, en)

UpdateGroup(g) ==
  /\ Unlocked
  /\ Members(g) # {}
  /\ \E es \in PortSpecs, c \in Clients, t \in Targets, en \in BOOLEAN :
       \E m \in Namings(g, es) : ChangeGroup(g, m, c, t, en)

\* ForwardsInGroup and ParsePortSpec sort, so members are visited by port and
\* on one port tcp comes before udp.
Lowest(S, tbl) ==
  {i \in S : \A j \in S \ {i} :
     \/ tbl[i].port < tbl[j].port
     \/ tbl[i].port = tbl[j].port /\ tbl[i].proto = "tcp"}

\* Variant with a defect: waits for a listener that a disabled member has not.
GroupStopRunning(i) ==
  /\ txn.op = "forward"
  /\ i \in Lowest(txn.first, fwd)
  /\ i \in Used(runner)
  /\ Remove(i)
  /\ txn' = [txn EXCEPT !.first = @ \ {i}]
  /\ UNCHANGED <<clients, fwd, disk, pend, replying>>

\* A member that drops out is stopped.
GroupStop(i) ==
  /\ txn.op = "forward"
  /\ i \in Lowest(txn.first, fwd)
  /\ Remove(i)
  /\ txn' = [txn EXCEPT !.first = @ \ {i}]
  /\ UNCHANGED <<clients, fwd, disk, pend, replying>>

\* Variant with a defect: the rollback forgets the members that dropped out.
GroupApplyForgetful(i) ==
  /\ txn.op = "forward"
  /\ txn.first = {}
  /\ i \in Lowest(txn.then, txn.next)
  /\ \/ /\ ApplyOk(i, txn.next[i])
        /\ txn' = [txn EXCEPT !.then = @ \ {i}]
     \/ /\ ApplyFails(i, txn.next[i])
        /\ txn' = [txn EXCEPT
                     !.op = "back",
                     !.first = Used(txn.next) \ txn.then,
                     !.then = {}]
  /\ UNCHANGED <<clients, fwd, disk, pend, replying>>

\* A member of next is applied; the first failure turns the change around:
\* what was applied is put back, then what was stopped is started again.
GroupApply(i) ==
  /\ txn.op = "forward"
  /\ txn.first = {}
  /\ i \in Lowest(txn.then, txn.next)
  /\ \/ /\ ApplyOk(i, txn.next[i])
        /\ txn' = [txn EXCEPT !.then = @ \ {i}]
     \/ /\ ApplyFails(i, txn.next[i])
        /\ txn' = [txn EXCEPT
                     !.op = "back",
                     !.first = Used(txn.next) \ txn.then,
                     !.then = Members(txn.group) \ Used(txn.next)]
  /\ UNCHANGED <<clients, fwd, disk, pend, replying>>

\* Variant with a defect: listeners of new members are left running.
GroupUndoOldOnly(i) ==
  /\ txn.op = "back"
  /\ i \in Lowest(txn.first, txn.next)
  /\ \/ i \in Used(fwd) /\ (ApplyOk(i, fwd[i]) \/ ApplyFails(i, fwd[i]))
     \/ i \notin Used(fwd) /\ UNCHANGED runner
  /\ txn' = [txn EXCEPT !.first = @ \ {i}]
  /\ UNCHANGED <<clients, fwd, disk, pend, replying>>

\* rollback of an applied member: the old listener, or none if it is new.
GroupUndo(i) ==
  /\ txn.op = "back"
  /\ i \in Lowest(txn.first, txn.next)
  /\ \/ i \in Used(fwd) /\ (ApplyOk(i, fwd[i]) \/ ApplyFails(i, fwd[i]))
     \/ i \notin Used(fwd) /\ Remove(i)
  /\ txn' = [txn EXCEPT !.first = @ \ {i}]
  /\ UNCHANGED <<clients, fwd, disk, pend, replying>>

\* rollback of a member that had dropped out.
GroupReinstate(i) ==
  /\ txn.op = "back"
  /\ txn.first = {}
  /\ i \in Lowest(txn.then, fwd)
  /\ ApplyOk(i, fwd[i]) \/ ApplyFails(i, fwd[i])
  /\ txn' = [txn EXCEPT !.then = @ \ {i}]
  /\ UNCHANGED <<clients, fwd, disk, pend, replying>>

\* Every listener is up: the members are swapped in the store and saved.
GroupCommit ==
  LET tbl == [i \in Ids |->
                IF i \in Used(txn.next) THEN txn.next[i]
                ELSE IF i \in Members(txn.group) THEN None ELSE fwd[i]] IN
  /\ txn.op = "forward"
  /\ txn.first = {} /\ txn.then = {}
  /\ \/ /\ Saved(clients, tbl)
        /\ replying' = replying \cup {txn.group}
     \/ /\ SaveFails(clients, tbl)
        /\ UNCHANGED replying
  /\ txn' = NoChange
  /\ UNCHANGED <<runner, pend>>

\* The rollback is over: the handler reports the bind error.
GroupAbort ==
  /\ txn.op = "back"
  /\ txn.first = {} /\ txn.then = {}
  /\ txn' = NoChange
  /\ UNCHANGED <<clients, fwd, disk, runner, pend, replying>>

\* Variant with a defect: the listeners are never closed.
DeleteGroupStoreOnly(g) ==
  /\ Unlocked
  /\ Members(g) # {}
  /\ Saved(clients, Without(Members(g)))
  /\ UNCHANGED <<runner, txn, pend, replying>>

DeleteGroup(g) ==
  /\ Unlocked
  /\ Members(g) # {}
  /\ \/ /\ Saved(clients, Without(Members(g)))
        /\ pend' = pend \cup Members(g)
     \/ /\ SaveFails(clients, Without(Members(g)))
        /\ UNCHANGED pend
  /\ UNCHANGED <<runner, txn, replying>>

\* After notifying the client and syncing the firewall, the create and update
\* handlers read the members again and render them with groupOut.
Respond(g) ==
  /\ Unlocked
  /\ g \in replying
  /\ replying' = replying \ {g}
  /\ UNCHANGED <<clients, fwd, disk, runner, txn, pend>>

-----------------------------------------------------------------------------
(* The process *)

\* The process dies (or is stopped) and starts again: memory is the state
\* file, and SyncAll applies every enabled forward, in any order the file has.
Restart ==
  LET enabled == {i \in Used(disk.fwd) : disk.fwd[i].enabled} IN
  \E up \in SUBSET enabled :
    /\ \A i, j \in up : i # j => ~Overlap(disk.fwd[i], disk.fwd[j])
    /\ \/ BindMayFail
       \/ \A i \in enabled \ up : \E j \in up : Overlap(disk.fwd[i], disk.fwd[j])
    /\ clients' = disk.clients
    /\ fwd' = disk.fwd
    /\ runner' = [i \in Ids |-> IF i \in up THEN disk.fwd[i] ELSE None]
    /\ txn' = NoChange
    /\ pend' = {} /\ replying' = {}
    /\ UNCHANGED disk

Init ==
  /\ clients = {}
  /\ fwd = [i \in Ids |-> None]
  /\ disk = [clients |-> {}, fwd |-> [i \in Ids |-> None]]
  /\ runner = [i \in Ids |-> None]
  /\ txn = NoChange
  /\ pend = {} /\ replying = {}

Next ==
  \/ \E c \in Clients : CreateClient(c)
  \/ \E c \in Clients : DeleteClient(c)
  \/ \E i \in Ids, f \in Forward : CreateForward(i, f)
  \/ \E i \in Ids, f \in Forward : UpdateForward(i, f)
  \/ \E i \in Ids : DeleteForward(i)
  \/ \E i \in Ids : RemovePending(i)
  \/ \E g \in Ids : CreateGroup(g)
  \/ \E g \in Ids : UpdateGroup(g)
  \/ \E i \in Ids : GroupStop(i)
  \/ \E i \in Ids : GroupApply(i)
  \/ \E i \in Ids : GroupUndo(i)
  \/ \E i \in Ids : GroupReinstate(i)
  \/ GroupCommit
  \/ GroupAbort
  \/ \E g \in Ids : DeleteGroup(g)
  \/ \E g \in Ids : Respond(g)
  \/ Restart

Spec == Init /\ [][Next]_vars

\* A call of Remove or Apply that ApplyGroup makes for one member.
GroupWalk == \E i \in Ids : GroupStop(i) \/ GroupApply(i) \/ GroupUndo(i) \/ GroupReinstate(i)

UdpListening == \E i \in Used(runner) : HasUDP(runner[i])

\* A handler that has started runs on: Go schedules every runnable goroutine
\* and no step of a handler waits for a request.  Requests need not come.  But
\* stop() may wait for ever for a UDP listener, with the tunnel's lock held
\* (UdpPeers shows how): calls of the tunnel are certain to return only when
\* there is no such listener.
Fairness ==
  /\ \A i \in Ids : WF_vars(RemovePending(i) /\ ~UdpListening)
  /\ WF_vars(GroupWalk /\ ~UdpListening)
  /\ WF_vars(GroupCommit \/ GroupAbort)

FairSpec == Spec /\ Fairness

-----------------------------------------------------------------------------
(* Properties *)

Txn ==
  [op : {"idle", "forward", "back"}, group : Ids \cup {None}, next : Table,
   first : SUBSET Ids, then : SUBSET Ids]

\* Every variable has the shape its Go counterpart has.
TypeOK ==
  /\ clients \subseteq Clients
  /\ fwd \in Table
  /\ disk \in [clients : SUBSET Clients, fwd : Table]
  /\ runner \in Table
  /\ txn \in Txn
  /\ pend \subseteq Ids
  /\ replying \subseteq Ids

Exclusive(tbl) ==
  /\ \A i, j \in Used(tbl) : i # j => ~Overlap(tbl[i], tbl[j])
  /\ \A i \in Used(tbl) : tbl[i].port \notin Reserved

Owned(cs, tbl) ==
  /\ \A i \in Used(tbl) : tbl[i].client \in cs
  /\ \A i, j \in Used(tbl) :
       tbl[i].group = tbl[j].group => tbl[i].client = tbl[j].client

\* The listener a table asks for under an id.
Wanted(tbl, i) == IF i \in Used(tbl) /\ tbl[i].enabled THEN tbl[i] ELSE None

\* No two forwards ever need the same public socket and none needs one of the
\* server's own ports, in memory and in the state file: PortConflict,
\* groupPortConflict and reservedPort keep it so although they are checked
\* against a table that group changes, deletions and failed saves alter.
SocketsExclusive == Exclusive(fwd) /\ Exclusive(disk.fwd)

\* Every forward belongs to a client that exists and a group never spans two
\* clients, in memory and in the state file: handleDeleteClient takes the
\* forwards along and handleUpdateForward refuses to move one group member.
ForwardsOwned == Owned(clients, fwd) /\ Owned(disk.clients, disk.fwd)

\* Outside a group change the listeners are exactly those the table asks for,
\* apart from the ones a deleting handler is about to close.  It needs binds
\* and saves that succeed; the changes that fail are then the ones refused
\* because of a listener that is still to be removed, and ApplyGroup's rollback
\* must have put every listener back.
ListenersMatch ==
  Unlocked =>
    \A i \in Ids \ pend : runner[i] = Wanted(fwd, i)

\* A listener is never left behind: it serves a forward of the table, or its
\* handler is about to remove it, or a group change has just started it.
NoOrphanListener ==
  \A i \in Used(runner) :
    i \in Used(fwd) \cup pend \cup Used(txn.next)

\* Every call of the tunnel returns, those that stop a UDP listener too.
StopsReturn == (\A i \in Ids : WF_vars(RemovePending(i))) /\ WF_vars(GroupWalk)

\* No call of the tunnel hangs: the calls return, or there is in the end no
\* UDP listener that one could wait for.
NoneHangs == StopsReturn \/ <>[]~UdpListening

\* A listener whose forward is gone is closed (or gets its forward: a group
\* change in progress), whatever else happens, as long as no stop() hangs on a
\* UDP listener.
DeletedPortCloses ==
  NoneHangs =>
    \A i \in Ids : (i \in Used(runner) \ Used(fwd)) ~> (i \notin Used(runner) \/ i \in Used(fwd))

\* A group change ends and releases the store's lock, whichever of its members
\* cannot be bound, as long as no stop() hangs on a UDP listener.
GroupChangeEnds == NoneHangs => (txn.op # "idle" ~> Unlocked)

=============================================================================
