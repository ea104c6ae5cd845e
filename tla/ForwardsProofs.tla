---------------------------- MODULE ForwardsProofs ----------------------------
(***************************************************************************)
(* Proofs about Forwards, for any number of clients, ids and ports, in     *)
(* three parts.                                                            *)
(*                                                                         *)
(* The table.  Whatever fails, sockets are promised once and every forward *)
(* has its client.                                                         *)
(*                                                                         *)
(* The listeners.  When binds and saves succeed, the listeners follow the  *)
(* table: a group change is all or nothing, and outside one the listeners  *)
(* are those the table asks for.                                           *)
(*                                                                         *)
(* Orphans.  When saves succeed, no listener is left behind, whatever      *)
(* binds fail.  The property speaks of ids only, so the argument follows   *)
(* the set of ids that have a listener through every call of the tunnel.   *)
(* It is not inductive for a group change: a commit forgets the members    *)
(* that dropped out, an abort forgets the new ones, so the invariant says  *)
(* that the former are stopped and the latter undone by then.              *)
(***************************************************************************)
EXTENDS Forwards, TLAPS

-----------------------------------------------------------------------------
(* The inductive invariant of the table *)

\* What a group change in progress has checked stays true while it holds the
\* store's lock: the members it will commit fit the rest of the table.
ChangeSound ==
  LET next == txn.next
      news == Used(next) IN
  /\ Unlocked => news = {}
  /\ ~Unlocked => txn.group \in Ids
  /\ Exclusive(next)
  /\ \A i \in news :
       /\ next[i].group = txn.group
       /\ next[i].client \in clients
       /\ i \in Used(fwd) => i \in Members(txn.group)
       /\ ~GroupPortConflict(txn.group, next[i])
  /\ \A i, j \in news : next[i].client = next[j].client

SafetyInv == TypeOK /\ SocketsExclusive /\ ForwardsOwned /\ ChangeSound

-----------------------------------------------------------------------------
(* Lemmas about the operators *)

\* Needing the same socket is symmetric.
LEMMA OverlapSymmetric ==
  ASSUME NEW f, NEW o
  PROVE  Overlap(f, o) <=> Overlap(o, f)
BY DEF Overlap

\* A member of an expansion carries one entry and the group-level fields.
LEMMA ExpansionMember ==
  ASSUME NEW g \in Ids, NEW es \in PortSpecs, NEW m \in Namings(g, es),
         NEW c \in Clients, NEW t \in Targets, NEW en \in BOOLEAN
  PROVE  LET next == Expansion(g, m, c, t, en) IN
         /\ next \in Table
         /\ \A i \in Used(next) :
              \E e \in es :
                /\ m[e] = i
                /\ next[i].port = e.port /\ next[i].proto = e.proto
                /\ next[i].client = c /\ next[i].group = g
<1> DEFINE next == Expansion(g, m, c, t, en)
           val(e) == [client |-> c, group |-> g, port |-> e.port,
                      proto |-> e.proto, target |-> t, enabled |-> en]
<1>1. m \in [es -> Ids] /\ es \subseteq Entry
  BY DEF Namings, PortSpecs
<1>2. \A e \in es : val(e) \in Forward
  BY <1>1 DEF Forward, Entry
<1>3. \A i \in Ids : (next[i] = None /\ ~\E e \in es : m[e] = i)
                     \/ \E e \in es : m[e] = i /\ next[i] = val(e)
  <2> TAKE i \in Ids
  <2>1. CASE \E e \in es : m[e] = i
    <3> DEFINE e0 == CHOOSE x \in es : m[x] = i
    <3>1. e0 \in es /\ m[e0] = i
      BY <2>1
    <3>2. next[i] = val(e0)
      BY <1>1, <2>1 DEF Expansion
    <3> QED BY <3>1, <3>2
  <2>2. CASE ~\E e \in es : m[e] = i
    BY <1>1, <2>2 DEF Expansion
  <2> QED BY <2>1, <2>2
<1>4. next \in Table
  <2>1. next = [i \in Ids |-> next[i]]
    BY DEF Expansion
  <2>2. \A i \in Ids : next[i] \in Forward \cup {None}
    BY <1>2, <1>3
  <2> HIDE DEF next
  <2> QED BY <2>1, <2>2 DEF Table
<1>5. \A e \in es : /\ val(e).port = e.port /\ val(e).proto = e.proto
                    /\ val(e).client = c /\ val(e).group = g
  OBVIOUS
<1> HIDE DEF val, next
<1>6. \A i \in Used(next) :
        \E e \in es : /\ m[e] = i
                      /\ next[i].port = e.port /\ next[i].proto = e.proto
                      /\ next[i].client = c /\ next[i].group = g
  BY <1>3, <1>5 DEF Used
<1> QED BY <1>4, <1>6 DEF next

\* A group change that passed its checks satisfies ChangeSound.
LEMMA ChangeGroupSound ==
  ASSUME SafetyInv,
         NEW g \in Ids, NEW es \in PortSpecs, NEW m \in Namings(g, es),
         NEW c \in Clients, NEW t \in Targets, NEW en \in BOOLEAN,
         ChangeGroup(g, m, c, t, en)
  PROVE  txn' \in Txn /\ ChangeSound'
<1> PICK next : next = Expansion(g, m, c, t, en)
  OBVIOUS
<1>0. m \in [es -> Ids] /\ DOMAIN m = es /\ es \subseteq Entry
  BY DEF Namings, PortSpecs
<1>1. next \in Table
  BY ExpansionMember
<1>2. \A i \in Used(next) :
        \E e \in es :
          /\ m[e] = i
          /\ next[i].port = e.port /\ next[i].proto = e.proto
          /\ next[i].client = c /\ next[i].group = g
  BY ExpansionMember
<1>3. txn' = [op |-> "forward", group |-> g, next |-> next,
              first |-> Members(g) \ Used(next), then |-> Used(next)]
      /\ UNCHANGED <<clients, fwd>>
  BY DEF ChangeGroup
<1>4. txn' \in Txn
  BY <1>1, <1>3 DEF Txn, Members, MembersIn, Used
<1>5. Exclusive(next)
  <2>1. \A i, j \in Used(next) : i # j => ~Overlap(next[i], next[j])
    <3> SUFFICES ASSUME NEW i \in Used(next), NEW j \in Used(next), i # j
                 PROVE  ~Overlap(next[i], next[j])
      OBVIOUS
    <3>1. PICK e \in es : m[e] = i /\ next[i].port = e.port /\ next[i].proto = e.proto
      BY <1>2
    <3>2. PICK o \in es : m[o] = j /\ next[j].port = o.port /\ next[j].proto = o.proto
      BY <1>2
    <3>3. e # o /\ ~Overlap(e, o)
      BY <3>1, <3>2 DEF PortSpecs
    <3> QED BY <3>1, <3>2, <3>3 DEF Overlap, HasTCP, HasUDP
  <2>2. \A i \in Used(next) : next[i].port \notin Reserved
    <3>1. \A e \in es : e.port \notin Reserved
      BY <1>0 DEF ChangeGroup
    <3> QED BY <3>1, <1>2
  <2> QED BY <2>1, <2>2 DEF Exclusive
<1>6. \A i \in Used(next) : i \in Used(fwd) => i \in Members(g)
  <2> SUFFICES ASSUME NEW i \in Used(next), i \in Used(fwd)
               PROVE  i \in Members(g)
    OBVIOUS
  <2>1. PICK e \in es : m[e] = i
    BY <1>2
  <2> DEFINE old == {k \in Members(g) : fwd[k].port = e.port /\ fwd[k].proto = e.proto}
  <2>2. CASE old = {}
    <3>1. Fresh(m[e])
      BY <2>2 DEF Namings
    <3> QED BY <2>1, <3>1 DEF Fresh
  <2>3. CASE old # {}
    <3>1. m[e] \in old
      BY <2>3 DEF Namings
    <3> QED BY <2>1, <3>1
  <2> QED BY <2>2, <2>3
<1>7. \A i \in Used(next) : /\ next[i].group = g /\ next[i].client = c
                            /\ c \in clients
                            /\ ~GroupPortConflict(g, next[i])
  <2>1. c \in clients /\ \A i \in Used(next) : ~GroupPortConflict(g, next[i])
    BY DEF ChangeGroup
  <2>2. \A i \in Used(next) : next[i].group = g /\ next[i].client = c
    BY <1>2
  <2> QED BY <2>1, <2>2
<1>8. /\ txn'.next = next /\ txn'.group = g /\ txn'.op = "forward"
      /\ clients' = clients /\ fwd' = fwd
  BY <1>3
<1>9. ChangeSound'
  BY <1>5, <1>6, <1>7, <1>8
     DEF ChangeSound, Unlocked, Used, Members, MembersIn, GroupPortConflict, Exclusive
<1> QED BY <1>4, <1>9

\* Tables without some of their forwards keep what holds of all of them.
LEMMA WithoutSound ==
  ASSUME SafetyInv, NEW gone
  PROVE  /\ Without(gone) \in Table
         /\ Exclusive(Without(gone))
         /\ Owned(clients, Without(gone))
         /\ Used(Without(gone)) = Used(fwd) \ gone
         /\ \A i \in Used(Without(gone)) : Without(gone)[i] = fwd[i]
<1>1. fwd \in Table /\ Exclusive(fwd) /\ Owned(clients, fwd)
  BY DEF SafetyInv, TypeOK, SocketsExclusive, ForwardsOwned
<1>2. Without(gone) \in Table
  BY <1>1 DEF Without, Table
<1>3. /\ Used(Without(gone)) = Used(fwd) \ gone
      /\ \A i \in Used(Without(gone)) : Without(gone)[i] = fwd[i]
  BY <1>1 DEF Without, Used
<1>4. Exclusive(Without(gone)) /\ Owned(clients, Without(gone))
  BY <1>1, <1>3 DEF Exclusive, Owned
<1> QED BY <1>2, <1>3, <1>4

\* Writing an acceptable value for one id keeps the table exclusive.
LEMMA AcceptableSound ==
  ASSUME SafetyInv, NEW i \in Ids, NEW f \in Forward, Acceptable(i, f)
  PROVE  /\ [fwd EXCEPT ![i] = f] \in Table
         /\ Exclusive([fwd EXCEPT ![i] = f])
         /\ Used([fwd EXCEPT ![i] = f]) = Used(fwd) \cup {i}
<1> DEFINE tbl == [fwd EXCEPT ![i] = f]
<1>1. fwd \in Table /\ Exclusive(fwd)
  BY DEF SafetyInv, TypeOK, SocketsExclusive
<1>2. tbl \in Table
  BY <1>1 DEF Table
<1>3. tbl[i] = f /\ \A j \in Ids \ {i} : tbl[j] = fwd[j]
  BY <1>1 DEF Table
<1> HIDE DEF tbl
<1>4. Used(tbl) = Used(fwd) \cup {i}
  BY <1>3, NoneAssumption DEF Used
<1>5. \A j \in Used(fwd) \ {i} : ~Overlap(f, fwd[j]) /\ ~Overlap(fwd[j], f)
  BY OverlapSymmetric DEF Acceptable, PortConflict
<1>6. f.port \notin Reserved
  BY DEF Acceptable
<1>7. \A j \in Used(tbl) : j = i \/ (j # i /\ j \in Used(fwd) /\ tbl[j] = fwd[j])
  BY <1>3, <1>4 DEF Used
<1>8. Exclusive(tbl)
  BY <1>1, <1>3, <1>5, <1>6, <1>7 DEF Exclusive
<1> QED BY <1>2, <1>4, <1>8 DEF tbl

\* Whether or not the save succeeds, memory and the file stay sound.
LEMMA UpdateSound ==
  ASSUME SafetyInv, NEW cs \in SUBSET Clients, NEW tbl \in Table,
         Exclusive(tbl), Owned(cs, tbl),
         Saved(cs, tbl) \/ SaveFails(cs, tbl)
  PROVE  /\ clients' = cs /\ fwd' = tbl
         /\ disk' \in [clients : SUBSET Clients, fwd : Table]
         /\ SocketsExclusive' /\ ForwardsOwned'
<1>1. clients' = cs /\ fwd' = tbl
  BY DEF Saved, SaveFails
<1>2. /\ disk \in [clients : SUBSET Clients, fwd : Table]
      /\ Exclusive(disk.fwd) /\ Owned(disk.clients, disk.fwd)
  BY DEF SafetyInv, TypeOK, SocketsExclusive, ForwardsOwned
<1>3. disk' = disk \/ disk' = [clients |-> cs, fwd |-> tbl]
  BY DEF Saved, SaveFails
<1>4. /\ disk' \in [clients : SUBSET Clients, fwd : Table]
      /\ Exclusive(disk'.fwd) /\ Owned(disk'.clients, disk'.fwd)
  <2>1. CASE disk' = disk
    BY <1>2, <2>1
  <2>2. CASE disk' = [clients |-> cs, fwd |-> tbl]
    BY <2>2
  <2> QED BY <1>3, <2>1, <2>2
<1>5. Exclusive(fwd') /\ Owned(clients', fwd')
  BY <1>1
<1> QED BY <1>1, <1>4, <1>5
        DEF SocketsExclusive, ForwardsOwned, Exclusive, Owned, Used

\* Every call into the tunnel leaves a table of listeners.
LEMMA RunnerType ==
  ASSUME SafetyInv, NEW i \in Ids, NEW f \in Forward \cup {None},
         \/ ApplyOk(i, f) /\ f \in Forward
         \/ ApplyFails(i, f) /\ f \in Forward
         \/ Remove(i)
  PROVE  runner' \in Table
<1>1. runner \in Table
  BY DEF SafetyInv, TypeOK
<1>2. CASE ApplyOk(i, f) /\ f \in Forward
  BY <1>1, <1>2 DEF ApplyOk, Table
<1>3. CASE ApplyFails(i, f) /\ f \in Forward
  BY <1>1, <1>3 DEF ApplyFails, Table
<1>4. CASE Remove(i)
  BY <1>1, <1>4 DEF Remove, Table
<1> QED BY <1>2, <1>3, <1>4

\* While no group change runs, ChangeSound asks nothing of the store.
LEMMA IdleSound ==
  ASSUME SafetyInv, Unlocked, txn' = txn
  PROVE  txn' \in Txn /\ ChangeSound'
<1>1. txn \in Txn /\ Used(txn.next) = {} /\ txn.op = "idle"
  BY DEF SafetyInv, TypeOK, ChangeSound, Unlocked
<1>2. txn' \in Txn /\ txn'.op = "idle" /\ Used(txn'.next) = {}
  BY <1>1
<1> QED BY <1>2 DEF ChangeSound, Unlocked, Exclusive, Used

\* The state without a change is sound.
LEMMA NoChangeSound ==
  ASSUME txn' = NoChange
  PROVE  txn' \in Txn /\ ChangeSound'
<1>1. NoChange \in Txn /\ NoChange.op = "idle" /\ Used(NoChange.next) = {}
  BY DEF NoChange, Txn, Table, Used
<1>2. txn' \in Txn /\ txn'.op = "idle" /\ Used(txn'.next) = {}
  BY <1>1
<1> QED BY <1>2 DEF ChangeSound, Unlocked, Exclusive, Used

\* A step of a group change that leaves the store alone keeps ChangeSound.
LEMMA SameChangeSound ==
  ASSUME SafetyInv, txn' \in Txn, txn'.next = txn.next, txn'.group = txn.group,
         txn'.op # "idle", txn.op # "idle",
         UNCHANGED <<clients, fwd>>
  PROVE  ChangeSound'
BY DEF SafetyInv, ChangeSound, Unlocked, Used, Members, MembersIn,
       GroupPortConflict, Exclusive

\* Committing a group change gives a sound table.
LEMMA CommitSound ==
  ASSUME SafetyInv, txn.op # "idle", NEW tbl,
         tbl = [i \in Ids |->
                  IF i \in Used(txn.next) THEN txn.next[i]
                  ELSE IF i \in Members(txn.group) THEN None ELSE fwd[i]]
  PROVE  tbl \in Table /\ Exclusive(tbl) /\ Owned(clients, tbl)
<1> DEFINE next == txn.next
           news == Used(next)
           olds == Used(fwd) \ Members(txn.group)
<1>1. /\ fwd \in Table /\ next \in Table
      /\ Exclusive(fwd) /\ Owned(clients, fwd) /\ Exclusive(next)
      /\ ChangeSound
  BY DEF SafetyInv, TypeOK, SocketsExclusive, ForwardsOwned, ChangeSound, Txn
<1>2. tbl \in Table
  BY <1>1 DEF Table
<1>3. \A i \in Used(tbl) :
        \/ i \in news /\ tbl[i] = next[i]
        \/ i \in olds /\ tbl[i] = fwd[i]
  BY DEF Used
<1>4. \A i \in news, j \in olds :
        ~Overlap(next[i], fwd[j]) /\ ~Overlap(fwd[j], next[i])
  BY <1>1, OverlapSymmetric DEF ChangeSound, GroupPortConflict
<1>5. \A j \in olds : fwd[j].group # txn.group
  BY DEF Members, MembersIn
<1>6. \A i \in news : next[i].group = txn.group /\ next[i].client \in clients
  BY <1>1 DEF ChangeSound
<1>7. \A i, j \in news : next[i].client = next[j].client
  BY <1>1 DEF ChangeSound
<1>8. olds \subseteq Used(fwd)
  OBVIOUS
<1> HIDE DEF next, news, olds
<1>9. Exclusive(tbl)
  <2>1. \A i, j \in Used(tbl) : i # j => ~Overlap(tbl[i], tbl[j])
    <3> SUFFICES ASSUME NEW i \in Used(tbl), NEW j \in Used(tbl), i # j
                 PROVE  ~Overlap(tbl[i], tbl[j])
      OBVIOUS
    <3>1. CASE i \in news /\ tbl[i] = next[i] /\ j \in news /\ tbl[j] = next[j]
      BY <1>1, <3>1 DEF Exclusive, news
    <3>2. CASE i \in news /\ tbl[i] = next[i] /\ j \in olds /\ tbl[j] = fwd[j]
      BY <1>4, <3>2
    <3>3. CASE i \in olds /\ tbl[i] = fwd[i] /\ j \in news /\ tbl[j] = next[j]
      BY <1>4, <3>3
    <3>4. CASE i \in olds /\ tbl[i] = fwd[i] /\ j \in olds /\ tbl[j] = fwd[j]
      BY <1>1, <1>8, <3>4 DEF Exclusive
    <3> QED BY <1>3, <3>1, <3>2, <3>3, <3>4
  <2>2. \A i \in Used(tbl) : tbl[i].port \notin Reserved
    BY <1>1, <1>3, <1>8 DEF Exclusive, news
  <2> QED BY <2>1, <2>2 DEF Exclusive
<1>10. Owned(clients, tbl)
  <2>1. \A i \in Used(tbl) : tbl[i].client \in clients
    BY <1>1, <1>3, <1>6, <1>8 DEF Owned
  <2>2. \A i, j \in Used(tbl) :
          tbl[i].group = tbl[j].group => tbl[i].client = tbl[j].client
    <3> SUFFICES ASSUME NEW i \in Used(tbl), NEW j \in Used(tbl),
                        tbl[i].group = tbl[j].group
                 PROVE  tbl[i].client = tbl[j].client
      OBVIOUS
    <3>1. CASE i \in news /\ tbl[i] = next[i] /\ j \in news /\ tbl[j] = next[j]
      BY <1>7, <3>1
    <3>2. CASE i \in news /\ tbl[i] = next[i] /\ j \in olds /\ tbl[j] = fwd[j]
      BY <1>5, <1>6, <3>2
    <3>3. CASE i \in olds /\ tbl[i] = fwd[i] /\ j \in news /\ tbl[j] = next[j]
      BY <1>5, <1>6, <3>3
    <3>4. CASE i \in olds /\ tbl[i] = fwd[i] /\ j \in olds /\ tbl[j] = fwd[j]
      BY <1>1, <1>8, <3>4 DEF Owned
    <3> QED BY <1>3, <3>1, <3>2, <3>3, <3>4
  <2> QED BY <2>1, <2>2 DEF Owned
<1> QED BY <1>2, <1>9, <1>10

-----------------------------------------------------------------------------
(* The invariant is inductive *)

\* The empty server of the first start satisfies the invariant.
LEMMA InitSafety == Init => SafetyInv
<1> SUFFICES ASSUME Init PROVE SafetyInv
  OBVIOUS
<1> DEFINE empty == [i \in Ids |-> None]
<1>1. empty \in Table /\ Used(empty) = {}
  BY DEF Table, Used
<1>2. TypeOK
  BY <1>1 DEF Init, TypeOK, NoChange, Txn
<1>3. SocketsExclusive /\ ForwardsOwned
  BY <1>1 DEF Init, SocketsExclusive, ForwardsOwned, Exclusive, Owned
<1>4. ChangeSound
  BY <1>1 DEF Init, NoChange, ChangeSound, Unlocked, Exclusive
<1> QED BY <1>2, <1>3, <1>4 DEF SafetyInv

\* The actions that write the store while no group change runs.
LEMMA StoreActionsSafe ==
  ASSUME SafetyInv, NEW cs \in SUBSET Clients, NEW tbl \in Table,
         Exclusive(tbl), Owned(cs, tbl),
         Saved(cs, tbl) \/ SaveFails(cs, tbl),
         Unlocked, txn' = txn,
         runner' \in Table, pend' \subseteq Ids, replying' \subseteq Ids
  PROVE  SafetyInv'
<1>1. /\ clients' = cs /\ fwd' = tbl
      /\ disk' \in [clients : SUBSET Clients, fwd : Table]
      /\ SocketsExclusive' /\ ForwardsOwned'
  BY UpdateSound
<1>2. txn' \in Txn /\ ChangeSound'
  BY IdleSound
<1> QED BY <1>1, <1>2 DEF SafetyInv, TypeOK

\* The actions that leave the store alone.
LEMMA TunnelActionsSafe ==
  ASSUME SafetyInv, UNCHANGED <<clients, fwd, disk>>,
         txn' \in Txn, ChangeSound',
         runner' \in Table, pend' \subseteq Ids, replying' \subseteq Ids
  PROVE  SafetyInv'
<1>1. SocketsExclusive' /\ ForwardsOwned'
  BY DEF SafetyInv, SocketsExclusive, ForwardsOwned, Exclusive, Owned, Used
<1> QED BY <1>1 DEF SafetyInv, TypeOK

\* Every step of the server keeps the invariant.
LEMMA NextSafety == SafetyInv /\ [Next]_vars => SafetyInv'
<1> SUFFICES ASSUME SafetyInv, [Next]_vars PROVE SafetyInv'
  OBVIOUS
<1>0. /\ TypeOK
      /\ clients \in SUBSET Clients /\ fwd \in Table /\ runner \in Table
      /\ txn \in Txn /\ pend \subseteq Ids /\ replying \subseteq Ids
      /\ Exclusive(fwd) /\ Owned(clients, fwd)
  BY DEF SafetyInv, TypeOK, SocketsExclusive, ForwardsOwned
<1>1. ASSUME NEW c \in Clients, CreateClient(c) PROVE SafetyInv'
  <2>1. Owned(clients \cup {c}, fwd)
    BY <1>0 DEF Owned
  <2>2. /\ runner' = runner /\ txn' = txn /\ pend' = pend /\ replying' = replying
        /\ Unlocked
        /\ Saved(clients \cup {c}, fwd) \/ SaveFails(clients \cup {c}, fwd)
    BY <1>1 DEF CreateClient
  <2> QED BY <1>0, <2>1, <2>2, StoreActionsSafe
<1>2. ASSUME NEW c \in Clients, DeleteClient(c) PROVE SafetyInv'
  <2> DEFINE gone == {i \in Used(fwd) : fwd[i].client = c}
  <2>1. /\ Without(gone) \in Table /\ Exclusive(Without(gone))
        /\ Owned(clients \ {c}, Without(gone))
    BY WithoutSound DEF Owned
  <2>2. /\ Saved(clients \ {c}, Without(gone)) \/ SaveFails(clients \ {c}, Without(gone))
        /\ Unlocked /\ txn' = txn /\ runner' = runner /\ replying' = replying
    BY <1>2 DEF DeleteClient
  <2>3. pend' \subseteq Ids
    BY <1>0, <1>2 DEF DeleteClient, Used
  <2> QED BY <1>0, <2>1, <2>2, <2>3, StoreActionsSafe
<1>3. ASSUME NEW i \in Ids, NEW f \in Forward, CreateForward(i, f) PROVE SafetyInv'
  <2> DEFINE tbl == [fwd EXCEPT ![i] = f]
  <2>1. tbl \in Table /\ Exclusive(tbl) /\ Used(tbl) = Used(fwd) \cup {i}
    BY <1>3, AcceptableSound DEF CreateForward
  <2>2. Owned(clients, tbl)
    <3>1. \A j \in Used(fwd) : j # i /\ fwd[j].group # f.group
      BY <1>3 DEF CreateForward, Fresh, Members, MembersIn
    <3>2. f.client \in clients
      BY <1>3 DEF CreateForward, Acceptable
    <3>3. tbl[i] = f /\ \A j \in Used(fwd) : tbl[j] = fwd[j]
      BY <1>0, <3>1 DEF Table, Used
    <3> HIDE DEF tbl
    <3> QED BY <1>0, <2>1, <3>1, <3>2, <3>3 DEF Owned
  <2>3. /\ Saved(clients, tbl) \/ SaveFails(clients, tbl)
        /\ Unlocked /\ txn' = txn /\ replying' = replying
    BY <1>3 DEF CreateForward
  <2>4. pend' \subseteq Ids
    BY <1>0, <1>3 DEF CreateForward
  <2>5. runner' \in Table
    BY <1>3, RunnerType DEF CreateForward
  <2> HIDE DEF tbl
  <2> QED BY <1>0, <2>1, <2>2, <2>3, <2>4, <2>5, StoreActionsSafe
<1>4. ASSUME NEW i \in Ids, NEW f \in Forward, UpdateForward(i, f) PROVE SafetyInv'
  <2> DEFINE tbl == [fwd EXCEPT ![i] = f]
  <2>1. tbl \in Table /\ Exclusive(tbl) /\ Used(tbl) = Used(fwd) \cup {i}
    BY <1>4, AcceptableSound DEF UpdateForward
  <2>2. Owned(clients, tbl)
    <3>1. i \in Used(fwd) /\ f.group = fwd[i].group /\ f.client \in clients
      BY <1>4 DEF UpdateForward, Acceptable
    <3>2. tbl[i] = f /\ \A j \in Used(fwd) \ {i} : tbl[j] = fwd[j]
      BY <1>0 DEF Table, Used
    <3>3. \A j \in Used(fwd) \ {i} : fwd[j].group = f.group => fwd[j].client = f.client
      <4> SUFFICES ASSUME NEW j \in Used(fwd) \ {i}, fwd[j].group = f.group
                   PROVE  fwd[j].client = f.client
        OBVIOUS
      <4>1. j \in Members(fwd[i].group)
        BY <3>1 DEF Members, MembersIn
      <4>2. f.client = fwd[i].client
        BY <1>4, <4>1 DEF UpdateForward, MayMove
      <4>3. fwd[j].client = fwd[i].client
        BY <1>0, <3>1 DEF Owned
      <4> QED BY <4>2, <4>3
    <3> HIDE DEF tbl
    <3> QED BY <1>0, <2>1, <3>1, <3>2, <3>3 DEF Owned
  <2>3. /\ Unlocked /\ txn' = txn /\ pend' = pend /\ replying' = replying
    BY <1>4 DEF UpdateForward
  <2>4. runner' \in Table
    BY <1>4, RunnerType DEF UpdateForward
  <2>5. \/ Saved(clients, tbl) \/ SaveFails(clients, tbl)
        \/ UNCHANGED <<clients, fwd, disk>>
    BY <1>4 DEF UpdateForward
  <2> HIDE DEF tbl
  <2>6. CASE Saved(clients, tbl) \/ SaveFails(clients, tbl)
    BY <1>0, <2>1, <2>2, <2>3, <2>4, <2>6, StoreActionsSafe
  <2>7. CASE UNCHANGED <<clients, fwd, disk>>
    BY <1>0, <2>3, <2>4, <2>7, IdleSound, TunnelActionsSafe
  <2> QED BY <2>5, <2>6, <2>7
<1>5. ASSUME NEW i \in Ids, DeleteForward(i) PROVE SafetyInv'
  <2>1. /\ Saved(clients, Without({i})) \/ SaveFails(clients, Without({i}))
        /\ Unlocked /\ txn' = txn /\ runner' = runner /\ replying' = replying
    BY <1>5 DEF DeleteForward
  <2>2. pend' \subseteq Ids
    BY <1>0, <1>5 DEF DeleteForward
  <2>3. /\ Without({i}) \in Table /\ Exclusive(Without({i}))
        /\ Owned(clients, Without({i}))
    BY WithoutSound
  <2> QED BY <1>0, <2>1, <2>2, <2>3, StoreActionsSafe
<1>6. ASSUME NEW i \in Ids, RemovePending(i) PROVE SafetyInv'
  <2>1. runner' \in Table
    BY <1>6, RunnerType DEF RemovePending
  <2>2. ChangeSound'
    BY <1>6 DEF RemovePending, SafetyInv, ChangeSound, Unlocked, Used, Members,
                MembersIn, GroupPortConflict, Exclusive
  <2> QED BY <1>0, <1>6, <2>1, <2>2, TunnelActionsSafe DEF RemovePending
<1>7. ASSUME NEW g \in Ids, CreateGroup(g) \/ UpdateGroup(g) PROVE SafetyInv'
  <2>1. PICK es \in PortSpecs, c \in Clients, t \in Targets, en \in BOOLEAN :
          \E m \in Namings(g, es) : ChangeGroup(g, m, c, t, en)
    BY <1>7 DEF CreateGroup, UpdateGroup
  <2>2. PICK m \in Namings(g, es) : ChangeGroup(g, m, c, t, en)
    BY <2>1
  <2>3. txn' \in Txn /\ ChangeSound'
    BY <2>2, ChangeGroupSound
  <2> QED BY <1>0, <2>2, <2>3, TunnelActionsSafe DEF ChangeGroup
<1>8. ASSUME NEW i \in Ids, GroupStop(i) PROVE SafetyInv'
  <2>1. txn' \in Txn /\ txn'.next = txn.next /\ txn'.group = txn.group
        /\ txn'.op = "forward" /\ txn.op = "forward"
    BY <1>0, <1>8 DEF GroupStop, Txn
  <2>2. runner' \in Table
    BY <1>8, RunnerType DEF GroupStop
  <2>3. ChangeSound'
    BY <1>8, <2>1, SameChangeSound DEF GroupStop
  <2> QED BY <1>0, <1>8, <2>1, <2>2, <2>3, TunnelActionsSafe DEF GroupStop
<1>9. ASSUME NEW i \in Ids, GroupApply(i) PROVE SafetyInv'
  <2>1. txn' \in Txn /\ txn'.next = txn.next /\ txn'.group = txn.group
        /\ txn'.op # "idle" /\ txn.op # "idle"
    <3>1. txn.op = "forward"
      BY <1>9 DEF GroupApply
    <3>2. CASE txn' = [txn EXCEPT !.then = @ \ {i}]
      BY <1>0, <3>1, <3>2 DEF Txn
    <3>3. CASE txn' = [txn EXCEPT !.op = "back",
                                  !.first = Used(txn.next) \ txn.then,
                                  !.then = Members(txn.group) \ Used(txn.next)]
      <4>1. Used(txn.next) \subseteq Ids /\ Members(txn.group) \subseteq Ids
        BY DEF Members, MembersIn, Used
      <4>2. txn' = [op |-> "back", group |-> txn.group, next |-> txn.next,
                    first |-> Used(txn.next) \ txn.then,
                    then |-> Members(txn.group) \ Used(txn.next)]
        BY <1>0, <3>3 DEF Txn
      <4>3. txn.group \in Ids \cup {None} /\ txn.next \in Table
        BY <1>0 DEF Txn
      <4> QED BY <3>1, <4>1, <4>2, <4>3 DEF Txn
    <3> QED BY <1>9, <3>1, <3>2, <3>3 DEF GroupApply
  <2>2. runner' \in Table
    <3>1. txn.next \in Table
      BY <1>0 DEF Txn
    <3>2. txn.next[i] \in Forward \cup {None}
      BY <3>1 DEF Table
    <3>3. ApplyOk(i, txn.next[i]) \/ ApplyFails(i, txn.next[i])
      BY <1>9 DEF GroupApply
    <3>4. i \in txn.then
      BY <1>9 DEF GroupApply, Lowest
    <3> QED BY <1>0, <3>2, <3>3, RunnerType DEF ApplyOk, ApplyFails, Table
  <2>3. ChangeSound'
    BY <1>9, <2>1, SameChangeSound DEF GroupApply
  <2> QED BY <1>0, <1>9, <2>1, <2>2, <2>3, TunnelActionsSafe DEF GroupApply
<1>10. ASSUME NEW i \in Ids, GroupUndo(i) PROVE SafetyInv'
  <2>1. txn' \in Txn /\ txn'.next = txn.next /\ txn'.group = txn.group
        /\ txn'.op = "back" /\ txn.op = "back"
    BY <1>0, <1>10 DEF GroupUndo, Txn
  <2>2. runner' \in Table
    <3>1. CASE i \in Used(fwd) /\ (ApplyOk(i, fwd[i]) \/ ApplyFails(i, fwd[i]))
      <4>1. fwd[i] \in Forward
        BY <1>0, <3>1 DEF Table, Used
      <4> QED BY <3>1, <4>1, RunnerType
    <3>2. CASE Remove(i)
      BY <3>2, RunnerType
    <3> QED BY <1>10, <3>1, <3>2 DEF GroupUndo
  <2>3. ChangeSound'
    BY <1>10, <2>1, SameChangeSound DEF GroupUndo
  <2> QED BY <1>0, <1>10, <2>1, <2>2, <2>3, TunnelActionsSafe DEF GroupUndo
<1>11. ASSUME NEW i \in Ids, GroupReinstate(i) PROVE SafetyInv'
  <2>1. txn' \in Txn /\ txn'.next = txn.next /\ txn'.group = txn.group
        /\ txn'.op = "back" /\ txn.op = "back"
    BY <1>0, <1>11 DEF GroupReinstate, Txn
  <2>2. runner' \in Table
    <3>1. fwd[i] \in Forward \cup {None}
      BY <1>0 DEF Table
    <3> QED BY <1>0, <1>11, <3>1 DEF GroupReinstate, ApplyOk, ApplyFails, Table
  <2>3. ChangeSound'
    BY <1>11, <2>1, SameChangeSound DEF GroupReinstate
  <2> QED BY <1>0, <1>11, <2>1, <2>2, <2>3, TunnelActionsSafe DEF GroupReinstate
<1>12. ASSUME GroupCommit PROVE SafetyInv'
  <2> PICK tbl : tbl = [i \in Ids |->
                          IF i \in Used(txn.next) THEN txn.next[i]
                          ELSE IF i \in Members(txn.group) THEN None ELSE fwd[i]]
    OBVIOUS
  <2>1. tbl \in Table /\ Exclusive(tbl) /\ Owned(clients, tbl)
    BY <1>12, CommitSound DEF GroupCommit
  <2>2. /\ Saved(clients, tbl) \/ SaveFails(clients, tbl)
        /\ txn.op = "forward" /\ txn' = NoChange /\ runner' = runner /\ pend' = pend
        /\ replying' = replying \/ replying' = replying \cup {txn.group}
    BY <1>12 DEF GroupCommit
  <2>3. txn.group \in Ids
    BY <2>2 DEF SafetyInv, ChangeSound, Unlocked
  <2>4. /\ clients' = clients /\ fwd' = tbl
        /\ disk' \in [clients : SUBSET Clients, fwd : Table]
        /\ SocketsExclusive' /\ ForwardsOwned'
    BY <1>0, <2>1, <2>2, UpdateSound
  <2>5. txn' \in Txn /\ ChangeSound'
    BY <2>2, NoChangeSound
  <2> QED BY <1>0, <2>1, <2>2, <2>3, <2>4, <2>5 DEF SafetyInv, TypeOK
<1>13. ASSUME GroupAbort PROVE SafetyInv'
  BY <1>0, <1>13, NoChangeSound, TunnelActionsSafe DEF GroupAbort
<1>14. ASSUME NEW g \in Ids, DeleteGroup(g) PROVE SafetyInv'
  <2>1. /\ \/ Saved(clients, Without(Members(g)))
           \/ SaveFails(clients, Without(Members(g)))
        /\ Unlocked /\ txn' = txn /\ runner' = runner /\ replying' = replying
    BY <1>14 DEF DeleteGroup
  <2>2. pend' \subseteq Ids
    BY <1>0, <1>14 DEF DeleteGroup, Members, MembersIn, Used
  <2>3. /\ Without(Members(g)) \in Table /\ Exclusive(Without(Members(g)))
        /\ Owned(clients, Without(Members(g)))
    BY WithoutSound
  <2> QED BY <1>0, <2>1, <2>2, <2>3, StoreActionsSafe
<1>15. ASSUME NEW g \in Ids, Respond(g) PROVE SafetyInv'
  BY <1>0, <1>15, IdleSound, TunnelActionsSafe DEF Respond
<1>16. ASSUME Restart PROVE SafetyInv'
  <2>1. /\ clients' = disk.clients /\ fwd' = disk.fwd /\ disk' = disk
        /\ txn' = NoChange /\ pend' = {} /\ replying' = {}
    BY <1>16 DEF Restart
  <2>2. disk \in [clients : SUBSET Clients, fwd : Table]
    BY <1>0 DEF TypeOK
  <2>3. runner' \in Table
    <3>1. PICK up : runner' = [i \in Ids |-> IF i \in up THEN disk.fwd[i] ELSE None]
      BY <1>16 DEF Restart
    <3>2. disk.fwd \in Table
      BY <2>2
    <3> QED BY <3>1, <3>2 DEF Table
  <2>4. SocketsExclusive' /\ ForwardsOwned'
    BY <2>1 DEF SafetyInv, SocketsExclusive, ForwardsOwned, Exclusive, Owned, Used
  <2>5. txn' \in Txn /\ ChangeSound'
    BY <2>1, NoChangeSound
  <2> QED BY <2>1, <2>2, <2>3, <2>4, <2>5 DEF SafetyInv, TypeOK
<1>17. CASE UNCHANGED vars
  <2>1. ChangeSound'
    BY <1>17 DEF vars, SafetyInv, ChangeSound, Unlocked, Used, Members,
                 MembersIn, GroupPortConflict, Exclusive
  <2> QED BY <1>0, <1>17, <2>1, TunnelActionsSafe DEF vars
<1> QED
  BY <1>1, <1>2, <1>3, <1>4, <1>5, <1>6, <1>7, <1>8, <1>9, <1>10, <1>11,
     <1>12, <1>13, <1>14, <1>15, <1>16, <1>17 DEF Next

\* The invariant holds in every reachable state.
THEOREM Safety == Spec => []SafetyInv
BY InitSafety, NextSafety, PTL DEF Spec

\* Every reachable state has the types of the Go program's state.
THEOREM TypeCorrect == Spec => []TypeOK
BY Safety, PTL DEF SafetyInv

\* No two forwards ever need the same public socket and none needs one of the
\* server's own ports, in memory and in the state file, whatever fails.
THEOREM SocketsAlwaysExclusive == Spec => []SocketsExclusive
BY Safety, PTL DEF SafetyInv

\* Every forward belongs to an existing client and every group to one client,
\* in memory and in the state file, whatever fails.
THEOREM ForwardsAlwaysOwned == Spec => []ForwardsOwned
BY Safety, PTL DEF SafetyInv

-----------------------------------------------------------------------------
(* Listeners *)

Calm == ~BindMayFail /\ ~SaveMayFail

-----------------------------------------------------------------------------
(* The inductive invariant of the listeners *)

\* Where the listeners are while a group change moves them, given that binds
\* and saves succeed.  Going forward, the ids in txn.first still have their old
\* listener and so have the ids in txn.then; going back, the ids in txn.first
\* still have their new one and the ids in txn.then have none.
ChangeListeners ==
  LET next == txn.next
      news == Used(next)
      olds == Members(txn.group) \ news IN
  /\ \A i \in Ids \ (pend \cup news \cup olds) : runner[i] = Wanted(fwd, i)
  /\ \A i \in news \cap Used(fwd) :
       next[i].port = fwd[i].port /\ next[i].proto = fwd[i].proto
  /\ txn.op = "forward" =>
       /\ txn.first \subseteq olds /\ txn.then \subseteq news
       /\ \A i \in olds :
            runner[i] = IF i \in txn.first THEN Wanted(fwd, i) ELSE None
       /\ \A i \in news :
            runner[i] = IF i \in txn.then THEN Wanted(fwd, i) ELSE Wanted(next, i)
  /\ txn.op = "back" =>
       /\ txn.first \subseteq news /\ txn.then \subseteq olds
       /\ \A i \in news :
            runner[i] = IF i \in txn.first THEN Wanted(next, i) ELSE Wanted(fwd, i)
       /\ \A i \in olds :
            runner[i] = IF i \in txn.then THEN None ELSE Wanted(fwd, i)

\* The listeners that a deleting handler has still to close are in nobody's
\* way: no enabled forward of the table needs their sockets.
PendingApart ==
  /\ \A i \in pend : i \notin Used(fwd) \cup Used(txn.next)
  /\ \A i \in pend \cap Used(runner), j \in Used(fwd) :
       fwd[j].enabled => ~Overlap(runner[i], fwd[j])

RunnersApart ==
  /\ \A i \in Used(runner) : runner[i].enabled
  /\ \A i, j \in Used(runner) : i # j => ~Overlap(runner[i], runner[j])

ListenerInv ==
  /\ ListenersMatch
  /\ ~Unlocked => ChangeListeners
  /\ PendingApart
  /\ RunnersApart

-----------------------------------------------------------------------------
(* Lemmas about the tunnel's calls *)

\* Within a group, identical listeners are identical forwards.
LEMMA SameEqual ==
  ASSUME NEW f \in Forward, NEW o \in Forward, Same(f, o), f.group = o.group
  PROVE  f = o
BY DEF Forward, Same

\* A successful Apply leaves exactly the listener the forward asks for, on
\* sockets no other listener has.
LEMMA ApplyOkResult ==
  ASSUME SafetyInv, RunnersApart, NEW i \in Ids, NEW f \in Forward,
         i \in Used(runner) => runner[i].group = f.group,
         ApplyOk(i, f)
  PROVE  /\ runner' = [runner EXCEPT ![i] = IF f.enabled THEN f ELSE None]
         /\ f.enabled => \A j \in Used(runner) \ {i} : ~Overlap(f, runner[j])
<1>1. runner \in Table
  BY DEF SafetyInv, TypeOK
<1>2. CASE RunsSame(i, f) /\ runner' = runner
  <2>1. i \in Used(runner) /\ Same(runner[i], f) /\ runner[i] \in Forward
    BY <1>1, <1>2 DEF RunsSame, Used, Table
  <2>2. runner[i] = f
    BY <2>1, SameEqual
  <2>3. f.enabled
    BY <2>1, <2>2 DEF RunnersApart
  <2>4. runner = [runner EXCEPT ![i] = f]
    BY <1>1, <2>2 DEF Table
  <2> QED BY <1>2, <2>1, <2>2, <2>3, <2>4 DEF RunnersApart
<1>3. CASE ~RunsSame(i, f) /\ ~f.enabled /\ runner' = [runner EXCEPT ![i] = None]
  BY <1>3
<1>4. CASE ~RunsSame(i, f) /\ f.enabled /\ Bindable(i, f)
           /\ runner' = [runner EXCEPT ![i] = f]
  BY <1>4 DEF Bindable
<1> QED BY <1>2, <1>3, <1>4 DEF ApplyOk

\* With binds that succeed, a failed Apply changes nothing, and the reason is
\* a listener of our own.
LEMMA ApplyFailsResult ==
  ASSUME Calm, NEW i \in Ids, NEW f, ApplyFails(i, f)
  PROVE  runner' = runner /\ f.enabled /\ ~Bindable(i, f)
BY DEF Calm, ApplyFails

\* Replacing one listener by none, or by one on free sockets, keeps them apart.
LEMMA ApartStep ==
  ASSUME SafetyInv, RunnersApart, NEW i \in Ids, NEW v,
         runner' = [runner EXCEPT ![i] = v],
         \/ v = None
         \/ /\ v \in Forward /\ v.enabled
            /\ \A j \in Used(runner) \ {i} : ~Overlap(v, runner[j])
  PROVE  RunnersApart'
<1>1. runner \in Table
  BY DEF SafetyInv, TypeOK
<1>2. runner'[i] = v /\ \A j \in Ids \ {i} : runner'[j] = runner[j]
  BY <1>1 DEF Table
<1>3. \A j \in Ids : j \in Used(runner') <=> IF j = i THEN v # None ELSE j \in Used(runner)
  BY <1>2 DEF Used
<1>4. Used(runner') \subseteq Ids
  BY DEF Used
<1>5. CASE v = None
  BY <1>2, <1>3, <1>4, <1>5 DEF RunnersApart, Used
<1>6. CASE /\ v \in Forward /\ v.enabled
           /\ \A j \in Used(runner) \ {i} : ~Overlap(v, runner[j])
  <2>1. \A j \in Used(runner) \ {i} : ~Overlap(runner[j], v)
    BY <1>6, OverlapSymmetric
  <2>2. \A j \in Used(runner') : j = i \/ (j # i /\ j \in Used(runner) /\ runner'[j] = runner[j])
    BY <1>2, <1>3, <1>4
  <2>3. \A j \in Used(runner') : runner'[j].enabled
    BY <1>2, <1>6, <2>2 DEF RunnersApart
  <2>4. \A j, k \in Used(runner') : j # k => ~Overlap(runner'[j], runner'[k])
    BY <1>2, <1>6, <2>1, <2>2 DEF RunnersApart
  <2> QED BY <2>3, <2>4 DEF RunnersApart, Used
<1> QED BY <1>5, <1>6

\* While no group change runs, three facts give the whole invariant.
LEMMA IdleListeners ==
  ASSUME Unlocked', ListenersMatch', RunnersApart', Used(txn'.next) = {},
         pend' \cap Used(fwd') = {}
  PROVE  ListenerInv'
<1>1. \A i \in pend' \cap Used(runner'), j \in Used(fwd') :
        fwd'[j].enabled => ~Overlap(runner'[i], fwd'[j])
  <2> SUFFICES ASSUME NEW i \in pend' \cap Used(runner'), NEW j \in Used(fwd'),
                      fwd'[j].enabled
               PROVE  ~Overlap(runner'[i], fwd'[j])
    OBVIOUS
  <2>1. j \in Ids \ pend' /\ i # j /\ fwd'[j] # None
    BY DEF Used
  <2>2. runner'[j] = fwd'[j] /\ j \in Used(runner')
    BY <2>1 DEF ListenersMatch, Wanted, Used
  <2> QED BY <2>1, <2>2 DEF RunnersApart, Used
<1>2. PendingApart'
  BY <1>1 DEF PendingApart, Used
<1> QED BY <1>2 DEF ListenerInv

\* The ids of an expansion: a member of the group that had the same port and
\* protocol, or a new id.
LEMMA ExpansionIds ==
  ASSUME SafetyInv,
         NEW g \in Ids, NEW es \in PortSpecs, NEW m \in Namings(g, es),
         NEW c \in Clients, NEW t \in Targets, NEW en \in BOOLEAN,
         NEW next, next = Expansion(g, m, c, t, en)
  PROVE  \A i \in Used(next) :
           \/ /\ i \in Members(g)
              /\ next[i].port = fwd[i].port /\ next[i].proto = fwd[i].proto
           \/ Fresh(i)
<1> SUFFICES ASSUME NEW i \in Used(next), ~Fresh(i)
             PROVE  /\ i \in Members(g)
                    /\ next[i].port = fwd[i].port /\ next[i].proto = fwd[i].proto
  OBVIOUS
<1>1. PICK e \in es : m[e] = i /\ next[i].port = e.port /\ next[i].proto = e.proto
  BY ExpansionMember
<1> DEFINE old == {k \in Members(g) : fwd[k].port = e.port /\ fwd[k].proto = e.proto}
<1>2. old # {}
  BY <1>1 DEF Namings
<1>3. i \in old
  BY <1>1, <1>2 DEF Namings
<1> QED BY <1>1, <1>3

-----------------------------------------------------------------------------
(* Single forwards, clients and the process *)

\* A deletion that is saved leaves the listeners to a later Remove.
LEMMA DeletionListeners ==
  ASSUME SafetyInv, ListenerInv, Unlocked, NEW gone \in SUBSET Used(fwd),
         fwd' = Without(gone), pend' = pend \cup gone, UNCHANGED <<runner, txn>>
  PROVE  ListenerInv'
<1>1. /\ Used(fwd') = Used(fwd) \ gone
      /\ \A i \in Used(fwd') : fwd'[i] = fwd[i]
  BY WithoutSound
<1>2. Unlocked' /\ Used(txn'.next) = {}
  BY DEF Unlocked, SafetyInv, ChangeSound
<1>3. RunnersApart'
  BY DEF ListenerInv, RunnersApart, Used
<1>4. ListenersMatch'
  <2> SUFFICES ASSUME NEW i \in Ids \ pend' PROVE runner'[i] = Wanted(fwd, i)'
    BY DEF ListenersMatch
  <2>1. i \notin gone /\ runner[i] = Wanted(fwd, i)
    BY DEF ListenerInv, ListenersMatch
  <2> QED BY <1>1, <2>1 DEF Wanted
<1>5. pend' \cap Used(fwd') = {}
  BY <1>1 DEF ListenerInv, PendingApart
<1> QED BY <1>2, <1>3, <1>4, <1>5, IdleListeners

\* A saved value of a forward has the listener it asks for.
LEMMA WriteListeners ==
  ASSUME SafetyInv, ListenerInv, Unlocked, NEW i \in Ids \ pend, NEW f \in Forward,
         i \in Used(runner) => runner[i].group = f.group,
         ApplyOk(i, f), fwd' = [fwd EXCEPT ![i] = f], UNCHANGED <<pend, txn>>
  PROVE  ListenerInv'
<1> DEFINE v == IF f.enabled THEN f ELSE None
<1>0. RunnersApart /\ runner \in Table /\ fwd \in Table
  BY DEF ListenerInv, SafetyInv, TypeOK
<1>1. /\ runner' = [runner EXCEPT ![i] = v]
      /\ f.enabled => \A j \in Used(runner) \ {i} : ~Overlap(f, runner[j])
  BY <1>0, ApplyOkResult
<1>2. RunnersApart'
  <2>1. CASE f.enabled
    BY <1>0, <1>1, <2>1, ApartStep
  <2>2. CASE ~f.enabled
    BY <1>0, <1>1, <2>2, ApartStep
  <2> QED BY <2>1, <2>2
<1>3. /\ runner'[i] = v /\ \A j \in Ids \ {i} : runner'[j] = runner[j]
      /\ fwd'[i] = f /\ \A j \in Ids \ {i} : fwd'[j] = fwd[j]
  BY <1>0, <1>1 DEF Table
<1>4. ListenersMatch'
  <2> SUFFICES ASSUME NEW j \in Ids \ pend PROVE runner'[j] = Wanted(fwd, j)'
    BY DEF ListenersMatch
  <2>1. CASE j = i
    BY <1>3, <2>1, NoneAssumption DEF Wanted, Used
  <2>2. CASE j # i
    BY <1>3, <2>2 DEF Wanted, Used, ListenerInv, ListenersMatch
  <2> QED BY <2>1, <2>2
<1>5. Unlocked' /\ Used(txn'.next) = {}
  BY DEF Unlocked, SafetyInv, ChangeSound
<1>6. pend' \cap Used(fwd') = {}
  <2>1. \A j \in pend : j # i /\ j \in Ids /\ j \notin Used(fwd)
    BY DEF ListenerInv, PendingApart, SafetyInv, TypeOK
  <2> QED BY <1>3, <2>1 DEF Used
<1> QED BY <1>2, <1>4, <1>5, <1>6, IdleListeners

\* SyncAll starts every enabled forward: none of them is in another's way.
LEMMA RestartListeners ==
  ASSUME Calm, SafetyInv, Restart
  PROVE  ListenerInv'
<1> DEFINE enabled == {i \in Used(disk.fwd) : disk.fwd[i].enabled}
<1>1. disk.fwd \in Table /\ Exclusive(disk.fwd)
  BY DEF SafetyInv, TypeOK, SocketsExclusive
<1>2. PICK up \in SUBSET enabled :
        /\ \A i \in enabled \ up : \E j \in up : Overlap(disk.fwd[i], disk.fwd[j])
        /\ runner' = [i \in Ids |-> IF i \in up THEN disk.fwd[i] ELSE None]
  BY DEF Restart, Calm
<1>3. up = enabled
  <2> SUFFICES ASSUME NEW i \in enabled \ up PROVE FALSE
    OBVIOUS
  <2>1. PICK j \in up : Overlap(disk.fwd[i], disk.fwd[j])
    BY <1>2
  <2> QED BY <1>1, <2>1 DEF Exclusive
<1>4. /\ fwd' = disk.fwd /\ txn' = NoChange /\ pend' = {}
  BY DEF Restart
<1>5. \A i \in Ids : runner'[i] = Wanted(fwd, i)'
  BY <1>2, <1>3, <1>4 DEF Wanted
<1>6. \A i \in Used(runner') : i \in enabled /\ runner'[i] = disk.fwd[i]
  BY <1>2, <1>3 DEF Used
<1>7. RunnersApart'
  <2>1. \A i \in Used(runner') : runner'[i].enabled
    BY <1>6
  <2>2. \A i, j \in Used(runner') : i # j => ~Overlap(runner'[i], runner'[j])
    BY <1>1, <1>6 DEF Exclusive
  <2> QED BY <2>1, <2>2 DEF RunnersApart, Used
<1>8. ListenersMatch'
  BY <1>5 DEF ListenersMatch
<1>9. Unlocked' /\ Used(txn'.next) = {}
  BY <1>4 DEF NoChange, Unlocked, Used
<1> QED BY <1>4, <1>7, <1>8, <1>9, IdleListeners

\* Closing a listener that waits to be closed suits every phase.
LEMMA RemovePendingListeners ==
  ASSUME SafetyInv, ListenerInv, NEW i \in Ids, RemovePending(i)
  PROVE  ListenerInv'
<1>1. /\ i \in pend /\ pend' = pend \ {i}
      /\ fwd' = fwd /\ txn' = txn
      /\ runner' = [runner EXCEPT ![i] = None]
  BY DEF RemovePending, Remove
<1>2. runner \in Table /\ RunnersApart
  BY DEF SafetyInv, TypeOK, ListenerInv
<1>3. runner'[i] = None /\ \A j \in Ids \ {i} : runner'[j] = runner[j]
  BY <1>1, <1>2 DEF Table
<1>4. i \notin Used(fwd) \cup Used(txn.next)
  BY <1>1 DEF ListenerInv, PendingApart
<1>5. RunnersApart'
  BY <1>1, <1>2, ApartStep
<1>6. ListenersMatch'
  BY <1>1, <1>3, <1>4 DEF ListenersMatch, ListenerInv, Unlocked, Wanted
<1>7. ~Unlocked => ChangeListeners'
  <2> HAVE ~Unlocked
  <2>1. ChangeListeners
    BY DEF ListenerInv
  <2>2. i \notin Members(txn.group)
    BY <1>4 DEF Members, MembersIn
  <2>3. \A j \in Ids : /\ Wanted(fwd, j)' = Wanted(fwd, j)
                       /\ Wanted(txn.next, j)' = Wanted(txn.next, j)
    BY <1>1 DEF Wanted, Used
  <2>4. Members(txn.group)' = Members(txn.group) /\ Used(txn.next)' = Used(txn.next)
    BY <1>1 DEF Members, MembersIn, Used
  <2>5. Wanted(fwd, i) = None
    BY <1>4 DEF Wanted
  <2>6. \A j \in Members(txn.group) \cup Used(txn.next) : j \in Ids \ {i}
    BY <1>4, <2>2 DEF Members, MembersIn, Used
  <2>7. \A j \in Ids \ (pend' \cup Used(txn.next) \cup (Members(txn.group) \ Used(txn.next))) :
          runner'[j] = Wanted(fwd, j)
    BY <1>1, <1>3, <2>1, <2>5 DEF ChangeListeners
  <2> QED BY <1>1, <1>3, <2>1, <2>3, <2>4, <2>6, <2>7 DEF ChangeListeners, Used
<1>8. PendingApart'
  BY <1>1, <1>3 DEF PendingApart, ListenerInv, Used
<1>9. Unlocked' = Unlocked
  BY <1>1 DEF Unlocked
<1> QED BY <1>5, <1>6, <1>7, <1>8, <1>9 DEF ListenerInv

-----------------------------------------------------------------------------
(* Group changes *)

\* A change begins with every listener where the table wants it.
LEMMA ChangeGroupListeners ==
  ASSUME SafetyInv, ListenerInv, Unlocked,
         NEW g \in Ids, NEW es \in PortSpecs, NEW m \in Namings(g, es),
         NEW c \in Clients, NEW t \in Targets, NEW en \in BOOLEAN,
         ChangeGroup(g, m, c, t, en)
  PROVE  ListenerInv'
<1> PICK next : next = Expansion(g, m, c, t, en)
  OBVIOUS
<1>1. /\ txn' = [op |-> "forward", group |-> g, next |-> next,
                 first |-> Members(g) \ Used(next), then |-> Used(next)]
      /\ fwd' = fwd /\ runner' = runner /\ pend' = pend
  BY DEF ChangeGroup
<1>2. \A i \in Used(next) :
        \/ /\ i \in Members(g)
           /\ next[i].port = fwd[i].port /\ next[i].proto = fwd[i].proto
        \/ Fresh(i)
  BY ExpansionIds
<1>3. \A i \in Used(fwd) : i \notin pend
  BY DEF ListenerInv, PendingApart
<1>4. \A i \in Used(next) : i \notin pend
  BY <1>2, <1>3 DEF Fresh, Members, MembersIn
<1>5. \A i \in Ids \ pend : runner[i] = Wanted(fwd, i)
  BY DEF ListenerInv, ListenersMatch
<1>6. \A i \in Ids : Wanted(fwd, i)' = Wanted(fwd, i)
  BY <1>1 DEF Wanted, Used
<1>7. /\ Members(txn.group)' = Members(g) /\ Used(txn.next)' = Used(next)
      /\ txn'.next = next /\ txn'.op = "forward" /\ txn'.then = Used(next)
      /\ txn'.first = Members(g) \ Used(next)
  BY <1>1 DEF Members, MembersIn, Used
<1>8. /\ \A i \in Members(g) \cup Used(next) : i \in Ids \ pend
      /\ \A i \in Used(next) \cap Used(fwd) :
           next[i].port = fwd[i].port /\ next[i].proto = fwd[i].proto
  BY <1>2, <1>3, <1>4 DEF Members, MembersIn, Used, Fresh
<1>9. ChangeListeners'
  <2>1. \A i \in Used(next) \cap Used(fwd') :
          next[i].port = fwd'[i].port /\ next[i].proto = fwd'[i].proto
    BY <1>1, <1>8
  <2> QED BY <1>1, <1>5, <1>6, <1>7, <1>8, <2>1 DEF ChangeListeners
<1>10. PendingApart'
  BY <1>1, <1>4, <1>7 DEF PendingApart, ListenerInv, Used
<1>11. RunnersApart' /\ ~Unlocked'
  BY <1>1 DEF RunnersApart, ListenerInv, Unlocked, Used
<1> QED BY <1>9, <1>10, <1>11 DEF ListenerInv, ListenersMatch

\* What a step inside a change has to show.
LEMMA ChangeStepListeners ==
  ASSUME SafetyInv, ListenerInv, NEW i \in Ids \ pend, NEW v,
         runner' = [runner EXCEPT ![i] = v],
         \/ v = None
         \/ /\ v \in Forward /\ v.enabled
            /\ \A j \in Used(runner) \ {i} : ~Overlap(v, runner[j]),
         txn'.next = txn.next, txn'.op # "idle", UNCHANGED <<fwd, pend>>,
         ChangeListeners'
  PROVE  ListenerInv'
<1>1. RunnersApart'
  BY ApartStep DEF ListenerInv
<1>2. \A j \in pend : runner'[j] = runner[j]
  BY DEF SafetyInv, TypeOK, Table
<1>3. PendingApart'
  BY <1>2 DEF PendingApart, ListenerInv, Used
<1> QED BY <1>1, <1>3 DEF ListenerInv, ListenersMatch, Unlocked

\* Facts about the change in progress that every step of it uses.
LEMMA ChangeFacts ==
  ASSUME SafetyInv, ListenerInv, ~Unlocked
  PROVE  /\ ChangeListeners
         /\ txn.next \in Table /\ fwd \in Table /\ runner \in Table
         /\ \A i \in Used(txn.next) \cup Members(txn.group) : i \in Ids \ pend
         /\ \A i \in Used(txn.next) :
              /\ txn.next[i] \in Forward
              /\ txn.next[i].group = txn.group
              /\ i \in Used(fwd) => fwd[i].group = txn.group
         /\ \A i \in Used(fwd) : fwd[i] \in Forward
<1>1. ChangeListeners /\ PendingApart
  BY DEF ListenerInv
<1>2. txn.next \in Table /\ fwd \in Table /\ runner \in Table
  BY DEF SafetyInv, TypeOK, Txn
<1>3. \A i \in Used(txn.next) \cup Members(txn.group) : i \in Ids \ pend
  BY <1>1 DEF PendingApart, Members, MembersIn, Used
<1>4. \A i \in Used(txn.next) :
        /\ txn.next[i] \in Forward
        /\ txn.next[i].group = txn.group
        /\ i \in Used(fwd) => fwd[i].group = txn.group
  BY <1>2 DEF SafetyInv, ChangeSound, Members, MembersIn, Used, Table
<1>5. \A i \in Used(fwd) : fwd[i] \in Forward
  BY <1>2 DEF Used, Table
<1> QED BY <1>1, <1>2, <1>3, <1>4, <1>5

\* A dropped member is stopped.
LEMMA GroupStopListeners ==
  ASSUME SafetyInv, ListenerInv, NEW i \in Ids, GroupStop(i)
  PROVE  ListenerInv'
<1>1. /\ txn.op = "forward" /\ i \in txn.first
      /\ txn' = [txn EXCEPT !.first = @ \ {i}]
      /\ runner' = [runner EXCEPT ![i] = None]
      /\ fwd' = fwd /\ pend' = pend
  BY DEF GroupStop, Lowest, Remove
<1>2. /\ ChangeListeners /\ runner \in Table
      /\ \A j \in Used(txn.next) \cup Members(txn.group) : j \in Ids \ pend
  BY <1>1, ChangeFacts DEF Unlocked
<1>3. /\ txn'.next = txn.next /\ txn'.group = txn.group /\ txn'.then = txn.then
      /\ txn'.op = "forward" /\ txn'.first = txn.first \ {i}
  BY <1>1 DEF SafetyInv, TypeOK, Txn
<1>4. i \in Members(txn.group) \ Used(txn.next) /\ i \in Ids \ pend
  BY <1>1, <1>2 DEF ChangeListeners
<1>5. runner'[i] = None /\ \A j \in Ids \ {i} : runner'[j] = runner[j]
  BY <1>1, <1>2 DEF Table
<1>6. ChangeListeners'
  <2>1. \A j \in Ids : /\ Wanted(fwd, j)' = Wanted(fwd, j)
                       /\ Wanted(txn.next, j)' = Wanted(txn.next, j)
    BY <1>1, <1>3 DEF Wanted, Used
  <2>2. /\ Members(txn.group)' = Members(txn.group)
        /\ Used(txn.next)' = Used(txn.next) /\ Used(fwd)' = Used(fwd)
    BY <1>1, <1>3 DEF Members, MembersIn, Used
  <2> QED BY <1>1, <1>2, <1>3, <1>4, <1>5, <2>1, <2>2 DEF ChangeListeners
<1> QED BY <1>1, <1>3, <1>4, <1>6, ChangeStepListeners

\* A member is applied: it has its new listener, or the change turns around.
LEMMA GroupApplyListeners ==
  ASSUME Calm, SafetyInv, ListenerInv, NEW i \in Ids, GroupApply(i)
  PROVE  ListenerInv'
<1> DEFINE f == txn.next[i]
<1>1. /\ txn.op = "forward" /\ txn.first = {} /\ i \in txn.then
      /\ fwd' = fwd /\ pend' = pend
  BY DEF GroupApply, Lowest
<1>2. /\ ChangeListeners /\ runner \in Table
      /\ \A j \in Used(txn.next) \cup Members(txn.group) : j \in Ids \ pend
      /\ \A j \in Used(txn.next) :
           /\ txn.next[j] \in Forward
           /\ txn.next[j].group = txn.group
           /\ j \in Used(fwd) => fwd[j].group = txn.group
  BY <1>1, ChangeFacts DEF Unlocked
<1>3. i \in Used(txn.next) /\ i \in Ids \ pend /\ f \in Forward
  BY <1>1, <1>2 DEF ChangeListeners
<1>4. runner[i] = Wanted(fwd, i)
  BY <1>1, <1>2, <1>3 DEF ChangeListeners
<1>5. i \in Used(runner) => runner[i].group = f.group
  BY <1>2, <1>3, <1>4 DEF Wanted, Used
<1>6. \A j \in Ids : Wanted(fwd, j)' = Wanted(fwd, j)
  BY <1>1 DEF Wanted, Used
<1>7. CASE ApplyOk(i, f) /\ txn' = [txn EXCEPT !.then = @ \ {i}]
  <2> DEFINE v == IF f.enabled THEN f ELSE None
  <2>1. /\ runner' = [runner EXCEPT ![i] = v]
        /\ f.enabled => \A j \in Used(runner) \ {i} : ~Overlap(f, runner[j])
    BY <1>3, <1>5, <1>7, ApplyOkResult DEF ListenerInv
  <2>2. /\ txn'.next = txn.next /\ txn'.group = txn.group /\ txn'.first = txn.first
        /\ txn'.op = "forward" /\ txn'.then = txn.then \ {i}
    BY <1>1, <1>7 DEF SafetyInv, TypeOK, Txn
  <2>3. v = Wanted(txn.next, i)
    BY <1>3 DEF Wanted
  <2> HIDE DEF v
  <2>4. runner'[i] = v /\ \A j \in Ids \ {i} : runner'[j] = runner[j]
    BY <1>2, <2>1 DEF Table
  <2>5. \A j \in Ids : Wanted(txn.next, j)' = Wanted(txn.next, j)
    BY <2>2 DEF Wanted, Used
  <2>6. /\ Members(txn.group)' = Members(txn.group)
        /\ Used(txn.next)' = Used(txn.next) /\ Used(fwd)' = Used(fwd)
    BY <1>1, <2>2 DEF Members, MembersIn, Used
  <2>7. ChangeListeners'
    BY <1>1, <1>2, <1>3, <1>6, <2>2, <2>3, <2>4, <2>5, <2>6 DEF ChangeListeners
  <2>8. \/ v = None
        \/ /\ v \in Forward /\ v.enabled
           /\ \A j \in Used(runner) \ {i} : ~Overlap(v, runner[j])
    BY <1>3, <2>1 DEF v
  <2> QED BY <1>1, <1>3, <2>1, <2>2, <2>7, <2>8, ChangeStepListeners
<1>8. CASE /\ ApplyFails(i, f)
           /\ txn' = [txn EXCEPT !.op = "back",
                                 !.first = Used(txn.next) \ txn.then,
                                 !.then = Members(txn.group) \ Used(txn.next)]
  <2>1. runner' = runner
    BY <1>8, ApplyFailsResult
  <2>2. /\ txn'.next = txn.next /\ txn'.group = txn.group /\ txn'.op = "back"
        /\ txn'.first = Used(txn.next) \ txn.then
        /\ txn'.then = Members(txn.group) \ Used(txn.next)
    BY <1>8 DEF SafetyInv, TypeOK, Txn
  <2>3. \A j \in Ids : Wanted(txn.next, j)' = Wanted(txn.next, j)
    BY <2>2 DEF Wanted, Used
  <2>4. /\ Members(txn.group)' = Members(txn.group)
        /\ Used(txn.next)' = Used(txn.next) /\ Used(fwd)' = Used(fwd)
    BY <1>1, <2>2 DEF Members, MembersIn, Used
  <2>5. ChangeListeners'
    BY <1>1, <1>2, <1>6, <2>1, <2>2, <2>3, <2>4 DEF ChangeListeners
  <2>6. PendingApart' /\ RunnersApart'
    BY <1>1, <2>1, <2>2 DEF ListenerInv, PendingApart, RunnersApart, Used
  <2> QED BY <2>2, <2>5, <2>6 DEF ListenerInv, ListenersMatch, Unlocked
<1> QED BY <1>7, <1>8 DEF GroupApply

\* Going back, the sockets of a forward of the group are free for it again:
\* nobody else could take them while the change held the store's lock.
LEMMA OldSocketsFree ==
  ASSUME SafetyInv, ListenerInv, txn.op = "back", NEW i \in Used(fwd),
         fwd[i].enabled,
         i \in txn.first \/ (txn.first = {} /\ i \in txn.then)
  PROVE  Bindable(i, fwd[i])
<1> SUFFICES ASSUME NEW j \in Used(runner), j # i PROVE ~Overlap(fwd[i], runner[j])
  BY DEF Bindable
<1>1. /\ ChangeListeners
      /\ Exclusive(fwd) /\ Exclusive(txn.next)
      /\ fwd \in Table /\ txn.next \in Table
  BY DEF ListenerInv, SafetyInv, SocketsExclusive, ChangeSound, Unlocked, TypeOK, Txn
<1>2. CASE j \in pend
  BY <1>2, OverlapSymmetric DEF ListenerInv, PendingApart
<1>3. CASE j \notin pend /\ runner[j] = Wanted(fwd, j)
  <2>1. j \in Used(fwd) /\ runner[j] = fwd[j]
    BY <1>3 DEF Wanted, Used
  <2> QED BY <1>1, <2>1 DEF Exclusive
<1>4. CASE j \notin pend /\ j \in txn.first /\ runner[j] = Wanted(txn.next, j)
  <2>1. j \in Used(txn.next) /\ runner[j] = txn.next[j]
    BY <1>4 DEF Wanted, Used
  <2>2. i \in txn.first /\ i \in Used(txn.next)
    BY <1>1, <1>4 DEF ChangeListeners
  <2>3. txn.next[i].port = fwd[i].port /\ txn.next[i].proto = fwd[i].proto
    BY <1>1, <2>2 DEF ChangeListeners
  <2>4. ~Overlap(txn.next[i], txn.next[j])
    BY <1>1, <2>1, <2>2 DEF Exclusive
  <2> QED BY <2>1, <2>3, <2>4 DEF Overlap, HasTCP, HasUDP
<1>5. j \in Ids /\ runner[j] # None
  BY DEF Used
<1>6. CASE j \notin pend /\ j \in Used(txn.next)
  BY <1>1, <1>3, <1>4, <1>6 DEF ChangeListeners
<1>7. CASE j \notin pend /\ j \in Members(txn.group) \ Used(txn.next)
  BY <1>1, <1>3, <1>5, <1>7 DEF ChangeListeners
<1>8. CASE j \notin pend /\ j \notin Used(txn.next) /\ j \notin Members(txn.group)
  BY <1>1, <1>3, <1>5, <1>8 DEF ChangeListeners
<1> QED BY <1>2, <1>6, <1>7, <1>8

\* An applied member is put back: its old listener, or none if it is new.
LEMMA GroupUndoListeners ==
  ASSUME Calm, SafetyInv, ListenerInv, NEW i \in Ids, GroupUndo(i)
  PROVE  ListenerInv'
<1>1. /\ txn.op = "back" /\ i \in txn.first
      /\ txn' = [txn EXCEPT !.first = @ \ {i}]
      /\ fwd' = fwd /\ pend' = pend
  BY DEF GroupUndo, Lowest
<1>2. /\ ChangeListeners /\ runner \in Table
      /\ \A j \in Used(txn.next) \cup Members(txn.group) : j \in Ids \ pend
      /\ \A j \in Used(txn.next) :
           /\ txn.next[j] \in Forward
           /\ txn.next[j].group = txn.group
           /\ j \in Used(fwd) => fwd[j].group = txn.group
      /\ \A j \in Used(fwd) : fwd[j] \in Forward
  BY <1>1, ChangeFacts DEF Unlocked
<1>3. i \in Used(txn.next) /\ i \in Ids \ pend /\ runner[i] = Wanted(txn.next, i)
  BY <1>1, <1>2 DEF ChangeListeners
<1>4. PICK v :
        /\ v = Wanted(fwd, i)
        /\ runner' = [runner EXCEPT ![i] = v]
        /\ \/ v = None
           \/ /\ v \in Forward /\ v.enabled
              /\ \A j \in Used(runner) \ {i} : ~Overlap(v, runner[j])
  <2>1. CASE i \in Used(fwd)
    <3>1. i \in Used(runner) => runner[i].group = fwd[i].group
      BY <1>2, <1>3, <2>1 DEF Wanted, Used
    <3>2. ApplyOk(i, fwd[i])
      <4>1. ApplyFails(i, fwd[i]) => FALSE
        BY <1>1, <2>1, ApplyFailsResult, OldSocketsFree
      <4> QED BY <2>1, <4>1 DEF GroupUndo
    <3>3. /\ runner' = [runner EXCEPT ![i] = IF fwd[i].enabled THEN fwd[i] ELSE None]
          /\ fwd[i].enabled => \A j \in Used(runner) \ {i} : ~Overlap(fwd[i], runner[j])
      BY <1>2, <2>1, <3>1, <3>2, ApplyOkResult DEF ListenerInv
    <3> QED BY <1>2, <2>1, <3>3 DEF Wanted
  <2>2. CASE i \notin Used(fwd)
    BY <2>2 DEF GroupUndo, Remove, Wanted
  <2> QED BY <2>1, <2>2
<1>5. /\ txn'.next = txn.next /\ txn'.group = txn.group /\ txn'.then = txn.then
      /\ txn'.op = "back" /\ txn'.first = txn.first \ {i}
  BY <1>1 DEF SafetyInv, TypeOK, Txn
<1>6. runner'[i] = v /\ \A j \in Ids \ {i} : runner'[j] = runner[j]
  BY <1>2, <1>4 DEF Table
<1>7. ChangeListeners'
  <2>1. \A j \in Ids : /\ Wanted(fwd, j)' = Wanted(fwd, j)
                       /\ Wanted(txn.next, j)' = Wanted(txn.next, j)
    BY <1>1, <1>5 DEF Wanted, Used
  <2>2. /\ Members(txn.group)' = Members(txn.group)
        /\ Used(txn.next)' = Used(txn.next) /\ Used(fwd)' = Used(fwd)
    BY <1>1, <1>5 DEF Members, MembersIn, Used
  <2> QED BY <1>1, <1>2, <1>3, <1>4, <1>5, <1>6, <2>1, <2>2 DEF ChangeListeners
<1> QED BY <1>1, <1>3, <1>4, <1>5, <1>7, ChangeStepListeners

\* A dropped member is started again.
LEMMA GroupReinstateListeners ==
  ASSUME Calm, SafetyInv, ListenerInv, NEW i \in Ids, GroupReinstate(i)
  PROVE  ListenerInv'
<1>1. /\ txn.op = "back" /\ txn.first = {} /\ i \in txn.then
      /\ txn' = [txn EXCEPT !.then = @ \ {i}]
      /\ fwd' = fwd /\ pend' = pend
  BY DEF GroupReinstate, Lowest
<1>2. /\ ChangeListeners /\ runner \in Table
      /\ \A j \in Used(txn.next) \cup Members(txn.group) : j \in Ids \ pend
      /\ \A j \in Used(fwd) : fwd[j] \in Forward
  BY <1>1, ChangeFacts DEF Unlocked
<1>3. /\ i \in Members(txn.group) \ Used(txn.next) /\ i \in Ids \ pend
      /\ i \in Used(fwd) /\ runner[i] = None
  BY <1>1, <1>2 DEF ChangeListeners, Members, MembersIn
<1>4. ApplyOk(i, fwd[i])
  <2>1. ApplyFails(i, fwd[i]) => FALSE
    BY <1>1, <1>3, ApplyFailsResult, OldSocketsFree
  <2> QED BY <2>1 DEF GroupReinstate
<1> DEFINE v == Wanted(fwd, i)
<1>5. /\ runner' = [runner EXCEPT ![i] = v]
      /\ \/ v = None
         \/ /\ v \in Forward /\ v.enabled
            /\ \A j \in Used(runner) \ {i} : ~Overlap(v, runner[j])
  <2>1. i \notin Used(runner)
    BY <1>3 DEF Used
  <2>2. /\ runner' = [runner EXCEPT ![i] = IF fwd[i].enabled THEN fwd[i] ELSE None]
        /\ fwd[i].enabled => \A j \in Used(runner) \ {i} : ~Overlap(fwd[i], runner[j])
    BY <1>2, <1>3, <1>4, <2>1, ApplyOkResult DEF ListenerInv
  <2> QED BY <1>2, <1>3, <2>2 DEF Wanted
<1>6. /\ txn'.next = txn.next /\ txn'.group = txn.group /\ txn'.first = txn.first
      /\ txn'.op = "back" /\ txn'.then = txn.then \ {i}
  BY <1>1 DEF SafetyInv, TypeOK, Txn
<1>7. runner'[i] = v /\ \A j \in Ids \ {i} : runner'[j] = runner[j]
  BY <1>2, <1>5 DEF Table
<1>8. ChangeListeners'
  <2>1. \A j \in Ids : /\ Wanted(fwd, j)' = Wanted(fwd, j)
                       /\ Wanted(txn.next, j)' = Wanted(txn.next, j)
    BY <1>1, <1>6 DEF Wanted, Used
  <2>2. /\ Members(txn.group)' = Members(txn.group)
        /\ Used(txn.next)' = Used(txn.next) /\ Used(fwd)' = Used(fwd)
    BY <1>1, <1>6 DEF Members, MembersIn, Used
  <2> QED BY <1>1, <1>2, <1>3, <1>6, <1>7, <2>1, <2>2 DEF ChangeListeners
<1> HIDE DEF v
<1> QED BY <1>1, <1>3, <1>5, <1>6, <1>8, ChangeStepListeners

\* A commit writes the members whose listeners already run.
LEMMA GroupCommitListeners ==
  ASSUME Calm, SafetyInv, ListenerInv, GroupCommit
  PROVE  ListenerInv'
<1>1. /\ txn.op = "forward" /\ txn.first = {} /\ txn.then = {}
      /\ txn' = NoChange /\ runner' = runner /\ pend' = pend
      /\ fwd' = [i \in Ids |->
                   IF i \in Used(txn.next) THEN txn.next[i]
                   ELSE IF i \in Members(txn.group) THEN None ELSE fwd[i]]
  BY DEF GroupCommit, Calm, Saved, SaveFails
<1>2. /\ ChangeListeners /\ PendingApart /\ RunnersApart
  BY <1>1 DEF ListenerInv, Unlocked
<1>3. Unlocked' /\ Used(txn'.next) = {}
  BY <1>1 DEF NoChange, Unlocked, Used
<1>4. RunnersApart'
  BY <1>1, <1>2 DEF RunnersApart, Used
<1>5. ListenersMatch'
  <2> SUFFICES ASSUME NEW i \in Ids \ pend PROVE runner[i] = Wanted(fwd, i)'
    BY <1>1 DEF ListenersMatch
  <2>1. CASE i \in Used(txn.next)
    <3>1. runner[i] = Wanted(txn.next, i)
      BY <1>1, <1>2, <2>1 DEF ChangeListeners
    <3>2. fwd'[i] = txn.next[i]
      BY <1>1, <2>1
    <3> QED BY <2>1, <3>1, <3>2 DEF Wanted, Used
  <2>2. CASE i \in Members(txn.group) \ Used(txn.next)
    <3>1. runner[i] = None
      BY <1>1, <1>2, <2>2 DEF ChangeListeners
    <3>2. fwd'[i] = None
      BY <1>1, <2>2
    <3> QED BY <3>1, <3>2 DEF Wanted, Used
  <2>3. CASE i \notin Members(txn.group) \cup Used(txn.next)
    <3>1. runner[i] = Wanted(fwd, i)
      BY <1>2, <2>3 DEF ChangeListeners
    <3>2. fwd'[i] = fwd[i]
      BY <1>1, <2>3
    <3> QED BY <3>1, <3>2 DEF Wanted, Used
  <2> QED BY <2>1, <2>2, <2>3
<1>6. pend' \cap Used(fwd') = {}
  BY <1>1, <1>2 DEF PendingApart, Used
<1> QED BY <1>3, <1>4, <1>5, <1>6, IdleListeners

\* After a rollback every listener is back where the table wants it.
LEMMA GroupAbortListeners ==
  ASSUME SafetyInv, ListenerInv, GroupAbort
  PROVE  ListenerInv'
<1>1. /\ txn.op = "back" /\ txn.first = {} /\ txn.then = {}
      /\ txn' = NoChange /\ runner' = runner /\ pend' = pend /\ fwd' = fwd
  BY DEF GroupAbort
<1>2. /\ ChangeListeners /\ PendingApart /\ RunnersApart
  BY <1>1 DEF ListenerInv, Unlocked
<1>3. Unlocked' /\ Used(txn'.next) = {}
  BY <1>1 DEF NoChange, Unlocked, Used
<1>4. \A i \in Ids \ pend : runner[i] = Wanted(fwd, i)
  BY <1>1, <1>2 DEF ChangeListeners
<1>5. ListenersMatch' /\ RunnersApart' /\ pend' \cap Used(fwd') = {}
  BY <1>1, <1>2, <1>4 DEF ListenersMatch, RunnersApart, PendingApart, Wanted, Used
<1> QED BY <1>3, <1>5, IdleListeners

-----------------------------------------------------------------------------
(* The theorem *)

\* The server starts without listeners.
LEMMA InitListeners == Init => ListenerInv
<1> SUFFICES ASSUME Init PROVE ListenerInv
  OBVIOUS
<1>1. Used(fwd) = {} /\ Used(runner) = {} /\ Unlocked /\ pend = {}
  BY DEF Init, Used, Unlocked, NoChange
<1>2. ListenersMatch
  BY <1>1 DEF ListenersMatch, Wanted, Init
<1> QED BY <1>1, <1>2 DEF ListenerInv, PendingApart, RunnersApart

\* Every step keeps the listeners where the change in progress, or the table,
\* says they are.
LEMMA NextListeners ==
  Calm /\ SafetyInv /\ ListenerInv /\ [Next]_vars => ListenerInv'
<1> SUFFICES ASSUME Calm, SafetyInv, ListenerInv, [Next]_vars PROVE ListenerInv'
  OBVIOUS
<1>0. /\ \A i \in Used(fwd) : i \in Ids \ pend
      /\ Unlocked => \A i \in Ids \ pend : runner[i] = Wanted(fwd, i)
      /\ fwd \in Table
  BY DEF ListenerInv, PendingApart, ListenersMatch, Used, SafetyInv, TypeOK
<1>1. ASSUME UNCHANGED <<fwd, runner, txn, pend>> PROVE ListenerInv'
  BY <1>1 DEF ListenerInv, ListenersMatch, PendingApart, RunnersApart,
              ChangeListeners, Unlocked, Wanted, Used, Members, MembersIn
<1>2. ASSUME NEW c \in Clients, CreateClient(c) PROVE ListenerInv'
  BY <1>1, <1>2 DEF CreateClient, Saved, SaveFails
<1>3. ASSUME NEW c \in Clients, DeleteClient(c) PROVE ListenerInv'
  <2> DEFINE gone == {i \in Used(fwd) : fwd[i].client = c}
  <2>1. /\ Unlocked /\ fwd' = Without(gone) /\ pend' = pend \cup gone
        /\ runner' = runner /\ txn' = txn
    BY <1>3 DEF DeleteClient, Calm, Saved, SaveFails
  <2>2. gone \in SUBSET Used(fwd)
    OBVIOUS
  <2> HIDE DEF gone
  <2> QED BY <2>1, <2>2, DeletionListeners
<1>4. ASSUME NEW i \in Ids, NEW f \in Forward, CreateForward(i, f) PROVE ListenerInv'
  <2>1. /\ Unlocked /\ ApplyOk(i, f) /\ fwd' = [fwd EXCEPT ![i] = f]
        /\ pend' = pend /\ txn' = txn
    BY <1>4 DEF CreateForward, Calm, Saved, SaveFails
  <2>2. i \in Ids \ pend /\ i \notin Used(runner)
    BY <1>4 DEF CreateForward, Fresh
  <2> QED BY <2>1, <2>2, WriteListeners
<1>5. ASSUME NEW i \in Ids, NEW f \in Forward, UpdateForward(i, f) PROVE ListenerInv'
  <2>1. /\ Unlocked /\ i \in Used(fwd) /\ f.group = fwd[i].group
        /\ pend' = pend /\ txn' = txn
    BY <1>5 DEF UpdateForward
  <2>2. i \in Used(runner) => runner[i].group = f.group
    BY <1>0, <2>1 DEF Wanted, Used
  <2>3. CASE ApplyOk(i, f) /\ fwd' = [fwd EXCEPT ![i] = f]
    BY <1>0, <2>1, <2>2, <2>3, WriteListeners
  <2>4. CASE ApplyFails(i, f) /\ fwd' = fwd
    BY <1>1, <2>1, <2>4, ApplyFailsResult
  <2> QED BY <1>5, <2>3, <2>4 DEF UpdateForward, Saved, SaveFails
<1>6. ASSUME NEW i \in Ids, DeleteForward(i) PROVE ListenerInv'
  <2>1. /\ Unlocked /\ fwd' = Without({i}) /\ pend' = pend \cup {i}
        /\ {i} \in SUBSET Used(fwd) /\ runner' = runner /\ txn' = txn
    BY <1>6 DEF DeleteForward, Calm, Saved, SaveFails
  <2> QED BY <2>1, DeletionListeners
<1>7. ASSUME NEW i \in Ids, RemovePending(i) PROVE ListenerInv'
  BY <1>7, RemovePendingListeners
<1>8. ASSUME NEW g \in Ids, CreateGroup(g) \/ UpdateGroup(g) PROVE ListenerInv'
  <2>1. PICK es \in PortSpecs, c \in Clients, t \in Targets, en \in BOOLEAN :
          \E m \in Namings(g, es) : ChangeGroup(g, m, c, t, en)
    BY <1>8 DEF CreateGroup, UpdateGroup
  <2>2. PICK m \in Namings(g, es) : ChangeGroup(g, m, c, t, en)
    BY <2>1
  <2>3. Unlocked
    BY <1>8 DEF CreateGroup, UpdateGroup
  <2> QED BY <2>2, <2>3, ChangeGroupListeners
<1>9. ASSUME NEW i \in Ids, GroupStop(i) PROVE ListenerInv'
  BY <1>9, GroupStopListeners
<1>10. ASSUME NEW i \in Ids, GroupApply(i) PROVE ListenerInv'
  BY <1>10, GroupApplyListeners
<1>11. ASSUME NEW i \in Ids, GroupUndo(i) PROVE ListenerInv'
  BY <1>11, GroupUndoListeners
<1>12. ASSUME NEW i \in Ids, GroupReinstate(i) PROVE ListenerInv'
  BY <1>12, GroupReinstateListeners
<1>13. ASSUME GroupCommit PROVE ListenerInv'
  BY <1>13, GroupCommitListeners
<1>14. ASSUME GroupAbort PROVE ListenerInv'
  BY <1>14, GroupAbortListeners
<1>15. ASSUME NEW g \in Ids, DeleteGroup(g) PROVE ListenerInv'
  <2>1. /\ Unlocked /\ fwd' = Without(Members(g)) /\ pend' = pend \cup Members(g)
        /\ runner' = runner /\ txn' = txn
    BY <1>15 DEF DeleteGroup, Calm, Saved, SaveFails
  <2>2. Members(g) \in SUBSET Used(fwd)
    BY DEF Members, MembersIn
  <2> QED BY <2>1, <2>2, DeletionListeners
<1>16. ASSUME NEW g \in Ids, Respond(g) PROVE ListenerInv'
  BY <1>1, <1>16 DEF Respond
<1>17. ASSUME Restart PROVE ListenerInv'
  BY <1>17, RestartListeners
<1>18. CASE UNCHANGED vars
  BY <1>1, <1>18 DEF vars
<1> QED
  BY <1>2, <1>3, <1>4, <1>5, <1>6, <1>7, <1>8, <1>9, <1>10, <1>11, <1>12,
     <1>13, <1>14, <1>15, <1>16, <1>17, <1>18 DEF Next

\* If binds and saves succeed, then outside a group change the listeners are
\* exactly those the table asks for, apart from the ones about to be closed:
\* in particular a group change that fails has put every listener back.
THEOREM ListenersAlwaysMatch ==
  ASSUME Calm
  PROVE  Spec => []ListenersMatch
<1>1. SafetyInv /\ ListenerInv /\ [Next]_vars => SafetyInv' /\ ListenerInv'
  BY NextSafety, NextListeners
<1>2. Init => SafetyInv /\ ListenerInv
  BY InitSafety, InitListeners
<1>3. ListenerInv => ListenersMatch
  BY DEF ListenerInv
<1> QED BY <1>1, <1>2, <1>3, PTL DEF Spec

-----------------------------------------------------------------------------
(* Orphans *)

\* Where a group change may still have listeners to stop.
ChangeTidy ==
  LET news == Used(txn.next) IN
  /\ txn.op = "forward" =>
       /\ txn.then \subseteq news
       /\ (Members(txn.group) \ news) \cap Used(runner) \subseteq txn.first
       /\ (txn.then \ Used(fwd)) \cap Used(runner) = {}
  /\ txn.op = "back" =>
       /\ txn.then \subseteq Used(fwd)
       /\ (news \ Used(fwd)) \cap Used(runner) \subseteq txn.first

OrphanInv == NoOrphanListener /\ ChangeTidy

-----------------------------------------------------------------------------
(* The ids with a listener after a call *)

\* Apply adds at most its own id to those with a listener.
LEMMA ApplyOkIds ==
  ASSUME runner \in Table, NEW i \in Ids, NEW f, ApplyOk(i, f)
  PROVE  Used(runner') \subseteq Used(runner) \cup {i}
BY DEF ApplyOk, Table, Used

\* A refused Apply adds none.
LEMMA ApplyFailsIds ==
  ASSUME runner \in Table, NEW i \in Ids, NEW f, ApplyFails(i, f)
  PROVE  Used(runner') \subseteq Used(runner)
BY DEF ApplyFails, Table, Used

\* Remove takes its own away.
LEMMA RemoveIds ==
  ASSUME runner \in Table, NEW i \in Ids, Remove(i)
  PROVE  Used(runner') = Used(runner) \ {i}
BY DEF Remove, Table, Used

\* While no group change runs the listeners are those of the table and of
\* deletions on their way.
LEMMA IdleOrphan ==
  ASSUME txn'.op = "idle", Used(runner') \subseteq Used(fwd') \cup pend'
  PROVE  OrphanInv'
<1>1. NoOrphanListener'
  BY DEF NoOrphanListener, Used
<1>2. ChangeTidy'
  BY DEF ChangeTidy
<1> QED BY <1>1, <1>2 DEF OrphanInv

\* While nobody holds the store's lock, listeners are of the table or of
\* deletions on their way.
LEMMA IdleIds ==
  ASSUME SafetyInv, OrphanInv, Unlocked
  PROVE  Used(runner) \subseteq Used(fwd) \cup pend
BY DEF SafetyInv, ChangeSound, OrphanInv, NoOrphanListener, Used

\* A step of a group change, given the ids that have a listener afterwards.
LEMMA ChangeOrphan ==
  ASSUME UNCHANGED <<fwd, pend>>, txn'.next = txn.next, txn'.group = txn.group,
         Used(runner') \subseteq Used(fwd) \cup pend \cup Used(txn.next),
         txn'.op = "forward" =>
           /\ txn'.then \subseteq Used(txn.next)
           /\ (Members(txn.group) \ Used(txn.next)) \cap Used(runner') \subseteq txn'.first
           /\ (txn'.then \ Used(fwd)) \cap Used(runner') = {},
         txn'.op = "back" =>
           /\ txn'.then \subseteq Used(fwd)
           /\ (Used(txn.next) \ Used(fwd)) \cap Used(runner') \subseteq txn'.first
  PROVE  OrphanInv'
<1>1. /\ Used(txn.next)' = Used(txn.next) /\ Used(fwd)' = Used(fwd)
      /\ Members(txn.group)' = Members(txn.group) /\ Used(runner)' = Used(runner')
  BY DEF Used, Members, MembersIn
<1>2. NoOrphanListener'
  BY <1>1 DEF NoOrphanListener
<1>3. ChangeTidy'
  BY <1>1 DEF ChangeTidy
<1> QED BY <1>2, <1>3 DEF OrphanInv

-----------------------------------------------------------------------------
(* The actions *)

\* Single forwards, clients and the process.
LEMMA StoreStepOrphan ==
  ASSUME ~SaveMayFail, SafetyInv, OrphanInv,
         \/ \E c \in Clients : CreateClient(c) \/ DeleteClient(c)
         \/ \E i \in Ids, f \in Forward : CreateForward(i, f) \/ UpdateForward(i, f)
         \/ \E i \in Ids : DeleteForward(i) \/ DeleteGroup(i) \/ Respond(i)
  PROVE  OrphanInv'
<1>0. fwd \in Table /\ runner \in Table
  BY DEF SafetyInv, TypeOK
<1>1. ASSUME NEW c \in Clients, CreateClient(c) PROVE OrphanInv'
  <2>1. Unlocked /\ fwd' = fwd /\ UNCHANGED <<runner, txn, pend>>
    BY <1>1 DEF CreateClient, Saved, SaveFails
  <2> QED BY <2>1, IdleIds, IdleOrphan DEF Unlocked
<1>2. ASSUME NEW gone \in SUBSET Used(fwd), Unlocked, fwd' = Without(gone),
             pend' = pend \cup gone, UNCHANGED <<runner, txn>>
      PROVE  OrphanInv'
  <2>1. Used(fwd') = Used(fwd) \ gone
    BY <1>2, WithoutSound
  <2> QED BY <1>2, <2>1, IdleIds, IdleOrphan DEF Unlocked
<1>3. ASSUME NEW c \in Clients, DeleteClient(c) PROVE OrphanInv'
  BY <1>2, <1>3 DEF DeleteClient, Saved, SaveFails
<1>4. ASSUME NEW i \in Ids, DeleteForward(i) PROVE OrphanInv'
  BY <1>2, <1>4 DEF DeleteForward, Saved, SaveFails
<1>5. ASSUME NEW g \in Ids, DeleteGroup(g) PROVE OrphanInv'
  BY <1>2, <1>5 DEF DeleteGroup, Saved, SaveFails, Members, MembersIn
<1>6. ASSUME NEW i \in Ids, NEW f \in Forward, Unlocked, ApplyOk(i, f),
             fwd' = [fwd EXCEPT ![i] = f], UNCHANGED <<txn, pend>>
      PROVE  OrphanInv'
  <2>1. Used(fwd') = Used(fwd) \cup {i}
    BY <1>0, <1>6, NoneAssumption DEF Table, Used
  <2> QED BY <1>0, <1>6, <2>1, IdleIds, IdleOrphan, ApplyOkIds DEF Unlocked
<1>7. ASSUME NEW i \in Ids, NEW f \in Forward, CreateForward(i, f) PROVE OrphanInv'
  BY <1>6, <1>7 DEF CreateForward, Saved, SaveFails
<1>8. ASSUME NEW i \in Ids, NEW f \in Forward, UpdateForward(i, f) PROVE OrphanInv'
  <2>1. CASE ApplyOk(i, f) /\ fwd' = [fwd EXCEPT ![i] = f]
    BY <1>6, <1>8, <2>1 DEF UpdateForward
  <2>2. CASE ApplyFails(i, f) /\ fwd' = fwd
    <3>1. Unlocked /\ UNCHANGED <<txn, pend>>
      BY <1>8 DEF UpdateForward
    <3> QED BY <1>0, <2>2, <3>1, IdleIds, IdleOrphan, ApplyFailsIds DEF Unlocked
  <2> QED BY <1>8, <2>1, <2>2 DEF UpdateForward, Saved, SaveFails
<1>9. ASSUME NEW g \in Ids, Respond(g) PROVE OrphanInv'
  <2>1. Unlocked /\ UNCHANGED <<fwd, runner, txn, pend>>
    BY <1>9 DEF Respond
  <2> QED BY <2>1, IdleIds, IdleOrphan DEF Unlocked
<1> QED BY <1>1, <1>3, <1>4, <1>5, <1>7, <1>8, <1>9

\* A restart opens listeners of the table only.
LEMMA RestartOrphan ==
  ASSUME Restart
  PROVE  OrphanInv'
<1>1. txn' = NoChange /\ fwd' = disk.fwd
  BY DEF Restart
<1>2. Used(runner') \subseteq Used(fwd')
  BY <1>1 DEF Restart, Used
<1> QED BY <1>1, <1>2, IdleOrphan DEF NoChange

\* An id leaves pend together with its listener.
LEMMA RemovePendingOrphan ==
  ASSUME SafetyInv, OrphanInv, NEW i \in Ids, RemovePending(i)
  PROVE  OrphanInv'
<1>1. Used(runner') = Used(runner) \ {i}
  BY RemoveIds DEF RemovePending, SafetyInv, TypeOK
<1>2. fwd' = fwd /\ txn' = txn /\ pend' = pend \ {i}
  BY DEF RemovePending
<1>3. /\ Used(txn.next)' = Used(txn.next) /\ Used(fwd)' = Used(fwd)
      /\ Members(txn.group)' = Members(txn.group) /\ Used(runner)' = Used(runner')
  BY <1>2 DEF Used, Members, MembersIn
<1>4. NoOrphanListener'
  BY <1>1, <1>2, <1>3 DEF OrphanInv, NoOrphanListener
<1>5. ChangeTidy'
  BY <1>1, <1>2, <1>3 DEF OrphanInv, ChangeTidy
<1> QED BY <1>4, <1>5 DEF OrphanInv

\* The new ids of a change have no listener when it starts.
LEMMA ChangeGroupOrphan ==
  ASSUME SafetyInv, OrphanInv, Unlocked,
         NEW g \in Ids, NEW es \in PortSpecs, NEW m \in Namings(g, es),
         NEW c \in Clients, NEW t \in Targets, NEW en \in BOOLEAN,
         ChangeGroup(g, m, c, t, en)
  PROVE  OrphanInv'
<1> PICK next : next = Expansion(g, m, c, t, en)
  OBVIOUS
<1>1. /\ txn'.op = "forward" /\ txn'.group = g /\ txn'.next = next
      /\ txn'.first = Members(g) \ Used(next) /\ txn'.then = Used(next)
      /\ fwd' = fwd /\ runner' = runner /\ pend' = pend
  BY DEF ChangeGroup
<1>2. \A i \in Used(next) : i \in Used(fwd) \/ i \notin Used(runner)
  BY ExpansionIds DEF Fresh, Members, MembersIn
<1>3. /\ Used(txn.next)' = Used(next) /\ Used(fwd)' = Used(fwd)
      /\ Members(txn.group)' = Members(g) /\ Used(runner)' = Used(runner)
  BY <1>1 DEF Used, Members, MembersIn
<1>4. NoOrphanListener'
  BY <1>1, <1>3, IdleIds DEF NoOrphanListener
<1>5. ChangeTidy'
  BY <1>1, <1>2, <1>3 DEF ChangeTidy
<1> QED BY <1>4, <1>5 DEF OrphanInv

\* The steps of a change before it commits or aborts.
LEMMA GroupWalkOrphan ==
  ASSUME SafetyInv, OrphanInv, NEW i \in Ids,
         GroupStop(i) \/ GroupApply(i) \/ GroupUndo(i) \/ GroupReinstate(i)
  PROVE  OrphanInv'
<1>0. runner \in Table /\ txn \in Txn
  BY DEF SafetyInv, TypeOK
<1>1. Used(runner) \subseteq Used(fwd) \cup pend \cup Used(txn.next)
  BY DEF OrphanInv, NoOrphanListener
<1>2. CASE GroupStop(i)
  <2>1. Used(runner') = Used(runner) \ {i}
    BY <1>0, <1>2, RemoveIds DEF GroupStop
  <2>2. /\ txn.op = "forward" /\ txn'.op = "forward" /\ txn'.first = txn.first \ {i}
        /\ txn'.then = txn.then /\ txn'.next = txn.next /\ txn'.group = txn.group
        /\ UNCHANGED <<fwd, pend>>
    BY <1>0, <1>2 DEF GroupStop, Txn
  <2> QED BY <1>1, <2>1, <2>2, ChangeOrphan DEF OrphanInv, ChangeTidy
<1>3. CASE GroupApply(i)
  <2>1. /\ txn.op = "forward" /\ txn.first = {} /\ i \in txn.then
        /\ UNCHANGED <<fwd, pend>>
    BY <1>3 DEF GroupApply, Lowest
  <2>2. i \in Used(txn.next)
    BY <2>1 DEF OrphanInv, ChangeTidy
  <2>3. CASE ApplyOk(i, txn.next[i]) /\ txn' = [txn EXCEPT !.then = @ \ {i}]
    <3>1. Used(runner') \subseteq Used(runner) \cup {i}
      BY <1>0, <2>3, ApplyOkIds
    <3>2. /\ txn'.op = "forward" /\ txn'.first = {} /\ txn'.then = txn.then \ {i}
          /\ txn'.next = txn.next /\ txn'.group = txn.group
      BY <1>0, <2>1, <2>3 DEF Txn
    <3> QED BY <1>1, <2>1, <2>2, <3>1, <3>2, ChangeOrphan DEF OrphanInv, ChangeTidy
  <2>4. CASE /\ ApplyFails(i, txn.next[i])
             /\ txn' = [txn EXCEPT !.op = "back",
                                   !.first = Used(txn.next) \ txn.then,
                                   !.then = Members(txn.group) \ Used(txn.next)]
    <3>1. Used(runner') \subseteq Used(runner)
      BY <1>0, <2>4, ApplyFailsIds
    <3>2. /\ txn'.op = "back" /\ txn'.first = Used(txn.next) \ txn.then
          /\ txn'.then = Members(txn.group) \ Used(txn.next)
          /\ txn'.next = txn.next /\ txn'.group = txn.group
      BY <1>0, <2>4 DEF Txn
    <3>3. Members(txn.group) \subseteq Used(fwd)
      BY DEF Members, MembersIn
    <3> QED BY <1>1, <2>1, <3>1, <3>2, <3>3, ChangeOrphan DEF OrphanInv, ChangeTidy
  <2> QED BY <1>3, <2>3, <2>4 DEF GroupApply
<1>4. CASE GroupUndo(i)
  <2>1. /\ txn.op = "back" /\ txn'.op = "back" /\ txn'.first = txn.first \ {i}
        /\ txn'.then = txn.then /\ txn'.next = txn.next /\ txn'.group = txn.group
        /\ UNCHANGED <<fwd, pend>>
    BY <1>0, <1>4 DEF GroupUndo, Txn
  <2>2. CASE i \in Used(fwd)
    <3>1. Used(runner') \subseteq Used(runner) \cup {i}
      BY <1>0, <1>4, <2>2, ApplyOkIds, ApplyFailsIds DEF GroupUndo
    <3> QED BY <1>1, <2>1, <2>2, <3>1, ChangeOrphan DEF OrphanInv, ChangeTidy
  <2>3. CASE i \notin Used(fwd)
    <3>1. Used(runner') = Used(runner) \ {i}
      BY <1>0, <1>4, <2>3, RemoveIds DEF GroupUndo
    <3> QED BY <1>1, <2>1, <3>1, ChangeOrphan DEF OrphanInv, ChangeTidy
  <2> QED BY <2>2, <2>3
<1>5. CASE GroupReinstate(i)
  <2>1. /\ txn.op = "back" /\ txn'.op = "back" /\ txn'.first = txn.first
        /\ txn'.then = txn.then \ {i} /\ txn'.next = txn.next /\ txn'.group = txn.group
        /\ UNCHANGED <<fwd, pend>> /\ i \in txn.then
    BY <1>0, <1>5 DEF GroupReinstate, Lowest, Txn
  <2>2. Used(runner') \subseteq Used(runner) \cup {i}
    BY <1>0, <1>5, ApplyOkIds, ApplyFailsIds DEF GroupReinstate
  <2> QED BY <1>1, <2>1, <2>2, ChangeOrphan DEF OrphanInv, ChangeTidy
<1> QED BY <1>2, <1>3, <1>4, <1>5

\* The members that dropped out are stopped and the new ones are in the table.
LEMMA GroupCommitOrphan ==
  ASSUME ~SaveMayFail, SafetyInv, OrphanInv, GroupCommit
  PROVE  OrphanInv'
<1>1. /\ txn.op = "forward" /\ txn.first = {} /\ txn'.op = "idle"
      /\ UNCHANGED <<runner, pend>>
      /\ fwd' = [i \in Ids |->
                   IF i \in Used(txn.next) THEN txn.next[i]
                   ELSE IF i \in Members(txn.group) THEN None ELSE fwd[i]]
  BY DEF GroupCommit, Saved, SaveFails, NoChange
<1>2. ASSUME NEW i \in Used(runner) PROVE i \in Used(fwd') \cup pend
  <2>1. i \in Ids /\ i \in Used(fwd) \cup pend \cup Used(txn.next)
    BY DEF OrphanInv, NoOrphanListener, Used
  <2>2. i \in Used(txn.next) \/ i \notin Members(txn.group)
    BY <1>1 DEF OrphanInv, ChangeTidy
  <2> QED BY <1>1, <2>1, <2>2 DEF Used
<1> QED BY <1>1, <1>2, IdleOrphan

\* The new members are undone.
LEMMA GroupAbortOrphan ==
  ASSUME SafetyInv, OrphanInv, GroupAbort
  PROVE  OrphanInv'
<1>1. /\ txn.op = "back" /\ txn.first = {} /\ txn'.op = "idle"
      /\ UNCHANGED <<fwd, runner, pend>>
  BY DEF GroupAbort, NoChange
<1>2. Used(runner) \subseteq Used(fwd) \cup pend
  BY <1>1 DEF OrphanInv, NoOrphanListener, ChangeTidy
<1> QED BY <1>1, <1>2, IdleOrphan

-----------------------------------------------------------------------------

\* At first there are no listeners.
LEMMA InitOrphan == Init => OrphanInv
<1> SUFFICES ASSUME Init PROVE OrphanInv
  OBVIOUS
<1>1. Used(runner) = {}
  BY DEF Init, Used
<1>2. txn.op = "idle"
  BY DEF Init, NoChange
<1> QED BY <1>1, <1>2 DEF OrphanInv, NoOrphanListener, ChangeTidy

\* No step leaves a listener behind.
LEMMA NextOrphan ==
  ASSUME ~SaveMayFail, SafetyInv, OrphanInv, [Next]_vars
  PROVE  OrphanInv'
<1>1. CASE UNCHANGED vars
  BY <1>1 DEF vars, OrphanInv, NoOrphanListener, ChangeTidy, Used, Members, MembersIn
<1>2. ASSUME NEW g \in Ids, CreateGroup(g) \/ UpdateGroup(g) PROVE OrphanInv'
  BY <1>2, ChangeGroupOrphan DEF CreateGroup, UpdateGroup
<1>3. CASE Next /\ ~\E g \in Ids : CreateGroup(g) \/ UpdateGroup(g)
  BY <1>3, StoreStepOrphan, RestartOrphan, RemovePendingOrphan, GroupWalkOrphan,
     GroupCommitOrphan, GroupAbortOrphan DEF Next
<1> QED BY <1>1, <1>2, <1>3

\* When the state file can always be written, every listener belongs to a
\* forward of the table, to a handler about to remove it, or to the group change
\* in progress, whatever binds the operating system refuses.
THEOREM NeverOrphanListener ==
  ASSUME ~SaveMayFail
  PROVE  Spec => []NoOrphanListener
<1>1. Init => OrphanInv
  BY InitOrphan
<1>2. SafetyInv /\ OrphanInv /\ [Next]_vars => OrphanInv'
  BY NextOrphan
<1> QED BY <1>1, <1>2, Safety, PTL DEF Spec, OrphanInv
=============================================================================
