---------------------------- MODULE SessionsProofs ----------------------------
(***************************************************************************)
(* No session escapes the server, for any number of connections, clients   *)
(* and tokens, and whether or not saving the state may fail.               *)
(*                                                                         *)
(* LiveSessionsListed needs that every slot is held by a connection of its *)
(* client (SlotsHeld): one that held a connection of another client, or    *)
(* one that has finished, could be overwritten without closing the         *)
(* connection it should have held.  Both need that a connection past the   *)
(* token check has an owner.  That its token is nobody else's is a matter  *)
(* of the store alone (TokensApart): tokens are never issued twice.        *)
(***************************************************************************)
EXTENDS Sessions, TLAPS

\* A connection past the token check belongs to a client.
Identified == \A k \in Conns : pc[k] \in Live \cup {"verified"} => owner[k] \in Clients

\* The slot of a client holds a connection of that client that is not over.
SlotsHeld ==
  \A c \in Clients :
    sessions[c] # None => owner[sessions[c]] = c /\ pc[sessions[c]] \in Live

SessionInv == TypeOK /\ Identified /\ LiveSessionsListed /\ SlotsHeld

\* At first there are no connections.
LEMMA SessionInit == Init => SessionInv
<1> SUFFICES ASSUME Init PROVE SessionInv
  OBVIOUS
<1>1. TypeOK
  BY SessionsAssumption DEF Init, TypeOK
<1>2. Identified /\ LiveSessionsListed
  BY DEF Init, Identified, LiveSessionsListed, Live
<1>3. SlotsHeld
  BY DEF Init, SlotsHeld
<1> QED BY <1>1, <1>2, <1>3 DEF SessionInv

\* Steps that move no connection in or out of the map and open none.
LEMMA MapKept ==
  ASSUME SessionInv,
         UNCHANGED <<sessions, owner>>,
         open' \subseteq open, closing \subseteq closing',
         \A k \in Conns : (pc'[k] \in Live) <=> (pc[k] \in Live),
         \A k \in Conns : pc'[k] = "done" => pc[k] = "done",
         \A k \in Conns : pc'[k] = "verified" => pc[k] = "verified"
  PROVE  Identified' /\ LiveSessionsListed' /\ SlotsHeld'
<1>1. Identified'
  BY DEF SessionInv, Identified
<1>2. LiveSessionsListed'
  BY DEF SessionInv, TypeOK, LiveSessionsListed
<1>3. SlotsHeld'
  BY DEF SessionInv, SlotsHeld, TypeOK
<1> QED BY <1>1, <1>2, <1>3

\* A connection that is not yet registered is in no slot.
LEMMA UnregisteredUnlisted ==
  ASSUME SessionInv, NEW k \in Conns, pc[k] \notin Live
  PROVE  \A c \in Clients : sessions[c] # k
BY SessionsAssumption DEF SessionInv, SlotsHeld

\* A new connection is not registered.
LEMMA AcceptStep ==
  ASSUME SessionInv, NEW k \in Conns, NEW t \in Tokens, Accept(k, t)
  PROVE  SessionInv'
<1>1. TypeOK'
  BY DEF Accept, SessionInv, TypeOK, storeVars
<1>2. Identified'
  BY DEF Accept, SessionInv, TypeOK, Identified, Live
<1>3. LiveSessionsListed'
  BY DEF Accept, SessionInv, TypeOK, LiveSessionsListed, Live
<1>4. SlotsHeld'
  BY UnregisteredUnlisted DEF Accept, SessionInv, TypeOK, SlotsHeld, Live
<1> QED BY <1>1, <1>2, <1>3, <1>4 DEF SessionInv

\* A connection that named a client's token is not registered yet.
LEMMA VerifyStep ==
  ASSUME SessionInv, NEW k \in Conns, NEW c \in Clients, Verify(k, c)
  PROVE  SessionInv'
<1>1. TypeOK'
  BY DEF Verify, SessionInv, TypeOK, storeVars
<1>2. Identified'
  BY DEF Verify, SessionInv, TypeOK, Identified, Live
<1>3. LiveSessionsListed'
  BY DEF Verify, SessionInv, TypeOK, LiveSessionsListed, Live
<1>4. SlotsHeld'
  BY UnregisteredUnlisted DEF Verify, SessionInv, TypeOK, SlotsHeld, Live
<1> QED BY <1>1, <1>2, <1>3, <1>4 DEF SessionInv

\* A refused connection never is.
LEMMA RejectStep ==
  ASSUME SessionInv, NEW k \in Conns, Reject(k)
  PROVE  SessionInv'
<1>1. TypeOK'
  BY DEF Reject, SessionInv, TypeOK, storeVars
<1>2. Identified'
  BY DEF Reject, SessionInv, TypeOK, Identified, Live
<1>3. LiveSessionsListed'
  BY DEF Reject, SessionInv, TypeOK, LiveSessionsListed, Live
<1>4. SlotsHeld'
  BY UnregisteredUnlisted DEF Reject, SessionInv, TypeOK, SlotsHeld, Live
<1> QED BY <1>1, <1>2, <1>3, <1>4 DEF SessionInv

\* Whatever the slot held before is closed by the time it is overwritten.
LEMMA RegisterStep ==
  ASSUME SessionInv, NEW k \in Conns, Register(k)
  PROVE  SessionInv'
<1>1. owner[k] \in Clients
  BY DEF Register, SessionInv, Identified
<1>2. TypeOK'
  BY <1>1 DEF Register, SessionInv, TypeOK, storeVars, Live
<1>3. Identified'
  BY DEF Register, SessionInv, TypeOK, Identified, Live
<1>4. LiveSessionsListed'
  <2> SUFFICES ASSUME NEW j \in Conns, pc'[j] \in Live, j \in open'
               PROVE  sessions'[owner'[j]] = j \/ j \in closing'
    BY DEF Register, SessionInv, TypeOK, LiveSessionsListed
  <2>1. CASE j = k
    BY <1>1, <2>1 DEF Register, SessionInv, TypeOK
  <2>2. CASE j # k
    <3>1. pc[j] \in Live /\ j \in open /\ j # sessions[owner[k]]
      BY <2>2, SessionsAssumption
         DEF Register, SessionInv, TypeOK
    <3>2. sessions[owner[j]] = j \/ j \in closing
      BY <3>1 DEF SessionInv, LiveSessionsListed
    <3> QED BY <1>1, <3>1, <3>2 DEF Register, SessionInv, TypeOK
  <2> QED BY <2>1, <2>2
<1>5. SlotsHeld'
  BY <1>1 DEF Register, SessionInv, TypeOK, SlotsHeld, Live
<1> QED BY <1>2, <1>3, <1>4, <1>5 DEF SessionInv

\* Greetings, reads and broken connections leave the slots alone.
LEMMA TalkStep ==
  ASSUME SessionInv,
         NEW k \in Conns,
         Greet(k) \/ Announce(k) \/ ReadEnds(k) \/ Break(k) \/ CloseTaken(k)
  PROVE  SessionInv'
<1>1. CASE Greet(k)
  <2>1. TypeOK'
    BY <1>1 DEF Greet, Live, SessionInv, TypeOK, storeVars
  <2>2. /\ UNCHANGED <<sessions, owner, open, closing>>
        /\ \A j \in Conns : (pc'[j] \in Live) <=> (pc[j] \in Live)
        /\ \A j \in Conns : pc'[j] = "done" => pc[j] = "done"
        /\ \A j \in Conns : pc'[j] = "verified" => pc[j] = "verified"
    BY <1>1 DEF Greet, Live, SessionInv, TypeOK
  <2> QED BY <2>1, <2>2, MapKept DEF SessionInv
<1>2. CASE Announce(k)
  <2>1. TypeOK'
    BY <1>2 DEF Announce, Live, SessionInv, TypeOK, storeVars
  <2>2. /\ UNCHANGED <<sessions, owner, open, closing>>
        /\ \A j \in Conns : (pc'[j] \in Live) <=> (pc[j] \in Live)
        /\ \A j \in Conns : pc'[j] = "done" => pc[j] = "done"
        /\ \A j \in Conns : pc'[j] = "verified" => pc[j] = "verified"
    BY <1>2 DEF Announce, Live, SessionInv, TypeOK
  <2> QED BY <2>1, <2>2, MapKept DEF SessionInv
<1>3. CASE ReadEnds(k)
  <2>1. TypeOK'
    BY <1>3 DEF ReadEnds, Live, SessionInv, TypeOK, storeVars
  <2>2. /\ UNCHANGED <<sessions, owner, open, closing>>
        /\ \A j \in Conns : (pc'[j] \in Live) <=> (pc[j] \in Live)
        /\ \A j \in Conns : pc'[j] = "done" => pc[j] = "done"
        /\ \A j \in Conns : pc'[j] = "verified" => pc[j] = "verified"
    BY <1>3 DEF ReadEnds, Live, SessionInv, TypeOK
  <2> QED BY <2>1, <2>2, MapKept DEF SessionInv
<1>4. CASE Break(k)
  <2>1. TypeOK'
    BY <1>4 DEF Break, SessionInv, TypeOK, storeVars
  <2>2. UNCHANGED <<sessions, owner, closing, pc>> /\ open' \subseteq open
    BY <1>4 DEF Break
  <2> QED BY <2>1, <2>2, MapKept DEF SessionInv
<1>5. CASE CloseTaken(k)
  <2>1. TypeOK'
    BY <1>5 DEF CloseTaken, SessionInv, TypeOK, storeVars
  <2>2. /\ UNCHANGED <<sessions, owner, pc>>
        /\ open' = open \ {k} /\ closing' = closing \ {k}
    BY <1>5 DEF CloseTaken
  <2>3. Identified'
    BY <2>2 DEF SessionInv, Identified
  <2>4. LiveSessionsListed'
    BY <2>2 DEF SessionInv, LiveSessionsListed
  <2>5. SlotsHeld'
    BY <2>2 DEF SessionInv, SlotsHeld
  <2> QED BY <2>1, <2>3, <2>4, <2>5 DEF SessionInv
<1> QED BY <1>1, <1>2, <1>3, <1>4, <1>5

\* A connection that ends takes only its own entry with it.
LEMMA DropStep ==
  ASSUME SessionInv, NEW k \in Conns, Drop(k)
  PROVE  SessionInv'
<1>1. owner[k] \in Clients
  BY DEF Drop, SessionInv, Identified, Live
<1>2. TypeOK'
  BY <1>1 DEF Drop, SessionInv, TypeOK, storeVars
<1>3. Identified'
  BY DEF Drop, SessionInv, TypeOK, Identified, Live
<1>4. LiveSessionsListed'
  BY <1>1 DEF Drop, SessionInv, TypeOK, LiveSessionsListed, Live
<1>5. SlotsHeld'
  <2> SUFFICES ASSUME NEW c \in Clients, sessions'[c] # None
               PROVE  owner'[sessions'[c]] = c /\ pc'[sessions'[c]] \in Live
    BY DEF SlotsHeld
  <2>1. sessions'[c] = sessions[c] /\ sessions[c] # None /\ sessions[c] \in Conns
    BY <1>1 DEF Drop, SessionInv, TypeOK
  <2>2. owner[sessions[c]] = c /\ pc[sessions[c]] \in Live
    BY <2>1 DEF SessionInv, SlotsHeld
  <2>3. sessions[c] # k
    BY <1>1, <2>1, <2>2, SessionsAssumption DEF Drop, SessionInv, TypeOK
  <2> QED BY <2>1, <2>2, <2>3 DEF Drop, SessionInv, TypeOK
<1> QED BY <1>2, <1>3, <1>4, <1>5 DEF SessionInv

\* A connection dropped from the map is closed before handleConn returns.
LEMMA CloseDroppedStep ==
  ASSUME SessionInv, NEW k \in Conns, CloseDropped(k)
  PROVE  SessionInv'
<1>1. TypeOK'
  BY DEF CloseDropped, SessionInv, TypeOK, storeVars
<1>2. Identified'
  BY DEF CloseDropped, SessionInv, TypeOK, Identified, Live
<1>3. LiveSessionsListed'
  BY DEF CloseDropped, SessionInv, TypeOK, LiveSessionsListed, Live
<1>4. SlotsHeld'
  BY UnregisteredUnlisted DEF CloseDropped, SessionInv, TypeOK, SlotsHeld, Live
<1> QED BY <1>1, <1>2, <1>3, <1>4 DEF SessionInv

\* The admin API: what leaves the map is about to be closed or is closed.
LEMMA ApiStep ==
  ASSUME SessionInv,
         NEW c \in Clients,
         \/ Delete(c) \/ Shutdown
         \/ \E t \in Tokens : Rotate(c, t)
         \/ \E t \in Tokens \cup {None} : Disconnect(c, t)
  PROVE  SessionInv'
<1>1. CASE Delete(c) \/ \E t \in Tokens : Rotate(c, t)
  <2>1. TypeOK'
    BY <1>1 DEF Delete, Rotate, KickUnlessSaveFails, SessionInv, TypeOK, storeVars
  <2>2. UNCHANGED <<sessions, owner, open, closing, pc>>
    BY <1>1 DEF Delete, Rotate
  <2> QED BY <2>1, <2>2, MapKept DEF SessionInv
<1>2. ASSUME NEW t \in Tokens \cup {None}, Disconnect(c, t) PROVE SessionInv'
  <2>1. TypeOK'
    BY <1>2 DEF Disconnect, SessionInv, TypeOK
  <2>2. Identified'
    BY <1>2 DEF Disconnect, SessionInv, Identified
  <2>3. LiveSessionsListed'
    <3> SUFFICES ASSUME NEW k \in Conns, pc'[k] \in Live, k \in open'
                 PROVE  sessions'[owner'[k]] = k \/ k \in closing'
      BY <1>2 DEF Disconnect, SessionInv, TypeOK, LiveSessionsListed
    <3>1. sessions[owner[k]] = k \/ k \in closing
      BY <1>2 DEF Disconnect, SessionInv, LiveSessionsListed
    <3> QED BY <1>2, <3>1, SessionsAssumption
            DEF Disconnect, SessionInv, TypeOK, Identified
  <2>4. SlotsHeld'
    BY <1>2 DEF Disconnect, SessionInv, TypeOK, SlotsHeld
  <2> QED BY <2>1, <2>2, <2>3, <2>4 DEF SessionInv
<1>3. CASE Shutdown
  <2>1. TypeOK'
    BY <1>3 DEF Shutdown, SessionInv, TypeOK, storeVars
  <2>2. Identified'
    BY <1>3 DEF Shutdown, SessionInv, Identified
  <2>3. LiveSessionsListed'
    <3> SUFFICES ASSUME NEW k \in Conns, pc'[k] \in Live, k \in open'
                 PROVE  k \in closing'
      BY <1>3 DEF Shutdown, SessionInv, TypeOK, LiveSessionsListed
    <3>1. owner[k] \in Clients
      BY <1>3 DEF Shutdown, SessionInv, Identified
    <3>2. sessions[owner[k]] = k \/ k \in closing
      BY <1>3 DEF Shutdown, SessionInv, LiveSessionsListed
    <3> QED BY <1>3, <3>1, <3>2, SessionsAssumption DEF Shutdown
  <2>4. SlotsHeld'
    BY <1>3 DEF Shutdown, SlotsHeld
  <2> QED BY <2>1, <2>2, <2>3, <2>4 DEF SessionInv
<1> QED BY <1>1, <1>2, <1>3

\* Every step keeps the invariant.
LEMMA SessionStep == SessionInv /\ [Next]_vars => SessionInv'
<1> SUFFICES ASSUME SessionInv, [Next]_vars PROVE SessionInv'
  OBVIOUS
<1>1. CASE UNCHANGED vars
  <2>1. TypeOK'
    BY <1>1 DEF vars, SessionInv, TypeOK
  <2>2. UNCHANGED <<sessions, owner, open, closing, pc>>
    BY <1>1 DEF vars
  <2> QED BY <2>1, <2>2, MapKept DEF SessionInv
<1>2. CASE Shutdown
  <2>1. \E c \in Clients : TRUE
    BY <1>2 DEF Shutdown
  <2> QED BY <1>2, <2>1, ApiStep
<1>3. CASE Next /\ ~Shutdown
  BY <1>3, AcceptStep, VerifyStep, RejectStep, RegisterStep, TalkStep, DropStep,
     CloseDroppedStep, ApiStep DEF Next
<1> QED BY <1>1, <1>2, <1>3

\* No two clients have one token, and the token that a connection was verified
\* by has been issued and is no other client's.
TokensApart ==
  /\ \A c \in Clients : token[c] # None => token[c] \in issued
  /\ \A c, d \in Clients : c # d /\ token[c] # None => token[c] # token[d]
  /\ \A k \in Conns : owner[k] # None =>
       hello[k] \in issued /\ \A d \in Clients \ {owner[k]} : token[d] # hello[k]
  /\ \A k \in Conns : pc[k] \in {"idle", "hello"} => owner[k] = None
  /\ \A k \in Conns : pc[k] = "hello" => hello[k] # None

\* The tokens at first are all different.
LEMMA TokensInit == Init => TokensApart
BY SessionsAssumption DEF Init, TokensApart

\* Steps that neither change a token nor verify one.
LEMMA TokensKept ==
  ASSUME TokensApart,
         UNCHANGED <<token, issued, hello, owner>>,
         \A k \in Conns : pc'[k] \in {"idle", "hello"} => pc[k] = pc'[k]
  PROVE  TokensApart'
BY DEF TokensApart

\* The steps of a connection after its token check, and calls of the tunnel.
LEMMA TokensUntouched ==
  ASSUME SessionInv, TokensApart,
         \/ \E k \in Conns :
              \/ Reject(k) \/ Register(k) \/ Greet(k) \/ Announce(k) \/ ReadEnds(k) \/ Drop(k)
              \/ CloseDropped(k) \/ Break(k) \/ CloseTaken(k)
         \/ \E c \in Clients, t \in Tokens \cup {None} : Disconnect(c, t)
         \/ Shutdown
         \/ UNCHANGED vars
  PROVE  TokensApart'
<1>1. UNCHANGED <<token, issued, hello, owner>>
  BY DEF Reject, Register, Greet, Announce, ReadEnds, Drop, CloseDropped, Break, CloseTaken,
         Disconnect, Shutdown, vars, storeVars
<1>2. \A k \in Conns : pc'[k] \in {"idle", "hello"} => pc[k] = pc'[k]
  BY DEF SessionInv, TypeOK, Reject, Register, Greet, Announce, ReadEnds, Drop, CloseDropped, Break, CloseTaken, Disconnect, Shutdown, vars
<1> QED BY <1>1, <1>2, TokensKept

\* Every step keeps tokens apart.
LEMMA TokensStep ==
  ASSUME SessionInv, TokensApart, [Next]_vars
  PROVE  TokensApart'
<1>1. ASSUME NEW k \in Conns, NEW t \in Tokens, Accept(k, t) PROVE TokensApart'
  <2>1. owner[k] = None
    BY <1>1 DEF Accept, TokensApart
  <2>2. t # None
    BY SessionsAssumption
  <2> QED BY <1>1, <2>1, <2>2 DEF Accept, storeVars, SessionInv, TypeOK, TokensApart
<1>2. ASSUME NEW k \in Conns, NEW c \in Clients, Verify(k, c) PROVE TokensApart'
  <2>1. UNCHANGED <<token, issued, hello>> /\ owner' = [owner EXCEPT ![k] = c]
    BY <1>2 DEF Verify, storeVars
  <2>2. hello[k] # None
    BY <1>2 DEF Verify, TokensApart
  <2>3. hello[k] \in issued /\ \A d \in Clients \ {c} : token[d] # hello[k]
    BY <1>2, <2>2 DEF Verify, TokensApart
  <2>4. \A j \in Conns : pc'[j] \in {"idle", "hello"} => j # k /\ pc[j] = pc'[j]
    BY <1>2 DEF Verify, SessionInv, TypeOK
  <2> QED BY <2>1, <2>3, <2>4 DEF SessionInv, TypeOK, TokensApart
<1>3. ASSUME NEW c \in Clients, NEW t \in Tokens, Rotate(c, t) PROVE TokensApart'
  <2>1. /\ UNCHANGED <<hello, owner, pc>> /\ issued' = issued \cup {t} /\ t \notin issued
        /\ token' = [token EXCEPT ![c] = t] /\ t # None
    BY <1>3, SessionsAssumption DEF Rotate
  <2>2. \A d \in Clients : token'[d] = IF d = c THEN t ELSE token[d]
    BY <2>1 DEF SessionInv, TypeOK
  <2>3. \A d \in Clients : token[d] # t
    BY <2>1 DEF TokensApart
  <2> QED BY <2>1, <2>2, <2>3 DEF TokensApart
<1>4. ASSUME NEW c \in Clients, Delete(c) PROVE TokensApart'
  <2>1. UNCHANGED <<hello, owner, pc, issued>> /\ token' = [token EXCEPT ![c] = None]
    BY <1>4 DEF Delete
  <2>2. \A d \in Clients : token'[d] = IF d = c THEN None ELSE token[d]
    BY <2>1 DEF SessionInv, TypeOK
  <2>3. \A k \in Conns : hello[k] \in issued => hello[k] # None
    BY SessionsAssumption DEF SessionInv, TypeOK
  <2> QED BY <2>1, <2>2, <2>3 DEF TokensApart
<1> QED BY <1>1, <1>2, <1>3, <1>4, TokensUntouched DEF Next

\* The inductive invariant of the session table.
THEOREM SessionSafety == Spec => []SessionInv
BY SessionInit, SessionStep, PTL DEF Spec

\* The session table, the connections and the handlers keep their types.
THEOREM SessionTypeCorrect == Spec => []TypeOK
BY SessionSafety, PTL DEF SessionInv

\* A registered connection that is open is in its client's slot or about to be
\* closed: no interleaving of replacement, dropSession, DisconnectClient and
\* Shutdown leaves a session that the API cannot end.
THEOREM LiveSessionsAlwaysListed == Spec => []LiveSessionsListed
BY SessionSafety, PTL DEF SessionInv

\* The store never lets a verified token become another client's.
THEOREM TokensAlwaysApart == Spec => []TokensApart
<1>1. SessionInv /\ TokensApart /\ [Next]_vars => TokensApart'
  BY TokensStep
<1> QED BY <1>1, TokensInit, SessionSafety, PTL DEF Spec

\* A client's slot only holds connections verified for it, by a token that is
\* no other client's, and that handleConn still serves.
THEOREM SlotsAlwaysVerified == Spec => []SlotsVerified
<1>1. SessionInv /\ TokensApart => SlotsVerified
  <2> SUFFICES ASSUME SessionInv, TokensApart, NEW c \in Clients, sessions[c] # None
               PROVE  /\ owner[sessions[c]] = c
                      /\ \A d \in Clients \ {c} : token[d] # hello[sessions[c]]
                      /\ pc[sessions[c]] \in Live
    BY DEF SlotsVerified
  <2>1. sessions[c] \in Conns /\ c # None
    BY SessionsAssumption DEF SessionInv, TypeOK
  <2>2. owner[sessions[c]] = c /\ pc[sessions[c]] \in Live
    BY DEF SessionInv, SlotsHeld
  <2> QED BY <2>1, <2>2 DEF TokensApart
<1> QED BY <1>1, SessionSafety, TokensAlwaysApart, PTL

=============================================================================
