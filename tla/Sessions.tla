------------------------------- MODULE Sessions -------------------------------
(***************************************************************************)
(* Client sessions on the tunnel port.                                     *)
(*                                                                         *)
(* Every connection runs Tunnel.handleConn in a goroutine of its own:      *)
(* hello, token check in the store, entry in Tunnel.sessions (which drops  *)
(* the client's previous session), the HelloResponse, the announcement of  *)
(* the forwards, then reading until the session ends.  The store's lock    *)
(* and the tunnel's lock are taken one after the other, so the admin API   *)
(* (token rotation, deletion) acts between any two of these steps, and a   *)
(* connection may break at any time.                                       *)
(*                                                                         *)
(* What the server writes to a client is left out: sendControl ignores its *)
(* errors, and of the writes only the HelloResponse decides what is next.  *)
(***************************************************************************)
EXTENDS Naturals, FiniteSets

CONSTANTS
  Conns,        \* connections accepted on the tunnel port, each used once
  Clients,      \* clients in the store
  Tokens,       \* client tokens that are ever issued
  FirstToken,   \* the token each client was created with
  None,         \* no session, no token
  SaveMayFail   \* may writing the state file fail?

ASSUME SessionsAssumption ==
  /\ None \notin Conns \cup Clients \cup Tokens
  /\ FirstToken \in [Clients -> Tokens]
  /\ \A c, d \in Clients : c # d => FirstToken[c] # FirstToken[d]
  /\ SaveMayFail \in BOOLEAN

VARIABLES
  token,     \* the store: client -> its token, None once deleted
  issued,    \* tokens handed out so far
  sessions,  \* Tunnel.sessions: client -> connection
  pc,        \* where each connection's handleConn is
  hello,     \* the token each connection presented
  owner,     \* the client each connection was verified for
  open,      \* connections whose yamux session is open
  kicks,     \* API handlers that have still to call DisconnectClient: the
             \* client and the token it was given (None: it was deleted)
  closing    \* connections DisconnectClient has taken and will close

vars == <<token, issued, sessions, pc, hello, owner, open, kicks, closing>>

storeVars == <<token, issued, kicks>>

\* Where handleConn is while its session may be in Tunnel.sessions.
Live == {"registered", "greeted", "serving", "ending"}

-----------------------------------------------------------------------------
(* handleConn *)

\* The TLS handshake, the control stream and the Hello have arrived.  The token
\* is or was some client's; a Hello with any other, or of another version of the
\* protocol, is refused like one whose token is gone.
Accept(k, t) ==
  /\ pc[k] = "idle" /\ t \in issued
  /\ pc' = [pc EXCEPT ![k] = "hello"]
  /\ hello' = [hello EXCEPT ![k] = t]
  /\ open' = open \cup {k}
  /\ UNCHANGED <<storeVars, sessions, owner, closing>>

\* Variant with a defect: the client is not the one that has the token, but
\* the last one the search has looked at.
VerifyLast(k, c) ==
  /\ pc[k] = "hello"
  /\ token[c] # None /\ \E d \in Clients : token[d] = hello[k]
  /\ pc' = [pc EXCEPT ![k] = "verified"]
  /\ owner' = [owner EXCEPT ![k] = c]
  /\ UNCHANGED <<storeVars, sessions, hello, open, closing>>

\* ClientByToken finds the client; its last-seen fields are saved.
Verify(k, c) ==
  /\ pc[k] = "hello"
  /\ token[c] = hello[k]
  /\ pc' = [pc EXCEPT ![k] = "verified"]
  /\ owner' = [owner EXCEPT ![k] = c]
  /\ UNCHANGED <<storeVars, sessions, hello, open, closing>>

\* No client has the token, or the store's update failed: answer and close.
Reject(k) ==
  /\ pc[k] = "hello"
  /\ SaveMayFail \/ \A c \in Clients : token[c] # hello[k]
  /\ open' = open \ {k}
  /\ pc' = [pc EXCEPT ![k] = "done"]
  /\ UNCHANGED <<storeVars, sessions, hello, owner, closing>>

\* Under the tunnel's lock: the previous session is told and closed, the new
\* one takes its place.
Register(k) ==
  LET c   == owner[k]
      old == {sessions[c]} \ {None} IN
  /\ pc[k] = "verified"
  /\ open' = open \ old
  /\ sessions' = [sessions EXCEPT ![c] = k]
  /\ pc' = [pc EXCEPT ![k] = "registered"]
  /\ UNCHANGED <<storeVars, hello, owner, closing>>

\* Variant with a defect: a failed HelloResponse just returns.
GreetForgetful(k) ==
  /\ pc[k] = "registered"
  /\ \/ k \in open /\ pc' = [pc EXCEPT ![k] = "greeted"]
     \/ pc' = [pc EXCEPT ![k] = "done"]
  /\ UNCHANGED <<storeVars, sessions, hello, owner, open, closing>>

\* The HelloResponse; if it cannot be written the session is dropped.
Greet(k) ==
  /\ pc[k] = "registered"
  /\ \/ k \in open /\ pc' = [pc EXCEPT ![k] = "greeted"]
     \/ pc' = [pc EXCEPT ![k] = "ending"]
  /\ UNCHANGED <<storeVars, sessions, hello, owner, open, closing>>

\* NotifyForwards, which leaves the sending to a goroutine, and noteReconnect.
Announce(k) ==
  /\ pc[k] = "greeted"
  /\ pc' = [pc EXCEPT ![k] = "serving"]
  /\ UNCHANGED <<storeVars, sessions, hello, owner, open, closing>>

\* The read loop ends: the session is closed, or only the control stream fails
\* or carries something that is no message.
ReadEnds(k) ==
  /\ pc[k] = "serving"
  /\ pc' = [pc EXCEPT ![k] = "ending"]
  /\ UNCHANGED <<storeVars, sessions, hello, owner, open, closing>>

\* Variant with a defect: dropSession deletes whatever session is there.
DropAny(k) ==
  /\ pc[k] = "ending"
  /\ sessions' = [sessions EXCEPT ![owner[k]] = None]
  /\ pc' = [pc EXCEPT ![k] = "dropped"]
  /\ UNCHANGED <<storeVars, hello, owner, open, closing>>

\* dropSession deletes the entry if it is still ours ...
Drop(k) ==
  /\ pc[k] = "ending"
  /\ sessions' = [sessions EXCEPT ![owner[k]] = IF @ = k THEN None ELSE @]
  /\ pc' = [pc EXCEPT ![k] = "dropped"]
  /\ UNCHANGED <<storeVars, hello, owner, open, closing>>

\* ... and, the lock released, closes the session and saves the last-seen time.
CloseDropped(k) ==
  /\ pc[k] = "dropped"
  /\ open' = open \ {k}
  /\ pc' = [pc EXCEPT ![k] = "done"]
  /\ UNCHANGED <<storeVars, sessions, hello, owner, closing>>

\* The connection breaks or the client closes it.
Break(k) ==
  /\ k \in open
  /\ open' = open \ {k}
  /\ UNCHANGED <<storeVars, sessions, pc, hello, owner, closing>>

-----------------------------------------------------------------------------
(* The admin API *)

\* After a failed save the change stays in memory and the handler returns
\* without disconnecting the client.
KickUnlessSaveFails(c) ==
  \/ kicks' = kicks \cup {<<c, token'[c]>>}
  \/ SaveMayFail /\ UNCHANGED kicks

\* handleRotateClientToken, in the store.
Rotate(c, t) ==
  /\ token[c] # None
  /\ t \notin issued
  /\ token' = [token EXCEPT ![c] = t]
  /\ issued' = issued \cup {t}
  /\ KickUnlessSaveFails(c)
  /\ UNCHANGED <<sessions, pc, hello, owner, open, closing>>

\* handleDeleteClient, in the store.
Delete(c) ==
  /\ token[c] # None
  /\ token' = [token EXCEPT ![c] = None]
  /\ KickUnlessSaveFails(c)
  /\ UNCHANGED <<issued, sessions, pc, hello, owner, open, closing>>

\* Variant with a defect: the session is taken out of the map and forgotten.
DisconnectUnlists(c, t) ==
  /\ <<c, t>> \in kicks
  /\ sessions' = [sessions EXCEPT ![c] = None]
  /\ kicks' = kicks \ {<<c, t>>}
  /\ UNCHANGED <<token, issued, pc, hello, owner, open, closing>>

\* Variant with a defect: a client without a session is not told apart.
DisconnectUnchecked(c, t) ==
  /\ <<c, t>> \in kicks
  /\ sessions' = [sessions EXCEPT ![c] = None]
  /\ closing' = closing \cup {sessions[c]}
  /\ kicks' = kicks \ {<<c, t>>}
  /\ UNCHANGED <<token, issued, pc, hello, owner, open>>

\* DisconnectClient takes the session out of the map ...
Disconnect(c, t) ==
  /\ <<c, t>> \in kicks
  /\ sessions' = [sessions EXCEPT ![c] = None]
  /\ closing' = closing \cup ({sessions[c]} \ {None})
  /\ kicks' = kicks \ {<<c, t>>}
  /\ UNCHANGED <<token, issued, pc, hello, owner, open>>

\* ... and, the lock released, tells the client and closes it.
CloseTaken(k) ==
  /\ k \in closing
  /\ open' = open \ {k}
  /\ closing' = closing \ {k}
  /\ UNCHANGED <<storeVars, sessions, pc, hello, owner>>

\* Tunnel.Shutdown closes every session in the map.
Shutdown ==
  LET ks == {sessions[c] : c \in Clients} \ {None} IN
  /\ ks # {}
  /\ open' = open \ ks
  /\ sessions' = [c \in Clients |-> None]
  /\ UNCHANGED <<storeVars, pc, hello, owner, closing>>

-----------------------------------------------------------------------------

Init ==
  /\ token = FirstToken
  /\ issued = {FirstToken[c] : c \in Clients}
  /\ sessions = [c \in Clients |-> None]
  /\ pc = [k \in Conns |-> "idle"]
  /\ hello = [k \in Conns |-> None]
  /\ owner = [k \in Conns |-> None]
  /\ open = {} /\ kicks = {} /\ closing = {}

Next ==
  \/ \E k \in Conns, t \in Tokens : Accept(k, t)
  \/ \E k \in Conns, c \in Clients : Verify(k, c)
  \/ \E k \in Conns : Reject(k)
  \/ \E k \in Conns : Register(k)
  \/ \E k \in Conns : Greet(k)
  \/ \E k \in Conns : Announce(k)
  \/ \E k \in Conns : ReadEnds(k)
  \/ \E k \in Conns : Drop(k)
  \/ \E k \in Conns : CloseDropped(k)
  \/ \E k \in Conns : Break(k)
  \/ \E c \in Clients, t \in Tokens : Rotate(c, t)
  \/ \E c \in Clients : Delete(c)
  \/ \E c \in Clients, t \in Tokens \cup {None} : Disconnect(c, t)
  \/ \E k \in Conns : CloseTaken(k)
  \/ Shutdown

Spec == Init /\ [][Next]_vars

\* Goroutines that can run do run, and reading a closed session fails;
\* requests, new connections and breaks are the environment's.
Fairness ==
  /\ \A k \in Conns :
       /\ WF_vars(Register(k)) /\ WF_vars(Greet(k)) /\ WF_vars(Announce(k))
       /\ WF_vars(k \notin open /\ ReadEnds(k)) /\ WF_vars(Drop(k))
       /\ WF_vars(CloseDropped(k))
       /\ WF_vars(CloseTaken(k))
       /\ WF_vars(Reject(k) \/ \E c \in Clients : Verify(k, c))
  /\ \A c \in Clients, t \in Tokens \cup {None} : WF_vars(Disconnect(c, t))

FairSpec == Spec /\ Fairness

-----------------------------------------------------------------------------
(* Properties *)

\* Every variable has the shape its Go counterpart has.
TypeOK ==
  /\ token \in [Clients -> Tokens \cup {None}]
  /\ issued \subseteq Tokens
  /\ sessions \in [Clients -> Conns \cup {None}]
  /\ pc \in [Conns -> {"idle", "hello", "verified", "dropped", "done"} \cup Live]
  /\ hello \in [Conns -> Tokens \cup {None}]
  /\ owner \in [Conns -> Clients \cup {None}]
  /\ open \subseteq Conns
  /\ kicks \subseteq Clients \X (Tokens \cup {None})
  /\ closing \subseteq Conns

\* No session escapes the server: an open connection that is registered is the
\* one in its client's slot of Tunnel.sessions or about to be closed by
\* DisconnectClient, and it does not stay open once handleConn has returned.
\* Otherwise traffic would be relayed over a session that no API call can end.
\* Replacement, dropSession and DisconnectClient race for it.
LiveSessionsListed ==
  \A k \in open :
    /\ pc[k] \in Live => sessions[owner[k]] = k \/ k \in closing
    /\ pc[k] # "done"

\* The slot of a client holds a connection that ClientByToken verified for that
\* client, whose token belongs to no other client then or later, and that still
\* has a handleConn to take it out again: traffic for a client never goes to
\* another client's machine, whatever is rotated, deleted or replaced meanwhile.
SlotsVerified ==
  \A c \in Clients :
    sessions[c] # None =>
      /\ owner[sessions[c]] = c
      /\ \A d \in Clients \ {c} : token[d] # hello[sessions[c]]
      /\ pc[sessions[c]] \in Live

\* A dead session does not stay listed: ClientStatus stops saying online.
DeadSessionsLeave ==
  \A c \in Clients, k \in Conns :
    (sessions[c] = k /\ k \notin open) ~> sessions[c] # k

\* The clients some API handler is about to disconnect.
Kicked == {h[1] : h \in kicks}

\* A session that is listed when its client is deleted or its token rotated is
\* closed.
KickedSessionsClose ==
  \A c \in Clients, k \in Conns :
    (c \in Kicked /\ sessions[c] = k) ~> k \notin open

\* Once the handler that replaced a token is done with DisconnectClient, no
\* session of the old token is left.
OldTokenDisconnected ==
  \A c \in Clients :
    sessions[c] # None /\ c \notin Kicked => hello[sessions[c]] = token[c]

=============================================================================
