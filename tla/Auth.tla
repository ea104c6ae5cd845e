--------------------------------- MODULE Auth ---------------------------------
(***************************************************************************)
(* Who may use the management API: the admin password and the API tokens   *)
(* in the store, browser sessions in memory, and the limit on failed       *)
(* logins of one address.                                                  *)
(*                                                                         *)
(* A login asks the limiter, compares the password under the store's lock, *)
(* resets the limiter and makes the session, each under a lock of its own; *)
(* a change of the password saves the store and then clears the sessions.  *)
(* A request with a token looks the token up and later notes its use with  *)
(* a second visit to the store.  Requests overlap.                         *)
(***************************************************************************)
EXTENDS Naturals, FiniteSets

CONSTANTS
  Logins,           \* login requests that may be in flight together
  Changes,          \* password change requests that may be in flight together
  Tokens,           \* API tokens, each created once
  loginMaxFailures, \* failures of an address that block it
  MaxPassword,      \* bound: passwords are 1..MaxPassword, a new one for each change
  MaxSessions,      \* bound: sessions alive at the same time
  MaxFaults,        \* bound: saves that fail
  None              \* no request, no token

ASSUME AuthAssumption ==
  /\ IsFiniteSet(Logins) /\ loginMaxFailures \in Nat \ {0}
  /\ MaxPassword \in Nat \ {0} /\ MaxSessions \in Nat /\ MaxFaults \in Nat
  /\ None \notin Tokens

Passwords == 1..MaxPassword

VARIABLES
  password, savedPassword,  \* Admin.PasswordHash in memory and in the state file
  tokens, savedTokens,      \* State.Tokens in memory and in the state file
  used,                     \* tokens that have existed
  sessions,                 \* sessionStore.byID: how many for each password they were made with
  failures,                 \* recent failures of the address
  login,                    \* login requests: where they are, the password given
  change,                   \* password changes: where they are, the password given, then the new one
  touch,                    \* a token whose use is still to be noted
  top,                      \* the last password chosen
  ackedPassword, revoked,   \* history: what the API has confirmed
  overtaken,                \* history: sessions made by a login that a change overtook
  unconfirmed,              \* history: a change failed to save and the sessions were not cleared since
  faults                    \* used up of the bound

stored == <<password, savedPassword, tokens, savedTokens>>
requests == <<login, change, touch>>
history == <<ackedPassword, revoked, overtaken, unconfirmed>>
vars == <<stored, used, sessions, failures, requests, top, history, faults>>

Idle == [pc |-> "idle", given |-> 0]

Alive == {p \in Passwords : sessions[p] > 0}

\* A session whose cookie is still valid.
SignedIn == Alive # {}

\* Store.Update: the change is made in memory and the whole state is saved;
\* when the save fails memory keeps it and the caller gets an error.
Update(pw, toks) == password' = pw /\ tokens' = toks
Saved == savedPassword' = password' /\ savedTokens' = tokens' /\ UNCHANGED faults
SaveFails == faults < MaxFaults /\ faults' = faults + 1 /\ UNCHANGED <<savedPassword, savedTokens>>

\* CheckPassword: the hash is of the password that is given.
Matches(given) == given = password

-----------------------------------------------------------------------------
(* handleLogin *)

\* Variant with a defect: the limiter is not asked.
LoginAskUnlimited(l, given) ==
  /\ login[l].pc = "idle"
  /\ login' = [login EXCEPT ![l] = [pc |-> "check", given |-> given]]
  /\ UNCHANGED <<stored, used, sessions, failures, change, touch, top, history, faults>>

\* limiter.blocked
LoginAsk(l, given) ==
  /\ login[l].pc = "idle" /\ failures < loginMaxFailures
  /\ login' = [login EXCEPT ![l] = [pc |-> "check", given |-> given]]
  /\ UNCHANGED <<stored, used, sessions, failures, change, touch, top, history, faults>>

\* CheckPassword under the store's lock
LoginCheck(l) ==
  /\ login[l].pc = "check"
  /\ login' = [login EXCEPT ![l].pc = IF Matches(login[l].given) THEN "reset" ELSE "fail"]
  /\ UNCHANGED <<stored, used, sessions, failures, change, touch, top, history, faults>>

\* limiter.fail
LoginFail(l) ==
  /\ login[l].pc = "fail"
  /\ failures' = failures + 1
  /\ login' = [login EXCEPT ![l] = Idle]
  /\ UNCHANGED <<stored, used, sessions, change, touch, top, history, faults>>

\* limiter.reset
LoginReset(l) ==
  /\ login[l].pc = "reset"
  /\ failures' = 0
  /\ login' = [login EXCEPT ![l].pc = "create"]
  /\ UNCHANGED <<stored, used, sessions, change, touch, top, history, faults>>

\* sessions.create, whatever has become of the password since the check
LoginCreate(l) ==
  LET p == login[l].given IN
  /\ login[l].pc = "create" /\ sessions[p] < MaxSessions
  /\ sessions' = [sessions EXCEPT ![p] = @ + 1]
  /\ overtaken' = IF p = password THEN overtaken ELSE overtaken \cup {p}
  /\ login' = [login EXCEPT ![l] = Idle]
  /\ UNCHANGED <<stored, used, failures, change, touch, top, ackedPassword, revoked, unconfirmed, faults>>

\* Variant with a defect: the count goes below zero.
FailuresAgeBelow ==
  /\ failures' = failures - 1
  /\ UNCHANGED <<stored, used, sessions, requests, top, history, faults>>

\* loginWindow: failures are forgotten from the oldest on.
FailuresAge ==
  /\ failures > 0 /\ failures' = failures - 1
  /\ UNCHANGED <<stored, used, sessions, requests, top, history, faults>>

\* handleLogout, or a session that was not used for sessionTTL
SessionEnds(p) ==
  /\ sessions[p] > 0
  /\ sessions' = [sessions EXCEPT ![p] = @ - 1]
  /\ overtaken' = IF sessions[p] = 1 THEN overtaken \ {p} ELSE overtaken
  /\ UNCHANGED <<stored, used, failures, requests, top, ackedPassword, revoked, unconfirmed, faults>>

-----------------------------------------------------------------------------
(* handleChangePassword *)

\* guard admits the request on a session.
ChangeAsk(c, given) ==
  /\ change[c].pc = "idle" /\ SignedIn
  /\ change' = [change EXCEPT ![c] = [pc |-> "update", given |-> given]]
  /\ UNCHANGED <<stored, used, sessions, failures, login, touch, top, history, faults>>

\* The current password is wrong.
ChangeRefused(c) ==
  /\ change[c].pc = "update" /\ ~Matches(change[c].given)
  /\ change' = [change EXCEPT ![c] = Idle]
  /\ UNCHANGED <<stored, used, sessions, failures, login, touch, top, history, faults>>

ChangeUpdate(c) ==
  /\ change[c].pc = "update" /\ Matches(change[c].given)
  /\ top < MaxPassword /\ top' = top + 1
  /\ Update(top + 1, tokens)
  /\ \/ Saved /\ change' = [change EXCEPT ![c] = [pc |-> "clear", given |-> top + 1]] /\ UNCHANGED unconfirmed
     \/ SaveFails /\ change' = [change EXCEPT ![c] = Idle] /\ unconfirmed' = TRUE
  /\ UNCHANGED <<used, sessions, failures, login, touch, ackedPassword, revoked, overtaken>>

\* Variant with a defect: only the session of the request ends.
ClearOwn ==
  IF Alive = {} THEN UNCHANGED sessions
  ELSE \E p \in Alive : sessions' = [sessions EXCEPT ![p] = @ - 1]

\* sessions.clear
Clear == sessions' = [p \in Passwords |-> 0]

\* ... and the answer
ChangeClear(c) ==
  /\ change[c].pc = "clear"
  /\ Clear
  /\ overtaken' = {} /\ unconfirmed' = FALSE
  /\ ackedPassword' = IF ackedPassword > change[c].given THEN ackedPassword ELSE change[c].given
  /\ change' = [change EXCEPT ![c] = Idle]
  /\ UNCHANGED <<stored, used, failures, login, touch, top, revoked, faults>>

-----------------------------------------------------------------------------
(* API tokens *)

CreateToken(t) ==
  /\ SignedIn /\ t \notin used
  /\ used' = used \cup {t}
  /\ Update(password, tokens \cup {t})
  /\ Saved \/ SaveFails
  /\ UNCHANGED <<sessions, failures, requests, top, history>>

\* A failed save is answered with an error: nothing is confirmed.
DeleteToken(t) ==
  /\ SignedIn /\ t \in tokens
  /\ Update(password, tokens \ {t})
  /\ \/ Saved /\ revoked' = revoked \cup {t}
     \/ SaveFails /\ UNCHANGED revoked
  /\ UNCHANGED <<used, sessions, failures, requests, top, ackedPassword, overtaken, unconfirmed>>

\* authenticate: the token is known ...
UseToken(t) ==
  /\ touch = None /\ t \in tokens
  /\ touch' = t
  /\ UNCHANGED <<stored, used, sessions, failures, login, change, top, history, faults>>

\* Variant with a defect: the token that was looked up is written back.
TouchTokenBack ==
  /\ touch # None /\ touch' = None
  /\ Update(password, tokens \cup {touch})
  /\ Saved \/ SaveFails
  /\ UNCHANGED <<used, sessions, failures, login, change, top, history>>

\* ... and its use is noted, if it is still there; the state is saved in any case.
TouchToken ==
  /\ touch # None /\ touch' = None
  /\ Update(password, tokens)
  /\ Saved \/ SaveFails
  /\ UNCHANGED <<used, sessions, failures, login, change, top, history>>

-----------------------------------------------------------------------------
(* The process *)

Forget ==
  /\ sessions' = [p \in Passwords |-> 0] /\ failures' = 0
  /\ login' = [l \in Logins |-> Idle] /\ change' = [c \in Changes |-> Idle] /\ touch' = None
  /\ overtaken' = {} /\ unconfirmed' = FALSE

\* Open reads the state file.
Restart ==
  /\ Forget
  /\ password' = savedPassword /\ tokens' = savedTokens
  /\ UNCHANGED <<savedPassword, savedTokens, used, top, ackedPassword, revoked, faults>>

\* bootstrapAdmin with ResetAdminPassword: a new password is saved before anything is served.
RestartReset ==
  /\ Forget
  /\ top < MaxPassword /\ top' = top + 1
  /\ password' = top + 1 /\ savedPassword' = top + 1 /\ ackedPassword' = top + 1
  /\ tokens' = savedTokens
  /\ UNCHANGED <<savedTokens, used, revoked, faults>>

-----------------------------------------------------------------------------
Init ==
  /\ password = 1 /\ savedPassword = 1 /\ tokens = {} /\ savedTokens = {} /\ used = {}
  /\ sessions = [p \in Passwords |-> 0] /\ failures = 0
  /\ login = [l \in Logins |-> Idle] /\ change = [c \in Changes |-> Idle] /\ touch = None
  /\ top = 1 /\ ackedPassword = 1 /\ revoked = {} /\ overtaken = {} /\ unconfirmed = FALSE
  /\ faults = 0

Next ==
  \/ \E l \in Logins :
       \/ \E p \in Passwords : LoginAsk(l, p)
       \/ LoginCheck(l) \/ LoginFail(l) \/ LoginReset(l) \/ LoginCreate(l)
  \/ FailuresAge
  \/ \E p \in Passwords : SessionEnds(p)
  \/ \E c \in Changes :
       \/ \E p \in Passwords : ChangeAsk(c, p)
       \/ ChangeRefused(c) \/ ChangeUpdate(c) \/ ChangeClear(c)
  \/ \E t \in Tokens : CreateToken(t) \/ DeleteToken(t) \/ UseToken(t)
  \/ TouchToken
  \/ Restart \/ RestartReset

Spec == Init /\ [][Next]_vars

-----------------------------------------------------------------------------
Stages == {"idle", "check", "fail", "reset", "create", "update", "clear"}

TypeOK ==
  /\ password \in Passwords /\ savedPassword \in Passwords
  /\ tokens \subseteq used /\ savedTokens \subseteq used /\ used \subseteq Tokens
  /\ sessions \in [Passwords -> 0..MaxSessions] /\ failures \in Nat
  /\ login \in [Logins -> [pc : Stages, given : 0..MaxPassword]]
  /\ change \in [Changes -> [pc : Stages, given : 0..MaxPassword]]
  /\ touch \in Tokens \cup {None} /\ top \in Passwords
  /\ ackedPassword \in Passwords /\ revoked \subseteq Tokens /\ overtaken \subseteq Passwords
  /\ unconfirmed \in BOOLEAN /\ faults \in Nat

\* Changing the password ends the sessions made with an old one.  What may
\* still exist are sessions of a login that had passed its check when the
\* password changed under it, sessions that a change under way is about to
\* clear, and all of them after a change that failed to save, until the next
\* clear or restart.
OldSessionsEnd ==
  \/ unconfirmed
  \/ \A p \in Alive \ {password} : p \in overtaken \/ \E c \in Changes : change[c].pc = "clear"

\* What the API has confirmed survives crashes, failed saves and requests that
\* overlapped: a replaced password is never valid again, and a deleted token
\* is never accepted again.
ConfirmedIsDurable ==
  /\ password >= ackedPassword /\ savedPassword >= ackedPassword
  /\ revoked \cap (tokens \cup savedTokens) = {}

\* An address has at most as many recent failures as the limit allows, and
\* one more for each other login that was past the limiter at the same time.
FailuresLimited ==
  failures + Cardinality({l \in Logins : login[l].pc \in {"check", "fail"}})
    < loginMaxFailures + Cardinality(Logins)
=============================================================================
