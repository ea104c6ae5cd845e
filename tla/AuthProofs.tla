------------------------------ MODULE AuthProofs ------------------------------
(***************************************************************************)
(* What authentication promises, for any number of requests in flight, any *)
(* number of passwords, tokens and sessions, and however often saves fail. *)
(*                                                                         *)
(* That a confirmed change is durable needs the order of the passwords: a  *)
(* change that is about to be confirmed is no newer than the password in   *)
(* memory and in the file, whatever other requests have saved since.  That *)
(* a deleted token stays deleted needs that token ids are never used twice.*)
(***************************************************************************)
EXTENDS Auth, FiniteSetTheorems, TLAPS

\* A login or a change that is under way was given a password.
Known ==
  /\ \A l \in Logins : login[l].pc # "idle" => login[l].given \in Passwords
  /\ \A c \in Changes : change[c].pc # "idle" => change[c].given \in Passwords

\* Passwords are chosen in order, and what a change is about to confirm is in
\* memory and in the file, or something newer is.
Ordered ==
  /\ password <= top /\ savedPassword <= top
  /\ \A c \in Changes : change[c].pc = "clear" => change[c].given <= password /\ change[c].given <= savedPassword
  /\ revoked \subseteq used

AuthInv == TypeOK /\ Known /\ OldSessionsEnd /\ Ordered /\ ConfirmedIsDurable /\ FailuresLimited

\* Logins past the limiter whose outcome is not counted yet.
Racing(lg) == {l \in Logins : lg[l].pc \in {"check", "fail"}}

\* A request: where it is and the password it carries.
Request == [pc : Stages, given : 0..MaxPassword]

\* Every step keeps the types, and starts requests with a password.
LEMMA TypeStep ==
  ASSUME AuthInv, [Next]_vars
  PROVE  TypeOK' /\ Known'
<1>a. Idle \in Request /\ 0 \in 0..MaxSessions /\ 0 \in Nat
  BY AuthAssumption DEF Idle, Request, Stages
<1> USE DEF AuthInv
<1>1. ASSUME NEW l \in Logins, NEW p \in Passwords, LoginAsk(l, p) PROVE TypeOK' /\ Known'
  BY AuthAssumption, <1>1 DEF LoginAsk, stored, history, Passwords, Stages, TypeOK, Known
<1>2. ASSUME NEW l \in Logins, LoginCheck(l) PROVE TypeOK' /\ Known'
  <2>1. PICK s \in {"reset", "fail"} : login' = [login EXCEPT ![l].pc = s]
    BY <1>2 DEF LoginCheck
  <2>2. login' \in [Logins -> Request]
    BY <2>1 DEF TypeOK, Request, Stages
  <2>3. TypeOK'
    BY <1>2, <2>2 DEF LoginCheck, stored, history, TypeOK, Request
  <2>4. Known'
    BY <1>2, <2>1 DEF LoginCheck, TypeOK, Known
  <2> QED BY <2>3, <2>4
<1>3. ASSUME NEW l \in Logins, LoginFail(l) PROVE TypeOK' /\ Known'
  BY AuthAssumption, <1>3 DEF LoginFail, Idle, stored, history, Passwords, Stages, TypeOK, Known
<1>4. ASSUME NEW l \in Logins, LoginReset(l) PROVE TypeOK' /\ Known'
  BY AuthAssumption, <1>4 DEF LoginReset, stored, history, Passwords, Stages, TypeOK, Known
<1>5. ASSUME NEW l \in Logins, LoginCreate(l) PROVE TypeOK' /\ Known'
  <2>1. password' \in Passwords /\ savedPassword' \in Passwords /\ top' \in Passwords /\ ackedPassword' \in Passwords
    BY <1>5 DEF LoginCreate, stored, TypeOK
  <2>2. login' \in [Logins -> Request] /\ change' \in [Changes -> Request]
    BY <1>5, <1>a DEF LoginCreate, TypeOK, Request
  <2>3. sessions' \in [Passwords -> 0..MaxSessions] /\ failures' \in Nat
    BY <1>5, AuthAssumption DEF LoginCreate, TypeOK, Known
  <2>4. tokens' \subseteq used' /\ savedTokens' \subseteq used' /\ used' \subseteq Tokens /\ revoked' \subseteq Tokens
    BY <1>5 DEF LoginCreate, stored, TypeOK
  <2>5. touch' \in Tokens \cup {None} /\ overtaken' \subseteq Passwords /\ unconfirmed' \in BOOLEAN /\ faults' \in Nat
    BY <1>5 DEF LoginCreate, TypeOK, Known
  <2>6. Known'
    BY <1>5 DEF LoginCreate, TypeOK, Known, Idle
  <2> QED BY <2>1, <2>2, <2>3, <2>4, <2>5, <2>6 DEF TypeOK, Request
<1>6. ASSUME FailuresAge PROVE TypeOK' /\ Known'
  BY AuthAssumption, <1>6
     DEF FailuresAge, stored, requests, history, Passwords, Stages, TypeOK, Known
<1>7. ASSUME NEW p \in Passwords, SessionEnds(p) PROVE TypeOK' /\ Known'
  BY AuthAssumption, <1>7 DEF SessionEnds, stored, requests, Passwords, Stages, TypeOK, Known
<1>8. ASSUME NEW c \in Changes, NEW p \in Passwords, ChangeAsk(c, p) PROVE TypeOK' /\ Known'
  BY AuthAssumption, <1>8 DEF ChangeAsk, stored, history, Passwords, Stages, TypeOK, Known
<1>9. ASSUME NEW c \in Changes, ChangeRefused(c) PROVE TypeOK' /\ Known'
  BY AuthAssumption, <1>9 DEF ChangeRefused, Idle, stored, history, Passwords, Stages, TypeOK, Known
<1>10. ASSUME NEW c \in Changes, ChangeUpdate(c) PROVE TypeOK' /\ Known'
  <2>1. password' \in Passwords /\ savedPassword' \in Passwords /\ top' \in Passwords /\ ackedPassword' \in Passwords
    BY <1>10, AuthAssumption DEF ChangeUpdate, Update, Saved, SaveFails, Passwords, TypeOK
  <2>2. PICK r \in {Idle, [pc |-> "clear", given |-> top + 1]} : change' = [change EXCEPT ![c] = r]
    BY <1>10 DEF ChangeUpdate
  <2>3. top + 1 \in Passwords /\ r \in Request /\ (r.pc # "idle" => r.given \in Passwords)
    BY <1>10, <1>a, <2>2, AuthAssumption DEF ChangeUpdate, TypeOK, Request, Stages, Passwords, Idle
  <2>4. login' \in [Logins -> Request] /\ change' \in [Changes -> Request]
    BY <1>10, <2>2, <2>3 DEF ChangeUpdate, TypeOK, Request
  <2>5. sessions' \in [Passwords -> 0..MaxSessions] /\ failures' \in Nat
    BY <1>10 DEF ChangeUpdate, TypeOK
  <2>6. tokens' \subseteq used' /\ savedTokens' \subseteq used' /\ used' \subseteq Tokens /\ revoked' \subseteq Tokens
    BY <1>10 DEF ChangeUpdate, Update, Saved, SaveFails, TypeOK
  <2>7. touch' \in Tokens \cup {None} /\ overtaken' \subseteq Passwords /\ faults' \in Nat
    BY <1>10 DEF ChangeUpdate, Saved, SaveFails, TypeOK
  <2>8. unconfirmed' \in BOOLEAN
    <3>1. unconfirmed' = unconfirmed \/ unconfirmed' = TRUE
      BY <1>10, Zenon DEF ChangeUpdate
    <3> QED BY <3>1, Zenon DEF TypeOK
  <2>9. Known'
    BY <1>10, <2>2, <2>3 DEF ChangeUpdate, TypeOK, Known
  <2> QED BY <2>1, <2>4, <2>5, <2>6, <2>7, <2>8, <2>9 DEF TypeOK, Request
<1>11. ASSUME NEW c \in Changes, ChangeClear(c) PROVE TypeOK' /\ Known'
  <2>1. password' \in Passwords /\ savedPassword' \in Passwords /\ top' \in Passwords /\ ackedPassword' \in Passwords
    BY <1>11, AuthAssumption DEF ChangeClear, stored, TypeOK, Known
  <2>2. login' \in [Logins -> Request] /\ change' \in [Changes -> Request]
    BY <1>11, <1>a DEF ChangeClear, TypeOK, Request
  <2>3. sessions' \in [Passwords -> 0..MaxSessions] /\ failures' \in Nat
    BY <1>11, <1>a DEF ChangeClear, Clear, TypeOK
  <2>4. tokens' \subseteq used' /\ savedTokens' \subseteq used' /\ used' \subseteq Tokens /\ revoked' \subseteq Tokens
    BY <1>11 DEF ChangeClear, stored, TypeOK
  <2>5. touch' \in Tokens \cup {None} /\ overtaken' \subseteq Passwords /\ unconfirmed' \in BOOLEAN /\ faults' \in Nat
    BY <1>11 DEF ChangeClear, TypeOK
  <2>6. Known'
    BY <1>11 DEF ChangeClear, TypeOK, Known, Idle
  <2> QED BY <2>1, <2>2, <2>3, <2>4, <2>5, <2>6 DEF TypeOK, Request
<1>12. ASSUME NEW t \in Tokens, CreateToken(t) PROVE TypeOK' /\ Known'
  <2>1. password' \in Passwords /\ savedPassword' \in Passwords /\ faults' \in Nat
    BY <1>12 DEF CreateToken, Update, Saved, SaveFails, TypeOK
  <2>2. tokens' \subseteq used' /\ savedTokens' \subseteq used' /\ used' \subseteq Tokens /\ revoked' \subseteq Tokens
    BY <1>12 DEF CreateToken, Update, Saved, SaveFails, history, TypeOK
  <2>3. UNCHANGED <<sessions, failures, login, change, top, ackedPassword, overtaken, unconfirmed>>
    BY <1>12 DEF CreateToken, requests, history
  <2>4. touch' \in Tokens \cup {None}
    BY <1>12 DEF CreateToken, requests, TypeOK
  <2> QED BY <2>1, <2>2, <2>3, <2>4 DEF TypeOK, Known
<1>13. ASSUME NEW t \in Tokens, DeleteToken(t) PROVE TypeOK' /\ Known'
  <2>1. password' \in Passwords /\ savedPassword' \in Passwords /\ faults' \in Nat
    BY <1>13 DEF DeleteToken, Update, Saved, SaveFails, TypeOK
  <2>2. tokens' \subseteq used' /\ savedTokens' \subseteq used' /\ used' \subseteq Tokens /\ revoked' \subseteq Tokens
    BY <1>13 DEF DeleteToken, Update, Saved, SaveFails, history, TypeOK
  <2>3. UNCHANGED <<sessions, failures, login, change, top, ackedPassword, overtaken, unconfirmed>>
    BY <1>13 DEF DeleteToken, requests, history
  <2>4. touch' \in Tokens \cup {None}
    BY <1>13 DEF DeleteToken, requests, TypeOK
  <2> QED BY <2>1, <2>2, <2>3, <2>4 DEF TypeOK, Known
<1>14. ASSUME NEW t \in Tokens, UseToken(t) PROVE TypeOK' /\ Known'
  BY AuthAssumption, <1>14 DEF UseToken, stored, history, Passwords, Stages, TypeOK, Known
<1>15. ASSUME TouchToken PROVE TypeOK' /\ Known'
  <2>1. password' \in Passwords /\ savedPassword' \in Passwords /\ faults' \in Nat
    BY <1>15 DEF TouchToken, Update, Saved, SaveFails, TypeOK
  <2>2. tokens' \subseteq used' /\ savedTokens' \subseteq used' /\ used' \subseteq Tokens /\ revoked' \subseteq Tokens
    BY <1>15 DEF TouchToken, Update, Saved, SaveFails, history, TypeOK
  <2>3. UNCHANGED <<sessions, failures, login, change, top, ackedPassword, overtaken, unconfirmed>>
    BY <1>15 DEF TouchToken, requests, history
  <2>4. touch' \in Tokens \cup {None}
    BY <1>15 DEF TouchToken, requests, TypeOK
  <2> QED BY <2>1, <2>2, <2>3, <2>4 DEF TypeOK, Known
<1>16. ASSUME Restart PROVE TypeOK' /\ Known'
  <2>1. password' \in Passwords /\ savedPassword' \in Passwords /\ top' \in Passwords /\ ackedPassword' \in Passwords
    BY <1>16, AuthAssumption DEF Restart, Forget, Passwords, TypeOK
  <2>2. login' \in [Logins -> Request] /\ change' \in [Changes -> Request]
    BY <1>16, <1>a DEF Restart, Forget
  <2>3. sessions' \in [Passwords -> 0..MaxSessions] /\ failures' \in Nat
    BY <1>16, <1>a DEF Restart, Forget
  <2>4. tokens' \subseteq used' /\ savedTokens' \subseteq used' /\ used' \subseteq Tokens /\ revoked' \subseteq Tokens
    BY <1>16 DEF Restart, TypeOK
  <2>5. touch' \in Tokens \cup {None} /\ overtaken' \subseteq Passwords /\ unconfirmed' \in BOOLEAN /\ faults' \in Nat
    BY <1>16 DEF Restart, Forget, TypeOK
  <2>6. Known'
    BY <1>16 DEF Restart, Forget, Known, Idle
  <2> QED BY <2>1, <2>2, <2>3, <2>4, <2>5, <2>6 DEF TypeOK, Request
<1>17. ASSUME RestartReset PROVE TypeOK' /\ Known'
  <2>1. password' \in Passwords /\ savedPassword' \in Passwords /\ top' \in Passwords /\ ackedPassword' \in Passwords
    BY <1>17, AuthAssumption DEF RestartReset, Forget, Passwords, TypeOK
  <2>2. login' \in [Logins -> Request] /\ change' \in [Changes -> Request]
    BY <1>17, <1>a DEF RestartReset, Forget
  <2>3. sessions' \in [Passwords -> 0..MaxSessions] /\ failures' \in Nat
    BY <1>17, <1>a DEF RestartReset, Forget
  <2>4. tokens' \subseteq used' /\ savedTokens' \subseteq used' /\ used' \subseteq Tokens /\ revoked' \subseteq Tokens
    BY <1>17 DEF RestartReset, TypeOK
  <2>5. touch' \in Tokens \cup {None} /\ overtaken' \subseteq Passwords /\ unconfirmed' \in BOOLEAN /\ faults' \in Nat
    BY <1>17 DEF RestartReset, Forget, TypeOK
  <2>6. Known'
    BY <1>17 DEF RestartReset, Forget, Known, Idle
  <2> QED BY <2>1, <2>2, <2>3, <2>4, <2>5, <2>6 DEF TypeOK, Request
<1>18. CASE UNCHANGED vars
  BY <1>18 DEF vars, stored, requests, history, Passwords, Stages, TypeOK, Known
<1> QED BY <1>1, <1>2, <1>3, <1>4, <1>5, <1>6, <1>7, <1>8, <1>9, <1>10, <1>11, <1>12, <1>13, <1>14,
           <1>15, <1>16, <1>17, <1>18
           DEF Next

\* A session of an old password is overtaken or about to be cleared.
LEMMA SessionsStep ==
  ASSUME AuthInv, [Next]_vars
  PROVE  OldSessionsEnd'
<1> USE DEF AuthInv
<1>1. ASSUME NEW l \in Logins, NEW p \in Passwords, LoginAsk(l, p) PROVE OldSessionsEnd'
  BY AuthAssumption, <1>1
     DEF LoginAsk, stored, history, Passwords, TypeOK, Known, OldSessionsEnd, Alive
<1>2. ASSUME NEW l \in Logins, LoginCheck(l) PROVE OldSessionsEnd'
  BY AuthAssumption, <1>2
     DEF LoginCheck, stored, history, Passwords, TypeOK, Known, OldSessionsEnd, Alive
<1>3. ASSUME NEW l \in Logins, LoginFail(l) PROVE OldSessionsEnd'
  BY AuthAssumption, <1>3
     DEF LoginFail, Idle, stored, history, Passwords, TypeOK, Known, OldSessionsEnd, Alive
<1>4. ASSUME NEW l \in Logins, LoginReset(l) PROVE OldSessionsEnd'
  BY AuthAssumption, <1>4
     DEF LoginReset, stored, history, Passwords, TypeOK, Known, OldSessionsEnd, Alive
<1>5. ASSUME NEW l \in Logins, LoginCreate(l) PROVE OldSessionsEnd'
  BY AuthAssumption, <1>5
     DEF LoginCreate, Idle, stored, Passwords, TypeOK, Known, OldSessionsEnd, Alive
<1>6. ASSUME FailuresAge PROVE OldSessionsEnd'
  BY AuthAssumption, <1>6
     DEF FailuresAge, stored, requests, history, Passwords, TypeOK, Known, OldSessionsEnd, Alive
<1>7. ASSUME NEW p \in Passwords, SessionEnds(p) PROVE OldSessionsEnd'
  BY AuthAssumption, <1>7
     DEF SessionEnds, stored, requests, Passwords, TypeOK, Known, OldSessionsEnd, Alive
<1>8. ASSUME NEW c \in Changes, NEW p \in Passwords, ChangeAsk(c, p) PROVE OldSessionsEnd'
  BY AuthAssumption, <1>8
     DEF ChangeAsk, stored, history, Passwords, TypeOK, Known, OldSessionsEnd, Alive
<1>9. ASSUME NEW c \in Changes, ChangeRefused(c) PROVE OldSessionsEnd'
  BY AuthAssumption, <1>9
     DEF ChangeRefused, Idle, stored, history, Passwords, TypeOK, Known, OldSessionsEnd, Alive
<1>10. ASSUME NEW c \in Changes, ChangeUpdate(c) PROVE OldSessionsEnd'
  BY AuthAssumption, <1>10
     DEF ChangeUpdate, Idle, Update, Saved, SaveFails, Passwords, TypeOK, Known, OldSessionsEnd,
         Alive
<1>11. ASSUME NEW c \in Changes, ChangeClear(c) PROVE OldSessionsEnd'
  BY AuthAssumption, <1>11
     DEF ChangeClear, Idle, Clear, stored, Passwords, TypeOK, Known, OldSessionsEnd, Alive
<1>12. ASSUME NEW t \in Tokens, CreateToken(t) PROVE OldSessionsEnd'
  BY AuthAssumption, <1>12
     DEF CreateToken, Update, Saved, SaveFails, requests, history, Passwords, TypeOK, Known,
         OldSessionsEnd, Alive
<1>13. ASSUME NEW t \in Tokens, DeleteToken(t) PROVE OldSessionsEnd'
  BY AuthAssumption, <1>13
     DEF DeleteToken, Update, Saved, SaveFails, requests, Passwords, TypeOK, Known,
         OldSessionsEnd, Alive
<1>14. ASSUME NEW t \in Tokens, UseToken(t) PROVE OldSessionsEnd'
  BY AuthAssumption, <1>14
     DEF UseToken, stored, history, Passwords, TypeOK, Known, OldSessionsEnd, Alive
<1>15. ASSUME TouchToken PROVE OldSessionsEnd'
  BY AuthAssumption, <1>15
     DEF TouchToken, Update, Saved, SaveFails, history, Passwords, TypeOK, Known,
         OldSessionsEnd, Alive
<1>16. ASSUME Restart PROVE OldSessionsEnd'
  BY AuthAssumption, <1>16
     DEF Restart, Forget, Idle, Passwords, TypeOK, Known, OldSessionsEnd, Alive
<1>17. ASSUME RestartReset PROVE OldSessionsEnd'
  BY AuthAssumption, <1>17
     DEF RestartReset, Forget, Idle, Passwords, TypeOK, Known, OldSessionsEnd, Alive
<1>18. CASE UNCHANGED vars
  BY <1>18 DEF vars, stored, requests, history, Passwords, TypeOK, Known, OldSessionsEnd, Alive
<1> QED BY <1>1, <1>2, <1>3, <1>4, <1>5, <1>6, <1>7, <1>8, <1>9, <1>10, <1>11, <1>12, <1>13, <1>14,
           <1>15, <1>16, <1>17, <1>18
           DEF Next

\* What was confirmed stays in memory and in the file.
LEMMA DurableStep ==
  ASSUME AuthInv, [Next]_vars
  PROVE  Ordered' /\ ConfirmedIsDurable'
<1> USE DEF AuthInv
<1>1. ASSUME NEW l \in Logins, NEW p \in Passwords, LoginAsk(l, p) PROVE Ordered' /\ ConfirmedIsDurable'
  BY AuthAssumption, <1>1
     DEF LoginAsk, stored, history, Passwords, TypeOK, Known, Ordered, ConfirmedIsDurable
<1>2. ASSUME NEW l \in Logins, LoginCheck(l) PROVE Ordered' /\ ConfirmedIsDurable'
  BY AuthAssumption, <1>2
     DEF LoginCheck, stored, history, Passwords, TypeOK, Known, Ordered, ConfirmedIsDurable
<1>3. ASSUME NEW l \in Logins, LoginFail(l) PROVE Ordered' /\ ConfirmedIsDurable'
  BY AuthAssumption, <1>3
     DEF LoginFail, Idle, stored, history, Passwords, TypeOK, Known, Ordered, ConfirmedIsDurable
<1>4. ASSUME NEW l \in Logins, LoginReset(l) PROVE Ordered' /\ ConfirmedIsDurable'
  BY AuthAssumption, <1>4
     DEF LoginReset, stored, history, Passwords, TypeOK, Known, Ordered, ConfirmedIsDurable
<1>5. ASSUME NEW l \in Logins, LoginCreate(l) PROVE Ordered' /\ ConfirmedIsDurable'
  BY AuthAssumption, <1>5
     DEF LoginCreate, Idle, stored, Passwords, TypeOK, Known, Ordered, ConfirmedIsDurable
<1>6. ASSUME FailuresAge PROVE Ordered' /\ ConfirmedIsDurable'
  BY AuthAssumption, <1>6
     DEF FailuresAge, stored, requests, history, Passwords, TypeOK, Known, Ordered,
         ConfirmedIsDurable
<1>7. ASSUME NEW p \in Passwords, SessionEnds(p) PROVE Ordered' /\ ConfirmedIsDurable'
  BY AuthAssumption, <1>7
     DEF SessionEnds, stored, requests, Passwords, TypeOK, Known, Ordered, ConfirmedIsDurable
<1>8. ASSUME NEW c \in Changes, NEW p \in Passwords, ChangeAsk(c, p) PROVE Ordered' /\ ConfirmedIsDurable'
  BY AuthAssumption, <1>8
     DEF ChangeAsk, stored, history, Passwords, TypeOK, Known, Ordered, ConfirmedIsDurable
<1>9. ASSUME NEW c \in Changes, ChangeRefused(c) PROVE Ordered' /\ ConfirmedIsDurable'
  BY AuthAssumption, <1>9
     DEF ChangeRefused, Idle, stored, history, Passwords, TypeOK, Known, Ordered,
         ConfirmedIsDurable
<1>10. ASSUME NEW c \in Changes, ChangeUpdate(c) PROVE Ordered' /\ ConfirmedIsDurable'
  BY AuthAssumption, <1>10
     DEF ChangeUpdate, Idle, Update, Saved, SaveFails, Passwords, TypeOK, Known, Ordered,
         ConfirmedIsDurable
<1>11. ASSUME NEW c \in Changes, ChangeClear(c) PROVE Ordered' /\ ConfirmedIsDurable'
  BY AuthAssumption, <1>11
     DEF ChangeClear, Idle, Clear, stored, Passwords, TypeOK, Known, Ordered, ConfirmedIsDurable
<1>12. ASSUME NEW t \in Tokens, CreateToken(t) PROVE Ordered' /\ ConfirmedIsDurable'
  BY AuthAssumption, <1>12
     DEF CreateToken, Update, Saved, SaveFails, requests, history, Passwords, TypeOK, Known,
         Ordered, ConfirmedIsDurable
<1>13. ASSUME NEW t \in Tokens, DeleteToken(t) PROVE Ordered' /\ ConfirmedIsDurable'
  BY AuthAssumption, <1>13
     DEF DeleteToken, Update, Saved, SaveFails, requests, Passwords, TypeOK, Known, Ordered,
         ConfirmedIsDurable
<1>14. ASSUME NEW t \in Tokens, UseToken(t) PROVE Ordered' /\ ConfirmedIsDurable'
  BY AuthAssumption, <1>14
     DEF UseToken, stored, history, Passwords, TypeOK, Known, Ordered, ConfirmedIsDurable
<1>15. ASSUME TouchToken PROVE Ordered' /\ ConfirmedIsDurable'
  BY AuthAssumption, <1>15
     DEF TouchToken, Update, Saved, SaveFails, history, Passwords, TypeOK, Known, Ordered,
         ConfirmedIsDurable
<1>16. ASSUME Restart PROVE Ordered' /\ ConfirmedIsDurable'
  BY AuthAssumption, <1>16
     DEF Restart, Forget, Idle, Passwords, TypeOK, Known, Ordered, ConfirmedIsDurable
<1>17. ASSUME RestartReset PROVE Ordered' /\ ConfirmedIsDurable'
  BY AuthAssumption, <1>17
     DEF RestartReset, Forget, Idle, Passwords, TypeOK, Known, Ordered, ConfirmedIsDurable
<1>18. CASE UNCHANGED vars
  BY <1>18
     DEF vars, stored, requests, history, Passwords, TypeOK, Known, Ordered, ConfirmedIsDurable
<1> QED BY <1>1, <1>2, <1>3, <1>4, <1>5, <1>6, <1>7, <1>8, <1>9, <1>10, <1>11, <1>12, <1>13, <1>14,
           <1>15, <1>16, <1>17, <1>18
           DEF Next

\* The limit in terms of the logins that are past the limiter, before and after
\* a step.
LEMMA LimitedMeans ==
  /\ FailuresLimited <=> failures + Cardinality(Racing(login)) < loginMaxFailures + Cardinality(Logins)
  /\ FailuresLimited' <=> failures' + Cardinality(Racing(login')) < loginMaxFailures + Cardinality(Logins)
BY DEF FailuresLimited, Racing

\* Logins in flight can be counted.
LEMMA LoginsCounted == Cardinality(Logins) \in Nat
BY AuthAssumption, FS_CardinalityType

\* So can those of them that are past the limiter.
LEMMA RacingCounted ==
  ASSUME NEW lg
  PROVE  /\ IsFiniteSet(Racing(lg))
         /\ Cardinality(Racing(lg)) \in Nat /\ Cardinality(Racing(lg)) <= Cardinality(Logins)
<1>1. Racing(lg) \subseteq Logins
  BY DEF Racing
<1> QED BY <1>1, AuthAssumption, FS_Subset, FS_CardinalityType

\* A step that lets nobody past the limiter and counts no failure.
LEMMA FewerRacing ==
  ASSUME FailuresLimited, failures \in Nat, failures' \in Nat, failures' <= failures,
         Racing(login') \subseteq Racing(login)
  PROVE  FailuresLimited'
<1>1. Cardinality(Racing(login')) <= Cardinality(Racing(login))
  BY RacingCounted, FS_Subset
<1> QED BY <1>1, RacingCounted, LoginsCounted, LimitedMeans, AuthAssumption

\* Only LoginAsk lets a login past the limiter, and only below the limit.
LEMMA LimiterStep ==
  ASSUME AuthInv, [Next]_vars
  PROVE  FailuresLimited'
<1> USE DEF AuthInv
<1>1. ASSUME NEW l \in Logins, NEW p \in Passwords, LoginAsk(l, p) PROVE FailuresLimited'
  <2>1. Cardinality(Racing(login')) \in Nat /\ Cardinality(Racing(login')) <= Cardinality(Logins)
    BY RacingCounted
  <2>2. failures' \in Nat /\ failures' < loginMaxFailures
    BY <1>1 DEF LoginAsk, TypeOK
  <2> QED BY <2>1, <2>2, LoginsCounted, LimitedMeans, AuthAssumption
<1>2. ASSUME NEW l \in Logins, LoginCheck(l) PROVE FailuresLimited'
  <2>1. Racing(login') \subseteq Racing(login) /\ failures' \in Nat /\ failures' <= failures
    BY <1>2, AuthAssumption DEF LoginCheck, TypeOK, Racing
  <2> QED BY <2>1, FewerRacing DEF TypeOK
<1>3. ASSUME NEW l \in Logins, LoginFail(l) PROVE FailuresLimited'
  <2>1. Racing(login') = Racing(login) \ {l} /\ l \in Racing(login)
    BY <1>3 DEF LoginFail, Idle, TypeOK, Racing
  <2>2. Cardinality(Racing(login')) = Cardinality(Racing(login)) - 1
    BY <2>1, RacingCounted, FS_RemoveElement
  <2>3. failures' = failures + 1 /\ failures \in Nat
    BY <1>3 DEF LoginFail, TypeOK
  <2> QED BY <2>2, <2>3, RacingCounted, LoginsCounted, LimitedMeans, AuthAssumption
<1>4. ASSUME NEW l \in Logins, LoginReset(l) PROVE FailuresLimited'
  <2>1. Racing(login') \subseteq Racing(login) /\ failures' \in Nat /\ failures' <= failures
    BY <1>4, AuthAssumption DEF LoginReset, TypeOK, Racing
  <2> QED BY <2>1, FewerRacing DEF TypeOK
<1>5. ASSUME NEW l \in Logins, LoginCreate(l) PROVE FailuresLimited'
  <2>1. Racing(login') \subseteq Racing(login) /\ failures' \in Nat /\ failures' <= failures
    BY <1>5, AuthAssumption DEF LoginCreate, Idle, TypeOK, Racing
  <2> QED BY <2>1, FewerRacing DEF TypeOK
<1>6. ASSUME FailuresAge PROVE FailuresLimited'
  <2>1. Racing(login') \subseteq Racing(login) /\ failures' \in Nat /\ failures' <= failures
    BY <1>6, AuthAssumption DEF FailuresAge, requests, TypeOK, Racing
  <2> QED BY <2>1, FewerRacing DEF TypeOK
<1>7. ASSUME NEW p \in Passwords, SessionEnds(p) PROVE FailuresLimited'
  <2>1. Racing(login') \subseteq Racing(login) /\ failures' \in Nat /\ failures' <= failures
    BY <1>7, AuthAssumption DEF SessionEnds, requests, TypeOK, Racing
  <2> QED BY <2>1, FewerRacing DEF TypeOK
<1>8. ASSUME NEW c \in Changes, NEW p \in Passwords, ChangeAsk(c, p) PROVE FailuresLimited'
  <2>1. Racing(login') \subseteq Racing(login) /\ failures' \in Nat /\ failures' <= failures
    BY <1>8, AuthAssumption DEF ChangeAsk, TypeOK, Racing
  <2> QED BY <2>1, FewerRacing DEF TypeOK
<1>9. ASSUME NEW c \in Changes, ChangeRefused(c) PROVE FailuresLimited'
  <2>1. Racing(login') \subseteq Racing(login) /\ failures' \in Nat /\ failures' <= failures
    BY <1>9, AuthAssumption DEF ChangeRefused, TypeOK, Racing
  <2> QED BY <2>1, FewerRacing DEF TypeOK
<1>10. ASSUME NEW c \in Changes, ChangeUpdate(c) PROVE FailuresLimited'
  <2>1. Racing(login') \subseteq Racing(login) /\ failures' \in Nat /\ failures' <= failures
    BY <1>10, AuthAssumption DEF ChangeUpdate, TypeOK, Racing
  <2> QED BY <2>1, FewerRacing DEF TypeOK
<1>11. ASSUME NEW c \in Changes, ChangeClear(c) PROVE FailuresLimited'
  <2>1. Racing(login') \subseteq Racing(login) /\ failures' \in Nat /\ failures' <= failures
    BY <1>11, AuthAssumption DEF ChangeClear, TypeOK, Racing
  <2> QED BY <2>1, FewerRacing DEF TypeOK
<1>12. ASSUME NEW t \in Tokens, CreateToken(t) PROVE FailuresLimited'
  <2>1. Racing(login') \subseteq Racing(login) /\ failures' \in Nat /\ failures' <= failures
    BY <1>12, AuthAssumption DEF CreateToken, requests, TypeOK, Racing
  <2> QED BY <2>1, FewerRacing DEF TypeOK
<1>13. ASSUME NEW t \in Tokens, DeleteToken(t) PROVE FailuresLimited'
  <2>1. Racing(login') \subseteq Racing(login) /\ failures' \in Nat /\ failures' <= failures
    BY <1>13, AuthAssumption DEF DeleteToken, requests, TypeOK, Racing
  <2> QED BY <2>1, FewerRacing DEF TypeOK
<1>14. ASSUME NEW t \in Tokens, UseToken(t) PROVE FailuresLimited'
  <2>1. Racing(login') \subseteq Racing(login) /\ failures' \in Nat /\ failures' <= failures
    BY <1>14, AuthAssumption DEF UseToken, TypeOK, Racing
  <2> QED BY <2>1, FewerRacing DEF TypeOK
<1>15. ASSUME TouchToken PROVE FailuresLimited'
  <2>1. Racing(login') \subseteq Racing(login) /\ failures' \in Nat /\ failures' <= failures
    BY <1>15, AuthAssumption DEF TouchToken, TypeOK, Racing
  <2> QED BY <2>1, FewerRacing DEF TypeOK
<1>16. ASSUME Restart PROVE FailuresLimited'
  <2>1. Racing(login') \subseteq Racing(login) /\ failures' \in Nat /\ failures' <= failures
    BY <1>16, AuthAssumption DEF Restart, Forget, Idle, TypeOK, Racing
  <2> QED BY <2>1, FewerRacing DEF TypeOK
<1>17. ASSUME RestartReset PROVE FailuresLimited'
  <2>1. Racing(login') \subseteq Racing(login) /\ failures' \in Nat /\ failures' <= failures
    BY <1>17, AuthAssumption DEF RestartReset, Forget, Idle, TypeOK, Racing
  <2> QED BY <2>1, FewerRacing DEF TypeOK
<1>18. CASE UNCHANGED vars
  <2>1. Racing(login') \subseteq Racing(login) /\ failures' \in Nat /\ failures' <= failures
    BY <1>18, AuthAssumption DEF vars, requests, TypeOK, Racing
  <2> QED BY <2>1, FewerRacing DEF TypeOK
<1> QED BY <1>1, <1>2, <1>3, <1>4, <1>5, <1>6, <1>7, <1>8, <1>9, <1>10, <1>11, <1>12, <1>13, <1>14,
           <1>15, <1>16, <1>17, <1>18
           DEF Next

\* The server starts with the stored password, no sessions and no requests.
LEMMA AuthInit == Init => AuthInv
<1> SUFFICES ASSUME Init PROVE AuthInv
  OBVIOUS
<1>1. 1 \in Passwords /\ Idle \in Request /\ 0 \in 0..MaxSessions
  BY AuthAssumption DEF Passwords, Idle, Request, Stages
<1>2. TypeOK
  BY <1>1 DEF Init, TypeOK, Request
<1>3. Known /\ Ordered /\ ConfirmedIsDurable
  BY <1>1 DEF Init, Known, Ordered, ConfirmedIsDurable, Idle
<1>4. OldSessionsEnd
  BY DEF Init, OldSessionsEnd, Alive
<1>5. FailuresLimited
  <2>1. Racing(login) = {}
    BY DEF Init, Racing, Idle
  <2>2. Cardinality(Racing(login)) = 0
    BY <2>1, FS_EmptySet
  <2>3. failures = 0
    BY DEF Init
  <2> QED BY <2>2, <2>3, LoginsCounted, LimitedMeans, AuthAssumption
<1> QED BY <1>2, <1>3, <1>4, <1>5 DEF AuthInv

\* The invariant holds in every behaviour.
LEMMA AuthInductive == Spec => []AuthInv
<1>1. AuthInv /\ [Next]_vars => AuthInv'
  BY TypeStep, SessionsStep, DurableStep, LimiterStep DEF AuthInv
<1> QED BY AuthInit, <1>1, PTL DEF Spec

\* The state of authentication keeps its types; tokens in memory and in the
\* file have been created by the API.
THEOREM AuthTypeCorrect == Spec => []TypeOK
<1>1. AuthInv => TypeOK
  BY DEF AuthInv
<1> QED BY <1>1, AuthInductive, PTL

\* Once handleChangePassword has answered, sessions of an older password exist
\* only through a login whose password check came before the change.
THEOREM OldSessionsAlwaysEnd == Spec => []OldSessionsEnd
<1>1. AuthInv => OldSessionsEnd
  BY DEF AuthInv
<1> QED BY <1>1, AuthInductive, PTL

\* A password change or token deletion that was answered with success is in
\* memory and in the state file for good, across failed saves and restarts.
THEOREM ConfirmedAlwaysDurable == Spec => []ConfirmedIsDurable
<1>1. AuthInv => ConfirmedIsDurable
  BY DEF AuthInv
<1> QED BY <1>1, AuthInductive, PTL

\* loginLimiter counts at most its limit and one failure for each further
\* login that was past it at the same time.
THEOREM FailuresAlwaysLimited == Spec => []FailuresLimited
<1>1. AuthInv => FailuresLimited
  BY DEF AuthInv
<1> QED BY <1>1, AuthInductive, PTL
=============================================================================
