--------------------------- MODULE AccountsProofs ---------------------------
(***************************************************************************)
(* Proofs about Accounts: the limit on failed attempts, which password     *)
(* opens the account, which sessions are left, with the invariant on       *)
(* replies that a handoff implements SingleUse, and with SingleUse that    *)
(* its cookie arrives once.                                                *)
(***************************************************************************)
EXTENDS Accounts, TLAPS, FiniteSetTheorems

-----------------------------------------------------------------------------
(* Types. *)

\* A handler has what its next statement needs, and read the clock in the past.
HandlersReady ==
    \A c \in Call :
       /\ call[c].at <= now
       /\ call[c].next \in {"touch", "logout", "profile", "commit"} => call[c].session \in Session
       /\ call[c].next = "touch" => call[c].then \in {"served", "logout", "profile", "handoff"}
       /\ call[c].next \in {"verify", "failed", "valid", "commit", "reset"} =>
             call[c].password \in Password
       /\ call[c].next = "reply" => call[c].handoff \in Handoff

\* Failed attempts are recorded with the time they began at.
FailuresPast == \A i \in DOMAIN failures : failures[i] <= now

LEMMA Constants ==
    /\ Limit \in Nat /\ Window \in Nat /\ IdleTime \in Nat /\ HandoffTTL \in Nat
    /\ Limit > 0 /\ Window > 0
    /\ Keep \in Nat /\ Horizon \in Nat
  BY AccountsAssumption

LEMMA IdleTypes == Idle \in Calls /\ Idle.next = "idle" /\ Idle.at = 0
  BY DEF Idle, Calls

\* The fields of a request.
LEMMA CallTypes ==
    ASSUME TypeOK, NEW c \in Call
    PROVE  /\ call[c] \in Calls
           /\ call[c].at \in Nat
           /\ call[c].next \in {"idle", "verify", "failed", "valid", "touch", "served",
                 "logout", "profile", "commit", "handoff", "purge", "insert", "reply", "reset"}
           /\ call[c].session \in Session \cup {None}
           /\ call[c].password \in Password \cup {None}
           /\ call[c].handoff \in Handoff \cup {None}
  BY DEF TypeOK, Calls

\* A step of one request.
Served(c) ==
    \/ \E p \in Password : Login(c, p)
    \/ Verify(c)
    \/ RecordFailure(c)
    \/ \E s \in Session \cup {None} : InsertSession(c, s)
    \/ \E s \in Session, then \in {"served", "logout", "profile", "handoff"} :
          Request(c, s, then)
    \/ Touch(c)
    \/ Logout(c)
    \/ \E change \in Changes, p \in Password : ReadProfile(c, change, p)
    \/ CommitProfile(c)
    \/ ProfileRefused(c)
    \/ AuthoriseHandoff(c)
    \/ PurgeHandoffs(c)
    \/ \E h \in Handoff : InsertHandoff(c, h)
    \/ \E h \in Handoff, s \in Session \cup {None} : RedeemAdminHandoff(c, h, s)
    \/ Deliver(c)
    \/ LoseReply(c)
    \/ \E admin, enabled \in BOOLEAN : UpdateUser(c, admin, enabled)
    \/ \E admin, enabled \in BOOLEAN, p \in Password :
          UpdateUserAndPassword(c, admin, enabled, p)
    \/ ResetPassword(c)
    \/ ResetRefused(c)

LEMMA Kinds ==
    ASSUME [Next]_vars
    PROVE  Tick \/ (UNCHANGED vars) \/ \E c \in Call : Served(c)
  BY Zenon DEF Next, Served

\* What a step of request c leaves to the other requests.
LEMMA OthersKeep ==
    ASSUME TypeOK, NEW c \in Call, Served(c)
    PROVE  /\ \A b \in Call \ {c} : call'[b] = call[b]
           /\ now' = now
  <1>. USE DEF TypeOK, Continue, Reply, Hold
  <1>1. CASE \E p \in Password : Login(c, p)
    BY <1>1 DEF Login
  <1>2. CASE Verify(c)
    BY <1>2 DEF Verify
  <1>3. CASE RecordFailure(c)
    BY <1>3 DEF RecordFailure
  <1>4. CASE \E s \in Session \cup {None} : InsertSession(c, s)
    BY <1>4 DEF InsertSession
  <1>5. CASE \E s \in Session, then \in {"served", "logout", "profile", "handoff"} :
                Request(c, s, then)
    BY <1>5 DEF Request
  <1>6. CASE Touch(c) \/ Logout(c)
    BY <1>6 DEF Touch, Logout
  <1>7. CASE \E change \in Changes, p \in Password : ReadProfile(c, change, p)
    BY <1>7 DEF ReadProfile
  <1>8. CASE CommitProfile(c) \/ ProfileRefused(c)
    BY <1>8 DEF CommitProfile, ProfileRefused
  <1>9. CASE AuthoriseHandoff(c) \/ PurgeHandoffs(c)
    BY <1>9 DEF AuthoriseHandoff, PurgeHandoffs
  <1>10. CASE \E h \in Handoff : InsertHandoff(c, h)
    BY <1>10 DEF InsertHandoff
  <1>11. CASE \E h \in Handoff, s \in Session \cup {None} : RedeemAdminHandoff(c, h, s)
    BY <1>11 DEF RedeemAdminHandoff
  <1>12. CASE Deliver(c) \/ LoseReply(c)
    BY <1>12 DEF Deliver, LoseReply
  <1>13. CASE \E admin, enabled \in BOOLEAN : UpdateUser(c, admin, enabled)
    BY <1>13 DEF UpdateUser
  <1>14. CASE \E admin, enabled \in BOOLEAN, p \in Password :
                 UpdateUserAndPassword(c, admin, enabled, p)
    BY <1>14 DEF UpdateUserAndPassword
  <1>15. CASE ResetPassword(c) \/ ResetRefused(c)
    BY <1>15 DEF ResetPassword, ResetRefused
  <1>. QED
    BY <1>1, <1>2, <1>3, <1>4, <1>5, <1>6, <1>7, <1>8, <1>9, <1>10, <1>11, <1>12, <1>13,
       <1>14, <1>15 DEF Served

\* The row of call that a step of request c leaves has what its next statement
\* needs.
Ready(q, t) ==
    /\ q \in Calls
    /\ q.at <= t
    /\ q.next \in {"touch", "logout", "profile", "commit"} => q.session \in Session
    /\ q.next = "touch" => q.then \in {"served", "logout", "profile", "handoff"}
    /\ q.next \in {"verify", "failed", "valid", "commit", "reset"} => q.password \in Password
    /\ q.next = "reply" => q.handoff \in Handoff

LEMMA ReadyRows ==
    TypeOK /\ HandlersReady <=> TypeOK /\ \A c \in Call : Ready(call[c], now)
  BY DEF TypeOK, HandlersReady, Ready

LEMMA IdleReady ==
    ASSUME NEW t \in Nat PROVE Ready(Idle, t)
  BY DEF Ready, Idle, Calls

LEMMA ServedReady ==
    ASSUME TypeOK, HandlersReady, NEW c \in Call, Served(c)
    PROVE  Ready(call'[c], now)
  <1>. USE Constants
  <1>0. /\ Ready(call[c], now) /\ call[c] \in Calls /\ now \in Nat /\ call \in [Call -> Calls]
        /\ None \notin Session \cup Handoff \cup Password
    BY ReadyRows, AccountsAssumption DEF TypeOK
  <1>0a. Ready(Idle, now)
    BY <1>0, IdleReady
  <1>1. ASSUME NEW p \in Password, Login(c, p) PROVE Ready(call'[c], now)
    <2>1. call'[c] = [next |-> "verify", then |-> None, at |-> now, session |-> None,
                      handoff |-> None, password |-> p, change |-> None]
      BY <1>0, <1>1 DEF Login, Idle
    <2>. QED  BY <1>0, <2>1 DEF Calls, Ready
  <1>2. CASE Verify(c)
    BY <1>0, <1>2 DEF Verify, Hold, Continue, Calls, Ready
  <1>3. CASE RecordFailure(c)
    BY <1>0, <1>0a, <1>3 DEF RecordFailure, Reply
  <1>4. CASE \E s \in Session \cup {None} : InsertSession(c, s)
    BY <1>0, <1>0a, <1>4 DEF InsertSession, Reply
  <1>5. ASSUME NEW s \in Session, NEW then \in {"served", "logout", "profile", "handoff"},
               Request(c, s, then)
        PROVE  Ready(call'[c], now)
    <2>1. call'[c] = [next |-> "touch", then |-> then, at |-> now, session |-> s,
                      handoff |-> None, password |-> None, change |-> None]
      BY <1>0, <1>5 DEF Request, Idle
    <2>. QED  BY <1>0, <2>1 DEF Calls, Ready
  <1>6. CASE Touch(c)
    <2>1. call[c].session \in Session /\ call[c].then \in {"served", "logout", "profile", "handoff"}
      BY <1>0, <1>6 DEF Touch, Ready
    <2>2. CASE call[c].then = "served"
      BY <1>0, <1>0a, <1>6, <2>2 DEF Touch
    <2>3. CASE call[c].then # "served"
      <3>1. call'[c] = [next |-> call[c].then, then |-> None, at |-> 0,
                        session |-> call[c].session, handoff |-> None, password |-> None,
                        change |-> None]
        BY <1>0, <1>6, <2>3 DEF Touch, Idle
      <3>. QED  BY <1>0, <2>1, <2>3, <3>1 DEF Calls, Ready
    <2>. QED  BY <2>2, <2>3
  <1>7. CASE Logout(c)
    BY <1>0, <1>0a, <1>7 DEF Logout, Reply
  <1>8. ASSUME NEW change \in Changes, NEW p \in Password, ReadProfile(c, change, p)
        PROVE  Ready(call'[c], now)
    <2>1. user.password \in Password
      BY DEF TypeOK
    <2>. QED  BY <1>0, <1>8, <2>1 DEF ReadProfile, Hold, Calls, Ready
  <1>9. CASE CommitProfile(c) \/ ProfileRefused(c)
    BY <1>0, <1>0a, <1>9 DEF CommitProfile, ProfileRefused, Reply
  <1>10. CASE AuthoriseHandoff(c)
    BY <1>0, <1>0a, <1>10 DEF AuthoriseHandoff, Reply, Calls, Ready
  <1>11. CASE PurgeHandoffs(c)
    BY <1>0, <1>11 DEF PurgeHandoffs, Continue, Calls, Ready
  <1>12. CASE \E h \in Handoff : InsertHandoff(c, h)
    BY <1>0, <1>0a, <1>12 DEF InsertHandoff, Reply
  <1>13. ASSUME NEW h \in Handoff, NEW s \in Session \cup {None}, RedeemAdminHandoff(c, h, s)
         PROVE  Ready(call'[c], now)
    <2>1. call'[c] = [next |-> "reply", then |-> None, at |-> 0, session |-> None,
                      handoff |-> h, password |-> None, change |-> None]
      BY <1>0, <1>13 DEF RedeemAdminHandoff, Idle
    <2>. QED  BY <1>0, <2>1 DEF Calls, Ready
  <1>14. CASE Deliver(c) \/ LoseReply(c)
    BY <1>0, <1>0a, <1>14 DEF Deliver, LoseReply, Reply
  <1>15. CASE \E admin, enabled \in BOOLEAN : UpdateUser(c, admin, enabled)
    BY <1>0, <1>15 DEF UpdateUser
  <1>16. ASSUME NEW admin \in BOOLEAN, NEW enabled \in BOOLEAN, NEW p \in Password,
                UpdateUserAndPassword(c, admin, enabled, p)
         PROVE  Ready(call'[c], now)
    BY <1>0, <1>16 DEF UpdateUserAndPassword, Hold, Idle, Calls, Ready
  <1>17. CASE ResetPassword(c) \/ ResetRefused(c)
    BY <1>0, <1>0a, <1>17 DEF ResetPassword, ResetRefused, Reply
  <1>. QED
    BY <1>1, <1>2, <1>3, <1>4, <1>5, <1>6, <1>7, <1>8, <1>9, <1>10, <1>11, <1>12, <1>13,
       <1>14, <1>15, <1>16, <1>17 DEF Served

\* The tables and what is observed of them.
TablesTyped ==
    /\ user \in [password: Password, admin: BOOLEAN, enabled: BOOLEAN]
    /\ failures \in Seq(0..Horizon)
    /\ sessions \in [Session -> Sessions]
    /\ handoffs \in [Handoff -> Handoffs]
    /\ delivered \in [Handoff -> Seq({User})]
    /\ wanted \in Password \cup {None}
    /\ under \in [Session -> Password \cup {None}]

LEMMA RevokedTyped ==
    ASSUME TypeOK, NEW S PROVE Revoked(S) \in [Session -> Sessions]
  BY DEF TypeOK, Revoked, Sessions

LEMMA OpenSessionTyped ==
    ASSUME TypeOK, NEW s \in Session \cup {None}, NEW at \in Nat, NEW p \in Password,
           OpenSession(s, at, p)
    PROVE  /\ sessions' \in [Session -> Sessions]
           /\ wanted' \in Password \cup {None}
           /\ under' \in [Session -> Password \cup {None}]
  <1>1. at + IdleTime \in Nat
    BY Constants
  <1>2. sessions' \in [Session -> Sessions]
    BY <1>1 DEF TypeOK, OpenSession, Sessions
  <1>. QED  BY <1>2 DEF TypeOK, OpenSession, Observe

LEMMA HoldTyped ==
    ASSUME TypeOK, NEW c, NEW q, Hold(c, q)
    PROVE  wanted' \in Password \cup {None} /\ under' \in [Session -> Password \cup {None}]
  BY DEF TypeOK, Hold, Observe

LEMMA StepTables ==
    ASSUME TypeOK, HandlersReady, NEW c \in Call, Served(c)
    PROVE  TablesTyped'
  <1>. USE DEF observed
  <1>0. TablesTyped /\ call[c] \in Calls /\ call[c].at \in Nat /\ now \in Nat
    BY CallTypes, Constants DEF TypeOK, TablesTyped
  <1>1. CASE \E p \in Password : Login(c, p)
    BY <1>0, <1>1 DEF Login, TablesTyped
  <1>2. CASE Verify(c)
    <2>1. wanted' \in Password \cup {None} /\ under' \in [Session -> Password \cup {None}]
      BY <1>0, <1>2, HoldTyped DEF Verify, TablesTyped
    <2>. QED  BY <1>0, <1>2, <2>1 DEF Verify, TablesTyped
  <1>3. CASE RecordFailure(c)
    <2>1. call[c].at \in 0..Horizon
      BY <1>0, Constants DEF HandlersReady, TypeOK
    <2>2. failures' \in Seq(0..Horizon)
      <3>1. Append(failures, call[c].at) \in Seq(0..Horizon)
        BY <1>0, <2>1 DEF TablesTyped
      <3>. QED  BY <1>0, <1>3, <3>1 DEF RecordFailure, TablesTyped
    <2>. QED  BY <1>0, <1>3, <2>2 DEF RecordFailure, TablesTyped
  <1>4. ASSUME NEW s \in Session \cup {None}, InsertSession(c, s) PROVE TablesTyped'
    <2>1. call[c].password \in Password
      BY <1>4 DEF InsertSession, HandlersReady
    <2>. QED  BY <1>0, <1>4, <2>1, OpenSessionTyped DEF InsertSession, TablesTyped
  <1>5. CASE \E s \in Session, then \in {"served", "logout", "profile", "handoff"} :
                Request(c, s, then)
    BY <1>0, <1>5 DEF Request, TablesTyped
  <1>6. CASE Touch(c)
    <2>1. call[c].at + IdleTime \in Nat
      BY <1>0, Constants
    <2>2. sessions' \in [Session -> Sessions]
      BY <1>0, <1>6, <2>1 DEF Touch, TablesTyped, Sessions
    <2>. QED  BY <1>0, <1>6, <2>2 DEF Touch, TablesTyped
  <1>7. CASE Logout(c)
    BY <1>0, <1>7, RevokedTyped DEF Logout, TablesTyped
  <1>8. ASSUME NEW change \in Changes, NEW p \in Password, ReadProfile(c, change, p)
        PROVE  TablesTyped'
    <2>1. wanted' \in Password \cup {None} /\ under' \in [Session -> Password \cup {None}]
      BY <1>0, <1>8, HoldTyped DEF ReadProfile
    <2>. QED  BY <1>0, <1>8, <2>1 DEF ReadProfile, TablesTyped
  <1>9. CASE CommitProfile(c)
    <2>1. call[c].password \in Password /\ call[c].session \in Session
      BY <1>9 DEF CommitProfile, HandlersReady
    <2>2. sessions' \in [Session -> Sessions]
      BY <1>0, <1>9, RevokedTyped DEF CommitProfile, TablesTyped
    <2>3. wanted' \in Password \cup {None} /\ under' \in [Session -> Password \cup {None}]
      BY <1>0, <1>9, <2>1 DEF CommitProfile, Observe, TablesTyped
    <2>4. user' \in [password: Password, admin: BOOLEAN, enabled: BOOLEAN]
      BY <1>0, <1>9, <2>1 DEF CommitProfile, TablesTyped
    <2>. QED  BY <1>0, <1>9, <2>2, <2>3, <2>4 DEF CommitProfile, TablesTyped
  <1>10. CASE ProfileRefused(c) \/ AuthoriseHandoff(c) \/ LoseReply(c) \/ ResetRefused(c)
    BY <1>0, <1>10 DEF ProfileRefused, AuthoriseHandoff, LoseReply, ResetRefused, TablesTyped
  <1>11. CASE PurgeHandoffs(c)
    <2>1. handoffs' \in [Handoff -> Handoffs]
      BY <1>0, <1>11 DEF PurgeHandoffs, TablesTyped, Handoffs
    <2>. QED  BY <1>0, <1>11, <2>1 DEF PurgeHandoffs, TablesTyped
  <1>12. ASSUME NEW h \in Handoff, InsertHandoff(c, h) PROVE TablesTyped'
    <2>1. call[c].at + HandoffTTL \in Nat
      BY <1>0, Constants
    <2>2. handoffs' \in [Handoff -> Handoffs]
      BY <1>0, <1>12, <2>1 DEF InsertHandoff, TablesTyped, Handoffs
    <2>. QED  BY <1>0, <1>12, <2>2 DEF InsertHandoff, TablesTyped
  <1>13. ASSUME NEW h \in Handoff, NEW s \in Session \cup {None}, RedeemAdminHandoff(c, h, s)
         PROVE  TablesTyped'
    <2>1. handoffs' \in [Handoff -> Handoffs]
      BY <1>0, <1>13 DEF RedeemAdminHandoff, TablesTyped, Handoffs
    <2>2. user.password \in Password
      BY <1>0 DEF TablesTyped
    <2>. QED  BY <1>0, <1>13, <2>1, <2>2, OpenSessionTyped DEF RedeemAdminHandoff, TablesTyped
  <1>14. CASE Deliver(c)
    <2>. DEFINE h == call[c].handoff
    <2>0. h \in Handoff /\ delivered[h] \in Seq({User}) /\ Append(delivered[h], User) \in Seq({User})
      BY <1>0, <1>14 DEF Deliver, HandlersReady, TablesTyped
    <2>1. delivered' \in [Handoff -> Seq({User})]
      BY <1>0, <1>14, <2>0 DEF Deliver, TablesTyped
    <2>. QED  BY <1>0, <1>14, <2>1 DEF Deliver, TablesTyped
  <1>15. ASSUME NEW admin \in BOOLEAN, NEW enabled \in BOOLEAN, UpdateUser(c, admin, enabled)
         PROVE  TablesTyped'
    <2>1. user' \in [password: Password, admin: BOOLEAN, enabled: BOOLEAN]
      BY <1>0, <1>15 DEF UpdateUser, TablesTyped
    <2>. QED  BY <1>0, <1>15, <2>1 DEF UpdateUser, TablesTyped
  <1>16. ASSUME NEW admin \in BOOLEAN, NEW enabled \in BOOLEAN, NEW p \in Password,
                UpdateUserAndPassword(c, admin, enabled, p)
         PROVE  TablesTyped'
    <2>1. user' \in [password: Password, admin: BOOLEAN, enabled: BOOLEAN]
      BY <1>0, <1>16 DEF UpdateUserAndPassword, TablesTyped
    <2>2. wanted' \in Password \cup {None} /\ under' \in [Session -> Password \cup {None}]
      BY <1>16, HoldTyped DEF UpdateUserAndPassword
    <2>. QED  BY <1>0, <1>16, <2>1, <2>2 DEF UpdateUserAndPassword, TablesTyped
  <1>17. CASE ResetPassword(c)
    <2>1. call[c].password \in Password
      BY <1>17 DEF ResetPassword, HandlersReady
    <2>2. user' \in [password: Password, admin: BOOLEAN, enabled: BOOLEAN]
      BY <1>0, <1>17, <2>1 DEF ResetPassword, TablesTyped
    <2>3. wanted' \in Password \cup {None} /\ under' \in [Session -> Password \cup {None}]
      BY <1>0, <1>17, <2>1 DEF ResetPassword, Observe, TablesTyped
    <2>. QED  BY <1>0, <1>17, <2>2, <2>3 DEF ResetPassword, TablesTyped
  <1>. QED
    BY <1>1, <1>2, <1>3, <1>4, <1>5, <1>6, <1>7, <1>8, <1>9, <1>10, <1>11, <1>12, <1>13,
       <1>14, <1>15, <1>16, <1>17 DEF Served

LEMMA InitTypes == Init => TypeOK /\ HandlersReady /\ FailuresPast
  <1>. SUFFICES ASSUME Init PROVE TypeOK /\ HandlersReady /\ FailuresPast
    OBVIOUS
  <1>1. \A c \in Call : Ready(call[c], now)
    BY IdleReady DEF Init
  <1>2. TypeOK
    <2>1. user \in [password: Password, admin: BOOLEAN, enabled: BOOLEAN]
      BY DEF Init
    <2>2. call \in [Call -> Calls]
      BY <1>1 DEF Init, Ready
    <2>3. sessions \in [Session -> Sessions] /\ handoffs \in [Handoff -> Handoffs]
      BY DEF Init, NoSession, Sessions, Handoffs
    <2>4. failures \in Seq(0..Horizon) /\ delivered \in [Handoff -> Seq({User})]
      BY DEF Init
    <2>5. wanted \in Password \cup {None} /\ under \in [Session -> Password \cup {None}]
      BY DEF Init
    <2>. QED  BY <2>1, <2>2, <2>3, <2>4, <2>5, Constants DEF Init, TypeOK
  <1>3. FailuresPast
    BY DEF Init, FailuresPast
  <1>. QED  BY <1>1, <1>2, <1>3, ReadyRows

LEMMA StepTypes ==
    TypeOK /\ HandlersReady /\ FailuresPast /\ [Next]_vars =>
       TypeOK' /\ HandlersReady' /\ FailuresPast'
  <1>. SUFFICES ASSUME TypeOK, HandlersReady, FailuresPast, [Next]_vars
                PROVE  TypeOK' /\ HandlersReady' /\ FailuresPast'
    OBVIOUS
  <1>0. now \in Nat /\ now <= Horizon /\ failures \in Seq(0..Horizon)
    BY Constants DEF TypeOK
  <1>1. CASE Tick
    <2>1. now' \in 0..Horizon /\ now' = now + 1
      BY <1>0, <1>1, Constants DEF Tick
    <2>2. UNCHANGED <<user, failures, sessions, handoffs, call, delivered, wanted, under>>
      BY <1>1 DEF Tick, observed
    <2>3. TypeOK'
      BY <2>1, <2>2 DEF TypeOK
    <2>4. \A c \in Call : call[c].at \in Nat
      BY CallTypes
    <2>5. HandlersReady'
      BY <1>0, <2>1, <2>2, <2>4 DEF HandlersReady
    <2>6. \A i \in DOMAIN failures : failures[i] \in Nat
      BY <1>0, Constants
    <2>. QED  BY <1>0, <2>1, <2>2, <2>3, <2>5, <2>6 DEF FailuresPast
  <1>2. CASE UNCHANGED vars
    BY <1>2 DEF vars, TypeOK, HandlersReady, FailuresPast
  <1>3. ASSUME NEW c \in Call, Served(c) PROVE TypeOK' /\ HandlersReady' /\ FailuresPast'
    <2>1. now' = now /\ \A b \in Call \ {c} : call'[b] = call[b]
      BY <1>3, OthersKeep
    <2>2. \A b \in Call : Ready(call'[b], now)
      BY <1>3, <2>1, ReadyRows, ServedReady
    <2>3. DOMAIN call' = Call /\ call' = [b \in Call |-> call'[b]]
      <3>. USE DEF TypeOK, Continue, Reply, Hold
      <3>. QED
        BY <1>3 DEF Served, Login, Verify, RecordFailure, InsertSession, Request, Touch, Logout,
           ReadProfile, CommitProfile, ProfileRefused, AuthoriseHandoff, PurgeHandoffs,
           InsertHandoff, RedeemAdminHandoff, Deliver, LoseReply, UpdateUser,
           UpdateUserAndPassword, ResetPassword, ResetRefused
    <2>4. call' \in [Call -> Calls]
      BY <2>2, <2>3 DEF Ready
    <2>5. TypeOK'
      BY <1>3, <2>1, <2>4, StepTables DEF TypeOK, TablesTyped
    <2>6. HandlersReady'
      BY <2>1, <2>2 DEF HandlersReady, Ready
    <2>7. failures' = failures \/ failures' = Append(failures, call[c].at)
      BY <1>3 DEF Served, Login, Verify, RecordFailure, InsertSession, Request, Touch, Logout,
         ReadProfile, CommitProfile, ProfileRefused, AuthoriseHandoff, PurgeHandoffs,
         InsertHandoff, RedeemAdminHandoff, Deliver, LoseReply, UpdateUser,
         UpdateUserAndPassword, ResetPassword, ResetRefused
    <2>8. FailuresPast'
      <3>1. CASE failures' = Append(failures, call[c].at)
        <4>1. call[c].at \in Nat /\ call[c].at <= now
          BY CallTypes DEF HandlersReady
        <4>. QED  BY <1>0, <2>1, <3>1, <4>1 DEF FailuresPast
      <3>. QED  BY <2>1, <2>7, <3>1 DEF FailuresPast
    <2>. QED  BY <2>5, <2>6, <2>8
  <1>. QED  BY <1>1, <1>2, <1>3, Kinds

-----------------------------------------------------------------------------
(* The limit on failed attempts. *)

Recorded(t) == {i \in DOMAIN failures : t - Window < failures[i] /\ failures[i] <= t}

\* Attempts that were let in and may yet be recorded as failed.
Pending(t) == {c \in Call : /\ call[c].next \in {"verify", "failed"}
                            /\ t - Window < call[c].at /\ call[c].at <= t}

\* What is recorded and what may yet be.
AttemptsBounded ==
    \A t \in 0..now :
       Cardinality(Recorded(t)) + Cardinality(Pending(t)) < Limit + Cardinality(Call)

\* As long as observation lasts one request holds the account at a time, and
\* unless it is setting a password it has the present one.
HoldersAlone ==
    /\ wanted = None => \A s \in Session : under[s] = None
    /\ wanted # None =>
          /\ \A c, d \in Call : Holds(c) /\ Holds(d) => c = d
          /\ \A c \in Call :
                \/ call[c].next = "valid"
                \/ call[c].next = "commit" /\ call[c].change # "password"
                => call[c].password = user.password

\* A handoff whose reply is under way is used up, and owed one reply.
RepliesOwed ==
    \A c \in Call : call[c].next = "reply" =>
       /\ handoffs[call[c].handoff].state \in {"redeemed", "deleted"}
       /\ \A d \in Call \ {c} : call[d].next = "reply" => call[d].handoff # call[c].handoff

LEMMA AttemptsFinite ==
    ASSUME TypeOK, NEW t
    PROVE  /\ IsFiniteSet(Recorded(t)) /\ Cardinality(Recorded(t)) \in Nat
           /\ IsFiniteSet(Pending(t)) /\ Cardinality(Pending(t)) \in Nat
           /\ Cardinality(Call) \in Nat /\ Cardinality(Pending(t)) <= Cardinality(Call)
  <1>1. Recorded(t) \in SUBSET (1..Len(failures)) /\ Len(failures) \in Nat
    BY DEF TypeOK, Recorded
  <1>2. IsFiniteSet(Recorded(t))
    <2>1. IsFiniteSet(1..Len(failures))
      BY <1>1, FS_Interval
    <2>. QED  BY <1>1, <2>1, FS_Subset
  <1>3. Pending(t) \in SUBSET Call /\ IsFiniteSet(Call)
    BY AccountsAssumption DEF Pending
  <1>. QED  BY <1>2, <1>3, FS_Subset, FS_CardinalityType

\* Fewer attempts, recorded and pending.
LEMMA FewerAttempts ==
    ASSUME TypeOK, TypeOK', NEW t \in Nat, NEW r \in Nat,
           Recorded(r)' \subseteq Recorded(t), Pending(r)' \subseteq Pending(t),
           Cardinality(Recorded(t)) + Cardinality(Pending(t)) < Limit + Cardinality(Call)
    PROVE  Cardinality(Recorded(r)') + Cardinality(Pending(r)') < Limit + Cardinality(Call)
  <1>1. /\ IsFiniteSet(Recorded(t)) /\ IsFiniteSet(Pending(t))
        /\ Cardinality(Recorded(t)) \in Nat /\ Cardinality(Pending(t)) \in Nat
        /\ Cardinality(Call) \in Nat /\ Limit \in Nat
    BY AttemptsFinite, Constants
  <1>2. /\ Cardinality(Recorded(r)') <= Cardinality(Recorded(t))
        /\ Cardinality(Pending(r)') <= Cardinality(Pending(t))
    BY <1>1, FS_Subset
  <1>3. Cardinality(Recorded(r)') \in Nat /\ Cardinality(Pending(r)') \in Nat
    BY <1>1, FS_Subset, FS_CardinalityType
  <1>. QED  BY <1>1, <1>2, <1>3

\* Only Login lets an attempt in and only RecordFailure records one.
LEMMA AttemptSteps ==
    ASSUME TypeOK, HandlersReady, NEW c \in Call, Served(c)
    PROVE  \/ \E p \in Password : Login(c, p)
           \/ RecordFailure(c)
           \/ /\ failures' = failures
              /\ call'[c].next \in {"verify", "failed"} =>
                    call[c].next \in {"verify", "failed"} /\ call'[c].at = call[c].at
  <1>. USE DEF TypeOK, Continue, Reply, Hold, Idle, Calls
  <1>2. CASE Verify(c)
    BY <1>2 DEF Verify
  <1>4. CASE \E s \in Session \cup {None} : InsertSession(c, s)
    BY <1>4 DEF InsertSession
  <1>5. CASE \E s \in Session, then \in {"served", "logout", "profile", "handoff"} :
                Request(c, s, then)
    BY <1>5 DEF Request
  <1>6. CASE Touch(c)
    <2>1. call[c].then \in {"served", "logout", "profile", "handoff"}
      BY <1>6 DEF Touch, HandlersReady
    <2>2. call'[c].next \notin {"verify", "failed"}
      <3>. HIDE DEF Calls
      <3>. QED  BY <1>6, <2>1 DEF Touch
    <2>. QED  BY <1>6, <2>2 DEF Touch
  <1>6a. CASE Logout(c)
    BY <1>6a DEF Logout
  <1>7. CASE \E change \in Changes, p \in Password : ReadProfile(c, change, p)
    BY <1>7 DEF ReadProfile
  <1>8. CASE CommitProfile(c) \/ ProfileRefused(c)
    BY <1>8 DEF CommitProfile, ProfileRefused
  <1>9. CASE AuthoriseHandoff(c) \/ PurgeHandoffs(c)
    BY <1>9 DEF AuthoriseHandoff, PurgeHandoffs
  <1>10. CASE \E h \in Handoff : InsertHandoff(c, h)
    BY <1>10 DEF InsertHandoff
  <1>11. CASE \E h \in Handoff, s \in Session \cup {None} : RedeemAdminHandoff(c, h, s)
    BY <1>11 DEF RedeemAdminHandoff
  <1>12. CASE Deliver(c) \/ LoseReply(c)
    BY <1>12 DEF Deliver, LoseReply
  <1>13. CASE \E admin, enabled \in BOOLEAN : UpdateUser(c, admin, enabled)
    BY <1>13 DEF UpdateUser
  <1>14. CASE \E admin, enabled \in BOOLEAN, p \in Password :
                 UpdateUserAndPassword(c, admin, enabled, p)
    BY <1>14 DEF UpdateUserAndPassword
  <1>15. CASE ResetPassword(c) \/ ResetRefused(c)
    BY <1>15 DEF ResetPassword, ResetRefused
  <1>. QED
    BY <1>2, <1>4, <1>5, <1>6, <1>6a, <1>7, <1>8, <1>9, <1>10, <1>11, <1>12, <1>13, <1>14, <1>15
    DEF Served

LEMMA StepAttempts ==
    ASSUME TypeOK, HandlersReady, FailuresPast, AttemptsBounded, TypeOK', [Next]_vars
    PROVE  AttemptsBounded'
  <1>0. now \in Nat /\ Limit \in Nat /\ Window \in Nat
    BY Constants DEF TypeOK
  <1>0a. /\ \A c \in Call : call[c].at \in Nat /\ call[c].at <= now
         /\ \A i \in DOMAIN failures : failures[i] \in Nat /\ failures[i] <= now
    <2>1. \A i \in DOMAIN failures : failures[i] \in Nat
      BY Constants DEF TypeOK
    <2>. QED  BY <2>1, CallTypes DEF HandlersReady, FailuresPast
  <1>1. CASE Tick
    <2>1. now' = now + 1 /\ UNCHANGED <<failures, call>>
      BY <1>1 DEF Tick
    <2>2. ASSUME NEW t \in 0..now'
          PROVE  Cardinality(Recorded(t)') + Cardinality(Pending(t)') < Limit + Cardinality(Call)
      <3>1. CASE t <= now
        <4>1. t \in 0..now /\ Recorded(t)' = Recorded(t) /\ Pending(t)' = Pending(t)
          BY <1>0, <2>1, <3>1 DEF Recorded, Pending
        <4>. QED  BY <4>1 DEF AttemptsBounded
      <3>2. CASE t = now + 1
        <4>1. Recorded(t)' \subseteq Recorded(now)
          BY <1>0, <1>0a, <2>1, <3>2 DEF Recorded
        <4>2. Pending(t)' \subseteq Pending(now)
          BY <1>0, <1>0a, <2>1, <3>2 DEF Pending
        <4>3. now \in 0..now
          BY <1>0
        <4>. QED  BY <1>0, <3>2, <4>1, <4>2, <4>3, FewerAttempts DEF AttemptsBounded
      <3>. QED  BY <1>0, <2>1, <2>2, <3>1, <3>2
    <2>. QED  BY <2>2 DEF AttemptsBounded
  <1>2. CASE UNCHANGED vars
    BY <1>2 DEF vars, AttemptsBounded, Recorded, Pending
  <1>3. ASSUME NEW c \in Call, Served(c) PROVE AttemptsBounded'
    <2>0. now' = now /\ \A b \in Call \ {c} : call'[b] = call[b]
      BY <1>3, OthersKeep
    <2>1. SUFFICES ASSUME NEW t \in 0..now
          PROVE  Cardinality(Recorded(t)') + Cardinality(Pending(t)') < Limit + Cardinality(Call)
      BY <2>0 DEF AttemptsBounded
    <2>2. t \in Nat /\ t <= now
          /\ Cardinality(Recorded(t)) + Cardinality(Pending(t)) < Limit + Cardinality(Call)
      BY <1>0 DEF AttemptsBounded
    <2>3. ASSUME NEW p \in Password, Login(c, p)
          PROVE  Cardinality(Recorded(t)') + Cardinality(Pending(t)') < Limit + Cardinality(Call)
      <3>1. /\ failures' = failures /\ call'[c].at = now
            /\ Cardinality(Recorded(now)) < Limit /\ call[c] = Idle
        BY <2>3 DEF Login, Idle, TypeOK, Calls, FailuresBetween, Recorded
      <3>2. Recorded(t)' = Recorded(t)
        BY <3>1 DEF Recorded
      <3>3. CASE t = now
        <4>1. /\ Cardinality(Recorded(t)) \in Nat /\ Cardinality(Call) \in Nat
              /\ Cardinality(Pending(t)') \in Nat /\ Cardinality(Pending(t)') <= Cardinality(Call)
          <5>1. Pending(t)' \in SUBSET Call /\ IsFiniteSet(Call)
            BY AccountsAssumption DEF Pending
          <5>. QED  BY <5>1, AttemptsFinite, FS_Subset, FS_CardinalityType
        <4>. QED  BY <1>0, <3>1, <3>2, <3>3, <4>1
      <3>4. CASE t < now
        <4>1. Pending(t)' \subseteq Pending(t)
          BY <1>0, <2>0, <2>2, <3>1, <3>4 DEF Pending
        <4>. QED  BY <2>2, <3>2, <4>1, FewerAttempts
      <3>. QED  BY <1>0, <2>2, <3>3, <3>4
    <2>4. CASE RecordFailure(c) /\ failures' # failures
      <3>. DEFINE n == Len(failures) + 1
      <3>1. /\ failures \in Seq(Nat) /\ failures' = Append(failures, call[c].at)
            /\ call[c].next = "failed" /\ call'[c].next = "idle"
        BY <2>4, Constants, IdleTypes DEF RecordFailure, Reply, TypeOK
      <3>2. /\ n \notin DOMAIN failures /\ DOMAIN failures' = DOMAIN failures \cup {n}
            /\ failures'[n] = call[c].at /\ \A i \in DOMAIN failures : failures'[i] = failures[i]
        BY <1>0a, <3>1
      <3>3. CASE t - Window < call[c].at /\ call[c].at <= t
        <4>1. Recorded(t)' = Recorded(t) \cup {n} /\ n \notin Recorded(t)
          BY <3>2, <3>3 DEF Recorded
        <4>2. Pending(t)' = Pending(t) \ {c} /\ c \in Pending(t)
          BY <2>0, <3>1, <3>3 DEF Pending
        <4>3. /\ Cardinality(Recorded(t)') = Cardinality(Recorded(t)) + 1
              /\ Cardinality(Pending(t)') = Cardinality(Pending(t)) - 1
          <5>1. IsFiniteSet(Recorded(t)) /\ IsFiniteSet(Pending(t))
            BY AttemptsFinite
          <5>2. Cardinality(Recorded(t) \cup {n}) = Cardinality(Recorded(t)) + 1
            BY <4>1, <5>1, FS_AddElement
          <5>3. Cardinality(Pending(t) \ {c}) = Cardinality(Pending(t)) - 1
            BY <4>2, <5>1, FS_RemoveElement
          <5>. QED  BY <4>1, <4>2, <5>2, <5>3
        <4>4. /\ Cardinality(Recorded(t)) \in Nat /\ Cardinality(Pending(t)) \in Nat
              /\ Cardinality(Call) \in Nat
          BY AttemptsFinite
        <4>. QED  BY <1>0, <2>2, <4>3, <4>4
      <3>4. CASE ~(t - Window < call[c].at /\ call[c].at <= t)
        <4>1. Recorded(t)' \subseteq Recorded(t)
          BY <3>2, <3>4 DEF Recorded
        <4>2. Pending(t)' \subseteq Pending(t)
          BY <2>0, <3>1 DEF Pending
        <4>. QED  BY <2>2, <4>1, <4>2, FewerAttempts
      <3>. QED  BY <3>3, <3>4
    <2>5. CASE /\ failures' = failures
               /\ call'[c].next \in {"verify", "failed"} =>
                     call[c].next \in {"verify", "failed"} /\ call'[c].at = call[c].at
      <3>1. Recorded(t)' = Recorded(t)
        BY <2>5 DEF Recorded
      <3>2. Pending(t)' \subseteq Pending(t)
        BY <2>0, <2>5 DEF Pending
      <3>. QED  BY <2>2, <3>1, <3>2, FewerAttempts
    <2>6. CASE RecordFailure(c) /\ failures' = failures
      <3>1. call'[c].next = "idle"
        BY <2>6, IdleTypes DEF RecordFailure, Reply, TypeOK
      <3>. QED  BY <2>5, <2>6, <3>1
    <2>. QED  BY <1>3, <2>3, <2>4, <2>5, <2>6, AttemptSteps
  <1>. QED  BY <1>1, <1>2, <1>3, Kinds

LEMMA InitAttempts == Init => AttemptsBounded
  <1>. SUFFICES ASSUME Init, NEW t \in 0..now
                PROVE  Cardinality(Recorded(t)) + Cardinality(Pending(t)) < Limit + Cardinality(Call)
    BY DEF AttemptsBounded
  <1>1. Recorded(t) = {} /\ Pending(t) = {}
    BY IdleTypes DEF Init, Recorded, Pending
  <1>2. Cardinality({}) = 0 /\ Cardinality(Call) \in Nat
    BY FS_EmptySet, FS_CardinalityType, AccountsAssumption
  <1>. QED  BY <1>1, <1>2, Constants

LEMMA BoundedFailures == TypeOK /\ AttemptsBounded => FailuresBounded
  <1>. SUFFICES ASSUME TypeOK, AttemptsBounded, NEW t \in 0..now
                PROVE  FailuresBetween(t - Window, t) < Limit + Cardinality(Call)
    BY DEF FailuresBounded
  <1>1. FailuresBetween(t - Window, t) = Cardinality(Recorded(t))
    BY DEF FailuresBetween, Recorded
  <1>2. /\ Cardinality(Recorded(t)) \in Nat /\ Cardinality(Pending(t)) \in Nat
        /\ Cardinality(Call) \in Nat
    BY AttemptsFinite
  <1>. QED  BY <1>1, <1>2, Constants DEF AttemptsBounded

-----------------------------------------------------------------------------
(* The password that opens the account and the sessions it has left. *)

PasswordInv == HoldersAlone /\ PasswordAsSet /\ SignedOut

\* Nothing that the observation is about changes, except that a request lets go
\* of the account and sessions are revoked.
Quiet(c) ==
    /\ user'.password = user.password
    /\ UNCHANGED <<wanted, under>>
    /\ call'[c] = call[c] \/ call'[c].next \notin {"valid", "commit", "reset"}
    /\ \A s \in Session : sessions'[s].state = "open" => sessions[s].state = "open"

LEMMA QuietSteps ==
    ASSUME TypeOK, HandlersReady, NEW c \in Call,
           \/ \E p \in Password : Login(c, p)
           \/ RecordFailure(c)
           \/ \E s \in Session, then \in {"served", "logout", "profile", "handoff"} :
                 Request(c, s, then)
           \/ Touch(c) \/ Logout(c) \/ ProfileRefused(c) \/ AuthoriseHandoff(c) \/ PurgeHandoffs(c)
           \/ \E h \in Handoff : InsertHandoff(c, h)
           \/ Deliver(c) \/ LoseReply(c) \/ ResetRefused(c)
           \/ \E admin, enabled \in BOOLEAN : UpdateUser(c, admin, enabled)
    PROVE  Quiet(c)
  <1>. USE DEF observed, Quiet
  <1>0. call \in [Call -> Calls] /\ call[c] \in Calls
    BY DEF TypeOK
  <1>1. CASE \E p \in Password : Login(c, p)
    BY <1>0, <1>1 DEF Login, Idle
  <1>2. CASE RecordFailure(c) \/ ProfileRefused(c) \/ Deliver(c) \/ LoseReply(c) \/ ResetRefused(c)
    BY <1>0, <1>2 DEF RecordFailure, ProfileRefused, Deliver, LoseReply, ResetRefused, Reply, Idle
  <1>3. CASE \E s \in Session, then \in {"served", "logout", "profile", "handoff"} :
                Request(c, s, then)
    <2>. SUFFICES ASSUME NEW s \in Session,
                         NEW then \in {"served", "logout", "profile", "handoff"},
                         Request(c, s, then)
                  PROVE  Quiet(c)
      BY <1>3
    <2>1. call'[c] = [Idle EXCEPT !.next = "touch", !.then = then, !.at = now, !.session = s]
      BY <1>0 DEF Request
    <2>2. call'[c].next = "touch"
      BY <2>1 DEF Idle
    <2>. QED  BY <2>2 DEF Request
  <1>4. CASE Touch(c)
    <2>1. call[c].then \in {"served", "logout", "profile", "handoff"}
      BY <1>4 DEF Touch, HandlersReady
    <2>2. call'[c].next \notin {"valid", "commit", "reset"}
      BY <1>0, <1>4, <2>1 DEF Touch, Idle
    <2>3. \A s \in Session : sessions'[s].state = sessions[s].state
      BY <1>4 DEF Touch, TypeOK, Sessions
    <2>. QED  BY <1>4, <2>2, <2>3 DEF Touch
  <1>5. CASE Logout(c)
    <2>1. \A s \in Session : sessions'[s].state = "open" => sessions[s].state = "open"
      BY <1>5 DEF Logout, Revoked
    <2>. QED  BY <1>0, <1>5, <2>1 DEF Logout, Reply, Idle
  <1>6. CASE AuthoriseHandoff(c)
    BY <1>0, <1>6 DEF AuthoriseHandoff, Reply, Idle, Calls
  <1>7. CASE PurgeHandoffs(c)
    BY <1>0, <1>7 DEF PurgeHandoffs, Continue, Calls
  <1>8. CASE \E h \in Handoff : InsertHandoff(c, h)
    BY <1>0, <1>8 DEF InsertHandoff, Reply, Idle
  <1>9. CASE \E admin, enabled \in BOOLEAN : UpdateUser(c, admin, enabled)
    BY <1>0, <1>9 DEF UpdateUser, TypeOK
  <1>. QED  BY <1>1, <1>2, <1>3, <1>4, <1>5, <1>6, <1>7, <1>8, <1>9

LEMMA QuietKeeps ==
    ASSUME TypeOK, PasswordInv, NEW c \in Call, Quiet(c),
           \A b \in Call \ {c} : call'[b] = call[b]
    PROVE  PasswordInv'
  <1>1. HoldersAlone'
    BY DEF PasswordInv, HoldersAlone, Quiet, Holds
  <1>2. PasswordAsSet' /\ SignedOut'
    BY DEF PasswordInv, PasswordAsSet, SignedOut, Quiet
  <1>. QED  BY <1>1, <1>2 DEF PasswordInv

\* A request comes to hold the account with a password that may be written.
LEMMA HoldKeeps ==
    ASSUME TypeOK, PasswordInv, NEW c \in Call, NEW q \in Calls, Hold(c, q),
           user'.password = user.password, sessions' = sessions,
           \/ q.next = "valid"
           \/ q.next = "commit" /\ q.change # "password"
           => q.password = user.password
    PROVE  PasswordInv'
  <1>1. /\ call'[c] = q /\ \A b \in Call \ {c} : call'[b] = call[b]
    BY DEF Hold, TypeOK
  <1>2. CASE (\E d \in Call \ {c} : Holds(d)) /\ wanted # None
    <2>1. wanted' = None /\ under' = [s \in Session |-> None]
      BY <1>2 DEF Hold, Observe
    <2>. QED  BY <2>1 DEF PasswordInv, HoldersAlone, PasswordAsSet, SignedOut
  <1>3. CASE wanted = None
    <2>1. UNCHANGED <<wanted, under>>
      BY <1>3 DEF Hold, Observe
    <2>. QED  BY <1>3, <2>1 DEF PasswordInv, HoldersAlone, PasswordAsSet, SignedOut
  <1>4. CASE ~(\E d \in Call \ {c} : Holds(d)) /\ wanted # None
    <2>1. UNCHANGED <<wanted, under>>
      BY <1>4 DEF Hold
    <2>2. \A d \in Call \ {c} : ~Holds(d)'
      BY <1>1, <1>4 DEF Holds
    <2>3. HoldersAlone'
      BY <1>1, <1>4, <2>1, <2>2 DEF PasswordInv, HoldersAlone, Holds
    <2>. QED  BY <2>1, <2>3 DEF PasswordInv, PasswordAsSet, SignedOut
  <1>. QED  BY <1>2, <1>3, <1>4

\* A session is opened under the present password.
LEMMA OpenKeeps ==
    ASSUME TypeOK, PasswordInv, NEW c \in Call, NEW s \in Session \cup {None}, NEW at, NEW p,
           OpenSession(s, at, p), user' = user,
           wanted # None => p = user.password,
           call'[c].next \notin {"valid", "commit", "reset"},
           \A b \in Call \ {c} : call'[b] = call[b]
    PROVE  PasswordInv'
  <1>1. CASE s = None \/ wanted = None
    <2>1. UNCHANGED <<wanted, under>>
      BY <1>1, AccountsAssumption DEF OpenSession, Observe
    <2>2. SignedOut'
      <3>1. CASE s = None
        BY <2>1, <3>1 DEF PasswordInv, SignedOut, OpenSession
      <3>2. CASE wanted = None
        BY <2>1, <3>2 DEF PasswordInv, SignedOut, HoldersAlone
      <3>. QED  BY <1>1, <3>1, <3>2
    <2>. QED  BY <2>1, <2>2 DEF PasswordInv, HoldersAlone, PasswordAsSet, Holds
  <1>2. CASE s # None /\ wanted # None
    <2>1. /\ wanted' = wanted /\ under' = [under EXCEPT ![s] = p] /\ s \in Session
          /\ sessions' = [sessions EXCEPT ![s] = [state |-> "open", expires |-> at + IdleTime]]
      BY <1>2 DEF OpenSession, Observe
    <2>2. HoldersAlone'
      BY <1>2, <2>1 DEF PasswordInv, HoldersAlone, Holds
    <2>3. SignedOut'
      BY <1>2, <2>1 DEF PasswordInv, SignedOut, TypeOK
    <2>. QED  BY <2>1, <2>2, <2>3 DEF PasswordInv, PasswordAsSet
  <1>. QED  BY <1>1, <1>2

LEMMA StepPassword ==
    ASSUME TypeOK, HandlersReady, PasswordInv, [Next]_vars
    PROVE  PasswordInv'
  <1>1. CASE Tick \/ UNCHANGED vars
    BY <1>1 DEF Tick, vars, observed, PasswordInv, HoldersAlone, PasswordAsSet, SignedOut, Holds
  <1>2. ASSUME NEW c \in Call, Served(c) PROVE PasswordInv'
    <2>0. /\ \A b \in Call \ {c} : call'[b] = call[b] /\ call[c] \in Calls
          /\ user.password \in Password /\ call \in [Call -> Calls]
          /\ None \notin Password
      BY <1>2, OthersKeep, AccountsAssumption DEF TypeOK
    <2>1. CASE Quiet(c)
      BY <2>0, <2>1, QuietKeeps
    <2>2. CASE Verify(c)
      <3>1. CASE user.enabled /\ call[c].password = user.password
        <4>1. /\ Hold(c, [call[c] EXCEPT !.next = "valid"]) /\ UNCHANGED <<user, sessions>>
          BY <2>2, <3>1 DEF Verify
        <4>2. /\ [call[c] EXCEPT !.next = "valid"] \in Calls
              /\ [call[c] EXCEPT !.next = "valid"].password = user.password
          BY <2>0, <3>1 DEF Calls
        <4>. QED  BY <4>1, <4>2, HoldKeeps
      <3>2. CASE ~(user.enabled /\ call[c].password = user.password)
        BY <2>0, <2>1, <2>2, <3>2 DEF Verify, Continue, Quiet, Calls
      <3>. QED  BY <3>1, <3>2
    <2>3. ASSUME NEW s \in Session \cup {None}, InsertSession(c, s) PROVE PasswordInv'
      <3>1. wanted # None => call[c].password = user.password
        BY <2>3 DEF InsertSession, PasswordInv, HoldersAlone
      <3>2. call'[c].next = "idle" /\ user' = user /\ OpenSession(s, call[c].at, call[c].password)
        BY <2>0, <2>3, IdleTypes DEF InsertSession, Reply
      <3>. QED  BY <2>0, <3>1, <3>2, OpenKeeps
    <2>4. ASSUME NEW change \in Changes, NEW p \in Password, ReadProfile(c, change, p)
          PROVE  PasswordInv'
      <3>. DEFINE q == [call[c] EXCEPT !.next = "commit", !.change = change,
                           !.password = IF change = "password" THEN p ELSE user.password]
      <3>1. /\ q \in Calls /\ q.next = "commit" /\ q.change = change
            /\ change # "password" => q.password = user.password
        BY <2>0 DEF Calls
      <3>2. Hold(c, q) /\ UNCHANGED <<user, sessions>>
        BY <2>4 DEF ReadProfile
      <3>. HIDE DEF q
      <3>. QED  BY <3>1, <3>2, HoldKeeps
    <2>5. CASE CommitProfile(c)
      <3>. DEFINE q == call[c]
      <3>1. /\ q.next = "commit" /\ q.session \in Session /\ q.password \in Password
            /\ user'.password = q.password /\ call'[c].next = "idle" /\ Holds(c)
        BY <2>0, <2>5, IdleTypes DEF CommitProfile, HandlersReady, Reply, Holds, TypeOK
      <3>2. CASE wanted = None
        <4>1. UNCHANGED <<wanted, under>>
          BY <2>5, <3>2 DEF CommitProfile, Observe
        <4>. QED  BY <3>2, <4>1 DEF PasswordInv, HoldersAlone, PasswordAsSet, SignedOut
      <3>3. CASE wanted # None
        <4>1. /\ wanted' = (IF q.change = "password" THEN q.password ELSE wanted)
              /\ under' = [under EXCEPT ![q.session] = q.password]
          BY <2>5, <3>3 DEF CommitProfile, Observe
        <4>2. /\ \A d \in Call \ {c} : ~Holds(d)
              /\ q.change # "password" => q.password = user.password
              /\ user.password = wanted
          BY <3>1, <3>3 DEF PasswordInv, HoldersAlone, PasswordAsSet
        <4>3. wanted' = q.password /\ wanted' # None
          BY <2>0, <3>1, <4>1, <4>2
        <4>4. \A d \in Call : ~Holds(d)'
          BY <2>0, <3>1, <4>2 DEF Holds
        <4>5. HoldersAlone'
          BY <4>3, <4>4 DEF HoldersAlone, Holds
        <4>6. SignedOut'
          <5>1. SUFFICES ASSUME NEW s \in Session, sessions'[s].state = "open"
                         PROVE  under'[s] \in {None, q.password}
            BY <3>1 DEF SignedOut
          <5>2. CASE s = q.session
            BY <3>1, <4>1, <5>2 DEF TypeOK
          <5>3. CASE s # q.session /\ SignsOut(q.change)
            <6>1. sessions' = Revoked(Session \ {q.session})
              BY <2>5, <5>3 DEF CommitProfile
            <6>. QED  BY <5>1, <5>3, <6>1 DEF Revoked
          <5>4. CASE s # q.session /\ ~SignsOut(q.change)
            <6>1. sessions' = sessions /\ q.change # "password"
              BY <2>5, <5>4 DEF CommitProfile, SignsOut
            <6>2. under'[s] = under[s] /\ under[s] \in {None, user.password}
              BY <4>1, <5>1, <5>4, <6>1 DEF PasswordInv, SignedOut, TypeOK
            <6>. QED  BY <4>2, <6>1, <6>2
          <5>. QED  BY <5>2, <5>3, <5>4
        <4>. QED  BY <3>1, <4>3, <4>5, <4>6 DEF PasswordInv, PasswordAsSet
      <3>. QED  BY <3>2, <3>3
    <2>6. ASSUME NEW h \in Handoff, NEW s \in Session \cup {None}, RedeemAdminHandoff(c, h, s)
          PROVE  PasswordInv'
      <3>1. call'[c].next = "reply" /\ user' = user /\ OpenSession(s, now, user.password)
        BY <2>0, <2>6 DEF RedeemAdminHandoff, Idle
      <3>. QED  BY <2>0, <3>1, OpenKeeps
    <2>7. ASSUME NEW admin \in BOOLEAN, NEW enabled \in BOOLEAN, NEW p \in Password,
                 UpdateUserAndPassword(c, admin, enabled, p)
          PROVE  PasswordInv'
      <3>. DEFINE q == [Idle EXCEPT !.next = "reset", !.password = p]
      <3>1. q \in Calls /\ q.next = "reset"
        BY DEF Idle, Calls
      <3>2. Hold(c, q) /\ user'.password = user.password /\ sessions' = sessions
        BY <2>7 DEF UpdateUserAndPassword, TypeOK
      <3>. HIDE DEF q
      <3>. QED  BY <3>1, <3>2, HoldKeeps
    <2>8. CASE ResetPassword(c)
      <3>1. /\ call[c].next = "reset" /\ call[c].password \in Password /\ sessions' = sessions
            /\ user'.password = call[c].password /\ call'[c].next = "idle" /\ Holds(c)
        BY <2>0, <2>8, IdleTypes DEF ResetPassword, HandlersReady, Reply, Holds, TypeOK
      <3>2. CASE wanted = None
        <4>1. UNCHANGED <<wanted, under>>
          BY <2>8, <3>2 DEF ResetPassword, Observe
        <4>. QED  BY <3>2, <4>1 DEF PasswordInv, HoldersAlone, PasswordAsSet, SignedOut
      <3>3. CASE wanted # None
        <4>1. wanted' = call[c].password /\ under' = [s \in Session |-> None]
          BY <2>8, <3>3 DEF ResetPassword, Observe
        <4>2. \A d \in Call : ~Holds(d)'
          BY <2>0, <3>1, <3>3 DEF PasswordInv, HoldersAlone, Holds
        <4>3. HoldersAlone' /\ SignedOut'
          BY <4>1, <4>2 DEF HoldersAlone, SignedOut, Holds
        <4>. QED  BY <3>1, <4>1, <4>3 DEF PasswordInv, PasswordAsSet
      <3>. QED  BY <3>2, <3>3
    <2>. QED  BY <1>2, <2>1, <2>2, <2>3, <2>4, <2>5, <2>6, <2>7, <2>8, QuietSteps DEF Served
  <1>. QED  BY <1>1, <1>2, Kinds

LEMMA InitPassword == Init => PasswordInv
  BY IdleTypes DEF Init, PasswordInv, HoldersAlone, PasswordAsSet, SignedOut, Holds, NoSession

-----------------------------------------------------------------------------
(* Sessions that have ended. *)

\* A row of sessions is opened once; it is revoked, or a request that was
\* admitted to it slides its expiry.
LEMMA SessionSteps ==
    ASSUME TypeOK, HandlersReady, NEW c \in Call, Served(c), NEW s \in Session
    PROVE  \/ sessions'[s] = sessions[s]
           \/ sessions[s].state = "none"
           \/ sessions[s].state = "open" /\ sessions'[s].state = "revoked"
           \/ c \in Late(s) /\ sessions'[s].state = sessions[s].state
  <1>. USE DEF TypeOK, observed
  <1>1. CASE \/ \E p \in Password : Login(c, p)
             \/ Verify(c) \/ RecordFailure(c)
             \/ \E r \in Session, then \in {"served", "logout", "profile", "handoff"} :
                   Request(c, r, then)
             \/ \E change \in Changes, p \in Password : ReadProfile(c, change, p)
             \/ ProfileRefused(c) \/ AuthoriseHandoff(c) \/ PurgeHandoffs(c)
             \/ \E h \in Handoff : InsertHandoff(c, h)
             \/ Deliver(c) \/ LoseReply(c) \/ ResetPassword(c) \/ ResetRefused(c)
             \/ \E admin, enabled \in BOOLEAN : UpdateUser(c, admin, enabled)
             \/ \E admin, enabled \in BOOLEAN, p \in Password :
                   UpdateUserAndPassword(c, admin, enabled, p)
    BY <1>1 DEF Login, Verify, RecordFailure, Request, ReadProfile, ProfileRefused,
       AuthoriseHandoff, PurgeHandoffs, InsertHandoff, Deliver, LoseReply, ResetPassword,
       ResetRefused, UpdateUser, UpdateUserAndPassword
  <1>2. ASSUME NEW r, NEW at, NEW p, OpenSession(r, at, p)
        PROVE  sessions'[s] = sessions[s] \/ sessions[s].state = "none"
    BY <1>2 DEF OpenSession, NoSession
  <1>3. CASE \/ \E r \in Session \cup {None} : InsertSession(c, r)
             \/ \E h \in Handoff, r \in Session \cup {None} : RedeemAdminHandoff(c, h, r)
    BY <1>2, <1>3 DEF InsertSession, RedeemAdminHandoff
  <1>4. CASE Touch(c)
    <2>1. CASE call[c].session = s
      BY <1>4, <2>1 DEF Touch, Late, Sessions
    <2>2. CASE call[c].session # s
      BY <1>4, <2>2 DEF Touch
    <2>. QED  BY <2>1, <2>2
  <1>5. CASE Logout(c) \/ CommitProfile(c)
    BY <1>5 DEF Logout, CommitProfile, Revoked, Sessions
  <1>. QED  BY <1>1, <1>3, <1>4, <1>5 DEF Served

\* Only Request admits to a session.
LEMMA Admissions ==
    ASSUME TypeOK, HandlersReady, NEW c \in Call, Served(c), call'[c].next = "touch"
    PROVE  \/ call'[c] = call[c]
           \/ \E s \in Session, then \in {"served", "logout", "profile", "handoff"} :
                 Request(c, s, then) /\ call'[c].session = s
  <1>0. call \in [Call -> Calls] /\ call[c] \in Calls
    BY DEF TypeOK
  <1>1. ASSUME NEW s \in Session, NEW then \in {"served", "logout", "profile", "handoff"},
               Request(c, s, then)
        PROVE  call'[c].session = s
    BY <1>0, <1>1 DEF Request, Idle
  <1>2. CASE \E p \in Password : Login(c, p)
    BY <1>0, <1>2 DEF Login, Idle
  <1>3. CASE Verify(c)
    BY <1>0, <1>3 DEF Verify, Hold, Continue, Calls
  <1>4. CASE Touch(c)
    <2>1. call[c].then \in {"served", "logout", "profile", "handoff"}
      BY <1>4 DEF Touch, HandlersReady
    <2>. QED  BY <1>0, <1>4, <2>1 DEF Touch, Idle
  <1>5. CASE \E change \in Changes, p \in Password : ReadProfile(c, change, p)
    BY <1>0, <1>5 DEF ReadProfile, Hold, Calls
  <1>6. CASE AuthoriseHandoff(c) \/ PurgeHandoffs(c)
    BY <1>0, <1>6 DEF AuthoriseHandoff, PurgeHandoffs, Continue, Reply, Idle, Calls
  <1>7. CASE \E h \in Handoff, s \in Session \cup {None} : RedeemAdminHandoff(c, h, s)
    BY <1>0, <1>7 DEF RedeemAdminHandoff, Idle
  <1>8. CASE \E admin, enabled \in BOOLEAN : UpdateUser(c, admin, enabled)
    BY <1>8 DEF UpdateUser
  <1>9. CASE \E admin, enabled \in BOOLEAN, p \in Password :
                UpdateUserAndPassword(c, admin, enabled, p)
    BY <1>0, <1>9 DEF UpdateUserAndPassword, Hold, Idle
  <1>10. ASSUME Reply(c) PROVE FALSE
    BY <1>0, <1>10, IdleTypes DEF Reply
  <1>11. CASE \/ RecordFailure(c) \/ \E s \in Session \cup {None} : InsertSession(c, s)
              \/ Logout(c) \/ CommitProfile(c) \/ ProfileRefused(c)
              \/ \E h \in Handoff : InsertHandoff(c, h)
              \/ Deliver(c) \/ LoseReply(c) \/ ResetPassword(c) \/ ResetRefused(c)
    BY <1>10, <1>11 DEF RecordFailure, InsertSession, Logout, CommitProfile, ProfileRefused,
       InsertHandoff, Deliver, LoseReply, ResetPassword, ResetRefused
  <1>. QED
    BY <1>1, <1>2, <1>3, <1>4, <1>5, <1>6, <1>7, <1>8, <1>9, <1>11 DEF Served

\* DeadStaysDead, for one session and one step.
EndedStays(s) ==
    /\ sessions[s].state = "revoked" => sessions'[s].state = "revoked"
    /\ Dead(s) => Late(s)' \subseteq Late(s) /\ (Late(s) = {} => Dead(s)')

LEMMA StepDead ==
    ASSUME TypeOK, HandlersReady, [Next]_vars, NEW s \in Session
    PROVE  EndedStays(s)
  <1>0. sessions[s].expires \in Nat /\ now \in Nat
    BY Constants DEF TypeOK, Sessions
  <1>1. CASE Tick
    BY <1>0, <1>1 DEF Tick, EndedStays, Dead, Late
  <1>2. CASE UNCHANGED vars
    BY <1>2 DEF vars, EndedStays, Dead, Late
  <1>3. ASSUME NEW c \in Call, Served(c) PROVE EndedStays(s)
    <2>1. now' = now /\ \A b \in Call \ {c} : call'[b] = call[b]
      BY <1>3, OthersKeep
    <2>2. ASSUME Dead(s) PROVE Late(s)' \subseteq Late(s)
      <3>1. SUFFICES ASSUME c \in Late(s)' PROVE c \in Late(s)
        BY <2>1 DEF Late
      <3>2. call'[c].next = "touch" /\ call'[c].session = s
        BY <3>1 DEF Late
      <3>3. ASSUME NEW r \in Session, NEW then \in {"served", "logout", "profile", "handoff"},
                   Request(c, r, then), r = s
            PROVE  FALSE
        BY <1>0, <2>2, <3>3 DEF Request, Dead
      <3>. QED  BY <1>3, <3>2, <3>3, Admissions DEF Late
    <2>3. ASSUME Dead(s), Late(s) = {} PROVE Dead(s)'
      BY <1>3, <2>1, <2>3, SessionSteps DEF Dead
    <2>4. ASSUME sessions[s].state = "revoked" PROVE sessions'[s].state = "revoked"
      BY <1>3, <2>4, SessionSteps
    <2>. QED  BY <2>2, <2>3, <2>4 DEF EndedStays
  <1>. QED  BY <1>1, <1>2, <1>3, Kinds

-----------------------------------------------------------------------------
(* Handoffs implement SingleUse. *)

\* A row of admin_handoffs changes by InsertHandoff, RedeemAdminHandoff and
\* PurgeHandoffs only; only RedeemAdminHandoff begins a reply.
LEMMA HandoffSteps ==
    ASSUME TypeOK, HandlersReady, NEW c \in Call, Served(c)
    PROVE  \/ PurgeHandoffs(c)
           \/ \E h \in Handoff : InsertHandoff(c, h)
           \/ \E h \in Handoff, s \in Session \cup {None} : RedeemAdminHandoff(c, h, s)
           \/ Deliver(c)
           \/ LoseReply(c)
           \/ /\ UNCHANGED <<handoffs, delivered>>
              /\ call'[c] = call[c] \/ (call[c].next # "reply" /\ call'[c].next # "reply")
  <1>. USE DEF observed
  <1>0. call \in [Call -> Calls] /\ call[c] \in Calls
    BY DEF TypeOK
  <1>1. CASE \E p \in Password : Login(c, p)
    BY <1>0, <1>1 DEF Login, Idle
  <1>2. CASE Verify(c)
    BY <1>0, <1>2 DEF Verify, Hold, Continue, Calls
  <1>3. CASE \/ RecordFailure(c) \/ Logout(c) \/ CommitProfile(c) \/ ProfileRefused(c)
             \/ ResetPassword(c) \/ ResetRefused(c)
             \/ \E s \in Session \cup {None} : InsertSession(c, s)
    BY <1>0, <1>3, IdleTypes DEF RecordFailure, Logout, CommitProfile, ProfileRefused,
       ResetPassword, ResetRefused, InsertSession, Reply
  <1>4. CASE \E s \in Session, then \in {"served", "logout", "profile", "handoff"} :
                Request(c, s, then)
    BY <1>0, <1>4 DEF Request, Idle
  <1>5. CASE Touch(c)
    <2>1. call[c].then \in {"served", "logout", "profile", "handoff"}
      BY <1>5 DEF Touch, HandlersReady
    <2>. QED  BY <1>0, <1>5, <2>1 DEF Touch, Idle
  <1>6. CASE \E change \in Changes, p \in Password : ReadProfile(c, change, p)
    BY <1>0, <1>6 DEF ReadProfile, Hold, Calls
  <1>7. CASE AuthoriseHandoff(c)
    BY <1>0, <1>7 DEF AuthoriseHandoff, Reply, Idle, Calls
  <1>8. CASE \E admin, enabled \in BOOLEAN : UpdateUser(c, admin, enabled)
    BY <1>8 DEF UpdateUser
  <1>9. CASE \E admin, enabled \in BOOLEAN, p \in Password :
                UpdateUserAndPassword(c, admin, enabled, p)
    BY <1>0, <1>9 DEF UpdateUserAndPassword, Hold, Idle
  <1>. QED
    BY <1>1, <1>2, <1>3, <1>4, <1>5, <1>6, <1>7, <1>8, <1>9 DEF Served

LEMMA PurgeStep ==
    ASSUME TypeOK, NEW c \in Call, PurgeHandoffs(c)
    PROVE  /\ \A h \in Handoff :
                 \/ handoffs'[h] = handoffs[h]
                 \/ handoffs[h].state \in {"open", "redeemed"} /\ handoffs'[h].state = "deleted"
           /\ call[c].next # "reply" /\ call'[c].next # "reply" /\ delivered' = delivered
  BY DEF PurgeHandoffs, Continue, TypeOK, Calls, observed

LEMMA InsertHandoffStep ==
    ASSUME TypeOK, NEW c \in Call, NEW h \in Handoff, InsertHandoff(c, h)
    PROVE  /\ handoffs[h].state = "none" /\ handoffs'[h].state = "open"
           /\ \A g \in Handoff \ {h} : handoffs'[g] = handoffs[g]
           /\ call[c].next # "reply" /\ call'[c].next # "reply" /\ delivered' = delivered
  BY IdleTypes DEF InsertHandoff, Reply, TypeOK, observed

LEMMA RedeemStep ==
    ASSUME TypeOK, NEW c \in Call, NEW h \in Handoff, NEW s, RedeemAdminHandoff(c, h, s)
    PROVE  /\ handoffs[h].state = "open" /\ handoffs'[h].state = "redeemed"
           /\ \A g \in Handoff \ {h} : handoffs'[g] = handoffs[g]
           /\ call[c].next = "idle"
           /\ call'[c].next = "reply" /\ call'[c].handoff = h /\ delivered' = delivered
  <1>1. /\ handoffs[h].state = "open" /\ handoffs'[h].state = "redeemed"
        /\ \A g \in Handoff \ {h} : handoffs'[g] = handoffs[g]
    BY DEF RedeemAdminHandoff, Redeemable, TypeOK, Handoffs
  <1>2. /\ call[c].next = "idle"
        /\ call'[c].next = "reply" /\ call'[c].handoff = h /\ delivered' = delivered
    BY DEF RedeemAdminHandoff, TypeOK, Idle
  <1>. QED  BY <1>1, <1>2

LEMMA ReplyStep ==
    ASSUME TypeOK, NEW c \in Call, Deliver(c) \/ LoseReply(c)
    PROVE  handoffs' = handoffs /\ call[c].next = "reply" /\ call'[c].next = "idle"
  BY IdleTypes DEF Deliver, LoseReply, Reply, TypeOK

LEMMA StepReplies ==
    ASSUME TypeOK, HandlersReady, RepliesOwed, [Next]_vars
    PROVE  RepliesOwed'
  <1>1. CASE Tick \/ UNCHANGED vars
    BY <1>1 DEF Tick, vars, RepliesOwed
  <1>2. ASSUME NEW c \in Call, Served(c) PROVE RepliesOwed'
    <2>0. \A b \in Call \ {c} : call'[b] = call[b]
      BY <1>2, OthersKeep
    <2>0a. \A b \in Call : call[b].next = "reply" => call[b].handoff \in Handoff
      BY DEF HandlersReady
    <2>1. CASE PurgeHandoffs(c)
      BY <2>0, <2>0a, <2>1, PurgeStep DEF RepliesOwed
    <2>2. ASSUME NEW h \in Handoff, InsertHandoff(c, h) PROVE RepliesOwed'
      BY <2>0, <2>0a, <2>2, InsertHandoffStep DEF RepliesOwed
    <2>3. ASSUME NEW h \in Handoff, NEW s \in Session \cup {None}, RedeemAdminHandoff(c, h, s)
          PROVE  RepliesOwed'
      BY <2>0, <2>0a, <2>3, RedeemStep DEF RepliesOwed
    <2>4. CASE Deliver(c) \/ LoseReply(c)
      BY <2>0, <2>0a, <2>4, ReplyStep DEF RepliesOwed
    <2>5. CASE /\ UNCHANGED <<handoffs, delivered>>
               /\ call'[c] = call[c] \/ (call[c].next # "reply" /\ call'[c].next # "reply")
      BY <2>0, <2>5 DEF RepliesOwed
    <2>. QED  BY <1>2, <2>1, <2>2, <2>3, <2>4, <2>5, HandoffSteps
  <1>. QED  BY <1>1, <1>2, Kinds

LEMMA SameOutbox ==
    ASSUME NEW c \in Call, \A b \in Call \ {c} : call'[b] = call[b],
           call'[c] = call[c] \/ (call[c].next # "reply" /\ call'[c].next # "reply")
    PROVE  Outbox' = Outbox
  BY DEF Outbox

LEMMA StepPromise ==
    ASSUME TypeOK, HandlersReady, RepliesOwed, [Next]_vars
    PROVE  [Promise!Next]_(Promise!vars)
  <1>1. CASE Tick \/ UNCHANGED vars
    BY <1>1 DEF Tick, vars, observed, Promise!vars, Slots, Outbox
  <1>2. ASSUME NEW c \in Call, Served(c) PROVE [Promise!Next]_(Promise!vars)
    <2>0. \A b \in Call \ {c} : call'[b] = call[b]
      BY <1>2, OthersKeep
    <2>1. CASE PurgeHandoffs(c)
      <3>. DEFINE T == {h \in Handoff : handoffs'[h] # handoffs[h]}
      <3>1. /\ Outbox' = Outbox /\ delivered' = delivered
            /\ \A h \in T : handoffs[h].state \in {"open", "redeemed"} /\ handoffs'[h].state = "deleted"
        BY <2>0, <2>1, PurgeStep, SameOutbox
      <3>2. /\ T \in SUBSET Handoff
            /\ \A h \in T : Slots[h].state # "unissued"
        BY <3>1 DEF Slots
      <3>3. Slots' = [h \in Handoff |-> IF h \in T THEN [state |-> "revoked", device |-> None]
                                                   ELSE Slots[h]]
        BY <3>1 DEF Slots
      <3>4. Promise!Revoke(T)
        BY <3>1, <3>2, <3>3 DEF Promise!Revoke
      <3>. QED  BY <3>2, <3>4 DEF Promise!Next
    <2>2. ASSUME NEW h \in Handoff, InsertHandoff(c, h) PROVE [Promise!Next]_(Promise!vars)
      <3>1. Outbox' = Outbox /\ delivered' = delivered
        BY <2>0, <2>2, InsertHandoffStep, SameOutbox
      <3>2. /\ Slots[h].state = "unissued"
            /\ Slots' = [Slots EXCEPT ![h] = [state |-> "open", device |-> User]]
        BY <2>2, InsertHandoffStep DEF Slots
      <3>3. Promise!Issue(h, User)
        BY <3>1, <3>2 DEF Promise!Issue
      <3>. QED  BY <3>3 DEF Promise!Next
    <2>3. ASSUME NEW h \in Handoff, NEW s \in Session \cup {None}, RedeemAdminHandoff(c, h, s)
          PROVE  [Promise!Next]_(Promise!vars)
      <3>1. Outbox' = Outbox \cup {<<h, User>>} /\ delivered' = delivered
        BY <2>0, <2>3, RedeemStep DEF Outbox
      <3>2. /\ Slots[h] = [state |-> "open", device |-> User]
            /\ Slots' = [Slots EXCEPT ![h].state = "used"]
        <4>1. /\ handoffs[h].state = "open" /\ handoffs'[h].state = "redeemed"
              /\ \A g \in Handoff \ {h} : handoffs'[g] = handoffs[g]
          BY <2>3, RedeemStep
        <4>2. Slots[h] = [state |-> "open", device |-> User]
          BY <4>1 DEF Slots
        <4>3. /\ DOMAIN Slots = Handoff /\ Slots' = [g \in Handoff |-> Slots'[g]]
              /\ Slots'[h] = [state |-> "used", device |-> User]
              /\ \A g \in Handoff \ {h} : Slots'[g] = Slots[g]
          BY <4>1 DEF Slots
        <4>. QED  BY <4>2, <4>3
      <3>3. Promise!Use(h, User)
        BY <3>1, <3>2 DEF Promise!Use
      <3>. QED  BY <3>3 DEF Promise!Next
    <2>4. CASE Deliver(c) \/ LoseReply(c)
      <3>. DEFINE h == call[c].handoff
      <3>1. h \in Handoff /\ Slots' = Slots
        BY <2>4, ReplyStep DEF HandlersReady, Slots
      <3>2. <<h, User>> \in Outbox /\ Outbox' = Outbox \ {<<h, User>>}
        BY <2>0, <2>4, ReplyStep DEF Outbox, RepliesOwed
      <3>3. CASE Deliver(c)
        <4>1. Promise!Deliver(h, User)
          BY <3>1, <3>2, <3>3 DEF Promise!Deliver, Deliver
        <4>. QED  BY <3>1, <4>1 DEF Promise!Next
      <3>4. CASE LoseReply(c)
        <4>1. Promise!Lose(h, User)
          BY <3>1, <3>2, <3>4 DEF Promise!Lose, LoseReply, observed
        <4>. QED  BY <3>1, <4>1 DEF Promise!Next
      <3>. QED  BY <2>4, <3>3, <3>4
    <2>5. CASE /\ UNCHANGED <<handoffs, delivered>>
               /\ call'[c] = call[c] \/ (call[c].next # "reply" /\ call'[c].next # "reply")
      BY <2>0, <2>5, SameOutbox DEF Promise!vars, Slots
    <2>. QED  BY <1>2, <2>1, <2>2, <2>3, <2>4, <2>5, HandoffSteps
  <1>. QED  BY <1>1, <1>2, Kinds

LEMMA InitPromise == Init => RepliesOwed /\ Promise!Init
  <1>. SUFFICES ASSUME Init PROVE RepliesOwed /\ Promise!Init
    OBVIOUS
  <1>1. \A c \in Call : call[c].next # "reply"
    BY IdleTypes DEF Init
  <1>2. Outbox = {} /\ RepliesOwed
    BY <1>1 DEF Outbox, RepliesOwed
  <1>3. Slots = [h \in Handoff |-> [state |-> "unissued", device |-> None]]
    BY DEF Init, Slots
  <1>. QED  BY <1>2, <1>3 DEF Init, Promise!Init

-----------------------------------------------------------------------------
(* The theorems. *)

Inv ==
    /\ TypeOK
    /\ HandlersReady
    /\ FailuresPast
    /\ AttemptsBounded
    /\ PasswordInv
    /\ RepliesOwed

LEMMA AllInvariants == Spec => []Inv
  <1>1. Init => Inv
    BY InitTypes, InitAttempts, InitPassword, InitPromise DEF Inv
  <1>2. Inv /\ [Next]_vars => Inv'
    BY StepTypes, StepAttempts, StepPassword, StepReplies DEF Inv
  <1>. QED  BY <1>1, <1>2, PTL DEF Spec

\* However many sign-ins overlap, no window of time holds more failed attempts
\* than the limit and one for each request being served at once (Authenticate).
THEOREM FailuresLimited == Spec => []AccountsInv
  <1>1. Inv => AccountsInv
    BY BoundedFailures DEF Inv, AccountsInv
  <1>. QED  BY <1>1, AllInvariants, PTL

\* The password set last opens the account, for any number of requests, as long
\* as no two have held the account at once (UpdateOwnProfile, adminUpdate).
THEOREM LastPasswordOpens == Spec => []PasswordAsSet
  <1>1. Inv => PasswordAsSet
    BY DEF Inv, PasswordInv
  <1>. QED  BY <1>1, AllInvariants, PTL

\* The sessions left open after a change of password are those opened under it,
\* the one that changed it and those an administrator's reset left
\* (UpdateOwnProfile, Authenticate).
THEOREM OthersSignedOut == Spec => []SignedOut
  <1>1. Inv => SignedOut
    BY DEF Inv, PasswordInv
  <1>. QED  BY <1>1, AllInvariants, PTL

\* A session that has ended admits nobody and, once the requests admitted before
\* have written, stays ended (Session, Logout).
THEOREM EndedSessionsStay == Spec => DeadStaysDead
  <1>1. Inv /\ [Next]_vars =>
           [\A s \in Session :
               /\ sessions[s].state = "revoked" => sessions'[s].state = "revoked"
               /\ Dead(s) => Late(s)' \subseteq Late(s) /\ (Late(s) = {} => Dead(s)')]_vars
    BY StepDead DEF Inv, EndedStays
  <1>. QED  BY <1>1, AllInvariants, PTL DEF Spec, DeadStaysDead

\* A handoff implements the single-use ticket: it signs one browser in, once,
\* however redemptions and purges overlap (CreateAdminHandoff,
\* RedeemAdminHandoff).
THEOREM HandoffKeepsPromise == Spec => KeepsPromise
  <1>1. Inv /\ [Next]_vars => [Promise!Next]_(Promise!vars)
    BY StepPromise DEF Inv
  <1>2. Init => Promise!Init
    BY InitPromise
  <1>. QED  BY <1>1, <1>2, AllInvariants, PTL DEF Spec, KeepsPromise, Promise!Spec

-----------------------------------------------------------------------------
(* What the promise is worth. *)

\* The cookie of handoff h is on its way or has arrived only when h is used up,
\* and not both.
OncePerHandoff(h) ==
    /\ delivered[h] \in Seq({User}) /\ Len(delivered[h]) <= 1
    /\ <<h, User>> \in Outbox => delivered[h] = <<>>
    /\ <<h, User>> \in Outbox \/ delivered[h] # <<>> => Slots[h].state \in {"used", "revoked"}

\* Inductive for SingleUse alone.
OnceOnly ==
    /\ Slots \in [Handoff -> Promise!Slot] /\ DOMAIN delivered = Handoff
    /\ \A h \in Handoff : OncePerHandoff(h)

LEMMA PromiseOnce ==
    ASSUME OnceOnly, [Promise!Next]_(Promise!vars)
    PROVE  OnceOnly'
  <1>0. /\ Slots \in [Handoff -> Promise!Slot] /\ DOMAIN delivered = Handoff
        /\ \A h \in Handoff : OncePerHandoff(h)
    BY DEF OnceOnly
  <1>1. ASSUME NEW t \in Handoff, Promise!Issue(t, User) PROVE OnceOnly'
    <2>1. /\ Slots[t].state = "unissued" /\ UNCHANGED <<Outbox, delivered>>
          /\ Slots' = [Slots EXCEPT ![t] = [state |-> "open", device |-> User]]
      BY <1>1 DEF Promise!Issue
    <2>2. Slots' \in [Handoff -> Promise!Slot]
      BY <1>0, <2>1 DEF Promise!Slot
    <2>3. \A h \in Handoff : h # t => Slots'[h] = Slots[h]
      BY <1>0, <2>1
    <2>4. <<t, User>> \notin Outbox /\ delivered[t] = <<>>
      BY <1>0, <2>1 DEF OncePerHandoff
    <2>. QED  BY <1>0, <2>1, <2>2, <2>3, <2>4 DEF OnceOnly, OncePerHandoff
  <1>2. ASSUME NEW t \in Handoff, Promise!Use(t, User) PROVE OnceOnly'
    <2>1. /\ Slots[t].state = "open" /\ UNCHANGED delivered /\ Outbox' = Outbox \cup {<<t, User>>}
          /\ Slots' = [Slots EXCEPT ![t].state = "used"] /\ Slots[t].device = User
      BY <1>2 DEF Promise!Use
    <2>2. Slots' \in [Handoff -> Promise!Slot] /\ Slots'[t].state = "used"
      BY <1>0, <2>1 DEF Promise!Slot
    <2>3. \A h \in Handoff : h # t => Slots'[h] = Slots[h]
                                   /\ (<<h, User>> \in Outbox' <=> <<h, User>> \in Outbox)
      BY <1>0, <2>1
    <2>4. delivered[t] = <<>>
      BY <1>0, <2>1 DEF OncePerHandoff
    <2>. QED  BY <1>0, <2>1, <2>2, <2>3, <2>4 DEF OnceOnly, OncePerHandoff
  <1>3. ASSUME NEW t \in Handoff, Promise!Deliver(t, User) PROVE OnceOnly'
    <2>1. /\ <<t, User>> \in Outbox /\ UNCHANGED Slots /\ Outbox' = Outbox \ {<<t, User>>}
          /\ delivered' = [delivered EXCEPT ![t] = Append(@, User)]
      BY <1>3 DEF Promise!Deliver
    <2>2. delivered[t] = <<>> /\ Slots[t].state \in {"used", "revoked"}
      BY <1>0, <2>1 DEF OncePerHandoff
    <2>3. delivered'[t] = <<User>> /\ DOMAIN delivered' = Handoff
      BY <1>0, <2>1, <2>2
    <2>4. \A h \in Handoff : h # t => delivered'[h] = delivered[h]
                                   /\ (<<h, User>> \in Outbox' <=> <<h, User>> \in Outbox)
      BY <1>0, <2>1
    <2>5. OncePerHandoff(t)'
      BY <2>1, <2>2, <2>3 DEF OncePerHandoff
    <2>6. \A h \in Handoff : h # t => OncePerHandoff(h)'
      BY <1>0, <2>1, <2>4 DEF OncePerHandoff
    <2>. QED  BY <1>0, <2>1, <2>3, <2>5, <2>6 DEF OnceOnly
  <1>4. ASSUME NEW t \in Handoff, Promise!Lose(t, User) PROVE OnceOnly'
    <2>1. UNCHANGED <<Slots, delivered>> /\ Outbox' \subseteq Outbox
      BY <1>4 DEF Promise!Lose
    <2>. QED  BY <1>0, <2>1 DEF OnceOnly, OncePerHandoff
  <1>5. ASSUME NEW T \in SUBSET Handoff, Promise!Revoke(T) PROVE OnceOnly'
    <2>1. /\ UNCHANGED <<Outbox, delivered>>
          /\ Slots' = [t \in Handoff |-> IF t \in T THEN [state |-> "revoked", device |-> None]
                                         ELSE Slots[t]]
      BY <1>5 DEF Promise!Revoke
    <2>2. /\ Slots' \in [Handoff -> Promise!Slot]
          /\ \A h \in Handoff : Slots'[h].state = "revoked" \/ Slots'[h] = Slots[h]
      BY <1>0, <2>1 DEF Promise!Slot
    <2>. QED  BY <1>0, <2>1, <2>2 DEF OnceOnly, OncePerHandoff
  <1>6. CASE UNCHANGED (Promise!vars)
    <2>1. UNCHANGED <<Slots, Outbox, delivered>>
      BY <1>6 DEF Promise!vars
    <2>. QED  BY <1>0, <2>1 DEF OnceOnly, OncePerHandoff
  <1>. QED  BY <1>1, <1>2, <1>3, <1>4, <1>5, <1>6 DEF Promise!Next

\* Whoever keeps the promise keeps this; the proof looks at nothing but SingleUse.
LEMMA PromiseMeansOnce == KeepsPromise => []OnceOnly
  <1>1. Promise!Init => OnceOnly
    <2>. SUFFICES ASSUME Promise!Init PROVE OnceOnly
      OBVIOUS
    <2>1. /\ Slots = [t \in Handoff |-> [state |-> "unissued", device |-> None]]
          /\ Outbox = {} /\ delivered = [t \in Handoff |-> <<>>]
      BY DEF Promise!Init
    <2>2. Slots \in [Handoff -> Promise!Slot]
      BY <2>1 DEF Promise!Slot
    <2>3. \A h \in Handoff : delivered[h] = <<>> /\ Len(<<>>) = 0
      BY <2>1
    <2>. QED  BY <2>1, <2>2, <2>3 DEF OnceOnly, OncePerHandoff
  <1>2. OnceOnly /\ [Promise!Next]_(Promise!vars) => OnceOnly'
    BY PromiseOnce
  <1>. QED  BY <1>1, <1>2, PTL DEF KeepsPromise, Promise!Spec

\* A handoff's cookie reaches one browser at most, and none while the handoff
\* can still be redeemed, however requests overlap and replies are lost
\* (RedeemAdminHandoff).
THEOREM CookieArrivesOnce == Spec => []OnceOnly
  BY HandoffKeepsPromise, PromiseMeansOnce, PTL
=============================================================================
