------------------------------ MODULE Accounts ------------------------------
(***************************************************************************)
(* One user's account on the controller: sign-in with its limit on failed  *)
(* attempts (Authenticate), the sliding login sessions (Session, Logout),  *)
(* the user's own profile (UpdateOwnProfile), what an administrator does   *)
(* to the account (adminUpdate), and the one-time handoff that signs an    *)
(* administrator in to the administration page (CreateAdminHandoff,        *)
(* RedeemAdminHandoff).                                                    *)
(*                                                                         *)
(* As in TicketStore a statement, or a transaction, is one atomic step,    *)
(* and requests are interleaved between any two of them.  A user name      *)
(* matters only in that changing it signs the other sessions out.          *)
(***************************************************************************)
EXTENDS Integers, Sequences, FiniteSets

CONSTANTS
    Call,       \* HTTP requests the controller serves at the same time
    Session,    \* rows of sessions that the instance follows
    Handoff,    \* rows of admin_handoffs
    Password,
    Limit,      \* failed attempts that close the door (8) ...
    Window,     \* ... for this long (10 minutes), in clock ticks
    IdleTime,   \* UserIdleTimeout
    HandoffTTL, \* life of a handoff (45 seconds)
    Keep,       \* how long an expired handoff is kept (an hour)
    Horizon,    \* last clock tick: bounds the instance
    User,       \* the one user
    None

ASSUME AccountsAssumption ==
    /\ {Limit, Window, IdleTime, HandoffTTL} \subseteq Nat \ {0}
    /\ {Keep, Horizon} \subseteq Nat
    /\ IsFiniteSet(Call)
    /\ None \notin Session \cup Handoff \cup Password \cup {User}

VARIABLES
    now,
    user,      \* the row of users
    failures,  \* login_attempts: the times of the failed ones, as recorded
    sessions, handoffs,
    call,      \* the requests under way
    delivered, \* observed: who got the session of each handoff
    wanted,    \* observed: the password that was set last; None once two
               \* requests have held the account at the same time
    under      \* observed: the password each session stands for, if known

vars == <<now, user, failures, sessions, handoffs, call, delivered, wanted, under>>
observed == <<delivered, wanted, under>>

-----------------------------------------------------------------------------
NoSession == [state |-> "none", expires |-> 0]
Sessions == [state: {"none", "open", "revoked"}, expires: Nat]

Handoffs == [state: {"none", "open", "redeemed", "deleted"}, expires: Nat]

Changes == {"display_name", "username", "password"}

\* The next statement of a request and what its handler has read or was given.
Calls == [next: {"idle", "verify", "failed", "valid", "touch", "served", "logout",
                 "profile", "commit", "handoff", "purge", "insert", "reply", "reset"},
          then: {"served", "logout", "profile", "handoff", None},
          at: Nat, session: Session \cup {None}, handoff: Handoff \cup {None},
          password: Password \cup {None}, change: Changes \cup {None}]

Idle == [next |-> "idle", then |-> None, at |-> 0, session |-> None, handoff |-> None,
         password |-> None, change |-> None]

TypeOK ==
    /\ now \in 0..Horizon
    /\ user \in [password: Password, admin: BOOLEAN, enabled: BOOLEAN]
    /\ failures \in Seq(0..Horizon)
    /\ sessions \in [Session -> Sessions]
    /\ handoffs \in [Handoff -> Handoffs]
    /\ call \in [Call -> Calls]
    /\ delivered \in [Handoff -> Seq({User})]
    /\ wanted \in Password \cup {None}
    /\ under \in [Session -> Password \cup {None}]

\* CreateUser has made the account; nobody has signed in yet.
Init ==
    /\ now = 0
    /\ user \in [password: Password, admin: {TRUE}, enabled: {TRUE}]
    /\ failures = <<>>
    /\ sessions = [s \in Session |-> NoSession]
    /\ handoffs = [h \in Handoff |-> [state |-> "none", expires |-> 0]]
    /\ call = [c \in Call |-> Idle]
    /\ delivered = [h \in Handoff |-> <<>>]
    /\ wanted = user.password
    /\ under = [s \in Session |-> None]

Tick ==
    /\ now < Horizon
    /\ now' = now + 1
    /\ UNCHANGED <<user, failures, sessions, handoffs, call, observed>>

-----------------------------------------------------------------------------
(* Shared by the handlers. *)

Continue(c, next) == call' = [call EXCEPT ![c].next = next]
Reply(c) == call' = [call EXCEPT ![c] = Idle]

\* Request c has verified the password, or is about to write one.
Holds(c) == call[c].next \in {"valid", "commit", "reset"}

\* Observation ends with the first overlap.
Observe(password, standing) ==
    IF wanted = None THEN UNCHANGED <<wanted, under>>
    ELSE wanted' = password /\ under' = standing

\* Request c comes to hold the account.
Hold(c, record) ==
    /\ call' = [call EXCEPT ![c] = record]
    /\ IF \E d \in Call \ {c} : Holds(d)
       THEN Observe(None, [s \in Session |-> None]) ELSE UNCHANGED <<wanted, under>>

FailuresBetween(from, to) ==
    Cardinality({i \in DOMAIN failures : from < failures[i] /\ failures[i] <= to})

\* INSERT INTO sessions; s is None for a row that the instance does not follow
\* and that nobody uses.
OpenSession(s, at, password) ==
    \/ s = None /\ UNCHANGED <<sessions, wanted, under>>
    \/ /\ s # None
       /\ sessions[s] = NoSession
       /\ sessions' = [sessions EXCEPT ![s] = [state |-> "open", expires |-> at + IdleTime]]
       /\ Observe(wanted, [under EXCEPT ![s] = password])

\* The sessions in S that are open are revoked.
Revoked(S) == [s \in Session |-> IF s \in S /\ sessions[s].state = "open"
                                 THEN [sessions[s] EXCEPT !.state = "revoked"]
                                 ELSE sessions[s]]

-----------------------------------------------------------------------------
(* Authenticate. *)

\* Mutant: one attempt too many.
LoginLate(c, password) ==
    /\ call[c] = Idle
    /\ FailuresBetween(now - Window, now) <= Limit
    /\ call' = [call EXCEPT ![c] = [Idle EXCEPT !.next = "verify", !.at = now,
                                                !.password = password]]
    /\ UNCHANGED <<now, user, failures, sessions, handoffs, observed>>

\* The recent failures are counted; too many, and the attempt is refused
\* without a trace in login_attempts.
Login(c, password) ==
    /\ call[c] = Idle
    /\ FailuresBetween(now - Window, now) < Limit
    /\ call' = [call EXCEPT ![c] = [Idle EXCEPT !.next = "verify", !.at = now,
                                                !.password = password]]
    /\ UNCHANGED <<now, user, failures, sessions, handoffs, observed>>

\* The user's row is read and the password verified.
Verify(c) ==
    /\ call[c].next = "verify"
    /\ IF user.enabled /\ call[c].password = user.password
       THEN Hold(c, [call[c] EXCEPT !.next = "valid"])
       ELSE Continue(c, "failed") /\ UNCHANGED <<wanted, under>>
    /\ UNCHANGED <<now, user, failures, sessions, handoffs, delivered>>

\* The failed attempt is recorded, with the time it began at; nobody looks at the
\* error of the INSERT, and an attempt whose row is not written is not counted.
RecordFailure(c) ==
    /\ call[c].next = "failed"
    /\ failures' \in {failures, Append(failures, call[c].at)}
    /\ Reply(c)
    /\ UNCHANGED <<now, user, sessions, handoffs, observed>>

\* The session is inserted; nothing looks at the user again.
InsertSession(c, s) ==
    /\ call[c].next = "valid"
    /\ OpenSession(s, call[c].at, call[c].password)
    /\ Reply(c)
    /\ UNCHANGED <<now, user, failures, handoffs, delivered>>

-----------------------------------------------------------------------------
(* withSession, and what the handlers behind it do. *)

\* Mutant: expires_at is not looked at.
RequestExpired(c, s, then) ==
    /\ call[c] = Idle
    /\ sessions[s].state = "open" /\ user.enabled
    /\ then = "handoff" => user.admin
    /\ call' = [call EXCEPT ![c] = [Idle EXCEPT !.next = "touch", !.then = then,
                                                !.at = now, !.session = s]]
    /\ UNCHANGED <<now, user, failures, sessions, handoffs, observed>>

\* Session: the session is found open, in time, its user enabled (and, behind
\* withAdmin, an administrator); the time is read.
Request(c, s, then) ==
    /\ call[c] = Idle
    /\ sessions[s].state = "open" /\ user.enabled
    /\ now < sessions[s].expires
    /\ then = "handoff" => user.admin
    /\ call' = [call EXCEPT ![c] = [Idle EXCEPT !.next = "touch", !.then = then,
                                                !.at = now, !.session = s]]
    /\ UNCHANGED <<now, user, failures, sessions, handoffs, observed>>

\* Session: the expiry slides, in a later statement.
Touch(c) ==
    /\ call[c].next = "touch"
    /\ sessions' = [sessions EXCEPT ![call[c].session].expires = call[c].at + IdleTime]
    /\ call' = [call EXCEPT ![c] =
           IF call[c].then = "served" THEN Idle
           ELSE [Idle EXCEPT !.next = call[c].then, !.session = call[c].session]]
    /\ UNCHANGED <<now, user, failures, handoffs, observed>>

Logout(c) ==
    /\ call[c].next = "logout"
    /\ sessions' = Revoked({call[c].session})
    /\ Reply(c)
    /\ UNCHANGED <<now, user, failures, handoffs, observed>>

\* UpdateOwnProfile: the row is read and the current password verified.  The
\* hash that will be written is the new password's or the one just read.
ReadProfile(c, change, new) ==
    /\ call[c].next = "profile"
    /\ Hold(c, [call[c] EXCEPT !.next = "commit", !.change = change,
                   !.password = IF change = "password" THEN new ELSE user.password])
    /\ UNCHANGED <<now, user, failures, sessions, handoffs, delivered>>

\* Mutant: the other sessions stay when only the password changes.
SignsOutRename(change) == change = "username"

SignsOut(change) == change \in {"username", "password"}

\* Mutant: the hash that was read is written although there is a new password.
CommitProfileOldHash(c) ==
    LET q == call[c] IN
    /\ q.next = "commit"
    /\ sessions' = IF SignsOut(q.change) THEN Revoked(Session \ {q.session}) ELSE sessions
    /\ Observe(IF q.change = "password" THEN q.password ELSE wanted,
               [under EXCEPT ![q.session] = q.password])
    /\ Reply(c)
    /\ UNCHANGED <<now, user, failures, handoffs, delivered>>

\* The transaction: the row is written, hash included, and the user's other
\* sessions are revoked if the name or the password is new.
CommitProfile(c) ==
    LET q == call[c] IN
    /\ q.next = "commit"
    /\ user' = [user EXCEPT !.password = q.password]
    /\ sessions' = IF SignsOut(q.change) THEN Revoked(Session \ {q.session}) ELSE sessions
    /\ Observe(IF q.change = "password" THEN q.password ELSE wanted,
               [under EXCEPT ![q.session] = q.password])
    /\ Reply(c)
    /\ UNCHANGED <<now, failures, handoffs, delivered>>

\* The profile is refused: a wrong password, a new one that is too short, a
\* name that is taken.
ProfileRefused(c) ==
    /\ call[c].next \in {"profile", "commit"}
    /\ Reply(c)
    /\ UNCHANGED <<now, user, failures, sessions, handoffs, observed>>

-----------------------------------------------------------------------------
(* CreateAdminHandoff and RedeemAdminHandoff. *)

AuthoriseHandoff(c) ==
    /\ call[c].next = "handoff"
    /\ IF user.admin /\ user.enabled
       THEN call' = [call EXCEPT ![c].next = "purge", ![c].at = now] ELSE Reply(c)
    /\ UNCHANGED <<now, user, failures, sessions, handoffs, observed>>

\* DELETE FROM admin_handoffs WHERE expires_at<? OR redeemed_at IS NOT NULL
PurgeHandoffs(c) ==
    /\ call[c].next = "purge"
    /\ handoffs' = [h \in Handoff |->
           IF \/ handoffs[h].state = "redeemed"
              \/ handoffs[h].state = "open" /\ handoffs[h].expires < call[c].at - Keep
           THEN [state |-> "deleted", expires |-> 0] ELSE handoffs[h]]
    /\ Continue(c, "insert")
    /\ UNCHANGED <<now, user, failures, sessions, observed>>

InsertHandoff(c, h) ==
    /\ call[c].next = "insert"
    /\ handoffs[h].state = "none"
    /\ handoffs' = [handoffs EXCEPT ![h] = [state |-> "open",
                                            expires |-> call[c].at + HandoffTTL]]
    /\ Reply(c)
    /\ UNCHANGED <<now, user, failures, sessions, observed>>

\* Mutant: redeemed_at is not looked at.
RedeemableAgain(h) ==
    /\ handoffs[h].state \in {"open", "redeemed"}
    /\ now < handoffs[h].expires
    /\ user.admin /\ user.enabled

Redeemable(h) ==
    /\ handoffs[h].state = "open"
    /\ now < handoffs[h].expires
    /\ user.admin /\ user.enabled

\* The transaction: the handoff is used and a session opened.
RedeemAdminHandoff(c, h, s) ==
    /\ call[c] = Idle
    /\ Redeemable(h)
    /\ handoffs' = [handoffs EXCEPT ![h].state = "redeemed"]
    /\ OpenSession(s, now, user.password)
    /\ call' = [call EXCEPT ![c] = [Idle EXCEPT !.next = "reply", !.handoff = h]]
    /\ UNCHANGED <<now, user, failures, delivered>>

\* The cookie reaches the browser, or is lost with the reply.
Deliver(c) ==
    /\ call[c].next = "reply"
    /\ delivered' = [delivered EXCEPT ![call[c].handoff] = Append(@, User)]
    /\ Reply(c)
    /\ UNCHANGED <<now, user, failures, sessions, handoffs, wanted, under>>

LoseReply(c) ==
    /\ call[c].next = "reply"
    /\ Reply(c)
    /\ UNCHANGED <<now, user, failures, sessions, handoffs, observed>>

-----------------------------------------------------------------------------
(* adminUpdate of this user, by another administrator. *)

\* The first statement: the flags.
UpdateUser(c, admin, enabled) ==
    /\ call[c] = Idle
    /\ user' = [user EXCEPT !.admin = admin, !.enabled = enabled]
    /\ UNCHANGED <<now, failures, sessions, handoffs, call, observed>>

\* With a new password in the same request.
UpdateUserAndPassword(c, admin, enabled, password) ==
    /\ call[c] = Idle
    /\ user' = [user EXCEPT !.admin = admin, !.enabled = enabled]
    /\ Hold(c, [Idle EXCEPT !.next = "reset", !.password = password])
    /\ UNCHANGED <<now, failures, sessions, handoffs, delivered>>

\* The second statement: the password.  No session is revoked.
ResetPassword(c) ==
    /\ call[c].next = "reset"
    /\ user' = [user EXCEPT !.password = call[c].password]
    /\ Observe(call[c].password, [s \in Session |-> None])
    /\ Reply(c)
    /\ UNCHANGED <<now, failures, sessions, handoffs, delivered>>

\* HashPassword refuses the password: the flags stay changed.
ResetRefused(c) ==
    /\ call[c].next = "reset"
    /\ Reply(c)
    /\ UNCHANGED <<now, user, failures, sessions, handoffs, observed>>

-----------------------------------------------------------------------------
Next ==
    \/ Tick
    \/ \E c \in Call :
          \/ \E p \in Password : Login(c, p)
          \/ Verify(c) \/ RecordFailure(c) \/ \E s \in Session \cup {None} : InsertSession(c, s)
          \/ \E s \in Session, then \in {"served", "logout", "profile", "handoff"} :
                Request(c, s, then)
          \/ Touch(c) \/ Logout(c)
          \/ \E change \in Changes, p \in Password : ReadProfile(c, change, p)
          \/ CommitProfile(c) \/ ProfileRefused(c)
          \/ AuthoriseHandoff(c) \/ PurgeHandoffs(c)
          \/ \E h \in Handoff : InsertHandoff(c, h)
          \/ \E h \in Handoff, s \in Session \cup {None} : RedeemAdminHandoff(c, h, s)
          \/ Deliver(c) \/ LoseReply(c)
          \/ \E admin, enabled \in BOOLEAN :
                \/ UpdateUser(c, admin, enabled)
                \/ \E p \in Password : UpdateUserAndPassword(c, admin, enabled, p)
          \/ ResetPassword(c) \/ ResetRefused(c)

Spec == Init /\ [][Next]_vars

-----------------------------------------------------------------------------
(* Properties. *)

\* "Too many failed attempts. Try again later."  However the attempts overlap, no
\* window holds more failures than the limit, plus one for each request that
\* was being served (Authenticate counts, verifies and records in separate
\* statements).
FailuresBounded ==
    \A t \in 0..now : FailuresBetween(t - Window, t) < Limit + Cardinality(Call)

\* Types, and the limit on failed attempts (Authenticate).
AccountsInv ==
    /\ TypeOK
    /\ FailuresBounded

\* The password that was set last, by the user or by an administrator, is the
\* one that opens the account, as long as no two requests have held the account
\* at once: UpdateOwnProfile writes back the hash it has read, and undoes a
\* change that came in between.
PasswordAsSet == wanted # None => user.password = wanted

\* Unless two requests have held the account at once, a session that is open
\* was opened under the present password, or is the one that changed it, or has
\* outlived a reset by an administrator, which revokes nothing
\* (UpdateOwnProfile, Authenticate).
SignedOut ==
    \A s \in Session : sessions[s].state = "open" => under[s] \in {None, user.password}

Dead(s) ==
    \/ sessions[s].state = "revoked"
    \/ sessions[s].state = "open" /\ sessions[s].expires <= now

\* The requests that session s has admitted and that have yet to write its expiry.
Late(s) == {c \in Call : call[c].next = "touch" /\ call[c].session = s}

\* A session that was signed out stays signed out.  One that has run out admits
\* no request, and once the requests it admitted before are through it is dead
\* for good: their late writes, in any order, may shorten the expiry below the
\* clock and lengthen it again (Session reads the row and writes its expiry in
\* two statements).
DeadStaysDead ==
    [][\A s \in Session :
          /\ sessions[s].state = "revoked" => sessions'[s].state = "revoked"
          /\ Dead(s) => Late(s)' \subseteq Late(s) /\ (Late(s) = {} => Dead(s)')]_vars

\* Refinement mapping: the rows are the slots of one user.
Slots == [h \in Handoff |->
             IF handoffs[h].state = "none" THEN [state |-> "unissued", device |-> None]
             ELSE IF handoffs[h].state = "deleted" THEN [state |-> "revoked", device |-> None]
             ELSE [state |-> IF handoffs[h].state = "open" THEN "open" ELSE "used",
                   device |-> User]]

Outbox == {<<call[c].handoff, User>> : c \in {b \in Call : call[b].next = "reply"}}

Promise == INSTANCE SingleUse WITH
    Ticket <- Handoff, Device <- {User}, slot <- Slots, outbox <- Outbox

\* A handoff keeps the promise tickets keep: it opens one session, and its
\* cookie reaches one browser at most (RedeemAdminHandoff).
KeepsPromise == Promise!Spec
=============================================================================
