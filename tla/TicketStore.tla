---------------------------- MODULE TicketStore ----------------------------
(***************************************************************************)
(* The controller's launch tickets (controller/internal/app/store.go) with *)
(* the HTTP handlers that use them (controller/internal/web/server.go).    *)
(*                                                                         *)
(* The database has one connection (SetMaxOpenConns(1)), so a statement,   *)
(* and a transaction from BeginTx to Commit, is one atomic step; a handler *)
(* that makes several statements without a transaction can be interleaved  *)
(* with every other request between any two of them.  Each request under   *)
(* way is a record that says which statement comes next and what the       *)
(* handler has read so far.  Administration is here with what it does to   *)
(* users, devices, connections, permissions, groups and policies; the      *)
(* agent with the events it reports for a manifest it received.            *)
(***************************************************************************)
EXTENDS Naturals, Sequences, FiniteSets

CONSTANTS
    User, Group, Connection, Device,
    Ticket,    \* ids (and tokens) of the rows of launch_tickets
    Request,   \* HTTP requests the controller serves at the same time
    Admin,     \* administration in this instance: a subset of AllAdmin
    TicketTTL, \* life of a ticket in clock ticks
    Horizon,   \* last clock tick: bounds the instance
    None

AllAdmin == {"users", "devices", "connections", "permissions", "groups",
             "policies"}

ASSUME StoreAssumption ==
    /\ None \notin User \cup Group \cup Connection \cup Device \cup Ticket
    /\ Request \cap Ticket = {}
    /\ Group \cap (User \cup Connection) = {}   \* ids of tables, kept apart
    /\ Admin \subseteq AllAdmin
    /\ TicketTTL \in Nat \ {0}
    /\ Horizon \in Nat

VARIABLES
    now,         \* the controller's clock
    users,       \* enabled users
    devices,     \* enabled devices
    connections, \* enabled connections
    deleted,     \* connections and groups that have been deleted
    permission,  \* user_ and group_connection_permissions with can_launch
    member,      \* user_groups
    policy,      \* user_policies, reduced to what a ticket takes from it
    tickets,     \* launch_tickets
    usage,       \* session_usage, one row per ticket
    request,     \* the requests under way
    delivered,   \* devices that received the manifest of each ticket
    agent,       \* how far the agent is with the session of each ticket
    events,      \* session events on the wire
    outdated     \* an observation: launches, and tickets, that took up a policy
                 \* which has changed since without the change reaching them

aclVars    == <<users, devices, connections, deleted, permission, member, policy>>
agentVars  == <<delivered, agent, events>>
vars == <<now, users, devices, connections, deleted, permission, member,
          policy, tickets, usage, request, delivered, agent, events, outdated>>

-----------------------------------------------------------------------------
\* "shut" admits no launch (allowed_days_mask = 0, outside the window, or
\* nothing left of the allowance); "capped" limits the session's length.
Policies == {"open", "capped", "shut"}

\* A row of launch_tickets; deleted rows keep nothing but their id, which
\* AUTOINCREMENT does not hand out again.
Row == [state: {"open", "redeemed"}, user: User, device: Device,
        connection: Connection, expires: Nat, policy: Policies]
           \cup [state: {"unissued", "deleted"}, user: {None}, device: {None},
                 connection: {None}, expires: {0}, policy: {None}]

NoRow(state) == [state |-> state, user |-> None, device |-> None,
                 connection |-> None, expires |-> 0, policy |-> None]

EndEvents == {"session_exited", "session_failed"}
Events == {"session_started"} \cup EndEvents

\* A request and the next statement of its handler.
Call == [next: {"idle", "CanLaunch", "PolicyStatus", "device", "insert", "redeem",
                "reply", "ticket", "start", "started_at", "end", "purge"},
         user: User \cup {None}, device: Device \cup {None},
         connection: Connection \cup {None}, ticket: Ticket \cup {None},
         policy: Policies \cup {None}, event: Events \cup {None}]

Idle == [next |-> "idle", user |-> None, device |-> None, connection |-> None,
         ticket |-> None, policy |-> None, event |-> None]

TypeOK ==
    /\ now \in 0..Horizon
    /\ users \subseteq User
    /\ devices \subseteq Device
    /\ connections \subseteq Connection
    /\ deleted \subseteq Connection \cup Group
    /\ permission \subseteq (User \cup Group) \X Connection
    /\ member \subseteq User \X Group
    /\ policy \in [User -> Policies]
    /\ tickets \in [Ticket -> Row]
    /\ usage \in [Ticket -> {"none", "open", "closed"}]
    /\ request \in [Request -> Call]
    /\ delivered \in [Ticket -> Seq(Device)]
    /\ agent \in [Ticket -> {"none", "ready", "started", "over"}]
    /\ events \subseteq Ticket \X Events
    /\ outdated \subseteq Request \cup Ticket

\* A kiosk in use: everybody enabled, every user assigned in person or through
\* a group, no ticket yet.
Init ==
    /\ now = 0
    /\ users = User
    /\ devices = Device
    /\ connections = Connection
    /\ deleted = {}
    /\ permission \in {User \X Connection, Group \X Connection}
    /\ member = User \X Group
    /\ policy = [u \in User |-> "open"]
    /\ tickets = [t \in Ticket |-> NoRow("unissued")]
    /\ usage = [t \in Ticket |-> "none"]
    /\ request = [r \in Request |-> Idle]
    /\ delivered = [t \in Ticket |-> <<>>]
    /\ agent = [t \in Ticket |-> "none"]
    /\ events = {}
    /\ outdated = {}

\* Time passes; s.Now() is read where a handler reads it.
Tick ==
    /\ now < Horizon
    /\ now' = now + 1
    /\ UNCHANGED <<aclVars, tickets, usage, request, agentVars, outdated>>

-----------------------------------------------------------------------------
(* Shared by the handlers. *)

\* The user is assigned the connection in person or through a group.
Assigned(u, c) ==
    \/ <<u, c>> \in permission
    \/ \E g \in Group : <<u, g>> \in member /\ <<g, c>> \in permission

\* CanLaunch: one query over connections, permissions and groups.
CanLaunch(u, c) == c \in connections /\ Assigned(u, c)

\* The handler goes on to its next statement, or replies.
Continue(r, next) == request' = [request EXCEPT ![r].next = next]
Reply(r) == request' = [request EXCEPT ![r] = Idle]

\* A handler's check: one query, then the next statement or a refusal.
Check(r, at, passed, next) ==
    /\ request[r].next = at
    /\ IF passed THEN Continue(r, next) ELSE Reply(r)
    /\ UNCHANGED <<now, aclVars, tickets, usage, agentVars, outdated>>

-----------------------------------------------------------------------------
(* POST /connections/{id}/launch: CreateLaunchTicket, statement by statement. *)

\* withSession finds a valid login session of an enabled user.
Launch(r, u, c, d) ==
    /\ request[r] = Idle
    /\ u \in users
    /\ request' = [request EXCEPT ![r] = [Idle EXCEPT !.next = "CanLaunch", !.user = u,
                                                      !.device = d, !.connection = c]]
    /\ UNCHANGED <<now, aclVars, tickets, usage, agentVars, outdated>>

CheckCanLaunch(r) ==
    Check(r, "CanLaunch", CanLaunch(request[r].user, request[r].connection), "PolicyStatus")

\* PolicyStatus reads user_policies, then session_usage (which is abstracted
\* into the policy); the ticket keeps the limit computed here.
CheckPolicyStatus(r) ==
    LET p == policy[request[r].user] IN
    /\ request[r].next = "PolicyStatus"
    /\ request' = [request EXCEPT ![r] =
           IF p = "shut" THEN Idle ELSE [@ EXCEPT !.next = "device", !.policy = p]]
    /\ outdated' = outdated \ {r}
    /\ UNCHANGED <<now, aclVars, tickets, usage, agentVars>>

CheckDevice(r) == Check(r, "device", request[r].device \in devices, "insert")

\* The INSERT; a foreign key refuses it when the connection is gone.
InsertTicket(r, t) ==
    LET q == request[r] IN
    /\ q.next = "insert"
    /\ tickets[t].state = "unissued"
    /\ tickets' = IF q.connection \in deleted THEN tickets
                  ELSE [tickets EXCEPT ![t] =
                           [state |-> "open", user |-> q.user, device |-> q.device,
                            connection |-> q.connection, expires |-> now + TicketTTL,
                            policy |-> q.policy]]
    /\ Reply(r)
    /\ outdated' = (outdated \ {r, t}) \cup (IF r \in outdated THEN {t} ELSE {})
    /\ UNCHANGED <<now, aclVars, usage, agentVars>>

-----------------------------------------------------------------------------
(* POST /agent/redeem-launch. *)

\* withDevice: DeviceByToken finds an enabled device.  The token is one that
\* has been handed out; any device may present it.
Redeem(r, t, d) ==
    /\ request[r] = Idle
    /\ tickets[t].state # "unissued"
    /\ d \in devices
    /\ request' = [request EXCEPT ![r] = [Idle EXCEPT !.next = "redeem", !.ticket = t,
                                                      !.device = d]]
    /\ UNCHANGED <<now, aclVars, tickets, usage, agentVars, outdated>>

\* Mutant: the query forgets t.device_id=?.
RedeemableAnywhere(t, d) ==
    /\ tickets[t].state = "open" /\ d \in Device
    /\ tickets[t].connection \in connections
    /\ now < tickets[t].expires
    /\ Assigned(tickets[t].user, tickets[t].connection)

\* What the transaction of RedeemLaunchTicket asks of the ticket.
Redeemable(t, d) ==
    /\ tickets[t].state = "open"
    /\ tickets[t].device = d
    /\ tickets[t].connection \in connections
    /\ now < tickets[t].expires
    /\ Assigned(tickets[t].user, tickets[t].connection)

\* RedeemLaunchTicket: the transaction commits.
RedeemLaunchTicket(r) ==
    LET t == request[r].ticket IN
    /\ request[r].next = "redeem"
    /\ Redeemable(t, request[r].device)
    /\ tickets' = [tickets EXCEPT ![t].state = "redeemed"]
    /\ Continue(r, "reply")
    /\ outdated' = outdated \ {t}
    /\ UNCHANGED <<now, aclVars, usage, agentVars>>

\* The ticket is refused, or the transaction rolls back: the vault cannot
\* decrypt, the request's context ends, the commit fails.
RedeemRefused(r) ==
    /\ request[r].next = "redeem"
    /\ Reply(r)
    /\ UNCHANGED <<now, aclVars, tickets, usage, agentVars, outdated>>

\* The manifest reaches the agent, whose session starts with it.
Deliver(r) ==
    LET t == request[r].ticket IN
    /\ request[r].next = "reply"
    /\ delivered' = [delivered EXCEPT ![t] = Append(@, request[r].device)]
    /\ agent' = [agent EXCEPT ![t] = "ready"]
    /\ Reply(r)
    /\ UNCHANGED <<now, aclVars, tickets, usage, events, outdated>>

\* The reply is lost; the agent does not ask again.
LoseReply(r) ==
    /\ request[r].next = "reply"
    /\ Reply(r)
    /\ UNCHANGED <<now, aclVars, tickets, usage, agentVars, outdated>>

-----------------------------------------------------------------------------
(* POST /agent/session-event. *)

\* The agent reports the start of the session.  Nobody retries a report.
SendStarted(t) ==
    /\ agent[t] = "ready"
    /\ agent' = [agent EXCEPT ![t] = "started"]
    /\ events' = events \cup {<<t, "session_started">>}
    /\ UNCHANGED <<now, aclVars, tickets, usage, request, delivered, outdated>>

\* The agent reports the end: a failure instead of a start, or the exit, with
\* or without a start before it.
SendEnded(t, e) ==
    /\ \/ agent[t] = "ready"
       \/ agent[t] = "started" /\ e = "session_exited"
    /\ agent' = [agent EXCEPT ![t] = "over"]
    /\ events' = events \cup {<<t, e>>}
    /\ UNCHANGED <<now, aclVars, tickets, usage, request, delivered, outdated>>

\* The report is lost, or withDevice refuses a device that has been disabled.
LoseEvent(t, e) ==
    /\ <<t, e>> \in events
    /\ events' = events \ {<<t, e>>}
    /\ UNCHANGED <<now, aclVars, tickets, usage, request, delivered, agent, outdated>>

ReceiveEvent(r, t, e) ==
    LET d == Head(delivered[t]) IN
    /\ request[r] = Idle
    /\ <<t, e>> \in events
    /\ d \in devices
    /\ events' = events \ {<<t, e>>}
    /\ request' = [request EXCEPT ![r] = [Idle EXCEPT !.next = "ticket", !.ticket = t,
                                                      !.device = d, !.event = e]]
    /\ UNCHANGED <<now, aclVars, tickets, usage, delivered, agent, outdated>>

\* SessionEvent: the ticket must be this device's and redeemed.
CheckTicket(r) ==
    LET q == request[r] IN
    Check(r, "ticket",
          tickets[q.ticket].state = "redeemed" /\ tickets[q.ticket].device = q.device,
          IF q.event = "session_started" THEN "start" ELSE "started_at")

\* Mutant: no foreign key from session_usage to launch_tickets.
OpenUsageUnchecked(r) ==
    LET t == request[r].ticket IN
    /\ request[r].next = "start"
    /\ usage' = IF usage[t] = "none" THEN [usage EXCEPT ![t] = "open"] ELSE usage
    /\ Reply(r)
    /\ UNCHANGED <<now, aclVars, tickets, agentVars, outdated>>

\* INSERT ... ON CONFLICT DO NOTHING; the foreign key refuses a ticket that
\* has been deleted since the check, and the error is dropped.
OpenUsage(r) ==
    LET t == request[r].ticket IN
    /\ request[r].next = "start"
    /\ usage' = IF usage[t] = "none" /\ tickets[t].state # "deleted"
                THEN [usage EXCEPT ![t] = "open"] ELSE usage
    /\ Reply(r)
    /\ UNCHANGED <<now, aclVars, tickets, agentVars, outdated>>

FindUsage(r) == Check(r, "started_at", usage[request[r].ticket] # "none", "end")

\* UPDATE ... WHERE ended_at IS NULL.
CloseUsage(r) ==
    LET t == request[r].ticket IN
    /\ request[r].next = "end"
    /\ usage' = IF usage[t] = "open" THEN [usage EXCEPT ![t] = "closed"] ELSE usage
    /\ Reply(r)
    /\ UNCHANGED <<now, aclVars, tickets, agentVars, outdated>>

-----------------------------------------------------------------------------
(* Administration. *)

\* Mutant: without AUTOINCREMENT an id that was deleted is handed out again.
DeleteTicketsReusesIds(T) ==
    /\ tickets' = [t \in Ticket |-> IF t \in T THEN NoRow("unissued") ELSE tickets[t]]
    /\ usage' = [t \in Ticket |-> IF t \in T THEN "none" ELSE usage[t]]
    /\ outdated' = outdated \ T

\* ON DELETE CASCADE from launch_tickets to session_usage.
DeleteTickets(T) ==
    /\ tickets' = [t \in Ticket |-> IF t \in T THEN NoRow("deleted") ELSE tickets[t]]
    /\ usage' = [t \in Ticket |-> IF t \in T THEN "none" ELSE usage[t]]
    /\ outdated' = outdated \ T

\* Flips x in or out of a set of enabled rows.
Flip(S, x) == IF x \in S THEN S \ {x} ELSE S \cup {x}

UpdateUser(u) ==
    /\ "users" \in Admin
    /\ users' = Flip(users, u)
    /\ UNCHANGED <<now, devices, connections, deleted, permission, member, policy,
                   tickets, usage, request, agentVars, outdated>>

UpdateDevice(d) ==
    /\ "devices" \in Admin
    /\ devices' = Flip(devices, d)
    /\ UNCHANGED <<now, users, connections, deleted, permission, member, policy,
                   tickets, usage, request, agentVars, outdated>>

UpdateConnection(c) ==
    /\ "connections" \in Admin
    /\ c \notin deleted
    /\ connections' = Flip(connections, c)
    /\ UNCHANGED <<now, users, devices, deleted, permission, member, policy,
                   tickets, usage, request, agentVars, outdated>>

\* The cascade takes the permissions, the tickets and their usage along.
DeleteConnection(c) ==
    /\ "connections" \in Admin
    /\ c \notin deleted
    /\ deleted' = deleted \cup {c}
    /\ connections' = connections \ {c}
    /\ permission' = {p \in permission : p[2] # c}
    /\ DeleteTickets({t \in Ticket : tickets[t].connection = c})
    /\ UNCHANGED <<now, users, devices, member, policy, request, agentVars>>

\* Grants or withdraws a connection for a user or a group.
UpdatePermission(s, c) ==
    /\ "permissions" \in Admin
    /\ {s, c} \cap deleted = {}
    /\ permission' = Flip(permission, <<s, c>>)
    /\ UNCHANGED <<now, users, devices, connections, deleted, member, policy,
                   tickets, usage, request, agentVars, outdated>>

UpdateMembership(u, g) ==
    /\ "groups" \in Admin
    /\ g \notin deleted
    /\ member' = Flip(member, <<u, g>>)
    /\ UNCHANGED <<now, users, devices, connections, deleted, permission, policy,
                   tickets, usage, request, agentVars, outdated>>

DeleteGroup(g) ==
    /\ "groups" \in Admin
    /\ g \notin deleted
    /\ deleted' = deleted \cup {g}
    /\ member' = {m \in member : m[2] # g}
    /\ permission' = {p \in permission : p[1] # g}
    /\ UNCHANGED <<now, users, devices, connections, policy, tickets, usage,
                   request, agentVars, outdated>>

\* The launches of u that have read the policy and not yet inserted a ticket.
Deciding(u) ==
    {r \in Request : request[r].next \in {"device", "insert"} /\ request[r].user = u}

\* PUT policies/{id}: the first statement writes the policy.
UpdatePolicy(r, u, p) ==
    /\ "policies" \in Admin
    /\ request[r] = Idle
    /\ policy' = [policy EXCEPT ![u] = p]
    /\ request' = [request EXCEPT ![r] = [Idle EXCEPT !.next = "purge", !.user = u]]
    /\ outdated' = outdated \cup Deciding(u)
    /\ UNCHANGED <<now, users, devices, connections, deleted, permission, member,
                   tickets, usage, agentVars>>

\* What the user of request r could still redeem.
Unredeemed(r) ==
    {t \in Ticket : tickets[t].state = "open" /\ tickets[t].user = request[r].user}

\* Mutant: of the tickets, only those that have been redeemed are deleted.
PurgeRedeemed(r) ==
    /\ request[r].next = "purge"
    /\ DeleteTickets({t \in Ticket : /\ tickets[t].state = "redeemed"
                                     /\ tickets[t].user = request[r].user})
    /\ Reply(r)
    /\ UNCHANGED <<now, aclVars, agentVars>>

\* The second deletes the user's tickets that are not redeemed.
PurgeTickets(r) ==
    /\ request[r].next = "purge"
    /\ DeleteTickets(Unredeemed(r))
    /\ Reply(r)
    /\ UNCHANGED <<now, aclVars, agentVars>>

\* The second statement fails (the request's context has ended); its error is
\* dropped.
PurgeFails(r) ==
    /\ request[r].next = "purge"
    /\ Reply(r)
    /\ outdated' = outdated \cup Unredeemed(r)
    /\ UNCHANGED <<now, aclVars, tickets, usage, agentVars>>

-----------------------------------------------------------------------------
\* A request under way does its next statement.
Handle(r) ==
    \/ CheckCanLaunch(r) \/ CheckPolicyStatus(r) \/ CheckDevice(r)
    \/ \E t \in Ticket : InsertTicket(r, t)
    \/ RedeemLaunchTicket(r) \/ RedeemRefused(r) \/ Deliver(r) \/ LoseReply(r)
    \/ CheckTicket(r) \/ OpenUsage(r) \/ FindUsage(r) \/ CloseUsage(r)
    \/ PurgeTickets(r) \/ PurgeFails(r)

\* A request arrives.
Arrive(r) ==
    \/ \E u \in User, c \in Connection, d \in Device : Launch(r, u, c, d)
    \/ \E t \in Ticket, d \in Device : Redeem(r, t, d)
    \/ \E t \in Ticket, e \in Events : ReceiveEvent(r, t, e)
    \/ \E u \in User, p \in Policies : UpdatePolicy(r, u, p)

\* Administration that is one statement.
Administer ==
    \/ \E u \in User : UpdateUser(u)
    \/ \E d \in Device : UpdateDevice(d)
    \/ \E c \in Connection : UpdateConnection(c) \/ DeleteConnection(c)
    \/ \E s \in User \cup Group, c \in Connection : UpdatePermission(s, c)
    \/ \E g \in Group : DeleteGroup(g) \/ \E u \in User : UpdateMembership(u, g)

Next ==
    \/ Tick
    \/ \E r \in Request : Arrive(r) \/ Handle(r)
    \/ \E t \in Ticket :
          \/ SendStarted(t)
          \/ \E e \in EndEvents : SendEnded(t, e)
          \/ \E e \in Events : LoseEvent(t, e)
    \/ Administer

Spec == Init /\ [][Next]_vars

-----------------------------------------------------------------------------
(* Properties. *)

\* Refinement mapping: the rows of launch_tickets are the slots, and a handler
\* about to reply holds a manifest that is on its way.
Slots == [t \in Ticket |->
             [state |-> CASE tickets[t].state = "redeemed" -> "used"
                          [] tickets[t].state = "deleted" -> "revoked"
                          [] OTHER -> tickets[t].state,
              device |-> tickets[t].device]]

Outbox == {<<request[r].ticket, request[r].device>> :
              r \in {q \in Request : request[q].next = "reply"}}

Promise == INSTANCE SingleUse WITH slot <- Slots, outbox <- Outbox

\* docs/architecture.md: tickets are "device-bound, single-use".  Whatever the
\* requests, replies and administrators do, the store keeps the promise of
\* SingleUse (RedeemLaunchTicket).
KeepsPromise == Promise!Spec

\* A manifest, and the credentials in it, is received at most once, also when
\* its ticket is presented again after a lost reply or deleted meanwhile.
DeliveredOnce == \A t \in Ticket : Len(delivered[t]) <= 1

\* No ticket outlives its connection and no usage row its ticket, although
\* handlers check and write in separate statements (the foreign keys of
\* launch_tickets and session_usage); usage is recorded only for a session
\* whose manifest was received, and is closed only when it has ended.
RowsIntact ==
    \A t \in Ticket :
        /\ tickets[t].state \in {"open", "redeemed"} => tickets[t].connection \notin deleted
        /\ usage[t] # "none" => /\ tickets[t].state = "redeemed"
                               /\ delivered[t] = <<tickets[t].device>>
                               /\ agent[t] \in {"started", "over"}
        /\ usage[t] = "closed" => agent[t] = "over"

\* A change of policy reaches every ticket that can still be used: it was computed
\* from the user's present policy, or the handler of the change has yet to delete
\* it.  What escapes is a launch that read the policy before the change and
\* inserts its ticket after, and a delete that fails (adminUpdate of policies is
\* two statements, CreateLaunchTicket is four).
TicketsFollowPolicy ==
    \A t \in Ticket \ outdated : tickets[t].state = "open" =>
        \/ tickets[t].policy = policy[tickets[t].user]
        \/ \E r \in Request : request[r].next = "purge" /\ t \in Unredeemed(r)

-----------------------------------------------------------------------------
(* The inductive invariant behind the promise. *)

\* A handler has read what its next statement needs.
HandlersReady ==
    \A r \in Request :
        LET q == request[r] IN
        /\ q.next \in {"CanLaunch", "PolicyStatus", "device", "insert"} =>
              q.user \in User /\ q.connection \in Connection /\ q.device \in Device
        /\ q.next \in {"device", "insert"} => q.policy \in Policies
        /\ q.next \in {"redeem", "reply", "ticket", "start", "started_at", "end"} =>
              q.ticket \in Ticket /\ q.device \in Device

\* A manifest about to be sent belongs to a ticket that is used up and whose
\* manifest nobody has received, and no two handlers hold the same.
ManifestsPending ==
    /\ \A r \in Request : request[r].next = "reply" =>
          /\ tickets[request[r].ticket].state \in {"redeemed", "deleted"}
          /\ delivered[request[r].ticket] = <<>>
    /\ \A r, q \in Request :
          /\ request[r].next = "reply" /\ request[q].next = "reply"
          /\ request[r].ticket = request[q].ticket
          => r = q

\* A manifest that was received belongs to a ticket that is used up.
ManifestsReceived ==
    \A t \in Ticket :
        delivered[t] # <<>> => tickets[t].state \in {"redeemed", "deleted"}

\* Inductive: with TypeOK it holds initially and every step preserves it.
TicketInv ==
    /\ HandlersReady
    /\ ManifestsPending
    /\ ManifestsReceived
    /\ DeliveredOnce

-----------------------------------------------------------------------------
(* What a document says of the store and the code does not do; a run of its
   own refutes it. *)

\* docs/hardware-validation.md: "disabled launcher account denied immediately".
DisabledUserDenied ==
    [][\A t \in Ticket :
          tickets[t].state = "open" /\ tickets'[t].state = "redeemed"
              => tickets[t].user \in users]_vars
=============================================================================
