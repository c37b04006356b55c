---------------------------- MODULE Maintenance ----------------------------
(***************************************************************************)
(* Local maintenance: an administrator's one-time ticket                   *)
(* (CreateMaintenanceTicket, RedeemMaintenanceTicket), the agent's broker  *)
(* that redeems it and has systemd open a shell on the device's console    *)
(* (agent/internal/maintenance), and the gate in the local socket server   *)
(* that keeps it apart from remote sessions.                               *)
(*                                                                         *)
(* A call is one "maintenance" request of a launcher, served by a          *)
(* goroutine of its own; its redemption is an HTTP request that the        *)
(* controller may still serve when the agent has stopped waiting for it.   *)
(* The unit is the systemd unit of the shell: a start job is only queued   *)
(* by "systemctl start --no-block".                                        *)
(***************************************************************************)
EXTENDS Naturals, Sequences, FiniteSets

CONSTANTS
    Device,
    Administrator, \* users who are, or were, administrators
    Ticket,        \* ids (and tokens) of the rows of maintenance_tickets
    Call,          \* maintenance requests served at the same time
    TicketTTL,     \* life of a ticket in clock ticks
    Horizon,       \* last clock tick: bounds the instance
    MaxSessions,   \* remote sessions ever launched: bounds the instance
    Revocable,     \* devices that may be disabled: bounds the instance
    None

ASSUME MaintenanceAssumption ==
    /\ None \notin Device \cup Administrator \cup Ticket
    /\ TicketTTL \in Nat \ {0}
    /\ Horizon \in Nat
    /\ MaxSessions \in Nat
    /\ Revocable \subseteq Device

VARIABLES
    now,       \* the controller's clock
    admins,    \* users that are enabled and administrators
    devices,   \* enabled devices
    tickets,   \* maintenance_tickets
    call,      \* the calls of Broker.Open
    request,   \* how far the controller is with each call's redemption
    active,    \* Broker.active of each device's agent
    monitor,   \* the goroutine that polls the unit is running
    unit,      \* thinpi-maintenance@.service of each device
    sessions,  \* Manager.sessions of each device
    launched,  \* number of sessions launched so far, which are their ids
    delivered, \* observed: devices that were told a ticket is accepted
    shells     \* observed: devices that asked for a shell with a ticket

vars == <<now, admins, devices, tickets, call, request, active, monitor, unit,
          sessions, launched, delivered, shells>>
controllerVars == <<now, admins, devices, tickets>>
sessionVars == <<sessions, launched>>

-----------------------------------------------------------------------------
Row == [state: {"open", "redeemed"}, user: Administrator, device: Device, expires: Nat]
           \cup [state: {"authorised"}, user: Administrator, device: Device, expires: {0}]
           \cup {[state |-> "unissued", user |-> None, device |-> None, expires |-> 0]}

\* The next step of a call; "left" has answered its launcher while the
\* controller still has its request.
Steps == {"HasSessions", "lock", "redeem", "start", "state", "left"}

Idle == [next |-> "idle", ticket |-> None, device |-> None, before |-> {}]

Calls == {Idle} \cup [next: Steps, ticket: Ticket, device: Device,
                      before: SUBSET (1..MaxSessions)]

TypeOK ==
    /\ now \in 0..Horizon
    /\ admins \subseteq Administrator
    /\ devices \subseteq Device
    /\ tickets \in [Ticket -> Row]
    /\ call \in [Call -> Calls]
    /\ request \in [Call -> {"none", "device", "redeem", "granted", "refused"}]
    /\ active \in [Device -> BOOLEAN]
    /\ monitor \in [Device -> BOOLEAN]
    /\ unit \in [Device -> {"down", "queued", "up"}]
    /\ sessions \in [Device -> SUBSET (1..MaxSessions)]
    /\ launched \in 0..MaxSessions
    /\ delivered \in [Ticket -> Seq(Device)]
    /\ shells \in [Ticket -> Seq(Device)]

Init ==
    /\ now = 0
    /\ admins = Administrator
    /\ devices = Device
    /\ tickets = [t \in Ticket |-> [state |-> "unissued", user |-> None,
                                    device |-> None, expires |-> 0]]
    /\ call = [c \in Call |-> Idle]
    /\ request = [c \in Call |-> "none"]
    /\ active = [d \in Device |-> FALSE]
    /\ monitor = [d \in Device |-> FALSE]
    /\ unit = [d \in Device |-> "down"]
    /\ sessions = [d \in Device |-> {}]
    /\ launched = 0
    /\ delivered = [t \in Ticket |-> <<>>]
    /\ shells = [t \in Ticket |-> <<>>]

-----------------------------------------------------------------------------
(* The controller. *)

Tick ==
    /\ now < Horizon
    /\ now' = now + 1
    /\ UNCHANGED <<admins, devices, tickets, call, request, active, monitor, unit,
                   sessionVars, delivered, shells>>

\* An administrator is disabled or demoted, or restored.
UpdateUser(u) ==
    /\ admins' = IF u \in admins THEN admins \ {u} ELSE admins \cup {u}
    /\ UNCHANGED <<now, devices, tickets, call, request, active, monitor, unit,
                   sessionVars, delivered, shells>>

UpdateDevice(d) ==
    /\ devices' = IF d \in devices THEN devices \ {d} ELSE devices \cup {d}
    /\ UNCHANGED <<now, admins, tickets, call, request, active, monitor, unit,
                   sessionVars, delivered, shells>>

\* CreateMaintenanceTicket: the query over devices and users ...
Authorise(t, u, d) ==
    /\ tickets[t].state = "unissued"
    /\ u \in admins /\ d \in devices
    /\ tickets' = [tickets EXCEPT ![t] = [state |-> "authorised", user |-> u,
                                          device |-> d, expires |-> 0]]
    /\ UNCHANGED <<now, admins, devices, call, request, active, monitor, unit,
                   sessionVars, delivered, shells>>

\* ... and the INSERT, which no change since the query stops.
InsertTicket(t) ==
    /\ tickets[t].state = "authorised"
    /\ tickets' = [tickets EXCEPT ![t].state = "open", ![t].expires = now + TicketTTL]
    /\ UNCHANGED <<now, admins, devices, call, request, active, monitor, unit,
                   sessionVars, delivered, shells>>

\* The handler goes on with the request of call c.
Serve(c, next) ==
    /\ request' = [request EXCEPT ![c] = next]
    /\ UNCHANGED <<now, admins, devices, call, active, monitor, unit, sessionVars,
                   delivered, shells>>

\* withDevice: DeviceByToken finds the device if it is enabled.
CheckDevice(c) ==
    /\ request[c] = "device"
    /\ Serve(c, IF call[c].device \in devices THEN "redeem" ELSE "refused")
    /\ UNCHANGED tickets

\* Mutant: the query does not ask for redeemed_at.
RedeemableAgain(t, d) ==
    /\ tickets[t].state \in {"open", "redeemed"}
    /\ tickets[t].device = d
    /\ tickets[t].user \in admins
    /\ now < tickets[t].expires

\* What the transaction asks: the ticket's device, an enabled administrator
\* still, not redeemed, not expired.
Redeemable(t, d) ==
    /\ tickets[t].state = "open"
    /\ tickets[t].device = d
    /\ tickets[t].user \in admins
    /\ now < tickets[t].expires

RedeemMaintenanceTicket(c) ==
    LET t == call[c].ticket IN
    /\ request[c] = "redeem"
    /\ Redeemable(t, call[c].device)
    /\ tickets' = [tickets EXCEPT ![t].state = "redeemed"]
    /\ Serve(c, "granted")

\* The ticket is refused, or the transaction ends with an error.
RedeemRefused(c) ==
    /\ request[c] = "redeem"
    /\ Serve(c, "refused")
    /\ UNCHANGED tickets

-----------------------------------------------------------------------------
(* The agent: the gate of localapi.Server.handle, then Broker.Open. *)

\* Call c answers its launcher.
Return(c) == call' = [call EXCEPT ![c] = Idle]
\* Call c is over on the agent; the controller may still have its request.
Left(c) == IF request[c] = "none" THEN Idle ELSE [call[c] EXCEPT !.next = "left"]
Goto(c, next) == call' = [call EXCEPT ![c].next = next]

SetInactive(d) == active' = [active EXCEPT ![d] = FALSE]

\* A launcher asks for maintenance; any device may be given any ticket.
Accept(c, t, d) ==
    /\ call[c] = Idle
    /\ tickets[t].state \in {"open", "redeemed"}
    /\ call' = [call EXCEPT ![c] = [next |-> "HasSessions", ticket |-> t, device |-> d,
                                    before |-> sessions[d]]]
    /\ UNCHANGED <<controllerVars, request, active, monitor, unit, sessionVars,
                   delivered, shells>>

\* Mutant: remote sessions are not asked for.
GateOpen(c) ==
    /\ call[c].next = "HasSessions"
    /\ Goto(c, "lock")
    /\ UNCHANGED <<controllerVars, request, active, monitor, unit, sessionVars,
                   delivered, shells>>

\* if s.Manager.HasSessions() { ... return }
HasSessions(c) ==
    /\ call[c].next = "HasSessions"
    /\ IF sessions[call[c].device] = {}
       THEN Goto(c, "lock") ELSE Return(c)
    /\ UNCHANGED <<controllerVars, request, active, monitor, unit, sessionVars,
                   delivered, shells>>

\* Mutant: Open does not look at active.
LockUnchecked(c) ==
    LET d == call[c].device IN
    /\ call[c].next = "lock"
    /\ active' = [active EXCEPT ![d] = TRUE]
    /\ Goto(c, "redeem")
    /\ request' = [request EXCEPT ![c] = "device"]
    /\ UNCHANGED <<controllerVars, monitor, unit, sessionVars, delivered, shells>>

\* Under the broker's mutex; then the request is sent.
Lock(c) ==
    LET d == call[c].device IN
    /\ call[c].next = "lock"
    /\ IF active[d]
       THEN Return(c) /\ UNCHANGED <<active, request>>
       ELSE /\ active' = [active EXCEPT ![d] = TRUE]
            /\ Goto(c, "redeem")
            /\ request' = [request EXCEPT ![c] = "device"]
    /\ UNCHANGED <<controllerVars, monitor, unit, sessionVars, delivered, shells>>

\* The controller's 204 arrives.
Granted(c) ==
    LET t == call[c].ticket IN
    /\ call[c].next = "redeem" /\ request[c] = "granted"
    /\ request' = [request EXCEPT ![c] = "none"]
    /\ delivered' = [delivered EXCEPT ![t] = Append(@, call[c].device)]
    /\ Goto(c, "start")
    /\ UNCHANGED <<controllerVars, active, monitor, unit, sessionVars, shells>>

\* Mutant: the flag stays set when the ticket is refused.
RejectedKeepsFlag(c) ==
    /\ call[c].next = "redeem" /\ request[c] = "refused"
    /\ request' = [request EXCEPT ![c] = "none"]
    /\ Return(c)
    /\ UNCHANGED <<controllerVars, active, monitor, unit, sessionVars, delivered, shells>>

\* The controller's refusal arrives.
Rejected(c) ==
    /\ call[c].next = "redeem" /\ request[c] = "refused"
    /\ request' = [request EXCEPT ![c] = "none"]
    /\ SetInactive(call[c].device)
    /\ Return(c)
    /\ UNCHANGED <<controllerVars, monitor, unit, sessionVars, delivered, shells>>

\* Mutant: an error of the request is taken for its acceptance.
TimeoutAccepted(c) ==
    /\ call[c].next = "redeem"
    /\ Goto(c, "start")
    /\ request' = [request EXCEPT ![c] = "none"]
    /\ UNCHANGED <<controllerVars, active, monitor, unit, sessionVars, delivered, shells>>

\* The request fails on the way or its 20 seconds are over, wherever the
\* controller is with it.
Timeout(c) ==
    /\ call[c].next = "redeem"
    /\ SetInactive(call[c].device)
    /\ call' = [call EXCEPT ![c] = Left(c)]
    /\ UNCHANGED <<controllerVars, request, monitor, unit, sessionVars, delivered, shells>>

\* The controller's answer to a request nobody waits for, or its end.
Dropped(c) ==
    /\ call[c].next = "left"
    /\ request' = [request EXCEPT ![c] = "none"]
    /\ call' = [call EXCEPT ![c] = Idle]
    /\ UNCHANGED <<controllerVars, active, monitor, unit, sessionVars, delivered, shells>>

\* start: "systemctl start --no-block" queues a job for a unit that is down.
Start(c) ==
    LET d == call[c].device IN
    /\ call[c].next = "start"
    /\ unit' = [unit EXCEPT ![d] = IF @ = "down" THEN "queued" ELSE @]
    /\ shells' = [shells EXCEPT ![call[c].ticket] = Append(@, d)]
    /\ Goto(c, "state")
    /\ UNCHANGED <<controllerVars, request, active, monitor, sessionVars, delivered>>

\* There is no systemctl, or it fails.
StartFails(c) ==
    /\ call[c].next = "start"
    /\ SetInactive(call[c].device)
    /\ Return(c)
    /\ UNCHANGED <<controllerVars, request, monitor, unit, sessionVars, delivered, shells>>

\* After 500 ms the unit is seen activating or active: Open succeeds and leaves
\* the monitor behind.
Opened(c) ==
    LET d == call[c].device IN
    /\ call[c].next = "state"
    /\ unit[d] = "up"
    /\ monitor' = [monitor EXCEPT ![d] = TRUE]
    /\ Return(c)
    /\ UNCHANGED <<controllerVars, request, active, unit, sessionVars, delivered, shells>>

\* The unit is in another state or its state cannot be read; the job stays
\* queued, or the shell open, all the same.
NotOpened(c) ==
    /\ call[c].next = "state"
    /\ SetInactive(call[c].device)
    /\ Return(c)
    /\ UNCHANGED <<controllerVars, request, monitor, unit, sessionVars, delivered, shells>>

\* The monitor finds the unit down, or cannot read its state: done().
Done(d) ==
    /\ monitor[d]
    /\ monitor' = [monitor EXCEPT ![d] = FALSE]
    /\ SetInactive(d)
    /\ UNCHANGED <<controllerVars, call, request, unit, sessionVars, delivered, shells>>

-----------------------------------------------------------------------------
(* systemd, remote sessions and restarts. *)

\* The queued job runs: the shell opens, or the unit fails.
RunJob(d, state) ==
    /\ unit[d] = "queued"
    /\ unit' = [unit EXCEPT ![d] = state]
    /\ UNCHANGED <<controllerVars, call, request, active, monitor, sessionVars,
                   delivered, shells>>

\* The administrator leaves the shell.
Exit(d) ==
    /\ unit[d] = "up"
    /\ unit' = [unit EXCEPT ![d] = "down"]
    /\ UNCHANGED <<controllerVars, call, request, active, monitor, sessionVars,
                   delivered, shells>>

\* Manager.Launch admits a remote session; nothing there asks the broker.
LaunchSession(d) ==
    /\ launched < MaxSessions
    /\ launched' = launched + 1
    /\ sessions' = [sessions EXCEPT ![d] = @ \cup {launched'}]
    /\ UNCHANGED <<controllerVars, call, request, active, monitor, unit, delivered, shells>>

EndSession(d, s) ==
    /\ s \in sessions[d]
    /\ sessions' = [sessions EXCEPT ![d] = @ \ {s}]
    /\ UNCHANGED <<controllerVars, call, request, active, monitor, unit, launched,
                   delivered, shells>>

\* The agent stops and systemd starts it again: the sessions die with it, the
\* maintenance unit is a service of its own.
RestartAgent(d) ==
    /\ active' = [active EXCEPT ![d] = FALSE]
    /\ monitor' = [monitor EXCEPT ![d] = FALSE]
    /\ sessions' = [sessions EXCEPT ![d] = {}]
    /\ call' = [c \in Call |-> IF call[c].device = d THEN Left(c) ELSE call[c]]
    /\ UNCHANGED <<controllerVars, request, unit, launched, delivered, shells>>

-----------------------------------------------------------------------------
Controller ==
    \/ \E u \in Administrator : UpdateUser(u)
    \/ \E d \in Revocable : UpdateDevice(d)
    \/ \E t \in Ticket, u \in Administrator, d \in Device : Authorise(t, u, d)
    \/ \E t \in Ticket : InsertTicket(t)
    \/ \E c \in Call : CheckDevice(c) \/ RedeemMaintenanceTicket(c) \/ RedeemRefused(c)

\* What the agent does for a call it has accepted.
Open(c) ==
    \/ HasSessions(c) \/ Lock(c) \/ Granted(c) \/ Rejected(c) \/ Timeout(c)
    \/ Start(c) \/ StartFails(c) \/ Opened(c) \/ NotOpened(c)

Next ==
    \/ Tick
    \/ Controller
    \/ \E c \in Call : Open(c) \/ Dropped(c)
    \/ \E c \in Call, t \in Ticket, d \in Device : Accept(c, t, d)
    \/ \E d \in Device : Done(d) \/ Exit(d) \/ LaunchSession(d) \/ RestartAgent(d)
    \/ \E d \in Device, state \in {"up", "down"} : RunJob(d, state)
    \/ \E d \in Device, s \in 1..MaxSessions : EndSession(d, s)

\* The agent's goroutines run, its timeout fires, the ticker of the monitor
\* ticks.  Nothing is asked of the controller, of systemd or of people.
Fairness ==
    /\ \A c \in Call : WF_vars(Open(c))
    /\ \A d \in Device : WF_vars(Done(d) /\ unit[d] = "down")

Spec == Init /\ [][Next]_vars
FairSpec == Spec /\ Fairness

-----------------------------------------------------------------------------
(* Properties. *)

\* The calls that passed the lock of Broker.Open and have not returned.
Holds(c, d) == call[c].device = d /\ call[c].next \in {"redeem", "start", "state"}

\* Broker.active is set exactly while one Open is past its lock or one monitor
\* watches the shell it opened, and there is never a second one, whatever is
\* refused, times out, fails or restarts.
BrokerExclusive ==
    \A d \in Device :
        /\ active[d] <=> monitor[d] \/ \E c \in Call : Holds(c, d)
        /\ \A c \in Call : Holds(c, d) =>
              ~monitor[d] /\ \A e \in Call : Holds(e, d) => e = c

\* A call waits for the controller exactly while it has a request there, or has
\* left one behind.
RequestsOwned ==
    \A c \in Call : (request[c] # "none") <=> (call[c].next \in {"redeem", "left"})

\* An accepted redemption, on its way or just received.
Accepted(c) == request[c] = "granted" \/ call[c].next = "start"

\* A redemption that was accepted belongs to a used ticket of that device, to no
\* other call, and has opened nothing yet.
GrantsPending ==
    \A c \in Call : Accepted(c) =>
        LET t == call[c].ticket IN
        /\ tickets[t].state = "redeemed"
        /\ tickets[t].device = call[c].device
        /\ delivered[t] = IF request[c] = "granted" THEN <<>> ELSE <<call[c].device>>
        /\ shells[t] = <<>>
        /\ \A b \in Call \ {c} : Accepted(b) => call[b].ticket # t

\* Nothing was received, and nothing opened, with a ticket that is not used.
UnusedOpensNothing ==
    \A t \in Ticket : tickets[t].state # "redeemed" =>
        delivered[t] = <<>> /\ shells[t] = <<>>

\* The inductive invariant of broker and ticket: the flag is exact, no call is
\* without its request, and each accepted redemption is one call's alone.
MaintenanceInv ==
    /\ TypeOK
    /\ BrokerExclusive
    /\ RequestsOwned
    /\ GrantsPending
    /\ UnusedOpensNothing

\* ADR-005: "The root agent redeems it exactly once, then asks systemd to
\* start".  A shell is asked for at most once with a ticket, on the device the
\* ticket was issued for, and after the controller accepted it.
ShellAuthorised ==
    \A t \in Ticket :
        shells[t] # <<>> => /\ tickets[t].state = "redeemed"
                            /\ shells[t] = <<tickets[t].device>>
                            /\ delivered[t] = shells[t]

\* localapi: "Close all remote connections before opening local maintenance."
\* A call that gets past the gate does not go on beside a session that was
\* there when it was made.
OldSessionsClosed ==
    \A c \in Call : call[c].next \in {"lock", "redeem", "start", "state"} =>
        call[c].before \cap sessions[call[c].device] = {}

\* Refinement mapping: the rows are the slots, an accepted redemption is on its
\* way until the agent has it or has stopped waiting.
Slots == [t \in Ticket |->
             IF tickets[t].state \in {"unissued", "authorised"}
             THEN [state |-> "unissued", device |-> None]
             ELSE [state |-> IF tickets[t].state = "open" THEN "open" ELSE "used",
                   device |-> tickets[t].device]]

Outbox == {<<call[c].ticket, call[c].device>> :
              c \in {b \in Call : request[b] = "granted"}}

Promise == INSTANCE SingleUse WITH slot <- Slots, outbox <- Outbox

\* A maintenance ticket keeps the promise launch tickets keep: one device, one
\* use, whoever presents it again after a timeout (RedeemMaintenanceTicket).
KeepsPromise == Promise!Spec

\* The broker does not stay busy: it becomes free again, or there is a shell.
BrokerReleased ==
    \A d \in Device : active[d] ~> (~active[d] \/ unit[d] = "up")
=============================================================================
