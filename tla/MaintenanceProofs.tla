-------------------------- MODULE MaintenanceProofs --------------------------
(***************************************************************************)
(* Proofs about Maintenance: the inductive invariant MaintenanceInv, that  *)
(* a ticket opens at most one shell, on its own device, and that           *)
(* maintenance tickets implement SingleUse.                                *)
(***************************************************************************)
EXTENDS Maintenance, TLAPS

-----------------------------------------------------------------------------
(* Types. *)

Requests == {"none", "device", "redeem", "granted", "refused"}
Busy == [next: Steps, ticket: Ticket, device: Device, before: SUBSET (1..MaxSessions)]

\* A call that is not idle has its ticket and its device.
LEMMA CallTypes ==
    ASSUME TypeOK, NEW c \in Call
    PROVE  /\ call[c] \in Calls /\ call[c].next \in Steps \cup {"idle"}
           /\ call[c].device \in Device \cup {None}
           /\ call[c].next = "idle" <=> call[c] = Idle
           /\ call[c] = Idle => call[c].device = None
           /\ call[c].next # "idle" =>
                 /\ call[c] \in Busy
                 /\ call[c].ticket \in Ticket /\ call[c].device \in Device
  <1>. DEFINE C == call[c]
  <1>1. C \in Calls
    BY DEF TypeOK
  <1>. HIDE DEF C
  <1>2. C = Idle \/ C \in Busy
    BY <1>1 DEF Calls, Busy
  <1>3. C = Idle => C.next = "idle" /\ C.device = None
    BY DEF Idle
  <1>4. C \in Busy => C.next \in Steps /\ C.ticket \in Ticket /\ C.device \in Device
    BY DEF Busy
  <1>5. "idle" \notin Steps
    BY DEF Steps
  <1>. QED  BY <1>1, <1>2, <1>3, <1>4, <1>5 DEF C

\* What a call looks like after a step to next.
LEMMA GotoTypes ==
    ASSUME TypeOK, NEW c \in Call, call[c].next # "idle", NEW n \in Steps
    PROVE  LET v == [call[c] EXCEPT !.next = n] IN
           v \in Calls /\ v.next = n /\ v.ticket = call[c].ticket /\ v.device = call[c].device
                       /\ v.before = call[c].before
  <1>1. call[c] \in Busy
    BY CallTypes
  <1>. QED  BY <1>1 DEF Busy, Calls

\* A call that leaves keeps its ticket and its device if it has a request.
LEMMA LeftTypes ==
    ASSUME TypeOK, RequestsOwned, NEW c \in Call
    PROVE  /\ Left(c) \in Calls
           /\ request[c] = "none" => Left(c).next = "idle" /\ Left(c).device = None
           /\ request[c] # "none" => /\ Left(c).next = "left"
                                     /\ Left(c).ticket = call[c].ticket
                                     /\ Left(c).device = call[c].device
  <1>1. Idle \in Calls /\ Idle.next = "idle" /\ Idle.device = None /\ "left" \in Steps
    BY DEF Calls, Steps, Idle
  <1>2. ASSUME request[c] # "none"
        PROVE  /\ Left(c) \in Calls /\ Left(c).next = "left"
               /\ Left(c).ticket = call[c].ticket /\ Left(c).device = call[c].device
    <2>1. call[c].next # "idle"
      BY <1>2 DEF RequestsOwned
    <2>. QED  BY <1>1, <1>2, <2>1, GotoTypes DEF Left
  <1>. QED  BY <1>1, <1>2 DEF Left

LEMMA InitType == Init => TypeOK
  <1>. SUFFICES ASSUME Init PROVE TypeOK
    OBVIOUS
  <1>1. now \in 0..Horizon /\ launched \in 0..MaxSessions
    BY MaintenanceAssumption DEF Init
  <1>2. tickets \in [Ticket -> Row]
    BY DEF Init, Row
  <1>3. call \in [Call -> Calls]
    BY DEF Init, Calls
  <1>. QED  BY <1>1, <1>2, <1>3 DEF Init, TypeOK

\* A row that is issued belongs to a user and a device.
LEMMA RowTypes ==
    ASSUME TypeOK, NEW t \in Ticket
    PROVE  /\ tickets[t].state \in {"unissued", "authorised", "open", "redeemed"}
           /\ tickets[t].state # "unissued" =>
                 tickets[t].user \in Administrator /\ tickets[t].device \in Device
           /\ tickets[t].state \in {"open", "redeemed"} =>
                 /\ tickets[t].expires \in Nat
                 /\ [tickets[t] EXCEPT !.state = "redeemed"] \in Row
                 /\ [tickets[t] EXCEPT !.state = "redeemed"].state = "redeemed"
                 /\ [tickets[t] EXCEPT !.state = "redeemed"].device = tickets[t].device
           /\ tickets[t].state = "authorised" => \A n \in Nat :
                 /\ [tickets[t] EXCEPT !.state = "open", !.expires = n] \in Row
                 /\ [tickets[t] EXCEPT !.state = "open", !.expires = n].state = "open"
                 /\ [tickets[t] EXCEPT !.state = "open", !.expires = n].device
                       = tickets[t].device
  <1>. DEFINE R == tickets[t]
  <1>1. R \in Row
    BY DEF TypeOK
  <1>. HIDE DEF R
  <1>2. CASE R = [state |-> "unissued", user |-> None, device |-> None, expires |-> 0]
    <2>1. R.state = "unissued"
      BY <1>2
    <2>. QED  BY <2>1 DEF R
  <1>3. CASE R \in [state: {"authorised"}, user: Administrator, device: Device, expires: {0}]
    <2>1. R.state = "authorised" /\ R.user \in Administrator /\ R.device \in Device
      BY <1>3
    <2>2. \A n \in Nat :
              /\ [R EXCEPT !.state = "open", !.expires = n] \in Row
              /\ [R EXCEPT !.state = "open", !.expires = n].state = "open"
              /\ [R EXCEPT !.state = "open", !.expires = n].device = R.device
      BY <1>3 DEF Row
    <2>. QED  BY <2>1, <2>2 DEF R
  <1>4. CASE R \in [state: {"open", "redeemed"}, user: Administrator, device: Device, expires: Nat]
    <2>1. /\ R.state \in {"open", "redeemed"} /\ R.user \in Administrator
          /\ R.device \in Device /\ R.expires \in Nat
      BY <1>4
    <2>2. /\ [R EXCEPT !.state = "redeemed"] \in Row
          /\ [R EXCEPT !.state = "redeemed"].state = "redeemed"
          /\ [R EXCEPT !.state = "redeemed"].device = R.device
      BY <1>4 DEF Row
    <2>. QED  BY <2>1, <2>2 DEF R
  <1>. QED  BY <1>1, <1>2, <1>3, <1>4 DEF Row

\* Every step keeps the types; that a call without a ticket has no request is
\* what the restart of an agent needs.
LEMMA StepType == TypeOK /\ RequestsOwned /\ [Next]_vars => TypeOK'
  <1>. SUFFICES ASSUME TypeOK, RequestsOwned, [Next]_vars PROVE TypeOK'
    OBVIOUS
  <1>. USE MaintenanceAssumption DEF controllerVars, sessionVars
  <1>1. CASE Tick \/ UNCHANGED vars
    BY <1>1 DEF TypeOK, Tick, vars
  <1>2. CASE Controller
    <2>1. ASSUME NEW u \in Administrator, UpdateUser(u) PROVE TypeOK'
      BY <2>1 DEF TypeOK, UpdateUser
    <2>2. ASSUME NEW d \in Revocable, UpdateDevice(d) PROVE TypeOK'
      BY <2>2 DEF TypeOK, UpdateDevice
    <2>3. ASSUME NEW t \in Ticket, NEW u \in Administrator, NEW d \in Device, Authorise(t, u, d)
          PROVE  TypeOK'
      <3>1. [state |-> "authorised", user |-> u, device |-> d, expires |-> 0] \in Row
        BY DEF Row
      <3>2. tickets' \in [Ticket -> Row]
        BY <2>3, <3>1 DEF TypeOK, Authorise
      <3>. QED  BY <2>3, <3>2 DEF TypeOK, Authorise
    <2>4. ASSUME NEW t \in Ticket, InsertTicket(t) PROVE TypeOK'
      <3>1. now + TicketTTL \in Nat
        BY DEF TypeOK
      <3>2. [tickets[t] EXCEPT !.state = "open", !.expires = now + TicketTTL] \in Row
        BY <2>4, <3>1, RowTypes DEF InsertTicket
      <3>3. tickets' \in [Ticket -> Row]
        BY <2>4, <3>2 DEF TypeOK, InsertTicket
      <3>. QED  BY <2>4, <3>3 DEF TypeOK, InsertTicket
    <2>5. ASSUME NEW c \in Call,
                 CheckDevice(c) \/ RedeemMaintenanceTicket(c) \/ RedeemRefused(c)
          PROVE  TypeOK'
      <3>1. CASE CheckDevice(c) \/ RedeemRefused(c)
        BY <3>1 DEF TypeOK, CheckDevice, RedeemRefused, Serve
      <3>2. CASE RedeemMaintenanceTicket(c)
        <4>1. call[c].ticket \in Ticket
          BY <3>2, CallTypes DEF RedeemMaintenanceTicket, RequestsOwned
        <4>2. [tickets[call[c].ticket] EXCEPT !.state = "redeemed"] \in Row
          BY <3>2, <4>1, RowTypes DEF RedeemMaintenanceTicket, Redeemable
        <4>3. tickets' \in [Ticket -> Row]
          BY <3>2, <4>1, <4>2 DEF TypeOK, RedeemMaintenanceTicket
        <4>. QED  BY <3>2, <4>3 DEF TypeOK, RedeemMaintenanceTicket, Serve
      <3>. QED  BY <2>5, <3>1, <3>2
    <2>. QED  BY <1>2, <2>1, <2>2, <2>3, <2>4, <2>5 DEF Controller
  <1>3. ASSUME NEW c \in Call, Open(c) \/ Dropped(c) PROVE TypeOK'
    <2>1. call[c].next # "idle"
      BY <1>3 DEF Open, HasSessions, Lock, Granted, Rejected, Timeout, Start, StartFails,
         Opened, NotOpened, Dropped
    <2>2. call[c].device \in Device /\ call[c].ticket \in Ticket
      BY <2>1, CallTypes
    <2>3. \A n \in {"lock", "redeem", "start", "state"} : Goto(c, n) => call' \in [Call -> Calls]
      <3>1. \A n \in {"lock", "redeem", "start", "state"} :
                [call[c] EXCEPT !.next = n] \in Calls
        BY <2>1, GotoTypes DEF Steps
      <3>. SUFFICES ASSUME NEW n \in {"lock", "redeem", "start", "state"}, Goto(c, n)
                    PROVE  call' \in [Call -> Calls]
        OBVIOUS
      <3>. QED  BY <3>1 DEF TypeOK, Goto
    <2>4. Return(c) => call' \in [Call -> Calls]
      BY DEF TypeOK, Return, Calls
    <2>5. /\ SetInactive(call[c].device) => active' \in [Device -> BOOLEAN]
          /\ active' = [active EXCEPT ![call[c].device] = TRUE] => active' \in [Device -> BOOLEAN]
      BY <2>2 DEF TypeOK, SetInactive
    <2>6. /\ Append(delivered[call[c].ticket], call[c].device) \in Seq(Device)
          /\ Append(shells[call[c].ticket], call[c].device) \in Seq(Device)
      BY <2>2 DEF TypeOK
    <2>7. CASE HasSessions(c)
      BY <2>3, <2>4, <2>7 DEF TypeOK, HasSessions
    <2>8. CASE Lock(c)
      BY <2>3, <2>4, <2>5, <2>8 DEF TypeOK, Lock
    <2>9. CASE Granted(c)
      <3>1. delivered' \in [Ticket -> Seq(Device)]
        BY <2>2, <2>6, <2>9 DEF TypeOK, Granted
      <3>. QED  BY <2>3, <2>9, <3>1 DEF TypeOK, Granted
    <2>10. CASE Rejected(c)
      BY <2>4, <2>5, <2>10 DEF TypeOK, Rejected
    <2>11. CASE Timeout(c)
      <3>1. call' \in [Call -> Calls]
        BY <2>11, LeftTypes DEF TypeOK, Timeout
      <3>. QED  BY <2>5, <2>11, <3>1 DEF TypeOK, Timeout
    <2>12. CASE Start(c)
      <3>1. shells' \in [Ticket -> Seq(Device)]
        BY <2>2, <2>6, <2>12 DEF TypeOK, Start
      <3>2. unit' \in [Device -> {"down", "queued", "up"}]
        BY <2>2, <2>12 DEF TypeOK, Start
      <3>. QED  BY <2>3, <2>12, <3>1, <3>2 DEF TypeOK, Start
    <2>13. CASE StartFails(c) \/ NotOpened(c)
      BY <2>4, <2>5, <2>13 DEF TypeOK, StartFails, NotOpened
    <2>14. CASE Opened(c)
      BY <2>2, <2>4, <2>14 DEF TypeOK, Opened
    <2>15. CASE Dropped(c)
      BY <2>4, <2>15 DEF TypeOK, Dropped, Return
    <2>. QED
      BY <1>3, <2>7, <2>8, <2>9, <2>10, <2>11, <2>12, <2>13, <2>14, <2>15 DEF Open
  <1>4. ASSUME NEW c \in Call, NEW t \in Ticket, NEW d \in Device, Accept(c, t, d)
        PROVE  TypeOK'
    <2>1. [next |-> "HasSessions", ticket |-> t, device |-> d, before |-> sessions[d]] \in Calls
      BY DEF TypeOK, Calls, Steps
    <2>2. call' \in [Call -> Calls]
      BY <1>4, <2>1 DEF TypeOK, Accept
    <2>. QED  BY <1>4, <2>2 DEF TypeOK, Accept
  <1>5. ASSUME NEW d \in Device, Done(d) \/ Exit(d) PROVE TypeOK'
    BY <1>5 DEF TypeOK, Done, Exit, SetInactive
  <1>6. ASSUME NEW d \in Device, LaunchSession(d) PROVE TypeOK'
    <2>1. launched' \in 1..MaxSessions
      BY <1>6 DEF TypeOK, LaunchSession
    <2>2. sessions' \in [Device -> SUBSET (1..MaxSessions)]
      BY <1>6, <2>1 DEF TypeOK, LaunchSession
    <2>. QED  BY <1>6, <2>1, <2>2 DEF TypeOK, LaunchSession
  <1>7. ASSUME NEW d \in Device, RestartAgent(d) PROVE TypeOK'
    <2>1. call' \in [Call -> Calls]
      BY <1>7, LeftTypes DEF TypeOK, RestartAgent
    <2>. QED  BY <1>7, <2>1 DEF TypeOK, RestartAgent
  <1>8. ASSUME NEW d \in Device, NEW state \in {"up", "down"}, RunJob(d, state) PROVE TypeOK'
    BY <1>8 DEF TypeOK, RunJob
  <1>9. ASSUME NEW d \in Device, NEW s \in 1..MaxSessions, EndSession(d, s) PROVE TypeOK'
    BY <1>9 DEF TypeOK, EndSession
  <1>. QED  BY <1>1, <1>2, <1>3, <1>4, <1>5, <1>6, <1>7, <1>8, <1>9 DEF Next

-----------------------------------------------------------------------------
(* What a step does to calls and requests. *)

\* The steps that touch no call, no request and no flag.
Elsewhere ==
    \/ Tick \/ UNCHANGED vars
    \/ \E u \in Administrator : UpdateUser(u)
    \/ \E d \in Revocable : UpdateDevice(d)
    \/ \E d \in Device : Exit(d) \/ LaunchSession(d)
    \/ \E d \in Device, state \in {"up", "down"} : RunJob(d, state)
    \/ \E d \in Device, s \in 1..MaxSessions : EndSession(d, s)

LEMMA ElsewhereKeeps ==
    ASSUME Elsewhere
    PROVE  UNCHANGED <<tickets, call, request, active, monitor, delivered, shells>>
  BY DEF Elsewhere, Tick, vars, UpdateUser, UpdateDevice, Exit, LaunchSession, RunJob,
     EndSession, controllerVars, sessionVars

\* The kinds of step, as the proofs below distinguish them.
LEMMA Kinds ==
    ASSUME [Next]_vars
    PROVE  \/ Elsewhere
           \/ \E t \in Ticket, u \in Administrator, d \in Device : Authorise(t, u, d)
           \/ \E t \in Ticket : InsertTicket(t)
           \/ \E c \in Call :
                 \/ CheckDevice(c) \/ RedeemMaintenanceTicket(c) \/ RedeemRefused(c)
                 \/ Open(c) \/ Dropped(c)
           \/ \E c \in Call, t \in Ticket, d \in Device : Accept(c, t, d)
           \/ \E d \in Device : Done(d) \/ RestartAgent(d)
  BY DEF Next, Controller, Elsewhere

\* One step of Open: where the call goes, and what it does to the flag.
LEMMA OpenStep ==
    ASSUME TypeOK, RequestsOwned, NEW c \in Call, Open(c)
    PROVE  LET d == call[c].device IN
           /\ call[c].next \in {"HasSessions", "lock", "redeem", "start", "state"}
           /\ d \in Device /\ call[c].ticket \in Ticket
           /\ \A b \in Call \ {c} : call'[b] = call[b] /\ request'[b] = request[b]
           /\ \/ /\ call[c].next = "HasSessions" /\ call'[c].next = "lock"
                 /\ UNCHANGED <<active, monitor, request>>
              \/ /\ call[c].next \in {"HasSessions", "lock"} /\ call'[c].next = "idle"
                 /\ UNCHANGED <<active, monitor, request>>
              \/ /\ call[c].next = "lock" /\ call'[c].next = "redeem"
                 /\ ~active[d] /\ active' = [active EXCEPT ![d] = TRUE]
                 /\ request'[c] = "device" /\ UNCHANGED monitor
              \/ /\ call[c].next = "redeem" /\ call'[c].next = "start"
                 /\ request[c] = "granted" /\ request'[c] = "none"
                 /\ UNCHANGED <<active, monitor>>
              \/ /\ call[c].next = "start" /\ call'[c].next = "state"
                 /\ UNCHANGED <<active, monitor, request>>
              \/ /\ call[c].next = "state" /\ call'[c].next = "idle"
                 /\ monitor' = [monitor EXCEPT ![d] = TRUE]
                 /\ UNCHANGED <<active, request>>
              \/ /\ call[c].next \in {"redeem", "start", "state"}
                 /\ call'[c].next \in {"idle", "left"}
                 /\ call[c].next # "redeem" => UNCHANGED request
                 /\ request'[c] # "none" <=> call'[c].next = "left"
                 /\ request'[c] \in {request[c], "none"}
                 /\ active' = [active EXCEPT ![d] = FALSE] /\ UNCHANGED monitor
           /\ call'[c].next # "idle" => /\ call'[c].ticket = call[c].ticket
                                        /\ call'[c].device = call[c].device
  <1>. DEFINE d == call[c].device
  <1>1. call[c].next \in {"HasSessions", "lock", "redeem", "start", "state"}
    BY DEF Open, HasSessions, Lock, Granted, Rejected, Timeout, Start, StartFails, Opened,
       NotOpened
  <1>2. d \in Device /\ call[c].ticket \in Ticket
    BY <1>1, CallTypes
  <1>3. Idle.next = "idle"
    BY DEF Idle
  <1>4. \A n \in {"lock", "redeem", "start", "state"} : Goto(c, n) =>
            /\ call'[c].next = n
            /\ call'[c].ticket = call[c].ticket /\ call'[c].device = d
            /\ \A b \in Call \ {c} : call'[b] = call[b]
    <2>. SUFFICES ASSUME NEW n \in {"lock", "redeem", "start", "state"}, Goto(c, n)
                  PROVE  /\ call'[c].next = n
                         /\ call'[c].ticket = call[c].ticket /\ call'[c].device = d
                         /\ \A b \in Call \ {c} : call'[b] = call[b]
      OBVIOUS
    <2>1. call'[c] = [call[c] EXCEPT !.next = n] /\ \A b \in Call \ {c} : call'[b] = call[b]
      BY DEF Goto, TypeOK
    <2>2. call[c].next # "idle" /\ n \in Steps
      BY <1>1 DEF Steps
    <2>. QED  BY <2>1, <2>2, GotoTypes
  <1>5. Return(c) => call'[c].next = "idle" /\ \A b \in Call \ {c} : call'[b] = call[b]
    BY <1>3 DEF Return, TypeOK
  <1>6. CASE HasSessions(c)
    BY <1>1, <1>2, <1>4, <1>5, <1>6 DEF HasSessions
  <1>7. CASE Lock(c)
    BY <1>1, <1>2, <1>4, <1>5, <1>7 DEF Lock, TypeOK
  <1>8. CASE Granted(c)
    BY <1>1, <1>2, <1>4, <1>8 DEF Granted, TypeOK
  <1>9. CASE Rejected(c)
    BY <1>1, <1>2, <1>5, <1>9 DEF Rejected, TypeOK, SetInactive
  <1>10. CASE Timeout(c)
    <2>1. request[c] # "none"
      BY <1>10 DEF Timeout, RequestsOwned
    <2>2. call'[c].next = "left" /\ call'[c].ticket = call[c].ticket /\ call'[c].device = d
      BY <1>10, <2>1, LeftTypes DEF Timeout, TypeOK
    <2>. QED  BY <1>1, <1>2, <1>10, <2>1, <2>2 DEF Timeout, TypeOK, SetInactive
  <1>11. CASE Start(c)
    BY <1>1, <1>2, <1>4, <1>11 DEF Start
  <1>12. CASE StartFails(c) \/ NotOpened(c)
    <2>1. call[c].next \in {"start", "state"} /\ request[c] = "none"
      BY <1>12 DEF StartFails, NotOpened, RequestsOwned
    <2>. QED  BY <1>1, <1>2, <1>5, <1>12, <2>1 DEF StartFails, NotOpened, SetInactive
  <1>13. CASE Opened(c)
    BY <1>1, <1>2, <1>5, <1>13 DEF Opened
  <1>. QED  BY <1>6, <1>7, <1>8, <1>9, <1>10, <1>11, <1>12, <1>13 DEF Open

\* The other steps that touch calls or requests.
LEMMA ServeStep ==
    ASSUME TypeOK, NEW c \in Call,
           CheckDevice(c) \/ RedeemMaintenanceTicket(c) \/ RedeemRefused(c)
    PROVE  /\ request[c] \in {"device", "redeem"} /\ request'[c] \in {"redeem", "granted", "refused"}
           /\ request'[c] = "granted" => RedeemMaintenanceTicket(c)
           /\ \A b \in Call \ {c} : request'[b] = request[b]
           /\ UNCHANGED <<call, active, monitor, delivered, shells>>
  BY DEF TypeOK, CheckDevice, RedeemMaintenanceTicket, RedeemRefused, Serve

LEMMA DroppedStep ==
    ASSUME TypeOK, NEW c \in Call, Dropped(c)
    PROVE  /\ call[c].next = "left" /\ call'[c].next = "idle" /\ request'[c] = "none"
           /\ \A b \in Call \ {c} : call'[b] = call[b] /\ request'[b] = request[b]
           /\ UNCHANGED <<tickets, active, monitor, delivered, shells>>
  BY DEF TypeOK, Dropped, Idle, controllerVars

LEMMA AcceptStep ==
    ASSUME TypeOK, NEW c \in Call, NEW t \in Ticket, NEW d \in Device, Accept(c, t, d)
    PROVE  /\ call[c].next = "idle" /\ call'[c].next = "HasSessions"
           /\ \A b \in Call \ {c} : call'[b] = call[b]
           /\ UNCHANGED <<tickets, request, active, monitor, delivered, shells>>
  BY DEF TypeOK, Accept, Idle, controllerVars

LEMMA RestartStep ==
    ASSUME TypeOK, RequestsOwned, NEW d \in Device, RestartAgent(d)
    PROVE  /\ \A b \in Call : call[b].device # d => call'[b] = call[b]
           /\ \A b \in Call : call[b].device = d =>
                 /\ request[b] = "none" => call'[b].next = "idle" /\ call'[b].device = None
                 /\ request[b] # "none" => /\ call'[b].next = "left"
                                           /\ call'[b].ticket = call[b].ticket
                                           /\ call'[b].device = call[b].device
           /\ active' = [active EXCEPT ![d] = FALSE] /\ monitor' = [monitor EXCEPT ![d] = FALSE]
           /\ UNCHANGED <<tickets, request, delivered, shells>>
  BY LeftTypes DEF TypeOK, RestartAgent, controllerVars

\* No call is without its request, and no request without its call.
LEMMA StepRequests ==
    ASSUME TypeOK, RequestsOwned, [Next]_vars
    PROVE  RequestsOwned'
  <1>1. CASE \/ Elsewhere
             \/ \E t \in Ticket, u \in Administrator, d \in Device : Authorise(t, u, d)
             \/ \E t \in Ticket : InsertTicket(t)
             \/ \E d \in Device : Done(d)
    BY <1>1, ElsewhereKeeps DEF RequestsOwned, Authorise, InsertTicket, Done
  <1>2. ASSUME NEW c \in Call,
               CheckDevice(c) \/ RedeemMaintenanceTicket(c) \/ RedeemRefused(c)
        PROVE  RequestsOwned'
    BY <1>2, ServeStep DEF RequestsOwned
  <1>3. ASSUME NEW c \in Call, Open(c) PROVE RequestsOwned'
    <2>1. request'[c] # "none" <=> call'[c].next \in {"redeem", "left"}
      BY <1>3, OpenStep DEF RequestsOwned
    <2>2. \A b \in Call \ {c} : call'[b] = call[b] /\ request'[b] = request[b]
      BY <1>3, OpenStep
    <2>. QED  BY <2>1, <2>2 DEF RequestsOwned
  <1>4. ASSUME NEW c \in Call, Dropped(c) PROVE RequestsOwned'
    BY <1>4, DroppedStep DEF RequestsOwned
  <1>5. ASSUME NEW c \in Call, NEW t \in Ticket, NEW d \in Device, Accept(c, t, d)
        PROVE  RequestsOwned'
    BY <1>5, AcceptStep DEF RequestsOwned
  <1>6. ASSUME NEW d \in Device, RestartAgent(d) PROVE RequestsOwned'
    BY <1>6, RestartStep DEF RequestsOwned
  <1>. QED  BY Kinds, <1>1, <1>2, <1>3, <1>4, <1>5, <1>6

-----------------------------------------------------------------------------
(* The broker's flag. *)

\* A step after which the same calls hold the same flags.
LEMMA SameHolders ==
    ASSUME BrokerExclusive, active' = active, monitor' = monitor,
           \A c \in Call, d \in Device : Holds(c, d)' <=> Holds(c, d)
    PROVE  BrokerExclusive'
  BY DEF BrokerExclusive

\* The holder of a flag gives it up, to the monitor (m) or to nobody.
LEMMA HolderLeaves ==
    ASSUME TypeOK, BrokerExclusive, NEW c \in Call, NEW d \in Device, Holds(c, d),
           NEW m \in BOOLEAN,
           active' = [active EXCEPT ![d] = m], monitor' = [monitor EXCEPT ![d] = m],
           \A e \in Device : ~Holds(c, e)',
           \A b \in Call \ {c}, e \in Device : Holds(b, e)' <=> Holds(b, e)
    PROVE  BrokerExclusive'
  <1>1. \A b \in Call : Holds(b, d) => b = c
    BY DEF BrokerExclusive
  <1>2. \A e \in Device \ {d} : active'[e] = active[e] /\ monitor'[e] = monitor[e] /\ ~Holds(c, e)
    BY DEF TypeOK, Holds
  <1>3. active'[d] = m /\ monitor'[d] = m /\ \A b \in Call : ~Holds(b, d)'
    BY <1>1 DEF TypeOK
  <1>4. \A e \in Device \ {d}, b \in Call : Holds(b, e)' <=> Holds(b, e)
    BY <1>2
  <1>. QED  BY <1>2, <1>3, <1>4 DEF BrokerExclusive

LEMMA StepBroker ==
    ASSUME TypeOK, RequestsOwned, BrokerExclusive, [Next]_vars
    PROVE  BrokerExclusive'
  <1>1. CASE \/ Elsewhere
             \/ \E t \in Ticket, u \in Administrator, d \in Device : Authorise(t, u, d)
             \/ \E t \in Ticket : InsertTicket(t)
    <2>1. UNCHANGED <<call, active, monitor>>
      BY <1>1, ElsewhereKeeps DEF Authorise, InsertTicket
    <2>. QED  BY <2>1, SameHolders DEF Holds
  <1>2. ASSUME NEW c \in Call,
               CheckDevice(c) \/ RedeemMaintenanceTicket(c) \/ RedeemRefused(c)
        PROVE  BrokerExclusive'
    BY <1>2, ServeStep, SameHolders DEF Holds
  <1>3. ASSUME NEW c \in Call, Open(c) PROVE BrokerExclusive'
    <2>. DEFINE d == call[c].device
    <2>1. d \in Device /\ \A b \in Call \ {c} : call'[b] = call[b]
      BY <1>3, OpenStep
    <2>2. \A b \in Call \ {c}, e \in Device : Holds(b, e)' <=> Holds(b, e)
      BY <2>1 DEF Holds
    <2>3. CASE /\ call[c].next \in {"HasSessions", "lock"} /\ call'[c].next \in {"lock", "idle"}
               /\ UNCHANGED <<active, monitor>>
      <3>1. \A e \in Device : ~Holds(c, e) /\ ~Holds(c, e)'
        BY <2>3 DEF Holds
      <3>. QED  BY <2>2, <2>3, <3>1, SameHolders
    <2>4. CASE /\ call[c].next = "lock" /\ call'[c].next = "redeem"
               /\ ~active[d] /\ active' = [active EXCEPT ![d] = TRUE] /\ UNCHANGED monitor
      <3>1. call'[c].device = d
        BY <1>3, <2>4, OpenStep
      <3>2. \A e \in Device : (Holds(c, e)' <=> e = d) /\ ~Holds(c, e)
        BY <2>1, <2>4, <3>1 DEF Holds
      <3>3. ~monitor[d] /\ \A b \in Call : ~Holds(b, d)
        BY <2>1, <2>4 DEF BrokerExclusive
      <3>4. active'[d] = TRUE /\ \A e \in Device \ {d} : active'[e] = active[e]
        BY <2>1, <2>4 DEF TypeOK
      <3>. QED  BY <2>1, <2>2, <2>4, <3>2, <3>3, <3>4 DEF BrokerExclusive
    <2>5. CASE /\ call[c].next \in {"redeem", "start"} /\ call'[c].next \in {"start", "state"}
               /\ UNCHANGED <<active, monitor>>
      <3>1. call'[c].device = d
        BY <1>3, <2>5, OpenStep
      <3>2. \A e \in Device : Holds(c, e)' <=> Holds(c, e)
        BY <2>5, <3>1 DEF Holds
      <3>. QED  BY <2>2, <2>5, <3>2, SameHolders
    <2>6. CASE /\ call[c].next = "state" /\ call'[c].next = "idle"
               /\ monitor' = [monitor EXCEPT ![d] = TRUE] /\ UNCHANGED active
      <3>1. Holds(c, d) /\ \A e \in Device : ~Holds(c, e)'
        BY <2>6 DEF Holds
      <3>2. active[d]
        BY <2>1, <3>1 DEF BrokerExclusive
      <3>3. active' = [active EXCEPT ![d] = TRUE]
        BY <2>1, <2>6, <3>2 DEF TypeOK
      <3>. QED  BY <2>1, <2>2, <2>6, <3>1, <3>3, HolderLeaves
    <2>7. CASE /\ call[c].next \in {"redeem", "start", "state"} /\ call'[c].next \in {"idle", "left"}
               /\ active' = [active EXCEPT ![d] = FALSE] /\ UNCHANGED monitor
      <3>1. Holds(c, d) /\ \A e \in Device : ~Holds(c, e)'
        BY <2>7 DEF Holds
      <3>2. ~monitor[d]
        BY <2>1, <3>1 DEF BrokerExclusive
      <3>3. monitor' = [monitor EXCEPT ![d] = FALSE]
        BY <2>1, <2>7, <3>2 DEF TypeOK
      <3>. QED  BY <2>1, <2>2, <2>7, <3>1, <3>3, HolderLeaves
    <2>. QED  BY <1>3, <2>3, <2>4, <2>5, <2>6, <2>7, OpenStep
  <1>4. ASSUME NEW c \in Call, Dropped(c) PROVE BrokerExclusive'
    <2>1. \A b \in Call, e \in Device : Holds(b, e)' <=> Holds(b, e)
      BY <1>4, DroppedStep DEF Holds
    <2>. QED  BY <1>4, <2>1, DroppedStep, SameHolders
  <1>5. ASSUME NEW c \in Call, NEW t \in Ticket, NEW d \in Device, Accept(c, t, d)
        PROVE  BrokerExclusive'
    <2>1. \A b \in Call, e \in Device : Holds(b, e)' <=> Holds(b, e)
      BY <1>5, AcceptStep DEF Holds
    <2>. QED  BY <1>5, <2>1, AcceptStep, SameHolders
  <1>6. ASSUME NEW d \in Device, Done(d) PROVE BrokerExclusive'
    <2>1. /\ monitor[d] /\ call' = call
          /\ monitor' = [monitor EXCEPT ![d] = FALSE] /\ active' = [active EXCEPT ![d] = FALSE]
      BY <1>6 DEF Done, SetInactive
    <2>2. \A c \in Call : ~Holds(c, d)
      BY <2>1 DEF BrokerExclusive
    <2>3. \A c \in Call, e \in Device : Holds(c, e)' <=> Holds(c, e)
      BY <2>1 DEF Holds
    <2>4. /\ ~active'[d] /\ ~monitor'[d]
          /\ \A e \in Device \ {d} : active'[e] = active[e] /\ monitor'[e] = monitor[e]
      BY <2>1 DEF TypeOK
    <2>. QED  BY <2>2, <2>3, <2>4 DEF BrokerExclusive
  <1>7. ASSUME NEW d \in Device, RestartAgent(d) PROVE BrokerExclusive'
    <2>1. \A c \in Call : ~Holds(c, d)'
      BY <1>7, RestartStep DEF Holds
    <2>2. \A c \in Call, e \in Device \ {d} : Holds(c, e)' <=> Holds(c, e)
      BY <1>7, RestartStep, MaintenanceAssumption DEF Holds
    <2>3. /\ ~active'[d] /\ ~monitor'[d]
          /\ \A e \in Device \ {d} : active'[e] = active[e] /\ monitor'[e] = monitor[e]
      BY <1>7, RestartStep DEF TypeOK
    <2>. QED  BY <2>1, <2>2, <2>3 DEF BrokerExclusive
  <1>. QED  BY Kinds, <1>1, <1>2, <1>3, <1>4, <1>5, <1>6, <1>7

-----------------------------------------------------------------------------
(* Tickets and shells. *)

TicketsInv == GrantsPending /\ UnusedOpensNothing /\ ShellAuthorised

\* A call with an accepted redemption has its ticket.
LEMMA AcceptedTypes ==
    ASSUME TypeOK, RequestsOwned, NEW c \in Call, Accepted(c)
    PROVE  /\ call[c].ticket \in Ticket /\ call[c].device \in Device
           /\ request[c] = "granted" => call[c].next # "start"
  BY CallTypes DEF Accepted, RequestsOwned

\* A step that uses no ticket and accepts nothing new.
LEMMA NothingAccepted ==
    ASSUME TypeOK, RequestsOwned, TicketsInv,
           UNCHANGED <<delivered, shells>>,
           \A t \in Ticket : /\ tickets[t].state = "redeemed" => tickets'[t] = tickets[t]
                             /\ tickets'[t].state = "redeemed" => tickets[t].state = "redeemed",
           \A c \in Call : Accepted(c)' =>
               /\ Accepted(c) /\ (request'[c] = "granted" <=> request[c] = "granted")
               /\ call'[c].ticket = call[c].ticket /\ call'[c].device = call[c].device
    PROVE  TicketsInv'
  <1>1. GrantsPending'
    <2>. SUFFICES ASSUME NEW c \in Call, Accepted(c)'
                  PROVE  LET t == call'[c].ticket IN
                         /\ tickets'[t].state = "redeemed"
                         /\ tickets'[t].device = call'[c].device
                         /\ delivered'[t] = IF request'[c] = "granted" THEN <<>>
                                            ELSE <<call'[c].device>>
                         /\ shells'[t] = <<>>
                         /\ \A b \in Call \ {c} : Accepted(b)' => call'[b].ticket # t
      BY DEF GrantsPending
    <2>1. Accepted(c) /\ call[c].ticket \in Ticket
      BY AcceptedTypes
    <2>. QED  BY <2>1 DEF TicketsInv, GrantsPending
  <1>2. UnusedOpensNothing' /\ ShellAuthorised'
    BY DEF TicketsInv, UnusedOpensNothing, ShellAuthorised
  <1>. QED  BY <1>1, <1>2 DEF TicketsInv

\* RedeemMaintenanceTicket: the ticket was not used, so it has opened nothing and
\* nobody else's redemption of it was accepted.
LEMMA RedeemTickets ==
    ASSUME TypeOK, RequestsOwned, TicketsInv, NEW c \in Call, RedeemMaintenanceTicket(c)
    PROVE  TicketsInv'
  <1>. DEFINE t == call[c].ticket
  <1>1. /\ t \in Ticket /\ call[c].device \in Device /\ call[c].next # "start"
        /\ tickets[t].state = "open" /\ tickets[t].device = call[c].device
    BY CallTypes DEF RedeemMaintenanceTicket, Redeemable, RequestsOwned
  <1>2. /\ tickets'[t].state = "redeemed" /\ tickets'[t].device = call[c].device
        /\ \A u \in Ticket \ {t} : tickets'[u] = tickets[u]
    BY <1>1, RowTypes DEF RedeemMaintenanceTicket, TypeOK
  <1>3. /\ request'[c] = "granted" /\ \A b \in Call \ {c} : request'[b] = request[b]
        /\ UNCHANGED <<call, delivered, shells>>
    BY DEF RedeemMaintenanceTicket, Serve, TypeOK
  <1>4. delivered[t] = <<>> /\ shells[t] = <<>>
    BY <1>1 DEF TicketsInv, UnusedOpensNothing
  <1>5. \A b \in Call : Accepted(b) => call[b].ticket \in Ticket \ {t}
    BY <1>1, AcceptedTypes DEF TicketsInv, GrantsPending
  <1>6. \A b \in Call \ {c} : Accepted(b)' <=> Accepted(b)
    BY <1>3 DEF Accepted
  <1>. HIDE DEF t
  <1>7. GrantsPending'
    <2>. SUFFICES ASSUME NEW b \in Call, Accepted(b)'
                  PROVE  LET u == call[b].ticket IN
                         /\ tickets'[u].state = "redeemed"
                         /\ tickets'[u].device = call[b].device
                         /\ delivered[u] = IF request'[b] = "granted" THEN <<>>
                                           ELSE <<call[b].device>>
                         /\ shells[u] = <<>>
                         /\ \A a \in Call \ {b} : Accepted(a)' => call[a].ticket # u
      BY <1>3 DEF GrantsPending
    <2>1. CASE b = c
      <3>1. \A a \in Call \ {c} : Accepted(a)' => call[a].ticket # t
        BY <1>5, <1>6
      <3>. QED  BY <1>2, <1>3, <1>4, <2>1, <3>1 DEF t
    <2>2. CASE b # c
      <3>1. Accepted(b) /\ call[b].ticket \in Ticket \ {t} /\ request'[b] = request[b]
        BY <1>3, <1>5, <1>6, <2>2
      <3>2. \A a \in Call \ {b} : Accepted(a)' => call[a].ticket # call[b].ticket
        BY <1>6, <3>1 DEF TicketsInv, GrantsPending, t
      <3>. QED  BY <1>2, <3>1, <3>2 DEF TicketsInv, GrantsPending
    <2>. QED  BY <2>1, <2>2
  <1>8. UnusedOpensNothing' /\ ShellAuthorised'
    BY <1>2, <1>3, <1>4 DEF TicketsInv, UnusedOpensNothing, ShellAuthorised
  <1>. QED  BY <1>7, <1>8 DEF TicketsInv

\* Granted: the call receives what was accepted, for the first time.
LEMMA GrantedTickets ==
    ASSUME TypeOK, RequestsOwned, TicketsInv, NEW c \in Call, Granted(c)
    PROVE  TicketsInv'
  <1>. DEFINE t == call[c].ticket
              d == call[c].device
  <1>1. Accepted(c) /\ t \in Ticket /\ d \in Device
    BY CallTypes DEF Granted, Accepted
  <1>2. /\ tickets[t].state = "redeemed" /\ tickets[t].device = d
        /\ delivered[t] = <<>> /\ shells[t] = <<>>
        /\ \A b \in Call \ {c} : Accepted(b) => call[b].ticket # t
    BY <1>1 DEF TicketsInv, GrantsPending, Granted
  <1>3. /\ delivered'[t] = <<d>> /\ \A u \in Ticket \ {t} : delivered'[u] = delivered[u]
        /\ tickets' = tickets /\ shells' = shells
    BY <1>1, <1>2 DEF Granted, TypeOK, controllerVars
  <1>4. /\ call'[c].next = "start" /\ call'[c].ticket = t /\ call'[c].device = d
        /\ request'[c] = "none"
        /\ \A b \in Call \ {c} : call'[b] = call[b] /\ request'[b] = request[b]
    <2>1. call[c].next # "idle" /\ "start" \in Steps
      BY DEF Granted, Steps
    <2>. QED  BY <2>1, GotoTypes DEF Granted, Goto, TypeOK
  <1>5. \A b \in Call \ {c} : Accepted(b)' <=> Accepted(b)
    BY <1>4 DEF Accepted
  <1>. HIDE DEF t, d
  <1>6. GrantsPending'
    <2>. SUFFICES ASSUME NEW b \in Call, Accepted(b)'
                  PROVE  LET u == call'[b].ticket IN
                         /\ tickets'[u].state = "redeemed"
                         /\ tickets'[u].device = call'[b].device
                         /\ delivered'[u] = IF request'[b] = "granted" THEN <<>>
                                            ELSE <<call'[b].device>>
                         /\ shells'[u] = <<>>
                         /\ \A a \in Call \ {b} : Accepted(a)' => call'[a].ticket # u
      BY DEF GrantsPending
    <2>1. CASE b = c
      BY <1>2, <1>3, <1>4, <1>5, <2>1
    <2>2. CASE b # c
      <3>1. Accepted(b) /\ call[b].ticket \in Ticket \ {t}
        BY <1>2, <1>5, <2>2, AcceptedTypes
      <3>2. \A a \in Call \ {b} : Accepted(a)' => call'[a].ticket # call[b].ticket
        <4>1. \A a \in Call \ {b} : Accepted(a) => call[a].ticket # call[b].ticket
          BY <3>1 DEF TicketsInv, GrantsPending
        <4>. QED  BY <1>4, <1>5, <2>2, <3>1, <4>1
      <3>. QED  BY <1>3, <1>4, <2>2, <3>1, <3>2 DEF TicketsInv, GrantsPending
    <2>. QED  BY <2>1, <2>2
  <1>7. UnusedOpensNothing' /\ ShellAuthorised'
    BY <1>2, <1>3 DEF TicketsInv, UnusedOpensNothing, ShellAuthorised
  <1>. QED  BY <1>6, <1>7 DEF TicketsInv

\* Start: the first shell of the ticket, on its device.
LEMMA StartTickets ==
    ASSUME TypeOK, RequestsOwned, TicketsInv, NEW c \in Call, Start(c)
    PROVE  TicketsInv'
  <1>. DEFINE t == call[c].ticket
              d == call[c].device
  <1>1. Accepted(c) /\ t \in Ticket /\ d \in Device /\ request[c] = "none"
    BY CallTypes DEF Start, Accepted, RequestsOwned
  <1>2. /\ tickets[t].state = "redeemed" /\ tickets[t].device = d
        /\ delivered[t] = <<d>> /\ shells[t] = <<>>
        /\ \A b \in Call \ {c} : Accepted(b) => call[b].ticket # t
    BY <1>1 DEF TicketsInv, GrantsPending
  <1>3. /\ shells'[t] = <<d>> /\ \A u \in Ticket \ {t} : shells'[u] = shells[u]
        /\ tickets' = tickets /\ delivered' = delivered /\ request' = request
    <2>1. shells'[t] = Append(shells[t], d) /\ \A u \in Ticket \ {t} : shells'[u] = shells[u]
      BY <1>1 DEF Start, TypeOK
    <2>2. Append(<<>>, d) = <<d>>
      OBVIOUS
    <2>. QED  BY <1>2, <2>1, <2>2 DEF Start, controllerVars
  <1>4. /\ call'[c].next = "state"
        /\ \A b \in Call \ {c} : call'[b] = call[b]
    <2>1. call[c].next # "idle" /\ "state" \in Steps
      BY DEF Start, Steps
    <2>. QED  BY <2>1, GotoTypes DEF Start, Goto, TypeOK
  <1>5. ~Accepted(c)' /\ \A b \in Call \ {c} : Accepted(b)' <=> Accepted(b)
    BY <1>1, <1>3, <1>4 DEF Accepted
  <1>. HIDE DEF t, d
  <1>6. GrantsPending'
    <2>. SUFFICES ASSUME NEW b \in Call, Accepted(b)'
                  PROVE  LET u == call'[b].ticket IN
                         /\ tickets'[u].state = "redeemed"
                         /\ tickets'[u].device = call'[b].device
                         /\ delivered'[u] = IF request'[b] = "granted" THEN <<>>
                                            ELSE <<call'[b].device>>
                         /\ shells'[u] = <<>>
                         /\ \A a \in Call \ {b} : Accepted(a)' => call'[a].ticket # u
      BY DEF GrantsPending
    <2>1. b # c /\ Accepted(b) /\ call'[b] = call[b] /\ call[b].ticket \in Ticket \ {t}
      BY <1>2, <1>4, <1>5, AcceptedTypes
    <2>2. \A a \in Call \ {b} : Accepted(a)' => call'[a].ticket # call[b].ticket
      <3>1. \A a \in Call \ {b} : Accepted(a) => call[a].ticket # call[b].ticket
        BY <2>1 DEF TicketsInv, GrantsPending
      <3>. QED  BY <1>4, <1>5, <3>1
    <2>. QED  BY <1>3, <2>1, <2>2 DEF TicketsInv, GrantsPending
  <1>7. UnusedOpensNothing' /\ ShellAuthorised'
    BY <1>2, <1>3 DEF TicketsInv, UnusedOpensNothing, ShellAuthorised
  <1>. QED  BY <1>6, <1>7 DEF TicketsInv

LEMMA StepTickets ==
    ASSUME TypeOK, RequestsOwned, TicketsInv, [Next]_vars
    PROVE  TicketsInv'
  <1>. USE DEF controllerVars
  <1>1. CASE Elsewhere \/ \E d \in Device : Done(d)
    <2>1. UNCHANGED <<tickets, call, request, delivered, shells>>
      BY <1>1, ElsewhereKeeps DEF Done
    <2>. QED  BY <2>1, NothingAccepted DEF Accepted
  <1>2. ASSUME NEW t \in Ticket,
               \/ InsertTicket(t)
               \/ \E u \in Administrator, d \in Device : Authorise(t, u, d)
        PROVE  TicketsInv'
    <2>1. /\ UNCHANGED <<call, request, delivered, shells>>
          /\ tickets[t].state # "redeemed"
      BY <1>2 DEF InsertTicket, Authorise
    <2>2. tickets'[t].state # "redeemed" /\ \A u \in Ticket \ {t} : tickets'[u] = tickets[u]
      <3>1. CASE InsertTicket(t)
        <4>1. now + TicketTTL \in Nat
          BY MaintenanceAssumption DEF TypeOK
        <4>. QED  BY <3>1, <4>1, RowTypes DEF InsertTicket, TypeOK
      <3>2. CASE \E u \in Administrator, d \in Device : Authorise(t, u, d)
        BY <3>2 DEF Authorise, TypeOK
      <3>. QED  BY <1>2, <3>1, <3>2
    <2>. QED  BY <2>1, <2>2, NothingAccepted DEF Accepted
  <1>3. ASSUME NEW c \in Call, CheckDevice(c) \/ RedeemRefused(c) PROVE TicketsInv'
    <2>1. request'[c] # "granted" /\ request[c] # "granted" /\ tickets' = tickets
      BY <1>3 DEF CheckDevice, RedeemRefused, Serve, TypeOK
    <2>2. \A b \in Call \ {c} : request'[b] = request[b]
      BY <1>3, ServeStep
    <2>3. UNCHANGED <<call, delivered, shells>>
      BY <1>3, ServeStep
    <2>. QED  BY <2>1, <2>2, <2>3, NothingAccepted DEF Accepted
  <1>4. ASSUME NEW c \in Call, RedeemMaintenanceTicket(c) PROVE TicketsInv'
    BY <1>4, RedeemTickets
  <1>5. ASSUME NEW c \in Call, Open(c) PROVE TicketsInv'
    <2>1. CASE Granted(c) \/ Start(c)
      BY <2>1, GrantedTickets, StartTickets
    <2>2. CASE ~Granted(c) /\ ~Start(c)
      <3>1. UNCHANGED <<tickets, delivered, shells>>
        BY <1>5, <2>2 DEF Open, HasSessions, Lock, Rejected, Timeout, StartFails, Opened,
           NotOpened
      <3>2. Accepted(c)' =>
               /\ Accepted(c) /\ (request'[c] = "granted" <=> request[c] = "granted")
               /\ call'[c].ticket = call[c].ticket /\ call'[c].device = call[c].device
        <4>1. CASE HasSessions(c) \/ Lock(c) \/ StartFails(c) \/ Opened(c) \/ NotOpened(c)
          <5>1. call'[c].next # "start"
            BY <1>5, <4>1, OpenStep DEF HasSessions, Lock, StartFails, Opened, NotOpened
          <5>2. request'[c] # "granted"
            BY <1>5, <4>1 DEF HasSessions, Lock, StartFails, Opened, NotOpened, RequestsOwned,
               TypeOK
          <5>. QED  BY <5>1, <5>2 DEF Accepted
        <4>2. CASE Rejected(c)
          BY <4>2 DEF Rejected, Return, Idle, Accepted, TypeOK
        <4>3. CASE Timeout(c)
          <5>1. request' = request /\ request[c] # "none"
            BY <4>3 DEF Timeout, RequestsOwned
          <5>2. call'[c] = Left(c)
            BY <4>3 DEF Timeout, TypeOK
          <5>. QED  BY <5>1, <5>2, LeftTypes DEF Accepted
        <4>. QED  BY <1>5, <2>2, <4>1, <4>2, <4>3 DEF Open
      <3>3. \A b \in Call \ {c} : call'[b] = call[b] /\ request'[b] = request[b]
        BY <1>5, OpenStep
      <3>4. \A b \in Call : Accepted(b)' =>
               /\ Accepted(b) /\ (request'[b] = "granted" <=> request[b] = "granted")
               /\ call'[b].ticket = call[b].ticket /\ call'[b].device = call[b].device
        BY <3>2, <3>3 DEF Accepted
      <3>. QED  BY <3>1, <3>4, NothingAccepted
    <2>. QED  BY <2>1, <2>2
  <1>6. ASSUME NEW c \in Call, Dropped(c) PROVE TicketsInv'
    BY <1>6, DroppedStep, NothingAccepted DEF Accepted
  <1>7. ASSUME NEW c \in Call, NEW t \in Ticket, NEW d \in Device, Accept(c, t, d)
        PROVE  TicketsInv'
    <2>1. request[c] = "none"
      BY <1>7, AcceptStep DEF RequestsOwned, TypeOK
    <2>. QED  BY <1>7, <2>1, AcceptStep, NothingAccepted DEF Accepted
  <1>8. ASSUME NEW d \in Device, RestartAgent(d) PROVE TicketsInv'
    BY <1>8, RestartStep, NothingAccepted DEF Accepted
  <1>. QED  BY Kinds, <1>1, <1>2, <1>3, <1>4, <1>5, <1>6, <1>7, <1>8

-----------------------------------------------------------------------------
(* The theorems. *)

LEMMA InitInv == Init => MaintenanceInv /\ ShellAuthorised
  <1>. SUFFICES ASSUME Init PROVE MaintenanceInv /\ ShellAuthorised
    OBVIOUS
  <1>1. TypeOK
    BY InitType
  <1>2. \A c \in Call : call[c].next = "idle" /\ request[c] = "none"
    BY DEF Init, Idle
  <1>3. BrokerExclusive
    BY <1>2 DEF Init, BrokerExclusive, Holds
  <1>4. RequestsOwned /\ GrantsPending
    BY <1>2 DEF RequestsOwned, GrantsPending, Accepted
  <1>5. UnusedOpensNothing /\ ShellAuthorised
    BY DEF Init, UnusedOpensNothing, ShellAuthorised
  <1>. QED  BY <1>1, <1>3, <1>4, <1>5 DEF MaintenanceInv

LEMMA BothInvariants == Spec => [](MaintenanceInv /\ ShellAuthorised)
  <1>1. MaintenanceInv /\ ShellAuthorised /\ [Next]_vars => (MaintenanceInv /\ ShellAuthorised)'
    BY StepType, StepRequests, StepBroker, StepTickets DEF MaintenanceInv, TicketsInv
  <1>. QED  BY InitInv, <1>1, PTL DEF Spec

\* The broker's flag is set exactly while one Open or one monitor stands for it,
\* and an accepted redemption is one call's alone, whatever is refused, times
\* out, is committed late or restarts (Broker.Open, its monitor, the redemption).
THEOREM MaintenanceInvariant == Spec => []MaintenanceInv
  <1>. QED  BY BothInvariants, PTL

\* A maintenance ticket asks for at most one shell, on its own device, after the
\* controller accepted it (RedeemMaintenanceTicket, Broker.Open).
THEOREM OneShellPerTicket == Spec => []ShellAuthorised
  <1>. QED  BY BothInvariants, PTL

-----------------------------------------------------------------------------
(* The gate. *)

\* The sessions of a device and those a call remembers were launched before.
Numbered ==
    /\ \A d \in Device : sessions[d] \subseteq 1..launched
    /\ \A c \in Call : call[c].before \subseteq 1..launched

GateInv == Numbered /\ OldSessionsClosed

\* A step that changes no call but to idle or "left", and opens no session.
LEMMA GateQuiet ==
    ASSUME TypeOK, GateInv, launched' = launched,
           \A d \in Device : sessions'[d] \subseteq sessions[d],
           \A c \in Call :
               \/ call'[c] = call[c]
               \/ /\ call'[c].next \in {"idle", "left"} /\ call'[c].before \subseteq call[c].before
    PROVE  GateInv'
  <1>1. \A c \in Call : call[c].next \in {"lock", "redeem", "start", "state"} =>
            call[c].device \in Device
    BY CallTypes
  <1>2. Numbered'
    BY DEF GateInv, Numbered
  <1>3. OldSessionsClosed'
    BY <1>1 DEF GateInv, OldSessionsClosed
  <1>. QED  BY <1>2, <1>3 DEF GateInv

\* Open lets a call go on only if there is no session, and a session launched
\* later was not there before.
LEMMA StepGate ==
    ASSUME TypeOK, RequestsOwned, GateInv, [Next]_vars
    PROVE  GateInv'
  <1>. USE DEF controllerVars, sessionVars
  <1>1. CASE \/ Tick \/ UNCHANGED vars \/ Controller
             \/ \E d \in Device : Done(d) \/ Exit(d)
             \/ \E d \in Device, state \in {"up", "down"} : RunJob(d, state)
    <2>1. UNCHANGED <<call, sessions, launched>>
      BY <1>1 DEF Tick, vars, Controller, UpdateUser, UpdateDevice, Authorise, InsertTicket,
         CheckDevice, RedeemMaintenanceTicket, RedeemRefused, Serve, Done, Exit, RunJob
    <2>. QED  BY <2>1, GateQuiet
  <1>2. ASSUME NEW c \in Call, Open(c) PROVE GateInv'
    <2>1. sessions' = sessions /\ launched' = launched
      BY <1>2 DEF Open, HasSessions, Lock, Granted, Rejected, Timeout, Start, StartFails,
         Opened, NotOpened
    <2>2. call[c].next # "idle" /\ \A b \in Call \ {c} : call'[b] = call[b]
      BY <1>2, OpenStep
    <2>3. CASE Return(c) \/ Timeout(c)
      <3>1. call'[c].next \in {"idle", "left"} /\ call'[c].before \subseteq call[c].before
        <4>1. CASE Return(c)
          BY <4>1 DEF Return, TypeOK, Idle
        <4>2. CASE Timeout(c)
          <5>1. request[c] # "none"
            BY <4>2 DEF Timeout, RequestsOwned
          <5>2. call'[c] = [call[c] EXCEPT !.next = "left"]
            BY <4>2, <5>1 DEF Timeout, Left, TypeOK
          <5>. QED  BY <2>2, <5>2, GotoTypes DEF Steps
        <4>. QED  BY <2>3, <4>1, <4>2
      <3>. QED  BY <2>1, <2>2, <3>1, GateQuiet
    <2>4. ASSUME NEW n \in {"lock", "redeem", "start", "state"}, Goto(c, n),
                 n = "lock" => sessions[call[c].device] = {},
                 n # "lock" => call[c].next \in {"lock", "redeem", "start", "state"}
          PROVE  GateInv'
      <3>1. call'[c].before = call[c].before /\ call'[c].device = call[c].device
        <4>1. n \in Steps /\ call'[c] = [call[c] EXCEPT !.next = n]
          BY <2>4 DEF Steps, Goto, TypeOK
        <4>. QED  BY <2>2, <4>1, GotoTypes
      <3>2. call'[c].before \cap sessions[call'[c].device] = {}
        BY <2>4, <3>1 DEF GateInv, OldSessionsClosed
      <3>. QED  BY <2>1, <2>2, <3>1, <3>2 DEF GateInv, Numbered, OldSessionsClosed
    <2>. QED
      BY <1>2, <2>3, <2>4 DEF Open, HasSessions, Lock, Granted, Rejected, Start, StartFails,
         Opened, NotOpened
  <1>3. ASSUME NEW c \in Call, Dropped(c) PROVE GateInv'
    <2>1. call'[c] = Idle /\ \A b \in Call \ {c} : call'[b] = call[b]
      BY <1>3 DEF Dropped, TypeOK
    <2>2. sessions' = sessions /\ launched' = launched /\ Idle.next = "idle" /\ Idle.before = {}
      BY <1>3 DEF Dropped, Idle
    <2>. QED  BY <2>1, <2>2, GateQuiet
  <1>4. ASSUME NEW c \in Call, NEW t \in Ticket, NEW d \in Device, Accept(c, t, d)
        PROVE  GateInv'
    <2>1. /\ call'[c].next = "HasSessions" /\ call'[c].before = sessions[d]
          /\ \A b \in Call \ {c} : call'[b] = call[b]
          /\ sessions' = sessions /\ launched' = launched
      BY <1>4 DEF Accept, TypeOK
    <2>. QED  BY <2>1 DEF GateInv, Numbered, OldSessionsClosed
  <1>5. ASSUME NEW d \in Device, LaunchSession(d) PROVE GateInv'
    <2>1. /\ launched' = launched + 1 /\ launched \in Nat /\ call' = call
          /\ \A e \in Device : sessions'[e] \subseteq sessions[e] \cup {launched + 1}
      BY <1>5, MaintenanceAssumption DEF LaunchSession, TypeOK
    <2>2. launched + 1 \notin 1..launched /\ 1..launched \subseteq 1..(launched + 1)
      BY <2>1
    <2>3. \A c \in Call : launched + 1 \notin call[c].before
      BY <2>2 DEF GateInv, Numbered
    <2>4. Numbered'
      BY <2>1, <2>2 DEF GateInv, Numbered
    <2>5. \A c \in Call : call[c].next \in {"lock", "redeem", "start", "state"} =>
              call[c].device \in Device
      BY CallTypes
    <2>6. OldSessionsClosed'
      BY <2>1, <2>3, <2>5 DEF GateInv, OldSessionsClosed
    <2>. QED  BY <2>4, <2>6 DEF GateInv
  <1>6. ASSUME NEW d \in Device, NEW s \in 1..MaxSessions, EndSession(d, s) PROVE GateInv'
    <2>1. /\ launched' = launched /\ call' = call
          /\ \A e \in Device : sessions'[e] \subseteq sessions[e]
      BY <1>6 DEF EndSession, TypeOK
    <2>. QED  BY <2>1, GateQuiet
  <1>7. ASSUME NEW d \in Device, RestartAgent(d) PROVE GateInv'
    <2>1. /\ launched' = launched
          /\ \A e \in Device : sessions'[e] \subseteq sessions[e]
      BY <1>7 DEF RestartAgent, TypeOK
    <2>2. \A c \in Call :
              \/ call'[c] = call[c]
              \/ call'[c].next \in {"idle", "left"} /\ call'[c].before \subseteq call[c].before
      <3>. SUFFICES ASSUME NEW c \in Call, call'[c] # call[c]
                    PROVE  /\ call'[c].next \in {"idle", "left"}
                           /\ call'[c].before \subseteq call[c].before
        OBVIOUS
      <3>1. call'[c] = Left(c)
        BY <1>7 DEF RestartAgent
      <3>2. CASE request[c] = "none"
        BY <3>1, <3>2 DEF Left, Idle
      <3>3. CASE request[c] # "none"
        <4>1. call[c].next # "idle"
          BY <3>3 DEF RequestsOwned
        <4>. QED  BY <3>1, <3>3, <4>1, GotoTypes DEF Left, Steps
      <3>. QED  BY <3>2, <3>3
    <2>. QED  BY <2>1, <2>2, GateQuiet
  <1>. QED  BY <1>1, <1>2, <1>3, <1>4, <1>5, <1>6, <1>7 DEF Next

\* No call that has passed the gate goes on beside a session that was there when
\* it was made (localapi.Server.handle, HasSessions).
THEOREM GateHolds == Spec => []OldSessionsClosed
  <1>1. Init => GateInv
    BY MaintenanceAssumption DEF Init, GateInv, Numbered, OldSessionsClosed, Idle
  <1>2. MaintenanceInv /\ GateInv /\ [Next]_vars => GateInv'
    BY StepGate DEF MaintenanceInv
  <1>3. GateInv => OldSessionsClosed
    BY DEF GateInv
  <1>. QED  BY <1>1, <1>2, <1>3, MaintenanceInvariant, PTL DEF Spec

-----------------------------------------------------------------------------
(* Tickets keep the promise. *)

LEMMA InitPromise == Init => Promise!Init
  BY DEF Init, Promise!Init, Slots, Outbox

\* A step that neither accepts a redemption nor takes one off the wire.
LEMMA SameOutbox ==
    ASSUME \A c \in Call :
               /\ request'[c] = "granted" <=> request[c] = "granted"
               /\ request[c] = "granted" => /\ call'[c].ticket = call[c].ticket
                                            /\ call'[c].device = call[c].device
    PROVE  Outbox' = Outbox
  BY DEF Outbox

\* An accepted redemption is taken off the wire; no other call has one of the
\* same ticket.
LEMMA LeavesOutbox ==
    ASSUME TypeOK, RequestsOwned, GrantsPending, NEW c \in Call, request[c] = "granted",
           request'[c] # "granted",
           \A b \in Call \ {c} : call'[b] = call[b] /\ request'[b] = request[b]
    PROVE  /\ call[c].ticket \in Ticket /\ call[c].device \in Device
           /\ <<call[c].ticket, call[c].device>> \in Outbox
           /\ Outbox' = Outbox \ {<<call[c].ticket, call[c].device>>}
  <1>1. Accepted(c) /\ \A b \in Call \ {c} : request[b] = "granted" => call[b].ticket # call[c].ticket
    BY DEF Accepted, GrantsPending
  <1>. QED  BY <1>1, AcceptedTypes DEF Outbox

LEMMA StepPromise ==
    ASSUME MaintenanceInv, [Next]_vars
    PROVE  [Promise!Next]_(Promise!vars)
  <1>. USE DEF controllerVars
  <1>0. TypeOK /\ RequestsOwned /\ GrantsPending
    BY DEF MaintenanceInv
  <1>1. ASSUME Outbox' = Outbox, UNCHANGED <<tickets, delivered>>
        PROVE  [Promise!Next]_(Promise!vars)
    BY <1>1 DEF Slots, Promise!vars
  <1>2. CASE Elsewhere \/ \E d \in Device : Done(d)
    <2>1. UNCHANGED <<tickets, call, request, delivered>>
      BY <1>2, ElsewhereKeeps DEF Done
    <2>. QED  BY <1>1, <2>1, SameOutbox
  <1>3. ASSUME NEW t \in Ticket, NEW u \in Administrator, NEW d \in Device, Authorise(t, u, d)
        PROVE  [Promise!Next]_(Promise!vars)
    <2>1. /\ tickets[t].state = "unissued" /\ tickets'[t].state = "authorised"
          /\ \A r \in Ticket \ {t} : tickets'[r] = tickets[r]
          /\ UNCHANGED <<call, request, delivered>>
      BY <1>0, <1>3 DEF Authorise, TypeOK
    <2>2. Slots' = Slots
      BY <2>1 DEF Slots
    <2>3. Outbox' = Outbox
      BY <2>1, SameOutbox
    <2>. QED  BY <2>1, <2>2, <2>3 DEF Promise!vars
  <1>4. ASSUME NEW t \in Ticket, InsertTicket(t) PROVE [Promise!Next]_(Promise!vars)
    <2>. DEFINE d == tickets[t].device
    <2>0. now + TicketTTL \in Nat
      BY <1>0, MaintenanceAssumption DEF TypeOK
    <2>1. /\ tickets[t].state = "authorised" /\ d \in Device
          /\ tickets'[t].state = "open" /\ tickets'[t].device = d
          /\ \A r \in Ticket \ {t} : tickets'[r] = tickets[r]
          /\ UNCHANGED <<call, request, delivered>>
      <3>1. /\ tickets[t].state = "authorised" /\ UNCHANGED <<call, request, delivered>>
            /\ tickets'[t] = [tickets[t] EXCEPT !.state = "open", !.expires = now + TicketTTL]
            /\ \A r \in Ticket \ {t} : tickets'[r] = tickets[r]
        BY <1>0, <1>4 DEF InsertTicket, TypeOK
      <3>2. d \in Device
        BY <1>0, <3>1, RowTypes
      <3>3. \A n \in Nat :
                /\ [tickets[t] EXCEPT !.state = "open", !.expires = n].state = "open"
                /\ [tickets[t] EXCEPT !.state = "open", !.expires = n].device = d
        BY <1>0, <3>1, RowTypes
      <3>4. tickets'[t].state = "open" /\ tickets'[t].device = d
        BY <2>0, <3>1, <3>3
      <3>. QED  BY <3>1, <3>2, <3>4
    <2>2. Outbox' = Outbox
      BY <2>1, SameOutbox
    <2>. HIDE DEF d
    <2>3. Slots[t].state = "unissued" /\ Slots' = [Slots EXCEPT ![t] = [state |-> "open", device |-> d]]
      BY <2>1 DEF Slots
    <2>4. Promise!Issue(t, d)
      BY <2>1, <2>2, <2>3 DEF Promise!Issue
    <2>. QED  BY <2>1, <2>4 DEF Promise!Next
  <1>5. ASSUME NEW c \in Call, RedeemMaintenanceTicket(c) PROVE [Promise!Next]_(Promise!vars)
    <2>. DEFINE t == call[c].ticket
                d == call[c].device
    <2>1. /\ t \in Ticket /\ d \in Device
          /\ tickets[t].state = "open" /\ tickets[t].device = d
      BY <1>0, <1>5, CallTypes DEF RedeemMaintenanceTicket, Redeemable, RequestsOwned
    <2>2. /\ tickets'[t].state = "redeemed" /\ tickets'[t].device = d
          /\ \A r \in Ticket \ {t} : tickets'[r] = tickets[r]
      BY <1>0, <1>5, <2>1, RowTypes DEF RedeemMaintenanceTicket, TypeOK
    <2>3. /\ request'[c] = "granted" /\ \A b \in Call \ {c} : request'[b] = request[b]
          /\ request[c] # "granted" /\ UNCHANGED <<call, delivered>>
      BY <1>0, <1>5 DEF RedeemMaintenanceTicket, Serve, TypeOK
    <2>4. Outbox' = Outbox \cup {<<t, d>>}
      BY <2>3 DEF Outbox
    <2>. HIDE DEF t, d
    <2>5. /\ Slots[t] = [state |-> "open", device |-> d]
          /\ Slots' = [Slots EXCEPT ![t].state = "used"]
      BY <2>1, <2>2 DEF Slots
    <2>6. Promise!Use(t, d)
      BY <2>3, <2>4, <2>5 DEF Promise!Use
    <2>. QED  BY <2>1, <2>6 DEF Promise!Next
  <1>6. ASSUME NEW c \in Call, CheckDevice(c) \/ RedeemRefused(c)
        PROVE  [Promise!Next]_(Promise!vars)
    <2>1. /\ request[c] # "granted" /\ request'[c] # "granted"
          /\ \A b \in Call \ {c} : request'[b] = request[b]
          /\ UNCHANGED <<tickets, call, delivered>>
      BY <1>0, <1>6 DEF CheckDevice, RedeemRefused, Serve, TypeOK
    <2>. QED  BY <1>1, <2>1, SameOutbox
  <1>7. ASSUME NEW c \in Call, Open(c) PROVE [Promise!Next]_(Promise!vars)
    <2>1. \A b \in Call \ {c} : call'[b] = call[b] /\ request'[b] = request[b]
      BY <1>0, <1>7, OpenStep
    <2>2. CASE Granted(c)
      <3>1. request[c] = "granted" /\ request'[c] # "granted" /\ tickets' = tickets
        BY <1>0, <2>2 DEF Granted, TypeOK
      <3>2. Promise!Deliver(call[c].ticket, call[c].device)
        BY <1>0, <2>1, <2>2, <3>1, LeavesOutbox DEF Promise!Deliver, Granted, Slots
      <3>. QED  BY <1>0, <2>1, <3>1, <3>2, LeavesOutbox DEF Promise!Next
    <2>3. CASE ~Granted(c)
      <3>1. UNCHANGED <<tickets, delivered>>
        BY <1>7, <2>3 DEF Open, HasSessions, Lock, Rejected, Timeout, Start, StartFails,
           Opened, NotOpened
      <3>2. /\ request'[c] = "granted" <=> request[c] = "granted"
            /\ request[c] = "granted" => /\ call'[c].ticket = call[c].ticket
                                         /\ call'[c].device = call[c].device
        <4>1. CASE Timeout(c)
          BY <1>0, <4>1, LeftTypes DEF Timeout, TypeOK
        <4>2. CASE Rejected(c)
          BY <1>0, <4>2 DEF Rejected, TypeOK
        <4>3. CASE HasSessions(c) \/ Lock(c) \/ Start(c) \/ StartFails(c) \/ Opened(c) \/ NotOpened(c)
          BY <1>0, <4>3 DEF HasSessions, Lock, Start, StartFails, Opened, NotOpened,
             RequestsOwned, TypeOK
        <4>. QED  BY <1>7, <2>3, <4>1, <4>2, <4>3 DEF Open
      <3>3. Outbox' = Outbox
        BY <2>1, <3>2, SameOutbox
      <3>. QED  BY <1>1, <3>1, <3>3
    <2>. QED  BY <2>2, <2>3
  <1>8. ASSUME NEW c \in Call, Dropped(c) PROVE [Promise!Next]_(Promise!vars)
    <2>1. /\ request'[c] = "none" /\ UNCHANGED <<tickets, delivered>>
          /\ \A b \in Call \ {c} : call'[b] = call[b] /\ request'[b] = request[b]
      BY <1>0, <1>8, DroppedStep
    <2>2. CASE request[c] = "granted"
      <3>1. Promise!Lose(call[c].ticket, call[c].device)
        BY <1>0, <2>1, <2>2, LeavesOutbox DEF Promise!Lose, Slots
      <3>. QED  BY <1>0, <2>1, <2>2, <3>1, LeavesOutbox DEF Promise!Next
    <2>3. CASE request[c] # "granted"
      BY <1>1, <2>1, <2>3, SameOutbox
    <2>. QED  BY <2>2, <2>3
  <1>9. ASSUME NEW c \in Call, NEW t \in Ticket, NEW d \in Device, Accept(c, t, d)
        PROVE  [Promise!Next]_(Promise!vars)
    <2>1. request[c] # "granted"
      BY <1>0, <1>9, AcceptStep DEF RequestsOwned
    <2>. QED  BY <1>0, <1>1, <1>9, <2>1, AcceptStep, SameOutbox
  <1>10. ASSUME NEW d \in Device, RestartAgent(d) PROVE [Promise!Next]_(Promise!vars)
    BY <1>0, <1>1, <1>10, RestartStep, SameOutbox
  <1>. QED
    BY Kinds, <1>2, <1>3, <1>4, <1>5, <1>6, <1>7, <1>8, <1>9, <1>10

\* Maintenance tickets implement the single-use, device-bound ticket, for any
\* number of devices, calls and late commits (CreateMaintenanceTicket,
\* RedeemMaintenanceTicket, Broker.Open).
THEOREM MaintenanceKeepsPromise == Spec => KeepsPromise
  <1>. QED
    BY InitPromise, StepPromise, MaintenanceInvariant, PTL
    DEF Spec, KeepsPromise, Promise!Spec
=============================================================================
