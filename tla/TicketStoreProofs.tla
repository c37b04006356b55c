-------------------------- MODULE TicketStoreProofs --------------------------
(***************************************************************************)
(* Proofs about TicketStore: type correctness, the inductive invariant     *)
(* TicketInv, with it that the store implements SingleUse, that no row     *)
(* outlives the row it refers to, and that a change of policy reaches the  *)
(* tickets that can still be used.                                         *)
(***************************************************************************)
EXTENDS TicketStore, TLAPS

-----------------------------------------------------------------------------
(* Types. *)

\* A call record that keeps its shape is a Call.
LEMMA CallTypes ==
    ASSUME TypeOK, NEW r \in Request
    PROVE  /\ request[r] \in Call
           /\ Idle \in Call
  BY DEF TypeOK, Call, Idle

LEMMA RowTypes ==
    /\ NoRow("unissued") \in Row
    /\ NoRow("deleted") \in Row
  BY DEF NoRow, Row

LEMMA InitType == Init => TypeOK
  <1>. SUFFICES ASSUME Init PROVE TypeOK
    OBVIOUS
  <1>1. now \in 0..Horizon
    BY StoreAssumption DEF Init
  <1>2. permission \subseteq (User \cup Group) \X Connection
    BY DEF Init
  <1>3. tickets \in [Ticket -> Row]
    BY RowTypes DEF Init
  <1>4. request \in [Request -> Call]
    BY DEF Init, Call, Idle
  <1>5. policy \in [User -> Policies]
    BY DEF Init, Policies
  <1>. QED
    BY <1>1, <1>2, <1>3, <1>4, <1>5 DEF Init, TypeOK

\* Every step keeps the types; a row and a call are put together from what
\* HandlersReady says the handler has read.
LEMMA StepType == TypeOK /\ HandlersReady /\ [Next]_vars => TypeOK'
  <1>. SUFFICES ASSUME TypeOK, HandlersReady, [Next]_vars PROVE TypeOK'
    OBVIOUS
  <1>. USE DEF aclVars, agentVars
  <1>1. CASE Tick
    BY <1>1, StoreAssumption DEF TypeOK, Tick
  <1>2. ASSUME NEW r \in Request, Arrive(r) PROVE TypeOK'
    <2>1. ASSUME NEW u \in User, NEW c \in Connection, NEW d \in Device, Launch(r, u, c, d)
          PROVE  TypeOK'
      BY <2>1 DEF TypeOK, Launch, Call, Idle
    <2>2. ASSUME NEW t \in Ticket, NEW d \in Device, Redeem(r, t, d) PROVE TypeOK'
      BY <2>2 DEF TypeOK, Redeem, Call, Idle
    <2>3. ASSUME NEW t \in Ticket, NEW e \in Events, ReceiveEvent(r, t, e) PROVE TypeOK'
      BY <2>3 DEF TypeOK, ReceiveEvent, Call, Idle
    <2>4. ASSUME NEW u \in User, NEW p \in Policies, UpdatePolicy(r, u, p) PROVE TypeOK'
      BY <2>4 DEF TypeOK, UpdatePolicy, Call, Idle, Deciding
    <2>. QED  BY <1>2, <2>1, <2>2, <2>3, <2>4 DEF Arrive
  <1>3. ASSUME NEW r \in Request, Handle(r) PROVE TypeOK'
    <2>. DEFINE q == request[r]
    <2>0. q \in Call /\ Idle \in Call
      BY CallTypes
    <2>1. CASE CheckCanLaunch(r) \/ CheckDevice(r) \/ CheckTicket(r) \/ FindUsage(r)
      <3>1. request' = [request EXCEPT ![r] = Idle]
               \/ \E n \in {"PolicyStatus", "insert", "start", "started_at", "end"} :
                     request' = [request EXCEPT ![r].next = n]
        BY <2>1 DEF CheckCanLaunch, CheckDevice, CheckTicket, FindUsage, Check, Continue, Reply
      <3>2. request' \in [Request -> Call]
        <4>1. CASE request' = [request EXCEPT ![r] = Idle]
          BY <2>0, <4>1 DEF TypeOK
        <4>2. ASSUME NEW n \in {"PolicyStatus", "insert", "start", "started_at", "end"},
                     request' = [request EXCEPT ![r].next = n]
              PROVE  request' \in [Request -> Call]
          <5>1. [q EXCEPT !.next = n] \in Call
            BY <2>0 DEF Call
          <5>. QED  BY <4>2, <5>1 DEF TypeOK
        <4>. QED  BY <3>1, <4>1, <4>2
      <3>. QED
        BY <2>1, <3>2 DEF TypeOK, CheckCanLaunch, CheckDevice, CheckTicket, FindUsage, Check
    <2>2. CASE CheckPolicyStatus(r)
      <3>1. q.next = "PolicyStatus" /\ q.user \in User
        BY <2>2 DEF CheckPolicyStatus, HandlersReady
      <3>2. policy[q.user] \in Policies
        BY <3>1 DEF TypeOK
      <3>3. request' \in [Request -> Call]
        BY <2>0, <2>2, <3>2 DEF TypeOK, CheckPolicyStatus, Call
      <3>. QED  BY <2>2, <3>3 DEF TypeOK, CheckPolicyStatus
    <2>3. ASSUME NEW t \in Ticket, InsertTicket(r, t) PROVE TypeOK'
      <3>1. q.user \in User /\ q.connection \in Connection /\ q.device \in Device
               /\ q.policy \in Policies
        BY <2>3 DEF InsertTicket, HandlersReady
      <3>2. now + TicketTTL \in Nat
        BY StoreAssumption DEF TypeOK
      <3>3. tickets' \in [Ticket -> Row]
        BY <2>3, <3>1, <3>2 DEF TypeOK, InsertTicket, Row
      <3>. QED  BY <2>0, <2>3, <3>3 DEF TypeOK, InsertTicket, Reply
    <2>4. CASE RedeemLaunchTicket(r)
      <3>1. q.ticket \in Ticket /\ tickets[q.ticket] \in Row /\ tickets[q.ticket].state = "open"
        BY <2>4 DEF TypeOK, RedeemLaunchTicket, Redeemable, HandlersReady
      <3>2. tickets' \in [Ticket -> Row]
        BY <2>4, <3>1 DEF TypeOK, RedeemLaunchTicket, Row
      <3>3. request' \in [Request -> Call]
        BY <2>0, <2>4 DEF TypeOK, RedeemLaunchTicket, Continue, Call
      <3>. QED  BY <2>4, <3>2, <3>3 DEF TypeOK, RedeemLaunchTicket
    <2>5. CASE RedeemRefused(r) \/ LoseReply(r) \/ PurgeFails(r)
      BY <2>0, <2>5 DEF TypeOK, RedeemRefused, LoseReply, PurgeFails, Reply, Unredeemed
    <2>6. CASE Deliver(r)
      <3>1. q.ticket \in Ticket /\ q.device \in Device
        BY <2>6 DEF Deliver, HandlersReady
      <3>. QED  BY <2>0, <2>6, <3>1 DEF TypeOK, Deliver, Reply
    <2>7. CASE OpenUsage(r) \/ CloseUsage(r)
      BY <2>0, <2>7 DEF TypeOK, OpenUsage, CloseUsage, Reply
    <2>8. CASE PurgeTickets(r)
      BY <2>0, <2>8, RowTypes DEF TypeOK, PurgeTickets, DeleteTickets, Reply
    <2>. QED  BY <1>3, <2>1, <2>2, <2>3, <2>4, <2>5, <2>6, <2>7, <2>8 DEF Handle
  <1>4. ASSUME NEW t \in Ticket, SendStarted(t) PROVE TypeOK'
    BY <1>4 DEF TypeOK, SendStarted, Events
  <1>5. ASSUME NEW t \in Ticket, NEW e \in EndEvents, SendEnded(t, e) PROVE TypeOK'
    BY <1>5 DEF TypeOK, SendEnded, Events
  <1>6. ASSUME NEW t \in Ticket, NEW e \in Events, LoseEvent(t, e) PROVE TypeOK'
    BY <1>6 DEF TypeOK, LoseEvent
  <1>7. CASE Administer
    <2>1. ASSUME NEW c \in Connection, UpdateConnection(c) \/ DeleteConnection(c) PROVE TypeOK'
      <3>1. CASE UpdateConnection(c)
        BY <3>1 DEF TypeOK, UpdateConnection, Flip
      <3>2. CASE DeleteConnection(c)
        <4>1. tickets' \in [Ticket -> Row] /\ usage' \in [Ticket -> {"none", "open", "closed"}]
          BY <3>2, RowTypes DEF TypeOK, DeleteConnection, DeleteTickets
        <4>2. permission' \subseteq permission /\ outdated' \subseteq outdated
          BY <3>2 DEF DeleteConnection, DeleteTickets
        <4>. QED  BY <3>2, <4>1, <4>2 DEF TypeOK, DeleteConnection
      <3>. QED  BY <2>1, <3>1, <3>2
    <2>2. ASSUME NEW s \in User \cup Group, NEW c \in Connection, UpdatePermission(s, c)
          PROVE  TypeOK'
      BY <2>2 DEF TypeOK, UpdatePermission, Flip
    <2>3. ASSUME NEW g \in Group, DeleteGroup(g) PROVE TypeOK'
      BY <2>3 DEF TypeOK, DeleteGroup
    <2>5. ASSUME NEW g \in Group, NEW u \in User, UpdateMembership(u, g) PROVE TypeOK'
      BY <2>5 DEF TypeOK, UpdateMembership, Flip
    <2>4. CASE (\E u \in User : UpdateUser(u)) \/ (\E d \in Device : UpdateDevice(d))
      BY <2>4 DEF TypeOK, UpdateUser, UpdateDevice, Flip
    <2>. QED  BY <1>7, <2>1, <2>2, <2>3, <2>4, <2>5 DEF Administer
  <1>8. CASE UNCHANGED vars
    BY <1>8 DEF TypeOK, vars
  <1>. QED  BY <1>1, <1>2, <1>3, <1>4, <1>5, <1>6, <1>7, <1>8 DEF Next

-----------------------------------------------------------------------------
(* The inductive invariant. *)

LEMMA InitInv == Init => TicketInv
  BY DEF Init, TicketInv, HandlersReady, ManifestsPending, ManifestsReceived,
         DeliveredOnce, Idle

\* A step after which every handler has what it needs, that sends no manifest,
\* starts no reply and issues no used ticket anew, preserves the invariant.
LEMMA Quiet ==
    ASSUME TypeOK, TicketInv, HandlersReady', UNCHANGED delivered,
           \A r \in Request : request'[r].next = "reply" => request'[r] = request[r],
           \A t \in Ticket : tickets[t].state \in {"redeemed", "deleted"}
                                => tickets'[t].state \in {"redeemed", "deleted"}
    PROVE  TicketInv'
  <1>1. ManifestsPending'
    BY DEF TicketInv, ManifestsPending, HandlersReady
  <1>2. ManifestsReceived'
    BY DEF TicketInv, ManifestsReceived
  <1>3. DeliveredOnce'
    BY DEF TicketInv, DeliveredOnce
  <1>. QED  BY <1>1, <1>2, <1>3 DEF TicketInv

\* Its use for a handler that replies: the request is idle again.
LEMMA QuietReply ==
    ASSUME TypeOK, TicketInv, NEW r \in Request, Reply(r), UNCHANGED delivered,
           \A t \in Ticket : tickets[t].state \in {"redeemed", "deleted"}
                                => tickets'[t].state \in {"redeemed", "deleted"}
    PROVE  TicketInv'
  <1>1. \A q \in Request : request'[q] = IF q = r THEN Idle ELSE request[q]
    BY DEF TypeOK, Reply
  <1>2. HandlersReady'
    BY <1>1 DEF TicketInv, HandlersReady, Idle
  <1>3. \A q \in Request : request'[q].next = "reply" => request'[q] = request[q]
    BY <1>1 DEF Idle
  <1>. QED  BY <1>2, <1>3, Quiet

\* Its use for a step outside the handlers.
LEMMA QuietRequests ==
    ASSUME TypeOK, TicketInv, UNCHANGED <<request, delivered>>,
           \A t \in Ticket : tickets[t].state \in {"redeemed", "deleted"}
                                => tickets'[t].state \in {"redeemed", "deleted"}
    PROVE  TicketInv'
  <1>1. HandlersReady'
    BY DEF TicketInv, HandlersReady
  <1>. QED  BY <1>1, Quiet

\* Its use for a handler that gets new contents and does not reply yet.
LEMMA QuietCall ==
    ASSUME TypeOK, TicketInv, NEW r \in Request, NEW v, UNCHANGED <<tickets, delivered>>,
           request' = [request EXCEPT ![r] = v],
           v.next # "reply",
           v.next \in {"CanLaunch", "PolicyStatus", "device", "insert"} =>
              v.user \in User /\ v.connection \in Connection /\ v.device \in Device,
           v.next \in {"device", "insert"} => v.policy \in Policies,
           v.next \in {"redeem", "reply", "ticket", "start", "started_at", "end"} =>
              v.ticket \in Ticket /\ v.device \in Device
    PROVE  TicketInv'
  <1>1. \A q \in Request : request'[q] = IF q = r THEN v ELSE request[q]
    BY DEF TypeOK
  <1>2. HandlersReady'
    BY <1>1 DEF TicketInv, HandlersReady
  <1>3. \A q \in Request : request'[q].next = "reply" => request'[q] = request[q]
    BY <1>1
  <1>. QED  BY <1>2, <1>3, Quiet

LEMMA DeleteKeepsUsed ==
    ASSUME NEW T \in SUBSET Ticket, DeleteTickets(T)
    PROVE  \A t \in Ticket : tickets[t].state \in {"redeemed", "deleted"}
                                => tickets'[t].state \in {"redeemed", "deleted"}
  BY DEF DeleteTickets, NoRow

LEMMA ArriveInv ==
    ASSUME TypeOK, TicketInv, NEW r \in Request, Arrive(r)
    PROVE  TicketInv'
  <1>. USE DEF aclVars, agentVars
  <1>1. ASSUME NEW u \in User, NEW c \in Connection, NEW d \in Device, Launch(r, u, c, d)
        PROVE  TicketInv'
    <2>. DEFINE v == [Idle EXCEPT !.next = "CanLaunch", !.user = u, !.device = d,
                                  !.connection = c]
    <2>1. v.next = "CanLaunch" /\ v.user = u /\ v.device = d /\ v.connection = c
      BY DEF Idle
    <2>2. request' = [request EXCEPT ![r] = v] /\ UNCHANGED <<tickets, delivered>>
      BY <1>1 DEF Launch
    <2>. HIDE DEF v
    <2>. QED  BY <2>1, <2>2, QuietCall
  <1>2. ASSUME NEW t \in Ticket, NEW d \in Device, Redeem(r, t, d) PROVE TicketInv'
    <2>. DEFINE v == [Idle EXCEPT !.next = "redeem", !.ticket = t, !.device = d]
    <2>1. v.next = "redeem" /\ v.ticket = t /\ v.device = d
      BY DEF Idle
    <2>2. request' = [request EXCEPT ![r] = v] /\ UNCHANGED <<tickets, delivered>>
      BY <1>2 DEF Redeem
    <2>. HIDE DEF v
    <2>. QED  BY <2>1, <2>2, QuietCall
  <1>3. ASSUME NEW t \in Ticket, NEW e \in Events, ReceiveEvent(r, t, e) PROVE TicketInv'
    <2>. DEFINE d == Head(delivered[t])
                v == [Idle EXCEPT !.next = "ticket", !.ticket = t, !.device = d, !.event = e]
    <2>1. v.next = "ticket" /\ v.ticket = t /\ v.device = d
      BY DEF Idle
    <2>2. d \in Device
      BY <1>3 DEF ReceiveEvent, TypeOK
    <2>3. request' = [request EXCEPT ![r] = v] /\ UNCHANGED <<tickets, delivered>>
      BY <1>3 DEF ReceiveEvent
    <2>. HIDE DEF v, d
    <2>. QED  BY <2>1, <2>2, <2>3, QuietCall
  <1>4. ASSUME NEW u \in User, NEW p \in Policies, UpdatePolicy(r, u, p) PROVE TicketInv'
    <2>. DEFINE v == [Idle EXCEPT !.next = "purge", !.user = u]
    <2>1. v.next = "purge"
      BY DEF Idle
    <2>2. request' = [request EXCEPT ![r] = v] /\ UNCHANGED <<tickets, delivered>>
      BY <1>4 DEF UpdatePolicy
    <2>. HIDE DEF v
    <2>. QED  BY <2>1, <2>2, QuietCall
  <1>. QED  BY <1>1, <1>2, <1>3, <1>4 DEF Arrive

\* A check that passes needs no more than the handler has already.
LEMMA CheckInv ==
    ASSUME TypeOK, TicketInv, NEW r \in Request, NEW at, NEW passed, NEW next,
           Check(r, at, passed, next),
           \/ at = "CanLaunch" /\ next = "PolicyStatus"
           \/ at = "device" /\ next = "insert"
           \/ at = "ticket" /\ next \in {"start", "started_at"}
           \/ at = "started_at" /\ next = "end"
    PROVE  TicketInv'
  <1>. USE DEF aclVars, agentVars
  <1>1. CASE Reply(r)
    BY <1>1, QuietReply DEF Check
  <1>2. CASE Continue(r, next)
    <2>. DEFINE q == request[r]
                v == [q EXCEPT !.next = next]
    <2>1. q \in Call /\ q.next = at
      BY CallTypes DEF Check
    <2>2. v.next = next /\ v.user = q.user /\ v.device = q.device /\ v.ticket = q.ticket
             /\ v.connection = q.connection /\ v.policy = q.policy
      BY <2>1 DEF Call
    <2>3. request' = [request EXCEPT ![r] = v] /\ UNCHANGED <<tickets, delivered>>
      BY <1>2 DEF Continue, Check
    <2>4. HandlersReady
      BY DEF TicketInv
    <2>5. /\ v.next # "reply"
          /\ v.next \in {"CanLaunch", "PolicyStatus", "device", "insert"} =>
                v.user \in User /\ v.connection \in Connection /\ v.device \in Device
          /\ v.next \in {"device", "insert"} => v.policy \in Policies
          /\ v.next \in {"redeem", "reply", "ticket", "start", "started_at", "end"} =>
                v.ticket \in Ticket /\ v.device \in Device
      <3>. HIDE DEF v
      <3>. QED  BY <2>1, <2>2, <2>4 DEF HandlersReady
    <2>. HIDE DEF v
    <2>. QED  BY <2>3, <2>5, QuietCall
  <1>. QED  BY <1>1, <1>2 DEF Check

\* The transaction turns an open ticket into a used one, whose manifest nobody
\* can hold yet.
LEMMA RedeemInv ==
    ASSUME TypeOK, TicketInv, NEW r \in Request, RedeemLaunchTicket(r)
    PROVE  TicketInv'
  <1>. USE DEF aclVars, agentVars
  <1>. DEFINE t == request[r].ticket
              v == [request[r] EXCEPT !.next = "reply"]
  <1>1. /\ t \in Ticket /\ request[r].device \in Device /\ request[r] \in Call
        /\ request[r].next = "redeem" /\ tickets[t].state = "open"
    BY CallTypes DEF TicketInv, HandlersReady, RedeemLaunchTicket, Redeemable
  <1>2. v.next = "reply" /\ v.ticket = t /\ v.device = request[r].device
    BY <1>1 DEF Call
  <1>3. \A q \in Request : request'[q] = IF q = r THEN v ELSE request[q]
    BY DEF TypeOK, RedeemLaunchTicket, Continue
  <1>4. /\ tickets'[t].state = "redeemed"
        /\ \A s \in Ticket \ {t} : tickets'[s] = tickets[s]
        /\ delivered' = delivered
    BY <1>1 DEF TypeOK, Row, RedeemLaunchTicket
  <1>5. delivered[t] = <<>>
    BY <1>1 DEF TicketInv, ManifestsReceived
  <1>6. \A q \in Request : request[q].next = "reply" => request[q].ticket # t
    BY <1>1 DEF TicketInv, ManifestsPending
  <1>. HIDE DEF t, v
  <1>7. HandlersReady'
    BY <1>1, <1>2, <1>3 DEF TicketInv, HandlersReady
  <1>8. ManifestsPending'
    BY <1>1, <1>2, <1>3, <1>4, <1>5, <1>6 DEF TicketInv, ManifestsPending, HandlersReady
  <1>9. ManifestsReceived'
    BY <1>4, <1>5 DEF TicketInv, ManifestsReceived
  <1>10. DeliveredOnce'
    BY <1>4 DEF TicketInv, DeliveredOnce
  <1>. QED  BY <1>7, <1>8, <1>9, <1>10 DEF TicketInv

\* The one handler that holds a manifest hands it over.
LEMMA DeliverInv ==
    ASSUME TypeOK, TicketInv, NEW r \in Request, Deliver(r)
    PROVE  TicketInv'
  <1>. DEFINE t == request[r].ticket
  <1>1. /\ t \in Ticket /\ request[r].device \in Device
        /\ request[r].next = "reply"
        /\ delivered[t] = <<>> /\ tickets[t].state \in {"redeemed", "deleted"}
    BY DEF TicketInv, HandlersReady, ManifestsPending, Deliver
  <1>2. \A q \in Request : request'[q] = IF q = r THEN Idle ELSE request[q]
    BY DEF TypeOK, Deliver, Reply
  <1>3. /\ delivered'[t] = <<request[r].device>>
        /\ \A s \in Ticket \ {t} : delivered'[s] = delivered[s]
        /\ tickets' = tickets
    BY <1>1 DEF TypeOK, Deliver
  <1>4. \A q \in Request \ {r} : request[q].next = "reply" => request[q].ticket # t
    BY <1>1 DEF TicketInv, ManifestsPending
  <1>. HIDE DEF t
  <1>5. HandlersReady'
    BY <1>2 DEF TicketInv, HandlersReady, Idle
  <1>6. ManifestsPending'
    BY <1>2, <1>3, <1>4 DEF TicketInv, ManifestsPending, HandlersReady, Idle
  <1>7. ManifestsReceived'
    BY <1>1, <1>3 DEF TicketInv, ManifestsReceived
  <1>8. DeliveredOnce'
    <2>1. ASSUME NEW s \in Ticket PROVE Len(delivered'[s]) <= 1
      <3>1. CASE s = t
        <4>1. Len(<<request[r].device>>) <= 1
          OBVIOUS
        <4>. QED  BY <1>3, <3>1, <4>1
      <3>2. CASE s # t
        <4>1. delivered'[s] = delivered[s]
          BY <1>3, <3>2
        <4>. QED  BY <4>1 DEF TicketInv, DeliveredOnce
      <3>. QED  BY <3>1, <3>2
    <2>. QED  BY <2>1 DEF DeliveredOnce
  <1>. QED  BY <1>5, <1>6, <1>7, <1>8 DEF TicketInv

LEMMA HandleInv ==
    ASSUME TypeOK, TicketInv, NEW r \in Request, Handle(r)
    PROVE  TicketInv'
  <1>. USE DEF aclVars, agentVars
  <1>1. CASE CheckCanLaunch(r) \/ CheckDevice(r) \/ CheckTicket(r) \/ FindUsage(r)
    BY <1>1, CheckInv DEF CheckCanLaunch, CheckDevice, CheckTicket, FindUsage
  <1>2. CASE CheckPolicyStatus(r)
    <2>. DEFINE q == request[r]
                v == [q EXCEPT !.next = "device", !.policy = policy[q.user]]
    <2>1. /\ q \in Call /\ q.next = "PolicyStatus"
          /\ q.user \in User /\ q.connection \in Connection /\ q.device \in Device
      BY <1>2, CallTypes DEF CheckPolicyStatus, TicketInv, HandlersReady
    <2>2. v.next = "device" /\ v.user = q.user /\ v.device = q.device
             /\ v.connection = q.connection /\ v.policy = policy[q.user]
      BY <2>1 DEF Call
    <2>3. policy[q.user] \in Policies
      BY <2>1 DEF TypeOK
    <2>4. \/ Reply(r)
          \/ request' = [request EXCEPT ![r] = v]
      BY <1>2 DEF CheckPolicyStatus, Reply
    <2>5. UNCHANGED <<tickets, delivered>>
      BY <1>2 DEF CheckPolicyStatus
    <2>. HIDE DEF v
    <2>6. CASE Reply(r)
      BY <2>5, <2>6, QuietReply
    <2>7. CASE request' = [request EXCEPT ![r] = v]
      BY <2>1, <2>2, <2>3, <2>5, <2>7, QuietCall
    <2>. QED  BY <2>4, <2>6, <2>7
  <1>3. ASSUME NEW t \in Ticket, InsertTicket(r, t) PROVE TicketInv'
    <2>1. \A s \in Ticket : tickets[s].state \in {"redeemed", "deleted"}
                               => tickets'[s].state \in {"redeemed", "deleted"}
      BY <1>3 DEF InsertTicket, TypeOK
    <2>. QED  BY <1>3, <2>1, QuietReply DEF InsertTicket
  <1>4. CASE RedeemLaunchTicket(r)
    BY <1>4, RedeemInv
  <1>5. CASE Deliver(r)
    BY <1>5, DeliverInv
  <1>6. CASE RedeemRefused(r) \/ LoseReply(r) \/ PurgeFails(r) \/ OpenUsage(r) \/ CloseUsage(r)
    BY <1>6, QuietReply DEF RedeemRefused, LoseReply, PurgeFails, OpenUsage, CloseUsage
  <1>7. CASE PurgeTickets(r)
    <2>1. \A s \in Ticket : tickets[s].state \in {"redeemed", "deleted"}
                               => tickets'[s].state \in {"redeemed", "deleted"}
      BY <1>7, DeleteKeepsUsed DEF PurgeTickets, Unredeemed
    <2>. QED  BY <1>7, <2>1, QuietReply DEF PurgeTickets
  <1>. QED  BY <1>1, <1>2, <1>3, <1>4, <1>5, <1>6, <1>7 DEF Handle

LEMMA StepInv == TypeOK /\ TicketInv /\ [Next]_vars => TicketInv'
  <1>. SUFFICES ASSUME TypeOK, TicketInv, [Next]_vars PROVE TicketInv'
    OBVIOUS
  <1>. USE DEF aclVars, agentVars
  <1>1. ASSUME NEW r \in Request, Arrive(r) \/ Handle(r) PROVE TicketInv'
    BY <1>1, ArriveInv, HandleInv
  <1>2. ASSUME NEW c \in Connection, DeleteConnection(c) PROVE TicketInv'
    <2>1. \A s \in Ticket : tickets[s].state \in {"redeemed", "deleted"}
                               => tickets'[s].state \in {"redeemed", "deleted"}
      BY <1>2, DeleteKeepsUsed DEF DeleteConnection
    <2>. QED  BY <1>2, <2>1, QuietRequests DEF DeleteConnection
  <1>3. CASE UNCHANGED vars
    BY <1>3, QuietRequests DEF vars
  <1>4. CASE \/ Tick
             \/ \E t \in Ticket :
                   \/ SendStarted(t)
                   \/ \E e \in EndEvents : SendEnded(t, e)
                   \/ \E e \in Events : LoseEvent(t, e)
             \/ Administer /\ ~\E c \in Connection : DeleteConnection(c)
    <2>1. CASE Tick
      BY <2>1, QuietRequests DEF Tick
    <2>2. ASSUME NEW t \in Ticket,
                 \/ SendStarted(t)
                 \/ \E e \in EndEvents : SendEnded(t, e)
                 \/ \E e \in Events : LoseEvent(t, e)
          PROVE  UNCHANGED <<tickets, request, delivered>>
      BY <2>2 DEF SendStarted, SendEnded, LoseEvent
    <2>3. CASE Administer /\ ~\E c \in Connection : DeleteConnection(c)
      <3>1. UNCHANGED <<tickets, request, delivered>>
        BY <2>3 DEF Administer, UpdateUser, UpdateDevice, UpdateConnection,
                    UpdatePermission, DeleteGroup, UpdateMembership
      <3>. QED  BY <3>1, QuietRequests
    <2>. QED  BY <1>4, <2>1, <2>2, <2>3, QuietRequests
  <1>. QED  BY <1>1, <1>2, <1>3, <1>4 DEF Next

\* Type correctness of the store for any number of users, groups, devices,
\* connections, tickets and concurrent requests.
THEOREM StoreTypeCorrect == Spec => []TypeOK
  <1>1. TypeOK /\ TicketInv /\ [Next]_vars => (TypeOK /\ TicketInv)'
    BY StepType, StepInv DEF TicketInv
  <1>. QED  BY InitType, InitInv, <1>1, PTL DEF Spec

\* The inductive invariant: used tickets stay used, and a manifest is held by
\* one handler or has been received once (RedeemLaunchTicket, redeem).
THEOREM StoreInvariant == Spec => []TicketInv
  <1>1. TypeOK /\ TicketInv /\ [Next]_vars => (TypeOK /\ TicketInv)'
    BY StepType, StepInv DEF TicketInv
  <1>. QED  BY InitType, InitInv, <1>1, PTL DEF Spec

\* A ticket's manifest is received at most once, whatever is presented again,
\* lost, deleted or administered meanwhile (RedeemLaunchTicket).
THEOREM ManifestReceivedOnce == Spec => []DeliveredOnce
  <1>1. TicketInv => DeliveredOnce
    BY DEF TicketInv
  <1>. QED  BY StoreInvariant, <1>1, PTL

-----------------------------------------------------------------------------
(* Refinement of SingleUse. *)

LEMMA InitPromise == Init => Promise!Init
  BY DEF Init, Promise!Init, Slots, Outbox, NoRow, Idle

\* No manifest enters or leaves the outbox unless a handler begins or ends to
\* reply.
LEMMA SameOutbox ==
    ASSUME \A q \in Request : request[q].next = "reply" \/ request'[q].next = "reply"
                                 => request'[q] = request[q]
    PROVE  Outbox' = Outbox
  BY DEF Outbox

\* A request that is replaced, neither replying before nor after, is not seen.
LEMMA OutsideOutbox ==
    ASSUME TypeOK, NEW r \in Request, NEW v, request' = [request EXCEPT ![r] = v],
           request[r].next # "reply", v.next # "reply"
    PROVE  Outbox' = Outbox
  <1>1. \A q \in Request : request'[q] = IF q = r THEN v ELSE request[q]
    BY DEF TypeOK
  <1>. QED  BY <1>1, SameOutbox

\* A handler that ends without a manifest is not seen either.
LEMMA ReplyOutside ==
    ASSUME TypeOK, NEW r \in Request, Reply(r), request[r].next # "reply"
    PROVE  Outbox' = Outbox
  <1>1. \A q \in Request : request'[q] = IF q = r THEN Idle ELSE request[q]
    BY DEF TypeOK, Reply
  <1>2. Idle.next # "reply"
    BY DEF Idle
  <1>. QED  BY <1>1, <1>2, SameOutbox

\* The handler that ends to reply takes its manifest along, which no other
\* handler holds.
LEMMA LeavesOutbox ==
    ASSUME TypeOK, TicketInv, NEW r \in Request, request[r].next = "reply", Reply(r)
    PROVE  /\ <<request[r].ticket, request[r].device>> \in Outbox
           /\ Outbox' = Outbox \ {<<request[r].ticket, request[r].device>>}
  <1>1. \A q \in Request : request'[q] = IF q = r THEN Idle ELSE request[q]
    BY DEF TypeOK, Reply
  <1>2. \A q \in Request \ {r} :
            request[q].next = "reply" => request[q].ticket # request[r].ticket
    BY DEF TicketInv, ManifestsPending
  <1>. QED  BY <1>1, <1>2 DEF Outbox, Idle

\* Deleting tickets that were issued revokes them.
LEMMA DeleteRevokes ==
    ASSUME TypeOK, NEW T \in SUBSET Ticket, DeleteTickets(T),
           \A t \in T : tickets[t].state # "unissued",
           Outbox' = Outbox, delivered' = delivered
    PROVE  Promise!Next
  <1>1. Slots' = [t \in Ticket |-> IF t \in T THEN [state |-> "revoked", device |-> None]
                                             ELSE Slots[t]]
    BY DEF Slots, DeleteTickets, NoRow
  <1>2. \A t \in T : Slots[t].state # "unissued"
    BY DEF Slots, TypeOK, Row
  <1>3. Promise!Revoke(T)
    BY <1>1, <1>2 DEF Promise!Revoke
  <1>. QED  BY <1>3 DEF Promise!Next

LEMMA InsertPromise ==
    ASSUME TypeOK, TicketInv, NEW r \in Request, NEW t \in Ticket, InsertTicket(r, t)
    PROVE  [Promise!Next]_(Promise!vars)
  <1>. USE DEF aclVars, agentVars
  <1>1. Outbox' = Outbox
    BY ReplyOutside DEF InsertTicket
  <1>2. CASE request[r].connection \in deleted
    BY <1>1, <1>2 DEF InsertTicket, Slots, Promise!vars
  <1>3. CASE request[r].connection \notin deleted
    <2>1. request[r].device \in Device
      BY DEF InsertTicket, TicketInv, HandlersReady
    <2>2. Slots[t].state = "unissued"
      BY DEF InsertTicket, Slots
    <2>3. Slots' = [Slots EXCEPT ![t] = [state |-> "open", device |-> request[r].device]]
      BY <1>3 DEF InsertTicket, Slots, TypeOK
    <2>4. Promise!Issue(t, request[r].device)
      BY <1>1, <2>2, <2>3 DEF Promise!Issue, InsertTicket
    <2>. QED  BY <2>1, <2>4 DEF Promise!Next
  <1>. QED  BY <1>2, <1>3

LEMMA RedeemPromise ==
    ASSUME TypeOK, TicketInv, NEW r \in Request, RedeemLaunchTicket(r)
    PROVE  Promise!Next
  <1>. USE DEF aclVars, agentVars
  <1>. DEFINE t == request[r].ticket
              d == request[r].device
              v == [request[r] EXCEPT !.next = "reply"]
  <1>1. /\ t \in Ticket /\ d \in Device /\ request[r] \in Call
        /\ request[r].next = "redeem"
        /\ tickets[t].state = "open" /\ tickets[t].device = d
    BY CallTypes DEF TicketInv, HandlersReady, RedeemLaunchTicket, Redeemable
  <1>2. v.next = "reply" /\ v.ticket = t /\ v.device = d
    BY <1>1 DEF Call
  <1>3. \A q \in Request : request'[q] = IF q = r THEN v ELSE request[q]
    BY DEF TypeOK, RedeemLaunchTicket, Continue
  <1>4. Outbox' = Outbox \cup {<<t, d>>}
    <2>. HIDE DEF t, d, v
    <2>. QED  BY <1>1, <1>2, <1>3 DEF Outbox
  <1>5. Slots[t] = [state |-> "open", device |-> d]
    BY <1>1 DEF Slots
  <1>6. Slots' = [Slots EXCEPT ![t].state = "used"]
    <2>1. \A u \in Ticket : tickets'[u] = IF u = t THEN [tickets[u] EXCEPT !.state = "redeemed"]
                                           ELSE tickets[u]
      BY DEF RedeemLaunchTicket, TypeOK
    <2>2. tickets'[t].state = "redeemed" /\ tickets'[t].device = tickets[t].device
      BY <1>1, <2>1 DEF TypeOK, Row
    <2>. QED  BY <1>1, <2>1, <2>2 DEF Slots
  <1>7. Promise!Use(t, d)
    BY <1>4, <1>5, <1>6 DEF Promise!Use, RedeemLaunchTicket
  <1>. QED  BY <1>1, <1>7 DEF Promise!Next

\* A handler's step is a step of the promise or is not seen.
LEMMA HandlePromise ==
    ASSUME TypeOK, TicketInv, NEW r \in Request, Handle(r)
    PROVE  [Promise!Next]_(Promise!vars)
  <1>. USE DEF aclVars, agentVars
  <1>1. CASE CheckCanLaunch(r) \/ CheckDevice(r) \/ CheckTicket(r) \/ FindUsage(r)
    <2>1. request[r].next \in {"CanLaunch", "device", "ticket", "started_at"}
             /\ tickets' = tickets /\ delivered' = delivered
      BY <1>1 DEF CheckCanLaunch, CheckDevice, CheckTicket, FindUsage, Check
    <2>2. Reply(r) \/ \E n \in {"PolicyStatus", "insert", "start", "started_at", "end"} :
                          Continue(r, n)
      BY <1>1 DEF CheckCanLaunch, CheckDevice, CheckTicket, FindUsage, Check
    <2>3. Outbox' = Outbox
      <3>1. CASE Reply(r)
        BY <2>1, <3>1, ReplyOutside
      <3>2. ASSUME NEW n \in {"PolicyStatus", "insert", "start", "started_at", "end"},
                   Continue(r, n)
            PROVE  Outbox' = Outbox
        <4>. DEFINE v == [request[r] EXCEPT !.next = n]
        <4>1. v.next = n
          BY CallTypes DEF Call
        <4>2. request' = [request EXCEPT ![r] = v]
          BY <3>2 DEF Continue
        <4>. HIDE DEF v
        <4>. QED  BY <2>1, <4>1, <4>2, OutsideOutbox
      <3>. QED  BY <2>2, <3>1, <3>2
    <2>. QED  BY <2>1, <2>3 DEF Slots, Promise!vars
  <1>2. CASE CheckPolicyStatus(r)
    <2>. DEFINE q == request[r]
                v == IF policy[q.user] = "shut" THEN Idle
                     ELSE [q EXCEPT !.next = "device", !.policy = policy[q.user]]
    <2>1. v.next \in {"idle", "device"}
      BY CallTypes DEF Call, Idle
    <2>2. request' = [request EXCEPT ![r] = v] /\ q.next = "PolicyStatus"
             /\ tickets' = tickets /\ delivered' = delivered
      BY <1>2 DEF CheckPolicyStatus
    <2>. HIDE DEF v
    <2>3. Outbox' = Outbox
      BY <2>1, <2>2, OutsideOutbox
    <2>. QED  BY <2>2, <2>3 DEF Slots, Promise!vars
  <1>3. ASSUME NEW t \in Ticket, InsertTicket(r, t) PROVE [Promise!Next]_(Promise!vars)
    BY <1>3, InsertPromise
  <1>4. CASE RedeemLaunchTicket(r)
    BY <1>4, RedeemPromise
  <1>5. CASE RedeemRefused(r) \/ PurgeFails(r) \/ OpenUsage(r) \/ CloseUsage(r)
    <2>1. request[r].next \in {"redeem", "purge", "start", "end"} /\ Reply(r)
             /\ tickets' = tickets /\ delivered' = delivered
      BY <1>5 DEF RedeemRefused, PurgeFails, OpenUsage, CloseUsage
    <2>2. Outbox' = Outbox
      BY <2>1, ReplyOutside
    <2>. QED  BY <2>1, <2>2 DEF Slots, Promise!vars
  <1>6. CASE Deliver(r) \/ LoseReply(r)
    <2>. DEFINE t == request[r].ticket
                d == request[r].device
    <2>1. request[r].next = "reply" /\ Reply(r) /\ tickets' = tickets
      BY <1>6 DEF Deliver, LoseReply
    <2>2. t \in Ticket /\ d \in Device
      BY <2>1 DEF TicketInv, HandlersReady
    <2>3. <<t, d>> \in Outbox /\ Outbox' = Outbox \ {<<t, d>>} /\ Slots' = Slots
      BY <2>1, LeavesOutbox DEF Slots
    <2>4. CASE Deliver(r)
      <3>1. Promise!Deliver(t, d)
        BY <2>3, <2>4 DEF Promise!Deliver, Deliver
      <3>. QED  BY <2>2, <3>1 DEF Promise!Next
    <2>5. CASE LoseReply(r)
      <3>1. Promise!Lose(t, d)
        BY <2>3, <2>5 DEF Promise!Lose, LoseReply
      <3>. QED  BY <2>2, <3>1 DEF Promise!Next
    <2>. QED  BY <1>6, <2>4, <2>5
  <1>7. CASE PurgeTickets(r)
    <2>1. Outbox' = Outbox
      BY <1>7, ReplyOutside DEF PurgeTickets
    <2>. QED  BY <1>7, <2>1, DeleteRevokes DEF PurgeTickets, Unredeemed
  <1>. QED  BY <1>1, <1>2, <1>3, <1>4, <1>5, <1>6, <1>7 DEF Handle

\* Every step of the store is a step of the promise or is not seen.
LEMMA StepPromise == TypeOK /\ TicketInv /\ [Next]_vars => [Promise!Next]_(Promise!vars)
  <1>. SUFFICES ASSUME TypeOK, TicketInv, [Next]_vars PROVE [Promise!Next]_(Promise!vars)
    OBVIOUS
  <1>. USE DEF aclVars, agentVars
  <1>1. ASSUME UNCHANGED <<tickets, request, delivered>>
        PROVE  [Promise!Next]_(Promise!vars)
    BY <1>1 DEF Slots, Outbox, Promise!vars
  <1>2. ASSUME NEW r \in Request, Arrive(r) PROVE [Promise!Next]_(Promise!vars)
    <2>1. /\ request[r] = Idle /\ UNCHANGED <<tickets, delivered>>
          /\ \E v : v.next # "reply" /\ request' = [request EXCEPT ![r] = v]
      BY <1>2 DEF Arrive, Launch, Redeem, ReceiveEvent, UpdatePolicy, Idle
    <2>2. Outbox' = Outbox
      <3>1. PICK v : v.next # "reply" /\ request' = [request EXCEPT ![r] = v]
        BY <2>1
      <3>2. request[r].next # "reply"
        BY <2>1 DEF Idle
      <3>. QED  BY <3>1, <3>2, OutsideOutbox
    <2>. QED  BY <2>1, <2>2 DEF Slots, Promise!vars
  <1>3. ASSUME NEW r \in Request, Handle(r) PROVE [Promise!Next]_(Promise!vars)
    BY <1>3, HandlePromise
  <1>4. ASSUME NEW c \in Connection, DeleteConnection(c) PROVE [Promise!Next]_(Promise!vars)
    <2>1. Outbox' = Outbox
      BY <1>4, SameOutbox DEF DeleteConnection
    <2>2. \A t \in Ticket : tickets[t].connection = c => tickets[t].state # "unissued"
      BY StoreAssumption DEF TypeOK, Row
    <2>. QED  BY <1>4, <2>1, <2>2, DeleteRevokes DEF DeleteConnection
  <1>5. CASE Tick \/ UNCHANGED vars
    BY <1>1, <1>5 DEF Tick, vars
  <1>6. ASSUME NEW t \in Ticket,
               \/ SendStarted(t)
               \/ \E e \in EndEvents : SendEnded(t, e)
               \/ \E e \in Events : LoseEvent(t, e)
        PROVE  [Promise!Next]_(Promise!vars)
    BY <1>1, <1>6 DEF SendStarted, SendEnded, LoseEvent
  <1>7. CASE Administer
    <2>1. CASE UNCHANGED <<tickets, request, delivered>>
      BY <1>1, <2>1
    <2>2. CASE \E c \in Connection : DeleteConnection(c)
      BY <1>4, <2>2
    <2>. QED
      BY <1>7, <2>1, <2>2 DEF Administer, UpdateUser, UpdateDevice, UpdateConnection,
         UpdatePermission, DeleteGroup, UpdateMembership
  <1>. QED  BY <1>2, <1>3, <1>4, <1>5, <1>6, <1>7 DEF Next

\* The store implements the single-use, device-bound ticket, for any number of
\* concurrent requests and devices (CreateLaunchTicket, RedeemLaunchTicket and
\* the administration that deletes tickets).
THEOREM StoreKeepsPromise == Spec => KeepsPromise
  <1>. QED
    BY InitPromise, StepPromise, StoreTypeCorrect, StoreInvariant, PTL
    DEF Spec, KeepsPromise, Promise!Spec

-----------------------------------------------------------------------------
(* The rows of tickets and usage. *)

\* What the rows and the agent say of a ticket's session agrees.
SessionBacked(t) ==
    /\ agent[t] # "none" => delivered[t] # <<>>
    /\ delivered[t] # <<>> /\ tickets[t].state = "redeemed" =>
          delivered[t] = <<tickets[t].device>>
    /\ \A e \in Events : <<t, e>> \in events =>
          /\ agent[t] \in {"started", "over"}
          /\ e # "session_started" => agent[t] = "over"

\* A handler answers the device the ticket is bound to, and handles a report
\* of something that has happened.
ReportBacked(q) ==
    /\ q.next = "reply" /\ tickets[q.ticket].state = "redeemed" =>
          q.device = tickets[q.ticket].device
    /\ q.next \in {"ticket", "start", "started_at", "end"} =>
          agent[q.ticket] \in {"started", "over"}
    /\ q.next = "ticket" /\ q.event # "session_started" => agent[q.ticket] = "over"
    /\ q.next \in {"started_at", "end"} => agent[q.ticket] = "over"

\* Inductive together with TypeOK and TicketInv.
RowsInv ==
    /\ RowsIntact
    /\ \A t \in Ticket : SessionBacked(t)
    /\ \A r \in Request : ReportBacked(request[r])

LEMMA InitRows == Init => RowsInv
  <1>. SUFFICES ASSUME Init PROVE RowsInv
    OBVIOUS
  <1>1. RowsIntact
    BY DEF Init, RowsIntact, NoRow
  <1>2. \A t \in Ticket : SessionBacked(t)
    BY DEF Init, SessionBacked
  <1>3. \A r \in Request : ReportBacked(request[r])
    BY DEF Init, ReportBacked, Idle
  <1>. QED  BY <1>1, <1>2, <1>3 DEF RowsInv

\* A step that leaves the rows and the agent alone and takes at most a report
\* off the wire.
LEMMA RowsStill ==
    ASSUME RowsInv, UNCHANGED <<tickets, usage, delivered, agent, deleted, request>>,
           events' \subseteq events
    PROVE  RowsInv'
  <1>1. RowsIntact'
    BY DEF RowsInv, RowsIntact
  <1>2. \A t \in Ticket : SessionBacked(t)'
    BY DEF RowsInv, SessionBacked
  <1>3. \A r \in Request : ReportBacked(request[r])'
    BY DEF RowsInv, ReportBacked
  <1>. QED  BY <1>1, <1>2, <1>3 DEF RowsInv

\* The same with a request that gets new contents.
LEMMA RowsCall ==
    ASSUME TypeOK, RowsInv, NEW r \in Request, NEW v, ReportBacked(v),
           request' = [request EXCEPT ![r] = v],
           UNCHANGED <<tickets, usage, delivered, agent, deleted>>, events' \subseteq events
    PROVE  RowsInv'
  <1>0. \A q \in Request : request'[q] = IF q = r THEN v ELSE request[q]
    BY DEF TypeOK
  <1>1. RowsIntact'
    BY DEF RowsInv, RowsIntact
  <1>2. \A t \in Ticket : SessionBacked(t)'
    BY DEF RowsInv, SessionBacked
  <1>3. ASSUME NEW q \in Request PROVE ReportBacked(request[q])'
    <2>1. ReportBacked(request'[q])
      BY <1>0 DEF RowsInv
    <2>. QED  BY <2>1 DEF ReportBacked
  <1>. QED  BY <1>1, <1>2, <1>3 DEF RowsInv

LEMMA RowsReply ==
    ASSUME TypeOK, RowsInv, NEW r \in Request, Reply(r),
           UNCHANGED <<tickets, usage, delivered, agent, deleted>>, events' \subseteq events
    PROVE  RowsInv'
  <1>1. ReportBacked(Idle)
    BY DEF ReportBacked, Idle
  <1>2. request' = [request EXCEPT ![r] = Idle]
    BY DEF Reply
  <1>. QED  BY <1>1, <1>2, RowsCall

\* The cascades: what is left of a deleted ticket is no row at all.
LEMMA RowsDelete ==
    ASSUME TypeOK, RowsInv, TicketInv, NEW T \in SUBSET Ticket, DeleteTickets(T),
           UNCHANGED <<delivered, agent, events>>,
           \A r \in Request : request'[r] = request[r] \/ request'[r] = Idle,
           \A t \in Ticket \ T :
              tickets[t].connection \in deleted' => tickets[t].connection \in deleted
    PROVE  RowsInv'
  <1>0. \A t \in Ticket :
            /\ tickets'[t] = IF t \in T THEN NoRow("deleted") ELSE tickets[t]
            /\ usage'[t] = IF t \in T THEN "none" ELSE usage[t]
    BY DEF DeleteTickets
  <1>00. NoRow("deleted").state = "deleted"
    BY DEF NoRow
  <1>1. RowsIntact'
    BY <1>0, <1>00 DEF RowsInv, RowsIntact
  <1>2. \A t \in Ticket : SessionBacked(t)'
    BY <1>0, <1>00 DEF RowsInv, SessionBacked
  <1>3. ASSUME NEW q \in Request PROVE ReportBacked(request[q])'
    <2>1. CASE request'[q] = Idle
      BY <2>1 DEF ReportBacked, Idle
    <2>2. CASE request'[q] = request[q]
      <3>1. ReportBacked(request[q])
        BY DEF RowsInv
      <3>2. request[q].next = "reply" => request[q].ticket \in Ticket
        BY DEF TicketInv, HandlersReady
      <3>. QED  BY <1>0, <1>00, <2>2, <3>1, <3>2 DEF ReportBacked
    <2>. QED  BY <2>1, <2>2
  <1>. QED  BY <1>1, <1>2, <1>3 DEF RowsInv

LEMMA ArriveRows ==
    ASSUME TypeOK, TicketInv, RowsInv, NEW r \in Request, Arrive(r)
    PROVE  RowsInv'
  <1>. USE DEF aclVars, agentVars
  <1>1. ASSUME NEW t \in Ticket, NEW e \in Events, ReceiveEvent(r, t, e) PROVE RowsInv'
    <2>. DEFINE d == Head(delivered[t])
                v == [Idle EXCEPT !.next = "ticket", !.ticket = t, !.device = d, !.event = e]
    <2>1. v.next = "ticket" /\ v.ticket = t /\ v.event = e
      BY DEF Idle
    <2>2. /\ agent[t] \in {"started", "over"}
          /\ e # "session_started" => agent[t] = "over"
      BY <1>1 DEF ReceiveEvent, RowsInv, SessionBacked
    <2>3. request' = [request EXCEPT ![r] = v] /\ events' \subseteq events
             /\ UNCHANGED <<tickets, usage, delivered, agent, deleted>>
      BY <1>1 DEF ReceiveEvent
    <2>. HIDE DEF v
    <2>4. ReportBacked(v)
      BY <2>1, <2>2 DEF ReportBacked
    <2>. QED  BY <2>3, <2>4, RowsCall
  <1>2. ASSUME NEW n \in {"CanLaunch", "redeem", "purge"}, NEW v, v.next = n,
               request' = [request EXCEPT ![r] = v],
               UNCHANGED <<tickets, usage, delivered, agent, deleted, events>>
        PROVE  RowsInv'
    BY <1>2, RowsCall DEF ReportBacked
  <1>3. ASSUME NEW u \in User, NEW c \in Connection, NEW d \in Device, Launch(r, u, c, d)
        PROVE  RowsInv'
    BY <1>2, <1>3 DEF Launch, Idle
  <1>4. ASSUME NEW t \in Ticket, NEW d \in Device, Redeem(r, t, d) PROVE RowsInv'
    BY <1>2, <1>4 DEF Redeem, Idle
  <1>5. ASSUME NEW u \in User, NEW p \in Policies, UpdatePolicy(r, u, p) PROVE RowsInv'
    BY <1>2, <1>5 DEF UpdatePolicy, Idle
  <1>. QED  BY <1>1, <1>3, <1>4, <1>5 DEF Arrive

\* A check that passes: the report still is of something that has happened.
LEMMA CheckRows ==
    ASSUME TypeOK, RowsInv, NEW r \in Request, NEW at, NEW passed, NEW next,
           Check(r, at, passed, next),
           \/ next \in {"PolicyStatus", "insert"}
           \/ at = "ticket" /\ next = "start"
           \/ at = "ticket" /\ next = "started_at" /\ request[r].event # "session_started"
           \/ at = "started_at" /\ next = "end"
    PROVE  RowsInv'
  <1>. USE DEF aclVars, agentVars
  <1>0. UNCHANGED <<tickets, usage, delivered, agent, deleted, events>>
    BY DEF Check
  <1>1. CASE Reply(r)
    BY <1>0, <1>1, RowsReply
  <1>2. CASE Continue(r, next)
    <2>. DEFINE v == [request[r] EXCEPT !.next = next]
    <2>1. request[r] \in Call /\ request[r].next = at
      BY CallTypes DEF Check
    <2>2. v.next = next /\ v.ticket = request[r].ticket
      BY <2>1 DEF Call
    <2>3. request' = [request EXCEPT ![r] = v]
      BY <1>2 DEF Continue
    <2>4. ReportBacked(request[r])
      BY DEF RowsInv
    <2>. HIDE DEF v
    <2>5. ReportBacked(v)
      BY <2>1, <2>2, <2>4 DEF ReportBacked
    <2>. QED  BY <1>0, <2>3, <2>5, RowsCall
  <1>. QED  BY <1>1, <1>2 DEF Check

\* The foreign key: a ticket is inserted only for a connection that is there.
LEMMA InsertRows ==
    ASSUME TypeOK, TicketInv, RowsInv, NEW r \in Request, NEW t \in Ticket, InsertTicket(r, t)
    PROVE  RowsInv'
  <1>. USE DEF aclVars, agentVars
  <1>0. UNCHANGED <<usage, delivered, agent, deleted, events>> /\ Reply(r)
           /\ tickets[t].state = "unissued"
    BY DEF InsertTicket
  <1>1. CASE tickets' = tickets
    BY <1>0, <1>1, RowsReply
  <1>2. CASE request[r].connection \notin deleted
    <2>1. /\ tickets'[t].state = "open" /\ tickets'[t].connection = request[r].connection
          /\ \A s \in Ticket \ {t} : tickets'[s] = tickets[s]
      BY <1>2 DEF InsertTicket, TypeOK
    <2>2. \A q \in Request : request'[q] = IF q = r THEN Idle ELSE request[q]
      BY <1>0 DEF TypeOK, Reply
    <2>3. RowsIntact'
      BY <1>0, <1>2, <2>1 DEF RowsInv, RowsIntact
    <2>4. \A s \in Ticket : SessionBacked(s)'
      BY <1>0, <2>1 DEF RowsInv, SessionBacked
    <2>5. ASSUME NEW q \in Request PROVE ReportBacked(request[q])'
      <3>1. CASE q = r
        BY <2>2, <3>1 DEF ReportBacked, Idle
      <3>2. CASE q # r
        <4>1. request'[q] = request[q] /\ ReportBacked(request[q])
          BY <2>2, <3>2 DEF RowsInv
        <4>2. request[q].next = "reply" => request[q].ticket \in Ticket
          BY DEF TicketInv, HandlersReady
        <4>. QED  BY <1>0, <2>1, <4>1, <4>2 DEF ReportBacked
      <3>. QED  BY <3>1, <3>2
    <2>. QED  BY <2>3, <2>4, <2>5 DEF RowsInv
  <1>. QED  BY <1>1, <1>2 DEF InsertTicket

\* The transaction binds the manifest to the device of the ticket.
LEMMA RedeemRows ==
    ASSUME TypeOK, TicketInv, RowsInv, NEW r \in Request, RedeemLaunchTicket(r)
    PROVE  RowsInv'
  <1>. USE DEF aclVars, agentVars
  <1>. DEFINE t == request[r].ticket
              v == [request[r] EXCEPT !.next = "reply"]
  <1>1. /\ t \in Ticket /\ request[r] \in Call
        /\ tickets[t].state = "open" /\ tickets[t].device = request[r].device
        /\ UNCHANGED <<usage, delivered, agent, deleted, events>>
    BY CallTypes DEF TicketInv, HandlersReady, RedeemLaunchTicket, Redeemable
  <1>2. v.next = "reply" /\ v.ticket = t /\ v.device = request[r].device
    BY <1>1 DEF Call
  <1>3. \A q \in Request : request'[q] = IF q = r THEN v ELSE request[q]
    BY DEF TypeOK, RedeemLaunchTicket, Continue
  <1>4. /\ tickets'[t].state = "redeemed" /\ tickets'[t].device = tickets[t].device
        /\ tickets'[t].connection = tickets[t].connection
        /\ \A s \in Ticket \ {t} : tickets'[s] = tickets[s]
    BY <1>1 DEF TypeOK, Row, RedeemLaunchTicket
  <1>5. delivered[t] = <<>>
    BY <1>1 DEF TicketInv, ManifestsReceived
  <1>. HIDE DEF t, v
  <1>6. RowsIntact'
    BY <1>1, <1>4 DEF RowsInv, RowsIntact
  <1>7. \A s \in Ticket : SessionBacked(s)'
    BY <1>1, <1>4, <1>5 DEF RowsInv, SessionBacked
  <1>8. ASSUME NEW q \in Request PROVE ReportBacked(request[q])'
    <2>1. CASE q = r
      BY <1>1, <1>2, <1>3, <1>4, <2>1 DEF ReportBacked
    <2>2. CASE q # r
      <3>1. request'[q] = request[q] /\ ReportBacked(request[q])
        BY <1>3, <2>2 DEF RowsInv
      <3>2. request[q].next = "reply" => request[q].ticket \in Ticket /\ request[q].ticket # t
        BY <1>1 DEF TicketInv, HandlersReady, ManifestsPending
      <3>. QED  BY <1>1, <1>4, <3>1, <3>2 DEF ReportBacked
    <2>. QED  BY <2>1, <2>2
  <1>. QED  BY <1>6, <1>7, <1>8 DEF RowsInv

\* Nothing was known of the session before its manifest was received.
LEMMA DeliverRows ==
    ASSUME TypeOK, TicketInv, RowsInv, NEW r \in Request, Deliver(r)
    PROVE  RowsInv'
  <1>. USE DEF aclVars, agentVars
  <1>. DEFINE t == request[r].ticket
  <1>1. /\ t \in Ticket /\ request[r].device \in Device
        /\ request[r].next = "reply" /\ delivered[t] = <<>>
        /\ UNCHANGED <<tickets, usage, deleted, events>>
    BY DEF TicketInv, HandlersReady, ManifestsPending, Deliver
  <1>2. \A q \in Request : request'[q] = IF q = r THEN Idle ELSE request[q]
    BY DEF TypeOK, Deliver, Reply
  <1>3. /\ delivered'[t] = <<request[r].device>> /\ agent'[t] = "ready"
        /\ \A s \in Ticket \ {t} : delivered'[s] = delivered[s] /\ agent'[s] = agent[s]
    BY <1>1 DEF TypeOK, Deliver
  <1>4. tickets[t].state = "redeemed" => request[r].device = tickets[t].device
    BY <1>1 DEF RowsInv, ReportBacked
  <1>5. agent[t] = "none" /\ usage[t] = "none" /\ \A e \in Events : <<t, e>> \notin events
    BY <1>1 DEF RowsInv, RowsIntact, SessionBacked
  <1>. HIDE DEF t
  <1>6. RowsIntact'
    BY <1>1, <1>3, <1>5 DEF RowsInv, RowsIntact
  <1>7. \A s \in Ticket : SessionBacked(s)'
    <2>1. <<request[r].device>> # <<>>
      OBVIOUS
    <2>. QED  BY <1>1, <1>3, <1>4, <1>5, <2>1 DEF RowsInv, SessionBacked
  <1>8. ASSUME NEW q \in Request PROVE ReportBacked(request[q])'
    <2>1. CASE q = r
      BY <1>2, <2>1 DEF ReportBacked, Idle
    <2>2. CASE q # r
      <3>1. request'[q] = request[q] /\ ReportBacked(request[q])
        BY <1>2, <2>2 DEF RowsInv
      <3>2. request[q].next \in {"ticket", "start", "started_at", "end"} =>
                request[q].ticket \in Ticket \ {t}
        BY <1>5, <3>1 DEF TicketInv, HandlersReady, ReportBacked
      <3>. QED  BY <1>1, <1>3, <3>1, <3>2 DEF ReportBacked
    <2>. QED  BY <2>1, <2>2
  <1>. QED  BY <1>6, <1>7, <1>8 DEF RowsInv

\* A usage row is opened or closed by a report that is backed.
LEMMA UsageRows ==
    ASSUME TypeOK, TicketInv, RowsInv, NEW r \in Request, OpenUsage(r) \/ CloseUsage(r)
    PROVE  RowsInv'
  <1>. USE DEF aclVars, agentVars
  <1>. DEFINE t == request[r].ticket
  <1>1. /\ t \in Ticket /\ agent[t] \in {"started", "over"}
        /\ request[r].next = "end" => agent[t] = "over"
        /\ UNCHANGED <<tickets, delivered, agent, deleted, events>> /\ Reply(r)
    BY DEF OpenUsage, CloseUsage, TicketInv, HandlersReady, RowsInv, ReportBacked
  <1>2. delivered[t] # <<>> /\ tickets[t].state \in {"redeemed", "deleted"}
    BY <1>1 DEF RowsInv, SessionBacked, TicketInv, ManifestsReceived
  <1>3. tickets[t].state = "redeemed" => delivered[t] = <<tickets[t].device>>
    BY <1>1, <1>2 DEF RowsInv, SessionBacked
  <1>4. /\ \A s \in Ticket \ {t} : usage'[s] = usage[s]
        /\ \/ usage'[t] = usage[t]
           \/ usage'[t] = "open" /\ tickets[t].state = "redeemed"
           \/ usage[t] = "open" /\ usage'[t] = "closed" /\ agent[t] = "over"
    BY <1>1, <1>2 DEF TypeOK, OpenUsage, CloseUsage
  <1>5. \A q \in Request : request'[q] = IF q = r THEN Idle ELSE request[q]
    BY <1>1 DEF TypeOK, Reply
  <1>. HIDE DEF t
  <1>6. RowsIntact'
    BY <1>1, <1>3, <1>4 DEF RowsInv, RowsIntact
  <1>7. \A s \in Ticket : SessionBacked(s)'
    BY <1>1 DEF RowsInv, SessionBacked
  <1>8. ASSUME NEW q \in Request PROVE ReportBacked(request[q])'
    BY <1>1, <1>5 DEF RowsInv, ReportBacked, Idle
  <1>. QED  BY <1>6, <1>7, <1>8 DEF RowsInv

\* The agent reports what it has done.
LEMMA SendRows ==
    ASSUME TypeOK, TicketInv, RowsInv, NEW t \in Ticket, NEW e \in Events,
           \/ SendStarted(t) /\ e = "session_started"
           \/ SendEnded(t, e) /\ e \in EndEvents
    PROVE  RowsInv'
  <1>. USE DEF aclVars, agentVars
  <1>1. /\ UNCHANGED <<tickets, usage, delivered, deleted, request>>
        /\ events' = events \cup {<<t, e>>}
        /\ agent[t] \in {"ready", "started"} /\ agent'[t] \in {"started", "over"}
        /\ e # "session_started" => agent'[t] = "over"
        /\ agent'[t] = "started" => agent[t] = "ready"
        /\ \A s \in Ticket \ {t} : agent'[s] = agent[s]
    BY DEF TypeOK, SendStarted, SendEnded, EndEvents
  <1>2. RowsIntact'
    BY <1>1 DEF RowsInv, RowsIntact
  <1>3. ASSUME NEW s \in Ticket PROVE SessionBacked(s)'
    <2>1. SessionBacked(s)
      BY DEF RowsInv
    <2>2. CASE s # t
      BY <1>1, <2>1, <2>2 DEF SessionBacked
    <2>3. CASE s = t
      <3>1. ASSUME NEW f \in Events, <<t, f>> \in events'
            PROVE  f # "session_started" => agent'[t] = "over"
        <4>1. CASE f = e
          BY <1>1, <4>1
        <4>2. CASE <<t, f>> \in events
          BY <1>1, <2>1, <2>3, <4>2 DEF SessionBacked
        <4>. QED  BY <1>1, <3>1, <4>1, <4>2
      <3>. QED  BY <1>1, <2>1, <2>3, <3>1 DEF SessionBacked
    <2>. QED  BY <2>2, <2>3
  <1>4. ASSUME NEW q \in Request PROVE ReportBacked(request[q])'
    <2>1. ReportBacked(request[q])
      BY DEF RowsInv
    <2>2. request[q].next \in {"ticket", "start", "started_at", "end"} =>
              request[q].ticket \in Ticket
      BY DEF TicketInv, HandlersReady
    <2>. QED  BY <1>1, <2>1, <2>2 DEF ReportBacked
  <1>. QED  BY <1>2, <1>3, <1>4 DEF RowsInv

LEMMA HandleRows ==
    ASSUME TypeOK, TicketInv, RowsInv, NEW r \in Request, Handle(r)
    PROVE  RowsInv'
  <1>. USE DEF aclVars, agentVars
  <1>1. CASE CheckCanLaunch(r) \/ CheckDevice(r) \/ CheckTicket(r) \/ FindUsage(r)
    BY <1>1, CheckRows DEF CheckCanLaunch, CheckDevice, CheckTicket, FindUsage
  <1>2. CASE CheckPolicyStatus(r)
    <2>. DEFINE v == IF policy[request[r].user] = "shut" THEN Idle
                     ELSE [request[r] EXCEPT !.next = "device",
                                             !.policy = policy[request[r].user]]
    <2>1. v.next \in {"idle", "device"}
      BY CallTypes DEF Call, Idle
    <2>2. request' = [request EXCEPT ![r] = v]
             /\ UNCHANGED <<tickets, usage, delivered, agent, deleted, events>>
      BY <1>2 DEF CheckPolicyStatus
    <2>. HIDE DEF v
    <2>3. ReportBacked(v)
      BY <2>1 DEF ReportBacked
    <2>. QED  BY <2>2, <2>3, RowsCall
  <1>3. CASE \E t \in Ticket : InsertTicket(r, t)
    BY <1>3, InsertRows
  <1>4. CASE RedeemLaunchTicket(r)
    BY <1>4, RedeemRows
  <1>5. CASE Deliver(r)
    BY <1>5, DeliverRows
  <1>6. CASE RedeemRefused(r) \/ LoseReply(r) \/ PurgeFails(r)
    BY <1>6, RowsReply DEF RedeemRefused, LoseReply, PurgeFails
  <1>7. CASE OpenUsage(r) \/ CloseUsage(r)
    BY <1>7, UsageRows
  <1>8. CASE PurgeTickets(r)
    <2>1. \A q \in Request : request'[q] = request[q] \/ request'[q] = Idle
      BY <1>8 DEF PurgeTickets, Reply, TypeOK
    <2>. QED  BY <1>8, <2>1, RowsDelete DEF PurgeTickets, Unredeemed
  <1>. QED  BY <1>1, <1>2, <1>3, <1>4, <1>5, <1>6, <1>7, <1>8 DEF Handle

LEMMA StepRows == TypeOK /\ TicketInv /\ RowsInv /\ [Next]_vars => RowsInv'
  <1>. SUFFICES ASSUME TypeOK, TicketInv, RowsInv, [Next]_vars PROVE RowsInv'
    OBVIOUS
  <1>. USE DEF aclVars, agentVars
  <1>1. ASSUME NEW r \in Request, Arrive(r) \/ Handle(r) PROVE RowsInv'
    BY <1>1, ArriveRows, HandleRows
  <1>2. ASSUME NEW c \in Connection, DeleteConnection(c) PROVE RowsInv'
    BY <1>2, RowsDelete DEF DeleteConnection
  <1>3. ASSUME NEW g \in Group, DeleteGroup(g) PROVE RowsInv'
    <2>1. /\ UNCHANGED <<tickets, usage, delivered, agent, events, request>>
          /\ deleted' = deleted \cup {g}
      BY <1>3 DEF DeleteGroup
    <2>2. \A t \in Ticket : tickets[t].state \in {"open", "redeemed"} => tickets[t].connection # g
      BY StoreAssumption DEF TypeOK, Row
    <2>3. RowsIntact'
      BY <2>1, <2>2 DEF RowsInv, RowsIntact
    <2>4. \A t \in Ticket : SessionBacked(t)'
      BY <2>1 DEF RowsInv, SessionBacked
    <2>5. \A r \in Request : ReportBacked(request[r])'
      BY <2>1 DEF RowsInv, ReportBacked
    <2>. QED  BY <2>3, <2>4, <2>5 DEF RowsInv
  <1>4. ASSUME NEW t \in Ticket, SendStarted(t) PROVE RowsInv'
    BY <1>4, SendRows DEF Events
  <1>5. ASSUME NEW t \in Ticket, NEW e \in EndEvents, SendEnded(t, e) PROVE RowsInv'
    BY <1>5, SendRows DEF Events
  <1>6. CASE \/ Tick \/ UNCHANGED vars
             \/ \E t \in Ticket, e \in Events : LoseEvent(t, e)
             \/ /\ Administer
                /\ ~\E c \in Connection : DeleteConnection(c)
                /\ ~\E g \in Group : DeleteGroup(g)
    BY <1>6, RowsStill DEF Tick, vars, LoseEvent, Administer, UpdateUser, UpdateDevice,
       UpdateConnection, UpdatePermission, UpdateMembership
  <1>. QED  BY <1>1, <1>2, <1>3, <1>4, <1>5, <1>6 DEF Next, Administer

\* No ticket outlives its connection and no usage row its ticket; usage is
\* recorded only for a session whose manifest its device received and is closed
\* only when the session is over, however the statements of the handlers
\* interleave (SessionEvent, the foreign keys and the cascades of the schema).
THEOREM RowsStayIntact == Spec => []RowsIntact
  <1>1. /\ Init => TypeOK /\ TicketInv /\ RowsInv
        /\ TypeOK /\ TicketInv /\ RowsInv /\ [Next]_vars => (TypeOK /\ TicketInv /\ RowsInv)'
    BY InitType, InitInv, InitRows, StepType, StepInv, StepRows DEF TicketInv
  <1>2. RowsInv => RowsIntact
    BY DEF RowsInv
  <1>. QED  BY <1>1, <1>2, PTL DEF Spec

-----------------------------------------------------------------------------
(* Changes of policy. *)

\* A launch that has read the policy has read the present one, unless a change
\* has overtaken it.
LaunchesFollowPolicy ==
    \A u \in User : \A r \in Deciding(u) \ outdated : request[r].policy = policy[u]

PolicyInv == LaunchesFollowPolicy /\ TicketsFollowPolicy

LEMMA InitPolicy == Init => PolicyInv
  BY DEF Init, PolicyInv, LaunchesFollowPolicy, TicketsFollowPolicy, Deciding, NoRow, Idle

\* A step that changes no policy, leaves the tickets that can be used as they
\* are, and neither takes up a policy nor drops a purge.
LEMMA PolicyStill ==
    ASSUME PolicyInv, UNCHANGED policy,
           \A t \in Ticket : tickets'[t].state = "open" =>
               tickets'[t] = tickets[t] /\ (t \in outdated => t \in outdated'),
           \A q \in Request : request[q].next = "purge" => request'[q] = request[q],
           \A q \in Request : request'[q].next \in {"device", "insert"} =>
               /\ request[q].next \in {"device", "insert"}
               /\ request'[q].user = request[q].user /\ request'[q].policy = request[q].policy
               /\ q \in outdated => q \in outdated'
    PROVE  PolicyInv'
  <1>1. LaunchesFollowPolicy'
    BY DEF PolicyInv, LaunchesFollowPolicy, Deciding
  <1>2. TicketsFollowPolicy'
    <2>. SUFFICES ASSUME NEW t \in Ticket \ outdated', tickets'[t].state = "open",
                         tickets'[t].policy # policy'[tickets'[t].user]
                  PROVE  \E r \in Request : request'[r].next = "purge" /\ t \in Unredeemed(r)'
      BY DEF TicketsFollowPolicy
    <2>1. tickets'[t] = tickets[t] /\ t \notin outdated
      OBVIOUS
    <2>2. PICK r \in Request : request[r].next = "purge" /\ t \in Unredeemed(r)
      BY <2>1 DEF PolicyInv, TicketsFollowPolicy
    <2>3. request'[r] = request[r]
      BY <2>2
    <2>. QED  BY <2>1, <2>2, <2>3 DEF Unredeemed
  <1>. QED  BY <1>1, <1>2 DEF PolicyInv

\* Its use for a step outside the handlers.
LEMMA PolicyRequests ==
    ASSUME PolicyInv, UNCHANGED <<policy, request>>,
           \A t \in Ticket : tickets'[t].state = "open" =>
               tickets'[t] = tickets[t] /\ (t \in outdated => t \in outdated'),
           outdated \cap Request \subseteq outdated'
    PROVE  PolicyInv'
  BY PolicyStill

\* Its use for a handler other than the one of a purge.
LEMMA PolicyCall ==
    ASSUME TypeOK, PolicyInv, NEW r \in Request, NEW v, UNCHANGED <<policy, outdated, tickets>>,
           request' = [request EXCEPT ![r] = v], request[r].next # "purge",
           v.next \in {"device", "insert"} =>
               /\ request[r].next \in {"device", "insert"}
               /\ v.user = request[r].user /\ v.policy = request[r].policy
    PROVE  PolicyInv'
  <1>1. \A q \in Request : request'[q] = IF q = r THEN v ELSE request[q]
    BY DEF TypeOK
  <1>. QED  BY <1>1, PolicyStill

LEMMA PolicyReply ==
    ASSUME TypeOK, PolicyInv, NEW r \in Request, UNCHANGED <<policy, outdated, tickets>>,
           Reply(r), request[r].next # "purge"
    PROVE  PolicyInv'
  <1>1. Idle.next = "idle"
    BY DEF Idle
  <1>. QED  BY <1>1, PolicyCall DEF Reply

LEMMA ArrivePolicy ==
    ASSUME TypeOK, PolicyInv, NEW r \in Request, Arrive(r)
    PROVE  PolicyInv'
  <1>. USE DEF aclVars, agentVars
  <1>0. request \in [Request -> Call]
    BY DEF TypeOK
  <1>1. request[r] = Idle => request[r].next # "purge"
    BY DEF Idle
  <1>2. ASSUME NEW u \in User, NEW c \in Connection, NEW d \in Device, Launch(r, u, c, d)
        PROVE  PolicyInv'
    <2>. DEFINE v == [Idle EXCEPT !.next = "CanLaunch", !.user = u, !.device = d,
                                  !.connection = c]
    <2>1. v.next = "CanLaunch"
      BY DEF Idle
    <2>2. /\ request[r] = Idle /\ request' = [request EXCEPT ![r] = v]
          /\ UNCHANGED <<policy, outdated, tickets>>
      BY <1>2 DEF Launch
    <2>. HIDE DEF v
    <2>. QED  BY <1>1, <2>1, <2>2, PolicyCall
  <1>3. ASSUME NEW t \in Ticket, NEW d \in Device, Redeem(r, t, d) PROVE PolicyInv'
    <2>. DEFINE v == [Idle EXCEPT !.next = "redeem", !.ticket = t, !.device = d]
    <2>1. v.next = "redeem"
      BY DEF Idle
    <2>2. /\ request[r] = Idle /\ request' = [request EXCEPT ![r] = v]
          /\ UNCHANGED <<policy, outdated, tickets>>
      BY <1>3 DEF Redeem
    <2>. HIDE DEF v
    <2>. QED  BY <1>1, <2>1, <2>2, PolicyCall
  <1>4. ASSUME NEW t \in Ticket, NEW e \in Events, ReceiveEvent(r, t, e) PROVE PolicyInv'
    <2>. DEFINE v == [Idle EXCEPT !.next = "ticket", !.ticket = t,
                                  !.device = Head(delivered[t]), !.event = e]
    <2>1. v.next = "ticket"
      BY DEF Idle
    <2>2. /\ request[r] = Idle /\ request' = [request EXCEPT ![r] = v]
          /\ UNCHANGED <<policy, outdated, tickets>>
      BY <1>4 DEF ReceiveEvent
    <2>. HIDE DEF v
    <2>. QED  BY <1>1, <2>1, <2>2, PolicyCall
  <1>5. ASSUME NEW u \in User, NEW p \in Policies, UpdatePolicy(r, u, p) PROVE PolicyInv'
    <2>. DEFINE v == [Idle EXCEPT !.next = "purge", !.user = u]
    <2>1. v.next = "purge" /\ v.user = u /\ Idle.next = "idle"
      BY DEF Idle
    <2>2. /\ request[r] = Idle /\ request' = [request EXCEPT ![r] = v] /\ tickets' = tickets
          /\ policy' = [policy EXCEPT ![u] = p] /\ outdated' = outdated \cup Deciding(u)
      BY <1>5 DEF UpdatePolicy
    <2>. HIDE DEF v
    <2>3. \A q \in Request : request'[q] = IF q = r THEN v ELSE request[q]
      BY <1>0, <2>2
    <2>4. \A w \in User : policy'[w] = IF w = u THEN p ELSE policy[w]
      BY <2>2 DEF TypeOK
    <2>5. LaunchesFollowPolicy'
      <3>. SUFFICES ASSUME NEW w \in User, NEW q \in Request,
                           request'[q].next \in {"device", "insert"}, request'[q].user = w,
                           q \notin outdated'
                    PROVE  request'[q].policy = policy'[w]
        BY DEF LaunchesFollowPolicy, Deciding
      <3>1. q # r /\ request'[q] = request[q]
        BY <2>1, <2>3
      <3>2. w # u /\ q \in Deciding(w) \ outdated
        BY <2>2, <3>1 DEF Deciding
      <3>. QED  BY <2>4, <3>1, <3>2 DEF PolicyInv, LaunchesFollowPolicy
    <2>6. TicketsFollowPolicy'
      <3>. SUFFICES ASSUME NEW t \in Ticket \ outdated', tickets[t].state = "open",
                           tickets[t].policy # policy'[tickets[t].user]
                    PROVE  \E q \in Request : request'[q].next = "purge" /\ t \in Unredeemed(q)'
        BY <2>2 DEF TicketsFollowPolicy
      <3>1. tickets[t].user \in User
        <4>1. tickets[t] \in Row
          BY DEF TypeOK
        <4>. QED  BY <4>1 DEF Row
      <3>2. CASE tickets[t].user = u
        <4>1. request'[r].next = "purge" /\ request'[r].user = u
          BY <2>1, <2>3
        <4>. QED  BY <2>2, <3>2, <4>1 DEF Unredeemed
      <3>3. CASE tickets[t].user # u
        <4>1. t \notin outdated /\ tickets[t].policy # policy[tickets[t].user]
          BY <2>2, <2>4, <3>1, <3>3
        <4>2. PICK q \in Request : request[q].next = "purge" /\ t \in Unredeemed(q)
          BY <4>1 DEF PolicyInv, TicketsFollowPolicy
        <4>3. request'[q] = request[q]
          BY <2>1, <2>2, <2>3, <4>2
        <4>. QED  BY <2>2, <4>2, <4>3 DEF Unredeemed
      <3>. QED  BY <3>2, <3>3
    <2>. QED  BY <2>5, <2>6 DEF PolicyInv
  <1>. QED  BY <1>2, <1>3, <1>4, <1>5 DEF Arrive

\* A check: a launch whose device is enabled goes on with the policy it has read.
LEMMA CheckPolicy ==
    ASSUME TypeOK, PolicyInv, NEW r \in Request,
           CheckCanLaunch(r) \/ CheckDevice(r) \/ CheckTicket(r) \/ FindUsage(r)
    PROVE  PolicyInv'
  <1>. USE DEF aclVars, agentVars
  <1>1. /\ UNCHANGED <<policy, outdated, tickets>> /\ request[r].next # "purge"
        /\ \/ Reply(r)
           \/ \E n \in {"PolicyStatus", "insert", "start", "started_at", "end"} :
                 Continue(r, n) /\ (n = "insert" => request[r].next = "device")
    BY DEF CheckCanLaunch, CheckDevice, CheckTicket, FindUsage, Check
  <1>2. ASSUME NEW n \in {"PolicyStatus", "insert", "start", "started_at", "end"},
               Continue(r, n), n = "insert" => request[r].next = "device"
        PROVE  PolicyInv'
    <2>. DEFINE v == [request[r] EXCEPT !.next = n]
    <2>1. v.next = n /\ v.user = request[r].user /\ v.policy = request[r].policy
      BY CallTypes DEF Call
    <2>2. request' = [request EXCEPT ![r] = v]
      BY <1>2 DEF Continue
    <2>. HIDE DEF v
    <2>. QED  BY <1>1, <1>2, <2>1, <2>2, PolicyCall
  <1>. QED  BY <1>1, <1>2, PolicyReply

\* The policy is read, as it is now.
LEMMA StatusPolicy ==
    ASSUME TypeOK, HandlersReady, PolicyInv, NEW r \in Request, CheckPolicyStatus(r)
    PROVE  PolicyInv'
  <1>. USE DEF aclVars, agentVars
  <1>. DEFINE p == policy[request[r].user]
              v == [request[r] EXCEPT !.next = "device", !.policy = p]
  <1>1. /\ request[r].next = "PolicyStatus" /\ UNCHANGED <<policy, tickets>>
        /\ outdated' = outdated \ {r}
        /\ request' = [request EXCEPT ![r] = IF p = "shut" THEN Idle ELSE v]
    BY DEF CheckPolicyStatus
  <1>2. v.next = "device" /\ v.user = request[r].user /\ v.policy = p /\ Idle.next = "idle"
    BY CallTypes DEF Call, Idle
  <1>. HIDE DEF v
  <1>3. \A q \in Request : q # r => request'[q] = request[q]
    BY <1>1 DEF TypeOK
  <1>4. request'[r] = Idle \/ request'[r] = v
    BY <1>1 DEF TypeOK
  <1>5. LaunchesFollowPolicy'
    <2>. SUFFICES ASSUME NEW u \in User, NEW q \in Request,
                         request'[q].next \in {"device", "insert"}, request'[q].user = u,
                         q \notin outdated'
                  PROVE  request'[q].policy = policy[u]
      BY <1>1 DEF LaunchesFollowPolicy, Deciding
    <2>1. CASE q = r
      BY <1>2, <1>4, <2>1
    <2>2. CASE q # r
      BY <1>1, <1>3, <2>2 DEF PolicyInv, LaunchesFollowPolicy, Deciding
    <2>. QED  BY <2>1, <2>2
  <1>6. TicketsFollowPolicy'
    <2>. SUFFICES ASSUME NEW t \in Ticket \ outdated, tickets[t].state = "open",
                         tickets[t].policy # policy[tickets[t].user]
                  PROVE  \E q \in Request : request'[q].next = "purge" /\ t \in Unredeemed(q)'
      BY <1>1, StoreAssumption DEF TicketsFollowPolicy
    <2>1. PICK q \in Request : request[q].next = "purge" /\ t \in Unredeemed(q)
      BY DEF PolicyInv, TicketsFollowPolicy
    <2>2. request'[q] = request[q]
      BY <1>1, <1>3, <2>1
    <2>. QED  BY <1>1, <2>1, <2>2 DEF Unredeemed
  <1>. QED  BY <1>5, <1>6 DEF PolicyInv

\* The ticket carries the policy its launch has read.
LEMMA InsertPolicy ==
    ASSUME TypeOK, HandlersReady, PolicyInv, NEW r \in Request, NEW s \in Ticket,
           InsertTicket(r, s)
    PROVE  PolicyInv'
  <1>. USE DEF aclVars, agentVars
  <1>. DEFINE q == request[r]
  <1>1. /\ q.next = "insert" /\ q.user \in User /\ tickets[s].state = "unissued"
        /\ UNCHANGED policy /\ Reply(r)
        /\ outdated' = (outdated \ {r, s}) \cup (IF r \in outdated THEN {s} ELSE {})
    BY DEF InsertTicket, HandlersReady
  <1>2. \A t \in Ticket : t # s => tickets'[t] = tickets[t]
    BY DEF InsertTicket, TypeOK
  <1>3. tickets'[s].state = "open" => tickets'[s].user = q.user /\ tickets'[s].policy = q.policy
    BY <1>1 DEF InsertTicket, TypeOK
  <1>4. \A x \in Request : request'[x] = IF x = r THEN Idle ELSE request[x]
    BY <1>1 DEF Reply, TypeOK
  <1>5. LaunchesFollowPolicy'
    <2>. SUFFICES ASSUME NEW u \in User, NEW x \in Request,
                         request'[x].next \in {"device", "insert"}, request'[x].user = u,
                         x \notin outdated'
                  PROVE  request'[x].policy = policy[u]
      BY <1>1 DEF LaunchesFollowPolicy, Deciding
    <2>1. x # r /\ request'[x] = request[x] /\ x # s
      BY <1>4, StoreAssumption DEF Idle
    <2>2. x \in Deciding(u) \ outdated
      BY <1>1, <2>1 DEF Deciding
    <2>. QED  BY <2>1, <2>2 DEF PolicyInv, LaunchesFollowPolicy
  <1>6. TicketsFollowPolicy'
    <2>. SUFFICES ASSUME NEW t \in Ticket \ outdated', tickets'[t].state = "open",
                         tickets'[t].policy # policy[tickets'[t].user]
                  PROVE  \E x \in Request : request'[x].next = "purge" /\ t \in Unredeemed(x)'
      BY <1>1 DEF TicketsFollowPolicy
    <2>1. t # s
      <3>. SUFFICES ASSUME t = s PROVE FALSE
        OBVIOUS
      <3>1. r \in Deciding(q.user) \ outdated
        BY <1>1 DEF Deciding
      <3>2. q.policy = policy[q.user]
        BY <1>1, <3>1 DEF PolicyInv, LaunchesFollowPolicy
      <3>. QED  BY <1>3, <3>2
    <2>2. t \notin outdated /\ tickets'[t] = tickets[t]
      BY <1>1, <1>2, <2>1, StoreAssumption
    <2>3. PICK x \in Request : request[x].next = "purge" /\ t \in Unredeemed(x)
      BY <2>2 DEF PolicyInv, TicketsFollowPolicy
    <2>4. request'[x] = request[x]
      BY <1>1, <1>4, <2>3
    <2>. QED  BY <2>2, <2>3, <2>4 DEF Unredeemed
  <1>. QED  BY <1>5, <1>6 DEF PolicyInv

\* The purge has been made, or it has failed.
LEMMA PurgePolicy ==
    ASSUME TypeOK, PolicyInv, NEW r \in Request, PurgeTickets(r) \/ PurgeFails(r)
    PROVE  PolicyInv'
  <1>. USE DEF aclVars, agentVars
  <1>. DEFINE T == Unredeemed(r)
  <1>1. /\ UNCHANGED policy /\ T \subseteq Ticket
        /\ \A q \in Request : request'[q] = IF q = r THEN Idle ELSE request[q]
    BY DEF PurgeTickets, PurgeFails, Reply, TypeOK, Unredeemed
  <1>2. /\ outdated \ T \subseteq outdated'
        /\ \A t \in T \ outdated' : tickets'[t].state = "deleted"
        /\ \A t \in Ticket \ T : tickets'[t] = tickets[t]
    <2>1. CASE PurgeTickets(r)
      <3>1. /\ outdated' = outdated \ T
            /\ \A t \in Ticket : tickets'[t] = IF t \in T THEN NoRow("deleted") ELSE tickets[t]
        BY <2>1 DEF PurgeTickets, DeleteTickets
      <3>2. NoRow("deleted").state = "deleted"
        BY DEF NoRow
      <3>. HIDE DEF T
      <3>. QED  BY <1>1, <3>1, <3>2
    <2>2. CASE PurgeFails(r)
      BY <2>2 DEF PurgeFails
    <2>. QED  BY <2>1, <2>2
  <1>3. LaunchesFollowPolicy'
    <2>. SUFFICES ASSUME NEW u \in User, NEW x \in Request,
                         request'[x].next \in {"device", "insert"}, request'[x].user = u,
                         x \notin outdated'
                  PROVE  request'[x].policy = policy[u]
      BY <1>1 DEF LaunchesFollowPolicy, Deciding
    <2>1. x # r /\ request'[x] = request[x] /\ x \notin T
      BY <1>1, StoreAssumption DEF Idle
    <2>2. x \in Deciding(u) \ outdated
      BY <1>2, <2>1 DEF Deciding
    <2>. QED  BY <2>1, <2>2 DEF PolicyInv, LaunchesFollowPolicy
  <1>4. TicketsFollowPolicy'
    <2>. SUFFICES ASSUME NEW t \in Ticket \ outdated', tickets'[t].state = "open",
                         tickets'[t].policy # policy[tickets'[t].user]
                  PROVE  \E x \in Request : request'[x].next = "purge" /\ t \in Unredeemed(x)'
      BY <1>1 DEF TicketsFollowPolicy
    <2>1. t \notin T /\ tickets'[t] = tickets[t] /\ t \notin outdated
      BY <1>2
    <2>2. PICK x \in Request : request[x].next = "purge" /\ t \in Unredeemed(x)
      BY <2>1 DEF PolicyInv, TicketsFollowPolicy
    <2>3. x # r /\ request'[x] = request[x]
      BY <1>1, <2>1, <2>2
    <2>. QED  BY <2>1, <2>2, <2>3 DEF Unredeemed
  <1>. QED  BY <1>3, <1>4 DEF PolicyInv

LEMMA HandlePolicy ==
    ASSUME TypeOK, HandlersReady, PolicyInv, NEW r \in Request, Handle(r)
    PROVE  PolicyInv'
  <1>. USE DEF aclVars, agentVars
  <1>1. CASE CheckCanLaunch(r) \/ CheckDevice(r) \/ CheckTicket(r) \/ FindUsage(r)
    BY <1>1, CheckPolicy
  <1>2. CASE CheckPolicyStatus(r)
    BY <1>2, StatusPolicy
  <1>3. CASE \E t \in Ticket : InsertTicket(r, t)
    BY <1>3, InsertPolicy
  <1>4. CASE RedeemLaunchTicket(r)
    <2>. DEFINE s == request[r].ticket
                v == [request[r] EXCEPT !.next = "reply"]
    <2>1. v.next = "reply"
      BY CallTypes DEF Call
    <2>2. /\ s \in Ticket /\ request[r].next = "redeem" /\ UNCHANGED policy
          /\ request' = [request EXCEPT ![r] = v] /\ outdated' = outdated \ {s}
          /\ tickets' = [tickets EXCEPT ![s].state = "redeemed"]
      BY <1>4 DEF RedeemLaunchTicket, Continue, HandlersReady
    <2>. HIDE DEF v
    <2>3. tickets'[s].state = "redeemed" /\ \A t \in Ticket : t # s => tickets'[t] = tickets[t]
      BY <2>2 DEF TypeOK, Row
    <2>4. \A q \in Request : request'[q] = IF q = r THEN v ELSE request[q]
      BY <2>2 DEF TypeOK
    <2>5. \A q \in Request : q # s
      BY <2>2, StoreAssumption
    <2>. QED  BY <2>1, <2>2, <2>3, <2>4, <2>5, PolicyStill
  <1>5. CASE RedeemRefused(r) \/ Deliver(r) \/ LoseReply(r) \/ OpenUsage(r) \/ CloseUsage(r)
    <2>1. Reply(r) /\ UNCHANGED <<policy, outdated, tickets>> /\ request[r].next # "purge"
      BY <1>5 DEF RedeemRefused, Deliver, LoseReply, OpenUsage, CloseUsage
    <2>. QED  BY <2>1, PolicyReply
  <1>6. CASE PurgeTickets(r) \/ PurgeFails(r)
    BY <1>6, PurgePolicy
  <1>. QED  BY <1>1, <1>2, <1>3, <1>4, <1>5, <1>6 DEF Handle

LEMMA StepPolicy == TypeOK /\ TicketInv /\ PolicyInv /\ [Next]_vars => PolicyInv'
  <1>. SUFFICES ASSUME TypeOK, TicketInv, PolicyInv, [Next]_vars PROVE PolicyInv'
    OBVIOUS
  <1>. USE DEF aclVars, agentVars
  <1>0. HandlersReady
    BY DEF TicketInv
  <1>1. CASE Tick
    BY <1>1, PolicyRequests DEF Tick
  <1>2. ASSUME NEW r \in Request, Arrive(r) \/ Handle(r) PROVE PolicyInv'
    BY <1>0, <1>2, ArrivePolicy, HandlePolicy
  <1>3. ASSUME NEW t \in Ticket,
               \/ SendStarted(t) \/ \E e \in EndEvents : SendEnded(t, e)
               \/ \E e \in Events : LoseEvent(t, e)
        PROVE  PolicyInv'
    <2>1. UNCHANGED <<policy, request, tickets, outdated>>
      BY <1>3 DEF SendStarted, SendEnded, LoseEvent
    <2>. QED  BY <2>1, PolicyRequests
  <1>4. CASE Administer
    <2>1. ASSUME NEW c \in Connection, DeleteConnection(c) PROVE PolicyInv'
      <3>. DEFINE T == {t \in Ticket : tickets[t].connection = c}
      <3>1. UNCHANGED <<policy, request>> /\ outdated' = outdated \ T
        BY <2>1 DEF DeleteConnection, DeleteTickets
      <3>2. \A t \in Ticket : tickets'[t] = IF t \in T THEN NoRow("deleted") ELSE tickets[t]
        BY <2>1 DEF DeleteConnection, DeleteTickets
      <3>3. NoRow("deleted").state = "deleted" /\ Request \cap T = {}
        BY StoreAssumption DEF NoRow
      <3>. QED  BY <3>1, <3>2, <3>3, PolicyRequests
    <2>2. ASSUME UNCHANGED <<policy, request, tickets, outdated>> PROVE PolicyInv'
      BY <2>2, PolicyRequests
    <2>3. ASSUME NEW c \in Connection,
                 UpdateConnection(c) \/ \E s \in User \cup Group : UpdatePermission(s, c)
          PROVE  PolicyInv'
      BY <2>2, <2>3 DEF UpdateConnection, UpdatePermission
    <2>4. ASSUME NEW g \in Group, DeleteGroup(g) \/ \E u \in User : UpdateMembership(u, g)
          PROVE  PolicyInv'
      BY <2>2, <2>4 DEF DeleteGroup, UpdateMembership
    <2>5. CASE (\E u \in User : UpdateUser(u)) \/ (\E d \in Device : UpdateDevice(d))
      BY <2>2, <2>5 DEF UpdateUser, UpdateDevice
    <2>. QED  BY <1>4, <2>1, <2>3, <2>4, <2>5 DEF Administer
  <1>5. CASE UNCHANGED vars
    BY <1>5, PolicyRequests DEF vars
  <1>. QED  BY <1>1, <1>2, <1>3, <1>4, <1>5 DEF Next

\* A change of policy reaches every ticket that can still be used, except the one
\* of a launch that it overtook or of a purge that failed, however many changes
\* and launches are under way (adminUpdate, CreateLaunchTicket).
THEOREM PolicyReachesTickets == Spec => []TicketsFollowPolicy
  <1>1. TypeOK /\ TicketInv /\ PolicyInv /\ [Next]_vars => PolicyInv'
    BY StepPolicy
  <1>2. Spec => []PolicyInv
    BY InitPolicy, <1>1, StoreTypeCorrect, StoreInvariant, PTL DEF Spec
  <1>3. PolicyInv => TicketsFollowPolicy
    BY DEF PolicyInv
  <1>. QED  BY <1>2, <1>3, PTL
=============================================================================
