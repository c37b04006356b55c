----------------------------- MODULE SingleUse -----------------------------
(***************************************************************************)
(* What a single-use, device-bound launch ticket promises, whoever keeps   *)
(* it and however: a ticket is issued once for one device, is used at most *)
(* once, and its manifest reaches that device at most once or is lost on   *)
(* the way.  A ticket may be revoked at any time, which does not call back *)
(* a manifest that is on its way.                                          *)
(***************************************************************************)
EXTENDS Naturals, Sequences

CONSTANTS Ticket, Device, None

VARIABLES
    slot,      \* the state of each ticket and the device it is bound to
    outbox,    \* manifests on their way: ticket and device
    delivered  \* the devices that have received each ticket's manifest

vars == <<slot, outbox, delivered>>

Slot == [state: {"unissued", "revoked"}, device: {None}]
            \cup [state: {"open", "used"}, device: Device]

Init ==
    /\ slot = [t \in Ticket |-> [state |-> "unissued", device |-> None]]
    /\ outbox = {}
    /\ delivered = [t \in Ticket |-> <<>>]

Issue(t, d) ==
    /\ slot[t].state = "unissued"
    /\ slot' = [slot EXCEPT ![t] = [state |-> "open", device |-> d]]
    /\ UNCHANGED <<outbox, delivered>>

Use(t, d) ==
    /\ slot[t] = [state |-> "open", device |-> d]
    /\ slot' = [slot EXCEPT ![t].state = "used"]
    /\ outbox' = outbox \cup {<<t, d>>}
    /\ UNCHANGED delivered

Deliver(t, d) ==
    /\ <<t, d>> \in outbox
    /\ outbox' = outbox \ {<<t, d>>}
    /\ delivered' = [delivered EXCEPT ![t] = Append(@, d)]
    /\ UNCHANGED slot

Lose(t, d) ==
    /\ <<t, d>> \in outbox
    /\ outbox' = outbox \ {<<t, d>>}
    /\ UNCHANGED <<slot, delivered>>

Revoke(T) ==
    /\ \A t \in T : slot[t].state # "unissued"
    /\ slot' = [t \in Ticket |-> IF t \in T THEN [state |-> "revoked", device |-> None]
                                            ELSE slot[t]]
    /\ UNCHANGED <<outbox, delivered>>

Next ==
    \/ \E t \in Ticket, d \in Device :
          Issue(t, d) \/ Use(t, d) \/ Deliver(t, d) \/ Lose(t, d)
    \/ \E T \in SUBSET Ticket : Revoke(T)

Spec == Init /\ [][Next]_vars
=============================================================================
