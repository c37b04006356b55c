--------------------------- MODULE MCTicketStore ---------------------------
(* Instances of TicketStore for TLC. *)
EXTENDS TicketStore, TLC

\* Tickets, requests and devices are only compared for equality.
Symmetry ==
    Permutations(Ticket) \cup Permutations(Request) \cup Permutations(Device)
=============================================================================
