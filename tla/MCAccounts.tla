----------------------------- MODULE MCAccounts -----------------------------
(* Instances of Accounts for TLC. *)
EXTENDS Accounts, TLC

\* Requests, sessions, handoffs and passwords are only compared for equality.
Symmetry ==
    Permutations(Call) \cup Permutations(Session) \cup Permutations(Handoff)
        \cup Permutations(Password)
=============================================================================
