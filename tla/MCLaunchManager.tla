-------------------------- MODULE MCLaunchManager --------------------------
(* Instances of LaunchManager for TLC. *)
EXTENDS LaunchManager, TLC

\* Sessions, callers and connections are only compared for equality.
Symmetry == Permutations(Session) \cup Permutations(Caller) \cup Permutations(Connection)
=============================================================================
