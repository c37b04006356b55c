---------------------------- MODULE MCHostTrust ----------------------------
(* Instances of HostTrust for TLC. *)
EXTENDS HostTrust, TLC

\* The stores share no state: one of them at a time.
OneStore == {{"ssh"}, {"sunshine"}}

\* Tasks, hosts and keys are interchangeable.
Symmetry == Permutations(Task) \cup Permutations(Host) \cup Permutations(Key)
=============================================================================
