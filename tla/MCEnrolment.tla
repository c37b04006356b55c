---------------------------- MODULE MCEnrolment ----------------------------
(* Instances of Enrolment for TLC. *)
EXTENDS Enrolment, TLC

\* Kiosks, identifiers and tokens are only compared for equality.
Symmetry == Permutations(Kiosk) \cup Permutations(Identifier) \cup Permutations(Token)
=============================================================================
