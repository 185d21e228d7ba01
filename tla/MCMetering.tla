----------------------------- MODULE MCMetering -----------------------------
(* Metering for TLC. *)
EXTENDS Metering, TLC

Symmetry == Permutations(Clients)
=============================================================================
