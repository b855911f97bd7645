------------------------------ MODULE MCWasmpg ------------------------------
(* Multiplexer, and the lock inside it, for TLC. *)
EXTENDS Multiplexer, TLC

\* Connections are interchangeable in the safety run.
Symmetry == Permutations(Caller)
=============================================================================
