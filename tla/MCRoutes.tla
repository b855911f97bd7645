------------------------------- MODULE MCRoutes -------------------------------
(* TLC instances of Routes: connections and channels are interchangeable. *)
EXTENDS Routes, TLC

RoutesSymmetry == Permutations(Conn) \cup Permutations(Channel)
=============================================================================
