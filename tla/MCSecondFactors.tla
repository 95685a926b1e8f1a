--------------------------- MODULE MCSecondFactors ---------------------------
(* Finite instances of SecondFactors for TLC.                               *)
EXTENDS SecondFactors, TLC

Pages == {{"setup", "confirm", "remove"}, {"enrol", "register", "unregister"}, {"ask", "assert", "register"}, {"assert", "unregister"}}

Interchangeable == Permutations(Requests) \cup Permutations(Users) \cup Permutations(Pending)
=============================================================================
