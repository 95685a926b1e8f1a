-------------------------- MODULE MCTokenEndpoint --------------------------
(* Finite instances of TokenEndpoint for TLC.                               *)
EXTENDS TokenEndpoint, TLC

AllRegistered == Tenants \X Clients

Interchangeable == Permutations(Requests)
=============================================================================
