--------------------------- MODULE MCMailedLinks ---------------------------
(* Finite instances of MailedLinks for TLC.                                 *)
EXTENDS MailedLinks, TLC

OneTenant == [u \in Users |-> CHOOSE t \in Tenants : TRUE]

Interchangeable == Permutations(Requests)
=============================================================================
