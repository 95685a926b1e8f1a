--------------------------- MODULE MCTenantAccess ---------------------------
(* Finite instances of TenantAccess for TLC.                                *)
EXTENDS TenantAccess, TLC

CONSTANTS root, sub, admin, guest

Homes == [u \in Users |-> IF u = guest THEN sub ELSE root]
GuestOfRoot == {<<root, guest>>}
Holders == {<<root, admin, "tenant.admin">>, <<root, admin, "system.admin">>, <<root, guest, "tenant.admin">>}

Interchangeable == Permutations(Requests)
=============================================================================
