---------------------------- MODULE MCTenantAdmin ----------------------------
(* TenantAdmin on small sets: two users may have the same address, one after *)
(* the other.                                                              *)
EXTENDS TenantAdmin, TLC

CONSTANTS u1, u2, u3

MCAddressOf == u1 :> "seeded" @@ u2 :> "removed" @@ u3 :> "removed"

Symmetry == Permutations({u2, u3}) \cup Permutations(Requests)
=============================================================================
