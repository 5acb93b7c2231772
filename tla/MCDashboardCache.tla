-------------------------- MODULE MCDashboardCache --------------------------
(* DashboardCache on small sets.                                           *)
EXTENDS DashboardCache, TLC

Symmetry == Permutations(Readers)
=============================================================================
