-------------------------- MODULE MCSnapshotIngest --------------------------
(* SnapshotIngest on small sets.                                           *)
EXTENDS SnapshotIngest, TLC

Symmetry ==
  Permutations(Keys) \cup Permutations(Snapshots) \cup Permutations(Files)
    \cup Permutations(Digests) \cup Permutations(Requests)
=============================================================================
