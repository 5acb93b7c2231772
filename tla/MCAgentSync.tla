----------------------------- MODULE MCAgentSync -----------------------------
(* AgentSync on small sets: two workbooks of one year.                      *)
EXTENDS AgentSync, TLC

MCYearOf == 1 :> 2024 @@ 2 :> 2024
Once == [c \in {"start", "upload", "commit"} |-> 1]
Tried == [Once EXCEPT !["upload"] = 2, !["commit"] = 2]
Twice == [c \in {"start", "upload", "commit"} |-> 2]

\* The digests are interchangeable: of two first folders that differ in a
\* permutation of them, one is enough.
FirstDigest == CHOOSE d \in Digests : TRUE
OneOfEachKind ==
  IF folder[1] # None THEN folder[1] = FirstDigest ELSE folder[2] \in {None, FirstDigest}
MCInit == Init /\ OneOfEachKind
MCSpec == MCInit /\ [][Next]_vars /\ WF_vars(Attempt \/ Local)

Symmetry == Permutations(Digests) \cup Permutations(Snapshots)
=============================================================================
