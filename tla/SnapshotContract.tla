--------------------------- MODULE SnapshotContract ---------------------------
(***************************************************************************)
(* What the ingest service promises an agent, the parser and the operator, *)
(* with no handlers, locks or storage: files are accepted one at a time    *)
(* while a snapshot is open, sealing it takes all of them as they are, and *)
(* a sealed snapshot is parsed or failed.  A failed one may still be       *)
(* parsed (the operator re-triggers it); a parsed one stays parsed.        *)
(***************************************************************************)
CONSTANTS Snapshots, Files, Digests, None

VARIABLES
  phase,   \* where a snapshot is in its life
  content  \* the digest accepted for each file

Init ==
  /\ phase = [s \in Snapshots |-> "none"]
  /\ content = [s \in Snapshots |-> [f \in Files |-> None]]

Advance(s, from, to) ==
  /\ phase[s] = from
  /\ phase' = [phase EXCEPT ![s] = to]
  /\ UNCHANGED content

Accept(s, f, d) ==
  /\ phase[s] = "open"
  /\ content' = [content EXCEPT ![s][f] = d]
  /\ UNCHANGED phase

Next ==
  \E s \in Snapshots :
    \/ Advance(s, "none", "open")
    \/ \E f \in Files, d \in Digests : Accept(s, f, d)
    \/ Advance(s, "open", "committed")
    \/ Advance(s, "committed", "parsed")
    \/ Advance(s, "committed", "failed")
    \/ Advance(s, "failed", "parsed")

Spec == Init /\ [][Next]_<<phase, content>>
=============================================================================
