--------------------------- MODULE AgentSyncProofs ---------------------------
(***************************************************************************)
(* AgentSync for any number of files, snapshots, attempts and late         *)
(* requests: what state.db records, what a snapshot holds, and what a      *)
(* forced sync leaves.  EverySyncEnds is a matter of fairness and stays    *)
(* with TLC.                                                               *)
(*                                                                         *)
(* The argument: everything that is sent goes by the hashes taken at the   *)
(* beginning of the sync, a request that lives on included, each hash is   *)
(* of a state of the folder while they were taken, and the server accepts  *)
(* bytes under their own hash only.                                        *)
(***************************************************************************)
EXTENDS AgentSync, WellFoundedInduction, TLAPS

\* Each hash is that of a state the folder was in.
HashInv ==
  /\ \A f \in Files : found[f] # None => \E l \in during : found[f] = l[f]
  /\ pc = "hash" => folder \in during
  /\ pc # "idle" => during # {}
  /\ pc = "idle" => found = Nothing /\ todo = Nothing
  /\ \A f \in left : todo[f] = None

\* What is left to send, and what was sent, is as it was hashed.
PlanInv ==
  /\ \A f \in Files : todo[f] # None => todo[f] = found[f]
  /\ forced /\ pc # "idle" => \A f \in Present(found) : found[f] \in {todo[f], manifest[f]}
  /\ pc \in {"upload", "record"} => Present(todo) # {}
  /\ pc \in {"forget", "commit"} => Present(todo) = {}
  /\ pc \in {"upload", "record", "forget", "commit"} => snap \in Snapshots /\ moments[snap] = during
  /\ snap # None => phase[snap] # "none"

\* Version d of f was in the folder while the sync of snapshot s hashed it.
Seen(s, f, d) == \E l \in moments[s] : d = l[f]

\* A request belongs to a snapshot that was started, and goes by its hashes;
\* the one that is waited for is the one that was sent last.
WireInv ==
  /\ \A m \in wire : m.op = "upload" =>
       phase[m.snapshot] # "none" /\ Seen(m.snapshot, m.file, m.sha256)
  /\ \A m \in wire : m.op = "commit" =>
       /\ phase[m.snapshot] # "none" /\ moments[m.snapshot] # {}
       /\ m.snapshot = snap => pc = "commit" /\ m.manifest = manifest
  /\ \A m \in wire : m.live =>
       /\ m.op = pc
       /\ m.op = "upload" => m.file = Current /\ m.sha256 = todo[Current]
  /\ \A m, n \in wire : m.live /\ n.live => m = n

CutInv ==
  /\ \A s \in Snapshots : phase[s] = "none" => content[s] = Nothing
  /\ \A s \in Snapshots, f \in Files : content[s][f] # None => Seen(s, f, content[s][f])
  /\ \A s \in Snapshots : phase[s] = "committed" => moments[s] # {}

SentInv ==
  /\ pc = "record" => <<Current, todo[Current]>> \in sent
  /\ RecordedWasAccepted

IInv == TypeOK /\ HashInv /\ PlanInv /\ WireInv /\ CutInv /\ SentInv

\* The parts of TypeOK.
SyncType ==
  /\ todo \in Listing /\ manifest \in Listing /\ found \in Listing
  /\ pc \in {"idle", "hash", "start", "upload", "record", "forget", "commit"}
  /\ forced \in BOOLEAN
  /\ left \subseteq Files /\ gone \subseteq Files
  /\ during \in SUBSET Listing
  /\ snap \in Snapshots \cup {None}
  /\ tries \in Nat
ServerType ==
  /\ phase \in [Snapshots -> {"none", "open", "committed"}]
  /\ content \in [Snapshots -> Listing] /\ moments \in [Snapshots -> SUBSET Listing]
  /\ sent \in SUBSET (Files \X Digests) /\ published \in SUBSET (Files \X Digests)
  /\ held \in Listing
WireType == wire \in SUBSET Request
RestType ==
  /\ folder \in Listing /\ store \in Listing
  /\ saves \in 0..Saves /\ asks \in 0..Asks
  /\ flag \in BOOLEAN /\ beat \in {"idle", "told"}
Parts == SyncType /\ ServerType /\ WireType /\ RestType

LEMMA SplitType == TypeOK <=> Parts
  BY DEF TypeOK, Parts, SyncType, ServerType, WireType, RestType

LEMMA SplitTypeNext == Parts' => TypeOK'
  BY DEF TypeOK, Parts, SyncType, ServerType, WireType, RestType

LEMMA ListingFacts ==
  /\ Nothing \in Listing
  /\ \A l \in Listing : Present(l) \subseteq Files
  /\ \A l \in Listing : \A f \in Present(l) : l[f] \in Digests
  /\ \A l \in Listing, f \in Files, d \in Digests \cup {None} : [l EXCEPT ![f] = d] \in Listing
  /\ None \notin Snapshots
  BY Shape DEF Nothing, Listing, Present

LEMMA OverType == Over => SyncType'
  <1>1. Nothing \in Listing
    BY ListingFacts
  <1> SUFFICES ASSUME Over PROVE SyncType'
    OBVIOUS
  <1>2. todo' \in Listing /\ manifest' \in Listing /\ found' \in Listing
    BY <1>1 DEF Over
  <1>3. /\ snap' \in Snapshots \cup {None} /\ tries' \in Nat
        /\ left' \subseteq Files /\ gone' \subseteq Files /\ during' \in SUBSET Listing
    BY DEF Over
  <1> QED BY <1>2, <1>3 DEF Over, SyncType

LEMMA RetryType == SyncType /\ Retry => SyncType'
  BY OverType DEF Retry, SyncType

\* A request leaves the wire, or is no longer waited for.
LEMMA WireShrinks ==
  ASSUME WireType
  PROVE  /\ \A m \in wire : m \in Request /\ wire \ {m} \in SUBSET Request
         /\ \A m \in Request : [m EXCEPT !.live = FALSE] \in Request
  BY DEF WireType, Request

LEMMA InitInv == Init => IInv
  <1> SUFFICES ASSUME Init PROVE IInv
    OBVIOUS
  <1> USE DEF Init, Server!Init
  <1>1. TypeOK
    <2>1. Nothing \in Listing /\ Nothing = [f \in Files |-> None]
      BY ListingFacts DEF Nothing
    <2>2. SyncType
      BY <2>1 DEF SyncType
    <2>4. RestType
      <3>1. saves \in 0..Saves /\ asks \in 0..Asks
        BY Shape
      <3> QED BY <2>1, <3>1 DEF RestType
    <2>3. ServerType /\ WireType
      BY <2>1 DEF ServerType, WireType
    <2> QED BY <2>2, <2>3, <2>4, SplitType DEF Parts
  <1>6. HashInv
    BY DEF HashInv, Nothing
  <1>2. PlanInv
    BY ListingFacts DEF PlanInv, Nothing
  <1>3. WireInv
    BY DEF WireInv
  <1>4. CutInv
    BY DEF CutInv, Nothing
  <1>5. SentInv
    BY DEF SentInv, RecordedWasAccepted, Present, Nothing
  <1> QED BY <1>1, <1>2, <1>3, <1>4, <1>5, <1>6 DEF IInv

\* The first of some files is one of them.
LEMMA FirstIsOne ==
  ASSUME NEW fs \in SUBSET Files, fs # {}
  PROVE  FirstOf(fs) \in fs
  <1>1. fs \subseteq Nat
    BY Shape
  <1>2. PICK f \in fs : \A g \in fs : ~(<<g, f>> \in OpToRel(<, Nat))
    <2>1. IsWellFoundedOn(OpToRel(<, Nat), Nat)
      BY NatLessThanWellFounded
    <2> QED BY <1>1, <2>1, WFMin
  <1>3. \A g \in fs : ~(g < f)
    BY <1>1, <1>2 DEF OpToRel
  <1>4. \A g \in fs : f <= g
    BY <1>1, <1>3
  <1> QED BY <1>4 DEF FirstOf

LEMMA CurrentIsFile ==
  ASSUME Present(todo) # {}
  PROVE  Current \in Files /\ todo[Current] # None
  <1>1. Present(todo) \in SUBSET Files
    BY DEF Present
  <1>2. Current \in Present(todo)
    BY <1>1, FirstIsOne DEF Current
  <1> QED BY <1>2 DEF Present

LEMMA HashingIsFile ==
  ASSUME SyncType, left # {}
  PROVE  Hashing \in left /\ Hashing \in Files
  BY FirstIsOne DEF Hashing, SyncType

\* The answer to a request: the step it stands for, another attempt, or nothing.
LEMMA ProceedType ==
  ASSUME NEW l, NEW g, Proceed(l, g)
  PROVE  pc' \in {"upload", "forget", "commit"} /\ tries' \in Nat
  BY Shape DEF Proceed

LEMMA TypeNext == TypeOK /\ PlanInv /\ [Next]_vars => TypeOK'
  <1> SUFFICES ASSUME TypeOK, PlanInv, [Next]_vars PROVE Parts'
    BY SplitTypeNext
  <1>t. Parts
    BY SplitType
  <1> USE <1>t, ListingFacts DEF Parts
  <1> HIDE DEF TypeOK
  <1>u. ASSUME UNCHANGED sync PROVE SyncType'
    BY <1>u DEF sync, plan, SyncType
  <1>v. ASSUME UNCHANGED server PROVE ServerType'
    BY <1>v DEF server, ServerType
  <1>w. ASSUME NEW m \in wire, wire' = wire \ {m} PROVE WireType'
    BY <1>w DEF WireType
  <1>x. ASSUME UNCHANGED wire PROVE WireType'
    BY <1>x DEF WireType
  <1>y. ASSUME UNCHANGED <<disk, store, ask>> PROVE RestType'
    BY <1>y DEF RestType, disk, ask
  <1>d. ASSUME NEW force \in BOOLEAN, Begin(force) PROVE SyncType'
    <2>1. Present(folder) \subseteq Files /\ {folder} \in SUBSET Listing
      BY DEF RestType, Present
    <2> QED BY <1>d, <2>1 DEF Begin, SyncType
  <1>1. ASSUME NEW f \in Files, NEW d \in Digests \cup {None}, Save(f, d) PROVE Parts'
    <2>1. UNCHANGED <<store, plan, wire, server, ask>>
      BY <1>1 DEF Save
    <2>2. RestType'
      <3>1. saves' \in 0..Saves
        BY <1>1, Shape DEF Save, RestType
      <3>2. folder' \in Listing
        BY <1>1 DEF Save, RestType
      <3> QED BY <1>1, <3>1, <3>2 DEF Save, RestType, ask
    <2>3. during' \in SUBSET Listing
      BY <1>1, <2>2 DEF Save, SyncType, RestType
    <2>4. SyncType'
      BY <2>1, <2>3 DEF plan, SyncType
    <2> QED BY <2>1, <2>2, <2>4, <1>v, <1>x
  <1>2. ASSUME Rescan PROVE Parts'
    <2>1. Begin(FALSE) /\ UNCHANGED <<disk, store, wire, server, ask>>
      BY <1>2 DEF Rescan
    <2> QED BY <2>1, <1>d, <1>v, <1>x, <1>y
  <1>3. ASSUME Record PROVE Parts'
    <2>0. UNCHANGED <<disk, wire, server, ask>> /\ Present(todo) # {}
      BY <1>3 DEF Record, PlanInv
    <2>1. Current \in Files /\ Sha(Current) \in Digests
      BY <2>0, CurrentIsFile DEF SyncType, Listing, Sha
    <2>2. /\ store' = [store EXCEPT ![Current] = Sha(Current)]
          /\ manifest' = [manifest EXCEPT ![Current] = Sha(Current)]
          /\ todo' = [todo EXCEPT ![Current] = None]
          /\ Proceed(todo', gone)
          /\ UNCHANGED <<forced, left, gone, snap, found, during>>
      BY <1>3 DEF Record
    <2>3. store' \in Listing /\ manifest' \in Listing /\ todo' \in Listing
      BY <2>1, <2>2 DEF SyncType, RestType
    <2>4. SyncType'
      BY <2>2, <2>3, ProceedType DEF SyncType
    <2>5. RestType'
      BY <2>0, <2>3 DEF RestType, disk, ask
    <2> QED BY <2>0, <2>4, <2>5, <1>v, <1>x
  <1>4. ASSUME Forget PROVE Parts'
    <2>1. PICK f \in gone :
            /\ store' = [store EXCEPT ![f] = None]
            /\ gone' = gone \ {f}
            /\ Proceed(todo, gone \ {f})
            /\ UNCHANGED <<forced, left, todo, manifest, snap, found, during, disk, wire, server, ask>>
      BY <1>4 DEF Forget
    <2>2. SyncType'
      BY <2>1, ProceedType DEF SyncType
    <2>3. RestType'
      BY <2>1 DEF RestType, disk, ask, SyncType
    <2> QED BY <2>1, <2>2, <2>3, <1>v, <1>x
  <1>5. ASSUME FileGone PROVE Parts'
    <2>1. Over /\ UNCHANGED <<disk, store, wire, server, ask>>
      BY <1>5 DEF FileGone
    <2> QED BY <2>1, OverType, <1>v, <1>x, <1>y
  <1>16. ASSUME Hash PROVE Parts'
    <2>1. UNCHANGED <<disk, store, wire, server, ask>> /\ left # {} /\ folder[Hashing] # None
      BY <1>16 DEF Hash
    <2>2. Hashing \in Files
      BY <2>1, HashingIsFile
    <2>3. folder[Hashing] \in Digests
      BY <2>1, <2>2 DEF RestType, Listing
    <2>4. found' \in Listing /\ todo' \in Listing
      BY <1>16, <2>2, <2>3 DEF Hash, SyncType
    <2>5. SyncType'
      BY <1>16, <2>4 DEF Hash, SyncType
    <2> QED BY <2>1, <2>5, <1>v, <1>x, <1>y
  <1>17. ASSUME Compare PROVE Parts'
    <2>1. UNCHANGED <<disk, store, wire, server, ask>>
      BY <1>17 DEF Compare
    <2>2. CASE Over
      BY <2>1, <2>2, OverType, <1>v, <1>x, <1>y
    <2>3. CASE /\ pc' = "start" /\ tries' = Tries["start"] /\ gone' = Present(store) \ Present(found)
               /\ UNCHANGED <<forced, left, todo, manifest, snap, found, during>>
      <3>1. gone' \subseteq Files
        BY <2>3 DEF Present
      <3>2. tries' \in Nat
        BY <2>3, Shape
      <3>3. SyncType'
        BY <2>3, <3>1, <3>2 DEF SyncType
      <3> QED BY <2>1, <3>3, <1>v, <1>x, <1>y
    <2> QED BY <1>17, <2>2, <2>3 DEF Compare
  <1>6. ASSUME Send PROVE Parts'
    <2>1. wire' = wire \cup {Payload} /\ UNCHANGED <<disk, store, sync, server, ask>>
      BY <1>6 DEF Send
    <2>2. CASE pc = "start"
      <3>1. Payload = [op |-> "start", try |-> tries, live |-> TRUE]
        BY <2>2 DEF Payload
      <3>2. Payload \in Request
        BY <3>1 DEF Request, SyncType
      <3> QED BY <2>1, <3>2, <1>u, <1>v, <1>y DEF WireType
    <2>3. CASE pc = "commit"
      <3>1. snap \in Snapshots
        BY <2>3 DEF PlanInv
      <3>2. Payload = [op |-> "commit", snapshot |-> snap, manifest |-> manifest,
                       try |-> tries, live |-> TRUE]
        BY <2>3 DEF Payload
      <3>3. Payload \in Request
        BY <3>1, <3>2 DEF Request, SyncType
      <3> QED BY <2>1, <3>3, <1>u, <1>v, <1>y DEF WireType
    <2>4. CASE pc = "upload"
      <3>1. snap \in Snapshots /\ Present(todo) # {} /\ folder[Current] # None
        BY <1>6, <2>4 DEF PlanInv, Send
      <3>2. Current \in Files /\ Sha(Current) \in Digests
        BY <3>1, CurrentIsFile DEF SyncType, Listing, Sha
      <3>3. folder[Current] \in Digests
        BY <3>1, <3>2 DEF RestType, Listing
      <3>4. Payload \in Request
        BY <2>4, <3>1, <3>2, <3>3 DEF Payload, Request, SyncType
      <3> QED BY <2>1, <3>4, <1>u, <1>v, <1>y DEF WireType
    <2> QED BY <1>6, <2>2, <2>3, <2>4 DEF Send
  <1>a. ASSUME NEW m \in wire, Retry \/ UNCHANGED sync \/ Over, wire' = wire \ {m},
               UNCHANGED <<disk, store, ask>>
        PROVE  SyncType' /\ WireType' /\ RestType'
    BY <1>a, <1>u, <1>w, <1>y, RetryType, OverType
  <1>r. ASSUME NEW m \in wire, Refused(m) PROVE Parts'
    BY <1>r, <1>a, <1>v DEF Refused, Answer
  <1>7. ASSUME NEW m \in wire, ServeStart(m) PROVE Parts'
    <2>1. PICK s \in Snapshots :
            /\ Server!Advance(s, "none", "open")
            /\ moments' = IF m.live THEN [moments EXCEPT ![s] = during] ELSE moments
            /\ Answer(m, /\ snap' = s
                         /\ Proceed(todo, gone)
                         /\ UNCHANGED <<forced, left, todo, gone, manifest, found, during>>)
      BY <1>7 DEF ServeStart
    <2>2. UNCHANGED <<store, sent, held, published, disk, ask>> /\ wire' = wire \ {m}
      BY <1>7 DEF ServeStart, Answer
    <2>3. ServerType'
      BY <2>1, <2>2 DEF Server!Advance, ServerType, SyncType
    <2>4. CASE snap' = s /\ Proceed(todo, gone) /\ UNCHANGED <<forced, left, todo, gone, manifest, found, during>>
      BY <2>2, <2>3, <2>4, <1>w, <1>y, ProceedType DEF SyncType
    <2>5. CASE Retry \/ UNCHANGED sync
      BY <2>2, <2>3, <2>5, <1>a
    <2> QED BY <2>1, <2>4, <2>5 DEF Answer
  <1>8. ASSUME NEW m \in wire, ServeUpload(m) PROVE Parts'
    <2>0. m \in Request /\ m.op = "upload"
      BY <1>8 DEF ServeUpload, WireType
    <2>1. m.snapshot \in Snapshots /\ m.file \in Files /\ m.body \in Digests
      BY <2>0 DEF Request
    <2>2. CASE Refused(m)
      BY <2>2, <1>r
    <2>3. CASE /\ Server!Accept(m.snapshot, m.file, m.body)
               /\ sent' = sent \cup {<<m.file, m.body>>}
               /\ Answer(m, pc' = "record" /\ UNCHANGED <<forced, left, todo, gone, manifest, snap, tries, found, during>>)
               /\ UNCHANGED <<store, moments, held, published>>
      <3>1. ServerType'
        <4>1. content[m.snapshot] \in Listing
          BY <2>1 DEF ServerType
        <4>2. content' \in [Snapshots -> Listing]
          BY <2>1, <2>3, <4>1 DEF Server!Accept, ServerType
        <4> QED BY <2>1, <2>3, <4>2 DEF Server!Accept, ServerType
      <3>2. CASE Retry \/ UNCHANGED sync
        BY <2>3, <3>1, <3>2, <1>a DEF Answer
      <3>3. CASE pc' = "record" /\ UNCHANGED <<forced, left, todo, gone, manifest, snap, tries, found, during>>
        BY <2>3, <3>1, <3>3, <1>w, <1>y DEF Answer, SyncType
      <3> QED BY <2>3, <3>2, <3>3 DEF Answer
    <2> QED BY <1>8, <2>2, <2>3 DEF ServeUpload
  <1>9. ASSUME NEW m \in wire, ServeCommit(m) PROVE Parts'
    <2>0. m \in Request /\ m.op = "commit"
      BY <1>9 DEF ServeCommit, WireType
    <2>1. m.snapshot \in Snapshots
      BY <2>0 DEF Request
    <2>2. CASE Refused(m)
      BY <2>2, <1>r
    <2>3. CASE /\ Server!Advance(m.snapshot, "open", "committed")
               /\ held' = Published(content[m.snapshot])
               /\ published' = published \cup
                    {<<f, content[m.snapshot][f]>> : f \in Present(content[m.snapshot])}
               /\ Answer(m, Over)
               /\ UNCHANGED <<store, moments, sent>>
      <3>0. content[m.snapshot] \in Listing
        BY <2>1 DEF ServerType
      <3>1. Published(content[m.snapshot]) \in Listing
        BY <3>0 DEF Published, Listing, ServerType
      <3>2. published' \in SUBSET (Files \X Digests)
        BY <2>3, <3>0 DEF ServerType
      <3>3. ServerType'
        BY <2>1, <2>3, <3>1, <3>2 DEF Server!Advance, ServerType
      <3> QED BY <2>3, <3>3, <1>a DEF Answer
    <2> QED BY <1>9, <2>2, <2>3 DEF ServeCommit
  <1>10. ASSUME NEW m \in wire, Lose(m) PROVE Parts'
    BY <1>10, <1>a, <1>v DEF Lose
  <1>g. ASSUME NEW m \in wire PROVE [m EXCEPT !.live = FALSE] \in Request
    BY WireShrinks
  <1>11. ASSUME NEW m \in wire, GiveUp(m) PROVE Parts'
    <2>1. WireType'
      BY <1>11, <1>g DEF GiveUp, WireType
    <2> QED BY <1>11, <2>1, <1>v, <1>y, RetryType DEF GiveUp
  <1>12. ASSUME Restart PROVE Parts'
    <2>1. WireType'
      BY <1>12, <1>g DEF Restart, WireType
    <2>2. RestType'
      BY <1>12 DEF Restart, RestType, disk
    <2> QED BY <1>12, <2>1, <2>2, <1>v, OverType DEF Restart
  <1>13. ASSUME AskForSync \/ FlagExpires \/ Heartbeat PROVE Parts'
    <2>1. UNCHANGED <<disk, store, sync, wire, server>>
      BY <1>13 DEF AskForSync, FlagExpires, Heartbeat
    <2>2. RestType'
      <3>1. asks' \in 0..Asks
        BY <1>13, Shape DEF AskForSync, FlagExpires, Heartbeat, RestType
      <3>2. flag' \in BOOLEAN
        BY <1>13 DEF AskForSync, FlagExpires, Heartbeat, RestType
      <3>3. beat' \in {"idle", "told"}
        BY <1>13 DEF AskForSync, FlagExpires, Heartbeat, RestType
      <3> QED BY <2>1, <3>1, <3>2, <3>3 DEF RestType, disk
    <2> QED BY <2>1, <2>2, <1>u, <1>v, <1>x
  <1>14. ASSUME SyncOnDemand PROVE Parts'
    <2>1. UNCHANGED <<disk, store, wire, server, flag, asks>> /\ beat' = "idle"
      BY <1>14 DEF SyncOnDemand
    <2>2. RestType'
      BY <2>1 DEF RestType, disk
    <2>3. SyncType'
      BY <1>14, <1>d, <1>u DEF SyncOnDemand
    <2> QED BY <2>1, <2>2, <2>3, <1>v, <1>x
  <1>15. ASSUME UNCHANGED vars PROVE Parts'
    BY <1>15, <1>u, <1>v, <1>x, <1>y DEF vars
  <1> QED BY <1>1, <1>2, <1>3, <1>4, <1>5, <1>6, <1>7, <1>8, <1>9, <1>10, <1>11, <1>12, <1>13, <1>14, <1>15, <1>16, <1>17 DEF Next, Local, Serve

\* What no step of the server undoes.
Grows ==
  \A s \in Snapshots : phase[s] # "none" => phase'[s] # "none" /\ moments'[s] = moments[s]

\* The requests of w are under way already, or have been given up.
Aged(w) == \A m \in w : \E n \in wire : m = n \/ m = [n EXCEPT !.live = FALSE]

LEMMA CurrentStays == todo' = todo => Current' = Current
  BY DEF Current, Present

LEMMA GivenUp ==
  ASSUME NEW n \in Request
  PROVE  LET m == [n EXCEPT !.live = FALSE]
         IN  /\ ~m.live /\ m.op = n.op
             /\ n.op = "upload" => m.snapshot = n.snapshot /\ m.file = n.file /\ m.sha256 = n.sha256
             /\ n.op = "commit" => m.snapshot = n.snapshot /\ m.manifest = n.manifest
  BY DEF Request

LEMMA RequestFacts ==
  ASSUME NEW m \in Request
  PROVE  /\ m.op \in {"start", "upload", "commit"}
         /\ m.op = "upload" => m.snapshot \in Snapshots /\ m.file \in Files /\ m.sha256 \in Digests
         /\ m.op = "commit" => m.snapshot \in Snapshots /\ m.manifest \in Listing
  BY DEF Request

LEMMA NotSnapshot == None \notin Snapshots
  BY Shape

LEMMA NoOther ==
  ASSUME WireInv, NEW m \in wire, m.live, NEW n \in wire, n.live
  PROVE  n = m
  BY DEF WireInv

\* A step after which the old requests are still what WireInv says of them.
LEMMA WireKept ==
  ASSUME WireInv, WireType, Grows, Aged(wire'),
         \/ UNCHANGED <<pc, todo, manifest, snap>>
         \/ /\ \A m \in wire' : ~m.live
            /\ \A n \in wire : n.op = "commit" => n.snapshot # snap'
  PROVE  WireInv'
  <1>1. ASSUME NEW m \in wire'
        PROVE  \E n \in wire :
                 /\ n \in Request
                 /\ m.op = n.op /\ (m.live => m = n)
                 /\ n.op = "upload" => m.snapshot = n.snapshot /\ m.file = n.file /\ m.sha256 = n.sha256
                 /\ n.op = "commit" => m.snapshot = n.snapshot /\ m.manifest = n.manifest
    <2>1. PICK n \in wire : m = n \/ m = [n EXCEPT !.live = FALSE]
      BY <1>1 DEF Aged
    <2>2. n \in Request
      BY DEF WireType
    <2> QED BY <2>1, <2>2, GivenUp
  <1>2. \A m \in wire' : m.op = "upload" =>
          phase'[m.snapshot] # "none" /\ Seen(m.snapshot, m.file, m.sha256)'
    BY <1>1, RequestFacts DEF Grows, WireInv, Seen
  <1>3. \A m \in wire' : m.op = "commit" =>
          /\ phase'[m.snapshot] # "none" /\ moments'[m.snapshot] # {}
          /\ m.snapshot = snap' => pc' = "commit" /\ m.manifest = manifest'
    BY <1>1, RequestFacts DEF Grows, WireInv
  <1>4. \A m \in wire' : m.live =>
          /\ m.op = pc'
          /\ m.op = "upload" => m.file = Current' /\ m.sha256 = todo'[Current']
    <2> SUFFICES ASSUME NEW m \in wire', m.live
                 PROVE  m.op = pc' /\ (m.op = "upload" => m.file = Current' /\ m.sha256 = todo'[Current'])
      OBVIOUS
    <2>1. m \in wire /\ UNCHANGED <<pc, todo>>
      BY <1>1
    <2>2. Current' = Current
      BY <2>1, CurrentStays
    <2> QED BY <2>1, <2>2 DEF WireInv
  <1>5. \A m, n \in wire' : m.live /\ n.live => m = n
    BY <1>1 DEF WireInv
  <1> HIDE DEF Current
  <1> QED BY <1>2, <1>3, <1>4, <1>5 DEF WireInv

LEMMA WireNext == IInv /\ [Next]_vars => WireInv'
  <1> SUFFICES ASSUME IInv, [Next]_vars PROVE WireInv'
    OBVIOUS
  <1>0. /\ SyncType /\ ServerType /\ WireType /\ RestType
        /\ HashInv /\ PlanInv /\ WireInv /\ CutInv /\ SentInv /\ None \notin Snapshots
    BY SplitType, ListingFacts DEF IInv, Parts
  <1>f. \A n \in wire : n.op \in {"start", "upload", "commit"} /\ (n.op = "commit" => n.snapshot # None)
    BY <1>0, RequestFacts DEF WireType
  <1>g. ASSUME UNCHANGED <<phase, moments>> PROVE Grows
    BY <1>g DEF Grows
  <1>k. ASSUME UNCHANGED <<plan, wire, phase, moments>> PROVE WireInv'
    <2>1. Aged(wire')
      BY <1>k DEF Aged
    <2> QED BY <1>0, <1>g, <1>k, <2>1, WireKept DEF sync, plan
  <1>q. ASSUME \A n \in wire : ~n.live, UNCHANGED wire, Grows,
               \A n \in wire : n.op = "commit" => n.snapshot # snap'
        PROVE  WireInv'
    <2>1. Aged(wire')
      BY <1>q DEF Aged
    <2> QED BY <1>0, <1>q, <2>1, WireKept
  <1>p. ASSUME pc \notin {"start", "upload", "commit"}, UNCHANGED <<wire, snap, phase, moments>> PROVE WireInv'
    <2>1. \A n \in wire : ~n.live /\ (n.op = "commit" => n.snapshot # snap)
      BY <1>0, <1>f, <1>p DEF WireInv
    <2> QED BY <2>1, <1>g, <1>p, <1>q
  <1>h. ASSUME NEW m \in wire, m.live, wire' = wire \ {m} \/ wire' = (wire \ {m}) \cup {[m EXCEPT !.live = FALSE]}
        PROVE  (\A n \in wire' : ~n.live) /\ Aged(wire')
    <2>1. m \in Request
      BY <1>0 DEF WireType
    <2>2. \A n \in wire \ {m} : ~n.live
      BY <1>0, <1>h, NoOther
    <2> QED BY <1>h, <2>1, <2>2, GivenUp DEF Aged
  <1>o. ASSUME Over, \A n \in wire' : ~n.live, Aged(wire'), Grows PROVE WireInv'
    BY <1>0, <1>f, <1>o, WireKept DEF Over
  <1>r. ASSUME NEW m \in wire, m.live, Retry \/ Over, Grows,
               wire' = wire \ {m} \/ wire' = (wire \ {m}) \cup {[m EXCEPT !.live = FALSE]}
        PROVE  WireInv'
    <2>1. (\A n \in wire' : ~n.live) /\ Aged(wire')
      BY <1>h, <1>r
    <2>2. CASE Over
      BY <2>1, <2>2, <1>o, <1>r
    <2>3. CASE UNCHANGED <<pc, todo, manifest, snap>>
      BY <1>0, <1>r, <2>1, <2>3, WireKept
    <2> QED BY <1>r, <2>2, <2>3 DEF Retry
  <1>l. ASSUME NEW m \in wire, wire' = wire \ {m}, UNCHANGED sync, Grows PROVE WireInv'
    <2>1. Aged(wire')
      BY <1>l DEF Aged
    <2> QED BY <1>0, <1>l, <2>1, WireKept DEF sync, plan
  <1>s. ASSUME NEW m \in wire, Refused(m) PROVE WireInv'
    BY <1>s, <1>r, <1>l, <1>g DEF Refused, Answer, server
  <1>1. ASSUME NEW f \in Files, NEW d \in Digests \cup {None}, Save(f, d) PROVE WireInv'
    BY <1>1, <1>k DEF Save, server
  <1>2. ASSUME Rescan PROVE WireInv'
    BY <1>2, <1>p DEF Rescan, Begin, server
  <1>16. ASSUME Hash PROVE WireInv'
    BY <1>16, <1>p DEF Hash, server
  <1>17. ASSUME Compare PROVE WireInv'
    <2>1. \A n \in wire : ~n.live
      BY <1>0, <1>f, <1>17 DEF Compare, WireInv
    <2>2. \A n \in wire : n.op = "commit" => n.snapshot # snap
      BY <1>0, <1>17 DEF Compare, WireInv
    <2> QED BY <1>0, <1>f, <1>17, <2>1, <2>2, <1>g, <1>q DEF Compare, Over, server
  <1>3. ASSUME Record PROVE WireInv'
    BY <1>3, <1>p DEF Record, server
  <1>4. ASSUME Forget PROVE WireInv'
    BY <1>4, <1>p DEF Forget, server
  <1>5. ASSUME FileGone PROVE WireInv'
    <2>1. \A n \in wire : ~n.live
      BY <1>0, <1>f, <1>5 DEF FileGone, Waiting, WireInv
    <2> QED BY <1>5, <2>1, <1>f, <1>g, <1>q DEF FileGone, Over, server
  <1>6. ASSUME Send PROVE WireInv'
    <2>0. /\ wire' = wire \cup {Payload} /\ \A n \in wire : ~n.live
          /\ pc \in {"start", "upload", "commit"}
          /\ UNCHANGED <<pc, todo, manifest, snap, phase, moments>>
      BY <1>6 DEF Send, Waiting, sync, plan, server
    <2>1. Current' = Current
      BY <2>0, CurrentStays
    <2>2. /\ Payload.op = pc /\ (pc = "upload" => Payload.file = Current /\ Payload.sha256 = todo[Current])
          /\ pc \in {"upload", "commit"} => Payload.snapshot = snap
          /\ pc = "commit" => Payload.manifest = manifest
      <3>1. CASE pc = "start"
        BY <3>1 DEF Payload
      <3>2. CASE pc = "upload"
        BY <3>2 DEF Payload, Sha
      <3>3. CASE pc = "commit"
        BY <3>3 DEF Payload
      <3> QED BY <2>0, <3>1, <3>2, <3>3
    <2>3. pc \in {"upload", "commit"} => snap \in Snapshots /\ phase[snap] # "none" /\ moments[snap] # {}
      BY <1>0 DEF PlanInv, HashInv
    <2>4. pc = "upload" => Seen(snap, Current, todo[Current])
      <3> SUFFICES ASSUME pc = "upload" PROVE Seen(snap, Current, todo[Current])
        OBVIOUS
      <3>1. Present(todo) # {} /\ moments[snap] = during
        BY <1>0 DEF PlanInv
      <3>2. Current \in Files /\ todo[Current] # None
        BY <3>1, CurrentIsFile
      <3> HIDE DEF Current
      <3>3. found[Current] = todo[Current]
        BY <1>0, <3>2 DEF PlanInv
      <3>4. \E l \in during : found[Current] = l[Current]
        BY <1>0, <3>2, <3>3 DEF HashInv
      <3> QED BY <3>1, <3>3, <3>4 DEF Seen
    <2>5. \A m \in wire' : m \in wire \/ m = Payload
      BY <2>0
    <2> HIDE DEF Current, Payload
    <2>a. \A m \in wire' : Seen(m.snapshot, m.file, m.sha256) => Seen(m.snapshot, m.file, m.sha256)'
      BY <2>0 DEF Seen
    <2>6. \A m \in wire' : m.op = "upload" =>
            phase'[m.snapshot] # "none" /\ Seen(m.snapshot, m.file, m.sha256)'
      <3> SUFFICES ASSUME NEW m \in wire', m.op = "upload"
                   PROVE  phase[m.snapshot] # "none" /\ Seen(m.snapshot, m.file, m.sha256)
        BY <2>0, <2>a
      <3>1. CASE m \in wire
        BY <1>0, <3>1 DEF WireInv
      <3>2. CASE m = Payload
        BY <2>2, <2>3, <2>4, <3>2
      <3> QED BY <2>5, <3>1, <3>2
    <2>7. \A m \in wire' : m.op = "commit" =>
            /\ phase'[m.snapshot] # "none" /\ moments'[m.snapshot] # {}
            /\ m.snapshot = snap' => pc' = "commit" /\ m.manifest = manifest'
      BY <1>0, <2>0, <2>2, <2>3, <2>5 DEF WireInv
    <2>8. \A m \in wire' : m.live =>
            /\ m.op = pc'
            /\ m.op = "upload" => m.file = Current' /\ m.sha256 = todo'[Current']
      BY <2>0, <2>1, <2>2, <2>5
    <2>9. \A m, n \in wire' : m.live /\ n.live => m = n
      BY <2>0, <2>5
    <2> QED BY <2>6, <2>7, <2>8, <2>9 DEF WireInv
  <1>7. ASSUME NEW m \in wire, ServeStart(m) PROVE WireInv'
    <2>1. PICK s \in Snapshots :
            /\ Server!Advance(s, "none", "open")
            /\ moments' = IF m.live THEN [moments EXCEPT ![s] = during] ELSE moments
            /\ Answer(m, /\ snap' = s
                         /\ Proceed(todo, gone)
                         /\ UNCHANGED <<forced, left, todo, gone, manifest, found, during>>)
      BY <1>7 DEF ServeStart
    <2>2. Grows
      BY <1>0, <2>1 DEF Grows, Server!Advance, ServerType
    <2>3. wire' = wire \ {m}
      BY <2>1 DEF Answer
    <2>4. CASE m.live /\ snap' = s
      <3>1. \A n \in wire : n.op = "commit" => n.snapshot # s
        BY <1>0, <2>1 DEF WireInv, Server!Advance
      <3> QED BY <1>0, <1>h, <2>2, <2>3, <2>4, <3>1, WireKept
    <2> QED BY <2>1, <2>2, <2>3, <2>4, <1>l, <1>r DEF Answer
  <1>8. ASSUME NEW m \in wire, ServeUpload(m) PROVE WireInv'
    <2>1. CASE Refused(m)
      BY <2>1, <1>s
    <2>2. CASE /\ Server!Accept(m.snapshot, m.file, m.body)
               /\ Answer(m, pc' = "record" /\ UNCHANGED <<forced, left, todo, gone, manifest, snap, tries, found, during>>)
               /\ UNCHANGED moments
      <3>1. Grows /\ wire' = wire \ {m}
        BY <2>2, <1>g DEF Server!Accept, Answer
      <3>2. CASE m.live /\ pc' = "record" /\ snap' = snap
        <4>1. \A n \in wire : n.op = "commit" => n.snapshot # snap'
          BY <1>0, <1>8, <3>2 DEF WireInv, ServeUpload
        <4> QED BY <1>0, <1>h, <3>1, <3>2, <4>1, WireKept
      <3> QED BY <2>2, <3>1, <3>2, <1>l, <1>r DEF Answer
    <2> QED BY <1>8, <2>1, <2>2 DEF ServeUpload
  <1>9. ASSUME NEW m \in wire, ServeCommit(m) PROVE WireInv'
    <2>1. CASE Refused(m)
      BY <2>1, <1>s
    <2>2. CASE Server!Advance(m.snapshot, "open", "committed") /\ Answer(m, Over) /\ UNCHANGED moments
      <3>1. Grows /\ wire' = wire \ {m}
        BY <1>0, <2>2 DEF Grows, Server!Advance, ServerType, Answer
      <3> QED BY <2>2, <3>1, <1>l, <1>r DEF Answer
    <2> QED BY <1>9, <2>1, <2>2 DEF ServeCommit
  <1>10. ASSUME NEW m \in wire, Lose(m) PROVE WireInv'
    BY <1>10, <1>r, <1>l, <1>g DEF Lose, server
  <1>11. ASSUME NEW m \in wire, GiveUp(m) PROVE WireInv'
    BY <1>11, <1>r, <1>g DEF GiveUp, server
  <1>12. ASSUME Restart PROVE WireInv'
    <2>1. \A n \in wire' : ~n.live
      BY <1>0, <1>12, GivenUp DEF Restart, WireType
    <2>2. Aged(wire')
      BY <1>12 DEF Restart, Aged
    <2> QED BY <1>12, <2>1, <2>2, <1>g, <1>o DEF Restart, server
  <1>13. ASSUME AskForSync \/ FlagExpires \/ Heartbeat PROVE WireInv'
    BY <1>13, <1>k DEF AskForSync, FlagExpires, Heartbeat, sync, server
  <1>14. ASSUME SyncOnDemand PROVE WireInv'
    BY <1>14, <1>p, <1>k DEF SyncOnDemand, Begin, sync, server
  <1>15. ASSUME UNCHANGED vars PROVE WireInv'
    BY <1>15, <1>k DEF vars, sync, server
  <1> QED BY <1>1, <1>2, <1>3, <1>4, <1>5, <1>6, <1>7, <1>8, <1>9, <1>10, <1>11, <1>12, <1>13, <1>14, <1>15, <1>16, <1>17 DEF Next, Local, Serve

LEMMA HashNext == IInv /\ [Next]_vars => HashInv'
  <1> SUFFICES ASSUME IInv, [Next]_vars PROVE HashInv'
    OBVIOUS
  <1>0. /\ SyncType /\ ServerType /\ WireType /\ RestType
        /\ HashInv /\ PlanInv /\ WireInv /\ CutInv /\ SentInv /\ None \notin Snapshots
    BY SplitType, ListingFacts DEF IInv, Parts
  \* Once the hashes are taken nothing more is added to them.
  <1>k. ASSUME UNCHANGED <<left, found, during>>, pc # "idle", pc' \notin {"idle", "hash"},
               \A f \in Files : todo'[f] \in {todo[f], None}
        PROVE  HashInv'
    <2>1. \A f \in left : todo'[f] = None
      BY <1>0, <1>k DEF HashInv, SyncType
    <2> QED BY <1>0, <1>k, <2>1 DEF HashInv
  <1>e. ASSUME UNCHANGED sync, UNCHANGED folder PROVE HashInv'
    BY <1>0, <1>e DEF HashInv, sync, plan
  <1>o. ASSUME Over PROVE HashInv'
    BY <1>o DEF Over, HashInv, Nothing
  <1>r. ASSUME Retry \/ Over \/ UNCHANGED sync, UNCHANGED folder PROVE HashInv'
    <2>1. CASE UNCHANGED <<pc, forced, left, todo, gone, manifest, snap, found, during>>
      BY <1>0, <1>r, <2>1 DEF HashInv
    <2> QED BY <1>r, <2>1, <1>e, <1>o DEF Retry
  <1>s. ASSUME NEW m \in wire, Refused(m) PROVE HashInv'
    BY <1>s, <1>r DEF Refused, Answer, disk
  <1>d. ASSUME NEW force \in BOOLEAN, Begin(force), UNCHANGED disk PROVE HashInv'
    <2>1. pc' = "hash" /\ during' = {folder} /\ found' = Nothing /\ todo' = Nothing /\ left' \subseteq Files
      BY <1>0, <1>d DEF Begin, HashInv, Present
    <2>2. folder' = folder
      BY <1>d DEF disk
    <2> QED BY <2>1, <2>2 DEF HashInv, Nothing
  <1>1. ASSUME NEW f \in Files, NEW d \in Digests \cup {None}, Save(f, d) PROVE HashInv'
    <2>1. UNCHANGED plan /\ during' = IF pc = "hash" THEN during \cup {folder'} ELSE during
      BY <1>1 DEF Save
    <2> QED BY <1>0, <2>1 DEF HashInv, plan
  <1>2. ASSUME Rescan PROVE HashInv'
    BY <1>2, <1>d DEF Rescan
  <1>16. ASSUME Hash PROVE HashInv'
    <2> DEFINE h == Hashing
    <2>1. h \in Files /\ h \in left
      BY <1>0, <1>16, HashingIsFile DEF Hash
    <2>2. /\ pc = "hash" /\ pc' = pc /\ folder' = folder /\ during' = during
          /\ left' = left \ {h}
          /\ found' = [found EXCEPT ![h] = folder[h]]
          /\ todo' = IF Differs(h) THEN [todo EXCEPT ![h] = folder[h]] ELSE todo
      BY <1>16 DEF Hash, disk
    <2> HIDE DEF h
    <2>3. \A f \in Files : found'[f] = IF f = h THEN folder[h] ELSE found[f]
      BY <1>0, <2>1, <2>2 DEF SyncType, Listing
    <2>4. \A f \in left' : todo'[f] = None
      <3>1. \A f \in Files : f # h => todo'[f] = todo[f]
        BY <1>0, <2>1, <2>2 DEF SyncType, Listing
      <3> QED BY <1>0, <2>2, <3>1 DEF HashInv, SyncType
    <2>5. folder \in during
      BY <1>0, <2>2 DEF HashInv
    <2>6. \A f \in Files : found'[f] # None => \E l \in during' : found'[f] = l[f]
      BY <1>0, <2>2, <2>3, <2>5 DEF HashInv
    <2> QED BY <2>2, <2>4, <2>5, <2>6 DEF HashInv
  <1>17. ASSUME Compare PROVE HashInv'
    <2>1. CASE Over
      BY <2>1, <1>o
    <2>2. CASE pc' = "start" /\ UNCHANGED <<forced, left, todo, manifest, snap, found, during>>
      BY <1>17, <2>2, <1>k DEF Compare
    <2> QED BY <1>17, <2>1, <2>2 DEF Compare
  <1>3. ASSUME Record PROVE HashInv'
    <2>1. /\ pc = "record" /\ todo' = [todo EXCEPT ![Current] = None]
          /\ UNCHANGED <<left, found, during>> /\ pc' \in {"upload", "forget", "commit"}
      BY <1>3 DEF Record, Proceed
    <2>2. \A f \in Files : todo'[f] \in {todo[f], None}
      BY <1>0, <2>1 DEF SyncType, Listing
    <2> QED BY <2>1, <2>2, <1>k
  <1>4. ASSUME Forget PROVE HashInv'
    BY <1>4, <1>k DEF Forget, Proceed
  <1>5. ASSUME FileGone PROVE HashInv'
    BY <1>5, <1>o DEF FileGone
  <1>6. ASSUME Send PROVE HashInv'
    BY <1>6, <1>e DEF Send, disk
  <1>7. ASSUME NEW m \in wire, ServeStart(m) PROVE HashInv'
    <2>1. \/ Retry \/ UNCHANGED sync
          \/ m.live /\ pc' \in {"upload", "forget", "commit"} /\ UNCHANGED <<left, todo, found, during>>
      BY <1>7 DEF ServeStart, Answer, Proceed
    <2>2. UNCHANGED folder /\ m.op = "start"
      BY <1>7 DEF ServeStart, Answer, disk
    <2>3. m.live => pc = "start"
      BY <1>0, <2>2 DEF WireInv
    <2> QED BY <2>1, <2>2, <2>3, <1>k, <1>r
  <1>8. ASSUME NEW m \in wire, ServeUpload(m) PROVE HashInv'
    <2>1. CASE Refused(m)
      BY <2>1, <1>s
    <2>2. CASE Answer(m, pc' = "record" /\ UNCHANGED <<forced, left, todo, gone, manifest, snap, tries, found, during>>)
      <3>1. m.live => pc = "upload"
        BY <1>0, <1>8 DEF WireInv, ServeUpload
      <3> QED BY <2>2, <3>1, <1>k, <1>r DEF Answer, disk
    <2> QED BY <1>8, <2>1, <2>2 DEF ServeUpload
  <1>9. ASSUME NEW m \in wire, ServeCommit(m) PROVE HashInv'
    BY <1>9, <1>r, <1>s DEF ServeCommit, Answer, disk
  <1>10. ASSUME NEW m \in wire, Lose(m) PROVE HashInv'
    BY <1>10, <1>r DEF Lose, disk
  <1>11. ASSUME NEW m \in wire, GiveUp(m) PROVE HashInv'
    BY <1>11, <1>r DEF GiveUp, disk
  <1>12. ASSUME Restart PROVE HashInv'
    BY <1>12, <1>o DEF Restart
  <1>13. ASSUME AskForSync \/ FlagExpires \/ Heartbeat PROVE HashInv'
    BY <1>13, <1>e DEF AskForSync, FlagExpires, Heartbeat, disk
  <1>14. ASSUME SyncOnDemand PROVE HashInv'
    BY <1>14, <1>d, <1>e DEF SyncOnDemand, disk
  <1>15. ASSUME UNCHANGED vars PROVE HashInv'
    BY <1>15, <1>e DEF vars, disk
  <1> QED BY <1>1, <1>2, <1>3, <1>4, <1>5, <1>6, <1>7, <1>8, <1>9, <1>10, <1>11, <1>12, <1>13, <1>14, <1>15, <1>16, <1>17 DEF Next, Local, Serve

LEMMA PlanNext == IInv /\ [Next]_vars => PlanInv'
  <1> SUFFICES ASSUME IInv, [Next]_vars PROVE PlanInv'
    OBVIOUS
  <1>0. /\ SyncType /\ ServerType /\ WireType /\ RestType
        /\ HashInv /\ PlanInv /\ WireInv /\ CutInv /\ SentInv /\ None \notin Snapshots
    BY SplitType, ListingFacts DEF IInv, Parts
  <1>c. ASSUME UNCHANGED <<pc, forced, todo, manifest, snap, found, during>>, Grows PROVE PlanInv'
    BY <1>0, <1>c, NotSnapshot DEF PlanInv, Grows, Present, SyncType
  <1>e. ASSUME UNCHANGED sync, UNCHANGED <<phase, moments>> PROVE PlanInv'
    BY <1>c, <1>e DEF sync, plan, Grows
  <1>o. ASSUME Over PROVE PlanInv'
    BY <1>o, NotSnapshot DEF Over, PlanInv, Nothing
  <1>r. ASSUME Retry \/ Over \/ UNCHANGED sync, Grows PROVE PlanInv'
    BY <1>c, <1>o, <1>r DEF Retry, sync, plan
  <1>g. ASSUME UNCHANGED <<phase, moments>> PROVE Grows
    BY <1>g DEF Grows
  <1>d. ASSUME NEW force \in BOOLEAN, Begin(force), UNCHANGED <<phase, moments>> PROVE PlanInv'
    <2>1. /\ pc' = "hash" /\ snap' = snap
          /\ found' = Nothing /\ todo' = Nothing
      BY <1>0, <1>d DEF Begin, HashInv
    <2>2. snap # None => phase[snap] # "none"
      BY <1>0 DEF PlanInv
    <2> QED BY <1>d, <2>1, <2>2 DEF PlanInv, Present, Nothing
  <1>s. ASSUME NEW m \in wire, Refused(m) PROVE PlanInv'
    BY <1>s, <1>r, <1>g DEF Refused, Answer, server
  <1>1. ASSUME NEW f \in Files, NEW d \in Digests \cup {None}, Save(f, d) PROVE PlanInv'
    <2>1. UNCHANGED <<plan, phase, moments>>
      BY <1>1 DEF Save, server
    <2>2. CASE pc = "hash"
      BY <1>0, <2>1, <2>2 DEF plan, PlanInv, Present
    <2>3. CASE pc # "hash"
      <3>1. UNCHANGED sync
        BY <1>1, <2>1, <2>3 DEF Save, sync
      <3> QED BY <2>1, <3>1, <1>e
    <2> QED BY <2>2, <2>3
  <1>2. ASSUME Rescan PROVE PlanInv'
    BY <1>2, <1>d DEF Rescan, server
  <1>16. ASSUME Hash PROVE PlanInv'
    <2> DEFINE h == Hashing
    <2>1. h \in Files /\ h \in left
      BY <1>0, <1>16, HashingIsFile DEF Hash
    <2>2. /\ pc = "hash" /\ folder[h] # None
          /\ found' = [found EXCEPT ![h] = folder[h]]
          /\ todo' = IF Differs(h) THEN [todo EXCEPT ![h] = folder[h]] ELSE todo
          /\ UNCHANGED <<pc, forced, manifest, snap, phase, moments>>
      BY <1>16 DEF Hash, server
    <2>3. todo[h] = None
      BY <1>0, <2>1 DEF HashInv
    <2> HIDE DEF h
    <2>4. \A f \in Files : found'[f] = IF f = h THEN folder[h] ELSE found[f]
      BY <1>0, <2>1, <2>2 DEF SyncType, Listing
    <2>5. \A f \in Files : todo'[f] = IF f = h /\ Differs(h) THEN folder[h] ELSE todo[f]
      BY <1>0, <2>1, <2>2 DEF SyncType, Listing
    <2>6. \A f \in Files : todo'[f] # None => todo'[f] = found'[f]
      BY <1>0, <2>3, <2>4, <2>5 DEF PlanInv
    <2>7. forced' => \A f \in Present(found') : found'[f] \in {todo'[f], manifest'[f]}
      <3> SUFFICES ASSUME forced, NEW f \in Files, found'[f] # None
                   PROVE  found'[f] \in {todo'[f], manifest[f]}
        BY <2>2 DEF Present
      <3>1. CASE f = h
        BY <2>4, <2>5, <3>1 DEF Differs
      <3>2. CASE f # h
        BY <1>0, <2>2, <2>4, <2>5, <3>2 DEF PlanInv, Present
      <3> QED BY <3>1, <3>2
    <2>8. snap # None => phase[snap] # "none"
      BY <1>0 DEF PlanInv
    <2> QED BY <2>2, <2>6, <2>7, <2>8 DEF PlanInv
  <1>17. ASSUME Compare PROVE PlanInv'
    <2>1. CASE Over
      BY <2>1, <1>o
    <2>2. CASE pc' = "start" /\ UNCHANGED <<forced, todo, manifest, snap, found, during, phase, moments>>
      BY <1>0, <1>17, <2>2 DEF Compare, PlanInv, Present
    <2> QED BY <1>17, <2>1, <2>2 DEF Compare, server
  <1>3. ASSUME Record PROVE PlanInv'
    <2>1. /\ pc = "record" /\ manifest' = [manifest EXCEPT ![Current] = todo[Current]]
          /\ todo' = [todo EXCEPT ![Current] = None]
          /\ pc' = IF Present(todo') # {} THEN "upload" ELSE IF gone # {} THEN "forget" ELSE "commit"
          /\ UNCHANGED <<forced, gone, snap, found, during, phase, moments>>
      BY <1>3 DEF Record, Sha, Proceed, server
    <2>2. /\ snap \in Snapshots /\ moments[snap] = during /\ phase[snap] # "none"
          /\ forced => \A f \in Present(found) : found[f] \in {todo[f], manifest[f]}
          /\ \A f \in Files : todo[f] # None => todo[f] = found[f]
      BY <1>0, <2>1, NotSnapshot DEF PlanInv
    <2>3. Current \in Files /\ todo[Current] # None
      BY <1>0, <2>1, CurrentIsFile DEF PlanInv
    <2>4. \A f \in Files : /\ todo'[f] = IF f = Current THEN None ELSE todo[f]
                           /\ manifest'[f] = IF f = Current THEN todo[f] ELSE manifest[f]
      BY <1>0, <2>1 DEF SyncType, Listing
    <2> HIDE DEF Current
    <2>5. forced => \A f \in Present(found) : found[f] \in {todo'[f], manifest'[f]}
      BY <2>2, <2>3, <2>4 DEF Present
    <2>6. \A f \in Files : todo'[f] # None => todo'[f] = found[f]
      BY <2>2, <2>4
    <2>7. /\ pc' \in {"upload", "record"} => Present(todo') # {}
          /\ pc' \in {"forget", "commit"} => Present(todo') = {}
      BY <2>1
    <2> QED BY <2>1, <2>2, <2>5, <2>6, <2>7 DEF PlanInv, Present
  <1>4. ASSUME Forget PROVE PlanInv'
    <2>1. /\ pc = "forget" /\ pc' = IF Present(todo) # {} THEN "upload" ELSE IF gone' # {} THEN "forget" ELSE "commit"
          /\ UNCHANGED <<forced, left, todo, manifest, snap, found, during, phase, moments>>
      BY <1>4 DEF Forget, Proceed, server
    <2> QED BY <1>0, <2>1 DEF PlanInv, Present
  <1>5. ASSUME FileGone PROVE PlanInv'
    BY <1>5, <1>o DEF FileGone
  <1>6. ASSUME Send PROVE PlanInv'
    BY <1>6, <1>e DEF Send, server
  <1>7. ASSUME NEW m \in wire, ServeStart(m) PROVE PlanInv'
    <2>1. PICK s \in Snapshots :
            /\ Server!Advance(s, "none", "open")
            /\ moments' = IF m.live THEN [moments EXCEPT ![s] = during] ELSE moments
            /\ Answer(m, /\ snap' = s
                         /\ Proceed(todo, gone)
                         /\ UNCHANGED <<forced, left, todo, gone, manifest, found, during>>)
      BY <1>7 DEF ServeStart
    <2>2. Grows
      BY <1>0, <2>1 DEF Grows, Server!Advance, ServerType
    <2>3. CASE /\ m.live /\ snap' = s /\ Proceed(todo, gone)
               /\ UNCHANGED <<forced, left, todo, gone, manifest, found, during>>
      <3>1. moments'[s] = during /\ phase'[s] # "none"
        BY <1>0, <2>1, <2>3 DEF Server!Advance, ServerType
      <3>2. pc' = IF Present(todo) # {} THEN "upload" ELSE IF gone # {} THEN "forget" ELSE "commit"
        BY <2>3 DEF Proceed
      <3>3. pc = "start"
        BY <1>0, <1>7, <2>3 DEF WireInv, ServeStart
      <3>4. \A f \in Files : todo'[f] # None => todo'[f] = found'[f]
        BY <1>0, <2>3 DEF PlanInv
      <3>5. forced' => \A f \in Present(found') : found'[f] \in {todo'[f], manifest'[f]}
        BY <1>0, <2>3, <3>3 DEF PlanInv, Present
      <3>6. /\ pc' \in {"upload", "record"} => Present(todo') # {}
            /\ pc' \in {"forget", "commit"} => Present(todo') = {}
        BY <2>3, <3>2
      <3>7. snap' \in Snapshots /\ moments'[snap'] = during' /\ phase'[snap'] # "none"
        BY <2>3, <3>1
      <3> QED BY <3>4, <3>5, <3>6, <3>7 DEF PlanInv, Present
    <2> QED BY <2>1, <2>2, <2>3, <1>r DEF Answer
  <1>8. ASSUME NEW m \in wire, ServeUpload(m) PROVE PlanInv'
    <2>1. CASE Refused(m)
      BY <2>1, <1>s
    <2>2. CASE /\ Server!Accept(m.snapshot, m.file, m.body)
               /\ Answer(m, pc' = "record" /\ UNCHANGED <<forced, left, todo, gone, manifest, snap, tries, found, during>>)
               /\ UNCHANGED moments
      <3>1. UNCHANGED <<phase, moments>>
        BY <2>2 DEF Server!Accept
      <3>2. CASE /\ m.live /\ pc' = "record"
                 /\ UNCHANGED <<forced, left, todo, gone, manifest, snap, tries, found, during>>
        <4>1. pc = "upload"
          BY <1>0, <1>8, <3>2 DEF WireInv, ServeUpload
        <4> QED BY <1>0, <3>1, <3>2, <4>1 DEF PlanInv, Present
      <3> QED BY <2>2, <3>1, <3>2, <1>g, <1>r DEF Answer
    <2> QED BY <1>8, <2>1, <2>2 DEF ServeUpload
  <1>9. ASSUME NEW m \in wire, ServeCommit(m) PROVE PlanInv'
    <2>1. CASE Refused(m)
      BY <2>1, <1>s
    <2>2. CASE Server!Advance(m.snapshot, "open", "committed") /\ Answer(m, Over) /\ UNCHANGED moments
      <3>1. Grows
        BY <1>0, <2>2 DEF Grows, Server!Advance, ServerType
      <3> QED BY <2>2, <3>1, <1>r DEF Answer
    <2> QED BY <1>9, <2>1, <2>2 DEF ServeCommit
  <1>10. ASSUME NEW m \in wire, Lose(m) PROVE PlanInv'
    BY <1>10, <1>r, <1>g DEF Lose, server
  <1>11. ASSUME NEW m \in wire, GiveUp(m) PROVE PlanInv'
    BY <1>11, <1>r, <1>g DEF GiveUp, server
  <1>12. ASSUME Restart PROVE PlanInv'
    BY <1>12, <1>o DEF Restart
  <1>13. ASSUME AskForSync \/ FlagExpires \/ Heartbeat PROVE PlanInv'
    BY <1>13, <1>e DEF AskForSync, FlagExpires, Heartbeat, server
  <1>14. ASSUME SyncOnDemand PROVE PlanInv'
    BY <1>14, <1>d, <1>e DEF SyncOnDemand, server
  <1>15. ASSUME UNCHANGED vars PROVE PlanInv'
    BY <1>15, <1>e DEF vars, sync, server
  <1> QED BY <1>1, <1>2, <1>3, <1>4, <1>5, <1>6, <1>7, <1>8, <1>9, <1>10, <1>11, <1>12, <1>13, <1>14, <1>15, <1>16, <1>17 DEF Next, Local, Serve

LEMMA CutNext == IInv /\ [Next]_vars => CutInv'
  <1> SUFFICES ASSUME IInv, [Next]_vars PROVE CutInv'
    OBVIOUS
  <1>0. /\ SyncType /\ ServerType /\ WireType /\ RestType
        /\ HashInv /\ PlanInv /\ WireInv /\ CutInv /\ SentInv /\ None \notin Snapshots
    BY SplitType, ListingFacts DEF IInv, Parts
  <1>k. ASSUME UNCHANGED <<phase, content, moments>> PROVE CutInv'
    BY <1>0, <1>k DEF CutInv, Seen
  <1>1. ASSUME NEW f \in Files, NEW d \in Digests \cup {None}, Save(f, d) PROVE CutInv'
    BY <1>1, <1>k DEF Save, server
  <1>2. ASSUME Rescan PROVE CutInv'
    BY <1>2, <1>k DEF Rescan, server
  <1>16. ASSUME Hash PROVE CutInv'
    BY <1>16, <1>k DEF Hash, server
  <1>17. ASSUME Compare PROVE CutInv'
    BY <1>17, <1>k DEF Compare, server
  <1>3. ASSUME Record PROVE CutInv'
    BY <1>3, <1>k DEF Record, server
  <1>4. ASSUME Forget PROVE CutInv'
    BY <1>4, <1>k DEF Forget, server
  <1>5. ASSUME FileGone PROVE CutInv'
    BY <1>5, <1>k DEF FileGone, server
  <1>6. ASSUME Send PROVE CutInv'
    BY <1>6, <1>k DEF Send, server
  <1>7. ASSUME NEW m \in wire, ServeStart(m) PROVE CutInv'
    <2>1. PICK s \in Snapshots :
            /\ Server!Advance(s, "none", "open")
            /\ moments' = IF m.live THEN [moments EXCEPT ![s] = during] ELSE moments
      BY <1>7 DEF ServeStart
    <2>2. content[s] = Nothing
      BY <1>0, <2>1 DEF CutInv, Server!Advance
    <2>3. \A x \in Snapshots : x # s => moments'[x] = moments[x] /\ phase'[x] = phase[x]
      BY <1>0, <2>1 DEF ServerType, Server!Advance
    <2>4. phase'[s] = "open" /\ content' = content
      BY <1>0, <2>1 DEF ServerType, Server!Advance
    <2> QED BY <1>0, <2>2, <2>3, <2>4 DEF CutInv, Seen, Nothing
  <1>8. ASSUME NEW m \in wire, ServeUpload(m) PROVE CutInv'
    <2>1. CASE Refused(m)
      BY <2>1, <1>k DEF Refused, server
    <2>2. CASE /\ Acceptable(m) /\ Server!Accept(m.snapshot, m.file, m.body) /\ UNCHANGED moments
      <3>0. m \in Request /\ m.op = "upload"
        BY <1>0, <1>8 DEF WireType, ServeUpload
      <3>1. m.snapshot \in Snapshots /\ m.file \in Files
        BY <3>0, RequestFacts
      <3>2. Seen(m.snapshot, m.file, m.body) /\ phase[m.snapshot] # "none"
        BY <1>0, <2>2, <3>0 DEF WireInv, Acceptable
      <3>3. content[m.snapshot] \in Listing
        BY <1>0, <3>1 DEF ServerType
      <3>4. \A s \in Snapshots, f \in Files :
              content'[s][f] = IF s = m.snapshot /\ f = m.file THEN m.body ELSE content[s][f]
        BY <1>0, <2>2, <3>1, <3>3 DEF Server!Accept, ServerType, Listing
      <3>5. \A s \in Snapshots : s # m.snapshot => content'[s] = content[s]
        BY <1>0, <2>2, <3>1 DEF Server!Accept, ServerType
      <3>6. phase' = phase /\ moments' = moments
        BY <2>2 DEF Server!Accept
      <3>7. \A s \in Snapshots : phase'[s] = "none" => content'[s] = Nothing
        BY <1>0, <3>2, <3>5, <3>6 DEF CutInv
      <3>8. \A s \in Snapshots, f \in Files : content'[s][f] # None => Seen(s, f, content'[s][f])
        BY <1>0, <3>2, <3>4 DEF CutInv
      <3>9. \A s \in Snapshots, f \in Files : content'[s][f] # None => Seen(s, f, content[s][f])'
        BY <3>6, <3>8 DEF Seen
      <3>a. \A s \in Snapshots : phase'[s] = "committed" => moments'[s] # {}
        BY <1>0, <3>6 DEF CutInv
      <3> QED BY <3>7, <3>9, <3>a DEF CutInv, Nothing
    <2> QED BY <1>8, <2>1, <2>2 DEF ServeUpload
  <1>9. ASSUME NEW m \in wire, ServeCommit(m) PROVE CutInv'
    <2>1. CASE Refused(m)
      BY <2>1, <1>k DEF Refused, server
    <2>2. CASE Server!Advance(m.snapshot, "open", "committed") /\ UNCHANGED moments
      <3>1. moments[m.snapshot] # {} /\ phase[m.snapshot] = "open"
        BY <1>0, <1>9, <2>2 DEF WireInv, ServeCommit, Server!Advance
      <3>2. content' = content /\ \A x \in Snapshots : x # m.snapshot => phase'[x] = phase[x]
        BY <1>0, <2>2 DEF Server!Advance, ServerType
      <3>3. \A x \in Snapshots : phase'[x] = "none" => phase[x] = "none"
        BY <1>0, <2>2 DEF Server!Advance, ServerType
      <3>4. \A x \in Snapshots : phase'[x] = "committed" => moments[x] # {}
        BY <1>0, <3>1, <3>2 DEF CutInv
      <3> QED BY <1>0, <2>2, <3>2, <3>3, <3>4 DEF CutInv, Seen
    <2> QED BY <1>9, <2>1, <2>2 DEF ServeCommit
  <1>10. ASSUME NEW m \in wire, Lose(m) PROVE CutInv'
    BY <1>10, <1>k DEF Lose, server
  <1>11. ASSUME NEW m \in wire, GiveUp(m) PROVE CutInv'
    BY <1>11, <1>k DEF GiveUp, server
  <1>12. ASSUME Restart PROVE CutInv'
    BY <1>12, <1>k DEF Restart, server
  <1>13. ASSUME AskForSync \/ FlagExpires \/ Heartbeat PROVE CutInv'
    BY <1>13, <1>k DEF AskForSync, FlagExpires, Heartbeat, server
  <1>14. ASSUME SyncOnDemand PROVE CutInv'
    BY <1>14, <1>k DEF SyncOnDemand, server
  <1>15. ASSUME UNCHANGED vars PROVE CutInv'
    BY <1>15, <1>k DEF vars, sync, server
  <1> QED BY <1>1, <1>2, <1>3, <1>4, <1>5, <1>6, <1>7, <1>8, <1>9, <1>10, <1>11, <1>12, <1>13, <1>14, <1>15, <1>16, <1>17 DEF Next, Local, Serve

LEMMA SentNext == IInv /\ [Next]_vars => SentInv'
  <1> SUFFICES ASSUME IInv, [Next]_vars PROVE SentInv'
    OBVIOUS
  <1>0. /\ SyncType /\ ServerType /\ WireType /\ RestType
        /\ HashInv /\ PlanInv /\ WireInv /\ CutInv /\ SentInv /\ None \notin Snapshots
    BY SplitType, ListingFacts DEF IInv, Parts
  <1>k. ASSUME UNCHANGED <<store, sent>>, pc' = "record" => pc = "record" /\ todo' = todo PROVE SentInv'
    BY <1>0, <1>k, CurrentStays DEF SentInv, RecordedWasAccepted, Present
  <1>r. ASSUME UNCHANGED <<store, sent>>, Retry \/ Over \/ UNCHANGED sync PROVE SentInv'
    BY <1>r, <1>k DEF Retry, Over, sync, plan
  <1>s. ASSUME NEW m \in wire, Refused(m) PROVE SentInv'
    BY <1>s, <1>r DEF Refused, Answer, server
  <1>1. ASSUME NEW f \in Files, NEW d \in Digests \cup {None}, Save(f, d) PROVE SentInv'
    BY <1>1, <1>k DEF Save, plan, server
  <1>2. ASSUME Rescan PROVE SentInv'
    BY <1>2, <1>k DEF Rescan, Begin, server
  <1>16. ASSUME Hash PROVE SentInv'
    BY <1>16, <1>k DEF Hash, server
  <1>17. ASSUME Compare PROVE SentInv'
    BY <1>17, <1>k DEF Compare, Over, server
  <1>3. ASSUME Record PROVE SentInv'
    <2>1. /\ store' = [store EXCEPT ![Current] = todo[Current]]
          /\ sent' = sent /\ pc = "record" /\ pc' # "record"
      BY <1>3 DEF Record, Sha, Proceed, server
    <2>2. <<Current, todo[Current]>> \in sent /\ \A f \in Present(store) : <<f, store[f]>> \in sent
      BY <1>0, <2>1 DEF SentInv, RecordedWasAccepted
    <2>3. \A f \in Files : store'[f] = IF f = Current THEN todo[Current] ELSE store[f]
      BY <1>0, <2>1 DEF RestType, Listing
    <2> HIDE DEF Current
    <2>4. RecordedWasAccepted'
      BY <2>1, <2>2, <2>3 DEF RecordedWasAccepted, Present
    <2> QED BY <2>1, <2>4 DEF SentInv
  <1>4. ASSUME Forget PROVE SentInv'
    <2>1. PICK f \in gone : store' = [store EXCEPT ![f] = None]
      BY <1>4 DEF Forget
    <2>2. sent' = sent /\ pc' # "record"
      BY <1>4 DEF Forget, Proceed, server
    <2>3. \A g \in Files : store'[g] = IF g = f THEN None ELSE store[g]
      BY <1>0, <2>1 DEF RestType, Listing
    <2> QED BY <1>0, <2>2, <2>3 DEF SentInv, RecordedWasAccepted, Present
  <1>5. ASSUME FileGone PROVE SentInv'
    BY <1>5, <1>r DEF FileGone, server
  <1>6. ASSUME Send PROVE SentInv'
    BY <1>6, <1>r DEF Send, server
  <1>7. ASSUME NEW m \in wire, ServeStart(m) PROVE SentInv'
    <2>1. UNCHANGED <<store, sent>> /\ (pc' # "record" \/ Retry \/ UNCHANGED sync)
      BY <1>7 DEF ServeStart, Answer, Proceed
    <2> QED BY <2>1, <1>k, <1>r
  <1>8. ASSUME NEW m \in wire, ServeUpload(m) PROVE SentInv'
    <2>1. CASE Refused(m)
      BY <2>1, <1>s
    <2>2. CASE /\ Acceptable(m)
               /\ sent' = sent \cup {<<m.file, m.body>>}
               /\ Answer(m, pc' = "record" /\ UNCHANGED <<forced, left, todo, gone, manifest, snap, tries, found, during>>)
               /\ UNCHANGED store
      <3>1. RecordedWasAccepted'
        BY <1>0, <2>2 DEF SentInv, RecordedWasAccepted, Present
      <3>2. pc' = "record" => <<Current', todo'[Current']>> \in sent'
        <4>1. CASE pc' = "record" /\ m.live /\ todo' = todo /\ m.op = pc
          <5>1. m.file = Current /\ m.body = todo[Current]
            BY <1>0, <1>8, <2>2, <4>1 DEF WireInv, ServeUpload, Acceptable
          <5>2. Current' = Current
            BY <4>1, CurrentStays
          <5> QED BY <2>2, <4>1, <5>1, <5>2
        <4>2. CASE Retry \/ Over \/ UNCHANGED sync
          <5>1. pc' = "record" => pc = "record" /\ todo' = todo
            BY <4>2 DEF Retry, Over, sync, plan
          <5> QED BY <1>0, <2>2, <5>1, CurrentStays DEF SentInv
        <4> QED BY <1>0, <2>2, <4>1, <4>2 DEF Answer, WireInv
      <3> QED BY <3>1, <3>2 DEF SentInv
    <2> QED BY <1>8, <2>1, <2>2 DEF ServeUpload
  <1>9. ASSUME NEW m \in wire, ServeCommit(m) PROVE SentInv'
    <2>1. CASE Refused(m)
      BY <2>1, <1>s
    <2>2. CASE Answer(m, Over) /\ UNCHANGED <<store, sent>>
      BY <2>2, <1>r DEF Answer
    <2> QED BY <1>9, <2>1, <2>2 DEF ServeCommit
  <1>10. ASSUME NEW m \in wire, Lose(m) PROVE SentInv'
    BY <1>10, <1>r DEF Lose, server
  <1>11. ASSUME NEW m \in wire, GiveUp(m) PROVE SentInv'
    BY <1>11, <1>r DEF GiveUp, server
  <1>12. ASSUME Restart PROVE SentInv'
    BY <1>12, <1>r DEF Restart, server
  <1>13. ASSUME AskForSync \/ FlagExpires \/ Heartbeat PROVE SentInv'
    BY <1>13, <1>r DEF AskForSync, FlagExpires, Heartbeat, server
  <1>14. ASSUME SyncOnDemand PROVE SentInv'
    BY <1>14, <1>r, <1>k DEF SyncOnDemand, Begin, server
  <1>15. ASSUME UNCHANGED vars PROVE SentInv'
    BY <1>15, <1>r DEF vars, sync, server
  <1> QED BY <1>1, <1>2, <1>3, <1>4, <1>5, <1>6, <1>7, <1>8, <1>9, <1>10, <1>11, <1>12, <1>13, <1>14, <1>15, <1>16, <1>17 DEF Next, Local, Serve

LEMMA Inductive == IInv /\ [Next]_vars => IInv'
  BY TypeNext, HashNext, PlanNext, WireNext, CutNext, SentNext DEF IInv

\* Every variable keeps its type.
THEOREM TypeCorrect == Spec => []TypeOK
  <1>1. IInv => TypeOK
    BY DEF IInv
  <1> QED BY InitInv, Inductive, <1>1, PTL DEF Spec

\* What state.db records for a file is a version the server has accepted.
THEOREM Recorded == Spec => []RecordedWasAccepted
  <1>1. IInv => RecordedWasAccepted
    BY DEF IInv, SentInv
  <1> QED BY InitInv, Inductive, <1>1, PTL DEF Spec

\* A committed snapshot holds versions that were in the folder together while
\* its sync hashed it, unless two of the files were saved meanwhile.
THEOREM Cut == Spec => []CommittedIsACut
  <1>1. ASSUME IInv, NEW s \in Snapshots, phase[s] = "committed",
               \A f, g \in Saved(moments[s]) : f = g
        PROVE  \E l \in moments[s] : \A f \in Present(content[s]) : content[s][f] = l[f]
    <2>1. /\ moments[s] # {}
          /\ \A f \in Present(content[s]) : \E l \in moments[s] : content[s][f] = l[f]
      BY <1>1 DEF IInv, CutInv, Seen, Present
    <2>2. PICK l \in moments[s] :
            \A g \in Saved(moments[s]) : g \in Present(content[s]) => content[s][g] = l[g]
      <3>1. CASE \E g \in Saved(moments[s]) : g \in Present(content[s])
        <4>1. PICK g \in Saved(moments[s]) : g \in Present(content[s])
          BY <3>1
        <4>2. PICK l \in moments[s] : content[s][g] = l[g]
          BY <2>1, <4>1
        <4> QED BY <1>1, <4>1, <4>2
      <3>2. CASE ~\E g \in Saved(moments[s]) : g \in Present(content[s])
        BY <2>1, <3>2
      <3> QED BY <3>1, <3>2
    <2>3. \A f \in Files \ Saved(moments[s]) : \A k \in moments[s] : k[f] = l[f]
      BY DEF Saved
    <2>4. Present(content[s]) \subseteq Files
      BY DEF Present
    <2> QED BY <2>1, <2>2, <2>3, <2>4
  <1>2. IInv => CommittedIsACut
    BY <1>1 DEF CommittedIsACut
  <1> QED BY InitInv, Inductive, <1>2, PTL DEF Spec

\* A forced sync that commits leaves every file it found on the server.
THEOREM Forced == Spec => ForcedSyncIsComplete
  <1>1. ASSUME IInv, [Next]_vars, forced, pc = "commit", phase[snap] = "open",
               phase'[snap] = "committed", NEW f \in Present(found)
        PROVE  held'[f] = found[f]
    <2>0. PlanInv /\ WireInv /\ SyncType /\ ServerType /\ WireType
      BY <1>1, SplitType DEF IInv, Parts
    <2>1. /\ snap \in Snapshots /\ Present(todo) = {}
          /\ found[f] \in {todo[f], manifest[f]} /\ f \in Files /\ found[f] # None
      BY <1>1, <2>0 DEF PlanInv, Present
    <2>2. found[f] = manifest[f]
      BY <2>1 DEF Present
    <2>3. PICK m \in wire : ServeCommit(m) /\ m.snapshot = snap /\ ~Refused(m)
      <3>1. ~UNCHANGED phase
        BY <1>1
      <3>2. PICK m \in wire : Serve(m) /\ ~Refused(m)
        BY <1>1, <3>1 DEF Next, vars, server, Save, Rescan, Local, Hash, Compare, Record, Forget, FileGone, Send, Lose,
           GiveUp, Restart, AskForSync, FlagExpires, Heartbeat,
           SyncOnDemand, Serve, ServeStart, ServeUpload, ServeCommit, Refused, Server!Advance
      <3>3. ~ServeUpload(m)
        BY <3>1, <3>2 DEF ServeUpload, Server!Accept
      <3>4. ~ServeStart(m)
        <4> SUFFICES ASSUME ServeStart(m) PROVE FALSE
          OBVIOUS
        <4>1. PICK s \in Snapshots : Server!Advance(s, "none", "open")
          BY DEF ServeStart
        <4> QED BY <1>1, <2>0, <2>1, <4>1 DEF Server!Advance, ServerType
      <3>5. ServeCommit(m)
        BY <3>2, <3>3, <3>4 DEF Serve
      <3>6. m.snapshot = snap
        <4>1. Server!Advance(m.snapshot, "open", "committed")
          BY <3>2, <3>5 DEF ServeCommit
        <4> QED BY <1>1, <2>0, <2>1, <4>1 DEF Server!Advance, ServerType
      <3> QED BY <3>2, <3>5, <3>6
    <2>4. content[snap] = m.manifest /\ held' = Published(content[snap]) /\ m.op = "commit"
      BY <2>3 DEF ServeCommit
    <2>5. m.manifest = manifest
      BY <2>0, <2>3, <2>4 DEF WireInv
    <2>6. f \in Present(content[snap])
      BY <2>1, <2>2, <2>4, <2>5 DEF Present
    <2> QED BY <2>1, <2>2, <2>4, <2>5, <2>6 DEF Published
  <1>2. IInv /\ [Next]_vars =>
          [forced /\ pc = "commit" /\ phase[snap] = "open" /\ phase'[snap] = "committed" =>
             \A f \in Present(found) : held'[f] = found[f]]_vars
    BY <1>1
  <1> QED BY InitInv, Inductive, <1>2, PTL DEF Spec, ForcedSyncIsComplete
=============================================================================
