------------------------------ MODULE AgentSync ------------------------------
(***************************************************************************)
(* The customer's agent (go_agent/internal/sync, uploader, state, app; the *)
(* Python agent has the same steps): it compares the watched folder with   *)
(* state.db, sends what differs as a snapshot and records it, while the    *)
(* folder is edited, requests and answers are lost or late, and the        *)
(* service is restarted.                                                   *)
(*                                                                         *)
(* The server keeps SnapshotContract, which SnapshotIngest implements; a   *)
(* commit is followed by its parse job at once (ParseWorker has the rest). *)
(***************************************************************************)
EXTENDS Naturals, FiniteSets

CONSTANTS
  Files,      \* names of workbooks the agent ships, in the order of the names
  Digests,    \* sha256 values; a digest also stands for the bytes
  Snapshots,  \* bound: how many snapshots the server starts
  None,
  YearOf,     \* the fiscal year in a file's name
  Tries,      \* WithRetry: attempts for each call (6, 3 and 6 in the code)
  Saves,      \* bound: saves and deletions in the folder
  Asks,       \* bound: "Request sync now" clicks
  Late        \* bound: requests the agent gave up on and the network kept

ASSUME Shape ==
  /\ Files \subseteq Nat
  /\ None \notin Digests \cup Snapshots
  /\ Tries \in [{"start", "upload", "commit"} -> Nat \ {0}]
  /\ Saves \in Nat /\ Asks \in Nat /\ Late \in Nat

VARIABLES
  folder,    \* the files on disk
  saves,     \* how often it has been changed
  store,     \* state.db: the sha256 recorded for a file
  pc,        \* how far SyncOnce is; "idle" when the mutex is free
  forced,    \* its argument
  left,      \* files listed and not yet hashed
  todo,      \* changed files not yet sent, with the hash taken before
  gone,      \* recorded files that are no longer there, to be forgotten
  manifest,  \* what was sent
  snap,      \* the snapshot it is sent to
  tries,     \* attempts left for the current call
  found,     \* the hashes taken
  during,    \* history: what the folder was while they were taken
  wire,      \* requests under way; the agent waits for the `live' one
  phase,     \* server: snapshots.status
  content,   \* server: the files of a snapshot
  moments,   \* history: `during' of the sync a snapshot belongs to
  sent,      \* history: every file and digest the server has accepted
  held,      \* server: the file versions the dashboard is made of
  published, \* history: every file version it has been made of
  flag,      \* server: agent:sync_req:<key> is set
  asks,      \* how often it was set
  beat       \* the heartbeat loop

disk   == <<folder, saves>>
plan   == <<pc, forced, left, todo, gone, manifest, snap, tries, found>>
sync   == <<plan, during>>
server == <<phase, content, moments, sent, held, published>>
ask    == <<flag, asks, beat>>
vars   == <<disk, store, sync, wire, server, ask>>

Server == INSTANCE SnapshotContract

-----------------------------------------------------------------------------
Listing == [Files -> Digests \cup {None}]
Nothing == [f \in Files |-> None]
Present(l) == {f \in Files : l[f] # None}

Request ==
  [op: {"start"}, try: Nat, live: BOOLEAN] \cup
  [op: {"upload"}, snapshot: Snapshots, file: Files, sha256: Digests,
   body: Digests, try: Nat, live: BOOLEAN] \cup
  [op: {"commit"}, snapshot: Snapshots, manifest: Listing, try: Nat, live: BOOLEAN]

TypeOK ==
  /\ folder \in Listing /\ store \in Listing /\ held \in Listing
  /\ todo \in Listing /\ manifest \in Listing /\ found \in Listing
  /\ saves \in 0..Saves /\ asks \in 0..Asks
  /\ pc \in {"idle", "hash", "start", "upload", "record", "forget", "commit"}
  /\ forced \in BOOLEAN /\ flag \in BOOLEAN
  /\ left \subseteq Files /\ gone \subseteq Files
  /\ during \subseteq Listing /\ moments \in [Snapshots -> SUBSET Listing]
  /\ snap \in Snapshots \cup {None}
  /\ tries \in Nat
  /\ wire \subseteq Request
  /\ phase \in [Snapshots -> {"none", "open", "committed"}]
  /\ content \in [Snapshots -> Listing]
  /\ sent \cup published \subseteq Files \X Digests
  /\ beat \in {"idle", "told"}

Init ==
  /\ folder \in Listing /\ saves = 0
  /\ store = Nothing
  /\ pc = "idle" /\ forced = FALSE
  /\ left = {} /\ todo = Nothing /\ gone = {} /\ manifest = Nothing
  /\ snap = None /\ tries = 0 /\ found = Nothing /\ during = {}
  /\ wire = {}
  /\ Server!Init
  /\ moments = [s \in Snapshots |-> {}]
  /\ sent = {} /\ held = Nothing /\ published = {}
  /\ flag = FALSE /\ asks = 0 /\ beat = "idle"

-----------------------------------------------------------------------------
\* A workbook is saved, or removed.
Save(f, d) ==
  /\ saves < Saves
  /\ d # folder[f]
  /\ folder' = [folder EXCEPT ![f] = d]
  /\ saves' = saves + 1
  /\ during' = IF pc = "hash" THEN during \cup {folder'} ELSE during
  /\ UNCHANGED <<store, plan, wire, server, ask>>

(* SyncOnce, up to its first request: the files are listed, then hashed one *)
(* after the other in the order of their names.                             *)

\* The mutex is taken and the folder listed.
Begin(force) ==
  /\ pc = "idle"
  /\ pc' = "hash" /\ forced' = force
  /\ left' = Present(folder)
  /\ during' = {folder}
  /\ UNCHANGED <<todo, gone, manifest, snap, tries, found>>

\* The debounce timer, the poll ticker, and the start of the service.  When the
\* mutex is taken the call does nothing.
Rescan == Begin(FALSE) /\ UNCHANGED <<disk, store, wire, server, ask>>

Over ==
  /\ pc' = "idle" /\ forced' = FALSE
  /\ left' = {} /\ todo' = Nothing /\ gone' = {} /\ manifest' = Nothing
  /\ snap' = None /\ tries' = 0 /\ found' = Nothing /\ during' = {}

\* The first name of a set of files.
FirstOf(fs) == CHOOSE f \in fs : \A g \in fs : f <= g
Hashing == FirstOf(left)

DiffersOnly(f) == folder[f] # store[f] \* fault: `force' is ignored
Differs(f) == forced \/ folder[f] # store[f]

Hash ==
  LET f == Hashing
  IN  /\ pc = "hash" /\ left # {}
      /\ folder[f] # None
      /\ left' = left \ {f}
      /\ found' = [found EXCEPT ![f] = folder[f]]
      /\ todo' = IF Differs(f) THEN [todo EXCEPT ![f] = folder[f]] ELSE todo
      /\ UNCHANGED <<pc, forced, gone, manifest, snap, tries, during>>
      /\ UNCHANGED <<disk, store, wire, server, ask>>

\* What is recorded and was not listed is deleted.  Nothing changed and nothing
\* deleted: nothing to do.
Compare ==
  LET deleted == Present(store) \ Present(found)
  IN  /\ pc = "hash" /\ left = {}
      /\ \/ /\ Present(todo) # {} \/ deleted # {}
            /\ pc' = "start" /\ tries' = Tries["start"]
            /\ gone' = deleted
            /\ UNCHANGED <<forced, left, todo, manifest, snap, found, during>>
         \/ Present(todo) = {} /\ deleted = {} /\ Over
      /\ UNCHANGED <<disk, store, wire, server, ask>>

\* An attempt failed: the next one, or the call and with it the sync ends.
RetryForever == UNCHANGED sync \* fault: attempts are not counted
Retry ==
  \/ tries > 1 /\ tries' = tries - 1
     /\ UNCHANGED <<pc, forced, left, todo, gone, manifest, snap, found, during>>
  \/ tries = 1 /\ Over

\* The file SyncOnce is at: names are sorted.
Current == FirstOf(Present(todo))

HashNow(f) == folder[f] \* fault: the file is hashed when it is sent and recorded
\* The hash it goes by is the one taken first, from the upload to the manifest.
Sha(f) == todo[f]

\* Where it goes when l is left to send and g to forget.
Proceed(l, g) ==
  /\ pc' = IF Present(l) # {} THEN "upload" ELSE IF g # {} THEN "forget" ELSE "commit"
  /\ tries' = IF Present(l) # {} THEN Tries["upload"] ELSE Tries["commit"]

-----------------------------------------------------------------------------
(* One attempt: the request is sent, then it is answered, or lost, or given *)
(* up after 60 s with the server still at it.                               *)

Waiting == \E m \in wire : m.live

Payload ==
  CASE pc = "start" -> [op |-> "start", try |-> tries, live |-> TRUE]
    [] pc = "upload" ->
         [op |-> "upload", snapshot |-> snap, file |-> Current, sha256 |-> Sha(Current),
          body |-> folder[Current], try |-> tries, live |-> TRUE]
    [] pc = "commit" ->
         [op |-> "commit", snapshot |-> snap, manifest |-> manifest, try |-> tries, live |-> TRUE]

\* UploadFile reads the file again, for every attempt.
Send ==
  /\ pc \in {"start", "upload", "commit"} /\ ~Waiting
  /\ pc = "upload" => folder[Current] # None
  /\ wire' = wire \cup {Payload}
  /\ UNCHANGED <<disk, store, sync, server, ask>>

\* The file is no longer there when it is to be hashed, read, or recorded.
FileGone ==
  /\ \/ pc = "hash" /\ left # {} /\ folder[Hashing] = None
     \/ pc \in {"upload", "record"} /\ ~Waiting /\ folder[Current] = None
  /\ Over
  /\ UNCHANGED <<disk, store, wire, server, ask>>

\* No connection, a 5xx, or 429.
Lose(m) ==
  /\ wire' = wire \ {m}
  /\ IF m.live THEN Retry ELSE UNCHANGED sync
  /\ UNCHANGED <<disk, store, server, ask>>

\* The client's timeout; the request lives on.
GiveUp(m) ==
  /\ m.live
  /\ Cardinality(wire) <= Late
  /\ wire' = (wire \ {m}) \cup {[m EXCEPT !.live = FALSE]}
  /\ Retry
  /\ UNCHANGED <<disk, store, server, ask>>

-----------------------------------------------------------------------------
(* The server takes a request; its answer reaches the agent or is lost.     *)

Answer(m, step) ==
  /\ wire' = wire \ {m}
  /\ \/ m.live /\ step
     \/ m.live /\ Retry
     \/ ~m.live /\ UNCHANGED sync
  /\ UNCHANGED <<disk, ask>>

\* A 4xx: "permanent error".
Refused(m) == Answer(m, Over) /\ UNCHANGED <<store, server>>

ServeStart(m) ==
  /\ m.op = "start"
  /\ \E s \in Snapshots :
       /\ Server!Advance(s, "none", "open")
       /\ moments' = IF m.live THEN [moments EXCEPT ![s] = during] ELSE moments
       /\ Answer(m, /\ snap' = s
                    /\ Proceed(todo, gone)
                    /\ UNCHANGED <<forced, left, todo, gone, manifest, found, during>>)
  /\ UNCHANGED <<store, sent, held, published>>

Acceptable(m) == phase[m.snapshot] = "open" /\ m.body = m.sha256

ServeUpload(m) ==
  /\ m.op = "upload"
  /\ \/ /\ Acceptable(m)
        /\ Server!Accept(m.snapshot, m.file, m.body)
        /\ sent' = sent \cup {<<m.file, m.body>>}
        /\ Answer(m, /\ pc' = "record"
                     /\ UNCHANGED <<forced, left, todo, gone, manifest, snap, tries, found, during>>)
        /\ UNCHANGED <<store, moments, held, published>>
     \/ ~Acceptable(m) /\ Refused(m)

\* The parse job replaces the years the snapshot has files for.
Published(l) ==
  [f \in Files |-> IF \E g \in Present(l) : YearOf[g] = YearOf[f] THEN l[f] ELSE held[f]]

ServeCommit(m) ==
  LET s == m.snapshot
  IN  /\ m.op = "commit"
      /\ \/ /\ content[s] = m.manifest
            /\ Server!Advance(s, "open", "committed")
            /\ held' = Published(content[s])
            /\ published' = published \cup {<<f, content[s][f]>> : f \in Present(content[s])}
            /\ Answer(m, Over)
            /\ UNCHANGED <<store, moments, sent>>
         \/ ~(phase[s] = "open" /\ content[s] = m.manifest) /\ Refused(m)

Serve(m) == ServeStart(m) \/ ServeUpload(m) \/ ServeCommit(m)

-----------------------------------------------------------------------------
\* The upload was accepted: state.db is updated before the snapshot is
\* committed.
Record ==
  LET f == Current
      rest == [todo EXCEPT ![f] = None]
  IN  /\ pc = "record" /\ folder[f] # None
      /\ store' = [store EXCEPT ![f] = Sha(f)]
      /\ manifest' = [manifest EXCEPT ![f] = Sha(f)]
      /\ todo' = rest
      /\ Proceed(rest, gone)
      /\ UNCHANGED <<forced, left, gone, snap, found, during, disk, wire, server, ask>>

\* The server ignores the entries of the manifest marked deleted.
Forget ==
  \E f \in gone :
    /\ pc = "forget"
    /\ store' = [store EXCEPT ![f] = None]
    /\ gone' = gone \ {f}
    /\ Proceed(todo, gone \ {f})
    /\ UNCHANGED <<forced, left, todo, manifest, snap, found, during, disk, wire, server, ask>>

\* The service stops and is started again; a request under way is not recalled.
Restart ==
  /\ pc # "idle" \/ beat # "idle"
  /\ Over
  /\ beat' = "idle"
  /\ wire' = {[m EXCEPT !.live = FALSE] : m \in wire}
  /\ Cardinality(wire) <= Late
  /\ UNCHANGED <<disk, store, server, flag, asks>>

-----------------------------------------------------------------------------
(* Sync on demand.  The heartbeat loop runs the sync itself.               *)

AskForSync ==
  /\ asks < Asks
  /\ asks' = asks + 1 /\ flag' = TRUE
  /\ UNCHANGED <<disk, store, sync, wire, server, beat>>

\* SET ... EX 600.
FlagExpires ==
  /\ flag /\ flag' = FALSE
  /\ UNCHANGED <<disk, store, sync, wire, server, asks, beat>>

\* A heartbeat: GET and DEL in one step; the answer may be lost.
Heartbeat ==
  /\ beat = "idle" /\ ~forced
  /\ flag /\ flag' = FALSE
  /\ beat' \in {"idle", "told"}
  /\ UNCHANGED <<disk, store, sync, wire, server, asks>>

\* SyncOnce(true): skipped while another sync runs.
SyncOnDemand ==
  /\ beat = "told"
  /\ beat' = "idle"
  /\ \/ Begin(TRUE)
     \/ pc # "idle" /\ UNCHANGED sync
  /\ UNCHANGED <<disk, store, wire, server, flag, asks>>

-----------------------------------------------------------------------------
Attempt == Send \/ \E m \in wire : m.live /\ (Serve(m) \/ Lose(m) \/ GiveUp(m))
Local == Hash \/ Compare \/ Record \/ Forget \/ FileGone

Next ==
  \/ \E f \in Files, d \in Digests \cup {None} : Save(f, d)
  \/ Rescan \/ Local \/ Send
  \/ \E m \in wire : Serve(m) \/ Lose(m) \/ GiveUp(m)
  \/ Restart
  \/ AskForSync \/ FlagExpires \/ Heartbeat \/ SyncOnDemand

Spec == Init /\ [][Next]_vars

(* The goroutine of a sync goes on, and no attempt outlasts its timeout.   *)
FairSpec == Spec /\ WF_vars(Attempt \/ Local)

-----------------------------------------------------------------------------
(* Properties that hold.                                                   *)

\* state.db never runs ahead of the server: what it records for a file is a
\* version the server has accepted, although the file is saved again during
\* the sync and the answer to the upload may be to an earlier attempt.
RecordedWasAccepted == \A f \in Present(store) : <<f, store[f]>> \in sent

\* The files that were saved between two states of the folder.
Saved(m) == {f \in Files : \E k, l \in m : k[f] # l[f]}

\* A snapshot that is committed holds versions that were in the folder
\* together while its sync hashed it: a save after that makes the upload fail,
\* never the snapshot a mixture of two moments.  The files are hashed one by
\* one, so this takes that no two of them were saved during the hashing.
CommittedIsACut ==
  \A s \in Snapshots :
    phase[s] = "committed" /\ (\A f, g \in Saved(moments[s]) : f = g) =>
      \E l \in moments[s] : \A f \in Present(content[s]) : content[s][f] = l[f]

\* agent/README.md: a forced sync that gets its snapshot committed leaves the
\* server with every file it found, as it hashed it, whatever was lost before.
ForcedSyncIsComplete ==
  [][forced /\ pc = "commit" /\ phase[snap] = "open" /\ phase'[snap] = "committed" =>
       \A f \in Present(found) : held'[f] = found[f]]_vars

\* Every sync ends, so the mutex is free again: a sync that hangs would have
\* every later one skipped.
EverySyncEnds == pc # "idle" ~> pc = "idle"

(* What the documentation says and the code does not do.                   *)

\* The agent has nothing to do, and nothing is under way.
Settled == pc = "idle" /\ wire = {} /\ folder = store

\* README.md: every save uploads to the backend, which parses the files.  But
\* a file is recorded before its snapshot is committed.
EverySaveArrives ==
  Settled => \A f \in Present(folder) : <<f, folder[f]>> \in published

\* docs/customer-install.md: of two files of one year the newest wins on
\* overlapping job numbers.  But a snapshot with one of them replaces the year.
YearKeepsItsFiles ==
  Settled => \A f \in Present(folder) : <<f, folder[f]>> \in published => held[f] = folder[f]
=============================================================================
