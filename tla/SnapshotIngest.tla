--------------------------- MODULE SnapshotIngest ---------------------------
(***************************************************************************)
(* The server side of a snapshot (backend/app/routers/ingest.py): start,   *)
(* file uploads, commit, and the parse job a commit starts.  Every request *)
(* is a handler of its own, cut at its awaits, and handlers interleave.    *)
(*                                                                         *)
(* What orders the handlers of one agent is a side effect.  verify_agent   *)
(* assigns api_key.last_used_at, and the session (autoflush is on) sends   *)
(* that UPDATE before the handler's first query.  The row of the API key   *)
(* is then locked until the handler commits or its session is closed, so   *)
(* the next handler of the same key reads the snapshot only after that.    *)
(* `lock' is that row lock.                                                *)
(*                                                                         *)
(* An operator may re-trigger the job of a failed snapshot, which no lock  *)
(* orders.                                                                 *)
(***************************************************************************)
EXTENDS Naturals, FiniteSets

CONSTANTS
  Keys,       \* api_keys.id: one per installed agent
  Snapshots,  \* snapshots.id
  Files,      \* names of workbooks
  Digests,    \* sha256 values; a digest also stands for the bytes it digests
  Requests,   \* HTTP requests and re-triggers; each comes once (the bound)
  None        \* no row, no object, no holder, not listed in the manifest

ASSUME FilesFinite == IsFiniteSet(Files)
ASSUME NoneIsNew == None \notin Keys \cup Digests \cup Requests

VARIABLES
  status,       \* snapshots.status, "none" before the row exists
  owner,        \* snapshots.api_key_id
  file_count,   \* snapshots.file_count
  total_bytes,  \* snapshots.total_bytes, in files: every body has size 1
  rows,         \* snapshot_files: the sha256 recorded for a filename
  blob,         \* the object store: what lies under _r2_key(snapshot, filename)
  lock,         \* the request that holds the row lock of an API key
  pc,           \* how far the handler of a request, then its parse job, is
  msg,          \* what the request asks for
  seen,         \* what the handler or job has read and will use later
  promise,      \* history: the manifest a snapshot was committed with
  unsaved       \* history: files whose object was put after their row was saved

db   == <<status, owner, file_count, total_bytes, rows>>
hist == <<promise, unsaved>>
vars == <<db, blob, lock, pc, msg, seen, hist>>

----------------------------------------------------------------------------
Listing  == [Files -> Digests \cup {None}]
\* ManifestEntry.sha256 may be left out.
Manifest == [Files -> Digests \cup {"any", None}]
Upload   == [op: {"upload"}, key: Keys, snapshot: Snapshots, filename: Files,
             sha256: Digests, valid: BOOLEAN]
Commit   == [op: {"commit"}, key: Keys, snapshot: Snapshots, manifest: Manifest]
Rerun    == [op: {"rerun"}, snapshot: Snapshots]
Seen     == [count: Nat, bytes: Nat, row: BOOLEAN,
             status: {"none", "committed", "failed"}]

\* The handler of an upload is between its status check and its commit, ...
Uploading == {"put", "find", "save"}
\* ... that of a commit likewise.
Committing == {"compare", "seal"}
Critical == Uploading \cup Committing
\* The parse job of a commit or a re-trigger: handed over, running.
Job == {"parse", "parsing"}
Unread == [count |-> 0, bytes |-> 0, row |-> FALSE, status |-> "none"]

TypeOK ==
  /\ status \in [Snapshots -> {"none", "open", "committed", "parsed", "failed"}]
  /\ owner \in [Snapshots -> Keys \cup {None}]
  /\ file_count \in [Snapshots -> Nat]
  /\ total_bytes \in [Snapshots -> Nat]
  /\ rows \in [Snapshots -> Listing]
  /\ blob \in [Snapshots -> Listing]
  /\ lock \in [Keys -> Requests \cup {None}]
  /\ pc \in [Requests -> {"unsent", "received", "done"} \cup Critical \cup Job]
  /\ msg \in [Requests -> Upload \cup Commit \cup Rerun \cup {None}]
  /\ seen \in [Requests -> Seen]
  /\ promise \in [Snapshots -> Manifest]
  /\ unsaved \in [Snapshots -> SUBSET Files]

Init ==
  /\ status = [s \in Snapshots |-> "none"]
  /\ owner = [s \in Snapshots |-> None]
  /\ file_count = [s \in Snapshots |-> 0]
  /\ total_bytes = [s \in Snapshots |-> 0]
  /\ rows = [s \in Snapshots |-> [f \in Files |-> None]]
  /\ blob = [s \in Snapshots |-> [f \in Files |-> None]]
  /\ lock = [k \in Keys |-> None]
  /\ pc = [r \in Requests |-> "unsent"]
  /\ msg = [r \in Requests |-> None]
  /\ seen = [r \in Requests |-> Unread]
  /\ promise = [s \in Snapshots |-> [f \in Files |-> None]]
  /\ unsaved = [s \in Snapshots |-> {}]

----------------------------------------------------------------------------
(* What the steps of a handler have in common.                             *)

Snap(r) == msg[r].snapshot
\* The key verify_agent found for the request.
Key(r) == msg[r].key
Present(m) == {f \in Files : m[f] # None}

Goto(r, label) == pc' = [pc EXCEPT ![r] = label]
NoAutoflush(r) == lock' = lock \* fault: the key's row is not locked
Acquire(r) == lock[Key(r)] = None /\ lock' = [lock EXCEPT ![Key(r)] = r]
KeepRow(r) == lock' = lock \* fault: the session is left open
\* The transaction ends: committed by the handler, or rolled back when
\* get_session closes the session after an HTTPException.
Release(r) == lock' = [lock EXCEPT ![Key(r)] = None]
Finish(r) ==
  /\ Goto(r, "done")
  /\ msg' = [msg EXCEPT ![r] = None]
  /\ seen' = [seen EXCEPT ![r] = Unread]

----------------------------------------------------------------------------
(* POST /start: one transaction, which also waits for the key's row.  The   *)
(* expires_at it returns is stored nowhere, and nothing expires a snapshot. *)
StartSnapshot(k, s) ==
  /\ status[s] = "none"
  /\ lock[k] = None
  /\ status' = [status EXCEPT ![s] = "open"]
  /\ owner' = [owner EXCEPT ![s] = k]
  /\ UNCHANGED <<file_count, total_bytes, rows, blob, lock, pc, msg, seen, hist>>

(* A signed request reaches the server.  Requests are delayed, repeated    *)
(* and reordered freely: an agent that gave up after 60 s has sent the     *)
(* next one while this one is still being served.                          *)

\* The handlers check only that the snapshot is one of the tenant; it is the
\* agent that sends files and commits to no other snapshot than the one its
\* own StartSnapshot has just returned.
Own(m) == status[m.snapshot] # "none" /\ m.key = owner[m.snapshot]

Receive(r, m) ==
  /\ pc[r] = "unsent"
  /\ Own(m)
  /\ msg' = [msg EXCEPT ![r] = m]
  /\ Goto(r, "received")
  /\ UNCHANGED <<db, blob, lock, seen, hist>>

(* session.get(Snapshot): the autoflush takes the key's row, then the      *)
(* snapshot is read.  409 unless it is open; an upload also answers 413,   *)
(* 415 or 400 when the body is too large, no workbook or not what its      *)
(* sha256 says.  A refused request rolls back and lets the row go.         *)
AcceptableAlways(r) == \* fault: the status is not checked
  msg[r].op = "upload" => msg[r].valid

Acceptable(r) ==
  /\ status[Snap(r)] = "open"
  /\ msg[r].op = "upload" => msg[r].valid

Admit(r) ==
  /\ pc[r] = "received"
  /\ Acquire(r)
  /\ Acceptable(r)
  /\ Goto(r, IF msg[r].op = "upload" THEN "put" ELSE "compare")
  /\ seen' = [seen EXCEPT ![r].count = file_count[Snap(r)],
                          ![r].bytes = total_bytes[Snap(r)]]
  /\ UNCHANGED <<db, blob, msg, hist>>

Refuse(r) ==
  /\ pc[r] = "received"
  /\ lock[Key(r)] = None
  /\ ~Acceptable(r)
  /\ Finish(r)
  /\ UNCHANGED <<db, blob, lock, hist>>

----------------------------------------------------------------------------
(* POST /{snapshot_id}/file, after its checks.                             *)

\* storage.put_bytes comes before the row is written, and no rollback takes
\* the object back.
Put(r) ==
  /\ blob' = [blob EXCEPT ![Snap(r)][msg[r].filename] = msg[r].sha256]
  /\ unsaved' = [unsaved EXCEPT ![Snap(r)] = @ \cup {msg[r].filename}]

PutBytes(r) ==
  /\ pc[r] = "put"
  /\ Put(r)
  /\ Goto(r, "find")
  /\ UNCHANGED <<db, lock, msg, seen, promise>>

IgnoreStorage(r) == \* fault: the handler goes on after a storage error
  /\ pc[r] = "put"
  /\ Goto(r, "find")
  /\ UNCHANGED <<db, blob, lock, msg, seen, hist>>

\* 502 storage_failed; the store may have taken the object nevertheless.
StorageFails(r) ==
  /\ pc[r] = "put"
  /\ Finish(r)
  /\ Release(r)
  /\ Put(r) \/ UNCHANGED <<blob, unsaved>>
  /\ UNCHANGED <<db, promise>>

FindRow(r) ==
  /\ pc[r] = "find"
  /\ seen' = [seen EXCEPT ![r].row = rows[Snap(r)][msg[r].filename] # None]
  /\ Goto(r, "save")
  /\ UNCHANGED <<db, blob, lock, msg, hist>>

CountUpload(r) == seen[r].count + 1 \* fault: a repeated upload is counted
\* snap.file_count += 1, for a new row only.
FileCount(r) ==
  IF seen[r].row THEN file_count[Snap(r)] ELSE seen[r].count + 1

\* The counters are written as values computed from what Admit read.  An
\* INSERT of a row that is there violates uq_snapfile (then see DbFails).
SaveRow(r) ==
  LET s == Snap(r)
      f == msg[r].filename
  IN  /\ pc[r] = "save"
      /\ ~seen[r].row => rows[s][f] = None
      /\ rows' = [rows EXCEPT ![s][f] = msg[r].sha256]
      /\ file_count' = [file_count EXCEPT ![s] = FileCount(r)]
      /\ total_bytes' = [total_bytes EXCEPT ![s] = seen[r].bytes + 1]
      /\ unsaved' = [unsaved EXCEPT ![s] = @ \ {f}]
      /\ Finish(r)
      /\ Release(r)
      /\ UNCHANGED <<status, owner, blob, promise>>

----------------------------------------------------------------------------
(* POST /{snapshot_id}/commit, after its status check.                     *)

\* Neither missing nor extra files, and the same digest for each that has one.
\* Entries marked deleted are skipped, so a manifest does not list them here.
Meets(l, m) ==
  /\ Present(l) = Present(m)
  /\ \A f \in Files : m[f] \in Digests => l[f] = m[f]

ListedMatch(r) == \* fault: extra files are not refused
  LET m == msg[r].manifest
      l == rows[Snap(r)]
  IN  Present(m) \subseteq Present(l) /\ \A f \in Files : m[f] \in Digests => l[f] = m[f]
Matches(r) == Meets(rows[Snap(r)], msg[r].manifest)

CompareManifest(r) ==
  /\ pc[r] = "compare"
  /\ Matches(r)
  /\ Goto(r, "seal")
  /\ UNCHANGED <<db, blob, lock, msg, seen, hist>>

\* 400 manifest_mismatch or sha256_mismatch_for_...
ManifestMismatch(r) ==
  /\ pc[r] = "compare"
  /\ ~Matches(r)
  /\ Finish(r)
  /\ Release(r)
  /\ UNCHANGED <<db, blob, hist>>

\* The UPDATE does not look at the status again.
SealSnapshot(r) ==
  /\ pc[r] = "seal"
  /\ status' = [status EXCEPT ![Snap(r)] = "committed"]
  /\ promise' = [promise EXCEPT ![Snap(r)] = msg[r].manifest]
  /\ Goto(r, "parse")
  /\ Release(r)
  /\ UNCHANGED <<owner, file_count, total_bytes, rows, blob, msg, seen, unsaved>>

----------------------------------------------------------------------------
(* parse_snapshot_job, in a thread of the server or in an RQ worker.       *)

\* docs/admin-runbook.md: once the parser is fixed, the operator calls the job
\* for a failed snapshot again, from a shell of his own.
Retrigger(r, s) ==
  /\ pc[r] = "unsent"
  /\ status[s] = "failed"
  /\ msg' = [msg EXCEPT ![r] = [op |-> "rerun", snapshot |-> s]]
  /\ Goto(r, "parse")
  /\ UNCHANGED <<db, blob, lock, seen, hist>>

ParseStart(r) ==
  /\ pc[r] = "parse"
  /\ status[Snap(r)] \in {"committed", "failed"}
  /\ seen' = [seen EXCEPT ![r].status = status[Snap(r)]]
  /\ Goto(r, "parsing")
  /\ UNCHANGED <<db, blob, lock, msg, hist>>

AlwaysSet(r, outcome) == \* fault: the UPDATE has every column
  status' = [status EXCEPT ![Snap(r)] = outcome]
\* The UPDATE has the columns whose value is not the one that was read: a
\* re-triggered job that fails again leaves the status alone.
SetStatus(r, outcome) ==
  status' = IF seen[r].status = outcome THEN status
            ELSE [status EXCEPT ![Snap(r)] = outcome]

ParseEnd(r, outcome) ==
  /\ pc[r] = "parsing"
  /\ SetStatus(r, outcome)
  /\ Finish(r)
  /\ UNCHANGED <<owner, file_count, total_bytes, rows, blob, lock, hist>>

ParseSucceeds(r) == ParseEnd(r, "parsed")
ParseFails(r) == ParseEnd(r, "failed")

\* The job ends and leaves the row as it is: enqueueing failed (the exception
\* is dropped), no engine could be made (it is logged), the status was not one
\* it accepts, the process died, or a statement failed: the session is then
\* inactive and the session.commit() that would record "failed" raises.
JobLost(r) ==
  /\ pc[r] \in Job
  /\ Finish(r)
  /\ UNCHANGED <<db, blob, lock, hist>>

----------------------------------------------------------------------------
\* A statement of the handler fails: 500, everything it wrote is rolled back.
DbFails(r) ==
  /\ pc[r] \in Critical
  /\ Finish(r)
  /\ Release(r)
  /\ UNCHANGED <<db, blob, hist>>

\* The server process dies: its handlers end, their transactions roll back,
\* and nothing resumes them.  The rows and the objects stay.
Crash ==
  LET dying == {r \in Requests : pc[r] \in {"received"} \cup Critical}
  IN  /\ dying # {}
      /\ pc' = [r \in Requests |-> IF r \in dying THEN "done" ELSE pc[r]]
      /\ msg' = [r \in Requests |-> IF r \in dying THEN None ELSE msg[r]]
      /\ seen' = [r \in Requests |-> IF r \in dying THEN Unread ELSE seen[r]]
      /\ lock' = [k \in Keys |-> None]
      /\ UNCHANGED <<db, blob, hist>>

Handle(r) ==
  \/ PutBytes(r) \/ StorageFails(r) \/ FindRow(r) \/ SaveRow(r)
  \/ CompareManifest(r) \/ ManifestMismatch(r) \/ SealSnapshot(r)
  \/ DbFails(r)

Parse(r) ==
  ParseStart(r) \/ ParseSucceeds(r) \/ ParseFails(r) \/ JobLost(r)

Next ==
  \/ \E s \in Snapshots, k \in Keys : StartSnapshot(k, s)
  \/ \E r \in Requests :
       \/ \E m \in Upload \cup Commit : Receive(r, m)
       \/ Admit(r) \/ Refuse(r)
       \/ Handle(r)
       \/ Parse(r)
       \/ \E s \in Snapshots : Retrigger(r, s)
  \/ Crash

Spec == Init /\ [][Next]_vars

(* A handler that can take a step takes one, a job that was handed over    *)
(* ends, and PostgreSQL queues those that wait for a row: whoever finds it *)
(* free again and again gets it.                                           *)
Fairness ==
  \A r \in Requests :
    /\ SF_vars(Admit(r) \/ Refuse(r))
    /\ WF_vars(Handle(r))
    /\ WF_vars(Parse(r))

FairSpec == Spec /\ Fairness

----------------------------------------------------------------------------
(* Properties                                                              *)

Sealed(s) == status[s] \in {"committed", "parsed", "failed"}

\* Once a snapshot is committed nothing it consists of changes any more: a
\* late upload, a repeated commit or a parse job leaves its rows, its objects
\* and its counters alone.  upload_file writes them several awaits after it
\* has read the status.
SealedIsFrozen ==
  [][\A s \in Snapshots :
       Sealed(s) => /\ rows'[s] = rows[s]
                    /\ blob'[s] = blob[s]
                    /\ file_count'[s] = file_count[s]
                    /\ total_bytes'[s] = total_bytes[s]]_vars

\* file_count is the number of snapshot_files rows, although every handler
\* writes a value computed from an earlier read and uploads are repeated.
FileCountExact ==
  \A s \in Snapshots : file_count[s] = Cardinality(Present(rows[s]))

\* Every row has its object, so _download_to finds what the row names,
\* whichever step of an upload failed.
RowsAreStored ==
  \A s \in Snapshots : Present(rows[s]) \subseteq Present(blob[s])

\* What a job parses is what the manifest of the commit promised: its rows
\* are the files of the manifest, and the bytes it fetches are those of the
\* rows, whatever was uploaded twice, failed or died.  The exception is a file
\* whose last upload ended between its put and its row: the object is then
\* newer than the row (README.md, section 8).
JobReadsManifest ==
  \A r \in Requests : pc[r] \in Job =>
    LET s == Snap(r)
    IN  /\ Meets(rows[s], promise[s])
        /\ \A f \in Files \ unsaved[s] : blob[s][f] = rows[s][f]

\* The job a commit started, not a re-trigger.
CommitJob(r) == pc[r] \in Job /\ msg[r].op = "commit"

\* A snapshot is committed once: two commits of it in flight (the agent
\* retries after a timeout) never both start a parse job.
OneJob ==
  \A q, r \in Requests :
    CommitJob(q) /\ CommitJob(r) /\ Snap(q) = Snap(r) => q = r

\* That job is the only one to touch the status of its snapshot, which is
\* still "committed" when the job ends.
JobOwnsStatus ==
  \A r \in Requests : CommitJob(r) => status[Snap(r)] = "committed"

\* Every request that reaches the server is answered, whatever fails: no
\* handler leaves the row of the key locked.
Answered ==
  \A r \in Requests :
    pc[r] = "received" ~> pc[r] \in {"parse", "done"}

\* Seen from outside, the service is SnapshotContract: files are accepted while
\* the snapshot is open and never after, the status moves one way only, and a
\* parsed snapshot stays parsed, however handlers, jobs, re-triggers of a
\* failed snapshot that overlap, failures and crashes interleave.
Contract == INSTANCE SnapshotContract WITH phase <- status, content <- rows
ImplementsContract == Contract!Spec

=============================================================================
