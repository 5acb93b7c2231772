------------------------ MODULE SnapshotIngestProofs ------------------------
(***************************************************************************)
(* Theorems about SnapshotIngest, for any numbers of keys, snapshots,      *)
(* files, digests and requests.                                            *)
(*                                                                         *)
(* None of the properties is inductive.  They rest on one argument: a      *)
(* handler past its status check holds the row of its key (LockInv), all   *)
(* requests for one snapshot share that key, so only that handler can      *)
(* write to the snapshot, so what it has read is still so (FreshInv).  A   *)
(* job or a re-trigger is on a sealed snapshot (JobInv), where no handler  *)
(* is.                                                                     *)
(***************************************************************************)
EXTENDS SnapshotIngest, FiniteSetTheorems, TLAPS

Active == {"received"} \cup Critical \cup Job

\* A request that is being served names a started snapshot and comes with the
\* key of its owner, and its step belongs to what it asks for.
MsgInv ==
  \A r \in Requests :
    /\ pc[r] \in Active => /\ msg[r] \in Upload \cup Commit \cup Rerun
                           /\ status[Snap(r)] # "none"
    /\ pc[r] \in {"received"} \cup Critical =>
         msg[r] \in Upload \cup Commit /\ msg[r].key = owner[Snap(r)]
    /\ pc[r] \in Uploading => msg[r] \in Upload
    /\ pc[r] \in Committing => msg[r] \in Commit
    /\ pc[r] \in Job => msg[r] \in Commit \cup Rerun

LockInv == \A r \in Requests : pc[r] \in Critical => lock[Key(r)] = r

\* What a handler has read is still so when it uses it.
FreshInv ==
  \A r \in Requests :
    /\ pc[r] \in Critical => /\ status[Snap(r)] = "open"
                             /\ seen[r].count = file_count[Snap(r)]
                             /\ seen[r].bytes = total_bytes[Snap(r)]
    /\ pc[r] \in {"find", "save"} => blob[Snap(r)][msg[r].filename] = msg[r].sha256
    /\ pc[r] = "save" => (seen[r].row <=> rows[Snap(r)][msg[r].filename] # None)

\* The job of a commit is alone and finds what the commit left; a re-trigger is
\* on a snapshot that has failed before.
JobFacts(q) ==
  /\ pc[q] = "seal" => Matches(q)
  /\ pc[q] \in Job /\ msg[q].op = "commit" =>
       /\ status[Snap(q)] = "committed"
       /\ pc[q] = "parsing" => seen[q].status = "committed"
       /\ \A r \in Requests : CommitJob(r) /\ Snap(q) = Snap(r) => q = r
  /\ pc[q] \in Job /\ msg[q].op = "rerun" =>
       /\ status[Snap(q)] \in {"failed", "parsed"}
       /\ pc[q] = "parsing" => seen[q].status = "failed"

JobInv == \A q \in Requests : JobFacts(q)

\* What a sealed snapshot holds, and what lies under its rows.
BytesInv ==
  \A s \in Snapshots :
    /\ Sealed(s) => Meets(rows[s], promise[s])
    /\ \A f \in Files \ unsaved[s] : blob[s][f] = rows[s][f]

\* The inductive invariant.
IInv == TypeOK /\ MsgInv /\ LockInv /\ FreshInv /\ JobInv /\ BytesInv

-----------------------------------------------------------------------------
LEMMA TypeInit == Init => TypeOK
  BY DEF Init, TypeOK, Manifest, Listing, Seen, Unread

LEMMA MsgInit == Init => MsgInv
  BY DEF Init, MsgInv, Active, Critical, Uploading, Committing, Job

\* Where a request that is being served points.
LEMMA Target ==
  ASSUME TypeOK, MsgInv, NEW r \in Requests, pc[r] \in Active
  PROVE  /\ Snap(r) \in Snapshots
         /\ status[Snap(r)] # "none"
         /\ pc[r] \in {"received"} \cup Critical =>
              Key(r) \in Keys /\ Key(r) = owner[Snap(r)]
         /\ pc[r] \in Uploading => /\ msg[r].filename \in Files
                                   /\ msg[r].sha256 \in Digests
         /\ pc[r] \in Committing => msg[r].manifest \in Manifest
  BY DEF MsgInv, Snap, Key, Upload, Commit, Rerun, Critical

\* What a handler or a job has read keeps its type.
LEMMA SeenTypes ==
  ASSUME NEW o \in Seen, NEW row \in BOOLEAN, NEW st \in {"none", "committed", "failed"}
  PROVE  [o EXCEPT !.row = row] \in Seen /\ [o EXCEPT !.status = st] \in Seen
  BY DEF Seen

LEMMA SeenCounts ==
  ASSUME NEW o \in Seen, NEW c \in Nat, NEW b \in Nat
  PROVE  [o EXCEPT !.count = c, !.bytes = b] \in Seen
  BY DEF Seen

LEMMA TypeNext == TypeOK /\ MsgInv /\ [Next]_vars => TypeOK'
  <1> SUFFICES ASSUME TypeOK, MsgInv, [Next]_vars PROVE TypeOK'
    OBVIOUS
  <1> USE DEF TypeOK, db, hist, Listing, Finish, Goto, Release
  <1>1. ASSUME NEW s \in Snapshots, NEW k \in Keys, StartSnapshot(k, s)
        PROVE  TypeOK'
    BY <1>1 DEF StartSnapshot
  <1>2. ASSUME NEW r \in Requests, NEW m \in Upload \cup Commit, Receive(r, m)
        PROVE  TypeOK'
    BY <1>2 DEF Receive
  <1>3. ASSUME NEW r \in Requests, Admit(r) PROVE TypeOK'
    <2>1. Snap(r) \in Snapshots
      BY <1>3, Target DEF Admit, Active
    <2>2. Key(r) \in Keys
      BY <1>3, Target DEF Admit, Active
    <2>3. seen' \in [Requests -> Seen]
      <3> DEFINE new == [seen[r] EXCEPT !.count = file_count[Snap(r)],
                                        !.bytes = total_bytes[Snap(r)]]
      <3>1. new \in Seen
        BY <2>1, SeenCounts
      <3>2. seen' = [seen EXCEPT ![r] = new]
        BY <1>3 DEF Admit
      <3> HIDE DEF new
      <3>3. QED
        BY <3>1, <3>2
    <2>4. /\ lock' \in [Keys -> Requests \cup {None}]
          /\ pc' \in [Requests -> {"unsent", "received", "done"} \cup Critical \cup Job]
      BY <1>3, <2>2 DEF Admit, Acquire, Critical, Uploading, Committing
    <2>5. QED
      BY <1>3, <2>3, <2>4 DEF Admit
  <1>4. ASSUME NEW r \in Requests, Refuse(r) PROVE TypeOK'
    BY <1>4 DEF Refuse, Unread, Seen
  <1>10. ASSUME NEW r \in Requests, NEW s \in Snapshots, Retrigger(r, s)
         PROVE  TypeOK'
    BY <1>10 DEF Retrigger, Rerun, Job
  <1>5. ASSUME NEW r \in Requests, Handle(r) PROVE TypeOK'
    <2> USE DEF Critical, Uploading, Committing, Unread, Seen
    <2>1. CASE PutBytes(r)
      <3>1. /\ Snap(r) \in Snapshots
            /\ msg[r].sha256 \in Digests /\ msg[r].filename \in Files
        BY <2>1, Target DEF PutBytes, Active
      <3>2. QED
        BY <2>1, <3>1 DEF PutBytes, Put
    <2>2. CASE StorageFails(r)
      <3>1. /\ Snap(r) \in Snapshots
            /\ msg[r].sha256 \in Digests /\ msg[r].filename \in Files
        BY <2>2, Target DEF StorageFails, Active
      <3>2. CASE Put(r)
        <4>1. /\ blob' \in [Snapshots -> Listing]
              /\ unsaved' \in [Snapshots -> SUBSET Files]
          BY <3>1, <3>2 DEF Put
        <4>2. QED
          BY <2>2, <4>1 DEF StorageFails
      <3>3. CASE UNCHANGED <<blob, unsaved>>
        BY <2>2, <3>3 DEF StorageFails
      <3>4. QED
        BY <2>2, <3>2, <3>3 DEF StorageFails
    <2>3. CASE FindRow(r)
      <3> DEFINE new == [seen[r] EXCEPT !.row = rows[Snap(r)][msg[r].filename] # None]
      <3>1. new \in Seen
        <4> HIDE DEF Seen
        <4>1. seen[r] \in Seen /\ (rows[Snap(r)][msg[r].filename] # None) \in BOOLEAN
          OBVIOUS
        <4>2. QED
          BY <4>1, SeenTypes, Zenon
      <3>2. seen' = [seen EXCEPT ![r] = new]
        BY <2>3 DEF FindRow
      <3> HIDE DEF new
      <3>3. seen' \in [Requests -> Seen]
        BY <3>1, <3>2
      <3>4. QED
        BY <2>3, <3>3 DEF FindRow
    <2>4. CASE SaveRow(r)
      <3>1. Snap(r) \in Snapshots /\ msg[r].sha256 \in Digests
        BY <2>4, Target DEF SaveRow, Active
      <3>2. /\ rows' \in [Snapshots -> Listing]
            /\ unsaved' \in [Snapshots -> SUBSET Files]
        BY <2>4, <3>1 DEF SaveRow
      <3>3. FileCount(r) \in Nat /\ seen[r].bytes + 1 \in Nat
        BY <3>1 DEF FileCount
      <3>4. /\ file_count' \in [Snapshots -> Nat]
            /\ total_bytes' \in [Snapshots -> Nat]
        BY <2>4, <3>1, <3>3 DEF SaveRow
      <3>5. QED
        BY <2>4, <3>2, <3>4 DEF SaveRow
    <2>5. CASE CompareManifest(r)
      BY <2>5 DEF CompareManifest
    <2>6. CASE ManifestMismatch(r)
      BY <2>6 DEF ManifestMismatch
    <2>7. CASE SealSnapshot(r)
      <3>1. Snap(r) \in Snapshots /\ msg[r].manifest \in Manifest
        BY <2>7, Target DEF SealSnapshot, Active
      <3>2. QED
        BY <2>7, <3>1 DEF SealSnapshot, Job
    <2>8. CASE DbFails(r)
      BY <2>8 DEF DbFails
    <2>9. QED
      BY <1>5, <2>1, <2>2, <2>3, <2>4, <2>5, <2>6, <2>7, <2>8 DEF Handle
  <1>6. ASSUME NEW r \in Requests, Parse(r) PROVE TypeOK'
    <2>1. CASE ParseStart(r)
      <3> DEFINE new == [seen[r] EXCEPT !.status = status[Snap(r)]]
      <3>1. new \in Seen
        <4>1. seen[r] \in Seen /\ status[Snap(r)] \in {"none", "committed", "failed"}
          BY <2>1 DEF ParseStart
        <4>2. QED
          BY <4>1, SeenTypes
      <3>2. seen' = [seen EXCEPT ![r] = new]
        BY <2>1 DEF ParseStart
      <3> HIDE DEF new
      <3>3. seen' \in [Requests -> Seen]
        BY <3>1, <3>2
      <3>4. QED
        BY <2>1, <3>3 DEF ParseStart, Job
    <2>2. ASSUME NEW outcome \in {"parsed", "failed"}, ParseEnd(r, outcome)
          PROVE  TypeOK'
      BY <2>2 DEF ParseEnd, SetStatus, Job, Unread, Seen
    <2>3. CASE JobLost(r)
      BY <2>3 DEF JobLost, Job, Unread, Seen
    <2>4. QED
      BY <1>6, <2>1, <2>2, <2>3 DEF Parse, ParseSucceeds, ParseFails
  <1>7. ASSUME Crash PROVE TypeOK'
    BY <1>7 DEF Crash, Unread, Seen
  <1>8. CASE UNCHANGED vars
    BY <1>8 DEF vars
  <1>9. QED
    BY <1>1, <1>2, <1>3, <1>4, <1>5, <1>6, <1>7, <1>8, <1>10 DEF Next

LEMMA MsgNext == TypeOK /\ MsgInv /\ [Next]_vars => MsgInv'
  <1> SUFFICES ASSUME TypeOK, MsgInv, [Next]_vars PROVE MsgInv'
    OBVIOUS
  <1> USE DEF TypeOK, MsgInv, db, hist, Finish, Goto, Release, Snap,
              Active, Critical, Uploading, Committing, Job
  <1>0. \A r \in Requests : pc[r] \in Active => Snap(r) \in Snapshots
    BY DEF Upload, Commit, Rerun
  <1>1. ASSUME NEW s \in Snapshots, NEW k \in Keys, StartSnapshot(k, s)
        PROVE  MsgInv'
    BY <1>0, <1>1 DEF StartSnapshot
  <1>2. ASSUME NEW r \in Requests, NEW m \in Upload \cup Commit, Receive(r, m)
        PROVE  MsgInv'
    BY <1>2 DEF Receive, Own
  <1>3. ASSUME NEW r \in Requests, Admit(r) PROVE MsgInv'
    BY <1>3 DEF Admit, Upload, Commit
  <1>4. ASSUME NEW r \in Requests, Refuse(r) PROVE MsgInv'
    BY <1>4 DEF Refuse
  <1>10. ASSUME NEW r \in Requests, NEW s \in Snapshots, Retrigger(r, s)
         PROVE  MsgInv'
    BY <1>10 DEF Retrigger, Rerun
  <1>5. ASSUME NEW r \in Requests, Handle(r) PROVE MsgInv'
    <2>1. CASE PutBytes(r) \/ FindRow(r) \/ CompareManifest(r)
      BY <2>1 DEF PutBytes, FindRow, CompareManifest
    <2>2. CASE StorageFails(r) \/ ManifestMismatch(r) \/ DbFails(r)
      BY <2>2 DEF StorageFails, ManifestMismatch, DbFails
    <2>3. CASE SaveRow(r)
      BY <2>3 DEF SaveRow
    <2>4. CASE SealSnapshot(r)
      BY <2>4 DEF SealSnapshot
    <2>5. QED
      BY <1>5, <2>1, <2>2, <2>3, <2>4 DEF Handle
  <1>6. ASSUME NEW r \in Requests, Parse(r) PROVE MsgInv'
    <2>1. CASE ParseStart(r)
      BY <2>1 DEF ParseStart
    <2>2. ASSUME NEW outcome \in {"parsed", "failed"}, ParseEnd(r, outcome)
          PROVE  MsgInv'
      BY <1>0, <2>2 DEF ParseEnd, SetStatus
    <2>3. CASE JobLost(r)
      BY <2>3 DEF JobLost
    <2>4. QED
      BY <1>6, <2>1, <2>2, <2>3 DEF Parse, ParseSucceeds, ParseFails
  <1>7. ASSUME Crash PROVE MsgInv'
    BY <1>7 DEF Crash
  <1>8. CASE UNCHANGED vars
    BY <1>8 DEF vars
  <1>9. QED
    BY <1>1, <1>2, <1>3, <1>4, <1>5, <1>6, <1>7, <1>8, <1>10 DEF Next

\* Every variable keeps its type, and no step meets a message, a snapshot or a
\* key that is not there.
THEOREM TypeCorrect == Spec => []TypeOK
  <1>1. Init => TypeOK /\ MsgInv
    BY TypeInit, MsgInit
  <1>2. TypeOK /\ MsgInv /\ [Next]_vars => (TypeOK /\ MsgInv)'
    BY TypeNext, MsgNext
  <1>3. QED
    BY <1>1, <1>2, PTL DEF Spec

-----------------------------------------------------------------------------
(* The row lock of the key.                                                *)

LEMMA LockNext == TypeOK /\ MsgInv /\ LockInv /\ [Next]_vars => LockInv'
  <1> SUFFICES ASSUME TypeOK, MsgInv, LockInv, [Next]_vars,
                      NEW q \in Requests, pc'[q] \in Critical
               PROVE  lock'[Key(q)'] = q
    BY DEF LockInv
  <1> USE DEF TypeOK, LockInv, db, hist, Finish, Goto, Snap, Key
  <1>1. CASE pc[q] \in Critical
    <2>1. lock[Key(q)] = q /\ Key(q) \in Keys
      BY <1>1, Target DEF Active
    <2>2. ASSUME NEW s \in Snapshots, NEW k \in Keys, StartSnapshot(k, s)
          PROVE  lock'[Key(q)'] = q
      BY <2>1, <2>2 DEF StartSnapshot
    <2>3. ASSUME NEW r \in Requests, NEW m \in Upload \cup Commit, Receive(r, m)
          PROVE  lock'[Key(q)'] = q
      BY <1>1, <2>1, <2>3 DEF Receive, Critical, Uploading, Committing
    <2>4. ASSUME NEW r \in Requests, Admit(r) PROVE lock'[Key(q)'] = q
      BY <2>1, <2>4, NoneIsNew DEF Admit, Acquire
    <2>5. ASSUME NEW r \in Requests, Refuse(r) PROVE lock'[Key(q)'] = q
      <3>1. r # q
        BY <1>1, <2>5 DEF Refuse, Critical, Uploading, Committing
      <3>2. QED
        BY <2>1, <2>5, <3>1 DEF Refuse
    <2>11. ASSUME NEW r \in Requests, NEW s \in Snapshots, Retrigger(r, s)
           PROVE  lock'[Key(q)'] = q
      BY <1>1, <2>1, <2>11 DEF Retrigger, Critical, Uploading, Committing
    <2>6. ASSUME NEW r \in Requests, Handle(r) PROVE lock'[Key(q)'] = q
      <3>1. CASE PutBytes(r) \/ FindRow(r) \/ CompareManifest(r)
        BY <2>1, <3>1 DEF PutBytes, FindRow, CompareManifest
      <3>2. CASE StorageFails(r) \/ SaveRow(r) \/ ManifestMismatch(r)
                 \/ SealSnapshot(r) \/ DbFails(r)
        <4>1. pc[r] \in Critical /\ pc'[r] \notin Critical
          BY <3>2 DEF StorageFails, SaveRow, ManifestMismatch, SealSnapshot,
                      DbFails, Critical, Uploading, Committing
        <4>2. Key(r) # Key(q)
          BY <1>1, <4>1
        <4>3. msg'[q] = msg[q]
          BY <3>2, <4>1 DEF StorageFails, SaveRow, ManifestMismatch,
                            SealSnapshot, DbFails
        <4>4. lock' = [lock EXCEPT ![Key(r)] = None]
          BY <3>2 DEF StorageFails, SaveRow, ManifestMismatch, SealSnapshot,
                      DbFails, Release
        <4>5. QED
          BY <2>1, <4>2, <4>3, <4>4
      <3>3. QED
        BY <2>6, <3>1, <3>2 DEF Handle
    <2>7. ASSUME NEW r \in Requests, Parse(r) PROVE lock'[Key(q)'] = q
      <3>1. r # q /\ UNCHANGED lock
        BY <1>1, <2>7 DEF Parse, ParseStart, ParseSucceeds, ParseFails, ParseEnd,
                          JobLost, Job, Critical, Uploading, Committing
      <3>2. msg'[q] = msg[q]
        BY <2>7, <3>1 DEF Parse, ParseStart, ParseSucceeds, ParseFails, ParseEnd,
                          JobLost
      <3>3. QED
        BY <2>1, <3>1, <3>2
    <2>8. ASSUME Crash PROVE FALSE
      BY <1>1, <2>8 DEF Crash, Critical, Uploading, Committing
    <2>9. CASE UNCHANGED vars
      BY <2>1, <2>9 DEF vars
    <2>10. QED
      BY <2>2, <2>3, <2>4, <2>5, <2>6, <2>7, <2>8, <2>9, <2>11 DEF Next
  \* Only Admit lets a request in, and it takes the row.
  <1>2. CASE pc[q] \notin Critical
    <2>1. Admit(q)
      <3> USE DEF Critical, Uploading, Committing
      <3>1. ASSUME NEW s \in Snapshots, NEW k \in Keys, StartSnapshot(k, s)
            PROVE  FALSE
        BY <1>2, <3>1 DEF StartSnapshot
      <3>2. ASSUME NEW r \in Requests, NEW m \in Upload \cup Commit, Receive(r, m)
            PROVE  FALSE
        BY <1>2, <3>2 DEF Receive
      <3>3. ASSUME NEW r \in Requests, Admit(r) PROVE Admit(q)
        BY <1>2, <3>3 DEF Admit
      <3>4. ASSUME NEW r \in Requests, Refuse(r) PROVE FALSE
        BY <1>2, <3>4 DEF Refuse
      <3>10. ASSUME NEW r \in Requests, NEW s \in Snapshots, Retrigger(r, s)
             PROVE  FALSE
        BY <1>2, <3>10 DEF Retrigger
      <3>5. ASSUME NEW r \in Requests, Handle(r) PROVE FALSE
        BY <1>2, <3>5 DEF Handle, PutBytes, StorageFails, FindRow, SaveRow,
                          CompareManifest, ManifestMismatch, SealSnapshot, DbFails
      <3>6. ASSUME NEW r \in Requests, Parse(r) PROVE FALSE
        BY <1>2, <3>6 DEF Parse, ParseStart, ParseSucceeds, ParseFails, ParseEnd,
                          JobLost, Job
      <3>7. ASSUME Crash PROVE FALSE
        BY <1>2, <3>7 DEF Crash
      <3>8. CASE UNCHANGED vars
        BY <1>2, <3>8 DEF vars
      <3>9. QED
        BY <3>1, <3>2, <3>3, <3>4, <3>5, <3>6, <3>7, <3>8, <3>10 DEF Next
    <2>2. Key(q) \in Keys
      BY <2>1, Target DEF Admit, Active
    <2>3. QED
      BY <2>1, <2>2 DEF Admit, Acquire
  <1>3. QED
    BY <1>1, <1>2

\* Two handlers past their status checks work on different snapshots.
LEMMA Exclusive ==
  ASSUME MsgInv, LockInv, NEW q \in Requests, NEW r \in Requests,
         pc[q] \in Critical, pc[r] \in Critical, q # r
  PROVE  Snap(q) # Snap(r)
  BY DEF MsgInv, LockInv, Key

-----------------------------------------------------------------------------
(* What a handler has read.                                                *)

\* FreshInv for one request.
Fresh(r) ==
  /\ pc[r] \in Critical => /\ status[Snap(r)] = "open"
                           /\ seen[r].count = file_count[Snap(r)]
                           /\ seen[r].bytes = total_bytes[Snap(r)]
  /\ pc[r] \in {"find", "save"} => blob[Snap(r)][msg[r].filename] = msg[r].sha256
  /\ pc[r] = "save" => (seen[r].row <=> rows[Snap(r)][msg[r].filename] # None)

\* A handler works on its own progress and its own snapshot.
LEMMA HandleFrame ==
  ASSUME TypeOK, MsgInv, NEW r \in Requests, Handle(r)
  PROVE  /\ pc[r] \in Critical
         /\ UNCHANGED owner
         /\ \A q \in Requests : q # r => /\ pc'[q] = pc[q]
                                        /\ msg'[q] = msg[q]
                                        /\ seen'[q] = seen[q]
         /\ \A s \in Snapshots : s # Snap(r) => /\ status'[s] = status[s]
                                              /\ file_count'[s] = file_count[s]
                                              /\ total_bytes'[s] = total_bytes[s]
                                              /\ rows'[s] = rows[s]
                                              /\ blob'[s] = blob[s]
                                              /\ promise'[s] = promise[s]
                                              /\ unsaved'[s] = unsaved[s]
  <1> USE DEF TypeOK, Listing, db, hist, Finish, Goto, Critical, Uploading, Committing
  <1>1. CASE PutBytes(r)
    BY <1>1 DEF PutBytes, Put
  <1>2. CASE SaveRow(r)
    BY <1>2 DEF SaveRow
  <1>3. CASE SealSnapshot(r)
    BY <1>3 DEF SealSnapshot
  <1>4. CASE FindRow(r) \/ CompareManifest(r)
    BY <1>4 DEF FindRow, CompareManifest
  <1>5. CASE ManifestMismatch(r) \/ DbFails(r)
    BY <1>5 DEF ManifestMismatch, DbFails
  <1>6. CASE StorageFails(r)
    BY <1>6 DEF StorageFails, Put
  <1>7. QED
    BY <1>1, <1>2, <1>3, <1>4, <1>5, <1>6 DEF Handle

\* All a parse job changes is its own progress and the status of its snapshot.
LEMMA ParseFrame ==
  ASSUME TypeOK, NEW r \in Requests, Parse(r)
  PROVE  /\ pc[r] \in Job
         /\ UNCHANGED <<owner, file_count, total_bytes, rows, blob, lock, hist>>
         /\ \A s \in Snapshots : s # Snap(r) => status'[s] = status[s]
         /\ \A q \in Requests : q # r => /\ pc'[q] = pc[q]
                                        /\ msg'[q] = msg[q]
                                        /\ seen'[q] = seen[q]
  <1> USE DEF TypeOK, db, hist, Finish, Goto, Job
  <1>1. CASE ParseStart(r)
    BY <1>1 DEF ParseStart
  <1>2. ASSUME NEW outcome \in {"parsed", "failed"}, ParseEnd(r, outcome)
        PROVE  /\ pc[r] = "parsing"
               /\ UNCHANGED <<owner, file_count, total_bytes, rows, blob,
                              lock, hist>>
               /\ \A s \in Snapshots : s # Snap(r) => status'[s] = status[s]
               /\ \A q \in Requests : q # r => /\ pc'[q] = pc[q]
                                              /\ msg'[q] = msg[q]
                                              /\ seen'[q] = seen[q]
    BY <1>2 DEF ParseEnd, SetStatus
  <1>3. CASE JobLost(r)
    BY <1>3 DEF JobLost
  <1>4. QED
    BY <1>1, <1>2, <1>3 DEF Parse, ParseSucceeds, ParseFails

\* A job is on a sealed snapshot.
LEMMA JobSealed ==
  ASSUME MsgInv, JobInv, NEW r \in Requests, pc[r] \in Job
  PROVE  Sealed(Snap(r))
  BY DEF MsgInv, JobInv, JobFacts, Sealed, Commit, Rerun

LEMMA FreshNext ==
  TypeOK /\ MsgInv /\ LockInv /\ FreshInv /\ JobInv /\ [Next]_vars => FreshInv'
  <1> SUFFICES ASSUME TypeOK, MsgInv, LockInv, FreshInv, JobInv, [Next]_vars,
                      NEW q \in Requests
               PROVE  Fresh(q)'
    BY DEF FreshInv, Fresh
  <1> USE DEF TypeOK, Listing, db, hist, Finish, Goto, Snap
  <1>0. Fresh(q)
    BY DEF FreshInv, Fresh
  <1>1. ASSUME NEW s \in Snapshots, NEW k \in Keys, StartSnapshot(k, s)
        PROVE  Fresh(q)'
    <2>1. pc[q] \in Critical => Snap(q) # s
      BY <1>0, <1>1 DEF StartSnapshot, Fresh
    <2>2. QED
      BY <1>0, <1>1, <2>1 DEF StartSnapshot, Fresh, Critical, Uploading
  <1>2. ASSUME NEW r \in Requests, NEW m \in Upload \cup Commit, Receive(r, m)
        PROVE  Fresh(q)'
    BY <1>0, <1>2 DEF Receive, Fresh, Critical, Uploading, Committing
  <1>3. ASSUME NEW r \in Requests, Admit(r) PROVE Fresh(q)'
    <2>1. CASE q = r
      BY <1>3, <2>1 DEF Admit, Acceptable, Seen, Fresh
    <2>2. CASE q # r
      BY <1>0, <1>3, <2>2 DEF Admit, Fresh
    <2>3. QED
      BY <2>1, <2>2
  <1>4. ASSUME NEW r \in Requests, Refuse(r) PROVE Fresh(q)'
    BY <1>0, <1>4 DEF Refuse, Fresh, Critical, Uploading, Committing
  <1>10. ASSUME NEW r \in Requests, NEW s \in Snapshots, Retrigger(r, s)
         PROVE  Fresh(q)'
    BY <1>0, <1>10 DEF Retrigger, Fresh, Critical, Uploading, Committing
  <1>5. ASSUME NEW r \in Requests, Handle(r) PROVE Fresh(q)'
    <2>1. CASE q # r /\ pc[q] \in Critical
      <3>1. Snap(q) # Snap(r) /\ Snap(q) \in Snapshots
        BY <1>5, <2>1, HandleFrame, Exclusive, Target DEF Active
      <3>2. QED
        BY <1>0, <1>5, <2>1, <3>1, HandleFrame DEF Fresh
    <2>2. CASE q # r /\ pc[q] \notin Critical
      <3>1. pc'[q] \notin Critical
        BY <1>5, <2>2, HandleFrame
      <3>2. QED
        BY <3>1 DEF Fresh, Critical, Uploading
    <2>3. CASE q = r
      <3>1. CASE PutBytes(r)
        <4>1. /\ Snap(r) \in Snapshots
              /\ msg[r].filename \in Files
              /\ msg[r].sha256 \in Digests
          BY <3>1, Target DEF PutBytes, Active, Critical, Uploading
        <4>2. blob'[Snap(r)][msg[r].filename] = msg[r].sha256
          BY <3>1, <4>1 DEF PutBytes, Put
        <4>3. QED
          BY <1>0, <2>3, <3>1, <4>2 DEF PutBytes, Fresh, Critical, Uploading
      <3>2. CASE FindRow(r)
        <4>1. /\ seen'[r].count = seen[r].count /\ seen'[r].bytes = seen[r].bytes
              /\ seen'[r].row = (rows[Snap(r)][msg[r].filename] # None)
              /\ pc[r] = "find" /\ pc'[r] = "save" /\ msg' = msg
              /\ UNCHANGED <<status, file_count, total_bytes, rows, blob>>
          BY <3>2 DEF FindRow, Seen
        <4>2. QED
          BY <1>0, <2>3, <4>1 DEF Fresh, Critical, Uploading
      <3>3. CASE CompareManifest(r)
        BY <1>0, <2>3, <3>3 DEF CompareManifest, Fresh, Critical, Committing
      <3>4. CASE StorageFails(r) \/ SaveRow(r) \/ ManifestMismatch(r)
                 \/ SealSnapshot(r) \/ DbFails(r)
        BY <2>3, <3>4 DEF StorageFails, SaveRow, ManifestMismatch, SealSnapshot,
             DbFails, Fresh, Critical, Uploading, Committing
      <3>5. QED
        BY <1>5, <3>1, <3>2, <3>3, <3>4 DEF Handle
    <2>4. QED
      BY <2>1, <2>2, <2>3
  <1>6. ASSUME NEW r \in Requests, Parse(r) PROVE Fresh(q)'
    <2>1. CASE pc[q] \in Critical
      \* The job's snapshot is sealed, that of q is open.
      <3>1. q # r /\ Snap(q) # Snap(r)
        BY <1>0, <1>6, <2>1, ParseFrame, JobSealed DEF Fresh, Sealed, Job, Critical,
             Uploading, Committing
      <3>2. Snap(q) \in Snapshots
        BY <2>1, Target DEF Active
      <3>3. QED
        BY <1>0, <1>6, <3>1, <3>2, ParseFrame DEF Fresh
    <2>2. CASE pc[q] \notin Critical
      <3>1. pc'[q] \notin Critical
        BY <1>6, <2>2 DEF Parse, ParseStart, ParseSucceeds, ParseFails, ParseEnd,
             JobLost, Critical, Uploading, Committing
      <3>2. QED
        BY <3>1 DEF Fresh, Critical, Uploading
    <2>3. QED
      BY <2>1, <2>2
  <1>7. ASSUME Crash PROVE Fresh(q)'
    BY <1>7 DEF Crash, Fresh, Critical, Uploading, Committing
  <1>8. CASE UNCHANGED vars
    BY <1>0, <1>8 DEF vars, Fresh
  <1>9. QED
    BY <1>1, <1>2, <1>3, <1>4, <1>5, <1>6, <1>7, <1>8, <1>10 DEF Next

-----------------------------------------------------------------------------
(* What a parse job relies on.                                             *)

\* No handler past its status check works on the snapshot of a job.
LEMMA JobAlone ==
  ASSUME MsgInv, FreshInv, JobInv, NEW q \in Requests, NEW r \in Requests,
         pc[q] \in Job, pc[r] \in Critical
  PROVE  Snap(q) # Snap(r)
  BY JobSealed DEF FreshInv, Sealed

LEMMA JobNext ==
  TypeOK /\ MsgInv /\ LockInv /\ FreshInv /\ JobInv /\ [Next]_vars => JobInv'
  <1> SUFFICES ASSUME TypeOK, MsgInv, LockInv, FreshInv, JobInv, [Next]_vars,
                      NEW q \in Requests
               PROVE  JobFacts(q)'
    BY DEF JobInv
  <1> USE DEF TypeOK, db, hist, Finish, Goto, Snap, Job, CommitJob
  <1>0. \A r \in Requests : JobFacts(r)
    BY DEF JobInv
  <1>1. ASSUME NEW s \in Snapshots, NEW k \in Keys, StartSnapshot(k, s)
        PROVE  JobFacts(q)'
    <2>1. pc[q] \in Job => status'[Snap(q)] = status[Snap(q)]
      <3>1. pc[q] \in Job => Sealed(Snap(q))
        BY JobSealed
      <3>2. QED
        BY <1>1, <3>1 DEF StartSnapshot, Sealed
    <2>2. UNCHANGED <<rows, pc, msg, seen>>
      BY <1>1 DEF StartSnapshot
    <2>3. JobFacts(q)
      BY <1>0
    <2>4. QED
      BY <2>1, <2>2, <2>3 DEF JobFacts, Matches
  <1>2. ASSUME NEW r \in Requests, NEW m \in Upload \cup Commit, Receive(r, m)
        PROVE  JobFacts(q)'
    BY <1>0, <1>2 DEF Receive, JobFacts, Matches
  <1>3. ASSUME NEW r \in Requests, Admit(r) PROVE JobFacts(q)'
    BY <1>0, <1>3 DEF Admit, JobFacts, Matches
  <1>4. ASSUME NEW r \in Requests, Refuse(r) PROVE JobFacts(q)'
    BY <1>0, <1>4 DEF Refuse, JobFacts, Matches
  <1>10. ASSUME NEW r \in Requests, NEW s \in Snapshots, Retrigger(r, s)
         PROVE  JobFacts(q)'
    BY <1>0, <1>10 DEF Retrigger, JobFacts, Matches
  <1>5. ASSUME NEW r \in Requests, Handle(r) PROVE JobFacts(q)'
    <2>1. pc[r] \in Critical /\ pc[r] \notin Job
      BY <1>5, HandleFrame DEF Critical, Uploading, Committing
    \* r becomes a job by sealing, and no job was on its snapshot.
    <2>2. pc'[r] \in Job => /\ SealSnapshot(r)
                           /\ \A p \in Requests : pc[p] \in Job => Snap(p) # Snap(r)
      BY <1>5, <2>1, JobAlone DEF Handle, PutBytes, StorageFails, FindRow, SaveRow,
           CompareManifest, ManifestMismatch, SealSnapshot, DbFails
    <2>3. CASE q # r
      <3>1. CASE pc[q] \in {"seal"} \cup Job
        <4>1. Snap(q) # Snap(r) /\ Snap(q) \in Snapshots
          BY <2>1, <2>3, <3>1, JobAlone, Exclusive, Target
             DEF Active, Critical, Committing
        <4>2. /\ rows'[Snap(q)'] = rows[Snap(q)]
              /\ status'[Snap(q)'] = status[Snap(q)]
              /\ pc'[q] = pc[q] /\ msg'[q] = msg[q] /\ seen'[q] = seen[q]
          BY <1>5, <2>3, <4>1, HandleFrame
        <4>3. ASSUME NEW p \in Requests, CommitJob(q)', CommitJob(p)', Snap(q)' = Snap(p)'
              PROVE  q = p
          <5>1. msg'[r] = msg[r] \/ pc'[r] \notin Job
            BY <2>2 DEF SealSnapshot
          <5>2. QED
            BY <1>0, <1>5, <2>2, <2>3, <4>1, <4>2, <4>3, <5>1, HandleFrame DEF JobFacts
        <4>4. JobFacts(q) /\ (Matches(q) => Matches(q)')
          BY <1>0, <4>2 DEF Matches
        <4>5. QED
          BY <4>2, <4>3, <4>4 DEF JobFacts
      <3>2. CASE pc[q] \notin {"seal"} \cup Job
        BY <1>5, <2>3, <3>2, HandleFrame DEF JobFacts
      <3>3. QED
        BY <3>1, <3>2
    <2>4. CASE q = r
      <3>1. CASE CompareManifest(r)
        BY <2>4, <3>1 DEF CompareManifest, Matches, JobFacts
      <3>2. CASE SealSnapshot(r)
        <4>1. Snap(r) \in Snapshots /\ msg[r].op = "commit"
          BY <2>1, <3>2, Target DEF Active, SealSnapshot, MsgInv, Committing, Commit
        <4>2. /\ pc'[r] = "parse" /\ msg'[r].op = "commit"
              /\ status'[Snap(r)'] = "committed"
          BY <3>2, <4>1 DEF SealSnapshot
        <4>3. ASSUME NEW p \in Requests, p # r, pc'[p] \in Job
              PROVE  Snap(p)' # Snap(r)'
          BY <1>5, <2>2, <3>2, <4>3, HandleFrame DEF SealSnapshot
        <4>4. QED
          BY <2>4, <4>2, <4>3 DEF JobFacts
      <3>3. CASE ~CompareManifest(r) /\ ~SealSnapshot(r)
        <4>1. pc'[r] \notin {"seal"} \cup Job
          BY <1>5, <3>3 DEF Handle, PutBytes, StorageFails, FindRow, SaveRow,
               ManifestMismatch, DbFails
        <4>2. QED
          BY <2>4, <4>1 DEF JobFacts
      <3>4. QED
        BY <3>1, <3>2, <3>3
    <2>5. QED
      BY <2>3, <2>4
  <1>6. ASSUME NEW r \in Requests, Parse(r) PROVE JobFacts(q)'
    <2>0. pc[r] \in Job /\ msg[r] \in Commit \cup Rerun
      BY <1>6, ParseFrame DEF MsgInv
    <2>1. CASE q # r /\ pc[q] \notin {"seal"} \cup Job
      BY <1>6, <2>1, ParseFrame DEF JobFacts
    <2>2. CASE q # r /\ pc[q] = "seal"
      BY <1>0, <1>6, <2>2, ParseFrame DEF JobFacts, Matches
    <2>3. CASE q # r /\ pc[q] \in Job
      <3>1. /\ pc'[q] = pc[q] /\ msg'[q] = msg[q] /\ seen'[q] = seen[q]
            /\ Snap(q) \in Snapshots
        BY <1>6, <2>3, ParseFrame, Target DEF Active
      <3>2. ASSUME NEW p \in Requests, pc'[p] \in Job
            PROVE  pc[p] \in Job /\ msg'[p] = msg[p]
        BY <1>6, <3>2, ParseFrame DEF Parse, ParseStart, ParseSucceeds, ParseFails,
             ParseEnd, JobLost
      <3>3. msg[q].op = "commit" => Snap(q) # Snap(r)
        BY <1>0, <2>0, <2>3 DEF JobFacts, Commit, Rerun
      <3>4. msg[q].op = "rerun" => status'[Snap(q)] \in {"failed", "parsed"}
        <4>1. CASE Snap(q) # Snap(r)
          BY <1>0, <1>6, <2>3, <3>1, <4>1, ParseFrame DEF JobFacts
        <4>2. CASE Snap(q) = Snap(r)
          BY <1>0, <1>6, <2>3, <3>1, <4>2 DEF JobFacts, Parse, ParseStart, ParseSucceeds,
               ParseFails, ParseEnd, JobLost, SetStatus
        <4>3. QED
          BY <4>1, <4>2
      <3>5. msg[q].op = "commit" => status'[Snap(q)] = status[Snap(q)]
        BY <1>6, <3>1, <3>3, ParseFrame
      <3>6. QED
        BY <1>0, <2>3, <3>1, <3>2, <3>4, <3>5 DEF JobFacts
    <2>4. CASE q = r /\ ParseStart(r)
      BY <1>0, <2>0, <2>4 DEF ParseStart, JobFacts, Commit, Rerun, Seen
    <2>5. CASE q = r /\ ~ParseStart(r)
      BY <1>6, <2>5 DEF Parse, ParseSucceeds, ParseFails, ParseEnd, JobLost, JobFacts
    <2>6. QED
      BY <2>1, <2>2, <2>3, <2>4, <2>5
  <1>7. ASSUME Crash PROVE JobFacts(q)'
    BY <1>0, <1>7 DEF Crash, JobFacts, Matches, Critical, Committing
  <1>8. CASE UNCHANGED vars
    BY <1>0, <1>8 DEF vars, JobFacts, Matches
  <1>9. QED
    BY <1>1, <1>2, <1>3, <1>4, <1>5, <1>6, <1>7, <1>8, <1>10 DEF Next

\* What lies in the store is what the rows say, but for the files that are
\* marked, and a sealed snapshot is what its commit listed.
LEMMA BytesNext ==
  TypeOK /\ MsgInv /\ FreshInv /\ JobInv /\ BytesInv /\ [Next]_vars => BytesInv'
  <1> SUFFICES ASSUME TypeOK, MsgInv, FreshInv, JobInv, BytesInv, [Next]_vars,
                      NEW s \in Snapshots
               PROVE  /\ Sealed(s)' => Meets(rows'[s], promise'[s])
                      /\ \A f \in Files \ unsaved'[s] : blob'[s][f] = rows'[s][f]
    BY DEF BytesInv, Meets, Present
  <1> DEFINE Goal == /\ Sealed(s)' => Meets(rows'[s], promise'[s])
                     /\ \A f \in Files \ unsaved'[s] : blob'[s][f] = rows'[s][f]
  <1> USE DEF TypeOK, db, hist
  <1>0. /\ Sealed(s) => Meets(rows[s], promise[s])
        /\ \A f \in Files \ unsaved[s] : blob[s][f] = rows[s][f]
    BY DEF BytesInv
  <1>1. ASSUME UNCHANGED <<rows, blob, promise, unsaved>>, Sealed(s)' => Sealed(s)
        PROVE  Goal
    BY <1>0, <1>1
  <1>2. ASSUME NEW r \in Requests, Handle(r) PROVE Goal
    <2>1. /\ pc[r] \in Critical /\ Snap(r) \in Snapshots
          /\ status[Snap(r)] = "open"
      BY <1>2, HandleFrame, Target DEF Active, FreshInv
    <2>2. CASE Snap(r) # s
      <3>1. /\ status'[s] = status[s] /\ rows'[s] = rows[s] /\ blob'[s] = blob[s]
            /\ promise'[s] = promise[s] /\ unsaved'[s] = unsaved[s]
        BY <1>2, <2>2, HandleFrame
      <3>2. Sealed(s)' => Sealed(s)
        BY <3>1 DEF Sealed
      <3>3. QED
        BY <1>0, <3>1, <3>2
    <2>3. CASE Snap(r) = s
      <3>1. CASE SealSnapshot(r)
        <4>1. Meets(rows[s], msg[r].manifest)
          BY <2>3, <3>1 DEF SealSnapshot, JobInv, JobFacts, Matches
        <4>2. /\ rows'[s] = rows[s] /\ promise'[s] = msg[r].manifest
              /\ blob' = blob /\ unsaved' = unsaved
          BY <2>3, <3>1 DEF SealSnapshot
        <4>3. QED
          BY <1>0, <4>1, <4>2
      <3>2. CASE ~SealSnapshot(r)
        <4>1. ~Sealed(s)'
          BY <1>2, <2>1, <2>3, <3>2 DEF Handle, PutBytes, StorageFails, FindRow, SaveRow,
               CompareManifest, ManifestMismatch, DbFails, Sealed
        <4>2. ASSUME NEW f \in Files, f \notin unsaved'[s]
              PROVE  blob'[s][f] = rows'[s][f]
          <5>1. CASE PutBytes(r) \/ (StorageFails(r) /\ Put(r))
            <6>1. f # msg[r].filename /\ f \notin unsaved[s]
              BY <2>3, <4>2, <5>1 DEF PutBytes, Put
            <6>2. blob'[s][f] = blob[s][f] /\ rows' = rows
              BY <2>3, <5>1, <6>1 DEF PutBytes, StorageFails, Put, Listing
            <6>3. QED
              BY <1>0, <6>1, <6>2
          <5>2. CASE SaveRow(r)
            <6>1. /\ rows'[s] = [rows[s] EXCEPT ![msg[r].filename] = msg[r].sha256]
                  /\ blob' = blob
                  /\ unsaved'[s] = unsaved[s] \ {msg[r].filename}
              BY <2>3, <5>2 DEF SaveRow
            <6>2. blob[s][msg[r].filename] = msg[r].sha256
              BY <2>3, <5>2 DEF SaveRow, FreshInv
            <6>3. QED
              BY <1>0, <4>2, <6>1, <6>2 DEF Listing
          <5>3. CASE UNCHANGED <<rows, blob, unsaved>>
            BY <1>0, <4>2, <5>3
          <5>4. QED
            BY <1>2, <3>2, <5>1, <5>2, <5>3 DEF Handle, StorageFails, FindRow,
               CompareManifest, ManifestMismatch, DbFails
        <4>3. QED
          BY <4>1, <4>2
      <3>3. QED
        BY <3>1, <3>2
    <2>4. QED
      BY <2>2, <2>3
  <1>3. ASSUME NEW r \in Requests, Parse(r) PROVE Goal
    <2>1. /\ UNCHANGED <<rows, blob, promise, unsaved>>
          /\ Snap(r) # s => status'[s] = status[s]
          /\ Sealed(Snap(r))
      BY <1>3, ParseFrame, JobSealed
    <2>2. Sealed(s)' => Sealed(s)
      BY <2>1 DEF Sealed
    <2>3. QED
      BY <1>1, <2>1, <2>2
  <1>4. ASSUME NEW t \in Snapshots, NEW k \in Keys, StartSnapshot(k, t) PROVE Goal
    BY <1>1, <1>4 DEF StartSnapshot, Sealed
  <1>5. QED
    BY <1>1, <1>2, <1>3, <1>4
       DEF Next, vars, Receive, Admit, Refuse, Retrigger, Crash, Sealed

-----------------------------------------------------------------------------
(* The theorems.                                                           *)

LEMMA InvInit == Init => IInv
  <1> SUFFICES ASSUME Init PROVE IInv
    OBVIOUS
  <1>1. \A r \in Requests : pc[r] = "unsent"
    BY DEF Init
  <1>2. LockInv /\ FreshInv /\ JobInv
    BY <1>1 DEF LockInv, FreshInv, JobInv, JobFacts, Critical, Uploading, Committing, Job
  <1>3. BytesInv
    BY DEF Init, BytesInv, Sealed
  <1>4. QED
    BY <1>2, <1>3, TypeInit, MsgInit DEF IInv

LEMMA InvNext == IInv /\ [Next]_vars => IInv'
  BY TypeNext, MsgNext, LockNext, FreshNext, JobNext, BytesNext DEF IInv

THEOREM Inductive == Spec => []IInv
  BY InvInit, InvNext, PTL DEF Spec

\* A parse job, be it a re-trigger, works on the files the manifest lists
\* (commit_snapshot compares the rows) and on the bytes the rows stand for, but
\* for files whose last upload ended between its put and its row.
THEOREM JobsRead == Spec => []JobReadsManifest
  <1>1. IInv => JobReadsManifest
    <2> SUFFICES ASSUME IInv, NEW r \in Requests, pc[r] \in Job
                 PROVE  /\ Meets(rows[Snap(r)], promise[Snap(r)])
                        /\ \A f \in Files \ unsaved[Snap(r)] :
                             blob[Snap(r)][f] = rows[Snap(r)][f]
      BY DEF JobReadsManifest
    <2>1. Snap(r) \in Snapshots /\ Sealed(Snap(r))
      BY Target, JobSealed DEF IInv, Active
    <2>2. QED
      BY <2>1 DEF IInv, BytesInv
  <1>2. QED
    BY <1>1, Inductive, PTL

\* The job of a commit finds the status as the commit left it.
THEOREM JobsOwn == Spec => []JobOwnsStatus
  <1>1. IInv => JobOwnsStatus
    BY DEF IInv, JobInv, JobFacts, JobOwnsStatus, CommitJob
  <1>2. QED
    BY <1>1, Inductive, PTL

\* One job is started for a snapshot, however often it is committed.
THEOREM JobsOnce == Spec => []OneJob
  <1>1. IInv => OneJob
    BY DEF IInv, JobInv, JobFacts, OneJob, CommitJob
  <1>2. QED
    BY <1>1, Inductive, PTL

\* A handler past its status check works on a snapshot that is still open, so
\* a step that changes the rows, objects or counters of a snapshot finds it open.
LEMMA WritesFindOpen ==
  ASSUME IInv, [Next]_vars, NEW s \in Snapshots, status[s] # "open"
  PROVE  /\ rows'[s] = rows[s]
         /\ blob'[s] = blob[s]
         /\ file_count'[s] = file_count[s]
         /\ total_bytes'[s] = total_bytes[s]
  <1> USE DEF db
  <1>1. CASE UNCHANGED <<rows, blob, file_count, total_bytes>>
    BY <1>1
  <1>2. ASSUME NEW r \in Requests, Handle(r)
        PROVE  /\ rows'[s] = rows[s]
               /\ blob'[s] = blob[s]
               /\ file_count'[s] = file_count[s]
               /\ total_bytes'[s] = total_bytes[s]
    <2>1. Snap(r) # s
      BY <1>2, HandleFrame DEF IInv, FreshInv
    <2>2. QED
      BY <1>2, <2>1, HandleFrame DEF IInv
  <1>3. ASSUME NEW r \in Requests, Parse(r)
        PROVE  UNCHANGED <<rows, blob, file_count, total_bytes>>
    BY <1>3, ParseFrame DEF IInv
  <1>4. QED
    BY <1>1, <1>2, <1>3 DEF Next, vars, StartSnapshot, Receive, Admit,
                            Refuse, Retrigger, Crash

\* Once committed, the rows, objects and counters of a snapshot never change,
\* for all numbers of agents, uploads and commits in flight.
THEOREM Frozen == Spec => SealedIsFrozen
  <1>1. IInv /\ [Next]_vars =>
          [\A s \in Snapshots :
             Sealed(s) => /\ rows'[s] = rows[s]
                          /\ blob'[s] = blob[s]
                          /\ file_count'[s] = file_count[s]
                          /\ total_bytes'[s] = total_bytes[s]]_vars
    BY WritesFindOpen DEF Sealed
  <1>2. QED
    BY <1>1, Inductive, PTL DEF Spec, SealedIsFrozen

\* How a step can change the rows, objects and file_count of a snapshot.
LEMMA Writers ==
  ASSUME [Next]_vars
  PROVE  \/ UNCHANGED <<rows, blob, file_count>>
         \/ \E r \in Requests : PutBytes(r) \/ StorageFails(r) \/ SaveRow(r)
  <1> USE DEF db
  <1>1. ASSUME NEW r \in Requests, Handle(r)
        PROVE  \/ UNCHANGED <<rows, blob, file_count>>
               \/ PutBytes(r) \/ StorageFails(r) \/ SaveRow(r)
    BY <1>1 DEF Handle, FindRow, CompareManifest, ManifestMismatch, SealSnapshot, DbFails
  <1>2. ASSUME NEW r \in Requests, Parse(r)
        PROVE  UNCHANGED <<rows, blob, file_count>>
    BY <1>2 DEF Parse, ParseStart, ParseSucceeds, ParseFails, ParseEnd, JobLost
  <1>3. QED
    BY <1>1, <1>2
       DEF Next, vars, StartSnapshot, Receive, Admit, Refuse, Retrigger, Crash

LEMMA StoredNext == IInv /\ RowsAreStored /\ [Next]_vars => RowsAreStored'
  <1> SUFFICES ASSUME IInv, RowsAreStored, [Next]_vars,
                      NEW s \in Snapshots, NEW f \in Files, rows'[s][f] # None
               PROVE  blob'[s][f] # None
    BY DEF RowsAreStored, Present
  <1> USE DEF IInv, TypeOK, Listing, db
  <1>0. rows[s][f] # None => blob[s][f] # None
    BY DEF RowsAreStored, Present
  <1>1. CASE UNCHANGED <<rows, blob, file_count>>
    BY <1>0, <1>1
  <1>2. ASSUME NEW r \in Requests, PutBytes(r) \/ StorageFails(r)
        PROVE  blob'[s][f] # None
    <2>1. msg[r].sha256 \in Digests /\ rows' = rows
      BY <1>2, Target DEF PutBytes, StorageFails, Active, Critical, Uploading
    <2>2. blob' = blob \/ Put(r)
      BY <1>2 DEF PutBytes, StorageFails
    <2>3. rows[s][f] # None /\ blob[s][f] # None
      BY <1>0, <2>1
    <2>4. ASSUME Put(r) PROVE blob'[s][f] \in {blob[s][f], msg[r].sha256}
      BY <2>4 DEF Put
    <2>5. QED
      BY <2>1, <2>2, <2>3, <2>4, NoneIsNew
  <1>3. ASSUME NEW r \in Requests, SaveRow(r) PROVE blob'[s][f] # None
    <2>1. /\ msg[r].sha256 \in Digests
          /\ blob[Snap(r)][msg[r].filename] = msg[r].sha256
      BY <1>3, Target DEF SaveRow, FreshInv, Active, Critical, Uploading
    <2>2. QED
      BY <1>0, <1>3, <2>1, NoneIsNew DEF SaveRow
  <1>4. QED
    BY <1>1, <1>2, <1>3, Writers

\* Every snapshot_files row has its object, whichever upload failed or died.
THEOREM Stored == Spec => []RowsAreStored
  <1>1. Init => RowsAreStored
    BY DEF Init, RowsAreStored, Present
  <1>2. QED
    BY <1>1, StoredNext, Inductive, PTL DEF Spec

LEMMA CountNext == IInv /\ FileCountExact /\ [Next]_vars => FileCountExact'
  <1> SUFFICES ASSUME IInv, FileCountExact, [Next]_vars, NEW s \in Snapshots
               PROVE  file_count'[s] = Cardinality(Present(rows'[s]))
    BY DEF FileCountExact, Present
  <1> USE DEF IInv, TypeOK, Listing, db
  <1>0. file_count[s] = Cardinality(Present(rows[s]))
    BY DEF FileCountExact
  <1>1. CASE UNCHANGED <<rows, blob, file_count>>
    BY <1>0, <1>1
  <1>2. ASSUME NEW r \in Requests, PutBytes(r) \/ StorageFails(r)
        PROVE  file_count'[s] = Cardinality(Present(rows'[s]))
    BY <1>0, <1>2 DEF PutBytes, StorageFails
  <1>3. ASSUME NEW r \in Requests, SaveRow(r)
        PROVE  file_count'[s] = Cardinality(Present(rows'[s]))
    <2> DEFINE f == msg[r].filename
    <2>1. /\ Snap(r) \in Snapshots
          /\ f \in Files
          /\ msg[r].sha256 \in Digests /\ msg[r].sha256 # None
      BY <1>3, Target, NoneIsNew DEF SaveRow, Active, Critical, Uploading
    <2>2. CASE Snap(r) # s
      BY <1>0, <1>3, <2>2 DEF SaveRow
    <2>3. CASE Snap(r) = s
      <3>1. /\ seen[r].count = file_count[s]
            /\ seen[r].row <=> f \in Present(rows[s])
        BY <1>3, <2>1, <2>3 DEF SaveRow, FreshInv, Critical, Uploading, Present
      <3>2. Present(rows'[s]) = Present(rows[s]) \cup {f}
        BY <1>3, <2>1, <2>3 DEF SaveRow, Present
      <3>3. IsFiniteSet(Present(rows[s]))
        BY FilesFinite, FS_Subset DEF Present
      <3>4. Cardinality(Present(rows'[s])) =
              IF f \in Present(rows[s]) THEN Cardinality(Present(rows[s]))
                                        ELSE Cardinality(Present(rows[s])) + 1
        <4>1. Cardinality(Present(rows[s]) \cup {f}) =
                IF f \in Present(rows[s]) THEN Cardinality(Present(rows[s]))
                                          ELSE Cardinality(Present(rows[s])) + 1
          BY <3>3, FS_AddElement, Zenon
        <4>2. QED
          BY <3>2, <4>1
      <3>5. file_count'[s] = FileCount(r)
        BY <1>3, <2>1, <2>3 DEF SaveRow
      <3>6. QED
        BY <1>0, <2>3, <3>1, <3>4, <3>5 DEF FileCount
    <2>4. QED
      BY <2>2, <2>3
  <1>4. QED
    BY <1>1, <1>2, <1>3, Writers

\* file_count is the number of rows, although each handler writes a value it
\* computed from an earlier read.
THEOREM Counted == Spec => []FileCountExact
  <1>1. Init => FileCountExact
    <2>1. SUFFICES ASSUME Init, NEW s \in Snapshots
                   PROVE  file_count[s] = Cardinality(Present(rows[s]))
      BY DEF FileCountExact
    <2>2. Present(rows[s]) = {}
      BY <2>1 DEF Init, Present
    <2>3. QED
      BY <2>1, <2>2, FS_EmptySet DEF Init
  <1>2. QED
    BY <1>1, CountNext, Inductive, PTL DEF Spec

-----------------------------------------------------------------------------
(* The service implements SnapshotContract.                                *)

LEMMA StepSimulation ==
  IInv /\ [Next]_vars => [Contract!Next]_<<status, rows>>
  <1> SUFFICES ASSUME IInv, [Next]_vars
               PROVE  Contract!Next \/ UNCHANGED <<status, rows>>
    OBVIOUS
  <1> USE DEF IInv, TypeOK, db, Contract!Next, Contract!Advance
  <1>1. ASSUME NEW s \in Snapshots, NEW k \in Keys, StartSnapshot(k, s)
        PROVE  Contract!Next
    BY <1>1 DEF StartSnapshot
  <1>2. ASSUME NEW r \in Requests, SaveRow(r) PROVE Contract!Next
    <2>1. /\ Snap(r) \in Snapshots
          /\ msg[r].filename \in Files
          /\ msg[r].sha256 \in Digests
          /\ status[Snap(r)] = "open"
      BY <1>2, Target DEF SaveRow, FreshInv, Active, Critical, Uploading
    <2>2. Contract!Accept(Snap(r), msg[r].filename, msg[r].sha256)
      BY <1>2, <2>1 DEF SaveRow, Contract!Accept
    <2>3. QED
      BY <2>1, <2>2
  <1>3. ASSUME NEW r \in Requests, SealSnapshot(r) PROVE Contract!Next
    <2>1. Snap(r) \in Snapshots /\ status[Snap(r)] = "open"
      BY <1>3, Target DEF SealSnapshot, FreshInv, Active, Critical, Committing
    <2>2. Contract!Advance(Snap(r), "open", "committed")
      BY <1>3, <2>1 DEF SealSnapshot
    <2>3. QED
      BY <2>1, <2>2
  <1>4. ASSUME NEW r \in Requests, Parse(r)
        PROVE  Contract!Next \/ UNCHANGED <<status, rows>>
    <2>1. Snap(r) \in Snapshots /\ pc[r] \in Job /\ msg[r] \in Commit \cup Rerun
      BY <1>4, ParseFrame, Target DEF Active, MsgInv
    <2>2. CASE ParseSucceeds(r) \/ ParseFails(r)
      <3>1. PICK outcome \in {"parsed", "failed"} : ParseEnd(r, outcome)
        BY <2>2 DEF ParseSucceeds, ParseFails
      <3>2. CASE msg[r].op = "commit"
        <4>1. status[Snap(r)] = "committed" /\ seen[r].status = "committed"
          BY <2>1, <3>1, <3>2 DEF ParseEnd, JobInv, JobFacts
        <4>2. Contract!Advance(Snap(r), "committed", outcome)
          BY <3>1, <4>1 DEF ParseEnd, SetStatus
        <4>3. QED
          BY <2>1, <4>2
      \* A job that read "failed" writes "parsed" or nothing.
      <3>3. CASE msg[r].op = "rerun"
        <4>1. status[Snap(r)] \in {"failed", "parsed"} /\ seen[r].status = "failed"
          BY <2>1, <3>1, <3>3 DEF ParseEnd, JobInv, JobFacts
        <4>2. \/ UNCHANGED <<status, rows>>
              \/ Contract!Advance(Snap(r), "failed", "parsed")
          BY <2>1, <3>1, <4>1 DEF ParseEnd, SetStatus
        <4>3. QED
          BY <2>1, <4>2
      <3>4. QED
        BY <2>1, <3>2, <3>3 DEF Commit, Rerun
    <2>3. CASE ParseStart(r) \/ JobLost(r)
      BY <2>3 DEF ParseStart, JobLost
    <2>4. QED
      BY <1>4, <2>2, <2>3 DEF Parse
  <1>5. ASSUME NEW r \in Requests, Handle(r), ~SaveRow(r), ~SealSnapshot(r)
        PROVE  UNCHANGED <<status, rows>>
    BY <1>5 DEF Handle, PutBytes, StorageFails, FindRow, CompareManifest,
                ManifestMismatch, DbFails
  <1>6. QED
    BY <1>1, <1>2, <1>3, <1>4, <1>5
       DEF Next, vars, Receive, Admit, Refuse, Retrigger, Crash

\* For all values of the constants the handlers, jobs, re-triggers, failures
\* and crashes of the service are, seen from outside, steps of SnapshotContract:
\* no outcome is written over "parsed", although re-triggers may overlap.
THEOREM Refinement == Spec => ImplementsContract
  <1>1. Init => Contract!Init
    BY DEF Init, Contract!Init
  <1>2. QED
    BY <1>1, StepSimulation, Inductive, PTL
       DEF Spec, ImplementsContract, Contract!Spec
=============================================================================
