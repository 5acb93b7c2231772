# Sellers Dashboard: a TLA+ model

The product has three parts that talk to each other: an **agent** on the
customer's Windows machine (Go, with an older Python version of the same steps)
that watches a folder of Excel workbooks; a **backend** (FastAPI, PostgreSQL,
Redis, an S3-compatible object store) that takes the workbooks as *snapshots*,
parses them and keeps the figures; and a **dashboard** that shows one fiscal
year at a time. This directory models the path of a workbook from the folder to
the dashboard: what happens when requests are repeated or late, when handlers
and jobs interleave, when a statement, a process or the network fails.

Contents

1. Inventory: the parts of the system
2. Plan of the project
3. The modules
4. The runs
5. Bounds
6. Fairness
7. What is proved
8. Where code and documentation disagree
9. Assumptions, and what is not modelled

## 1. Inventory

### Snapshot ingestion (`backend/app/routers/ingest.py`)

State: `snapshots` (status, owner key, `file_count`, `total_bytes`,
`expires_at`), `snapshot_files` (one row per file name, with its sha256), the
object store under `<tenant>/<snapshot>/<file>`.

Operations: `POST /start`, `POST /{id}/file`, `POST /{id}/commit`,
`POST /heartbeat`. Each first runs `verify_agent`, which checks the signature
and assigns `api_key.last_used_at`.

Hard: an agent gives up after 60 s and repeats the request while the first one
is still being served, so two handlers of one snapshot run at once. Each of
them reads the status, then writes bytes, row and counters some awaits later.
Storage and database are not one transaction. The process may die anywhere.

Correct when: a committed snapshot never changes; `file_count` counts rows;
each row has its object; a commit starts one parse job, which works on the files
of the manifest; a snapshot that was parsed stays so; a handler never blocks the
key for good.

### Parse worker (`backend/app/workers/parse_snapshot.py`)

State: `projects`, `monthly_metrics`, `quarterly_metrics`, `overhead_detail`,
`snapshots.status`. Operation: `parse_snapshot_job`: fetch, parse, replace each
year (DELETE, INSERT), set "parsed", drop the cached payloads.

Hard: jobs run in RQ workers or in threads of the server, several at once; each
replaces whole years at READ COMMITTED; jobs may wait for each other; a job may
fail or die at any statement; the operator re-triggers failed ones.

Correct when: a year is from one snapshot, the latest one; nothing of a failed
job is visible; every job ends and its failure is on record.

### Workbook parser (`backend/app/services/parser.py`)

Pure: rows of a sheet to projects, monthly totals and overhead; files grouped by
year and merged; months, quarters and totals computed. Hard: months are told
apart only by counting header rows, two layouts are tried one after the other,
which row of a job wins, workbooks that cannot be read or have no year in their
name.

Correct when: every project row above its block's totals is in the register
with the month of that block, the last row of a job wins, no job is lost, and
months, quarters and totals add up.

### Agent (`go_agent/internal/{app,sync,state,uploader,watcher}`, `agent/src`)

State: `state.db` (sha256 last sent per file), the mutex of `Syncer`, the
requests under way. Operations: `SyncOnce` (diff, start, upload and record each
file, commit) from the watcher, the poll ticker and the start of the service;
`heartbeatLoop`, which runs a forced sync when the server asks for one.

Hard: files are saved while a sync runs; answers are lost after the server has
acted; retries repeat calls that took effect; the service is restarted between
two steps; a sync skipped because another one holds the mutex.

Correct when: `state.db` never claims more than the server accepted; a
committed snapshot is one state of the folder; a forced sync brings everything;
every sync ends; in the end the server has what the folder has.

### Dashboard and its cache (`backend/app/routers/dashboard.py`, `admin.py: flush_and_reload`)

State: Redis `dashboard:<tenant>:<year>:<accounting>` with a TTL of 60 s.
Operations: GET with cache, four SELECTs and SETEX; invalidation by a parse
job; the flush (four DELETEs, sync flags, invalidation, commit).

Hard: a reader spans invalidation and commit; its SELECTs see different
states; the flush races with the jobs its own signal brings.

Correct when: the cache ends up fresh; a payload does not run backwards; the
re-upload survives the flush that asked for it.

### API keys (`admin.py`: create, rotate, revoke, activate, reinstate)

State: `api_keys.revoked_at`. Hard: each handler reads keys, decides, and
writes several rows in one flush while others do the same. Correct when:
requests about keys never deadlock, and an activated key is the sole active one.

### Users, sessions, 2FA (`auth.py`, `admin.py`, `deps.py`)

State: `users`, `refresh_tokens` (families), TOTP secret, claims in access
tokens. Operations: login, refresh, logout, enroll and disable the second
factor; create, change and delete users. Hard: two administrators demote or
delete each other; the role in a token outlives the change; a refresh runs while
the sessions are revoked; two tabs refresh with one cookie. Correct when: a
tenant keeps an administrator; whoever makes a change exists; a session has one
live token; an ended session stays ended, and what survives a revocation was in
flight with it; the stored secret is the one the user was shown.

### Accounting modes (`services/accounting.py`)

Pure: `_factor` and `aggregate` by completion, next to the stored rows that
`raw` shows. Hard: three roll-ups of one year, computed separately in three
places. Correct when: they reconcile with each other and among themselves.

### Request admission (`ingest.py: verify_agent`, `services/rate_limit.py`, `uploader.py`)

State: nonces with a TTL and a sorted set per key in Redis; the attempts of the
agent's `with_retry` and its back-off. Hard: the skew window and the nonce's
TTL touch at their ends; the handlers of one key count and decide between each
other's steps; a refused request is counted as well. Correct when: a request is
let in once; no window has more than the limit; the back-off gets out of it.

### Seeding (`app/seed.py`, `app/seed_admin.py`, `lifespan`)

State: the demo year, the seeded administrator, the address that is removed.
Runs at every start of a server, beside the worker and the instance that is
replaced. Correct when: the year stays whole, and the start leaves the users it
is meant to leave.

### The rest

Settings, logging, static pages, the installer and the GUI of the agent, the
service wrapper, row-level security policies: no protocol of their own, or I/O
only. `PROJECT.json` lists each with the reason.

### How the parts interact

    folder --watch/poll--> SyncOnce --start,file,commit--> ingest --job--> parse_snapshot_job
                              ^                              |                 |        |
                       heartbeat: "sync now"           snapshot rows,      year rows  invalidate
                              |                         object store           |        |
    admin "request sync", flush_and_reload --flag--> Redis            GET /dashboard <-> cache

The hazards of each part, with the line where each bites and the property that
watches it, are listed in `PROJECT.json`.

## 2. Plan of the project

Done, in this order:

| module | what | composed with | proofs |
|---|---|---|---|
| `SnapshotContract` | abstract: what the ingestion service promises | - | |
| `SnapshotIngest` | handlers and jobs, detailed | implements `SnapshotContract` | `SnapshotIngestProofs` |
| `ParseWorker` | jobs and seed runs that replace years | takes over where `SnapshotIngest` hands over | `ParseWorkerProofs` |
| `AgentSync` | agent, network, server | uses `SnapshotContract` as its server | `AgentSyncProofs` |
| `DashboardCache` | readers, cache, jobs, flush | jobs of `ParseWorker`, one at a time | `DashboardCacheProofs` |
| `TenantAdmin` | users and keys under concurrent requests and starts | - | `TenantAdminProofs` |
| `Figures` | rows of workbooks to figures in three accounting modes | details what `ParseWorker` takes as the rows of a year | `FiguresProofs` |
| `Sessions` | refresh tokens and the second factor of a user | the requests of `TenantAdmin` that revoke sessions | `SessionsProofs` |
| `Admission` | which requests of an agent are let in | what lets in the requests of `AgentSync` and `SnapshotIngest` | `AdmissionProofs` |

An `MC` module beside each gives the constants of its runs.

Left, most important first:

1. An abstract `Delivery` ("the dashboard shows a folder there has been") that a
   forced sync followed by a serial parse implements.
2. Registration of tenants (two requests with one slug), the e-mail and address
   limits of login.

## 3. The modules

Names follow the code. A definition's lines are in `PROJECT.json`, `map`. A
definition commented `fault:` is not part of a specification: it is what a
definition might wrongly have been, and replacing the definition by it makes a
property fail, so that the property is known to depend on it.

**`SnapshotContract`** is the ingestion service as an agent and the parser may
rely on it: a status that moves one way (`Advance`) and a list of files that
grows while the snapshot is open (`Accept`). A failed snapshot may still be
parsed, for the operator may call the job again (docs/admin-runbook.md:37); a
parsed one stays parsed. No handlers, locks or storage.

**`SnapshotIngest`** has one `pc` per request. `Receive` to `Admit` or `Refuse`
is `verify_agent` and the checks of the handler, then one action for each
stretch between awaits: `PutBytes`, `FindRow`, `SaveRow` for an upload,
`CompareManifest` and `SealSnapshot` for a commit, `ParseStart`/`ParseEnd` for
the job it starts or that the operator calls again for a failed snapshot
(`Retrigger`). A job's UPDATE has the columns whose value is another than the one
the job has read (SQLAlchemy leaves out the others), so of two re-triggers that
overlap the one that fails sets nothing (`SetStatus`): this is why a parsed
snapshot stays so, and `AlwaysSet` shows what happens otherwise. A manifest
entry without a sha256 meets whatever was uploaded (`Meets`, "any"). `lock` is the row lock on the API key: `verify_agent`
assigns `last_used_at`, and the session's autoflush turns this into an UPDATE
before the handler's first SELECT, so from then to the end of the transaction
the handlers of one key are one at a time (`Acquire`, `Release`). This is the
mechanism on which most of the module's properties rest, and nothing in the
code names it as one: `NoAutoflush` shows what breaks without it.
`StorageFails`, `DbFails`, `JobLost` and `Crash` are the failures. `seen` is
what a handler has read and will use after awaits. Two histories say what a job
should find: `promise` is the manifest of the commit, and `unsaved` has the files
whose object was put and whose row was not written since.

**`ParseWorker`** starts where a snapshot is committed. One action per SQL
statement, except that the tables of metrics and of overhead are one (three
DELETEs), and that the INSERTs of a year's four tables are one step. Every
replacement writes all twelve months and four quarters, whose primary keys are
unique, and all jobs meet the tables in one order: of two that insert a year one
waits for the other, or fails, in either form, and what it had inserted by then
is seen by nobody. A DELETE is two actions, for at READ COMMITTED it picks its rows when it
starts (`DeleteStarts`), waits for those that another transaction is deleting,
and deletes what is left of them (`DeleteEnds`). `Insert` waits for, or fails
on, a row with its unique key. `todo` holds the years the parser returns, with
the parser's grouping, its order, and its merge of files (`YearRows`).
`BreakDeadlock` is PostgreSQL's detector, `Rerun` the runbook's re-trigger. A
member of `Boots` is a start of a server: its seed run (`Seed`) replaces
`SeedYear` by the same DELETEs and INSERTs, beside the jobs. `AtOnce` bounds
what overlaps; `overlap` remembers whether anything has.

**`AgentSync`** is `SyncOnce` as a `pc` under the mutex, the heartbeat loop as a
second thread (`beat`) that runs a forced sync itself, the network as a set of
requests of which at most one is waited for (`live`), and the server as
`SnapshotContract`, with the parse of a committed snapshot done at once
(`Published`). A sync lists the folder (`Begin`), hashes one file after the other
(`Hash`, in the order of `FirstOf`) and then decides whether there is anything to
send (`Compare`). `Save` edits the folder at any moment, also between two hashes;
`UploadFile` reads the file again for each attempt (`Payload`), the hash is that
of the comparison (`Sha`). The history `during` collects the states the folder
was in while a sync hashed it, and `moments` keeps them for its snapshot. The
heartbeat is one step: its request, the flag it takes and the answer, which may
be lost.

**`DashboardCache`** has the year's rows as two tables with the number of the
job that wrote each, the readers' SELECTs in the order of the code (`Selects`),
the cache entry, jobs one at a time, and `flush_and_reload`.

**`TenantAdmin`** has a request as a transaction: it reads its target (`Read`,
or `ReadAddress` for an invitation), decides (`Decide`, with the
last-administrator rule), and takes the row locks of its flush one by one
(`Take`) before `Commit`. The audit row that every change inserts shares the
acting user's row, by its foreign key (`Audited`). `asAdmin` are the access
tokens that say "admin", whatever the row says. A "boot" is `seed_admin.main`:
it finds its user by address, resets or creates it, and then deletes the address
that is to be removed (`Sweep`). An address is unique in a tenant, so an INSERT
waits for one that has inserted or deleted it (`SameAddress`).

**`Figures`** reads the rows of the year's workbooks one at a time with the
flags of `parse_project_list_blocks`; `Close` is the rest of `parse_workbook`
and the loop body of `parse_files_for_year`; `Publish` is its end and the
worker's store. `Dashboard(mode)` is what GET /api/dashboard computes. `Kept`
and `Reported` say without a scan what the rows of a workbook mean. Where the
parser sorts or updates a dictionary the module says what comes out
(`Ascending`, `Over`), so that a proof can follow it.

**`Sessions`** is one user: no statement of these handlers touches rows of two.
A request is a transaction; `ReadToken`, `GetUser` and `ReadUser` are its reads,
`Rotate`, `Issue` and `LockUser` the statements of its flush, `Pick`,
`WriteRow` and `Written` an UPDATE or DELETE of several tokens, which picks its
rows when it starts and meets them in any order. `enroll_2fa` answers with the
secret after its commit (`Show`), and `Fails` may take the answer away: `shown`
has the secrets the user has seen, `lost` those that were stored and not seen. `lock` has the lock modes of
the user's row, shared by the foreign key of a new token (`Conflict`). `with`,
`twice` and `raced` remember which requests overlapped.

**`Admission`** has the server's clock in whole seconds, the agent's offset to
it, the agent's calls under `with_retry` (`Call`, `Retry`, `Exhausted`, `Delay`)
next to the heartbeat's ticker, a network that loses, keeps and repeats
requests, and `verify_agent` in two actions: up to the nonce (`Receive`), and
the count (`Enforce`), between which other requests get on.

## 4. The runs

| run | shows |
|---|---|
| `ingest` | Three requests of one agent on one snapshot, every interleaving, storage and database failures, crashes and re-triggers. A sealed snapshot is frozen, counters are exact, rows are stored, a commit starts one job, which reads what was compared, each request is answered, and all of it is a behaviour of `SnapshotContract`. |
| `parse` | Two jobs that replace two years in opposite orders, a start that seeds one of them, failures at each statement, kills, a re-trigger: a year with projects has exactly one set of metrics, only what ended well shows, every job and start ends; as long as nothing has overlapped a year is of one snapshot, the newest with files for it; and no job number of a file is lost. |
| `parse_mixed` | Finding: two jobs at once leave a year made of both snapshots. |
| `agent_sync` | A save and a click at any moment, also while the files are hashed, lost, repeated and late requests, restarts: `state.db` stays behind the server, a committed snapshot is one moment of the folder, a forced one has all of it, every sync ends. |
| `agent_lost` | Finding: a save that never arrives. |
| `agent_year` | Finding: a year loses the workbooks that were not changed. |
| `cache` | Two jobs, a flush, two readers: metrics never older than the projects beside them, the re-upload survives the flush, the cache ends up fresh. |
| `tenant_admin` | Two administrators' requests, or one and a start, on three users and two keys: no deadlock over keys, lock-out only by overlap or a start that removes an address, the acting user exists at the commit, an activation alone leaves one key, a start alone leaves the users it is to leave. |
| `sessions` | Two of three requests on one user at a time, at the granularity of rows: one live token per session, an ended session stays ended, what survives a revocation was in flight with it, a deleted user has no session, circles of waiting need a deletion or a reuse, the stored secret was shown or its answer was lost, every request ends. |
| `admission` | Calls with retries next to heartbeats, lost, late and repeated requests: a request is let in once, no window exceeds its limit, and a back-off as long as the window gets out of the limit. |
| `figures` | Every sheet of up to five rows in one or two workbooks: the scan agrees with the definition by blocks, the latest row of a job wins, months, quarters, totals and modes reconcile. |
| `figures_stray` | Finding: skipped rows become projects. |

`CHECK_DEADLOCK FALSE` everywhere: requests, jobs, saves, seconds and rows are
bounded, so each system may run out of things to do. What must not be stuck is
stated as a property (`Answered`, `EveryJobEnds`, `EverySyncEnds`,
`EveryRequestEnds`, `KeysNeverDeadlock`). Type correctness is proved for all
modules but `Figures` (7), and only the run of that one repeats it.

## 5. Bounds

- `ingest`: one key, one snapshot, two files with two digests, three requests.
  Three is an upload, its repetition and a commit, or an upload between two
  commits; handlers of different keys or snapshots share nothing but the
  process. The safety properties are proved for any number (7).
- `parse`, `parse_mixed`: two snapshots and one start, of which any two overlap:
  two transactions can meet on a row, and a third would meet the same two. The
  snapshots replace two years in opposite orders, one of them is seeded. Two job
  numbers, four workbooks (two of one year, one of the next, one with no year).
  `Reruns` bounds the operator. For more, see 7.
- `agent_*`: two files of one year, two digests, two snapshots, one save, one
  click. `Tries` is 2 for an upload and a commit and 1 for a start (3, 6 and 6 in
  the code; 2 for all in the two findings): the second attempt is the one that
  may meet the effects of the first, such as the 409 of a commit whose answer was
  lost. One save cannot tear a snapshot; with two (8.5 million states, not among
  the runs) the invariants hold as well, and they are proved for any number (7). `Late` bounds the requests the network
  keeps after the agent gave up.
- `cache`: two jobs before, during or after the flush; two readers, one that
  fills and one that is late.
- `tenant_admin`: three users, of which two may have one address after each
  other, two requests (the locks of a third would only add waiting), two keys
  where their order matters.
- `sessions`: three requests, two at once, on a user with one token: a rotation,
  then its reuse next to a third request.
- `admission`: a window of 2 s and a limit of 4 for 60 s and 60; delays of 1 and
  2 s, the second as long as the window; calls of 2 and 3 attempts, which end
  before and after it; a heartbeat every 2 s; six requests in 4 s. With a limit
  of 3 the heartbeats and the attempts of the call alone fill the window and
  `BackoffOutlastsLimit` fails (`Room` excludes it): the code's 60 are far from that.
- `figures`: two months in two quarters, so that the third block is past
  "December" (a quarter of several months is only in the proofs); five rows are
  two blocks with a repeated job, or three blocks and a stray row; three kinds of
  project row (done with derived profit, half done, nearly done without a
  contract and with a month cell that does not hold a month); two overhead columns, one cut short,
  one with a month twice.

Symmetry is used only in runs without liveness properties and only over sets no
definition tells apart (not over `Files` of `AgentSync`, which are ordered, nor
`Keys` of `TenantAdmin`). The run `agent_sync` has a liveness property; its
specification `MCSpec` starts, of the folders that differ only in the names of
the digests, with one (`OneOfEachKind`).

## 6. Fairness

- `SnapshotIngest`: weak fairness of each handler and job (the event loop goes
  on with a coroutine whose await is done, which may be by failing), strong
  fairness of `Admit`/`Refuse` per request: PostgreSQL queues those that wait
  for a row, so a waiting handler is served if the row is free again and again.
  None for failures, crashes or arrivals.
- `ParseWorker`: weak fairness of each job's steps, and of the deadlock
  detector, which PostgreSQL runs after `deadlock_timeout`.
- `AgentSync`: weak fairness of the sync's own steps: a goroutine that is not
  blocked runs, an attempt ends by an answer, an error or the client's 60 s
  timeout, and `WithRetry` counts its attempts. None for the server, the
  network, the user or the heartbeat.
- `DashboardCache`: jobs, the flush and readers are coroutines or threads that
  end; `Expire` is Redis's TTL.
- `Sessions`: weak fairness of each request's steps, since a handler goes on when
  its statement can, and of the deadlock detector. None for `Fails` otherwise.
- `TenantAdmin`, `Figures` and `Admission`: safety only. The retries of
  `Admission` are bounded by `with_retry`, and time is in its guards.

## 7. What is proved

Eight modules `...Proofs`, with TLAPS, for any values of the constants that
satisfy the modules' named assumptions (`Shape` and its like): sets of any size (finite where something is
counted), bounds and limits any natural numbers, `None` not a value of the other
constants. Each proves that an invariant whose parts are named holds initially
and is kept by every step, one lemma per part and in it one step per action;
the theorems follow from it. The invariants were checked by TLC on the instances
of the runs before they were proved.

Type correctness (`TypeCorrect`) is proved in all eight. It is hardly ever
inductive by itself, since a handler indexes functions with what its request
says.

**`SnapshotIngestProofs`**. `MsgInv`: a request that is served is about a
snapshot that was started, which has an owner. `LockInv`: a handler between its
status check and its end holds the row of its key; a snapshot has one owner, so
no two such handlers share a snapshot (`Exclusive`). `FreshInv`: what such a
handler has read is still so. This is what fails without the lock. `JobInv`: the snapshot of a job that a commit started is "committed" and has no
other job, and a snapshot that is sealed has the rows its manifest promised and
the objects its rows name, but for the files of `unsaved`. From these: `Frozen`,
`Counted`, `Stored`, `JobsRead`, `JobsOwn` (while such a job is open nobody else
writes the snapshot's status), `JobsOnce`, and `Refinement`: `SaveRow` is
`Accept`, `SealSnapshot` and the ends of a job are `Advance`, all else stutters.
That the end of a re-trigger is one needs what it has read: "failed", and a
status that was "failed" can only have become "parsed" since.

**`ParseWorkerProofs`**. For jobs that overlap: `KeyInv` (two jobs never insert
one key nor delete one row, and what a job inserts does not clash with what is
committed but for what it has deleted itself) and `MetricsInv` (a year a job has
touched has its metrics, from this job, or it is the year in hand) give
`Complete`: a commit replaces whole sets of metrics by whole sets. The unique
key and the wait for a deleted row carry this; no part of it is about order.
For jobs that do not overlap: `Replaces` (what a job has inserted is of years in
which nothing else is visible to it, and at each stage of the DELETEs what is
left of the year is known) gives `SerialYear`; `OrderInv` (the queue is the end
of the history of commits, and the running job is the one before it) with
`YearsInv` (each year of a job is inserted or will be) gives `Latest`. `KeptInv`
gives `Kept`: the last of the files with a job number exists because files are
finitely many (`LoadKeeps`), and no group of a snapshot deletes another's rows
because their years differ, which is what `TwoGroupsOfOneYear` excludes.

**`AgentSyncProofs`**. All goes by the hashes a sync has taken: a request
carries the hash and bytes that were read later, and the server takes bytes only
under their own hash, so what a request may still bring, however late, is what
was hashed. `HashInv`: each hash was that of the file in some state the folder
had during the hashing. Where at most one file was saved meanwhile the others are
the same in all of those states, so one state has all that was hashed. Hence
`Recorded`, `Cut`, `Forced`.

**`DashboardCacheProofs`**. The rows of a table are from jobs that have
committed, which run one after the other, and rows that a writer has deleted
and not committed stay what they are, since the job after it waits
(`OrderInv`, `HoldInv`). So what a reader meets gets newer from one SELECT to
the next: `GoesForward`. The flush has deleted what it deletes before it signals
the agents (`FlushInv`): `ReloadKept`.

**`TenantAdminProofs`**. The row of the acting user is shared until the commit,
so nobody has deleted it (`Accountable`); a request that nothing overlapped
commits on the rows it has read (`Lockout`, `BootLeaves`, `Activated`); what a
request about keys has locked comes before what it needs, so of two that waited
for each other each would have the smaller key (`KeysInOrder`).

**`SessionsProofs`**. A request that has inserted a token holds a lock that
excludes the deletion of the user (`DeletedUser`). A rotation in flight is the
only one of its family and on the only token of it that is alive, unless two had
the same token (`OneLive`, `Ended`). Each token but the first ones was made by a
request of its own, and a request that has not made one finds one left
(`Supply`, by counting); `Survivors` says which those are after a revocation.
`SecretShown` for the second factor: a request that has decided on a secret it
has read is not overtaken by one that changes it (`EnrolInv`, unless `raced`), and
a stored secret was shown, or its answer is under way or lost. In a circle without a deletion or a reuse
whoever is waited for is an update that writes tokens; it has the user's row, so
there is one, and it would wait for another (`NoDeadlock`).

**`AdmissionProofs`**. What was let in within the window is still in the sorted
set when the next request is counted (`WithinLimit`, for any order of the
handlers); a request that is received again while its stamp is good meets its
nonce, which was set after it was signed and is kept for twice the skew
(`LetInOnce`, from `NonceOutlivesStamp`). Whoever waits for an answer has sent
the request in this second (`AwaitInv`), and whoever sleeps wakes a delay after
all it had sent (`SleepInv`); until then there are only heartbeats, one for each
tick of the ticker but for one that was due before (`BeatsInv`). So an attempt
after a delay as long as the window shares it with the heartbeats of a window
(`ClearInv`) and with what has come late, of which there is no more than
`copies` (`LateInv`): `BackoffSuffices`. It needs that delays grow (`Growing`,
as the six of `with_retry` do: the delay that is long enough need not be the
last one otherwise) and that the limit has room for that (`Room`): 60 against
the attempt, two heartbeats in a minute, one that was due, and up to 56 requests
that come late or twice. The run's limit is the smallest that satisfies `Room`.

**`FiguresProofs`**, for any number of workbooks and rows, any calendar and any
amounts (`Data`: an amount is a number, or None, which is not one; a job and a month
cell may be anything). The inductive invariant `YearInv` has three parts beside the types. `Scan`: the
month counts the headers that were read and the flag is up where the last block
has its totals; this is what makes `found` and `reported` grow with `Kept` and
`Reported` (`KeptGrows`, `ReportedGrows`: a row at the end changes no earlier
row's block). `YearIs`: the year's rows are the contents of its workbooks, one
after the other, and what a month reports comes from one of them. `Published`:
the stored figures were computed from that. From these: `ScanReadsBlocks`;
`RegisterIsLatest`, since the last rows of the jobs are as many as there are
jobs; `PagesAddUp`, since a sum over the months is the sum of the quarters'
sums (`SumByQuarter`) and a sum over projects may be taken month by month
(`SumByMonth`); `TidyYearsAgree`, since in such a year each month has what its
projects sum up to, whichever of the two the parser took (`TidyMonths`).

The sums are folds over finite sets, and rows are sequences of any length, so
these proofs rest on inductions. The library states induction for a predicate,
which the provers cannot instantiate; `NumberInduction` and `SetInduction` restate it
for a set of numbers and of sets, from the fact that there is a least member,
and the folds are unfolded with them once (`SumNext`, `FlattenAppend`).

Only model-checked: liveness (`Answered`, `EveryJobEnds`, `EverySyncEnds`,
`EventuallyFresh`, `EveryRequestEnds`; temporal reasoning with ENABLED is out of
the prover's reach).

## 8. Where code and documentation disagree

With a run that ends in the state described (`findings` in `PROJECT.json`):

1. `parse_mixed`: two jobs at once leave a year that is of two snapshots
   (`parse_snapshot.py:75`; PLAN.md:247 "deletes existing year data, inserts
   fresh rows"). It takes two workers or the inline mode's threads, disjoint
   job numbers, and a first DELETE that picks its rows before the other commits.
2. `agent_lost`: `state.db` is updated after each upload (`sync.go:163`), before
   the commit. When the commit fails for good, the file is never sent again
   until it is changed or a sync is requested.
3. `agent_year`: a snapshot of one changed workbook replaces the whole year
   (`parse_snapshot.py:75`); the other workbooks of that year are gone from the
   dashboard (docs/customer-install.md:49).
4. `figures_stray`: `parse_workbook` reads a workbook without a project row in
   its blocks again as the legacy layout (`parser.py:444`), whose header test a
   block's header passes. A year just begun, with the headers of its blocks and
   no job, shows a project "JOB #", named "PROJECT NAME"; rows below the totals,
   which `parser.py:247` says are skipped, come back. The run has such a row; the
   property leaves the headers aside.

Seen while modelling, in the model, with no run of their own:

5. A statement that fails inside the job's transaction makes the handler's own
   `snap.status = "failed"; commit` fail as well (no rollback before it,
   `parse_snapshot.py:164`): the snapshot stays "committed", where PLAN.md:249
   has it end as failed. `InsertFails` and `StatementFails` leave the status.
6. `_download_to` writes the files in the order of a SELECT without ORDER BY
   (`parse_snapshot.py:38`), so the mtimes by which the parser merges
   (PLAN.md:238, docs/customer-install.md:49) are not the customer's. `Orders`
   is any order.
7. A workbook that cannot be read still yields twelve months, so the guard "no
   data, skipping" (`parse_snapshot.py:71`) is never taken, and the year is
   replaced by an empty one.
8. A workbook with no year in its name is a group of its own for the current
   year (`parser.py:592`), applied after, and instead of, the workbooks that
   have that year in theirs.
9. Two parse jobs that overlap may end in the other order
    (`parse_snapshot.py:139`): then the older snapshot stays, where
    agent/README.md:38 promises the latest data.
10. The manifest's deleted files are skipped by the server (`ingest.py:251`)
    and forgotten by the agent (`sync.go:112`): their figures stay.
11. A requested sync is dropped when the mutex is taken (`sync.go:96`) or the
    heartbeat's answer is lost (agent/README.md:36 has it run).
12. `expires_at` is returned and not stored (`ingest.py:155`; PLAN.md:145).
13. A reader that spans an invalidation fills the cache with the old year for up
    to 60 s (`dashboard.py:177`; PLAN.md:248, docs/customer-install.md:55).
    `flush_and_reload` invalidates before it commits (`admin.py:307`).
14. A job that commits between two DELETEs of the flush (`admin.py:285`,
    `admin.py:292`) keeps its projects and loses its metrics.
15. Two activations that overlap leave both keys, or none, active
    (`admin.py:169` "sole active one"). `ActivatedIsSole` is about one alone.
16. accounting.py says raw is "identical" to the sum over projects, and closeout
    counts `pct_compl == 1`. Gross profit comes from totals rows (one per block
    and, of two workbooks, from the later one), sales from projects that are
    counted once: with a repeated job or a second workbook they are not of the
    same projects. `TidyYearAgrees` says when they are. The threshold is 0.99.
17. `_admin_count` locks nothing (`admin.py:495`): two demotions that overlap
    both count two administrators and leave none (`admin.py:499`).
    `LockoutNeedsOverlap` says that it takes an overlap, or what 18 describes.
18. With SEED_RESET_PASSWORD off and the seeded administrator demoted, a start
    deletes SEED_REMOVE_EMAIL without counting (`seed_admin.py:127`): it can
    remove the last administrator, where `seed_admin.py:7` has an admin
    "always".
19. `_revoke_sessions` ("Force a user to re-authenticate", `admin.py`) revokes
    what it sees: a rotation in flight inserts its token afterwards
    (`auth.py:249`) and the session goes on. So does one that is in flight with
    the reuse of its family's token. Two tabs that refresh with one cookie leave
    two live tokens of one family.
20. A secret is "activated only when verified" (`auth.py:293`), but login asks
    for a code at once (`auth.py:193`). `enroll_2fa` commits before it answers
    (`auth.py:294`): when the answer is lost (the browser is gone, the process
    dies) a secret is stored that nobody has seen, a login needs a code nobody
    can give, and a retry is 400 `already_enrolled`. `SecretIsTheOneShown` has
    this as one of its cases (`lost`). Two enrolments that overlap show two
    secrets, of which one is stored (`raced`).
21. Registration looks for `email_in_use` in the tenant it has just created
    (`auth.py:147`), so it never finds one; an address in two tenants makes
    login's `scalar_one_or_none` raise. Two registrations with one slug: the
    unique key makes the second a 500.
22. `delete_user` locks the user and then the tokens, a rotation the token and
    then the user: they may wait for each other, and PostgreSQL ends one.
23. An upload has three attempts with waits of 1 and 5 s (`uploader.py`), so in a
    folder of more files than the limit of a minute the file after the 60th
    fails on 429 and ends the sync, whose first files then count as sent (2).
24. The object of an upload is put before its row is written (`ingest.py:197`),
    under a key without the digest. When a second version of a file is put and
    the handler then fails or dies, the object is newer than the row; a commit of
    the first version passes, since it compares rows (`ingest.py:266`), and the
    job parses the second (`parse_snapshot.py:38`). `JobReadsManifest` says that
    this is the only way to parse other bytes (`unsaved`). An agent does this
    only if it uploads a file twice in one sync and commits the first version,
    which `SyncOnce` does not.
25. `SyncOnce` hashes the files one after the other (`sync.go:110`). When two
    files are saved between their hashes, one is hashed as it was before and the
    other as it is after, which is no state the folder was in meanwhile. Such a
    snapshot is committed if the first file is back as it was when it is
    uploaded, and fails otherwise (400). `CommittedIsACut` excludes this case.
26. `upload_file` and `commit_snapshot` check that a snapshot is one of the tenant,
    not that it is one of the request's key (`ingest.py:180`, `ingest.py:241`). With
    another key of the tenant a handler would hold another key's row, and nothing
    would keep it apart from the snapshot's other handlers. Agents never send
    that (9).
27. A row between the headers that looks like one moves every later month of its
    workbook by one (`parser.py:212`), since nothing but their number tells them.

## 9. Assumptions, and what is not modelled

- PostgreSQL: READ COMMITTED; a DELETE or UPDATE waits for a row lock and then
  sees the row's committed version; an INSERT waits for a transaction that
  holds its key; deadlocks are detected.
- The object store's put is atomic, and an object that was put can be read.
- A snapshot's requests carry the key it was started with (`Own`): an agent has
  one key and sends to the snapshot its own start has returned. The server checks
  the tenant only (8.26). Keys of a tenant are otherwise independent.
- The UPDATE of a job has the columns whose value has changed since they were
  read, as SQLAlchemy does it (`SetStatus`).
- Inline parsing (a thread of the server) and RQ are one queue with a number of
  workers. A job handed over may be lost (`JobLost`) or killed.
- Hashing one file is one step, the listing of the folder another; watcher, poll
  ticker and start-up are one action that may happen at any time.
- In `AgentSync` the parse of a committed snapshot follows at once and succeeds;
  in `DashboardCache` jobs run one at a time. What happens otherwise is in
  `ParseWorker`.
- In `TenantAdmin` the locks on refresh tokens, taken after that of the user, are
  left out (they are in `Sessions`), and a password only counts as a change that
  is not one of the role.
- In `Sessions` access tokens are left out (they are in `TenantAdmin`), passwords
  and codes are right or the request fails. Nobody gives a right code of a secret
  that was not shown.
- In `Admission` a request is served within the second in which it is sent,
  unless it is late; Redis executes one command or pipeline at a time.
- In `Figures` amounts are exact and margins are left out; a database column's
  rounding is not modelled. Turning a cell's text into a number, recognising a
  header's wording and reading a year out of a file name are inputs.
- Not modelled: two sites of one tenant, row-level security (the policies do not
  bind the role that owns the tables), the registration of a tenant, the
  creation of the demo tenant and member, `verify_2fa` and `me`, signature checks
  (agents sign), credentials, installers, the service wrapper and the user
  interface. `PROJECT.json` gives the reason for each.
