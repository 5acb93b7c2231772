--------------------------- MODULE DashboardCache ---------------------------
(***************************************************************************)
(* One year of one tenant on the dashboard: GET /api/dashboard with its    *)
(* cache (backend/app/routers/dashboard.py), while parse jobs replace the  *)
(* year (workers/parse_snapshot.py) and the administrator flushes it       *)
(* (routers/admin.py, flush_and_reload).                                   *)
(*                                                                         *)
(* The rows of a table carry the number of the job that inserted them.     *)
(* Every statement reads what is committed when it starts (READ            *)
(* COMMITTED); a DELETE then waits for rows another transaction has        *)
(* deleted, and leaves out those that are gone.  Jobs run one at a time,   *)
(* and ParseWorker is about those that do not.                             *)
(***************************************************************************)
EXTENDS Naturals

CONSTANTS
  Jobs,     \* bound: parse jobs are 1..Jobs
  Readers,  \* requests for this year under way at once
  Flush,    \* the one flush request
  None

ASSUME Shape == Jobs \in Nat /\ Flush \notin 1..Jobs /\ None \notin Nat

Writers == 1..Jobs \cup {Flush}
Tables == {"projects", "metrics"}

VARIABLES
  rows,         \* committed rows: the job they are from, or None
  pc,           \* how far a job or the flush is
  picked,       \* the DELETE of a writer has picked its rows ...
  target,       \* ... which are these
  holds,        \* the tables whose committed rows a writer has deleted
  cache,        \* the payload under dashboard:<tenant>:<year>:<accounting>
  at,           \* how far a reader is
  got,          \* what it has read
  signalled,    \* the agents have been asked for a full re-upload
  reloads       \* history: jobs begun after the flush had signalled the agents

db      == <<rows, pc, picked, target, holds>>
reading == <<cache, at, got>>
history == <<signalled, reloads>>
vars    == <<db, reading, history>>

-----------------------------------------------------------------------------
Payload == [Tables -> 1..Jobs \cup {None}]
Empty == [t \in Tables |-> None]

TypeOK ==
  /\ rows \in Payload
  /\ pc \in [Writers -> {"begin", "insert", "invalidate", "signal", "drop",
                         "commit", "done"} \cup Tables]
  /\ picked \in [Writers -> BOOLEAN]
  /\ target \in [Writers -> 1..Jobs \cup {None}]
  /\ holds \in [Writers -> SUBSET Tables]
  /\ cache \in {p \in Payload : p["projects"] # None} \cup {None}
  /\ at \in [Readers -> {"idle", "store"} \cup Tables]
  /\ got \in [Readers -> Payload]
  /\ signalled \in BOOLEAN
  /\ reloads \subseteq 1..Jobs

Init ==
  /\ rows = Empty
  /\ pc = [w \in Writers |-> "begin"]
  /\ picked = [w \in Writers |-> FALSE]
  /\ target = [w \in Writers |-> None]
  /\ holds = [w \in Writers |-> {}]
  /\ cache = None
  /\ at = [r \in Readers |-> "idle"]
  /\ got = [r \in Readers |-> Empty]
  /\ signalled = FALSE /\ reloads = {}

Goto(w, label) == pc' = [pc EXCEPT ![w] = label]

\* DELETE FROM t: pick the rows, then take them.
DeleteStarts(w, t) ==
  /\ pc[w] = t /\ ~picked[w]
  /\ picked' = [picked EXCEPT ![w] = TRUE]
  /\ target' = [target EXCEPT ![w] = rows[t]]
  /\ UNCHANGED <<rows, pc, holds, reading, history>>

DeleteEnds(w, t, next) ==
  /\ pc[w] = t /\ picked[w]
  /\ target[w] # None => \A q \in Writers \ {w} : t \notin holds[q]
  /\ holds' = IF target[w] # None /\ target[w] = rows[t]
              THEN [holds EXCEPT ![w] = @ \cup {t}] ELSE holds
  /\ picked' = [picked EXCEPT ![w] = FALSE]
  /\ target' = [target EXCEPT ![w] = None]
  /\ Goto(w, next)
  /\ UNCHANGED <<rows, reading, history>>

Rollback(w) ==
  /\ picked' = [picked EXCEPT ![w] = FALSE]
  /\ target' = [target EXCEPT ![w] = None]
  /\ holds' = [holds EXCEPT ![w] = {}]
  /\ Goto(w, "done")
  /\ UNCHANGED <<rows, reading, history>>

-----------------------------------------------------------------------------
(* A parse job.                                                            *)

Begin(j) ==
  /\ pc[j] = "begin"
  /\ \A i \in 1..(j - 1) : pc[i] = "done"
  /\ Goto(j, "projects")
  /\ reloads' = IF signalled THEN reloads \cup {j} ELSE reloads
  /\ UNCHANGED <<rows, picked, target, holds, reading, signalled>>

JobNext == [projects |-> "metrics", metrics |-> "insert"]

\* The INSERTs and the commit.
Apply(j) ==
  /\ pc[j] = "insert"
  /\ rows' = [t \in Tables |-> j]
  /\ holds' = [holds EXCEPT ![j] = {}]
  /\ Goto(j, "invalidate")
  /\ UNCHANGED <<picked, target, reading, history>>

JobFails(j) == pc[j] \in Tables \cup {"insert"} /\ Rollback(j)

Invalidate(j) ==
  /\ pc[j] = "invalidate"
  /\ cache' = None
  /\ Goto(j, "done")
  /\ UNCHANGED <<rows, picked, target, holds, at, got, history>>

\* Invalidation is best-effort.
InvalidateFails(j) ==
  /\ pc[j] = "invalidate"
  /\ Goto(j, "done")
  /\ UNCHANGED <<rows, picked, target, holds, reading, history>>

Job(j) ==
  \/ Begin(j)
  \/ \E t \in Tables : DeleteStarts(j, t) \/ DeleteEnds(j, t, JobNext[t])
  \/ Apply(j) \/ JobFails(j) \/ Invalidate(j) \/ InvalidateFails(j)

-----------------------------------------------------------------------------
(* flush_and_reload: delete, signal the agents, drop the cache, commit.    *)

SignalFirst == \* fault: the agents are signalled before the rows are deleted
  [begin |-> "signal", signal |-> "projects", projects |-> "metrics",
   metrics |-> "drop", drop |-> "commit"]
FlushNext ==
  [begin |-> "projects", projects |-> "metrics", metrics |-> "signal",
   signal |-> "drop", drop |-> "commit"]

FlushBegins ==
  /\ pc[Flush] = "begin"
  /\ Goto(Flush, FlushNext["begin"])
  /\ UNCHANGED <<rows, picked, target, holds, reading, history>>

\* From here on a heartbeat may bring a full re-upload (see AgentSync).
Signal ==
  /\ pc[Flush] = "signal"
  /\ signalled' = TRUE
  /\ Goto(Flush, FlushNext["signal"])
  /\ UNCHANGED <<rows, picked, target, holds, reading, reloads>>

\* Redis may fail; then the payloads stay.
DropCache ==
  /\ pc[Flush] = "drop"
  /\ cache' \in {None, cache}
  /\ Goto(Flush, FlushNext["drop"])
  /\ UNCHANGED <<rows, picked, target, holds, at, got, history>>

FlushCommits ==
  /\ pc[Flush] = "commit"
  /\ rows' = [t \in Tables |-> IF t \in holds[Flush] THEN None ELSE rows[t]]
  /\ holds' = [holds EXCEPT ![Flush] = {}]
  /\ Goto(Flush, "done")
  /\ UNCHANGED <<picked, target, reading, history>>

FlushFails == pc[Flush] \notin {"begin", "done"} /\ Rollback(Flush)

FlushReload ==
  \/ FlushBegins
  \/ \E t \in Tables : DeleteStarts(Flush, t) \/ DeleteEnds(Flush, t, FlushNext[t])
  \/ Signal \/ DropCache \/ FlushCommits \/ FlushFails

-----------------------------------------------------------------------------
(* GET /api/dashboard.                                                     *)

MetricsFirst == [idle |-> "metrics", metrics |-> "projects", projects |-> "store"] \* fault
Selects == [idle |-> "projects", projects |-> "metrics", metrics |-> "store"]

Answer(r) == at' = [at EXCEPT ![r] = "idle"] /\ got' = [got EXCEPT ![r] = Empty]

\* A hit is answered at once and changes nothing.
Miss(r) ==
  /\ at[r] = "idle" /\ cache = None
  /\ at' = [at EXCEPT ![r] = Selects["idle"]]
  /\ UNCHANGED <<db, cache, got, history>>

\* monthly_, quarterly_ and overhead rows are read by three SELECTs; one stands
\* for them.
Select(r, t) ==
  /\ at[r] = t
  /\ ~(t = "projects" /\ rows[t] = None)
  /\ got' = [got EXCEPT ![r][t] = rows[t]]
  /\ at' = [at EXCEPT ![r] = Selects[t]]
  /\ UNCHANGED <<db, cache, history>>

\* 404 no_data_for_year.
NoData(r) ==
  /\ at[r] = "projects" /\ rows["projects"] = None
  /\ Answer(r)
  /\ UNCHANGED <<db, cache, history>>

\* SETEX, whatever has been dropped since the SELECTs.
Store(r) ==
  /\ at[r] = "store"
  /\ cache' = got[r]
  /\ Answer(r)
  /\ UNCHANGED <<db, history>>

NeverExpires == FALSE /\ UNCHANGED vars \* fault: SET without a TTL
Expire ==
  /\ cache # None /\ cache' = None
  /\ UNCHANGED <<db, at, got, history>>

Read(r) == (\E t \in Tables : Select(r, t)) \/ NoData(r) \/ Store(r)

Next ==
  \/ \E j \in 1..Jobs : Job(j)
  \/ FlushReload
  \/ \E r \in Readers : Miss(r) \/ Read(r)
  \/ Expire

Spec == Init /\ [][Next]_vars

(* Jobs and requests that were started go on, and Redis drops what is      *)
(* sixty seconds old.                                                      *)
FairSpec ==
  /\ Spec
  /\ \A j \in 1..Jobs : WF_vars(Job(j))
  /\ WF_vars(FlushReload)
  /\ \A r \in Readers : WF_vars(Read(r))
  /\ WF_vars(Expire)

-----------------------------------------------------------------------------
(* Properties that hold.                                                   *)

Payloads == {got[r] : r \in Readers} \cup ({cache} \ {None})

\* A payload may mix two versions of the year, but in one direction only: its
\* metrics are never older than its projects, for the SELECTs follow the order
\* in which the year is replaced as a whole.
ReadsGoForward ==
  \A p \in Payloads :
    p["projects"] # None /\ p["metrics"] # None => p["metrics"] >= p["projects"]

\* The re-upload that the flush asks for survives the flush: only a later job
\* replaces rows from a job begun after the agents were signalled.
ReloadSurvives ==
  [][\A j \in reloads, t \in Tables : rows[t] = j => rows'[t] # None]_vars

\* However invalidations and fills raced, the cache ends up holding the year as
\* it is, or nothing.
EventuallyFresh == <>[](cache \in {None, rows})
=============================================================================
