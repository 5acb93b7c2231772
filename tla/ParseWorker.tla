----------------------------- MODULE ParseWorker -----------------------------
(***************************************************************************)
(* How a committed snapshot becomes what the dashboard shows:              *)
(* parse_snapshot_job (backend/app/workers/parse_snapshot.py) with the     *)
(* grouping and merging of workbooks in backend/app/services/parser.py,    *)
(* and app.seed, which replaces the demo year at every start of a server   *)
(* that has AUTO_SEED set.                                                 *)
(*                                                                         *)
(* A job is one PostgreSQL transaction at READ COMMITTED, cut at its       *)
(* statements.  A DELETE picks its rows when it starts, waits for any of   *)
(* them that another job has deleted and not committed, and leaves out     *)
(* those that are gone by then; an INSERT waits for a row with the same    *)
(* key that another job is writing, and fails if it finds one.             *)
(*                                                                         *)
(* The tables of metrics and of overhead are one, with one DELETE, and the *)
(* INSERTs of a year are one step.  Every replacement of a year writes all *)
(* its months, whose key is unique, and each job meets the tables in the   *)
(* same order: of two that insert a year one waits or fails in either      *)
(* form, and what it has inserted by then nobody sees.                     *)
(***************************************************************************)
EXTENDS Naturals, FiniteSets, Sequences

CONSTANTS
  Snapshots, Files, Contents, JobNos, Years, None,
  YearOf,   \* _year_from_filename: a year, or None
  Today,    \* date.today().year
  JobsIn,   \* the job numbers parse_workbook finds; {} when it raises
  Uploads,  \* what a snapshot may consist of
  Workers,  \* jobs that run at once: RQ workers, or threads of the server
  Reruns,   \* how often the operator re-triggers a job (a bound)
  Boots,    \* starts of a server with AUTO_SEED (a bound)
  AtOnce,   \* jobs and seed runs that overlap (a bound)
  SeedYear, \* the year in seed_data.json ...
  SeedJobs  \* ... and its job numbers

ASSUME Shape ==
  /\ Years \subseteq Nat /\ IsFiniteSet(Files)
  /\ Reruns \in Nat
  /\ Today \in Years
  /\ YearOf \in [Files -> Years \cup {None}]
  /\ JobsIn \in [Contents -> SUBSET JobNos]
  /\ Uploads \subseteq [Files -> Contents \cup {None}]
  /\ None \notin Years \cup Contents
  /\ Boots \cap Snapshots = {} /\ SeedYear \in Years /\ SeedJobs \subseteq JobNos

Jobs == Snapshots \cup Boots \* a seed run writes what a job writes

VARIABLES
  status,    \* snapshots.status, from "open" on
  sent,      \* the objects of the snapshot, by filename
  queue,     \* jobs handed over and not begun, oldest first
  committed, \* history: snapshots in the order of their commits
  reruns,    \* how often the operator has stepped in
  pc,        \* how far the job of a snapshot, or the seed run of a start, is
  todo,      \* the years it has parsed and not applied
  target,    \* the rows its DELETE has picked
  marked,    \* committed rows it has deleted; nobody else sees that yet
  added,     \* rows it has inserted; nobody else sees them yet
  shown,     \* the committed rows of the dashboard tables
  overlap    \* history: two jobs have run at once

txn  == <<todo, target, marked, added>>
vars == <<status, sent, queue, committed, reruns, pc, txn, shown, overlap>>

-----------------------------------------------------------------------------
(* The tables.  "projects" holds one row per job number.  "metrics" stands *)
(* for monthly_metrics and quarterly_metrics, which have the same twelve   *)
(* and four keys in every year that is applied.                            *)
Row == [table: {"projects", "metrics"}, year: Years, key: JobNos \cup {None},
        from: Jobs, file: Files \cup {None}]

\* The rows of a year that a job will insert.
Group == [year: Years, fallback: BOOLEAN, rows: SUBSET Row]

SameJob(a, b) == \* fault: the metrics have no primary key
  a.table = "projects" /\ b.table = "projects" /\ a.year = b.year /\ a.key = b.key
SameKey(a, b) == a.table = b.table /\ a.year = b.year /\ a.key = b.key

(* parser.py.  One group of files per year in the file names, and one of   *)
(* the current year, applied last, for the files with no year in theirs.   *)
Present(s) == {f \in Files : sent[s][f] # None}
InYear(s, y) == {f \in Present(s) : YearOf[f] = y}

\* Files are merged in the order of their mtimes, which is that in which
\* _download_to wrote them: the order the SELECT happened to return.
Orders(fs) == {o \in [fs -> 1..Cardinality(fs)] :
                 \A f, g \in fs : o[f] = o[g] => f = g}

LastFileOnly(s, f, j, fs, order) == \* fault: the newest file replaces the others
  j \in JobsIn[sent[s][f]] /\ \A g \in fs : order[g] <= order[f]
\* The row of job j is taken from file f.
TakenFrom(s, f, j, fs, order) ==
  /\ j \in JobsIn[sent[s][f]]
  /\ \A g \in fs : j \in JobsIn[sent[s][g]] => order[g] <= order[f]

\* Of several rows with one job number the last is kept (_dedupe_projects).
\* The metrics are there whether or not a workbook could be read:
\* compute_monthly_from_projects always returns twelve rows.
YearRows(s, y, fs, order) ==
  {[table |-> "projects", year |-> y, key |-> p[2], from |-> s, file |-> p[1]] :
     p \in {p \in fs \X JobNos : TakenFrom(s, p[1], p[2], fs, order)}}
  \cup {[table |-> "metrics", year |-> y, key |-> None, from |-> s, file |-> None]}

ParsedYears(s, order) ==
  {[year |-> y, fallback |-> FALSE, rows |-> YearRows(s, y, InYear(s, y), order)] :
     y \in {YearOf[f] : f \in Present(s)} \ {None}}
  \cup
  {[year |-> Today, fallback |-> TRUE, rows |-> YearRows(s, Today, fs, order)] :
     fs \in {InYear(s, None)} \ {{}}}

\* The group a job applies next.
First(gs) ==
  CHOOSE g \in gs : \A h \in gs :
    \/ h.fallback /\ ~g.fallback
    \/ h.fallback = g.fallback /\ g.year <= h.year

\* seed_data.json has the projects and the metrics of one year.
SeedRows(b) ==
  {[table |-> "projects", year |-> SeedYear, key |-> j, from |-> b, file |-> None] : j \in SeedJobs}
  \cup {[table |-> "metrics", year |-> SeedYear, key |-> None, from |-> b, file |-> None]}

-----------------------------------------------------------------------------
Running == {"loading", "delete_projects", "wait_projects",
            "delete_metrics", "wait_metrics", "insert", "finish"}
Ended == {"ended", "killed", "seeded"}
Busy == {s \in Jobs : pc[s] \in Running}

TypeOK ==
  /\ status \in [Snapshots -> {"open", "committed", "parsed", "failed"}]
  /\ sent \in [Snapshots -> Uploads \cup {[f \in Files |-> None]}]
  /\ queue \in Seq(Snapshots) /\ committed \in Seq(Snapshots)
  /\ reruns \in 0..Reruns
  /\ pc \in [Jobs -> {"none", "queued"} \cup Ended \cup Running]
  /\ todo \in [Jobs -> SUBSET Group]
  /\ target \in [Jobs -> SUBSET Row]
  /\ marked \in [Jobs -> SUBSET Row] /\ added \in [Jobs -> SUBSET Row]
  /\ shown \subseteq Row /\ overlap \in BOOLEAN

Init ==
  /\ status = [s \in Snapshots |-> "open"]
  /\ sent = [s \in Snapshots |-> [f \in Files |-> None]]
  /\ queue = <<>> /\ committed = <<>>
  /\ reruns = 0
  /\ pc = [s \in Jobs |-> "none"]
  /\ todo = [s \in Jobs |-> {}]
  /\ target = [s \in Jobs |-> {}]
  /\ marked = [s \in Jobs |-> {}]
  /\ added = [s \in Jobs |-> {}]
  /\ shown = {} /\ overlap = FALSE

Goto(s, label) == pc' = [pc EXCEPT ![s] = label]
\* The transaction is over, one way or the other.
EndTxn(s, label) ==
  /\ Goto(s, label)
  /\ todo' = [todo EXCEPT ![s] = {}]
  /\ target' = [target EXCEPT ![s] = {}]
  /\ marked' = [marked EXCEPT ![s] = {}]
  /\ added' = [added EXCEPT ![s] = {}]

-----------------------------------------------------------------------------
\* The end of commit_snapshot: the status, then asyncio.to_thread or q.enqueue.
\* Both take the jobs in the order in which they were handed over.
HandOver(s, files) ==
  /\ status[s] = "open"
  /\ status' = [status EXCEPT ![s] = "committed"]
  /\ sent' = [sent EXCEPT ![s] = files]
  /\ queue' = Append(queue, s)
  /\ committed' = Append(committed, s)
  /\ Goto(s, "queued")
  /\ UNCHANGED <<reruns, txn, shown, overlap>>

\* docs/admin-runbook.md: after a fix the operator calls parse_snapshot_job
\* for the failed snapshot again.
Rerun(s) ==
  /\ status[s] = "failed"
  /\ pc[s] = "ended"
  /\ reruns < Reruns
  /\ reruns' = reruns + 1
  /\ queue' = Append(queue, s)
  /\ Goto(s, "queued")
  /\ UNCHANGED <<status, sent, committed, txn, shown, overlap>>

NotAlone == overlap' = (overlap \/ Busy # {})

BeginNewest == \* fault: the job handed over last goes first
  LET s == queue[Len(queue)]
  IN  /\ queue # <<>>
      /\ Cardinality(Busy \cap Snapshots) < Workers /\ Cardinality(Busy) < AtOnce
      /\ queue' = SubSeq(queue, 1, Len(queue) - 1)
      /\ Goto(s, "loading") /\ NotAlone
      /\ UNCHANGED <<status, sent, committed, reruns, txn, shown>>

Begin ==
  LET s == Head(queue)
  IN  /\ queue # <<>>
      /\ Cardinality(Busy \cap Snapshots) < Workers /\ Cardinality(Busy) < AtOnce
      /\ status[s] \in {"committed", "failed"}
      /\ queue' = Tail(queue)
      /\ Goto(s, "loading") /\ NotAlone
      /\ UNCHANGED <<status, sent, committed, reruns, txn, shown>>

RetryLoad(s) == \* fault: the job is queued again until the objects are there
  /\ pc[s] = "loading"
  /\ queue' = Append(queue, s)
  /\ EndTxn(s, "queued")
  /\ UNCHANGED <<status, sent, committed, reruns, shown, overlap>>

\* An object cannot be fetched: nothing was written, so "failed" is recorded.
LoadFails(s) ==
  /\ pc[s] = "loading"
  /\ status' = [status EXCEPT ![s] = "failed"]
  /\ EndTxn(s, "ended")
  /\ UNCHANGED <<sent, queue, committed, reruns, shown, overlap>>

\* After the last group comes the commit.
NextGroup(s, gs) == Goto(s, IF gs = {} THEN "finish" ELSE "delete_projects")

\* The guard of the loop skips a group with neither projects nor metrics.
Applicable(gs) == {g \in gs : g.rows # {}}

Load(s) ==
  /\ pc[s] = "loading"
  /\ \E order \in Orders(Present(s)) :
       LET gs == Applicable(ParsedYears(s, order))
       IN  todo' = [todo EXCEPT ![s] = gs] /\ NextGroup(s, gs)
  /\ UNCHANGED <<status, sent, queue, committed, reruns, target, marked, added, shown, overlap>>

\* lifespan: app.seed.main runs to its commit before the server takes requests;
\* the worker, and the instance this one replaces, may be at work.  The dev
\* tenant is there.
Seed(b) ==
  /\ pc[b] = "none" /\ Cardinality(Busy) < AtOnce
  /\ todo' = [todo EXCEPT ![b] =
       {[year |-> SeedYear, fallback |-> FALSE, rows |-> SeedRows(b)]}]
  /\ Goto(b, "delete_projects") /\ NotAlone
  /\ UNCHANGED <<status, sent, queue, committed, reruns, target, marked, added, shown>>

-----------------------------------------------------------------------------
(* One group: DELETE from each table, then the INSERTs.                    *)

Visible(s) == (shown \ marked[s]) \cup added[s]
Others(s) == Jobs \ {s}

OnlyReplaced(s, table) == \* fault: rows the new ones do not replace are kept
  {r \in Visible(s) : \E n \in First(todo[s]).rows : n.table = table /\ SameKey(n, r)}
OfYear(s, table) ==
  {r \in Visible(s) : r.table = table /\ r.year = First(todo[s]).year}

DeleteStarts(s, table, from, to) ==
  /\ pc[s] = from
  /\ target' = [target EXCEPT ![s] = OfYear(s, table)]
  /\ Goto(s, to)
  /\ UNCHANGED <<status, sent, queue, committed, reruns, todo, marked, added, shown, overlap>>

DeleteEnds(s, from, to) ==
  /\ pc[s] = from
  /\ \A q \in Others(s) : marked[q] \cap target[s] = {}
  /\ marked' = [marked EXCEPT ![s] = @ \cup (target[s] \cap shown)]
  /\ added' = [added EXCEPT ![s] = @ \ target[s]]
  /\ target' = [target EXCEPT ![s] = {}]
  /\ Goto(s, to)
  /\ UNCHANGED <<status, sent, queue, committed, reruns, todo, shown, overlap>>

DeleteProjects(s) ==
  \/ DeleteStarts(s, "projects", "delete_projects", "wait_projects")
  \/ DeleteEnds(s, "wait_projects", "delete_metrics")
DeleteMetrics(s) ==
  \/ DeleteStarts(s, "metrics", "delete_metrics", "wait_metrics")
  \/ DeleteEnds(s, "wait_metrics", "insert")

\* Some row to be inserted has the key of a row in rs.
Clash(s, rs) == \E r \in First(todo[s]).rows, q \in rs : SameKey(r, q)
Blocked(s) ==
  \E q \in Others(s) : Clash(s, added[q] \cup (marked[q] \cap shown))
Taken(s) == Clash(s, Visible(s))

Insert(s) ==
  LET g == First(todo[s])
  IN  /\ pc[s] = "insert"
      /\ ~Blocked(s) /\ ~Taken(s)
      /\ added' = [added EXCEPT ![s] = @ \cup g.rows]
      /\ todo' = [todo EXCEPT ![s] = @ \ {g}]
      /\ NextGroup(s, todo[s] \ {g})
      /\ UNCHANGED <<status, sent, queue, committed, reruns, target, marked, shown, overlap>>

\* uq_project_per_year or a primary key is violated.  The flush has failed, so
\* the session refuses the commit that would record "failed": the exception
\* leaves the job and the status stays.
InsertFails(s) ==
  /\ pc[s] = "insert"
  /\ ~Blocked(s) /\ Taken(s)
  /\ EndTxn(s, "ended")
  /\ UNCHANGED <<status, sent, queue, committed, reruns, shown, overlap>>

CommitWhatIsThere(s) == \* fault: the rows written so far are committed
  /\ pc[s] \in Running
  /\ shown' = Visible(s)
  /\ status' = [q \in Snapshots |-> IF q = s THEN "failed" ELSE status[q]]
  /\ EndTxn(s, "ended")
  /\ UNCHANGED <<sent, queue, committed, reruns, overlap>>

\* So does any other statement that fails: a deadlock, a lost connection, a
\* value its column cannot hold.
StatementFails(s) ==
  /\ pc[s] \in Running
  /\ EndTxn(s, "ended")
  /\ UNCHANGED <<status, sent, queue, committed, reruns, shown, overlap>>

\* The process dies with the job, and nothing takes it up again.
Killed(s) ==
  /\ pc[s] \in Running
  /\ EndTxn(s, "killed")
  /\ UNCHANGED <<status, sent, queue, committed, reruns, shown, overlap>>

Finish(s) ==
  /\ pc[s] = "finish"
  /\ IF s \in Snapshots
     THEN status' = [status EXCEPT ![s] = "parsed"] /\ EndTxn(s, "ended")
     ELSE UNCHANGED status /\ EndTxn(s, "seeded")
  /\ shown' = Visible(s)
  /\ UNCHANGED <<sent, queue, committed, reruns, overlap>>

Step(s) ==
  \/ s \in Snapshots /\ (Load(s) \/ LoadFails(s))
  \/ DeleteProjects(s) \/ DeleteMetrics(s)
  \/ Insert(s) \/ InsertFails(s) \/ Finish(s)

Next ==
  \/ Begin
  \/ \E s \in Snapshots :
       Rerun(s) \/ \E files \in Uploads : HandOver(s, files)
  \/ \E b \in Boots : Seed(b)
  \/ \E s \in Jobs : Step(s) \/ StatementFails(s) \/ Killed(s)

Spec == Init /\ [][Next]_vars

\* s waits for a row that q holds.
WaitsFor(s, q) ==
  \/ pc[s] \in {"wait_projects", "wait_metrics"} /\ marked[q] \cap target[s] # {}
  \/ pc[s] = "insert" /\ Clash(s, added[q] \cup (marked[q] \cap shown))

Stuck(S) == \A s \in S : \E q \in S \ {s} : WaitsFor(s, q)

\* PostgreSQL ends one of several transactions that wait for each other.
BreakDeadlock == \E S \in SUBSET Jobs : \E s \in S : Stuck(S) /\ StatementFails(s)

(* A worker with a free slot takes the next job, and a job or a seed run   *)
(* that can go on goes on.                                                 *)
Fairness ==
  /\ WF_vars(Begin)
  /\ WF_vars(BreakDeadlock)
  /\ \A s \in Jobs : WF_vars(Step(s))

FairSpec == Spec /\ Fairness

-----------------------------------------------------------------------------
(* Properties that hold for any number of workers.                         *)

\* A year that shows projects shows one full set of metrics with them, also
\* when several jobs and seed runs replace the year at once: the twelve keys that every job
\* writes make all but one of them fail.
YearIsComplete ==
  \A r \in shown :
    r.table = "projects" =>
      Cardinality({m \in shown : m.table = "metrics" /\ m.year = r.year}) = 1

\* Only what a snapshot that ended as "parsed" contained is shown, or what a
\* seed run that ended well wrote: whatever fails or dies between the first
\* DELETE and the commit leaves no trace.
OnlyParsedIsShown ==
  \A r \in shown : IF r.from \in Boots THEN pc[r.from] = "seeded" ELSE status[r.from] = "parsed"

\* A job that was handed over ends, and so does a start of the server, also
\* when they wait for each other's rows.
EveryJobEnds ==
  \A s \in Jobs : pc[s] \in {"queued"} \cup Running ~> pc[s] \in Ended

(* Properties that need the jobs to run one at a time.                     *)

\* PLAN.md 6.4: a job deletes the data of a year before it inserts its own, so
\* a year never mixes two snapshots, or a snapshot and the demo data.
YearIsOneSnapshot ==
  \A q, r \in shown : q.year = r.year => q.from = r.from
SerialYearIsOneSnapshot == ~overlap => YearIsOneSnapshot

YearsOf(s) == {IF YearOf[f] = None THEN Today ELSE YearOf[f] : f \in Present(s)}

\* agent/README.md: the server holds the latest data.  When no job is left and
\* none was run twice, each year that was not seeded since shows the newest
\* snapshot that had files for it and was parsed.
LatestWins ==
  ~overlap /\ reruns = 0 /\ queue = <<>> /\ Busy = {} =>
    \A r \in shown, i, j \in DOMAIN committed :
      /\ r.from = committed[i]
      /\ status[committed[j]] = "parsed"
      /\ r.year \in YearsOf(committed[j])
      => j <= i

(* Properties of one snapshot.                                             *)

\* Workbooks without a year in their names, next to some of the current year.
TwoGroupsOfOneYear(s) == InYear(s, None) # {} /\ InYear(s, Today) # {}

\* test_parser.py: when several files map to one year every job number found
\* in any of them survives.
NoJobDropped ==
  [][\A s \in Snapshots :
       pc[s] = "finish" /\ status'[s] = "parsed" /\ ~TwoGroupsOfOneYear(s) =>
         \A f \in Present(s) : \A j \in JobsIn[sent[s][f]] :
           \E r \in shown' : r.key = j /\ r.from = s /\
             r.year = IF YearOf[f] = None THEN Today ELSE YearOf[f]]_vars
=============================================================================
