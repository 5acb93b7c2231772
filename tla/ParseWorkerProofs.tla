-------------------------- MODULE ParseWorkerProofs --------------------------
(***************************************************************************)
(* ParseWorker for any number of snapshots, files, years, workers and      *)
(* starts: what the years show when jobs overlap, and what they show when  *)
(* no two have.  EveryJobEnds is a matter of fairness and stays with TLC.  *)
(*                                                                         *)
(* The argument: the unique keys keep apart what two jobs insert, and a    *)
(* row is deleted by one job only; hence what a job commits replaces whole *)
(* sets of metrics by whole sets.  A job that was alone has deleted all of *)
(* the years it inserts.                                                   *)
(***************************************************************************)
EXTENDS ParseWorker, WellFoundedInduction, FiniteSetTheorems, TLAPS

Working == Running \ {"loading", "finish"}

\* What is handed over and not begun is there once, and waits.
QueueInv ==
  /\ \A i \in 1..Len(queue) : pc[queue[i]] = "queued"
  /\ \A i, j \in 1..Len(queue) : queue[i] = queue[j] => i = j

\* How far a job is, and what that says of its snapshot and its transaction.
StageInv ==
  /\ \A s \in Snapshots : status[s] = "open" <=> pc[s] = "none"
  /\ \A s \in Snapshots : pc[s] \in Running \cup {"queued"} => status[s] \in {"committed", "failed"}
  /\ \A b \in Boots : pc[b] \notin {"queued", "loading"}
  /\ \A s \in Jobs : pc[s] \notin Working \cup {"finish"} =>
       todo[s] = {} /\ target[s] = {} /\ marked[s] = {} /\ added[s] = {}
  /\ \A s \in Jobs : pc[s] = "finish" => todo[s] = {}
  /\ \A s \in Jobs : pc[s] \in Working => todo[s] # {}
  /\ \A s \in Jobs : target[s] # {} => pc[s] \in {"wait_projects", "wait_metrics"}

\* A group is of one year and one job, and has no key twice.
IsMetrics(r) == r.table = "metrics"
Whole(g, s) ==
  /\ \A r \in g.rows : r.year = g.year /\ r.from = s /\ (IsMetrics(r) => r.key = None)
  /\ \E m \in g.rows : IsMetrics(m)
  /\ \A q, r \in g.rows : SameKey(q, r) => q = r

\* What a job will insert, has picked, has inserted and has committed.
RowInv ==
  /\ \A s \in Jobs : \A g \in todo[s] : Whole(g, s)
  /\ \A s \in Jobs : \A r \in target[s] : r.year = First(todo[s]).year
  /\ \A s \in Jobs : \A r \in added[s] : r.from = s /\ (IsMetrics(r) => r.key = None)
  /\ \A r \in shown : IsMetrics(r) => r.key = None

\* Unique keys and row locks: no two jobs write a row or a key.
KeyInv ==
  /\ \A s \in Jobs : marked[s] \subseteq shown
  /\ \A s, q \in Jobs : s # q => marked[s] \cap marked[q] = {}
  /\ \A s \in Jobs : \A r \in added[s], x \in shown \ marked[s] : ~SameKey(r, x)
  /\ \A s, q \in Jobs : s # q => \A r \in added[s], x \in added[q] : ~SameKey(r, x)
  /\ \A s \in Jobs : \A r, x \in added[s] : SameKey(r, x) => r = x
  /\ \A r, x \in shown : SameKey(r, x) => r = x

\* A year a job has touched will have its metrics, from this job.
HasMetrics(rs, y) == \E m \in rs : IsMetrics(m) /\ m.year = y
MetricsInv ==
  /\ \A s \in Jobs : \A r \in marked[s] \cup added[s] :
       HasMetrics(added[s], r.year) \/ (pc[s] \in Working /\ r.year = First(todo[s]).year)
  /\ \A r \in shown : HasMetrics(shown, r.year)

\* No two jobs have overlapped: a job has deleted the years it inserts.
Replaces(s) ==
  /\ \A a \in added[s], r \in shown \ marked[s] : r.year # a.year
  /\ pc[s] = "wait_projects" => target[s] = OfYear(s, "projects")
  /\ pc[s] \in {"delete_metrics", "wait_metrics", "insert"} => OfYear(s, "projects") = {}
  /\ pc[s] = "wait_metrics" => target[s] = OfYear(s, "metrics")
  /\ pc[s] = "insert" => OfYear(s, "metrics") = {}
AloneInv ==
  ~overlap =>
    /\ \A s, q \in Busy : s = q
    /\ YearIsOneSnapshot
    /\ \A s \in Jobs : Replaces(s)

\* Every year of a job is inserted, or will be.
YearsInv ==
  \A s \in Snapshots : pc[s] \in Working \cup {"finish"} =>
    \A y \in YearsOf(s) : HasMetrics(added[s], y) \/ \E g \in todo[s] : g.year = y

\* Jobs are taken in the order of the commits.
OrderInv ==
  /\ \A i \in 1..Len(committed) : status[committed[i]] # "open"
  /\ \A i, j \in 1..Len(committed) : committed[i] = committed[j] => i = j
  /\ reruns = 0 =>
       /\ Len(queue) <= Len(committed)
       /\ \A i \in 1..Len(queue) : queue[i] = committed[Len(committed) - Len(queue) + i]
       /\ ~overlap => \A s \in Busy \cap Snapshots :
            Len(queue) < Len(committed) /\ s = committed[Len(committed) - Len(queue)]
NewestInv ==
  ~overlap /\ reruns = 0 =>
    \A r \in shown, i, j \in 1..Len(committed) :
      r.from = committed[i] /\ status[committed[j]] = "parsed" /\ r.year \in YearsOf(committed[j]) => j <= i

\* Unless a snapshot has two groups of one year, its job does not delete what it
\* has inserted, and every job number is in what it has inserted or will.
NamedYear(f) == IF YearOf[f] = None THEN Today ELSE YearOf[f]
HasJob(rs, j, y) == \E r \in rs : r.key = j /\ r.year = y
KeptInv ==
  \A s \in Snapshots : pc[s] \in Working \cup {"finish"} /\ ~TwoGroupsOfOneYear(s) =>
    /\ \A g, h \in todo[s] : g.year = h.year => g = h
    /\ \A g \in todo[s], r \in added[s] : r.year # g.year
    /\ \A f \in Present(s) : \A j \in JobsIn[sent[s][f]] :
         \/ HasJob(added[s], j, NamedYear(f))
         \/ \E g \in todo[s] : HasJob(g.rows, j, NamedYear(f))

IInv ==
  /\ TypeOK /\ QueueInv /\ StageInv /\ RowInv /\ KeyInv /\ MetricsInv /\ OnlyParsedIsShown
  /\ AloneInv /\ YearsInv /\ OrderInv /\ NewestInv /\ KeptInv

-----------------------------------------------------------------------------
(* The operators.                                                          *)

\* A set of groups has a first one.
LEMMA FirstIn ==
  ASSUME NEW gs, gs \subseteq Group, gs # {}
  PROVE  First(gs) \in gs
  <1> DEFINE named == {g \in gs : ~g.fallback}
             pool == IF named # {} THEN named ELSE gs
             years == {g.year : g \in pool}
  <1>0. pool \subseteq gs /\ pool # {}
    OBVIOUS
  <1>1. years \subseteq Nat /\ years # {} /\ pool \subseteq gs
    <2>1. \A g \in gs : g.year \in Nat
      BY Shape DEF Group
    <2> HIDE DEF pool
    <2>2. \A g \in pool : g.year \in Nat
      BY <1>0, <2>1
    <2> QED BY <1>0, <2>2
  <1> HIDE DEF years, pool
  <1>2. PICK y \in years : \A z \in years : ~(<<z, y>> \in OpToRel(<, Nat))
    <2>1. IsWellFoundedOn(OpToRel(<, Nat), Nat)
      BY NatLessThanWellFounded
    <2> QED BY <1>1, <2>1, WFMin
  <1>3. \A z \in years : ~(z < y)
    BY <1>1, <1>2 DEF OpToRel
  <1>4. PICK g \in pool : g.year = y
    BY <1>2 DEF years
  <1>5. \A h \in gs : \/ h.fallback /\ ~g.fallback
                      \/ h.fallback = g.fallback /\ g.year <= h.year
    <2>1. \A h \in pool : g.year <= h.year
      <3>1. \A h \in pool : h.year \in years
        BY DEF years
      <3>2. y \in Nat /\ \A z \in years : z \in Nat
        BY <1>1, <1>2
      <3> HIDE DEF years, pool
      <3>3. \A z \in years : y <= z
        BY <1>3, <3>2
      <3> QED BY <1>4, <3>1, <3>3
    <2>2. \A h \in gs : h.fallback \in BOOLEAN
      BY DEF Group
    <2>3. CASE named # {}
      BY <1>4, <2>1, <2>2, <2>3 DEF pool
    <2>4. CASE named = {}
      <3>1. \A h \in gs : h.fallback
        BY <2>4
      <3> QED BY <1>4, <2>1, <2>2, <2>4, <3>1 DEF pool
    <2> QED BY <2>3, <2>4
  <1>6. g \in gs
    BY <1>1, <1>4
  <1> QED BY <1>5, <1>6 DEF First

\* What the parser returns for the files of a year is whole: the last file with
\* a job number is the only one its row is taken from.
LEMMA YearIsWhole ==
  ASSUME TypeOK, NEW s \in Snapshots, NEW order \in Orders(Present(s)),
         NEW fs, fs \subseteq Present(s), NEW y \in Years, NEW b \in BOOLEAN
  PROVE  LET g == [year |-> y, fallback |-> b, rows |-> YearRows(s, y, fs, order)]
         IN  g \in Group /\ Whole(g, s)
  <1> DEFINE rows == YearRows(s, y, fs, order)
  <1>1. /\ \A r \in rows : r.table \in {"projects", "metrics"}
        /\ \A r \in rows : r.table = "projects" =>
             /\ r.file \in fs /\ r.key \in JobNos /\ TakenFrom(s, r.file, r.key, fs, order)
             /\ r = [table |-> "projects", year |-> y, key |-> r.key, from |-> s, file |-> r.file]
        /\ \A r \in rows : r.table = "metrics" =>
             r = [table |-> "metrics", year |-> y, key |-> None, from |-> s, file |-> None]
    BY DEF YearRows
  <1>2. [table |-> "metrics", year |-> y, key |-> None, from |-> s, file |-> None] \in rows
    BY DEF YearRows
  <1>3. rows \subseteq Row
    BY <1>1 DEF Row, Jobs, Present
  <1>4. \A r \in rows : r.year = y /\ r.from = s /\ (IsMetrics(r) => r.key = None)
    BY <1>1 DEF IsMetrics
  <1>5. \E m \in rows : IsMetrics(m)
    BY <1>2 DEF IsMetrics
  <1>6. ASSUME NEW q \in rows, NEW r \in rows, SameKey(q, r) PROVE q = r
    <2>1. q.table = r.table /\ q.key = r.key
      BY <1>6 DEF SameKey
    <2>2. CASE q.table = "projects"
      <3>1. /\ q.file \in fs /\ r.file \in fs
            /\ TakenFrom(s, q.file, q.key, fs, order) /\ TakenFrom(s, r.file, q.key, fs, order)
        BY <1>1, <2>1, <2>2
      <3>2. order[q.file] <= order[r.file] /\ order[r.file] <= order[q.file]
        BY <3>1 DEF TakenFrom
      <3>3. /\ order[q.file] \in Nat /\ order[r.file] \in Nat
            /\ order[q.file] = order[r.file] => q.file = r.file
        BY <3>1 DEF Orders
      <3>4. q.file = r.file
        BY <3>2, <3>3
      <3> QED BY <1>1, <2>1, <2>2, <3>4
    <2>3. CASE q.table # "projects"
      BY <1>1, <2>1, <2>3
    <2> QED BY <2>2, <2>3
  <1> QED BY <1>3, <1>4, <1>5, <1>6 DEF Group, Whole

\* The groups a job starts with.
LEMMA LoadedGroups ==
  ASSUME TypeOK, NEW s \in Snapshots, NEW order \in Orders(Present(s))
  PROVE  /\ Applicable(ParsedYears(s, order)) = ParsedYears(s, order)
         /\ \A g \in ParsedYears(s, order) : g \in Group /\ Whole(g, s)
  <1>1. \A y \in {YearOf[f] : f \in Present(s)} \ {None} : y \in Years
    BY Shape DEF Present
  <1>2. \A y : InYear(s, y) \subseteq Present(s)
    BY DEF InYear
  <1>3. ASSUME NEW g \in ParsedYears(s, order) PROVE g \in Group /\ Whole(g, s)
    <2>1. \E y \in Years, fs \in SUBSET Present(s), b \in BOOLEAN :
            g = [year |-> y, fallback |-> b, rows |-> YearRows(s, y, fs, order)]
      BY <1>1, <1>2, Shape DEF ParsedYears
    <2> QED BY <2>1, YearIsWhole
  <1>4. \A g \in ParsedYears(s, order) : g.rows # {}
    BY <1>3 DEF Whole
  <1> QED BY <1>3, <1>4 DEF Applicable

\* The group of a seed run.
LEMMA SeedGroup ==
  ASSUME NEW b \in Boots
  PROVE  LET g == [year |-> SeedYear, fallback |-> FALSE, rows |-> SeedRows(b)]
         IN  g \in Group /\ Whole(g, b)
  <1> DEFINE rows == SeedRows(b)
  <1>1. \A r \in rows :
          \/ r.table = "projects" /\ r.key \in JobNos
             /\ r = [table |-> "projects", year |-> SeedYear, key |-> r.key, from |-> b, file |-> None]
          \/ r = [table |-> "metrics", year |-> SeedYear, key |-> None, from |-> b, file |-> None]
    BY Shape DEF SeedRows
  <1>2. [table |-> "metrics", year |-> SeedYear, key |-> None, from |-> b, file |-> None] \in rows
    BY DEF SeedRows
  <1>3. rows \subseteq Row
    BY <1>1, Shape DEF Row, Jobs
  <1>4. \E m \in rows : IsMetrics(m)
    BY <1>2 DEF IsMetrics
  <1>5. \A r \in rows : r.year = SeedYear /\ r.from = b /\ (IsMetrics(r) => r.key = None)
    BY <1>1 DEF IsMetrics
  <1>6. \A q, r \in rows : SameKey(q, r) => q = r
    BY <1>1 DEF SameKey
  <1> QED BY <1>3, <1>4, <1>5, <1>6, Shape DEF Group, Whole

-----------------------------------------------------------------------------
(* The steps.                                                              *)

\* A job ends without a commit: it fails, or dies.
Abort(s) ==
  /\ pc[s] \in Running
  /\ \E label \in Ended : EndTxn(s, label)
  /\ status' = status \/ (s \in Snapshots /\ status' = [status EXCEPT ![s] = "failed"])
  /\ UNCHANGED <<sent, queue, committed, reruns, shown, overlap>>

\* A DELETE picks its rows; it has deleted them.
DStarts(s) ==
  \/ DeleteStarts(s, "projects", "delete_projects", "wait_projects")
  \/ DeleteStarts(s, "metrics", "delete_metrics", "wait_metrics")
DEnds(s) ==
  \/ DeleteEnds(s, "wait_projects", "delete_metrics")
  \/ DeleteEnds(s, "wait_metrics", "insert")

LEMMA StepCases ==
  ASSUME [Next]_vars
  PROVE  \/ UNCHANGED vars
         \/ \E s \in Snapshots : (\E files \in Uploads : HandOver(s, files)) \/ Rerun(s) \/ Load(s)
         \/ Begin
         \/ \E b \in Boots : Seed(b)
         \/ \E s \in Jobs : Abort(s) \/ DStarts(s) \/ DEnds(s) \/ Insert(s) \/ Finish(s)
  <1>1. ASSUME NEW s \in Jobs, StatementFails(s) \/ Killed(s) \/ InsertFails(s) PROVE Abort(s)
    BY <1>1 DEF StatementFails, Killed, InsertFails, Abort, Ended, Running
  <1>2. ASSUME NEW s \in Snapshots, LoadFails(s) PROVE Abort(s)
    BY <1>2 DEF LoadFails, Abort, Ended, Running
  <1> QED BY <1>1, <1>2 DEF Next, Step, DeleteProjects, DeleteMetrics, DStarts, DEnds, Jobs

\* A step of a job leaves the other jobs alone.
Same(q) ==
  /\ pc'[q] = pc[q] /\ todo'[q] = todo[q] /\ target'[q] = target[q]
  /\ marked'[q] = marked[q] /\ added'[q] = added[q]
Empty(s) == todo[s] = {} /\ target[s] = {} /\ marked[s] = {} /\ added[s] = {}

LEMMA AbortEffect ==
  ASSUME TypeOK, NEW s \in Jobs, Abort(s)
  PROVE  /\ pc[s] \in Running /\ pc'[s] \in Ended /\ Empty(s)'
         /\ \A q \in Jobs \ {s} : Same(q)
         /\ UNCHANGED <<sent, queue, committed, reruns, shown, overlap>>
         /\ \A q \in Snapshots : status'[q] = status[q] \/ (q = s /\ status'[q] = "failed")
  BY DEF TypeOK, Abort, EndTxn, Goto, Same, Empty

LEMMA StartsEffect ==
  ASSUME TypeOK, NEW s \in Jobs, DStarts(s)
  PROVE  /\ \/ /\ pc[s] = "delete_projects" /\ pc'[s] = "wait_projects"
               /\ target'[s] = OfYear(s, "projects")
            \/ /\ pc[s] = "delete_metrics" /\ pc'[s] = "wait_metrics"
               /\ target'[s] = OfYear(s, "metrics")
         /\ todo'[s] = todo[s] /\ marked'[s] = marked[s] /\ added'[s] = added[s]
         /\ \A q \in Jobs \ {s} : Same(q)
         /\ UNCHANGED <<status, sent, queue, committed, reruns, shown, overlap>>
  BY DEF TypeOK, DStarts, DeleteStarts, Goto, Same

LEMMA EndsEffect ==
  ASSUME TypeOK, NEW s \in Jobs, DEnds(s)
  PROVE  /\ \/ pc[s] = "wait_projects" /\ pc'[s] = "delete_metrics"
            \/ pc[s] = "wait_metrics" /\ pc'[s] = "insert"
         /\ \A q \in Jobs \ {s} : marked[q] \cap target[s] = {}
         /\ todo'[s] = todo[s] /\ target'[s] = {}
         /\ marked'[s] = marked[s] \cup (target[s] \cap shown)
         /\ added'[s] = added[s] \ target[s]
         /\ \A q \in Jobs \ {s} : Same(q)
         /\ UNCHANGED <<status, sent, queue, committed, reruns, shown, overlap>>
  BY DEF TypeOK, DEnds, DeleteEnds, Goto, Same, Others

LEMMA InsertEffect ==
  ASSUME TypeOK, StageInv, NEW s \in Jobs, Insert(s)
  PROVE  LET g == First(todo[s])
         IN  /\ pc[s] = "insert" /\ g \in todo[s] /\ g \in Group
             /\ pc'[s] = IF todo'[s] = {} THEN "finish" ELSE "delete_projects"
             /\ todo'[s] = todo[s] \ {g} /\ target'[s] = {} /\ marked'[s] = marked[s]
             /\ added'[s] = added[s] \cup g.rows
             /\ \A r \in g.rows : /\ \A x \in Visible(s) : ~SameKey(r, x)
                                  /\ \A q \in Jobs \ {s} : \A x \in added[q] \cup (marked[q] \cap shown) : ~SameKey(r, x)
             /\ \A q \in Jobs \ {s} : Same(q)
             /\ UNCHANGED <<status, sent, queue, committed, reruns, shown, overlap>>
  <1>1. todo[s] # {} /\ todo[s] \subseteq Group /\ target[s] = {}
    BY DEF TypeOK, StageInv, Insert, Working, Running
  <1>2. First(todo[s]) \in todo[s]
    BY <1>1, FirstIn
  <1>3. ~Clash(s, Visible(s)) /\ \A q \in Jobs \ {s} : ~Clash(s, added[q] \cup (marked[q] \cap shown))
    BY DEF Insert, Blocked, Taken, Others
  <1>4. \A r \in First(todo[s]).rows :
          /\ \A x \in Visible(s) : ~SameKey(r, x)
          /\ \A q \in Jobs \ {s} : \A x \in added[q] \cup (marked[q] \cap shown) : ~SameKey(r, x)
    BY <1>3 DEF Clash
  <1>5. /\ pc[s] = "insert"
        /\ pc'[s] = IF todo'[s] = {} THEN "finish" ELSE "delete_projects"
        /\ todo'[s] = todo[s] \ {First(todo[s])} /\ target'[s] = {} /\ marked'[s] = marked[s]
        /\ added'[s] = added[s] \cup First(todo[s]).rows
        /\ \A q \in Jobs \ {s} : Same(q)
        /\ UNCHANGED <<status, sent, queue, committed, reruns, shown, overlap>>
    BY <1>1 DEF TypeOK, Insert, NextGroup, Goto, Same
  <1> QED BY <1>1, <1>2, <1>4, <1>5

LEMMA FinishEffect ==
  ASSUME TypeOK, NEW s \in Jobs, Finish(s)
  PROVE  /\ pc[s] = "finish" /\ pc'[s] \in Ended /\ Empty(s)'
         /\ s \in Snapshots => status' = [status EXCEPT ![s] = "parsed"]
         /\ s \notin Snapshots => pc'[s] = "seeded" /\ status' = status
         /\ shown' = (shown \ marked[s]) \cup added[s]
         /\ \A q \in Jobs \ {s} : Same(q)
         /\ UNCHANGED <<sent, queue, committed, reruns, overlap>>
  BY DEF TypeOK, Finish, EndTxn, Goto, Visible, Same, Empty, Ended

LEMMA LoadEffect ==
  ASSUME TypeOK, NEW s \in Snapshots, Load(s)
  PROVE  /\ pc[s] = "loading"
         /\ \E order \in Orders(Present(s)) : todo'[s] = ParsedYears(s, order)
         /\ \A g \in todo'[s] : g \in Group /\ Whole(g, s)
         /\ pc'[s] = IF todo'[s] = {} THEN "finish" ELSE "delete_projects"
         /\ target'[s] = target[s] /\ marked'[s] = marked[s] /\ added'[s] = added[s]
         /\ \A q \in Jobs \ {s} : Same(q)
         /\ UNCHANGED <<status, sent, queue, committed, reruns, shown, overlap>>
  <1>1. PICK order \in Orders(Present(s)) :
          LET gs == Applicable(ParsedYears(s, order))
          IN  todo' = [todo EXCEPT ![s] = gs] /\ NextGroup(s, gs)
    BY DEF Load
  <1>2. todo' = [todo EXCEPT ![s] = ParsedYears(s, order)] /\ NextGroup(s, ParsedYears(s, order))
    BY <1>1, LoadedGroups
  <1>3. \A g \in ParsedYears(s, order) : g \in Group /\ Whole(g, s)
    BY LoadedGroups
  <1>4. todo'[s] = ParsedYears(s, order)
    BY <1>2 DEF TypeOK, Jobs
  <1> QED BY <1>2, <1>3, <1>4 DEF TypeOK, Jobs, Load, NextGroup, Goto, Same

LEMMA SeedEffect ==
  ASSUME TypeOK, NEW b \in Boots, Seed(b)
  PROVE  /\ pc[b] = "none" /\ pc'[b] = "delete_projects" /\ todo'[b] # {}
         /\ \A g \in todo'[b] : g \in Group /\ Whole(g, b)
         /\ target'[b] = target[b] /\ marked'[b] = marked[b] /\ added'[b] = added[b]
         /\ \A q \in Jobs \ {b} : Same(q)
         /\ overlap' = (overlap \/ Busy # {})
         /\ UNCHANGED <<status, sent, queue, committed, reruns, shown>>
  <1> DEFINE g == [year |-> SeedYear, fallback |-> FALSE, rows |-> SeedRows(b)]
  <1>1. g \in Group /\ Whole(g, b)
    BY SeedGroup
  <1>2. todo' = [todo EXCEPT ![b] = {g}]
    BY DEF Seed
  <1> HIDE DEF g
  <1>3. todo'[b] = {g} /\ \A q \in Jobs \ {b} : todo'[q] = todo[q]
    BY <1>2 DEF TypeOK, Jobs
  <1>4. /\ pc[b] = "none" /\ pc'[b] = "delete_projects"
        /\ \A q \in Jobs \ {b} : pc'[q] = pc[q]
        /\ overlap' = (overlap \/ Busy # {})
        /\ UNCHANGED <<status, sent, queue, committed, reruns, target, marked, added, shown>>
    BY DEF TypeOK, Jobs, Seed, Goto, NotAlone
  <1> QED BY <1>1, <1>3, <1>4 DEF Same

LEMMA BeginEffect ==
  ASSUME TypeOK, Begin
  PROVE  \E s \in Snapshots :
           /\ Len(queue) > 0 /\ s = queue[1] /\ queue' = Tail(queue)
           /\ pc' = [pc EXCEPT ![s] = "loading"] /\ status[s] \in {"committed", "failed"}
           /\ overlap' = (overlap \/ Busy # {})
           /\ UNCHANGED <<status, sent, committed, reruns, txn, shown>>
  <1>1. queue # <<>> /\ queue \in Seq(Snapshots)
    BY DEF TypeOK, Begin
  <1>2. Len(queue) > 0 /\ Head(queue) = queue[1] /\ Head(queue) \in Snapshots
    BY <1>1
  <1> QED BY <1>1, <1>2 DEF Begin, Goto, NotAlone

LEMMA FrontIsQueued == ASSUME TypeOK, QueueInv, Len(queue) > 0 PROVE pc[queue[1]] = "queued"
  <1>1. 1 \in 1..Len(queue)
    BY DEF TypeOK
  <1> QED BY <1>1 DEF QueueInv

-----------------------------------------------------------------------------
(* The invariant.                                                          *)

LEMMA InitInv == Init => IInv
  <1> SUFFICES ASSUME Init PROVE IInv
    OBVIOUS
  <1> USE DEF Init
  <1>1. TypeOK
    <2>1. /\ todo \in [Jobs -> SUBSET Group] /\ target \in [Jobs -> SUBSET Row]
          /\ marked \in [Jobs -> SUBSET Row] /\ added \in [Jobs -> SUBSET Row]
      OBVIOUS
    <2>2. pc \in [Jobs -> {"none", "queued"} \cup Ended \cup Running]
      OBVIOUS
    <2>3. /\ status \in [Snapshots -> {"open", "committed", "parsed", "failed"}]
          /\ sent \in [Snapshots -> Uploads \cup {[f \in Files |-> None]}]
          /\ shown \subseteq Row /\ overlap \in BOOLEAN
      OBVIOUS
    <2>4. reruns \in 0..Reruns
      BY Shape
    <2>5. queue \in Seq(Snapshots) /\ committed \in Seq(Snapshots)
      OBVIOUS
    <2> QED BY <2>1, <2>2, <2>3, <2>4, <2>5 DEF TypeOK
  <1>2. QueueInv /\ OrderInv
    BY DEF QueueInv, OrderInv, Busy, Running, Jobs
  <1>3. StageInv
    BY DEF StageInv, Jobs, Running, Working
  <1>4. RowInv /\ KeyInv
    BY DEF RowInv, KeyInv, Jobs
  <1>5. MetricsInv /\ OnlyParsedIsShown /\ NewestInv
    BY DEF MetricsInv, OnlyParsedIsShown, NewestInv, Jobs
  <1>6. AloneInv
    BY DEF AloneInv, Replaces, YearIsOneSnapshot, Busy, Running, Jobs
  <1>7. YearsInv /\ KeptInv
    BY DEF YearsInv, KeptInv, Working, Running, Jobs
  <1> QED BY <1>1, <1>2, <1>3, <1>4, <1>5, <1>6, <1>7 DEF IInv

LEMMA TypeNext == TypeOK /\ StageInv /\ [Next]_vars => TypeOK'
  <1> SUFFICES ASSUME TypeOK, StageInv, [Next]_vars PROVE TypeOK'
    OBVIOUS
  <1> USE DEF TypeOK, Jobs, Goto, NotAlone, txn
  <1>1. CASE UNCHANGED vars
    BY <1>1 DEF vars
  <1>2. ASSUME NEW s \in Snapshots, NEW files \in Uploads, HandOver(s, files) PROVE TypeOK'
    BY <1>2 DEF HandOver
  <1>3. ASSUME NEW s \in Snapshots, Rerun(s) PROVE TypeOK'
    BY <1>3, Shape DEF Rerun
  <1>4. CASE Begin
    <2>1. PICK s \in Snapshots : queue' = Tail(queue) /\ pc' = [pc EXCEPT ![s] = "loading"]
      BY <1>4, BeginEffect
    <2>2. queue' \in Seq(Snapshots) /\ overlap' \in BOOLEAN
      BY <1>4, <2>1 DEF Begin
    <2> QED BY <1>4, <2>1, <2>2 DEF Begin, Running
  <1>5. ASSUME NEW b \in Boots, Seed(b) PROVE TypeOK'
    <2> DEFINE g == [year |-> SeedYear, fallback |-> FALSE, rows |-> SeedRows(b)]
    <2>1. g \in Group /\ todo' = [todo EXCEPT ![b] = {g}]
      BY <1>5, SeedGroup DEF Seed
    <2> HIDE DEF g
    <2> QED BY <1>5, <2>1 DEF Seed, Running
  <1>6. ASSUME NEW s \in Snapshots, Load(s) PROVE TypeOK'
    <2>1. PICK gs : todo' = [todo EXCEPT ![s] = gs] /\ NextGroup(s, gs)
      BY <1>6 DEF Load
    <2>2. \A g \in todo'[s] : g \in Group
      BY <1>6, LoadEffect
    <2>3. gs \subseteq Group
      BY <2>1, <2>2
    <2> QED BY <1>6, <2>1, <2>3 DEF Load, NextGroup, Running
  <1>7. ASSUME NEW s \in Jobs, Abort(s) PROVE TypeOK'
    BY <1>7 DEF Abort, EndTxn
  <1>8. ASSUME NEW s \in Jobs, DStarts(s) PROVE TypeOK'
    <2>1. OfYear(s, "projects") \subseteq Row /\ OfYear(s, "metrics") \subseteq Row
      BY DEF OfYear, Visible
    <2>2. target' \in [Jobs -> SUBSET Row]
      BY <1>8, <2>1 DEF DStarts, DeleteStarts
    <2>3. pc' \in [Jobs -> {"none", "queued"} \cup Ended \cup Running]
      BY <1>8 DEF DStarts, DeleteStarts, Running
    <2> QED BY <1>8, <2>2, <2>3 DEF DStarts, DeleteStarts
  <1>9. ASSUME NEW s \in Jobs, DEnds(s) PROVE TypeOK'
    <2>1. /\ target' \in [Jobs -> SUBSET Row]
          /\ marked' \in [Jobs -> SUBSET Row] /\ added' \in [Jobs -> SUBSET Row]
      BY <1>9 DEF DEnds, DeleteEnds
    <2>2. pc' \in [Jobs -> {"none", "queued"} \cup Ended \cup Running]
      BY <1>9 DEF DEnds, DeleteEnds, Running
    <2> QED BY <1>9, <2>1, <2>2 DEF DEnds, DeleteEnds
  <1>10. ASSUME NEW s \in Jobs, Insert(s) PROVE TypeOK'
    <2>1. First(todo[s]).rows \subseteq Row
      BY <1>10, InsertEffect DEF Group
    <2>2. todo' \in [Jobs -> SUBSET Group] /\ added' \in [Jobs -> SUBSET Row]
      BY <1>10, <2>1 DEF Insert
    <2>3. pc' \in [Jobs -> {"none", "queued"} \cup Ended \cup Running]
      BY <1>10 DEF Insert, NextGroup, Running
    <2> QED BY <1>10, <2>2, <2>3 DEF Insert
  <1>11. ASSUME NEW s \in Jobs, Finish(s) PROVE TypeOK'
    BY <1>11 DEF Finish, EndTxn, Visible, Ended
  <1> QED BY <1>1, <1>2, <1>3, <1>4, <1>5, <1>6, <1>7, <1>8, <1>9, <1>10, <1>11, StepCases

LEMMA QueueNext == TypeOK /\ QueueInv /\ StageInv /\ [Next]_vars => QueueInv'
  <1> SUFFICES ASSUME TypeOK, QueueInv, StageInv, [Next]_vars PROVE QueueInv'
    OBVIOUS
  <1>0. queue \in Seq(Snapshots) /\ \A i \in 1..Len(queue) : queue[i] \in Snapshots /\ queue[i] \in Jobs
    BY DEF TypeOK, Jobs
  <1>s. ASSUME NEW s \in Jobs, queue' = queue, pc[s] # "queued", \A q \in Jobs \ {s} : pc'[q] = pc[q] PROVE QueueInv'
    BY <1>0, <1>s DEF QueueInv
  <1>a. ASSUME NEW s \in Snapshots, pc[s] # "queued", queue' = Append(queue, s), pc' = [pc EXCEPT ![s] = "queued"]
        PROVE  QueueInv'
    <2>1. Len(queue') = Len(queue) + 1 /\ queue'[Len(queue) + 1] = s /\ \A i \in 1..Len(queue) : queue'[i] = queue[i]
      BY <1>0, <1>a
    <2>2. \A i \in 1..Len(queue) : queue[i] # s
      BY <1>0, <1>a DEF QueueInv
    <2>3. pc'[s] = "queued" /\ \A q \in Jobs \ {s} : pc'[q] = pc[q]
      BY <1>a DEF TypeOK, Jobs
    <2>4. \A i \in 1..Len(queue') : i = Len(queue) + 1 \/ i \in 1..Len(queue)
      BY <1>0, <2>1
    <2> QED BY <1>0, <2>1, <2>2, <2>3, <2>4 DEF QueueInv
  <1>1. CASE UNCHANGED vars
    BY <1>1 DEF QueueInv, vars
  <1>2. ASSUME NEW s \in Snapshots, NEW files \in Uploads, HandOver(s, files) PROVE QueueInv'
    BY <1>2, <1>a DEF HandOver, Goto, StageInv
  <1>3. ASSUME NEW s \in Snapshots, Rerun(s) PROVE QueueInv'
    BY <1>3, <1>a DEF Rerun, Goto
  <1>4. CASE Begin
    <2>1. PICK s \in Snapshots : Len(queue) > 0 /\ s = queue[1] /\ queue' = Tail(queue) /\ pc' = [pc EXCEPT ![s] = "loading"]
      BY <1>4, BeginEffect
    <2>2. Len(queue') = Len(queue) - 1 /\ \A i \in 1..Len(queue') : queue'[i] = queue[i + 1]
      BY <1>0, <2>1
    <2>3. \A i \in 1..Len(queue') : i + 1 \in 1..Len(queue) /\ i + 1 # 1
      BY <1>0, <2>1, <2>2
    <2>4. \A i \in 1..Len(queue') : queue[i + 1] # s
      <3>1. 1 \in 1..Len(queue)
        BY <1>0, <2>1
      <3> QED BY <2>1, <2>3, <3>1 DEF QueueInv
    <2>5. \A q \in Jobs \ {s} : pc'[q] = pc[q]
      BY <2>1 DEF TypeOK, Jobs
    <2>6. \A i \in 1..Len(queue') : pc'[queue'[i]] = "queued"
      BY <1>0, <2>2, <2>3, <2>4, <2>5 DEF QueueInv
    <2>7. ASSUME NEW i \in 1..Len(queue'), NEW j \in 1..Len(queue'), queue'[i] = queue'[j] PROVE i = j
      <3>1. i + 1 = j + 1
        BY <2>2, <2>3, <2>7 DEF QueueInv
      <3> QED BY <3>1
    <2> QED BY <2>6, <2>7 DEF QueueInv
  <1>5. ASSUME NEW b \in Boots, Seed(b) PROVE QueueInv'
    BY <1>5, <1>s, SeedEffect DEF Same, Jobs
  <1>6. ASSUME NEW s \in Snapshots, Load(s) PROVE QueueInv'
    BY <1>6, <1>s, LoadEffect DEF Same, Jobs
  <1>7. ASSUME NEW s \in Jobs, Abort(s) PROVE QueueInv'
    BY <1>7, <1>s, AbortEffect DEF Same, Running
  <1>8. ASSUME NEW s \in Jobs, DStarts(s) PROVE QueueInv'
    BY <1>8, <1>s, StartsEffect DEF Same
  <1>9. ASSUME NEW s \in Jobs, DEnds(s) PROVE QueueInv'
    BY <1>9, <1>s, EndsEffect DEF Same
  <1>10. ASSUME NEW s \in Jobs, Insert(s) PROVE QueueInv'
    BY <1>10, <1>s, InsertEffect DEF Same
  <1>11. ASSUME NEW s \in Jobs, Finish(s) PROVE QueueInv'
    BY <1>11, <1>s, FinishEffect DEF Same
  <1> QED BY <1>1, <1>2, <1>3, <1>4, <1>5, <1>6, <1>7, <1>8, <1>9, <1>10, <1>11, StepCases

LEMMA StageNext == TypeOK /\ QueueInv /\ StageInv /\ [Next]_vars => StageInv'
  <1> SUFFICES ASSUME TypeOK, QueueInv, StageInv, [Next]_vars PROVE StageInv'
    OBVIOUS
  <1> USE DEF StageInv, Working, Running
  <1>0. Snapshots \subseteq Jobs /\ Boots \subseteq Jobs /\ Boots \cap Snapshots = {}
    BY Shape DEF Jobs
  <1>t. status \in [Snapshots -> {"open", "committed", "parsed", "failed"}] /\ DOMAIN pc = Jobs
    BY DEF TypeOK
  <1>1. CASE UNCHANGED vars
    BY <1>1 DEF vars, txn
  <1>2. ASSUME NEW s \in Snapshots, NEW files \in Uploads, HandOver(s, files) PROVE StageInv'
    BY <1>0, <1>t, <1>2 DEF HandOver, Goto, txn
  <1>3. ASSUME NEW s \in Snapshots, Rerun(s) PROVE StageInv'
    BY <1>0, <1>t, <1>3 DEF Rerun, Goto, txn
  <1>4. CASE Begin
    <2>1. PICK s \in Snapshots : /\ Len(queue) > 0 /\ s = queue[1] /\ pc' = [pc EXCEPT ![s] = "loading"]
                                 /\ UNCHANGED <<status, sent, committed, reruns, txn, shown>>
      BY <1>4, BeginEffect
    <2>3. pc[s] = "queued"
      BY <2>1, FrontIsQueued
    <2> QED BY <1>0, <1>t, <2>1, <2>3 DEF txn
  <1>5. ASSUME NEW b \in Boots, Seed(b) PROVE StageInv'
    BY <1>0, <1>5, SeedEffect DEF Same
  <1>6. ASSUME NEW s \in Snapshots, Load(s) PROVE StageInv'
    BY <1>0, <1>6, LoadEffect DEF Same
  <1>7. ASSUME NEW s \in Jobs, Abort(s) PROVE StageInv'
    BY <1>0, <1>7, AbortEffect DEF Same, Empty, Ended
  <1>8. ASSUME NEW s \in Jobs, DStarts(s) PROVE StageInv'
    BY <1>0, <1>8, StartsEffect DEF Same
  <1>9. ASSUME NEW s \in Jobs, DEnds(s) PROVE StageInv'
    BY <1>0, <1>9, EndsEffect DEF Same
  <1>10. ASSUME NEW s \in Jobs, Insert(s) PROVE StageInv'
    BY <1>0, <1>10, InsertEffect DEF Same
  <1>11. ASSUME NEW s \in Jobs, Finish(s) PROVE StageInv'
    BY <1>0, <1>t, <1>11, FinishEffect DEF Same, Empty, Ended
  <1> QED BY <1>1, <1>2, <1>3, <1>4, <1>5, <1>6, <1>7, <1>8, <1>9, <1>10, <1>11, StepCases

\* Steps that change neither a transaction nor what is shown.
LEMMA QuietSteps ==
  ASSUME [Next]_vars, TypeOK
  PROVE  \/ UNCHANGED <<txn, shown>>
         \/ \E s \in Snapshots : Load(s)
         \/ \E b \in Boots : Seed(b)
         \/ \E s \in Jobs : Abort(s) \/ DStarts(s) \/ DEnds(s) \/ Insert(s) \/ Finish(s)
  <1>1. UNCHANGED vars => UNCHANGED <<txn, shown>>
    BY DEF vars
  <1>2. (\E s \in Snapshots : (\E files \in Uploads : HandOver(s, files)) \/ Rerun(s)) \/ Begin
        => UNCHANGED <<txn, shown>>
    BY DEF HandOver, Rerun, Begin
  <1> QED BY <1>1, <1>2, StepCases

LEMMA RowNext == TypeOK /\ StageInv /\ RowInv /\ [Next]_vars => RowInv'
  <1> SUFFICES ASSUME TypeOK, StageInv, RowInv, [Next]_vars PROVE RowInv'
    OBVIOUS
  <1> USE DEF RowInv
  <1>0. Snapshots \subseteq Jobs /\ Boots \subseteq Jobs
    BY DEF Jobs
  <1>1. CASE UNCHANGED <<txn, shown>>
    BY <1>1 DEF txn
  <1>2. ASSUME NEW s \in Snapshots, Load(s) PROVE RowInv'
    <2>1. target'[s] = {}
      BY <1>0, <1>2, LoadEffect DEF StageInv, Working, Running
    <2> QED BY <1>0, <1>2, <2>1, LoadEffect DEF Same
  <1>3. ASSUME NEW b \in Boots, Seed(b) PROVE RowInv'
    <2>1. target'[b] = {}
      BY <1>0, <1>3, SeedEffect DEF StageInv, Working, Running
    <2> QED BY <1>0, <1>3, <2>1, SeedEffect DEF Same
  <1>4. ASSUME NEW s \in Jobs, Abort(s) PROVE RowInv'
    BY <1>4, AbortEffect DEF Same, Empty
  <1>5. ASSUME NEW s \in Jobs, DStarts(s) PROVE RowInv'
    <2>1. \A r \in target'[s] : r.year = First(todo[s]).year
      BY <1>5, StartsEffect DEF OfYear
    <2> QED BY <1>5, <2>1, StartsEffect DEF Same
  <1>6. ASSUME NEW s \in Jobs, DEnds(s) PROVE RowInv'
    BY <1>6, EndsEffect DEF Same
  <1>7. ASSUME NEW s \in Jobs, Insert(s) PROVE RowInv'
    <2>1. Whole(First(todo[s]), s)
      BY <1>7, InsertEffect
    <2>2. \A r \in added'[s] : r.from = s /\ (IsMetrics(r) => r.key = None)
      BY <1>7, <2>1, InsertEffect DEF Whole
    <2> QED BY <1>7, <2>2, InsertEffect DEF Same
  <1>8. ASSUME NEW s \in Jobs, Finish(s) PROVE RowInv'
    BY <1>8, FinishEffect DEF Same, Empty
  <1> QED BY <1>1, <1>2, <1>3, <1>4, <1>5, <1>6, <1>7, <1>8, QuietSteps

LEMMA KeyNext == TypeOK /\ StageInv /\ RowInv /\ KeyInv /\ [Next]_vars => KeyInv'
  <1> SUFFICES ASSUME TypeOK, StageInv, RowInv, KeyInv, [Next]_vars PROVE KeyInv'
    OBVIOUS
  <1>0. Snapshots \subseteq Jobs /\ Boots \subseteq Jobs
    BY DEF Jobs
  <1>s. \A r, x : SameKey(r, x) <=> SameKey(x, r)
    BY DEF SameKey
  <1>1. CASE UNCHANGED <<marked, added, shown>>
    BY <1>1 DEF KeyInv
  <1>2. ASSUME NEW s \in Jobs, UNCHANGED shown, marked'[s] = marked[s], added'[s] = added[s],
               \A q \in Jobs \ {s} : Same(q)
        PROVE  KeyInv'
    BY <1>2 DEF KeyInv, Same
  <1>3. ASSUME NEW s \in Jobs, Abort(s) PROVE KeyInv'
    BY <1>3, AbortEffect DEF KeyInv, Same, Empty
  <1>4. ASSUME NEW s \in Jobs, DEnds(s) PROVE KeyInv'
    <2>1. /\ \A q \in Jobs \ {s} : marked[q] \cap target[s] = {}
          /\ marked'[s] = marked[s] \cup (target[s] \cap shown)
          /\ added'[s] = added[s] \ target[s]
          /\ \A q \in Jobs \ {s} : marked'[q] = marked[q] /\ added'[q] = added[q]
          /\ shown' = shown
      BY <1>4, EndsEffect DEF Same
    <2> QED BY <2>1 DEF KeyInv
  <1>5. ASSUME NEW s \in Jobs, Insert(s) PROVE KeyInv'
    <2> DEFINE rs == First(todo[s]).rows
    <2>1. /\ marked'[s] = marked[s] /\ added'[s] = added[s] \cup rs
          /\ \A q \in Jobs \ {s} : marked'[q] = marked[q] /\ added'[q] = added[q]
          /\ shown' = shown
      BY <1>5, InsertEffect DEF Same
    <2>2. /\ \A r \in rs : \A x \in (shown \ marked[s]) \cup added[s] : ~SameKey(r, x)
          /\ \A r \in rs : \A q \in Jobs \ {s} : \A x \in added[q] : ~SameKey(r, x)
      BY <1>5, InsertEffect DEF Visible
    <2>3. \A q, r \in rs : SameKey(q, r) => q = r
      BY <1>5, InsertEffect DEF RowInv, Whole
    <2> HIDE DEF rs
    <2> QED BY <1>s, <2>1, <2>2, <2>3 DEF KeyInv
  <1>6. ASSUME NEW s \in Jobs, Finish(s) PROVE KeyInv'
    <2>1. /\ marked'[s] = {} /\ added'[s] = {}
          /\ \A q \in Jobs \ {s} : marked'[q] = marked[q] /\ added'[q] = added[q]
          /\ shown' = (shown \ marked[s]) \cup added[s]
      BY <1>6, FinishEffect DEF Same, Empty
    <2>2. \A q \in Jobs : marked'[q] \subseteq shown'
      BY <2>1 DEF KeyInv
    <2>3. \A q, p \in Jobs : q # p => marked'[q] \cap marked'[p] = {}
      BY <2>1 DEF KeyInv
    <2>4. ASSUME NEW q \in Jobs, NEW r \in added'[q], NEW x \in shown' \ marked'[q] PROVE ~SameKey(r, x)
      BY <2>1, <2>4 DEF KeyInv
    <2>5. ASSUME NEW r \in shown', NEW x \in shown', SameKey(r, x) PROVE r = x
      BY <1>s, <2>1, <2>5 DEF KeyInv
    <2> QED BY <2>1, <2>2, <2>3, <2>4, <2>5 DEF KeyInv
  <1> QED BY <1>0, <1>1, <1>2, <1>3, <1>4, <1>5, <1>6, QuietSteps, LoadEffect, SeedEffect, StartsEffect DEF txn

LEMMA MetricsNext == TypeOK /\ QueueInv /\ StageInv /\ RowInv /\ KeyInv /\ MetricsInv /\ [Next]_vars => MetricsInv'
  <1> SUFFICES ASSUME TypeOK, QueueInv, StageInv, RowInv, KeyInv, MetricsInv, [Next]_vars PROVE MetricsInv'
    OBVIOUS
  <1>0. Snapshots \subseteq Jobs /\ Boots \subseteq Jobs
    BY DEF Jobs
  <1> DEFINE Covered(s) == \A r \in marked[s] \cup added[s] :
               HasMetrics(added[s], r.year) \/ (pc[s] \in Working /\ r.year = First(todo[s]).year)
  <1>a. (\A s \in Jobs : Covered(s)) /\ \A r \in shown : HasMetrics(shown, r.year)
    BY DEF MetricsInv
  <1>b. ASSUME NEW s \in Jobs, \A q \in Jobs \ {s} : Same(q), Covered(s)', shown' = shown PROVE MetricsInv'
    <2>1. \A q \in Jobs \ {s} : Covered(q)'
      BY <1>a, <1>b DEF Same
    <2> HIDE DEF Covered
    <2>2. \A q \in Jobs : Covered(q)'
      BY <1>b, <2>1
    <2> QED BY <1>a, <1>b, <2>2 DEF MetricsInv, Covered, HasMetrics
  <1>1. CASE UNCHANGED vars
    BY <1>1 DEF MetricsInv, HasMetrics, vars, txn
  <1>2. ASSUME NEW s \in Snapshots, (\E files \in Uploads : HandOver(s, files)) \/ Rerun(s) PROVE MetricsInv'
    <2>1. \A q \in Jobs \ {s} : Same(q)
      BY <1>2 DEF HandOver, Rerun, Goto, Same, txn, TypeOK
    <2>2. marked'[s] = {} /\ added'[s] = {} /\ shown' = shown
      BY <1>0, <1>2 DEF HandOver, Rerun, txn, StageInv, Working, Running
    <2> QED BY <1>0, <1>b, <2>1, <2>2
  <1>3. CASE Begin
    <2>1. PICK s \in Snapshots : /\ Len(queue) > 0 /\ s = queue[1]
                                 /\ pc' = [pc EXCEPT ![s] = "loading"] /\ status[s] \in {"committed", "failed"}
                                 /\ UNCHANGED <<txn, shown>>
      BY <1>3, BeginEffect
    <2>2. \A q \in Jobs \ {s} : Same(q)
      BY <2>1 DEF Same, txn, TypeOK
    <2>3. marked'[s] = {} /\ added'[s] = {} /\ shown' = shown
      BY <1>0, <2>1, FrontIsQueued DEF txn, StageInv, Working, Running
    <2> QED BY <1>0, <1>b, <2>2, <2>3
  <1>4. ASSUME NEW s \in Snapshots, Load(s) PROVE MetricsInv'
    <2>1. marked'[s] = {} /\ added'[s] = {}
      BY <1>0, <1>4, LoadEffect DEF StageInv, Working, Running
    <2> QED BY <1>0, <1>4, <1>b, <2>1, LoadEffect
  <1>5. ASSUME NEW b \in Boots, Seed(b) PROVE MetricsInv'
    <2>1. marked'[b] = {} /\ added'[b] = {}
      BY <1>0, <1>5, SeedEffect DEF StageInv, Working, Running
    <2> QED BY <1>0, <1>5, <1>b, <2>1, SeedEffect
  <1>6. ASSUME NEW s \in Jobs, Abort(s) PROVE MetricsInv'
    <2>1. marked'[s] = {} /\ added'[s] = {}
      BY <1>6, AbortEffect DEF Empty
    <2> QED BY <1>6, <1>b, <2>1, AbortEffect
  <1>7. ASSUME NEW s \in Jobs, DStarts(s) PROVE MetricsInv'
    <2>1. pc'[s] \in Working /\ pc[s] \in Working
      BY <1>7, StartsEffect DEF Working, Running
    <2>2. Covered(s)'
      BY <1>7, <1>a, <2>1, StartsEffect
    <2> QED BY <1>7, <1>b, <2>2, StartsEffect
  <1>8. ASSUME NEW s \in Jobs, DEnds(s) PROVE MetricsInv'
    <2> DEFINE y == First(todo[s]).year
    <2>1. pc'[s] \in Working /\ todo'[s] = todo[s]
      BY <1>8, EndsEffect DEF Working, Running
    <2>2. marked'[s] = marked[s] \cup (target[s] \cap shown) /\ added'[s] = added[s] \ target[s]
      BY <1>8, EndsEffect
    <2>3. \A r \in target[s] : r.year = y
      BY DEF RowInv
    <2>4. \A r \in marked'[s] \cup added'[s] : r.year # y => HasMetrics(added[s], r.year)
      BY <1>a, <2>2, <2>3
    <2>5. \A r \in marked'[s] \cup added'[s] : r.year # y => HasMetrics(added'[s], r.year)
      BY <2>2, <2>3, <2>4 DEF HasMetrics
    <2>6. Covered(s)'
      BY <2>1, <2>5
    <2> QED BY <1>8, <1>b, <2>6, EndsEffect
  <1>9. ASSUME NEW s \in Jobs, Insert(s) PROVE MetricsInv'
    <2> DEFINE g == First(todo[s])
    <2>1. Whole(g, s) /\ added'[s] = added[s] \cup g.rows /\ marked'[s] = marked[s]
      BY <1>9, InsertEffect DEF RowInv
    <2>2. HasMetrics(added'[s], g.year)
      BY <2>1 DEF Whole, HasMetrics
    <2>3. \A r \in marked[s] \cup added[s] : HasMetrics(added'[s], r.year)
      BY <1>a, <2>1, <2>2 DEF HasMetrics
    <2>4. \A r \in g.rows : r.year = g.year
      BY <2>1 DEF Whole
    <2>5. Covered(s)'
      BY <2>1, <2>2, <2>3, <2>4
    <2> QED BY <1>9, <1>b, <2>5, InsertEffect
  <1>10. ASSUME NEW s \in Jobs, Finish(s) PROVE MetricsInv'
    <2>1. marked'[s] = {} /\ added'[s] = {} /\ shown' = (shown \ marked[s]) \cup added[s] /\ pc[s] \notin Working
      BY <1>10, FinishEffect DEF Empty, Working
    <2>2. \A r \in marked[s] \cup added[s] : HasMetrics(added[s], r.year)
      BY <1>a, <2>1
    <2>3. ASSUME NEW r \in shown' PROVE HasMetrics(shown', r.year)
      <3>1. CASE r \in added[s]
        BY <2>1, <2>2, <3>1 DEF HasMetrics
      <3>2. CASE r \in shown
        <4>1. PICK m \in shown : IsMetrics(m) /\ m.year = r.year
          BY <1>a, <3>2 DEF HasMetrics
        <4>2. CASE m \in marked[s]
          BY <2>1, <2>2, <4>1, <4>2 DEF HasMetrics
        <4>3. CASE m \notin marked[s]
          BY <2>1, <4>1, <4>3 DEF HasMetrics
        <4> QED BY <4>2, <4>3
      <3> QED BY <2>1, <3>1, <3>2
    <2>4. \A q \in Jobs : Covered(q)'
      <3>1. \A q \in Jobs \ {s} : Covered(q)'
        BY <1>10, <1>a, FinishEffect DEF Same
      <3> QED BY <2>1, <3>1
    <2> HIDE DEF Covered
    <2> QED BY <2>3, <2>4 DEF MetricsInv, Covered
  <1> QED BY <1>1, <1>2, <1>3, <1>4, <1>5, <1>6, <1>7, <1>8, <1>9, <1>10, StepCases

LEMMA ShownNext == TypeOK /\ StageInv /\ RowInv /\ OnlyParsedIsShown /\ [Next]_vars => OnlyParsedIsShown'
  <1> SUFFICES ASSUME TypeOK, StageInv, RowInv, OnlyParsedIsShown, [Next]_vars PROVE OnlyParsedIsShown'
    OBVIOUS
  <1> DEFINE Stays == /\ \A q \in Snapshots : status[q] = "parsed" => status'[q] = "parsed"
                      /\ \A b \in Boots : pc[b] = "seeded" => pc'[b] = "seeded"
  <1>0. Snapshots \subseteq Jobs /\ Boots \subseteq Jobs /\ Boots \cap Snapshots = {}
    BY Shape DEF Jobs
  <1>f. \A r \in shown : r.from \in Snapshots \cup Boots
    BY DEF TypeOK, Row, Jobs
  <1>a. ASSUME Stays, shown' = shown PROVE OnlyParsedIsShown'
    BY <1>a, <1>f DEF OnlyParsedIsShown
  <1>1. CASE UNCHANGED vars
    BY <1>1, <1>a DEF vars
  <1>2. ASSUME NEW s \in Snapshots, (\E files \in Uploads : HandOver(s, files)) \/ Rerun(s) PROVE OnlyParsedIsShown'
    <2>1. Stays
      BY <1>0, <1>2 DEF HandOver, Rerun, Goto, TypeOK
    <2> QED BY <1>2, <1>a, <2>1 DEF HandOver, Rerun
  <1>3. CASE Begin
    <2>1. Stays
      BY <1>0, <1>3, BeginEffect DEF TypeOK
    <2> QED BY <1>3, <1>a, <2>1, BeginEffect
  <1>4. ASSUME NEW s \in Snapshots, Load(s) PROVE OnlyParsedIsShown'
    <2>1. Stays
      BY <1>0, <1>4, LoadEffect DEF Same
    <2> QED BY <1>4, <1>a, <2>1, LoadEffect
  <1>5. ASSUME NEW b \in Boots, Seed(b) PROVE OnlyParsedIsShown'
    <2>1. Stays
      BY <1>0, <1>5, SeedEffect DEF Same
    <2> QED BY <1>5, <1>a, <2>1, SeedEffect
  <1>6. ASSUME NEW s \in Jobs, Abort(s) PROVE OnlyParsedIsShown'
    <2>1. Stays
      BY <1>0, <1>6, AbortEffect DEF Same, StageInv, Running
    <2> QED BY <1>6, <1>a, <2>1, AbortEffect
  <1>7. ASSUME NEW s \in Jobs, DStarts(s) \/ DEnds(s) \/ Insert(s) PROVE OnlyParsedIsShown'
    <2>1. /\ pc[s] # "seeded" /\ \A q \in Jobs \ {s} : Same(q)
          /\ UNCHANGED <<status, shown>>
      BY <1>7, StartsEffect, EndsEffect, InsertEffect
    <2>2. Stays
      BY <1>0, <2>1 DEF Same
    <2> QED BY <1>a, <2>1, <2>2
  <1>8. ASSUME NEW s \in Jobs, Finish(s) PROVE OnlyParsedIsShown'
    <2>1. Stays
      BY <1>0, <1>8, FinishEffect DEF Same, TypeOK
    <2>2. \A r \in shown : IF r.from \in Boots THEN pc'[r.from] = "seeded" ELSE status'[r.from] = "parsed"
      BY <1>f, <2>1 DEF OnlyParsedIsShown
    <2>3. IF s \in Boots THEN pc'[s] = "seeded" ELSE status'[s] = "parsed"
      BY <1>0, <1>8, FinishEffect DEF TypeOK, Jobs
    <2>4. \A r \in added[s] : r.from = s
      BY DEF RowInv
    <2>5. shown' \subseteq shown \cup added[s]
      BY <1>8, FinishEffect
    <2> QED BY <2>2, <2>3, <2>4, <2>5 DEF OnlyParsedIsShown
  <1> QED BY <1>1, <1>2, <1>3, <1>4, <1>5, <1>6, <1>7, <1>8, StepCases

\* That jobs have overlapped is not forgotten.
LEMMA OverlapStays == ASSUME [Next]_vars, overlap PROVE overlap'
  <1>1. UNCHANGED vars => overlap'
    BY DEF vars
  <1>2. Begin \/ (\E b \in Boots : Seed(b)) => overlap'
    BY DEF Begin, Seed, NotAlone
  <1>3. (\E s \in Snapshots : (\E files \in Uploads : HandOver(s, files)) \/ Rerun(s) \/ Load(s)) => overlap'
    BY DEF HandOver, Rerun, Load
  <1>4. (\E s \in Jobs : Abort(s) \/ DStarts(s) \/ DEnds(s) \/ Insert(s) \/ Finish(s)) => overlap'
    BY DEF Abort, DStarts, DEnds, DeleteStarts, DeleteEnds, Insert, Finish
  <1> QED BY <1>1, <1>2, <1>3, <1>4, StepCases

LEMMA AloneNext ==
  TypeOK /\ QueueInv /\ StageInv /\ RowInv /\ AloneInv /\ [Next]_vars /\ StageInv' => AloneInv'
  <1> DEFINE Alone == /\ \A s, q \in Busy : s = q
                      /\ YearIsOneSnapshot
                      /\ \A s \in Jobs : Replaces(s)
  <1> SUFFICES ASSUME TypeOK, QueueInv, StageInv, RowInv, AloneInv, [Next]_vars, StageInv', ~overlap' PROVE Alone'
    BY DEF AloneInv
  <1>0. Snapshots \subseteq Jobs /\ Boots \subseteq Jobs
    BY DEF Jobs
  <1>a. ~overlap /\ Alone
    BY OverlapStays DEF AloneInv
  <1>i. \A q \in Jobs : pc'[q] \notin Running => Replaces(q)'
    BY DEF StageInv, Replaces, Working, Running
  <1>b. ASSUME NEW s \in Jobs, \A q \in Jobs \ {s} : Same(q), shown' = shown,
               pc[s] \in Running \/ Busy = {} \/ pc'[s] \notin Running, Replaces(s)'
        PROVE  Alone'
    <2>1. \A p, q \in Busy' : p = q
      BY <1>a, <1>b DEF Same, Busy
    <2>2. \A q \in Jobs \ {s} : Replaces(q)'
      BY <1>a, <1>b DEF Same, Replaces, OfYear, Visible
    <2>3. YearIsOneSnapshot'
      BY <1>a, <1>b DEF YearIsOneSnapshot
    <2> QED BY <1>b, <2>1, <2>2, <2>3
  <1>1. CASE UNCHANGED vars
    <2>1. \A q \in Jobs : Replaces(q)'
      BY <1>1, <1>a DEF vars, txn, Replaces, OfYear, Visible
    <2>2. Busy' = Busy /\ YearIsOneSnapshot'
      BY <1>1, <1>a DEF vars, Busy, YearIsOneSnapshot
    <2> QED BY <1>a, <2>1, <2>2
  <1>2. ASSUME NEW s \in Snapshots, (\E files \in Uploads : HandOver(s, files)) \/ Rerun(s) PROVE Alone'
    <2>1. (\A q \in Jobs \ {s} : Same(q)) /\ shown' = shown /\ pc'[s] = "queued"
      BY <1>0, <1>2 DEF HandOver, Rerun, Goto, Same, txn, TypeOK
    <2>2. Replaces(s)'
      BY <1>0, <1>i, <2>1 DEF Running
    <2> QED BY <1>0, <1>b, <2>1, <2>2 DEF Running
  <1>3. CASE Begin
    <2>1. PICK s \in Snapshots : /\ Len(queue) > 0 /\ s = queue[1]
                                 /\ pc' = [pc EXCEPT ![s] = "loading"]
                                 /\ overlap' = (overlap \/ Busy # {})
                                 /\ UNCHANGED <<txn, shown>>
      BY <1>3, BeginEffect
    <2>2. \A q \in Jobs \ {s} : Same(q)
      BY <2>1 DEF Same, txn, TypeOK
    <2>3. added'[s] = {} /\ pc'[s] = "loading"
      BY <1>0, <2>1, FrontIsQueued DEF txn, StageInv, Working, Running, TypeOK
    <2>4. Replaces(s)'
      BY <2>3 DEF Replaces
    <2> QED BY <1>0, <1>b, <2>1, <2>2, <2>4
  <1>4. ASSUME NEW s \in Snapshots, Load(s) PROVE Alone'
    <2>1. added'[s] = {} /\ pc'[s] \in {"finish", "delete_projects"} /\ pc[s] \in Running
      BY <1>0, <1>4, LoadEffect DEF StageInv, Working, Running
    <2>2. Replaces(s)'
      BY <2>1 DEF Replaces
    <2> QED BY <1>0, <1>4, <1>b, <2>1, <2>2, LoadEffect
  <1>5. ASSUME NEW b \in Boots, Seed(b) PROVE Alone'
    <2>1. added'[b] = {} /\ pc'[b] = "delete_projects" /\ Busy = {}
      BY <1>0, <1>5, SeedEffect DEF StageInv, Working, Running
    <2>2. Replaces(b)'
      BY <2>1 DEF Replaces
    <2> QED BY <1>0, <1>5, <1>b, <2>1, <2>2, SeedEffect
  <1>6. ASSUME NEW s \in Jobs, Abort(s) PROVE Alone'
    <2>1. pc'[s] \notin Running /\ pc[s] \in Running
      BY <1>6, AbortEffect DEF Running, Ended
    <2> QED BY <1>6, <1>b, <1>i, <2>1, AbortEffect
  <1>7. ASSUME NEW s \in Jobs, DStarts(s) PROVE Alone'
    <2>1. OfYear(s, "projects")' = OfYear(s, "projects") /\ OfYear(s, "metrics")' = OfYear(s, "metrics")
      BY <1>7, StartsEffect DEF OfYear, Visible
    <2>2. Replaces(s)'
      BY <1>7, <1>a, <2>1, StartsEffect DEF Replaces
    <2> QED BY <1>7, <1>b, <2>2, StartsEffect DEF Running
  <1>8. ASSUME NEW s \in Jobs, DEnds(s) PROVE Alone'
    <2>1. /\ added'[s] = added[s] \ target[s] /\ shown' = shown
          /\ marked'[s] = marked[s] \cup (target[s] \cap shown)
          /\ todo'[s] = todo[s]
      BY <1>8, EndsEffect
    <2>2. \A t : OfYear(s, t)' = OfYear(s, t) \ target[s]
      BY <2>1 DEF OfYear, Visible
    <2>3. \A a \in added'[s], r \in shown' \ marked'[s] : r.year # a.year
      BY <1>a, <2>1 DEF Replaces
    <2>4. Replaces(s)'
      BY <1>8, <1>a, <2>2, <2>3, EndsEffect DEF Replaces
    <2> QED BY <1>8, <1>b, <2>4, EndsEffect DEF Running
  <1>9. ASSUME NEW s \in Jobs, Insert(s) PROVE Alone'
    <2> DEFINE g == First(todo[s])
    <2>1. /\ pc[s] = "insert" /\ g \in todo[s] /\ pc'[s] \in {"finish", "delete_projects"}
          /\ added'[s] = added[s] \cup g.rows /\ marked'[s] = marked[s] /\ shown' = shown
      BY <1>9, InsertEffect
    <2>2. \A x \in Visible(s) : x.table \in {"projects", "metrics"}
      BY DEF Visible, TypeOK, Row
    <2>3. \A x \in Visible(s) : x.year # g.year
      BY <1>a, <2>1, <2>2 DEF Replaces, OfYear
    <2>4. \A a \in g.rows : a.year = g.year
      BY <2>1 DEF RowInv, Whole
    <2>5. \A a \in added'[s], r \in shown' \ marked'[s] : r.year # a.year
      BY <1>a, <2>1, <2>3, <2>4 DEF Replaces, Visible
    <2>6. Replaces(s)'
      BY <2>1, <2>5 DEF Replaces
    <2> QED BY <1>9, <1>b, <2>1, <2>6, InsertEffect DEF Running
  <1>10. ASSUME NEW s \in Jobs, Finish(s) PROVE Alone'
    <2>1. /\ pc[s] \in Running /\ pc'[s] \notin Running /\ (\A q \in Jobs \ {s} : Same(q))
          /\ shown' = (shown \ marked[s]) \cup added[s]
      BY <1>10, FinishEffect DEF Running, Ended
    <2>2. \A q \in Jobs : pc'[q] \notin Running
      BY <1>a, <2>1 DEF Same, Busy
    <2>3. YearIsOneSnapshot'
      BY <1>a, <2>1 DEF YearIsOneSnapshot, RowInv, Replaces
    <2> QED BY <1>i, <2>2, <2>3 DEF Busy
  <1> QED BY <1>1, <1>2, <1>3, <1>4, <1>5, <1>6, <1>7, <1>8, <1>9, <1>10, StepCases

\* What a job loads has a group for every year of its files.
LEMMA LoadCovers ==
  ASSUME NEW s \in Snapshots, NEW order, NEW y \in YearsOf(s)
  PROVE  \E g \in ParsedYears(s, order) : g.year = y
  <1>1. PICK f \in Present(s) : y = IF YearOf[f] = None THEN Today ELSE YearOf[f]
    BY DEF YearsOf
  <1>2. CASE YearOf[f] = None
    <2>1. InYear(s, None) # {}
      BY <1>1, <1>2 DEF InYear
    <2>2. [year |-> Today, fallback |-> TRUE, rows |-> YearRows(s, Today, InYear(s, None), order)]
            \in ParsedYears(s, order)
      BY <2>1 DEF ParsedYears
    <2> QED BY <1>1, <1>2, <2>2
  <1>3. CASE YearOf[f] # None
    <2>1. [year |-> y, fallback |-> FALSE, rows |-> YearRows(s, y, InYear(s, y), order)]
            \in ParsedYears(s, order)
      BY <1>1, <1>3 DEF ParsedYears
    <2> QED BY <2>1
  <1> QED BY <1>2, <1>3

LEMMA YearsNext == TypeOK /\ QueueInv /\ StageInv /\ RowInv /\ YearsInv /\ [Next]_vars => YearsInv'
  <1> SUFFICES ASSUME TypeOK, QueueInv, StageInv, RowInv, YearsInv, [Next]_vars PROVE YearsInv'
    OBVIOUS
  <1> DEFINE Whereabouts(s) == pc[s] \in Working \cup {"finish"} =>
               \A y \in YearsOf(s) : HasMetrics(added[s], y) \/ \E g \in todo[s] : g.year = y
  <1>0. Snapshots \subseteq Jobs /\ Boots \subseteq Jobs /\ Boots \cap Snapshots = {}
    BY Shape DEF Jobs
  <1>a. \A s \in Snapshots : Whereabouts(s)
    BY DEF YearsInv
  <1>b. ASSUME NEW s \in Jobs, \A q \in Jobs \ {s} : Same(q), \A q \in Snapshots \ {s} : sent'[q] = sent[q],
               s \in Snapshots => Whereabouts(s)'
        PROVE  YearsInv'
    <2>1. \A q \in Snapshots \ {s} : YearsOf(q)' = YearsOf(q)
      BY <1>b DEF YearsOf, Present
    <2>2. \A q \in Snapshots \ {s} : Whereabouts(q)'
      BY <1>0, <1>a, <1>b, <2>1 DEF Same, HasMetrics
    <2> HIDE DEF Whereabouts
    <2>3. \A q \in Snapshots : Whereabouts(q)'
      BY <1>b, <2>2
    <2> QED BY <2>3 DEF YearsInv, Whereabouts
  <1>1. CASE UNCHANGED vars
    BY <1>1 DEF YearsInv, vars, txn, YearsOf, Present, HasMetrics
  <1>2. ASSUME NEW s \in Snapshots, (\E files \in Uploads : HandOver(s, files)) \/ Rerun(s) PROVE YearsInv'
    <2>1. (\A q \in Jobs \ {s} : Same(q)) /\ pc'[s] = "queued" /\ \A q \in Snapshots \ {s} : sent'[q] = sent[q]
      BY <1>0, <1>2 DEF HandOver, Rerun, Goto, Same, txn, TypeOK
    <2> QED BY <1>0, <1>b, <2>1 DEF Working, Running
  <1>3. CASE Begin
    <2>1. PICK s \in Snapshots : pc' = [pc EXCEPT ![s] = "loading"] /\ UNCHANGED <<sent, txn>>
      BY <1>3, BeginEffect
    <2>2. (\A q \in Jobs \ {s} : Same(q)) /\ pc'[s] = "loading"
      BY <1>0, <2>1 DEF Same, txn, TypeOK
    <2> QED BY <1>0, <1>b, <2>1, <2>2 DEF Working
  <1>4. ASSUME NEW s \in Snapshots, Load(s) PROVE YearsInv'
    <2>1. PICK order : todo'[s] = ParsedYears(s, order)
      BY <1>4, LoadEffect
    <2>2. \A y \in YearsOf(s) : \E g \in todo'[s] : g.year = y
      BY <2>1, LoadCovers
    <2>3. sent' = sent /\ YearsOf(s)' = YearsOf(s)
      BY <1>4, LoadEffect DEF YearsOf, Present
    <2> QED BY <1>0, <1>4, <1>b, <2>2, <2>3, LoadEffect
  <1>5. ASSUME NEW b \in Boots, Seed(b) PROVE YearsInv'
    BY <1>0, <1>5, <1>b, SeedEffect
  <1>6. ASSUME NEW s \in Jobs, Abort(s) PROVE YearsInv'
    <2>1. pc'[s] \notin Working \cup {"finish"}
      BY <1>6, AbortEffect DEF Working, Running, Ended
    <2> QED BY <1>6, <1>b, <2>1, AbortEffect
  <1>7. ASSUME NEW s \in Jobs, DStarts(s) PROVE YearsInv'
    <2>1. YearsOf(s)' = YearsOf(s) /\ pc[s] \in Working
      BY <1>7, StartsEffect DEF YearsOf, Present, Working, Running
    <2>2. s \in Snapshots => Whereabouts(s)'
      BY <1>7, <1>a, <2>1, StartsEffect DEF HasMetrics
    <2> QED BY <1>7, <1>b, <2>2, StartsEffect
  <1>8. ASSUME NEW s \in Jobs, DEnds(s) PROVE YearsInv'
    <2> DEFINE g == First(todo[s])
    <2>1. YearsOf(s)' = YearsOf(s) /\ pc[s] \in Working /\ todo'[s] = todo[s] /\ added'[s] = added[s] \ target[s]
      BY <1>8, EndsEffect DEF YearsOf, Present, Working, Running
    <2>2. g \in todo[s]
      BY <2>1, FirstIn DEF StageInv, TypeOK
    <2>3. \A r \in target[s] : r.year = g.year
      BY DEF RowInv
    <2>4. s \in Snapshots => Whereabouts(s)'
      BY <1>a, <2>1, <2>2, <2>3 DEF HasMetrics
    <2> QED BY <1>8, <1>b, <2>4, EndsEffect
  <1>9. ASSUME NEW s \in Jobs, Insert(s) PROVE YearsInv'
    <2> DEFINE g == First(todo[s])
    <2>1. /\ YearsOf(s)' = YearsOf(s) /\ pc[s] \in Working /\ todo'[s] = todo[s] \ {g}
          /\ added'[s] = added[s] \cup g.rows /\ g \in todo[s]
      BY <1>9, InsertEffect DEF YearsOf, Present, Working, Running
    <2>2. HasMetrics(added'[s], g.year)
      BY <2>1 DEF RowInv, Whole, HasMetrics
    <2>3. s \in Snapshots => Whereabouts(s)'
      BY <1>a, <2>1, <2>2 DEF HasMetrics
    <2> QED BY <1>9, <1>b, <2>3, InsertEffect
  <1>10. ASSUME NEW s \in Jobs, Finish(s) PROVE YearsInv'
    <2>1. pc'[s] \notin Working \cup {"finish"}
      BY <1>10, FinishEffect DEF Working, Running, Ended
    <2> QED BY <1>10, <1>b, <2>1, FinishEffect
  <1> QED BY <1>1, <1>2, <1>3, <1>4, <1>5, <1>6, <1>7, <1>8, <1>9, <1>10, StepCases

LEMMA OrderNext == TypeOK /\ QueueInv /\ StageInv /\ OrderInv /\ [Next]_vars => OrderInv'
  <1> SUFFICES ASSUME TypeOK, QueueInv, StageInv, OrderInv, [Next]_vars PROVE OrderInv'
    OBVIOUS
  <1> DEFINE n == Len(committed) - Len(queue)
  <1>0. Snapshots \subseteq Jobs /\ Boots \subseteq Jobs /\ Boots \cap Snapshots = {}
    BY Shape DEF Jobs
  <1>t. /\ queue \in Seq(Snapshots) /\ committed \in Seq(Snapshots)
        /\ Len(queue) \in Nat /\ Len(committed) \in Nat
        /\ \A i \in 1..Len(committed) : committed[i] \in Snapshots
    BY DEF TypeOK
  <1>b. ASSUME UNCHANGED <<queue, committed, reruns>>, Busy' \cap Snapshots \subseteq Busy,
               \A q \in Snapshots : status[q] # "open" => status'[q] # "open"
        PROVE  OrderInv'
    <2>1. \A i \in 1..Len(committed) : status'[committed[i]] # "open"
      BY <1>t, <1>b DEF OrderInv
    <2>2. overlap => overlap'
      BY OverlapStays
    <2> QED BY <1>b, <2>1, <2>2 DEF OrderInv
  <1>1. CASE UNCHANGED vars
    BY <1>1, <1>b DEF vars, Busy
  <1>2. ASSUME NEW s \in Snapshots, NEW files \in Uploads, HandOver(s, files) PROVE OrderInv'
    <2>1. /\ status[s] = "open" /\ queue' = Append(queue, s) /\ committed' = Append(committed, s)
          /\ reruns' = reruns /\ overlap' = overlap
          /\ status' = [status EXCEPT ![s] = "committed"] /\ pc' = [pc EXCEPT ![s] = "queued"]
      BY <1>2 DEF HandOver, Goto
    <2>2. /\ Len(queue') = Len(queue) + 1 /\ queue'[Len(queue) + 1] = s
          /\ \A i \in 1..Len(queue) : queue'[i] = queue[i]
      BY <1>t, <2>1
    <2>3. /\ Len(committed') = Len(committed) + 1 /\ committed'[Len(committed) + 1] = s
          /\ \A i \in 1..Len(committed) : committed'[i] = committed[i]
      BY <1>t, <2>1
    <2>4. \A i \in 1..Len(committed) : committed[i] # s
      BY <2>1 DEF OrderInv
    <2>5. \A i \in 1..Len(committed') : i = Len(committed) + 1 \/ i \in 1..Len(committed)
      BY <1>t, <2>3
    <2>6. \A i \in 1..Len(queue') : i = Len(queue) + 1 \/ i \in 1..Len(queue)
      BY <1>t, <2>2
    <2>7. \A i \in 1..Len(committed') : status'[committed'[i]] # "open"
      <3>1. status'[s] = "committed" /\ \A q \in Snapshots \ {s} : status'[q] = status[q]
        BY <2>1 DEF TypeOK
      <3>2. \A i \in 1..Len(committed) : status[committed[i]] # "open"
        BY DEF OrderInv
      <3> QED BY <1>t, <2>3, <2>4, <2>5, <3>1, <3>2
    <2>8. \A i, j \in 1..Len(committed') : committed'[i] = committed'[j] => i = j
      BY <2>3, <2>4, <2>5 DEF OrderInv
    <2>9. ASSUME reruns = 0
          PROVE  /\ Len(queue') <= Len(committed')
                 /\ \A i \in 1..Len(queue') : queue'[i] = committed'[Len(committed') - Len(queue') + i]
                 /\ ~overlap' => \A q \in Busy' \cap Snapshots :
                      Len(queue') < Len(committed') /\ q = committed'[Len(committed') - Len(queue')]
      <3>1. /\ Len(queue) <= Len(committed)
            /\ \A i \in 1..Len(queue) : queue[i] = committed[n + i]
            /\ ~overlap => \A q \in Busy \cap Snapshots : Len(queue) < Len(committed) /\ q = committed[n]
        BY <2>9 DEF OrderInv
      <3>2. Len(committed') - Len(queue') = n
        BY <1>t, <2>2, <2>3
      <3>3. ASSUME NEW i \in 1..Len(queue') PROVE queue'[i] = committed'[n + i]
        <4>1. CASE i = Len(queue) + 1
          <5>1. n + i = Len(committed) + 1
            BY <1>t, <4>1
          <5> QED BY <2>2, <2>3, <4>1, <5>1
        <4>2. CASE i \in 1..Len(queue)
          <5>1. n + i \in 1..Len(committed)
            BY <1>t, <3>1, <4>2
          <5> QED BY <2>2, <2>3, <3>1, <4>2, <5>1
        <4> QED BY <2>6, <4>1, <4>2
      <3>4. Busy' \cap Snapshots \subseteq Busy
        BY <1>0, <2>1 DEF Busy, Running, TypeOK
      <3>5. Len(queue) < Len(committed) => n \in 1..Len(committed)
        BY <1>t
      <3>6. ~overlap => \A q \in Busy' \cap Snapshots : Len(queue) < Len(committed) /\ q = committed'[n]
        BY <2>3, <3>1, <3>4, <3>5
      <3>7. Len(queue') <= Len(committed') /\ (Len(queue) < Len(committed) => Len(queue') < Len(committed'))
        BY <1>t, <2>2, <2>3, <3>1
      <3> HIDE DEF n
      <3> QED BY <2>1, <3>2, <3>3, <3>6, <3>7
    <2> QED BY <2>1, <2>7, <2>8, <2>9 DEF OrderInv
  <1>3. ASSUME NEW s \in Snapshots, Rerun(s) PROVE OrderInv'
    <2>1. UNCHANGED <<status, committed>> /\ reruns' = reruns + 1
      BY <1>3 DEF Rerun
    <2>2. reruns' # 0
      BY <2>1, Shape DEF TypeOK
    <2> QED BY <2>1, <2>2 DEF OrderInv
  <1>4. CASE Begin
    <2>1. PICK s \in Snapshots : /\ Len(queue) > 0 /\ s = queue[1] /\ queue' = Tail(queue)
                                 /\ pc' = [pc EXCEPT ![s] = "loading"]
                                 /\ overlap' = (overlap \/ Busy # {})
                                 /\ UNCHANGED <<status, committed, reruns>>
      BY <1>4, BeginEffect
    <2>2. Len(queue') = Len(queue) - 1 /\ \A i \in 1..Len(queue') : queue'[i] = queue[i + 1]
      BY <1>t, <2>1
    <2>3. ASSUME reruns = 0
          PROVE  /\ Len(queue') <= Len(committed')
                 /\ \A i \in 1..Len(queue') : queue'[i] = committed'[Len(committed') - Len(queue') + i]
                 /\ ~overlap' => \A q \in Busy' \cap Snapshots :
                      Len(queue') < Len(committed') /\ q = committed'[Len(committed') - Len(queue')]
      <3>1. /\ Len(queue) <= Len(committed)
            /\ \A i \in 1..Len(queue) : queue[i] = committed[n + i]
        BY <2>3 DEF OrderInv
      <3>2. Len(committed') - Len(queue') = n + 1 /\ Len(queue') < Len(committed')
        <4>1. Len(queue) <= Len(committed) /\ committed' = committed /\ Len(queue') = Len(queue) - 1
          BY <2>1, <2>2, <3>1
        <4>2. Len(queue) \in Nat /\ Len(committed) \in Nat
          BY <1>t
        <4> QED BY <4>1, <4>2
      <3>3. s = committed[n + 1]
        <4>1. 1 \in 1..Len(queue)
          BY <1>t, <2>1
        <4> QED BY <2>1, <3>1, <4>1
      <3>4. ASSUME NEW i \in 1..Len(queue') PROVE queue'[i] = committed[n + 1 + i]
        <4>1. i + 1 \in 1..Len(queue) /\ n + (i + 1) = n + 1 + i
          BY <1>t, <2>2, <3>4
        <4> QED BY <2>2, <3>1, <4>1
      <3>5. ~overlap' => Busy' \cap Snapshots \subseteq {s}
        BY <1>0, <2>1 DEF Busy, TypeOK
      <3>6. Len(queue') <= Len(committed')
        BY <1>t, <2>1, <2>2, <3>1
      <3> HIDE DEF n
      <3> QED BY <2>1, <3>2, <3>3, <3>4, <3>5, <3>6
    <2> QED BY <2>1, <2>3 DEF OrderInv
  <1>5. ASSUME NEW b \in Boots, Seed(b) PROVE OrderInv'
    BY <1>0, <1>5, <1>b, SeedEffect DEF Same, Busy
  <1>6. ASSUME NEW s \in Snapshots, Load(s) PROVE OrderInv'
    BY <1>0, <1>6, <1>b, LoadEffect DEF Same, Busy, Running
  <1>7. ASSUME NEW s \in Jobs, Abort(s) PROVE OrderInv'
    BY <1>7, <1>b, AbortEffect DEF Same, Busy
  <1>8. ASSUME NEW s \in Jobs, DStarts(s) PROVE OrderInv'
    BY <1>8, <1>b, StartsEffect DEF Same, Busy, Running
  <1>9. ASSUME NEW s \in Jobs, DEnds(s) PROVE OrderInv'
    BY <1>9, <1>b, EndsEffect DEF Same, Busy, Running
  <1>10. ASSUME NEW s \in Jobs, Insert(s) PROVE OrderInv'
    BY <1>10, <1>b, InsertEffect DEF Same, Busy, Running
  <1>11. ASSUME NEW s \in Jobs, Finish(s) PROVE OrderInv'
    <2>1. Busy' \cap Snapshots \subseteq Busy
      BY <1>11, FinishEffect DEF Same, Busy, Running
    <2>2. \A q \in Snapshots : status[q] # "open" => status'[q] # "open"
      BY <1>11, FinishEffect DEF TypeOK
    <2> QED BY <1>11, <1>b, <2>1, <2>2, FinishEffect
  <1> QED BY <1>1, <1>2, <1>3, <1>4, <1>5, <1>6, <1>7, <1>8, <1>9, <1>10, <1>11, StepCases

LEMMA NewestNext ==
  /\ TypeOK /\ QueueInv /\ StageInv /\ RowInv /\ OnlyParsedIsShown
  /\ AloneInv /\ YearsInv /\ OrderInv /\ NewestInv /\ [Next]_vars
  => NewestInv'
  <1> DEFINE Newest == \A r \in shown, i, j \in 1..Len(committed) :
               r.from = committed[i] /\ status[committed[j]] = "parsed" /\ r.year \in YearsOf(committed[j]) => j <= i
  <1> SUFFICES ASSUME TypeOK, QueueInv, StageInv, RowInv, OnlyParsedIsShown, AloneInv, YearsInv, OrderInv,
                      NewestInv, [Next]_vars, ~overlap', reruns' = 0
               PROVE  Newest'
    BY DEF NewestInv
  <1>0. Snapshots \subseteq Jobs /\ Boots \subseteq Jobs /\ Boots \cap Snapshots = {}
    BY Shape DEF Jobs
  <1>t. /\ queue \in Seq(Snapshots) /\ committed \in Seq(Snapshots)
        /\ Len(queue) \in Nat /\ Len(committed) \in Nat
        /\ \A i \in 1..Len(committed) : committed[i] \in Snapshots
    BY DEF TypeOK
  <1>v. ~overlap
    BY OverlapStays
  <1>b. ASSUME UNCHANGED <<shown, committed, sent, reruns>>,
               \A q \in Snapshots : status'[q] = "parsed" => status[q] = "parsed"
        PROVE  Newest'
    BY <1>t, <1>v, <1>b DEF NewestInv, YearsOf, Present
  <1>1. CASE UNCHANGED vars
    BY <1>1, <1>b DEF vars
  <1>2. ASSUME NEW s \in Snapshots, NEW files \in Uploads, HandOver(s, files) PROVE Newest'
    <2>1. /\ status[s] = "open" /\ committed' = Append(committed, s)
          /\ status' = [status EXCEPT ![s] = "committed"] /\ sent' = [sent EXCEPT ![s] = files]
          /\ shown' = shown /\ reruns' = reruns
      BY <1>2 DEF HandOver
    <2>2. /\ Len(committed') = Len(committed) + 1 /\ committed'[Len(committed) + 1] = s
          /\ \A i \in 1..Len(committed) : committed'[i] = committed[i]
      BY <1>t, <2>1
    <2>3. \A i \in 1..Len(committed) : committed[i] # s
      BY <2>1 DEF OrderInv
    <2>4. \A i \in 1..Len(committed') : i = Len(committed) + 1 \/ i \in 1..Len(committed)
      BY <1>t, <2>2
    <2>5. status'[s] = "committed" /\ \A q \in Snapshots \ {s} : status'[q] = status[q] /\ sent'[q] = sent[q]
      BY <2>1 DEF TypeOK
    <2>7. \A r \in shown : r.from # s
      BY <1>0, <2>1 DEF OnlyParsedIsShown
    <2>8. ASSUME NEW r \in shown, NEW i \in 1..Len(committed'), NEW j \in 1..Len(committed'),
                 r.from = committed'[i], status'[committed'[j]] = "parsed", r.year \in YearsOf(committed[j])'
          PROVE  j <= i
      <3>1. i \in 1..Len(committed) /\ j \in 1..Len(committed)
        BY <2>2, <2>4, <2>5, <2>7, <2>8
      <3>2. committed'[i] = committed[i] /\ committed'[j] = committed[j] /\ committed[j] \in Snapshots \ {s}
        BY <1>t, <2>2, <2>3, <3>1
      <3>3. YearsOf(committed[j])' = YearsOf(committed[j])
        BY <2>5, <3>2 DEF YearsOf, Present
      <3>4. r.from = committed[i] /\ status[committed[j]] = "parsed" /\ r.year \in YearsOf(committed[j])
        BY <2>5, <2>8, <3>2, <3>3
      <3>5. Newest
        BY <1>v, <2>1 DEF NewestInv
      <3> QED BY <3>1, <3>4, <3>5
    <2> QED BY <2>1, <2>8
  <1>3. ASSUME NEW s \in Snapshots, Rerun(s) PROVE FALSE
    BY <1>3, Shape DEF Rerun, TypeOK
  <1>4. CASE Begin
    BY <1>4, <1>b, BeginEffect
  <1>5. ASSUME NEW b \in Boots, Seed(b) PROVE Newest'
    BY <1>5, <1>b, SeedEffect
  <1>6. ASSUME NEW s \in Snapshots, Load(s) PROVE Newest'
    BY <1>6, <1>b, LoadEffect
  <1>7. ASSUME NEW s \in Jobs, Abort(s) PROVE Newest'
    <2>1. \A q \in Snapshots : status'[q] = "parsed" => status[q] = "parsed"
      BY <1>7, AbortEffect
    <2> QED BY <1>7, <1>b, <2>1, AbortEffect
  <1>8. ASSUME NEW s \in Jobs, DStarts(s) \/ DEnds(s) \/ Insert(s) PROVE Newest'
    BY <1>8, <1>b, StartsEffect, EndsEffect, InsertEffect
  <1>9. ASSUME NEW s \in Jobs, Finish(s) PROVE Newest'
    <2>1. /\ pc[s] = "finish" /\ shown' = (shown \ marked[s]) \cup added[s]
          /\ UNCHANGED <<sent, queue, committed, reruns, overlap>>
      BY <1>9, FinishEffect
    <2>2. \A r \in added[s] : r.from = s
      BY DEF RowInv
    <2>3. \A q \in Snapshots : YearsOf(q)' = YearsOf(q)
      BY <2>1 DEF YearsOf, Present
    <2>4. Newest
      BY <1>v, <2>1 DEF NewestInv
    <2>5. CASE s \notin Snapshots
      <3>1. status' = status
        BY <1>9, <2>5, FinishEffect
      <3> QED BY <1>t, <2>1, <2>2, <2>3, <2>4, <2>5, <3>1
    <2>6. CASE s \in Snapshots
      <3> DEFINE n == Len(committed) - Len(queue)
      <3>1. Len(queue) < Len(committed) /\ s = committed[n] /\ s \in Busy
        BY <1>v, <2>1, <2>6 DEF OrderInv, Busy, Running
      <3>2. n \in 1..Len(committed)
        BY <1>t, <3>1
      <3>3. \A q \in Snapshots \ {s} : status'[q] = status[q]
        BY <1>9, <2>6, FinishEffect DEF TypeOK
      <3>4. \A i \in 1..Len(committed) : committed[i] = s => i = n
        BY <3>1, <3>2 DEF OrderInv
      <3>5. ASSUME NEW j \in 1..Len(committed), status[committed[j]] = "parsed" PROVE j <= n
        <4>1. SUFFICES ASSUME j > n PROVE FALSE
          BY <1>t, <3>2
        <4>2. j - n \in 1..Len(queue) /\ n + (j - n) = j
          BY <1>t, <3>1, <4>1
        <4>3. queue[j - n] = committed[j]
          BY <2>1, <4>2 DEF OrderInv
        <4>4. pc[committed[j]] = "queued"
          BY <4>2, <4>3 DEF QueueInv
        <4> QED BY <1>t, <3>5, <4>4 DEF StageInv
      <3>6. ASSUME NEW r \in shown \ marked[s] PROVE r.year \notin YearsOf(s)
        <4>1. SUFFICES ASSUME r.year \in YearsOf(s) PROVE FALSE
          OBVIOUS
        <4>2. todo[s] = {}
          BY <2>1, <1>0, <2>6 DEF StageInv
        <4>3. \E a \in added[s] : a.year = r.year
          BY <2>1, <2>6, <4>1, <4>2 DEF YearsInv, HasMetrics
        <4> QED BY <1>0, <1>v, <2>6, <4>3 DEF AloneInv, Replaces
      <3>7. ASSUME NEW r \in shown', NEW i \in 1..Len(committed), NEW j \in 1..Len(committed),
                   r.from = committed[i], status'[committed[j]] = "parsed", r.year \in YearsOf(committed[j])
            PROVE  j <= i
        <4>1. j = n \/ (committed[j] # s /\ status[committed[j]] = "parsed")
          BY <1>t, <3>3, <3>4, <3>7
        <4>2. CASE r \in added[s]
          <5>1. i = n
            BY <2>2, <3>4, <3>7, <4>2
          <5> QED BY <3>5, <4>1, <5>1, <3>2
        <4>3. CASE r \in shown \ marked[s]
          <5>1. j # n
            BY <3>1, <3>6, <3>7, <4>3
          <5> QED BY <2>4, <3>7, <4>1, <4>3, <5>1
        <4> QED BY <2>1, <4>2, <4>3
      <3> QED BY <1>t, <2>1, <2>3, <3>7
    <2> QED BY <2>5, <2>6
  <1> QED BY <1>1, <1>2, <1>3, <1>4, <1>5, <1>6, <1>7, <1>8, <1>9, StepCases

\* Every job number of a file is in a group of the file's year: of the files
\* that have it, one is the last.
LEMMA LoadKeeps ==
  ASSUME TypeOK, NEW s \in Snapshots, NEW order \in Orders(Present(s)),
         NEW f \in Present(s), NEW j \in JobsIn[sent[s][f]]
  PROVE  \E g \in ParsedYears(s, order) : HasJob(g.rows, j, NamedYear(f))
  <1> DEFINE fs == InYear(s, YearOf[f])
             holders == {h \in fs : j \in JobsIn[sent[s][h]]}
             N == Cardinality(Present(s))
             keys == {N - order[h] : h \in holders}
  <1>1. f \in holders /\ holders \subseteq Present(s) /\ fs \subseteq Present(s)
    BY DEF InYear
  <1>2. N \in Nat
    <2>1. IsFiniteSet(Present(s))
      BY Shape, FS_Subset DEF Present
    <2> QED BY <2>1, FS_CardinalityType
  <1>3. order \in [Present(s) -> 1..N]
    BY DEF Orders
  <1>4. j \in JobNos
    <2>1. sent[s] \in [Files -> Contents \cup {None}] /\ f \in Files /\ sent[s][f] # None
      BY Shape DEF TypeOK, Present
    <2>2. sent[s][f] \in Contents
      BY <2>1
    <2> QED BY <2>2, Shape
  <1> HIDE DEF fs, N
  <1>5. keys \subseteq Nat /\ keys # {}
    BY <1>1, <1>2, <1>3
  <1>6. PICK k \in keys : \A l \in keys : ~(<<l, k>> \in OpToRel(<, Nat))
    <2>1. IsWellFoundedOn(OpToRel(<, Nat), Nat)
      BY NatLessThanWellFounded
    <2> HIDE DEF keys
    <2> QED BY <1>5, <2>1, WFMin
  <1>7. PICK last \in holders : k = N - order[last]
    BY <1>6
  <1>8. \A h \in holders : order[h] <= order[last]
    <2>1. \A l \in keys : ~(l < k)
      BY <1>5, <1>6 DEF OpToRel
    <2>2. ASSUME NEW h \in holders PROVE order[h] <= order[last]
      <3>1. ~(N - order[h] < N - order[last])
        BY <1>7, <2>1
      <3>2. order[h] \in Nat /\ order[last] \in Nat
        BY <1>1, <1>3
      <3> QED BY <1>2, <3>1, <3>2
    <2> QED BY <2>2
  <1>9. TakenFrom(s, last, j, fs, order)
    BY <1>8 DEF TakenFrom
  <1>10. [table |-> "projects", year |-> NamedYear(f), key |-> j, from |-> s, file |-> last]
           \in YearRows(s, NamedYear(f), fs, order)
    <2>1. <<last, j>> \in fs \X JobNos
      BY <1>4
    <2> HIDE DEF holders
    <2> QED BY <1>9, <2>1 DEF YearRows
  <1>11. \E b \in BOOLEAN : [year |-> NamedYear(f), fallback |-> b, rows |-> YearRows(s, NamedYear(f), fs, order)]
           \in ParsedYears(s, order)
    <2>1. CASE YearOf[f] = None
      <3>1. fs # {} /\ fs = InYear(s, None) /\ NamedYear(f) = Today
        BY <1>1, <2>1 DEF NamedYear, fs
      <3> QED BY <3>1 DEF ParsedYears
    <2>2. CASE YearOf[f] # None
      BY <2>2 DEF ParsedYears, NamedYear, fs
    <2> QED BY <2>1, <2>2
  <1>12. HasJob(YearRows(s, NamedYear(f), fs, order), j, NamedYear(f))
    BY <1>10 DEF HasJob
  <1> QED BY <1>11, <1>12

LEMMA LoadDistinct ==
  ASSUME NEW s \in Snapshots, NEW order, ~TwoGroupsOfOneYear(s),
         NEW g \in ParsedYears(s, order), NEW h \in ParsedYears(s, order), g.year = h.year
  PROVE  g = h
  <1> DEFINE named == {YearOf[f] : f \in Present(s)} \ {None}
  <1>1. \A x \in ParsedYears(s, order) :
          \/ /\ x.year \in named /\ ~x.fallback
             /\ x = [year |-> x.year, fallback |-> FALSE, rows |-> YearRows(s, x.year, InYear(s, x.year), order)]
          \/ /\ InYear(s, None) # {} /\ x.year = Today /\ x.fallback
             /\ x = [year |-> Today, fallback |-> TRUE, rows |-> YearRows(s, Today, InYear(s, None), order)]
    BY DEF ParsedYears
  <1>2. \A y \in named : InYear(s, y) # {}
    BY DEF InYear
  <1>3. InYear(s, None) = {} \/ Today \notin named
    BY <1>2 DEF TwoGroupsOfOneYear
  <1> HIDE DEF named
  <1>4. g.fallback = h.fallback
    BY <1>1, <1>3
  <1>5. CASE ~g.fallback
    <2>1. /\ g = [year |-> g.year, fallback |-> FALSE, rows |-> YearRows(s, g.year, InYear(s, g.year), order)]
          /\ h = [year |-> h.year, fallback |-> FALSE, rows |-> YearRows(s, h.year, InYear(s, h.year), order)]
      BY <1>1, <1>4, <1>5
    <2> QED BY <2>1
  <1>6. CASE g.fallback
    BY <1>1, <1>4, <1>6
  <1> QED BY <1>5, <1>6

LEMMA KeptNext == TypeOK /\ QueueInv /\ StageInv /\ RowInv /\ KeptInv /\ [Next]_vars => KeptInv'
  <1> SUFFICES ASSUME TypeOK, QueueInv, StageInv, RowInv, KeptInv, [Next]_vars PROVE KeptInv'
    OBVIOUS
  <1> DEFINE Held(s) ==
               /\ \A g, h \in todo[s] : g.year = h.year => g = h
               /\ \A g \in todo[s], r \in added[s] : r.year # g.year
               /\ \A f \in Present(s) : \A j \in JobsIn[sent[s][f]] :
                    \/ HasJob(added[s], j, NamedYear(f))
                    \/ \E g \in todo[s] : HasJob(g.rows, j, NamedYear(f))
             Kept(s) == pc[s] \in Working \cup {"finish"} /\ ~TwoGroupsOfOneYear(s) => Held(s)
  <1>0. Snapshots \subseteq Jobs /\ Boots \subseteq Jobs /\ Boots \cap Snapshots = {}
    BY Shape DEF Jobs
  <1>a. \A s \in Snapshots : Kept(s)
    BY DEF KeptInv
  <1>b. ASSUME NEW s \in Jobs, \A q \in Jobs \ {s} : Same(q), \A q \in Snapshots \ {s} : sent'[q] = sent[q],
               s \in Snapshots => Kept(s)'
        PROVE  KeptInv'
    <2>1. ASSUME NEW q \in Snapshots \ {s} PROVE Kept(q)'
      <3>1. Present(q)' = Present(q) /\ TwoGroupsOfOneYear(q)' = TwoGroupsOfOneYear(q)
        BY <1>b DEF Present, TwoGroupsOfOneYear, InYear
      <3>2. Held(q) => Held(q)'
        BY <1>0, <1>b, <3>1 DEF Same
      <3> HIDE DEF Held
      <3> QED BY <1>0, <1>a, <1>b, <3>1, <3>2 DEF Same
    <2> HIDE DEF Kept
    <2>2. \A q \in Snapshots : Kept(q)'
      BY <1>b, <2>1
    <2> QED BY <2>2 DEF KeptInv, Kept
  <1>1. CASE UNCHANGED vars
    BY <1>1 DEF KeptInv, vars, txn, Present, TwoGroupsOfOneYear, InYear
  <1>2. ASSUME NEW s \in Snapshots, (\E files \in Uploads : HandOver(s, files)) \/ Rerun(s) PROVE KeptInv'
    <2>1. (\A q \in Jobs \ {s} : Same(q)) /\ pc'[s] = "queued" /\ \A q \in Snapshots \ {s} : sent'[q] = sent[q]
      BY <1>0, <1>2 DEF HandOver, Rerun, Goto, Same, txn, TypeOK
    <2> HIDE DEF Held
    <2> QED BY <1>0, <1>b, <2>1 DEF Working, Running
  <1>3. CASE Begin
    <2>1. PICK s \in Snapshots : pc' = [pc EXCEPT ![s] = "loading"] /\ UNCHANGED <<sent, txn>>
      BY <1>3, BeginEffect
    <2>2. (\A q \in Jobs \ {s} : Same(q)) /\ pc'[s] = "loading"
      BY <1>0, <2>1 DEF Same, txn, TypeOK
    <2> HIDE DEF Held
    <2> QED BY <1>0, <1>b, <2>1, <2>2 DEF Working
  <1>4. ASSUME NEW s \in Snapshots, Load(s) PROVE KeptInv'
    <2>1. PICK order \in Orders(Present(s)) : todo'[s] = ParsedYears(s, order)
      BY <1>4, LoadEffect
    <2>2. added'[s] = {} /\ sent' = sent /\ Present(s)' = Present(s) /\ TwoGroupsOfOneYear(s)' = TwoGroupsOfOneYear(s)
      BY <1>0, <1>4, LoadEffect DEF StageInv, Working, Running, Present, TwoGroupsOfOneYear, InYear
    <2>3. ~TwoGroupsOfOneYear(s) => Held(s)'
      BY <2>1, <2>2, LoadDistinct, LoadKeeps
    <2> HIDE DEF Held
    <2> QED BY <1>0, <1>4, <1>b, <2>2, <2>3, LoadEffect
  <1>5. ASSUME NEW b \in Boots, Seed(b) PROVE KeptInv'
    <2> HIDE DEF Kept
    <2> QED BY <1>0, <1>5, <1>b, SeedEffect
  <1>6. ASSUME NEW s \in Jobs, Abort(s) PROVE KeptInv'
    <2>1. pc'[s] \notin Working \cup {"finish"}
      BY <1>6, AbortEffect DEF Working, Running, Ended
    <2> HIDE DEF Held
    <2> QED BY <1>6, <1>b, <2>1, AbortEffect
  <1>c. ASSUME NEW s \in Jobs, sent' = sent, pc[s] \in Working, \A q \in Jobs \ {s} : Same(q),
               s \in Snapshots /\ Held(s) => Held(s)'
        PROVE  KeptInv'
    <2>1. TwoGroupsOfOneYear(s)' = TwoGroupsOfOneYear(s)
      BY <1>c DEF TwoGroupsOfOneYear, InYear, Present
    <2> HIDE DEF Held
    <2> QED BY <1>a, <1>b, <1>c, <2>1
  <1>7. ASSUME NEW s \in Jobs, DStarts(s) PROVE KeptInv'
    <2>1. pc[s] \in Working /\ Present(s)' = Present(s)
      BY <1>7, StartsEffect DEF Working, Running, Present
    <2>2. Held(s) => Held(s)'
      BY <1>7, <2>1, StartsEffect
    <2> HIDE DEF Held
    <2> QED BY <1>7, <1>c, <2>1, <2>2, StartsEffect
  <1>8. ASSUME NEW s \in Jobs, DEnds(s) PROVE KeptInv'
    <2> DEFINE g == First(todo[s])
    <2>1. /\ Present(s)' = Present(s) /\ sent' = sent /\ pc[s] \in Working
          /\ todo'[s] = todo[s] /\ added'[s] = added[s] \ target[s]
      BY <1>8, EndsEffect DEF Present, Working, Running
    <2>2. g \in todo[s]
      BY <2>1, FirstIn DEF StageInv, TypeOK
    <2>3. \A r \in target[s] : r.year = g.year
      BY DEF RowInv
    <2>4. ASSUME Held(s) PROVE Held(s)'
      <3>1. added'[s] = added[s]
        BY <2>1, <2>2, <2>3, <2>4
      <3> QED BY <2>1, <2>4, <3>1
    <2> HIDE DEF Held
    <2> QED BY <1>8, <1>c, <2>1, <2>4, EndsEffect
  <1>9. ASSUME NEW s \in Jobs, Insert(s) PROVE KeptInv'
    <2> DEFINE g == First(todo[s])
    <2>1. /\ Present(s)' = Present(s) /\ sent' = sent /\ pc[s] \in Working /\ todo'[s] = todo[s] \ {g}
          /\ added'[s] = added[s] \cup g.rows /\ g \in todo[s]
      BY <1>9, InsertEffect DEF Present, Working, Running
    <2>2. \A r \in g.rows : r.year = g.year
      BY <2>1 DEF RowInv, Whole
    <2> HIDE DEF g
    <2>3. Held(s) => Held(s)'
      BY <2>1, <2>2 DEF HasJob
    <2> HIDE DEF Held
    <2> QED BY <1>9, <1>c, <2>1, <2>3, InsertEffect
  <1>10. ASSUME NEW s \in Jobs, Finish(s) PROVE KeptInv'
    <2>1. pc'[s] \notin Working \cup {"finish"}
      BY <1>10, FinishEffect DEF Working, Running, Ended
    <2> HIDE DEF Held
    <2> QED BY <1>10, <1>b, <2>1, FinishEffect
  <1> QED BY <1>1, <1>2, <1>3, <1>4, <1>5, <1>6, <1>7, <1>8, <1>9, <1>10, StepCases

LEMMA Inductive == IInv /\ [Next]_vars => IInv'
  BY TypeNext, QueueNext, StageNext, RowNext, KeyNext, MetricsNext, ShownNext, AloneNext, YearsNext,
     OrderNext, NewestNext, KeptNext DEF IInv

-----------------------------------------------------------------------------
(* What the invariant says of the dashboard.                               *)

LEMMA Holds == Spec => []IInv
  BY InitInv, Inductive, PTL DEF Spec

\* The variables keep to their types: whatever a job holds, it holds rows of the
\* dashboard tables and groups of one year.
THEOREM TypeCorrect == Spec => []TypeOK
  <1>1. IInv => TypeOK
    BY DEF IInv
  <1> QED BY <1>1, Holds, PTL

\* A year that shows projects shows one full set of metrics, however many jobs
\* replace it at once: the keys of the metrics collide.
THEOREM Complete == Spec => []YearIsComplete
  <1>1. ASSUME IInv PROVE YearIsComplete
    <2> SUFFICES ASSUME NEW r \in shown
                 PROVE  Cardinality({m \in shown : m.table = "metrics" /\ m.year = r.year}) = 1
      BY DEF YearIsComplete
    <2> DEFINE ms == {m \in shown : m.table = "metrics" /\ m.year = r.year}
    <2>1. PICK m \in ms : TRUE
      BY <1>1 DEF IInv, MetricsInv, HasMetrics, IsMetrics
    <2>2. \A x \in ms : x = m
      <3>1. \A x \in ms : x.key = None
        BY <1>1 DEF IInv, RowInv, IsMetrics
      <3> QED BY <1>1, <3>1 DEF IInv, KeyInv, SameKey
    <2> HIDE DEF ms
    <2>3. ms = {m}
      BY <2>1, <2>2
    <2>4. Cardinality(ms) = 1
      BY <2>3, FS_Singleton
    <2> QED BY <2>4 DEF ms
  <1> QED BY <1>1, Holds, PTL

\* Nothing is shown of a job that failed or died after its first DELETE.
THEOREM OnlyParsed == Spec => []OnlyParsedIsShown
  <1>1. IInv => OnlyParsedIsShown
    BY DEF IInv
  <1> QED BY <1>1, Holds, PTL

\* Unless two jobs have overlapped, a year is from one snapshot or one seed run.
THEOREM SerialYear == Spec => []SerialYearIsOneSnapshot
  <1>1. IInv => SerialYearIsOneSnapshot
    BY DEF IInv, AloneInv, SerialYearIsOneSnapshot
  <1> QED BY <1>1, Holds, PTL

\* Unless two jobs have overlapped or one was run twice, a year shows nothing
\* older than the newest parsed snapshot that has files for it.
THEOREM Latest == Spec => []LatestWins
  <1>1. ASSUME IInv PROVE LatestWins
    <2>1. DOMAIN committed = 1..Len(committed)
      BY <1>1 DEF IInv, TypeOK
    <2> QED BY <1>1, <2>1 DEF IInv, NewestInv, LatestWins
  <1> QED BY <1>1, Holds, PTL

\* The step that ends a job as "parsed" shows every job number of its files.
THEOREM Kept == Spec => NoJobDropped
  <1> DEFINE Shows(s) ==
               pc[s] = "finish" /\ status'[s] = "parsed" /\ ~TwoGroupsOfOneYear(s) =>
                 \A f \in Present(s) : \A j \in JobsIn[sent[s][f]] :
                   \E r \in shown' : r.key = j /\ r.from = s /\
                     r.year = IF YearOf[f] = None THEN Today ELSE YearOf[f]
  <1>1. ASSUME IInv, [Next]_vars PROVE \A s \in Snapshots : Shows(s)
    <2> SUFFICES ASSUME NEW s \in Snapshots, pc[s] = "finish", status'[s] = "parsed", ~TwoGroupsOfOneYear(s),
                        NEW f \in Present(s), NEW j \in JobsIn[sent[s][f]]
                 PROVE  \E r \in shown' : r.key = j /\ r.from = s /\ r.year = NamedYear(f)
      BY DEF NamedYear
    <2>0. TypeOK /\ StageInv /\ RowInv /\ KeptInv /\ QueueInv /\ s \in Jobs
      BY <1>1 DEF IInv, Jobs
    <2>1. status[s] # "parsed" /\ todo[s] = {}
      BY <2>0 DEF StageInv, Running
    <2>2. CASE Finish(s)
      <3>1. HasJob(added[s], j, NamedYear(f))
        BY <2>0, <2>1 DEF KeptInv
      <3>2. added[s] \subseteq shown'
        BY <2>0, <2>2, FinishEffect
      <3> QED BY <2>0, <3>1, <3>2 DEF HasJob, RowInv
    <2>3. CASE ~Finish(s)
      <3>1. status'[s] # "parsed" \/ status'[s] = status[s]
        <4>1. CASE UNCHANGED vars
          BY <4>1 DEF vars
        <4>2. ASSUME NEW q \in Snapshots, (\E files \in Uploads : HandOver(q, files)) \/ Rerun(q) \/ Load(q)
              PROVE  status'[s] # "parsed" \/ status'[s] = status[s]
          BY <2>0, <4>2 DEF HandOver, Rerun, Load, TypeOK
        <4>3. CASE Begin \/ \E b \in Boots : Seed(b)
          BY <4>3 DEF Begin, Seed
        <4>4. ASSUME NEW q \in Jobs, Abort(q) PROVE status'[s] # "parsed" \/ status'[s] = status[s]
          BY <2>0, <4>4, AbortEffect
        <4>5. ASSUME NEW q \in Jobs, DStarts(q) \/ DEnds(q) \/ Insert(q) PROVE status'[s] = status[s]
          BY <4>5 DEF DStarts, DEnds, DeleteStarts, DeleteEnds, Insert
        <4>6. ASSUME NEW q \in Jobs, Finish(q) PROVE status'[s] = status[s]
          BY <2>0, <2>3, <4>6, FinishEffect DEF TypeOK
        <4> QED BY <1>1, <4>1, <4>2, <4>3, <4>4, <4>5, <4>6, StepCases
      <3> QED BY <2>1, <3>1
    <2> QED BY <2>2, <2>3
  <1>2. Spec => [][\A s \in Snapshots : Shows(s)]_vars
    BY <1>1, Holds, PTL DEF Spec
  <1> QED BY <1>2 DEF NoJobDropped
=============================================================================
