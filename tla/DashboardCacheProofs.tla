------------------------ MODULE DashboardCacheProofs ------------------------
(***************************************************************************)
(* DashboardCache for any number of parse jobs and readers: which versions *)
(* of the year a payload may mix, and that the flush does not take what it *)
(* has asked the agents for.  EventuallyFresh is a matter of fairness and  *)
(* stays with TLC.                                                         *)
(*                                                                         *)
(* The argument: the rows of a table are from jobs that have committed, so *)
(* they only get newer; and rows that a writer has deleted and not yet     *)
(* committed stay what they are, for the job after waits for it.           *)
(***************************************************************************)
EXTENDS DashboardCache, TLAPS

Committed == {"invalidate", "done"}

\* The DELETE of table t is behind this job, the INSERTs are not.
Past(j, t) == pc[j] = "insert" \/ (pc[j] = "metrics" /\ t = "projects")

\* Jobs run one after the other, and the rows are from those that committed.
OrderInv ==
  /\ \A i, j \in 1..Jobs : i < j /\ pc[j] # "begin" => pc[i] = "done"
  /\ \A t \in Tables : rows[t] # None => pc[rows[t]] \in Committed
  /\ rows["projects"] # None /\ rows["metrics"] # None => rows["projects"] <= rows["metrics"]

\* A reader has not seen the future.
ReadInv ==
  /\ \A r \in Readers, t \in Tables : got[r][t] # None => pc[got[r][t]] \in Committed
  /\ \A r \in Readers : at[r] = "metrics" /\ got[r]["projects"] # None /\ rows["metrics"] # None =>
       got[r]["projects"] <= rows["metrics"]
  /\ \A r \in Readers : at[r] \in {"metrics", "store"} => got[r]["projects"] # None
  /\ \A r \in Readers : at[r] \in {"idle", "projects"} => got[r] = Empty
  /\ \A r \in Readers : at[r] = "metrics" => got[r]["metrics"] = None
  /\ \A r \in Readers : got[r]["projects"] # None /\ got[r]["metrics"] # None =>
       got[r]["projects"] <= got[r]["metrics"]
  /\ cache # None /\ cache["metrics"] # None => cache["projects"] <= cache["metrics"]

\* Who has deleted the rows of a table is alone in this, and a job that has not
\* found any to delete finds none when it commits.
HoldInv ==
  /\ \A v, w \in Writers, t \in Tables : t \in holds[v] /\ t \in holds[w] => v = w
  /\ \A w \in Writers : pc[w] \in {"begin", "done"} \cup Committed => holds[w] = {}
  /\ \A w \in Writers, t \in Tables : t \in holds[w] => rows[t] # None
  /\ \A w \in Writers : pc[w] = "begin" => ~picked[w]
  /\ \A j \in 1..Jobs, t \in Tables : Past(j, t) => t \in holds[j] \/ rows[t] = None
  /\ \A j \in 1..Jobs, t \in Tables : pc[j] = t /\ picked[j] => rows[t] \in {target[j], None}

\* The flush has deleted what it deletes before it signals the agents.
FlushInv ==
  /\ pc[Flush] \in {"begin"} \cup Tables => ~signalled
  /\ ~signalled => reloads = {}
  /\ \A t \in holds[Flush] : rows[t] \notin reloads
  /\ \A j \in reloads : pc[j] # "begin"

IInv == TypeOK /\ OrderInv /\ ReadInv /\ HoldInv /\ FlushInv

LEMMA InitInv == Init => IInv
  <1> SUFFICES ASSUME Init PROVE IInv
    OBVIOUS
  <1> USE DEF Init, Empty, Tables, Writers
  <1>1. TypeOK
    BY DEF TypeOK, Payload
  <1>2. OrderInv
    BY DEF OrderInv
  <1>3. ReadInv
    BY DEF ReadInv
  <1>4. HoldInv
    BY DEF HoldInv, Past
  <1>5. FlushInv
    BY DEF FlushInv
  <1> QED BY <1>1, <1>2, <1>3, <1>4, <1>5 DEF IInv

LEMMA TypeNext == TypeOK /\ ReadInv /\ [Next]_vars => TypeOK'
  <1> SUFFICES ASSUME TypeOK, ReadInv, [Next]_vars PROVE TypeOK'
    OBVIOUS
  <1> USE DEF TypeOK, db, reading, history, Goto, Writers, Tables, Payload, Empty
  <1>1. ASSUME NEW w \in Writers, NEW t \in Tables, DeleteStarts(w, t) PROVE TypeOK'
    BY <1>1 DEF DeleteStarts
  <1>2. ASSUME NEW w \in Writers, NEW t \in Tables, NEW next \in {"metrics", "insert", "signal"}, DeleteEnds(w, t, next)
        PROVE  TypeOK'
    BY <1>2 DEF DeleteEnds
  <1>3. ASSUME NEW w \in Writers, Rollback(w) PROVE TypeOK'
    BY <1>3 DEF Rollback
  <1>4. ASSUME NEW j \in 1..Jobs, Job(j) PROVE TypeOK'
    <2>1. CASE Begin(j)
      BY <2>1 DEF Begin
    <2>2. CASE \E t \in Tables : DeleteStarts(j, t) \/ DeleteEnds(j, t, JobNext[t])
      BY <1>1, <1>2, <2>2 DEF JobNext
    <2>3. CASE Apply(j)
      BY <2>3 DEF Apply
    <2>4. CASE JobFails(j)
      BY <1>3, <2>4 DEF JobFails
    <2>5. CASE Invalidate(j)
      BY <2>5 DEF Invalidate
    <2>6. CASE InvalidateFails(j)
      BY <2>6 DEF InvalidateFails
    <2> QED BY <1>4, <2>1, <2>2, <2>3, <2>4, <2>5, <2>6 DEF Job
  <1>5. CASE FlushReload
    <2>1. CASE FlushBegins
      BY <2>1 DEF FlushBegins, FlushNext
    <2>2. CASE \E t \in Tables : DeleteStarts(Flush, t) \/ DeleteEnds(Flush, t, FlushNext[t])
      <3>1. FlushNext["projects"] = "metrics" /\ FlushNext["metrics"] = "signal" /\ Flush \in Writers
        BY DEF FlushNext
      <3>2. PICK t \in Tables : DeleteStarts(Flush, t) \/ DeleteEnds(Flush, t, FlushNext[t])
        BY <2>2
      <3>3. CASE DeleteStarts(Flush, t)
        BY <1>1, <3>1, <3>3
      <3>4. CASE t = "projects" /\ DeleteEnds(Flush, t, "metrics")
        BY <1>2, <3>1, <3>4
      <3>5. CASE t = "metrics" /\ DeleteEnds(Flush, t, "signal")
        BY <1>2, <3>1, <3>5
      <3> QED BY <3>1, <3>2, <3>3, <3>4, <3>5
    <2>3. CASE Signal \/ DropCache
      BY <2>3 DEF Signal, DropCache, FlushNext
    <2>4. CASE FlushCommits
      BY <2>4 DEF FlushCommits
    <2>5. CASE FlushFails
      BY <1>3, <2>5 DEF FlushFails
    <2> QED BY <1>5, <2>1, <2>2, <2>3, <2>4, <2>5 DEF FlushReload
  <1>6. ASSUME NEW r \in Readers, Miss(r) PROVE TypeOK'
    BY <1>6 DEF Miss, Selects
  <1>7. ASSUME NEW r \in Readers, Read(r) PROVE TypeOK'
    <2>1. ASSUME NEW t \in Tables, Select(r, t) PROVE TypeOK'
      <3>1. got' = [got EXCEPT ![r] = [@ EXCEPT ![t] = rows[t]]] /\ UNCHANGED <<db, cache, history>>
        BY <2>1 DEF Select
      <3>2. got' \in [Readers -> Payload]
        BY <3>1
      <3>3. at' \in [Readers -> {"idle", "store"} \cup Tables]
        BY <2>1 DEF Select, Selects
      <3> QED BY <3>1, <3>2, <3>3
    <2>2. CASE NoData(r)
      BY <2>2 DEF NoData, Answer
    <2>3. CASE Store(r)
      BY <2>3 DEF Store, Answer, ReadInv
    <2> QED BY <1>7, <2>1, <2>2, <2>3 DEF Read
  <1>8. CASE Expire
    BY <1>8 DEF Expire
  <1>9. CASE UNCHANGED vars
    BY <1>9 DEF vars
  <1> QED BY <1>4, <1>5, <1>6, <1>7, <1>8, <1>9 DEF Next

\* What a step does to the rows: a job that is alone replaces all of them, the
\* flush takes what it holds.

After(w, t) == IF t = "projects" THEN "metrics" ELSE IF w = Flush THEN "signal" ELSE "insert"
Undo(w) == Rollback(w) /\ pc[w] \notin {"begin", "done"} /\ (w # Flush => pc[w] # "invalidate")

LEMMA Cases ==
  ASSUME [Next]_vars
  PROVE  \/ \E w \in Writers, t \in Tables : DeleteStarts(w, t) \/ DeleteEnds(w, t, After(w, t))
         \/ \E w \in Writers : Undo(w)
         \/ \E j \in 1..Jobs : Begin(j) \/ Apply(j) \/ Invalidate(j) \/ InvalidateFails(j)
         \/ FlushBegins \/ Signal \/ DropCache \/ FlushCommits
         \/ \E r \in Readers : \/ Miss(r) \/ NoData(r) \/ Store(r)
                              \/ \E t \in Tables : Select(r, t)
         \/ Expire \/ UNCHANGED vars
  <1>1. /\ JobNext["projects"] = "metrics" /\ JobNext["metrics"] = "insert"
        /\ FlushNext["projects"] = "metrics" /\ FlushNext["metrics"] = "signal"
    BY DEF JobNext, FlushNext
  <1>2. ASSUME NEW j \in 1..Jobs, NEW t \in Tables, DeleteEnds(j, t, JobNext[t]) PROVE DeleteEnds(j, t, After(j, t))
    BY <1>1, <1>2, Shape DEF Tables, After
  <1>3. ASSUME NEW t \in Tables, DeleteEnds(Flush, t, FlushNext[t]) PROVE DeleteEnds(Flush, t, After(Flush, t))
    BY <1>1, <1>3, Shape DEF Tables, After
  <1>4. ASSUME NEW j \in 1..Jobs, JobFails(j) PROVE Undo(j)
    BY <1>4, Shape DEF JobFails, Undo, Tables
  <1>5. FlushFails => Undo(Flush)
    BY DEF FlushFails, Undo
  <1> QED BY <1>2, <1>3, <1>4, <1>5 DEF Next, Job, FlushReload, Read, Writers

LEMMA OrderNext == IInv /\ [Next]_vars => OrderInv'
  <1> SUFFICES ASSUME IInv, [Next]_vars PROVE OrderInv'
    OBVIOUS
  <1> USE DEF IInv, TypeOK, OrderInv, db, reading, history, Goto, Writers, Tables, Payload, Committed
  <1>0. Flush \notin 1..Jobs /\ None \notin 1..Jobs /\ \A j \in 1..Jobs : j \in Nat /\ 1..(j - 1) \subseteq 1..Jobs
    BY Shape
  <1>1. ASSUME NEW w \in Writers, NEW t \in Tables, DeleteStarts(w, t) PROVE OrderInv'
    BY <1>0, <1>1 DEF DeleteStarts
  <1>2. ASSUME NEW w \in Writers, NEW t \in Tables, DeleteEnds(w, t, After(w, t)) PROVE OrderInv'
    BY <1>0, <1>2 DEF DeleteEnds, After
  <1>3. ASSUME NEW w \in Writers, Undo(w) PROVE OrderInv'
    BY <1>0, <1>3 DEF Undo, Rollback
  <1>4. ASSUME NEW j \in 1..Jobs, Begin(j) PROVE OrderInv'
    BY <1>0, <1>4 DEF Begin
  <1>5. ASSUME NEW j \in 1..Jobs, Apply(j) PROVE OrderInv'
    BY <1>0, <1>5 DEF Apply
  <1>6. ASSUME NEW j \in 1..Jobs, Invalidate(j) \/ InvalidateFails(j) PROVE OrderInv'
    BY <1>0, <1>6 DEF Invalidate, InvalidateFails
  <1>7. ASSUME FlushBegins PROVE OrderInv'
    BY <1>0, <1>7 DEF FlushBegins, FlushNext
  <1>8. ASSUME Signal PROVE OrderInv'
    BY <1>0, <1>8 DEF Signal, FlushNext
  <1>9. ASSUME DropCache PROVE OrderInv'
    BY <1>0, <1>9 DEF DropCache, FlushNext
  <1>10. ASSUME FlushCommits PROVE OrderInv'
    BY <1>0, <1>10 DEF FlushCommits
  <1>11. ASSUME NEW r \in Readers, Miss(r) PROVE OrderInv'
    BY <1>0, <1>11 DEF Miss, Selects
  <1>12. ASSUME NEW r \in Readers, NEW t \in Tables, Select(r, t) PROVE OrderInv'
    BY <1>0, <1>12 DEF Select, Selects
  <1>13. ASSUME NEW r \in Readers, NoData(r) \/ Store(r) PROVE OrderInv'
    BY <1>0, <1>13 DEF NoData, Store, Answer
  <1>14. ASSUME Expire PROVE OrderInv'
    BY <1>0, <1>14 DEF Expire
  <1>15. ASSUME UNCHANGED vars PROVE OrderInv'
    BY <1>0, <1>15 DEF vars
  <1> QED BY <1>1, <1>2, <1>3, <1>4, <1>5, <1>6, <1>7, <1>8, <1>9, <1>10, <1>11, <1>12, <1>13, <1>14, <1>15, Cases

LEMMA ReadNext == IInv /\ [Next]_vars => ReadInv'
  <1> SUFFICES ASSUME IInv, [Next]_vars PROVE ReadInv'
    OBVIOUS
  <1> USE DEF IInv, TypeOK, OrderInv, ReadInv, db, reading, history, Goto, Writers, Tables, Payload, Committed, Empty
  <1>0. Flush \notin 1..Jobs /\ None \notin 1..Jobs /\ \A j \in 1..Jobs : j \in Nat /\ 1..(j - 1) \subseteq 1..Jobs
    BY Shape
  <1>1. ASSUME NEW w \in Writers, NEW t \in Tables, DeleteStarts(w, t) PROVE ReadInv'
    BY <1>0, <1>1 DEF DeleteStarts
  <1>2. ASSUME NEW w \in Writers, NEW t \in Tables, DeleteEnds(w, t, After(w, t)) PROVE ReadInv'
    BY <1>0, <1>2 DEF DeleteEnds, After
  <1>3. ASSUME NEW w \in Writers, Undo(w) PROVE ReadInv'
    BY <1>0, <1>3 DEF Undo, Rollback
  <1>4. ASSUME NEW j \in 1..Jobs, Begin(j) PROVE ReadInv'
    BY <1>0, <1>4 DEF Begin
  <1>5. ASSUME NEW j \in 1..Jobs, Apply(j) PROVE ReadInv'
    BY <1>0, <1>5 DEF Apply
  <1>6. ASSUME NEW j \in 1..Jobs, Invalidate(j) \/ InvalidateFails(j) PROVE ReadInv'
    BY <1>0, <1>6 DEF Invalidate, InvalidateFails
  <1>7. ASSUME FlushBegins PROVE ReadInv'
    BY <1>0, <1>7 DEF FlushBegins, FlushNext
  <1>8. ASSUME Signal PROVE ReadInv'
    BY <1>0, <1>8 DEF Signal, FlushNext
  <1>9. ASSUME DropCache PROVE ReadInv'
    BY <1>0, <1>9 DEF DropCache, FlushNext
  <1>10. ASSUME FlushCommits PROVE ReadInv'
    BY <1>0, <1>10 DEF FlushCommits
  <1>11. ASSUME NEW r \in Readers, Miss(r) PROVE ReadInv'
    BY <1>0, <1>11 DEF Miss, Selects
  <1>12. ASSUME NEW r \in Readers, NEW t \in Tables, Select(r, t) PROVE ReadInv'
    <2>1. /\ got' = [got EXCEPT ![r] = [@ EXCEPT ![t] = rows[t]]] /\ at' = [at EXCEPT ![r] = Selects[t]] /\ at[r] = t
          /\ rows' = rows /\ pc' = pc /\ cache' = cache
      BY <1>12 DEF Select
    <2>2. \A q \in Readers \ {r} : got'[q] = got[q] /\ at'[q] = at[q]
      BY <2>1
    <2>3. CASE t = "projects"
      <3>1. got[r] = Empty /\ got[r] \in Payload /\ got'[r] = [got[r] EXCEPT !["projects"] = rows["projects"]]
        BY <2>1, <2>3
      <3>2. got'[r]["projects"] = rows["projects"] /\ got'[r]["metrics"] = None
        BY <3>1
      <3>3. at'[r] = "metrics" /\ rows["projects"] # None
        BY <1>12, <2>1, <2>3 DEF Select, Selects
      <3>4. /\ pc[rows["projects"]] \in Committed
            /\ rows["metrics"] # None => rows["projects"] <= rows["metrics"]
        BY <3>3
      <3> QED BY <2>1, <2>2, <3>2, <3>3, <3>4
    <2>4. CASE t = "metrics"
      <3>1. /\ got'[r]["metrics"] = rows["metrics"] /\ got'[r]["projects"] = got[r]["projects"]
            /\ at'[r] = "store"
        BY <2>1, <2>4 DEF Selects
      <3> QED BY <1>0, <2>1, <2>2, <2>4, <3>1
    <2> QED BY <2>3, <2>4
  <1>13. ASSUME NEW r \in Readers, NoData(r) \/ Store(r) PROVE ReadInv'
    <2>1. /\ got' = [got EXCEPT ![r] = Empty] /\ at' = [at EXCEPT ![r] = "idle"] /\ rows' = rows /\ pc' = pc
          /\ cache' = cache \/ (cache' = got[r] /\ at[r] = "store")
      BY <1>13 DEF NoData, Store, Answer
    <2>2. \A q \in Readers \ {r} : got'[q] = got[q] /\ at'[q] = at[q]
      BY <2>1
    <2>3. got'[r] = Empty /\ at'[r] = "idle" /\ \A t \in Tables : got'[r][t] = None
      BY <2>1
    <2>4. CASE cache' = cache
      BY <2>1, <2>2, <2>3, <2>4
    <2>5. CASE cache' = got[r] /\ at[r] = "store"
      <3>1. cache' # None /\ cache'["metrics"] # None => cache'["projects"] <= cache'["metrics"]
        BY <2>5
      <3> QED BY <2>1, <2>2, <2>3, <3>1
    <2> QED BY <2>1, <2>4, <2>5
  <1>14. ASSUME Expire PROVE ReadInv'
    BY <1>0, <1>14 DEF Expire
  <1>15. ASSUME UNCHANGED vars PROVE ReadInv'
    BY <1>0, <1>15 DEF vars
  <1> QED BY <1>1, <1>2, <1>3, <1>4, <1>5, <1>6, <1>7, <1>8, <1>9, <1>10, <1>11, <1>12, <1>13, <1>14, <1>15, Cases

LEMMA HoldNext == IInv /\ [Next]_vars => HoldInv'
  <1> SUFFICES ASSUME IInv, [Next]_vars PROVE HoldInv'
    OBVIOUS
  <1> USE DEF IInv, TypeOK, OrderInv, HoldInv, Past, db, reading, history, Goto, Writers, Tables, Payload, Committed
  <1>0. Flush \notin 1..Jobs /\ None \notin 1..Jobs /\ \A j \in 1..Jobs : j \in Nat /\ 1..(j - 1) \subseteq 1..Jobs
    BY Shape
  <1>f. ASSUME rows' = rows, holds' = holds, pc' = pc, picked' = picked, target' = target PROVE HoldInv'
    BY <1>f
  <1>1. ASSUME NEW w \in Writers, NEW t \in Tables, DeleteStarts(w, t) PROVE HoldInv'
    BY <1>0, <1>1 DEF DeleteStarts
  <1>2. ASSUME NEW w \in Writers, NEW t \in Tables, DeleteEnds(w, t, After(w, t)) PROVE HoldInv'
    <2> DEFINE takes == target[w] # None /\ target[w] = rows[t]
    <2>1. /\ rows' = rows /\ pc[w] = t /\ pc' = [pc EXCEPT ![w] = After(w, t)]
          /\ holds' = IF takes THEN [holds EXCEPT ![w] = @ \cup {t}] ELSE holds
          /\ takes => \A q \in Writers \ {w} : t \notin holds[q]
      BY <1>2 DEF DeleteEnds
    <2>2. \A v \in Writers, u \in Tables : u \in holds'[v] <=> u \in holds[v] \/ (v = w /\ u = t /\ takes)
      BY <2>1
    <2> HIDE DEF takes
    <2>3. /\ \A v, x \in Writers, u \in Tables : u \in holds'[v] /\ u \in holds'[x] => v = x
          /\ \A v \in Writers : pc'[v] \in {"begin", "done", "invalidate"} => holds'[v] = {}
      <3>1. After(w, t) \notin {"begin", "done", "invalidate"}
        BY DEF After
      <3> QED BY <2>1, <2>2, <3>1
    <2>4. \A v \in Writers, u \in Tables : u \in holds'[v] => rows[u] # None
      BY <2>2 DEF takes
    <2>5. ASSUME NEW j \in 1..Jobs, NEW u \in Tables, Past(j, u)' PROVE u \in holds'[j] \/ rows[u] = None
      <3>1. CASE Past(j, u)
        BY <2>2, <3>1
      <3>2. CASE ~Past(j, u)
        <4>1. j = w /\ u = t
          BY <1>0, <2>1, <2>5, <3>2 DEF After
        <4>2. ASSUME ~takes, rows[t] # None PROVE FALSE
          BY <1>0, <1>2, <4>1, <4>2 DEF DeleteEnds, takes
        <4> QED BY <2>2, <4>1, <4>2
      <3> QED BY <3>1, <3>2
    <2>6. ASSUME NEW j \in 1..Jobs, NEW u \in Tables, (pc[j] = u /\ picked[j])' PROVE rows[u] \in {target'[j], None}
      <3>1. j # w
        BY <1>2, <2>6 DEF DeleteEnds
      <3> QED BY <1>2, <2>1, <2>6, <3>1 DEF DeleteEnds
    <2>7. \A v \in Writers : pc'[v] = "begin" => ~picked'[v]
      BY <1>2 DEF DeleteEnds, After
    <2> QED BY <2>1, <2>3, <2>4, <2>5, <2>6, <2>7
  <1>3. ASSUME NEW w \in Writers, Undo(w) PROVE HoldInv'
    BY <1>0, <1>3 DEF Undo, Rollback
  <1>4. ASSUME NEW j \in 1..Jobs, Begin(j) PROVE HoldInv'
    <2>1. /\ rows' = rows /\ holds' = holds /\ picked' = picked /\ target' = target
          /\ pc[j] = "begin" /\ pc' = [pc EXCEPT ![j] = "projects"]
      BY <1>4 DEF Begin
    <2>2. ~picked[j] /\ ~Past(j, "projects")' /\ ~Past(j, "metrics")'
      BY <2>1
    <2>3. /\ \A w \in Writers : pc'[w] \in {"begin", "done"} \cup Committed => holds'[w] = {}
          /\ \A i \in 1..Jobs, t \in Tables : Past(i, t)' => Past(i, t)
          /\ \A i \in 1..Jobs, t \in Tables : pc'[i] = t /\ picked[i] => pc[i] = t
      BY <1>0, <2>1, <2>2
    <2> QED BY <2>1, <2>3
  <1>5. ASSUME NEW j \in 1..Jobs, Apply(j) PROVE HoldInv'
    BY <1>0, <1>5 DEF Apply
  <1>6. ASSUME NEW j \in 1..Jobs, Invalidate(j) \/ InvalidateFails(j) PROVE HoldInv'
    <2>1. /\ rows' = rows /\ holds' = holds /\ picked' = picked /\ target' = target
          /\ pc[j] = "invalidate" /\ pc' = [pc EXCEPT ![j] = "done"]
      BY <1>6 DEF Invalidate, InvalidateFails
    <2> QED BY <1>0, <2>1
  <1>7. ASSUME FlushBegins PROVE HoldInv'
    BY <1>0, <1>7 DEF FlushBegins, FlushNext
  <1>8. ASSUME Signal PROVE HoldInv'
    BY <1>0, <1>8 DEF Signal, FlushNext
  <1>9. ASSUME DropCache PROVE HoldInv'
    BY <1>0, <1>9 DEF DropCache, FlushNext
  <1>10. ASSUME FlushCommits PROVE HoldInv'
    <2>1. /\ rows' = [t \in Tables |-> IF t \in holds[Flush] THEN None ELSE rows[t]]
          /\ holds' = [holds EXCEPT ![Flush] = {}] /\ pc' = [pc EXCEPT ![Flush] = "done"]
      BY <1>10 DEF FlushCommits
    <2>2. \A w \in Writers : w # Flush => holds'[w] = holds[w] /\ pc'[w] = pc[w]
      BY <2>1
    <2>3. holds'[Flush] = {} /\ \A t \in Tables : rows'[t] = rows[t] \/ (rows'[t] = None /\ t \in holds[Flush])
      BY <2>1
    <2>4. /\ \A v, w \in Writers, t \in Tables : t \in holds'[v] /\ t \in holds'[w] => v = w
          /\ \A w \in Writers : pc'[w] \in {"begin", "done", "invalidate"} => holds'[w] = {}
      BY <2>2, <2>3
    <2>h. /\ \A v, w \in Writers, t \in Tables : t \in holds[v] /\ t \in holds[w] => v = w
          /\ \A w \in Writers : pc[w] \in {"begin", "done"} \cup Committed => holds[w] = {}
          /\ \A w \in Writers, t \in Tables : t \in holds[w] => rows[t] # None
          /\ \A i \in 1..Jobs, t \in Tables : Past(i, t) => t \in holds[i] \/ rows[t] = None
          /\ \A i \in 1..Jobs, t \in Tables : pc[i] = t /\ picked[i] => rows[t] \in {target[i], None}
          /\ \A w \in Writers : holds[w] \subseteq Tables
      OBVIOUS
    <2>w. Flush \in Writers /\ \A i \in 1..Jobs : i \in Writers
      OBVIOUS
    <2>5. ASSUME NEW w \in Writers, NEW t \in Tables, t \in holds'[w] PROVE rows'[t] # None
      <3> HIDE DEF IInv, TypeOK, OrderInv, HoldInv, Past, Writers
      <3>1. w # Flush /\ t \in holds[w]
        BY <2>2, <2>3, <2>5
      <3>2. t \notin holds[Flush] /\ rows[t] # None
        BY <2>h, <2>w, <3>1
      <3> QED BY <2>3, <3>2
    <2>6. ASSUME NEW j \in 1..Jobs, NEW t \in Tables
          PROVE  /\ Past(j, t)' => t \in holds'[j] \/ rows'[t] = None
                 /\ (pc[j] = t /\ picked[j])' => rows'[t] \in {target'[j], None}
      <3>1. j # Flush /\ pc'[j] = pc[j] /\ holds'[j] = holds[j] /\ picked' = picked /\ target' = target
        BY <1>0, <1>10, <2>2 DEF FlushCommits
      <3>2. Past(j, t)' <=> Past(j, t)
        BY <3>1 DEF Past
      <3>3. rows'[t] \in {rows[t], None}
        BY <2>3
      <3> HIDE DEF IInv, TypeOK, OrderInv, HoldInv, Past, Writers
      <3> QED BY <2>h, <3>1, <3>2, <3>3
    <2>7. \A v \in Writers : pc'[v] = "begin" => ~picked'[v]
      BY <1>10, <2>2 DEF FlushCommits
    <2>8. \A w \in Writers, t \in Tables : t \in holds'[w] => rows'[t] # None
      BY <2>5
    <2>9. /\ \A j \in 1..Jobs, t \in Tables : Past(j, t)' => t \in holds'[j] \/ rows'[t] = None
          /\ \A j \in 1..Jobs, t \in Tables : (pc[j] = t /\ picked[j])' => rows'[t] \in {target'[j], None}
      BY <2>6
    <2> HIDE DEF IInv, TypeOK, OrderInv, Past, Writers, Tables
    <2> QED BY <2>4, <2>7, <2>8, <2>9
  <1>11. ASSUME NEW r \in Readers, Miss(r) PROVE HoldInv'
    BY <1>0, <1>11 DEF Miss, Selects
  <1>12. ASSUME NEW r \in Readers, NEW t \in Tables, Select(r, t) PROVE HoldInv'
    BY <1>0, <1>12 DEF Select, Selects
  <1>13. ASSUME NEW r \in Readers, NoData(r) \/ Store(r) PROVE HoldInv'
    BY <1>f, <1>13 DEF NoData, Store, Answer
  <1>14. ASSUME Expire PROVE HoldInv'
    BY <1>f, <1>14 DEF Expire
  <1>15. ASSUME UNCHANGED vars PROVE HoldInv'
    BY <1>0, <1>15 DEF vars
  <1> QED BY <1>1, <1>2, <1>3, <1>4, <1>5, <1>6, <1>7, <1>8, <1>9, <1>10, <1>11, <1>12, <1>13, <1>14, <1>15, Cases

LEMMA FlushInvNext == IInv /\ [Next]_vars => FlushInv'
  <1> SUFFICES ASSUME IInv, [Next]_vars PROVE FlushInv'
    OBVIOUS
  <1> USE DEF IInv, TypeOK, OrderInv, HoldInv, FlushInv, Past, db, reading, history, Goto, Writers, Tables, Payload, Committed
  <1>0. Flush \notin 1..Jobs /\ None \notin 1..Jobs /\ \A j \in 1..Jobs : j \in Nat /\ 1..(j - 1) \subseteq 1..Jobs
    BY Shape
  <1>f. ASSUME rows' = rows, holds' = holds, pc' = pc, signalled' = signalled, reloads' = reloads PROVE FlushInv'
    BY <1>f
  <1>1. ASSUME NEW w \in Writers, NEW t \in Tables, DeleteStarts(w, t) PROVE FlushInv'
    BY <1>0, <1>1 DEF DeleteStarts
  <1>2. ASSUME NEW w \in Writers, NEW t \in Tables, DeleteEnds(w, t, After(w, t)) PROVE FlushInv'
    BY <1>0, <1>2 DEF DeleteEnds, After
  <1>3. ASSUME NEW w \in Writers, Undo(w) PROVE FlushInv'
    BY <1>0, <1>3 DEF Undo, Rollback
  <1>4. ASSUME NEW j \in 1..Jobs, Begin(j) PROVE FlushInv'
    BY <1>0, <1>4 DEF Begin
  <1>5. ASSUME NEW j \in 1..Jobs, Apply(j) PROVE FlushInv'
    <2>1. /\ holds' = [holds EXCEPT ![j] = {}] /\ pc' = [pc EXCEPT ![j] = "invalidate"] /\ pc[j] = "insert"
          /\ signalled' = signalled /\ reloads' = reloads
      BY <1>5 DEF Apply
    <2>h. /\ \A v, w \in Writers, t \in Tables : t \in holds[v] /\ t \in holds[w] => v = w
          /\ \A w \in Writers : pc[w] \in {"begin", "done"} \cup Committed => holds[w] = {}
          /\ \A w \in Writers, t \in Tables : t \in holds[w] => rows[t] # None
          /\ \A i \in 1..Jobs, t \in Tables : Past(i, t) => t \in holds[i] \/ rows[t] = None
          /\ \A i \in 1..Jobs, t \in Tables : pc[i] = t /\ picked[i] => rows[t] \in {target[i], None}
          /\ \A w \in Writers : holds[w] \subseteq Tables
      OBVIOUS
    <2>w. Flush \in Writers /\ \A i \in 1..Jobs : i \in Writers
      OBVIOUS
    <2>2. ASSUME NEW t \in holds[Flush] PROVE FALSE
      <3> HIDE DEF IInv, TypeOK, OrderInv, HoldInv, FlushInv, Past, Writers
      <3>1. t \in Tables /\ rows[t] # None
        BY <2>h, <2>w
      <3>2. Past(j, t)
        BY <2>1 DEF Past
      <3>3. t \in holds[j]
        BY <2>h, <3>1, <3>2
      <3> QED BY <1>0, <2>h, <2>w, <3>1, <3>3
    <2> QED BY <1>0, <2>1, <2>2
  <1>6. ASSUME NEW j \in 1..Jobs, Invalidate(j) \/ InvalidateFails(j) PROVE FlushInv'
    <2>1. /\ rows' = rows /\ holds' = holds /\ pc' = [pc EXCEPT ![j] = "done"]
          /\ signalled' = signalled /\ reloads' = reloads
      BY <1>6 DEF Invalidate, InvalidateFails
    <2> QED BY <1>0, <2>1
  <1>7. ASSUME FlushBegins PROVE FlushInv'
    BY <1>0, <1>7 DEF FlushBegins, FlushNext
  <1>8. ASSUME Signal PROVE FlushInv'
    BY <1>0, <1>8 DEF Signal, FlushNext
  <1>9. ASSUME DropCache PROVE FlushInv'
    BY <1>0, <1>9 DEF DropCache, FlushNext
  <1>10. ASSUME FlushCommits PROVE FlushInv'
    BY <1>0, <1>10 DEF FlushCommits
  <1>11. ASSUME NEW r \in Readers, Miss(r) PROVE FlushInv'
    BY <1>0, <1>11 DEF Miss, Selects
  <1>12. ASSUME NEW r \in Readers, NEW t \in Tables, Select(r, t) PROVE FlushInv'
    BY <1>0, <1>12 DEF Select, Selects
  <1>13. ASSUME NEW r \in Readers, NoData(r) \/ Store(r) PROVE FlushInv'
    BY <1>f, <1>13 DEF NoData, Store, Answer
  <1>14. ASSUME Expire PROVE FlushInv'
    BY <1>0, <1>14 DEF Expire
  <1>15. ASSUME UNCHANGED vars PROVE FlushInv'
    BY <1>0, <1>15 DEF vars
  <1> QED BY <1>1, <1>2, <1>3, <1>4, <1>5, <1>6, <1>7, <1>8, <1>9, <1>10, <1>11, <1>12, <1>13, <1>14, <1>15, Cases

LEMMA Inductive == Spec => []IInv
  BY InitInv, TypeNext, OrderNext, ReadNext, HoldNext, FlushInvNext, PTL DEF IInv, Spec

-----------------------------------------------------------------------------
\* The rows, writers, readers and payloads have their types.
THEOREM TypeCorrect == Spec => []TypeOK
  BY Inductive, PTL DEF IInv

\* The metrics of a payload are never older than its projects (the order of the
\* SELECTs in get_dashboard, the one transaction of parse_snapshot).
THEOREM GoesForward == Spec => []ReadsGoForward
  <1>1. IInv => ReadsGoForward
    <2> SUFFICES ASSUME IInv, NEW p \in Payloads, p["projects"] # None, p["metrics"] # None
                 PROVE  p["projects"] <= p["metrics"]
      BY DEF ReadsGoForward, IInv, TypeOK, ReadInv, Payloads, Payload, Tables
    <2> QED BY DEF IInv, ReadInv, Payloads
  <1> QED BY <1>1, Inductive, PTL

\* What a job has inserted that began after the agents were signalled is not
\* taken by the flush (flush_and_reload deletes, then signals, then commits).
THEOREM ReloadKept == Spec => ReloadSurvives
  <1> DEFINE A == \A j \in reloads, t \in Tables : rows[t] = j => rows'[t] # None
  <1>1. IInv /\ [Next]_vars => A
    <2> SUFFICES ASSUME IInv, [Next]_vars, NEW j \in reloads, NEW t \in Tables, rows[t] = j PROVE rows'[t] # None
      OBVIOUS
    <2>1. j # None /\ None \notin 1..Jobs
      BY Shape DEF IInv, TypeOK
    <2>2. CASE FlushCommits
      BY <2>1, <2>2 DEF FlushCommits, IInv, FlushInv
    <2>3. ASSUME NEW i \in 1..Jobs, Apply(i) PROVE rows'[t] # None
      BY <2>1, <2>3 DEF Apply
    <2>4. CASE rows' = rows
      BY <2>1, <2>4
    <2> QED BY <2>2, <2>3, <2>4, Cases DEF db, reading, history, vars, DeleteStarts, DeleteEnds, Undo, Rollback, Begin,
               Invalidate, InvalidateFails, FlushBegins, Signal, DropCache, Miss, NoData, Store, Select, Expire
  <1>2. IInv /\ [Next]_vars => [A]_vars
    BY <1>1
  <1> QED BY <1>2, Inductive, PTL DEF Spec, ReloadSurvives
=============================================================================
