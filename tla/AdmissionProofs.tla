--------------------------- MODULE AdmissionProofs ---------------------------
(***************************************************************************)
(* Admission for any window, limit, skew and number of requests: a request *)
(* is let in once, no window holds more than the limit, and the back-off   *)
(* gets out of it.                                                         *)
(*                                                                         *)
(* The argument: a request that is received a second time while its        *)
(* timestamp is good meets its nonce, for the nonce was set after it was   *)
(* signed and is kept for twice the skew; what was let in within the       *)
(* window is still in the sorted set when the next one is counted; and     *)
(* while a call sleeps the agent sends no more than a heartbeat a tick.    *)
(***************************************************************************)
EXTENDS Admission, FiniteSetTheorems, TLAPS

LEMMA Numbers ==
  /\ Window \in Nat \ {0} /\ Limit \in Nat /\ Skew \in Nat /\ NonceTtl \in Nat
  /\ NonceTtl >= 2 * Skew /\ Calls \subseteq Nat \ {0} /\ Offsets \subseteq Int /\ Copies \in Nat
  BY Shape, NonceOutlivesStamp

LEMMA DelayType == ASSUME NEW n \in Nat, n # 0 PROVE Delay(n) \in Nat
  <1>1. Delays \in Seq(Nat) /\ Len(Delays) \in Nat /\ Len(Delays) # 0
    BY Shape
  <1> DEFINE i == IF n < Len(Delays) THEN n ELSE Len(Delays)
  <1>2. i \in 1..Len(Delays)
    BY <1>1
  <1> QED BY <1>1, <1>2 DEF Delay

\* When requests were sent: one number for each, and each in the past.
PostedOK ==
  /\ now \in Nat /\ posted \in Seq(Nat) /\ \A id \in Sent : posted[id] <= now

LEMMA Grown ==
  ASSUME PostedOK, posted' = Append(posted, now), now' = now
  PROVE  /\ PostedOK'
         /\ Sent' = Sent \cup {Len(posted) + 1} /\ Sent' \subseteq Nat \ {0} /\ Len(posted) + 1 \notin Sent
         /\ \A id \in Sent : posted'[id] = posted[id]
  <1>1. /\ posted' \in Seq(Nat) /\ Len(posted') = Len(posted) + 1 /\ Len(posted) \in Nat
        /\ \A id \in 1..Len(posted) : posted'[id] = posted[id]
        /\ posted'[Len(posted) + 1] = now
    BY DEF PostedOK
  <1>2. Sent' = Sent \cup {Len(posted) + 1} /\ Sent' \subseteq Nat \ {0} /\ Len(posted) + 1 \notin Sent
    BY <1>1 DEF Sent
  <1>3. \A id \in Sent' : posted'[id] <= now'
    BY <1>1, <1>2 DEF PostedOK, Sent
  <1> QED BY <1>1, <1>2, <1>3 DEF PostedOK, Sent

\* A step sends at most one request, and does not change those that were sent.
LEMMA PostedNext ==
  ASSUME PostedOK, [Next]_vars
  PROVE  /\ PostedOK' /\ now' \in {now, now + 1} /\ offset' = offset
         /\ Sent \subseteq Sent' /\ Sent' \subseteq Nat \ {0}
         /\ \A id \in Sent : posted'[id] = posted[id]
  <1> DEFINE Goal == /\ PostedOK' /\ now' \in {now, now + 1} /\ offset' = offset
                     /\ Sent \subseteq Sent' /\ Sent' \subseteq Nat \ {0}
                     /\ \A id \in Sent : posted'[id] = posted[id]
  <1> USE DEF clock
  <1>0. ASSUME posted' = posted, now' \in {now, now + 1}, offset' = offset PROVE Goal
    <2>1. Sent' = Sent /\ Sent \subseteq Nat \ {0}
      BY <1>0 DEF Sent, PostedOK
    <2>2. \A id \in Sent : posted[id] \in Nat
      BY DEF PostedOK, Sent
    <2> QED BY <1>0, <2>1, <2>2 DEF PostedOK
  <1>1. ASSUME Tick PROVE Goal
    BY <1>0, <1>1 DEF Tick
  <1>2. ASSUME NEW max \in Calls, Call(max) PROVE Goal
    BY <1>2, Grown DEF Call, Post
  <1>3. ASSUME Retry PROVE Goal
    BY <1>3, Grown DEF Retry, Post
  <1>4. ASSUME Exhausted PROVE Goal
    BY <1>0, <1>4 DEF Exhausted
  <1>5. ASSUME Heartbeat PROVE Goal
    BY <1>5, Grown DEF Heartbeat, Post
  <1>6. ASSUME NEW id \in Sent, Lose(id) PROVE Goal
    BY <1>0, <1>6 DEF Lose
  <1>7. ASSUME NEW id \in Sent, Receive(id) PROVE Goal
    BY <1>0, <1>7 DEF Receive
  <1>8. ASSUME NEW id \in Sent, TurnAway(id) PROVE Goal
    BY <1>0, <1>8 DEF TurnAway
  <1>9. ASSUME NEW id \in Sent, Enforce(id) PROVE Goal
    BY <1>0, <1>9 DEF Enforce
  <1>10. ASSUME UNCHANGED vars PROVE Goal
    BY <1>0, <1>10 DEF vars
  <1> QED BY <1>1, <1>2, <1>3, <1>4, <1>5, <1>6, <1>7, <1>8, <1>9, <1>10 DEF Next

\* The rest of the type invariant; a call that has begun has made an attempt.
RestOK ==
  /\ offset \in Offsets /\ due \in BOOLEAN
  /\ net \subseteq Sent /\ late \subseteq Sent /\ handling \subseteq Sent
  /\ nonces \subseteq Entry /\ hits \subseteq Entry /\ admitted \subseteq Entry
  /\ call \in [max: Nat, n: Nat, id: Nat] /\ call.n <= call.max
  /\ pc \in {"idle", "await", "asleep"}
  /\ pc # "idle" => call.n # 0
  /\ wake \in Nat /\ copies \in 0..Copies

BeatOK == beat \in {0} \cup net \cup handling

LEMMA Leaves ==
  ASSUME RestOK, NEW id \in Sent, Leave(id)
  PROVE  net' \subseteq net /\ late' \subseteq Sent /\ copies' \in 0..Copies
  BY Numbers DEF RestOK, Leave

LEMMA RestNext == PostedOK /\ RestOK /\ [Next]_vars => RestOK'
  <1> SUFFICES ASSUME PostedOK, RestOK, [Next]_vars PROVE RestOK'
    OBVIOUS
  <1>0. Sent \subseteq Sent' /\ Sent' \subseteq Nat \ {0} /\ now \in Nat
    BY PostedNext DEF PostedOK
  <1> USE <1>0, Numbers DEF RestOK, clock, redis, client
  <1>1. ASSUME Tick PROVE RestOK'
    BY <1>1 DEF Tick
  <1>2. ASSUME NEW max \in Calls, Call(max) PROVE RestOK'
    <2>1. Len(posted) + 1 \in Sent' /\ net' = net \cup {Len(posted) + 1}
      BY <1>2, Grown DEF Call, Post
    <2>2. /\ call' \in [max: Nat, n: Nat, id: Nat]
          /\ call'.n <= call'.max /\ call'.n # 0
      BY <1>2, <2>1 DEF Call
    <2> QED BY <1>2, <2>1, <2>2 DEF Call
  <1>3. ASSUME Retry PROVE RestOK'
    <2>1. Len(posted) + 1 \in Sent' /\ net' = net \cup {Len(posted) + 1}
      BY <1>3, Grown DEF Retry, Post
    <2>2. /\ call' \in [max: Nat, n: Nat, id: Nat]
          /\ call'.n <= call'.max /\ call'.n # 0
      <3>1. call.n \in Nat /\ call.max \in Nat /\ call.n < call.max
        BY <1>3 DEF Retry
      <3>2. call' = [max |-> call.max, n |-> call.n + 1, id |-> Len(posted) + 1]
        BY <1>3 DEF Retry
      <3>3. Len(posted) + 1 \in Nat /\ call.n + 1 \in Nat /\ call.n + 1 <= call.max /\ call.n + 1 # 0
        BY <3>1, <2>1
      <3> QED BY <3>1, <3>2, <3>3
    <2> QED BY <1>3, <2>1, <2>2 DEF Retry
  <1>4. ASSUME Exhausted PROVE RestOK'
    BY <1>4 DEF Exhausted
  <1>5. ASSUME Heartbeat PROVE RestOK'
    <2>1. Len(posted) + 1 \in Sent' /\ net' = net \cup {Len(posted) + 1}
      BY <1>5, Grown DEF Heartbeat, Post
    <2> QED BY <1>5, <2>1 DEF Heartbeat
  <1>6. ASSUME NEW id \in Sent, Lose(id) PROVE RestOK'
    <2>1. pc = "await" => Delay(call.n) \in Nat /\ now + Delay(call.n) \in Nat
      BY DelayType
    <2>2. /\ pc' \in {"idle", pc} \/ (pc = "await" /\ pc' = "asleep")
          /\ wake' = wake \/ (pc = "await" /\ wake' = now + Delay(call.n))
          /\ call' = call
      BY <1>6 DEF Lose, Answer
    <2> QED BY <1>6, <2>1, <2>2, Leaves DEF Lose
  <1>7. ASSUME NEW id \in Sent, Receive(id) PROVE RestOK'
    <2>1. id \in Nat /\ [id |-> id, at |-> now] \in Entry
      BY DEF Entry
    <2>2. nonces' \subseteq Entry
      BY <1>7, <2>1 DEF Receive
    <2> QED BY <1>7, <2>1, <2>2, Leaves DEF Receive
  <1>8. ASSUME NEW id \in Sent, TurnAway(id) PROVE RestOK'
    <2>1. pc = "await" => Delay(call.n) \in Nat /\ now + Delay(call.n) \in Nat
      BY DelayType
    <2>2. /\ pc' \in {"idle", pc} \/ (pc = "await" /\ pc' = "asleep")
          /\ wake' = wake \/ (pc = "await" /\ wake' = now + Delay(call.n))
          /\ call' = call
      BY <1>8 DEF TurnAway, Answer
    <2> QED BY <1>8, <2>1, <2>2, Leaves DEF TurnAway
  <1>9. ASSUME NEW id \in Sent, Enforce(id) PROVE RestOK'
    <2>1. pc = "await" => Delay(call.n) \in Nat /\ now + Delay(call.n) \in Nat
      BY DelayType
    <2>2. /\ pc' \in {"idle", pc} \/ (pc = "await" /\ pc' = "asleep")
          /\ wake' = wake \/ (pc = "await" /\ wake' = now + Delay(call.n))
          /\ call' = call
      BY <1>9 DEF Enforce, Answer
    <2> QED BY <1>9, <2>1, <2>2 DEF Enforce, Entry, Recent
  <1>10. ASSUME UNCHANGED vars PROVE RestOK'
    BY <1>10 DEF vars
  <1> QED BY <1>1, <1>2, <1>3, <1>4, <1>5, <1>6, <1>7, <1>8, <1>9, <1>10 DEF Next

LEMMA BeatNext == PostedOK /\ RestOK /\ BeatOK /\ [Next]_vars => BeatOK'
  <1> SUFFICES ASSUME PostedOK, RestOK, BeatOK, [Next]_vars PROVE BeatOK'
    OBVIOUS
  <1> USE DEF RestOK, BeatOK, clock, redis, client
  <1>1. ASSUME Tick PROVE BeatOK'
    BY <1>1 DEF Tick
  <1>2. ASSUME NEW max \in Calls, Call(max) PROVE BeatOK'
    BY <1>2 DEF Call, Post
  <1>3. ASSUME Retry PROVE BeatOK'
    BY <1>3 DEF Retry, Post
  <1>4. ASSUME Exhausted PROVE BeatOK'
    BY <1>4 DEF Exhausted
  <1>5. ASSUME Heartbeat PROVE BeatOK'
    BY <1>5 DEF Heartbeat, Post
  <1>6. ASSUME NEW id \in Sent, Lose(id) PROVE BeatOK'
    BY <1>6 DEF Lose, Leave, Answer
  <1>7. ASSUME NEW id \in Sent, Receive(id) PROVE BeatOK'
    BY <1>7 DEF Receive, Leave, Entry
  <1>8. ASSUME NEW id \in Sent, TurnAway(id) PROVE BeatOK'
    BY <1>8 DEF TurnAway, Leave, Answer
  <1>9. ASSUME NEW id \in Sent, Enforce(id) PROVE BeatOK'
    BY <1>9 DEF Enforce, Answer, Entry, Recent
  <1>10. ASSUME UNCHANGED vars PROVE BeatOK'
    BY <1>10 DEF vars
  <1> QED BY <1>1, <1>2, <1>3, <1>4, <1>5, <1>6, <1>7, <1>8, <1>9, <1>10 DEF Next

LEMMA TypeParts == TypeOK /\ (pc # "idle" => call.n # 0) <=> PostedOK /\ RestOK /\ BeatOK
  BY DEF TypeOK, PostedOK, RestOK, BeatOK

-----------------------------------------------------------------------------
(* A request is let in once.                                               *)

\* A nonce is set after its request was signed; what is handled or was let in has
\* one.
NonceInv ==
  /\ \A n \in nonces : n.id \in Sent /\ posted[n.id] <= n.at
  /\ \A id \in handling : \E n \in nonces : n.id = id
  /\ \A a \in admitted : \E n \in nonces : n.id = a.id

OnceInv ==
  offset < Skew =>
    /\ \A id \in handling : \A a \in admitted : a.id # id
    /\ \A a, b \in admitted : a.id = b.id => a = b

LEMMA NonceNext == PostedOK /\ RestOK /\ NonceInv /\ [Next]_vars => NonceInv'
  <1> SUFFICES ASSUME PostedOK, RestOK, NonceInv, [Next]_vars PROVE NonceInv'
    OBVIOUS
  <1>0. Sent \subseteq Sent' /\ \A id \in Sent : posted'[id] = posted[id] /\ posted[id] <= now
    BY PostedNext DEF PostedOK
  <1> USE <1>0 DEF RestOK, NonceInv, clock, redis, client
  <1>1. ASSUME Tick PROVE NonceInv'
    BY <1>1 DEF Tick
  <1>2. ASSUME NEW max \in Calls, Call(max) PROVE NonceInv'
    BY <1>2 DEF Call, Post
  <1>3. ASSUME Retry PROVE NonceInv'
    BY <1>3 DEF Retry, Post
  <1>4. ASSUME Exhausted PROVE NonceInv'
    BY <1>4 DEF Exhausted
  <1>5. ASSUME Heartbeat PROVE NonceInv'
    BY <1>5 DEF Heartbeat, Post
  <1>6. ASSUME NEW id \in Sent, Lose(id) PROVE NonceInv'
    BY <1>6 DEF Lose
  <1>7. ASSUME NEW id \in Sent, Receive(id) PROVE NonceInv'
    <2>1. nonces' = nonces \cup {[id |-> id, at |-> now]} /\ handling' = handling \cup {id}
      BY <1>7 DEF Receive
    <2>2. UNCHANGED <<posted, admitted, now>>
      BY <1>7 DEF Receive
    <2>3. \A n \in nonces' : n.id \in Sent' /\ posted'[n.id] <= n.at
      BY <2>1, <2>2
    <2>4. [id |-> id, at |-> now] \in nonces' /\ nonces \subseteq nonces'
      BY <2>1
    <2>5. \A x \in handling' : \E n \in nonces' : n.id = x
      <3>1. \A x \in handling : \E n \in nonces' : n.id = x
        BY <2>4
      <3>2. [id |-> id, at |-> now].id = id
        OBVIOUS
      <3> QED BY <2>1, <2>4, <3>1, <3>2
    <2>6. \A a \in admitted' : \E n \in nonces' : n.id = a.id
      BY <2>2, <2>4
    <2> QED BY <2>3, <2>5, <2>6
  <1>8. ASSUME NEW id \in Sent, TurnAway(id) PROVE NonceInv'
    BY <1>8 DEF TurnAway
  <1>9. ASSUME NEW id \in Sent, Enforce(id) PROVE NonceInv'
    BY <1>9 DEF Enforce
  <1>10. ASSUME UNCHANGED vars PROVE NonceInv'
    BY <1>10 DEF vars
  <1> QED BY <1>1, <1>2, <1>3, <1>4, <1>5, <1>6, <1>7, <1>8, <1>9, <1>10 DEF Next

\* A request whose timestamp is good and whose nonce is forgotten is new.
LEMMA SecondCopy ==
  ASSUME PostedOK, RestOK, NonceInv, offset < Skew, NEW id \in Sent, InTime(id), ~Remembered(id)
  PROVE  \A n \in nonces : n.id # id
  <1> SUFFICES ASSUME NEW n \in nonces, n.id = id PROVE FALSE
    OBVIOUS
  <1>1. now \in Nat /\ offset \in Int /\ posted[id] \in Nat /\ n.at \in Nat
    BY Numbers DEF PostedOK, RestOK, Sent, Entry
  <1>2. posted[id] <= n.at
    BY DEF NonceInv
  <1>3. now - n.at >= NonceTtl
    BY <1>1, Numbers DEF Remembered
  <1>4. now - (posted[id] + offset) <= Skew
    BY DEF InTime, Stamp
  <1> QED BY <1>1, <1>2, <1>3, <1>4, Numbers

LEMMA OnceNext == PostedOK /\ RestOK /\ NonceInv /\ OnceInv /\ [Next]_vars => OnceInv'
  <1> SUFFICES ASSUME PostedOK, RestOK, NonceInv, OnceInv, [Next]_vars, offset < Skew PROVE OnceInv'
    BY PostedNext DEF OnceInv
  <1> USE DEF RestOK, OnceInv, clock, redis, client
  <1>1. ASSUME Tick PROVE OnceInv'
    BY <1>1 DEF Tick
  <1>2. ASSUME NEW max \in Calls, Call(max) PROVE OnceInv'
    BY <1>2 DEF Call, Post
  <1>3. ASSUME Retry PROVE OnceInv'
    BY <1>3 DEF Retry, Post
  <1>4. ASSUME Exhausted PROVE OnceInv'
    BY <1>4 DEF Exhausted
  <1>5. ASSUME Heartbeat PROVE OnceInv'
    BY <1>5 DEF Heartbeat, Post
  <1>6. ASSUME NEW id \in Sent, Lose(id) PROVE OnceInv'
    BY <1>6 DEF Lose
  <1>7. ASSUME NEW id \in Sent, Receive(id) PROVE OnceInv'
    <2>1. \A a \in admitted : a.id # id
      BY <1>7, SecondCopy DEF Receive, NonceInv
    <2> QED BY <1>7, <2>1 DEF Receive
  <1>8. ASSUME NEW id \in Sent, TurnAway(id) PROVE OnceInv'
    BY <1>8 DEF TurnAway
  <1>9. ASSUME NEW id \in Sent, Enforce(id) PROVE OnceInv'
    BY <1>9 DEF Enforce
  <1>10. ASSUME UNCHANGED vars PROVE OnceInv'
    BY <1>10 DEF vars
  <1> QED BY <1>1, <1>2, <1>3, <1>4, <1>5, <1>6, <1>7, <1>8, <1>9, <1>10 DEF Next

-----------------------------------------------------------------------------
(* No window holds more than the limit.                                    *)

\* What was let in within the window has not left the sorted set.
WindowInv ==
  /\ IsFiniteSet(hits)
  /\ \A a \in admitted : a.at <= now /\ (a.at > now - Window => a \in hits)

InWindow(a) == {b \in admitted : b.at <= a.at /\ b.at > a.at - Window}

LEMMA WindowNext ==
  PostedOK /\ RestOK /\ WindowInv /\ AdmittedWithinLimit /\ [Next]_vars
    => (WindowInv /\ AdmittedWithinLimit)'
  <1> SUFFICES ASSUME PostedOK, RestOK, WindowInv, AdmittedWithinLimit, [Next]_vars
               PROVE  WindowInv' /\ AdmittedWithinLimit'
    OBVIOUS
  <1>0. /\ now \in Nat /\ now' \in {now, now + 1}
        /\ \A a \in admitted \cup hits : a.at \in Nat
    BY PostedNext DEF PostedOK, RestOK, Entry
  <1>1. ASSUME UNCHANGED <<hits, admitted>> PROVE WindowInv' /\ AdmittedWithinLimit'
    BY <1>0, <1>1, Numbers DEF WindowInv, AdmittedWithinLimit
  <1>2. ASSUME NEW id \in Sent, Enforce(id) PROVE WindowInv' /\ AdmittedWithinLimit'
    <2> DEFINE x == [id |-> id, at |-> now]
    <2>1. /\ now' = now /\ hits' = Counted(id) /\ Counted(id) = Recent \cup {x}
          /\ \/ admitted' = admitted
             \/ admitted' = admitted \cup {x} /\ ~(Cardinality(Counted(id)) > Limit)
      BY <1>2 DEF Enforce, Counted, OverLimit, clock
    <2>2. IsFiniteSet(Counted(id))
      <3>1. Recent \in SUBSET hits /\ IsFiniteSet(hits)
        BY DEF Recent, WindowInv
      <3>2. IsFiniteSet(Recent)
        BY <3>1, FS_Subset
      <3> QED BY <2>1, <3>2, FS_AddElement
    <2>3. \A a \in admitted' : a.at <= now /\ (a.at > now - Window => a \in Counted(id))
      BY <2>1, <1>0, Numbers DEF WindowInv, Recent
    <2>4. WindowInv'
      BY <2>1, <2>2, <2>3 DEF WindowInv
    <2>5. ASSUME NEW a \in admitted' PROVE Cardinality(InWindow(a)') <= Limit
      <3>1. CASE admitted' = admitted
        BY <3>1, <2>5 DEF AdmittedWithinLimit, InWindow
      <3>2. CASE admitted' = admitted \cup {x} /\ a.at < now
        <4>1. InWindow(a)' = InWindow(a) /\ a \in admitted
          BY <3>2, <2>5, <1>0 DEF InWindow
        <4> QED BY <4>1 DEF AdmittedWithinLimit, InWindow
      <3>3. CASE ~(Cardinality(Counted(id)) > Limit) /\ a.at = now
        <4>1. InWindow(a)' \subseteq Counted(id)
          BY <3>3, <2>3 DEF InWindow
        <4>2. Cardinality(InWindow(a)') <= Cardinality(Counted(id)) /\ Cardinality(Counted(id)) \in Nat
              /\ Cardinality(InWindow(a)') \in Nat
          BY <4>1, <2>2, FS_Subset, FS_CardinalityType
        <4> QED BY <4>2, <3>3, Numbers
      <3> QED BY <3>1, <3>2, <3>3, <2>1, <2>3, <1>0, <2>5
    <2> QED BY <2>4, <2>5 DEF AdmittedWithinLimit, InWindow
  <1> QED BY <1>1, <1>2 DEF Next, vars, clock, redis, client, Tick, Call, Retry, Exhausted, Heartbeat,
             Lose, Receive, TurnAway

-----------------------------------------------------------------------------
(* A call that has slept for a window is not limited.                      *)

LEMMA Cancel == ASSUME NEW a \in Int, NEW b \in Int, Beat * a < Beat * b PROVE a < b
  <1> SUFFICES ASSUME b <= a PROVE FALSE
    OBVIOUS
  <1>1. Beat \in Nat \ {0}
    BY Shape
  <1>2. PICK d \in Nat : a = b + d
    <2>1. a - b \in Nat /\ a = b + (a - b)
      OBVIOUS
    <2> QED BY <2>1
  <1>3. Beat * a = Beat * b + Beat * d /\ Beat * d \in Nat /\ Beat * b \in Int
    BY <1>1, <1>2
  <1> QED BY <1>1, <1>3

\* Ticks(a) is how often the ticker has fired by the second a.
Ticks(a) == a \div Beat

LEMMA TicksIs ==
  ASSUME NEW a \in Int
  PROVE  /\ Ticks(a) \in Int /\ Beat * Ticks(a) \in Int
         /\ Beat * Ticks(a) <= a /\ a < Beat * Ticks(a) + Beat
         /\ a % Beat = a - Beat * Ticks(a)
  BY Shape DEF Ticks

LEMMA TicksGrow == ASSUME NEW a \in Int, NEW b \in Int, a <= b PROVE Ticks(a) <= Ticks(b)
  <1>1. Beat \in Nat \ {0} /\ Ticks(a) \in Int /\ Ticks(b) \in Int
    BY Shape, TicksIs
  <1>2. Beat * (Ticks(b) + 1) = Beat * Ticks(b) + Beat
    BY <1>1
  <1>3. Beat * Ticks(a) < Beat * (Ticks(b) + 1)
    BY <1>1, <1>2, TicksIs
  <1>4. Ticks(a) < Ticks(b) + 1
    BY <1>1, <1>3, Cancel
  <1> QED BY <1>1, <1>4

\* In Beat times c seconds it fires c times.
LEMMA TicksWithin ==
  ASSUME NEW a \in Int, NEW b \in Int, NEW c \in Nat, b <= a + c * Beat
  PROVE  Ticks(b) <= Ticks(a) + c
  <1>1. Beat \in Nat \ {0} /\ Ticks(a) \in Int /\ Ticks(b) \in Int
    BY Shape, TicksIs
  <1>2. Beat * (Ticks(a) + c + 1) = Beat * Ticks(a) + c * Beat + Beat /\ c * Beat \in Nat
    BY <1>1
  <1>3. Beat * Ticks(b) < Beat * (Ticks(a) + c + 1)
    BY <1>1, <1>2, TicksIs
  <1>4. Ticks(b) < Ticks(a) + c + 1
    BY <1>1, <1>3, Cancel
  <1> QED BY <1>1, <1>4

\* The second in which the ticker fires counts.
LEMMA TickFires ==
  ASSUME NEW n \in Nat, (n + 1) % Beat = 0
  PROVE  Ticks(n) + 1 <= Ticks(n + 1)
  <1>0. n \in Int /\ n + 1 \in Int
    OBVIOUS
  <1>1. Beat \in Nat \ {0} /\ Ticks(n) \in Int /\ Ticks(n + 1) \in Int
    BY <1>0, Shape, TicksIs
  <1>2. Beat * Ticks(n + 1) = n + 1
    BY <1>1, TicksIs
  <1>3. Beat * Ticks(n) < Beat * Ticks(n + 1)
    BY <1>1, <1>2, TicksIs
  <1>4. Ticks(n) < Ticks(n + 1)
    BY <1>1, <1>3, Cancel
  <1> QED BY <1>1, <1>4

\* No delay of a call is shorter than the one before it.
LEMMA DelaysGrow ==
  ASSUME NEW j \in Nat \ {0}, NEW k \in Nat \ {0}, j <= k
  PROVE  Delay(j) <= Delay(k)
  <1>1. Delays \in Seq(Nat) /\ Len(Delays) \in Nat /\ Len(Delays) # 0
    BY Shape
  <1> DEFINE At(n) == IF n < Len(Delays) THEN n ELSE Len(Delays)
  <1>2. At(j) \in DOMAIN Delays /\ At(k) \in DOMAIN Delays /\ At(j) <= At(k)
    BY <1>1
  <1> QED BY <1>2, Growing DEF Delay

LEMMA SentFinite == PostedOK => IsFiniteSet(Sent)
  <1> SUFFICES ASSUME PostedOK PROVE IsFiniteSet(Sent)
    OBVIOUS
  <1>1. Len(posted) \in Nat
    BY DEF PostedOK
  <1> QED BY <1>1, FS_Interval DEF Sent

\* Whoever waits for an answer has sent the request in this second.
AwaitInv ==
  /\ \A id \in net : posted[id] = now
  /\ pc # "idle" => call.id \in Sent
  /\ pc = "await" => call.id \in net \cup handling /\ posted[call.id] = now

LEMMA AwaitNext == PostedOK /\ RestOK /\ AwaitInv /\ [Next]_vars => AwaitInv'
  <1> SUFFICES ASSUME PostedOK, RestOK, AwaitInv, [Next]_vars PROVE AwaitInv'
    OBVIOUS
  <1>0. /\ Sent \subseteq Sent' /\ \A id \in Sent : posted'[id] = posted[id]
        /\ net \subseteq Sent /\ handling \subseteq Sent
    BY PostedNext DEF RestOK
  <1>a. ASSUME Post, now' = now, net' = net \cup {Len(posted) + 1}
        PROVE  /\ Len(posted) + 1 \in Sent' /\ posted'[Len(posted) + 1] = now'
               /\ \A id \in net' : posted'[id] = now'
    <2>1. posted' = Append(posted, now) /\ posted \in Seq(Nat) /\ Len(posted) \in Nat
      BY <1>a DEF Post, PostedOK
    <2>2. posted'[Len(posted) + 1] = now /\ Len(posted') = Len(posted) + 1
      BY <2>1
    <2>3. Len(posted) + 1 \in Sent'
      BY <2>1, <2>2 DEF Sent
    <2> QED BY <1>0, <1>a, <2>2, <2>3 DEF AwaitInv
  <1> USE <1>0 DEF AwaitInv, clock, redis, client
  <1>1. ASSUME Tick PROVE AwaitInv'
    BY <1>1 DEF Tick
  <1>2. ASSUME NEW max \in Calls, Call(max) PROVE AwaitInv'
    BY <1>2, <1>a DEF Call, Post
  <1>3. ASSUME Retry PROVE AwaitInv'
    <2>1. call \in [max: Nat, n: Nat, id: Nat]
      BY DEF RestOK
    <2>2. call'.id = Len(posted) + 1
      BY <1>3, <2>1 DEF Retry
    <2>3. Post /\ now' = now /\ net' = net \cup {Len(posted) + 1}
      BY <1>3 DEF Retry, Post
    <2>4. Len(posted) + 1 \in Sent' /\ posted'[Len(posted) + 1] = now' /\ \A id \in net' : posted'[id] = now'
      BY <1>a, <2>3
    <2> QED BY <2>2, <2>3, <2>4
  <1>4. ASSUME Exhausted PROVE AwaitInv'
    BY <1>4 DEF Exhausted
  <1>5. ASSUME Heartbeat PROVE AwaitInv'
    <2>1. UNCHANGED <<now, pc, call, handling>> /\ net' = net \cup {Len(posted) + 1} /\ Post
      BY <1>5 DEF Heartbeat, Post
    <2> QED BY <2>1, <1>a
  <1>6. ASSUME NEW id \in Sent, Lose(id) PROVE AwaitInv'
    BY <1>6 DEF Lose, Leave, Answer
  <1>7. ASSUME NEW id \in Sent, Receive(id) PROVE AwaitInv'
    BY <1>7 DEF Receive, Leave
  <1>8. ASSUME NEW id \in Sent, TurnAway(id) PROVE AwaitInv'
    BY <1>8 DEF TurnAway, Leave, Answer
  <1>9. ASSUME NEW id \in Sent, Enforce(id) PROVE AwaitInv'
    BY <1>9 DEF Enforce, Answer
  <1>10. ASSUME UNCHANGED vars PROVE AwaitInv'
    BY <1>10 DEF vars
  <1> QED BY <1>1, <1>2, <1>3, <1>4, <1>5, <1>6, <1>7, <1>8, <1>9, <1>10 DEF Next

\* One element more is at most one more to count.
LEMMA OneMore ==
  ASSUME NEW S, IsFiniteSet(S), NEW x
  PROVE  /\ IsFiniteSet(S \cup {x}) /\ Cardinality(S \cup {x}) \in Nat
         /\ Cardinality(S \cup {x}) <= Cardinality(S) + 1
  <1>1. Cardinality(S) \in Nat
    BY FS_CardinalityType
  <1>2. /\ IsFiniteSet(S \cup {x})
        /\ Cardinality(S \cup {x}) = IF x \in S THEN Cardinality(S) ELSE Cardinality(S) + 1
    BY FS_AddElement
  <1> QED BY <1>1, <1>2

\* What has come late, still may, or is being handled: copies counts all of it.
LateHits == {x \in hits : x.at # posted[x.id]}
LateHandled == {id \in handling : posted[id] # now}
LateInv ==
  /\ \A x \in hits : x.id \in Sent
  /\ Cardinality(LateHits) + Cardinality(LateHandled) + Cardinality(late) <= copies

LEMMA LateFinite ==
  PostedOK /\ RestOK /\ WindowInv
    => /\ IsFiniteSet(LateHits) /\ IsFiniteSet(LateHandled) /\ IsFiniteSet(late)
       /\ Cardinality(LateHits) \in Nat /\ Cardinality(LateHandled) \in Nat /\ Cardinality(late) \in Nat
  <1> SUFFICES ASSUME PostedOK, RestOK, WindowInv
               PROVE  IsFiniteSet(LateHits) /\ IsFiniteSet(LateHandled) /\ IsFiniteSet(late)
    BY FS_CardinalityType
  <1>1. IsFiniteSet(Sent) /\ IsFiniteSet(hits)
    BY SentFinite DEF WindowInv
  <1>2. LateHits \subseteq hits /\ LateHandled \subseteq Sent /\ late \subseteq Sent
    BY DEF LateHits, LateHandled, RestOK
  <1> QED BY <1>1, <1>2, FS_Subset

\* A request that is kept costs a copy; one that comes late is kept no longer.
LEMMA LeaveCounts ==
  ASSUME PostedOK, RestOK, NEW id \in Sent, Leave(id)
  PROVE  /\ Cardinality(late') + copies <= Cardinality(late) + copies'
         /\ id \in late => Cardinality(late') + 1 + copies <= Cardinality(late) + copies'
  <1>1. IsFiniteSet(late) /\ Cardinality(late) \in Nat /\ copies \in Nat
    BY SentFinite, FS_Subset, FS_CardinalityType, Numbers DEF RestOK
  <1>2. CASE late' = late \ {id} /\ copies' = copies
    <2>1. Cardinality(late') = IF id \in late THEN Cardinality(late) - 1 ELSE Cardinality(late)
      BY <1>1, <1>2, FS_RemoveElement
    <2> QED BY <1>1, <1>2, <2>1
  <1>3. CASE late' = late \cup {id} /\ copies' = copies + 1
    <2>1. Cardinality(late') = IF id \in late THEN Cardinality(late) ELSE Cardinality(late) + 1
      BY <1>1, <1>3, FS_AddElement
    <2> QED BY <1>1, <1>3, <2>1
  <1> QED BY <1>2, <1>3 DEF Leave

LEMMA LateNext ==
  PostedOK /\ RestOK /\ WindowInv /\ AwaitInv /\ LateInv /\ [Next]_vars => LateInv'
  <1> SUFFICES ASSUME PostedOK, RestOK, WindowInv, AwaitInv, LateInv, [Next]_vars PROVE LateInv'
    OBVIOUS
  <1>0. /\ Sent \subseteq Sent' /\ (\A id \in Sent : posted'[id] = posted[id])
        /\ handling \subseteq Sent /\ \A x \in hits : x.id \in Sent
    BY PostedNext DEF RestOK, LateInv
  <1>c. /\ IsFiniteSet(LateHits) /\ IsFiniteSet(LateHandled) /\ IsFiniteSet(late)
        /\ Cardinality(LateHits) \in Nat /\ Cardinality(LateHandled) \in Nat /\ Cardinality(late) \in Nat
        /\ copies \in Nat
        /\ Cardinality(LateHits) + Cardinality(LateHandled) + Cardinality(late) <= copies
    BY LateFinite, Numbers DEF LateInv, RestOK
  <1> USE DEF clock, redis, client
  <1>a. ASSUME UNCHANGED <<hits, handling, late, copies>>, now' = now \/ handling = {}
        PROVE  LateInv'
    <2>1. LateHits' = LateHits
      BY <1>0, <1>a DEF LateHits
    <2>2. LateHandled' = LateHandled
      BY <1>0, <1>a DEF LateHandled
    <2> QED BY <1>0, <1>a, <2>1, <2>2 DEF LateInv
  <1>b. ASSUME NEW id \in Sent, Leave(id), UNCHANGED <<hits, handling, now, posted>>
        PROVE  LateInv'
    <2>1. LateHits' = LateHits /\ LateHandled' = LateHandled
      BY <1>b DEF LateHits, LateHandled
    <2>2. Cardinality(late') + copies <= Cardinality(late) + copies'
      BY <1>b, LeaveCounts
    <2>3. Cardinality(late') \in Nat /\ copies' \in Nat
      <3>1. RestOK' /\ PostedOK'
        BY RestNext, PostedNext
      <3>2. IsFiniteSet(late')
        BY <1>b, <1>c, FS_RemoveElement, FS_AddElement DEF Leave
      <3> QED BY <3>1, <3>2, FS_CardinalityType, Numbers DEF RestOK
    <2> QED BY <1>0, <1>b, <1>c, <2>1, <2>2, <2>3 DEF LateInv
  <1>1. ASSUME Tick PROVE LateInv'
    BY <1>1, <1>a DEF Tick
  <1>2. ASSUME NEW max \in Calls, Call(max) PROVE LateInv'
    BY <1>2, <1>a DEF Call
  <1>3. ASSUME Retry PROVE LateInv'
    BY <1>3, <1>a DEF Retry
  <1>4. ASSUME Exhausted PROVE LateInv'
    BY <1>4, <1>a DEF Exhausted
  <1>5. ASSUME Heartbeat PROVE LateInv'
    BY <1>5, <1>a DEF Heartbeat
  <1>6. ASSUME NEW id \in Sent, Lose(id) PROVE LateInv'
    BY <1>6, <1>b DEF Lose
  <1>7. ASSUME NEW id \in Sent, Receive(id) PROVE LateInv'
    <2>1. /\ handling' = handling \cup {id} /\ id \notin handling /\ id \in net \cup late
          /\ Leave(id) /\ UNCHANGED <<hits, now, posted>>
      BY <1>7 DEF Receive
    <2>2. LateHits' = LateHits
      BY <2>1 DEF LateHits
    <2>3. /\ Cardinality(late') + copies <= Cardinality(late) + copies'
          /\ id \in late => Cardinality(late') + 1 + copies <= Cardinality(late) + copies'
      BY <2>1, LeaveCounts
    <2>4. Cardinality(late') \in Nat /\ copies' \in Nat
      <3>1. RestOK' /\ PostedOK'
        BY RestNext, PostedNext
      <3>2. IsFiniteSet(late')
        BY <2>1, <1>c, FS_RemoveElement, FS_AddElement DEF Leave
      <3> QED BY <3>1, <3>2, FS_CardinalityType, Numbers DEF RestOK
    <2>5. CASE posted[id] = now
      <3>1. LateHandled' = LateHandled
        BY <2>1, <2>5 DEF LateHandled
      <3> QED BY <1>0, <1>c, <2>1, <2>2, <2>3, <2>4, <3>1 DEF LateInv
    <2>6. CASE posted[id] # now
      <3>1. LateHandled' = LateHandled \cup {id} /\ id \notin LateHandled
        BY <2>1, <2>6 DEF LateHandled
      <3>2. Cardinality(LateHandled') = Cardinality(LateHandled) + 1
        BY <1>c, <3>1, FS_AddElement
      <3>3. id \in late
        BY <2>1, <2>6 DEF AwaitInv
      <3> QED BY <1>0, <1>c, <2>1, <2>2, <2>3, <2>4, <3>2, <3>3 DEF LateInv
    <2> QED BY <2>5, <2>6
  <1>8. ASSUME NEW id \in Sent, TurnAway(id) PROVE LateInv'
    BY <1>8, <1>b DEF TurnAway
  <1>9. ASSUME NEW id \in Sent, Enforce(id) PROVE LateInv'
    <2> DEFINE x == [id |-> id, at |-> now]
    <2>1. /\ id \in handling /\ handling' = handling \ {id} /\ hits' = Recent \cup {x}
          /\ UNCHANGED <<now, posted, late, copies>>
      BY <1>9 DEF Enforce
    <2>2. Recent \subseteq hits /\ x.id = id /\ x.at = now
      BY DEF Recent
    <2> HIDE DEF x
    <2>3. \A y \in hits' : y.id \in Sent'
      BY <1>0, <2>1, <2>2
    <2>4. CASE posted[id] = now
      <3>1. LateHits' \subseteq LateHits /\ LateHandled' \subseteq LateHandled
        BY <2>1, <2>2, <2>4 DEF LateHits, LateHandled
      <3>2. /\ Cardinality(LateHits') <= Cardinality(LateHits) /\ Cardinality(LateHits') \in Nat
            /\ Cardinality(LateHandled') <= Cardinality(LateHandled) /\ Cardinality(LateHandled') \in Nat
        BY <1>c, <3>1, FS_Subset, FS_CardinalityType
      <3> QED BY <1>c, <2>1, <2>3, <3>2 DEF LateInv
    <2>5. CASE posted[id] # now
      <3>1. LateHits' \subseteq LateHits \cup {x}
        BY <2>1, <2>2 DEF LateHits
      <3>2. LateHandled' = LateHandled \ {id} /\ id \in LateHandled
        BY <2>1, <2>5 DEF LateHandled
      <3>3. IsFiniteSet(LateHits \cup {x}) /\ Cardinality(LateHits \cup {x}) <= Cardinality(LateHits) + 1
        BY <1>c, OneMore
      <3>4. /\ Cardinality(LateHits') <= Cardinality(LateHits \cup {x}) /\ Cardinality(LateHits') \in Nat
            /\ Cardinality(LateHits \cup {x}) \in Nat
        BY <3>1, <3>3, FS_Subset, FS_CardinalityType
      <3>5. Cardinality(LateHandled') = Cardinality(LateHandled) - 1
        BY <1>c, <3>2, FS_RemoveElement
      <3> QED BY <1>c, <2>1, <2>3, <3>3, <3>4, <3>5 DEF LateInv
    <2> QED BY <2>4, <2>5
  <1>10. ASSUME UNCHANGED vars PROVE LateInv'
    BY <1>10, <1>a DEF vars
  <1> QED BY <1>1, <1>2, <1>3, <1>4, <1>5, <1>6, <1>7, <1>8, <1>9, <1>10 DEF Next

\* Who sleeps wakes no sooner than the delay after all it had sent.
SleepInv ==
  pc = "asleep" => \A i \in Sent : i <= call.id => posted[i] + Delay(call.n) <= wake

LEMMA SleepNext == PostedOK /\ RestOK /\ AwaitInv /\ SleepInv /\ [Next]_vars => SleepInv'
  <1> SUFFICES ASSUME PostedOK, RestOK, AwaitInv, SleepInv, [Next]_vars PROVE SleepInv'
    OBVIOUS
  <1>0. /\ now \in Nat /\ \A i \in Sent : posted[i] \in Nat /\ posted[i] <= now
        /\ pc # "idle" => call.id \in Sent
    BY DEF PostedOK, Sent, AwaitInv
  <1> USE DEF clock, redis, client
  <1>a. ASSUME UNCHANGED <<posted, pc, call, wake>> PROVE SleepInv'
    <2>1. Sent' = Sent /\ \A n : Delay(n)' = Delay(n)
      BY <1>a DEF Sent, Delay
    <2> QED BY <1>a, <2>1 DEF SleepInv
  <1>b. ASSUME NEW id \in Sent, NEW kind, Answer(id, kind), UNCHANGED <<posted, now>> PROVE SleepInv'
    <2>1. CASE pc = "await" /\ call.id = id /\ kind = "again"
      <3>1. call' = call /\ wake' = now + Delay(call.n)
        BY <1>b, <2>1 DEF Answer
      <3>2. Delay(call.n) \in Nat
        <4>1. call.n \in Nat /\ call.n # 0
          BY <2>1 DEF RestOK
        <4> QED BY <4>1, DelayType
      <3>3. \A i \in Sent : posted[i] + Delay(call.n) <= wake'
        BY <1>0, <3>1, <3>2
      <3> QED BY <1>b, <3>1, <3>3 DEF SleepInv, Sent
    <2>2. CASE pc = "await" /\ call.id = id /\ kind # "again"
      BY <1>b, <2>2 DEF Answer, SleepInv
    <2>3. CASE ~(pc = "await" /\ call.id = id)
      BY <1>b, <2>3, <1>a DEF Answer
    <2> QED BY <2>1, <2>2, <2>3
  <1>1. ASSUME Tick PROVE SleepInv'
    BY <1>1, <1>a DEF Tick
  <1>2. ASSUME NEW max \in Calls, Call(max) PROVE SleepInv'
    BY <1>2 DEF Call, SleepInv
  <1>3. ASSUME Retry PROVE SleepInv'
    BY <1>3 DEF Retry, SleepInv
  <1>4. ASSUME Exhausted PROVE SleepInv'
    BY <1>4 DEF Exhausted, SleepInv
  <1>5. ASSUME Heartbeat PROVE SleepInv'
    <2>1. UNCHANGED <<pc, call, wake>>
      BY <1>5 DEF Heartbeat
    <2>2. /\ Sent' = Sent \cup {Len(posted) + 1}
          /\ \A i \in Sent : posted'[i] = posted[i]
      BY <1>5, Grown DEF Heartbeat, Post
    <2>3. pc = "asleep" => call.id < Len(posted) + 1 /\ call.id \in Nat
      BY <1>0 DEF Sent, PostedOK
    <2> QED BY <2>1, <2>2, <2>3 DEF SleepInv
  <1>6. ASSUME NEW id \in Sent, Lose(id) PROVE SleepInv'
    BY <1>6, <1>b DEF Lose
  <1>7. ASSUME NEW id \in Sent, Receive(id) PROVE SleepInv'
    BY <1>7, <1>a DEF Receive
  <1>8. ASSUME NEW id \in Sent, TurnAway(id) PROVE SleepInv'
    BY <1>8, <1>b DEF TurnAway
  <1>9. ASSUME NEW id \in Sent, Enforce(id) PROVE SleepInv'
    BY <1>9, <1>b DEF Enforce
  <1>10. ASSUME UNCHANGED vars PROVE SleepInv'
    BY <1>10, <1>a DEF vars
  <1> QED BY <1>1, <1>2, <1>3, <1>4, <1>5, <1>6, <1>7, <1>8, <1>9, <1>10 DEF Next

\* Since the call's last attempt there are only heartbeats, one for each tick of
\* the ticker but for one that was due before.
After(s) == {id \in Sent : id > call.id /\ posted[id] >= s}
Due == IF due THEN 1 ELSE 0
BeatsInv ==
  pc # "idle" =>
    \A s \in Int : s <= now => Cardinality(After(s)) + Due <= Ticks(now) - Ticks(s) + 1

LEMMA AfterFinite ==
  ASSUME PostedOK, NEW s
  PROVE  IsFiniteSet(After(s)) /\ Cardinality(After(s)) \in Nat
  <1>1. After(s) \subseteq Sent
    BY DEF After
  <1> QED BY <1>1, SentFinite, FS_Subset, FS_CardinalityType

LEMMA BeatsNext == PostedOK /\ RestOK /\ AwaitInv /\ BeatsInv /\ [Next]_vars => BeatsInv'
  <1> SUFFICES ASSUME PostedOK, RestOK, AwaitInv, BeatsInv, [Next]_vars PROVE BeatsInv'
    OBVIOUS
  <1>0. now \in Nat /\ due \in BOOLEAN /\ Due \in {0, 1}
    BY DEF PostedOK, RestOK, Due
  <1> USE DEF clock, redis, client
  <1>a. ASSUME UNCHANGED <<posted, call, now, due>>, pc' # "idle" => pc # "idle" PROVE BeatsInv'
    <2>1. \A s : After(s)' = After(s)
      BY <1>a DEF After, Sent
    <2> QED BY <1>a, <2>1 DEF BeatsInv, Due, Ticks
  <1>b. ASSUME call'.id = Len(posted) + 1, Post, UNCHANGED <<now, due>> PROVE BeatsInv'
    <2>1. \A i \in Sent' : ~(i > call'.id)
      <3>1. Sent' = Sent \cup {Len(posted) + 1} /\ Len(posted) \in Nat
        BY <1>b, Grown DEF Post, PostedOK
      <3> QED BY <1>b, <3>1 DEF Sent
    <2>2. ASSUME NEW s \in Int, s <= now PROVE Cardinality(After(s)') + Due' <= Ticks(now) - Ticks(s) + 1
      <3>1. After(s)' = {}
        BY <2>1 DEF After
      <3>2. Cardinality(After(s)') = 0
        BY <3>1, FS_EmptySet
      <3>3. Ticks(s) <= Ticks(now) /\ Ticks(s) \in Int /\ Ticks(now) \in Int
        BY <1>0, <2>2, TicksGrow, TicksIs
      <3>4. Due' \in {0, 1}
        BY <1>b, <1>0 DEF Due
      <3> QED BY <3>2, <3>3, <3>4
    <2> QED BY <1>b, <2>2 DEF BeatsInv, Ticks
  <1>1. ASSUME Tick PROVE BeatsInv'
    <2>1. /\ now' = now + 1 /\ due' = (due \/ (now + 1) % Beat = 0)
          /\ UNCHANGED <<posted, call, pc>>
      BY <1>1 DEF Tick
    <2>2. ASSUME pc # "idle", NEW s \in Int, s <= now + 1
          PROVE  Cardinality(After(s)) + Due' <= Ticks(now + 1) - Ticks(s) + 1
      <3>1. /\ Ticks(s) \in Int /\ Ticks(now) \in Int /\ Ticks(now + 1) \in Int
            /\ Ticks(now) <= Ticks(now + 1) /\ Ticks(s) <= Ticks(now + 1)
        BY <1>0, <2>2, TicksIs, TicksGrow
      <3>2. Cardinality(After(s)) \in Nat
        BY AfterFinite
      <3>3. CASE s <= now /\ due' = due
        <4>1. Due' = Due
          BY <3>3 DEF Due
        <4> QED BY <1>0, <2>2, <3>1, <3>2, <3>3, <4>1 DEF BeatsInv
      <3>4. CASE s <= now /\ due' # due
        <4>1. Ticks(now) + 1 <= Ticks(now + 1)
          BY <1>0, <2>1, <3>4, TickFires
        <4>2. Due' = 1 /\ Due = 0
          BY <1>0, <2>1, <3>4 DEF Due
        <4> QED BY <2>2, <3>1, <3>2, <3>4, <4>1, <4>2 DEF BeatsInv
      <3>5. CASE s = now + 1
        <4>1. After(s) = {}
          BY <1>0, <3>5 DEF After, PostedOK, Sent
        <4>2. Cardinality(After(s)) = 0 /\ Due' \in {0, 1}
          BY <4>1, FS_EmptySet DEF Due
        <4> QED BY <3>1, <4>2
      <3> QED BY <1>0, <2>2, <3>3, <3>4, <3>5
    <2>3. \A s : After(s)' = After(s)
      BY <2>1 DEF After, Sent
    <2> QED BY <2>1, <2>2, <2>3 DEF BeatsInv, Ticks
  <1>2. ASSUME NEW max \in Calls, Call(max) PROVE BeatsInv'
    <2>1. call'.id = Len(posted) + 1 /\ Post /\ UNCHANGED <<now, due>>
      BY <1>2 DEF Call
    <2> QED BY <1>b, <2>1
  <1>3. ASSUME Retry PROVE BeatsInv'
    <2>1. call \in [max: Nat, n: Nat, id: Nat]
      BY DEF RestOK
    <2>2. call'.id = Len(posted) + 1 /\ Post /\ UNCHANGED <<now, due>>
      BY <1>3, <2>1 DEF Retry
    <2> QED BY <1>b, <2>2
  <1>4. ASSUME Exhausted PROVE BeatsInv'
    BY <1>4 DEF Exhausted, BeatsInv
  <1>5. ASSUME Heartbeat PROVE BeatsInv'
    <2>1. Due = 1 /\ Due' = 0 /\ UNCHANGED <<pc, call, now>>
      BY <1>5 DEF Heartbeat, Due
    <2>2. /\ Sent' = Sent \cup {Len(posted) + 1}
          /\ \A i \in Sent : posted'[i] = posted[i]
      BY <1>5, Grown DEF Heartbeat, Post
    <2>3. PostedOK'
      BY PostedNext
    <2>4. ASSUME pc # "idle", NEW s \in Int, s <= now
          PROVE  Cardinality(After(s)') + Due' <= Ticks(now) - Ticks(s) + 1
      <3>1. After(s)' \subseteq After(s) \cup {Len(posted) + 1}
        BY <2>1, <2>2 DEF After
      <3>2. /\ IsFiniteSet(After(s)) /\ Cardinality(After(s)) \in Nat
            /\ IsFiniteSet(After(s) \cup {Len(posted) + 1})
            /\ Cardinality(After(s) \cup {Len(posted) + 1}) \in Nat
            /\ Cardinality(After(s) \cup {Len(posted) + 1}) <= Cardinality(After(s)) + 1
        BY AfterFinite, OneMore
      <3>3. Cardinality(After(s)') <= Cardinality(After(s)) + 1 /\ Cardinality(After(s)') \in Nat
        BY <3>1, <3>2, FS_Subset, FS_CardinalityType
      <3>4. Cardinality(After(s)) + Due <= Ticks(now) - Ticks(s) + 1
        BY <2>4 DEF BeatsInv
      <3>5. Ticks(s) \in Int /\ Ticks(now) \in Int
        BY <1>0, TicksIs
      <3> QED BY <2>1, <3>2, <3>3, <3>4, <3>5
    <2> QED BY <2>1, <2>4 DEF BeatsInv, Ticks
  <1>6. ASSUME NEW id \in Sent, Lose(id) PROVE BeatsInv'
    BY <1>6, <1>a DEF Lose, Answer
  <1>7. ASSUME NEW id \in Sent, Receive(id) PROVE BeatsInv'
    BY <1>7, <1>a DEF Receive
  <1>8. ASSUME NEW id \in Sent, TurnAway(id) PROVE BeatsInv'
    BY <1>8, <1>a DEF TurnAway, Answer
  <1>9. ASSUME NEW id \in Sent, Enforce(id) PROVE BeatsInv'
    BY <1>9, <1>a DEF Enforce, Answer
  <1>10. ASSUME UNCHANGED vars PROVE BeatsInv'
    BY <1>10, <1>a DEF vars
  <1> QED BY <1>1, <1>2, <1>3, <1>4, <1>5, <1>6, <1>7, <1>8, <1>9, <1>10 DEF Next

\* An attempt after a delay as long as the window has no other request beside it
\* in the window but heartbeats.
Others == {id \in Sent : id # call.id /\ posted[id] > now - Window}
SleptLong == pc = "await" /\ call.n > 1 /\ Delay(call.n - 1) >= Window
ClearInv ==
  SleptLong => Cardinality(Others) + Due <= Ticks(now) - Ticks(now - Window + 1) + 1

LEMMA OthersFinite ==
  PostedOK => IsFiniteSet(Others) /\ Cardinality(Others) \in Nat
  <1>1. Others \subseteq Sent
    BY DEF Others
  <1> QED BY <1>1, SentFinite, FS_Subset, FS_CardinalityType

LEMMA ClearNext ==
  PostedOK /\ RestOK /\ AwaitInv /\ SleepInv /\ BeatsInv /\ ClearInv /\ [Next]_vars => ClearInv'
  <1> SUFFICES ASSUME PostedOK, RestOK, AwaitInv, SleepInv, BeatsInv, ClearInv, [Next]_vars PROVE ClearInv'
    OBVIOUS
  <1>0. /\ now \in Nat /\ due \in BOOLEAN /\ Window \in Nat \ {0}
        /\ call \in [max: Nat, n: Nat, id: Nat]
        /\ now - Window + 1 \in Int /\ now - Window + 1 <= now
    BY Numbers DEF PostedOK, RestOK
  <1> USE DEF clock, redis, client
  <1>a. ASSUME UNCHANGED <<posted, call, now, due>>, pc' = "await" => pc = "await" PROVE ClearInv'
    <2>1. Others' = Others
      BY <1>a DEF Others, Sent
    <2>2. Delay(call.n - 1)' = Delay(call.n - 1)
      BY <1>a DEF Delay
    <2> QED BY <1>a, <2>1, <2>2 DEF ClearInv, Due, Ticks, SleptLong
  <1>1. ASSUME Tick PROVE ClearInv'
    <2>1. pc' # "await"
      BY <1>1 DEF Tick, AwaitInv
    <2> QED BY <2>1 DEF ClearInv, SleptLong
  <1>2. ASSUME NEW max \in Calls, Call(max) PROVE ClearInv'
    <2>1. call'.n = 1
      BY <1>2 DEF Call
    <2> QED BY <2>1 DEF ClearInv, SleptLong
  <1>3. ASSUME Retry PROVE ClearInv'
    <2> DEFINE s == now - Window + 1
    <2>1. /\ pc = "asleep" /\ now >= wake /\ UNCHANGED <<now, due>>
          /\ call'.id = Len(posted) + 1 /\ call'.n = call.n + 1
          /\ posted' = Append(posted, now)
      BY <1>0, <1>3 DEF Retry, Post
    <2>2. call'.n - 1 = call.n /\ call.n \in Nat /\ call.n # 0 /\ call.id \in Sent
      BY <1>0, <2>1 DEF RestOK, AwaitInv
    <2>3. SUFFICES ASSUME Delay(call.n) >= Window
                   PROVE  Cardinality(Others') + Due <= Ticks(now) - Ticks(s) + 1
      BY <2>1, <2>2 DEF ClearInv, Due, Ticks, SleptLong, Delay
    <2>4. /\ Sent' = Sent \cup {Len(posted) + 1} /\ \A i \in Sent : posted'[i] = posted[i]
      BY <2>1, Grown
    <2>5. \A i \in Sent : posted[i] \in Nat /\ i \in Nat
      BY DEF PostedOK, Sent
    <2>6. \A i \in Sent : i <= call.id => posted[i] <= now - Window
      <3>1. Delay(call.n) \in Nat /\ wake \in Nat
        BY <2>2, DelayType DEF RestOK
      <3> QED BY <1>0, <2>1, <2>3, <2>5, <3>1 DEF SleepInv
    <2>7. \A i \in Sent : posted[i] > now - Window => i > call.id /\ posted[i] >= s
      BY <1>0, <2>2, <2>5, <2>6
    <2>8. Others' \subseteq After(s)
      <3>1. now' - Window = now - Window
        BY <2>1
      <3> QED BY <2>1, <2>4, <2>7, <3>1 DEF Others, After
    <2>9. Cardinality(Others') <= Cardinality(After(s)) /\ Cardinality(Others') \in Nat
      BY <2>8, AfterFinite, FS_Subset, FS_CardinalityType
    <2>10. Cardinality(After(s)) + Due <= Ticks(now) - Ticks(s) + 1
      BY <1>0, <2>1 DEF BeatsInv
    <2>11. /\ Cardinality(After(s)) \in Nat /\ Ticks(s) \in Int /\ Ticks(now) \in Int /\ Due \in {0, 1}
      BY <1>0, AfterFinite, TicksIs DEF Due
    <2> HIDE DEF s
    <2> QED BY <2>9, <2>10, <2>11
  <1>4. ASSUME Exhausted PROVE ClearInv'
    BY <1>4 DEF Exhausted, ClearInv, SleptLong
  <1>5. ASSUME Heartbeat PROVE ClearInv'
    <2> DEFINE s == now - Window + 1
    <2>1. Due = 1 /\ Due' = 0 /\ UNCHANGED <<pc, call, now>>
      BY <1>5 DEF Heartbeat, Due
    <2>2. /\ Sent' = Sent \cup {Len(posted) + 1}
          /\ \A i \in Sent : posted'[i] = posted[i]
      BY <1>5, Grown DEF Heartbeat, Post
    <2>3. Others' \subseteq Others \cup {Len(posted) + 1}
      BY <2>1, <2>2 DEF Others
    <2>4. /\ Cardinality(Others') <= Cardinality(Others \cup {Len(posted) + 1})
          /\ Cardinality(Others') \in Nat
          /\ Cardinality(Others \cup {Len(posted) + 1}) \in Nat
          /\ Cardinality(Others \cup {Len(posted) + 1}) <= Cardinality(Others) + 1
      BY <2>3, OthersFinite, OneMore, FS_Subset, FS_CardinalityType
    <2>5. Cardinality(Others) \in Nat /\ Ticks(s) \in Int /\ Ticks(now) \in Int
      BY <1>0, OthersFinite, TicksIs
    <2>6. SUFFICES ASSUME SleptLong
                   PROVE  Cardinality(Others') + Due' <= Ticks(now) - Ticks(s) + 1
      BY <2>1 DEF ClearInv, Ticks, SleptLong, Delay
    <2>7. Cardinality(Others) + Due <= Ticks(now) - Ticks(s) + 1
      BY <2>6 DEF ClearInv
    <2> HIDE DEF s
    <2> QED BY <2>1, <2>4, <2>5, <2>7
  <1>6. ASSUME NEW id \in Sent, Lose(id) PROVE ClearInv'
    BY <1>6, <1>a DEF Lose, Answer
  <1>7. ASSUME NEW id \in Sent, Receive(id) PROVE ClearInv'
    BY <1>7, <1>a DEF Receive
  <1>8. ASSUME NEW id \in Sent, TurnAway(id) PROVE ClearInv'
    BY <1>8, <1>a DEF TurnAway, Answer
  <1>9. ASSUME NEW id \in Sent, Enforce(id) PROVE ClearInv'
    BY <1>9, <1>a DEF Enforce, Answer
  <1>10. ASSUME UNCHANGED vars PROVE ClearInv'
    BY <1>10, <1>a DEF vars
  <1> QED BY <1>1, <1>2, <1>3, <1>4, <1>5, <1>6, <1>7, <1>8, <1>9, <1>10 DEF Next

\* What is counted is the attempt, what came late, and the others of the window.
LEMMA NotLimited ==
  PostedOK /\ RestOK /\ WindowInv /\ AwaitInv /\ LateInv /\ ClearInv => BackoffOutlastsLimit
  <1> SUFFICES ASSUME PostedOK, RestOK, WindowInv, AwaitInv, LateInv, ClearInv,
                      NEW id \in handling, pc = "await", call.id = id,
                      NEW k \in 1..(call.n - 1), Delay(k) >= Window
               PROVE  Cardinality(Counted(id)) <= Limit
    <2>1. ASSUME PostedOK, RestOK, WindowInv, NEW id \in handling PROVE Cardinality(Counted(id)) \in Int
      <3>1. IsFiniteSet(Recent)
        BY <2>1, FS_Subset DEF Recent, WindowInv
      <3>2. IsFiniteSet(Recent \cup {[id |-> id, at |-> now]})
        BY <3>1, FS_AddElement
      <3> QED BY <3>2, FS_CardinalityType DEF Counted
    <2> QED BY <2>1, Numbers DEF BackoffOutlastsLimit, OverLimit
  <1>1. /\ now \in Nat /\ Window \in Nat \ {0} /\ call.n \in Nat /\ id \in Sent /\ posted[id] = now
        /\ Limit \in Nat /\ Copies \in Nat /\ copies \in 0..Copies /\ due \in BOOLEAN
    BY Numbers DEF PostedOK, RestOK, AwaitInv
  <1>2. SleptLong
    <2>1. k \in Nat \ {0} /\ call.n - 1 \in Nat \ {0} /\ k <= call.n - 1 /\ call.n > 1
      BY <1>1
    <2>2. Delay(k) <= Delay(call.n - 1) /\ Delay(k) \in Nat /\ Delay(call.n - 1) \in Nat
      BY <2>1, DelaysGrow, DelayType
    <2> QED BY <1>1, <2>1, <2>2 DEF SleptLong
  <1> DEFINE x == [id |-> id, at |-> now]
             timely == {y \in Recent : y.at = posted[y.id] /\ y.id # id}
             ids == {y.id : y \in timely}
  <1>3. Counted(id) \subseteq timely \cup LateHits \cup {x}
    <2>1. ASSUME NEW y \in Recent, y.id = id, y.at = posted[y.id] PROVE y = x
      <3>1. y \in Entry
        BY DEF Recent, RestOK
      <3> QED BY <1>1, <2>1, <3>1 DEF Entry
    <2> QED BY <2>1 DEF Counted, LateHits, Recent
  <1>4. IsFiniteSet(timely) /\ IsFiniteSet(LateHits) /\ IsFiniteSet(Others)
    <2>1. timely \subseteq hits /\ IsFiniteSet(hits)
      BY DEF Recent, WindowInv
    <2> QED BY <2>1, LateFinite, OthersFinite, FS_Subset
  <1>5. Cardinality(timely) <= Cardinality(Others) /\ Cardinality(timely) \in Nat /\ Cardinality(Others) \in Nat
    <2> DEFINE g == [y \in timely |-> y.id]
    <2>1. \A y \in timely : g[y] \in Others
      <3>1. \A y \in timely : y.id \in Sent /\ y.id # call.id /\ posted[y.id] > now - Window
        BY DEF Recent, LateInv
      <3> QED BY <3>1 DEF Others
    <2>2. ASSUME NEW y \in timely, NEW z \in timely, g[y] = g[z] PROVE y = z
      <3>1. y \in Entry /\ z \in Entry
        BY DEF Recent, RestOK
      <3>2. y.id = z.id /\ y.at = z.at
        BY <2>2
      <3> QED BY <3>1, <3>2 DEF Entry
    <2>3. g \in [timely -> Others]
      BY <2>1
    <2>4. g \in Injection(timely, Others)
      BY <2>2, <2>3 DEF Injection, IsInjective
    <2> HIDE DEF g, timely
    <2> QED BY <2>4, <1>4, FS_Injection, FS_CardinalityType
  <1>6. Cardinality(LateHits) <= Copies /\ Cardinality(LateHits) \in Nat
    BY <1>1, LateFinite DEF LateInv
  <1>7. PICK beats \in 0..Window : beats * Beat >= Window - 1 /\ 1 + beats + 1 + Copies <= Limit
    BY Room
  <1>8. Cardinality(Others) <= beats + 1
    <2> DEFINE s == now - Window + 1
    <2>0. s \in Int /\ Beat \in Nat \ {0} /\ beats \in Nat /\ Due \in {0, 1}
      BY <1>1, Shape DEF Due
    <2>1. now <= s + beats * Beat
      <3>1. beats * Beat \in Nat
        BY <2>0
      <3> QED BY <1>1, <1>7, <2>0, <3>1
    <2>2. Cardinality(Others) + Due <= Ticks(now) - Ticks(s) + 1
      BY <1>2 DEF ClearInv
    <2> HIDE DEF s
    <2>3. now \in Int
      BY <1>1
    <2>4. Ticks(now) <= Ticks(s) + beats
      BY <2>0, <2>1, <2>3, TicksWithin
    <2>5. Ticks(s) \in Int /\ Ticks(now) \in Int
      BY <2>0, <2>3, TicksIs
    <2> QED BY <1>5, <2>0, <2>2, <2>4, <2>5
  <1>9. /\ Cardinality(Counted(id)) <= Cardinality(timely) + Cardinality(LateHits) + 1
        /\ Cardinality(Counted(id)) \in Nat
    <2> HIDE DEF timely, x
    <2>1. /\ IsFiniteSet(timely \cup LateHits)
          /\ Cardinality(timely \cup LateHits) <= Cardinality(timely) + Cardinality(LateHits)
      <3>1. IsFiniteSet(timely \cup LateHits) /\ IsFiniteSet(timely \cap LateHits)
        BY <1>4, FS_Union, FS_Intersection
      <3>2. Cardinality(timely \cup LateHits)
              = Cardinality(timely) + Cardinality(LateHits) - Cardinality(timely \cap LateHits)
        BY <1>4, FS_Union
      <3>3. Cardinality(timely \cap LateHits) \in Nat
        BY <3>1, FS_CardinalityType
      <3> QED BY <1>5, <1>6, <3>1, <3>2, <3>3
    <2>2. Cardinality(timely \cup LateHits) \in Nat
      BY <2>1, FS_CardinalityType
    <2>3. /\ IsFiniteSet(timely \cup LateHits \cup {x})
          /\ Cardinality(timely \cup LateHits \cup {x}) \in Nat
          /\ Cardinality(timely \cup LateHits \cup {x}) <= Cardinality(timely \cup LateHits) + 1
      BY <2>1, OneMore
    <2>4. /\ Cardinality(Counted(id)) <= Cardinality(timely \cup LateHits \cup {x})
          /\ Cardinality(Counted(id)) \in Nat
      BY <1>3, <2>3, FS_Subset, FS_CardinalityType
    <2> QED BY <1>5, <1>6, <2>1, <2>2, <2>3, <2>4
  <1> HIDE DEF timely
  <1> QED BY <1>1, <1>5, <1>6, <1>7, <1>8, <1>9

-----------------------------------------------------------------------------
(* The theorems.                                                           *)

IInv == /\ PostedOK /\ RestOK /\ BeatOK
        /\ NonceInv /\ OnceInv
        /\ WindowInv /\ AdmittedWithinLimit
        /\ AwaitInv /\ LateInv /\ SleepInv /\ BeatsInv /\ ClearInv

LEMMA InvInit == Init => IInv
  <1> SUFFICES ASSUME Init PROVE IInv
    OBVIOUS
  <1>1. posted = <<>> /\ Sent = {} /\ now = 0 /\ posted \in Seq(Nat)
    BY DEF Init, Sent
  <1>2. PostedOK
    BY <1>1 DEF PostedOK
  <1>3. RestOK /\ BeatOK
    <2>1. call \in [max: Nat, n: Nat, id: Nat] /\ call.n <= call.max /\ pc = "idle" /\ copies \in 0..Copies
      BY Numbers DEF Init
    <2> QED BY <2>1, <1>1 DEF Init, RestOK, BeatOK
  <1>4. NonceInv /\ OnceInv /\ WindowInv /\ AdmittedWithinLimit
    BY FS_EmptySet DEF Init, NonceInv, OnceInv, WindowInv, AdmittedWithinLimit
  <1>5. AwaitInv /\ SleepInv /\ BeatsInv /\ ClearInv
    BY DEF Init, AwaitInv, SleepInv, BeatsInv, ClearInv, SleptLong
  <1>6. LateInv
    <2>1. LateHits = {} /\ LateHandled = {} /\ late = {} /\ copies = 0 /\ hits = {}
      BY DEF Init, LateHits, LateHandled
    <2> QED BY <2>1, FS_EmptySet DEF LateInv
  <1> QED BY <1>2, <1>3, <1>4, <1>5, <1>6 DEF IInv

LEMMA InvNext == IInv /\ [Next]_vars => IInv'
  BY PostedNext, RestNext, BeatNext, NonceNext, OnceNext, WindowNext,
     AwaitNext, LateNext, SleepNext, BeatsNext, ClearNext DEF IInv

\* The inductive invariant.
THEOREM Inductive == Spec => []IInv
  BY InvInit, InvNext, PTL DEF Spec

\* Every reachable state is well formed.
THEOREM TypeCorrect == Spec => []TypeOK
  <1>1. IInv => TypeOK
    BY TypeParts DEF IInv
  <1> QED BY <1>1, Inductive, PTL

\* Of the copies of a request one is let in, if nonces are kept for at least twice
\* the skew and the agent's clock is not ahead by the whole of it.
THEOREM LetInOnce == Spec => []AdmittedOnce
  <1>1. IInv => AdmittedOnce
    BY DEF IInv, OnceInv, AdmittedOnce
  <1> QED BY <1>1, Inductive, PTL

\* No window holds more requests that were let in than the limit.
THEOREM WithinLimit == Spec => []AdmittedWithinLimit
  <1>1. IInv => AdmittedWithinLimit
    BY DEF IInv
  <1> QED BY <1>1, Inductive, PTL

\* A call that has slept as long as the window, at any of its attempts, is not
\* limited at the next, if the limit has room for a window's heartbeats and for
\* what comes late.
THEOREM BackoffSuffices == Spec => []BackoffOutlastsLimit
  <1>1. IInv => BackoffOutlastsLimit
    BY NotLimited DEF IInv
  <1> QED BY <1>1, Inductive, PTL
=============================================================================
