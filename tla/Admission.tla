------------------------------ MODULE Admission ------------------------------
(***************************************************************************)
(* Which requests of an agent the server lets in, and how the agent goes   *)
(* on when it does not: verify_agent (backend/app/routers/ingest.py), the  *)
(* sliding window of services/rate_limit.py, the signing and with_retry of *)
(* agent/scc_agent/uploader.py and the heartbeat loop of                   *)
(* go_agent/internal/app/run.go.  One agent has one key.                   *)
(*                                                                         *)
(* Time is the server's, in whole seconds.  A request is served within the *)
(* second in which it is sent, or it is lost, arrives late or arrives      *)
(* twice.                                                                  *)
(***************************************************************************)
EXTENDS Integers, FiniteSets, Sequences

CONSTANTS
  Window, Limit,   \* rate_limit_snapshot_per_minute: 60 in 60 s
  Skew,            \* hmac_timestamp_skew_seconds: 300
  NonceTtl,        \* nonce_ttl_seconds: 600
  Delays,          \* with_retry: 1, 5, 30, 300, 1800, 7200
  Calls,           \* its max_attempts: 6 for start and commit, 3 for a file
  Beat,            \* poll_interval: 30
  Offsets,         \* the agent's clock minus the server's
  MaxTime, MaxRequests, Copies \* bounds: seconds, requests, late and second arrivals

ASSUME Shape ==
  /\ Window \in Nat \ {0} /\ Limit \in Nat /\ Skew \in Nat /\ Beat \in Nat \ {0}
  /\ Delays \in Seq(Nat) /\ Delays # <<>> /\ Calls \subseteq Nat \ {0}
  /\ Offsets \subseteq Int
  /\ MaxTime \in Nat /\ MaxRequests \in Nat /\ Copies \in Nat
\* settings.py: a nonce is kept as long as a timestamp can be good.
ASSUME NonceOutlivesStamp == NonceTtl \in Nat /\ NonceTtl >= 2 * Skew
\* with_retry's delays grow.
ASSUME Growing == \A i, j \in DOMAIN Delays : i <= j => Delays[i] <= Delays[j]
\* The limit has room for an attempt, for the heartbeats of a window and the one
\* that was due before it, and for what arrives late: 60 against 1 + 2 + 1.
ASSUME Room ==
  \E beats \in 0..Window : beats * Beat >= Window - 1 /\ 1 + beats + 1 + Copies <= Limit

VARIABLES
  now,
  offset,   \* the agent's clock minus the server's
  posted,   \* when each request was sent
  net,      \* requests on their way
  late,     \* requests that the network has kept, and may deliver
  nonces,   \* the nonces in Redis, and when they were set
  handling, \* requests past their nonce, before enforce
  hits,     \* the sorted set of the key
  admitted, \* history: what verify_agent let in, and when
  call,     \* the call under with_retry: its attempts, the last one's request
  pc,       \* the syncing thread: "idle", "await", "asleep"
  wake,     \* when time.sleep returns
  due,      \* the ticker of the heartbeat has fired
  beat,     \* the heartbeat that is waited for, or 0
  copies    \* late and second arrivals so far

clock  == <<now, due, offset>>
redis  == <<nonces, hits>>
client == <<call, pc, wake, beat>>
vars   == <<clock, posted, net, late, redis, handling, admitted, client, copies>>

-----------------------------------------------------------------------------
Sent == 1..Len(posted)
Stamp(id) == posted[id] + offset
Entry == [id: Nat, at: Nat]

TypeOK ==
  /\ now \in Nat /\ offset \in Offsets /\ due \in BOOLEAN
  /\ posted \in Seq(Nat) /\ \A id \in Sent : posted[id] <= now
  /\ net \subseteq Sent /\ late \subseteq Sent /\ handling \subseteq Sent
  /\ nonces \subseteq Entry /\ hits \subseteq Entry /\ admitted \subseteq Entry
  /\ call \in [max: Nat, n: Nat, id: Nat] /\ call.n <= call.max /\ pc \in {"idle", "await", "asleep"}
  /\ wake \in Nat /\ beat \in {0} \cup net \cup handling /\ copies \in 0..Copies

Init ==
  /\ now = 0 /\ offset \in Offsets /\ due = FALSE
  /\ posted = <<>> /\ net = {} /\ late = {} /\ handling = {}
  /\ nonces = {} /\ hits = {} /\ admitted = {}
  /\ call = [max |-> 0, n |-> 0, id |-> 0] /\ pc = "idle" /\ wake = 0
  /\ beat = 0 /\ copies = 0

\* The ticker holds one tick until it is taken.
Tick ==
  /\ now < MaxTime /\ net = {} /\ handling = {}
  /\ now' = now + 1
  /\ due' = (due \/ now' % Beat = 0)
  /\ UNCHANGED <<offset, posted, net, late, redis, handling, admitted, client, copies>>

-----------------------------------------------------------------------------
(* The agent.                                                              *)

\* _signed makes a timestamp and a nonce for each attempt.
Post ==
  /\ Len(posted) < MaxRequests
  /\ posted' = Append(posted, now)
  /\ net' = net \cup {Len(posted) + 1}

Call(max) ==
  /\ pc = "idle"
  /\ call' = [max |-> max, n |-> 1, id |-> Len(posted) + 1]
  /\ Post /\ pc' = "await"
  /\ UNCHANGED <<clock, late, redis, handling, admitted, wake, beat, copies>>

Retry ==
  /\ pc = "asleep" /\ now >= wake /\ call.n < call.max
  /\ call' = [call EXCEPT !.n = @ + 1, !.id = Len(posted) + 1]
  /\ Post /\ pc' = "await"
  /\ UNCHANGED <<clock, late, redis, handling, admitted, wake, beat, copies>>

\* It has slept after the last attempt as well.
Exhausted ==
  /\ pc = "asleep" /\ now >= wake /\ call.n = call.max
  /\ pc' = "idle"
  /\ UNCHANGED <<clock, posted, net, late, redis, handling, admitted, call, wake, beat, copies>>

Delay(n) == Delays[IF n < Len(Delays) THEN n ELSE Len(Delays)]

\* What an answer, or none, to request id means to who waits for it.  "again" is
\* a timeout, a 5xx or a 429; a heartbeat is not repeated.
Answer(id, kind) ==
  /\ IF pc = "await" /\ call.id = id
     THEN IF kind = "again"
          THEN pc' = "asleep" /\ wake' = now + Delay(call.n)
          ELSE pc' = "idle" /\ UNCHANGED wake
     ELSE UNCHANGED <<pc, wake>>
  /\ beat' = IF beat = id THEN 0 ELSE beat
  /\ UNCHANGED call

\* heartbeatLoop waits for one answer before it sends the next.
Heartbeat ==
  /\ due /\ beat = 0
  /\ due' = FALSE
  /\ beat' = Len(posted) + 1 /\ Post
  /\ UNCHANGED <<now, offset, late, redis, handling, admitted, call, pc, wake, copies>>

-----------------------------------------------------------------------------
(* The network.                                                            *)

\* A request that has arrived or is lost may arrive once more, or late.
Leave(id) ==
  /\ net' = net \ {id}
  /\ \/ late' = late \ {id} /\ UNCHANGED copies
     \/ copies < Copies /\ copies' = copies + 1 /\ late' = late \cup {id}

\* The connection breaks, or the client's timeout passes.
Lose(id) ==
  /\ id \in net
  /\ Leave(id)
  /\ Answer(id, "again")
  /\ UNCHANGED <<clock, posted, redis, handling, admitted>>

-----------------------------------------------------------------------------
(* The server.                                                             *)

InTime(id) == now - Stamp(id) <= Skew /\ Stamp(id) - now <= Skew

ShortTtl(id) == \E n \in nonces : n.id = id /\ now - n.at < Skew \* fault: a TTL of one skew
\* SET NX EX.  In the second in which the key expires it may be there or not.
Remembered(id) == \E n \in nonces : n.id = id /\ now - n.at < NonceTtl
Expiring(id) == \E n \in nonces : n.id = id /\ now - n.at = NonceTtl

\* verify_agent up to the nonce; an agent passes the rest of its checks.
Receive(id) ==
  /\ id \in (net \cup late) \ handling
  /\ InTime(id) /\ ~Remembered(id)
  /\ nonces' = nonces \cup {[id |-> id, at |-> now]}
  /\ handling' = handling \cup {id}
  /\ Leave(id)
  /\ UNCHANGED <<clock, posted, hits, admitted, client>>

\* 401 timestamp_out_of_range or nonce_replay: to the agent a permanent error.
TurnAway(id) ==
  /\ id \in net \cup late
  /\ ~InTime(id) \/ Remembered(id) \/ Expiring(id)
  /\ Leave(id)
  /\ \E kind \in {"permanent", "again"} : Answer(id, kind)
  /\ UNCHANGED <<clock, posted, redis, handling, admitted>>

NeverTrimmed == hits \* fault: nothing leaves the sorted set
Recent == {x \in hits : x.at > now - Window}
CountBefore(id) == Recent \* fault: the count is taken before this request
\* hit: zremrangebyscore, zadd, zcard in one pipeline.
Counted(id) == Recent \cup {[id |-> id, at |-> now]}
OverLimit(id) == Cardinality(Counted(id)) > Limit

\* enforce, at the end of verify_agent.  What is refused has been counted.  The
\* handler of a request that was let in may still fail, or its answer be lost.
Enforce(id) ==
  /\ id \in handling
  /\ handling' = handling \ {id}
  /\ hits' = Recent \cup {[id |-> id, at |-> now]}
  /\ IF OverLimit(id)
     THEN UNCHANGED admitted /\ Answer(id, "again")
     ELSE /\ admitted' = admitted \cup {[id |-> id, at |-> now]}
          /\ \E kind \in {"ok", "again"} : Answer(id, kind)
  /\ UNCHANGED <<clock, posted, net, late, nonces, copies>>

Next ==
  \/ Tick
  \/ \E max \in Calls : Call(max)
  \/ Retry \/ Exhausted \/ Heartbeat
  \/ \E id \in Sent : Lose(id) \/ Receive(id) \/ TurnAway(id) \/ Enforce(id)

Spec == Init /\ [][Next]_vars

-----------------------------------------------------------------------------
(* Properties.                                                             *)

\* PLAN.md 5.5: no more requests than the limit are let in within any window,
\* although handlers count and decide between each other's steps.
AdmittedWithinLimit ==
  \A a \in admitted :
    Cardinality({b \in admitted : b.at <= a.at /\ b.at > a.at - Window}) <= Limit

\* PLAN.md 5.4: of the copies of a request one is let in.  The nonce is kept for
\* twice the skew, which is just enough: only an agent whose clock is ahead by
\* the whole of it could have a copy let in when its nonce expires.
AdmittedOnce ==
  offset < Skew => \A a, b \in admitted : a.id = b.id => a = b

\* After the first delay that is as long as the window the agent is never
\* limited again, although what was refused counts too and heartbeats go on: a
\* call with more attempts than that is not lost to the limit.
BackoffOutlastsLimit ==
  \A id \in handling :
    pc = "await" /\ call.id = id /\ (\E k \in 1..(call.n - 1) : Delay(k) >= Window)
      => ~OverLimit(id)
=============================================================================
