-------------------------- MODULE TenantAdminProofs --------------------------
(***************************************************************************)
(* TenantAdmin for any number of users, keys and requests: who loses the   *)
(* last administrator, what a start-up and an activation leave, and that   *)
(* who changes something is still there.                                   *)
(*                                                                         *)
(* The argument: the row of the acting user is shared until the commit, so *)
(* no other request has deleted it; a request that nothing overlapped      *)
(* commits on the rows it has read; and what a request about keys has      *)
(* locked comes before what it needs.                                      *)
(***************************************************************************)
EXTENDS TenantAdmin, FiniteSetTheorems, WellFoundedInduction, TLAPS

\* A message belongs to the label of its request, what was read to its message.
Label(r) ==
  /\ r \in Busy => msg[r] \in Message \cup Reset
  /\ pc[r] \in {"unsent", "read"} => seen[r] = None
  /\ pc[r] = "read" => msg[r] \in Message
  /\ pc[r] = "sweep" => msg[r].op = "boot"
  /\ r \in Busy /\ msg[r].op = "boot" /\ seen[r] # None => msg[r] \in Reset
  /\ r \in Busy /\ msg[r].op = "boot" /\ seen[r] = None => msg[r] \in Message
  /\ ~Writing(r) => need[r] = {} /\ held[r] = {}
LabelInv == \A r \in Requests : Label(r)

LEMMA TypeInit == Init => TypeOK /\ LabelInv
  <1> SUFFICES ASSUME Init PROVE TypeOK /\ LabelInv
    OBVIOUS
  <1>1. TypeOK
    <2>1. row \in [Rows -> Roles \cup {"none", "gone", "active", "revoked"}]
      BY DEF Init
    <2>2. asAdmin \subseteq Users
      BY DEF Init
    <2> QED BY <2>1, <2>2 DEF Init, TypeOK
  <1>2. LabelInv
    BY DEF Init, LabelInv, Label, Busy, Writing
  <1> QED BY <1>1, <1>2

\* The writes of a request name rows there can be.
LEMMA WritesType ==
  ASSUME TypeOK, LabelInv, NEW r \in Requests, pc[r] = "decide", NEW ws \in Writes(r)
  PROVE  ws \subseteq Write
  <1> USE DEF TypeOK
  <1>1. msg[r] \in Message \cup Reset
    BY DEF LabelInv, Label, Busy
  <1>2. /\ \A u \in Users, v \in Roles \cup {None} : Set(u, v) \subseteq Write /\ Insert(u, v) \subseteq Write
        /\ \A k \in Keys, v \in {"active", "revoked"} : Set(k, v) \subseteq Write /\ Insert(k, v) \subseteq Write
        /\ \A u \in Users : Delete(u) \subseteq Write
    BY DEF Set, Insert, Delete, Write
  <1>3. msg[r].op # "boot" => msg[r].actor \in Users /\ Audited(r) \subseteq Write
    BY <1>1 DEF Audited, Message, Reset, Write
  <1>4. \A S : Fresh(S) \subseteq S
    BY DEF Fresh
  <1>5. Others(msg[r].target) \subseteq Keys
    BY DEF Others, Active
  <1>6. CASE msg[r].op = "update"
    <2>1. msg[r].target \in Users /\ msg[r].role \in Roles \cup {None} /\ ws = UpdateUser(r, msg[r])
      BY <1>1, <1>6 DEF Message, Reset, Writes, KeyOps
    <2> QED BY <2>1, <1>2, <1>3, <1>6 DEF UpdateUser
  <1>7. CASE msg[r].op = "delete"
    <2>1. msg[r].target \in Users /\ ws = DeleteUser(r, msg[r])
      BY <1>1, <1>7 DEF Message, Reset, Writes, KeyOps
    <2> QED BY <2>1, <1>2, <1>3, <1>7 DEF DeleteUser
  <1>8. CASE msg[r].op = "invite"
    <2>1. msg[r].role \in Roles
      BY <1>1, <1>8 DEF Message, Reset, KeyOps
    <2>2. PICK u \in FreshAt(msg[r].target) : ws = Insert(u, msg[r].role) \cup Audited(r)
      BY <1>8 DEF Writes
    <2> QED BY <2>1, <2>2, <1>2, <1>3, <1>4, <1>8 DEF FreshAt
  <1>9. CASE msg[r].op = "boot"
    <2>1. ws \in Ensure(r, msg[r])
      BY <1>9 DEF Writes
    <2>2. CASE seen[r] = None
      <3>1. PICK u \in FreshAt(msg[r].target) : ws = Insert(u, "admin")
        BY <2>1, <2>2 DEF Ensure
      <3> QED BY <3>1, <1>2, <1>4 DEF FreshAt, Roles
    <2>3. CASE seen[r] # None
      <3>1. msg[r] \in Reset
        BY <1>9, <2>3 DEF LabelInv, Label, Busy
      <3>2. msg[r].target \in Users /\ msg[r].role \in Roles \cup {None}
        BY <3>1 DEF Reset, Roles
      <3>3. ws = {} \/ ws = Set(msg[r].target, None) \/ ws = Set(msg[r].target, msg[r].role)
        BY <2>1, <2>3 DEF Ensure
      <3> QED BY <3>2, <3>3, <1>2
    <2> QED BY <2>2, <2>3
  <1>10. CASE msg[r].op = "create"
    <2>1. PICK k \in Fresh(Keys) : ws = Insert(k, "active") \cup Audited(r)
      BY <1>10 DEF Writes
    <2> QED BY <2>1, <1>2, <1>3, <1>4, <1>10
  <1>11. CASE msg[r].op \in KeyOps
    <2>1. msg[r].target \in Keys
      BY <1>1, <1>11 DEF Message, Reset, KeyOps
    <2>2. RevokeKey(r, msg[r]) \subseteq Write /\ ReinstateKey(r, msg[r]) \subseteq Write
      BY <2>1, <1>2, <1>3, <1>11 DEF RevokeKey, ReinstateKey, KeyOps
    <2>3. ActivateKey(r, msg[r]) \subseteq Write
      <3>1. \A o \in Others(msg[r].target) : Set(o, "revoked") \subseteq Write
        BY <1>2, <1>5
      <3>2. UNION {Set(o, "revoked") : o \in Others(msg[r].target)} \subseteq Write
        BY <3>1
      <3>3. Set(msg[r].target, "active") \subseteq Write /\ Audited(r) \subseteq Write
        BY <2>1, <1>2, <1>3, <1>11 DEF KeyOps
      <3> HIDE DEF Set, Others
      <3> QED BY <3>2, <3>3 DEF ActivateKey
    <2>4. CASE msg[r].op = "rotate"
      <3>1. PICK k \in Fresh(Keys) : ws = RevokeKey(r, msg[r]) \cup Insert(k, "active") \cup Audited(r)
        BY <2>4 DEF Writes
      <3> QED BY <3>1, <2>2, <2>4, <1>2, <1>3, <1>4
    <2>5. CASE msg[r].op # "rotate"
      <3>1. ws \in {RevokeKey(r, msg[r]), ReinstateKey(r, msg[r]), ActivateKey(r, msg[r])}
        BY <1>11, <2>5 DEF Writes, KeyOps
      <3> QED BY <3>1, <2>2, <2>3
    <2> QED BY <2>4, <2>5
  <1> QED BY <1>1, <1>6, <1>7, <1>8, <1>9, <1>10, <1>11 DEF Message, Reset

LEMMA TypeNext == TypeOK /\ LabelInv /\ [Next]_vars => TypeOK'
  <1> SUFFICES ASSUME TypeOK, LabelInv, [Next]_vars PROVE TypeOK'
    OBVIOUS
  <1> USE DEF TypeOK, handler, Finish, Goto
  <1>0. Busy \subseteq Requests /\ \A r \in Busy : msg[r] \in Message \cup Reset
    BY DEF Busy, LabelInv, Label
  <1>1. ASSUME NEW u \in Users, IssueToken(u) PROVE TypeOK'
    BY <1>1 DEF IssueToken
  <1>2. ASSUME NEW u \in Users, TokenExpires(u) PROVE TypeOK'
    BY <1>2 DEF TokenExpires
  <1>3. ASSUME NEW r \in Requests, NEW m \in Message, Begin(r, m) PROVE TypeOK'
    <2>1. m.actor \in Users /\ row[m.actor] \in Roles
      BY <1>3 DEF Begin, Message, Exists
    <2>2. seen' \in [Requests -> Roles \cup {"active", "revoked", None}]
      BY <1>3, <2>1 DEF Begin
    <2>3. pc' \in [Requests -> {"unsent", "read", "decide", "write", "sweep", "done"}]
      BY <1>3 DEF Begin
    <2>4. overlapped' \subseteq Requests
      BY <1>0, <1>3 DEF Begin, Overlap
    <2> QED BY <1>3, <2>2, <2>3, <2>4 DEF Begin
  <1>4. ASSUME NEW r \in Requests, NEW m \in Message, Boot(r, m) PROVE TypeOK'
    <2>1. overlapped' \subseteq Requests
      BY <1>0, <1>4 DEF Boot, Overlap
    <2> QED BY <1>4, <2>1 DEF Boot
  <1>5. ASSUME NEW r \in Requests, Read(r) PROVE TypeOK'
    <2>1. CASE Exists(msg[r].target)
      <3>1. msg[r].target \in Rows
        BY <1>0, <1>5 DEF Read, Busy, Message, Reset, KeyOps, UserOps, Rows
      <3>2. row[msg[r].target] \in Roles \cup {"active", "revoked"}
        BY <2>1, <3>1 DEF Exists
      <3> QED BY <1>5, <2>1, <3>2 DEF Read
    <2>2. CASE ~Exists(msg[r].target)
      BY <1>5, <2>2 DEF Read
    <2> QED BY <2>1, <2>2
  <1>6. ASSUME NEW r \in Requests, ReadAddress(r) PROVE TypeOK'
    <2>1. CASE At(msg[r].target) = {}
      BY <1>6, <2>1 DEF ReadAddress
    <2>2. CASE At(msg[r].target) # {} /\ msg[r].op = "invite"
      BY <1>6, <2>2 DEF ReadAddress
    <2>3. ASSUME NEW u \in At(msg[r].target), msg[r].op = "boot",
                 msg' = [msg EXCEPT ![r].target = u], seen' = [seen EXCEPT ![r] = row[u]]
          PROVE  TypeOK'
      <3>1. u \in Users /\ row[u] \in Roles
        BY DEF At, Exists
      <3>2. msg[r] \in Message \cup Reset
        BY <1>0, <1>6 DEF ReadAddress, Busy
      <3>3. [msg[r] EXCEPT !.target = u] \in Reset
        BY <2>3, <3>1, <3>2 DEF Message, Reset, KeyOps
      <3> QED BY <1>6, <2>3, <3>1, <3>3 DEF ReadAddress
    <2> QED BY <1>6, <2>1, <2>2, <2>3 DEF ReadAddress
  <1>7. ASSUME NEW r \in Requests, Decide(r) PROVE TypeOK'
    <2>1. CASE LastAdmin(r)
      BY <1>7, <2>1 DEF Decide
    <2>2. ASSUME NEW ws \in Writes(r), ~LastAdmin(r), need' = [need EXCEPT ![r] = ws] PROVE TypeOK'
      <3>1. ws \subseteq Write
        BY <1>7, WritesType DEF Decide
      <3> QED BY <1>7, <2>2, <3>1 DEF Decide
    <2> QED BY <1>7, <2>1, <2>2 DEF Decide
  <1>8. ASSUME NEW r \in Requests, Sweep(r) PROVE TypeOK'
    <2>1. \A u \in Users : Delete(u) \subseteq Write
      BY DEF Delete, Write
    <2>2. At(RemoveEmail) \subseteq Users
      BY DEF At
    <2> HIDE DEF At
    <2> DEFINE ws == UNION {Delete(u) : u \in At(RemoveEmail)}
    <2>3. ws \subseteq Write
      BY <2>1, <2>2
    <2> HIDE DEF ws
    <2>4. need' = [need EXCEPT ![r] = ws]
      BY <1>8 DEF Sweep, ws
    <2> QED BY <1>8, <2>3, <2>4 DEF Sweep
  <1>9. ASSUME NEW r \in Requests, NEW w \in need[r], Take(r, w) PROVE TypeOK'
    BY <1>9 DEF Take
  <1>10. ASSUME NEW r \in Requests, Commit(r) PROVE TypeOK'
    <2> DEFINE V(x) == IF \E w \in held[r] : w.row = x /\ w.to # None
                        THEN (CHOOSE w \in held[r] : w.row = x /\ w.to # None).to ELSE row[x]
    <2>1. \A u \in Users : V(u) \in Roles \cup {"none", "gone"}
      BY Shape DEF Write
    <2>2. \A k \in Keys : V(k) \in {"none", "active", "revoked"}
      BY Shape DEF Write
    <2> HIDE DEF V
    <2>3. row' = [x \in Rows |-> V(x)]
      BY <1>10 DEF Commit, V
    <2>4. row' \in [Rows -> Roles \cup {"none", "gone", "active", "revoked"}]
      BY <2>1, <2>2, <2>3 DEF Rows
    <2>5. /\ \A u \in Users : row'[u] \in Roles \cup {"none", "gone"}
          /\ \A k \in Keys : row'[k] \in {"none", "active", "revoked"}
      BY <2>1, <2>2, <2>3 DEF Rows
    <2> QED BY <1>10, <2>4, <2>5 DEF Commit
  <1>11. ASSUME NEW r \in Requests, Fails(r) PROVE TypeOK'
    BY <1>11 DEF Fails
  <1>12. ASSUME UNCHANGED vars PROVE TypeOK'
    BY <1>12 DEF vars
  <1> QED BY <1>1, <1>2, <1>3, <1>4, <1>5, <1>6, <1>7, <1>8, <1>9, <1>10, <1>11, <1>12 DEF Next

LEMMA LabelNext == TypeOK /\ LabelInv /\ [Next]_vars => LabelInv'
  <1> SUFFICES ASSUME TypeOK, LabelInv, [Next]_vars, NEW q \in Requests PROVE Label(q)'
    BY DEF LabelInv
  <1> USE DEF TypeOK, LabelInv, Label, handler, Finish, Goto, Busy, Writing
  <1>1. ASSUME NEW u \in Users, IssueToken(u) PROVE Label(q)'
    BY <1>1 DEF IssueToken
  <1>2. ASSUME NEW u \in Users, TokenExpires(u) PROVE Label(q)'
    BY <1>2 DEF TokenExpires
  <1>3. ASSUME NEW r \in Requests, NEW m \in Message, Begin(r, m) PROVE Label(q)'
    <2>1. m.actor \in Users /\ seen[r] = None
      BY <1>3 DEF Begin, Message
    <2>2. CASE q = r
      BY <1>3, <2>1, <2>2 DEF Begin
    <2>3. CASE q # r
      BY <1>3, <2>3 DEF Begin
    <2> QED BY <2>2, <2>3
  <1>4. ASSUME NEW r \in Requests, NEW m \in Message, Boot(r, m) PROVE Label(q)'
    BY <1>4 DEF Boot, Overlap
  <1>5. ASSUME NEW r \in Requests, Read(r) PROVE Label(q)'
    BY <1>5 DEF Read, KeyOps, UserOps
  <1>6. ASSUME NEW r \in Requests, ReadAddress(r) PROVE Label(q)'
    <2>1. msg[r] \in Message /\ seen[r] = None
      BY <1>6 DEF ReadAddress
    <2>2. CASE At(msg[r].target) = {} \/ msg[r].op = "invite"
      BY <1>6, <2>1, <2>2 DEF ReadAddress
    <2>3. ASSUME NEW u \in At(msg[r].target), msg[r].op = "boot",
                 msg' = [msg EXCEPT ![r].target = u], pc' = [pc EXCEPT ![r] = "decide"],
                 seen' = [seen EXCEPT ![r] = row[u]]
          PROVE  Label(q)'
      <3>1. u \in Users /\ row[u] # None
        BY Shape DEF At, Exists, Roles
      <3>2. [msg[r] EXCEPT !.target = u] \in Reset
        BY <2>1, <2>3, <3>1 DEF Message, Reset, KeyOps
      <3>3. q = r => msg'[q] \in Reset
        BY <2>3, <3>2
      <3>4. need' = need /\ held' = held
        BY <1>6, <2>1, <2>3 DEF ReadAddress
      <3>5. q = r => seen'[q] # None /\ pc'[q] = "decide" /\ need[q] = {} /\ held[q] = {}
        BY <1>6, <2>3, <3>1 DEF ReadAddress
      <3> QED BY <2>3, <3>3, <3>4, <3>5
    <2> QED BY <1>6, <2>2, <2>3 DEF ReadAddress
  <1>7. ASSUME NEW r \in Requests, Decide(r) PROVE Label(q)'
    BY <1>7 DEF Decide
  <1>8. ASSUME NEW r \in Requests, Sweep(r) PROVE Label(q)'
    BY <1>8 DEF Sweep
  <1>9. ASSUME NEW r \in Requests, NEW w \in need[r], Take(r, w) PROVE Label(q)'
    BY <1>9 DEF Take
  <1>10. ASSUME NEW r \in Requests, Commit(r) PROVE Label(q)'
    BY <1>10 DEF Commit
  <1>11. ASSUME NEW r \in Requests, Fails(r) PROVE Label(q)'
    BY <1>11 DEF Fails
  <1>12. ASSUME UNCHANGED vars PROVE Label(q)'
    BY <1>12 DEF vars
  <1> QED BY <1>1, <1>2, <1>3, <1>4, <1>5, <1>6, <1>7, <1>8, <1>9, <1>10, <1>11, <1>12 DEF Next

-----------------------------------------------------------------------------
(* Locks: what is held excludes what would undo it.                        *)

Share(u) == [row |-> u, mode |-> "share", to |-> None]

\* A row that goes is deleted; the acting user of a change is shared, or still
\* to be.
FlushInv ==
  \A r \in Requests :
    /\ \A w \in need[r] \cup held[r] : w.to = "gone" => w.mode = "delete"
    /\ need[r] \cup held[r] # {} /\ msg[r].op # "boot" => Share(msg[r].actor) \in need[r] \cup held[r]
    /\ \A w \in held[r] : w.mode = "share" => Exists(w.row)

\* Two requests never hold locks that conflict.
LockInv ==
  \A q, r \in Requests : q # r => \A v \in held[q], w \in held[r] : ~LockConflict(v, w)

LEMMA WritesFlush ==
  ASSUME TypeOK, LabelInv, NEW r \in Requests, pc[r] = "decide", NEW ws \in Writes(r)
  PROVE  /\ \A w \in ws : w.to = "gone" => w.mode = "delete"
         /\ ws # {} /\ msg[r].op # "boot" => Share(msg[r].actor) \in ws
  <1>1. msg[r] \in Message \cup Reset
    BY DEF TypeOK, LabelInv, Label, Busy
  <1>2. msg[r].role \in Roles \cup {None}
    BY <1>1 DEF Message, Reset, Roles
  <1>3. /\ \A x, v : v # "gone" => \A w \in Set(x, v) \cup Insert(x, v) : w.to # "gone"
        /\ \A x : \A w \in Delete(x) : w.mode = "delete"
        /\ \A w \in Audited(r) : w.to # "gone"
    BY Shape DEF Set, Insert, Delete, Audited
  <1>4. Share(msg[r].actor) \in Audited(r)
    BY DEF Share, Audited
  <1>5. None # "gone" /\ "gone" \notin Roles
    BY Shape DEF Roles
  <1> HIDE DEF Set, Insert, Delete, Audited, Share
  <1>6. CASE msg[r].op = "boot"
    <2>1. CASE seen[r] = None
      <3>1. PICK u \in FreshAt(msg[r].target) : ws = Insert(u, "admin")
        BY <1>6, <2>1 DEF Writes, Ensure
      <3> QED BY <3>1, <1>3, <1>6
    <2>2. CASE seen[r] # None
      <3>1. ws = {} \/ ws = Set(msg[r].target, None) \/ ws = Set(msg[r].target, msg[r].role)
        BY <1>6, <2>2 DEF Writes, Ensure
      <3> QED BY <3>1, <1>2, <1>3, <1>5, <1>6
    <2> QED BY <2>1, <2>2
  <1>7. CASE msg[r].op = "update"
    BY <1>2, <1>3, <1>4, <1>5, <1>7 DEF Writes, UpdateUser, KeyOps
  <1>8. CASE msg[r].op = "delete"
    BY <1>3, <1>4, <1>8 DEF Writes, DeleteUser, KeyOps
  <1>9. CASE msg[r].op \in Inserts
    <2>1. PICK x, v : v # "gone" /\ ws = Insert(x, v) \cup Audited(r)
      <3>1. CASE msg[r].op = "invite"
        <4>1. msg[r].role # "gone"
          BY <1>2, <1>5
        <4> QED BY <4>1, <3>1 DEF Writes
      <3>2. CASE msg[r].op = "create"
        BY <3>2 DEF Writes
      <3> QED BY <1>9, <3>1, <3>2 DEF Inserts
    <2> QED BY <2>1, <1>3, <1>4
  <1>10. CASE msg[r].op \in KeyOps
    <2>1. /\ \A w \in RevokeKey(r, msg[r]) \cup ReinstateKey(r, msg[r]) : w.to # "gone"
          /\ RevokeKey(r, msg[r]) # {} => Share(msg[r].actor) \in RevokeKey(r, msg[r])
          /\ ReinstateKey(r, msg[r]) # {} => Share(msg[r].actor) \in ReinstateKey(r, msg[r])
      BY <1>3, <1>4 DEF RevokeKey, ReinstateKey
    <2>2. /\ \A w \in ActivateKey(r, msg[r]) : w.to # "gone"
          /\ Share(msg[r].actor) \in ActivateKey(r, msg[r])
      BY <1>3, <1>4 DEF ActivateKey
    <2>3. CASE msg[r].op = "rotate"
      <3>1. PICK k \in Fresh(Keys) : ws = RevokeKey(r, msg[r]) \cup Insert(k, "active") \cup Audited(r)
        BY <2>3 DEF Writes
      <3> QED BY <3>1, <2>1, <1>3, <1>4
    <2>4. CASE msg[r].op # "rotate"
      <3>1. ws \in {RevokeKey(r, msg[r]), ReinstateKey(r, msg[r]), ActivateKey(r, msg[r])}
        BY <1>10, <2>4 DEF Writes, KeyOps
      <3> QED BY <3>1, <2>1, <2>2
    <2> QED BY <2>3, <2>4
  <1> QED BY <1>1, <1>6, <1>7, <1>8, <1>9, <1>10 DEF Message, Reset, Inserts

LEMMA LockNext == TypeOK /\ LabelInv /\ LockInv /\ [Next]_vars => LockInv'
  <1> SUFFICES ASSUME TypeOK, LabelInv, LockInv, [Next]_vars PROVE LockInv'
    OBVIOUS
  <1>0. ASSUME NEW r \in Requests, held' = held \/ held' = [held EXCEPT ![r] = {}] PROVE LockInv'
    BY <1>0 DEF TypeOK, LockInv, LockConflict
  <1>1. CASE held' = held
    BY <1>1 DEF LockInv, LockConflict
  <1>2. ASSUME NEW r \in Requests, NEW w \in need[r], Take(r, w) PROVE LockInv'
    <2>1. held' = [held EXCEPT ![r] = @ \cup {w}]
      BY <1>2 DEF Take
    <2>2. \A q \in Requests \ {r} : \A v \in held[q] : ~LockConflict(v, w) /\ ~LockConflict(w, v)
      BY <1>2 DEF Take, Blocked, Blocks, Conflict, LockConflict
    <2>3. ASSUME NEW p \in Requests, NEW q \in Requests, p # q,
                 NEW v \in held'[p], NEW x \in held'[q] PROVE ~LockConflict(v, x)
      <3>1. (v \in held[p] \/ (p = r /\ v = w)) /\ (x \in held[q] \/ (q = r /\ x = w))
        BY <2>1 DEF TypeOK
      <3> QED BY <2>2, <2>3, <3>1 DEF LockInv
    <2> QED BY <2>3 DEF LockInv, LockConflict
  <1> QED BY <1>0, <1>1, <1>2 DEF Next, vars, handler, IssueToken, TokenExpires, Begin, Boot, Read, ReadAddress,
               Decide, Sweep, Commit, Fails, Finish

\* A row that another request has shared is not deleted.
LEMMA SharedStays ==
  ASSUME TypeOK, LockInv, FlushInv, NEW r \in Requests, NEW q \in Requests \ {r}, Commit(r),
         NEW w \in held[q], w.mode = "share"
  PROVE  Exists(w.row)'
  <1>1. w.row \in Rows /\ Exists(w.row)
    BY DEF TypeOK, FlushInv, Write, Rows
  <1> DEFINE P(v) == v \in held[r] /\ v.row = w.row /\ v.to # None
  <1>2. CASE \E v \in held[r] : v.row = w.row /\ v.to # None
    <2>1. PICK v : P(v) /\ row'[w.row] = v.to
      BY <1>1, <1>2 DEF Commit
    <2>2. v.mode # "delete"
      BY <2>1 DEF LockInv, LockConflict
    <2>3. v.to # "gone" /\ v \in Write
      BY <2>1, <2>2 DEF FlushInv, TypeOK
    <2> QED BY <2>1, <2>3 DEF Exists, Write, Roles
  <1>3. CASE ~\E v \in held[r] : v.row = w.row /\ v.to # None
    BY <1>1, <1>3 DEF Commit, Exists
  <1> QED BY <1>2, <1>3

LEMMA FlushNext == TypeOK /\ LabelInv /\ LockInv /\ FlushInv /\ [Next]_vars => FlushInv'
  <1> SUFFICES ASSUME TypeOK, LabelInv, LockInv, FlushInv, [Next]_vars PROVE FlushInv'
    OBVIOUS
  <1> DEFINE Flush(q) ==
    /\ \A w \in need[q] \cup held[q] : w.to = "gone" => w.mode = "delete"
    /\ need[q] \cup held[q] # {} /\ msg[q].op # "boot" => Share(msg[q].actor) \in need[q] \cup held[q]
    /\ \A w \in held[q] : w.mode = "share" => Exists(w.row)
  <1> SUFFICES ASSUME NEW q \in Requests PROVE Flush(q)'
    BY DEF FlushInv
  <1>0. /\ Flush(q)
        /\ pc[q] \notin {"write", "sweep"} => need[q] = {} /\ held[q] = {}
    BY DEF FlushInv, LabelInv, Label, Writing
  <1> USE DEF TypeOK, handler, Finish, Goto, Exists, Share
  <1>1. ASSUME row' = row, UNCHANGED <<need, held>>, msg'[q] = msg[q] \/ pc[q] \notin {"write", "sweep"} PROVE Flush(q)'
    BY <1>0, <1>1
  <1>2. ASSUME NEW r \in Requests, Finish(r), row' = row PROVE Flush(q)'
    BY <1>0, <1>2
  <1>3. ASSUME NEW r \in Requests, Decide(r) PROVE Flush(q)'
    <2>1. CASE LastAdmin(r)
      BY <1>2, <1>3, <2>1 DEF Decide
    <2>2. CASE ~LastAdmin(r)
      <3>1. PICK ws \in Writes(r) : need' = [need EXCEPT ![r] = ws]
        BY <1>3, <2>2 DEF Decide
      <3>2. row' = row /\ msg' = msg /\ held' = held
        BY <1>3, <2>2 DEF Decide
      <3>3. /\ \A w \in ws : w.to = "gone" => w.mode = "delete"
            /\ ws # {} /\ msg[r].op # "boot" => Share(msg[r].actor) \in ws
        BY <1>3, WritesFlush DEF Decide
      <3>4. held[r] = {}
        BY <1>3 DEF Decide, LabelInv, Label, Writing
      <3> QED BY <1>0, <3>1, <3>2, <3>3, <3>4
    <2> QED BY <2>1, <2>2
  <1>4. ASSUME NEW r \in Requests, Sweep(r) PROVE Flush(q)'
    <2> DEFINE ws == UNION {Delete(u) : u \in At(RemoveEmail)}
    <2>1. \A w \in ws : w.mode = "delete"
      BY DEF Delete
    <2> HIDE DEF ws
    <2>2. need' = [need EXCEPT ![r] = ws] /\ msg[r].op = "boot" /\ row' = row /\ msg' = msg /\ held' = held
      BY <1>4 DEF Sweep, ws
    <2> QED BY <1>0, <2>1, <2>2
  <1>5. ASSUME NEW r \in Requests, NEW w \in need[r], Take(r, w) PROVE Flush(q)'
    <2>1. /\ need' = [need EXCEPT ![r] = @ \ {w}] /\ held' = [held EXCEPT ![r] = @ \cup {w}]
          /\ row' = row /\ msg' = msg
      BY <1>5 DEF Take
    <2>2. w.mode = "share" => Exists(w.row)
      BY <1>5 DEF Take, Possible
    <2>3. need'[q] \cup held'[q] = need[q] \cup held[q]
      BY <2>1
    <2>4. \A v \in held'[q] : v \in held[q] \/ v = w
      BY <2>1
    <2> QED BY <1>0, <2>1, <2>2, <2>3, <2>4
  <1>6. ASSUME NEW r \in Requests, Commit(r) PROVE Flush(q)'
    <2>1. CASE q = r
      BY <1>6, <2>1 DEF Commit
    <2>2. CASE q # r
      <3>1. \A w \in held[q] : w.mode = "share" => Exists(w.row)'
        BY <1>6, <2>2, SharedStays
      <3>2. need'[q] = need[q] /\ held'[q] = held[q] /\ msg'[q] = msg[q]
        BY <1>6, <2>2 DEF Commit
      <3> QED BY <1>0, <3>1, <3>2
    <2> QED BY <2>1, <2>2
  <1>8. ASSUME NEW r \in Requests, Read(r) \/ ReadAddress(r) \/ Fails(r) PROVE Flush(q)'
    BY <1>1, <1>2, <1>8 DEF Read, ReadAddress, Fails
  <1>9. ASSUME NEW r \in Requests, NEW m \in Message, Begin(r, m) \/ Boot(r, m) PROVE Flush(q)'
    BY <1>1, <1>9 DEF Begin, Boot
  <1>10. ASSUME UNCHANGED <<row, handler>> PROVE Flush(q)'
    BY <1>1, <1>10
  <1> HIDE DEF Flush
  <1> QED BY <1>3, <1>4, <1>5, <1>6, <1>8, <1>9, <1>10 DEF Next, vars, IssueToken, TokenExpires


-----------------------------------------------------------------------------
(* A request that nothing overlaps.                                        *)

\* What it has read is still so.
Knows(r) ==
  /\ msg[r].op \in UserOps \cup KeyOps => seen[r] = row[msg[r].target]
  /\ msg[r].op = "boot" /\ seen[r] # None =>
       /\ seen[r] = row[msg[r].target] /\ seen[r] \in Roles
       /\ msg[r].target \in Users /\ AddressOf[msg[r].target] = AdminEmail

Ensured(r, e) ==
  IF seen[r] = None
  THEN \E u \in Users : AddressOf[u] = AdminEmail /\ e = Insert(u, "admin")
  ELSE e \in Ensure(r, msg[r])
Swept(r) == IF pc[r] = "sweep" THEN UNION {Delete(u) : u \in At(RemoveEmail)} ELSE {}

\* What it writes is what the handler would still write.
Plan(r) ==
  LET ws == need[r] \cup held[r] IN
  /\ ~LastAdmin(r)
  /\ msg[r].op = "update" => ws = UpdateUser(r, msg[r])
  /\ msg[r].op = "delete" => ws = DeleteUser(r, msg[r])
  /\ msg[r].op = "activate" => ws = ActivateKey(r, msg[r])
  /\ msg[r].op = "boot" => \E e \in SUBSET Write : Ensured(r, e) /\ ws = e \cup Swept(r)
  /\ msg[r].op \notin UserOps \cup {"boot"} =>
       \A w \in ws : w.row \in Users /\ w.to # None => row[w.row] = "none"

AloneInv ==
  \A r \in Busy \ overlapped :
    /\ Busy = {r}
    /\ pc[r] # "read" => Knows(r)
    /\ Writing(r) => Plan(r)

\* A flush that begins writes what the plan says.
LEMMA DecidePlans ==
  ASSUME TypeOK, LabelInv, NEW r \in Requests, Decide(r), Knows(r), pc'[r] = "write"
  PROVE  Plan(r)'
  <1>1. ~LastAdmin(r)
    BY DEF Decide, Finish, Goto, TypeOK
  <1>2. PICK ws \in Writes(r) : need' = [need EXCEPT ![r] = ws]
    BY <1>1 DEF Decide
  <1>3. /\ row' = row /\ msg' = msg /\ seen' = seen /\ held[r] = {} /\ held' = held
        /\ pc[r] = "decide"
    BY <1>1 DEF Decide, LabelInv, Label, Writing
  <1>4. ws \subseteq Write
    BY <1>3, WritesType
  <1>5. need'[r] \cup held'[r] = ws
    BY <1>2, <1>3 DEF TypeOK
  <1>6. msg[r] \in Message \cup Reset
    BY <1>3 DEF LabelInv, Label, Busy
  <1>7. /\ msg[r].op = "update" => ws = UpdateUser(r, msg[r])
        /\ msg[r].op = "delete" => ws = DeleteUser(r, msg[r])
        /\ msg[r].op = "activate" => ws = ActivateKey(r, msg[r])
    BY DEF Writes
  <1>8. /\ UpdateUser(r, msg[r])' = UpdateUser(r, msg[r])
        /\ DeleteUser(r, msg[r])' = DeleteUser(r, msg[r])
        /\ ActivateKey(r, msg[r])' = ActivateKey(r, msg[r])
        /\ Ensure(r, msg[r])' = {IF msg[r].role = None THEN {} ELSE IF seen[r] = msg[r].role THEN Set(msg[r].target, None) ELSE Set(msg[r].target, msg[r].role)} \/ seen[r] = None
    BY <1>3 DEF UpdateUser, DeleteUser, ActivateKey, Ensure, Audited, Others, Active
  <1>9. LastAdmin(r)' = LastAdmin(r)
    BY <1>3 DEF LastAdmin, Removes, Admins
  <1>10. ASSUME msg[r].op = "boot" PROVE (\E e \in SUBSET Write : Ensured(r, e) /\ need[r] \cup held[r] = e \cup Swept(r))'
    <2>1. Swept(r)' = {}
      BY DEF Swept
    <2>2. ws \in Ensure(r, msg[r])
      BY <1>10 DEF Writes
    <2>3. CASE seen[r] = None
      <3>1. msg[r].target = AdminEmail
        BY <1>3, <1>10, <2>3 DEF LabelInv, Label, Busy, Message, KeyOps
      <3>2. PICK u \in FreshAt(AdminEmail) : ws = Insert(u, "admin")
        BY <2>2, <2>3, <3>1 DEF Ensure
      <3>3. u \in Users /\ AddressOf[u] = AdminEmail
        BY DEF FreshAt, Fresh
      <3>4. Ensured(r, ws)'
        BY <1>3, <2>3, <3>2, <3>3 DEF Ensured, Insert
      <3> QED BY <1>4, <1>5, <2>1, <3>4
    <2>4. CASE seen[r] # None
      <3>1. Ensured(r, ws)'
        BY <1>3, <2>2, <2>4 DEF Ensured, Ensure
      <3> QED BY <1>4, <1>5, <2>1, <3>1
    <2> QED BY <2>3, <2>4
  <1>11. ASSUME msg[r].op \notin UserOps \cup {"boot"}, NEW w \in ws, w.row \in Users, w.to # None
         PROVE  row[w.row] = "none"
    <2>1. /\ \A w1 \in Audited(r) : w1.to = None
          /\ \A x, v : \A w1 \in Set(x, v) \cup Insert(x, v) : w1.row = x
          /\ \A S : \A x \in Fresh(S) : x \in S /\ row[x] = "none"
      BY DEF Audited, Set, Insert, Fresh
    <2> HIDE DEF Audited, Set, Insert, Fresh
    <2>2. CASE msg[r].op = "invite"
      BY <1>11, <2>1, <2>2 DEF Writes, FreshAt
    <2>3. CASE msg[r].op = "create"
      BY <1>11, <2>1, <2>3, Shape DEF Writes
    <2>4. CASE msg[r].op \in KeyOps
      <3>1. msg[r].target \in Keys
        BY <1>6, <2>4 DEF Message, Reset, KeyOps
      <3>2. /\ \A w1 \in RevokeKey(r, msg[r]) : w1.row \in Keys \/ w1.to = None
            /\ \A w1 \in ReinstateKey(r, msg[r]) : w1.row \in Keys \/ w1.to = None
        BY <2>1, <3>1 DEF RevokeKey, ReinstateKey
      <3>3. \A w1 \in ActivateKey(r, msg[r]) : w1.row \in Keys \/ w1.to = None
        <4>1. Others(msg[r].target) \subseteq Keys
          BY DEF Others, Active
        <4> QED BY <2>1, <3>1, <4>1 DEF ActivateKey
      <3>4. \A k \in Fresh(Keys) : \A w1 \in Insert(k, "active") : w1.row \in Keys
        BY <2>1
      <3>5. w.row \in Keys \/ w.to = None
        <4>1. CASE msg[r].op = "rotate"
          <5>1. PICK k \in Fresh(Keys) : ws = RevokeKey(r, msg[r]) \cup Insert(k, "active") \cup Audited(r)
            BY <4>1 DEF Writes
          <5> QED BY <1>11, <2>1, <3>2, <3>4, <5>1
        <4>2. CASE msg[r].op # "rotate"
          <5>1. ws \in {RevokeKey(r, msg[r]), ReinstateKey(r, msg[r]), ActivateKey(r, msg[r])}
            BY <2>4, <4>2 DEF Writes, KeyOps
          <5> QED BY <1>11, <3>2, <3>3, <5>1
        <4> QED BY <4>1, <4>2
      <3> QED BY <1>11, <3>5, Shape
    <2> QED BY <1>6, <1>11, <2>2, <2>3, <2>4 DEF Message, Reset, UserOps
  <1> HIDE DEF UpdateUser, DeleteUser, ActivateKey, LastAdmin
  <1> QED BY <1>1, <1>3, <1>5, <1>7, <1>8, <1>9, <1>10, <1>11 DEF Plan

LEMMA AloneNext == TypeOK /\ LabelInv /\ AloneInv /\ [Next]_vars => AloneInv'
  <1> SUFFICES ASSUME TypeOK, LabelInv, AloneInv, [Next]_vars, NEW q \in (Busy \ overlapped)'
               PROVE  /\ Busy' = {q}
                      /\ pc'[q] # "read" => Knows(q)'
                      /\ Writing(q)' => Plan(q)'
    BY DEF AloneInv
  <1> DEFINE Goal == Busy' = {q} /\ (pc'[q] # "read" => Knows(q)') /\ (Writing(q)' => Plan(q)')
  <1> USE DEF handler
  <1>q. q \in Requests
    BY DEF Busy
  <1>0. ASSUME NEW r \in Requests, r \in Busy, overlapped' = overlapped,
               NEW label, pc' = [pc EXCEPT ![r] = label]
        PROVE  q = r /\ Busy = {r} /\ Busy' = {r} /\ pc'[r] = label /\ label # "done"
               /\ r \in Busy \ overlapped
    BY <1>0 DEF AloneInv, TypeOK, Busy
  <1>1. ASSUME UNCHANGED <<row, handler, overlapped>> PROVE Goal
    <2>1. q \in Busy \ overlapped /\ Busy' = Busy
      BY <1>1 DEF Busy
    <2>2. Knows(q)' = Knows(q)
      BY <1>1 DEF Knows
    <2>3. Plan(q)' = Plan(q)
      BY <1>1 DEF Plan, LastAdmin, Removes, Admins, UpdateUser, DeleteUser, ActivateKey, Audited, Others, Active,
                  Ensured, Swept, At, Exists, Ensure, FreshAt, Fresh
    <2> QED BY <1>1, <2>1, <2>2, <2>3 DEF AloneInv, Writing
  <1>2. ASSUME NEW r \in Requests, pc[r] = "unsent", Overlap(r), NEW label,
               label \notin {"unsent", "done"}, pc' = [pc EXCEPT ![r] = label]
        PROVE  q = r /\ Busy' = {r} /\ pc'[r] = label
    <2>1. Busy' = Busy \cup {r}
      BY <1>2 DEF Busy, TypeOK
    <2>2. Busy = {}
      BY <1>2, <2>1 DEF Overlap
    <2> QED BY <1>2, <2>1, <2>2 DEF TypeOK
  <1>3. ASSUME NEW r \in Requests, NEW m \in Message, Begin(r, m) PROVE Goal
    <2>1. m.actor \in Users
      BY <1>3 DEF Begin, Message
    <2>2. CASE m.target = m.actor
      <3>1. pc' = [pc EXCEPT ![r] = "decide"] /\ seen' = [seen EXCEPT ![r] = row[m.actor]]
        BY <1>3, <2>2 DEF Begin, Goto
      <3>2. q = r /\ Busy' = {r} /\ pc'[r] = "decide"
        BY <1>2, <1>3, <3>1 DEF Begin
      <3>3. msg'[r] = m /\ seen'[r] = row[m.actor] /\ row' = row
        BY <1>3, <3>1 DEF Begin, TypeOK
      <3>4. m.op # "boot"
        BY <1>3 DEF Begin
      <3> QED BY <2>2, <3>2, <3>3, <3>4 DEF Knows, Writing
    <2>3. CASE m.target # m.actor
      <3>1. pc' = [pc EXCEPT ![r] = IF m.op = "create" THEN "decide" ELSE "read"]
        BY <1>3, <2>3 DEF Begin, Goto
      <3>2. q = r /\ Busy' = {r} /\ pc'[r] = IF m.op = "create" THEN "decide" ELSE "read"
        <4>1. (IF m.op = "create" THEN "decide" ELSE "read") \notin {"unsent", "done"}
          OBVIOUS
        <4> QED BY <1>2, <1>3, <3>1, <4>1 DEF Begin
      <3>3. msg'[r] = m
        BY <1>3 DEF Begin, TypeOK
      <3> QED BY <3>2, <3>3 DEF Knows, Writing, UserOps, KeyOps
    <2> QED BY <2>2, <2>3
  <1>4. ASSUME NEW r \in Requests, NEW m \in Message, Boot(r, m) PROVE Goal
    <2>1. q = r /\ Busy' = {r} /\ pc'[r] = "read"
      BY <1>2, <1>4 DEF Boot, Goto
    <2> QED BY <2>1 DEF Writing
  <1>5. ASSUME NEW r \in Requests, Finish(r), r \in Busy, overlapped' = overlapped PROVE FALSE
    BY <1>0, <1>5 DEF Finish, Goto
  <1>6. ASSUME NEW r \in Requests, Read(r) PROVE Goal
    <2>1. r \in Busy /\ overlapped' = overlapped
      BY <1>6 DEF Read, Busy
    <2>2. Exists(msg[r].target)
      BY <1>5, <1>6, <2>1 DEF Read
    <2>3. q = r /\ Busy' = {r} /\ pc'[r] = "decide"
      BY <1>0, <1>6, <2>1, <2>2 DEF Read, Goto
    <2>4. seen'[r] = row[msg[r].target] /\ msg' = msg /\ row' = row
      BY <1>6, <2>2 DEF Read, TypeOK
    <2> QED BY <1>6, <2>3, <2>4 DEF Read, Knows, Writing, UserOps, KeyOps
  <1>7. ASSUME NEW r \in Requests, ReadAddress(r) PROVE Goal
    <2>1. r \in Busy /\ overlapped' = overlapped /\ row' = row
      BY <1>7 DEF ReadAddress, Busy
    <2>2. pc' = [pc EXCEPT ![r] = "decide"]
      BY <1>5, <1>7, <2>1 DEF ReadAddress, Goto
    <2>3. q = r /\ Busy' = {r} /\ pc'[r] = "decide"
      BY <1>0, <2>1, <2>2
    <2>4. msg[r] \in Message /\ seen[r] = None
      BY <1>7 DEF ReadAddress, LabelInv, Label
    <2>5. CASE At(msg[r].target) = {}
      <3>1. msg' = msg /\ seen' = seen
        BY <1>7, <2>5 DEF ReadAddress
      <3> QED BY <1>7, <2>3, <2>4, <3>1 DEF ReadAddress, Knows, Writing, UserOps, KeyOps
    <2>6. CASE At(msg[r].target) # {}
      <3>1. msg[r].op = "boot"
        BY <1>5, <1>7, <2>1, <2>6 DEF ReadAddress
      <3>2. PICK u \in At(msg[r].target) : /\ msg' = [msg EXCEPT ![r].target = u]
                                          /\ seen' = [seen EXCEPT ![r] = row[u]]
        BY <1>5, <1>7, <2>1, <2>6 DEF ReadAddress
      <3>3. msg[r].target = AdminEmail
        BY <2>4, <3>1 DEF Message, KeyOps
      <3>4. u \in Users /\ AddressOf[u] = AdminEmail /\ row[u] \in Roles
        BY <3>3 DEF At, Exists, TypeOK
      <3>5. msg'[r].target = u /\ msg'[r].op = "boot" /\ seen'[r] = row[u]
        BY <2>4, <3>1, <3>2 DEF TypeOK, Message
      <3> QED BY <2>1, <2>3, <3>4, <3>5 DEF Knows, Writing, UserOps, KeyOps
    <2> QED BY <2>5, <2>6
  <1>8. ASSUME NEW r \in Requests, Decide(r) PROVE Goal
    <2>1. r \in Busy /\ overlapped' = overlapped /\ row' = row
      BY <1>8 DEF Decide, Busy
    <2>2. pc' = [pc EXCEPT ![r] = "write"] /\ msg' = msg /\ seen' = seen
      BY <1>5, <1>8, <2>1 DEF Decide, Goto
    <2>3. q = r /\ Busy' = {r} /\ pc'[r] = "write" /\ r \in Busy \ overlapped
      BY <1>0, <2>1, <2>2
    <2>4. Knows(r)
      BY <1>8, <2>3 DEF AloneInv, Decide
    <2>5. Plan(r)'
      BY <1>8, <2>3, <2>4, DecidePlans
    <2>6. Knows(r)'
      BY <2>1, <2>2, <2>4 DEF Knows
    <2> QED BY <2>3, <2>5, <2>6
  <1>9. ASSUME NEW r \in Requests, NEW w \in need[r], Take(r, w) PROVE Goal
    <2>1. /\ row' = row /\ msg' = msg /\ seen' = seen /\ pc' = pc /\ overlapped' = overlapped
          /\ need'[q] \cup held'[q] = need[q] \cup held[q]
      BY <1>9, <1>q DEF Take, TypeOK
    <2>2. q \in Busy \ overlapped /\ Busy' = Busy
      BY <2>1 DEF Busy
    <2>3. Knows(q)' = Knows(q)
      BY <2>1 DEF Knows
    <2>4. Plan(q) => Plan(q)'
      <3>1. /\ LastAdmin(q)' = LastAdmin(q) /\ UpdateUser(q, msg[q])' = UpdateUser(q, msg[q])
            /\ DeleteUser(q, msg[q])' = DeleteUser(q, msg[q]) /\ ActivateKey(q, msg[q])' = ActivateKey(q, msg[q])
            /\ Swept(q)' = Swept(q)
        BY <2>1 DEF LastAdmin, Removes, Admins, UpdateUser, DeleteUser, ActivateKey, Audited, Others, Active,
                    Swept, At, Exists
      <3>2. \A e : Ensured(q, e) => Ensured(q, e)'
        BY <2>1 DEF Ensured, Ensure
      <3> HIDE DEF LastAdmin, UpdateUser, DeleteUser, ActivateKey, Swept, Ensured
      <3> QED BY <2>1, <3>1, <3>2 DEF Plan
    <2> QED BY <2>1, <2>2, <2>3, <2>4 DEF AloneInv, Writing
  <1>10. ASSUME NEW r \in Requests, Sweep(r) PROVE Goal
    <2>1. r \in Busy /\ overlapped' = overlapped /\ row' = row /\ msg' = msg /\ seen' = seen /\ held' = held
      BY <1>10 DEF Sweep, Busy
    <2>2. q = r /\ Busy' = {r} /\ pc'[r] = "sweep" /\ r \in Busy \ overlapped
      BY <1>0, <1>10, <2>1 DEF Sweep, Goto
    <2>3. Knows(r) /\ Plan(r) /\ msg[r].op = "boot" /\ need[r] = {} /\ pc[r] = "write"
      BY <1>10, <2>2 DEF AloneInv, Sweep, Writing
    <2>4. PICK e \in SUBSET Write : Ensured(r, e) /\ need[r] \cup held[r] = e \cup Swept(r)
      BY <2>3 DEF Plan
    <2>5. held[r] = e
      BY <2>3, <2>4 DEF Swept
    <2>6. need'[r] = Swept(r)'
      BY <1>10, <2>1, <2>2 DEF Sweep, Swept, At, Exists, TypeOK
    <2>7. Ensured(r, e)'
      BY <2>1, <2>4 DEF Ensured, Ensure
    <2>8. (\E e1 \in SUBSET Write : Ensured(r, e1) /\ need[r] \cup held[r] = e1 \cup Swept(r))'
      BY <2>1, <2>5, <2>6, <2>7
    <2>9. ~LastAdmin(r)'
      BY <2>1, <2>3 DEF LastAdmin, Removes
    <2>10. Plan(r)'
      BY <2>1, <2>3, <2>8, <2>9 DEF Plan, UserOps
    <2>11. Knows(r)'
      BY <2>1, <2>3 DEF Knows
    <2> QED BY <2>2, <2>10, <2>11
  <1>11. ASSUME NEW r \in Requests, Commit(r) \/ Fails(r) PROVE FALSE
    BY <1>5, <1>11 DEF Commit, Fails, Complete, Writing, Busy
  <1> HIDE DEF Goal
  <1>12. Goal
    BY <1>1, <1>3, <1>4, <1>6, <1>7, <1>8, <1>9, <1>10, <1>11 DEF Next, vars, IssueToken, TokenExpires
  <1> QED BY <1>12 DEF Goal

-----------------------------------------------------------------------------
(* Requests about keys lock them in one order.                             *)

\* What such a request writes besides keys is a share; what it has locked comes
\* before what it needs.
KeyInv ==
  \A r \in Requests : msg[r].op \in KeyOps =>
    /\ pc[r] = "decide" => row[msg[r].target] # "none"
    /\ \A w \in need[r] \cup held[r] : w.row \in Keys \/ w.mode = "share"
    /\ \A v, w \in need[r] : v.row = w.row /\ w.row \in Keys => v = w
    /\ \A v \in held[r], w \in need[r] : v.row \in Keys /\ w.row \in Keys => v.row < w.row

LEMMA WritesKeys ==
  ASSUME TypeOK, LabelInv, NEW r \in Requests, pc[r] = "decide", NEW ws \in Writes(r), msg[r].op \in KeyOps,
         row[msg[r].target] # "none"
  PROVE  /\ \A w \in ws : w.row \in Keys \/ w.mode = "share"
         /\ \A v, w \in ws : v.row = w.row /\ w.row \in Keys => v = w
  <1> DEFINE k == msg[r].target
  <1>1. k \in Keys /\ msg[r].actor \in Users
    BY DEF TypeOK, LabelInv, Label, Busy, Message, Reset, KeyOps
  <1>2. \A w \in Audited(r) : w.row \notin Keys /\ w.mode = "share"
    BY <1>1, Shape DEF Audited
  <1>3. \A x, v : \A w \in Set(x, v) : w = [row |-> x, mode |-> "update", to |-> v]
    BY DEF Set
  <1>4. \A x, v : \A w \in Insert(x, v) : w = [row |-> x, mode |-> "insert", to |-> v]
    BY DEF Insert
  <1>5. /\ \A w \in RevokeKey(r, msg[r]) : w = [row |-> k, mode |-> "update", to |-> "revoked"] \/ w \in Audited(r)
        /\ \A w \in RevokeKey(r, msg[r]) : seen[r] = "active"
        /\ \A w \in ReinstateKey(r, msg[r]) : w = [row |-> k, mode |-> "update", to |-> "active"] \/ w \in Audited(r)
    BY <1>3 DEF RevokeKey, ReinstateKey
  <1> HIDE DEF k
  <1>6. CASE msg[r].op = "rotate"
    <2>1. PICK x \in Fresh(Keys) : ws = RevokeKey(r, msg[r]) \cup Insert(x, "active") \cup Audited(r)
      BY <1>6 DEF Writes
    <2>2. x \in Keys /\ row[x] = "none"
      BY DEF Fresh
    <2>3. x # k
      BY <2>2 DEF k
    <2> QED BY <1>1, <1>2, <1>4, <1>5, <2>1, <2>2, <2>3
  <1>7. CASE msg[r].op \in {"revoke", "reinstate"}
    <2>1. ws \in {RevokeKey(r, msg[r]), ReinstateKey(r, msg[r])}
      BY <1>7 DEF Writes
    <2> QED BY <1>1, <1>2, <1>5, <2>1
  <1>8. CASE msg[r].op = "activate"
    <2>1. ws = ActivateKey(r, msg[r])
      BY <1>8 DEF Writes
    <2>2. k \notin Others(k) /\ Others(k) \subseteq Keys
      BY DEF Others, Active
    <2>3. \A w \in ActivateKey(r, msg[r]) :
             \/ w.row \in Others(k) /\ w = [row |-> w.row, mode |-> "update", to |-> "revoked"]
             \/ w = [row |-> k, mode |-> "update", to |-> "active"]
             \/ w \in Audited(r)
      BY <1>3 DEF ActivateKey, k
    <2> QED BY <1>1, <1>2, <2>1, <2>2, <2>3
  <1> QED BY <1>6, <1>7, <1>8 DEF KeyOps

LEMMA KeyNext == TypeOK /\ LabelInv /\ KeyInv /\ [Next]_vars => KeyInv'
  <1> SUFFICES ASSUME TypeOK, LabelInv, KeyInv, [Next]_vars, NEW q \in Requests, msg'[q].op \in KeyOps
               PROVE  /\ pc'[q] = "decide" => row'[msg'[q].target] # "none"
                      /\ \A w \in need'[q] \cup held'[q] : w.row \in Keys \/ w.mode = "share"
                      /\ \A v, w \in need'[q] : v.row = w.row /\ w.row \in Keys => v = w
                      /\ \A v \in held'[q], w \in need'[q] : v.row \in Keys /\ w.row \in Keys => v.row < w.row
    BY DEF KeyInv
  <1> DEFINE Known  == pc'[q] = "decide" => row'[msg'[q].target] # "none"
             Writ == /\ \A w \in need'[q] \cup held'[q] : w.row \in Keys \/ w.mode = "share"
                     /\ \A v, w \in need'[q] : v.row = w.row /\ w.row \in Keys => v = w
                     /\ \A v \in held'[q], w \in need'[q] : v.row \in Keys /\ w.row \in Keys => v.row < w.row
  <1> USE DEF handler, Finish, Goto, TypeOK
  <1>1. CASE pc[q] # "decide" /\ pc'[q] = "decide"
    <2>1. row' = row /\ need' = need /\ held' = held /\ ~Writing(q)
      BY <1>1 DEF Next, vars, IssueToken, TokenExpires, Begin, Boot, Read, ReadAddress, Decide, Sweep, Take, Commit, Fails, Writing
    <2>2. need'[q] = {} /\ held'[q] = {}
      BY <2>1 DEF LabelInv, Label
    <2>3. row'[msg'[q].target] # "none"
      <3>1. ASSUME NEW r \in Requests, NEW m \in Message, Begin(r, m) PROVE row'[msg'[q].target] # "none"
        <4>1. q = r /\ msg'[q] = m
          BY <1>1, <3>1 DEF Begin
        <4>2. m.target = m.actor
          BY <1>1, <3>1, <4>1 DEF Begin, KeyOps
        <4> QED BY <2>1, <3>1, <4>1, <4>2 DEF Begin, Exists
      <3>2. ASSUME NEW r \in Requests, Read(r) PROVE row'[msg'[q].target] # "none"
        BY <1>1, <2>1, <3>2 DEF Read, Exists
      <3>3. ASSUME NEW r \in Requests, ReadAddress(r) PROVE FALSE
        <4>1. msg[r] \in Message /\ msg[r].op \notin KeyOps
          BY <3>3 DEF ReadAddress, LabelInv, Label, KeyOps
        <4>2. q = r
          BY <1>1, <3>3 DEF ReadAddress
        <4>3. msg'[r].op = msg[r].op
          BY <1>1, <3>3, <4>1, <4>2 DEF ReadAddress, Message
        <4> QED BY <4>1, <4>2, <4>3
      <3> QED BY <1>1, <3>1, <3>2, <3>3 DEF Next, vars, IssueToken, TokenExpires, Boot, Decide, Sweep, Take, Commit, Fails
    <2> QED BY <2>2, <2>3
  <1>2. CASE pc[q] = "decide" /\ pc'[q] = "decide"
    <2>1. msg'[q] = msg[q] /\ need'[q] = {} /\ held'[q] = {}
      <3>1. need[q] = {} /\ held[q] = {}
        BY <1>2 DEF LabelInv, Label, Writing
      <3> QED BY <1>2, <3>1 DEF Next, vars, IssueToken, TokenExpires, Begin, Boot, Read, ReadAddress, Decide, Sweep, Take,
                 Commit, Fails, Writing, Complete
    <2>2. row[msg[q].target] # "none" /\ msg[q].target \in Keys
      BY <1>2, <2>1 DEF KeyInv, LabelInv, Label, Busy, Message, Reset, KeyOps
    <2>3. ASSUME NEW r \in Requests, Commit(r) PROVE row'[msg[q].target] # "none"
      <3> DEFINE x == msg[q].target
                 P(w) == w \in held[r] /\ w.row = x /\ w.to # None
      <3>1. row'[x] = IF \E w \in held[r] : w.row = x /\ w.to # None
                      THEN (CHOOSE w \in held[r] : w.row = x /\ w.to # None).to ELSE row[x]
        BY <2>2, <2>3 DEF Commit, Rows
      <3>2. \A w \in held[r] : w.to # "none"
        BY Shape DEF Write, Roles
      <3> QED BY <2>2, <3>1, <3>2
    <2>4. row' = row \/ \E r \in Requests : Commit(r)
      BY DEF Next, vars, IssueToken, TokenExpires, Begin, Boot, Read, ReadAddress, Decide, Sweep, Take, Fails
    <2> QED BY <2>1, <2>2, <2>3, <2>4
  <1>3. CASE pc'[q] # "decide"
    <2>1. ASSUME need'[q] = need[q], held'[q] = held[q], msg'[q].op = msg[q].op PROVE Writ
      BY <2>1 DEF KeyInv
    <2>2. ASSUME need'[q] = {}, held'[q] = {} PROVE Writ
      BY <2>2
    <2> HIDE DEF Writ
    <2>3. ASSUME NEW r \in Requests, NEW m \in Message, Begin(r, m) \/ Boot(r, m) PROVE Writ
      BY <2>1, <2>2, <2>3 DEF Begin, Boot, LabelInv, Label, Writing
    <2>4. ASSUME NEW r \in Requests, Finish(r) PROVE Writ
      BY <2>1, <2>2, <2>4
    <2>5. ASSUME NEW r \in Requests, Read(r) PROVE Writ
      BY <2>1, <2>4, <2>5 DEF Read
    <2>6. ASSUME NEW r \in Requests, ReadAddress(r) PROVE Writ
      <3>1. CASE q = r
        BY <2>2, <2>4, <2>6, <3>1 DEF ReadAddress, LabelInv, Label, Writing
      <3>2. CASE q # r
        BY <2>1, <2>4, <2>6, <3>2 DEF ReadAddress
      <3> QED BY <3>1, <3>2
    <2>7. ASSUME NEW r \in Requests, Decide(r) PROVE Writ
      <3>1. CASE q # r \/ LastAdmin(r)
        BY <2>1, <2>4, <2>7, <3>1 DEF Decide
      <3>2. CASE q = r /\ ~LastAdmin(r)
        <4>1. PICK ws \in Writes(r) : need' = [need EXCEPT ![r] = ws]
          BY <2>7, <3>2 DEF Decide
        <4>2. pc[r] = "decide" /\ msg' = msg /\ held' = held /\ held[r] = {}
          BY <2>7, <3>2 DEF Decide, LabelInv, Label, Writing
        <4>3. row[msg[r].target] # "none" /\ msg[r].op \in KeyOps
          BY <3>2, <4>2 DEF KeyInv
        <4>4. /\ \A w \in ws : w.row \in Keys \/ w.mode = "share"
              /\ \A v, w \in ws : v.row = w.row /\ w.row \in Keys => v = w
          BY <4>2, <4>3, WritesKeys
        <4> QED BY <3>2, <4>1, <4>2, <4>4 DEF Writ
      <3> QED BY <3>1, <3>2
    <2>8. ASSUME NEW r \in Requests, Sweep(r) PROVE Writ
      <3>1. msg' = msg /\ held' = held /\ \A p \in Requests \ {r} : need'[p] = need[p]
        BY <2>8 DEF Sweep
      <3>2. q # r
        BY <2>8, <3>1 DEF Sweep, KeyOps
      <3> QED BY <2>1, <3>1, <3>2
    <2>9. ASSUME NEW r \in Requests, NEW w \in need[r], Take(r, w) PROVE Writ
      <3>1. CASE q # r
        BY <2>1, <2>9, <3>1 DEF Take
      <3>2. CASE q = r
        <4>1. /\ need'[q] = need[q] \ {w} /\ held'[q] = held[q] \cup {w} /\ msg[q].op \in KeyOps
              /\ w.row \in Keys => \A v \in need[q] : v.row \in Keys => w.row <= v.row
          BY <2>9, <3>2 DEF Take, IsNext
        <4>2. /\ \A x \in need[q] \cup held[q] : x.row \in Keys \/ x.mode = "share"
              /\ \A v, x \in need[q] : v.row = x.row /\ x.row \in Keys => v = x
              /\ \A v \in held[q], x \in need[q] : v.row \in Keys /\ x.row \in Keys => v.row < x.row
          BY <4>1 DEF KeyInv
        <4>3. \A x \in need'[q] : w.row \in Keys /\ x.row \in Keys => w.row < x.row
          <5>1. \A x \in need'[q] : x \in need[q] /\ x # w
            BY <4>1
          <5>2. \A a, b \in Keys : a <= b /\ a # b => a < b
            BY Shape
          <5> QED BY <3>2, <4>1, <4>2, <5>1, <5>2
        <4> QED BY <3>2, <4>1, <4>2, <4>3 DEF Writ
      <3> QED BY <3>1, <3>2
    <2>10. ASSUME need' = need, held' = held, msg' = msg PROVE Writ
      BY <2>1, <2>10
    <2>11. Writ
      BY <2>3, <2>4, <2>5, <2>6, <2>7, <2>8, <2>9, <2>10 DEF Next, vars, IssueToken, TokenExpires, Commit, Fails
    <2> QED BY <1>3, <2>11 DEF Writ
  <1> QED BY <1>1, <1>2, <1>3

-----------------------------------------------------------------------------
IInv == TypeOK /\ LabelInv /\ LockInv /\ FlushInv /\ KeyInv /\ AloneInv

LEMMA Inductive == Spec => []IInv
  <1>1. Init => IInv
    <2>1. Init => LockInv /\ FlushInv /\ AloneInv
      BY DEF Init, LockInv, FlushInv, AloneInv, Busy
    <2>2. Init => KeyInv
      BY DEF Init, KeyInv
    <2> QED BY <2>1, <2>2, TypeInit DEF IInv
  <1>2. IInv /\ [Next]_vars => IInv'
    BY TypeNext, LabelNext, LockNext, FlushNext, KeyNext, AloneNext DEF IInv
  <1> QED BY <1>1, <1>2, PTL DEF Spec

\* The rows, messages and writes have their types.
THEOREM TypeCorrect == Spec => []TypeOK
  BY Inductive, PTL DEF IInv

LEMMA CommitsIsCommit ==
  ASSUME IInv, [Next]_vars, row' # row
  PROVE  \E r \in Requests : Commit(r)
  BY DEF Next, vars, handler, IssueToken, TokenExpires, Begin, Boot, Read, ReadAddress, Decide, Sweep, Take, Fails

LEMMA CommitsOnlyOne ==
  ASSUME IInv, NEW r \in Requests, NEW q \in Requests, Commit(q), pc'[r] = "done", Complete(r)
  PROVE  r = q
  BY DEF IInv, TypeOK, Commit, Finish, Goto, Complete, Writing

\* A commit that changes something has written something.
LEMMA CommitsWrite ==
  ASSUME IInv, NEW r \in Requests, Commit(r), row' # row
  PROVE  held[r] # {}
  <1>1. ASSUME held[r] = {} PROVE FALSE
    <2>1. row' = [x \in Rows |-> row[x]]
      BY <1>1 DEF Commit
    <2> QED BY <2>1 DEF IInv, TypeOK
  <1> QED BY <1>1

\* Who changes something exists when the change takes effect (create_audit's
\* foreign key), whatever other requests have done since they were let in.
THEOREM Accountable == Spec => ActorStillThere
  <1> DEFINE A == \A r \in Requests : Commits(r) /\ msg[r].op # "boot" => Exists(msg[r].actor)
  <1>1. IInv /\ [Next]_vars => A
    <2> SUFFICES ASSUME IInv, [Next]_vars, NEW r \in Requests, Commits(r), msg[r].op # "boot"
                 PROVE  Exists(msg[r].actor)
      OBVIOUS
    <2>1. Commit(r)
      BY CommitsIsCommit, CommitsOnlyOne DEF Commits
    <2>2. held[r] # {} /\ need[r] = {}
      BY <2>1, CommitsWrite DEF Commits, Complete
    <2>3. Share(msg[r].actor) \in held[r]
      BY <2>2 DEF IInv, FlushInv
    <2> QED BY <2>3 DEF IInv, FlushInv, Share
  <1>2. IInv /\ [Next]_vars => [A]_vars
    BY <1>1
  <1> QED BY <1>2, Inductive, PTL DEF Spec, ActorStillThere

-----------------------------------------------------------------------------
(* What the commit of a request leaves that nothing overlapped.            *)

\* A row is what was written to it last, or what it was.
LEMMA CommitRow ==
  ASSUME NEW r \in Requests, Commit(r), NEW x \in Rows
  PROVE  /\ (\A w \in held[r] : w.row = x => w.to = None) => row'[x] = row[x]
         /\ \A v \in held[r] : v.row = x /\ v.to # None
               /\ (\A w \in held[r] : w.row = x /\ w.to # None => w.to = v.to) => row'[x] = v.to
  <1> DEFINE P(w) == w \in held[r] /\ w.row = x /\ w.to # None
  <1>1. row'[x] = IF \E w \in held[r] : w.row = x /\ w.to # None
                  THEN (CHOOSE w \in held[r] : w.row = x /\ w.to # None).to ELSE row[x]
    BY DEF Commit
  <1> QED BY <1>1

LEMMA AloneCommits ==
  ASSUME IInv, NEW r \in Requests \ overlapped, Commit(r)
  PROVE  /\ Busy = {r} /\ Knows(r) /\ Plan(r) /\ need[r] = {} /\ msg[r] \in Message \cup Reset
         /\ msg[r].op = "boot" => pc[r] = "sweep"
  BY DEF IInv, AloneInv, LabelInv, Label, Commit, Complete, Writing, Busy

\* The start-up leaves a user with the address it ensures.
LEMMA BootKeeps ==
  ASSUME IInv, NEW r \in Requests \ overlapped, Commit(r), msg[r].op = "boot"
  PROVE  /\ \E u \in Users : /\ AddressOf[u] = AdminEmail
                             /\ row'[u] = IF SweepsLastAdmin(r) THEN "member" ELSE "admin"
         /\ \A u \in Users : AddressOf[u] = RemoveEmail => row'[u] \in {"none", "gone"}
  <1>1. PICK e \in SUBSET Write : Ensured(r, e) /\ held[r] = e \cup Swept(r)
    BY AloneCommits DEF Plan
  <1>2. Users \subseteq Rows /\ AdminEmail # RemoveEmail
    BY Shape DEF Rows
  <1>3. \A w : w \in Swept(r) <=> \E u \in At(RemoveEmail) : w = [row |-> u, mode |-> "delete", to |-> "gone"]
    BY AloneCommits DEF Swept, Delete
  <1>4. \A u \in At(RemoveEmail) : u \in Users /\ AddressOf[u] = RemoveEmail
    BY DEF At
  <1>5. PICK t \in Users : /\ AddressOf[t] = AdminEmail
                          /\ \/ e = Insert(t, "admin") /\ seen[r] = None
                             \/ seen[r] # None /\ seen[r] = row[t] /\ seen[r] \in Roles /\ e \in Ensure(r, msg[r])
                                  /\ msg[r].target = t
    <2>1. CASE seen[r] = None
      BY <1>1, <2>1 DEF Ensured
    <2>2. CASE seen[r] # None
      BY <1>1, <2>2, AloneCommits DEF Ensured, Knows
    <2> QED BY <2>1, <2>2
  <1>6. msg[r].role \in {"admin", None}
    BY AloneCommits DEF Message, Reset, KeyOps
  <1>7. \A w \in e : w.row = t /\ (w.to = None \/ w.to = "admin")
    <2>1. CASE seen[r] = None
      BY <1>5, <2>1 DEF Insert
    <2>2. CASE seen[r] # None
      <3>1. e = {} \/ e = Set(t, None) \/ e = Set(t, msg[r].role)
        BY <1>5, <2>2 DEF Ensure
      <3> QED BY <1>6, <3>1 DEF Set
    <2> QED BY <2>1, <2>2
  <1>8. \A w \in held[r] : w.row = t => w \in e
    BY <1>1, <1>2, <1>3, <1>4, <1>5
  <1>9. row'[t] = IF SweepsLastAdmin(r) THEN "member" ELSE "admin"
    <2>1. CASE \E v \in e : v.to # None
      <3>1. PICK v \in e : v.to # None
        BY <2>1
      <3>2. v \in held[r] /\ v.row = t /\ v.to = "admin"
        BY <1>1, <1>7, <3>1
      <3>3. \A w \in held[r] : w.row = t /\ w.to # None => w.to = v.to
        BY <1>7, <1>8, <3>2
      <3>4. row'[t] = "admin"
        BY <1>2, <3>1, <3>2, <3>3, CommitRow
      <3>5. ~SweepsLastAdmin(r)
        <4>1. CASE seen[r] = None
          BY <4>1, Shape DEF SweepsLastAdmin
        <4>2. CASE seen[r] # None /\ msg[r].role = None
          BY <1>5, <3>1, <4>2 DEF Ensure
        <4> QED BY <4>1, <4>2 DEF SweepsLastAdmin
      <3> QED BY <3>4, <3>5
    <2>2. CASE \A v \in e : v.to = None
      <3>1. row'[t] = row[t]
        BY <1>2, <1>8, <2>2, CommitRow
      <3>2. seen[r] # None
        <4>1. ASSUME seen[r] = None PROVE FALSE
          <5>1. [row |-> t, mode |-> "insert", to |-> "admin"] \in e
            BY <1>5, <4>1 DEF Insert
          <5> QED BY <2>2, <5>1, Shape
        <4> QED BY <4>1
      <3>3. CASE msg[r].role = None
        BY <1>5, <3>1, <3>2, <3>3, AloneCommits DEF SweepsLastAdmin, Roles
      <3>4. CASE msg[r].role = "admin"
        <4>1. seen[r] = "admin"
          <5>1. ASSUME seen[r] # "admin" PROVE FALSE
            <6>1. e = Set(t, "admin")
              BY <1>5, <3>2, <3>4, <5>1, Shape DEF Ensure
            <6> QED BY <2>2, <6>1, Shape DEF Set
          <5> QED BY <5>1
        <4> QED BY <1>5, <3>1, <3>2, <4>1 DEF SweepsLastAdmin
      <3> QED BY <1>6, <3>3, <3>4
    <2> QED BY <2>1, <2>2
  <1>10. ASSUME NEW u \in Users, AddressOf[u] = RemoveEmail PROVE row'[u] \in {"none", "gone"}
    <2>1. \A w \in held[r] : w.row = u => w \in Swept(r)
      BY <1>1, <1>2, <1>5, <1>7, <1>10
    <2>2. CASE Exists(u)
      <3> DEFINE v == [row |-> u, mode |-> "delete", to |-> "gone"]
      <3>1. v \in held[r] /\ v.row = u /\ v.to = "gone" /\ v.to # None
        BY <1>1, <1>3, <1>10, <2>2, Shape DEF At
      <3>2. \A w \in held[r] : w.row = u /\ w.to # None => w.to = v.to
        BY <1>3, <2>1
      <3> HIDE DEF v
      <3> QED BY <1>2, <3>1, <3>2, CommitRow
    <2>3. CASE ~Exists(u)
      <3>1. \A w \in held[r] : w.row # u
        BY <1>3, <2>1, <2>3 DEF At
      <3>2. row'[u] = row[u]
        BY <1>2, <3>1, CommitRow
      <3> QED BY <2>3, <3>2 DEF Exists
    <2> QED BY <2>2, <2>3
  <1> QED BY <1>5, <1>9, <1>10

\* The last administrator is lost to requests that overlap, or to a start-up
\* (_admin_count, the 409 last_admin of update_user and delete_user).
THEOREM Lockout == Spec => LockoutNeedsOverlap
  <1> DEFINE A == Admins # {} /\ Admins' = {} =>
                    \E r \in Requests : Commits(r) /\ (r \in overlapped \/ SweepsLastAdmin(r))
  <1>1. IInv /\ [Next]_vars => A
    <2> SUFFICES ASSUME IInv, [Next]_vars, Admins # {}, Admins' = {}
                 PROVE  \E r \in Requests : Commits(r) /\ (r \in overlapped \/ SweepsLastAdmin(r))
      OBVIOUS
    <2>1. row' # row
      BY DEF Admins
    <2>2. PICK r \in Requests : Commit(r)
      BY <2>1, CommitsIsCommit
    <2>3. Commits(r)
      BY <2>1, <2>2 DEF Commits, Commit, Finish, Goto, IInv, TypeOK
    <2>4. ASSUME r \notin overlapped, ~SweepsLastAdmin(r) PROVE FALSE
      <3>1. Knows(r) /\ Plan(r) /\ need[r] = {} /\ msg[r] \in Message \cup Reset
        BY <2>2, <2>4, AloneCommits
      <3>2. PICK a \in Users : row[a] = "admin" /\ a \in Rows
        BY DEF Admins, Rows
      <3>3. \A u \in Users : row'[u] # "admin"
        BY DEF Admins
      <3>4. CASE msg[r].op \in {"update", "delete"}
        <4>1. \E value : \A w \in held[r] : w.to = None \/ (w.row = msg[r].target /\ w.to = value)
          BY <3>1, <3>4 DEF Plan, UpdateUser, DeleteUser, Set, Delete, Audited
        <4>2. \A u \in Users : row[u] = "admin" => u = msg[r].target
          <5>1. ASSUME NEW u \in Users, u # msg[r].target PROVE row'[u] = row[u]
            BY <2>2, <4>1, <5>1, CommitRow DEF Rows
          <5> QED BY <3>3, <5>1
        <4>3. Admins = {a} /\ a = msg[r].target
          BY <3>2, <4>2 DEF Admins
        <4>4. Cardinality(Admins) = 1 /\ seen[r] = "admin"
          BY <3>1, <3>2, <3>4, <4>3, FS_Singleton DEF Knows, UserOps
        <4>5. ~Removes(r)
          BY <3>1, <4>4 DEF Plan, LastAdmin
        <4>6. msg[r].op = "update" /\ msg[r].role \in {"admin", None}
          BY <3>1, <3>4, <4>5 DEF Removes, Message, Reset, Roles, KeyOps
        <4>7. \A w \in held[r] : w.row = a => w.to = None \/ w.to = "admin"
          BY <3>1, <4>6 DEF Plan, UpdateUser, Set, Audited
        <4>8. CASE \E v \in held[r] : v.row = a /\ v.to # None
          BY <2>2, <3>2, <3>3, <4>7, <4>8, CommitRow
        <4>9. CASE ~\E v \in held[r] : v.row = a /\ v.to # None
          BY <2>2, <3>2, <3>3, <4>9, CommitRow
        <4> QED BY <4>8, <4>9
      <3>5. CASE msg[r].op = "boot"
        BY <2>2, <2>4, <3>3, <3>5, BootKeeps
      <3>6. CASE msg[r].op \notin {"update", "delete", "boot"}
        <4>1. \A w \in held[r] : w.row = a => w.to = None
          BY <3>1, <3>2, <3>6 DEF Plan, UserOps
        <4> QED BY <2>2, <3>2, <3>3, <4>1, CommitRow
      <3> QED BY <3>4, <3>5, <3>6
    <2> QED BY <2>3, <2>4
  <1>2. IInv /\ [Next]_vars => [A]_vars
    BY <1>1
  <1> QED BY <1>2, Inductive, PTL DEF Spec, LockoutNeedsOverlap

\* A start-up that nothing overlapped leaves the user it ensures and none that
\* it removes (seed_admin.main).
THEOREM BootLeaves == Spec => BootSettles
  <1> DEFINE A == \A r \in Requests \ overlapped :
       Complete(r) /\ msg[r].op = "boot" /\ row' # row =>
         /\ \E u \in Users : /\ AddressOf[u] = AdminEmail
                             /\ row'[u] = IF SweepsLastAdmin(r) THEN "member" ELSE "admin"
         /\ \A u \in Users : AddressOf[u] = RemoveEmail => row'[u] \in {"none", "gone"}
  <1>1. IInv /\ [Next]_vars => A
    <2> SUFFICES ASSUME IInv, [Next]_vars, NEW r \in Requests \ overlapped,
                        Complete(r), msg[r].op = "boot", row' # row
                 PROVE  /\ \E u \in Users : /\ AddressOf[u] = AdminEmail
                                            /\ row'[u] = IF SweepsLastAdmin(r) THEN "member" ELSE "admin"
                        /\ \A u \in Users : AddressOf[u] = RemoveEmail => row'[u] \in {"none", "gone"}
      OBVIOUS
    <2>1. PICK q \in Requests : Commit(q)
      BY CommitsIsCommit
    <2>2. q = r
      BY <2>1 DEF IInv, AloneInv, Busy, Commit, Complete, Writing
    <2> QED BY <2>1, <2>2, BootKeeps
  <1>2. IInv /\ [Next]_vars => [A]_vars
    BY <1>1
  <1> QED BY <1>2, Inductive, PTL DEF Spec, BootSettles

\* An activation that nothing overlapped leaves its key as the only active one
\* (activate_api_key).
THEOREM Activated == Spec => ActivatedIsSole
  <1> DEFINE A == \A r \in Requests \ overlapped :
       pc[r] = "write" /\ msg[r].op = "activate" /\ need[r] = {} /\ row' # row => Active' = {msg[r].target}
  <1>1. IInv /\ [Next]_vars => A
    <2> SUFFICES ASSUME IInv, [Next]_vars, NEW r \in Requests \ overlapped,
                        pc[r] = "write", msg[r].op = "activate", row' # row
                 PROVE  Active' = {msg[r].target}
      OBVIOUS
    <2>1. Commit(r)
      <3>1. PICK q \in Requests : Commit(q)
        BY CommitsIsCommit
      <3> QED BY <3>1 DEF IInv, AloneInv, Busy, Commit, Complete, Writing
    <2>2. Knows(r) /\ Plan(r) /\ need[r] = {} /\ msg[r] \in Message \cup Reset
      BY <2>1, AloneCommits
    <2> DEFINE k == msg[r].target
    <2>3. k \in Keys /\ seen[r] = row[k]
      BY <2>2 DEF Message, Reset, KeyOps, Knows
    <2>4. seen[r] \in {"active", "revoked"}
      BY <2>3, Shape DEF IInv, TypeOK, Roles
    <2>5. held[r] = (UNION {Set(o, "revoked") : o \in Others(k)})
                      \cup (IF seen[r] = "revoked" THEN Set(k, "active") ELSE {}) \cup Audited(r)
      BY <2>2 DEF Plan, ActivateKey
    <2> HIDE DEF k
    <2>6. /\ \A o \in Others(k) : [row |-> o, mode |-> "update", to |-> "revoked"] \in held[r]
          /\ seen[r] = "revoked" => [row |-> k, mode |-> "update", to |-> "active"] \in held[r]
          /\ \A w \in held[r] : \/ w.row \in Others(k) /\ w.to = "revoked"
                                \/ w.row = k /\ w.to = "active" /\ seen[r] = "revoked"
                                \/ w.to = None
      BY <2>5 DEF Set, Audited
    <2>7. k \notin Others(k) /\ Others(k) \subseteq Keys /\ Keys \subseteq Rows
      BY DEF Others, Active, Rows
    <2>n. None # "active" /\ None # "revoked"
      BY Shape
    <2>8. row'[k] = "active"
      <3>1. CASE seen[r] = "revoked"
        <4> DEFINE v == [row |-> k, mode |-> "update", to |-> "active"]
        <4>1. v \in held[r] /\ v.row = k /\ v.to = "active" /\ v.to # None
          BY <2>6, <2>n, <3>1
        <4>2. \A w \in held[r] : w.row = k /\ w.to # None => w.to = v.to
          BY <2>6, <2>7
        <4> HIDE DEF v
        <4> QED BY <2>1, <2>3, <2>7, <4>1, <4>2, CommitRow
      <3>2. CASE seen[r] = "active"
        <4>1. \A w \in held[r] : w.row = k => w.to = None
          BY <2>6, <2>7, <3>2
        <4> QED BY <2>1, <2>3, <2>7, <3>2, <4>1, CommitRow
      <3> QED BY <2>4, <3>1, <3>2
    <2>9. ASSUME NEW o \in Keys, o # k PROVE row'[o] # "active"
      <3>1. CASE o \in Others(k)
        <4> DEFINE v == [row |-> o, mode |-> "update", to |-> "revoked"]
        <4>1. v \in held[r] /\ v.row = o /\ v.to = "revoked" /\ v.to # None
          BY <2>6, <2>n, <3>1
        <4>2. \A w \in held[r] : w.row = o /\ w.to # None => w.to = v.to
          BY <2>6, <2>9
        <4> HIDE DEF v
        <4> QED BY <2>1, <2>7, <4>1, <4>2, CommitRow
      <3>2. CASE o \notin Others(k)
        <4>1. \A w \in held[r] : w.row = o => w.to = None
          BY <2>6, <2>9, <3>2
        <4>2. row'[o] = row[o]
          BY <2>1, <2>7, <4>1, CommitRow
        <4> QED BY <2>9, <3>2, <4>2 DEF Others, Active
      <3> QED BY <3>1, <3>2
    <2>10. \A o \in Keys : row'[o] = "active" <=> o = k
      BY <2>8, <2>9
    <2> QED BY <2>3, <2>10 DEF Active, k
  <1>2. IInv /\ [Next]_vars => [A]_vars
    BY <1>1
  <1> QED BY <1>2, Inductive, PTL DEF Spec, ActivatedIsSole

\* A set of keys has a first one.
LEMMA FirstKey ==
  ASSUME NEW S, S \subseteq Keys, S # {}
  PROVE  \E a \in S : \A b \in S : a <= b
  <1>1. S \subseteq Nat
    BY Shape
  <1>2. PICK a \in S : \A b \in S : ~(<<b, a>> \in OpToRel(<, Nat))
    <2>1. IsWellFoundedOn(OpToRel(<, Nat), Nat)
      BY NatLessThanWellFounded
    <2> QED BY <1>1, <2>1, WFMin
  <1>3. \A b \in S : ~(b < a)
    BY <1>1, <1>2 DEF OpToRel
  <1> QED BY <1>1, <1>3

\* Two requests about keys do not wait for each other (the row locks of the
\* flush in activate, revoke, reinstate and rotate).
THEOREM KeysInOrder == Spec => []KeysNeverDeadlock
  <1> DEFINE Waits(q, r) == need[q] # {} /\ \A w \in need[q] : IsNext(q, w) => Blocks(r, w)
  <1>1. ASSUME IInv, NEW q \in Requests, NEW r \in Requests, msg[q].op \in KeyOps, msg[r].op \in KeyOps, Waits(q, r)
        PROVE  \E w \in need[q], v \in held[r] : w.row \in Keys /\ v.row = w.row
    <2>1. /\ \A w \in need[q] : w \in Write /\ (w.row \in Keys \/ w.mode = "share")
          /\ \A v \in held[r] : v \in Write /\ (v.row \in Keys \/ v.mode = "share")
      BY <1>1 DEF IInv, KeyInv, TypeOK
    <2>2. \A w \in need[q], v \in held[r] : Conflict(v, w) => w.row \in Keys /\ v.row = w.row
      BY <2>1, Shape DEF Conflict, LockConflict, SameAddress, Write
    <2> DEFINE S == {k \in Keys : \E w \in need[q] : w.row = k}
    <2>3. S # {}
      <3>1. ASSUME \A w \in need[q] : w.row \notin Keys PROVE FALSE
        <4>1. PICK w \in need[q] : TRUE
          BY <1>1
        <4>2. IsNext(q, w)
          BY <1>1, <3>1, <4>1 DEF IsNext, KeyOps
        <4> QED BY <1>1, <2>2, <3>1, <4>1, <4>2 DEF Blocks
      <3> QED BY <3>1
    <2>4. PICK k \in S : \A j \in S : k <= j
      BY <2>3, FirstKey
    <2>5. PICK w \in need[q] : w.row = k
      BY <2>4
    <2>6. IsNext(q, w)
      BY <1>1, <2>4, <2>5 DEF IsNext, KeyOps
    <2> QED BY <1>1, <2>2, <2>5, <2>6 DEF Blocks
  <1>2. IInv => KeysNeverDeadlock
    <2> SUFFICES ASSUME IInv, NEW q \in Requests, NEW r \in Requests, msg[q].op \in KeyOps, msg[r].op \in KeyOps,
                        Waits(q, r), Waits(r, q)
                 PROVE  FALSE
      BY DEF KeysNeverDeadlock
    <2> HIDE DEF Waits
    <2>1. PICK w \in need[q], v \in held[r] : w.row \in Keys /\ v.row = w.row
      BY <1>1
    <2>2. PICK x \in need[r], y \in held[q] : x.row \in Keys /\ y.row = x.row
      BY <1>1
    <2>3. y.row < w.row /\ v.row < x.row
      BY <2>1, <2>2 DEF IInv, KeyInv
    <2>4. w.row \in Nat /\ x.row \in Nat
      BY <2>1, <2>2, Shape
    <2> QED BY <2>1, <2>2, <2>3, <2>4
  <1> QED BY <1>2, Inductive, PTL
=============================================================================
