----------------------------- MODULE TenantAdmin -----------------------------
(***************************************************************************)
(* The users and API keys of one tenant under concurrent administrators    *)
(* (backend/app/routers/admin.py, with get_current_user of deps.py), and   *)
(* under a start of another instance that seeds them (app/seed_admin.py).  *)
(*                                                                         *)
(* A request is one PostgreSQL transaction at READ COMMITTED: it reads its *)
(* target, decides, and writes in one flush when it commits.  A write      *)
(* waits for the lock of its row and then goes ahead, whatever the row has *)
(* become in the meantime.  The audit_log row that goes with every change  *)
(* names the acting user, and its foreign key shares that user's row.      *)
(***************************************************************************)
EXTENDS Naturals, FiniteSets

CONSTANTS
  Users,     \* users.id
  AddressOf, \* users.email, which no handler changes
  AdminEmail, RemoveEmail, \* the addresses the start-up ensures and deletes
  Keys,      \* api_keys.id, in the order of the primary key
  Requests,  \* bound: requests of administrators; each is sent once
  None

ASSUME Shape ==
  /\ Keys \subseteq Nat
  /\ IsFiniteSet(Users)
  /\ Users \cap Keys = {} /\ None \notin Users \cup Keys
  /\ None \notin {"admin", "member", "active", "revoked", "none", "gone"}
  /\ AdminEmail # RemoveEmail  \* "never delete the users we just seeded"

VARIABLES
  row,         \* the committed row of a user (its role) or of a key
  asAdmin,     \* the users with an access token that says "admin"
  pc,          \* how far the handler of a request is
  msg,         \* what it asks for
  seen,        \* its target, as it has read it
  need,        \* the writes of its flush that wait, ...
  held,        \* ... and those that have the lock of their row
  overlapped   \* history: requests that were not alone

handler == <<pc, msg, seen, need, held>>
vars    == <<row, asAdmin, handler, overlapped>>

-----------------------------------------------------------------------------
Roles == {"admin", "member"}
Rows == Users \cup Keys
UserOps == {"update", "delete"}
KeyOps == {"activate", "revoke", "reinstate", "rotate"}
Inserts == {"invite", "create"}

Addresses == {AddressOf[u] : u \in Users} \cup {AdminEmail}

\* UserUpdateIn has a role, a password (then `role' may be None), or both.  A
\* start-up has a role when SEED_RESET_PASSWORD is on.
Message ==
  [op: {"update"}, actor: Users, target: Users, role: Roles \cup {None}] \cup
  [op: {"delete"}, actor: Users, target: Users, role: {None}] \cup
  [op: {"invite"}, actor: Users, target: Addresses, role: Roles] \cup
  [op: {"boot"}, actor: {None}, target: {AdminEmail}, role: {"admin", None}] \cup
  [op: {"create"}, actor: Users, target: {None}, role: {None}] \cup
  [op: KeyOps, actor: Users, target: Keys, role: {None}]

\* A start-up that has found its user.
Reset == [op: {"boot"}, actor: {None}, target: Users, role: {"admin", None}]

\* `to' is the new value of the row; None leaves it (a password, a share).
Write ==
  [row: Users, mode: {"insert", "share", "update", "delete"}, to: Roles \cup {"gone", None}] \cup
  [row: Keys, mode: {"insert", "update"}, to: {"active", "revoked"}]

Exists(x) == row[x] \notin {"none", "gone"}
Admins == {u \in Users : row[u] = "admin"}
Active == {k \in Keys : row[k] = "active"}
At(address) == {u \in Users : Exists(u) /\ AddressOf[u] = address}
Busy == {r \in Requests : pc[r] \notin {"unsent", "done"}}

TypeOK ==
  /\ row \in [Rows -> Roles \cup {"none", "gone", "active", "revoked"}]
  /\ \A u \in Users : row[u] \in Roles \cup {"none", "gone"}
  /\ \A k \in Keys : row[k] \in {"none", "active", "revoked"}
  /\ asAdmin \subseteq Users
  /\ pc \in [Requests -> {"unsent", "read", "decide", "write", "sweep", "done"}]
  /\ msg \in [Requests -> Message \cup Reset \cup {None}]
  /\ seen \in [Requests -> Roles \cup {"active", "revoked", None}]
  /\ need \in [Requests -> SUBSET Write] /\ held \in [Requests -> SUBSET Write]
  /\ overlapped \subseteq Requests

\* A tenant in use: it has an administrator, and access tokens that were issued
\* before a role was changed are still about.
Init ==
  /\ row \in [Rows -> Roles \cup {"none", "active", "revoked"}]
  /\ \A u \in Users : row[u] \in Roles \cup {"none"}
  /\ \A k \in Keys : row[k] \in {"none", "active", "revoked"}
  /\ Admins # {} /\ \A u \in Users : Cardinality(At(AddressOf[u])) <= 1
  /\ asAdmin \in SUBSET {u \in Users : Exists(u)}
  /\ pc = [r \in Requests |-> "unsent"]
  /\ msg = [r \in Requests |-> None]
  /\ seen = [r \in Requests |-> None]
  /\ need = [r \in Requests |-> {}] /\ held = [r \in Requests |-> {}]
  /\ overlapped = {}

Goto(r, label) == pc' = [pc EXCEPT ![r] = label]
Finish(r) ==
  /\ Goto(r, "done")
  /\ msg' = [msg EXCEPT ![r] = None]
  /\ seen' = [seen EXCEPT ![r] = None]
  /\ need' = [need EXCEPT ![r] = {}]
  /\ held' = [held EXCEPT ![r] = {}]

Overlap(r) ==
  overlapped' = IF Busy = {} THEN overlapped ELSE overlapped \cup Busy \cup {r}

-----------------------------------------------------------------------------
\* login, refresh and register: the access token carries the role of the row.
IssueToken(u) ==
  /\ row[u] = "admin" /\ u \notin asAdmin
  /\ asAdmin' = asAdmin \cup {u}
  /\ UNCHANGED <<row, handler, overlapped>>

\* Fifteen minutes later.  Nothing else takes an access token back.
TokenExpires(u) ==
  /\ u \in asAdmin
  /\ asAdmin' = asAdmin \ {u}
  /\ UNCHANGED <<row, handler, overlapped>>

\* get_current_user and require_admin: the user must have a row, but the role is
\* the token's.  The row it loads is the one session.get returns again when the
\* target is the acting user.
Begin(r, m) ==
  /\ pc[r] = "unsent" /\ m.op # "boot"
  /\ Exists(m.actor) /\ m.actor \in asAdmin
  /\ m.op = "delete" => m.target # m.actor       \* 400 cannot_delete_self
  /\ msg' = [msg EXCEPT ![r] = m]
  /\ IF m.target = m.actor
     THEN seen' = [seen EXCEPT ![r] = row[m.actor]] /\ Goto(r, "decide")
     ELSE UNCHANGED seen /\ Goto(r, IF m.op = "create" THEN "decide" ELSE "read")
  /\ Overlap(r)
  /\ UNCHANGED <<row, asAdmin, need, held>>

\* AUTO_SEED_ADMIN: lifespan runs seed_admin.main while the instance that is
\* being replaced still answers.
Boot(r, m) ==
  /\ pc[r] = "unsent" /\ m.op = "boot"
  /\ msg' = [msg EXCEPT ![r] = m]
  /\ Goto(r, "read")
  /\ Overlap(r)
  /\ UNCHANGED <<row, asAdmin, seen, need, held>>

\* session.get, or 404.
Read(r) ==
  /\ pc[r] = "read" /\ msg[r].op \in KeyOps \cup UserOps
  /\ IF Exists(msg[r].target)
     THEN /\ seen' = [seen EXCEPT ![r] = row[msg[r].target]]
          /\ Goto(r, "decide")
          /\ UNCHANGED <<msg, need, held>>
     ELSE Finish(r)
  /\ UNCHANGED <<row, asAdmin, overlapped>>

\* The SELECT by address: 409 user_exists for an invitation; the user to leave
\* alone or to reset for a start-up.
ReadAddress(r) ==
  /\ pc[r] = "read" /\ msg[r].op \in {"invite", "boot"}
  /\ \/ /\ At(msg[r].target) = {}
        /\ Goto(r, "decide")
        /\ UNCHANGED <<msg, seen, need, held>>
     \/ /\ At(msg[r].target) # {} /\ msg[r].op = "invite"
        /\ Finish(r)
     \/ /\ msg[r].op = "boot"
        /\ \E u \in At(msg[r].target) :
             /\ msg' = [msg EXCEPT ![r].target = u]
             /\ seen' = [seen EXCEPT ![r] = row[u]]
        /\ Goto(r, "decide")
        /\ UNCHANGED <<need, held>>
  /\ UNCHANGED <<row, asAdmin, overlapped>>

-----------------------------------------------------------------------------
(* What each handler writes, from what it has read.                        *)

Unaudited(r) == {} \* fault: audit_log does not refer to users
Audited(r) == {[row |-> msg[r].actor, mode |-> "share", to |-> None]}
Set(x, value) == {[row |-> x, mode |-> "update", to |-> value]}
Insert(x, value) == {[row |-> x, mode |-> "insert", to |-> value]}

\* An id nobody has.
Fresh(S) ==
  {x \in S : row[x] = "none" /\ \A q \in Requests : x \notin {w.row : w \in need[q] \cup held[q]}}

UpdateUser(r, m) ==
  IF m.role = seen[r] THEN {} ELSE Set(m.target, m.role) \cup Audited(r)
Delete(x) == {[row |-> x, mode |-> "delete", to |-> "gone"]}
DeleteUser(r, m) == Delete(m.target) \cup Audited(r)

FreshAt(address) == {u \in Fresh(Users) : AddressOf[u] = address}

EnsurePassword(r, m) == \* fault: a reset leaves the role
  IF seen[r] = None
  THEN {Insert(u, "admin") : u \in FreshAt(m.target)}
  ELSE {IF m.role = None THEN {} ELSE Set(m.target, None)}
\* _ensure_user: a column that has its value already is not written.
Ensure(r, m) ==
  IF seen[r] = None
  THEN {Insert(u, "admin") : u \in FreshAt(m.target)}
  ELSE {CASE m.role = None      -> {}
          [] seen[r] = m.role   -> Set(m.target, None)
          [] OTHER              -> Set(m.target, m.role)}

RevokeKey(r, m) ==
  IF seen[r] = "active" THEN Set(m.target, "revoked") \cup Audited(r) ELSE {}
ReinstateKey(r, m) ==
  IF seen[r] = "revoked" THEN Set(m.target, "active") \cup Audited(r) ELSE {}

OthersRevoked(k) == {o \in Keys : row[o] = "revoked"} \ {k} \* fault: wrong filter
\* Read by a SELECT of its own, after the key.
Others(k) == Active \ {k}
ActivateKey(r, m) ==
  (UNION {Set(o, "revoked") : o \in Others(m.target)})
    \cup (IF seen[r] = "revoked" THEN Set(m.target, "active") ELSE {}) \cup Audited(r)

\* A set of writes for each id an INSERT may get.
Writes(r) ==
  LET m == msg[r] IN
  CASE m.op = "update"    -> {UpdateUser(r, m)}
    [] m.op = "delete"    -> {DeleteUser(r, m)}
    [] m.op = "invite"    -> {Insert(u, m.role) \cup Audited(r) : u \in FreshAt(m.target)}
    [] m.op = "boot"      -> Ensure(r, m)
    [] m.op = "create"    -> {Insert(k, "active") \cup Audited(r) : k \in Fresh(Keys)}
    [] m.op = "rotate"    -> {RevokeKey(r, m) \cup Insert(k, "active") \cup Audited(r) : k \in Fresh(Keys)}
    [] m.op = "revoke"    -> {RevokeKey(r, m)}
    [] m.op = "reinstate" -> {ReinstateKey(r, m)}
    [] m.op = "activate"  -> {ActivateKey(r, m)}

DemotesOnly(r) == msg[r].op = "update" /\ msg[r].role = "member" \* fault: no guard in delete_user
Removes(r) ==
  \/ msg[r].op = "delete"
  \/ /\ msg[r].op = "update"
     /\ msg[r].role = "member"
\* _admin_count counts what is committed.
LastAdmin(r) == Removes(r) /\ seen[r] = "admin" /\ Cardinality(Admins) <= 1

\* 409 last_admin, or the flush begins.
Decide(r) ==
  /\ pc[r] = "decide"
  /\ IF LastAdmin(r)
     THEN Finish(r)
     ELSE \E ws \in Writes(r) :
            /\ need' = [need EXCEPT ![r] = ws]
            /\ Goto(r, "write")
            /\ UNCHANGED <<msg, seen, held>>
  /\ UNCHANGED <<row, asAdmin, overlapped>>

-----------------------------------------------------------------------------
(* The flush.                                                              *)

\* The row locks of PostgreSQL: FOR KEY SHARE, NO KEY UPDATE, UPDATE.
LockConflict(v, w) ==
  /\ v.row = w.row
  /\ v.mode = "share" => w.mode = "delete"
  /\ w.mode = "share" => v.mode = "delete"

\* An address is unique in a tenant: an INSERT waits for a transaction that has
\* inserted or deleted its address.
SameAddress(v, w) ==
  /\ {v.row, w.row} \subseteq Users /\ AddressOf[v.row] = AddressOf[w.row]
  /\ "insert" \in {v.mode, w.mode} /\ {v.mode, w.mode} \subseteq {"insert", "delete"}

Conflict(v, w) == LockConflict(v, w) \/ SameAddress(v, w)

AnyOrder(r, w) == w \in need[r] \* fault: rows are written as they were read
\* One table after the other, rows in the order of the primary key.  In
\* update_user the autoflush of _revoke_sessions comes before the audit row.
IsNext(r, w) ==
  /\ w \in need[r]
  /\ w.row \in Keys => \A v \in need[r] : v.row \in Keys => w.row <= v.row
  /\ msg[r].op = "update" /\ w.mode = "share" => need[r] = {w}

Blocks(q, w) == \E v \in held[q] : Conflict(v, w)
Blocked(r, w) == \E q \in Requests \ {r} : Blocks(q, w)

\* An UPDATE of a row that is gone is a StaleDataError, a reference to one
\* violates the foreign key; a DELETE finds nothing and that is all.  An address
\* that is taken violates the unique key.
Possible(w) ==
  /\ w.mode \in {"update", "share"} => Exists(w.row)
  /\ w.mode = "insert" /\ w.row \in Users => At(AddressOf[w.row]) = {}

Writing(r) == pc[r] \in {"write", "sweep"}

Take(r, w) ==
  /\ Writing(r)
  /\ IsNext(r, w) /\ ~Blocked(r, w) /\ Possible(w)
  /\ need' = [need EXCEPT ![r] = @ \ {w}]
  /\ held' = [held EXCEPT ![r] = @ \cup {w}]
  /\ UNCHANGED <<row, asAdmin, pc, msg, seen, overlapped>>

\* SEED_REMOVE_EMAIL: the DELETE comes after the flush, asks for no role and
\* counts nobody.
Sweep(r) ==
  /\ pc[r] = "write" /\ need[r] = {} /\ msg[r].op = "boot"
  /\ need' = [need EXCEPT ![r] = UNION {Delete(u) : u \in At(RemoveEmail)}]
  /\ Goto(r, "sweep")
  /\ UNCHANGED <<row, asAdmin, msg, seen, held, overlapped>>

\* 500: the row is gone, the deadlock detector has chosen this one, the
\* connection is lost.  What was written is rolled back.
Fails(r) ==
  /\ r \in Busy
  /\ Finish(r)
  /\ UNCHANGED <<row, asAdmin, overlapped>>

Complete(r) ==
  /\ Writing(r) /\ need[r] = {}
  /\ msg[r].op = "boot" => pc[r] = "sweep"

Commit(r) ==
  /\ Complete(r)
  /\ row' = [x \in Rows |->
       IF \E w \in held[r] : w.row = x /\ w.to # None
       THEN (CHOOSE w \in held[r] : w.row = x /\ w.to # None).to ELSE row[x]]
  /\ Finish(r)
  /\ UNCHANGED <<asAdmin, overlapped>>

Next ==
  \/ \E u \in Users : IssueToken(u) \/ TokenExpires(u)
  \/ \E r \in Requests :
       \/ \E m \in Message : Begin(r, m) \/ Boot(r, m)
       \/ Read(r) \/ ReadAddress(r) \/ Decide(r) \/ Sweep(r)
       \/ \E w \in need[r] : Take(r, w)
       \/ Commit(r) \/ Fails(r)

Spec == Init /\ [][Next]_vars

-----------------------------------------------------------------------------
(* Properties that hold.                                                   *)

Commits(r) == Complete(r) /\ row' # row /\ pc'[r] = "done"

\* The start-up that takes an administrator nobody counts: the seeded user has
\* been demoted, and the start-up leaves it as it is.
SweepsLastAdmin(r) ==
  msg[r].op = "boot" /\ msg[r].role = None /\ seen[r] = "member"

\* The tenant loses its last administrator only to requests that overlap: one
\* at a time, "last_admin" protects it, also from an administrator who has been
\* demoted and whose access token does not know it yet.  The one exception is a
\* start-up that removes an address while the seeded user is a member.
LockoutNeedsOverlap ==
  [][Admins # {} /\ Admins' = {} =>
       \E r \in Requests : Commits(r) /\ (r \in overlapped \/ SweepsLastAdmin(r))]_vars

\* A start-up that nothing overlapped leaves a user with the address it ensures,
\* an administrator if it has created or reset it, and none with the address it
\* removes.
BootSettles ==
  [][\A r \in Requests \ overlapped :
       Complete(r) /\ msg[r].op = "boot" /\ row' # row =>
         /\ \E u \in Users : /\ AddressOf[u] = AdminEmail
                             /\ row'[u] = IF SweepsLastAdmin(r) THEN "member" ELSE "admin"
         /\ \A u \in Users : AddressOf[u] = RemoveEmail => row'[u] \in {"none", "gone"}]_vars

\* Who changes something exists when the change takes effect: two users who
\* delete each other do not both succeed, for the audit row of the second
\* refers to a user who is gone.
ActorStillThere ==
  [][\A r \in Requests : Commits(r) /\ msg[r].op # "boot" => Exists(msg[r].actor)]_vars

\* Requests about keys never deadlock, although each locks several rows: they
\* all lock them in one order.
KeysNeverDeadlock ==
  \A q, r \in Requests :
    pc[q] = "write" /\ pc[r] = "write"
      /\ {msg[q].op, msg[r].op} \subseteq KeyOps /\ q # r =>
      ~ /\ \A w \in need[q] : IsNext(q, w) => Blocks(r, w)
        /\ \A w \in need[r] : IsNext(r, w) => Blocks(q, w)
        /\ need[q] # {} /\ need[r] # {}

\* An activation that nothing overlapped leaves its key as the only active one.
ActivatedIsSole ==
  [][\A r \in Requests \ overlapped :
       pc[r] = "write" /\ msg[r].op = "activate" /\ need[r] = {} /\ row' # row =>
         Active' = {msg[r].target}]_vars
=============================================================================
