------------------------------ MODULE Sessions ------------------------------
(***************************************************************************)
(* The sessions and the second factor of one user: login, refresh, logout  *)
(* and 2fa of backend/app/routers/auth.py, with what update_user and       *)
(* delete_user of routers/admin.py do to them.  No statement of these      *)
(* handlers touches the rows of two users, so one user stands for all.     *)
(*                                                                         *)
(* A request is one PostgreSQL transaction at READ COMMITTED.  An UPDATE   *)
(* or DELETE picks its rows when it starts, waits for each that is locked, *)
(* and leaves out those that no longer match.                              *)
(***************************************************************************)
EXTENDS Naturals, FiniteSets

CONSTANTS
  Requests,  \* bound: each is sent once
  AtOnce,    \* bound: requests in flight
  Known,     \* bound: refresh tokens there are at the beginning
  None

Tokens == 1..(Known + Cardinality(Requests)) \* refresh_tokens.id

ASSUME Shape ==
  /\ IsFiniteSet(Requests)
  /\ Known \in Nat /\ AtOnce \in Nat
  /\ None \notin Requests \cup Nat

VARIABLES
  user,    \* the user's row is "there" or "gone"
  secret,  \* users.totp_secret, named after the request that made it
  tok,     \* a refresh token as it is committed
  family,  \* its family_id, named after the first token of the family
  pc,      \* how far the handler of a request is
  msg,     \* what it was asked
  seen,    \* totp_secret as it has read it
  new,     \* the token it has inserted and not committed
  need,    \* the rows its statement has picked and not reached
  rows,    \* the tokens it has written and not committed
  lock,    \* its lock on the user's row
  born,    \* history: the request that issued a token
  with,    \* history: the requests that were in flight with one that is in flight
  twice,   \* history: one token was rotated by two requests at once
  raced,   \* history: the secret was changed by two requests at once
  shown,   \* history: the secrets the user has been shown since it was disabled
  lost     \* history: the secrets that were stored and whose answer was lost

handler == <<pc, msg, seen, new, need, rows, lock, with>>
committed == <<user, secret, tok, family, born, shown, lost>>
vars == <<committed, handler, twice, raced>>

-----------------------------------------------------------------------------
Labels == {"unsent", "read", "get", "rotate", "issue", "lock_user", "pick",
           "write", "pick_again", "write_again", "commit", "answer", "done"}
Busy == {r \in Requests : pc[r] \notin {"unsent", "done"}}

\* update_user with a role or a password, or with both.
Message ==
  [op: {"refresh", "logout"}, token: Tokens] \cup
  [op: {"login", "enroll", "disable", "update", "update_both", "delete"}, token: {None}]

Rows == {t \in Tokens : tok[t] \notin {"none", "gone"}}
Unrevoked == {t \in Tokens : tok[t] \in {"live", "expired"}}
InFamily(f) == {t \in Tokens : family[t] = f}
LiveIn(f) == {t \in InFamily(f) : tok[t] = "live"}

TypeOK ==
  /\ user \in {"there", "gone"}
  /\ secret \in Requests \cup {None} /\ shown \cup lost \subseteq Requests
  /\ tok \in [Tokens -> {"none", "live", "expired", "revoked", "gone"}]
  /\ family \in [Tokens -> Tokens \cup {None}]
  /\ \A t \in Tokens : tok[t] = "none" <=> family[t] = None
  /\ pc \in [Requests -> Labels]
  /\ msg \in [Requests -> Message \cup {None}]
  /\ seen \in [Requests -> Requests \cup {None}]
  /\ new \in [Requests -> Tokens \cup {None}]
  /\ need \in [Requests -> SUBSET Tokens] /\ rows \in [Requests -> SUBSET Tokens]
  /\ lock \in [Requests -> {"none", "share", "update", "delete"}]
  /\ born \in [Tokens -> Requests \cup {None}]
  /\ with \in [Requests -> SUBSET Requests]
  /\ twice \in BOOLEAN /\ raced \in BOOLEAN

\* A user with sessions: each token but the last of a family was rotated.
Init ==
  /\ user = "there" /\ secret = None /\ shown = {} /\ lost = {}
  /\ tok \in [Tokens -> {"none", "live", "revoked"}]
  /\ \A t \in Tokens : tok[t] = "none" <=> t > Known
  /\ family \in [Tokens -> Tokens \cup {None}]
  /\ \A t \in Tokens :
       IF t > Known THEN family[t] = None
       ELSE family[t] \in 1..t /\ family[family[t]] = family[t]
  /\ \A t, u \in 1..Known : t < u /\ family[t] = family[u] => tok[t] = "revoked"
  /\ pc = [r \in Requests |-> "unsent"]
  /\ msg = [r \in Requests |-> None] /\ seen = [r \in Requests |-> None]
  /\ new = [r \in Requests |-> None]
  /\ need = [r \in Requests |-> {}] /\ rows = [r \in Requests |-> {}]
  /\ lock = [r \in Requests |-> "none"]
  /\ born = [t \in Tokens |-> None]
  /\ with = [r \in Requests |-> {}] /\ twice = FALSE /\ raced = FALSE

Goto(r, label) == pc' = [pc EXCEPT ![r] = label]
KeepLocks(r) == \* fault: the session is not closed
  /\ Goto(r, "done")
  /\ seen' = [seen EXCEPT ![r] = None]
  /\ new' = [new EXCEPT ![r] = None]
  /\ msg' = [msg EXCEPT ![r] = None]
  /\ with' = [with EXCEPT ![r] = {}]
  /\ UNCHANGED <<need, rows, lock>>
\* The transaction is over, one way or the other.
Release(r) ==
  /\ seen' = [seen EXCEPT ![r] = None]
  /\ new' = [new EXCEPT ![r] = None]
  /\ need' = [need EXCEPT ![r] = {}]
  /\ rows' = [rows EXCEPT ![r] = {}]
  /\ lock' = [lock EXCEPT ![r] = "none"]
\* And with it the request.
Finish(r) ==
  /\ Goto(r, "done")
  /\ Release(r)
  /\ msg' = [msg EXCEPT ![r] = None]
  /\ with' = [with EXCEPT ![r] = {}]

-----------------------------------------------------------------------------
(* What a handler reads.                                                   *)

ChangesSecret(m) == m.op \in {"enroll", "disable"}

\* refresh and logout come with a cookie that was issued once.  Which of the
\* requests comes next makes no difference.
Send(r, m) ==
  /\ pc[r] = "unsent" /\ r = CHOOSE q \in Requests : pc[q] = "unsent"
  /\ Cardinality(Busy) < AtOnce
  /\ m.token # None => tok[m.token] # "none"
  /\ msg' = [msg EXCEPT ![r] = m]
  /\ Goto(r, IF m.op = "logout" THEN "pick" ELSE "read")
  /\ with' = [q \in Requests |->
       IF q = r THEN Busy ELSE IF q \in Busy THEN with[q] \cup {r} ELSE with[q]]
  /\ twice' = (twice \/ (m.op = "refresh" /\ \E q \in Busy : msg[q] = m))
  /\ raced' = (raced \/ (ChangesSecret(m) /\ \E q \in Busy : pc[q] # "answer" /\ ChangesSecret(msg[q])))
  /\ UNCHANGED <<committed, seen, new, need, rows, lock>>

UsableUnlessExpired(t) == tok[t] \in {"live", "revoked"} \* fault: revoked_at is not looked at
Usable(t) == tok[t] = "live"

\* refresh: 401, or the reuse of a token that was rotated, or a rotation.
ReadToken(r) ==
  LET t == msg[r].token
  IN  /\ pc[r] = "read" /\ msg[r].op = "refresh"
      /\ IF t \notin Rows
         THEN Finish(r)
         ELSE /\ Goto(r, IF Usable(t) THEN "get" ELSE "pick")
              /\ UNCHANGED <<msg, seen, new, need, rows, lock, with>>
      /\ UNCHANGED <<committed, twice, raced>>

GetUser(r) ==
  /\ pc[r] = "get"
  /\ IF user = "gone"
     THEN Finish(r)
     ELSE Goto(r, "rotate") /\ UNCHANGED <<msg, seen, new, need, rows, lock, with>>
  /\ UNCHANGED <<committed, twice, raced>>

\* The others load the user.  enroll_2fa refuses a second secret, disable_2fa
\* has nothing to do without one, and both login and disable_2fa ask for a code
\* of the secret, which takes one that was shown.
ReadUser(r) ==
  /\ pc[r] = "read" /\ msg[r].op # "refresh"
  /\ IF \/ user = "gone"
        \/ msg[r].op = "enroll" /\ secret # None
        \/ msg[r].op = "disable" /\ secret = None
        \/ msg[r].op \in {"login", "disable"} /\ secret \notin shown \cup {None}
     THEN Finish(r)
     ELSE /\ seen' = [seen EXCEPT ![r] = secret]
          /\ Goto(r, "lock_user")
          /\ UNCHANGED <<msg, new, need, rows, lock, with>>
  /\ UNCHANGED <<committed, twice, raced>>

-----------------------------------------------------------------------------
(* What it writes.                                                         *)

Unused(t) == tok[t] = "none" /\ \A q \in Requests : new[q] # t
NextToken == CHOOSE t \in Tokens : Unused(t) \* an id nobody has

\* Conflicts of FOR KEY SHARE, NO KEY UPDATE and UPDATE.
Conflict(a, b) ==
  \/ "delete" \in {a, b} /\ "none" \notin {a, b}
  \/ a = "update" /\ b = "update"
Mode(r) == IF msg[r].op = "delete" THEN "delete" ELSE "update"
UserBusy(r, mode) == \E q \in Requests \ {r} : Conflict(mode, lock[q])

ForUpdate == "update" \* fault: the user is loaded with FOR UPDATE
IssueMode == "share"

KeepOld(r) == \* fault: the old token stays good
  /\ pc[r] = "rotate"
  /\ Goto(r, "issue")
  /\ UNCHANGED <<msg, seen, new, need, rows, lock, with>>
  /\ UNCHANGED <<committed, twice, raced>>

\* The flush of refresh: first the UPDATE of the old token by its primary key
\* (StaleDataError when it is gone) ...
Rotate(r) ==
  LET t == msg[r].token
  IN  /\ pc[r] = "rotate"
      /\ \A q \in Requests \ {r} : t \notin rows[q]
      /\ IF t \notin Rows
         THEN Finish(r)
         ELSE /\ rows' = [rows EXCEPT ![r] = {t}]
              /\ Goto(r, "issue")
              /\ UNCHANGED <<msg, seen, new, need, lock, with>>
      /\ UNCHANGED <<committed, twice, raced>>

\* ... then the INSERT of the new one, whose foreign key shares the user's row.
Issue(r) ==
  /\ pc[r] = "issue"
  /\ ~UserBusy(r, IssueMode)
  /\ IF user = "gone"
     THEN Finish(r)
     ELSE /\ new' = [new EXCEPT ![r] = NextToken]
          /\ lock' = [lock EXCEPT ![r] = IssueMode]
          /\ Goto(r, "commit")
          /\ UNCHANGED <<msg, seen, need, rows, with>>
  /\ UNCHANGED <<committed, twice, raced>>

\* UPDATE or DELETE of the user's row.  login inserts its token in the same
\* flush; update_user and delete_user go on to the tokens.
LockUser(r) ==
  LET op == msg[r].op
  IN  /\ pc[r] = "lock_user"
      /\ ~UserBusy(r, Mode(r))
      /\ IF user = "gone"
         THEN Finish(r)
         ELSE /\ lock' = [lock EXCEPT ![r] = Mode(r)]
              /\ new' = IF op = "login" THEN [new EXCEPT ![r] = NextToken] ELSE new
              /\ Goto(r, IF op \in {"login", "enroll", "disable"} THEN "commit" ELSE "pick")
              /\ UNCHANGED <<msg, seen, need, rows, with>>
      /\ UNCHANGED <<committed, twice, raced>>

OnlyThisToken(r) == Rows \cap {msg[r].token} \* fault: the family is left alone
FamilyOf(r) == Rows \cap InFamily(family[msg[r].token])

\* The WHERE of the statement that revokes tokens, or of the cascade.
Scope(r) ==
  CASE msg[r].op = "refresh" -> FamilyOf(r)
    [] msg[r].op = "logout"  -> Rows \cap {msg[r].token}
    [] msg[r].op = "delete"  -> Rows
    [] OTHER                 -> Unrevoked \ rows[r]

PickRows(r, from, to) ==
  /\ pc[r] = from
  /\ need' = [need EXCEPT ![r] = Scope(r)]
  /\ Goto(r, to)
  /\ UNCHANGED <<committed, msg, seen, new, rows, lock, with, twice, raced>>
Pick(r) == PickRows(r, "pick", "write") \/ PickRows(r, "pick_again", "write_again")

\* The next row: in which order a scan meets them is not defined.
WriteRow(r, t) ==
  /\ pc[r] \in {"write", "write_again"}
  /\ t \in need[r]
  /\ \A q \in Requests \ {r} : t \notin rows[q]
  /\ need' = [need EXCEPT ![r] = @ \ {t}]
  /\ rows' = [rows EXCEPT ![r] = @ \cup ({t} \cap Scope(r))]
  /\ UNCHANGED <<committed, pc, msg, seen, new, lock, with, twice, raced>>

\* With a role and a password _revoke_sessions runs twice.
Written(r) ==
  /\ pc[r] \in {"write", "write_again"}
  /\ need[r] = {}
  /\ Goto(r, IF pc[r] = "write" /\ msg[r].op = "update_both" THEN "pick_again" ELSE "commit")
  /\ UNCHANGED <<committed, msg, seen, new, need, rows, lock, with, twice, raced>>

WholeRow(r) == \* fault: the UPDATE sets every column to what was read
  IF msg[r].op = "enroll" THEN r
  ELSE IF msg[r].op \in {"login", "update"} THEN seen[r]
  ELSE IF msg[r].op = "disable" THEN None ELSE secret
\* An UPDATE sets the columns that were assigned.
NewSecret(r) ==
  CASE msg[r].op = "enroll"  -> r
    [] msg[r].op = "disable" -> None
    [] OTHER                 -> secret

NoCascade(r) == "revoked" \* fault: the tokens of a deleted user are kept
Outcome(r) == IF msg[r].op = "delete" THEN "gone" ELSE "revoked"

Commit(r) ==
  /\ pc[r] = "commit"
  /\ tok' = [t \in Tokens |->
       IF t = new[r] THEN "live" ELSE IF t \in rows[r] THEN Outcome(r) ELSE tok[t]]
  /\ family' = [t \in Tokens |->
       IF t # new[r] THEN family[t]
       ELSE IF msg[r].op = "refresh" THEN family[msg[r].token] ELSE t]
  /\ born' = [t \in Tokens |-> IF t = new[r] THEN r ELSE born[t]]
  /\ user' = IF msg[r].op = "delete" THEN "gone" ELSE user
  /\ secret' = NewSecret(r)
  /\ shown' = IF msg[r].op = "disable" THEN {} ELSE shown
  /\ IF msg[r].op = "enroll"
     THEN Goto(r, "answer") /\ Release(r) /\ UNCHANGED <<msg, with>>
     ELSE Finish(r)
  /\ UNCHANGED <<lost, twice, raced>>

\* enroll_2fa answers with the secret it has stored.
Show(r) ==
  /\ pc[r] = "answer"
  /\ shown' = shown \cup {r}
  /\ Finish(r)
  /\ UNCHANGED <<user, secret, tok, family, born, lost, twice, raced>>

\* 401, 403, 409 or 500: a wrong password or code, the last administrator, a
\* lost connection, a deadlock, the end of the process.  What was written and not
\* committed is rolled back; what was committed stays, and its answer is lost.
Fails(r) ==
  /\ r \in Busy
  /\ lost' = IF pc[r] = "answer" THEN lost \cup {r} ELSE lost
  /\ Finish(r)
  /\ UNCHANGED <<user, secret, tok, family, born, shown, twice, raced>>

\* expires_at passes.
Expire(t) ==
  /\ tok[t] = "live"
  /\ tok' = [tok EXCEPT ![t] = "expired"]
  /\ UNCHANGED <<user, secret, family, born, shown, lost, handler, twice, raced>>

Step(r) ==
  \/ ReadToken(r) \/ GetUser(r) \/ ReadUser(r)
  \/ Rotate(r) \/ Issue(r) \/ LockUser(r)
  \/ Pick(r) \/ (\E t \in need[r] : WriteRow(r, t)) \/ Written(r)
  \/ Commit(r) \/ Show(r)

Next ==
  \/ \E r \in Requests : (\E m \in Message : Send(r, m)) \/ Step(r) \/ Fails(r)
  \/ \E t \in Tokens : Expire(t)

Spec == Init /\ [][Next]_vars

\* r waits for a row that q has locked.
WaitsFor(r, q) ==
  \/ pc[r] = "rotate" /\ msg[r].token \in rows[q]
  \/ pc[r] = "issue" /\ Conflict(IssueMode, lock[q])
  \/ pc[r] = "lock_user" /\ Conflict(Mode(r), lock[q])
  \/ pc[r] \in {"write", "write_again"} /\ need[r] \cap rows[q] # {}

Stuck(S) == \A r \in S : \E q \in S \ {r} : WaitsFor(r, q)

\* PostgreSQL ends one of several transactions that wait for each other.
BreakDeadlock == \E S \in SUBSET Busy : \E r \in S : Stuck(S) /\ Fails(r)

\* A handler goes on when its statement can.
FairSpec == Spec /\ WF_vars(BreakDeadlock) /\ \A r \in Requests : WF_vars(Step(r))

-----------------------------------------------------------------------------
(* Properties.                                                             *)

Rotating(r) ==
  msg[r].op = "refresh" /\ (pc[r] \in {"get", "rotate", "issue"} \/ new[r] # None)

\* A session that has ended does not come back: a family without a live token,
\* which no rotation in flight has found alive, stays without one.
Over(f) == LiveIn(f) = {} /\ \A r \in Busy : Rotating(r) => family[msg[r].token] # f
EndedStaysEnded ==
  [][\A f \in Tokens : InFamily(f) # {} /\ Over(f) => Over(f)']_vars

\* auth.py: "revoke the old token, issue a new one within the same family".  A
\* family has one live token, unless one token was rotated by two requests at
\* once, as two tabs of a browser do.
OneLivePerFamily ==
  \A t, u \in Tokens :
    tok[t] = "live" /\ tok[u] = "live" /\ family[t] = family[u] => t = u \/ twice

\* _revoke_sessions forces a user to log in again, and so does the reuse of a
\* token for its family: what is alive afterwards was issued by a login or a
\* rotation that was in flight with it.
SurvivorsWereInFlight ==
  [][\A r \in Requests :
       pc[r] = "commit" /\ new[r] = None /\ pc'[r] = "done" /\ tok' # tok =>
         \A t \in Tokens :
           /\ tok'[t] = "live"
           /\ \/ msg[r].op \in {"update", "update_both"}
              \/ msg[r].op = "refresh" /\ family[t] = family[msg[r].token]
           => born[t] \in with[r]]_vars

\* admin.py: "refresh_tokens cascade via FK".  No request in flight leaves a
\* session of a user who is deleted.
DeletedHasNoSession == user = "gone" => Rows = {}

\* Requests wait for each other in a circle only if the user is being deleted or
\* a token was reused: logins, rotations, logouts, enrolments and resets never do.
DeadlockNeedsDeletionOrReuse ==
  \A S \in SUBSET Busy :
    S # {} /\ Stuck(S) =>
      \E r \in S : msg[r].op = "delete" \/ (pc[r] = "write" /\ msg[r].op = "refresh")

\* The secret that login asks codes of is the one the user was shown, and there
\* is none he was shown in vain, whatever logins and resets were in flight with
\* the enrolment.  But enroll_2fa commits before it answers, so there may be a
\* secret nobody has seen: its answer is under way, or was lost.  Two requests
\* that change the secret at once may leave a user with the other's.
SecretIsTheOneShown ==
  \/ shown = {secret} \ {None}
  \/ shown = {} /\ (secret \in lost \/ \E r \in Busy : secret = r /\ pc[r] = "answer")
  \/ raced

\* Every request ends, also when requests wait for each other.
EveryRequestEnds == \A r \in Requests : r \in Busy ~> pc[r] = "done"
=============================================================================
