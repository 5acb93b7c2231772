--------------------------- MODULE SessionsProofs ---------------------------
(***************************************************************************)
(* Sessions for any number of requests and tokens: one session per family, *)
(* what ended stays ended, a deleted user has none, and the second factor  *)
(* is the one that was shown, unless its answer was lost.                  *)
(*                                                                         *)
(* The argument: a request that has inserted a token holds a lock that     *)
(* excludes the deletion of the user, and a rotation in flight is the only *)
(* one of its family, on the only token of it that is alive.               *)
(***************************************************************************)
EXTENDS Sessions, FiniteSetTheorems, TLAPS

Reading   == {"read", "get", "rotate", "lock_user"}
Revoking  == {"pick", "write", "pick_again", "write_again"}

\* What the label of a request says of its transaction.
Label(r) ==
  /\ r \in Busy => msg[r] \in Message
  /\ pc[r] = "read" => msg[r].op # "logout"
  /\ pc[r] \in Reading \cup {"unsent", "issue", "answer", "done"} => lock[r] = "none" /\ need[r] = {}
  /\ pc[r] \in Reading \cup {"unsent", "answer", "done"} => rows[r] = {}
  /\ pc[r] \in {"get", "rotate", "issue"} => msg[r].op = "refresh"
  /\ pc[r] = "issue" => rows[r] = {msg[r].token}
  /\ pc[r] = "lock_user" => msg[r].op \notin {"refresh", "logout"}
  /\ pc[r] = "answer" => msg[r].op = "enroll"
  /\ pc[r] \in Revoking => msg[r].op \in {"refresh", "logout", "update", "update_both", "delete"}
  /\ pc[r] \in {"pick_again", "write_again"} => msg[r].op = "update_both"
  /\ pc[r] \in Revoking \cup {"commit"} /\ msg[r].op = "delete" => lock[r] = "delete"
  /\ new[r] # None => /\ pc[r] = "commit"
                      /\ \/ msg[r].op = "login" /\ lock[r] = "update"
                         \/ msg[r].op = "refresh" /\ lock[r] = "share" /\ msg[r].token \in rows[r]
LabelInv == \A r \in Requests : Label(r)

\* What a request names, picks or writes is there, what it inserts is not yet.
UsedInv ==
  /\ \A t \in Tokens : family[t] # None => family[family[t]] = family[t]
  /\ \A r \in Busy : msg[r].token # None => tok[msg[r].token] # "none"
  /\ \A r \in Requests : \A t \in need[r] \cup rows[r] : tok[t] # "none"

NewInv ==
  /\ \A r \in Requests : new[r] # None => tok[new[r]] = "none"
  /\ \A q, r \in Requests : new[q] = new[r] /\ new[q] # None => q = r

\* Every token but the first ones was made by a request of its own.
BornInv ==
  /\ \A t \in Tokens : tok[t] # "none" /\ t > Known => born[t] # None
  /\ \A t \in Tokens : born[t] # None => pc[born[t]] = "done"
  /\ \A t, u \in Tokens : born[t] = born[u] /\ born[t] # None => t = u

TokenInv == UsedInv /\ NewInv /\ BornInv

-----------------------------------------------------------------------------
(* There is a token for every request that issues one.                     *)

LEMMA Supply ==
  ASSUME TypeOK, LabelInv, TokenInv, NEW r \in Requests, pc[r] # "done", new[r] = None
  PROVE  NextToken \in Tokens /\ Unused(NextToken)
  <1> DEFINE N == Cardinality(Requests)
             S == (Known + 1)..(Known + N)
             Maker(t) == IF tok[t] # "none" THEN born[t] ELSE CHOOSE q \in Requests : new[q] = t
             f == [t \in S |-> Maker(t)]
  <1>1. N \in Nat /\ IsFiniteSet(Requests)
    BY Shape, FS_CardinalityType
  <1>2. S \subseteq Tokens
    BY <1>1, Shape DEF Tokens
  <1>3. ASSUME \A t \in Tokens : ~Unused(t) PROVE FALSE
    <2>1. ASSUME NEW t \in S
          PROVE  /\ Maker(t) \in Requests \ {r}
                 /\ tok[t] # "none" => pc[Maker(t)] = "done" /\ born[t] = Maker(t) /\ born[t] # None
                 /\ tok[t] = "none" => pc[Maker(t)] # "done" /\ new[Maker(t)] = t /\ new[Maker(t)] # None
      <3>1. t \in Tokens /\ t > Known /\ t # None
        BY <1>1, <1>2, Shape
      <3>2. CASE tok[t] # "none"
        BY <3>1, <3>2 DEF TypeOK, TokenInv, BornInv, NewInv
      <3>3. CASE tok[t] = "none"
        <4>1. \E q \in Requests : new[q] = t
          BY <1>3, <3>1, <3>3 DEF Unused
        <4>2. Maker(t) \in Requests /\ new[Maker(t)] = t
          BY <4>1, <3>3
        <4> QED BY <4>2, <3>1, <3>3 DEF LabelInv, Label
      <3> QED BY <3>2, <3>3
    <2> HIDE DEF Maker
    <2>2. f \in Injection(S, Requests \ {r})
      <3>1. f \in [S -> Requests \ {r}]
        BY <2>1
      <3>2. ASSUME NEW t \in S, NEW u \in S, f[t] = f[u] PROVE t = u
        <4>1. Maker(t) = Maker(u)
          BY <3>2
        <4> QED BY <4>1, <2>1, <1>2 DEF TokenInv, BornInv
      <3> QED BY <3>1, <3>2 DEF Injection, IsInjective
    <2>3. IsFiniteSet(Requests \ {r}) /\ Cardinality(Requests \ {r}) = N - 1
      BY <1>1, FS_RemoveElement
    <2>4. Cardinality(S) <= N - 1
      BY <2>2, <2>3, FS_Injection
    <2>5. Cardinality(S) = N
      BY <1>1, Shape, FS_Interval
    <2> QED BY <2>4, <2>5, <1>1
  <1> QED BY <1>3 DEF NextToken

-----------------------------------------------------------------------------
LEMMA InitInv == Init => TypeOK /\ LabelInv /\ TokenInv
  <1> SUFFICES ASSUME Init PROVE TypeOK /\ LabelInv /\ TokenInv
    OBVIOUS
  <1> USE Shape DEF Init
  <1>1. \A t \in Tokens : t \in Nat /\ t # None /\ (t > Known \/ t \in 1..Known)
    BY FS_CardinalityType DEF Tokens
  <1>2. TypeOK
    <2>1. \A t \in Tokens : tok[t] = "none" <=> family[t] = None
      <3>1. ASSUME NEW t \in Tokens, t > Known PROVE tok[t] = "none" /\ family[t] = None
        BY <3>1
      <3>2. ASSUME NEW t \in Tokens, ~(t > Known) PROVE tok[t] # "none" /\ family[t] \in Nat
        BY <3>2, <1>1
      <3> QED BY <3>1, <3>2
    <2>2. pc \in [Requests -> Labels] /\ lock \in [Requests -> {"none", "share", "update", "delete"}]
      BY DEF Labels
    <2> QED BY <2>1, <2>2 DEF TypeOK
  <1>3. LabelInv
    BY DEF LabelInv, Label, Reading, Revoking, Busy
  <1>4. TokenInv
    <2>1. \A t \in Tokens : family[t] # None => family[family[t]] = family[t]
      BY <1>1
    <2> QED BY <1>1, <2>1 DEF TokenInv, UsedInv, NewInv, BornInv, Busy
  <1> QED BY <1>2, <1>3, <1>4

LEMMA TypeNext == TypeOK /\ LabelInv /\ TokenInv /\ [Next]_vars => TypeOK'
  <1> SUFFICES ASSUME TypeOK, LabelInv, TokenInv, [Next]_vars PROVE TypeOK'
    OBVIOUS
  <1>f. ASSUME NEW r \in Requests, Finish(r), UNCHANGED <<user, secret, tok, family, born, twice, raced>>,
               shown' \cup lost' \subseteq Requests
        PROVE  TypeOK'
    <2>1. /\ pc' \in [Requests -> Labels]
          /\ msg' \in [Requests -> Message \cup {None}]
          /\ with' \in [Requests -> SUBSET Requests]
      BY <1>f DEF TypeOK, Finish, Goto, Labels
    <2>2. Release(r)
      BY <1>f DEF Finish
    <2>3. /\ seen' \in [Requests -> Requests \cup {None}]
          /\ new' \in [Requests -> Tokens \cup {None}]
      BY <2>2 DEF TypeOK, Release
    <2>4. /\ need' \in [Requests -> SUBSET Tokens]
          /\ rows' \in [Requests -> SUBSET Tokens]
          /\ lock' \in [Requests -> {"none", "share", "update", "delete"}]
      BY <2>2 DEF TypeOK, Release
    <2> QED BY <1>f, <2>1, <2>3, <2>4 DEF TypeOK
  <1>g. ASSUME NEW r \in Requests, Finish(r), UNCHANGED <<committed, twice, raced>> PROVE TypeOK'
    BY <1>f, <1>g DEF committed, TypeOK
  <1> USE DEF TypeOK, handler, Goto, Labels
  <1>0. \A t \in Tokens : t # None
    BY Shape, FS_CardinalityType DEF Tokens
  <1>1. ASSUME NEW r \in Requests, NEW m \in Message, Send(r, m) PROVE TypeOK'
    BY <1>1 DEF Send, Busy, committed
  <1>2. ASSUME NEW r \in Requests, ReadToken(r) PROVE TypeOK'
    <2>1. CASE msg[r].token \notin Rows
      BY <1>2, <2>1, <1>g DEF ReadToken
    <2>2. CASE msg[r].token \in Rows
      BY <1>2, <2>2 DEF ReadToken, committed
    <2> QED BY <2>1, <2>2
  <1>3. ASSUME NEW r \in Requests, GetUser(r) PROVE TypeOK'
    <2>1. CASE user = "gone"
      BY <1>3, <2>1, <1>g DEF GetUser
    <2>2. CASE user # "gone"
      BY <1>3, <2>2 DEF GetUser, committed
    <2> QED BY <2>1, <2>2
  <1>4. ASSUME NEW r \in Requests, ReadUser(r) PROVE TypeOK'
    <2>1. CASE Finish(r)
      BY <1>4, <2>1, <1>g DEF ReadUser
    <2>2. CASE ~Finish(r)
      BY <1>4, <2>2 DEF ReadUser, committed
    <2> QED BY <2>1, <2>2
  <1>5. ASSUME NEW r \in Requests, Rotate(r) PROVE TypeOK'
    <2>1. CASE msg[r].token \notin Rows
      BY <1>5, <2>1, <1>g DEF Rotate
    <2>2. CASE msg[r].token \in Rows
      <3>1. msg[r].token \in Tokens
        BY <2>2 DEF Rows
      <3>2. rows' = [rows EXCEPT ![r] = {msg[r].token}]
        BY <1>5, <2>2 DEF Rotate
      <3>3. rows' \in [Requests -> SUBSET Tokens]
        BY <3>1, <3>2
      <3> QED BY <1>5, <2>2, <3>3 DEF Rotate, committed
    <2> QED BY <2>1, <2>2
  <1>6. ASSUME NEW r \in Requests, Issue(r) PROVE TypeOK'
    <2>1. NextToken \in Tokens
      BY <1>6, Supply DEF Issue, LabelInv, Label
    <2>2. CASE user = "gone"
      BY <2>2, <1>6, <1>g DEF Issue
    <2>3. CASE user # "gone"
      BY <2>1, <2>3, <1>6 DEF Issue, IssueMode, committed
    <2> QED BY <2>2, <2>3
  <1>7. ASSUME NEW r \in Requests, LockUser(r) PROVE TypeOK'
    <2>1. NextToken \in Tokens
      BY <1>7, Supply DEF LockUser, LabelInv, Label
    <2>2. CASE user = "gone"
      BY <2>2, <1>7, <1>g DEF LockUser
    <2>3. CASE user # "gone"
      <3>1. /\ lock' = [lock EXCEPT ![r] = Mode(r)]
            /\ new' = new \/ new' = [new EXCEPT ![r] = NextToken]
            /\ pc' = [pc EXCEPT ![r] = "commit"] \/ pc' = [pc EXCEPT ![r] = "pick"]
            /\ UNCHANGED <<user, secret, tok, family, born, shown, lost, msg, seen, need, rows, with, twice, raced>>
        BY <2>3, <1>7 DEF LockUser, committed
      <3>2. Mode(r) \in {"update", "delete"}
        BY DEF Mode
      <3>3. /\ lock' \in [Requests -> {"none", "share", "update", "delete"}]
            /\ new' \in [Requests -> Tokens \cup {None}]
            /\ pc' \in [Requests -> Labels]
        BY <2>1, <3>1, <3>2
      <3> QED BY <3>1, <3>3
    <2> QED BY <2>2, <2>3
  <1>8. ASSUME NEW r \in Requests, Pick(r) PROVE TypeOK'
    <2>1. Scope(r) \subseteq Tokens
      BY DEF Scope, FamilyOf, InFamily, Rows, Unrevoked
    <2> QED BY <2>1, <1>8 DEF Pick, PickRows, committed
  <1>9. ASSUME NEW r \in Requests, NEW t \in need[r], WriteRow(r, t) PROVE TypeOK'
    BY <1>9 DEF WriteRow, committed
  <1>10. ASSUME NEW r \in Requests, Written(r) PROVE TypeOK'
    BY <1>10 DEF Written, committed
  <1>11. ASSUME NEW r \in Requests, Commit(r) PROVE TypeOK'
    <2>1. msg[r] \in Message
      BY <1>11 DEF Commit, LabelInv, Label, Busy
    <2>2. new[r] # None /\ msg[r].op = "refresh" => family[msg[r].token] \in Tokens
      BY <2>1, <1>11 DEF TokenInv, UsedInv, LabelInv, Label, Message, Commit, Busy
    <2>3. \A t \in rows[r] : t # new[r] => tok[t] # "none"
      BY DEF TokenInv, UsedInv
    <2>a. /\ pc' \in [Requests -> Labels]
          /\ msg' \in [Requests -> Message \cup {None}]
          /\ with' \in [Requests -> SUBSET Requests]
      <3>1. CASE msg[r].op = "enroll"
        BY <3>1, <1>11 DEF Commit, Finish
      <3>2. CASE msg[r].op # "enroll"
        BY <3>2, <1>11 DEF Commit, Finish
      <3> QED BY <3>1, <3>2
    <2>b. Release(r)
      BY <1>11 DEF Commit, Finish
    <2>4. /\ seen' \in [Requests -> Requests \cup {None}]
          /\ new' \in [Requests -> Tokens \cup {None}]
          /\ need' \in [Requests -> SUBSET Tokens]
          /\ rows' \in [Requests -> SUBSET Tokens]
          /\ lock' \in [Requests -> {"none", "share", "update", "delete"}]
      BY <2>b DEF Release
    <2>5. /\ user' \in {"there", "gone"}
          /\ secret' \in Requests \cup {None}
          /\ shown' \cup lost' \subseteq Requests
          /\ UNCHANGED <<twice, raced>>
      BY <1>11 DEF Commit, NewSecret
    <2>6. tok' \in [Tokens -> {"none", "live", "expired", "revoked", "gone"}]
      BY <1>11 DEF Commit, Outcome
    <2>7. /\ family' \in [Tokens -> Tokens \cup {None}]
          /\ born' \in [Tokens -> Requests \cup {None}]
      BY <2>2, <1>0, <1>11 DEF Commit
    <2>8. \A t \in Tokens : tok'[t] = "none" <=> family'[t] = None
      <3> SUFFICES ASSUME NEW t \in Tokens PROVE tok'[t] = "none" <=> family'[t] = None
        OBVIOUS
      <3>1. CASE t = new[r]
        BY <2>2, <3>1, <1>0, <1>11 DEF Commit
      <3>2. CASE t # new[r]
        BY <2>3, <3>2, <1>11 DEF Commit, Outcome
      <3> QED BY <3>1, <3>2
    <2> QED BY <2>a, <2>4, <2>5, <2>6, <2>7, <2>8
  <1>12. ASSUME NEW r \in Requests, Fails(r) PROVE TypeOK'
    BY <1>12, <1>f DEF Fails
  <1>s. ASSUME NEW r \in Requests, Show(r) PROVE TypeOK'
    BY <1>s, <1>f DEF Show
  <1>13. ASSUME NEW t \in Tokens, Expire(t) PROVE TypeOK'
    BY <1>13 DEF Expire
  <1>14. CASE UNCHANGED vars
    BY <1>14 DEF vars, committed
  <1> QED BY <1>1, <1>2, <1>3, <1>4, <1>5, <1>6, <1>7, <1>8, <1>9, <1>10, <1>11, <1>12, <1>13, <1>14, <1>s
          DEF Next, Step

LEMMA LabelNext == TypeOK /\ LabelInv /\ [Next]_vars => LabelInv'
  <1> SUFFICES ASSUME TypeOK, LabelInv, [Next]_vars, NEW q \in Requests PROVE Label(q)'
    BY DEF LabelInv
  <1> USE DEF TypeOK, LabelInv, Label, handler, committed, Finish, Release, Goto, Busy, Labels, Reading, Revoking
  <1>1. ASSUME NEW r \in Requests, NEW m \in Message, Send(r, m) PROVE Label(q)'
    BY <1>1 DEF Send, Message
  <1>2. ASSUME NEW r \in Requests, ReadToken(r) PROVE Label(q)'
    BY <1>2 DEF ReadToken
  <1>3. ASSUME NEW r \in Requests, GetUser(r) PROVE Label(q)'
    BY <1>3 DEF GetUser
  <1>4. ASSUME NEW r \in Requests, ReadUser(r) PROVE Label(q)'
    BY <1>4 DEF ReadUser
  <1>5. ASSUME NEW r \in Requests, Rotate(r) PROVE Label(q)'
    BY <1>5 DEF Rotate, Rows
  <1>6. ASSUME NEW r \in Requests, Issue(r) PROVE Label(q)'
    BY <1>6 DEF Issue, IssueMode
  <1>7. ASSUME NEW r \in Requests, LockUser(r) PROVE Label(q)'
    BY <1>7 DEF LockUser, Mode, Message
  <1>8. ASSUME NEW r \in Requests, Pick(r) PROVE Label(q)'
    BY <1>8 DEF Pick, PickRows
  <1>9. ASSUME NEW r \in Requests, NEW t \in need[r], WriteRow(r, t) PROVE Label(q)'
    BY <1>9 DEF WriteRow
  <1>10. ASSUME NEW r \in Requests, Written(r) PROVE Label(q)'
    BY <1>10 DEF Written
  <1>11. ASSUME NEW r \in Requests, Commit(r) PROVE Label(q)'
    BY <1>11 DEF Commit
  <1>12. ASSUME NEW r \in Requests, Fails(r) PROVE Label(q)'
    BY <1>12 DEF Fails
  <1>s. ASSUME NEW r \in Requests, Show(r) PROVE Label(q)'
    BY <1>s DEF Show
  <1>13. ASSUME NEW t \in Tokens, Expire(t) PROVE Label(q)'
    BY <1>13 DEF Expire
  <1>14. CASE UNCHANGED vars
    BY <1>14 DEF vars
  <1> QED BY <1>1, <1>2, <1>3, <1>4, <1>5, <1>6, <1>7, <1>8, <1>9, <1>10, <1>11, <1>12, <1>13, <1>14, <1>s
          DEF Next, Step

LEMMA UsedNext == TypeOK /\ LabelInv /\ TokenInv /\ [Next]_vars => UsedInv'
  <1> SUFFICES ASSUME TypeOK, LabelInv, TokenInv, [Next]_vars PROVE UsedInv'
    OBVIOUS
  <1> USE DEF TypeOK, UsedInv, TokenInv, handler, committed, Finish, Release, Goto, Busy, Labels
  <1>1. ASSUME NEW r \in Requests, NEW m \in Message, Send(r, m) PROVE UsedInv'
    BY <1>1 DEF Send, Message
  <1>2. ASSUME NEW r \in Requests, ReadToken(r) PROVE UsedInv'
    <2>1. CASE msg[r].token \notin Rows
      BY <1>2, <2>1 DEF ReadToken
    <2>2. CASE ~(msg[r].token \notin Rows)
      BY <1>2, <2>2 DEF ReadToken
    <2> QED BY <2>1, <2>2
  <1>3. ASSUME NEW r \in Requests, GetUser(r) PROVE UsedInv'
    <2>1. CASE user = "gone"
      BY <1>3, <2>1 DEF GetUser
    <2>2. CASE ~(user = "gone")
      BY <1>3, <2>2 DEF GetUser
    <2> QED BY <2>1, <2>2
  <1>4. ASSUME NEW r \in Requests, ReadUser(r) PROVE UsedInv'
    <2>1. CASE Finish(r)
      BY <1>4, <2>1 DEF ReadUser
    <2>2. CASE ~Finish(r)
      BY <1>4, <2>2 DEF ReadUser
    <2> QED BY <2>1, <2>2
  <1>5. ASSUME NEW r \in Requests, Rotate(r) PROVE UsedInv'
    <2>1. CASE msg[r].token \notin Rows
      BY <1>5, <2>1 DEF Rotate
    <2>2. CASE msg[r].token \in Rows
      BY <1>5, <2>2 DEF Rotate, Rows
    <2> QED BY <2>1, <2>2
  <1>6. ASSUME NEW r \in Requests, Issue(r) PROVE UsedInv'
    <2>1. CASE user = "gone"
      BY <1>6, <2>1 DEF Issue, IssueMode
    <2>2. CASE user # "gone"
      BY <1>6, <2>2 DEF Issue, IssueMode
    <2> QED BY <2>1, <2>2
  <1>7. ASSUME NEW r \in Requests, LockUser(r) PROVE UsedInv'
    <2>1. CASE user = "gone"
      BY <1>7, <2>1 DEF LockUser, Mode
    <2>2. CASE user # "gone"
      BY <1>7, <2>2 DEF LockUser, Mode
    <2> QED BY <2>1, <2>2
  <1>8. ASSUME NEW r \in Requests, Pick(r) PROVE UsedInv'
    <2>1. \A t \in Scope(r) : t \in Tokens /\ tok[t] # "none"
      BY DEF Scope, FamilyOf, InFamily, Rows, Unrevoked
    <2> QED BY <2>1, <1>8 DEF Pick, PickRows
  <1>9. ASSUME NEW r \in Requests, NEW t \in need[r], WriteRow(r, t) PROVE UsedInv'
    BY <1>9 DEF WriteRow
  <1>10. ASSUME NEW r \in Requests, Written(r) PROVE UsedInv'
    BY <1>10 DEF Written
  <1>11. ASSUME NEW r \in Requests, Commit(r) PROVE UsedInv'
    <2>2. \A t \in Tokens : t # None
      BY Shape, FS_CardinalityType DEF Tokens
    <2>1. /\ msg[r] \in Message /\ pc[r] = "commit"
          /\ \A t \in Tokens : tok[t] # "none" => tok'[t] # "none" /\ family'[t] = family[t]
      <3>1. \A t \in Tokens : tok[t] # "none" => t # new[r]
        BY <2>2 DEF NewInv
      <3> QED BY <1>11, <3>1 DEF Commit, LabelInv, Label, Outcome
    <2>3. new[r] # None /\ msg[r].op = "refresh" => msg[r].token \in Tokens /\ tok[msg[r].token] # "none"
      BY <2>1, <2>2, <1>11 DEF Message, LabelInv, Label
    <2>4. \A t \in Tokens : family'[t] # None => family'[family'[t]] = family'[t]
      <3>1. CASE new[r] = None
        BY <3>1, <1>11, <2>2 DEF Commit
      <3>2. CASE new[r] # None /\ msg[r].op = "refresh"
        BY <3>2, <1>11, <2>1, <2>2, <2>3 DEF Commit, NewInv
      <3>3. CASE new[r] # None /\ msg[r].op # "refresh"
        BY <3>3, <1>11, <2>1, <2>2 DEF Commit, NewInv
      <3> QED BY <3>1, <3>2, <3>3
    <2>5. \A q \in Requests : q # r => /\ pc'[q] = pc[q] /\ msg'[q] = msg[q]
                                      /\ need'[q] = need[q] /\ rows'[q] = rows[q]
      BY <1>11 DEF Commit
    <2>6. /\ need'[r] = {} /\ rows'[r] = {}
          /\ pc'[r] = "done" \/ (pc'[r] = "answer" /\ msg'[r] = msg[r] /\ r \in Busy)
      BY <1>11 DEF Commit
    <2>7. \A q \in Busy : msg[q].token # None => msg[q].token \in Tokens
      BY DEF LabelInv, Label, Message
    <2> QED BY <2>1, <2>4, <2>5, <2>6, <2>7
  <1>12. ASSUME NEW r \in Requests, Fails(r) PROVE UsedInv'
    BY <1>12 DEF Fails
  <1>s. ASSUME NEW r \in Requests, Show(r) PROVE UsedInv'
    BY <1>s DEF Show
  <1>13. ASSUME NEW t \in Tokens, Expire(t) PROVE UsedInv'
    BY <1>13 DEF Expire
  <1>14. CASE UNCHANGED vars
    BY <1>14 DEF vars
  <1> QED BY <1>1, <1>2, <1>3, <1>4, <1>5, <1>6, <1>7, <1>8, <1>9, <1>10, <1>11, <1>12, <1>13, <1>14, <1>s
          DEF Next, Step

LEMMA NewFrame ==
  ASSUME TypeOK, NewInv, NEW r \in Requests,
         UNCHANGED tok, \A q \in Requests : q # r => new'[q] = new[q],
         new'[r] \in {None, new[r]} \/ Unused(new'[r])
  PROVE  NewInv'
  <1>1. \A q \in Requests : new'[q] # None => tok[new'[q]] = "none"
    BY DEF NewInv, Unused
  <1>2. ASSUME NEW p \in Requests, NEW q \in Requests, new'[p] = new'[q], new'[p] # None
        PROVE  p = q
    BY <1>2 DEF NewInv, Unused
  <1> QED BY <1>1, <1>2 DEF NewInv

LEMMA NewNext == TypeOK /\ LabelInv /\ TokenInv /\ [Next]_vars => NewInv'
  <1> SUFFICES ASSUME TypeOK, LabelInv, TokenInv, [Next]_vars PROVE NewInv'
    OBVIOUS
  <1> USE DEF TypeOK, TokenInv, handler, committed, Finish, Release, Goto
  <1>1. ASSUME NEW r \in Requests, NEW m \in Message, Send(r, m) PROVE NewInv'
    BY <1>1, NewFrame DEF Send, Message
  <1>2. ASSUME NEW r \in Requests, ReadToken(r) PROVE NewInv'
    BY <1>2, NewFrame DEF ReadToken
  <1>3. ASSUME NEW r \in Requests, GetUser(r) PROVE NewInv'
    BY <1>3, NewFrame DEF GetUser
  <1>4. ASSUME NEW r \in Requests, ReadUser(r) PROVE NewInv'
    BY <1>4, NewFrame DEF ReadUser
  <1>5. ASSUME NEW r \in Requests, Rotate(r) PROVE NewInv'
    BY <1>5, NewFrame DEF Rotate, Rows
  <1>6. ASSUME NEW r \in Requests, Issue(r) PROVE NewInv'
    <2>1. Unused(NextToken)
      BY <1>6, Supply DEF Issue, LabelInv, Label
    <2> QED BY <2>1, <1>6, NewFrame DEF Issue
  <1>7. ASSUME NEW r \in Requests, LockUser(r) PROVE NewInv'
    <2>1. Unused(NextToken)
      BY <1>7, Supply DEF LockUser, LabelInv, Label
    <2> QED BY <2>1, <1>7, NewFrame DEF LockUser
  <1>8. ASSUME NEW r \in Requests, Pick(r) PROVE NewInv'
    BY <1>8, NewFrame DEF Pick, PickRows
  <1>9. ASSUME NEW r \in Requests, NEW t \in need[r], WriteRow(r, t) PROVE NewInv'
    BY <1>9, NewFrame DEF WriteRow
  <1>10. ASSUME NEW r \in Requests, Written(r) PROVE NewInv'
    BY <1>10, NewFrame DEF Written
  <1>11. ASSUME NEW r \in Requests, Commit(r) PROVE NewInv'
    <2>1. \A q \in Requests : new'[q] # None => q # r /\ new'[q] = new[q]
      BY <1>11 DEF Commit
    <2>2. \A q \in Requests : q # r /\ new[q] # None => new[q] # new[r]
      BY DEF NewInv
    <2>3. \A t \in Tokens : t # new[r] /\ tok[t] = "none" => tok'[t] = "none"
      BY <1>11 DEF Commit, UsedInv
    <2> QED BY <2>1, <2>2, <2>3 DEF NewInv
  <1>12. ASSUME NEW r \in Requests, Fails(r) PROVE NewInv'
    BY <1>12, NewFrame DEF Fails
  <1>s. ASSUME NEW r \in Requests, Show(r) PROVE NewInv'
    BY <1>s, NewFrame DEF Show
  <1>13. ASSUME NEW t \in Tokens, Expire(t) PROVE NewInv'
    BY <1>13 DEF Expire, NewInv
  <1>14. CASE UNCHANGED vars
    BY <1>14 DEF vars, NewInv
  <1> QED BY <1>1, <1>2, <1>3, <1>4, <1>5, <1>6, <1>7, <1>8, <1>9, <1>10, <1>11, <1>12, <1>13, <1>14, <1>s
          DEF Next, Step

LEMMA BornNext == TypeOK /\ LabelInv /\ TokenInv /\ [Next]_vars => BornInv'
  <1> SUFFICES ASSUME TypeOK, LabelInv, TokenInv, [Next]_vars PROVE BornInv'
    OBVIOUS
  <1> USE DEF TypeOK, BornInv, TokenInv, handler, committed, Finish, Release, Goto, Busy, Labels
  <1>1. ASSUME NEW r \in Requests, NEW m \in Message, Send(r, m) PROVE BornInv'
    BY <1>1 DEF Send, Message
  <1>2. ASSUME NEW r \in Requests, ReadToken(r) PROVE BornInv'
    BY <1>2 DEF ReadToken
  <1>3. ASSUME NEW r \in Requests, GetUser(r) PROVE BornInv'
    BY <1>3 DEF GetUser
  <1>4. ASSUME NEW r \in Requests, ReadUser(r) PROVE BornInv'
    BY <1>4 DEF ReadUser
  <1>5. ASSUME NEW r \in Requests, Rotate(r) PROVE BornInv'
    BY <1>5 DEF Rotate, Rows
  <1>6. ASSUME NEW r \in Requests, Issue(r) PROVE BornInv'
    BY <1>6 DEF Issue, IssueMode
  <1>7. ASSUME NEW r \in Requests, LockUser(r) PROVE BornInv'
    BY <1>7 DEF LockUser, Mode
  <1>8. ASSUME NEW r \in Requests, Pick(r) PROVE BornInv'
    BY <1>8 DEF Pick, PickRows
  <1>9. ASSUME NEW r \in Requests, NEW t \in need[r], WriteRow(r, t) PROVE BornInv'
    BY <1>9 DEF WriteRow
  <1>10. ASSUME NEW r \in Requests, Written(r) PROVE BornInv'
    BY <1>10 DEF Written
  <1>11. ASSUME NEW r \in Requests, Commit(r) PROVE BornInv'
    <2>0. \A t \in Tokens : born[t] # r
      BY <1>11, Shape DEF Commit
    <2>1. \A t \in Tokens : born'[t] = IF t = new[r] THEN r ELSE born[t]
      BY <1>11 DEF Commit
    <2>3. \A t \in Tokens : t # new[r] /\ tok'[t] # "none" => tok[t] # "none"
      BY <1>11 DEF Commit, UsedInv
    <2>4. \A q \in Requests : pc[q] = "done" => pc'[q] = "done"
      BY <1>11 DEF Commit
    <2>5. r # None /\ (new[r] # None => pc'[r] = "done")
      BY <1>11, Shape DEF Commit, LabelInv, Label
    <2>a. \A t \in Tokens : t = new[r] => new[r] # None
      BY Shape, FS_CardinalityType DEF Tokens
    <2>6. \A t, u \in Tokens : born'[t] = born'[u] /\ born'[t] # None => t = u
      BY <2>0, <2>1
    <2>7. \A t \in Tokens : born'[t] # None => pc'[born'[t]] = "done"
      BY <2>1, <2>4, <2>5, <2>a
    <2>8. \A t \in Tokens : tok'[t] # "none" /\ t > Known => born'[t] # None
      BY <2>1, <2>3, <2>5
    <2> QED BY <2>6, <2>7, <2>8
  <1>12. ASSUME NEW r \in Requests, Fails(r) PROVE BornInv'
    BY <1>12 DEF Fails
  <1>s. ASSUME NEW r \in Requests, Show(r) PROVE BornInv'
    BY <1>s DEF Show
  <1>13. ASSUME NEW t \in Tokens, Expire(t) PROVE BornInv'
    BY <1>13 DEF Expire
  <1>14. CASE UNCHANGED vars
    BY <1>14 DEF vars
  <1> QED BY <1>1, <1>2, <1>3, <1>4, <1>5, <1>6, <1>7, <1>8, <1>9, <1>10, <1>11, <1>12, <1>13, <1>14, <1>s
          DEF Next, Step

\* The row locks on tokens: what a request has written is there, and no other
\* request has written it.
RowsInv ==
  /\ \A r \in Requests : rows[r] \subseteq Rows
  /\ \A q, r \in Requests : q # r => rows[q] \cap rows[r] = {}

LEMMA RowsNext == TypeOK /\ LabelInv /\ TokenInv /\ RowsInv /\ [Next]_vars => RowsInv'
  <1> SUFFICES ASSUME TypeOK, LabelInv, TokenInv, RowsInv, [Next]_vars PROVE RowsInv'
    OBVIOUS
  <1> USE DEF TypeOK, RowsInv, Rows, handler, committed, Finish, Release
  <1>1. ASSUME NEW r \in Requests, NEW m \in Message, Send(r, m) PROVE RowsInv'
    BY <1>1 DEF Send, Message
  <1>2. ASSUME NEW r \in Requests, ReadToken(r) PROVE RowsInv'
    <2>1. CASE msg[r].token \notin Rows
      BY <1>2, <2>1 DEF ReadToken
    <2>2. CASE msg[r].token \in Rows
      BY <1>2, <2>2 DEF ReadToken
    <2> QED BY <2>1, <2>2
  <1>3. ASSUME NEW r \in Requests, GetUser(r) PROVE RowsInv'
    <2>1. CASE user = "gone"
      <3>1. UNCHANGED tok /\ \A q \in Requests : rows'[q] = IF q = r THEN {} ELSE rows[q]
        BY <1>3, <2>1 DEF GetUser
      <3> QED BY <3>1
    <2>2. CASE user # "gone"
      BY <1>3, <2>2 DEF GetUser
    <2> QED BY <2>1, <2>2
  <1>4. ASSUME NEW r \in Requests, ReadUser(r) PROVE RowsInv'
    BY <1>4 DEF ReadUser
  <1>5. ASSUME NEW r \in Requests, Rotate(r) PROVE RowsInv'
    <2>1. CASE msg[r].token \in Rows
      <3>1. \A q \in Requests : rows'[q] = IF q = r THEN {msg[r].token} ELSE rows[q]
        BY <1>5, <2>1 DEF Rotate, Rows
      <3>2. Rows' = Rows /\ \A q \in Requests \ {r} : msg[r].token \notin rows[q]
        BY <1>5, <2>1 DEF Rotate
      <3> QED BY <3>1, <3>2, <2>1
    <2>2. CASE msg[r].token \notin Rows
      BY <1>5, <2>2 DEF Rotate, Rows
    <2> QED BY <2>1, <2>2
  <1>6. ASSUME NEW r \in Requests, Issue(r) PROVE RowsInv'
    <2>1. UNCHANGED tok /\ \A q \in Requests : rows'[q] = IF q = r THEN rows'[r] ELSE rows[q]
      BY <1>6 DEF Issue
    <2>2. rows'[r] \in {{}, rows[r]}
      BY <1>6 DEF Issue
    <2> QED BY <2>1, <2>2 DEF Rows
  <1>7. ASSUME NEW r \in Requests, LockUser(r) PROVE RowsInv'
    <2>1. CASE user = "gone"
      BY <1>7, <2>1 DEF LockUser, Mode
    <2>2. CASE user # "gone"
      BY <1>7, <2>2 DEF LockUser, Mode
    <2> QED BY <2>1, <2>2
  <1>8. ASSUME NEW r \in Requests, Pick(r) PROVE RowsInv'
    BY <1>8 DEF Pick, PickRows
  <1>9. ASSUME NEW r \in Requests, NEW t \in need[r], WriteRow(r, t) PROVE RowsInv'
    <2>1. Scope(r) \subseteq Rows
      BY DEF Scope, FamilyOf, InFamily, Unrevoked
    <2> QED BY <2>1, <1>9 DEF WriteRow
  <1>10. ASSUME NEW r \in Requests, Written(r) PROVE RowsInv'
    BY <1>10 DEF Written
  <1>11. ASSUME NEW r \in Requests, Commit(r) PROVE RowsInv'
    <2>1. \A q \in Requests : rows'[q] = IF q = r THEN {} ELSE rows[q]
      BY <1>11 DEF Commit
    <2>2. \A t \in Rows \ rows[r] : t \in Rows'
      BY <1>11 DEF Commit
    <2> QED BY <2>1, <2>2
  <1>12. ASSUME NEW r \in Requests, Fails(r) PROVE RowsInv'
    BY <1>12 DEF Fails
  <1>s. ASSUME NEW r \in Requests, Show(r) PROVE RowsInv'
    BY <1>s DEF Show
  <1>13. ASSUME NEW t \in Tokens, Expire(t) PROVE RowsInv'
    BY <1>13 DEF Expire
  <1>14. CASE UNCHANGED vars
    BY <1>14 DEF vars
  <1> QED BY <1>1, <1>2, <1>3, <1>4, <1>5, <1>6, <1>7, <1>8, <1>9, <1>10, <1>11, <1>12, <1>13, <1>14, <1>s
          DEF Next, Step

-----------------------------------------------------------------------------
(* The user's row.                                                         *)

LockInv ==
  /\ \A q, r \in Requests : q # r => ~Conflict(lock[q], lock[r])
  /\ \A r \in Requests : lock[r] # "none" => user = "there"

\* The cascade has met every token.
CascadeInv ==
  \A r \in Busy : msg[r].op = "delete" =>
    /\ pc[r] = "write" => Rows \subseteq need[r] \cup rows[r]
    /\ pc[r] = "commit" => Rows \subseteq rows[r]

LEMMA LockNext == TypeOK /\ LabelInv /\ LockInv /\ [Next]_vars => LockInv'
  <1> SUFFICES ASSUME TypeOK, LabelInv, LockInv, [Next]_vars PROVE LockInv'
    OBVIOUS
  <1> USE DEF TypeOK, LockInv, Conflict, handler, committed, Finish, Release
  <1>1. ASSUME NEW r \in Requests, NEW m \in Message, Send(r, m) PROVE LockInv'
    BY <1>1 DEF Send, Message
  <1>2. ASSUME NEW r \in Requests, ReadToken(r) PROVE LockInv'
    BY <1>2 DEF ReadToken
  <1>3. ASSUME NEW r \in Requests, GetUser(r) PROVE LockInv'
    BY <1>3 DEF GetUser
  <1>4. ASSUME NEW r \in Requests, ReadUser(r) PROVE LockInv'
    BY <1>4 DEF ReadUser
  <1>5. ASSUME NEW r \in Requests, Rotate(r) PROVE LockInv'
    BY <1>5 DEF Rotate, Rows
  <1>6. ASSUME NEW r \in Requests, Issue(r) PROVE LockInv'
    BY <1>6 DEF Issue, IssueMode, UserBusy
  <1>7. ASSUME NEW r \in Requests, LockUser(r) PROVE LockInv'
    BY <1>7 DEF LockUser, Mode, UserBusy
  <1>8. ASSUME NEW r \in Requests, Pick(r) PROVE LockInv'
    BY <1>8 DEF Pick, PickRows
  <1>9. ASSUME NEW r \in Requests, NEW t \in need[r], WriteRow(r, t) PROVE LockInv'
    BY <1>9 DEF WriteRow
  <1>10. ASSUME NEW r \in Requests, Written(r) PROVE LockInv'
    BY <1>10 DEF Written
  <1>11. ASSUME NEW r \in Requests, Commit(r) PROVE LockInv'
    <2>1. msg[r].op = "delete" => \A q \in Requests \ {r} : lock[q] = "none"
      BY <1>11 DEF Commit, LabelInv, Label, Revoking
    <2> QED BY <2>1, <1>11 DEF Commit
  <1>12. ASSUME NEW r \in Requests, Fails(r) PROVE LockInv'
    BY <1>12 DEF Fails
  <1>s. ASSUME NEW r \in Requests, Show(r) PROVE LockInv'
    BY <1>s DEF Show
  <1>13. ASSUME NEW t \in Tokens, Expire(t) PROVE LockInv'
    BY <1>13 DEF Expire
  <1>14. CASE UNCHANGED vars
    BY <1>14 DEF vars
  <1> QED BY <1>1, <1>2, <1>3, <1>4, <1>5, <1>6, <1>7, <1>8, <1>9, <1>10, <1>11, <1>12, <1>13, <1>14, <1>s
          DEF Next, Step

LEMMA CascadeNext ==
  TypeOK /\ LabelInv /\ TokenInv /\ RowsInv /\ LockInv /\ CascadeInv /\ DeletedHasNoSession /\ [Next]_vars
    => (CascadeInv /\ DeletedHasNoSession)'
  <1> SUFFICES ASSUME TypeOK, LabelInv, TokenInv, RowsInv, LockInv, CascadeInv, DeletedHasNoSession, [Next]_vars
               PROVE  CascadeInv' /\ DeletedHasNoSession'
    OBVIOUS
  <1> USE DEF TypeOK, CascadeInv, DeletedHasNoSession, Rows, handler, committed, Finish, Release, Goto, Busy, Labels
  <1>1. ASSUME NEW r \in Requests, NEW m \in Message, Send(r, m) PROVE CascadeInv' /\ DeletedHasNoSession'
    BY <1>1 DEF Send, Message
  <1>2. ASSUME NEW r \in Requests, ReadToken(r) PROVE CascadeInv' /\ DeletedHasNoSession'
    BY <1>2 DEF ReadToken
  <1>3. ASSUME NEW r \in Requests, GetUser(r) PROVE CascadeInv' /\ DeletedHasNoSession'
    BY <1>3 DEF GetUser
  <1>4. ASSUME NEW r \in Requests, ReadUser(r) PROVE CascadeInv' /\ DeletedHasNoSession'
    BY <1>4 DEF ReadUser
  <1>5. ASSUME NEW r \in Requests, Rotate(r) PROVE CascadeInv' /\ DeletedHasNoSession'
    BY <1>5 DEF Rotate, Rows
  <1>6. ASSUME NEW r \in Requests, Issue(r) PROVE CascadeInv' /\ DeletedHasNoSession'
    <2>1. CASE user = "gone"
      BY <2>1, <1>6 DEF Issue
    <2>2. CASE user # "gone"
      BY <2>2, <1>6 DEF Issue, LabelInv, Label
    <2> QED BY <2>1, <2>2
  <1>7. ASSUME NEW r \in Requests, LockUser(r) PROVE CascadeInv' /\ DeletedHasNoSession'
    BY <1>7 DEF LockUser, Mode
  <1>8. ASSUME NEW r \in Requests, Pick(r) PROVE CascadeInv' /\ DeletedHasNoSession'
    BY <1>8 DEF Pick, PickRows, Scope, LabelInv, Label
  <1>9. ASSUME NEW r \in Requests, NEW t \in need[r], WriteRow(r, t) PROVE CascadeInv' /\ DeletedHasNoSession'
    BY <1>9 DEF WriteRow, Scope
  <1>10. ASSUME NEW r \in Requests, Written(r) PROVE CascadeInv' /\ DeletedHasNoSession'
    BY <1>10 DEF Written, LabelInv, Label
  <1>11. ASSUME NEW r \in Requests, Commit(r) PROVE CascadeInv' /\ DeletedHasNoSession'
    <2>1. Rows' \subseteq Rows \cup {new[r]}
      BY <1>11 DEF Commit, RowsInv
    <2>2. new[r] # None => user = "there" /\ msg[r].op # "delete"
      BY <1>11 DEF LockInv, LabelInv, Label
    <2>3. \A t \in Tokens : t # None
      BY Shape, FS_CardinalityType DEF Tokens
    <2>4. ASSUME NEW q \in Requests, q # r, pc[q] \in {"write", "commit"}, msg[q].op = "delete"
          PROVE  new[r] = None
      BY <2>4 DEF LabelInv, Label, LockInv, Conflict, Revoking
    <2>5. CascadeInv'
      <3>1. ASSUME NEW q \in Requests, q # r
            PROVE  /\ pc'[q] = pc[q] /\ msg'[q] = msg[q]
                   /\ need'[q] = need[q] /\ rows'[q] = rows[q]
        BY <3>1, <1>11 DEF Commit
      <3>2. pc'[r] \in {"answer", "done"}
        BY <1>11 DEF Commit
      <3> QED BY <3>1, <3>2, <2>1, <2>3, <2>4
    <2>6. DeletedHasNoSession'
      <3>1. CASE msg[r].op = "delete"
        BY <3>1, <1>11, <2>2, <2>3 DEF Commit, Outcome
      <3>2. CASE msg[r].op # "delete"
        BY <3>2, <1>11, <2>1, <2>2, <2>3 DEF Commit
      <3> QED BY <3>1, <3>2
    <2> QED BY <2>5, <2>6
  <1>12. ASSUME NEW r \in Requests, Fails(r) PROVE CascadeInv' /\ DeletedHasNoSession'
    BY <1>12 DEF Fails
  <1>s. ASSUME NEW r \in Requests, Show(r) PROVE CascadeInv' /\ DeletedHasNoSession'
    BY <1>s DEF Show
  <1>13. ASSUME NEW t \in Tokens, Expire(t) PROVE CascadeInv' /\ DeletedHasNoSession'
    BY <1>13 DEF Expire
  <1>14. CASE UNCHANGED vars
    BY <1>14 DEF vars
  <1> QED BY <1>1, <1>2, <1>3, <1>4, <1>5, <1>6, <1>7, <1>8, <1>9, <1>10, <1>11, <1>12, <1>13, <1>14, <1>s
          DEF Next, Step

-----------------------------------------------------------------------------
(* Families.                                                               *)

\* `twice' tells when two rotations of one token were in flight.
TwiceInv ==
  \A q, r \in Busy :
    q # r /\ msg[q].op = "refresh" /\ msg[r].op = "refresh" /\ msg[q].token = msg[r].token => twice

\* A rotation in flight works on the only live token of its family, and is the
\* only rotation of it.
RotationInv ==
  ~twice =>
    /\ \A r \in Busy : Rotating(r) => LiveIn(family[msg[r].token]) \subseteq {msg[r].token}
    /\ \A q, r \in Busy :
         q # r /\ Rotating(q) /\ Rotating(r) => family[msg[q].token] # family[msg[r].token]

LEMMA TwiceNext == TypeOK /\ LabelInv /\ TwiceInv /\ [Next]_vars => TwiceInv'
  <1> SUFFICES ASSUME TypeOK, LabelInv, TwiceInv, [Next]_vars PROVE TwiceInv'
    OBVIOUS
  <1> USE DEF TypeOK, TwiceInv, handler, committed, Finish, Release, Goto, Busy, Labels
  <1>1. ASSUME NEW r \in Requests, NEW m \in Message, Send(r, m) PROVE TwiceInv'
    <2>1. \A q \in Requests : q # r => pc'[q] = pc[q] /\ msg'[q] = msg[q]
      BY <1>1 DEF Send
    <2>2. pc[r] = "unsent" /\ msg'[r] = m
      BY <1>1 DEF Send
    <2>3. \A q \in Busy : m.op = "refresh" /\ msg[q].op = "refresh" /\ msg[q].token = m.token => twice'
      <3>1. ASSUME NEW q \in Busy, m.op = "refresh", msg[q].op = "refresh", msg[q].token = m.token
            PROVE  msg[q] = m
        <4>1. msg[q] \in Message
          BY DEF LabelInv, Label
        <4> QED BY <3>1, <4>1 DEF Message
      <3> QED BY <3>1, <1>1 DEF Send
    <2>4. twice => twice'
      BY <1>1 DEF Send
    <2> QED BY <2>1, <2>2, <2>3, <2>4
  <1>2. ASSUME NEW r \in Requests, ReadToken(r) PROVE TwiceInv'
    <2>1. \A q \in Requests : pc'[q] \notin {"unsent", "done"} => q \in Busy /\ msg'[q] = msg[q]
      BY <1>2 DEF ReadToken
    <2>2. UNCHANGED twice
      BY <1>2 DEF ReadToken
    <2> QED BY <2>1, <2>2
  <1>3. ASSUME NEW r \in Requests, GetUser(r) PROVE TwiceInv'
    <2>1. \A q \in Requests : pc'[q] \notin {"unsent", "done"} => q \in Busy /\ msg'[q] = msg[q]
      BY <1>3 DEF GetUser
    <2>2. UNCHANGED twice
      BY <1>3 DEF GetUser
    <2> QED BY <2>1, <2>2
  <1>4. ASSUME NEW r \in Requests, ReadUser(r) PROVE TwiceInv'
    <2>1. \A q \in Requests : pc'[q] \notin {"unsent", "done"} => q \in Busy /\ msg'[q] = msg[q]
      BY <1>4 DEF ReadUser
    <2>2. UNCHANGED twice
      BY <1>4 DEF ReadUser
    <2> QED BY <2>1, <2>2
  <1>5. ASSUME NEW r \in Requests, Rotate(r) PROVE TwiceInv'
    <2>1. \A q \in Requests : pc'[q] \notin {"unsent", "done"} => q \in Busy /\ msg'[q] = msg[q]
      BY <1>5 DEF Rotate
    <2>2. UNCHANGED twice
      BY <1>5 DEF Rotate
    <2> QED BY <2>1, <2>2
  <1>6. ASSUME NEW r \in Requests, Issue(r) PROVE TwiceInv'
    <2>1. \A q \in Requests : pc'[q] \notin {"unsent", "done"} => q \in Busy /\ msg'[q] = msg[q]
      BY <1>6 DEF Issue
    <2>2. UNCHANGED twice
      BY <1>6 DEF Issue
    <2> QED BY <2>1, <2>2
  <1>7. ASSUME NEW r \in Requests, LockUser(r) PROVE TwiceInv'
    <2>1. \A q \in Requests : pc'[q] \notin {"unsent", "done"} => q \in Busy /\ msg'[q] = msg[q]
      BY <1>7 DEF LockUser
    <2>2. UNCHANGED twice
      BY <1>7 DEF LockUser
    <2> QED BY <2>1, <2>2
  <1>8. ASSUME NEW r \in Requests, Pick(r) PROVE TwiceInv'
    <2>1. \A q \in Requests : pc'[q] \notin {"unsent", "done"} => q \in Busy /\ msg'[q] = msg[q]
      BY <1>8 DEF Pick, PickRows
    <2>2. UNCHANGED twice
      BY <1>8 DEF Pick, PickRows
    <2> QED BY <2>1, <2>2
  <1>9. ASSUME NEW r \in Requests, NEW t \in need[r], WriteRow(r, t) PROVE TwiceInv'
    <2>1. \A q \in Requests : pc'[q] \notin {"unsent", "done"} => q \in Busy /\ msg'[q] = msg[q]
      BY <1>9 DEF WriteRow
    <2>2. UNCHANGED twice
      BY <1>9 DEF WriteRow
    <2> QED BY <2>1, <2>2
  <1>10. ASSUME NEW r \in Requests, Written(r) PROVE TwiceInv'
    <2>1. \A q \in Requests : pc'[q] \notin {"unsent", "done"} => q \in Busy /\ msg'[q] = msg[q]
      BY <1>10 DEF Written
    <2>2. UNCHANGED twice
      BY <1>10 DEF Written
    <2> QED BY <2>1, <2>2
  <1>11. ASSUME NEW r \in Requests, Commit(r) PROVE TwiceInv'
    <2>1. \A q \in Requests : pc'[q] \notin {"unsent", "done"} => q \in Busy /\ msg'[q] = msg[q]
      BY <1>11 DEF Commit
    <2>2. UNCHANGED twice
      BY <1>11 DEF Commit
    <2> QED BY <2>1, <2>2
  <1>12. ASSUME NEW r \in Requests, Fails(r) PROVE TwiceInv'
    <2>1. \A q \in Requests : pc'[q] \notin {"unsent", "done"} => q \in Busy /\ msg'[q] = msg[q]
      BY <1>12 DEF Fails
    <2>2. UNCHANGED twice
      BY <1>12 DEF Fails
    <2> QED BY <2>1, <2>2
  <1>s. ASSUME NEW r \in Requests, Show(r) PROVE TwiceInv'
    <2>1. \A q \in Requests : pc'[q] \notin {"unsent", "done"} => q \in Busy /\ msg'[q] = msg[q]
      BY <1>s DEF Show
    <2>2. UNCHANGED twice
      BY <1>s DEF Show
    <2> QED BY <2>1, <2>2
  <1>13. ASSUME NEW t \in Tokens, Expire(t) PROVE TwiceInv'
    BY <1>13 DEF Expire
  <1>14. CASE UNCHANGED vars
    BY <1>14 DEF vars
  <1> QED BY <1>1, <1>2, <1>3, <1>4, <1>5, <1>6, <1>7, <1>8, <1>9, <1>10, <1>11, <1>12, <1>13, <1>14, <1>s
          DEF Next, Step

\* A rotation begins by finding its token alive.
LEMMA RotationBegins ==
  ASSUME TypeOK, LabelInv, [Next]_vars, NEW q \in Requests, q \in Busy', Rotating(q)'
  PROVE  /\ q \in Busy /\ msg'[q] = msg[q] /\ msg[q].op = "refresh"
         /\ msg[q].token \in Tokens
         /\ Rotating(q) \/ (tok[msg[q].token] = "live" /\ UNCHANGED <<tok, family, twice>>)
  <1> USE DEF TypeOK, LabelInv, Label, Busy, Rotating, handler, committed, Finish, Release, Goto, Labels
  <1> DEFINE Goal == /\ q \in Busy /\ msg'[q] = msg[q] /\ msg[q].op = "refresh"
                     /\ Rotating(q) \/ (tok[msg[q].token] = "live" /\ UNCHANGED <<tok, family, twice>>)
  <1>1. ASSUME NEW r \in Requests, NEW m \in Message, Send(r, m) PROVE Goal
    BY <1>1 DEF Send, Message
  <1>2. ASSUME NEW r \in Requests, ReadToken(r) PROVE Goal
    BY <1>2 DEF ReadToken, Usable
  <1>3. ASSUME NEW r \in Requests, GetUser(r) PROVE Goal
    BY <1>3 DEF GetUser
  <1>4. ASSUME NEW r \in Requests, ReadUser(r) PROVE Goal
    BY <1>4 DEF ReadUser
  <1>5. ASSUME NEW r \in Requests, Rotate(r) PROVE Goal
    BY <1>5 DEF Rotate
  <1>6. ASSUME NEW r \in Requests, Issue(r) PROVE Goal
    BY <1>6 DEF Issue
  <1>7. ASSUME NEW r \in Requests, LockUser(r) PROVE Goal
    BY <1>7 DEF LockUser
  <1>8. ASSUME NEW r \in Requests, Pick(r) PROVE Goal
    BY <1>8 DEF Pick, PickRows
  <1>9. ASSUME NEW r \in Requests, NEW t \in need[r], WriteRow(r, t) PROVE Goal
    BY <1>9 DEF WriteRow
  <1>10. ASSUME NEW r \in Requests, Written(r) PROVE Goal
    BY <1>10 DEF Written
  <1>11. ASSUME NEW r \in Requests, Commit(r) PROVE Goal
    BY <1>11 DEF Commit
  <1>12. ASSUME NEW r \in Requests, Fails(r) PROVE Goal
    BY <1>12 DEF Fails
  <1>s. ASSUME NEW r \in Requests, Show(r) PROVE Goal
    BY <1>s DEF Show
  <1>13. ASSUME NEW t \in Tokens, Expire(t) PROVE Goal
    BY <1>13 DEF Expire
  <1>14. ASSUME UNCHANGED vars PROVE Goal
    <2>1. pc' = pc /\ msg' = msg /\ new' = new
      BY <1>14 DEF vars
    <2>2. q \in Busy /\ Rotating(q)
      BY <2>1
    <2> QED BY <2>1, <2>2
  <1>15. Goal
    BY <1>1, <1>2, <1>3, <1>4, <1>5, <1>6, <1>7, <1>8, <1>9, <1>10, <1>11, <1>12, <1>13, <1>14, <1>s
       DEF Next, Step
  <1> QED BY <1>15 DEF Message

\* Only a commit brings a token to life.
LEMMA LiveBefore ==
  ASSUME TypeOK, [Next]_vars
  PROVE  \/ /\ UNCHANGED family
            /\ \A t \in Tokens : tok'[t] = "live" => tok[t] = "live"
         \/ \E r \in Requests : Commit(r)
  <1> USE DEF TypeOK, handler, committed
  <1> DEFINE Goal == /\ UNCHANGED family
                     /\ \A t \in Tokens : tok'[t] = "live" => tok[t] = "live"
  <1> QED BY DEF Next, Step, vars, Send, ReadToken, GetUser, ReadUser, Rotate, Issue, LockUser,
                 Pick, PickRows, WriteRow, Written, Show, Fails, Expire

\* What a commit does to a family.
LEMMA CommitLive ==
  ASSUME TypeOK, LabelInv, TokenInv, NEW r \in Requests, Commit(r)
  PROVE  /\ r \in Busy
         /\ \A t \in Tokens : family[t] # None => family'[t] = family[t]
         /\ \A t \in Tokens : tok'[t] = "live" => t = new[r] \/ (tok[t] = "live" /\ t \notin rows[r])
         /\ new[r] # None => \/ /\ Rotating(r) /\ msg[r].token \in rows[r] \cap Tokens
                                /\ family'[new[r]] = family[msg[r].token]
                             \/ /\ family'[new[r]] = new[r]
                                /\ \A t \in Tokens : family[t] # new[r]
  <1> USE DEF TypeOK, TokenInv
  <1>1. pc[r] = "commit" /\ r \in Busy
    BY DEF Commit, Busy
  <1>2. \A t \in Tokens : family[t] # None => t # new[r]
    <2>1. \A t \in Tokens : t # None
      BY Shape, FS_CardinalityType DEF Tokens
    <2> QED BY <2>1 DEF NewInv
  <1>3. \A t \in Tokens : family[t] # None => family'[t] = family[t]
    BY <1>2 DEF Commit
  <1>4. \A t \in Tokens : tok'[t] = "live" => t = new[r] \/ (tok[t] = "live" /\ t \notin rows[r])
    <2>1. \A t \in Tokens :
            tok'[t] = IF t = new[r] THEN "live" ELSE IF t \in rows[r] THEN Outcome(r) ELSE tok[t]
      BY DEF Commit
    <2>2. Outcome(r) # "live"
      BY DEF Outcome
    <2> QED BY <2>1, <2>2
  <1>5. ASSUME new[r] # None, msg[r].op = "refresh"
        PROVE  /\ Rotating(r) /\ msg[r].token \in rows[r] \cap Tokens
               /\ family'[new[r]] = family[msg[r].token]
    BY <1>5 DEF LabelInv, Label, Rotating, Commit
  <1>6. ASSUME new[r] # None, msg[r].op # "refresh"
        PROVE  family'[new[r]] = new[r] /\ \A t \in Tokens : family[t] # new[r]
    BY <1>6, <1>2 DEF Commit, UsedInv
  <1> QED BY <1>1, <1>3, <1>4, <1>5, <1>6

LEMMA RotationNext ==
  TypeOK /\ LabelInv /\ TokenInv /\ TwiceInv /\ RotationInv /\ OneLivePerFamily /\ [Next]_vars
    => (RotationInv /\ OneLivePerFamily)'
  <1> SUFFICES ASSUME TypeOK, LabelInv, TokenInv, TwiceInv, RotationInv, OneLivePerFamily, [Next]_vars,
                      ~twice'
               PROVE  RotationInv' /\ OneLivePerFamily'
    BY DEF RotationInv, OneLivePerFamily
  <1>1. ~twice
    BY DEF Next, Step, vars, Send, ReadToken, GetUser, ReadUser, Rotate, Issue, LockUser,
           Pick, PickRows, WriteRow, Written, Show, Fails, Expire, Commit
  <1>2. \A t \in Tokens : family[t] # None => family'[t] = family[t]
    BY LiveBefore, CommitLive
  <1>3. ASSUME NEW q \in Requests, q \in Busy', Rotating(q)'
        PROVE  /\ q \in Busy /\ msg'[q] = msg[q] /\ msg[q].op = "refresh"
               /\ msg[q].token \in Tokens /\ family[msg[q].token] # None
               /\ family'[msg[q].token] = family[msg[q].token]
               /\ Rotating(q) \/ (tok[msg[q].token] = "live" /\ UNCHANGED <<tok, family>>)
               /\ LiveIn(family[msg[q].token]) \subseteq {msg[q].token}
    <2>1. /\ q \in Busy /\ msg'[q] = msg[q] /\ msg[q].op = "refresh" /\ msg[q].token \in Tokens
          /\ Rotating(q) \/ (tok[msg[q].token] = "live" /\ UNCHANGED <<tok, family>>)
      BY <1>3, RotationBegins
    <2>2. \A t \in Tokens : t # None
      BY Shape, FS_CardinalityType DEF Tokens
    <2>3. family[msg[q].token] # None
      BY <2>1, <2>2 DEF TokenInv, UsedInv, TypeOK
    <2>4. LiveIn(family[msg[q].token]) \subseteq {msg[q].token}
      <3>1. CASE Rotating(q)
        BY <3>1, <2>1, <1>1 DEF RotationInv
      <3>2. CASE tok[msg[q].token] = "live"
        BY <3>2, <2>1, <1>1 DEF OneLivePerFamily, LiveIn, InFamily
      <3> QED BY <2>1, <3>1, <3>2
    <2> QED BY <2>1, <2>3, <2>4, <1>2
  <1>4. ASSUME NEW p \in Requests, NEW q \in Requests, p # q,
               p \in Busy', q \in Busy', Rotating(p)', Rotating(q)'
        PROVE  family'[msg'[p].token] # family'[msg'[q].token]
    <2>1. msg[p].token # msg[q].token
      BY <1>1, <1>3, <1>4 DEF TwiceInv
    <2>2. CASE Rotating(p) /\ Rotating(q)
      BY <2>2, <1>1, <1>3, <1>4 DEF RotationInv
    <2>3. CASE tok[msg[p].token] = "live"
      BY <2>1, <2>3, <1>3, <1>4 DEF LiveIn, InFamily
    <2>4. CASE tok[msg[q].token] = "live"
      BY <2>1, <2>4, <1>3, <1>4 DEF LiveIn, InFamily
    <2> QED BY <1>3, <1>4, <2>2, <2>3, <2>4
  <1>5. ASSUME NEW q \in Requests, q \in Busy', Rotating(q)',
               NEW t \in Tokens, tok'[t] = "live", family'[t] = family'[msg'[q].token]
        PROVE  t = msg'[q].token
    <2>0. /\ q \in Busy /\ msg'[q] = msg[q] /\ msg[q].token \in Tokens
          /\ family[msg[q].token] # None
          /\ family'[t] = family[msg[q].token]
          /\ Rotating(q) \/ UNCHANGED <<tok, family>>
          /\ LiveIn(family[msg[q].token]) \subseteq {msg[q].token}
      BY <1>3, <1>5
    <2>1. CASE tok[t] = "live" /\ family'[t] = family[t]
      BY <2>0, <2>1 DEF LiveIn, InFamily
    <2>2. CASE \E r \in Requests : Commit(r)
      <3>1. PICK r \in Requests : Commit(r)
        BY <2>2
      <3>2. q # r
        <4>1. pc'[r] \in {"answer", "done"}
          BY <3>1 DEF Commit, Finish, Release, Goto, TypeOK
        <4>2. pc'[r] = "answer" => msg[r].op = "enroll" /\ msg'[r] = msg[r]
          BY <3>1 DEF Commit, Finish, Release, Goto, TypeOK
        <4>3. ~Rotating(r)' \/ pc'[r] = "done"
          BY <4>1, <4>2 DEF Rotating
        <4> QED BY <1>5, <4>3 DEF Busy
      <3>3. CASE t = new[r]
        <4>1. CASE Rotating(q)
          <5>1. new[r] # None
            BY <3>3, Shape, FS_CardinalityType DEF Tokens
          <5>2. CASE Rotating(r) /\ family'[new[r]] = family[msg[r].token]
            <6>1. family[msg[q].token] # family[msg[r].token]
              BY <5>2, <4>1, <3>1, <3>2, <2>0, <1>1 DEF RotationInv, Busy, Commit
            <6> QED BY <6>1, <5>2, <3>3, <2>0
          <5>3. CASE family'[new[r]] = new[r] /\ \A u \in Tokens : family[u] # new[r]
            BY <5>3, <3>3, <2>0
          <5> QED BY <5>1, <5>2, <5>3, <3>1, CommitLive
        <4>2. CASE tok' = tok /\ family' = family
          BY <4>2, <2>0, <1>5 DEF LiveIn, InFamily
        <4> QED BY <4>1, <4>2, <2>0
      <3>4. CASE t # new[r]
        <4>1. tok[t] = "live" /\ family[t] # None
          BY <3>1, <3>4, <1>5, CommitLive DEF TypeOK
        <4> QED BY <4>1, <1>2, <2>1
      <3> QED BY <3>3, <3>4
    <2> QED BY <2>1, <2>2, <1>5, LiveBefore
  <1>6. ASSUME NEW t \in Tokens, NEW u \in Tokens,
               tok'[t] = "live", tok'[u] = "live", family'[t] = family'[u]
        PROVE  t = u
    <2>1. ASSUME NEW r \in Requests, Commit(r), NEW v \in Tokens, NEW w \in Tokens,
                 tok'[v] = "live", tok'[w] = "live", family'[v] = family'[w], v = new[r], w # new[r]
          PROVE  FALSE
      <3>1. tok[w] = "live" /\ w \notin rows[r] /\ family'[w] = family[w]
        BY <2>1, CommitLive DEF TypeOK
      <3>2. CASE Rotating(r) /\ msg[r].token \in rows[r] /\ family'[new[r]] = family[msg[r].token]
        BY <3>1, <3>2, <2>1, <1>1, CommitLive DEF RotationInv, LiveIn, InFamily
      <3>3. CASE family'[new[r]] = new[r] /\ \A x \in Tokens : family[x] # new[r]
        BY <3>1, <3>3, <2>1
      <3>4. new[r] # None
        BY <2>1, Shape, FS_CardinalityType DEF Tokens
      <3> QED BY <3>2, <3>3, <3>4, <2>1, CommitLive
    <2>2. CASE tok[t] = "live" /\ tok[u] = "live"
      BY <2>2, <1>1, <1>2, <1>6 DEF OneLivePerFamily, TypeOK
    <2>3. CASE \E r \in Requests : Commit(r)
      <3>1. PICK r \in Requests : Commit(r)
        BY <2>3
      <3> QED BY <3>1, <2>1, <2>2, <1>6, CommitLive
    <2> QED BY <2>2, <2>3, <1>6, LiveBefore
  <1> QED BY <1>4, <1>5, <1>6 DEF RotationInv, OneLivePerFamily, LiveIn, InFamily, Busy

LEMMA EndedNext ==
  ASSUME TypeOK, LabelInv, TokenInv, [Next]_vars,
         NEW f \in Tokens, InFamily(f) # {}, Over(f)
  PROVE  Over(f)'
  <1>0. \A t \in Tokens : t # None
    BY Shape, FS_CardinalityType DEF Tokens
  <1>1. \A t \in Tokens : family[t] # None => family'[t] = family[t]
    BY LiveBefore, CommitLive
  <1>2. ASSUME NEW t \in Tokens, tok'[t] = "live", family'[t] = f PROVE FALSE
    <2>1. CASE tok[t] = "live"
      BY <2>1, <1>1, <1>2 DEF Over, LiveIn, InFamily, TypeOK
    <2>2. CASE \E r \in Requests : Commit(r) /\ t = new[r]
      BY <2>2, <1>0, <1>2, CommitLive DEF Over, InFamily
    <2> QED BY <2>1, <2>2, <1>2, LiveBefore, CommitLive
  <1>3. ASSUME NEW q \in Requests, q \in Busy', Rotating(q)', family'[msg'[q].token] = f PROVE FALSE
    <2>1. /\ q \in Busy /\ msg'[q] = msg[q] /\ msg[q].token \in Tokens
          /\ Rotating(q) \/ (tok[msg[q].token] = "live" /\ UNCHANGED <<tok, family>>)
      BY <1>3, RotationBegins
    <2>2. family[msg[q].token] # None
      BY <2>1, <1>0 DEF TokenInv, UsedInv, TypeOK
    <2> QED BY <2>1, <2>2, <1>1, <1>3 DEF Over, LiveIn, InFamily
  <1> QED BY <1>2, <1>3 DEF Over, LiveIn, InFamily, Busy

-----------------------------------------------------------------------------
(* Who survives a revocation.                                              *)

WithInv == \A q, r \in Busy : q # r => q \in with[r]

\* Once the rows of a statement are picked, a live token in its scope is one it
\* will reach, or was committed by a request in flight.
Cover(r) ==
  /\ pc[r] = "commit" => need[r] = {}
  /\ /\ pc[r] \in {"write", "pick_again", "write_again", "commit"}
     /\ new[r] = None /\ msg[r].op \in {"update", "update_both", "refresh"}
     => \A t \in Tokens :
          tok[t] = "live" /\ (msg[r].op = "refresh" => family[t] = family[msg[r].token])
            => t \in need[r] \cup rows[r] \/ born[t] \in with[r]

CoverInv == \A r \in Requests : Cover(r)

LEMMA WithNext == TypeOK /\ WithInv /\ [Next]_vars => WithInv'
  <1> SUFFICES ASSUME TypeOK, WithInv, [Next]_vars PROVE WithInv'
    OBVIOUS
  <1> USE DEF TypeOK, WithInv, handler, committed, Finish, Release, Goto, Busy, Labels
  <1>1. ASSUME NEW r \in Requests, NEW m \in Message, Send(r, m) PROVE WithInv'
    <2>1. \A q \in Requests : with'[q] = IF q = r THEN Busy ELSE IF q \in Busy THEN with[q] \cup {r} ELSE with[q]
      BY <1>1 DEF Send
    <2>2. \A q \in Requests : q # r => pc'[q] = pc[q]
      BY <1>1 DEF Send
    <2>3. pc[r] = "unsent" /\ pc'[r] \notin {"unsent", "done"}
      BY <1>1 DEF Send
    <2> HIDE DEF TypeOK
    <2> QED BY <2>1, <2>2, <2>3
  <1>2. ASSUME NEW r \in Requests, ReadToken(r) PROVE WithInv'
    <2>1. \A q \in Requests : pc'[q] \notin {"unsent", "done"} => q \in Busy /\ with'[q] = with[q]
      BY <1>2 DEF ReadToken
    <2> QED BY <2>1
  <1>3. ASSUME NEW r \in Requests, GetUser(r) PROVE WithInv'
    <2>1. \A q \in Requests : pc'[q] \notin {"unsent", "done"} => q \in Busy /\ with'[q] = with[q]
      BY <1>3 DEF GetUser
    <2> QED BY <2>1
  <1>4. ASSUME NEW r \in Requests, ReadUser(r) PROVE WithInv'
    <2>1. \A q \in Requests : pc'[q] \notin {"unsent", "done"} => q \in Busy /\ with'[q] = with[q]
      BY <1>4 DEF ReadUser
    <2> QED BY <2>1
  <1>5. ASSUME NEW r \in Requests, Rotate(r) PROVE WithInv'
    <2>1. \A q \in Requests : pc'[q] \notin {"unsent", "done"} => q \in Busy /\ with'[q] = with[q]
      BY <1>5 DEF Rotate
    <2> QED BY <2>1
  <1>6. ASSUME NEW r \in Requests, Issue(r) PROVE WithInv'
    <2>1. \A q \in Requests : pc'[q] \notin {"unsent", "done"} => q \in Busy /\ with'[q] = with[q]
      BY <1>6 DEF Issue
    <2> QED BY <2>1
  <1>7. ASSUME NEW r \in Requests, LockUser(r) PROVE WithInv'
    <2>1. \A q \in Requests : pc'[q] \notin {"unsent", "done"} => q \in Busy /\ with'[q] = with[q]
      BY <1>7 DEF LockUser
    <2> QED BY <2>1
  <1>8. ASSUME NEW r \in Requests, Pick(r) PROVE WithInv'
    <2>1. \A q \in Requests : pc'[q] \notin {"unsent", "done"} => q \in Busy /\ with'[q] = with[q]
      BY <1>8 DEF Pick, PickRows
    <2> QED BY <2>1
  <1>9. ASSUME NEW r \in Requests, NEW t \in need[r], WriteRow(r, t) PROVE WithInv'
    <2>1. \A q \in Requests : pc'[q] \notin {"unsent", "done"} => q \in Busy /\ with'[q] = with[q]
      BY <1>9 DEF WriteRow
    <2> QED BY <2>1
  <1>10. ASSUME NEW r \in Requests, Written(r) PROVE WithInv'
    <2>1. \A q \in Requests : pc'[q] \notin {"unsent", "done"} => q \in Busy /\ with'[q] = with[q]
      BY <1>10 DEF Written
    <2> QED BY <2>1
  <1>11. ASSUME NEW r \in Requests, Commit(r) PROVE WithInv'
    <2>1. \A q \in Requests : pc'[q] \notin {"unsent", "done"} => q \in Busy /\ with'[q] = with[q]
      BY <1>11 DEF Commit
    <2> QED BY <2>1
  <1>12. ASSUME NEW r \in Requests, Fails(r) PROVE WithInv'
    <2>1. \A q \in Requests : pc'[q] \notin {"unsent", "done"} => q \in Busy /\ with'[q] = with[q]
      BY <1>12 DEF Fails
    <2> QED BY <2>1
  <1>s. ASSUME NEW r \in Requests, Show(r) PROVE WithInv'
    <2>1. \A q \in Requests : pc'[q] \notin {"unsent", "done"} => q \in Busy /\ with'[q] = with[q]
      BY <1>s DEF Show
    <2> QED BY <2>1
  <1>13. ASSUME NEW t \in Tokens, Expire(t) PROVE WithInv'
    BY <1>13 DEF Expire
  <1>14. CASE UNCHANGED vars
    BY <1>14 DEF vars
  <1> QED BY <1>1, <1>2, <1>3, <1>4, <1>5, <1>6, <1>7, <1>8, <1>9, <1>10, <1>11, <1>12, <1>13, <1>14, <1>s
          DEF Next, Step

LEMMA CoverNext ==
  TypeOK /\ LabelInv /\ TokenInv /\ WithInv /\ CoverInv /\ [Next]_vars => CoverInv'
  <1> SUFFICES ASSUME TypeOK, LabelInv, TokenInv, WithInv, CoverInv, [Next]_vars, NEW q \in Requests
               PROVE  Cover(q)'
    BY DEF CoverInv
  <1>0. \A t \in Tokens : t # None
    BY Shape, FS_CardinalityType DEF Tokens
  <1> USE DEF TypeOK, CoverInv, Cover, handler, committed, Finish, Release, Goto, Labels
  <1>1. ASSUME NEW r \in Requests, NEW m \in Message, Send(r, m) PROVE Cover(q)'
    <2>1. /\ UNCHANGED <<tok, family, born, need, rows, new>> /\ pc[r] = "unsent"
          /\ q # r => pc'[q] = pc[q] /\ msg'[q] = msg[q] /\ with[q] \subseteq with'[q]
          /\ q = r => pc'[q] \in {"read", "pick"}
      BY <1>1 DEF Send
    <2>2. CASE q = r
      BY <2>1, <2>2
    <2>3. CASE q # r
      BY <2>1, <2>3
    <2> QED BY <2>2, <2>3
  <1>2. ASSUME NEW r \in Requests, ReadToken(r) PROVE Cover(q)'
    BY <1>2 DEF ReadToken
  <1>3. ASSUME NEW r \in Requests, GetUser(r) PROVE Cover(q)'
    BY <1>3 DEF GetUser
  <1>4. ASSUME NEW r \in Requests, ReadUser(r) PROVE Cover(q)'
    BY <1>4 DEF ReadUser
  <1>5. ASSUME NEW r \in Requests, Rotate(r) PROVE Cover(q)'
    BY <1>5 DEF Rotate
  <1>6. ASSUME NEW r \in Requests, Issue(r) PROVE Cover(q)'
    <2>1. NextToken \in Tokens
      BY <1>6, Supply DEF Issue, LabelInv, Label
    <2>2. CASE q = r
      BY <2>1, <2>2, <1>0, <1>6 DEF Issue, LabelInv, Label
    <2>3. CASE q # r
      BY <2>3, <1>6 DEF Issue
    <2> QED BY <2>2, <2>3
  <1>7. ASSUME NEW r \in Requests, LockUser(r) PROVE Cover(q)'
    <2>1. CASE q = r
      <3>1. CASE user = "gone"
        BY <2>1, <3>1, <1>7 DEF LockUser
      <3>2. CASE user # "gone"
        <4>1. need'[r] = {} /\ msg' = msg
          BY <3>2, <1>7 DEF LockUser, LabelInv, Label, Reading
        <4>2. msg[r].op \in {"update", "update_both", "refresh"} => pc'[r] = "pick"
          BY <3>2, <1>7 DEF LockUser, LabelInv, Label
        <4> QED BY <2>1, <4>1, <4>2
      <3> QED BY <3>1, <3>2
    <2>2. CASE q # r
      BY <2>2, <1>7 DEF LockUser
    <2> QED BY <2>1, <2>2
  <1>8. ASSUME NEW r \in Requests, Pick(r) PROVE Cover(q)'
    <2>1. CASE q = r
      BY <2>1, <1>8 DEF Pick, PickRows, Scope, FamilyOf, InFamily, Rows, Unrevoked
    <2>2. CASE q # r
      BY <2>2, <1>8 DEF Pick, PickRows
    <2> QED BY <2>1, <2>2
  <1>9. ASSUME NEW r \in Requests, NEW t \in need[r], WriteRow(r, t) PROVE Cover(q)'
    <2>1. CASE q = r
      BY <2>1, <1>9 DEF WriteRow, Scope, FamilyOf, InFamily, Rows, Unrevoked
    <2>2. CASE q # r
      BY <2>2, <1>9 DEF WriteRow
    <2> QED BY <2>1, <2>2
  <1>10. ASSUME NEW r \in Requests, Written(r) PROVE Cover(q)'
    BY <1>10 DEF Written
  <1>11. ASSUME NEW r \in Requests, Commit(r) PROVE Cover(q)'
    <2>1. CASE q = r
      BY <2>1, <1>11 DEF Commit
    <2>2. CASE q # r
      <3>1. /\ pc'[q] = pc[q] /\ msg'[q] = msg[q] /\ with'[q] = with[q] /\ new'[q] = new[q]
            /\ need'[q] = need[q] /\ rows'[q] = rows[q] /\ pc[r] = "commit"
        BY <2>2, <1>11 DEF Commit
      <3>2. pc[q] \in {"write", "pick_again", "write_again", "commit"} => r \in with[q]
        BY <2>2, <3>1 DEF WithInv, Busy
      <3>3. \A t \in Tokens : born'[t] = IF t = new[r] THEN r ELSE born[t]
        BY <1>11 DEF Commit
      <3>4. \A t \in Tokens : tok'[t] = "live" /\ t # new[r] => tok[t] = "live" /\ family'[t] = family[t]
        BY <1>11, CommitLive
      <3>5. pc[q] \in {"write", "pick_again", "write_again", "commit"} /\ msg[q].op = "refresh" =>
              family'[msg[q].token] = family[msg[q].token]
        <4>1. ASSUME q \in Busy, msg[q].op = "refresh"
              PROVE  msg[q].token \in Tokens /\ family[msg[q].token] # None
          BY <4>1, <1>0 DEF TokenInv, UsedInv, LabelInv, Label, Message
        <4> QED BY <4>1, <1>11, CommitLive DEF Busy
      <3> QED BY <3>1, <3>2, <3>3, <3>4, <3>5
    <2> QED BY <2>1, <2>2
  <1>12. ASSUME NEW r \in Requests, Fails(r) PROVE Cover(q)'
    BY <1>12 DEF Fails
  <1>s. ASSUME NEW r \in Requests, Show(r) PROVE Cover(q)'
    BY <1>s DEF Show
  <1>13. ASSUME NEW t \in Tokens, Expire(t) PROVE Cover(q)'
    BY <1>13 DEF Expire
  <1>14. CASE UNCHANGED vars
    BY <1>14 DEF vars
  <1> QED BY <1>1, <1>2, <1>3, <1>4, <1>5, <1>6, <1>7, <1>8, <1>9, <1>10, <1>11, <1>12, <1>13, <1>14, <1>s
          DEF Next, Step

LEMMA SurvivorsNext ==
  ASSUME TypeOK, LabelInv, TokenInv, CoverInv, [Next]_vars,
         NEW r \in Requests, pc[r] = "commit", new[r] = None, pc'[r] = "done", tok' # tok,
         NEW t \in Tokens, tok'[t] = "live",
         msg[r].op \in {"update", "update_both"} \/
           (msg[r].op = "refresh" /\ family[t] = family[msg[r].token])
  PROVE  born[t] \in with[r]
  <1>1. Commit(r)
    <2>1. ASSUME NEW q \in Requests, Commit(q) PROVE q = r
      BY <2>1 DEF Commit, Finish, Release, Goto, TypeOK
    <2>2. ASSUME NEW u \in Tokens, Expire(u) PROVE FALSE
      BY <2>2 DEF Expire, handler
    <2> QED BY <2>1, <2>2 DEF Next, Step, vars, committed, handler, Send, ReadToken, GetUser, ReadUser,
               Rotate, Issue, LockUser, Pick, PickRows, WriteRow, Written, Show, Fails
  <1>2. t # None
    BY Shape, FS_CardinalityType DEF Tokens
  <1>3. tok[t] = "live" /\ t \notin rows[r]
    BY <1>1, <1>2, CommitLive
  <1> QED BY <1>3 DEF CoverInv, Cover

-----------------------------------------------------------------------------
(* The second factor.                                                      *)

RacedInv ==
  \A q, r \in Busy :
    /\ q # r /\ ChangesSecret(msg[q]) /\ ChangesSecret(msg[r])
    /\ pc[q] # "answer" /\ pc[r] # "answer"
    => raced

\* While none has raced with another: an enrolment that goes on has found no
\* secret, one that is to be answered has stored it, and a reset that goes on
\* has been given a code of the one there is.
EnrolInv ==
  ~raced =>
    \A r \in Busy :
      /\ msg[r].op = "enroll" /\ pc[r] \in {"lock_user", "commit"} => secret = None
      /\ pc[r] = "answer" => secret = r /\ shown = {}
      /\ msg[r].op = "disable" /\ pc[r] \in {"lock_user", "commit"} => secret # None /\ secret \in shown

\* What a step makes of a request that is in flight after it.
LEMMA Goes ==
  ASSUME TypeOK, LabelInv, [Next]_vars, NEW q \in Requests, q \in Busy'
  PROVE  \/ pc'[q] \in {"read", "pick"} /\ pc[q] = "unsent"
         \/ q \in Busy /\ msg'[q] = msg[q] /\ (pc[q] = "answer" => pc'[q] = "answer")
  <1> USE DEF TypeOK, handler, committed, Finish, Release, Goto, Busy, Labels
  <1> DEFINE Goal == \/ pc'[q] \in {"read", "pick"} /\ pc[q] = "unsent"
                     \/ q \in Busy /\ msg'[q] = msg[q] /\ (pc[q] = "answer" => pc'[q] = "answer")
  <1>1. ASSUME NEW r \in Requests, NEW m \in Message, Send(r, m) PROVE Goal
    BY <1>1 DEF Send
  <1>2. ASSUME NEW r \in Requests, ReadToken(r) PROVE Goal
    BY <1>2 DEF ReadToken
  <1>3. ASSUME NEW r \in Requests, GetUser(r) PROVE Goal
    BY <1>3 DEF GetUser
  <1>4. ASSUME NEW r \in Requests, ReadUser(r) PROVE Goal
    BY <1>4 DEF ReadUser
  <1>5. ASSUME NEW r \in Requests, Rotate(r) PROVE Goal
    BY <1>5 DEF Rotate
  <1>6. ASSUME NEW r \in Requests, Issue(r) PROVE Goal
    BY <1>6 DEF Issue
  <1>7. ASSUME NEW r \in Requests, LockUser(r) PROVE Goal
    BY <1>7 DEF LockUser
  <1>8. ASSUME NEW r \in Requests, Pick(r) PROVE Goal
    BY <1>8 DEF Pick, PickRows
  <1>9. ASSUME NEW r \in Requests, NEW t \in need[r], WriteRow(r, t) PROVE Goal
    BY <1>9 DEF WriteRow
  <1>10. ASSUME NEW r \in Requests, Written(r) PROVE Goal
    BY <1>10 DEF Written
  <1>11. ASSUME NEW r \in Requests, Commit(r) PROVE Goal
    BY <1>11 DEF Commit
  <1>12. ASSUME NEW r \in Requests, Fails(r) PROVE Goal
    BY <1>12 DEF Fails
  <1>s. ASSUME NEW r \in Requests, Show(r) PROVE Goal
    BY <1>s DEF Show
  <1>13. ASSUME NEW t \in Tokens, Expire(t) PROVE Goal
    BY <1>13 DEF Expire
  <1>14. ASSUME UNCHANGED vars PROVE Goal
    <2>1. pc' = pc /\ msg' = msg
      BY <1>14 DEF vars
    <2> QED BY <2>1
  <1>15. Goal
    BY <1>1, <1>2, <1>3, <1>4, <1>5, <1>6, <1>7, <1>8, <1>9, <1>10, <1>11, <1>12, <1>13, <1>14, <1>s
       DEF Next, Step
  <1> QED BY <1>15

LEMMA RacedNext == TypeOK /\ LabelInv /\ RacedInv /\ [Next]_vars => RacedInv'
  <1> SUFFICES ASSUME TypeOK, LabelInv, RacedInv, [Next]_vars, ~raced',
                      NEW p \in Requests, NEW q \in Requests, p # q, p \in Busy', q \in Busy',
                      ChangesSecret(msg'[p]), ChangesSecret(msg'[q]),
                      pc'[p] # "answer", pc'[q] # "answer"
               PROVE  FALSE
    BY DEF RacedInv, Busy, ChangesSecret
  <1>1. CASE \E r \in Requests, m \in Message : Send(r, m)
    <2>1. PICK r \in Requests, m \in Message : Send(r, m)
      BY <1>1
    <2>2. /\ \A x \in Requests : x # r => pc'[x] = pc[x] /\ msg'[x] = msg[x]
          /\ msg'[r] = m
          /\ raced' = (raced \/ (ChangesSecret(m) /\ \E x \in Busy : pc[x] # "answer" /\ ChangesSecret(msg[x])))
      BY <2>1 DEF Send, Goto, TypeOK
    <2>3. ~raced
      BY <2>2
    <2>4. CASE p = r
      <3>1. q \in Busy /\ pc[q] # "answer" /\ msg[q] = msg'[q]
        BY <2>2, <2>4 DEF Busy
      <3> QED BY <2>2, <2>4, <3>1
    <2>5. CASE q = r
      <3>1. p \in Busy /\ pc[p] # "answer" /\ msg[p] = msg'[p]
        BY <2>2, <2>5 DEF Busy
      <3> QED BY <2>2, <2>5, <3>1
    <2>6. CASE p # r /\ q # r
      BY <2>2, <2>3, <2>6 DEF RacedInv, Busy
    <2> QED BY <2>4, <2>5, <2>6
  <1>2. CASE ~\E r \in Requests, m \in Message : Send(r, m)
    <2> DEFINE Same == /\ UNCHANGED raced
                       /\ \A x \in Requests : pc[x] = "unsent" => pc'[x] = "unsent"
    <2>g. ASSUME UNCHANGED vars PROVE Same
      <3>1. UNCHANGED raced /\ pc' = pc
        BY <2>g DEF vars, handler
      <3> QED BY <3>1
    <2> USE DEF handler, committed, Finish, Release, Goto, TypeOK
    <2>a. ASSUME NEW r \in Requests, ReadToken(r) \/ GetUser(r) \/ ReadUser(r) PROVE Same
      BY <2>a DEF ReadToken, GetUser, ReadUser
    <2>b. ASSUME NEW r \in Requests, Rotate(r) \/ Issue(r) \/ LockUser(r) PROVE Same
      BY <2>b DEF Rotate, Issue, LockUser
    <2>c. ASSUME NEW r \in Requests, Pick(r) \/ (\E t \in need[r] : WriteRow(r, t)) \/ Written(r) PROVE Same
      BY <2>c DEF Pick, PickRows, WriteRow, Written
    <2>d. ASSUME NEW r \in Requests, Commit(r) \/ Show(r) PROVE Same
      BY <2>d DEF Commit, Show
    <2>e. ASSUME NEW r \in Requests, Fails(r) PROVE Same
      BY <2>e DEF Fails, Busy
    <2>f. ASSUME NEW t \in Tokens, Expire(t) PROVE Same
      BY <2>f DEF Expire
    <2>1. Same
      BY <1>2, <2>a, <2>b, <2>c, <2>d, <2>e, <2>f, <2>g DEF Next, Step
    <2>2. \A x \in Requests : x \in Busy' /\ pc'[x] # "answer" =>
                x \in Busy /\ msg'[x] = msg[x] /\ pc[x] # "answer"
      BY <2>1, Goes DEF Busy
    <2> QED BY <2>1, <2>2 DEF RacedInv
  <1> QED BY <1>1, <1>2

LEMMA ShownNext ==
  TypeOK /\ LabelInv /\ RacedInv /\ EnrolInv /\ SecretIsTheOneShown /\ [Next]_vars
    => (EnrolInv /\ SecretIsTheOneShown)'
  <1> SUFFICES ASSUME TypeOK, LabelInv, RacedInv, EnrolInv, SecretIsTheOneShown, [Next]_vars, ~raced'
               PROVE  EnrolInv' /\ SecretIsTheOneShown'
    BY DEF EnrolInv, SecretIsTheOneShown
  <1>0. ~raced
    BY DEF Next, Step, vars, committed, handler, ReadToken, GetUser, ReadUser, Send,
         Rotate, Issue, LockUser, Pick, PickRows, WriteRow, Written, Show, Fails, Expire, Commit
  \* A step that leaves the secret and what is known of it alone.
  <1>k. ASSUME UNCHANGED <<secret, shown, lost>>,
               \A q \in Requests : pc[q] = "answer" <=> pc'[q] = "answer",
               \A q \in Requests :
                 q \in Busy' /\ pc'[q] \in {"lock_user", "commit"} /\ msg'[q].op \in {"enroll", "disable"} =>
                   /\ q \in Busy /\ msg'[q] = msg[q]
                   /\ \/ pc[q] \in {"lock_user", "commit"}
                      \/ msg[q].op = "enroll" /\ secret = None
                      \/ msg[q].op = "disable" /\ secret # None /\ secret \in shown
        PROVE  EnrolInv' /\ SecretIsTheOneShown'
    <2>1. EnrolInv'
      BY <1>0, <1>k DEF EnrolInv, Busy
    <2>2. SecretIsTheOneShown'
      BY <1>0, <1>k DEF SecretIsTheOneShown, Busy
    <2> QED BY <2>1, <2>2
  <1> USE DEF TypeOK, handler, committed, Finish, Release, Goto, Labels
  <1>1. ASSUME NEW r \in Requests, NEW m \in Message, Send(r, m) PROVE EnrolInv' /\ SecretIsTheOneShown'
    BY <1>1, <1>k DEF Send, Busy
  <1>2. ASSUME NEW r \in Requests, ReadToken(r) PROVE EnrolInv' /\ SecretIsTheOneShown'
    BY <1>2, <1>k DEF ReadToken, Busy
  <1>3. ASSUME NEW r \in Requests, GetUser(r) PROVE EnrolInv' /\ SecretIsTheOneShown'
    BY <1>3, <1>k DEF GetUser, Busy, LabelInv, Label
  <1>4. ASSUME NEW r \in Requests, ReadUser(r) PROVE EnrolInv' /\ SecretIsTheOneShown'
    BY <1>4, <1>k DEF ReadUser, Busy
  <1>5. ASSUME NEW r \in Requests, Rotate(r) PROVE EnrolInv' /\ SecretIsTheOneShown'
    BY <1>5, <1>k DEF Rotate, Busy, LabelInv, Label
  <1>6. ASSUME NEW r \in Requests, Issue(r) PROVE EnrolInv' /\ SecretIsTheOneShown'
    BY <1>6, <1>k DEF Issue, Busy, LabelInv, Label
  <1>7. ASSUME NEW r \in Requests, LockUser(r) PROVE EnrolInv' /\ SecretIsTheOneShown'
    BY <1>7, <1>k DEF LockUser, Busy
  <1>8. ASSUME NEW r \in Requests, Pick(r) PROVE EnrolInv' /\ SecretIsTheOneShown'
    BY <1>8, <1>k DEF Pick, PickRows, Busy
  <1>9. ASSUME NEW r \in Requests, NEW t \in need[r], WriteRow(r, t) PROVE EnrolInv' /\ SecretIsTheOneShown'
    BY <1>9, <1>k DEF WriteRow, Busy
  <1>10. ASSUME NEW r \in Requests, Written(r) PROVE EnrolInv' /\ SecretIsTheOneShown'
    BY <1>10, <1>k DEF Written, Busy, LabelInv, Label, Revoking
  <1>13. ASSUME NEW t \in Tokens, Expire(t) PROVE EnrolInv' /\ SecretIsTheOneShown'
    BY <1>13, <1>k DEF Expire, Busy
  <1>11. ASSUME NEW r \in Requests, Commit(r) PROVE EnrolInv' /\ SecretIsTheOneShown'
    <2>1. /\ pc[r] = "commit" /\ r \in Busy /\ r # None
          /\ secret' = NewSecret(r) /\ lost' = lost
          /\ shown' = IF msg[r].op = "disable" THEN {} ELSE shown
          /\ pc'[r] = IF msg[r].op = "enroll" THEN "answer" ELSE "done"
          /\ \A q \in Requests : q # r => pc'[q] = pc[q] /\ msg'[q] = msg[q]
      BY <1>11, Shape DEF Commit, Busy
    <2>2. CASE msg[r].op = "enroll"
      <3>1. secret = None /\ secret' = r /\ shown' = shown /\ pc'[r] = "answer"
        BY <1>0, <2>1, <2>2 DEF EnrolInv, NewSecret
      <3>2. shown = {}
        BY <1>0, <3>1, Shape DEF SecretIsTheOneShown
      <3>3. ASSUME NEW q \in Busy, q # r
            PROVE  pc[q] # "answer" /\ (pc[q] \in {"lock_user", "commit"} => msg[q].op \notin {"enroll", "disable"})
        <4>1. pc[q] # "answer"
          BY <1>0, <2>1, <3>1, <3>3, Shape DEF EnrolInv, Busy
        <4> QED BY <1>0, <2>1, <2>2, <3>3, <4>1 DEF RacedInv, ChangesSecret
      <3>4. EnrolInv'
        BY <2>1, <3>1, <3>2, <3>3 DEF EnrolInv, Busy
      <3> QED BY <2>1, <3>1, <3>2, <3>4 DEF SecretIsTheOneShown, Busy
    <2>3. CASE msg[r].op = "disable"
      <3>1. secret' = None /\ shown' = {} /\ pc'[r] = "done" /\ shown # {}
        BY <1>0, <2>1, <2>3 DEF EnrolInv, NewSecret
      <3>2. ASSUME NEW q \in Busy, q # r
            PROVE  pc[q] # "answer" /\ (pc[q] \in {"lock_user", "commit"} => msg[q].op \notin {"enroll", "disable"})
        <4>1. pc[q] # "answer"
          BY <1>0, <3>1 DEF EnrolInv
        <4> QED BY <1>0, <2>1, <2>3, <3>2, <4>1 DEF RacedInv, ChangesSecret
      <3>3. EnrolInv'
        BY <2>1, <3>1, <3>2 DEF EnrolInv, Busy
      <3> QED BY <3>1, <3>3 DEF SecretIsTheOneShown
    <2>4. CASE msg[r].op \notin {"enroll", "disable"}
      <3>1. secret' = secret /\ shown' = shown /\ pc'[r] = "done"
        BY <2>1, <2>4 DEF NewSecret
      <3> QED BY <2>1, <3>1, <1>k DEF Busy
    <2> QED BY <2>2, <2>3, <2>4
  <1>12. ASSUME NEW r \in Requests, Fails(r) PROVE EnrolInv' /\ SecretIsTheOneShown'
    <2>1. /\ r \in Busy /\ UNCHANGED <<secret, shown>>
          /\ lost' = IF pc[r] = "answer" THEN lost \cup {r} ELSE lost
          /\ pc'[r] = "done"
          /\ \A q \in Requests : q # r => pc'[q] = pc[q] /\ msg'[q] = msg[q]
      BY <1>12 DEF Fails, Busy
    <2>2. CASE pc[r] = "answer"
      <3>1. secret = r /\ shown = {} /\ secret \in lost'
        BY <1>0, <2>1, <2>2 DEF EnrolInv
      <3>2. EnrolInv'
        BY <1>0, <2>1 DEF EnrolInv, Busy
      <3> QED BY <2>1, <3>1, <3>2 DEF SecretIsTheOneShown
    <2>3. CASE pc[r] # "answer"
      BY <2>1, <2>3, <1>k DEF Busy
    <2> QED BY <2>2, <2>3
  <1>s. ASSUME NEW r \in Requests, Show(r) PROVE EnrolInv' /\ SecretIsTheOneShown'
    <2>1. /\ pc[r] = "answer" /\ r \in Busy /\ r # None /\ UNCHANGED secret /\ shown' = shown \cup {r}
          /\ pc'[r] = "done"
          /\ \A q \in Requests : q # r => pc'[q] = pc[q] /\ msg'[q] = msg[q]
      BY <1>s, Shape DEF Show, Busy
    <2>2. secret = r /\ shown = {}
      BY <1>0, <2>1 DEF EnrolInv
    <2>3. \A q \in Busy : q # r => pc[q] # "answer"
      BY <1>0, <2>2 DEF EnrolInv
    <2>4. EnrolInv'
      BY <1>0, <2>1, <2>2, <2>3 DEF EnrolInv, Busy
    <2>5. shown' = {secret'} \ {None}
      BY <2>1, <2>2
    <2> QED BY <2>4, <2>5 DEF SecretIsTheOneShown
  <1>14. CASE UNCHANGED vars
    BY <1>14, <1>k DEF vars, Busy
  <1> QED BY <1>1, <1>2, <1>3, <1>4, <1>5, <1>6, <1>7, <1>8, <1>9, <1>10, <1>11, <1>12, <1>13, <1>14, <1>s
          DEF Next, Step

-----------------------------------------------------------------------------
(* Who waits for whom.                                                     *)

\* A logout has one row to write, and an update has the user's row while it
\* writes any.
Alone(r) ==
  /\ pc[r] = "pick" => rows[r] = {}
  /\ pc[r] \in Revoking /\ msg[r].op = "logout" =>
       /\ lock[r] = "none"
       /\ need[r] \subseteq {msg[r].token}
       /\ rows[r] # {} => need[r] = {}
  /\ pc[r] \in Revoking /\ msg[r].op \in {"update", "update_both"} => lock[r] = "update"
AloneInv == \A r \in Requests : Alone(r)

LEMMA AloneNext == TypeOK /\ LabelInv /\ AloneInv /\ [Next]_vars => AloneInv'
  <1> SUFFICES ASSUME TypeOK, LabelInv, AloneInv, [Next]_vars, NEW q \in Requests PROVE Alone(q)'
    BY DEF AloneInv
  <1> USE DEF TypeOK, AloneInv, Alone, handler, committed, Finish, Release, Goto, Labels, Revoking
  <1>0. Label(q)
    BY DEF LabelInv
  <1>1. ASSUME NEW r \in Requests, NEW m \in Message, Send(r, m) PROVE Alone(q)'
    BY <1>0, <1>1 DEF Send, Label, Reading
  <1>2. ASSUME NEW r \in Requests, ReadToken(r) PROVE Alone(q)'
    <2>1. CASE msg[r].token \notin Rows
      BY <1>2, <2>1 DEF ReadToken
    <2>2. CASE msg[r].token \in Rows
      BY <1>0, <1>2, <2>2 DEF ReadToken, Label, Reading
    <2> QED BY <2>1, <2>2
  <1>3. ASSUME NEW r \in Requests, GetUser(r) PROVE Alone(q)'
    <2>1. CASE user = "gone"
      BY <1>3, <2>1 DEF GetUser
    <2>2. CASE user # "gone"
      BY <1>3, <2>2 DEF GetUser
    <2> QED BY <2>1, <2>2
  <1>4. ASSUME NEW r \in Requests, ReadUser(r) PROVE Alone(q)'
    BY <1>4 DEF ReadUser
  <1>5. ASSUME NEW r \in Requests, Rotate(r) PROVE Alone(q)'
    BY <1>5 DEF Rotate
  <1>6. ASSUME NEW r \in Requests, Issue(r) PROVE Alone(q)'
    BY <1>6 DEF Issue
  <1>7. ASSUME NEW r \in Requests, LockUser(r) PROVE Alone(q)'
    BY <1>0, <1>7 DEF LockUser, Mode, Label, Reading
  <1>8. ASSUME NEW r \in Requests, Pick(r) PROVE Alone(q)'
    BY <1>0, <1>8 DEF Pick, PickRows, Scope, Label
  <1>9. ASSUME NEW r \in Requests, NEW t \in need[r], WriteRow(r, t) PROVE Alone(q)'
    BY <1>9 DEF WriteRow
  <1>10. ASSUME NEW r \in Requests, Written(r) PROVE Alone(q)'
    BY <1>10 DEF Written
  <1>11. ASSUME NEW r \in Requests, Commit(r) PROVE Alone(q)'
    <2>1. CASE q = r
      BY <2>1, <1>11 DEF Commit
    <2>2. CASE q # r
      <3>1. pc'[q] = pc[q] /\ msg'[q] = msg[q] /\ need'[q] = need[q] /\ rows'[q] = rows[q] /\ lock'[q] = lock[q]
        BY <2>2, <1>11 DEF Commit
      <3> QED BY <3>1
    <2> QED BY <2>1, <2>2
  <1>12. ASSUME NEW r \in Requests, Fails(r) PROVE Alone(q)'
    BY <1>12 DEF Fails
  <1>s. ASSUME NEW r \in Requests, Show(r) PROVE Alone(q)'
    BY <1>s DEF Show
  <1>13. ASSUME NEW t \in Tokens, Expire(t) PROVE Alone(q)'
    BY <1>13 DEF Expire
  <1>14. CASE UNCHANGED vars
    BY <1>14 DEF vars
  <1> QED BY <1>1, <1>2, <1>3, <1>4, <1>5, <1>6, <1>7, <1>8, <1>9, <1>10, <1>11, <1>12, <1>13, <1>14, <1>s
          DEF Next, Step

\* Without a deletion and a reuse, what others wait for in a circle is an update
\* that writes tokens.  There is one at a time, and it would wait for another.
LEMMA NoCircle ==
  TypeOK /\ LabelInv /\ LockInv /\ AloneInv => DeadlockNeedsDeletionOrReuse
  <1> SUFFICES ASSUME TypeOK, LabelInv, LockInv, AloneInv,
                      NEW S \in SUBSET Busy, NEW p \in S, Stuck(S),
                      \A r \in S : msg[r].op # "delete" /\ ~(pc[r] = "write" /\ msg[r].op = "refresh")
               PROVE  FALSE
    BY DEF DeadlockNeedsDeletionOrReuse
  <1> DEFINE Updating(r) == /\ pc[r] \in {"write", "write_again"}
                            /\ msg[r].op \in {"update", "update_both"} /\ lock[r] = "update"
  <1>1. ASSUME NEW r \in S, NEW q \in S, q # r, WaitsFor(r, q) PROVE Updating(q)
    <2>1. r \in Requests /\ q \in Requests /\ Label(r) /\ Label(q) /\ Alone(q)
      BY DEF Busy, LabelInv, AloneInv
    <2>2. PICK p2 \in S \ {q} : WaitsFor(q, p2)
      BY DEF Stuck
    <2>3. pc[q] \in {"rotate", "issue", "lock_user", "write", "write_again"}
      BY <2>2 DEF WaitsFor
    <2>4. pc[q] \in {"write", "write_again"} =>
            \/ Updating(q)
            \/ msg[q].op = "logout" /\ lock[q] = "none" /\ need[q] # {} /\ rows[q] = {}
      BY <2>1, <2>2 DEF Label, Alone, Revoking, WaitsFor
    <2>5. pc[q] # "issue"
      <3>1. p2 \in Requests /\ Label(p2) /\ Alone(p2)
        BY DEF Busy, LabelInv, AloneInv
      <3>2. pc[p2] \in {"rotate", "issue", "lock_user", "write", "write_again"}
        BY DEF Stuck, WaitsFor
      <3>3. lock[p2] # "delete"
        BY <3>1, <3>2 DEF Label, Alone, Reading, Revoking
      <3> QED BY <2>2, <3>3 DEF WaitsFor, Conflict, IssueMode
    <2>6. lock[q] # "none" \/ rows[q] # {}
      BY <1>1 DEF WaitsFor, Conflict, Mode, IssueMode
    <2> QED BY <2>1, <2>3, <2>4, <2>5, <2>6 DEF Label, Reading
  <1> HIDE DEF Updating
  <1>2. PICK q \in S : q # p /\ WaitsFor(p, q)
    BY DEF Stuck
  <1>3. PICK u \in S : u # q /\ WaitsFor(q, u)
    BY DEF Stuck
  <1>4. Updating(q) /\ Updating(u)
    BY <1>1, <1>2, <1>3
  <1>5. q \in Requests /\ u \in Requests
    BY DEF Busy
  <1> QED BY <1>3, <1>4, <1>5 DEF LockInv, Conflict, Updating

-----------------------------------------------------------------------------
(* The theorems.                                                           *)

IInv == /\ TypeOK /\ LabelInv /\ TokenInv /\ RowsInv
        /\ LockInv /\ CascadeInv /\ DeletedHasNoSession /\ AloneInv
        /\ TwiceInv /\ RotationInv /\ OneLivePerFamily
        /\ WithInv /\ CoverInv
        /\ RacedInv /\ EnrolInv /\ SecretIsTheOneShown

LEMMA InvInit == Init => IInv
  <1> SUFFICES ASSUME Init PROVE IInv
    OBVIOUS
  <1>1. TypeOK /\ LabelInv /\ TokenInv
    BY InitInv
  <1>2. Busy = {} /\ \A r \in Requests : pc[r] = "unsent"
    BY DEF Init, Busy
  <1>3. RowsInv /\ LockInv
    BY DEF Init, RowsInv, LockInv, Conflict
  <1>4. DeletedHasNoSession /\ SecretIsTheOneShown /\ AloneInv
    BY DEF Init, AloneInv, Alone, Revoking, DeletedHasNoSession, SecretIsTheOneShown
  <1>5. CascadeInv /\ TwiceInv /\ RotationInv /\ WithInv /\ CoverInv /\ RacedInv /\ EnrolInv
    BY <1>2 DEF CascadeInv, TwiceInv, RotationInv, WithInv, CoverInv, Cover, RacedInv, EnrolInv
  <1>6. ASSUME NEW t \in Tokens, NEW u \in Tokens,
               tok[t] = "live", tok[u] = "live", family[t] = family[u]
        PROVE  t = u
    <2>1. t \in 1..Known /\ u \in 1..Known
      BY <1>6, Shape, FS_CardinalityType DEF Init, Tokens
    <2>2. ~(t < u) /\ ~(u < t)
      BY <1>6, <2>1 DEF Init
    <2> QED BY <2>1, <2>2, Shape
  <1>7. OneLivePerFamily
    BY <1>6 DEF OneLivePerFamily
  <1> QED BY <1>1, <1>3, <1>4, <1>5, <1>7 DEF IInv

LEMMA InvNext == IInv /\ [Next]_vars => IInv'
  BY TypeNext, LabelNext, UsedNext, NewNext, BornNext, RowsNext, LockNext, CascadeNext, AloneNext,
     TwiceNext, RotationNext, WithNext, CoverNext, RacedNext, ShownNext
  DEF IInv, TokenInv

\* The inductive invariant.
THEOREM Inductive == Spec => []IInv
  BY InvInit, InvNext, PTL DEF Spec

\* Every reachable state is well formed; in particular there is always a new id
\* for a token that is issued.
THEOREM TypeCorrect == Spec => []TypeOK
  <1>1. IInv => TypeOK
    BY DEF IInv
  <1> QED BY <1>1, Inductive, PTL

\* A family has one live token, unless two requests rotated one token at once.
THEOREM OneLive == Spec => []OneLivePerFamily
  <1>1. IInv => OneLivePerFamily
    BY DEF IInv
  <1> QED BY <1>1, Inductive, PTL

\* Deleting a user leaves no refresh token, whatever was in flight.
THEOREM DeletedUser == Spec => []DeletedHasNoSession
  <1>1. IInv => DeletedHasNoSession
    BY DEF IInv
  <1> QED BY <1>1, Inductive, PTL

\* Requests wait for each other in a circle only when the user is being deleted
\* or a token was reused.
THEOREM NoDeadlock == Spec => []DeadlockNeedsDeletionOrReuse
  <1>1. IInv => DeadlockNeedsDeletionOrReuse
    BY NoCircle DEF IInv
  <1> QED BY <1>1, Inductive, PTL

\* The secret login asks codes of is the one the user was shown, unless
\* its answer is on its way or lost, or two requests changed it at once.
THEOREM SecretShown == Spec => []SecretIsTheOneShown
  <1>1. IInv => SecretIsTheOneShown
    BY DEF IInv
  <1> QED BY <1>1, Inductive, PTL

\* A family without a live token or a rotation in flight stays so.
THEOREM Ended == Spec => EndedStaysEnded
  <1>1. IInv /\ [Next]_vars =>
          [\A f \in Tokens : InFamily(f) # {} /\ Over(f) => Over(f)']_vars
    BY EndedNext DEF IInv
  <1> QED BY <1>1, Inductive, PTL DEF Spec, EndedStaysEnded

\* What is alive after a revocation was issued by a request in flight with it.
THEOREM Survivors == Spec => SurvivorsWereInFlight
  <1>1. IInv /\ [Next]_vars =>
          [\A r \in Requests :
             pc[r] = "commit" /\ new[r] = None /\ pc'[r] = "done" /\ tok' # tok =>
               \A t \in Tokens :
                 /\ tok'[t] = "live"
                 /\ \/ msg[r].op \in {"update", "update_both"}
                    \/ msg[r].op = "refresh" /\ family[t] = family[msg[r].token]
                 => born[t] \in with[r]]_vars
    BY SurvivorsNext DEF IInv
  <1> QED BY <1>1, Inductive, PTL DEF Spec, SurvivorsWereInFlight
=============================================================================
