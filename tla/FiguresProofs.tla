---------------------------- MODULE FiguresProofs ----------------------------
(***************************************************************************)
(* Figures for workbooks of any size and number, any calendar and any      *)
(* amounts: the scan reads the blocks, the register has the latest row of  *)
(* each job, and the accounting modes reconcile.                           *)
(*                                                                         *)
(* The argument: the flags of the scan count headers and totals; the year  *)
(* is the contents of its workbooks, one after the other; and a sum over   *)
(* the months is regrouped by quarters.  The library's rules of induction  *)
(* are restated for a set of numbers, or of sets, in place of a predicate. *)
(***************************************************************************)
EXTENDS Figures, FiniteSetTheorems, WellFoundedInduction, TLAPS

-----------------------------------------------------------------------------
(* Induction.                                                              *)

\* A set with 0 and every successor has all numbers.
LEMMA NumberInduction ==
  ASSUME NEW N, 0 \in N, \A n \in Nat : n \in N => n + 1 \in N
  PROVE  Nat \subseteq N
  <1>1. SUFFICES ASSUME Nat \ N # {} PROVE FALSE
    OBVIOUS
  <1>2. PICK x \in Nat \ N : \A y \in Nat \ N : <<y, x>> \notin OpToRel(<, Nat)
    BY <1>1, NatLessThanWellFounded, WFMin
  <1>3. \A y \in Nat \ N : ~(y < x)
    BY <1>2 DEF OpToRel
  <1>4. x # 0 /\ x - 1 \in Nat /\ x - 1 < x
    OBVIOUS
  <1> QED BY <1>3, <1>4

\* The subsets of a finite set, with their sizes.
LEMMA Parts ==
  ASSUME NEW S, IsFiniteSet(S)
  PROVE  \A T \in SUBSET S :
           /\ IsFiniteSet(T) /\ Cardinality(T) \in Nat /\ Cardinality(T) <= Cardinality(S)
           /\ Cardinality(T) = 0 <=> T = {}
           /\ \A x \in T : IsFiniteSet(T \ {x}) /\ Cardinality(T \ {x}) = Cardinality(T) - 1
  <1>1. \A T \in SUBSET S : IsFiniteSet(T) /\ Cardinality(T) <= Cardinality(S)
    BY FS_Subset
  <1> QED BY <1>1, FS_CardinalityType, FS_EmptySet, FS_RemoveElement

\* The same for the subsets of a finite set: what holds of the empty one, and of a
\* set if it holds without any one of its members, holds of all.
LEMMA SetInduction ==
  ASSUME NEW S, IsFiniteSet(S), NEW N,
         {} \in N, \A T \in SUBSET S : T # {} /\ (\A x \in T : T \ {x} \in N) => T \in N
  PROVE  SUBSET S \subseteq N
  <1> DEFINE Good == {n \in Nat : \A T \in SUBSET S : Cardinality(T) <= n => T \in N}
  <1>1. 0 \in Good
    <2>1. ASSUME NEW T \in SUBSET S, Cardinality(T) <= 0 PROVE T \in N
      <3>1. T = {}
        BY <2>1, Parts
      <3> QED BY <3>1
    <2> QED BY <2>1
  <1>2. ASSUME NEW n \in Nat, n \in Good PROVE n + 1 \in Good
    <2>1. ASSUME NEW T \in SUBSET S, Cardinality(T) <= n + 1, T # {} PROVE T \in N
      <3>1. \A x \in T : T \ {x} \in SUBSET S /\ Cardinality(T \ {x}) <= n
        BY <2>1, Parts
      <3> QED BY <3>1, <1>2, <2>1
    <2> QED BY <2>1
  <1>3. Nat \subseteq Good
    <2> HIDE DEF Good
    <2> QED BY <1>1, <1>2, NumberInduction
  <1> QED BY <1>3, Parts

-----------------------------------------------------------------------------
(* The sum of a function over a finite set.                                *)

Picked(S) == CHOOSE x \in S : TRUE
AddNext(f, g, T) == IF T = {} THEN 0 ELSE f[Picked(T)] + g[T \ {Picked(T)}]
Sums_(f, S) == CHOOSE g : g = [T \in SUBSET S |-> AddNext(f, g, T)]

LEMMA PickedIn == \A S : S # {} => Picked(S) \in S
  BY DEF Picked

LEMMA SumIsLast == \A f, S : SumFunctionOnSet(f, S) = Sums_(f, S)[S]
  BY DEF SumFunctionOnSet, FoldFunctionOnSet, MapThenFoldSet, Sums_, AddNext, Picked

\* The function the sum is defined by exists: it is made for one size of sets
\* after the other.
LEMMA SumUnfold ==
  ASSUME NEW f, NEW S, IsFiniteSet(S)
  PROVE  \A T \in SUBSET S : Sums_(f, S)[T] = AddNext(f, Sums_(f, S), T)
  <1> DEFINE UpTo(n, g) == /\ DOMAIN g = SUBSET S
                           /\ \A T \in SUBSET S : Cardinality(T) <= n => g[T] = AddNext(f, g, T)
             N == {n \in Nat : \E g : UpTo(n, g)}
  <1>1. 0 \in N
    <2>1. UpTo(0, [T \in SUBSET S |-> 0])
      BY Parts DEF AddNext
    <2> HIDE DEF UpTo
    <2> QED BY <2>1
  <1>2. ASSUME NEW n \in Nat, n \in N PROVE n + 1 \in N
    <2>1. PICK g : UpTo(n, g)
      BY <1>2
    <2> DEFINE h == [T \in SUBSET S |-> IF Cardinality(T) <= n THEN g[T] ELSE AddNext(f, g, T)]
    <2>2. ASSUME NEW T \in SUBSET S, Cardinality(T) <= n + 1 PROVE h[T] = AddNext(f, h, T)
      <3>1. T # {} => h[T \ {Picked(T)}] = g[T \ {Picked(T)}]
        BY <2>2, Parts, PickedIn
      <3>2. AddNext(f, h, T) = AddNext(f, g, T)
        BY <3>1 DEF AddNext
      <3> QED BY <3>2, <2>1
    <2>3. UpTo(n + 1, h)
      BY <2>2
    <2> HIDE DEF UpTo
    <2> QED BY <2>3
  <1>3. Nat \subseteq N
    <2> HIDE DEF N
    <2> QED BY <1>1, <1>2, NumberInduction
  <1>4. PICK g : UpTo(Cardinality(S), g)
    BY <1>3, FS_CardinalityType
  <1> DEFINE h == [T \in SUBSET S |-> g[T]]
  <1>5. ASSUME NEW T \in SUBSET S PROVE g[T] = AddNext(f, h, T)
    <2>1. AddNext(f, h, T) = AddNext(f, g, T)
      BY PickedIn DEF AddNext
    <2> QED BY <2>1, <1>4, Parts
  <1>6. h = [T \in SUBSET S |-> AddNext(f, h, T)]
    <2> HIDE DEF AddNext
    <2> QED BY <1>5
  <1>7. Sums_(f, S) = [T \in SUBSET S |-> AddNext(f, Sums_(f, S), T)]
    BY <1>6 DEF Sums_
  <1> DEFINE s == Sums_(f, S)
  <1>8. s = [T \in SUBSET S |-> AddNext(f, s, T)]
    BY <1>7
  <1> HIDE DEF s
  <1>9. \A T \in SUBSET S : s[T] = AddNext(f, s, T)
    BY <1>8
  <1> QED BY <1>9 DEF s

\* It does not depend on the set it is made for.
LEMMA SumOfPart ==
  ASSUME NEW f, NEW S, IsFiniteSet(S), NEW T \in SUBSET S
  PROVE  Sums_(f, S)[T] = SumFunctionOnSet(f, T)
  <1> DEFINE g == Sums_(f, S)
             h == Sums_(f, T)
  <1>5. IsFiniteSet(T)
    BY FS_Subset

  <1>1. \A U \in SUBSET T : g[U] = AddNext(f, g, U) /\ h[U] = AddNext(f, h, U)
    BY <1>5, SumUnfold
  <1> HIDE DEF g, h
  <1> DEFINE N == {U \in SUBSET T : g[U] = h[U]}
  <1>2. {} \in N
    BY <1>1 DEF AddNext
  <1>3. ASSUME NEW U \in SUBSET T, U # {}, \A x \in U : U \ {x} \in N PROVE U \in N
    BY <1>1, <1>3, PickedIn DEF AddNext
  <1>4. SUBSET T \subseteq N
    <2> HIDE DEF N
    <2> QED BY <1>2, <1>3, Parts, SetInduction
  <1> QED BY <1>4, SumIsLast DEF g, h

LEMMA SumOfNone == \A f : SumFunctionOnSet(f, {}) = 0
  <1> SUFFICES ASSUME NEW f PROVE SumFunctionOnSet(f, {}) = 0
    OBVIOUS
  <1>1. Sums_(f, {})[{}] = AddNext(f, Sums_(f, {}), {})
    BY SumUnfold, FS_EmptySet
  <1> QED BY <1>1, SumIsLast DEF AddNext

\* Taking one element out of a set takes its value out of the sum.
LEMMA SumNext ==
  ASSUME NEW f, NEW S, IsFiniteSet(S), S # {}
  PROVE  SumFunctionOnSet(f, S) = f[Picked(S)] + SumFunctionOnSet(f, S \ {Picked(S)})
  <1> DEFINE g == Sums_(f, S)
  <1>2. g[S] = AddNext(f, g, S)
    BY SumUnfold
  <1>3. g[S] = f[Picked(S)] + g[S \ {Picked(S)}]
    BY <1>2 DEF AddNext
  <1> QED BY <1>3, SumOfPart, SumIsLast

LEMMA SumType ==
  ASSUME NEW f, NEW S, IsFiniteSet(S), \A x \in S : f[x] \in Int
  PROVE  SumFunctionOnSet(f, S) \in Int
  <1> DEFINE N == {T \in SUBSET S : SumFunctionOnSet(f, T) \in Int}
  <1>1. {} \in N
    BY SumOfNone
  <1>2. ASSUME NEW T \in SUBSET S, T # {}, \A x \in T : T \ {x} \in N PROVE T \in N
    <2>1. Picked(T) \in T /\ SumFunctionOnSet(f, T) = f[Picked(T)] + SumFunctionOnSet(f, T \ {Picked(T)})
      BY <1>2, PickedIn, Parts, SumNext
    <2> QED BY <1>2, <2>1
  <1>3. SUBSET S \subseteq N
    <2> HIDE DEF N
    <2> QED BY <1>1, <1>2, SetInduction
  <1> QED BY <1>3

\* Any summand may be taken out.
LEMMA SumTake ==
  ASSUME NEW f, NEW S, IsFiniteSet(S), \A x \in S : f[x] \in Int, NEW a \in S
  PROVE  SumFunctionOnSet(f, S) = f[a] + SumFunctionOnSet(f, S \ {a})
  <1> DEFINE N == {T \in SUBSET S : \A x \in T :
                      SumFunctionOnSet(f, T) = f[x] + SumFunctionOnSet(f, T \ {x})}
  <1>1. {} \in N
    OBVIOUS
  <1>2. ASSUME NEW T \in SUBSET S, \A x \in T : T \ {x} \in N, NEW x \in T
        PROVE  SumFunctionOnSet(f, T) = f[x] + SumFunctionOnSet(f, T \ {x})
    <2> DEFINE y == Picked(T)
               U == (T \ {x}) \ {y}
               u == SumFunctionOnSet(f, U)
    <2>1. y \in T /\ SumFunctionOnSet(f, T) = f[y] + SumFunctionOnSet(f, T \ {y})
      BY PickedIn, Parts, SumNext
    <2> HIDE DEF y
    <2>2. CASE x # y
      <3>1. SumFunctionOnSet(f, T \ {x}) = f[y] + u
        BY <1>2, <2>1, <2>2
      <3>2. (T \ {y}) \ {x} = U
        OBVIOUS
      <3>3. SumFunctionOnSet(f, T \ {y}) = f[x] + u
        BY <1>2, <2>1, <2>2, <3>2
      <3>4. u \in Int /\ f[x] \in Int /\ f[y] \in Int
        BY <2>1, Parts, SumType
      <3> HIDE DEF u
      <3> QED BY <2>1, <3>1, <3>3, <3>4
    <2> QED BY <2>1, <2>2
  <1>3. SUBSET S \subseteq N
    <2>1. \A T \in SUBSET S : T # {} /\ (\A x \in T : T \ {x} \in N) => T \in N
      BY <1>2
    <2> HIDE DEF N
    <2> QED BY <1>1, <2>1, SetInduction
  <1> QED BY <1>3

LEMMA SumAdd ==
  ASSUME NEW f, NEW S, IsFiniteSet(S), NEW a, a \notin S, \A x \in S \cup {a} : f[x] \in Int
  PROVE  SumFunctionOnSet(f, S \cup {a}) = f[a] + SumFunctionOnSet(f, S)
  <1>1. IsFiniteSet(S \cup {a}) /\ (S \cup {a}) \ {a} = S
    BY FS_AddElement
  <1> QED BY <1>1, SumTake

\* Only the values on the set count.
LEMMA SumEqual ==
  ASSUME NEW f, NEW g, NEW S, IsFiniteSet(S), \A x \in S : f[x] = g[x]
  PROVE  SumFunctionOnSet(f, S) = SumFunctionOnSet(g, S)
  <1> DEFINE N == {T \in SUBSET S : SumFunctionOnSet(f, T) = SumFunctionOnSet(g, T)}
  <1>1. {} \in N
    BY SumOfNone
  <1>2. ASSUME NEW T \in SUBSET S, T # {}, \A x \in T : T \ {x} \in N PROVE T \in N
    <2>1. /\ Picked(T) \in T
          /\ SumFunctionOnSet(f, T) = f[Picked(T)] + SumFunctionOnSet(f, T \ {Picked(T)})
          /\ SumFunctionOnSet(g, T) = g[Picked(T)] + SumFunctionOnSet(g, T \ {Picked(T)})
      BY <1>2, PickedIn, Parts, SumNext
    <2> QED BY <1>2, <2>1
  <1>3. SUBSET S \subseteq N
    <2> HIDE DEF N
    <2> QED BY <1>1, <1>2, SetInduction
  <1> QED BY <1>3

LEMMA SumMinus ==
  ASSUME NEW f, NEW g, NEW h, NEW S, IsFiniteSet(S),
         \A x \in S : f[x] \in Int /\ g[x] \in Int /\ h[x] = f[x] - g[x]
  PROVE  SumFunctionOnSet(h, S) = SumFunctionOnSet(f, S) - SumFunctionOnSet(g, S)
  <1> DEFINE N == {T \in SUBSET S :
                     SumFunctionOnSet(h, T) = SumFunctionOnSet(f, T) - SumFunctionOnSet(g, T)}
  <1>1. {} \in N
    BY SumOfNone
  <1>2. ASSUME NEW T \in SUBSET S, T # {}, \A x \in T : T \ {x} \in N PROVE T \in N
    <2> DEFINE y == Picked(T)
               U == T \ {y}
    <2>1. /\ SumFunctionOnSet(f, T) = f[y] + SumFunctionOnSet(f, U)
          /\ SumFunctionOnSet(g, T) = g[y] + SumFunctionOnSet(g, U)
          /\ SumFunctionOnSet(h, T) = h[y] + SumFunctionOnSet(h, U)
          /\ y \in T
      BY <1>2, PickedIn, Parts, SumNext
    <2>2. SumFunctionOnSet(h, U) = SumFunctionOnSet(f, U) - SumFunctionOnSet(g, U)
      BY <1>2, <2>1
    <2>3. SumFunctionOnSet(f, U) \in Int /\ SumFunctionOnSet(g, U) \in Int
      BY Parts, SumType
    <2> QED BY <2>1, <2>2, <2>3
  <1>3. SUBSET S \subseteq N
    <2> HIDE DEF N
    <2> QED BY <1>1, <1>2, SetInduction
  <1> QED BY <1>3

\* A sum may be taken group by group.
LEMMA SumGroups ==
  ASSUME NEW f, NEW S, IsFiniteSet(S), \A x \in S : f[x] \in Int,
         NEW K, IsFiniteSet(K), NEW g, \A x \in S : g[x] \in K
  PROVE  SumFunctionOnSet(f, S)
           = SumFunctionOnSet([k \in K |-> SumFunctionOnSet(f, {x \in S : g[x] = k})], K)
  <1> DEFINE In(T, k) == {x \in T : g[x] = k}
             By(T) == [k \in K |-> SumFunctionOnSet(f, In(T, k))]
             N == {T \in SUBSET S : SumFunctionOnSet(f, T) = SumFunctionOnSet(By(T), K)}
  <1>0. \A T \in SUBSET S : \A k \in K : SumFunctionOnSet(f, In(T, k)) \in Int /\ IsFiniteSet(In(T, k))
    <2> SUFFICES ASSUME NEW T \in SUBSET S, NEW k \in K
                 PROVE  SumFunctionOnSet(f, In(T, k)) \in Int /\ IsFiniteSet(In(T, k))
      OBVIOUS
    <2>1. In(T, k) \in SUBSET S
      OBVIOUS
    <2>2. IsFiniteSet(In(T, k)) /\ \A x \in In(T, k) : f[x] \in Int
      BY <2>1, FS_Subset
    <2> HIDE DEF In
    <2> QED BY <2>2, SumType
  <1>1. {} \in N
    <2>1. ASSUME NEW k \in K PROVE By({})[k] = 0
      <3>1. In({}, k) = {}
        OBVIOUS
      <3> QED BY <3>1, SumOfNone
    <2>2. By({}) \in [K -> Int]
      BY <2>1
    <2> DEFINE M == {L \in SUBSET K : SumFunctionOnSet(By({}), L) = 0}
    <2> HIDE DEF By
    <2>3. {} \in M
      BY SumOfNone
    <2>4. ASSUME NEW L \in SUBSET K, L # {}, \A x \in L : L \ {x} \in M PROVE L \in M
      <3>1. /\ Picked(L) \in L
            /\ SumFunctionOnSet(By({}), L) = By({})[Picked(L)] + SumFunctionOnSet(By({}), L \ {Picked(L)})
        BY <2>4, PickedIn, Parts, SumNext
      <3> QED BY <3>1, <2>1, <2>4
    <2>5. SUBSET K \subseteq M
      <3> HIDE DEF M
      <3> QED BY <2>3, <2>4, SetInduction
    <2> QED BY <2>5, SumOfNone
  <1>2. ASSUME NEW T \in SUBSET S, T # {}, \A x \in T : T \ {x} \in N PROVE T \in N
    <2> DEFINE a == Picked(T)
               U == T \ {a}
               k0 == g[a]
               u == SumFunctionOnSet(By(U), K \ {k0})
    <2>1. a \in T /\ SumFunctionOnSet(f, T) = f[a] + SumFunctionOnSet(f, U)
      BY <1>2, PickedIn, Parts, SumNext
    <2> HIDE DEF a
    <2>2. SumFunctionOnSet(f, U) = SumFunctionOnSet(By(U), K) /\ U \in SUBSET S /\ k0 \in K
      BY <2>1, <1>2
    <2>3. By(T)[k0] = f[a] + By(U)[k0]
      <3>1. In(T, k0) = In(U, k0) \cup {a} /\ a \notin In(U, k0)
        BY <2>1
      <3>2. IsFiniteSet(In(U, k0)) /\ \A x \in In(U, k0) \cup {a} : f[x] \in Int
        BY <2>1, <2>2, <1>0
      <3>3. SumFunctionOnSet(f, In(T, k0)) = f[a] + SumFunctionOnSet(f, In(U, k0))
        <4> HIDE DEF In
        <4> QED BY <3>1, <3>2, SumAdd
      <3> QED BY <3>3, <2>2
    <2>4. \A k \in K \ {k0} : By(T)[k] = By(U)[k]
      <3> SUFFICES ASSUME NEW k \in K \ {k0} PROVE By(T)[k] = By(U)[k]
        OBVIOUS
      <3>1. In(T, k) = In(U, k)
        BY <2>1
      <3> HIDE DEF In
      <3> QED BY <3>1
    <2>5. \A k \in K : By(T)[k] \in Int /\ By(U)[k] \in Int
      BY <1>0, <2>2
    <2> HIDE DEF By
    <2>6. SumFunctionOnSet(By(T), K) = By(T)[k0] + SumFunctionOnSet(By(T), K \ {k0})
      BY <2>2, <2>5, SumTake
    <2>10. SumFunctionOnSet(By(U), K) = By(U)[k0] + SumFunctionOnSet(By(U), K \ {k0})
      <3> DEFINE v == By(U)
      <3>1. \A k \in K : v[k] \in Int
        BY <2>5
      <3> HIDE DEF v
      <3>2. SumFunctionOnSet(v, K) = v[k0] + SumFunctionOnSet(v, K \ {k0})
        BY <3>1, <2>2, SumTake
      <3> QED BY <3>2 DEF v
    <2>7. IsFiniteSet(K \ {k0})
      BY FS_RemoveElement
    <2>8. SumFunctionOnSet(By(T), K \ {k0}) = u /\ u \in Int
      BY <2>4, <2>5, <2>7, SumEqual, SumType
    <2> HIDE DEF u, k0
    <2>9. f[a] \in Int /\ By(U)[k0] \in Int
      BY <2>1, <2>2, <2>5
    <2> QED BY <2>1, <2>2, <2>3, <2>6, <2>8, <2>9, <2>10 DEF u
  <1>3. SUBSET S \subseteq N
    <2> HIDE DEF N
    <2> QED BY <1>1, <1>2, SetInduction
  <1> QED BY <1>3

LEMMA SumJoin ==
  ASSUME NEW f, NEW S, IsFiniteSet(S), NEW T, IsFiniteSet(T), S \cap T = {},
         \A x \in S \cup T : f[x] \in Int
  PROVE  SumFunctionOnSet(f, S \cup T) = SumFunctionOnSet(f, S) + SumFunctionOnSet(f, T)
  <1> DEFINE N == {U \in SUBSET T :
                     SumFunctionOnSet(f, S \cup U) = SumFunctionOnSet(f, S) + SumFunctionOnSet(f, U)}
  <1>0. SumFunctionOnSet(f, S) \in Int
    BY SumType
  <1>1. {} \in N
    <2>1. S \cup {} = S
      OBVIOUS
    <2> QED BY <1>0, <2>1, SumOfNone
  <1>2. ASSUME NEW U \in SUBSET T, U # {}, \A x \in U : U \ {x} \in N PROVE U \in N
    <2> DEFINE a == Picked(U)
               W == U \ {a}
    <2>1. a \in U
      BY <1>2, PickedIn
    <2> HIDE DEF a
    <2>2. IsFiniteSet(U) /\ IsFiniteSet(W) /\ IsFiniteSet(S \cup W)
      BY <2>1, Parts, FS_Union
    <2>3. SumFunctionOnSet(f, U) = f[a] + SumFunctionOnSet(f, W)
      BY <2>1, <2>2, SumTake
    <2>4. S \cup U = (S \cup W) \cup {a} /\ a \notin S \cup W
      BY <2>1
    <2>5. SumFunctionOnSet(f, (S \cup W) \cup {a}) = f[a] + SumFunctionOnSet(f, S \cup W)
      <3>1. \A x \in (S \cup W) \cup {a} : f[x] \in Int
        BY <2>1
      <3> QED BY <2>2, <2>4, <3>1, SumAdd
    <2>6. SumFunctionOnSet(f, S \cup W) = SumFunctionOnSet(f, S) + SumFunctionOnSet(f, W)
      BY <1>2, <2>1
    <2>7. SumFunctionOnSet(f, W) \in Int /\ f[a] \in Int
      BY <2>1, <2>2, SumType
    <2> DEFINE all == SumFunctionOnSet(f, S \cup U)
               s == SumFunctionOnSet(f, S)
               u == SumFunctionOnSet(f, U)
               w == SumFunctionOnSet(f, W)
    <2>8. u = f[a] + w /\ all = f[a] + (s + w) /\ s \in Int /\ w \in Int /\ f[a] \in Int
      BY <1>0, <2>3, <2>4, <2>5, <2>6, <2>7
    <2>9. all = s + u
      <3> HIDE DEF all, s, u, w, a
      <3> QED BY <2>8
    <2> QED BY <2>9
  <1>3. SUBSET T \subseteq N
    <2> HIDE DEF N
    <2> QED BY <1>1, <1>2, SetInduction
  <1> QED BY <1>3

\* A sum may be taken over other names of the summands.
LEMMA SumMove ==
  ASSUME NEW f, NEW S, IsFiniteSet(S), NEW e,
         \A x, y \in S : e[x] = e[y] => x = y, \A x \in S : f[e[x]] \in Int
  PROVE  SumFunctionOnSet(f, {e[x] : x \in S}) = SumFunctionOnSet([x \in S |-> f[e[x]]], S)
  <1> DEFINE Im(U) == {e[x] : x \in U}
             h == [x \in S |-> f[e[x]]]
             N == {U \in SUBSET S : SumFunctionOnSet(f, Im(U)) = SumFunctionOnSet(h, U)}
  <1>0. \A U \in SUBSET S : IsFiniteSet(U) /\ IsFiniteSet(Im(U))
    <2> SUFFICES ASSUME NEW U \in SUBSET S PROVE IsFiniteSet(U) /\ IsFiniteSet(Im(U))
      OBVIOUS
    <2>1. IsFiniteSet(U)
      BY FS_Subset
    <2> DEFINE d == [x \in U |-> e[x]]
    <2>2. d \in Surjection(U, Im(U))
      BY DEF Surjection
    <2> HIDE DEF d, Im
    <2> QED BY <2>1, <2>2, FS_Surjection
  <1>1. {} \in N
    <2>1. Im({}) = {}
      OBVIOUS
    <2> QED BY <2>1, SumOfNone
  <1>2. ASSUME NEW U \in SUBSET S, U # {}, \A x \in U : U \ {x} \in N PROVE U \in N
    <2> DEFINE a == Picked(U)
               W == U \ {a}
    <2>1. a \in U
      BY <1>2, PickedIn
    <2> HIDE DEF a
    <2>2. SumFunctionOnSet(h, U) = h[a] + SumFunctionOnSet(h, W)
      <3>1. \A x \in U : h[x] \in Int
        OBVIOUS
      <3>2. IsFiniteSet(U)
        BY FS_Subset
      <3> HIDE DEF h
      <3> QED BY <2>1, <3>1, <3>2, SumTake
    <2>3. Im(U) = Im(W) \cup {e[a]} /\ e[a] \notin Im(W)
      BY <2>1
    <2>4. \A x \in Im(W) \cup {e[a]} : f[x] \in Int
      BY <2>1
    <2>5. IsFiniteSet(Im(W))
      BY <1>0
    <2> HIDE DEF Im
    <2>6. SumFunctionOnSet(f, Im(W) \cup {e[a]}) = f[e[a]] + SumFunctionOnSet(f, Im(W))
      BY <2>3, <2>4, <2>5, SumAdd
    <2>7. SumFunctionOnSet(f, Im(W)) = SumFunctionOnSet(h, W)
      BY <1>2, <2>1
    <2>8. h[a] = f[e[a]]
      BY <2>1
    <2> HIDE DEF h
    <2> QED BY <2>2, <2>3, <2>6, <2>7, <2>8
  <1>3. SUBSET S \subseteq N
    <2> HIDE DEF N
    <2> QED BY <1>1, <1>2, SetInduction
  <1>4. S \in N
    <2> HIDE DEF N
    <2> QED BY <1>3
  <1> QED BY <1>4

-----------------------------------------------------------------------------
(* Numbers in their order.                                                 *)

Rank(S, i) == Cardinality({j \in S : j <= i})

LEMMA Ranks ==
  ASSUME NEW S \in SUBSET Nat, IsFiniteSet(S)
  PROVE  /\ \A i \in S : Rank(S, i) \in 1..Cardinality(S)
         /\ \A i, j \in S : i < j => Rank(S, i) < Rank(S, j)
         /\ \A k \in 1..Cardinality(S) : \E i \in S : Rank(S, i) = k
  <1> DEFINE Below(i) == {j \in S : j <= i}
             n == Cardinality(S)
             r == [i \in S |-> Rank(S, i)]
  <1>0. n \in Nat
    BY FS_CardinalityType
  <1>1. ASSUME NEW i \in S
        PROVE  /\ Below(i) \in SUBSET S /\ i \in Below(i) /\ IsFiniteSet(Below(i))
               /\ Rank(S, i) = Cardinality(Below(i)) /\ Rank(S, i) \in 1..n
    <2>1. Below(i) \in SUBSET S /\ i \in Below(i)
      OBVIOUS
    <2> HIDE DEF Below
    <2>2. IsFiniteSet(Below(i)) /\ Cardinality(Below(i)) \in Nat /\ Cardinality(Below(i)) # 0
          /\ Cardinality(Below(i)) <= n /\ n \in Nat
      BY <2>1, Parts, FS_CardinalityType
    <2> QED BY <2>1, <2>2 DEF Rank, Below
  <1>2. ASSUME NEW i \in S, NEW j \in S, i < j PROVE Rank(S, i) < Rank(S, j)
    <2>3. i \in Nat /\ j \in Nat /\ S \subseteq Nat
      OBVIOUS
    <2>4. j \in Below(j) /\ j \notin Below(i)
      BY <1>2, <2>3
    <2>5. \A x \in Below(i) : x \in Below(j)
      BY <1>2, <2>3
    <2>1. Below(i) \in SUBSET Below(j) /\ Below(i) # Below(j)
      <3> HIDE DEF Below
      <3> QED BY <2>4, <2>5
    <2>2. IsFiniteSet(Below(j)) /\ Rank(S, i) = Cardinality(Below(i)) /\ Rank(S, j) = Cardinality(Below(j))
          /\ Rank(S, i) \in Nat /\ Rank(S, j) \in Nat
      BY <1>1
    <2> HIDE DEF Below
    <2> QED BY <2>1, <2>2, FS_Subset
  <1>3. r \in Injection(S, 1..n)
    <2>1. r \in [S -> 1..n]
      BY <1>1
    <2>2. ASSUME NEW i \in S, NEW j \in S, r[i] = r[j] PROVE i = j
      <3>1. Rank(S, i) = Rank(S, j)
        BY <2>2
      <3>5. Rank(S, i) \in 1..n /\ Rank(S, j) \in 1..n
        BY <1>1
      <3>2. Rank(S, i) \in Nat /\ Rank(S, j) \in Nat
        BY <3>5
      <3>3. ~(i < j) /\ ~(j < i)
        <4> HIDE DEF r, n, Below
        <4> QED BY <1>2, <3>1, <3>2
      <3>4. i \in Nat /\ j \in Nat
        OBVIOUS
      <3> QED BY <3>3, <3>4
    <2> QED BY <2>1, <2>2 DEF Injection, IsInjective
  <1>4. r \in Surjection(S, 1..n)
    <2>1. IsFiniteSet(1..n) /\ Cardinality(1..n) = n
      BY FS_CardinalityType, FS_Interval
    <2> HIDE DEF n
    <2> QED BY <2>1, <1>3, FS_Injection DEF n
  <1> QED BY <1>1, <1>2, <1>4 DEF Surjection

\* Ascending lists every member of a finite set of numbers once, in order.
LEMMA AscendingIs ==
  ASSUME NEW S \in SUBSET Nat, IsFiniteSet(S)
  PROVE  /\ Ascending(S) \in [1..Cardinality(S) -> S]
         /\ \A k \in 1..Cardinality(S) : Rank(S, Ascending(S)[k]) = k
         /\ \A i \in S : Rank(S, i) \in 1..Cardinality(S) /\ Ascending(S)[Rank(S, i)] = i
  <1> DEFINE s == Ascending(S)
  <1>1. \A k \in 1..Cardinality(S) : s[k] \in S /\ Rank(S, s[k]) = k
    BY Ranks DEF Ascending, Rank
  <1>2. s \in [1..Cardinality(S) -> S]
    BY <1>1 DEF Ascending
  <1> HIDE DEF s
  <1>3. ASSUME NEW i \in S PROVE s[Rank(S, i)] = i
    <2>0. Rank(S, i) \in 1..Cardinality(S)
      BY Ranks
    <2>1. PICK j \in S : s[Rank(S, i)] = j /\ Rank(S, j) = Rank(S, i)
      BY <2>0, <1>1
    <2>2. \A x, y \in S : x < y => Rank(S, x) < Rank(S, y)
      BY Ranks
    <2>3. ~(j < i) /\ ~(i < j)
      BY <2>0, <2>1, <2>2
    <2>4. i \in Nat /\ j \in Nat
      OBVIOUS
    <2> QED BY <2>1, <2>3, <2>4
  <1> QED BY <1>1, <1>2, <1>3, Ranks DEF s

\* A larger number comes last.
LEMMA AscendingGrows ==
  ASSUME NEW S \in SUBSET Nat, IsFiniteSet(S), NEW n \in Nat, \A i \in S : i < n
  PROVE  /\ Cardinality(S \cup {n}) = Cardinality(S) + 1
         /\ \A k \in 1..Cardinality(S) : Ascending(S \cup {n})[k] = Ascending(S)[k]
         /\ Ascending(S \cup {n})[Cardinality(S) + 1] = n
  <1>0. \A i \in S : i \in Nat /\ i < n /\ ~(n <= i)
    OBVIOUS
  <1> DEFINE T == S \cup {n}
  <1>1. T \in SUBSET Nat /\ IsFiniteSet(T) /\ Cardinality(T) = Cardinality(S) + 1 /\ Cardinality(S) \in Nat
    BY FS_AddElement, FS_CardinalityType
  <1>2. ASSUME NEW i \in S PROVE Rank(T, i) = Rank(S, i)
    <2>1. {j \in T : j <= i} = {j \in S : j <= i}
      <3>1. ~(n <= i)
        BY <1>0
      <3>2. \A j \in T : j <= i => j \in S
        BY <3>1 DEF T
      <3>3. S \subseteq T
        BY DEF T
      <3> QED BY <3>2, <3>3
    <2> QED BY <2>1 DEF Rank
  <1>3. Rank(T, n) = Cardinality(T)
    <2>1. \A j \in T : j <= n
      BY <1>0
    <2>2. {j \in T : j <= n} = T
      BY <2>1
    <2> QED BY <2>2 DEF Rank
  <1> HIDE DEF T
  <1>4. S \subseteq T /\ n \in T
    BY DEF T
  <1>5. ASSUME NEW k \in 1..Cardinality(S) PROVE Ascending(T)[k] = Ascending(S)[k]
    <2>1. Ascending(S)[k] \in S /\ Rank(S, Ascending(S)[k]) = k
      BY AscendingIs
    <2>2. Rank(T, Ascending(S)[k]) = k /\ Ascending(S)[k] \in T
      BY <2>1, <1>2, <1>4
    <2>3. \A i \in T : Ascending(T)[Rank(T, i)] = i
      BY <1>1, AscendingIs
    <2> QED BY <2>2, <2>3
  <1>6. Ascending(T)[Cardinality(S) + 1] = n
    BY <1>1, <1>3, <1>4, AscendingIs
  <1> QED BY <1>1, <1>5, <1>6 DEF T

\* The numbers up to n are in order.
LEMMA AscendingAll ==
  ASSUME NEW n \in Nat
  PROVE  Ascending(1..n) = [k \in 1..n |-> k]
  <1>1. IsFiniteSet(1..n) /\ Cardinality(1..n) = n /\ 1..n \in SUBSET Nat
    BY FS_Interval
  <1>2. ASSUME NEW k \in 1..n PROVE Rank(1..n, k) = k
    <2>1. {j \in 1..n : j <= k} = 1..k
      OBVIOUS
    <2>2. Cardinality(1..k) = k
      BY FS_Interval
    <2> QED BY <2>1, <2>2 DEF Rank
  <1> DEFINE s == Ascending(1..n)
  <1>3. s \in [1..n -> 1..n] /\ \A k \in 1..n : s[k] = k
    BY <1>1, <1>2, AscendingIs
  <1> HIDE DEF s
  <1>4. s = [k \in 1..n |-> k]
    BY <1>3
  <1> QED BY <1>4 DEF s

LEMMA MaxIs ==
  ASSUME NEW S \in SUBSET Nat, IsFiniteSet(S), S # {}
  PROVE  Max(S) \in S /\ \A i \in S : Max(S) >= i
  <1>1. Cardinality(S) \in Nat /\ Cardinality(S) # 0
    BY FS_CardinalityType, FS_EmptySet
  <1>2. PICK i \in S : Rank(S, i) = Cardinality(S)
    BY <1>1, Ranks
  <1>3. ASSUME NEW j \in S PROVE i >= j
    <2>1. Rank(S, j) \in 1..Cardinality(S)
      BY Ranks
    <2>2. i < j => Rank(S, i) < Rank(S, j)
      BY Ranks
    <2>3. ~(i < j)
      BY <1>1, <1>2, <2>1, <2>2
    <2>4. i \in Nat /\ j \in Nat
      OBVIOUS
    <2> QED BY <2>3, <2>4
  <1> QED BY <1>3 DEF Max

LEMMA MinIs ==
  ASSUME NEW S \in SUBSET Nat, IsFiniteSet(S), S # {}
  PROVE  Min(S) \in S /\ \A i \in S : Min(S) <= i
  <1>1. Cardinality(S) \in Nat /\ Cardinality(S) # 0
    BY FS_CardinalityType, FS_EmptySet
  <1>2. PICK i \in S : Rank(S, i) = 1
    BY <1>1, Ranks
  <1>3. ASSUME NEW j \in S PROVE i <= j
    <2>1. Rank(S, j) \in 1..Cardinality(S)
      BY Ranks
    <2>2. j < i => Rank(S, j) < Rank(S, i)
      BY Ranks
    <2>3. ~(j < i)
      BY <1>1, <1>2, <2>1, <2>2
    <2>4. i \in Nat /\ j \in Nat
      OBVIOUS
    <2> QED BY <2>3, <2>4
  <1> QED BY <1>3 DEF Min

-----------------------------------------------------------------------------
(* Sequences of sequences.                                                 *)

LEMMA AppendIs ==
  ASSUME NEW X, NEW s \in Seq(X), NEW c
  PROVE  Append(s, c) = [i \in 1..(Len(s) + 1) |-> IF i = Len(s) + 1 THEN c ELSE s[i]]
  <1> DEFINE t == Append(s, c)
             Y == X \cup {c}
  <1>1. s \in Seq(Y) /\ c \in Y
    OBVIOUS
  <1> HIDE DEF Y
  <1>2. t \in Seq(Y) /\ Len(t) = Len(s) + 1 /\ Len(s) \in Nat
    BY <1>1
  <1>3. \A i \in 1..(Len(s) + 1) : t[i] = IF i = Len(s) + 1 THEN c ELSE s[i]
    BY <1>1
  <1>4. t = [i \in 1..(Len(s) + 1) |-> t[i]]
    <2> HIDE DEF t
    <2> QED BY <1>2
  <1> HIDE DEF t
  <1>5. t = [i \in 1..(Len(s) + 1) |-> IF i = Len(s) + 1 THEN c ELSE s[i]]
    BY <1>3, <1>4
  <1> QED BY <1>5 DEF t

Flat(ss) == CHOOSE g : g = [i \in 1..Len(ss) |-> IF i = 1 THEN ss[i] ELSE g[i - 1] \o ss[i]]

LEMMA FlatUnfold ==
  ASSUME NEW X, NEW ss \in Seq(Seq(X))
  PROVE  \A i \in 1..Len(ss) : /\ Flat(ss)[i] \in Seq(X)
                               /\ Flat(ss)[i] = IF i = 1 THEN ss[i] ELSE Flat(ss)[i - 1] \o ss[i]
  <1> DEFINE Next_(g, i) == IF i = 1 THEN ss[i] ELSE g[i - 1] \o ss[i]
             UpTo(n, g) == DOMAIN g = 1..Len(ss) /\ \A i \in 1..Len(ss) : i <= n => g[i] = Next_(g, i)
             N == {n \in Nat : \E g : UpTo(n, g)}
  <1>1. 0 \in N
    <2>1. UpTo(0, ss)
      OBVIOUS
    <2> HIDE DEF UpTo
    <2> QED BY <2>1
  <1>2. ASSUME NEW n \in Nat, n \in N PROVE n + 1 \in N
    <2>1. PICK g : UpTo(n, g)
      BY <1>2
    <2> DEFINE h == [i \in 1..Len(ss) |-> IF i <= n THEN g[i] ELSE Next_(g, i)]
    <2>2. ASSUME NEW i \in 1..Len(ss), i <= n + 1 PROVE h[i] = Next_(h, i)
      <3>1. i # 1 => h[i - 1] = g[i - 1]
        BY <2>2
      <3>2. Next_(h, i) = Next_(g, i)
        BY <3>1
      <3> QED BY <3>2, <2>1
    <2>3. UpTo(n + 1, h)
      BY <2>2
    <2> HIDE DEF UpTo
    <2> QED BY <2>3
  <1>3. Nat \subseteq N
    <2> HIDE DEF N
    <2> QED BY <1>1, <1>2, NumberInduction
  <1>4. PICK g : UpTo(Len(ss), g)
    <2>1. Len(ss) \in Nat
      OBVIOUS
    <2>2. Len(ss) \in N
      <3> HIDE DEF N
      <3> QED BY <1>3, <2>1
    <2> HIDE DEF UpTo
    <2> QED BY <2>2
  <1> DEFINE h == [i \in 1..Len(ss) |-> g[i]]
  <1>5. h = [i \in 1..Len(ss) |-> Next_(h, i)]
    <2>0. \A i \in 1..Len(ss) : i <= Len(ss)
      OBVIOUS
    <2>1. \A i \in 1..Len(ss) : g[i] = Next_(g, i)
      <3> HIDE DEF Next_
      <3> QED BY <1>4, <2>0
    <2>2. ASSUME NEW i \in 1..Len(ss) PROVE Next_(h, i) = Next_(g, i)
      <3>1. i # 1 => h[i - 1] = g[i - 1]
        OBVIOUS
      <3> QED BY <3>1
    <2> HIDE DEF Next_
    <2> QED BY <2>1, <2>2
  <1>6. Flat(ss) = [i \in 1..Len(ss) |-> Next_(Flat(ss), i)]
    <2> HIDE DEF h
    <2> QED BY <1>5 DEF Flat
  <1> DEFINE f == Flat(ss)
  <1>7. \A i \in 1..Len(ss) : f[i] = Next_(f, i)
    <2>1. f = [i \in 1..Len(ss) |-> Next_(f, i)]
      BY <1>6
    <2> HIDE DEF f
    <2> QED BY <2>1
  <1> HIDE DEF f
  <1> DEFINE M == {n \in Nat : \A i \in 1..Len(ss) : i <= n => f[i] \in Seq(X)}
  <1>8. 0 \in M
    OBVIOUS
  <1>9. ASSUME NEW n \in Nat, n \in M PROVE n + 1 \in M
    <2>1. ASSUME NEW i \in 1..Len(ss), i <= n + 1 PROVE f[i] \in Seq(X)
      <3>1. ss[i] \in Seq(X)
        OBVIOUS
      <3>2. i # 1 => i - 1 \in 1..Len(ss) /\ i - 1 <= n
        BY <2>1
      <3>3. i # 1 => f[i - 1] \in Seq(X)
        BY <1>9, <3>2
      <3>4. f[i] = IF i = 1 THEN ss[i] ELSE f[i - 1] \o ss[i]
        BY <1>7
      <3> HIDE DEF Next_
      <3>5. CASE i = 1
        BY <3>1, <3>4, <3>5
      <3>6. CASE i # 1
        BY <3>1, <3>3, <3>4, <3>6
      <3> QED BY <3>5, <3>6
    <2> QED BY <2>1
  <1>10. Nat \subseteq M
    <2> HIDE DEF M
    <2> QED BY <1>8, <1>9, NumberInduction
  <1>11. ASSUME NEW i \in 1..Len(ss) PROVE f[i] \in Seq(X)
    <2>1. i \in Nat /\ i <= i
      OBVIOUS
    <2>2. i \in M
      <3> HIDE DEF M
      <3> QED BY <1>10, <2>1
    <2> QED BY <2>1, <2>2
  <1> QED BY <1>7, <1>11 DEF f

LEMMA FlattenIsLast == \A ss : FlattenSeq(ss) = IF Len(ss) = 0 THEN ss ELSE Flat(ss)[Len(ss)]
  BY DEF FlattenSeq, Flat

LEMMA FlattenAppend ==
  ASSUME NEW X, NEW ss \in Seq(Seq(X)), NEW t \in Seq(X)
  PROVE  /\ FlattenSeq(ss) \in Seq(X)
         /\ FlattenSeq(Append(ss, t)) = FlattenSeq(ss) \o t
  <1> DEFINE uu == Append(ss, t)
             f == Flat(ss)
             g == Flat(uu)
  <1>1. uu \in Seq(Seq(X)) /\ Len(uu) = Len(ss) + 1 /\ uu[Len(uu)] = t
        /\ \A i \in 1..Len(ss) : uu[i] = ss[i]
    OBVIOUS
  <1>2. \A i \in 1..Len(ss) : f[i] \in Seq(X) /\ f[i] = IF i = 1 THEN ss[i] ELSE f[i - 1] \o ss[i]
    BY FlatUnfold
  <1> HIDE DEF uu
  <1>3. \A i \in 1..Len(uu) : g[i] \in Seq(X) /\ g[i] = IF i = 1 THEN uu[i] ELSE g[i - 1] \o uu[i]
    BY <1>1, FlatUnfold
  <1> HIDE DEF f, g
  <1> DEFINE N == {n \in Nat : \A i \in 1..Len(ss) : i <= n => f[i] = g[i]}
  <1>4. 0 \in N
    OBVIOUS
  <1>5. ASSUME NEW n \in Nat, n \in N PROVE n + 1 \in N
    <2>1. ASSUME NEW i \in 1..Len(ss), i <= n + 1 PROVE f[i] = g[i]
      <3>1. i # 1 => f[i - 1] = g[i - 1]
        BY <1>5, <2>1
      <3>2. i \in 1..Len(uu) /\ uu[i] = ss[i]
        BY <1>1
      <3> QED BY <1>2, <1>3, <3>1, <3>2
    <2> QED BY <2>1
  <1>6. Nat \subseteq N
    <2> HIDE DEF N
    <2> QED BY <1>4, <1>5, NumberInduction
  <1>7. FlattenSeq(ss) = (IF Len(ss) = 0 THEN ss ELSE f[Len(ss)]) /\ FlattenSeq(uu) = g[Len(uu)]
    BY <1>1, FlattenIsLast DEF f, g
  <1>8. CASE Len(ss) = 0
    <2>1. ss = <<>> /\ g[Len(uu)] = t
      BY <1>1, <1>3, <1>8
    <2> QED BY <1>7, <2>1 DEF uu
  <1>9. CASE Len(ss) # 0
    <2>0. Len(ss) \in Nat /\ Len(ss) \in 1..Len(ss) /\ Len(uu) \in 1..Len(uu) /\ Len(uu) # 1
          /\ Len(uu) - 1 = Len(ss)
      BY <1>1, <1>9
    <2>1. f[Len(ss)] = g[Len(ss)] /\ f[Len(ss)] \in Seq(X)
      <3>1. Len(ss) \in N
        <4> HIDE DEF N
        <4> QED BY <1>6, <2>0
      <3> QED BY <1>2, <2>0, <3>1
    <2>2. g[Len(uu)] = g[Len(ss)] \o t
      BY <1>1, <1>3, <2>0
    <2> QED BY <1>7, <1>9, <2>1, <2>2 DEF uu
  <1> QED BY <1>8, <1>9

-----------------------------------------------------------------------------
(* What the operators of the model return.                                 *)

Dict(f) == DOMAIN f \subseteq Month /\ f \in [DOMAIN f -> Amount]

\* What may stand for the month of a project: one of the calendar, none, or
\* whatever the month cell of a listing holds.
SomeMonth == Month \cup {None} \cup {c.month : c \in Cells}

LEMMA AsProjectType == \A c \in Cells, m \in SomeMonth : AsProject(c, m) \in Project
  <1> SUFFICES ASSUME NEW c \in Cells, NEW m \in SomeMonth PROVE AsProject(c, m) \in Project
    OBVIOUS
  <1> DEFINE J == {x.job : x \in Cells}
             C == {x.month : x \in Cells}
  <1>1. c.job \in J
    OBVIOUS
  <1>2. c \in [job: J, pct: Amount, contract: Amount, cost: Amount, profit: Amount, month: C]
    BY Data
  <1> HIDE DEF J, C
  <1>3. c.pct \in Amount /\ c.contract \in Amount /\ c.cost \in Amount /\ c.profit \in Amount
    BY <1>2
  <1> DEFINE v == IF c.profit = None /\ c.contract # None /\ c.cost # None
                  THEN c.contract - c.cost ELSE c.profit
  <1>4. v \in Amount
    BY <1>3 DEF Amount
  <1> HIDE DEF v
  <1>5. AsProject(c, m) = [job |-> c.job, pct |-> c.pct, contract |-> c.contract, profit |-> v, last_month |-> m]
    BY DEF AsProject, v
  <1>6. Project = [job: J \cup {"JOB #"}, pct: Amount, contract: Amount, profit: Amount, last_month: SomeMonth]
    BY DEF Project, J, SomeMonth
  <1> DEFINE J2 == J \cup {"JOB #"}
             K == SomeMonth
  <1>7. c.job \in J2 /\ m \in K
    BY <1>1
  <1> HIDE DEF J2, K
  <1>8. [job |-> c.job, pct |-> c.pct, contract |-> c.contract, profit |-> v, last_month |-> m]
          \in [job: J2, pct: Amount, contract: Amount, profit: Amount, last_month: K]
    BY <1>3, <1>4, <1>7
  <1> QED BY <1>5, <1>6, <1>8 DEF J2, K

LEMMA OverType == \A f, g : Dict(f) /\ Dict(g) => Dict(Over(f, g))
  BY DEF Dict, Over

LEMMA PickType ==
  ASSUME NEW X, NEW s \in Seq(X), NEW S \in SUBSET DOMAIN s
  PROVE  /\ S \in SUBSET Nat /\ IsFiniteSet(S) /\ Cardinality(S) \in Nat
         /\ DOMAIN Ascending(S) = 1..Cardinality(S)
         /\ \A k \in 1..Cardinality(S) : Ascending(S)[k] \in S /\ s[Ascending(S)[k]] \in X
  <1>1. S \in SUBSET Nat /\ S \subseteq 1..Len(s) /\ Len(s) \in Nat
    OBVIOUS
  <1>4. IsFiniteSet(1..Len(s))
    BY <1>1, FS_Interval
  <1>2. IsFiniteSet(S) /\ Cardinality(S) \in Nat
    BY <1>1, <1>4, FS_Subset, FS_CardinalityType
  <1>3. Ascending(S) \in [1..Cardinality(S) -> S]
    BY <1>1, <1>2, AscendingIs
  <1> QED BY <1>1, <1>2, <1>3

\* The second reading of a workbook gives projects.
LEMMA SingleHeaderType == \A b \in Book : SingleHeader(b) \in Seq(Project)
  <1> SUFFICES ASSUME NEW b \in Book PROVE SingleHeader(b) \in Seq(Project)
    OBVIOUS
  <1> DEFINE I == {i \in 1..Len(b.rows) : b.rows[i].kind = "header"}
             start == IF I # {} THEN Min(I) ELSE 0
             S == {i \in (start + 1)..Len(b.rows) : b.rows[i].kind \in {"header", "project"}}
             below == Ascending(S)
             Listed(r) ==
               IF r.kind = "header"
               THEN [job |-> "JOB #", pct |-> None, contract |-> None, last_month |-> None, profit |-> None]
               ELSE AsProject(r.cells, IF b.layout = "listing" THEN r.cells.month ELSE None)
  <1>1. SingleHeader(b) = IF b.layout = "blocks" /\ start = 0 THEN <<>>
                          ELSE [k \in DOMAIN below |-> Listed(b.rows[below[k]])]
    BY DEF SingleHeader, SelectInSeq
  <1>2. b.rows \in Seq(Row)
    BY DEF Book
  <1>3. start \in Nat
    <2>1. I \in SUBSET Nat /\ IsFiniteSet(I)
      BY <1>2, PickType
    <2> HIDE DEF I
    <2> QED BY <2>1, MinIs
  <1> HIDE DEF start
  <1>4. S \subseteq DOMAIN b.rows
    BY <1>2, <1>3
  <1>5. \A i \in S : Listed(b.rows[i]) \in Project
    <2> SUFFICES ASSUME NEW i \in S PROVE Listed(b.rows[i]) \in Project
      OBVIOUS
    <2>1. b.rows[i] \in Row /\ b.rows[i].kind \in {"header", "project"}
      BY <1>2, <1>4
    <2>2. CASE b.rows[i].kind = "header"
      BY <2>2, Data DEF Project, Amount
    <2>3. CASE b.rows[i].kind = "project"
      <3>1. b.rows[i].cells \in Cells
        BY <2>1, <2>3 DEF Row
      <3>2. b.rows[i].cells.month \in SomeMonth /\ None \in SomeMonth
        BY <3>1 DEF SomeMonth
      <3> QED BY <2>3, <3>1, <3>2, AsProjectType
    <2> QED BY <2>1, <2>2, <2>3
  <1> HIDE DEF S
  <1>6. DOMAIN below = 1..Cardinality(S) /\ Cardinality(S) \in Nat /\ \A k \in 1..Cardinality(S) : below[k] \in S
    BY <1>2, <1>4, PickType
  <1> HIDE DEF Listed, below
  <1>7. [k \in DOMAIN below |-> Listed(b.rows[below[k]])] \in Seq(Project)
    BY <1>5, <1>6
  <1> QED BY <1>1, <1>7

\* The overhead block gives amounts for months.
LEMMA OverheadType == \A column \in Columns : Dict(Overhead(column))
  <1> SUFFICES ASSUME NEW column \in Columns PROVE Dict(Overhead(column))
    OBVIOUS
  <1> DEFINE Cell == [month: Month \cup {None}, total: Amount]
             I == {i \in 1..Len(column) : column[i].month = None}
             stop == IF I # {} THEN Min(I) ELSE 0
             n == Min({Months, IF stop = 0 THEN Len(column) ELSE stop - 1})
             rows == SubSeq(column, 1, n)
             At(m) == {i \in DOMAIN rows : rows[i].month = m}
  <1>1. Overhead(column) = [m \in {rows[i].month : i \in DOMAIN rows} |-> rows[Max(At(m))].total]
    BY DEF Overhead, SelectInSeq
  <1>2. column \in Seq(Cell)
    BY Data
  <1>3. I \in SUBSET Nat /\ IsFiniteSet(I)
    BY <1>2, PickType
  <1>4. /\ stop \in 0..Len(column)
        /\ stop = 0 => \A i \in 1..Len(column) : column[i].month # None
        /\ stop # 0 => \A i \in 1..(stop - 1) : column[i].month # None
    <2>1. CASE I = {}
      BY <2>1, <1>2
    <2>2. CASE I # {}
      <3>1. Min(I) \in I /\ \A i \in I : Min(I) <= i
        <4> HIDE DEF I
        <4> QED BY <1>3, <2>2, MinIs
      <3>2. stop \in 1..Len(column) /\ \A i \in 1..Len(column) : column[i].month = None => stop <= i
        BY <2>2, <3>1
      <3> HIDE DEF stop, I
      <3>3. Len(column) \in Nat
        BY <1>2
      <3> QED BY <3>2, <3>3
    <2> QED BY <2>1, <2>2
  <1> HIDE DEF stop
  <1> DEFINE last == IF stop = 0 THEN Len(column) ELSE stop - 1
  <1>5. n \in 0..Len(column) /\ \A i \in 1..n : column[i].month # None
    <2>1. last \in 0..Len(column) /\ \A i \in 1..last : column[i].month # None
      BY <1>2, <1>4
    <2> HIDE DEF last
    <2>2. Months \in Nat /\ last \in Nat /\ Len(column) \in Nat
      BY Calendar, <1>2, <2>1
    <2>3. {Months, last} \in SUBSET Nat /\ IsFiniteSet({Months, last})
      <3>1. {Months, last} = {Months} \cup {last}
        OBVIOUS
      <3>2. IsFiniteSet({Months})
        BY FS_Singleton
      <3>3. IsFiniteSet({Months} \cup {last})
        BY <3>2, FS_AddElement
      <3> QED BY <2>2, <3>1, <3>3
    <2>4. n \in {Months, last} /\ n <= last
      BY <2>3, MinIs DEF last
    <2> HIDE DEF n
    <2> QED BY <2>1, <2>2, <2>4
  <1> HIDE DEF n
  <1>6. rows \in Seq(Cell) /\ \A i \in DOMAIN rows : rows[i].month # None
    <2> HIDE DEF Cell
    <2>2. n \in Nat /\ n <= Len(column) /\ Len(column) \in Nat
      BY <1>2, <1>5
    <2>3. \A i \in 1..n : i \in 1..Len(column) /\ column[i] \in Cell
      BY <1>2, <2>2
    <2>4. rows = [i \in 1..n |-> column[i]]
      BY <1>2, <2>2
    <2>1. rows \in Seq(Cell) /\ Len(rows) = n /\ \A i \in 1..n : rows[i] = column[i]
      BY <2>2, <2>3, <2>4
    <2> QED BY <1>5, <2>1
  <1> HIDE DEF rows
  <1>7. \A i \in DOMAIN rows : rows[i] \in Cell
    <2> HIDE DEF Cell
    <2> QED BY <1>6
  <1>8. ASSUME NEW m \in {rows[i].month : i \in DOMAIN rows}
        PROVE  m \in Month /\ rows[Max(At(m))].total \in Amount
    <2>1. m \in Month
      BY <1>6, <1>7
    <2>2. At(m) \in SUBSET Nat /\ IsFiniteSet(At(m)) /\ At(m) # {}
      BY <1>6, PickType
    <2>3. Max(At(m)) \in At(m)
      <3> HIDE DEF At
      <3> QED BY <2>2, MaxIs
    <2> QED BY <1>7, <2>1, <2>3
  <1> HIDE DEF At
  <1> QED BY <1>1, <1>8 DEF Dict

\* The rows without a later row of their job.
LastAt(ps) == {i \in DOMAIN ps : \A j \in (i + 1)..Len(ps) : ps[j].job # ps[i].job}

LEMMA LastRows ==
  ASSUME NEW X, NEW ps \in Seq(X)
  PROVE  /\ DedupeProjects(ps) \in Seq(X)
         /\ DOMAIN DedupeProjects(ps) = 1..Cardinality(LastAt(ps))
         /\ Len(DedupeProjects(ps)) = Cardinality(LastAt(ps))
         /\ LastAt(ps) \in SUBSET Nat /\ IsFiniteSet(LastAt(ps))
         /\ \A k \in 1..Cardinality(LastAt(ps)) :
              /\ Ascending(LastAt(ps))[k] \in LastAt(ps)
              /\ DedupeProjects(ps)[k] = ps[Ascending(LastAt(ps))[k]]
  <1> DEFINE last == LastAt(ps)
             s == Ascending(last)
             d == DedupeProjects(ps)
  <1>1. d = [k \in DOMAIN s |-> ps[s[k]]]
    BY DEF DedupeProjects, LastAt
  <1>2. last \in SUBSET DOMAIN ps
    BY DEF LastAt
  <1> HIDE DEF last, d
  <1>3. /\ last \in SUBSET Nat /\ IsFiniteSet(last) /\ Cardinality(last) \in Nat
        /\ DOMAIN s = 1..Cardinality(last)
        /\ \A k \in 1..Cardinality(last) : s[k] \in last /\ ps[s[k]] \in X
    BY <1>2, PickType
  <1> HIDE DEF s
  <1>4. /\ d \in Seq(X) /\ DOMAIN d = 1..Cardinality(last) /\ Len(d) = Cardinality(last)
        /\ \A k \in 1..Cardinality(last) : d[k] = ps[s[k]]
    BY <1>1, <1>3
  <1> QED BY <1>3, <1>4 DEF last, s, d

\* Every month has a quarter, and the months of a quarter are months.
LEMMA Quarters ==
  /\ IsFiniteSet(Month) /\ IsFiniteSet(Quarter)
  /\ \A m \in Month : MonthToQ(m) \in Quarter
  /\ \A q \in Quarter : Span(q) \in SUBSET Month /\ IsFiniteSet(Span(q))
  <1>1. IsFiniteSet(Month)
    BY Calendar, FS_Interval DEF Month
  <1> DEFINE d == [m \in Month |-> MonthToQ(m)]
  <1>2. d \in Surjection(Month, Quarter)
    BY DEF Surjection, Quarter
  <1>3. IsFiniteSet(Quarter)
    <2> HIDE DEF d
    <2> QED BY <1>1, <1>2, FS_Surjection
  <1>4. \A q \in Quarter : Span(q) \in SUBSET Month
    BY DEF Span
  <1>5. \A q \in Quarter : IsFiniteSet(Span(q))
    BY <1>1, <1>4, FS_Subset
  <1> QED BY <1>1, <1>3, <1>4, <1>5 DEF Quarter

\* The projects of the months in M, and the sum of v over them.
From(ps, M) == {j \in DOMAIN ps : ps[j].last_month \in M}

LEMMA FromFinite == \A M : \A ps \in Seq(Project) : From(ps, M) \in SUBSET DOMAIN ps /\ IsFiniteSet(From(ps, M))
  <1> SUFFICES ASSUME NEW ps \in Seq(Project), NEW M
               PROVE  From(ps, M) \in SUBSET DOMAIN ps /\ IsFiniteSet(From(ps, M))
    OBVIOUS
  <1>1. From(ps, M) \in SUBSET DOMAIN ps
    BY DEF From
  <1> QED BY <1>1, PickType

LEMMA Amounts ==
  /\ \A v \in Amount : OrZero(v) \in Int
  /\ \A p \in Project : Profit(p) \in Int /\ Contract(p) \in Int /\ OrZero(p.pct) \in Int
  <1>1. \A v \in Amount : OrZero(v) \in Int
    BY DEF Amount, OrZero
  <1> QED BY <1>1 DEF Project, Profit, Contract

\* The sum over the projects of a month or of several, for the values v.
SumFrom(ps, M, v) == SumFunctionOnSet(v, From(ps, M))

\* SumOver as a sum over a set of row numbers.
LEMMA SumOverIs ==
  ASSUME NEW ps \in Seq(Project), NEW M
  PROVE  /\ SumOver(ps, M, Profit) = SumFrom(ps, M, [i \in DOMAIN ps |-> Profit(ps[i])])
         /\ SumOver(ps, M, Contract) = SumFrom(ps, M, [i \in DOMAIN ps |-> Contract(ps[i])])
         /\ SumOver(ps, M, Profit) \in Int
         /\ SumOver(ps, M, Contract) \in Int
  <1>0. From(ps, M) \in SUBSET DOMAIN ps /\ IsFiniteSet(From(ps, M))
    BY FromFinite
  <1>1. ASSUME NEW v, \A i \in From(ps, M) : v[i] \in Int
        PROVE  /\ SumFunction([i \in From(ps, M) |-> v[i]]) = SumFrom(ps, M, v)
               /\ SumFrom(ps, M, v) \in Int
    <2> DEFINE w == [i \in From(ps, M) |-> v[i]]
    <2>1. DOMAIN w = From(ps, M) /\ \A i \in From(ps, M) : w[i] = v[i]
      OBVIOUS
    <2> HIDE DEF w
    <2>2. SumFunctionOnSet(w, From(ps, M)) = SumFunctionOnSet(v, From(ps, M))
      BY <1>0, <2>1, SumEqual
    <2>3. SumFunction(w) = SumFunctionOnSet(w, From(ps, M))
      BY <2>1 DEF SumFunction
    <2>4. SumFunctionOnSet(v, From(ps, M)) \in Int
      BY <1>0, <1>1, SumType
    <2> QED BY <2>2, <2>3, <2>4 DEF SumFrom, w
  <1>2. \A i \in DOMAIN ps : Profit(ps[i]) \in Int /\ Contract(ps[i]) \in Int
    BY Amounts
  <1> DEFINE pr == [i \in DOMAIN ps |-> Profit(ps[i])]
             co == [i \in DOMAIN ps |-> Contract(ps[i])]
  <1>3. SumOver(ps, M, Profit) = SumFunction([i \in From(ps, M) |-> pr[i]])
    <2>1. [i \in From(ps, M) |-> pr[i]] = [i \in From(ps, M) |-> Profit(ps[i])]
      BY <1>0
    <2> QED BY <2>1 DEF SumOver, From
  <1>4. SumOver(ps, M, Contract) = SumFunction([i \in From(ps, M) |-> co[i]])
    <2>1. [i \in From(ps, M) |-> co[i]] = [i \in From(ps, M) |-> Contract(ps[i])]
      BY <1>0
    <2> QED BY <2>1 DEF SumOver, From
  <1>5. \A i \in From(ps, M) : pr[i] \in Int /\ co[i] \in Int
    BY <1>0, <1>2
  <1> HIDE DEF pr, co
  <1>6. SumOver(ps, M, Profit) = SumFrom(ps, M, pr) /\ SumFrom(ps, M, pr) \in Int
    BY <1>1, <1>3, <1>5
  <1>7. SumOver(ps, M, Contract) = SumFrom(ps, M, co) /\ SumFrom(ps, M, co) \in Int
    BY <1>1, <1>4, <1>5
  <1>8. SumOver(ps, M, Profit) \in Int /\ SumOver(ps, M, Contract) \in Int
    BY <1>6, <1>7
  <1> QED BY <1>6, <1>7, <1>8 DEF pr, co

LEMMA SumFunctionType ==
  ASSUME NEW S, IsFiniteSet(S), NEW f, DOMAIN f = S, \A x \in S : f[x] \in Int
  PROVE  SumFunction(f) \in Int /\ SumFunction(f) = SumFunctionOnSet(f, S)
  BY SumType DEF SumFunction

LEMMA LineType ==
  \A a, b, c \in Int : /\ Line(a, b, c) \in Lines
                       /\ Line(a, b, c).sales = a /\ Line(a, b, c).gross_profit = b
                       /\ Line(a, b, c).overhead = c /\ Line(a, b, c).net_profit = b - c
  BY DEF Line, Lines

LEMMA LineFields ==
  \A a, b, c : /\ Line(a, b, c).sales = a /\ Line(a, b, c).gross_profit = b
               /\ Line(a, b, c).overhead = c /\ Line(a, b, c).net_profit = b - c
  BY DEF Line

LEMMA MonthlyType ==
  ASSUME NEW ps \in Seq(Project), NEW oh, Dict(oh), NEW block, Dict(block)
  PROVE  Monthly(ps, oh, block) \in [Month -> Lines]
  <1>1. ASSUME NEW m \in Month
        PROVE  /\ GrossProfit(ps, m, block) \in Int
               /\ (IF m \in DOMAIN oh THEN OrZero(oh[m]) ELSE 0) \in Int
    <2>1. SumOver(ps, {m}, Profit) \in Int
      BY SumOverIs
    <2>2. m \in DOMAIN block => block[m] \in Amount
      BY DEF Dict
    <2>3. m \in DOMAIN oh => OrZero(oh[m]) \in Int
      BY Amounts DEF Dict
    <2> QED BY <2>1, <2>2, <2>3 DEF GrossProfit, Amount
  <1> DEFINE o(m) == IF m \in DOMAIN oh THEN OrZero(oh[m]) ELSE 0
  <1>2. ASSUME NEW m \in Month PROVE Line(0, GrossProfit(ps, m, block), o(m)) \in Lines
    <2>1. GrossProfit(ps, m, block) \in Int /\ o(m) \in Int
      BY <1>1
    <2> HIDE DEF o
    <2> QED BY <2>1, LineType
  <1>3. Monthly(ps, oh, block) = [m \in Month |-> Line(0, GrossProfit(ps, m, block), o(m))]
    BY DEF Monthly
  <1> QED BY <1>2, <1>3

LEMMA QuarterlyType ==
  ASSUME NEW ps \in Seq(Project), NEW monthly \in [Month -> Lines]
  PROVE  Quarterly(ps, monthly) \in [Quarter -> Lines]
  <1>1. ASSUME NEW q \in Quarter
        PROVE  /\ SumOver(ps, Span(q), Contract) \in Int
               /\ SumFunction([m \in Span(q) |-> monthly[m].gross_profit]) \in Int
               /\ SumFunction([m \in Span(q) |-> monthly[m].overhead]) \in Int
    <2>1. Span(q) \in SUBSET Month /\ IsFiniteSet(Span(q))
      BY Quarters
    <2> DEFINE g == [m \in Span(q) |-> monthly[m].gross_profit]
               o == [m \in Span(q) |-> monthly[m].overhead]
    <2>2. \A m \in Span(q) : g[m] \in Int /\ o[m] \in Int
      BY <2>1 DEF Lines
    <2>3. DOMAIN g = Span(q) /\ DOMAIN o = Span(q)
      OBVIOUS
    <2> HIDE DEF g, o
    <2>4. SumFunction(g) \in Int /\ SumFunction(o) \in Int
      BY <2>1, <2>2, <2>3, SumFunctionType
    <2> QED BY <2>4, SumOverIs DEF g, o
  <1> QED BY <1>1, LineType DEF Quarterly

-----------------------------------------------------------------------------
(* Type correctness.                                                       *)

StoredType ==
  figures # None => figures \in [projects: Seq(Project), monthly: [Month -> Lines], quarterly: [Quarter -> Lines]]

\* TypeOK, one conjunct for each variable.
LEMMA Types ==
  TypeOK <=> /\ book \in Book \cup {None} /\ books \in Seq(Book)
             /\ month_idx \in Nat /\ in_block_after_totals \in BOOLEAN
             /\ found \in Seq(Project) /\ projects \in Seq(Project)
             /\ Dict(reported) /\ Dict(block_monthly) /\ Dict(overhead_detail)
             /\ StoredType
  BY DEF TypeOK, Dict, StoredType

LEMMA EmptyIs == DOMAIN Empty = {} /\ Dict(Empty)
  BY DEF Empty, Dict

LEMMA TypeInit == Init => TypeOK
  <1> SUFFICES ASSUME Init PROVE TypeOK
    OBVIOUS
  <1>1. <<>> \in Seq(Project) /\ <<>> \in Seq(Book)
    OBVIOUS
  <1> QED BY <1>1, EmptyIs, Types DEF Init, StoredType

\* Every step keeps the types.
LEMMA TypeNext == TypeOK /\ [Next]_vars => TypeOK'
  <1> SUFFICES ASSUME TypeOK, [Next]_vars PROVE TypeOK'
    OBVIOUS
  <1>0. /\ book \in Book \cup {None} /\ books \in Seq(Book)
        /\ month_idx \in Nat /\ in_block_after_totals \in BOOLEAN
        /\ found \in Seq(Project) /\ projects \in Seq(Project)
        /\ Dict(reported) /\ Dict(block_monthly) /\ Dict(overhead_detail)
        /\ StoredType
    BY Types
  <1> SUFFICES
        /\ book' \in Book \cup {None} /\ books' \in Seq(Book)
        /\ month_idx' \in Nat /\ in_block_after_totals' \in BOOLEAN
        /\ found' \in Seq(Project) /\ projects' \in Seq(Project)
        /\ Dict(reported') /\ Dict(block_monthly') /\ Dict(overhead_detail')
        /\ StoredType'
    BY DEF TypeOK, Dict, StoredType
  <1>1. CASE \E layout \in {"blocks", "listing"}, column \in Columns : Open(layout, column)
    <2>1. PICK layout \in {"blocks", "listing"}, column \in Columns : Open(layout, column)
      BY <1>1
    <2>2. book' \in Book
      BY <2>1 DEF Open, Book
    <2>4. /\ month_idx' = 0 /\ in_block_after_totals' = FALSE /\ found' = <<>> /\ reported' = Empty
          /\ UNCHANGED <<books, projects, block_monthly, overhead_detail, figures>>
      BY <2>1 DEF Open, year
    <2>5. /\ month_idx' \in Nat /\ in_block_after_totals' \in BOOLEAN
          /\ found' \in Seq(Project)
      <3>1. <<>> \in Seq(Project)
        OBVIOUS
      <3>2. month_idx' = 0 /\ in_block_after_totals' = FALSE /\ found' = <<>>
        BY <2>4
      <3> QED BY <3>1, <3>2
    <2>6. Dict(reported')
      BY <2>4, EmptyIs
    <2> QED BY <1>0, <2>2, <2>4, <2>5, <2>6 DEF StoredType
  <1>2. CASE \E r \in Row : ReadRow(r)
    <2>1. PICK r \in Row : ReadRow(r)
      BY <1>2
    <2>2. book' \in Book
      <3>1. book \in Book /\ book' = [book EXCEPT !.rows = Append(@, r)]
        BY <1>0, <2>1 DEF ReadRow
      <3>2. Append(book.rows, r) \in Seq(Row)
        BY <3>1 DEF Book
      <3> QED BY <3>1, <3>2 DEF Book
    <2>3. UNCHANGED <<books, projects, block_monthly, overhead_detail, figures>>
      BY <2>1 DEF ReadRow, year
    <2>4. month_idx' \in Nat /\ in_block_after_totals' \in BOOLEAN
      <3>1. month_idx' \in Nat
        BY <1>0, <2>1 DEF ReadRow, HeaderRow, TotalsRow, ProjectRow, SkippedRow, scan
      <3>2. \/ in_block_after_totals' = FALSE \/ in_block_after_totals' = TRUE
            \/ in_block_after_totals' = in_block_after_totals
        BY <2>1 DEF ReadRow, HeaderRow, TotalsRow, ProjectRow, SkippedRow, scan
      <3> QED BY <1>0, <3>1, <3>2
    <2>5. found' \in Seq(Project)
      <3>1. CASE ProjectRow(r)
        <4>1. r.cells \in Cells
          BY <3>1 DEF ProjectRow, Row
        <4>2. MonthOf(month_idx) \in SomeMonth
          BY DEF MonthOf, SomeMonth
        <4> QED BY <1>0, <3>1, <4>1, <4>2, AsProjectType DEF ProjectRow
      <3>2. CASE ~ProjectRow(r)
        BY <1>0, <2>1, <3>2 DEF ReadRow, HeaderRow, TotalsRow, SkippedRow, scan
      <3> QED BY <3>1, <3>2
    <2>6. Dict(reported')
      <3>1. CASE TotalsRow(r)
        <4>1. r.profit \in Amount
          BY <3>1, Data DEF TotalsRow, Row
        <4>2. month_idx \in Month => Dict([m \in {month_idx} |-> r.profit])
          BY <4>1 DEF Dict
        <4> QED BY <1>0, <3>1, <4>2, OverType DEF TotalsRow
      <3>2. CASE ~TotalsRow(r)
        BY <1>0, <2>1, <3>2 DEF ReadRow, HeaderRow, ProjectRow, SkippedRow, scan
      <3> QED BY <3>1, <3>2
    <2> QED BY <1>0, <2>2, <2>3, <2>4, <2>5, <2>6 DEF StoredType
  <1>3. CASE Close
    <2>1. book \in Book /\ book' = None /\ books' \in Seq(Book)
      BY <1>0, <1>3 DEF Close
    <2>2. UNCHANGED <<month_idx, in_block_after_totals, found, reported, figures>>
      BY <1>3 DEF Close, scan
    <2>3. projects' \in Seq(Project)
      <3>1. SingleHeader(book) \in Seq(Project)
        BY <2>1, SingleHeaderType
      <3>2. projects' = projects \o found \/ projects' = projects \o SingleHeader(book)
        BY <1>3 DEF Close
      <3>3. projects \in Seq(Project) /\ found \in Seq(Project)
        BY <1>0
      <3>4. \A s, t \in Seq(Project) : s \o t \in Seq(Project)
        OBVIOUS
      <3> QED BY <3>1, <3>2, <3>3, <3>4
    <2>4. Dict(block_monthly') /\ Dict(overhead_detail')
      <3>1. Dict(Overhead(book.column))
        BY <2>1, OverheadType DEF Book
      <3> QED BY <1>0, <1>3, <3>1, OverType DEF Close
    <2> QED BY <1>0, <2>1, <2>2, <2>3, <2>4 DEF StoredType
  <1>4. CASE Publish
    <2> DEFINE ps == DedupeProjects(projects)
               monthly == Monthly(ps, overhead_detail, block_monthly)
    <2>1. ps \in Seq(Project)
      BY <1>0, LastRows
    <2>2. monthly \in [Month -> Lines]
      BY <1>0, <2>1, MonthlyType
    <2>3. Quarterly(ps, monthly) \in [Quarter -> Lines]
      BY <2>1, <2>2, QuarterlyType
    <2>4. figures' = [projects |-> ps, monthly |-> monthly, quarterly |-> Quarterly(ps, monthly)]
      BY <1>4 DEF Publish
    <2> HIDE DEF ps, monthly
    <2>5. UNCHANGED <<books, book, month_idx, in_block_after_totals, found, reported,
                      projects, block_monthly, overhead_detail>>
      BY <1>4 DEF Publish, scan, year
    <2>6. figures' \in [projects: Seq(Project), monthly: [Month -> Lines], quarterly: [Quarter -> Lines]]
      BY <2>1, <2>2, <2>3, <2>4
    <2> QED BY <1>0, <2>5, <2>6 DEF StoredType
  <1>5. CASE UNCHANGED vars
    BY <1>0, <1>5 DEF vars, scan, year, StoredType
  <1> QED BY <1>1, <1>2, <1>3, <1>4, <1>5 DEF Next

\* The parser's and the year's results have the shapes the tables have columns
\* for: amounts are numbers or blank, what is kept by month has months of the
\* calendar only, and the stored rows are complete, whatever the workbooks hold.
\* A project's month may be any text that a listing has in its month cell.
THEOREM TypeCorrect == Spec => []TypeOK
  BY TypeInit, TypeNext, PTL DEF Spec

-----------------------------------------------------------------------------
(* The scan.                                                               *)

LEMMA BlockIs ==
  ASSUME NEW rows \in Seq(Row)
  PROVE  /\ Block(rows, 0) = 0
         /\ \A i \in 0..Len(rows) : Block(rows, i) \in Nat
         /\ \A i, j \in 0..Len(rows) : i <= j => Block(rows, i) <= Block(rows, j)
         /\ \A i \in 1..Len(rows) : Block(rows, i) = IF rows[i].kind = "header"
                                                     THEN Block(rows, i - 1) + 1 ELSE Block(rows, i - 1)
  <1> DEFINE H(i) == {j \in 1..i : rows[j].kind = "header"}
  <1>0. \A i : Block(rows, i) = Cardinality(H(i))
    BY DEF Block
  <1>1. ASSUME NEW i \in 0..Len(rows) PROVE IsFiniteSet(H(i)) /\ Cardinality(H(i)) \in Nat
    <2>1. H(i) \in SUBSET DOMAIN rows
      OBVIOUS
    <2> HIDE DEF H
    <2> QED BY <2>1, PickType
  <1>2. H(0) = {}
    OBVIOUS
  <1>3. ASSUME NEW i \in 0..Len(rows), NEW j \in 0..Len(rows), i <= j PROVE H(i) \in SUBSET H(j)
    BY <1>3
  <1>4. ASSUME NEW i \in 1..Len(rows)
        PROVE  /\ rows[i].kind = "header" => H(i) = H(i - 1) \cup {i} /\ i \notin H(i - 1)
               /\ rows[i].kind # "header" => H(i) = H(i - 1)
    OBVIOUS
  <1> HIDE DEF H
  <1>5. Block(rows, 0) = 0
    BY <1>0, <1>2, FS_EmptySet
  <1>6. \A i \in 0..Len(rows) : Block(rows, i) \in Nat
    BY <1>0, <1>1
  <1>7. \A i, j \in 0..Len(rows) : i <= j => Block(rows, i) <= Block(rows, j)
    BY <1>0, <1>1, <1>3, FS_Subset
  <1>8. ASSUME NEW i \in 1..Len(rows)
        PROVE  Block(rows, i) = IF rows[i].kind = "header"
                                THEN Block(rows, i - 1) + 1 ELSE Block(rows, i - 1)
    <2>1. i - 1 \in 0..Len(rows)
      OBVIOUS
    <2>2. IsFiniteSet(H(i - 1))
      BY <1>1, <2>1
    <2>3. i \notin H(i - 1) => Cardinality(H(i - 1) \cup {i}) = Cardinality(H(i - 1)) + 1
      BY <2>2, FS_AddElement
    <2> QED BY <1>0, <1>4, <2>3
  <1> QED BY <1>5, <1>6, <1>7, <1>8

\* A row added at the end changes the block of no earlier row.
LEMMA BlockAppend ==
  ASSUME NEW rows \in Seq(Row), NEW r \in Row
  PROVE  /\ Append(rows, r) \in Seq(Row) /\ Len(Append(rows, r)) = Len(rows) + 1 /\ Len(rows) \in Nat
         /\ DOMAIN Append(rows, r) = 1..(Len(rows) + 1) /\ DOMAIN rows = 1..Len(rows)
         /\ \A i \in 1..Len(rows) : Append(rows, r)[i] = rows[i]
         /\ Append(rows, r)[Len(rows) + 1] = r
         /\ \A i \in 0..Len(rows) : Block(Append(rows, r), i) = Block(rows, i)
         /\ Block(Append(rows, r), Len(rows) + 1)
              = IF r.kind = "header" THEN Block(rows, Len(rows)) + 1 ELSE Block(rows, Len(rows))
  <1> DEFINE more == Append(rows, r)
             n == Len(rows)
  <1>1. more \in Seq(Row) /\ Len(more) = n + 1 /\ n \in Nat /\ DOMAIN more = 1..(n + 1) /\ DOMAIN rows = 1..n
    OBVIOUS
  <1>2. (\A i \in 1..n : more[i] = rows[i]) /\ more[n + 1] = r
    OBVIOUS
  <1> HIDE DEF more, n
  <1>3. ASSUME NEW i \in 0..n PROVE Block(more, i) = Block(rows, i)
    <2>1. {j \in 1..i : more[j].kind = "header"} = {j \in 1..i : rows[j].kind = "header"}
      <3>1. \A j \in 1..i : more[j] = rows[j]
        BY <1>1, <1>2
      <3> QED BY <3>1
    <2> QED BY <2>1 DEF Block
  <1>4. Block(more, n + 1) = IF r.kind = "header" THEN Block(rows, n) + 1 ELSE Block(rows, n)
    <2>1. n + 1 \in 1..Len(more) /\ (n + 1) - 1 = n /\ n \in 0..n
      BY <1>1
    <2>2. Block(more, n + 1) = IF more[n + 1].kind = "header" THEN Block(more, (n + 1) - 1) + 1
                               ELSE Block(more, (n + 1) - 1)
      BY <1>1, <2>1, BlockIs
    <2> QED BY <1>2, <1>3, <2>1, <2>2
  <1> QED BY <1>1, <1>2, <1>3, <1>4 DEF more, n

\* Where the scan stands: the month is the number of the block, and the flag
\* says whether the block has had its totals.
Totalled(rows) ==
  \E j \in 1..Len(rows) : /\ rows[j].kind = "totals" /\ Block(rows, j) > 0
                          /\ Block(rows, j) = Block(rows, Len(rows))
KeptAt(rows) ==
  {i \in DOMAIN rows :
     /\ rows[i].kind = "project" /\ Block(rows, i) > 0
     /\ \A j \in 1..i : rows[j].kind = "totals" => Block(rows, j) < Block(rows, i)}
TotalsAt(rows) == {i \in DOMAIN rows : rows[i].kind = "totals" /\ Block(rows, i) \in Month}

LEMMA KeptIs ==
  \A rows : Kept(rows) = [k \in DOMAIN Ascending(KeptAt(rows)) |->
                            AsProject(rows[Ascending(KeptAt(rows))[k]].cells,
                                      MonthOf(Block(rows, Ascending(KeptAt(rows))[k])))]
  BY DEF Kept, KeptAt

\* A row added at the end joins the kept ones or leaves them as they are.
LEMMA KeptAppend ==
  ASSUME NEW rows \in Seq(Row), NEW r \in Row
  PROVE  KeptAt(Append(rows, r)) =
           IF r.kind = "project" /\ Block(rows, Len(rows)) > 0 /\ ~Totalled(rows)
           THEN KeptAt(rows) \cup {Len(rows) + 1} ELSE KeptAt(rows)
  <1> DEFINE more == Append(rows, r)
             n == Len(rows)
  <1>1. /\ n \in Nat /\ DOMAIN more = 1..(n + 1) /\ DOMAIN rows = 1..n
        /\ \A i \in 1..n : more[i] = rows[i] /\ Block(more, i) = Block(rows, i)
        /\ more[n + 1] = r
        /\ r.kind # "header" => Block(more, n + 1) = Block(rows, n)
    BY BlockAppend
  <1>2. /\ \A i \in 0..n : Block(rows, i) \in Nat
        /\ \A i \in 1..n : Block(rows, i) <= Block(rows, n)
    BY BlockIs
  <1> HIDE DEF more
  <1>3. ASSUME NEW i \in 1..n PROVE i \in KeptAt(more) <=> i \in KeptAt(rows)
    <2>1. \A j \in 1..i : j \in 1..n /\ more[j] = rows[j] /\ Block(more, j) = Block(rows, j)
      BY <1>1
    <2>2. i \in DOMAIN more /\ i \in DOMAIN rows /\ i \in 1..i
      BY <1>1
    <2> QED BY <2>1, <2>2 DEF KeptAt
  <1>4. n + 1 \in KeptAt(more) <=> r.kind = "project" /\ Block(rows, n) > 0 /\ ~Totalled(rows)
    <2>1. CASE r.kind # "project"
      BY <1>1, <2>1 DEF KeptAt
    <2>2. CASE r.kind = "project"
      <3>1. Block(more, n + 1) = Block(rows, n) /\ n + 1 \in DOMAIN more
        BY <1>1, <2>2
      <3>2. n + 1 \in KeptAt(more) <=>
              /\ Block(rows, n) > 0
              /\ \A j \in 1..(n + 1) : more[j].kind = "totals" => Block(more, j) < Block(rows, n)
        BY <1>1, <2>2, <3>1 DEF KeptAt
      <3>3. (\A j \in 1..(n + 1) : more[j].kind = "totals" => Block(more, j) < Block(rows, n))
              <=> \A j \in 1..n : rows[j].kind = "totals" => Block(rows, j) < Block(rows, n)
        <4>1. \A j \in 1..(n + 1) : j \in 1..n \/ j = n + 1
          BY <1>1
        <4>2. \A j \in 1..n : j \in 1..(n + 1)
          BY <1>1
        <4> QED BY <1>1, <2>2, <4>1, <4>2
      <3>4. Block(rows, n) > 0 =>
              ((\A j \in 1..n : rows[j].kind = "totals" => Block(rows, j) < Block(rows, n)) <=> ~Totalled(rows))
        <4>1. \A j \in 1..n : /\ Block(rows, j) \in Nat /\ Block(rows, n) \in Nat
                              /\ Block(rows, j) <= Block(rows, n)
          BY <1>1, <1>2
        <4>2. \A j \in 1..n : Block(rows, j) < Block(rows, n) <=> Block(rows, j) # Block(rows, n)
          BY <4>1
        <4> QED BY <4>2 DEF Totalled
      <3> QED BY <2>2, <3>2, <3>3, <3>4
    <2> QED BY <2>1, <2>2
  <1>5. KeptAt(more) \subseteq 1..(n + 1) /\ KeptAt(rows) \subseteq 1..n
    BY <1>1 DEF KeptAt
  <1>6. \A i \in 1..(n + 1) : i \in 1..n \/ i = n + 1
    BY <1>1
  <1>7. n + 1 \notin 1..n
    BY <1>1
  <1> DEFINE new == r.kind = "project" /\ Block(rows, n) > 0 /\ ~Totalled(rows)
             K == KeptAt(more)
             S == KeptAt(rows)
  <1>8. (\A i \in 1..n : i \in K <=> i \in S) /\ (n + 1 \in K <=> new)
    BY <1>3, <1>4
  <1>9. K \subseteq 1..(n + 1) /\ S \subseteq 1..n
    BY <1>5
  <1> HIDE DEF new, K, S
  <1>10. CASE new
    <2>1. K = S \cup {n + 1}
      BY <1>6, <1>8, <1>9, <1>10
    <2> QED BY <1>10, <2>1 DEF more, new, K, S
  <1>11. CASE ~new
    <2>1. K = S
      BY <1>6, <1>7, <1>8, <1>9, <1>11
    <2> QED BY <1>11, <2>1 DEF more, new, K, S
  <1> QED BY <1>10, <1>11

LEMMA KeptGrows ==
  ASSUME NEW rows \in Seq(Row), NEW r \in Row
  PROVE  Kept(Append(rows, r)) =
           IF r.kind = "project" /\ Block(rows, Len(rows)) > 0 /\ ~Totalled(rows)
           THEN Append(Kept(rows), AsProject(r.cells, MonthOf(Block(rows, Len(rows)))))
           ELSE Kept(rows)
  <1> DEFINE more == Append(rows, r)
             n == Len(rows)
             S == KeptAt(rows)
             c == Cardinality(S)
             T == KeptAt(more)
             P(b, i) == AsProject(b[i].cells, MonthOf(Block(b, i)))
  <1>1. /\ n \in Nat /\ DOMAIN rows = 1..n /\ more \in Seq(Row) /\ DOMAIN more = 1..(n + 1)
        /\ \A i \in 1..n : more[i] = rows[i] /\ Block(more, i) = Block(rows, i)
        /\ more[n + 1] = r
        /\ r.kind # "header" => Block(more, n + 1) = Block(rows, n)
    BY BlockAppend
  <1>2. S \in SUBSET DOMAIN rows
    BY DEF KeptAt
  <1>3. T \in SUBSET DOMAIN more
    BY DEF KeptAt
  <1>4. Kept(rows) = [k \in DOMAIN Ascending(S) |-> P(rows, Ascending(S)[k])]
    BY KeptIs
  <1>5. Kept(more) = [k \in DOMAIN Ascending(T) |-> P(more, Ascending(T)[k])]
    BY KeptIs
  <1>6. T = IF r.kind = "project" /\ Block(rows, n) > 0 /\ ~Totalled(rows) THEN S \cup {n + 1} ELSE S
    BY KeptAppend
  <1>7. \A i \in S : i \in 1..n /\ P(more, i) = P(rows, i)
    BY <1>1, <1>2
  <1> HIDE DEF more, n, S, T
  <1>8. /\ S \in SUBSET Nat /\ IsFiniteSet(S) /\ c \in Nat
        /\ DOMAIN Ascending(S) = 1..c /\ \A k \in 1..c : Ascending(S)[k] \in S
    BY <1>2, PickType
  <1>9. DOMAIN Ascending(T) = 1..Cardinality(T)
    BY <1>1, <1>3, PickType
  <1>10. CASE T = S
    <2>1. \A k \in DOMAIN Ascending(S) : P(more, Ascending(S)[k]) = P(rows, Ascending(S)[k])
      BY <1>7, <1>8
    <2> HIDE DEF P
    <2>2. Kept(more) = Kept(rows)
      BY <1>4, <1>5, <1>10, <2>1
    <2> QED BY <1>1, <1>6, <1>7, <1>10, <2>2 DEF more, n
  <1>11. CASE T = S \cup {n + 1} /\ r.kind = "project" /\ Block(rows, n) > 0 /\ ~Totalled(rows)
    <2>1. \A i \in S : i < n + 1
      BY <1>1, <1>7
    <2>2. /\ Cardinality(T) = c + 1
          /\ \A k \in 1..c : Ascending(T)[k] = Ascending(S)[k]
          /\ Ascending(T)[c + 1] = n + 1
      <3>1. n + 1 \in Nat
        BY <1>1
      <3> DEFINE n1 == n + 1
      <3>2. n1 \in Nat /\ \A i \in S : i < n1
        BY <2>1, <3>1
      <3> HIDE DEF n1
      <3>3. /\ Cardinality(S \cup {n1}) = Cardinality(S) + 1
            /\ \A k \in 1..Cardinality(S) : Ascending(S \cup {n1})[k] = Ascending(S)[k]
            /\ Ascending(S \cup {n1})[Cardinality(S) + 1] = n1
        BY <1>8, <3>2, AscendingGrows
      <3> QED BY <1>11, <3>3 DEF n1
    <2>3. P(more, n + 1) = AsProject(r.cells, MonthOf(Block(rows, n)))
      BY <1>1, <1>11
    <2>4. \A k \in 1..c : P(more, Ascending(T)[k]) = P(rows, Ascending(S)[k])
      BY <1>7, <1>8, <2>2
    <2> HIDE DEF P, c
    <2>5. Kept(more) = [k \in 1..(c + 1) |-> P(more, Ascending(T)[k])]
          /\ Kept(rows) = [k \in 1..c |-> P(rows, Ascending(S)[k])]
      BY <1>4, <1>5, <1>8, <1>9, <2>2
    <2> DEFINE f == [k \in 1..c |-> P(rows, Ascending(S)[k])]
               X == {P(rows, Ascending(S)[k]) : k \in 1..c}
    <2>6. f \in Seq(X) /\ Len(f) = c
      BY <1>8
    <2>7. Append(f, P(more, n + 1)) = [k \in 1..(c + 1) |-> IF k = c + 1 THEN P(more, n + 1) ELSE f[k]]
      <3> HIDE DEF f, X
      <3> QED BY <1>8, <2>6
    <2>8. \A k \in 1..(c + 1) : P(more, Ascending(T)[k]) = IF k = c + 1 THEN P(more, n + 1) ELSE f[k]
      <3>1. \A k \in 1..(c + 1) : k = c + 1 \/ k \in 1..c
        BY <1>8
      <3> QED BY <2>2, <2>4, <3>1
    <2>9. Kept(more) = Append(Kept(rows), P(more, n + 1))
      <3> HIDE DEF f
      <3> QED BY <2>5, <2>7, <2>8 DEF f
    <2> QED BY <1>11, <2>3, <2>9 DEF more, n
  <1> QED BY <1>6, <1>10, <1>11 DEF n, more

LEMMA TotalsAppend ==
  ASSUME NEW rows \in Seq(Row), NEW r \in Row
  PROVE  TotalsAt(Append(rows, r)) = IF r.kind = "totals" /\ Block(rows, Len(rows)) \in Month
                                     THEN TotalsAt(rows) \cup {Len(rows) + 1} ELSE TotalsAt(rows)
  <1> DEFINE more == Append(rows, r)
             n == Len(rows)
  <1>1. /\ n \in Nat /\ DOMAIN more = 1..(n + 1) /\ DOMAIN rows = 1..n
        /\ \A i \in 1..n : more[i] = rows[i] /\ Block(more, i) = Block(rows, i)
        /\ more[n + 1] = r
        /\ r.kind # "header" => Block(more, n + 1) = Block(rows, n)
    BY BlockAppend
  <1> HIDE DEF more, n
  <1>2. /\ \A i \in 1..(n + 1) : i \in 1..n \/ i = n + 1
        /\ \A i \in 1..n : i \in 1..(n + 1)
        /\ n + 1 \in 1..(n + 1) /\ n + 1 \notin 1..n
    BY <1>1
  <1>3. \A i \in 1..n : i \in TotalsAt(more) <=> i \in TotalsAt(rows)
    BY <1>1, <1>2 DEF TotalsAt
  <1>4. n + 1 \in TotalsAt(more) <=> r.kind = "totals" /\ Block(rows, n) \in Month
    BY <1>1, <1>2 DEF TotalsAt
  <1>5. TotalsAt(more) \subseteq 1..(n + 1) /\ TotalsAt(rows) \subseteq 1..n
    BY <1>1 DEF TotalsAt
  <1> DEFINE new == r.kind = "totals" /\ Block(rows, n) \in Month
             K == TotalsAt(more)
             S == TotalsAt(rows)
  <1>8. (\A i \in 1..n : i \in K <=> i \in S) /\ (n + 1 \in K <=> new)
    BY <1>3, <1>4
  <1>9. K \subseteq 1..(n + 1) /\ S \subseteq 1..n
    BY <1>5
  <1> HIDE DEF new, K, S
  <1>10. CASE new
    <2>1. K = S \cup {n + 1}
      BY <1>2, <1>8, <1>9, <1>10
    <2> QED BY <1>10, <2>1 DEF more, n, new, K, S
  <1>11. CASE ~new
    <2>1. K = S
      BY <1>2, <1>8, <1>9, <1>11
    <2> QED BY <1>11, <2>1 DEF more, n, new, K, S
  <1> QED BY <1>10, <1>11

\* A totals row is what its month reports from now on.
LEMMA ReportedGrows ==
  ASSUME NEW rows \in Seq(Row), NEW r \in Row
  PROVE  Reported(Append(rows, r)) =
           IF r.kind = "totals" /\ Block(rows, Len(rows)) \in Month
           THEN Over([m \in {Block(rows, Len(rows))} |-> r.profit], Reported(rows)) ELSE Reported(rows)
  <1> DEFINE more == Append(rows, r)
             n == Len(rows)
             b0 == Block(rows, n)
             In(b, m) == {i \in TotalsAt(b) : Block(b, i) = m}
             Dom(b) == {Block(b, i) : i \in TotalsAt(b)}
  <1>1. /\ n \in Nat /\ DOMAIN more = 1..(n + 1) /\ DOMAIN rows = 1..n /\ more \in Seq(Row)
        /\ \A i \in 1..n : more[i] = rows[i] /\ Block(more, i) = Block(rows, i)
        /\ more[n + 1] = r
        /\ r.kind # "header" => Block(more, n + 1) = b0
    BY BlockAppend
  <1>2. TotalsAt(rows) \subseteq 1..n /\ TotalsAt(more) \subseteq 1..(n + 1)
    BY <1>1 DEF TotalsAt
  <1>3. TotalsAt(more) = IF r.kind = "totals" /\ b0 \in Month
                         THEN TotalsAt(rows) \cup {n + 1} ELSE TotalsAt(rows)
    BY TotalsAppend
  <1>4. \A b : Reported(b) = [m \in Dom(b) |-> b[Max(In(b, m))].profit]
    BY DEF Reported, TotalsAt
  <1>5. ASSUME NEW m \in Dom(rows)
        PROVE  Max(In(rows, m)) \in In(rows, m)
    <2>1. In(rows, m) \in SUBSET DOMAIN rows /\ In(rows, m) # {}
      BY <1>1, <1>2
    <2> HIDE DEF In
    <2>2. In(rows, m) \in SUBSET Nat /\ IsFiniteSet(In(rows, m))
      BY <2>1, PickType
    <2> QED BY <2>1, <2>2, MaxIs
  <1> HIDE DEF more, n, b0
  <1>6. CASE r.kind = "totals" /\ b0 \in Month
    <2>1. \A m : m # b0 => In(more, m) = In(rows, m)
      BY <1>1, <1>2, <1>3, <1>6
    <2>2. Dom(more) = Dom(rows) \cup {b0}
      BY <1>1, <1>2, <1>3, <1>6
    <2>3. Max(In(more, b0)) = n + 1
      <3>1. In(more, b0) \in SUBSET DOMAIN more /\ n + 1 \in In(more, b0)
        BY <1>1, <1>2, <1>3, <1>6
      <3>2. \A i \in In(more, b0) : i \in 1..(n + 1)
        BY <3>1, <1>1
      <3> HIDE DEF In
      <3>3. In(more, b0) \in SUBSET Nat /\ IsFiniteSet(In(more, b0))
        BY <1>1, <3>1, PickType
      <3>4. Max(In(more, b0)) \in In(more, b0) /\ Max(In(more, b0)) >= n + 1
        BY <3>1, <3>3, MaxIs
      <3> QED BY <1>1, <3>2, <3>4
    <2>4. ASSUME NEW m \in Dom(rows), m # b0
          PROVE  more[Max(In(more, m))] = rows[Max(In(rows, m))]
      <3>1. Max(In(rows, m)) \in 1..n
        BY <1>2, <1>5
      <3>2. In(more, m) = In(rows, m)
        BY <2>1, <2>4
      <3> HIDE DEF In
      <3> QED BY <1>1, <3>1, <3>2
    <2> DEFINE one == [m \in {b0} |-> r.profit]
               old == Reported(rows)
    <2>5. DOMAIN one = {b0} /\ one[b0] = r.profit /\ DOMAIN old = Dom(rows)
          /\ \A m \in Dom(rows) : old[m] = rows[Max(In(rows, m))].profit
      BY <1>4
    <2>6. Reported(more) = [m \in Dom(rows) \cup {b0} |-> more[Max(In(more, m))].profit]
      BY <1>4, <2>2
    <2> HIDE DEF In, Dom, one, old
    <2>7. Over(one, old) = [m \in {b0} \cup Dom(rows) |-> IF m \in {b0} THEN one[m] ELSE old[m]]
      BY <2>5 DEF Over
    <2>8. \A m \in Dom(rows) \cup {b0} : more[Max(In(more, m))].profit = IF m \in {b0} THEN one[m] ELSE old[m]
      BY <1>1, <2>3, <2>4, <2>5
    <2>9. Reported(more) = Over(one, old)
      <3>1. {b0} \cup Dom(rows) = Dom(rows) \cup {b0}
        OBVIOUS
      <3> QED BY <2>6, <2>7, <2>8, <3>1
    <2> QED BY <1>6, <2>9 DEF more, n, b0, one, old
  <1>7. CASE ~(r.kind = "totals" /\ b0 \in Month)
    <2>1. Dom(more) = Dom(rows)
      BY <1>1, <1>2, <1>3, <1>7
    <2>2. ASSUME NEW m \in Dom(rows)
          PROVE  more[Max(In(more, m))].profit = rows[Max(In(rows, m))].profit
      <3>1. Max(In(rows, m)) \in 1..n
        BY <1>2, <1>5
      <3>2. In(more, m) = In(rows, m)
        BY <1>1, <1>2, <1>3, <1>7
      <3> HIDE DEF In
      <3> QED BY <1>1, <3>1, <3>2
    <2>3. Reported(more) = [m \in Dom(rows) |-> more[Max(In(more, m))].profit]
          /\ Reported(rows) = [m \in Dom(rows) |-> rows[Max(In(rows, m))].profit]
      BY <1>4, <2>1
    <2> HIDE DEF In, Dom
    <2>4. Reported(more) = Reported(rows)
      BY <2>2, <2>3
    <2> QED BY <1>7, <2>4 DEF more, n, b0
  <1> QED BY <1>6, <1>7

\* Only a header or a totals row changes whether the last block has totals.
LEMMA TotalledAppend ==
  ASSUME NEW rows \in Seq(Row), NEW r \in Row
  PROVE  Totalled(Append(rows, r)) <=>
           \/ r.kind = "totals" /\ Block(rows, Len(rows)) > 0
           \/ r.kind # "header" /\ Totalled(rows)
  <1> DEFINE more == Append(rows, r)
             n == Len(rows)
  <1>1. /\ n \in Nat /\ Len(more) = n + 1
        /\ \A i \in 1..n : more[i] = rows[i] /\ Block(more, i) = Block(rows, i)
        /\ more[n + 1] = r
        /\ Block(more, n + 1) = IF r.kind = "header" THEN Block(rows, n) + 1 ELSE Block(rows, n)
    BY BlockAppend
  <1>2. \A i \in 1..n : Block(rows, i) <= Block(rows, n) /\ Block(rows, i) \in Nat /\ Block(rows, n) \in Nat
    <2>1. \A i \in 1..n : i \in 0..n /\ i <= n /\ n \in 0..n
      OBVIOUS
    <2> QED BY <2>1, BlockIs
  <1> HIDE DEF more, n
  <1>3. /\ \A i \in 1..(n + 1) : i \in 1..n \/ i = n + 1
        /\ \A i \in 1..n : i \in 1..(n + 1)
        /\ n + 1 \in 1..(n + 1)
    BY <1>1
  <1>4. Totalled(more) <=> \E j \in 1..(n + 1) : /\ more[j].kind = "totals" /\ Block(more, j) > 0
                                                 /\ Block(more, j) = Block(more, n + 1)
    BY <1>1 DEF Totalled
  <1>5. Totalled(rows) <=> \E j \in 1..n : /\ rows[j].kind = "totals" /\ Block(rows, j) > 0
                                           /\ Block(rows, j) = Block(rows, n)
    BY DEF Totalled, n
  <1>6. CASE r.kind = "header"
    <2>1. \A i \in 1..n : Block(rows, i) # Block(rows, n) + 1
      BY <1>2
    <2> QED BY <1>1, <1>3, <1>4, <1>6, <2>1 DEF more
  <1>7. CASE r.kind # "header"
    BY <1>1, <1>3, <1>4, <1>5, <1>7 DEF more, n
  <1> QED BY <1>6, <1>7

LEMMA NoRows ==
  /\ Block(<<>>, Len(<<>>)) = 0 /\ ~Totalled(<<>>) /\ Kept(<<>>) = <<>> /\ Reported(<<>>) = Empty
  <1>1. <<>> \in Seq(Row) /\ Len(<<>>) = 0 /\ DOMAIN <<>> = {}
    OBVIOUS
  <1>2. Block(<<>>, Len(<<>>)) = 0
    BY <1>1, BlockIs
  <1>3. ~Totalled(<<>>)
    BY DEF Totalled
  <1>4. Kept(<<>>) = <<>>
    <2>1. KeptAt(<<>>) = {}
      BY <1>1 DEF KeptAt
    <2>2. DOMAIN Ascending({}) = {}
      BY FS_EmptySet DEF Ascending
    <2> DEFINE f == [k \in {} |-> AsProject(<<>>[Ascending({})[k]].cells,
                                            MonthOf(Block(<<>>, Ascending({})[k])))]
    <2>3. Kept(<<>>) = f
      BY <2>1, <2>2, KeptIs
    <2>4. f = <<>>
      OBVIOUS
    <2> QED BY <2>3, <2>4
  <1>5. Reported(<<>>) = Empty
    <2>1. {i \in DOMAIN <<>> : <<>>[i].kind = "totals" /\ Block(<<>>, i) \in Month} = {}
      BY <1>1
    <2> QED BY <2>1 DEF Reported, Empty
  <1> QED BY <1>2, <1>3, <1>4, <1>5

\* The scan's variables, from the rows read so far.
Scan ==
  book # None =>
    /\ month_idx = Block(book.rows, Len(book.rows))
    /\ in_block_after_totals <=> Totalled(book.rows)
    /\ found = Kept(book.rows) /\ reported = Reported(book.rows)

\* Every step keeps that.
LEMMA ScanNext == TypeOK /\ Scan /\ [Next]_vars => Scan'
  <1> SUFFICES ASSUME TypeOK, Scan, [Next]_vars PROVE Scan'
    OBVIOUS
  <1>1. CASE \E layout \in {"blocks", "listing"}, column \in Columns : Open(layout, column)
    <2>1. PICK layout \in {"blocks", "listing"}, column \in Columns : Open(layout, column)
      BY <1>1
    <2>2. /\ book'.rows = <<>> /\ month_idx' = 0 /\ in_block_after_totals' = FALSE
          /\ found' = <<>> /\ reported' = Empty
      BY <2>1 DEF Open
    <2> QED BY <2>2, NoRows DEF Scan
  <1>2. CASE \E r \in Row : ReadRow(r)
    <2>1. PICK r \in Row : ReadRow(r)
      BY <1>2
    <2>2. book \in Book /\ book # None /\ book' = [book EXCEPT !.rows = Append(@, r)]
      BY <2>1, Types DEF ReadRow
    <2> DEFINE rows == book.rows
               b == Block(rows, Len(rows))
               more == Append(rows, r)
    <2>3. rows \in Seq(Row) /\ book'.rows = more
      BY <2>2 DEF Book
    <2>4. month_idx = b /\ (in_block_after_totals <=> Totalled(rows)) /\ found = Kept(rows) /\ reported = Reported(rows)
      BY <2>2 DEF Scan
    <2> HIDE DEF rows
    <2>5. /\ Block(more, Len(more)) = IF r.kind = "header" THEN b + 1 ELSE b
          /\ Totalled(more) <=> (r.kind = "totals" /\ b > 0) \/ (r.kind # "header" /\ Totalled(rows))
          /\ Kept(more) = IF r.kind = "project" /\ b > 0 /\ ~Totalled(rows)
                          THEN Append(Kept(rows), AsProject(r.cells, MonthOf(b))) ELSE Kept(rows)
          /\ Reported(more) = IF r.kind = "totals" /\ b \in Month
                              THEN Over([m \in {b} |-> r.profit], Reported(rows)) ELSE Reported(rows)
      <3>1. Block(more, Len(more)) = IF r.kind = "header" THEN b + 1 ELSE b
        BY <2>3, BlockAppend
      <3>2. Totalled(more) <=> (r.kind = "totals" /\ b > 0) \/ (r.kind # "header" /\ Totalled(rows))
        BY <2>3, TotalledAppend
      <3>3. Kept(more) = IF r.kind = "project" /\ b > 0 /\ ~Totalled(rows)
                         THEN Append(Kept(rows), AsProject(r.cells, MonthOf(b))) ELSE Kept(rows)
        BY <2>3, KeptGrows
      <3>4. Reported(more) = IF r.kind = "totals" /\ b \in Month
                             THEN Over([m \in {b} |-> r.profit], Reported(rows)) ELSE Reported(rows)
        BY <2>3, ReportedGrows
      <3> QED BY <3>1, <3>2, <3>3, <3>4
    <2>6. b \in Nat /\ (b \in Month => b > 0)
      <3>1. Len(rows) \in 0..Len(rows)
        BY <2>3
      <3> QED BY <2>3, <3>1, BlockIs DEF Month
    <2> HIDE DEF b, more
    <2> SUFFICES /\ month_idx' = Block(more, Len(more))
                 /\ in_block_after_totals' <=> Totalled(more)
                 /\ found' = Kept(more) /\ reported' = Reported(more)
      BY <2>3 DEF Scan
    <2>7. CASE HeaderRow(r)
      BY <2>4, <2>5, <2>7 DEF HeaderRow
    <2>8. CASE TotalsRow(r)
      BY <2>4, <2>5, <2>8 DEF TotalsRow
    <2>9. CASE ProjectRow(r)
      BY <2>4, <2>5, <2>9 DEF ProjectRow
    <2>10. CASE SkippedRow(r)
      <3>1. UNCHANGED <<month_idx, in_block_after_totals, found, reported>> /\ r.kind # "header"
        BY <2>10 DEF SkippedRow, scan
      <3>2. ~(r.kind = "totals" /\ b > 0)
        BY <2>4, <2>10 DEF SkippedRow
      <3>3. ~(r.kind = "project" /\ b > 0 /\ ~Totalled(rows))
        BY <2>4, <2>10 DEF SkippedRow
      <3> QED BY <2>4, <2>5, <2>6, <3>1, <3>2, <3>3
    <2> QED BY <2>1, <2>7, <2>8, <2>9, <2>10 DEF ReadRow
  <1>3. CASE Close
    BY <1>3 DEF Close, Scan
  <1>4. CASE Publish
    BY <1>4 DEF Publish, Scan
  <1>5. CASE UNCHANGED vars
    BY <1>5 DEF vars, scan, Scan
  <1> QED BY <1>1, <1>2, <1>3, <1>4, <1>5 DEF Next

\* The parser's flags are right after every row of every workbook, however long
\* and in whatever order its rows come: what it has collected are the project
\* rows above the totals of their block and the last totals row of each month.
THEOREM ScanReadsBlocks == Spec => []ScanIsBlockwise
  <1>1. Init => Scan
    BY DEF Init, Scan
  <1>2. Scan => ScanIsBlockwise
    BY DEF Scan, ScanIsBlockwise
  <1> QED BY <1>1, <1>2, TypeCorrect, ScanNext, PTL DEF Spec

-----------------------------------------------------------------------------
(* The year.                                                               *)

LEMMA ContentsType == \A b \in Book : Contents(b) \in Seq(Project)
  <1> SUFFICES ASSUME NEW b \in Book PROVE Contents(b) \in Seq(Project)
    OBVIOUS
  <1> DEFINE rows == b.rows
             S == KeptAt(rows)
             P(i) == AsProject(rows[i].cells, MonthOf(Block(rows, i)))
  <1>1. rows \in Seq(Row)
    BY DEF Book
  <1>2. S \in SUBSET DOMAIN rows
    BY DEF KeptAt
  <1>3. \A i \in S : P(i) \in Project
    <2> SUFFICES ASSUME NEW i \in S PROVE P(i) \in Project
      OBVIOUS
    <2>1. rows[i] \in Row /\ rows[i].kind = "project"
      BY <1>1, <1>2 DEF KeptAt
    <2>2. rows[i].cells \in Cells
      BY <2>1 DEF Row
    <2>3. MonthOf(Block(rows, i)) \in SomeMonth
      BY DEF MonthOf, SomeMonth
    <2> QED BY <2>2, <2>3, AsProjectType
  <1>4. Kept(rows) = [k \in DOMAIN Ascending(S) |-> P(Ascending(S)[k])]
    BY KeptIs
  <1> HIDE DEF rows, S, P
  <1>5. Cardinality(S) \in Nat /\ DOMAIN Ascending(S) = 1..Cardinality(S)
        /\ \A k \in 1..Cardinality(S) : Ascending(S)[k] \in S
    BY <1>1, <1>2, PickType
  <1>6. Kept(rows) \in Seq(Project)
    BY <1>3, <1>4, <1>5
  <1> QED BY <1>6, SingleHeaderType DEF Contents, rows

LEMMA SumOverConcat ==
  ASSUME NEW p \in Seq(Project), NEW c \in Seq(Project), NEW m
  PROVE  SumOver(p \o c, {m}, Profit) = SumOver(p, {m}, Profit) + SumOver(c, {m}, Profit)
  <1> DEFINE n == Len(p)
             d == p \o c
             v(s) == [i \in DOMAIN s |-> Profit(s[i])]
             e == [i \in From(c, {m}) |-> n + i]
             A == From(p, {m})
             B == {e[i] : i \in From(c, {m})}
  <1>1. /\ d \in Seq(Project) /\ n \in Nat /\ DOMAIN p = 1..n /\ DOMAIN d = 1..(n + Len(c))
        /\ DOMAIN c = 1..Len(c) /\ Len(c) \in Nat
        /\ \A i \in 1..n : d[i] = p[i]
        /\ \A i \in 1..Len(c) : d[n + i] = c[i]
    OBVIOUS
  <1>2. /\ IsFiniteSet(A) /\ A \subseteq 1..n
        /\ IsFiniteSet(From(c, {m})) /\ From(c, {m}) \subseteq 1..Len(c)
        /\ IsFiniteSet(From(d, {m})) /\ From(d, {m}) \subseteq 1..(n + Len(c))
    BY <1>1, FromFinite
  <1>3. /\ SumOver(p, {m}, Profit) = SumFunctionOnSet(v(p), A)
        /\ SumOver(c, {m}, Profit) = SumFunctionOnSet(v(c), From(c, {m}))
        /\ SumOver(d, {m}, Profit) = SumFunctionOnSet(v(d), From(d, {m}))
    BY <1>1, SumOverIs DEF SumFrom
  <1>4. \A i \in DOMAIN d : v(d)[i] \in Int
    BY <1>1, Amounts
  <1> HIDE DEF n, d
  <1> DEFINE L == Len(c)
             C == From(c, {m})
             D == From(d, {m})
  <1>10. /\ n \in Nat /\ L \in Nat
         /\ \A i \in A : i \in 1..n /\ i \in 1..(n + L) /\ i \in Nat
         /\ \A i \in C : i \in 1..L /\ n + i \in 1..(n + L) /\ n + i \notin 1..n /\ i \in Nat
         /\ \A i \in D : i \in 1..(n + L) /\ (i \notin 1..n => i - n \in 1..L /\ n + (i - n) = i)
    <2>1. n \in Nat /\ L \in Nat
      BY <1>1
    <2>2. A \subseteq 1..n /\ C \subseteq 1..L /\ D \subseteq 1..(n + L)
      BY <1>2
    <2> HIDE DEF A, C, D, L
    <2> QED BY <2>1, <2>2
  <1>5. From(d, {m}) = A \cup B /\ A \cap B = {}
    <2>1. ASSUME NEW i \in From(d, {m}) PROVE i \in A \cup B
      <3>1. CASE i \in 1..n
        BY <1>1, <3>1 DEF From
      <3>2. CASE i \notin 1..n
        <4>1. i - n \in 1..Len(c) /\ n + (i - n) = i
          BY <1>10, <3>2
        <4>2. i - n \in From(c, {m})
          BY <1>1, <4>1 DEF From
        <4> QED BY <4>1, <4>2
      <3> QED BY <3>1, <3>2
    <2>2. ASSUME NEW i \in A PROVE i \in From(d, {m})
      <3>1. i \in 1..(n + L) /\ d[i] = p[i]
        BY <1>1, <1>10
      <3> QED BY <1>1, <3>1 DEF From
    <2>3. ASSUME NEW i \in From(c, {m}) PROVE n + i \in From(d, {m}) /\ n + i \notin A
      <3>1. n + i \in 1..(n + L) /\ d[n + i] = c[i] /\ n + i \notin 1..n
        BY <1>1, <1>10
      <3> QED BY <1>1, <1>2, <3>1 DEF From
    <2> QED BY <2>1, <2>2, <2>3
  <1>6. IsFiniteSet(B)
    <2>1. B \subseteq From(d, {m})
      BY <1>5
    <2> QED BY <1>2, <2>1, FS_Subset
  <1>7. SumFunctionOnSet(v(d), A \cup B) = SumFunctionOnSet(v(d), A) + SumFunctionOnSet(v(d), B)
    <2>1. \A i \in A \cup B : v(d)[i] \in Int
      BY <1>1, <1>2, <1>4, <1>5
    <2> DEFINE w == v(d)
    <2> HIDE DEF v, A, B
    <2> QED BY <1>2, <1>5, <1>6, <2>1, SumJoin
  <1>8. SumFunctionOnSet(v(d), A) = SumFunctionOnSet(v(p), A)
    <2>1. \A i \in A : v(d)[i] = v(p)[i]
      <3> SUFFICES ASSUME NEW i \in A PROVE v(d)[i] = v(p)[i]
        OBVIOUS
      <3>1. i \in DOMAIN d /\ i \in DOMAIN p /\ d[i] = p[i]
        BY <1>1, <1>10
      <3> QED BY <3>1
    <2> HIDE DEF v, A
    <2> QED BY <1>2, <2>1, SumEqual
  <1>9. SumFunctionOnSet(v(d), B) = SumFunctionOnSet(v(c), From(c, {m}))
    <2>1. \A x, y \in From(c, {m}) : e[x] = e[y] => x = y
      <3> SUFFICES ASSUME NEW x \in C, NEW y \in C, e[x] = e[y] PROVE x = y
        OBVIOUS
      <3>1. n + x = n + y /\ x \in Nat /\ y \in Nat /\ n \in Nat
        BY <1>10
      <3> QED BY <3>1
    <2>2. ASSUME NEW x \in From(c, {m}) PROVE v(d)[e[x]] = v(c)[x] /\ v(d)[e[x]] \in Int
      <3>1. n + x \in DOMAIN d /\ x \in DOMAIN c /\ d[n + x] = c[x]
        BY <1>1, <1>10
      <3> QED BY <1>4, <3>1
    <2> DEFINE w == [x \in From(c, {m}) |-> v(d)[e[x]]]
               vd == v(d)
    <2>6. \A x \in From(c, {m}) : vd[e[x]] \in Int
      BY <2>2
    <2> HIDE DEF v, e, vd
    <2>7. SumFunctionOnSet(vd, {e[x] : x \in From(c, {m})})
            = SumFunctionOnSet([x \in From(c, {m}) |-> vd[e[x]]], From(c, {m}))
      <3> HIDE DEF L, D, A, B
      <3>1. IsFiniteSet(C) /\ (\A x, y \in C : e[x] = e[y] => x = y) /\ \A x \in C : vd[e[x]] \in Int
        BY <1>2, <2>1, <2>6
      <3> HIDE DEF C
      <3>2. SumFunctionOnSet(vd, {e[x] : x \in C}) = SumFunctionOnSet([x \in C |-> vd[e[x]]], C)
        BY <3>1, SumMove
      <3> QED BY <3>2 DEF C
    <2>3. SumFunctionOnSet(v(d), B) = SumFunctionOnSet(w, From(c, {m}))
      BY <2>7 DEF vd
    <2>4. \A x \in From(c, {m}) : w[x] = v(c)[x]
      BY <2>2
    <2> HIDE DEF w
    <2>5. SumFunctionOnSet(w, From(c, {m})) = SumFunctionOnSet(v(c), From(c, {m}))
      BY <1>2, <2>4, SumEqual
    <2> QED BY <2>3, <2>5
  <1> HIDE DEF v, A, B
  <1> QED BY <1>3, <1>5, <1>7, <1>8, <1>9 DEF d

\* The year is the contents of its workbooks, and what its blocks report is
\* what one of them reports.
YearIs ==
  /\ projects = AllRows
  /\ \A m \in Month :
       SumOver(projects, {m}, Profit)
         = SumFunction([i \in DOMAIN books |-> SumOver(Contents(books[i]), {m}, Profit)])
  /\ \A m \in DOMAIN block_monthly : \E i \in DOMAIN books :
       m \in DOMAIN Reported(books[i].rows) /\ block_monthly[m] = Reported(books[i].rows)[m]

LEMMA YearInit == Init => YearIs
  <1> SUFFICES ASSUME Init PROVE YearIs
    OBVIOUS
  <1>1. books = <<>> /\ projects = <<>> /\ block_monthly = Empty
    BY DEF Init
  <1>2. DOMAIN books = {} /\ DOMAIN block_monthly = {}
    BY <1>1, EmptyIs
  <1>3. AllRows = <<>>
    <2> DEFINE ss == [i \in DOMAIN books |-> Contents(books[i])]
    <2>1. ss = <<>>
      BY <1>2
    <2>2. FlattenSeq(ss) = <<>>
      <3> HIDE DEF ss
      <3> QED BY <2>1, FlattenIsLast
    <2> QED BY <2>2 DEF AllRows
  <1>4. ASSUME NEW m
        PROVE  SumOver(<<>>, {m}, Profit)
                 = SumFunction([i \in DOMAIN books |-> SumOver(Contents(books[i]), {m}, Profit)])
    <2>1. <<>> \in Seq(Project) /\ From(<<>>, {m}) = {}
      BY DEF From
    <2>2. SumOver(<<>>, {m}, Profit) = 0
      BY <2>1, SumOverIs, SumOfNone DEF SumFrom
    <2> DEFINE f == [i \in DOMAIN books |-> SumOver(Contents(books[i]), {m}, Profit)]
    <2>3. DOMAIN f = {}
      BY <1>2
    <2> HIDE DEF f
    <2>4. SumFunction(f) = 0
      BY <2>3, SumOfNone DEF SumFunction
    <2> QED BY <2>2, <2>4 DEF f
  <1> QED BY <1>1, <1>2, <1>3, <1>4 DEF YearIs

LEMMA YearNext == TypeOK /\ Scan /\ YearIs /\ [Next]_vars => YearIs'
  <1> SUFFICES ASSUME TypeOK, Scan, YearIs, [Next]_vars PROVE YearIs'
    OBVIOUS
  <1>1. CASE Close
    <2> DEFINE n == Len(books)
               c == Contents(book)
    <2>1. /\ book # None /\ book \in Book /\ books \in Seq(Book) /\ books' = Append(books, book)
          /\ projects \in Seq(Project) /\ n \in Nat /\ c \in Seq(Project)
      BY <1>1, Types, ContentsType DEF Close
    <2>2. found = Kept(book.rows) /\ reported = Reported(book.rows)
      BY <2>1 DEF Scan
    <2>3. projects' = projects \o c
      BY <1>1, <2>2 DEF Close, Contents
    <2>4. /\ DOMAIN books = 1..n /\ DOMAIN books' = 1..(n + 1)
          /\ \A i \in 1..n : books'[i] = books[i]
          /\ books'[n + 1] = book
          /\ \A i \in 1..n : i \in 1..(n + 1)
          /\ n + 1 \in 1..(n + 1) /\ n + 1 \notin 1..n
      BY <2>1
    <2>5. \A i \in 1..n : Contents(books[i]) \in Seq(Project)
      <3>1. \A i \in 1..n : books[i] \in Book
        BY <2>1
      <3> QED BY <3>1, ContentsType
    <2>6. projects' = AllRows'
      <3> DEFINE ss == [i \in 1..n |-> Contents(books[i])]
                 tt == [i \in 1..(n + 1) |-> Contents(books'[i])]
      <3>1. ss \in Seq(Seq(Project))
        BY <2>1, <2>5
      <3>2. AllRows = FlattenSeq(ss) /\ AllRows' = FlattenSeq(tt)
        BY <2>4 DEF AllRows
      <3>3. tt = Append(ss, c)
        <4>1. Len(ss) = n
          BY <2>1
        <4>2. Append(ss, c) = [i \in 1..(n + 1) |-> IF i = n + 1 THEN c ELSE ss[i]]
          <5> HIDE DEF ss, c
          <5>1. Append(ss, c) = [i \in 1..(Len(ss) + 1) |-> IF i = Len(ss) + 1 THEN c ELSE ss[i]]
            BY <3>1, AppendIs
          <5> HIDE DEF n
          <5> QED BY <4>1, <5>1
        <4>3. ASSUME NEW i \in 1..(n + 1)
              PROVE  Contents(books'[i]) = IF i = n + 1 THEN c ELSE ss[i]
          <5>1. i = n + 1 \/ i \in 1..n
            BY <2>1
          <5> QED BY <2>4, <5>1
        <4> QED BY <4>2, <4>3
      <3> HIDE DEF ss, tt, c
      <3> QED BY <2>1, <2>3, <3>1, <3>2, <3>3, FlattenAppend DEF YearIs
    <2>7. ASSUME NEW m \in Month
          PROVE  SumOver(projects', {m}, Profit)
                   = SumFunction([i \in DOMAIN books' |-> SumOver(Contents(books'[i]), {m}, Profit)])
      <3> DEFINE f == [i \in 1..n |-> SumOver(Contents(books[i]), {m}, Profit)]
                 g == [i \in 1..(n + 1) |-> SumOver(Contents(books'[i]), {m}, Profit)]
                 s == SumOver(c, {m}, Profit)
      <3>1. SumOver(projects, {m}, Profit) = SumFunctionOnSet(f, 1..n)
        BY <2>4 DEF YearIs, SumFunction
      <3>2. SumFunction(g) = SumFunctionOnSet(g, 1..(n + 1))
        BY DEF SumFunction
      <3>3. SumOver(projects', {m}, Profit) = SumOver(projects, {m}, Profit) + s
        BY <2>1, <2>3, SumOverConcat
      <3>4. IsFiniteSet(1..n) /\ 1..(n + 1) = 1..n \cup {n + 1}
        <4> HIDE DEF n
        <4>1. n \in Nat
          BY <2>1
        <4>2. IsFiniteSet(1..n)
          BY <4>1, FS_Interval
        <4> QED BY <4>1, <4>2
      <3>5. /\ \A i \in 1..n : f[i] = g[i] /\ f[i] \in Int
            /\ g[n + 1] = s /\ s \in Int
        <4>1. \A i \in 1..n : SumOver(Contents(books[i]), {m}, Profit) \in Int
          BY <2>5, SumOverIs
        <4>2. s \in Int
          BY <2>1, SumOverIs
        <4> QED BY <2>4, <4>1, <4>2
      <3> HIDE DEF f, g, s
      <3>6. SumFunctionOnSet(g, 1..n \cup {n + 1}) = g[n + 1] + SumFunctionOnSet(g, 1..n)
        <4>1. \A i \in 1..n \cup {n + 1} : g[i] \in Int
          BY <3>5
        <4> QED BY <2>4, <3>4, <4>1, SumAdd
      <3>7. SumFunctionOnSet(f, 1..n) = SumFunctionOnSet(g, 1..n)
        BY <3>4, <3>5, SumEqual
      <3>8. SumFunctionOnSet(f, 1..n) \in Int
        BY <3>4, <3>5, SumType
      <3>9. SumFunction(g) = SumOver(projects', {m}, Profit)
        <4> DEFINE a == SumFunctionOnSet(f, 1..n)
                   b == SumFunctionOnSet(g, 1..(n + 1))
        <4>1. b = s + a
          BY <3>4, <3>5, <3>6, <3>7
        <4>2. SumOver(projects', {m}, Profit) = a + s
          BY <3>1, <3>3
        <4>3. a \in Int /\ s \in Int
          BY <3>5, <3>8
        <4> HIDE DEF a, b
        <4>4. b = SumOver(projects', {m}, Profit)
          BY <4>1, <4>2, <4>3
        <4> QED BY <3>2, <4>4 DEF b
      <3> QED BY <2>4, <3>9 DEF g
    <2>8. ASSUME NEW m \in DOMAIN block_monthly'
          PROVE  \E i \in DOMAIN books' :
                   m \in DOMAIN Reported(books'[i].rows) /\ block_monthly'[m] = Reported(books'[i].rows)[m]
      <3>1. \/ block_monthly' = Over(reported, block_monthly)
            \/ block_monthly' = block_monthly
        BY <1>1 DEF Close
      <3>2. CASE /\ block_monthly' = Over(reported, block_monthly)
                 /\ m \in DOMAIN reported
        <4>1. block_monthly'[m] = reported[m]
          BY <3>2 DEF Over
        <4> QED BY <2>2, <2>4, <3>2, <4>1
      <3>3. CASE m \in DOMAIN block_monthly /\ block_monthly'[m] = block_monthly[m]
        <4>1. PICK i \in DOMAIN books :
                m \in DOMAIN Reported(books[i].rows) /\ block_monthly[m] = Reported(books[i].rows)[m]
          BY <3>3 DEF YearIs
        <4> QED BY <2>4, <3>3, <4>1
      <3> QED BY <3>1, <3>2, <3>3 DEF Over
    <2> QED BY <2>6, <2>7, <2>8 DEF YearIs
  <1>2. CASE UNCHANGED <<books, year>>
    <2>1. UNCHANGED <<books, projects, block_monthly>>
      BY <1>2 DEF year
    <2>2. AllRows' = AllRows
      BY <2>1 DEF AllRows
    <2> QED BY <2>1, <2>2 DEF YearIs
  <1>3. Close \/ UNCHANGED <<books, year>>
    BY DEF Next, Open, ReadRow, Publish, vars
  <1> QED BY <1>1, <1>2, <1>3

\* The stored rows are what the year gives.
Published ==
  figures # None =>
    /\ book = None
    /\ figures.projects = DedupeProjects(projects)
    /\ figures.monthly = Monthly(figures.projects, overhead_detail, block_monthly)
    /\ figures.quarterly = Quarterly(figures.projects, figures.monthly)

LEMMA PublishedNext == Published /\ [Next]_vars => Published'
  <1> SUFFICES ASSUME Published, [Next]_vars PROVE Published'
    OBVIOUS
  <1>1. CASE \E layout \in {"blocks", "listing"}, column \in Columns : Open(layout, column)
    BY <1>1 DEF Open, Published
  <1>2. CASE \E r \in Row : ReadRow(r)
    BY <1>2 DEF ReadRow, Published
  <1>3. CASE Close
    BY <1>3 DEF Close, Published
  <1>4. CASE Publish
    <2> DEFINE ps == DedupeProjects(projects)
               monthly == Monthly(ps, overhead_detail, block_monthly)
    <2>1. /\ figures' = [projects |-> ps, monthly |-> monthly, quarterly |-> Quarterly(ps, monthly)]
          /\ book = None /\ UNCHANGED <<book, projects, block_monthly, overhead_detail>>
      BY <1>4 DEF Publish, year
    <2>2. figures'.projects = ps /\ figures'.monthly = monthly /\ figures'.quarterly = Quarterly(ps, monthly)
      BY <2>1
    <2> QED BY <2>1, <2>2 DEF Published
  <1>5. CASE UNCHANGED vars
    BY <1>5 DEF vars, year, Published
  <1> QED BY <1>1, <1>2, <1>3, <1>4, <1>5 DEF Next

\* The inductive invariant.
YearInv == TypeOK /\ Scan /\ YearIs /\ Published

\* After every row and every workbook the scan agrees with the blocks, the year with
\* its workbooks, and what is stored with the year (parse_project_list_blocks,
\* parse_files_for_year).
THEOREM YearCorrect == Spec => []YearInv
  <1>1. Init => Scan
    BY DEF Init, Scan
  <1>2. Init => Published
    BY DEF Init, Published
  <1>3. YearInv /\ [Next]_vars => YearInv'
    BY TypeNext, ScanNext, YearNext, PublishedNext DEF YearInv
  <1>4. Init => YearInv
    BY <1>1, <1>2, TypeInit, YearInit DEF YearInv
  <1> QED BY <1>3, <1>4, PTL DEF Spec

\* _dedupe_projects keeps one row of each job, its last.
LEMMA OneRowForEachJob ==
  ASSUME NEW all \in Seq(Project)
  PROVE  /\ Len(DedupeProjects(all)) = Cardinality({p.job : p \in ToSet(all)})
         /\ \A p \in ToSet(DedupeProjects(all)) :
              \E i \in DOMAIN all : all[i] = p /\ \A j \in (i + 1)..Len(all) : all[j].job # p.job
  <1> DEFINE last == LastAt(all)
             d == DedupeProjects(all)
             jobs == {p.job : p \in ToSet(all)}
             f == [i \in last |-> all[i].job]
  <1>1. /\ d \in Seq(Project) /\ DOMAIN d = 1..Cardinality(last) /\ Len(d) = Cardinality(last)
        /\ last \in SUBSET Nat /\ IsFiniteSet(last)
        /\ \A k \in 1..Cardinality(last) : Ascending(last)[k] \in last /\ d[k] = all[Ascending(last)[k]]
    BY LastRows
  <1>2. DOMAIN all = 1..Len(all) /\ Len(all) \in Nat
    OBVIOUS
  <1>3. f \in Bijection(last, jobs)
    <2>1. f \in [last -> jobs]
      BY DEF ToSet, LastAt
    <2>2. ASSUME NEW i \in last, NEW j \in last, f[i] = f[j] PROVE i = j
      <3>1. all[i].job = all[j].job /\ i \in 1..Len(all) /\ j \in 1..Len(all)
        BY <1>2, <2>2 DEF LastAt
      <3>2. i < j => j \in (i + 1)..Len(all)
        BY <1>2, <3>1
      <3>3. j < i => i \in (j + 1)..Len(all)
        BY <1>2, <3>1
      <3>4. ~(i < j) /\ ~(j < i)
        BY <3>1, <3>2, <3>3 DEF LastAt
      <3> QED BY <3>1, <3>4
    <2>3. ASSUME NEW b \in jobs PROVE \E i \in last : f[i] = b
      <3>1. PICK k \in DOMAIN all : all[k].job = b
        BY DEF ToSet
      <3> DEFINE S == {i \in DOMAIN all : all[i].job = b}
      <3>2. S \in SUBSET DOMAIN all /\ S # {}
        BY <3>1
      <3>3. Max(S) \in S /\ \A i \in S : Max(S) >= i
        <4> HIDE DEF S
        <4>1. S \in SUBSET Nat /\ IsFiniteSet(S)
          BY <3>2, PickType
        <4> QED BY <3>2, <4>1, MaxIs
      <3> DEFINE x == Max(S)
      <3>4. x \in DOMAIN all /\ all[x].job = b /\ \A i \in DOMAIN all : all[i].job = b => x >= i
        BY <3>3
      <3> HIDE DEF x
      <3>5. ASSUME NEW j \in (x + 1)..Len(all) PROVE all[j].job # b
        <4>1. j \in DOMAIN all /\ ~(x >= j)
          BY <1>2, <3>4
        <4> QED BY <3>4, <4>1
      <3>6. x \in last
        BY <3>4, <3>5 DEF LastAt
      <3> QED BY <3>4, <3>6
    <2> HIDE DEF f, last, jobs
    <2> QED BY <2>1, <2>2, <2>3 DEF Bijection, Injection, Surjection, IsInjective
  <1>4. Cardinality(jobs) = Cardinality(last)
    <2> HIDE DEF f, last, jobs
    <2> QED BY <1>1, <1>3, FS_Bijection DEF ExistsBijection
  <1>5. ASSUME NEW p \in ToSet(d)
        PROVE  \E i \in DOMAIN all : all[i] = p /\ \A j \in (i + 1)..Len(all) : all[j].job # p.job
    <2>1. PICK k \in DOMAIN d : d[k] = p
      BY DEF ToSet
    <2>2. Ascending(last)[k] \in last /\ all[Ascending(last)[k]] = p
      BY <1>1, <2>1
    <2> QED BY <2>2 DEF LastAt
  <1> QED BY <1>1, <1>4, <1>5

\* However many workbooks name a job, and wherever in them, the register has it
\* once, with the numbers of its last row in the newest workbook that has it.
THEOREM RegisterIsLatest == Spec => []EachJobIsItsLatestRow
  <1>1. ASSUME YearInv PROVE EachJobIsItsLatestRow
    <2>1. projects \in Seq(Project) /\ projects = AllRows
      BY <1>1, Types DEF YearInv, YearIs
    <2>2. figures # None => figures.projects = DedupeProjects(AllRows)
      BY <1>1, <2>1 DEF YearInv, Published
    <2> DEFINE all == AllRows
               d == DedupeProjects(all)
    <2>3. all \in Seq(Project) /\ (figures # None => figures.projects = d)
      BY <2>1, <2>2
    <2> HIDE DEF all
    <2>4. /\ Len(d) = Cardinality({p.job : p \in ToSet(all)})
          /\ \A p \in ToSet(d) : \E i \in DOMAIN all : all[i] = p /\ \A j \in (i + 1)..Len(all) : all[j].job # p.job
      BY <2>3, OneRowForEachJob
    <2> HIDE DEF d
    <2>5. figures # None =>
            /\ Len(figures.projects) = Cardinality({p.job : p \in ToSet(all)})
            /\ \A p \in ToSet(figures.projects) :
                 \E i \in DOMAIN all : all[i] = p /\ \A j \in (i + 1)..Len(all) : all[j].job # p.job
      BY <2>3, <2>4
    <2> QED BY <2>5 DEF EachJobIsItsLatestRow, all
  <1> QED BY <1>1, YearCorrect, PTL

-----------------------------------------------------------------------------
(* Sums by month and by quarter.                                           *)

LEMMA SumRestrict ==
  ASSUME NEW S, IsFiniteSet(S), NEW w, DOMAIN w = S, NEW v, \A x \in S : w[x] = v[x]
  PROVE  SumFunction(w) = SumFunctionOnSet(v, S)
  BY SumEqual DEF SumFunction

\* A sum over the months is the sum of its quarters.
LEMMA SumByQuarter ==
  ASSUME NEW f, \A m \in Month : f[m] \in Int, NEW g, DOMAIN g = Quarter,
         \A q \in Quarter : g[q] = SumFunctionOnSet(f, Span(q))
  PROVE  SumFunction(g) = SumFunctionOnSet(f, Month)
  <1> DEFINE q0 == [m \in Month |-> MonthToQ(m)]
             h == [q \in Quarter |-> SumFunctionOnSet(f, {m \in Month : q0[m] = q})]
  <1>1. \A m \in Month : q0[m] \in Quarter
    BY Quarters
  <1>2. \A q \in Quarter : {m \in Month : q0[m] = q} = Span(q)
    BY DEF Span
  <1>3. \A q \in Quarter : g[q] = h[q]
    BY <1>2
  <1> HIDE DEF q0
  <1>4. SumFunctionOnSet(f, Month) = SumFunctionOnSet(h, Quarter)
    BY <1>1, Quarters, SumGroups
  <1> HIDE DEF h
  <1>5. SumFunction(g) = SumFunctionOnSet(h, Quarter)
    BY <1>3, Quarters, SumRestrict
  <1> QED BY <1>4, <1>5

\* A sum over the projects of some months, taken month by month.
LEMMA SumByMonth ==
  ASSUME NEW ps \in Seq(Project), NEW v, \A i \in DOMAIN ps : v[i] \in Int,
         NEW M, IsFiniteSet(M), NEW f, \A m \in M : f[m] = SumFrom(ps, {m}, v)
  PROVE  SumFrom(ps, M, v) = SumFunctionOnSet(f, M)
  <1> DEFINE S == From(ps, M)
             of == [i \in S |-> ps[i].last_month]
             h == [m \in M |-> SumFunctionOnSet(v, {i \in S : of[i] = m})]
  <1>1. S \in SUBSET DOMAIN ps /\ IsFiniteSet(S)
    BY FromFinite
  <1>2. \A i \in S : of[i] \in M /\ v[i] \in Int
    BY DEF From
  <1>3. \A m \in M : {i \in S : of[i] = m} = From(ps, {m})
    BY DEF From
  <1>4. \A m \in M : h[m] = f[m]
    BY <1>3 DEF SumFrom
  <1> HIDE DEF S, of
  <1>5. SumFunctionOnSet(v, S) = SumFunctionOnSet(h, M)
    BY <1>1, <1>2, SumGroups
  <1> HIDE DEF h
  <1>6. SumFunctionOnSet(h, M) = SumFunctionOnSet(f, M)
    BY <1>4, SumEqual
  <1> QED BY <1>5, <1>6 DEF SumFrom, S

\* A quarter of what its months take from the projects takes the same from them.
LEMMA QuarterFrom ==
  ASSUME NEW ps \in Seq(Project), NEW v, \A i \in DOMAIN ps : v[i] \in Int,
         NEW f, NEW q \in Quarter
  PROVE  (\A m \in Month : f[m] = SumFrom(ps, {m}, v)) =>
           SumFrom(ps, Span(q), v) = SumFunctionOnSet(f, Span(q))
  <1>1. ASSUME \A m \in Month : f[m] = SumFrom(ps, {m}, v)
        PROVE  SumFrom(ps, Span(q), v) = SumFunctionOnSet(f, Span(q))
    <2> DEFINE M == Span(q)
    <2>1. IsFiniteSet(M) /\ \A m \in M : f[m] = SumFrom(ps, {m}, v)
      BY <1>1, Quarters
    <2> HIDE DEF M
    <2>2. SumFrom(ps, M, v) = SumFunctionOnSet(f, M)
      BY <2>1, SumByMonth, ZenonT(60)
    <2> QED BY <2>2 DEF M
  <1> QED BY <1>1

LEMMA SumFromType ==
  ASSUME NEW ps \in Seq(Project), NEW v, \A i \in DOMAIN ps : v[i] \in Int, NEW M
  PROVE  SumFrom(ps, M, v) \in Int
  <1>1. From(ps, M) \in SUBSET DOMAIN ps /\ IsFiniteSet(From(ps, M))
    BY FromFinite
  <1> QED BY <1>1, SumType DEF SumFrom

\* The totals of a page whose quarters are the sums of its months.
LEMMA TotalsAdd ==
  ASSUME NEW gp, NEW oh, NEW net, NEW quarterly,
         \A m \in Month : gp[m] \in Int /\ oh[m] \in Int /\ net[m] = gp[m] - oh[m],
         \A q \in Quarter : /\ quarterly[q].gross_profit = SumFunctionOnSet(gp, Span(q))
                            /\ quarterly[q].overhead = SumFunctionOnSet(oh, Span(q))
  PROVE  /\ Total(quarterly).gross_profit = SumFunctionOnSet(gp, Month)
         /\ Total(quarterly).overhead = SumFunctionOnSet(oh, Month)
         /\ Total(quarterly).net_profit = SumFunctionOnSet(net, Month)
  <1> DEFINE g == [q \in Quarter |-> quarterly[q].gross_profit]
             o == [q \in Quarter |-> quarterly[q].overhead]
  <1>1. /\ Total(quarterly).gross_profit = SumFunction(g)
        /\ Total(quarterly).overhead = SumFunction(o)
        /\ Total(quarterly).net_profit = SumFunction(g) - SumFunction(o)
    BY DEF Total, Line
  <1>2. /\ DOMAIN g = Quarter /\ \A q \in Quarter : g[q] = SumFunctionOnSet(gp, Span(q))
        /\ DOMAIN o = Quarter /\ \A q \in Quarter : o[q] = SumFunctionOnSet(oh, Span(q))
    OBVIOUS
  <1> HIDE DEF g, o
  <1>3. SumFunction(g) = SumFunctionOnSet(gp, Month)
    BY <1>2, SumByQuarter
  <1>4. SumFunction(o) = SumFunctionOnSet(oh, Month)
    BY <1>2, SumByQuarter
  <1>5. SumFunctionOnSet(net, Month) = SumFunctionOnSet(gp, Month) - SumFunctionOnSet(oh, Month)
    BY Quarters, SumMinus
  <1> QED BY <1>1, <1>3, <1>4, <1>5

-----------------------------------------------------------------------------
(* The accounting modes.                                                   *)

Share(v, p, mode) == (OrZero(v) * Factor(p, mode)) \div 100
Gps(ps, mode) == [i \in DOMAIN ps |-> Share(ps[i].profit, ps[i], mode)]
Saless(ps, mode) == [i \in DOMAIN ps |-> Share(ps[i].contract, ps[i], mode)]

LEMMA ShareType ==
  \A p \in Project, mode \in Modes : /\ Factor(p, mode) \in Int
                                     /\ Share(p.profit, p, mode) \in Int
                                     /\ Share(p.contract, p, mode) \in Int
  <1> SUFFICES ASSUME NEW p \in Project, NEW mode \in Modes
               PROVE  /\ Factor(p, mode) \in Int
                      /\ Share(p.profit, p, mode) \in Int
                      /\ Share(p.contract, p, mode) \in Int
    OBVIOUS
  <1>1. OrZero(p.pct) \in Int /\ OrZero(p.profit) \in Int /\ OrZero(p.contract) \in Int
    BY Amounts DEF Project
  <1>2. Factor(p, mode) \in Int
    BY <1>1 DEF Factor, Modes
  <1>3. \A a, b \in Int : (a * b) \div 100 \in Int
    OBVIOUS
  <1> QED BY <1>1, <1>2, <1>3 DEF Share

\* What aggregate returns, as functions of the months and quarters.
LEMMA AggregateIs ==
  ASSUME NEW ps \in Seq(Project), NEW mode \in Modes, NEW oh, \A m \in Month : oh[m] \in Int
  PROVE  \E f \in [Month -> Lines], g \in [Quarter -> Lines] :
           /\ Aggregate(ps, mode, oh) = [monthly |-> f, quarterly |-> g, totals |-> Total(g)]
           /\ \A m \in Month : f[m] = Line(0, SumFrom(ps, {m}, Gps(ps, mode)), oh[m])
           /\ \A q \in Quarter : g[q] = Line(SumFrom(ps, Span(q), Saless(ps, mode)),
                                             SumFrom(ps, Span(q), Gps(ps, mode)),
                                             SumFunctionOnSet(oh, Span(q)))
  <1> DEFINE a == Aggregate(ps, mode, oh)
             gp(M) == SumFunction([i \in From(ps, M) |-> Share(ps[i].profit, ps[i], mode)])
             sales(M) == SumFunction([i \in From(ps, M) |-> Share(ps[i].contract, ps[i], mode)])
             mm == [m \in Month |-> Line(0, gp({m}), oh[m])]
             qq == [q \in Quarter |-> Line(sales(Span(q)), gp(Span(q)), SumFunction([m \in Span(q) |-> oh[m]]))]
  <1>1. a = [monthly |-> mm, quarterly |-> qq, totals |-> Total(qq)]
    BY DEF Aggregate, SumOver, From, Share
  <1>2. ASSUME NEW M PROVE gp(M) = SumFrom(ps, M, Gps(ps, mode)) /\ sales(M) = SumFrom(ps, M, Saless(ps, mode))
    <2>1. From(ps, M) \in SUBSET DOMAIN ps /\ IsFiniteSet(From(ps, M))
      BY FromFinite
    <2> DEFINE g == [i \in From(ps, M) |-> Share(ps[i].profit, ps[i], mode)]
               s == [i \in From(ps, M) |-> Share(ps[i].contract, ps[i], mode)]
    <2>2. /\ DOMAIN g = From(ps, M) /\ \A i \in From(ps, M) : g[i] = Gps(ps, mode)[i]
          /\ DOMAIN s = From(ps, M) /\ \A i \in From(ps, M) : s[i] = Saless(ps, mode)[i]
      BY <2>1 DEF Gps, Saless
    <2> HIDE DEF g, s
    <2>3. SumFunction(g) = SumFunctionOnSet(Gps(ps, mode), From(ps, M))
      BY <2>1, <2>2, SumRestrict
    <2>4. SumFunction(s) = SumFunctionOnSet(Saless(ps, mode), From(ps, M))
      BY <2>1, <2>2, SumRestrict
    <2> QED BY <2>3, <2>4 DEF SumFrom, g, s
  <1>3. ASSUME NEW q \in Quarter PROVE SumFunction([m \in Span(q) |-> oh[m]]) = SumFunctionOnSet(oh, Span(q))
    <2> DEFINE f == [m \in Span(q) |-> oh[m]]
    <2>1. DOMAIN f = Span(q) /\ \A m \in Span(q) : f[m] = oh[m]
      OBVIOUS
    <2> HIDE DEF f
    <2>2. SumFunction(f) = SumFunctionOnSet(oh, Span(q))
      BY <2>1, Quarters, SumRestrict
    <2> QED BY <2>2 DEF f
  <1> HIDE DEF a, gp, sales
  <1>4. mm = [m \in Month |-> Line(0, SumFrom(ps, {m}, Gps(ps, mode)), oh[m])]
    BY <1>2
  <1>5. qq = [q \in Quarter |-> Line(SumFrom(ps, Span(q), Saless(ps, mode)),
                                     SumFrom(ps, Span(q), Gps(ps, mode)),
                                     SumFunctionOnSet(oh, Span(q)))]
    BY <1>2, <1>3
  <1>6. mm \in [Month -> Lines] /\ qq \in [Quarter -> Lines]
    <2>1. \A M : SumFrom(ps, M, Gps(ps, mode)) \in Int /\ SumFrom(ps, M, Saless(ps, mode)) \in Int
      <3>1. \A i \in DOMAIN ps : Gps(ps, mode)[i] \in Int /\ Saless(ps, mode)[i] \in Int
        BY ShareType DEF Gps, Saless
      <3> QED BY <3>1, SumFromType
    <2>2. \A q \in Quarter : SumFunctionOnSet(oh, Span(q)) \in Int
      <3>1. \A q \in Quarter : IsFiniteSet(Span(q)) /\ \A m \in Span(q) : oh[m] \in Int
        BY Quarters
      <3> QED BY <3>1, SumType
    <2>3. \A m \in Month : Line(0, SumFrom(ps, {m}, Gps(ps, mode)), oh[m]) \in Lines
      <3> SUFFICES ASSUME NEW m \in Month PROVE Line(0, SumFrom(ps, {m}, Gps(ps, mode)), oh[m]) \in Lines
        OBVIOUS
      <3>1. 0 \in Int /\ SumFrom(ps, {m}, Gps(ps, mode)) \in Int /\ oh[m] \in Int
        BY <2>1
      <3> QED BY <3>1, LineType
    <2>4. \A q \in Quarter : Line(SumFrom(ps, Span(q), Saless(ps, mode)), SumFrom(ps, Span(q), Gps(ps, mode)),
                                  SumFunctionOnSet(oh, Span(q))) \in Lines
      BY <2>1, <2>2, LineType
    <2> HIDE DEF mm, qq
    <2> QED BY <1>4, <1>5, <2>3, <2>4
  <1>7. /\ \A m \in Month : mm[m] = Line(0, SumFrom(ps, {m}, Gps(ps, mode)), oh[m])
        /\ \A q \in Quarter : qq[q] = Line(SumFrom(ps, Span(q), Saless(ps, mode)),
                                           SumFrom(ps, Span(q), Gps(ps, mode)),
                                           SumFunctionOnSet(oh, Span(q)))
    <2> HIDE DEF mm, qq
    <2> QED BY <1>4, <1>5
  <1> HIDE DEF mm, qq
  <1> QED BY <1>1, <1>6, <1>7 DEF a

\* The columns of the stored months.
Gp_ == [m \in Month |-> figures.monthly[m].gross_profit]
Oh_ == [m \in Month |-> figures.monthly[m].overhead]

\* What is stored, by month and by quarter.
LEMMA StoredIs ==
  ASSUME YearInv, figures # None
  PROVE  /\ figures.projects \in Seq(Project) /\ figures.projects = DedupeProjects(AllRows)
         /\ AllRows \in Seq(Project)
         /\ \A m \in Month : /\ Gp_[m] \in Int /\ Oh_[m] \in Int
                             /\ Gp_[m] = GrossProfit(figures.projects, m, block_monthly)
         /\ figures.monthly = [m \in Month |-> Line(0, Gp_[m], Oh_[m])]
         /\ figures.quarterly = [q \in Quarter |-> Line(SumOver(figures.projects, Span(q), Contract),
                                                        SumFunctionOnSet(Gp_, Span(q)),
                                                        SumFunctionOnSet(Oh_, Span(q)))]
  <1> DEFINE ps == figures.projects
             monthly == figures.monthly
             o(m) == IF m \in DOMAIN overhead_detail THEN OrZero(overhead_detail[m]) ELSE 0
             gf(q) == SumFunction([m \in Span(q) |-> monthly[m].gross_profit])
             of(q) == SumFunction([m \in Span(q) |-> monthly[m].overhead])
  <1>1. /\ projects \in Seq(Project) /\ projects = AllRows
        /\ ps \in Seq(Project) /\ ps = DedupeProjects(projects)
        /\ monthly = Monthly(ps, overhead_detail, block_monthly) /\ monthly \in [Month -> Lines]
        /\ figures.quarterly = Quarterly(ps, monthly)
    BY Types DEF YearInv, YearIs, Published, StoredType
  <1>2. monthly = [m \in Month |-> Line(0, GrossProfit(ps, m, block_monthly), o(m))]
    BY <1>1 DEF Monthly
  <1>3. figures.quarterly = [q \in Quarter |-> Line(SumOver(ps, Span(q), Contract), gf(q), of(q))]
    BY <1>1 DEF Quarterly
  <1>4. ASSUME NEW m \in Month
        PROVE  /\ Gp_[m] = GrossProfit(ps, m, block_monthly) /\ Oh_[m] = o(m)
               /\ Gp_[m] \in Int /\ Oh_[m] \in Int
    <2>1. Gp_[m] = monthly[m].gross_profit /\ Oh_[m] = monthly[m].overhead
      BY DEF Gp_, Oh_
    <2>2. monthly[m] \in Lines
      BY <1>1
    <2>3. monthly[m] = Line(0, GrossProfit(ps, m, block_monthly), o(m))
      BY <1>2
    <2> HIDE DEF monthly, ps, o
    <2>4. /\ monthly[m].gross_profit = GrossProfit(ps, m, block_monthly)
          /\ monthly[m].overhead = o(m)
      BY <2>3 DEF Line
    <2> QED BY <2>1, <2>2, <2>4 DEF Lines
  <1>5. ASSUME NEW q \in Quarter
        PROVE  gf(q) = SumFunctionOnSet(Gp_, Span(q)) /\ of(q) = SumFunctionOnSet(Oh_, Span(q))
    <2> DEFINE g == [m \in Span(q) |-> monthly[m].gross_profit]
               h == [m \in Span(q) |-> monthly[m].overhead]
    <2>1. Span(q) \in SUBSET Month /\ IsFiniteSet(Span(q))
      BY Quarters
    <2>2. /\ DOMAIN g = Span(q) /\ \A m \in Span(q) : g[m] = Gp_[m]
          /\ DOMAIN h = Span(q) /\ \A m \in Span(q) : h[m] = Oh_[m]
      BY <2>1 DEF Gp_, Oh_
    <2> HIDE DEF g, h
    <2>3. SumFunction(g) = SumFunctionOnSet(Gp_, Span(q)) /\ SumFunction(h) = SumFunctionOnSet(Oh_, Span(q))
      BY <2>1, <2>2, SumRestrict
    <2> QED BY <2>3 DEF g, h
  <1> HIDE DEF o, gf, of
  <1>6. monthly = [m \in Month |-> Line(0, Gp_[m], Oh_[m])]
    <2> HIDE DEF monthly
    <2> QED BY <1>2, <1>4
  <1>7. figures.quarterly = [q \in Quarter |-> Line(SumOver(ps, Span(q), Contract),
                                                    SumFunctionOnSet(Gp_, Span(q)),
                                                    SumFunctionOnSet(Oh_, Span(q)))]
    BY <1>3, <1>5
  <1> QED BY <1>1, <1>4, <1>6, <1>7

\* In every mode the quarters are the sums of the months.
LEMMA PageAdds ==
  ASSUME YearInv, figures # None, NEW mode \in Modes
  PROVE  LET d == Dashboard(mode)
         IN  /\ \A m \in Month : d.monthly[m].overhead = Oh_[m]
             /\ d.totals.overhead = SumFunctionOnSet(Oh_, Month)
             /\ d.totals.gross_profit = SumFunction([m \in Month |-> d.monthly[m].gross_profit])
             /\ d.totals.net_profit = SumFunction([m \in Month |-> d.monthly[m].net_profit])
  <1> DEFINE d == Dashboard(mode)
             ps == figures.projects
             agg == Gps(ps, mode)
             gp == [m \in Month |-> IF mode = "raw" THEN Gp_[m] ELSE SumFrom(ps, {m}, agg)]
             net == [m \in Month |-> gp[m] - Oh_[m]]
             dg == [m \in Month |-> d.monthly[m].gross_profit]
             dn == [m \in Month |-> d.monthly[m].net_profit]
  <1>1. ps \in Seq(Project) /\ \A m \in Month : Gp_[m] \in Int /\ Oh_[m] \in Int
    BY StoredIs
  <1>2. \A i \in DOMAIN ps : agg[i] \in Int
    <2>1. \A i \in DOMAIN ps : ps[i] \in Project
      BY <1>1
    <2> QED BY <2>1, ShareType DEF Gps
  <1>3. \A m \in Month : gp[m] \in Int
    <2>1. \A m \in Month : SumFrom(ps, {m}, agg) \in Int
      BY <1>1, <1>2, SumFromType
    <2> QED BY <1>1, <2>1
  <1>4. /\ \A m \in Month : d.monthly[m] = Line(0, gp[m], Oh_[m])
        /\ \A q \in Quarter : /\ d.quarterly[q].gross_profit = SumFunctionOnSet(gp, Span(q))
                              /\ d.quarterly[q].overhead = SumFunctionOnSet(Oh_, Span(q))
        /\ d.totals = Total(d.quarterly)
    <2>1. CASE mode = "raw"
      <3>1. d.monthly = figures.monthly /\ d.quarterly = figures.quarterly /\ d.totals = Total(figures.quarterly)
        BY <2>1 DEF Dashboard
      <3>2. \A m \in Month : gp[m] = Gp_[m]
        BY <2>1
      <3>3. \A q \in Quarter : SumFunctionOnSet(gp, Span(q)) = SumFunctionOnSet(Gp_, Span(q))
        <4>1. \A q \in Quarter : IsFiniteSet(Span(q)) /\ \A m \in Span(q) : gp[m] = Gp_[m]
          BY <3>2, Quarters
        <4> HIDE DEF gp
        <4> QED BY <4>1, SumEqual
      <3> HIDE DEF gp, d
      <3>4. \A m \in Month : figures.monthly[m] = Line(0, Gp_[m], Oh_[m])
        BY StoredIs
      <3>5. \A q \in Quarter : /\ figures.quarterly[q].gross_profit = SumFunctionOnSet(Gp_, Span(q))
                               /\ figures.quarterly[q].overhead = SumFunctionOnSet(Oh_, Span(q))
        <4>1. \A q \in Quarter : figures.quarterly[q] = Line(SumOver(figures.projects, Span(q), Contract),
                                                             SumFunctionOnSet(Gp_, Span(q)),
                                                             SumFunctionOnSet(Oh_, Span(q)))
          BY StoredIs
        <4> QED BY <4>1, LineFields
      <3> QED BY <3>1, <3>2, <3>3, <3>4, <3>5
    <2>2. CASE mode # "raw"
      <3> DEFINE a == Aggregate(ps, mode, Oh_)
      <3>1. d = a
        BY <2>2 DEF Dashboard, Oh_
      <3>2. /\ \A m \in Month : a.monthly[m] = Line(0, SumFrom(ps, {m}, agg), Oh_[m])
            /\ \A q \in Quarter : a.quarterly[q] = Line(SumFrom(ps, Span(q), Saless(ps, mode)),
                                                        SumFrom(ps, Span(q), agg),
                                                        SumFunctionOnSet(Oh_, Span(q)))
            /\ a.totals = Total(a.quarterly)
        <4>1. ps \in Seq(Project) /\ \A m \in Month : Oh_[m] \in Int
          BY <1>1
        <4> HIDE DEF ps, d, gp, net, dg, dn, agg, a
        <4>2. PICK f \in [Month -> Lines], g \in [Quarter -> Lines] :
                /\ Aggregate(ps, mode, Oh_) = [monthly |-> f, quarterly |-> g, totals |-> Total(g)]
                /\ \A m \in Month : f[m] = Line(0, SumFrom(ps, {m}, Gps(ps, mode)), Oh_[m])
                /\ \A q \in Quarter : g[q] = Line(SumFrom(ps, Span(q), Saless(ps, mode)),
                                                  SumFrom(ps, Span(q), Gps(ps, mode)),
                                                  SumFunctionOnSet(Oh_, Span(q)))
          BY <4>1, AggregateIs
        <4> QED BY <4>2 DEF a, agg
      <3>3. \A m \in Month : gp[m] = SumFrom(ps, {m}, agg)
        BY <2>2
      <3> HIDE DEF a, d, gp, agg
      <3>4. ASSUME NEW q \in Quarter PROVE SumFrom(ps, Span(q), agg) = SumFunctionOnSet(gp, Span(q))
        <4>1. ps \in Seq(Project) /\ \A i \in DOMAIN ps : agg[i] \in Int
          BY <1>1, <1>2
        <4> HIDE DEF ps
        <4> QED BY <3>3, <4>1, QuarterFrom
      <3>5. \A q \in Quarter : a.quarterly[q] = Line(SumFrom(ps, Span(q), Saless(ps, mode)),
                                                     SumFunctionOnSet(gp, Span(q)),
                                                     SumFunctionOnSet(Oh_, Span(q)))
        BY <3>2, <3>4
      <3>6. \A q \in Quarter : /\ a.quarterly[q].gross_profit = SumFunctionOnSet(gp, Span(q))
                               /\ a.quarterly[q].overhead = SumFunctionOnSet(Oh_, Span(q))
        BY <3>5, LineFields
      <3>7. \A m \in Month : a.monthly[m] = Line(0, gp[m], Oh_[m])
        BY <3>2, <3>3
      <3> QED BY <3>1, <3>2, <3>6, <3>7
    <2> QED BY <2>1, <2>2
  <1>5. \A m \in Month : net[m] = gp[m] - Oh_[m]
    OBVIOUS
  <1> HIDE DEF d, gp, net, agg, ps
  <1>6. /\ d.totals.gross_profit = SumFunctionOnSet(gp, Month)
        /\ d.totals.overhead = SumFunctionOnSet(Oh_, Month)
        /\ d.totals.net_profit = SumFunctionOnSet(net, Month)
    <2>1. \A m \in Month : gp[m] \in Int /\ Oh_[m] \in Int /\ net[m] = gp[m] - Oh_[m]
      BY <1>1, <1>3, <1>5
    <2> DEFINE quarterly == d.quarterly
    <2>2. \A q \in Quarter : /\ quarterly[q].gross_profit = SumFunctionOnSet(gp, Span(q))
                             /\ quarterly[q].overhead = SumFunctionOnSet(Oh_, Span(q))
      BY <1>4
    <2>3. d.totals = Total(quarterly)
      BY <1>4
    <2> HIDE DEF quarterly
    <2> QED BY <2>1, <2>2, <2>3, TotalsAdd
  <1>7. \A m \in Month : /\ d.monthly[m].overhead = Oh_[m]
                         /\ dg[m] = gp[m] /\ dn[m] = net[m]
    BY <1>4, <1>5, LineFields
  <1>8. DOMAIN dg = Month /\ DOMAIN dn = Month
    OBVIOUS
  <1> HIDE DEF dg, dn
  <1>9. SumFunction(dg) = SumFunctionOnSet(gp, Month) /\ SumFunction(dn) = SumFunctionOnSet(net, Month)
    BY <1>7, <1>8, Quarters, SumRestrict
  <1> QED BY <1>6, <1>7, <1>9 DEF d, dg, dn

\* Whatever the register holds and whatever the blocks report, a page adds up:
\* in every mode its totals are the sum of its months, and the overhead is the
\* same in all modes.
THEOREM PagesAddUp == Spec => []ModesReconcile
  <1>1. ASSUME YearInv PROVE ModesReconcile
    <2>1. "raw" \in Modes
      BY DEF Modes
    <2>2. ASSUME Shown, NEW mode \in Modes
          PROVE  LET d == Dashboard(mode)
                 IN  /\ d.totals.gross_profit = SumFunction([m \in Month |-> d.monthly[m].gross_profit])
                     /\ d.totals.net_profit = SumFunction([m \in Month |-> d.monthly[m].net_profit])
                     /\ \A m \in Month : d.monthly[m].overhead = Dashboard("raw").monthly[m].overhead
                     /\ d.totals.overhead = Dashboard("raw").totals.overhead
      <3>1. figures # None
        BY <2>2 DEF Shown
      <3> QED BY <1>1, <2>1, <3>1, PageAdds
    <2> QED BY <2>2 DEF ModesReconcile
  <1> QED BY <1>1, YearCorrect, PTL

-----------------------------------------------------------------------------
(* A tidy year.                                                            *)

\* Where no job comes twice, nothing is dropped.
LEMMA NoJobTwice ==
  ASSUME NEW all \in Seq(Project), \A i, j \in DOMAIN all : all[i].job = all[j].job => i = j
  PROVE  DedupeProjects(all) = all
  <1> DEFINE n == Len(all)
             d == DedupeProjects(all)
  <1>1. n \in Nat /\ DOMAIN all = 1..n
    OBVIOUS
  <1>2. LastAt(all) = 1..n
    <2>1. ASSUME NEW i \in DOMAIN all, NEW j \in (i + 1)..n PROVE all[j].job # all[i].job
      <3>1. j \in DOMAIN all /\ i # j
        BY <1>1
      <3> QED BY <3>1
    <2> QED BY <1>1, <2>1 DEF LastAt
  <1>3. /\ d \in Seq(Project) /\ DOMAIN d = 1..Cardinality(LastAt(all))
        /\ \A k \in 1..Cardinality(LastAt(all)) : d[k] = all[Ascending(LastAt(all))[k]]
    BY LastRows
  <1> HIDE DEF d, n
  <1>4. Cardinality(1..n) = n /\ Ascending(1..n) = [k \in 1..n |-> k]
    BY <1>1, FS_Interval, AscendingAll
  <1>5. DOMAIN d = 1..n /\ \A k \in 1..n : d[k] = all[k]
    <2>1. \A k \in 1..n : Ascending(1..n)[k] = k
      BY <1>4
    <2> QED BY <1>2, <1>3, <1>4, <2>1
  <1>6. d = [k \in DOMAIN d |-> d[k]] /\ all = [k \in DOMAIN all |-> all[k]]
    BY <1>3
  <1>7. d = all
    BY <1>1, <1>5, <1>6
  <1> QED BY <1>7 DEF d

LEMMA SumOfZeros ==
  ASSUME NEW f, NEW S, IsFiniteSet(S), \A x \in S : f[x] = 0
  PROVE  SumFunctionOnSet(f, S) = 0
  <1>1. \A x \in S : f[x] \in Int /\ f[x] \in Int /\ f[x] = f[x] - f[x]
    OBVIOUS
  <1>2. SumFunctionOnSet(f, S) = SumFunctionOnSet(f, S) - SumFunctionOnSet(f, S)
    BY <1>1, SumMinus
  <1>3. SumFunctionOnSet(f, S) \in Int
    BY <1>1, SumType
  <1> QED BY <1>2, <1>3

\* A month that one workbook alone has projects of.
LEMMA OneWorkbook ==
  ASSUME YearInv, NEW m \in Month, NEW i \in DOMAIN books,
         \A j \in DOMAIN books \ {i} : \A p \in ToSet(Contents(books[j])) : p.last_month # m
  PROVE  SumOver(projects, {m}, Profit) = SumOver(Contents(books[i]), {m}, Profit)
  <1> DEFINE f == [j \in DOMAIN books |-> SumOver(Contents(books[j]), {m}, Profit)]
             S == DOMAIN books
  <1>1. SumOver(projects, {m}, Profit) = SumFunction(f)
    BY DEF YearInv, YearIs
  <1>2. books \in Seq(Book) /\ S = 1..Len(books) /\ IsFiniteSet(S) /\ IsFiniteSet(S \ {i})
    <2>1. books \in Seq(Book)
      BY Types DEF YearInv
    <2>2. S \in SUBSET DOMAIN books /\ S \ {i} \in SUBSET DOMAIN books
      OBVIOUS
    <2>3. IsFiniteSet(S) /\ IsFiniteSet(S \ {i})
      <3> HIDE DEF S
      <3> QED BY <2>1, <2>2, PickType
    <2> QED BY <2>1, <2>3
  <1>3. \A j \in S : Contents(books[j]) \in Seq(Project)
    <2>1. \A j \in S : books[j] \in Book
      BY <1>2
    <2> QED BY <2>1, ContentsType
  <1>4. \A j \in S : f[j] \in Int
    BY <1>3, SumOverIs
  <1>5. ASSUME NEW j \in S \ {i} PROVE f[j] = 0
    <2> DEFINE c == Contents(books[j])
    <2>1. c \in Seq(Project)
      BY <1>3
    <2>2. From(c, {m}) = {}
      BY DEF From, ToSet
    <2>3. SumOver(c, {m}, Profit) = 0
      <3> HIDE DEF c
      <3> QED BY <2>1, <2>2, SumOverIs, SumOfNone DEF SumFrom
    <2> QED BY <2>3
  <1>6. f[i] = SumOver(Contents(books[i]), {m}, Profit)
    OBVIOUS
  <1>7. SumFunction(f) = SumFunctionOnSet(f, S)
    BY DEF SumFunction
  <1>8. i \in S
    OBVIOUS
  <1> HIDE DEF f, S
  <1>9. SumFunctionOnSet(f, S) = f[i] + SumFunctionOnSet(f, S \ {i})
    BY <1>2, <1>4, <1>8, SumTake
  <1>10. SumFunctionOnSet(f, S \ {i}) = 0
    BY <1>2, <1>5, SumOfZeros
  <1>11. f[i] \in Int
    BY <1>4, <1>8
  <1> QED BY <1>1, <1>6, <1>7, <1>9, <1>10, <1>11

\* In mode raw a project counts in full.
LEMMA RawShares ==
  ASSUME NEW ps \in Seq(Project), NEW M
  PROVE  /\ SumFrom(ps, M, Gps(ps, "raw")) = SumOver(ps, M, Profit)
         /\ SumFrom(ps, M, Saless(ps, "raw")) = SumOver(ps, M, Contract)
  <1>1. \A a \in Int : (a * 100) \div 100 = a
    OBVIOUS
  <1>2. ASSUME NEW i \in DOMAIN ps
        PROVE  Gps(ps, "raw")[i] = Profit(ps[i]) /\ Saless(ps, "raw")[i] = Contract(ps[i])
    <2>1. Factor(ps[i], "raw") = 100
      BY DEF Factor
    <2>2. OrZero(ps[i].profit) \in Int /\ OrZero(ps[i].contract) \in Int
      BY Amounts DEF Profit, Contract
    <2> QED BY <1>1, <2>1, <2>2 DEF Gps, Saless, Share, Profit, Contract
  <1> DEFINE pr == [i \in DOMAIN ps |-> Profit(ps[i])]
             co == [i \in DOMAIN ps |-> Contract(ps[i])]
  <1>3. From(ps, M) \in SUBSET DOMAIN ps /\ IsFiniteSet(From(ps, M))
    BY FromFinite
  <1>4. \A i \in From(ps, M) : Gps(ps, "raw")[i] = pr[i] /\ Saless(ps, "raw")[i] = co[i]
    BY <1>2, <1>3
  <1>5. SumOver(ps, M, Profit) = SumFrom(ps, M, pr) /\ SumOver(ps, M, Contract) = SumFrom(ps, M, co)
    BY SumOverIs
  <1> HIDE DEF pr, co
  <1>6. SumFunctionOnSet(Gps(ps, "raw"), From(ps, M)) = SumFunctionOnSet(pr, From(ps, M))
    BY <1>3, <1>4, SumEqual
  <1>7. SumFunctionOnSet(Saless(ps, "raw"), From(ps, M)) = SumFunctionOnSet(co, From(ps, M))
    BY <1>3, <1>4, SumEqual
  <1> QED BY <1>5, <1>6, <1>7 DEF SumFrom

\* With each month the sum of its projects, raw is an accounting mode like the others.
LEMMA RawIsAggregate ==
  ASSUME YearInv, figures # None, \A m \in Month : Gp_[m] = SumOver(figures.projects, {m}, Profit)
  PROVE  Dashboard("raw") = Aggregate(figures.projects, "raw", Oh_)
  <1> DEFINE ps == figures.projects
             agg == Gps(ps, "raw")
  <1>1. /\ ps \in Seq(Project) /\ "raw" \in Modes
        /\ \A m \in Month : Gp_[m] \in Int /\ Oh_[m] \in Int
    BY StoredIs DEF Modes
  <1>2. \A i \in DOMAIN ps : agg[i] \in Int
    <2>1. \A i \in DOMAIN ps : ps[i] \in Project
      BY <1>1
    <2> QED BY <1>1, <2>1, ShareType DEF Gps
  <1>3. \A m \in Month : Gp_[m] = SumFrom(ps, {m}, agg)
    BY <1>1, RawShares
  <1>4. figures.monthly = [m \in Month |-> Line(0, Gp_[m], Oh_[m])]
        /\ figures.quarterly = [q \in Quarter |-> Line(SumOver(ps, Span(q), Contract),
                                                       SumFunctionOnSet(Gp_, Span(q)),
                                                       SumFunctionOnSet(Oh_, Span(q)))]
    BY StoredIs
  <1>5. Dashboard("raw") = [monthly |-> figures.monthly, quarterly |-> figures.quarterly,
                            totals |-> Total(figures.quarterly)]
    BY DEF Dashboard
  <1> HIDE DEF ps
  <1>8. ASSUME NEW q \in Quarter
        PROVE  /\ SumFunctionOnSet(Gp_, Span(q)) = SumFrom(ps, Span(q), agg)
               /\ SumOver(ps, Span(q), Contract) = SumFrom(ps, Span(q), Saless(ps, "raw"))
    <2>3. ps \in Seq(Project) /\ \A i \in DOMAIN ps : agg[i] \in Int
      BY <1>1, <1>2
    <2> HIDE DEF agg
    <2>2. SumFrom(ps, Span(q), agg) = SumFunctionOnSet(Gp_, Span(q))
      BY <1>3, <2>3, QuarterFrom
    <2> QED BY <1>1, <2>2, RawShares
  <1>6. PICK f \in [Month -> Lines], g \in [Quarter -> Lines] :
          /\ Aggregate(ps, "raw", Oh_) = [monthly |-> f, quarterly |-> g, totals |-> Total(g)]
          /\ \A m \in Month : f[m] = Line(0, SumFrom(ps, {m}, Gps(ps, "raw")), Oh_[m])
          /\ \A q \in Quarter : g[q] = Line(SumFrom(ps, Span(q), Saless(ps, "raw")),
                                            SumFrom(ps, Span(q), Gps(ps, "raw")),
                                            SumFunctionOnSet(Oh_, Span(q)))
    BY <1>1, AggregateIs
  <1>7. figures.monthly = f
    <2>1. \A m \in Month : f[m] = Line(0, Gp_[m], Oh_[m])
      BY <1>3, <1>6
    <2>2. f = [m \in Month |-> f[m]]
      BY <1>6
    <2> QED BY <1>4, <2>1, <2>2
  <1>9. figures.quarterly = g
    BY <1>4, <1>6, <1>8
  <1> QED BY <1>5, <1>6, <1>7, <1>9 DEF ps

\* Where every project is done, the modes weigh alike.
LEMMA DoneWeighsAll ==
  ASSUME NEW ps \in Seq(Project), \A i \in DOMAIN ps : ps[i].pct = 100,
         NEW mode \in Modes, NEW oh, \A m \in Month : oh[m] \in Int
  PROVE  Aggregate(ps, mode, oh) = Aggregate(ps, "raw", oh)
  <1>1. \A i \in DOMAIN ps : Factor(ps[i], mode) = Factor(ps[i], "raw")
    <2>1. 100 # None
      BY Data
    <2> QED BY <2>1 DEF Factor, Modes, OrZero
  <1>2. Gps(ps, mode) = Gps(ps, "raw") /\ Saless(ps, mode) = Saless(ps, "raw")
    BY <1>1 DEF Gps, Saless, Share
  <1>3. "raw" \in Modes
    BY DEF Modes
  <1>4. PICK f \in [Month -> Lines], g \in [Quarter -> Lines] :
          /\ Aggregate(ps, mode, oh) = [monthly |-> f, quarterly |-> g, totals |-> Total(g)]
          /\ \A m \in Month : f[m] = Line(0, SumFrom(ps, {m}, Gps(ps, mode)), oh[m])
          /\ \A q \in Quarter : g[q] = Line(SumFrom(ps, Span(q), Saless(ps, mode)),
                                            SumFrom(ps, Span(q), Gps(ps, mode)),
                                            SumFunctionOnSet(oh, Span(q)))
    BY AggregateIs
  <1>5. PICK f0 \in [Month -> Lines], g0 \in [Quarter -> Lines] :
          /\ Aggregate(ps, "raw", oh) = [monthly |-> f0, quarterly |-> g0, totals |-> Total(g0)]
          /\ \A m \in Month : f0[m] = Line(0, SumFrom(ps, {m}, Gps(ps, "raw")), oh[m])
          /\ \A q \in Quarter : g0[q] = Line(SumFrom(ps, Span(q), Saless(ps, "raw")),
                                             SumFrom(ps, Span(q), Gps(ps, "raw")),
                                             SumFunctionOnSet(oh, Span(q)))
    BY <1>3, AggregateIs
  <1>6. f = f0
    <2>1. \A m \in Month : f[m] = f0[m]
      <3> SUFFICES ASSUME NEW m \in Month PROVE f[m] = f0[m]
        OBVIOUS
      <3>1. f[m] = Line(0, SumFrom(ps, {m}, Gps(ps, mode)), oh[m])
        BY <1>4
      <3>2. f0[m] = Line(0, SumFrom(ps, {m}, Gps(ps, "raw")), oh[m])
        BY <1>5
      <3> QED BY <1>2, <3>1, <3>2
    <2>2. f = [m \in Month |-> f[m]] /\ f0 = [m \in Month |-> f0[m]]
      OBVIOUS
    <2> QED BY <2>1, <2>2
  <1>7. g = g0
    <2>1. \A q \in Quarter : g[q] = g0[q]
      <3> SUFFICES ASSUME NEW q \in Quarter PROVE g[q] = g0[q]
        OBVIOUS
      <3>1. g[q] = Line(SumFrom(ps, Span(q), Saless(ps, mode)), SumFrom(ps, Span(q), Gps(ps, mode)),
                        SumFunctionOnSet(oh, Span(q)))
        BY <1>4
      <3>2. g0[q] = Line(SumFrom(ps, Span(q), Saless(ps, "raw")), SumFrom(ps, Span(q), Gps(ps, "raw")),
                         SumFunctionOnSet(oh, Span(q)))
        BY <1>5
      <3> QED BY <1>2, <3>1, <3>2
    <2>2. g = [q \in Quarter |-> g[q]] /\ g0 = [q \in Quarter |-> g0[q]]
      OBVIOUS
    <2> QED BY <2>1, <2>2
  <1> QED BY <1>4, <1>5, <1>6, <1>7

\* The hypothesis of TidyYearAgrees: workbooks as the tests write them.
TidyYear ==
  /\ \A i, j \in DOMAIN AllRows : AllRows[i].job = AllRows[j].job => i = j
  /\ \A i \in DOMAIN books : \A m \in DOMAIN Reported(books[i].rows) :
       /\ Reported(books[i].rows)[m] \in {None, SumOver(Contents(books[i]), {m}, Profit)}
       /\ \A j \in DOMAIN books \ {i} : \A p \in ToSet(Contents(books[j])) : p.last_month # m

\* In such a year each month is the sum of its projects, whatever reported it.
LEMMA TidyMonths ==
  ASSUME YearInv, figures # None, TidyYear
  PROVE  /\ figures.projects = AllRows
         /\ \A m \in Month : Gp_[m] = SumOver(figures.projects, {m}, Profit)
  <1>1. figures.projects = AllRows
    <2> DEFINE all == AllRows
    <2>1. all \in Seq(Project) /\ figures.projects = DedupeProjects(all)
      BY StoredIs
    <2>2. \A i, j \in DOMAIN all : all[i].job = all[j].job => i = j
      BY DEF TidyYear
    <2> HIDE DEF all
    <2>3. DedupeProjects(all) = all
      BY <2>1, <2>2, NoJobTwice
    <2> QED BY <2>1, <2>3 DEF all
  <1>2. projects = AllRows
    BY DEF YearInv, YearIs
  <1>3. ASSUME NEW m \in Month, m \in DOMAIN block_monthly, block_monthly[m] # None
        PROVE  block_monthly[m] = SumOver(figures.projects, {m}, Profit)
    <2>1. PICK i \in DOMAIN books :
            m \in DOMAIN Reported(books[i].rows) /\ block_monthly[m] = Reported(books[i].rows)[m]
      BY <1>3 DEF YearInv, YearIs
    <2>2. block_monthly[m] = SumOver(Contents(books[i]), {m}, Profit)
      BY <1>3, <2>1 DEF TidyYear
    <2>3. \A j \in DOMAIN books \ {i} : \A p \in ToSet(Contents(books[j])) : p.last_month # m
      BY <2>1 DEF TidyYear
    <2>4. SumOver(projects, {m}, Profit) = SumOver(Contents(books[i]), {m}, Profit)
      BY <2>3, OneWorkbook
    <2> QED BY <1>1, <1>2, <2>2, <2>4
  <1>4. \A m \in Month : Gp_[m] = GrossProfit(figures.projects, m, block_monthly)
    BY StoredIs
  <1>5. \A m \in Month : Gp_[m] = SumOver(figures.projects, {m}, Profit)
    BY <1>3, <1>4 DEF GrossProfit
  <1> QED BY <1>1, <1>5

\* In a year of workbooks as the tests write them raw is the sum over the
\* projects, and when all of them are complete every mode shows the same page.
THEOREM TidyYearsAgree == Spec => []TidyYearAgrees
  <1>1. ASSUME YearInv PROVE TidyYearAgrees
    <2> SUFFICES ASSUME Shown, TidyYear
                 PROVE  /\ Dashboard("raw") = Aggregate(figures.projects, "raw", Oh_)
                        /\ (\A p \in ToSet(AllRows) : p.pct = 100) =>
                             \A mode \in Modes : Dashboard(mode) = Dashboard("raw")
      BY DEF TidyYearAgrees, TidyYear, Oh_
    <2> DEFINE ps == figures.projects
    <2>1. figures # None
      BY DEF Shown
    <2>2. /\ ps = AllRows /\ ps \in Seq(Project)
          /\ \A m \in Month : Gp_[m] = SumOver(ps, {m}, Profit)
          /\ \A m \in Month : Oh_[m] \in Int
      BY <1>1, <2>1, TidyMonths, StoredIs
    <2>3. Dashboard("raw") = Aggregate(ps, "raw", Oh_)
      BY <1>1, <2>1, <2>2, RawIsAggregate
    <2>4. ASSUME \A p \in ToSet(AllRows) : p.pct = 100, NEW mode \in Modes
          PROVE  Dashboard(mode) = Dashboard("raw")
      <3>1. \A i \in DOMAIN ps : ps[i].pct = 100
        <4>1. \A i \in DOMAIN AllRows : AllRows[i].pct = 100
          BY <2>4 DEF ToSet
        <4> QED BY <2>2, <4>1
      <3>2. CASE mode # "raw"
        <4>1. Dashboard(mode) = Aggregate(ps, mode, Oh_)
          BY <3>2 DEF Dashboard, Oh_
        <4> HIDE DEF ps
        <4>2. Aggregate(ps, mode, Oh_) = Aggregate(ps, "raw", Oh_)
          BY <2>2, <3>1, DoneWeighsAll
        <4> QED BY <2>3, <4>1, <4>2
      <3> QED BY <3>2
    <2> QED BY <2>3, <2>4
  <1> QED BY <1>1, YearCorrect, PTL
=============================================================================
