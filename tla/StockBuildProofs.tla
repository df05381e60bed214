-------------------------- MODULE StockBuildProofs --------------------------
(***************************************************************************)
(* The tables of the inventory and of the Builds, for any number of        *)
(* Builds, rows, records, parts, makers and pieces: no requirement is      *)
(* exceeded, the provenance accounts for every pulled piece, no piece is   *)
(* reserved twice, the piece ledger is implemented, and a Complete Build   *)
(* keeps its pieces.                                                       *)
(*                                                                         *)
(* The totals are sums over finite sets.  What the recursion under a sum   *)
(* computes is proved by induction over the subsets of a finite set, which *)
(* needs no operator parameter: a set of counterexamples has a smallest    *)
(* one (WFMin).                                                            *)
(***************************************************************************)
EXTENDS StockBuild, FiniteSetTheorems, TLAPS

-----------------------------------------------------------------------------
(* Sums and folds over finite sets                                         *)

(* What holds of a subset of a finite set whenever it holds of the smaller *)
(* ones holds of every subset.                                             *)
LEMMA SubsetInduction ==
  ASSUME NEW S, IsFiniteSet(S), NEW G,
         \A T \in SUBSET S : (\A U \in SUBSET T : U # T => U \in G) => T \in G
  PROVE  SUBSET S \subseteq G
<1> SUFFICES ASSUME NEW T0 \in SUBSET S, T0 \notin G PROVE FALSE
  OBVIOUS
<1> DEFINE B == {T \in FiniteSubsetsOf(S) : T \notin G}
           R == StrictSubsetOrdering(S)
           F == FiniteSubsetsOf(S)
<1>1. F = SUBSET S
  BY FS_FiniteSubsetsOfFinite
<1>2. IsWellFoundedOn(R, F)
  BY FS_StrictSubsetOrderingWellFounded
<1>3. B \subseteq F /\ B # {}
  BY <1>1
<1>4. \E T \in B : \A y \in B : ~(<<y, T>> \in R)
  <2> HIDE DEF B, R, F
  <2> QED BY <1>2, <1>3, WFMin
<1>5. PICK T \in B : \A y \in B : ~(<<y, T>> \in R)
  BY <1>4
<1>6. \A U \in SUBSET T : U # T => U \in G
  <2> SUFFICES ASSUME NEW U \in SUBSET T, U # T, U \notin G PROVE FALSE
    OBVIOUS
  <2>1. U \in B /\ T \in SUBSET S
    BY <1>1
  <2>2. <<U, T>> \in R
    BY <1>1, <2>1 DEF StrictSubsetOrdering
  <2> QED BY <1>5, <2>1, <2>2
<1> QED BY <1>1, <1>5, <1>6

Folds(h, T, base, step, pick) ==
  \A s \in SUBSET T : h[s] = IF s = {} THEN base
                             ELSE step[<<pick[s], h[s \ {pick[s]}]>>]

(* Two functions that follow the same recursion over the subsets of a      *)
(* finite set agree.                                                       *)
LEMMA FoldUnique ==
  ASSUME NEW S, IsFiniteSet(S), NEW base, NEW step, NEW pick, NEW h1, NEW h2,
         \A s \in SUBSET S : s # {} => pick[s] \in s,
         Folds(h1, S, base, step, pick), Folds(h2, S, base, step, pick)
  PROVE  \A s \in SUBSET S : h1[s] = h2[s]
<1> DEFINE G == {s \in SUBSET S : h1[s] = h2[s]}
<1>1. ASSUME NEW T \in SUBSET S, \A U \in SUBSET T : U # T => U \in G
      PROVE  T \in G
  <2>1. CASE T = {}
    BY <2>1 DEF Folds
  <2>2. CASE T # {}
    <3>1. T \ {pick[T]} \in G
      BY <1>1, <2>2
    <3> QED BY <2>2, <3>1 DEF Folds
  <2> QED BY <2>1, <2>2
<1>2. SUBSET S \subseteq G
  <2> HIDE DEF G
  <2> QED BY <1>1, SubsetInduction
<1> QED BY <1>2

(* The recursion MapThenFoldSet is defined by has a solution: its CHOOSE   *)
(* picks one.                                                              *)
LEMMA FoldExists ==
  ASSUME NEW S, IsFiniteSet(S), NEW V, NEW base \in V, NEW step \in [S \X V -> V], NEW pick,
         \A s \in SUBSET S : s # {} => pick[s] \in s
  PROVE  \E h \in [SUBSET S -> V] : Folds(h, S, base, step, pick)
<1> DEFINE Sol(h, T) == h \in [SUBSET T -> V] /\ Folds(h, T, base, step, pick)
           G == {T \in SUBSET S : \E h : Sol(h, T)}
<1>1. ASSUME NEW T \in SUBSET S, \A U \in SUBSET T : U # T => U \in G
      PROVE  T \in G
  <2> DEFINE H(U) == CHOOSE h : Sol(h, U)
             c == pick[T]
             h == [s \in SUBSET T |-> IF s = {} THEN base
                                      ELSE step[<<pick[s], H(s \ {pick[s]})[s \ {pick[s]}]>>]]
  <2>1. ASSUME NEW U \in SUBSET T, U # T PROVE Sol(H(U), U)
    BY <1>1, <2>1
  <2>2. ASSUME NEW s \in SUBSET T, s # {}
        PROVE  /\ pick[s] \in s /\ s \ {pick[s]} \in SUBSET T /\ s \ {pick[s]} # T
               /\ H(s \ {pick[s]})[s \ {pick[s]}] \in V
    <3> DEFINE u == s \ {pick[s]}
    <3>1. pick[s] \in s /\ u \in SUBSET T /\ u # T
      BY <2>2
    <3>2. Sol(H(u), u)
      BY <2>1, <3>1
    <3>3. H(u) \in [SUBSET u -> V] /\ u \in SUBSET u
      BY <3>2
    <3> HIDE DEF H
    <3> QED BY <3>1, <3>3
  <2>3. h \in [SUBSET T -> V]
    <3> SUFFICES ASSUME NEW s \in SUBSET T, s # {}
                 PROVE  step[<<pick[s], H(s \ {pick[s]})[s \ {pick[s]}]>>] \in V
      OBVIOUS
    <3> HIDE DEF H
    <3>1. pick[s] \in S
      BY <2>2
    <3> QED BY <2>2, <3>1
  <2>4. ASSUME NEW u \in SUBSET T, u # T
        PROVE  h[u] = H(u)[u]
    <3>1. Sol(H(u), u)
      BY <2>1, <2>4
    <3>2. CASE u = {}
      BY <3>1, <3>2 DEF Folds
    <3>3. CASE u # {}
      <4> DEFINE v == u \ {pick[u]}
      <4>1. v \in SUBSET u /\ v # T /\ v \in SUBSET S /\ u \in SUBSET u
        BY <2>4, <3>3
      <4>2. H(u)[u] = step[<<pick[u], H(u)[v]>>]
        BY <3>1, <3>3, <4>1 DEF Folds
      <4>3. Folds(H(u), v, base, step, pick)
        BY <3>1, <4>1 DEF Folds
      <4>4. Folds(H(v), v, base, step, pick)
        BY <2>1, <4>1
      <4>5. IsFiniteSet(v) /\ \A s \in SUBSET v : s # {} => pick[s] \in s
        BY <4>1, FS_Subset
      <4>6. H(u)[v] = H(v)[v]
        <5> HIDE DEF H, v
        <5> QED BY <4>3, <4>4, <4>5, FoldUnique
      <4> QED BY <3>3, <4>2, <4>6
    <3> QED BY <3>2, <3>3
  <2>5. Folds(h, T, base, step, pick)
    <3>0. h[{}] = base
      BY Zenon
    <3>1. ASSUME NEW s \in SUBSET T, s # {}
          PROVE  h[s] = step[<<pick[s], h[s \ {pick[s]}]>>]
      <4> DEFINE u == s \ {pick[s]}
      <4>1. u \in SUBSET T /\ u # T
        BY <2>2, <3>1
      <4>2. h[u] = H(u)[u]
        <5> HIDE DEF h, u
        <5> QED BY <2>4, <4>1
      <4>3. h[s] = step[<<pick[s], H(u)[u]>>]
        <5> HIDE DEF H
        <5> QED BY <3>1
      <4> HIDE DEF h
      <4> QED BY <4>2, <4>3
    <3> HIDE DEF h
    <3> QED BY <3>0, <3>1 DEF Folds
  <2> QED BY <2>3, <2>5
<1>2. SUBSET S \subseteq G
  <2> HIDE DEF G
  <2> QED BY <1>1, SubsetInduction
<1> QED BY <1>2


SumsAll(h, pick, f, S) ==
  /\ h \in [SUBSET S -> Int] /\ h[{}] = 0
  /\ \A s \in SUBSET S : s # {} => pick[s] \in s /\ h[s] = f[pick[s]] + h[s \ {pick[s]}]
  /\ \A T \in SUBSET S : SumOf(f, T) = h[T]

(* The sum over a finite set is the value of one function on all subsets.  *)
LEMMA SumFolds ==
  ASSUME NEW S, IsFiniteSet(S), NEW f, \A x \in S : f[x] \in Int
  PROVE  \E h, pick : SumsAll(h, pick, f, S)
<1> DEFINE pick == [s \in SUBSET S |-> CHOOSE x \in s : TRUE]
           step == [xv \in S \X Int |-> f[xv[1]] + xv[2]]
<1>1. \A s \in SUBSET S : s # {} => pick[s] \in s
  OBVIOUS
<1>2. step \in [S \X Int -> Int] /\ 0 \in Int
  OBVIOUS
<1>3. PICK h \in [SUBSET S -> Int] : Folds(h, S, 0, step, pick)
  <2> HIDE DEF step, pick
  <2> QED BY <1>1, <1>2, FoldExists
<1>4. ASSUME NEW s \in SUBSET S, s # {}
      PROVE  h[s] = f[pick[s]] + h[s \ {pick[s]}]
  <2> DEFINE x == pick[s]
             v == h[s \ {pick[s]}]
  <2>1. h[s] = step[<<x, v>>]
    BY <1>3, <1>4 DEF Folds
  <2>2. v \in Int /\ x \in S
    BY <1>1, <1>3, <1>4
  <2> HIDE DEF x, v
  <2>3. step[<<x, v>>] = f[x] + v
    BY <2>2
  <2> QED BY <2>1, <2>3 DEF x, v
<1>5. h[{}] = 0
  BY <1>3 DEF Folds
<1>6. ASSUME NEW T \in SUBSET S
      PROVE  SumOf(f, T) = h[T]
  <2> DEFINE Iter(i) == i = [s \in SUBSET T |-> IF s = {} THEN 0
                      ELSE f[CHOOSE x \in s : TRUE] + i[s \ {CHOOSE x \in s : TRUE}]]
             it == CHOOSE i : Iter(i)
             hT == [s \in SUBSET T |-> h[s]]
             G == {s \in SUBSET T : it[s] = h[s]}
  <2>1. SumOf(f, T) = it[T]
    BY DEF SumOf, MapThenSumSet, MapThenFoldSet
  <2>2. Iter(hT)
    <3> SUFFICES ASSUME NEW s \in SUBSET T
                 PROVE  hT[s] = IF s = {} THEN 0
                      ELSE f[CHOOSE x \in s : TRUE] + hT[s \ {CHOOSE x \in s : TRUE}]
      OBVIOUS
    <3> QED BY <1>1, <1>4, <1>5
  <2>3. Iter(it)
    BY <2>2
  <2>4. ASSUME NEW s \in SUBSET T
        PROVE  it[s] = IF s = {} THEN 0 ELSE f[pick[s]] + it[s \ {pick[s]}]
    <3> HIDE DEF it
    <3> QED BY <2>3
  <2>5. ASSUME NEW s \in SUBSET T, \A u \in SUBSET s : u # s => u \in G
        PROVE  s \in G
    <3> HIDE DEF it
    <3>1. CASE s = {}
      BY <1>5, <2>4, <3>1
    <3>2. CASE s # {}
      <4>1. s \ {pick[s]} \in G
        BY <1>1, <2>5, <3>2
      <4> HIDE DEF pick
      <4> QED BY <1>4, <2>4, <3>2, <4>1
    <3> QED BY <3>1, <3>2
  <2>6. IsFiniteSet(T)
    BY FS_Subset
  <2>7. SUBSET T \subseteq G
    <3> HIDE DEF G
    <3> QED BY <2>5, <2>6, SubsetInduction
  <2> HIDE DEF it
  <2> QED BY <2>1, <2>7
<1> HIDE DEF pick
<1> QED BY <1>1, <1>3, <1>4, <1>5, <1>6 DEF SumsAll

(* What a sum is: zero over no elements, and one element more or less.     *)
LEMMA SumEmpty == ASSUME NEW f PROVE SumOf(f, {}) = 0
<1> DEFINE S == {}
<1>1. IsFiniteSet(S)
  BY FS_EmptySet
<1>2. \A x \in S : f[x] \in Int
  OBVIOUS
<1>3. PICK h, pick : SumsAll(h, pick, f, S)
  <2> HIDE DEF S
  <2> QED BY <1>1, <1>2, SumFolds
<1> QED BY <1>3 DEF SumsAll

(* A sum of integers is an integer.                                        *)
LEMMA SumInt ==
  ASSUME NEW S, IsFiniteSet(S), NEW f, \A x \in S : f[x] \in Int
  PROVE  SumOf(f, S) \in Int
<1>1. PICK h, pick : SumsAll(h, pick, f, S)
  BY SumFolds
<1> QED BY <1>1 DEF SumsAll

(* Any element may be taken out of a sum first.                            *)
LEMMA SumWithout ==
  ASSUME NEW S, IsFiniteSet(S), NEW f, \A x \in S : f[x] \in Int, NEW x \in S
  PROVE  SumOf(f, S) = f[x] + SumOf(f, S \ {x})
<1>1. PICK h, pick : SumsAll(h, pick, f, S)
  BY SumFolds
<1> USE DEF SumsAll
<1> DEFINE G == {T \in SUBSET S : \A y \in T : h[T] = f[y] + h[T \ {y}]}
<1>2. ASSUME NEW T \in SUBSET S, \A U \in SUBSET T : U # T => U \in G
      PROVE  T \in G
  <2> SUFFICES ASSUME NEW y \in T PROVE h[T] = f[y] + h[T \ {y}]
    OBVIOUS
  <2> DEFINE c == pick[T]
             U == T \ {c}
             W == T \ {y}
  <2>0. T # {} /\ T \in SUBSET S
    OBVIOUS
  <2>1. c \in T /\ h[T] = f[c] + h[U]
    <3> HIDE DEF G
    <3> QED BY <1>1, <2>0
  <2>2. CASE c = y
    <3> HIDE DEF G, c, SumsAll
    <3> QED BY <2>1, <2>2
  <2>3. CASE c # y
    <3>1. y \in U /\ c \in W /\ U \in G /\ W \in G
      BY <1>2, <2>1, <2>3
    <3>2. U \ {y} = W \ {c} /\ U \ {y} \in SUBSET S
      OBVIOUS
    <3>3. h[U] = f[y] + h[U \ {y}] /\ h[W] = f[c] + h[U \ {y}]
      BY <3>1, <3>2
    <3>4. f[y] \in Int /\ f[c] \in Int /\ h[U \ {y}] \in Int
      <4> HIDE DEF c, U
      <4> QED BY <1>1, <2>1, <3>2
    <3> HIDE DEF c, U, W
    <3> QED BY <2>1, <3>3, <3>4 DEF W
  <2> QED BY <2>2, <2>3
<1>3. SUBSET S \subseteq G
  <2> HIDE DEF G
  <2> QED BY <1>2, SubsetInduction
<1> QED BY <1>1, <1>3

(* Functions that agree on a set have the same sum over it.                *)
LEMMA SumSame ==
  ASSUME NEW S, IsFiniteSet(S), NEW f, NEW g, \A x \in S : f[x] \in Int /\ g[x] = f[x]
  PROVE  SumOf(g, S) = SumOf(f, S)
<1> DEFINE G == {T \in SUBSET S : SumOf(g, T) = SumOf(f, T)}
<1>1. ASSUME NEW T \in SUBSET S, \A U \in SUBSET T : U # T => U \in G
      PROVE  T \in G
  <2>1. CASE T = {}
    BY <2>1, SumEmpty
  <2>2. ASSUME NEW x \in T PROVE T \in G
    <3>1. T \ {x} \in G
      BY <1>1
    <3>2. IsFiniteSet(T)
      BY FS_Subset
    <3> QED BY <3>1, <3>2, SumWithout
  <2> QED BY <2>1, <2>2
<1>2. SUBSET S \subseteq G
  <2> HIDE DEF G
  <2> QED BY <1>1, SubsetInduction
<1> QED BY <1>2

(* One value changed changes the sum by as much.                           *)
LEMMA SumChanged ==
  ASSUME NEW S, IsFiniteSet(S), NEW f, NEW g, NEW x \in S,
         \A y \in S : f[y] \in Int /\ g[y] \in Int /\ (y # x => g[y] = f[y])
  PROVE  SumOf(g, S) = SumOf(f, S) - f[x] + g[x]
<1>1. IsFiniteSet(S \ {x})
  BY FS_Subset
<1>2. SumOf(g, S \ {x}) = SumOf(f, S \ {x}) /\ SumOf(f, S \ {x}) \in Int
  BY <1>1, SumSame, SumInt
<1>3. SumOf(f, S) = f[x] + SumOf(f, S \ {x})
  BY SumWithout
<1>4. SumOf(g, S) = g[x] + SumOf(g, S \ {x})
  BY SumWithout
<1> QED BY <1>2, <1>3, <1>4

(* A sum is monotonic in its values.                                       *)
LEMMA SumAtMost ==
  ASSUME NEW S, IsFiniteSet(S), NEW f, NEW g,
         \A x \in S : f[x] \in Int /\ g[x] \in Int /\ f[x] <= g[x]
  PROVE  SumOf(f, S) <= SumOf(g, S)
<1> DEFINE G == {T \in SUBSET S : SumOf(f, T) <= SumOf(g, T)}
<1>1. ASSUME NEW T \in SUBSET S, \A U \in SUBSET T : U # T => U \in G
      PROVE  T \in G
  <2>1. CASE T = {}
    BY <2>1, SumEmpty
  <2>2. ASSUME NEW x \in T PROVE T \in G
    <3>1. T \ {x} \in G
      BY <1>1
    <3>2. IsFiniteSet(T) /\ IsFiniteSet(T \ {x})
      BY FS_Subset
    <3>3. SumOf(f, T \ {x}) \in Int /\ SumOf(g, T \ {x}) \in Int
      BY <3>2, SumInt
    <3>4. SumOf(f, T) = f[x] + SumOf(f, T \ {x})
      BY <3>2, SumWithout
    <3>5. SumOf(g, T) = g[x] + SumOf(g, T \ {x})
      BY <3>2, SumWithout
    <3> QED BY <3>1, <3>3, <3>4, <3>5
  <2> QED BY <2>1, <2>2
<1>2. SUBSET S \subseteq G
  <2> HIDE DEF G
  <2> QED BY <1>1, SubsetInduction
<1> QED BY <1>2

(* A sum of zeros is zero.                                                 *)
LEMMA SumZero ==
  ASSUME NEW S, IsFiniteSet(S), NEW f, \A x \in S : f[x] = 0
  PROVE  SumOf(f, S) = 0
<1> DEFINE G == {T \in SUBSET S : SumOf(f, T) = 0}
<1>1. ASSUME NEW T \in SUBSET S, \A U \in SUBSET T : U # T => U \in G
      PROVE  T \in G
  <2>1. CASE T = {}
    BY <2>1, SumEmpty
  <2>2. ASSUME NEW x \in T PROVE T \in G
    <3>1. T \ {x} \in G
      BY <1>1
    <3>2. IsFiniteSet(T)
      BY FS_Subset
    <3>3. SumOf(f, T) = f[x] + SumOf(f, T \ {x})
      BY <3>2, SumWithout
    <3> QED BY <3>1, <3>3
  <2> QED BY <2>1, <2>2
<1>2. SUBSET S \subseteq G
  <2> HIDE DEF G
  <2> QED BY <1>1, SubsetInduction
<1> QED BY <1>2

(* A sum of natural numbers is one, and no less than any of them.          *)
LEMMA SumNat ==
  ASSUME NEW S, IsFiniteSet(S), NEW f, \A x \in S : f[x] \in Nat
  PROVE  SumOf(f, S) \in Nat /\ \A x \in S : f[x] <= SumOf(f, S)
<1>1. ASSUME NEW T \in SUBSET S PROVE SumOf(f, T) \in Nat
  <2> DEFINE zero == [x \in T |-> 0]
  <2>1. IsFiniteSet(T)
    BY FS_Subset
  <2>2. SumOf(zero, T) = 0
    <3>1. \A x \in T : zero[x] = 0
      OBVIOUS
    <3> HIDE DEF zero
    <3> QED BY <2>1, <3>1, SumZero
  <2>3. SumOf(zero, T) <= SumOf(f, T)
    <3>1. \A x \in T : zero[x] \in Int /\ f[x] \in Int /\ zero[x] <= f[x]
      OBVIOUS
    <3> HIDE DEF zero
    <3> QED BY <2>1, <3>1, SumAtMost
  <2>4. SumOf(f, T) \in Int
    BY <2>1, SumInt
  <2> HIDE DEF zero
  <2> QED BY <2>2, <2>3, <2>4
<1>2. ASSUME NEW x \in S PROVE f[x] <= SumOf(f, S)
  <2>1. SumOf(f, S) = f[x] + SumOf(f, S \ {x})
    BY SumWithout
  <2>2. SumOf(f, S \ {x}) \in Nat
    BY <1>1
  <2> QED BY <2>1, <2>2
<1> QED BY <1>1, <1>2

(* A sum of natural numbers over a subset is no more than over the set.    *)
LEMMA SumSubset ==
  ASSUME NEW S, IsFiniteSet(S), NEW R \in SUBSET S, NEW f, NEW g,
         \A x \in S : g[x] \in Nat, \A x \in R : f[x] = g[x]
  PROVE  SumOf(f, R) <= SumOf(g, S)
<1> DEFINE G == {T \in SUBSET S : SumOf(g, R \cap T) <= SumOf(g, T)}
<1>1. ASSUME NEW T \in SUBSET S, \A U \in SUBSET T : U # T => U \in G
      PROVE  T \in G
  <2>1. CASE T = {}
    <3>1. R \cap T = {}
      BY <2>1
    <3> QED BY <2>1, <3>1, SumEmpty
  <2>2. ASSUME NEW x \in T PROVE T \in G
    <3> DEFINE U == T \ {x}
               A == R \cap T
               B == R \cap U
    <3>1. U \in SUBSET S /\ SumOf(g, B) <= SumOf(g, U)
      BY <1>1
    <3>2. IsFiniteSet(T) /\ IsFiniteSet(U) /\ IsFiniteSet(A) /\ IsFiniteSet(B)
      BY FS_Subset
    <3>3. SumOf(g, T) = g[x] + SumOf(g, U)
      BY <3>2, SumWithout
    <3>4. SumOf(g, U) \in Int /\ SumOf(g, B) \in Int /\ g[x] \in Nat
      BY <3>2, SumInt
    <3>5. x \in R => SumOf(g, A) = g[x] + SumOf(g, B)
      <4> SUFFICES ASSUME x \in R PROVE SumOf(g, A) = g[x] + SumOf(g, B)
        OBVIOUS
      <4>1. x \in A /\ A \ {x} = B /\ \A y \in A : g[y] \in Int
        OBVIOUS
      <4> HIDE DEF A, B
      <4> QED BY <3>2, <4>1, SumWithout
    <3>6. x \notin R => A = B
      OBVIOUS
    <3>7. SumOf(g, A) <= SumOf(g, T)
      <4> HIDE DEF A, B, U
      <4> QED BY <3>1, <3>3, <3>4, <3>5, <3>6
    <3> QED BY <3>7
  <2> QED BY <2>1, <2>2
<1>2. SUBSET S \subseteq G
  <2> HIDE DEF G
  <2> QED BY <1>1, SubsetInduction
<1>3. SumOf(g, R) <= SumOf(g, S)
  <2>1. R \cap S = R /\ S \in G
    BY <1>2
  <2> QED BY <2>1
<1>4. SumOf(f, R) = SumOf(g, R)
  <2>1. IsFiniteSet(R) /\ \A x \in R : g[x] \in Int /\ f[x] = g[x]
    BY FS_Subset
  <2> QED BY <2>1, SumSame
<1> QED BY <1>3, <1>4

(* Values outside a subset that are zero do not count.                     *)
LEMMA SumMasked ==
  ASSUME NEW S, IsFiniteSet(S), NEW R \in SUBSET S, NEW f, NEW g,
         \A x \in R : f[x] \in Int /\ g[x] = f[x], \A x \in S \ R : g[x] = 0
  PROVE  SumOf(g, S) = SumOf(f, R)
<1> DEFINE G == {T \in SUBSET S : SumOf(g, T) = SumOf(f, R \cap T)}
<1>1. ASSUME NEW T \in SUBSET S, \A U \in SUBSET T : U # T => U \in G
      PROVE  T \in G
  <2>1. CASE T = {}
    <3>1. R \cap T = {}
      BY <2>1
    <3> QED BY <2>1, <3>1, SumEmpty
  <2>2. ASSUME NEW x \in T PROVE T \in G
    <3> DEFINE U == T \ {x}
               A == R \cap T
               B == R \cap U
    <3>1. U \in SUBSET S /\ SumOf(g, U) = SumOf(f, B)
      BY <1>1
    <3>2. IsFiniteSet(T) /\ IsFiniteSet(U) /\ IsFiniteSet(A) /\ IsFiniteSet(B)
      BY FS_Subset
    <3>3. SumOf(g, T) = g[x] + SumOf(g, U)
      <4>1. \A y \in T : g[y] \in Int
        OBVIOUS
      <4> QED BY <3>2, <4>1, SumWithout
    <3>4. SumOf(f, B) \in Int
      BY <3>2, SumInt
    <3>5. x \in R => SumOf(f, A) = f[x] + SumOf(f, B)
      <4> SUFFICES ASSUME x \in R PROVE SumOf(f, A) = f[x] + SumOf(f, B)
        OBVIOUS
      <4>1. x \in A /\ A \ {x} = B /\ \A y \in A : f[y] \in Int
        OBVIOUS
      <4> HIDE DEF A, B
      <4> QED BY <3>2, <4>1, SumWithout
    <3>6. x \notin R => A = B
      OBVIOUS
    <3>7. SumOf(g, T) = SumOf(f, A)
      <4> HIDE DEF A, B, U
      <4> QED BY <3>1, <3>3, <3>4, <3>5, <3>6
    <3> QED BY <3>7
  <2> QED BY <2>1, <2>2
<1>2. SUBSET S \subseteq G
  <2> HIDE DEF G
  <2> QED BY <1>1, SubsetInduction
<1>3. R \cap S = R /\ S \in G
  BY <1>2
<1> QED BY <1>3

(* A sum of differences is the difference of the sums.                     *)
LEMMA SumMinus ==
  ASSUME NEW S, IsFiniteSet(S), NEW f, NEW g, NEW d,
         \A x \in S : f[x] \in Int /\ d[x] \in Int /\ g[x] = f[x] - d[x]
  PROVE  SumOf(g, S) = SumOf(f, S) - SumOf(d, S)
<1> DEFINE G == {T \in SUBSET S : SumOf(g, T) = SumOf(f, T) - SumOf(d, T)}
<1>1. ASSUME NEW T \in SUBSET S, \A U \in SUBSET T : U # T => U \in G
      PROVE  T \in G
  <2>1. CASE T = {}
    BY <2>1, SumEmpty
  <2>2. ASSUME NEW x \in T PROVE T \in G
    <3> DEFINE U == T \ {x}
    <3>1. SumOf(g, U) = SumOf(f, U) - SumOf(d, U)
      BY <1>1
    <3>2. IsFiniteSet(T) /\ IsFiniteSet(U)
      BY FS_Subset
    <3>3. SumOf(f, U) \in Int /\ SumOf(d, U) \in Int
      BY <3>2, SumInt
    <3>4. SumOf(f, T) = f[x] + SumOf(f, U) /\ SumOf(d, T) = d[x] + SumOf(d, U)
      BY <3>2, SumWithout
    <3>5. SumOf(g, T) = g[x] + SumOf(g, U)
      <4>1. \A y \in T : g[y] \in Int
        OBVIOUS
      <4> QED BY <3>2, <4>1, SumWithout
    <3>6. f[x] \in Int /\ d[x] \in Int /\ g[x] = f[x] - d[x]
      OBVIOUS
    <3>7. SumOf(g, T) = SumOf(f, T) - SumOf(d, T)
      <4> HIDE DEF U
      <4> QED BY <3>1, <3>3, <3>4, <3>5, <3>6
    <3> QED BY <3>7
  <2> QED BY <2>1, <2>2
<1>2. SUBSET S \subseteq G
  <2> HIDE DEF G
  <2> QED BY <1>1, SubsetInduction
<1> QED BY <1>2

Group(S, group, k) == {x \in S : group[x] = k}

(* Adding up in groups: the elements of S by their group in K.             *)
Groups(S, K, f, group, g) ==
  /\ \A x \in S : f[x] \in Int /\ group[x] \in K
  /\ \A k \in K : g[k] = SumOf(f, Group(S, group, k))

(* What is added up per group adds up to the whole.                        *)
LEMMA SumGroups ==
  ASSUME NEW S, IsFiniteSet(S), NEW K, IsFiniteSet(K), NEW f, NEW group, NEW g,
         Groups(S, K, f, group, g)
  PROVE  SumOf(g, K) = SumOf(f, S)
<1> USE DEF Groups
<1> DEFINE gs(T) == [k \in K |-> SumOf(f, {x \in T : group[x] = k})]
           G == {T \in SUBSET S : SumOf(gs(T), K) = SumOf(f, T)}
<1> USE DEF Group
<1>0. ASSUME NEW T \in SUBSET S, NEW k \in K
      PROVE  gs(T)[k] = SumOf(f, {x \in T : group[x] = k}) /\ gs(T)[k] \in Int
  <2>1. IsFiniteSet({x \in T : group[x] = k})
    BY FS_Subset
  <2> QED BY <2>1, SumInt
<1>1. ASSUME NEW T \in SUBSET S, \A U \in SUBSET T : U # T => U \in G
      PROVE  T \in G
  <2>1. CASE T = {}
    <3>1. \A k \in K : gs(T)[k] = 0
      <4> SUFFICES ASSUME NEW k \in K PROVE gs(T)[k] = 0
        OBVIOUS
      <4>1. {x \in T : group[x] = k} = {}
        BY <2>1
      <4> QED BY <4>1, SumEmpty
    <3> HIDE DEF gs
    <3> QED BY <2>1, <3>1, SumEmpty, SumZero
  <2>2. ASSUME NEW y \in T PROVE T \in G
    <3> DEFINE U == T \ {y}
               old == gs(U)
               new == gs(T)
               j == group[y]
    <3>1. U \in G /\ U \in SUBSET S /\ j \in K
      BY <1>1
    <3>2. IsFiniteSet(T)
      BY FS_Subset
    <3>3. \A k \in K : k # j => new[k] = old[k]
      <4> SUFFICES ASSUME NEW k \in K, k # j PROVE new[k] = old[k]
        OBVIOUS
      <4>1. {x \in T : group[x] = k} = {x \in U : group[x] = k}
        OBVIOUS
      <4> QED BY <4>1
    <3>4. new[j] = f[y] + old[j]
      <4> DEFINE A == {x \in T : group[x] = j}
      <4>1. A \ {y} = {x \in U : group[x] = j} /\ y \in A
        OBVIOUS
      <4>2. IsFiniteSet(A)
        BY <3>2, FS_Subset
      <4>3. SumOf(f, A) = f[y] + SumOf(f, A \ {y})
        <5> HIDE DEF A
        <5>1. \A x \in A : f[x] \in Int
          BY DEF A
        <5> QED BY <4>1, <4>2, <5>1, SumWithout
      <4> QED BY <3>1, <4>1, <4>3
    <3>5. \A k \in K : old[k] \in Int /\ new[k] \in Int
      BY <1>0, <3>1
    <3>6. SumOf(new, K) = SumOf(old, K) - old[j] + new[j]
      <4> HIDE DEF old, new, j
      <4> QED BY <3>1, <3>3, <3>5, SumChanged
    <3>7. SumOf(f, T) = f[y] + SumOf(f, U)
      <4> HIDE DEF G, U
      <4> QED BY <3>2, SumWithout DEF U
    <3>8. SumOf(f, U) \in Int /\ SumOf(old, K) = SumOf(f, U)
      <4>1. IsFiniteSet(U)
        BY <3>2, FS_Subset
      <4> QED BY <3>1, <4>1, SumInt
    <3>9. f[y] \in Int /\ old[j] \in Int
      BY <3>1, <3>5
    <3>10. SumOf(new, K) = SumOf(f, T)
      <4> HIDE DEF old, new, j, U
      <4> QED BY <3>4, <3>6, <3>7, <3>8, <3>9
    <3> QED BY <3>10
  <2> QED BY <2>1, <2>2
<1>2. SUBSET S \subseteq G
  <2> HIDE DEF G
  <2> QED BY <1>1, SubsetInduction
<1>3. SumOf(gs(S), K) = SumOf(f, S)
  BY <1>2
<1>4. SumOf(g, K) = SumOf(gs(S), K)
  <2>1. \A k \in K : gs(S)[k] \in Int /\ g[k] = gs(S)[k]
    BY <1>0
  <2> HIDE DEF gs
  <2> QED BY <2>1, SumSame
<1> QED BY <1>3, <1>4

(* A sum over one element.                                                 *)
LEMMA SumOne ==
  ASSUME NEW f, NEW x, f[x] \in Int PROVE SumOf(f, {x}) = f[x]
<1>1. IsFiniteSet({x}) /\ {x} \ {x} = {}
  BY FS_Singleton
<1>2. SumOf(f, {x}) = f[x] + SumOf(f, {x} \ {x})
  BY <1>1, SumWithout
<1> QED BY <1>1, <1>2, SumEmpty

(* A sum does not depend on how its elements are named.                    *)
Renames(S, K, f, g, name) ==
  /\ \A x \in S : f[x] \in Int /\ name[x] \in K /\ g[name[x]] = f[x]
  /\ \A x, y \in S : name[x] = name[y] => x = y
  /\ \A k \in K : \E x \in S : name[x] = k

(* A sum over renamed elements is the sum.                                 *)
LEMMA SumRenamed ==
  ASSUME NEW S, IsFiniteSet(S), NEW K, IsFiniteSet(K), NEW f, NEW g, NEW name,
         Renames(S, K, f, g, name)
  PROVE  SumOf(g, K) = SumOf(f, S)
<1> USE DEF Renames
<1>1. ASSUME NEW k \in K
      PROVE  g[k] = SumOf(f, Group(S, name, k))
  <2>1. PICK x \in S : name[x] = k
    OBVIOUS
  <2>2. Group(S, name, k) = {x}
    BY <2>1 DEF Group
  <2>3. g[k] = f[x] /\ f[x] \in Int
    BY <2>1
  <2>4. SumOf(f, {x}) = f[x]
    BY <2>3, SumOne
  <2> QED BY <2>2, <2>3, <2>4
<1>2. \A x \in S : f[x] \in Int /\ name[x] \in K
  OBVIOUS
<1> QED BY <1>1, <1>2, SumGroups DEF Groups

Across(g, a, B) == [b \in B |-> g[<<a, b>>]]

(* A sum over pairs is the sum over the first of the sums over the second. *)
LEMMA SumProduct ==
  ASSUME NEW A, IsFiniteSet(A), NEW B, IsFiniteSet(B), NEW g,
         \A x \in A \X B : g[x] \in Int, NEW h,
         \A a \in A : h[a] = SumOf(Across(g, a, B), B)
  PROVE  SumOf(h, A) = SumOf(g, A \X B)
<1> DEFINE S == A \X B
           first == [x \in S |-> x[1]]
<1>1. IsFiniteSet(S)
  BY FS_Product
<1>2. ASSUME NEW a \in A
      PROVE  h[a] = SumOf(g, Group(S, first, a))
  <2> DEFINE K == {x \in S : first[x] = a}
             row == [b \in B |-> g[<<a, b>>]]
             name == [b \in B |-> <<a, b>>]
  <2>1. IsFiniteSet(K)
    BY <1>1, FS_Subset
  <2>2. \A b \in B : row[b] \in Int /\ name[b] \in K /\ g[name[b]] = row[b]
    OBVIOUS
  <2>3. \A b, c \in B : name[b] = name[c] => b = c
    OBVIOUS
  <2>4. \A k \in K : \E b \in B : name[b] = k
    OBVIOUS
  <2> HIDE DEF K, row, name
  <2>5. SumOf(g, K) = SumOf(row, B)
    BY <2>1, <2>2, <2>3, <2>4, SumRenamed DEF Renames
  <2> QED BY <2>5 DEF K, row, Group, Across
<1>3. \A x \in S : g[x] \in Int /\ first[x] \in A
  OBVIOUS
<1> HIDE DEF S, first
<1>4. SumOf(h, A) = SumOf(g, S)
  BY <1>1, <1>2, <1>3, SumGroups DEF Groups
<1> QED BY <1>4 DEF S

Gathered(g, S, b) == SumOf([a \in S |-> g[<<a, b>>]], S)

(* Pieces of rows and makers, added up per row, and per kind and maker.    *)
TwoWays(R, K, M, ret, kind, back, split) ==
  /\ \A x \in R \X M : ret[x] \in Int
  /\ \A r \in R : kind[r] \in K /\ back[r] = SumOf(Across(ret, r, M), M)
  /\ \A k \in K, m \in M : split[<<k, m>>] = Gathered(ret, Group(R, kind, k), m)

(* Added up per row, or per kind and maker, pieces come to the same.       *)
LEMMA SumTwoWays ==
  ASSUME NEW R, IsFiniteSet(R), NEW K, IsFiniteSet(K), NEW M, IsFiniteSet(M),
         NEW ret, NEW kind, NEW back, NEW split, TwoWays(R, K, M, ret, kind, back, split)
  PROVE  SumOf(split, K \X M) = SumOf(back, R)
<1> DEFINE X == R \X M
           Y == K \X M
           to == [x \in X |-> <<kind[x[1]], x[2]>>]
<1>1. IsFiniteSet(X) /\ IsFiniteSet(Y)
  BY FS_Product
<1>2. \A x \in X : ret[x] \in Int /\ to[x] \in Y
  BY DEF TwoWays
<1>3. ASSUME NEW k \in K, NEW m \in M
      PROVE  split[<<k, m>>] = SumOf(ret, Group(X, to, <<k, m>>))
  <2> DEFINE S == Group(R, kind, k)
             T == Group(X, to, <<k, m>>)
             f == [r \in S |-> ret[<<r, m>>]]
             name == [r \in S |-> <<r, m>>]
  <2>1. IsFiniteSet(S)
    BY FS_Subset DEF Group
  <2>2. IsFiniteSet(T)
    <3>1. T \in SUBSET X
      BY DEF Group
    <3> HIDE DEF T, X
    <3> QED BY <1>1, <3>1, FS_Subset
  <2>3. Renames(S, T, f, ret, name)
    <3>1. \A r \in S : f[r] \in Int /\ name[r] \in T /\ ret[name[r]] = f[r]
      BY <1>2 DEF Group
    <3>2. \A r, s \in S : name[r] = name[s] => r = s
      OBVIOUS
    <3>3. \A x \in T : \E r \in S : name[r] = x
      BY DEF Group
    <3> HIDE DEF S, T, f, name
    <3> QED BY <3>1, <3>2, <3>3 DEF Renames
  <2>4. split[<<k, m>>] = SumOf(f, S)
    BY DEF TwoWays, Gathered
  <2> HIDE DEF S, T, f, name, X, to
  <2>5. SumOf(ret, T) = SumOf(f, S)
    BY <2>1, <2>2, <2>3, SumRenamed
  <2> QED BY <2>4, <2>5 DEF T
<1>4. \A y \in Y : split[y] = SumOf(ret, Group(X, to, y))
  <2> SUFFICES ASSUME NEW y \in Y PROVE split[y] = SumOf(ret, Group(X, to, y))
    OBVIOUS
  <2>1. y = <<y[1], y[2]>> /\ y[1] \in K /\ y[2] \in M
    OBVIOUS
  <2> HIDE DEF X, to
  <2> QED BY <1>3, <2>1
<1>5. SumOf(back, R) = SumOf(ret, X)
  BY SumProduct DEF TwoWays
<1> HIDE DEF X, Y, to
<1>6. SumOf(split, Y) = SumOf(ret, X)
  <2>1. IsFiniteSet(X)
    BY <1>1
  <2>2. IsFiniteSet(Y)
    BY <1>1
  <2>3. Groups(X, Y, ret, to, split)
    BY <1>2, <1>4 DEF Groups
  <2>4. \A S, L, f, group, g : IsFiniteSet(S) /\ IsFiniteSet(L) /\ Groups(S, L, f, group, g)
                              => SumOf(g, L) = SumOf(f, S)
    BY SumGroups
  <2> QED BY <2>1, <2>2, <2>3, <2>4
<1> QED BY <1>5, <1>6 DEF Y

-----------------------------------------------------------------------------
(* The table of inventory records                                          *)

(* A sequence is a function on 1 .. its length.                            *)
LEMMA SeqFacts ==
  ASSUME NEW X, NEW s \in Seq(X)
  PROVE  Len(s) \in Nat /\ DOMAIN s = 1 .. Len(s) /\ s \in [1 .. Len(s) -> X]
  OBVIOUS

(* A function on 1 .. n is a sequence of length n.                         *)
LEMMA SeqMade ==
  ASSUME NEW X, NEW n \in Nat, NEW s \in [1 .. n -> X]
  PROVE  s \in Seq(X) /\ Len(s) = n
  OBVIOUS

(* An appended sequence, element by element.                               *)
LEMMA SeqAppended ==
  ASSUME NEW X, NEW s \in Seq(X), NEW x \in X, NEW t, t = Append(s, x)
  PROVE  /\ t \in Seq(X) /\ Len(t) = Len(s) + 1 /\ DOMAIN t = 1 .. (Len(s) + 1)
         /\ t[Len(s) + 1] = x /\ \A i \in 1 .. Len(s) : t[i] = s[i]
  OBVIOUS

Piece == [id : Ids, qty : Nat]

(* Records are made of an identity and a quantity.                         *)
LEMMA PieceFacts ==
  ASSUME NEW id \in Ids, NEW q \in Nat, NEW x \in Piece
  PROVE  /\ x.id \in Ids /\ x.qty \in Nat
         /\ [id |-> id, qty |-> q] \in Piece
         /\ [x EXCEPT !.qty = q] \in Piece
         /\ [x EXCEPT !.qty = q].qty = q /\ [x EXCEPT !.qty = q].id = x.id
  BY DEF Piece

Recs == {rs \in Seq(Piece) :
            \A i, j \in DOMAIN rs : rs[i].id = rs[j].id => i = j}
QtyOf(rs) == [i \in DOMAIN rs |-> rs[i].qty]

(* Record tables: their domain is finite and their pieces are numbers.     *)
LEMMA RecsFacts ==
  ASSUME NEW rs \in Recs
  PROVE  /\ Len(rs) \in Nat /\ DOMAIN rs = 1 .. Len(rs) /\ IsFiniteSet(DOMAIN rs)
         /\ rs = [i \in DOMAIN rs |-> rs[i]]
         /\ \A i \in DOMAIN rs : rs[i] \in Piece
         /\ LooseIn(rs) \in Nat /\ \A i \in DOMAIN rs : rs[i].qty <= LooseIn(rs)
<1>1. /\ Len(rs) \in Nat /\ DOMAIN rs = 1 .. Len(rs)
      /\ rs = [i \in DOMAIN rs |-> rs[i]]
      /\ \A i \in DOMAIN rs : rs[i] \in Piece
  BY SeqFacts DEF Recs
<1>2. IsFiniteSet(DOMAIN rs)
  BY <1>1, FS_Interval
<1> DEFINE qtys == QtyOf(rs)
<1>3. \A i \in DOMAIN rs : qtys[i] = rs[i].qty /\ qtys[i] \in Nat
  BY <1>1 DEF QtyOf, Piece
<1>4. SumOf(qtys, DOMAIN rs) = LooseIn(rs)
  BY DEF LooseIn, QtyOf
<1> HIDE DEF qtys
<1> QED BY <1>1, <1>2, <1>3, <1>4, SumNat

WithQty(rs, i, q) == [rs EXCEPT ![i].qty = q]

(* A record of the table given another quantity.                           *)
LEMMA Requantified ==
  ASSUME NEW rs \in Recs, NEW i \in DOMAIN rs, NEW q \in Nat
  PROVE  /\ WithQty(rs, i, q) \in Recs /\ DOMAIN WithQty(rs, i, q) = DOMAIN rs
         /\ Len(WithQty(rs, i, q)) = Len(rs)
         /\ \A j \in DOMAIN rs : /\ WithQty(rs, i, q)[j].id = rs[j].id
                                 /\ j # i => WithQty(rs, i, q)[j] = rs[j]
         /\ WithQty(rs, i, q)[i].qty = q
         /\ LooseIn(WithQty(rs, i, q)) = LooseIn(rs) - rs[i].qty + q
<1> DEFINE new == WithQty(rs, i, q)
<1>1. /\ Len(rs) \in Nat /\ DOMAIN rs = 1 .. Len(rs) /\ IsFiniteSet(DOMAIN rs)
      /\ rs = [j \in DOMAIN rs |-> rs[j]]
      /\ \A j \in DOMAIN rs : rs[j] \in Piece
  BY RecsFacts
<1>2. DOMAIN new = DOMAIN rs /\ \A j \in DOMAIN rs : j # i => new[j] = rs[j]
  BY <1>1 DEF WithQty
<1>3. new[i] = [rs[i] EXCEPT !.qty = q]
  BY <1>1 DEF WithQty
<1>4. new[i] \in Piece /\ new[i].id = rs[i].id /\ new[i].qty = q
  BY <1>1, <1>3 DEF Piece
<1>5. new \in Seq(Piece) /\ Len(new) = Len(rs)
  <2>0. new = [j \in DOMAIN rs |-> new[j]]
    BY <1>1 DEF WithQty
  <2>1. new \in [1 .. Len(rs) -> Piece]
    <3> HIDE DEF new
    <3> QED BY <1>1, <1>2, <1>4, <2>0
  <2> QED BY <1>1, <2>1, SeqMade
<1> HIDE DEF new
<1>6. new \in Recs
  BY <1>2, <1>4, <1>5 DEF Recs
<1>7. LooseIn(new) = LooseIn(rs) - rs[i].qty + q
  <2> DEFINE f == QtyOf(rs)
             g == QtyOf(new)
  <2>1. \A j \in DOMAIN rs : f[j] = rs[j].qty /\ g[j] = new[j].qty
    BY <1>2 DEF QtyOf
  <2>2. \A j \in DOMAIN rs : rs[j].qty \in Int
    BY <1>1 DEF Piece
  <2>3. \A j \in DOMAIN rs : f[j] \in Int /\ g[j] \in Int /\ (j # i => g[j] = f[j])
    BY <1>2, <1>4, <2>1, <2>2
  <2>4. SumOf(g, DOMAIN rs) = SumOf(f, DOMAIN rs) - f[i] + g[i]
    <3> DEFINE D == DOMAIN rs
    <3>1. IsFiniteSet(D) /\ i \in D
      BY <1>1
    <3>2. \A j \in D : f[j] \in Int /\ g[j] \in Int /\ (j # i => g[j] = f[j])
      BY <2>3
    <3> HIDE DEF f, g, D
    <3>3. SumOf(g, D) = SumOf(f, D) - f[i] + g[i]
      BY <3>1, <3>2, SumChanged
    <3> QED BY <3>3 DEF D
  <2> QED BY <1>2, <1>4, <2>1, <2>4 DEF LooseIn, QtyOf
<1> QED BY <1>2, <1>4, <1>5, <1>6, <1>7 DEF new

(* A record added to the table adds its pieces to the loose ones.          *)
LEMMA Appended ==
  ASSUME NEW rs \in Recs, NEW x \in Piece, \A j \in DOMAIN rs : rs[j].id # x.id
  PROVE  /\ Append(rs, x) \in Recs /\ Len(Append(rs, x)) = Len(rs) + 1
         /\ \A j \in DOMAIN rs : j \in DOMAIN Append(rs, x) /\ Append(rs, x)[j] = rs[j]
         /\ LooseIn(Append(rs, x)) = LooseIn(rs) + x.qty
<1> DEFINE n == Len(rs) + 1
           new == Append(rs, x)
<1>1. /\ Len(rs) \in Nat /\ DOMAIN rs = 1 .. Len(rs) /\ IsFiniteSet(DOMAIN rs)
      /\ rs \in Seq(Piece)
      /\ \A j \in DOMAIN rs : rs[j] \in Piece
  BY RecsFacts DEF Recs
<1>2. /\ new \in Seq(Piece) /\ Len(new) = n /\ DOMAIN new = 1 .. n
      /\ new[n] = x /\ \A j \in 1 .. Len(rs) : new[j] = rs[j]
  BY <1>1, SeqAppended
<1>3. x.qty \in Int /\ \A j \in DOMAIN rs : rs[j].qty \in Int
  BY <1>1 DEF Piece
<1> HIDE DEF new
<1>4. new \in Recs
  BY <1>1, <1>2 DEF Recs
<1>5. LooseIn(new) = LooseIn(rs) + x.qty
  <2> DEFINE f == QtyOf(rs)
             g == QtyOf(new)
             D == DOMAIN new
  <2>1. IsFiniteSet(D) /\ n \in D /\ D \ {n} = DOMAIN rs
    <3>1. IsFiniteSet(D)
      BY <1>4, RecsFacts
    <3> QED BY <1>1, <1>2, <3>1
  <2>2. \A j \in D : g[j] = new[j].qty
    BY DEF QtyOf
  <2>3. \A j \in DOMAIN rs : f[j] = rs[j].qty
    BY DEF QtyOf
  <2> HIDE DEF f, g
  <2>4. \A j \in DOMAIN rs : j \in D /\ f[j] \in Int /\ g[j] = f[j]
    BY <1>1, <1>2, <1>3, <2>1, <2>2, <2>3
  <2>5. g[n] = x.qty /\ \A j \in D : g[j] \in Int
    BY <1>2, <1>3, <2>1, <2>2, <2>4
  <2>6. SumOf(g, D) = x.qty + SumOf(g, D \ {n})
    <3> HIDE DEF D, n
    <3> QED BY <2>1, <2>5, SumWithout
  <2>7. SumOf(g, DOMAIN rs) = SumOf(f, DOMAIN rs)
    BY <1>1, <2>4, SumSame
  <2>8. LooseIn(rs) = SumOf(f, DOMAIN rs) /\ LooseIn(new) = SumOf(g, D)
    BY DEF LooseIn, QtyOf, f, g
  <2>9. LooseIn(rs) \in Nat
    BY RecsFacts
  <2> HIDE DEF D
  <2> QED BY <1>3, <2>1, <2>6, <2>7, <2>8, <2>9
<1> QED BY <1>1, <1>2, <1>4, <1>5 DEF new

(* Put adds its quantity to the loose pieces, whether a record with the    *)
(* identity exists or not.                                                 *)
LEMMA Joined ==
  ASSUME NEW rs \in Recs, NEW id \in Ids, NEW q \in Nat
  PROVE  /\ Put(rs, id, q) \in Recs /\ LooseIn(Put(rs, id, q)) = LooseIn(rs) + q
         /\ Len(Put(rs, id, q)) = IF \E j \in DOMAIN rs : rs[j].id = id
                                  THEN Len(rs) ELSE Len(rs) + 1
         /\ \A j \in DOMAIN rs : /\ j \in DOMAIN Put(rs, id, q)
                                 /\ Put(rs, id, q)[j].id = rs[j].id
                                 /\ rs[j].id # id => Put(rs, id, q)[j] = rs[j]
<1> DEFINE same == {j \in DOMAIN rs : rs[j].id = id}
           i == CHOOSE j \in same : TRUE
           x == [id |-> id, qty |-> q]
           new == Put(rs, id, q)
<1>1. CASE same = {}
  <2>1. x \in Piece /\ x.id = id /\ x.qty = q
    BY DEF Piece
  <2>2. new = Append(rs, x)
    BY <1>1 DEF Put
  <2>3. \A j \in DOMAIN rs : rs[j].id # id
    BY <1>1
  <2> HIDE DEF x, new
  <2> QED BY <2>1, <2>2, <2>3, Appended DEF new
<1>2. CASE same # {}
  <2>1. i \in DOMAIN rs /\ rs[i].id = id
    BY <1>2
  <2>2. rs[i].qty \in Nat /\ LooseIn(rs) \in Nat
    BY <2>1, RecsFacts DEF Piece
  <2> DEFINE t == rs[i].qty + q
  <2>3. new = WithQty(rs, i, t) /\ t \in Nat
    BY <1>2, <2>2 DEF Put, WithQty
  <2> HIDE DEF i, t, new
  <2>4. /\ new \in Recs /\ DOMAIN new = DOMAIN rs /\ Len(new) = Len(rs)
        /\ \A j \in DOMAIN rs : new[j].id = rs[j].id /\ (j # i => new[j] = rs[j])
        /\ LooseIn(new) = LooseIn(rs) - rs[i].qty + t
    BY <2>1, <2>3, Requantified
  <2>5. LooseIn(new) = LooseIn(rs) + q
    BY <2>2, <2>4 DEF t
  <2> QED BY <2>1, <2>4, <2>5 DEF new
<1> QED BY <1>1, <1>2

-----------------------------------------------------------------------------
(* The invariant, and what it says of single rows and of totals            *)

RowKept(r) == IF r \in Rows THEN req[r].pulled + AllocatedOf(r) <= req[r].need
              ELSE AllocatedOf(r) = 0

Typed ==
  /\ record \in Recs /\ Fits(record)
  /\ lost \in [Parts -> Nat]
  /\ req \in [Reqs -> Requirements \cup {None}]
  /\ alloc \in [Reqs -> [RecordIds -> Quantities]]
  /\ prov \in [Builds -> [Parts -> [Makers -> Nat]]]

StockInv ==
  /\ Typed
  /\ Owned <= MaxPieces
  /\ \A r \in Reqs : RowKept(r)
  /\ ProvenanceComplete

(* The fields of a requirement row.                                        *)
LEMMA RowFacts ==
  ASSUME Typed, NEW r \in Rows
  PROVE  /\ r \in Reqs /\ req[r] \in Requirements
         /\ req[r].need \in Nat /\ req[r].need > 0 /\ req[r].need <= MaxPieces
         /\ req[r].pulled \in Nat /\ req[r].pulled <= MaxPieces
         /\ req[r].part \in Parts /\ req[r].orig \in Parts /\ req[r].spare \in BOOLEAN
         /\ BuildOf[r] \in Builds
<1>1. r \in Reqs /\ req[r] \in Requirements
  BY DEF Typed, Rows
<1> QED BY <1>1, StockAssumption DEF Requirements, Some, Quantities

(* What is pulled into some rows is a number, at most what is pulled into  *)
(* all.                                                                    *)
LEMMA PulledFacts ==
  ASSUME Typed, NEW R \in SUBSET Rows
  PROVE  /\ IsFiniteSet(R) /\ PulledBy(R) \in Nat
         /\ PulledBy(R) <= Built
         /\ \A r \in R : req[r].pulled <= PulledBy(R)
<1> DEFINE f(T) == [r \in T |-> req[r].pulled]
<1>1. IsFiniteSet(Rows) /\ IsFiniteSet(R)
  BY StockAssumption, FS_Subset DEF Rows
<1>2. /\ \A r \in R : f(R)[r] = req[r].pulled /\ f(R)[r] \in Nat
      /\ \A r \in Rows : f(Rows)[r] = req[r].pulled /\ f(Rows)[r] \in Nat
  BY RowFacts
<1>3. /\ PulledBy(R) = SumOf(f(R), R)
      /\ Built = SumOf(f(Rows), Rows)
  BY DEF PulledBy, Built
<1> HIDE DEF f
<1>4. \A r \in R : f(R)[r] = f(Rows)[r]
  BY <1>2
<1>5. SumOf(f(R), R) <= SumOf(f(Rows), Rows)
  BY <1>1, <1>2, <1>4, SumSubset
<1>6. SumOf(f(R), R) \in Nat /\ \A r \in R : f(R)[r] <= SumOf(f(R), R)
  BY <1>1, <1>2, SumNat
<1> QED BY <1>1, <1>2, <1>3, <1>5, <1>6

(* The three totals are numbers, and bound what they add up.               *)
LEMMA TotalFacts ==
  ASSUME Typed
  PROVE  /\ Loose \in Nat /\ Built \in Nat /\ Missing \in Nat
         /\ \A i \in DOMAIN record : record[i].qty <= Loose
         /\ \A p \in Parts : lost[p] <= Missing
<1>1. Loose \in Nat /\ \A i \in DOMAIN record : record[i].qty <= Loose
  BY RecsFacts DEF Typed, Loose
<1>2. Built \in Nat
  BY PulledFacts DEF Built
<1>3. Missing \in Nat /\ \A p \in Parts : lost[p] <= Missing
  BY StockAssumption, SumNat DEF Typed, Missing
<1> QED BY <1>1, <1>2, <1>3

(* The fields of an inventory record.                                      *)
LEMMA RecordFacts ==
  ASSUME Typed, NEW i \in DOMAIN record
  PROVE  /\ i \in RecordIds /\ i \in Nat
         /\ record[i].id \in Ids /\ record[i].qty \in Nat
         /\ record[i].id.part \in Parts /\ record[i].id.maker \in Makers
         /\ record[i].id.place \in Places
<1>1. record[i] \in Piece /\ DOMAIN record = 1 .. Len(record) /\ Len(record) \in Nat
  BY RecsFacts DEF Typed
<1>2. record[i].id \in Ids /\ record[i].qty \in Nat
  BY <1>1 DEF Piece
<1> QED BY <1>1, <1>2, StockAssumption DEF Typed, Fits, RecordIds, Ids

(* What is reserved of a record is a number, at least any row's share.     *)
LEMMA ReservedFacts ==
  ASSUME NEW a \in [Reqs -> [RecordIds -> Nat]], NEW i \in RecordIds
  PROVE  /\ ReservedIn(a, i) \in Nat
         /\ \A r \in Reqs : a[r][i] \in Nat /\ a[r][i] <= ReservedIn(a, i)
<1> DEFINE f == [r \in Reqs |-> a[r][i]]
<1>1. \A r \in Reqs : f[r] = a[r][i] /\ f[r] \in Nat
  OBVIOUS
<1>2. ReservedIn(a, i) = SumOf(f, Reqs)
  BY DEF ReservedIn
<1> HIDE DEF f
<1> QED BY <1>1, <1>2, StockAssumption, SumNat

(* What is allocated to a row is a number, at least any record's share.    *)
LEMMA AllocatedFacts ==
  ASSUME NEW f \in [RecordIds -> Nat]
  PROVE  /\ IsFiniteSet(RecordIds) /\ SumOf(f, RecordIds) \in Nat
         /\ \A i \in RecordIds : f[i] <= SumOf(f, RecordIds)
<1>1. IsFiniteSet(RecordIds)
  BY StockAssumption, FS_Interval DEF RecordIds
<1> QED BY <1>1, SumNat

-----------------------------------------------------------------------------
(* Steps of the inventory                                                  *)

(* The missing pieces after one part's outstanding quantity changed.       *)
LEMMA LostChanged ==
  ASSUME Typed, NEW p \in Parts, NEW q \in Nat, lost' = [lost EXCEPT ![p] = q]
  PROVE  lost' \in [Parts -> Nat] /\ Missing' = Missing - lost[p] + q
<1>1. lost \in [Parts -> Nat] /\ lost' \in [Parts -> Nat]
  BY DEF Typed
<1>2. \A x \in Parts : lost[x] \in Int /\ lost'[x] \in Int /\ (x # p => lost'[x] = lost[x])
  BY <1>1
<1> DEFINE f == lost
           g == lost'
<1>3. \A x \in Parts : f[x] \in Int /\ g[x] \in Int /\ (x # p => g[x] = f[x])
  BY <1>2
<1>0. IsFiniteSet(Parts)
  BY StockAssumption
<1>6. g[p] = q /\ f[p] = lost[p]
  BY <1>1
<1>4. Missing = SumOf(f, Parts) /\ Missing' = SumOf(g, Parts)
  BY DEF Missing
<1> HIDE DEF f, g
<1>5. SumOf(g, Parts) = SumOf(f, Parts) - f[p] + g[p]
  BY <1>0, <1>3, SumChanged
<1> QED BY <1>1, <1>6, <1>4, <1>5

(* The records and the losses after a step of the inventory, and what it   *)
(* does to the totals.                                                     *)
InventoryKept ==
  /\ record' \in Recs /\ Fits(record)' /\ lost' \in [Parts -> Nat]
  /\ Loose' + Built + Missing' <= MaxPieces
  /\ \/ Missing' = Missing
     \/ Loose' + Missing' = Loose + Missing

(* AddOrIncrease keeps the tables and takes nothing from what is missing.  *)
LEMMA AddSteps ==
  ASSUME StockInv, NEW id \in Ids, NEW q \in Some, AddOrIncrease(id, q)
  PROVE  InventoryKept /\ Missing' = Missing
<1>1. record' = Put(record, id, q) /\ Fits(record') /\ UNCHANGED lost /\ q \in Nat
      /\ Owned + q <= MaxPieces
  BY DEF AddOrIncrease, Some
<1>2. record \in Recs /\ lost \in [Parts -> Nat]
  BY DEF StockInv, Typed
<1>3. record' \in Recs /\ LooseIn(record') = LooseIn(record) + q
  BY <1>1, <1>2, Joined
<1>4. Missing' = Missing
  BY <1>1 DEF Missing
<1>5. Loose \in Nat /\ Built \in Nat /\ Missing \in Nat
  BY TotalFacts DEF StockInv
<1>6. Loose' = Loose + q
  BY <1>3 DEF Loose
<1> QED BY <1>1, <1>2, <1>3, <1>4, <1>5, <1>6, StockAssumption DEF InventoryKept, Owned

(* EditRecord keeps the tables, merged or not.                             *)
LEMMA EditSteps ==
  ASSUME StockInv, NEW i \in DOMAIN record, NEW id \in Ids, NEW q \in Some,
         EditRecord(i, id, q)
  PROVE  InventoryKept /\ Missing' = Missing
<1> DEFINE other == {j \in DOMAIN record \ {i} : record[j].id = id}
<1>1. q \in Nat /\ UNCHANGED lost /\ Owned - record[i].qty + q <= MaxPieces
  BY DEF EditRecord, Some
<1>2. record \in Recs /\ lost \in [Parts -> Nat] /\ Len(record) <= MaxRecords
  BY DEF StockInv, Typed, Fits
<1>3. Loose \in Nat /\ Built \in Nat /\ Missing \in Nat
  BY TotalFacts DEF StockInv
<1>4. record[i].qty \in Nat
  BY RecordFacts DEF StockInv
<1>5. record' \in Recs /\ Len(record') = Len(record)
      /\ LooseIn(record') = LooseIn(record) - record[i].qty + q
  <2>1. CASE other = {}
    <3> DEFINE x == [id |-> id, qty |-> q]
    <3>1. record' = [record EXCEPT ![i] = x]
      BY <2>1 DEF EditRecord
    <3>2. x \in Piece /\ x.id = id /\ x.qty = q
      BY <1>1 DEF Piece
    <3> HIDE DEF x
    <3>3. /\ Len(record) \in Nat /\ DOMAIN record = 1 .. Len(record)
          /\ record \in [1 .. Len(record) -> Piece] /\ IsFiniteSet(DOMAIN record)
      BY <1>2, RecsFacts
    <3>4. record' \in [1 .. Len(record) -> Piece]
          /\ record'[i] = x /\ \A j \in DOMAIN record : j # i => record'[j] = record[j]
      BY <3>1, <3>2, <3>3
    <3>5. record' \in Seq(Piece) /\ Len(record') = Len(record) /\ DOMAIN record' = DOMAIN record
      BY <3>3, <3>4, SeqMade
    <3>6. \A j \in DOMAIN record : j # i => record[j].id # id
      BY <2>1
    <3>7. record' \in Recs
      BY <1>2, <3>2, <3>4, <3>5, <3>6 DEF Recs
    <3> DEFINE f == QtyOf(record)
               g == QtyOf(record')
               D == DOMAIN record
    <3>8. \A j \in D : f[j] = record[j].qty /\ g[j] = record'[j].qty
      BY <3>5 DEF QtyOf
    <3>9. \A j \in D : record[j].qty \in Int /\ record'[j].qty \in Int
      BY <3>3, <3>4 DEF Piece
    <3>10. LooseIn(record') = SumOf(g, D) /\ LooseIn(record) = SumOf(f, D)
      BY <3>5 DEF LooseIn, QtyOf
    <3> HIDE DEF f, g, D
    <3>11. \A j \in D : f[j] \in Int /\ g[j] \in Int /\ (j # i => g[j] = f[j])
      BY <3>4, <3>8, <3>9 DEF D
    <3>12. IsFiniteSet(D) /\ i \in D
      BY <3>3 DEF D
    <3>13. SumOf(g, D) = SumOf(f, D) - f[i] + g[i]
      BY <3>11, <3>12, SumChanged
    <3> QED BY <3>2, <3>4, <3>5, <3>7, <3>8, <3>10, <3>12, <3>13
  <2>2. CASE other # {}
    <3> DEFINE mid == Put(record, id, q)
    <3>1. PICK j \in DOMAIN record : j # i /\ record[j].id = id
      BY <2>2
    <3>2. record[i].id # id
      BY <1>2, <3>1 DEF Recs
    <3>3. /\ mid \in Recs /\ LooseIn(mid) = LooseIn(record) + q /\ Len(mid) = Len(record)
          /\ i \in DOMAIN mid /\ mid[i] = record[i]
      BY <1>1, <1>2, <3>1, <3>2, Joined
    <3>4. record' = WithQty(mid, i, 0)
      BY <2>2 DEF EditRecord, WithQty
    <3> HIDE DEF mid
    <3>5. /\ record' \in Recs /\ Len(record') = Len(mid)
          /\ LooseIn(record') = LooseIn(mid) - mid[i].qty + 0
      BY <3>3, <3>4, Requantified
    <3>6. LooseIn(mid) \in Nat
      BY <3>3, RecsFacts
    <3>7. LooseIn(record) \in Nat
      BY <1>2, RecsFacts
    <3> QED BY <1>1, <1>4, <3>3, <3>5, <3>6, <3>7
  <2> QED BY <2>1, <2>2
<1>6. Missing' = Missing
  BY <1>1 DEF Missing
<1>7. Loose' = Loose - record[i].qty + q
  BY <1>5 DEF Loose
<1>8. Fits(record)'
  BY <1>2, <1>5 DEF Fits
<1> QED BY <1>1, <1>2, <1>3, <1>4, <1>5, <1>6, <1>7, <1>8, StockAssumption
        DEF InventoryKept, Owned

(* Taking pieces from a record and joining them to another one.            *)
LEMMA Transferred ==
  ASSUME StockInv, NEW i \in DOMAIN record, NEW id \in Ids, NEW q \in Nat,
         q <= record[i].qty,
         record' = Put([record EXCEPT ![i].qty = record[i].qty - q], id, q)
  PROVE  record' \in Recs /\ Loose' = Loose
<1> DEFINE left == record[i].qty - q
           mid == WithQty(record, i, left)
<1>1. record \in Recs /\ record[i].qty \in Nat /\ LooseIn(record) \in Nat
  BY RecordFacts, RecsFacts DEF StockInv, Typed
<1>2. left \in Nat
  BY <1>1
<1>3. record' = Put(mid, id, q)
  BY DEF WithQty
<1>4. mid \in Recs /\ LooseIn(mid) = LooseIn(record) - record[i].qty + left
  <2> HIDE DEF left
  <2> QED BY <1>1, <1>2, Requantified
<1> HIDE DEF mid
<1>5. record' \in Recs /\ LooseIn(record') = LooseIn(mid) + q
  BY <1>3, <1>4, Joined
<1> QED BY <1>1, <1>4, <1>5 DEF Loose

(* MoveInventory and CorrectEntry keep the tables and every loose piece.   *)
LEMMA TransferSteps ==
  ASSUME StockInv, NEW i \in DOMAIN record, NEW q \in Some,
         \/ \E place \in Places : MoveInventory(i, place, q)
         \/ \E part \in Parts : CorrectEntry(i, part, q)
  PROVE  InventoryKept /\ Missing' = Missing /\ Loose' = Loose
<1>1. q \in Nat /\ q <= record[i].qty /\ Fits(record') /\ UNCHANGED lost
  <2>1. CASE \E place \in Places : MoveInventory(i, place, q)
    BY <2>1 DEF MoveInventory, Some
  <2>2. CASE \E part \in Parts : CorrectEntry(i, part, q)
    BY <2>2 DEF CorrectEntry, Some
  <2> QED BY <2>1, <2>2
<1>2. record[i].id \in Ids /\ record \in Recs /\ record[i].qty \in Nat
  BY RecordFacts DEF StockInv, Typed
<1>3. record' \in Recs /\ Loose' = Loose
  <2>0. [record EXCEPT ![i].qty = @ - q] = [record EXCEPT ![i].qty = record[i].qty - q]
    BY <1>2
  <2>1. CASE \E place \in Places : MoveInventory(i, place, q)
    <3> PICK place \in Places : MoveInventory(i, place, q)
      BY <2>1
    <3> DEFINE id == [record[i].id EXCEPT !.place = place]
    <3>1. id \in Ids
      BY <1>2 DEF Ids
    <3>2. record' = Put([record EXCEPT ![i].qty = record[i].qty - q], id, q)
      BY <2>0 DEF MoveInventory
    <3> HIDE DEF id
    <3> QED BY <1>1, <3>1, <3>2, Transferred
  <2>2. CASE \E part \in Parts : CorrectEntry(i, part, q)
    <3> PICK part \in Parts : CorrectEntry(i, part, q)
      BY <2>2
    <3> DEFINE id == [record[i].id EXCEPT !.part = part]
    <3>1. id \in Ids
      BY <1>2 DEF Ids
    <3>2. record' = Put([record EXCEPT ![i].qty = record[i].qty - q], id, q)
      BY <2>0 DEF CorrectEntry
    <3> HIDE DEF id
    <3> QED BY <1>1, <3>1, <3>2, Transferred
  <2> QED BY <2>1, <2>2
<1>4. lost' \in [Parts -> Nat] /\ Missing' = Missing
  BY <1>1 DEF StockInv, Typed, Missing
<1>5. Loose' + Built + Missing' <= MaxPieces
  BY <1>3, <1>4 DEF StockInv, Owned
<1> QED BY <1>1, <1>3, <1>4, <1>5 DEF InventoryKept

(* Taking pieces from a record.                                            *)
LEMMA Taken ==
  ASSUME StockInv, NEW i \in DOMAIN record, NEW q \in Nat, q <= record[i].qty,
         record' = [record EXCEPT ![i].qty = record[i].qty - q]
  PROVE  record' \in Recs /\ Fits(record)' /\ Loose' = Loose - q /\ Loose' \in Nat
<1> DEFINE left == record[i].qty - q
<1>1. record \in Recs /\ record[i].qty \in Nat /\ LooseIn(record) \in Nat
      /\ Len(record) <= MaxRecords
  BY RecordFacts, RecsFacts DEF StockInv, Typed, Fits
<1>2. left \in Nat
  BY <1>1
<1> DEFINE new == WithQty(record, i, left)
<1>3. record' = new
  BY DEF WithQty
<1>4. new \in Recs /\ Len(new) = Len(record)
      /\ LooseIn(new) = LooseIn(record) - record[i].qty + left
  <2> HIDE DEF left
  <2> QED BY <1>1, <1>2, Requantified
<1> HIDE DEF new
<1>5. record' \in Recs /\ Len(record') = Len(record)
      /\ LooseIn(record') = LooseIn(record) - record[i].qty + left
  BY <1>3, <1>4
<1>6. LooseIn(record') \in Nat
  BY <1>5, RecsFacts
<1> QED BY <1>1, <1>5, <1>6 DEF Loose, Fits

(* RemoveEntry keeps the tables.                                           *)
LEMMA RemoveSteps ==
  ASSUME StockInv, NEW i \in DOMAIN record, NEW q \in Some, RemoveEntry(i, q)
  PROVE  InventoryKept /\ Missing' = Missing
<1>1. q \in Nat /\ q <= record[i].qty - AllocatedFrom(i) /\ UNCHANGED lost
  BY DEF RemoveEntry, Some
<1>2. record[i].qty \in Nat /\ AllocatedFrom(i) \in Nat
  <2>1. alloc \in [Reqs -> [RecordIds -> Nat]]
    BY DEF StockInv, Typed, Quantities
  <2> QED BY <2>1, RecordFacts, ReservedFacts DEF StockInv, AllocatedFrom
<1>3. record' = [record EXCEPT ![i].qty = record[i].qty - q]
  BY DEF RemoveEntry
<1>4. record' \in Recs /\ Fits(record)' /\ Loose' = Loose - q
  <2>1. q <= record[i].qty
    BY <1>1, <1>2
  <2> QED BY <1>1, <1>3, <2>1, Taken
<1>5. lost' \in [Parts -> Nat] /\ Missing' = Missing
  BY <1>1 DEF StockInv, Typed, Missing
<1>6. Loose \in Nat /\ Built \in Nat /\ Missing \in Nat
  BY TotalFacts DEF StockInv
<1> QED BY <1>1, <1>4, <1>5, <1>6, StockAssumption DEF InventoryKept, StockInv, Owned

(* MarkLost turns loose pieces into missing ones.                          *)
LEMMA LostSteps ==
  ASSUME StockInv, NEW i \in DOMAIN record, NEW q \in Some, MarkLost(i, q)
  PROVE  InventoryKept /\ Loose' + Missing' = Loose + Missing
<1> DEFINE p == record[i].id.part
           n == lost[p] + q
<1>1. q \in Nat /\ q <= record[i].qty
      /\ record' = [record EXCEPT ![i].qty = record[i].qty - q]
  BY DEF MarkLost, Some
<1>2. p \in Parts /\ lost[p] \in Nat /\ n \in Nat
  BY <1>1, RecordFacts DEF StockInv, Typed
<1>3. lost' = [lost EXCEPT ![p] = n]
  BY DEF MarkLost
<1>4. record' \in Recs /\ Fits(record)' /\ Loose' = Loose - q
  BY <1>1, Taken
<1>5. lost' \in [Parts -> Nat] /\ Missing' = Missing - lost[p] + n
  <2> HIDE DEF n, p
  <2> QED BY <1>2, <1>3, LostChanged DEF StockInv
<1>6. Loose \in Nat /\ Built \in Nat /\ Missing \in Nat
  BY TotalFacts DEF StockInv
<1>7. Loose' + Missing' = Loose + Missing
  BY <1>1, <1>2, <1>4, <1>5, <1>6
<1>8. Loose' + Built + Missing' <= MaxPieces
  BY <1>1, <1>2, <1>4, <1>5, <1>6, StockAssumption DEF StockInv, Owned
<1> QED BY <1>4, <1>5, <1>7, <1>8 DEF InventoryKept

(* MarkFound turns missing pieces into loose ones.                         *)
LEMMA FoundSteps ==
  ASSUME StockInv, NEW part \in Parts, NEW place \in Places, NEW q \in Some,
         MarkFound(part, place, q)
  PROVE  InventoryKept /\ Loose' + Missing' = Loose + Missing
<1> DEFINE id == [part |-> part, place |-> place, maker |-> Lego]
           n == lost[part] - q
<1>1. q \in Nat /\ q <= lost[part] /\ record' = Put(record, id, q) /\ Fits(record')
      /\ lost' = [lost EXCEPT ![part] = n]
  BY DEF MarkFound, Some
<1>2. id \in Ids /\ lost[part] \in Nat /\ n \in Nat /\ record \in Recs
  BY <1>1, StockAssumption DEF StockInv, Typed, Ids
<1> HIDE DEF id
<1>3. record' \in Recs /\ LooseIn(record') = LooseIn(record) + q
  BY <1>1, <1>2, Joined
<1>4. lost' \in [Parts -> Nat] /\ Missing' = Missing - lost[part] + n
  <2> HIDE DEF n
  <2> QED BY <1>1, <1>2, LostChanged DEF StockInv
<1>5. Loose \in Nat /\ Built \in Nat /\ Missing \in Nat /\ Loose' = Loose + q
  BY <1>3, TotalFacts DEF StockInv, Loose
<1>6. Loose' + Missing' = Loose + Missing
  BY <1>1, <1>2, <1>4, <1>5
<1>7. Loose' + Built + Missing' <= MaxPieces
  BY <1>1, <1>2, <1>4, <1>5, StockAssumption DEF StockInv, Owned
<1> QED BY <1>1, <1>3, <1>4, <1>6, <1>7 DEF InventoryKept

(* Every step of the inventory preserves the invariant.                    *)
LEMMA InventorySteps == ASSUME StockInv, InventoryStep PROVE StockInv'
<1>1. InventoryKept
  BY AddSteps, EditSteps, TransferSteps, RemoveSteps, LostSteps, FoundSteps DEF InventoryStep
<1>2. UNCHANGED <<build, req, alloc, prov>>
  BY DEF InventoryStep, AddOrIncrease, EditRecord, MoveInventory, CorrectEntry,
         RemoveEntry, MarkLost, MarkFound, fulfilment
<1>3. Typed'
  BY <1>1, <1>2 DEF StockInv, Typed, InventoryKept
<1>4. Owned' <= MaxPieces
  <2>1. Built' = Built
    BY <1>2 DEF Built, Rows, PulledBy
  <2> QED BY <1>1, <2>1 DEF InventoryKept, Owned
<1>5. \A r \in Reqs : RowKept(r)'
  BY <1>2 DEF StockInv, RowKept, AllocatedOf, Rows
<1>6. ProvenanceComplete'
  BY <1>2 DEF StockInv, ProvenanceComplete, PulledBy, RowsOf, Rows
<1> QED BY <1>3, <1>4, <1>5, <1>6 DEF StockInv

(* Pulled pieces over some rows, as a sum over all rows. *)
PulledIn(rq, R) == SumOf([r \in R |-> rq[r].pulled], R)
Weight(rq, R, r) == IF r \in R THEN rq[r].pulled ELSE 0
RowsIn(rq) == {r \in Reqs : rq[r] # None}
RowsOfIn(rq, b) == {r \in RowsIn(rq) : BuildOf[r] = b}

(* What some rows have pulled, as a sum over every row.                    *)
LEMMA PulledWeighed ==
  ASSUME NEW rq, NEW R \in SUBSET Reqs, \A r \in R : rq[r].pulled \in Int, NEW g,
         \A r \in Reqs : g[r] = Weight(rq, R, r)
  PROVE  PulledIn(rq, R) = SumOf(g, Reqs)
<1> DEFINE f == [r \in R |-> rq[r].pulled]
<1>1. /\ \A r \in R : f[r] \in Int /\ g[r] = f[r]
      /\ \A r \in Reqs \ R : g[r] = 0
  BY DEF Weight
<1>2. PulledIn(rq, R) = SumOf(f, R)
  BY DEF PulledIn
<1> HIDE DEF f
<1> QED BY <1>1, <1>2, StockAssumption, SumMasked

(* What rows have pulled after one of them changed, appeared or vanished.  *)
LEMMA PulledChanged ==
  ASSUME NEW rq, NEW rn, NEW R \in SUBSET Reqs, NEW T \in SUBSET Reqs, NEW r \in Reqs,
         \A s \in R : rq[s].pulled \in Int, \A s \in T : rn[s].pulled \in Int,
         \A s \in Reqs \ {r} : (s \in R <=> s \in T) /\ rn[s] = rq[s]
  PROVE  PulledIn(rn, T) = PulledIn(rq, R) - Weight(rq, R, r) + Weight(rn, T, r)
<1> DEFINE f == [s \in Reqs |-> Weight(rq, R, s)]
           g == [s \in Reqs |-> Weight(rn, T, s)]
<1>1. PulledIn(rq, R) = SumOf(f, Reqs)
  <2>1. \A s \in Reqs : f[s] = Weight(rq, R, s)
    OBVIOUS
  <2> HIDE DEF f
  <2> QED BY <2>1, PulledWeighed
<1>2. PulledIn(rn, T) = SumOf(g, Reqs)
  <2>1. \A s \in Reqs : g[s] = Weight(rn, T, s)
    OBVIOUS
  <2> HIDE DEF g
  <2> QED BY <2>1, PulledWeighed
<1>3. \A s \in Reqs : f[s] \in Int /\ g[s] \in Int /\ (s # r => g[s] = f[s])
  BY DEF Weight
<1>4. f[r] = Weight(rq, R, r) /\ g[r] = Weight(rn, T, r)
  OBVIOUS
<1>5. IsFiniteSet(Reqs)
  BY StockAssumption
<1> HIDE DEF f, g
<1>6. SumOf(g, Reqs) = SumOf(f, Reqs) - f[r] + g[r]
  BY <1>3, <1>5, SumChanged
<1> QED BY <1>1, <1>2, <1>4, <1>6

(* The totals of the model, now and after a step, by those names.          *)
LEMMA PulledNames ==
  /\ Rows = RowsIn(req) /\ Rows' = RowsIn(req')
  /\ Built = PulledIn(req, Rows) /\ Built' = PulledIn(req', Rows')
  /\ \A b : /\ RowsOf(b) = RowsOfIn(req, b) /\ RowsOf(b)' = RowsOfIn(req', b)
            /\ PulledBy(RowsOf(b)) = PulledIn(req, RowsOf(b))
            /\ PulledBy(RowsOf(b))' = PulledIn(req', RowsOf(b)')
<1>1. /\ Rows = RowsIn(req) /\ Rows' = RowsIn(req')
      /\ Built = PulledIn(req, Rows) /\ Built' = PulledIn(req', Rows')
  BY DEF Rows, RowsIn, Built, PulledBy, PulledIn
<1>2. ASSUME NEW b
      PROVE  /\ RowsOf(b) = RowsOfIn(req, b) /\ RowsOf(b)' = RowsOfIn(req', b)
             /\ PulledBy(RowsOf(b)) = PulledIn(req, RowsOf(b))
             /\ PulledBy(RowsOf(b))' = PulledIn(req', RowsOf(b)')
  BY DEF Rows, RowsOf, RowsIn, RowsOfIn, PulledBy, PulledIn
<1> QED BY <1>1, <1>2

PiecesIn(x) == IF x = None THEN 0 ELSE x.pulled

(* The totals after one requirement row was replaced.                      *)
LEMMA RowReplaced ==
  ASSUME Typed, NEW r \in Reqs, NEW new \in Requirements \cup {None},
         req' = [req EXCEPT ![r] = new]
  PROVE  /\ req' \in [Reqs -> Requirements \cup {None}]
         /\ Built' = Built - PiecesIn(req[r]) + PiecesIn(new)
         /\ PulledBy(RowsOf(BuildOf[r]))'
              = PulledBy(RowsOf(BuildOf[r])) - PiecesIn(req[r]) + PiecesIn(new)
         /\ \A b : b # BuildOf[r] => PulledBy(RowsOf(b))' = PulledBy(RowsOf(b))
<1>1. /\ req \in [Reqs -> Requirements \cup {None}]
      /\ req' \in [Reqs -> Requirements \cup {None}]
      /\ req'[r] = new /\ \A s \in Reqs \ {r} : req'[s] = req[s]
  BY DEF Typed
<1>2. \A x \in Requirements : x.pulled \in Int
  BY StockAssumption DEF Requirements, Quantities
<1>3. ASSUME NEW R \in SUBSET RowsIn(req), NEW T \in SUBSET RowsIn(req'),
             \A s \in Reqs \ {r} : s \in R <=> s \in T
      PROVE  PulledIn(req', T) = PulledIn(req, R) - Weight(req, R, r) + Weight(req', T, r)
  <2> DEFINE rq == req
             rn == req'
  <2>1. R \in SUBSET Reqs /\ T \in SUBSET Reqs
    BY <1>3 DEF RowsIn
  <2>2. \A s \in R : rq[s].pulled \in Int
    BY <1>1, <1>2, <1>3 DEF RowsIn
  <2>3. \A s \in T : rn[s].pulled \in Int
    BY <1>1, <1>2, <1>3 DEF RowsIn
  <2>4. \A s \in Reqs \ {r} : (s \in R <=> s \in T) /\ rn[s] = rq[s]
    BY <1>1, <1>3
  <2> HIDE DEF rn, rq
  <2>5. PulledIn(rn, T) = PulledIn(rq, R) - Weight(rq, R, r) + Weight(rn, T, r)
    BY <2>1, <2>2, <2>3, <2>4, PulledChanged
  <2> QED BY <2>5 DEF rn, rq
<1>4. Built' = Built - PiecesIn(req[r]) + PiecesIn(new)
  <2>1. /\ Weight(req, RowsIn(req), r) = PiecesIn(req[r])
        /\ Weight(req', RowsIn(req'), r) = PiecesIn(new)
        /\ \A s \in Reqs \ {r} : s \in RowsIn(req) <=> s \in RowsIn(req')
    BY <1>1 DEF Weight, RowsIn, PiecesIn
  <2> QED BY <1>3, <2>1, PulledNames
<1>5. ASSUME NEW b
      PROVE  PulledBy(RowsOf(b))'
               = IF b = BuildOf[r] THEN PulledBy(RowsOf(b)) - PiecesIn(req[r]) + PiecesIn(new)
                 ELSE PulledBy(RowsOf(b))
  <2> DEFINE R == RowsOfIn(req, b)
             T == RowsOfIn(req', b)
  <2>1. /\ R \in SUBSET RowsIn(req) /\ T \in SUBSET RowsIn(req')
        /\ \A s \in Reqs \ {r} : s \in R <=> s \in T
    BY <1>1 DEF RowsIn, RowsOfIn
  <2>2. b = BuildOf[r] => /\ Weight(req, R, r) = PiecesIn(req[r])
                          /\ Weight(req', T, r) = PiecesIn(new)
    BY <1>1 DEF Weight, RowsIn, RowsOfIn, PiecesIn
  <2>3. b # BuildOf[r] => Weight(req, R, r) = 0 /\ Weight(req', T, r) = 0
    BY DEF Weight, RowsOfIn
  <2>4. PulledIn(req', T) = PulledIn(req, R) - Weight(req, R, r) + Weight(req', T, r)
    BY <1>3, <2>1
  <2>5. PulledIn(req, R) \in Int
    <3>1. R \in SUBSET Rows
      BY <2>1, PulledNames
    <3> QED BY <3>1, PulledFacts, PulledNames
  <2>6. PulledBy(RowsOf(b)) = PulledIn(req, R) /\ PulledBy(RowsOf(b))' = PulledIn(req', T)
    BY PulledNames
  <2> HIDE DEF R, T
  <2> QED BY <2>2, <2>3, <2>4, <2>5, <2>6
<1> QED BY <1>1, <1>4, <1>5

-----------------------------------------------------------------------------
(* Steps of requirement rows and allocations                               *)

(* A row that changes without its pulled pieces preserves the invariant,   *)
(* as long as it requires what it has.                                     *)
LEMMA RowChanged ==
  ASSUME StockInv, NEW r \in Reqs, NEW new \in Requirements \cup {None},
         req' = [req EXCEPT ![r] = new], UNCHANGED <<record, lost, alloc, prov>>,
         PiecesIn(new) = PiecesIn(req[r]),
         IF new = None THEN AllocatedOf(r) = 0 ELSE new.pulled + AllocatedOf(r) <= new.need
  PROVE  StockInv' /\ Built' = Built
<1>1. /\ req' \in [Reqs -> Requirements \cup {None}]
      /\ Built' = Built - PiecesIn(req[r]) + PiecesIn(new)
      /\ PulledBy(RowsOf(BuildOf[r]))'
           = PulledBy(RowsOf(BuildOf[r])) - PiecesIn(req[r]) + PiecesIn(new)
      /\ \A b : b # BuildOf[r] => PulledBy(RowsOf(b))' = PulledBy(RowsOf(b))
  BY RowReplaced DEF StockInv
<1>2. \A b : PulledBy(RowsOf(b)) \in Nat
  BY PulledFacts DEF StockInv, RowsOf
<1>3. PiecesIn(new) \in Nat
  BY StockAssumption DEF PiecesIn, Requirements, Quantities
<1>4. Built' = Built /\ \A b : PulledBy(RowsOf(b))' = PulledBy(RowsOf(b))
  <2>1. Built \in Nat
    BY TotalFacts DEF StockInv
  <2> QED BY <1>1, <1>2, <1>3, <2>1
<1>5. Typed'
  BY <1>1 DEF StockInv, Typed
<1>6. Loose' = Loose /\ Missing' = Missing
  BY DEF Loose, Missing
<1>7. Owned' <= MaxPieces
  BY <1>4, <1>6 DEF StockInv, Owned
<1>8. ASSUME NEW s \in Reqs PROVE RowKept(s)'
  <2>1. AllocatedOf(s)' = AllocatedOf(s) /\ RowKept(s)
    BY DEF AllocatedOf, StockInv
  <2>2. req'[r] = new /\ (s # r => req'[s] = req[s])
    BY DEF StockInv, Typed
  <2> QED BY <2>1, <2>2 DEF RowKept, Rows
<1>9. ProvenanceComplete'
  BY <1>4 DEF StockInv, ProvenanceComplete
<1> QED BY <1>4, <1>5, <1>7, <1>8, <1>9 DEF StockInv

(* Adding and editing a requirement preserve the invariant.                *)
LEMMA AddEditSteps ==
  ASSUME StockInv, NEW r \in Reqs, NEW part \in Parts, NEW need \in Some, NEW spare \in BOOLEAN,
         \/ \E orig \in Parts : AddRequirement(r, orig, part, need, spare)
         \/ r \in Rows /\ EditRequirement(r, part, need, spare)
  PROVE  StockInv' /\ Built' = Built /\ UNCHANGED <<record, lost>>
<1>0. 0 \in Quantities /\ need \in Nat /\ RowKept(r)
  BY StockAssumption DEF Quantities, Some, StockInv
<1>1. CASE \E orig \in Parts : AddRequirement(r, orig, part, need, spare)
  <2> PICK orig \in Parts : AddRequirement(r, orig, part, need, spare)
    BY <1>1
  <2> DEFINE new == [orig |-> orig, part |-> part, need |-> need, pulled |-> 0, spare |-> spare]
  <2>1. req' = [req EXCEPT ![r] = new] /\ UNCHANGED <<record, lost, alloc, prov>>
        /\ req[r] = None
    BY DEF AddRequirement, inventory
  <2>2. new \in Requirements /\ new.pulled = 0 /\ new.need = need /\ new # None
    BY <1>0, StockAssumption DEF Requirements
  <2>3. AllocatedOf(r) = 0
    BY <1>0, <2>1 DEF RowKept, Rows
  <2> HIDE DEF new
  <2>4. PiecesIn(new) = PiecesIn(req[r])
    BY <2>1, <2>2 DEF PiecesIn
  <2>5. new.pulled + AllocatedOf(r) <= new.need
    BY <1>0, <2>2, <2>3
  <2> QED BY <2>1, <2>2, <2>4, <2>5, RowChanged
<1>2. CASE r \in Rows /\ EditRequirement(r, part, need, spare)
  <2> DEFINE new == [orig |-> req[r].orig, part |-> part, need |-> need,
                     pulled |-> req[r].pulled, spare |-> spare]
  <2>1. req[r] \in Requirements /\ req[r].pulled \in Quantities /\ req[r].orig \in Parts
    BY <1>2, RowFacts DEF StockInv, Requirements
  <2>2. req' = [req EXCEPT ![r] = new] /\ UNCHANGED <<record, lost, alloc, prov>>
        /\ need >= req[r].pulled + AllocatedOf(r)
    BY <1>2 DEF EditRequirement, inventory, StockInv, Typed
  <2>3. new \in Requirements /\ new.pulled = req[r].pulled /\ new.need = need /\ new # None
    BY <2>1, StockAssumption DEF Requirements
  <2> HIDE DEF new
  <2>4. PiecesIn(new) = PiecesIn(req[r])
    BY <1>2, <2>3 DEF PiecesIn, Rows
  <2>5. new.pulled + AllocatedOf(r) <= new.need
    <3>1. alloc[r] \in [RecordIds -> Nat]
      BY DEF StockInv, Typed, Quantities
    <3>2. AllocatedOf(r) \in Nat /\ req[r].pulled \in Nat
      BY <2>1, <3>1, AllocatedFacts DEF AllocatedOf, Quantities
    <3> QED BY <1>0, <2>2, <2>3, <3>2
  <2> QED BY <2>2, <2>3, <2>4, <2>5, RowChanged
<1> QED BY <1>1, <1>2

(* Removing a requirement preserves the invariant.                         *)
LEMMA RemoveRowSteps ==
  ASSUME StockInv, NEW r \in Rows, RemoveRequirement(r)
  PROVE  StockInv' /\ Built' = Built /\ UNCHANGED <<record, lost>>
<1>1. /\ req' = [req EXCEPT ![r] = None] /\ UNCHANGED <<record, lost, alloc, prov>>
      /\ req[r].pulled = 0 /\ AllocatedOf(r) = 0 /\ r \in Reqs
  BY DEF RemoveRequirement, inventory, Rows
<1>2. PiecesIn(None) = PiecesIn(req[r])
  BY <1>1 DEF PiecesIn
<1> QED BY <1>1, <1>2, RowChanged

(* Steps that change allocations alone. *)
LEMMA AllocationSteps ==
  ASSUME StockInv, UNCHANGED <<record, lost, req, prov>>,
         alloc' \in [Reqs -> [RecordIds -> Quantities]], \A r \in Reqs : RowKept(r)'
  PROVE  StockInv' /\ Built' = Built
<1>1. Typed'
  BY DEF StockInv, Typed
<1>2. Loose' = Loose /\ Missing' = Missing /\ Built' = Built
  BY DEF Loose, Missing, Built, PulledBy, Rows
<1>3. Owned' <= MaxPieces
  BY <1>2 DEF StockInv, Owned
<1>4. ProvenanceComplete'
  BY DEF StockInv, ProvenanceComplete, PulledBy, RowsOf, Rows
<1> QED BY <1>1, <1>2, <1>3, <1>4 DEF StockInv

(* Replacing the allocations of a row preserves the invariant.             *)
LEMMA ReplaceSteps ==
  ASSUME StockInv, NEW r \in Rows, NEW wanted \in [RecordIds -> Quantities],
         ReplaceForRequirement(r, wanted)
  PROVE  StockInv' /\ Built' = Built /\ UNCHANGED <<record, lost>>
<1>1. /\ alloc' = [alloc EXCEPT ![r] = wanted] /\ UNCHANGED <<record, lost, req, prov>>
      /\ req[r].pulled = 0 /\ SumOf(wanted, RecordIds) <= req[r].need
  BY DEF ReplaceForRequirement, inventory
<1>2. alloc' \in [Reqs -> [RecordIds -> Quantities]]
      /\ alloc'[r] = wanted /\ \A s \in Reqs : s # r => alloc'[s] = alloc[s]
  BY <1>1 DEF StockInv, Typed, Rows
<1>3. ASSUME NEW s \in Reqs PROVE RowKept(s)'
  <2>1. CASE s = r
    <3>1. AllocatedOf(s)' = SumOf(wanted, RecordIds)
      BY <1>2, <2>1 DEF AllocatedOf
    <3>2. SumOf(wanted, RecordIds) \in Nat
      <4>1. wanted \in [RecordIds -> Nat]
        BY DEF Quantities
      <4> QED BY <4>1, AllocatedFacts
    <3> QED BY <1>1, <2>1, <3>1, <3>2 DEF RowKept, Rows
  <2>2. CASE s # r
    <3>1. AllocatedOf(s)' = AllocatedOf(s) /\ RowKept(s)
      BY <1>2, <2>2 DEF AllocatedOf, StockInv
    <3> QED BY <1>1, <3>1 DEF RowKept, Rows
  <2> QED BY <2>1, <2>2
<1> QED BY <1>1, <1>2, <1>3, AllocationSteps

ProvOf(pb) == SumOf([p \in Parts |-> SumOf(pb[p], Makers)], Parts)

(* What a Build's provenance adds up to is a number, at least any entry.   *)
LEMMA ProvFacts ==
  ASSUME NEW pb \in [Parts -> [Makers -> Nat]]
  PROVE  /\ \A p \in Parts : SumOf(pb[p], Makers) \in Nat
         /\ ProvOf(pb) \in Nat
         /\ \A p \in Parts, m \in Makers : pb[p][m] <= ProvOf(pb)
<1> DEFINE f == [p \in Parts |-> SumOf(pb[p], Makers)]
<1>1. ASSUME NEW p \in Parts
      PROVE  f[p] \in Nat /\ SumOf(pb[p], Makers) \in Nat /\ \A m \in Makers : pb[p][m] <= f[p]
  BY StockAssumption, SumNat
<1>2. ProvOf(pb) = SumOf(f, Parts)
  BY DEF ProvOf
<1> HIDE DEF f
<1>3. ProvOf(pb) \in Nat /\ \A p \in Parts : f[p] <= ProvOf(pb)
  BY <1>1, <1>2, StockAssumption, SumNat
<1> QED BY <1>1, <1>3

(* The provenance of a Build after one entry changed.                      *)
LEMMA ProvChanged ==
  ASSUME NEW pb \in [Parts -> [Makers -> Nat]], NEW pn \in [Parts -> [Makers -> Nat]],
         NEW p \in Parts, NEW m \in Makers,
         \A x \in Parts, y \in Makers : x # p \/ y # m => pn[x][y] = pb[x][y]
  PROVE  ProvOf(pn) = ProvOf(pb) - pb[p][m] + pn[p][m]
<1> DEFINE f == [x \in Parts |-> SumOf(pb[x], Makers)]
           g == [x \in Parts |-> SumOf(pn[x], Makers)]
<1>0. IsFiniteSet(Makers) /\ IsFiniteSet(Parts)
  BY StockAssumption
<1>1. \A x \in Parts : x # p => pn[x] = pb[x]
  OBVIOUS
<1>2. \A x \in Parts : f[x] \in Int /\ g[x] \in Int /\ (x # p => g[x] = f[x])
  BY <1>1, ProvFacts
<1>3. g[p] = f[p] - pb[p][m] + pn[p][m]
  <2> DEFINE old == pb[p]
             new == pn[p]
  <2>1. \A y \in Makers : old[y] \in Int /\ new[y] \in Int /\ (y # m => new[y] = old[y])
    OBVIOUS
  <2>2. f[p] = SumOf(old, Makers) /\ g[p] = SumOf(new, Makers)
    OBVIOUS
  <2>3. old[m] = pb[p][m] /\ new[m] = pn[p][m]
    OBVIOUS
  <2> HIDE DEF old, new, f, g
  <2>4. SumOf(new, Makers) = SumOf(old, Makers) - old[m] + new[m]
    BY <1>0, <2>1, SumChanged
  <2> QED BY <2>2, <2>3, <2>4
<1>4. ProvOf(pb) = SumOf(f, Parts) /\ ProvOf(pn) = SumOf(g, Parts)
  BY DEF ProvOf
<1> HIDE DEF f, g
<1>5. SumOf(g, Parts) = SumOf(f, Parts) - f[p] + g[p]
  <2>1. IsFiniteSet(Parts)
    BY <1>0
  <2> QED BY <1>2, <2>1, SumChanged
<1>6. SumOf(f, Parts) \in Int /\ f[p] \in Int /\ pb[p][m] \in Int /\ pn[p][m] \in Int
  BY <1>0, <1>2, SumInt
<1> QED BY <1>3, <1>4, <1>5, <1>6

(* ProvenanceComplete, by the name of what the provenance adds up to.      *)
LEMMA ProvNames ==
  /\ ProvenanceComplete <=> \A b \in Builds : PulledBy(RowsOf(b)) = ProvOf(prov[b])
  /\ ProvenanceComplete' <=> \A b \in Builds : PulledBy(RowsOf(b))' = ProvOf(prov'[b])
  BY DEF ProvenanceComplete, ProvOf

-----------------------------------------------------------------------------
(* Pulling                                                                 *)

(* ApplyPull preserves the invariant and moves loose pieces into the       *)
(* Build.                                                                  *)
LEMMA PullKept ==
  ASSUME StockInv, NEW r \in Rows, NEW i \in DOMAIN record, NEW q \in Some, ApplyPull(r, i, q)
  PROVE  StockInv' /\ Missing' = Missing /\ Loose' + Built' = Loose + Built
         /\ Loose' \in Nat /\ Built' \in Nat
<1> DEFINE b == BuildOf[r]
           p == record[i].id.part
           m == record[i].id.maker
           more == req[r].pulled + q
           less == alloc[r][i] - q
           total == prov[b][p][m] + q
           new == [orig |-> req[r].orig, part |-> req[r].part, need |-> req[r].need,
                   pulled |-> more, spare |-> req[r].spare]
<1>1. /\ q \in Nat /\ q <= alloc[r][i] /\ q <= record[i].qty /\ more <= req[r].need
      /\ record' = [record EXCEPT ![i].qty = record[i].qty - q]
      /\ UNCHANGED lost
  BY DEF ApplyPull, Some
<1>2. /\ r \in Reqs /\ b \in Builds /\ req[r] \in Requirements /\ req[r] # None
      /\ req[r].pulled \in Nat /\ req[r].need \in Nat /\ req[r].need <= MaxPieces
  BY RowFacts DEF StockInv, Rows
<1>3. p \in Parts /\ m \in Makers /\ i \in RecordIds /\ prov[b] \in [Parts -> [Makers -> Nat]]
      /\ prov[b][p][m] \in Nat
  BY <1>2, RecordFacts DEF StockInv, Typed
<1>4. record' \in Recs /\ Fits(record)' /\ Loose' = Loose - q /\ Loose' \in Nat
  BY <1>1, Taken
<1>5. /\ req' = [req EXCEPT ![r] = new] /\ new \in Requirements
      /\ new.pulled = more /\ new.need = req[r].need /\ new # None
  <2>1. req' = [req EXCEPT ![r] = [req[r] EXCEPT !.pulled = more]]
    BY <1>2 DEF ApplyPull, StockInv, Typed
  <2>2. [req[r] EXCEPT !.pulled = more] = new
    BY <1>2 DEF Requirements
  <2>3. new \in Requirements
    BY <1>1, <1>2, StockAssumption DEF Requirements, Quantities
  <2> QED BY <2>1, <2>2, <2>3, StockAssumption
<1> HIDE DEF new
<1>6. PiecesIn(req[r]) = req[r].pulled /\ PiecesIn(new) = req[r].pulled + q
  BY <1>2, <1>5 DEF PiecesIn
<1>7. Loose \in Nat /\ Built \in Nat /\ Missing \in Nat
  BY TotalFacts DEF StockInv
<1>8. \A c : PulledBy(RowsOf(c)) \in Nat
  BY PulledFacts DEF StockInv, RowsOf
<1>9. /\ req' \in [Reqs -> Requirements \cup {None}]
      /\ Built' = Built + q
      /\ PulledBy(RowsOf(b))' = PulledBy(RowsOf(b)) + q
      /\ \A c : c # b => PulledBy(RowsOf(c))' = PulledBy(RowsOf(c))
  <2>1. /\ req' \in [Reqs -> Requirements \cup {None}]
        /\ Built' = Built - PiecesIn(req[r]) + PiecesIn(new)
        /\ PulledBy(RowsOf(b))' = PulledBy(RowsOf(b)) - PiecesIn(req[r]) + PiecesIn(new)
        /\ \A c : c # b => PulledBy(RowsOf(c))' = PulledBy(RowsOf(c))
    BY <1>2, <1>5, RowReplaced DEF StockInv
  <2> QED BY <1>1, <1>2, <1>6, <1>7, <1>8, <2>1
<1>10. /\ alloc' \in [Reqs -> [RecordIds -> Quantities]]
       /\ alloc'[r][i] = alloc[r][i] - q
       /\ \A j \in RecordIds : j # i => alloc'[r][j] = alloc[r][j]
       /\ \A s \in Reqs : s # r => alloc'[s] = alloc[s]
  <2>1. alloc \in [Reqs -> [RecordIds -> Quantities]] /\ less \in Quantities
    BY <1>1, <1>2, <1>3, StockAssumption DEF StockInv, Typed, Quantities
  <2>2. alloc' = [alloc EXCEPT ![r] = [alloc[r] EXCEPT ![i] = less]]
    BY <1>2, <1>3, <2>1 DEF ApplyPull
  <2> QED BY <1>2, <1>3, <2>1, <2>2
<1>11. /\ prov' \in [Builds -> [Parts -> [Makers -> Nat]]]
       /\ prov'[b][p][m] = prov[b][p][m] + q
       /\ \A x \in Parts, y \in Makers : x # p \/ y # m => prov'[b][x][y] = prov[b][x][y]
       /\ \A c \in Builds : c # b => prov'[c] = prov[c]
  <2>1. prov \in [Builds -> [Parts -> [Makers -> Nat]]] /\ total \in Nat
    BY <1>1, <1>3 DEF StockInv, Typed
  <2>2. prov' = [prov EXCEPT ![b] = [prov[b] EXCEPT ![p] = [prov[b][p] EXCEPT ![m] = total]]]
    BY <1>2, <1>3, <2>1 DEF ApplyPull, RecordPulledManufacturer
  <2> DEFINE pm == [prov[b][p] EXCEPT ![m] = total]
             pp == [prov[b] EXCEPT ![p] = pm]
  <2>3. pm \in [Makers -> Nat] /\ pm[m] = total
        /\ \A y \in Makers : y # m => pm[y] = prov[b][p][y]
    BY <1>2, <1>3, <2>1
  <2> HIDE DEF pm
  <2>4. pp \in [Parts -> [Makers -> Nat]] /\ pp[p] = pm
        /\ \A x \in Parts : x # p => pp[x] = prov[b][x]
    BY <1>2, <1>3, <2>1, <2>3
  <2>5. prov' = [prov EXCEPT ![b] = pp]
    BY <2>2 DEF pm
  <2> HIDE DEF pp
  <2> QED BY <1>2, <1>3, <2>1, <2>3, <2>4, <2>5
<1>12. Typed'
  BY <1>1, <1>4, <1>9, <1>10, <1>11 DEF StockInv, Typed
<1>13. Missing' = Missing
  BY <1>1 DEF Missing
<1>14. Owned' <= MaxPieces
  BY <1>1, <1>4, <1>7, <1>9, <1>13, StockAssumption DEF StockInv, Owned
<1>15. ASSUME NEW s \in Reqs PROVE RowKept(s)'
  <2>1. CASE s = r
    <3> DEFINE f == alloc[r]
               g == alloc'[r]
    <3>1. f \in [RecordIds -> Nat] /\ g \in [RecordIds -> Nat]
      BY <1>2, <1>10 DEF StockInv, Typed, Quantities
    <3>2. \A j \in RecordIds : f[j] \in Int /\ g[j] \in Int /\ (j # i => g[j] = f[j])
      BY <1>10, <3>1
    <3>3. AllocatedOf(r) = SumOf(f, RecordIds) /\ AllocatedOf(r)' = SumOf(g, RecordIds)
      BY DEF AllocatedOf
    <3>4. g[i] = f[i] - q /\ f[i] \in Int
      BY <1>3, <1>10, <3>2
    <3> HIDE DEF f, g
    <3>5. IsFiniteSet(RecordIds) /\ SumOf(f, RecordIds) \in Nat
      BY <3>1, AllocatedFacts
    <3>6. IsFiniteSet(RecordIds)
      BY <3>5
    <3>7. SumOf(g, RecordIds) = SumOf(f, RecordIds) - f[i] + g[i]
      <4>1. i \in RecordIds
        BY <1>3
      <4> QED BY <3>2, <3>6, <4>1, SumChanged
    <3>8. req[r].pulled + AllocatedOf(r) <= req[r].need
      BY <1>2 DEF StockInv, RowKept, Rows
    <3>9. req'[r] = new /\ r \in Rows'
      BY <1>2, <1>5, <1>9 DEF Rows, StockInv, Typed
    <3> QED BY <1>1, <1>2, <1>5, <2>1, <3>3, <3>4, <3>5, <3>7, <3>8, <3>9 DEF RowKept
  <2>2. CASE s # r
    <3>1. AllocatedOf(s)' = AllocatedOf(s) /\ RowKept(s)
      BY <1>10, <2>2 DEF AllocatedOf, StockInv
    <3>2. req'[s] = req[s]
      BY <1>5, <2>2 DEF StockInv, Typed
    <3> QED BY <3>1, <3>2 DEF RowKept, Rows
  <2> QED BY <2>1, <2>2
<1>16. ProvenanceComplete'
  <2>1. ProvOf(prov'[b]) = ProvOf(prov[b]) - prov[b][p][m] + prov'[b][p][m]
    <3> DEFINE pb == prov[b]
               pn == prov'[b]
    <3>1. pb \in [Parts -> [Makers -> Nat]] /\ pn \in [Parts -> [Makers -> Nat]]
      BY <1>2, <1>3, <1>11
    <3>2. \A x \in Parts, y \in Makers : x # p \/ y # m => pn[x][y] = pb[x][y]
      BY <1>11
    <3> HIDE DEF pb, pn, p, m
    <3>3. ProvOf(pn) = ProvOf(pb) - pb[p][m] + pn[p][m]
      BY <1>3, <3>1, <3>2, ProvChanged
    <3> QED BY <3>3 DEF pb, pn
  <2>2. ProvOf(prov[b]) \in Nat
    BY <1>3, ProvFacts
  <2>3. \A c \in Builds : PulledBy(RowsOf(c)) = ProvOf(prov[c])
    BY ProvNames DEF StockInv
  <2>4. ASSUME NEW c \in Builds PROVE PulledBy(RowsOf(c))' = ProvOf(prov'[c])
    <3>1. CASE c = b
      BY <1>1, <1>2, <1>3, <1>9, <1>11, <2>1, <2>2, <2>3, <3>1
    <3>2. CASE c # b
      BY <1>9, <1>11, <2>3, <3>2
    <3> QED BY <3>1, <3>2
  <2> QED BY <2>4, ProvNames
<1>17. Loose' + Built' = Loose + Built /\ Built' \in Nat
  BY <1>1, <1>4, <1>7, <1>9
<1> QED BY <1>4, <1>12, <1>13, <1>14, <1>15, <1>16, <1>17 DEF StockInv

-----------------------------------------------------------------------------
(* Allocating what is available                                            *)

(* The lesser of two numbers.                                              *)
LEMMA MinFacts ==
  ASSUME NEW x \in Int, NEW y \in Int
  PROVE  Min({x, y}) \in {x, y} /\ Min({x, y}) <= x /\ Min({x, y}) <= y
<1> DEFINE S == {x, y}
<1>1. \E z \in S : \A w \in S : z =< w
  <2>1. CASE x <= y
    BY <2>1
  <2>2. CASE ~(x <= y)
    BY <2>2
  <2> QED BY <2>1, <2>2
<1>2. Min(S) = CHOOSE z \in S : \A w \in S : z =< w
  BY DEF Min
<1>3. Min(S) \in S /\ \A w \in S : Min(S) =< w
  <2> HIDE DEF S
  <2> QED BY <1>1, <1>2
<1> QED BY <1>3

(* The greatest of some numbers up to n is one of them.                    *)
LEMMA MaxIn ==
  ASSUME NEW n \in Nat, NEW s \in SUBSET (1 .. n), s # {}
  PROVE  Max(s) \in s
<1> DEFINE D == 1 .. n
           G == {T \in SUBSET D : T # {} => \E x \in T : \A y \in T : x >= y}
<1>0. IsFiniteSet(D)
  BY FS_Interval
<1>1. ASSUME NEW T \in SUBSET D, \A U \in SUBSET T : U # T => U \in G
      PROVE  T \in G
  <2> SUFFICES ASSUME NEW x \in T PROVE \E z \in T : \A y \in T : z >= y
    OBVIOUS
  <2> DEFINE U == T \ {x}
  <2>1. U \in G
    BY <1>1
  <2>2. CASE U = {}
    BY <2>2
  <2>3. CASE U # {}
    <3>1. PICK z \in U : \A y \in U : z >= y
      BY <2>1, <2>3
    <3>2. CASE x >= z
      BY <3>1, <3>2
    <3>3. CASE ~(x >= z)
      BY <3>1, <3>3
    <3> QED BY <3>2, <3>3
  <2> QED BY <2>2, <2>3
<1>2. SUBSET D \subseteq G
  <2> HIDE DEF G, D
  <2> QED BY <1>0, <1>1, SubsetInduction
<1>3. \E x \in s : \A y \in s : x >= y
  BY <1>2
<1> QED BY <1>3 DEF Max

KeptIn(a, r) == IF r \in Rows THEN req[r].pulled + SumOf(a[r], RecordIds) <= req[r].need
                ELSE SumOf(a[r], RecordIds) = 0

(* Allocations that leave every row within its need and add to a record    *)
(* only what it holds.                                                     *)
Allocs == {a \in [Reqs -> [RecordIds -> Quantities]] :
             /\ \A r \in Reqs : KeptIn(a, r)
             /\ \A i \in DOMAIN record : ReservedIn(a, i) > AllocatedFrom(i)
                                         => ReservedIn(a, i) <= record[i].qty}

(* The present allocations are such allocations.                           *)
LEMMA AllocIn == ASSUME StockInv PROVE alloc \in Allocs
<1>1. \A r \in Reqs : KeptIn(alloc, r)
  BY DEF StockInv, RowKept, KeptIn, AllocatedOf
<1>2. \A i \in DOMAIN record : AllocatedFrom(i) = ReservedIn(alloc, i)
                               /\ ReservedIn(alloc, i) \in Nat
  <2>1. alloc \in [Reqs -> [RecordIds -> Nat]]
    BY DEF StockInv, Typed, Quantities
  <2> QED BY <2>1, RecordFacts, ReservedFacts DEF AllocatedFrom, StockInv
<1>3. alloc \in [Reqs -> [RecordIds -> Quantities]]
  BY DEF StockInv, Typed
<1>4. \A i \in DOMAIN record : ~(ReservedIn(alloc, i) > AllocatedFrom(i))
  BY <1>2
<1> QED BY <1>1, <1>3, <1>4 DEF Allocs

(* Reserving more, or less, of one record for one row.                     *)
LEMMA ReservedChanged ==
  ASSUME NEW a \in [Reqs -> [RecordIds -> Nat]], NEW c \in [Reqs -> [RecordIds -> Nat]],
         NEW r \in Reqs, NEW i \in RecordIds,
         \A s \in Reqs, j \in RecordIds : s # r \/ j # i => c[s][j] = a[s][j]
  PROVE  /\ SumOf(c[r], RecordIds) = SumOf(a[r], RecordIds) - a[r][i] + c[r][i]
         /\ \A s \in Reqs \ {r} : c[s] = a[s]
         /\ ReservedIn(c, i) = ReservedIn(a, i) - a[r][i] + c[r][i]
         /\ \A j \in RecordIds \ {i} : ReservedIn(c, j) = ReservedIn(a, j)
<1>1. \A s \in Reqs \ {r} : c[s] = a[s]
  OBVIOUS
<1>2. SumOf(c[r], RecordIds) = SumOf(a[r], RecordIds) - a[r][i] + c[r][i]
  <2> DEFINE f == a[r]
             g == c[r]
  <2>1. \A j \in RecordIds : f[j] \in Int /\ g[j] \in Int /\ (j # i => g[j] = f[j])
    OBVIOUS
  <2>2. IsFiniteSet(RecordIds)
    <3>1. f \in [RecordIds -> Nat]
      OBVIOUS
    <3> QED BY <3>1, AllocatedFacts
  <2> HIDE DEF f, g
  <2>3. SumOf(g, RecordIds) = SumOf(f, RecordIds) - f[i] + g[i]
    BY <2>1, <2>2, SumChanged
  <2> QED BY <2>3 DEF f, g
<1>3. ASSUME NEW j \in RecordIds
      PROVE  ReservedIn(c, j) = ReservedIn(a, j) - a[r][j] + c[r][j]
  <2> DEFINE f == [s \in Reqs |-> a[s][j]]
             g == [s \in Reqs |-> c[s][j]]
  <2>1. \A s \in Reqs : f[s] \in Int /\ g[s] \in Int /\ (s # r => g[s] = f[s])
    OBVIOUS
  <2>2. IsFiniteSet(Reqs)
    BY StockAssumption
  <2>3. ReservedIn(c, j) = SumOf(g, Reqs) /\ ReservedIn(a, j) = SumOf(f, Reqs)
    BY DEF ReservedIn
  <2>4. f[r] = a[r][j] /\ g[r] = c[r][j]
    OBVIOUS
  <2> HIDE DEF f, g
  <2>5. SumOf(g, Reqs) = SumOf(f, Reqs) - f[r] + g[r]
    BY <2>1, <2>2, SumChanged
  <2> QED BY <2>3, <2>4, <2>5
<1>4. ASSUME NEW j \in RecordIds \ {i}
      PROVE  ReservedIn(c, j) = ReservedIn(a, j)
  <2>1. c[r][j] = a[r][j] /\ a[r][j] \in Int
    OBVIOUS
  <2>2. ReservedIn(a, j) \in Nat
    BY ReservedFacts
  <2> QED BY <1>3, <2>1, <2>2
<1> QED BY <1>1, <1>2, <1>3, <1>4

(* One row taking what it lacks from one record.                           *)
LEMMA TakeFromIn ==
  ASSUME StockInv, NEW a \in Allocs, NEW r \in Rows, NEW i \in DOMAIN record
  PROVE  TakeFrom(a, r, i) \in Allocs
<1> DEFINE lacks == req[r].need - req[r].pulled - SumOf(a[r], RecordIds)
           room == record[i].qty - ReservedIn(a, i)
           more == Min({lacks, room})
           n == a[r][i] + more
           c == [a EXCEPT ![r][i] = n]
<1>1. TakeFrom(a, r, i) = IF Matches(r, i) /\ lacks > 0 /\ room > 0 THEN c ELSE a
  BY DEF TakeFrom
<1> SUFFICES ASSUME lacks > 0, room > 0 PROVE c \in Allocs
  BY <1>1
<1>2. /\ r \in Reqs /\ i \in RecordIds /\ record[i].qty \in Nat
      /\ req[r].need \in Nat /\ req[r].pulled \in Nat /\ req[r].need <= MaxPieces
  BY RowFacts, RecordFacts DEF StockInv
<1>3. /\ a \in [Reqs -> [RecordIds -> Quantities]] /\ a \in [Reqs -> [RecordIds -> Nat]]
      /\ \A s \in Reqs : KeptIn(a, s)
      /\ \A j \in DOMAIN record : ReservedIn(a, j) > AllocatedFrom(j)
                                  => ReservedIn(a, j) <= record[j].qty
  BY DEF Allocs, Quantities
<1>4. /\ a[r][i] \in Nat /\ SumOf(a[r], RecordIds) \in Nat
      /\ a[r][i] <= SumOf(a[r], RecordIds)
  BY <1>2, <1>3, AllocatedFacts
<1>5. ReservedIn(a, i) \in Nat
  BY <1>2, <1>3, ReservedFacts
<1>6. more \in Nat /\ more <= lacks /\ more <= room
  <2>1. lacks \in Int /\ room \in Int
    BY <1>2, <1>4, <1>5
  <2> HIDE DEF lacks, room
  <2>2. more \in {lacks, room} /\ more <= lacks /\ more <= room
    BY <2>1, MinFacts
  <2> QED BY <2>1, <2>2
<1> HIDE DEF more
<1>7. n \in Nat /\ n <= MaxPieces /\ n \in Quantities
  BY <1>2, <1>4, <1>6, StockAssumption DEF Quantities
<1>8. /\ c \in [Reqs -> [RecordIds -> Quantities]]
      /\ c[r][i] = n /\ \A s \in Reqs, j \in RecordIds : s # r \/ j # i => c[s][j] = a[s][j]
  <2>1. c = [a EXCEPT ![r] = [a[r] EXCEPT ![i] = n]]
    BY <1>2, <1>3
  <2> DEFINE x == [a[r] EXCEPT ![i] = n]
  <2>2. x \in [RecordIds -> Quantities] /\ x[i] = n
        /\ \A j \in RecordIds : j # i => x[j] = a[r][j]
    BY <1>2, <1>3, <1>7
  <2> HIDE DEF x, c
  <2>3. c = [a EXCEPT ![r] = x]
    BY <2>1 DEF x
  <2> QED BY <1>2, <1>3, <2>2, <2>3
<1> HIDE DEF c
<1>9. c \in [Reqs -> [RecordIds -> Nat]]
  BY <1>8 DEF Quantities
<1>10. /\ SumOf(c[r], RecordIds) = SumOf(a[r], RecordIds) - a[r][i] + c[r][i]
       /\ \A s \in Reqs \ {r} : c[s] = a[s]
       /\ ReservedIn(c, i) = ReservedIn(a, i) - a[r][i] + c[r][i]
       /\ \A j \in RecordIds \ {i} : ReservedIn(c, j) = ReservedIn(a, j)
  BY <1>2, <1>3, <1>8, <1>9, ReservedChanged
<1>11. ASSUME NEW s \in Reqs PROVE KeptIn(c, s)
  <2>1. CASE s = r
    <3>1. SumOf(c[r], RecordIds) = SumOf(a[r], RecordIds) + more
      BY <1>4, <1>6, <1>8, <1>10
    <3>2. req[r].pulled + SumOf(c[r], RecordIds) <= req[r].need
      BY <1>2, <1>4, <1>6, <3>1
    <3> QED BY <2>1, <3>2 DEF KeptIn
  <2>2. CASE s # r
    BY <1>3, <1>10, <2>2 DEF KeptIn
  <2> QED BY <2>1, <2>2
<1>12. ASSUME NEW j \in DOMAIN record, ReservedIn(c, j) > AllocatedFrom(j)
       PROVE  ReservedIn(c, j) <= record[j].qty
  <2>1. CASE j = i
    <3>1. ReservedIn(c, i) = ReservedIn(a, i) + more
      BY <1>4, <1>5, <1>6, <1>8, <1>10
    <3> QED BY <1>2, <1>5, <1>6, <2>1, <3>1
  <2>2. CASE j # i
    <3>1. j \in RecordIds
      BY RecordFacts DEF StockInv
    <3> QED BY <1>3, <1>10, <1>12, <2>2, <3>1
  <2> QED BY <2>1, <2>2
<1> QED BY <1>8, <1>11, <1>12 DEF Allocs

(* FoldLeft takes the last index first, and there always is one.           *)
LEMMA MaxPicks ==
  ASSUME NEW n \in Nat
  PROVE  /\ IsFiniteSet(1 .. n)
         /\ \A s \in SUBSET (1 .. n) : s # {} => Max(s) \in s
<1>1. IsFiniteSet(1 .. n)
  BY FS_Interval
<1> QED BY <1>1, MaxIn

(* One row taking from the records in turn.                                *)
LEMMA TakeAllIn ==
  ASSUME StockInv, NEW a \in Allocs, NEW r \in Rows, NEW n \in Nat,
         NEW seq \in [1 .. n -> DOMAIN record]
  PROVE  TakeAll(a, r, seq) \in Allocs
<1> DEFINE D == 1 .. n
           V == Allocs
           pick == [s \in SUBSET D |-> Max(s)]
           step == [xv \in D \X V |-> TakeFrom(xv[2], r, seq[xv[1]])]
           Iter(i) == i = [s \in SUBSET D |-> IF s = {} THEN a
                             ELSE TakeFrom(i[s \ {Max(s)}], r, seq[Max(s)])]
           it == CHOOSE i : Iter(i)
<1>1. IsFiniteSet(D) /\ \A s \in SUBSET D : s # {} => Max(s) \in s
  BY MaxPicks
<1>2. TakeAll(a, r, seq) = IF req[r].spare THEN a ELSE it[D]
  <2>1. DOMAIN seq = D
    OBVIOUS
  <2> QED BY <2>1 DEF TakeAll, FoldLeft, MapThenFoldSet
<1>3. ASSUME NEW x \in D, NEW v \in V PROVE TakeFrom(v, r, seq[x]) \in V
  BY TakeFromIn
<1> HIDE DEF V
<1>4. step \in [D \X V -> V] /\ a \in V
  BY <1>3 DEF V
<1>5. \A s \in SUBSET D : s # {} => pick[s] \in s
  BY <1>1
<1>6. PICK h \in [SUBSET D -> V] : Folds(h, D, a, step, pick)
  <2> HIDE DEF D, step, pick
  <2> QED BY <1>1, <1>4, <1>5, FoldExists
<1>7. Iter(h)
  <2> SUFFICES ASSUME NEW s \in SUBSET D
               PROVE  h[s] = IF s = {} THEN a ELSE TakeFrom(h[s \ {Max(s)}], r, seq[Max(s)])
    BY <1>6
  <2>1. CASE s = {}
    BY <1>6, <2>1 DEF Folds
  <2>2. CASE s # {}
    <3> DEFINE x == Max(s)
               v == h[s \ {x}]
    <3>1. h[s] = step[<<x, v>>]
      BY <1>6, <2>2 DEF Folds
    <3>2. v \in V /\ x \in D
      BY <1>1, <1>6, <2>2
    <3> HIDE DEF x, v
    <3>3. step[<<x, v>>] = TakeFrom(v, r, seq[x])
      BY <3>2
    <3> QED BY <2>2, <3>1, <3>3 DEF x, v
  <2> QED BY <2>1, <2>2
<1>8. Iter(it)
  BY <1>7
<1> HIDE DEF it
<1> DEFINE G == {s \in SUBSET D : it[s] \in V}
<1>9. ASSUME NEW T \in SUBSET D, \A U \in SUBSET T : U # T => U \in G
      PROVE  T \in G
  <2>1. CASE T = {}
    BY <1>4, <1>8, <2>1
  <2>2. CASE T # {}
    <3>1. Max(T) \in D /\ it[T \ {Max(T)}] \in V
      BY <1>1, <1>9, <2>2
    <3>2. it[T] = TakeFrom(it[T \ {Max(T)}], r, seq[Max(T)])
      BY <1>8, <2>2
    <3> QED BY <1>3, <3>1, <3>2
  <2> QED BY <2>1, <2>2
<1>10. SUBSET D \subseteq G
  <2> HIDE DEF D, G
  <2> QED BY <1>1, <1>9, SubsetInduction
<1> QED BY <1>2, <1>10 DEF V

(* The rows in turn, each from the records in turn.                        *)
LEMMA AllTakenIn ==
  ASSUME StockInv, NEW k \in Nat, NEW rows \in [1 .. k -> Rows],
         NEW n \in Nat, NEW records \in [1 .. n -> DOMAIN record]
  PROVE  FoldLeft(LAMBDA a, r : TakeAll(a, r, records), alloc, rows) \in Allocs
<1> DEFINE D == 1 .. k
           V == Allocs
           base == alloc
           pick == [s \in SUBSET D |-> Max(s)]
           step == [xv \in D \X V |-> TakeAll(xv[2], rows[xv[1]], records)]
           Iter(i) == i = [s \in SUBSET D |-> IF s = {} THEN base
                             ELSE TakeAll(i[s \ {Max(s)}], rows[Max(s)], records)]
           it == CHOOSE i : Iter(i)
<1>1. IsFiniteSet(D) /\ \A s \in SUBSET D : s # {} => Max(s) \in s
  BY MaxPicks
<1>2. FoldLeft(LAMBDA a, r : TakeAll(a, r, records), alloc, rows) = it[D]
  <2>1. DOMAIN rows = D
    OBVIOUS
  <2> QED BY <2>1 DEF FoldLeft, MapThenFoldSet
<1>3. ASSUME NEW x \in D, NEW v \in V PROVE TakeAll(v, rows[x], records) \in V
  BY TakeAllIn
<1> HIDE DEF V
<1>4. step \in [D \X V -> V] /\ base \in V
  BY <1>3, AllocIn DEF V
<1>5. \A s \in SUBSET D : s # {} => pick[s] \in s
  BY <1>1
<1>6. PICK h \in [SUBSET D -> V] : Folds(h, D, base, step, pick)
  <2> HIDE DEF D, step, pick, base
  <2> QED BY <1>1, <1>4, <1>5, FoldExists
<1>7. Iter(h)
  <2> SUFFICES ASSUME NEW s \in SUBSET D
               PROVE  h[s] = IF s = {} THEN base
                             ELSE TakeAll(h[s \ {Max(s)}], rows[Max(s)], records)
    BY <1>6
  <2>1. CASE s = {}
    BY <1>6, <2>1 DEF Folds
  <2>2. CASE s # {}
    <3> DEFINE x == Max(s)
               v == h[s \ {x}]
    <3>1. h[s] = step[<<x, v>>]
      BY <1>6, <2>2 DEF Folds
    <3>2. v \in V /\ x \in D
      BY <1>1, <1>6, <2>2
    <3> HIDE DEF x, v
    <3>3. step[<<x, v>>] = TakeAll(v, rows[x], records)
      BY <3>2
    <3> QED BY <2>2, <3>1, <3>3 DEF x, v
  <2> QED BY <2>1, <2>2
<1>8. Iter(it)
  BY <1>7
<1> HIDE DEF it, base
<1> DEFINE G == {s \in SUBSET D : it[s] \in V}
<1>9. ASSUME NEW T \in SUBSET D, \A U \in SUBSET T : U # T => U \in G
      PROVE  T \in G
  <2>1. CASE T = {}
    BY <1>4, <1>8, <2>1
  <2>2. CASE T # {}
    <3>1. Max(T) \in D /\ it[T \ {Max(T)}] \in V
      BY <1>1, <1>9, <2>2
    <3>2. it[T] = TakeAll(it[T \ {Max(T)}], rows[Max(T)], records)
      BY <1>8, <2>2
    <3> QED BY <1>3, <3>1, <3>2
  <2> QED BY <2>1, <2>2
<1>10. SUBSET D \subseteq G
  <2> HIDE DEF D, G
  <2> QED BY <1>1, <1>9, SubsetInduction
<1> QED BY <1>2, <1>10 DEF V

(* The sequences SetToSeqs lists are functions on 1 .. n.                  *)
LEMMA SequencesOf ==
  ASSUME NEW S, IsFiniteSet(S), NEW seq \in SetToSeqs(S)
  PROVE  \E n \in Nat : seq \in [1 .. n -> S]
<1>1. Cardinality(S) \in Nat
  BY FS_CardinalityType
<1> QED BY <1>1 DEF SetToSeqs

(* AllocateAvailable preserves the invariant, in every order of rows and   *)
(* records.                                                                *)
LEMMA AllocateSteps ==
  ASSUME StockInv, NEW b \in Builds,
         NEW rows \in SetToSeqs(RowsOf(b)), NEW records \in SetToSeqs(DOMAIN record),
         AllocateAvailable(b, rows, records)
  PROVE  StockInv' /\ Built' = Built /\ UNCHANGED <<record, lost>> /\ alloc' \in Allocs
<1>1. alloc' = FoldLeft(LAMBDA a, r : TakeAll(a, r, records), alloc, rows)
      /\ UNCHANGED <<record, lost, req, prov>>
  BY DEF AllocateAvailable, inventory
<1>2. IsFiniteSet(RowsOf(b)) /\ IsFiniteSet(DOMAIN record)
  <2>1. RowsOf(b) \in SUBSET Rows
    BY DEF RowsOf
  <2> QED BY <2>1, PulledFacts, RecsFacts DEF StockInv, Typed
<1>3. PICK n \in Nat : records \in [1 .. n -> DOMAIN record]
  BY <1>2, SequencesOf
<1>4. PICK k \in Nat : rows \in [1 .. k -> Rows]
  <2>1. PICK k \in Nat : rows \in [1 .. k -> RowsOf(b)]
    BY <1>2, SequencesOf
  <2> QED BY <2>1 DEF RowsOf
<1>5. alloc' \in Allocs
  BY <1>1, <1>3, <1>4, AllTakenIn
<1>6. alloc' \in [Reqs -> [RecordIds -> Quantities]] /\ \A r \in Reqs : KeptIn(alloc', r)
  BY <1>5 DEF Allocs
<1>7. \A r \in Reqs : RowKept(r)'
  BY <1>1, <1>6 DEF KeptIn, RowKept, Rows, AllocatedOf
<1> QED BY <1>1, <1>5, <1>6, <1>7, AllocationSteps

-----------------------------------------------------------------------------
(* Returning pieces                                                        *)

Pairs == Parts \X Makers

(* Pieces put back, by part and maker: every piece is loose afterwards.    *)
LEMMA PutBackKept ==
  ASSUME StockInv, NEW b, NEW ret, NEW place \in Places, NEW ra,
         \A pm \in Pairs : ra[pm] \in Nat /\ ra[pm] = ReturnedAs(b, pm[1], pm[2], ret)
  PROVE  /\ PutBack(b, ret, place) \in Recs
         /\ LooseIn(PutBack(b, ret, place)) = Loose + SumOf(ra, Pairs)
<1> DEFINE V == Recs
           base == record
           Id(pm) == [part |-> pm[1], place |-> place, maker |-> pm[2]]
           PutOne(v, pm) == IF ReturnedAs(b, pm[1], pm[2], ret) = 0 THEN v
                            ELSE Put(v, Id(pm), ReturnedAs(b, pm[1], pm[2], ret))
           pick == [s \in SUBSET Pairs |-> CHOOSE x \in s : TRUE]
           step == [xv \in Pairs \X V |-> PutOne(xv[2], xv[1])]
           Iter(i) == i = [s \in SUBSET Pairs |-> IF s = {} THEN base
                             ELSE PutOne(i[s \ {CHOOSE x \in s : TRUE}], CHOOSE x \in s : TRUE)]
           it == CHOOSE i : Iter(i)
<1>1. IsFiniteSet(Pairs)
  BY StockAssumption, FS_Product DEF Pairs
<1>2. PutBack(b, ret, place) = it[Pairs]
  BY DEF PutBack, MapThenFoldSet, Pairs
<1>3. ASSUME NEW x \in Pairs, NEW v \in V
      PROVE  PutOne(v, x) \in V /\ LooseIn(PutOne(v, x)) = LooseIn(v) + ra[x]
  <2>1. Id(x) \in Ids
    BY DEF Pairs, Ids
  <2>2. LooseIn(v) \in Nat
    BY RecsFacts
  <2>3. ra[x] \in Nat /\ ra[x] = ReturnedAs(b, x[1], x[2], ret)
    OBVIOUS
  <2>4. CASE ra[x] = 0
    BY <2>2, <2>3, <2>4
  <2>5. CASE ra[x] # 0
    <3> DEFINE id == Id(x)
    <3> HIDE DEF id
    <3>1. PutOne(v, x) = Put(v, id, ra[x])
      BY <2>3, <2>5 DEF id
    <3>2. id \in Ids
      BY <2>1 DEF id
    <3> QED BY <2>3, <3>1, <3>2, Joined
  <2> QED BY <2>4, <2>5
<1> HIDE DEF V, PutOne
<1>4. step \in [Pairs \X V -> V] /\ base \in V
  BY <1>3 DEF V, StockInv, Typed
<1>5. \A s \in SUBSET Pairs : s # {} => pick[s] \in s
  OBVIOUS
<1>6. PICK h \in [SUBSET Pairs -> V] : Folds(h, Pairs, base, step, pick)
  <2> HIDE DEF step, pick, base
  <2> QED BY <1>1, <1>4, <1>5, FoldExists
<1>7. Iter(h)
  <2> SUFFICES ASSUME NEW s \in SUBSET Pairs
               PROVE  h[s] = IF s = {} THEN base
                             ELSE PutOne(h[s \ {CHOOSE x \in s : TRUE}], CHOOSE x \in s : TRUE)
    BY <1>6
  <2>1. CASE s = {}
    BY <1>6, <2>1 DEF Folds
  <2>2. CASE s # {}
    <3> DEFINE x == CHOOSE y \in s : TRUE
               v == h[s \ {x}]
    <3>1. h[s] = step[<<x, v>>]
      <4>1. pick[s] = x
        OBVIOUS
      <4> HIDE DEF x, step, pick
      <4> QED BY <1>6, <2>2, <4>1 DEF Folds
    <3>2. v \in V /\ x \in Pairs
      BY <1>6, <2>2
    <3> HIDE DEF x, v
    <3>3. step[<<x, v>>] = PutOne(v, x)
      BY <3>2
    <3> QED BY <2>2, <3>1, <3>3 DEF x, v
  <2> QED BY <2>1, <2>2
<1>8. Iter(it)
  BY <1>7
<1> HIDE DEF it, base
<1> DEFINE G == {s \in SUBSET Pairs : it[s] \in V /\ LooseIn(it[s]) = LooseIn(base) + SumOf(ra, s)}
<1>9. ASSUME NEW T \in SUBSET Pairs, \A U \in SUBSET T : U # T => U \in G
      PROVE  T \in G
  <2>0. LooseIn(base) \in Nat
    BY <1>4, RecsFacts DEF V
  <2>1. CASE T = {}
    <3>1. it[T] = base /\ SumOf(ra, T) = 0
      BY <1>8, <2>1, SumEmpty
    <3> QED BY <1>4, <2>0, <3>1
  <2>2. CASE T # {}
    <3> DEFINE x == CHOOSE y \in T : TRUE
               U == T \ {x}
    <3>1. x \in T /\ x \in Pairs /\ U \in SUBSET T /\ U # T
      BY <2>2
    <3>2. it[T] = PutOne(it[U], x)
      BY <1>8, <2>2
    <3> HIDE DEF x
    <3>3. it[U] \in V /\ LooseIn(it[U]) = LooseIn(base) + SumOf(ra, U)
      BY <1>9, <3>1
    <3>4. it[T] \in V /\ LooseIn(it[T]) = LooseIn(it[U]) + ra[x]
      BY <1>3, <3>1, <3>2, <3>3
    <3>5. IsFiniteSet(T) /\ IsFiniteSet(U) /\ \A y \in T : ra[y] \in Int
      BY <1>1, FS_Subset
    <3>6. SumOf(ra, T) = ra[x] + SumOf(ra, U) /\ SumOf(ra, U) \in Int
      BY <3>1, <3>5, SumWithout, SumInt
    <3>7. ra[x] \in Nat
      BY <3>1
    <3> HIDE DEF U
    <3>8. LooseIn(it[T]) = LooseIn(base) + SumOf(ra, T)
      BY <2>0, <3>3, <3>4, <3>6, <3>7
    <3> QED BY <3>4, <3>8
  <2> QED BY <2>1, <2>2
<1>10. SUBSET Pairs \subseteq G
  <2> HIDE DEF G
  <2> QED BY <1>1, <1>9, SubsetInduction
<1> QED BY <1>2, <1>10 DEF V, base, Loose

(* What is returned, added up per row, is what is returned, added up per   *)
(* part and maker.                                                         *)
LEMMA ReturnedTwoWays ==
  ASSUME Typed, NEW b, NEW ret \in [RowsOf(b) \X Makers -> Nat], NEW ra, NEW back,
         \A pm \in Pairs : ra[pm] = ReturnedAs(b, pm[1], pm[2], ret),
         \A r \in RowsOf(b) : back[r] = ReturnedOf(r, ret)
  PROVE  /\ \A pm \in Pairs : ra[pm] \in Nat
         /\ \A r \in RowsOf(b) : back[r] \in Nat
         /\ SumOf(ra, Pairs) = SumOf(back, RowsOf(b))
         /\ SumOf(ra, Pairs) \in Nat
<1> DEFINE R == RowsOf(b)
           kind == [r \in R |-> req[r].part]
<1>0. IsFiniteSet(Makers) /\ IsFiniteSet(Parts) /\ IsFiniteSet(Pairs)
  BY StockAssumption, FS_Product DEF Pairs
<1>1. IsFiniteSet(R) /\ \A r \in R : r \in Rows
  BY PulledFacts DEF RowsOf
<1>2. \A x \in R \X Makers : ret[x] \in Int /\ ret[x] \in Nat
  OBVIOUS
<1>3. \A r \in R : kind[r] \in Parts
  BY <1>1, RowFacts
<1>4. ASSUME NEW k \in Parts, NEW m \in Makers
      PROVE  /\ ra[<<k, m>>] = Gathered(ret, Group(R, kind, k), m)
             /\ ra[<<k, m>>] \in Nat
  <2> DEFINE S == Group(R, kind, k)
             f == [r \in S |-> ret[<<r, m>>]]
  <2>1. S = {r \in RowsOf(b) : req[r].part = k}
    BY DEF Group
  <2>2. <<k, m>> \in Pairs /\ <<k, m>>[1] = k /\ <<k, m>>[2] = m
    BY DEF Pairs
  <2>3. ra[<<k, m>>] = ReturnedAs(b, k, m, ret)
    BY <2>2
  <2>4. ReturnedAs(b, k, m, ret) = SumOf(f, S) /\ Gathered(ret, S, m) = SumOf(f, S)
    BY <2>1 DEF ReturnedAs, Gathered
  <2>5. \A r \in S : f[r] \in Nat
    BY DEF Group
  <2>6. IsFiniteSet(S)
    <3>1. S \in SUBSET R
      BY DEF Group
    <3> HIDE DEF S, R
    <3> QED BY <1>1, <3>1, FS_Subset
  <2> HIDE DEF f, S
  <2>7. SumOf(f, S) \in Nat
    BY <2>5, <2>6, SumNat
  <2> QED BY <2>3, <2>4, <2>7 DEF S
<1>5. ASSUME NEW r \in R
      PROVE  back[r] = SumOf(Across(ret, r, Makers), Makers) /\ back[r] \in Nat
  <2> DEFINE f == Across(ret, r, Makers)
  <2>1. back[r] = SumOf(f, Makers)
    BY DEF ReturnedOf, Across
  <2>2. \A m \in Makers : f[m] \in Nat
    BY <1>2 DEF Across
  <2> HIDE DEF f
  <2>3. SumOf(f, Makers) \in Nat
    BY <1>0, <2>2, SumNat
  <2> QED BY <2>1, <2>3 DEF f
<1>6. SumOf(ra, Pairs) = SumOf(back, R)
  <2>1. IsFiniteSet(R)
    BY <1>1
  <2>2. IsFiniteSet(Parts)
    BY <1>0
  <2>3. IsFiniteSet(Makers)
    BY <1>0
  <2>4. TwoWays(R, Parts, Makers, ret, kind, back, ra)
    <3> HIDE DEF R, kind
    <3> QED BY <1>2, <1>3, <1>4, <1>5 DEF TwoWays
  <2> HIDE DEF R, kind
  <2>5. SumOf(ra, Parts \X Makers) = SumOf(back, R)
    BY <2>1, <2>2, <2>3, <2>4, SumTwoWays
  <2> QED BY <2>5 DEF Pairs, R
<1>7. ASSUME NEW pm \in Pairs PROVE ra[pm] \in Nat
  <2>1. pm = <<pm[1], pm[2]>> /\ pm[1] \in Parts /\ pm[2] \in Makers
    BY DEF Pairs
  <2> QED BY <1>4, <2>1
<1>8. SumOf(ra, Pairs) \in Nat
  BY <1>0, <1>7, SumNat
<1> QED BY <1>5, <1>6, <1>7, <1>8

(* What rows have pulled after each of them gave some back.                *)
LEMMA PulledReduced ==
  ASSUME NEW R, IsFiniteSet(R), NEW rq, NEW rn, NEW d,
         \A s \in R : rq[s].pulled \in Int /\ d[s] \in Int /\ rn[s].pulled = rq[s].pulled - d[s]
  PROVE  PulledIn(rn, R) = PulledIn(rq, R) - SumOf(d, R)
<1> DEFINE f == [s \in R |-> rq[s].pulled]
           g == [s \in R |-> rn[s].pulled]
<1>1. \A s \in R : f[s] \in Int /\ d[s] \in Int /\ g[s] = f[s] - d[s]
  OBVIOUS
<1>2. PulledIn(rq, R) = SumOf(f, R) /\ PulledIn(rn, R) = SumOf(g, R)
  BY DEF PulledIn
<1> HIDE DEF f, g
<1> QED BY <1>1, <1>2, SumMinus

(* The provenance of a Build after some of every entry was taken off.      *)
LEMMA ProvReduced ==
  ASSUME NEW pb \in [Parts -> [Makers -> Nat]], NEW pn, NEW ra,
         \A pm \in Pairs : ra[pm] \in Nat /\ ra[pm] <= pb[pm[1]][pm[2]],
         pn = [p \in Parts |-> [m \in Makers |-> pb[p][m] - ra[<<p, m>>]]]
  PROVE  pn \in [Parts -> [Makers -> Nat]] /\ ProvOf(pn) = ProvOf(pb) - SumOf(ra, Pairs)
<1> DEFINE h == [p \in Parts |-> SumOf(Across(ra, p, Makers), Makers)]
           f == [p \in Parts |-> SumOf(pb[p], Makers)]
           g == [p \in Parts |-> SumOf(pn[p], Makers)]
<1>0. IsFiniteSet(Parts) /\ IsFiniteSet(Makers)
  BY StockAssumption
<1>1. ASSUME NEW p \in Parts, NEW m \in Makers
      PROVE  /\ ra[<<p, m>>] \in Nat /\ pb[p][m] \in Nat
             /\ pn[p][m] = pb[p][m] - ra[<<p, m>>] /\ pn[p][m] \in Nat
  <2> DEFINE pm == <<p, m>>
  <2>1. pm \in Pairs /\ pm[1] = p /\ pm[2] = m
    BY DEF Pairs
  <2>2. pn[p][m] = pb[p][m] - ra[pm] /\ pb[p][m] \in Nat
    OBVIOUS
  <2> HIDE DEF pm
  <2>3. ra[pm] \in Nat /\ ra[pm] <= pb[p][m]
    BY <2>1
  <2>4. pb[p][m] - ra[pm] \in Nat
    BY <2>2, <2>3
  <2> QED BY <2>2, <2>3, <2>4 DEF pm
<1>2. pn \in [Parts -> [Makers -> Nat]]
  BY <1>1
<1>3. ASSUME NEW p \in Parts
      PROVE  f[p] \in Int /\ h[p] \in Int /\ g[p] = f[p] - h[p]
  <2> DEFINE x == pb[p]
             y == pn[p]
             z == Across(ra, p, Makers)
  <2>1. \A m \in Makers : x[m] \in Int /\ z[m] \in Int /\ y[m] = x[m] - z[m]
    BY <1>1 DEF Across
  <2>2. f[p] = SumOf(x, Makers) /\ g[p] = SumOf(y, Makers) /\ h[p] = SumOf(z, Makers)
    OBVIOUS
  <2> HIDE DEF x, y, z, f, g, h
  <2>3. IsFiniteSet(Makers)
    BY <1>0
  <2>4. SumOf(y, Makers) = SumOf(x, Makers) - SumOf(z, Makers)
    BY <2>1, <2>3, SumMinus
  <2>5. SumOf(x, Makers) \in Int /\ SumOf(z, Makers) \in Int
    BY <2>1, <2>3, SumInt
  <2> QED BY <2>2, <2>4, <2>5
<1>4. SumOf(h, Parts) = SumOf(ra, Parts \X Makers)
  <2>1. \A x \in Parts \X Makers : ra[x] \in Int
    BY DEF Pairs
  <2>2. \A p \in Parts : h[p] = SumOf(Across(ra, p, Makers), Makers)
    OBVIOUS
  <2> HIDE DEF h
  <2> QED BY <1>0, <2>1, <2>2, SumProduct
<1>5. ProvOf(pb) = SumOf(f, Parts) /\ ProvOf(pn) = SumOf(g, Parts)
  BY DEF ProvOf
<1> HIDE DEF f, g, h
<1>6. SumOf(g, Parts) = SumOf(f, Parts) - SumOf(h, Parts)
  BY <1>0, <1>3, SumMinus
<1> QED BY <1>2, <1>4, <1>5, <1>6 DEF Pairs

(* What returning pieces does to the tables and the totals.                *)
LEMMA ReturnKept ==
  ASSUME StockInv, NEW b \in Builds, NEW ret \in Returns(b), NEW place \in Places,
         ReturnPieces(b, ret, place)
  PROVE  /\ record' \in Recs /\ Fits(record)' /\ UNCHANGED lost
         /\ req' \in [Reqs -> Requirements \cup {None}]
         /\ prov' \in [Builds -> [Parts -> [Makers -> Nat]]]
         /\ Rows' = Rows
         /\ \A r \in Rows : req'[r].need = req[r].need /\ req'[r].pulled \in Nat
                            /\ req'[r].pulled <= req[r].pulled
         /\ ProvenanceComplete'
         /\ Missing' = Missing /\ Loose' + Built' = Loose + Built
         /\ Loose' \in Nat /\ Built' \in Nat
<1> DEFINE R == RowsOf(b)
           ra == [pm \in Pairs |-> ReturnedAs(b, pm[1], pm[2], ret)]
           back == [r \in R |-> ReturnedOf(r, ret)]
           n == SumOf(ra, Pairs)
           rn == req'
           rq == req
<1>0. Loose \in Nat /\ Built \in Nat /\ Typed
  BY TotalFacts DEF StockInv
<1>1. IsFiniteSet(R) /\ IsFiniteSet(Rows) /\ R \in SUBSET Rows
  <2>1. R \in SUBSET Rows /\ Rows \in SUBSET Rows
    BY DEF RowsOf
  <2> QED BY <1>0, <2>1, PulledFacts
<1>2. /\ \A pm \in Pairs : ra[pm] \in Nat
      /\ \A r \in R : back[r] \in Nat
      /\ n = SumOf(back, R) /\ n \in Nat
  <2>1. ret \in [RowsOf(b) \X Makers -> Nat]
    BY <1>0 DEF Returns
  <2>2. \A pm \in Pairs : ra[pm] = ReturnedAs(b, pm[1], pm[2], ret)
    OBVIOUS
  <2>3. \A r \in RowsOf(b) : back[r] = ReturnedOf(r, ret)
    OBVIOUS
  <2> HIDE DEF ra, back
  <2> QED BY <1>0, <2>1, <2>2, <2>3, ReturnedTwoWays
<1>3. record' \in Recs /\ Fits(record)' /\ Loose' = Loose + n /\ UNCHANGED lost
  <2>1. \A pm \in Pairs : ra[pm] \in Nat /\ ra[pm] = ReturnedAs(b, pm[1], pm[2], ret)
    BY <1>2
  <2> HIDE DEF ra
  <2>2. /\ PutBack(b, ret, place) \in Recs
        /\ LooseIn(PutBack(b, ret, place)) = Loose + SumOf(ra, Pairs)
    BY <2>1, PutBackKept
  <2>3. record' = PutBack(b, ret, place) /\ Fits(record') /\ UNCHANGED lost
    BY DEF ReturnPieces
  <2>4. Loose' = LooseIn(record')
    BY DEF Loose, LooseIn
  <2> QED BY <2>2, <2>3, <2>4 DEF Fits
<1>4. /\ \A r \in R : rn[r] = [rq[r] EXCEPT !.pulled = rq[r].pulled - back[r]]
                      /\ back[r] <= rq[r].pulled
      /\ \A r \in Reqs \ R : rn[r] = rq[r]
      /\ rn = [r \in Reqs |-> rn[r]]
  BY <1>1 DEF ReturnPieces, Rows
<1> HIDE DEF ra, back, n
<1>5. ASSUME NEW r \in R
      PROVE  /\ rn[r] \in Requirements /\ rn[r] # None /\ rn[r].need = rq[r].need
             /\ rn[r].pulled = rq[r].pulled - back[r] /\ rn[r].pulled \in Nat
             /\ rq[r].pulled \in Nat /\ back[r] \in Int
  <2> DEFINE x == rq[r].pulled - back[r]
  <2>1. rq[r] \in Requirements /\ rq[r].pulled \in Nat /\ rq[r].pulled <= MaxPieces
    BY <1>0, <1>1, RowFacts
  <2>0. back[r] \in Nat /\ back[r] <= rq[r].pulled
    <3> HIDE DEF R, rq, rn
    <3> QED BY <1>2, <1>4
  <2>2. x \in Nat /\ x \in Quantities
    <3>1. MaxPieces \in Nat
      BY StockAssumption
    <3> HIDE DEF R, rq, rn
    <3> QED BY <2>0, <2>1, <3>1 DEF Quantities
  <2>3. rn[r] = [rq[r] EXCEPT !.pulled = x]
    BY <1>4
  <2> HIDE DEF x, rq, rn
  <2>4. rn[r] \in Requirements /\ rn[r].need = rq[r].need /\ rn[r].pulled = x
    BY <2>1, <2>2, <2>3 DEF Requirements
  <2> QED BY <1>2, <2>1, <2>2, <2>4, StockAssumption DEF x
<1>6. req' \in [Reqs -> Requirements \cup {None}]
  <2>1. ASSUME NEW r \in Reqs PROVE rn[r] \in Requirements \cup {None}
    <3>1. CASE r \in R
      BY <1>5, <3>1
    <3>2. CASE r \notin R
      BY <1>0, <1>4, <3>2 DEF Typed
    <3> QED BY <3>1, <3>2
  <2> QED BY <1>4, <2>1
<1>7. Rows' = Rows /\ \A c : RowsOf(c)' = RowsOf(c)
  <2>1. \A r \in Reqs : rn[r] # None <=> rq[r] # None
    BY <1>1, <1>4, <1>5 DEF Rows
  <2>2. Rows' = Rows
    BY <2>1 DEF Rows
  <2> QED BY <2>2 DEF RowsOf
<1>8. PulledIn(rn, R) = PulledIn(rq, R) - n
  <2>1. \A s \in R : rq[s].pulled \in Int /\ back[s] \in Int
                     /\ rn[s].pulled = rq[s].pulled - back[s]
    BY <1>5
  <2> HIDE DEF rn, rq, R
  <2> QED BY <1>1, <1>2, <2>1, PulledReduced
<1>9. PulledIn(rn, Rows) = PulledIn(rq, Rows) - n
  <2> DEFINE d == [r \in Rows |-> IF r \in R THEN back[r] ELSE 0]
  <2>1. \A s \in Rows : rq[s].pulled \in Int /\ d[s] \in Int
                        /\ rn[s].pulled = rq[s].pulled - d[s]
    <3> SUFFICES ASSUME NEW s \in Rows
                 PROVE  rq[s].pulled \in Int /\ d[s] \in Int
                        /\ rn[s].pulled = rq[s].pulled - d[s]
      OBVIOUS
    <3>1. CASE s \in R
      BY <1>5, <3>1
    <3>2. CASE s \notin R
      <4>1. rn[s] = rq[s] /\ d[s] = 0 /\ rq[s].pulled \in Nat
        BY <1>0, <1>4, <3>2, RowFacts DEF Rows
      <4> QED BY <4>1
    <3> QED BY <3>1, <3>2
  <2>2. /\ \A s \in R : back[s] \in Int /\ d[s] = back[s]
        /\ \A s \in Rows \ R : d[s] = 0
    BY <1>1, <1>2
  <2> HIDE DEF rn, rq, R, d
  <2>3. SumOf(d, Rows) = SumOf(back, R)
    BY <1>1, <2>2, SumMasked
  <2>4. PulledIn(rn, Rows) = PulledIn(rq, Rows) - SumOf(d, Rows)
    BY <1>1, <2>1, PulledReduced
  <2> QED BY <1>2, <2>3, <2>4
<1>10. ASSUME NEW c, c # b PROVE PulledIn(rn, RowsOf(c)) = PulledIn(rq, RowsOf(c))
  <2>1. \A s \in RowsOf(c) : rn[s] = rq[s]
    BY <1>4, <1>10 DEF RowsOf, Rows
  <2>2. [s \in RowsOf(c) |-> rn[s].pulled] = [s \in RowsOf(c) |-> rq[s].pulled]
    BY <2>1
  <2> QED BY <2>2 DEF PulledIn
<1>11. /\ Built' = Built - n
       /\ PulledBy(R)' = PulledBy(R) - n
       /\ \A c : c # b => PulledBy(RowsOf(c))' = PulledBy(RowsOf(c))
  BY <1>7, <1>8, <1>9, <1>10, PulledNames
<1>12. Built' \in Nat
  <2>1. PulledBy(R) <= Built /\ PulledBy(R) \in Nat /\ n <= PulledBy(R)
    <3>1. PulledBy(R) <= Built /\ PulledBy(R) \in Nat
      BY <1>0, <1>1, PulledFacts
    <3> DEFINE f == [s \in R |-> rq[s].pulled]
    <3>2. \A s \in R : back[s] \in Int /\ f[s] \in Int /\ back[s] <= f[s]
      BY <1>4, <1>5
    <3>3. PulledBy(R) = SumOf(f, R)
      BY DEF PulledBy
    <3> HIDE DEF f, R
    <3>4. SumOf(back, R) <= SumOf(f, R)
      BY <1>1, <3>2, SumAtMost
    <3> QED BY <1>2, <3>1, <3>3, <3>4
  <2> QED BY <1>0, <1>2, <1>11, <2>1
<1>13. /\ prov' \in [Builds -> [Parts -> [Makers -> Nat]]]
       /\ ProvOf(prov'[b]) = ProvOf(prov[b]) - n
       /\ \A c \in Builds \ {b} : prov'[c] = prov[c]
  <2> DEFINE pb == prov[b]
             pn == [p \in Parts |-> [m \in Makers |-> pb[p][m] - ra[<<p, m>>]]]
  <2>1. prov \in [Builds -> [Parts -> [Makers -> Nat]]]
    BY <1>0 DEF Typed
  <2>2. pb \in [Parts -> [Makers -> Nat]]
    BY <2>1
  <2>3. \A p \in Parts, m \in Makers : ra[<<p, m>>] = ReturnedAs(b, p, m, ret)
                                       /\ ra[<<p, m>>] <= pb[p][m]
    BY DEF ra, Pairs, ReturnPieces
  <2>4. \A pm \in Pairs : ra[pm] \in Nat /\ ra[pm] <= pb[pm[1]][pm[2]]
    <3> SUFFICES ASSUME NEW pm \in Pairs PROVE ra[pm] \in Nat /\ ra[pm] <= pb[pm[1]][pm[2]]
      OBVIOUS
    <3>1. pm = <<pm[1], pm[2]>> /\ pm[1] \in Parts /\ pm[2] \in Makers
      BY DEF Pairs
    <3> HIDE DEF pb
    <3> QED BY <1>2, <2>3, <3>1
  <2>5. prov' = [prov EXCEPT ![b] = pn]
    <3> DEFINE q == [p \in Parts |-> [m \in Makers |->
                       prov[b][p][m] - ReturnedAs(b, p, m, ret)]]
    <3>1. prov' = [prov EXCEPT ![b] = q]
      BY <2>1 DEF ReturnPieces, ReducePulledManufacturer
    <3>2. q = pn
      BY <2>3
    <3> QED BY <3>1, <3>2
  <2>6. pn \in [Parts -> [Makers -> Nat]] /\ ProvOf(pn) = ProvOf(pb) - n
    <3>1. pn = [p \in Parts |-> [m \in Makers |-> pb[p][m] - ra[<<p, m>>]]]
      OBVIOUS
    <3> HIDE DEF pn, pb
    <3> QED BY <2>2, <2>4, <3>1, ProvReduced DEF n
  <2> HIDE DEF pn
  <2> QED BY <2>1, <2>5, <2>6
<1>14. ProvenanceComplete'
  <2>1. \A c \in Builds : PulledBy(RowsOf(c)) = ProvOf(prov[c])
    BY ProvNames DEF StockInv
  <2>2. ASSUME NEW c \in Builds PROVE PulledBy(RowsOf(c))' = ProvOf(prov'[c])
    <3>1. CASE c = b
      BY <1>11, <1>13, <2>1, <3>1
    <3>2. CASE c # b
      BY <1>11, <1>13, <2>1, <3>2
    <3> QED BY <3>1, <3>2
  <2> QED BY <2>2, ProvNames
<1>15. Missing' = Missing
  BY <1>3 DEF Missing
<1>16. ASSUME NEW r \in Rows
       PROVE  req'[r].need = req[r].need /\ req'[r].pulled \in Nat
              /\ req'[r].pulled <= req[r].pulled
  <2>1. CASE r \in R
    <3>1. back[r] \in Nat /\ rq[r].pulled \in Nat /\ rn[r].pulled \in Nat
          /\ rn[r].pulled = rq[r].pulled - back[r] /\ rn[r].need = rq[r].need
      <4> HIDE DEF R, rq, rn
      <4> QED BY <1>2, <1>5, <2>1
    <3> QED BY <3>1
  <2>2. CASE r \notin R
    BY <1>0, <1>4, <2>2, RowFacts DEF Rows
  <2> QED BY <2>1, <2>2
<1>17. Loose' \in Nat /\ Loose' + Built' = Loose + Built
  BY <1>0, <1>2, <1>3, <1>11
<1> QED BY <1>3, <1>6, <1>7, <1>12, <1>13, <1>14, <1>15, <1>16, <1>17

-----------------------------------------------------------------------------
(* The theorems                                                            *)

(* No record gets more reserved than it holds by this step. *)
NoNewUse ==
  \A i \in DOMAIN record : ReservedIn(alloc', i) > AllocatedFrom(i)
                           => ReservedIn(alloc', i) <= record[i].qty

LedgerStep == Ledger!Next \/ UNCHANGED <<Loose, Built, Missing>>

(* What every step does. *)
StockKept == StockInv' /\ LedgerStep /\ NoNewUse

(* The allocations, and what they add up to, are numbers.                  *)
LEMMA AllocTyped ==
  ASSUME StockInv
  PROVE  /\ alloc \in [Reqs -> [RecordIds -> Nat]]
         /\ \A r \in Reqs : AllocatedOf(r) \in Nat
         /\ \A i \in DOMAIN record : i \in RecordIds /\ AllocatedFrom(i) \in Nat
<1>1. alloc \in [Reqs -> [RecordIds -> Nat]]
  BY DEF StockInv, Typed, Quantities
<1>2. \A r \in Reqs : AllocatedOf(r) \in Nat
  BY <1>1, AllocatedFacts DEF AllocatedOf
<1>3. \A i \in DOMAIN record : i \in RecordIds /\ AllocatedFrom(i) \in Nat
  BY <1>1, RecordFacts, ReservedFacts DEF AllocatedFrom, StockInv
<1> QED BY <1>1, <1>2, <1>3

(* Allocations that nowhere grow reserve no more of any record. *)
LEMMA ReservedAtMost ==
  ASSUME StockInv, alloc' \in [Reqs -> [RecordIds -> Nat]],
         \A r \in Reqs, i \in RecordIds : alloc'[r][i] <= alloc[r][i]
  PROVE  NoNewUse
<1> SUFFICES ASSUME NEW i \in DOMAIN record
             PROVE  ~(ReservedIn(alloc', i) > AllocatedFrom(i))
  BY DEF NoNewUse
<1> DEFINE f == [r \in Reqs |-> alloc'[r][i]]
           g == [r \in Reqs |-> alloc[r][i]]
<1>1. i \in RecordIds /\ AllocatedFrom(i) \in Nat
  BY AllocTyped
<1>2. \A r \in Reqs : f[r] \in Int /\ g[r] \in Int /\ f[r] <= g[r]
  BY <1>1, AllocTyped
<1>3. ReservedIn(alloc', i) = SumOf(f, Reqs) /\ AllocatedFrom(i) = SumOf(g, Reqs)
  BY DEF ReservedIn, AllocatedFrom
<1>4. IsFiniteSet(Reqs) /\ ReservedIn(alloc', i) \in Nat
  BY <1>1, ReservedFacts, StockAssumption
<1> HIDE DEF f, g
<1>5. SumOf(f, Reqs) <= SumOf(g, Reqs)
  BY <1>2, <1>4, SumAtMost
<1> QED BY <1>1, <1>3, <1>4, <1>5

(* A step that leaves the allocations reserves nothing new.                *)
LEMMA SameAllocations == ASSUME StockInv, UNCHANGED alloc PROVE NoNewUse
<1>1. alloc' \in [Reqs -> [RecordIds -> Nat]] /\ alloc' = alloc
  BY AllocTyped
<1>2. \A r \in Reqs, i \in RecordIds : alloc'[r][i] \in Nat
  BY <1>1
<1>3. \A r \in Reqs, i \in RecordIds : alloc'[r][i] <= alloc[r][i]
  BY <1>1, <1>2
<1> QED BY <1>1, <1>3, ReservedAtMost

(* Every step of the inventory keeps the tables, the ledger and the        *)
(* reservations.                                                           *)
LEMMA InventoryKeeps == ASSUME StockInv, InventoryStep PROVE StockKept
<1>1. InventoryKept
  BY AddSteps, EditSteps, TransferSteps, RemoveSteps, LostSteps, FoundSteps DEF InventoryStep
<1>2. UNCHANGED <<build, req, alloc, prov>>
  BY DEF InventoryStep, AddOrIncrease, EditRecord, MoveInventory, CorrectEntry,
         RemoveEntry, MarkLost, MarkFound, fulfilment
<1>3. StockInv'
  BY InventorySteps
<1>4. Built' = Built
  BY <1>2 DEF Built, Rows, PulledBy
<1>5. Loose' \in Nat
  BY <1>1, RecsFacts DEF InventoryKept, Loose, LooseIn
<1>6. Missing' \in Nat
  <2> DEFINE f == lost'
  <2>1. \A p \in Parts : f[p] \in Nat
    BY <1>1 DEF InventoryKept
  <2>2. Missing' = SumOf(f, Parts)
    BY DEF Missing
  <2> HIDE DEF f
  <2> QED BY <2>1, <2>2, SumNat, StockAssumption
<1>7. Ledger!Next
  BY <1>1, <1>4, <1>5, <1>6 DEF InventoryKept, Ledger!Next, Ledger!Restock, Ledger!LoseOrFind
<1> QED BY <1>2, <1>3, <1>7, SameAllocations DEF StockKept, LedgerStep

(* So does every step on a requirement row.                                *)
LEMMA RequirementKeeps == ASSUME StockInv, RequirementStep PROVE StockKept
<1>1. ASSUME NEW r \in Reqs, NEW part \in Parts, NEW need \in Some, NEW spare \in BOOLEAN,
             \/ \E orig \in Parts : AddRequirement(r, orig, part, need, spare)
             \/ r \in Rows /\ EditRequirement(r, part, need, spare)
      PROVE  StockKept
  <2>1. StockInv' /\ Built' = Built /\ UNCHANGED <<record, lost>>
    BY <1>1, AddEditSteps
  <2>2. UNCHANGED alloc
    BY <1>1 DEF AddRequirement, EditRequirement
  <2> QED BY <2>1, <2>2, SameAllocations DEF StockKept, LedgerStep, Loose, Missing
<1>2. ASSUME NEW r \in Rows, RemoveRequirement(r) PROVE StockKept
  <2>1. StockInv' /\ Built' = Built /\ UNCHANGED <<record, lost>>
    BY <1>2, RemoveRowSteps
  <2>2. UNCHANGED alloc
    BY <1>2 DEF RemoveRequirement
  <2> QED BY <2>1, <2>2, SameAllocations DEF StockKept, LedgerStep, Loose, Missing
<1>3. ASSUME NEW r \in Rows, NEW wanted \in [RecordIds -> Quantities],
             ReplaceForRequirement(r, wanted)
      PROVE  StockKept
  <2>1. StockInv' /\ Built' = Built /\ UNCHANGED <<record, lost>>
    BY <1>3, ReplaceSteps
  <2>2. ASSUME NEW i \in DOMAIN record, ReservedIn(alloc', i) > AllocatedFrom(i)
        PROVE  ReservedIn(alloc', i) <= record[i].qty
    <3> DEFINE f == [s \in Reqs |-> alloc[s][i]]
               g == [s \in Reqs |-> alloc'[s][i]]
    <3>1. alloc' = [alloc EXCEPT ![r] = wanted] /\ r \in Reqs
      BY <1>3 DEF ReplaceForRequirement, Rows
    <3>2. i \in RecordIds /\ AllocatedFrom(i) \in Nat /\ alloc \in [Reqs -> [RecordIds -> Nat]]
          /\ wanted[i] \in Nat /\ record[i].qty \in Nat
      BY AllocTyped, RecordFacts DEF Quantities, StockInv
    <3>3. /\ \A s \in Reqs : f[s] \in Int /\ g[s] \in Int /\ (s # r => g[s] = f[s])
          /\ f[r] = alloc[r][i] /\ f[r] \in Nat /\ g[r] = wanted[i]
      BY <3>1, <3>2
    <3>4. AllocatedFrom(i) = SumOf(f, Reqs) /\ ReservedIn(alloc', i) = SumOf(g, Reqs)
      BY DEF AllocatedFrom, ReservedIn
    <3>5. wanted[i] > 0 => wanted[i] <= record[i].qty - (AllocatedFrom(i) - alloc[r][i])
      BY <1>3, <3>2 DEF ReplaceForRequirement, LeftFor
    <3> HIDE DEF f, g
    <3>6. SumOf(g, Reqs) = SumOf(f, Reqs) - f[r] + g[r]
      <4>1. IsFiniteSet(Reqs) /\ r \in Reqs
        BY <3>1, StockAssumption
      <4> QED BY <3>3, <4>1, SumChanged
    <3> QED BY <2>2, <3>2, <3>3, <3>4, <3>5, <3>6
  <2> QED BY <2>1, <2>2 DEF StockKept, LedgerStep, NoNewUse, Loose, Missing
<1>4. ASSUME NEW r \in Rows, NEW i \in DOMAIN record, NEW q \in Some, ApplyPull(r, i, q)
      PROVE  StockKept
  <2>1. StockInv' /\ Missing' = Missing /\ Loose' + Built' = Loose + Built
        /\ Loose' \in Nat /\ Built' \in Nat
    BY <1>4, PullKept
  <2>2. alloc' \in [Reqs -> [RecordIds -> Nat]]
    BY <2>1 DEF StockInv, Typed, Quantities, RecordIds
  <2>3. alloc \in [Reqs -> [RecordIds -> Nat]] /\ i \in RecordIds /\ r \in Reqs /\ q \in Nat
    BY AllocTyped DEF Rows, Some
  <2>4. alloc' = [alloc EXCEPT ![r] = [alloc[r] EXCEPT ![i] = alloc[r][i] - q]]
    BY <1>4, <2>3 DEF ApplyPull
  <2>5. \A s \in Reqs, j \in RecordIds : alloc'[s][j] <= alloc[s][j]
    BY <2>3, <2>4
  <2> QED BY <2>1, <2>2, <2>5, ReservedAtMost
          DEF StockKept, LedgerStep, Ledger!Next, Ledger!Exchange
<1> QED BY <1>1, <1>2, <1>3, <1>4 DEF RequirementStep, Rows

(* A return that leaves the allocations, or clears those of the Build. *)
LEMMA ReturnKeeps ==
  ASSUME StockInv, NEW b \in Builds, NEW ret \in Returns(b), NEW place \in Places,
         ReturnPieces(b, ret, place),
         \/ UNCHANGED alloc
         \/ alloc' = [r \in Reqs |-> IF BuildOf[r] = b THEN NoAllocations ELSE alloc[r]]
  PROVE  StockKept
<1>1. /\ record' \in Recs /\ Fits(record)' /\ UNCHANGED lost
      /\ req' \in [Reqs -> Requirements \cup {None}]
      /\ prov' \in [Builds -> [Parts -> [Makers -> Nat]]]
      /\ Rows' = Rows
      /\ \A r \in Rows : req'[r].need = req[r].need /\ req'[r].pulled \in Nat
                         /\ req'[r].pulled <= req[r].pulled
      /\ ProvenanceComplete'
      /\ Missing' = Missing /\ Loose' + Built' = Loose + Built
      /\ Loose' \in Nat /\ Built' \in Nat
  BY ReturnKept
<1>2. /\ alloc \in [Reqs -> [RecordIds -> Quantities]]
      /\ NoAllocations \in [RecordIds -> Quantities]
  BY StockAssumption DEF StockInv, Typed, NoAllocations, Quantities
<1>3. /\ alloc' \in [Reqs -> [RecordIds -> Quantities]]
      /\ \A r \in Reqs : alloc'[r] = alloc[r] \/ alloc'[r] = NoAllocations
  BY <1>2
<1>4. alloc' \in [Reqs -> [RecordIds -> Nat]] /\ \A r \in Reqs : AllocatedOf(r) \in Nat
  BY <1>3, AllocTyped DEF Quantities
<1>5. SumOf(NoAllocations, RecordIds) = 0
  <2> DEFINE z == NoAllocations
  <2>1. \A i \in RecordIds : z[i] = 0
    BY DEF NoAllocations
  <2>2. IsFiniteSet(RecordIds)
    BY <1>2, AllocatedFacts DEF Quantities
  <2> HIDE DEF z
  <2>3. SumOf(z, RecordIds) = 0
    BY <2>1, <2>2, SumZero
  <2> QED BY <2>3 DEF z
<1>6. \A r \in Reqs : AllocatedOf(r)' = AllocatedOf(r) \/ AllocatedOf(r)' = 0
  BY <1>3, <1>5 DEF AllocatedOf
<1>7. ASSUME NEW r \in Reqs PROVE RowKept(r)'
  <2>1. RowKept(r) /\ AllocatedOf(r) \in Nat
        /\ (AllocatedOf(r)' = AllocatedOf(r) \/ AllocatedOf(r)' = 0)
    BY <1>4, <1>6 DEF StockInv
  <2>2. CASE r \in Rows
    <3>1. req[r].pulled \in Nat /\ req[r].need \in Nat
      BY <2>2, RowFacts DEF StockInv
    <3>2. req[r].pulled + AllocatedOf(r) <= req[r].need
      BY <2>1, <2>2 DEF RowKept
    <3>3. req'[r].pulled + AllocatedOf(r)' <= req'[r].need
      BY <1>1, <2>1, <2>2, <3>1, <3>2
    <3> QED BY <1>1, <2>2, <3>3 DEF RowKept
  <2>3. CASE r \notin Rows
    BY <1>1, <2>1, <2>3 DEF RowKept
  <2> QED BY <2>2, <2>3
<1>8. Typed'
  <2>1. lost' \in [Parts -> Nat]
    BY <1>1 DEF StockInv, Typed
  <2> QED BY <1>1, <1>3, <2>1 DEF Typed
<1>9. Owned' <= MaxPieces
  <2>1. Loose \in Nat /\ Built \in Nat /\ Missing \in Nat /\ Owned <= MaxPieces
    BY TotalFacts DEF StockInv
  <2> QED BY <1>1, <2>1 DEF Owned
<1>10. \A r \in Reqs, i \in RecordIds : alloc'[r][i] <= alloc[r][i]
  <2> SUFFICES ASSUME NEW r \in Reqs, NEW i \in RecordIds PROVE alloc'[r][i] <= alloc[r][i]
    OBVIOUS
  <2>1. alloc[r][i] \in Nat /\ NoAllocations[i] = 0
    BY AllocTyped DEF NoAllocations
  <2> QED BY <1>3, <2>1
<1>11. NoNewUse
  BY <1>4, <1>10, ReservedAtMost
<1>12. LedgerStep
  BY <1>1 DEF LedgerStep, Ledger!Next, Ledger!Exchange
<1> QED BY <1>1, <1>7, <1>8, <1>9, <1>11, <1>12 DEF StockKept, StockInv

(* So does every step on a Build.                                          *)
LEMMA BuildKeeps == ASSUME StockInv, BuildStep PROVE StockKept
<1>1. ASSUME NEW b \in Builds,
             NEW rows \in SetToSeqs(RowsOf(b)), NEW records \in SetToSeqs(DOMAIN record),
             AllocateAvailable(b, rows, records)
      PROVE  StockKept
  <2>1. StockInv' /\ Built' = Built /\ UNCHANGED <<record, lost>> /\ alloc' \in Allocs
    BY <1>1, AllocateSteps
  <2> QED BY <2>1 DEF StockKept, LedgerStep, NoNewUse, Allocs, Loose, Missing
<1>2. ASSUME UNCHANGED <<record, lost, req, alloc, prov>> PROVE StockKept
  <2>1. StockInv' /\ UNCHANGED <<Loose, Built, Missing>>
    BY <1>2 DEF StockInv, Typed, Owned, Loose, Built, Missing, PulledBy, RowKept, AllocatedOf,
                Rows, RowsOf, ProvenanceComplete, Fits
  <2> QED BY <1>2, <2>1, SameAllocations DEF StockKept, LedgerStep
<1>3. ASSUME NEW b \in Builds, NEW place \in Places, NEW ret \in Returns(b),
             Disassemble(b, ret, place) \/ Cancel(b, ret, place)
      PROVE  StockKept
  BY <1>3, ReturnKeeps DEF Disassemble, Cancel
<1>4. ASSUME NEW b \in Builds,
             \/ \E status : CreateBuild(b, status)
             \/ Complete(b)
             \/ \E active \in BOOLEAN : SetActive(b, active)
      PROVE  StockKept
  BY <1>2, <1>4 DEF CreateBuild, Complete, SetActive, inventory
<1> QED BY <1>1, <1>3, <1>4 DEF BuildStep

(* Every step does.                                                        *)
LEMMA NextStock == ASSUME StockInv, [Next]_vars PROVE StockKept
<1>1. CASE UNCHANGED vars
  <2>1. UNCHANGED <<record, lost, req, alloc, prov>>
    BY <1>1 DEF vars
  <2>2. StockInv' /\ UNCHANGED <<Loose, Built, Missing>>
    BY <2>1 DEF StockInv, Typed, Owned, Loose, Built, Missing, PulledBy, RowKept, AllocatedOf,
                Rows, RowsOf, ProvenanceComplete, Fits
  <2> QED BY <2>1, <2>2, SameAllocations DEF StockKept, LedgerStep
<1> QED BY <1>1, InventoryKeeps, RequirementKeeps, BuildKeeps DEF Next

(* A new workspace owns no piece.                                          *)
LEMMA InitTotals == ASSUME Init PROVE Loose = 0 /\ Built = 0 /\ Missing = 0 /\ Rows = {}
<1>1. Rows = {}
  BY DEF Init, Rows
<1>2. Built = 0
  BY <1>1, SumEmpty DEF Built, PulledBy
<1>3. Loose = 0
  BY SumEmpty DEF Loose, LooseIn, Init
<1>4. Missing = 0
  <2>1. \A p \in Parts : lost[p] = 0
    BY DEF Init
  <2> QED BY <2>1, SumZero, StockAssumption DEF Missing
<1> QED BY <1>1, <1>2, <1>3, <1>4

(* The empty tables satisfy the invariant.                                 *)
LEMMA InitStock == ASSUME Init PROVE StockInv
<1>1. Typed
  <2>1. record \in Recs /\ Fits(record)
    BY StockAssumption DEF Init, Recs, Fits
  <2>2. /\ lost \in [Parts -> Nat] /\ req \in [Reqs -> Requirements \cup {None}]
        /\ alloc \in [Reqs -> [RecordIds -> Quantities]]
        /\ prov \in [Builds -> [Parts -> [Makers -> Nat]]]
    BY StockAssumption DEF Init, NoAllocations, Quantities
  <2> QED BY <2>1, <2>2 DEF Typed
<1>2. Owned <= MaxPieces
  BY InitTotals, StockAssumption DEF Owned
<1>3. ASSUME NEW r \in Reqs PROVE RowKept(r)
  <2> DEFINE z == alloc[r]
  <2>1. \A i \in RecordIds : z[i] = 0
    BY DEF Init, NoAllocations
  <2>2. IsFiniteSet(RecordIds)
    BY StockAssumption, FS_Interval DEF RecordIds
  <2> HIDE DEF z
  <2>3. SumOf(z, RecordIds) = 0
    BY <2>1, <2>2, SumZero
  <2>4. r \notin Rows
    BY InitTotals
  <2> QED BY <2>3, <2>4 DEF RowKept, AllocatedOf, z
<1>4. ProvenanceComplete
  <2>1. ASSUME NEW b \in Builds PROVE PulledBy(RowsOf(b)) = ProvOf(prov[b])
    <3>1. PulledBy(RowsOf(b)) = 0
      <4>1. RowsOf(b) = {}
        BY InitTotals DEF RowsOf
      <4> QED BY <4>1, SumEmpty DEF PulledBy
    <3> DEFINE f == [p \in Parts |-> SumOf(prov[b][p], Makers)]
    <3>2. \A p \in Parts : f[p] = 0
      <4> SUFFICES ASSUME NEW p \in Parts PROVE f[p] = 0
        OBVIOUS
      <4> DEFINE z == prov[b][p]
      <4>1. \A m \in Makers : z[m] = 0
        BY DEF Init
      <4>2. f[p] = SumOf(z, Makers)
        OBVIOUS
      <4> HIDE DEF z, f
      <4> QED BY <4>1, <4>2, SumZero, StockAssumption
    <3>3. ProvOf(prov[b]) = SumOf(f, Parts)
      BY DEF ProvOf
    <3> HIDE DEF f
    <3>4. SumOf(f, Parts) = 0
      BY <3>2, SumZero, StockAssumption
    <3> QED BY <3>1, <3>3, <3>4
  <2> QED BY <2>1, ProvNames
<1> QED BY <1>1, <1>2, <1>3, <1>4 DEF StockInv

BuildsTyped == build \in [Builds -> [status : Statuses, active : BOOLEAN]]

(* The status and the active flag of a Build keep their types.             *)
LEMMA NextBuilds == ASSUME BuildsTyped, [Next]_vars PROVE BuildsTyped'
<1>1. CASE UNCHANGED build
  BY <1>1 DEF BuildsTyped
<1>2. ASSUME NEW b \in Builds, NEW s \in Statuses, NEW a \in BOOLEAN,
             build' = [build EXCEPT ![b] = [status |-> s, active |-> a]]
      PROVE  BuildsTyped'
  BY <1>2 DEF BuildsTyped
<1>3. ASSUME NEW b \in Builds, NEW s \in Statuses, build' = [build EXCEPT ![b].status = s]
      PROVE  BuildsTyped'
  BY <1>3 DEF BuildsTyped
<1>4. CASE InventoryStep \/ RequirementStep
  <2>1. UNCHANGED build
    BY <1>4 DEF InventoryStep, AddOrIncrease, EditRecord, MoveInventory, CorrectEntry,
                RemoveEntry, MarkLost, MarkFound, fulfilment, RequirementStep,
                AddRequirement, EditRequirement, RemoveRequirement, ReplaceForRequirement,
                ApplyPull
  <2> QED BY <1>1, <2>1
<1>5. CASE BuildStep
  <2> PICK b \in Builds :
        \/ \E rows, records : AllocateAvailable(b, rows, records)
        \/ \E status \in {"Planned", "Complete"} : CreateBuild(b, status)
        \/ Complete(b)
        \/ \E active \in BOOLEAN : SetActive(b, active)
        \/ \E ret, place : Disassemble(b, ret, place) \/ Cancel(b, ret, place)
    BY <1>5 DEF BuildStep
  <2>1. CASE \E rows, records : AllocateAvailable(b, rows, records)
    BY <1>1, <2>1 DEF AllocateAvailable
  <2>2. CASE \E status \in {"Planned", "Complete"} : CreateBuild(b, status)
    BY <1>2, <2>2 DEF CreateBuild, Statuses
  <2>3. CASE Complete(b)
    BY <1>3, <2>3 DEF Complete, Statuses
  <2>4. CASE \E active \in BOOLEAN : SetActive(b, active)
    <3> PICK active \in BOOLEAN : SetActive(b, active)
      BY <2>4
    <3> DEFINE s == IF active /\ build[b].status = "Cancelled" THEN "Planned"
                    ELSE build[b].status
    <3>1. s \in Statuses
      BY DEF BuildsTyped, Statuses
    <3>2. build' = [build EXCEPT ![b] = [status |-> s, active |-> active]]
      BY DEF SetActive, BuildsTyped
    <3> QED BY <1>2, <3>1, <3>2
  <2>5. CASE \E ret, place : Disassemble(b, ret, place) \/ Cancel(b, ret, place)
    BY <1>3, <2>5 DEF Disassemble, Cancel, Statuses
  <2> QED BY <2>1, <2>2, <2>3, <2>4, <2>5
<1> QED BY <1>1, <1>4, <1>5 DEF Next, vars

(* The invariant bounds every quantity: no table holds more than the       *)
(* workshop owns.                                                          *)
LEMMA StockTyped == ASSUME StockInv, BuildsTyped PROVE TypeOK
<1>1. /\ Loose \in Nat /\ Built \in Nat /\ Missing \in Nat /\ MaxPieces \in Nat
      /\ Loose + Built + Missing <= MaxPieces
      /\ \A i \in DOMAIN record : record[i].qty <= Loose
      /\ \A p \in Parts : lost[p] <= Missing
  BY TotalFacts, StockAssumption DEF StockInv, Owned
<1>2. record \in Seq([id : Ids, qty : Quantities]) /\ Fits(record)
  <2> DEFINE X == [id : Ids, qty : Quantities]
             n == Len(record)
  <2>1. /\ n \in Nat /\ DOMAIN record = 1 .. n /\ record = [i \in DOMAIN record |-> record[i]]
        /\ \A i \in DOMAIN record : record[i] \in Piece
    BY RecsFacts DEF StockInv, Typed
  <2>2. \A i \in 1 .. n : record[i] \in X
    <3> SUFFICES ASSUME NEW i \in 1 .. n PROVE record[i] \in X
      OBVIOUS
    <3>1. record[i] \in Piece /\ record[i].qty <= Loose
      BY <1>1, <2>1
    <3>2. record[i].qty \in Quantities
      BY <1>1, <3>1 DEF Piece, Quantities
    <3> QED BY <3>1, <3>2 DEF Piece
  <2>3. record \in [1 .. n -> X]
    BY <2>1, <2>2
  <2> HIDE DEF X, n
  <2>4. record \in Seq(X)
    BY <2>1, <2>3, SeqMade
  <2> QED BY <2>4 DEF X, StockInv, Typed
<1>3. lost \in [Parts -> Quantities]
  <2>1. lost \in [Parts -> Nat]
    BY DEF StockInv, Typed
  <2> QED BY <1>1, <2>1 DEF Quantities
<1>4. prov \in [Builds -> [Parts -> [Makers -> Quantities]]]
  <2>1. prov \in [Builds -> [Parts -> [Makers -> Nat]]]
    BY DEF StockInv, Typed
  <2>2. ASSUME NEW b \in Builds, NEW p \in Parts, NEW m \in Makers
        PROVE  prov[b][p][m] \in Quantities
    <3>1. prov[b] \in [Parts -> [Makers -> Nat]] /\ prov[b][p][m] \in Nat
      BY <2>1
    <3>2. prov[b][p][m] <= ProvOf(prov[b]) /\ ProvOf(prov[b]) \in Nat
      BY <3>1, ProvFacts
    <3>3. ProvOf(prov[b]) = PulledBy(RowsOf(b)) /\ PulledBy(RowsOf(b)) <= Built
      <4>1. RowsOf(b) \in SUBSET Rows
        BY DEF RowsOf
      <4> QED BY <4>1, ProvNames, PulledFacts DEF StockInv
    <3> QED BY <1>1, <3>1, <3>2, <3>3 DEF Quantities
  <2>3. ASSUME NEW b \in Builds, NEW p \in Parts
        PROVE  prov[b][p] \in [Makers -> Quantities]
    BY <2>1, <2>2
  <2> QED BY <2>1, <2>3
<1> QED BY <1>2, <1>3, <1>4 DEF TypeOK, StockInv, Typed, BuildsTyped

(* The invariant gives what the run checks.                                *)
LEMMA StockExceeds == ASSUME StockInv, BuildsTyped PROVE RequirementNotExceeded
<1>1. \A r \in Rows : req[r].pulled + AllocatedOf(r) <= req[r].need
  BY DEF StockInv, RowKept, Rows
<1> QED BY <1>1, StockTyped DEF RequirementNotExceeded

(* The inductive invariant: tables of the declared shape, no more than     *)
(* MaxPieces pieces, no row beyond its need, no allocation without a row,  *)
(* and provenance for every pulled piece.                                  *)
THEOREM TablesKept == Spec => [](StockInv /\ BuildsTyped)
<1>1. Init => StockInv /\ BuildsTyped
  BY InitStock DEF Init, BuildsTyped, Statuses
<1>2. StockInv /\ BuildsTyped /\ [Next]_vars => (StockInv /\ BuildsTyped)'
  BY NextStock, NextBuilds DEF StockKept
<1> QED BY <1>1, <1>2, PTL DEF Spec

(* What is pulled and reserved for a requirement never exceeds it, and     *)
(* every table keeps its type, whatever edits, allocations, pulls and      *)
(* returns interleave.                                                     *)
THEOREM RequirementsRespected == Spec => []RequirementNotExceeded
<1>1. StockInv /\ BuildsTyped => RequirementNotExceeded
  BY StockExceeds
<1> QED BY <1>1, TablesKept, PTL

(* The manufacturer provenance of a Build accounts for every piece pulled  *)
(* into it and not returned, over any number of rows, parts and makers.    *)
THEOREM ProvenanceAccounts == Spec => []ProvenanceComplete
<1>1. StockInv => ProvenanceComplete
  BY DEF StockInv
<1> QED BY <1>1, TablesKept, PTL

(* No step reserves pieces of a record beyond what it holds.               *)
THEOREM NoPieceTwice == Spec => NoDoubleUse
<1>1. StockInv /\ [Next]_vars =>
         [\A i \in DOMAIN record : ReservedIn(alloc', i) > AllocatedFrom(i)
                                   => ReservedIn(alloc', i) <= record[i].qty]_vars
  BY NextStock DEF StockKept, NoNewUse
<1> QED BY <1>1, TablesKept, PTL DEF Spec, NoDoubleUse

(* The tables implement the ledger: no transaction makes or loses a piece. *)
THEOREM ImplementsLedger == Spec => LedgerKept
<1>1. Init => Ledger!Init
  BY InitTotals DEF Ledger!Init
<1>2. StockInv /\ [Next]_vars => [Ledger!Next]_(Ledger!vars)
  BY NextStock DEF StockKept, LedgerStep, Ledger!vars
<1> QED BY <1>1, <1>2, TablesKept, PTL DEF Spec, LedgerKept, Ledger!Spec

-----------------------------------------------------------------------------
(* A Complete Build keeps its pieces                                       *)

Row(r) == req[r] = [orig |-> req[r].orig, part |-> req[r].part, need |-> req[r].need,
                    pulled |-> req[r].pulled, spare |-> req[r].spare]

(* A row keeps its fields, and its quantities are numbers as long as its   *)
(* Build is not Disassembled, the only status returned pieces lead to      *)
(* without being counted down to zero.                                     *)
RowsTyped ==
    /\ build \in [Builds -> [status : Statuses, active : BOOLEAN]]
    /\ req = [r \in Reqs |-> req[r]]
    /\ \A r \in Rows :
          /\ Row(r)
          /\ build[BuildOf[r]].status # "None"
          /\ build[BuildOf[r]].status # "Disassembled" =>
                req[r].need \in Nat /\ req[r].pulled \in Nat

IInv == RowsTyped /\ CompleteIsWhole

(* A row with one field changed, written out. *)
LEMMA WithPulled ==
  ASSUME NEW o, NEW p, NEW n, NEW u, NEW s, NEW v
  PROVE  [[orig |-> o, part |-> p, need |-> n, pulled |-> u, spare |-> s] EXCEPT !.pulled = v]
         = [orig |-> o, part |-> p, need |-> n, pulled |-> v, spare |-> s]
  OBVIOUS

LEMMA InitIInv == ASSUME Init PROVE IInv
  BY StockAssumption DEF Init, IInv, RowsTyped, CompleteIsWhole, Rows, RowsOf, Statuses

LEMMA SameRows ==
  ASSUME IInv, UNCHANGED <<build, req>> PROVE IInv'
  BY DEF IInv, RowsTyped, Row, CompleteIsWhole, Rows, RowsOf

(* Steps of the inventory and of allocations leave rows and Builds alone.  *)
LEMMA StockSteps ==
  ASSUME IInv, \/ InventoryStep
               \/ \E r \in Rows, wanted \in [RecordIds -> Quantities] :
                     ReplaceForRequirement(r, wanted)
               \/ \E b \in Builds : \E rows, records : AllocateAvailable(b, rows, records)
  PROVE  IInv'
<1>1. UNCHANGED <<build, req>>
  <2>1. CASE InventoryStep
    BY <2>1 DEF InventoryStep, AddOrIncrease, EditRecord, MoveInventory, CorrectEntry,
                RemoveEntry, MarkLost, MarkFound, fulfilment
  <2>2. CASE \E r \in Rows, wanted \in [RecordIds -> Quantities] :
                ReplaceForRequirement(r, wanted)
    BY <2>2 DEF ReplaceForRequirement
  <2>3. CASE \E b \in Builds : \E rows, records : AllocateAvailable(b, rows, records)
    BY <2>3 DEF AllocateAvailable
  <2> QED BY <2>1, <2>2, <2>3
<1> QED BY <1>1, SameRows

(* The rows of a Build that is not Complete may change, as long as they    *)
(* stay rows with numbers.                                                 *)
LEMMA RowSteps ==
  ASSUME IInv, NEW r \in Reqs, UNCHANGED build, NEW new,
         req' = [req EXCEPT ![r] = new],
         build[BuildOf[r]].status \notin {"None", "Complete"},
         new # None => new = [orig |-> new.orig, part |-> new.part, need |-> new.need,
                              pulled |-> new.pulled, spare |-> new.spare]
                       /\ (build[BuildOf[r]].status # "Disassembled" =>
                              new.need \in Nat /\ new.pulled \in Nat)
  PROVE  IInv'
<1>1. req' = [s \in Reqs |-> req'[s]] /\ req'[r] = new
      /\ \A s \in Reqs \ {r} : req'[s] = req[s]
  BY DEF IInv, RowsTyped
<1>2. ASSUME NEW s \in Rows'
      PROVE  /\ Row(s)' /\ build'[BuildOf[s]].status # "None"
             /\ (build'[BuildOf[s]].status # "Disassembled" =>
                            req'[s].need \in Nat /\ req'[s].pulled \in Nat)
  BY <1>1, <1>2 DEF IInv, RowsTyped, Row, Rows
<1>3. ASSUME NEW b \in Builds, build'[b].status = "Complete", NEW s \in RowsOf(b)'
      PROVE  req'[s].spare \/ req'[s].pulled >= req'[s].need
  BY <1>1, <1>3 DEF IInv, CompleteIsWhole, Rows, RowsOf
<1> QED BY <1>1, <1>2, <1>3 DEF IInv, RowsTyped, CompleteIsWhole

LEMMA RequirementSteps ==
  ASSUME IInv, NEW r \in Reqs, NEW part \in Parts, NEW need \in Some, NEW spare \in BOOLEAN,
         \/ \E orig \in Parts : AddRequirement(r, orig, part, need, spare)
         \/ r \in Rows /\ EditRequirement(r, part, need, spare)
  PROVE  IInv'
<1>0. need \in Nat /\ UNCHANGED build /\ build[BuildOf[r]].status = "Planned"
  BY DEF Some, AddRequirement, EditRequirement, Editable
<1>1. CASE \E orig \in Parts : AddRequirement(r, orig, part, need, spare)
  <2> PICK orig \in Parts : AddRequirement(r, orig, part, need, spare)
    BY <1>1
  <2> DEFINE new == [orig |-> orig, part |-> part, need |-> need, pulled |-> 0, spare |-> spare]
  <2>1. req' = [req EXCEPT ![r] = new]
    BY DEF AddRequirement
  <2> QED BY <1>0, <2>1, RowSteps
<1>2. CASE r \in Rows /\ EditRequirement(r, part, need, spare)
  <2> DEFINE new == [orig |-> req[r].orig, part |-> part, need |-> need,
                     pulled |-> req[r].pulled, spare |-> spare]
  <2>1. Row(r) /\ req[r].pulled \in Nat /\ req = [s \in Reqs |-> req[s]]
    BY <1>0, <1>2 DEF IInv, RowsTyped
  <2>2. req' = [req EXCEPT ![r] = new]
    BY <1>2, <2>1 DEF EditRequirement
  <2> QED BY <1>0, <2>1, <2>2, RowSteps
<1> QED BY <1>1, <1>2

(* A pull only adds to a row; on a Complete Build it finds nothing to add. *)
LEMMA PullSteps ==
  ASSUME IInv, NEW r \in Rows, NEW i, NEW q \in Some, ApplyPull(r, i, q)
  PROVE  IInv'
<1>1. r \in Reqs /\ q \in Nat /\ q > 0 /\ UNCHANGED build
  BY DEF Rows, Some, ApplyPull
<1>2. Row(r) /\ req = [s \in Reqs |-> req[s]]
  BY DEF IInv, RowsTyped
<1> DEFINE new == [orig |-> req[r].orig, part |-> req[r].part, need |-> req[r].need,
                   pulled |-> req[r].pulled + q, spare |-> req[r].spare]
<1>3. [req[r] EXCEPT !.pulled = req[r].pulled + q] = new
  BY <1>2 DEF Row
<1>4. req' = [req EXCEPT ![r] = new]
  <2>1. req' = [req EXCEPT ![r] = [req[r] EXCEPT !.pulled = req[r].pulled + q]]
    BY <1>1, <1>2 DEF ApplyPull
  <2> QED BY <2>1, <1>3
<1>5. build[BuildOf[r]].status \notin {"None", "Complete"}
  <2>0. build[BuildOf[r]].status # "None"
    BY DEF IInv, RowsTyped
  <2> SUFFICES ASSUME build[BuildOf[r]].status = "Complete" PROVE FALSE
    BY <2>0
  <2>1. BuildOf[r] \in Builds
    BY <1>1, StockAssumption
  <2>2. req[r].need \in Nat /\ req[r].pulled \in Nat
    BY DEF IInv, RowsTyped
  <2>3. r \in RowsOf(BuildOf[r]) /\ ~req[r].spare /\ req[r].pulled + q <= req[r].need
    BY DEF RowsOf, ApplyPull
  <2>4. req[r].pulled >= req[r].need
    BY <2>1, <2>3 DEF IInv, CompleteIsWhole
  <2> QED BY <1>1, <2>2, <2>3, <2>4
<1>6. build[BuildOf[r]].status # "Disassembled" => new.need \in Nat /\ new.pulled \in Nat
  BY <1>1 DEF IInv, RowsTyped
<1> QED BY <1>1, <1>4, <1>5, <1>6, RowSteps

(* Creating, completing and archiving change the status alone; a Build is  *)
(* created without rows.                                                   *)
LEMMA StatusSteps ==
  ASSUME Typed, IInv, NEW b \in Builds,
         \/ \E status \in {"Planned", "Complete"} : CreateBuild(b, status)
         \/ Complete(b) \/ \E active \in BOOLEAN : SetActive(b, active)
  PROVE  IInv'
<1> DEFINE was == build[b].status
           is == build'[b].status
<1>1. req' = req
  BY DEF CreateBuild, Complete, SetActive
<1>2. PICK new \in [status : Statuses, active : BOOLEAN] : build' = [build EXCEPT ![b] = new]
  <2>0. build \in [Builds -> [status : Statuses, active : BOOLEAN]]
    BY DEF IInv, RowsTyped
  <2>1. CASE \E status \in {"Planned", "Complete"} : CreateBuild(b, status)
    BY <2>1 DEF CreateBuild, Statuses
  <2>2. CASE Complete(b)
    <3>1. build' = [build EXCEPT ![b] = [build[b] EXCEPT !.status = "Complete"]]
      BY <2>0, <2>2 DEF Complete
    <3>2. [build[b] EXCEPT !.status = "Complete"] \in [status : Statuses, active : BOOLEAN]
      BY <2>0 DEF Statuses
    <3> QED BY <3>1, <3>2
  <2>3. CASE \E active \in BOOLEAN : SetActive(b, active)
    <3> PICK active \in BOOLEAN : SetActive(b, active)
      BY <2>3
    <3> DEFINE to == IF active /\ was = "Cancelled" THEN "Planned" ELSE was
    <3>1. build' = [build EXCEPT ![b] = [status |-> to, active |-> active]]
      BY <2>0 DEF SetActive
    <3>2. to \in Statuses
      BY <2>0 DEF Statuses
    <3> QED BY <3>1, <3>2
  <2> QED BY <2>1, <2>2, <2>3
<1>3. build' \in [Builds -> [status : Statuses, active : BOOLEAN]]
      /\ \A c \in Builds \ {b} : build'[c] = build[c]
  BY <1>2 DEF IInv, RowsTyped
<1>4. /\ is # "None" \/ was = "None"
      /\ was = "Disassembled" => is = "Disassembled" \/ Complete(b)
      /\ is = "Complete" => was \in {"None", "Complete"} \/ Complete(b)
  BY DEF CreateBuild, Complete, SetActive, IInv, RowsTyped
<1>5. \A r \in Reqs : BuildOf[r] \in Builds
  BY StockAssumption
<1>6. RowsTyped'
  <2>1. ASSUME NEW r \in Rows PROVE req[r].need \in Nat /\ req[r].pulled \in Nat
    BY <2>1, RowFacts
  <2> QED BY <1>1, <1>3, <1>4, <1>5, <2>1 DEF IInv, RowsTyped, Rows, Row
<1>7. ASSUME is = "Complete"
      PROVE  \A r \in RowsOf(b) : req[r].spare \/ req[r].pulled >= req[r].need
  <2>1. CASE was = "None"
    BY <2>1 DEF IInv, RowsTyped, RowsOf
  <2>2. CASE was = "Complete"
    BY <2>2 DEF IInv, CompleteIsWhole
  <2>3. CASE Complete(b)
    BY <2>3 DEF Complete
  <2> QED BY <1>4, <1>7, <2>1, <2>2, <2>3
<1>8. CompleteIsWhole'
  BY <1>1, <1>3, <1>7 DEF IInv, CompleteIsWhole, Rows, RowsOf
<1> QED BY <1>6, <1>8 DEF IInv

(* Returned pieces leave a Build that is then Disassembled, or Cancelled   *)
(* with every row at zero.                                                 *)
LEMMA ReturnSteps ==
  ASSUME IInv, NEW b \in Builds, NEW ret, NEW place,
         Disassemble(b, ret, place) \/ Cancel(b, ret, place)
  PROVE  IInv'
<1> DEFINE left(r) == [orig |-> req[r].orig, part |-> req[r].part, need |-> req[r].need,
                       pulled |-> req[r].pulled - ReturnedOf(r, ret), spare |-> req[r].spare]
<1>1. req' = [r \in Reqs |-> IF r \in RowsOf(b) THEN left(r) ELSE req[r]]
  <2>1. ASSUME NEW r \in RowsOf(b)
        PROVE  [req[r] EXCEPT !.pulled = req[r].pulled - ReturnedOf(r, ret)] = left(r)
    <3> DEFINE old == [orig |-> req[r].orig, part |-> req[r].part, need |-> req[r].need,
                       pulled |-> req[r].pulled, spare |-> req[r].spare]
    <3>1. req[r] = old
      BY <2>1 DEF RowsOf, IInv, RowsTyped, Row
    <3>2. [old EXCEPT !.pulled = req[r].pulled - ReturnedOf(r, ret)] = left(r)
      BY WithPulled
    <3> QED BY <3>1, <3>2
  <2>2. req' = [r \in Reqs |-> IF r \in RowsOf(b)
                    THEN [req[r] EXCEPT !.pulled = req[r].pulled - ReturnedOf(r, ret)]
                    ELSE req[r]]
    BY DEF Disassemble, Cancel, ReturnPieces
  <2> QED BY <2>1, <2>2
<1>2. \E status \in {"Disassembled", "Cancelled"} :
         build' = [build EXCEPT ![b].status = status]
  BY DEF Disassemble, Cancel
<1>3. /\ build' \in [Builds -> [status : Statuses, active : BOOLEAN]]
      /\ \A c \in Builds \ {b} : build'[c] = build[c]
      /\ build'[b].status \in {"Disassembled", "Cancelled"}
  BY <1>2 DEF IInv, RowsTyped, Statuses
<1>4. build'[b].status = "Cancelled" =>
         build[b].status = "Planned" /\ \A r \in RowsOf(b) : req'[r].pulled = 0
  BY DEF Disassemble, Cancel, IInv, RowsTyped
<1>5. \A r \in Reqs : BuildOf[r] \in Builds
  BY StockAssumption
<1>6. ASSUME NEW r \in Rows'
      PROVE  /\ Row(r)' /\ build'[BuildOf[r]].status # "None"
             /\ (build'[BuildOf[r]].status # "Disassembled" =>
                    req'[r].need \in Nat /\ req'[r].pulled \in Nat)
  <2>1. CASE r \in RowsOf(b)
    <3>1. req'[r] = left(r) /\ r \in Reqs /\ BuildOf[r] = b /\ r \in Rows
      BY <1>1, <2>1 DEF RowsOf, Rows
    <3>2. Row(r)'
      BY <3>1 DEF Row
    <3>3. ASSUME build'[b].status # "Disassembled"
          PROVE  req'[r].need \in Nat /\ req'[r].pulled \in Nat
      BY <1>3, <1>4, <2>1, <3>1, <3>3 DEF IInv, RowsTyped
    <3> QED BY <1>3, <3>1, <3>2, <3>3
  <2>2. CASE r \notin RowsOf(b)
    <3>1. req'[r] = req[r] /\ r \in Reqs /\ r \in Rows /\ BuildOf[r] # b
      BY <1>1, <1>6, <2>2 DEF RowsOf, Rows
    <3> QED BY <1>3, <1>5, <3>1 DEF IInv, RowsTyped, Row
  <2> QED BY <2>1, <2>2
<1>7. RowsTyped'
  BY <1>1, <1>3, <1>6 DEF RowsTyped
<1>8. ASSUME NEW c \in Builds, build'[c].status = "Complete", NEW r \in RowsOf(c)'
      PROVE  req'[r].spare \/ req'[r].pulled >= req'[r].need
  <2>1. c # b /\ build[c].status = "Complete"
    BY <1>3, <1>8
  <2>2. r \in RowsOf(c) /\ req'[r] = req[r]
    BY <1>1, <1>8, <2>1 DEF RowsOf, Rows
  <2> QED BY <2>1, <2>2 DEF IInv, CompleteIsWhole
<1> QED BY <1>7, <1>8 DEF IInv, CompleteIsWhole

LEMMA NextIInv == ASSUME StockInv, IInv, [Next]_vars PROVE IInv'
<1>1. CASE UNCHANGED vars
  BY <1>1, SameRows DEF vars
<1>2. CASE InventoryStep
  BY <1>2, StockSteps
<1>3. CASE RequirementStep
  <2>1. CASE \E r \in Reqs \ Rows, orig, part \in Parts, need \in Some, spare \in BOOLEAN :
                AddRequirement(r, orig, part, need, spare)
    BY <2>1, RequirementSteps
  <2>2. ASSUME NEW r \in Rows,
               \/ \E part \in Parts, need \in Some, spare \in BOOLEAN :
                     EditRequirement(r, part, need, spare)
               \/ \E wanted \in [RecordIds -> Quantities] : ReplaceForRequirement(r, wanted)
               \/ \E i \in DOMAIN record, q \in Some : ApplyPull(r, i, q)
        PROVE  IInv'
    BY <2>2, RequirementSteps, StockSteps, PullSteps DEF Rows
  <2>3. ASSUME NEW r \in Rows, RemoveRequirement(r)
        PROVE  IInv'
    <3>1. req' = [req EXCEPT ![r] = None] /\ UNCHANGED build /\ r \in Reqs
          /\ build[BuildOf[r]].status = "Planned"
      BY <2>3 DEF RemoveRequirement, Editable, Rows
    <3> QED BY <3>1, RowSteps
  <2> QED BY <1>3, <2>1, <2>2, <2>3 DEF RequirementStep
<1>4. CASE BuildStep
  BY <1>4, StockSteps, StatusSteps, ReturnSteps DEF BuildStep, StockInv
<1> QED BY <1>1, <1>2, <1>3, <1>4 DEF Next

(* A Complete Build keeps every required piece until it is disassembled.   *)
THEOREM CompleteStaysWhole == Spec => []CompleteIsWhole
<1>1. IInv => CompleteIsWhole
  BY DEF IInv
<1>2. StockInv /\ IInv /\ [Next]_vars => IInv'
  BY NextIInv
<1> QED BY <1>1, <1>2, InitIInv, TablesKept, PTL DEF Spec
=============================================================================
