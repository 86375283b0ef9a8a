--------------------------- MODULE InductionLemmas ---------------------------
(***************************************************************************)
(* Induction over the natural numbers, for the proofs about definitions    *)
(* that are recursive functions.  The property that is inductive is given  *)
(* by the set of the numbers that have it.                                 *)
(***************************************************************************)
EXTENDS Naturals, WellFoundedInduction, TLAPS

LEMMA LessIsWellFounded == IsWellFoundedOn({p \in Nat \X Nat : p[1] < p[2]}, Nat)
BY NatLessThanWellFounded DEF OpToRel

\* A set of numbers that is not empty has a least element.
LEMMA LeastNumber ==
    ASSUME NEW T \in SUBSET Nat, T # {}
    PROVE  \E n \in T : \A m \in T : n <= m
<1> DEFINE R == {p \in Nat \X Nat : p[1] < p[2]}
<1>1. IsWellFoundedOn(R, Nat)
  BY LessIsWellFounded
<1>2. PICK n \in T : \A m \in T : <<m, n>> \notin R
  <2> HIDE DEF R
  <2> QED
    BY <1>1, WFMin
<1>3. \A m \in T : ~(m < n)
  BY <1>2
<1> QED
  BY <1>3

\* A set that has 0, and with a number its successor, has every number.
LEMMA InductionOnNat ==
    ASSUME NEW T, 0 \in T, \A n \in Nat : n \in T => n + 1 \in T
    PROVE  Nat \subseteq T
<1> DEFINE U == Nat \ T
<1> SUFFICES ASSUME U # {} PROVE FALSE
  OBVIOUS
<1>1. PICK n \in U : \A m \in U : n <= m
  BY LeastNumber
<1>2. n # 0 /\ n - 1 \in Nat
  OBVIOUS
<1>3. n - 1 \in T
  BY <1>1, <1>2
<1> QED
  BY <1>2, <1>3

\* The solutions of a recursive definition over 0 .. N.
Solutions(N, D, base, Step) ==
    {f \in [0 .. N -> D] : f[0] = base /\ \A k \in 1 .. N : f[k] = Step[k][f[k - 1]]}

\* When the values stay in D there is one.
LEMMA SolutionExists ==
    ASSUME NEW N \in Nat, NEW D, NEW base \in D, NEW Step \in [1 .. N -> [D -> D]]
    PROVE  Solutions(N, D, base, Step) # {}
<1> DEFINE Solves(n, f) == f[0] = base /\ \A k \in 1 .. n : f[k] = Step[k][f[k - 1]]
           T == {n \in Nat : n <= N => \E f \in [0 .. n -> D] : Solves(n, f)}
<1>1. 0 \in T
  <2> DEFINE f == [i \in 0 .. 0 |-> base]
  <2>1. f \in [0 .. 0 -> D] /\ f[0] = base
    OBVIOUS
  <2>2. \A k \in 1 .. 0 : FALSE
    OBVIOUS
  <2> HIDE DEF f
  <2> QED
    BY <2>1, <2>2
<1>2. ASSUME NEW n \in Nat, n \in T PROVE n + 1 \in T
  <2> SUFFICES ASSUME n + 1 <= N PROVE \E f \in [0 .. n + 1 -> D] : Solves(n + 1, f)
    OBVIOUS
  <2>1. PICK f \in [0 .. n -> D] : Solves(n, f)
    BY <1>2
  <2>2. n \in 0 .. n /\ n + 1 \in 1 .. N
    OBVIOUS
  <2>3. f[n] \in D /\ Step[n + 1][f[n]] \in D
    BY <2>1, <2>2
  <2> DEFINE g == [i \in 0 .. n + 1 |-> IF i = n + 1 THEN Step[n + 1][f[n]] ELSE f[i]]
  <2>4. \A i \in 0 .. n + 1 : i # n + 1 => i \in 0 .. n
    OBVIOUS
  <2>5. g \in [0 .. n + 1 -> D]
    BY <2>1, <2>3, <2>4
  <2>6. \A i \in 0 .. n : g[i] = f[i]
    OBVIOUS
  <2>7. g[n + 1] = Step[n + 1][f[n]]
    OBVIOUS
  <2> HIDE DEF g
  <2>8. 0 \in 0 .. n
    OBVIOUS
  <2>9. ASSUME NEW k \in 1 .. n + 1 PROVE g[k] = Step[k][g[k - 1]]
    <3>1. CASE k = n + 1
      <4>1. k - 1 = n
        BY <3>1
      <4> QED
        BY <2>2, <2>6, <2>7, <3>1, <4>1
    <3>2. CASE k # n + 1
      <4>1. k \in 1 .. n /\ k \in 0 .. n /\ k - 1 \in 0 .. n
        BY <3>2
      <4> QED
        BY <2>1, <2>6, <4>1
    <3> QED
      BY <3>1, <3>2
  <2> QED
    BY <2>1, <2>5, <2>6, <2>8, <2>9
<1>3. N \in T
  <2> HIDE DEF T
  <2> QED
    BY <1>1, <1>2, InductionOnNat
<1> QED
  BY <1>3 DEF Solutions
=============================================================================
