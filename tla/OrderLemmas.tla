------------------------------ MODULE OrderLemmas ------------------------------
(***************************************************************************)
(* Well-foundedness in the form the other proofs use it: a set of numbers  *)
(* has a smallest member, a bounded or a finite one a largest.  A proof by *)
(* induction over finite sets takes a smallest counterexample.  And the    *)
(* functions that are defined by recursion over 0..n exist.                *)
(***************************************************************************)
EXTENDS Naturals, FiniteSetTheorems, WellFoundedInduction, TLAPS

\* A set of natural numbers that is not empty has a smallest member.
LEMMA SmallestExists ==
  ASSUME NEW T \in SUBSET Nat, T # {}
  PROVE  \E x \in T : \A y \in T : x <= y
<1> DEFINE R == OpToRel(<, Nat)
<1>1. PICK x \in T : \A y \in T : ~ (<<y, x>> \in R)
  <2>1. IsWellFoundedOn(R, Nat)
    BY NatLessThanWellFounded
  <2> HIDE DEF R
  <2> QED  BY <2>1, WFMin
<1>2. \A y \in T : y < x => <<y, x>> \in R
  BY DEF OpToRel
<1> HIDE DEF R
<1>3. \A y \in T : ~ (y < x)
  BY <1>1, <1>2
<1> QED  BY <1>3

\* If it is bounded, it has a largest one.
LEMMA LargestExists ==
  ASSUME NEW T \in SUBSET Nat, T # {}, NEW n \in Nat, \A x \in T : x <= n
  PROVE  \E x \in T : \A y \in T : y <= x
<1> DEFINE U == {n - x : x \in T}
<1>1. \A y \in T : n - y \in U
  OBVIOUS
<1>2. \A u \in U : \E x \in T : u = n - x
  OBVIOUS
<1> HIDE DEF U
<1>3. U \in SUBSET Nat
  BY <1>2
<1>4. U # {}
  BY <1>1
<1>5. PICK u \in U : \A v \in U : u <= v
  BY <1>3, <1>4, SmallestExists
<1>6. PICK x \in T : u = n - x
  BY <1>2
<1>7. \A y \in T : u <= n - y
  BY <1>1, <1>5
<1> QED  BY <1>6, <1>7

\* The collections of subsets of a set.
Collections(S) == SUBSET (SUBSET S)

\* Among subsets of a finite set, a collection that is not empty has one that
\* has no proper subset in the collection.
LEMMA SmallestSubsetExists ==
  ASSUME NEW S, IsFiniteSet(S), NEW C \in Collections(S), C # {}
  PROVE  \E T \in C : \A U \in C : U \subseteq T => U = T
<1> DEFINE R == StrictSubsetOrdering(S)
<1>1. C \subseteq FiniteSubsetsOf(S)
  BY FS_Subset DEF FiniteSubsetsOf, Collections
<1>2. IsWellFoundedOn(R, FiniteSubsetsOf(S))
  BY FS_StrictSubsetOrderingWellFounded
<1>3. PICK T \in C : \A U \in C : ~ (<<U, T>> \in R)
  <2> HIDE DEF R
  <2>1. C \in SUBSET FiniteSubsetsOf(S)
    BY <1>1
  <2> QED  BY <1>2, <2>1, WFMin
<1>4. \A U \in C : U \subseteq T /\ U # T => <<U, T>> \in R
  BY DEF StrictSubsetOrdering, Collections
<1> HIDE DEF R
<1>5. ASSUME NEW U \in C, U \subseteq T
      PROVE  U = T
  BY <1>3, <1>4, <1>5
<1> QED  BY <1>5

\* A finite set of numbers that is not empty has a largest member.
LEMMA FiniteLargestExists ==
  ASSUME NEW S \in SUBSET Nat, IsFiniteSet(S), S # {}
  PROVE  \E x \in S : \A y \in S : y <= x
<1> DEFINE C == {T \in SUBSET S : T # {} /\ ~ (\E x \in T : \A y \in T : y <= x)}
<1>1. SUFFICES C = {}
  OBVIOUS
<1>2. SUFFICES ASSUME C # {} PROVE FALSE
  OBVIOUS
<1>3. PICK T \in C : \A U \in C : U \subseteq T => U = T
  <2>1. C \in Collections(S) /\ C # {}
    BY <1>2 DEF Collections
  <2> HIDE DEF C
  <2>2. \E T \in C : \A U \in C : U \subseteq T => U = T
    BY <2>1, SmallestSubsetExists
  <2> QED  BY <2>2
<1>4. T \in SUBSET S /\ T # {} /\ ~ (\E x \in T : \A y \in T : y <= x)
  OBVIOUS
<1>5. PICK t \in T : TRUE
  BY <1>4
<1> DEFINE U == T \ {t}
<1>6. U \notin C
  BY <1>3, <1>5
<1>7. U \in SUBSET S
  BY <1>4
<1>8. CASE U = {}
  BY <1>4, <1>5, <1>8
<1>9. CASE U # {}
  <2>1. PICK u \in U : \A y \in U : y <= u
    BY <1>6, <1>7, <1>9
  <2>2. t \in Nat /\ u \in Nat /\ \A y \in T : y \in U \/ y = t
    BY <1>4, <1>5, <2>1
  <2>3. CASE t <= u
    BY <1>4, <2>1, <2>2, <2>3
  <2>4. CASE u <= t
    <3>1. \A y \in T : y <= t
      BY <1>4, <2>1, <2>2, <2>4
    <3> QED  BY <1>4, <1>5, <3>1
  <2> QED  BY <2>2, <2>3, <2>4
<1> QED  BY <1>8, <1>9

-----------------------------------------------------------------------------
(* Recursion over the positions of a sequence.                             *)

\* A function whose values follow each other by the steps.
Steps(S, n) == [1..n -> [S -> S]]
Repeated(S, n, base, step, f) ==
  f \in [0..n -> S] /\ f[0] = base /\ \A i \in 1..n : f[i] = step[i][f[i - 1]]

\* There is one for any steps from value to value.
LEMMA RecursionExists ==
  ASSUME NEW S, NEW n \in Nat, NEW base \in S, NEW step \in Steps(S, n)
  PROVE  \E f : Repeated(S, n, base, step, f)
<1> DEFINE Repeats(m) ==
      \E f \in [0..m -> S] : f[0] = base /\ \A i \in 1..m : f[i] = step[i][f[i - 1]]
<1>s. step \in [1..n -> [S -> S]]
  BY DEF Steps
<1>r. ASSUME NEW f \in [0..n -> S], f[0] = base, \A i \in 1..n : f[i] = step[i][f[i - 1]]
      PROVE  Repeated(S, n, base, step, f)
  BY <1>r DEF Repeated
<1>g. ASSUME Repeats(n) PROVE \E f : Repeated(S, n, base, step, f)
  <2>1. PICK f \in [0..n -> S] : f[0] = base /\ \A i \in 1..n : f[i] = step[i][f[i - 1]]
    BY <1>g
  <2> QED  BY <1>r, <2>1
<1> HIDE DEF Repeats
<1>1. SUFFICES ASSUME ~ Repeats(n) PROVE FALSE
  BY <1>g
<1> USE DEF Repeats
<1> DEFINE T == {m \in 0..n : ~ Repeats(m)}
<1>2. PICK m \in T : \A k \in T : m <= k
  <2>1. T \in SUBSET Nat /\ T # {}
    BY <1>1
  <2> HIDE DEF T
  <2> QED  BY <2>1, SmallestExists
<1>3. m # 0
  <2> DEFINE f == [i \in 0..0 |-> base]
  <2>1. f \in [0..0 -> S] /\ f[0] = base
    OBVIOUS
  <2> HIDE DEF f
  <2>2. \A i \in 1..0 : FALSE
    OBVIOUS
  <2>3. Repeats(0)
    BY <2>1, <2>2
  <2> QED  BY <2>3
<1>4. Repeats(m - 1)
  <2> HIDE DEF Repeats
  <2>1. m \in 0..n
    BY <1>2
  <2>2. m - 1 \in 0..n /\ ~ (m <= m - 1)
    BY <1>3, <2>1
  <2> QED  BY <1>2, <2>2
<1>5. PICK f \in [0..(m - 1) -> S] :
         f[0] = base /\ \A i \in 1..(m - 1) : f[i] = step[i][f[i - 1]]
  BY <1>4
<1> DEFINE h == [i \in 0..m |-> IF i = m THEN step[m][f[m - 1]] ELSE f[i]]
<1>6. m \in 1..n /\ f[m - 1] \in S
  BY <1>2, <1>3
<1>7. step[m][f[m - 1]] \in S
  BY <1>s, <1>6
<1>8. h \in [0..m -> S] /\ h[0] = base
  BY <1>5, <1>6, <1>7
<1>9. \A i \in 1..m : h[i] = step[i][h[i - 1]]
  BY <1>5, <1>6
<1>10. Repeats(m)
  <2> HIDE DEF h
  <2> QED  BY <1>8, <1>9
<1> QED  BY <1>10

=============================================================================
