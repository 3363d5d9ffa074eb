----------------------------- MODULE Induction -----------------------------
(***************************************************************************)
(* Induction over the naturals and what follows from it.  The library       *)
(* states it for an operator; here it is stated for a set, and rests on the *)
(* facts about finite sets.                                                 *)
(***************************************************************************)
EXTENDS Integers, Sequences, FiniteSetsExt, FiniteSetTheorems, TLAPS

\* Induction over the naturals, for sets: without a least n outside of S the successor
\* maps the members of S up to n one to one, but not onto, themselves.
LEMMA SetInduction ==
  ASSUME NEW S, 0 \in S, \A n \in S \cap Nat : n + 1 \in S
  PROVE  Nat \subseteq S
<1> SUFFICES ASSUME NEW n \in Nat, n \notin S PROVE FALSE
  OBVIOUS
<1> DEFINE T == S \cap (0 .. n)
           g == [x \in T |-> x + 1]
<1>1. \A x \in T : x + 1 \in T
  OBVIOUS
<1>2. g \in Injection(T, T)
  BY <1>1 DEF Injection, IsInjective
<1>3. IsFiniteSet(T)
  <2>1. IsFiniteSet(0 .. n) /\ T \in SUBSET (0 .. n)
    BY FS_Interval
  <2> QED
    BY <2>1, FS_Subset
<1>4. g \in Surjection(T, T)
  <2> HIDE DEF g, T
  <2>1. Cardinality(T) = Cardinality(T) <=> g \in Surjection(T, T)
    BY <1>2, <1>3, FS_Injection
  <2> QED
    BY <2>1
<1>5. 0 \in T
  OBVIOUS
<1>6. PICK x \in T : g[x] = 0
  BY <1>4, <1>5 DEF Surjection
<1> QED
  BY <1>6

LEMMA SmallestOf ==
  ASSUME NEW S, S \subseteq Nat, S # {}
  PROVE  Min(S) \in S /\ \A x \in S : Min(S) <= x
<1>1. \E x \in S : \A y \in S : x <= y
  <2> SUFFICES ASSUME \A x \in S : \E y \in S : ~(x <= y) PROVE FALSE
    OBVIOUS
  <2> DEFINE T == {n \in Nat : \A x \in S : x > n}
  <2>1. 0 \in T
    OBVIOUS
  <2>2. \A n \in T : n + 1 \in T
    <3> TAKE n \in T
    <3>1. \A x \in S : x >= n + 1
      OBVIOUS
    <3>2. n + 1 \notin S
      BY <3>1
    <3> QED
      BY <3>1, <3>2
  <2>3. Nat \subseteq T
    <3> HIDE DEF T
    <3> QED
      BY <2>1, <2>2, SetInduction
  <2>4. PICK x \in S : x > x
    BY <2>3
  <2> QED
    BY <2>4
<1> QED
  BY <1>1 DEF Min

LEMMA UpTo ==
  ASSUME NEW n \in Nat
  PROVE  IsFiniteSet(1 .. n) /\ Cardinality(1 .. n) = n
<1>1. IsFiniteSet(1 .. n) /\ Cardinality(1 .. n) = IF 1 > n THEN 0 ELSE n - 1 + 1
  BY FS_Interval
<1> QED
  BY <1>1

\* What is mapped one to one to the numbers up to n has at most n members.
LEMMA InjectionBound ==
  ASSUME NEW n \in Nat, NEW S, NEW f \in [S -> 1 .. n], \A a, b \in S : f[a] = f[b] => a = b
  PROVE  IsFiniteSet(S) /\ Cardinality(S) <= n
<1> DEFINE T == 1 .. n
<1>1. IsFiniteSet(T) /\ Cardinality(T) = n
  BY UpTo
<1>2. f \in Injection(S, T)
  BY DEF Injection, IsInjective
<1> HIDE DEF T
<1>3. IsFiniteSet(S) /\ Cardinality(S) <= Cardinality(T)
  BY <1>1, <1>2, FS_Injection
<1> QED
  BY <1>1, <1>3
=============================================================================
