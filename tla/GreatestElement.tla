-------------------------- MODULE GreatestElement --------------------------
(***************************************************************************)
(* What Max of module FiniteSetsExt returns, for the proofs about layouts  *)
(* and tables, and induction over an interval, for those about bits.       *)
(***************************************************************************)
EXTENDS Integers, FiniteSetsExt, FiniteSetTheorems, WellFoundedInduction, TLAPS

(***************************************************************************)
(* A finite set of integers that is not empty has a greatest element: a    *)
(* smallest subset without one would lose nothing with any of its members. *)
(***************************************************************************)
LEMMA GreatestExists ==
  ASSUME NEW S \in SUBSET Int, IsFiniteSet(S), S # {}
  PROVE  \E x \in S : \A y \in S : x >= y
<1> DEFINE HasGreatest(U) == \E x \in U : \A y \in U : x >= y
           R == StrictSubsetOrdering(S)
           T == {U \in SUBSET S : U # {} /\ ~HasGreatest(U)}
<1>1. SUFFICES ASSUME T # {} PROVE FALSE
  OBVIOUS
<1>2. IsWellFoundedOn(R, SUBSET S)
  BY FS_StrictSubsetOrderingWellFounded, FS_FiniteSubsetsOfFinite
<1>3. PICK U \in T : \A V \in T : <<V, U>> \notin R
  <2> T \subseteq SUBSET S
    OBVIOUS
  <2> HIDE DEF T, R
  <2> QED BY <1>1, <1>2, WFMin
<1>4. PICK u \in U : TRUE
  OBVIOUS
<1>5. CASE U = {u}
  BY <1>5
<1>6. CASE U # {u}
  <2> DEFINE V == U \ {u}
  <2>1. V \in SUBSET S /\ V # {} /\ V # U /\ V \subseteq U
    BY <1>4, <1>6
  <2>2. <<V, U>> \in R
    BY <2>1 DEF StrictSubsetOrdering
  <2>3. PICK v \in V : \A y \in V : v >= y
    BY <1>3, <2>1, <2>2
  <2>4. u \in Int /\ v \in Int /\ \A y \in U : y \in Int
    OBVIOUS
  <2>5. CASE u >= v
    <3>1. \A y \in U : u >= y
      BY <2>3, <2>4, <2>5
    <3> QED BY <1>4, <3>1
  <2>6. CASE v >= u
    <3>1. \A y \in U : v >= y
      BY <2>3, <2>4, <2>6
    <3> QED BY <2>3, <3>1
  <2> QED BY <2>4, <2>5, <2>6
<1> QED BY <1>5, <1>6

\* Max returns a member of the set, and no member is greater.
LEMMA MaxIsGreatest ==
  ASSUME NEW S \in SUBSET Int, IsFiniteSet(S), S # {}
  PROVE  Max(S) \in S /\ \A y \in S : Max(S) >= y
BY GreatestExists DEF Max

(***************************************************************************)
(* Induction over an interval, downwards and upwards: of the numbers       *)
(* outside S there would be a greatest.  S stands for the predicate.       *)
(***************************************************************************)
LEMMA DownTo ==
  ASSUME NEW n \in Nat, NEW S, n \in S,
         \A i \in 0 .. (n - 1) : i + 1 \in S => i \in S
  PROVE  0 .. n \subseteq S
<1> DEFINE rest == (0 .. n) \ S
<1>1. SUFFICES ASSUME rest # {} PROVE FALSE
  OBVIOUS
<1>2. rest \in SUBSET Int /\ IsFiniteSet(rest)
  <2>1. IsFiniteSet(0 .. n)
    BY FS_Interval
  <2> QED BY <2>1, FS_Subset
<1>3. PICK i \in rest : \A j \in rest : i >= j
  <2> HIDE DEF rest
  <2> QED BY <1>1, <1>2, GreatestExists
<1>4. i \in 0 .. (n - 1)
  OBVIOUS
<1>5. i + 1 \notin rest
  BY <1>3, <1>4
<1> QED BY <1>3, <1>4, <1>5

LEMMA UpTo ==
  ASSUME NEW n \in Nat, NEW S, 0 \in S,
         \A i \in 0 .. (n - 1) : i \in S => i + 1 \in S
  PROVE  0 .. n \subseteq S
<1> DEFINE T == {i \in 0 .. n : n - i \in S}
<1>1. n \in T
  OBVIOUS
<1>2. ASSUME NEW i \in 0 .. (n - 1), i + 1 \in T
      PROVE  i \in T
  <2>1. n - (i + 1) \in 0 .. (n - 1) /\ n - (i + 1) \in S /\ (n - (i + 1)) + 1 = n - i
    BY <1>2
  <2> QED BY <2>1
<1>3. 0 .. n \subseteq T
  <2> HIDE DEF T
  <2> QED BY <1>1, <1>2, DownTo
<1> SUFFICES ASSUME NEW i \in 0 .. n PROVE i \in S
  OBVIOUS
<1>4. n - i \in T
  BY <1>3
<1> QED BY <1>4
=============================================================================
