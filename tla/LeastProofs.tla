---------------------------- MODULE LeastProofs ----------------------------
(* That there is a least one: see Least. *)
EXTENDS Least, Naturals, FiniteSetTheorems, WellFoundedInduction, TLAPS

\* A loop that looks for something, where there is some, stops at the first of them.
LEMMA FirstIsIn == ASSUME NEW S \in SUBSET Nat, S # {} PROVE First(S) \in S /\ \A j \in S : First(S) <= j
<1>1. PICK n \in S : TRUE
  OBVIOUS
<1> DEFINE F == {0 .. k : k \in S \cap (0 .. n)}
           R == StrictSubsetOrdering(0 .. n)
<1>2. IsFiniteSet(0 .. n)
  BY FS_Interval
<1>3. F \subseteq SUBSET (0 .. n) /\ F # {}
  OBVIOUS
<1>4. IsWellFoundedOn(R, SUBSET (0 .. n))
  BY <1>2, FS_StrictSubsetOrderingWellFounded, FS_FiniteSubsetsOfFinite
<1>5. \E x \in F : \A y \in F : ~(<<y, x>> \in R)
  <2> HIDE DEF F, R
  <2> QED BY <1>3, <1>4, WFMin
<1>6. PICK k \in S \cap (0 .. n) : \A y \in F : ~(<<y, 0 .. k>> \in R)
  BY <1>5
<1>7. ASSUME NEW j \in S PROVE k <= j
  <2>1. SUFFICES ASSUME j < k PROVE FALSE
    OBVIOUS
  <2>2. 0 .. j \in F
    BY <2>1
  <2>3. 0 .. j \subseteq 0 .. k /\ 0 .. j # 0 .. k
    <3>1. k \in 0 .. k /\ k \notin 0 .. j
      BY <2>1
    <3> QED BY <3>1, <2>1
  <2>4. <<0 .. j, 0 .. k>> \in R
    BY <2>2, <2>3, <1>3 DEF StrictSubsetOrdering
  <2> QED BY <2>2, <2>4, <1>6
<1>8. \E i \in S : \A j \in S : i <= j
  BY <1>7
<1> QED BY <1>8 DEF First
=============================================================================
