------------------------------ MODULE NatSets ------------------------------
(***************************************************************************)
(* Two facts about the natural numbers that the proofs about sequences and *)
(* passes rest on: a set has a least number, and a set that has 0 and the  *)
(* successor of each of its numbers up to n has them all.                  *)
(***************************************************************************)
EXTENDS Integers, TLAPS, WellFoundedInduction

\* A set of numbers has a least one.
LEMMA NatMin ==
  ASSUME NEW S \in SUBSET Nat, S # {}
  PROVE  \E n \in S : \A m \in S : n =< m
<1> DEFINE R == {ss \in Nat \X Nat : ss[1] < ss[2]}
<1>1. IsWellFoundedOn(R, Nat)
  BY NatLessThanWellFounded DEF OpToRel
<1>2. PICK x \in S : \A y \in S : ~ (<<y, x>> \in R)
  <2> HIDE DEF R
  <2> QED BY <1>1, WFMin
<1>3. \A y \in S : ~ (y < x)
  BY <1>2
<1> QED
  BY <1>3

\* Induction up to n: otherwise there is a least number that is not in the set.
LEMMA UpTo ==
  ASSUME NEW n \in Nat, NEW S, 0 \in S, \A i \in 1..n : i - 1 \in S => i \in S
  PROVE  0..n \subseteq S
<1> DEFINE T == {i \in 0..n : i \notin S}
<1>1. SUFFICES T = {}
  OBVIOUS
<1>2. SUFFICES ASSUME T # {} PROVE FALSE
  OBVIOUS
<1>3. PICK k \in T : \A j \in T : k =< j
  <2>1. T \in SUBSET Nat
    OBVIOUS
  <2> HIDE DEF T
  <2> QED BY <1>2, <2>1, NatMin
<1>4. k \in 1..n /\ k - 1 \in 0..n /\ k - 1 \notin T
  BY <1>3
<1> QED
  BY <1>3, <1>4
=============================================================================
