------------------------------ MODULE LeastNumber ------------------------------
(***************************************************************************)
(* Every set of natural numbers that has an element has a least one: what  *)
(* the first entity in the registry, the first preset with a name and the  *)
(* induction over the steps of a preset rest on.                           *)
(***************************************************************************)
EXTENDS Integers, FiniteSetTheorems, TLAPS

LEMMA HasLeast ==
    ASSUME NEW S \in SUBSET Nat, S # {}
    PROVE  \E least \in S : \A n \in S : least <= n
<1> DEFINE upto == {0 .. n : n \in S}
<1>1. upto \subseteq FiniteSubsetsOf(Nat) /\ upto # {}
  <2>1. \A n \in S : 0 \in Int /\ n \in Int
    OBVIOUS
  <2>2. \A n \in S : 0 .. n \subseteq Nat /\ IsFiniteSet(0 .. n)
    BY <2>1, FS_Interval
  <2>. QED  BY <2>2 DEF FiniteSubsetsOf
<1>2. PICK small \in upto : \A other \in upto : <<other, small>> \notin StrictSubsetOrdering(Nat)
  <2>. HIDE DEF upto
  <2>1. IsWellFoundedOn(StrictSubsetOrdering(Nat), FiniteSubsetsOf(Nat))
    BY FS_StrictSubsetOrderingWellFounded
  <2>. QED  BY <1>1, <2>1, WFMin
<1>3. PICK least \in S : small = 0 .. least
  OBVIOUS
<1>4. ASSUME NEW n \in S, n < least PROVE FALSE
  <2>1. 0 .. n \in upto /\ 0 .. n \subseteq 0 .. least /\ 0 .. least \subseteq Nat
    BY <1>4
  <2>2. least \in 0 .. least /\ least \notin 0 .. n
    BY <1>4
  <2>3. <<0 .. n, 0 .. least>> \in StrictSubsetOrdering(Nat)
    BY <2>1, <2>2 DEF StrictSubsetOrdering
  <2>. QED  BY <1>2, <1>3, <2>1, <2>3
<1>. QED  BY <1>4

=============================================================================
