---------------------------- MODULE NaturalSets ----------------------------
(***************************************************************************)
(* Induction over the natural numbers, for a set of them: what the proofs  *)
(* about recursive functions and about sequences of any length rest on.    *)
(***************************************************************************)
EXTENDS WellFoundedInduction, TLAPS

Smaller == {p \in Nat \X Nat : p[1] < p[2]}

\* A set of natural numbers that holds 0 and with each number the next holds all.
LEMMA AllNaturals ==
  ASSUME NEW S, 0 \in S, \A n \in Nat : n \in S => n + 1 \in S
  PROVE  \A n \in Nat : n \in S
<1> DEFINE T == Nat \ S
<1>1. OpToRel(<, Nat) = Smaller
  BY DEF OpToRel, Smaller
<1>2. IsWellFoundedOn(Smaller, Nat)
  BY <1>1, NatLessThanWellFounded
<1>3. SUFFICES ASSUME T # {} PROVE FALSE
  OBVIOUS
<1>4. PICK x \in T : \A y \in T : ~(<<y, x>> \in Smaller)
  BY <1>2, <1>3, WFMin
<1>5. x \in Nat \ {0}
  OBVIOUS
<1>6. x - 1 \in Nat /\ <<x - 1, x>> \in Smaller
  BY <1>5 DEF Smaller
<1>7. x - 1 \in S
  BY <1>4, <1>6
<1>8. x \in S
  BY <1>5, <1>6, <1>7
<1> QED
  BY <1>8

\* A set of natural numbers has a least one.
LEMMA LeastNatural ==
  ASSUME NEW S, S \subseteq Nat, S # {}
  PROVE  \E n \in S : \A k \in S : n <= k
<1>1. OpToRel(<, Nat) = Smaller
  BY DEF OpToRel, Smaller
<1>2. IsWellFoundedOn(Smaller, Nat)
  BY <1>1, NatLessThanWellFounded
<1>3. PICK n \in S : \A k \in S : ~(<<k, n>> \in Smaller)
  BY <1>2, WFMin
<1>4. ASSUME NEW k \in S PROVE n <= k
  <2>1. k \in Nat /\ n \in Nat
    OBVIOUS
  <2>2. k < n => <<k, n>> \in Smaller
    BY <2>1 DEF Smaller
  <2> QED
    BY <1>3, <2>1, <2>2
<1> QED
  BY <1>4

=============================================================================
