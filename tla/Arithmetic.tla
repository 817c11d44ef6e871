------------------------------ MODULE Arithmetic ------------------------------
(***************************************************************************)
(* Facts about numbers on which the other proofs rest: a set of natural    *)
(* numbers has a least element, which is how they reason by induction.     *)
(***************************************************************************)
EXTENDS Naturals, WellFoundedInduction, TLAPS

\* A set of natural numbers that is not empty has a least element.
LEMMA LeastIn ==
  ASSUME NEW S \in SUBSET Nat, S # {}
  PROVE  \E x \in S : \A y \in S : x <= y
<1> DEFINE R == {ss \in Nat \X Nat : ss[1] < ss[2]}
<1>1. R = OpToRel(<, Nat) BY DEF OpToRel
<1>2. PICK x \in S : \A y \in S : ~(<<y, x>> \in OpToRel(<, Nat))
  BY WFMin, NatLessThanWellFounded
<1>3. \A y \in S : ~(<<y, x>> \in R) BY <1>1, <1>2
<1>4. ASSUME NEW y \in S PROVE ~(y < x) BY <1>3
<1> QED BY <1>4

\* Induction up to n: a set of numbers that has 0, and k whenever it has k - 1, has them all.
LEMMA Induct ==
  ASSUME NEW n \in Nat, NEW S, 0 \in S, \A k \in 1 .. n : k - 1 \in S => k \in S
  PROVE  \A k \in 0 .. n : k \in S
<1> DEFINE Bad == {k \in 0 .. n : k \notin S}
<1> SUFFICES ASSUME Bad # {} PROVE FALSE OBVIOUS
<1>1. Bad \in SUBSET Nat OBVIOUS
<1>2. PICK k \in Bad : \A j \in Bad : k <= j BY <1>1, LeastIn
<1>3. k \in 1 .. n BY <1>2
<1>4. k - 1 \notin Bad BY <1>2, <1>3
<1> QED BY <1>2, <1>3, <1>4
===============================================================================
