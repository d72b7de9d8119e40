---------------------------- MODULE OrderLemmas ----------------------------
(***************************************************************************)
(* Induction for the proofs.  The induction theorems of the library take   *)
(* a predicate as a parameter; these take the set of what satisfies it,    *)
(* and follow from the least member of a set of naturals.                  *)
(***************************************************************************)
EXTENDS WellFoundedInduction, FiniteSetTheorems, TLAPS

\* The naturals are well ordered.
LEMMA NatWF == IsWellFoundedOn({ss \in Nat \X Nat : ss[1] < ss[2]}, Nat)
BY NatLessThanWellFounded DEF OpToRel

\* A set of naturals that is not empty has a least member.
LEMMA Least ==
    ASSUME NEW S \in SUBSET Nat, S # {}
    PROVE \E m \in S : \A k \in S : m <= k
<1> DEFINE R == {ss \in Nat \X Nat : ss[1] < ss[2]}
<1>1. IsWellFoundedOn(R, Nat) BY NatWF
<1>2. \A x, y \in Nat : <<y, x>> \notin R => x <= y
  OBVIOUS
<1> HIDE DEF R
<1>3. PICK x \in S : \A y \in S : ~(<<y, x>> \in R)
  BY <1>1, WFMin
<1> QED BY <1>2, <1>3

\* Induction, over a set in place of a predicate.
LEMMA SetInduction ==
    ASSUME NEW S, 0 \in S, \A n \in Nat : n \in S => n + 1 \in S
    PROVE Nat \subseteq S
<1> SUFFICES ASSUME Nat \ S # {} PROVE FALSE
  OBVIOUS
<1>1. PICK m \in Nat \ S : \A k \in Nat \ S : m <= k
  BY Least
<1>2. m # 0 /\ m - 1 \in Nat /\ ~(m <= m - 1) /\ (m - 1) + 1 = m
  BY <1>1
<1> QED BY <1>1, <1>2

\* A family of sets with the empty set, closed under one more member,
\* has every finite set.
LEMMA FiniteInduction ==
    ASSUME NEW S, IsFiniteSet(S), NEW F, {} \in F,
           \A T \in SUBSET S, x \in S : T \in F => T \cup {x} \in F
    PROVE S \in F
<1> DEFINE G == {n \in Nat : \A T \in SUBSET S : Cardinality(T) = n => T \in F}
<1>1. 0 \in G
  BY FS_EmptySet, FS_Subset
<1>2. \A n \in Nat : n \in G => n + 1 \in G
  <2> SUFFICES ASSUME NEW n \in Nat, n \in G, NEW T \in SUBSET S, Cardinality(T) = n + 1 PROVE T \in F
    OBVIOUS
  <2>1. IsFiniteSet(T) BY FS_Subset
  <2>2. PICK x \in T : TRUE
    <3>1. Cardinality(T) # 0
      OBVIOUS
    <3> QED BY <3>1, FS_EmptySet
  <2>3. IsFiniteSet(T \ {x}) /\ Cardinality(T \ {x}) = n
    <3>1. Cardinality(T \ {x}) = Cardinality(T) - 1 /\ IsFiniteSet(T \ {x})
      BY <2>1, FS_RemoveElement
    <3> QED BY <3>1
  <2>4. T \ {x} \in F BY <2>3
  <2>5. (T \ {x}) \cup {x} = T OBVIOUS
  <2> QED BY <2>4, <2>5
<1>3. Nat \subseteq G BY <1>1, <1>2, SetInduction
<1>4. Cardinality(S) \in Nat BY FS_CardinalityType
<1> QED BY <1>3, <1>4
=============================================================================
