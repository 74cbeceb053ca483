---------------------------- MODULE RankTheorems ----------------------------
(***************************************************************************)
(* Numbering the elements of a finite set along a strict order, given as a *)
(* set of pairs: the n-th element is the one with n - 1 elements below it. *)
(* The ORDER BY of a page and the movies kept of a page of TMDb results    *)
(* are such numberings.                                                    *)
(***************************************************************************)
EXTENDS Integers, FiniteSetTheorems, TLAPS

StrictOrder(R, S) ==
  /\ \A x \in S : <<x, x>> \notin R
  /\ \A x, y, z \in S : <<x, y>> \in R /\ <<y, z>> \in R => <<x, z>> \in R
  /\ \A x, y \in S : x # y => <<x, y>> \in R \/ <<y, x>> \in R

Below(R, S, x) == {y \in S : <<y, x>> \in R}
Rank(R, S, x) == Cardinality(Below(R, S, x))
Nth(R, S, n) == CHOOSE x \in S : Rank(R, S, x) = n - 1

LEMMA RankRange ==
  ASSUME NEW S, IsFiniteSet(S), NEW R, StrictOrder(R, S), NEW x \in S
  PROVE  Rank(R, S, x) \in 0..(Cardinality(S) - 1)
<1>1. Below(R, S, x) \subseteq S \ {x}
  BY DEF Below, StrictOrder
<1>2. IsFiniteSet(S \ {x}) /\ Cardinality(S \ {x}) = Cardinality(S) - 1
  BY FS_RemoveElement
<1>3. /\ IsFiniteSet(Below(R, S, x))
      /\ Cardinality(Below(R, S, x)) <= Cardinality(S \ {x})
  BY <1>1, <1>2, FS_Subset
<1>4. Cardinality(S) \in Nat /\ Cardinality(Below(R, S, x)) \in Nat
  BY <1>3, FS_CardinalityType
<1> QED
  BY <1>2, <1>3, <1>4 DEF Rank

LEMMA RankGrows ==
  ASSUME NEW S, IsFiniteSet(S), NEW R, StrictOrder(R, S),
         NEW x \in S, NEW y \in S, <<x, y>> \in R
  PROVE  Rank(R, S, x) < Rank(R, S, y)
<1> DEFINE B == Below(R, S, x)
           C == Below(R, S, y)
<1>1. B \cup {x} \subseteq C /\ x \notin B
  BY DEF Below, StrictOrder
<1>2. IsFiniteSet(B) /\ IsFiniteSet(C)
  BY FS_Subset DEF Below
<1>3. IsFiniteSet(B \cup {x}) /\ Cardinality(B \cup {x}) = Cardinality(B) + 1
  BY <1>1, <1>2, FS_AddElement
<1>4. Cardinality(B \cup {x}) <= Cardinality(C)
  BY <1>1, <1>2, FS_Subset
<1>5. Cardinality(B) \in Nat /\ Cardinality(C) \in Nat
  BY <1>2, FS_CardinalityType
<1> QED
  BY <1>3, <1>4, <1>5 DEF Rank

LEMMA RankDecides ==
  ASSUME NEW S, IsFiniteSet(S), NEW R, StrictOrder(R, S), NEW x \in S, NEW y \in S
  PROVE  /\ Rank(R, S, x) = Rank(R, S, y) => x = y
         /\ Rank(R, S, x) < Rank(R, S, y) => <<x, y>> \in R
<1>1. Rank(R, S, x) \in Int /\ Rank(R, S, y) \in Int
  BY RankRange
<1>2. <<x, y>> \in R => Rank(R, S, x) < Rank(R, S, y)
  BY RankGrows
<1>3. <<y, x>> \in R => Rank(R, S, y) < Rank(R, S, x)
  BY RankGrows
<1> QED
  BY <1>1, <1>2, <1>3 DEF StrictOrder

(* As many ranks as elements, and no rank twice: every rank is taken.      *)
LEMMA RankOnto ==
  ASSUME NEW S, IsFiniteSet(S), NEW R, StrictOrder(R, S), NEW k \in 0..(Cardinality(S) - 1)
  PROVE  \E x \in S : Rank(R, S, x) = k
<1> DEFINE T == 0..(Cardinality(S) - 1)
           f == [x \in S |-> Rank(R, S, x)]
<1>1. Cardinality(S) \in Nat
  BY FS_CardinalityType
<1>2. IsFiniteSet(T) /\ Cardinality(T) = Cardinality(S)
  <2>1. ASSUME NEW last \in Int
        PROVE  IsFiniteSet(0..last) /\ Cardinality(0..last) = IF 0 > last THEN 0 ELSE last - 0 + 1
    BY FS_Interval
  <2> QED
    BY <1>1, <2>1
<1>3. f \in Injection(S, T)
  <2>1. f \in [S -> T]
    BY RankRange
  <2>2. \A x, y \in S : f[x] = f[y] => x = y
    BY RankDecides
  <2> QED
    BY <2>1, <2>2 DEF Injection, IsInjective
<1>4. f \in Surjection(S, T)
  BY <1>2, <1>3, FS_Injection
<1>5. PICK x \in S : f[x] = k
  BY <1>4 DEF Surjection
<1> QED
  BY <1>5

(* The n-th element is one, and the only one, with n - 1 below it.         *)
LEMMA NthRank ==
  ASSUME NEW S, IsFiniteSet(S), NEW R, StrictOrder(R, S), NEW n \in 1..Cardinality(S)
  PROVE  Nth(R, S, n) \in S /\ Rank(R, S, Nth(R, S, n)) = n - 1
<1>1. Cardinality(S) \in Nat
  BY FS_CardinalityType
<1>2. n - 1 \in 0..(Cardinality(S) - 1)
  BY <1>1
<1>3. \E x \in S : Rank(R, S, x) = n - 1
  BY <1>2, RankOnto
<1> QED
  BY <1>3 DEF Nth

(* Every element has a number, ...                                         *)
LEMMA EveryoneNumbered ==
  ASSUME NEW S, IsFiniteSet(S), NEW R, StrictOrder(R, S), NEW x \in S
  PROVE  \E n \in 1..Cardinality(S) : Nth(R, S, n) = x
<1>1. Cardinality(S) \in Nat /\ Rank(R, S, x) \in 0..(Cardinality(S) - 1)
  BY FS_CardinalityType, RankRange
<1> DEFINE n == Rank(R, S, x) + 1
<1>2. n \in 1..Cardinality(S) /\ n - 1 = Rank(R, S, x)
  BY <1>1
<1> HIDE DEF n
<1>3. Nth(R, S, n) \in S /\ Rank(R, S, Nth(R, S, n)) = Rank(R, S, x)
  BY <1>2, NthRank
<1>4. Nth(R, S, n) = x
  BY <1>3, RankDecides
<1> QED
  BY <1>2, <1>4

(* ... and the numbers follow the order.                                   *)
LEMMA NumbersInOrder ==
  ASSUME NEW S, IsFiniteSet(S), NEW R, StrictOrder(R, S),
         NEW m \in 1..Cardinality(S), NEW n \in 1..Cardinality(S), m < n
  PROVE  <<Nth(R, S, m), Nth(R, S, n)>> \in R
<1>1. /\ Nth(R, S, m) \in S /\ Rank(R, S, Nth(R, S, m)) = m - 1
      /\ Nth(R, S, n) \in S /\ Rank(R, S, Nth(R, S, n)) = n - 1
  BY NthRank
<1>2. m - 1 < n - 1
  OBVIOUS
<1> QED
  BY <1>1, <1>2, RankDecides
=============================================================================
