----------------------------- MODULE ProofLemmas -----------------------------
(***************************************************************************)
(* Facts about numbers and sets that the proofs about the components share *)
(* and the library does not state: least and greatest elements, induction  *)
(* over a set of numbers, the places of a list, and lists.                 *)
(***************************************************************************)
EXTENDS Integers, Sequences, FiniteSetsExt, WellFoundedInduction, TLAPS

\* A set of natural numbers that is not empty has a least element, and Min is it.
LEMMA MinOfNats ==
  ASSUME NEW S \in SUBSET Nat, S # {}
  PROVE  Min(S) \in S /\ \A y \in S : Min(S) <= y
<1> DEFINE R == {pair \in Nat \X Nat : pair[1] < pair[2]}
<1>1. IsWellFoundedOn(R, Nat)
  BY NatLessThanWellFounded, Zenon DEF OpToRel
<1>2. PICK x \in S : \A y \in S : <<y, x>> \notin R
  <2> HIDE DEF R
  <2> QED BY <1>1, WFMin
<1>3. ASSUME NEW y \in S PROVE x <= y
  <2>1. y < x => <<y, x>> \in R
    OBVIOUS
  <2> QED BY <1>2, <2>1
<1> QED BY <1>3 DEF Min

\* A set that has 0, and the successor of each number it has, has all of them.
LEMMA SetInduction ==
  ASSUME NEW S, 0 \in S, \A n \in Nat : n \in S => n + 1 \in S
  PROVE  \A n \in Nat : n \in S
<1> DEFINE T == {n \in Nat : n \notin S}
<1> SUFFICES ASSUME T # {} PROVE FALSE
  OBVIOUS
<1>1. Min(T) \in T /\ \A y \in T : Min(T) <= y
  <2> HIDE DEF T
  <2>1. T \in SUBSET Nat
    BY DEF T
  <2> QED BY <2>1, MinOfNats
<1>2. Min(T) \in Nat \ {0} /\ Min(T) - 1 \in Nat
  BY <1>1
<1>3. Min(T) - 1 \in S
  BY <1>1, <1>2
<1> QED BY <1>1, <1>2, <1>3

\* The places of a list without its last one.
LEMMA PrefixWithoutLast ==
  ASSUME NEW n \in Nat
  PROVE  (1..(n + 1)) \ {n + 1} = 1..n /\ n + 1 \in 1..(n + 1)
<1>1. \A j : j \in (1..(n + 1)) \ {n + 1} <=> j \in 1..n
  OBVIOUS
<1>2. n + 1 \in 1..(n + 1)
  OBVIOUS
<1> QED BY <1>1, <1>2

\* The greatest place of a set of places that has the last one.
LEMMA MaxOfPrefix ==
  ASSUME NEW n \in Nat, NEW s \in SUBSET (1..(n + 1)), n + 1 \in s
  PROVE  Max(s) = n + 1
<1>1. \A y \in s : n + 1 >= y
  OBVIOUS
<1>2. \A x \in s : n + 1 <= x => x = n + 1
  OBVIOUS
<1> QED BY <1>1, <1>2 DEF Max

\* A set of natural numbers that is bounded and not empty has a greatest
\* element, and Max is it.
LEMMA MaxOfNats ==
  ASSUME NEW bound \in Nat, NEW S \in SUBSET Nat, S # {}, \A y \in S : y <= bound
  PROVE  Max(S) \in S /\ \A y \in S : y <= Max(S)
<1> DEFINE below == {n \in Nat : bound - n \in S}
<1>1. \A y \in S : bound - y \in below
  OBVIOUS
<1>2. PICK least \in below : \A y \in below : least <= y
  <2>1. below \in SUBSET Nat /\ below # {}
    BY <1>1
  <2> HIDE DEF below
  <2> QED BY <2>1, MinOfNats
<1>3. bound - least \in S /\ \A y \in S : y <= bound - least
  <2>1. \A y \in S : least <= bound - y
    BY <1>1, <1>2
  <2> QED BY <1>2, <2>1
<1> QED BY <1>3 DEF Max

-----------------------------------------------------------------------------
(* Lists: functions whose places are the numbers up to their length *)

IsMap(f) == f = [x \in DOMAIN f |-> f[x]]
IsList(list) == IsMap(list) /\ Len(list) \in Nat /\ DOMAIN list = 1..Len(list)

\* A sequence over any set is a list.
LEMMA SequenceIsList ==
  ASSUME NEW S, NEW list \in Seq(S)
  PROVE  IsList(list)
BY DEF IsList, IsMap

LEMMA FunctionIsList ==
  ASSUME NEW n \in Nat, NEW list, IsMap(list), DOMAIN list = 1..n
  PROVE  IsList(list) /\ Len(list) = n
<1>1. list \in Seq({list[k] : k \in 1..n})
  BY DEF IsMap
<1>2. Len(list) = n
  BY <1>1
<1> QED BY <1>1, <1>2 DEF IsList

LEMMA AppendToList ==
  ASSUME NEW list, IsList(list), NEW e
  PROVE  /\ IsList(Append(list, e)) /\ Len(Append(list, e)) = Len(list) + 1
         /\ Append(list, e)[Len(list) + 1] = e
         /\ \A k \in 1..Len(list) : Append(list, e)[k] = list[k]
<1> DEFINE S == {list[k] : k \in 1..Len(list)} \cup {e}
<1>1. list \in Seq(S)
  BY DEF IsList, IsMap
<1>2. Append(list, e) \in Seq(S)
  <2> HIDE DEF S
  <2>1. e \in S
    BY DEF S
  <2> QED BY <1>1, <2>1
<1>3. IsList(Append(list, e))
  <2> HIDE DEF S
  <2> QED BY <1>2, SequenceIsList
<1>4. /\ Len(Append(list, e)) = Len(list) + 1
      /\ Append(list, e)[Len(list) + 1] = e
      /\ \A k \in 1..Len(list) : Append(list, e)[k] = list[k]
  <2> HIDE DEF S
  <2> QED BY <1>1
<1> QED BY <1>3, <1>4
=============================================================================
