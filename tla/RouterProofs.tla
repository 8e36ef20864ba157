---------------------------- MODULE RouterProofs ----------------------------
(***************************************************************************)
(* Proofs about Router, for every number of targets, every weight and      *)
(* every rule.                                                             *)
(***************************************************************************)
EXTENDS Router, FiniteSetTheorems, ProofLemmas

-----------------------------------------------------------------------------
(* The rank of a candidate: how many candidates are before it *)

Below(S, t) == {u \in S : u < t}

LEMMA PlacesAreFinite ==
  ASSUME NEW n \in Nat, NEW S \in SUBSET (1..n)
  PROVE  IsFiniteSet(S) /\ Cardinality(S) \in 0..n
<1>1. IsFiniteSet(1..n) /\ Cardinality(1..n) = n
  BY FS_Interval
<1>2. IsFiniteSet(S) /\ Cardinality(S) <= Cardinality(1..n)
  BY <1>1, FS_Subset
<1> QED BY <1>1, <1>2, FS_CardinalityType

\* A set of n places has a member of each of the ranks from 0 to n - 1.
LEMMA RankTaken ==
  \A m \in Nat : \A S \in SUBSET (1..m) : \A k \in 0..(Cardinality(S) - 1) :
    \E t \in S : Cardinality(Below(S, t)) = k
<1> DEFINE Full == {m \in Nat : \A S \in SUBSET (1..m) : \A k \in 0..(Cardinality(S) - 1) :
                      \E t \in S : Cardinality(Below(S, t)) = k}
<1>1. 0 \in Full
  <2>1. \A S \in SUBSET (1..0) : Cardinality(S) = 0
    BY PlacesAreFinite
  <2> QED BY <2>1
<1>2. ASSUME NEW m \in Nat, m \in Full PROVE m + 1 \in Full
  <2> SUFFICES ASSUME NEW S \in SUBSET (1..(m + 1)), NEW k \in 0..(Cardinality(S) - 1)
               PROVE  \E t \in S : Cardinality(Below(S, t)) = k
    OBVIOUS
  <2> DEFINE rest == S \ {m + 1}
  <2>1. rest \in SUBSET (1..m)
    BY PrefixWithoutLast
  <2>2. CASE m + 1 \notin S
    <3>1. rest = S
      BY <2>2
    <3> QED BY <1>2, <2>1, <3>1
  <2>3. CASE m + 1 \in S
    <3>1. Cardinality(rest) = Cardinality(S) - 1 /\ Cardinality(S) \in Nat
      BY <2>3, PlacesAreFinite, FS_RemoveElement
    <3>2. CASE k \in 0..(Cardinality(rest) - 1)
      <4>1. PICK t \in rest : Cardinality(Below(rest, t)) = k
        BY <1>2, <2>1, <3>2
      <4>2. Below(rest, t) = Below(S, t)
        BY <2>1, <4>1 DEF Below
      <4> QED BY <4>1, <4>2
    <3>3. CASE k = Cardinality(rest)
      <4>1. Below(S, m + 1) = rest
        <5>1. \A u \in S : u < m + 1 <=> u \in rest
          BY <2>1
        <5> QED BY <5>1 DEF Below
      <4> QED BY <2>3, <3>3, <4>1
    <3> QED BY <3>1, <3>2, <3>3
  <2> QED BY <2>2, <2>3
<1> HIDE DEF Full
<1>3. \A m \in Nat : m \in Full
  BY <1>1, <1>2, SetInduction
<1> QED BY <1>3 DEF Full

\* Members of a set of places that have the same rank are the same.
LEMMA RankOnce ==
  ASSUME NEW n \in Nat, NEW S \in SUBSET (1..n), NEW t \in S, NEW u \in S,
         Cardinality(Below(S, t)) = Cardinality(Below(S, u))
  PROVE  t = u
<1>1. ASSUME NEW a \in S, NEW b \in S, a < b
      PROVE  Cardinality(Below(S, a)) # Cardinality(Below(S, b))
  <2>1. Below(S, a) \subseteq Below(S, b) /\ a \in Below(S, b) /\ a \notin Below(S, a)
    <3>1. S \subseteq Int /\ \A x \in S : x < a => x < b
      BY <1>1
    <3>2. ~(a < a)
      BY <3>1
    <3> QED BY <1>1, <3>1, <3>2 DEF Below
  <2>2. IsFiniteSet(Below(S, b))
    BY PlacesAreFinite DEF Below
  <2> QED BY <2>1, <2>2, FS_Subset
<1>2. t \in Int /\ u \in Int
  OBVIOUS
<1> QED BY <1>1, <1>2

LEMMA RankBound ==
  ASSUME NEW n \in Nat, NEW S \in SUBSET (1..n), NEW t \in S
  PROVE  Cardinality(Below(S, t)) \in 0..(Cardinality(S) - 1)
<1>1. IsFiniteSet(S) /\ Cardinality(S) \in Nat
  BY PlacesAreFinite
<1>2. Below(S, t) \subseteq S /\ t \notin Below(S, t)
  BY DEF Below
<1>3. Cardinality(Below(S, t)) \in Nat /\ Cardinality(Below(S, t)) <= Cardinality(S)
  BY <1>1, <1>2, FS_Subset, FS_CardinalityType
<1>4. Cardinality(Below(S, t)) # Cardinality(S)
  BY <1>1, <1>2, FS_Subset
<1> QED BY <1>1, <1>3, <1>4

-----------------------------------------------------------------------------
(* The candidates *)

Count == Cardinality(Candidates)
Rank(t) == Cardinality(Below(Candidates, t))

LEMMA CandidatesAreTargets ==
  /\ Candidates \in SUBSET (1..N) /\ N \in Nat
  /\ Count \in 0..N /\ (Candidates # {} => Count > 0)
<1>1. Candidates \in SUBSET (1..N) /\ N \in Nat
  BY TargetsAssumption DEF Candidates, Routes, Targets
<1>2. IsFiniteSet(Candidates) /\ Count \in 0..N
  BY <1>1, PlacesAreFinite DEF Count
<1>3. Candidates # {} => Count > 0
  BY <1>2, FS_EmptySet DEF Count
<1> QED BY <1>1, <1>2, <1>3

LEMMA NthHasRank ==
  ASSUME NEW k \in 0..(Count - 1)
  PROVE  NthCandidate(k) \in Candidates /\ Rank(NthCandidate(k)) = k
<1>1. \E t \in Candidates : Cardinality({u \in Candidates : u < t}) = k
  BY CandidatesAreTargets, RankTaken DEF Count, Below
<1>2. k < Cardinality(Candidates)
  BY CandidatesAreTargets DEF Count
<1> QED BY <1>1, <1>2 DEF NthCandidate, Rank, Below

-----------------------------------------------------------------------------
(* The inductive invariant *)

\* What a router hands out is one of its candidates, or nothing; where it has
\* any, and is no header router.
PicksFromCandidates ==
  (kind # "HeaderBased" /\ Candidates # {}) =>
    \A k \in 1..Len(picks) :
      \/ picks[k] \in Candidates
      \/ /\ picks[k] = Failed /\ kind = "WeightBased"
         /\ \A t \in Candidates : Weight[t] <= 0

\* The pick at k is as many candidates behind the index as picks came after it,
\* but for whole rounds.
Behind(k) ==
  \E q \in Int : current - Rank(picks[k]) = (Len(picks) - k) + q * Count

PicksInTurn ==
  (kind = "Poll" /\ listener = "http" /\ Candidates # {}) =>
    /\ Len(picks) > 0 => current < Count
    /\ \A k \in 1..Len(picks) : picks[k] \in Candidates /\ Behind(k)

\* Without candidates any target of the list is handed out, if there is one.
PicksWithoutCandidates ==
  (kind # "HeaderBased" /\ Candidates = {} /\ Routes # {}) =>
    \A k \in 1..Len(picks) : picks[k] # Failed

IInv == TypeOK /\ PicksFromCandidates /\ PicksInTurn /\ PicksWithoutCandidates

-----------------------------------------------------------------------------
(* What each router hands out *)

\* A target handed out is added to the picks.
LEMMA ServeAdds ==
  ASSUME TypeOK, NEW t \in Targets \cup {Failed}, Serve(t)
  PROVE  /\ picks' \in Seq(Targets \cup {Failed})
         /\ Len(picks') = Len(picks) + 1 /\ Len(picks) \in Nat
         /\ picks'[Len(picks) + 1] = t
         /\ \A k \in 1..Len(picks) : picks'[k] = picks[k]
BY DEF Serve, TypeOK

LEMMA LeastPlace ==
  ASSUME NEW S \in SUBSET Targets, S # {}
  PROVE  (CHOOSE t \in S : \A u \in S : t <= u) \in S
<1>1. S \in SUBSET Nat
  BY TargetsAssumption DEF Targets
<1>2. \E t \in S : \A u \in S : t <= u
  BY <1>1, MinOfNats
<1> QED BY <1>2

\* The index of a Poll router stays a place, and one of a candidate.
LEMMA NextIndexInRange ==
  ASSUME TypeOK, Candidates # {}
  PROVE  NextIndex \in 0..(Count - 1) /\ NextIndex < length
<1>1. Candidates \in SUBSET (1..length) /\ length \in Nat
  BY TargetsAssumption DEF Candidates, Routes, Targets, TypeOK
<1>2. Count \in 0..length
  BY <1>1, PlacesAreFinite DEF Count
<1> QED BY <1>1, <1>2, CandidatesAreTargets DEF TypeOK, NextIndex, Count

LEMMA PollServes ==
  ASSUME TypeOK, PollPick
  PROVE  /\ current' \in Nat /\ (current' < length \/ current' = 0) /\ index' = index
         /\ \E t \in Targets :
              /\ Serve(t)
              /\ Candidates # {} => t \in Candidates /\ Rank(t) = NextIndex
         /\ (Candidates # {} /\ Keep) => current' = NextIndex
<1>1. CASE Candidates = {}
  BY <1>1 DEF PollPick, TypeOK, Routes
<1>2. CASE Candidates # {}
  <2>1. /\ Serve(NthCandidate(NextIndex)) /\ index' = index
        /\ current' = IF Keep THEN NextIndex ELSE current
    BY <1>2 DEF PollPick
  <2>2. NextIndex \in 0..(Count - 1) /\ NextIndex < length
    BY <1>2, NextIndexInRange
  <2>3. NthCandidate(NextIndex) \in Candidates /\ Rank(NthCandidate(NextIndex)) = NextIndex
    BY <2>2, NthHasRank
  <2>4. NthCandidate(NextIndex) \in Targets
    BY <2>3, CandidatesAreTargets DEF Targets
  <2> QED BY <1>2, <2>1, <2>2, <2>3, <2>4 DEF TypeOK
<1> QED BY <1>1, <1>2

LEMMA RandomServes ==
  ASSUME TypeOK, RandomPick
  PROVE  /\ current' = current /\ index' = index
         /\ \E t \in Targets : Serve(t) /\ (Candidates # {} => t \in Candidates)
BY CandidatesAreTargets DEF RandomPick, Routes, Targets

\* A turn of weights starts again once every candidate had its share: then one
\* is open as soon as one has a positive weight.
LEMMA ResetType ==
  ASSUME TypeOK
  PROVE  WeightReset \in [Targets -> Nat]
BY DEF TypeOK, WeightReset

LEMMA ResetOpens ==
  ASSUME TypeOK, Candidates # {}, {t \in Candidates : WeightReset[t] < Weight[t]} = {}
  PROVE  \A t \in Candidates : Weight[t] <= 0
<1>1. \A t \in Candidates : t \in Targets /\ Weight[t] \in Int /\ index[t] \in Nat
  BY CandidatesAreTargets, TargetsAssumption DEF TypeOK, Targets
<1>2. \A t \in Candidates : WeightReset[t] >= Weight[t]
  <2>1. \A t \in Candidates : WeightReset[t] \in Nat
    BY <1>1, ResetType
  <2> QED BY <1>1, <2>1
<1>3. CASE \A t \in Candidates : index[t] >= Weight[t]
  <2>1. \A t \in Candidates : WeightReset[t] = 0
    BY <1>1, <1>3 DEF WeightReset
  <2> QED BY <1>1, <1>2, <2>1
<1>4. CASE ~(\A t \in Candidates : index[t] >= Weight[t])
  <2>1. WeightReset = index
    BY <1>4 DEF WeightReset
  <2> QED BY <1>2, <1>4, <2>1
<1> QED BY <1>3, <1>4

LEMMA WeightServes ==
  ASSUME TypeOK, WeightPick
  PROVE  /\ current' = current /\ index' \in [Targets -> Nat]
         /\ \/ \E t \in Targets : Serve(t) /\ (Candidates # {} => t \in Candidates)
            \/ /\ Serve(Failed) /\ Candidates # {}
               /\ \A t \in Candidates : Weight[t] <= 0
<1> DEFINE reset == WeightReset
           open == {t \in Candidates : reset[t] < Weight[t]}
           first == CHOOSE t \in open : \A u \in open : t <= u
<1>1. /\ current' = current
      /\ \/ /\ Candidates = {}
            /\ \E t \in Routes :
                 /\ Serve(t)
                 /\ index' = IF Keep THEN [index EXCEPT ![t] = @ + 1] ELSE index
         \/ /\ Candidates # {} /\ open # {}
            /\ Serve(first)
            /\ index' = IF Keep THEN [reset EXCEPT ![first] = @ + 1] ELSE index
         \/ /\ Candidates # {} /\ open = {}
            /\ Serve(Failed)
            /\ index' = IF Keep THEN reset ELSE index
  BY DEF WeightPick
<1>2. reset \in [Targets -> Nat] /\ index \in [Targets -> Nat]
  BY ResetType DEF TypeOK
<1>3. open \in SUBSET Targets
  BY CandidatesAreTargets DEF Targets
<1>4. open # {} => first \in open
  <2> HIDE DEF open
  <2> QED BY <1>3, LeastPlace
<1>5. open = {} /\ Candidates # {} => \A t \in Candidates : Weight[t] <= 0
  BY ResetOpens
<1>6. open \subseteq Candidates
  OBVIOUS
<1>7. Routes \subseteq Targets
  BY DEF Routes
<1> HIDE DEF reset, open, first
<1> QED BY <1>1, <1>2, <1>3, <1>4, <1>5, <1>6, <1>7

-----------------------------------------------------------------------------
(* The steps *)

LEMMA HeaderServes ==
  ASSUME TypeOK, Routes # {}, NEW headers, HeaderPick(headers)
  PROVE  /\ kind = "HeaderBased" /\ current' = current /\ index' = index
         /\ \E t \in Targets \cup {Failed} : Serve(t)
<1> DEFINE hits == {t \in Candidates : Decides(t, headers)}
           first == CHOOSE t \in hits : \A u \in hits : t <= u
           failed == Breaks(Rule[first], headers[Rule[first].header_key])
<1>1. /\ kind = "HeaderBased" /\ current' = current /\ index' = index
      /\ Serve(IF hits = {} THEN 1 ELSE IF failed THEN Failed ELSE first)
  BY DEF HeaderPick
<1>2. hits \in SUBSET Targets
  BY CandidatesAreTargets DEF Targets
<1>3. hits # {} => first \in Targets
  <2> HIDE DEF hits
  <2> QED BY <1>2, LeastPlace
<1>4. 1 \in Targets
  BY TargetsAssumption DEF Targets, Routes
<1> HIDE DEF hits, first, failed
<1> QED BY <1>1, <1>3, <1>4

\* The candidates depend on the statuses alone.
LEMMA SameCandidates ==
  ASSUME alive' = alive, length' = length
  PROVE  /\ Candidates' = Candidates /\ Routes' = Routes /\ Count' = Count
         /\ \A t : Cardinality(Below(Candidates', t)) = Rank(t)
BY DEF Candidates, Routes, Unconfigured, Count, Rank

\* One more pick: it is a candidate's, and the earlier ones stay.
LEMMA PickKeeps ==
  ASSUME IInv, GetRoute
  PROVE  TypeOK' /\ PicksFromCandidates' /\ PicksWithoutCandidates'
<1>1. kind' = kind /\ listener' = listener /\ length' = length /\ alive' = alive
  BY DEF GetRoute
<1>2. TypeOK
  BY DEF IInv
<1>3. PICK t \in Targets \cup {Failed} :
        /\ Serve(t) /\ current' \in Nat /\ (current' < length \/ current' = 0)
        /\ index' \in [Targets -> Nat]
        /\ kind # "HeaderBased" =>
             \/ Routes = {}
             \/ t \in Targets /\ (Candidates # {} => t \in Candidates)
             \/ /\ t = Failed /\ kind = "WeightBased" /\ Candidates # {}
                /\ \A u \in Candidates : Weight[u] <= 0
  <2>0. CASE Routes = {} /\ NoRoutes
    BY <1>2, <2>0 DEF NoRoutes, TypeOK
  <2>1. CASE PollPick
    BY <1>2, <2>1, PollServes DEF TypeOK
  <2>2. CASE RandomPick
    BY <1>2, <2>2, RandomServes DEF TypeOK
  <2>3. CASE WeightPick
    <3>1. kind = "WeightBased"
      BY <2>3 DEF WeightPick
    <3> QED BY <1>2, <2>3, <3>1, WeightServes DEF TypeOK
  <2>4. ASSUME Routes # {}, NEW headers \in Requests, HeaderPick(headers)
        PROVE  \E t \in Targets \cup {Failed} :
                 /\ Serve(t) /\ kind = "HeaderBased" /\ index' \in [Targets -> Nat]
                 /\ current' \in Nat /\ (current' < length \/ current' = 0)
    BY <1>2, <2>4, HeaderServes DEF TypeOK
  <2> QED BY <2>0, <2>1, <2>2, <2>3, <2>4 DEF GetRoute
<1>4. /\ picks' \in Seq(Targets \cup {Failed})
      /\ Len(picks') = Len(picks) + 1 /\ Len(picks) \in Nat
      /\ picks'[Len(picks) + 1] = t
      /\ \A k \in 1..Len(picks) : picks'[k] = picks[k]
  BY <1>2, <1>3, ServeAdds
<1>5. \A k \in 1..Len(picks') : k \in 1..Len(picks) \/ k = Len(picks) + 1
  BY <1>4
<1>6. TypeOK'
  BY <1>1, <1>2, <1>3, <1>4 DEF TypeOK
<1>7. PicksFromCandidates'
  <2>1. Candidates # {} => Routes # {}
    BY DEF Candidates
  <2> QED BY <2>1, <1>1, <1>3, <1>4, <1>5, SameCandidates DEF IInv, PicksFromCandidates
<1>8. PicksWithoutCandidates'
  <2>1. \A u \in Targets : u # Failed
    BY TargetsAssumption DEF Targets, Failed
  <2> QED BY <1>1, <1>3, <1>4, <1>5, <2>1, SameCandidates DEF IInv, PicksWithoutCandidates
<1> QED BY <1>6, <1>7, <1>8

\* One pick of a Poll router: the index is the rank of the target it is of, and
\* every earlier pick is one more behind, less a round where the index wraps.
LEMMA PollKeepsTurn ==
  ASSUME IInv, GetRoute
  PROVE  PicksInTurn'
<1>1. kind' = kind /\ listener' = listener /\ length' = length /\ alive' = alive /\ TypeOK
  BY DEF GetRoute, IInv
<1>2. Candidates' = Candidates /\ Count' = Count /\ \A t : Cardinality(Below(Candidates', t)) = Rank(t)
  BY <1>1, SameCandidates
<1> SUFFICES ASSUME kind = "Poll", listener = "http", Candidates # {}
             PROVE  /\ Len(picks') > 0 => current' < Count
                    /\ \A k \in 1..Len(picks') :
                         /\ picks'[k] \in Candidates
                         /\ \E q \in Int : current' - Rank(picks'[k]) = (Len(picks') - k) + q * Count
  BY <1>1, <1>2 DEF PicksInTurn, Behind, Rank
<1>3. PollPick
  BY DEF GetRoute, RandomPick, WeightPick, HeaderPick, Candidates
<1>4. PICK t \in Targets : Serve(t) /\ t \in Candidates /\ Rank(t) = NextIndex
  BY <1>1, <1>3, PollServes
<1>5. current' = NextIndex /\ NextIndex \in 0..(Count - 1)
  BY <1>1, <1>3, PollServes, NextIndexInRange DEF Keep
<1>6. /\ Len(picks') = Len(picks) + 1 /\ Len(picks) \in Nat
      /\ picks'[Len(picks) + 1] = t
      /\ \A k \in 1..Len(picks) : picks'[k] = picks[k]
  BY <1>1, <1>4, ServeAdds
<1>7. Count \in Nat /\ current \in Nat
  BY <1>1, CandidatesAreTargets DEF TypeOK
<1>8. ASSUME NEW k, k = Len(picks')
      PROVE  /\ picks'[k] \in Candidates
             /\ \E q \in Int : current' - Rank(picks'[k]) = (Len(picks') - k) + q * Count
  <2>1. current' - Rank(picks'[k]) = (Len(picks') - k) + 0 * Count
    BY <1>4, <1>5, <1>6, <1>7, <1>8
  <2> QED BY <1>4, <1>6, <1>8, <2>1
<1>9. ASSUME NEW k \in 1..Len(picks)
      PROVE  /\ picks'[k] \in Candidates
             /\ \E q \in Int : current' - Rank(picks'[k]) = (Len(picks') - k) + q * Count
  <2>1. current < Count /\ picks[k] \in Candidates /\ Behind(k)
    BY <1>6 DEF IInv, PicksInTurn
  <2>2. PICK q \in Int : current - Rank(picks[k]) = (Len(picks) - k) + q * Count
    BY <2>1 DEF Behind
  <2>3. Rank(picks[k]) \in Int
    <3>1. Cardinality(Below(Candidates, picks[k])) \in 0..(Cardinality(Candidates) - 1)
      BY <2>1, CandidatesAreTargets, RankBound
    <3> QED BY <3>1 DEF Rank
  <2>4. NextIndex = IF current + 1 = Count THEN current + 1 - Count ELSE current + 1
    BY <1>7, <2>1 DEF NextIndex, Count
  <2>5. CASE current + 1 = Count
    <3>1. q - 1 \in Int /\ (q - 1) * Count = q * Count - Count /\ q * Count \in Int
      BY <1>7
    <3>2. current' - Rank(picks[k]) = (Len(picks') - k) + (q - 1) * Count
      BY <1>5, <1>6, <1>7, <2>2, <2>3, <2>4, <2>5, <3>1
    <3> QED BY <1>6, <2>1, <3>1, <3>2
  <2>6. CASE current + 1 # Count
    <3> DEFINE rounds == q * Count
    <3>1. rounds \in Int /\ current - Rank(picks[k]) = (Len(picks) - k) + rounds
      BY <1>7, <2>2
    <3> HIDE DEF rounds
    <3>3. current' = current + 1
      BY <1>5, <2>4, <2>6
    <3>4. Len(picks') = Len(picks) + 1 /\ Len(picks) \in Nat /\ k \in Nat
      BY <1>6
    <3>2. current' - Rank(picks[k]) = (Len(picks') - k) + rounds
      BY <1>7, <2>3, <3>1, <3>3, <3>4
    <3> QED BY <1>6, <2>1, <3>2 DEF rounds
  <2> QED BY <2>5, <2>6
<1>10. \A k \in 1..Len(picks') : k \in 1..Len(picks) \/ k = Len(picks')
  BY <1>6
<1>11. current' < Count
  BY <1>5, <1>7
<1> QED BY <1>8, <1>9, <1>10, <1>11

LEMMA StutterKeeps ==
  ASSUME IInv, UNCHANGED vars
  PROVE  IInv'
<1>1. /\ kind' = kind /\ listener' = listener /\ length' = length /\ alive' = alive
      /\ current' = current /\ index' = index /\ picks' = picks
  BY DEF vars
<1>2. /\ Candidates' = Candidates /\ Routes' = Routes /\ Count' = Count
      /\ \A t : Cardinality(Below(Candidates', t)) = Rank(t)
  BY <1>1, SameCandidates
<1>3. TypeOK' /\ PicksFromCandidates' /\ PicksWithoutCandidates'
  BY <1>1, <1>2 DEF IInv, TypeOK, PicksFromCandidates, PicksWithoutCandidates
<1>4. PicksInTurn'
  BY <1>1, <1>2 DEF IInv, PicksInTurn, Behind, Rank
<1> QED BY <1>3, <1>4 DEF IInv

LEMMA UpdateKeeps ==
  ASSUME IInv, NEW e \in Endpoints, NEW status \in {"alive", "dead"}, UpdateRouteAlive(e, status)
  PROVE  IInv'
<1>1. /\ alive' = [t \in Targets |-> IF t \in Routes /\ EndpointOf[t] = e
                                    THEN status ELSE alive[t]]
      /\ picks' = IF alive' = alive THEN picks ELSE <<>>
      /\ UNCHANGED <<kind, listener, length, current, index>>
  BY DEF UpdateRouteAlive
<1>2. alive' \in [Targets -> {"none", "alive", "dead"}]
  BY <1>1 DEF IInv, TypeOK
<1>3. CASE alive' = alive
  <2>1. UNCHANGED vars
    BY <1>1, <1>3 DEF vars
  <2> QED BY <2>1, StutterKeeps
<1>4. CASE alive' # alive
  <2>1. picks' = <<>> /\ Len(picks') = 0 /\ picks' \in Seq(Targets \cup {Failed})
    BY <1>1, <1>4
  <2>2. TypeOK'
    BY <1>1, <1>2, <2>1 DEF IInv, TypeOK
  <2>3. PicksFromCandidates' /\ PicksInTurn' /\ PicksWithoutCandidates'
    BY <2>1 DEF PicksFromCandidates, PicksInTurn, PicksWithoutCandidates
  <2> QED BY <2>2, <2>3 DEF IInv
<1> QED BY <1>3, <1>4

LEMMA InitHolds == Init => IInv
<1> SUFFICES ASSUME Init PROVE IInv
  OBVIOUS
<1>1. picks = <<>> /\ Len(picks) = 0 /\ picks \in Seq(Targets \cup {Failed})
  BY DEF Init
<1>2. TypeOK
  BY <1>1, TargetsAssumption DEF Init, TypeOK
<1> QED BY <1>1, <1>2 DEF IInv, PicksFromCandidates, PicksInTurn, PicksWithoutCandidates

LEMMA NextKeeps == IInv /\ [Next]_vars => IInv'
<1> SUFFICES ASSUME IInv, [Next]_vars PROVE IInv'
  OBVIOUS
<1>1. CASE GetRoute
  BY <1>1, PickKeeps, PollKeepsTurn DEF IInv
<1>2. ASSUME NEW e \in Endpoints, NEW status \in {"alive", "dead"}, UpdateRouteAlive(e, status)
      PROVE  IInv'
  BY <1>2, UpdateKeeps
<1>3. CASE UNCHANGED vars
  BY <1>3, StutterKeeps
<1> QED BY <1>1, <1>2, <1>3 DEF Next

-----------------------------------------------------------------------------
(* Rounds *)

LEMMA SmallMultiple ==
  ASSUME NEW n \in Nat, NEW q \in Int, NEW x \in Int, x = n * q, -n < x, x < n
  PROVE  x = 0
<1>1. CASE q >= 1
  <2>1. n * (q - 1) >= 0 /\ n * (q - 1) = n * q - n
    BY <1>1
  <2> QED BY <2>1
<1>2. CASE q <= -1
  <2>1. n * (-q - 1) >= 0 /\ n * (-q - 1) = -(n * q) - n
    BY <1>2
  <2> QED BY <2>1
<1>3. CASE q = 0
  BY <1>3
<1> QED BY <1>1, <1>2, <1>3

\* Two ranks that differ by a distance, less whole rounds, are the same exactly
\* when the distance is one of whole rounds.
LEMMA WholeRounds ==
  ASSUME NEW n \in Nat \ {0}, NEW distance \in Int, NEW difference \in Int, NEW q \in Int,
         difference = distance + q * n, -n < difference, difference < n
  PROVE  difference = 0 <=> distance % n = 0
<1> DEFINE quotient == distance \div n
           rest == distance % n
<1>1. quotient \in Int /\ rest \in 0..(n - 1) /\ distance = n * quotient + rest
  OBVIOUS
<1> HIDE DEF quotient, rest
<1>2. ASSUME difference = 0 PROVE rest = 0
  <2>1. rest = n * (-q - quotient)
    <3>1. n * (-q - quotient) = -(q * n) - n * quotient /\ q * n \in Int /\ n * quotient \in Int
      BY <1>1
    <3> QED BY <1>1, <1>2, <3>1
  <2>2. -q - quotient \in Int
    BY <1>1
  <2> QED BY <1>1, <2>1, <2>2, SmallMultiple
<1>3. ASSUME rest = 0 PROVE difference = 0
  <2>1. difference = n * (quotient + q)
    BY <1>1, <1>3
  <2>2. quotient + q \in Int
    BY <1>1
  <2> QED BY <2>1, <2>2, SmallMultiple
<1> QED BY <1>2, <1>3 DEF rest

\* The picks of a Poll router go round its candidates.
LEMMA InvGoesRound == IInv => RoundRobin
<1> SUFFICES ASSUME IInv, kind = "Poll", listener = "http", Candidates # {},
                    NEW i \in 1..Len(picks), NEW j \in 1..Len(picks)
             PROVE  picks[i] = picks[j] <=> (i - j) % Count = 0
  BY DEF RoundRobin, GoesRound, Count
<1>1. /\ picks[i] \in Candidates /\ picks[j] \in Candidates
      /\ Behind(i) /\ Behind(j)
  BY DEF IInv, PicksInTurn
<1>2. /\ Count \in Nat \ {0} /\ current \in Int /\ Len(picks) \in Int
      /\ Candidates \in SUBSET (1..N) /\ N \in Nat
  BY CandidatesAreTargets DEF IInv, TypeOK
<1>3. Rank(picks[i]) \in 0..(Count - 1) /\ Rank(picks[j]) \in 0..(Count - 1)
  BY <1>1, <1>2, RankBound DEF Rank, Count
<1>4. PICK p \in Int : current - Rank(picks[i]) = (Len(picks) - i) + p * Count
  BY <1>1 DEF Behind
<1>5. PICK q \in Int : current - Rank(picks[j]) = (Len(picks) - j) + q * Count
  BY <1>1 DEF Behind
<1>6. Rank(picks[i]) - Rank(picks[j]) = (i - j) + (q - p) * Count
  <2> DEFINE roundsI == p * Count
             roundsJ == q * Count
             rounds == (q - p) * Count
  <2>1. rounds = roundsJ - roundsI /\ roundsI \in Int /\ roundsJ \in Int
    BY <1>2
  <2>2. /\ current - Rank(picks[i]) = (Len(picks) - i) + roundsI
        /\ current - Rank(picks[j]) = (Len(picks) - j) + roundsJ
    BY <1>4, <1>5
  <2> HIDE DEF roundsI, roundsJ, rounds
  <2>3. Rank(picks[i]) - Rank(picks[j]) = (i - j) + rounds
    BY <1>2, <1>3, <2>1, <2>2
  <2> QED BY <2>3 DEF rounds
<1>7. Rank(picks[i]) - Rank(picks[j]) = 0 <=> (i - j) % Count = 0
  <2> DEFINE difference == Rank(picks[i]) - Rank(picks[j])
  <2>1. /\ difference \in Int /\ -Count < difference /\ difference < Count
        /\ q - p \in Int /\ i - j \in Int
    BY <1>2, <1>3
  <2> HIDE DEF difference
  <2>2. difference = (i - j) + (q - p) * Count
    BY <1>6 DEF difference
  <2>3. difference = 0 <=> (i - j) % Count = 0
    <3> DEFINE distance == i - j
               rounds == q - p
    <3>1. distance \in Int /\ rounds \in Int /\ difference = distance + rounds * Count
      BY <2>1, <2>2
    <3> HIDE DEF distance, rounds
    <3>2. difference = 0 <=> distance % Count = 0
      BY <1>2, <2>1, <3>1, WholeRounds
    <3> QED BY <3>2 DEF distance
  <2> QED BY <2>3 DEF difference
<1>8. Rank(picks[i]) = Rank(picks[j]) <=> picks[i] = picks[j]
  BY <1>1, <1>2, RankOnce DEF Rank
<1> QED BY <1>3, <1>7, <1>8

-----------------------------------------------------------------------------
(* The sum of a function over a set of places *)

\* A set of places without one of them has one less.
LEMMA OneLess ==
  ASSUME NEW n \in Nat, NEW s \in SUBSET (1..n)
  PROVE  /\ Cardinality(s) \in 0..n /\ (Cardinality(s) = 0 <=> s = {})
         /\ \A x \in s : \A c \in Nat : Cardinality(s) = c + 1 => Cardinality(s \ {x}) = c
<1>1. IsFiniteSet(s) /\ Cardinality(s) \in 0..n
  BY PlacesAreFinite
<1>2. Cardinality(s) = 0 <=> s = {}
  BY <1>1, FS_EmptySet
<1>3. ASSUME NEW x \in s PROVE Cardinality(s \ {x}) = Cardinality(s) - 1
  BY <1>1, FS_RemoveElement
<1> QED BY <1>1, <1>2, <1>3

\* What a sum over a set is, by the sums over its subsets.
SumAfter(g, sum, s) ==
  IF s = {} THEN 0 ELSE LET x == CHOOSE x \in s : TRUE IN g[x] + sum[s \ {x}]

SumsUp(g, sum, S) == sum = [s \in SUBSET S |-> SumAfter(g, sum, s)]

\* The recursion that a sum over a set stands for is well-founded.
LEMMA SumExists ==
  ASSUME NEW n \in Nat, NEW S \in SUBSET (1..n), NEW g
  PROVE  \E sum : SumsUp(g, sum, S)
<1> DEFINE Small(c) == {s \in SUBSET S : Cardinality(s) <= c}
           Defined == {c \in Nat : \E sum : sum = [s \in Small(c) |-> SumAfter(g, sum, s)]}
<1>1. ASSUME NEW s \in SUBSET S
      PROVE  /\ Cardinality(s) \in 0..n /\ (Cardinality(s) = 0 <=> s = {})
             /\ \A x \in s : s \ {x} \in SUBSET S /\ Cardinality(s \ {x}) = Cardinality(s) - 1
  <2>1. s \in SUBSET (1..n)
    OBVIOUS
  <2>2. ASSUME NEW x \in s PROVE Cardinality(s \ {x}) = Cardinality(s) - 1
    BY <2>1, PlacesAreFinite, FS_RemoveElement
  <2> QED BY <2>1, <2>2, OneLess
<1>2. 0 \in Defined
  <2> DEFINE sum == [s \in Small(0) |-> 0]
  <2>1. \A s \in Small(0) : SumAfter(g, sum, s) = 0
    BY <1>1 DEF SumAfter
  <2>2. sum = [s \in Small(0) |-> SumAfter(g, sum, s)]
    BY <2>1
  <2> QED BY <2>2
<1>3. ASSUME NEW c \in Nat, c \in Defined PROVE c + 1 \in Defined
  <2>1. PICK sum : sum = [s \in Small(c) |-> SumAfter(g, sum, s)]
    BY <1>3
  <2> DEFINE next == [s \in Small(c + 1) |-> SumAfter(g, sum, s)]
  <2>2. ASSUME NEW s \in Small(c + 1) PROVE next[s] = SumAfter(g, next, s)
    <3>1. CASE s = {}
      BY <3>1 DEF SumAfter
    <3>2. CASE s # {}
      <4> DEFINE x == CHOOSE x \in s : TRUE
      <4>1. x \in s
        BY <3>2
      <4>2. s \ {x} \in Small(c) /\ s \ {x} \in Small(c + 1)
        BY <1>1, <4>1
      <4>3. next[s \ {x}] = sum[s \ {x}]
        BY <2>1, <4>2
      <4> HIDE DEF Small
      <4>4. next[s] = SumAfter(g, sum, s)
        BY <2>2
      <4> HIDE DEF next
      <4> QED BY <3>2, <4>3, <4>4 DEF SumAfter
    <3> QED BY <3>1, <3>2
  <2>3. next = [s \in Small(c + 1) |-> SumAfter(g, next, s)]
    <3>1. DOMAIN next = Small(c + 1) /\ next = [s \in DOMAIN next |-> next[s]]
      OBVIOUS
    <3> HIDE DEF next, Small
    <3> QED BY <2>2, <3>1, Zenon
  <2> HIDE DEF next
  <2>4. \E f : f = [s \in Small(c + 1) |-> SumAfter(g, f, s)]
    <3> HIDE DEF Small
    <3> QED BY <2>3
  <2> HIDE DEF Small
  <2> QED BY <2>4
<1>4. n \in Defined
  <2> HIDE DEF Defined
  <2> QED BY <1>2, <1>3, SetInduction
<1>5. Small(n) = SUBSET S
  BY <1>1
<1> QED BY <1>4, <1>5 DEF SumsUp

LEMMA SumIsFold ==
  ASSUME NEW n \in Nat, NEW S \in SUBSET (1..n), NEW g
  PROVE  \E sum : SumsUp(g, sum, S) /\ SumFunctionOnSet(g, S) = sum[S]
<1> DEFINE sum == CHOOSE f : f = [s \in SUBSET S |-> SumAfter(g, f, s)]
<1>1. SumsUp(g, sum, S)
  <2>1. \E f : f = [s \in SUBSET S |-> SumAfter(g, f, s)]
    <3>1. \E f : SumsUp(g, f, S)
      BY SumExists
    <3> QED BY <3>1, Zenon DEF SumsUp
  <2> QED BY <2>1, Zenon DEF SumsUp
<1>2. SumFunctionOnSet(g, S) = sum[S]
  BY Zenon DEF SumFunctionOnSet, FoldFunctionOnSet, MapThenFoldSet, SumAfter
<1> HIDE DEF sum
<1> QED BY <1>1, <1>2

\* The sums of two sets agree on what they share.
LEMMA SumsAgree ==
  ASSUME NEW n \in Nat, NEW S \in SUBSET (1..n), NEW T \in SUBSET S, NEW g,
         NEW sum, SumsUp(g, sum, S), NEW part, SumsUp(g, part, T)
  PROVE  \A s \in SUBSET T : sum[s] = part[s]
<1> DEFINE Same == {c \in Nat : \A s \in SUBSET T : Cardinality(s) = c => sum[s] = part[s]}
<1>1. ASSUME NEW s \in SUBSET T
      PROVE  /\ sum[s] = SumAfter(g, sum, s) /\ part[s] = SumAfter(g, part, s)
             /\ Cardinality(s) \in 0..n /\ (Cardinality(s) = 0 <=> s = {})
             /\ s \in SUBSET (1..n) /\ \A x \in s : s \ {x} \in SUBSET T
  <2>1. sum[s] = SumAfter(g, sum, s) /\ part[s] = SumAfter(g, part, s)
    BY DEF SumsUp
  <2>2. s \in SUBSET (1..n)
    OBVIOUS
  <2> QED BY <2>1, <2>2, OneLess
<1>2. 0 \in Same
  BY <1>1 DEF SumAfter
<1>3. ASSUME NEW c \in Nat, c \in Same PROVE c + 1 \in Same
  <2>0. c + 1 \in Nat
    OBVIOUS
  <2> SUFFICES ASSUME NEW s \in SUBSET T, Cardinality(s) = c + 1 PROVE sum[s] = part[s]
    BY <2>0, Zenon
  <2> DEFINE x == CHOOSE x \in s : TRUE
  <2>1. s # {} /\ x \in s
    BY <1>1
  <2> HIDE DEF x, Same
  <2>2. s \ {x} \in SUBSET T /\ Cardinality(s \ {x}) = c
    <3>1. s \ {x} \in SUBSET T /\ s \in SUBSET (1..n)
      BY <1>1, <2>1
    <3>2. Cardinality(s \ {x}) = c
      BY <2>1, <3>1, OneLess
    <3> QED BY <3>1, <3>2
  <2>3. sum[s \ {x}] = part[s \ {x}]
    BY <1>3, <2>2 DEF Same
  <2>4. sum[s] = SumAfter(g, sum, s) /\ part[s] = SumAfter(g, part, s)
    BY <1>1
  <2>5. sum[s] = g[x] + sum[s \ {x}] /\ part[s] = g[x] + part[s \ {x}]
    BY <2>1, <2>4 DEF SumAfter, x
  <2> QED BY <2>3, <2>5
<1>4. \A c \in Nat : c \in Same
  <2> HIDE DEF Same
  <2> QED BY <1>2, <1>3, SetInduction
<1> SUFFICES ASSUME NEW s \in SUBSET T PROVE sum[s] = part[s]
  OBVIOUS
<1>5. Cardinality(s) \in Nat
  BY <1>1
<1> QED BY <1>4, <1>5

\* The sum over a set, by the place that is chosen from it.
LEMMA SumByChoice ==
  ASSUME NEW n \in Nat, NEW S \in SUBSET (1..n), NEW g
  PROVE  /\ S = {} => SumFunctionOnSet(g, S) = 0
         /\ S # {} => \E x \in S : SumFunctionOnSet(g, S) = g[x] + SumFunctionOnSet(g, S \ {x})
<1>1. PICK sum : SumsUp(g, sum, S) /\ SumFunctionOnSet(g, S) = sum[S]
  BY SumIsFold
<1>2. sum[S] = SumAfter(g, sum, S)
  BY <1>1 DEF SumsUp
<1>3. CASE S = {}
  BY <1>1, <1>2, <1>3 DEF SumAfter
<1>4. CASE S # {}
  <2> DEFINE x == CHOOSE x \in S : TRUE
             T == S \ {x}
  <2>1. x \in S
    BY <1>4
  <2>2. T \in SUBSET (1..n) /\ T \in SUBSET S /\ T \in SUBSET T
    OBVIOUS
  <2>3. sum[S] = g[x] + sum[T]
    BY <1>2, <1>4 DEF SumAfter
  <2> HIDE DEF T, x
  <2>4. PICK part : SumsUp(g, part, T) /\ SumFunctionOnSet(g, T) = part[T]
    BY <2>2, SumIsFold
  <2>5. \A s \in SUBSET T : sum[s] = part[s]
    <3>1. SumsUp(g, sum, S) /\ SumsUp(g, part, T) /\ T \in SUBSET S /\ S \in SUBSET (1..n)
      BY <1>1, <2>2, <2>4
    <3> QED BY <3>1, SumsAgree, SMT
  <2> QED BY <1>1, <1>4, <2>1, <2>2, <2>3, <2>4, <2>5 DEF T
<1> QED BY <1>3, <1>4

\* Any place can be taken out of a sum.
LEMMA SumWithout ==
  ASSUME NEW n \in Nat, NEW g \in [1..n -> Nat], NEW S \in SUBSET (1..n)
  PROVE  /\ SumFunctionOnSet(g, S) \in Int
         /\ \A x \in S : SumFunctionOnSet(g, S) = g[x] + SumFunctionOnSet(g, S \ {x})
<1> DEFINE Free(s) == /\ SumFunctionOnSet(g, s) \in Int
                      /\ \A x \in s :
                           /\ SumFunctionOnSet(g, s \ {x}) \in Int
                           /\ SumFunctionOnSet(g, s) = g[x] + SumFunctionOnSet(g, s \ {x})
           Proved == {c \in Nat : \A s \in SUBSET (1..n) : Cardinality(s) = c => Free(s)}
<1>1. ASSUME NEW s \in SUBSET (1..n)
      PROVE  Cardinality(s) \in 0..n /\ (Cardinality(s) = 0 <=> s = {})
  BY OneLess
<1>2. 0 \in Proved
  <2>1. \A s \in SUBSET (1..n) : Cardinality(s) = 0 => s = {} /\ SumFunctionOnSet(g, s) = 0
    BY <1>1, SumByChoice
  <2> QED BY <2>1
<1>3. ASSUME NEW c \in Nat, c \in Proved PROVE c + 1 \in Proved
  <2> SUFFICES ASSUME NEW s \in SUBSET (1..n), Cardinality(s) = c + 1 PROVE Free(s)
    OBVIOUS
  <2>1. \A t \in SUBSET (1..n) : Cardinality(t) = c => Free(t)
    BY <1>3
  <2>2. PICK y \in s : SumFunctionOnSet(g, s) = g[y] + SumFunctionOnSet(g, s \ {y})
    <3>1. s # {}
      BY <1>1
    <3> QED BY <3>1, SumByChoice
  <2>3. ASSUME NEW x \in s
        PROVE  /\ s \ {x} \in SUBSET (1..n) /\ Cardinality(s \ {x}) = c
               /\ g[x] \in Int /\ Free(s \ {x})
    <3>1. s \ {x} \in SUBSET (1..n) /\ g[x] \in Int
      OBVIOUS
    <3>2. Cardinality(s \ {x}) = c
      BY OneLess
    <3> HIDE DEF Free
    <3> QED BY <2>1, <3>1, <3>2
  <2>4. SumFunctionOnSet(g, s) \in Int
    <3>1. g[y] \in Int /\ SumFunctionOnSet(g, s \ {y}) \in Int
      BY <2>3
    <3> QED BY <2>2, <3>1
  <2>5. ASSUME NEW x \in s, x # y
        PROVE  SumFunctionOnSet(g, s) = g[x] + SumFunctionOnSet(g, s \ {x})
    <3> DEFINE rest == SumFunctionOnSet(g, (s \ {x}) \ {y})
    <3>1. (s \ {y}) \ {x} = (s \ {x}) \ {y}
      OBVIOUS
    <3>2. SumFunctionOnSet(g, s \ {y}) = g[x] + SumFunctionOnSet(g, (s \ {y}) \ {x})
      BY <2>3, <2>5
    <3>3. SumFunctionOnSet(g, s \ {x}) = g[y] + rest
      BY <2>3, <2>5
    <3>4. rest \in Int
      BY <2>3, <2>5
    <3>5. SumFunctionOnSet(g, s \ {y}) = g[x] + rest
      BY <3>1, <3>2
    <3>6. g[x] \in Int /\ g[y] \in Int
      BY <2>3
    <3> HIDE DEF rest
    <3> QED BY <2>2, <3>3, <3>4, <3>5, <3>6
  <2> QED BY <2>2, <2>3, <2>4, <2>5
<1>4. \A c \in Nat : c \in Proved
  <2> HIDE DEF Proved
  <2> QED BY <1>2, <1>3, SetInduction
<1> QED BY <1>1, <1>4

LEMMA SumAt ==
  ASSUME NEW n \in Nat, NEW g \in [1..n -> Nat], NEW S \in SUBSET (1..n), NEW x \in S
  PROVE  /\ SumFunctionOnSet(g, S) = g[x] + SumFunctionOnSet(g, S \ {x})
         /\ SumFunctionOnSet(g, S \ {x}) \in Int
<1>1. S \ {x} \in SUBSET (1..n)
  OBVIOUS
<1>2. SumFunctionOnSet(g, S \ {x}) \in Int
  BY <1>1, SumWithout, Zenon
<1>3. \A y \in S : SumFunctionOnSet(g, S) = g[y] + SumFunctionOnSet(g, S \ {y})
  BY SumWithout, Zenon
<1> QED BY <1>2, <1>3

\* A sum of numbers that are no greater is no greater.
LEMMA SumBounds ==
  ASSUME NEW n \in Nat, NEW g \in [1..n -> Nat], NEW h \in [1..n -> Nat],
         NEW S \in SUBSET (1..n), \A x \in S : g[x] <= h[x]
  PROVE  SumFunctionOnSet(g, S) \in Nat /\ SumFunctionOnSet(g, S) <= SumFunctionOnSet(h, S)
<1> DEFINE Bounded(s) == /\ SumFunctionOnSet(g, s) \in Nat
                         /\ SumFunctionOnSet(g, s) <= SumFunctionOnSet(h, s)
           Proved == {c \in Nat : \A s \in SUBSET S : Cardinality(s) = c => Bounded(s)}
<1>1. ASSUME NEW s \in SUBSET S
      PROVE  /\ Cardinality(s) \in 0..n /\ (Cardinality(s) = 0 <=> s = {})
             /\ s \in SUBSET (1..n) /\ \A x \in s : s \ {x} \in SUBSET S
  BY OneLess
<1>2. 0 \in Proved
  <2>1. \A s \in SUBSET S : Cardinality(s) = 0 =>
          SumFunctionOnSet(g, s) = 0 /\ SumFunctionOnSet(h, s) = 0
    BY <1>1, SumByChoice
  <2> QED BY <2>1
<1>3. ASSUME NEW c \in Nat, c \in Proved PROVE c + 1 \in Proved
  <2> SUFFICES ASSUME NEW s \in SUBSET S, Cardinality(s) = c + 1 PROVE Bounded(s)
    OBVIOUS
  <2>0. s # {} /\ s \in SUBSET (1..n)
    <3>1. s \in SUBSET (1..n)
      OBVIOUS
    <3>2. Cardinality(s) = 0 <=> s = {}
      BY <3>1, OneLess
    <3> QED BY <3>1, <3>2
  <2> PICK x : x \in s
    <3> HIDE DEF Bounded, Proved
    <3> QED BY <2>0
  <2>1. /\ SumFunctionOnSet(g, s) = g[x] + SumFunctionOnSet(g, s \ {x})
        /\ SumFunctionOnSet(g, s \ {x}) \in Int
    BY <2>0, SumAt, Zenon
  <2>2. Bounded(s \ {x})
    <3> HIDE DEF Bounded
    <3>1. s \ {x} \in SUBSET S /\ Cardinality(s \ {x}) = c
      <4> HIDE DEF Proved
      <4> QED BY <1>1, OneLess
    <3> QED BY <1>3, <3>1
  <2>3. g[x] \in Nat /\ h[x] \in Nat /\ g[x] <= h[x]
    BY <1>1
  <2>4. /\ SumFunctionOnSet(h, s) = h[x] + SumFunctionOnSet(h, s \ {x})
        /\ SumFunctionOnSet(h, s \ {x}) \in Int
    BY <2>0, SumAt, Zenon
  <2> QED BY <2>1, <2>2, <2>3, <2>4
<1>4. \A c \in Nat : c \in Proved
  <2> HIDE DEF Proved
  <2> QED BY <1>2, <1>3, SetInduction
<1>5. Cardinality(S) \in Nat /\ S \in SUBSET S
  BY <1>1
<1> HIDE DEF Bounded
<1> QED BY <1>4, <1>5 DEF Bounded

-----------------------------------------------------------------------------
(* The turns of a weighted router *)

\* The shares of the candidates up to target k.
Upto(k) == SumFunctionOnSet(Share, Candidates \cap (1..k))

\* The k-th pick of a turn is of target t.
Has(t, k) == t \in Candidates /\ Upto(t - 1) < k /\ k <= Upto(t)

\* What target t has had of its share after q picks of a turn.
Taken(q, t) ==
  IF q <= Upto(t - 1) THEN 0 ELSE IF q >= Upto(t) THEN Share[t] ELSE q - Upto(t - 1)

\* The last q picks are the first of a turn; before them there was at most one
\* turn of picks, or the one before was a whole turn.
Ends(seq, q) ==
  /\ q <= Len(seq)
  /\ \A k \in 1..q : Has(seq[Len(seq) - q + k], k)
  /\ Len(seq) - q > Turn => \A k \in 1..Turn : Has(seq[Len(seq) - q - Turn + k], k)

InTurn(q) == Ends(picks, q) /\ \A t \in Candidates : index[t] = Taken(q, t)

\* The turn that a change of status has interrupted is not over: no more was
\* picked than the indices say.
Used == [t \in Targets |-> IF index[t] < Share[t] THEN index[t] ELSE Share[t]]
Interrupted == Len(picks) <= SumFunctionOnSet(Used, Candidates)

TurnsInv ==
  (kind = "WeightBased" /\ listener = "http" /\ Candidates # {} /\ Turn > 0) =>
    Interrupted \/ \E q \in 1..Turn : InTurn(q)

LEMMA SharesType ==
  /\ N \in Nat /\ Targets = 1..N /\ Share \in [1..N -> Nat]
  /\ Candidates \in SUBSET (1..N)
<1>1. N \in Nat /\ Targets = 1..N /\ Candidates \in SUBSET (1..N)
  BY TargetsAssumption, CandidatesAreTargets DEF Targets
<1>2. Share \in [1..N -> Nat]
  BY <1>1, TargetsAssumption DEF Share
<1> QED BY <1>1, <1>2

\* The shares up to a target: each candidate adds its own.
LEMMA UptoStep ==
  /\ Upto(0) = 0 /\ Upto(N) = Turn
  /\ \A k \in 0..N : Upto(k) \in Nat
  /\ \A k \in 0..(N - 1) :
       Upto(k + 1) = Upto(k) + (IF k + 1 \in Candidates THEN Share[k + 1] ELSE 0)
<1>1. ASSUME NEW k \in 0..N PROVE Upto(k) \in Nat
  <2>1. Candidates \cap (1..k) \in SUBSET (1..N)
    BY SharesType
  <2>2. \A x \in Candidates \cap (1..k) : Share[x] <= Share[x]
    BY <2>1, SharesType
  <2> QED BY <2>1, <2>2, SharesType, SumBounds DEF Upto
<1>2. Upto(0) = 0
  <2>1. Candidates \cap (1..0) = {}
    OBVIOUS
  <2>2. {} \in SUBSET (1..N)
    OBVIOUS
  <2>3. SumFunctionOnSet(Share, {}) = 0
    BY <2>2, SharesType, SumByChoice
  <2> QED BY <2>1, <2>3 DEF Upto
<1>3. Upto(N) = Turn
  <2>1. Candidates \cap (1..N) = Candidates
    BY SharesType
  <2> QED BY <2>1 DEF Upto, Turn
<1>4. ASSUME NEW k \in 0..(N - 1)
      PROVE  Upto(k + 1) = Upto(k) + (IF k + 1 \in Candidates THEN Share[k + 1] ELSE 0)
  <2> DEFINE S == Candidates \cap (1..(k + 1))
  <2>0. k \in Nat /\ Upto(k) \in Nat
    BY <1>1, SharesType
  <2>1. S \ {k + 1} = Candidates \cap (1..k)
    BY <2>0, PrefixWithoutLast
  <2>2. CASE k + 1 \in Candidates
    <3>1. k + 1 \in S /\ S \in SUBSET (1..N)
      BY <2>0, <2>2, SharesType, PrefixWithoutLast
    <3>3. SumFunctionOnSet(Share, S) = Share[k + 1] + SumFunctionOnSet(Share, S \ {k + 1})
      <4> HIDE DEF S
      <4>1. \A x \in S : SumFunctionOnSet(Share, S) = Share[x] + SumFunctionOnSet(Share, S \ {x})
        BY <3>1, SharesType, SumWithout
      <4> QED BY <3>1, <4>1
    <3>4. Upto(k + 1) = Share[k + 1] + Upto(k)
      BY <2>1, <3>3 DEF Upto
    <3>5. Share[k + 1] \in Nat
      BY <2>2, SharesType
    <3> QED BY <2>0, <2>2, <3>4, <3>5
  <2>3. CASE k + 1 \notin Candidates
    <3>1. S = Candidates \cap (1..k)
      BY <2>1, <2>3
    <3>2. Upto(k + 1) = Upto(k)
      BY <3>1 DEF Upto
    <3> QED BY <2>0, <2>3, <3>2
  <2> QED BY <2>2, <2>3
<1> QED BY <1>1, <1>2, <1>3, <1>4

LEMMA TurnType == Turn \in Nat
<1>1. N \in 0..N
  BY SharesType
<1>2. Upto(N) \in Nat
  BY <1>1, UptoStep
<1>3. Upto(N) = Turn
  BY UptoStep
<1> QED BY <1>2, <1>3

LEMMA UptoGrows ==
  \A j \in 0..N : \A k \in 0..N : j <= k => Upto(j) <= Upto(k)
<1> SUFFICES ASSUME NEW j \in 0..N PROVE \A k \in 0..N : j <= k => Upto(j) <= Upto(k)
  OBVIOUS
<1> DEFINE Grown == {k \in Nat : k \in 0..N /\ j <= k => Upto(j) <= Upto(k)}
<1>0. N \in Nat /\ Upto(j) \in Nat
  BY SharesType, UptoStep
<1>1. 0 \in Grown
  BY <1>0
<1>2. ASSUME NEW k \in Nat, k \in Grown PROVE k + 1 \in Grown
  <2> SUFFICES ASSUME k + 1 \in 0..N, j <= k + 1 PROVE Upto(j) <= Upto(k + 1)
    OBVIOUS
  <2>1. CASE j = k + 1
    BY <1>0, <2>1
  <2>2. CASE j # k + 1
    <3>1. k \in 0..(N - 1) /\ k \in 0..N /\ j <= k
      BY <1>0, <2>2
    <3>2. Upto(j) <= Upto(k) /\ Upto(k) \in Nat
      BY <1>2, <3>1, UptoStep
    <3>3. Upto(k + 1) = Upto(k) + (IF k + 1 \in Candidates THEN Share[k + 1] ELSE 0)
      BY <3>1, UptoStep
    <3>4. k + 1 \in Candidates => Share[k + 1] \in Nat
      BY SharesType
    <3> QED BY <1>0, <3>2, <3>3, <3>4
  <2> QED BY <2>1, <2>2
<1>3. \A k \in Nat : k \in Grown
  <2> HIDE DEF Grown
  <2> QED BY <1>1, <1>2, SetInduction
<1> QED BY <1>0, <1>3

\* The part of a turn that is a candidate's.
LEMMA PartOfTurn ==
  ASSUME NEW t \in Candidates
  PROVE  /\ t \in 1..N /\ Share[t] \in Nat /\ Turn \in Nat
         /\ Upto(t - 1) \in Nat /\ Upto(t) \in Nat
         /\ Upto(t) = Upto(t - 1) + Share[t] /\ Upto(t) <= Turn
         /\ \A u \in Candidates : u < t => Upto(u) <= Upto(t - 1)
<1>1. t \in 1..N /\ N \in Nat /\ Share[t] \in Nat /\ t - 1 \in 0..(N - 1) /\ t - 1 + 1 = t
  BY SharesType
<1>2. Upto(t) = Upto(t - 1) + Share[t]
  BY <1>1, UptoStep
<1>3. Upto(t - 1) \in Nat /\ Upto(t) \in Nat /\ Turn \in Nat
  BY <1>1, UptoStep
<1>4. Upto(t) <= Turn
  BY <1>1, UptoStep, UptoGrows
<1>5. ASSUME NEW u \in Candidates, u < t PROVE Upto(u) <= Upto(t - 1)
  <2>1. u \in 0..N /\ t - 1 \in 0..N /\ u <= t - 1
    BY <1>1, <1>5, SharesType
  <2> QED BY <2>1, UptoGrows
<1> QED BY <1>1, <1>2, <1>3, <1>4, <1>5

\* Every pick of a turn is of one candidate.
LEMMA PickHasTarget ==
  \A k \in 1..Turn : \E t \in Candidates : Has(t, k)
<1> SUFFICES ASSUME NEW k \in 1..Turn PROVE \E t \in Candidates : Has(t, k)
  OBVIOUS
<1> DEFINE Reached == {n \in Nat : n \in 0..N /\ k <= Upto(n) => \E t \in Candidates : Has(t, k)}
<1>0. Turn \in Nat /\ N \in Nat
  BY SharesType, UptoStep
<1>1. 0 \in Reached
  BY UptoStep
<1>2. ASSUME NEW n \in Nat, n \in Reached PROVE n + 1 \in Reached
  <2> SUFFICES ASSUME n + 1 \in 0..N, k <= Upto(n + 1) PROVE \E t \in Candidates : Has(t, k)
    OBVIOUS
  <2>1. n \in 0..(N - 1) /\ n \in 0..N /\ n + 1 - 1 = n
    BY <1>0
  <2>2. Upto(n) \in Nat
    BY <2>1, UptoStep
  <2>3. CASE k <= Upto(n)
    BY <1>2, <2>1, <2>3
  <2>4. CASE Upto(n) < k
    <3>1. n + 1 \in Candidates
      BY <2>1, <2>2, <2>4, UptoStep
    <3>2. Has(n + 1, k)
      BY <2>1, <2>4, <3>1 DEF Has
    <3> QED BY <3>1, <3>2
  <2> QED BY <2>2, <2>3, <2>4
<1>3. \A n \in Nat : n \in Reached
  <2> HIDE DEF Reached
  <2> QED BY <1>1, <1>2, SetInduction
<1>4. N \in Reached
  BY <1>0, <1>3
<1>5. Upto(N) = Turn
  BY UptoStep
<1> QED BY <1>0, <1>4, <1>5

LEMMA TargetsDiffer ==
  ASSUME NEW k \in Nat, NEW t, NEW u, Has(t, k), Has(u, k)
  PROVE  t = u
<1>1. t \in Candidates /\ u \in Candidates /\ t \in 1..N /\ u \in 1..N
  BY SharesType DEF Has
<1>2. ~(u < t)
  BY <1>1, PartOfTurn DEF Has
<1>3. ~(t < u)
  BY <1>1, PartOfTurn DEF Has
<1> QED BY <1>1, <1>2, <1>3

\* What one candidate has had after q picks of a turn.
LEMMA TakenParts ==
  ASSUME NEW q \in 0..Turn, NEW t \in Candidates
  PROVE  /\ Taken(0, t) = 0 /\ Taken(q, t) \in 0..Share[t]
         /\ Upto(t) <= q => Taken(q, t) = Share[t]
         /\ (Upto(t - 1) <= q /\ q < Upto(t)) => Taken(q, t) = q - Upto(t - 1)
         /\ q <= Upto(t - 1) => Taken(q, t) = 0
         /\ q = Turn => Taken(q, t) = Share[t]
         /\ Share[t] = IF Weight[t] > 0 THEN Weight[t] ELSE 0
         /\ Weight[t] \in Int
<1>1. /\ t \in 1..N /\ Share[t] \in Nat /\ Turn \in Nat
      /\ Upto(t - 1) \in Nat /\ Upto(t) \in Nat
      /\ Upto(t) = Upto(t - 1) + Share[t] /\ Upto(t) <= Turn
  BY PartOfTurn
<1>2. Share[t] = (IF Weight[t] > 0 THEN Weight[t] ELSE 0) /\ Weight[t] \in Int
  BY <1>1, SharesType, TargetsAssumption DEF Share
<1>3. q \in Nat /\ q <= Turn
  BY <1>1
<1> QED BY <1>1, <1>2, <1>3 DEF Taken

\* A turn is over when every candidate has had its share.
LEMMA TurnOver ==
  ASSUME NEW q \in 0..Turn, \A t \in Candidates : index[t] = Taken(q, t)
  PROVE  (\A t \in Candidates : index[t] >= Weight[t]) <=> q = Turn
<1>0. Turn \in Nat
  BY TurnType
<1>1. ASSUME q = Turn, NEW t \in Candidates PROVE index[t] >= Weight[t]
  <2>1. index[t] = Share[t]
    BY <1>1, TakenParts
  <2> QED BY <2>1, TakenParts
<1>2. ASSUME q # Turn PROVE \E t \in Candidates : ~(index[t] >= Weight[t])
  <2>1. q + 1 \in 1..Turn
    BY <1>0, <1>2
  <2>2. PICK t \in Candidates : Has(t, q + 1)
    BY <2>1, PickHasTarget
  <2>3. /\ Upto(t - 1) \in Nat /\ Upto(t) \in Nat /\ Share[t] \in Nat
        /\ Upto(t) = Upto(t - 1) + Share[t]
    BY PartOfTurn
  <2>4. Upto(t - 1) <= q /\ q < Upto(t)
    BY <1>0, <2>2, <2>3 DEF Has
  <2>5. index[t] = q - Upto(t - 1)
    BY <2>4, TakenParts
  <2>6. Share[t] = (IF Weight[t] > 0 THEN Weight[t] ELSE 0) /\ Weight[t] \in Int
    BY TakenParts
  <2>7. q \in Nat
    BY <1>0
  <2>8. index[t] < Weight[t] /\ index[t] \in Int
    BY <2>3, <2>4, <2>5, <2>6, <2>7
  <2> QED BY <2>6, <2>8
<1> QED BY <1>1, <1>2

\* The first candidate that has not had its share is the one the turn has next.
LEMMA FirstOpenIsNext ==
  ASSUME NEW q \in 0..(Turn - 1), NEW counts \in [Targets -> Nat],
         \A t \in Candidates : counts[t] = Taken(q, t),
         NEW first \in Candidates, counts[first] < Weight[first],
         \A t \in Candidates : counts[t] < Weight[t] => first <= t
  PROVE  /\ Has(first, q + 1)
         /\ \A t \in Candidates : [counts EXCEPT ![first] = @ + 1][t] = Taken(q + 1, t)
<1>0. Turn \in Nat /\ q \in Nat /\ q \in 0..Turn /\ q + 1 \in 0..Turn /\ q + 1 \in 1..Turn
  BY TurnType
<1>1. ASSUME NEW t \in Candidates
      PROVE  /\ t \in 1..N /\ Upto(t - 1) \in Nat /\ Upto(t) \in Nat /\ Share[t] \in Nat
             /\ Upto(t) = Upto(t - 1) + Share[t]
             /\ Share[t] = IF Weight[t] > 0 THEN Weight[t] ELSE 0
             /\ Weight[t] \in Int /\ counts[t] = Taken(q, t) /\ counts[t] \in Nat
  <2>1. t \in 1..N /\ t \in Targets
    BY SharesType
  <2> QED BY <1>0, <2>1, PartOfTurn, TakenParts
<1>2. PICK next \in Candidates : Has(next, q + 1)
  BY <1>0, PickHasTarget
<1>3. Upto(next - 1) <= q /\ q < Upto(next)
  BY <1>0, <1>1, <1>2 DEF Has
<1>4. first <= next
  <2>1. counts[next] = q - Upto(next - 1)
    BY <1>0, <1>1, <1>3, TakenParts
  <2>2. counts[next] < Weight[next]
    BY <1>0, <1>1, <1>3, <2>1
  <2> QED BY <2>2
<1>5. ~(first < next)
  <2> SUFFICES ASSUME first < next PROVE FALSE
    OBVIOUS
  <2>1. Upto(first) <= q
    <3>1. Upto(first) <= Upto(next - 1)
      BY PartOfTurn
    <3> QED BY <1>0, <1>1, <1>3, <3>1
  <2>2. counts[first] = Share[first]
    BY <1>0, <1>1, <2>1, TakenParts
  <2> QED BY <1>1, <2>2
<1>6. first = next
  BY <1>1, <1>4, <1>5
<1>7. ASSUME NEW t \in Candidates
      PROVE  [counts EXCEPT ![first] = @ + 1][t] = Taken(q + 1, t)
  <2>0. t \in 1..N /\ first \in 1..N /\ DOMAIN counts = 1..N
    BY <1>1, SharesType
  <2>1. CASE t = first
    <3>1. counts[t] = q - Upto(t - 1)
      BY <1>0, <1>3, <1>6, <1>1, <2>1, TakenParts
    <3>2. Taken(q + 1, t) = q + 1 - Upto(t - 1)
      <4>1. Upto(t - 1) <= q /\ q < Upto(t) /\ Upto(t) = Upto(t - 1) + Share[t]
        BY <1>1, <1>3, <1>6, <2>1
      <4>2. Upto(t - 1) \in Nat /\ Upto(t) \in Nat /\ q \in Nat /\ Share[t] \in Nat
        BY <1>0, <1>1
      <4> QED BY <4>1, <4>2 DEF Taken
    <3> QED BY <1>0, <1>1, <2>0, <2>1, <3>1, <3>2
  <2>2. CASE t # first
    <3>1. [counts EXCEPT ![first] = @ + 1][t] = Taken(q, t)
      BY <1>1, <2>0, <2>2
    <3>2. CASE t < first
      <4>1. Upto(t) <= Upto(first - 1)
        BY <3>2, PartOfTurn
      <4>2. Upto(t) <= q /\ Upto(t) <= q + 1
        BY <1>0, <1>1, <1>3, <1>6, <4>1
      <4> QED BY <1>0, <3>1, <4>2, TakenParts
    <3>3. CASE first < t
      <4>1. Upto(first) <= Upto(t - 1)
        BY <3>3, PartOfTurn
      <4>2. q <= Upto(t - 1) /\ q + 1 <= Upto(t - 1)
        BY <1>0, <1>1, <1>3, <1>6, <4>1
      <4> QED BY <1>0, <3>1, <4>2, TakenParts
    <3> QED BY <2>0, <2>2, <3>2, <3>3
  <2> QED BY <2>1, <2>2
<1> QED BY <1>2, <1>6, <1>7

\* The places of the last turn's worth of n picks that are in one part of a
\* turn: the last q in the turn that began with them, the others in the one before.
InPart(turn, q, n, from, to) ==
  LET b == n - q
  IN {j \in (n - turn + 1)..n :
        \/ j > b /\ from < j - b /\ j - b <= to
        \/ j <= b /\ from < j - b + turn /\ j - b + turn <= to}

LEMMA TwoParts ==
  ASSUME NEW turn \in Nat, NEW q \in 1..turn, NEW n \in Int,
         NEW from \in Nat, NEW to \in Nat, from <= to, to <= turn
  PROVE  Cardinality(InPart(turn, q, n, from, to)) = to - from
<1> DEFINE mine == InPart(turn, q, n, from, to)
           b == n - q
<1>0. \A j : j \in mine <=>
        /\ j \in (n - turn + 1)..n
        /\ \/ j > b /\ from < j - b /\ j - b <= to
           \/ j <= b /\ from < j - b + turn /\ j - b + turn <= to
  BY DEF InPart
<1> SUFFICES Cardinality(mine) = to - from
  OBVIOUS
<1>b. b \in Int /\ n = b + q
  OBVIOUS
<1> HIDE DEF mine, b
<1>1. CASE to <= q
  <2> DEFINE low == b + from + 1
             high == b + to
  <2>1. \A j : j \in mine <=> j \in low..high
    BY <1>0, <1>1, <1>b
  <2>2. low \in Int /\ high \in Int
    BY <1>b
  <2>3. Cardinality(low..high) = IF low > high THEN 0 ELSE high - low + 1
    <3> HIDE DEF low, high
    <3> QED BY <2>2, FS_Interval
  <2>4. mine = low..high
    <3> HIDE DEF low, high
    <3> QED BY <2>1
  <2> QED BY <1>b, <2>3, <2>4
<1>2. CASE q <= from
  <2> DEFINE low == b - turn + from + 1
             high == b - turn + to
  <2>1. \A j : j \in mine <=> j \in low..high
    BY <1>0, <1>2, <1>b
  <2>2. low \in Int /\ high \in Int
    BY <1>b
  <2>3. Cardinality(low..high) = IF low > high THEN 0 ELSE high - low + 1
    <3> HIDE DEF low, high
    <3> QED BY <2>2, FS_Interval
  <2>4. mine = low..high
    <3> HIDE DEF low, high
    <3> QED BY <2>1
  <2> QED BY <1>b, <2>3, <2>4
<1>3. CASE from < q /\ q < to
  <2> DEFINE low == b - turn + q + 1
             middle == b - turn + to
             start == b + from + 1
  <2>1. \A j : j \in mine <=> j \in low..middle \/ j \in start..n
    BY <1>0, <1>3, <1>b
  <2>2. mine = (low..middle) \cup (start..n) /\ (low..middle) \cap (start..n) = {}
    <3>1. \A j : ~(j \in low..middle /\ j \in start..n)
      BY <1>b
    <3> HIDE DEF low, middle, start
    <3> QED BY <2>1, <3>1
  <2>3. low \in Int /\ middle \in Int /\ start \in Int /\ n \in Int
    BY <1>b
  <2>4. /\ IsFiniteSet(low..middle) /\ IsFiniteSet(start..n)
        /\ Cardinality(low..middle) = IF low > middle THEN 0 ELSE middle - low + 1
        /\ Cardinality(start..n) = IF start > n THEN 0 ELSE n - start + 1
    <3> HIDE DEF low, middle, start
    <3> QED BY <2>3, FS_Interval
  <2>5. Cardinality(low..middle) = to - q /\ Cardinality(start..n) = q - from
    BY <1>3, <1>b, <2>4
  <2>6. Cardinality(mine) = Cardinality(low..middle) + Cardinality(start..n)
    <3> HIDE DEF low, middle, start
    <3>1. Cardinality(mine) = Cardinality(low..middle) + Cardinality(start..n)
                              - Cardinality((low..middle) \cap (start..n))
      BY <2>2, <2>4, FS_Union
    <3>2. Cardinality((low..middle) \cap (start..n)) = 0
      BY <2>2, FS_EmptySet
    <3>3. Cardinality(low..middle) \in Nat /\ Cardinality(start..n) \in Nat
      BY <2>4, FS_CardinalityType
    <3> QED BY <3>1, <3>2, <3>3
  <2> QED BY <2>5, <2>6
<1> QED BY <1>1, <1>2, <1>3

\* The picks that a target has had in the last turn's worth of them.
LEMMA LastTurnIsShared ==
  ASSUME NEW seq, Len(seq) \in Nat, NEW q \in 1..Turn, Ends(seq, q),
         Len(seq) - Turn + 1 >= Turn + 1, NEW t \in Candidates
  PROVE  Cardinality({j \in (Len(seq) - Turn + 1)..Len(seq) : seq[j] = t}) = Share[t]
<1> DEFINE n == Len(seq)
           b == n - q
           from == Upto(t - 1)
           to == Upto(t)
           mine == {j \in (n - Turn + 1)..n : seq[j] = t}
<1>1. /\ Turn \in Nat /\ q \in Nat /\ n \in Nat /\ b \in Int /\ n = b + q /\ q <= Turn /\ q >= 1
      /\ from \in Nat /\ to \in Nat /\ to = from + Share[t] /\ to <= Turn /\ Share[t] \in Nat
      /\ n - Turn >= Turn
  BY PartOfTurn
<1>2. ASSUME NEW k \in 1..Turn, NEW j, Has(seq[j], k)
      PROVE  seq[j] = t <=> (from < k /\ k <= to)
  BY <1>2, TargetsDiffer DEF Has
<1>3. ASSUME NEW j \in (n - Turn + 1)..n
      PROVE  seq[j] = t <=> \/ j > b /\ from < j - b /\ j - b <= to
                            \/ j <= b /\ from < j - b + Turn /\ j - b + Turn <= to
  <2>1. CASE j > b
    <3> DEFINE k == j - b
    <3>1. k \in 1..q /\ k \in 1..Turn /\ n - q + k = j
      BY <1>1, <2>1
    <3>2. Has(seq[n - q + k], k)
      BY <3>1 DEF Ends
    <3>3. Has(seq[j], k)
      BY <3>1, <3>2
    <3> HIDE DEF k, b, from, to, n
    <3>4. seq[j] = t <=> (from < k /\ k <= to)
      BY <1>2, <3>1, <3>3
    <3>5. ~(j <= b)
      BY <1>1, <2>1 DEF n
    <3> QED BY <2>1, <3>4, <3>5 DEF k
  <2>2. CASE j <= b
    <3> DEFINE k == j - b + Turn
    <3>1. b > Turn /\ k \in 1..Turn /\ n - q - Turn + k = j
      BY <1>1, <2>2
    <3>2. Has(seq[n - q - Turn + k], k)
      BY <3>1 DEF Ends
    <3>3. Has(seq[j], k)
      BY <3>1, <3>2
    <3> HIDE DEF k, b, from, to, n
    <3>4. seq[j] = t <=> (from < k /\ k <= to)
      BY <1>2, <3>1, <3>3
    <3>5. ~(j > b)
      BY <1>1, <2>2 DEF n
    <3> QED BY <2>2, <3>4, <3>5 DEF k
  <2>3. j > b \/ j <= b
    BY <1>1
  <2> QED BY <2>1, <2>2, <2>3
<1> HIDE DEF n, b, from, to
<1>4. mine = InPart(Turn, q, n, from, to)
  BY <1>3 DEF InPart, b
<1> HIDE DEF mine
<1>5. Cardinality(mine) = to - from
  <2>1. Turn \in Nat /\ q \in 1..Turn /\ n \in Int
    BY <1>1
  <2>2. from \in Nat /\ to \in Nat /\ from <= to /\ to <= Turn
    BY <1>1
  <2> QED BY <1>4, <2>1, <2>2, TwoParts
<1>6. Cardinality(mine) = Share[t]
  BY <1>1, <1>5
<1> QED BY <1>6 DEF mine, n

-----------------------------------------------------------------------------
(* A pick of a weighted router *)

\* Where there is a share to give, the pick is of the first candidate that has
\* not had its own, counted from the reset that starts a new turn.
LEMMA WeightPicksFirst ==
  ASSUME TypeOK, WeightPick, listener = "http", Candidates # {}, Turn > 0
  PROVE  \E first \in Candidates :
           /\ Serve(first) /\ index' = [WeightReset EXCEPT ![first] = @ + 1]
           /\ WeightReset[first] < Weight[first]
           /\ \A t \in Candidates : WeightReset[t] < Weight[t] => first <= t
<1> DEFINE reset == WeightReset
           open == {t \in Candidates : reset[t] < Weight[t]}
           first == CHOOSE t \in open : \A u \in open : t <= u
<1>1. open # {}
  <2>1. 1 \in 1..Turn
    BY TurnType
  <2>2. PICK t \in Candidates : Has(t, 1)
    BY <2>1, PickHasTarget
  <2>3. t \in Targets /\ Weight[t] \in Int /\ Share[t] > 0
    BY <2>2, SharesType, TargetsAssumption, PartOfTurn DEF Has
  <2>4. ~(Weight[t] <= 0)
    BY <2>3 DEF Share
  <2> QED BY <2>4, ResetOpens
<1>2. Serve(first) /\ index' = [reset EXCEPT ![first] = @ + 1]
  BY <1>1 DEF WeightPick, Keep
<1>3. first \in open /\ \A u \in open : first <= u
  <2>1. open \in SUBSET Nat
    <3>1. Candidates \subseteq 1..N /\ open \subseteq Candidates
      BY SharesType
    <3> HIDE DEF open
    <3> QED BY <3>1
  <2> HIDE DEF open
  <2>2. \E t \in open : \A u \in open : t <= u
    BY <1>1, <2>1, MinOfNats
  <2> QED BY <2>2
<1> HIDE DEF first
<1> QED BY <1>2, <1>3

\* In an interrupted turn one more pick is one more counted; when that turn is
\* over, the pick is the first of a turn.
LEMMA InterruptedPick ==
  ASSUME TypeOK, Turn > 0, Interrupted, NEW first \in Candidates, Len(picks) \in Nat,
         WeightReset[first] < Weight[first],
         \A t \in Candidates : WeightReset[t] < Weight[t] => first <= t,
         index' = [WeightReset EXCEPT ![first] = @ + 1], alive' = alive
  PROVE  \/ Len(picks) + 1 <= SumFunctionOnSet(Used', Candidates)
         \/ /\ Len(picks) <= Turn /\ Has(first, 1)
            /\ \A t \in Candidates : index'[t] = Taken(1, t)
<1>1. /\ N \in Nat /\ Targets = 1..N /\ Share \in [1..N -> Nat] /\ Candidates \in SUBSET (1..N)
      /\ index \in [1..N -> Nat] /\ WeightReset \in [1..N -> Nat] /\ Turn \in Nat
  <2>1. /\ N \in Nat /\ Targets = 1..N /\ Share \in [1..N -> Nat]
        /\ Candidates \in SUBSET (1..N)
    BY SharesType
  <2>2. index \in [1..N -> Nat]
    BY <2>1 DEF TypeOK
  <2>3. WeightReset \in [1..N -> Nat]
    BY <2>1, ResetType
  <2>4. Turn \in Nat
    BY TurnType
  <2> QED BY <2>1, <2>2, <2>3, <2>4
<1>2. /\ \A t \in 1..N : Used[t] = IF index[t] < Share[t] THEN index[t] ELSE Share[t]
      /\ Used \in [1..N -> Nat]
  BY <1>1 DEF Used
<1>3. /\ \A t \in 1..N : Used'[t] = IF index'[t] < Share[t] THEN index'[t] ELSE Share[t]
      /\ Used' \in [1..N -> Nat]
  <2>1. index' \in [1..N -> Nat]
    <3>1. first \in 1..N /\ WeightReset[first] + 1 \in Nat
      BY <1>1
    <3> QED BY <1>1, <3>1
  <2>2. Used' = [t \in 1..N |-> IF index'[t] < Share[t] THEN index'[t] ELSE Share[t]]
    <3>1. Share' = Share
      BY DEF Share
    <3> QED BY <1>1, <3>1 DEF Used
  <2> HIDE DEF Used
  <2>3. \A t \in 1..N : index'[t] \in Nat /\ Share[t] \in Nat
    BY <1>1, <2>1
  <2> QED BY <2>2, <2>3
<1>4. CASE \A t \in Candidates : index[t] >= Weight[t]
  <2>1. Len(picks) <= Turn
    <3>1. ASSUME NEW t \in Candidates PROVE Used[t] <= Share[t]
      <4>1. t \in 1..N /\ index[t] \in Nat /\ Share[t] \in Nat
        BY <1>1
      <4> QED BY <1>2, <4>1
    <3>2. SumFunctionOnSet(Used, Candidates) \in Nat
      BY <1>1, <1>2, <3>1, SumBounds
    <3>3. SumFunctionOnSet(Used, Candidates) <= SumFunctionOnSet(Share, Candidates)
      BY <1>1, <1>2, <3>1, SumBounds
    <3> QED BY <1>1, <3>2, <3>3 DEF Interrupted, Turn
  <2>2. 0 \in 0..(Turn - 1) /\ 0 \in 0..Turn
    BY <1>1
  <2>3. \A t \in Candidates : WeightReset[t] = Taken(0, t)
    <3>1. \A t \in Candidates : WeightReset[t] = 0
      BY <1>1, <1>4 DEF WeightReset
    <3> QED BY <2>2, <3>1, TakenParts
  <2>4. Has(first, 0 + 1) /\ \A t \in Candidates : [WeightReset EXCEPT ![first] = @ + 1][t] = Taken(0 + 1, t)
    BY <1>1, <2>2, <2>3, FirstOpenIsNext
  <2> QED BY <2>1, <2>4
<1>5. CASE ~(\A t \in Candidates : index[t] >= Weight[t])
  <2>1. WeightReset = index
    BY <1>5 DEF WeightReset
  <2>2. first \in 1..N /\ index[first] \in Nat /\ index[first] < Weight[first]
    BY <1>1, <2>1
  <2>3. Share[first] = (IF Weight[first] > 0 THEN Weight[first] ELSE 0) /\ Weight[first] \in Int
    BY <2>2, SharesType, TargetsAssumption DEF Share
  <2>4. Used[first] = index[first] /\ Used'[first] = index[first] + 1
    BY <1>1, <1>2, <1>3, <2>1, <2>2, <2>3
  <2>5. ASSUME NEW t \in Candidates \ {first} PROVE Used[t] <= Used'[t]
    <3>1. t \in 1..N /\ Used[t] \in Nat
      BY <1>1, <1>2
    <3>2. index'[t] = index[t]
      BY <1>1, <2>1, <3>1
    <3>3. Used'[t] = Used[t]
      BY <1>2, <1>3, <3>1, <3>2
    <3> QED BY <3>1, <3>3
  <2> DEFINE rest == Candidates \ {first}
  <2>6. rest \in SUBSET (1..N)
    BY <1>1
  <2>7. /\ SumFunctionOnSet(Used, rest) \in Nat
        /\ SumFunctionOnSet(Used, rest) <= SumFunctionOnSet(Used', rest)
    BY <1>1, <1>2, <1>3, <2>5, <2>6, SumBounds
  <2>8. /\ SumFunctionOnSet(Used, Candidates) = Used[first] + SumFunctionOnSet(Used, rest)
        /\ SumFunctionOnSet(Used, rest) \in Int
    <3>1. N \in Nat /\ Used \in [1..N -> Nat] /\ Candidates \in SUBSET (1..N)
      BY <1>1, <1>2
    <3> QED BY <3>1, SumAt, Zenon
  <2>9. /\ SumFunctionOnSet(Used', Candidates) = Used'[first] + SumFunctionOnSet(Used', rest)
        /\ SumFunctionOnSet(Used', rest) \in Int
    <3>1. N \in Nat /\ Used' \in [1..N -> Nat] /\ Candidates \in SUBSET (1..N)
      BY <1>1, <1>3
    <3> QED BY <3>1, SumAt, Zenon
  <2> HIDE DEF rest
  <2> QED BY <2>2, <2>4, <2>7, <2>8, <2>9 DEF Interrupted
<1> QED BY <1>4, <1>5

\* In a turn the pick is the next one of it, or the first one of the turn after.
LEMMA NextOfTurn ==
  ASSUME TypeOK, NEW q \in 1..Turn, InTurn(q), NEW first \in Candidates, Serve(first),
         WeightReset[first] < Weight[first],
         \A t \in Candidates : WeightReset[t] < Weight[t] => first <= t,
         index' = [WeightReset EXCEPT ![first] = @ + 1]
  PROVE  \E p \in 1..Turn : Ends(picks', p) /\ \A t \in Candidates : index'[t] = Taken(p, t)
<1> DEFINE n == Len(picks)
           rest == IF q = Turn THEN 0 ELSE q
<1>1. /\ Turn \in Nat /\ q \in Nat /\ q \in 0..Turn /\ rest \in 0..(Turn - 1)
      /\ rest + 1 \in 1..Turn /\ rest \in 0..Turn
  BY TurnType
<1>2. /\ Len(picks') = n + 1 /\ n \in Nat /\ q <= n
      /\ picks'[n + 1] = first /\ \A k \in 1..n : picks'[k] = picks[k]
  <2>1. first \in Targets \cup {Failed}
    BY SharesType
  <2> QED BY <2>1, ServeAdds DEF InTurn, Ends
<1>3. \A t \in Candidates : WeightReset[t] = Taken(rest, t)
  <2>1. (\A t \in Candidates : index[t] >= Weight[t]) <=> q = Turn
    BY <1>1, TurnOver DEF InTurn
  <2>2. CASE q = Turn
    <3>1. \A t \in Candidates : WeightReset[t] = 0
      BY <2>1, <2>2, SharesType DEF WeightReset
    <3>2. \A t \in Candidates : Taken(0, t) = 0
      BY <1>1, TakenParts
    <3> QED BY <2>2, <3>1, <3>2
  <2>3. CASE q # Turn
    BY <2>1, <2>3 DEF WeightReset, InTurn
  <2> QED BY <2>2, <2>3
<1> HIDE DEF rest
<1>4. /\ Has(first, rest + 1)
      /\ \A t \in Candidates : index'[t] = Taken(rest + 1, t)
  BY <1>1, <1>3, ResetType, FirstOpenIsNext
<1>5. Ends(picks', rest + 1)
  <2>1. CASE q # Turn
    <3>1. rest = q
      BY <2>1 DEF rest
    <3>2. \A k \in 1..(q + 1) : k \in 1..q \/ k = q + 1
      BY <1>1
    <3>3. \A k \in 1..q : Has(picks'[n - q + k], k)
      <4>1. \A k \in 1..q : n - q + k \in 1..n /\ Has(picks[n - q + k], k)
        BY <1>1, <1>2 DEF InTurn, Ends
      <4> QED BY <1>2, <4>1
    <3>4. Has(picks'[n - q + (q + 1)], q + 1)
      BY <1>1, <1>2, <1>4, <3>1
    <3>5. ASSUME n - q > Turn, NEW k \in 1..Turn PROVE Has(picks'[n - q - Turn + k], k)
      <4>1. n - q - Turn + k \in 1..n /\ Has(picks[n - q - Turn + k], k)
        BY <1>1, <1>2, <3>5 DEF InTurn, Ends
      <4> QED BY <1>2, <4>1
    <3>6. Len(picks') - (q + 1) = n - q /\ q + 1 <= Len(picks')
      BY <1>1, <1>2
    <3> HIDE DEF n
    <3> QED BY <3>1, <3>2, <3>3, <3>4, <3>5, <3>6 DEF Ends
  <2>2. CASE q = Turn
    <3>1. rest = 0 /\ rest + 1 = 1
      BY <2>2 DEF rest
    <3>2. Has(picks'[n + 1], 1)
      BY <1>2, <1>4, <3>1
    <3>3. \A k \in 1..Turn : Has(picks'[n - Turn + k], k)
      <4>1. \A k \in 1..Turn : n - Turn + k \in 1..n /\ Has(picks[n - Turn + k], k)
        BY <1>1, <1>2, <2>2 DEF InTurn, Ends
      <4> QED BY <1>2, <4>1
    <3>4. Len(picks') - 1 = n /\ 1 <= Len(picks')
      BY <1>2
    <3>5. \A k \in 1..1 : k = 1
      OBVIOUS
    <3> HIDE DEF n
    <3> QED BY <3>1, <3>2, <3>3, <3>4, <3>5 DEF Ends
  <2> QED BY <2>1, <2>2
<1> QED BY <1>1, <1>4, <1>5

\* A pick leaves a weighted router in an interrupted turn or in one of its own.
LEMMA PickKeepsTurns ==
  ASSUME TypeOK, TurnsInv, WeightPick, alive' = alive, length' = length,
         listener = "http", Candidates # {}, Turn > 0
  PROVE  \/ Len(picks') <= SumFunctionOnSet(Used', Candidates)
         \/ \E p \in 1..Turn : Ends(picks', p) /\ \A t \in Candidates : index'[t] = Taken(p, t)
<1>1. PICK first \in Candidates :
        /\ Serve(first) /\ index' = [WeightReset EXCEPT ![first] = @ + 1]
        /\ WeightReset[first] < Weight[first]
        /\ \A t \in Candidates : WeightReset[t] < Weight[t] => first <= t
  BY WeightPicksFirst
<1>2. /\ Len(picks') = Len(picks) + 1 /\ Len(picks) \in Nat /\ picks'[Len(picks) + 1] = first
      /\ first \in Targets \cup {Failed}
  BY <1>1, SharesType, ServeAdds
<1>3. kind = "WeightBased"
  BY DEF WeightPick
<1>4. CASE Interrupted
  <2>1. CASE Len(picks) + 1 <= SumFunctionOnSet(Used', Candidates)
    BY <1>2, <2>1
  <2>2. CASE /\ Len(picks) <= Turn /\ Has(first, 1)
             /\ \A t \in Candidates : index'[t] = Taken(1, t)
    <3>1. Turn \in Nat /\ 1 \in 1..Turn
      BY TurnType
    <3>2. /\ 1 <= Len(picks') /\ ~(Len(picks') - 1 > Turn)
          /\ \A k \in 1..1 : k = 1 /\ Len(picks') - 1 + k = Len(picks) + 1
      BY <1>2, <2>2, <3>1
    <3>3. Ends(picks', 1)
      BY <1>2, <2>2, <3>2 DEF Ends
    <3> QED BY <2>2, <3>1, <3>3
  <2> QED BY <1>1, <1>2, <1>4, <2>1, <2>2, InterruptedPick
<1>5. ASSUME NEW q \in 1..Turn, InTurn(q)
      PROVE  \E p \in 1..Turn : Ends(picks', p) /\ \A t \in Candidates : index'[t] = Taken(p, t)
  BY <1>1, <1>5, NextOfTurn
<1> QED BY <1>3, <1>4, <1>5 DEF TurnsInv

\* What depends on the candidates alone stays while no status changes.
LEMMA SameTurns ==
  ASSUME alive' = alive, length' = length
  PROVE  /\ Candidates' = Candidates /\ Turn' = Turn
         /\ Interrupted' <=> Len(picks') <= SumFunctionOnSet(Used', Candidates)
         /\ \A q : InTurn(q)' <=>
              Ends(picks', q) /\ \A t \in Candidates : index'[t] = Taken(q, t)
<1>1. Candidates' = Candidates
  BY SameCandidates
<1>2. Turn' = Turn
  BY <1>1 DEF Turn, Share
<1>3. Interrupted' <=> Len(picks') <= SumFunctionOnSet(Used', Candidates)
  BY <1>1 DEF Interrupted
<1>4. ASSUME NEW q
      PROVE  InTurn(q)' <=> Ends(picks', q) /\ \A t \in Candidates : index'[t] = Taken(q, t)
  BY <1>1, <1>2, Zenon DEF InTurn, Ends, Has, Taken, Upto, Share
<1> QED BY <1>1, <1>2, <1>3, <1>4

LEMMA TurnsBound ==
  ASSUME TypeOK
  PROVE  /\ SumFunctionOnSet(Used, Candidates) \in Nat
         /\ SumFunctionOnSet(Used, Candidates) <= Turn
<1>1. \A t \in Targets : index[t] \in Nat /\ Share[t] \in Nat
  BY SharesType DEF TypeOK
<1>2. Used \in [1..N -> Nat] /\ \A t \in Candidates : Used[t] <= Share[t]
  BY <1>1, SharesType DEF Used
<1> QED BY <1>2, SharesType, SumBounds DEF Turn

\* A pick of a weighted router leaves every turn's worth of picks shared out.
LEMMA WeightKeepsShares ==
  ASSUME TypeOK, TurnsInv, WeightedShare, WeightPick, alive' = alive, length' = length,
         kind' = kind, listener' = listener, TypeOK'
  PROVE  TurnsInv' /\ WeightedShare'
<1>1. /\ Candidates' = Candidates /\ Turn' = Turn
      /\ Interrupted' <=> Len(picks') <= SumFunctionOnSet(Used', Candidates)
      /\ \A q : InTurn(q)' <=>
           Ends(picks', q) /\ \A t \in Candidates : index'[t] = Taken(q, t)
  BY SameTurns
<1>2. /\ Len(picks') = Len(picks) + 1 /\ Len(picks) \in Nat
      /\ \A k \in 1..Len(picks) : picks'[k] = picks[k]
  <2>1. \E t \in Targets \cup {Failed} : Serve(t)
    BY WeightServes
  <2> QED BY <2>1, ServeAdds
<1> SUFFICES ASSUME kind = "WeightBased", listener = "http", Candidates # {}, Turn > 0
             PROVE  TurnsInv' /\ WeightedShare'
  BY <1>1 DEF TurnsInv, WeightedShare
<1>3. \/ Len(picks') <= SumFunctionOnSet(Used', Candidates)
      \/ \E p \in 1..Turn : Ends(picks', p) /\ \A t \in Candidates : index'[t] = Taken(p, t)
  BY PickKeepsTurns
<1>4. TurnsInv'
  BY <1>1, <1>3 DEF TurnsInv
<1>5. ASSUME NEW i \in (Turn + 1)..(Len(picks') - Turn + 1), NEW t \in Candidates
      PROVE  Cardinality({j \in i..(i + Turn - 1) : picks'[j] = t}) = Share[t]
  <2>0. Turn \in Nat /\ i \in Nat
    BY TurnType
  <2>1. CASE i <= Len(picks) - Turn + 1
    <3>1. i \in (Turn + 1)..(Len(picks) - Turn + 1)
      BY <1>2, <2>0, <2>1
    <3>2. Cardinality({j \in i..(i + Turn - 1) : picks[j] = t}) = Share[t]
      BY <3>1 DEF WeightedShare
    <3>3. \A j \in i..(i + Turn - 1) : j \in 1..Len(picks)
      BY <1>2, <2>0, <3>1
    <3>4. \A j \in i..(i + Turn - 1) : picks'[j] = picks[j]
      BY <1>2, <3>3
    <3>5. {j \in i..(i + Turn - 1) : picks'[j] = t} = {j \in i..(i + Turn - 1) : picks[j] = t}
      BY <3>4
    <3> QED BY <3>2, <3>5
  <2>2. CASE i = Len(picks') - Turn + 1
    <3>1. Len(picks') - Turn + 1 >= Turn + 1 /\ i + Turn - 1 = Len(picks') /\ Len(picks') \in Nat
      BY <1>2, <2>0, <2>2
    <3>2. CASE Len(picks') <= SumFunctionOnSet(Used', Candidates)
      <4>1. (TypeOK => SumFunctionOnSet(Used, Candidates) \in Nat /\
                       SumFunctionOnSet(Used, Candidates) <= Turn)'
        BY TurnsBound, PTL
      <4>2. TypeOK'
        OBVIOUS
      <4>3. /\ SumFunctionOnSet(Used', Candidates) \in Nat
            /\ SumFunctionOnSet(Used', Candidates) <= Turn
        BY <1>1, <4>1, <4>2
      <4> QED BY <2>0, <3>1, <3>2, <4>3
    <3>3. ASSUME NEW p \in 1..Turn, Ends(picks', p)
          PROVE  Cardinality({j \in i..(i + Turn - 1) : picks'[j] = t}) = Share[t]
      <4>1. Cardinality({j \in (Len(picks') - Turn + 1)..Len(picks') : picks'[j] = t}) = Share[t]
        BY <3>1, <3>3, LastTurnIsShared
      <4> QED BY <2>2, <3>1, <4>1
    <3> QED BY <1>3, <3>2, <3>3
  <2>3. i <= Len(picks) - Turn + 1 \/ i = Len(picks') - Turn + 1
    BY <1>2, <2>0
  <2> QED BY <2>1, <2>2, <2>3
<1>6. WeightedShare'
  <2>1. WeightedShare' <=> \A i \in (Turn + 1)..(Len(picks') - Turn + 1), t \in Candidates :
          Cardinality({j \in i..(i + Turn - 1) : picks'[j] = t}) = Share[t]
    BY <1>1, <1>2 DEF WeightedShare, Share
  <2> QED BY <1>5, <2>1
<1> QED BY <1>4, <1>6

\* With no pick yet, any turn is one that was interrupted.
LEMMA NoPicksYet == TypeOK /\ picks = <<>> => TurnsInv /\ WeightedShare
<1> SUFFICES ASSUME TypeOK, picks = <<>> PROVE TurnsInv /\ WeightedShare
  OBVIOUS
<1>1. Len(picks) = 0
  OBVIOUS
<1>2. Interrupted
  BY <1>1, TurnsBound DEF Interrupted
<1>3. ASSUME Turn > 0 PROVE (Turn + 1)..(Len(picks) - Turn + 1) = {}
  <2>1. Turn \in Nat
    BY TurnType
  <2> QED BY <1>1, <1>3, <2>1
<1> QED BY <1>2, <1>3 DEF TurnsInv, WeightedShare

\* Every step keeps them.
LEMMA NextKeepsShares ==
  ASSUME TypeOK, TurnsInv, WeightedShare, [Next]_vars, TypeOK'
  PROVE  TurnsInv' /\ WeightedShare'
<1>1. CASE UNCHANGED vars
  <2>1. /\ alive' = alive /\ length' = length /\ kind' = kind /\ listener' = listener
        /\ index' = index /\ picks' = picks
    BY <1>1 DEF vars
  <2>2. /\ Candidates' = Candidates /\ Turn' = Turn /\ Used' = Used
        /\ Interrupted' <=> Len(picks') <= SumFunctionOnSet(Used', Candidates)
        /\ \A q : InTurn(q)' <=>
             Ends(picks', q) /\ \A t \in Candidates : index'[t] = Taken(q, t)
    BY <2>1, SameTurns DEF Used, Share
  <2>3. TurnsInv'
    BY <2>1, <2>2 DEF TurnsInv, Interrupted, InTurn
  <2>4. WeightedShare'
    BY <2>1, <2>2 DEF WeightedShare, Share
  <2> QED BY <2>3, <2>4
<1>2. CASE GetRoute
  <2>1. alive' = alive /\ length' = length /\ kind' = kind /\ listener' = listener
    BY <1>2 DEF GetRoute
  <2>0. CASE Routes = {}
    <3>1. Candidates' = {}
      BY <2>0, <2>1, SameCandidates DEF Candidates
    <3> QED BY <3>1 DEF TurnsInv, WeightedShare
  <2>2. CASE WeightPick
    BY <2>1, <2>2, WeightKeepsShares
  <2>3. CASE kind # "WeightBased"
    BY <2>1, <2>3 DEF TurnsInv, WeightedShare
  <2> QED BY <1>2, <2>0, <2>2, <2>3 DEF GetRoute, PollPick, RandomPick, HeaderPick
<1>3. ASSUME NEW e \in Endpoints, NEW status \in {"alive", "dead"}, UpdateRouteAlive(e, status)
      PROVE  TurnsInv' /\ WeightedShare'
  <2>1. CASE alive' = alive
    <3>1. UNCHANGED vars
      BY <1>3, <2>1 DEF UpdateRouteAlive, vars
    <3> QED BY <1>1, <3>1
  <2>2. CASE alive' # alive
    <3>1. picks' = <<>>
      BY <1>3, <2>2 DEF UpdateRouteAlive
    <3>2. (TypeOK /\ picks = <<>> => TurnsInv /\ WeightedShare)'
      BY NoPicksYet, PTL
    <3> QED BY <3>1, <3>2
  <2> QED BY <2>1, <2>2
<1> QED BY <1>1, <1>2, <1>3 DEF Next

-----------------------------------------------------------------------------
(* The routers deal as a load balancer should *)

\* What is left of the shares of a turn, in a weighted router.
WeightLeft == [t \in Targets |-> IF index[t] < Share[t] THEN Share[t] - index[t] ELSE 0]

\* A pick of a weighted router is a deal: of the turn under way, or of the turn
\* that the reset of the indices begins.
LEMMA WeightDeals ==
  ASSUME TypeOK, WeightPick, listener = "http", alive' = alive, length' = length
  PROVE  Turns!DealerNext
<1> DEFINE open == {t \in Candidates : WeightReset[t] < Weight[t]}
<1>1. /\ Candidates' = Candidates /\ Routes' = Routes /\ Candidates \in SUBSET Targets
      /\ Share \in [Targets -> Nat] /\ index \in [Targets -> Nat]
      /\ WeightReset \in [Targets -> Nat] /\ Weight \in [Targets -> Int]
  BY SameCandidates, SharesType, ResetType, TargetsAssumption DEF TypeOK
<1>2. CASE Candidates = {}
  <2>1. PICK t \in Targets : /\ t \in Routes /\ Serve(t)
                             /\ index' = [index EXCEPT ![t] = @ + 1]
    BY <1>2 DEF WeightPick, Keep, Routes
  <2>2. WeightLeft' = [WeightLeft EXCEPT ![t] = IF @ > 0 THEN @ - 1 ELSE 0]
    <3>1. WeightLeft' = [u \in Targets |-> IF index'[u] < Share[u] THEN Share[u] - index'[u] ELSE 0]
      BY DEF WeightLeft, Share
    <3>2. ASSUME NEW u \in Targets
          PROVE  WeightLeft'[u] = IF u # t THEN WeightLeft[u]
                                  ELSE IF WeightLeft[t] > 0 THEN WeightLeft[t] - 1 ELSE 0
      <4>1. /\ index'[u] = IF u = t THEN index[u] + 1 ELSE index[u]
            /\ Share[u] \in Nat /\ index[u] \in Nat
        BY <1>1, <2>1
      <4> QED BY <3>1, <4>1 DEF WeightLeft
    <3>3. DOMAIN WeightLeft' = Targets /\ DOMAIN WeightLeft = Targets
      BY <3>1 DEF WeightLeft
    <3>4. WeightLeft' = [u \in Targets |-> WeightLeft'[u]]
      BY <3>1
    <3>5. WeightLeft = [u \in Targets |-> WeightLeft[u]]
      BY DEF WeightLeft
    <3> QED BY <3>2, <3>4, <3>5
  <2>3. Turns!Improvise(t)
    BY <1>1, <1>2, <2>1, <2>2 DEF Turns!Improvise, WeightLeft, Serve
  <2> QED BY <2>1, <2>3 DEF Turns!DealerNext
<1>3. CASE Candidates # {} /\ open # {}
  <2>1. \E t \in Targets : /\ t \in open /\ Serve(t)
                           /\ index' = [WeightReset EXCEPT ![t] = @ + 1]
    <3> DEFINE least == CHOOSE t \in open : \A u \in open : t <= u
    <3>1. Serve(least) /\ index' = [WeightReset EXCEPT ![least] = @ + 1]
      BY <1>3 DEF WeightPick, Keep
    <3>2. open \in SUBSET Targets
      BY <1>1
    <3> HIDE DEF open
    <3>3. least \in open
      BY <1>3, <3>2, LeastPlace
    <3> HIDE DEF least
    <3> QED BY <3>1, <3>2, <3>3
  <2>2. PICK first \in Targets : /\ first \in Candidates /\ WeightReset[first] < Weight[first]
                                /\ Serve(first) /\ index' = [WeightReset EXCEPT ![first] = @ + 1]
    BY <2>1
  <2> DEFINE turn == [u \in Targets |->
                        IF Turns!UsedUp /\ u \in Candidates THEN Share[u] ELSE WeightLeft[u]]
  <2>3. Turns!UsedUp <=> \A t \in Candidates : index[t] >= Weight[t]
    <3>1. ASSUME NEW t \in Candidates PROVE WeightLeft[t] = 0 <=> index[t] >= Weight[t]
      <4>1. t \in Targets /\ Weight[t] \in Int /\ index[t] \in Nat
        BY <1>1
      <4> QED BY <4>1 DEF WeightLeft, Share
    <3> QED BY <3>1 DEF Turns!UsedUp, WeightLeft
  <2>4. \A u \in Targets :
          turn[u] = IF WeightReset[u] < Share[u] THEN Share[u] - WeightReset[u] ELSE 0
    <3> SUFFICES ASSUME NEW u \in Targets
                 PROVE  turn[u] = IF WeightReset[u] < Share[u] THEN Share[u] - WeightReset[u] ELSE 0
      OBVIOUS
    <3>1. Share[u] \in Nat /\ index[u] \in Nat
      BY <1>1
    <3>2. CASE Turns!UsedUp
      <4>1. WeightReset[u] = IF u \in Candidates THEN 0 ELSE index[u]
        BY <2>3, <3>2 DEF WeightReset
      <4> QED BY <3>1, <3>2, <4>1 DEF WeightLeft
    <3>3. CASE ~Turns!UsedUp
      <4>1. WeightReset[u] = index[u]
        BY <2>3, <3>3 DEF WeightReset
      <4> QED BY <3>3, <4>1 DEF WeightLeft
    <3> QED BY <3>2, <3>3
  <2>5. Share[first] = Weight[first] /\ turn[first] > 0
    <3>1. /\ Weight[first] \in Int /\ WeightReset[first] \in Nat
          /\ Share[first] = IF Weight[first] > 0 THEN Weight[first] ELSE 0
      BY <1>1, <2>2 DEF Share
    <3> HIDE DEF turn
    <3> QED BY <2>2, <2>4, <3>1
  <2>6. WeightLeft' = [turn EXCEPT ![first] = @ - 1]
    <3>1. WeightLeft' = [u \in Targets |-> IF index'[u] < Share[u] THEN Share[u] - index'[u] ELSE 0]
      BY DEF WeightLeft, Share
    <3>2. ASSUME NEW u \in Targets
          PROVE  WeightLeft'[u] = IF u = first THEN turn[u] - 1 ELSE turn[u]
      <4>1. /\ index'[u] = IF u = first THEN WeightReset[u] + 1 ELSE WeightReset[u]
            /\ Share[u] \in Nat /\ WeightReset[u] \in Nat
        BY <1>1, <2>2
      <4> HIDE DEF turn
      <4> QED BY <2>2, <2>4, <2>5, <3>1, <4>1
    <3>3. DOMAIN WeightLeft' = Targets
      BY <3>1
    <3> QED BY <3>1, <3>2, <3>3
  <2>7. Turns!Deal(first)
    BY <1>1, <2>2, <2>5, <2>6 DEF Turns!Deal, WeightLeft, Serve
  <2> QED BY <2>2, <2>7 DEF Turns!DealerNext
<1>4. CASE Candidates # {} /\ open = {}
  <2>1. Serve(Failed) /\ index' = WeightReset
    BY <1>4 DEF WeightPick, Keep
  <2>2. \A t \in Candidates : Weight[t] <= 0
    BY <1>4, ResetOpens
  <2>3. \A t \in Candidates : Share[t] = 0
    <3>1. \A t \in Candidates : t \in Targets /\ ~(Weight[t] > 0)
      BY <1>1, <2>2
    <3> QED BY <3>1 DEF Share
  <2>4. WeightLeft' = WeightLeft
    <3>1. WeightLeft' = [u \in Targets |-> IF index'[u] < Share[u] THEN Share[u] - index'[u] ELSE 0]
      BY DEF WeightLeft, Share
    <3>2. \A u \in Targets : u \in Candidates \/ index'[u] = index[u]
      BY <2>1 DEF WeightReset
    <3>3. \A u \in Candidates : ~(index'[u] < Share[u]) /\ ~(index[u] < Share[u])
      BY <1>1, <2>1, <2>3
    <3> QED BY <3>1, <3>2, <3>3 DEF WeightLeft
  <2>5. Turns!Decline
    BY <1>1, <1>4, <2>1, <2>3, <2>4 DEF Turns!Decline, WeightLeft, Serve
  <2> QED BY <2>5 DEF Turns!DealerNext
<1> QED BY <1>2, <1>3, <1>4

\* The picks of the turns before the last one: that turn goes on, or it is over
\* and the next pick begins one.
WholeTurns(m, n) == (m \div n) * n

LEMMA TurnBegins ==
  ASSUME NEW n \in Nat \ {0}, NEW m \in Nat
  PROVE  LET b == WholeTurns(m - 1, n)
             c == WholeTurns(m, n)
         IN /\ b \in Int /\ c \in Int /\ c <= m
            /\ m > 0 => 0 <= b /\ b < m
            /\ \/ c = b /\ m - b < n
               \/ c = m /\ b = m - n
<1> DEFINE b == WholeTurns(m - 1, n)
           c == WholeTurns(m, n)
           before == (m - 1) \div n
           after == m \div n
           rest == m % n
           over == (m - 1) % n
<1>1. /\ before \in Int /\ after \in Int /\ rest \in 0..(n - 1) /\ over \in 0..(n - 1)
      /\ m = n * after + rest /\ m - 1 = n * before + over
      /\ b = before * n /\ c = after * n
  BY DEF WholeTurns
<1> HIDE DEF before, after, rest, over, b, c
<1>2. /\ b = n * before /\ c = n * after /\ b \in Int /\ c \in Int
      /\ m = c + rest /\ m - 1 = b + over
  BY <1>1
<1>3. ASSUME m > 0 PROVE 0 <= b /\ b < m
  <2>1. n * before > -n
    BY <1>1, <1>2, <1>3
  <2>2. before >= 0
    <3>1. CASE before <= -1
      <4>1. n * (-before - 1) >= 0 /\ n * (-before - 1) = -(n * before) - n
        BY <1>1, <3>1
      <4> QED BY <1>2, <2>1, <4>1
    <3> QED BY <1>1, <3>1
  <2>3. n * before >= 0
    BY <1>1, <2>2
  <2> QED BY <1>1, <1>2, <2>3
<1>4. ASSUME rest > 0 PROVE c = b /\ m - b < n
  <2>1. c - b = n * (after - before) /\ after - before \in Int
    BY <1>1, <1>2
  <2>2. c - b \in Int /\ -n < c - b /\ c - b < n
    BY <1>1, <1>2, <1>4
  <2>3. c - b = 0
    BY <2>1, <2>2, SmallMultiple
  <2> QED BY <1>1, <1>2, <1>4, <2>3
<1>5. ASSUME rest = 0 PROVE c = m /\ b = m - n
  <2>1. c - b - n = n * (after - before - 1) /\ after - before - 1 \in Int
    BY <1>1, <1>2
  <2>2. c - b - n \in Int /\ -n < c - b - n /\ c - b - n < n
    BY <1>1, <1>2, <1>5
  <2>3. c - b - n = 0
    BY <2>1, <2>2, SmallMultiple
  <2> QED BY <1>1, <1>2, <1>5, <2>3
<1>6. c <= m /\ (rest > 0 \/ rest = 0)
  BY <1>1, <1>2
<1> QED BY <1>2, <1>3, <1>4, <1>5, <1>6 DEF b, c

\* Whom the last turn of a Poll router went to, and what it leaves to the others.
DealtTo(t) == \E j \in 1..Len(picks) : InLastTurn(j) /\ picks[j] = t
RoundLeft == [t \in Targets |-> IF t \in Candidates /\ DealtTo(t) THEN 0 ELSE 1]

\* Each candidate was picked in any whole turn of the last picks: the one of rank
\* r as far back as the index is ahead of it.
LEMMA WholeTurnDealt ==
  ASSUME IInv, kind = "Poll", listener = "http", Candidates # {},
         Len(picks) >= Count, NEW t \in Candidates
  PROVE  \E j \in 1..Len(picks) : j > Len(picks) - Count /\ picks[j] = t
<1>1. /\ Count \in Nat \ {0} /\ Len(picks) \in Nat /\ current \in 0..(Count - 1)
      /\ Candidates \in SUBSET (1..N) /\ N \in Nat
  BY CandidatesAreTargets DEF IInv, TypeOK, PicksInTurn
<1>2. Rank(t) \in 0..(Count - 1)
  BY <1>1, RankBound DEF Rank, Count
<1> DEFINE back == IF Rank(t) <= current THEN current - Rank(t) ELSE current - Rank(t) + Count
           j == Len(picks) - back
<1>3. back \in 0..(Count - 1) /\ j \in 1..Len(picks) /\ j > Len(picks) - Count
  BY <1>1, <1>2
<1>4. PICK q \in Int : current - Rank(picks[j]) = back + q * Count
  <2>1. Behind(j)
    BY <1>3 DEF IInv, PicksInTurn
  <2>2. Len(picks) - j = back
    BY <1>1, <1>3
  <2> HIDE DEF j, back
  <2> QED BY <2>1, <2>2 DEF Behind
<1>5. picks[j] \in Candidates
  BY <1>3 DEF IInv, PicksInTurn
<1>6. Rank(picks[j]) \in 0..(Count - 1)
  <2> HIDE DEF j
  <2> QED BY <1>1, <1>5, RankBound DEF Rank, Count
<1>7. Rank(t) - Rank(picks[j]) = 0
  <2> DEFINE apart == Rank(t) - Rank(picks[j])
  <2>1. apart \in Int /\ -Count < apart /\ apart < Count
    BY <1>1, <1>2, <1>6
  <2>2. PICK p \in Int : apart = Count * p
    <3> DEFINE rounds == q * Count
    <3>1. rounds \in Int
      BY <1>1
    <3>2. current - Rank(picks[j]) = back + rounds
      BY <1>4
    <3>3. rounds = Count * q /\ rounds + Count = Count * (q + 1)
      BY <1>1
    <3>4. back = current - Rank(t) \/ back = current - Rank(t) + Count
      OBVIOUS
    <3>5. Count \in Int /\ current \in Int /\ Rank(t) \in Int /\ Rank(picks[j]) \in Int
      BY <1>1, <1>2, <1>6
    <3> HIDE DEF rounds, j, back
    <3>6. apart = rounds \/ apart = rounds + Count
      BY <3>1, <3>2, <3>4, <3>5
    <3> HIDE DEF apart
    <3> QED BY <3>3, <3>6
  <2> HIDE DEF apart
  <2>3. apart = 0
    BY <1>1, <2>1, <2>2, SmallMultiple
  <2> QED BY <2>3 DEF apart
<1>8. Rank(t) = Rank(picks[j])
  BY <1>2, <1>6, <1>7
<1>9. picks[j] = t
  <2> HIDE DEF j
  <2> QED BY <1>1, <1>5, <1>8, RankOnce DEF Rank
<1> QED BY <1>3, <1>9

\* A pick of a Poll router is a deal: to somebody the turn under way did not
\* reach yet, or of a turn that begins once it reached everybody.
LEMMA PollDeals ==
  ASSUME IInv, IInv', PollPick, listener = "http", kind' = kind, listener' = listener,
         alive' = alive, length' = length
  PROVE  Rounds!DealerNext
<1>1. /\ TypeOK /\ kind = "Poll" /\ Candidates' = Candidates /\ Count' = Count
      /\ Routes' = Routes
      /\ Candidates \in SUBSET Targets /\ Count \in Nat
  BY SameCandidates, CandidatesAreTargets DEF IInv, PollPick, Targets
<1>2. CASE Candidates = {}
  <2>1. PICK t \in Targets : t \in Routes /\ Serve(t)
    BY <1>2 DEF PollPick, Routes
  <2>2. RoundLeft' = RoundLeft
    BY <1>1, <1>2 DEF RoundLeft
  <2>3. Rounds!Improvise(t)
    BY <1>1, <1>2, <2>1, <2>2 DEF Rounds!Improvise, RoundLeft, DealtTo, Serve
  <2> QED BY <2>1, <2>3 DEF Rounds!DealerNext
<1>3. CASE Candidates # {}
  <2>1. PICK t \in Targets : Serve(t) /\ t \in Candidates
    BY <1>1, <1>3, PollServes
  <2> DEFINE m == Len(picks)
             b == WholeTurns(m - 1, Count)
             c == WholeTurns(m, Count)
  <2>2. /\ Len(picks') = m + 1 /\ m \in Nat /\ picks'[m + 1] = t
        /\ \A j \in 1..m : picks'[j] = picks[j]
    BY <1>1, <2>1, ServeAdds
  <2>3. Count \in Nat \ {0}
    BY <1>3, CandidatesAreTargets
  <2>4. /\ b \in Int /\ c \in Int /\ c <= m /\ (m > 0 => 0 <= b /\ b < m)
        /\ \/ c = b /\ m - b < Count
           \/ c = m /\ b = m - Count
    <3> HIDE DEF m
    <3>1. m \in Nat
      BY <2>2
    <3> QED BY <2>3, <3>1, TurnBegins
  <2>5. \A u : DealtTo(u) <=> \E j \in 1..m : j > b /\ picks[j] = u
    BY DEF DealtTo, InLastTurn, Count, WholeTurns
  <2>6. \A u : DealtTo(u)' <=> \E j \in 1..(m + 1) : j > c /\ picks'[j] = u
    <3>1. (Len(picks') - 1) \div Count = m \div Count
      BY <2>2
    <3>2. \A j : InLastTurn(j)' <=> j > c
      BY <1>1, <3>1 DEF InLastTurn, Count, WholeTurns
    <3> QED BY <2>2, <3>2 DEF DealtTo
  <2> HIDE DEF b, c
  <2> DEFINE turn == [u \in Targets |->
                        IF Rounds!UsedUp /\ u \in Candidates THEN 1 ELSE RoundLeft[u]]
  <2>7. Rounds!UsedUp <=> \A u \in Candidates : DealtTo(u)
    <3>1. ASSUME NEW u \in Candidates PROVE RoundLeft[u] = 0 <=> DealtTo(u)
      BY <1>1 DEF RoundLeft
    <3>2. Rounds!UsedUp <=> \A u \in Candidates : RoundLeft[u] = 0
      BY DEF Rounds!UsedUp, RoundLeft, DealtTo
    <3> QED BY <3>1, <3>2
  <2>8. turn[t] = 1 /\ \A u \in Candidates : u # t =>
          turn[u] = IF DealtTo(u)' THEN 0 ELSE 1
    <3>1. \A u \in Candidates : turn[u] = IF Rounds!UsedUp \/ ~DealtTo(u) THEN 1 ELSE 0
      BY <1>1 DEF RoundLeft
    <3> HIDE DEF turn
    <3>2. CASE m = 0
      <4>1. \A u : ~DealtTo(u)
        BY <2>5, <3>2
      <4>2. \A u : u # t => ~DealtTo(u)'
        BY <2>2, <2>6, <3>2
      <4> QED BY <2>1, <3>1, <4>1, <4>2
    <3>3. CASE m > 0 /\ c = b /\ m - b < Count
      <4>1. ~DealtTo(t)
        <5> SUFFICES ASSUME NEW j \in 1..m, j > b, picks[j] = t PROVE FALSE
          BY <2>5
        <5>1. picks'[j] = picks'[m + 1] /\ j \in 1..Len(picks') /\ m + 1 \in 1..Len(picks')
          BY <2>2
        <5>2. RoundRobin'
          <6>1. (IInv => RoundRobin)'
            BY InvGoesRound, PTL
          <6> QED BY <6>1
        <5>3. (j - (m + 1)) % Count = 0
          BY <1>1, <1>3, <5>1, <5>2 DEF RoundRobin, GoesRound, Count
        <5> DEFINE distance == j - (m + 1)
        <5>4. distance \in Int /\ -Count < distance /\ distance < 0 /\ distance % Count = 0
          BY <2>2, <2>3, <2>4, <3>3, <5>3
        <5> HIDE DEF distance
        <5>5. distance = distance + 0 * Count /\ distance < Count
          BY <2>3, <5>4
        <5>6. distance = 0
          BY <2>3, <5>4, <5>5, WholeRounds
        <5> QED BY <5>4, <5>6
      <4>2. ~Rounds!UsedUp
        BY <2>1, <2>7, <4>1
      <4>3. \A u : u # t => (DealtTo(u)' <=> DealtTo(u))
        BY <2>2, <2>5, <2>6, <3>3
      <4> QED BY <2>1, <3>1, <4>1, <4>2, <4>3
    <3>4. CASE m > 0 /\ c = m /\ b = m - Count
      <4>1. Rounds!UsedUp
        <5> SUFFICES ASSUME NEW u \in Candidates PROVE DealtTo(u)
          BY <2>7
        <5>1. m >= Count
          BY <2>2, <2>3, <2>4, <3>4
        <5>2. \E j \in 1..m : j > m - Count /\ picks[j] = u
          BY <1>1, <1>3, <5>1, WholeTurnDealt
        <5> QED BY <2>5, <3>4, <5>2
      <4>2. \A u : u # t => ~DealtTo(u)'
        BY <2>2, <2>6, <3>4
      <4> QED BY <2>1, <3>1, <4>1, <4>2
    <3> QED BY <2>2, <2>4, <3>2, <3>3, <3>4
  <2>9. DealtTo(t)'
    BY <2>2, <2>4, <2>6
  <2>10. RoundLeft' = [turn EXCEPT ![t] = @ - 1]
    <3>1. RoundLeft' = [u \in Targets |-> IF u \in Candidates /\ DealtTo(u)' THEN 0 ELSE 1]
      BY <1>1 DEF RoundLeft
    <3>2. ASSUME NEW u \in Targets
          PROVE  RoundLeft'[u] = IF u = t THEN turn[t] - 1 ELSE turn[u]
      <4>1. u \notin Candidates => turn[u] = 1
        BY DEF RoundLeft
      <4> HIDE DEF turn
      <4> QED BY <2>1, <2>8, <2>9, <3>1, <4>1
    <3> QED BY <3>1, <3>2
  <2>11. Rounds!Deal(t)
    <3>1. turn = [u \in Targets |-> IF Rounds!UsedUp /\ u \in Candidates
                                    THEN [v \in Targets |-> 1][u] ELSE RoundLeft[u]]
      OBVIOUS
    <3> HIDE DEF turn
    <3>2. turn[t] > 0
      BY <2>8
    <3> QED BY <1>1, <2>1, <2>10, <3>1, <3>2 DEF Rounds!Deal, RoundLeft, DealtTo, Serve
  <2> QED BY <2>1, <2>11 DEF Rounds!DealerNext
<1> QED BY <1>2, <1>3

\* Reports of the health checker change the pool.
LEMMA UpdateDeals ==
  ASSUME TypeOK, NEW e \in Endpoints, NEW status \in {"alive", "dead"},
         UpdateRouteAlive(e, status), alive' # alive
  PROVE  Rounds!Change /\ Turns!Change
<1>1. picks' = <<>> /\ index' = index /\ Len(picks') = 0 /\ Routes' = Routes
  BY DEF UpdateRouteAlive, Routes
<1>3. Candidates' \subseteq Routes
  BY <1>1 DEF Candidates
<1>4. RoundLeft' = [t \in Targets |-> 1]
  BY <1>1 DEF RoundLeft, DealtTo
<1>5. WeightLeft' = WeightLeft
  BY <1>1 DEF WeightLeft, Share
<1>6. Rounds!Change
  BY <1>1, <1>3, <1>4 DEF Rounds!Change, RoundLeft, DealtTo
<1>7. Turns!Change
  BY <1>1, <1>3, <1>5 DEF Turns!Change, WeightLeft
<1> QED BY <1>6, <1>7

\* At the start everybody takes part and has his share.
LEMMA DealsBegin == Init => Rounds!DealerInit /\ Turns!DealerInit
<1> SUFFICES ASSUME Init PROVE Rounds!DealerInit /\ Turns!DealerInit
  OBVIOUS
<1>1. /\ alive = [t \in Targets |-> "none"] /\ index = [t \in Targets |-> 0]
      /\ picks = <<>> /\ Len(picks) = 0
  BY DEF Init
<1>2. Candidates = Routes /\ Routes \subseteq Targets
  BY <1>1 DEF Candidates, Unconfigured, Routes
<1>3. RoundLeft = [t \in Targets |-> 1]
  BY <1>1 DEF RoundLeft, DealtTo
<1>4. WeightLeft = Share
  <2>1. Share \in [Targets -> Nat]
    BY SharesType
  <2> QED BY <1>1, <2>1 DEF WeightLeft
<1>5. Rounds!DealerInit
  BY <1>1, <1>2, <1>3 DEF Rounds!DealerInit, RoundLeft, DealtTo
<1>6. Turns!DealerInit
  BY <1>1, <1>2, <1>4 DEF Turns!DealerInit, WeightLeft
<1> QED BY <1>5, <1>6

\* Every step is one of the abstract balancer or leaves it alone.
DealsStep ==
  listener = "http" =>
    /\ kind = "Poll" => Rounds!DealerNext \/ UNCHANGED Rounds!dealerVars
    /\ kind = "WeightBased" => Turns!DealerNext \/ UNCHANGED Turns!dealerVars

\* With no targets at all nobody is dealt anything.
LEMMA NoneDealt ==
  ASSUME Routes = {}, NoRoutes, alive' = alive, length' = length
  PROVE  Rounds!Decline /\ Turns!Decline
<1>1. /\ Routes' = {} /\ Candidates = {} /\ Candidates' = {} /\ index' = index
      /\ picks' = Append(picks, Failed)
  BY SameCandidates DEF NoRoutes, Serve, Candidates
<1>2. RoundLeft' = RoundLeft /\ WeightLeft' = WeightLeft
  BY <1>1 DEF RoundLeft, WeightLeft, Share
<1> QED BY <1>1, <1>2 DEF Rounds!Decline, Turns!Decline, RoundLeft, WeightLeft, DealtTo

LEMMA NextDeals ==
  ASSUME IInv, IInv', Next
  PROVE  DealsStep
<1>1. TypeOK
  BY DEF IInv
<1>2. CASE GetRoute
  <2>1. kind' = kind /\ listener' = listener /\ length' = length /\ alive' = alive
    BY <1>2 DEF GetRoute
  <2>4. CASE Routes = {} /\ NoRoutes
    BY <1>1, <2>1, <2>4, NoneDealt DEF DealsStep, Rounds!DealerNext, Turns!DealerNext
  <2>2. Routes # {} /\ kind = "Poll" => PollPick
    BY <1>2 DEF GetRoute, RandomPick, WeightPick, HeaderPick
  <2>3. Routes # {} /\ kind = "WeightBased" => WeightPick
    BY <1>2 DEF GetRoute, RandomPick, PollPick, HeaderPick
  <2>5. CASE Routes # {}
    BY <1>1, <2>1, <2>2, <2>3, <2>5, PollDeals, WeightDeals DEF DealsStep
  <2> QED BY <1>2, <2>4, <2>5 DEF GetRoute
<1>3. ASSUME NEW e \in Endpoints, NEW status \in {"alive", "dead"}, UpdateRouteAlive(e, status)
      PROVE  DealsStep
  <2>1. CASE alive' = alive
    <3>1. picks' = picks /\ index' = index /\ length' = length
      BY <1>3, <2>1 DEF UpdateRouteAlive
    <3>2. Candidates' = Candidates /\ Routes' = Routes
      BY <2>1, <3>1, SameCandidates
    <3>3. WeightLeft' = WeightLeft
      BY <3>1 DEF WeightLeft, Share
    <3>4. RoundLeft' = RoundLeft
      BY <3>1, <3>2 DEF RoundLeft, DealtTo, InLastTurn
    <3>5. UNCHANGED Rounds!dealerVars
      BY <3>1, <3>2, <3>4 DEF Rounds!dealerVars, RoundLeft, DealtTo
    <3>6. UNCHANGED Turns!dealerVars
      BY <3>1, <3>2, <3>3 DEF Turns!dealerVars, WeightLeft
    <3> QED BY <3>5, <3>6 DEF DealsStep
  <2>2. CASE alive' # alive
    BY <1>1, <1>3, <2>2, UpdateDeals DEF DealsStep, Rounds!DealerNext, Turns!DealerNext
  <2> QED BY <2>1, <2>2
<1> QED BY <1>2, <1>3 DEF Next

-----------------------------------------------------------------------------
(* The theorems *)

\* However picks and reports of the health checker follow each other: the
\* invariant above holds.
THEOREM Invariance == Spec => []IInv
<1>1. Init => IInv
  BY InitHolds
<1>2. IInv /\ [Next]_vars => IInv'
  BY NextKeeps
<1> QED BY <1>1, <1>2, PTL DEF Spec

\* Every variable stays in its type: current_index stays a place of the vector,
\* whatever the number of candidates was when it was last set.
THEOREM TypeCorrect == Spec => []TypeOK
<1>1. IInv => TypeOK
  BY DEF IInv
<1> QED BY <1>1, Invariance, PTL

\* get_route of a balancing router hands out no dead target once every target
\* has a status and one of them is alive.
THEOREM AliveCorrect == Spec => []PicksAlive
<1>1. IInv => PicksAlive
  <2> SUFFICES ASSUME IInv, kind # "HeaderBased", ~Unconfigured,
                      \E t \in Routes : alive[t] = "alive",
                      NEW k \in 1..Len(picks), picks[k] # Failed
               PROVE  alive[picks[k]] = "alive"
    BY DEF PicksAlive
  <2>1. Candidates = {t \in Routes : alive[t] = "alive"} /\ Candidates # {}
    BY DEF Candidates
  <2> QED BY <2>1 DEF IInv, PicksFromCandidates
<1> QED BY <1>1, Invariance, PTL

\* get_route of a balancing router never indexes out of bounds and never fails,
\* but for an empty list of targets and for weights none of which is positive.
THEOREM PickCorrect == Spec => []PickSucceeds
<1>1. IInv => PickSucceeds
  <2> SUFFICES ASSUME IInv, kind # "HeaderBased", NEW k \in 1..Len(picks), picks[k] = Failed
               PROVE  \/ Routes = {}
                      \/ /\ kind = "WeightBased" /\ Candidates # {}
                         /\ \A t \in Candidates : Weight[t] <= 0
    BY DEF PickSucceeds
  <2>1. Candidates # {} \/ Routes = {}
    BY DEF IInv, PicksWithoutCandidates
  <2>2. Failed \notin Candidates
    BY CandidatesAreTargets DEF Failed
  <2> QED BY <2>1, <2>2 DEF IInv, PicksFromCandidates
<1> QED BY <1>1, Invariance, PTL

\* A Poll router behind an HTTP listener takes its candidates in turn between
\* two changes of status, wherever its index was left by the candidates before.
THEOREM RoundRobinCorrect == Spec => []RoundRobin
BY InvGoesRound, Invariance, PTL

\* Between two changes of status a weighted router behind an HTTP listener gives
\* every candidate its weight in any turn's worth of picks after the first.
THEOREM ShareCorrect == Spec => []WeightedShare
<1> DEFINE SharesInv == TypeOK /\ TurnsInv /\ WeightedShare
<1>1. Init => SharesInv
  <2>1. Init => TypeOK /\ picks = <<>>
    BY InitHolds DEF IInv, Init
  <2> QED BY <2>1, NoPicksYet
<1>2. SharesInv /\ [Next]_vars /\ TypeOK' => SharesInv'
  BY NextKeepsShares
<1> QED BY <1>1, <1>2, TypeCorrect, PTL DEF Spec

\* A Poll and a weighted router behind an HTTP listener are load balancers as
\* LoadBalancer describes them, whatever the health checker reports in the middle
\* of a turn: no pick is given twice before the others had theirs, and none of a
\* turn is lost.
THEOREM DealsCorrect == Spec => RouterDeals
<1>1. Init => /\ kind = "Poll" => Rounds!DealerInit
              /\ kind = "WeightBased" => Turns!DealerInit
  BY DealsBegin
<1>2. IInv /\ IInv' /\ [Next]_vars => [DealsStep]_vars
  BY NextDeals
<1> QED BY <1>1, <1>2, Invariance, PTL DEF Spec, RouterDeals, DealsStep
=============================================================================
