----------------------- MODULE CircuitBreakerProofs -----------------------
(***************************************************************************)
(* Proofs about CircuitBreaker, for every value of its constants: the      *)
(* counters stand for the log of the era, the breaker trips exactly when   *)
(* the log says so, and it implements BreakerContract.                     *)
(***************************************************************************)
EXTENDS CircuitBreaker, FiniteSetTheorems, TLAPS

Outcome == {"ok", "fail"}

-----------------------------------------------------------------------------
(* Logs: what appending one outcome does to the functions of a log *)

\* Appending an outcome leaves the earlier ones in place.
LEMMA AppendElements ==
  ASSUME NEW log \in Seq(Outcome), NEW e \in Outcome
  PROVE  /\ Append(log, e) \in Seq(Outcome)
         /\ Len(log) \in Nat
         /\ Len(Append(log, e)) = Len(log) + 1
         /\ Append(log, e)[Len(log) + 1] = e
         /\ \A i \in 1..Len(log) : Append(log, e)[i] = log[i]
  OBVIOUS

\* The failures of a log are finitely many.
LEMMA FailuresFinite ==
  ASSUME NEW log \in Seq(Outcome)
  PROVE  /\ IsFiniteSet({i \in 1..Len(log) : log[i] = "fail"})
         /\ Failures(log) \in Nat
<1>1. Len(log) \in Nat
  OBVIOUS
<1>2. IsFiniteSet(1..Len(log))
  BY <1>1, FS_Interval
<1>3. IsFiniteSet({i \in 1..Len(log) : log[i] = "fail"})
  BY <1>2, FS_Subset
<1> QED
  BY <1>3, FS_CardinalityType DEF Failures

\* A failure appended to a log adds one to its failures, a success none.
LEMMA FailuresAppend ==
  ASSUME NEW log \in Seq(Outcome), NEW e \in Outcome
  PROVE  Failures(Append(log, e)) = Failures(log) + (IF e = "fail" THEN 1 ELSE 0)
<1> DEFINE Old == {i \in 1..Len(log) : log[i] = "fail"}
           New == {i \in 1..Len(Append(log, e)) : Append(log, e)[i] = "fail"}
           last == Len(log) + 1
<1>0. Failures(log) = Cardinality(Old) /\ Failures(Append(log, e)) = Cardinality(New)
  BY DEF Failures
<1>1. IsFiniteSet(Old) /\ Cardinality(Old) \in Nat
  BY FailuresFinite DEF Failures
<1>2. last \notin Old
  BY AppendElements
<1>3. CASE e = "fail"
  <2>1. New = Old \cup {last}
    BY <1>3, AppendElements
  <2>2. Cardinality(New) = Cardinality(Old) + 1
    BY <1>1, <1>2, <2>1, FS_AddElement
  <2> QED
    BY <1>0, <1>3, <2>2
<1>4. CASE e = "ok"
  <2>1. New = Old
    BY <1>4, AppendElements
  <2>2. Cardinality(New) = Cardinality(Old)
    BY <2>1
  <2>3. (IF e = "fail" THEN 1 ELSE 0) = 0
    BY <1>4
  <2> HIDE DEF Old, New
  <2> QED
    BY <1>0, <1>1, <2>2, <2>3
<1> QED
  BY <1>3, <1>4 DEF Outcome

\* A failure lengthens the failing suffix by one; a success ends it.
LEMMA SuffixAppend ==
  ASSUME NEW log \in Seq(Outcome), NEW c \in Nat
  PROVE  /\ LastAreFailures(Append(log, "fail"), c + 1) <=> LastAreFailures(log, c)
         /\ LastAreFailures(Append(log, "ok"), 0)
         /\ ~LastAreFailures(Append(log, "ok"), 1)
<1>1. "ok" \in Outcome /\ "fail" \in Outcome
  BY DEF Outcome
<1>2. LastAreFailures(Append(log, "fail"), c + 1) <=> LastAreFailures(log, c)
  BY <1>1, AppendElements DEF LastAreFailures
<1>3. LastAreFailures(Append(log, "ok"), 0)
  BY <1>1, AppendElements DEF LastAreFailures
<1>4. ~LastAreFailures(Append(log, "ok"), 1)
  BY <1>1, AppendElements DEF LastAreFailures
<1> QED
  BY <1>2, <1>3, <1>4

\* The length of the failing suffix decides every shorter suffix.
LEMMA SuffixLength ==
  ASSUME NEW log \in Seq(Outcome), NEW c \in Nat, NEW n \in Nat,
         LastAreFailures(log, c), ~LastAreFailures(log, c + 1)
  PROVE  LastAreFailures(log, n) <=> n <= c
<1>1. Len(log) \in Nat
  OBVIOUS
<1>2. ASSUME n <= c PROVE LastAreFailures(log, n)
  BY <1>1, <1>2 DEF LastAreFailures
<1>3. ASSUME n > c, LastAreFailures(log, n) PROVE FALSE
  BY <1>1, <1>3 DEF LastAreFailures
<1> QED
  BY <1>2, <1>3

\* The prefixes of a log are those of the log one longer, which is the last
\* of its own prefixes.
LEMMA PrefixAppend ==
  ASSUME NEW log \in Seq(Outcome), NEW e \in Outcome
  PROVE  /\ \A k \in 1..Len(log) :
              SubSeq(Append(log, e), 1, k) = SubSeq(log, 1, k)
         /\ SubSeq(Append(log, e), 1, Len(log) + 1) = Append(log, e)
  BY AppendElements

\* record_failure compares the counters with the thresholds exactly when the
\* log that ends in this failure must trip the breaker.
LEMMA ThresholdsMeanShouldTrip ==
  ASSUME NEW log \in Seq(Outcome), NEW c \in Nat,
         LastAreFailures(log, c), ~LastAreFailures(log, c + 1)
  PROVE  ShouldTrip(Append(log, "fail")) <=>
           \/ TooManyInARow(c + 1)
           \/ RateTooHigh(Failures(log) + 1, Len(log) + 1)
<1> DEFINE new == Append(log, "fail")
<1>1. "fail" \in Outcome
  BY DEF Outcome
<1>2. /\ new \in Seq(Outcome) /\ new # <<>>
      /\ Len(new) = Len(log) + 1
      /\ new[Len(new)] = "fail"
  BY <1>1, AppendElements
<1>3. Failures(new) = Failures(log) + 1
  BY <1>1, FailuresAppend
<1>4. LastAreFailures(new, c + 1) /\ ~LastAreFailures(new, (c + 1) + 1)
  BY SuffixAppend
<1> HIDE DEF new
<1>5. LastAreFailures(new, ConsecutiveFailureThreshold)
        <=> ConsecutiveFailureThreshold <= c + 1
  BY <1>2, <1>4, SuffixLength, ThresholdAssumption
<1>6. ShouldTrip(new) <=> \/ LastAreFailures(new, ConsecutiveFailureThreshold)
                          \/ RateTooHigh(Failures(new), Len(new))
  BY <1>2 DEF ShouldTrip, RateTooHigh
<1>7. RateTooHigh(Failures(new), Len(new))
        <=> RateTooHigh(Failures(log) + 1, Len(log) + 1)
  BY <1>2, <1>3
<1>8. TooManyInARow(c + 1) <=> ConsecutiveFailureThreshold <= c + 1
  BY ThresholdAssumption DEF TooManyInARow
<1>9. ShouldTrip(new) <=> \/ TooManyInARow(c + 1)
                          \/ RateTooHigh(Failures(log) + 1, Len(log) + 1)
  BY <1>5, <1>6, <1>7, <1>8
<1> QED
  BY <1>9 DEF new

-----------------------------------------------------------------------------
(* The inductive invariant *)

IInv == TypeOK /\ CountersMatchLog /\ TripsExactlyWhenDue

\* The empty log has no failure.
LEMMA EmptyLog ==
  Failures(<<>>) = 0 /\ LastAreFailures(<<>>, 0) /\ ~LastAreFailures(<<>>, 1)
<1>1. {i \in 1..Len(<<>>) : <<>>[i] = "fail"} = {}
  OBVIOUS
<1> QED
  BY <1>1, FS_EmptySet DEF Failures, LastAreFailures

LEMMA InitInv == Init => IInv
<1> SUFFICES ASSUME Init PROVE IInv
  OBVIOUS
<1>1. TypeOK
  BY ThresholdAssumption, BoundAssumption DEF Init, TypeOK
<1>2. CountersMatchLog
  BY EmptyLog DEF Init, CountersMatchLog
<1>3. TripsExactlyWhenDue
  BY DEF Init, TripsExactlyWhenDue
<1> QED
  BY <1>1, <1>2, <1>3 DEF IInv

-----------------------------------------------------------------------------
(* Preservation: admissions, losses and ticks leave the counters and the log *)
(* as they are; the two record functions move them together.                *)

\* What the steps that record nothing keep: the log, the counters, and whether
\* the breaker is Closed.
Unrecorded ==
  /\ (mode = "Closed") <=> (mode' = "Closed")
  /\ UNCHANGED <<closedFields, outcomes>>

LEMMA UnrecordedKeepsInv ==
  ASSUME CountersMatchLog, TripsExactlyWhenDue, Unrecorded
  PROVE  CountersMatchLog' /\ TripsExactlyWhenDue'
  BY DEF Unrecorded, CountersMatchLog, TripsExactlyWhenDue, closedFields

\* A log with one outcome more has a prefix that must trip iff the old log had
\* one or the new log itself must trip.
LEMMA TripsAppend ==
  ASSUME NEW log \in Seq(Outcome), NEW e \in Outcome
  PROVE  LET new == Append(log, e)
         IN  (\A k \in 1..Len(new) : ~ShouldTrip(SubSeq(new, 1, k)))
               <=> /\ \A k \in 1..Len(log) : ~ShouldTrip(SubSeq(log, 1, k))
                   /\ ~ShouldTrip(new)
<1> DEFINE new == Append(log, e)
<1>1. Len(log) \in Nat /\ Len(new) = Len(log) + 1
  BY AppendElements
<1>2. 1..Len(new) = (1..Len(log)) \cup {Len(log) + 1}
  BY <1>1
<1>3. /\ \A k \in 1..Len(log) : SubSeq(new, 1, k) = SubSeq(log, 1, k)
      /\ SubSeq(new, 1, Len(log) + 1) = new
  BY PrefixAppend
<1> HIDE DEF new
<1>4. (\A k \in 1..Len(new) : ~ShouldTrip(SubSeq(new, 1, k)))
        <=> /\ \A k \in 1..Len(log) : ~ShouldTrip(SubSeq(log, 1, k))
            /\ ~ShouldTrip(new)
  BY <1>2, <1>3
<1> QED
  BY <1>4 DEF new

\* A success recorded while Closed: total grows, the failing run ends, and a
\* log that ends in a success never has to trip.
LEMMA SuccessWhileClosed ==
  ASSUME IInv, mode = "Closed", RecordSuccess
  PROVE  CountersMatchLog' /\ TripsExactlyWhenDue'
<1> DEFINE new == Append(outcomes, "ok")
<1>1. /\ mode' = "Closed" /\ outcomes' = new
      /\ failures' = failures /\ total' = total + 1 /\ consecutive' = 0
  BY DEF RecordSuccess
<1>2. outcomes \in Seq(Outcome) /\ "ok" \in Outcome
  BY DEF IInv, TypeOK, Outcome
<1>3. Len(new) = Len(outcomes) + 1 /\ new[Len(new)] = "ok"
  BY <1>2, AppendElements
<1>4. Failures(new) = Failures(outcomes) + (IF "ok" = "fail" THEN 1 ELSE 0)
  BY <1>2, FailuresAppend
<1>5. Failures(new) = Failures(outcomes)
  <2>1. (IF "ok" = "fail" THEN 1 ELSE 0) = 0
    OBVIOUS
  <2>2. Failures(outcomes) \in Nat
    BY <1>2, FailuresFinite
  <2> HIDE DEF new
  <2> QED
    BY <1>4, <2>1, <2>2
<1>6. LastAreFailures(new, 0) /\ ~LastAreFailures(new, 1)
  BY <1>2, SuffixAppend
<1>7. CountersMatchLog'
  <2>1. total = Len(outcomes) /\ failures = Failures(outcomes)
    BY DEF IInv, CountersMatchLog
  <2>2. total' = Len(outcomes') /\ failures' = Failures(outcomes')
    BY <1>1, <1>3, <1>5, <2>1
  <2>3. LastAreFailures(outcomes', consecutive') /\ ~LastAreFailures(outcomes', consecutive' + 1)
    BY <1>1, <1>6
  <2> QED
    BY <2>2, <2>3 DEF CountersMatchLog, Failures, LastAreFailures
<1>8. ~ShouldTrip(new)
  BY <1>3 DEF ShouldTrip
<1>9. TripsExactlyWhenDue'
  <2>1. \A k \in 1..Len(outcomes) : ~ShouldTrip(SubSeq(outcomes, 1, k))
    BY DEF IInv, TripsExactlyWhenDue
  <2>2. \A k \in 1..Len(new) : ~ShouldTrip(SubSeq(new, 1, k))
    BY <1>2, <1>8, <2>1, TripsAppend
  <2> QED
    BY <1>1, <2>2 DEF TripsExactlyWhenDue, ShouldTrip, Failures, LastAreFailures
<1> QED
  BY <1>7, <1>9

\* A failure recorded while Closed: the breaker trips iff the new log says so,
\* and otherwise the three counters grow with the log.
LEMMA FailureWhileClosed ==
  ASSUME IInv, mode = "Closed", RecordFailure
  PROVE  CountersMatchLog' /\ TripsExactlyWhenDue'
<1> DEFINE new == Append(outcomes, "fail")
           due == TooManyInARow(consecutive + 1) \/ RateTooHigh(failures + 1, total + 1)
<1>1. /\ outcomes' = new
      /\ (mode' = "Closed") <=> ~due
      /\ ~due => /\ failures' = failures + 1
                 /\ total' = total + 1
                 /\ consecutive' = consecutive + 1
  BY DEF RecordFailure, Trip
<1>2. outcomes \in Seq(Outcome) /\ "fail" \in Outcome /\ consecutive \in Nat
  BY DEF IInv, TypeOK, Outcome
<1>3. /\ total = Len(outcomes) /\ failures = Failures(outcomes)
      /\ LastAreFailures(outcomes, consecutive)
      /\ ~LastAreFailures(outcomes, consecutive + 1)
  BY DEF IInv, CountersMatchLog
<1>4. ShouldTrip(new) <=> due
  BY <1>2, <1>3, ThresholdsMeanShouldTrip
<1>5. CountersMatchLog'
  <2>1. Len(new) = Len(outcomes) + 1 /\ Failures(new) = Failures(outcomes) + 1
    BY <1>2, AppendElements, FailuresAppend
  <2>2. LastAreFailures(new, consecutive + 1) /\ ~LastAreFailures(new, (consecutive + 1) + 1)
    BY <1>2, <1>3, SuffixAppend
  <2>3. ~due => /\ total' = Len(outcomes') /\ failures' = Failures(outcomes')
                /\ LastAreFailures(outcomes', consecutive')
                /\ ~LastAreFailures(outcomes', consecutive' + 1)
    BY <1>1, <1>3, <2>1, <2>2
  <2> QED
    BY <1>1, <2>3 DEF CountersMatchLog, Failures, LastAreFailures
<1>6. TripsExactlyWhenDue'
  <2>1. \A k \in 1..Len(outcomes) : ~ShouldTrip(SubSeq(outcomes, 1, k))
    BY DEF IInv, TripsExactlyWhenDue
  <2>2. (\A k \in 1..Len(new) : ~ShouldTrip(SubSeq(new, 1, k))) <=> ~due
    BY <1>2, <1>4, <2>1, TripsAppend
  <2>3. (mode' = "Closed") <=>
          (\A k \in 1..Len(outcomes') : ~ShouldTrip(SubSeq(outcomes', 1, k)))
    BY <1>1, <2>2
  <2> QED
    BY <2>3 DEF TripsExactlyWhenDue, ShouldTrip, Failures, LastAreFailures
<1> QED
  BY <1>5, <1>6

\* Closing or tripping from HalfOpen, and outcomes that come while Open.
LEMMA RecordKeepsInv ==
  ASSUME IInv, RecordSuccess \/ RecordFailure
  PROVE  CountersMatchLog' /\ TripsExactlyWhenDue'
<1>1. CASE mode = "Closed"
  BY <1>1, SuccessWhileClosed, FailureWhileClosed
<1>2. CASE mode = "HalfOpen" /\ ResetToClosed
  <2>1. /\ mode' = "Closed" /\ outcomes' = <<>>
        /\ failures' = 0 /\ total' = 0 /\ consecutive' = 0
    BY <1>2 DEF ResetToClosed
  <2>2. Failures(outcomes') = 0 /\ LastAreFailures(outcomes', 0)
        /\ ~LastAreFailures(outcomes', 1) /\ Len(outcomes') = 0
    BY <2>1, EmptyLog
  <2> QED
    BY <2>1, <2>2 DEF CountersMatchLog, TripsExactlyWhenDue, Failures, LastAreFailures
<1>3. CASE mode = "HalfOpen" /\ Trip /\ UNCHANGED <<outcomes, lost>>
  BY <1>3 DEF Trip, IInv, CountersMatchLog, TripsExactlyWhenDue
<1>4. CASE mode = "Open" /\ UNCHANGED <<mode, closedFields, wait, halfOpenFields, history>>
  <2>1. Unrecorded
    BY <1>4 DEF Unrecorded, history
  <2> QED
    BY <2>1, UnrecordedKeepsInv DEF IInv
<1>5. mode \in {"Closed", "Open", "HalfOpen"}
  BY DEF IInv, TypeOK
<1> QED
  BY <1>1, <1>2, <1>3, <1>4, <1>5 DEF RecordSuccess, RecordFailure

-----------------------------------------------------------------------------
(* Type correctness, one step per action *)

LEMMA CheckType ==
  ASSUME TypeOK, NEW r \in Requests, Check(r)
  PROVE  TypeOK'
<1>1. CASE AdmitWhileClosed /\ inflight' = inflight \cup {r}
  BY <1>1 DEF AdmitWhileClosed, TypeOK, closedFields, halfOpenFields, history
<1>2. CASE AdmitAfterCooldown /\ inflight' = inflight \cup {r}
  BY <1>2 DEF AdmitAfterCooldown, TypeOK, closedFields
<1>3. CASE AdmitProbe(r) /\ inflight' = inflight \cup {r}
  BY <1>3 DEF AdmitProbe, TypeOK, closedFields, halfOpenFields
<1>4. CASE UNCHANGED vars
  BY <1>4 DEF vars, TypeOK, closedFields, halfOpenFields, history
<1> QED
  BY <1>1, <1>2, <1>3, <1>4 DEF Check, Allow, Deny

LEMMA RespondType ==
  ASSUME TypeOK, NEW r \in Requests, Respond(r)
  PROVE  TypeOK'
<1>1. inflight' \subseteq Requests
  BY DEF Respond, TypeOK
<1>2. CASE RecordSuccess
  <2>1. CASE mode = "Closed"
    BY <1>1, <1>2, <2>1, ThresholdAssumption
    DEF RecordSuccess, TypeOK, halfOpenFields
  <2>2. CASE mode = "HalfOpen" /\ ResetToClosed
    BY <1>1, <2>2, ThresholdAssumption DEF ResetToClosed, TypeOK
  <2>3. CASE mode = "Open"
    BY <1>1, <1>2, <2>3
    DEF RecordSuccess, TypeOK, closedFields, halfOpenFields, history
  <2> QED
    BY <1>2, <2>1, <2>2, <2>3 DEF RecordSuccess
<1>3. CASE RecordFailure
  <2>1. CASE /\ Trip /\ lost' \in {0, lost}
             /\ outcomes' \in {outcomes, Append(outcomes, "fail")}
    BY <1>1, <2>1, ThresholdAssumption, BoundAssumption DEF Trip, TypeOK
  <2>2. CASE /\ mode = "Closed" /\ outcomes' = Append(outcomes, "fail")
             /\ failures' = failures + 1 /\ total' = total + 1
             /\ consecutive' = consecutive + 1 /\ lost' = 0
             /\ UNCHANGED <<mode, wait, halfOpenFields, probes>>
    BY <1>1, <2>2, ThresholdAssumption DEF TypeOK, halfOpenFields
  <2>3. CASE mode = "Open" /\ UNCHANGED <<mode, closedFields, wait, halfOpenFields, history>>
    BY <1>1, <2>3 DEF TypeOK, closedFields, halfOpenFields, history
  <2> QED
    BY <1>3, <2>1, <2>2, <2>3 DEF RecordFailure
<1> QED
  BY <1>2, <1>3 DEF Respond

LEMMA LoseType ==
  ASSUME TypeOK, NEW r \in Requests, Lose(r)
  PROVE  TypeOK'
  BY ThresholdAssumption DEF Lose, TypeOK, closedFields, halfOpenFields

LEMMA TickType ==
  ASSUME TypeOK, Tick
  PROVE  TypeOK'
  BY BoundAssumption DEF Tick, TypeOK, closedFields, halfOpenFields, history

-----------------------------------------------------------------------------
(* The theorems *)

\* Every step keeps the inductive invariant.
LEMMA NextInv == IInv /\ [Next]_vars => IInv'
<1> SUFFICES ASSUME IInv, [Next]_vars PROVE IInv'
  OBVIOUS
<1>1. TypeOK
  BY DEF IInv
<1>2. ASSUME NEW r \in Requests, Check(r) PROVE IInv'
  <2>1. Unrecorded
    BY <1>2 DEF Check, Allow, Deny, AdmitWhileClosed, AdmitAfterCooldown,
                AdmitProbe, Unrecorded, history, vars
  <2> QED
    BY <1>1, <1>2, <2>1, CheckType, UnrecordedKeepsInv DEF IInv
<1>3. ASSUME NEW r \in Requests, Respond(r) PROVE IInv'
  BY <1>1, <1>3, RespondType, RecordKeepsInv DEF IInv, Respond
<1>4. ASSUME NEW r \in Requests, Lose(r) PROVE IInv'
  <2>1. Unrecorded
    BY <1>4 DEF Lose, Unrecorded
  <2> QED
    BY <1>1, <1>4, <2>1, LoseType, UnrecordedKeepsInv DEF IInv
<1>5. CASE Tick
  <2>1. Unrecorded
    BY <1>5 DEF Tick, Unrecorded, history
  <2> QED
    BY <1>1, <1>5, <2>1, TickType, UnrecordedKeepsInv DEF IInv
<1>6. CASE UNCHANGED vars
  BY <1>6 DEF vars, closedFields, halfOpenFields, history, IInv, TypeOK,
              CountersMatchLog, TripsExactlyWhenDue
<1> QED
  BY <1>2, <1>3, <1>4, <1>5, <1>6 DEF Next

\* The inductive invariant holds of every behaviour.
THEOREM Invariance == Spec => []IInv
  BY InitInv, NextInv, PTL DEF Spec

\* Type correctness of the breaker for every configuration.
THEOREM TypeCorrect == Spec => []TypeOK
<1>1. IInv => TypeOK
  BY DEF IInv
<1> QED
  BY Invariance, <1>1, PTL

\* The counters are those of the outcomes recorded in the Closed era, for every
\* interleaving of requests and every threshold.
THEOREM CountersCorrect == Spec => []CountersMatchLog
<1>1. IInv => CountersMatchLog
  BY DEF IInv
<1> QED
  BY Invariance, <1>1, PTL

\* The breaker trips when a threshold is met and at no other time.
THEOREM TripsCorrect == Spec => []TripsExactlyWhenDue
<1>1. IInv => TripsExactlyWhenDue
  BY DEF IInv
<1> QED
  BY Invariance, <1>1, PTL

\* The breaker implements its contract: initial states map to initial states
\* and every step to a step of the contract or to a stutter.
THEOREM Refinement == Spec => ImplementsContract
<1>1. Init => Contract!ContractInit
  BY DEF Init, Contract!ContractInit
<1>2. TypeOK /\ [Next]_vars => [Contract!ContractNext]_(Contract!contractVars)
  <2> SUFFICES ASSUME TypeOK, [Next]_vars
               PROVE  Contract!ContractNext \/ UNCHANGED Contract!contractVars
    OBVIOUS
  <2>1. ASSUME NEW r \in Requests, Check(r)
        PROVE  Contract!Admit(r) \/ UNCHANGED Contract!contractVars
    BY <2>1 DEF Check, Allow, Deny, AdmitWhileClosed, AdmitAfterCooldown, AdmitProbe,
                TypeOK, vars, Contract!Admit, Contract!contractVars
  <2>2. ASSUME NEW r \in Requests, Respond(r) PROVE Contract!End(r)
    BY <2>2 DEF Respond, RecordSuccess, RecordFailure, ResetToClosed, Trip,
                Contract!End
  <2>3. ASSUME NEW r \in Requests, Lose(r) PROVE Contract!End(r)
    BY <2>3 DEF Lose, Contract!End
  <2>4. CASE Tick
    BY <2>4 DEF Tick, Contract!Pass, Contract!ContractNext
  <2>5. CASE UNCHANGED vars
    BY <2>5 DEF vars, Contract!contractVars
  <2> QED
    BY <2>1, <2>2, <2>3, <2>4, <2>5 DEF Next, Contract!ContractNext
<1> QED
  BY <1>1, <1>2, TypeCorrect, PTL DEF Spec, ImplementsContract, Contract!ContractSpec
=============================================================================
