--------------------------- MODULE CircuitBreaker ---------------------------
(***************************************************************************)
(* The circuit breaker of a route (middleware/circuit_breaker.rs) and the  *)
(* requests that run through it concurrently (proxy/http1/http_proxy.rs).  *)
(*                                                                         *)
(* Every call of the breaker takes its mutex, so a call is one step; the   *)
(* await on the upstream lies between the check and the record, so any     *)
(* number of requests sits between the two, and an outcome may be recorded *)
(* in a later state of the breaker than the one that admitted the request. *)
(*                                                                         *)
(* Instants are abstracted to wait, the ticks left until opens_at.         *)
(***************************************************************************)
EXTENDS Integers, Sequences, FiniteSets

CONSTANTS
  Requests,                     \* concurrent requests of the route
  ConsecutiveFailureThreshold,  \* consecutive_failures
  RateNum, RateDen,             \* failure_threshold, as a fraction
  MinRequests,                  \* request_volume_threshold
  OpenDuration,                 \* cooldown, in ticks
  HalfOpenMaxRequests,          \* half_open_requests
  MaxOutcomes                   \* bound: outcomes recorded in one Closed era

ASSUME ThresholdAssumption ==
  /\ ConsecutiveFailureThreshold \in Nat
  /\ RateNum \in Nat
  /\ RateDen \in Nat \ {0}
  /\ MinRequests \in Nat
  /\ HalfOpenMaxRequests \in Nat

ASSUME BoundAssumption ==
  /\ OpenDuration \in Nat
  /\ MaxOutcomes \in Nat

VARIABLES
  mode,                          \* the variant of enum State
  failures, total, consecutive,  \* the fields of State::Closed
  wait,                          \* ticks to State::Open.opens_at
  successProbes, totalProbes,    \* the fields of State::HalfOpen
  inflight,                      \* requests between check and record
  outcomes,                      \* history: outcomes recorded since Closed
  probes,                        \* history: calls let in by this HalfOpen
  lost                           \* history: ends in a row while Closed, none
                                 \* answered and none recorded

closedFields == <<failures, total, consecutive>>
halfOpenFields == <<successProbes, totalProbes>>
history == <<outcomes, probes, lost>>
vars == <<mode, closedFields, wait, halfOpenFields, inflight, history>>

Init ==
  /\ mode = "Closed"
  /\ failures = 0 /\ total = 0 /\ consecutive = 0
  /\ wait = 0
  /\ successProbes = 0 /\ totalProbes = 0
  /\ inflight = {}
  /\ outcomes = <<>>
  /\ probes = {}
  /\ lost = 0

-----------------------------------------------------------------------------
(* is_call_allowed *)

AdmitWhileClosed ==
  /\ mode = "Closed"
  /\ UNCHANGED <<mode, wait, closedFields, halfOpenFields, history>>

\* Mutant of AdmitAfterCooldown: the deadline is not compared with the clock.
AdmitWithoutCooldown ==
  /\ mode = "Open"
  /\ mode' = "HalfOpen"
  /\ successProbes' = 0 /\ totalProbes' = 0
  /\ probes' = {}
  /\ UNCHANGED <<wait, closedFields, outcomes, lost>>

\* The first call after the cool-down moves Open to HalfOpen and goes through
\* without being counted as a probe.
AdmitAfterCooldown ==
  /\ mode = "Open" /\ wait = 0
  /\ mode' = "HalfOpen"
  /\ successProbes' = 0 /\ totalProbes' = 0
  /\ probes' = {}
  /\ UNCHANGED <<wait, closedFields, outcomes, lost>>

AdmitProbe(r) ==
  /\ mode = "HalfOpen" /\ totalProbes < HalfOpenMaxRequests
  /\ probes' = probes \cup {r}
  /\ UNCHANGED <<mode, wait, closedFields, halfOpenFields, outcomes, lost>>

Allow(r) == AdmitWhileClosed \/ AdmitAfterCooldown \/ AdmitProbe(r)

\* A denied call is answered 503 and leaves the breaker as it is.
Denied ==
  \/ mode = "Open" /\ wait > 0
  \/ mode = "HalfOpen" /\ totalProbes >= HalfOpenMaxRequests

\* Mutant of Deny: a denied call starts the cool-down again.
DenyRestartsCooldown ==
  /\ Denied
  /\ wait' = IF mode = "Open" THEN OpenDuration ELSE wait
  /\ UNCHANGED <<mode, closedFields, halfOpenFields, inflight, history>>

Deny == Denied /\ UNCHANGED vars

\* check_request of request r.
Check(r) ==
  /\ r \notin inflight
  /\ \/ Allow(r) /\ inflight' = inflight \cup {r}
     \/ Deny

-----------------------------------------------------------------------------
(* record_success and record_failure *)

Trip ==
  /\ mode' = "Open"
  /\ wait' = OpenDuration
  /\ failures' = 0 /\ total' = 0 /\ consecutive' = 0
  /\ successProbes' = 0 /\ totalProbes' = 0
  /\ probes' = {}

ResetToClosed ==
  /\ mode' = "Closed"
  /\ failures' = 0 /\ total' = 0 /\ consecutive' = 0
  /\ successProbes' = 0 /\ totalProbes' = 0
  /\ outcomes' = <<>> /\ probes' = {} /\ lost' = 0
  /\ UNCHANGED wait

\* Mutant of RecordSuccess: the failing run is not reset.
RecordSuccessKeepsRun ==
  \/ /\ mode = "Closed"
     /\ total' = total + 1
     /\ outcomes' = Append(outcomes, "ok")
     /\ lost' = 0
     /\ UNCHANGED <<mode, failures, consecutive, wait, halfOpenFields, probes>>
  \/ mode = "HalfOpen" /\ ResetToClosed
  \/ mode = "Open" /\ UNCHANGED <<mode, closedFields, wait, halfOpenFields, history>>

RecordSuccess ==
  \/ /\ mode = "Closed"
     /\ total' = total + 1
     /\ consecutive' = 0
     /\ outcomes' = Append(outcomes, "ok")
     /\ lost' = 0
     /\ UNCHANGED <<mode, failures, wait, halfOpenFields, probes>>
  \/ mode = "HalfOpen" /\ ResetToClosed
  \/ mode = "Open" /\ UNCHANGED <<mode, closedFields, wait, halfOpenFields, history>>

\* The thresholds, on the counters as they stand after a failure.
\* Mutant of TooManyInARow: off by one.
TooManyInARowStrict(c) == c > ConsecutiveFailureThreshold

TooManyInARow(c) == c >= ConsecutiveFailureThreshold
RateTooHigh(f, t) == t >= MinRequests /\ f * RateDen >= RateNum * t

\* Mutant of RecordFailure: a late failure trips an open breaker once more.
RecordFailureAlwaysTrips ==
  /\ Trip
  /\ lost' = IF mode = "Closed" THEN 0 ELSE lost
  /\ outcomes' = IF mode = "Closed" THEN Append(outcomes, "fail") ELSE outcomes

RecordFailure ==
  \/ /\ mode = "Closed"
     /\ outcomes' = Append(outcomes, "fail")
     /\ lost' = 0
     /\ IF TooManyInARow(consecutive + 1) \/ RateTooHigh(failures + 1, total + 1)
        THEN Trip
        ELSE /\ failures' = failures + 1
             /\ total' = total + 1
             /\ consecutive' = consecutive + 1
             /\ UNCHANGED <<mode, wait, halfOpenFields, probes>>
  \/ mode = "HalfOpen" /\ Trip /\ UNCHANGED <<outcomes, lost>>
  \/ mode = "Open" /\ UNCHANGED <<mode, closedFields, wait, halfOpenFields, history>>

\* The upstream of r answered (or its connection failed): record_outcome runs.
\* A 2xx is a success, everything else a failure.
Respond(r) ==
  /\ r \in inflight
  /\ mode = "Closed" => Len(outcomes) < MaxOutcomes
  /\ RecordSuccess \/ RecordFailure
  /\ inflight' = inflight \ {r}

\* r ends on a path of proxy() that returns before handle_before_response: the
\* upstream timed out, or a `?` failed after the check. Nothing is recorded.
Lose(r) ==
  /\ r \in inflight
  /\ inflight' = inflight \ {r}
  /\ lost' = IF mode = "Closed" /\ lost < ConsecutiveFailureThreshold
             THEN lost + 1 ELSE lost
  /\ UNCHANGED <<mode, closedFields, wait, halfOpenFields, outcomes, probes>>

Tick ==
  /\ wait > 0
  /\ wait' = wait - 1
  /\ UNCHANGED <<mode, closedFields, halfOpenFields, inflight, history>>

Next ==
  \/ \E r \in Requests : Check(r) \/ Respond(r) \/ Lose(r)
  \/ Tick

Spec == Init /\ [][Next]_vars

\* Time passes, a request in flight ends (the route's timeout sees to it), and
\* clients keep calling: the breaker moves only when it is called.
Fairness ==
  /\ WF_vars(Tick)
  /\ \A r \in Requests : WF_vars(Check(r)) /\ WF_vars(Respond(r) \/ Lose(r))

FairSpec == Spec /\ Fairness

-----------------------------------------------------------------------------
(* What the counters stand for *)

\* How many outcomes of a log are failures, and whether its last c are.
Failures(log) == Cardinality({i \in 1..Len(log) : log[i] = "fail"})
LastAreFailures(log, c) ==
  /\ c <= Len(log)
  /\ \A i \in 1..Len(log) : i > Len(log) - c => log[i] = "fail"

\* The log of a Closed era whose last outcome must trip the breaker.
ShouldTrip(log) ==
  /\ log # <<>> /\ log[Len(log)] = "fail"
  /\ \/ LastAreFailures(log, ConsecutiveFailureThreshold)
     \/ /\ Len(log) >= MinRequests
        /\ Failures(log) * RateDen >= RateNum * Len(log)

-----------------------------------------------------------------------------
(* Properties *)

\* Every variable stays in its type; the fields of a variant of State that is
\* not the current one stay 0.
TypeOK ==
  /\ mode \in {"Closed", "Open", "HalfOpen"}
  /\ failures \in Nat /\ total \in Nat /\ consecutive \in Nat
  /\ wait \in 0..OpenDuration
  /\ successProbes \in Nat /\ totalProbes \in Nat
  /\ inflight \subseteq Requests
  /\ outcomes \in Seq({"ok", "fail"})
  /\ probes \subseteq Requests
  /\ lost \in 0..ConsecutiveFailureThreshold
  /\ mode # "Closed" => failures = 0 /\ total = 0 /\ consecutive = 0
  /\ mode # "Open" => wait = 0

\* While Closed the three counters of State::Closed are functions of the
\* outcomes recorded in this Closed era, whichever era admitted the requests:
\* nothing of an earlier era is left over after reset_to_closed, and consecutive
\* is exactly the length of the failing suffix.
CountersMatchLog ==
  mode = "Closed" =>
    /\ total = Len(outcomes)
    /\ failures = Failures(outcomes)
    /\ LastAreFailures(outcomes, consecutive)
    /\ ~LastAreFailures(outcomes, consecutive + 1)

\* The breaker left Closed exactly when an outcome of the era first met one of
\* the two thresholds: it neither misses a trip nor trips without cause.
TripsExactlyWhenDue ==
  (mode = "Closed") <=>
    (\A k \in 1..Len(outcomes) : ~ShouldTrip(SubSeq(outcomes, 1, k)))

\* The breaker with counters implements the contract: late outcomes neither
\* shorten nor extend a cool-down, no call is admitted during one, and there
\* is no step from Closed to HalfOpen or from Open to Closed.
Contract == INSTANCE BreakerContract
ImplementsContract == Contract!ContractSpec

\* An open breaker is always probed again: denied calls and late outcomes do
\* not keep it open while time passes and clients call.
OpenEventuallyProbes == (mode = "Open") ~> (mode = "HalfOpen")

\* The test half_open_allows_limited_probes states that a half-open breaker
\* denies a call "after max probes".
ProbeLimit == Cardinality(probes) <= HalfOpenMaxRequests

\* circuit_breaker.yaml states that the breaker stops requests to failing
\* backends: ConsecutiveFailureThreshold requests in a row that the backend never
\* answered leave it not Closed. (The requests that ended with a recorded
\* failure are not among them: TripsExactlyWhenDue is about those.)
UnansweredRequestsTrip ==
  mode = "Closed" => lost < ConsecutiveFailureThreshold
=============================================================================
