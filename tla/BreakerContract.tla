-------------------------- MODULE BreakerContract --------------------------
(***************************************************************************)
(* What a circuit breaker promises to the route it protects, without the   *)
(* counters that decide when it trips: it sheds every call for a full      *)
(* cool-down after each trip, only a call that finds the cool-down over    *)
(* moves it on, and only the end of a call in flight closes or trips it.   *)
(***************************************************************************)
EXTENDS Naturals

CONSTANTS
  Requests,      \* requests that may be in flight through the breaker
  OpenDuration   \* the cool-down, in ticks

VARIABLES
  mode,          \* "Closed", "Open" or "HalfOpen"
  wait,          \* ticks of cool-down left while Open, 0 otherwise
  inflight       \* requests admitted and not yet ended

contractVars == <<mode, wait, inflight>>

ContractInit ==
  /\ mode = "Closed"
  /\ wait = 0
  /\ inflight = {}

\* A call is admitted: never during the cool-down.
Admit(r) ==
  /\ r \notin inflight
  /\ inflight' = inflight \cup {r}
  /\ wait = 0
  /\ \/ mode \in {"Closed", "HalfOpen"} /\ mode' = mode
     \/ mode = "Open" /\ mode' = "HalfOpen"
  /\ UNCHANGED wait

\* A call ends, and its end may trip the breaker (a whole cool-down starts)
\* or close it (from HalfOpen only); during a cool-down it does neither.
End(r) ==
  /\ r \in inflight
  /\ inflight' = inflight \ {r}
  /\ \/ UNCHANGED <<mode, wait>>
     \/ mode \in {"Closed", "HalfOpen"} /\ mode' = "Open" /\ wait' = OpenDuration
     \/ mode = "HalfOpen" /\ mode' = "Closed" /\ UNCHANGED wait

\* Time passes: it shortens the cool-down and does nothing else.
Pass ==
  /\ wait > 0
  /\ wait' = wait - 1
  /\ UNCHANGED <<mode, inflight>>

ContractNext ==
  \/ \E r \in Requests : Admit(r) \/ End(r)
  \/ Pass

ContractSpec == ContractInit /\ [][ContractNext]_contractVars
=============================================================================
