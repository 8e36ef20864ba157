----------------------------- MODULE RateLimit -----------------------------
(***************************************************************************)
(* The rate-limit middleware (middleware/rate_limit.rs): a token bucket or *)
(* a fixed window, checked under its mutex, on a wall clock that may be    *)
(* stepped in either direction (SystemTime is not monotonic).              *)
(*                                                                         *)
(* A request outside the limiter's scope is let through without a change   *)
(* of state; the requests below are those in scope.                        *)
(***************************************************************************)
EXTENDS Integers, Sequences, FiniteSets

CONSTANTS
  Limiters,      \* the variants of enum Ratelimit to consider
  Rate,          \* rate_per_unit
  Unit,          \* the time unit, in milliseconds: also the window's length
  Capacity,      \* capacity of the token bucket
  IntHalf,       \* 2^31: integers of type i32 are in -IntHalf..IntHalf - 1
  MapSize,       \* DEFAULT_FIXEDWINDOW_MAP_SIZE
  MaxTime,       \* bound: the wall clock
  MaxAdmitted    \* bound: requests admitted by the bucket or in one window

ASSUME RateAssumption ==
  /\ Limiters \subseteq {"token_bucket", "fixed_window"}
  /\ Rate \in Nat \ {0}
  /\ Unit \in Nat \ {0}
  /\ IntHalf \in Nat \ {0}
  /\ Capacity \in 0..(IntHalf - 1)
  /\ MapSize \in Nat \ {0}

ASSUME BoundAssumption == MaxTime \in Nat /\ MaxAdmitted \in Nat

VARIABLES
  limiter,      \* the variant of this route's limiter
  clock,        \* SystemTime::now(), in milliseconds
  count,        \* TokenBucketRateLimit.current_count
  last,         \* TokenBucketRateLimit.last_update_time
  countMap,     \* FixedWindowRateLimit.count_map, keyed by window
  grants,       \* history: last_update_time at each admission of the bucket
  admitted,     \* history: requests admitted in each window
  evicted       \* history: windows whose counter was thrown away

bucketVars == <<count, last, grants>>
windowVars == <<countMap, admitted, evicted>>
vars == <<limiter, clock, bucketVars, windowVars>>

Windows == 0..(MaxTime \div Unit)

\* The clock reads 0 when the configuration is loaded: the bucket is empty.
Init ==
  /\ limiter \in Limiters
  /\ clock = 0
  /\ count = 0
  /\ last = 0
  /\ countMap = <<>>
  /\ grants = <<>>
  /\ admitted = [w \in Windows |-> 0]
  /\ evicted = {}

\* x as i32: its low 32 bits, read as a signed integer.
AsI32(x) == ((x + IntHalf) % (2 * IntHalf)) - IntHalf

-----------------------------------------------------------------------------
(* TokenBucketRateLimit::should_limit *)

TokensToAdd == ((clock - last) * Rate) \div Unit

\* Mutant of Refilled: the bucket is not capped.
RefilledUncapped ==
  IF TokensToAdd > 0 THEN AsI32(count + AsI32(TokensToAdd)) ELSE count

\* Mutant of Refilled: a call that finds no whole token is paid one.
RefilledAtLeastOne ==
  LET sum == AsI32(count + AsI32(TokensToAdd)) + (IF TokensToAdd = 0 THEN 1 ELSE 0)
  IN IF sum < Capacity THEN sum ELSE Capacity

\* The bucket after the refill: the sum wraps around like i32 in a release
\* build, then min(capacity).
Refilled ==
  IF TokensToAdd > 0
  THEN LET sum == AsI32(count + AsI32(TokensToAdd))
       IN IF sum < Capacity THEN sum ELSE Capacity
  ELSE count

\* Mutant of RefillTime: the clock of the refill is not stored.
RefillTimeForgotten == last

\* The remainder of the division is dropped with the old update time.
RefillTime == IF TokensToAdd > 0 THEN clock ELSE last

\* A clock behind last_update_time is an error: nothing changes.
ClockBehind == clock < last /\ UNCHANGED bucketVars

TakeToken ==
  /\ clock >= last
  /\ Refilled > 0
  /\ count' = Refilled - 1
  /\ last' = RefillTime
  /\ grants' = Append(grants, RefillTime)

DenyToken ==
  /\ clock >= last
  /\ Refilled <= 0
  /\ count' = Refilled
  /\ last' = RefillTime
  /\ UNCHANGED grants

TokenBucketCheck ==
  /\ limiter = "token_bucket"
  /\ Len(grants) < MaxAdmitted
  /\ ClockBehind \/ TakeToken \/ DenyToken
  /\ UNCHANGED <<limiter, clock, windowVars>>

-----------------------------------------------------------------------------
(* FixedWindowRateLimit::should_limit *)

Window == clock \div Unit

Drop(map, w) == [v \in DOMAIN map \ {w} |-> map[v]]

\* Mutant of AfterEviction: the map may outgrow its size by one.
EvictionLate ==
  IF Cardinality(DOMAIN countMap) > MapSize
  THEN {Drop(countMap, w) : w \in DOMAIN countMap}
  ELSE {countMap}

\* The maps the check may go on with: a full map first loses one key, the one
\* its iterator happens to yield first.
AfterEviction ==
  IF Cardinality(DOMAIN countMap) >= MapSize
  THEN {Drop(countMap, w) : w \in DOMAIN countMap}
  ELSE {countMap}

\* Mutant of Counter: the counter is read before this request is counted.
CounterBehind(map) == IF Window \in DOMAIN map THEN map[Window] ELSE 0

\* The counter of the current window, this request included.
Counter(map) == 1 + (IF Window \in DOMAIN map THEN map[Window] ELSE 0)

FixedWindowCheck ==
  /\ limiter = "fixed_window"
  /\ Window \in DOMAIN countMap => countMap[Window] < MaxAdmitted
  /\ admitted[Window] < MaxAdmitted
  /\ \E map \in AfterEviction :
       /\ countMap' = [w \in DOMAIN map \cup {Window} |->
                         IF w = Window THEN Counter(map) ELSE map[w]]
       /\ evicted' = evicted \cup (DOMAIN countMap \ DOMAIN map)
       /\ admitted' = IF Rate - Counter(map) >= 0
                      THEN [admitted EXCEPT ![Window] = @ + 1] ELSE admitted
  /\ UNCHANGED <<limiter, clock, bucketVars>>

-----------------------------------------------------------------------------

\* The wall clock advances, or is set to another time.
SetClock ==
  /\ \E t \in 0..MaxTime : clock' = t
  /\ UNCHANGED <<limiter, bucketVars, windowVars>>

Next == TokenBucketCheck \/ FixedWindowCheck \/ SetClock

Spec == Init /\ [][Next]_vars

-----------------------------------------------------------------------------
(* Properties *)

\* Every variable stays in its type; the bucket never holds more than its
\* capacity.
TypeOK ==
  /\ limiter \in Limiters
  /\ clock \in 0..MaxTime
  /\ count \in (-IntHalf)..Capacity
  /\ last \in 0..MaxTime
  /\ grants \in Seq(0..MaxTime)
  /\ DOMAIN countMap \subseteq Windows
  /\ \A w \in DOMAIN countMap : countMap[w] \in Nat
  /\ admitted \in [Windows -> Nat]
  /\ evicted \subseteq Windows

\* Tokens are never created: what was admitted and what is left was paid for
\* by the time up to the last refill, whatever the clock did in between and
\* wherever the addition wrapped around.
TokensArePaidFor == Unit * (Len(grants) + count) <= Rate * last

\* ratelimit_token_bucket.yaml: bursts up to capacity, then the rate. Between
\* any two admissions at most Capacity requests go through beyond those that
\* the refills in between pay for.
BurstBound ==
  \A i \in 1..Len(grants) : \A j \in i..Len(grants) :
    Unit * (j - i + 1) <= Unit * Capacity + Rate * (grants[j] - grants[i])

\* The map of counters stays within its size.
MapIsBounded == Cardinality(DOMAIN countMap) <= MapSize

\* In a window whose counter was never thrown away exactly the first Rate
\* requests were admitted.
WindowCountsExactly ==
  \A w \in DOMAIN countMap \ evicted :
    admitted[w] = IF countMap[w] < Rate THEN countMap[w] ELSE Rate

\* ratelimit_fixed_window.yaml: "Limits requests per fixed time window".
WindowLimit == \A w \in Windows : admitted[w] <= Rate
=============================================================================
