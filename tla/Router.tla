------------------------------- MODULE Router -------------------------------
(***************************************************************************)
(* The load-balancing routers of a route (vojo/router.rs) while the health *)
(* checker changes the status of their targets under them.                 *)
(*                                                                         *)
(* get_route and update_route_alive run under the lock of the shared       *)
(* configuration, so each is one step. The HTTP pipeline calls get_route   *)
(* on the shared router; the TCP proxy calls it on a clone of the router   *)
(* and drops the clone (proxy/tcp/tcp_proxy.rs).                           *)
(***************************************************************************)
EXTENDS Integers, Sequences, FiniteSetsExt

CONSTANTS
  N,           \* longest list of targets; a target is its position in the vector
  Endpoints,   \* endpoint addresses
  EndpointOf,  \* the endpoint of each target (two targets may share one)
  Weight,      \* the weight of each target
  Rule,        \* the header rule of each target
  Requests,    \* the headers requests may have, a function on header names
  Garbled,     \* header values that are no visible ASCII
  Kinds,       \* the variants of enum Router to consider
  Listeners,   \* "http" (shared router) and "tcp" (cloned router)
  MaxPicks,    \* bound: picks remembered between two changes of status
  MaxIndex     \* bound: WeightedRouteItem.index

Targets == 1..N

\* What get_route yields when it returns an error or indexes out of bounds.
Failed == 0

ASSUME TargetsAssumption ==
  /\ N \in Nat
  /\ EndpointOf \in [Targets -> Endpoints]
  /\ Weight \in [Targets -> Int]
  /\ DOMAIN Rule = Targets
  /\ Kinds \subseteq {"Poll", "Random", "WeightBased", "HeaderBased"}
  /\ Listeners \subseteq {"http", "tcp"}

ASSUME BoundAssumption == MaxPicks \in Nat /\ MaxIndex \in Nat

VARIABLES
  kind,      \* the variant of this route's Router
  listener,  \* the kind of listener in front of it
  length,    \* self.routes.len(): the vector may be empty
  alive,     \* BaseRoute.is_alive: "none", "alive" or "dead"
  current,   \* PollRoute.current_index (counts from 0)
  index,     \* WeightedRouteItem.index of each target
  picks      \* history: targets picked since a status last changed

vars == <<kind, listener, length, alive, current, index, picks>>

Init ==
  /\ kind \in Kinds
  /\ listener \in Listeners
  /\ length \in 0..N
  /\ alive = [t \in Targets |-> "none"]
  /\ current = 0
  /\ index = [t \in Targets |-> 0]
  /\ picks = <<>>

-----------------------------------------------------------------------------
(* Which targets a router chooses from *)

\* self.routes. The parsers accept an empty list of targets.
Routes == {t \in Targets : t <= length}

\* has_unconfigured: a target no health check has reported on yet.
Unconfigured == \E t \in Routes : alive[t] = "none"

\* Mutant of Candidates: any reported status counts as alive.
AnyStatus == IF Unconfigured THEN Routes ELSE {t \in Routes : alive[t] # "none"}

\* One unconfigured target keeps every target in rotation, dead ones too.
Candidates == IF Unconfigured THEN Routes ELSE {t \in Routes : alive[t] = "alive"}

\* alive_indices[k]: the candidate with k candidates before it.
NthCandidate(k) ==
  IF k < Cardinality(Candidates)
  THEN CHOOSE t \in Candidates : Cardinality({u \in Candidates : u < t}) = k
  ELSE Failed

\* The router hands out target t.
Serve(t) == picks' = Append(picks, t)

\* The TCP proxy drops the router it called get_route on.
Keep == listener = "http"

-----------------------------------------------------------------------------
(* get_route, one action per router *)

\* Mutant of NextIndex: the index wraps one position late.
NextIndexLate == IF current + 1 > Cardinality(Candidates) THEN 0 ELSE current + 1

\* Mutant of NextIndex: the index wraps to 1.
NextIndexFromOne ==
  IF current + 1 >= Cardinality(Candidates) THEN 1 % Cardinality(Candidates)
  ELSE current + 1

NextIndex == IF current + 1 >= Cardinality(Candidates) THEN 0 ELSE current + 1

PollPick ==
  /\ kind = "Poll"
  /\ IF Candidates = {}
     THEN UNCHANGED current /\ \E t \in Routes : Serve(t)
     ELSE /\ Serve(NthCandidate(NextIndex))
          /\ current' = IF Keep THEN NextIndex ELSE current
  /\ UNCHANGED index

RandomPick ==
  /\ kind = "Random"
  /\ \E t \in IF Candidates = {} THEN Routes ELSE Candidates : Serve(t)
  /\ UNCHANGED <<current, index>>

\* Mutant of WeightReset: the turn starts again with one pick counted.
WeightResetCounted ==
  IF \A t \in Candidates : index[t] >= Weight[t]
  THEN [t \in Targets |-> IF t \in Candidates THEN 1 ELSE index[t]]
  ELSE index

\* Mutant of WeightReset: a turn waits for the targets that are out of it.
WeightResetAll ==
  IF \A t \in Routes : index[t] >= Weight[t]
  THEN [t \in Targets |-> 0]
  ELSE index

\* Mutant of WeightReset: the first share used up ends the turn.
WeightResetAny ==
  IF \E t \in Candidates : index[t] >= Weight[t]
  THEN [t \in Targets |-> IF t \in Candidates THEN 0 ELSE index[t]]
  ELSE index

\* The indices after the reset that starts a new turn of the candidates.
WeightReset ==
  IF \A t \in Candidates : index[t] >= Weight[t]
  THEN [t \in Targets |-> IF t \in Candidates THEN 0 ELSE index[t]]
  ELSE index

\* The candidates whose share of the turn is not used up: the first one is
\* picked. There is none when no candidate has a positive weight: an error.
WeightPick ==
  LET reset == WeightReset
      open == {t \in Candidates : reset[t] < Weight[t]}
      first == CHOOSE t \in open : \A u \in open : t <= u
  IN /\ kind = "WeightBased"
     /\ UNCHANGED current
     /\ \/ /\ Candidates = {}
           /\ \E t \in Routes :
                /\ index[t] < MaxIndex
                /\ Serve(t)
                /\ index' = IF Keep THEN [index EXCEPT ![t] = @ + 1] ELSE index
        \/ /\ Candidates # {} /\ open # {}
           /\ Serve(first)
           /\ index' = IF Keep THEN [reset EXCEPT ![first] = @ + 1] ELSE index
        \/ /\ Candidates # {} /\ open = {}
           /\ Serve(Failed)
           /\ index' = IF Keep THEN reset ELSE index

\* HeaderValueMappingType: a regular expression (whether it compiles, and the
\* values it captures), a text, or pieces all to be found in the value once it is
\* split (pieces is the set each value splits into).
Satisfied(rule, value) ==
  \/ rule.type = "regex" /\ value \in rule.captures
  \/ rule.type = "text" /\ value = rule.text
  \/ rule.type = "split" /\ rule.split_list \subseteq rule.pieces[value]

\* The rule cannot be evaluated: the value does not convert to a string, or the
\* expression does not compile.
Breaks(rule, value) ==
  value \in Garbled \/ (rule.type = "regex" /\ ~rule.compiles)

\* A rule whose header the request does not have is passed over.
Decides(t, headers) ==
  /\ Rule[t].header_key \in DOMAIN headers
  /\ LET value == headers[Rule[t].header_key]
     IN Breaks(Rule[t], value) \/ Satisfied(Rule[t], value)

\* The first candidate whose rule the request satisfies, or on which evaluation
\* fails, decides; without one the first target is taken, whatever its status.
HeaderPick(headers) ==
  LET hits == {t \in Candidates : Decides(t, headers)}
      first == CHOOSE t \in hits : \A u \in hits : t <= u
      failed == Breaks(Rule[first], headers[Rule[first].header_key])
  IN /\ kind = "HeaderBased"
     /\ Serve(IF hits = {} THEN 1 ELSE IF failed THEN Failed ELSE first)
     /\ UNCHANGED <<current, index>>

\* The first lines of each get_route: "No routes available".
NoRoutes == Serve(Failed) /\ UNCHANGED <<current, index>>

GetRoute ==
  /\ Len(picks) < MaxPicks
  /\ \/ Routes = {} /\ NoRoutes
     \/ /\ Routes # {}
        /\ \/ PollPick
           \/ RandomPick
           \/ WeightPick
           \/ \E headers \in Requests : HeaderPick(headers)
  /\ UNCHANGED <<kind, listener, length, alive>>

-----------------------------------------------------------------------------
(* update_route_alive: every target with the endpoint takes the status *)

UpdateRouteAlive(e, status) ==
  /\ alive' = [t \in Targets |-> IF t \in Routes /\ EndpointOf[t] = e
                                THEN status ELSE alive[t]]
  /\ picks' = IF alive' = alive THEN picks ELSE <<>>
  /\ UNCHANGED <<kind, listener, length, current, index>>

Next ==
  \/ GetRoute
  \/ \E e \in Endpoints, status \in {"alive", "dead"} : UpdateRouteAlive(e, status)

Spec == Init /\ [][Next]_vars

-----------------------------------------------------------------------------
(* Properties *)

\* Every variable stays in its type; current_index stays a position of the
\* vector (0 while it is empty).
TypeOK ==
  /\ kind \in Kinds /\ listener \in Listeners /\ length \in 0..N
  /\ alive \in [Targets -> {"none", "alive", "dead"}]
  /\ current \in Nat /\ (current < length \/ current = 0)
  /\ index \in [Targets -> Nat]
  /\ picks \in Seq(Targets \cup {Failed})

\* With a status for every target of the list and one of them alive, the three balancing
\* routers never hand out a dead target, however often statuses changed before.
PicksAlive ==
  (kind # "HeaderBased" /\ ~Unconfigured /\ \E t \in Routes : alive[t] = "alive") =>
    \A k \in 1..Len(picks) : picks[k] # Failed => alive[picks[k]] = "alive"

\* No index runs out of bounds, and get_route of a balancing router fails only
\* for a route without targets (targets: [], "No routes available") and for a
\* weighted route none of whose candidates has a positive weight: targets that
\* left the rotation in the middle of a turn never block those that stay, and
\* with every target dead there is still one to take.
PickSucceeds ==
  (kind # "HeaderBased" /\ \E k \in 1..Len(picks) : picks[k] = Failed) =>
    \/ Routes = {}
    \/ /\ kind = "WeightBased" /\ Candidates # {}
       /\ \A t \in Candidates : Weight[t] <= 0

\* The sequence goes round a set of n targets: two picks are of the same target
\* exactly when they are a multiple of n apart.
GoesRound(seq, n) ==
  \A i, j \in 1..Len(seq) : (seq[i] = seq[j]) <=> (i - j) % n = 0

\* Between two changes of status a Poll router takes its candidates in turn,
\* whatever index and whatever candidates it had before the change.
RoundRobin ==
  (kind = "Poll" /\ listener = "http" /\ Candidates # {}) =>
    GoesRound(picks, Cardinality(Candidates))

\* The picks a target gets in a whole turn of the weighted candidates.
Share == [t \in Targets |-> IF Weight[t] > 0 THEN Weight[t] ELSE 0]
Turn == SumFunctionOnSet(Share, Candidates)

\* Between two changes of status every turn of the weighted candidates gives
\* each of them exactly its weight, once the turn that was interrupted by the
\* change is over.
WeightedShare ==
  (kind = "WeightBased" /\ listener = "http" /\ Candidates # {} /\ Turn > 0) =>
    \A i \in (Turn + 1)..(Len(picks) - Turn + 1), t \in Candidates :
      Cardinality({j \in i..(i + Turn - 1) : picks[j] = t}) = Share[t]

\* A Poll router deals turns of one each, and the last turn since the change of
\* status is what was picked after the whole ones before it.
InLastTurn(j) ==
  LET n == Cardinality(Candidates) IN j > ((Len(picks) - 1) \div n) * n
Rounds == INSTANCE LoadBalancer WITH
  Quota <- [t \in Targets |-> 1], Nobody <- Failed,
  members <- Routes, pool <- Candidates, dealt <- picks,
  left <- [t \in Targets |->
             IF t \in Candidates /\ \E j \in 1..Len(picks) : InLastTurn(j) /\ picks[j] = t
             THEN 0 ELSE 1]

\* A weighted one deals turns of the weights.
Turns == INSTANCE LoadBalancer WITH
  Quota <- Share, Nobody <- Failed,
  members <- Routes, pool <- Candidates, dealt <- picks,
  left <- [t \in Targets |-> IF index[t] < Share[t] THEN Share[t] - index[t] ELSE 0]

\* Both deal as a load balancer should, to whoever asks over HTTP, however
\* statuses change in the middle of a turn: nobody gets a second pick before the
\* others had their first, and what was left of a turn is dealt first.
RouterDeals ==
  /\ kind = "Poll" => Rounds!DealerInit
  /\ kind = "WeightBased" => Turns!DealerInit
  /\ [][listener = "http" =>
          /\ kind = "Poll" => Rounds!DealerNext \/ UNCHANGED Rounds!dealerVars
          /\ kind = "WeightBased" => Turns!DealerNext \/ UNCHANGED Turns!dealerVars]_vars

=============================================================================
