----------------------------- MODULE HealthCheck -----------------------------
(***************************************************************************)
(* Active health checking (health_check/health_check_task.rs): a loop that *)
(* keeps one timer task per checked route, the rounds of probes those      *)
(* tasks start, and the status each result gives a target of the shared    *)
(* configuration, while routes are replaced under them.                    *)
(*                                                                         *)
(* The loop compares a clone of the configuration with its tasks, so the   *)
(* configuration may have moved on; a round probes the targets of the      *)
(* route it was submitted with, and its results find the route by its id   *)
(* alone, so they may reach a later version of it.                         *)
(***************************************************************************)
EXTENDS Integers, FiniteSets, Functions, Sequences

CONSTANTS
  RouteIds,     \* route ids
  Endpoints,    \* endpoints of targets
  Parsable,     \* those that are URLs with a scheme, as a probe needs
  Checks,       \* settings of a check: its kind, path, timing, liveness count
  HttpChecks,   \* those of kind http_get; Mysql and Redis checks do nothing
  NoCheck,      \* health_check or liveness_config is missing
  Tasks,        \* task ids, in the code a counter (bound: a pass waits for free ones)
  Routes,       \* the routes that may be configured under an id
  MaxEdits      \* bound: routes replaced or deleted

\* A route has the endpoints of its targets in their order, a file route none.
RouteConfig == [check : Checks \cup {NoCheck}, targets : Seq(Endpoints)]
NoRoute == [check |-> NoCheck, targets |-> <<>>]
TaskKey == [id : RouteIds, check : Checks, targets : Seq(Endpoints)]

ASSUME CheckAssumption ==
  /\ NoCheck \notin Checks /\ HttpChecks \subseteq Checks
  /\ Parsable \subseteq Endpoints
  /\ Routes \subseteq RouteConfig

ASSUME BoundAssumption == MaxEdits \in Nat

VARIABLES
  config,    \* the route of each id, NoRoute when there is none
  status,    \* is_alive of each target: "none", "alive" or "dead"
  snapshot,  \* the keys the clone of the pass under way asks for, or Idle
  tasks,     \* task_id_map the other way round: timer task -> key
  rounds,    \* rounds of probes under way: task -> target -> its answer
  up,        \* the world: what an endpoint answers now
  edits      \* edits so far

vars == <<config, status, snapshot, tasks, rounds, up, edits>>

Idle == [idle |-> TRUE, keys |-> {}]
NoStatus == [e \in Endpoints |-> "none"]

Init ==
  /\ config \in [RouteIds -> Routes]
  /\ status = [id \in RouteIds |-> NoStatus]
  /\ snapshot = Idle
  /\ tasks = <<>>
  /\ rounds = <<>>
  /\ up = [e \in Parsable |-> "healthy"]
  /\ edits = 0

-----------------------------------------------------------------------------
(* The loop: do_health_check *)

\* TaskKey::new: another order of the targets makes another key.
KeyOf(id) == [id |-> id, check |-> config[id].check, targets |-> config[id].targets]

\* The keys of the routes that have both a check and a liveness configuration.
Wanted == {KeyOf(id) : id \in {i \in RouteIds : config[i].check # NoCheck}}

TakeSnapshot ==
  /\ snapshot = Idle
  /\ snapshot' = [idle |-> FALSE, keys |-> Wanted]
  /\ UNCHANGED <<config, status, tasks, rounds, up, edits>>

\* Mutant of Stale: a task is never given up.
StaleNever == {}

\* The tasks whose key the clone no longer asks for.
Stale == {t \in DOMAIN tasks : tasks[t] \notin snapshot.keys}

\* Mutant of Missing: the keys that have a task already are not filtered out.
MissingOrNot(kept) == snapshot.keys

\* The keys without a task among those that were retained.
Missing(kept) == snapshot.keys \ {tasks[t] : t \in kept}

\* Tasks of stale keys are removed, unless the timer refuses (failed), and tasks
\* for missing keys are inserted, unless the timer refuses (refused). What
\* failed is tried again by the next pass.
Reconcile(failed, refused) ==
  LET kept == DOMAIN tasks \ (Stale \ failed)
      inserted == Missing(kept) \ refused
      free == Tasks \ (DOMAIN tasks \cup DOMAIN rounds)
      new == CHOOSE ids \in Injection(inserted, free) : TRUE
  IN /\ snapshot # Idle
     /\ failed \subseteq Stale /\ refused \subseteq Missing(kept)
     /\ Injection(inserted, free) # {}
     /\ tasks' = [t \in kept \cup Range(new) |->
                     IF t \in kept THEN tasks[t]
                     ELSE CHOOSE key \in inserted : new[key] = t]
     /\ snapshot' = Idle
     /\ UNCHANGED <<config, status, rounds, up, edits>>

-----------------------------------------------------------------------------
(* A round: do_http_health_check *)

\* The targets a round sends a request to: an endpoint that does not parse is
\* skipped, and never gets a status.
Probed(key) ==
  IF key.check \in HttpChecks
  THEN {k \in DOMAIN key.targets : key.targets[k] \in Parsable} ELSE {}

\* The timer fires; a task runs one round at a time. One with nothing to probe
\* ends where it starts.
StartRound(t) ==
  /\ t \in DOMAIN tasks \ DOMAIN rounds
  /\ Probed(tasks[t]) # {}
  /\ rounds' = [u \in DOMAIN rounds \cup {t} |->
                  IF u = t
                  THEN [key |-> tasks[t], answers |-> [k \in Probed(tasks[t]) |-> "sent"]]
                  ELSE rounds[u]]
  /\ UNCHANGED <<config, status, snapshot, tasks, up, edits>>

\* The probe of the k-th target is answered, or times out.
Answer(t, k) ==
  /\ t \in DOMAIN rounds
  /\ k \in DOMAIN rounds[t].answers /\ rounds[t].answers[k] = "sent"
  /\ rounds' = [rounds EXCEPT ![t].answers[k] = up[rounds[t].key.targets[k]]]
  /\ UNCHANGED <<config, status, snapshot, tasks, up, edits>>

\* Mutant of NewStatus: a target that died stays dead.
NewStatusOnce(answer, old) ==
  CASE answer = "healthy" -> IF old = "none" THEN "alive" ELSE old
    [] answer = "down" -> "dead"
    [] OTHER -> old

\* Mutant of NewStatus: a probe without an answer is only logged.
NewStatusNoDeath(answer, old) == IF answer = "healthy" THEN "alive" ELSE old

\* 200 is alive, no answer is dead; any other answer leaves the status alone.
NewStatus(answer, old) ==
  CASE answer = "healthy" -> "alive"
    [] answer = "down" -> "dead"
    [] OTHER -> old

\* Mutant of Reaches: the target is no longer looked up.
ReachesAnyway(id, e) == TRUE

\* The route of this id still has a target with the endpoint.
Reaches(id, e) == e \in Range(config[id].targets)

\* The result is joined: the route is looked up by its id in the configuration
\* of now, and update_route_alive compares endpoints.
Join(t, k) ==
  /\ t \in DOMAIN rounds
  /\ k \in DOMAIN rounds[t].answers /\ rounds[t].answers[k] # "sent"
  /\ LET id == rounds[t].key.id
         e == rounds[t].key.targets[k]
         left == DOMAIN rounds[t].answers \ {k}
     IN /\ status' =
             IF Reaches(id, e)
             THEN [status EXCEPT ![id][e] = NewStatus(rounds[t].answers[k], @)]
             ELSE status
        /\ rounds' = IF left = {} THEN Restrict(rounds, DOMAIN rounds \ {t})
                     ELSE [rounds EXCEPT ![t].answers = Restrict(@, left)]
  /\ UNCHANGED <<config, snapshot, tasks, up, edits>>

AdvanceRound(t) ==
  /\ t \in DOMAIN rounds
  /\ \E k \in DOMAIN rounds[t].answers : Answer(t, k) \/ Join(t, k)

-----------------------------------------------------------------------------
(* The surroundings *)

\* PUT, POST, DELETE or reload: the route is replaced by one without statuses.
Replace(id, route) ==
  /\ edits < MaxEdits
  /\ edits' = edits + 1
  /\ config' = [config EXCEPT ![id] = route]
  /\ status' = [status EXCEPT ![id] = NoStatus]
  /\ UNCHANGED <<snapshot, tasks, rounds, up>>

\* An endpoint changes: it answers 200, answers something else, or not at all.
Turn(e, state) ==
  /\ up[e] # state
  /\ up' = [up EXCEPT ![e] = state]
  /\ UNCHANGED <<config, status, snapshot, tasks, rounds, edits>>

Next ==
  \/ TakeSnapshot
  \/ \E failed \in SUBSET DOMAIN tasks, refused \in SUBSET snapshot.keys :
       Reconcile(failed, refused)
  \/ \E t \in Tasks : StartRound(t)
  \/ \E t \in Tasks : AdvanceRound(t)
  \/ \E id \in RouteIds, route \in Routes \cup {NoRoute} : Replace(id, route)
  \/ \E e \in Parsable, state \in {"healthy", "sick", "down"} : Turn(e, state)

Spec == Init /\ [][Next]_vars

\* The loop runs for ever and the timer does not refuse for ever, it fires
\* repeatedly, every probe ends by its timeout and its result is joined.
Fairness ==
  /\ WF_vars(TakeSnapshot)
  /\ WF_vars(\E f \in SUBSET DOMAIN tasks, r \in SUBSET snapshot.keys : Reconcile(f, r))
  /\ SF_vars(Reconcile({}, {}))
  /\ \A t \in Tasks : WF_vars(StartRound(t) \/ AdvanceRound(t))

FairSpec == Spec /\ Fairness

-----------------------------------------------------------------------------
(* Properties *)

\* Every variable stays in its type, and only targets of the route have a
\* status.
TypeOK ==
  /\ config \in [RouteIds -> Routes \cup {NoRoute}]
  /\ status \in [RouteIds -> [Endpoints -> {"none", "alive", "dead"}]]
  /\ snapshot \in [idle : BOOLEAN, keys : SUBSET TaskKey]
  /\ DOMAIN tasks \subseteq Tasks /\ Range(tasks) \subseteq TaskKey
  /\ DOMAIN rounds \subseteq Tasks
  /\ \A t \in DOMAIN rounds :
       /\ rounds[t].key \in TaskKey
       /\ DOMAIN rounds[t].answers \subseteq Probed(rounds[t].key)
       /\ Range(rounds[t].answers) \subseteq {"sent", "healthy", "sick", "down"}
  /\ up \in [Parsable -> {"healthy", "sick", "down"}]
  /\ edits \in 0..MaxEdits
  /\ \A id \in RouteIds, e \in Endpoints :
       status[id][e] # "none" => e \in Range(config[id].targets) \cap Parsable

\* No two tasks probe for the same key, whatever the timer refused and however
\* the configuration changed between the clone and its use.
NoDoubleProbing == IsInjective(tasks)

\* Once the configuration stays as it is, the tasks become those it asks for:
\* retired ones are gone, refused ones are there.
TasksFollowConfig == <>[](Range(tasks) = Wanted)

\* README.md, "automatic removal of failed nodes": a target of a checked route
\* that stays down is marked dead for good, late results of earlier rounds and
\* of earlier versions of the route notwithstanding.
Checked(id, e) ==
  config[id].check \in HttpChecks /\ e \in Range(config[id].targets) \cap Parsable
FailedNodesRemoved ==
  \A id \in RouteIds, e \in Endpoints :
    <>[](Checked(id, e) /\ up[e] = "down") => <>[](status[id][e] = "dead")

\* README.md, "re-add on recovery": the same for a target that stays healthy.
RecoveredNodesReturn ==
  \A id \in RouteIds, e \in Endpoints :
    <>[](Checked(id, e) /\ up[e] = "healthy") => <>[](status[id][e] = "alive")
=============================================================================
