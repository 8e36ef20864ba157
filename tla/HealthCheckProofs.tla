-------------------------- MODULE HealthCheckProofs --------------------------
(***************************************************************************)
(* Proofs about HealthCheck, for every set of routes, endpoints and tasks. *)
(***************************************************************************)
EXTENDS HealthCheck, TLAPS

\* The invariant: TypeOK needs no strengthening, and what a reconciliation keeps
\* is that the tasks have keys of their own.
IInv == TypeOK /\ NoDoubleProbing

-----------------------------------------------------------------------------
(* The steps, without the ids that CHOOSE takes *)

\* The keys that a pass asks for.
LEMMA WantedKeys ==
  ASSUME TypeOK
  PROVE  Wanted \subseteq TaskKey
<1>1. ASSUME NEW id \in RouteIds, config[id].check # NoCheck PROVE KeyOf(id) \in TaskKey
  <2>1. config[id] \in RouteConfig
    BY <1>1, CheckAssumption DEF TypeOK, NoRoute
  <2> QED BY <1>1, <2>1 DEF RouteConfig, KeyOf, TaskKey
<1> QED BY <1>1 DEF Wanted

\* What a pass leaves: the tasks it kept with their keys, and one new task for
\* each key that was missing and not refused.
PassLeaves(kept, inserted, new) ==
  /\ DOMAIN tasks \ kept \subseteq Stale
  /\ \A t \in kept : tasks[t] \notin inserted
  /\ new \in [inserted -> Tasks \ DOMAIN tasks] /\ IsInjective(new)
  /\ DOMAIN tasks' = kept \cup Range(new)
  /\ \A t \in kept : tasks'[t] = tasks[t]
  /\ \A key \in inserted : tasks'[new[key]] = key

LEMMA ReconcileTasks ==
  ASSUME NEW failed, NEW refused, Reconcile(failed, refused)
  PROVE  \E kept \in SUBSET DOMAIN tasks, inserted \in SUBSET snapshot.keys :
           \E new : PassLeaves(kept, inserted, new)
<1> DEFINE kept == DOMAIN tasks \ (Stale \ failed)
           inserted == Missing(kept) \ refused
           free == Tasks \ (DOMAIN tasks \cup DOMAIN rounds)
           new == CHOOSE ids \in Injection(inserted, free) : TRUE
<1>1. new \in Injection(inserted, free)
  BY DEF Reconcile
<1>2. /\ tasks' = [t \in kept \cup Range(new) |->
                     IF t \in kept THEN tasks[t]
                     ELSE CHOOSE key \in inserted : new[key] = t]
  BY DEF Reconcile
<1>3. kept \in SUBSET DOMAIN tasks /\ DOMAIN tasks \ kept \subseteq Stale
  OBVIOUS
<1>4. inserted \in SUBSET snapshot.keys /\ \A t \in kept : tasks[t] \notin inserted
  BY DEF Missing
<1> HIDE DEF new, inserted, kept
<1>5. /\ new \in [inserted -> free]
      /\ \A x, y \in inserted : new[x] = new[y] => x = y
  BY <1>1 DEF Injection, IsInjective
<1>6. new \in [inserted -> Tasks \ DOMAIN tasks] /\ IsInjective(new)
  BY <1>5 DEF IsInjective
<1>7. ASSUME NEW key \in inserted PROVE tasks'[new[key]] = key
  <2>1. new[key] \notin kept /\ new[key] \in Range(new)
    BY <1>3, <1>5 DEF Range
  <2>2. tasks'[new[key]] = CHOOSE other \in inserted : new[other] = new[key]
    BY <1>2, <2>1
  <2> QED BY <1>5, <2>2
<1> QED BY <1>2, <1>3, <1>4, <1>6, <1>7 DEF PassLeaves

-----------------------------------------------------------------------------
(* The invariant is kept *)

\* What TypeOK says of one round.
RoundOK(round) ==
  /\ round.key \in TaskKey
  /\ DOMAIN round.answers \subseteq Probed(round.key)
  /\ \A k \in DOMAIN round.answers : round.answers[k] \in {"sent", "healthy", "sick", "down"}

LEMMA RoundsOK ==
  ASSUME TypeOK
  PROVE  \A t \in DOMAIN rounds : RoundOK(rounds[t])
BY DEF TypeOK, RoundOK, Range

\* A key that is missing is that of no task kept, and each gets one task.
LEMMA ReconcileKeeps ==
  ASSUME IInv, NEW failed, NEW refused, Reconcile(failed, refused)
  PROVE  IInv'
<1>0. PICK kept \in SUBSET DOMAIN tasks, inserted \in SUBSET snapshot.keys :
           \E new : PassLeaves(kept, inserted, new)
  BY ReconcileTasks
<1>1. PICK new : PassLeaves(kept, inserted, new)
  BY <1>0
<1>2. /\ snapshot' = [idle |-> TRUE, keys |-> {}]
      /\ UNCHANGED <<config, status, rounds, up, edits>>
  BY DEF Reconcile, Idle
<1>3. TypeOK
  BY DEF IInv
<1>4. inserted \subseteq TaskKey
  BY <1>3 DEF TypeOK
<1>5. ASSUME NEW t \in DOMAIN tasks'
      PROVE  \/ t \in kept /\ tasks'[t] = tasks[t]
             \/ \E key \in inserted : t = new[key] /\ tasks'[t] = key
  BY <1>1, <1>5 DEF Range, PassLeaves
<1>6. DOMAIN tasks' \subseteq Tasks
  BY <1>1, <1>3 DEF TypeOK, Range, PassLeaves
<1>7. Range(tasks') \subseteq TaskKey
  <2> SUFFICES ASSUME NEW t \in DOMAIN tasks' PROVE tasks'[t] \in TaskKey
    BY DEF Range
  <2> QED BY <1>1, <1>3, <1>4, <1>5 DEF TypeOK, Range, PassLeaves
<1>8. TypeOK'
  BY <1>2, <1>3, <1>6, <1>7 DEF TypeOK, Probed
<1>9. ASSUME NEW t \in DOMAIN tasks', NEW u \in DOMAIN tasks', tasks'[t] = tasks'[u]
      PROVE  t = u
  <2>1. CASE t \in kept /\ u \in kept
    BY <1>1, <1>9, <2>1 DEF IInv, NoDoubleProbing, IsInjective, PassLeaves
  <2>2. CASE t \notin kept /\ u \notin kept
    BY <1>5, <1>9, <2>2
  <2>3. CASE t \in kept /\ u \notin kept
    BY <1>1, <1>5, <1>9, <2>3 DEF PassLeaves
  <2>4. CASE t \notin kept /\ u \in kept
    BY <1>1, <1>5, <1>9, <2>4 DEF PassLeaves
  <2> QED BY <2>1, <2>2, <2>3, <2>4
<1>10. NoDoubleProbing'
  BY <1>9 DEF NoDoubleProbing, IsInjective
<1> QED BY <1>8, <1>10 DEF IInv

LEMMA StartRoundKeeps ==
  ASSUME IInv, NEW t \in Tasks, StartRound(t)
  PROVE  IInv'
<1>1. TypeOK
  BY DEF IInv
<1>2. tasks[t] \in TaskKey
  BY <1>1 DEF TypeOK, StartRound, Range
<1>3. /\ DOMAIN rounds' = DOMAIN rounds \cup {t}
      /\ rounds'[t] = [key |-> tasks[t], answers |-> [k \in Probed(tasks[t]) |-> "sent"]]
      /\ \A u \in DOMAIN rounds \ {t} : rounds'[u] = rounds[u]
  BY DEF StartRound
<1>4. ASSUME NEW u \in DOMAIN rounds'
      PROVE  RoundOK(rounds'[u])
  <2>1. CASE u = t
    BY <1>2, <1>3, <2>1 DEF RoundOK
  <2>2. CASE u # t
    BY <1>1, <1>3, <2>2, RoundsOK
  <2> QED BY <2>1, <2>2
<1>5. UNCHANGED <<config, status, snapshot, tasks, up, edits>>
  BY DEF StartRound
<1>6. TypeOK'
  BY <1>1, <1>3, <1>4, <1>5 DEF TypeOK, RoundOK, Range, Probed
<1> QED BY <1>5, <1>6 DEF IInv, NoDoubleProbing

LEMMA AnswerKeeps ==
  ASSUME IInv, NEW t \in Tasks, NEW k, Answer(t, k)
  PROVE  IInv'
<1>1. TypeOK
  BY DEF IInv
<1>2. /\ t \in DOMAIN rounds /\ k \in DOMAIN rounds[t].answers
      /\ UNCHANGED <<config, status, snapshot, tasks, up, edits>>
      /\ rounds' = [rounds EXCEPT ![t].answers[k] = up[rounds[t].key.targets[k]]]
  BY DEF Answer
<1>3. up[rounds[t].key.targets[k]] \in {"healthy", "sick", "down"}
  <2>1. rounds[t].key.targets[k] \in Parsable
    BY <1>1, <1>2 DEF TypeOK, Probed
  <2> QED BY <1>1, <2>1 DEF TypeOK
<1>4. ASSUME NEW u \in DOMAIN rounds'
      PROVE  /\ rounds'[u].key = rounds[u].key
             /\ DOMAIN rounds'[u].answers = DOMAIN rounds[u].answers
             /\ \A j \in DOMAIN rounds[u].answers :
                  rounds'[u].answers[j] \in {rounds[u].answers[j], "healthy", "sick", "down"}
  BY <1>2, <1>3, <1>4
<1>5. DOMAIN rounds' = DOMAIN rounds
  BY <1>2
<1>6. ASSUME NEW u \in DOMAIN rounds'
      PROVE  RoundOK(rounds'[u])
  BY <1>1, <1>4, <1>5, RoundsOK DEF RoundOK
<1>7. TypeOK'
  BY <1>1, <1>2, <1>5, <1>6 DEF TypeOK, RoundOK, Range, Probed
<1> QED BY <1>2, <1>7 DEF IInv, NoDoubleProbing

LEMMA JoinKeeps ==
  ASSUME IInv, NEW t \in Tasks, NEW k, Join(t, k)
  PROVE  IInv'
<1>1. TypeOK
  BY DEF IInv
<1> DEFINE id == rounds[t].key.id
           e == rounds[t].key.targets[k]
           left == DOMAIN rounds[t].answers \ {k}
<1>2. /\ t \in DOMAIN rounds /\ k \in DOMAIN rounds[t].answers
      /\ UNCHANGED <<config, snapshot, tasks, up, edits>>
      /\ status' = IF Reaches(id, e)
                   THEN [status EXCEPT ![id][e] = NewStatus(rounds[t].answers[k], @)]
                   ELSE status
      /\ rounds' = IF left = {} THEN Restrict(rounds, DOMAIN rounds \ {t})
                   ELSE [rounds EXCEPT ![t].answers = Restrict(@, left)]
  BY DEF Join
<1>3. rounds[t].key \in TaskKey /\ k \in Probed(rounds[t].key)
  BY <1>1, <1>2 DEF TypeOK
<1>4. id \in RouteIds /\ e \in Endpoints /\ e \in Parsable
  <2>1. rounds[t].key.targets \in Seq(Endpoints) /\ k \in DOMAIN rounds[t].key.targets
    BY <1>3 DEF TaskKey, Probed
  <2> QED BY <1>3, <2>1 DEF TaskKey, Probed
<1> HIDE DEF id, e, left
<1>5. /\ DOMAIN rounds' \subseteq DOMAIN rounds
      /\ \A u \in DOMAIN rounds' :
           /\ rounds'[u].key = rounds[u].key
           /\ DOMAIN rounds'[u].answers \subseteq DOMAIN rounds[u].answers
           /\ \A j \in DOMAIN rounds'[u].answers : rounds'[u].answers[j] = rounds[u].answers[j]
  <2>1. CASE left = {}
    BY <1>2, <2>1 DEF Restrict
  <2>2. CASE left # {}
    BY <1>2, <2>2 DEF Restrict, left
  <2> QED BY <2>1, <2>2
<1>6. ASSUME NEW u \in DOMAIN rounds'
      PROVE  RoundOK(rounds'[u])
  BY <1>1, <1>5, RoundsOK DEF RoundOK
<1>7. NewStatus(rounds[t].answers[k], status[id][e]) \in {"none", "alive", "dead"}
  BY <1>1, <1>4 DEF TypeOK, NewStatus
<1>8. status' \in [RouteIds -> [Endpoints -> {"none", "alive", "dead"}]]
  BY <1>1, <1>2, <1>4, <1>7 DEF TypeOK
<1>9. ASSUME NEW i \in RouteIds, NEW f \in Endpoints, status'[i][f] # "none"
      PROVE  f \in Range(config[i].targets) \cap Parsable
  <2>1. CASE i = id /\ f = e /\ Reaches(id, e)
    BY <1>4, <2>1 DEF Reaches
  <2>2. CASE ~(i = id /\ f = e /\ Reaches(id, e))
    <3>1. status'[i][f] = status[i][f]
      BY <1>1, <1>2, <1>4, <2>2 DEF TypeOK
    <3> QED BY <1>1, <1>9, <3>1 DEF TypeOK
  <2> QED BY <2>1, <2>2
<1>10. TypeOK'
  <2>1. DOMAIN rounds' \subseteq Tasks
    BY <1>1, <1>5 DEF TypeOK
  <2>2. \A u \in DOMAIN rounds' :
          /\ rounds'[u].key \in TaskKey
          /\ DOMAIN rounds'[u].answers \subseteq Probed(rounds'[u].key)
          /\ Range(rounds'[u].answers) \subseteq {"sent", "healthy", "sick", "down"}
    BY <1>6 DEF RoundOK, Range
  <2> QED BY <1>1, <1>2, <1>8, <1>9, <2>1, <2>2 DEF TypeOK, Probed
<1>11. NoDoubleProbing'
  BY <1>2 DEF IInv, NoDoubleProbing
<1> QED BY <1>10, <1>11 DEF IInv

LEMMA OthersKeep ==
  ASSUME IInv,
         \/ TakeSnapshot
         \/ \E id \in RouteIds, route \in Routes \cup {NoRoute} : Replace(id, route)
         \/ \E e \in Parsable, state \in {"healthy", "sick", "down"} : Turn(e, state)
  PROVE  IInv'
<1>1. TypeOK
  BY DEF IInv
<1>2. CASE TakeSnapshot
  <2>1. snapshot' \in [idle : BOOLEAN, keys : SUBSET TaskKey]
    BY <1>1, <1>2, WantedKeys DEF TakeSnapshot
  <2> QED BY <1>1, <1>2, <2>1 DEF IInv, TypeOK, NoDoubleProbing, TakeSnapshot, Probed
<1>3. CASE \E id \in RouteIds, route \in Routes \cup {NoRoute} : Replace(id, route)
  <2>1. PICK id \in RouteIds, route \in Routes \cup {NoRoute} : Replace(id, route)
    BY <1>3
  <2>2. config' \in [RouteIds -> Routes \cup {NoRoute}]
    BY <1>1, <2>1 DEF TypeOK, Replace
  <2>3. status' \in [RouteIds -> [Endpoints -> {"none", "alive", "dead"}]]
    BY <1>1, <2>1 DEF TypeOK, Replace, NoStatus
  <2>4. edits' \in 0..MaxEdits
    BY <1>1, <2>1, BoundAssumption DEF TypeOK, Replace
  <2>5. ASSUME NEW i \in RouteIds, NEW f \in Endpoints, status'[i][f] # "none"
        PROVE  f \in Range(config'[i].targets) \cap Parsable
    <3>1. i # id /\ status'[i] = status[i] /\ config'[i] = config[i]
      BY <1>1, <2>1, <2>5 DEF TypeOK, Replace, NoStatus
    <3> QED BY <1>1, <2>5, <3>1 DEF TypeOK
  <2>6. UNCHANGED <<snapshot, tasks, rounds, up>>
    BY <2>1 DEF Replace
  <2> QED BY <1>1, <2>2, <2>3, <2>4, <2>5, <2>6 DEF IInv, TypeOK, NoDoubleProbing, Probed
<1>4. CASE \E e \in Parsable, state \in {"healthy", "sick", "down"} : Turn(e, state)
  <2>1. up' \in [Parsable -> {"healthy", "sick", "down"}]
    BY <1>1, <1>4 DEF TypeOK, Turn
  <2>2. UNCHANGED <<config, status, snapshot, tasks, rounds, edits>>
    BY <1>4 DEF Turn
  <2> QED BY <1>1, <2>1, <2>2 DEF IInv, TypeOK, NoDoubleProbing, Probed
<1> QED BY <1>2, <1>3, <1>4

-----------------------------------------------------------------------------
(* The theorems *)

\* Whatever the loop, the timer, the probes and the edits do, and in whatever
\* order: the invariant above holds.
THEOREM Invariance == Spec => []IInv
<1>1. ASSUME Init PROVE IInv
  <2>1. /\ config \in [RouteIds -> Routes \cup {NoRoute}]
        /\ status \in [RouteIds -> [Endpoints -> {"none", "alive", "dead"}]]
        /\ snapshot \in [idle : BOOLEAN, keys : SUBSET TaskKey]
    BY <1>1 DEF Init, NoStatus, Idle
  <2>2. /\ DOMAIN tasks = {} /\ DOMAIN rounds = {}
        /\ up \in [Parsable -> {"healthy", "sick", "down"}]
        /\ edits \in 0..MaxEdits
    BY <1>1, BoundAssumption DEF Init
  <2>3. \A id \in RouteIds, e \in Endpoints : status[id][e] = "none"
    BY <1>1 DEF Init, NoStatus
  <2> QED BY <2>1, <2>2, <2>3 DEF IInv, TypeOK, NoDoubleProbing, IsInjective, Range
<1>2. ASSUME IInv, Next PROVE IInv'
  BY <1>2, ReconcileKeeps, StartRoundKeeps, AnswerKeeps, JoinKeeps, OthersKeep
     DEF Next, AdvanceRound
<1>3. ASSUME IInv, UNCHANGED vars PROVE IInv'
  BY <1>3 DEF vars, IInv, TypeOK, NoDoubleProbing, Probed
<1> QED BY <1>1, <1>2, <1>3, PTL DEF Spec

\* The types of the variables; a result reaches only a target that the route of
\* now has, so no status is left of an earlier version of the route.
THEOREM TypeCorrect == Spec => []TypeOK
BY Invariance, PTL DEF IInv

\* The timer never has two tasks for one key, whatever it refused, and however
\* often do_health_check runs on a clone that is out of date.
THEOREM NoDoubleProbingCorrect == Spec => []NoDoubleProbing
BY Invariance, PTL DEF IInv
=============================================================================
