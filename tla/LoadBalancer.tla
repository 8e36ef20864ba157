---------------------------- MODULE LoadBalancer ----------------------------
(***************************************************************************)
(* What a load balancer promises to the targets it deals requests to,      *)
(* without the indices that decide the order: it deals in turns, a turn    *)
(* gives every target of the pool its share and begins only when the one   *)
(* before it is used up. A change of the pool lets the turn under way go   *)
(* on among those that are left, or begins a new one.                      *)
(***************************************************************************)
EXTENDS Naturals, Sequences

CONSTANTS
  Targets,
  Quota,    \* the share of each target in a turn, a function
  Nobody    \* what is handed out when nobody has a share

VARIABLES
  members,  \* the targets there are
  pool,     \* those that take part
  left,     \* what is left to each target of its share
  dealt     \* whom the requests went to since the pool last changed

dealerVars == <<members, pool, left, dealt>>

DealerInit ==
  /\ members \subseteq Targets /\ pool = members
  /\ left = Quota
  /\ dealt = <<>>

UsedUp == \A t \in pool : left[t] = 0

\* A target of the pool that has something left gets the request, of a turn that
\* begins with it if nobody else had.
Deal(t) ==
  /\ t \in pool
  /\ dealt' = Append(dealt, t)
  /\ LET turn == [u \in Targets |-> IF UsedUp /\ u \in pool THEN Quota[u] ELSE left[u]]
     IN turn[t] > 0 /\ left' = [turn EXCEPT ![t] = @ - 1]
  /\ UNCHANGED <<members, pool>>

\* A pool without shares, or nobody there at all.
Decline ==
  /\ \/ members = {}
     \/ pool # {} /\ \A t \in pool : Quota[t] = 0
  /\ dealt' = Append(dealt, Nobody)
  /\ UNCHANGED <<members, pool, left>>

\* With nobody in the pool any member will do; it may be charged for it.
Improvise(t) ==
  /\ pool = {} /\ t \in members
  /\ dealt' = Append(dealt, t)
  /\ left' \in {left, [left EXCEPT ![t] = IF @ > 0 THEN @ - 1 ELSE 0]}
  /\ UNCHANGED <<members, pool>>

\* Targets go and come.
Change ==
  /\ UNCHANGED members /\ pool' \subseteq members
  /\ dealt' = <<>>
  /\ left' \in {left, Quota}

DealerNext ==
  \/ \E t \in Targets : Deal(t) \/ Improvise(t)
  \/ Decline
  \/ Change

DealerSpec == DealerInit /\ [][DealerNext]_dealerVars
=============================================================================
