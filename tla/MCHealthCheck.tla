--------------------------- MODULE MCHealthCheck ---------------------------
(***************************************************************************)
(* One route, in turn with a target that can be probed, with the same one  *)
(* behind a target that is no URL, and with a check that probes nothing:   *)
(* over two edits it is replaced, deleted, and put back as it was while    *)
(* probes of its first life are still out. Targets are probed and joined   *)
(* independently, so one that can be probed is enough.                     *)
(***************************************************************************)
EXTENDS HealthCheck

CONSTANTS a, c, bare, mysql

MCRoutes ==
  {[check |-> c, targets |-> <<a>>], [check |-> c, targets |-> <<bare, a>>],
   [check |-> mysql, targets |-> <<a>>]}
=============================================================================
