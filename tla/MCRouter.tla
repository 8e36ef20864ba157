------------------------------ MODULE MCRouter ------------------------------
(***************************************************************************)
(* Three targets; the first two share nothing, the third has weight 0, so  *)
(* the weighted router meets a target that is never picked and, when only  *)
(* that one is alive, its error. The header rules are one of each form, on *)
(* two headers; the expression of the third does not compile.              *)
(***************************************************************************)
EXTENDS Router

MCEndpointOf == <<"a", "b", "c">>
MCWeight == <<2, 1, 0>>

MCGarbled == {"?"}
Pieces == [v \in {"x", "x;y"} |-> IF v = "x;y" THEN {"x", "y"} ELSE {"x"}]
MCRule ==
  <<[header_key |-> "user", type |-> "split", split_list |-> {"x", "y"}, pieces |-> Pieces],
    [header_key |-> "user", type |-> "text", text |-> "x"],
    [header_key |-> "agent", type |-> "regex", compiles |-> FALSE, captures |-> {}]>>
MCRequests ==
  {<<>>, [user |-> "x"], [user |-> "x;y"], [user |-> "?"], [agent |-> "z"]}
=============================================================================
