--------------------------- MODULE MCControlPlane ---------------------------
(***************************************************************************)
(* Two ports at the start, one of them with a route whose id the other     *)
(* port has too, and a third port that only POST or a reload can bring.    *)
(* The routes have every kind of router, forward_to in each of its forms,  *)
(* and middlewares that come back from their text and that do not.         *)
(***************************************************************************)
EXTENDS ControlPlane

R(id, forward_to) == [route_id |-> id, forward_to |-> forward_to]
With(route, middleware) == route ++ [middlewares |-> <<middleware>>]

One == [form |-> "string", value |-> "e1"]
Several == [form |-> "list", value |-> <<"e1", "e2">>]
File(root) == [form |-> "map", kind |-> "file", doc_root |-> root]
Header ==
  [form |-> "map", kind |-> "header",
   targets |-> <<[endpoint |-> "e3", header |-> "h", match |-> "m"]>>]
Weights ==
  [form |-> "map", kind |-> "weight",
   targets |-> <<[endpoint |-> "e1", weight |-> 2], [endpoint |-> "e2", weight |-> 1]>>]

Breaker(n, unit) == [kind |-> "circuit_breaker", cooldown |-> [n |-> n, unit |-> unit]]
Static == [kind |-> "rewrite_headers", expires |-> [n |-> 1, unit |-> "d"]]
Cors ==
  [kind |-> "cors", allowed_origins |-> [form |-> "string", value |-> "*"],
   allowed_methods |-> <<"GET">>,
   allowed_headers |-> [form |-> "list", value |-> <<"Cookie">>]]
Compress == [kind |-> "compression", min_size |-> 1]
OnPath == [kind |-> "path", value |-> "/"]

S(port, routes) == [listen |-> port, routes |-> routes]

MCStartup ==
  <<S(1, <<R("r1", Header)>>),
    S(2, <<R("r1", One), With(R("r2", Weights), Breaker(2, "m"))>>)>>

\* One without routes, one with two, and two that do not parse.
MCPosts ==
  {S(3, <<>>), S(2, <<>>),
   S(3, <<With(R("r2", Several), Cors), R("r1", One)>>),
   S(1, <<With(R("r2", Several), Cors), R("r1", One)>>),
   S(1, <<R("r1", File("gone"))>>),
   S(1, <<With(R("r1", One), Breaker(5, "h"))>>)}

MCPuts ==
  {With(R("r1", File("www")), Compress),
   With(R("r2", One), Breaker(500, "ms")),
   With([forward_to |-> Several, matchers |-> <<OnPath>>], Static) ++ [route_id |-> "r1"],
   R("r3", One)}

\* The second one lists a port twice.
MCReloads ==
  {<<S(1, <<R("r1", Header)>>), S(2, <<With(R("r2", One), Breaker(1, ""))>>)>>,
   <<S(1, <<R("r1", Header)>>), S(3, <<R("r2", One)>>), S(1, <<R("r2", One)>>)>>,
   <<S(2, <<[forward_to |-> One]>>)>>}

\* The violation run needs reloads only.
MCNone == {}
=============================================================================
