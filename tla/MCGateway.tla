----------------------------- MODULE MCGateway -----------------------------
(***************************************************************************)
(* Three routes: an upstream behind two breakers around a limiter of one   *)
(* address, with forwarded addresses and compression; a directory behind   *)
(* an address list and a password; a transcoding route with CORS. The two  *)
(* clients are a browser that knows the password, and one that sends       *)
(* preflights from an IPv6 address and, guessing the password, upgrades.   *)
(***************************************************************************)
EXTENDS Gateway

Regex(texts, from, to) ==
  [compiles |-> TRUE, spans |-> [text \in texts |-> [from |-> from, to |-> to]]]

Prefix(text) == PathRule("prefix", text, Regex({<<"a", "b">>}, 1, Len(text)))

Breaker == [kind |-> "circuit_breaker"]
Limiter == [kind |-> "rate_limit", scope |-> [kind |-> "IP", value |-> "10.0.0.1"]]
Forward == [kind |-> "forward_headers"]
Gzip ==
  [kind |-> "compression", enabled |-> TRUE, type |-> "gzip", min_size |-> 2,
   excluded |-> {"png"}]
AddressList ==
  [kind |-> "allow_deny_list",
   rules |-> <<[policy |-> "deny", form |-> "range", covers |-> {"10.0.0.9"}],
               [policy |-> "allow_all", form |-> "none", covers |-> {}]>>]
Password == [kind |-> "authentication", scheme |-> "basic", credentials |-> "secret"]
Expiry == [kind |-> "rewrite_headers", extensions |-> {<<"b">>}, expires |-> 1]
Cors ==
  [kind |-> "cors", origins |-> [all |-> TRUE, patterns |-> <<>>], methods |-> {"GET"},
   credentials |-> FALSE, max_age |-> 1]

MCConfig ==
  [v1 |-> [matchers |-> <<Prefix(<<"a", "b">>), MethodRule({"GET"})>>,
           template |-> <<"x">>, target |-> "http",
           chain |-> <<Breaker, Limiter, Forward, Breaker, Gzip>>],
   v2 |-> [matchers |-> <<Prefix(<<"a">>), MethodRule({"GET"})>>, template |-> NoTemplate,
           target |-> "file", chain |-> <<AddressList, Password, Expiry>>],
   v3 |-> [matchers |-> <<PathRule("exact", <<"a", "b">>, Regex({}, 1, 1))>>,
           template |-> NoTemplate, target |-> "grpc", endpoint |-> "grpc://e", transcode |-> TRUE,
           chain |-> <<Breaker, Cors>>]]

Peer(ip, v4) == [ip |-> ip, v4 |-> v4]
Authorization(credentials) ==
  [words |-> 2, scheme |-> "Basic", token |-> Encode(credentials)]

Browser ==
  [method |-> "GET", path |-> <<"a", "b">>, peer |-> Peer("10.0.0.1", TRUE), garbled |-> {},
   fields |-> [AcceptEncoding |-> {"gzip"}, XForwardedFor |-> << <<"8.8.8.8">>, <<"9.9.9.9">> >>,
               Authorization |-> Authorization("secret")]]
PreflightHead ==
  [method |-> "OPTIONS", path |-> <<"a", "b">>, peer |-> Peer("::1", FALSE), garbled |-> {},
   fields |-> [Origin |-> "o", AccessControlRequestMethod |-> "PUT"]]
UpgradeHead ==
  [method |-> "GET", path |-> <<"a", "b">>, peer |-> Peer("10.0.0.2", TRUE),
   garbled |-> {"XForwardedFor"},
   fields |-> [Authorization |-> Authorization("guess"), Connection |-> "Upgrade",
               SecWebSocketKey |-> "k", Upgrade |-> "websocket", XForwardedFor |-> << <<"?">> >>]]

MCHeads ==
  [browser |-> Browser, preflight |-> PreflightHead, upgrade |-> UpgradeHead]
MCSends == [r1 |-> {"browser"}, r2 |-> {"preflight", "upgrade"}]

Body(coding) == [size |-> 3, coding |-> coding, shrinks |-> TRUE, open |-> FALSE]
Plain ==
  [status |-> 200, fields |-> [ContentLength |-> 3, ContentType |-> "html"], body |-> Body(<<>>)]
Encoded == [status |-> 503, fields |-> [ContentEncoding |-> <<"br">>], body |-> Body(<<"br">>)]

MCReplies == {Plain, Encoded}

MCStartups == {<<"v3", "v1">>, <<"v1", "v2", "v3">>}
=============================================================================
