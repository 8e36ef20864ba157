---------------------------- MODULE Middlewares ----------------------------
(***************************************************************************)
(* What the middlewares without a state of their own do with one request   *)
(* and one reply (middleware/*.rs), and the replies proxy() makes itself.  *)
(* The circuit breaker and the rate limiter are in modules of their own.   *)
(*                                                                         *)
(* A request head is a record: method, path, peer, and fields, a function  *)
(* from header names to values. A name may come on several lines, and what *)
(* is read of it is the first: that is the value here, but for             *)
(* X-Forwarded-For, whose value is the sequence of its lines, each a list  *)
(* of addresses. garbled are the names whose first line is not visible     *)
(* ASCII, on which to_str() fails. A reply is a status, fields and a body, *)
(* whose coding is the sequence of codings applied to it and which is open *)
(* while it still comes from the upstream. Header names are the usual ones *)
(* without their hyphens. Options that a configuration may omit are fields *)
(* a middleware may lack.                                                  *)
(***************************************************************************)
EXTENDS Matching

Kinds == {"rate_limit", "authentication", "allow_deny_list", "cors",
          "rewrite_headers", "forward_headers", "circuit_breaker",
          "request_headers", "compression"}

\* The kinds whose check_request, record_outcome and handle_response do more
\* than the default of the trait.
Checked == {"rate_limit", "authentication", "allow_deny_list", "circuit_breaker"}
Recorded == {"circuit_breaker"}
Responds == {"cors", "rewrite_headers", "compression"}

\* The next place of a chain, from k on, with one of the kinds.
Seek(chain, kinds, k) ==
  Min({Len(chain) + 1} \cup {j \in DOMAIN chain : j >= k /\ chain[j].kind \in kinds})

\* A function, and another where it has no value.
f ++ g == [x \in DOMAIN f \cup DOMAIN g |-> IF x \in DOMAIN f THEN f[x] ELSE g[x]]

Present(name, message) == name \in DOMAIN message.fields
Without(fields, name) == Restrict(fields, DOMAIN fields \ {name})

-----------------------------------------------------------------------------
(* check_request *)

\* CheckResult: a middleware allows, denies with a status, or fails.
Allowed == [verdict |-> "allowed", status |-> 0]
Denied(status) == [verdict |-> "denied", status |-> status]
Failed == [verdict |-> "failed", status |-> 500]

\* A rule with a value that is missing, or is no range, or is a range when the
\* peer has no IPv4 address, is an error; only rules that need it look at it.
RuleFails(rule, peer) ==
  /\ rule.policy \in {"allow", "deny"}
  /\ rule.form \in {"none", "malformed"} \/ (rule.form = "range" /\ ~peer.v4)

RuleApplies(rule, peer) ==
  \/ rule.policy \in {"allow_all", "deny_all"}
  \/ RuleFails(rule, peer)
  \/ peer.ip \in rule.covers

\* The first rule that applies decides; without one the peer is allowed.
CheckAddress(mw, head) ==
  LET k == SelectInSeq(mw.rules, LAMBDA rule : RuleApplies(rule, head.peer))
  IN CASE k = 0 -> Allowed
       [] k # 0 /\ RuleFails(mw.rules[k], head.peer) -> Failed
       [] k # 0 /\ ~RuleFails(mw.rules[k], head.peer) ->
            IF mw.rules[k].policy \in {"allow_all", "allow"} THEN Allowed ELSE Denied(403)

\* The credentials are encoded without padding, and compared as text.
Encode(credentials) == [of |-> credentials, padded |-> FALSE]

BasicMatches(mw, value) ==
  value.words = 2 /\ value.scheme = "Basic" /\ value.token = Encode(mw.credentials)
ApiKeyMatches(mw, value) == value = mw.value
\* What the jsonwebtoken crate accepts for the secret, issuer and audience.
JwtMatches(mw, value) == value.scheme = "Bearer" /\ value.token.of \in mw.valid

CredentialsMatch(mw, value) ==
  \/ mw.scheme = "basic" /\ BasicMatches(mw, value)
  \/ mw.scheme = "api_key" /\ ApiKeyMatches(mw, value)
  \/ mw.scheme = "jwt" /\ JwtMatches(mw, value)

CredentialsField(mw) == IF mw.scheme = "api_key" THEN mw.key ELSE "Authorization"

\* A header that cannot be read is an error, but for a JWT, which is missing.
CheckCredentials(mw, head) ==
  LET name == CredentialsField(mw)
  IN CASE ~Present(name, head) -> Denied(401)
       [] Present(name, head) /\ name \in head.garbled ->
            IF mw.scheme = "jwt" THEN Denied(401) ELSE Failed
       [] Present(name, head) /\ name \notin head.garbled ->
            IF CredentialsMatch(mw, head.fields[name]) THEN Allowed ELSE Denied(401)

\* matched: whether a limiter counts a request. A header that cannot be read, or
\* a range that is none or is asked for a peer without an IPv4 address, fails.
ScopeFails(scope, head) ==
  \/ scope.kind = "Header" /\ scope.key \in DOMAIN head.fields \cap head.garbled
  \/ scope.kind = "Iprange" /\ (scope.form = "malformed" \/ ~head.peer.v4)

InScope(scope, head) ==
  \/ scope.kind = "IP" /\ head.peer.ip = scope.value
  \/ scope.kind = "Header" /\ Present(scope.key, head) /\ head.fields[scope.key] = scope.value
  \/ scope.kind = "Iprange" /\ head.peer.ip \in scope.covers

\* The checks as far as they depend on the request alone.
CheckRequest(mw, head) ==
  CASE mw.kind = "authentication" -> CheckCredentials(mw, head)
    [] mw.kind = "allow_deny_list" -> CheckAddress(mw, head)
    [] mw.kind = "rate_limit" /\ ScopeFails(mw.scope, head) -> Failed
    [] OTHER -> Allowed

-----------------------------------------------------------------------------
(* handle_request *)

\* A head on its way to the upstream, or the error that ends it.
Sent(head) == [failed |-> FALSE, head |-> head]
SendFails(head) == [failed |-> TRUE, head |-> head]

\* Mutant of ForwardedFor: the client's list is thrown away.
ForwardedForPeer(head) == << <<head.peer.ip>> >>

\* One line: what the client said on the first of its own, and the peer. get()
\* sees no other line and insert() replaces them all.
ForwardedFor(head) ==
  LET known == IF Present("XForwardedFor", head)
               THEN Head(head.fields.XForwardedFor) ELSE <<>>
  IN <<Append(known, head.peer.ip)>>

AddForwarded(head) ==
  IF "XForwardedFor" \in head.garbled THEN SendFails(head)
  ELSE Sent([head EXCEPT !.fields =
               [XRealIP |-> head.peer.ip, XForwardedFor |-> ForwardedFor(head)] ++ @])

\* Removes first, then adds; a configured name or value that is no header ends it.
EditFields(mw, head) ==
  IF mw.malformed THEN SendFails(head)
  ELSE Sent([head EXCEPT !.fields = mw.add ++ Restrict(@, DOMAIN @ \ mw.remove),
                         !.garbled = @ \ (mw.remove \cup DOMAIN mw.add)])

HandleRequest(mw, sent) ==
  CASE sent.failed -> sent
    [] ~sent.failed /\ mw.kind = "forward_headers" -> AddForwarded(sent.head)
    [] ~sent.failed /\ mw.kind = "request_headers" -> EditFields(mw, sent.head)
    [] OTHER -> sent

HandleBeforeRequest(chain, head) ==
  FoldLeft(LAMBDA sent, mw : HandleRequest(mw, sent), Sent(head), chain)

-----------------------------------------------------------------------------
(* handle_response *)

\* A response made by proxy() itself.
NoBody == [size |-> 0, coding |-> <<>>, shrinks |-> FALSE, open |-> FALSE]
Reply(status) == [status |-> status, fields |-> << >>, body |-> NoBody]

Credentials(mw) ==
  IF "credentials" \in DOMAIN mw /\ mw.credentials
  THEN [AccessControlAllowCredentials |-> TRUE] ELSE << >>

\* The headers that a CORS configuration sets, and their values: the origins are
\* sent as configured, whatever the request's, and Vary is appended to.
CorsNames(mw) ==
  {"AccessControlAllowOrigin", "AccessControlAllowMethods"}
  \cup (IF "headers" \in DOMAIN mw THEN {"AccessControlAllowHeaders"} ELSE {})
  \cup (IF "max_age" \in DOMAIN mw /\ mw.max_age > 0 THEN {"AccessControlMaxAge"} ELSE {})
  \cup (IF mw.origins.all THEN {} ELSE {"Vary"})
  \cup DOMAIN Credentials(mw)

CorsValue(mw, reply, name) ==
  CASE name = "AccessControlAllowOrigin" -> mw.origins
    [] name = "AccessControlAllowMethods" -> mw.methods
    [] name = "AccessControlAllowHeaders" -> mw.headers
    [] name = "AccessControlMaxAge" -> mw.max_age
    [] name = "AccessControlAllowCredentials" -> TRUE
    [] name = "Vary" -> Append(IF Present("Vary", reply) THEN reply.fields.Vary ELSE <<>>, "Origin")

\* They replace what the upstream said.
AddCors(mw, reply) ==
  [reply EXCEPT !.fields = [name \in CorsNames(mw) |-> CorsValue(mw, reply, name)] ++ @]

\* The path is the one sent upstream: rewritten, and with its query.
AddExpiry(mw, path, reply) ==
  IF \E extension \in mw.extensions : IsSuffix(extension, path)
  THEN [reply EXCEPT !.fields =
          [CacheControl |-> mw.expires, Expires |-> mw.expires] ++ @]
  ELSE reply

\* The header is searched for the names: weights, as in gzip;q=0, are not seen.
Accepts(head, coding) ==
  /\ Present("AcceptEncoding", head) /\ "AcceptEncoding" \notin head.garbled
  /\ {coding, "*"} \cap head.fields.AcceptEncoding # {}

Offers(mw) ==
  CASE mw.type = "gzip" -> {"gzip"} [] mw.type = "zstd" -> {"zstd"}
    [] mw.type = "both" -> {"gzip", "zstd"}

ChosenCoding(mw, head) ==
  LET common == {coding \in Offers(mw) : Accepts(head, coding)}
  IN CASE "zstd" \in common -> "zstd"
       [] common = {"gzip"} -> "gzip"
       [] common = {} -> "none"

Excluded(mw, reply) ==
  Present("ContentType", reply) /\ reply.fields.ContentType \in mw.excluded

\* Mutant of ShouldCompress: what the upstream has encoded is encoded again.
ShouldCompressAnyway(mw, head, reply) ==
  /\ mw.enabled
  /\ ChosenCoding(mw, head) # "none"
  /\ ~Excluded(mw, reply)

ShouldCompress(mw, head, reply) ==
  /\ mw.enabled
  /\ ChosenCoding(mw, head) # "none"
  /\ ~Present("ContentEncoding", reply)
  /\ ~Excluded(mw, reply)

\* Some smaller body; one that would not become smaller is left as it is.
CompressedBody(body, coding) ==
  [size |-> body.size - 1, coding |-> Append(body.coding, coding), shrinks |-> FALSE,
   open |-> FALSE]

\* The body has been read to its end, without a timeout.
Compress(mw, head, reply) ==
  LET coding == ChosenCoding(mw, head)
  IN IF reply.body.size < mw.min_size \/ ~reply.body.shrinks
     THEN [reply EXCEPT !.body.open = FALSE]
     ELSE [reply EXCEPT
             !.fields = [ContentEncoding |-> <<coding>>] ++ Without(@, "ContentLength"),
             !.body = CompressedBody(@, coding)]

HandleResponse(mw, head, path, reply) ==
  CASE mw.kind = "cors" -> AddCors(mw, reply)
    [] mw.kind = "rewrite_headers" -> AddExpiry(mw, path, reply)
    [] mw.kind = "compression" /\ ShouldCompress(mw, head, reply) ->
         Compress(mw, head, reply)
    [] OTHER -> reply

-----------------------------------------------------------------------------
(* Preflights and upgrades *)

IsPreflight(head) ==
  /\ head.method = "OPTIONS"
  /\ Present("Origin", head) /\ Present("AccessControlRequestMethod", head)

\* cors_configed: the first one of the chain, 0 when there is none.
CorsConfigured(chain) == SelectInSeq(chain, LAMBDA mw : mw.kind = "cors")

\* What a preflight that is let through is told.
PreflightFields(mw) ==
  [AccessControlAllowOrigin |-> [all |-> FALSE, patterns |-> <<>>],
   AccessControlAllowHeaders |-> IF "headers" \in DOMAIN mw THEN mw.headers ELSE {}]
  ++ [name \in {"AccessControlAllowMethods", "Vary"} \cup DOMAIN Credentials(mw)
               \cup (IF "max_age" \in DOMAIN mw THEN {"AccessControlMaxAge"} ELSE {}) |->
        CorsValue(mw, Reply(204), name)]

\* validate_origin(""): the origin of the request is not looked at, only whether
\* some pattern takes an empty one. A pattern that is no regex is an error.
PatternHit(mw) ==
  SelectInSeq(mw.origins.patterns, LAMBDA regex : ~regex.compiles \/ IsMatch(regex, ""))

OriginFails(mw) ==
  /\ ~mw.origins.all
  /\ PatternHit(mw) # 0 /\ ~mw.origins.patterns[PatternHit(mw)].compiles

ValidOrigin(mw) ==
  IF mw.origins.all THEN "credentials" \in DOMAIN mw => mw.credentials
  ELSE PatternHit(mw) # 0

\* Being valid is answered with 403.
HandlePreflight(mw) ==
  IF OriginFails(mw) THEN Reply(500)
  ELSE IF ValidOrigin(mw) THEN Reply(403)
  ELSE [Reply(204) EXCEPT !.fields = PreflightFields(mw)]

AsksForUpgrade(head) == Present("Connection", head) /\ Present("SecWebSocketKey", head)
=============================================================================
