------------------------------ MODULE Gateway ------------------------------
(***************************************************************************)
(* The requests of one listener, from the match of a route to the end of   *)
(* the exchange (proxy/proxy_trait.rs, proxy/http1/http_proxy.rs,          *)
(* proxy/http2/grpc_proxy.rs, proxy/tcp/tcp_proxy.rs), while the REST API  *)
(* edits the routes of the service.                                        *)
(*                                                                         *)
(* A version is one parsed RouteConfig: its middlewares keep their state   *)
(* behind Arcs, which the clone in a request's context shares and a route  *)
(* parsed anew does not. The HTTP and gRPC listeners hold the mutex of the *)
(* configuration from the match to the choice of the target; a breaker     *)
(* has a mutex of its own, taken for each check and each record, so the    *)
(* outcomes of other requests land between two checks of a chain.          *)
(*                                                                         *)
(* Breakers are those of BreakerContract: when failures trip one is left   *)
(* open here and decided by CircuitBreaker.                                *)
(***************************************************************************)
EXTENDS Middlewares, FiniteSets

CONSTANTS
  Requests,      \* requests of the listener (connections, of a TCP listener)
  Sends,         \* the heads that each of them may have, by name
  Heads,         \* the heads themselves, a function on the names
  Versions,      \* the RouteConfigs ever parsed
  Config,        \* matchers, template, chain of middlewares and target of each
  Replies,       \* what an upstream may answer
  Startups,      \* the routes that may be there at the start
  OpenDuration   \* cool-down of the breakers, in ticks

NoFit == -1
Free == "free"
NoRoute == "none"
NoHead == "none"

\* RouteConfig: the target is an upstream, a directory or a gRPC endpoint, the
\* latter with a descriptor (transcode) or without.
Chain(v) == Config[v].chain
Dest(v) == Config[v].target

ASSUME ConfigAssumption ==
  /\ \A v \in Versions :
       /\ Dest(v) \in {"http", "file", "grpc"}
       /\ Chain(v) \in Seq(Range(Chain(v)))
       /\ \A k \in DOMAIN Chain(v) : Chain(v)[k].kind \in Kinds
  /\ Sends \in [Requests -> SUBSET DOMAIN Heads] /\ NoHead \notin DOMAIN Heads
  /\ Startups \subseteq Seq(Versions)
  /\ Free \notin Requests /\ NoRoute \notin Versions
  /\ OpenDuration \in Nat

\* What a reply says of its body: the codings that Content-Encoding names are
\* those applied, and a Content-Length is its size.
Describes(reply) ==
  /\ reply.body.coding =
       IF Present("ContentEncoding", reply) THEN reply.fields.ContentEncoding ELSE <<>>
  /\ Present("ContentLength", reply) => reply.fields.ContentLength = reply.body.size

\* Paths, and the texts that path rules compare with them, are sequences.
ASSUME PathAssumption ==
  /\ \A h \in DOMAIN Heads : Heads[h].path \in Seq(Range(Heads[h].path))
  /\ \A v \in Versions : \A i \in DOMAIN Config[v].matchers :
       LET rule == Config[v].matchers[i]
       IN rule.kind = "path" => rule.text \in Seq(Range(rule.text))

\* X-Forwarded-For has a line or more, of a client and as configured, each of
\* them a sequence of addresses.
ListsForwarded(fields) ==
  "XForwardedFor" \in DOMAIN fields =>
    LET lines == fields.XForwardedFor
    IN /\ lines \in Seq(Range(lines)) /\ lines # <<>>
       /\ \A line \in Range(lines) : line \in Seq(Range(line))

ASSUME HeadAssumption ==
  /\ \A h \in DOMAIN Heads :
       {"fields", "garbled", "peer"} \subseteq DOMAIN Heads[h] /\ ListsForwarded(Heads[h].fields)
  /\ \A v \in Versions : \A k \in DOMAIN Chain(v) :
       Chain(v)[k].kind = "request_headers" => ListsForwarded(Chain(v)[k].add)

\* An upstream describes what it sends.
ASSUME ReplyAssumption ==
  \A reply \in Replies :
    /\ DOMAIN reply = {"status", "fields", "body"}
    /\ DOMAIN reply.body = DOMAIN NoBody
    /\ Describes(reply)

\* A breaker is a version and its place in the version's chain.
Breakers ==
  UNION {{<<v, k>> : k \in {j \in DOMAIN Chain(v) : Chain(v)[j].kind = "circuit_breaker"}} :
           v \in Versions}

VARIABLES
  server,        \* the type of the service: "http", "grpc" or "tcp"
  routes,        \* route_configs of the service
  used,          \* versions parsed so far
  breaker,       \* mode and cool-down left of every breaker
  request,       \* stage, route, next place in its chain, head and reply
  holder,        \* the request that holds the configuration's mutex
  accepting,     \* the accept loop runs
  clients        \* gRPC endpoints with a client, made when the listener started

vars == <<server, routes, used, breaker, request, holder, accepting, clients>>

NoReply == Reply(0)

Idle == [stage |-> "idle", route |-> NoRoute, k |-> 0, head |-> NoHead, reply |-> NoReply]
Checking(v, h) ==
  [stage |-> "checking", route |-> v, k |-> Seek(Chain(v), Checked, 1),
   head |-> h, reply |-> NoReply]

-----------------------------------------------------------------------------
(* AppClients::new, when an HTTP listener starts *)

\* The routes are gone through until one has no targets to give, which is taken
\* for a service without gRPC, or needs a descriptor it does not have.
StopsAt(rs) ==
  SelectInSeq(rs, LAMBDA v : Dest(v) = "file" \/ (Dest(v) = "grpc" /\ ~Config[v].transcode))
GrpcEndpoints(rs) == {Config[v].endpoint : v \in {w \in Range(rs) : Dest(w) = "grpc"}}

\* The missing descriptor keeps the listener from starting.
ClientsFail(rs) == StopsAt(rs) # 0 /\ Dest(rs[StopsAt(rs)]) = "grpc"

\* One endpoint that cannot be reached leaves all of them without a client.
Clients(rs) == IF StopsAt(rs) # 0 THEN {{}} ELSE {{}, GrpcEndpoints(rs)}

Init ==
  /\ server \in {"http", "grpc", "tcp"}
  /\ routes \in Startups
  /\ used = Range(routes)
  /\ breaker = [b \in Breakers |-> [mode |-> "Closed", wait |-> 0]]
  /\ request = [r \in Requests |-> Idle]
  /\ holder = Free
  /\ accepting = (server = "http" => ~ClientsFail(routes))
  /\ clients \in IF server = "http" THEN Clients(routes) ELSE {{}}

Stage(r) == request[r].stage
Route(r) == request[r].route
Inbound(r) == Heads[request[r].head]
Middlewares(r) == Chain(Route(r))

Goto(r, stage, k) == request' = [request EXCEPT ![r].stage = stage, ![r].k = k]
End(r) == request' = [request EXCEPT ![r] = Idle]

\* proxy_adapter makes every error an answer; a gRPC stream is reset and a TCP
\* connection closed.
Answered(r, reply) ==
  IF server = "http"
  THEN request' = [request EXCEPT ![r] = [Idle EXCEPT !.stage = "answered", !.reply = reply]]
  ELSE End(r)

-----------------------------------------------------------------------------
(* get_destination: match, check, route *)

RouteFit(v, head) ==
  IF AllMatch(Config[v].matchers, head)
  THEN MatchLength(Config[v].matchers, head.path) ELSE NoFit

Fit == [h \in DOMAIN Heads |-> [v \in Versions |-> RouteFit(v, Heads[h])]]

\* Mutant of Better: a later route of the same length wins.
BetterOrEqual(h, best, v) ==
  /\ Fit[h][v] # NoFit
  /\ best = NoRoute \/ Fit[h][v] >= Fit[h][best]

Better(h, best, v) ==
  /\ Fit[h][v] # NoFit
  /\ best = NoRoute \/ Fit[h][v] > Fit[h][best]

BestMatch(h) ==
  FoldLeft(LAMBDA best, v : IF Better(h, best, v) THEN v ELSE best, NoRoute, routes)

\* A request comes in, and first has to wait for the lock.
Arrive(r) ==
  /\ server # "tcp" /\ accepting
  /\ Stage(r) = "idle"
  /\ \E h \in Sends[r] :
       request' = [request EXCEPT ![r] = [Idle EXCEPT !.stage = "waiting", !.head = h]]
  /\ UNCHANGED <<server, routes, used, breaker, holder, accepting, clients>>

\* The lock is taken and the route found.
GetDestination(r) ==
  /\ Stage(r) = "waiting"
  /\ holder = Free
  /\ LET best == BestMatch(request[r].head)
     IN best # NoRoute /\ request' = [request EXCEPT ![r] = Checking(best, @.head)]
  /\ holder' = r
  /\ UNCHANGED <<server, routes, used, breaker, accepting, clients>>

\* No route matches, or the service itself is gone.
NoMatchFound(r) ==
  /\ Stage(r) = "waiting"
  /\ holder = Free
  /\ BestMatch(request[r].head) = NoRoute
  /\ \E status \in IF routes = <<>> THEN {404, 500} ELSE {404} : Answered(r, Reply(status))
  /\ UNCHANGED <<server, routes, used, breaker, holder, accepting, clients>>

\* A half-open breaker may have a limit of no probes.
BreakerMayRefuse(b) ==
  breaker[b].mode = "HalfOpen" \/ (breaker[b].mode = "Open" /\ breaker[b].wait > 0)

BreakerAdmits(b) ==
  \/ breaker[b].mode \in {"Closed", "HalfOpen"} /\ UNCHANGED breaker
  \/ /\ breaker[b].mode = "Open" /\ breaker[b].wait = 0
     /\ breaker' = [breaker EXCEPT ![b].mode = "HalfOpen"]

\* The middleware whose turn it is.
Current(r) == Middlewares(r)[request[r].k]
CurrentBreaker(r) == <<Route(r), request[r].k>>

\* A TCP listener has no headers to pass: credentials are not asked for and
\* limiters not consulted.
Verdict(r) ==
  IF server = "tcp" /\ Current(r).kind \in {"authentication", "rate_limit"} THEN Allowed
  ELSE CheckRequest(Current(r), Inbound(r))

\* RateLimit decides whether the limit is reached; a clock set back is an error.
MayLimit(r) ==
  /\ Current(r).kind = "rate_limit" /\ server # "tcp"
  /\ Verdict(r) = Allowed /\ InScope(Current(r).scope, Inbound(r))

InChain(r) == Stage(r) = "checking" /\ request[r].k \in DOMAIN Middlewares(r)

\* Mutant of Rest: the first middleware that allows decides.
RestSkipped(r) == Len(Middlewares(r)) + 1

\* Where is_allowed goes on after a middleware that allows.
Rest(r) == Seek(Middlewares(r), Checked, request[r].k + 1)

Allow(r) ==
  /\ InChain(r)
  /\ Verdict(r) = Allowed
  /\ IF Current(r).kind = "circuit_breaker"
     THEN BreakerAdmits(CurrentBreaker(r)) ELSE UNCHANGED breaker
  /\ request' = [request EXCEPT ![r].k = Rest(r)]
  /\ UNCHANGED <<server, routes, used, holder, accepting, clients>>

\* The statuses with which the middleware may end the request.
Refusals(r) ==
  CASE Current(r).kind = "circuit_breaker" ->
         IF BreakerMayRefuse(CurrentBreaker(r)) THEN {503} ELSE {}
    [] MayLimit(r) -> {429, 500}
    [] OTHER -> IF Verdict(r) = Allowed THEN {} ELSE {Verdict(r).status}

\* Mutant of Unlocked: a request that ends early keeps the lock.
StillLocked(r) == holder' = holder

\* The guard of the mutex is dropped when get_destination returns.
Unlocked(r) == holder' = IF holder = r THEN Free ELSE holder

\* A middleware refuses or fails: what the ones before it did stays done. A
\* check that fails leaves the accept loop of a TCP listener, and so may the
\* shutdown of a refused connection.
Refuse(r) ==
  /\ InChain(r)
  /\ \E status \in Refusals(r) : Answered(r, Reply(status))
  /\ Unlocked(r)
  /\ accepting' \in CASE server # "tcp" -> {accepting}
                      [] server = "tcp" /\ Verdict(r) = Failed -> {FALSE}
                      [] server = "tcp" /\ Verdict(r) # Failed -> {accepting, FALSE}
  /\ UNCHANGED <<server, routes, used, breaker, clients>>

AllAllowed(r) == Stage(r) = "checking" /\ request[r].k \notin DOMAIN Middlewares(r)

\* The router picks a target, or has none to pick.
GetRoute(r) ==
  /\ server # "tcp"
  /\ AllAllowed(r)
  /\ Goto(r, "upstream", 1) \/ Answered(r, Reply(500))
  /\ Unlocked(r)
  /\ UNCHANGED <<server, routes, used, breaker, accepting, clients>>

-----------------------------------------------------------------------------
(* The HTTP exchange *)

Exchanging(r) == server = "http" /\ Stage(r) = "upstream"

\* A preflight is not forwarded when its route has CORS.
CorsOf == [v \in Versions |-> CorsConfigured(Chain(v))]
AnsweredHere(r) == IsPreflight(Inbound(r)) /\ CorsOf[Route(r)] # 0

Preflight(r) ==
  /\ Exchanging(r) /\ AnsweredHere(r)
  /\ Answered(r, HandlePreflight(Middlewares(r)[CorsOf[Route(r)]]))
  /\ UNCHANGED <<server, routes, used, breaker, holder, accepting, clients>>

Forwarded(r) == Exchanging(r) /\ ~AnsweredHere(r)

\* A WebSocket is upgraded, or turned down by this side or by the other one,
\* or the other side does not answer in time.
Upgrade(r) ==
  /\ Forwarded(r) /\ AsksForUpgrade(Inbound(r))
  /\ \E status \in IF Present("Upgrade", Inbound(r)) THEN {101, 403, 500} ELSE {400} :
       Answered(r, Reply(status))
  /\ UNCHANGED <<server, routes, used, breaker, holder, accepting, clients>>

\* The middlewares edit what goes to an upstream, not what goes to a directory
\* or is transcoded.
RouteSends(v, head) ==
  IF Dest(v) = "http" THEN HandleBeforeRequest(Chain(v), head) ELSE Sent(head)

SentBy == [v \in Versions |-> [h \in DOMAIN Heads |-> RouteSends(v, Heads[h])]]
Outbound(r) == SentBy[Route(r)][request[r].head]

HasClient(v) == Dest(v) = "grpc" => Config[v].endpoint \in clients

Dispatched(r) ==
  /\ Forwarded(r) /\ ~AsksForUpgrade(Inbound(r))
  /\ ~Outbound(r).failed /\ HasClient(Route(r))

\* A transcoded answer is made of the message that came back.
Transcoded == [Reply(200) EXCEPT !.fields = [ContentType |-> "json"]]

Success(reply) == reply.status \in 200..299

\* The head of a response: an upstream streams the body after it.
Streamed(reply) == [reply EXCEPT !.body.open = TRUE]

Outcomes(v) ==
  CASE Dest(v) = "grpc" -> {Transcoded}
    [] Dest(v) = "http" -> {Streamed(reply) : reply \in Replies} \cup {NoReply}
    [] Dest(v) = "file" -> Replies \cup {NoReply}

\* The upstream answers or the connection fails. The failure of a transcoded
\* call is not given to the middlewares.
Answer(r) ==
  /\ Dispatched(r)
  /\ \E reply \in Outcomes(Route(r)) :
       request' = [request EXCEPT ![r].stage = "recording", ![r].reply = reply,
                                  ![r].k = Seek(Middlewares(r), Recorded, 1)]
  /\ UNCHANGED <<server, routes, used, breaker, holder, accepting, clients>>

\* Mutant of TimesOut: the await on the upstream has no timeout.
TimesOutNever(v) == FALSE

\* request_http and request_https are wrapped in a timeout, up to the head of
\* the response.
TimesOut(v) == Dest(v) = "http"

\* proxy() returns without an outcome: the upstream timed out, ...
Timeout(r) ==
  /\ Dispatched(r)
  /\ TimesOut(Route(r))
  /\ Answered(r, Reply(500))
  /\ UNCHANGED <<server, routes, used, breaker, holder, accepting, clients>>

\* ... or some `?` failed: no URI, no host, a header that cannot be set, no gRPC
\* client, service or method, or no answer of it.
Fail(r) ==
  /\ Forwarded(r) /\ ~AsksForUpgrade(Inbound(r))
  /\ Answered(r, Reply(500))
  /\ UNCHANGED <<server, routes, used, breaker, holder, accepting, clients>>

\* What an outcome does to a breaker.
Tripped == [mode |-> "Open", wait |-> OpenDuration]
AfterOutcome(state, ok) ==
  CASE state.mode = "Open" -> {state}
    [] state.mode = "HalfOpen" -> {IF ok THEN [state EXCEPT !.mode = "Closed"] ELSE Tripped}
    [] state.mode = "Closed" -> {state} \cup (IF ok THEN {} ELSE {Tripped})

\* Mutant of Observer: the breakers are looked up in the configuration again.
ObserverNow(r) == <<IF routes = <<>> THEN Route(r) ELSE routes[1], request[r].k>>

\* The middlewares are those of the context, cloned when the route was matched.
Observer(r) == <<Route(r), request[r].k>>

\* record_outcome of one middleware after the other, ...
Record(r) ==
  /\ Stage(r) = "recording" /\ request[r].k \in DOMAIN Middlewares(r)
  /\ IF Observer(r) \in Breakers
     THEN \E state \in AfterOutcome(breaker[Observer(r)], Success(request[r].reply)) :
            breaker' = [breaker EXCEPT ![Observer(r)] = state]
     ELSE UNCHANGED breaker
  /\ request' = [request EXCEPT ![r].k = Seek(Middlewares(r), Recorded, @ + 1)]
  /\ UNCHANGED <<server, routes, used, holder, accepting, clients>>

\* ... then handle_response of one after the other, if there is a response.
Respond(r) ==
  /\ Stage(r) = "recording" /\ request[r].k \notin DOMAIN Middlewares(r)
  /\ IF request[r].reply.status = 0
     THEN Answered(r, Reply(500))
     ELSE Goto(r, "responding", Seek(Middlewares(r), Responds, 1))
  /\ UNCHANGED <<server, routes, used, breaker, holder, accepting, clients>>

Responding(r) == Stage(r) = "responding" /\ request[r].k \in DOMAIN Middlewares(r)

\* A compression awaits the end of the body, which may never come.
Collects(r) ==
  Current(r).kind = "compression" /\ ShouldCompress(Current(r), Inbound(r), request[r].reply)

RequestPath(r) ==
  Rewrite(Config[Route(r)].matchers, Config[Route(r)].template, Inbound(r).path)

Handle(r) ==
  /\ Responding(r)
  /\ request' = [request EXCEPT
                   ![r].k = Seek(Middlewares(r), Responds, @ + 1),
                   ![r].reply = HandleResponse(Current(r), Inbound(r), RequestPath(r), @)]
  /\ UNCHANGED <<server, routes, used, breaker, holder, accepting, clients>>

\* The body breaks off while it is collected: an error, though the breakers have
\* been told of the response.
BreakOff(r) ==
  /\ Responding(r) /\ Collects(r)
  /\ Answered(r, Reply(500))
  /\ UNCHANGED <<server, routes, used, breaker, holder, accepting, clients>>

Return(r) ==
  /\ Stage(r) = "responding" /\ request[r].k \notin DOMAIN Middlewares(r)
  /\ Answered(r, request[r].reply)
  /\ UNCHANGED <<server, routes, used, breaker, holder, accepting, clients>>

\* hyper has written the answer, or the client or the upstream has gone before
\* its body was over; the connection is free for another request.
Deliver(r) ==
  /\ Stage(r) = "answered"
  /\ End(r)
  /\ UNCHANGED <<server, routes, used, breaker, holder, accepting, clients>>

-----------------------------------------------------------------------------
(* The gRPC listener and the TCP listener *)

\* The outbound call ends, in whatever way: no outcome is recorded.
GrpcEnd(r) ==
  /\ server = "grpc" /\ Stage(r) = "upstream"
  /\ End(r)
  /\ UNCHANGED <<server, routes, used, breaker, holder, accepting, clients>>

\* The accept loop checks one connection at a time, by the first route of a
\* clone of the configuration; the error that there is none leaves the loop.
TcpAccept(r) ==
  /\ server = "tcp" /\ accepting
  /\ Stage(r) = "idle"
  /\ \A other \in Requests : Stage(other) # "checking"
  /\ \/ routes = <<>> /\ accepting' = FALSE /\ UNCHANGED request
     \/ /\ routes # <<>>
        /\ \E h \in Sends[r] : request' = [request EXCEPT ![r] = Checking(routes[1], h)]
        /\ UNCHANGED accepting
  /\ UNCHANGED <<server, routes, used, breaker, holder, clients>>

\* The connection is handed to a task.
TcpSpawn(r) ==
  /\ server = "tcp"
  /\ AllAllowed(r)
  /\ Goto(r, "connecting", 1)
  /\ UNCHANGED <<server, routes, used, breaker, holder, accepting, clients>>

\* The task locks the configuration a second time: the first route of now gives
\* the target, and the connection to it may fail.
TcpConnect(r) ==
  /\ Stage(r) = "connecting"
  /\ \/ routes # <<>> /\ Goto(r, "upstream", 1)
     \/ End(r)
  /\ UNCHANGED <<server, routes, used, breaker, holder, accepting, clients>>

TcpEnd(r) ==
  /\ server = "tcp" /\ Stage(r) = "upstream"
  /\ End(r)
  /\ UNCHANGED <<server, routes, used, breaker, holder, accepting, clients>>

-----------------------------------------------------------------------------
(* The REST API, under the lock, and time *)

Edit(new) ==
  /\ holder = Free
  /\ routes' = new
  /\ used' = used \cup Range(new)
  /\ UNCHANGED <<server, breaker, request, holder, accepting, clients>>

Fresh == Versions \ used

PutRoute(k, v) == Edit([routes EXCEPT ![k] = v])
DeleteRoute(k) == Edit(RemoveAt(routes, k))
PostRoute(v) == Edit(Append(routes, v))

\* A reload parses every route anew (bound: one or two of them).
Reload == \E v, w \in Fresh : Edit(IF v = w THEN <<v>> ELSE <<v, w>>)

Tick ==
  /\ \E b \in Breakers : breaker[b].wait > 0
  /\ breaker' = [b \in Breakers |->
                   [breaker[b] EXCEPT !.wait = IF @ > 0 THEN @ - 1 ELSE 0]]
  /\ UNCHANGED <<server, routes, used, request, holder, accepting, clients>>

Step(r) ==
  \/ Arrive(r) \/ GetDestination(r) \/ NoMatchFound(r) \/ Allow(r) \/ Refuse(r) \/ GetRoute(r)
  \/ Preflight(r) \/ Upgrade(r) \/ Answer(r) \/ Timeout(r) \/ Fail(r)
  \/ Record(r) \/ Respond(r) \/ Handle(r) \/ BreakOff(r) \/ Return(r) \/ Deliver(r)
  \/ GrpcEnd(r)
  \/ TcpAccept(r) \/ TcpSpawn(r) \/ TcpConnect(r) \/ TcpEnd(r)

Next ==
  \/ \E r \in Requests : Step(r)
  \/ \E k \in DOMAIN routes : DeleteRoute(k) \/ \E v \in Fresh : PutRoute(k, v)
  \/ \E v \in Fresh : PostRoute(v)
  \/ Reload
  \/ Tick

Spec == Init /\ [][Next]_vars

\* A request that only something outside can move: a transcoded call has no
\* timeout, and neither has the body of an upstream, whether a compression reads
\* it or hyper passes it on.
Waits(r) ==
  \/ Dispatched(r) /\ Dest(Route(r)) # "file" /\ ~TimesOut(Route(r))
  \/ Responding(r) /\ Collects(r) /\ request[r].reply.body.open
  \/ Stage(r) = "answered" /\ request[r].reply.body.open

\* Of an HTTP listener, tasks that are ready run, timeouts fire (that of an
\* upgrade is fixed), files are read and clients take their answers.
Proceeds(r) ==
  server = "http" /\ Stage(r) \notin {"idle", "waiting"} /\ ~Waits(r) /\ Step(r)

\* The mutex has no queue, but to give it back wakes one of those that wait:
\* nobody is passed over for ever.
TakesLock(r) == server = "http" /\ (GetDestination(r) \/ NoMatchFound(r))

Fairness == \A r \in Requests : WF_vars(Proceeds(r)) /\ SF_vars(TakesLock(r))

FairSpec == Spec /\ Fairness

-----------------------------------------------------------------------------
(* Properties *)

\* Every variable stays in its type; a request of an HTTP or gRPC listener is
\* in its checks exactly while it holds the mutex, so no request that ends
\* leaves it locked, and a transcoded call is never recorded as a failure.
TypeOK ==
  /\ server \in {"http", "grpc", "tcp"}
  /\ routes \in Seq(Versions) /\ Range(routes) \subseteq used /\ used \subseteq Versions
  /\ breaker \in [Breakers -> [mode : {"Closed", "Open", "HalfOpen"}, wait : 0..OpenDuration]]
  /\ \A r \in Requests :
       /\ Stage(r) \in {"idle", "waiting", "checking", "connecting", "upstream",
                       "recording", "responding", "answered"}
       /\ Stage(r) \notin {"idle", "answered"} => request[r].head \in Sends[r]
       /\ Stage(r) \notin {"idle", "waiting", "answered"} =>
            Route(r) \in used /\ request[r].k \in 1..(Len(Middlewares(r)) + 1)
       /\ Stage(r) = "recording" /\ Dest(Route(r)) = "grpc" => Success(request[r].reply)
       /\ holder = r <=> (server # "tcp" /\ Stage(r) = "checking")
  /\ holder \in Requests \cup {Free}
  /\ accepting \in BOOLEAN

\* A request gets past its checks only if the address list and the credentials
\* of the route it was matched with allow it, all of them, whatever edits do to
\* the routes meanwhile; a TCP listener asks for no credentials and no limiter.
OnlyAdmittedGetThrough ==
  \A r \in Requests :
    Stage(r) \in {"connecting", "upstream", "recording", "responding"} =>
      \A k \in DOMAIN Middlewares(r) :
        \/ CheckRequest(Middlewares(r)[k], Inbound(r)) = Allowed
        \/ server = "tcp" /\ Middlewares(r)[k].kind \in {"authentication", "rate_limit"}

\* What the middlewares make of a reply stays true of its body: the codings that
\* Content-Encoding names are those applied, and a Content-Length is its size.
RepliesDescribeBodies ==
  \A r \in Requests : Stage(r) \in {"responding", "answered"} => Describes(request[r].reply)

\* Behind forward_headers that no later middleware edits, the upstream is told
\* the peer's address last, on the only line of X-Forwarded-For, after what the
\* client said on the first of its lines (those after it are lost). Not so of a
\* request that asks for an upgrade: its headers go out as they came.
UpstreamLearnsPeer ==
  \A r \in Requests : Dispatched(r) /\ Dest(Route(r)) = "http" =>
    LET chain == Middlewares(r)
        sent == Outbound(r).head
        lines == sent.fields.XForwardedFor
        kinds(k) == {chain[j].kind : j \in {i \in DOMAIN chain : i >= k}}
    IN \A k \in DOMAIN chain :
         (chain[k].kind = "forward_headers" /\ "request_headers" \notin kinds(k)) =>
           /\ sent.fields.XRealIP = Inbound(r).peer.ip
           /\ Len(lines) = 1 /\ Last(lines[1]) = Inbound(r).peer.ip
           /\ ("request_headers" \notin kinds(1) /\ Present("XForwardedFor", Inbound(r))) =>
                IsPrefix(Inbound(r).fields.XForwardedFor[1], lines[1])

\* The requests that are in flight through a breaker: past its check and not
\* past its record.
InFlight(b) ==
  {r \in Requests :
     /\ Route(r) = b[1]
     /\ \/ Stage(r) = "checking" /\ request[r].k > b[2]
        \/ Stage(r) \in {"connecting", "upstream"}
        \/ Stage(r) = "recording" /\ request[r].k <= b[2]}

Contract(b) == INSTANCE BreakerContract WITH
  mode <- breaker[b].mode, wait <- breaker[b].wait, inflight <- InFlight(b)

\* Every breaker keeps its contract with the requests of its route, in a chain
\* with other middlewares that refuse what it admitted and under edits that
\* replace its route: a request that gets to the upstream was admitted by all
\* breakers of the route it was matched with, and an outcome that is recorded is
\* told to those. (That there is one is not promised: a request that times out
\* leaves without.)
EachBreakerKeepsContract ==
  /\ \A b \in Breakers : Contract(b)!ContractInit
  /\ [][\A b \in Breakers :
          Contract(b)!ContractNext \/ UNCHANGED Contract(b)!contractVars]_vars

\* get_destination gives a request the longest match of the routes at that
\* time, the first of them when several are as long.
Longest(h, k) ==
  /\ Fit[h][routes[k]] # NoFit
  /\ \A j \in DOMAIN routes :
       /\ Fit[h][routes[j]] <= Fit[h][routes[k]]
       /\ j < k => Fit[h][routes[j]] # Fit[h][routes[k]]

LongestMatchServes ==
  [][\A r \in Requests :
       (server # "tcp" /\ Stage(r) # "checking" /\ Stage(r)' = "checking") =>
         \E k \in DOMAIN routes : Longest(request'[r].head, k) /\ Route(r)' = routes[k]]_vars

\* Every HTTP request ends, from the moment it waits for the mutex of the
\* configuration: but for a transcoded call and for a body that the upstream does
\* not end, collected by a compression or on its way to the client. Nothing else
\* it waits for, a mutex or the head of a response, can hold it for ever, and
\* those hold nobody but themselves.
MayWait(r) ==
  \/ Stage(r) = "upstream" /\ Dest(Route(r)) = "grpc"
  \/ Responding(r) /\ Collects(r) /\ request[r].reply.body.open
  \/ Stage(r) = "answered" /\ request[r].reply.body.open

HttpRequestsEnd ==
  \A r \in Requests :
    (server = "http" /\ Stage(r) # "idle") ~> (Stage(r) = "idle" \/ MayWait(r))
=============================================================================
