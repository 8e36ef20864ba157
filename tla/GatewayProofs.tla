---------------------------- MODULE GatewayProofs ----------------------------
(***************************************************************************)
(* Proofs about Gateway, for every value of its constants.                 *)
(***************************************************************************)
EXTENDS Gateway, ProofLemmas

-----------------------------------------------------------------------------
(* The match: BestMatch goes through the routes one by one *)

\* What is left after a set of places of the list, by its last one.
BestOf(h, best, s) ==
  IF s = {} THEN NoRoute
  ELSE LET last == Max(s)
       IN IF Better(h, best[s \ {last}], routes[last]) THEN routes[last]
          ELSE best[s \ {last}]

\* The recursion that BestMatch stands for is well-founded.
LEMMA BestOfExists ==
  ASSUME NEW h
  PROVE  \A n \in Nat : \E best : best = [s \in SUBSET (1..n) |-> BestOf(h, best, s)]
<1> DEFINE Defined == {n \in Nat : \E best : best = [s \in SUBSET (1..n) |-> BestOf(h, best, s)]}
<1>1. 0 \in Defined
  <2> DEFINE best == [s \in SUBSET (1..0) |-> NoRoute]
  <2>1. \A s \in SUBSET (1..0) : BestOf(h, best, s) = NoRoute
    BY DEF BestOf
  <2>2. best = [s \in SUBSET (1..0) |-> BestOf(h, best, s)]
    BY <2>1
  <2> QED BY <2>2
<1>2. ASSUME NEW n \in Nat, n \in Defined PROVE n + 1 \in Defined
  <2>1. PICK best : best = [s \in SUBSET (1..n) |-> BestOf(h, best, s)]
    BY <1>2
  <2> DEFINE last == n + 1
             next == [s \in SUBSET (1..last) |->
                        IF last \notin s THEN best[s]
                        ELSE IF Better(h, best[s \ {last}], routes[last]) THEN routes[last]
                        ELSE best[s \ {last}]]
  <2>2. ASSUME NEW s \in SUBSET (1..last) PROVE next[s] = BestOf(h, next, s)
    <3>1. CASE last \notin s
      <4>0. s \in SUBSET (1..n)
        BY <3>1
      <4>1. \A m : s \ {m} \in SUBSET (1..n) /\ last \notin s \ {m}
        BY <3>1, <4>0
      <4>2. \A m : next[s \ {m}] = best[s \ {m}]
        BY <4>1
      <4>3. next[s] = BestOf(h, best, s)
        BY <2>1, <3>1, <4>0
      <4> HIDE DEF next
      <4> QED BY <4>2, <4>3 DEF BestOf
    <3>2. CASE last \in s
      <4>1. s \ {last} \in SUBSET (1..n) /\ s # {} /\ Max(s) = last
        BY <3>2, MaxOfPrefix
      <4>2. next[s \ {last}] = best[s \ {last}]
        BY <4>1
      <4> QED BY <3>2, <4>1, <4>2 DEF BestOf
    <3> QED BY <3>1, <3>2
  <2> HIDE DEF next
  <2>3. next = [s \in SUBSET (1..last) |-> BestOf(h, next, s)]
    <3>1. DOMAIN next = SUBSET (1..last) /\ next = [s \in DOMAIN next |-> next[s]]
      BY DEF next
    <3> QED BY <2>2, <3>1, Zenon
  <2> QED BY <2>3
<1> HIDE DEF Defined
<1>3. \A n \in Nat : n \in Defined
  BY <1>1, <1>2, SetInduction
<1> QED BY <1>3 DEF Defined

LEMMA BestMatchIsFold ==
  ASSUME NEW h, DOMAIN routes = 1..Len(routes), Len(routes) \in Nat
  PROVE  \E best : /\ best = [s \in SUBSET (1..Len(routes)) |-> BestOf(h, best, s)]
                   /\ BestMatch(h) = best[1..Len(routes)]
<1> DEFINE best == CHOOSE f : f = [s \in SUBSET DOMAIN routes |-> BestOf(h, f, s)]
<1>1. best = [s \in SUBSET DOMAIN routes |-> BestOf(h, best, s)]
  <2>1. \E f : f = [s \in SUBSET DOMAIN routes |-> BestOf(h, f, s)]
    <3>1. PICK f : f = [s \in SUBSET (1..Len(routes)) |-> BestOf(h, f, s)]
      BY BestOfExists
    <3>2. f = [s \in SUBSET DOMAIN routes |-> BestOf(h, f, s)]
      BY <3>1
    <3> QED BY <3>2
  <2> QED BY <2>1, Zenon
<1>2. BestMatch(h) = best[DOMAIN routes]
  BY Zenon DEF BestMatch, FoldLeft, MapThenFoldSet, BestOf
<1> HIDE DEF best
<1> QED BY <1>1, <1>2

\* A fit is a length, or the mark that there is none.
LEMMA FitType ==
  ASSUME NEW h \in DOMAIN Heads, NEW v \in Versions
  PROVE  Fit[h][v] \in Nat \cup {NoFit}
<1> DEFINE path == Heads[h].path
           rules == Config[v].matchers
           lengths == {Len(rules[i].text) : i \in {j \in DOMAIN rules :
                          rules[j].kind = "path" /\ IsPrefix(rules[j].text, path)}}
<1>1. Len(path) \in Nat
  BY PathAssumption
<1>2. \A n \in lengths : n \in Nat /\ n <= Len(path)
  BY PathAssumption DEF IsPrefix
<1>3. Max({0} \cup lengths) \in Nat
  <2> DEFINE all == {0} \cup lengths
  <2>1. all \in SUBSET Nat /\ all # {} /\ \A n \in all : n <= Len(path)
    BY <1>1, <1>2
  <2> HIDE DEF all
  <2>2. Max(all) \in all
    BY <1>1, <2>1, MaxOfNats
  <2> QED BY <2>1, <2>2 DEF all
<1>4. MatchLength(rules, path) \in Nat
  BY <1>3 DEF MatchLength
<1> QED BY <1>4 DEF Fit, RouteFit, NoFit

\* The best of the first n routes: none that fits, or the first of the longest.
FirstLongest(h, n, best) ==
  \/ best = NoRoute /\ \A k \in 1..n : Fit[h][routes[k]] = NoFit
  \/ \E k \in 1..n :
       /\ best = routes[k] /\ Fit[h][routes[k]] # NoFit
       /\ \A j \in 1..n :
            /\ Fit[h][routes[j]] <= Fit[h][routes[k]]
            /\ j < k => Fit[h][routes[j]] # Fit[h][routes[k]]

LEMMA BestMatchIsFirstLongest ==
  ASSUME NEW h \in DOMAIN Heads, routes \in Seq(Versions)
  PROVE  FirstLongest(h, Len(routes), BestMatch(h))
<1> DEFINE N == Len(routes)
<1>1. N \in Nat /\ DOMAIN routes = 1..N /\ \A k \in 1..N : routes[k] \in Versions
  OBVIOUS
<1>2. PICK best : /\ best = [s \in SUBSET (1..N) |-> BestOf(h, best, s)]
                  /\ BestMatch(h) = best[1..N]
  BY <1>1, BestMatchIsFold
<1> DEFINE Good == {n \in Nat : n <= N => FirstLongest(h, n, best[1..n])}
<1>3. 0 \in Good
  <2>1. best[1..0] = NoRoute
    BY <1>2 DEF BestOf
  <2> QED BY <2>1 DEF FirstLongest
<1>4. ASSUME NEW n \in Nat, n \in Good PROVE n + 1 \in Good
  <2> SUFFICES ASSUME n + 1 <= N PROVE FirstLongest(h, n + 1, best[1..(n + 1)])
    OBVIOUS
  <2> DEFINE v == routes[n + 1]
             old == best[1..n]
  <2>1. best[1..(n + 1)] = IF Better(h, old, v) THEN v ELSE old
    <3>1. Max(1..(n + 1)) = n + 1
      BY PrefixWithoutLast, MaxOfPrefix
    <3>2. best[1..(n + 1)] = BestOf(h, best, 1..(n + 1))
      BY <1>1, <1>2
    <3> QED BY <3>1, <3>2, PrefixWithoutLast DEF BestOf
  <2>2. FirstLongest(h, n, old)
    BY <1>1, <1>4
  <2>3. \A k \in 1..(n + 1) : routes[k] \in Versions /\ Fit[h][routes[k]] \in Nat \cup {NoFit}
    BY <1>1, FitType
  <2>4. NoRoute \notin Versions
    BY ConfigAssumption
  <2> HIDE DEF old
  <2>5. CASE Better(h, old, v)
    <3>1. Fit[h][v] # NoFit /\ (old = NoRoute \/ Fit[h][v] > Fit[h][old])
      BY <2>5 DEF Better
    <3>2. Fit[h][v] \in Nat
      BY <2>3, <3>1
    <3>3. \A j \in 1..n : Fit[h][routes[j]] < Fit[h][v]
      <4>1. CASE old = NoRoute
        <5>1. \A k \in 1..n : old # routes[k]
          BY <2>3, <2>4, <4>1
        <5> QED BY <2>2, <3>2, <5>1 DEF FirstLongest, NoFit
      <4>2. CASE old # NoRoute
        <5>1. PICK k \in 1..n : old = routes[k] /\ \A j \in 1..n : Fit[h][routes[j]] <= Fit[h][routes[k]]
          BY <2>2, <4>2 DEF FirstLongest
        <5>2. Fit[h][old] < Fit[h][v]
          BY <3>1, <4>2
        <5>3. \A j \in 1..n : Fit[h][routes[j]] \in Int /\ Fit[h][routes[j]] <= Fit[h][old]
          BY <2>3, <5>1 DEF NoFit
        <5>4. Fit[h][old] \in Int
          BY <2>3, <5>1 DEF NoFit
        <5> QED BY <3>2, <5>2, <5>3, <5>4
      <4> QED BY <4>1, <4>2
    <3>4. \A j \in 1..(n + 1) : Fit[h][routes[j]] <= Fit[h][v] /\ (j < n + 1 => Fit[h][routes[j]] # Fit[h][v])
      BY <2>3, <3>2, <3>3 DEF NoFit
    <3> QED BY <2>1, <2>5, <3>1, <3>4 DEF FirstLongest
  <2>6. CASE ~Better(h, old, v)
    BY <2>1, <2>2, <2>3, <2>4, <2>6 DEF FirstLongest, Better, NoFit
  <2> QED BY <2>5, <2>6
<1> HIDE DEF Good
<1>5. N \in Good
  BY <1>1, <1>3, <1>4, SetInduction
<1> QED BY <1>1, <1>2, <1>5 DEF Good

-----------------------------------------------------------------------------
(* Chains: what Seek finds *)

\* Seek finds the first place from k on with one of the kinds, or the end.
LEMMA SeekFirst ==
  ASSUME NEW chain, chain \in Seq(Range(chain)), NEW kinds, NEW k \in 1..(Len(chain) + 1)
  PROVE  /\ Seek(chain, kinds, k) \in k..(Len(chain) + 1)
         /\ \A j \in DOMAIN chain :
              j >= k /\ j < Seek(chain, kinds, k) => chain[j].kind \notin kinds
         /\ \A j \in DOMAIN chain :
              j >= k /\ chain[j].kind \in kinds => Seek(chain, kinds, k) <= j
         /\ Seek(chain, kinds, k) \in DOMAIN chain =>
              chain[Seek(chain, kinds, k)].kind \in kinds
<1> DEFINE places == {Len(chain) + 1} \cup {j \in DOMAIN chain : j >= k /\ chain[j].kind \in kinds}
<1>1. Len(chain) \in Nat /\ DOMAIN chain = 1..Len(chain)
  OBVIOUS
<1>2. places \in SUBSET Nat /\ Len(chain) + 1 \in places
  BY <1>1
<1>3. Min(places) \in places /\ \A y \in places : Min(places) <= y
  <2> HIDE DEF places
  <2> QED BY <1>2, MinOfNats
<1>4. Seek(chain, kinds, k) = Min(places)
  BY DEF Seek
<1> DEFINE n == Min(places)
<1>5. n = Len(chain) + 1 \/ (n \in DOMAIN chain /\ n >= k /\ chain[n].kind \in kinds)
  BY <1>3
<1>6. \A j \in DOMAIN chain : j >= k /\ chain[j].kind \in kinds => n <= j
  BY <1>3
<1> HIDE DEF n
<1>7. n \in k..(Len(chain) + 1)
  BY <1>1, <1>5
<1>8. n \in DOMAIN chain => chain[n].kind \in kinds
  BY <1>1, <1>5
<1>9. \A j \in DOMAIN chain : j >= k /\ j < n => chain[j].kind \notin kinds
  BY <1>1, <1>6, <1>7
<1> QED BY <1>4, <1>6, <1>7, <1>8, <1>9 DEF n

LEMMA ChainIsSeq ==
  ASSUME NEW v \in Versions
  PROVE  /\ Chain(v) \in Seq(Range(Chain(v)))
         /\ Len(Chain(v)) \in Nat /\ DOMAIN Chain(v) = 1..Len(Chain(v))
<1>1. Chain(v) \in Seq(Range(Chain(v)))
  BY ConfigAssumption
<1> QED BY <1>1

-----------------------------------------------------------------------------
(* The invariant *)

Fields == {"stage", "route", "k", "head", "reply"}
Stages ==
  {"idle", "waiting", "checking", "connecting", "upstream", "recording", "responding", "answered"}
PastChecks == {"connecting", "upstream", "recording", "responding"}

\* The k-th middleware of a route lets a head through.
Admits(v, k, h) ==
  \/ CheckRequest(Chain(v)[k], Heads[h]) = Allowed
  \/ server = "tcp" /\ Chain(v)[k].kind \in {"authentication", "rate_limit"}

BodyShape == {"size", "coding", "shrinks", "open"}
ReplyOK(reply) ==
  /\ DOMAIN reply = {"status", "fields", "body"} /\ DOMAIN reply.body = BodyShape
  /\ Describes(reply)

RequestOK(r) ==
  /\ DOMAIN request[r] = Fields
  /\ Stage(r) \in Stages
  /\ Stage(r) \notin {"idle", "answered"} => request[r].head \in Sends[r]
  /\ Stage(r) \notin {"idle", "waiting", "answered"} =>
       Route(r) \in used /\ request[r].k \in 1..(Len(Middlewares(r)) + 1)
  /\ Stage(r) = "waiting" => server # "tcp"
  /\ Stage(r) = "recording" /\ Dest(Route(r)) = "grpc" => Success(request[r].reply)

\* What a request has behind it has admitted it.
AdmittedSoFar(r) ==
  Stage(r) \in {"checking"} \cup PastChecks =>
    \A k \in DOMAIN Middlewares(r) :
      (Stage(r) = "checking" => k < request[r].k) => Admits(Route(r), k, request[r].head)

\* Every reply on its way back describes its body.
ReplyOnItsWay(r) ==
  Stage(r) \in {"recording", "responding", "answered"} => ReplyOK(request[r].reply)

RequestsInv ==
  /\ DOMAIN request = Requests
  /\ \A r \in Requests : RequestOK(r) /\ AdmittedSoFar(r) /\ ReplyOnItsWay(r)

\* The mutex is held by the one request that is in its checks.
LockInv ==
  /\ holder \in Requests \cup {Free}
  /\ \A r \in Requests : holder = r <=> (server # "tcp" /\ Stage(r) = "checking")

RoutesInv ==
  /\ server \in {"http", "grpc", "tcp"}
  /\ routes \in Seq(Versions) /\ Range(routes) \subseteq used /\ used \subseteq Versions
  /\ accepting \in BOOLEAN

\* Only an open breaker has cool-down left.
BreakersInv ==
  /\ breaker \in [Breakers -> [mode : {"Closed", "Open", "HalfOpen"}, wait : 0..OpenDuration]]
  /\ \A b \in Breakers : breaker[b].mode # "Open" => breaker[b].wait = 0

IInv == RoutesInv /\ BreakersInv /\ LockInv /\ RequestsInv

-----------------------------------------------------------------------------
(* Replies: what the middlewares make of one keeps describing its body *)

\* A field of neither function is in no union of them, one of the left is the
\* left's.
LEMMA FieldsOfUnion ==
  ASSUME NEW f, NEW g, NEW x
  PROVE  /\ DOMAIN (f ++ g) = DOMAIN f \cup DOMAIN g
         /\ x \in DOMAIN f => (f ++ g)[x] = f[x]
         /\ x \notin DOMAIN f /\ x \in DOMAIN g => (f ++ g)[x] = g[x]
BY DEF ++

\* The headers that stand for the body of a reply.
BodyFields == {"ContentEncoding", "ContentLength"}

LEMMA OwnReply ==
  ASSUME NEW status
  PROVE  ReplyOK(Reply(status))
BY DEF ReplyOK, BodyShape, Reply, Describes, Present, NoBody

\* Fields of other names do not matter.
LEMMA OtherFields ==
  ASSUME NEW reply, ReplyOK(reply), NEW more, DOMAIN more \cap BodyFields = {}
  PROVE  ReplyOK([reply EXCEPT !.fields = more ++ @])
<1> DEFINE new == [reply EXCEPT !.fields = more ++ @]
<1>1. DOMAIN new = DOMAIN reply /\ new.fields = more ++ reply.fields /\ new.body = reply.body
  BY DEF ReplyOK
<1> HIDE DEF new
<1>2. ASSUME NEW x \in BodyFields
      PROVE  /\ Present(x, new) <=> Present(x, reply)
             /\ Present(x, reply) => new.fields[x] = reply.fields[x]
  <2>1. x \notin DOMAIN more
    OBVIOUS
  <2>2. DOMAIN (more ++ reply.fields) = DOMAIN more \cup DOMAIN reply.fields
    BY FieldsOfUnion
  <2>3. x \in DOMAIN reply.fields => (more ++ reply.fields)[x] = reply.fields[x]
    BY <2>1 DEF ++
  <2> QED BY <1>1, <2>1, <2>2, <2>3 DEF Present
<1>3. Describes(new)
  BY <1>1, <1>2 DEF ReplyOK, Describes, BodyFields
<1> QED BY <1>1, <1>3 DEF ReplyOK, new

\* Whether it has come to its end does not matter either.
LEMMA OpenedReply ==
  ASSUME NEW reply, ReplyOK(reply), NEW open \in BOOLEAN
  PROVE  ReplyOK([reply EXCEPT !.body.open = open])
<1> DEFINE new == [reply EXCEPT !.body.open = open]
<1>1. /\ DOMAIN new = DOMAIN reply /\ new.fields = reply.fields
      /\ DOMAIN new.body = BodyShape
      /\ new.body.coding = reply.body.coding /\ new.body.size = reply.body.size
  BY DEF ReplyOK, BodyShape
<1> HIDE DEF new
<1>2. Describes(new)
  BY <1>1 DEF ReplyOK, Describes, Present
<1> QED BY <1>1, <1>2 DEF ReplyOK, new

LEMMA TranscodedReply == ReplyOK(Transcoded) /\ Success(Transcoded)
BY DEF ReplyOK, BodyShape, Transcoded, Reply, Describes, Present, NoBody, Success

\* What CORS adds.
LEMMA CorsFields ==
  ASSUME NEW mw
  PROVE  CorsNames(mw) \cap BodyFields = {} /\ DOMAIN Credentials(mw) \cap BodyFields = {}
BY DEF CorsNames, Credentials, BodyFields

LEMMA CorsReply ==
  ASSUME NEW mw, NEW reply, ReplyOK(reply)
  PROVE  ReplyOK(AddCors(mw, reply))
<1> DEFINE more == [name \in CorsNames(mw) |-> CorsValue(mw, reply, name)]
<1>1. DOMAIN more \cap BodyFields = {}
  BY CorsFields
<1>2. AddCors(mw, reply) = [reply EXCEPT !.fields = more ++ @]
  BY Zenon DEF AddCors
<1> HIDE DEF more
<1> QED BY <1>1, <1>2, OtherFields

LEMMA ExpiryReply ==
  ASSUME NEW mw, NEW path, NEW reply, ReplyOK(reply)
  PROVE  ReplyOK(AddExpiry(mw, path, reply))
<1> DEFINE more == [CacheControl |-> mw.expires, Expires |-> mw.expires]
<1>1. DOMAIN more \cap BodyFields = {}
  BY DEF BodyFields
<1>2. AddExpiry(mw, path, reply) \in {reply, [reply EXCEPT !.fields = more ++ @]}
  BY Zenon DEF AddExpiry
<1> HIDE DEF more
<1> QED BY <1>1, <1>2, OtherFields

\* A body is compressed only if it has no coding yet, and loses its length.
LEMMA CompressedReply ==
  ASSUME NEW mw, NEW head, NEW reply, ReplyOK(reply), ShouldCompress(mw, head, reply)
  PROVE  ReplyOK(Compress(mw, head, reply))
<1> DEFINE coding == ChosenCoding(mw, head)
           without == Without(reply.fields, "ContentLength")
           fields == [ContentEncoding |-> <<coding>>] ++ without
           new == [reply EXCEPT !.fields = fields, !.body = CompressedBody(reply.body, coding)]
<1>1. CASE reply.body.size < mw.min_size \/ ~reply.body.shrinks
  <2>1. Compress(mw, head, reply) = [reply EXCEPT !.body.open = FALSE]
    BY <1>1, Zenon DEF Compress
  <2> QED BY <2>1, OpenedReply
<1>2. CASE ~(reply.body.size < mw.min_size \/ ~reply.body.shrinks)
  <2>1. Compress(mw, head, reply) = new
    BY <1>2, Zenon DEF Compress
  <2>2. ~Present("ContentEncoding", reply) /\ reply.body.coding = <<>>
    BY DEF ShouldCompress, ReplyOK, Describes
  <2>3. "ContentLength" \notin DOMAIN without
    BY DEF Without, Restrict
  <2>4. /\ "ContentEncoding" \in DOMAIN fields /\ fields.ContentEncoding = <<coding>>
        /\ "ContentLength" \notin DOMAIN fields
    <3> HIDE DEF without, coding
    <3> QED BY <2>3 DEF ++
  <2>5. /\ CompressedBody(reply.body, coding).coding = <<coding>>
        /\ DOMAIN CompressedBody(reply.body, coding) = BodyShape
    BY <2>2 DEF CompressedBody, BodyShape
  <2>6. /\ DOMAIN new = {"status", "fields", "body"}
        /\ new.fields = fields
        /\ new.body.coding = <<coding>> /\ DOMAIN new.body = BodyShape
    <3> HIDE DEF fields, coding
    <3>1. DOMAIN reply = {"status", "fields", "body"}
      BY DEF ReplyOK
    <3> QED BY <2>5, <3>1
  <2> HIDE DEF new, fields, coding
  <2> QED BY <2>1, <2>4, <2>6 DEF ReplyOK, Describes, Present
<1> QED BY <1>1, <1>2

LEMMA HandledReply ==
  ASSUME NEW mw, NEW head, NEW path, NEW reply, ReplyOK(reply)
  PROVE  ReplyOK(HandleResponse(mw, head, path, reply))
<1>1. HandleResponse(mw, head, path, reply) \in
        {AddCors(mw, reply), AddExpiry(mw, path, reply), reply}
      \/ /\ ShouldCompress(mw, head, reply)
         /\ HandleResponse(mw, head, path, reply) = Compress(mw, head, reply)
  BY Zenon DEF HandleResponse
<1> QED BY <1>1, CorsReply, ExpiryReply, CompressedReply

LEMMA PreflightReply ==
  ASSUME NEW mw
  PROVE  ReplyOK(HandlePreflight(mw))
<1> DEFINE fields == PreflightFields(mw)
           new == [Reply(204) EXCEPT !.fields = fields]
<1>2. DOMAIN fields \cap BodyFields = {}
  BY CorsFields DEF PreflightFields, BodyFields, ++
<1>3. ReplyOK(new)
  <2> HIDE DEF fields
  <2> QED BY <1>2 DEF ReplyOK, BodyShape, Describes, Present, Reply, NoBody, BodyFields
<1>4. \/ HandlePreflight(mw) = Reply(500)
      \/ HandlePreflight(mw) = Reply(403)
      \/ HandlePreflight(mw) = new
  BY DEF HandlePreflight
<1> QED BY <1>3, <1>4, OwnReply

-----------------------------------------------------------------------------
(* Transitions: what a step does to the request that takes it *)

Arrived(r) ==
  /\ server # "tcp"
  /\ \E h \in Sends[r] : request'[r] = [Idle EXCEPT !.stage = "waiting", !.head = h]

Started(r) ==
  /\ Stage(r) \in {"idle", "waiting"}
  /\ \E v \in Range(routes), h \in Sends[r] : request'[r] = Checking(v, h)

Ended(r) ==
  \/ request'[r] = Idle
  \/ \E reply : ReplyOK(reply) /\ request'[r] = [Idle EXCEPT !.stage = "answered", !.reply = reply]

\* The request keeps its route and its head.
Becomes(r, stage, k, reply) ==
  /\ DOMAIN request'[r] = Fields
  /\ request'[r].stage = stage /\ request'[r].route = Route(r)
  /\ request'[r].k = k /\ request'[r].head = request[r].head /\ request'[r].reply = reply

Passed(r) ==
  /\ InChain(r) /\ Verdict(r) = Allowed
  /\ Becomes(r, "checking", Rest(r), request[r].reply)

MovedOn(r) ==
  \/ AllAllowed(r) /\ \E stage \in {"connecting", "upstream"} : Becomes(r, stage, 1, request[r].reply)
  \/ Stage(r) = "connecting" /\ Becomes(r, "upstream", 1, request[r].reply)

Outcome(r) ==
  /\ Stage(r) = "upstream"
  /\ \E reply :
       /\ ReplyOK(reply) /\ (Dest(Route(r)) = "grpc" => Success(reply))
       /\ Becomes(r, "recording", Seek(Middlewares(r), Recorded, 1), reply)

Recording(r) == Stage(r) = "recording" /\ request[r].k \in DOMAIN Middlewares(r)

Noted(r) ==
  /\ Recording(r)
  /\ Becomes(r, "recording", Seek(Middlewares(r), Recorded, request[r].k + 1), request[r].reply)

Responded(r) ==
  /\ Stage(r) = "recording" /\ request[r].k \notin DOMAIN Middlewares(r)
  /\ Becomes(r, "responding", Seek(Middlewares(r), Responds, 1), request[r].reply)

Handled(r) ==
  /\ Responding(r)
  /\ \E reply :
       /\ ReplyOK(reply)
       /\ Becomes(r, "responding", Seek(Middlewares(r), Responds, request[r].k + 1), reply)

\* A step of one request leaves the others and the routes alone.
LEMMA StepIsLocal ==
  ASSUME RequestsInv, NEW r \in Requests, Step(r)
  PROVE  /\ DOMAIN request' = Requests
         /\ \A q \in Requests \ {r} : request'[q] = request[q]
         /\ UNCHANGED <<server, routes, used, clients>>
<1> DEFINE Local ==
  /\ DOMAIN request' = Requests
  /\ \A q \in Requests \ {r} : request'[q] = request[q]
<1>1. ASSUME NEW reply, Answered(r, reply) PROVE Local
  BY <1>1 DEF RequestsInv, Answered, End
<1>2. ASSUME End(r) PROVE Local
  BY <1>2 DEF RequestsInv, End
<1>3. ASSUME NEW stage, NEW k, Goto(r, stage, k) PROVE Local
  BY <1>3 DEF RequestsInv, Goto
<1>4. CASE Arrive(r) \/ GetDestination(r)
  BY <1>4 DEF RequestsInv, Arrive, GetDestination
<1>5. CASE NoMatchFound(r) \/ Refuse(r) \/ GetRoute(r)
  <2>1. CASE NoMatchFound(r)
    BY <1>1, <2>1 DEF NoMatchFound
  <2>2. CASE Refuse(r)
    BY <1>1, <2>2 DEF Refuse
  <2>3. CASE GetRoute(r)
    BY <1>1, <1>3, <2>3 DEF GetRoute
  <2> QED BY <1>5, <2>1, <2>2, <2>3
<1>6. CASE Allow(r) \/ Record(r) \/ Handle(r) \/ Answer(r)
  BY <1>6 DEF RequestsInv, Allow, Record, Handle, Answer
<1>7. CASE Preflight(r) \/ Upgrade(r) \/ Timeout(r) \/ Fail(r) \/ BreakOff(r) \/ Return(r)
  BY <1>1, <1>7 DEF Preflight, Upgrade, Timeout, Fail, BreakOff, Return
<1>8. CASE Respond(r)
  BY <1>1, <1>3, <1>8 DEF Respond
<1>9. CASE Deliver(r) \/ GrpcEnd(r) \/ TcpEnd(r)
  BY <1>2, <1>9 DEF Deliver, GrpcEnd, TcpEnd
<1>10. CASE TcpAccept(r)
  BY <1>10 DEF RequestsInv, TcpAccept
<1>11. CASE TcpSpawn(r) \/ TcpConnect(r)
  BY <1>2, <1>3, <1>11 DEF TcpSpawn, TcpConnect
<1> QED BY <1>4, <1>5, <1>6, <1>7, <1>8, <1>9, <1>10, <1>11 DEF Step

\* An answer that describes its body ends the request.
LEMMA AnsweredEnds ==
  ASSUME RequestsInv, NEW r \in Requests, NEW reply, ReplyOK(reply), Answered(r, reply)
  PROVE  Ended(r)
BY DEF RequestsInv, Answered, End, Ended

LEMMA EndEnds ==
  ASSUME RequestsInv, NEW r \in Requests, End(r)
  PROVE  Ended(r)
BY DEF RequestsInv, End, Ended

LEMMA GotoBecomes ==
  ASSUME RequestsInv, NEW r \in Requests, NEW stage, NEW k, Goto(r, stage, k)
  PROVE  Becomes(r, stage, k, request[r].reply)
BY DEF RequestsInv, RequestOK, Goto, Becomes, Fields, Route

LEMMA BestMatchServes ==
  ASSUME RoutesInv, NEW h \in DOMAIN Heads, BestMatch(h) # NoRoute
  PROVE  BestMatch(h) \in Range(routes)
<1>1. routes \in Seq(Versions)
  BY DEF RoutesInv
<1>2. PICK k \in 1..Len(routes) : BestMatch(h) = routes[k]
  BY <1>1, BestMatchIsFirstLongest DEF FirstLongest
<1> QED BY <1>1, <1>2 DEF Range

\* Whatever comes back describes its body, and a failed call is not transcoded.
LEMMA OutcomeReply ==
  ASSUME NEW v \in Versions, NEW reply \in Outcomes(v)
  PROVE  ReplyOK(reply) /\ (Dest(v) = "grpc" => Success(reply))
<1>1. CASE Dest(v) = "grpc"
  BY <1>1, TranscodedReply DEF Outcomes
<1>2. CASE Dest(v) # "grpc"
  <2>1. \/ reply = NoReply
        \/ \E answer \in Replies : reply = answer \/ reply = Streamed(answer)
    BY <1>2, ConfigAssumption DEF Outcomes
  <2>2. \A answer \in Replies : ReplyOK(answer)
    BY ReplyAssumption DEF ReplyOK, BodyShape, NoBody
  <2> QED BY <1>2, <2>1, <2>2, OpenedReply, OwnReply DEF NoReply, Streamed
<1> QED BY <1>1, <1>2

\* A step is a check that passes, an outcome that is recorded, or one of these;
\* that of a TCP listener without routes changes no request.
Turns(r) ==
  \/ Arrived(r) \/ Started(r) \/ Ended(r) \/ MovedOn(r) \/ Outcome(r)
  \/ Responded(r) \/ Handled(r) \/ request' = request

LEMMA AllowPasses ==
  ASSUME RequestsInv, NEW r \in Requests, Allow(r)
  PROVE  Passed(r)
BY DEF Allow, Passed, Becomes, RequestsInv, RequestOK, Fields, Route, InChain, Stage

LEMMA RecordNotes ==
  ASSUME RequestsInv, NEW r \in Requests, Record(r)
  PROVE  Noted(r)
BY DEF Record, Noted, Recording, Becomes, RequestsInv, RequestOK, Fields, Route, Stage

LEMMA OtherStepsTurn ==
  ASSUME IInv, NEW r \in Requests, Step(r), ~Allow(r), ~Record(r)
  PROVE  Turns(r)
<1> USE DEF IInv
<1>0. request[r].head \in Sends[r] => request[r].head \in DOMAIN Heads
  BY ConfigAssumption
<1>1. CASE GetDestination(r)
  <2> DEFINE h == request[r].head
  <2>1. /\ Stage(r) = "waiting" /\ BestMatch(h) # NoRoute
        /\ request'[r] = Checking(BestMatch(h), h)
    BY <1>1 DEF RequestsInv, GetDestination
  <2>2. h \in Sends[r]
    BY <2>1 DEF RequestsInv, RequestOK
  <2>3. BestMatch(h) \in Range(routes)
    BY <1>0, <2>1, <2>2, BestMatchServes
  <2> QED BY <2>1, <2>2, <2>3 DEF Started, Turns
<1>2. CASE NoMatchFound(r) \/ Refuse(r) \/ Timeout(r) \/ Fail(r) \/ Upgrade(r) \/ BreakOff(r)
  <2>1. \E status : Answered(r, Reply(status))
    <3>1. CASE NoMatchFound(r) \/ Timeout(r) \/ Fail(r) \/ BreakOff(r)
      BY <3>1 DEF NoMatchFound, Timeout, Fail, BreakOff
    <3>2. CASE Refuse(r)
      BY <3>2 DEF Refuse
    <3>3. CASE Upgrade(r)
      BY <3>3 DEF Upgrade
    <3> QED BY <1>2, <3>1, <3>2, <3>3
  <2> QED BY <2>1, OwnReply, AnsweredEnds DEF Turns
<1>3. CASE Deliver(r) \/ GrpcEnd(r) \/ TcpEnd(r)
  BY <1>3, EndEnds DEF Deliver, GrpcEnd, TcpEnd, Turns
<1>4. CASE Preflight(r)
  BY <1>4, PreflightReply, AnsweredEnds DEF Preflight, Turns
<1>5. CASE Return(r)
  <2>1. ReplyOK(request[r].reply)
    BY <1>5 DEF Return, RequestsInv, ReplyOnItsWay
  <2> QED BY <1>5, <2>1, AnsweredEnds DEF Return, Turns
<1>6. CASE GetRoute(r) \/ TcpSpawn(r) \/ TcpConnect(r)
  <2>1. ASSUME AllAllowed(r), NEW stage \in {"connecting", "upstream"}, Goto(r, stage, 1)
        PROVE  MovedOn(r)
    BY <2>1, GotoBecomes DEF MovedOn
  <2>2. ASSUME Stage(r) = "connecting", Goto(r, "upstream", 1) PROVE MovedOn(r)
    BY <2>2, GotoBecomes DEF MovedOn
  <2>3. ASSUME NEW status, Answered(r, Reply(status)) PROVE Ended(r)
    BY <2>3, OwnReply, AnsweredEnds
  <2>4. End(r) => Ended(r)
    BY EndEnds
  <2> QED BY <1>6, <2>1, <2>2, <2>3, <2>4 DEF GetRoute, TcpSpawn, TcpConnect, Turns
<1>7. CASE Answer(r)
  <2>1. PICK reply \in Outcomes(Route(r)) :
          request' = [request EXCEPT ![r].stage = "recording", ![r].reply = reply,
                                     ![r].k = Seek(Middlewares(r), Recorded, 1)]
    BY <1>7 DEF Answer
  <2>2. Stage(r) = "upstream"
    BY <1>7 DEF Answer, Dispatched, Forwarded, Exchanging
  <2>3. Route(r) \in Versions
    BY <2>2 DEF RoutesInv, RequestsInv, RequestOK
  <2>4. ReplyOK(reply) /\ (Dest(Route(r)) = "grpc" => Success(reply))
    BY <2>1, <2>3, OutcomeReply
  <2>5. Becomes(r, "recording", Seek(Middlewares(r), Recorded, 1), reply)
    BY <2>1 DEF Becomes, RequestsInv, RequestOK, Fields, Route
  <2> QED BY <2>4, <2>2, <2>5 DEF Outcome, Turns
<1>8. CASE Respond(r)
  <2>1. CASE Answered(r, Reply(500))
    BY <2>1, OwnReply, AnsweredEnds DEF Turns
  <2>2. CASE Goto(r, "responding", Seek(Middlewares(r), Responds, 1))
    BY <1>8, <2>2, GotoBecomes DEF Respond, Responded, Turns
  <2> QED BY <1>8, <2>1, <2>2 DEF Respond
<1>9. CASE Handle(r)
  <2> DEFINE reply == HandleResponse(Current(r), Inbound(r), RequestPath(r), request[r].reply)
  <2>1. ReplyOK(reply)
    BY <1>9, HandledReply DEF Handle, Responding, RequestsInv, ReplyOnItsWay
  <2>2. request' = [request EXCEPT ![r].k = Seek(Middlewares(r), Responds, request[r].k + 1),
                                   ![r].reply = reply]
    BY <1>9, Zenon DEF Handle
  <2> HIDE DEF reply
  <2>3. Becomes(r, "responding", Seek(Middlewares(r), Responds, request[r].k + 1), reply)
    BY <1>9, <2>2 DEF Handle, Responding, Becomes, RequestsInv, RequestOK, Fields, Route, Stage
  <2> QED BY <1>9, <2>1, <2>3 DEF Handle, Handled, Turns
<1>10. CASE TcpAccept(r)
  <2>1. CASE UNCHANGED request
    BY <2>1 DEF Turns
  <2>2. CASE routes # <<>> /\ \E h \in Sends[r] : request' = [request EXCEPT ![r] = Checking(routes[1], h)]
    <3>1. routes[1] \in Range(routes)
      BY <2>2 DEF RoutesInv, Range
    <3> QED BY <1>10, <2>2, <3>1 DEF TcpAccept, RequestsInv, Started, Turns
  <2> QED BY <1>10, <2>1, <2>2 DEF TcpAccept
<1>11. CASE Arrive(r)
  BY <1>11 DEF Arrive, RequestsInv, Arrived, Turns
<1> QED BY <1>1, <1>2, <1>3, <1>4, <1>5, <1>6, <1>7, <1>8, <1>9, <1>10, <1>11 DEF Step

Moves(r) == Turns(r) \/ Passed(r) \/ Noted(r)

LEMMA StepTransition ==
  ASSUME IInv, NEW r \in Requests, Step(r)
  PROVE  Moves(r)
BY AllowPasses, RecordNotes, OtherStepsTurn DEF IInv, Moves

\* A breaker changes where a check finds its cool-down over and where an
\* outcome is recorded.
LEMMA OtherStepsKeepBreakers ==
  ASSUME NEW r \in Requests, Step(r), ~Allow(r), ~Record(r)
  PROVE  UNCHANGED breaker
BY DEF Step, Arrive, GetDestination, NoMatchFound, Refuse, GetRoute, Preflight, Upgrade,
       Answer, Timeout, Fail, Respond, Handle, BreakOff, Return, Deliver, GrpcEnd,
       TcpAccept, TcpSpawn, TcpConnect, TcpEnd

-----------------------------------------------------------------------------
(* The invariant is kept: requests *)

\* A middleware without a check of its own lets everything through.
LEMMA UncheckedAdmits ==
  ASSUME NEW mw, NEW head, mw.kind \notin Checked
  PROVE  CheckRequest(mw, head) = Allowed
BY DEF Checked, CheckRequest

LEMMA StartedKeeps ==
  ASSUME IInv, NEW r \in Requests, Started(r), UNCHANGED <<server, used>>
  PROVE  (RequestOK(r) /\ AdmittedSoFar(r) /\ ReplyOnItsWay(r))'
<1>1. PICK v \in Range(routes), h \in Sends[r] : request'[r] = Checking(v, h)
  BY DEF Started
<1>2. v \in used /\ v \in Versions
  BY <1>1 DEF IInv, RoutesInv
<1> DEFINE k == Seek(Chain(v), Checked, 1)
<1>3. /\ Chain(v) \in Seq(Range(Chain(v))) /\ Len(Chain(v)) \in Nat
      /\ DOMAIN Chain(v) = 1..Len(Chain(v))
  BY <1>2, ChainIsSeq
<1>4. /\ k \in 1..(Len(Chain(v)) + 1)
      /\ \A j \in DOMAIN Chain(v) : j >= 1 /\ j < k => Chain(v)[j].kind \notin Checked
  BY <1>3, SeekFirst
<1>5. request'[r] = [stage |-> "checking", route |-> v, k |-> k, head |-> h, reply |-> NoReply]
  BY <1>1 DEF Checking
<1> HIDE DEF k
<1>6. RequestOK(r)'
  BY <1>2, <1>4, <1>5 DEF RequestOK, Stage, Stages, Fields, Route, Middlewares
<1>7. ASSUME NEW j \in DOMAIN Chain(v), j < k PROVE Admits(v, j, h)'
  <2>1. Chain(v)[j].kind \notin Checked
    BY <1>3, <1>4, <1>7
  <2>2. CheckRequest(Chain(v)[j], Heads[h]) = Allowed
    BY <2>1, UncheckedAdmits
  <2> QED BY <2>2 DEF Admits
<1>8. AdmittedSoFar(r)'
  BY <1>5, <1>7 DEF AdmittedSoFar, Stage, Route, Middlewares
<1>9. ReplyOnItsWay(r)'
  BY <1>5 DEF ReplyOnItsWay, Stage
<1> QED BY <1>6, <1>8, <1>9

LEMMA ArrivedKeeps ==
  ASSUME NEW r \in Requests, Arrived(r), UNCHANGED server
  PROVE  (RequestOK(r) /\ AdmittedSoFar(r) /\ ReplyOnItsWay(r))'
<1>1. PICK h \in Sends[r] : request'[r] = [Idle EXCEPT !.stage = "waiting", !.head = h]
  BY DEF Arrived
<1>2. /\ DOMAIN request'[r] = Fields /\ Stage(r)' = "waiting" /\ request'[r].head = h
      /\ server' # "tcp"
  BY <1>1 DEF Arrived, Idle, Fields, Stage
<1> QED BY <1>2 DEF RequestOK, AdmittedSoFar, ReplyOnItsWay, Stages, PastChecks

LEMMA EndedKeeps ==
  ASSUME NEW r \in Requests, Ended(r)
  PROVE  (RequestOK(r) /\ AdmittedSoFar(r) /\ ReplyOnItsWay(r))'
<1>1. CASE request'[r] = Idle
  BY <1>1 DEF Idle, RequestOK, AdmittedSoFar, ReplyOnItsWay, Stage, Stages, Fields, PastChecks
<1>2. CASE \E reply : /\ ReplyOK(reply)
                     /\ request'[r] = [Idle EXCEPT !.stage = "answered", !.reply = reply]
  <2>1. PICK reply : /\ ReplyOK(reply)
                     /\ request'[r] = [Idle EXCEPT !.stage = "answered", !.reply = reply]
    BY <1>2
  <2>2. /\ DOMAIN request'[r] = Fields
        /\ Stage(r)' = "answered" /\ request'[r].reply = reply
    BY <2>1 DEF Idle, Fields, Stage
  <2>3. ReplyOnItsWay(r)'
    BY <2>1, <2>2 DEF ReplyOnItsWay, ReplyOK
  <2> QED BY <2>2, <2>3 DEF RequestOK, AdmittedSoFar, Stages, PastChecks
<1> QED BY <1>1, <1>2 DEF Ended

\* What the routes of requests on their way are like.
LEMMA RouteOfRequest ==
  ASSUME IInv, NEW r \in Requests, Stage(r) \notin {"idle", "waiting", "answered"}
  PROVE  /\ Route(r) \in used /\ Route(r) \in Versions
         /\ request[r].k \in 1..(Len(Middlewares(r)) + 1)
         /\ Middlewares(r) \in Seq(Range(Middlewares(r)))
         /\ Len(Middlewares(r)) \in Nat /\ DOMAIN Middlewares(r) = 1..Len(Middlewares(r))
BY ChainIsSeq DEF IInv, RoutesInv, RequestsInv, RequestOK, Middlewares

LEMMA PassedKeeps ==
  ASSUME IInv, NEW r \in Requests, Passed(r), UNCHANGED <<server, used>>
  PROVE  (RequestOK(r) /\ AdmittedSoFar(r) /\ ReplyOnItsWay(r))'
<1>0. PICK v, h, k, next :
        v = Route(r) /\ h = request[r].head /\ k = request[r].k /\ next = Rest(r)
  OBVIOUS
<1>1. /\ Stage(r) = "checking" /\ k \in DOMAIN Chain(v) /\ Verdict(r) = Allowed
      /\ Becomes(r, "checking", next, request[r].reply)
  BY <1>0 DEF Passed, InChain, Middlewares
<1>2. /\ v \in used /\ v \in Versions
      /\ Chain(v) \in Seq(Range(Chain(v))) /\ Len(Chain(v)) \in Nat
      /\ DOMAIN Chain(v) = 1..Len(Chain(v))
  BY <1>0, <1>1, RouteOfRequest DEF Middlewares
<1>3. /\ next \in (k + 1)..(Len(Chain(v)) + 1)
      /\ \A j \in DOMAIN Chain(v) : j >= k + 1 /\ j < next => Chain(v)[j].kind \notin Checked
  <2>1. k + 1 \in 1..(Len(Chain(v)) + 1)
    BY <1>1, <1>2
  <2> QED BY <1>0, <1>2, <2>1, SeekFirst DEF Rest, Middlewares
<1>4. /\ DOMAIN request'[r] = Fields
      /\ Stage(r)' = "checking" /\ Route(r)' = v /\ request'[r].k = next
      /\ request'[r].head = h
  BY <1>0, <1>1 DEF Becomes, Stage, Route
<1>5. RequestOK(r) /\ AdmittedSoFar(r)
  BY DEF IInv, RequestsInv
<1>6. RequestOK(r)'
  BY <1>0, <1>1, <1>2, <1>3, <1>4, <1>5 DEF RequestOK, Middlewares, Stages
<1>7. ASSUME NEW j \in DOMAIN Chain(v), j < next PROVE Admits(v, j, h)'
  <2>1. CASE j < k
    BY <1>0, <1>1, <1>5, <2>1 DEF AdmittedSoFar, Admits, Middlewares
  <2>2. CASE j = k
    BY <1>0, <1>1, <2>2 DEF Verdict, Admits, Current, Inbound, Middlewares
  <2>3. CASE j > k
    <3>1. Chain(v)[j].kind \notin Checked
      BY <1>1, <1>2, <1>3, <1>7, <2>3
    <3> QED BY <3>1, UncheckedAdmits DEF Admits
  <2> QED BY <1>1, <1>2, <2>1, <2>2, <2>3
<1>8. AdmittedSoFar(r)'
  BY <1>4, <1>7 DEF AdmittedSoFar, Middlewares
<1>9. ReplyOnItsWay(r)'
  BY <1>4 DEF ReplyOnItsWay
<1> QED BY <1>6, <1>8, <1>9

\* A request at the end of its checks, or past it, has been let through by all.
LEMMA AllAdmit ==
  ASSUME IInv, NEW r \in Requests, Stage(r) \in PastChecks \/ AllAllowed(r)
  PROVE  \A k \in DOMAIN Middlewares(r) : Admits(Route(r), k, request[r].head)
<1>1. Stage(r) \notin {"idle", "waiting", "answered"}
  BY DEF AllAllowed, PastChecks
<1>2. /\ request[r].k \in 1..(Len(Middlewares(r)) + 1)
      /\ Len(Middlewares(r)) \in Nat /\ DOMAIN Middlewares(r) = 1..Len(Middlewares(r))
  BY <1>1, RouteOfRequest
<1>3. ASSUME NEW k \in DOMAIN Middlewares(r), AllAllowed(r) PROVE k < request[r].k
  BY <1>2, <1>3 DEF AllAllowed
<1>4. AdmittedSoFar(r)
  BY DEF IInv, RequestsInv
<1> QED BY <1>3, <1>4 DEF AdmittedSoFar, AllAllowed, PastChecks

\* The rest of its way keeps what it has been admitted by.
LEMMA BecomesKeeps ==
  ASSUME IInv, NEW r \in Requests, UNCHANGED <<server, used>>,
         Stage(r) \in PastChecks \/ AllAllowed(r),
         NEW stage \in PastChecks, NEW k \in 1..(Len(Middlewares(r)) + 1), NEW reply,
         Becomes(r, stage, k, reply),
         stage = "recording" /\ Dest(Route(r)) = "grpc" => Success(reply),
         stage \in {"recording", "responding"} => ReplyOK(reply)
  PROVE  (RequestOK(r) /\ AdmittedSoFar(r) /\ ReplyOnItsWay(r))'
<1>1. Stage(r) \notin {"idle", "waiting", "answered"}
  BY DEF AllAllowed, PastChecks
<1>2. PICK v, h : v = Route(r) /\ h = request[r].head
  OBVIOUS
<1>3. /\ DOMAIN request'[r] = Fields
      /\ Stage(r)' = stage /\ Route(r)' = v /\ request'[r].k = k
      /\ request'[r].head = h /\ request'[r].reply = reply
  BY <1>2 DEF Becomes, Stage, Route
<1>4. v \in used /\ h \in Sends[r] /\ k \in 1..(Len(Chain(v)) + 1)
  BY <1>1, <1>2 DEF IInv, RequestsInv, RequestOK, Middlewares
<1>5. RequestOK(r)'
  BY <1>2, <1>3, <1>4 DEF RequestOK, Middlewares, Stages, PastChecks
<1>6. ASSUME NEW j \in DOMAIN Chain(v) PROVE Admits(v, j, h)'
  <2>1. Admits(v, j, h)
    BY <1>2, AllAdmit DEF Middlewares
  <2> QED BY <2>1 DEF Admits
<1>7. AdmittedSoFar(r)'
  BY <1>3, <1>6 DEF AdmittedSoFar, Middlewares, PastChecks
<1>8. ReplyOnItsWay(r)'
  BY <1>3 DEF ReplyOnItsWay, ReplyOK, PastChecks
<1> QED BY <1>5, <1>7, <1>8

LEMMA MovesKeep ==
  ASSUME IInv, NEW r \in Requests, Moves(r), UNCHANGED <<server, used>>
  PROVE  (RequestOK(r) /\ AdmittedSoFar(r) /\ ReplyOnItsWay(r))'
<1> DEFINE Keeps == (RequestOK(r) /\ AdmittedSoFar(r) /\ ReplyOnItsWay(r))'
<1> DEFINE way == Middlewares(r)
<1>1. ReplyOnItsWay(r)
  BY DEF IInv, RequestsInv
<1>2. ASSUME Stage(r) \notin {"idle", "waiting", "answered"}
      PROVE  /\ way \in Seq(Range(way)) /\ Len(way) \in Nat /\ DOMAIN way = 1..Len(way)
             /\ 1 \in 1..(Len(way) + 1)
             /\ Seek(way, Recorded, 1) \in 1..(Len(way) + 1)
             /\ Seek(way, Responds, 1) \in 1..(Len(way) + 1)
             /\ request[r].k \in 1..(Len(way) + 1)
  <2>1. /\ way \in Seq(Range(way)) /\ Len(way) \in Nat /\ DOMAIN way = 1..Len(way)
        /\ request[r].k \in 1..(Len(way) + 1)
    BY <1>2, RouteOfRequest
  <2>2. 1 \in 1..(Len(way) + 1)
    BY <2>1
  <2> HIDE DEF way
  <2> QED BY <2>1, <2>2, SeekFirst
<1>3. ASSUME Stage(r) \notin {"idle", "waiting", "answered"}, request[r].k \in DOMAIN way, NEW kinds
      PROVE  Seek(way, kinds, request[r].k + 1) \in 1..(Len(way) + 1)
  <2>1. request[r].k + 1 \in 1..(Len(way) + 1)
    BY <1>2, <1>3
  <2> HIDE DEF way
  <2>2. Seek(way, kinds, request[r].k + 1) \in (request[r].k + 1)..(Len(way) + 1)
    BY <1>2, <1>3, <2>1, SeekFirst
  <2> QED BY <1>2, <1>3, <2>1, <2>2
<1> HIDE DEF way
<1>4. CASE Arrived(r) \/ Started(r)
  BY <1>4, ArrivedKeeps, StartedKeeps
<1>5. CASE Ended(r)
  BY <1>5, EndedKeeps
<1>6. CASE Passed(r)
  BY <1>6, PassedKeeps
<1>7. CASE MovedOn(r)
  BY <1>2, <1>7, BecomesKeeps DEF MovedOn, AllAllowed, PastChecks, way
<1>8. CASE Outcome(r)
  BY <1>2, <1>8, BecomesKeeps DEF Outcome, PastChecks, way
<1>9. CASE Noted(r)
  <2>1. Dest(Route(r)) = "grpc" => Success(request[r].reply)
    BY <1>9 DEF Noted, Recording, IInv, RequestsInv, RequestOK
  <2> QED BY <1>1, <1>3, <1>9, <2>1, BecomesKeeps DEF Noted, Recording, ReplyOnItsWay, PastChecks, way
<1>10. CASE Responded(r)
  BY <1>1, <1>2, <1>10, BecomesKeeps DEF Responded, ReplyOnItsWay, PastChecks, way
<1>11. CASE Handled(r)
  BY <1>3, <1>11, BecomesKeeps DEF Handled, Responding, PastChecks, way
<1>12. CASE request' = request
  BY <1>12 DEF IInv, RequestsInv, RequestOK, AdmittedSoFar, ReplyOnItsWay, ReplyOK,
              Admits, Stage, Route, Middlewares
<1> QED BY <1>4, <1>5, <1>6, <1>7, <1>8, <1>9, <1>10, <1>11, <1>12 DEF Moves, Turns

LEMMA StepKeepsRequests ==
  ASSUME IInv, NEW r \in Requests, Step(r)
  PROVE  RequestsInv'
<1>1. /\ DOMAIN request' = Requests
      /\ \A q \in Requests \ {r} : request'[q] = request[q]
      /\ UNCHANGED <<server, routes, used, clients>>
  BY StepIsLocal DEF IInv
<1>2. (RequestOK(r) /\ AdmittedSoFar(r) /\ ReplyOnItsWay(r))'
  BY <1>1, StepTransition, MovesKeep
<1>3. ASSUME NEW q \in Requests \ {r}
      PROVE  (RequestOK(q) /\ AdmittedSoFar(q) /\ ReplyOnItsWay(q))'
  BY <1>1 DEF IInv, RequestsInv, RequestOK, AdmittedSoFar, ReplyOnItsWay, ReplyOK,
              Admits, Stage, Route, Middlewares
<1> QED BY <1>1, <1>2, <1>3 DEF RequestsInv

-----------------------------------------------------------------------------
(* The invariant is kept: the mutex and the accept loop *)

\* An end of a request: it is idle or answered then.
LEMMA AnsweredStage ==
  ASSUME RequestsInv, NEW r \in Requests, NEW reply, Answered(r, reply) \/ End(r)
  PROVE  Stage(r)' \in {"idle", "answered"}
<1>1. CASE End(r)
  BY <1>1 DEF RequestsInv, End, Idle, Stage
<1>2. CASE Answered(r, reply)
  BY <1>1, <1>2 DEF RequestsInv, Answered, Idle, Stage
<1> QED BY <1>1, <1>2

\* The mutex is taken with the match, kept from middleware to middleware, and
\* let go where a request leaves its checks.
LEMMA StepKeepsLock ==
  ASSUME IInv, NEW r \in Requests, Step(r)
  PROVE  LockInv'
<1>1. /\ RequestsInv /\ LockInv /\ Free \notin Requests
      /\ DOMAIN request' = Requests
      /\ \A q \in Requests \ {r} : request'[q] = request[q]
      /\ server' = server
  BY StepIsLocal, ConfigAssumption DEF IInv
<1>2. \A q \in Requests \ {r} : Stage(q)' = Stage(q)
  BY <1>1 DEF Stage
<1>3. ASSUME Stage(r)' # "checking", Stage(r) # "checking", UNCHANGED holder
      PROVE  LockInv'
  BY <1>1, <1>2, <1>3 DEF LockInv
<1>4. ASSUME Stage(r)' # "checking", Unlocked(r) PROVE LockInv'
  BY <1>1, <1>2, <1>4 DEF LockInv, Unlocked
<1>5. ASSUME Stage(r)' = "checking", Stage(r) = "checking", UNCHANGED holder
      PROVE  LockInv'
  BY <1>1, <1>2, <1>5 DEF LockInv
<1>6. ASSUME server = "tcp", UNCHANGED holder PROVE LockInv'
  BY <1>1, <1>6 DEF LockInv
<1>7. ASSUME NEW stage, NEW k, Goto(r, stage, k) PROVE Stage(r)' = stage
  BY <1>7, GotoBecomes, <1>1 DEF Becomes, Stage
<1>8. CASE GetDestination(r)
  <2>1. Stage(r)' = "checking" /\ holder = Free /\ holder' = r /\ server # "tcp"
    BY <1>1, <1>8 DEF RequestsInv, RequestOK, GetDestination, Checking, Stage
  <2> QED BY <1>1, <1>2, <2>1 DEF LockInv
<1>9. CASE NoMatchFound(r) \/ Arrive(r)
  <2>1. Stage(r)' # "checking" /\ Stage(r) # "checking" /\ UNCHANGED holder
    <3>1. CASE NoMatchFound(r)
      BY <1>1, <3>1, AnsweredStage DEF NoMatchFound
    <3>2. CASE Arrive(r)
      BY <1>1, <3>2 DEF Arrive, RequestsInv, Idle, Stage
    <3> QED BY <1>9, <3>1, <3>2
  <2> QED BY <1>3, <2>1
<1>10. CASE Allow(r)
  <2>1. Stage(r)' = "checking" /\ Stage(r) = "checking" /\ UNCHANGED holder
    BY <1>1, <1>10 DEF RequestsInv, RequestOK, Fields, Allow, InChain, Stage
  <2> QED BY <1>5, <2>1
<1>11. CASE Refuse(r) \/ GetRoute(r)
  <2>1. Stage(r)' # "checking" /\ Unlocked(r)
    BY <1>1, <1>7, <1>11, AnsweredStage DEF Refuse, GetRoute
  <2> QED BY <1>4, <2>1
<1>12. CASE Preflight(r) \/ Upgrade(r) \/ Timeout(r) \/ Fail(r)
  <2>1. Stage(r)' # "checking" /\ Stage(r) # "checking" /\ UNCHANGED holder
    BY <1>1, <1>12, AnsweredStage
       DEF Preflight, Upgrade, Timeout, Fail, Dispatched, Forwarded, Exchanging
  <2> QED BY <1>3, <2>1
<1>13. CASE BreakOff(r) \/ Return(r) \/ Deliver(r) \/ GrpcEnd(r)
  <2>1. Stage(r)' # "checking" /\ Stage(r) # "checking" /\ UNCHANGED holder
    BY <1>1, <1>13, AnsweredStage DEF BreakOff, Responding, Return, Deliver, GrpcEnd
  <2> QED BY <1>3, <2>1
<1>14. CASE Answer(r) \/ Record(r) \/ Handle(r)
  <2>1. Stage(r)' \in {Stage(r), "recording"}
    <3>1. CASE Answer(r)
      BY <1>1, <3>1 DEF Answer, RequestsInv, RequestOK, Fields, Stage
    <3>2. CASE Record(r)
      BY <1>1, <3>2 DEF Record, RequestsInv, RequestOK, Fields, Stage
    <3>3. CASE Handle(r)
      <4>1. PICK k, reply : request' = [request EXCEPT ![r].k = k, ![r].reply = reply]
        BY <3>3, Zenon DEF Handle
      <4> QED BY <1>1, <4>1 DEF RequestsInv, RequestOK, Fields, Stage
    <3> QED BY <1>14, <3>1, <3>2, <3>3
  <2>2. Stage(r) # "checking" /\ UNCHANGED holder
    BY <1>14 DEF Answer, Record, Handle, Responding, Dispatched, Forwarded, Exchanging
  <2> QED BY <1>3, <2>1, <2>2
<1>15. CASE Respond(r)
  <2>1. Stage(r)' # "checking" /\ Stage(r) # "checking" /\ UNCHANGED holder
    BY <1>1, <1>7, <1>15, AnsweredStage DEF Respond
  <2> QED BY <1>3, <2>1
<1>16. CASE TcpAccept(r) \/ TcpSpawn(r) \/ TcpEnd(r)
  BY <1>6, <1>16 DEF TcpAccept, TcpSpawn, TcpEnd
<1>17. CASE TcpConnect(r)
  <2>1. Stage(r)' # "checking" /\ Stage(r) # "checking" /\ UNCHANGED holder
    BY <1>1, <1>7, <1>17, AnsweredStage DEF TcpConnect
  <2> QED BY <1>3, <2>1
<1> QED BY <1>8, <1>9, <1>10, <1>11, <1>12, <1>13, <1>14, <1>15, <1>16, <1>17 DEF Step

LEMMA StepKeepsRoutes ==
  ASSUME IInv, NEW r \in Requests, Step(r)
  PROVE  RoutesInv'
<1>1. UNCHANGED <<server, routes, used, clients>>
  BY StepIsLocal DEF IInv
<1>2. accepting' \in BOOLEAN
  <2>1. accepting \in BOOLEAN
    BY DEF IInv, RoutesInv
  <2>2. CASE Refuse(r)
    BY <2>1, <2>2 DEF Refuse
  <2>3. CASE TcpAccept(r) \/ TcpSpawn(r) \/ TcpConnect(r) \/ TcpEnd(r)
    BY <2>1, <2>3 DEF TcpAccept, TcpSpawn, TcpConnect, TcpEnd
  <2>4. CASE Preflight(r) \/ Upgrade(r) \/ Answer(r) \/ Timeout(r) \/ Fail(r) \/ Record(r)
    BY <2>1, <2>4 DEF Preflight, Upgrade, Answer, Timeout, Fail, Record
  <2>5. CASE Respond(r) \/ Handle(r) \/ BreakOff(r) \/ Return(r) \/ Deliver(r) \/ GrpcEnd(r)
    BY <2>1, <2>5 DEF Respond, Handle, BreakOff, Return, Deliver, GrpcEnd
  <2>6. CASE Arrive(r) \/ GetDestination(r) \/ NoMatchFound(r) \/ Allow(r) \/ GetRoute(r)
    BY <2>1, <2>6 DEF Arrive, GetDestination, NoMatchFound, Allow, GetRoute
  <2> QED BY <2>2, <2>3, <2>4, <2>5, <2>6 DEF Step
<1> QED BY <1>1, <1>2 DEF IInv, RoutesInv

-----------------------------------------------------------------------------
(* The invariant is kept: breakers *)

States ==
  {s \in [mode : {"Closed", "Open", "HalfOpen"}, wait : 0..OpenDuration] :
     s.mode # "Open" => s.wait = 0}

LEMMA BreakerStates ==
  BreakersInv <=> breaker \in [Breakers -> States]
BY DEF BreakersInv, States

LEMMA AfterOutcomeStates ==
  ASSUME NEW state \in States, NEW ok
  PROVE  AfterOutcome(state, ok) \subseteq States
<1>1. OpenDuration \in Nat
  BY ConfigAssumption
<1>2. Tripped \in States
  BY <1>1 DEF Tripped, States
<1>3. state.mode = "HalfOpen" => [state EXCEPT !.mode = "Closed"] \in States
  BY DEF States
<1>4. state.mode \in {"Closed", "Open", "HalfOpen"}
  BY DEF States
<1> QED BY <1>2, <1>3, <1>4 DEF AfterOutcome

LEMMA StepKeepsBreakers ==
  ASSUME IInv, NEW r \in Requests, Step(r)
  PROVE  BreakersInv'
<1>1. breaker \in [Breakers -> States]
  BY BreakerStates DEF IInv
<1>2. ASSUME NEW b, NEW s \in States, breaker' = [breaker EXCEPT ![b] = s]
      PROVE  BreakersInv'
  <2>1. breaker' \in [Breakers -> States]
    BY <1>1, <1>2
  <2> QED BY <2>1 DEF BreakersInv, States
<1>3. ASSUME UNCHANGED breaker PROVE BreakersInv'
  BY <1>3 DEF IInv, BreakersInv
<1>4. CASE Allow(r)
  <2>1. CASE UNCHANGED breaker
    BY <1>3, <2>1
  <2>2. CASE ~UNCHANGED breaker
    <3>1. PICK b : /\ breaker[b].mode = "Open" /\ breaker[b].wait = 0
                   /\ breaker' = [breaker EXCEPT ![b].mode = "HalfOpen"]
      BY <1>4, <2>2 DEF Allow, BreakerAdmits
    <3>2. CASE b \in Breakers
      <4>1. [breaker[b] EXCEPT !.mode = "HalfOpen"] \in States
        BY <1>1, <3>1, <3>2 DEF States
      <4> QED BY <1>2, <3>1, <4>1
    <3>3. CASE b \notin Breakers
      BY <1>1, <1>3, <3>1, <3>3
    <3> QED BY <3>2, <3>3
  <2> QED BY <2>1, <2>2
<1>5. CASE Record(r)
  <2>1. CASE Observer(r) \in Breakers
    <3>1. breaker[Observer(r)] \in States
      BY <1>1, <2>1
    <3>2. PICK s \in AfterOutcome(breaker[Observer(r)], Success(request[r].reply)) :
            breaker' = [breaker EXCEPT ![Observer(r)] = s]
      BY <1>5, <2>1 DEF Record
    <3> QED BY <1>2, <3>1, <3>2, AfterOutcomeStates
  <2>2. CASE Observer(r) \notin Breakers
    BY <1>3, <1>5, <2>2 DEF Record
  <2> QED BY <2>1, <2>2
<1>6. CASE ~Allow(r) /\ ~Record(r)
  <2>1. UNCHANGED breaker
    BY <1>6, OtherStepsKeepBreakers
  <2> QED BY <1>3, <2>1
<1> QED BY <1>4, <1>5, <1>6

LEMMA TickKeeps ==
  ASSUME IInv, Tick
  PROVE  IInv'
<1>1. breaker \in [Breakers -> States]
  BY BreakerStates DEF IInv
<1>2. ASSUME NEW s \in States
      PROVE  [s EXCEPT !.wait = IF @ > 0 THEN @ - 1 ELSE 0] \in States
  BY ConfigAssumption DEF States
<1>3. breaker' \in [Breakers -> States]
  BY <1>1, <1>2 DEF Tick
<1>4. BreakersInv'
  BY <1>3 DEF BreakersInv, States
<1>5. (RoutesInv /\ LockInv /\ RequestsInv)'
  BY DEF IInv, Tick, RoutesInv, LockInv, RequestsInv, RequestOK, AdmittedSoFar, ReplyOnItsWay,
         ReplyOK, Admits, Stage, Route, Middlewares
<1> QED BY <1>4, <1>5 DEF IInv

-----------------------------------------------------------------------------
(* The invariant is kept: edits *)

\* A version once parsed stays parsed, also when no route has it any more.
LEMMA EditKeeps ==
  ASSUME IInv, NEW new \in Seq(Versions), Edit(new)
  PROVE  IInv'
<1>1. Range(new) \subseteq Versions
  BY DEF Range
<1>2. RoutesInv'
  BY <1>1 DEF IInv, RoutesInv, Edit
<1>3. used \subseteq used' /\ UNCHANGED <<server, breaker, request, holder, accepting, clients>>
  BY DEF Edit
<1>4. (BreakersInv /\ LockInv)'
  BY <1>3 DEF IInv, BreakersInv, LockInv, Stage
<1>5. RequestsInv'
  BY <1>3 DEF IInv, RequestsInv, RequestOK, AdmittedSoFar, ReplyOnItsWay,
              ReplyOK, Admits, Stage, Route, Middlewares
<1> QED BY <1>2, <1>4, <1>5 DEF IInv

LEMMA EditedRoutes ==
  ASSUME IInv
  PROVE  /\ \A k \in DOMAIN routes : RemoveAt(routes, k) \in Seq(Versions)
         /\ \A k \in DOMAIN routes, v \in Versions : [routes EXCEPT ![k] = v] \in Seq(Versions)
         /\ \A v \in Versions : Append(routes, v) \in Seq(Versions)
         /\ \A v, w \in Versions : <<v>> \in Seq(Versions) /\ <<v, w>> \in Seq(Versions)
<1>1. routes \in Seq(Versions)
  BY DEF IInv, RoutesInv
<1>2. ASSUME NEW k \in DOMAIN routes PROVE RemoveAt(routes, k) \in Seq(Versions)
  <2>1. SubSeq(routes, 1, k - 1) \in Seq(Versions) /\ SubSeq(routes, k + 1, Len(routes)) \in Seq(Versions)
    BY <1>1
  <2> QED BY <2>1 DEF RemoveAt
<1>3. ASSUME NEW k \in DOMAIN routes, NEW v \in Versions
      PROVE  [routes EXCEPT ![k] = v] \in Seq(Versions)
  BY <1>1
<1> QED BY <1>1, <1>2, <1>3

-----------------------------------------------------------------------------
(* The invariant *)

LEMMA InitHolds == Init => IInv
<1> SUFFICES ASSUME Init PROVE IInv
  OBVIOUS
<1>1. RoutesInv
  <2>1. routes \in Seq(Versions) /\ Range(routes) \subseteq Versions
    BY ConfigAssumption DEF Init, Range
  <2> QED BY <2>1 DEF Init, RoutesInv
<1>2. BreakersInv
  BY ConfigAssumption DEF Init, BreakersInv
<1>3. LockInv
  BY ConfigAssumption DEF Init, LockInv, Stage, Idle
<1>4. RequestsInv
  BY DEF Init, RequestsInv, RequestOK, AdmittedSoFar, ReplyOnItsWay, Stage, Stages, Fields,
         Idle, PastChecks
<1> QED BY <1>1, <1>2, <1>3, <1>4 DEF IInv

LEMMA NextKeeps ==
  ASSUME IInv, [Next]_vars
  PROVE  IInv'
<1>1. ASSUME NEW r \in Requests, Step(r) PROVE IInv'
  BY <1>1, StepKeepsRequests, StepKeepsLock, StepKeepsRoutes, StepKeepsBreakers DEF IInv
<1>2. ASSUME NEW k \in DOMAIN routes, DeleteRoute(k) \/ \E v \in Fresh : PutRoute(k, v)
      PROVE  IInv'
  BY <1>2, EditKeeps, EditedRoutes DEF DeleteRoute, PutRoute, Fresh
<1>3. ASSUME \E v \in Fresh : PostRoute(v) PROVE IInv'
  BY <1>3, EditKeeps, EditedRoutes DEF PostRoute, Fresh
<1>4. ASSUME Reload PROVE IInv'
  BY <1>4, EditKeeps, EditedRoutes DEF Reload, Fresh
<1>5. ASSUME UNCHANGED vars PROVE IInv'
  BY <1>5 DEF vars, IInv, RoutesInv, BreakersInv, LockInv, RequestsInv, RequestOK, AdmittedSoFar,
              ReplyOnItsWay, ReplyOK, Admits, Stage, Route, Middlewares
<1> QED BY <1>1, <1>2, <1>3, <1>4, <1>5, TickKeeps DEF Next

\* The invariant that the theorems below rest on.
THEOREM Invariance == Spec => []IInv
BY InitHolds, NextKeeps, PTL DEF Spec

\* The types of the variables, the mutex held exactly by the request in its
\* checks (proxy_trait.rs drops the guard on every way out), and no transcoded
\* call recorded as a failure.
THEOREM TypeCorrect == Spec => []TypeOK
<1>1. IInv => TypeOK
  BY DEF IInv, TypeOK, RoutesInv, BreakersInv, LockInv, RequestsInv, RequestOK, Stages
<1> QED BY <1>1, Invariance, PTL

\* No request gets past the checks of get_destination without all middlewares of
\* the route it was matched with, whatever the REST API makes of the routes
\* while it is on its way.
THEOREM AdmittedCorrect == Spec => []OnlyAdmittedGetThrough
<1>1. IInv => OnlyAdmittedGetThrough
  BY DEF IInv, OnlyAdmittedGetThrough, RequestsInv, AdmittedSoFar, Admits, PastChecks,
         Middlewares, Inbound
<1> QED BY <1>1, Invariance, PTL

\* Whatever handle_response makes of an upstream's answer, and every answer the
\* proxy makes itself, describes its body.
THEOREM RepliesCorrect == Spec => []RepliesDescribeBodies
<1>1. IInv => RepliesDescribeBodies
  BY DEF IInv, RepliesDescribeBodies, RequestsInv, ReplyOnItsWay, ReplyOK
<1> QED BY <1>1, Invariance, PTL

\* Only the match of a route takes a request of an HTTP or gRPC listener into
\* its checks.
LEMMA OnlyMatchStarts ==
  ASSUME IInv, NEW r \in Requests, Step(r), Stage(r) # "checking", Stage(r)' = "checking",
         server # "tcp"
  PROVE  GetDestination(r)
<1>1. RequestsInv
  BY DEF IInv
<1>2. ~Arrive(r)
  BY <1>1 DEF Arrive, RequestsInv, Idle, Stage
<1>3. \A reply : ~Answered(r, reply) /\ ~End(r)
  BY <1>1, AnsweredStage
<1>4. \A stage, k : Goto(r, stage, k) => stage = "checking"
  BY <1>1, GotoBecomes DEF Becomes, Stage
<1>5. ~NoMatchFound(r) /\ ~Allow(r) /\ ~Refuse(r) /\ ~GetRoute(r)
  BY <1>3, <1>4 DEF NoMatchFound, Allow, Refuse, GetRoute, InChain, AllAllowed
<1>6. ~Preflight(r) /\ ~Upgrade(r) /\ ~Timeout(r) /\ ~Fail(r) /\ ~BreakOff(r) /\ ~Return(r)
  BY <1>3 DEF Preflight, Upgrade, Timeout, Fail, BreakOff, Return
<1>7. ~Respond(r) /\ ~Deliver(r) /\ ~GrpcEnd(r)
  BY <1>3, <1>4 DEF Respond, Deliver, GrpcEnd
<1>8. ~Answer(r) /\ ~Record(r)
  <2>1. ASSUME Answer(r) PROVE Stage(r)' = "recording"
    <3>1. PICK k, reply :
            request' = [request EXCEPT ![r].stage = "recording", ![r].reply = reply, ![r].k = k]
      BY <2>1 DEF Answer
    <3> QED BY <1>1, <3>1 DEF RequestsInv, RequestOK, Fields, Stage
  <2>2. ~Record(r)
    BY <1>1, RecordNotes DEF Noted, Becomes, Stage
  <2> QED BY <2>1, <2>2
<1>9. ~Handle(r)
  <2>1. ASSUME Handle(r)
        PROVE  \E k, reply : request' = [request EXCEPT ![r].k = k, ![r].reply = reply]
    BY <2>1, Zenon DEF Handle
  <2> QED BY <1>1, <2>1 DEF RequestsInv, RequestOK, Fields, Stage
<1>10. ~TcpAccept(r) /\ ~TcpSpawn(r) /\ ~TcpConnect(r) /\ ~TcpEnd(r)
  BY <1>3, <1>4 DEF TcpAccept, TcpSpawn, TcpConnect, TcpEnd
<1> QED BY <1>2, <1>5, <1>6, <1>7, <1>8, <1>9, <1>10 DEF Step

\* A match is the first of the longest ones, of the routes under the lock.
THEOREM MatchCorrect == Spec => LongestMatchServes
<1> DEFINE Served(r) ==
      (server # "tcp" /\ Stage(r) # "checking" /\ Stage(r)' = "checking") =>
         \E k \in DOMAIN routes : Longest(request'[r].head, k) /\ Route(r)' = routes[k]
<1>1. ASSUME IInv, Next, NEW r \in Requests PROVE Served(r)
  <2> SUFFICES ASSUME server # "tcp", Stage(r) # "checking", Stage(r)' = "checking"
               PROVE  \E k \in DOMAIN routes :
                        Longest(request'[r].head, k) /\ Route(r)' = routes[k]
    OBVIOUS
  <2> DEFINE h == request[r].head
  <2>1. Step(r)
    <3>1. \E q \in Requests : Step(q)
      BY <1>1 DEF Next, DeleteRoute, PutRoute, PostRoute, Reload, Edit, Tick, Stage
    <3> QED BY <1>1, <3>1, StepIsLocal DEF IInv, Stage
  <2>2. /\ Stage(r) = "waiting" /\ BestMatch(h) # NoRoute
        /\ request' = [request EXCEPT ![r] = Checking(BestMatch(h), h)]
    BY <1>1, <2>1, OnlyMatchStarts, Zenon DEF GetDestination
  <2>3. request'[r].head = h /\ Route(r)' = BestMatch(h)
    BY <1>1, <2>2 DEF IInv, RequestsInv, Checking, Route
  <2>4. routes \in Seq(Versions) /\ h \in DOMAIN Heads
    BY <1>1, <2>2, ConfigAssumption DEF IInv, RoutesInv, RequestsInv, RequestOK
  <2> HIDE DEF h
  <2>5. FirstLongest(h, Len(routes), BestMatch(h))
    BY <2>4, BestMatchIsFirstLongest
  <2>6. PICK k \in 1..Len(routes) :
          /\ BestMatch(h) = routes[k] /\ Fit[h][routes[k]] # NoFit
          /\ \A j \in 1..Len(routes) :
               /\ Fit[h][routes[j]] <= Fit[h][routes[k]]
               /\ j < k => Fit[h][routes[j]] # Fit[h][routes[k]]
    BY <2>2, <2>5 DEF FirstLongest
  <2> QED BY <2>3, <2>4, <2>6 DEF Longest
<1>2. ASSUME IInv, [Next]_vars PROVE [\A r \in Requests : Served(r)]_vars
  BY <1>1, <1>2
<1> QED BY <1>2, Invariance, PTL DEF Spec, LongestMatchServes

-----------------------------------------------------------------------------
(* Every breaker of every chain keeps its contract *)

\* r is in flight through the k-th middleware of v.
Flies(r, v, k) ==
  /\ Route(r) = v
  /\ \/ Stage(r) = "checking" /\ request[r].k > k
     \/ Stage(r) \in {"connecting", "upstream"}
     \/ Stage(r) = "recording" /\ request[r].k <= k

LEMMA BreakerPlace ==
  ASSUME NEW b \in Breakers
  PROVE  /\ b[1] \in Versions /\ b[2] \in DOMAIN Chain(b[1]) /\ b = <<b[1], b[2]>>
         /\ Chain(b[1])[b[2]].kind = "circuit_breaker"
BY DEF Breakers

LEMMA BreakerAtPlace ==
  ASSUME NEW v \in Versions, NEW k \in DOMAIN Chain(v), Chain(v)[k].kind = "circuit_breaker"
  PROVE  <<v, k>> \in Breakers
BY DEF Breakers

\* The way of a request does not pass a breaker without a check or a record.
LEMMA SeekStopsAtBreaker ==
  ASSUME NEW b \in Breakers, NEW kinds, "circuit_breaker" \in kinds,
         NEW k \in 1..(Len(Chain(b[1])) + 1)
  PROVE  k <= b[2] => Seek(Chain(b[1]), kinds, k) <= b[2]
<1>1. /\ b[1] \in Versions /\ b[2] \in DOMAIN Chain(b[1])
      /\ Chain(b[1])[b[2]].kind = "circuit_breaker"
  BY BreakerPlace
<1>2. Chain(b[1]) \in Seq(Range(Chain(b[1])))
  BY <1>1, ChainIsSeq
<1> QED BY <1>1, <1>2, SeekFirst

\* Steps other than a check and a record admit nobody and end at most one call.
LEMMA TurnsInFlight ==
  ASSUME IInv, NEW r \in Requests, Turns(r), NEW b \in Breakers
  PROVE  Flies(r, b[1], b[2])' => Flies(r, b[1], b[2])
<1>0. /\ b[1] \in Versions /\ b[2] \in DOMAIN Chain(b[1])
      /\ b[2] \in 1..Len(Chain(b[1])) /\ Len(Chain(b[1])) \in Nat
  BY BreakerPlace, ChainIsSeq
<1>1. CASE Started(r)
  <2>1. PICK v \in Range(routes), h \in Sends[r] : request'[r] = Checking(v, h)
    BY <1>1 DEF Started
  <2>2. /\ Stage(r)' = "checking" /\ Route(r)' = v
        /\ request'[r].k = Seek(Chain(v), Checked, 1)
    BY <2>1 DEF Checking, Stage, Route
  <2>3. Seek(Chain(b[1]), Checked, 1) <= b[2]
    <3>1. 1 \in 1..(Len(Chain(b[1])) + 1) /\ 1 <= b[2] /\ "circuit_breaker" \in Checked
      BY <1>0 DEF Checked
    <3> QED BY <3>1, SeekStopsAtBreaker
  <2>4. b[1] = v => ~(request'[r].k > b[2])
    <3>1. Seek(Chain(b[1]), Checked, 1) \in 1..(Len(Chain(b[1])) + 1)
      BY <1>0, ChainIsSeq, SeekFirst
    <3> QED BY <1>0, <2>2, <2>3, <3>1
  <2> QED BY <2>2, <2>4 DEF Flies
<1>2. CASE Ended(r)
  <2>1. Stage(r)' \in {"idle", "answered"}
    <3>1. CASE request'[r] = Idle
      BY <3>1 DEF Idle, Stage
    <3>2. CASE request'[r] # Idle
      <4>1. PICK reply : request'[r] = [Idle EXCEPT !.stage = "answered", !.reply = reply]
        BY <1>2, <3>2 DEF Ended
      <4> QED BY <4>1 DEF Idle, Stage
    <3> QED BY <3>1, <3>2
  <2> QED BY <2>1 DEF Flies
<1>3. CASE MovedOn(r)
  <2>1. Stage(r) \in {"checking", "connecting"} /\ Route(r)' = Route(r)
    BY <1>3 DEF MovedOn, AllAllowed, Becomes, Route
  <2>2. CASE Stage(r) = "connecting"
    BY <2>1, <2>2 DEF Flies
  <2>3. CASE Stage(r) = "checking"
    <3>1. request[r].k \in 1..(Len(Middlewares(r)) + 1) /\ request[r].k \notin DOMAIN Middlewares(r)
          /\ Len(Middlewares(r)) \in Nat /\ DOMAIN Middlewares(r) = 1..Len(Middlewares(r))
      BY <1>3, <2>3, RouteOfRequest DEF MovedOn, AllAllowed
    <3>2. request[r].k = Len(Middlewares(r)) + 1
      BY <3>1
    <3> QED BY <1>0, <2>1, <2>3, <3>1, <3>2 DEF Flies, Middlewares
  <2> QED BY <2>1, <2>2, <2>3
<1>4. CASE Outcome(r)
  BY <1>4 DEF Outcome, Becomes, Flies, Stage, Route
<1>5. CASE Responded(r) \/ Handled(r)
  BY <1>5 DEF Responded, Handled, Becomes, Flies, Stage
<1>6. CASE request' = request
  BY <1>6 DEF Flies, Stage, Route
<1>7. CASE Arrived(r)
  BY <1>7 DEF Arrived, Idle, Stage, Flies
<1> QED BY <1>1, <1>2, <1>3, <1>4, <1>5, <1>6, <1>7 DEF Turns

\* The check of a breaker takes a request into its flight.
LEMMA AllowInFlight ==
  ASSUME IInv, NEW r \in Requests, Allow(r), NEW b \in Breakers
  PROVE  /\ CurrentBreaker(r) = b => ~Flies(r, b[1], b[2]) /\ Flies(r, b[1], b[2])'
         /\ CurrentBreaker(r) # b => (Flies(r, b[1], b[2])' <=> Flies(r, b[1], b[2]))
<1>0. PICK v, k : v = Route(r) /\ k = request[r].k
  OBVIOUS
<1>1. /\ Stage(r) = "checking" /\ Stage(r)' = "checking" /\ Route(r)' = v
      /\ request'[r].k = Rest(r) /\ k \in DOMAIN Chain(v)
  BY <1>0, AllowPasses DEF IInv, Passed, InChain, Becomes, Stage, Route, Middlewares
<1>2. /\ v \in Versions /\ Chain(v) \in Seq(Range(Chain(v)))
      /\ Len(Chain(v)) \in Nat /\ DOMAIN Chain(v) = 1..Len(Chain(v))
  BY <1>0, <1>1, RouteOfRequest DEF Middlewares
<1>3. /\ b[1] \in Versions /\ b[2] \in DOMAIN Chain(b[1]) /\ b = <<b[1], b[2]>>
  BY BreakerPlace
<1>4. k + 1 \in 1..(Len(Chain(v)) + 1) /\ Rest(r) = Seek(Chain(v), Checked, k + 1)
  BY <1>0, <1>1, <1>2 DEF Rest, Middlewares
<1>5. Rest(r) \in (k + 1)..(Len(Chain(v)) + 1)
  BY <1>2, <1>4, SeekFirst
<1>6. CurrentBreaker(r) = <<v, k>>
  BY <1>0 DEF CurrentBreaker
<1>7. v = b[1] /\ k + 1 <= b[2] => Rest(r) <= b[2]
  BY <1>4, SeekStopsAtBreaker DEF Checked
<1>8. CASE v # b[1]
  BY <1>0, <1>1, <1>6, <1>8 DEF Flies
<1>9. CASE v = b[1]
  <2>1. k \in Nat /\ b[2] \in Nat /\ Rest(r) \in Nat /\ Rest(r) > k
    BY <1>1, <1>2, <1>3, <1>5, <1>9
  <2>2. Flies(r, b[1], b[2]) <=> k > b[2]
    BY <1>0, <1>1, <1>9 DEF Flies
  <2>3. Flies(r, b[1], b[2])' <=> Rest(r) > b[2]
    BY <1>1, <1>9 DEF Flies
  <2>4. CurrentBreaker(r) = b <=> k = b[2]
    BY <1>3, <1>6, <1>9
  <2> QED BY <1>7, <1>9, <2>1, <2>2, <2>3, <2>4
<1> QED BY <1>8, <1>9

\* The record of a breaker takes it out.
LEMMA RecordInFlight ==
  ASSUME IInv, NEW r \in Requests, Record(r), NEW b \in Breakers
  PROVE  /\ Observer(r) = b => Flies(r, b[1], b[2]) /\ ~Flies(r, b[1], b[2])'
         /\ Observer(r) # b => (Flies(r, b[1], b[2])' <=> Flies(r, b[1], b[2]))
<1>0. PICK v, k, next :
        v = Route(r) /\ k = request[r].k /\ next = Seek(Chain(v), Recorded, k + 1)
  OBVIOUS
<1>1. /\ Stage(r) = "recording" /\ Stage(r)' = "recording" /\ Route(r)' = v
      /\ request'[r].k = next /\ k \in DOMAIN Chain(v)
  BY <1>0, RecordNotes DEF IInv, Noted, Recording, Becomes, Stage, Route, Middlewares
<1>2. /\ v \in Versions /\ Chain(v) \in Seq(Range(Chain(v)))
      /\ Len(Chain(v)) \in Nat /\ DOMAIN Chain(v) = 1..Len(Chain(v))
  BY <1>0, <1>1, RouteOfRequest DEF Middlewares
<1>3. /\ b[1] \in Versions /\ b[2] \in DOMAIN Chain(b[1]) /\ b = <<b[1], b[2]>>
  BY BreakerPlace
<1>4. k + 1 \in 1..(Len(Chain(v)) + 1)
  BY <1>1, <1>2
<1>5. next \in (k + 1)..(Len(Chain(v)) + 1)
  BY <1>0, <1>2, <1>4, SeekFirst
<1>6. Observer(r) = <<v, k>>
  BY <1>0 DEF Observer
<1>7. v = b[1] /\ k + 1 <= b[2] => next <= b[2]
  BY <1>0, <1>4, SeekStopsAtBreaker DEF Recorded
<1>8. CASE v # b[1]
  BY <1>0, <1>1, <1>6, <1>8 DEF Flies
<1>9. CASE v = b[1]
  <2>1. k \in Nat /\ b[2] \in Nat /\ next \in Nat /\ next > k
    BY <1>1, <1>2, <1>3, <1>5, <1>9
  <2>2. Flies(r, b[1], b[2]) <=> k <= b[2]
    BY <1>0, <1>1, <1>9 DEF Flies
  <2>3. Flies(r, b[1], b[2])' <=> next <= b[2]
    BY <1>1, <1>9 DEF Flies
  <2>4. Observer(r) = b <=> k = b[2]
    BY <1>3, <1>6, <1>9
  <2> QED BY <1>7, <1>9, <2>1, <2>2, <2>3, <2>4
<1> QED BY <1>8, <1>9

\* A step of a request is a step of the contract of each breaker, or none.
LEMMA StepKeepsContract ==
  ASSUME IInv, NEW r \in Requests, Step(r), NEW b \in Breakers
  PROVE  Contract(b)!ContractNext \/ UNCHANGED Contract(b)!contractVars
<1> DEFINE In == Flies(r, b[1], b[2])
<1>1. /\ r \in InFlight(b) <=> Flies(r, b[1], b[2])
      /\ r \in InFlight(b)' <=> Flies(r, b[1], b[2])'
  BY DEF InFlight, Flies
<1>2. \A q \in Requests \ {r} : q \in InFlight(b)' <=> q \in InFlight(b)
  <2>1. \A q \in Requests \ {r} : request'[q] = request[q]
    BY StepIsLocal DEF IInv
  <2> QED BY <2>1 DEF InFlight, Stage, Route
<1>3. InFlight(b) \subseteq Requests /\ InFlight(b)' \subseteq Requests
  BY DEF InFlight
<1>4. /\ Flies(r, b[1], b[2]) /\ ~Flies(r, b[1], b[2])' =>
            r \in InFlight(b) /\ InFlight(b)' = InFlight(b) \ {r}
      /\ ~Flies(r, b[1], b[2]) /\ Flies(r, b[1], b[2])' =>
            r \notin InFlight(b) /\ InFlight(b)' = InFlight(b) \cup {r}
      /\ (Flies(r, b[1], b[2]) <=> Flies(r, b[1], b[2])') => InFlight(b)' = InFlight(b)
  BY <1>1, <1>2, <1>3
<1>5. breaker \in [Breakers -> States]
  BY BreakerStates DEF IInv
<1>6. ASSUME breaker'[b] = breaker[b], Flies(r, b[1], b[2])' => Flies(r, b[1], b[2])
      PROVE  Contract(b)!ContractNext \/ UNCHANGED Contract(b)!contractVars
  <2>1. CASE Flies(r, b[1], b[2])'
    BY <1>4, <1>6, <2>1 DEF Contract!contractVars
  <2>2. CASE Flies(r, b[1], b[2]) /\ ~Flies(r, b[1], b[2])'
    BY <1>4, <1>6, <2>2 DEF Contract!ContractNext, Contract!End
  <2>3. CASE ~Flies(r, b[1], b[2])
    BY <1>4, <1>6, <2>3 DEF Contract!contractVars
  <2> QED BY <2>1, <2>2, <2>3
<1>7. CASE Allow(r)
  <2>1. CASE CurrentBreaker(r) = b
    <3>1. Current(r).kind = "circuit_breaker"
      BY <2>1, BreakerPlace DEF CurrentBreaker, Current, Middlewares
    <3>2. BreakerAdmits(b)
      BY <1>7, <2>1, <3>1 DEF Allow
    <3>3. /\ breaker[b].wait = 0 /\ breaker'[b].wait = 0
          /\ \/ breaker[b].mode \in {"Closed", "HalfOpen"} /\ breaker'[b].mode = breaker[b].mode
             \/ breaker[b].mode = "Open" /\ breaker'[b].mode = "HalfOpen"
      BY <1>5, <3>2 DEF BreakerAdmits, States
    <3>4. r \notin InFlight(b) /\ InFlight(b)' = InFlight(b) \cup {r}
      BY <1>4, <1>7, <2>1, AllowInFlight
    <3> QED BY <3>3, <3>4 DEF Contract!ContractNext, Contract!Admit
  <2>2. CASE CurrentBreaker(r) # b
    <3>1. breaker'[b] = breaker[b]
      BY <1>5, <1>7, <2>2 DEF Allow, BreakerAdmits
    <3> QED BY <1>6, <1>7, <2>2, <3>1, AllowInFlight
  <2> QED BY <2>1, <2>2
<1>8. CASE Record(r)
  <2>1. CASE Observer(r) = b
    <3>1. PICK s \in AfterOutcome(breaker[b], Success(request[r].reply)) :
            breaker' = [breaker EXCEPT ![b] = s]
      BY <1>8, <2>1 DEF Record
    <3>2. breaker'[b] = s
      BY <1>5, <3>1
    <3>3. \/ s = breaker[b]
          \/ breaker[b].mode \in {"Closed", "HalfOpen"} /\ s = Tripped
          \/ breaker[b].mode = "HalfOpen" /\ s = [breaker[b] EXCEPT !.mode = "Closed"]
      BY <1>5, <3>1 DEF AfterOutcome, States
    <3>4. \/ s.mode = breaker[b].mode /\ s.wait = breaker[b].wait
          \/ breaker[b].mode \in {"Closed", "HalfOpen"} /\ s.mode = "Open" /\ s.wait = OpenDuration
          \/ breaker[b].mode = "HalfOpen" /\ s.mode = "Closed" /\ s.wait = breaker[b].wait
      BY <1>5, <3>3 DEF Tripped, States
    <3>5. r \in InFlight(b) /\ InFlight(b)' = InFlight(b) \ {r}
      BY <1>4, <1>8, <2>1, RecordInFlight
    <3> QED BY <3>2, <3>4, <3>5 DEF Contract!ContractNext, Contract!End
  <2>2. CASE Observer(r) # b
    <3>1. breaker'[b] = breaker[b]
      BY <1>5, <1>8, <2>2 DEF Record
    <3> QED BY <1>6, <1>8, <2>2, <3>1, RecordInFlight
  <2> QED BY <2>1, <2>2
<1>9. CASE ~Allow(r) /\ ~Record(r)
  BY <1>6, <1>9, OtherStepsKeepBreakers, OtherStepsTurn, TurnsInFlight
<1> QED BY <1>7, <1>8, <1>9

LEMMA TickKeepsContract ==
  ASSUME IInv, Tick, NEW b \in Breakers
  PROVE  Contract(b)!ContractNext \/ UNCHANGED Contract(b)!contractVars
<1>1. breaker[b] \in States
  BY BreakerStates DEF IInv
<1>2. /\ breaker'[b].mode = breaker[b].mode
      /\ breaker'[b].wait = IF breaker[b].wait > 0 THEN breaker[b].wait - 1 ELSE 0
  BY <1>1 DEF Tick, States
<1>3. InFlight(b)' = InFlight(b)
  BY DEF Tick, InFlight, Stage, Route
<1>4. breaker[b].wait \in Nat
  BY <1>1, ConfigAssumption DEF States
<1> QED BY <1>2, <1>3, <1>4 DEF Contract!ContractNext, Contract!Pass, Contract!contractVars

\* Every breaker keeps its contract with the requests of its route: what the
\* other middlewares refuse, the outcomes of other requests between two checks
\* and the routes that an edit replaces included.
THEOREM ContractsKept == Spec => EachBreakerKeepsContract
<1> DEFINE Kept(b) == Contract(b)!ContractNext \/ UNCHANGED Contract(b)!contractVars
<1>1. Init => \A b \in Breakers : Contract(b)!ContractInit
  <2> SUFFICES ASSUME Init, NEW b \in Breakers PROVE Contract(b)!ContractInit
    OBVIOUS
  <2>1. InFlight(b) = {}
    BY DEF Init, InFlight, Idle, Stage
  <2> QED BY <2>1 DEF Init, Contract!ContractInit
<1>2. ASSUME IInv, Next, NEW b \in Breakers PROVE Kept(b)
  <2>1. ASSUME NEW new, Edit(new) PROVE Kept(b)
    BY <2>1 DEF Edit, InFlight, Stage, Route, Contract!contractVars
  <2> QED BY <1>2, <2>1, StepKeepsContract, TickKeepsContract
             DEF Next, DeleteRoute, PutRoute, PostRoute, Reload
<1>3. ASSUME IInv, [Next]_vars PROVE [\A b \in Breakers : Kept(b)]_vars
  BY <1>2, <1>3
<1> QED BY <1>1, <1>3, Invariance, PTL DEF Spec, EachBreakerKeepsContract

-----------------------------------------------------------------------------
(* What is sent: HandleBeforeRequest goes through the chain one by one *)

\* What is left after a set of places of the chain, by its last one.
SentAfter(chain, head, sent, s) ==
  IF s = {} THEN Sent(head)
  ELSE LET last == Max(s) IN HandleRequest(chain[last], sent[s \ {last}])

\* The recursion that HandleBeforeRequest stands for is well-founded.
LEMMA SentAfterExists ==
  ASSUME NEW chain, NEW head
  PROVE  \A n \in Nat : \E sent : sent = [s \in SUBSET (1..n) |-> SentAfter(chain, head, sent, s)]
<1> DEFINE Defined ==
      {n \in Nat : \E sent : sent = [s \in SUBSET (1..n) |-> SentAfter(chain, head, sent, s)]}
<1>1. 0 \in Defined
  <2> DEFINE sent == [s \in SUBSET (1..0) |-> Sent(head)]
  <2>1. \A s \in SUBSET (1..0) : SentAfter(chain, head, sent, s) = Sent(head)
    BY DEF SentAfter
  <2>2. sent = [s \in SUBSET (1..0) |-> SentAfter(chain, head, sent, s)]
    BY <2>1
  <2> QED BY <2>2
<1>2. ASSUME NEW n \in Nat, n \in Defined PROVE n + 1 \in Defined
  <2>1. PICK sent : sent = [s \in SUBSET (1..n) |-> SentAfter(chain, head, sent, s)]
    BY <1>2
  <2> DEFINE last == n + 1
             next == [s \in SUBSET (1..last) |->
                        IF last \notin s THEN sent[s]
                        ELSE HandleRequest(chain[last], sent[s \ {last}])]
  <2>2. ASSUME NEW s \in SUBSET (1..last) PROVE next[s] = SentAfter(chain, head, next, s)
    <3>1. CASE last \notin s
      <4>0. s \in SUBSET (1..n)
        BY <3>1
      <4>1. \A m : s \ {m} \in SUBSET (1..n) /\ last \notin s \ {m}
        BY <3>1, <4>0
      <4>2. \A m : next[s \ {m}] = sent[s \ {m}]
        BY <4>1
      <4>3. next[s] = SentAfter(chain, head, sent, s)
        BY <2>1, <3>1, <4>0
      <4> HIDE DEF next
      <4> QED BY <4>2, <4>3 DEF SentAfter
    <3>2. CASE last \in s
      <4>1. s \ {last} \in SUBSET (1..n) /\ s # {} /\ Max(s) = last
        BY <3>2, MaxOfPrefix
      <4>2. next[s \ {last}] = sent[s \ {last}]
        BY <4>1
      <4> QED BY <3>2, <4>1, <4>2 DEF SentAfter
    <3> QED BY <3>1, <3>2
  <2> HIDE DEF next
  <2>3. next = [s \in SUBSET (1..last) |-> SentAfter(chain, head, next, s)]
    <3>1. DOMAIN next = SUBSET (1..last) /\ next = [s \in DOMAIN next |-> next[s]]
      BY DEF next
    <3> QED BY <2>2, <3>1, Zenon
  <2> QED BY <2>3
<1> HIDE DEF Defined
<1>3. \A n \in Nat : n \in Defined
  BY <1>1, <1>2, SetInduction
<1> QED BY <1>3 DEF Defined

LEMMA SentIsFold ==
  ASSUME NEW chain, NEW head, DOMAIN chain = 1..Len(chain), Len(chain) \in Nat
  PROVE  \E sent : /\ sent = [s \in SUBSET (1..Len(chain)) |-> SentAfter(chain, head, sent, s)]
                   /\ HandleBeforeRequest(chain, head) = sent[1..Len(chain)]
<1> DEFINE sent == CHOOSE f : f = [s \in SUBSET DOMAIN chain |-> SentAfter(chain, head, f, s)]
<1>1. sent = [s \in SUBSET DOMAIN chain |-> SentAfter(chain, head, sent, s)]
  <2>1. \E f : f = [s \in SUBSET DOMAIN chain |-> SentAfter(chain, head, f, s)]
    <3>1. PICK f : f = [s \in SUBSET (1..Len(chain)) |-> SentAfter(chain, head, f, s)]
      BY SentAfterExists
    <3>2. f = [s \in SUBSET DOMAIN chain |-> SentAfter(chain, head, f, s)]
      BY <3>1
    <3> QED BY <3>2
  <2> QED BY <2>1, Zenon
<1>2. HandleBeforeRequest(chain, head) = sent[DOMAIN chain]
  BY Zenon DEF HandleBeforeRequest, FoldLeft, MapThenFoldSet, SentAfter
<1> HIDE DEF sent
<1> QED BY <1>1, <1>2

HeadOK(head) == {"fields", "garbled", "peer"} \subseteq DOMAIN head /\ ListsForwarded(head.fields)

\* The head says where it came from, to whoever reads the last address of the
\* only line.
Tells(head, address) ==
  /\ Present("XRealIP", head) /\ head.fields.XRealIP = address
  /\ Present("XForwardedFor", head) /\ Len(head.fields.XForwardedFor) = 1
  /\ Last(head.fields.XForwardedFor[1]) = address

\* The first line of the client's is still in front of the first one.
KeepsList(head, old) ==
  Present("XForwardedFor", old) =>
    /\ Present("XForwardedFor", head)
    /\ IsPrefix(old.fields.XForwardedFor[1], head.fields.XForwardedFor[1])

Edited(chain, from, to) == \E j \in from..to : chain[j].kind = "request_headers"

\* What is true of a head after n middlewares.
AfterSome(chain, old, n, sent) ==
  ~sent.failed =>
    /\ HeadOK(sent.head) /\ sent.head.peer = old.peer
    /\ \A k \in 1..n : chain[k].kind = "forward_headers" /\ ~Edited(chain, k, n) =>
         Tells(sent.head, old.peer.ip)
    /\ ~Edited(chain, 1, n) => KeepsList(sent.head, old)

\* forward_headers tells the peer, whatever the lines were, and keeps the first
\* of them in front.
LEMMA ForwardedTells ==
  ASSUME NEW head, HeadOK(head), ~AddForwarded(head).failed
  PROVE  LET new == AddForwarded(head).head
         IN /\ HeadOK(new) /\ new.peer = head.peer
            /\ Tells(new, head.peer.ip)
            /\ \A old : KeepsList(head, old) /\ HeadOK(old) => KeepsList(new, old)
<1> DEFINE address == head.peer.ip
           known == IF Present("XForwardedFor", head)
                    THEN Head(head.fields.XForwardedFor) ELSE <<>>
           line == Append(known, address)
           more == [XRealIP |-> address, XForwardedFor |-> <<line>>]
           new == [head EXCEPT !.fields = more ++ @]
<1>1. AddForwarded(head).head = new
  BY Zenon DEF AddForwarded, Sent, SendFails, ForwardedFor
<1>2. known \in Seq(Range(known))
  <2>1. CASE Present("XForwardedFor", head)
    <3> DEFINE lines == head.fields.XForwardedFor
    <3>1. /\ lines \in Seq(Range(lines)) /\ lines # <<>>
          /\ \A l \in Range(lines) : l \in Seq(Range(l))
      BY <2>1 DEF HeadOK, ListsForwarded, Present
    <3> HIDE DEF lines
    <3>2. Head(lines) \in Range(lines)
      BY <3>1
    <3> QED BY <2>1, <3>1, <3>2 DEF lines
  <2>2. CASE ~Present("XForwardedFor", head)
    BY <2>2
  <2> QED BY <2>1, <2>2
<1>3. ASSUME NEW old, KeepsList(head, old), HeadOK(old), Present("XForwardedFor", old)
      PROVE  /\ old.fields.XForwardedFor[1] \in Seq(Range(old.fields.XForwardedFor[1]))
             /\ IsPrefix(old.fields.XForwardedFor[1], known)
  <2> DEFINE lines == old.fields.XForwardedFor
  <2>1. /\ lines \in Seq(Range(lines)) /\ lines # <<>>
        /\ \A l \in Range(lines) : l \in Seq(Range(l))
    BY <1>3 DEF HeadOK, ListsForwarded, Present
  <2>2. lines[1] \in Seq(Range(lines[1]))
    <3> HIDE DEF lines
    <3>1. lines[1] \in Range(lines)
      BY <2>1 DEF Range
    <3> QED BY <2>1, <3>1
  <2>3. Present("XForwardedFor", head) /\ IsPrefix(lines[1], head.fields.XForwardedFor[1])
    BY <1>3 DEF KeepsList
  <2>4. known = head.fields.XForwardedFor[1]
    BY <2>3 DEF HeadOK, ListsForwarded, Present
  <2> QED BY <2>2, <2>3, <2>4
<1>4. /\ DOMAIN new = DOMAIN head /\ new.fields = more ++ head.fields
      /\ new.peer = head.peer
  BY DEF HeadOK
<1>5. /\ "XRealIP" \in DOMAIN new.fields /\ "XForwardedFor" \in DOMAIN new.fields
      /\ new.fields.XRealIP = address
      /\ new.fields.XForwardedFor = <<line>>
  <2> HIDE DEF line, new, address
  <2> QED BY <1>4 DEF ++
<1> HIDE DEF new, more, known
<1>6. line \in Seq(Range(line)) /\ Last(line) = address
  <2>1. IsList(known)
    BY <1>2, SequenceIsList
  <2>2. IsList(line)
    <3> HIDE DEF address
    <3> QED BY <2>1, AppendToList
  <2>3. line \in Seq(Range(line))
    <3> HIDE DEF line
    <3> QED BY <2>2 DEF IsList, IsMap, Range
  <2>4. Last(line) = address
    BY <1>2 DEF Last
  <2> QED BY <2>3, <2>4
<1>7. ASSUME NEW old, KeepsList(head, old), HeadOK(old), Present("XForwardedFor", old)
      PROVE  IsPrefix(old.fields.XForwardedFor[1], line)
  <2> DEFINE first == old.fields.XForwardedFor[1]
  <2>1. first \in Seq(Range(first)) /\ IsPrefix(first, known)
    BY <1>3, <1>7
  <2> HIDE DEF first
  <2> QED BY <1>2, <2>1 DEF IsPrefix, first
<1> HIDE DEF line
<1>8. HeadOK(new) /\ Tells(new, address)
  <2>1. ListsForwarded(new.fields)
    <3>1. <<line>> \in Seq(Range(<<line>>)) /\ <<line>> # <<>> /\ Range(<<line>>) = {line}
      BY DEF Range
    <3> QED BY <1>5, <1>6, <3>1 DEF ListsForwarded
  <2>2. Len(<<line>>) = 1 /\ <<line>>[1] = line
    OBVIOUS
  <2> QED BY <1>4, <1>5, <1>6, <2>1, <2>2 DEF HeadOK, Tells, Present
<1>9. \A old : KeepsList(head, old) /\ HeadOK(old) => KeepsList(new, old)
  BY <1>5, <1>7 DEF KeepsList, Present
<1> QED BY <1>1, <1>4, <1>8, <1>9

\* request_headers may do anything to the lines, but they stay lists.
LEMMA EditedHead ==
  ASSUME NEW mw, NEW head, HeadOK(head), ListsForwarded(mw.add), ~EditFields(mw, head).failed
  PROVE  LET new == EditFields(mw, head).head IN HeadOK(new) /\ new.peer = head.peer
<1> DEFINE rest == Restrict(head.fields, DOMAIN head.fields \ mw.remove)
           names == head.garbled \ (mw.remove \cup DOMAIN mw.add)
           new == [head EXCEPT !.fields = mw.add ++ rest, !.garbled = names]
<1>1. EditFields(mw, head).head = new
  BY DEF EditFields, Sent, SendFails
<1>2. /\ DOMAIN new = DOMAIN head /\ new.fields = mw.add ++ rest /\ new.peer = head.peer
  BY DEF HeadOK
<1>3. ListsForwarded(rest)
  BY DEF HeadOK, ListsForwarded, Restrict
<1> HIDE DEF new, rest
<1>4. ListsForwarded(mw.add ++ rest)
  BY <1>3 DEF ListsForwarded, ++
<1> QED BY <1>1, <1>2, <1>4 DEF HeadOK

LEMMA OneMore ==
  ASSUME NEW chain, NEW n \in Nat, DOMAIN chain = 1..Len(chain), n + 1 \in DOMAIN chain,
         chain[n + 1].kind = "request_headers" => ListsForwarded(chain[n + 1].add),
         NEW old, HeadOK(old), NEW sent, AfterSome(chain, old, n, sent)
  PROVE  AfterSome(chain, old, n + 1, HandleRequest(chain[n + 1], sent))
<1> DEFINE mw == chain[n + 1]
           next == HandleRequest(mw, sent)
<1> SUFFICES ASSUME ~next.failed PROVE AfterSome(chain, old, n + 1, next)
  BY DEF AfterSome
<1>1. ~sent.failed
  BY DEF HandleRequest
<1>2. /\ HeadOK(sent.head) /\ sent.head.peer = old.peer
      /\ \A k \in 1..n : chain[k].kind = "forward_headers" /\ ~Edited(chain, k, n) =>
           Tells(sent.head, old.peer.ip)
      /\ ~Edited(chain, 1, n) => KeepsList(sent.head, old)
  BY <1>1 DEF AfterSome
<1>3. \A k \in 1..(n + 1) :
        Edited(chain, k, n + 1) <=> (Edited(chain, k, n) \/ mw.kind = "request_headers")
  <2>1. \A k \in 1..(n + 1) : \A j : j \in k..(n + 1) <=> (j \in k..n \/ j = n + 1)
    OBVIOUS
  <2> QED BY <2>1 DEF Edited
<1>4. \A k \in 1..(n + 1) : k \in 1..n \/ k = n + 1
  OBVIOUS
<1>5. 1 \in 1..(n + 1)
  OBVIOUS
<1>6. CASE mw.kind = "forward_headers"
  <2>1. next = AddForwarded(sent.head)
    BY <1>1, <1>6 DEF HandleRequest
  <2>2. /\ HeadOK(next.head) /\ next.head.peer = old.peer
        /\ Tells(next.head, old.peer.ip)
        /\ KeepsList(sent.head, old) => KeepsList(next.head, old)
    BY <1>2, <2>1, ForwardedTells
  <2> HIDE DEF next
  <2> QED BY <1>2, <1>3, <1>5, <1>6, <2>2 DEF AfterSome
<1>7. CASE mw.kind = "request_headers"
  <2>1. next = EditFields(mw, sent.head)
    BY <1>1, <1>7 DEF HandleRequest
  <2>2. HeadOK(next.head) /\ next.head.peer = old.peer
    BY <1>2, <1>7, <2>1, EditedHead
  <2> HIDE DEF next
  <2> QED BY <1>3, <1>5, <1>7, <2>2 DEF AfterSome
<1>8. CASE mw.kind \notin {"forward_headers", "request_headers"}
  <2>1. next = sent
    BY <1>1, <1>8 DEF HandleRequest
  <2> HIDE DEF next
  <2> QED BY <1>2, <1>3, <1>4, <1>5, <1>8, <2>1 DEF AfterSome
<1> QED BY <1>6, <1>7, <1>8

\* A whole chain.
LEMMA ChainSent ==
  ASSUME NEW v \in Versions, NEW h \in DOMAIN Heads
  PROVE  AfterSome(Chain(v), Heads[h], Len(Chain(v)), HandleBeforeRequest(Chain(v), Heads[h]))
<1> DEFINE chain == Chain(v)
           old == Heads[h]
<1>1. Len(chain) \in Nat /\ DOMAIN chain = 1..Len(chain)
  BY ConfigAssumption
<1>2. HeadOK(old)
  BY HeadAssumption DEF HeadOK
<1>3. \A k \in DOMAIN chain : chain[k].kind = "request_headers" => ListsForwarded(chain[k].add)
  BY HeadAssumption
<1> HIDE DEF chain, old
<1>4. PICK sent : /\ sent = [s \in SUBSET (1..Len(chain)) |-> SentAfter(chain, old, sent, s)]
                  /\ HandleBeforeRequest(chain, old) = sent[1..Len(chain)]
  BY <1>1, SentIsFold
<1> DEFINE Reached == {n \in Nat : n <= Len(chain) => AfterSome(chain, old, n, sent[1..n])}
<1>5. 0 \in Reached
  <2>1. 1..0 = {} /\ 1..0 \in SUBSET (1..Len(chain))
    OBVIOUS
  <2>2. sent[1..0] = Sent(old)
    BY <1>4, <2>1 DEF SentAfter
  <2>3. KeepsList(old, old)
    BY <1>2 DEF KeepsList, HeadOK, ListsForwarded, Present, IsPrefix
  <2>4. AfterSome(chain, old, 0, Sent(old))
    BY <1>2, <2>3 DEF AfterSome, Sent
  <2> QED BY <2>2, <2>4
<1>6. ASSUME NEW n \in Nat, n \in Reached PROVE n + 1 \in Reached
  <2> SUFFICES ASSUME n + 1 <= Len(chain)
               PROVE  AfterSome(chain, old, n + 1, sent[1..(n + 1)])
    OBVIOUS
  <2>1. n + 1 \in DOMAIN chain /\ AfterSome(chain, old, n, sent[1..n])
    BY <1>1, <1>6
  <2>2. sent[1..(n + 1)] = HandleRequest(chain[n + 1], sent[1..n])
    <3>1. 1..(n + 1) \in SUBSET (1..Len(chain)) /\ 1..(n + 1) # {}
      BY <1>1, PrefixWithoutLast
    <3>2. Max(1..(n + 1)) = n + 1
      BY MaxOfPrefix, PrefixWithoutLast
    <3>3. (1..(n + 1)) \ {n + 1} = 1..n
      BY PrefixWithoutLast
    <3>4. sent[1..(n + 1)] = SentAfter(chain, old, sent, 1..(n + 1))
      BY <1>4, <3>1
    <3> QED BY <3>1, <3>2, <3>3, <3>4 DEF SentAfter
  <2> QED BY <1>1, <1>2, <1>3, <2>1, <2>2, OneMore
<1> HIDE DEF Reached
<1>7. \A n \in Nat : n \in Reached
  BY <1>5, <1>6, SetInduction
<1>8. AfterSome(chain, old, Len(chain), sent[1..Len(chain)])
  BY <1>1, <1>7 DEF Reached
<1>9. AfterSome(chain, old, Len(chain), HandleBeforeRequest(chain, old))
  BY <1>4, <1>8
<1> QED BY <1>9 DEF chain, old

\* What a request behind forward_headers is dispatched with has one line of
\* X-Forwarded-For: the first of the client's lines, followed by the peer. Its
\* other lines are lost (get() and insert() of forward_header.rs), and an upgrade
\* is not dispatched this way.
THEOREM PeerLearnt == Spec => []UpstreamLearnsPeer
<1>1. ASSUME IInv PROVE UpstreamLearnsPeer
  <2> SUFFICES ASSUME NEW r \in Requests, Dispatched(r), Dest(Route(r)) = "http",
                      NEW k \in DOMAIN Middlewares(r),
                      Middlewares(r)[k].kind = "forward_headers",
                      \A j \in DOMAIN Middlewares(r) :
                        j >= k => Middlewares(r)[j].kind # "request_headers"
               PROVE  LET sent == Outbound(r).head
                          kinds == {Middlewares(r)[j].kind :
                                      j \in {i \in DOMAIN Middlewares(r) : i >= 1}}
                      IN /\ sent.fields.XRealIP = Inbound(r).peer.ip
                         /\ Len(sent.fields.XForwardedFor) = 1
                         /\ Last(sent.fields.XForwardedFor[1]) = Inbound(r).peer.ip
                         /\ ("request_headers" \notin kinds /\
                             Present("XForwardedFor", Inbound(r))) =>
                              IsPrefix(Inbound(r).fields.XForwardedFor[1],
                                       sent.fields.XForwardedFor[1])
    BY DEF UpstreamLearnsPeer
  <2> DEFINE v == Route(r)
             chain == Chain(v)
             old == Heads[request[r].head]
             sent == HandleBeforeRequest(chain, old)
  <2>1. v \in Versions /\ request[r].head \in DOMAIN Heads
    <3>1. Stage(r) \notin {"idle", "waiting", "answered"}
      BY DEF Dispatched, Forwarded, Exchanging
    <3>2. v \in used /\ request[r].head \in Sends[r]
      BY <1>1, <3>1 DEF IInv, RequestsInv, RequestOK
    <3> QED BY <1>1, <3>2, ConfigAssumption DEF IInv, RoutesInv
  <2>2. Outbound(r) = sent
    BY <2>1 DEF Outbound, SentBy, RouteSends
  <2>3. AfterSome(chain, old, Len(chain), sent)
    BY <2>1, ChainSent
  <2>4. Len(chain) \in Nat /\ DOMAIN chain = 1..Len(chain) /\ k \in DOMAIN chain
    BY <2>1, ConfigAssumption DEF Middlewares
  <2>5. ~sent.failed
    BY <2>2 DEF Dispatched
  <2> HIDE DEF sent
  <2>6. ~Edited(chain, k, Len(chain))
    BY <2>4 DEF Edited, Middlewares
  <2>7. Tells(sent.head, old.peer.ip)
    BY <2>3, <2>4, <2>5, <2>6 DEF AfterSome, Middlewares
  <2>8. ASSUME "request_headers" \notin {Middlewares(r)[j].kind :
                                           j \in {i \in DOMAIN Middlewares(r) : i >= 1}}
        PROVE  KeepsList(sent.head, old)
    <3>1. ~Edited(chain, 1, Len(chain))
      BY <2>4, <2>8 DEF Edited, Middlewares
    <3> QED BY <2>3, <2>5, <3>1 DEF AfterSome
  <2> QED BY <2>2, <2>7, <2>8 DEF Tells, KeepsList, Inbound
<1> QED BY <1>1, Invariance, PTL
=============================================================================
