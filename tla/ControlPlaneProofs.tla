-------------------------- MODULE ControlPlaneProofs --------------------------
(***************************************************************************)
(* Proofs about ControlPlane and the configuration format, for every set   *)
(* of texts that calls may bring.                                          *)
(***************************************************************************)
EXTENDS ControlPlane, FiniteSetTheorems, ProofLemmas

-----------------------------------------------------------------------------
(* Lists of parsed parts *)

LEMMA ParsedMatchers ==
  ASSUME NEW texts
  PROVE  /\ \A list \in ParseAll(ParseMatcher, texts) :
              /\ list = [k \in DOMAIN texts |-> list[k]]
              /\ \A k \in DOMAIN texts : list[k] \in ParseMatcher(texts[k])
         /\ (\A k \in DOMAIN texts : ParseMatcher(texts[k]) # {}) =>
              ParseAll(ParseMatcher, texts) # {}
<1> DEFINE list == [k \in DOMAIN texts |-> CHOOSE v \in ParseMatcher(texts[k]) : TRUE]
<1>1. ParseAll(ParseMatcher, texts) =
        IF \A k \in DOMAIN texts : ParseMatcher(texts[k]) # {} THEN {list} ELSE {}
  BY ZenonT(40) DEF ParseAll
<1>2. list = [k \in DOMAIN texts |-> list[k]]
  OBVIOUS
<1>3. (\A k \in DOMAIN texts : ParseMatcher(texts[k]) # {}) =>
        \A k \in DOMAIN texts : list[k] \in ParseMatcher(texts[k])
  OBVIOUS
<1> HIDE DEF list
<1> QED BY <1>1, <1>2, <1>3

LEMMA ParsedMiddlewares ==
  ASSUME NEW texts
  PROVE  /\ \A list \in ParseAll(ParseMiddleware, texts) :
              /\ list = [k \in DOMAIN texts |-> list[k]]
              /\ \A k \in DOMAIN texts : list[k] \in ParseMiddleware(texts[k])
         /\ (\A k \in DOMAIN texts : ParseMiddleware(texts[k]) # {}) =>
              ParseAll(ParseMiddleware, texts) # {}
<1> DEFINE list == [k \in DOMAIN texts |-> CHOOSE v \in ParseMiddleware(texts[k]) : TRUE]
<1>1. ParseAll(ParseMiddleware, texts) =
        IF \A k \in DOMAIN texts : ParseMiddleware(texts[k]) # {} THEN {list} ELSE {}
  BY ZenonT(40) DEF ParseAll
<1>2. list = [k \in DOMAIN texts |-> list[k]]
  OBVIOUS
<1>3. (\A k \in DOMAIN texts : ParseMiddleware(texts[k]) # {}) =>
        \A k \in DOMAIN texts : list[k] \in ParseMiddleware(texts[k])
  OBVIOUS
<1> HIDE DEF list
<1> QED BY <1>1, <1>2, <1>3

LEMMA ParsedRoutes ==
  ASSUME NEW texts
  PROVE  /\ \A list \in ParseAll(ParseRoute, texts) :
              /\ list = [k \in DOMAIN texts |-> list[k]]
              /\ \A k \in DOMAIN texts : list[k] \in ParseRoute(texts[k])
         /\ (\A k \in DOMAIN texts : ParseRoute(texts[k]) # {}) =>
              ParseAll(ParseRoute, texts) # {}
<1> DEFINE list == [k \in DOMAIN texts |-> CHOOSE v \in ParseRoute(texts[k]) : TRUE]
<1>1. ParseAll(ParseRoute, texts) =
        IF \A k \in DOMAIN texts : ParseRoute(texts[k]) # {} THEN {list} ELSE {}
  BY ZenonT(40) DEF ParseAll
<1>2. list = [k \in DOMAIN texts |-> list[k]]
  OBVIOUS
<1>3. (\A k \in DOMAIN texts : ParseRoute(texts[k]) # {}) =>
        \A k \in DOMAIN texts : list[k] \in ParseRoute(texts[k])
  OBVIOUS
<1> HIDE DEF list
<1> QED BY <1>1, <1>2, <1>3

LEMMA ParsedServices ==
  ASSUME NEW texts
  PROVE  /\ \A list \in ParseAll(ParseService, texts) :
              /\ list = [k \in DOMAIN texts |-> list[k]]
              /\ \A k \in DOMAIN texts : list[k] \in ParseService(texts[k])
         /\ (\A k \in DOMAIN texts : ParseService(texts[k]) # {}) =>
              ParseAll(ParseService, texts) # {}
<1> DEFINE list == [k \in DOMAIN texts |-> CHOOSE v \in ParseService(texts[k]) : TRUE]
<1>1. ParseAll(ParseService, texts) =
        IF \A k \in DOMAIN texts : ParseService(texts[k]) # {} THEN {list} ELSE {}
  BY ZenonT(40) DEF ParseAll
<1>2. list = [k \in DOMAIN texts |-> list[k]]
  OBVIOUS
<1>3. (\A k \in DOMAIN texts : ParseService(texts[k]) # {}) =>
        \A k \in DOMAIN texts : list[k] \in ParseService(texts[k])
  OBVIOUS
<1> HIDE DEF list
<1> QED BY <1>1, <1>2, <1>3

\* Likewise the targets of a router, whose parser depends on its kind.
ParseTargets(kind, texts) ==
  LET Parse(t) == ParseTarget(kind, t)
  IN ParseAll(Parse, texts)

LEMMA ParsedTargets ==
  ASSUME NEW kind, NEW texts
  PROVE  /\ \A list \in ParseTargets(kind, texts) :
              /\ list = [k \in DOMAIN texts |-> list[k]]
              /\ \A k \in DOMAIN texts : list[k] \in ParseTarget(kind, texts[k])
         /\ (\A k \in DOMAIN texts : ParseTarget(kind, texts[k]) # {}) =>
              ParseTargets(kind, texts) # {}
<1> DEFINE list == [k \in DOMAIN texts |-> CHOOSE v \in ParseTarget(kind, texts[k]) : TRUE]
<1>1. ParseTargets(kind, texts) =
        IF \A k \in DOMAIN texts : ParseTarget(kind, texts[k]) # {} THEN {list} ELSE {}
  BY Zenon DEF ParseTargets, ParseAll
<1>2. list = [k \in DOMAIN texts |-> list[k]]
  OBVIOUS
<1>3. (\A k \in DOMAIN texts : ParseTarget(kind, texts[k]) # {}) =>
        \A k \in DOMAIN texts : list[k] \in ParseTarget(kind, texts[k])
  OBVIOUS
<1> HIDE DEF list
<1> QED BY <1>1, <1>2, <1>3

-----------------------------------------------------------------------------
(* What is in memory once it has been parsed *)

MatcherOK(m) ==
  "kind" \in DOMAIN m /\ (m.kind = "path" => IsMap(m) /\ "match_type" \in DOMAIN m)

MiddlewareOK(mw) ==
  /\ "kind" \in DOMAIN mw
  /\ mw.kind = "circuit_breaker" =>
       IsMap(mw) /\ "cooldown" \in DOMAIN mw /\ mw.cooldown \in Nat
  /\ mw.kind = "rewrite_headers" => "expires" \in DOMAIN mw
  /\ mw.kind = "cors" => CorsParses(mw)
  /\ mw.kind = "compression" => IsMap(mw) /\ DOMAIN CompressionDefaults \subseteq DOMAIN mw

RouterShape(router) ==
  \/ /\ router.kind = "file"
     /\ router = [kind |-> "file", doc_root |-> router.doc_root]
     /\ router.doc_root \in Directories
  \/ /\ router = [kind |-> router.kind, targets |-> router.targets]
     /\ router.kind \in DOMAIN Needs /\ IsMap(router.targets)
     /\ \A t \in DOMAIN router.targets :
          IsMap(router.targets[t]) /\ TargetOK(router.kind, router.targets[t])

RouteOK(route) ==
  /\ route = [id |-> route.id, matchers |-> route.matchers, router |-> route.router,
              middlewares |-> route.middlewares]
  /\ IsMap(route.matchers) /\ \A k \in DOMAIN route.matchers : MatcherOK(route.matchers[k])
  /\ RouterShape(route.router)
  /\ IsMap(route.middlewares)
  /\ \A k \in DOMAIN route.middlewares : MiddlewareOK(route.middlewares[k])

-----------------------------------------------------------------------------
(* A part and its text: what is parsed is in order, and comes back *)

LEMMA MatcherIn ==
  ASSUME NEW text, "kind" \in DOMAIN text, NEW m \in ParseMatcher(text)
  PROVE  MatcherOK(m)
BY DEF ParseMatcher, MatcherOK, IsMap, ++

LEMMA MatcherBack ==
  ASSUME NEW m, MatcherOK(m)
  PROVE  ParseMatcher(m) = {m}
<1>1. ASSUME m.kind = "path" PROVE m ++ [match_type |-> "prefix"] = m
  BY <1>1 DEF MatcherOK, IsMap, ++
<1> QED BY <1>1 DEF ParseMatcher

\* A duration in whole seconds is all that is read back.
LEMMA DurationBack ==
  ASSUME NEW d \in Nat
  PROVE  /\ ParseHumanDuration(HumanDuration(d)) \subseteq {d}
         /\ d % 1000 = 0 => ParseHumanDuration(HumanDuration(d)) = {d}
<1>1. CASE d % 1000 = 0
  <2>1. HumanDuration(d) = [n |-> d \div 1000, unit |-> "s"]
    BY <1>1 DEF HumanDuration
  <2>2. ParseHumanDuration(HumanDuration(d)) = {(d \div 1000) * 1000}
    <3> DEFINE text == HumanDuration(d)
    <3>1. [text EXCEPT !.unit = IF @ = "" THEN "s" ELSE @] = [n |-> d \div 1000, unit |-> "s"]
      BY <2>1
    <3>2. {"ms", "s", "m"} \cap {"s"} = {"s"} /\ Millis["s"] = 1000
      BY DEF Millis
    <3> DEFINE seconds == [n |-> d \div 1000, unit |-> "s"]
    <3>3. ParseWith({"ms", "s", "m"}, seconds) = {seconds.n * Millis[u] : u \in {"s"}}
      BY <3>2 DEF ParseWith
    <3>4. ParseHumanDuration(text) = ParseWith({"ms", "s", "m"}, seconds)
      <4>1. [text EXCEPT !.unit = IF @ = "" THEN "s" ELSE @] = seconds
        BY <3>1
      <4> HIDE DEF text, seconds
      <4> QED BY <4>1, Zenon DEF ParseHumanDuration
    <3> HIDE DEF text
    <3> QED BY <3>2, <3>3, <3>4 DEF text
  <2>3. (d \div 1000) * 1000 = d
    BY <1>1
  <2> QED BY <2>2, <2>3
<1>2. CASE d % 1000 # 0
  <2>1. HumanDuration(d) = [n |-> d, unit |-> "fraction"]
    BY <1>2 DEF HumanDuration
  <2> QED BY <1>2, <2>1 DEF ParseHumanDuration, ParseWith
<1> QED BY <1>1, <1>2

LEMMA DurationIn ==
  ASSUME NEW units \in SUBSET DOMAIN Millis, NEW text, text.n \in Nat
  PROVE  ParseWith(units, text) \subseteq Nat
BY DEF ParseWith, Millis

LEMMA MiddlewareIn ==
  ASSUME NEW text, MiddlewareTextOK(text), NEW mw \in ParseMiddleware(text)
  PROVE  MiddlewareOK(mw)
<1>1. CASE text.kind = "circuit_breaker"
  <2>1. PICK d \in ParseHumanDuration(text.cooldown) : mw = [text EXCEPT !.cooldown = d]
    BY <1>1 DEF ParseMiddleware
  <2>2. text.cooldown \in [n : Nat, unit : STRING] /\ "cooldown" \in DOMAIN text /\ "kind" \in DOMAIN text
    BY <1>1 DEF MiddlewareTextOK
  <2>3. d \in Nat
    <3> DEFINE read == [text.cooldown EXCEPT !.unit = IF @ = "" THEN "s" ELSE @]
    <3>1. read.n \in Nat
      BY <2>2
    <3>2. {"ms", "s", "m"} \in SUBSET DOMAIN Millis
      BY DEF Millis
    <3> HIDE DEF read
    <3> QED BY <2>1, <3>1, <3>2, DurationIn DEF ParseHumanDuration, read
  <2>4. DOMAIN mw = DOMAIN text /\ mw.kind = text.kind /\ mw.cooldown = d
    BY <2>1, <2>2
  <2>5. IsMap(mw)
    BY <2>1 DEF IsMap
  <2> QED BY <1>1, <2>2, <2>3, <2>4, <2>5 DEF MiddlewareOK
<1>2. CASE text.kind = "rewrite_headers"
  <2>1. PICK d \in ParseExpires(text.expires) : mw = [text EXCEPT !.expires = d]
    BY <1>2 DEF ParseMiddleware
  <2>2. "expires" \in DOMAIN text /\ "kind" \in DOMAIN text
    BY <1>2 DEF MiddlewareTextOK
  <2>3. DOMAIN mw = DOMAIN text /\ mw.kind = text.kind
    BY <2>1, <2>2
  <2> QED BY <1>2, <2>2, <2>3 DEF MiddlewareOK
<1>3. CASE text.kind = "cors"
  BY <1>3 DEF ParseMiddleware, MiddlewareTextOK, MiddlewareOK
<1>4. CASE text.kind = "compression"
  <2>1. mw = text ++ CompressionDefaults
    BY <1>4 DEF ParseMiddleware
  <2>2. DOMAIN mw = DOMAIN text \cup DOMAIN CompressionDefaults /\ IsMap(mw)
    BY <2>1 DEF ++, IsMap
  <2>3. mw.kind = text.kind
    BY <2>1 DEF ++, MiddlewareTextOK
  <2> QED BY <1>4, <2>2, <2>3 DEF MiddlewareOK, MiddlewareTextOK
<1>5. CASE text.kind \notin {"circuit_breaker", "rewrite_headers", "cors", "compression"}
  BY <1>5 DEF ParseMiddleware, MiddlewareTextOK, MiddlewareOK
<1> QED BY <1>1, <1>2, <1>3, <1>4, <1>5

\* The middlewares whose text is parsed back.
LastingMiddleware(mw) ==
  /\ mw.kind # "rewrite_headers"
  /\ mw.kind = "circuit_breaker" => mw.cooldown % 1000 = 0

LEMMA MiddlewareBack ==
  ASSUME NEW mw, MiddlewareOK(mw)
  PROVE  /\ ParseMiddleware(MiddlewareText(mw)) \subseteq {mw}
         /\ LastingMiddleware(mw) => ParseMiddleware(MiddlewareText(mw)) # {}
<1>1. CASE mw.kind = "circuit_breaker"
  <2> DEFINE text == [mw EXCEPT !.cooldown = HumanDuration(mw.cooldown)]
  <2>1. MiddlewareText(mw) = text
    BY <1>1 DEF MiddlewareText
  <2>2. IsMap(mw) /\ "cooldown" \in DOMAIN mw /\ mw.cooldown \in Nat /\ "kind" \in DOMAIN mw
    BY <1>1 DEF MiddlewareOK
  <2>3. text.kind = "circuit_breaker" /\ text.cooldown = HumanDuration(mw.cooldown)
    BY <1>1, <2>2
  <2>4. ParseMiddleware(text) =
          {[text EXCEPT !.cooldown = d] : d \in ParseHumanDuration(HumanDuration(mw.cooldown))}
    <3> HIDE DEF text
    <3> QED BY <2>3 DEF ParseMiddleware
  <2>5. [text EXCEPT !.cooldown = mw.cooldown] = mw
    BY <2>2 DEF IsMap
  <2> HIDE DEF text
  <2> QED BY <1>1, <2>1, <2>2, <2>4, <2>5, DurationBack DEF LastingMiddleware
<1>2. CASE mw.kind = "rewrite_headers"
  <2> DEFINE text == [mw EXCEPT !.expires = Expires(mw.expires)]
  <2>1. MiddlewareText(mw) = text
    BY <1>2 DEF MiddlewareText
  <2>2. text.kind = "rewrite_headers" /\ text.expires = Expires(mw.expires)
    BY <1>2 DEF MiddlewareOK
  <2>3. ParseExpires(text.expires) = {}
    <3> HIDE DEF text
    <3> QED BY <2>2 DEF Expires, ParseExpires, ParseWith
  <2>4. ParseMiddleware(text) = {}
    <3> HIDE DEF text
    <3> QED BY <2>2, <2>3 DEF ParseMiddleware
  <2> QED BY <1>2, <2>1, <2>4 DEF LastingMiddleware
<1>3. CASE mw.kind = "cors"
  BY <1>3 DEF MiddlewareText, ParseMiddleware, MiddlewareOK
<1>4. CASE mw.kind = "compression"
  <2>1. mw ++ CompressionDefaults = mw
    BY <1>4 DEF MiddlewareOK, IsMap, ++
  <2> QED BY <1>4, <2>1 DEF MiddlewareText, ParseMiddleware
<1>5. CASE mw.kind \notin {"circuit_breaker", "rewrite_headers", "cors", "compression"}
  BY <1>5 DEF MiddlewareText, ParseMiddleware
<1> QED BY <1>1, <1>2, <1>3, <1>4, <1>5

\* Targets: a status is no field that a target needs.
LEMMA NeedsFields ==
  ASSUME NEW kind \in DOMAIN Needs
  PROVE  "is_alive" \notin Needs[kind] /\ kind \in {"poll", "random", "weight", "header"}
BY DEF Needs

LEMMA FileHasNoNeeds == "file" \notin DOMAIN Needs
BY DEF Needs

LEMMA TargetIn ==
  ASSUME NEW kind \in DOMAIN Needs, NEW text, NEW target \in ParseTarget(kind, text)
  PROVE  IsMap(target) /\ TargetOK(kind, target)
<1>1. target = Restrict(text, Needs[kind]) ++ [is_alive |-> "unknown"]
  BY DEF ParseTarget
<1>2. DOMAIN target = Needs[kind] \cup {"is_alive"} /\ IsMap(target)
  BY <1>1 DEF Restrict, ++, IsMap
<1>3. target.is_alive = "unknown"
  BY <1>1, NeedsFields DEF Restrict, ++
<1> QED BY <1>2, <1>3 DEF TargetOK

ForgottenTarget(target) == [target EXCEPT !.is_alive = "unknown"]

LEMMA TargetBack ==
  ASSUME NEW kind \in DOMAIN Needs, NEW target, IsMap(target), TargetOK(kind, target)
  PROVE  /\ ParseTarget(kind, TargetText(target)) \subseteq {ForgottenTarget(target)}
         /\ (kind # "header" \/ target.is_alive = "unknown") =>
              ParseTarget(kind, TargetText(target)) # {}
<1> DEFINE text == TargetText(target)
<1>1. DOMAIN target = Needs[kind] \cup {"is_alive"} /\ "is_alive" \notin Needs[kind]
  BY NeedsFields DEF TargetOK
<1>2. /\ Needs[kind] \subseteq DOMAIN text
      /\ \A x \in Needs[kind] : text[x] = target[x]
      /\ target.is_alive = "unknown" => DOMAIN text = Needs[kind]
  BY <1>1 DEF TargetText, Restrict
<1> HIDE DEF text
<1>3. Restrict(text, Needs[kind]) ++ [is_alive |-> "unknown"] = ForgottenTarget(target)
  BY <1>1, <1>2 DEF Restrict, ++, ForgottenTarget
<1>4. ParseTarget(kind, text) =
        IF Needs[kind] \subseteq DOMAIN text /\ (kind = "header" => DOMAIN text \subseteq Needs[kind])
        THEN {ForgottenTarget(target)} ELSE {}
  BY <1>3 DEF ParseTarget
<1> QED BY <1>2, <1>4 DEF text

-----------------------------------------------------------------------------
(* Routers *)

LEMMA RouterIn ==
  ASSUME NEW text, NEW router \in ParseRouter(text)
  PROVE  RouterShape(router)
<1>1. ASSUME NEW backends, router = RandomRoute(backends) PROVE RouterShape(router)
  <2>1. "random" \in DOMAIN Needs /\ Needs["random"] = {"endpoint"}
    BY DEF Needs
  <2>2. router = [kind |-> router.kind, targets |-> router.targets] /\ router.kind = "random"
    BY <1>1 DEF RandomRoute
  <2>3. IsMap(router.targets)
    BY <1>1 DEF RandomRoute, IsMap
  <2>4. ASSUME NEW t \in DOMAIN router.targets
        PROVE  IsMap(router.targets[t]) /\ TargetOK("random", router.targets[t])
    <3>1. router.targets[t] = [endpoint |-> backends[t], is_alive |-> "unknown"]
      BY <1>1, <2>4 DEF RandomRoute
    <3> QED BY <2>1, <3>1 DEF IsMap, TargetOK
  <2> QED BY <2>1, <2>2, <2>3, <2>4 DEF RouterShape
<1>2. CASE text.form = "string"
  BY <1>1, <1>2 DEF ParseRouter
<1>3. CASE text.form = "list"
  BY <1>1, <1>3 DEF ParseRouter
<1>4. CASE text.form = "map" /\ text.kind = "file"
  <2>1. router \in ParseStaticFile(text)
    BY <1>4, FileHasNoNeeds, Zenon DEF ParseRouter
  <2>2. PICK root \in Directories : router = [kind |-> "file", doc_root |-> root]
    BY <2>1 DEF ParseStaticFile
  <2> QED BY <2>2 DEF RouterShape
<1>5. CASE text.form = "map" /\ text.kind \in DOMAIN Needs
  <2>1. text.kind # "file"
    BY <1>5, NeedsFields
  <2>2. ParseRouter(text) =
          {[kind |-> text.kind, targets |-> targets] :
             targets \in ParseTargets(text.kind, text.targets)}
    BY <1>5, <2>1, Zenon DEF ParseRouter, ParseTargets
  <2>3. PICK targets \in ParseTargets(text.kind, text.targets) :
          router = [kind |-> text.kind, targets |-> targets]
    BY <2>2
  <2>4. /\ IsMap(targets)
        /\ \A t \in DOMAIN targets : targets[t] \in ParseTarget(text.kind, text.targets[t])
    BY ParsedTargets DEF IsMap
  <2>5. \A t \in DOMAIN targets : IsMap(targets[t]) /\ TargetOK(text.kind, targets[t])
    BY <1>5, <2>4, TargetIn
  <2> QED BY <1>5, <2>3, <2>4, <2>5 DEF RouterShape
<1>6. CASE text.form \notin {"string", "list", "map"}
  BY <1>6 DEF ParseRouter
<1>7. CASE text.form = "map" /\ text.kind # "file" /\ text.kind \notin DOMAIN Needs
  BY <1>7 DEF ParseRouter
<1> QED BY <1>2, <1>3, <1>4, <1>5, <1>6, <1>7

\* Some status of a router is known.
RouterKnown(router) ==
  /\ router.kind # "file"
  /\ \E t \in DOMAIN router.targets : router.targets[t].is_alive # "unknown"

LEMMA RouterBack ==
  ASSUME NEW router, RouterShape(router)
  PROVE  /\ ParseRouter(RouterText(router)) \subseteq {ForgottenRouter(router)}
         /\ ~(router.kind = "header" /\ RouterKnown(router)) =>
              ParseRouter(RouterText(router)) # {}
<1>1. CASE router.kind = "file"
  <2>1. router = [kind |-> "file", doc_root |-> router.doc_root] /\ router.doc_root \in Directories
    BY <1>1, NeedsFields DEF RouterShape
  <2>2. RouterText(router) = [form |-> "map"] ++ router
    BY <1>1 DEF RouterText
  <2>3. /\ DOMAIN RouterText(router) = {"form", "kind", "doc_root"}
        /\ RouterText(router).form = "map" /\ RouterText(router).kind = "file"
        /\ RouterText(router).doc_root = router.doc_root
    BY <2>1, <2>2 DEF ++
  <2>4. ParseRouter(RouterText(router)) = ParseStaticFile(RouterText(router))
    BY <2>3, FileHasNoNeeds, Zenon DEF ParseRouter
  <2>5. ParseStaticFile(RouterText(router)) = {router}
    BY <2>1, <2>3 DEF ParseStaticFile
  <2> QED BY <1>1, <2>4, <2>5 DEF ForgottenRouter
<1>2. CASE router.kind # "file"
  <2>1. /\ router = [kind |-> router.kind, targets |-> router.targets]
        /\ router.kind \in DOMAIN Needs /\ IsMap(router.targets)
        /\ \A t \in DOMAIN router.targets :
             IsMap(router.targets[t]) /\ TargetOK(router.kind, router.targets[t])
    BY <1>2 DEF RouterShape
  <2> DEFINE kind == router.kind
             old == router.targets
             texts == [k \in DOMAIN old |-> TargetText(old[k])]
             text == RouterText(router)
  <2>2. text = [form |-> "map"] ++ [router EXCEPT !.targets = texts]
    BY <1>2 DEF RouterText
  <2>3. text.form = "map" /\ text.kind = kind /\ text.targets = texts
    <3> HIDE DEF texts, text
    <3>1. /\ DOMAIN [router EXCEPT !.targets = texts] = {"kind", "targets"}
          /\ [router EXCEPT !.targets = texts].kind = kind
          /\ [router EXCEPT !.targets = texts].targets = texts
      BY <2>1
    <3> QED BY <2>2, <3>1 DEF ++
  <2>4. ParseRouter(text) =
          {[kind |-> kind, targets |-> targets] : targets \in ParseTargets(kind, texts)}
    <3> HIDE DEF texts, text
    <3>1. ParseRouter(text) =
            {[kind |-> text.kind, targets |-> targets] :
               targets \in ParseTargets(text.kind, text.targets)}
      BY <1>2, <2>1, <2>3, Zenon DEF ParseRouter, ParseTargets
    <3> QED BY <2>3, <3>1
  <2>5. \A t \in DOMAIN old :
          /\ ParseTarget(kind, texts[t]) \subseteq {ForgottenTarget(old[t])}
          /\ (kind # "header" \/ old[t].is_alive = "unknown") => ParseTarget(kind, texts[t]) # {}
    BY <2>1, TargetBack
  <2>6. DOMAIN texts = DOMAIN old
    OBVIOUS
  <2>7. ASSUME NEW targets \in ParseTargets(kind, texts)
        PROVE  [kind |-> kind, targets |-> targets] = ForgottenRouter(router)
    <3>1. targets = [t \in DOMAIN old |-> ForgottenTarget(old[t])]
      <4>1. /\ targets = [t \in DOMAIN texts |-> targets[t]]
            /\ \A t \in DOMAIN texts : targets[t] \in ParseTarget(kind, texts[t])
        BY ParsedTargets
      <4> HIDE DEF texts, old, kind
      <4>2. \A t \in DOMAIN old : targets[t] = ForgottenTarget(old[t])
        BY <2>5, <2>6, <4>1
      <4> QED BY <2>6, <4>1, <4>2
    <3>2. ForgottenRouter(router) = [router EXCEPT !.targets = [t \in DOMAIN old |-> ForgottenTarget(old[t])]]
      BY <1>2 DEF ForgottenRouter, ForgottenTarget
    <3> QED BY <2>1, <3>1, <3>2
  <2>8. ASSUME ~(kind = "header" /\ RouterKnown(router)) PROVE ParseTargets(kind, texts) # {}
    <3>1. \A t \in DOMAIN texts : ParseTarget(kind, texts[t]) # {}
      BY <1>2, <2>5, <2>6, <2>8 DEF RouterKnown
    <3> QED BY <3>1, ParsedTargets
  <2> HIDE DEF text, texts, kind
  <2> QED BY <2>4, <2>7, <2>8 DEF text, kind
<1> QED BY <1>1, <1>2

-----------------------------------------------------------------------------
(* Routes *)

Route(id, ms, r, mws) == [id |-> id, matchers |-> ms, router |-> r, middlewares |-> mws]

LEMMA ParsedRoute ==
  ASSUME NEW text
  PROVE  ParseRoute(text) =
           {Route(Field(text, "route_id", Generated), ms, r, mws) :
              ms \in ParseMatchers(text), r \in ParseRouter(text.forward_to),
              mws \in ParseMiddlewares(text)}
BY DEF ParseRoute, Route

LEMMA RouteIn ==
  ASSUME NEW text, RouteTextOK(text), NEW route \in ParseRoute(text)
  PROVE  RouteOK(route)
<1> DEFINE matchers == Field(text, "matchers", <<>>)
           middlewares == Field(text, "middlewares", <<>>)
<1>1. PICK ms \in ParseMatchers(text), r \in ParseRouter(text.forward_to),
           mws \in ParseMiddlewares(text) :
        route = Route(Field(text, "route_id", Generated), ms, r, mws)
  BY ParsedRoute
<1>0. ms \in ParseAll(ParseMatcher, matchers) /\ mws \in ParseAll(ParseMiddleware, middlewares)
  BY Zenon DEF ParseMatchers, ParseMiddlewares
<1>2. \A k \in DOMAIN matchers : "kind" \in DOMAIN matchers[k]
  BY DEF RouteTextOK, Field
<1>3. \A k \in DOMAIN middlewares : MiddlewareTextOK(middlewares[k])
  BY DEF RouteTextOK, Field
<1> HIDE DEF matchers, middlewares
<1>4. IsMap(ms) /\ DOMAIN ms = DOMAIN matchers /\ \A k \in DOMAIN ms : MatcherOK(ms[k])
  <2>1. /\ ms = [k \in DOMAIN matchers |-> ms[k]]
        /\ \A k \in DOMAIN matchers : ms[k] \in ParseMatcher(matchers[k])
    BY <1>0, ParsedMatchers, Zenon
  <2>2. DOMAIN ms = DOMAIN matchers
    BY <2>1
  <2> QED BY <1>2, <2>1, <2>2, MatcherIn DEF IsMap
<1>5. IsMap(mws) /\ DOMAIN mws = DOMAIN middlewares /\ \A k \in DOMAIN mws : MiddlewareOK(mws[k])
  <2>1. /\ mws = [k \in DOMAIN middlewares |-> mws[k]]
        /\ \A k \in DOMAIN middlewares : mws[k] \in ParseMiddleware(middlewares[k])
    BY <1>0, ParsedMiddlewares, Zenon
  <2>2. DOMAIN mws = DOMAIN middlewares
    BY <2>1
  <2> QED BY <1>3, <2>1, <2>2, MiddlewareIn DEF IsMap
<1>6. RouterShape(r)
  BY RouterIn
<1> QED BY <1>1, <1>4, <1>5, <1>6 DEF RouteOK, Route

LEMMA ForgottenIs ==
  ASSUME NEW route, RouteOK(route)
  PROVE  Forgotten(route) =
           Route(Generated, route.matchers, ForgottenRouter(route.router), route.middlewares)
<1>1. Forgotten(route) = [route EXCEPT !.id = Generated, !.router = ForgottenRouter(route.router)]
  BY DEF Forgotten, RouteOK
<1> QED BY <1>1 DEF RouteOK, Route

\* A route that is saved and parsed is the one it was, without its id and the
\* statuses, or does not parse; and it does if it is a lasting one.
LEMMA RoundTrip ==
  ASSUME NEW route, RouteOK(route)
  PROVE  /\ ParseRoute(SavedRoute(route)) \subseteq {Forgotten(route)}
         /\ Lasting(route) => ParseRoute(SavedRoute(route)) # {}
<1> DEFINE ms == route.matchers
           mws == route.middlewares
           texts == [k \in DOMAIN mws |-> MiddlewareText(mws[k])]
           text == SavedRoute(route)
<1>1. /\ Field(text, "route_id", Generated) = Generated
      /\ Field(text, "matchers", <<>>) = ms
      /\ Field(text, "middlewares", <<>>) = texts
      /\ text.forward_to = RouterText(route.router)
  BY DEF SavedRoute, Field
<1>2. /\ ParseRoute(text) =
             {Route(Generated, m, r, w) :
                m \in ParseMatchers(text), r \in ParseRouter(RouterText(route.router)),
                w \in ParseMiddlewares(text)}
      /\ ParseMatchers(text) = ParseAll(ParseMatcher, ms)
      /\ ParseMiddlewares(text) = ParseAll(ParseMiddleware, texts)
  <2> HIDE DEF text, ms, texts
  <2>1. /\ ParseMatchers(text) = ParseAll(ParseMatcher, ms)
        /\ ParseMiddlewares(text) = ParseAll(ParseMiddleware, texts)
    BY <1>1, Zenon DEF ParseMatchers, ParseMiddlewares
  <2> QED BY <1>1, <2>1, ParsedRoute
<1>3. /\ IsMap(ms) /\ \A k \in DOMAIN ms : MatcherOK(ms[k])
      /\ IsMap(mws) /\ \A k \in DOMAIN mws : MiddlewareOK(mws[k])
      /\ RouterShape(route.router)
  BY DEF RouteOK
<1>4. ParseAll(ParseMatcher, ms) = {ms}
  <2> HIDE DEF ms
  <2>1. \A k \in DOMAIN ms : ParseMatcher(ms[k]) = {ms[k]}
    BY <1>3, MatcherBack
  <2>2. ParseAll(ParseMatcher, ms) # {}
    <3>1. \A k \in DOMAIN ms : ParseMatcher(ms[k]) # {}
      BY <2>1
    <3> QED BY <3>1, ParsedMatchers, Zenon
  <2>3. ASSUME NEW m \in ParseAll(ParseMatcher, ms) PROVE m = ms
    <3>1. m = [k \in DOMAIN ms |-> m[k]] /\ \A k \in DOMAIN ms : m[k] \in ParseMatcher(ms[k])
      BY ParsedMatchers, Zenon
    <3>2. \A k \in DOMAIN ms : m[k] = ms[k]
      BY <2>1, <3>1
    <3> QED BY <1>3, <3>1, <3>2 DEF IsMap
  <2> QED BY <2>2, <2>3
<1>5. \A k \in DOMAIN mws :
        /\ ParseMiddleware(texts[k]) \subseteq {mws[k]}
        /\ LastingMiddleware(mws[k]) => ParseMiddleware(texts[k]) # {}
  BY <1>3, MiddlewareBack
<1>6. DOMAIN texts = DOMAIN mws
  OBVIOUS
<1> HIDE DEF texts, ms, mws, text
<1>7. ASSUME NEW w \in ParseAll(ParseMiddleware, texts) PROVE w = mws
  <2>1. w = [k \in DOMAIN texts |-> w[k]] /\ \A k \in DOMAIN texts : w[k] \in ParseMiddleware(texts[k])
    BY ParsedMiddlewares, Zenon
  <2>2. \A k \in DOMAIN mws : w[k] = mws[k]
    BY <1>5, <1>6, <2>1
  <2> QED BY <1>3, <1>6, <2>1, <2>2 DEF IsMap
<1>8. ParseRouter(RouterText(route.router)) \subseteq {ForgottenRouter(route.router)}
  BY <1>3, RouterBack
<1>9. ParseRoute(text) \subseteq {Forgotten(route)}
  <2>1. Forgotten(route) = Route(Generated, ms, ForgottenRouter(route.router), mws)
    BY ForgottenIs DEF ms, mws
  <2>2. ParseMatchers(text) = {ms} /\ \A w \in ParseMiddlewares(text) : w = mws
    BY <1>2, <1>4, <1>7, Zenon
  <2> QED BY <1>2, <1>8, <2>1, <2>2
<1>10. ASSUME Lasting(route) PROVE ParseRoute(text) # {}
  <2>1. /\ ~(route.router.kind = "header" /\ RouterKnown(route.router))
        /\ \A k \in DOMAIN mws : LastingMiddleware(mws[k])
    BY <1>10 DEF Lasting, Known, RouterKnown, LastingMiddleware, mws
  <2>2. ParseRouter(RouterText(route.router)) # {}
    BY <1>3, <2>1, RouterBack
  <2>3. ParseAll(ParseMiddleware, texts) # {}
    <3>1. \A k \in DOMAIN texts : ParseMiddleware(texts[k]) # {}
      BY <1>5, <1>6, <2>1
    <3> QED BY <3>1, ParsedMiddlewares, Zenon
  <2>4. ParseMatchers(text) # {} /\ ParseMiddlewares(text) # {}
    BY <1>2, <1>4, <2>3, Zenon
  <2>5. \A m \in ParseMatchers(text), r \in ParseRouter(RouterText(route.router)),
           w \in ParseMiddlewares(text) : Route(Generated, m, r, w) \in ParseRoute(text)
    BY <1>2
  <2> QED BY <2>2, <2>4, <2>5
<1> QED BY <1>9, <1>10 DEF text

-----------------------------------------------------------------------------
(* Services and configurations *)

ServiceOK(service) ==
  /\ service = [routes |-> service.routes, wired |-> service.wired]
  /\ service.wired \in BOOLEAN
  /\ IsList(service.routes)
  /\ \A k \in DOMAIN service.routes : RouteOK(service.routes[k])

CfgOK(cfg) ==
  /\ IsMap(cfg) /\ DOMAIN cfg \subseteq Ports
  /\ \A p \in DOMAIN cfg : ServiceOK(cfg[p])

LEMMA ServiceIn ==
  ASSUME NEW text, ServiceTextOK(text), NEW parsed \in ParseService(text)
  PROVE  /\ parsed.listen = text.listen
         /\ ServiceOK(parsed.service) /\ parsed.service.wired = FALSE
<1>1. PICK routes \in ParseAll(ParseRoute, text.routes) :
        parsed = [listen |-> text.listen, service |-> Unwired(routes)]
  BY Zenon DEF ParseService
<1>2. /\ routes = [k \in DOMAIN text.routes |-> routes[k]]
      /\ \A k \in DOMAIN text.routes : routes[k] \in ParseRoute(text.routes[k])
  BY <1>1, ParsedRoutes, Zenon
<1>3. IsMap(routes) /\ DOMAIN routes = DOMAIN text.routes
  BY <1>2 DEF IsMap
<1>4. \A k \in DOMAIN routes : RouteOK(routes[k])
  BY <1>2, <1>3, RouteIn DEF ServiceTextOK
<1>5. IsList(routes)
  <2>1. IsList(text.routes)
    BY SequenceIsList DEF ServiceTextOK
  <2> QED BY <1>3, <2>1, FunctionIsList DEF IsList
<1> QED BY <1>1, <1>4, <1>5 DEF ServiceOK, Unwired

LEMMA ConfigIn ==
  ASSUME NEW text, ConfigTextOK(text), NEW cfg \in ParseConfig(text)
  PROVE  /\ IsMap(cfg)
         /\ \A p \in DOMAIN cfg : ServiceOK(cfg[p]) /\ cfg[p].wired = FALSE
<1>1. PICK services \in ParseAll(ParseService, text) : cfg = ByPort(services)
  BY Zenon DEF ParseConfig
<1>2. /\ services = [k \in DOMAIN text |-> services[k]]
      /\ \A k \in DOMAIN text : services[k] \in ParseService(text[k])
  BY <1>1, ParsedServices, Zenon
<1>3. DOMAIN services = DOMAIN text
  BY <1>2
<1>4. \A k \in DOMAIN services :
        ServiceOK(services[k].service) /\ services[k].service.wired = FALSE
  BY <1>2, <1>3, ServiceIn DEF ConfigTextOK
<1>5. IsList(text)
  BY SequenceIsList DEF ConfigTextOK
<1> DEFINE On(p) == {k \in DOMAIN services : services[k].listen = p}
           Last(p) == CHOOSE k \in DOMAIN services :
                        /\ services[k].listen = p
                        /\ \A j \in DOMAIN services : services[j].listen = p => j <= k
<1>6. cfg = [p \in {services[k].listen : k \in DOMAIN services} |-> services[Last(p)].service]
  BY <1>1 DEF ByPort
<1>7. ASSUME NEW p \in {services[k].listen : k \in DOMAIN services}
      PROVE  Last(p) \in DOMAIN services
  <2>1. /\ On(p) # {} /\ On(p) \in SUBSET Nat
        /\ Len(text) \in Nat /\ \A k \in On(p) : k <= Len(text)
    BY <1>3, <1>5 DEF IsList
  <2>2. Max(On(p)) \in On(p) /\ \A j \in On(p) : j <= Max(On(p))
    <3> HIDE DEF On
    <3> QED BY <2>1, MaxOfNats
  <2>3. /\ Max(On(p)) \in DOMAIN services /\ services[Max(On(p))].listen = p
        /\ \A j \in DOMAIN services : services[j].listen = p => j <= Max(On(p))
    BY <2>2
  <2> HIDE DEF On
  <2> QED BY <2>3
<1> HIDE DEF Last
<1> QED BY <1>4, <1>6, <1>7 DEF IsMap

\* What a process starts from.
LEMMA Started ==
  /\ CfgOK(StartedConfig)
  /\ \A p \in DOMAIN StartedConfig : Holds(StartedConfig, p)
<1> DEFINE loaded == CHOOSE cfg \in ParseConfig(Startup) : TRUE
<1>1. loaded \in ParseConfig(Startup)
  BY ConfigAssumption
<1>2. StartedConfig = [p \in DOMAIN loaded |-> [loaded[p] EXCEPT !.wired = TRUE]]
  BY DEF StartedConfig
<1> HIDE DEF loaded
<1>3. /\ DOMAIN loaded \subseteq Ports
      /\ \A p \in DOMAIN loaded : ServiceOK(loaded[p])
  BY <1>1, ConfigIn, ConfigAssumption, TextAssumption
<1>4. DOMAIN StartedConfig = DOMAIN loaded /\ IsMap(StartedConfig)
  BY <1>2 DEF IsMap
<1>5. ASSUME NEW p \in DOMAIN StartedConfig
      PROVE  ServiceOK(StartedConfig[p]) /\ StartedConfig[p].wired
  <2>1. /\ StartedConfig[p].routes = loaded[p].routes /\ StartedConfig[p].wired = TRUE
        /\ StartedConfig[p] = [routes |-> loaded[p].routes, wired |-> TRUE]
    <3>1. StartedConfig[p] = [loaded[p] EXCEPT !.wired = TRUE]
      BY <1>2
    <3>2. loaded[p] = [routes |-> loaded[p].routes, wired |-> loaded[p].wired]
      BY <1>3, <1>4 DEF ServiceOK
    <3> QED BY <3>1, <3>2
  <2> QED BY <1>3, <1>4, <2>1 DEF ServiceOK
<1> QED BY <1>3, <1>4, <1>5 DEF CfgOK, Holds

\* The routes that DELETE retains, by the last of the first k ones.
Kept(routes, id, kept, k) ==
  IF k = 0 THEN <<>>
  ELSE IF routes[k].id = id THEN kept[k - 1] ELSE Append(kept[k - 1], routes[k])

\* The recursion that Retained stands for is well-founded.
LEMMA KeptExists ==
  ASSUME NEW routes, NEW id
  PROVE  \A n \in Nat : \E kept : kept = [k \in 0..n |-> Kept(routes, id, kept, k)]
<1> DEFINE Defined == {n \in Nat : \E kept : kept = [k \in 0..n |-> Kept(routes, id, kept, k)]}
<1>1. 0 \in Defined
  <2> DEFINE kept == [k \in 0..0 |-> <<>>]
  <2>1. kept = [k \in 0..0 |-> Kept(routes, id, kept, k)]
    BY DEF Kept
  <2> QED BY <2>1
<1>2. ASSUME NEW n \in Nat, n \in Defined PROVE n + 1 \in Defined
  <2>1. PICK kept : kept = [k \in 0..n |-> Kept(routes, id, kept, k)]
    BY <1>2
  <2> DEFINE next == [k \in 0..(n + 1) |->
                        IF k = n + 1 THEN Kept(routes, id, kept, k) ELSE kept[k]]
  <2>2. ASSUME NEW k \in 0..(n + 1) PROVE next[k] = Kept(routes, id, next, k)
    <3>1. k # 0 => k - 1 \in 0..n /\ next[k - 1] = kept[k - 1]
      OBVIOUS
    <3>2. next[k] = Kept(routes, id, kept, k)
      BY <2>1
    <3> HIDE DEF next
    <3> QED BY <3>1, <3>2 DEF Kept
  <2>3. next = [k \in 0..(n + 1) |-> next[k]] /\ DOMAIN next = 0..(n + 1)
    OBVIOUS
  <2> HIDE DEF next
  <2>4. next = [k \in 0..(n + 1) |-> Kept(routes, id, next, k)]
    BY <2>2, <2>3, Zenon
  <2> QED BY <2>4
<1> HIDE DEF Defined
<1>3. \A n \in Nat : n \in Defined
  BY <1>1, <1>2, SetInduction
<1> QED BY <1>3 DEF Defined

\* What DELETE leaves of a service is a list of routes it had.
LEMMA RetainedIsPart ==
  ASSUME NEW p, NEW id, IsList(config[p].routes)
  PROVE  /\ IsList(Retained(p, id))
         /\ \A k \in DOMAIN Retained(p, id) :
              \E j \in DOMAIN config[p].routes : Retained(p, id)[k] = config[p].routes[j]
<1> DEFINE routes == config[p].routes
           kept == CHOOSE f : f = [k \in 0..Len(routes) |-> Kept(routes, id, f, k)]
           Part(list) == /\ IsList(list)
                         /\ \A k \in DOMAIN list : \E j \in DOMAIN routes : list[k] = routes[j]
<1>1. kept = [k \in 0..Len(routes) |-> Kept(routes, id, kept, k)]
  <2>1. \E f : f = [k \in 0..Len(routes) |-> Kept(routes, id, f, k)]
    BY KeptExists DEF IsList
  <2> QED BY <2>1, Zenon
<1>2. Retained(p, id) = kept[Len(routes)]
  BY Zenon DEF Retained, Kept
<1> HIDE DEF kept
<1> DEFINE Parts == {k \in Nat : k <= Len(routes) => Part(kept[k])}
<1>3. 0 \in Parts
  <2>1. kept[0] = <<>>
    BY <1>1 DEF Kept, IsList
  <2>2. IsList(<<>>) /\ DOMAIN <<>> = {}
    BY DEF IsList, IsMap
  <2> QED BY <2>1, <2>2
<1>4. ASSUME NEW n \in Nat, n \in Parts PROVE n + 1 \in Parts
  <2> SUFFICES ASSUME n + 1 <= Len(routes) PROVE Part(kept[n + 1])
    OBVIOUS
  <2>1. Len(routes) \in Nat /\ DOMAIN routes = 1..Len(routes)
    BY DEF IsList
  <2>2. n \in 0..Len(routes) /\ n + 1 \in 0..Len(routes) /\ n + 1 \in DOMAIN routes
    BY <2>1
  <2>3. Part(kept[n])
    BY <1>4, <2>1
  <2>4. kept[n + 1] = kept[n] \/ kept[n + 1] = Append(kept[n], routes[n + 1])
    <3>1. kept[n + 1] = Kept(routes, id, kept, n + 1)
      <4> HIDE DEF routes
      <4> QED BY <1>1, <2>2
    <3>2. (n + 1) - 1 = n /\ n + 1 # 0
      OBVIOUS
    <3> HIDE DEF routes
    <3> QED BY <3>1, <3>2 DEF Kept
  <2>5. Part(Append(kept[n], routes[n + 1]))
    <3> DEFINE list == kept[n]
    <3>1. IsList(list)
      BY <2>3
    <3> HIDE DEF list
    <3>2. /\ IsList(Append(list, routes[n + 1])) /\ Len(Append(list, routes[n + 1])) = Len(list) + 1
          /\ Append(list, routes[n + 1])[Len(list) + 1] = routes[n + 1]
          /\ \A k \in 1..Len(list) : Append(list, routes[n + 1])[k] = list[k]
      BY <3>1, AppendToList
    <3>3. \A k \in 1..(Len(list) + 1) : k \in 1..Len(list) \/ k = Len(list) + 1
      BY <3>1 DEF IsList
    <3>4. \A k \in 1..Len(list) : \E j \in DOMAIN routes : list[k] = routes[j]
      BY <2>3, <3>1 DEF IsList, list
    <3> QED BY <2>2, <3>2, <3>3, <3>4 DEF IsList, list
  <2> HIDE DEF Part
  <2> QED BY <2>3, <2>4, <2>5
<1> HIDE DEF Parts
<1>5. \A n \in Nat : n \in Parts
  BY <1>3, <1>4, SetInduction
<1>6. Part(kept[Len(routes)])
  BY <1>5 DEF Parts, IsList
<1> QED BY <1>2, <1>6

-----------------------------------------------------------------------------
(* The inductive invariant *)

SaveOK(save) ==
  /\ save = [snapshot |-> save.snapshot, stage |-> save.stage]
  /\ CfgOK(save.snapshot) /\ save.stage \in {"spawned", "opened"}

ReloadOK(r) ==
  /\ CfgOK(r.new) /\ CfgOK(r.seen)
  /\ DOMAIN r.new = DOMAIN r.seen
  /\ \A p \in DOMAIN r.new : ~r.new[p].wired

\* The configurations in memory and in the tasks are in order.
ConfigsOK ==
  /\ CfgOK(config)
  /\ DOMAIN saves \subseteq 1..calls /\ \A n \in DOMAIN saves : SaveOK(saves[n])
  /\ \A r \in reloads : ReloadOK(r)

\* The other variables are in their types, and the bound on calls is kept.
OthersOK ==
  /\ listening \in [Ports -> {"none", "starting", "up", "down"}]
  /\ file.state \in {"absent", "empty", "whole", "garbled"}
  /\ calls \in Nat /\ IsFiniteSet(reloads) /\ calls + Cardinality(reloads) <= MaxCalls
  /\ crashes \in 0..MaxCrashes
  /\ released \subseteq Ports
  /\ alone \in BOOLEAN

\* A sender in the configuration is that of a listener, and one that was not
\* given up is there.
SendersOK ==
  /\ \A p \in DOMAIN config : config[p].wired => listening[p] # "none"
  /\ \A p \in DOMAIN StartedConfig \ released : Holds(config, p)

\* The configuration is what the snapshot was, but for statuses found since.
Follows(cfg, snapshot) ==
  /\ DOMAIN cfg = DOMAIN snapshot
  /\ \A p \in DOMAIN cfg :
       /\ Len(cfg[p].routes) = Len(snapshot[p].routes)
       /\ \A k \in DOMAIN cfg[p].routes :
            LET new == cfg[p].routes[k]
                old == snapshot[p].routes[k]
            IN Forgotten(new) = Forgotten(old) /\ (Known(old) => Known(new))

\* A text from which a process would start with the configuration.
Holding(text, cfg) ==
  /\ DOMAIN text = DOMAIN cfg
  /\ \A p \in DOMAIN cfg :
       /\ Len(text[p]) = Len(cfg[p].routes)
       /\ \A k \in DOMAIN cfg[p].routes :
            LET route == cfg[p].routes[k]
                loaded == ParseRoute(text[p][k])
            IN /\ loaded \subseteq {Forgotten(route)}
               /\ Lasting(route) => loaded # {}

\* Where the last call's save runs by itself, it is under way with the
\* configuration of that call, or done.
FileOK ==
  alone =>
    \/ DOMAIN saves = {} /\ file.state = "whole" /\ Holding(file.text, config)
    \/ \E n \in DOMAIN saves :
         /\ DOMAIN saves = {n}
         /\ Follows(config, saves[n].snapshot)
         /\ saves[n].stage = "opened" => file.state = "empty"

IInv == ConfigsOK /\ OthersOK /\ SendersOK /\ FileOK

-----------------------------------------------------------------------------
(* Edits of a configuration *)

With(list, k, e) == [list EXCEPT ![k] = e]
WithRoutes(cfg, p, list) == [cfg EXCEPT ![p].routes = list]
WithRouteAt(cfg, p, k, route) == [cfg EXCEPT ![p].routes[k] = route]

LEMMA ListWith ==
  ASSUME NEW list, IsList(list), NEW k \in DOMAIN list, NEW e
  PROVE  LET new == With(list, k, e)
         IN /\ IsList(new) /\ Len(new) = Len(list) /\ DOMAIN new = DOMAIN list
            /\ new[k] = e
            /\ \A j \in DOMAIN list : j # k => new[j] = list[j]
<1> DEFINE new == With(list, k, e)
<1>1. /\ IsMap(new) /\ DOMAIN new = 1..Len(list) /\ Len(list) \in Nat
      /\ DOMAIN new = DOMAIN list /\ new[k] = e
      /\ \A j \in DOMAIN list : j # k => new[j] = list[j]
  BY DEF IsList, IsMap, With
<1> HIDE DEF new
<1>2. IsList(new) /\ Len(new) = Len(list)
  BY <1>1, FunctionIsList
<1> QED BY <1>1, <1>2 DEF new

\* The routes of one service are replaced.
LEMMA EditRoutes ==
  ASSUME NEW cfg, CfgOK(cfg), NEW p \in DOMAIN cfg, NEW list, IsList(list),
         \A k \in DOMAIN list : RouteOK(list[k])
  PROVE  LET new == WithRoutes(cfg, p, list)
         IN /\ CfgOK(new) /\ DOMAIN new = DOMAIN cfg
            /\ \A q \in DOMAIN cfg : new[q].wired = cfg[q].wired
            /\ new[p].routes = list
            /\ \A q \in DOMAIN cfg : q # p => new[q] = cfg[q]
<1> DEFINE service == [cfg[p] EXCEPT !.routes = list]
           new == [cfg EXCEPT ![p] = service]
<1>1. cfg[p] = [routes |-> cfg[p].routes, wired |-> cfg[p].wired] /\ cfg[p].wired \in BOOLEAN
  BY DEF CfgOK, ServiceOK
<1>2. /\ service = [routes |-> list, wired |-> cfg[p].wired]
      /\ service.routes = list /\ service.wired = cfg[p].wired
  BY <1>1
<1> HIDE DEF service
<1>3. ServiceOK(service)
  BY <1>1, <1>2 DEF ServiceOK
<1>4. /\ DOMAIN new = DOMAIN cfg /\ IsMap(new) /\ new[p] = service
      /\ \A q \in DOMAIN cfg : q # p => new[q] = cfg[q]
  BY DEF CfgOK, IsMap
<1> HIDE DEF new
<1>5. CfgOK(new)
  BY <1>3, <1>4 DEF CfgOK
<1>6. new = WithRoutes(cfg, p, list)
  BY DEF new, service, WithRoutes
<1> QED BY <1>2, <1>4, <1>5, <1>6, Zenon

\* One route of one service is replaced.
LEMMA EditRoute ==
  ASSUME NEW cfg, NEW p, NEW k, NEW route,
         CfgOK(cfg), p \in DOMAIN cfg, k \in DOMAIN cfg[p].routes, RouteOK(route)
  PROVE  LET new == WithRouteAt(cfg, p, k, route)
         IN /\ CfgOK(new) /\ DOMAIN new = DOMAIN cfg
            /\ \A q \in DOMAIN cfg : new[q].wired = cfg[q].wired
            /\ \A q \in DOMAIN cfg : q # p => new[q] = cfg[q]
            /\ new[p].routes = With(cfg[p].routes, k, route)
<1> DEFINE list == With(cfg[p].routes, k, route)
<1>1. IsList(cfg[p].routes) /\ \A j \in DOMAIN cfg[p].routes : RouteOK(cfg[p].routes[j])
  BY DEF CfgOK, ServiceOK
<1>2. IsList(list) /\ \A j \in DOMAIN list : RouteOK(list[j])
  BY <1>1, ListWith
<1>3. WithRouteAt(cfg, p, k, route) = WithRoutes(cfg, p, list)
  BY DEF WithRouteAt, WithRoutes, With
<1> HIDE DEF list
<1>4. LET new == WithRoutes(cfg, p, list)
      IN /\ CfgOK(new) /\ DOMAIN new = DOMAIN cfg
         /\ \A q \in DOMAIN cfg : new[q].wired = cfg[q].wired
         /\ new[p].routes = list
         /\ \A q \in DOMAIN cfg : q # p => new[q] = cfg[q]
  BY <1>2, EditRoutes
<1> QED BY <1>3, <1>4, Zenon DEF list

\* A route is deleted: services it was the last one of are dropped.
LEMMA WithoutRouteOK ==
  ASSUME NEW id, CfgOK(config)
  PROVE  /\ CfgOK(WithoutRoute(id))
         /\ DOMAIN WithoutRoute(id) = {p \in DOMAIN config : Retained(p, id) # <<>>}
         /\ \A p \in DOMAIN WithoutRoute(id) : WithoutRoute(id)[p].wired = config[p].wired
<1> DEFINE new == WithoutRoute(id)
<1>1. /\ DOMAIN new = {p \in DOMAIN config : Retained(p, id) # <<>>} /\ IsMap(new)
      /\ \A p \in DOMAIN new : new[p] = [config[p] EXCEPT !.routes = Retained(p, id)]
  BY DEF WithoutRoute, IsMap
<1> HIDE DEF new
<1>2. ASSUME NEW p \in DOMAIN new
      PROVE  ServiceOK(new[p]) /\ new[p].wired = config[p].wired
  <2>1. ServiceOK(config[p])
    BY <1>1 DEF CfgOK
  <2>2. IsList(Retained(p, id)) /\ \A k \in DOMAIN Retained(p, id) : RouteOK(Retained(p, id)[k])
    BY <2>1, RetainedIsPart DEF ServiceOK
  <2>3. /\ new[p] = [routes |-> Retained(p, id), wired |-> config[p].wired]
        /\ new[p].routes = Retained(p, id) /\ new[p].wired = config[p].wired
    BY <1>1, <2>1 DEF ServiceOK
  <2> QED BY <2>1, <2>2, <2>3 DEF ServiceOK
<1> QED BY <1>1, <1>2 DEF CfgOK, new

\* The status of an endpoint changes: all but the statuses is what it was.
LEMMA UpdatedRouter ==
  ASSUME NEW router, RouterShape(router), NEW e, NEW status \in {"alive", "dead"}
  PROVE  LET new == UpdateRouteAlive(router, e, status)
         IN /\ RouterShape(new)
            /\ ForgottenRouter(new) = ForgottenRouter(router)
            /\ RouterKnown(router) => RouterKnown(new)
<1> DEFINE new == UpdateRouteAlive(router, e, status)
<1>1. CASE router.kind = "file"
  BY <1>1 DEF UpdateRouteAlive
<1>2. CASE router.kind # "file"
  <2>1. /\ router = [kind |-> router.kind, targets |-> router.targets]
        /\ router.kind \in DOMAIN Needs /\ IsMap(router.targets)
        /\ \A t \in DOMAIN router.targets :
             IsMap(router.targets[t]) /\ TargetOK(router.kind, router.targets[t])
    BY <1>2 DEF RouterShape
  <2> DEFINE old == router.targets
             targets == [t \in DOMAIN old |-> IF old[t].endpoint = e
                                              THEN [old[t] EXCEPT !.is_alive = status] ELSE old[t]]
  <2>2. new = [router EXCEPT !.targets = targets]
    BY <1>2 DEF UpdateRouteAlive
  <2>3. /\ new = [kind |-> router.kind, targets |-> targets]
        /\ new.kind = router.kind /\ new.targets = targets
    <3> HIDE DEF targets
    <3> QED BY <2>1, <2>2
  <2>4. DOMAIN targets = DOMAIN old /\ IsMap(targets)
    BY DEF IsMap
  <2>5. ASSUME NEW t \in DOMAIN old
        PROVE  /\ IsMap(targets[t]) /\ TargetOK(router.kind, targets[t])
               /\ ForgottenTarget(targets[t]) = ForgottenTarget(old[t])
               /\ old[t].is_alive # "unknown" => targets[t].is_alive # "unknown"
    <3>1. IsMap(old[t]) /\ TargetOK(router.kind, old[t])
      BY <2>1
    <3>2. targets[t] = old[t] \/ targets[t] = [old[t] EXCEPT !.is_alive = status]
      OBVIOUS
    <3> HIDE DEF old, targets
    <3>3. CASE targets[t] = old[t]
      BY <3>1, <3>3
    <3>4. CASE targets[t] = [old[t] EXCEPT !.is_alive = status]
      BY <3>1, <3>4 DEF IsMap, TargetOK, ForgottenTarget
    <3> QED BY <3>2, <3>3, <3>4
  <2> HIDE DEF targets, new
  <2>6. RouterShape(new)
    BY <1>2, <2>1, <2>3, <2>4, <2>5 DEF RouterShape
  <2>7. ForgottenRouter(new) = ForgottenRouter(router)
    <3>1. ForgottenRouter(new) = [new EXCEPT !.targets = [t \in DOMAIN targets |-> ForgottenTarget(targets[t])]]
      BY <1>2, <2>3 DEF ForgottenRouter, ForgottenTarget
    <3>2. ForgottenRouter(router) = [router EXCEPT !.targets = [t \in DOMAIN old |-> ForgottenTarget(old[t])]]
      BY <1>2 DEF ForgottenRouter, ForgottenTarget
    <3>3. [t \in DOMAIN targets |-> ForgottenTarget(targets[t])] = [t \in DOMAIN old |-> ForgottenTarget(old[t])]
      BY <2>4, <2>5
    <3> QED BY <2>1, <2>3, <3>1, <3>2, <3>3
  <2>8. RouterKnown(router) => RouterKnown(new)
    BY <2>3, <2>4, <2>5 DEF RouterKnown
  <2> QED BY <2>6, <2>7, <2>8 DEF new
<1> QED BY <1>1, <1>2

-----------------------------------------------------------------------------
(* What each call commits *)

LEMMA FollowsItself ==
  ASSUME NEW cfg
  PROVE  Follows(cfg, cfg)
BY DEF Follows

\* What a commit keeps, of whatever it commits.
LEMMA CommitKeeps ==
  ASSUME IInv, NEW new, CfgOK(new), Commit(new),
         \A p \in DOMAIN new : new[p].wired => p \in DOMAIN config /\ config[p].wired
  PROVE  /\ CfgOK(config') /\ config' = new
         /\ DOMAIN saves' \subseteq 1..calls' /\ \A n \in DOMAIN saves' : SaveOK(saves'[n])
         /\ calls' = calls + 1
         /\ listening' = listening /\ file' = file /\ crashes' = crashes
         /\ alone' \in BOOLEAN
         /\ \A p \in DOMAIN config' : config'[p].wired => listening'[p] # "none"
         /\ FileOK'
<1> DEFINE save == [snapshot |-> new, stage |-> "spawned"]
<1>1. /\ config' = new /\ calls' = calls + 1
      /\ saves' = [n \in {calls'} |-> save] ++ saves
      /\ alone' = (DOMAIN saves = {})
      /\ listening' = listening /\ file' = file /\ crashes' = crashes
  BY DEF Commit
<1>2. calls \in Nat
  BY DEF IInv, OthersOK
<1>3. /\ DOMAIN saves' = DOMAIN saves \cup {calls'}
      /\ saves'[calls'] = save
      /\ \A n \in DOMAIN saves : n # calls' => saves'[n] = saves[n]
  <2> HIDE DEF save
  <2> QED BY <1>1 DEF ++
<1>4. DOMAIN saves' \subseteq 1..calls'
  BY <1>1, <1>2, <1>3 DEF IInv, ConfigsOK
<1>5. SaveOK(save) /\ save.snapshot = new /\ save.stage = "spawned"
  BY DEF SaveOK
<1> HIDE DEF save
<1>6. \A n \in DOMAIN saves' : SaveOK(saves'[n])
  BY <1>3, <1>5 DEF IInv, ConfigsOK
<1>7. \A p \in DOMAIN config' : config'[p].wired => listening'[p] # "none"
  BY <1>1 DEF IInv, SendersOK
<1>8. FileOK'
  <2> SUFFICES ASSUME alone' PROVE \E n \in DOMAIN saves' :
                 /\ DOMAIN saves' = {n}
                 /\ Follows(config', saves'[n].snapshot)
                 /\ saves'[n].stage = "opened" => file'.state = "empty"
    BY DEF FileOK
  <2>1. DOMAIN saves' = {calls'}
    BY <1>1, <1>3
  <2>2. Follows(config', saves'[calls'].snapshot) /\ saves'[calls'].stage = "spawned"
    BY <1>1, <1>3, <1>5, FollowsItself
  <2> QED BY <2>1, <2>2
<1> QED BY <1>1, <1>4, <1>6, <1>7, <1>8

\* A commit of a call that finds room.
LEMMA CallKeeps ==
  ASSUME IInv, Room, NEW new, CfgOK(new), Commit(new), reloads' = reloads,
         \A p \in DOMAIN new : new[p].wired => p \in DOMAIN config /\ config[p].wired,
         released' \subseteq Ports,
         \A p \in DOMAIN StartedConfig \ released' : Holds(new, p)
  PROVE  IInv'
<1>1. calls' + Cardinality(reloads') <= MaxCalls /\ calls' \in Nat
  <2>1. Cardinality(reloads) \in Nat /\ calls \in Nat
    BY FS_CardinalityType DEF IInv, OthersOK
  <2> QED BY <2>1, CommitKeeps, BoundAssumption DEF Room
<1>2. ConfigsOK'
  BY CommitKeeps DEF IInv, ConfigsOK
<1>3. OthersOK'
  BY <1>1, CommitKeeps DEF IInv, OthersOK
<1>4. SendersOK'
  BY CommitKeeps DEF IInv, SendersOK, Holds
<1>5. FileOK'
  BY CommitKeeps
<1> QED BY <1>2, <1>3, <1>4, <1>5 DEF IInv

LEMMA PostKeeps ==
  ASSUME IInv, NEW text \in Posts, PostAppConfig(text)
  PROVE  IInv'
<1>1. PICK posted \in ParseService(text) :
        LET p == posted.listen
            routes == posted.service.routes
        IN IF p \in DOMAIN config
           THEN /\ routes # <<>>
                /\ Commit([config EXCEPT ![p].routes = Append(@, Head(routes))])
           ELSE Commit([q \in {p} |-> posted.service] ++ config)
  BY DEF PostAppConfig
<1>2. Room /\ reloads' = reloads /\ released' = released /\ CfgOK(config)
  BY DEF PostAppConfig, IInv, ConfigsOK
<1> DEFINE p == posted.listen
           routes == posted.service.routes
<1>3. ServiceOK(posted.service) /\ posted.service.wired = FALSE /\ p \in Ports
  BY ServiceIn, TextAssumption, ConfigAssumption
<1>4. CASE p \in DOMAIN config
  <2> DEFINE list == Append(config[p].routes, Head(routes))
  <2>1. routes # <<>> /\ Commit([config EXCEPT ![p].routes = list])
    BY <1>1, <1>4
  <2>2. IsList(config[p].routes) /\ \A k \in DOMAIN config[p].routes : RouteOK(config[p].routes[k])
    BY <1>2, <1>4 DEF CfgOK, ServiceOK
  <2>3. RouteOK(Head(routes))
    <3>1. IsList(routes) /\ \A k \in DOMAIN routes : RouteOK(routes[k])
      BY <1>3 DEF ServiceOK
    <3>2. 1 \in DOMAIN routes /\ Head(routes) = routes[1]
      <4> HIDE DEF routes
      <4>1. Len(routes) # 0
        BY <2>1, <3>1 DEF IsList, IsMap
      <4> QED BY <3>1, <4>1 DEF IsList
    <3> QED BY <3>1, <3>2
  <2>4. IsList(list) /\ \A k \in DOMAIN list : RouteOK(list[k])
    <3> HIDE DEF p, routes
    <3>1. /\ IsList(list) /\ Len(list) = Len(config[p].routes) + 1
          /\ list[Len(config[p].routes) + 1] = Head(routes)
          /\ \A k \in 1..Len(config[p].routes) : list[k] = config[p].routes[k]
      BY <2>2, AppendToList
    <3> HIDE DEF list
    <3> QED BY <2>2, <2>3, <3>1 DEF IsList
  <2> DEFINE new == WithRoutes(config, p, list)
  <2>5. /\ CfgOK(new) /\ DOMAIN new = DOMAIN config
        /\ \A q \in DOMAIN config : new[q].wired = config[q].wired
    <3> HIDE DEF list, p
    <3> QED BY <1>2, <1>4, <2>4, EditRoutes
  <2> HIDE DEF new
  <2>6. \A q \in DOMAIN StartedConfig \ released' : Holds(new, q)
    BY <1>2, <2>5 DEF IInv, SendersOK, Holds
  <2>7. released' \subseteq Ports
    BY <1>2 DEF IInv, OthersOK
  <2> QED BY <1>2, <2>1, <2>5, <2>6, <2>7, CallKeeps DEF new, WithRoutes
<1>5. CASE p \notin DOMAIN config
  <2> DEFINE new == [q \in {p} |-> posted.service] ++ config
  <2>1. Commit(new)
    BY <1>1, <1>5
  <2>2. /\ DOMAIN new = DOMAIN config \cup {p} /\ IsMap(new) /\ new[p] = posted.service
        /\ \A q \in DOMAIN config : new[q] = config[q]
    BY <1>5 DEF ++, IsMap
  <2> HIDE DEF new
  <2>3. CfgOK(new)
    BY <1>2, <1>3, <2>2 DEF CfgOK
  <2>4. \A q \in DOMAIN new : new[q].wired => q \in DOMAIN config /\ config[q].wired
    BY <1>3, <2>2
  <2>5. \A q \in DOMAIN StartedConfig \ released' : Holds(new, q)
    BY <1>2, <2>2 DEF IInv, SendersOK, Holds
  <2>6. released' \subseteq Ports
    BY <1>2 DEF IInv, OthersOK
  <2> QED BY <1>2, <2>1, <2>3, <2>4, <2>5, <2>6, CallKeeps
<1> QED BY <1>4, <1>5

LEMMA DeleteKeeps ==
  ASSUME IInv, NEW id \in RouteIds, DeleteRoute(id)
  PROVE  IInv'
<1>1. /\ Room /\ Commit(WithoutRoute(id)) /\ reloads' = reloads
      /\ released' = released \cup {p \in DOMAIN config : Retained(p, id) = <<>>}
  BY DEF DeleteRoute
<1>2. CfgOK(config)
  BY DEF IInv, ConfigsOK
<1>3. released' \subseteq Ports
  BY <1>1, <1>2 DEF IInv, OthersOK, CfgOK
<1>4. \A p \in DOMAIN StartedConfig \ released' : Holds(WithoutRoute(id), p)
  BY <1>1, <1>2, WithoutRouteOK DEF IInv, SendersOK, Holds
<1>5. \A p \in DOMAIN WithoutRoute(id) :
        WithoutRoute(id)[p].wired => p \in DOMAIN config /\ config[p].wired
  BY <1>2, WithoutRouteOK
<1> QED BY <1>1, <1>2, <1>3, <1>4, <1>5, WithoutRouteOK, CallKeeps

LEMMA PutKeeps ==
  ASSUME IInv, NEW text \in Puts, PutRoute(text)
  PROVE  IInv'
<1>1. PICK route \in ParseRoute(text), p \in DOMAIN config :
        \E k \in Find(p, route.id) : Commit([config EXCEPT ![p].routes[k] = route])
  BY DEF PutRoute
<1>8. PICK k \in Find(p, route.id) : Commit([config EXCEPT ![p].routes[k] = route])
  BY <1>1
<1>2. Room /\ reloads' = reloads /\ released' = released /\ CfgOK(config)
  BY DEF PutRoute, IInv, ConfigsOK
<1>3. RouteOK(route)
  BY RouteIn, TextAssumption
<1>4. k \in DOMAIN config[p].routes
  BY <1>2 DEF Find, CfgOK, ServiceOK, IsList
<1> DEFINE new == WithRouteAt(config, p, k, route)
<1>5. /\ CfgOK(new) /\ DOMAIN new = DOMAIN config
      /\ \A q \in DOMAIN config : new[q].wired = config[q].wired
  <2>1. CfgOK(config) /\ p \in DOMAIN config
    BY <1>2
  <2> QED BY <1>3, <1>4, <2>1, EditRoute
<1> HIDE DEF new
<1>6. \A q \in DOMAIN StartedConfig \ released' : Holds(new, q)
  BY <1>2, <1>5 DEF IInv, SendersOK, Holds
<1>7. released' \subseteq Ports
  BY <1>2 DEF IInv, OthersOK
<1> QED BY <1>2, <1>5, <1>6, <1>7, <1>8, CallKeeps DEF new, WithRouteAt

-----------------------------------------------------------------------------
(* What follows a snapshot *)

LEMMA ForgottenKind ==
  ASSUME NEW router, RouterShape(router)
  PROVE  ForgottenRouter(router).kind = router.kind
<1>1. CASE router.kind = "file"
  BY <1>1 DEF ForgottenRouter
<1>2. CASE router.kind # "file"
  <2>1. router = [kind |-> router.kind, targets |-> router.targets]
    BY <1>2 DEF RouterShape
  <2>2. PICK targets : ForgottenRouter(router) = [router EXCEPT !.targets = targets]
    BY <1>2 DEF ForgottenRouter
  <2> QED BY <2>1, <2>2
<1> QED BY <1>1, <1>2

\* A route whose text lasts had one that lasts before statuses were found.
LEMMA LastedBefore ==
  ASSUME NEW new, NEW old, RouteOK(new), RouteOK(old),
         Forgotten(new) = Forgotten(old), Known(old) => Known(new), Lasting(new)
  PROVE  Lasting(old)
<1>1. /\ ForgottenRouter(new.router) = ForgottenRouter(old.router)
      /\ new.middlewares = old.middlewares
  BY ForgottenIs DEF Route
<1>2. new.router.kind = old.router.kind
  BY <1>1, ForgottenKind DEF RouteOK
<1> QED BY <1>1, <1>2 DEF Lasting

LEMMA HoldsOn ==
  ASSUME NEW text, NEW new, NEW old, CfgOK(new), CfgOK(old),
         Follows(new, old), Holding(text, old)
  PROVE  Holding(text, new)
<1>1. DOMAIN text = DOMAIN new /\ DOMAIN new = DOMAIN old
  BY DEF Holding, Follows
<1>2. ASSUME NEW p \in DOMAIN new
      PROVE  /\ Len(text[p]) = Len(new[p].routes)
             /\ DOMAIN new[p].routes = DOMAIN old[p].routes
  BY <1>1, <1>2 DEF Holding, Follows, CfgOK, ServiceOK, IsList
<1>3. ASSUME NEW p \in DOMAIN new, NEW k \in DOMAIN new[p].routes
      PROVE  LET route == new[p].routes[k]
                 loaded == ParseRoute(text[p][k])
             IN /\ loaded \subseteq {Forgotten(route)}
                /\ Lasting(route) => loaded # {}
  <2> DEFINE route == new[p].routes[k]
             former == old[p].routes[k]
  <2>1. RouteOK(route) /\ RouteOK(former)
    BY <1>1, <1>2 DEF CfgOK, ServiceOK
  <2>2. Forgotten(route) = Forgotten(former) /\ (Known(former) => Known(route))
    BY DEF Follows
  <2>3. /\ ParseRoute(text[p][k]) \subseteq {Forgotten(former)}
        /\ Lasting(former) => ParseRoute(text[p][k]) # {}
    BY <1>1, <1>2 DEF Holding
  <2> HIDE DEF route, former
  <2>4. Lasting(route) => Lasting(former)
    BY <2>1, <2>2, LastedBefore
  <2> QED BY <2>2, <2>3, <2>4 DEF route
<1> QED BY <1>1, <1>2, <1>3 DEF Holding

\* The text of a configuration holds it.
LEMMA TextHolds ==
  ASSUME NEW cfg, CfgOK(cfg)
  PROVE  Holding(ConfigText(cfg), cfg)
<1> DEFINE text == ConfigText(cfg)
<1>1. /\ DOMAIN text = DOMAIN cfg
      /\ \A p \in DOMAIN cfg :
           text[p] = [k \in DOMAIN cfg[p].routes |-> SavedRoute(cfg[p].routes[k])]
  BY DEF ConfigText
<1> HIDE DEF text
<1>2. ASSUME NEW p \in DOMAIN cfg
      PROVE  Len(text[p]) = Len(cfg[p].routes)
  <2>1. IsList(cfg[p].routes)
    BY DEF CfgOK, ServiceOK
  <2>2. IsMap(text[p]) /\ DOMAIN text[p] = 1..Len(cfg[p].routes)
    BY <1>1, <2>1 DEF IsMap, IsList
  <2> QED BY <2>1, <2>2, FunctionIsList DEF IsList
<1>3. ASSUME NEW p \in DOMAIN cfg, NEW k \in DOMAIN cfg[p].routes
      PROVE  LET route == cfg[p].routes[k]
                 loaded == ParseRoute(text[p][k])
             IN /\ loaded \subseteq {Forgotten(route)}
                /\ Lasting(route) => loaded # {}
  <2>1. RouteOK(cfg[p].routes[k]) /\ text[p][k] = SavedRoute(cfg[p].routes[k])
    BY <1>1 DEF CfgOK, ServiceOK
  <2> QED BY <2>1, RoundTrip
<1> QED BY <1>1, <1>2, <1>3 DEF Holding, text

LEMMA FollowsOn ==
  ASSUME NEW new, NEW old, NEW snapshot, Follows(new, old), Follows(old, snapshot),
         CfgOK(new), CfgOK(old)
  PROVE  Follows(new, snapshot)
<1>1. ASSUME NEW p \in DOMAIN new PROVE DOMAIN new[p].routes = DOMAIN old[p].routes
  BY <1>1 DEF Follows, CfgOK, ServiceOK, IsList
<1> QED BY <1>1 DEF Follows

-----------------------------------------------------------------------------
(* The other steps *)

LEMMA ValidateKeeps ==
  ASSUME IInv, NEW text \in Reloads, ValidateReload(text)
  PROVE  IInv'
<1>1. PICK new \in ParseConfig(text) :
        SamePorts(new) /\ reloads' = reloads \cup {[new |-> new, seen |-> config]}
  BY DEF ValidateReload
<1>2. Room /\ UNCHANGED <<config, listening, saves, file, calls, crashes, released, alone>>
  BY DEF ValidateReload
<1>3. ReloadOK([new |-> new, seen |-> config])
  <2>1. CfgOK(new) /\ \A p \in DOMAIN new : ~new[p].wired
    BY ConfigIn, TextAssumption, ConfigAssumption DEF CfgOK
  <2> QED BY <1>1, <2>1 DEF ReloadOK, SamePorts, IInv, ConfigsOK
<1>4. ConfigsOK'
  BY <1>1, <1>2, <1>3 DEF IInv, ConfigsOK
<1>5. OthersOK'
  <2>1. IsFiniteSet(reloads') /\ Cardinality(reloads') <= Cardinality(reloads) + 1
    <3>1. PICK r : r = [new |-> new, seen |-> config]
      OBVIOUS
    <3>2. reloads' = reloads \cup {r}
      BY <1>1, <3>1
    <3>3. IsFiniteSet(reloads) /\ Cardinality(reloads) \in Nat
      BY FS_CardinalityType DEF IInv, OthersOK
    <3> QED BY <3>2, <3>3, FS_AddElement
  <2>2. Cardinality(reloads) \in Nat /\ Cardinality(reloads') \in Nat
    BY <2>1, FS_CardinalityType DEF IInv, OthersOK
  <2>3. calls' + Cardinality(reloads') <= MaxCalls
    BY <1>2, <2>1, <2>2, BoundAssumption DEF Room, IInv, OthersOK
  <2> QED BY <1>2, <2>1, <2>3 DEF IInv, OthersOK
<1>6. SendersOK' /\ FileOK'
  BY <1>2 DEF IInv, SendersOK, FileOK
<1> QED BY <1>4, <1>5, <1>6 DEF IInv

LEMMA ApplyKeeps ==
  ASSUME IInv, NEW r \in reloads, ApplyReload(r)
  PROVE  IInv'
<1>1. /\ Commit(r.new) /\ reloads' = reloads \ {r}
      /\ released' = released \cup DOMAIN config
  BY DEF ApplyReload, Reloaded
<1>2. CfgOK(r.new) /\ \A p \in DOMAIN r.new : ~r.new[p].wired
  BY DEF IInv, ConfigsOK, ReloadOK
<1>3. ConfigsOK'
  BY <1>1, <1>2, CommitKeeps DEF IInv, ConfigsOK
<1>4. OthersOK'
  <2>1. IsFiniteSet(reloads') /\ Cardinality(reloads') = Cardinality(reloads) - 1
    BY <1>1, FS_RemoveElement DEF IInv, OthersOK
  <2>2. Cardinality(reloads) \in Nat /\ Cardinality(reloads') \in Nat
    BY <2>1, FS_CardinalityType DEF IInv, OthersOK
  <2>3. calls' = calls + 1 /\ calls \in Nat
    BY <1>1, <1>2, CommitKeeps DEF IInv, OthersOK
  <2>4. calls' + Cardinality(reloads') <= MaxCalls /\ calls' \in Nat
    BY <2>1, <2>2, <2>3, BoundAssumption DEF IInv, OthersOK
  <2>5. released' \subseteq Ports
    BY <1>1 DEF IInv, OthersOK, ConfigsOK, CfgOK
  <2> QED BY <1>1, <1>2, <2>1, <2>4, <2>5, CommitKeeps DEF IInv, OthersOK
<1>5. SendersOK'
  BY <1>1, <1>2, CommitKeeps DEF IInv, SendersOK, Holds
<1>6. FileOK'
  BY <1>1, <1>2, CommitKeeps
<1> QED BY <1>3, <1>4, <1>5, <1>6 DEF IInv

LEMMA OpenKeeps ==
  ASSUME IInv, NEW n, OpenFile(n)
  PROVE  IInv'
<1> DEFINE save == [saves[n] EXCEPT !.stage = "opened"]
<1>1. /\ n \in DOMAIN saves /\ saves' = [saves EXCEPT ![n] = save]
      /\ file' = [state |-> "empty", text |-> <<>>]
      /\ UNCHANGED <<config, listening, reloads, calls, crashes, released, alone>>
  BY DEF OpenFile
<1>2. SaveOK(saves[n])
  BY <1>1 DEF IInv, ConfigsOK
<1>3. save.snapshot = saves[n].snapshot /\ SaveOK(save)
  BY <1>2 DEF SaveOK
<1> HIDE DEF save
<1>4. /\ DOMAIN saves' = DOMAIN saves /\ saves'[n] = save
      /\ \A m \in DOMAIN saves : m # n => saves'[m] = saves[m]
  BY <1>1
<1>5. ConfigsOK'
  BY <1>1, <1>3, <1>4 DEF IInv, ConfigsOK
<1>6. OthersOK' /\ SendersOK'
  BY <1>1 DEF IInv, OthersOK, SendersOK
<1>7. FileOK'
  <2> SUFFICES ASSUME alone' PROVE \E m \in DOMAIN saves' :
                 /\ DOMAIN saves' = {m}
                 /\ Follows(config', saves'[m].snapshot)
                 /\ saves'[m].stage = "opened" => file'.state = "empty"
    BY DEF FileOK
  <2>1. DOMAIN saves = {n} /\ Follows(config, saves[n].snapshot)
    BY <1>1 DEF IInv, FileOK
  <2> QED BY <1>1, <1>3, <1>4, <2>1
<1> QED BY <1>5, <1>6, <1>7 DEF IInv

\* The end of a task.
LEMMA EndedSaves ==
  ASSUME NEW n
  PROVE  /\ DOMAIN Ended(n) = DOMAIN saves \ {n}
         /\ \A m \in DOMAIN Ended(n) : Ended(n)[m] = saves[m]
BY DEF Ended

LEMMA WriteKeeps ==
  ASSUME IInv, NEW n, WriteFile(n)
  PROVE  IInv'
<1> DEFINE text == ConfigText(saves[n].snapshot)
           whole == [state |-> "whole", text |-> text]
<1>1. /\ n \in DOMAIN saves /\ saves[n].stage = "opened" /\ saves' = Ended(n)
      /\ \/ file' = whole
         \/ file.state # "empty" /\ file' = [state |-> "garbled", text |-> <<>>]
      /\ UNCHANGED <<config, listening, reloads, calls, crashes, released, alone>>
  BY DEF WriteFile
<1>2. ConfigsOK'
  BY <1>1, EndedSaves DEF IInv, ConfigsOK
<1>3. OthersOK' /\ SendersOK'
  BY <1>1 DEF IInv, OthersOK, SendersOK
<1>4. FileOK'
  <2> SUFFICES ASSUME alone'
               PROVE  DOMAIN saves' = {} /\ file'.state = "whole" /\ Holding(file'.text, config')
    BY DEF FileOK
  <2>1. DOMAIN saves = {n} /\ Follows(config, saves[n].snapshot) /\ file.state = "empty"
    <3> HIDE DEF whole, text
    <3>1. n \in DOMAIN saves /\ saves[n].stage = "opened" /\ alone
      BY <1>1
    <3>2. PICK m \in DOMAIN saves :
             /\ DOMAIN saves = {m}
             /\ Follows(config, saves[m].snapshot)
             /\ saves[m].stage = "opened" => file.state = "empty"
      BY <3>1 DEF IInv, FileOK
    <3>3. m = n
      BY <3>1, <3>2
    <3> QED BY <3>1, <3>2, <3>3
  <2>2. file' = whole
    BY <1>1, <2>1
  <2>3. CfgOK(config) /\ CfgOK(saves[n].snapshot)
    BY <1>1 DEF IInv, ConfigsOK, SaveOK
  <2>4. Holding(text, config)
    BY <2>1, <2>3, TextHolds, HoldsOn
  <2> HIDE DEF text
  <2> QED BY <1>1, <2>1, <2>2, <2>4, EndedSaves
<1> QED BY <1>2, <1>3, <1>4 DEF IInv

LEMMA FailKeeps ==
  ASSUME IInv, NEW n, FailSave(n)
  PROVE  IInv'
<1>1. /\ saves' = Ended(n) /\ alone' = FALSE
      /\ UNCHANGED <<config, listening, reloads, file, calls, crashes, released>>
  BY DEF FailSave
<1>2. ConfigsOK'
  BY <1>1, EndedSaves DEF IInv, ConfigsOK
<1> QED BY <1>1, <1>2 DEF IInv, OthersOK, SendersOK, FileOK

\* A report changes nothing of a configuration but statuses.
LEMMA ReportedFollows ==
  ASSUME IInv, NEW p, NEW k, p \in DOMAIN config, k \in DOMAIN config[p].routes,
         NEW e, NEW status \in Reports,
         config' = [config EXCEPT ![p].routes[k].router = UpdateRouteAlive(@, e, status)]
  PROVE  /\ CfgOK(config') /\ Follows(config', config)
         /\ \A q \in DOMAIN config : config'[q].wired = config[q].wired
<1> DEFINE old == config[p].routes[k]
           router == UpdateRouteAlive(old.router, e, status)
           new == [old EXCEPT !.router = router]
<1>1. CfgOK(config) /\ RouteOK(old)
  BY DEF IInv, ConfigsOK, CfgOK, ServiceOK
<1>2. /\ RouterShape(router) /\ ForgottenRouter(router) = ForgottenRouter(old.router)
      /\ RouterKnown(old.router) => RouterKnown(router)
  BY <1>1, UpdatedRouter, ConfigAssumption DEF RouteOK
<1> HIDE DEF router
<1>3. new = Route(old.id, old.matchers, router, old.middlewares)
  BY <1>1 DEF RouteOK, Route
<1>4. /\ new.id = old.id /\ new.matchers = old.matchers
      /\ new.router = router /\ new.middlewares = old.middlewares
  BY <1>3 DEF Route
<1>5. config' = WithRouteAt(config, p, k, new)
  BY DEF WithRouteAt, router
<1> HIDE DEF new
<1>6. RouteOK(new)
  BY <1>1, <1>2, <1>3, <1>4 DEF RouteOK, Route
<1>7. Forgotten(new) = Forgotten(old)
  BY <1>1, <1>2, <1>4, <1>6, ForgottenIs
<1>8. Known(old) => Known(new)
  BY <1>2, <1>4 DEF Known, RouterKnown
<1> HIDE DEF old
<1>9. /\ CfgOK(config') /\ DOMAIN config' = DOMAIN config
      /\ \A q \in DOMAIN config : config'[q].wired = config[q].wired
      /\ \A q \in DOMAIN config : q # p => config'[q] = config[q]
      /\ config'[p].routes = With(config[p].routes, k, new)
  <2>1. LET edited == WithRouteAt(config, p, k, new)
        IN /\ CfgOK(edited) /\ DOMAIN edited = DOMAIN config
           /\ \A q \in DOMAIN config : edited[q].wired = config[q].wired
           /\ \A q \in DOMAIN config : q # p => edited[q] = config[q]
           /\ edited[p].routes = With(config[p].routes, k, new)
    <3>1. PICK route : route = new
      OBVIOUS
    <3>2. CfgOK(config) /\ p \in DOMAIN config /\ k \in DOMAIN config[p].routes /\ RouteOK(route)
      BY <1>1, <1>6, <3>1
    <3> QED BY <3>1, <3>2, EditRoute
  <2> QED BY <1>5, <2>1, Zenon
<1>10. /\ Len(config'[p].routes) = Len(config[p].routes)
       /\ DOMAIN config'[p].routes = DOMAIN config[p].routes
       /\ config'[p].routes[k] = new
       /\ \A j \in DOMAIN config[p].routes : j # k => config'[p].routes[j] = config[p].routes[j]
  <2>1. IsList(config[p].routes)
    BY <1>1 DEF CfgOK, ServiceOK
  <2> QED BY <1>9, <2>1, ListWith
<1>11. Follows(config', config)
  <2>1. ASSUME NEW q \in DOMAIN config, q # p PROVE config'[q] = config[q]
    BY <1>9, <2>1, Zenon
  <2>2. ASSUME NEW j \in DOMAIN config[p].routes, j # k
        PROVE  config'[p].routes[j] = config[p].routes[j]
    BY <1>10, <2>2, Zenon
  <2>3. \A j \in DOMAIN config[p].routes :
          LET now == config'[p].routes[j]
              was == config[p].routes[j]
          IN Forgotten(now) = Forgotten(was) /\ (Known(was) => Known(now))
    <3>1. CASE k \in DOMAIN config[p].routes
      BY <1>7, <1>8, <1>10, <2>2, Zenon DEF old
    <3> QED BY <3>1
  <2>4. DOMAIN config' = DOMAIN config
    BY <1>9
  <2> QED BY <1>10, <2>1, <2>3, <2>4, Zenon DEF Follows
<1> QED BY <1>9, <1>11, Zenon

LEMMA ReportKeeps ==
  ASSUME IInv, NEW id, NEW e, NEW status \in Reports, ReportAlive(id, e, status)
  PROVE  IInv'
<1>1. PICK p \in DOMAIN config : \E k \in Find(p, id) :
        config' = [config EXCEPT ![p].routes[k].router = UpdateRouteAlive(@, e, status)]
  BY DEF ReportAlive
<1>2. PICK k \in Find(p, id) :
        config' = [config EXCEPT ![p].routes[k].router = UpdateRouteAlive(@, e, status)]
  BY <1>1
<1>3. UNCHANGED <<listening, saves, reloads, file, calls, crashes, released, alone>>
  BY DEF ReportAlive
<1>4. CfgOK(config) /\ k \in DOMAIN config[p].routes
  BY DEF IInv, ConfigsOK, Find, CfgOK, ServiceOK, IsList
<1>5. /\ CfgOK(config') /\ Follows(config', config)
      /\ \A q \in DOMAIN config : config'[q].wired = config[q].wired
  BY <1>2, <1>4, ReportedFollows
<1>6. DOMAIN config' = DOMAIN config
  BY <1>5 DEF Follows
<1>7. ConfigsOK'
  BY <1>3, <1>5 DEF IInv, ConfigsOK
<1>8. OthersOK' /\ SendersOK'
  BY <1>3, <1>5, <1>6 DEF IInv, OthersOK, SendersOK, Holds
<1>9. FileOK'
  <2> SUFFICES ASSUME alone' PROVE
        \/ DOMAIN saves' = {} /\ file'.state = "whole" /\ Holding(file'.text, config')
        \/ \E n \in DOMAIN saves' :
             /\ DOMAIN saves' = {n}
             /\ Follows(config', saves'[n].snapshot)
             /\ saves'[n].stage = "opened" => file'.state = "empty"
    BY DEF FileOK
  <2>1. CASE DOMAIN saves = {} /\ file.state = "whole" /\ Holding(file.text, config)
    BY <1>3, <1>4, <1>5, <2>1, HoldsOn
  <2>2. ASSUME NEW n \in DOMAIN saves, DOMAIN saves = {n}, Follows(config, saves[n].snapshot),
               saves[n].stage = "opened" => file.state = "empty"
        PROVE  \E m \in DOMAIN saves' :
             /\ DOMAIN saves' = {m}
             /\ Follows(config', saves'[m].snapshot)
             /\ saves'[m].stage = "opened" => file'.state = "empty"
    <3>1. Follows(config', saves[n].snapshot)
      BY <1>4, <1>5, <2>2, FollowsOn
    <3> QED BY <1>3, <2>2, <3>1
  <2> QED BY <1>3, <2>1, <2>2 DEF IInv, FileOK
<1> QED BY <1>7, <1>8, <1>9 DEF IInv

LEMMA ListenerKeeps ==
  ASSUME IInv, NEW p \in Ports, StartProxy(p) \/ StopListener(p)
  PROVE  IInv'
<1>1. /\ \E state \in {"up", "down"} : listening' = [listening EXCEPT ![p] = state]
      /\ UNCHANGED <<config, saves, reloads, file, calls, crashes, released, alone>>
  BY DEF StartProxy, StopListener
<1>2. \A q \in Ports : listening[q] # "none" => listening'[q] # "none"
  BY <1>1 DEF IInv, OthersOK
<1>3. OthersOK'
  BY <1>1 DEF IInv, OthersOK
<1>4. SendersOK'
  BY <1>1, <1>2 DEF IInv, SendersOK, ConfigsOK, CfgOK, Holds
<1> QED BY <1>1, <1>3, <1>4 DEF IInv, ConfigsOK, FileOK

LEMMA StartedListens ==
  /\ StartedListeners \in [Ports -> {"none", "starting", "up", "down"}]
  /\ \A p \in DOMAIN StartedConfig : StartedListeners[p] # "none"
<1>1. DOMAIN StartedConfig \subseteq Ports
  BY Started DEF CfgOK
<1>2. StartedListeners = [p \in Ports |-> IF p \in DOMAIN StartedConfig THEN "starting" ELSE "none"]
  BY DEF StartedListeners
<1> QED BY <1>1, <1>2

LEMMA CrashKeeps ==
  ASSUME IInv, CrashRestart
  PROVE  IInv'
<1>1. /\ config' = StartedConfig /\ listening' = StartedListeners
      /\ saves' = <<>> /\ reloads' = {} /\ released' = {} /\ alone' = FALSE
      /\ crashes < MaxCrashes /\ crashes' = crashes + 1
      /\ file' = file /\ calls' = calls
  BY DEF CrashRestart
<1>2. DOMAIN saves' = {}
  BY <1>1
<1>3. ConfigsOK'
  BY <1>1, <1>2, Started DEF ConfigsOK
<1>4. OthersOK'
  <2>1. IsFiniteSet(reloads') /\ Cardinality(reloads') = 0
    BY <1>1, FS_EmptySet
  <2>2. calls' \in Nat /\ calls' + Cardinality(reloads') <= MaxCalls
    BY <1>1, <2>1, FS_CardinalityType, BoundAssumption DEF IInv, OthersOK
  <2>3. listening' \in [Ports -> {"none", "starting", "up", "down"}]
    BY <1>1, StartedListens, Zenon
  <2>4. crashes' \in 0..MaxCrashes
    BY <1>1, BoundAssumption DEF IInv, OthersOK
  <2> QED BY <1>1, <2>1, <2>2, <2>3, <2>4 DEF IInv, OthersOK
<1>5. SendersOK'
  BY <1>1, Started, StartedListens DEF SendersOK
<1> QED BY <1>1, <1>3, <1>4, <1>5 DEF IInv, FileOK

LEMMA InitHolds == Init => IInv
<1> SUFFICES ASSUME Init PROVE IInv
  OBVIOUS
<1>1. /\ config = StartedConfig /\ listening = StartedListeners
      /\ saves = <<>> /\ reloads = {} /\ released = {} /\ alone = FALSE
      /\ crashes = 0 /\ calls = 0 /\ file.state = "absent"
  BY DEF Init
<1>2. DOMAIN saves = {}
  BY <1>1
<1>3. ConfigsOK
  BY <1>1, <1>2, Started DEF ConfigsOK
<1>4. OthersOK
  <2>1. IsFiniteSet(reloads) /\ Cardinality(reloads) = 0
    BY <1>1, FS_EmptySet
  <2>2. listening \in [Ports -> {"none", "starting", "up", "down"}]
    BY <1>1, StartedListens, Zenon
  <2>3. calls \in Nat /\ calls + Cardinality(reloads) <= MaxCalls /\ crashes \in 0..MaxCrashes
    BY <1>1, <2>1, BoundAssumption
  <2> QED BY <1>1, <2>1, <2>2, <2>3 DEF OthersOK
<1>5. SendersOK
  BY <1>1, Started, StartedListens DEF SendersOK
<1> QED BY <1>1, <1>3, <1>4, <1>5 DEF IInv, FileOK

LEMMA NextKeeps == IInv /\ [Next]_vars => IInv'
<1> SUFFICES ASSUME IInv, [Next]_vars PROVE IInv'
  OBVIOUS
<1>1. ASSUME NEW text \in Posts, PostAppConfig(text) PROVE IInv'
  BY <1>1, PostKeeps
<1>2. ASSUME NEW id \in RouteIds, DeleteRoute(id) PROVE IInv'
  BY <1>2, DeleteKeeps
<1>3. ASSUME NEW text \in Puts, PutRoute(text) PROVE IInv'
  BY <1>3, PutKeeps
<1>4. ASSUME NEW text \in Reloads, ValidateReload(text) PROVE IInv'
  BY <1>4, ValidateKeeps
<1>5. ASSUME NEW r \in reloads, ApplyReload(r) PROVE IInv'
  BY <1>5, ApplyKeeps
<1>6. ASSUME NEW n \in 1..MaxCalls, OpenFile(n) PROVE IInv'
  BY <1>6, OpenKeeps
<1>7. ASSUME NEW n \in 1..MaxCalls, WriteFile(n) PROVE IInv'
  BY <1>7, WriteKeeps
<1>8. ASSUME NEW n \in 1..MaxCalls, FailSave(n) PROVE IInv'
  BY <1>8, FailKeeps
<1>9. ASSUME NEW p \in Ports, StartProxy(p) \/ StopListener(p) PROVE IInv'
  BY <1>9, ListenerKeeps
<1>10. ASSUME NEW id \in RouteIds, NEW e \in Endpoints, NEW status \in Reports,
              ReportAlive(id, e, status)
       PROVE  IInv'
  BY <1>10, ReportKeeps
<1>11. CASE CrashRestart
  BY <1>11, CrashKeeps
<1>12. CASE UNCHANGED vars
  BY <1>12 DEF vars, IInv, ConfigsOK, OthersOK, SendersOK, FileOK
<1> QED BY <1>1, <1>2, <1>3, <1>4, <1>5, <1>6, <1>7, <1>8, <1>9, <1>10, <1>11, <1>12 DEF Next

-----------------------------------------------------------------------------
(* The theorems *)

\* Whatever the calls, the reports, the tasks and the crashes do, and in
\* whatever order: the invariant above holds.
THEOREM Invariance == Spec => []IInv
<1>1. Init => IInv
  BY InitHolds
<1>2. IInv /\ [Next]_vars => IInv'
  BY NextKeeps
<1> QED BY <1>1, <1>2, PTL DEF Spec

LEMMA ConfigInType ==
  ASSUME NEW cfg, CfgOK(cfg)
  PROVE  ConfigOK(cfg)
<1>1. ASSUME NEW p \in DOMAIN cfg, NEW k \in DOMAIN cfg[p].routes
      PROVE  RouterOK(cfg[p].routes[k].router)
  <2>1. RouterShape(cfg[p].routes[k].router)
    BY <1>1 DEF CfgOK, ServiceOK, RouteOK
  <2> QED BY <2>1 DEF RouterShape, RouterOK
<1> QED BY <1>1 DEF CfgOK, ServiceOK, ConfigOK

\* Every variable stays in its type, whatever texts the calls bring, and a
\* sender in the configuration is that of a port with a listener.
THEOREM TypeCorrect == Spec => []TypeOK
<1>1. IInv => TypeOK
  <2> SUFFICES ASSUME IInv PROVE TypeOK
    OBVIOUS
  <2>1. /\ ConfigOK(config) /\ DOMAIN saves \subseteq 1..calls
        /\ \A n \in DOMAIN saves :
             ConfigOK(saves[n].snapshot) /\ saves[n].stage \in {"spawned", "opened"}
        /\ \A r \in reloads : ConfigOK(r.new) /\ ConfigOK(r.seen)
    BY ConfigInType DEF IInv, ConfigsOK, SaveOK, ReloadOK
  <2>2. calls \in 0..MaxCalls
    BY FS_CardinalityType, BoundAssumption DEF IInv, OthersOK
  <2> QED BY <2>1, <2>2 DEF IInv, OthersOK, SendersOK, TypeOK
<1> QED BY <1>1, Invariance, PTL

\* save_config_to_file: once the save of the last call is done, and it ran by
\* itself, a process started from the file would route as this one does, but for
\* the statuses and the routes whose text does not parse.
THEOREM FileCorrect == Spec => []FileHoldsLastChange
<1>1. IInv => FileHoldsLastChange
  <2> SUFFICES ASSUME IInv, saves = <<>>, alone
               PROVE  file.state = "whole" /\ Holding(file.text, config)
    BY DEF FileHoldsLastChange, Holding
  <2>1. DOMAIN saves = {}
    OBVIOUS
  <2> QED BY <2>1 DEF IInv, FileOK
<1> QED BY <1>1, Invariance, PTL

\* POST, PUT and the DELETE of other services' routes keep the sender of a
\* listener: it has one until a call gives up its own service.
THEOREM ListenersCorrect == Spec => []ListenersOutliveOtherCalls
<1>1. IInv => ListenersOutliveOtherCalls
  BY DEF IInv, SendersOK, ListenersOutliveOtherCalls, SenderAlive
<1> QED BY <1>1, Invariance, PTL

\* POST /reload: the listen ports change at no reload that no other change of
\* them came in between.
THEOREM PortsCorrect == Spec => ReloadKeepsPorts
<1> DEFINE Step ==
      \A r \in reloads \ reloads' :
        (crashes' = crashes /\ DOMAIN r.seen = DOMAIN config) => DOMAIN config' = DOMAIN config
<1>1. IInv /\ [Next]_vars => [Step]_vars
  <2> SUFFICES ASSUME IInv, Next, NEW r \in reloads \ reloads',
                      crashes' = crashes, DOMAIN r.seen = DOMAIN config
               PROVE  DOMAIN config' = DOMAIN config
    BY Zenon
  <2>1. ASSUME NEW q \in reloads, ApplyReload(q) PROVE DOMAIN config' = DOMAIN config
    <3>1. reloads' = reloads \ {q} /\ config' = q.new
      BY <2>1 DEF ApplyReload, Reloaded, Commit
    <3>2. q = r
      BY <3>1
    <3> QED BY <3>1, <3>2 DEF IInv, ConfigsOK, ReloadOK
  <2>2. ASSUME CrashRestart PROVE FALSE
    BY <2>2 DEF CrashRestart, IInv, OthersOK
  <2>3. ASSUME \/ \E text \in Posts : PostAppConfig(text)
               \/ \E id \in RouteIds : DeleteRoute(id)
               \/ \E text \in Puts : PutRoute(text)
               \/ \E text \in Reloads : ValidateReload(text)
               \/ \E n \in 1..MaxCalls : OpenFile(n) \/ WriteFile(n) \/ FailSave(n)
               \/ \E p \in Ports : StartProxy(p) \/ StopListener(p)
               \/ \E id \in RouteIds, e \in Endpoints, status \in Reports :
                    ReportAlive(id, e, status)
        PROVE  FALSE
    <3>1. reloads \subseteq reloads'
      BY <2>3 DEF PostAppConfig, DeleteRoute, PutRoute, ValidateReload, OpenFile, WriteFile,
                  FailSave, StartProxy, StopListener, ReportAlive
    <3> QED BY <3>1
  <2> QED BY <2>1, <2>2, <2>3 DEF Next
<1> QED BY <1>1, Invariance, PTL DEF Spec, ReloadKeepsPorts
=============================================================================
