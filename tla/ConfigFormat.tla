---------------------------- MODULE ConfigFormat ----------------------------
(***************************************************************************)
(* The text of a configuration and the configuration in memory: what the   *)
(* serializers of vojo/ and middleware/ write, and what the parsers make   *)
(* of a text. The process starts from a text, the REST API is given texts, *)
(* and what it commits is saved as one.                                    *)
(*                                                                         *)
(* A text is the tree the YAML stands for: maps are records, lists are     *)
(* sequences, and a value with several forms says which one it has. A      *)
(* parser yields the set of its results: one, or none when it refuses.     *)
(***************************************************************************)
EXTENDS Integers, Sequences, Functions

CONSTANT Directories  \* the directories of the file system

\* A function, and another where it has no value.
f ++ g == [x \in DOMAIN f \cup DOMAIN g |-> IF x \in DOMAIN f THEN f[x] ELSE g[x]]

\* All the parts of a list must parse: the list of what they are parsed to.
ParseAll(Parse(_), texts) ==
  IF \A k \in DOMAIN texts : Parse(texts[k]) # {}
  THEN {[k \in DOMAIN texts |-> CHOOSE v \in Parse(texts[k]) : TRUE]}
  ELSE {}

\* The field of a text, or what stands for it when it is not there.
Field(text, f, default) == IF f \in DOMAIN text THEN text[f] ELSE default

-----------------------------------------------------------------------------
(* The texts that serde gives to the parsers: a tagged map has its kind, a *)
(* duration is a number and a unit, and servers and routes are lists       *)

MiddlewareTextOK(text) ==
  /\ "kind" \in DOMAIN text
  /\ text.kind = "circuit_breaker" =>
       "cooldown" \in DOMAIN text /\ text.cooldown \in [n : Nat, unit : STRING]
  /\ text.kind = "rewrite_headers" =>
       "expires" \in DOMAIN text /\ text.expires \in [n : Nat, unit : STRING]

RouteTextOK(text) ==
  /\ \A k \in DOMAIN Field(text, "matchers", <<>>) : "kind" \in DOMAIN text.matchers[k]
  /\ \A k \in DOMAIN Field(text, "middlewares", <<>>) : MiddlewareTextOK(text.middlewares[k])

ServiceTextOK(text) ==
  /\ text.routes \in Seq(Range(text.routes))
  /\ \A k \in DOMAIN text.routes : RouteTextOK(text.routes[k])

ConfigTextOK(text) ==
  text \in Seq(Range(text)) /\ \A k \in DOMAIN text : ServiceTextOK(text[k])

-----------------------------------------------------------------------------
(* Durations, in milliseconds *)

Millis ==
  [ms |-> 1, s |-> 1000, m |-> 60 * 1000, h |-> 60 * 60 * 1000,
   d |-> 24 * 60 * 60 * 1000, w |-> 7 * 24 * 60 * 60 * 1000]

\* A number written with a fraction, or a duration written as a struct, has a
\* unit of neither list.
ParseWith(units, text) ==
  {text.n * Millis[u] : u \in units \cap {text.unit}}

\* human_duration::parse_duration_str: whole numbers; one without unit counts
\* seconds.
ParseHumanDuration(text) ==
  ParseWith({"ms", "s", "m"}, [text EXCEPT !.unit = IF @ = "" THEN "s" ELSE @])

\* Mutant of HumanDuration: the unit of a duration in milliseconds is lost.
HumanDurationBare(d) == [n |-> d, unit |-> ""]

\* human_duration::serialize: seconds, with a fraction where there is one.
HumanDuration(d) ==
  IF d % 1000 = 0 THEN [n |-> d \div 1000, unit |-> "s"]
  ELSE [n |-> d, unit |-> "fraction"]

\* headers.rs: parse_duration takes other units, and the derived serializer
\* writes a Duration as a struct of two numbers, which is no string.
ParseExpires(text) == ParseWith({"s", "m", "h", "d", "w"}, text)
Expires(d) == [n |-> d, unit |-> "struct"]

-----------------------------------------------------------------------------
(* Middlewares *)

\* The methods and the headers a CORS configuration may name.
CorsMethods == {"GET", "POST", "PUT", "DELETE", "HEAD", "OPTIONS"}
CorsHeaders ==
  {"ContentType", "Authorization", "Accepts", "SetCookie", "Cookie", "Range"}

\* Origins are any list, or the string "*" for all of them.
OriginsParse(text) == text.form = "list" \/ text.value = "*"

\* Headers likewise, but of the known ones; they may be left out.
HeadersParse(text) ==
  IF text.form = "list" THEN Range(text.value) \subseteq CorsHeaders ELSE text.value = "*"

CorsParses(text) ==
  /\ OriginsParse(text.allowed_origins)
  /\ Range(text.allowed_methods) \subseteq CorsMethods
  /\ "allowed_headers" \in DOMAIN text => HeadersParse(text.allowed_headers)

\* What stands for the settings a compression leaves out; "enabled" is not the
\* TRUE of Compression::default.
CompressionDefaults == [compression_type |-> "gzip", min_size |-> 1024, enabled |-> FALSE]

\* The state of a limiter or a breaker is in no text: what is parsed starts anew.
ParseMiddleware(text) ==
  CASE text.kind = "circuit_breaker" ->
         {[text EXCEPT !.cooldown = d] : d \in ParseHumanDuration(text.cooldown)}
    [] text.kind = "rewrite_headers" ->
         {[text EXCEPT !.expires = d] : d \in ParseExpires(text.expires)}
    [] text.kind = "cors" ->
         IF CorsParses(text) THEN {text} ELSE {}
    [] text.kind = "compression" -> {text ++ CompressionDefaults}
    [] OTHER -> {text}

MiddlewareText(mw) ==
  CASE mw.kind = "circuit_breaker" -> [mw EXCEPT !.cooldown = HumanDuration(@)]
    [] mw.kind = "rewrite_headers" -> [mw EXCEPT !.expires = Expires(@)]
    [] OTHER -> mw

-----------------------------------------------------------------------------
(* Routers *)

\* The fields a target of each kind of router must have.
Needs ==
  [poll   |-> {"endpoint"},
   random |-> {"endpoint"},
   weight |-> {"endpoint", "weight"},
   header |-> {"endpoint", "header", "match"}]

\* A rule of a header router refuses fields it does not know; other targets
\* ignore them, the status among them.
ParseTarget(kind, text) ==
  IF /\ Needs[kind] \subseteq DOMAIN text
     /\ kind = "header" => DOMAIN text \subseteq Needs[kind]
  THEN {Restrict(text, Needs[kind]) ++ [is_alive |-> "unknown"]}
  ELSE {}

\* The status is written once it is known; where a round robin or a turn of
\* weights has got to is not.
TargetText(target) ==
  IF target.is_alive = "unknown"
  THEN Restrict(target, DOMAIN target \ {"is_alive"})
  ELSE target

\* The targets of a list of backends have no status yet.
RandomRoute(backends) ==
  [kind |-> "random",
   targets |-> [k \in DOMAIN backends |->
                  [endpoint |-> backends[k], is_alive |-> "unknown"]]]

\* A file route has its doc_root and nothing else, and the directory exists.
ParseStaticFile(text) ==
  {[kind |-> "file", doc_root |-> root] :
     root \in IF DOMAIN text = {"form", "kind", "doc_root"}
              THEN {text.doc_root} \cap Directories ELSE {}}

\* deserialize_router: one backend, a list of them, or a map with a kind.
ParseRouter(text) ==
  CASE text.form = "string" -> {RandomRoute(<<text.value>>)}
    [] text.form = "list" -> {RandomRoute(text.value)}
    [] text.form = "map" /\ text.kind = "file" -> ParseStaticFile(text)
    [] text.form = "map" /\ text.kind \in DOMAIN Needs ->
         LET Parse(t) == ParseTarget(text.kind, t)
         IN {[kind |-> text.kind, targets |-> targets] :
               targets \in ParseAll(Parse, text.targets)}
    [] OTHER -> {}

RouterText(router) ==
  [form |-> "map"] ++
    IF router.kind = "file" THEN router
    ELSE [router EXCEPT !.targets = [k \in DOMAIN @ |-> TargetText(@[k])]]

-----------------------------------------------------------------------------
(* Routes, services and the configuration *)

\* The id of a route whose text has none: a new one, known to no call yet.
Generated == "generated"

\* The match type of a path may be left out.
ParseMatcher(text) ==
  {IF text.kind = "path" THEN text ++ [match_type |-> "prefix"] ELSE text}

\* Its lists may be left out too.
ParseMatchers(text) == ParseAll(ParseMatcher, Field(text, "matchers", <<>>))
ParseMiddlewares(text) == ParseAll(ParseMiddleware, Field(text, "middlewares", <<>>))

ParseRoute(text) ==
  {[id |-> Field(text, "route_id", Generated), matchers |-> ms, router |-> r,
    middlewares |-> mws] :
     ms \in ParseMatchers(text), r \in ParseRouter(text.forward_to),
     mws \in ParseMiddlewares(text)}

\* save_config_to_file empties the ids, and an empty id is not written.
SavedRoute(route) ==
  [matchers |-> route.matchers,
   forward_to |-> RouterText(route.router),
   middlewares |-> [k \in DOMAIN route.middlewares |->
                      MiddlewareText(route.middlewares[k])]]

\* Mutant of Unwired: a parsed service counts as the one of a listener.
WiredAnyway(routes) == [routes |-> routes, wired |-> TRUE]

\* Deserialize for ApiService: a sender whose receiver is already dropped.
Unwired(routes) == [routes |-> routes, wired |-> FALSE]

ParseService(text) ==
  {[listen |-> text.listen, service |-> Unwired(routes)] :
     routes \in ParseAll(ParseRoute, text.routes)}

\* The list of servers becomes a map by port: the last of several on a port.
ByPort(services) ==
  LET last(p) ==
        CHOOSE k \in DOMAIN services :
          /\ services[k].listen = p
          /\ \A j \in DOMAIN services : services[j].listen = p => j <= k
  IN [p \in {services[k].listen : k \in DOMAIN services} |-> services[last(p)].service]

ParseConfig(text) == {ByPort(services) : services \in ParseAll(ParseService, text)}

\* The servers are written in the order of the map, which is none: the text is
\* given by port.
ConfigText(cfg) ==
  [p \in DOMAIN cfg |-> [k \in DOMAIN cfg[p].routes |-> SavedRoute(cfg[p].routes[k])]]
=============================================================================
