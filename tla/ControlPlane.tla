---------------------------- MODULE ControlPlane ----------------------------
(***************************************************************************)
(* The REST API that edits the shared configuration while the gateway runs *)
(* (control_plane/rest_api.rs), the listeners started from it              *)
(* (configuration_service/app_config_service.rs) and the file it is saved  *)
(* to.                                                                     *)
(*                                                                         *)
(* A handler holds the lock of the configuration while it edits it, so an  *)
(* edit is one step. Two things are not: reload validates a clone under    *)
(* one lock and replaces the configuration under another, and every edit   *)
(* spawns a task of its own that opens the file, truncating it, and then   *)
(* writes a snapshot to it.                                                *)
(*                                                                         *)
(* A listener ends when every clone of the sender of its channel is gone:  *)
(* the sender sits in the service, so each clone of the configuration      *)
(* holds one.                                                              *)
(*                                                                         *)
(* Calls bring texts, and what is committed is saved as one: the module    *)
(* ConfigFormat says what becomes of both. The health checker changes the  *)
(* status of targets in between, which no save follows.                    *)
(***************************************************************************)
EXTENDS ConfigFormat, FiniteSets

CONSTANTS
  Ports,        \* listen ports
  RouteIds,     \* route ids calls may name
  Startup,      \* the list of servers in the file the process starts from
  Posts,        \* the services POST may bring
  Puts,         \* the routes PUT may bring
  Reloads,      \* the lists of servers reload may bring
  Endpoints,    \* endpoints the health checker probes
  Reports,      \* what it may report of them
  MaxCalls,     \* bound: calls that change the configuration
  MaxPending,   \* bound: reloads past their validation at a time
  MaxReported,  \* bound: routes with a reported target at a time
  MaxCrashes    \* bound: crashes of the process

\* The process ends at once when the file it is started from cannot be parsed.
ASSUME ConfigAssumption ==
  /\ \A cfg \in ParseConfig(Startup) : DOMAIN cfg \subseteq Ports
  /\ ParseConfig(Startup) # {}
  /\ \A text \in Posts : text.listen \in Ports
  /\ \A new \in Reloads : \A cfg \in ParseConfig(new) : DOMAIN cfg \subseteq Ports
  /\ Generated \notin RouteIds
  /\ Reports \subseteq {"alive", "dead"}

ASSUME TextAssumption ==
  /\ ConfigTextOK(Startup)
  /\ \A text \in Posts : ServiceTextOK(text)
  /\ \A text \in Puts : RouteTextOK(text)
  /\ \A text \in Reloads : ConfigTextOK(text)

ASSUME BoundAssumption ==
  /\ MaxCalls \in Nat /\ MaxPending \in Nat
  /\ MaxReported \in Nat /\ MaxCrashes \in Nat

VARIABLES
  config,     \* SharedConfig.shared_data: port -> [routes, wired]; a service is
              \* wired when its sender is that of the port's listener
  listening,  \* the listener of each port: "none", "starting", "up" or "down"
  saves,      \* running save tasks: number -> [snapshot, stage]
  reloads,    \* reloads past validation: the new configuration, the clone seen
  file,       \* new_spire_config.yml: its state and, when whole, its text
  calls,      \* calls committed so far; numbers the save tasks
  crashes,    \* crashes so far
  released,   \* history: ports whose service a call gave up in this process
  alone       \* history: the last call's save met no other save and no error

vars == <<config, listening, saves, reloads, file, calls, crashes, released, alone>>

\* app_config_service::init replaces the senders and spawns the listeners.
StartedConfig ==
  LET loaded == CHOOSE cfg \in ParseConfig(Startup) : TRUE
  IN [p \in DOMAIN loaded |-> [loaded[p] EXCEPT !.wired = TRUE]]
StartedListeners ==
  [p \in Ports |-> IF p \in DOMAIN StartedConfig THEN "starting" ELSE "none"]

Init ==
  /\ config = StartedConfig
  /\ listening = StartedListeners
  /\ saves = <<>>
  /\ reloads = {}
  /\ file = [state |-> "absent", text |-> <<>>]
  /\ calls = 0 /\ crashes = 0
  /\ released = {}
  /\ alone = FALSE

-----------------------------------------------------------------------------
(* The calls: each commits a configuration and spawns a save of its clone *)

\* The bound on calls leaves room for the reloads under way.
Room == calls + Cardinality(reloads) < MaxCalls

\* Mutant of Commit: the clone to save is made before the edit.
CommitStaleSave(new) ==
  /\ config' = new
  /\ calls' = calls + 1
  /\ saves' = [n \in {calls'} |-> [snapshot |-> config, stage |-> "spawned"]] ++ saves
  /\ alone' = (DOMAIN saves = {})
  /\ UNCHANGED <<listening, file, crashes>>

\* The configuration is replaced and a task spawned that saves a clone of it.
Commit(new) ==
  /\ config' = new
  /\ calls' = calls + 1
  /\ saves' = [n \in {calls'} |-> [snapshot |-> new, stage |-> "spawned"]] ++ saves
  /\ alone' = (DOMAIN saves = {})
  /\ UNCHANGED <<listening, file, crashes>>

\* POST /appConfig: a known port is given the first of the posted routes (there
\* must be one); a new port gets a service no listener is started for. A text
\* that does not parse is an error here and in the other calls.
PostAppConfig(text) ==
  /\ Room
  /\ \E posted \in ParseService(text) :
       LET p == posted.listen
           routes == posted.service.routes
       IN IF p \in DOMAIN config
          THEN /\ routes # <<>>
               /\ Commit([config EXCEPT ![p].routes = Append(@, Head(routes))])
          ELSE Commit([q \in {p} |-> posted.service] ++ config)
  /\ UNCHANGED <<reloads, released>>

\* The routes of a service that DELETE leaves.
Retained(p, id) ==
  LET routes == config[p].routes
      kept[k \in 0..Len(routes)] ==
        IF k = 0 THEN <<>>
        ELSE IF routes[k].id = id THEN kept[k - 1] ELSE Append(kept[k - 1], routes[k])
  IN kept[Len(routes)]

\* Mutant of WithoutRoute: the rebuilt services get senders of their own.
WithoutRouteRebuilt(id) ==
  [p \in {q \in DOMAIN config : Retained(q, id) # <<>>} |-> Unwired(Retained(p, id))]

\* The rebuilt map: a service left without routes is dropped, also one that had
\* none before; the others keep their sender.
WithoutRoute(id) ==
  [p \in {q \in DOMAIN config : Retained(q, id) # <<>>} |->
     [config[p] EXCEPT !.routes = Retained(p, id)]]

DeleteRoute(id) ==
  /\ Room
  /\ Commit(WithoutRoute(id))
  /\ released' = released \cup {p \in DOMAIN config : Retained(p, id) = <<>>}
  /\ UNCHANGED reloads

\* The position of the route with this id in a service, the first if several.
Find(p, id) ==
  {k \in 1..Len(config[p].routes) :
     /\ config[p].routes[k].id = id
     /\ \A j \in 1..(k - 1) : config[p].routes[j].id # id}

\* PUT /route replaces the first route found with the id; when several services
\* have one, the map's order decides. An unknown id is an error.
PutRoute(text) ==
  /\ Room
  /\ \E route \in ParseRoute(text) : \E p \in DOMAIN config : \E k \in Find(p, route.id) :
       Commit([config EXCEPT ![p].routes[k] = route])
  /\ UNCHANGED <<reloads, released>>

\* Mutant of SamePorts: the number of ports is compared.
SamePortCount(new) == Cardinality(DOMAIN new) = Cardinality(DOMAIN config)

SamePorts(new) == DOMAIN new = DOMAIN config

\* POST /reload, first lock: the ports of a clone are validated.
ValidateReload(text) ==
  /\ Room /\ Cardinality(reloads) < MaxPending
  /\ \E new \in ParseConfig(text) :
       /\ SamePorts(new)
       /\ reloads' = reloads \cup {[new |-> new, seen |-> config]}
  /\ UNCHANGED <<config, listening, saves, file, calls, crashes, released, alone>>

\* Mutant of Reloaded: the new services inherit the senders of the clone.
ReloadedWired(r) ==
  [p \in DOMAIN r.new |-> [r.new[p] EXCEPT !.wired = r.seen[p].wired]]

Reloaded(r) == r.new

\* POST /reload, second lock: the whole configuration is replaced, whatever it
\* has become since, and with it every sender.
ApplyReload(r) ==
  /\ r \in reloads
  /\ Commit(Reloaded(r))
  /\ reloads' = reloads \ {r}
  /\ released' = released \cup DOMAIN config

-----------------------------------------------------------------------------
(* save_config_to_file: no lock orders the tasks *)

OpenFile(n) ==
  /\ n \in DOMAIN saves /\ saves[n].stage = "spawned"
  /\ saves' = [saves EXCEPT ![n].stage = "opened"]
  /\ file' = [state |-> "empty", text |-> <<>>]
  /\ UNCHANGED <<config, listening, reloads, calls, crashes, released, alone>>

Ended(n) == [m \in DOMAIN saves \ {n} |-> saves[m]]

\* The text is written at the start of the file. Where another task wrote since
\* the file was truncated, a shorter text leaves the end of the older one.
WriteFile(n) ==
  LET text == ConfigText(saves[n].snapshot)
      whole == [state |-> "whole", text |-> text]
  IN /\ n \in DOMAIN saves /\ saves[n].stage = "opened"
     /\ saves' = Ended(n)
     /\ \/ file' = whole
        \/ /\ file.state \in {"whole", "garbled"} /\ file # whole
           /\ file' = [state |-> "garbled", text |-> <<>>]
     /\ UNCHANGED <<config, listening, reloads, calls, crashes, released, alone>>

\* The directory, the file or the write fails: the error is logged.
FailSave(n) ==
  /\ n \in DOMAIN saves
  /\ saves' = Ended(n)
  /\ alone' = FALSE
  /\ UNCHANGED <<config, listening, reloads, file, calls, crashes, released>>

-----------------------------------------------------------------------------
(* The health checker: a result finds its route by the id *)

Known(route) ==
  /\ route.router.kind # "file"
  /\ \E t \in DOMAIN route.router.targets : route.router.targets[t].is_alive # "unknown"

\* The routes some target of which has been reported.
Reported ==
  UNION {{<<p, k>> : k \in {j \in DOMAIN config[p].routes : Known(config[p].routes[j])}} :
           p \in DOMAIN config}

\* Router::update_route_alive; a file router has no targets.
UpdateRouteAlive(router, e, status) ==
  IF router.kind = "file" THEN router
  ELSE [router EXCEPT !.targets =
          [t \in DOMAIN @ |-> IF @[t].endpoint = e THEN [@[t] EXCEPT !.is_alive = status]
                              ELSE @[t]]]

\* The status of an endpoint changes in the configuration; nothing is saved.
ReportAlive(id, e, status) ==
  /\ \E p \in DOMAIN config : \E k \in Find(p, id) :
       /\ <<p, k>> \in Reported \/ Cardinality(Reported) < MaxReported
       /\ config' = [config EXCEPT ![p].routes[k].router = UpdateRouteAlive(@, e, status)]
  /\ UNCHANGED <<listening, saves, reloads, file, calls, crashes, released, alone>>

-----------------------------------------------------------------------------
(* start_proxy and the listeners' accept loops *)

\* The listener binds its port and accepts, or its start fails: the port is
\* taken, or the service of a TLS listener is gone already.
StartProxy(p) ==
  /\ listening[p] = "starting"
  /\ \E state \in {"up", "down"} : listening' = [listening EXCEPT ![p] = state]
  /\ UNCHANGED <<config, saves, reloads, file, calls, crashes, released, alone>>

Holds(cfg, p) == p \in DOMAIN cfg /\ cfg[p].wired

\* Some clone of the sender of the listener of p is left.
SenderAlive(p) ==
  \/ Holds(config, p)
  \/ \E n \in DOMAIN saves : Holds(saves[n].snapshot, p)
  \/ \E r \in reloads : Holds(r.seen, p)

\* recv() returns None: the listener breaks out of its loop.
StopListener(p) ==
  /\ listening[p] = "up"
  /\ ~SenderAlive(p)
  /\ listening' = [listening EXCEPT ![p] = "down"]
  /\ UNCHANGED <<config, saves, reloads, file, calls, crashes, released, alone>>

\* The process dies and is started again: run_app reads the file it was
\* started from, never the one the API saves to.
CrashRestart ==
  /\ crashes < MaxCrashes
  /\ crashes' = crashes + 1
  /\ config' = StartedConfig
  /\ listening' = StartedListeners
  /\ saves' = <<>> /\ reloads' = {}
  /\ released' = {} /\ alone' = FALSE
  /\ UNCHANGED <<file, calls>>

Next ==
  \/ \E text \in Posts : PostAppConfig(text)
  \/ \E id \in RouteIds : DeleteRoute(id)
  \/ \E text \in Puts : PutRoute(text)
  \/ \E text \in Reloads : ValidateReload(text)
  \/ \E r \in reloads : ApplyReload(r)
  \/ \E n \in 1..MaxCalls : OpenFile(n) \/ WriteFile(n) \/ FailSave(n)
  \/ \E p \in Ports : StartProxy(p) \/ StopListener(p)
  \/ \E id \in RouteIds, e \in Endpoints, status \in Reports : ReportAlive(id, e, status)
  \/ CrashRestart

Spec == Init /\ [][Next]_vars

\* The runtime runs every task that is ready; no call has to come, and a reload
\* past its validation is a task too.
Fairness ==
  /\ \A n \in 1..MaxCalls : WF_vars(OpenFile(n) \/ WriteFile(n) \/ FailSave(n))
  /\ \A p \in Ports : WF_vars(StartProxy(p)) /\ WF_vars(StopListener(p))
  /\ WF_vars(\E r \in reloads : ApplyReload(r))

FairSpec == Spec /\ Fairness

-----------------------------------------------------------------------------
(* Properties *)

TargetOK(kind, target) ==
  /\ DOMAIN target = Needs[kind] \cup {"is_alive"}
  /\ target.is_alive \in {"unknown", "alive", "dead"}

RouterOK(router) ==
  \/ router.kind = "file" /\ router.doc_root \in Directories
  \/ /\ router.kind \in DOMAIN Needs
     /\ \A t \in DOMAIN router.targets : TargetOK(router.kind, router.targets[t])

ConfigOK(cfg) ==
  /\ DOMAIN cfg \subseteq Ports
  /\ \A p \in DOMAIN cfg :
       /\ cfg[p].wired \in BOOLEAN
       /\ \A k \in DOMAIN cfg[p].routes : RouterOK(cfg[p].routes[k].router)

\* Every variable stays in its type, whatever texts were parsed, and no service
\* of a port without a listener holds a listener's sender.
TypeOK ==
  /\ ConfigOK(config)
  /\ listening \in [Ports -> {"none", "starting", "up", "down"}]
  /\ DOMAIN saves \subseteq 1..calls
  /\ \A n \in DOMAIN saves :
       ConfigOK(saves[n].snapshot) /\ saves[n].stage \in {"spawned", "opened"}
  /\ \A r \in reloads : ConfigOK(r.new) /\ ConfigOK(r.seen)
  /\ file.state \in {"absent", "empty", "whole", "garbled"}
  /\ calls \in 0..MaxCalls /\ crashes \in 0..MaxCrashes
  /\ released \subseteq Ports
  /\ alone \in BOOLEAN
  /\ \A p \in DOMAIN config : config[p].wired => listening[p] # "none"

\* What a route is after a start from the saved text: it has a new id, and no
\* status is known.
ForgottenRouter(router) ==
  IF router.kind = "file" THEN router
  ELSE [router EXCEPT !.targets =
          [t \in DOMAIN @ |-> [@[t] EXCEPT !.is_alive = "unknown"]]]
Forgotten(route) == [route EXCEPT !.id = Generated, !.router = ForgottenRouter(@)]

\* The routes whose text the parser takes back. The others are a header router
\* some target of which has a status, headers for static resources, and a
\* breaker whose cooldown is not in whole seconds.
Lasting(route) ==
  /\ ~(route.router.kind = "header" /\ Known(route))
  /\ \A m \in DOMAIN route.middlewares :
       LET mw == route.middlewares[m]
       IN /\ mw.kind # "rewrite_headers"
          /\ mw.kind = "circuit_breaker" => mw.cooldown % 1000 = 0

\* Once the saves are done, the file has the configuration in memory: a process
\* started from it would route the same, but for what the health checker found
\* out, and but for the routes that do not parse: with one of them it would not
\* start. This holds only where the last call's save ran by itself; overlapping
\* ones may leave an older text or a mixture behind.
FileHoldsLastChange ==
  (saves = <<>> /\ alone) =>
    /\ file.state = "whole"
    /\ DOMAIN file.text = DOMAIN config
    /\ \A p \in DOMAIN config :
         /\ Len(file.text[p]) = Len(config[p].routes)
         /\ \A k \in DOMAIN config[p].routes :
              LET route == config[p].routes[k]
                  loaded == ParseRoute(file.text[p][k])
              IN /\ loaded \subseteq {Forgotten(route)}
                 /\ Lasting(route) => loaded # {}

\* A service keeps its listener through every POST and PUT and through the
\* DELETE of other services' routes: only the loss of its own last route and a
\* reload give the sender up.
ListenersOutliveOtherCalls ==
  \A p \in DOMAIN StartedConfig \ released : SenderAlive(p)

\* The listener of a port that lost its service ends, however many snapshots
\* still hold its sender then, and also when the port is posted again meanwhile.
DroppedPortStops ==
  \A p \in Ports : (p \notin DOMAIN config) ~> (listening[p] # "up")

\* A reload that no other change of the ports came in between does not change
\* the set of listen ports.
ReloadKeepsPorts ==
  [][\A r \in reloads \ reloads' :
       (crashes' = crashes /\ DOMAIN r.seen = DOMAIN config) =>
         DOMAIN config' = DOMAIN config]_vars

\* vojo/cli.rs: the reload command "ensures that the gateway continues listening
\* on the same ports". As long as only reloads happened, no listener that was
\* up ends.
ReloadKeepsListeners ==
  [][\A p \in Ports :
       (crashes' = crashes /\ DOMAIN config = DOMAIN StartedConfig /\ p \in DOMAIN config) =>
         (listening[p] = "up" => listening'[p] = "up")]_vars
=============================================================================
