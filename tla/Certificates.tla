---------------------------- MODULE Certificates ----------------------------
(***************************************************************************)
(* The certificate of a TLS listener's domain: the renewal task that       *)
(* obtains certificates and writes cert.pem and key.pem one after the      *)
(* other (control_plane/certificate_manager.rs, vojo/acme_client.rs), and  *)
(* the listener that loads the two at its start and again when its watcher *)
(* sees one of them change (control_plane/cert_loader.rs). Neither knows   *)
(* where the other stands, and the process may die anywhere. The order for *)
(* a certificate shares port 80 with the orders of the REST API's          *)
(* certificate endpoint.                                                   *)
(*                                                                         *)
(* Certificates are numbered in the order they are issued; a key has the   *)
(* number of the certificate it was issued with.                           *)
(***************************************************************************)
EXTENDS AcmeOrder

CONSTANTS
  MaxCerts,      \* bound: certificates ever issued
  MaxIncidents   \* bound: crashes, failed writes and calls of the endpoint together

ASSUME BoundAssumption ==
  MaxCerts \in Nat \ {0} /\ MaxIncidents \in Nat

ASSUME ClientAssumption == Clients = {"renewal", "endpoint"}

Certs == 1..MaxCerts

\* What else a file may be, and what else a listener may serve.
Absent == 0
Empty == -1
NoTls == 0
SelfSigned == -1

VARIABLES
  cert, key,     \* the files
  issued,        \* certificates issued so far
  age,           \* of each: "fresh" (30 days or more), "due" or "expired"
  manager,       \* where the renewal task is
  listener,      \* where the listener and its watcher are
  seen,          \* the certificate a load has read before it reads the key
  tls,           \* what the listener serves
  events,        \* changes the watcher has seen and not yet received
  faults,
  requests,      \* calls of the certificate endpoint
  interrupted,   \* history: a renewal broke off since the last complete one
  announced      \* history: the last write of a file was watched

files == <<cert, key>>
history == <<interrupted, announced>>
managerVars == <<files, issued, manager, interrupted, announced, faults>>
listenerVars == <<listener, seen, tls>>
orderVars == <<order, requests>>
\* Everything but the orders, and everything but the orders and the task.
others == <<files, issued, age, manager, listenerVars, events, faults, history>>
vars == <<others, orderVars>>

\* At the start the domain has no files, or a pair somebody put there.
Init ==
  /\ \/ cert = Absent /\ key = Absent /\ issued = 0
     \/ cert = 1 /\ key = 1 /\ issued = 1
  /\ age = [c \in Certs |-> "fresh"]
  /\ manager = "waiting"
  /\ listener = "starting" /\ seen = Absent /\ tls = NoTls
  /\ events = 0
  /\ faults = 0 /\ requests = 0
  /\ OrderInit
  /\ interrupted = FALSE /\ announced = FALSE

-----------------------------------------------------------------------------
(* The renewal task *)

\* Mutant of NeedsRenewal: a file that cannot be read is left alone.
NeedsRenewalIfReadable == cert \in Certs /\ age[cert] # "fresh"

\* needs_renewal looks at cert.pem alone.
NeedsRenewal == cert \in Certs => age[cert] # "fresh"

\* A tick of the interval.
Check ==
  /\ manager = "waiting"
  /\ NeedsRenewal
  /\ issued < MaxCerts
  /\ manager' = "obtaining"
  /\ Begin("renewal")
  /\ UNCHANGED <<files, issued, age, listenerVars, events, faults, history, requests>>

\* The order gives a certificate and a key.
Obtain ==
  /\ manager = "obtaining"
  /\ Deliver("renewal")
  /\ issued' = issued + 1
  /\ manager' = "openCert"
  /\ UNCHANGED <<files, age, listenerVars, events, faults, history, requests>>

\* The order fails; the next tick tries again.
ObtainFails ==
  /\ manager = "obtaining"
  /\ Fail("renewal") \/ Leave("renewal")
  /\ manager' = "waiting"
  /\ UNCHANGED <<files, issued, age, listenerVars, events, faults, history, requests>>

\* An order goes on, or its server ends after it.
AdvanceOrder(c) == Advance(c) /\ UNCHANGED <<others, requests>>

\* POST /letsEncryptCertificate answers with what its order gave; nothing is
\* stored.
CallEndpoint ==
  /\ faults + requests < MaxIncidents
  /\ requests' = requests + 1
  /\ Begin("endpoint")
  /\ UNCHANGED others

AnswerEndpoint ==
  /\ Deliver("endpoint") \/ Leave("endpoint") \/ Fail("endpoint")
  /\ UNCHANGED <<others, requests>>

\* The watcher is set up, and keeps events for as long as its task runs.
Watched == listener \in {"watching", "reloading", "reloadingKey"}

\* Mutant of Announces: only the certificate's path is compared.
AnnouncesCert(file) == Watched /\ file = "cert"

\* The watcher's callback accepts events of both files.
Announces(file) == Watched /\ file \in {"cert", "key"}

Changed(file) ==
  /\ events' = IF Announces(file) THEN events + 1 ELSE events
  /\ announced' = Watched

\* tokio::fs::write truncates the file, or creates it, ...
OpenCert ==
  /\ manager = "openCert"
  /\ manager' = "writeCert"
  /\ cert' = Empty
  /\ Changed("cert")
  /\ UNCHANGED <<key, issued, age, listenerVars, faults, interrupted, orderVars>>

\* ... and writes the text.
WriteCert ==
  /\ manager = "writeCert"
  /\ manager' = "openKey"
  /\ cert' = issued
  /\ Changed("cert")
  /\ UNCHANGED <<key, issued, age, listenerVars, faults, interrupted, orderVars>>

OpenKey ==
  /\ manager = "openKey"
  /\ manager' = "writeKey"
  /\ key' = Empty
  /\ Changed("key")
  /\ UNCHANGED <<cert, issued, age, listenerVars, faults, interrupted, orderVars>>

WriteKey ==
  /\ manager = "writeKey"
  /\ manager' = "waiting"
  /\ key' = issued
  /\ interrupted' = FALSE
  /\ Changed("key")
  /\ UNCHANGED <<cert, issued, age, listenerVars, faults, orderVars>>

\* Some file of the old pair is lost and not every one of the new pair is there.
Between == manager \in {"writeCert", "openKey", "writeKey"}

\* Mutant of AfterFailure: the error of the first write is dropped.
AfterFailureGoOn == IF manager \in {"openCert", "writeCert"} THEN "openKey" ELSE "waiting"

\* Where a renewal goes when a write fails.
AfterFailure == "waiting"

\* A write fails before or after the file is truncated.
WriteFails ==
  /\ faults + requests < MaxIncidents
  /\ Between \/ manager = "openCert"
  /\ faults' = faults + 1
  /\ manager' = AfterFailure
  /\ interrupted' = (interrupted \/ Between)
  /\ UNCHANGED <<files, issued, age, listenerVars, events, announced, orderVars>>

-----------------------------------------------------------------------------
(* The listener *)

\* create_self_signed_cert takes the place of what cannot be loaded.
FallsBack ==
  \/ cert = Absent \/ key = Absent
  \/ cert = Empty
  \/ cert \in Certs /\ age[cert] = "expired"

\* load_tls_config, up to the certificate.
LoadCert(from, middle, done) ==
  /\ listener = from
  /\ IF FallsBack
     THEN listener' = done /\ tls' = SelfSigned /\ UNCHANGED seen
     ELSE listener' = middle /\ seen' = cert /\ UNCHANGED tls
  /\ UNCHANGED <<managerVars, age, events, orderVars>>

\* load_tls_config, the key: one that is empty or another certificate's is an
\* error, and what follows it depends on the caller.
LoadKey(middle, done, failed) ==
  /\ listener = middle
  /\ IF key = seen
     THEN listener' = done /\ tls' = seen
     ELSE listener' = failed /\ UNCHANGED tls
  /\ seen' = Absent
  /\ UNCHANGED <<managerVars, age, events, orderVars>>

\* start_https_server loads before it spawns the watcher; an error ends it.
StartCert == LoadCert("starting", "startingKey", "unwatched")
\* Mutant of StartKey: the error is logged and the listener goes on.
StartKeyAnyway == LoadKey("startingKey", "unwatched", "unwatched")

StartKey == LoadKey("startingKey", "unwatched", "down")

\* The watcher's task sets the watch up, or returns without one.
Watch ==
  /\ listener = "unwatched"
  /\ listener' \in {"watching", "blind"}
  /\ UNCHANGED <<managerVars, age, seen, tls, events, orderVars>>

\* recv() and the sleep of a second.
Receive ==
  /\ listener = "watching" /\ events > 0
  /\ listener' = "reloading"
  /\ events' = events - 1
  /\ UNCHANGED <<managerVars, age, seen, tls, orderVars>>

\* An error keeps the old configuration.
ReloadCert == LoadCert("reloading", "reloadingKey", "watching")
ReloadKey == LoadKey("reloadingKey", "watching", "watching")

-----------------------------------------------------------------------------
(* Time and crashes *)

Age(c) ==
  /\ c <= issued
  /\ \/ age[c] = "fresh" /\ age' = [age EXCEPT ![c] = "due"]
     \/ age[c] = "due" /\ age' = [age EXCEPT ![c] = "expired"]
  /\ UNCHANGED <<managerVars, listenerVars, events, orderVars>>

\* The process dies and is started again; only the files are left.
CrashRestart ==
  /\ faults + requests < MaxIncidents
  /\ faults' = faults + 1
  /\ interrupted' = (interrupted \/ Between)
  /\ announced' = FALSE
  /\ manager' = "waiting"
  /\ listener' = "starting" /\ seen' = Absent /\ tls' = NoTls
  /\ events' = 0
  /\ DropOrders
  /\ UNCHANGED <<files, issued, age, requests>>

Next ==
  \/ Check \/ Obtain \/ ObtainFails
  \/ \E c \in Clients : AdvanceOrder(c)
  \/ CallEndpoint \/ AnswerEndpoint
  \/ OpenCert \/ WriteCert \/ OpenKey \/ WriteKey \/ WriteFails
  \/ StartCert \/ StartKey \/ Watch \/ Receive \/ ReloadCert \/ ReloadKey
  \/ \E c \in Certs : Age(c)
  \/ CrashRestart

Spec == Init /\ [][Next]_vars

\* The tasks of the renewal and of the listener, each of them sequential.
Write == OpenCert \/ WriteCert \/ OpenKey \/ WriteKey
Serve == StartCert \/ StartKey \/ Watch \/ Receive \/ ReloadCert \/ ReloadKey

Framed(step) == step /\ UNCHANGED <<others, requests>>

\* The interval ticks, tasks that are ready run, and what may fail at a step of
\* an order does not always: the authority answers, it does not always come before
\* the server, port 80 can be bound when no other order has it, and a server left
\* behind may end before the next tick. The endpoint's order comes to some end. Nothing has to
\* age, fail or crash.
Fairness ==
  /\ WF_vars(Check) /\ WF_vars(Obtain)
  /\ SF_vars(Framed(challenge["renewal"] # "invalid" /\ Bind("renewal")))
  /\ SF_vars(Framed(Validate("renewal"))) /\ SF_vars(Framed(Finalize("renewal")))
  /\ SF_vars(Framed(stage["renewal"] = "idle" /\ Stop("renewal")))
  /\ WF_vars(ObtainFails) /\ WF_vars(AnswerEndpoint)
  /\ \A c \in Clients : WF_vars(Framed(Stop(c)))
  /\ WF_vars(Write) /\ WF_vars(Serve)

FairSpec == Spec /\ Fairness

-----------------------------------------------------------------------------
(* Properties *)

StateOK ==
  /\ issued \in 0..MaxCerts
  /\ cert \in {Absent, Empty} \cup 1..issued
  /\ key \in {Absent, Empty} \cup 1..issued
  /\ age \in [Certs -> {"fresh", "due", "expired"}]
  /\ manager \in {"waiting", "obtaining", "openCert", "writeCert", "openKey", "writeKey"}
  /\ listener \in {"starting", "startingKey", "unwatched", "blind", "watching",
                   "reloading", "reloadingKey", "down"}
  /\ seen \in 0..issued /\ tls \in {NoTls, SelfSigned} \cup 1..issued
  /\ (tls = NoTls) <=> (listener \in {"starting", "startingKey", "down"})
  /\ events \in Nat /\ (events > 0 => Watched)
  /\ faults \in Nat

\* The task waits for its order.
OrdersOK ==
  /\ OrderOK
  /\ manager = "obtaining" <=> stage["renewal"] # "idle"
  /\ requests \in Nat

HistoryOK == interrupted \in BOOLEAN /\ announced \in BOOLEAN

\* Every variable stays in its type. What is read or served was issued, a
\* listener that accepts has something to serve, and no two challenge servers
\* are bound at a time.
TypeOK == StateOK /\ OrdersOK /\ HistoryOK

\* Between renewals the two files belong together unless a renewal was broken
\* off after it touched the first: whatever a failing order leaves is a pair.
PairsMatchUnlessInterrupted ==
  (manager = "waiting" /\ ~interrupted) => cert = key

\* A listener that is watching gets to serve a complete pair that was written,
\* however its loads fell between the writes, unless the pair expires or is
\* replaced first or the process dies.
RenewedIsServed ==
  (announced /\ manager = "waiting" /\ cert = key /\ cert \in Certs)
    ~> (tls = cert \/ FallsBack \/ manager # "waiting" \/ ~announced)

\* A certificate that is missing, unreadable, due or expired is replaced by a
\* fresh one in the end, whatever fails in between (up to the bound on those
\* ever issued).
DueIsRenewed ==
  ~(cert \in Certs /\ age[cert] = "fresh")
    ~> ((cert \in Certs /\ age[cert] = "fresh") \/ issued = MaxCerts)

\* No challenge server keeps port 80 for good, also when its order broke off or
\* the task that ran it went on: the next order can bind it.
PortIsFreed == \A c \in Clients : server[c] ~> ~server[c]
=============================================================================
