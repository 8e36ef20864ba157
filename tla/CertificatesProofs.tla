------------------------- MODULE CertificatesProofs -------------------------
(***************************************************************************)
(* The state invariants of Certificates, for every bound on certificates   *)
(* and faults: types, that the files are a pair unless a renewal was       *)
(* broken off, and that the orders have port 80 one at a time.             *)
(***************************************************************************)
EXTENDS Certificates, TLAPS

\* Between the two reads of a load a certificate has been read.
LoadInv == listener \in {"startingKey", "reloadingKey"} => seen > 0

\* A renewal that has not touched a file, or is past both, leaves a pair; one
\* that has written the certificate wrote the last one issued.
PairInv ==
  /\ manager \in {"waiting", "obtaining", "openCert"} /\ ~interrupted => cert = key
  /\ manager \in {"openKey", "writeKey"} => cert = issued
  /\ manager = "obtaining" => issued < MaxCerts
  /\ manager \in {"openCert", "writeCert", "openKey", "writeKey"} => issued > 0

Inv == StateOK /\ PairInv /\ LoadInv

IInv == Inv /\ OrdersOK /\ HistoryOK

USE DEF Certs, Absent, Empty, NoTls, SelfSigned

\* The initial states satisfy the invariant.
LEMMA InitInv == Init => IInv
<1> SUFFICES ASSUME Init PROVE IInv
  OBVIOUS
<1>1. age \in [Certs -> {"fresh", "due", "expired"}]
  BY DEF Init
<1>2. Inv
  BY <1>1, BoundAssumption DEF Init, Inv, StateOK, PairInv, LoadInv, Watched
<1>3. HistoryOK
  BY DEF Init, HistoryOK
<1>4. OrdersOK
  BY BoundAssumption, ClientAssumption DEF Init, OrdersOK, OrderInit, OrderOK, Stages
<1> QED BY <1>2, <1>3, <1>4 DEF IInv

\* The history variables are only ever set to truth values.
LEMMA HistoryInv ==
  ASSUME HistoryOK, Next
  PROVE  HistoryOK'
<1>1. CASE UNCHANGED history
  BY <1>1 DEF HistoryOK, history
<1>2. CASE OpenCert \/ WriteCert \/ OpenKey \/ WriteKey
  <2>1. announced' = Watched
    BY <1>2, Zenon DEF OpenCert, WriteCert, OpenKey, WriteKey, Changed
  <2>2. Watched \in BOOLEAN
    BY DEF Watched
  <2>3. announced' \in BOOLEAN
    BY <2>1, <2>2, Zenon
  <2>4. interrupted' = interrupted \/ interrupted' = FALSE
    BY <1>2, Zenon DEF OpenCert, WriteCert, OpenKey, WriteKey
  <2>5. interrupted' \in BOOLEAN
    BY <2>4, Zenon DEF HistoryOK
  <2> QED BY <2>3, <2>5, Zenon DEF HistoryOK
<1>3. CASE WriteFails
  BY <1>3 DEF WriteFails, HistoryOK
<1>4. CASE CrashRestart
  BY <1>4 DEF CrashRestart, HistoryOK
<1> QED
  BY <1>1, <1>2, <1>3, <1>4
     DEF Next, Check, Obtain, ObtainFails, AdvanceOrder, CallEndpoint, AnswerEndpoint,
         others, StartCert, StartKey, Watch, Receive,
         ReloadCert, ReloadKey, LoadCert, LoadKey, Age, managerVars, history

\* The steps of the renewal task keep the rest.
LEMMA ManagerInv ==
  ASSUME Inv,
         Check \/ Obtain \/ ObtainFails
           \/ OpenCert \/ WriteCert \/ OpenKey \/ WriteKey \/ WriteFails
  PROVE  Inv'
<1> USE BoundAssumption DEF Inv, StateOK, PairInv, LoadInv, Watched, listenerVars, files, history
<1>1. CASE Check
  BY <1>1 DEF Check
<1>2. CASE Obtain
  <2>1. issued' \in 0..MaxCerts
    BY <1>2 DEF Obtain
  <2> QED BY <1>2, <2>1 DEF Obtain
<1>3. CASE ObtainFails
  BY <1>3 DEF ObtainFails
<1>4. CASE OpenCert
  BY <1>4 DEF OpenCert, Changed, Announces
<1>5. CASE WriteCert
  BY <1>5 DEF WriteCert, Changed, Announces
<1>6. CASE OpenKey
  BY <1>6 DEF OpenKey, Changed, Announces
<1>7. CASE WriteKey
  BY <1>7 DEF WriteKey, Changed, Announces
<1>8. CASE WriteFails
  <2>1. ~interrupted' => ~interrupted /\ ~Between
    BY <1>8, Zenon DEF WriteFails
  <2>2. /\ manager = "openCert" \/ Between
        /\ manager' = "waiting" /\ faults' = faults + 1
        /\ UNCHANGED <<files, issued, age, listenerVars, events>>
    BY <1>8 DEF WriteFails, AfterFailure
  <2>3. StateOK' /\ LoadInv'
    BY <2>2
  <2>4. PairInv'
    BY <2>1, <2>2
  <2> QED BY <2>3, <2>4
<1> QED BY <1>1, <1>2, <1>3, <1>4, <1>5, <1>6, <1>7, <1>8

\* The steps of the listener, of time and of a crash keep it.
LEMMA ListenerInv ==
  ASSUME Inv,
         StartCert \/ StartKey \/ Watch \/ Receive \/ ReloadCert \/ ReloadKey
  PROVE  Inv'
<1> USE BoundAssumption DEF Inv, StateOK, PairInv, LoadInv, Watched, managerVars, files
<1>1. CASE StartCert
  BY <1>1 DEF StartCert, LoadCert, FallsBack
<1>2. CASE StartKey
  BY <1>2 DEF StartKey, LoadKey
<1>3. CASE Watch
  BY <1>3 DEF Watch
<1>4. CASE Receive
  BY <1>4 DEF Receive
<1>5. CASE ReloadCert
  BY <1>5 DEF ReloadCert, LoadCert, FallsBack
<1>6. CASE ReloadKey
  BY <1>6 DEF ReloadKey, LoadKey
<1> QED BY <1>1, <1>2, <1>3, <1>4, <1>5, <1>6

LEMMA EnvironmentInv ==
  ASSUME Inv,
         CrashRestart \/ \E c \in Certs : Age(c)
  PROVE  Inv'
<1> USE BoundAssumption DEF Inv, StateOK, PairInv, LoadInv, Watched
<1>1. CASE CrashRestart
  <2>1. ~interrupted' => ~interrupted /\ ~Between
    BY <1>1, Zenon DEF CrashRestart
  <2>2. /\ manager' = "waiting" /\ faults' = faults + 1
        /\ listener' = "starting" /\ seen' = Absent /\ tls' = NoTls /\ events' = 0
        /\ UNCHANGED <<files, issued, age>>
    BY <1>1 DEF CrashRestart
  <2>3. StateOK' /\ LoadInv'
    BY <2>2 DEF files
  <2>4. PairInv'
    BY <2>1, <2>2 DEF Between, files
  <2> QED BY <2>3, <2>4
<1>2. CASE \E c \in Certs : Age(c)
  BY <1>2 DEF Age, managerVars, listenerVars, files
<1> QED BY <1>1, <1>2

-----------------------------------------------------------------------------
(* The orders *)

\* Every step of an order keeps the types and the one server on port 80.
LEMMA OrderStep ==
  ASSUME OrderOK, NEW c \in Clients,
         Begin(c) \/ Advance(c) \/ Deliver(c) \/ Leave(c) \/ Fail(c)
  PROVE  OrderOK'
<1> USE DEF OrderOK, Stages, Move
<1>1. CASE Begin(c)
  BY <1>1 DEF Begin, Authorizations
<1>2. CASE Bind(c)
  BY <1>2 DEF Bind
<1>3. CASE Validate(c) \/ Refuse(c)
  BY <1>3 DEF Validate, Refuse
<1>4. CASE Finalize(c) \/ GiveUp(c)
  BY <1>4 DEF Finalize, GiveUp
<1>5. CASE Stop(c)
  BY <1>5 DEF Stop, MayStop
<1>6. CASE Deliver(c) \/ Leave(c) \/ Fail(c)
  BY <1>6 DEF Deliver, Leave, Fail, End
<1> QED BY <1>1, <1>2, <1>3, <1>4, <1>5, <1>6 DEF Advance

\* An order that goes on neither begins nor ends.
LEMMA AdvanceKeepsIdle ==
  ASSUME OrderOK, NEW c \in Clients, NEW d \in Clients, Advance(c)
  PROVE  stage'[d] = "idle" <=> stage[d] = "idle"
BY DEF OrderOK, Advance, Bind, Validate, Refuse, Finalize, GiveUp, Stop, Move

\* The task waits for its order at every step of the system.
LEMMA OrdersInv ==
  ASSUME OrdersOK, Next
  PROVE  OrdersOK'
<1> USE BoundAssumption
<1>r. "renewal" \in Clients /\ "endpoint" \in Clients
  BY ClientAssumption
<1>1. CASE Check
  <2>1. Begin("renewal") /\ manager' = "obtaining" /\ requests' = requests
    BY <1>1 DEF Check
  <2>2. stage'["renewal"] = "binding"
    BY <2>1, <1>r DEF Begin, Move, OrdersOK, OrderOK
  <2> QED BY <2>1, <2>2, <1>r, OrderStep DEF OrdersOK
<1>2. CASE Obtain \/ ObtainFails
  <2>1. /\ Deliver("renewal") \/ Leave("renewal") \/ Fail("renewal")
        /\ manager' # "obtaining" /\ requests' = requests
    BY <1>2 DEF Obtain, ObtainFails
  <2>2. stage'["renewal"] = "idle"
    BY <2>1, <1>r DEF Deliver, Leave, Fail, End, Move, OrdersOK, OrderOK
  <2> QED BY <2>1, <2>2, <1>r, OrderStep DEF OrdersOK
<1>3. CASE \E c \in Clients : AdvanceOrder(c)
  <2>1. PICK c \in Clients : Advance(c) /\ manager' = manager /\ requests' = requests
    BY <1>3 DEF AdvanceOrder, others
  <2>2. stage'["renewal"] = "idle" <=> stage["renewal"] = "idle"
    BY <2>1, <1>r, AdvanceKeepsIdle DEF OrdersOK
  <2> QED BY <2>1, <2>2, OrderStep DEF OrdersOK
<1>4. CASE CallEndpoint \/ AnswerEndpoint
  <2>1. /\ Begin("endpoint") \/ Deliver("endpoint") \/ Leave("endpoint") \/ Fail("endpoint")
        /\ manager' = manager /\ requests' \in Nat
    BY <1>4 DEF CallEndpoint, AnswerEndpoint, others, OrdersOK
  <2>2. stage'["renewal"] = stage["renewal"]
    BY <2>1, <1>r DEF Begin, Deliver, Leave, Fail, End, Move, OrdersOK, OrderOK
  <2> QED BY <2>1, <2>2, <1>r, OrderStep DEF OrdersOK
<1>5. CASE CrashRestart
  BY <1>5, <1>r DEF CrashRestart, DropOrders, OrdersOK, OrderOK, Stages
<1>6. CASE OpenCert \/ WriteCert \/ OpenKey \/ WriteKey \/ WriteFails
  <2>1. manager # "obtaining" /\ manager' # "obtaining" /\ UNCHANGED <<order, requests>>
    BY <1>6 DEF OpenCert, WriteCert, OpenKey, WriteKey, WriteFails, AfterFailure, Between,
                orderVars
  <2> QED BY <2>1 DEF OrdersOK, OrderOK, order
<1>7. CASE StartCert \/ StartKey \/ Watch \/ Receive \/ ReloadCert \/ ReloadKey
             \/ \E c \in Certs : Age(c)
  <2>1. UNCHANGED <<manager, order, requests>>
    BY <1>7 DEF StartCert, StartKey, Watch, Receive, ReloadCert, ReloadKey, LoadCert,
                LoadKey, Age, managerVars, orderVars
  <2> QED BY <2>1 DEF OrdersOK, OrderOK, order
<1> QED BY <1>1, <1>2, <1>3, <1>4, <1>5, <1>6, <1>7 DEF Next

\* The invariant holds in every reachable state.
THEOREM Invariance == Spec => []IInv
<1>1. IInv /\ [Next]_vars => IInv'
  <2> SUFFICES ASSUME IInv, [Next]_vars PROVE IInv'
    OBVIOUS
  <2>1. CASE UNCHANGED vars
    BY <2>1 DEF IInv, Inv, StateOK, PairInv, LoadInv, HistoryOK, Watched, OrdersOK,
                OrderOK, vars, others, orderVars, order, files, listenerVars, history
  <2>2. CASE Next
    <3>1. Inv'
      <4>1. CASE (\E c \in Clients : AdvanceOrder(c)) \/ CallEndpoint \/ AnswerEndpoint
        BY <4>1 DEF AdvanceOrder, CallEndpoint, AnswerEndpoint, others, files, listenerVars,
                    IInv, Inv, StateOK, PairInv, LoadInv, Watched, history
      <4> QED BY <2>2, <4>1, ManagerInv, ListenerInv, EnvironmentInv DEF Next, IInv
    <3> QED BY <2>2, <3>1, HistoryInv, OrdersInv DEF IInv
  <2> QED BY <2>1, <2>2
<1> QED BY <1>1, InitInv, PTL DEF Spec

\* Type correctness: in particular a listener that accepts serves something, and
\* nothing is read, written or served that was not issued.
THEOREM TypeCorrect == Spec => []TypeOK
<1>1. IInv => TypeOK
  BY DEF IInv, Inv, TypeOK
<1> QED BY <1>1, Invariance, PTL

\* A failed order, a failed first write and a completed renewal leave a pair.
THEOREM PairsCorrect == Spec => []PairsMatchUnlessInterrupted
<1>1. IInv => PairsMatchUnlessInterrupted
  BY DEF IInv, Inv, PairInv, PairsMatchUnlessInterrupted
<1> QED BY <1>1, Invariance, PTL
=============================================================================
