------------------------------ MODULE AcmeOrder ------------------------------
(***************************************************************************)
(* Orders for certificates (vojo/acme_client.rs): the renewal task and the *)
(* certificate endpoint of the REST API run them side by side. The         *)
(* authority wants to find a token on port 80 of the domain, so every      *)
(* order binds that port for a server of its own, which is shut down at    *)
(* the end of the order and, when the order breaks off, some time later.   *)
(*                                                                         *)
(* The authority is told to look for the token before the server is bound. *)
(***************************************************************************)
EXTENDS Integers

CONSTANT Clients  \* who runs orders, one at a time each

VARIABLES
  stage,      \* where the order of each client is; "idle" when it has none
  challenge,  \* of each: "none", "ready", or how the authority found it
  server      \* of each: some challenge server of its holds port 80

order == <<stage, challenge, server>>

OrderInit ==
  /\ stage = [c \in Clients |-> "idle"]
  /\ challenge = [c \in Clients |-> "none"]
  /\ server = [c \in Clients |-> FALSE]

\* The process dies with every order and every server.
DropOrders ==
  /\ stage' = [c \in Clients |-> "idle"]
  /\ challenge' = [c \in Clients |-> "none"]
  /\ server' = [c \in Clients |-> FALSE]

Move(c, from, to) == stage[c] = from /\ stage' = [stage EXCEPT ![c] = to]

\* set_ready is called for a pending authorization; a valid one is skipped.
Authorizations == {"ready", "valid"}

\* The account and the order.
Begin(c) ==
  /\ Move(c, "idle", "binding")
  /\ \E found \in Authorizations : challenge' = [challenge EXCEPT ![c] = found]
  /\ UNCHANGED server

Bind(c) ==
  /\ \A d \in Clients : ~server[d]
  /\ Move(c, "binding", "polling")
  /\ server' = [server EXCEPT ![c] = TRUE]
  /\ UNCHANGED challenge

\* The authority finds the token where it looked for it: the server of this
\* order answered.
Validate(c) ==
  /\ stage[c] = "polling" /\ challenge[c] = "ready"
  /\ challenge' = [challenge EXCEPT ![c] = "valid"]
  /\ UNCHANGED <<stage, server>>

\* The authority comes before the server is bound, finds the server of another
\* order, or does not get through.
Refuse(c) ==
  /\ challenge[c] = "ready"
  /\ challenge' = [challenge EXCEPT ![c] = "invalid"]
  /\ UNCHANGED <<stage, server>>

\* poll_ready finds the order ready, and finalize and poll_certificate follow;
\* or the order never will be.
Finalize(c) ==
  /\ challenge[c] = "valid" /\ Move(c, "polling", "closing")
  /\ UNCHANGED <<challenge, server>>

GiveUp(c) ==
  /\ challenge[c] = "invalid" /\ Move(c, "polling", "abandoning")
  /\ UNCHANGED <<challenge, server>>

\* Mutant of MayStop: the server waits for a message that a failed order never
\* sends, where the loss of the sender is enough.
MayStopWhenTold(c) == stage[c] \in {"closing", "abandoning"}

\* The message to shut down has been sent, or its sender dropped: every stage in
\* which the order is not using the server.
MayStop(c) == stage[c] # "polling"

Stop(c) ==
  /\ server[c] /\ MayStop(c)
  /\ server' = [server EXCEPT ![c] = FALSE]
  /\ UNCHANGED <<stage, challenge>>

End(c, from) ==
  /\ Move(c, from, "idle")
  /\ challenge' = [challenge EXCEPT ![c] = "none"]
  /\ UNCHANGED server

\* The order returns once its server has ended: a certificate or an error.
Deliver(c) == ~server[c] /\ End(c, "closing")
Leave(c) == ~server[c] /\ End(c, "abandoning")

\* A `?`: an answer of the authority, the port is taken, a timeout. The server
\* is left to itself.
Fail(c) == End(c, "binding") \/ End(c, "polling")

\* The steps of an order between its first and its last.
Advance(c) ==
  Bind(c) \/ Validate(c) \/ Refuse(c) \/ Finalize(c) \/ GiveUp(c) \/ Stop(c)

Stages == {"idle", "binding", "polling", "closing", "abandoning"}

\* The type of the three variables; port 80 is bound by one server at a time,
\* and an order that is looked for has one.
OrderOK ==
  /\ stage \in [Clients -> Stages]
  /\ challenge \in [Clients -> {"none", "ready", "valid", "invalid"}]
  /\ server \in [Clients -> BOOLEAN]
  /\ \A c, d \in Clients : server[c] /\ server[d] => c = d
  /\ \A c \in Clients : stage[c] = "polling" => server[c]
=============================================================================
