----------------------------- MODULE BrokerFactory ----------------------------
(***************************************************************************)
(* broker.New of pkg/broker/factory.go in front of the Kafka, NATS and     *)
(* NATS Streaming adapters, which register themselves in their init().     *)
(* New looks the name up, builds the adapter and returns it together with  *)
(* the error of its first Connect.  GlobalBroker() gives the noop broker   *)
(* instead, until SetGlobalBroker is called.  The application may publish  *)
(* through the brokered event bus of pkg/eventbus/broker.go, which sends   *)
(* each event to the broker from a goroutine of its own.                   *)
(*                                                                         *)
(* The application is one goroutine that follows the contract a caller     *)
(* would read from the Broker interface: it retries Connect while it       *)
(* fails, calls Publish, Subscribe, Unsubscribe and Disconnect only after  *)
(* a Connect returned nil, and calls Connect again before it reuses a      *)
(* broker it disconnected.                                                 *)
(***************************************************************************)
EXTENDS Naturals

CONSTANTS
  Names,      \* names the application may pass to New
  MaxFails,   \* bound on the connections the servers refuse
  MaxDrops,   \* bound on the drops of the NATS Streaming connection
  MaxCalls    \* bound on the application's calls after New, bus events included

\* The names the adapters' init() functions register.  rabbitmq/broker.go
\* registers "rabbitmq" too; its adapter forwards to the connection that
\* RabbitConnection models on its own, and New on that name is left out.
Registered == {"kafka", "nats", "stan"}

VARIABLES
  kind, app, calls,
  sends,      \* the brokered bus's goroutines that have not sent yet
  kc, kp, ksc, consumers,
  nconn, nsubs,
  sconn, natsUp, natsOpen, ssubs, drops,
  osubs,
  result, fails, panicked

kafkaOnly == <<kc, kp, ksc, consumers>>
natsOnly  == <<nconn, nsubs>>
stanOnly  == <<sconn, natsUp, natsOpen, ssubs, drops>>
noopOnly  == osubs
vars == <<kind, app, calls, sends, kafkaOnly, natsOnly, stanOnly, noopOnly, result, fails, panicked>>

K == INSTANCE KafkaBroker
N == INSTANCE NatsBroker
S == INSTANCE StanBroker
O == INSTANCE NoopBroker

Init ==
  /\ kind = "none"
  /\ app = "new"
  /\ calls = 0
  /\ sends = 0
  /\ K!KInit /\ N!NInit /\ S!SInit /\ O!OInit

\* One step of the adapter New built (kind' is assigned before it); the
\* others' state stays as it is.
KafkaStep(A) == kind' = "kafka" /\ A /\ UNCHANGED <<natsOnly, stanOnly, noopOnly>>
NatsStep(A)  == kind' = "nats"  /\ A /\ UNCHANGED <<kafkaOnly, stanOnly, noopOnly>>
StanStep(A)  == kind' = "stan"  /\ A /\ UNCHANGED <<kafkaOnly, natsOnly, noopOnly>>
NoopStep(A)  == kind' = "noop"  /\ A /\ UNCHANGED <<kafkaOnly, natsOnly, stanOnly, fails>>

Connect ==
  \/ KafkaStep(K!KConnect) \/ NatsStep(N!NConnect) \/ StanStep(S!SConnect)
  \/ NoopStep(O!OReturnNil)
Disconnect ==
  \/ KafkaStep(K!KDisconnect) \/ NatsStep(N!NDisconnect) \/ StanStep(S!SDisconnect)
  \/ NoopStep(O!OReturnNil)
Publish ==
  \/ KafkaStep(K!KPublish) \/ NatsStep(N!NPublish) \/ StanStep(S!SPublish)
  \/ NoopStep(O!OReturnNil)
Subscribe ==
  \/ KafkaStep(K!KSubscribe) \/ NatsStep(N!NSubscribe) \/ StanStep(S!SSubscribe)
  \/ NoopStep(O!OSubscribe)
Unsubscribe ==
  \/ KafkaStep(K!KUnsubscribe) \/ NatsStep(N!NUnsubscribe) \/ StanStep(S!SUnsubscribe)
  \/ NoopStep(O!OUnsubscribe)

\* Where the application goes after a Connect: on with the broker, or back
\* to retry.
AfterConnect == app' = IF result' = "ok" THEN "ready" ELSE "retry"

\* New(name): a registered name builds the adapter (every field nil) and
\* returns it with the error of Connect; another name returns
\* ErrInvalidBrokerFactory and no broker.
New ==
  /\ app = "new"
  /\ \E name \in Names :
       IF name \in Registered
       THEN kind' = name /\ Connect /\ AfterConnect
       ELSE /\ result' = "err"
            /\ app' = "invalid"
            /\ UNCHANGED <<kind, kafkaOnly, natsOnly, stanOnly, noopOnly, fails, panicked>>
  /\ UNCHANGED <<calls, sends>>

\* GlobalBroker() before any SetGlobalBroker, then its Connect.
Global ==
  /\ app = "new"
  /\ NoopStep(O!OReturnNil)
  /\ AfterConnect
  /\ UNCHANGED <<calls, sends>>

\* The application calls Connect again, after an error or a Disconnect.
Reconnect ==
  /\ app \in {"retry", "down"}
  /\ ~panicked
  /\ calls < MaxCalls
  /\ calls' = calls + 1
  /\ UNCHANGED kind
  /\ Connect
  /\ AfterConnect
  /\ UNCHANGED sends

\* A call on a connected broker.
Use ==
  /\ app = "ready"
  /\ ~panicked
  /\ calls < MaxCalls
  /\ calls' = calls + 1
  /\ UNCHANGED kind
  /\ \/ Publish /\ UNCHANGED app
     \/ Subscribe /\ UNCHANGED app
     \/ Unsubscribe /\ UNCHANGED app
     \/ Disconnect /\ app' = "down"
  /\ UNCHANGED sends

\* brokeredBus.Publish: the local bus's Publish (EventBus), then a
\* goroutine that encodes the arguments and calls the broker's Publish.
BusPublish ==
  /\ app = "ready"
  /\ ~panicked
  /\ calls < MaxCalls
  /\ calls' = calls + 1
  /\ sends' = sends + 1
  /\ UNCHANGED <<kind, app, kafkaOnly, natsOnly, stanOnly, noopOnly, result, fails, panicked>>

\* A goroutine of the bus calls the broker's Publish, whatever the
\* application has done since; an error is logged.
BusSend ==
  /\ sends > 0
  /\ ~panicked
  /\ sends' = sends - 1
  /\ UNCHANGED <<kind, app, calls>>
  /\ Publish

\* The NATS connection under a NATS Streaming broker drops or comes back.
Network ==
  /\ UNCHANGED kind
  /\ \/ StanStep(S!SNatsDrop)
     \/ StanStep(S!SNatsBack)
  /\ UNCHANGED <<app, calls, sends>>

Next == New \/ Global \/ Reconnect \/ Use \/ BusPublish \/ BusSend \/ Network

Spec == Init /\ [][Next]_vars

-----------------------------------------------------------------------------
(* Properties *)

\* An application that calls the broker only after its last Connect
\* returned nil, and a subscriber's Unsubscribe only after its Subscribe
\* returned nil, never panics: whatever broker New or GlobalBroker gave,
\* a nil Connect means Publish, Subscribe and Disconnect find the clients
\* they call, also when a brokered bus's goroutine publishes later.
NoPanicAfterConnect == ~panicked

=============================================================================
