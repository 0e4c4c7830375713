------------------------------ MODULE KafkaBroker -----------------------------
(***************************************************************************)
(* The Kafka adapter of pkg/broker/kafka: Connect, Disconnect, Publish,    *)
(* Subscribe and the subscriber's Unsubscribe, each one call of the        *)
(* application's goroutine.  Its three clients are the fields k.c (a       *)
(* sarama.Client), k.p (a sarama.SyncProducer) and k.sc (a sarama-cluster  *)
(* client), each "nil", "open" or "closed"; a closed one stays in its      *)
(* field.  The broker side may refuse the two constructors that dial it.  *)
(***************************************************************************)
EXTENDS Naturals

CONSTANT MaxFails   \* bound on the constructors the broker side refuses

VARIABLES
  kc, kp, ksc,   \* k.c, k.p, k.sc
  consumers,     \* consumer goroutines: how many run, and how many spin once closed
  result,        \* what the last call returned: "ok" or "err"
  fails,         \* constructors refused so far
  panicked       \* a call panicked, which ends the program

kvars == <<kc, kp, ksc, consumers, result, fails, panicked>>

KInit ==
  /\ kc = "nil" /\ kp = "nil" /\ ksc = "nil"
  /\ consumers = [run |-> 0, spin |-> 0]
  /\ result = "ok"
  /\ fails = 0
  /\ panicked = FALSE

\* A constructor the broker side refuses.
Refused ==
  /\ fails < MaxFails
  /\ fails' = fails + 1

\* Connect: nothing when k.c is set.  Otherwise NewClient, then the producer
\* from that client, then the cluster client; each field is assigned as soon
\* as its constructor succeeds, and the first error is returned.  The broker
\* side can refuse NewClient and sc.NewClient, which dial it; the producer
\* is built on the client just opened, with Return.Successes and
\* Return.Errors set, and sarama refuses that only for a closed client or a
\* config without them, so it never fails here.
KConnect ==
  /\ IF kc # "nil"
     THEN result' = "ok" /\ UNCHANGED <<kc, kp, ksc, fails>>
     ELSE \/ /\ Refused
             /\ result' = "err"
             /\ UNCHANGED <<kc, kp, ksc>>
          \/ /\ Refused
             /\ kc' = "open" /\ kp' = "open"
             /\ result' = "err"
             /\ UNCHANGED ksc
          \/ /\ kc' = "open" /\ kp' = "open" /\ ksc' = "open"
             /\ result' = "ok"
             /\ UNCHANGED fails
  /\ UNCHANGED <<consumers, panicked>>

\* io.Closer.Close on a field: a nil interface (k.p, k.c) or a nil
\* *sc.Client (k.sc) panics.
CloseField(f) == IF f = "nil" THEN "panic" ELSE "closed"

\* Disconnect: SafeClose(k.sc), SafeClose(k.p), then k.c.Close(); the first
\* nil field panics and the rest are not closed.
KDisconnect ==
  LET s == CloseField(ksc)
      p == CloseField(kp)
      c == CloseField(kc)
  IN /\ ksc' = IF s = "panic" THEN ksc ELSE s
     /\ kp' = IF s = "panic" \/ p = "panic" THEN kp ELSE p
     /\ kc' = IF s = "panic" \/ p = "panic" \/ c = "panic" THEN kc ELSE c
     /\ panicked' = ("panic" \in {s, p, c})
     /\ result' = "ok"
     /\ UNCHANGED <<consumers, fails>>

\* Publish: k.p.SendMessage.  A nil producer panics; a closed one sends on
\* the input channel that its shutdown closes, which panics once the
\* shutdown has run and fails before.
KPublish ==
  /\ CASE kp = "nil"    -> panicked' = TRUE /\ UNCHANGED result
       [] kp = "open"   -> result' = "ok" /\ UNCHANGED panicked
       [] kp = "closed" -> \/ panicked' = TRUE /\ UNCHANGED result
                           \/ result' = "err" /\ UNCHANGED panicked
  /\ UNCHANGED <<kc, kp, ksc, consumers, fails>>

\* Subscribe: NewConsumerFromClient(k.sc, ...) claims the client, which
\* dereferences a nil one and fails while another consumer holds it, and
\* fails on a closed client; on success a goroutine selects on the
\* consumer's Errors() and Messages() without end.
KSubscribe ==
  /\ CASE ksc = "nil"    -> panicked' = TRUE /\ UNCHANGED <<result, consumers>>
       [] ksc = "closed" \/ consumers.run > 0
                         -> result' = "err" /\ UNCHANGED <<panicked, consumers>>
       [] OTHER          -> /\ result' = "ok"
                            /\ consumers' = [consumers EXCEPT !.run = @ + 1]
                            /\ UNCHANGED panicked
  /\ UNCHANGED <<kc, kp, ksc, fails>>

\* subscriber.Unsubscribe closes the consumer, which releases the client.
\* The consumer's channels close, and the
\* goroutine's select then receives nil from both for ever: it never
\* returns, and loops without blocking.
KUnsubscribe ==
  /\ consumers.run > 0
  /\ consumers' = [run |-> consumers.run - 1, spin |-> consumers.spin + 1]
  /\ result' = "ok"
  /\ UNCHANGED <<kc, kp, ksc, fails, panicked>>

=============================================================================
