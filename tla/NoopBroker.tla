------------------------------ MODULE NoopBroker ------------------------------
(***************************************************************************)
(* The noop broker of pkg/broker/noop.go, which GlobalBroker() returns     *)
(* until SetGlobalBroker is called.  Every method returns nil; Subscribe   *)
(* returns a nil Subscriber with its nil error.                            *)
(***************************************************************************)
EXTENDS Naturals

VARIABLES
  osubs,      \* nil Subscribers returned by Subscribe
  result,     \* what the last call returned: "ok" or "err"
  panicked    \* a call panicked, which ends the program

ovars == <<osubs, result, panicked>>

\* globalBroker's initial value, noopBroker{}.
OInit ==
  /\ osubs = 0
  /\ result = "ok"
  /\ panicked = FALSE

\* Connect, Disconnect and Publish return nil and change nothing.
OReturnNil ==
  /\ result' = "ok"
  /\ UNCHANGED <<osubs, panicked>>

\* Subscribe returns nil, nil: the caller holds a nil Subscriber.
OSubscribe ==
  /\ osubs' = osubs + 1
  /\ result' = "ok"
  /\ UNCHANGED panicked

\* Unsubscribe on the nil Subscriber: a method call on a nil interface.
OUnsubscribe ==
  /\ osubs > 0
  /\ panicked' = TRUE
  /\ UNCHANGED <<osubs, result>>

=============================================================================
