------------------------------ MODULE StanBroker ------------------------------
(***************************************************************************)
(* The NATS Streaming adapter of pkg/broker/stan: Connect, Disconnect,     *)
(* Publish, Subscribe and the subscriber's Unsubscribe, each one call of   *)
(* the application's goroutine.  n.conn, a stan.Conn, is "nil", "open" or  *)
(* "closed".  Connect first opens a NATS connection and hands it to        *)
(* stan.Connect through the NatsConn option; a connection given that way   *)
(* belongs to the caller, and stan's Close leaves it open.  The NATS       *)
(* connection under n.conn may drop and come back (the nats client         *)
(* reconnects on its own).                                                 *)
(***************************************************************************)
EXTENDS Naturals

CONSTANTS
  MaxFails,   \* bound on the connections the servers refuse
  MaxDrops    \* bound on the times the NATS connection drops

VARIABLES
  sconn,      \* n.conn
  natsUp,     \* n.conn.NatsConn().IsConnected()
  natsOpen,   \* NATS connections opened by Connect and never closed
  ssubs,      \* live subscriptions
  drops,      \* drops of the NATS connection so far
  result,     \* what the last call returned: "ok" or "err"
  fails,      \* connections refused so far
  panicked    \* a call panicked, which ends the program

svars == <<sconn, natsUp, natsOpen, ssubs, drops, result, fails, panicked>>

SInit ==
  /\ sconn = "nil"
  /\ natsUp = FALSE
  /\ natsOpen = 0
  /\ ssubs = 0
  /\ drops = 0
  /\ result = "ok"
  /\ fails = 0
  /\ panicked = FALSE

\* Connect: nothing when n.conn is set and its NATS connection is up, even
\* when n.conn was closed.  Otherwise opts.Connect(), then stan.Connect on
\* that connection; a refusal of the second leaves the first open and
\* unreferenced.  Success replaces n.conn without closing the old one.
SConnect ==
  /\ IF sconn # "nil" /\ natsUp
     THEN result' = "ok" /\ UNCHANGED <<sconn, natsUp, natsOpen, fails>>
     ELSE \/ /\ fails < MaxFails
             /\ fails' = fails + 1
             /\ result' = "err"
             /\ UNCHANGED <<sconn, natsUp, natsOpen>>
          \/ /\ fails < MaxFails
             /\ fails' = fails + 1
             /\ natsOpen' = natsOpen + 1
             /\ result' = "err"
             /\ UNCHANGED <<sconn, natsUp>>
          \/ /\ natsOpen' = natsOpen + 1
             /\ sconn' = "open"
             /\ natsUp' = TRUE
             /\ result' = "ok"
             /\ UNCHANGED fails
  /\ UNCHANGED <<ssubs, drops, panicked>>

\* Disconnect: n.conn.Close(), whose error is logged; the NATS connection
\* stays open.  A nil n.conn is a method call on a nil interface.
SDisconnect ==
  /\ IF sconn = "nil"
     THEN panicked' = TRUE /\ UNCHANGED <<sconn, ssubs>>
     ELSE sconn' = "closed" /\ ssubs' = 0 /\ UNCHANGED panicked
  /\ result' = "ok"
  /\ UNCHANGED <<natsUp, natsOpen, drops, fails>>

\* Publish and Subscribe call n.conn: a nil one panics, a closed one
\* returns ErrConnectionClosed, an open one fails while its NATS
\* connection is down.
SCall(ok) ==
  CASE sconn = "nil"    -> panicked' = TRUE /\ UNCHANGED <<result, ssubs>>
    [] sconn = "closed" \/ ~natsUp
                        -> result' = "err" /\ UNCHANGED <<panicked, ssubs>>
    [] OTHER            -> result' = "ok" /\ ok /\ UNCHANGED panicked

SPublish ==
  /\ SCall(UNCHANGED ssubs)
  /\ UNCHANGED <<sconn, natsUp, natsOpen, drops, fails>>

\* Subscribe, or QueueSubscribe when a queue group is configured.
SSubscribe ==
  /\ SCall(ssubs' = ssubs + 1)
  /\ UNCHANGED <<sconn, natsUp, natsOpen, drops, fails>>

\* subscriber.Unsubscribe on a live subscription.
SUnsubscribe ==
  /\ ssubs > 0
  /\ ssubs' = ssubs - 1
  /\ result' = "ok"
  /\ UNCHANGED <<sconn, natsUp, natsOpen, drops, fails, panicked>>

\* The environment: the NATS connection of n.conn drops, and the nats
\* client later restores it.
SNatsDrop ==
  /\ sconn # "nil" /\ natsUp
  /\ drops < MaxDrops
  /\ drops' = drops + 1
  /\ natsUp' = FALSE
  /\ UNCHANGED <<sconn, natsOpen, ssubs, result, fails, panicked>>

SNatsBack ==
  /\ sconn # "nil" /\ ~natsUp
  /\ natsUp' = TRUE
  /\ UNCHANGED <<sconn, natsOpen, ssubs, drops, result, fails, panicked>>

=============================================================================
