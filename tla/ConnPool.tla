------------------------------- MODULE ConnPool -------------------------------
(***************************************************************************)
(* What a connection pool of pkg/grpc/connection/pool promises, as its     *)
(* contract in api.go and the comments of put and Close state it: Get      *)
(* hands out an idle connection or a new one from the factory; closing a   *)
(* wrapped connection releases it to the pool, or closes it when the pool  *)
(* is closed or full; Close stops the pool and closes the idle ones.       *)
(*                                                                         *)
(* Every connection is in exactly one place, and a closed one is never     *)
(* handed out again.  The detailed pool (GrpcPool) implements this.        *)
(***************************************************************************)

CONSTANTS
  Conns       \* the connections the factory may ever create

VARIABLES
  state,      \* state[i]: "fresh" (not dialled), "idle", "used", "closed"
  open        \* the pool has not been closed

vars == <<state, open>>

Init ==
  /\ state \in [Conns -> {"fresh", "idle"}]
  /\ open = TRUE

Move(i, from, to) ==
  /\ state[i] = from
  /\ state' = [state EXCEPT ![i] = to]

\* Get: an idle connection of the pool ...
Take(i) == Move(i, "idle", "used") /\ UNCHANGED open

\* ... or a new one from the factory.
Dial(i) == Move(i, "fresh", "used") /\ UNCHANGED open

\* Releasing a connection puts it back only into an open pool ...
Return(i) == open /\ Move(i, "used", "idle") /\ UNCHANGED open

\* ... and otherwise (the pool closed, or full) closes it.
Discard(i) == Move(i, "used", "closed") /\ UNCHANGED open

\* Close: the pool stops, then its idle connections are closed.
Shut == open /\ open' = FALSE /\ UNCHANGED state

Reap(i) == ~open /\ Move(i, "idle", "closed") /\ UNCHANGED open

Next ==
  \/ Shut
  \/ \E i \in Conns : Take(i) \/ Dial(i) \/ Return(i) \/ Discard(i) \/ Reap(i)

Spec == Init /\ [][Next]_vars

=============================================================================
