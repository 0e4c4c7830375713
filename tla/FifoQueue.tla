----------------------------- MODULE FifoQueue ------------------------------
(***************************************************************************)
(* What the work queue of the range search promises (spec section 4.7): a  *)
(* strict FIFO.  Add appends; Remove returns the oldest element and TRUE,  *)
(* or 0 and FALSE when the queue is empty.  removed is the result of the   *)
(* last Remove.                                                            *)
(***************************************************************************)
EXTENDS Sequences

CONSTANT Values

VARIABLES queue, removed

Init == queue = <<>> /\ removed = <<0, FALSE>>

Add(v) == queue' = Append(queue, v) /\ UNCHANGED removed

Remove ==
  IF queue = <<>>
  THEN removed' = <<0, FALSE>> /\ UNCHANGED queue
  ELSE removed' = <<Head(queue), TRUE>> /\ queue' = Tail(queue)

Next == (\E v \in Values : Add(v)) \/ Remove

Spec == Init /\ [][Next]_<<queue, removed>>
=============================================================================
