----------------------------- MODULE RingQueue ------------------------------
(***************************************************************************)
(* Ringqueue of pkg/sfc/utils/ringqueue.go: a circular buffer nodes with   *)
(* head, tail and cnt, that doubles when an Add finds it full and halves   *)
(* when a Remove leaves it at most half full (above a floor).  Elements   *)
(* are model values; Go's nil slot is Nil.  A Remove does not clear the   *)
(* slot it reads.  resize slices the old and new buffers as the code does:*)
(* a slice bound past the new buffer's length is a run-time panic.        *)
(***************************************************************************)
EXTENDS Naturals, Sequences

CONSTANTS
  Values,     \* the elements added
  Nil,        \* the zero interface value of a fresh slot
  MaxCount    \* bound on the number of queued elements

VARIABLES nodes, head, tail, cnt, removed, panicked

vars == <<nodes, head, tail, cnt, removed, panicked>>

Cap == Len(nodes)
Slot(i) == nodes[i + 1]       \* nodes[i] of the code: slices are 0-based

(* resize(n) with the queue's head at h, tail at t and count c: the live *)
(* elements move to the front of a fresh buffer of length n.  Unwrapped   *)
(* (h < t): copy(nodes, q.nodes[head:tail]).  Otherwise (which includes   *)
(* full): copy(nodes, q.nodes[head:]) then copy(nodes[len(q.nodes)-head:], *)
(* q.nodes[:tail]), each copy stopping at the shorter slice.  The slice   *)
(* nodes[len(q.nodes)-head:] of the new buffer panics when len - head > n, *)
(* and q.cnt % n when n = 0: the queue is then left as it was.             *)
(* Mutant: the wrapped branch copies only q.nodes[head:].                 *)
ResizeFrontOnly(h, t, c, n) ==
  [nodes  |-> [i \in 1 .. n |->
                 IF h < t THEN IF i - 1 < t - h THEN Slot(h + i - 1) ELSE Nil
                 ELSE IF i - 1 < Cap - h THEN Slot(h + i - 1) ELSE Nil],
   head   |-> 0,
   tail   |-> c % n,
   panics |-> FALSE]

(* Mutant: the new tail is q.cnt, not q.cnt % n.                          *)
ResizeNoModulo(h, t, c, n) ==
  [nodes  |-> [i \in 1 .. n |->
                 IF h < t THEN IF i - 1 < t - h THEN Slot(h + i - 1) ELSE Nil
                 ELSE IF i - 1 < Cap - h THEN Slot(h + i - 1)
                      ELSE IF i - 1 - (Cap - h) < t THEN Slot(i - 1 - (Cap - h)) ELSE Nil],
   head   |-> 0,
   tail   |-> c,
   panics |-> FALSE]

Resize(h, t, c, n) ==
  LET front  == Cap - h
      panics == n = 0 \/ (h >= t /\ front > n)
  IN  IF panics
      THEN [nodes |-> nodes, head |-> h, tail |-> t, panics |-> TRUE]
      ELSE [nodes  |-> [i \in 1 .. n |->
                          IF h < t
                          THEN IF i - 1 < t - h THEN Slot(h + i - 1) ELSE Nil
                          ELSE IF i - 1 < front THEN Slot(h + i - 1)
                               ELSE IF i - 1 - front < t THEN Slot(i - 1 - front)
                               ELSE Nil],
            head   |-> 0,
            tail   |-> c % n,
            panics |-> FALSE]

Init ==
  /\ nodes = <<Nil, Nil>>
  /\ head = 0 /\ tail = 0 /\ cnt = 0
  /\ removed = <<0, FALSE>>
  /\ panicked = FALSE

(* Add: when full, resize(cnt * 2); store at tail; advance tail.        *)
Add(v) ==
  /\ ~panicked
  /\ cnt < MaxCount
  /\ LET q == IF cnt = Cap THEN Resize(head, tail, cnt, cnt * 2)
              ELSE [nodes |-> nodes, head |-> head, tail |-> tail, panics |-> FALSE]
     IN  /\ nodes' = [q.nodes EXCEPT ![q.tail + 1] = v]
         /\ tail' = (q.tail + 1) % Len(q.nodes)
         /\ head' = q.head
         /\ panicked' = q.panics
  /\ cnt' = cnt + 1
  /\ UNCHANGED removed

(* Remove on an empty queue returns (0, false).                            *)
RemoveEmpty ==
  /\ ~panicked
  /\ cnt = 0
  /\ removed' = <<0, FALSE>>
  /\ UNCHANGED <<nodes, head, tail, cnt, panicked>>

(* Mutants: the shrink test is off by one (q.cnt <= n + 1); the floor     *)
(* n > 2 is left out.                                                      *)
ShrinkLate(c) == Cap \div 2 > 2 /\ c <= Cap \div 2 + 1
ShrinkNoFloor(c) == c <= Cap \div 2

(* Remove shrinks to n = len/2 when n > 2 and the count c is at most n.    *)
ShouldShrink(c) == Cap \div 2 > 2 /\ c <= Cap \div 2

(* Remove: read the head slot, advance head, decrement the count, then    *)
(* resize(len/2) if ShouldShrink.                                          *)
Remove ==
  /\ ~panicked
  /\ cnt > 0
  /\ removed' = <<Slot(head), TRUE>>
  /\ cnt' = cnt - 1
  /\ LET h1 == (head + 1) % Cap
         n  == Cap \div 2
     IN  IF ShouldShrink(cnt - 1)
         THEN LET q == Resize(h1, tail, cnt - 1, n)
              IN  /\ nodes' = q.nodes
                  /\ head' = q.head
                  /\ tail' = q.tail
                  /\ panicked' = q.panics
         ELSE /\ head' = h1
              /\ UNCHANGED <<nodes, tail, panicked>>

Next == (\E v \in Values : Add(v)) \/ RemoveEmpty \/ Remove

Spec == Init /\ [][Next]_vars

-----------------------------------------------------------------------------
TypeOK ==
  /\ nodes \in Seq(Values \cup {Nil})
  /\ head \in 0 .. Cap - 1 /\ tail \in 0 .. Cap - 1
  /\ cnt \in 0 .. MaxCount
  /\ removed \in (Values \cup {0}) \X BOOLEAN
  /\ panicked \in BOOLEAN

(* The queue the buffer stands for: cnt slots from head, wrapping.         *)
Contents == [i \in 1 .. cnt |-> Slot((head + i - 1) % Cap)]

(* The ring buffer implements the FIFO of spec section 4.7: under the      *)
(* mapping above every Add, Remove and resize is a step of FifoQueue, so   *)
(* no element is lost, duplicated or reordered across wrap-around and the *)
(* copies of resize.                                                       *)
Fifo == INSTANCE FifoQueue WITH queue <- Contents
FifoRefinement == Fifo!Spec

(* resize never slices past the new buffer (a Go run-time panic).         *)
NoResizePanic == ~panicked

(* The buffer stays proportional to its contents: tail is where head plus *)
(* the count lands, and above the floor of 4 slots more than half of the  *)
(* slots are live, so a long run of Adds and Removes cannot leave a large *)
(* mostly empty buffer behind.                                             *)
Occupancy ==
  /\ tail = (head + cnt) % Cap
  /\ cnt <= Cap
  /\ Cap > 4 => 2 * cnt > Cap
=============================================================================
