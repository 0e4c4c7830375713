------------------------------ MODULE ZRanges ------------------------------
(***************************************************************************)
(* The range decomposition search of pkg/sfc/zorder/zrange/zranges.go,     *)
(* CalculateRanges, as a state machine: one action for the set-up of the   *)
(* search (longest common prefix and the starting cell), one for each      *)
(* branch of the body of the main loop, and one for the code after the     *)
(* loop (flush of the unresolved cells, sort and merge).                   *)
(*                                                                         *)
(* The work queue is a sequence; RingQueue.tla shows that the ring buffer *)
(* of pkg/sfc/utils/ringqueue.go behaves as one.                           *)
(***************************************************************************)
EXTENDS ZCurve, Sequences, TLC

CONSTANTS
  Precision,   \* precision argument: the callers pass 64, the word width
  MaxRanges,   \* maxRanges argument (0: unbounded)
  MaxRecurse,  \* maxRecurse argument (0: 20)
  Queries      \* the zbounds arguments: non-empty sequences of ZRanges

ASSUME /\ Precision \in 0 .. WordBits
       /\ MaxRanges \in Nat
       /\ MaxRecurse \in Nat
       /\ \A q \in Queries : Len(q) >= 1

VARIABLES
  zbounds,    \* the query bounds, fixed for the call
  ranges,     \* ranges: the IndexRanges emitted so far
  remaining,  \* the work queue of cells and level terminators
  offset,     \* bit offset of the current level (a uint: may wrap below 0)
  level,      \* level of recursion
  pc,         \* "start", "loop", then "done" or "panic"
  result      \* the merged list returned

vars == <<zbounds, ranges, remaining, offset, level, pc, result>>

StopItem == [min |-> 0, max |-> 0, stop |-> TRUE]

EffMaxRanges  == IF MaxRanges = 0 THEN 2147483647 ELSE MaxRanges
EffMaxRecurse == IF MaxRecurse = 0 THEN 20 ELSE MaxRecurse

-----------------------------------------------------------------------------
(* LongestCommonPrefix(totalBits, dimensions, values).  The inner loop     *)
(* assigns continueSearch for every value after the first, so it is the   *)
(* comparison of the LAST value with the head that decides whether the    *)
(* scan continues.                                                         *)
LongestCommonPrefix(totalBits, dimensions, values) ==
  LET head(bs) == ShiftRight(values[1], bs)
      continueSearch(bs) ==
        LET RECURSIVE Each(_, _)
            Each(acc, i) == IF i > Len(values) THEN acc
                            ELSE Each(ShiftRight(values[i], bs) = head(bs) /\ bs > -1, i + 1)
        IN  Each(TRUE, 2)
      RECURSIVE Scan(_)
      Scan(bs) == IF bs > -1 /\ continueSearch(bs) THEN Scan(bs - dimensions) ELSE bs
      bitShift == Scan(totalBits - dimensions) + dimensions
  IN  [prefix    |-> values[1] & ShiftLeft(MaxIntWord, bitShift),
       precision |-> WordBits - bitShift]

(* zBoundsValues: min and max of every bound, in order.                    *)
BoundsValues(zb) ==
  [i \in 1 .. 2 * Len(zb) |-> IF i % 2 = 1 THEN zb[(i + 1) \div 2].min ELSE zb[i \div 2].max]

(* Mutant: only the cell's lower corner is tested.                        *)
IsContainedMinOnly(zb, r) == \E i \in 1 .. Len(zb) : ZContains(zb[i], r.min)

IsContained(zb, r) ==
  \E i \in 1 .. Len(zb) : ZContains(zb[i], r.min) /\ ZContains(zb[i], r.max)

IsOverlapped(zb, r) == \E i \in 1 .. Len(zb) : ZOverlaps(zb[i], r)

(* Mutant: a cell that is not contained is dropped instead of queued.     *)
CheckValueNoOverlap(zb, prefix, quadrant, off) ==
  LET min == prefix | ShiftLeft(quadrant, off)
      max == min | ((ShiftLeft(1, off) - 1) % 2 ^ WordBits)
  IN  IF IsContained(zb, ZRange(min, max)) \/ (off >= 0 /\ off < WordBits - Precision)
      THEN [kind |-> "emit", range |-> [lower |-> min, upper |-> max, contained |-> TRUE]]
      ELSE [kind |-> "none"]

(* CheckValue: the cell prefix|quadrant<<offset either is emitted as a     *)
(* contained range, or is queued, or is dropped.  offset < uint(64 -       *)
(* precision) is false for a wrapped (negative) offset.                    *)
CheckValue(zb, prefix, quadrant, off) ==
  LET min == prefix | ShiftLeft(quadrant, off)
      max == min | ((ShiftLeft(1, off) - 1) % 2 ^ WordBits)
      qr  == ZRange(min, max)
  IN  IF IsContained(zb, qr) \/ (off >= 0 /\ off < WordBits - Precision)
      THEN [kind |-> "emit", range |-> [lower |-> min, upper |-> max, contained |-> TRUE]]
      ELSE IF IsOverlapped(zb, qr)
           THEN [kind |-> "queue", item |-> [min |-> min, max |-> max, stop |-> FALSE]]
           ELSE [kind |-> "none"]

EmittedOf(cs) == LET e == SelectSeq(cs, LAMBDA c : c.kind = "emit")
                 IN  [i \in 1 .. Len(e) |-> e[i].range]
QueuedOf(cs)  == LET e == SelectSeq(cs, LAMBDA c : c.kind = "queue")
                 IN  [i \in 1 .. Len(e) |-> e[i].item]

(* Mutant: the quadrant loop stops one short (quadrant < quadrants - 1).  *)
ChildrenSkipLast(prefix, off) ==
  [q \in 1 .. Quadrants - 1 |-> CheckValue(zbounds, prefix, q - 1, off)]

(* The quadrant loop of one pending cell, quadrants in increasing order.   *)
Children(prefix, off) ==
  [q \in 1 .. Quadrants |-> CheckValue(zbounds, prefix, q - 1, off)]

(* Bottom out: the cells still queued become non-contained ranges.         *)
Unresolved(queue) ==
  LET cells == SelectSeq(queue, LAMBDA w : ~w.stop)
  IN  [i \in 1 .. Len(cells) |-> [lower |-> cells[i].min, upper |-> cells[i].max,
                                  contained |-> FALSE]]

RangeLess(a, b) == IF a.lower = b.lower THEN a.upper < b.upper ELSE a.lower < b.lower

(* sort.SliceStable(ranges, ...) by RangeLess: an insertion sort (equal   *)
(* ranges are identical, so stability is immaterial).                     *)
RECURSIVE InsertSorted(_, _)
InsertSorted(r, s) ==
  IF s = <<>> \/ ~RangeLess(Head(s), r) THEN <<r>> \o s
  ELSE <<Head(s)>> \o InsertSorted(r, Tail(s))

RECURSIVE SortRanges(_)
SortRanges(s) == IF s = <<>> THEN <<>> ELSE InsertSorted(Head(s), SortRanges(Tail(s)))

(* Mutant: only overlapping ranges are merged, adjacent ones are not      *)
(* (next.lower <= current.upper).                                         *)
MergeSortedNoAdjacent(sorted) ==
  LET step(acc, r) ==
        IF r.lower <= acc.cur.upper
        THEN [acc EXCEPT !.cur = [lower     |-> acc.cur.lower,
                                  upper     |-> MaxOf(acc.cur.upper, r.upper),
                                  contained |-> acc.cur.contained /\ r.contained]]
        ELSE [out |-> Append(acc.out, acc.cur), cur |-> r]
      RECURSIVE Loop(_, _)
      Loop(acc, i) == IF i > Len(sorted) THEN acc ELSE Loop(step(acc, sorted[i]), i + 1)
      final == Loop([out |-> <<>>, cur |-> sorted[1]], 2)
  IN  Append(final.out, final.cur)

(* The merge of the sorted ranges: next.lower <= current.upper + 1 (a      *)
(* uint64 sum) joins the two.                                              *)
MergeSorted(sorted) ==
  LET step(acc, r) ==
        IF r.lower <= (acc.cur.upper + 1) % 2 ^ WordBits
        THEN [acc EXCEPT !.cur = [lower     |-> acc.cur.lower,
                                  upper     |-> MaxOf(acc.cur.upper, r.upper),
                                  contained |-> acc.cur.contained /\ r.contained]]
        ELSE [out |-> Append(acc.out, acc.cur), cur |-> r]
      RECURSIVE Loop(_, _)
      Loop(acc, i) == IF i > Len(sorted) THEN acc ELSE Loop(step(acc, sorted[i]), i + 1)
      final == Loop([out |-> <<>>, cur |-> sorted[1]], 2)
  IN  Append(final.out, final.cur)

-----------------------------------------------------------------------------
Init ==
  /\ zbounds \in Queries
  /\ ranges = <<>>
  /\ remaining = <<>>
  /\ offset = 0
  /\ level = 0
  /\ pc = "start"
  /\ result = <<>>

(* Lines 21-57: the common prefix, the starting cell, the first level      *)
(* terminator.                                                              *)
Start ==
  /\ pc = "start"
  /\ LET lcp  == LongestCommonPrefix(TotalBits, Dimensions, BoundsValues(zbounds))
         off0 == WordBits - lcp.precision
         cv   == <<CheckValue(zbounds, lcp.prefix, 0, off0)>>
     IN  /\ ranges' = EmittedOf(cv)
         /\ remaining' = Append(QueuedOf(cv), StopItem)
         /\ offset' = off0 - Dimensions
  /\ level' = 0
  /\ pc' = "loop"
  /\ UNCHANGED <<zbounds, result>>

(* Mutant: the recursion depth is not tested.                              *)
LoopConditionNoDepth == remaining # <<>> /\ Len(ranges) < EffMaxRanges

(* The condition of the main loop; offset >= 0 always holds for a uint.    *)
LoopCondition ==
  /\ level < EffMaxRecurse
  /\ remaining # <<>>
  /\ Len(ranges) < EffMaxRanges

(* Mutants of the level step: the offset narrows by one bit too few; the  *)
(* level counter is not advanced.                                          *)
NextLevelOffByOne ==
  /\ pc = "loop"
  /\ LoopCondition
  /\ Head(remaining).stop
  /\ Tail(remaining) # <<>>
  /\ level' = level + 1
  /\ offset' = offset - (Dimensions - 1)
  /\ remaining' = Append(Tail(remaining), StopItem)
  /\ UNCHANGED <<zbounds, ranges, pc, result>>

NextLevelNoLevel ==
  /\ pc = "loop"
  /\ LoopCondition
  /\ Head(remaining).stop
  /\ Tail(remaining) # <<>>
  /\ offset' = offset - Dimensions
  /\ remaining' = Append(Tail(remaining), StopItem)
  /\ UNCHANGED <<zbounds, ranges, level, pc, result>>

(* A terminator with work left behind it: next level.                      *)
NextLevel ==
  /\ pc = "loop"
  /\ LoopCondition
  /\ Head(remaining).stop
  /\ Tail(remaining) # <<>>
  /\ level' = level + 1
  /\ offset' = offset - Dimensions
  /\ remaining' = Append(Tail(remaining), StopItem)
  /\ UNCHANGED <<zbounds, ranges, pc, result>>

(* A terminator with nothing behind it: the queue empties.                 *)
LastLevel ==
  /\ pc = "loop"
  /\ LoopCondition
  /\ Head(remaining).stop
  /\ Tail(remaining) = <<>>
  /\ remaining' = <<>>
  /\ UNCHANGED <<zbounds, ranges, offset, level, pc, result>>

(* A pending cell: check its 2^Dimensions quadrants at the current offset. *)
Refine ==
  /\ pc = "loop"
  /\ LoopCondition
  /\ ~Head(remaining).stop
  /\ LET cs == Children(Head(remaining).min, offset)
     IN  /\ ranges' = ranges \o EmittedOf(cs)
         /\ remaining' = Tail(remaining) \o QueuedOf(cs)
  /\ UNCHANGED <<zbounds, offset, level, pc, result>>

(* Lines 84-131 after the loop: flush, sort, merge.  currentRange :=       *)
(* ranges[0] indexes an empty slice when nothing was emitted or queued:    *)
(* the call panics.                                                        *)
Finish ==
  /\ pc = "loop"
  /\ ~LoopCondition
  /\ LET flushed == ranges \o Unresolved(remaining)
     IN  /\ ranges' = flushed
         /\ remaining' = <<>>
         /\ IF flushed = <<>>
            THEN /\ pc' = "panic"
                 /\ UNCHANGED result
            ELSE /\ pc' = "done"
                 /\ result' = MergeSorted(SortRanges(flushed))
  /\ UNCHANGED <<zbounds, offset, level>>

Next == Start \/ NextLevel \/ LastLevel \/ Refine \/ Finish

Spec == Init /\ [][Next]_vars

-----------------------------------------------------------------------------
(* The points of the box a bound stands for: per axis, between the axes of *)
(* its two corners.                                                         *)
Box(b) == {p \in [Dims -> 0 .. MaxMask] :
             \A i \in Dims : DimOf(i, b.min) <= p[i] /\ p[i] <= DimOf(i, b.max)}

Covered(z) == \E j \in 1 .. Len(result) : result[j].lower <= z /\ z <= result[j].upper

(* Exhaustiveness (spec section 8): every point of every query box has its *)
(* Z-value inside a range CalculateRanges returns.  Breaks if a level      *)
(* skips a quadrant, a cell is pruned that still overlaps, or the common   *)
(* prefix leaves part of a bound outside the starting cell.                *)
Exhaustive ==
  pc = "done" =>
    \A k \in 1 .. Len(zbounds) : \A p \in Box(zbounds[k]) : Covered(Apply(p))

(* Containment soundness: a range returned with contained = TRUE holds     *)
(* only Z-values that lie in some query box (the callers pass precision    *)
(* 64, so no cell is accepted for its size alone).                         *)
ContainedSound ==
  pc = "done" =>
    \A j \in 1 .. Len(result) :
      result[j].contained =>
        \A z \in result[j].lower .. result[j].upper : \E k \in 1 .. Len(zbounds) : ZContains(zbounds[k], z)

(* The returned list is sorted, and merged as far as it goes: two          *)
(* consecutive ranges are separated by at least one Z-value (spec: merge   *)
(* idempotence).                                                           *)
ResultMerged ==
  pc = "done" =>
    /\ \A j \in 1 .. Len(result) : result[j].lower <= result[j].upper
    /\ \A j \in 1 .. Len(result) - 1 : result[j].upper + 1 < result[j + 1].lower

(* The level bookkeeping of the queue: the cells ahead of the terminator   *)
(* were queued one level up and are 2^(offset+Dimensions) wide, those      *)
(* behind it 2^offset wide, all aligned; in particular no cell is ever     *)
(* queued at a wrapped (negative) uint offset.                             *)
LevelDiscipline ==
  pc = "loop" =>
    LET stops  == {j \in 1 .. Len(remaining) : remaining[j].stop}
        stopAt == IF stops = {} THEN Len(remaining) + 1
                  ELSE CHOOSE j \in stops : \A k \in stops : j <= k
    IN  \A j \in 1 .. Len(remaining) :
          ~remaining[j].stop =>
            LET w == IF j < stopAt THEN offset + Dimensions ELSE offset
            IN  /\ w >= 0
                /\ remaining[j].max - remaining[j].min + 1 = 2 ^ w
                /\ remaining[j].min % 2 ^ w = 0

(* The call returns a list: currentRange := ranges[0] never indexes an     *)
(* empty slice.                                                             *)
NoPanic == pc # "panic"

(* The work still ahead of the loop: a pending cell of width w can still  *)
(* be split into at most 2w - 1 cells (itself and its descendants).        *)
CellWork(q) ==
  LET RECURSIVE W(_)
      W(i) == IF i = 0 THEN 0
              ELSE W(i - 1) + IF q[i].stop THEN 0 ELSE 2 * (q[i].max - q[i].min + 1) - 1
  IN  W(Len(q))

PcRank == CASE pc = "start" -> 2 [] pc = "loop" -> 1 [] OTHER -> 0

Variant == <<PcRank, CellWork(remaining), EffMaxRecurse - level, Len(remaining)>>

LexLess(a, b) ==
  \E i \in 1 .. Len(a) : a[i] < b[i] /\ \A j \in 1 .. i - 1 : a[j] = b[j]

(* Termination (spec section 7: the recursion depth and the range budget   *)
(* bound the search): every step of CalculateRanges strictly decreases a   *)
(* well-founded variant (the phase, the work in the queue, the levels left,*)
(* the queue length), so no run of the main loop is infinite.  Breaks if a *)
(* level does not narrow its cells, or a terminator does not advance the   *)
(* level.                                                                  *)
Terminates == [][LexLess(Variant', Variant)]_vars

=============================================================================
