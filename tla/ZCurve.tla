------------------------------- MODULE ZCurve -------------------------------
(***************************************************************************)
(* The Z-order curve codec of pkg/sfc/zorder/z2/z2.go and z3/z3.go and the *)
(* ZRange value type of pkg/sfc/zorder/zrange.go, as pure operators.       *)
(*                                                                         *)
(* The word is WordBits wide (64 in the code), each of the Dimensions      *)
(* axes has BitsPerDimension bits (Z2: 2 x 31, Z3: 3 x 21), so the curve   *)
(* uses TotalBits of the word.  The magic-number bit spreading of split    *)
(* and combine is modelled by what it computes: bit k of axis d goes to    *)
(* bit k*Dimensions + d of the Z-value.  combine reads CombineBits bits    *)
(* per axis: Z2 masks with 0x5555555555555555 and keeps 32 bits, Z3 masks  *)
(* with 0x1249249249249249 and MaxMask, i.e. 21 bits.                      *)
(***************************************************************************)
EXTENDS Integers, FiniteSets, Bitwise

CONSTANTS
  Dimensions,        \* 2 for Z2, 3 for Z3
  BitsPerDimension,  \* 31 for Z2, 21 for Z3
  WordBits,          \* width of the uint64 word
  CombineBits        \* bits per axis that combine extracts

ASSUME /\ Dimensions \in {2, 3}
       /\ BitsPerDimension \in Nat \ {0}
       /\ WordBits > Dimensions * BitsPerDimension
       /\ CombineBits \in BitsPerDimension .. WordBits \div Dimensions

TotalBits == Dimensions * BitsPerDimension
Quadrants == 2 ^ Dimensions
Dims      == 0 .. Dimensions - 1
MaxMask   == 2 ^ BitsPerDimension - 1
WordMax   == 2 ^ WordBits - 1
\* math.MaxInt64 of the code: every bit of the word but the top one.
MaxIntWord == 2 ^ (WordBits - 1) - 1

(* Go shifts of a uint64: a count at or past the width (as a negative int *)
(* converted to uint is) gives 0; a left shift drops the bits it pushes out. *)
ShiftLeft(x, s)  == IF s < 0 \/ s >= WordBits THEN 0 ELSE (x * 2 ^ s) % 2 ^ WordBits
ShiftRight(x, s) == IF s < 0 \/ s >= WordBits THEN 0 ELSE x \div 2 ^ s

Bit(x, k) == (x \div 2 ^ k) % 2

(* utils.Max, utils.Min, utils.MaxUint, utils.MinUint. *)
MaxOf(x, y) == IF x > y THEN x ELSE y
MinOf(x, y) == IF x < y THEN x ELSE y

(* The bits of x below 2^n, each moved from position k to position       *)
(* k*step + lead: the spreading of split and, read backwards, combine.     *)
(* A recursion over k rather than a fold over a set of positions, which   *)
(* TLC evaluates through all subsets of the set.                          *)
RECURSIVE Spread(_, _, _)
Spread(x, n, step) ==
  IF n = 0 THEN 0 ELSE Spread(x, n - 1, step) + Bit(x, n - 1) * 2 ^ ((n - 1) * step)

RECURSIVE Gather(_, _, _)
Gather(z, n, step) ==
  IF n = 0 THEN 0 ELSE Gather(z, n - 1, step) + Bit(z, (n - 1) * step) * 2 ^ (n - 1)

(* split: keep the axis' low BitsPerDimension bits and spread them       *)
(* Dimensions positions apart.                                            *)
Split(value) == Spread(value % 2 ^ BitsPerDimension, BitsPerDimension, Dimensions)

(* combine: gather every Dimensions-th bit of z, starting at bit 0.       *)
Combine(z) == Gather(z, CombineBits, Dimensions)

(* Apply(x, y[, z]): interleave one bin per axis into a Z-value.          *)
Apply(bins) ==
  LET RECURSIVE OrAxes(_)
      OrAxes(n) == IF n = 0 THEN 0 ELSE OrAxes(n - 1) | ShiftLeft(Split(bins[n - 1]), n - 1)
  IN  OrAxes(Dimensions)

(* dim(i, z) and UnApply(z): the projection of z on axis i.               *)
DimOf(i, z) == Combine(ShiftRight(z, i))
UnApply(z)  == [d \in Dims |-> DimOf(d, z)]

(* ZN.Contains: every axis of value lies between the axes of the range's *)
(* two corners.                                                           *)
ZContains(r, value) ==
  \A i \in Dims : DimOf(i, r.min) <= DimOf(i, value) /\ DimOf(i, value) <= DimOf(i, r.max)

(* ZN.Overlaps: the two ranges' per-axis intervals intersect on every axis.*)
ZOverlaps(r1, r2) ==
  \A i \in Dims :
    MaxOf(DimOf(i, r1.min), DimOf(i, r2.min)) <= MinOf(DimOf(i, r1.max), DimOf(i, r2.max))

-----------------------------------------------------------------------------
(* zrange.go: the ZRange value type.                                       *)

ZRange(min, max) == [min |-> min, max |-> max]

(* NewZRange fails when the bounds are not ordered as integers.  The       *)
(* per-axis order of the two corners is not checked.                      *)
NewZRangeOk(min, max) == min <= max

ZRangeContains(r, bits) == bits >= r.min /\ bits <= r.max

=============================================================================
