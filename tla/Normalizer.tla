------------------------------ MODULE Normalizer ------------------------------
(***************************************************************************)
(* BitNormalizedDimension of pkg/sfc/zorder/normalizer/normalizer.go as    *)
(* pure operators.  It cuts [min, max] into 2^precision bins of equal      *)
(* width: Normalize gives the bin of a value, DeNormalize the centre of a  *)
(* bin.                                                                    *)
(*                                                                         *)
(* The code works on float64.  Every value here is a fixed-point number,   *)
(* an integer v standing for v / den for a denominator the caller picks;   *)
(* the bounds are integers, as every caller's are (-180, 180, -90, 90, 0,  *)
(* 604800).  The arithmetic is exact: the rounding of (value - min) *      *)
(* normalizer in float64 at a bin's edge is not modelled.                  *)
(***************************************************************************)
EXTENDS Integers

\* NewNormalizer's precision check.
NormalizerOk(precision) == precision \in 1 .. 31

\* NewNormalizer: bins = 1 << precision and maxIndex = bins - 1.  The two
\* ratios normalizer = bins / (max - min) and deNormalizer = its inverse are
\* applied in Normalize and DeNormalize.
NewNormalizer(min, max, precision) ==
  [min |-> min, max |-> max, bins |-> 2 ^ precision, maxIndex |-> 2 ^ precision - 1]

\* Mutant: Normalize without the test of max, so max falls one past the
\* last bin.
NormalizeNoClamp(b, v, den) == ((v - b.min * den) * b.bins) \div ((b.max - b.min) * den)

\* Normalize(v / den): max and above go to the last bin, the rest to
\* floor((value - min) * normalizer).  Every caller has checked value >= min.
Normalize(b, v, den) ==
  IF v >= b.max * den
  THEN b.maxIndex
  ELSE ((v - b.min * den) * b.bins) \div ((b.max - b.min) * den)

\* The denominator of DeNormalize's results: half a bin's width is
\* (max - min) / (2 * bins).
CentreDen(b) == 2 * b.bins

\* DeNormalize(n): min + (n + 0.5) * deNormalizer, with n at or above
\* maxIndex taken as maxIndex; the result over CentreDen(b).
DeNormalize(b, n) ==
  LET k == IF n >= b.maxIndex THEN b.maxIndex ELSE n
  IN  CentreDen(b) * b.min + (2 * k + 1) * (b.max - b.min)

-----------------------------------------------------------------------------
(* The reference for the curves' round trips.                              *)

\* The points of [min, max] at every quarter of a bin, over 4 * bins.
QuarterPoints(b) == { 4 * b.bins * b.min + k * (b.max - b.min) : k \in 0 .. 4 * b.bins }

\* The point v (over 4 * bins) lies in the bin whose centre is c (over
\* CentreDen): from the bin's lower edge up to its upper edge, which
\* belongs to the next bin unless it is max, the last bin's upper edge.
InBin(b, c, v) ==
  LET half == 2 * (b.max - b.min)
  IN  /\ 2 * c - half <= v
      /\ \/ v < 2 * c + half
         \/ v = 2 * c + half /\ v = 4 * b.bins * b.max

=============================================================================
