-------------------------------- MODULE Z3Sfc --------------------------------
(***************************************************************************)
(* Z3Sfc of pkg/sfc/zorder/z3/z3sfc.go: NewZ3SfcWithPrecision builds       *)
(* normalisers for longitude, latitude and the seconds of a week; Index    *)
(* checks a point and an instant against them, normalises them and         *)
(* interleaves the three bins with Z3.Apply; Invert takes them back with   *)
(* UnApply, denormalises them and rounds the time to a whole second.       *)
(*                                                                         *)
(* The curve is ZCurve's with three axes of Z3Bits bits (21 in the code)  *)
(* in a word with one spare bit, as Z3's 63 bits of 64; the week has       *)
(* Z3WeekSeconds seconds (604800).  Coordinates are fixed-point numbers    *)
(* over a denominator, the instant a whole number of seconds (a uint64).  *)
(***************************************************************************)
EXTENDS Normalizer

CONSTANTS
  Z3Bits,         \* bits per axis, NormalizerMaxPrecision = 21
  Z3WeekSeconds   \* the time normaliser's max, 604800

Z3 == INSTANCE ZCurve WITH Dimensions <- 3, BitsPerDimension <- Z3Bits,
                           WordBits <- 3 * Z3Bits + 1, CombineBits <- Z3Bits

\* NewZ3SfcWithPrecision's checks of the three precisions against
\* NormalizerMinPrecision and NormalizerMaxPrecision, then the normalisers'.
NewZ3SfcOk(lonPrecision, latPrecision, timePrecision) ==
  /\ \A p \in {lonPrecision, latPrecision, timePrecision} : p \in 1 .. 21 /\ NormalizerOk(p)

Z3LonNormalizer(p)  == NewNormalizer(-180, 180, p)
Z3LatNormalizer(p)  == NewNormalizer(-90, 90, p)
Z3TimeNormalizer(p) == NewNormalizer(0, Z3WeekSeconds, p)

\* Index's three range checks: x and y over den, t in seconds.
Z3InDomain(x, y, t, den) ==
  /\ -180 * den <= x /\ x <= 180 * den
  /\ -90 * den <= y /\ y <= 90 * den
  /\ 0 <= t /\ t <= Z3WeekSeconds

\* Index(x, y, t) of NewZ3Sfc(p), after its checks.
Z3SfcIndex(p, x, y, t, den) ==
  LET n == <<Normalize(Z3LonNormalizer(p), x, den),
             Normalize(Z3LatNormalizer(p), y, den),
             Normalize(Z3TimeNormalizer(p), t, 1)>>
  IN  Z3!Apply([d \in Z3!Dims |-> n[d + 1]])

\* uint64(math.Round(v / d)) for v >= 0 and d > 0: half away from zero.
RoundToSecond(v, d) == (2 * v + d) \div (2 * d)

\* Mutant: Invert reading latitude and time from each other's axis.
Z3SfcInvertSwapped(p, z) ==
  <<DeNormalize(Z3LonNormalizer(p), Z3!DimOf(0, z)),
    DeNormalize(Z3LatNormalizer(p), Z3!DimOf(2, z)),
    RoundToSecond(DeNormalize(Z3TimeNormalizer(p), Z3!DimOf(1, z)),
                  CentreDen(Z3TimeNormalizer(p)))>>

\* Invert(z): UnApply, each axis denormalised (longitude and latitude over
\* CentreDen), the time rounded to a second.
Z3SfcInvert(p, z) ==
  <<DeNormalize(Z3LonNormalizer(p), Z3!DimOf(0, z)),
    DeNormalize(Z3LatNormalizer(p), Z3!DimOf(1, z)),
    RoundToSecond(DeNormalize(Z3TimeNormalizer(p), Z3!DimOf(2, z)),
                  CentreDen(Z3TimeNormalizer(p)))>>

-----------------------------------------------------------------------------
(* The reference: spec section 8's round trip.                             *)

\* Invert undoes Index at every precision the curve holds, for every point
\* at each quarter of a longitude and latitude bin (the bounds included)
\* and every second of the week: longitude and latitude come back to the
\* centre of the bin they lie in, and the instant to within one time bin
\* (Z3WeekSeconds / 2^p seconds), also where a bin is shorter than the
\* second Invert rounds to.  Apply and UnApply must agree on three axes,
\* and Invert must read each axis where Index wrote it.
Z3SfcRoundTripHolds ==
  \A p \in { q \in 1 .. Z3Bits : NewZ3SfcOk(q, q, q) } :
    LET lon  == Z3LonNormalizer(p)
        lat  == Z3LatNormalizer(p)
        time == Z3TimeNormalizer(p)
    IN  \A x \in QuarterPoints(lon), y \in QuarterPoints(lat), t \in 0 .. Z3WeekSeconds :
          LET c == Z3SfcInvert(p, Z3SfcIndex(p, x, y, t, 4 * lon.bins))
          IN  /\ Z3InDomain(x, y, t, 4 * lon.bins)
              /\ InBin(lon, c[1], x)
              /\ InBin(lat, c[2], y)
              /\ (c[3] - t) * time.bins \in -Z3WeekSeconds .. Z3WeekSeconds

=============================================================================
