-------------------------------- MODULE Z2Sfc --------------------------------
(***************************************************************************)
(* Z2Sfc of pkg/sfc/zorder/z2/z2sfc.go: NewZ2Sfc builds a normaliser for   *)
(* longitude over [-180, 180] and one for latitude over [-90, 90]; Index   *)
(* checks a point against them, normalises it and interleaves the two      *)
(* bins with Z2.Apply; Invert takes the bins back with UnApply and         *)
(* denormalises them.  The curve is ZCurve's with Dimensions = 2, and its  *)
(* BitsPerDimension stands for the 31 bits of precision NewZ2Sfc allows.   *)
(***************************************************************************)
EXTENDS ZCurve, Normalizer

\* NewZ2Sfc's check of precision against NormalizerMinPrecision and
\* NormalizerMaxPrecision, then the normalisers' own.
NewZ2SfcOk(precision) == precision \in 1 .. 31 /\ NormalizerOk(precision)

LonNormalizer(precision) == NewNormalizer(-180, 180, precision)
LatNormalizer(precision) == NewNormalizer(-90, 90, precision)

\* Index's domain check of one coordinate, over den: out of [min, max] it
\* returns an error.
InDomain(b, v, den) == b.min * den <= v /\ v <= b.max * den

\* Index(x, y), both over den, for a point that passed the domain checks.
Index(precision, x, y, den) ==
  Apply([d \in Dims |-> IF d = 0 THEN Normalize(LonNormalizer(precision), x, den)
                                 ELSE Normalize(LatNormalizer(precision), y, den)])

\* Invert(z): UnApply, then each axis denormalised; each coordinate is
\* over its normaliser's CentreDen.
Invert(precision, z) ==
  <<DeNormalize(LonNormalizer(precision), DimOf(0, z)),
    DeNormalize(LatNormalizer(precision), DimOf(1, z))>>

-----------------------------------------------------------------------------
(* The reference: where a point must come back (QuarterPoints and InBin    *)
(* are Normalizer's).                                                      *)

\* Invert undoes Index up to the bin, at every precision the curve holds:
\* every point of the domain, at each quarter of a bin and on both bounds,
\* is inverted to the centre of the bin it lies in (the bounds' clamp to
\* the last bin included), and the centre of every cell is indexed back to
\* that cell.  Normalize, DeNormalize, Apply and UnApply must agree on the
\* bins and on the bit order of the interleaving.
SfcRoundTripHolds ==
  \A p \in { q \in 1 .. BitsPerDimension : NewZ2SfcOk(q) } :
    LET lon == LonNormalizer(p)
        lat == LatNormalizer(p)
    IN  /\ \A x \in QuarterPoints(lon), y \in QuarterPoints(lat) :
             /\ InDomain(lon, x, 4 * lon.bins)
             /\ InDomain(lat, y, 4 * lat.bins)
             /\ LET c == Invert(p, Index(p, x, y, 4 * lon.bins))
                IN  InBin(lon, c[1], x) /\ InBin(lat, c[2], y)
        /\ \A i, j \in 0 .. lon.maxIndex :
             LET z == Apply([d \in Dims |-> IF d = 0 THEN i ELSE j])
                 c == Invert(p, z)
             IN  Index(p, c[1], c[2], CentreDen(lon)) = z

=============================================================================
