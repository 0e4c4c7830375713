---------------------------- MODULE MCZ2Ranges ----------------------------
(***************************************************************************)
(* GetZ2Ranges (pkg/sfc/zorder/z2/search.go) on a scaled Z2 curve: two    *)
(* axes of 3 bits in an 8-bit word (the code: 2 x 31 bits in 64), so the  *)
(* two spare top bits of the word are kept.  The query is one bound built  *)
(* from the south-west and north-east corners of a box, every box of the  *)
(* 8 x 8 grid.  CalculateRanges is called with precision the word width   *)
(* and maxRanges 0 as in the code; maxRecurse is scaled with the curve     *)
(* (the .cfg), so that the depth limit cuts the search short as 7 levels   *)
(* of 31 do in the code.                                                   *)
(***************************************************************************)
EXTENDS ZRanges, Z2Sfc, Z3Sfc, Nds

Corner(x, y) == Apply([d \in Dims |-> IF d = 0 THEN x ELSE y])

(* Every bound NewZRange accepts from two corners of the grid.            *)
AllBounds ==
  { <<ZRange(Corner(x1, y1), Corner(x2, y2))>> :
      x1 \in 0 .. MaxMask, y1 \in 0 .. MaxMask,
      x2 \in 0 .. MaxMask, y2 \in 0 .. MaxMask }

(* Boxes whose south-west corner is below the north-east one on both axes.*)
MCQueries == { q \in AllBounds : \A i \in Dims : DimOf(i, q[1].min) <= DimOf(i, q[1].max) }

-----------------------------------------------------------------------------
(* The codecs beside the search.  Their round trips are facts about        *)
(* constant operators (Z2Sfc's SfcRoundTripHolds, Z3Sfc's                  *)
(* Z3SfcRoundTripHolds, Nds's NdsTileRoundTripHolds); each is stated here  *)
(* of every state the search reaches, so that it is checked, and reported, *)
(* as an invariant.                                                        *)

\* Z2Sfc's Invert undoes Index up to the bin, for every precision and every
\* quarter-bin point, while any query is searched (see SfcRoundTripHolds).
SfcRoundTrip == pc \in {"start", "loop", "done", "panic"} => SfcRoundTripHolds

\* Z3Sfc's Invert undoes Index on all three axes, the time to within one
\* bin of the week, while any query is searched (see Z3SfcRoundTripHolds).
Z3SfcRoundTrip == pc \in {"start", "loop", "done", "panic"} => Z3SfcRoundTripHolds

\* NDS packed tile IDs encode and decode the NDS tiling at every level, the
\* wrap of 180 and 90 included (see NdsTileRoundTripHolds).
NdsTileRoundTrip == pc \in {"start", "loop", "done", "panic"} => NdsTileRoundTripHolds

=============================================================================
