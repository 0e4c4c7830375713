------------------------------ MODULE Z3Search ------------------------------
(***************************************************************************)
(* GetZ3Ranges of pkg/sfc/zorder/z3/search.go: a query box and a time      *)
(* frame become one Z3 bound per week the frame touches (utils.go,         *)
(* GetWeekTimeRangeFromDateRange), and all the bounds go to one call of    *)
(* CalculateRanges.  Time on the Z3 curve is the second within the week,   *)
(* normalised over [0, WeekSeconds] (604800 in the code); the week number  *)
(* itself is not part of the Z-value.                                      *)
(*                                                                         *)
(* Dates are abstracted to (week, second of the week) pairs, which is what *)
(* GetWeekDate returns; the longitude and latitude normalisers are taken   *)
(* as already applied, so a box is given by its corner bins.              *)
(***************************************************************************)
EXTENDS ZRanges, Normalizer

CONSTANTS
  WeekSeconds,   \* seconds in a week: the time normaliser's max
  MaxWeek        \* the weeks dates range over: 0 .. MaxWeek

ASSUME WeekSeconds \in Nat \ {0} /\ MaxWeek \in Nat

(* Z3Sfc's time normaliser: NewNormalizer(0, WeekSeconds, precision) at   *)
(* the curve's precision, on a whole second.                               *)
NormalizeTime(t) == Normalize(NewNormalizer(0, WeekSeconds, BitsPerDimension), t, 1)

(* Z3Sfc.Index on normalised longitude and latitude bins and a time.       *)
Z3Index(nx, ny, t) == Apply([d \in Dims |-> CASE d = 0 -> nx [] d = 1 -> ny [] OTHER -> NormalizeTime(t)])

(* GetWeekTimeRangeFromDateRange: one range if both dates are in the same  *)
(* week; otherwise the first week from dateMin's second to the week's end, *)
(* every week in between whole, and the last week from its start to        *)
(* dateMax's second.  The caller has checked dateMin <= dateMax.           *)
WeekTimeRanges(wMin, sMin, wMax, sMax) ==
  LET n == wMax - wMin + 1
  IN  IF n = 1 THEN <<[lo |-> sMin, hi |-> sMax]>>
      ELSE [i \in 1 .. n |-> [lo |-> IF i = 1 THEN sMin ELSE 0,
                              hi |-> IF i = n THEN sMax ELSE WeekSeconds]]

DateOrdered(wMin, sMin, wMax, sMax) == wMin < wMax \/ (wMin = wMax /\ sMin <= sMax)

(* The loop of GetZ3Ranges: a bound per week range, from the south-west    *)
(* corner at the range's first second to the north-east corner at its last.*)
Z3Bounds(sw, ne, wtr) ==
  [i \in 1 .. Len(wtr) |-> ZRange(Z3Index(sw[1], sw[2], wtr[i].lo), Z3Index(ne[1], ne[2], wtr[i].hi))]

(* The calls of GetZ3Ranges for the given corner pairs that reach          *)
(* CalculateRanges: ordered dates (GetWeekTimeRangeFromDateRange fails     *)
(* otherwise) and every bound accepted by NewZRange (otherwise the loop    *)
(* returns its error first).                                               *)
Z3Calls(Corners) ==
  LET Secs == 0 .. WeekSeconds - 1
      Frames == { f \in (0 .. MaxWeek) \X Secs \X (0 .. MaxWeek) \X Secs :
                    DateOrdered(f[1], f[2], f[3], f[4]) }
      All == { Z3Bounds(c[1], c[2], WeekTimeRanges(f[1], f[2], f[3], f[4])) :
                 c \in Corners, f \in Frames }
  IN  { q \in All : \A i \in 1 .. Len(q) : NewZRangeOk(q[i].min, q[i].max) }
=============================================================================
