---------------------------- MODULE MCZ3Search -----------------------------
(***************************************************************************)
(* GetZ3Ranges on a scaled Z3 curve: three axes of 2 bits in a 7-bit word  *)
(* (the code: 3 x 21 bits in 64, one spare top bit), a week of 8 seconds   *)
(* (so each time bin is two seconds) and dates in weeks 0 .. MaxWeek.      *)
(* Boxes are ordered on both axes.                                        *)
(***************************************************************************)
EXTENDS Z3Search

MCBoxes ==
  { c \in ((0 .. MaxMask) \X (0 .. MaxMask)) \X ((0 .. MaxMask) \X (0 .. MaxMask)) :
      c[1][1] <= c[2][1] /\ c[1][2] <= c[2][2] }

MCQueries == Z3Calls(MCBoxes)
=============================================================================
