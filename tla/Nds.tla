--------------------------------- MODULE Nds ---------------------------------
(***************************************************************************)
(* The NDS packed tile ID of pkg/nds/nds.go as pure operators.             *)
(*                                                                         *)
(* CalculatePackedTileID turns a WGS84 point into NDS coordinates (a      *)
(* LonBits-bit longitude and a LonBits - 1 bit latitude, two's            *)
(* complement), interleaves them into a Morton code, keeps its top         *)
(* 2 * level + 1 bits as the tile number and marks the level by a bit at   *)
(* MaxLevel + 1 + level.  ReadPackedTileID reads the level back from the   *)
(* leading zeros, shifts the tile number back into a Morton code and       *)
(* denormalises its two halves.                                            *)
(*                                                                         *)
(* The code has LonBits = 32 in a 64-bit word and MaxLevel = 15; the       *)
(* literal 32 of ReadPackedTileID is LonBits and the word is 2 * LonBits  *)
(* wide.  The level bit and the leading-zero count agree only when         *)
(* LonBits = 2 * MaxLevel + 2, which the model keeps.  A coordinate is a   *)
(* fixed-point number num / den of degrees.  The magic-number masks of    *)
(* split and combine are modelled by what they compute.                  *)
(***************************************************************************)
EXTENDS Integers

CONSTANTS
  NdsLonBits,   \* precision of the longitude, 32 in the code
  NdsMaxLevel   \* the highest level CalculatePackedTileID accepts, 15

ASSUME NdsLonBits = 2 * NdsMaxLevel + 2

NdsLatBits == NdsLonBits - 1
NdsWord    == 2 * NdsLonBits
NdsLevels  == 0 .. NdsMaxLevel

\* Bit k of x, and the bits of x below 2^n moved from position k to 2 * k
\* + 0 (split's spreading) or back (combine's gathering).
NdsBit(x, k) == (x \div 2 ^ k) % 2
NdsSpread(x, n) ==
  LET s[k \in 0 .. n] == IF k = 0 THEN 0 ELSE s[k - 1] + NdsBit(x, k - 1) * 2 ^ (2 * (k - 1))
  IN  s[n]
NdsGather(z, n) ==
  LET g[k \in 0 .. n] == IF k = 0 THEN 0 ELSE g[k - 1] + NdsBit(z, 2 * (k - 1)) * 2 ^ (k - 1)
  IN  g[n]

\* math.Trunc of a / b, b > 0: towards zero.
NdsTrunc(a, b) == IF a >= 0 THEN a \div b ELSE -((-a) \div b)

\* CalculatePackedTileID's range checks.
NdsInRange(lonNum, latNum, den, lvl) ==
  /\ -180 * den <= lonNum /\ lonNum <= 180 * den
  /\ -90 * den <= latNum /\ latNum <= 90 * den
  /\ lvl \in NdsLevels

\* normalize: int(Trunc(value * bins / (max - min))); min only enters
\* through the width.
NdsNormalize(num, den, min, max, precision) ==
  NdsTrunc(num * 2 ^ precision, den * (max - min))

\* nds2Morton: x keeps its low 32 bits (split's first mask), y its low 31
\* (bit 31 removed); x on the even bits, y on the odd ones.
NdsToMorton(x, y) ==
  NdsSpread(x % 2 ^ NdsLonBits, NdsLonBits) + 2 * NdsSpread(y % 2 ^ NdsLatBits, NdsLatBits)

\* wgs2morton.
WgsToMorton(lonNum, latNum, den) ==
  NdsToMorton(NdsNormalize(lonNum, den, -180, 180, NdsLonBits),
              NdsNormalize(latNum, den, -90, 90, NdsLatBits))

\* Mutant: the shift without the trailing - 1, one bit too far.
NdsShiftOneShort(lvl) == NdsWord - (2 * lvl + 1)

\* The shift of calculateTileID and morton2wgs: 64 - (2 * level + 1) - 1.
NdsShift(lvl) == NdsWord - (2 * lvl + 1) - 1

\* calculateTileID: the top 2 * level + 1 bits of the Morton code.
CalculateTileID(morton, lvl) == morton \div 2 ^ NdsShift(lvl)

\* CalculatePackedTileID, after its range checks.
CalculatePackedTileID(lonNum, latNum, den, lvl) ==
  2 ^ (NdsMaxLevel + 1 + lvl) + CalculateTileID(WgsToMorton(lonNum, latNum, den), lvl)

\* bits.LeadingZeros64 of a positive value of the word.
NdsLeadingZeros(p) == NdsWord - 1 - (CHOOSE k \in 0 .. NdsWord - 1 : p \div 2 ^ k = 1)

\* combine: gather the even bits into a 32-bit value.
NdsCombine(z) == NdsGather(z, NdsLonBits)

\* denormalize(value, min, max, precision), over 2 ^ precision: value *
\* (max - min), moved back into range when it is above max or below min.
NdsDenormalize(value, min, max, precision) ==
  LET d   == value * (max - min)
      den == 2 ^ precision
  IN  CASE d > max * den -> d - (max - min) * den
        [] d < min * den -> d + (max - min) * den
        [] OTHER         -> d

\* morton2wgs with morton2nds: the tile number shifted back into a Morton
\* code, its even and odd bits as the NDS coordinates, and the two degrees,
\* over 2 ^ NdsLonBits and 2 ^ NdsLatBits.
MortonToWgs(morton, lvl) ==
  LET real == morton * 2 ^ NdsShift(lvl)
      x    == NdsCombine(real)
      y    == NdsCombine(real \div 2)
  IN  [x |-> x, y |-> y,
       lon |-> NdsDenormalize(x, -180, 180, NdsLonBits),
       lat |-> NdsDenormalize(y, -90, 90, NdsLatBits)]

\* ReadPackedTileID: the level from the leading zeros, then the tile number
\* below the level bit, decoded.
ReadPackedTileID(packed) ==
  LET lvl == NdsMaxLevel - (NdsLeadingZeros(packed) - NdsLonBits)
      w   == MortonToWgs(packed % 2 ^ (2 * lvl + 1), lvl)
  IN  [level |-> lvl, x |-> w.x, y |-> w.y, lon |-> w.lon, lat |-> w.lat]

-----------------------------------------------------------------------------
(* The reference: the NDS tile of a point, from the NDS coordinates' bits. *)

\* A tile at level L is named by the top L + 1 bits of the longitude and
\* the top L bits of the latitude, both as two's complement words.
TileX(u, lvl) == (u % 2 ^ NdsLonBits) \div 2 ^ (NdsLonBits - 1 - lvl)
TileY(v, lvl) == (v % 2 ^ NdsLatBits) \div 2 ^ (NdsLatBits - lvl)
CornerX(u, lvl) == TileX(u, lvl) * 2 ^ (NdsLonBits - 1 - lvl)
CornerY(v, lvl) == TileY(v, lvl) * 2 ^ (NdsLatBits - lvl)

\* The tile number: longitude bits on the even positions, latitude bits on
\* the odd ones, the longitude's top bit highest.
RefTileID(u, v, lvl) ==
  NdsSpread(TileX(u, lvl), lvl + 1) + 2 * NdsSpread(TileY(v, lvl), lvl)

\* The signed value of a corner of b bits.
Signed(c, b) == IF c >= 2 ^ (b - 1) THEN c - 2 ^ b ELSE c

\* Points on NDS units: lon = u * 360 / 2^NdsLonBits, lat = v * 180 /
\* 2^NdsLatBits, both over den = 2^NdsLonBits.
NdsUnitsLon == -(2 ^ (NdsLonBits - 1)) .. 2 ^ (NdsLonBits - 1)
NdsUnitsLat == -(2 ^ (NdsLatBits - 1)) .. 2 ^ (NdsLatBits - 1)

\* CalculatePackedTileID and ReadPackedTileID agree with the NDS tiling at
\* every level, for every point on NDS units, the bounds 180 and 90
\* included (they wrap to -180 and -90): the packed ID is the level bit
\* over the tile's interleaved bits; reading it back gives the level, the
\* tile's south-west corner as the two NDS coordinates, and the tile's
\* west edge in degrees (180 for the tiles on -180, the same meridian).
\* The shifts of calculateTileID and morton2wgs, the masks of nds2Morton,
\* split and combine and the leading-zero count must all agree.  The
\* latitude in degrees is not stated: denormalize keeps a value equal to
\* max, so the tiles of the southernmost row read back at +90 rather than
\* at their south edge -90 (see the README).
NdsTileRoundTripHolds ==
  \A lvl \in NdsLevels, u \in NdsUnitsLon, v \in NdsUnitsLat :
    LET den    == 2 ^ NdsLonBits
        packed == CalculatePackedTileID(360 * u, 360 * v, den, lvl)
        r      == ReadPackedTileID(packed)
        west   == Signed(CornerX(u, lvl), NdsLonBits) * 360
    IN  /\ NdsInRange(360 * u, 360 * v, den, lvl)
        /\ packed = 2 ^ (NdsMaxLevel + 1 + lvl) + RefTileID(u, v, lvl)
        /\ r.level = lvl
        /\ r.x = CornerX(u, lvl) /\ r.y = CornerY(v, lvl)
        /\ \/ r.lon = west
           \/ r.lon = 180 * den /\ west = -180 * den

=============================================================================
