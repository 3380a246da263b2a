--------------------------- MODULE MCAssetCache ---------------------------
(***************************************************************************)
(* Two keys for a cache that holds one file, so that each key prunes the   *)
(* other, two loads at once of the same key or of both, and a file that is *)
(* replaced once behind its address.                                       *)
(***************************************************************************)
EXTENDS AssetCache

CONSTANTS k1, k2, l1, l2

MCKeys == {k1, k2}
MCLoads == {l1, l2}
MCReplaceable == {k1}
=============================================================================
