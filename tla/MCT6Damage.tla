----------------------------- MODULE MCT6Damage -----------------------------
(***************************************************************************)
(* T6Damage for TLC: two row contents, five rows and a list of two ranges,   *)
(* so that a frame may have no, one, two or three runs of dirty rows, and    *)
(* the list may be full with or without a run that ends on the last row.     *)
(***************************************************************************)
EXTENDS T6Damage, TLC

PixelSymmetry == Permutations(Pixels)

=============================================================================
