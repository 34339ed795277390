------------------------------ MODULE MCT6Head ------------------------------
(***************************************************************************)
(* Small instances of T6Head for TLC: one or two frame contents, which are   *)
(* interchangeable, and a choice of the USB callbacks that may arrive.       *)
(***************************************************************************)
EXTENDS T6Head, TLC

FrameSymmetry == Permutations(Frames)

=============================================================================
