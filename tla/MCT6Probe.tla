------------------------------ MODULE MCT6Probe ------------------------------
(***************************************************************************)
(* T6Probe for TLC: every combination of module parameters, and the counts   *)
(* at the boundaries of a page, of the measured table and of the integer     *)
(* (whose width is reduced to 20 bits, as TLC has no 2^32).                  *)
(***************************************************************************)
EXTENDS T6Probe

EveryLoad == AllParams

Modulus == 1048576

EdgeCounts == {0, 1, 15, 16, 17, 35, 36, 37, Modulus - 1}

=============================================================================
