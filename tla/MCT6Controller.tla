--------------------------- MODULE MCT6Controller ---------------------------
(* T6Controller on small instances: short delays, small budgets, and as many
   generations as can be remembered at once, and one more. *)
EXTENDS T6Controller, TLC

GenerationSymmetry == Permutations(Generations)
=============================================================================
