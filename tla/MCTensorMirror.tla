--------------------------- MODULE MCTensorMirror ---------------------------
(***************************************************************************)
(* TensorMirror with two mirrors that recycle each other's block, and      *)
(* arrays of two cells, so that half of one can be written or copied.      *)
(***************************************************************************)
EXTENDS TensorMirror, TLC

CONSTANTS m1, m2, b1, b2, x, y

MCMirrors == {m1, m2}
MCBlocks == {b1, b2}
MCValues == {x, y}
Symmetry == Permutations(MCMirrors) \cup Permutations(MCBlocks) \cup Permutations(MCValues)

=============================================================================
