------------------------------ MODULE MCPalette ------------------------------
(* Palette with two actions and more entries than rows. *)
EXTENDS Palette, TLC

ActionSymmetry == Permutations(Actions)
=============================================================================
