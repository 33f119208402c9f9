---------------------------- MODULE MCUtxoState ----------------------------
(***************************************************************************)
(* UtxoState for TLC: two commitments, so that equal and different outputs *)
(* meet; three blocks of two inputs and two outputs, so that an output can *)
(* be created, spent and given back in different blocks or in one range.   *)
(***************************************************************************)
EXTENDS UtxoState

Symmetry == Permutations(Commitments)
=============================================================================
