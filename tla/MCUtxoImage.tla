---------------------------- MODULE MCUtxoImage ----------------------------
(***************************************************************************)
(* UtxoImage for TLC: the empty chain, a chain with treasury only, two     *)
(* states of the full chain and one below the height fast-sync checks.     *)
(***************************************************************************)
EXTENDS UtxoImage

CONSTANTS empty, treasury, low, a, b

MCStates == {empty, treasury, low, a, b}
MCNoHeight == {empty, treasury}
MCChecked == {a, b}
MCCheckedAll == {low, a, b}
=============================================================================
