------------------------------ MODULE MCCardTap ------------------------------
(***************************************************************************)
(* CardTap for TLC: purchases and handlers differ in their names only, so  *)
(* states are checked up to a renaming of them (all properties are         *)
(* invariants).                                                            *)
(***************************************************************************)
EXTENDS CardTap, TLC

Renamings == Permutations(Taps) \cup Permutations(Handlers)

=============================================================================
