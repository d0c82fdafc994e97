----------------------------- MODULE MCScreens -----------------------------
(***************************************************************************)
(* The screens with two contacts: nothing tells the contacts apart.        *)
(***************************************************************************)
EXTENDS Screens, TLC

Symmetry == Permutations(Contact)
=============================================================================
