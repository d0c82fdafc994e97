----------------------------- MODULE MCComposer -----------------------------
(***************************************************************************)
(* Composer for TLC: contacts and typed pieces are interchangeable.        *)
(***************************************************************************)
EXTENDS Composer, TLC

Symmetry == Permutations(Contact) \cup Permutations(Piece)
=============================================================================
