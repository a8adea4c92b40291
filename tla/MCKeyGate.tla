------------------------------- MODULE MCKeyGate -------------------------------
(***************************************************************************)
(* Small instance of KeyGate: two keyboards and two holds, so that the     *)
(* second meets what the first left behind.                                *)
(***************************************************************************)
EXTENDS KeyGate, TLC

CONSTANTS k1, k2

MCKeyboard == {k1, k2}
MCSymmetry == Permutations(MCKeyboard)
=============================================================================
