----------------------------- MODULE MCCorrection -----------------------------
(***************************************************************************)
(* Small instance of Correction: a word of one letter behind a text of one *)
(* character, another letter for the user to type, a space and Enter, at   *)
(* most three presses while the correction runs, one repair.               *)
(***************************************************************************)
EXTENDS Correction

CONSTANTS a, b, sp, enter

MCLetter    == {a, b}
MCSeparator == {sp, enter}
MCSubmit    == {enter}
MCWord      == <<a>>
MCBefore    == <<sp>>
=============================================================================
