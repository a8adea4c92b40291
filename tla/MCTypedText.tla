------------------------------ MODULE MCTypedText ------------------------------
(***************************************************************************)
(* Small instance of TypedText: two letters (so that a shifted suffix      *)
(* shows), two separators (so that a stale lead shows), separator runs of  *)
(* at most two (so that the run overflows), texts of at most five keys.    *)
(***************************************************************************)
EXTENDS TypedText

CONSTANTS a, b, sp, sl

MCLetter    == {a, b}
MCSeparator == {sp, sl}
MCTexts     == {<<>>, <<a>>, <<b, sp>>}
MCEmpty     == {<<>>}
MCWords     == {<<>>, <<b, a>>}
=============================================================================
