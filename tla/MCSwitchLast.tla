----------------------------- MODULE MCSwitchLast -----------------------------
(***************************************************************************)
(* Small instance of SwitchLast: two letters, a space and a separator that *)
(* another layout reads differently, runs of two, texts of four keys.      *)
(***************************************************************************)
EXTENDS SwitchLast

CONSTANTS a, b, sp, sl

MCLetter      == {a, b}
MCSeparator   == {sp, sl}
MCConvertible == {sl}
MCTexts       == {<<>>, <<b>>}
MCWords       == {<<>>, <<b, a>>}

\* Behaviours are followed up to their first slip, and the step behind it.
MCFirstSlip == slips = {}
=============================================================================
