----------------------------- MODULE MCSuggestions -----------------------------
(***************************************************************************)
(* Small instance of Suggestions.                                          *)
(***************************************************************************)
EXTENDS Suggestions

CONSTANTS a, sp, nl

MCLetter    == {a}
MCSeparator == {sp, nl}
MCSubmit    == {nl}
MCTexts     == {<<>>}
MCWords     == {<<a, a>>}

\* The separator in front of a word is decide()'s business: nothing here reads it.
View ==
  <<[buf EXCEPT !.lead = NoKey, !.prevLead = NoKey], offer, armed, outs, made,
    claims, tip, cmds, wire, screen, done, slips>>

\* Bounds: what is under way to and from the tooltip and on the channel, with
\* a second press only next to a click or an accept.  After a known slip the
\* run is not followed further.
Bounds ==
  /\ Len(outs) + Len(cmds) + Len(wire) <= IF outs = <<>> THEN 3 ELSE 2
  /\ Len(cmds) <= 1
  /\ Len(wire) = 2 => \E i \in 1..2 : wire[i].key \in {Click, Accept}
  /\ ~claims => Len(screen) <= 3
  /\ Cardinality({i \in DOMAIN screen : screen[i] = nl}) <= 1
  /\ slips = {}
=============================================================================
