------------------------------ MODULE SwitchLast ------------------------------
(***************************************************************************)
(* The manual hotkey (EngineCommand::SwitchLastForcefully) and the stash   *)
(* it works on when no word is under the caret.                            *)
(*                                                                         *)
(* The stash (last_word) is a second record of the screen, kept beside the *)
(* word buffer: it names the word completed last and outlives pauses, so   *)
(* that the hotkey can still reach it.  Every gesture of TypedText is      *)
(* composed with what the code does to the stash in the same step; the     *)
(* three ways a press can go are actions of their own.  The screen is the  *)
(* text of keys of TypedText, so a conversion in place does not change it, *)
(* and a conversion in the wrong place does.                               *)
(***************************************************************************)
EXTENDS TypedText

CONSTANTS
  Convertible,  \* separators that read differently in the next layout
  NoStash

ASSUME SwitchAssumption == Convertible \subseteq Separator

VARIABLES
  last,     \* last_word: the stash
  byEngine, \* history: the engine's own correction moved the stashed word
  slips     \* history: the ways the stash came to outlive its place

allVars == <<vars, last, byEngine, slips>>

Stash ==
  [ keys : Seq(Letter), boundary : Separator \cup {NoKey},
    corrected : BOOLEAN,   \* corrected_to is Some
    placed : BOOLEAN ]     \* user_placed

Slip == {"rubbedOut", "dropped", "edited", "command", "overflow", "raced",
         "murky", "remainder", "separator"}

\* Every variable has its type.
SwitchTypeOK ==
  /\ TypeOK
  /\ last \in Stash \cup {NoStash}
  /\ byEngine \in BOOLEAN
  /\ slips \subseteq Slip

SwitchInit ==
  /\ Init
  /\ last = NoStash /\ byEngine = FALSE /\ slips = {}

StashText(w) == w.keys \o IF w.boundary = NoKey THEN <<>> ELSE <<w.boundary>>

\* The text the buffer holds ends in the stash, or it holds none.
AtStash ==
  \/ buf.keys = <<>> /\ buf.boundaryRun = <<>>
  \/ buf.keys = <<>> /\ Len(buf.boundaryRun) = 1
       /\ buf.prevWord # <<>> /\ last.boundary # NoKey
  \/ buf.keys = last.keys /\ last.boundary = NoKey

Slipped(name, condition) ==
  slips' = IF last # NoStash /\ condition THEN slips \cup {name} ELSE slips

KeepStash == UNCHANGED <<last, byEngine>>
DropStash == last' = NoStash /\ byEngine' = FALSE

-----------------------------------------------------------------------------
(* What handle_key() and decide() do to the stash. *)

Letters(k) ==
  /\ TypeLetter(k)
  /\ KeepStash /\ UNCHANGED slips

\* Mutant: a tainted word leaves the stash of the word before it.
MutStashCompleted(b, s) ==
  IF Tainted(b) THEN KeepStash
  ELSE /\ last' \in [keys : {b.keys}, boundary : {s}, corrected : BOOLEAN,
                     placed : {FALSE}]
       /\ byEngine' = last'.corrected

\* A completed word is stashed before the engine decides on it, and marked
\* if it is corrected; a tainted one takes the stash with it.
StashCompleted(b, s) ==
  IF Tainted(b) THEN DropStash
  ELSE /\ last' \in [keys : {b.keys}, boundary : {s}, corrected : BOOLEAN,
                     placed : {FALSE}]
       /\ byEngine' = last'.corrected

Separators(s) ==
  /\ TypeSeparator(s)
  /\ IF buf.keys # <<>>
     THEN StashCompleted(buf, s) /\ UNCHANGED slips
     ELSE /\ KeepStash
          /\ Slipped("overflow", /\ buf.boundaryRun # <<>>
                                 /\ Len(buf'.boundaryRun) <= Len(buf.boundaryRun))

Backspaces ==
  /\ TapBackspace
  /\ IF outcome'.kind = "Abandoned"
     THEN DropStash /\ UNCHANGED slips
     ELSE KeepStash /\ Slipped("rubbedOut", buf.keys # <<>> /\ buf'.keys = <<>>)

\* Gestures whose outcome is Abandoned, or that delete the word.
LoseCaret ==
  /\ HoldBackspace \/ MoveCaret \/ WordDelete
  /\ DropStash /\ UNCHANGED slips

\* A shortcut known to move the caret or the selection ...
CaretShortcut == Shortcut /\ DropStash /\ UNCHANGED slips

\* ... and any other one.
OtherShortcut ==
  /\ Shortcut
  /\ KeepStash
  /\ slips' = IF last = NoStash THEN slips
              ELSE slips \cup (IF left' # left THEN {"edited"} ELSE {})
                         \cup (IF AtStash THEN {} ELSE {"dropped"})

\* The stash outlives a pause, up to LAST_WORD_TTL.
Pause ==
  /\ IdleGap
  /\ \/ KeepStash /\ Slipped("dropped", ~AtStash)
     \/ DropStash /\ UNCHANGED slips

GiveUp == PoisonWord /\ DropStash /\ UNCHANGED slips

Suggestion(w) == AcceptSuggestion(w) /\ DropStash /\ UNCHANGED slips

Command == SmartCommand /\ KeepStash /\ Slipped("command", left' # left)

Reload == SettingsReloaded /\ KeepStash /\ Slipped("dropped", ~AtStash)

-----------------------------------------------------------------------------
(* The hotkey.  A press that does nothing leaves everything as it was. *)

\* Mutant: separators typed behind the stashed word are not looked at.
MutStashReachable ==
  /\ last # NoStash
  /\ buf.keys = <<>>
  /\ ~(buf.boundaryRun # <<>> /\ buf.prevWord = <<>>)

\* The stash may be taken: no word is under the caret, and no separator but
\* the one that closed the stashed word, unless the buffer forgot that word.
StashReachable ==
  /\ last # NoStash
  /\ buf.keys = <<>>
  /\ Len(buf.boundaryRun) <= 1
  /\ ~(buf.boundaryRun # <<>> /\ buf.prevWord = <<>>)

\* Mutant: the second press does not know of the first.
MutSwitched(w) ==
  [w EXCEPT !.corrected = ~w.corrected]

\* After a press: the engine's correction is undone, anything else rotates.
Switched(w) ==
  [w EXCEPT !.corrected = ~w.corrected, !.placed = TRUE]

\* The word under the caret is converted in place; something murkier typed
\* meanwhile leaves it abandoned and tainted.
SwitchWordInProgress ==
  /\ buf.keys # <<>> /\ ~buf.remainderAtCaret
  /\ \/ /\ SettleWord
        /\ slips' = slips \cup IF outcome'.kind = "WordCompleted" THEN {"raced"} ELSE {}
     \/ /\ left' \in {left, RubOut(left)}
        /\ buf' = Settle(Poison(Abandon(buf)))
        /\ outcome' = InProgress
        /\ slips' = slips \cup {"murky"}
        /\ UNCHANGED blind
  /\ last' = [keys |-> buf.keys, boundary |-> NoKey, corrected |-> TRUE, placed |-> TRUE]
  /\ byEngine' = FALSE

Replaced(w) ==
  Keep(left, IF Len(StashText(w)) > Len(left) THEN 0 ELSE Len(left) - Len(StashText(w)))
    \o StashText(w)

\* The stashed word is deleted from the caret and typed again; a word typed
\* and completed meanwhile is seeded first and its stash overwritten; after
\* something murkier the taint stays, but not the missing stash.
SwitchStash ==
  /\ StashReachable
  /\ \/ /\ left' = Replaced(last)
        /\ UNCHANGED <<buf, slips>>
     \/ \E k \in Letter, s \in Separator :
          /\ left' = Replaced(last) \o <<k, s>>
          /\ buf' = FeedBoundary(FeedWord(buf, k), s)
          /\ slips' = slips \cup {"raced"}
     \/ /\ left' \in {Replaced(last), RubOut(Replaced(last))}
        /\ buf' = Poison(Abandon(buf))
        /\ slips' = slips \cup {"murky"}
  /\ Len(left') <= MaxText
  /\ last' = Switched(last)
  /\ byEngine' = FALSE
  /\ outcome' = InProgress
  /\ UNCHANGED blind

\* No word to convert, but a separator: the last one of the run.  The mark
\* of a correction is put on whatever the stash names.
SwitchSeparator ==
  /\ ~StashReachable
  /\ buf.keys # <<>> => buf.remainderAtCaret
  /\ buf.boundaryRun # <<>>
  /\ LET s == buf.boundaryRun[Len(buf.boundaryRun)]
     IN  /\ s \in Convertible
         /\ left' = Append(RubOut(left), s)
  /\ last' = IF last = NoStash THEN last ELSE [last EXCEPT !.corrected = TRUE]
  /\ slips' = slips \cup (IF buf.keys # <<>> THEN {"remainder"} ELSE {})
                    \cup (IF last # NoStash THEN {"separator"} ELSE {})
  /\ outcome' = InProgress
  /\ UNCHANGED <<buf, blind, byEngine>>

Press == SwitchWordInProgress \/ SwitchStash \/ SwitchSeparator

SwitchNext ==
  \/ \E k \in Letter : Letters(k)
  \/ \E s \in Separator : Separators(s)
  \/ Backspaces
  \/ LoseCaret
  \/ CaretShortcut
  \/ OtherShortcut
  \/ Pause
  \/ GiveUp
  \/ \E w \in Words : Suggestion(w)
  \/ Command
  \/ Reload
  \/ SwitchWordInProgress
  \/ SwitchStash
  \/ SwitchSeparator

SwitchSpec == SwitchInit /\ [][SwitchNext]_allVars

-----------------------------------------------------------------------------
(* Properties. *)

\* A correction deletes from the caret, so the stash may be used only while
\* the text ends in what it names: "switching anything but the last item of
\* that model erases whatever follows it instead".
StashIsLastItem ==
  StashReachable => EndsAt(left, Len(left), StashText(last))

\* The same, but for the known ways the stash outlives its place.
StashOnScreen == slips = {} => StashIsLastItem

\* No press of the hotkey replaces a character by another key's: it converts
\* in place, and only what was typed meanwhile is added.
SwitchKeepsText ==
  [][Press /\ slips' = {} =>
       Len(left) <= Len(left') /\ Keep(left', Len(left)) = left]_allVars

\* A press that counts as taking a correction back (and teaches the word to
\* the dictionary) finds a word the engine itself has moved.
UndoIsRescue ==
  "separator" \notin slips /\ last # NoStash
    => (last.corrected /\ ~last.placed => byEngine)
=============================================================================
