------------------------------- MODULE TypedText -------------------------------
(***************************************************************************)
(* The word buffer next to the text it claims to describe.                 *)
(*                                                                         *)
(* `left' is the text left of the caret in the focused application, which  *)
(* the program never sees.  Every action is one gesture of the user, or    *)
(* one call of the engine, with both effects: what it does to the text and *)
(* what handle_key() and feed() make of it.  A key is identified by its    *)
(* scancode, so converting a word to another layout leaves `left' as it is.*)
(***************************************************************************)
EXTENDS WordBuffer

CONSTANTS
  Texts,    \* texts a moved caret may find itself behind
  Words,    \* replacement words an accepted suggestion may type
  MaxText   \* bound: the longest text left of the caret

ASSUME TextAssumption ==
  /\ Texts \subseteq Seq(Char)
  /\ Words \subseteq Seq(Letter)
  /\ MaxText \in Nat

VARIABLES
  buf,      \* the engine's WordBuffer
  left,     \* the text left of the caret (outside the program)
  outcome,  \* what the last feed returned (WordBoundary)
  blind     \* history: a step whose effect on the text the buffer does not
            \* follow left the caret inside a word, and no boundary since

vars == <<buf, left, outcome, blind>>

InProgress == [kind |-> "InProgress"]
Abandoned  == [kind |-> "Abandoned"]
WordCompleted(b) ==
  [ kind |-> "WordCompleted", tainted |-> Tainted(b),
    startedClean |-> b.wordClean, length |-> Len(b.keys), blind |-> blind ]

Outcome ==
  [kind : {"InProgress", "Abandoned"}]
    \cup [kind : {"WordCompleted"}, tainted : BOOLEAN, startedClean : BOOLEAN,
          length : Nat, blind : BOOLEAN]

\* Every variable has its type.
TypeOK ==
  /\ buf \in Buffer
  /\ left \in Seq(Char)
  /\ outcome \in Outcome
  /\ blind \in BOOLEAN

Init ==
  /\ buf = FreshBuffer
  /\ left \in Texts
  /\ outcome = InProgress
  /\ blind = ~AtWordStart(left)

-----------------------------------------------------------------------------
(* Gestures of the user. *)

TypeLetter(k) ==
  /\ Len(left) < MaxText
  /\ left' = Append(left, k)
  /\ buf' = FeedWord(buf, k)
  /\ outcome' = InProgress
  /\ UNCHANGED blind

TypeSeparator(s) ==
  /\ Len(left) < MaxText
  /\ left' = Append(left, s)
  /\ buf' = FeedBoundary(buf, s)
  /\ outcome' = IF buf.keys = <<>> THEN InProgress ELSE WordCompleted(buf)
  /\ blind' = FALSE

\* A tap of Backspace.  Feed tells its three branches apart by the buffer.
TapBackspace ==
  /\ left' = RubOut(left)
  /\ buf' = FeedBackspace(buf)
  /\ outcome' = IF buf.keys = <<>> /\ buf.boundaryRun = <<>>
                THEN Abandoned ELSE InProgress
  /\ blind' = (blind \/ (buf.keys = <<>> /\ ~StartsWord(left', Len(buf'.keys))))

\* Backspace held down: the application deletes as many characters as its
\* own repeat count says, the buffer sees a kernel_repeat event.
HoldBackspace ==
  /\ \E n \in 0..Len(left) : left' = Keep(left, n)
  /\ buf' = FeedHeldBackspace(buf)
  /\ outcome' = Abandoned
  /\ UNCHANGED blind

\* A click, an arrow key, Esc: the caret may be anywhere, or where it was.
MoveCaret ==
  /\ left' \in Texts \cup {left}
  /\ buf' = FeedEndAndDiscard(buf)
  /\ outcome' = Abandoned
  /\ UNCHANGED blind

\* Ctrl/Alt/Cmd+Backspace: a word or a line to the left of the caret goes.
WordDelete ==
  /\ \E n \in 0..Len(left) : /\ n < Len(left) \/ left = <<>>
                             /\ AtWordStart(Keep(left, n))
                             /\ left' = Keep(left, n)
  /\ buf' = DeleteWordLeft(buf)
  /\ outcome' = InProgress
  /\ UNCHANGED blind

\* Any other shortcut may edit the text or move the caret.
Shortcut ==
  /\ left' \in Texts \cup {left}
  /\ buf' = MarkContextUnclean(Abandon(buf))
  /\ outcome' = InProgress
  /\ UNCHANGED blind

\* The user pauses longer than idle_timeout; the caret stays where it is.
IdleGap ==
  /\ buf' = Abandon(buf)
  /\ outcome' = InProgress
  /\ UNCHANGED <<left, blind>>

-----------------------------------------------------------------------------
(* Calls of the engine. *)

\* The force-switch hotkey converted the word under the caret in place.  A
\* boundary that raced the conversion is fed before the word is settled.
SettleWord ==
  /\ buf.keys # <<>>
  /\ ~buf.remainderAtCaret
  /\ \/ /\ buf' = Settle(buf)
        /\ outcome' = InProgress
        /\ UNCHANGED <<left, blind>>
     \/ \E s \in Separator :
          /\ Len(left) < MaxText
          /\ left' = Append(left, s)
          /\ buf' = Settle(FeedBoundary(buf, s))
          /\ outcome' = WordCompleted(buf)
          /\ blind' = FALSE

\* A correction gave up with keystrokes it could not attribute.
PoisonWord ==
  /\ buf' = Poison(buf)
  /\ outcome' = InProgress
  /\ UNCHANGED <<left, blind>>

\* The text in front of the completed word.
BeforeWord ==
  Keep(left, Len(left) - Len(buf.prevWord) - Len(buf.boundaryRun) - Len(buf.keys))

\* An accepted suggestion replaced the completed word on the screen.  An
\* empty replacement (typed as text, no scancodes) drops the stash.
AcceptSuggestion(w) ==
  /\ buf.prevWord # <<>>
  /\ buf' = ReplaceCompleted(buf, w)
  /\ left' = BeforeWord \o w \o buf.boundaryRun \o buf.keys
  /\ Len(left') <= MaxText
  /\ outcome' = InProgress
  /\ UNCHANGED blind

\* A smart command erases its trigger and the boundary, and types a text and
\* the boundary again, or nothing; or the erasing fails.
SmartCommand ==
  /\ outcome.kind = "WordCompleted"
  /\ ~outcome.tainted
  /\ buf.prevWord # <<>> /\ buf.keys = <<>>
  /\ \/ left' \in {left, BeforeWord}
     \/ \E w \in Words : /\ left' = BeforeWord \o w \o buf.boundaryRun
                         /\ Len(left') <= MaxText
  /\ buf' = ForgetCompleted(buf)
  /\ outcome' = InProgress
  /\ blind' = ~AtWordStart(left')

SettingsReloaded ==
  /\ buf' = FreshBuffer
  /\ outcome' = InProgress
  /\ blind' = ~AtWordStart(left)
  /\ UNCHANGED left

Next ==
  \/ \E k \in Letter : TypeLetter(k)
  \/ \E s \in Separator : TypeSeparator(s)
  \/ TapBackspace
  \/ HoldBackspace
  \/ MoveCaret
  \/ WordDelete
  \/ Shortcut
  \/ IdleGap
  \/ SettleWord
  \/ PoisonWord
  \/ \E w \in Words : AcceptSuggestion(w)
  \/ SmartCommand
  \/ SettingsReloaded

Spec == Init /\ [][Next]_vars

\* Plain typing: no shortcut, no hotkey, nothing of the engine's.
Typing ==
  \/ \E k \in Letter : TypeLetter(k)
  \/ \E s \in Separator : TypeSeparator(s)
  \/ TapBackspace
  \/ MoveCaret
  \/ IdleGap

TypingSpec == Init /\ [][Typing]_vars

-----------------------------------------------------------------------------
(* Properties. *)

\* The buffer never claims a character the screen does not show: what it
\* tracks is the end of the text left of the caret, so a correction that
\* deletes Len(prevWord) + Len(boundaryRun) + Len(keys) characters deletes
\* exactly the ones it means (the screen-sync model of the buffer module).
ScreenSuffix == Tracks(buf, left)

\* A stashed word is always followed by a separator the buffer holds, and a
\* stashed lead by the word it belongs to: re-opening can never put a word
\* behind one that is being typed.
StashShape ==
  /\ buf.prevWord # <<>> => buf.boundaryRun # <<>>
  /\ buf.prevLead # NoKey => buf.prevWord # <<>>

\* What the trust flags are worth.  A clean context, or a clean start of the
\* word under the caret, means that word starts where the buffer thinks it
\* does; a remainder is always tainted, and a taint whose remainder the caret
\* left is never combined with a clean flag -- which is why the manual hotkey
\* may look at remainder_at_caret alone.
TrustedFlags ==
  /\ /\ ~buf.poisoned /\ ~blind
     /\ buf.contextClean \/ (buf.keys # <<>> /\ buf.wordClean)
     => StartsWord(left, Len(buf.keys))
  /\ buf.remainderAtCaret => buf.poisoned
  /\ buf.poisoned /\ ~buf.remainderAtCaret
     => ~buf.contextClean /\ (buf.keys # <<>> => ~buf.wordClean)

\* A word the engine may decide on as a whole -- completed, not tainted,
\* started clean -- is the whole word on the screen, unless the caret was
\* put inside a word by one of the steps `blind' records.
DecidedIsWhole ==
  /\ outcome.kind = "WordCompleted"
  /\ ~outcome.tainted /\ outcome.startedClean /\ ~outcome.blind
  => StartsWord(left, outcome.length + 1)

\* The same for the word under the caret, which the manual hotkey converts
\* in place: not a remainder, started clean, hence whole.
ConvertedIsWhole ==
  /\ buf.keys # <<>>
  /\ ~buf.remainderAtCaret /\ buf.wordClean /\ ~blind
  => StartsWord(left, Len(buf.keys))

\* `started_clean' is documented as: the first key arrived right after an
\* observed boundary rather than after a click or an idle abandon, so the
\* keys are no fragment of a longer on-screen word (WordBoundary).
CleanStartIsWhole ==
  outcome.kind = "WordCompleted" /\ ~outcome.tainted /\ outcome.startedClean
    => StartsWord(left, outcome.length + 1)
=============================================================================
