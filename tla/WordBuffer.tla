------------------------------ MODULE WordBuffer ------------------------------
(***************************************************************************)
(* The word accumulator of the correction engine (struct WordBuffer) as a  *)
(* record, and its methods as operators from a buffer to a buffer.         *)
(*                                                                         *)
(* A key is abstracted to its identity: a Letter is a scancode+shift that  *)
(* classify() calls KeyKind::Word, a Separator one that it calls           *)
(* KeyKind::Boundary.  Time stamps and the characters a layout renders are *)
(* left out; the stash is layout independent in the code as well.          *)
(***************************************************************************)
EXTENDS Integers, Sequences

CONSTANTS
  Letter,     \* keys classify() reads as part of a word
  Separator,  \* keys classify() reads as a word boundary
  NoKey,      \* the None of the two Option<(u32, bool)> fields
  MaxRun      \* MAX_BOUNDARY_RUN (8 in the code)

ASSUME BufferAssumption ==
  /\ Letter \cap Separator = {}
  /\ NoKey \notin Separator
  /\ MaxRun \in Nat \ {0}

Char == Letter \cup Separator

Buffer ==
  [ keys             : Seq(Letter),
    prevWord         : Seq(Letter),
    boundaryRun      : Seq(Separator),
    lead             : Separator \cup {NoKey},
    prevLead         : Separator \cup {NoKey},
    poisoned         : BOOLEAN,
    remainderAtCaret : BOOLEAN,
    settled          : BOOLEAN,
    contextClean     : BOOLEAN,
    wordClean        : BOOLEAN,
    prevClean        : BOOLEAN ]

FreshBuffer ==
  [ keys |-> <<>>, prevWord |-> <<>>, boundaryRun |-> <<>>,
    lead |-> NoKey, prevLead |-> NoKey,
    poisoned |-> FALSE, remainderAtCaret |-> FALSE, settled |-> FALSE,
    contextClean |-> TRUE, wordClean |-> TRUE, prevClean |-> TRUE ]

(***************************************************************************)
(* The parts every feed is put together from.                              *)
(***************************************************************************)
\* Mutant: the taint forgets that the caret is behind the remainder.
MutPoison(b) == [b EXCEPT !.poisoned = TRUE]

Poison(b) == [b EXCEPT !.poisoned = TRUE, !.remainderAtCaret = TRUE]

Settle(b) == [b EXCEPT !.settled = TRUE]

Untaint(b) == [b EXCEPT !.poisoned = FALSE, !.remainderAtCaret = FALSE]

\* Mutant: the taint of the context is missing.
MutMarkContextUnclean(b) == b

MarkContextUnclean(b) == [b EXCEPT !.contextClean = FALSE]

ForgetCompleted(b) ==
  [b EXCEPT !.prevWord = <<>>, !.boundaryRun = <<>>, !.prevLead = NoKey]

ReplaceCompleted(b, ks) ==
  IF ks = <<>> THEN ForgetCompleted(b) ELSE [b EXCEPT !.prevWord = ks]

\* Mutant: the keys are dropped without the taint on their remainder.
MutAbandon(b) ==
  [b EXCEPT !.settled = FALSE, !.keys = <<>>, !.prevWord = <<>>,
            !.boundaryRun = <<>>, !.lead = NoKey, !.prevLead = NoKey]

Abandon(b) ==
  LET t == IF b.keys # <<>> THEN Poison(b) ELSE b
  IN  [t EXCEPT !.settled = FALSE, !.keys = <<>>, !.prevWord = <<>>,
                !.boundaryRun = <<>>, !.lead = NoKey, !.prevLead = NoKey]

DeleteWordLeft(b) == MarkContextUnclean(Untaint(Abandon(b)))

(***************************************************************************)
(* feed(), one operator per KeyKind (Discard and releases change nothing). *)
(***************************************************************************)
FeedWord(b, k) ==
  LET starts == b.keys = <<>>
      orphan == starts /\ b.boundaryRun = <<>>
  IN  [b EXCEPT !.keys      = Append(@, k),
                !.wordClean = IF starts THEN b.contextClean ELSE @,
                !.settled   = ~starts /\ @,
                !.prevWord  = IF orphan THEN <<>> ELSE @]

Tainted(b) == b.poisoned \/ b.settled

\* What every boundary does, whether or not a word stands in front of it.
Resync(b, s) ==
  [Untaint(b) EXCEPT !.settled = FALSE, !.contextClean = TRUE, !.lead = s]

\* A further separator (or one with no word in front of it at all).
ExtendRun(b, s) ==
  LET r == Resync(b, s)
  IN  IF Tainted(b) /\ b.prevWord # <<>>
      THEN ForgetCompleted(r)
      ELSE IF Len(b.boundaryRun) < MaxRun
      THEN [r EXCEPT !.boundaryRun = Append(@, s)]
      ELSE IF b.prevWord = <<>>
      THEN [r EXCEPT !.boundaryRun = Append(Tail(@), s)]
      ELSE ForgetCompleted(r)

\* The boundary that ends a word: it becomes the re-openable one, unless
\* the buffer lost track of it on the way.
CompleteWord(b, s) ==
  LET c == [Resync(b, s) EXCEPT !.keys = <<>>, !.prevWord = b.keys,
                                !.prevClean = b.wordClean,
                                !.prevLead = b.lead, !.boundaryRun = <<s>>]
  IN  IF Tainted(b) THEN ForgetCompleted(c) ELSE c

FeedBoundary(b, s) ==
  IF b.keys = <<>> THEN ExtendRun(b, s) ELSE CompleteWord(b, s)

\* A tap of Backspace on a letter the buffer holds ...
PopKey(b) == [b EXCEPT !.keys = SubSeq(@, 1, Len(@) - 1)]

\* Mutants: the re-opened word keeps its stashed lead; the wrong field is
\* re-opened.
MutStashKept(b) ==
  LET run == SubSeq(b.boundaryRun, 1, Len(b.boundaryRun) - 1)
  IN  IF run # <<>> THEN [b EXCEPT !.boundaryRun = run]
      ELSE [b EXCEPT !.boundaryRun = run, !.keys = b.prevWord,
                     !.prevWord = <<>>, !.wordClean = b.prevClean,
                     !.lead = b.prevLead]

MutRunReopened(b) ==
  LET run == SubSeq(b.boundaryRun, 1, Len(b.boundaryRun) - 1)
  IN  IF run # <<>> THEN [b EXCEPT !.boundaryRun = run]
      ELSE [b EXCEPT !.boundaryRun = run, !.keys = b.boundaryRun,
                     !.prevWord = <<>>, !.wordClean = b.prevClean,
                     !.lead = b.prevLead, !.prevLead = NoKey]

\* ... on a separator of the run, re-opening the word behind the last one ...
PopSeparator(b) ==
  LET run == SubSeq(b.boundaryRun, 1, Len(b.boundaryRun) - 1)
  IN  IF run # <<>> THEN [b EXCEPT !.boundaryRun = run]
      ELSE [b EXCEPT !.boundaryRun = run, !.keys = b.prevWord,
                     !.prevWord = <<>>, !.wordClean = b.prevClean,
                     !.lead = b.prevLead, !.prevLead = NoKey]

\* ... and on text the buffer never saw.
PopUnseen(b) == [MarkContextUnclean(Untaint(b)) EXCEPT !.lead = NoKey]

FeedBackspace(b) ==
  IF b.keys # <<>> THEN PopKey(b)
  ELSE IF b.boundaryRun # <<>> THEN PopSeparator(b)
  ELSE PopUnseen(b)

\* Mutant: a held Backspace loses the context, not the keys.
MutFeedHeldBackspace(b) == [MarkContextUnclean(b) EXCEPT !.lead = NoKey]

\* A kernel auto-repeat of Backspace: how far it got is not ours to count.
FeedHeldBackspace(b) ==
  LET t == IF b.keys # <<>> \/ b.boundaryRun # <<>>
           THEN Poison(Abandon(b)) ELSE b
  IN  [MarkContextUnclean(t) EXCEPT !.lead = NoKey]

\* Esc, navigation, a click.
FeedEndAndDiscard(b) ==
  [MarkContextUnclean(Abandon(b)) EXCEPT !.remainderAtCaret = FALSE]

-----------------------------------------------------------------------------
(***************************************************************************)
(* The screen model of the module documentation: the text left of the      *)
(* caret ends in  prevWord \o boundaryRun \o keys.                         *)
(***************************************************************************)

Keep(text, n) == SubSeq(text, 1, n)   \* its first n characters

RubOut(text) == IF text = <<>> THEN <<>> ELSE Keep(text, Len(text) - 1)

\* The last n characters start a word: text of their own, or a separator
\* just left of them.
StartsWord(text, n) == n < Len(text) => text[Len(text) - n] \in Separator

AtWordStart(text) == StartsWord(text, 0)

\* The text up to its position e ends in s.
EndsAt(text, e, s) ==
  Len(s) <= e /\ \A i \in 1..Len(s) : text[e - Len(s) + i] = s[i]

Tracks(b, left) ==
  LET n == Len(left)
      k == Len(b.keys)
      r == Len(b.boundaryRun)
  IN  /\ EndsAt(left, n, b.keys)
      /\ EndsAt(left, n - k, b.boundaryRun)
      /\ EndsAt(left, n - k - r, b.prevWord)
=============================================================================
