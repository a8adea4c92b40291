--------------------------- MODULE SwitchLastProofs ---------------------------
(***************************************************************************)
(* TypedText and its stash of the manual hotkey, for every alphabet, every *)
(* bound and every set of texts.  The buffer always describes the end of   *)
(* the text left of the caret, the words it vouches for are whole, and the *)
(* hotkey retypes what stands there.  One lemma per action, then the       *)
(* theorems: for the screen model, for the trust flags, for the stash.     *)
(***************************************************************************)
EXTENDS SwitchLast, WordBufferProofs

-----------------------------------------------------------------------------
(***************************************************************************)
(* The screen model holds: Synced is inductive.  ScreenSuffix needs        *)
(* StashShape (an orphaned stash would not be where Tracks expects it when *)
(* a letter or a held Backspace follows), and StashShape is inductive with *)
(* the types alone.                                                        *)
(***************************************************************************)
Synced == TypeOK /\ ScreenSuffix /\ StashShape

\* A step that leaves nothing tracked.
LEMMA BlankStep ==
  ASSUME Holds(buf', <<>>, <<>>, <<>>), buf'.prevLead = NoKey,
         left' \in Seq(Char), outcome' \in Outcome, blind' \in BOOLEAN
  PROVE  Synced'
<1>1. Tracks(buf', left')
  BY TracksBlank
<1>2. buf' \in Buffer /\ buf'.prevWord = <<>>
  BY DEF Holds
<1>3. QED
  BY <1>1, <1>2 DEF Synced, TypeOK, ScreenSuffix, StashShape

\* A step that touches neither the sequences nor the text.
LEMMA SameStep ==
  ASSUME Synced, Holds(buf', buf.keys, buf.prevWord, buf.boundaryRun),
         buf'.prevLead = buf.prevLead, left' = left,
         outcome' \in Outcome, blind' \in BOOLEAN
  PROVE  Synced'
<1>1. Tracks(buf', left')
  BY TracksSame DEF Synced, ScreenSuffix, TypeOK
<1>2. buf' \in Buffer
  BY DEF Holds
<1>3. StashShape'
  BY DEF Synced, StashShape, Holds
<1>4. QED
  BY <1>1, <1>2, <1>3 DEF Synced, TypeOK, ScreenSuffix

LEMMA Outcomes ==
  /\ InProgress \in Outcome /\ Abandoned \in Outcome
  /\ TypeOK => WordCompleted(buf) \in Outcome
<1>1. InProgress \in Outcome /\ Abandoned \in Outcome
  BY DEF InProgress, Abandoned, Outcome
<1>2. ASSUME TypeOK PROVE WordCompleted(buf) \in Outcome
  <2>1. Len(buf.keys) \in Nat /\ Tainted(buf) \in BOOLEAN
        /\ buf.wordClean \in BOOLEAN /\ blind \in BOOLEAN
    BY <1>2 DEF TypeOK, Buffer, Tainted
  <2>2. QED
    BY <2>1 DEF WordCompleted, Outcome
<1>3. QED
  BY <1>1, <1>2

LEMMA InitSynced == Init => Synced
<1> SUFFICES ASSUME Init PROVE Synced
  OBVIOUS
<1>1. left \in Seq(Char) /\ buf = FreshBuffer
  BY TextAssumption DEF Init
<1>2. Tracks(buf, left) /\ buf \in Buffer /\ StashShape
  BY <1>1, FreshFields, TracksBlank DEF Holds, StashShape
<1>3. outcome \in Outcome /\ blind \in BOOLEAN
  BY Outcomes DEF Init, AtWordStart, StartsWord
<1>4. QED
  BY <1>1, <1>2, <1>3 DEF Synced, TypeOK, ScreenSuffix

LEMMA TypeLetterSynced ==
  ASSUME Synced, NEW k \in Letter, TypeLetter(k)
  PROVE  Synced'
<1>1. /\ buf \in Buffer /\ left \in Seq(Char) /\ Tracks(buf, left)
      /\ buf' = FeedWord(buf, k) /\ left' = Append(left, k)
      /\ outcome' \in Outcome /\ blind' \in BOOLEAN
  BY Outcomes DEF Synced, TypeOK, ScreenSuffix, TypeLetter
<1>2. /\ Holds(buf', Append(buf.keys, k),
               IF buf.keys = <<>> /\ buf.boundaryRun = <<>>
               THEN <<>> ELSE buf.prevWord,
               buf.boundaryRun)
      /\ buf'.prevLead = buf.prevLead
  BY <1>1, FeedWordFields
<1>3. Tracks(buf', left') /\ left' \in Seq(Char)
  BY <1>1, TracksLetter
<1>4. StashShape'
  BY <1>2 DEF Synced, StashShape, Holds
<1>5. QED
  BY <1>1, <1>2, <1>3, <1>4 DEF Synced, TypeOK, ScreenSuffix, Holds

\* A boundary fed to the buffer and typed into the text; the one a racing
\* conversion holds back settles the word besides.
LEMMA BoundaryFed ==
  ASSUME Synced, NEW s \in Separator
  PROVE  LET f == FeedBoundary(buf, s)
         IN  /\ f \in Buffer
             /\ Append(left, s) \in Seq(Char)
             /\ Tracks(f, Append(left, s))
             /\ f.prevWord # <<>> => f.boundaryRun # <<>>
             /\ f.prevLead # NoKey => f.prevWord # <<>>
<1> DEFINE f == FeedBoundary(buf, s)
<1>1. /\ buf \in Buffer /\ left \in Seq(Char) /\ Tracks(buf, left)
      /\ buf.prevLead # NoKey => buf.prevWord # <<>>
      /\ buf.boundaryRun \in Seq(Separator)
  BY DEF Synced, TypeOK, ScreenSuffix, StashShape, Buffer
<1>2. Tracks(f, Append(left, s)) /\ Append(left, s) \in Seq(Char)
  BY <1>1, TracksSeparator
<1>3. /\ \/ Holds(f, <<>>, <<>>, <<>>)
         \/ Holds(f, <<>>, buf.prevWord, Append(buf.boundaryRun, s))
         \/ Holds(f, <<>>, <<>>, Append(Tail(buf.boundaryRun), s))
         \/ Holds(f, <<>>, buf.keys, <<s>>)
      /\ f.prevLead # NoKey => f.prevWord # <<>>
  BY <1>1, FeedBoundaryFields
<1> HIDE DEF f
<1>4. Append(buf.boundaryRun, s) # <<>> /\ <<s>> # <<>>
  BY <1>1
<1>5. f \in Buffer /\ (f.prevWord # <<>> => f.boundaryRun # <<>>)
  BY <1>3, <1>4 DEF Holds
<1>6. QED
  BY <1>2, <1>3, <1>5 DEF f

LEMMA TypeSeparatorSynced ==
  ASSUME Synced, NEW s \in Separator, TypeSeparator(s)
  PROVE  Synced'
<1>1. buf' = FeedBoundary(buf, s) /\ left' = Append(left, s)
      /\ outcome' \in Outcome /\ blind' \in BOOLEAN
  BY Outcomes DEF TypeSeparator, Synced
<1>2. QED
  BY <1>1, BoundaryFed DEF Synced, TypeOK, ScreenSuffix, StashShape

LEMMA TapBackspaceSynced ==
  ASSUME Synced, TapBackspace
  PROVE  Synced'
<1>1. /\ buf \in Buffer /\ left \in Seq(Char) /\ Tracks(buf, left)
      /\ buf' = FeedBackspace(buf) /\ left' = RubOut(left)
      /\ buf.prevWord # <<>> => buf.boundaryRun # <<>>
      /\ buf.prevLead # NoKey => buf.prevWord # <<>>
      /\ outcome' \in Outcome
  BY Outcomes DEF Synced, TypeOK, ScreenSuffix, StashShape, TapBackspace
<1>2. blind' \in BOOLEAN
  BY DEF Synced, TypeOK, TapBackspace, StartsWord
<1>3. Tracks(buf', left') /\ left' \in Seq(Char)
  BY <1>1, TracksBackspace
<1>4. buf' \in Buffer /\ StashShape'
  <2>1. CASE buf.keys # <<>>
    <3>1. /\ Holds(buf', SubSeq(buf.keys, 1, Len(buf.keys) - 1), buf.prevWord,
                   buf.boundaryRun)
          /\ buf'.prevLead = buf.prevLead
      BY <1>1, <2>1, PopKeyFields
    <3>2. QED
      BY <1>1, <3>1 DEF Holds, StashShape
  <2>2. CASE buf.keys = <<>> /\ buf.boundaryRun # <<>>
    <3> DEFINE run == SubSeq(buf.boundaryRun, 1, Len(buf.boundaryRun) - 1)
    <3>1. \/ /\ run # <<>> /\ Holds(buf', <<>>, buf.prevWord, run)
             /\ buf'.prevLead = buf.prevLead
          \/ /\ run = <<>> /\ Holds(buf', buf.prevWord, <<>>, <<>>)
             /\ buf'.prevLead = NoKey
      BY <1>1, <2>2, PopSeparatorFields
    <3> HIDE DEF run
    <3>2. QED
      BY <1>1, <3>1 DEF Holds, StashShape
  <2>3. CASE buf.keys = <<>> /\ buf.boundaryRun = <<>>
    <3>1. Holds(buf', <<>>, buf.prevWord, <<>>) /\ buf'.prevLead = buf.prevLead
      BY <1>1, <2>3, PopUnseenFields
    <3>2. QED
      BY <1>1, <2>3, <3>1 DEF Holds, StashShape
  <2>4. QED
    BY <2>1, <2>2, <2>3
<1>5. QED
  BY <1>1, <1>2, <1>3, <1>4 DEF Synced, TypeOK, ScreenSuffix

\* A text cut short at an index of its own.
LEMMA KeepIsText ==
  ASSUME NEW t \in Seq(Char), NEW n \in 0..Len(t)
  PROVE  Keep(t, n) \in Seq(Char)
BY KeepFields

LEMMA HoldBackspaceSynced ==
  ASSUME Synced, HoldBackspace
  PROVE  Synced'
<1>1. /\ buf \in Buffer /\ left' \in Seq(Char)
      /\ buf' = FeedHeldBackspace(buf)
      /\ outcome' \in Outcome /\ blind' \in BOOLEAN
  BY Outcomes, KeepIsText DEF Synced, TypeOK, HoldBackspace
<1>2. Holds(buf', <<>>, <<>>, <<>>) /\ buf'.prevLead = NoKey
  BY <1>1, HeldBackspaceFields DEF Synced, StashShape
<1>3. QED
  BY <1>1, <1>2, BlankStep

LEMMA MoveCaretSynced ==
  ASSUME Synced, MoveCaret
  PROVE  Synced'
<1>1. /\ buf \in Buffer /\ left' \in Seq(Char)
      /\ buf' = FeedEndAndDiscard(buf)
      /\ outcome' \in Outcome /\ blind' \in BOOLEAN
  BY Outcomes, TextAssumption DEF Synced, TypeOK, MoveCaret
<1>2. Holds(buf', <<>>, <<>>, <<>>) /\ buf'.prevLead = NoKey
  BY <1>1, EndAndDiscardFields
<1>3. QED
  BY <1>1, <1>2, BlankStep

LEMMA DeleteWordLeftFields ==
  ASSUME NEW b \in Buffer
  PROVE  LET f == DeleteWordLeft(b)
         IN  /\ Holds(f, <<>>, <<>>, <<>>) /\ f.prevLead = NoKey
             /\ f.poisoned = FALSE /\ f.remainderAtCaret = FALSE
             /\ f.contextClean = FALSE
<1> DEFINE x == Abandon(b)
           y == Untaint(x)
<1>1. Holds(x, <<>>, <<>>, <<>>) /\ x.prevLead = NoKey
  BY AbandonFields
<1> HIDE DEF x
<1>2. /\ Holds(y, x.keys, x.prevWord, x.boundaryRun) /\ y.prevLead = x.prevLead
      /\ y.poisoned = FALSE /\ y.remainderAtCaret = FALSE
  BY <1>1, UntaintFields DEF Holds
<1>3. DeleteWordLeft(b) = MarkContextUnclean(y)
  BY DEF DeleteWordLeft, x
<1> HIDE DEF y
<1>4. QED
  BY <1>1, <1>2, <1>3, UncleanFields, ZenonT(30) DEF Holds

LEMMA WordDeleteSynced ==
  ASSUME Synced, WordDelete
  PROVE  Synced'
<1>1. /\ buf \in Buffer /\ left' \in Seq(Char)
      /\ buf' = DeleteWordLeft(buf)
      /\ outcome' \in Outcome /\ blind' \in BOOLEAN
  BY Outcomes, KeepIsText DEF Synced, TypeOK, WordDelete
<1>2. Holds(buf', <<>>, <<>>, <<>>) /\ buf'.prevLead = NoKey
  BY <1>1, DeleteWordLeftFields
<1>3. QED
  BY <1>1, <1>2, BlankStep

LEMMA ShortcutFields ==
  ASSUME NEW b \in Buffer
  PROVE  LET f == MarkContextUnclean(Abandon(b))
         IN  /\ Holds(f, <<>>, <<>>, <<>>) /\ f.prevLead = NoKey
             /\ f.poisoned = (b.poisoned \/ b.keys # <<>>)
             /\ f.remainderAtCaret = (b.remainderAtCaret \/ b.keys # <<>>)
             /\ f.contextClean = FALSE
<1> DEFINE x == Abandon(b)
<1>1. /\ Holds(x, <<>>, <<>>, <<>>) /\ x.prevLead = NoKey
      /\ x.poisoned = (b.poisoned \/ b.keys # <<>>)
      /\ x.remainderAtCaret = (b.remainderAtCaret \/ b.keys # <<>>)
  BY AbandonFields
<1> HIDE DEF x
<1>2. LET f == MarkContextUnclean(x)
      IN  /\ Holds(f, <<>>, <<>>, <<>>) /\ f.prevLead = NoKey
          /\ f.poisoned = x.poisoned /\ f.remainderAtCaret = x.remainderAtCaret
          /\ f.contextClean = FALSE
  BY <1>1, UncleanFields DEF Holds
<1>3. QED
  BY <1>1, <1>2 DEF x

LEMMA ShortcutSynced ==
  ASSUME Synced, Shortcut
  PROVE  Synced'
<1>1. /\ buf \in Buffer /\ left' \in Seq(Char)
      /\ buf' = MarkContextUnclean(Abandon(buf))
      /\ outcome' \in Outcome /\ blind' \in BOOLEAN
  BY Outcomes, TextAssumption DEF Synced, TypeOK, Shortcut
<1>2. Holds(buf', <<>>, <<>>, <<>>) /\ buf'.prevLead = NoKey
  BY <1>1, ShortcutFields
<1>3. QED
  BY <1>1, <1>2, BlankStep

LEMMA IdleGapSynced ==
  ASSUME Synced, IdleGap
  PROVE  Synced'
<1>1. /\ buf \in Buffer /\ left' \in Seq(Char) /\ buf' = Abandon(buf)
      /\ outcome' \in Outcome /\ blind' \in BOOLEAN
  BY Outcomes DEF Synced, TypeOK, IdleGap
<1>2. Holds(buf', <<>>, <<>>, <<>>) /\ buf'.prevLead = NoKey
  BY <1>1, AbandonFields
<1>3. QED
  BY <1>1, <1>2, BlankStep

LEMMA SettleWordSynced ==
  ASSUME Synced, SettleWord
  PROVE  Synced'
<1>1. CASE buf' = Settle(buf) /\ outcome' = InProgress /\ UNCHANGED <<left, blind>>
  <2>1. buf \in Buffer /\ outcome' \in Outcome /\ blind' \in BOOLEAN
        /\ left' = left
    BY <1>1, Outcomes DEF Synced, TypeOK
  <2>2. Holds(buf', buf.keys, buf.prevWord, buf.boundaryRun)
        /\ buf'.prevLead = buf.prevLead
    BY <1>1, <2>1, SettleFields
  <2>3. QED
    BY <2>1, <2>2, SameStep
<1>2. ASSUME NEW s \in Separator, left' = Append(left, s),
             buf' = Settle(FeedBoundary(buf, s)), outcome' = WordCompleted(buf),
             blind' = FALSE
      PROVE  Synced'
  <2> DEFINE f == FeedBoundary(buf, s)
  <2>1. /\ f \in Buffer /\ left' \in Seq(Char) /\ Tracks(f, left')
        /\ f.prevWord # <<>> => f.boundaryRun # <<>>
        /\ f.prevLead # NoKey => f.prevWord # <<>>
    BY <1>2, BoundaryFed
  <2>2. outcome' \in Outcome /\ blind' \in BOOLEAN
    BY <1>2, Outcomes DEF Synced
  <2> HIDE DEF f
  <2>3. buf' = Settle(f)
    BY <1>2 DEF f
  <2>4. /\ Holds(buf', f.keys, f.prevWord, f.boundaryRun)
        /\ buf'.prevLead = f.prevLead
    BY <2>1, <2>3, SettleFields
  <2>5. Tracks(buf', left')
    BY <2>1, <2>4, TracksSame
  <2>6. QED
    BY <2>1, <2>2, <2>4, <2>5 DEF Synced, TypeOK, ScreenSuffix, StashShape, Holds
<1>3. QED
  BY <1>1, <1>2 DEF SettleWord

LEMMA PoisonWordSynced ==
  ASSUME Synced, PoisonWord
  PROVE  Synced'
<1>1. /\ buf \in Buffer /\ left' = left /\ buf' = Poison(buf)
      /\ outcome' \in Outcome /\ blind' \in BOOLEAN
  BY Outcomes DEF Synced, TypeOK, PoisonWord
<1>2. /\ Holds(buf', buf.keys, buf.prevWord, buf.boundaryRun)
      /\ buf'.prevLead = buf.prevLead
  BY <1>1, PoisonFields
<1>3. QED
  BY <1>1, <1>2, SameStep

LEMMA KeysAreText ==
  /\ \A q \in Seq(Letter) : q \in Seq(Char)
  /\ \A q \in Seq(Separator) : q \in Seq(Char)
<1>1. Letter \subseteq Char /\ Separator \subseteq Char
  BY DEF Char
<1>2. QED
  BY <1>1, SeqMonotonic

LEMMA BeforeWordIsText ==
  ASSUME Synced
  PROVE  BeforeWord \in Seq(Char)
<1> DEFINE n == Len(left)
           k == Len(buf.keys)
           r == Len(buf.boundaryRun)
           p == Len(buf.prevWord)
<1>1. buf \in Buffer /\ left \in Seq(Char) /\ Tracks(buf, left)
  BY DEF Synced, TypeOK, ScreenSuffix
<1>2. /\ n \in Nat /\ k \in Nat /\ r \in Nat /\ p \in Nat
      /\ k <= n /\ r <= n - k /\ p <= n - k - r
  BY <1>1, Lengths
<1>3. BeforeWord = Keep(left, n - p - r - k)
  BY DEF BeforeWord
<1> HIDE DEF k, r, p
<1>4. n - p - r - k \in 0..Len(left)
  BY <1>2
<1>5. QED
  BY <1>1, <1>3, <1>4, KeepIsText

LEMMA Concatenated ==
  ASSUME NEW x \in Seq(Char), NEW y \in Seq(Char)
  PROVE  /\ x \o y \in Seq(Char) /\ Len(x) \in Nat /\ Len(y) \in Nat
         /\ Len(x \o y) = Len(x) + Len(y)
         /\ EndsAt(x \o y, Len(x \o y), y)
<1>1. x \o y \in Seq(Char) /\ Len(x \o y) = Len(x) + Len(y)
  BY ConcatProperties
<1>2. Len(x) \in Nat /\ Len(y) \in Nat
  OBVIOUS
<1>3. EndsAt(x \o y, Len(x \o y), y)
  BY EndsConcat
<1>4. QED
  BY <1>1, <1>2, <1>3

LEMMA StillEnds ==
  ASSUME NEW x \in Seq(Char), NEW y \in Seq(Char), NEW R, NEW s \in Seq(R),
         NEW e \in Nat, e <= Len(x), EndsAt(x, e, s)
  PROVE  EndsAt(x \o y, e, s)
<1>1. e \in 0..Len(x)
  OBVIOUS
<1>2. QED
  BY <1>1, EndsConcat

\* The text an accepted suggestion leaves: its word, the run and the keys.
LEMMA AcceptedText ==
  ASSUME Synced, NEW w \in Words, AcceptSuggestion(w)
  PROVE  LET n == Len(left')
             k == Len(buf.keys)
         IN  /\ left' \in Seq(Char) /\ n - k \in Nat
             /\ EndsAt(left', n, buf.keys)
             /\ EndsAt(left', n - k, buf.boundaryRun)
             /\ EndsAt(left', n - k - Len(buf.boundaryRun), w)
<1> DEFINE x == BeforeWord
           y == x \o w
           z == y \o buf.boundaryRun
           u == z \o buf.keys
<1>1. /\ buf \in Buffer /\ left \in Seq(Char) /\ Tracks(buf, left)
      /\ buf.prevWord # <<>> /\ (buf.prevWord # <<>> => buf.boundaryRun # <<>>)
      /\ buf' = ReplaceCompleted(buf, w) /\ left' = u
      /\ outcome' \in Outcome /\ blind' \in BOOLEAN
  BY Outcomes DEF Synced, TypeOK, ScreenSuffix, StashShape, AcceptSuggestion
<1>2. /\ buf.keys \in Seq(Letter) /\ w \in Seq(Letter)
      /\ buf.boundaryRun \in Seq(Separator)
  BY <1>1, TextAssumption DEF Buffer
<1>3. buf.keys \in Seq(Char) /\ w \in Seq(Char) /\ buf.boundaryRun \in Seq(Char)
  BY <1>2, KeysAreText
<1>4. x \in Seq(Char)
  BY BeforeWordIsText
<1> HIDE DEF x
<1>5. y \in Seq(Char) /\ Len(y) \in Nat /\ EndsAt(y, Len(y), w)
  BY <1>3, <1>4, Concatenated
<1> HIDE DEF y
<1>6. /\ z \in Seq(Char) /\ Len(z) = Len(y) + Len(buf.boundaryRun)
      /\ Len(buf.boundaryRun) \in Nat /\ EndsAt(z, Len(z), buf.boundaryRun)
  BY <1>3, <1>5, Concatenated
<1>7. EndsAt(z, Len(y), w)
  BY <1>2, <1>3, <1>5, StillEnds
<1> HIDE DEF z
<1>8. /\ u \in Seq(Char) /\ Len(u) = Len(z) + Len(buf.keys)
      /\ Len(z) \in Nat /\ Len(buf.keys) \in Nat /\ EndsAt(u, Len(u), buf.keys)
  BY <1>3, <1>6, Concatenated
<1>9. EndsAt(u, Len(z), buf.boundaryRun) /\ EndsAt(u, Len(y), w)
  <2>1. Len(y) <= Len(z) /\ Len(z) <= Len(z)
    BY <1>5, <1>6, <1>8
  <2>2. EndsAt(u, Len(z), buf.boundaryRun)
    BY <1>2, <1>3, <1>6, <1>8, <2>1, StillEnds
  <2>3. EndsAt(u, Len(y), w)
    BY <1>2, <1>3, <1>5, <1>6, <1>7, <2>1, StillEnds
  <2>4. QED
    BY <2>2, <2>3
<1> HIDE DEF u
<1>10. /\ Len(u) - Len(buf.keys) = Len(z)
       /\ Len(z) - Len(buf.boundaryRun) = Len(y) /\ Len(z) - 0 = Len(z)
  BY <1>5, <1>6, <1>8
<1>11. QED
  BY <1>1, <1>8, <1>9, <1>10

LEMMA AcceptSuggestionSynced ==
  ASSUME Synced, NEW w \in Words, AcceptSuggestion(w)
  PROVE  Synced'
<1> DEFINE n == Len(left')
           k == Len(buf.keys)
<1>1. /\ buf \in Buffer /\ w \in Seq(Letter) /\ buf' = ReplaceCompleted(buf, w)
      /\ buf.prevWord # <<>> => buf.boundaryRun # <<>>
      /\ buf.prevWord # <<>>
      /\ outcome' \in Outcome /\ blind' \in BOOLEAN
  BY Outcomes, TextAssumption DEF Synced, TypeOK, StashShape, AcceptSuggestion
<1>2. /\ left' \in Seq(Char) /\ n - k \in Nat
      /\ EndsAt(left', n, buf.keys) /\ EndsAt(left', n - k, buf.boundaryRun)
      /\ EndsAt(left', n - k - Len(buf.boundaryRun), w)
  BY AcceptedText
<1>3. CASE w = <<>>
  <2>1. Holds(buf', buf.keys, <<>>, <<>>) /\ buf'.prevLead = NoKey
    BY <1>1, <1>3, ForgetFields DEF ReplaceCompleted
  <2>2. n - k - Len(<<>>) = n - k
    <3> HIDE DEF n, k
    <3>1. QED
      BY <1>2
  <2>3. EndsAt(left', n - k, <<>>) /\ EndsAt(left', n - k - Len(<<>>), <<>>)
    BY <1>2, <2>2, EndsEmpty
  <2>4. Tracks(buf', left')
    BY <1>2, <2>1, <2>3 DEF Tracks, Holds
  <2>5. QED
    BY <1>1, <1>2, <2>1, <2>4 DEF Synced, TypeOK, ScreenSuffix, StashShape, Holds
<1>4. CASE w # <<>>
  <2>1. Holds(buf', buf.keys, w, buf.boundaryRun)
    BY <1>1, <1>4, ReplaceFields
  <2>2. Tracks(buf', left')
    BY <1>2, <2>1 DEF Tracks, Holds
  <2>3. QED
    BY <1>1, <1>2, <1>4, <2>1, <2>2
       DEF Synced, TypeOK, ScreenSuffix, StashShape, Holds
<1>5. QED
  BY <1>3, <1>4

LEMMA SmartCommandSynced ==
  ASSUME Synced, SmartCommand
  PROVE  Synced'
<1>1. /\ buf \in Buffer /\ left \in Seq(Char) /\ BeforeWord \in Seq(Char)
      /\ buf.boundaryRun \in Seq(Char) /\ buf.keys = <<>>
      /\ buf' = ForgetCompleted(buf)
      /\ outcome' \in Outcome
  BY Outcomes, BeforeWordIsText, KeysAreText
     DEF Synced, TypeOK, SmartCommand, Buffer
<1>2. blind' \in BOOLEAN
  BY DEF SmartCommand, AtWordStart, StartsWord
<1>3. left' \in Seq(Char)
  <2>1. CASE left' \in {left, BeforeWord}
    BY <1>1, <2>1
  <2>2. ASSUME NEW w \in Words, left' = BeforeWord \o w \o buf.boundaryRun
        PROVE  left' \in Seq(Char)
    <3>1. w \in Seq(Char)
      BY TextAssumption, KeysAreText
    <3>2. BeforeWord \o w \in Seq(Char)
      BY <1>1, <3>1, ConcatProperties
    <3>3. QED
      BY <1>1, <2>2, <3>2, ConcatProperties
  <2>3. QED
    BY <2>1, <2>2 DEF SmartCommand
<1>4. Holds(buf', <<>>, <<>>, <<>>) /\ buf'.prevLead = NoKey
  BY <1>1, ForgetFields
<1>5. QED
  BY <1>1, <1>2, <1>3, <1>4, BlankStep

LEMMA SettingsReloadedSynced ==
  ASSUME Synced, SettingsReloaded
  PROVE  Synced'
<1>1. /\ buf' = FreshBuffer /\ left' \in Seq(Char) /\ outcome' \in Outcome
  BY Outcomes DEF Synced, TypeOK, SettingsReloaded
<1>2. blind' \in BOOLEAN
  BY DEF SettingsReloaded, AtWordStart, StartsWord
<1>3. QED
  BY <1>1, <1>2, FreshFields, BlankStep

LEMMA StutterSynced ==
  ASSUME Synced, UNCHANGED vars
  PROVE  Synced'
<1>1. buf' = buf /\ left' = left /\ outcome' = outcome /\ blind' = blind
  BY DEF vars
<1>2. QED
  BY <1>1 DEF Synced, TypeOK, ScreenSuffix, StashShape

THEOREM SyncedInvariant == Spec => []Synced
<1>1. Synced /\ [Next]_vars => Synced'
  <2> SUFFICES ASSUME Synced, [Next]_vars PROVE Synced'
    OBVIOUS
  <2>1. CASE \E k \in Letter : TypeLetter(k)
    BY <2>1, TypeLetterSynced
  <2>2. CASE \E s \in Separator : TypeSeparator(s)
    BY <2>2, TypeSeparatorSynced
  <2>3. CASE TapBackspace
    BY <2>3, TapBackspaceSynced
  <2>4. CASE HoldBackspace
    BY <2>4, HoldBackspaceSynced
  <2>5. CASE MoveCaret
    BY <2>5, MoveCaretSynced
  <2>6. CASE WordDelete
    BY <2>6, WordDeleteSynced
  <2>7. CASE Shortcut
    BY <2>7, ShortcutSynced
  <2>8. CASE IdleGap
    BY <2>8, IdleGapSynced
  <2>9. CASE SettleWord
    BY <2>9, SettleWordSynced
  <2>10. CASE PoisonWord
    BY <2>10, PoisonWordSynced
  <2>11. CASE \E w \in Words : AcceptSuggestion(w)
    BY <2>11, AcceptSuggestionSynced
  <2>12. CASE SmartCommand
    BY <2>12, SmartCommandSynced
  <2>13. CASE SettingsReloaded
    BY <2>13, SettingsReloadedSynced
  <2>14. CASE UNCHANGED vars
    BY <2>14, StutterSynced
  <2>15. QED
    BY <2>1, <2>2, <2>3, <2>4, <2>5, <2>6, <2>7, <2>8, <2>9, <2>10, <2>11,
       <2>12, <2>13, <2>14 DEF Next
<1>2. QED
  BY InitSynced, <1>1, PTL DEF Spec

\* Types hold for every alphabet and every bound.
THEOREM Types == Spec => []TypeOK
<1>1. Synced => TypeOK
  BY DEF Synced
<1>2. QED
  BY SyncedInvariant, <1>1, PTL

\* The buffer only ever describes the end of the text left of the caret.
THEOREM BufferMatchesScreen == Spec => []ScreenSuffix
<1>1. Synced => ScreenSuffix
  BY DEF Synced
<1>2. QED
  BY SyncedInvariant, <1>1, PTL

\* A stashed word is followed by a run the buffer holds, a stashed lead by
\* a stashed word.
THEOREM StashIsAnchored == Spec => []StashShape
<1>1. Synced => StashShape
  BY DEF Synced
<1>2. QED
  BY SyncedInvariant, <1>1, PTL

-----------------------------------------------------------------------------
(***************************************************************************)
(* What the trust flags are worth.  A word the engine decides on as a      *)
(* whole, and a word the manual hotkey converts in place, is the whole     *)
(* word on the screen.                                                     *)
(*                                                                         *)
(* The invariant adds LostTaint to the two properties: without it, popping *)
(* a separator could re-open a word with a clean start of its own under a  *)
(* taint whose remainder the caret has left.                               *)
(***************************************************************************)

\* A taint the caret has left behind comes with an empty run.
LostTaint ==
  buf.poisoned /\ ~buf.remainderAtCaret => buf.boundaryRun = <<>>

Trusted == TrustedFlags /\ DecidedIsWhole /\ LostTaint

\* The hypothesis the first part of TrustedFlags puts on a buffer.
Vouches(b) ==
  ~b.poisoned /\ (b.contextClean \/ (b.keys # <<>> /\ b.wordClean))

LEMMA VouchedWord ==
  TrustedFlags /\ ~blind /\ Vouches(buf) => StartsWord(left, Len(buf.keys))
BY DEF TrustedFlags, Vouches

LEMMA Undecided ==
  ASSUME outcome' = InProgress \/ outcome' = Abandoned
  PROVE  DecidedIsWhole'
BY DEF DecidedIsWhole, InProgress, Abandoned

\* A step that leaves nothing tracked and does not know the context.
LEMMA UncleanStep ==
  ASSUME buf'.keys = <<>>, buf'.boundaryRun = <<>>, buf'.contextClean = FALSE,
         buf'.remainderAtCaret => buf'.poisoned, DecidedIsWhole'
  PROVE  Trusted'
BY DEF Trusted, TrustedFlags, LostTaint

\* A step that lands at the start of a word, or says in blind that it did
\* not, and leaves no taint.
LEMMA WordStartStep ==
  ASSUME buf'.poisoned = FALSE, buf'.remainderAtCaret = FALSE,
         ~blind' => StartsWord(left', Len(buf'.keys)), DecidedIsWhole'
  PROVE  Trusted'
BY DEF Trusted, TrustedFlags, LostTaint

\* A step that keeps the flags, the keys, the run and blind.
LEMMA SameTrustStep ==
  ASSUME Trusted, SameTrust(buf, buf'), buf'.keys = buf.keys,
         buf'.boundaryRun = buf.boundaryRun, blind' = blind,
         StartsWord(left, Len(buf.keys)) => StartsWord(left', Len(buf.keys)),
         DecidedIsWhole'
  PROVE  Trusted'
BY DEF Trusted, TrustedFlags, LostTaint, SameTrust

-----------------------------------------------------------------------------
LEMMA AfterSeparator ==
  ASSUME NEW t \in Seq(Char), NEW s \in Separator
  PROVE  /\ StartsWord(Append(t, s), 0)
         /\ \A m \in Nat : StartsWord(t, m) => StartsWord(Append(t, s), m + 1)
<1> DEFINE u == Append(t, s)
           n == Len(t)
<1>1. /\ n \in Nat /\ Len(u) = n + 1 /\ u[n + 1] = s
      /\ \A i \in 1..n : u[i] = t[i]
  OBVIOUS
<1> HIDE DEF u, n
<1>2. StartsWord(u, 0)
  BY <1>1 DEF StartsWord
<1>3. ASSUME NEW m \in Nat, StartsWord(t, m)
      PROVE  StartsWord(u, m + 1)
  <2>1. CASE m < n
    <3>1. n - m \in 1..n /\ n + 1 - (m + 1) = n - m
      BY <1>1, <2>1
    <3>2. QED
      BY <1>1, <1>3, <2>1, <3>1 DEF StartsWord, n
  <2>2. CASE ~(m < n)
    BY <1>1, <2>2 DEF StartsWord
  <2>3. QED
    BY <2>1, <2>2
<1>4. QED
  BY <1>2, <1>3 DEF u

\* The outcome of a boundary, judged against the text it was typed into.
LEMMA DecisionIsWhole ==
  ASSUME Synced, Trusted, NEW s \in Separator, buf.keys # <<>>,
         left' = Append(left, s), outcome' = WordCompleted(buf)
  PROVE  DecidedIsWhole'
<1>1. left \in Seq(Char) /\ Len(buf.keys) \in Nat
  BY DEF Synced, TypeOK, Buffer
<1>2. /\ outcome'.tainted = Tainted(buf)
      /\ outcome'.startedClean = buf.wordClean
      /\ outcome'.length = Len(buf.keys) /\ outcome'.blind = blind
  BY DEF WordCompleted
<1>3. ASSUME ~outcome'.tainted, outcome'.startedClean, ~outcome'.blind
      PROVE  StartsWord(left', outcome'.length + 1)
  <2>1. Vouches(buf) /\ ~blind
    BY <1>2, <1>3 DEF Vouches, Tainted
  <2>2. StartsWord(left, Len(buf.keys))
    BY <2>1, VouchedWord DEF Trusted
  <2>3. QED
    BY <1>1, <1>2, <2>2, AfterSeparator
<1>4. QED
  BY <1>3 DEF DecidedIsWhole

LEMMA InitTrusted == Init => Trusted
<1> SUFFICES ASSUME Init PROVE Trusted
  OBVIOUS
<1>1. /\ buf.keys = <<>> /\ ~buf.poisoned /\ ~buf.remainderAtCaret
      /\ ~blind => StartsWord(left, 0)
  BY FreshFields DEF Init, Holds, AtWordStart
<1>2. Len(buf.keys) = 0
  BY <1>1
<1>3. TrustedFlags
  BY <1>1, <1>2 DEF TrustedFlags
<1>4. QED
  BY <1>1, <1>3 DEF Init, Trusted, LostTaint, DecidedIsWhole, InProgress

LEMMA TypeLetterTrusted ==
  ASSUME Synced, Trusted, NEW k \in Letter, TypeLetter(k)
  PROVE  Trusted'
<1>1. /\ buf \in Buffer /\ left \in Seq(Char) /\ Tracks(buf, left)
      /\ buf' = FeedWord(buf, k) /\ left' = Append(left, k) /\ blind' = blind
      /\ DecidedIsWhole'
  BY Undecided DEF Synced, TypeOK, ScreenSuffix, TypeLetter
<1>2. /\ buf'.boundaryRun = buf.boundaryRun
      /\ buf'.poisoned = buf.poisoned
      /\ buf'.remainderAtCaret = buf.remainderAtCaret
      /\ buf'.contextClean = buf.contextClean
      /\ buf'.wordClean = IF buf.keys = <<>> THEN buf.contextClean
                                             ELSE buf.wordClean
  BY <1>1, FeedWordFields DEF Holds
<1>3. StartsWord(left, Len(buf.keys)) => StartsWord(left', Len(buf'.keys))
  BY <1>1, TracksLetter
<1>4. QED
  BY <1>1, <1>2, <1>3 DEF Trusted, TrustedFlags, LostTaint

LEMMA TypeSeparatorTrusted ==
  ASSUME Synced, Trusted, NEW s \in Separator, TypeSeparator(s)
  PROVE  Trusted'
<1>1. /\ buf \in Buffer /\ left \in Seq(Char) /\ left' = Append(left, s)
      /\ buf' = FeedBoundary(buf, s)
      /\ outcome' = IF buf.keys = <<>> THEN InProgress ELSE WordCompleted(buf)
      /\ buf.prevLead # NoKey => buf.prevWord # <<>>
  BY DEF Synced, TypeOK, StashShape, TypeSeparator
<1>2. /\ buf'.keys = <<>>
      /\ buf'.poisoned = FALSE /\ buf'.remainderAtCaret = FALSE
  BY <1>1, FeedBoundaryFields DEF Holds
<1>3. StartsWord(left', 0) /\ Len(buf'.keys) = 0
  BY <1>1, <1>2, AfterSeparator
<1>4. DecidedIsWhole'
  BY <1>1, Undecided, DecisionIsWhole
<1>5. QED
  BY <1>2, <1>3, <1>4, WordStartStep

LEMMA TapBackspaceTrusted ==
  ASSUME Synced, Trusted, TapBackspace
  PROVE  Trusted'
<1>1. /\ buf \in Buffer /\ left \in Seq(Char) /\ Tracks(buf, left)
      /\ buf' = FeedBackspace(buf) /\ left' = RubOut(left)
      /\ buf.prevWord # <<>> => buf.boundaryRun # <<>>
      /\ blind' = (blind \/ (buf.keys = <<>> /\ ~StartsWord(left', Len(buf'.keys))))
  BY DEF Synced, TypeOK, ScreenSuffix, StashShape, TapBackspace
<1>2. DecidedIsWhole'
  BY Undecided DEF TapBackspace
<1>3. CASE buf.keys # <<>>
  <2>1. SameTrust(buf, buf') /\ buf'.boundaryRun = buf.boundaryRun
    BY <1>1, <1>3, PopKeyFields DEF Holds
  <2>2. StartsWord(left, Len(buf.keys)) => StartsWord(left', Len(buf'.keys))
    BY <1>1, <1>3, TracksBackspace
  <2>3. blind' = blind
    BY <1>1, <1>3 DEF Synced, TypeOK
  <2>4. QED
    BY <1>2, <1>3, <2>1, <2>2, <2>3
       DEF Trusted, TrustedFlags, LostTaint, SameTrust
<1>4. CASE buf.keys = <<>> /\ buf.boundaryRun # <<>>
  <2>1. /\ buf'.poisoned = buf.poisoned
        /\ buf'.remainderAtCaret = buf.remainderAtCaret
    BY <1>1, <1>4, PopSeparatorFields
  <2>2. ~blind' => StartsWord(left', Len(buf'.keys))
    BY <1>1, <1>4
  <2>3. ~buf.poisoned \/ buf.remainderAtCaret
    BY <1>4 DEF Trusted, LostTaint
  <2>4. QED
    BY <1>2, <2>1, <2>2, <2>3 DEF Trusted, TrustedFlags, LostTaint
<1>5. CASE buf.keys = <<>> /\ buf.boundaryRun = <<>>
  <2>1. buf'.poisoned = FALSE /\ buf'.remainderAtCaret = FALSE
    BY <1>1, <1>5, PopUnseenFields
  <2>2. ~blind' => StartsWord(left', Len(buf'.keys))
    BY <1>1, <1>5
  <2>3. QED
    BY <1>2, <2>1, <2>2, WordStartStep
<1>6. QED
  BY <1>3, <1>4, <1>5

LEMMA HoldBackspaceTrusted ==
  ASSUME Synced, Trusted, HoldBackspace
  PROVE  Trusted'
<1>1. buf \in Buffer /\ buf' = FeedHeldBackspace(buf) /\ DecidedIsWhole'
  BY Undecided DEF Synced, TypeOK, HoldBackspace
<1>2. buf'.keys = <<>> /\ buf'.boundaryRun = <<>> /\ buf'.contextClean = FALSE
  <2>1. CASE buf.keys # <<>> \/ buf.boundaryRun # <<>>
    <3>1. Holds(buf', <<>>, <<>>, <<>>) /\ buf'.contextClean = FALSE
      BY <1>1, <2>1, HeldBackspaceFields
    <3>2. QED
      BY <3>1 DEF Holds
  <2>2. CASE buf.keys = <<>> /\ buf.boundaryRun = <<>>
    <3>1. Holds(buf', buf.keys, buf.prevWord, buf.boundaryRun)
          /\ buf'.contextClean = FALSE
      BY <1>1, <2>2, HeldBackspaceFields
    <3>2. QED
      BY <2>2, <3>1 DEF Holds
  <2>3. QED
    BY <2>1, <2>2
<1>3. buf'.poisoned
      \/ (buf'.poisoned = buf.poisoned
          /\ buf'.remainderAtCaret = buf.remainderAtCaret)
  BY <1>1, HeldBackspaceFields
<1>4. buf'.remainderAtCaret => buf'.poisoned
  BY <1>3 DEF Trusted, TrustedFlags
<1>5. QED
  BY <1>1, <1>2, <1>4, UncleanStep

LEMMA MoveCaretTrusted ==
  ASSUME Synced, Trusted, MoveCaret
  PROVE  Trusted'
<1>1. buf \in Buffer /\ buf' = FeedEndAndDiscard(buf) /\ DecidedIsWhole'
  BY Undecided DEF Synced, TypeOK, MoveCaret
<1>2. /\ buf'.keys = <<>> /\ buf'.boundaryRun = <<>>
      /\ buf'.contextClean = FALSE /\ buf'.remainderAtCaret = FALSE
  BY <1>1, EndAndDiscardFields DEF Holds
<1>3. QED
  BY <1>1, <1>2, UncleanStep

LEMMA WordDeleteTrusted ==
  ASSUME Synced, Trusted, WordDelete
  PROVE  Trusted'
<1>1. buf \in Buffer /\ buf' = DeleteWordLeft(buf) /\ DecidedIsWhole'
  BY Undecided DEF Synced, TypeOK, WordDelete
<1>2. /\ buf'.keys = <<>> /\ buf'.boundaryRun = <<>>
      /\ buf'.contextClean = FALSE /\ buf'.remainderAtCaret = FALSE
  BY <1>1, DeleteWordLeftFields DEF Holds
<1>3. QED
  BY <1>1, <1>2, UncleanStep

LEMMA ShortcutTrusted ==
  ASSUME Synced, Trusted, Shortcut
  PROVE  Trusted'
<1>1. /\ buf \in Buffer /\ buf' = MarkContextUnclean(Abandon(buf))
      /\ DecidedIsWhole'
  BY Undecided DEF Synced, TypeOK, Shortcut
<1>2. /\ buf'.keys = <<>> /\ buf'.boundaryRun = <<>>
      /\ buf'.contextClean = FALSE
      /\ buf'.poisoned = (buf.poisoned \/ buf.keys # <<>>)
      /\ buf'.remainderAtCaret = (buf.remainderAtCaret \/ buf.keys # <<>>)
  BY <1>1, ShortcutFields DEF Holds
<1>3. buf'.remainderAtCaret => buf'.poisoned
  BY <1>2 DEF Trusted, TrustedFlags
<1>4. QED
  BY <1>1, <1>2, <1>3, UncleanStep

LEMMA IdleGapTrusted ==
  ASSUME Synced, Trusted, IdleGap
  PROVE  Trusted'
<1>1. /\ buf \in Buffer /\ buf' = Abandon(buf) /\ left' = left /\ blind' = blind
      /\ DecidedIsWhole'
  BY Undecided DEF Synced, TypeOK, IdleGap
<1>2. /\ buf'.keys = <<>> /\ buf'.boundaryRun = <<>>
      /\ buf'.poisoned = (buf.poisoned \/ buf.keys # <<>>)
      /\ buf'.remainderAtCaret = (buf.remainderAtCaret \/ buf.keys # <<>>)
      /\ buf'.contextClean = buf.contextClean
  BY <1>1, AbandonFields DEF Holds
<1>3. QED
  BY <1>1, <1>2 DEF Trusted, TrustedFlags, LostTaint

LEMMA SettleWordTrusted ==
  ASSUME Synced, Trusted, SettleWord
  PROVE  Trusted'
<1>1. CASE buf' = Settle(buf) /\ outcome' = InProgress /\ UNCHANGED <<left, blind>>
  <2>1. buf \in Buffer /\ left' = left /\ blind' = blind /\ DecidedIsWhole'
    BY <1>1, Undecided DEF Synced, TypeOK
  <2>2. /\ SameTrust(buf, buf') /\ buf'.keys = buf.keys
        /\ buf'.boundaryRun = buf.boundaryRun
    BY <1>1, <2>1, SettleFields DEF Holds
  <2>3. QED
    BY <2>1, <2>2, SameTrustStep
<1>2. ASSUME NEW s \in Separator, buf.keys # <<>>, left' = Append(left, s),
             buf' = Settle(FeedBoundary(buf, s)), outcome' = WordCompleted(buf)
      PROVE  Trusted'
  <2> DEFINE f == FeedBoundary(buf, s)
  <2>1. buf \in Buffer /\ left \in Seq(Char)
        /\ (buf.prevLead # NoKey => buf.prevWord # <<>>)
    BY DEF Synced, TypeOK, StashShape
  <2>2. f \in Buffer /\ f.keys = <<>> /\ f.poisoned = FALSE
        /\ f.remainderAtCaret = FALSE
    BY <2>1, FeedBoundaryFields DEF Holds
  <2> HIDE DEF f
  <2>3. buf' = Settle(f)
    BY <1>2 DEF f
  <2>4. buf'.keys = <<>> /\ buf'.poisoned = FALSE /\ buf'.remainderAtCaret = FALSE
    BY <2>2, <2>3, SettleFields DEF Holds, SameTrust
  <2>5. StartsWord(left', 0) /\ Len(buf'.keys) = 0
    BY <1>2, <2>1, <2>4, AfterSeparator
  <2>6. DecidedIsWhole'
    BY <1>2, DecisionIsWhole
  <2>7. QED
    BY <2>4, <2>5, <2>6, WordStartStep
<1>3. QED
  BY <1>1, <1>2 DEF SettleWord

LEMMA PoisonWordTrusted ==
  ASSUME Synced, Trusted, PoisonWord
  PROVE  Trusted'
<1>1. buf \in Buffer /\ buf' = Poison(buf) /\ DecidedIsWhole'
  BY Undecided DEF Synced, TypeOK, PoisonWord
<1>2. buf'.poisoned = TRUE /\ buf'.remainderAtCaret = TRUE
  BY <1>1, PoisonFields
<1>3. QED
  BY <1>1, <1>2 DEF Trusted, TrustedFlags, LostTaint

LEMMA AcceptSuggestionTrusted ==
  ASSUME Synced, Trusted, NEW w \in Words, AcceptSuggestion(w)
  PROVE  Trusted'
<1> DEFINE n == Len(left')
           k == Len(buf.keys)
           r == Len(buf.boundaryRun)
<1>1. /\ buf \in Buffer /\ w \in Seq(Letter) /\ buf' = ReplaceCompleted(buf, w)
      /\ buf.boundaryRun \in Seq(Separator) /\ buf.boundaryRun # <<>>
      /\ blind' = blind /\ DecidedIsWhole'
  BY Undecided, TextAssumption
     DEF Synced, TypeOK, StashShape, AcceptSuggestion, Buffer
<1>2. /\ SameTrust(buf, buf') /\ buf'.keys = buf.keys
      /\ buf'.boundaryRun = buf.boundaryRun \/ buf'.boundaryRun = <<>>
  <2>1. CASE w = <<>>
    <3>1. buf' = ForgetCompleted(buf)
      BY <1>1, <2>1 DEF ReplaceCompleted
    <3>2. QED
      BY <1>1, <3>1, ForgetFields DEF Holds
  <2>2. CASE w # <<>>
    BY <1>1, <2>2, ReplaceFields DEF Holds
  <2>3. QED
    BY <2>1, <2>2
<1>3. n - k \in Nat /\ EndsAt(left', n - k, buf.boundaryRun)
  BY AcceptedText
<1>4. r \in Nat /\ r # 0 /\ buf.boundaryRun[r] \in Separator
  BY <1>1
<1>5. left'[n - k] \in Separator
  <2> HIDE DEF n, k
  <2>1. r \in 1..r /\ n - k - r + r = n - k
    BY <1>3, <1>4
  <2>2. left'[n - k - r + r] = buf.boundaryRun[r]
    BY <1>3, <2>1 DEF EndsAt
  <2>3. QED
    BY <1>4, <2>1, <2>2
<1>6. StartsWord(left', k)
  BY <1>5 DEF StartsWord
<1>7. QED
  BY <1>1, <1>2, <1>6 DEF Trusted, TrustedFlags, LostTaint, SameTrust

LEMMA SmartCommandTrusted ==
  ASSUME Synced, Trusted, SmartCommand
  PROVE  Trusted'
<1>1. /\ buf \in Buffer /\ buf' = ForgetCompleted(buf) /\ buf.keys = <<>>
      /\ ~blind' => StartsWord(left', 0)
      /\ DecidedIsWhole'
  BY Undecided DEF Synced, TypeOK, SmartCommand, AtWordStart
<1>2. SameTrust(buf, buf') /\ buf'.keys = <<>> /\ buf'.boundaryRun = <<>>
  BY <1>1, ForgetFields DEF Holds
<1>3. Len(buf'.keys) = 0
  BY <1>2
<1>4. QED
  BY <1>1, <1>2, <1>3 DEF Trusted, TrustedFlags, LostTaint, SameTrust

LEMMA SettingsReloadedTrusted ==
  ASSUME Synced, Trusted, SettingsReloaded
  PROVE  Trusted'
<1>1. /\ buf' = FreshBuffer /\ DecidedIsWhole'
      /\ ~blind' => StartsWord(left', 0)
  BY Undecided DEF SettingsReloaded, AtWordStart
<1>2. /\ buf'.keys = <<>> /\ buf'.poisoned = FALSE
      /\ buf'.remainderAtCaret = FALSE
  BY <1>1 DEF FreshBuffer
<1>3. Len(buf'.keys) = 0
  BY <1>2
<1>4. QED
  BY <1>1, <1>2, <1>3, WordStartStep

LEMMA StutterTrusted ==
  ASSUME Trusted, UNCHANGED vars
  PROVE  Trusted'
<1>1. buf' = buf /\ left' = left /\ outcome' = outcome /\ blind' = blind
  BY DEF vars
<1>2. QED
  BY <1>1 DEF Trusted, TrustedFlags, DecidedIsWhole, LostTaint

THEOREM TrustedInvariant == Spec => []Trusted
<1>1. Synced /\ Trusted /\ [Next]_vars => Trusted'
  <2> SUFFICES ASSUME Synced, Trusted, [Next]_vars PROVE Trusted'
    OBVIOUS
  <2>1. CASE \E k \in Letter : TypeLetter(k)
    BY <2>1, TypeLetterTrusted
  <2>2. CASE \E s \in Separator : TypeSeparator(s)
    BY <2>2, TypeSeparatorTrusted
  <2>3. CASE TapBackspace
    BY <2>3, TapBackspaceTrusted
  <2>4. CASE HoldBackspace
    BY <2>4, HoldBackspaceTrusted
  <2>5. CASE MoveCaret
    BY <2>5, MoveCaretTrusted
  <2>6. CASE WordDelete
    BY <2>6, WordDeleteTrusted
  <2>7. CASE Shortcut
    BY <2>7, ShortcutTrusted
  <2>8. CASE IdleGap
    BY <2>8, IdleGapTrusted
  <2>9. CASE SettleWord
    BY <2>9, SettleWordTrusted
  <2>10. CASE PoisonWord
    BY <2>10, PoisonWordTrusted
  <2>11. CASE \E w \in Words : AcceptSuggestion(w)
    BY <2>11, AcceptSuggestionTrusted
  <2>12. CASE SmartCommand
    BY <2>12, SmartCommandTrusted
  <2>13. CASE SettingsReloaded
    BY <2>13, SettingsReloadedTrusted
  <2>14. CASE UNCHANGED vars
    BY <2>14, StutterTrusted
  <2>15. QED
    BY <2>1, <2>2, <2>3, <2>4, <2>5, <2>6, <2>7, <2>8, <2>9, <2>10, <2>11,
       <2>12, <2>13, <2>14 DEF Next
<1>2. QED
  BY InitTrusted, SyncedInvariant, <1>1, PTL DEF Spec

\* The trust flags are worth what the engine takes them for.
THEOREM FlagsAreTrue == Spec => []TrustedFlags
<1>1. Trusted => TrustedFlags
  BY DEF Trusted
<1>2. QED
  BY TrustedInvariant, <1>1, PTL

\* A word decided on as a whole is the whole word on the screen.
THEOREM DecisionsAreWhole == Spec => []DecidedIsWhole
<1>1. Trusted => DecidedIsWhole
  BY DEF Trusted
<1>2. QED
  BY TrustedInvariant, <1>1, PTL

\* So is a word the manual hotkey converts in place.
THEOREM ConversionsAreWhole == Spec => []ConvertedIsWhole
<1>1. Trusted => ConvertedIsWhole
  <2> SUFFICES ASSUME Trusted, buf.keys # <<>>, ~buf.remainderAtCaret,
                      buf.wordClean, ~blind
               PROVE  StartsWord(left, Len(buf.keys))
    BY DEF ConvertedIsWhole
  <2>1. ~buf.poisoned
    BY DEF Trusted, TrustedFlags
  <2>2. QED
    BY <2>1, VouchedWord DEF Trusted, Vouches
<1>2. QED
  BY TrustedInvariant, <1>1, PTL

-----------------------------------------------------------------------------
(***************************************************************************)
(* The stash of the manual hotkey.                                         *)
(*                                                                         *)
(* StashOnScreen is not inductive: whether the stash stands at the caret   *)
(* follows, while the buffer holds a completed word, from the buffer's own *)
(* model of the screen (the stash is that word), and only without one from *)
(* a distance, the run behind the stash (StashPlace).  Everything is       *)
(* relative to no slip having happened, which no step undoes.              *)
(***************************************************************************)
StashPlace ==
  last # NoStash /\ buf.keys = <<>> =>
    IF buf.prevWord # <<>>
    THEN last.keys = buf.prevWord /\ last.boundary = buf.boundaryRun[1]
    ELSE EndsAt(left, Len(left) - Len(buf.boundaryRun), StashText(last))

\* A word completed by the last key is followed by that key only.
JustCompleted ==
  outcome.kind = "WordCompleted" /\ buf.prevWord # <<>> => Len(buf.boundaryRun) = 1

InPlace ==
  /\ Synced /\ last \in Stash \cup {NoStash} /\ byEngine \in BOOLEAN
  /\ StashPlace /\ JustCompleted

Placed == slips = {} => InPlace

-----------------------------------------------------------------------------
(* Sequences at the end of a text. *)

LEMMA NotEmpty ==
  ASSUME NEW S, NEW q \in Seq(S), q # <<>>
  PROVE  Len(q) \in Nat /\ Len(q) # 0
OBVIOUS

LEMMA KeepAll ==
  ASSUME NEW t \in Seq(Char)
  PROVE  Keep(t, Len(t)) = t
<1>1. Len(t) \in Nat /\ Len(t) \in 0..Len(t)
  OBVIOUS
<1>2. /\ Keep(t, Len(t)) \in Seq(Char) /\ Len(Keep(t, Len(t))) = Len(t)
      /\ \A i \in 1..Len(t) : Keep(t, Len(t))[i] = t[i]
  BY <1>1, KeepFields
<1>3. QED
  BY <1>2, SeqEqual

LEMMA StashTextIsText ==
  ASSUME NEW w \in Stash
  PROVE  /\ StashText(w) \in Seq(Char)
         /\ w.boundary = NoKey => StashText(w) = w.keys
         /\ w.boundary # NoKey => StashText(w) = w.keys \o <<w.boundary>>
                                  /\ <<w.boundary>> \in Seq(Separator)
<1>1. w.keys \in Seq(Letter) /\ w.keys \in Seq(Char) /\ w.boundary \in Separator \cup {NoKey}
  BY KeysAreText DEF Stash
<1>2. CASE w.boundary = NoKey
  <2>1. StashText(w) = w.keys \o <<>>
    BY <1>2 DEF StashText
  <2>2. QED
    BY <1>1, <1>2, <2>1, ConcatEmptySeq
<1>3. CASE w.boundary # NoKey
  <2>1. StashText(w) = w.keys \o <<w.boundary>> /\ w.boundary \in Separator
    BY <1>1, <1>3 DEF StashText
  <2>2. <<w.boundary>> \in Seq(Separator) /\ <<w.boundary>> \in Seq(Char)
    BY <2>1 DEF Char
  <2>3. QED
    BY <1>1, <1>3, <2>1, <2>2, ConcatProperties
<1>4. QED
  BY <1>2, <1>3

-----------------------------------------------------------------------------
(* What the stash says of the text. *)

LEMMA AtStashEnds ==
  ASSUME Synced, last \in Stash, last # NoStash, StashPlace, AtStash
  PROVE  EndsAt(left, Len(left), StashText(last))
<1>1. /\ buf \in Buffer /\ left \in Seq(Char) /\ Tracks(buf, left)
      /\ buf.prevWord # <<>> => buf.boundaryRun # <<>>
  BY DEF Synced, TypeOK, ScreenSuffix, StashShape
<1>2. /\ buf.keys \in Seq(Letter) /\ buf.prevWord \in Seq(Letter)
      /\ buf.boundaryRun \in Seq(Separator) /\ Len(left) \in Nat
      /\ Len(buf.keys) \in Nat /\ Len(buf.boundaryRun) \in Nat
      /\ Len(buf.boundaryRun) <= Len(left) - Len(buf.keys)
  BY <1>1, Lengths
<1>3. CASE buf.keys = <<>> /\ buf.boundaryRun = <<>>
  <2>1. buf.prevWord = <<>> /\ Len(buf.boundaryRun) = 0
    BY <1>1, <1>3
  <2>2. Len(left) - Len(buf.boundaryRun) = Len(left)
    BY <1>2, <2>1
  <2>3. QED
    BY <1>3, <2>1, <2>2 DEF StashPlace
<1>4. CASE /\ buf.keys = <<>> /\ Len(buf.boundaryRun) = 1
           /\ buf.prevWord # <<>> /\ last.boundary # NoKey
  <2>1. last.keys = buf.prevWord /\ last.boundary = buf.boundaryRun[1]
    BY <1>4 DEF StashPlace
  <2>2. <<last.boundary>> = buf.boundaryRun
    BY <1>2, <1>4, <2>1
  <2>3. StashText(last) = buf.prevWord \o buf.boundaryRun
    BY <1>4, <2>1, <2>2, StashTextIsText
  <2>4. EndsAt(left, Len(left), buf.boundaryRun)
        /\ EndsAt(left, Len(left) - Len(buf.boundaryRun), buf.prevWord)
    <3>1. Len(buf.keys) = 0
      BY <1>4
    <3>2. /\ EndsAt(left, Len(left) - Len(buf.keys), buf.boundaryRun)
          /\ EndsAt(left, Len(left) - Len(buf.keys) - Len(buf.boundaryRun), buf.prevWord)
      BY <1>1 DEF Tracks
    <3>3. Len(left) - Len(buf.keys) = Len(left)
      BY <1>2, <3>1
    <3>4. QED
      BY <3>2, <3>3
  <2>5. buf.prevWord \in Seq(Char) /\ buf.boundaryRun \in Seq(Char)
    BY <1>2, KeysAreText
  <2>6. QED
    BY <1>2, <2>3, <2>4, <2>5, EndsJoined
<1>5. CASE buf.keys = last.keys /\ last.boundary = NoKey
  <2>1. StashText(last) = buf.keys
    BY <1>5, StashTextIsText
  <2>2. QED
    BY <1>1, <2>1 DEF Tracks
<1>6. QED
  BY <1>3, <1>4, <1>5 DEF AtStash

LEMMA ReachableIsAt ==
  ASSUME Synced, last \in Stash, StashPlace, StashReachable
  PROVE  AtStash
<1>1. buf.boundaryRun \in Seq(Separator) /\ Len(buf.boundaryRun) \in Nat
  BY DEF Synced, TypeOK, Buffer
<1>2. CASE buf.boundaryRun = <<>>
  BY <1>2 DEF StashReachable, AtStash
<1>3. CASE buf.boundaryRun # <<>>
  <2>1. Len(buf.boundaryRun) = 1 /\ buf.prevWord # <<>> /\ buf.keys = <<>>
    <3> DEFINE r == Len(buf.boundaryRun)
    <3>1. r \in Nat /\ r # 0
      BY <1>1, <1>3, NotEmpty
    <3>2. r <= 1 /\ buf.prevWord # <<>> /\ buf.keys = <<>>
      BY <1>3 DEF StashReachable
    <3> HIDE DEF r
    <3>3. r = 1
      BY <3>1, <3>2
    <3>4. QED
      BY <3>2, <3>3 DEF r
  <2>2. last.boundary \in Separator
    BY <1>1, <2>1 DEF StashPlace, StashReachable
  <2>3. QED
    BY <2>1, <2>2, BufferAssumption DEF AtStash
<1>4. QED
  BY <1>2, <1>3

LEMMA ReachableIsLast ==
  ASSUME InPlace, StashReachable
  PROVE  EndsAt(left, Len(left), StashText(last)) /\ Replaced(last) = left
<1>1. last \in Stash /\ last # NoStash /\ Synced /\ StashPlace
  BY DEF InPlace, StashReachable
<1>2. EndsAt(left, Len(left), StashText(last))
  BY <1>1, ReachableIsAt, AtStashEnds
<1>3. StashText(last) \in Seq(Char) /\ left \in Seq(Char)
  BY <1>1, StashTextIsText DEF Synced, TypeOK
<1>4. Len(StashText(last)) <= Len(left) /\ Len(StashText(last)) \in Nat /\ Len(left) \in Nat
  BY <1>2, <1>3 DEF EndsAt
<1>5. Replaced(last) = Keep(left, Len(left) - Len(StashText(last))) \o StashText(last)
  BY <1>4, SMTT(30) DEF Replaced
<1>6. QED
  BY <1>2, <1>3, <1>5, EndRetyped

-----------------------------------------------------------------------------
(* What a boundary leaves behind an untainted word, and in an empty buffer. *)

LEMMA CompletedWord ==
  ASSUME NEW b \in Buffer, NEW s \in Separator, b.keys # <<>>, ~Tainted(b)
  PROVE  Holds(FeedBoundary(b, s), <<>>, b.keys, <<s>>)
<1> DEFINE r == Resync(b, s)
           c == [r EXCEPT !.keys = <<>>, !.prevWord = b.keys,
                          !.prevClean = b.wordClean,
                          !.prevLead = b.lead, !.boundaryRun = <<s>>]
<1>1. r \in Buffer
  BY ResyncFields DEF Holds
<1>2. FeedBoundary(b, s) = c
  BY DEF FeedBoundary, CompleteWord
<1> HIDE DEF r
<1>3. <<s>> \in Seq(Separator) /\ b.keys \in Seq(Letter) /\ <<>> \in Seq(Letter)
      /\ b.lead \in Separator \cup {NoKey} /\ b.wordClean \in BOOLEAN
  BY EmptySeqs DEF Buffer
<1>4. c \in Buffer /\ c.keys = <<>> /\ c.prevWord = b.keys /\ c.boundaryRun = <<s>>
  BY <1>1, <1>3 DEF Buffer
<1>5. QED
  BY <1>2, <1>4 DEF Holds

LEMMA FirstOfRun ==
  ASSUME NEW b \in Buffer, NEW s \in Separator,
         b.keys = <<>>, b.prevWord = <<>>, b.boundaryRun = <<>>
  PROVE  Holds(FeedBoundary(b, s), <<>>, <<>>, <<s>>)
<1> DEFINE r == Resync(b, s)
           c == [r EXCEPT !.boundaryRun = <<s>>]
<1>1. /\ r \in Buffer /\ r.keys = <<>> /\ r.prevWord = <<>> /\ r.boundaryRun = <<>>
  BY ResyncFields DEF Holds
<1>2. Len(b.boundaryRun) < MaxRun /\ Append(b.boundaryRun, s) = <<s>>
  BY BufferAssumption
<1>3. FeedBoundary(b, s) = [r EXCEPT !.boundaryRun = Append(r.boundaryRun, s)]
  BY <1>2 DEF FeedBoundary, ExtendRun
<1> HIDE DEF r
<1>4. FeedBoundary(b, s) = c
  BY <1>1, <1>3
<1>5. <<s>> \in Seq(Separator)
  OBVIOUS
<1>6. QED
  BY <1>1, <1>4, <1>5, SetRun

-----------------------------------------------------------------------------
(* The kinds of steps. *)

LEMMA NotCompleted ==
  /\ InProgress.kind # "WordCompleted" /\ Abandoned.kind # "WordCompleted"
  /\ InProgress.kind # "Abandoned" /\ Abandoned.kind = "Abandoned"
BY DEF InProgress, Abandoned

LEMMA Dropped ==
  ASSUME Synced', DropStash, JustCompleted'
  PROVE  InPlace'
BY DEF InPlace, DropStash, StashPlace

\* A word is under the caret: the stash is out of reach.
LEMMA WordUnderCaret ==
  ASSUME Synced', last' \in Stash \cup {NoStash}, byEngine' \in BOOLEAN,
         buf'.keys # <<>>, outcome' = InProgress
  PROVE  InPlace'
BY NotCompleted DEF InPlace, StashPlace, JustCompleted

\* The buffer forgets everything in front of a text that does not change.
LEMMA Blanked ==
  ASSUME InPlace, Synced', KeepStash, left' = left, last # NoStash => AtStash,
         Holds(buf', <<>>, <<>>, <<>>), outcome' = InProgress
  PROVE  InPlace'
<1>1. ASSUME last # NoStash
      PROVE  EndsAt(left', Len(left') - Len(buf'.boundaryRun), StashText(last'))
  <2>1. EndsAt(left, Len(left), StashText(last))
    BY <1>1, AtStashEnds DEF InPlace
  <2>2. Len(left) \in Nat /\ Len(buf'.boundaryRun) = 0
    BY DEF InPlace, Synced, TypeOK, Holds
  <2>3. Len(left') - Len(buf'.boundaryRun) = Len(left)
    BY <2>2
  <2>4. QED
    BY <2>1, <2>3 DEF KeepStash
<1>2. StashPlace'
  BY <1>1 DEF StashPlace, Holds, KeepStash
<1>3. QED
  BY <1>2, NotCompleted DEF InPlace, KeepStash, JustCompleted

-----------------------------------------------------------------------------
(* One lemma per action. *)

LEMMA LettersPlaced ==
  ASSUME InPlace, NEW k \in Letter, Letters(k)
  PROVE  InPlace'
<1>1. Synced' /\ outcome' = InProgress /\ buf' = FeedWord(buf, k) /\ buf \in Buffer
  BY TypeLetterSynced DEF Letters, InPlace, TypeLetter, Synced, TypeOK
<1>2. buf'.keys = Append(buf.keys, k) /\ buf.keys \in Seq(Letter)
  BY <1>1, FeedWordFields DEF Holds, Buffer
<1>3. buf'.keys # <<>>
  BY <1>2
<1>4. QED
  BY <1>1, <1>3, WordUnderCaret DEF Letters, KeepStash, InPlace

LEMMA WordCompletedPlaced ==
  ASSUME InPlace, NEW s \in Separator, Separators(s), buf.keys # <<>>
  PROVE  InPlace'
<1>1. /\ Synced' /\ buf' = FeedBoundary(buf, s) /\ buf \in Buffer
      /\ buf.keys \in Seq(Letter) /\ StashCompleted(buf, s)
      /\ buf.prevLead # NoKey => buf.prevWord # <<>>
  BY TypeSeparatorSynced
     DEF Separators, InPlace, TypeSeparator, Synced, TypeOK, Buffer, StashShape
<1>2. JustCompleted'
  <2>1. Holds(buf', <<>>, <<>>, <<>>) \/ Holds(buf', <<>>, buf.keys, <<s>>)
    BY <1>1, FeedBoundaryFields
  <2>2. Len(<<s>>) = 1
    OBVIOUS
  <2>3. QED
    BY <2>1, <2>2 DEF JustCompleted, Holds
<1>3. CASE Tainted(buf)
  BY <1>1, <1>2, <1>3, Dropped DEF StashCompleted
<1>4. CASE ~Tainted(buf)
  <2>1. PICK c \in BOOLEAN :
          last' = [keys |-> buf.keys, boundary |-> s, corrected |-> c, placed |-> FALSE]
    BY <1>1, <1>4 DEF StashCompleted
  <2>2. last' \in Stash /\ last'.keys = buf.keys /\ last'.boundary = s
        /\ last'.corrected \in BOOLEAN
    BY <1>1, <2>1 DEF Stash
  <2>3. byEngine' \in BOOLEAN
    BY <1>1, <1>4, <2>2 DEF StashCompleted
  <2>4. Holds(buf', <<>>, buf.keys, <<s>>)
    BY <1>1, <1>4, CompletedWord
  <2>5. StashPlace'
    BY <2>2, <2>4 DEF StashPlace, Holds
  <2>6. QED
    BY <1>1, <1>2, <2>2, <2>3, <2>5 DEF InPlace
<1>5. QED
  BY <1>3, <1>4

LEMMA RunExtendedPlaced ==
  ASSUME InPlace, NEW s \in Separator, Separators(s), buf.keys = <<>>, slips' = {}
  PROVE  InPlace'
<1>1. /\ Synced' /\ buf' = FeedBoundary(buf, s) /\ buf \in Buffer
      /\ left \in Seq(Char) /\ left' = Append(left, s) /\ Tracks(buf, left)
      /\ outcome' = InProgress /\ KeepStash
      /\ buf.prevLead # NoKey => buf.prevWord # <<>>
      /\ buf.prevWord # <<>> => buf.boundaryRun # <<>>
      /\ last # NoStash =>
           ~(buf.boundaryRun # <<>> /\ Len(buf'.boundaryRun) <= Len(buf.boundaryRun))
  BY TypeSeparatorSynced
     DEF Separators, InPlace, TypeSeparator, Synced, TypeOK, ScreenSuffix, StashShape, Slipped
<1>2. last' = last /\ byEngine' = byEngine
  BY <1>1 DEF KeepStash
<1> DEFINE n == Len(left)
           r == Len(buf.boundaryRun)
           a == Append(buf.boundaryRun, s)
<1>3. /\ n \in Nat /\ r \in Nat /\ r <= n - Len(buf.keys) /\ Len(buf.keys) = 0
      /\ buf.boundaryRun \in Seq(Separator)
  BY <1>1, Lengths
<1>4. Len(a) = r + 1 /\ (buf.boundaryRun # <<>> => a[1] = buf.boundaryRun[1])
  BY <1>3
<1>5. ASSUME last # NoStash
      PROVE  Holds(buf', <<>>, buf.prevWord, a)
  <2>1. CASE buf.boundaryRun = <<>>
    BY <1>1, <2>1, FirstOfRun
  <2>2. CASE buf.boundaryRun # <<>>
    <3>1. ~Holds(buf', <<>>, <<>>, <<>>)
      <4>1. Len(<<>>) <= r
        BY <1>3
      <4>2. QED
        BY <1>1, <1>5, <2>2, <4>1 DEF Holds
    <3>2. ~Holds(buf', <<>>, <<>>, Append(Tail(buf.boundaryRun), s))
      <4>1. Len(Append(Tail(buf.boundaryRun), s)) <= r
        BY <1>3, <2>2
      <4>2. QED
        BY <1>1, <1>5, <2>2, <4>1 DEF Holds
    <3>3. QED
      BY <1>1, <3>1, <3>2, FeedBoundaryFields
  <2>3. QED
    BY <2>1, <2>2
<1>6. ASSUME last # NoStash
      PROVE  IF buf'.prevWord # <<>>
             THEN last'.keys = buf'.prevWord /\ last'.boundary = buf'.boundaryRun[1]
             ELSE EndsAt(left', Len(left') - Len(buf'.boundaryRun), StashText(last'))
  <2>1. buf'.prevWord = buf.prevWord /\ buf'.boundaryRun = a
    BY <1>5, <1>6 DEF Holds
  <2>2. CASE buf.prevWord # <<>>
    BY <1>1, <1>2, <1>4, <1>6, <2>1, <2>2 DEF InPlace, StashPlace
  <2>3. CASE buf.prevWord = <<>>
    <3>1. EndsAt(left, n - r, StashText(last))
      BY <1>6, <2>3 DEF InPlace, StashPlace
    <3>2. StashText(last) \in Seq(Char)
      BY <1>6, StashTextIsText DEF InPlace
    <3>3. n - r \in 0..n /\ s \in Char /\ Len(left') = n + 1
      BY <1>1, <1>3 DEF Char
    <3>4. EndsAt(left', n - r, StashText(last))
      <4> HIDE DEF r
      <4>1. QED
        BY <1>1, <3>1, <3>2, <3>3, EndsInLonger
    <3>5. Len(left') - Len(buf'.boundaryRun) = n - r
      <4>1. Len(buf'.boundaryRun) = r + 1
        BY <1>4, <2>1
      <4> HIDE DEF n, r
      <4>2. QED
        BY <1>3, <3>3, <4>1
    <3>6. QED
      BY <1>2, <2>1, <2>3, <3>4, <3>5
  <2>4. QED
    BY <2>2, <2>3
<1>7. StashPlace'
  BY <1>2, <1>6 DEF StashPlace
<1>8. QED
  BY <1>1, <1>2, <1>7, NotCompleted DEF InPlace, JustCompleted

LEMMA BackspacesPlaced ==
  ASSUME InPlace, Backspaces, slips' = {}
  PROVE  InPlace'
<1>1. /\ Synced' /\ buf' = FeedBackspace(buf) /\ buf \in Buffer
      /\ left \in Seq(Char) /\ left' = RubOut(left) /\ Tracks(buf, left)
      /\ outcome' = IF buf.keys = <<>> /\ buf.boundaryRun = <<>>
                    THEN Abandoned ELSE InProgress
  BY TapBackspaceSynced
     DEF Backspaces, InPlace, TapBackspace, Synced, TypeOK, ScreenSuffix
<1>2. JustCompleted'
  BY <1>1, NotCompleted DEF JustCompleted
<1>3. CASE buf.keys = <<>> /\ buf.boundaryRun = <<>>
  <2>1. DropStash
    BY <1>1, <1>3, NotCompleted DEF Backspaces
  <2>2. QED
    BY <1>1, <1>2, <2>1, Dropped
<1>4. ASSUME buf.keys # <<>> \/ buf.boundaryRun # <<>>
      PROVE  /\ last' = last /\ byEngine' = byEngine /\ outcome' = InProgress
             /\ last # NoStash => ~(buf.keys # <<>> /\ buf'.keys = <<>>)
  BY <1>1, <1>4, NotCompleted DEF Backspaces, KeepStash, Slipped
<1>5. CASE last = NoStash /\ ~(buf.keys = <<>> /\ buf.boundaryRun = <<>>)
  BY <1>1, <1>2, <1>4, <1>5 DEF InPlace, StashPlace
<1>6. CASE last # NoStash /\ buf.keys # <<>>
  BY <1>1, <1>4, <1>6, WordUnderCaret DEF InPlace
<1>7. CASE last # NoStash /\ buf.keys = <<>> /\ buf.boundaryRun # <<>>
  <2> DEFINE n == Len(left)
             r == Len(buf.boundaryRun)
             run == SubSeq(buf.boundaryRun, 1, r - 1)
  <2>1. /\ n \in Nat /\ r \in Nat /\ r # 0 /\ r <= n /\ n # 0
        /\ buf.boundaryRun \in Seq(Separator)
    <3>1. /\ n \in Nat /\ r \in Nat /\ r <= n - Len(buf.keys) /\ Len(buf.keys) = 0
          /\ buf.boundaryRun \in Seq(Separator)
      BY <1>1, <1>7, Lengths
    <3>2. r # 0
      BY <1>7, <3>1
    <3>3. QED
      BY <3>1, <3>2
  <2>2. /\ left' = Keep(left, n - 1) /\ n - 1 \in 0..Len(left) /\ Len(left') = n - 1
    <3>1. left' = Keep(left, n - 1) /\ n - 1 \in 0..Len(left)
      BY <1>1, <2>1 DEF RubOut
    <3>2. QED
      BY <1>1, <3>1, KeepFields
  <2>3. Len(run) = r - 1 /\ (run # <<>> => run[1] = buf.boundaryRun[1])
    <3>1. run = Keep(buf.boundaryRun, r - 1) /\ r - 1 \in 0..Len(buf.boundaryRun)
      BY <2>1 DEF Keep
    <3> HIDE DEF run
    <3>2. /\ run \in Seq(Separator) /\ Len(run) = r - 1
          /\ \A i \in 1..r - 1 : run[i] = buf.boundaryRun[i]
      BY <2>1, <3>1, KeepFields
    <3>3. ASSUME run # <<>> PROVE 1 \in 1..r - 1
      <4>1. run \in Seq(Separator) /\ Len(run) = r - 1
        BY <3>2
      <4>2. Len(run) # 0
        BY <3>3, <4>1, NotEmpty
      <4> HIDE DEF r
      <4>3. QED
        BY <2>1, <4>1, <4>2
    <3>4. QED
      BY <3>2, <3>3
  <2>4. \/ run # <<>> /\ Holds(buf', <<>>, buf.prevWord, run)
        \/ run = <<>> /\ Holds(buf', buf.prevWord, <<>>, <<>>)
    BY <1>1, <1>7, PopSeparatorFields
  <2> HIDE DEF run
  <2>5. CASE buf.prevWord # <<>>
    <3>1. last.keys = buf.prevWord /\ last.boundary = buf.boundaryRun[1]
      BY <1>7, <2>5 DEF InPlace, StashPlace
    <3>2. StashPlace'
      BY <1>4, <1>7, <2>3, <2>4, <2>5, <3>1 DEF StashPlace, Holds
    <3>3. QED
      BY <1>1, <1>2, <1>4, <1>7, <3>2 DEF InPlace
  <2>6. CASE buf.prevWord = <<>>
    <3>1. EndsAt(left, n - r, StashText(last))
      BY <1>7, <2>6 DEF InPlace, StashPlace
    <3>2. StashText(last) \in Seq(Char)
      BY <1>7, StashTextIsText DEF InPlace
    <3>3. n - r \in 0..(n - 1)
      BY <2>1
    <3>4. EndsAt(left', n - r, StashText(last))
      <4> HIDE DEF r, n
      <4>1. n - 1 \in 0..Len(left)
        BY <2>2
      <4>2. EndsAt(Keep(left, n - 1), n - r, StashText(last))
        BY <1>1, <3>1, <3>2, <3>3, <4>1, EndsInShorter
      <4>3. QED
        BY <2>2, <4>2
    <3>5. buf'.prevWord = <<>> /\ buf'.boundaryRun = run
      BY <2>4, <2>6 DEF Holds
    <3>6. Len(left') - Len(buf'.boundaryRun) = n - r
      <4>1. Len(buf'.boundaryRun) = r - 1
        BY <2>3, <3>5
      <4> HIDE DEF n, r
      <4>2. QED
        BY <2>1, <2>2, <4>1
    <3>7. StashPlace'
      BY <1>4, <1>7, <3>4, <3>5, <3>6 DEF StashPlace
    <3>8. QED
      BY <1>1, <1>2, <1>4, <1>7, <3>7 DEF InPlace
  <2>7. QED
    BY <2>5, <2>6
<1>8. QED
  BY <1>3, <1>5, <1>6, <1>7

LEMMA LoseCaretPlaced ==
  ASSUME InPlace, LoseCaret
  PROVE  InPlace'
<1>1. Synced'
  BY HoldBackspaceSynced, MoveCaretSynced, WordDeleteSynced DEF LoseCaret, InPlace
<1>2. JustCompleted'
  BY NotCompleted DEF LoseCaret, HoldBackspace, MoveCaret, WordDelete, JustCompleted
<1>3. QED
  BY <1>1, <1>2, Dropped DEF LoseCaret

LEMMA CaretShortcutPlaced ==
  ASSUME InPlace, CaretShortcut
  PROVE  InPlace'
<1>1. Synced'
  BY ShortcutSynced DEF CaretShortcut, InPlace
<1>2. JustCompleted'
  BY NotCompleted DEF CaretShortcut, Shortcut, JustCompleted
<1>3. QED
  BY <1>1, <1>2, Dropped DEF CaretShortcut

LEMMA OtherShortcutPlaced ==
  ASSUME InPlace, OtherShortcut, slips' = {}
  PROVE  InPlace'
<1>1. /\ Synced' /\ outcome' = InProgress /\ KeepStash
      /\ Holds(buf', <<>>, <<>>, <<>>)
  BY ShortcutSynced, ShortcutFields
     DEF OtherShortcut, Shortcut, InPlace, Synced, TypeOK
<1>2. CASE last = NoStash
  BY <1>1, <1>2, NotCompleted DEF InPlace, StashPlace, JustCompleted, KeepStash
<1>3. CASE last # NoStash
  <2>1. left' = left /\ AtStash
    BY <1>3 DEF OtherShortcut
  <2>2. QED
    BY <1>1, <2>1, Blanked
<1>4. QED
  BY <1>2, <1>3

LEMMA PausePlaced ==
  ASSUME InPlace, Pause, slips' = {}
  PROVE  InPlace'
<1>1. /\ Synced' /\ outcome' = InProgress /\ left' = left
      /\ Holds(buf', <<>>, <<>>, <<>>)
  BY IdleGapSynced, AbandonFields DEF Pause, IdleGap, InPlace, Synced, TypeOK
<1>2. CASE KeepStash /\ Slipped("dropped", ~AtStash)
  <2>1. last # NoStash => AtStash
    BY <1>2 DEF Slipped
  <2>2. QED
    BY <1>1, <1>2, <2>1, Blanked
<1>3. CASE DropStash
  BY <1>1, <1>3, Dropped, NotCompleted DEF JustCompleted
<1>4. QED
  BY <1>2, <1>3 DEF Pause

LEMMA GiveUpPlaced ==
  ASSUME InPlace, GiveUp
  PROVE  InPlace'
<1>1. Synced' /\ JustCompleted'
  BY PoisonWordSynced, NotCompleted DEF GiveUp, InPlace, PoisonWord, JustCompleted
<1>2. QED
  BY <1>1, Dropped DEF GiveUp

LEMMA SuggestionPlaced ==
  ASSUME InPlace, NEW w \in Words, Suggestion(w)
  PROVE  InPlace'
<1>1. Synced' /\ JustCompleted'
  BY AcceptSuggestionSynced, NotCompleted
     DEF Suggestion, InPlace, AcceptSuggestion, JustCompleted
<1>2. QED
  BY <1>1, Dropped DEF Suggestion

LEMMA CommandPlaced ==
  ASSUME InPlace, Command, slips' = {}
  PROVE  InPlace'
<1>1. /\ Synced' /\ outcome' = InProgress /\ KeepStash
      /\ Holds(buf', <<>>, <<>>, <<>>)
  <2>1. Synced' /\ outcome' = InProgress /\ KeepStash /\ buf.keys = <<>>
        /\ buf' = ForgetCompleted(buf) /\ buf \in Buffer
    BY SmartCommandSynced DEF Command, SmartCommand, InPlace, Synced, TypeOK
  <2>2. QED
    BY <2>1, ForgetFields
<1>2. CASE last = NoStash
  BY <1>1, <1>2, NotCompleted DEF InPlace, StashPlace, JustCompleted, KeepStash
<1>3. CASE last # NoStash
  <2>1. left' = left
    BY <1>3 DEF Command, Slipped
  <2>2. /\ outcome.kind = "WordCompleted" /\ buf.prevWord # <<>> /\ buf.keys = <<>>
    BY DEF Command, SmartCommand
  <2>3. Len(buf.boundaryRun) = 1
    BY <2>2 DEF InPlace, JustCompleted
  <2>4. last.boundary = buf.boundaryRun[1] /\ buf.boundaryRun \in Seq(Separator)
    BY <1>3, <2>2 DEF InPlace, StashPlace, Synced, TypeOK, Buffer
  <2>5. last.boundary \in Separator
    BY <2>3, <2>4
  <2>6. AtStash
    BY <2>2, <2>3, <2>5, BufferAssumption DEF AtStash
  <2>7. QED
    BY <1>1, <2>1, <2>6, Blanked
<1>4. QED
  BY <1>2, <1>3

LEMMA ReloadPlaced ==
  ASSUME InPlace, Reload, slips' = {}
  PROVE  InPlace'
<1>1. /\ Synced' /\ outcome' = InProgress /\ left' = left /\ KeepStash
      /\ Holds(buf', <<>>, <<>>, <<>>)
  BY SettingsReloadedSynced, FreshFields DEF Reload, SettingsReloaded, InPlace
<1>2. last # NoStash => AtStash
  BY DEF Reload, Slipped
<1>3. QED
  BY <1>1, <1>2, Blanked

LEMMA SwitchWordPlaced ==
  ASSUME InPlace, SwitchWordInProgress, slips' = {}
  PROVE  InPlace' /\ left' = left
<1>1. /\ buf.keys # <<>> /\ buf \in Buffer
      /\ last' = [keys |-> buf.keys, boundary |-> NoKey, corrected |-> TRUE, placed |-> TRUE]
      /\ byEngine' = FALSE
  BY DEF SwitchWordInProgress, InPlace, Synced, TypeOK
<1>2. SettleWord /\ outcome'.kind # "WordCompleted"
  BY DEF SwitchWordInProgress
<1>3. Synced'
  BY <1>2, SettleWordSynced DEF InPlace
<1>4. outcome' = InProgress /\ buf' = Settle(buf) /\ left' = left
  <2>1. WordCompleted(buf).kind = "WordCompleted"
    BY DEF WordCompleted
  <2>2. QED
    BY <1>2, <2>1 DEF SettleWord
<1>5. buf'.keys # <<>>
  BY <1>1, <1>4, SettleFields DEF Holds
<1>6. last' \in Stash
  BY <1>1 DEF Stash, Buffer
<1>7. QED
  BY <1>1, <1>3, <1>4, <1>5, <1>6, WordUnderCaret

LEMMA SwitchStashPlaced ==
  ASSUME InPlace, SwitchStash, slips' = {}
  PROVE  InPlace' /\ left' = left
<1>1. /\ StashReachable /\ left' = Replaced(last) /\ buf' = buf
      /\ last' = Switched(last) /\ byEngine' = FALSE
      /\ outcome' = InProgress /\ blind' = blind
  BY DEF SwitchStash
<1>2. left' = left
  BY <1>1, ReachableIsLast
<1>3. Synced'
  BY <1>1, <1>2, Outcomes DEF InPlace, Synced, TypeOK, ScreenSuffix, StashShape
<1>4. last \in Stash /\ last # NoStash
  BY <1>1 DEF InPlace, StashReachable
<1>5. last' \in Stash /\ last'.keys = last.keys /\ last'.boundary = last.boundary
  BY <1>1, <1>4 DEF Switched, Stash
<1>6. StashText(last') = StashText(last)
  BY <1>5 DEF StashText
<1>7. StashPlace'
  BY <1>1, <1>2, <1>4, <1>5, <1>6 DEF InPlace, StashPlace
<1>8. QED
  BY <1>1, <1>2, <1>3, <1>5, <1>7, NotCompleted DEF InPlace, JustCompleted

\* The separator that is deleted is the one that is typed.
LEMMA SwitchSeparatorPlaced ==
  ASSUME InPlace, SwitchSeparator, slips' = {}
  PROVE  InPlace' /\ left' = left
<1> DEFINE r == Len(buf.boundaryRun)
           s == buf.boundaryRun[r]
<1>1. /\ buf.keys = <<>> /\ last = NoStash /\ last' = last /\ buf' = buf
      /\ buf.boundaryRun # <<>> /\ left' = Append(RubOut(left), s)
      /\ outcome' = InProgress /\ blind' = blind /\ byEngine' = byEngine
  BY DEF SwitchSeparator
<1>2. /\ buf \in Buffer /\ left \in Seq(Char) /\ Tracks(buf, left)
  BY DEF InPlace, Synced, TypeOK, ScreenSuffix
<1>3. /\ buf.boundaryRun \in Seq(Separator) /\ r \in Nat /\ r # 0
      /\ Len(left) \in Nat /\ Len(buf.keys) = 0
      /\ EndsAt(left, Len(left) - Len(buf.keys), buf.boundaryRun)
  <2>1. buf.boundaryRun \in Seq(Separator) /\ r \in Nat /\ Len(left) \in Nat
    BY <1>2, Lengths
  <2>2. r # 0 /\ Len(buf.keys) = 0
    BY <1>1, <2>1
  <2>3. EndsAt(left, Len(left) - Len(buf.keys), buf.boundaryRun)
    BY <1>2 DEF Tracks
  <2>4. QED
    BY <2>1, <2>2, <2>3
<1>4. r <= Len(left) /\ left[Len(left)] = s /\ s \in Separator
  <2>1. Len(left) - Len(buf.keys) = Len(left)
    BY <1>3
  <2>2. r <= Len(left) /\ \A i \in 1..r : left[Len(left) - r + i] = buf.boundaryRun[i]
    BY <1>3, <2>1 DEF EndsAt
  <2>3. r \in 1..r /\ Len(left) - r + r = Len(left)
    BY <1>3
  <2>4. QED
    BY <1>3, <2>2, <2>3, ElementOfSeq
<1> HIDE DEF r, s
<1>5. <<s>> \in Seq(Char) /\ Len(<<s>>) = 1 /\ Len(left) # 0
  BY <1>3, <1>4 DEF Char
<1>6. EndsAt(left, Len(left), <<s>>)
  BY <1>3, <1>4, <1>5 DEF EndsAt
<1>7. Keep(left, Len(left) - 1) \o <<s>> = left
  BY <1>2, <1>5, <1>6, EndRetyped
<1>8. RubOut(left) = Keep(left, Len(left) - 1) /\ RubOut(left) \in Seq(Char)
  <2>1. left # <<>> /\ Len(left) - 1 \in 0..Len(left)
    BY <1>3, <1>5
  <2>2. QED
    BY <1>2, <2>1, KeepIsText DEF RubOut
<1>9. left' = left
  <2>1. Append(RubOut(left), s) = RubOut(left) \o <<s>>
    BY <1>4, <1>8, AppendIsConcat DEF Char
  <2>2. QED
    BY <1>1, <1>7, <1>8, <2>1
<1>10. Synced'
  BY <1>1, <1>9, Outcomes DEF InPlace, Synced, TypeOK, ScreenSuffix, StashShape
<1>11. QED
  BY <1>1, <1>9, <1>10, NotCompleted DEF InPlace, StashPlace, JustCompleted

LEMMA NothingPlaced ==
  ASSUME InPlace, UNCHANGED allVars
  PROVE  InPlace'
<1>1. /\ UNCHANGED vars /\ buf' = buf /\ left' = left /\ outcome' = outcome
      /\ last' = last /\ byEngine' = byEngine
  BY DEF allVars, vars
<1>2. Synced'
  BY <1>1, StutterSynced DEF InPlace
<1>3. QED
  BY <1>1, <1>2 DEF InPlace, StashPlace, JustCompleted

-----------------------------------------------------------------------------
(* The theorems. *)

\* A known way of going wrong is never forgotten.
LEMMA SlipsStay ==
  ASSUME [SwitchNext]_allVars
  PROVE  slips \subseteq slips'
<1>1. \A n, c : Slipped(n, c) => slips \subseteq slips'
  BY DEF Slipped
<1>2. CASE UNCHANGED allVars
  BY <1>2 DEF allVars
<1>3. CASE SwitchNext
  <2>1. ASSUME NEW k \in Letter, Letters(k) PROVE slips \subseteq slips'
    BY <2>1 DEF Letters
  <2>2. ASSUME NEW s \in Separator, Separators(s) PROVE slips \subseteq slips'
    BY <2>2 DEF Separators, Slipped
  <2>3. CASE Backspaces
    BY <2>3 DEF Backspaces, Slipped
  <2>4. CASE LoseCaret \/ CaretShortcut \/ GiveUp
    BY <2>4 DEF LoseCaret, CaretShortcut, GiveUp
  <2>5. CASE OtherShortcut
    BY <2>5 DEF OtherShortcut
  <2>6. CASE Pause \/ Command \/ Reload
    BY <2>6 DEF Pause, Command, Reload, Slipped
  <2>7. ASSUME NEW w \in Words, Suggestion(w) PROVE slips \subseteq slips'
    BY <2>7 DEF Suggestion
  <2>8. CASE SwitchWordInProgress
    BY <2>8 DEF SwitchWordInProgress
  <2>9. CASE SwitchStash
    BY <2>9 DEF SwitchStash
  <2>10. CASE SwitchSeparator
    BY <2>10 DEF SwitchSeparator
  <2>11. QED
    BY <1>3, <2>1, <2>2, <2>3, <2>4, <2>5, <2>6, <2>7, <2>8, <2>9, <2>10 DEF SwitchNext
<1>4. QED
  BY <1>2, <1>3

LEMMA PlacedStep ==
  ASSUME Placed, [SwitchNext]_allVars
  PROVE  Placed'
<1> SUFFICES ASSUME slips' = {} PROVE InPlace'
  BY DEF Placed
<1>1. InPlace
  BY SlipsStay DEF Placed
<1>2. ASSUME NEW k \in Letter, Letters(k) PROVE InPlace'
  BY <1>1, <1>2, LettersPlaced
<1>3. ASSUME NEW s \in Separator, Separators(s) PROVE InPlace'
  BY <1>1, <1>3, WordCompletedPlaced, RunExtendedPlaced
<1>4. CASE Backspaces
  BY <1>1, <1>4, BackspacesPlaced
<1>5. CASE LoseCaret
  BY <1>1, <1>5, LoseCaretPlaced
<1>6. CASE CaretShortcut
  BY <1>1, <1>6, CaretShortcutPlaced
<1>7. CASE OtherShortcut
  BY <1>1, <1>7, OtherShortcutPlaced
<1>8. CASE Pause
  BY <1>1, <1>8, PausePlaced
<1>9. CASE GiveUp
  BY <1>1, <1>9, GiveUpPlaced
<1>10. ASSUME NEW w \in Words, Suggestion(w) PROVE InPlace'
  BY <1>1, <1>10, SuggestionPlaced
<1>11. CASE Command
  BY <1>1, <1>11, CommandPlaced
<1>12. CASE Reload
  BY <1>1, <1>12, ReloadPlaced
<1>13. CASE SwitchWordInProgress
  BY <1>1, <1>13, SwitchWordPlaced
<1>14. CASE SwitchStash
  BY <1>1, <1>14, SwitchStashPlaced
<1>15. CASE SwitchSeparator
  BY <1>1, <1>15, SwitchSeparatorPlaced
<1>16. CASE UNCHANGED allVars
  BY <1>1, <1>16, NothingPlaced
<1>17. QED
  BY <1>2, <1>3, <1>4, <1>5, <1>6, <1>7, <1>8, <1>9, <1>10, <1>11, <1>12, <1>13,
     <1>14, <1>15, <1>16 DEF SwitchNext

THEOREM PlacedInvariant == SwitchSpec => []Placed
<1>1. SwitchInit => Placed
  BY InitSynced, NotCompleted
     DEF SwitchInit, Init, Placed, InPlace, StashPlace, JustCompleted
<1>2. QED
  BY <1>1, PlacedStep, PTL DEF SwitchSpec

\* The hotkey takes the stash only where the text ends in what it names,
\* until one of the known slips.
THEOREM StashIsOnScreen == SwitchSpec => []StashOnScreen
<1>1. Placed => StashOnScreen
  BY ReachableIsLast DEF Placed, StashOnScreen, StashIsLastItem
<1>2. QED
  BY PlacedInvariant, <1>1, PTL

\* No press of the hotkey changes a character, until one of the known slips.
THEOREM SwitchesKeepText == SwitchSpec => SwitchKeepsText
<1>1. Placed /\ [SwitchNext]_allVars
        => [Press /\ slips' = {} =>
              Len(left) <= Len(left') /\ Keep(left', Len(left)) = left]_allVars
  <2> SUFFICES ASSUME Placed, [SwitchNext]_allVars, Press, slips' = {}
               PROVE  Len(left) <= Len(left') /\ Keep(left', Len(left)) = left
    OBVIOUS
  <2>1. InPlace
    BY SlipsStay DEF Placed
  <2>2. left' = left
    BY <2>1, SwitchWordPlaced, SwitchStashPlaced, SwitchSeparatorPlaced DEF Press
  <2>3. left \in Seq(Char) /\ Len(left) \in Nat
    BY <2>1 DEF InPlace, Synced, TypeOK
  <2>4. QED
    BY <2>2, <2>3, KeepAll
<1>2. QED
  BY PlacedInvariant, <1>1, PTL DEF SwitchSpec, SwitchKeepsText

-----------------------------------------------------------------------------
(***************************************************************************)
(* What the marks of a stash are worth does not depend on the text, and    *)
(* holds beyond every slip but the one that marks the wrong word.          *)
(***************************************************************************)
MarksAreTrue ==
  last # NoStash =>
    /\ last = [keys |-> last.keys, boundary |-> last.boundary,
               corrected |-> last.corrected, placed |-> last.placed]
    /\ last.corrected \in BOOLEAN /\ last.placed \in BOOLEAN
    /\ "separator" \notin slips => (last.corrected /\ ~last.placed => byEngine)

LEMMA MarksKept ==
  ASSUME MarksAreTrue, KeepStash, slips \subseteq slips'
  PROVE  MarksAreTrue'
BY DEF MarksAreTrue, KeepStash

LEMMA MarksDropped ==
  ASSUME DropStash
  PROVE  MarksAreTrue'
BY DEF MarksAreTrue, DropStash

LEMMA MarkedOnCompletion ==
  ASSUME NEW b, NEW s, StashCompleted(b, s)
  PROVE  MarksAreTrue'
<1>1. CASE Tainted(b)
  BY <1>1, MarksDropped DEF StashCompleted
<1>2. CASE ~Tainted(b)
  <2>1. PICK c \in BOOLEAN :
          last' = [keys |-> b.keys, boundary |-> s, corrected |-> c, placed |-> FALSE]
    BY <1>2 DEF StashCompleted
  <2>2. byEngine' = last'.corrected
    BY <1>2 DEF StashCompleted
  <2>3. QED
    BY <2>1, <2>2 DEF MarksAreTrue
<1>3. QED
  BY <1>1, <1>2

LEMMA MarkedByPress ==
  ASSUME MarksAreTrue, Press
  PROVE  MarksAreTrue'
<1>1. CASE SwitchWordInProgress
  <2>1. last' = [keys |-> buf.keys, boundary |-> NoKey, corrected |-> TRUE, placed |-> TRUE]
    BY <1>1 DEF SwitchWordInProgress
  <2>2. QED
    BY <2>1 DEF MarksAreTrue
<1>2. CASE SwitchStash
  <2>1. last # NoStash /\ last' = Switched(last)
    BY <1>2 DEF SwitchStash, StashReachable
  <2>2. PICK k, s, c, p :
          last = [keys |-> k, boundary |-> s, corrected |-> c, placed |-> p]
          /\ c \in BOOLEAN
    BY <2>1 DEF MarksAreTrue
  <2>3. last' = [keys |-> k, boundary |-> s, corrected |-> ~c, placed |-> TRUE]
    BY <2>1, <2>2 DEF Switched
  <2>4. QED
    BY <2>3 DEF MarksAreTrue
<1>3. CASE SwitchSeparator
  <2>1. CASE last = NoStash
    BY <1>3, <2>1 DEF SwitchSeparator, MarksAreTrue
  <2>2. CASE last # NoStash
    <3>1. PICK k, s, c, p :
            last = [keys |-> k, boundary |-> s, corrected |-> c, placed |-> p]
            /\ p \in BOOLEAN
      BY <2>2 DEF MarksAreTrue
    <3>2. last' = [keys |-> k, boundary |-> s, corrected |-> TRUE, placed |-> p]
      BY <1>3, <2>2, <3>1 DEF SwitchSeparator
    <3>3. "separator" \in slips'
      BY <1>3, <2>2 DEF SwitchSeparator
    <3>4. QED
      BY <3>1, <3>2, <3>3 DEF MarksAreTrue
  <2>3. QED
    BY <2>1, <2>2
<1>4. QED
  BY <1>1, <1>2, <1>3 DEF Press

LEMMA MarkedStep ==
  ASSUME MarksAreTrue, [SwitchNext]_allVars
  PROVE  MarksAreTrue'
<1>1. slips \subseteq slips'
  BY SlipsStay
<1>2. ASSUME NEW k \in Letter, Letters(k) PROVE MarksAreTrue'
  BY <1>1, <1>2, MarksKept DEF Letters
<1>3. ASSUME NEW s \in Separator, Separators(s) PROVE MarksAreTrue'
  BY <1>1, <1>3, MarksKept, MarkedOnCompletion DEF Separators
<1>4. CASE Backspaces \/ Pause
  BY <1>1, <1>4, MarksKept, MarksDropped DEF Backspaces, Pause
<1>5. CASE LoseCaret \/ CaretShortcut \/ GiveUp
  BY <1>5, MarksDropped DEF LoseCaret, CaretShortcut, GiveUp
<1>6. CASE OtherShortcut \/ Command \/ Reload
  BY <1>1, <1>6, MarksKept DEF OtherShortcut, Command, Reload
<1>7. ASSUME NEW w \in Words, Suggestion(w) PROVE MarksAreTrue'
  BY <1>7, MarksDropped DEF Suggestion
<1>8. CASE SwitchWordInProgress \/ SwitchStash \/ SwitchSeparator
  BY <1>8, MarkedByPress DEF Press
<1>9. CASE UNCHANGED allVars
  BY <1>9 DEF allVars, MarksAreTrue
<1>10. QED
  BY <1>2, <1>3, <1>4, <1>5, <1>6, <1>7, <1>8, <1>9 DEF SwitchNext

\* A press that counts as taking a correction back finds a word the engine
\* itself has moved, unless a separator was marked in its stead.
THEOREM UndosAreRescues == SwitchSpec => []UndoIsRescue
<1>1. SwitchInit => MarksAreTrue
  BY DEF SwitchInit, MarksAreTrue
<1>2. MarksAreTrue => UndoIsRescue
  BY DEF MarksAreTrue, UndoIsRescue
<1>3. QED
  BY <1>1, <1>2, MarkedStep, PTL DEF SwitchSpec
=============================================================================
