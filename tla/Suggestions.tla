------------------------------ MODULE Suggestions ------------------------------
(***************************************************************************)
(* A spelling offer from the word that is completed to the replacement on  *)
(* the screen: the engine's pending slot, the tooltip, and the ways an     *)
(* accept comes back from it.                                              *)
(*                                                                         *)
(* Four processes run side by side.  A press of the user reaches the       *)
(* application and the engine's key channel in one step, a claimed key the *)
(* channel only.  The engine thread takes presses and commands one by one; *)
(* the app loop passes its events on to the tooltip; the tooltip answers   *)
(* with commands, a click on it being seen on the key channel as well.     *)
(* Deadlines and the detectors' verdicts are choices.  The keystrokes of a *)
(* replacement are one step here and the subject of Correction.  A trail   *)
(* key is a word key exactly when it is a Letter.                          *)
(***************************************************************************)
EXTENDS WordBuffer, FiniteSets

CONSTANTS
  Submit,     \* separators that submit (is_submission_scancode)
  Backspace, HeldBackspace, Shortcut, Nav,  \* presses that are no text ...
  Click,      \* ... SC_POINTER_BUTTON ...
  Accept,     \* ... a key that accepts by number, claimed or as a chord ...
  Move,       \* ... and an arrow that moves the highlight
  Texts,      \* texts a moved caret may find itself behind
  Words,      \* the suggested words
  MaxTrail,   \* MAX_SUGGESTION_TRAIL (64 in the code)
  MaxOffers,  \* bound: offers made
  MaxText,    \* bound: the longest text left of the caret
  MaxWire,    \* bound: presses under way to the engine
  MaxOuts     \* bound: events under way to the tooltip when an arrow is pressed

Special == {Backspace, HeldBackspace, Shortcut, Nav, Click, Accept, Move}

ASSUME SuggestionsAssumption ==
  /\ Submit \subseteq Separator
  /\ Special \cap (Char \cup {NoKey}) = {} /\ Cardinality(Special) = 7
  /\ Texts \subseteq Seq(Char)
  /\ Words \subseteq Seq(Letter) \ {<<>>}
  /\ {MaxTrail, MaxOffers, MaxText, MaxWire, MaxOuts} \subseteq Nat

VARIABLES
  buf,        \* the engine's WordBuffer
  offer,      \* pending_suggestion
  armed,      \* the claim on the accept keys (KeyClaims.armed)
  outs,       \* engine -> app loop -> tooltip
  made,       \* suggestion_generation
  claims,     \* KeyGate::can_claim(): the listener can keep keys back
  tip,        \* the generation on the screen, 0 for none
  cmds,       \* tooltip -> app loop -> the engine's command channel
  wire,       \* the engine's key channel
  screen,     \* the text left of the caret (outside the program)
  done,       \* history: the replacement the engine's last step made
  slips       \* history: the known ways of going wrong this run went

vars == <<buf, offer, armed, outs, made, claims, tip, cmds, wire,
          screen, done, slips>>

NoOffer == [generation |-> 0]

Offer ==
  [ generation : 1..MaxOffers,
    keys       : Seq(Letter),
    trail      : Seq(Char),
    expired    : BOOLEAN,                      \* deadline has passed
    grace      : {"none", "open", "lapsed"},   \* click_grace_until
    strayed    : BOOLEAN ]  \* history: a click elsewhere did not dismiss it

Nothing == [by |-> "nobody", right |-> TRUE, strayed |-> FALSE]

\* Every variable has its type.
TypeOK ==
  /\ buf \in Buffer
  /\ offer \in Offer \cup {NoOffer}
  /\ {armed, claims} \subseteq BOOLEAN
  /\ outs \in Seq([kind : {"show", "highlight", "hide"}, generation : 1..MaxOffers])
  /\ {made, tip} \subseteq 0..MaxOffers
  /\ cmds \in Seq([kind : {"accept", "timeout"}, generation : 1..MaxOffers])
  /\ wire \in Seq([key : Char \cup Special, away : BOOLEAN])
  /\ screen \in Seq(Char)
  /\ done \in [by : {"nobody", "key", "pointer"}, right : BOOLEAN, strayed : BOOLEAN]
  /\ slips \subseteq {"strayed", "mistaken"}

Init ==
  /\ buf = FreshBuffer
  /\ offer = NoOffer /\ armed = FALSE /\ made = 0
  /\ outs = <<>> /\ cmds = <<>> /\ wire = <<>>
  /\ tip = 0
  /\ claims \in BOOLEAN
  /\ screen \in Texts
  /\ done = Nothing /\ slips = {}

-----------------------------------------------------------------------------
(***************************************************************************)
(* The engine's calls, as operators on what they share.                    *)
(***************************************************************************)
Core ==
  [ buf |-> buf, offer |-> offer, armed |-> armed, outs |-> outs, made |-> made,
    wire |-> wire, screen |-> screen, done |-> Nothing, slips |-> slips ]

Become(e) ==
  /\ buf' = e.buf /\ offer' = e.offer /\ armed' = e.armed
  /\ outs' = e.outs /\ made' = e.made
  /\ wire' = e.wire /\ screen' = e.screen /\ done' = e.done /\ slips' = e.slips

Pending(e) == e.offer # NoOffer

Live(e) == Pending(e) /\ ~e.offer.expired     \* has_live_suggestion()

HasGrace(e) == Pending(e) /\ e.offer.grace = "open"

\* Mutant: the tooltip is not told.
MutClearedSilently(e) == [e EXCEPT !.offer = NoOffer, !.armed = FALSE]

\* The slot is emptied, the claim dropped and the tooltip told.
Cleared(e) ==
  [e EXCEPT !.offer = NoOffer, !.armed = FALSE,
            !.outs = Append(@, [kind |-> "hide", generation |-> e.offer.generation])]

Dismiss(e) == IF Pending(e) THEN Cleared(e) ELSE e

\* Mutant: a time-out of the tooltip takes whichever offer is there.
MutDismissOnly(e, g) == Dismiss(e)

DismissOnly(e, g) == IF Pending(e) /\ e.offer.generation = g THEN Cleared(e) ELSE e

\* The offered word and its trail, cut the way the buffer would hold them.
Segment(text) ==
  LET end   == CHOOSE i \in 0..Len(text) :
                 /\ i > 0 => text[i] \in Separator
                 /\ \A j \in i + 1..Len(text) : text[j] \in Letter
      start == CHOOSE i \in 0..end :
                 /\ i > 0 => text[i] \in Letter
                 /\ \A j \in i + 1..end : text[j] \in Separator
      word  == CHOOSE i \in 0..start :
                 /\ i > 0 => text[i] \in Separator
                 /\ \A j \in i + 1..start : text[j] \in Letter
  IN  [ completed |-> SubSeq(text, word + 1, start),
        run       |-> SubSeq(text, start + 1, end),
        keys      |-> SubSeq(text, end + 1, Len(text)) ]

\* trail_agrees_with_buffer()
Agrees(p, b) ==
  Segment(p.keys \o p.trail)
    = [completed |-> b.prevWord, run |-> b.boundaryRun, keys |-> b.keys]

Front(s) == SubSeq(s, 1, Len(s) - 1)

HasSeparator(trail) == \E i \in DOMAIN trail : trail[i] \in Separator

\* Mutant: a submission key joins the trail.
MutLosesTrack(t, k) ==
  \/ Len(t) > MaxTrail
  \/ k = Backspace /\ ~HasSeparator(t)
  \/ k = HeldBackspace

Trailed(t, k) ==
  IF k \in Char THEN Append(t, k) ELSE IF k = Backspace THEN Front(t) ELSE t

LosesTrack(t, k) ==
  \/ k \in Submit
  \/ Len(t) > MaxTrail
  \/ k = Backspace /\ ~HasSeparator(t)   \* the word is being edited again
  \/ k = HeldBackspace

\* track_suggestion_trail()
Track(e, k) ==
  IF ~Pending(e) THEN e
  ELSE LET t == Trailed(e.offer.trail, k)
       IN  IF LosesTrack(t, k) THEN Cleared(e) ELSE [e EXCEPT !.offer.trail = t]

\* freeze_suggestion_for_click()
Freeze(e) ==
  IF Live(e) /\ Agrees(e.offer, e.buf)
  THEN [e EXCEPT !.offer.grace = "open"] ELSE e

\* Mutant: only the end of its window ends the grace.
MutGraceTick(e, k) ==
  IF Pending(e) /\ e.offer.grace = "lapsed" THEN Cleared(e) ELSE e

\* click_grace_tick(): a clicked offer dies on the first other press.
GraceTick(e, k) ==
  IF Pending(e) /\ (e.offer.grace = "lapsed" \/ (e.offer.grace = "open" /\ k # Click))
  THEN Cleared(e) ELSE e

\* Idle hygiene, which a live offer suspends.
IdleCheck(e, idle) ==
  IF idle /\ ~Live(e) THEN [Dismiss(e) EXCEPT !.buf = Abandon(e.buf)] ELSE e

\* WordBoundary::Abandoned: a click within its grace may have hit the tooltip.
Lost(e, away) ==
  IF HasGrace(e) THEN [e EXCEPT !.offer.strayed = @ \/ away] ELSE Dismiss(e)

\* Mutant: the generation before the increment.
MutMakeOffer(e, word, n) ==
  [Dismiss(e) EXCEPT
     !.made = @ + 1, !.armed = claims,
     !.offer = [ generation |-> e.made, keys |-> SubSeq(word, 1, n),
                 trail |-> e.buf.boundaryRun, expired |-> FALSE,
                 grace |-> "none", strayed |-> FALSE ]]

\* maybe_offer_suggestions(), past its gates: the first n keys of the word are
\* spelled, what is glued to them is punctuation in this layout.
MakeOffer(e, word, n) ==
  LET d   == Dismiss(e)
      new == [ generation |-> e.made + 1, keys |-> SubSeq(word, 1, n),
               trail |-> SubSeq(word, n + 1, Len(word)) \o e.buf.boundaryRun,
               expired |-> FALSE, grace |-> "none", strayed |-> FALSE ]
  IN  [d EXCEPT !.made = @ + 1, !.offer = new, !.armed = claims,
                !.outs = Append(@, [kind |-> "show", generation |-> e.made + 1])]

\* What may follow a boundary that completed `before.keys': a tainted word
\* ends the offer; decide() keeps the word, offers it, or retypes something.
Completions(e, before, s) ==
  IF Tainted(before) THEN {Dismiss(e)}
  ELSE {e}
       \cup {Dismiss(e), [Dismiss(e) EXCEPT !.buf = ForgetCompleted(@)]}
       \cup (IF s \notin Submit /\ before.wordClean /\ e.made < MaxOffers
             THEN {MakeOffer(e, before.keys, n) : n \in 1..Len(before.keys)} ELSE {})

Fed(e, b) == [e EXCEPT !.buf = b]

\* handle_key(): every state the engine may be in after the press.
Handled(e, k, away) ==
  CASE k \in Letter ->
         {Fed(Track(e, k), FeedWord(e.buf, k))}
    [] k \in Separator ->
         LET fed == Fed(Track(e, k), FeedBoundary(e.buf, k))
         IN  IF e.buf.keys = <<>> THEN {fed} ELSE Completions(fed, e.buf, k)
    [] k = Backspace ->
         LET fed == Fed(Track(e, k), FeedBackspace(e.buf))
         IN  {IF e.buf.keys = <<>> /\ e.buf.boundaryRun = <<>>
              THEN Lost(fed, FALSE) ELSE fed}
    [] k = HeldBackspace ->
         {Lost(Fed(Track(e, k), FeedHeldBackspace(e.buf)), FALSE)}
    [] k = Nav ->
         {Lost(Fed(e, FeedEndAndDiscard(e.buf)), FALSE)}
    [] k = Click ->
         LET f == Freeze(e)
         IN  {Lost(Fed(f, FeedEndAndDiscard(e.buf)), away)}
    [] OTHER ->       \* a command modifier: Shortcut, or the accept chord
         {Dismiss(Fed(e, MarkContextUnclean(Abandon(e.buf))))}

-----------------------------------------------------------------------------
(***************************************************************************)
(* accept_suggestion().  What apply_correction() makes of the presses that *)
(* are under way is taken from Correction's contract: everything typed     *)
(* behind the word is typed again behind the new one, or nothing happens.  *)
(***************************************************************************)

\* drain_correction_window(): text, claimed keys and, for an accept by click,
\* one click.
Benign(by, w, i) ==
  \/ w[i].key \in Letter
  \/ claims /\ w[i].key \in {Accept, Move}
  \/ by = "pointer" /\ w[i].key = Click /\ \A j \in 1..i - 1 : w[j].key # Click

\* The letters among the first n presses.
LettersIn(w, n) ==
  LET taken[i \in 0..n] ==
        IF i = 0 THEN <<>>
        ELSE IF w[i].key \in Letter THEN Append(taken[i - 1], w[i].key)
        ELSE taken[i - 1]
  IN  taken[n]

Absorb(by, w) ==
  LET n    == CHOOSE i \in 0..Len(w) :
                /\ \A j \in 1..i : Benign(by, w, j)
                /\ i < Len(w) => ~Benign(by, w, i + 1)
      stop == IF n < Len(w) THEN w[n + 1].key ELSE NoKey
      ends == stop \in Separator \ Submit
  IN  [ words      |-> LettersIn(w, n),
        resume     |-> IF ends THEN <<stop>> ELSE <<>>,
        suspicious |-> stop # NoKey /\ ~ends,
        away       |-> \E i \in 1..n : w[i].away,
        rest       |-> SubSeq(w, n + 2, Len(w)) ]

SeedBuffer(b, text) ==
  LET fed[i \in 0..Len(text)] ==
        IF i = 0 THEN b
        ELSE IF text[i] \in Letter THEN FeedWord(fed[i - 1], text[i])
        ELSE FeedBoundary(fed[i - 1], text[i])
  IN  fed[Len(text)]

Vouched(p, b) == Agrees(p, b) \/ p.grace = "open"

\* The punctuation glued to the offered word leads the trail.
Glued(trail) ==
  LET n == CHOOSE i \in 1..Len(trail) :
             trail[i] \in Separator /\ \A j \in 1..i - 1 : trail[j] \in Letter
  IN  SubSeq(trail, 1, n - 1)

\* Mutant: the stash is re-pointed without the punctuation.
MutRepointed(b, p, r) ==
  IF r.stash = "stale" THEN ForgetCompleted(b)
  ELSE IF r.stash = "follows" /\ b.prevWord = p.keys \o Glued(p.trail)
  THEN ReplaceCompleted(b, r.word)
  ELSE b

\* The stash after the replacement: it follows the word it names.
Repointed(b, p, r) ==
  IF r.stash = "stale" THEN ForgetCompleted(b)
  ELSE IF r.stash # "kept" /\ b.prevWord = p.keys \o Glued(p.trail)
  THEN ReplaceCompleted(b, IF r.stash = "text" THEN <<>>
                           ELSE r.word \o Glued(p.trail))
  ELSE b

\* History: the stash that gets re-pointed names a later word that reads alike.
Mistaken(text, b, p, r) ==
  /\ r.stash = "follows" /\ b.prevWord = p.keys \o Glued(p.trail)
  /\ \E i, j \in DOMAIN text : /\ Len(Glued(p.trail)) < i /\ i < j
                               /\ text[i] \in Letter /\ text[j] \in Separator

\* A spelling entry is typed on keys or as text; a cross-layout one types the
\* word's own keys, its trail on other keys if need be.
Replacement(p) ==
  [word : Words, stash : {"follows", "text"}]
    \cup [word : {p.keys}, stash : {"kept", "stale"}]

Retyped(e, by, r) ==
  LET p    == e.offer
      d    == Absorb(by, e.wire)
      text == p.trail \o d.words \o d.resume
      all  == p.keys \o text
      from == IF Len(all) <= Len(e.screen) THEN Len(e.screen) - Len(all) ELSE 0
      b    == SeedBuffer(e.buf, d.words \o d.resume)
      away == p.strayed \/ d.away
  IN  [Cleared(e) EXCEPT
         !.screen = SubSeq(@, 1, from) \o r.word \o text,
         !.buf    = Repointed(b, p, r),
         !.wire   = d.rest,
         !.done   = [by |-> by, right |-> EndsAt(e.screen, Len(e.screen), all),
                     strayed |-> away],
         !.slips  = @ \cup (IF away THEN {"strayed"} ELSE {})
                      \cup (IF Mistaken(text, b, p, r) THEN {"mistaken"} ELSE {})]

Aborted(e, d) ==
  [Cleared(e) EXCEPT !.buf = Poison(SeedBuffer(@, d.words)), !.wire = d.rest]

\* The slot is taken whatever happens next.  The word may go to the dictionary
\* and the layout may have changed: an accept may always leave the text alone.
Accepted(e, g, by) ==
  IF ~Pending(e) \/ e.offer.generation # g THEN {e}
  ELSE {Cleared(e)} \cup
       IF e.offer.expired \/ ~Vouched(e.offer, e.buf) THEN {}
       ELSE LET d == Absorb(by, e.wire)
            IN  IF d.suspicious THEN {Aborted(e, d)}
                ELSE {o \in {Retyped(e, by, r) : r \in Replacement(e.offer)} :
                        Len(o.screen) <= MaxText}

\* Bound: no press behind a boundary that a correction would absorb.
Absorbable(w) == \A i \in 1..Len(w) - 1 : w[i].key \notin Separator

-----------------------------------------------------------------------------
(* The engine thread. *)

\* handle_claimed_key()
Claimed(e, k) ==
  IF ~Pending(e) THEN {e}
  ELSE IF k = Accept THEN Accepted(e, e.offer.generation, "key")
  ELSE IF e.offer.expired THEN {e}
  ELSE {[e EXCEPT !.armed = TRUE,
                  !.outs = Append(@, [kind |-> "highlight",
                                      generation |-> e.offer.generation])]}

\* A press that is no claimed key: grace, chord, idle hygiene, handle_key().
Unclaimed(e, k, away, idle) ==
  LET g     == GraceTick(e, k)
      chord == IF k = Accept /\ Pending(g)
               THEN Accepted(g, g.offer.generation, "key") ELSE {g}
  IN  UNION {Handled(IdleCheck(o, idle), k, away) : o \in chord}

outside == <<claims, tip>>

HandleKey(idle) ==
  /\ wire # <<>>
  /\ LET h == Head(wire)
         e == [Core EXCEPT !.wire = Tail(@)]
     IN  /\ h.key = Accept => Absorbable(e.wire)
         /\ \E o \in IF claims /\ h.key \in {Accept, Move}
                     THEN Claimed(e, h.key) ELSE Unclaimed(e, h.key, h.away, idle) :
              Become(o)
  /\ UNCHANGED <<cmds, outside>>

HandleCommand ==
  /\ cmds # <<>> /\ Absorbable(wire)
  /\ LET c == Head(cmds)
     IN  \E o \in IF c.kind = "accept" THEN Accepted(Core, c.generation, "pointer")
                  ELSE {DismissOnly(Core, c.generation)} : Become(o)
  /\ cmds' = Tail(cmds)
  /\ UNCHANGED outside

SettingsReloaded ==
  /\ Become(Dismiss(Fed(Core, FreshBuffer)))
  /\ UNCHANGED <<cmds, outside>>

\* Pausing ends the offer, and so does what retypes text (switch-last).  While
\* paused there is none, so the flag itself is not needed.
EndsOffer ==
  /\ offer # NoOffer
  /\ Become(Dismiss(Core))
  /\ UNCHANGED <<cmds, outside>>

-----------------------------------------------------------------------------
(* The app loop and the tooltip. *)

engine == <<buf, offer, armed, made, claims, done, slips>>

\* A highlight shows the same offer again: the events come in order, so the
\* app loop still has it.  Showing may fail.
TakeEvent ==
  /\ outs # <<>>
  /\ outs' = Tail(outs)
  /\ tip' \in IF Head(outs).kind = "hide" THEN {0} ELSE {0, Head(outs).generation}
  /\ UNCHANGED <<engine, cmds, wire, screen>>

TimesOut ==
  /\ tip # 0
  /\ tip' = 0
  /\ cmds' = Append(cmds, [kind |-> "timeout", generation |-> tip])
  /\ UNCHANGED <<engine, outs, wire, screen>>

-----------------------------------------------------------------------------
(* The user and the clock. *)

ToWire(k, away) ==
  /\ Len(wire) < MaxWire
  /\ wire' = Append(wire, [key |-> k, away |-> away])

others == <<engine, outs>>

Type(k) ==
  /\ ToWire(k, FALSE)
  /\ Len(screen) < MaxText
  /\ screen' = Append(screen, k)
  /\ UNCHANGED <<others, tip, cmds>>

Erase ==
  /\ \/ ToWire(Backspace, FALSE) /\ screen' = IF screen = <<>> THEN <<>> ELSE Front(screen)
     \/ /\ ToWire(HeldBackspace, FALSE)
        /\ \E n \in 0..Len(screen) : screen' = SubSeq(screen, 1, n)
  /\ UNCHANGED <<others, tip, cmds>>

\* A shortcut, a navigation key, a click into the application.
Wander ==
  /\ ToWire(Shortcut, FALSE) \/ ToWire(Nav, FALSE) \/ ToWire(Click, TRUE)
  /\ screen' \in Texts \cup {screen}
  /\ UNCHANGED <<others, tip, cmds>>

\* A click on the tooltip does not reach the application.
ClickTooltip ==
  /\ tip # 0
  /\ ToWire(Click, FALSE)
  /\ tip' = 0
  /\ cmds' = Append(cmds, [kind |-> "accept", generation |-> tip])
  /\ UNCHANGED <<others, screen>>

InForce == armed /\ offer # NoOffer /\ ~offer.expired

\* A claimed key; where nothing can be claimed, the chord goes to the
\* application too, which has no use for it.
PressAccept ==
  /\ IF claims THEN InForce ELSE TRUE
  /\ ToWire(Accept, FALSE)
  /\ UNCHANGED <<others, tip, cmds, screen>>

PressArrow ==
  /\ claims /\ InForce /\ Len(outs) < MaxOuts
  /\ ToWire(Move, FALSE)
  /\ UNCHANGED <<others, tip, cmds, screen>>

Expire ==
  /\ offer # NoOffer /\ ~offer.expired
  /\ offer' = [offer EXCEPT !.expired = TRUE]
  /\ UNCHANGED <<buf, armed, made, claims, done, slips, outs, tip, cmds, wire, screen>>

GraceLapses ==
  /\ offer # NoOffer /\ offer.grace = "open"
  /\ offer' = [offer EXCEPT !.grace = "lapsed"]
  /\ UNCHANGED <<buf, armed, made, claims, done, slips, outs, tip, cmds, wire, screen>>

Next ==
  \/ \E k \in Char : Type(k)
  \/ Erase \/ Wander
  \/ ClickTooltip \/ PressAccept \/ PressArrow
  \/ Expire \/ GraceLapses
  \/ \E idle \in BOOLEAN : HandleKey(idle)
  \/ HandleCommand
  \/ SettingsReloaded \/ EndsOffer
  \/ TakeEvent \/ TimesOut

Spec == Init /\ [][Next]_vars

-----------------------------------------------------------------------------
(* Properties. *)

\* The offer's model of the screen never holds a key that submits, and always
\* the separator that closed the word: retyping it cannot send a line again,
\* and the offered word is never the one being edited.
TrailShape ==
  offer # NoOffer =>
    /\ HasSeparator(offer.trail)
    /\ \A i \in DOMAIN offer.trail : offer.trail[i] \notin Submit

\* An accepted offer replaces exactly the offered word and what was typed
\* behind it, however presses, clicks and commands interleave -- unless the
\* user clicked elsewhere and the press did not end the offer in time.  The
\* history before the replacement is one without a known slip.
ReplacedInPlace == [][slips = {} => done'.right \/ done'.strayed]_vars

\* Once the engine has read every press, its buffer describes the screen, or
\* will from the next separator on: replacements included.
BufferFollows ==
  wire = <<>> /\ slips = {}
    => IF buf.poisoned
       THEN \A s \in Separator : Tracks(FeedBoundary(buf, s), Append(screen, s))
       ELSE Tracks(buf, screen)

\* What is in front of the user is the pending offer: no key is kept from the
\* applications without one, and the tooltip does not outlive its ability to act
\* -- whatever it timed out or was clicked or re-shown in between, once its
\* events have arrived it shows the pending offer or nothing.
OfferInFront ==
  /\ armed => offer # NoOffer
  /\ outs = <<>> /\ tip # 0 => offer.generation = tip

\* A time-out of one tooltip never ends another offer: an offer only goes with
\* its own generation, by a press, or by the engine.
TimeoutIsOwn ==
  [][cmds # <<>> /\ Head(cmds).kind = "timeout" /\ cmds' = Tail(cmds)
       /\ offer # NoOffer /\ Head(cmds).generation # offer.generation
     => offer' = offer]_vars

\* "A click elsewhere is voided by the first following keypress or the grace
\* lapsing": an accept by key never replaces text the caret has left.
KeyAcceptInPlace == done.by = "key" => done.right

\* "After a finished word in the trail it names that one, retyped as it was":
\* BufferFollows for every replacement, whatever word the stash names.
StashNamesOffered ==
  wire = <<>> /\ slips \subseteq {"mistaken"} /\ ~buf.poisoned => Tracks(buf, screen)
=============================================================================
