------------------------------ MODULE Correction ------------------------------
(***************************************************************************)
(* One run of apply_correction(): the word left of the caret is deleted    *)
(* and typed again in another layout while the user keeps typing.          *)
(*                                                                         *)
(* The engine thread and the user's fingers are two processes.  A press of *)
(* the user reaches the focused application and the engine's channel in    *)
(* one step; while the key gate holds the keyboard it reaches the channel  *)
(* only.  Every keystroke the engine emits is a step of its own, so a      *)
(* press may land between any two of them.  Deadlines and the counts of    *)
(* quiet probes are choices: a loop that may end, may end after any probe. *)
(* The echoes of emitted keys, which drain_correction_window() consumes,   *)
(* are left out, and every key is one character on the screen.             *)
(***************************************************************************)
EXTENDS WordBuffer, FiniteSets

CONSTANTS
  Submit,      \* the separators that submit (is_submission_scancode)
  Backspace,   \* a press of the user that is none of the above ...
  Shortcut,    \* ... and one with a command modifier
  Word,        \* the word under correction
  Before,      \* the text in front of it
  Repairs,     \* INTRUSION_REPAIRS (2 in the code)
  MaxPresses   \* bound: presses of the user while the correction runs

Rounds == 3    \* send_backspaces() rounds of one deletion

ASSUME CorrectionAssumption ==
  /\ Submit \subseteq Separator
  /\ Backspace \notin Char /\ Shortcut \notin Char /\ Backspace # Shortcut
  /\ NoKey \notin Char \cup {Backspace, Shortcut}
  /\ Word \in Seq(Letter) \ {<<>>}
  /\ Before \in Seq(Char)
  /\ Repairs \in Nat
  /\ MaxPresses \in Nat

VARIABLES
  pc,        \* where apply_correction() is; "run" is the run loop after it
  screen,    \* the text left of the caret: [key, layout] cells
  wire,      \* the channel: presses not drained yet, [key, shown]
  typed,     \* history: every press of the user, in order
  layout,    \* the layout the desktop is in
  trigger,   \* the key that asked for the correction is down
  held,      \* the key gate keeps the keyboard from the application
  c,         \* the locals of apply_correction()
  buf,       \* the engine's WordBuffer
  result,    \* what apply_correction() returned
  slips      \* history: the known ways of going wrong this run went

vars == <<pc, screen, wire, typed, layout, trigger, held, c, buf, result, slips>>

Key == Char \cup {Backspace, Shortcut}

Locals ==
  [ target     : Seq(Char),                \* replay_keys: word and boundary
    tail       : Seq(Letter),
    resume     : Separator \cup {NoKey},
    suspicious : BOOLEAN,
    toDelete   : Nat,
    round      : 0..Rounds - 1,
    out        : Seq(Char),                \* the part of a burst not sent yet
    emitted    : Nat,
    intruders  : Nat,
    repairs    : 0..Repairs,
    postTail   : Seq(Letter),
    postResume : Separator \cup {NoKey} ]

Slip == {"late", "rounds", "raced", "swallowed", "emitFailed", "untracked",
         "outlived"}

\* Every variable has its type.
TypeOK ==
  /\ pc \in {"wait", "preflight", "absorb", "verify", "delete", "replay",
             "flush", "release", "sweep", "probe", "settle", "seed", "run"}
  /\ screen \in Seq([key : Char, layout : {"from", "to"}])
  /\ wire \in Seq([key : Key, shown : BOOLEAN])
  /\ typed \in Seq(Key)
  /\ layout \in {"from", "to"}
  /\ trigger \in BOOLEAN /\ held \in BOOLEAN
  /\ c \in Locals
  /\ buf \in Buffer
  /\ result \in {"none", "true", "false"}
  /\ slips \subseteq Slip

-----------------------------------------------------------------------------
(* Text on the screen. *)

Keys(text) == [i \in DOMAIN text |-> text[i].key]

In(lay, keys) == [i \in DOMAIN keys |-> [key |-> keys[i], layout |-> lay]]

\* What one keypress does to the text.
Struck(text, lay, k) ==
  IF k \in Char THEN text \o In(lay, <<k>>)
  ELSE IF k = Backspace THEN RubOut(text) ELSE text

Optional(k) == IF k = NoKey THEN <<>> ELSE <<k>>

-----------------------------------------------------------------------------
(***************************************************************************)
(* drain_correction_window(): word keys up to the first press that is not  *)
(* one.  That press is taken off the channel too, what follows stays.      *)
(***************************************************************************)
Drain ==
  LET n    == CHOOSE m \in 0..Len(wire) :
                /\ \A i \in 1..m : wire[i].key \in Letter
                /\ m < Len(wire) => wire[m + 1].key \notin Letter
      stop == IF n < Len(wire) THEN wire[n + 1].key ELSE NoKey
      took == IF n < Len(wire) THEN n + 1 ELSE n
  IN  [ words      |-> Keys(SubSeq(wire, 1, n)),
        resume     |-> IF stop \in Separator THEN stop ELSE NoKey,
        stopper    |-> IF stop = Backspace THEN stop ELSE NoKey,
        suspicious |-> stop \in {Backspace, Shortcut},
        presses    |-> SubSeq(wire, 1, took),
        rest       |-> SubSeq(wire, took + 1, Len(wire)) ]

\* A boundary is kept for later, unless it submits or is the second one.
Resumable(l, d) ==
  d.resume # NoKey /\ d.resume \notin Submit /\ l.resume = NoKey

Take(l, d) ==
  [l EXCEPT !.tail       = @ \o d.words,
            !.resume     = IF Resumable(l, d) THEN d.resume ELSE @,
            !.suspicious = @ \/ d.suspicious
                             \/ (d.resume # NoKey /\ ~Resumable(l, d))]

\* Mutant: only the word keys of a window are counted.
MutCost(l, d) == Len(d.words)

\* The characters a drained window left on the screen (where it is kept).
Cost(l, d) == Len(d.words) + IF Resumable(l, d) THEN 1 ELSE 0

\* A word key joins a list that the boundary in front of it is not part of.
Late(resume, d) ==
  IF resume # NoKey /\ d.words # <<>> THEN {"late"} ELSE {}

\* Among the presses to be typed out is one that reached the application.
Raced == IF \E i \in DOMAIN wire : wire[i].shown THEN {"raced"} ELSE {}

\* A press the gate kept from the application is dropped without a replay.
Swallowed(d) ==
  IF \E i \in DOMAIN d.presses : d.presses[i].key \in Char /\ ~d.presses[i].shown
  THEN {"swallowed"} ELSE {}

\* Mutant: the boundary is replayed whether there is one or not.
MutFull(l) == l.target \o l.tail \o <<l.resume>>

\* The replay: word, boundary, tail and the boundary after it.
Full(l) == l.target \o l.tail \o Optional(l.resume)

SeedBuffer(b, tail) ==
  LET fed[i \in 0..Len(tail)] ==
        IF i = 0 THEN b ELSE FeedWord(fed[i - 1], tail[i])
  IN  fed[Len(tail)]

FeedOptional(b, s) == IF s = NoKey THEN b ELSE FeedBoundary(b, s)

-----------------------------------------------------------------------------
Locals0(target) ==
  [ target |-> target, tail |-> <<>>, resume |-> NoKey, suspicious |-> FALSE,
    toDelete |-> 0, round |-> 0, out |-> <<>>, emitted |-> 0, intruders |-> 0,
    repairs |-> Repairs, postTail |-> <<>>, postResume |-> NoKey ]

\* The word is either completed, its boundary on the screen, or in progress.
Init ==
  /\ pc = "wait"
  /\ \/ \E s \in Separator \ Submit :
          /\ c = Locals0(Append(Word, s))
          /\ buf = [FreshBuffer EXCEPT !.prevWord = Word, !.lead = s,
                                       !.boundaryRun = <<s>>]
     \/ /\ c = Locals0(Word)
        /\ buf = [FreshBuffer EXCEPT !.keys = Word]
  /\ screen = In("from", Before \o c.target)
  /\ wire = <<>> /\ typed = <<>>
  /\ layout = "from"
  /\ trigger \in BOOLEAN
  /\ held = FALSE
  /\ result = "none"
  /\ slips = {}

-----------------------------------------------------------------------------
(* The user and the desktop. *)

Press(k) ==
  /\ pc # "run" /\ Len(typed) < MaxPresses
  /\ typed' = Append(typed, k)
  /\ wire' = Append(wire, [key |-> k, shown |-> ~held])
  /\ screen' = IF held THEN screen ELSE Struck(screen, layout, k)
  /\ UNCHANGED <<pc, layout, trigger, held, c, buf, result, slips>>

LiftTrigger ==
  /\ trigger
  /\ trigger' = FALSE
  /\ UNCHANGED <<pc, screen, wire, typed, layout, held, c, buf, result, slips>>

\* A settings daemon that owns the layout puts its own back.
DesktopPutsBack ==
  /\ pc \in {"absorb", "verify"}
  /\ layout = "to"
  /\ layout' = "from"
  /\ UNCHANGED <<pc, screen, wire, typed, trigger, held, c, buf, result, slips>>

-----------------------------------------------------------------------------
(* Before the first emitted key. *)

Return(value) == pc' = "run" /\ result' = value

Absorbed == c.tail # <<>> \/ c.resume # NoKey \/ c.suspicious

\* The finger is still on the hotkey: collect what is typed meanwhile.
WaitProbe ==
  /\ pc = "wait"
  /\ trigger /\ ~c.suspicious /\ c.resume = NoKey
  /\ c' = [c EXCEPT !.tail = @ \o Drain.words, !.resume = Drain.resume,
                    !.suspicious = Drain.suspicious]
  /\ wire' = Drain.rest
  /\ UNCHANGED <<pc, screen, typed, layout, trigger, held, buf, result, slips>>

\* Mutant: only something absorbed ends the wait, there is no deadline.
MutWaitGivesUp ==
  /\ pc = "wait" /\ trigger
  /\ Absorbed
  /\ buf' = Poison(SeedBuffer(buf, c.tail))
  /\ Return("false")
  /\ UNCHANGED <<screen, wire, typed, layout, trigger, held, c, slips>>

WaitGivesUp ==
  /\ pc = "wait" /\ trigger
  /\ buf' = IF Absorbed THEN Poison(SeedBuffer(buf, c.tail)) ELSE buf
  /\ Return("false")
  /\ UNCHANGED <<screen, wire, typed, layout, trigger, held, c, slips>>

WaitOver ==
  /\ pc = "wait" /\ ~trigger
  /\ pc' = "preflight"
  /\ UNCHANGED <<screen, wire, typed, layout, trigger, held, c, buf, result, slips>>

Untracked == IF Absorbed THEN {"untracked"} ELSE {}

\* The target layout is not active any more, or switch_to() fails.
PreflightFails ==
  /\ pc = "preflight"
  /\ Return("false")
  /\ slips' = slips \cup Untracked
  /\ UNCHANGED <<screen, wire, typed, layout, trigger, held, c, buf>>

SwitchLayout ==
  /\ pc = "preflight"
  /\ layout' = "to"
  /\ pc' = "absorb"
  /\ UNCHANGED <<screen, wire, typed, trigger, held, c, buf, result, slips>>

AbsorbProbe ==
  /\ pc = "absorb"
  /\ c' = Take(c, Drain)
  /\ wire' = Drain.rest
  /\ slips' = slips \cup Late(c.resume, Drain)
  /\ pc' \in IF Drain.resume # NoKey \/ c'.suspicious
             THEN {"verify"} ELSE {"absorb", "verify"}
  /\ UNCHANGED <<screen, typed, layout, trigger, held, buf, result>>

AbsorbAborts ==
  /\ pc = "verify" /\ c.suspicious
  /\ buf' = Poison(SeedBuffer(buf, c.tail))
  /\ Return("false")
  /\ UNCHANGED <<screen, wire, typed, layout, trigger, held, c, slips>>

\* The switch did not hold and no shortcut of the desktop's brings it back.
SwitchLost ==
  /\ pc = "verify" /\ ~c.suspicious
  /\ layout = "from"
  /\ Return("false")
  /\ slips' = slips \cup Untracked
  /\ UNCHANGED <<screen, wire, typed, layout, trigger, held, c, buf>>

\* The switch held, or the shortcut restored it; the gate may be taken.
StartBurst ==
  /\ pc = "verify" /\ ~c.suspicious
  /\ layout' = "to"
  /\ held' \in BOOLEAN
  /\ c' = [c EXCEPT !.toDelete = Len(Full(c))]
  /\ pc' = "delete"
  /\ UNCHANGED <<screen, wire, typed, trigger, buf, result, slips>>

-----------------------------------------------------------------------------
(* Delete and replay. *)

DeleteOne ==
  /\ pc = "delete" /\ c.toDelete > 0
  /\ screen' = RubOut(screen)
  /\ c' = [c EXCEPT !.toDelete = @ - 1]
  /\ UNCHANGED <<pc, wire, typed, layout, trigger, held, buf, result, slips>>

Replaying(l) == [l EXCEPT !.out = Full(l), !.emitted = Len(Full(l)), !.round = 0]

\* Nothing of the user's reached the screen: nothing to compensate for.
DeletedHeld ==
  /\ pc = "delete" /\ c.toDelete = 0 /\ held
  /\ c' = Replaying(c)
  /\ pc' = "replay"
  /\ UNCHANGED <<screen, wire, typed, layout, trigger, held, buf, result, slips>>

\* Mutant: an unattributable key still aborts, after the deletion.
MutDeleteProbe ==
  /\ pc = "delete" /\ c.toDelete = 0 /\ ~held
  /\ wire' = Drain.rest
  /\ slips' = slips
  /\ IF Take(c, Drain).suspicious
     THEN /\ c' = Take(c, Drain)
          /\ buf' = Poison(buf)
          /\ Return("false")
     ELSE /\ c' = Replaying(Take(c, Drain))
          /\ pc' = "replay"
          /\ UNCHANGED <<buf, result>>
  /\ UNCHANGED <<screen, typed, layout, trigger, held>>

DeleteProbe ==
  /\ pc = "delete" /\ c.toDelete = 0 /\ ~held
  /\ wire' = Drain.rest
  /\ LET l     == Take(c, Drain)
         extra == Cost(c, Drain)
         late  == Late(c.resume, Drain)
     IN  IF extra > 0 /\ c.round < Rounds - 1
         THEN /\ c' = [l EXCEPT !.toDelete = extra, !.round = @ + 1]
              /\ pc' = pc
              /\ slips' = slips \cup late
         ELSE /\ c' = Replaying(l)
              /\ pc' = "replay"
              /\ slips' = slips \cup late
                            \cup (IF extra > 0 THEN {"rounds"} ELSE {})
  /\ UNCHANGED <<screen, typed, layout, trigger, held, buf, result>>

ReplayOne ==
  /\ pc = "replay" /\ c.out # <<>>
  /\ screen' = Struck(screen, layout, Head(c.out))
  /\ c' = [c EXCEPT !.out = Tail(@)]
  /\ UNCHANGED <<pc, wire, typed, layout, trigger, held, buf, result, slips>>

ReplayDone ==
  /\ pc = "replay" /\ c.out = <<>>
  /\ pc' = IF held THEN "flush" ELSE IF c.suspicious THEN "settle" ELSE "probe"
  /\ c' = [c EXCEPT !.intruders = 0]
  /\ UNCHANGED <<screen, wire, typed, layout, trigger, held, buf, result, slips>>

\* The emitter fails at some key of a burst; dropping HeldKeys releases.
EmitFails ==
  /\ pc \in {"delete", "replay"}
  /\ c.toDelete > 0 \/ c.out # <<>>
  /\ held' = FALSE
  /\ Return("false")
  /\ slips' = slips \cup {"emitFailed"}
  /\ UNCHANGED <<screen, wire, typed, layout, trigger, c, buf>>

-----------------------------------------------------------------------------
(* The gate held the keyboard: type out what it kept. *)

HeldKeysOf(d) == d.words \o Optional(d.resume) \o Optional(d.stopper)

TypeOut(text, d) ==
  LET t == text \o In(layout, d.words \o Optional(d.resume))
  IN  IF d.stopper = Backspace THEN RubOut(t) ELSE t

FlushProbe ==
  /\ pc = "flush"
  /\ c' = Take(c, Drain)
  /\ wire' = Drain.rest
  /\ \/ /\ screen' = TypeOut(screen, Drain)
        /\ pc' \in IF c'.suspicious THEN {"release"} ELSE {"flush", "release"}
        /\ slips' = slips \cup Late(c.resume, Drain) \cup Raced
     \/ /\ HeldKeysOf(Drain) # <<>>   \* emit_held_keys() fails
        /\ screen' = screen
        /\ pc' = "release"
        /\ slips' = slips \cup {"emitFailed"}
  /\ UNCHANGED <<typed, layout, trigger, held, buf, result>>

Release ==
  /\ pc = "release"
  /\ held' = FALSE
  /\ pc' = "sweep"
  /\ UNCHANGED <<screen, wire, typed, layout, trigger, c, buf, result, slips>>

\* One sweep after the release.  A press that came in after it is shown.
Sweep ==
  /\ pc = "sweep"
  /\ c' = Take(c, Drain)
  /\ wire' = Drain.rest
  /\ \/ /\ screen' = TypeOut(screen, Drain)
        /\ slips' = slips \cup Late(c.resume, Drain) \cup Raced
     \/ /\ HeldKeysOf(Drain) # <<>>
        /\ screen' = screen
        /\ slips' = slips \cup {"emitFailed"}
  /\ pc' = "settle"
  /\ UNCHANGED <<typed, layout, trigger, held, buf, result>>

-----------------------------------------------------------------------------
(* It did not: look for keys that landed inside the replay. *)

\* Mutant: the repair counts the tail twice.
MutRepair(l) == l.emitted + l.intruders + Len(l.tail)

\* What a repair deletes: the last burst and what landed inside it.
Repair(l) == l.emitted + l.intruders

IntrusionProbe ==
  /\ pc = "probe"
  /\ wire' = Drain.rest
  /\ slips' = slips \cup Late(c.resume, Drain)
  /\ LET l == [Take(c, Drain) EXCEPT !.intruders = @ + Cost(c, Drain)]
     IN  \/ /\ l.suspicious \/ l.intruders = 0
            /\ c' = l /\ pc' = "settle"
         \/ /\ ~l.suspicious /\ l.intruders > 0          \* keep waiting
            /\ c' = l /\ pc' = "probe"
         \/ /\ ~l.suspicious /\ l.intruders > 0          \* a pause came
            /\ Drain.presses = <<>> /\ l.repairs > 0
            /\ c' = [l EXCEPT !.repairs = @ - 1, !.toDelete = Repair(l)]
            /\ pc' = "delete"
         \/ /\ ~l.suspicious /\ l.intruders > 0          \* no pause, no budget
            /\ c' = [l EXCEPT !.suspicious = TRUE] /\ pc' = "settle"
  /\ UNCHANGED <<screen, typed, layout, trigger, held, buf, result>>

-----------------------------------------------------------------------------
(* Settle and seed. *)

\* Presses of before outlive the taint: the run loop reads them after it, and
\* a boundary among them lifts it.
Outlived == IF c'.suspicious /\ Drain.rest # <<>> THEN {"outlived"} ELSE {}

SettleProbe ==
  /\ pc = "settle"
  /\ LET again == c.postResume # NoKey \/ Drain.resume \in Submit
         keep  == Drain.resume # NoKey /\ ~again
     IN  c' = [c EXCEPT !.postTail = @ \o Drain.words,
                        !.postResume = IF keep THEN Drain.resume ELSE @,
                        !.suspicious = @ \/ Drain.suspicious
                                         \/ (Drain.resume # NoKey /\ again)]
  /\ wire' = Drain.rest
  /\ slips' = slips \cup Late(c.postResume, Drain) \cup Swallowed(Drain) \cup Outlived
  /\ pc' \in {"settle", "seed"}
  /\ UNCHANGED <<screen, typed, layout, trigger, held, buf, result>>

\* Mutant: the boundary is fed in front of the word it ended.
MutSeed ==
  /\ pc = "seed"
  /\ buf' = IF c.suspicious THEN Poison(Abandon(buf))
            ELSE LET first == SeedBuffer(FeedOptional(buf, c.resume), c.tail)
                 IN  FeedOptional(SeedBuffer(first, c.postTail), c.postResume)
  /\ Return("true")
  /\ UNCHANGED <<screen, wire, typed, layout, trigger, held, c, slips>>

Seed ==
  /\ pc = "seed"
  /\ buf' = IF c.suspicious THEN Poison(Abandon(buf))
            ELSE LET first == FeedOptional(SeedBuffer(buf, c.tail), c.resume)
                 IN  FeedOptional(SeedBuffer(first, c.postTail), c.postResume)
  /\ Return("true")
  /\ UNCHANGED <<screen, wire, typed, layout, trigger, held, c, slips>>

\* The run loop takes over what is still on the channel.
HandleKey ==
  /\ pc = "run" /\ wire # <<>>
  /\ LET k == Head(wire).key
     IN  buf' = CASE k \in Letter    -> FeedWord(buf, k)
                  [] k \in Separator -> FeedBoundary(buf, k)
                  [] k = Backspace   -> FeedBackspace(buf)
                  [] OTHER           -> MarkContextUnclean(Abandon(buf))
  /\ slips' = slips \cup Swallowed([presses |-> <<Head(wire)>>])
  /\ wire' = Tail(wire)
  /\ UNCHANGED <<pc, screen, typed, layout, trigger, held, c, result>>

Idle == pc = "run" /\ wire = <<>> /\ UNCHANGED vars

-----------------------------------------------------------------------------
Engine ==
  \/ WaitProbe \/ WaitGivesUp \/ WaitOver
  \/ PreflightFails \/ SwitchLayout
  \/ AbsorbProbe \/ AbsorbAborts \/ SwitchLost \/ StartBurst
  \/ DeleteOne \/ DeletedHeld \/ DeleteProbe
  \/ ReplayOne \/ ReplayDone \/ EmitFails
  \/ FlushProbe \/ Release \/ Sweep \/ IntrusionProbe
  \/ SettleProbe \/ Seed \/ HandleKey

Next ==
  \/ \E k \in Key : Press(k)
  \/ LiftTrigger
  \/ DesktopPutsBack
  \/ Engine
  \/ Idle

\* The engine thread keeps running, and every loop of it has a deadline: only
\* a burst and the run loop make progress without moving on.
Forward == Engine /\ (pc' = pc => pc \in {"delete", "replay", "run"})

Spec == Init /\ [][Next]_vars

FairSpec == Spec /\ WF_vars(Forward)

-----------------------------------------------------------------------------
(* Properties. *)

Over == pc = "run" /\ wire = <<>>

PlainTyping == \A i \in DOMAIN typed : typed[i] \in Char

\* At no point of a correction, repairs included, does a deletion reach the
\* text in front of the word, wherever the user's keys land between the
\* backspaces (as long as none of them deletes by itself).
BeforeUntouched ==
  PlainTyping => /\ Len(screen) >= Len(Before)
                 /\ SubSeq(Keys(screen), 1, Len(Before)) = Before

\* A correction that believes in its outcome leaves the word in the new
\* layout and behind it, once and in order, every key typed meanwhile.
RetypedInOrder ==
  Over /\ result = "true" /\ ~c.suspicious /\ PlainTyping /\ slips = {}
    => screen = In("from", Before) \o In("to", c.target \o typed)

\* apply_correction() returning false means the text is untouched, unless
\* it was the emitter that failed.
AbortLeavesText ==
  Over /\ result = "false" /\ PlainTyping /\ "emitFailed" \notin slips
    => Keys(screen) = Before \o c.target \o typed

Recovers ==
  IF buf.poisoned
  THEN \A s \in Separator : Tracks(FeedBoundary(buf, s), Append(Keys(screen), s))
  ELSE Tracks(buf, Keys(screen))

\* Once the channel is empty the buffer describes the screen again; if it is
\* tainted, then from the next boundary on.
BufferRecovers == Over /\ slips = {} => Recovers

\* Whatever the user does, apply_correction() returns, the keyboard is let
\* go and the channel is drained.
Settles == <>[](Over /\ ~held)

\* "re-emitting in typed order", "chronological re-assembly": RetypedInOrder
\* for every correction that knows of nothing suspicious.
RetypedAsTyped ==
  Over /\ result = "true" /\ ~c.suspicious /\ PlainTyping /\ slips \subseteq {"late"}
    => screen = In("from", Before) \o In("to", c.target \o typed)

\* "What we swallowed while waiting is on screen and no longer in the buffer's
\* model of it": a correction that gives up leaves a buffer that recovers.
AbortKeepsTrack ==
  Over /\ result = "false" /\ slips \subseteq {"untracked"} => Recovers

\* "a submission or anything murkier aborts": Enter is never typed again.
SubmissionNeverReplayed == \A i \in DOMAIN c.out : c.out[i] \notin Submit

\* "Everything already on the stream is ours to type out": no key the gate
\* kept from the application is dropped, as long as the emitter works.
HeldKeysTyped == "emitFailed" \notin slips => "swallowed" \notin slips

\* "Held keyboard: nothing of the user's reached the screen, so there is
\* nothing to compensate for".
HeldScreenIsOurs ==
  pc = "delete" /\ held => \A i \in DOMAIN wire : ~wire[i].shown
=============================================================================
