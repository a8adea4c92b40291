---------------------------- MODULE SettingsProofs ----------------------------
(***************************************************************************)
(* Everybody's copy of the settings, for any settings, number of waiting   *)
(* threads and acts of the user.                                           *)
(*                                                                         *)
(* Agree speaks of a moment when nothing is under way; the invariant says  *)
(* what holds on the way there.  At any time the pause flag is led by the  *)
(* engine, while the event loop still has to write it (Pending), or by the *)
(* file, while the watcher still has to tell the engine (Telling); never   *)
(* by both (Orders).                                                       *)
(***************************************************************************)
EXTENDS SettingsSync, TLAPS

\* What a thread is about to use, it has read whole.
Hand(t) == t.st \in {"swap", "write", "rename"} => t.val \in Settings

InHand == Hand(loop) /\ Hand(watcher) /\ \A w \in Waiters : Hand(waiters[w])

\* The tray's icon shows the engine's state once it has read its events.
LastFlip ==
  \/ tray = engine /\ \A i \in DOMAIN events : events[i].kind # "paused"
  \/ \E i \in DOMAIN events :
       /\ events[i].kind = "paused" /\ events[i].to = engine
       /\ \A j \in DOMAIN events : j > i => events[j].kind # "paused"

\* One writer at a time, of a file that is still where the writer made it.
Handles ==
  /\ fd["tray"] = IF loop.st = "write" THEN "tmp" ELSE "none"
  /\ fd["window"] = IF window.st = "write" THEN "tmp" ELSE "none"
  /\ ~(Writing("tray") /\ Writing("window"))
  /\ loop.st = "write" \/ window.st = "write" => tmp = Broken
  /\ loop.st = "rename" => tmp = snapshot
  /\ window.st = "rename" => tmp = window.staged

\* What is being written differs from what was read in what it is for.
Drafts ==
  /\ Locked => snapshot = [loop.val EXCEPT !.paused = tray]
  /\ window.st \in {"create", "write", "rename"} => window.staged.pref = window.told

\* A file the tray does not know, the watcher will read, or has just read.
Sees ==
  config # Broken /\ snapshot # config =>
    \/ moved \/ watcher.st = "read" \/ Locked
    \/ watcher.st = "swap" /\ watcher.val = config

Storing == loop.st = "update" \/ Locked

\* The event loop has a pause of the engine's to write down.
Pending ==
  Storing \/ \E i \in DOMAIN events : events[i].kind = "paused" /\ events[i].to # snapshot.paused

\* The engine has a pause of the file's to follow.
Telling == watcher.st = "send" \/ \E i \in DOMAIN cmds : cmds[i].kind = "set"

\* One SetPaused at a time, for what the tray has read, and none across a
\* pause that goes the other way.
Orders ==
  /\ \A i, j \in DOMAIN cmds : cmds[i].kind = "set" /\ cmds[j].kind = "set" => i = j
  /\ \A i \in DOMAIN cmds :
       cmds[i].kind = "set" => cmds[i].to = snapshot.paused /\ watcher.st # "send"
  /\ Telling => ~Storing /\ \A i \in DOMAIN events : events[i].kind # "paused"

\* Who leads has what the user asked for last.
Follows ==
  /\ ~Pending /\ config # Broken => config.paused = wish
  /\ Pending => engine = wish
  /\ ~Pending /\ ~Telling => engine = snapshot.paused

SavedKept == config # Broken => config.pref = saved

\* Copies that are behind the tray's are about to be renewed.
Renews ==
  chords # snapshot.pref \/ looks # snapshot.pref =>
    \/ \E i \in DOMAIN events : events[i].kind = "changed"
    \/ watcher.st = "send" \/ \E w \in Waiters : waiters[w].st = "send"

Clean == Handles /\ Drafts /\ Sees /\ Orders /\ Follows /\ SavedKept /\ Renews

-----------------------------------------------------------------------------
(* The queues. *)

LEMMA AtTheEnd ==
  ASSUME NEW S, NEW s \in Seq(S), NEW e \in S
  PROVE  /\ Append(s, e) \in Seq(S)
         /\ \A i \in DOMAIN s : /\ i \in DOMAIN Append(s, e) /\ Append(s, e)[i] = s[i]
                                /\ i \in Nat /\ i < Len(s) + 1
         /\ Len(s) + 1 \in DOMAIN Append(s, e) /\ Append(s, e)[Len(s) + 1] = e
         /\ Len(s) + 1 \in Nat
         /\ \A i \in DOMAIN Append(s, e) : i \in DOMAIN s \/ i = Len(s) + 1
  OBVIOUS

LEMMA BehindHead ==
  ASSUME NEW S, NEW s \in Seq(S), s # <<>>
  PROVE  /\ Tail(s) \in Seq(S) /\ Head(s) \in S
         /\ 1 \in DOMAIN s /\ s[1] = Head(s)
         /\ \A i \in DOMAIN Tail(s) : /\ i + 1 \in DOMAIN s /\ Tail(s)[i] = s[i + 1]
                                      /\ i \in Nat /\ i + 1 # 1
         /\ \A i \in DOMAIN s : i \in Nat /\ (i = 1 \/ /\ i - 1 \in DOMAIN Tail(s)
                                                       /\ Tail(s)[i - 1] = s[i])
  OBVIOUS

LEMMA Entries ==
  ASSUME NEW S, NEW s \in Seq(S)
  PROVE  \A i \in DOMAIN s : s[i] \in S /\ i \in Nat
  OBVIOUS

LEMMA NothingIn == DOMAIN <<>> = {}
  OBVIOUS

-----------------------------------------------------------------------------
(* Types. *)

LEMMA ThreadTypes ==
  /\ Defaults \in Settings /\ Settings \subseteq Content /\ Broken \in Content
  /\ Absent \notin Content /\ Broken \notin Settings
  /\ Idle \in Thread /\ Hand(Idle)
  /\ \A val \in Content : \A st \in {"read", "send", "update", "wait"} :
       At(st, val) \in Thread /\ Hand(At(st, val))
  /\ \A val \in Settings : \A st \in {"swap", "write", "rename"} :
       At(st, val) \in Thread /\ Hand(At(st, val))
BY SettingsAssumption DEF SettingsAssumption, Defaults, Settings, Content, Idle, At, Thread, Hand

Files ==
  /\ config \in Content /\ tmp \in Content \cup {Absent}
  /\ fd \in [{"tray", "window"} -> {"none", "tmp", "config", "lost"}]
  /\ \A w \in DOMAIN fd : fd[w] = "tmp" => tmp # Absent
  /\ moved \in BOOLEAN

Slip0 == {"swallowed", "reloaded", "overwritten", "raced", "stale", "torn",
          "quit", "defaults", "chosen", "crossed"}

InForce == engine \in BOOLEAN /\ tray \in BOOLEAN /\ chords \in Prefs /\ looks \in Prefs

Queues == cmds \in Seq(Command) /\ events \in Seq(UserEvent)

Kept == wish \in BOOLEAN /\ saved \in Prefs /\ slips \subseteq Slip0

WindowOK ==
  window \in [st : {"closed", "open", "create", "write", "rename"},
              settings : Settings, store : Settings, staged : Settings,
              chosen : BOOLEAN, picked : BOOLEAN, told : Prefs]

Threads ==
  /\ loop \in Thread /\ watcher \in Thread /\ waiters \in [Waiters -> Thread]
  /\ Hand(loop) /\ Hand(watcher) /\ \A w \in Waiters : Hand(waiters[w])

\* The types, part by part.
Whole == /\ Files /\ InForce /\ Queues /\ Kept /\ WindowOK /\ Threads
         /\ snapshot \in Settings /\ acts \in 0..MaxActs

LEMMA WholeIsTyped == Whole <=> TypeOK /\ InHand
BY DEF Whole, Files, InForce, Queues, Kept, Slip0, WindowOK, Threads, TypeOK, InHand

LEMMA CreateTypes ==
  ASSUME Files, NEW w \in {"tray", "window"}, Create(w)
  PROVE  Files'
BY ThreadTypes DEF Create, Files

LEMMA WriteTypes ==
  ASSUME Files, NEW w \in {"tray", "window"}, NEW new \in Settings, Write(w, new)
  PROVE  Files'
<1>1. Over(tmp, new) \subseteq Content /\ Over(config, new) \subseteq Content
  BY ThreadTypes DEF Over
<1>2. Absent \notin Over(tmp, new)
  BY <1>1, ThreadTypes
<1>3. fd' = [fd EXCEPT ![w] = "none"]
  BY DEF Write
<1>4. fd' \in [{"tray", "window"} -> {"none", "tmp", "config", "lost"}]
  BY <1>3 DEF Files
<1>5. CASE fd[w] = "tmp"
  BY <1>1, <1>2, <1>3, <1>4, <1>5 DEF Write, Files
<1>6. CASE fd[w] = "config"
  BY <1>1, <1>3, <1>4, <1>6 DEF Write, Files
<1>7. CASE fd[w] \notin {"tmp", "config"}
  BY <1>3, <1>4, <1>7 DEF Write, Files
<1>8. QED
  BY <1>5, <1>6, <1>7

LEMMA RenameTypes ==
  ASSUME Files, Rename
  PROVE  Files'
<1>1. CASE Renamed
  <2>1. /\ config' = tmp /\ tmp' = Absent /\ moved' = TRUE
        /\ fd' = [w \in DOMAIN fd |-> CASE fd[w] = "tmp" -> "config"
                                        [] fd[w] = "config" -> "lost"
                                        [] OTHER -> fd[w]]
    BY <1>1 DEF Rename
  <2>2. DOMAIN fd = {"tray", "window"}
    BY DEF Files
  <2>3. \A w \in {"tray", "window"} : fd'[w] \in {"none", "config", "lost"}
    BY <2>1, <2>2 DEF Files
  <2>4. fd' \in [{"tray", "window"} -> {"none", "tmp", "config", "lost"}]
    BY <2>1, <2>2, <2>3
  <2>5. QED
    BY <1>1, <2>1, <2>3, <2>4 DEF Files, Renamed
<1>2. CASE ~Renamed
  BY <1>2 DEF Rename, disk, Files
<1>3. QED
  BY <1>1, <1>2

LEMMA EnqueuedTypes ==
  ASSUME Queues
  PROVE  /\ \A k \in {"toggle", "set"}, b \in BOOLEAN :
              Append(cmds, [kind |-> k, to |-> b]) \in Seq(Command)
         /\ \A k \in {"paused", "changed"}, b \in BOOLEAN :
              Append(events, [kind |-> k, to |-> b]) \in Seq(UserEvent)
         /\ <<>> \in Seq(Command) /\ <<>> \in Seq(UserEvent)
         /\ cmds # <<>> => Tail(cmds) \in Seq(Command) /\ Head(cmds) \in Command
         /\ events # <<>> => Tail(events) \in Seq(UserEvent) /\ Head(events) \in UserEvent
<1>1. \A k \in {"toggle", "set"}, b \in BOOLEAN : [kind |-> k, to |-> b] \in Command
  BY DEF Command
<1>2. \A k \in {"paused", "changed"}, b \in BOOLEAN : [kind |-> k, to |-> b] \in UserEvent
  BY DEF UserEvent
<1>3. QED
  BY <1>1, <1>2, AtTheEnd, BehindHead DEF Queues

LEMMA FlipTypes ==
  ASSUME Queues, engine \in BOOLEAN, Flip
  PROVE  engine' \in BOOLEAN /\ events' \in Seq(UserEvent)
BY EnqueuedTypes DEF Flip

LEMMA SlipTypes ==
  ASSUME Kept, NEW s \in Slip0, NEW happened, Slip(s, happened)
  PROVE  slips' \subseteq Slip0
BY DEF Kept, Slip

LEMMA HandleCommandTypes == ASSUME Whole, HandleCommand PROVE Whole'
<1>1. /\ cmds # <<>> /\ cmds' = Tail(cmds)
      /\ UNCHANGED <<config, tmp, fd, moved, snapshot, tray, chords, looks, loop, watcher,
                     waiters, window, acts, saved>>
  BY DEF HandleCommand, disk
<1>2. cmds' \in Seq(Command) /\ Head(cmds) \in Command
  BY <1>1, EnqueuedTypes DEF Whole
<1>3. engine' \in BOOLEAN /\ events' \in Seq(UserEvent) /\ wish' \in BOOLEAN
        /\ slips' \subseteq Slip0
  <2>1. CASE Head(cmds).kind = "toggle"
    <3>1. /\ Flip /\ wish' = ~engine
          /\ Slip("crossed", \/ watcher.st # "idle"
                             \/ \E i \in DOMAIN Tail(cmds) : Tail(cmds)[i].kind = "set")
      BY <2>1 DEF HandleCommand, Toggle
    <3>2. engine' \in BOOLEAN /\ events' \in Seq(UserEvent)
      BY <3>1, FlipTypes DEF Whole, InForce
    <3>3. slips' \subseteq Slip0
      BY <3>1, SlipTypes DEF Whole, Slip0
    <3>4. QED
      BY <3>1, <3>2, <3>3 DEF Whole, InForce
  <2>2. CASE Head(cmds).kind # "toggle"
    <3>1. /\ engine' \in BOOLEAN /\ events' \in Seq(UserEvent)
      <4>1. SetPaused(Head(cmds).to)
        BY <2>2 DEF HandleCommand
      <4>2. QED
        BY <4>1, FlipTypes DEF SetPaused, Whole, InForce, Queues
    <3>2. UNCHANGED <<wish, slips>>
      BY <2>2 DEF HandleCommand
    <3>3. QED
      BY <3>1, <3>2 DEF Whole, Kept
  <2>3. QED
    BY <2>1, <2>2
<1>4. QED
  BY <1>1, <1>2, <1>3 DEF Whole, Files, InForce, Queues, Kept, WindowOK, Threads

LEMMA PauseKeyTypes == ASSUME Whole, PauseKey PROVE Whole'
<1>1. /\ Flip /\ wish' = ~engine /\ acts < MaxActs /\ acts' = acts + 1
      /\ UNCHANGED <<config, tmp, fd, moved, snapshot, tray, chords, looks, cmds, loop,
                     watcher, waiters, window, saved>>
  BY DEF PauseKey, Toggle, Act, disk
<1>2. engine' \in BOOLEAN /\ events' \in Seq(UserEvent) /\ wish' \in BOOLEAN
  BY <1>1, FlipTypes DEF Whole, InForce
<1>3. slips' \subseteq Slip0
  <2>1. Slip("crossed", watcher.st # "idle" \/ \E i \in DOMAIN cmds : cmds[i].kind = "set")
    BY DEF PauseKey, Toggle
  <2>2. QED
    BY <2>1, SlipTypes DEF Whole, Slip0
<1>4. acts' \in 0..MaxActs
  BY <1>1, SettingsAssumption DEF Whole, SettingsAssumption
<1>5. QED
  BY <1>1, <1>2, <1>3, <1>4 DEF Whole, Files, InForce, Queues, Kept, WindowOK, Threads

LEMMA EventLoopTypes == ASSUME Whole, EventLoop \/ ReloadClicked PROVE Whole'
<1>1. CASE HandlePaused
  <2>1. /\ events # <<>> /\ events' = Tail(events) /\ tray' = Head(events).to
        /\ loop' \in {At("update", Defaults), loop}
        /\ UNCHANGED <<config, tmp, fd, moved, snapshot, engine, chords, looks, cmds, wish,
                       saved, slips, watcher, waiters, window, acts>>
    BY <1>1 DEF HandlePaused, disk, history, others
  <2>2. events' \in Seq(UserEvent) /\ Head(events) \in UserEvent
    BY <2>1, EnqueuedTypes DEF Whole
  <2>3. loop' \in Thread /\ Hand(loop')
    BY <2>1, ThreadTypes DEF Whole, Threads
  <2>4. tray' \in BOOLEAN
    BY <2>1, <2>2 DEF UserEvent
  <2>5. QED
    BY <2>1, <2>2, <2>3, <2>4 DEF Whole, Files, InForce, Queues, Kept, WindowOK, Threads, Hand
<1>2. CASE Update
  <2>1. /\ snapshot' = [snapshot EXCEPT !.paused = tray] /\ Create("tray")
        /\ loop' = At("write", snapshot) /\ Slip("torn", Writing("window"))
        /\ UNCHANGED <<engine, tray, chords, looks, cmds, events, wish, saved, watcher,
                       waiters, window, acts>>
    BY <1>2 DEF Update, inForce, channels, others
  <2>2. Files'
    BY <2>1, CreateTypes DEF Whole
  <2>3. loop' \in Thread /\ Hand(loop')
    BY <2>1, ThreadTypes DEF Whole
  <2>4. slips' \subseteq Slip0
    BY <2>1, SlipTypes DEF Whole, Slip0
  <2>5. snapshot' \in Settings
    BY <2>1 DEF Whole, InForce, Settings
  <2>6. QED
    BY <2>1, <2>2, <2>3, <2>4, <2>5 DEF Whole, InForce, Queues, Kept, WindowOK, Threads, Hand
<1>3. CASE UpdateWrites
  <2>1. /\ loop.st = "write" /\ Write("tray", snapshot) /\ loop' = [loop EXCEPT !.st = "rename"]
        /\ UNCHANGED <<snapshot, engine, tray, chords, looks, cmds, events, wish, saved, slips,
                       watcher, waiters, window, acts>>
    BY <1>3 DEF UpdateWrites, inForce, channels, history, others
  <2>2. Files'
    BY <2>1, WriteTypes DEF Whole
  <2>3. loop' \in Thread /\ Hand(loop')
    BY <2>1 DEF Whole, Threads, Thread, Hand
  <2>4. QED
    BY <2>1, <2>2, <2>3 DEF Whole, InForce, Queues, Kept, WindowOK, Threads, Hand
<1>4. CASE UpdateRenames
  <2>1. /\ Rename /\ loop' = Idle /\ Slip("overwritten", config # loop.val)
        /\ UNCHANGED <<snapshot, engine, tray, chords, looks, cmds, events, wish, saved,
                       watcher, waiters, window, acts>>
    BY <1>4 DEF UpdateRenames, inForce, channels, others
  <2>2. Files'
    BY <2>1, RenameTypes DEF Whole
  <2>3. loop' \in Thread /\ Hand(loop')
    BY <2>1, ThreadTypes
  <2>4. slips' \subseteq Slip0
    BY <2>1, SlipTypes DEF Whole, Slip0
  <2>5. QED
    BY <2>1, <2>2, <2>3, <2>4 DEF Whole, InForce, Queues, Kept, WindowOK, Threads, Hand
<1>5. CASE HandleChanged
  <2>1. /\ events # <<>> /\ events' = Tail(events)
        /\ chords' = snapshot.pref /\ looks' = snapshot.pref
        /\ UNCHANGED <<config, tmp, fd, moved, snapshot, engine, tray, cmds, loop, wish, saved,
                       slips, watcher, waiters, window, acts>>
    BY <1>5 DEF HandleChanged, disk, history, others
  <2>2. events' \in Seq(UserEvent) /\ snapshot.pref \in Prefs
    BY <2>1, EnqueuedTypes DEF Whole, Settings
  <2>3. QED
    BY <2>1, <2>2 DEF Whole, Files, InForce, Queues, Kept, WindowOK, Threads, Hand
<1>6. CASE ReloadSwaps
  <2>1. /\ loop.st = "swap" /\ snapshot' = loop.val /\ loop' = Idle
        /\ chords' = IF Changed(loop.val) THEN loop.val.pref ELSE chords
        /\ slips' = slips \cup (IF Changed(loop.val) THEN {"reloaded"} ELSE {})
        /\ UNCHANGED <<config, tmp, fd, moved, engine, tray, looks, cmds, events, wish, saved,
                       watcher, waiters, window, acts>>
    BY <1>6 DEF ReloadSwaps, disk, channels, others
  <2>2. loop.val \in Settings /\ loop.val.pref \in Prefs
    BY <2>1 DEF Whole, Threads, Hand, Settings
  <2>3. loop' \in Thread /\ Hand(loop')
    BY <2>1, ThreadTypes
  <2>4. slips' \subseteq Slip0
    BY <2>1 DEF Whole, Kept, Slip0
  <2>5. QED
    BY <2>1, <2>2, <2>3, <2>4 DEF Whole, Files, InForce, Queues, Kept, WindowOK, Threads, Hand
<1>7. CASE ReloadClicked
  <2>1. /\ loop' = Read(loop) /\ acts < MaxActs /\ acts' = acts + 1
        /\ UNCHANGED <<config, tmp, fd, moved, snapshot, engine, tray, chords, looks, cmds,
                       events, wish, saved, slips, watcher, waiters, window>>
    BY <1>7 DEF ReloadClicked, disk, inForce, channels, history
  <2>2. loop' \in Thread /\ Hand(loop')
    BY <2>1, ThreadTypes DEF Read, Whole, Files, Content
  <2>3. acts' \in 0..MaxActs
    BY <2>1, SettingsAssumption DEF Whole, SettingsAssumption
  <2>4. QED
    BY <2>1, <2>2, <2>3 DEF Whole, Files, InForce, Queues, Kept, WindowOK, Threads, Hand
<1>8. QED
  BY <1>1, <1>2, <1>3, <1>4, <1>5, <1>6, <1>7 DEF EventLoop

LEMMA WatcherTypes == ASSUME Whole, Watcher PROVE Whole'
<1>1. UNCHANGED <<config, tmp, fd, engine, tray, chords, looks, loop, waiters, window, acts,
                  wish, saved>>
  BY DEF Watcher, WatcherStats, WatcherReads, WatcherSwaps, WatcherSends, disk, inForce,
         channels, history, aside
<1>2. moved' \in BOOLEAN
  BY DEF Watcher, WatcherStats, WatcherReads, WatcherSwaps, WatcherSends, disk, Whole, Files
<1>3. watcher' \in Thread /\ Hand(watcher')
  <2>1. Read(watcher) \in Thread /\ Hand(Read(watcher))
    BY ThreadTypes DEF Read, Whole, Files, Content
  <2>2. QED
    BY <2>1, ThreadTypes DEF Watcher, WatcherStats, WatcherReads, WatcherSwaps, WatcherSends
<1>4. snapshot' \in Settings
  <2>1. CASE WatcherSwaps
    BY <2>1 DEF WatcherSwaps, Swap, Whole, Threads, Hand
  <2>2. CASE ~WatcherSwaps
    BY <2>2 DEF Watcher, WatcherStats, WatcherReads, WatcherSends, Whole
  <2>3. QED
    BY <2>1, <2>2
<1>5. slips' \subseteq Slip0
  <2>1. CASE WatcherSwaps
    BY <2>1 DEF WatcherSwaps, Whole, Kept, Slip0
  <2>2. CASE ~WatcherSwaps
    BY <2>2 DEF Watcher, WatcherStats, WatcherReads, WatcherSends, history, Whole, Kept
  <2>3. QED
    BY <2>1, <2>2
<1>6. cmds' \in Seq(Command) /\ events' \in Seq(UserEvent)
  <2>1. CASE WatcherSends
    <3>1. snapshot.paused \in BOOLEAN
      BY DEF Whole, Settings
    <3>2. QED
      BY <2>1, <3>1, EnqueuedTypes DEF WatcherSends, Whole
  <2>2. CASE ~WatcherSends
    BY <2>2 DEF Watcher, WatcherStats, WatcherReads, WatcherSwaps, channels, Whole, Queues
  <2>3. QED
    BY <2>1, <2>2
<1>7. QED
  BY <1>1, <1>2, <1>3, <1>4, <1>5, <1>6
     DEF Whole, Files, InForce, Queues, Kept, WindowOK, Threads, Hand

LEMMA WaiterTypes == ASSUME Whole, NEW w \in Waiters, Waiter(w) PROVE Whole'
<1>1. UNCHANGED <<config, tmp, fd, moved, engine, tray, chords, looks, cmds, loop, watcher,
                  window, acts, wish, saved>>
  BY DEF Waiter, WaiterReads, WaiterSwaps, WaiterSends, disk, beside, inForce, channels, history
<1>2. PICK t : waiters' = [waiters EXCEPT ![w] = t] /\ t \in Thread /\ Hand(t)
  <2>1. Read(waiters[w]) \in Thread /\ Hand(Read(waiters[w]))
    BY ThreadTypes DEF Read, Whole, Files, Content
  <2>2. waiters \in [Waiters -> Thread]
    BY DEF Whole, Threads
  <2>3. CASE WaiterReads(w)
    <3>1. waiters' = [waiters EXCEPT ![w] = IF config = Broken THEN At("send", Defaults)
                                            ELSE Read(waiters[w])]
      BY <2>2, <2>3 DEF WaiterReads
    <3>2. QED
      BY <2>1, <3>1, ThreadTypes
  <2>4. CASE WaiterSwaps(w)
    BY <2>4, ThreadTypes DEF WaiterSwaps
  <2>5. CASE WaiterSends(w)
    BY <2>5, ThreadTypes DEF WaiterSends
  <2>6. QED
    BY <2>3, <2>4, <2>5 DEF Waiter
<1>3. waiters' \in [Waiters -> Thread] /\ \A v \in Waiters : Hand(waiters'[v])
  BY <1>2 DEF Whole, Threads
<1>4. snapshot' \in Settings
  BY DEF Waiter, WaiterReads, WaiterSwaps, WaiterSends, Swap, beside, Whole, Threads, Hand
<1>5. slips' \subseteq Slip0
  BY DEF Waiter, WaiterReads, WaiterSwaps, WaiterSends, history, Whole, Kept, Slip0
<1>6. events' \in Seq(UserEvent)
  <2>1. CASE WaiterSends(w)
    BY <2>1, EnqueuedTypes DEF WaiterSends, Whole
  <2>2. CASE ~WaiterSends(w)
    BY <2>2 DEF Waiter, WaiterReads, WaiterSwaps, beside, channels, Whole, Queues
  <2>3. QED
    BY <2>1, <2>2
<1>7. QED
  BY <1>1, <1>3, <1>4, <1>5, <1>6
     DEF Whole, Files, InForce, Queues, Kept, WindowOK, Threads, Hand

LEMMA WindowFields ==
  ASSUME Whole
  PROVE  /\ window.settings \in Settings /\ window.store \in Settings
         /\ window.staged \in Settings /\ window.told \in Prefs
         /\ window.chosen \in BOOLEAN /\ window.picked \in BOOLEAN
         /\ Loaded \in Settings
BY ThreadTypes DEF Whole, WindowOK, Loaded, Files, Content

LEMMA ClosedTypes ==
  ASSUME NEW x \in Settings, NEW st \in {"closed", "open"}
  PROVE  [Closed EXCEPT !.st = st, !.settings = x, !.store = x]
           \in [st : {"closed", "open", "create", "write", "rename"},
                settings : Settings, store : Settings, staged : Settings,
                chosen : BOOLEAN, picked : BOOLEAN, told : Prefs]
         /\ Closed \in [st : {"closed", "open", "create", "write", "rename"},
                settings : Settings, store : Settings, staged : Settings,
                chosen : BOOLEAN, picked : BOOLEAN, told : Prefs]
BY ThreadTypes, SettingsAssumption DEF Closed, SettingsAssumption

\* What the window is about to write.
LEMMA SaveFields ==
  ASSUME Whole, NEW p \in Prefs, NEW chips \in {{}, {TRUE}, {FALSE}}, SaveClicked(p, chips)
  PROVE  /\ window.st = "open" /\ acts < MaxActs /\ acts' = acts + 1
         /\ WindowOK' /\ window'.st = "create"
         /\ window'.staged.pref = p /\ window'.told = p
         /\ UNCHANGED <<config, tmp, fd, moved, snapshot, engine, tray, chords, looks, cmds,
                        events, loop, watcher, waiters, wish, saved, slips>>
<1> DEFINE flag == IF chips = {} THEN window.settings.paused ELSE TRUE \in chips
           edited == [paused |-> flag, pref |-> p]
           chosen == window.chosen \/ chips # {}
           picked == window.picked \/ chips # {}
           store  == IF config = Broken THEN window.store ELSE config
           staged == with_runtime_state(edited, store, chosen)
<1>1. edited \in Settings
  <2>1. window.settings.paused \in BOOLEAN
    BY WindowFields DEF Settings
  <2>2. flag \in BOOLEAN
    <3>1. CASE chips = {}
      BY <2>1, <3>1
    <3>2. CASE chips # {}
      <4>1. flag = (TRUE \in chips)
        BY <3>2
      <4>2. (TRUE \in chips) \in BOOLEAN
        OBVIOUS
      <4>3. QED
        BY <4>1, <4>2
    <3>4. QED
      BY <3>1, <3>2
  <2> HIDE DEF flag
  <2>3. QED
    BY <2>2 DEF Settings
<1>2. store \in Settings
  BY WindowFields DEF Whole, Files, Content
<1>3. staged \in Settings /\ staged.pref = p
  <2> HIDE DEF store
  <2>1. store.paused \in BOOLEAN /\ edited.pref = p
    BY <1>2 DEF Settings
  <2> HIDE DEF edited
  <2>2. QED
    BY <1>1, <2>1 DEF with_runtime_state, Settings
<1>4. chosen \in BOOLEAN /\ picked \in BOOLEAN
  BY WindowFields
<1>5. window' = [window EXCEPT !.st = "create", !.settings = edited, !.chosen = chosen,
                   !.picked = picked, !.told = p, !.store = store, !.staged = staged]
  BY DEF SaveClicked, Whole, WindowOK
<1>6. /\ window.st = "open" /\ acts < MaxActs /\ acts' = acts + 1
      /\ UNCHANGED <<config, tmp, fd, moved, snapshot, engine, tray, chords, looks, cmds,
                     events, loop, watcher, waiters, wish, saved, slips>>
  BY DEF SaveClicked, Act, disk, beside, inForce, channels, history
<1> HIDE DEF edited, chosen, picked, store, staged
<1>7. /\ WindowOK' /\ window'.st = "create"
      /\ window'.staged.pref = p /\ window'.told = p
  BY <1>1, <1>2, <1>3, <1>4, <1>5 DEF Whole, WindowOK
<1>8. QED
  BY <1>6, <1>7

LEMMA ActTypes == ASSUME Whole, acts < MaxActs, acts' = acts + 1 PROVE acts' \in 0..MaxActs
BY SettingsAssumption DEF Whole, SettingsAssumption

LEMMA WindowTypes ==
  ASSUME Whole,
         WindowWrites \/ OpenWindow \/ WindowReloads \/ CloseWindow
           \/ \E p \in Prefs : (\E chips \in {{}, {TRUE}, {FALSE}} : SaveClicked(p, chips))
                               \/ IdentityStored(p)
  PROVE  Whole'
<1>1. CASE \E p \in Prefs : \E chips \in {{}, {TRUE}, {FALSE}} : SaveClicked(p, chips)
  <2>1. PICK p \in Prefs, chips \in {{}, {TRUE}, {FALSE}} : SaveClicked(p, chips)
    BY <1>1
  <2>2. WindowOK'
    BY <2>1, SaveFields
  <2>3. acts' \in 0..MaxActs
    BY <2>1, SaveFields, ActTypes
  <2>4. UNCHANGED <<config, tmp, fd, moved, snapshot, engine, tray, chords, looks, cmds,
                    events, loop, watcher, waiters, wish, saved, slips>>
    BY <2>1, SaveFields
  <2>5. QED
    BY <2>2, <2>3, <2>4 DEF Whole, Files, InForce, Queues, Kept, Threads, Hand
<1>2. CASE \E p \in Prefs : IdentityStored(p)
  <2>1. PICK p \in Prefs : IdentityStored(p)
    BY <1>2
  <2>2. WindowOK'
    <3>1. [window.store EXCEPT !.pref = p] \in Settings
      BY WindowFields DEF Settings
    <3>2. QED
      BY <2>1, <3>1 DEF IdentityStored, WindowOK, Whole
  <2>3. acts' \in 0..MaxActs
    BY <2>1, ActTypes DEF IdentityStored, Act
  <2>4. UNCHANGED <<config, tmp, fd, moved, snapshot, engine, tray, chords, looks, cmds,
                    events, loop, watcher, waiters, wish, saved, slips>>
    BY <2>1 DEF IdentityStored, disk, beside, inForce, channels, history
  <2>5. QED
    BY <2>2, <2>3, <2>4 DEF Whole, Files, InForce, Queues, Kept, Threads, Hand
<1>3. CASE OpenWindow
  <2>1. WindowOK'
    BY <1>3, WindowFields, ClosedTypes DEF OpenWindow, WindowOK
  <2>2. acts' \in 0..MaxActs
    BY <1>3, ActTypes DEF OpenWindow, Act
  <2>3. waiters' \in [Waiters -> Thread] /\ \A v \in Waiters : Hand(waiters'[v])
    <3>1. PICK w \in Waiters : waiters' = [waiters EXCEPT ![w] = At("wait", Defaults)]
      BY <1>3 DEF OpenWindow
    <3>2. QED
      BY <3>1, ThreadTypes DEF Whole, Threads
  <2>4. UNCHANGED <<config, tmp, fd, moved, snapshot, engine, tray, chords, looks, cmds,
                    events, loop, watcher, wish, saved, slips>>
    BY <1>3 DEF OpenWindow, disk, beside, inForce, channels, history
  <2>5. QED
    BY <2>1, <2>2, <2>3, <2>4 DEF Whole, Files, InForce, Queues, Kept, Threads, Hand
<1>4. CASE WindowReloads
  <2>1. WindowOK'
    BY <1>4, WindowFields DEF WindowReloads, WindowOK, Whole
  <2>2. acts' \in 0..MaxActs
    BY <1>4, ActTypes DEF WindowReloads, Act
  <2>3. UNCHANGED <<config, tmp, fd, moved, snapshot, engine, tray, chords, looks, cmds,
                    events, loop, watcher, waiters, wish, saved, slips>>
    BY <1>4 DEF WindowReloads, disk, beside, inForce, channels, history
  <2>4. QED
    BY <2>1, <2>2, <2>3 DEF Whole, Files, InForce, Queues, Kept, Threads, Hand
<1>5. CASE CloseWindow
  <2>1. WindowOK'
    BY <1>5, WindowFields, ClosedTypes DEF CloseWindow, WindowOK
  <2>2. waiters' \in [Waiters -> Thread] /\ \A v \in Waiters : Hand(waiters'[v])
    BY <1>5, ThreadTypes DEF CloseWindow, Whole, Threads
  <2>3. UNCHANGED <<config, tmp, fd, moved, snapshot, engine, tray, chords, looks, cmds,
                    events, loop, watcher, acts, wish, saved, slips>>
    BY <1>5 DEF CloseWindow, disk, beside, inForce, channels, history
  <2>4. QED
    BY <2>1, <2>2, <2>3 DEF Whole, Files, InForce, Queues, Kept, Threads, Hand
<1>6. CASE SaveCreates
  <2>1. Files'
    BY <1>6, CreateTypes DEF SaveCreates, Whole
  <2>2. WindowOK'
    BY <1>6, WindowFields DEF SaveCreates, WindowOK, Whole
  <2>3. slips' \subseteq Slip0
    BY <1>6, SlipTypes DEF SaveCreates, Whole, Slip0
  <2>4. UNCHANGED <<snapshot, engine, tray, chords, looks, cmds, events, loop, watcher,
                    waiters, acts, wish, saved>>
    BY <1>6 DEF SaveCreates, beside, inForce, channels
  <2>5. QED
    BY <2>1, <2>2, <2>3, <2>4 DEF Whole, InForce, Queues, Kept, Threads, Hand
<1>7. CASE SaveWrites
  <2>1. Files'
    BY <1>7, WriteTypes, WindowFields DEF SaveWrites, Whole
  <2>2. WindowOK'
    BY <1>7 DEF SaveWrites, WindowOK, Whole
  <2>3. UNCHANGED <<snapshot, engine, tray, chords, looks, cmds, events, loop, watcher,
                    waiters, acts, wish, saved, slips>>
    BY <1>7 DEF SaveWrites, beside, inForce, channels, history
  <2>4. QED
    BY <2>1, <2>2, <2>3 DEF Whole, InForce, Queues, Kept, Threads, Hand
<1>8. CASE SaveRenames
  <2>1. Files'
    BY <1>8, RenameTypes DEF SaveRenames, Whole
  <2>2. window' = [window EXCEPT !.st = "open", !.picked = window.picked /\ ~Renamed]
    BY <1>8 DEF SaveRenames, WindowOK, Whole
  <2>3. WindowOK'
    BY <2>2, WindowFields DEF WindowOK, Whole
  <2>4. window.staged.paused \in BOOLEAN /\ window.told \in Prefs
    BY WindowFields DEF Settings
  <2>5. saved' \in Prefs /\ wish' \in BOOLEAN
    BY <1>8, <2>4 DEF SaveRenames, Whole, Kept
  <2>6. slips' \subseteq Slip0
    BY <1>8 DEF SaveRenames, Whole, Kept, Slip0
  <2>7. UNCHANGED <<snapshot, engine, tray, chords, looks, cmds, events, loop, watcher,
                    waiters, acts>>
    BY <1>8 DEF SaveRenames, beside, inForce, channels
  <2>8. QED
    BY <2>1, <2>3, <2>5, <2>6, <2>7 DEF Whole, InForce, Queues, Kept, Threads, Hand
<1>9. QED
  BY <1>1, <1>2, <1>3, <1>4, <1>5, <1>6, <1>7, <1>8 DEF WindowWrites

LEMMA UserTypes ==
  ASSUME Whole, PauseClicked \/ (\E new \in Content : Edit(new)) \/ Restart
  PROVE  Whole'
<1>1. CASE PauseClicked
  <2>1. cmds' \in Seq(Command)
    BY <1>1, EnqueuedTypes DEF PauseClicked, Whole
  <2>2. acts' \in 0..MaxActs
    BY <1>1, ActTypes DEF PauseClicked, Act
  <2>3. UNCHANGED <<config, tmp, fd, moved, snapshot, engine, tray, chords, looks, events,
                    loop, watcher, waiters, window, wish, saved, slips>>
    BY <1>1 DEF PauseClicked, disk, inForce, history
  <2>4. QED
    BY <2>1, <2>2, <2>3 DEF Whole, Files, InForce, Queues, Kept, WindowOK, Threads, Hand
<1>2. CASE \E new \in Content : Edit(new)
  <2>1. PICK new \in Content : Edit(new)
    BY <1>2
  <2>2. /\ config' = new /\ moved' = TRUE /\ tmp' = tmp
        /\ fd' = [w \in DOMAIN fd |-> IF fd[w] = "config" THEN "lost" ELSE fd[w]]
        /\ acts < MaxActs /\ acts' = acts + 1
        /\ saved' = IF new # Broken THEN new.pref ELSE saved
        /\ UNCHANGED <<snapshot, engine, tray, chords, looks, cmds, events, loop, watcher,
                       waiters, window>>
    BY <2>1 DEF Edit, Act, beside, inForce, channels
  <2>3. Files'
    BY <2>2 DEF Whole, Files
  <2>4. new # Broken => new.pref \in Prefs /\ new.paused \in BOOLEAN
    BY DEF Content, Settings
  <2>5. wish' \in BOOLEAN
    BY <2>1, <2>4 DEF Edit, Whole, Kept
  <2>6. slips' \subseteq Slip0
    BY <2>1, SlipTypes DEF Edit, Whole, Slip0
  <2>7. acts' \in 0..MaxActs
    BY <2>2, ActTypes
  <2>8. QED
    BY <2>2, <2>3, <2>4, <2>5, <2>6, <2>7
       DEF Whole, InForce, Queues, Kept, WindowOK, Threads, Hand
<1>3. CASE Restart
  <2>1. Loaded \in Settings /\ Loaded.paused \in BOOLEAN /\ Loaded.pref \in Prefs
    BY WindowFields DEF Settings
  <2>2. InForce' /\ snapshot' \in Settings
    BY <1>3, <2>1 DEF Restart, InForce
  <2>3. Files'
    BY <1>3 DEF Restart, Whole, Files
  <2>4. Threads'
    BY <1>3, ThreadTypes DEF Restart, Threads
  <2>5. WindowOK'
    BY <1>3, ClosedTypes, ThreadTypes DEF Restart, WindowOK
  <2>6. Queues'
    BY <1>3, EnqueuedTypes DEF Restart, Queues, Whole
  <2>7. slips' \subseteq Slip0
    BY <1>3 DEF Restart, Whole, Kept, Slip0
  <2>8. acts' \in 0..MaxActs
    BY <1>3, ActTypes DEF Restart, Act
  <2>9. QED
    BY <1>3, <2>2, <2>3, <2>4, <2>5, <2>6, <2>7, <2>8 DEF Restart, Whole, Kept
<1>4. QED
  BY <1>1, <1>2, <1>3

LEMMA WholeKept == ASSUME Whole, [Next]_vars PROVE Whole'
<1>1. CASE UNCHANGED vars
  BY <1>1 DEF vars, disk, inForce, channels, history, Whole, Files, InForce, Queues, Kept,
              WindowOK, Threads, Hand
<1>2. CASE HandleCommand
  BY <1>2, HandleCommandTypes
<1>3. CASE PauseKey
  BY <1>3, PauseKeyTypes
<1>4. CASE EventLoop \/ ReloadClicked
  BY <1>4, EventLoopTypes
<1>5. CASE Watcher
  BY <1>5, WatcherTypes
<1>6. CASE \E w \in Waiters : Waiter(w)
  BY <1>6, WaiterTypes
<1>7. CASE WindowWrites \/ OpenWindow \/ WindowReloads \/ CloseWindow
             \/ \E p \in Prefs : (\E chips \in {{}, {TRUE}, {FALSE}} : SaveClicked(p, chips))
                                 \/ IdentityStored(p)
  BY <1>7, WindowTypes
<1>8. CASE PauseClicked \/ (\E new \in Content : Edit(new)) \/ Restart
  BY <1>8, UserTypes
<1>9. QED
  BY <1>1, <1>2, <1>3, <1>4, <1>5, <1>6, <1>7, <1>8 DEF Next

LEMMA InitWhole == ASSUME Init PROVE Whole
<1>1. config \in Settings /\ config.paused \in BOOLEAN /\ config.pref \in Prefs
  BY DEF Init, Settings
<1>2. Files
  BY <1>1, ThreadTypes DEF Init, Files
<1>3. InForce /\ Kept /\ snapshot \in Settings
  BY <1>1 DEF Init, InForce, Kept
<1>4. Queues
  BY DEF Init, Queues
<1>5. WindowOK
  BY <1>1, ClosedTypes DEF Init, WindowOK
<1>6. Threads
  BY ThreadTypes DEF Init, Threads
<1>7. acts \in 0..MaxActs
  BY SettingsAssumption DEF Init, SettingsAssumption
<1>8. QED
  BY <1>2, <1>3, <1>4, <1>5, <1>6, <1>7 DEF Whole

\* Every variable keeps its type: no thread is handed a file that does not
\* parse, and a handle on the temporary file means that there is one.
THEOREM SettingsTypes == Spec => []TypeOK
<1>1. Init => Whole
  BY InitWhole
<1>2. Whole /\ [Next]_vars => Whole'
  BY WholeKept
<1>3. Whole => TypeOK
  BY WholeIsTyped
<1>4. QED
  BY <1>1, <1>2, <1>3, PTL DEF Spec

-----------------------------------------------------------------------------
(* A slip stays one. *)

LEMMA SlipsGrow == ASSUME Whole, [Next]_vars, slips' = {} PROVE slips = {}
<1>1. slips \subseteq slips'
  <2>1. CASE UNCHANGED vars
    BY <2>1 DEF vars, history
  <2>2. CASE HandleCommand \/ PauseKey
    BY <2>2 DEF HandleCommand, PauseKey, Toggle, Slip
  <2>3. CASE EventLoop \/ ReloadClicked
    BY <2>3 DEF EventLoop, HandlePaused, Update, UpdateWrites, UpdateRenames, HandleChanged,
                ReloadSwaps, ReloadClicked, Slip, history
  <2>4. CASE Watcher
    BY <2>4 DEF Watcher, WatcherStats, WatcherReads, WatcherSwaps, WatcherSends, history
  <2>5. CASE \E w \in Waiters : Waiter(w)
    BY <2>5 DEF Waiter, WaiterReads, WaiterSwaps, WaiterSends, history
  <2>6. CASE WindowWrites
    BY <2>6 DEF WindowWrites, SaveCreates, SaveWrites, SaveRenames, Slip, history
  <2>7. CASE OpenWindow \/ WindowReloads \/ CloseWindow
    BY <2>7 DEF OpenWindow, WindowReloads, CloseWindow, history
  <2>8. CASE \E p \in Prefs : (\E chips \in {{}, {TRUE}, {FALSE}} : SaveClicked(p, chips))
                              \/ IdentityStored(p)
    BY <2>8 DEF SaveClicked, IdentityStored, history
  <2>9. CASE PauseClicked \/ (\E new \in Content : Edit(new)) \/ Restart
    BY <2>9 DEF PauseClicked, Edit, Restart, Slip, history
  <2>10. QED
    BY <2>1, <2>2, <2>3, <2>4, <2>5, <2>6, <2>7, <2>8, <2>9 DEF Next
<1>2. QED
  BY <1>1

-----------------------------------------------------------------------------
(* What the tray's icon shows. *)

LEMMA FlipShown ==
  ASSUME Whole, Flip, tray' = tray
  PROVE  LastFlip'
<1> DEFINE n == Len(events) + 1
<1>1. /\ n \in DOMAIN events' /\ events'[n].kind = "paused" /\ events'[n].to = engine'
      /\ n \in Nat
      /\ \A j \in DOMAIN events' : j \in DOMAIN events \/ j = n
      /\ \A j \in DOMAIN events : j < n /\ j \in Nat
  <2>1. [kind |-> "paused", to |-> ~engine] \in UserEvent
    BY DEF UserEvent, Whole, InForce
  <2>2. QED
    BY <2>1, AtTheEnd DEF Flip, Whole, Queues
<1> HIDE DEF n
<1>2. \A j \in DOMAIN events' : ~(j > n)
  BY <1>1
<1>3. QED
  BY <1>1, <1>2 DEF LastFlip

LEMMA SentShown ==
  ASSUME Whole, LastFlip, UNCHANGED <<tray, engine>>,
         events' = Append(events, [kind |-> "changed", to |-> FALSE])
  PROVE  LastFlip'
<1> DEFINE n == Len(events) + 1
<1>1. /\ \A j \in DOMAIN events' : j \in DOMAIN events \/ j = n
      /\ \A j \in DOMAIN events : j \in DOMAIN events' /\ events'[j] = events[j]
      /\ events'[n].kind # "paused"
  <2>1. [kind |-> "changed", to |-> FALSE] \in UserEvent
    BY DEF UserEvent
  <2>2. QED
    BY <2>1, AtTheEnd DEF Whole, Queues
<1> HIDE DEF n
<1>2. QED
  BY <1>1 DEF LastFlip

LEMMA ReadShown ==
  ASSUME Whole, LastFlip, events # <<>>, events' = Tail(events), engine' = engine,
         tray' = IF Head(events).kind = "paused" THEN Head(events).to ELSE tray
  PROVE  LastFlip'
<1>1. /\ 1 \in DOMAIN events /\ events[1] = Head(events)
      /\ \A i \in DOMAIN events' : /\ i + 1 \in DOMAIN events /\ events'[i] = events[i + 1]
                                   /\ i \in Nat /\ i + 1 # 1
      /\ \A i \in DOMAIN events : i \in Nat /\ (i = 1 \/ /\ i - 1 \in DOMAIN events'
                                                         /\ events'[i - 1] = events[i])
  BY BehindHead DEF Whole, Queues
<1>2. CASE \A i \in DOMAIN events : events[i].kind # "paused"
  <2>1. tray' = tray
    BY <1>1, <1>2
  <2>2. tray = engine
    BY <1>2 DEF LastFlip
  <2>3. QED
    BY <1>1, <1>2, <2>1, <2>2 DEF LastFlip
<1>3. CASE \E i \in DOMAIN events : events[i].kind = "paused"
  <2>1. PICK i \in DOMAIN events :
          /\ events[i].kind = "paused" /\ events[i].to = engine
          /\ \A j \in DOMAIN events : j > i => events[j].kind # "paused"
    BY <1>3 DEF LastFlip
  <2>2. CASE i = 1
    <3>1. \A j \in DOMAIN events' : events'[j].kind # "paused"
      <4>1. \A j \in DOMAIN events' : j + 1 > 1
        BY <1>1
      <4>2. QED
        BY <1>1, <2>1, <2>2, <4>1
    <3>2. QED
      BY <1>1, <2>1, <2>2, <3>1 DEF LastFlip
  <2>3. CASE i # 1
    <3>1. i - 1 \in DOMAIN events' /\ events'[i - 1] = events[i]
      BY <1>1, <2>1, <2>3
    <3>2. \A j \in DOMAIN events' : j > i - 1 => events'[j].kind # "paused"
      <4>1. \A j \in DOMAIN events' : j > i - 1 => j + 1 > i
        BY <1>1, <2>1
      <4>2. QED
        BY <1>1, <2>1, <4>1
    <3>3. QED
      BY <2>1, <3>1, <3>2 DEF LastFlip
  <2>4. QED
    BY <2>2, <2>3
<1>4. QED
  BY <1>2, <1>3

LEMMA LastFlipKept == ASSUME Whole, LastFlip, [Next]_vars PROVE LastFlip'
<1> DEFINE same == UNCHANGED <<tray, engine, events>>
<1>1. CASE same
  BY <1>1 DEF LastFlip
<1>2. CASE HandleCommand
  <2>1. tray' = tray /\ (Flip \/ UNCHANGED <<engine, events>>)
    BY <1>2 DEF HandleCommand, Toggle, SetPaused
  <2>2. QED
    BY <1>1, <2>1, FlipShown
<1>3. CASE PauseKey
  BY <1>3, FlipShown DEF PauseKey, Toggle
<1>4. CASE HandlePaused
  BY <1>4, ReadShown DEF HandlePaused
<1>5. CASE HandleChanged
  BY <1>5, ReadShown DEF HandleChanged
<1>6. CASE WatcherSends
  BY <1>6, SentShown DEF WatcherSends, inForce
<1>7. CASE \E w \in Waiters : WaiterSends(w)
  BY <1>7, SentShown DEF WaiterSends, inForce
<1>8. CASE Restart
  <2>1. tray' = engine' /\ events' = <<>>
    BY <1>8 DEF Restart
  <2>2. QED
    BY <2>1, NothingIn DEF LastFlip
<1>9. CASE \/ Update \/ UpdateWrites \/ UpdateRenames \/ ReloadSwaps \/ ReloadClicked
           \/ WatcherStats \/ WatcherReads \/ WatcherSwaps
  <2>1. same
    BY <1>9 DEF Update, UpdateWrites, UpdateRenames, ReloadSwaps, ReloadClicked, WatcherStats,
                WatcherReads, WatcherSwaps, inForce, channels
  <2>2. QED
    BY <1>1, <2>1
<1>10. CASE \E w \in Waiters : WaiterReads(w) \/ WaiterSwaps(w)
  <2>1. same
    BY <1>10 DEF WaiterReads, WaiterSwaps, beside, inForce, channels
  <2>2. QED
    BY <1>1, <2>1
<1>11. CASE \/ WindowWrites \/ OpenWindow \/ WindowReloads \/ CloseWindow \/ PauseClicked
            \/ \E p \in Prefs : (\E chips \in {{}, {TRUE}, {FALSE}} : SaveClicked(p, chips))
                                \/ IdentityStored(p)
            \/ \E new \in Content : Edit(new)
  <2>1. same
    BY <1>11 DEF WindowWrites, SaveCreates, SaveWrites, SaveRenames, OpenWindow, WindowReloads,
                 CloseWindow, PauseClicked, SaveClicked, IdentityStored, Edit, beside, inForce,
                 channels
  <2>2. QED
    BY <1>1, <2>1
<1>12. CASE UNCHANGED vars
  BY <1>1, <1>12 DEF vars, inForce, channels
<1>13. QED
  BY <1>2, <1>3, <1>4, <1>5, <1>6, <1>7, <1>8, <1>9, <1>10, <1>11, <1>12
     DEF Next, EventLoop, Watcher, Waiter

-----------------------------------------------------------------------------
(* One writer at a time. *)

\* Who has just begun to write has the temporary file to himself.
LEMMA Creates ==
  ASSUME Whole, NEW w \in {"tray", "window"}, Create(w)
  PROVE  /\ tmp' = Broken /\ fd'[w] = "tmp"
         /\ \A v \in {"tray", "window"} : v # w => fd'[v] = fd[v]
BY DEF Whole, Files, Create

\* A writer whose file is still where he made it completes that one.
LEMMA WritesOwn ==
  ASSUME Whole, NEW w \in {"tray", "window"}, NEW new, Write(w, new), fd[w] = "tmp",
         tmp = Broken
  PROVE  /\ tmp' = new /\ fd'[w] = "none" /\ UNCHANGED <<config, moved>>
         /\ \A v \in {"tray", "window"} : v # w => fd'[v] = fd[v]
BY DEF Whole, Files, Write, Over

\* A rename by the only writer brings in what he has written.
LEMMA RenamesOwn ==
  ASSUME Whole, Rename, tmp # Absent,
         \A w \in {"tray", "window"} : fd[w] = "none"
  PROVE  /\ Renamed /\ config' = tmp /\ moved' = TRUE
         /\ \A w \in {"tray", "window"} : fd'[w] = "none"
BY DEF Whole, Files, Rename, Renamed

LEMMA WritersPlace ==
  ASSUME Whole, Handles, Drafts
  PROVE  /\ Locked <=> Writing("tray")
         /\ loop.st = "rename" \/ window.st = "rename" =>
              tmp # Absent /\ \A w \in {"tray", "window"} : fd[w] = "none"
<1>1. Absent \notin Settings
  BY SettingsAssumption DEF SettingsAssumption
<1>2. loop.st = "rename" \/ window.st = "rename" => tmp \in Settings
  BY WindowFields DEF Handles, Whole
<1>3. QED
  BY <1>1, <1>2 DEF Handles, Locked, Writing

LEMMA HandlesKept ==
  ASSUME Whole, Whole', Handles, Drafts, [Next]_vars, slips = {}, slips' = {}
  PROVE  Handles' /\ Drafts'
<1>1. CASE UNCHANGED <<fd, tmp, snapshot, loop, window, tray>>
  BY <1>1 DEF Handles, Drafts, Writing, Locked
<1>2. CASE \/ HandleCommand \/ PauseKey \/ HandleChanged \/ WatcherStats \/ WatcherReads
           \/ WatcherSends \/ PauseClicked \/ \E w \in Waiters : WaiterReads(w) \/ WaiterSends(w)
  <2>1. UNCHANGED <<fd, tmp, snapshot, loop, window, tray>>
    BY <1>2 DEF HandleCommand, PauseKey, HandleChanged, WatcherStats, WatcherReads,
                WatcherSends, PauseClicked, WaiterReads, WaiterSends, disk, inForce, others,
                aside, beside
  <2>2. QED
    BY <1>1, <2>1
<1>3. CASE HandlePaused \/ ReloadSwaps \/ ReloadClicked
  <2>1. UNCHANGED <<fd, tmp, window>>
    BY <1>3 DEF HandlePaused, ReloadSwaps, ReloadClicked, disk, others
  <2>2. loop.st \in {"idle", "swap"} /\ loop'.st \in {"idle", "swap", "update"}
    BY <1>3 DEF HandlePaused, ReloadSwaps, ReloadClicked, Idle, At, Read
  <2>3. QED
    BY <2>1, <2>2 DEF Handles, Drafts, Writing, Locked
<1>4. CASE WatcherSwaps \/ \E w \in Waiters : WaiterSwaps(w)
  <2>1. ~Locked /\ UNCHANGED <<fd, tmp, loop, window, tray>>
    BY <1>4 DEF WatcherSwaps, WaiterSwaps, Swap, disk, inForce, aside
  <2>2. QED
    BY <2>1 DEF Handles, Drafts, Writing, Locked
<1>5. CASE Update
  <2>1. /\ loop.st = "update" /\ loop' = At("write", snapshot)
        /\ snapshot' = [snapshot EXCEPT !.paused = tray]
        /\ UNCHANGED <<tray, window>>
    BY <1>5 DEF Update, inForce, others
  <2>2. ~Writing("window")
    BY <1>5 DEF Update, Slip
  <2>3. tmp' = Broken /\ fd'["tray"] = "tmp" /\ fd'["window"] = fd["window"]
    BY <1>5, Creates DEF Update
  <2>4. QED
    BY <2>1, <2>2, <2>3 DEF Handles, Drafts, Writing, Locked, At
<1>6. CASE UpdateWrites
  <2>1. /\ loop.st = "write" /\ loop' = [loop EXCEPT !.st = "rename"]
        /\ UNCHANGED <<snapshot, tray, window>>
    BY <1>6 DEF UpdateWrites, inForce, others
  <2>2. loop'.st = "rename" /\ loop'.val = loop.val
    BY <2>1 DEF Whole, Threads, Thread
  <2>3. tmp' = snapshot /\ fd'["tray"] = "none" /\ fd'["window"] = fd["window"]
    BY <1>6, <2>1, WritesOwn DEF UpdateWrites, Handles
  <2>4. QED
    BY <2>1, <2>2, <2>3 DEF Handles, Drafts, Writing, Locked
<1>7. CASE UpdateRenames
  <2>1. loop.st = "rename" /\ loop' = Idle /\ UNCHANGED window
    BY <1>7 DEF UpdateRenames, others
  <2>2. fd'["tray"] = "none" /\ fd'["window"] = "none"
    BY <1>7, <2>1, WritersPlace, RenamesOwn DEF UpdateRenames
  <2>3. QED
    BY <2>1, <2>2 DEF Handles, Drafts, Writing, Locked, Idle, At
<1>8. CASE SaveCreates
  <2>1. /\ window.st = "create" /\ window' = [window EXCEPT !.st = "write", !.store = window.staged]
        /\ UNCHANGED <<snapshot, loop, tray>>
    BY <1>8 DEF SaveCreates, beside, inForce
  <2>2. window'.st = "write" /\ window'.staged = window.staged /\ window'.told = window.told
    BY <2>1 DEF Whole, WindowOK
  <2>3. ~Writing("tray")
    BY <1>8 DEF SaveCreates, Slip
  <2>4. tmp' = Broken /\ fd'["window"] = "tmp" /\ fd'["tray"] = fd["tray"]
    BY <1>8, Creates DEF SaveCreates
  <2>5. QED
    BY <2>1, <2>2, <2>3, <2>4 DEF Handles, Drafts, Writing, Locked
<1>9. CASE SaveWrites
  <2>1. /\ window.st = "write" /\ window' = [window EXCEPT !.st = "rename"]
        /\ UNCHANGED <<snapshot, loop, tray>>
    BY <1>9 DEF SaveWrites, beside, inForce
  <2>2. window'.st = "rename" /\ window'.staged = window.staged /\ window'.told = window.told
    BY <2>1 DEF Whole, WindowOK
  <2>3. tmp' = window.staged /\ fd'["window"] = "none" /\ fd'["tray"] = fd["tray"]
    BY <1>9, <2>1, WritesOwn DEF SaveWrites, Handles
  <2>4. QED
    BY <2>1, <2>2, <2>3 DEF Handles, Drafts, Writing, Locked
<1>10. CASE SaveRenames
  <2>1. window.st = "rename" /\ UNCHANGED <<snapshot, loop, tray>>
    BY <1>10 DEF SaveRenames, beside, inForce
  <2>2. window' = [window EXCEPT !.st = "open", !.picked = window.picked /\ ~Renamed]
    BY <1>10 DEF SaveRenames, Whole, WindowOK
  <2>3. window'.st = "open"
    BY <2>2 DEF Whole, WindowOK
  <2>4. fd'["tray"] = "none" /\ fd'["window"] = "none"
    BY <1>10, <2>1, WritersPlace, RenamesOwn DEF SaveRenames
  <2>5. QED
    BY <2>1, <2>3, <2>4 DEF Handles, Drafts, Writing, Locked
<1>11. CASE OpenWindow \/ WindowReloads \/ CloseWindow
  <2>1. UNCHANGED <<fd, tmp, snapshot, loop, tray>>
    BY <1>11 DEF OpenWindow, WindowReloads, CloseWindow, disk, beside, inForce
  <2>2. window.st \in {"open", "closed"}
    BY <1>11 DEF OpenWindow, WindowReloads, CloseWindow
  <2>3. window'.st \in {"open", "closed"}
    <3>1. CASE OpenWindow
      BY <3>1 DEF OpenWindow, Closed
    <3>2. CASE WindowReloads
      BY <3>2 DEF WindowReloads, Whole, WindowOK
    <3>3. CASE CloseWindow
      BY <3>3 DEF CloseWindow, Closed
    <3>4. QED
      BY <1>11, <3>1, <3>2, <3>3
  <2>4. QED
    BY <2>1, <2>2, <2>3 DEF Handles, Drafts, Writing, Locked
<1>12. CASE \E p \in Prefs : (\E chips \in {{}, {TRUE}, {FALSE}} : SaveClicked(p, chips))
                             \/ IdentityStored(p)
  <2>1. PICK p \in Prefs : (\E chips \in {{}, {TRUE}, {FALSE}} : SaveClicked(p, chips))
                           \/ IdentityStored(p)
    BY <1>12
  <2>2. /\ window.st = "open" /\ window'.st = "create" /\ window'.staged.pref = window'.told
        /\ UNCHANGED <<fd, tmp, snapshot, loop, tray>>
    <3>1. CASE \E chips \in {{}, {TRUE}, {FALSE}} : SaveClicked(p, chips)
      BY <3>1, SaveFields
    <3>2. CASE IdentityStored(p)
      <4>1. window' = [window EXCEPT !.st = "create", !.picked = FALSE, !.told = p,
                                     !.staged = [window.store EXCEPT !.pref = p]]
        BY <3>2 DEF IdentityStored
      <4>2. [window.store EXCEPT !.pref = p].pref = p
        BY WindowFields DEF Settings
      <4>3. window'.st = "create" /\ window'.staged.pref = p /\ window'.told = p
        BY <4>1, <4>2 DEF Whole, WindowOK
      <4>4. QED
        BY <3>2, <4>3 DEF IdentityStored, disk, beside, inForce
    <3>3. QED
      BY <2>1, <3>1, <3>2
  <2>3. QED
    BY <2>2 DEF Handles, Drafts, Writing, Locked
<1>13. CASE \E new \in Content : Edit(new)
  <2>1. /\ UNCHANGED <<tmp, snapshot, loop, window, tray>>
        /\ fd' = [w \in DOMAIN fd |-> IF fd[w] = "config" THEN "lost" ELSE fd[w]]
    BY <1>13 DEF Edit, beside, inForce
  <2>2. fd' = fd
    BY <2>1 DEF Handles, Whole, Files
  <2>3. QED
    BY <1>1, <2>1, <2>2
<1>14. CASE Restart
  <2>1. /\ loop' = Idle /\ window' = Closed /\ fd' = [w \in DOMAIN fd |-> "none"]
    BY <1>14 DEF Restart
  <2>2. fd'["tray"] = "none" /\ fd'["window"] = "none"
    BY <2>1 DEF Whole, Files
  <2>3. QED
    BY <2>1, <2>2 DEF Handles, Drafts, Writing, Locked, Idle, At, Closed
<1>15. CASE UNCHANGED vars
  BY <1>1, <1>15 DEF vars, disk, inForce
<1>16. QED
  BY <1>2, <1>3, <1>4, <1>5, <1>6, <1>7, <1>8, <1>9, <1>10, <1>11, <1>12, <1>13, <1>14, <1>15
     DEF Next, EventLoop, Watcher, Waiter, WindowWrites

-----------------------------------------------------------------------------
(* The file. *)

\* What a step of somebody who writes does to config.toml.
LEMMA FileWritten ==
  ASSUME Whole, Handles, Drafts, slips' = {}
  PROVE  /\ UpdateRenames =>
              /\ config = loop.val /\ config' = [config EXCEPT !.paused = tray]
              /\ config' = snapshot /\ moved' = TRUE /\ config \in Settings
         /\ SaveRenames =>
              /\ Renamed /\ config' = window.staged /\ moved' = TRUE
              /\ window.staged.pref = window.told /\ config' \in Settings
         /\ Update \/ UpdateWrites \/ SaveCreates \/ SaveWrites => UNCHANGED <<config, moved>>
<1>1. ASSUME UpdateRenames
      PROVE  /\ config = loop.val /\ config' = [config EXCEPT !.paused = tray]
             /\ config' = snapshot /\ moved' = TRUE /\ config \in Settings
  <2>1. loop.st = "rename" /\ Rename /\ config = loop.val
    BY <1>1 DEF UpdateRenames, Slip
  <2>2. config' = tmp /\ moved' = TRUE
    BY <2>1, WritersPlace, RenamesOwn
  <2>3. tmp = snapshot /\ snapshot = [loop.val EXCEPT !.paused = tray] /\ loop.val \in Settings
    BY <2>1 DEF Handles, Drafts, Locked, Whole, Threads, Hand
  <2>4. QED
    BY <2>1, <2>2, <2>3
<1>2. ASSUME SaveRenames
      PROVE  /\ Renamed /\ config' = window.staged /\ moved' = TRUE
             /\ window.staged.pref = window.told /\ config' \in Settings
  <2>1. window.st = "rename" /\ Rename
    BY <1>2 DEF SaveRenames
  <2>2. Renamed /\ config' = tmp /\ moved' = TRUE
    BY <2>1, WritersPlace, RenamesOwn
  <2>3. tmp = window.staged /\ window.staged.pref = window.told /\ window.staged \in Settings
    BY <2>1, WindowFields DEF Handles, Drafts
  <2>4. QED
    BY <2>2, <2>3
<1>3. ASSUME Update \/ UpdateWrites \/ SaveCreates \/ SaveWrites
      PROVE  UNCHANGED <<config, moved>>
  <2>1. CASE Update \/ SaveCreates
    BY <2>1 DEF Update, SaveCreates, Create
  <2>2. CASE UpdateWrites
    BY <2>2, WritesOwn DEF UpdateWrites, Handles
  <2>3. CASE SaveWrites
    BY <2>3, WritesOwn DEF SaveWrites, Handles
  <2>4. QED
    BY <1>3, <2>1, <2>2, <2>3
<1>4. QED
  BY <1>1, <1>2, <1>3

\* Nobody else does.
LEMMA FileKept ==
  ASSUME Whole, Handles, Drafts, [Next]_vars, slips' = {},
         ~UpdateRenames, ~SaveRenames, ~(\E new \in Content : Edit(new)), ~Restart
  PROVE  config' = config /\ (moved' = moved \/ WatcherStats)
<1>1. CASE Update \/ UpdateWrites \/ SaveCreates \/ SaveWrites
  BY <1>1, FileWritten
<1>2. CASE HandleCommand \/ PauseKey \/ PauseClicked \/ UNCHANGED vars
  BY <1>2 DEF HandleCommand, PauseKey, PauseClicked, vars, disk
<1>3. CASE HandlePaused \/ HandleChanged \/ ReloadSwaps \/ ReloadClicked
  BY <1>3 DEF HandlePaused, HandleChanged, ReloadSwaps, ReloadClicked, disk
<1>4. CASE Watcher
  BY <1>4 DEF Watcher, WatcherStats, WatcherReads, WatcherSwaps, WatcherSends, disk
<1>5. CASE \E w \in Waiters : Waiter(w)
  BY <1>5 DEF Waiter, WaiterReads, WaiterSwaps, WaiterSends, disk
<1>6. CASE OpenWindow \/ WindowReloads \/ CloseWindow
  BY <1>6 DEF OpenWindow, WindowReloads, CloseWindow, disk
<1>7. CASE \E p \in Prefs : (\E chips \in {{}, {TRUE}, {FALSE}} : SaveClicked(p, chips))
                            \/ IdentityStored(p)
  BY <1>7 DEF SaveClicked, IdentityStored, disk
<1>8. QED
  BY <1>1, <1>2, <1>3, <1>4, <1>5, <1>6, <1>7 DEF Next, EventLoop, WindowWrites

LEMMA SavedKeptKept ==
  ASSUME Whole, Handles, Drafts, SavedKept, [Next]_vars, slips' = {}
  PROVE  SavedKept'
<1>1. CASE UpdateRenames
  <2>1. config' = [config EXCEPT !.paused = tray] /\ config \in Settings
    BY <1>1, FileWritten
  <2>2. config'.pref = config.pref /\ config # Broken
    BY <2>1, ThreadTypes DEF Settings
  <2>3. saved' = saved
    BY <1>1 DEF UpdateRenames
  <2>4. QED
    BY <2>2, <2>3 DEF SavedKept
<1>2. CASE SaveRenames
  <2>1. Renamed /\ config' = window.staged /\ window.staged.pref = window.told
    BY <1>2, FileWritten
  <2>2. saved' = window.told
    BY <1>2, <2>1 DEF SaveRenames
  <2>3. QED
    BY <2>1, <2>2 DEF SavedKept
<1>3. CASE \E new \in Content : Edit(new)
  BY <1>3 DEF Edit, SavedKept
<1>4. CASE Restart
  BY <1>4 DEF Restart, SavedKept
<1>5. CASE /\ ~UpdateRenames /\ ~SaveRenames /\ ~(\E new \in Content : Edit(new)) /\ ~Restart
  <2>1. config' = config
    BY <1>5, FileKept
  <2>2. saved' = saved
    <3>1. CASE HandleCommand \/ PauseKey \/ PauseClicked \/ UNCHANGED vars
      BY <3>1 DEF HandleCommand, PauseKey, PauseClicked, vars, history
    <3>2. CASE EventLoop \/ ReloadClicked
      BY <1>5, <3>2 DEF EventLoop, HandlePaused, Update, UpdateWrites, HandleChanged,
                        ReloadSwaps, ReloadClicked, history
    <3>3. CASE Watcher
      BY <3>3 DEF Watcher, WatcherStats, WatcherReads, WatcherSwaps, WatcherSends, history
    <3>4. CASE \E w \in Waiters : Waiter(w)
      BY <3>4 DEF Waiter, WaiterReads, WaiterSwaps, WaiterSends, history
    <3>5. CASE WindowWrites \/ OpenWindow \/ WindowReloads \/ CloseWindow
      BY <1>5, <3>5 DEF WindowWrites, SaveCreates, SaveWrites, OpenWindow, WindowReloads,
                        CloseWindow, history
    <3>6. CASE \E p \in Prefs : (\E chips \in {{}, {TRUE}, {FALSE}} : SaveClicked(p, chips))
                                \/ IdentityStored(p)
      BY <3>6 DEF SaveClicked, IdentityStored, history
    <3>7. QED
      BY <1>5, <3>1, <3>2, <3>3, <3>4, <3>5, <3>6 DEF Next
  <2>3. QED
    BY <2>1, <2>2 DEF SavedKept
<1>6. QED
  BY <1>1, <1>2, <1>3, <1>4, <1>5

\* What a swap that is no slip brings in is in the file.
LEMMA SwapsFresh ==
  ASSUME Whole, slips' = {}
  PROVE  /\ WatcherSwaps => snapshot' = watcher.val /\ (snapshot' = snapshot \/ snapshot' = config)
         /\ \A w \in Waiters : WaiterSwaps(w) =>
              /\ snapshot' = snapshot \/ snapshot' = config
              /\ snapshot'.paused = snapshot.paused
         /\ ReloadSwaps => snapshot' = snapshot /\ chords' = chords
BY DEF WatcherSwaps, WaiterSwaps, ReloadSwaps, Swap, Changed

\* Nobody else changes the tray's settings.
LEMMA SnapshotKept ==
  ASSUME [Next]_vars, ~Update, ~WatcherSwaps, ~(\E w \in Waiters : WaiterSwaps(w)),
         ~ReloadSwaps, ~Restart
  PROVE  snapshot' = snapshot
<1>1. CASE HandleCommand \/ PauseKey \/ PauseClicked \/ UNCHANGED vars
  BY <1>1 DEF HandleCommand, PauseKey, PauseClicked, vars
<1>2. CASE EventLoop \/ ReloadClicked
  BY <1>2 DEF EventLoop, HandlePaused, UpdateWrites, UpdateRenames, HandleChanged,
              ReloadClicked
<1>3. CASE Watcher
  BY <1>3 DEF Watcher, WatcherStats, WatcherReads, WatcherSends
<1>4. CASE \E w \in Waiters : Waiter(w)
  BY <1>4 DEF Waiter, WaiterReads, WaiterSends, beside
<1>5. CASE WindowWrites \/ OpenWindow \/ WindowReloads \/ CloseWindow
  BY <1>5 DEF WindowWrites, SaveCreates, SaveWrites, SaveRenames, OpenWindow, WindowReloads,
              CloseWindow, beside
<1>6. CASE \E p \in Prefs : (\E chips \in {{}, {TRUE}, {FALSE}} : SaveClicked(p, chips))
                            \/ IdentityStored(p)
  BY <1>6 DEF SaveClicked, IdentityStored, beside
<1>7. CASE \E new \in Content : Edit(new)
  BY <1>7 DEF Edit, beside
<1>8. QED
  BY <1>1, <1>2, <1>3, <1>4, <1>5, <1>6, <1>7 DEF Next

LEMMA SeesKept ==
  ASSUME Whole, Handles, Drafts, Sees, [Next]_vars, slips' = {}
  PROVE  Sees'
<1>1. CASE UpdateRenames
  <2>1. config' = snapshot /\ snapshot' = snapshot
    BY <1>1, FileWritten DEF UpdateRenames
  <2>2. QED
    BY <2>1 DEF Sees
<1>2. CASE SaveRenames \/ \E new \in Content : Edit(new)
  <2>1. moved' = TRUE
    BY <1>2, FileWritten DEF Edit
  <2>2. QED
    BY <2>1 DEF Sees
<1>3. CASE Restart
  BY <1>3 DEF Restart, Loaded, Sees
<1>4. CASE Watcher
  <2>1. config' = config /\ loop' = loop
    BY <1>4, FileKept DEF Watcher, WatcherStats, WatcherReads, WatcherSwaps, WatcherSends, aside,
                          disk
  <2>2. CASE WatcherStats
    BY <2>2 DEF WatcherStats, Sees, At
  <2>3. CASE WatcherReads
    <3>1. config # Broken => watcher'.st = "swap" /\ watcher'.val = config
      BY <2>3 DEF WatcherReads, Read, At
    <3>2. QED
      BY <2>1, <3>1 DEF Sees
  <2>4. CASE WatcherSwaps
    <3>1. /\ watcher.st = "swap" /\ ~Locked /\ moved' = moved
          /\ snapshot' = watcher.val /\ (snapshot' = snapshot \/ snapshot' = config)
      BY <2>4, SwapsFresh DEF WatcherSwaps, Swap, disk
    <3>2. QED
      BY <2>1, <3>1 DEF Sees
  <2>5. CASE WatcherSends
    <3>1. watcher.st = "send" /\ ~Locked /\ moved' = moved /\ snapshot' = snapshot
      BY <2>5 DEF WatcherSends, disk
    <3>2. QED
      BY <2>1, <3>1 DEF Sees
  <2>6. QED
    BY <1>4, <2>2, <2>3, <2>4, <2>5 DEF Watcher
<1>5. CASE \E w \in Waiters : WaiterSwaps(w)
  <2>1. /\ UNCHANGED <<config, moved, watcher, loop>>
        /\ snapshot' = snapshot \/ snapshot' = config
    BY <1>5, SwapsFresh DEF WaiterSwaps, disk
  <2>2. QED
    BY <2>1 DEF Sees, Locked
<1>6. CASE ReloadSwaps
  <2>1. UNCHANGED <<config, moved, watcher, snapshot>> /\ loop.st = "swap"
    BY <1>6, SwapsFresh DEF ReloadSwaps, disk, others
  <2>2. QED
    BY <2>1 DEF Sees, Locked
<1>7. CASE Update \/ UpdateWrites
  <2>1. Locked'
    BY <1>7 DEF Update, UpdateWrites, Locked, At, Whole, Threads, Thread
  <2>2. QED
    BY <2>1 DEF Sees
<1>8. CASE HandlePaused \/ ReloadClicked
  <2>1. UNCHANGED <<config, moved, watcher, snapshot>> /\ loop.st = "idle"
    BY <1>8 DEF HandlePaused, ReloadClicked, disk, others
  <2>2. QED
    BY <2>1 DEF Sees, Locked
<1>9. CASE \/ HandleCommand \/ PauseKey \/ HandleChanged \/ PauseClicked \/ UNCHANGED vars
           \/ \E w \in Waiters : WaiterReads(w) \/ WaiterSends(w)
  <2>1. UNCHANGED <<config, moved, watcher, snapshot, loop>>
    BY <1>9 DEF HandleCommand, PauseKey, HandleChanged, PauseClicked, WaiterReads, WaiterSends,
                vars, disk, others, beside
  <2>2. QED
    BY <2>1 DEF Sees, Locked
<1>10. CASE \/ SaveCreates \/ SaveWrites \/ OpenWindow \/ WindowReloads \/ CloseWindow
            \/ \E p \in Prefs : (\E chips \in {{}, {TRUE}, {FALSE}} : SaveClicked(p, chips))
                                \/ IdentityStored(p)
  <2>1. UNCHANGED <<config, moved>>
    BY <1>10, FileWritten DEF OpenWindow, WindowReloads, CloseWindow, SaveClicked,
                              IdentityStored, disk
  <2>2. UNCHANGED <<watcher, snapshot, loop>>
    BY <1>10 DEF SaveCreates, SaveWrites, OpenWindow, WindowReloads, CloseWindow, SaveClicked,
                 IdentityStored, beside
  <2>3. QED
    BY <2>1, <2>2 DEF Sees, Locked
<1>11. QED
  BY <1>1, <1>2, <1>3, <1>4, <1>5, <1>6, <1>7, <1>8, <1>9, <1>10
     DEF Next, EventLoop, Waiter, WindowWrites

-----------------------------------------------------------------------------
(* Copies of the settings. *)

LEMMA RenewsKept ==
  ASSUME Whole, Whole', Renews, [Next]_vars, slips' = {}
  PROVE  Renews'
<1> DEFINE coming == \E i \in DOMAIN events : events[i].kind = "changed"
<1>1. CASE UNCHANGED <<chords, looks, snapshot, events, watcher, waiters>>
  BY <1>1 DEF Renews
<1>2. CASE HandleChanged \/ Restart
  <2>1. chords' = snapshot'.pref /\ looks' = snapshot'.pref
    BY <1>2 DEF HandleChanged, Restart
  <2>2. QED
    BY <2>1 DEF Renews
<1>3. CASE WatcherSends \/ \E w \in Waiters : WaiterSends(w)
  <2>1. events' = Append(events, [kind |-> "changed", to |-> FALSE])
    BY <1>3 DEF WatcherSends, WaiterSends
  <2>2. [kind |-> "changed", to |-> FALSE] \in UserEvent
    BY DEF UserEvent
  <2>3. Len(events) + 1 \in DOMAIN events' /\ events'[Len(events) + 1].kind = "changed"
    BY <2>1, <2>2, AtTheEnd DEF Whole, Queues
  <2>4. QED
    BY <2>3 DEF Renews
<1>4. CASE HandleCommand \/ PauseKey
  <2>1. /\ UNCHANGED <<chords, looks, snapshot, watcher, waiters>>
        /\ Flip \/ UNCHANGED events
    BY <1>4 DEF HandleCommand, PauseKey, Toggle, SetPaused
  <2>2. coming => coming'
    <3>1. CASE Flip
      <4>1. [kind |-> "paused", to |-> ~engine] \in UserEvent
        BY DEF UserEvent, Whole, InForce
      <4>2. QED
        BY <3>1, <4>1, AtTheEnd DEF Flip, Whole, Queues
    <3>2. QED
      BY <2>1, <3>1
  <2>3. QED
    BY <2>1, <2>2 DEF Renews
<1>5. CASE HandlePaused
  <2>1. /\ UNCHANGED <<chords, looks, snapshot, watcher, waiters>>
        /\ events # <<>> /\ events' = Tail(events) /\ Head(events).kind = "paused"
    BY <1>5 DEF HandlePaused, others
  <2>2. coming => coming'
    <3>1. SUFFICES ASSUME NEW i \in DOMAIN events, events[i].kind = "changed" PROVE coming'
      OBVIOUS
    <3>2. i # 1
      BY <2>1, <3>1, BehindHead DEF Whole, Queues
    <3>3. i - 1 \in DOMAIN events' /\ events'[i - 1] = events[i]
      BY <2>1, <3>1, <3>2, BehindHead DEF Whole, Queues
    <3>4. QED
      BY <3>1, <3>3
  <2>3. QED
    BY <2>1, <2>2 DEF Renews
<1>6. CASE WatcherSwaps
  <2>1. CASE snapshot' = snapshot
    <3>1. UNCHANGED <<chords, looks, events, waiters>> /\ watcher.st = "swap"
      BY <1>6 DEF WatcherSwaps, inForce, channels, aside
    <3>2. QED
      BY <2>1, <3>1 DEF Renews
  <2>2. CASE snapshot' # snapshot
    <3>1. watcher'.st = "send"
      BY <1>6, <2>2 DEF WatcherSwaps, Swap, Changed, At
    <3>2. QED
      BY <3>1 DEF Renews
  <2>3. QED
    BY <2>1, <2>2
<1>7. CASE \E w \in Waiters : WaiterSwaps(w)
  <2>1. PICK w \in Waiters : waiters' = [waiters EXCEPT ![w] = At("send", Defaults)]
    BY <1>7 DEF WaiterSwaps
  <2>2. waiters'[w].st = "send"
    BY <2>1 DEF Whole, Threads, At
  <2>3. QED
    BY <2>2 DEF Renews
<1>8. CASE ReloadSwaps
  <2>1. UNCHANGED <<chords, looks, snapshot, events, watcher, waiters>>
    BY <1>8, SwapsFresh DEF ReloadSwaps, channels, others
  <2>2. QED
    BY <1>1, <2>1
<1>9. CASE Update
  <2>1. UNCHANGED <<chords, looks, events, watcher, waiters>>
    BY <1>9 DEF Update, inForce, channels, others
  <2>2. snapshot'.pref = snapshot.pref
    BY <1>9 DEF Update, Whole, Settings
  <2>3. QED
    BY <2>1, <2>2 DEF Renews
<1>10. CASE WatcherStats \/ WatcherReads
  <2>1. UNCHANGED <<chords, looks, snapshot, events, waiters>> /\ watcher.st # "send"
    BY <1>10 DEF WatcherStats, WatcherReads, inForce, channels, aside
  <2>2. QED
    BY <2>1 DEF Renews
<1>11. CASE (\E w \in Waiters : WaiterReads(w)) \/ OpenWindow \/ CloseWindow
  <2>1. UNCHANGED <<chords, looks, snapshot, events, watcher>>
    BY <1>11 DEF WaiterReads, OpenWindow, CloseWindow, beside, inForce, channels
  <2>2. \A w \in Waiters : waiters[w].st = "send" => waiters'[w].st = "send"
    <3>1. CASE \E w \in Waiters : WaiterReads(w)
      BY <3>1 DEF WaiterReads, Whole, Threads
    <3>2. CASE OpenWindow
      BY <3>2 DEF OpenWindow, Whole, Threads, Idle, At
    <3>3. CASE CloseWindow
      BY <3>3 DEF CloseWindow, Whole, Threads
    <3>4. QED
      BY <1>11, <3>1, <3>2, <3>3
  <2>3. QED
    BY <2>1, <2>2 DEF Renews
<1>12. CASE UpdateWrites \/ UpdateRenames \/ ReloadClicked \/ PauseClicked \/ UNCHANGED vars
            \/ \E new \in Content : Edit(new)
  <2>1. UNCHANGED <<chords, looks, snapshot, events, watcher, waiters>>
    BY <1>12 DEF UpdateWrites, UpdateRenames, ReloadClicked, PauseClicked, Edit, vars, inForce,
                 channels, others, beside
  <2>2. QED
    BY <1>1, <2>1
<1>13. CASE \/ WindowWrites \/ WindowReloads
            \/ \E p \in Prefs : (\E chips \in {{}, {TRUE}, {FALSE}} : SaveClicked(p, chips))
                                \/ IdentityStored(p)
  <2>1. UNCHANGED <<chords, looks, snapshot, events, watcher, waiters>>
    BY <1>13 DEF WindowWrites, SaveCreates, SaveWrites, SaveRenames, WindowReloads, SaveClicked,
                 IdentityStored, inForce, channels, beside
  <2>2. QED
    BY <1>1, <2>1
<1>14. QED
  BY <1>2, <1>3, <1>4, <1>5, <1>6, <1>7, <1>8, <1>9, <1>10, <1>11, <1>12, <1>13
     DEF Next, EventLoop, Watcher, Waiter

-----------------------------------------------------------------------------
(* Who leads. *)

\* The pause states the event loop has still to be told of, and those the
\* engine has.
Flips == {b \in BOOLEAN : \E i \in DOMAIN events : events[i].kind = "paused" /\ events[i].to = b}
Sets == {b \in BOOLEAN : \E i \in DOMAIN cmds : cmds[i].kind = "set" /\ cmds[i].to = b}

OneSet == \A i, j \in DOMAIN cmds : cmds[i].kind = "set" /\ cmds[j].kind = "set" => i = j

PendingSays == Pending <=> Storing \/ \E b \in Flips : b # snapshot.paused
TellingSays == Telling <=> watcher.st = "send" \/ Sets # {}
OrdersSay ==
  Orders <=> /\ OneSet /\ \A b \in Sets : b = snapshot.paused
             /\ Sets # {} => watcher.st # "send"
             /\ watcher.st = "send" \/ Sets # {} => ~Storing /\ Flips = {}

\* The invariant in terms of these sets.
LeadSays == PendingSays /\ TellingSays /\ OrdersSay

LEMMA Saying ==
  ASSUME NEW ev \in Seq(UserEvent), NEW cm \in Seq(Command)
  PROVE  (\A i \in DOMAIN ev : ev[i].to \in BOOLEAN) /\ \A i \in DOMAIN cm : cm[i].to \in BOOLEAN
<1>1. (\A i \in DOMAIN ev : ev[i] \in UserEvent) /\ \A i \in DOMAIN cm : cm[i] \in Command
  BY Entries
<1>2. QED
  BY <1>1 DEF UserEvent, Command

LEMMA Lead == ASSUME Whole, Whole' PROVE LeadSays /\ LeadSays'
<1>1. (\A i \in DOMAIN events : events[i].to \in BOOLEAN)
      /\ \A i \in DOMAIN cmds : cmds[i].to \in BOOLEAN
  BY Saying DEF Whole, Queues
<1>2. (\A i \in DOMAIN events' : events'[i].to \in BOOLEAN)
      /\ \A i \in DOMAIN cmds' : cmds'[i].to \in BOOLEAN
  BY Saying DEF Whole, Queues
<1>3. PendingSays /\ PendingSays'
  BY <1>1, <1>2 DEF PendingSays, Pending, Flips
<1>4. TellingSays /\ TellingSays'
  BY <1>1, <1>2 DEF TellingSays, Telling, Sets
<1>5. OrdersSay
  <2>1. (\A i \in DOMAIN events : events[i].kind # "paused") <=> Flips = {}
    BY <1>1 DEF Flips
  <2>2. (\A i \in DOMAIN cmds : cmds[i].kind = "set" => cmds[i].to = snapshot.paused)
        <=> \A b \in Sets : b = snapshot.paused
    BY <1>1 DEF Sets
  <2>3. (\A i \in DOMAIN cmds : cmds[i].kind = "set" => watcher.st # "send")
        <=> (Sets # {} => watcher.st # "send")
    BY <1>1 DEF Sets
  <2>4. QED
    BY <1>4, <2>1, <2>2, <2>3 DEF OrdersSay, Orders, OneSet, TellingSays
<1>6. OrdersSay'
  <2>1. (\A i \in DOMAIN events' : events'[i].kind # "paused") <=> Flips' = {}
    BY <1>2 DEF Flips
  <2>2. (\A i \in DOMAIN cmds' : cmds'[i].kind = "set" => cmds'[i].to = snapshot'.paused)
        <=> \A b \in Sets' : b = snapshot'.paused
    BY <1>2 DEF Sets
  <2>3. (\A i \in DOMAIN cmds' : cmds'[i].kind = "set" => watcher'.st # "send")
        <=> (Sets' # {} => watcher'.st # "send")
    BY <1>2 DEF Sets
  <2>4. QED
    BY <1>4, <2>1, <2>2, <2>3 DEF OrdersSay, Orders, OneSet, TellingSays
<1>7. QED
  BY <1>3, <1>4, <1>5, <1>6 DEF LeadSays

LEMMA FlipAdds ==
  ASSUME Whole, Flip
  PROVE  Flips' = Flips \cup {~engine}
<1> DEFINE n == Len(events) + 1
           b == ~engine
<1>1. /\ \A i \in DOMAIN events : i \in DOMAIN events' /\ events'[i] = events[i]
      /\ n \in DOMAIN events' /\ events'[n].kind = "paused" /\ events'[n].to = b
      /\ \A i \in DOMAIN events' : i \in DOMAIN events \/ i = n
  <2>1. [kind |-> "paused", to |-> ~engine] \in UserEvent
    BY DEF UserEvent, Whole, InForce
  <2>2. QED
    BY <2>1, AtTheEnd DEF Flip, Whole, Queues
<1>2. b \in BOOLEAN
  BY DEF Whole, InForce
<1> HIDE DEF n, b
<1>3. Flips \subseteq Flips' /\ b \in Flips'
  BY <1>1, <1>2 DEF Flips
<1>4. Flips' \subseteq Flips \cup {b}
  BY <1>1, <1>2 DEF Flips
<1>5. Flips' = Flips \cup {b}
  BY <1>3, <1>4
<1>6. QED
  BY <1>5 DEF b

LEMMA SentKeeps ==
  ASSUME Whole, events' = Append(events, [kind |-> "changed", to |-> FALSE])
  PROVE  Flips' = Flips
<1> DEFINE n == Len(events) + 1
<1>1. /\ \A i \in DOMAIN events : i \in DOMAIN events' /\ events'[i] = events[i]
      /\ events'[n].kind # "paused"
      /\ \A i \in DOMAIN events' : i \in DOMAIN events \/ i = n
  <2>1. [kind |-> "changed", to |-> FALSE] \in UserEvent
    BY DEF UserEvent
  <2>2. QED
    BY <2>1, AtTheEnd DEF Whole, Queues
<1> HIDE DEF n
<1>2. QED
  BY <1>1 DEF Flips

LEMMA ReadTakes ==
  ASSUME Whole, events # <<>>, events' = Tail(events)
  PROVE  Flips = Flips' \cup (IF Head(events).kind = "paused" THEN {Head(events).to} ELSE {})
<1> DEFINE h == Head(events)
<1>1. /\ 1 \in DOMAIN events /\ events[1] = h /\ h \in UserEvent
      /\ \A i \in DOMAIN events' : i + 1 \in DOMAIN events /\ events'[i] = events[i + 1]
      /\ \A i \in DOMAIN events : i = 1 \/ /\ i - 1 \in DOMAIN events'
                                           /\ events'[i - 1] = events[i]
  BY BehindHead DEF Whole, Queues
<1>2. h.to \in BOOLEAN
  BY <1>1 DEF UserEvent
<1> HIDE DEF h
<1>3. Flips' \subseteq Flips
  BY <1>1 DEF Flips
<1>4. h.kind = "paused" => h.to \in Flips
  BY <1>1, <1>2 DEF Flips
<1>5. ASSUME NEW b \in Flips, b \notin Flips'
      PROVE  h.kind = "paused" /\ b = h.to
  <2>1. PICK i \in DOMAIN events : events[i].kind = "paused" /\ events[i].to = b
    BY <1>5 DEF Flips
  <2>2. b \in BOOLEAN
    BY <1>5 DEF Flips
  <2>3. ASSUME i # 1 PROVE FALSE
    <3>1. i - 1 \in DOMAIN events' /\ events'[i - 1] = events[i]
      BY <1>1, <2>3
    <3>2. b \in Flips'
      BY <2>1, <2>2, <3>1 DEF Flips
    <3>3. QED
      BY <1>5, <3>2
  <2>4. QED
    BY <1>1, <2>1, <2>3
<1>6. Flips = Flips' \cup (IF h.kind = "paused" THEN {h.to} ELSE {})
  BY <1>3, <1>4, <1>5
<1>7. QED
  BY <1>6 DEF h

\* A command joins the queue.
LEMMA CommandJoins ==
  ASSUME Whole, NEW c \in Command, cmds' = Append(cmds, c)
  PROVE  /\ c.kind = "toggle" => Sets' = Sets /\ (OneSet => OneSet')
         /\ c.kind = "set" /\ Sets = {} => Sets' = {c.to} /\ OneSet'
<1> DEFINE n == Len(cmds) + 1
<1>1. /\ \A i \in DOMAIN cmds : i \in DOMAIN cmds' /\ cmds'[i] = cmds[i]
      /\ n \in DOMAIN cmds' /\ cmds'[n] = c
      /\ \A i \in DOMAIN cmds' : i \in DOMAIN cmds \/ i = n
  BY AtTheEnd DEF Whole, Queues
<1>2. c.to \in BOOLEAN /\ \A i \in DOMAIN cmds : cmds[i].to \in BOOLEAN
  BY Saying DEF Whole, Queues, Command
<1> HIDE DEF n
<1>3. ASSUME c.kind = "toggle" PROVE Sets' = Sets /\ (OneSet => OneSet')
  BY <1>1, <1>3 DEF Sets, OneSet
<1>4. ASSUME c.kind = "set", Sets = {} PROVE Sets' = {c.to} /\ OneSet'
  <2>1. \A i \in DOMAIN cmds : cmds[i].kind # "set"
    BY <1>2, <1>4 DEF Sets
  <2>2. \A i \in DOMAIN cmds' : cmds'[i].kind = "set" <=> i = n
    BY <1>1, <1>4, <2>1
  <2>3. QED
    BY <1>1, <1>2, <2>2 DEF Sets, OneSet
<1>5. QED
  BY <1>3, <1>4

\* The engine takes a command.
LEMMA CommandTaken ==
  ASSUME Whole, OneSet, cmds # <<>>, cmds' = Tail(cmds)
  PROVE  /\ OneSet' /\ Head(cmds).to \in BOOLEAN
         /\ Head(cmds).kind = "set" => Head(cmds).to \in Sets /\ Sets' = {}
<1> DEFINE h == Head(cmds)
<1>1. /\ 1 \in DOMAIN cmds /\ cmds[1] = h /\ h \in Command
      /\ \A i \in DOMAIN cmds' : /\ i + 1 \in DOMAIN cmds /\ cmds'[i] = cmds[i + 1]
                                 /\ i \in Nat /\ i + 1 # 1
  BY BehindHead DEF Whole, Queues
<1>2. h.to \in BOOLEAN
  BY <1>1 DEF Command
<1> HIDE DEF h
<1>3. OneSet'
  <2>1. ASSUME NEW i \in DOMAIN cmds', NEW j \in DOMAIN cmds',
               cmds'[i].kind = "set", cmds'[j].kind = "set"
        PROVE  i = j
    <3>1. i + 1 \in DOMAIN cmds /\ j + 1 \in DOMAIN cmds /\ i \in Nat /\ j \in Nat
          /\ cmds[i + 1].kind = "set" /\ cmds[j + 1].kind = "set"
      BY <1>1, <2>1
    <3>2. i + 1 = j + 1
      BY <3>1 DEF OneSet
    <3>3. QED
      BY <3>1, <3>2
  <2>2. QED
    BY <2>1 DEF OneSet
<1>4. ASSUME h.kind = "set" PROVE h.to \in Sets /\ Sets' = {}
  <2>1. \A i \in DOMAIN cmds' : cmds'[i].kind # "set"
    BY <1>1, <1>4 DEF OneSet
  <2>2. QED
    BY <1>1, <1>2, <1>4, <2>1 DEF Sets
<1>5. QED
  BY <1>2, <1>3, <1>4 DEF h

\* What the icon shows, in terms of these sets.
LEMMA Shows ==
  ASSUME Whole, LastFlip
  PROVE  (Flips = {} => tray = engine) /\ (Flips # {} => engine \in Flips) /\ engine \in BOOLEAN
<1>1. engine \in BOOLEAN
  BY DEF Whole, InForce
<1>2. CASE tray = engine /\ \A i \in DOMAIN events : events[i].kind # "paused"
  BY <1>1, <1>2 DEF Flips
<1>3. CASE \E i \in DOMAIN events : events[i].kind = "paused" /\ events[i].to = engine
  BY <1>1, <1>3 DEF Flips
<1>4. QED
  BY <1>1, <1>2, <1>3 DEF LastFlip

LEMMA NothingUnderway ==
  ASSUME ~Underway
  PROVE  loop = Idle /\ Sets = {} /\ Flips = {} /\ ~Storing
<1>1. loop = Idle /\ cmds = <<>> /\ \A i \in DOMAIN events : events[i].kind # "paused"
  BY DEF Underway
<1>2. Sets = {}
  BY <1>1, NothingIn DEF Sets
<1>3. Flips = {}
  BY <1>1 DEF Flips
<1>4. QED
  BY <1>1, <1>2, <1>3 DEF Storing, Locked, Idle, At

\* Nothing about who leads has changed.
LEMMA LeadSame ==
  ASSUME Whole, Whole', Orders, Follows, Flips' = Flips, Storing' <=> Storing,
         Sets' = Sets, OneSet => OneSet',
         watcher'.st = "send" <=> watcher.st = "send", snapshot'.paused = snapshot.paused,
         UNCHANGED <<engine, wish>>,
         config' # Broken /\ ~Pending => config'.paused = wish
  PROVE  Orders' /\ Follows'
<1>1. LeadSays /\ LeadSays'
  BY Lead
<1>2. Pending' <=> Pending
  BY <1>1 DEF LeadSays, PendingSays
<1>3. Telling' <=> Telling
  BY <1>1 DEF LeadSays, TellingSays
<1>4. Orders'
  BY <1>1 DEF LeadSays, OrdersSay
<1>5. Follows'
  BY <1>2, <1>3 DEF Follows
<1>6. QED
  BY <1>4, <1>5

-----------------------------------------------------------------------------
(* The steps that decide who leads. *)

Leads == Orders /\ Follows

\* The user's toggle crosses nothing: now the engine leads.
LEMMA ToggleLeads ==
  ASSUME Whole, Whole', Leads, Flip, wish' = ~engine, watcher.st # "send", Sets' = {}, OneSet',
         Sets = {}, UNCHANGED <<snapshot, config, loop, watcher>>
  PROVE  Leads'
<1>1. LeadSays /\ LeadSays'
  BY Lead
<1>2. Flips' = Flips \cup {~engine} /\ engine' = ~engine /\ Storing' = Storing
  BY FlipAdds DEF Flip, Storing, Locked
<1>3. ~Telling /\ ~Telling'
  BY <1>1 DEF LeadSays, TellingSays
<1>4. Pending'
  <2>1. CASE Pending
    BY <1>1, <1>2, <2>1 DEF LeadSays, PendingSays
  <2>2. CASE ~Pending
    <3>1. engine = snapshot.paused
      BY <1>3, <2>2 DEF Leads, Follows
    <3>2. (~engine) # snapshot'.paused
      BY <3>1 DEF Whole, InForce
    <3>3. (~engine) \in Flips'
      BY <1>2
    <3>4. QED
      BY <1>1, <3>2, <3>3 DEF LeadSays, PendingSays
  <2>3. QED
    BY <2>1, <2>2
<1>5. Orders'
  BY <1>1, <1>3 DEF LeadSays, OrdersSay
<1>6. Follows'
  BY <1>2, <1>3, <1>4 DEF Follows
<1>7. QED
  BY <1>5, <1>6 DEF Leads

LEMMA NoSetsIn ==
  ASSUME NEW s, \A i \in DOMAIN s : s[i].kind # "set"
  PROVE  {b \in BOOLEAN : \E i \in DOMAIN s : s[i].kind = "set" /\ s[i].to = b} = {}
  OBVIOUS

LEMMA PauseKeyLeads ==
  ASSUME Whole, Whole', Leads, PauseKey, slips' = {}
  PROVE  Leads'
<1>1. Flip /\ wish' = ~engine /\ watcher.st = "idle"
      /\ \A i \in DOMAIN cmds : cmds[i].kind # "set"
  BY DEF PauseKey, Toggle, Slip
<1>2. UNCHANGED <<snapshot, config, loop, watcher, cmds>>
  BY DEF PauseKey, disk
<1>3. Sets = {} /\ Sets' = {} /\ OneSet'
  BY <1>1, <1>2, NoSetsIn DEF Sets, OneSet
<1>4. QED
  BY <1>1, <1>2, <1>3, ToggleLeads

\* A command to the engine: the user's toggle, or what the file asks for.
LEMMA HandleCommandLeads ==
  ASSUME Whole, Whole', Leads, HandleCommand, slips' = {}
  PROVE  Leads'
<1>1. LeadSays /\ LeadSays'
  BY Lead
<1>2. /\ cmds # <<>> /\ cmds' = Tail(cmds)
      /\ UNCHANGED <<snapshot, config, loop, watcher>>
  BY DEF HandleCommand, disk
<1>3. /\ OneSet' /\ Head(cmds).to \in BOOLEAN
      /\ Head(cmds).kind = "set" => Head(cmds).to \in Sets /\ Sets' = {}
  BY <1>1, <1>2, CommandTaken DEF Leads, LeadSays, OrdersSay
<1>4. Storing' = Storing
  BY <1>2 DEF Storing, Locked
<1>5. CASE Head(cmds).kind = "toggle"
  <2>1. Flip /\ wish' = ~engine /\ watcher.st = "idle"
        /\ \A i \in DOMAIN cmds' : cmds'[i].kind # "set"
    BY <1>2, <1>5 DEF HandleCommand, Toggle, Slip
  <2>2. Sets' = {}
    BY <2>1, NoSetsIn DEF Sets
  <2>3. Sets = {}
    <3>1. \A i \in DOMAIN cmds : cmds[i].kind # "set"
      <4>1. SUFFICES ASSUME NEW i \in DOMAIN cmds, cmds[i].kind = "set" PROVE FALSE
        OBVIOUS
      <4>2. i # 1 => i - 1 \in DOMAIN cmds' /\ cmds'[i - 1] = cmds[i]
        BY <1>2, BehindHead DEF Whole, Queues
      <4>3. cmds[1] = Head(cmds)
        BY <1>2, BehindHead DEF Whole, Queues
      <4>4. QED
        BY <1>5, <2>1, <4>1, <4>2, <4>3
    <3>2. QED
      BY <3>1, NoSetsIn DEF Sets
  <2>4. QED
    BY <1>2, <1>3, <2>1, <2>2, <2>3, ToggleLeads
<1>6. CASE Head(cmds).kind = "set"
  <2>1. SetPaused(Head(cmds).to) /\ wish' = wish
    BY <1>6 DEF HandleCommand
  <2>2. /\ Head(cmds).to = snapshot.paused /\ Sets' = {} /\ watcher.st # "send"
        /\ ~Storing /\ Flips = {}
    BY <1>1, <1>3, <1>6 DEF Leads, LeadSays, OrdersSay
  <2>3. ~Pending
    BY <1>1, <2>2 DEF LeadSays, PendingSays
  <2>4. engine' = snapshot.paused /\ Flips' \subseteq {snapshot.paused}
    <3>1. CASE engine = snapshot.paused
      BY <2>1, <2>2, <3>1 DEF SetPaused, Flips
    <3>2. CASE engine # snapshot.paused
      <4>1. Flip
        BY <2>1, <2>2, <3>2 DEF SetPaused
      <4>2. (~engine) = snapshot.paused /\ engine' = (~engine)
        BY <3>2, <4>1 DEF Whole, InForce, Settings, Flip
      <4>3. Flips' = {snapshot.paused}
        BY <2>2, <4>1, <4>2, FlipAdds
      <4>4. QED
        BY <4>2, <4>3
    <3>3. QED
      BY <3>1, <3>2
  <2>5. ~Pending' /\ ~Telling'
    BY <1>1, <1>2, <1>4, <2>2, <2>4 DEF LeadSays, PendingSays, TellingSays
  <2>6. Orders'
    BY <1>1, <1>2, <1>3, <2>2 DEF LeadSays, OrdersSay
  <2>7. Follows'
    BY <1>2, <2>1, <2>3, <2>4, <2>5 DEF Leads, Follows
  <2>8. QED
    BY <2>6, <2>7 DEF Leads
<1>7. QED
  <2>1. Head(cmds) \in Command
    BY <1>2, BehindHead DEF Whole, Queues
  <2>2. QED
    BY <1>5, <1>6, <2>1 DEF Command

\* The event loop is told of a pause, and writes it down when it is news.
LEMMA HandlePausedLeads ==
  ASSUME Whole, Whole', Leads, HandlePaused
  PROVE  Leads'
<1> DEFINE h == Head(events)
<1>1. LeadSays /\ LeadSays'
  BY Lead
<1>2. /\ loop.st = "idle" /\ events # <<>> /\ h.kind = "paused" /\ events' = Tail(events)
      /\ loop' = IF snapshot.paused # h.to THEN At("update", Defaults) ELSE loop
      /\ UNCHANGED <<config, snapshot, engine, cmds, watcher, wish>>
  BY DEF HandlePaused, disk, history, others
<1>3. Flips = Flips' \cup {h.to}
  BY <1>2, ReadTakes
<1> HIDE DEF h
<1>4. Sets' = Sets /\ (OneSet => OneSet')
  BY <1>2 DEF Sets, OneSet
<1>5. ~Telling /\ Sets = {} /\ watcher.st # "send"
  BY <1>1, <1>3 DEF Leads, LeadSays, OrdersSay, TellingSays
<1>6. ~Telling'
  BY <1>1, <1>2, <1>4, <1>5 DEF LeadSays, TellingSays
<1>7. ~Storing
  BY <1>2 DEF Storing, Locked
<1>8. Pending' <=> Pending
  <2>1. CASE snapshot.paused # h.to
    <3>1. Pending
      BY <1>1, <1>3, <2>1 DEF LeadSays, PendingSays
    <3>2. Storing'
      BY <1>2, <2>1 DEF Storing, At
    <3>3. QED
      BY <1>1, <3>1, <3>2 DEF LeadSays, PendingSays
  <2>2. CASE snapshot.paused = h.to
    <3>1. ~Storing'
      BY <1>2, <1>7, <2>2 DEF Storing, Locked
    <3>2. QED
      BY <1>1, <1>2, <1>3, <1>7, <2>2, <3>1 DEF LeadSays, PendingSays
  <2>3. QED
    BY <2>1, <2>2
<1>9. Orders'
  BY <1>1, <1>2, <1>4, <1>5 DEF Leads, LeadSays, OrdersSay
<1>10. Follows'
  BY <1>2, <1>5, <1>6, <1>8 DEF Leads, Follows
<1>11. QED
  BY <1>9, <1>10 DEF Leads

\* While the event loop writes, the engine leads.
LEMMA UpdateLeads ==
  ASSUME Whole, Whole', Leads, Update \/ UpdateWrites
  PROVE  Leads'
<1>1. LeadSays /\ LeadSays'
  BY Lead
<1>2. /\ loop.st \in {"update", "write"} /\ UNCHANGED <<events, cmds, watcher, engine, wish>>
  BY DEF Update, UpdateWrites, inForce, channels, others, history
<1>3. loop'.st \in {"write", "rename"}
  BY DEF Update, UpdateWrites, At, Whole, Threads, Thread
<1>4. Storing /\ Storing'
  BY <1>2, <1>3 DEF Storing, Locked
<1>5. Pending /\ Pending'
  BY <1>1, <1>4 DEF LeadSays, PendingSays
<1>6. Sets' = Sets /\ (OneSet => OneSet')
  BY <1>2 DEF Sets, OneSet
<1>7. watcher.st # "send" /\ Sets = {}
  BY <1>1, <1>4 DEF Leads, LeadSays, OrdersSay
<1>8. ~Telling'
  BY <1>1, <1>2, <1>6, <1>7 DEF LeadSays, TellingSays
<1>9. Orders'
  BY <1>1, <1>2, <1>6, <1>7 DEF Leads, LeadSays, OrdersSay
<1>10. Follows'
  BY <1>2, <1>5, <1>8 DEF Leads, Follows
<1>11. QED
  BY <1>9, <1>10 DEF Leads

\* Written down: the file has the engine's state, unless there is more to tell.
LEMMA UpdateRenamesLeads ==
  ASSUME Whole, Whole', Leads, LastFlip, Handles, Drafts, UpdateRenames, slips' = {}
  PROVE  Leads'
<1>1. LeadSays /\ LeadSays'
  BY Lead
<1>2. /\ loop.st = "rename" /\ loop' = Idle
      /\ UNCHANGED <<snapshot, events, cmds, watcher, engine, tray, wish>>
  BY DEF UpdateRenames, inForce, channels, others
<1>3. config' = snapshot
  BY FileWritten
<1>4. snapshot.paused = tray
  BY <1>2 DEF Drafts, Locked, Whole, Threads, Hand, Settings
<1>5. Storing /\ ~Storing'
  BY <1>2 DEF Storing, Locked, Idle, At
<1>6. Pending /\ engine = wish
  BY <1>1, <1>5 DEF Leads, LeadSays, PendingSays, Follows
<1>7. Sets' = Sets /\ (OneSet => OneSet') /\ Flips' = Flips
  BY <1>2 DEF Sets, OneSet, Flips
<1>8. watcher.st # "send" /\ Sets = {}
  BY <1>1, <1>5 DEF Leads, LeadSays, OrdersSay
<1>9. ~Telling'
  BY <1>1, <1>2, <1>7, <1>8 DEF LeadSays, TellingSays
<1>10. Orders'
  BY <1>1, <1>2, <1>7, <1>8 DEF Leads, LeadSays, OrdersSay
<1>11. ~Pending' => engine = tray
  <2>1. (Flips = {} => tray = engine) /\ (Flips # {} => engine \in Flips)
    BY Shows
  <2>2. QED
    BY <1>1, <1>2, <1>4, <1>5, <1>7, <2>1 DEF LeadSays, PendingSays
<1>12. Follows'
  BY <1>2, <1>3, <1>4, <1>6, <1>9, <1>11 DEF Follows
<1>13. QED
  BY <1>10, <1>12 DEF Leads

\* A file that is not the tray's own takes the lead, when nothing is under way.
LEMMA WatcherSwapsLeads ==
  ASSUME Whole, Whole', Leads, WatcherSwaps, slips' = {}
  PROVE  Leads'
<1>1. LeadSays /\ LeadSays'
  BY Lead
<1>2. /\ watcher.st = "swap" /\ snapshot' = watcher.val
      /\ UNCHANGED <<config, engine, events, cmds, loop, wish>>
  BY DEF WatcherSwaps, Swap, disk, inForce, channels, aside
<1>3. Sets' = Sets /\ (OneSet => OneSet') /\ Flips' = Flips /\ Storing' = Storing
  BY <1>2 DEF Sets, OneSet, Flips, Storing, Locked
<1>4. CASE Changed(watcher.val)
  <2>1. ~Underway /\ config = watcher.val /\ watcher' = At("send", Defaults)
    BY <1>4 DEF WatcherSwaps
  <2>2. Sets = {} /\ Flips = {} /\ ~Storing
    BY <2>1, NothingUnderway
  <2>3. ~Pending /\ ~Pending'
    BY <1>1, <1>3, <2>2 DEF LeadSays, PendingSays
  <2>4. watcher'.st = "send"
    BY <2>1 DEF At
  <2>5. Telling'
    BY <1>1, <2>4 DEF LeadSays, TellingSays
  <2>6. Orders'
    BY <1>1, <1>3, <2>2 DEF Leads, LeadSays, OrdersSay
  <2>7. Follows'
    BY <1>2, <2>3, <2>5 DEF Leads, Follows
  <2>8. QED
    BY <2>6, <2>7 DEF Leads
<1>5. CASE ~Changed(watcher.val)
  <2>1. watcher' = Idle /\ snapshot' = snapshot
    BY <1>2, <1>5 DEF WatcherSwaps, Changed
  <2>2. watcher'.st # "send"
    BY <2>1 DEF Idle, At
  <2>3. QED
    BY <1>2, <1>3, <2>1, <2>2, LeadSame DEF Leads, Follows
<1>6. QED
  BY <1>4, <1>5

\* The engine is asked to follow.
LEMMA WatcherSendsLeads ==
  ASSUME Whole, Whole', Leads, WatcherSends
  PROVE  Leads'
<1> DEFINE c == [kind |-> "set", to |-> snapshot.paused]
<1>1. LeadSays /\ LeadSays'
  BY Lead
<1>2. /\ watcher.st = "send" /\ watcher' = Idle /\ cmds' = Append(cmds, c)
      /\ events' = Append(events, [kind |-> "changed", to |-> FALSE])
      /\ UNCHANGED <<config, snapshot, engine, loop, wish>>
  BY DEF WatcherSends, disk, inForce, history, aside
<1>3. Sets = {} /\ ~Storing /\ Flips = {}
  BY <1>1, <1>2 DEF Leads, LeadSays, OrdersSay
<1>4. c \in Command /\ c.kind = "set" /\ c.to = snapshot.paused
  BY DEF Whole, Settings, Command
<1> HIDE DEF c
<1>5. Sets' = {snapshot.paused} /\ OneSet'
  BY <1>2, <1>3, <1>4, CommandJoins
<1>6. Flips' = {} /\ ~Storing' /\ watcher'.st # "send"
  BY <1>2, <1>3, SentKeeps DEF Storing, Locked, Idle, At
<1>7. ~Pending /\ ~Pending' /\ Telling'
  BY <1>1, <1>3, <1>5, <1>6 DEF LeadSays, PendingSays, TellingSays
<1>8. Orders'
  BY <1>1, <1>2, <1>5, <1>6 DEF LeadSays, OrdersSay
<1>9. Follows'
  BY <1>2, <1>7 DEF Leads, Follows
<1>10. QED
  BY <1>8, <1>9 DEF Leads

\* The window's file has the pause it was saved for, or the one that was there.
LEMMA SaveRenamesLeads ==
  ASSUME Whole, Whole', Leads, Handles, Drafts, SaveRenames, slips' = {}
  PROVE  Leads'
<1>1. /\ Renamed /\ config' = window.staged /\ config' \in Settings
  BY FileWritten
<1>2. UNCHANGED <<snapshot, engine, events, cmds, loop, watcher>>
  BY DEF SaveRenames, beside, inForce, channels
<1>3. Sets' = Sets /\ (OneSet => OneSet') /\ Flips' = Flips /\ Storing' = Storing
  BY <1>2 DEF Sets, OneSet, Flips, Storing, Locked
<1>4. CASE window.picked
  <2>1. ~Underway /\ wish' = config'.paused
    BY <1>1, <1>4 DEF SaveRenames
  <2>2. LeadSays /\ LeadSays'
    BY Lead
  <2>3. ~Pending /\ ~Pending'
    BY <1>2, <1>3, <2>1, <2>2, NothingUnderway DEF LeadSays, PendingSays
  <2>4. Telling' <=> Telling
    BY <1>2, <1>3, <2>2 DEF LeadSays, TellingSays
  <2>5. Orders'
    BY <1>2, <1>3, <2>2 DEF Leads, LeadSays, OrdersSay
  <2>6. Follows'
    BY <1>2, <2>1, <2>3, <2>4 DEF Leads, Follows
  <2>7. QED
    BY <2>5, <2>6 DEF Leads
<1>5. CASE ~window.picked
  <2>1. wish' = wish
    BY <1>5 DEF SaveRenames
  <2>2. config # Broken /\ config.paused = window.staged.paused
    BY <1>5 DEF SaveRenames
  <2>3. QED
    BY <1>1, <1>2, <1>3, <2>1, <2>2, LeadSame DEF Leads, Follows
<1>6. QED
  BY <1>4, <1>5

\* The user asks for a pause, in the menu or in the file.
LEMMA UserLeads ==
  ASSUME Whole, Whole', Leads, PauseClicked \/ \E new \in Content : Edit(new), slips' = {}
  PROVE  Leads'
<1>1. CASE PauseClicked
  <2>1. /\ cmds' = Append(cmds, [kind |-> "toggle", to |-> FALSE])
        /\ UNCHANGED <<config, snapshot, engine, events, loop, watcher, wish>>
    BY <1>1 DEF PauseClicked, disk, inForce, history
  <2>2. [kind |-> "toggle", to |-> FALSE] \in Command
    BY DEF Command
  <2>3. Sets' = Sets /\ (OneSet => OneSet')
    BY <2>1, <2>2, CommandJoins
  <2>4. Flips' = Flips /\ Storing' = Storing
    BY <2>1 DEF Flips, Storing, Locked
  <2>5. QED
    BY <2>1, <2>3, <2>4, LeadSame DEF Leads, Follows
<1>2. ASSUME NEW new \in Content, Edit(new) PROVE Leads'
  <2>1. config' = new /\ UNCHANGED <<snapshot, engine, events, cmds, loop, watcher>>
    BY <1>2 DEF Edit, beside, inForce, channels
  <2>2. Sets' = Sets /\ (OneSet => OneSet') /\ Flips' = Flips /\ Storing' = Storing
    BY <2>1 DEF Sets, OneSet, Flips, Storing, Locked
  <2>3. CASE new # Broken /\ (config # Broken => config.paused # new.paused)
    <3>1. ~Underway /\ wish' = new.paused
      BY <1>2, <2>3 DEF Edit, Slip
    <3>2. LeadSays /\ LeadSays'
      BY Lead
    <3>3. ~Pending /\ ~Pending'
      BY <2>1, <2>2, <3>1, <3>2, NothingUnderway DEF LeadSays, PendingSays
    <3>4. Telling' <=> Telling
      BY <2>1, <2>2, <3>2 DEF LeadSays, TellingSays
    <3>5. Orders'
      BY <2>1, <2>2, <3>2 DEF Leads, LeadSays, OrdersSay
    <3>6. Follows'
      BY <2>1, <3>1, <3>3, <3>4 DEF Leads, Follows
    <3>7. QED
      BY <3>5, <3>6 DEF Leads
  <2>4. CASE ~(new # Broken /\ (config # Broken => config.paused # new.paused))
    <3>1. wish' = wish
      BY <1>2, <2>4 DEF Edit
    <3>2. config' # Broken => config # Broken /\ config'.paused = config.paused
      BY <2>1, <2>4
    <3>3. QED
      BY <2>1, <2>2, <3>1, <3>2, LeadSame DEF Leads, Follows
  <2>5. QED
    BY <2>3, <2>4
<1>3. QED
  BY <1>1, <1>2

\* Everything begins again from the file.
LEMMA RestartLeads ==
  ASSUME Whole, Whole', Leads, Restart, slips' = {}
  PROVE  Leads'
<1>1. LeadSays /\ LeadSays'
  BY Lead
<1>2. ~Underway /\ config # Broken
  BY DEF Restart
<1>3. /\ snapshot' = config /\ engine' = config.paused /\ cmds' = <<>> /\ events' = <<>>
      /\ loop' = Idle /\ watcher' = Idle /\ config' = config /\ wish' = wish
  BY <1>2 DEF Restart, Loaded
<1>4. Sets' = {} /\ Flips' = {} /\ OneSet'
  BY <1>3, NothingIn DEF Sets, Flips, OneSet
<1>5. ~Storing' /\ watcher'.st # "send"
  BY <1>3 DEF Storing, Locked, Idle, At
<1>6. ~Pending
  BY <1>1, <1>2, NothingUnderway DEF LeadSays, PendingSays
<1>7. ~Pending' /\ ~Telling'
  BY <1>1, <1>4, <1>5 DEF LeadSays, PendingSays, TellingSays
<1>8. Orders'
  BY <1>1, <1>4, <1>5 DEF LeadSays, OrdersSay
<1>9. Follows'
  BY <1>3, <1>6, <1>7 DEF Leads, Follows
<1>10. QED
  BY <1>8, <1>9 DEF Leads

\* The steps that leave it as it is.
LEMMA OthersLead ==
  ASSUME Whole, Whole', Leads, Handles, Drafts, slips' = {},
         \/ HandleChanged \/ ReloadClicked \/ ReloadSwaps \/ WatcherStats \/ WatcherReads
         \/ SaveCreates \/ SaveWrites \/ OpenWindow \/ WindowReloads \/ CloseWindow
         \/ \E w \in Waiters : Waiter(w)
         \/ \E p \in Prefs : (\E chips \in {{}, {TRUE}, {FALSE}} : SaveClicked(p, chips))
                             \/ IdentityStored(p)
         \/ UNCHANGED vars
  PROVE  Leads'
<1>1. SUFFICES /\ Flips' = Flips /\ (Storing' <=> Storing)
               /\ watcher'.st = "send" <=> watcher.st = "send"
               /\ snapshot'.paused = snapshot.paused
               /\ UNCHANGED <<cmds, engine, wish, config>>
  <2>1. UNCHANGED cmds => Sets' = Sets /\ (OneSet => OneSet')
    BY DEF Sets, OneSet
  <2>2. QED
    BY <2>1, LeadSame DEF Leads, Follows
<1>2. CASE HandleChanged
  <2>1. /\ events # <<>> /\ events' = Tail(events) /\ Head(events).kind = "changed"
        /\ UNCHANGED <<config, snapshot, engine, cmds, loop, watcher, wish>>
    BY <1>2 DEF HandleChanged, disk, history, others
  <2>2. Flips' = Flips
    BY <2>1, ReadTakes
  <2>3. QED
    BY <2>1, <2>2 DEF Storing, Locked
<1>3. CASE ReloadClicked \/ ReloadSwaps
  <2>1. UNCHANGED <<config, engine, cmds, events, watcher, wish>>
    BY <1>3 DEF ReloadClicked, ReloadSwaps, disk, inForce, channels, history, others
  <2>2. snapshot' = snapshot
    BY <1>3, SwapsFresh DEF ReloadClicked
  <2>3. loop.st \in {"idle", "swap"} /\ loop'.st \in {"idle", "swap"}
    BY <1>3 DEF ReloadClicked, ReloadSwaps, Read, Idle, At
  <2>4. QED
    BY <2>1, <2>2, <2>3 DEF Storing, Locked, Flips
<1>4. CASE WatcherStats \/ WatcherReads
  <2>1. UNCHANGED <<config, snapshot, engine, cmds, events, loop, wish>>
    BY <1>4 DEF WatcherStats, WatcherReads, disk, inForce, channels, history, aside
  <2>2. watcher.st # "send" /\ watcher'.st # "send"
    BY <1>4 DEF WatcherStats, WatcherReads, Read, Idle, At
  <2>3. QED
    BY <2>1, <2>2 DEF Storing, Locked, Flips
<1>5. CASE \E w \in Waiters : Waiter(w)
  <2>1. PICK w \in Waiters : Waiter(w)
    BY <1>5
  <2>2. UNCHANGED <<config, engine, cmds, loop, watcher, wish>>
    BY <2>1 DEF Waiter, WaiterReads, WaiterSwaps, WaiterSends, disk, beside, inForce, channels,
                history
  <2>3. snapshot'.paused = snapshot.paused
    BY <2>1, SwapsFresh DEF Waiter, WaiterReads, WaiterSends, beside
  <2>4. Flips' = Flips
    <3>1. CASE WaiterSends(w)
      BY <3>1, SentKeeps DEF WaiterSends
    <3>2. CASE ~WaiterSends(w)
      BY <2>1, <3>2 DEF Waiter, WaiterReads, WaiterSwaps, beside, channels, Flips
    <3>3. QED
      BY <3>1, <3>2
  <2>5. QED
    BY <2>2, <2>3, <2>4 DEF Storing, Locked
<1>6. CASE SaveCreates \/ SaveWrites
  <2>1. UNCHANGED <<snapshot, engine, cmds, events, loop, watcher, wish>>
    BY <1>6 DEF SaveCreates, SaveWrites, beside, inForce, channels, history
  <2>2. config' = config
    BY <1>6, FileWritten
  <2>3. QED
    BY <2>1, <2>2 DEF Storing, Locked, Flips
<1>7. CASE OpenWindow \/ WindowReloads \/ CloseWindow \/ UNCHANGED vars
  <2>1. UNCHANGED <<config, snapshot, engine, cmds, events, loop, watcher, wish>>
    BY <1>7 DEF OpenWindow, WindowReloads, CloseWindow, vars, disk, beside, inForce, channels,
                history
  <2>2. QED
    BY <2>1 DEF Storing, Locked, Flips
<1>8. CASE \E p \in Prefs : (\E chips \in {{}, {TRUE}, {FALSE}} : SaveClicked(p, chips))
                            \/ IdentityStored(p)
  <2>1. UNCHANGED <<config, snapshot, engine, cmds, events, loop, watcher, wish>>
    BY <1>8 DEF SaveClicked, IdentityStored, disk, beside, inForce, channels, history
  <2>2. QED
    BY <2>1 DEF Storing, Locked, Flips
<1>9. QED
  BY <1>2, <1>3, <1>4, <1>5, <1>6, <1>7, <1>8

LEMMA LeadsKept ==
  ASSUME Whole, Whole', LastFlip, Handles, Drafts, Leads, [Next]_vars, slips' = {}
  PROVE  Leads'
<1>1. CASE HandleCommand \/ PauseKey \/ HandlePaused
  BY <1>1, HandleCommandLeads, PauseKeyLeads, HandlePausedLeads
<1>2. CASE Update \/ UpdateWrites \/ UpdateRenames
  BY <1>2, UpdateLeads, UpdateRenamesLeads
<1>3. CASE WatcherSwaps \/ WatcherSends \/ SaveRenames
  BY <1>3, WatcherSwapsLeads, WatcherSendsLeads, SaveRenamesLeads
<1>4. CASE PauseClicked \/ (\E new \in Content : Edit(new)) \/ Restart
  BY <1>4, UserLeads, RestartLeads
<1>5. CASE \/ HandleChanged \/ ReloadClicked \/ ReloadSwaps \/ WatcherStats \/ WatcherReads
           \/ SaveCreates \/ SaveWrites \/ OpenWindow \/ WindowReloads \/ CloseWindow
           \/ \E w \in Waiters : Waiter(w)
           \/ \E p \in Prefs : (\E chips \in {{}, {TRUE}, {FALSE}} : SaveClicked(p, chips))
                               \/ IdentityStored(p)
           \/ UNCHANGED vars
  BY <1>5, OthersLead
<1>6. QED
  BY <1>1, <1>2, <1>3, <1>4, <1>5 DEF Next, EventLoop, Watcher, WindowWrites

-----------------------------------------------------------------------------
(* Agreement. *)

LEMMA CleanInit == ASSUME Init PROVE LastFlip /\ Clean
<1>1. Whole
  BY InitWhole
<1>2. /\ cmds = <<>> /\ events = <<>> /\ snapshot = config /\ tray = engine
      /\ engine = config.paused /\ wish = config.paused /\ saved = config.pref
      /\ chords = config.pref /\ looks = config.pref
  BY DEF Init
<1>3. loop = Idle /\ watcher = Idle /\ window = Closed /\ fd["tray"] = "none" /\ fd["window"] = "none"
  BY DEF Init
<1>4. loop.st = "idle" /\ watcher.st = "idle" /\ window.st = "closed"
  BY <1>3 DEF Idle, At, Closed
<1>5. ~Storing /\ ~Pending /\ ~Telling
  BY <1>2, <1>4, NothingIn DEF Storing, Locked, Pending, Telling
<1>6. LastFlip
  BY <1>2, NothingIn DEF LastFlip
<1>7. Handles /\ Drafts /\ Sees
  BY <1>2, <1>3, <1>4 DEF Handles, Drafts, Sees, Writing, Locked
<1>8. Orders /\ Follows
  BY <1>2, <1>5, NothingIn DEF Orders, Follows
<1>9. SavedKept /\ Renews
  BY <1>2 DEF SavedKept, Renews
<1>10. QED
  BY <1>6, <1>7, <1>8, <1>9 DEF Clean

LEMMA CleanKept ==
  ASSUME Whole, Whole', LastFlip, slips = {} => Clean, [Next]_vars
  PROVE  LastFlip' /\ (slips' = {} => Clean')
<1>1. LastFlip'
  BY LastFlipKept
<1>2. ASSUME slips' = {} PROVE Clean'
  <2>1. slips = {}
    BY <1>2, SlipsGrow
  <2>2. Handles /\ Drafts /\ Sees /\ Leads /\ SavedKept /\ Renews
    BY <2>1 DEF Clean, Leads
  <2>3. Handles' /\ Drafts'
    BY <1>2, <2>1, <2>2, HandlesKept
  <2>4. Sees'
    BY <1>2, <2>1, <2>2, SeesKept
  <2>5. Leads'
    BY <1>2, <2>2, LeadsKept
  <2>6. SavedKept' /\ Renews'
    BY <1>2, <2>2, SavedKeptKept, RenewsKept
  <2>7. QED
    BY <2>3, <2>4, <2>5, <2>6 DEF Clean, Leads
<1>3. QED
  BY <1>1, <1>2

\* Nothing under way, and nothing has gone wrong: the invariant comes down to
\* agreement.
LEMMA QuietAgrees == ASSUME Whole, LastFlip, slips = {} => Clean PROVE Agree
<1>1. SUFFICES ASSUME Quiet, config # Broken, slips = {}
               PROVE  /\ config.paused = wish /\ engine = wish /\ tray = wish
                      /\ config.pref = saved /\ snapshot = config
                      /\ chords = saved /\ looks = saved
  BY DEF Agree
<1>2. Clean
  BY <1>1
<1>3. loop.st = "idle" /\ watcher.st = "idle"
  BY <1>1 DEF Quiet, Idle, At
<1>4. ~Storing /\ ~Pending /\ ~Telling
  BY <1>1, <1>3, NothingIn DEF Quiet, Storing, Locked, Pending, Telling
<1>5. snapshot = config
  BY <1>1, <1>2, <1>3 DEF Clean, Sees, Quiet, Locked
<1>6. config.paused = wish /\ engine = config.paused
  BY <1>1, <1>2, <1>4, <1>5 DEF Clean, Follows
<1>7. tray = engine
  BY <1>1, NothingIn DEF LastFlip, Quiet
<1>8. config.pref = saved
  BY <1>1, <1>2 DEF Clean, SavedKept
<1>9. chords = snapshot.pref /\ looks = snapshot.pref
  BY <1>1, <1>2, <1>3, NothingIn DEF Clean, Renews, Quiet
<1>10. QED
  BY <1>5, <1>6, <1>7, <1>8, <1>9

\* The inductive invariant: the icon follows the engine whatever happens.
IInv == Whole /\ LastFlip /\ (slips = {} => Clean)

\* Once everything that is under way has arrived, and nothing has gone wrong in
\* one of the known ways, the engine, the tray, the file and every copy of it
\* agree on what the user asked for and was told.
THEOREM SettingsAgree == Spec => []Agree
<1>1. Init => IInv
  BY InitWhole, CleanInit DEF IInv
<1>2. IInv /\ [Next]_vars => IInv'
  <2>1. ASSUME IInv, [Next]_vars PROVE IInv'
    <3>1. Whole'
      BY <2>1, WholeKept DEF IInv
    <3>2. LastFlip' /\ (slips' = {} => Clean')
      BY <2>1, <3>1, CleanKept DEF IInv
    <3>3. QED
      BY <3>1, <3>2 DEF IInv
  <2>2. QED
    BY <2>1
<1>3. IInv => Agree
  BY QuietAgrees DEF IInv
<1>4. QED
  BY <1>1, <1>2, <1>3, PTL DEF Spec
=============================================================================
