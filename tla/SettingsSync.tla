----------------------------- MODULE SettingsSync -----------------------------
(***************************************************************************)
(* config.toml and everybody who reads or writes it: the engine's pause    *)
(* flag, the tray's event loop, the config watcher, the thread that waits  *)
(* for the Settings window, and the window, which is a process of its own. *)
(*                                                                         *)
(* A step is one file operation or one turn of a lock, channel or event    *)
(* loop.  fs::write is two steps, and both processes write the same        *)
(* config.toml.tmp before they rename it; a handle follows its file when   *)
(* that is renamed.  A settings value is the pause flag and `pref', which  *)
(* stands for all the other keys together.  A file that is empty, mixed    *)
(* from two writers or misspelt by hand does not parse (schema_version has *)
(* no default): Broken.  The stamp of the file changes whenever the file   *)
(* does.  What SettingsReloaded does to the engine is in TypedText.        *)
(***************************************************************************)
EXTENDS Integers, Sequences

CONSTANTS
  Prefs,      \* values of all keys but [general].paused
  Default,    \* ... those of Settings::default()
  Broken,     \* a file that does not parse
  Absent,     \* no file
  Waiters,    \* settings-waiter threads that may live at once
  MaxActs     \* bound: what the user does

Settings == [paused : BOOLEAN, pref : Prefs]

ASSUME SettingsAssumption ==
  /\ Default \in Prefs
  /\ Broken \notin Settings /\ Absent \notin Settings \cup {Broken}
  /\ MaxActs \in Nat

VARIABLES
  config,   \* config.toml
  tmp,      \* config.toml.tmp
  fd,       \* the file each process is writing: where it is linked by now
  moved,    \* the stamp differs from the one the watcher saw last
  snapshot, \* the tray process' SettingsStore
  engine,   \* the engine's `paused'
  cmds,     \* commands on their way to it
  events,   \* user events on their way to the event loop
  tray,     \* the tray's `paused' (icon and menu item)
  chords,   \* the pref whose hotkeys are armed
  looks,    \* the pref whose language, icon style and pacing are in force
  loop,     \* the event loop: where it is, and what it has read
  watcher,  \* the config watcher
  waiters,  \* the threads that wait for a window
  window,   \* the Settings window
  acts,     \* bound
  wish,     \* history: the pause state the user asked for last
  saved,    \* history: the pref the user was told is saved
  slips     \* history: the known ways of going wrong this run went

disk == <<config, tmp, fd, moved>>
inForce == <<engine, tray, chords, looks>>
channels == <<cmds, events>>
history == <<wish, saved, slips>>
vars == <<disk, snapshot, inForce, channels, loop, watcher, waiters, window,
          acts, history>>

Defaults == [paused |-> FALSE, pref |-> Default]
Content == Settings \cup {Broken}
Closed == [st |-> "closed", settings |-> Defaults, store |-> Defaults,
           staged |-> Defaults, chosen |-> FALSE, picked |-> FALSE, told |-> Default]
At(st, val) == [st |-> st, val |-> val]
Idle == At("idle", Defaults)

Command == [kind : {"toggle", "set"}, to : BOOLEAN]
UserEvent == [kind : {"paused", "changed"}, to : BOOLEAN]
Thread == [st : {"idle", "wait", "read", "swap", "send", "update", "write", "rename"},
           val : Content]

\* Every variable has its type, and a handle on the temporary file means that
\* there is one.
TypeOK ==
  /\ config \in Content /\ tmp \in Content \cup {Absent}
  /\ fd \in [{"tray", "window"} -> {"none", "tmp", "config", "lost"}]
  /\ \A w \in DOMAIN fd : fd[w] = "tmp" => tmp # Absent
  /\ {moved, engine, tray, wish} \subseteq BOOLEAN
  /\ snapshot \in Settings
  /\ cmds \in Seq(Command) /\ events \in Seq(UserEvent)
  /\ {chords, looks, saved} \subseteq Prefs
  /\ loop \in Thread /\ watcher \in Thread /\ waiters \in [Waiters -> Thread]
  /\ window \in [st : {"closed", "open", "create", "write", "rename"},
                 settings : Settings, store : Settings, staged : Settings,
                 chosen : BOOLEAN,    \* conversion_chosen_here
                 picked : BOOLEAN, told : Prefs]  \* history: what this Save is for
  /\ acts \in 0..MaxActs
  /\ slips \subseteq {"swallowed", "reloaded", "overwritten", "raced", "stale", "torn",
                      "quit", "defaults", "chosen", "crossed"}

Init ==
  /\ config \in Settings /\ tmp = Absent
  /\ fd = [w \in {"tray", "window"} |-> "none"] /\ moved = FALSE
  /\ snapshot = config
  /\ engine = config.paused /\ tray = config.paused
  /\ chords = config.pref /\ looks = config.pref
  /\ cmds = <<>> /\ events = <<>>
  /\ loop = Idle /\ watcher = Idle /\ waiters = [w \in Waiters |-> Idle]
  /\ window = Closed /\ acts = 0
  /\ wish = config.paused /\ saved = config.pref /\ slips = {}

-----------------------------------------------------------------------------
(* write_atomically(), for either process. *)

Writing(w) ==
  IF w = "tray" THEN loop.st \in {"write", "rename"} ELSE window.st \in {"write", "rename"}

Slip(s, happened) == slips' = IF happened THEN slips \cup {s} ELSE slips

\* File::create truncates a file that is there, the other process' included.
Create(w) ==
  /\ tmp' = Broken
  /\ fd' = [fd EXCEPT ![w] = "tmp"]
  /\ UNCHANGED <<config, moved>>

\* A text written over another one may leave the end of the longer.
Over(old, new) == IF old = Broken THEN {new} ELSE {new, Broken}

Write(w, new) ==
  /\ fd' = [fd EXCEPT ![w] = "none"]
  /\ CASE fd[w] = "tmp"    -> tmp' \in Over(tmp, new) /\ UNCHANGED <<config, moved>>
       [] fd[w] = "config" -> config' \in Over(config, new) /\ moved' = TRUE /\ UNCHANGED tmp
       [] OTHER            -> UNCHANGED <<config, tmp, moved>>

\* Whose file it is does not matter to rename.
Renamed == tmp # Absent

Rename ==
  IF Renamed
  THEN /\ config' = tmp /\ tmp' = Absent /\ moved' = TRUE
       /\ fd' = [w \in DOMAIN fd |-> CASE fd[w] = "tmp" -> "config"
                                       [] fd[w] = "config" -> "lost"
                                       [] OTHER -> fd[w]]
  ELSE UNCHANGED disk

-----------------------------------------------------------------------------
(* SettingsStore in the tray process. *)

Locked == loop.st \in {"write", "rename"}     \* update() writes under the lock

\* Mutant: a file that does not parse is read again at once.
MutRead(t) == IF config = Broken THEN t ELSE At("swap", config)

\* reload(): the file is read before the lock is taken.
Read(t) == IF config = Broken THEN Idle ELSE At("swap", config)

Swap(val) == ~Locked /\ snapshot' = val

Changed(val) == snapshot # val

\* A pause on its way to the file.
Underway ==
  loop # Idle \/ cmds # <<>> \/ \E i \in DOMAIN events : events[i].kind = "paused"

-----------------------------------------------------------------------------
(* The engine thread. *)

\* TogglePause.
Flip ==
  /\ engine' = ~engine
  /\ events' = Append(events, [kind |-> "paused", to |-> ~engine])

\* The user's; it crosses what the watcher is about to apply.
Toggle(behind) ==
  /\ Flip /\ wish' = ~engine
  /\ Slip("crossed", watcher.st # "idle" \/ \E i \in DOMAIN behind : behind[i].kind = "set")

\* Mutant: SetPaused taken for a toggle.
MutSetPaused(to) == Flip

SetPaused(to) == IF engine # to THEN Flip ELSE UNCHANGED <<engine, events>>

HandleCommand ==
  /\ cmds # <<>>
  /\ cmds' = Tail(cmds)
  /\ IF Head(cmds).kind = "toggle" THEN Toggle(Tail(cmds))
     ELSE SetPaused(Head(cmds).to) /\ UNCHANGED <<wish, slips>>
  /\ UNCHANGED <<disk, snapshot, tray, chords, looks, loop, watcher, waiters,
                 window, acts, saved>>

-----------------------------------------------------------------------------
(* The event loop of the tray. *)

others == <<watcher, waiters, window, acts>>

\* PausedChanged: written down unless the file is what asked for it.
HandlePaused ==
  /\ loop.st = "idle" /\ events # <<>> /\ Head(events).kind = "paused"
  /\ events' = Tail(events)
  /\ tray' = Head(events).to
  /\ loop' = IF snapshot.paused # Head(events).to THEN At("update", Defaults) ELSE loop
  /\ UNCHANGED <<disk, snapshot, engine, chords, looks, cmds, history, others>>

\* SettingsStore::update()
Update ==
  /\ loop.st = "update"
  /\ snapshot' = [snapshot EXCEPT !.paused = tray]
  /\ Create("tray")
  /\ loop' = At("write", snapshot)
  /\ Slip("torn", Writing("window"))
  /\ UNCHANGED <<inForce, channels, wish, saved, others>>

UpdateWrites ==
  /\ loop.st = "write"
  /\ Write("tray", snapshot)
  /\ loop' = [loop EXCEPT !.st = "rename"]
  /\ UNCHANGED <<snapshot, inForce, channels, history, others>>

UpdateRenames ==
  /\ loop.st = "rename"
  /\ Rename
  /\ loop' = Idle
  /\ Slip("overwritten", config # loop.val)     \* a file the tray has not read
  /\ UNCHANGED <<snapshot, inForce, channels, wish, saved, others>>

\* SettingsChanged: everything the tray keeps a copy of is renewed.
HandleChanged ==
  /\ loop.st = "idle" /\ events # <<>> /\ Head(events).kind = "changed"
  /\ events' = Tail(events)
  /\ chords' = snapshot.pref /\ looks' = snapshot.pref
  /\ UNCHANGED <<disk, snapshot, engine, tray, cmds, loop, history, others>>

\* The menu's "Reload Settings" renews the chords only.
ReloadClicked ==
  /\ loop.st = "idle" /\ acts < MaxActs
  /\ acts' = acts + 1
  /\ loop' = Read(loop)
  /\ UNCHANGED <<disk, snapshot, inForce, channels, watcher, waiters, window, history>>

ReloadSwaps ==
  /\ loop.st = "swap"
  /\ snapshot' = loop.val
  /\ loop' = Idle
  /\ chords' = IF Changed(loop.val) THEN loop.val.pref ELSE chords
  /\ slips' = slips \cup (IF Changed(loop.val) THEN {"reloaded"} ELSE {})
  /\ UNCHANGED <<disk, engine, tray, looks, channels, wish, saved, others>>

EventLoop ==
  \/ HandlePaused \/ Update \/ UpdateWrites \/ UpdateRenames
  \/ HandleChanged \/ ReloadSwaps

-----------------------------------------------------------------------------
(* The config watcher. *)

aside == <<loop, waiters, window, acts>>

WatcherStats ==
  /\ watcher.st = "idle" /\ moved
  /\ moved' = FALSE
  /\ watcher' = At("read", Defaults)
  /\ UNCHANGED <<config, tmp, fd, snapshot, inForce, channels, history, aside>>

WatcherReads ==
  /\ watcher.st = "read"
  /\ watcher' = Read(watcher)
  /\ UNCHANGED <<disk, snapshot, inForce, channels, history, aside>>

WatcherSwaps ==
  /\ watcher.st = "swap"
  /\ Swap(watcher.val)
  /\ watcher' = IF Changed(watcher.val) THEN At("send", Defaults) ELSE Idle
  /\ slips' = slips
       \cup (IF Changed(watcher.val) /\ config # watcher.val THEN {"stale"} ELSE {})
       \cup (IF Changed(watcher.val) /\ Underway THEN {"crossed"} ELSE {})
  /\ UNCHANGED <<disk, inForce, channels, wish, saved, aside>>

\* Mutant: the pause state is left to the engine's own.
MutWatcherSends ==
  /\ watcher.st = "send" /\ ~Locked
  /\ events' = Append(events, [kind |-> "changed", to |-> FALSE])
  /\ watcher' = Idle
  /\ UNCHANGED <<disk, snapshot, inForce, cmds, history, aside>>

WatcherSends ==
  /\ watcher.st = "send" /\ ~Locked
  /\ cmds' = Append(cmds, [kind |-> "set", to |-> snapshot.paused])
  /\ events' = Append(events, [kind |-> "changed", to |-> FALSE])
  /\ watcher' = Idle
  /\ UNCHANGED <<disk, snapshot, inForce, history, aside>>

Watcher == WatcherStats \/ WatcherReads \/ WatcherSwaps \/ WatcherSends

-----------------------------------------------------------------------------
(* The Settings window and the thread that waits for it. *)

beside == <<snapshot, inForce, channels, loop, watcher>>

Act == acts < MaxActs /\ acts' = acts + 1

\* Mutant: a file that does not parse is taken for settings.
MutLoaded == config

\* load_or_default(): a file that does not parse is left alone.
Loaded == IF config = Broken THEN Defaults ELSE config

\* SETTINGS_OPEN lets one window be open.
OpenWindow ==
  /\ window.st = "closed" /\ Act
  /\ \A w \in Waiters : waiters[w].st # "wait"
  /\ \E w \in Waiters :
       /\ waiters[w] = Idle
       /\ waiters' = [waiters EXCEPT ![w] = At("wait", Defaults)]
  /\ window' = [Closed EXCEPT !.st = "open", !.settings = Loaded, !.store = Loaded]
  /\ UNCHANGED <<disk, beside, history>>

\* The pause on disk is newer than the window's copy, unless it was chosen here.
with_runtime_state(staged, onDisk, chosen) ==
  IF chosen THEN staged ELSE [staged EXCEPT !.paused = onDisk.paused]

\* The user has edited the settings, the Conversion chips perhaps, and saves:
\* the window re-reads the file and builds what it is going to write.
SaveClicked(p, chips) ==
  /\ window.st = "open" /\ Act
  /\ LET edited == [paused |-> IF chips = {} THEN window.settings.paused
                               ELSE TRUE \in chips, pref |-> p]
         chosen == window.chosen \/ chips # {}
         store  == IF config = Broken THEN window.store ELSE config
     IN  window' = [window EXCEPT !.st = "create", !.settings = edited,
                      !.chosen = chosen, !.picked = @ \/ chips # {}, !.told = p, !.store = store,
                      !.staged = with_runtime_state(edited, store, chosen)]
  /\ UNCHANGED <<disk, beside, waiters, history>>

\* "Set up local signing" writes the window's copy of the file as it is.
IdentityStored(p) ==
  /\ window.st = "open" /\ Act
  /\ window' = [window EXCEPT !.st = "create", !.picked = FALSE, !.told = p,
                               !.staged = [window.store EXCEPT !.pref = p]]
  /\ UNCHANGED <<disk, beside, waiters, history>>

\* The window's Reload; what its chips chose stays chosen.
WindowReloads ==
  /\ window.st = "open" /\ Act
  /\ window' = [window EXCEPT !.settings = Loaded]
  /\ UNCHANGED <<disk, beside, waiters, history>>

SaveCreates ==
  /\ window.st = "create"
  /\ Create("window")
  /\ window' = [window EXCEPT !.st = "write", !.store = window.staged]
  /\ Slip("torn", Writing("tray"))
  /\ UNCHANGED <<beside, waiters, acts, wish, saved>>

SaveWrites ==
  /\ window.st = "write"
  /\ Write("window", window.staged)
  /\ window' = [window EXCEPT !.st = "rename"]
  /\ UNCHANGED <<beside, waiters, acts, history>>

\* "Saved to ..."; chips clicked since the last time are a wish.
SaveRenames ==
  /\ window.st = "rename"
  /\ Rename
  /\ LET new == window.staged
         other == config = Broken \/ config.paused # new.paused
     IN  /\ saved' = IF Renamed THEN window.told ELSE saved
         /\ wish' = IF Renamed /\ window.picked THEN new.paused ELSE wish
         /\ slips' = slips
              \cup (IF (other /\ ~window.chosen) \/ (window.picked /\ Underway)
                    THEN {"raced"} ELSE {})
              \cup (IF other /\ window.chosen /\ ~window.picked THEN {"chosen"} ELSE {})
  /\ window' = [window EXCEPT !.st = "open", !.picked = @ /\ ~Renamed]
  /\ UNCHANGED <<beside, waiters, acts>>

CloseWindow ==
  /\ window.st = "open"
  /\ window' = Closed
  /\ waiters' = [w \in Waiters |-> IF waiters[w].st = "wait"
                                   THEN At("read", Defaults) ELSE waiters[w]]
  /\ UNCHANGED <<disk, beside, acts, history>>

WaiterReads(w) ==
  /\ waiters[w].st = "read"
  /\ waiters' = [waiters EXCEPT ![w] =
                   IF config = Broken THEN At("send", Defaults) ELSE Read(@)]
  /\ UNCHANGED <<disk, beside, window, acts, history>>

\* The pause flag it brings in goes nowhere.
WaiterSwaps(w) ==
  /\ waiters[w].st = "swap"
  /\ Swap(waiters[w].val)
  /\ waiters' = [waiters EXCEPT ![w] = At("send", Defaults)]
  /\ slips' = slips
       \cup (IF snapshot.paused # waiters[w].val.paused THEN {"swallowed"} ELSE {})
       \cup (IF Changed(waiters[w].val) /\ config # waiters[w].val THEN {"stale"} ELSE {})
  /\ UNCHANGED <<disk, inForce, channels, loop, watcher, window, acts, wish, saved>>

WaiterSends(w) ==
  /\ waiters[w].st = "send"
  /\ events' = Append(events, [kind |-> "changed", to |-> FALSE])
  /\ waiters' = [waiters EXCEPT ![w] = Idle]
  /\ UNCHANGED <<disk, snapshot, inForce, cmds, loop, watcher, window, acts, history>>

Waiter(w) == WaiterReads(w) \/ WaiterSwaps(w) \/ WaiterSends(w)

WindowWrites == SaveCreates \/ SaveWrites \/ SaveRenames

-----------------------------------------------------------------------------
(* The user. *)

\* The tray's menu item or an OS hotkey; the hotkey on the key stream.
PauseClicked ==
  /\ Act
  /\ cmds' = Append(cmds, [kind |-> "toggle", to |-> FALSE])
  /\ UNCHANGED <<disk, snapshot, inForce, events, loop, watcher, waiters, window, history>>

PauseKey ==
  /\ Act
  /\ Toggle(cmds)
  /\ UNCHANGED <<disk, snapshot, tray, chords, looks, cmds, loop, watcher, waiters,
                 window, saved>>

\* config.toml is changed by hand, or by a synchronised home directory.
Edit(new) ==
  /\ Act
  /\ new # config
  /\ config' = new /\ moved' = TRUE
  /\ fd' = [w \in DOMAIN fd |-> IF fd[w] = "config" THEN "lost" ELSE fd[w]]
  /\ LET wished == new # Broken /\ (config # Broken => config.paused # new.paused)
     IN  /\ saved' = IF new # Broken THEN new.pref ELSE saved
         /\ wish' = IF wished THEN new.paused ELSE wish
         /\ Slip("raced", \/ Writing("tray") \/ window.st \in {"create", "write", "rename"}
                          \/ wished /\ Underway)
  /\ UNCHANGED <<tmp, beside, waiters, window>>

\* The program quits, or dies, at any point and is started again; a window
\* that is open goes with it.
Restart ==
  /\ Act
  /\ snapshot' = Loaded
  /\ engine' = Loaded.paused /\ tray' = Loaded.paused
  /\ chords' = Loaded.pref /\ looks' = Loaded.pref
  /\ cmds' = <<>> /\ events' = <<>>
  /\ loop' = Idle /\ watcher' = Idle /\ waiters' = [w \in Waiters |-> Idle]
  /\ window' = Closed
  /\ fd' = [w \in DOMAIN fd |-> "none"] /\ moved' = FALSE
  /\ slips' = slips
       \cup (IF Underway \/ watcher.st = "send" THEN {"quit"} ELSE {})
       \cup (IF config = Broken THEN {"defaults"} ELSE {})
  /\ UNCHANGED <<config, tmp, wish, saved>>

Next ==
  \/ HandleCommand
  \/ EventLoop \/ ReloadClicked
  \/ Watcher
  \/ \E w \in Waiters : Waiter(w)
  \/ WindowWrites
  \/ OpenWindow \/ WindowReloads \/ CloseWindow
  \/ \E p \in Prefs : (\E chips \in {{}, {TRUE}, {FALSE}} : SaveClicked(p, chips))
                      \/ IdentityStored(p)
  \/ PauseClicked \/ PauseKey
  \/ \E new \in Content : Edit(new)
  \/ Restart

Spec == Init /\ [][Next]_vars

\* Every thread is scheduled; the user need not do anything.
Fairness ==
  /\ WF_vars(HandleCommand) /\ WF_vars(EventLoop) /\ WF_vars(Watcher)
  /\ \A w \in Waiters : WF_vars(Waiter(w))
  /\ WF_vars(WindowWrites)

FairSpec == Spec /\ Fairness

-----------------------------------------------------------------------------
(* Properties. *)

Quiet ==
  /\ cmds = <<>> /\ events = <<>> /\ ~moved
  /\ loop = Idle /\ watcher = Idle
  /\ \A w \in Waiters : waiters[w].st \in {"idle", "wait"}
  /\ window.st \in {"closed", "open"}

\* Once everything that is under way has arrived, the engine, the tray and the
\* file agree on what the user asked for last, settings the user was told are
\* saved are still in the file, and every copy of the settings is that of the
\* file -- unless one of the known slips happened.
Agree ==
  Quiet /\ config # Broken /\ slips = {}
    => /\ config.paused = wish /\ engine = wish /\ tray = wish
       /\ config.pref = saved /\ snapshot = config
       /\ chords = saved /\ looks = saved

\* When the user stops, the program stops: without a slip the pause flag does
\* not go round between the engine, the tray and the file.
Settles == [](slips = {}) => <>[]Quiet

\* "Any kind of edit takes effect before focus returns to the user's app" when
\* the window closes: what was saved is in force.
SavedIsInForce ==
  Quiet /\ config # Broken /\ slips \subseteq {"swallowed"} => engine = config.paused

\* "Fall back to defaults without overwriting the user's file (so they can fix
\* it manually)": no file that does not parse is replaced but by the user, in an
\* editor or in the window.
BrokenFileIsKept ==
  [][config = Broken /\ window = Closed /\ acts' = acts => config' = Broken]_vars
=============================================================================
