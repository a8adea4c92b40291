------------------------------- MODULE Updater -------------------------------
(***************************************************************************)
(* The self-updater: the worker thread that stages a release, the tray     *)
(* that offers it and hands it over, the installer of each platform, and   *)
(* the staging directory the three share.                                  *)
(*                                                                         *)
(* A step is one file operation, so the worker, the tray, an installer     *)
(* script and a crash meet between any two of them.  fs::write is two      *)
(* steps (the file is truncated, then written); remove_dir_all is one, and *)
(* a write through a handle whose file was removed is lost.  When a check  *)
(* is due, what the network and the OS answer and how long a greeting      *)
(* takes are choices, and a click on "Check for updates" is a check that   *)
(* is due.  So are updates.enabled and the version latest.json names (a    *)
(* release can be withdrawn), which may change before every read.          *)
(* Artifact names differ from release to release, the bookkeeping never    *)
(* meets a full disk, and one installer runs at a time.                    *)
(* install-failed.txt only carries a message and is left out.              *)
(***************************************************************************)
EXTENDS Integers, Sequences

CONSTANTS
  Release,               \* versions that can be published, as naturals
  FirstVersion,          \* the version on the machine at the start
  MAX_INSTALL_ATTEMPTS,
  MaxEvents              \* bound: results of the worker the tray has not read

ASSUME UpdaterAssumption ==
  /\ Release \subseteq Nat
  /\ FirstVersion \in Nat \ {0}
  /\ \A v \in Release : v > FirstVersion
  /\ Release # {}
  /\ MAX_INSTALL_ATTEMPTS \in Nat \ {0}
  /\ MaxEvents \in Nat \ {0}

VARIABLES
  platform,    \* the backend: "linux" (AppImage), "windows", "macos", or
               \* "unowned", a build the updater must not overwrite
  pending,     \* pending.json
  artifact,    \* the files at their final paths
  part,        \* the .part file of the running or of a broken-off download
  installed,   \* version on disk, 0 when what is there cannot start
  aside,       \* version in the bundle's Contents.old, 0 when there is none
  running,     \* version of the process, 0 when there is none
  update_pending, \* what the tray offers
  tray,        \* where the event loop is in a click
  relaunch,    \* ... which was "Restart to update", not Quit
  events,      \* UserEvent::Update: what each makes of update_pending
  worker,      \* where check_and_stage() is; "off": there is no thread
  version,     \* the manifest's version it works on
  script       \* the installer script, or the relaunch watcher of Linux

disk == <<pending, artifact, part>>
workerVars == <<worker, version>>
trayVars == <<update_pending, tray, relaunch>>
vars == <<platform, disk, installed, aside, running, trayVars, events,
          workerVars, script>>

Version == Release \cup {FirstVersion}

NoRecord == [version |-> 0, attempts |-> 0]
Torn     == [version |-> 0, attempts |-> 1]   \* truncated: does not parse
Record   == [version : Release, attempts : 0..MAX_INSTALL_ATTEMPTS]
NoPart   == [version |-> 0, whole |-> FALSE]
NoScript == [st |-> "none", version |-> 0, relaunch |-> FALSE, ok |-> FALSE]

Busy == {"waiting", "ready", "aside", "relaunch", "cleanup"}

\* Every variable has its type.
TypeOK ==
  /\ platform \in {"linux", "windows", "macos", "unowned"}
  /\ relaunch \in BOOLEAN
  /\ pending \in Record \cup {NoRecord, Torn}
  /\ artifact \in [Release -> {"absent", "whole", "broken"}]
  /\ part \in [version : Release, whole : BOOLEAN] \cup {NoPart}
  /\ installed \in Version \cup {0}
  /\ running \in Version \cup {0}
  /\ update_pending \in Record \cup {NoRecord}
  /\ tray \in {"idle", "apply", "note", "noting", "reread", "exiting"}
  /\ events \in Seq(Record \cup {NoRecord}) /\ Len(events) <= MaxEvents
  /\ worker \in {"off", "idle", "disabled", "fetch", "look", "supersede",
                 "download", "stream", "rename", "record", "write"}
  /\ version \in Release \cup {0}
  /\ script \in [st : Busy \cup {"none", "dead"}, version : Release \cup {0},
                 relaunch : BOOLEAN, ok : BOOLEAN]
  /\ aside \in Version \cup {0}

Init ==
  /\ platform \in {"linux", "windows", "macos", "unowned"}
  /\ pending = NoRecord /\ artifact = [v \in Release |-> "absent"]
  /\ part = NoPart
  /\ installed = FirstVersion /\ aside = 0 /\ running = 0
  /\ update_pending = NoRecord /\ tray = "idle" /\ relaunch = FALSE
  /\ events = <<>>
  /\ worker = "off" /\ version = 0
  /\ script = NoScript

-----------------------------------------------------------------------------
(* The staging directory. *)

\* is_file() is all read_pending asks of the artifact.
Valid(r) == r.version # 0 /\ artifact[r.version] # "absent"

clear_pending ==
  /\ pending' = NoRecord
  /\ artifact' = [v \in Release |-> "absent"]
  /\ part' = NoPart

ForgetRecord == IF pending = NoRecord THEN UNCHANGED disk ELSE clear_pending

\* What read_pending() leaves on disk: a record without an artifact, or one
\* that does not parse, takes the directory with it.
DropInvalid == IF Valid(pending) THEN UNCHANGED disk ELSE ForgetRecord

\* Mutant: any staged record is offered.
Mut_pending_for_this_build(current) ==
  IF Valid(pending)
  THEN update_pending' = pending /\ UNCHANGED disk
  ELSE update_pending' = NoRecord /\ ForgetRecord

pending_for_this_build(current) ==
  IF Valid(pending) /\ pending.version > current
  THEN update_pending' = pending /\ UNCHANGED disk
  ELSE update_pending' = NoRecord /\ ForgetRecord

Unlinked(v) == [artifact EXCEPT ![v] = "absent"]

\* What a file is worth once it is the installed one.
Put(v) == IF artifact[v] = "whole" THEN v ELSE 0

-----------------------------------------------------------------------------
(* The process comes and goes. *)

Launch ==
  /\ running' = installed
  /\ \/ worker' = "idle" /\ pending_for_this_build(installed)
     \/ worker' = "off" /\ update_pending' = NoRecord /\ UNCHANGED disk
  /\ tray' = "idle" /\ relaunch' = FALSE /\ events' = <<>> /\ version' = 0

\* By hand, at login, or by systemd.
Start ==
  /\ running = 0 /\ installed # 0
  /\ Launch
  /\ UNCHANGED <<platform, installed, aside, script>>

\* The threads end with the process; a script that waited for it goes on.
Gone ==
  /\ running' = 0
  /\ update_pending' = NoRecord /\ tray' = "idle" /\ relaunch' = FALSE
  /\ events' = <<>> /\ worker' = "off" /\ version' = 0
  /\ script' = (IF script.st = "waiting" THEN [script EXCEPT !.st = "ready"] ELSE script)
  /\ UNCHANGED <<platform, disk, installed, aside>>

Exit  == running # 0 /\ tray = "exiting" /\ Gone
Crash == running # 0 /\ Gone

-----------------------------------------------------------------------------
(* The worker thread: spawn_update_worker and check_and_stage(). *)

outsideWorker == <<platform, installed, aside, running, trayVars, script>>

Answer(e) == events' = Append(events, e)

WorkerWakes ==
  /\ worker = "idle" /\ Len(events) < MaxEvents
  /\ worker' \in {"fetch", "disabled"}
  /\ UNCHANGED <<outsideWorker, disk, events, version>>

WorkerDiscards ==
  /\ worker = "disabled"
  /\ worker' = "idle"
  /\ ForgetRecord
  /\ IF Valid(pending) THEN Answer(NoRecord) ELSE UNCHANGED events
  /\ UNCHANGED <<outsideWorker, version>>

FetchFails ==
  /\ worker = "fetch"
  /\ worker' = "idle"
  /\ UNCHANGED <<outsideWorker, disk, events, version>>

FetchUpToDate ==
  /\ worker = "fetch"
  /\ worker' = "idle"
  /\ ForgetRecord
  /\ Answer(NoRecord)
  /\ UNCHANGED <<outsideWorker, version>>

\* Mutant: any version but the running one counts as newer.
MutFetchNewer ==
  /\ worker = "fetch"
  /\ worker' = "look" /\ version' \in Release \ {running}
  /\ UNCHANGED <<outsideWorker, disk, events>>

FetchNewer ==
  /\ worker = "fetch"
  /\ worker' = "look" /\ version' \in {v \in Release : v > running}
  /\ UNCHANGED <<outsideWorker, disk, events>>

\* What is staged is this release, or is ahead of the feed: keep it.
WorkerKeeps ==
  /\ worker = "look" /\ Valid(pending) /\ pending.version >= version
  /\ worker' = "idle" /\ version' = 0
  /\ Answer(pending)
  /\ UNCHANGED <<outsideWorker, disk>>

WorkerFindsNothing ==
  /\ worker = "look"
  /\ ~Valid(pending) \/ pending.version < version
  /\ worker' = (IF Valid(pending) THEN "supersede" ELSE "download")
  /\ DropInvalid
  /\ UNCHANGED <<outsideWorker, events, version>>

WorkerSupersedes ==
  /\ worker = "supersede"
  /\ worker' = "download"
  /\ clear_pending
  /\ UNCHANGED <<outsideWorker, events, version>>

WorkerDownloads ==
  /\ worker = "download"
  /\ worker' = "stream"
  /\ part' = [version |-> version, whole |-> FALSE]
  /\ UNCHANGED <<outsideWorker, pending, artifact, events, version>>

\* The stream is hashed as it comes: that the tray has removed the file
\* underneath it shows only in the rename.
DownloadEnds ==
  /\ worker = "stream"
  /\ worker' = "rename"
  /\ part' = (IF part = NoPart THEN NoPart ELSE [part EXCEPT !.whole = TRUE])
  /\ UNCHANGED <<outsideWorker, pending, artifact, events, version>>

\* Mutant: a digest that does not match goes on to the rename.
MutDownloadFails ==
  /\ worker = "stream"
  /\ worker' = "rename"
  /\ UNCHANGED <<outsideWorker, disk, events, version>>

DownloadFails ==
  /\ worker = "stream"
  /\ worker' = "idle" /\ version' = 0
  /\ \/ UNCHANGED part      \* the connection broke
     \/ part' = NoPart      \* the checksum does not match
  /\ UNCHANGED <<outsideWorker, pending, artifact, events>>

WorkerRenames ==
  /\ worker = "rename"
  /\ IF part = NoPart
     THEN worker' = "idle" /\ version' = 0 /\ UNCHANGED artifact
     ELSE /\ worker' = "record" /\ UNCHANGED version
          /\ artifact' = [artifact EXCEPT
                            ![version] = IF part.whole THEN "whole" ELSE "broken"]
  /\ part' = NoPart
  /\ UNCHANGED <<outsideWorker, pending, events>>

WorkerRecords ==
  /\ worker = "record"
  /\ worker' = "write"
  /\ pending' = Torn
  /\ UNCHANGED <<outsideWorker, artifact, part, events, version>>

WorkerStages ==
  /\ worker = "write"
  /\ worker' = "idle" /\ version' = 0
  /\ LET staged == [version |-> version, attempts |-> 0]
     IN /\ pending' = (IF pending = NoRecord THEN NoRecord ELSE staged)
        /\ Answer(staged)
  /\ UNCHANGED <<outsideWorker, artifact, part>>

Worker ==
  \/ WorkerWakes \/ WorkerDiscards
  \/ FetchFails \/ FetchUpToDate \/ FetchNewer
  \/ WorkerKeeps \/ WorkerFindsNothing \/ WorkerSupersedes
  \/ WorkerDownloads \/ DownloadEnds \/ DownloadFails
  \/ WorkerRenames \/ WorkerRecords \/ WorkerStages

-----------------------------------------------------------------------------
(* The tray, on the event loop's thread.  While it is in a click it reads  *)
(* no event, so update_pending is the argument of apply().                 *)

outsideTray == <<platform, running, events, workerVars>>

TakeEvent ==
  /\ running # 0 /\ tray = "idle" /\ events # <<>>
  /\ update_pending' = Head(events) /\ events' = Tail(events)
  /\ UNCHANGED <<platform, disk, installed, aside, running, tray, relaunch, workerVars,
                 script>>

\* apply_now() that returns FALSE: Quit leaves all the same.
AfterRefusal(r) == IF r THEN "reread" ELSE "exiting"

\* Mutant: nothing asks how many tries are left.
MutClicked(r) ==
  /\ running # 0 /\ tray = "idle"
  /\ relaunch' = r
  /\ tray' = "apply"
  /\ UNCHANGED <<outsideTray, disk, installed, aside, update_pending, script>>

\* The menu item or Quit, up to attempts_left().
Clicked(r) ==
  /\ running # 0 /\ tray = "idle"
  /\ relaunch' = r
  /\ IF update_pending.attempts >= MAX_INSTALL_ATTEMPTS
     THEN /\ clear_pending
          /\ tray' = AfterRefusal(r)
     ELSE /\ tray' = "apply"
          /\ UNCHANGED disk
  /\ UNCHANGED <<outsideTray, installed, aside, update_pending, script>>

RestartClicked == update_pending # NoRecord /\ Clicked(TRUE)
QuitWithUpdate == update_pending # NoRecord /\ Clicked(FALSE)
PlainQuit ==
  /\ running # 0 /\ tray = "idle" /\ update_pending = NoRecord
  /\ tray' = "exiting"
  /\ UNCHANGED <<outsideTray, disk, installed, aside, update_pending, relaunch, script>>

Watcher == [st |-> "waiting", version |-> 0, relaunch |-> TRUE, ok |-> TRUE]

\* An AppImage swaps itself; across file systems the artifact may stay.  If
\* arrange_relaunch() fails, or its watcher is late, the app stays up.
SwapInPlace ==
  /\ tray = "apply" /\ platform = "linux"
  /\ artifact[update_pending.version] # "absent"
  /\ installed' = Put(update_pending.version)
  /\ \/ artifact' = Unlinked(update_pending.version)
     \/ UNCHANGED artifact
  /\ \/ ~relaunch /\ tray' = "exiting" /\ UNCHANGED script
     \/ /\ relaunch /\ script.st \notin Busy
        /\ script' = Watcher
        /\ tray' \in {"exiting", "reread"}
     \/ relaunch /\ tray' = "reread" /\ UNCHANGED script
  /\ UNCHANGED <<outsideTray, aside, pending, part, update_pending, relaunch>>

SwapFails ==
  /\ tray = "apply" /\ platform = "linux"
  /\ tray' = "note"
  /\ UNCHANGED <<outsideTray, disk, installed, aside, update_pending, relaunch, script>>

\* UnsupportedInstall, and an installer that never said its first line.
ApplyFails ==
  /\ tray = "apply" /\ platform # "linux"
  /\ tray' = AfterRefusal(relaunch)
  /\ UNCHANGED <<outsideTray, disk, installed, aside, update_pending, relaunch, script>>

\* The greeting is read in time, or the installer is alive and late.
SpawnInstaller ==
  /\ tray = "apply" /\ platform \in {"windows", "macos"}
  /\ script.st \notin Busy
  /\ script' = [st |-> "waiting", version |-> update_pending.version,
                relaunch |-> relaunch, ok |-> FALSE]
  /\ tray' \in {"note", AfterRefusal(relaunch)}
  /\ UNCHANGED <<outsideTray, disk, installed, aside, update_pending, relaunch>>

NoteAttempt ==
  /\ tray = "note"
  /\ tray' = "noting"
  /\ pending' = Torn
  /\ UNCHANGED <<outsideTray, artifact, part, installed, aside, update_pending, relaunch,
                 script>>

\* The count is the tray's own plus one, not the file's.
AttemptNoted ==
  /\ tray = "noting"
  /\ pending' = (IF pending = NoRecord THEN NoRecord
                 ELSE [update_pending EXCEPT !.attempts = @ + 1])
  /\ tray' = (IF platform = "linux" THEN AfterRefusal(relaunch) ELSE "exiting")
  /\ UNCHANGED <<outsideTray, artifact, part, installed, aside, update_pending, relaunch,
                 script>>

Reread ==
  /\ tray = "reread"
  /\ tray' = "idle" /\ relaunch' = FALSE
  /\ pending_for_this_build(running)
  /\ UNCHANGED <<outsideTray, installed, aside, script>>

Tray ==
  \/ RestartClicked \/ QuitWithUpdate \/ PlainQuit \/ TakeEvent
  \/ SwapInPlace \/ SwapFails \/ ApplyFails \/ SpawnInstaller
  \/ NoteAttempt \/ AttemptNoted \/ Reread

-----------------------------------------------------------------------------
(* The installer scripts, and the watcher that restarts an AppImage. *)

outsideScript == <<platform, disk, running, trayVars, events, workerVars>>

To(st, ok) == script' = [script EXCEPT !.st = st, !.ok = ok]

\* The wait for the old process is bounded by a minute (five on Linux),
\* which no hand-off and no exit outlasts.
ScriptGivesUp ==
  /\ script.st = "waiting" /\ tray \in {"idle", "apply", "reread"}
  /\ script' = NoScript
  /\ UNCHANGED <<outsideScript, installed, aside>>

\* msiexec: a transaction.
MsiRuns ==
  /\ script.st = "ready" /\ platform = "windows"
  /\ \/ /\ artifact[script.version] # "absent"
        /\ installed' = Put(script.version)
        /\ To("relaunch", TRUE)
     \/ To("relaunch", FALSE) /\ UNCHANGED installed
  /\ UNCHANGED <<outsideScript, aside>>

\* The image is unpacked beside the bundle, the last Contents.old goes and
\* Contents takes its place; with no Contents there mv stops the script.
BundleAside ==
  /\ script.st = "ready" /\ platform = "macos"
  /\ \/ /\ artifact[script.version] # "absent"
        /\ installed' = 0 /\ aside' = installed
        /\ To(IF installed = 0 THEN "dead" ELSE "aside", FALSE)
     \/ To("relaunch", FALSE) /\ UNCHANGED <<installed, aside>>
  /\ UNCHANGED outsideScript

\* Mutant: a copy that falls short is not rolled back.
MutBundleReplaced ==
  /\ script.st = "aside"
  /\ \/ /\ artifact[script.version] # "absent"
        /\ installed' = Put(script.version)
        /\ To("relaunch", TRUE)
     \/ To("relaunch", FALSE) /\ UNCHANGED installed
  /\ aside' = 0
  /\ UNCHANGED outsideScript

BundleReplaced ==
  /\ script.st = "aside"
  /\ \/ /\ artifact[script.version] # "absent"
        /\ installed' = Put(script.version)
        /\ To("relaunch", TRUE)
     \/ installed' = aside /\ To("relaunch", FALSE)
  /\ aside' = 0
  /\ UNCHANGED outsideScript

WatcherDone ==
  /\ script.st = "ready" /\ platform = "linux"
  /\ To("relaunch", TRUE)
  /\ UNCHANGED <<outsideScript, installed, aside>>

ScriptRelaunches ==
  /\ script.st = "relaunch"
  /\ To(IF platform = "linux" THEN "none" ELSE "cleanup", script.ok)
  /\ IF script.relaunch /\ running = 0 /\ installed # 0
     THEN Launch /\ UNCHANGED <<platform, installed, aside>>
     ELSE UNCHANGED <<outsideScript, installed, aside>>

\* The staging directory goes after a success only.
ScriptCleans ==
  /\ script.st = "cleanup"
  /\ script' = NoScript
  /\ IF script.ok THEN clear_pending ELSE UNCHANGED disk
  /\ UNCHANGED <<platform, running, trayVars, events, workerVars, installed, aside>>

\* Killed with the session, or stopped by set -e in a command of the macOS
\* script that is not tested (mv, PlistBuddy).
InstallerDies ==
  /\ script.st \in Busy
  /\ To("dead", script.ok)
  /\ UNCHANGED <<outsideScript, installed, aside>>

Script ==
  \/ ScriptGivesUp \/ MsiRuns \/ BundleAside \/ BundleReplaced
  \/ WatcherDone \/ ScriptRelaunches \/ ScriptCleans \/ InstallerDies

-----------------------------------------------------------------------------
Next ==
  \/ Start \/ Exit \/ Crash
  \/ Worker \/ Tray \/ Script

Spec == Init /\ [][Next]_vars

\* The event loop and the OS run: a click is carried out, a process that
\* leaves is gone, and a script does its next step.
Fairness ==
  /\ WF_vars(SwapInPlace \/ SwapFails \/ ApplyFails \/ SpawnInstaller)
  /\ WF_vars(NoteAttempt \/ AttemptNoted) /\ WF_vars(Reread) /\ WF_vars(Exit)
  /\ WF_vars(MsiRuns \/ BundleAside \/ BundleReplaced \/ WatcherDone)
  /\ WF_vars(ScriptRelaunches) /\ WF_vars(ScriptCleans)

FairSpec == Spec /\ Fairness

-----------------------------------------------------------------------------
(* What is checked. *)

\* A file at its final path is whole: broken-off downloads, crashes and the
\* tray's removals leave nothing that is taken for a verified artifact.
VerifiedOnly == \A v \in Release : artifact[v] # "broken"

\* The tray never offers the running version or an older one, whatever the
\* feed, a second start or a result still in the queue says.
OffersAreNewer ==
  \A r \in {update_pending} \cup {events[i] : i \in 1..Len(events)} :
    r # NoRecord => r.version > running

\* staging.rs on read_pending: the alternative is "a 'Restart to update' item
\* that does nothing".  When everything has come to rest, what the tray
\* offers is on disk.
OfferIsReal ==
  (running # 0 /\ tray = "idle" /\ worker \in {"off", "idle"} /\ events = <<>>
     /\ script.st \notin Busy /\ update_pending # NoRecord)
  => Valid(update_pending)

\* "Restart to update" either leaves the app running or brings it back,
\* unless the script that was to do it dies.
RestartComesBack ==
  (tray = "exiting" /\ relaunch /\ installed # 0)
    ~> (running # 0 /\ tray = "idle") \/ script.st = "dead"

\* The refinement: staging is hidden behind the set of verified files, and
\* a request lives from the click to the swap.
Verified == {v \in Release : artifact[v] = "whole"}

Asked == {v \in Release :
            \/ tray = "apply" /\ update_pending.version = v
            \/ script.st \in {"waiting", "ready", "aside"} /\ script.version = v}

Present == IF installed = 0 THEN aside ELSE installed

Contract == INSTANCE UpdateContract WITH
  have <- Verified, asked <- Asked, present <- Present, torn <- installed = 0

\* The updater installs only what was verified, newer and asked for.
KeepsContract == Contract!Spec
=============================================================================
