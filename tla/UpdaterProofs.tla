---------------------------- MODULE UpdaterProofs ----------------------------
(***************************************************************************)
(* What the updater may never do, for any set of releases, any number of   *)
(* tries and any interleaving of worker, tray, installer and crash.        *)
(*                                                                         *)
(* The three invariants hold because of what the threads know of each      *)
(* other: a worker that has got as far as the rename has a whole part file *)
(* or none, nothing of the last process outlives it, and a script that     *)
(* has taken the bundle aside keeps what it took.  The same invariant      *)
(* carries the refinement: every step is a step of UpdateContract or       *)
(* leaves what the contract sees unchanged.                                *)
(***************************************************************************)
EXTENDS Updater, SequenceTheorems, TLAPS

Working == {"look", "supersede", "download", "stream", "rename", "record", "write"}

PartIsWhole == worker = "rename" => part = NoPart \/ part.whole

WorksOnNewer ==
  worker \in Working => version \in Release /\ version > running /\ running # 0

HasRoom == worker \notin {"off", "idle"} => Len(events) < MaxEvents

NothingRuns ==
  running = 0 =>
    worker = "off" /\ update_pending = NoRecord /\ events = <<>> /\ tray = "idle"

HandsOver ==
  tray \in {"apply", "note", "noting"} =>
    /\ update_pending \in Record
    /\ update_pending.attempts < MAX_INSTALL_ATTEMPTS

Installs ==
  /\ script.st \in Busy =>
       script.version \in (IF platform = "linux" THEN {0} ELSE Release)
  /\ script.st = "aside" => platform = "macos" /\ installed = 0 /\ aside # 0

Inv ==
  /\ TypeOK /\ VerifiedOnly /\ OffersAreNewer
  /\ PartIsWhole /\ WorksOnNewer /\ HasRoom /\ NothingRuns /\ HandsOver /\ Installs

LEMMA Numbers ==
  /\ Release \subseteq Nat \ {0} /\ Version \subseteq Nat \ {0}
  /\ Release \subseteq Version
  /\ MAX_INSTALL_ATTEMPTS \in Nat \ {0} /\ MaxEvents \in Nat \ {0}
BY UpdaterAssumption DEF Version

LEMMA NaturalVersions ==
  /\ \A v \in Version \cup {0} : v \in Nat
  /\ \A v \in Release : v \in Nat /\ v # 0
BY Numbers

LEMMA Records ==
  \A r \in Record : r.version \in Release /\ r.attempts \in 0..MAX_INSTALL_ATTEMPTS /\ r # NoRecord
BY Numbers DEF Record, NoRecord

Newer(r) == r # NoRecord => r.version > running

LEMMA Offers ==
  OffersAreNewer <=> Newer(update_pending) /\ \A i \in 1..Len(events) : Newer(events[i])
BY DEF OffersAreNewer, Newer

-----------------------------------------------------------------------------
(* The staging directory only loses what the helpers take from it. *)

Shrinks ==
  /\ pending' \in {pending, NoRecord}
  /\ artifact' \in [Release -> {"absent", "whole", "broken"}]
  /\ \A v \in Release : artifact'[v] \in {artifact[v], "absent"}
  /\ part' \in {part, NoPart}

LEMMA Clearing ==
  ASSUME TypeOK, clear_pending \/ UNCHANGED disk \/ ForgetRecord \/ DropInvalid
  PROVE  Shrinks
<1>1. clear_pending \/ UNCHANGED disk
  BY DEF ForgetRecord, DropInvalid
<1>2. CASE clear_pending
  BY <1>2 DEF clear_pending, Shrinks
<1>3. CASE UNCHANGED disk
  BY <1>3 DEF disk, Shrinks, TypeOK
<1>4. QED
  BY <1>1, <1>2, <1>3

LEMMA Offering ==
  ASSUME TypeOK, NEW c \in Version \cup {0}, pending_for_this_build(c)
  PROVE  /\ Shrinks
         /\ update_pending' \in Record \cup {NoRecord}
         /\ update_pending' # NoRecord => update_pending'.version > c
<1>1. CASE Valid(pending) /\ pending.version > c
  <2>1. pending \in Record
    BY <1>1, Numbers DEF TypeOK, Torn, NoRecord, Valid
  <2>2. QED
    BY <1>1, <2>1, Clearing DEF pending_for_this_build
<1>2. CASE ~(Valid(pending) /\ pending.version > c)
  BY <1>2, Clearing DEF pending_for_this_build
<1>3. QED
  BY <1>1, <1>2

\* What the parts of Inv about the directory need of a step that only
\* shrinks it and lets no worker reach the rename.
LEMMA Shrinking ==
  ASSUME Inv, Shrinks, worker' = "rename" => worker = "rename"
  PROVE  /\ pending' \in Record \cup {NoRecord, Torn}
         /\ artifact' \in [Release -> {"absent", "whole", "broken"}]
         /\ part' \in [version : Release, whole : BOOLEAN] \cup {NoPart}
         /\ VerifiedOnly' /\ PartIsWhole'
<1>1. VerifiedOnly'
  BY DEF Inv, Shrinks, VerifiedOnly
<1>2. PartIsWhole'
  BY DEF Inv, Shrinks, PartIsWhole
<1>3. QED
  BY <1>1, <1>2 DEF Inv, TypeOK, Shrinks

\* A result the worker appends.
LEMMA Answering ==
  ASSUME Inv, NEW e \in Record \cup {NoRecord}, Newer(e), Answer(e),
         Len(events) < MaxEvents, UNCHANGED <<running, update_pending>>
  PROVE  /\ events' \in Seq(Record \cup {NoRecord}) /\ Len(events') <= MaxEvents
         /\ OffersAreNewer'
<1>1. events \in Seq(Record \cup {NoRecord})
  BY DEF Inv, TypeOK
<1>2. events' = Append(events, e) /\ Len(events') = Len(events) + 1
  BY <1>1 DEF Answer
<1>3. \A i \in 1..Len(events) + 1 :
        events'[i] = IF i <= Len(events) THEN events[i] ELSE e
  BY <1>1, <1>2
<1>4. (\A i \in 1..Len(events) : Newer(events[i])) /\ Newer(update_pending)
  BY Offers DEF Inv
<1>5. \A i \in 1..Len(events') : Newer(events'[i])
  BY <1>1, <1>2, <1>3, <1>4
<1>6. \A r \in {update_pending'} \cup {events'[i] : i \in 1..Len(events')} :
        r # NoRecord => r.version > running'
  BY <1>4, <1>5 DEF Newer
<1>7. QED
  BY <1>1, <1>2, <1>6, Numbers DEF Inv, TypeOK, OffersAreNewer
-----------------------------------------------------------------------------
(* Inv is inductive. *)

LEMMA InitInv == Init => Inv
<1> SUFFICES ASSUME Init PROVE Inv
  OBVIOUS
<1>1. TypeOK
  <2>1. FirstVersion \in Version /\ MaxEvents \in Nat
    BY Numbers DEF Version
  <2>2. script \in [st : Busy \cup {"none", "dead"}, version : Release \cup {0},
                    relaunch : BOOLEAN, ok : BOOLEAN]
    BY DEF Init, NoScript
  <2>3. events \in Seq(Record \cup {NoRecord}) /\ Len(events) <= MaxEvents
    BY <2>1 DEF Init
  <2>4. artifact \in [Release -> {"absent", "whole", "broken"}]
    BY DEF Init
  <2>5. QED
    BY <2>1, <2>2, <2>3, <2>4 DEF Init, TypeOK
<1>2. OffersAreNewer
  BY Offers DEF Init, Newer
<1>3. VerifiedOnly /\ PartIsWhole /\ WorksOnNewer /\ HasRoom /\ NothingRuns /\ HandsOver
  BY DEF Init, VerifiedOnly, PartIsWhole, WorksOnNewer, HasRoom, NothingRuns, HandsOver, Working
<1>4. Installs
  BY DEF Init, Installs, NoScript, Busy
<1>5. QED
  BY <1>1, <1>2, <1>3, <1>4 DEF Inv

\* What a process that starts finds: nothing of the one before it.
LEMMA LaunchInv ==
  ASSUME Inv, Launch, installed # 0, running = 0,
         UNCHANGED <<platform, installed, aside>>,
         script' \in [st : Busy \cup {"none", "dead"}, version : Release \cup {0},
                      relaunch : BOOLEAN, ok : BOOLEAN],
         Installs'
  PROVE  Inv'
<1>1. installed \in Version \cup {0}
  BY DEF Inv, TypeOK
<1>2. Shrinks /\ update_pending' \in Record \cup {NoRecord}
      /\ (update_pending' # NoRecord => update_pending'.version > installed)
  BY <1>1, Offering, Clearing DEF Launch, Inv
<1>3. worker' \in {"idle", "off"} /\ events' = <<>> /\ tray' = "idle" /\ running' = installed
      /\ relaunch' = FALSE /\ version' = 0
  BY DEF Launch
<1>4. TypeOK'
  <2>1. /\ pending' \in Record \cup {NoRecord, Torn}
        /\ artifact' \in [Release -> {"absent", "whole", "broken"}]
        /\ part' \in [version : Release, whole : BOOLEAN] \cup {NoPart}
    BY <1>2, <1>3, Shrinking
  <2>2. events' \in Seq(Record \cup {NoRecord}) /\ Len(events') <= MaxEvents
    BY <1>3, Numbers
  <2>3. QED
    BY <1>1, <1>2, <1>3, <2>1, <2>2 DEF Inv, TypeOK
<1>5. OffersAreNewer'
  BY <1>2, <1>3 DEF OffersAreNewer
<1>6. WorksOnNewer' /\ HasRoom' /\ NothingRuns' /\ HandsOver'
  BY <1>3 DEF WorksOnNewer, HasRoom, NothingRuns, HandsOver, Working
<1>7. QED
  BY <1>2, <1>3, <1>4, <1>5, <1>6, Shrinking DEF Inv

LEMMA GoneInv == ASSUME Inv, Gone PROVE Inv'
<1>1. TypeOK'
  <2>1. script' \in [st : Busy \cup {"none", "dead"}, version : Release \cup {0},
                      relaunch : BOOLEAN, ok : BOOLEAN]
    BY DEF Inv, TypeOK, Gone, Busy
  <2>2. events' \in Seq(Record \cup {NoRecord}) /\ Len(events') <= MaxEvents
    BY Numbers DEF Gone
  <2>3. QED
    BY <2>1, <2>2 DEF Inv, TypeOK, Gone, disk
<1>2. OffersAreNewer'
  BY DEF Gone, OffersAreNewer
<1>3. Installs'
  BY DEF Inv, TypeOK, Gone, Installs, Busy
<1>4. QED
  BY <1>1, <1>2, <1>3
  DEF Inv, Gone, disk, VerifiedOnly, PartIsWhole, WorksOnNewer, HasRoom, NothingRuns, HandsOver,
      Working

\* A step of the worker, but for what it does to its own state and the disk.
LEMMA WorkerInv ==
  ASSUME Inv, UNCHANGED outsideWorker, worker # "off",
         worker' \in {"idle", "disabled", "fetch"} \cup Working,
         worker' \in Working => version' \in Release /\ version' > running,
         version' \in Release \cup {0},
         worker' # "idle" => Len(events') < MaxEvents,
         events' \in Seq(Record \cup {NoRecord}) /\ Len(events') <= MaxEvents,
         OffersAreNewer',
         pending' \in Record \cup {NoRecord, Torn},
         artifact' \in [Release -> {"absent", "whole", "broken"}],
         part' \in [version : Release, whole : BOOLEAN] \cup {NoPart},
         VerifiedOnly' /\ PartIsWhole'
  PROVE  Inv'
<1>1. running # 0
  BY DEF Inv, NothingRuns
<1>2. TypeOK'
  BY DEF Inv, TypeOK, outsideWorker, trayVars, Working
<1>3. Installs' /\ HandsOver'
  BY DEF Inv, outsideWorker, trayVars, Installs, HandsOver
<1>4. WorksOnNewer' /\ HasRoom' /\ NothingRuns'
  BY <1>1 DEF outsideWorker, WorksOnNewer, HasRoom, NothingRuns, Working
<1>5. QED
  BY <1>2, <1>3, <1>4 DEF Inv

LEMMA WorkerStep == ASSUME Inv, Worker PROVE Inv'
<1> USE DEF Working
<1>1. Newer(NoRecord)
  BY DEF Newer
<1>2. events \in Seq(Record \cup {NoRecord}) /\ Len(events) <= MaxEvents /\ Len(events) \in Nat
  BY DEF Inv, TypeOK
<1>3. UNCHANGED <<events, outsideWorker>> => OffersAreNewer'
  BY DEF Inv, OffersAreNewer, outsideWorker, trayVars
<1>4. worker \in {"disabled", "fetch"} \cup Working => Len(events) < MaxEvents
  BY DEF Inv, HasRoom
<1>5. CASE WorkerWakes
  <2>1. Shrinks
    BY <1>5, Clearing DEF WorkerWakes, Inv
  <2>2. QED
    BY <1>2, <1>3, <1>5, <2>1, Shrinking, WorkerInv DEF WorkerWakes, Inv, TypeOK
<1>6. CASE WorkerDiscards
  <2>1. Shrinks
    BY <1>6, Clearing DEF WorkerDiscards, Inv
  <2>2. /\ events' \in Seq(Record \cup {NoRecord}) /\ Len(events') <= MaxEvents
        /\ OffersAreNewer'
    BY <1>1, <1>2, <1>3, <1>4, <1>6, Answering DEF WorkerDiscards, outsideWorker, trayVars
  <2>3. QED
    BY <1>6, <2>1, <2>2, Shrinking, WorkerInv DEF WorkerDiscards, Inv, TypeOK
<1>7. CASE FetchFails
  <2>1. Shrinks
    BY <1>7, Clearing DEF FetchFails, Inv
  <2>2. QED
    BY <1>2, <1>3, <1>7, <2>1, Shrinking, WorkerInv DEF FetchFails, Inv, TypeOK
<1>8. CASE FetchUpToDate
  <2>1. Shrinks
    BY <1>8, Clearing DEF FetchUpToDate, Inv
  <2>2. /\ events' \in Seq(Record \cup {NoRecord}) /\ Len(events') <= MaxEvents
        /\ OffersAreNewer'
    BY <1>1, <1>4, <1>8, Answering DEF FetchUpToDate, outsideWorker, trayVars
  <2>3. QED
    BY <1>8, <2>1, <2>2, Shrinking, WorkerInv DEF FetchUpToDate, Inv, TypeOK
<1>9. CASE FetchNewer
  <2>1. Shrinks
    BY <1>9, Clearing DEF FetchNewer, Inv
  <2>2. version' \in Release /\ version' > running /\ worker' = "look" /\ worker = "fetch"
    BY <1>9 DEF FetchNewer
  <2>3. QED
    BY <1>2, <1>3, <1>4, <1>9, <2>1, <2>2, Shrinking, WorkerInv DEF FetchNewer
<1>10. CASE WorkerKeeps
  <2>1. Shrinks
    BY <1>10, Clearing DEF WorkerKeeps, Inv
  <2>2. version \in Release /\ version > running
    BY <1>10 DEF WorkerKeeps, Inv, WorksOnNewer
  <2>3. pending \in Record /\ pending.version > running
    <3>1. pending \in Record
      BY <1>10, Numbers DEF WorkerKeeps, Inv, TypeOK, Torn, NoRecord, Valid
    <3>2. running \in Nat /\ pending.version \in Nat /\ version \in Nat
      <4>1. running \in Version \cup {0} /\ pending.version \in Release
        BY <3>1, Records DEF Inv, TypeOK
      <4>2. QED
        BY <2>2, <4>1, NaturalVersions
    <3>3. QED
      BY <1>10, <2>2, <3>1, <3>2 DEF WorkerKeeps
  <2>4. /\ events' \in Seq(Record \cup {NoRecord}) /\ Len(events') <= MaxEvents
        /\ OffersAreNewer'
    BY <1>4, <1>10, <2>3, Answering DEF WorkerKeeps, outsideWorker, trayVars, Newer
  <2>5. QED
    BY <1>10, <2>1, <2>4, Shrinking, WorkerInv DEF WorkerKeeps
<1>11. CASE WorkerFindsNothing
  <2>1. Shrinks
    BY <1>11, Clearing DEF WorkerFindsNothing, Inv
  <2>2. version \in Release /\ version > running /\ UNCHANGED <<events, version>>
    BY <1>11 DEF WorkerFindsNothing, Inv, WorksOnNewer
  <2>3. worker = "look" /\ worker' \in {"supersede", "download"}
    BY <1>11 DEF WorkerFindsNothing
  <2>4. QED
    BY <1>2, <1>3, <1>4, <1>11, <2>1, <2>2, <2>3, Shrinking, WorkerInv DEF WorkerFindsNothing
<1>12. CASE WorkerSupersedes
  <2>1. Shrinks
    BY <1>12, Clearing DEF WorkerSupersedes, Inv
  <2>2. version \in Release /\ version > running /\ UNCHANGED <<events, version>>
    BY <1>12 DEF WorkerSupersedes, Inv, WorksOnNewer
  <2>3. QED
    BY <1>2, <1>3, <1>4, <1>12, <2>1, <2>2, Shrinking, WorkerInv DEF WorkerSupersedes
<1>13. CASE WorkerDownloads
  <2>1. version \in Release /\ version > running /\ UNCHANGED <<events, version>>
    BY <1>13 DEF WorkerDownloads, Inv, WorksOnNewer
  <2>2. part' \in [version : Release, whole : BOOLEAN] \cup {NoPart}
    BY <1>13, <2>1 DEF WorkerDownloads
  <2>3. VerifiedOnly' /\ PartIsWhole'
    BY <1>13 DEF WorkerDownloads, Inv, VerifiedOnly, PartIsWhole
  <2>4. QED
    BY <1>2, <1>3, <1>4, <1>13, <2>1, <2>2, <2>3, WorkerInv DEF WorkerDownloads, Inv, TypeOK
<1>14. CASE DownloadEnds
  <2>1. version \in Release /\ version > running /\ UNCHANGED <<events, version>>
    BY <1>14 DEF DownloadEnds, Inv, WorksOnNewer
  <2>2. /\ part' \in [version : Release, whole : BOOLEAN] \cup {NoPart}
        /\ part' = NoPart \/ part'.whole
    BY <1>14 DEF DownloadEnds, Inv, TypeOK
  <2>3. VerifiedOnly' /\ PartIsWhole'
    BY <1>14, <2>2 DEF DownloadEnds, Inv, VerifiedOnly, PartIsWhole
  <2>4. QED
    BY <1>2, <1>3, <1>4, <1>14, <2>1, <2>2, <2>3, WorkerInv DEF DownloadEnds, Inv, TypeOK
<1>15. CASE DownloadFails
  <2>1. Shrinks
    BY <1>15 DEF DownloadFails, Shrinks, Inv, TypeOK
  <2>2. QED
    BY <1>2, <1>3, <1>15, <2>1, Shrinking, WorkerInv DEF DownloadFails
<1>16. CASE WorkerRenames
  <2>1. version \in Release /\ version > running /\ UNCHANGED events
    BY <1>16 DEF WorkerRenames, Inv, WorksOnNewer
  <2>2. /\ artifact' \in [Release -> {"absent", "whole", "broken"}]
        /\ VerifiedOnly' /\ PartIsWhole'
    BY <1>16, <2>1 DEF WorkerRenames, Inv, TypeOK, VerifiedOnly, PartIsWhole
  <2>3. worker' \in {"idle", "record"} /\ version' \in {version, 0}
        /\ (worker' = "record" => version' = version)
    BY <1>16 DEF WorkerRenames
  <2>4. QED
    BY <1>2, <1>3, <1>4, <1>16, <2>1, <2>2, <2>3, WorkerInv DEF WorkerRenames, Inv, TypeOK
<1>17. CASE WorkerRecords
  <2>1. version \in Release /\ version > running /\ UNCHANGED <<events, version>>
    BY <1>17 DEF WorkerRecords, Inv, WorksOnNewer
  <2>2. VerifiedOnly' /\ PartIsWhole'
    BY <1>17 DEF WorkerRecords, Inv, VerifiedOnly, PartIsWhole
  <2>3. QED
    BY <1>2, <1>3, <1>4, <1>17, <2>1, <2>2, WorkerInv DEF WorkerRecords, Inv, TypeOK
<1>18. CASE WorkerStages
  <2>1. version \in Release /\ version > running
    BY <1>18 DEF WorkerStages, Inv, WorksOnNewer
  <2> DEFINE staged == [version |-> version, attempts |-> 0]
  <2>2. staged \in Record /\ Newer(staged)
    BY <2>1, Numbers DEF Record, Newer
  <2>3. /\ events' \in Seq(Record \cup {NoRecord}) /\ Len(events') <= MaxEvents
        /\ OffersAreNewer'
    BY <1>4, <1>18, <2>2, Answering DEF WorkerStages, outsideWorker, trayVars
  <2>4. VerifiedOnly' /\ PartIsWhole'
    BY <1>18 DEF WorkerStages, Inv, VerifiedOnly, PartIsWhole
  <2>5. pending' \in Record \cup {NoRecord, Torn}
    BY <1>18, <2>2 DEF WorkerStages
  <2>6. QED
    BY <1>18, <2>3, <2>4, <2>5, WorkerInv DEF WorkerStages, Inv, TypeOK
<1>19. QED
  BY <1>5, <1>6, <1>7, <1>8, <1>9, <1>10, <1>11, <1>12, <1>13, <1>14, <1>15, <1>16, <1>17, <1>18
  DEF Worker

\* A step of the tray that reads no event.
LEMMA TrayInv ==
  ASSUME Inv, UNCHANGED outsideTray, running # 0,
         tray' \in {"idle", "apply", "note", "noting", "reread", "exiting"},
         relaunch' \in BOOLEAN,
         update_pending' \in Record \cup {NoRecord}, Newer(update_pending'),
         HandsOver',
         pending' \in Record \cup {NoRecord, Torn},
         artifact' \in [Release -> {"absent", "whole", "broken"}],
         part' \in [version : Release, whole : BOOLEAN] \cup {NoPart},
         VerifiedOnly' /\ PartIsWhole',
         installed' \in Version \cup {0}, aside' = aside,
         script' \in [st : Busy \cup {"none", "dead"}, version : Release \cup {0},
                      relaunch : BOOLEAN, ok : BOOLEAN],
         Installs'
  PROVE  Inv'
<1>1. TypeOK'
  BY DEF Inv, TypeOK, outsideTray, workerVars
<1>2. OffersAreNewer'
  BY DEF Inv, outsideTray, workerVars, OffersAreNewer, Newer
<1>3. WorksOnNewer' /\ HasRoom' /\ NothingRuns'
  BY DEF Inv, outsideTray, workerVars, WorksOnNewer, HasRoom, NothingRuns
<1>4. QED
  BY <1>1, <1>2, <1>3 DEF Inv

LEMMA ClickedInv == ASSUME Inv, NEW r \in BOOLEAN, update_pending # NoRecord, Clicked(r) PROVE Inv'
<1>1. update_pending \in Record /\ Newer(update_pending)
  BY Offers DEF Inv, TypeOK
<1>2. update_pending.attempts \in Nat /\ MAX_INSTALL_ATTEMPTS \in Nat
  BY <1>1, Records, Numbers
<1>3. Shrinks
  BY Clearing DEF Clicked, Inv
<1>4. /\ tray' \in {"apply", "reread", "exiting"} /\ running # 0 /\ relaunch' = r
      /\ UNCHANGED <<outsideTray, installed, aside, update_pending, script>>
      /\ tray' = "apply" => update_pending.attempts < MAX_INSTALL_ATTEMPTS
  BY <1>2 DEF Clicked, AfterRefusal
<1>5. HandsOver'
  BY <1>1, <1>4 DEF HandsOver
<1>6. Installs'
  BY <1>4 DEF Installs, Inv, outsideTray
<1>7. worker' = worker
  BY <1>4 DEF outsideTray, workerVars
<1>8. QED
  BY <1>1, <1>3, <1>4, <1>5, <1>6, <1>7, Shrinking, TrayInv DEF Inv, TypeOK

LEMMA HandingOver ==
  ASSUME Inv, tray \in {"apply", "note", "noting"}
  PROVE  /\ update_pending \in Record /\ Newer(update_pending) /\ running # 0
         /\ update_pending.version \in Release /\ update_pending.version > running
         /\ update_pending.attempts \in 0..MAX_INSTALL_ATTEMPTS - 1
BY Offers, Records, Numbers DEF Inv, HandsOver, NothingRuns, Newer

\* What is at a final path is whole, so that what an installer puts there starts.
LEMMA Putting ==
  ASSUME Inv, NEW v \in Release, artifact[v] # "absent"
  PROVE  artifact[v] = "whole" /\ Put(v) = v /\ v # 0
BY Numbers DEF Inv, TypeOK, VerifiedOnly, Put

LEMMA TrayStep == ASSUME Inv, Tray PROVE Inv'
<1>1. CASE RestartClicked
  BY <1>1, ClickedInv DEF RestartClicked
<1>2. CASE QuitWithUpdate
  BY <1>2, ClickedInv DEF QuitWithUpdate
<1>3. CASE PlainQuit
  <2>1. Newer(update_pending)
    BY Offers DEF Inv
  <2>2. Shrinks /\ worker' = worker
    BY <1>3, Clearing DEF PlainQuit, Inv, outsideTray, workerVars
  <2>3. Installs' /\ HandsOver'
    BY <1>3 DEF PlainQuit, Inv, Installs, HandsOver, outsideTray
  <2>4. QED
    BY <1>3, <2>1, <2>2, <2>3, Shrinking, TrayInv DEF PlainQuit, Inv, TypeOK
<1>4. CASE TakeEvent
  <2>1. events \in Seq(Record \cup {NoRecord}) /\ events # <<>>
        /\ Newer(update_pending) /\ \A i \in 1..Len(events) : Newer(events[i])
    BY <1>4, Offers DEF TakeEvent, Inv, TypeOK
  <2>2. Head(events) = events[1] /\ 1 \in 1..Len(events)
        /\ Len(Tail(events)) = Len(events) - 1
        /\ Tail(events) \in Seq(Record \cup {NoRecord})
        /\ events[1] \in Record \cup {NoRecord}
        /\ \A i \in 1..Len(Tail(events)) : i + 1 \in 1..Len(events) /\ Tail(events)[i] = events[i + 1]
    BY <2>1
  <2>3. Newer(Head(events)) /\ \A i \in 1..Len(Tail(events)) : Newer(Tail(events)[i])
    BY <2>1, <2>2
  <2>4. OffersAreNewer'
    BY <1>4, <2>3 DEF TakeEvent, OffersAreNewer, Newer
  <2>5. TypeOK'
    BY <1>4, <2>1, <2>2, Numbers DEF TakeEvent, Inv, TypeOK, disk, workerVars
  <2>6. HasRoom'
    BY <1>4, <2>1, <2>2, Numbers DEF TakeEvent, Inv, HasRoom, workerVars
  <2>7. VerifiedOnly' /\ PartIsWhole' /\ WorksOnNewer'
    BY <1>4 DEF TakeEvent, Inv, VerifiedOnly, PartIsWhole, WorksOnNewer, disk, workerVars
  <2>8. NothingRuns' /\ HandsOver' /\ Installs'
    BY <1>4 DEF TakeEvent, Inv, NothingRuns, HandsOver, Installs
  <2>9. QED
    BY <2>4, <2>5, <2>6, <2>7, <2>8 DEF Inv
<1>5. CASE SwapInPlace
  <2> DEFINE v == update_pending.version
  <2>1. v \in Release /\ update_pending \in Record /\ Newer(update_pending) /\ running # 0
    BY <1>5, HandingOver DEF SwapInPlace
  <2>2. installed' \in Version
    BY <1>5, <2>1, Putting, Numbers DEF SwapInPlace
  <2>3. Shrinks
    BY <1>5, <2>1 DEF SwapInPlace, Shrinks, Inv, TypeOK, Unlinked
  <2>4. /\ tray' \in {"exiting", "reread"} /\ UNCHANGED <<outsideTray, aside, update_pending, relaunch>>
        /\ (script' = script /\ script.st # "aside") \/ script' = Watcher
    BY <1>5 DEF SwapInPlace, Inv, Installs
  <2>5. Watcher = [st |-> "waiting", version |-> 0, relaunch |-> TRUE, ok |-> TRUE]
    BY DEF Watcher
  <2>6. script' \in [st : Busy \cup {"none", "dead"}, version : Release \cup {0},
                      relaunch : BOOLEAN, ok : BOOLEAN]
    <3>1. Watcher \in [st : Busy \cup {"none", "dead"}, version : Release \cup {0},
                       relaunch : BOOLEAN, ok : BOOLEAN]
      BY <2>5 DEF Busy
    <3>2. QED
      BY <2>4, <3>1 DEF Inv, TypeOK
  <2>7. Installs' /\ HandsOver'
    BY <1>5, <2>4, <2>5 DEF SwapInPlace, Inv, Installs, HandsOver, outsideTray
  <2>8. worker' = worker
    BY <2>4 DEF outsideTray, workerVars
  <2>9. QED
    BY <2>1, <2>2, <2>3, <2>4, <2>6, <2>7, <2>8, Shrinking, TrayInv DEF Inv, TypeOK
<1>6. CASE SwapFails \/ ApplyFails
  <2>1. update_pending \in Record /\ Newer(update_pending) /\ running # 0
    BY <1>6, HandingOver DEF SwapFails, ApplyFails
  <2>2. Shrinks
    BY <1>6, Clearing DEF SwapFails, ApplyFails, Inv
  <2>3. /\ tray' \in {"note", "reread", "exiting"}
        /\ UNCHANGED <<outsideTray, installed, aside, update_pending, relaunch, script>>
        /\ worker' = worker
    BY <1>6 DEF SwapFails, ApplyFails, AfterRefusal, outsideTray, workerVars
  <2>4. Installs' /\ HandsOver'
    BY <1>6, <2>3 DEF SwapFails, ApplyFails, Inv, Installs, HandsOver, outsideTray
  <2>5. QED
    BY <2>1, <2>2, <2>3, <2>4, Shrinking, TrayInv DEF Inv, TypeOK
<1>7. CASE SpawnInstaller
  <2>1. update_pending \in Record /\ Newer(update_pending) /\ running # 0
        /\ update_pending.version \in Release
    BY <1>7, HandingOver DEF SpawnInstaller
  <2>2. Shrinks
    BY <1>7, Clearing DEF SpawnInstaller, Inv
  <2>3. /\ tray' \in {"note", "reread", "exiting"}
        /\ UNCHANGED <<outsideTray, installed, aside, update_pending, relaunch>>
        /\ worker' = worker
    BY <1>7 DEF SpawnInstaller, AfterRefusal, outsideTray, workerVars
  <2>4. script' \in [st : Busy \cup {"none", "dead"}, version : Release \cup {0},
                      relaunch : BOOLEAN, ok : BOOLEAN]
    BY <1>7, <2>1 DEF SpawnInstaller, Inv, TypeOK, Busy
  <2>5. Installs'
    BY <1>7, <2>1, <2>3 DEF SpawnInstaller, Installs, outsideTray
  <2>6. HandsOver'
    BY <1>7, <2>3 DEF SpawnInstaller, Inv, HandsOver
  <2>7. QED
    BY <2>1, <2>2, <2>3, <2>4, <2>5, <2>6, Shrinking, TrayInv DEF Inv, TypeOK
<1>8. CASE NoteAttempt \/ AttemptNoted
  <2>1. /\ update_pending \in Record /\ Newer(update_pending) /\ running # 0
        /\ update_pending.attempts \in 0..MAX_INSTALL_ATTEMPTS - 1
    BY <1>8, HandingOver DEF NoteAttempt, AttemptNoted
  <2>2. [update_pending EXCEPT !.attempts = @ + 1] \in Record
    BY <2>1, Numbers DEF Record
  <2>3. pending' \in Record \cup {NoRecord, Torn}
    BY <1>8, <2>2 DEF NoteAttempt, AttemptNoted
  <2>4. /\ tray' \in {"noting", "reread", "exiting"}
        /\ UNCHANGED <<outsideTray, artifact, part, installed, aside, update_pending, relaunch,
                       script>>
        /\ worker' = worker
    BY <1>8 DEF NoteAttempt, AttemptNoted, AfterRefusal, outsideTray, workerVars
  <2>5. Installs' /\ HandsOver'
    BY <1>8, <2>4 DEF NoteAttempt, AttemptNoted, Inv, Installs, HandsOver, outsideTray
  <2>6. VerifiedOnly' /\ PartIsWhole'
    BY <2>4 DEF Inv, VerifiedOnly, PartIsWhole
  <2>7. QED
    BY <2>1, <2>3, <2>4, <2>5, <2>6, TrayInv DEF Inv, TypeOK
<1>9. CASE Reread
  <2>1. running \in Version \cup {0} /\ running # 0
    BY <1>9 DEF Reread, Inv, TypeOK, NothingRuns
  <2>2. /\ Shrinks
        /\ update_pending' \in Record \cup {NoRecord}
        /\ update_pending' # NoRecord => update_pending'.version > running
    BY <1>9, <2>1, Offering DEF Reread, Inv
  <2>3. Newer(update_pending')
    BY <2>2 DEF Newer
  <2>4. Installs' /\ HandsOver' /\ worker' = worker
    BY <1>9 DEF Reread, Inv, Installs, HandsOver, outsideTray, workerVars
  <2>5. QED
    BY <1>9, <2>1, <2>2, <2>3, <2>4, Shrinking, TrayInv DEF Reread, Inv, TypeOK
<1>10. QED
  BY <1>1, <1>2, <1>3, <1>4, <1>5, <1>6, <1>7, <1>8, <1>9 DEF Tray

\* A step of the script that starts no process.
LEMMA ScriptInv ==
  ASSUME Inv, Shrinks,
         UNCHANGED <<platform, running, trayVars, events, workerVars>>,
         installed' \in Version \cup {0}, aside' \in Version \cup {0},
         script' \in [st : Busy \cup {"none", "dead"}, version : Release \cup {0},
                      relaunch : BOOLEAN, ok : BOOLEAN],
         Installs'
  PROVE  Inv'
<1>1. worker' = worker
  BY DEF workerVars
<1>2. TypeOK'
  BY <1>1, Shrinking DEF Inv, TypeOK, trayVars, workerVars
<1>3. OffersAreNewer' /\ WorksOnNewer' /\ HasRoom' /\ NothingRuns' /\ HandsOver'
  BY DEF Inv, trayVars, workerVars, OffersAreNewer, WorksOnNewer, HasRoom, NothingRuns, HandsOver
<1>4. QED
  BY <1>1, <1>2, <1>3, Shrinking DEF Inv

LEMMA ScriptStep == ASSUME Inv, Script PROVE Inv'
<1> DEFINE Scripts == [st : Busy \cup {"none", "dead"}, version : Release \cup {0},
                       relaunch : BOOLEAN, ok : BOOLEAN]
<1>1. /\ script \in Scripts /\ installed \in Version \cup {0} /\ aside \in Version \cup {0}
      /\ platform \in {"linux", "windows", "macos", "unowned"}
  BY DEF Inv, TypeOK
<1>2. UNCHANGED disk => Shrinks
  BY Clearing DEF Inv
<1>3. \A st \in Busy \cup {"none", "dead"}, ok \in BOOLEAN : To(st, ok) =>
        script' \in Scripts /\ script'.st = st /\ script'.version = script.version
  BY <1>1 DEF To
<1>4. NoScript \in Scripts /\ NoScript.st = "none"
  BY DEF NoScript, Busy
<1>5. ASSUME script.st \in Busy, platform # "linux" PROVE script.version \in Release
  BY <1>5 DEF Inv, Installs
<1>6. CASE ScriptGivesUp
  <2>1. Installs'
    BY <1>4, <1>6 DEF ScriptGivesUp, Installs, Busy
  <2>2. QED
    BY <1>1, <1>2, <1>4, <1>6, <2>1, ScriptInv DEF ScriptGivesUp, outsideScript
<1>7. CASE MsiRuns
  <2>1. script.version \in Release /\ script.st = "ready"
    BY <1>5, <1>7 DEF MsiRuns, Busy
  <2>2. installed' \in Version \cup {0}
    BY <1>1, <1>7, <2>1, Putting, Numbers DEF MsiRuns
  <2>3. script' \in Scripts /\ script'.st = "relaunch" /\ script'.version = script.version
    BY <1>3, <1>7 DEF MsiRuns, Busy
  <2>4. Installs'
    BY <1>7, <2>1, <2>3 DEF MsiRuns, Installs, outsideScript
  <2>5. QED
    BY <1>1, <1>2, <1>7, <2>2, <2>3, <2>4, ScriptInv DEF MsiRuns, outsideScript
<1>8. CASE BundleAside
  <2>1. script.version \in Release /\ script.st = "ready"
    BY <1>5, <1>8 DEF BundleAside, Busy
  <2>2. /\ script' \in Scripts /\ script'.version = script.version
        /\ script'.st \in {"dead", "aside", "relaunch"}
    BY <1>3, <1>8 DEF BundleAside, Busy
  <2>3. script'.st = "aside" => installed # 0 /\ installed' = 0 /\ aside' = installed
    <3>1. CASE To("relaunch", FALSE)
      BY <1>3, <3>1 DEF Busy
    <3>2. CASE /\ installed' = 0 /\ aside' = installed
               /\ To(IF installed = 0 THEN "dead" ELSE "aside", FALSE)
      <4>1. installed = 0 => script'.st = "dead"
        BY <1>3, <3>2 DEF Busy
      <4>2. QED
        BY <3>2, <4>1
    <3>3. QED
      BY <1>8, <3>1, <3>2 DEF BundleAside
  <2>4. Installs'
    BY <1>8, <2>1, <2>2, <2>3 DEF BundleAside, Installs, outsideScript
  <2>5. installed' \in Version \cup {0} /\ aside' \in Version \cup {0}
    BY <1>1, <1>8 DEF BundleAside
  <2>6. QED
    BY <1>1, <1>2, <1>8, <2>2, <2>4, <2>5, ScriptInv DEF BundleAside, outsideScript
<1>9. CASE BundleReplaced
  <2>1. script.version \in Release /\ script.st = "aside" /\ platform = "macos" /\ aside # 0
    BY <1>5, <1>9 DEF BundleReplaced, Busy, Inv, Installs
  <2>2. installed' \in Version \cup {0} /\ aside' = 0
    <3>1. artifact[script.version] # "absent" => Put(script.version) \in Version
      BY <2>1, Putting, Numbers
    <3>2. QED
      BY <1>1, <1>9, <3>1 DEF BundleReplaced
  <2>3. script' \in Scripts /\ script'.st = "relaunch" /\ script'.version = script.version
    BY <1>3, <1>9 DEF BundleReplaced, Busy
  <2>4. Installs'
    BY <1>9, <2>1, <2>3 DEF BundleReplaced, Installs, outsideScript
  <2>5. QED
    BY <1>1, <1>2, <1>9, <2>2, <2>3, <2>4, ScriptInv DEF BundleReplaced, outsideScript
<1>10. CASE WatcherDone
  <2>1. script' \in Scripts /\ script'.st = "relaunch" /\ script'.version = script.version
    BY <1>3, <1>10 DEF WatcherDone, Busy
  <2>2. Installs'
    BY <1>10, <2>1 DEF WatcherDone, Installs, outsideScript, Inv, Busy
  <2>3. QED
    BY <1>1, <1>2, <1>10, <2>1, <2>2, ScriptInv DEF WatcherDone, outsideScript
<1>11. CASE ScriptRelaunches
  <2>1. /\ script' \in Scripts /\ script'.version = script.version
        /\ script'.st = (IF platform = "linux" THEN "none" ELSE "cleanup")
    BY <1>1, <1>3, <1>11 DEF ScriptRelaunches, Busy
  <2>2. platform' = platform
    BY <1>11 DEF ScriptRelaunches, outsideScript
  <2>3. Installs'
    BY <1>5, <1>11, <2>1, <2>2 DEF ScriptRelaunches, Installs, Busy
  <2>4. CASE script.relaunch /\ running = 0 /\ installed # 0
    BY <1>11, <2>1, <2>3, <2>4, LaunchInv DEF ScriptRelaunches
  <2>5. CASE ~(script.relaunch /\ running = 0 /\ installed # 0)
    BY <1>1, <1>2, <1>11, <2>1, <2>3, <2>5, ScriptInv DEF ScriptRelaunches, outsideScript
  <2>6. QED
    BY <2>4, <2>5
<1>12. CASE ScriptCleans
  <2>1. Shrinks
    BY <1>12, Clearing DEF ScriptCleans, Inv
  <2>2. Installs'
    BY <1>4, <1>12 DEF ScriptCleans, Installs, Busy
  <2>3. QED
    BY <1>1, <1>4, <1>12, <2>1, <2>2, ScriptInv DEF ScriptCleans
<1>13. CASE InstallerDies
  <2>1. script' \in Scripts /\ script'.st = "dead"
    BY <1>1, <1>3, <1>13 DEF InstallerDies
  <2>2. Installs'
    BY <2>1 DEF Installs, Busy
  <2>3. QED
    BY <1>1, <1>2, <1>13, <2>1, <2>2, ScriptInv DEF InstallerDies, outsideScript
<1>14. QED
  BY <1>6, <1>7, <1>8, <1>9, <1>10, <1>11, <1>12, <1>13 DEF Script

LEMMA InvStep == Inv /\ [Next]_vars => Inv'
<1> SUFFICES ASSUME Inv, [Next]_vars PROVE Inv'
  OBVIOUS
<1>1. CASE Start
  <2>1. script' \in [st : Busy \cup {"none", "dead"}, version : Release \cup {0},
                      relaunch : BOOLEAN, ok : BOOLEAN]
    BY <1>1 DEF Start, Inv, TypeOK
  <2>2. Installs'
    BY <1>1 DEF Start, Inv, Installs
  <2>3. QED
    BY <1>1, <2>1, <2>2, LaunchInv DEF Start
<1>2. CASE Exit \/ Crash
  BY <1>2, GoneInv DEF Exit, Crash
<1>3. CASE UNCHANGED vars
  BY <1>3 DEF vars, disk, trayVars, workerVars, Inv, TypeOK, VerifiedOnly, OffersAreNewer,
              PartIsWhole, WorksOnNewer, HasRoom, NothingRuns, HandsOver, Installs
<1>4. QED
  BY <1>1, <1>2, <1>3, WorkerStep, TrayStep, ScriptStep DEF Next

THEOREM InvHolds == Spec => []Inv
BY InitInv, InvStep, PTL DEF Spec

\* Every variable keeps its type.
THEOREM UpdaterTypes == Spec => []TypeOK
<1>1. Inv => TypeOK
  BY DEF Inv
<1>2. QED
  BY <1>1, InvHolds, PTL

\* No worker, tray or crash leaves a broken file where a verified one belongs.
THEOREM OnlyVerified == Spec => []VerifiedOnly
<1>1. Inv => VerifiedOnly
  BY DEF Inv
<1>2. QED
  BY <1>1, InvHolds, PTL

\* What the tray offers, now or once it has read its events, is newer.
THEOREM OffersNewer == Spec => []OffersAreNewer
<1>1. Inv => OffersAreNewer
  BY DEF Inv
<1>2. QED
  BY <1>1, InvHolds, PTL

-----------------------------------------------------------------------------
(* The refinement, step by step. *)

LEMMA ContractInit == Init => Contract!Init
BY Numbers DEF Init, Contract!Init, Verified, Asked, Present, NoScript, Version

\* A staging directory that shrinks holds no new file.
LEMMA FewerFiles == ASSUME Shrinks PROVE Verified' \subseteq Verified
BY DEF Shrinks, Verified

LEMMA WorkerKeepsContract ==
  ASSUME Inv, Worker
  PROVE  [Contract!Next]_(Contract!vars)
<1>1. UNCHANGED <<Asked, Present, installed, running>>
  <2>1. UNCHANGED outsideWorker
    BY DEF Worker, WorkerWakes, WorkerDiscards, FetchFails, FetchUpToDate, FetchNewer,
           WorkerKeeps, WorkerFindsNothing, WorkerSupersedes, WorkerDownloads, DownloadEnds,
           DownloadFails, WorkerRenames, WorkerRecords, WorkerStages
  <2>2. QED
    BY <2>1 DEF outsideWorker, trayVars, Asked, Present
<1>2. CASE WorkerRenames /\ part # NoPart
  <2>1. version \in Release /\ version > running /\ running # 0 /\ part.whole
    BY <1>2 DEF WorkerRenames, Inv, PartIsWhole, WorksOnNewer, Working
  <2>2. Verified' = Verified \cup {version}
    BY <1>2, <2>1 DEF WorkerRenames, Verified, Inv, TypeOK
  <2>3. Contract!Fetch(version)
    BY <1>1, <2>1, <2>2 DEF Contract!Fetch
  <2>4. QED
    BY <2>1, <2>3 DEF Contract!Next
<1>3. CASE ~(WorkerRenames /\ part # NoPart)
  <2>1. Verified' \subseteq Verified
    <3>1. artifact' = artifact => Verified' \subseteq Verified
      BY DEF Verified
    <3>2. CASE WorkerDiscards \/ FetchUpToDate \/ WorkerFindsNothing \/ WorkerSupersedes
      BY <3>2, Clearing, FewerFiles
      DEF WorkerDiscards, FetchUpToDate, WorkerFindsNothing, WorkerSupersedes, Inv
    <3>3. QED
      BY <1>3, <3>1, <3>2
      DEF Worker, WorkerWakes, FetchFails, FetchNewer, WorkerKeeps, WorkerDownloads,
          DownloadEnds, DownloadFails, WorkerRenames, WorkerRecords, WorkerStages, disk
  <2>2. Contract!Drop
    BY <1>1, <2>1 DEF Contract!Drop
  <2>3. QED
    BY <2>2 DEF Contract!Next
<1>4. QED
  BY <1>2, <1>3

LEMMA ClickKeepsContract ==
  ASSUME Inv, NEW r \in BOOLEAN, update_pending # NoRecord, Clicked(r)
  PROVE  Contract!Next
<1> DEFINE v == update_pending.version
<1>1. v \in Release /\ v > running /\ running # 0
  BY Offers, Records DEF Inv, TypeOK, Newer, Clicked
<1>2. UNCHANGED <<Present, installed, running, update_pending, script>>
  BY DEF Clicked, outsideTray, Present
<1>3. CASE tray' = "apply"
  <2>1. Asked' = Asked \cup {v}
    BY <1>1, <1>2, <1>3 DEF Asked, Clicked
  <2>2. Verified' = Verified
    BY <1>3 DEF Clicked, AfterRefusal, disk, Verified
  <2>3. Contract!Ask(v)
    BY <1>1, <1>2, <2>1, <2>2 DEF Contract!Ask
  <2>4. QED
    BY <1>1, <2>3 DEF Contract!Next
<1>4. CASE tray' # "apply"
  <2>1. Asked' = Asked
    BY <1>2, <1>4 DEF Asked, Clicked
  <2>2. Verified' \subseteq Verified
    BY Clearing, FewerFiles DEF Clicked, Inv
  <2>3. Contract!Drop
    BY <1>2, <2>1, <2>2 DEF Contract!Drop
  <2>4. QED
    BY <2>3 DEF Contract!Next
<1>5. QED
  BY <1>3, <1>4

LEMMA TrayKeepsContract ==
  ASSUME Inv, Tray
  PROVE  [Contract!Next]_(Contract!vars)
<1>1. CASE RestartClicked \/ QuitWithUpdate
  BY <1>1, ClickKeepsContract DEF RestartClicked, QuitWithUpdate
<1>2. CASE PlainQuit \/ TakeEvent \/ NoteAttempt \/ AttemptNoted
  <2>1. tray # "apply" /\ tray' # "apply" /\ UNCHANGED <<artifact, installed, aside, running, script>>
    BY <1>2 DEF PlainQuit, TakeEvent, NoteAttempt, AttemptNoted, AfterRefusal, outsideTray, disk
  <2>2. UNCHANGED <<Verified, Asked, Present, installed, running>>
    BY <2>1 DEF Verified, Asked, Present
  <2>3. QED
    BY <2>2 DEF Contract!vars
<1>3. CASE SwapInPlace
  <2> DEFINE v == update_pending.version
  <2>1. v \in Release /\ artifact[v] = "whole" /\ installed' = v /\ v # 0 /\ tray = "apply"
    BY <1>3, HandingOver, Putting DEF SwapInPlace
  <2>2. v \in Verified \cap Asked
    BY <2>1 DEF Verified, Asked
  <2>3. Present' = v /\ (installed' = 0) = FALSE
    BY <2>1 DEF Present
  <2>4. Asked' \subseteq Asked
    <3>1. tray' # "apply"
      BY <1>3 DEF SwapInPlace
    <3>2. script' = script \/ script'.version = 0
      BY <1>3 DEF SwapInPlace, Watcher
    <3>3. QED
      BY <3>1, <3>2, Numbers DEF Asked
  <2>5. Verified' \subseteq Verified
    BY <1>3, <2>1 DEF SwapInPlace, Verified, Unlinked, Inv, TypeOK
  <2>6. Contract!Install(v)
    BY <1>3, <2>2, <2>3, <2>4, <2>5 DEF Contract!Install, SwapInPlace, outsideTray
  <2>7. QED
    BY <2>1, <2>6 DEF Contract!Next
<1>4. CASE SwapFails \/ ApplyFails \/ SpawnInstaller
  <2>1. tray = "apply" /\ tray' # "apply" /\ UNCHANGED <<artifact, installed, aside, running>>
    BY <1>4 DEF SwapFails, ApplyFails, SpawnInstaller, AfterRefusal, outsideTray, disk
  <2>2. script' = script \/ script'.version = update_pending.version
    BY <1>4 DEF SwapFails, ApplyFails, SpawnInstaller
  <2>3. Asked' \subseteq Asked
    BY <2>1, <2>2 DEF Asked
  <2>4. UNCHANGED <<Verified, Present, installed, running>>
    BY <2>1 DEF Verified, Present
  <2>5. Contract!Withdraw
    BY <2>3, <2>4 DEF Contract!Withdraw
  <2>6. QED
    BY <2>5 DEF Contract!Next
<1>5. CASE Reread
  <2>1. running \in Version \cup {0}
    BY DEF Inv, TypeOK
  <2>2. Verified' \subseteq Verified
    BY <1>5, <2>1, Offering, FewerFiles DEF Reread, Inv
  <2>3. UNCHANGED <<Asked, Present, installed, running>>
    BY <1>5 DEF Reread, outsideTray, Asked, Present
  <2>4. Contract!Drop
    BY <2>2, <2>3 DEF Contract!Drop
  <2>5. QED
    BY <2>4 DEF Contract!Next
<1>6. QED
  BY <1>1, <1>2, <1>3, <1>4, <1>5 DEF Tray

\* A process that starts is what is there, and may drop a stale record.
LEMMA LaunchKeepsContract ==
  ASSUME Inv, Launch, running = 0, installed # 0,
         UNCHANGED <<platform, installed, aside>>,
         script' = script \/ (script.st = "relaunch" /\ script'.st \in {"none", "cleanup"})
  PROVE  Contract!Next
<1>1. installed \in Version \cup {0}
  BY DEF Inv, TypeOK
<1>2. Verified' \subseteq Verified
  BY <1>1, Offering, Clearing, FewerFiles DEF Launch, Inv
<1>3. Asked' = Asked
  BY DEF Asked, Launch, Inv, NothingRuns
<1>4. running' = Present /\ Present' = Present
  BY DEF Launch, Present
<1>5. Contract!StartUp
  BY <1>2, <1>3, <1>4 DEF Contract!StartUp
<1>6. QED
  BY <1>5 DEF Contract!Next

LEMMA ScriptKeepsContract ==
  ASSUME Inv, Script
  PROVE  [Contract!Next]_(Contract!vars)
<1> DEFINE v == script.version
<1>1. \A st \in Busy \cup {"dead"}, ok \in BOOLEAN :
        To(st, ok) => script'.st = st /\ script'.version = v
  BY DEF To, Inv, TypeOK
<1>2. ASSUME script.st \in Busy, platform # "linux" PROVE v \in Release
  BY <1>2 DEF Inv, Installs
<1>4. ASSUME UNCHANGED <<tray, update_pending>>,
             script'.st \in {"none", "dead", "relaunch", "cleanup"}
      PROVE  Asked' \subseteq Asked
  BY <1>4 DEF Asked
<1>5. CASE ScriptGivesUp \/ InstallerDies \/ WatcherDone
  <2>1. /\ script'.st \in {"none", "dead", "relaunch", "cleanup"}
        /\ UNCHANGED <<tray, update_pending, artifact, installed, aside, running>>
    <3>1. script'.st \in {"none", "dead", "relaunch"}
      <4>1. CASE ScriptGivesUp
        BY <4>1 DEF ScriptGivesUp, NoScript
      <4>2. CASE WatcherDone
        BY <1>1, <4>2 DEF WatcherDone, Busy
      <4>3. CASE InstallerDies
        <5>1. script.ok \in BOOLEAN
          BY DEF Inv, TypeOK
        <5>2. QED
          BY <1>1, <4>3, <5>1 DEF InstallerDies
      <4>4. QED
        BY <1>5, <4>1, <4>2, <4>3
    <3>2. QED
      BY <1>5, <3>1 DEF ScriptGivesUp, InstallerDies, WatcherDone, outsideScript, trayVars, disk
  <2>2. UNCHANGED <<Verified, Present, installed, running>>
    BY <2>1 DEF Verified, Present
  <2>3. Contract!Withdraw
    BY <1>4, <2>1, <2>2 DEF Contract!Withdraw
  <2>4. QED
    BY <2>3 DEF Contract!Next
<1>6. ASSUME script.st \in {"ready", "aside"}, platform # "linux", artifact[v] # "absent",
             installed' = Put(v), To("relaunch", TRUE), UNCHANGED outsideScript
      PROVE  Contract!Next
  <2>1. v \in Release /\ artifact[v] = "whole" /\ installed' = v /\ v # 0
    BY <1>2, <1>6, Putting DEF Busy
  <2>2. v \in Verified \cap Asked
    BY <1>6, <2>1 DEF Verified, Asked
  <2>3. script'.st = "relaunch"
    BY <1>1, <1>6 DEF Busy
  <2>4. Asked' \subseteq Asked /\ Verified' \subseteq Verified
    BY <1>4, <1>6, <2>3 DEF outsideScript, trayVars, disk, Verified
  <2>5. Present' = v /\ (installed' = 0) = FALSE /\ running' = running
    BY <1>6, <2>1 DEF Present, outsideScript
  <2>6. Contract!Install(v)
    BY <2>2, <2>4, <2>5 DEF Contract!Install
  <2>7. QED
    BY <2>1, <2>6 DEF Contract!Next
<1>7. ASSUME To("relaunch", FALSE), UNCHANGED <<installed, aside>>, UNCHANGED outsideScript
      PROVE  Contract!Next
  <2>1. script'.st = "relaunch"
    BY <1>1, <1>7 DEF Busy
  <2>2. UNCHANGED <<Verified, Present, installed, running>> /\ Asked' \subseteq Asked
    BY <1>4, <1>7, <2>1 DEF Verified, Present, outsideScript, trayVars, disk
  <2>3. Contract!Withdraw
    BY <2>2 DEF Contract!Withdraw
  <2>4. QED
    BY <2>3 DEF Contract!Next
<1>8. CASE MsiRuns
  BY <1>6, <1>7, <1>8 DEF MsiRuns
<1>9. CASE BundleAside
  <2>1. CASE To("relaunch", FALSE) /\ UNCHANGED <<installed, aside>>
    BY <1>7, <1>9, <2>1 DEF BundleAside
  <2>2. CASE /\ installed' = 0 /\ aside' = installed
             /\ To(IF installed = 0 THEN "dead" ELSE "aside", FALSE)
    <3>1. UNCHANGED <<Verified, running, tray, update_pending>> /\ platform = "macos"
          /\ script.st = "ready"
      BY <1>9 DEF BundleAside, outsideScript, trayVars, disk, Verified
    <3>2. v \in Release /\ v \in Asked
      BY <1>2, <3>1 DEF Asked, Busy
    <3>3. Present' = installed
      BY <2>2 DEF Present
    <3>4. CASE installed = 0
      <4>1. script'.st = "dead"
        BY <1>1, <2>2, <3>4 DEF Busy
      <4>2. Asked' \subseteq Asked
        BY <1>4, <3>1, <4>1
      <4>3. Contract!Lose
        BY <2>2, <3>1, <3>2, <3>3, <3>4, <4>2 DEF Contract!Lose
      <4>4. QED
        BY <4>3 DEF Contract!Next
    <3>5. CASE installed # 0
      <4>1. script'.st = "aside" /\ script'.version = v
        BY <1>1, <2>2, <3>5 DEF Busy
      <4>2. Asked' = Asked
        BY <3>1, <4>1 DEF Asked
      <4>3. Present = installed
        BY <3>5 DEF Present
      <4>4. Contract!Interrupt
        BY <2>2, <3>1, <3>2, <3>3, <3>5, <4>2, <4>3 DEF Contract!Interrupt
      <4>5. QED
        BY <4>4 DEF Contract!Next
    <3>6. QED
      BY <3>4, <3>5
  <2>3. QED
    BY <1>9, <2>1, <2>2 DEF BundleAside
<1>10. CASE BundleReplaced
  <2>1. platform = "macos" /\ installed = 0 /\ aside # 0 /\ script.st = "aside"
        /\ UNCHANGED outsideScript
    BY <1>10 DEF BundleReplaced, Inv, Installs
  <2>2. CASE artifact[v] # "absent" /\ installed' = Put(v) /\ To("relaunch", TRUE)
    BY <1>6, <2>1, <2>2
  <2>3. CASE installed' = aside /\ To("relaunch", FALSE)
    <3>1. script'.st = "relaunch"
      BY <1>1, <2>3 DEF Busy
    <3>2. UNCHANGED <<Verified, Present, running>> /\ Asked' \subseteq Asked
      BY <1>4, <2>1, <2>3, <3>1 DEF Verified, Present, outsideScript, trayVars, disk
    <3>3. Present # 0 /\ (installed = 0) = TRUE /\ (installed' = 0) = FALSE
      BY <2>1, <2>3 DEF Present
    <3>4. Contract!Mend
      BY <3>2, <3>3 DEF Contract!Mend
    <3>5. QED
      BY <3>4 DEF Contract!Next
  <2>4. QED
    BY <1>10, <2>2, <2>3 DEF BundleReplaced
<1>11. CASE ScriptRelaunches
  <2>1. script'.st \in {"none", "cleanup"} /\ script.st = "relaunch"
    BY <1>11 DEF ScriptRelaunches, To, Inv, TypeOK
  <2>2. CASE script.relaunch /\ running = 0 /\ installed # 0
    BY <1>11, <2>1, <2>2, LaunchKeepsContract DEF ScriptRelaunches
  <2>3. CASE ~(script.relaunch /\ running = 0 /\ installed # 0)
    <3>1. UNCHANGED <<tray, update_pending, artifact, installed, aside, running>>
      BY <1>11, <2>3 DEF ScriptRelaunches, outsideScript, trayVars, disk
    <3>2. UNCHANGED <<Verified, Asked, Present, installed, running>>
      BY <2>1, <3>1 DEF Verified, Asked, Present
    <3>3. QED
      BY <3>2 DEF Contract!vars
  <2>4. QED
    BY <2>2, <2>3
<1>12. CASE ScriptCleans
  <2>1. Verified' \subseteq Verified
    BY <1>12, Clearing, FewerFiles DEF ScriptCleans, Inv
  <2>2. script'.st = "none" /\ script.st = "cleanup"
        /\ UNCHANGED <<tray, update_pending, installed, aside, running>>
    <3>1. NoScript.st = "none"
      BY DEF NoScript
    <3>2. QED
      BY <1>12, <3>1 DEF ScriptCleans, trayVars
  <2>3. UNCHANGED <<Asked, Present, installed, running>>
    BY <2>2 DEF Asked, Present
  <2>4. Contract!Drop
    BY <2>1, <2>3 DEF Contract!Drop
  <2>5. QED
    BY <2>4 DEF Contract!Next
<1>13. QED
  BY <1>5, <1>8, <1>9, <1>10, <1>11, <1>12 DEF Script

LEMMA ContractStep == Inv /\ [Next]_vars => [Contract!Next]_(Contract!vars)
<1> SUFFICES ASSUME Inv, [Next]_vars PROVE [Contract!Next]_(Contract!vars)
  OBVIOUS
<1>1. CASE Start
  BY <1>1, LaunchKeepsContract DEF Start
<1>2. CASE Exit \/ Crash
  <2>1. Gone
    BY <1>2 DEF Exit, Crash
  <2>2. Asked' \subseteq Asked
    <3>1. tray' # "apply" /\ script'.version = script.version
          /\ (script'.st \in {"waiting", "ready", "aside"} => script.st \in {"waiting", "ready", "aside"})
      BY <2>1 DEF Gone, Inv, TypeOK
    <3>2. QED
      BY <3>1 DEF Asked
  <2>3. running' = 0 /\ UNCHANGED <<Verified, Present, installed>>
    BY <2>1 DEF Gone, disk, Verified, Present
  <2>4. Contract!Stop
    BY <2>2, <2>3 DEF Contract!Stop
  <2>5. QED
    BY <2>4 DEF Contract!Next
<1>3. CASE UNCHANGED vars
  BY <1>3 DEF vars, disk, trayVars, workerVars, Contract!vars, Verified, Asked, Present
<1>4. QED
  BY <1>1, <1>2, <1>3, WorkerKeepsContract, TrayKeepsContract, ScriptKeepsContract DEF Next

\* A version is put on the machine only if it was verified, is newer than
\* the process that asked and was asked for, and only what is there starts.
THEOREM UpdaterKeepsContract == Spec => KeepsContract
BY ContractInit, ContractStep, InvHolds, PTL DEF Spec, KeepsContract, Contract!Spec
=============================================================================
