----------------------- MODULE GateAndSupervisorProofs -----------------------
(***************************************************************************)
(* Theorems about two components that have nothing in common but this      *)
(* module, each of its own specification, for any value of the constants.  *)
(*                                                                         *)
(* The key gate holds and lets go.  Neither thread sees what the other is  *)
(* about to do, so neither property is inductive: what `held' is worth     *)
(* depends on where both threads are.  Agreed says so, place by place of   *)
(* the engine, for a run without lapses.                                   *)
(*                                                                         *)
(* The supervisor's Owned is inductive once the table is known to hold     *)
(* only what still runs or waits to be reaped, and what was never          *)
(* announced (Watched); and once nobody is asked to stop but on the way    *)
(* out (Leaving).                                                          *)
(***************************************************************************)
EXTENDS KeyGate, Supervisor, TLAPS

-----------------------------------------------------------------------------
(* The key gate. *)


Some == \E d \in Keyboard : grabbed[d]

\* The device thread acts on a request it has seen.
Taking == thread \in {"verify", "grab"}

\* What the devices know: a grabbed one is there, and one that the thread is
\* through with dropping is free.
Devices ==
  \A d \in Keyboard : /\ grabbed[d] => d \in plugged
                      /\ thread = "drop" /\ d \notin todo => ~grabbed[d]

\* No grab without a check of this hold, and no check for an earlier one.
Checked ==
  /\ Some \/ thread = "grab" => verified = epoch
  /\ Taking => seen.epoch = epoch

\* Between two holds, or with the gate turned off, nothing is grabbed,
\* announced, asked for or about to be taken.
Free == ~want /\ ~held /\ ~Some /\ ~Taking

\* While it asks: grabs are announced once all are taken, and stay.
Asking ==
  /\ ~expired
  /\ held => want /\ Some /\ available /\ thread # "drop"
  /\ ~held /\ Some => thread = "grab"
  /\ Taking => want

\* While it types.
Holding == want /\ held /\ ~expired /\ Some /\ available /\ thread # "drop"

\* While it waits for the thread to let go: held is cleared last.
Letting ==
  /\ ~want
  /\ held => available /\ verified = epoch
             /\ (Some \/ (thread = "drop" /\ todo # Keyboard))
  /\ ~held => ~Some /\ ~Taking

Agreed ==
  lapses = {} =>
    /\ Devices
    /\ Checked
    /\ engine \in {"idle", "asking", "holding", "letting", "sweep"}
    /\ engine \in {"idle", "sweep"} \/ ~available => Free
    /\ engine = "asking" => Asking
    /\ engine = "holding" => Holding
    /\ engine = "letting" => Letting

-----------------------------------------------------------------------------
(* Types. *)

LEMMA InitTypes == GateInit => GateTypeOK
<1> SUFFICES ASSUME GateInit PROVE GateTypeOK
  OBVIOUS
<1>1. 1 \in 1..MaxHolds + 1 /\ 0 \in 0..1 /\ 1 \in 1..1
  BY GateAssumption
<1>2. QED
  BY <1>1 DEF GateInit, GateTypeOK

\* Steps of the user, the desktop and the clock.
LEMMA OutsideTypes ==
  ASSUME GateTypeOK, \/ \E d \in Keyboard : Press(d) \/ Unplug(d)
                 \/ Proxy \/ Expire
  PROVE  GateTypeOK'
<1>1. CASE \E d \in Keyboard : Press(d)
  BY <1>1 DEF GateTypeOK, Press, threadVars
<1>2. CASE \E d \in Keyboard : Unplug(d)
  BY <1>2 DEF GateTypeOK, Unplug, threadVars, Lapse
<1>3. CASE Proxy
  BY <1>3 DEF GateTypeOK, Proxy, threadVars
<1>4. CASE Expire
  BY <1>4 DEF GateTypeOK, Expire, threadVars, outside, Lapse
<1>5. QED
  BY <1>1, <1>2, <1>3, <1>4

LEMMA AskTypes ==
  ASSUME GateTypeOK, Ask
  PROVE  GateTypeOK'
<1>1. epoch' \in 1..MaxHolds + 1 /\ 0..epoch \subseteq 0..epoch'
      /\ 1..epoch \subseteq 1..epoch'
  BY GateAssumption DEF GateTypeOK, Ask
<1>2. verified' \in 0..epoch'
  BY <1>1 DEF GateTypeOK, Ask, threadVars
<1>3. seen' \in [want : BOOLEAN, expired : BOOLEAN, epoch : 1..epoch']
  BY <1>1 DEF GateTypeOK, Ask, threadVars
<1>4. tried' \in [Keyboard -> 0..epoch']
  BY <1>1 DEF GateTypeOK, Ask, threadVars
<1>5. QED
  BY <1>1, <1>2, <1>3, <1>4 DEF GateTypeOK, Ask, threadVars, outside

LEMMA EngineTypes ==
  ASSUME GateTypeOK,
         \/ HoldFindsHeld \/ Cleared \/ HoldTaken \/ HoldTimesOut
         \/ LetGo \/ Released \/ ReleaseTimesOut \/ Sweep
  PROVE  GateTypeOK'
<1>1. CASE HoldFindsHeld
  BY <1>1 DEF GateTypeOK, HoldFindsHeld, threadVars, outside
<1>2. CASE Cleared
  BY <1>2 DEF GateTypeOK, Cleared, threadVars, outside, Lapse
<1>3. CASE HoldTaken
  BY <1>3 DEF GateTypeOK, HoldTaken, threadVars, outside
<1>4. CASE HoldTimesOut
  BY <1>4 DEF GateTypeOK, HoldTimesOut, threadVars, outside, Lapse
<1>5. CASE LetGo
  BY <1>5 DEF GateTypeOK, LetGo, threadVars, outside
<1>6. CASE Released
  BY <1>6 DEF GateTypeOK, Released, threadVars, outside
<1>7. CASE ReleaseTimesOut
  BY <1>7 DEF GateTypeOK, ReleaseTimesOut, threadVars, outside, Lapse
<1>8. CASE Sweep
  BY <1>8 DEF GateTypeOK, Sweep, threadVars, outside
<1>9. QED
  BY <1>1, <1>2, <1>3, <1>4, <1>5, <1>6, <1>7, <1>8

\* Steps of the device thread; a device it has looked at has its grab changed
\* to a truth value.
LEMMA DeviceTypes ==
  ASSUME GateTypeOK, NEW d \in Keyboard,
         ReadDevice(d) \/ GrabDevice(d) \/ DropDevice(d)
  PROVE  GateTypeOK'
<1>1. CASE ReadDevice(d)
  BY <1>1 DEF GateTypeOK, ReadDevice, engineVars
<1>2. CASE GrabDevice(d)
  <2>1. grabbed' \in [Keyboard -> BOOLEAN]
    <3>1. CASE grabbed' = grabbed
      BY <3>1 DEF GateTypeOK
    <3>2. CASE grabbed' = [grabbed EXCEPT ![d] = d \in plugged]
      <4>1. (d \in plugged) \in BOOLEAN
        OBVIOUS
      <4>2. grabbed \in [Keyboard -> BOOLEAN]
        BY DEF GateTypeOK
      <4>3. QED
        BY <3>2, <4>1, <4>2, Zenon
    <3>3. QED
      BY <1>2, <3>1, <3>2 DEF GrabDevice
  <2>2. seen.epoch \in 0..epoch
    BY DEF GateTypeOK
  <2>3. tried' \in [Keyboard -> 0..epoch]
    BY <1>2, <2>2 DEF GateTypeOK, GrabDevice
  <2>4. QED
    BY <1>2, <2>1, <2>3 DEF GateTypeOK, GrabDevice, engineVars, outside
<1>3. CASE DropDevice(d)
  BY <1>3 DEF GateTypeOK, DropDevice, engineVars, outside
<1>4. QED
  BY <1>1, <1>2, <1>3

LEMMA ThreadTypes ==
  ASSUME GateTypeOK, Look \/ Verify \/ Tell \/ Dropped \/ Wait
  PROVE  GateTypeOK'
<1>1. CASE Look
  <2>1. epoch \in 1..epoch
    BY GateAssumption DEF GateTypeOK
  <2>2. seen' \in [want : BOOLEAN, expired : BOOLEAN, epoch : 1..epoch]
    BY <1>1, <2>1 DEF GateTypeOK, Look
  <2>3. QED
    BY <1>1, <2>2 DEF GateTypeOK, Look, engineVars, outside
<1>2. CASE Verify
  <2>1. seen.epoch \in 0..epoch
    BY DEF GateTypeOK
  <2>2. QED
    BY <1>2, <2>1 DEF GateTypeOK, Verify, engineVars, outside
<1>3. CASE Tell
  BY <1>3 DEF GateTypeOK, Tell, engineVars, outside
<1>4. CASE Dropped
  BY <1>4 DEF GateTypeOK, Dropped, engineVars, outside
<1>5. CASE Wait
  BY <1>5 DEF GateTypeOK, Wait, engineVars, outside
<1>6. QED
  BY <1>1, <1>2, <1>3, <1>4, <1>5

LEMMA NextTypes == GateTypeOK /\ [GateNext]_gateVars => GateTypeOK'
<1> SUFFICES ASSUME GateTypeOK, [GateNext]_gateVars PROVE GateTypeOK'
  OBVIOUS
<1>1. CASE UNCHANGED gateVars
  BY <1>1 DEF GateTypeOK, gateVars
<1>2. CASE GateNext
  BY <1>2, OutsideTypes, AskTypes, EngineTypes, DeviceTypes, ThreadTypes
     DEF GateNext, DeviceThread
<1>3. QED
  BY <1>1, <1>2

\* Every variable of the gate keeps its type, and no counter of the device
\* thread (verified_epoch, tried_epoch) runs ahead of the engine's epoch.
THEOREM GateTypes == GateSpec => []GateTypeOK
<1>1. QED
  BY InitTypes, NextTypes, PTL DEF GateSpec

-----------------------------------------------------------------------------
(* What the engine and the device thread agree on. *)

LEMMA InitAgreed == GateInit => Agreed
BY GateAssumption DEF GateInit, Agreed, Devices, Checked, Free, Some, Taking

\* Steps that change nothing the agreement is about.
LEMMA Unmoved ==
  ASSUME Agreed, lapses' = {} => lapses = {},
         UNCHANGED <<want, held, available, epoch, verified, expired, engine,
                     thread, todo, seen, grabbed, plugged>>
  PROVE  Agreed'
BY DEF Agreed, Devices, Checked, Free, Asking, Holding, Letting, Some, Taking

LEMMA OutsideAgrees ==
  ASSUME GateTypeOK, Agreed, \/ \E d \in Keyboard : Press(d) \/ Unplug(d)
                         \/ Proxy \/ Expire
  PROVE  Agreed'
<1>1. CASE \E d \in Keyboard : Press(d)
  BY <1>1, Unmoved DEF Press, threadVars
<1>2. CASE \E d \in Keyboard : Unplug(d)
  <2>1. PICK d \in Keyboard : Unplug(d)
    BY <1>2
  <2>2. SUFFICES ASSUME lapses' = {} PROVE Agreed'
    BY DEF Agreed
  <2>3. lapses = {} /\ ~grabbed[d]
    BY <2>1, <2>2 DEF Unplug
  <2>4. Devices'
    BY <2>1, <2>3 DEF Agreed, Devices, Unplug, threadVars
  <2>5. QED
    BY <2>1, <2>3, <2>4
       DEF Agreed, Checked, Free, Asking, Holding, Letting, Some, Taking, Unplug,
           threadVars
<1>3. CASE Proxy
  BY <1>3, Unmoved DEF Proxy, threadVars
<1>4. CASE Expire
  BY <1>4 DEF Agreed, Devices, Checked, Free, Asking, Holding, Letting, Some, Taking,
              Expire, threadVars, outside
<1>5. QED
  BY <1>1, <1>2, <1>3, <1>4

LEMMA EngineAgrees ==
  ASSUME GateTypeOK, Agreed,
         \/ HoldFindsHeld \/ Cleared \/ Ask \/ HoldTaken \/ HoldTimesOut
         \/ LetGo \/ Released \/ ReleaseTimesOut \/ Sweep
  PROVE  Agreed'
<1> SUFFICES ASSUME lapses' = {} PROVE Agreed'
  BY DEF Agreed
<1>1. CASE HoldFindsHeld
  BY <1>1 DEF Agreed, Free, HoldFindsHeld
<1>2. CASE Cleared
  BY <1>2 DEF Agreed, Cleared
<1>3. CASE Ask
  BY <1>3 DEF Agreed, Devices, Checked, Free, Asking, Some, Taking, Ask, threadVars,
              outside
<1>4. CASE HoldTaken
  BY <1>4 DEF Agreed, Devices, Checked, Free, Asking, Holding, Some, Taking, HoldTaken,
              threadVars, outside
<1>5. CASE HoldTimesOut
  BY <1>5 DEF Agreed, Devices, Checked, Free, Asking, Some, Taking, HoldTimesOut,
              threadVars, outside
<1>6. CASE LetGo
  BY <1>6 DEF Agreed, Devices, Checked, Free, Holding, Letting, Some, Taking, LetGo,
              threadVars, outside
<1>7. CASE Released
  BY <1>7 DEF Agreed, Devices, Checked, Free, Letting, Some, Taking, Released,
              threadVars, outside
<1>8. CASE ReleaseTimesOut
  BY <1>8 DEF ReleaseTimesOut
<1>9. CASE Sweep
  BY <1>9 DEF Agreed, Devices, Checked, Free, Some, Taking, Sweep, threadVars, outside
<1>10. QED
  BY <1>1, <1>2, <1>3, <1>4, <1>5, <1>6, <1>7, <1>8, <1>9

\* Reading takes no grab away: what is grabbed is there.
LEMMA ReadAgrees ==
  ASSUME GateTypeOK, Agreed, NEW d \in Keyboard, ReadDevice(d)
  PROVE  Agreed'
<1> SUFFICES ASSUME lapses' = {} PROVE Agreed'
  BY DEF Agreed
<1>1. lapses = {} /\ grabbed[d] => d \in plugged
  BY DEF Agreed, Devices, ReadDevice
<1>2. \A e \in Keyboard : grabbed'[e] = grabbed[e]
  BY <1>1 DEF ReadDevice, GateTypeOK, Agreed, Devices
<1>3. QED
  BY <1>1, <1>2 DEF Agreed, Devices, Checked, Free, Asking, Holding, Letting, Some,
                    Taking, ReadDevice, engineVars

LEMMA GrabAgrees ==
  ASSUME GateTypeOK, Agreed, NEW d \in Keyboard, GrabDevice(d)
  PROVE  Agreed'
<1> SUFFICES ASSUME lapses' = {} PROVE Agreed'
  BY DEF Agreed
<1>1. \A e \in Keyboard : grabbed[e] => grabbed'[e]
  BY DEF GrabDevice, GateTypeOK
<1>2. \A e \in Keyboard : grabbed'[e] => grabbed[e] \/ e \in plugged
  BY DEF GrabDevice, GateTypeOK
<1>3. Devices'
  BY <1>2 DEF Agreed, Devices, GrabDevice, outside
<1>4. Some => Some'
  BY <1>1 DEF Some
<1>5. lapses = {} /\ thread = "grab" /\ thread' = "grab" /\ Taking /\ Taking'
  BY DEF GrabDevice, Taking
<1>6. QED
  BY <1>3, <1>4, <1>5 DEF Agreed, Checked, Free, Asking, Holding, Letting, GrabDevice,
                          engineVars, outside

LEMMA DropAgrees ==
  ASSUME GateTypeOK, Agreed, NEW d \in Keyboard, DropDevice(d)
  PROVE  Agreed'
<1> SUFFICES ASSUME lapses' = {} PROVE Agreed'
  BY DEF Agreed
<1>1. \A e \in Keyboard : grabbed'[e] = (grabbed[e] /\ e # d)
  BY DEF DropDevice, GateTypeOK
<1>2. Devices'
  BY <1>1 DEF Agreed, Devices, DropDevice, outside
<1>3. lapses = {} /\ Some /\ thread = "drop" /\ thread' = "drop" /\ todo' # Keyboard
      /\ ~Taking /\ ~Taking'
  BY DEF DropDevice, Some, Taking
<1>4. engine = "letting" /\ held /\ available /\ Letting /\ verified = epoch
  BY <1>3 DEF Agreed, Free, Asking, Holding, Letting
<1>5. QED
  BY <1>2, <1>3, <1>4 DEF Agreed, Checked, Free, Letting, DropDevice, engineVars,
                          outside, Taking

LEMMA ThreadAgrees ==
  ASSUME GateTypeOK, Agreed, Look \/ Verify \/ Tell \/ Dropped \/ Wait
  PROVE  Agreed'
<1> SUFFICES ASSUME lapses' = {} PROVE Agreed'
  BY DEF Agreed
<1>1. CASE Look
  BY <1>1 DEF Agreed, Devices, Checked, Free, Asking, Holding, Letting, Some, Taking,
              Look, engineVars, outside
<1>2. CASE Verify
  BY <1>2 DEF Agreed, Devices, Checked, Free, Asking, Holding, Letting, Some, Taking,
              Verify, engineVars, outside
<1>3. CASE Tell
  BY <1>3 DEF Agreed, Devices, Checked, Free, Asking, Holding, Letting, Some, Taking,
              Tell, engineVars, outside
<1>4. CASE Dropped
  <2>1. ~Some
    BY <1>4 DEF Dropped, Agreed, Devices, Some
  <2>2. held => engine = "letting" /\ todo # Keyboard
    BY <1>4, <2>1 DEF Dropped, Agreed, Free, Asking, Holding, Letting, GateTypeOK
  <2>3. ~held' /\ ~Some' /\ ~Taking' /\ lapses = {} /\ thread' = "wait"
    BY <1>4, <2>1, <2>2 DEF Dropped, Some, Taking
  <2>4. QED
    BY <1>4, <2>1, <2>2, <2>3
       DEF Agreed, Devices, Checked, Free, Asking, Holding, Letting, Dropped,
           engineVars, outside, GateTypeOK
<1>5. CASE Wait
  BY <1>5 DEF Agreed, Devices, Checked, Free, Asking, Holding, Letting, Some, Taking,
              Wait, engineVars, outside
<1>6. QED
  BY <1>1, <1>2, <1>3, <1>4, <1>5

\* Agreed is inductive, given the types.
THEOREM AgreedInvariant == GateSpec => []Agreed
<1>1. GateTypeOK /\ Agreed /\ [GateNext]_gateVars => Agreed'
  <2> SUFFICES ASSUME GateTypeOK, Agreed, [GateNext]_gateVars PROVE Agreed'
    OBVIOUS
  <2>1. CASE UNCHANGED gateVars
    BY <2>1, Unmoved DEF gateVars
  <2>2. CASE GateNext
    BY <2>2, OutsideAgrees, EngineAgrees, ReadAgrees, GrabAgrees, DropAgrees,
       ThreadAgrees DEF GateNext, DeviceThread
  <2>3. QED
    BY <2>1, <2>2
<1>2. QED
  BY <1>1, InitAgreed, GateTypes, PTL DEF GateSpec

\* hold() returning true means some keyboard in use is grabbed until release()
\* or the watchdog, for any keyboards and any number of holds.
THEOREM HoldsAreReal == GateSpec => []HoldIsReal
<1>1. Agreed => HoldIsReal
  BY DEF Agreed, Holding, Some, HoldIsReal
<1>2. QED
  BY <1>1, AgreedInvariant, PTL

\* When the engine is through with the gate, or the gate turned off, no
\* keyboard is kept from the application.
THEOREM GateLetsGo == GateSpec => []FreeMeansFree
<1>1. Agreed => FreeMeansFree
  BY DEF Agreed, Free, Some, FreeMeansFree
<1>2. QED
  BY <1>1, AgreedInvariant, PTL

-----------------------------------------------------------------------------
(* The plug-in supervisor. *)


Watched == \A s \in running : proc[s] \in {"alive", "dead"} /\ announced[s] = 0

Leaving == asked = {} \/ loop \in {"grace", "off"}

\* A question that is being asked has not been counted off.
Counted == loop \in {"poll", "join"} => left > 0

Inv == TypeOK /\ Watched /\ Leaving /\ Counted /\ Owned

-----------------------------------------------------------------------------
(* What reap() does to the table. *)

LEMMA Reaping ==
  ASSUME Inv, reap
  PROVE  /\ proc' \in [Service -> {"none", "alive", "dead", "reaped"}]
         /\ running' \subseteq running
         /\ announced' \in [Service -> 0..1]
         /\ orphans' \subseteq Service
         /\ slips' \subseteq {"crashed", "unwatched", "held"}
         /\ Watched'
         /\ slips' \subseteq {"held"} =>
              /\ slips \subseteq {"held"} /\ orphans' = {}
              /\ \A s \in Service : proc'[s] \in {"alive", "dead"} => s \in running'
<1>. DEFINE gone == {s \in running : proc[s] = "dead"}
<1>1. PICK lost \in SUBSET {s \in running : proc[s] = "alive"} :
        /\ proc' = [s \in Service |-> IF s \in gone THEN "reaped" ELSE proc[s]]
        /\ running' = running \ (gone \cup lost)
        /\ announced' = [s \in Service |-> IF s \in gone \cup lost THEN announced[s] + 1
                                           ELSE announced[s]]
        /\ orphans' = orphans \cup lost
        /\ slips' = slips \cup (IF lost # {} THEN {"unwatched"} ELSE {})
  BY DEF reap
<1>2. gone \subseteq Service /\ lost \subseteq Service /\ running \subseteq Service
  BY <1>1 DEF Inv, TypeOK
<1>3. proc' \in [Service -> {"none", "alive", "dead", "reaped"}]
  BY <1>1 DEF Inv, TypeOK
<1>4. announced' \in [Service -> 0..1]
  <2>1. \A s \in gone \cup lost : announced[s] = 0
    BY <1>1 DEF Inv, Watched
  <2>. QED
    BY <1>1, <1>2, <2>1 DEF Inv, TypeOK
<1>5. Watched'
  <2>. SUFFICES ASSUME NEW s \in running'
                PROVE  proc'[s] \in {"alive", "dead"} /\ announced'[s] = 0
    BY DEF Watched
  <2>1. s \in running /\ s \notin gone \cup lost /\ s \in Service
    BY <1>1, <1>2
  <2>. QED
    BY <1>1, <2>1 DEF Inv, Watched
<1>6. slips' \subseteq {"held"} =>
        /\ slips \subseteq {"held"} /\ orphans' = {}
        /\ \A s \in Service : proc'[s] \in {"alive", "dead"} => s \in running'
  <2>. SUFFICES ASSUME slips' \subseteq {"held"}
                PROVE  /\ slips \subseteq {"held"} /\ orphans' = {}
                       /\ \A s \in Service : proc'[s] \in {"alive", "dead"} => s \in running'
    OBVIOUS
  <2>1. lost = {} /\ slips \subseteq {"held"}
    BY <1>1
  <2>2. orphans' = {}
    BY <1>1, <2>1 DEF Inv, Owned
  <2>3. ASSUME NEW s \in Service, proc'[s] \in {"alive", "dead"}
        PROVE  s \in running'
    <3>1. s \notin gone /\ proc[s] \in {"alive", "dead"}
      BY <1>1, <2>3
    <3>2. s \in running
      BY <2>1, <3>1 DEF Inv, Owned
    <3>. QED
      BY <1>1, <2>1, <3>1, <3>2
  <2>. QED
    BY <2>1, <2>2, <2>3
<1>7. /\ running' \subseteq running /\ orphans' \subseteq Service
      /\ slips' \subseteq {"crashed", "unwatched", "held"}
  BY <1>1, <1>2 DEF Inv, TypeOK
<1>. QED
  BY <1>3, <1>4, <1>5, <1>6, <1>7

\* Taking an event leaves a queue of events.
LEMMA TakesEvent ==
  ASSUME Inv, NEW e, Takes(e)
  PROVE  /\ events' \in Seq({"state", "entry", "quit", "restart"})
         /\ Len(events') <= MaxEvents
         /\ asked = {} /\ loop = "idle"
<1>. USE SupervisorAssumption DEF SupervisorAssumption
<1>1. loop = "idle" /\ events # <<>> /\ events' = Tail(events)
  BY DEF Takes
<1>2. events' \in Seq({"state", "entry", "quit", "restart"}) /\ Len(events') = Len(events) - 1
  BY <1>1 DEF Inv, TypeOK
<1>. QED
  BY <1>1, <1>2 DEF Inv, TypeOK, Leaving

LEMMA AnsweredKeeps ==
  ASSUME Inv, Answered, left > 0, loop \in {"refresh", "poll", "join"}
  PROVE  Inv'
<1>1. UNCHANGED <<proc, running, asked, announced, orphans, moved, events, starts, slips>>
  BY DEF Answered, services
<1>2. left' \in 0..Questions /\ child' = "none" /\ heir' = FALSE /\ loop' = "refresh"
  BY SupervisorAssumption DEF Answered, Inv, TypeOK, SupervisorAssumption
<1>. QED
  BY <1>1, <1>2 DEF Inv, TypeOK, Watched, Leaving, Counted, Owned

-----------------------------------------------------------------------------
(* The actions of the event loop. *)

LEMMA RefreshesKeeps == ASSUME Inv, Refreshes PROVE Inv'
<1>1. Takes("state") \/ Takes("entry")
  BY DEF Refreshes
<1>2. reap /\ loop' = "refresh" /\ left' = Questions
      /\ UNCHANGED <<asked, moved, child, heir, starts>>
  BY DEF Refreshes
<1>3. /\ events' \in Seq({"state", "entry", "quit", "restart"})
      /\ Len(events') <= MaxEvents /\ asked = {}
  BY <1>1, TakesEvent
<1>4. TypeOK'
  BY <1>2, <1>3, Reaping, SupervisorAssumption DEF Inv, TypeOK, SupervisorAssumption
<1>5. Watched' /\ Leaving' /\ Counted' /\ Owned'
  BY <1>2, <1>3, Reaping DEF Leaving, Counted, Owned
<1>. QED
  BY <1>4, <1>5 DEF Inv

LEMMA QuitsKeeps == ASSUME Inv, Quits PROVE Inv'
<1>1. /\ reap /\ asked' = asked \cup running' /\ loop' = "grace"
      /\ UNCHANGED <<moved, left, child, heir, starts>>
  BY DEF Quits, Asks, question
<1>2. /\ events' \in Seq({"state", "entry", "quit", "restart"})
      /\ Len(events') <= MaxEvents /\ asked = {}
  BY TakesEvent DEF Quits
<1>3. TypeOK'
  BY <1>1, <1>2, Reaping DEF Inv, TypeOK
<1>4. \A s \in asked' : announced'[s] = 0
  BY <1>1, <1>2, Reaping DEF Watched
<1>5. Watched' /\ Leaving' /\ Counted' /\ Owned'
  BY <1>1, <1>4, Reaping DEF Leaving, Counted, Owned
<1>. QED
  BY <1>3, <1>5 DEF Inv

LEMMA RestartsKeeps == ASSUME Inv, Restarts PROVE Inv'
<1>1. reap /\ loop' = "apply" /\ UNCHANGED <<asked, moved, left, child, heir, starts>>
  BY DEF Restarts, question
<1>2. /\ events' \in Seq({"state", "entry", "quit", "restart"})
      /\ Len(events') <= MaxEvents /\ asked = {}
  BY TakesEvent DEF Restarts
<1>3. TypeOK'
  BY <1>1, <1>2, Reaping DEF Inv, TypeOK
<1>4. Watched' /\ Leaving' /\ Counted' /\ Owned'
  BY <1>1, <1>2, Reaping DEF Leaving, Counted, Owned
<1>. QED
  BY <1>3, <1>4 DEF Inv

LEMMA AppliedKeeps == ASSUME Inv, Applied PROVE Inv'
<1>1. /\ loop = "apply" /\ asked' = asked \cup running /\ loop' = "grace"
      /\ moved' \in {moved, moved \cup Alive}
      /\ UNCHANGED <<running, proc, announced, orphans, left, child, heir, events, starts, slips>>
  BY DEF Applied, Asks, question
<1>2. TypeOK'
  BY <1>1 DEF Inv, TypeOK, Alive
<1>3. \A s \in asked' : announced'[s] = 0
  BY <1>1 DEF Inv, Leaving, Watched
<1>4. Watched' /\ Leaving' /\ Counted' /\ Owned'
  BY <1>1, <1>3 DEF Inv, Watched, Leaving, Counted, Owned
<1>. QED
  BY <1>2, <1>4 DEF Inv

LEMMA StoppedKeeps == ASSUME Inv, Stopped PROVE Inv'
<1>1. /\ proc' = [s \in Service |-> IF s \in running THEN "reaped" ELSE proc[s]]
      /\ running' = {} /\ loop' = "off" /\ events' = <<>>
      /\ UNCHANGED <<asked, announced, orphans, moved, left, child, heir, starts, slips>>
  BY DEF Stopped, question
<1>2. TypeOK'
  BY <1>1, SupervisorAssumption DEF Inv, TypeOK, SupervisorAssumption
<1>3. slips' \subseteq {"held"} => \A s \in Service : proc'[s] \notin {"alive", "dead"}
  BY <1>1 DEF Inv, Owned
<1>4. Watched' /\ Leaving' /\ Counted' /\ Owned'
  BY <1>1, <1>3 DEF Inv, Watched, Leaving, Counted, Owned
<1>. QED
  BY <1>2, <1>4 DEF Inv

LEMMA EventLoopKeeps == ASSUME Inv, EventLoop PROVE Inv'
<1>1. CASE Refreshes BY <1>1, RefreshesKeeps
<1>2. CASE Quits BY <1>2, QuitsKeeps
<1>3. CASE Restarts BY <1>3, RestartsKeeps
<1>4. CASE Applied BY <1>4, AppliedKeeps
<1>5. CASE Stopped BY <1>5, StoppedKeeps
<1>6. CASE ApplyFails
  BY <1>6 DEF ApplyFails, services, question, Inv, TypeOK, Watched, Leaving, Counted, Owned
<1>7. CASE AskCommand
  BY <1>7 DEF AskCommand, services, Inv, TypeOK, Watched, Leaving, Counted, Owned
<1>8. CASE CannotAsk
  BY <1>8, AnsweredKeeps DEF CannotAsk
<1>9. CASE CommandEnded
  BY <1>9 DEF CommandEnded, services, question, Inv, TypeOK, Watched, Leaving, Counted, Owned
<1>10. CASE Joined
  BY <1>10, AnsweredKeeps DEF Joined, Inv, Counted
<1>11. CASE TimesOut
  BY <1>11, AnsweredKeeps DEF TimesOut, Inv, Counted
<1>12. CASE Refreshed
  BY <1>12 DEF Refreshed, services, question, Inv, TypeOK, Watched, Leaving, Counted, Owned
<1>. QED
  BY <1>1, <1>2, <1>3, <1>4, <1>5, <1>6, <1>7, <1>8, <1>9, <1>10, <1>11, <1>12 DEF EventLoop

-----------------------------------------------------------------------------
(* The others. *)

LEMMA StartKeeps == ASSUME Inv, start_all PROVE Inv'
<1>1. PICK spawned \in SUBSET Service :
        /\ proc' = [s \in Service |-> IF s \in spawned THEN "alive" ELSE "none"]
        /\ running' = spawned
  BY DEF start_all
<1>2. /\ asked' = {} /\ announced' = [s \in Service |-> 0] /\ loop' = "idle"
      /\ starts < MaxStarts /\ starts' = starts + 1
      /\ UNCHANGED <<orphans, moved, left, child, heir, events, slips>>
  BY DEF start_all, question
<1>3. TypeOK'
  BY <1>1, <1>2, SupervisorAssumption DEF Inv, TypeOK, SupervisorAssumption
<1>4. Watched' /\ Leaving' /\ Counted' /\ Owned'
  BY <1>1, <1>2 DEF Inv, Watched, Leaving, Counted, Owned
<1>. QED
  BY <1>3, <1>4 DEF Inv

LEMMA EndsKeeps == ASSUME Inv, NEW s \in Service, ServiceEnds(s) PROVE Inv'
<1>1. /\ proc[s] = "alive" /\ proc' = [proc EXCEPT ![s] = "dead"]
      /\ UNCHANGED <<running, asked, announced, orphans, moved, loop, left, child, heir,
                     events, starts, slips>>
  BY DEF ServiceEnds, question
<1>2. TypeOK'
  BY <1>1 DEF Inv, TypeOK
<1>3. \A t \in Service : proc'[t] = IF t = s THEN "dead" ELSE proc[t]
  BY <1>1 DEF Inv, TypeOK
<1>4. Watched'
  BY <1>1, <1>3 DEF Inv, TypeOK, Watched
<1>5. Leaving' /\ Counted' /\ Owned'
  BY <1>1, <1>3 DEF Inv, Leaving, Counted, Owned
<1>. QED
  BY <1>2, <1>4, <1>5 DEF Inv

LEMMA DiesKeeps == ASSUME Inv, Dies PROVE Inv'
<1>1. /\ loop' = "off" /\ orphans' = orphans \cup Alive
      /\ proc' = [s \in Service |-> "none"] /\ running' = {}
      /\ left' = 0 /\ child' = "none" /\ heir' = FALSE /\ events' = <<>>
      /\ slips' = slips \cup {"crashed"}
      /\ UNCHANGED <<asked, announced, moved, starts>>
  BY DEF Dies
<1>2. Alive \subseteq Service
  BY DEF Alive
<1>3. proc' \in [Service -> {"none", "alive", "dead", "reaped"}]
  BY <1>1
<1>4. events' \in Seq({"state", "entry", "quit", "restart"}) /\ Len(events') <= MaxEvents
  BY <1>1, SupervisorAssumption DEF SupervisorAssumption
<1>5. left' \in 0..Questions
  BY <1>1, SupervisorAssumption DEF SupervisorAssumption
<1>6. TypeOK'
  BY <1>1, <1>2, <1>3, <1>4, <1>5 DEF Inv, TypeOK
<1>7. Watched' /\ Leaving' /\ Counted' /\ Owned'
  BY <1>1 DEF Watched, Leaving, Counted, Owned
<1>. QED
  BY <1>6, <1>7 DEF Inv

LEMMA SendsKeeps ==
  ASSUME Inv, NEW e \in {"state", "entry", "quit", "restart"}, Sends(e)
  PROVE  Inv'
<1>1. /\ events' = Append(events, e) /\ Len(events) < MaxEvents
      /\ UNCHANGED <<proc, running, asked, announced, orphans, moved, loop, left, child, heir,
                     starts, slips>>
  BY DEF Sends, services, question
<1>2. events' \in Seq({"state", "entry", "quit", "restart"}) /\ Len(events') <= MaxEvents
  BY <1>1, SupervisorAssumption DEF Inv, TypeOK, SupervisorAssumption
<1>. QED
  BY <1>1, <1>2 DEF Inv, TypeOK, Watched, Leaving, Counted, Owned

THEOREM SupervisorInvariant == Spec => []Inv
<1>1. Init => Inv
  <2>. SUFFICES ASSUME Init PROVE Inv
    OBVIOUS
  <2>1. events \in Seq({"state", "entry", "quit", "restart"}) /\ Len(events) <= MaxEvents
    BY SupervisorAssumption DEF Init, SupervisorAssumption
  <2>2. left \in 0..Questions /\ starts \in 0..MaxStarts
    BY SupervisorAssumption DEF Init, SupervisorAssumption
  <2>3. proc \in [Service -> {"none", "alive", "dead", "reaped"}]
        /\ announced \in [Service -> 0..1]
    BY DEF Init
  <2>4. TypeOK
    BY <2>1, <2>2, <2>3 DEF Init, TypeOK
  <2>5. Watched /\ Leaving /\ Counted /\ Owned
    BY DEF Init, Watched, Leaving, Counted, Owned
  <2>. QED
    BY <2>4, <2>5 DEF Inv
<1>2. Inv /\ [Next]_vars => Inv'
  <2>. SUFFICES ASSUME Inv, [Next]_vars PROVE Inv'
    OBVIOUS
  <2>1. CASE start_all BY <2>1, StartKeeps
  <2>2. CASE EventLoop BY <2>2, EventLoopKeeps
  <2>3. CASE Dies BY <2>3, DiesKeeps
  <2>4. CASE Heartbeat BY <2>4, SendsKeeps DEF Heartbeat
  <2>5. CASE Clicks BY <2>5, SendsKeeps DEF Clicks
  <2>6. CASE \E s \in Service : ServiceEnds(s) BY <2>6, EndsKeeps
  <2>7. CASE CommandEnds
    BY <2>7 DEF CommandEnds, services, Inv, TypeOK, Watched, Leaving, Counted, Owned
  <2>8. CASE HeirEnds
    BY <2>8 DEF HeirEnds, services, Inv, TypeOK, Watched, Leaving, Counted, Owned
  <2>9. CASE UNCHANGED vars
    BY <2>9 DEF vars, services, question, Inv, TypeOK, Watched, Leaving, Counted, Owned
  <2>. QED
    BY <2>1, <2>2, <2>3, <2>4, <2>5, <2>6, <2>7, <2>8, <2>9 DEF Next
<1>. QED
  BY <1>1, <1>2, PTL DEF Spec

\* Every variable keeps its type, and nobody is told of a death twice, for any
\* services, questions and bounds.
THEOREM SupervisorTypes == Spec => []TypeOK
<1>1. Inv => TypeOK
  BY DEF Inv
<1>. QED
  BY <1>1, SupervisorInvariant, PTL

\* Unless PolterType is killed or a service cannot be asked about, no service
\* runs without a PolterType that has it in its table.
THEOREM ServicesAreOwned == Spec => []Owned
<1>1. Inv => Owned
  BY DEF Inv
<1>. QED
  BY <1>1, SupervisorInvariant, PTL
=============================================================================
