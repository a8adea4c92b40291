------------------------------- MODULE KeyGate -------------------------------
(***************************************************************************)
(* The evdev key gate: hold() and release() on the engine thread, and the  *)
(* device thread that reads the keyboards, takes the grabs and drops them. *)
(*                                                                         *)
(* The two share a handful of atomics.  The three stores that ask for a    *)
(* hold are one step, and so are the three loads at the top of service():  *)
(* split, they only let a request be seen late, as Look before Ask does.   *)
(* Timeouts (the two handshakes, MAX_HOLD) are choices, and so is the end  *)
(* of the device thread's wait: the eventfd only shortens it.  A press on  *)
(* a grabbed keyboard stays in that device's buffer until the thread reads *)
(* it and never reaches the application.                                   *)
(***************************************************************************)
EXTENDS Integers, FiniteSets

CONSTANTS
  Keyboard,
  MaxHolds    \* bound: how often the engine asks for a hold

ASSUME GateAssumption ==
  /\ Keyboard # {} /\ IsFiniteSet(Keyboard)
  /\ MaxHolds \in Nat \ {0}

VARIABLES
  want, held, available,  \* atomics of EvdevGate
  epoch, verified,        \* ... and the counters (epoch starts at 1)
  expired,    \* deadline_ms has passed
  engine,     \* where the engine is in hold(), the burst, release()
  thread,     \* where the device thread is in its loop
  todo,       \* the devices its current loop has not come to
  seen,       \* what service() read at its start
  grabbed,    \* GateState.grabbed of each keyboard
  tried,      \* GateState.tried_epoch
  plugged,    \* keyboards that are there (outside the program)
  proxied,    \* an input remapper holds our emitter (outside the program)
  unread,     \* a press kept back before release() was called is in the
              \* device's buffer (no other press matters to the gate)
  lapses      \* history: the known ways of going wrong this run went

gateVars == <<want, held, available, epoch, verified, expired, engine, thread, todo,
              seen, grabbed, tried, plugged, proxied, unread, lapses>>

Lapse == {"lateGrab", "unconfirmed", "expired", "unplugged"}

\* Every variable has its type; no counter runs ahead of the epoch.
GateTypeOK ==
  /\ {want, held, available, expired, proxied} \subseteq BOOLEAN
  /\ epoch \in 1..MaxHolds + 1
  /\ verified \in 0..epoch
  /\ engine \in {"idle", "clearing", "cleared", "asking", "holding", "letting", "sweep"}
  /\ thread \in {"read", "verify", "grab", "drop", "wait"}
  /\ todo \subseteq Keyboard
  /\ seen \in [want : BOOLEAN, expired : BOOLEAN, epoch : 1..epoch]
  /\ grabbed \in [Keyboard -> BOOLEAN]
  /\ tried \in [Keyboard -> 0..epoch]
  /\ plugged \subseteq Keyboard
  /\ unread \in [Keyboard -> BOOLEAN]
  /\ lapses \subseteq Lapse

GateInit ==
  /\ want = FALSE /\ held = FALSE /\ available = TRUE
  /\ epoch = 1 /\ verified = 0 /\ expired = TRUE
  /\ engine = "idle" /\ thread = "read" /\ todo = Keyboard
  /\ seen = [want |-> FALSE, expired |-> TRUE, epoch |-> 1]
  /\ grabbed = [d \in Keyboard |-> FALSE]
  /\ tried = [d \in Keyboard |-> 0]
  /\ plugged = Keyboard
  /\ proxied = FALSE
  /\ unread = [d \in Keyboard |-> FALSE]
  /\ lapses = {}

outside == <<plugged, proxied, unread>>
threadVars == <<thread, todo, seen, grabbed, tried, verified>>

-----------------------------------------------------------------------------
(* The user, the desktop and the clock. *)

Press(d) ==
  /\ d \in plugged /\ grabbed[d] /\ engine # "letting"
  /\ unread' = [unread EXCEPT ![d] = TRUE]
  /\ UNCHANGED <<want, held, available, epoch, expired, engine, threadVars,
                 plugged, proxied, lapses>>

\* One keyboard at most is unplugged: there is always one to type on.
Unplug(d) ==
  /\ d \in plugged /\ Cardinality(plugged) > 1
  /\ plugged' = plugged \ {d}
  /\ unread' = [unread EXCEPT ![d] = FALSE]
  /\ lapses' = IF grabbed[d] THEN lapses \cup {"unplugged"} ELSE lapses
  /\ UNCHANGED <<want, held, available, epoch, expired, engine, threadVars,
                 proxied>>

\* A remapper grabs our emitter after the probe at startup.
Proxy ==
  /\ ~proxied /\ proxied' = TRUE
  /\ UNCHANGED <<want, held, available, epoch, expired, engine, threadVars,
                 plugged, unread, lapses>>

Expire ==
  /\ ~expired /\ expired' = TRUE
  /\ lapses' = IF engine \in {"asking", "holding", "letting"}
              THEN lapses \cup {"expired"} ELSE lapses
  /\ UNCHANGED <<want, held, available, epoch, engine, threadVars, outside>>

-----------------------------------------------------------------------------
(* hold() and release(), on the engine thread. *)

\* A grab left over from a previous correction is released first.
HoldFindsHeld ==
  /\ engine = "idle" /\ available /\ held
  /\ epoch <= MaxHolds
  /\ want' = FALSE
  /\ engine' = "clearing"
  /\ UNCHANGED <<held, available, epoch, expired, threadVars, outside, lapses>>

Cleared ==
  /\ engine = "clearing"
  /\ engine' = "cleared"
  /\ lapses' = IF held THEN lapses \cup {"unconfirmed"} ELSE lapses
  /\ UNCHANGED <<want, held, available, epoch, expired, threadVars, outside>>

Ask ==
  /\ engine = "cleared" \/ (engine = "idle" /\ available /\ ~held)
  /\ epoch <= MaxHolds
  /\ expired' = FALSE
  /\ epoch' = epoch + 1
  /\ want' = TRUE
  /\ engine' = "asking"
  /\ UNCHANGED <<held, available, threadVars, outside, lapses>>

HoldTaken ==
  /\ engine = "asking" /\ held
  /\ engine' = "holding"
  /\ UNCHANGED <<want, held, available, epoch, expired, threadVars, outside, lapses>>

\* The request is withdrawn, but service() may have read it already.
HoldTimesOut ==
  /\ engine = "asking"
  /\ want' = FALSE
  /\ engine' = "idle"
  /\ lapses' = IF held \/ thread \in {"verify", "grab"}
              THEN lapses \cup {"lateGrab"} ELSE lapses
  /\ UNCHANGED <<held, available, epoch, expired, threadVars, outside>>

LetGo ==
  /\ engine = "holding"
  /\ want' = FALSE
  /\ engine' = "letting"
  /\ UNCHANGED <<held, available, epoch, expired, threadVars, outside, lapses>>

\* Mutant: release() does not wait for the device thread.
MutReleased ==
  /\ engine = "letting"
  /\ engine' = "sweep"
  /\ UNCHANGED <<want, held, available, epoch, expired, threadVars, outside, lapses>>

Released ==
  /\ engine = "letting" /\ ~held
  /\ engine' = "sweep"
  /\ UNCHANGED <<want, held, available, epoch, expired, threadVars, outside, lapses>>

ReleaseTimesOut ==
  /\ engine = "letting" /\ held
  /\ engine' = "sweep"
  /\ lapses' = lapses \cup {"unconfirmed"}
  /\ UNCHANGED <<want, held, available, epoch, expired, threadVars, outside>>

\* The engine drains what the thread has read and types it out; a key it
\* reads later counts as one the application got.
Sweep ==
  /\ engine = "sweep"
  /\ engine' = "idle"
  /\ UNCHANGED <<want, held, available, epoch, expired, threadVars, outside, lapses>>

-----------------------------------------------------------------------------
(* The loop of the device thread: read every device, service(), wait. *)

engineVars == <<engine, epoch, expired>>

\* A device that is gone is dropped from the list, its grab with it.
ReadDevice(d) ==
  /\ thread = "read" /\ d \in todo
  /\ todo' = todo \ {d}
  /\ unread' = [unread EXCEPT ![d] = FALSE]
  /\ grabbed' = [grabbed EXCEPT ![d] = @ /\ d \in plugged]
  /\ UNCHANGED <<want, held, available, engineVars, thread, seen, tried, verified,
                 plugged, proxied, lapses>>

\* Mutant: the watchdog is missing.
MutLook ==
  /\ thread = "read" /\ todo = {}
  /\ seen' = [want |-> want, expired |-> expired, epoch |-> epoch]
  /\ thread' = IF seen'.want THEN "verify" ELSE "drop"
  /\ todo' = Keyboard
  /\ UNCHANGED <<want, held, available, engineVars, grabbed, tried, verified, outside, lapses>>

Look ==
  /\ thread = "read" /\ todo = {}
  /\ seen' = [want |-> want /\ ~expired, expired |-> expired, epoch |-> epoch]
  /\ thread' = IF seen'.want THEN "verify" ELSE "drop"
  /\ todo' = Keyboard
  /\ UNCHANGED <<want, held, available, engineVars, grabbed, tried, verified, outside, lapses>>

\* Mutant: the epoch is taken for the next one.
MutVerify ==
  /\ thread = "verify"
  /\ verified' = seen.epoch + 1
  /\ thread' = "grab"
  /\ UNCHANGED <<want, held, available, engineVars, todo, seen, grabbed, tried, outside,
                 lapses>>

\* Once per hold: is our own emitter still ours?  If not the gate is off.
Verify ==
  /\ thread = "verify"
  /\ verified' = seen.epoch
  /\ IF verified # seen.epoch /\ proxied
     THEN /\ available' = FALSE /\ want' = FALSE /\ held' = FALSE
          /\ thread' = "wait"
     ELSE /\ thread' = "grab"
          /\ UNCHANGED <<available, want, held>>
  /\ UNCHANGED <<engineVars, todo, seen, grabbed, tried, outside, lapses>>

\* A keyboard is grabbed, cannot be, or has not been used lately.
GrabDevice(d) ==
  /\ thread = "grab" /\ d \in todo
  /\ todo' = todo \ {d}
  /\ \/ UNCHANGED <<grabbed, tried>>
     \/ /\ ~grabbed[d] /\ tried[d] # seen.epoch
        /\ tried' = [tried EXCEPT ![d] = seen.epoch]
        /\ grabbed' \in {grabbed, [grabbed EXCEPT ![d] = d \in plugged]}
  /\ UNCHANGED <<want, held, available, engineVars, thread, seen, verified, outside, lapses>>

\* Mutant: the hold is announced whatever could be grabbed.
MutTell ==
  /\ thread = "grab" /\ todo = {}
  /\ held' = TRUE
  /\ thread' = "wait"
  /\ UNCHANGED <<want, available, engineVars, todo, seen, grabbed, tried, verified,
                 outside, lapses>>

Tell ==
  /\ thread = "grab" /\ todo = {}
  /\ held' = (\E d \in Keyboard : grabbed[d])
  /\ want' = (want /\ held')
  /\ thread' = "wait"
  /\ UNCHANGED <<available, engineVars, todo, seen, grabbed, tried, verified, outside, lapses>>

\* The grabs are dropped one by one; only then is held cleared -- if there
\* was one to drop.
DropDevice(d) ==
  /\ thread = "drop" /\ d \in todo /\ grabbed[d]
  /\ grabbed' = [grabbed EXCEPT ![d] = FALSE]
  /\ todo' = todo \ {d}
  /\ UNCHANGED <<want, held, available, engineVars, thread, seen, tried, verified,
                 outside, lapses>>

Dropped ==
  /\ thread = "drop" /\ \A d \in todo : ~grabbed[d]
  /\ held' = (held /\ todo = Keyboard)
  /\ want' = (want /\ ~seen.expired)
  /\ thread' = "wait"
  /\ UNCHANGED <<available, engineVars, todo, seen, grabbed, tried, verified, outside, lapses>>

Wait ==
  /\ thread = "wait"
  /\ thread' = "read" /\ todo' = Keyboard
  /\ UNCHANGED <<want, held, available, engineVars, seen, grabbed, tried, verified,
                 outside, lapses>>

-----------------------------------------------------------------------------
DeviceThread ==
  \/ \E d \in Keyboard : ReadDevice(d) \/ GrabDevice(d) \/ DropDevice(d)
  \/ Look \/ Verify \/ Tell \/ Dropped \/ Wait

GateNext ==
  \/ \E d \in Keyboard : Press(d)
  \/ \E d \in Keyboard : Unplug(d)
  \/ Proxy
  \/ Expire
  \/ HoldFindsHeld \/ Cleared \/ Ask \/ HoldTaken \/ HoldTimesOut
  \/ LetGo \/ Released \/ ReleaseTimesOut \/ Sweep
  \/ DeviceThread

GateSpec == GateInit /\ [][GateNext]_gateVars

\* The device thread runs and time passes; the engine may hang anywhere.
GateFairSpec == GateSpec /\ WF_gateVars(DeviceThread) /\ WF_gateVars(Expire)

-----------------------------------------------------------------------------
(* Properties. *)

\* hold() returning true means the user's keys are kept back until release()
\* or the watchdog: some keyboard in use is grabbed.
HoldIsReal == engine = "holding" /\ lapses = {} => \E d \in Keyboard : grabbed[d]

\* When the engine is through with the gate no keyboard is kept from the
\* application and the next hold() starts afresh, and a gate that was turned
\* off does not keep one either.
FreeMeansFree ==
  (engine = "idle" \/ ~available) /\ lapses = {}
    => ~held /\ \A d \in Keyboard : ~grabbed[d]

\* Whatever the engine does, hanging in the middle of a burst included, no
\* grab lasts: the device thread drops it.
GrabsEnd == \A d \in Keyboard : grabbed[d] ~> ~grabbed[d]

\* "Everything read off the key stream before this returns was held back and
\* must be typed out": when the engine sweeps the stream after release(), no
\* key kept back before it is still in a device's buffer.
HeldKeysAreRead ==
  engine = "sweep" /\ lapses = {} => \A d \in Keyboard : ~unread[d]
=============================================================================
