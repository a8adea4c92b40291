------------------------------ MODULE EchoQueue ------------------------------
(***************************************************************************)
(* How the engine tells its own keystrokes from the user's.  On a direct   *)
(* stack the listener tags them; behind an input remapper (and on X11, a   *)
(* remapper that loses nothing) they come back like anybody's, and the     *)
(* engine matches them with a queue of what it sent.                       *)
(*                                                                         *)
(* Emitter, user, remapper and engine take steps of their own: a press of  *)
(* the user may come between any two of ours, the remapper may drop one of *)
(* ours.  Only presses are modelled: push_echoes() leaves releases out of  *)
(* the queue and consume_echo() lets them pass.  A deadline is a flag that *)
(* turns, the oldest entries first, 800 ms being a choice of when.         *)
(***************************************************************************)
EXTENDS Integers, Sequences, FiniteSets

CONSTANTS
  Key,         \* scancodes
  Capacity,    \* entries the queue holds (256 in the code)
  MaxSent,     \* bound: presses the emitter sends
  MaxPresses,  \* bound: presses of the user
  MaxLost      \* bound: events the remapper drops

ASSUME EchoAssumption ==
  /\ Capacity \in Nat \ {0}
  /\ MaxSent \in Nat /\ MaxPresses \in Nat /\ MaxLost \in Nat

VARIABLES
  proxied,    \* a remapper (or X11) hands our events back untagged
  available,  \* key_gate.available()
  wire,       \* presses between the devices and the engine
  log,        \* the emitter's `emitted'
  expected,   \* expected_echo
  pc,         \* the engine: in the run loop, sending, or settling after it
  sent, presses,  \* bounds: what the emitter and the user have pressed
  matched,    \* history: our presses that found an entry
  passed,     \* ... those that came tagged and found none: dropped all the same
  leaked,     \* ... those that were taken for the user's
  lost,       \* ... those the remapper dropped
  eaten,      \* presses of the user that were taken for ours
  slips       \* history: the known ways of going wrong this run went

engine == <<log, expected, pc>>
tallies == <<matched, passed, leaked, eaten>>
vars == <<proxied, available, wire, engine, sent, presses, tallies, lost, slips>>

Press == [sc : Key, ours : BOOLEAN, injected : BOOLEAN]
Entry == [sc : Key, fresh : BOOLEAN]

\* Every index is in bounds, the queue is never longer than it may be.
TypeOK ==
  /\ proxied \in BOOLEAN /\ available \in BOOLEAN
  /\ wire \in Seq(Press)
  /\ log \in Seq(Key)
  /\ expected \in Seq(Entry) /\ Len(expected) <= Capacity
  /\ pc \in {"run", "send", "settle"}
  /\ sent \in Nat /\ presses \in Nat
  /\ matched \in Nat /\ passed \in Nat /\ leaked \in Nat
  /\ lost \in Nat /\ eaten \in Nat
  /\ slips \subseteq {"late", "full", "chord", "hurried", "unsettled", "grabbed"}

\* The gate is probed when the listener starts: it runs where nothing
\* proxies the emitter.
Init ==
  /\ proxied \in BOOLEAN /\ available = ~proxied
  /\ wire = <<>> /\ log = <<>> /\ expected = <<>> /\ pc = "run"
  /\ sent = 0 /\ presses = 0
  /\ matched = 0 /\ passed = 0 /\ leaked = 0 /\ lost = 0 /\ eaten = 0
  /\ slips = {}

Ours == {i \in 1..Len(wire) : wire[i].ours}
Flying == Cardinality(Ours)

-----------------------------------------------------------------------------
(* What happens around the engine *)

UserPresses(k) ==
  /\ presses < MaxPresses
  /\ presses' = presses + 1
  /\ wire' = Append(wire, [sc |-> k, ours |-> FALSE, injected |-> FALSE])
  /\ UNCHANGED <<proxied, available, engine, sent, tallies, lost, slips>>

Without(s, i) == [j \in 1..Len(s) - 1 |-> IF j < i THEN s[j] ELSE s[j + 1]]

RemapperDrops(i) ==
  /\ proxied /\ lost < MaxLost /\ wire[i].ours /\ ~wire[i].injected
  /\ wire' = Without(wire, i)
  /\ lost' = lost + 1
  /\ UNCHANGED <<proxied, available, engine, sent, presses, tallies, slips>>

\* A remapper started after us takes our emitter; the gate finds out when
\* it next tries to hold the keyboard.
RemapperStarts ==
  /\ ~proxied
  /\ proxied' = TRUE
  /\ UNCHANGED <<available, wire, engine, sent, presses, tallies, lost, slips>>

GateRechecks ==
  /\ proxied /\ available
  /\ available' = FALSE
  /\ UNCHANGED <<proxied, wire, engine, sent, presses, tallies, lost, slips>>

\* Entries of one push share a deadline, and later pushes have later ones.
DeadlinePasses(n) ==
  /\ expected[n].fresh
  /\ expected' = [i \in 1..Len(expected) |->
                    IF i <= n THEN [expected[i] EXCEPT !.fresh = FALSE] ELSE expected[i]]
  /\ slips' = slips \cup (IF Ours # {} THEN {"late"} ELSE {})
  /\ UNCHANGED <<proxied, available, wire, log, pc, sent, presses, tallies, lost>>

-----------------------------------------------------------------------------
(* The engine sends: a correction, a replay or a smart command *)

StartSending ==
  /\ pc = "run" /\ sent < MaxSent
  /\ pc' = "send"
  /\ UNCHANGED <<proxied, available, wire, log, expected, sent, presses, tallies, lost, slips>>

\* emit_one(): recorded only once it is out.
emit_one(k) ==
  /\ pc = "send" /\ sent < MaxSent
  /\ sent' = sent + 1
  /\ wire' = Append(wire, [sc |-> k, ours |-> TRUE, injected |-> ~proxied])
  /\ log' = Append(log, k)
  /\ UNCHANGED <<proxied, available, expected, pc, presses, tallies, lost, slips>>

Recorded(keys) == [i \in 1..Len(keys) |-> [sc |-> keys[i], fresh |-> TRUE]]

\* A bug: one too many.
MutKept(q) == IF Len(q) > Capacity THEN SubSeq(q, Len(q) - Capacity, Len(q)) ELSE q

\* The oldest go when the queue is full.
Kept(q) == IF Len(q) > Capacity THEN SubSeq(q, Len(q) - Capacity + 1, Len(q)) ELSE q

\* A bug: take_emitted() that copies the log.
Mutpush_echoes(next) ==
  /\ pc = "send"
  /\ pc' = next
  /\ expected' = Kept(expected \o Recorded(log))
  /\ UNCHANGED <<proxied, available, wire, log, sent, presses, tallies, lost, slips>>

\* After every call of the emitter, whether it failed or not.  apply_correction()
\* goes on to the next one, settles at its end, or is done (a chord of the
\* desktop, a smart command, an early return).
push_echoes(next) ==
  /\ pc = "send"
  /\ pc' = next
  /\ log' = <<>>
  /\ expected' = Kept(expected \o Recorded(log))
  /\ slips' = slips \cup (IF next = "run" THEN {"unsettled"} ELSE {})
                    \cup (IF Len(expected) + Len(log) > Capacity THEN {"full"} ELSE {})
  /\ UNCHANGED <<proxied, available, wire, sent, presses, tallies, lost>>

\* A chord that cannot be sent to its end leaves what did go out in the
\* emitter's log, for the next push to find.
ChordFails ==
  /\ pc = "send" /\ log # <<>>
  /\ pc' = "run"
  /\ slips' = slips \cup {"chord"}
  /\ UNCHANGED <<proxied, available, wire, log, expected, sent, presses, tallies, lost>>

\* A bug: waits for the channel, not for the queue.
MutSettled ==
  /\ pc = "settle" /\ wire = <<>>
  /\ pc' = "run"
  /\ UNCHANGED <<proxied, available, wire, log, expected, sent, presses, tallies, lost, slips>>

\* apply_correction() waits its own echoes out, for 400 ms at most.
Settled ==
  /\ pc = "settle"
  /\ pc' = "run"
  /\ slips' = slips \cup (IF expected # <<>> THEN {"hurried"} ELSE {})
  /\ UNCHANGED <<proxied, available, wire, log, expected, sent, presses, tallies, lost>>

-----------------------------------------------------------------------------
(* The engine reads: the run loop, and drain_correction_window() *)

\* The entries in front whose deadline has passed.
Stale(q) == Cardinality({n \in 1..Len(q) : \A i \in 1..n : ~q[i].fresh})

\* A bug: no lookahead.
MutTakes(q, sc) == IF q # <<>> /\ q[1].sc = sc THEN 1 ELSE 0

\* How many entries of q a press of sc takes with it: none when it is not
\* an echo, two when the head's echo must have been lost.
Takes(q, sc) ==
  IF q # <<>> /\ q[1].sc = sc THEN 1
  ELSE IF Len(q) >= 2 /\ q[2].sc = sc THEN 2 ELSE 0

Drop(q, n) == SubSeq(q, n + 1, Len(q))

\* An untagged press where ours are tagged is the user's.
Exempt(ev) == available /\ ~ev.injected

Live == Drop(expected, Stale(expected))

consume_echo(ev) == ~Exempt(ev) /\ Takes(Live, ev.sc) > 0

Reads ==
  LET ev == Head(wire) IN
  /\ pc # "send" /\ wire # <<>>
  /\ wire' = Tail(wire)
  /\ expected' = IF Exempt(ev) THEN expected ELSE Drop(Live, Takes(Live, ev.sc))
  /\ matched' = matched + (IF ev.ours /\ consume_echo(ev) THEN 1 ELSE 0)
  /\ eaten' = eaten + (IF ~ev.ours /\ consume_echo(ev) THEN 1 ELSE 0)
  /\ passed' = passed + (IF ev.ours /\ ~consume_echo(ev) /\ ev.injected THEN 1 ELSE 0)
  /\ leaked' = leaked + (IF ev.ours /\ ~consume_echo(ev) /\ ~ev.injected THEN 1 ELSE 0)
  /\ slips' = slips \cup (IF ev.ours /\ Exempt(ev) THEN {"grabbed"} ELSE {})
  /\ UNCHANGED <<proxied, available, log, pc, sent, presses, lost>>

-----------------------------------------------------------------------------
Next ==
  \/ \E k \in Key : UserPresses(k) \/ emit_one(k)
  \/ \E i \in 1..Len(wire) : RemapperDrops(i)
  \/ RemapperStarts \/ GateRechecks
  \/ \E n \in 1..Len(expected) : DeadlinePasses(n)
  \/ StartSending \/ \E next \in {"run", "send", "settle"} : push_echoes(next)
  \/ ChordFails \/ Settled
  \/ Reads

Spec == Init /\ [][Next]_vars

-----------------------------------------------------------------------------
(* Properties *)

\* Every entry that still waits, and every press of the user's that was
\* taken for an echo, stands for an echo that has not found its entry: it
\* is on its way, was lost, or was read without a match.  So the queue
\* cannot swallow more of the user's typing than went astray of ours
\* (push_echoes(), consume_echo()).
EntriesAreOwed ==
  Len(expected) + Len(log) + eaten <= Flying + lost + passed + leaked

\* One event dropped by the remapper is healed by the lookahead: as long as
\* no press of the user has hit an entry, none of our own is read as typing
\* (consume_echo()).  A second loss, a press of the user that equals the
\* head or the entry behind it, and the slips may leak.
EchoesSwallowed ==
  lost <= 1 /\ eaten = 0 /\ slips \subseteq {"hurried", "unsettled"} => leaked = 0

\* Whatever was lost, the word typed after a correction is read in full:
\* only a settle that ran into its deadline, a sender that does not settle
\* or a chord that broke off leaves an entry for the run loop to match
\* (the settle loop of apply_correction()).
NextWordIsRead ==
  [][pc = "run" /\ slips \cap {"hurried", "unsettled", "chord"} = {} => eaten' = eaten]_vars
=============================================================================
