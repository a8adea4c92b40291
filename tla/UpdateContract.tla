---------------------------- MODULE UpdateContract ----------------------------
(***************************************************************************)
(* What the updater promises, without threads, files or scripts: a version *)
(* is put on the machine only if it was downloaded and verified, is newer  *)
(* than the process that asked, and the user asked for it; what starts is  *)
(* what is there.                                                          *)
(***************************************************************************)
EXTENDS Integers

CONSTANTS Release, FirstVersion

VARIABLES
  have,     \* releases verified and waiting
  asked,    \* releases the user has said to install
  present,  \* the version on the machine, 0 when it is lost
  torn,     \* ... is not in its place: nothing can start
  running   \* the version that runs, 0 when none does

vars == <<have, asked, present, torn, running>>

Init == have = {} /\ asked = {} /\ present = FirstVersion /\ torn = FALSE /\ running = 0

Fetch(v) ==
  /\ running # 0 /\ v > running
  /\ have' = have \cup {v}
  /\ UNCHANGED <<asked, present, torn, running>>

Drop == have' \subseteq have /\ UNCHANGED <<asked, present, torn, running>>

Ask(v) ==
  /\ running # 0 /\ v > running
  /\ asked' = asked \cup {v}
  /\ UNCHANGED <<have, present, torn, running>>

Withdraw == asked' \subseteq asked /\ UNCHANGED <<have, present, torn, running>>

Install(v) ==
  /\ v \in have \cap asked
  /\ present' = v /\ torn' = FALSE
  /\ have' \subseteq have /\ asked' \subseteq asked
  /\ UNCHANGED running

\* The version is taken from its place, and put back.
Interrupt ==
  /\ asked # {} /\ ~torn
  /\ torn' = TRUE
  /\ UNCHANGED <<have, asked, present, running>>

Mend ==
  /\ torn /\ present # 0
  /\ torn' = FALSE
  /\ asked' \subseteq asked
  /\ UNCHANGED <<have, present, running>>

\* Only an install over one that was broken off can cost what is there.
Lose ==
  /\ asked # {} /\ torn
  /\ present' = 0
  /\ asked' \subseteq asked
  /\ UNCHANGED <<have, torn, running>>

StartUp ==
  /\ running = 0 /\ ~torn
  /\ running' = present
  /\ have' \subseteq have
  /\ UNCHANGED <<asked, present, torn>>

Stop ==
  /\ running' = 0
  /\ asked' \subseteq asked
  /\ UNCHANGED <<have, present, torn>>

Next ==
  \/ \E v \in Release : Fetch(v) \/ Ask(v) \/ Install(v)
  \/ Drop \/ Withdraw \/ Interrupt \/ Mend \/ Lose \/ StartUp \/ Stop

Spec == Init /\ [][Next]_vars
=============================================================================
