------------------------------ MODULE Supervisor ------------------------------
(***************************************************************************)
(* Plug-in processes: the services the tray starts, reaps and stops        *)
(* (plugins/supervisor/lifecycle.rs), and the questions its event loop     *)
(* asks on every heartbeat and waits for (process.rs, menu/refresh.rs).    *)
(* A plug-in is a program of somebody else: it may end at any moment, not  *)
(* answer, or leave a descendant behind that keeps its output open.        *)
(***************************************************************************)
EXTENDS Naturals, FiniteSets, Sequences

CONSTANTS
  Service,    \* extensions that have a service
  Questions,  \* state and list commands of one refresh
  MaxEvents,  \* bound: events waiting for the event loop
  MaxStarts   \* bound: times PolterType is started

ASSUME SupervisorAssumption ==
  /\ IsFiniteSet(Service)
  /\ Questions \in Nat /\ MaxEvents \in Nat /\ MaxStarts \in Nat

VARIABLES
  proc,       \* what became of each service of this run
  running,    \* Supervisor::running
  asked,      \* services told to stop
  announced,  \* how often the user was told that a service ended
  orphans,    \* history: services left to run with no owner
  moved,      \* history: services that ran while the program was replaced
  loop,       \* where the event loop is
  left,       \* questions left in this refresh
  child,      \* the command that is being asked
  heir,       \* a descendant of it keeps its output open
  events,     \* heartbeats and clicks on their way
  starts,
  slips       \* history: the known ways of going wrong this run went

services == <<proc, running, asked, announced, orphans, moved>>
question == <<left, child, heir>>
vars == <<services, loop, question, events, starts, slips>>

\* Besides the types: nobody is told of a death twice.
TypeOK ==
  /\ proc \in [Service -> {"none", "alive", "dead", "reaped"}]
  /\ running \subseteq Service /\ asked \subseteq Service
  /\ announced \in [Service -> 0..1]
  /\ orphans \subseteq Service /\ moved \subseteq Service
  /\ loop \in {"off", "idle", "refresh", "poll", "join", "apply", "grace"}
  /\ left \in 0..Questions /\ child \in {"none", "alive", "dead"} /\ heir \in BOOLEAN
  /\ events \in Seq({"state", "entry", "quit", "restart"}) /\ Len(events) <= MaxEvents
  /\ starts \in 0..MaxStarts
  /\ slips \subseteq {"crashed", "unwatched", "held"}

Init ==
  /\ proc = [s \in Service |-> "none"]
  /\ running = {} /\ asked = {} /\ announced = [s \in Service |-> 0]
  /\ orphans = {} /\ moved = {}
  /\ loop = "off" /\ left = 0 /\ child = "none" /\ heir = FALSE
  /\ events = <<>> /\ starts = 0 /\ slips = {}

Alive == {s \in Service : proc[s] = "alive"}

-----------------------------------------------------------------------------
(* The plug-ins' side, the heartbeat and the user. *)

ServiceEnds(s) ==
  /\ proc[s] = "alive"
  /\ proc' = [proc EXCEPT ![s] = "dead"]
  /\ UNCHANGED <<running, asked, announced, orphans, moved, loop, question, events, starts, slips>>

\* A command ends; a program it started may keep the pipe it was given.
CommandEnds ==
  /\ child = "alive"
  /\ child' = "dead"
  /\ heir' \in BOOLEAN
  /\ slips' = slips \cup (IF heir' THEN {"held"} ELSE {})
  /\ UNCHANGED <<services, loop, left, events, starts>>

HeirEnds ==
  /\ heir /\ heir' = FALSE
  /\ UNCHANGED <<services, loop, left, child, events, starts, slips>>

Sends(e) ==
  /\ loop # "off" /\ Len(events) < MaxEvents
  /\ events' = Append(events, e)
  /\ UNCHANGED <<services, loop, question, starts, slips>>

\* The plugin-state thread, armed when there is anything to watch: it does not
\* wait for the loop.
Heartbeat ==
  /\ Questions > 0 \/ \E s \in Service : proc[s] # "none"
  /\ Sends("state")

Clicks == \E item \in {"entry", "quit", "restart"} : Sends(item)

-----------------------------------------------------------------------------
(* The event loop. *)

start_all ==
  /\ loop = "off" /\ starts < MaxStarts
  /\ \E spawned \in SUBSET Service :
       /\ proc' = [s \in Service |-> IF s \in spawned THEN "alive" ELSE "none"]
       /\ running' = spawned
  /\ asked' = {} /\ announced' = [s \in Service |-> 0]
  /\ starts' = starts + 1 /\ loop' = "idle"
  /\ UNCHANGED <<orphans, moved, question, events, slips>>

MutReapsAgain ==
  LET gone == {s \in running : proc[s] = "dead"}
  IN /\ announced' = [s \in Service |-> IF s \in gone THEN announced[s] + 1 ELSE announced[s]]
     /\ UNCHANGED <<proc, running, orphans, slips>>

\* A service that try_wait() cannot ask about is forgotten as well, and runs on.
reap ==
  \E lost \in SUBSET {s \in running : proc[s] = "alive"} :
    LET gone == {s \in running : proc[s] = "dead"}
    IN /\ proc' = [s \in Service |-> IF s \in gone THEN "reaped" ELSE proc[s]]
       /\ running' = running \ (gone \cup lost)
       /\ announced' = [s \in Service |-> IF s \in gone \cup lost THEN announced[s] + 1
                                          ELSE announced[s]]
       /\ orphans' = orphans \cup lost
       /\ slips' = slips \cup (IF lost # {} THEN {"unwatched"} ELSE {})

\* Every event that concerns plug-ins reaps first.
Takes(e) == loop = "idle" /\ events # <<>> /\ Head(events) = e /\ events' = Tail(events)

MutReapsOnClick ==
  /\ \/ Takes("state") /\ UNCHANGED <<proc, running, announced, orphans, slips>>
     \/ Takes("entry") /\ reap
  /\ loop' = "refresh" /\ left' = Questions
  /\ UNCHANGED <<asked, moved, child, heir, starts>>

\* UserEvent::PluginState, and a menu entry of a plug-in: its command is
\* started and not waited for, then the menu is refreshed.
Refreshes ==
  /\ Takes("state") \/ Takes("entry")
  /\ reap
  /\ loop' = "refresh" /\ left' = Questions
  /\ UNCHANGED <<asked, moved, child, heir, starts>>

\* stop_all(): every service is asked, by its stop command and by the system.
Asks == asked' = asked \cup running' /\ loop' = "grace"

Quits ==
  /\ Takes("quit")
  /\ reap /\ Asks
  /\ UNCHANGED <<moved, question, starts>>

Restarts ==
  /\ Takes("restart")
  /\ reap /\ loop' = "apply"
  /\ UNCHANGED <<asked, moved, question, starts>>

\* apply_now() before stop_all(): where the swap is made in place, under the
\* running services.
Applied ==
  /\ loop = "apply"
  /\ UNCHANGED running /\ Asks
  /\ moved' \in {moved, moved \cup Alive}
  /\ UNCHANGED <<proc, announced, orphans, question, events, starts, slips>>

ApplyFails ==
  /\ loop = "apply" /\ loop' = "idle"
  /\ UNCHANGED <<services, question, events, starts, slips>>

\* After the grace period whatever is left is killed, and waited for.
MutStopsPolitely ==
  /\ loop = "grace"
  /\ proc' = [s \in Service |-> IF s \in running /\ proc[s] = "dead" THEN "reaped" ELSE proc[s]]
  /\ running' = {} /\ loop' = "off" /\ events' = <<>>
  /\ UNCHANGED <<asked, announced, orphans, moved, question, starts, slips>>

Stopped ==
  /\ loop = "grace"
  /\ proc' = [s \in Service |-> IF s \in running THEN "reaped" ELSE proc[s]]
  /\ running' = {} /\ loop' = "off" /\ events' = <<>>
  /\ UNCHANGED <<asked, announced, orphans, moved, question, starts, slips>>

-----------------------------------------------------------------------------
(* capture_output(), on the thread that draws the menu. *)

Answered ==
  /\ left' = left - 1 /\ child' = "none" /\ heir' = FALSE
  /\ loop' = "refresh"
  /\ UNCHANGED <<services, events, starts, slips>>

AskCommand ==
  /\ loop = "refresh" /\ left > 0
  /\ child' = "alive" /\ loop' = "poll"
  /\ UNCHANGED <<services, left, heir, events, starts, slips>>

CannotAsk == loop = "refresh" /\ left > 0 /\ Answered

\* try_wait() reports the end: the readers are joined, and they end when the
\* last holder of the pipe has closed it.
CommandEnded ==
  /\ loop = "poll" /\ child = "dead"
  /\ loop' = "join"
  /\ UNCHANGED <<services, question, events, starts, slips>>

Joined == loop = "join" /\ ~heir /\ Answered

\* The deadline, or a try_wait() that fails: the readers are left to themselves.
TimesOut == loop = "poll" /\ child = "alive" /\ Answered

Refreshed ==
  /\ loop = "refresh" /\ left = 0
  /\ loop' = "idle"
  /\ UNCHANGED <<services, question, events, starts, slips>>

EventLoop ==
  \/ Refreshes \/ Quits \/ Restarts \/ Applied \/ ApplyFails \/ Stopped
  \/ AskCommand \/ CannotAsk \/ CommandEnded \/ Joined \/ TimesOut \/ Refreshed

\* PolterType is killed, with the session for one: nobody stops the services,
\* and the next start starts them again.
Dies ==
  /\ loop # "off" /\ loop' = "off"
  /\ orphans' = orphans \cup Alive
  /\ proc' = [s \in Service |-> "none"] /\ running' = {}
  /\ left' = 0 /\ child' = "none" /\ heir' = FALSE /\ events' = <<>>
  /\ slips' = slips \cup {"crashed"}
  /\ UNCHANGED <<asked, announced, moved, starts>>

Next ==
  \/ start_all \/ EventLoop \/ Dies \/ Heartbeat \/ Clicks
  \/ (\E s \in Service : ServiceEnds(s)) \/ CommandEnds \/ HeirEnds

Spec == Init /\ [][Next]_vars

\* The two threads are scheduled, and deadlines pass.  Plug-ins do as they like.
FairSpec == Spec /\ WF_vars(EventLoop) /\ WF_vars(Heartbeat)

-----------------------------------------------------------------------------
(* Properties. *)

\* "A plug-in outliving the app that started it would be a keystroke-reading
\* process with no visible owner": whatever service runs is in the table of a
\* running PolterType, and a service it stops is not reported as having died --
\* unless PolterType was killed or a service could not be asked about.
Owned ==
  slips \subseteq {"held"} =>
    /\ orphans = {}
    /\ \A s \in Service : proc[s] \in {"alive", "dead"} => s \in running /\ loop # "off"
    /\ \A s \in asked : announced[s] = 0

\* "A plug-in service that dies must be noticed by the app": the user is told,
\* though no click ever comes, as long as no descendant of a command keeps the
\* event loop waiting.
DeathsAnnounced ==
  \A s \in Service :
    proc[s] = "dead" ~> announced[s] = 1 \/ s \in asked \/ slips # {}

\* "Every call into a plug-in is bounded": the menu comes back from a refresh.
CallsAreBounded == loop = "refresh" ~> loop \in {"idle", "off"}

\* "Before anything on disk is replaced": no service runs through an update.
StoppedBeforeSwap == moved = {}
===============================================================================
