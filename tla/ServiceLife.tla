---------------------------- MODULE ServiceLife ----------------------------
(* Who drives the queue: the start of the process and the load of the stored *)
(* queue (AppContainer.ensureLoaded), the start commands of                  *)
(* QueueRepository.ensureService, and the life, the tick loop, the idle stop *)
(* and the locks of DownloadService.                                         *)
(*                                                                           *)
(* The main thread runs onCreate, onStartCommand and the loop between two    *)
(* suspension points; verbs and workers change the queue beside it.  Android *)
(* creates a service for a start command, delivers commands one by one, and  *)
(* honours stopSelf(id) only if no later command has been given.             *)
(*                                                                           *)
(* Abstractions: a link is waiting (a tick may start it), active, off        *)
(* (paused, disabled or not to be started by itself) or over; the snapshot   *)
(* is the queue, since every verb publishes before it returns; packages are  *)
(* one package; the notification is left out.                                *)
EXTENDS Naturals, FiniteSets, FiniteSetsExt

CONSTANTS
  Links,            \* what may be queued
  MaxActive,        \* the scheduler's cap
  IdleTicks,        \* IDLE_TICKS_BEFORE_STOP
  MaxStarts,        \* bound on undelivered start commands (more are one more)
  Silent            \* the links setEnabled and setAutostart are used on

ASSUME ServiceAssumption ==
  /\ IsFiniteSet(Links) /\ {MaxActive, IdleTicks, MaxStarts} \subseteq Nat \ {0}
  /\ Silent \subseteq Links

VARIABLES
  up,         \* the process lives
  front,      \* the app is in the foreground
  row,        \* state of each link in the store
  item,       \* state of each link in memory
  listed,     \* how often each link is in the scheduler's items
  pkgListed,  \* how often the package is in its pkgs
  loaded,     \* AppContainer.loaded, and how far the load is
  service,    \* a DownloadService exists
  loop,       \* where its tick loop stands
  idleTicks,  \* DownloadService.idleTicks
  pending,    \* start commands not yet delivered
  owed,       \* a verb has still to call ensureService
  swallowed,  \* history: the start of the service after the load was refused
  locks       \* wake and Wi-Fi lock are held

queue == <<row, item, listed, pkgListed>>
svc == <<service, loop, idleTicks, locks>>
vars == <<up, front, queue, loaded, svc, pending, owed, swallowed>>

\* The loop is off, runs scheduler.tick(), looks at the snapshot, looks again,
\* or calls stopSelf.
Stages == {"off", "tick", "look", "recheck", "stop"}
MainBusy == loop \in {"recheck", "stop"}

Listed == {l \in Links : listed[l] > 0}
Active == {l \in Listed : item[l] = "active"}
Waiting == {l \in Listed : item[l] = "waiting"}
HasWork == Active \cup Waiting # {}

Fresh ==
  /\ item' = [l \in Links |-> "none"] /\ listed' = [l \in Links |-> 0] /\ pkgListed' = 0
  /\ service' = FALSE /\ loop' = "off" /\ idleTicks' = 0 /\ locks' = FALSE /\ owed' = FALSE
  /\ swallowed' = FALSE

Init ==
  /\ up = FALSE /\ front = FALSE
  /\ row \in [Links -> {"none", "waiting", "off"}]
  /\ item = [l \in Links |-> "none"] /\ listed = [l \in Links |-> 0] /\ pkgListed = 0
  /\ loaded = "no" /\ service = FALSE /\ loop = "off" /\ idleTicks = 0
  /\ pending = 0 /\ owed = FALSE /\ locks = FALSE /\ swallowed = FALSE

---------------------------------------------------------------------------
(* The process and its load *)

\* compareAndSet(false, true): one caller claims the load.
Claim == IF loaded = "no" THEN "loading" ELSE loaded

\* By the user, or by the system: for the weekly worker, or to restart a
\* sticky service.  DlmApplication.onCreate calls ensureLoaded.
Launch(foreground) ==
  /\ ~up
  /\ up' = TRUE /\ front' = foreground /\ loaded' = "loading"
  /\ UNCHANGED <<queue, svc, pending, owed, swallowed>>

OpenApp ==
  /\ up /\ ~front /\ front' = TRUE
  /\ UNCHANGED <<up, queue, loaded, svc, pending, owed, swallowed>>
CloseApp ==
  /\ up /\ front /\ front' = FALSE
  /\ UNCHANGED <<up, queue, loaded, svc, pending, owed, swallowed>>

\* load appends to whatever the lists hold.
Load ==
  /\ loaded = "loading"
  /\ loaded' = "resuming"
  /\ pkgListed' = pkgListed + 1
  /\ listed' = [l \in Links |-> IF row[l] = "none" THEN 0 ELSE listed[l] + 1]
  /\ item' = [l \in Links |-> IF l \in Listed THEN item[l] ELSE row[l]]
  /\ UNCHANGED <<up, front, row, svc, pending, owed, swallowed>>

\* loadAll throws when the packages are already in (bound: one failed load of a
\* process, so the next may be seen to succeed).
LoadFails ==
  /\ loaded = "loading" /\ pkgListed = 0
  /\ loaded' = "no" /\ pkgListed' = pkgListed + 1
  /\ UNCHANGED <<up, front, row, item, listed, svc, pending, owed, swallowed>>

MayStart == front \/ service \/ pending > 0
OneMore == Min({pending + 1, MaxStarts})

\* Work that was restored gets a service; a refusal, which some versions of
\* Android give an app in the background, is swallowed.
ResumeLoaded ==
  /\ loaded = "resuming" /\ loaded' = "yes"
  /\ \E refused \in {FALSE, ~MayStart} :
       /\ pending' = IF HasWork /\ ~refused THEN OneMore ELSE pending
       /\ swallowed' = (HasWork /\ refused)
  /\ UNCHANGED <<up, front, queue, svc, owed>>

\* The store queues again what was active; a sticky service is to be restarted.
Crash ==
  /\ up
  /\ up' = FALSE /\ front' = FALSE /\ loaded' = "no" /\ Fresh
  /\ pending' = IF service THEN 1 ELSE 0
  /\ UNCHANGED row

---------------------------------------------------------------------------
(* The verbs of QueueRepository *)

\* The first verb of a screen comes after the load that the process began with
\* has ended, well or not.
CanAct == up /\ front /\ loaded \in {"no", "yes"}

Put(l, state) ==
  /\ item' = [item EXCEPT ![l] = state]
  /\ row' = [row EXCEPT ![l] = IF state = "active" THEN "waiting" ELSE state]

\* addDirect, confirm with start, resume, force, setMaxActive and
\* setGlobalAutostart publish work and go on to call ensureService.
Queue(l) ==
  /\ CanAct /\ (row[l] = "none" \/ item[l] \in {"off", "over"})
  /\ Put(l, "waiting") /\ owed' = TRUE
  /\ listed' = [listed EXCEPT ![l] = Max({@, 1})]
  /\ UNCHANGED <<up, front, pkgListed, loaded, svc, pending, swallowed>>

\* setEnabled, setAutostart: no call follows.
Enable(l) ==
  /\ l \in Silent /\ CanAct /\ item[l] = "off"
  /\ Put(l, "waiting")
  /\ UNCHANGED <<up, front, listed, pkgListed, loaded, svc, pending, owed, swallowed>>

\* pause, setEnabled(false) and so on.
TurnOff(l) ==
  /\ CanAct /\ l \in Waiting
  /\ Put(l, "off")
  /\ UNCHANGED <<up, front, listed, pkgListed, loaded, svc, pending, owed, swallowed>>

EnsureService ==
  /\ owed /\ owed' = FALSE
  /\ pending' = OneMore
  /\ swallowed' = FALSE
  /\ UNCHANGED <<up, front, queue, loaded, svc>>

\* The app has gone to the background before the call: startForegroundService
\* throws, in a coroutine with no handler.
EnsureServiceRefused ==
  /\ owed /\ ~MayStart
  /\ up' = FALSE /\ front' = FALSE /\ loaded' = "no" /\ pending' = 0 /\ Fresh
  /\ UNCHANGED row

WorkerEnds(l) ==
  /\ l \in Active
  /\ \E state \in {"over", "off", "waiting"} : Put(l, state)
  /\ UNCHANGED <<up, front, listed, pkgListed, loaded, svc, pending, owed, swallowed>>

---------------------------------------------------------------------------
(* The service *)

Create ==
  /\ up /\ ~service /\ pending > 0
  /\ service' = TRUE /\ loop' = "tick" /\ idleTicks' = 0
  /\ loaded' = Claim
  /\ swallowed' = FALSE
  /\ UNCHANGED <<up, front, queue, locks, pending, owed>>

\* startTickLoop: a loop that runs is left alone.
LoopRevived == IF loop = "off" THEN "tick" ELSE loop

OnStartCommand ==
  /\ service /\ pending > 0 /\ ~MainBusy
  /\ pending' = pending - 1
  /\ loop' = LoopRevived
  /\ UNCHANGED <<up, front, queue, loaded, service, idleTicks, locks, owed, swallowed>>

FreeSlotsButOne == Max({MaxActive - Cardinality(Active) - 1, 0})
FreeSlots == MaxActive - Cardinality(Active)

\* scheduler.tick(): free slots are filled from the waiting links.
Tick ==
  /\ loop = "tick" /\ loop' = "look"
  /\ \E S \in SUBSET Waiting :
       /\ Cardinality(S) = Min({Cardinality(Waiting), FreeSlots})
       /\ item' = [l \in Links |-> IF l \in S THEN "active" ELSE item[l]]
  /\ UNCHANGED <<up, front, row, listed, pkgListed, loaded, service, idleTicks, locks, pending, owed, swallowed>>

LocksKept == locks \/ Active # {}
LocksFor == Active # {}

IdleForgotten == 0
IdleCounted == Min({idleTicks + 1, IdleTicks})

\* updateLocks, and the count of idle ticks.
Look ==
  /\ loop = "look"
  /\ locks' = LocksFor
  /\ idleTicks' = IF HasWork THEN 0 ELSE IdleCounted
  /\ loop' = IF idleTicks' = IdleTicks THEN "recheck" ELSE "tick"
  /\ UNCHANGED <<up, front, queue, loaded, service, pending, owed, swallowed>>

Recheck ==
  /\ loop = "recheck"
  /\ loop' = IF HasWork THEN "tick" ELSE "stop"
  /\ idleTicks' = IF HasWork THEN 0 ELSE idleTicks
  /\ UNCHANGED <<up, front, queue, loaded, service, locks, pending, owed, swallowed>>

\* stopSelf(lastStartId) against a bare stopSelf.
StopAnyway == TRUE
NoLaterStart == pending = 0

\* The loop ends; unless a start command is on its way so does the service.
StopSelf ==
  /\ loop = "stop" /\ loop' = "off"
  /\ IF NoLaterStart
     THEN service' = FALSE /\ locks' = FALSE /\ idleTicks' = 0 /\ pending' = 0
     ELSE UNCHANGED <<service, locks, idleTicks, pending>>
  /\ UNCHANGED <<up, front, queue, loaded, owed, swallowed>>

---------------------------------------------------------------------------
Service == Create \/ OnStartCommand \/ Tick \/ Look \/ Recheck \/ StopSelf

Next ==
  \/ \E foreground \in BOOLEAN : Launch(foreground)
  \/ OpenApp \/ CloseApp \/ Load \/ LoadFails \/ ResumeLoaded \/ Crash
  \/ \E l \in Links : Queue(l) \/ Enable(l) \/ TurnOff(l) \/ WorkerEnds(l)
  \/ EnsureService \/ EnsureServiceRefused
  \/ Service

Spec == Init /\ [][Next]_vars

\* Coroutines and the main thread run on, and Android delivers what it owes.
\* Nothing is assumed of users, transfers or crashes.
FairSpec ==
  /\ Spec
  /\ WF_vars(Load) /\ WF_vars(ResumeLoaded) /\ WF_vars(EnsureService \/ EnsureServiceRefused)
  /\ WF_vars(Create) /\ SF_vars(OnStartCommand)
  /\ WF_vars(Tick) /\ WF_vars(Look \/ Recheck \/ StopSelf)

---------------------------------------------------------------------------
(* Properties *)

\* Every variable has its type; what belongs to a service or a process goes
\* with it; only a load that failed lists anything a second time.  Checked as
\* part of WorkHasService.
TypeOK ==
  /\ {up, front, service, owed, swallowed, locks} \subseteq BOOLEAN
  /\ row \in [Links -> {"none", "waiting", "off", "over"}]
  /\ item \in [Links -> {"none", "waiting", "active", "off", "over"}]
  /\ listed \in [Links -> 0..2] /\ pkgListed \in 0..2
  /\ loaded \in {"no", "loading", "resuming", "yes"}
  /\ loop \in Stages /\ idleTicks \in 0..IdleTicks /\ pending \in 0..MaxStarts
  /\ (loop # "off" => service) /\ (service \/ front => up)

\* "Started when work is queued" (Architecture.md:62): work that a restored or
\* edited queue holds has a running loop, or a start command on its way to one,
\* however the idle stop races with the command.  Excepted are the links of the
\* verbs that start nothing, and a queue whose start was refused after its load
\* ("failing to resume now is fine", AppContainer.kt:93).
WorkHasService ==
  /\ TypeOK
  /\ loaded = "yes" /\ (Active \cup Waiting) \ Silent # {} =>
       loop # "off" \/ pending > 0 \/ owed \/ swallowed

\* The locks are held by a service whose loop will release them
\* (DownloadService.kt:106-109).
LocksOwned == locks => service /\ loop # "off"

\* Work is driven: it starts, or is withdrawn; with the same exceptions.
WorkIsDriven ==
  Waiting \ Silent # {} ~> (Active # {} \/ Waiting \ Silent = {} \/ swallowed)

\* A service with nothing to do stops (Architecture.md:65).
IdleStops == <>[](~HasWork /\ pending = 0 /\ ~owed) => <>[](~service)
=============================================================================
