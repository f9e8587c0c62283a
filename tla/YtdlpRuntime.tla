---------------------------- MODULE YtdlpRuntime ----------------------------
(* The yt-dlp runtime of app/.../ytdlp/YtdlpManager.kt: its one-time         *)
(* unpacking, its self-update, the calls that use it, and the watcher that   *)
(* kills a cancelled download's process.                                     *)
(*                                                                           *)
(* A caller is a coroutine that makes one call at a time; between two        *)
(* suspension points it runs alone.  Each Kotlin Mutex is its holder, or the *)
(* atomic step of the short section it guards (rwGate).                      *)
(*                                                                           *)
(* Abstractions: what yt-dlp prints, error texts and the status list are     *)
(* left out; the week of updateDue is a step that may come at any time.      *)
EXTENDS Integers, FiniteSets

CONSTANTS
  Resolves,    \* callers of resolve
  Downloads,   \* callers of download
  Prepares,    \* callers of ensureReady (Settings, "Set up now")
  Checks,      \* callers of checkForUpdate (YtdlpUpdateWorker)
  Background,  \* the coroutine of maybeUpdateInBackground
  Nobody       \* holder of a free mutex

Callers == Resolves \cup Downloads \cup Prepares \cup Checks
Readers == Resolves \cup Downloads
Procs == Callers \cup {Background}

ASSUME CallersAssumption ==
  /\ IsFiniteSet(Callers)
  /\ Background \notin Callers /\ Nobody \notin Procs
  /\ Readers \cap (Prepares \cup Checks) = {} /\ Resolves \cap Downloads = {}
  /\ Prepares \cap Checks = {}

VARIABLES
  state,               \* YtdlpState
  initHolder,          \* holder of initMutex
  updateHolder,        \* holder of updateMutex
  updateInProgress,    \* the writer side of the gate
  activeRuntimeUsers,  \* the reader count of the gate
  updating,            \* the AtomicBoolean of maybeUpdateInBackground
  due,                 \* updateDue()
  pc,                  \* where each coroutine stands
  cancelled,           \* downloads whose cancel flag is up
  watching             \* downloads whose watcher still polls the flag

locks == <<initHolder, updateHolder>>
gate == <<updateInProgress, activeRuntimeUsers>>
kills == <<cancelled, watching>>
vars == <<state, initHolder, updateHolder, updateInProgress, activeRuntimeUsers,
          updating, due, pc, cancelled, watching>>

YtdlpState == {"NOT_READY", "PREPARING", "READY", "FAILED"}

\* A coroutine is idle; wants initMutex; unpacks; has the runtime; wants
\* updateMutex; holds it; updates; waits for the gate; has its slot and starts
\* its process; runs it; has had it killed; gives the slot back.
Steps == {"idle", "init", "unpacking", "ready", "update", "claim", "updating", "updated",
          "wait", "starting", "running", "killed", "leaving"}

Using == {t \in Readers : pc[t] \in {"starting", "running", "killed", "leaving"}}
Updating == {p \in Procs : pc[p] \in {"updating", "updated"}}

Goto(p, step) == pc' = [pc EXCEPT ![p] = step]

Init ==
  /\ state = "NOT_READY" /\ initHolder = Nobody /\ updateHolder = Nobody
  /\ updateInProgress = FALSE /\ activeRuntimeUsers = 0
  /\ updating = FALSE /\ due \in BOOLEAN
  /\ pc = [p \in Procs |-> "idle"]
  /\ cancelled = {} /\ watching = {}

---------------------------------------------------------------------------
(* ensureInit *)

Call(t) ==
  /\ pc[t] = "idle"
  /\ Goto(t, "init")
  /\ cancelled' = cancelled \ {t}
  /\ UNCHANGED <<state, locks, gate, updating, due, watching>>

AlreadyUnpacked(t) ==
  /\ pc[t] = "init" /\ initHolder = Nobody /\ state = "READY"
  /\ Goto(t, "ready")
  /\ UNCHANGED <<state, locks, gate, updating, due, kills>>

NotReady == state # "READY"

Unpack(t) ==
  /\ pc[t] = "init" /\ initHolder = Nobody /\ NotReady
  /\ state' = "PREPARING" /\ initHolder' = t
  /\ Goto(t, "unpacking")
  /\ UNCHANGED <<updateHolder, gate, updating, due, kills>>

\* A caller cancelled while it unpacks ends in the catch block: FAILED too.
Unpacked(t, ok) ==
  /\ pc[t] = "unpacking"
  /\ state' = IF ok THEN "READY" ELSE "FAILED"
  /\ initHolder' = Nobody
  /\ Goto(t, IF ok THEN "ready" ELSE "idle")
  /\ UNCHANGED <<updateHolder, gate, updating, due, kills>>

\* ensureReadyNow and the launch of the watcher: the version check, if due and
\* not under way, is left to a background coroutine.
ReadyNow(t) ==
  LET fire == due /\ ~updating IN
  /\ t \in Readers /\ pc[t] = "ready"
  /\ pc' = [pc EXCEPT ![t] = "wait", ![Background] = IF fire THEN "update" ELSE @]
  /\ updating' = (updating \/ fire)
  /\ watching' = IF t \in Downloads THEN watching \cup {t} ELSE watching
  /\ UNCHANGED <<state, locks, gate, due, cancelled>>

\* ensureReady updates if due, checkForUpdate always.
ReadyToUpdate(t) ==
  /\ t \in Prepares \cup Checks /\ pc[t] = "ready"
  /\ Goto(t, IF due \/ t \in Checks THEN "update" ELSE "idle")
  /\ UNCHANGED <<state, locks, gate, updating, due, kills>>

---------------------------------------------------------------------------
(* runUpdate *)

\* The end of runUpdate; the background coroutine then clears its flag.
Leave(p) ==
  /\ updateHolder' = Nobody
  /\ Goto(p, "idle")
  /\ updating' = IF p = Background THEN FALSE ELSE updating

TakeUpdateMutex(p) ==
  /\ pc[p] = "update" /\ updateHolder = Nobody
  /\ updateHolder' = p
  /\ Goto(p, "claim")
  /\ UNCHANGED <<state, initHolder, gate, updating, due, kills>>

MayUpdateAlways == TRUE
RuntimeIdle == activeRuntimeUsers = 0

Claim(p) ==
  /\ pc[p] = "claim" /\ RuntimeIdle
  /\ updateInProgress' = TRUE
  /\ Goto(p, "updating")
  /\ UNCHANGED <<state, locks, activeRuntimeUsers, updating, due, kills>>

\* The runtime is in use: the update is put off.
Defer(p) ==
  /\ pc[p] = "claim" /\ ~RuntimeIdle
  /\ Leave(p)
  /\ UNCHANGED <<state, initHolder, gate, due, kills>>

UpdateEnds(p, ok) ==
  /\ pc[p] = "updating"
  /\ due' = (due /\ ~ok)
  /\ Goto(p, "updated")
  /\ UNCHANGED <<state, locks, gate, updating, kills>>

GateKept == updateInProgress
GateOpened == FALSE

ReleaseGate(p) ==
  /\ pc[p] = "updated"
  /\ updateInProgress' = GateOpened
  /\ Leave(p)
  /\ UNCHANGED <<state, initHolder, activeRuntimeUsers, due, kills>>

WeekPasses ==
  /\ ~due /\ due' = TRUE
  /\ UNCHANGED <<state, locks, gate, updating, pc, kills>>

---------------------------------------------------------------------------
(* withRuntimeUse *)

\* The poll that finds no update in progress takes a slot; the others change
\* nothing.
Acquire(t) ==
  /\ pc[t] = "wait" /\ ~updateInProgress
  /\ activeRuntimeUsers' = activeRuntimeUsers + 1
  /\ Goto(t, "starting")
  /\ UNCHANGED <<state, locks, updateInProgress, updating, due, kills>>

\* yt-dlp is started: from now on its process can be found by its id.
Spawn(t) ==
  /\ pc[t] = "starting"
  /\ Goto(t, "running")
  /\ UNCHANGED <<state, locks, gate, updating, due, kills>>

\* execute returns: the process ended, was killed, or did not start.
ExecuteReturns(t) ==
  /\ pc[t] \in {"starting", "running", "killed"}
  /\ Goto(t, "leaving")
  /\ UNCHANGED <<state, locks, gate, updating, due, kills>>

ReleaseSlot(t) ==
  /\ pc[t] = "leaving"
  /\ activeRuntimeUsers' = activeRuntimeUsers - 1
  /\ Goto(t, "idle")
  /\ watching' = watching \ {t}
  /\ UNCHANGED <<state, locks, updateInProgress, updating, due, cancelled>>

---------------------------------------------------------------------------
(* Cancellation *)

\* The coroutine of a screen or of the weekly worker is cancelled where it
\* suspends; it then leaves what it holds, which is no slot of the gate.  The coroutines of the queue
\* (downloads) and of the background check are never cancelled.
Abandon(t) ==
  /\ t \in Callers \ Downloads
  /\ pc[t] \in {"init", "update", "claim", "wait"}
  /\ updateHolder' = IF updateHolder = t THEN Nobody ELSE updateHolder
  /\ Goto(t, "idle")
  /\ UNCHANGED <<state, initHolder, gate, updating, due, kills>>

\* The queue raises the cancel flag of a download it has called.
CancelDownload(t) ==
  /\ pc[t] # "idle" /\ t \notin cancelled
  /\ cancelled' = cancelled \cup {t}
  /\ UNCHANGED <<state, locks, gate, updating, due, pc, watching>>

\* The watcher sees the flag, calls destroyProcessById once, and ends.  The
\* call finds nothing before the process is started.
WatcherBlind(t) ==
  /\ t \in watching \cap cancelled
  /\ watching' = watching \ {t}
  /\ UNCHANGED <<state, locks, gate, updating, due, pc, cancelled>>
WatcherFires(t) ==
  /\ t \in watching \cap cancelled
  /\ watching' = watching \ {t}
  /\ pc' = IF pc[t] = "running" THEN [pc EXCEPT ![t] = "killed"] ELSE pc
  /\ UNCHANGED <<state, locks, gate, updating, due, cancelled>>

---------------------------------------------------------------------------
Starting(t) ==
  AlreadyUnpacked(t) \/ Unpack(t) \/ ReadyNow(t) \/ ReadyToUpdate(t)

Updates(p) == Claim(p) \/ Defer(p) \/ ReleaseGate(p)

Next ==
  \/ \E t \in Callers :
       \/ Call(t) \/ Starting(t) \/ Abandon(t)
       \/ \E ok \in BOOLEAN : Unpacked(t, ok)
  \/ \E p \in Procs :
       \/ TakeUpdateMutex(p) \/ Updates(p)
       \/ \E ok \in BOOLEAN : UpdateEnds(p, ok)
  \/ \E t \in Readers : Acquire(t) \/ Spawn(t) \/ ExecuteReturns(t) \/ ReleaseSlot(t)
  \/ \E t \in Downloads : CancelDownload(t) \/ WatcherFires(t)
  \/ WeekPasses

Spec == Init /\ [][Next]_vars

\* A step p takes by itself, and a step it must wait its turn for.
OwnStep(p) ==
  \/ Updates(p) \/ \E ok \in BOOLEAN : UpdateEnds(p, ok)
  \/ p \in Callers /\ (ReadyNow(p) \/ ReadyToUpdate(p) \/ \E ok \in BOOLEAN : Unpacked(p, ok))
  \/ p \in Readers /\ (Spawn(p) \/ ReleaseSlot(p) \/ (pc[p] = "killed" /\ ExecuteReturns(p)))
Turn(p) ==
  \/ TakeUpdateMutex(p)
  \/ p \in Callers /\ (AlreadyUnpacked(p) \/ Unpack(p))
  \/ p \in Readers /\ Acquire(p)

\* A coroutine that can run does; a Kotlin Mutex serves its waiters in turn;
\* unpacking and updating end (they have time limits of their own); a poll
\* every 50 ms meets a gate that keeps opening.  Nothing is assumed of how
\* long yt-dlp runs, except that a killed process ends.
Fairness ==
  /\ \A p \in Procs : WF_vars(OwnStep(p)) /\ SF_vars(Turn(p))
  /\ \A t \in Downloads : WF_vars(WatcherFires(t))
FairSpec == Spec /\ Fairness

---------------------------------------------------------------------------
(* Properties *)

\* Every variable has its type (checked as part of GateHonest).
TypeOK ==
  /\ state \in YtdlpState
  /\ initHolder \in Callers \cup {Nobody} /\ updateHolder \in Procs \cup {Nobody}
  /\ updateInProgress \in BOOLEAN /\ updating \in BOOLEAN /\ due \in BOOLEAN
  /\ activeRuntimeUsers \in Nat
  /\ pc \in [Procs -> Steps]
  /\ cancelled \subseteq Downloads /\ watching \subseteq Downloads

\* The gate says what is going on: no path, cancelled or not, leaves the flag
\* up ("every future withRuntimeUse() would spin forever") or a slot taken.
GateHonest ==
  /\ TypeOK
  /\ updateInProgress <=> Updating # {}
  /\ activeRuntimeUsers = Cardinality(Using)

\* The runtime's files are never rewritten under a running yt-dlp, nor by two
\* updates at once, whichever of the three update paths meets which user;
\* nothing runs or rewrites the runtime before it is unpacked, and it is never
\* unpacked again under its users.
UpdateExcludesUse ==
  /\ Updating # {} => Using = {}
  /\ \A p, q \in Updating : p = q
  /\ Using # {} \/ Updating # {} => state = "READY"
  /\ \A t \in Callers : pc[t] = "unpacking" => state = "PREPARING" /\ initHolder = t

\* A resolve or download that waits for the gate gets through it, or is given
\* up by its screen.
ReadersServed == \A t \in Readers : pc[t] = "wait" ~> pc[t] # "wait"

\* A download cancelled while yt-dlp runs under its watcher is ended by it.
CancelEndsRunning ==
  \A t \in Downloads :
    (pc[t] = "running" /\ t \in cancelled \cap watching) ~> pc[t] # "running"

(* Claims of the documentation that the code does not keep. *)

\* Resolvers.md:60-61: a watcher kills the process on cancel, so a cancelled
\* download ends whenever the cancel comes.
CancelEndsDownload == \A t \in Downloads : t \in cancelled ~> pc[t] = "idle"
=============================================================================
