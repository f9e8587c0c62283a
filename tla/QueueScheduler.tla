-------------------------- MODULE QueueScheduler --------------------------
(* The download queue of app/.../scheduler/QueueScheduler.kt together with   *)
(* the sqlite rows it writes through libdlm's store.c.                       *)
(*                                                                           *)
(* Every verb runs under one Mutex on one dispatcher, so a verb is one       *)
(* action.  The only steps that interleave with the verbs are those of the   *)
(* worker coroutines (engine or yt-dlp), which run outside the mutex and     *)
(* take it again in finalizeWorker, and the death of the process.            *)
(*                                                                           *)
(* Abstractions:                                                             *)
(*  - names, URLs, sizes, speeds and the error text are data: a link keeps   *)
(*    its kind (delegate), and err says whether an error text is attached;   *)
(*  - pauseRequested is written by the code and read by nothing: left out;   *)
(*  - the force column is written by the code, cleared by load() and read by  *)
(*    nothing: left out of the rows;                                         *)
(*  - ties of (priority, position) are broken by list order in the code and  *)
(*    either way here;                                                       *)
(*  - sqlite updates succeed; inserts may fail (add and grab check them);    *)
(*  - links have distinct output paths, so a part file belongs to one link;  *)
(*  - the snapshot is a function of the state and is not a variable.         *)
EXTENDS Integers, FiniteSets

CONSTANTS
  MaxLinks,     \* bound: link ids the store hands out, 1..MaxLinks
  MaxPackages,  \* bound: package ids the store hands out, 1..MaxPackages
  MaxGrab,      \* bound: links staged by one grab
  PosBound,     \* bound: positions stay in 0..PosBound
  Priorities,   \* priorities a caller passes, clamped by the code
  MaxActives,   \* values a caller passes to setMaxActive
  Delegates,    \* kinds of link added: FALSE engine, TRUE yt-dlp
  Toggles,      \* values a caller passes to setEnabled and setAutostart
  MoveDirs      \* directions a caller passes to move

ASSUME BoundsAssumption ==
  /\ MaxLinks \in Nat /\ MaxPackages \in Nat /\ MaxGrab \in Nat /\ PosBound \in Nat
  /\ Priorities \subseteq Int /\ MaxActives \subseteq Int
  /\ Delegates \subseteq BOOLEAN /\ Toggles \subseteq BOOLEAN
  /\ MoveDirs \subseteq {"UP", "DOWN", "TOP", "BOTTOM"}

VARIABLES
  items,            \* in-memory links: id -> Item
  pkgs,             \* in-memory packages: id -> Package
  rows,             \* table downloads: id -> Row
  pkgRows,          \* table packages: id -> Package
  nextId,           \* AUTOINCREMENT of downloads
  nextPkg,          \* AUTOINCREMENT of packages
  nextPos,          \* QueueScheduler.nextPos
  maxActive,        \* QueueScheduler.maxActive (kept by SettingsStore)
  globalAutostart,  \* QueueScheduler.globalAutostart (kept by SettingsStore)
  cells,            \* native cancel cell of each link: free, clear or set
  partial           \* links whose <outPath>.dlmpart is on disk

packages == <<pkgs, pkgRows>>
counters == <<nextId, nextPkg, nextPos>>
settings == <<maxActive, globalAutostart>>
machine == <<cells, partial>>
vars == <<items, pkgs, rows, pkgRows, nextId, nextPkg, nextPos, maxActive,
          globalAutostart, cells, partial>>

---------------------------------------------------------------------------
(* Data *)

Links == 1 .. MaxLinks
Packages == 1 .. MaxPackages
PkgRefs == 0 .. MaxPackages  \* 0: in no package
Positions == 0 .. PosBound
Lists == {"download", "linkgrabber"}
QState == {"QUEUED", "ACTIVE", "PAUSED", "DONE", "ERROR"}

\* A worker is running, or it has returned rc and waits for the mutex.
Outcomes == {"ok", "cancelled", "failed"}
Jobs == {"none", "running"} \cup Outcomes

LOWEST == -3
DEFAULT == 0
HIGHEST == 3
PriorityRange == LOWEST .. HIGHEST
Clamp(p) == IF p < LOWEST THEN LOWEST ELSE IF p > HIGHEST THEN HIGHEST ELSE p

Row == [state : QState, err : BOOLEAN, list : Lists, pkg : PkgRefs,
        prio : PriorityRange, enabled : BOOLEAN, autostart : BOOLEAN,
        pos : Positions, delegate : BOOLEAN]

Item == [state : QState, err : BOOLEAN, list : Lists, pkg : PkgRefs,
         prio : PriorityRange, enabled : BOOLEAN, autostart : BOOLEAN,
         force : BOOLEAN, pos : Positions, delegate : BOOLEAN,
         job : Jobs, token : BOOLEAN, cancelRequested : BOOLEAN,
         removeRequested : BOOLEAN, globallyPaused : BOOLEAN]

Package == [list : Lists, prio : PriorityRange, pos : Positions]

\* QItem as the constructor leaves it, from the columns of its row; force and
\* globallyPaused never survive a restart.
ItemOf(r) ==
  [state |-> r.state, err |-> r.err, list |-> r.list, pkg |-> r.pkg,
   prio |-> r.prio, enabled |-> r.enabled, autostart |-> r.autostart,
   force |-> FALSE, pos |-> r.pos, delegate |-> r.delegate,
   job |-> "none", token |-> FALSE, cancelRequested |-> FALSE,
   removeRequested |-> FALSE, globallyPaused |-> FALSE]

NewRow(list, p, pos, d) ==
  [state |-> "QUEUED", err |-> FALSE, list |-> list, pkg |-> p,
   prio |-> DEFAULT, enabled |-> TRUE, autostart |-> TRUE,
   pos |-> pos, delegate |-> d]

\* The records of S in f, changed by Op; an id f does not have is ignored.
Each(f, S, Op(_)) == [x \in DOMAIN f |-> IF x \in S THEN Op(f[x]) ELSE f[x]]
Without(f, S) == [x \in DOMAIN f \ S |-> f[x]]

Members(p) == {i \in DOMAIN items : items[i].pkg = p}
Staged == {i \in DOMAIN items : items[i].list = "linkgrabber"}
StagedPackages == {p \in DOMAIN pkgs : pkgs[p].list = "linkgrabber"}
Running == {i \in DOMAIN items : items[i].job # "none"}

\* The links a verb (id, isPackage) reaches: applyTo.
Scopes == {{i} : i \in DOMAIN items} \cup {Members(p) : p \in DOMAIN pkgs}

\* QItem.requestCancel raises the flag yt-dlp's runner polls and, for a link
\* with a token, sets the cell the engine polls.
Cancelling(it) == [it EXCEPT !.cancelRequested = TRUE]
CellsUntouched(S) == cells
CellsTripped(S) ==
  [i \in Links |-> IF i \in S /\ items[i].token THEN "set" ELSE cells[i]]

\* sqlite: UPDATE downloads SET state, error on every row of S.
RowsStateOnly(S, st) == Each(rows, S, LAMBDA r : [r EXCEPT !.state = st])
RowsInState(S, st) == Each(rows, S, LAMBDA r : [r EXCEPT !.state = st, !.err = FALSE])

\* cleanupPartialFiles on every link of S.
PartialKept(S) == partial
PartialWithout(S) == partial \ S

\* dropIfEmpty on every package of P, once the links of R are gone.
Emptied(P, R) ==
  {p \in P \cap DOMAIN pkgs : \A i \in DOMAIN items \ R : items[i].pkg # p}
DropIfEmpty(P, R) ==
  /\ pkgs' = Without(pkgs, Emptied(P, R))
  /\ pkgRows' = Without(pkgRows, Emptied(P, R))

---------------------------------------------------------------------------
Init ==
  /\ items = [i \in {} |-> 0] /\ rows = [i \in {} |-> 0]
  /\ pkgs = [p \in {} |-> 0] /\ pkgRows = [p \in {} |-> 0]
  /\ nextId = 1 /\ nextPkg = 1 /\ nextPos = 1
  /\ maxActive \in {v \in MaxActives : v >= 1}
  /\ globalAutostart \in BOOLEAN
  /\ cells = [i \in Links |-> "free"]
  /\ partial = {}

(* ---- add and linkgrabber ---- *)

\* The insert of add fails: a position is spent all the same.
AddFails ==
  /\ nextPos < PosBound
  /\ nextPos' = nextPos + 1
  /\ UNCHANGED <<items, rows, packages, nextId, nextPkg, settings, machine>>

Add(d) ==
  LET row == NewRow("download", 0, nextPos, d) IN
  /\ nextId <= MaxLinks /\ nextPos < PosBound
  /\ rows' = [i \in DOMAIN rows \cup {nextId} |-> IF i = nextId THEN row ELSE rows[i]]
  /\ items' = [i \in DOMAIN items \cup {nextId} |->
                 IF i = nextId THEN ItemOf(row) ELSE items[i]]
  /\ nextId' = nextId + 1
  /\ nextPos' = nextPos + 1
  /\ UNCHANGED <<packages, nextPkg, settings, machine>>

\* k links are staged.  The n inserts that succeed get the next ids; those that
\* fail leave gaps in the positions: at is the position of each id.
NewIds(n) == nextId .. (nextId + n - 1)

GrabInto(pkg, k, n, at, d) ==
  LET rowOf == [i \in NewIds(n) |-> NewRow("linkgrabber", nextPkg, at[i], d[i])] IN
  /\ nextPkg <= MaxPackages /\ nextId + n <= MaxLinks + 1
  /\ nextPos + k <= PosBound
  /\ rows' = [i \in DOMAIN rows \cup NewIds(n) |->
                IF i \in NewIds(n) THEN rowOf[i] ELSE rows[i]]
  /\ items' = [i \in DOMAIN items \cup NewIds(n) |->
                 IF i \in NewIds(n) THEN ItemOf(rowOf[i]) ELSE items[i]]
  /\ pkgs' = [p \in DOMAIN pkgs \cup {nextPkg} |-> IF p = nextPkg THEN pkg ELSE pkgs[p]]
  /\ pkgRows' = [p \in DOMAIN pkgRows \cup {nextPkg} |->
                   IF p = nextPkg THEN pkg ELSE pkgRows[p]]
  /\ nextId' = nextId + n
  /\ nextPkg' = nextPkg + 1
  /\ nextPos' = nextPos + k + 1
  /\ UNCHANGED <<settings, machine>>

Grab(k) ==
  \E n \in 0 .. k :
    \E at \in [NewIds(n) -> (nextPos + 1) .. (nextPos + k)], d \in [NewIds(n) -> Delegates] :
      /\ \A i, j \in NewIds(n) : i < j => at[i] < at[j]
      /\ GrabInto([list |-> "linkgrabber", prio |-> DEFAULT, pos |-> nextPos], k, n, at, d)

\* confirmLink on every link of S; the packages P leave the linkgrabber.
ConfirmLinks(S, P, start) ==
  /\ items' = Each(items, S, LAMBDA it :
       [it EXCEPT !.list = "download", !.state = "QUEUED", !.autostart = start])
  /\ rows' = Each(rows, S, LAMBDA r :
       [r EXCEPT !.list = "download", !.state = "QUEUED", !.err = FALSE,
                 !.autostart = start])
  /\ pkgs' = Each(pkgs, P, LAMBDA q : [q EXCEPT !.list = "download"])
  /\ pkgRows' = Each(pkgRows, P, LAMBDA q : [q EXCEPT !.list = "download"])
  /\ UNCHANGED <<counters, settings, machine>>

ConfirmAll(start) == ConfirmLinks(Staged, StagedPackages, start)

ConfirmPackage(p, start) ==
  /\ p \in StagedPackages
  /\ ConfirmLinks(Members(p) \cap Staged, {p}, start)

\* The package of i follows it when no other link of it is in the linkgrabber.
Following(i) ==
  {p \in StagedPackages : p = items[i].pkg /\ Members(p) \cap Staged \subseteq {i}}

ConfirmLink(i, start) ==
  /\ i \in Staged
  /\ ConfirmLinks({i}, Following(i), start)

\* Links R and packages P leave memory and store; no file is touched.
LgDelete(R, P) ==
  /\ items' = Without(items, R) /\ rows' = Without(rows, R)
  /\ pkgs' = Without(pkgs, P) /\ pkgRows' = Without(pkgRows, P)
  /\ UNCHANGED <<counters, settings, machine>>

LgRemoveAll == LgDelete(Staged, StagedPackages)

LgRemovePackage(p) ==
  /\ p \in StagedPackages
  /\ LgDelete(Members(p) \cap Staged, {p})

LgRemoveLink(i) ==
  /\ i \in Staged
  /\ LgDelete({i}, Emptied({items[i].pkg}, {i}))

(* ---- per-link and per-package verbs ---- *)

\* A running worker is only asked to stop; finalizeWorker settles its link.
Pause(i) ==
  /\ i \in DOMAIN items
  /\ LET it == [items[i] EXCEPT !.force = FALSE, !.globallyPaused = FALSE] IN
     \/ /\ it.state = "ACTIVE"
        /\ items' = [items EXCEPT ![i] = Cancelling(it)]
        /\ cells' = CellsTripped({i})
        /\ rows' = rows
     \/ /\ it.state = "QUEUED"
        /\ items' = [items EXCEPT ![i] = [it EXCEPT !.state = "PAUSED"]]
        /\ rows' = RowsInState({i}, "PAUSED")
        /\ cells' = cells
     \/ /\ it.state \notin {"ACTIVE", "QUEUED"}
        /\ items' = [items EXCEPT ![i] = it]
        /\ UNCHANGED <<rows, cells>>
  /\ UNCHANGED <<packages, counters, settings, partial>>

Resume(i) ==
  /\ i \in DOMAIN items
  /\ items[i].state \in {"PAUSED", "ERROR"}
  /\ items' = [items EXCEPT ![i] = [@ EXCEPT
                 !.state = "QUEUED", !.cancelRequested = FALSE,
                 !.globallyPaused = FALSE, !.err = FALSE]]
  /\ rows' = RowsInState({i}, "QUEUED")
  /\ UNCHANGED <<packages, counters, settings, machine>>

\* remove and pkgRemove on the links S, then dropIfEmpty on the packages P:
\* an idle link goes at once with its part file, a busy one is asked to stop
\* and goes in finalizeWorker.  (For a busy link remove does not reach
\* dropIfEmpty, but the link itself keeps its package from being empty.)
RemoveLinks(S, P) ==
  LET idle == S \ Running IN
  /\ items' = Without(Each(items, S, LAMBDA it :
       [Cancelling(it) EXCEPT !.removeRequested = TRUE]), idle)
  /\ cells' = CellsTripped(S \cap Running)
  /\ rows' = Without(rows, idle)
  /\ partial' = PartialWithout(idle)
  /\ DropIfEmpty(P, idle)
  /\ UNCHANGED <<counters, settings>>

Remove(i) == i \in DOMAIN items /\ RemoveLinks({i}, {items[i].pkg})
PkgRemove(p) == p \in DOMAIN pkgs /\ RemoveLinks(Members(p), {p})

SetPriority(i, v) ==
  /\ items' = Each(items, {i}, LAMBDA it : [it EXCEPT !.prio = Clamp(v)])
  /\ rows' = Each(rows, {i}, LAMBDA r : [r EXCEPT !.prio = Clamp(v)])
  /\ UNCHANGED <<packages, counters, settings, machine>>

SetPackagePriority(p, v) ==
  /\ p \in DOMAIN pkgs
  /\ items' = Each(items, Members(p), LAMBDA it : [it EXCEPT !.prio = Clamp(v)])
  /\ rows' = Each(rows, Members(p), LAMBDA r : [r EXCEPT !.prio = Clamp(v)])
  /\ pkgs' = Each(pkgs, {p}, LAMBDA q : [q EXCEPT !.prio = Clamp(v)])
  /\ pkgRows' = Each(pkgRows, {p}, LAMBDA q : [q EXCEPT !.prio = Clamp(v)])
  /\ UNCHANGED <<counters, settings, machine>>

\* pkgUpdate: a priority below LOWEST means "leave it"; the rest is wording.
PkgUpdate(p, v) ==
  /\ p \in DOMAIN pkgs /\ v >= LOWEST
  /\ pkgs' = Each(pkgs, {p}, LAMBDA q : [q EXCEPT !.prio = Clamp(v)])
  /\ pkgRows' = Each(pkgRows, {p}, LAMBDA q : [q EXCEPT !.prio = Clamp(v)])
  /\ UNCHANGED <<items, rows, counters, settings, machine>>

SetEnabled(S, on) ==
  /\ items' = Each(items, S, LAMBDA it : [it EXCEPT !.enabled = on])
  /\ rows' = Each(rows, S, LAMBDA r : [r EXCEPT !.enabled = on])
  /\ UNCHANGED <<packages, counters, settings, machine>>

SetAutostart(S, on) ==
  /\ items' = Each(items, S, LAMBDA it : [it EXCEPT !.autostart = on])
  /\ rows' = Each(rows, S, LAMBDA r : [r EXCEPT !.autostart = on])
  /\ UNCHANGED <<packages, counters, settings, machine>>

\* applyForce on a download link; a running or finished one keeps its state.
ForcedAnyState(it) ==
  [it EXCEPT !.enabled = TRUE, !.force = TRUE, !.state = "QUEUED",
             !.cancelRequested = FALSE, !.err = FALSE]
Forced(it) ==
  IF it.state \in {"PAUSED", "ERROR"}
  THEN [it EXCEPT !.enabled = TRUE, !.force = TRUE, !.state = "QUEUED",
                  !.cancelRequested = FALSE, !.err = FALSE]
  ELSE [it EXCEPT !.enabled = TRUE, !.force = TRUE]

\* The row is set back to queued whatever the link's state.
ForceStart(S) ==
  /\ items' = Each(items, S \ Staged, Forced)
  /\ rows' = Each(rows, S \ Staged, LAMBDA r :
       [r EXCEPT !.enabled = TRUE, !.state = "QUEUED", !.err = FALSE])
  /\ UNCHANGED <<packages, counters, settings, machine>>

(* ---- reordering ---- *)

MovedTo(f, x, v) == [f EXCEPT ![x].pos = v]

\* reorder: every outcome of moving x among its peers (none if it stays).
Reorderings(f, x, peers, dir) ==
  LET swaps(near) == {MovedTo(MovedTo(f, x, f[n].pos), n, f[x].pos) : n \in near}
      above == {n \in peers : f[n].pos < f[x].pos}
      below == {n \in peers : f[n].pos > f[x].pos} IN
  CASE dir = "UP" -> swaps({n \in above : \A m \in above : f[m].pos <= f[n].pos})
    [] dir = "DOWN" -> swaps({n \in below : \A m \in below : f[n].pos <= f[m].pos})
    [] dir = "TOP" -> {MovedTo(f, x, f[n].pos - 1) :
                         n \in {n \in peers : \A m \in peers : f[n].pos <= f[m].pos}}
    [] dir = "BOTTOM" -> {MovedTo(f, x, f[n].pos + 1) :
                            n \in {n \in peers : \A m \in peers : f[m].pos <= f[n].pos}}

LinkPeers(i) ==
  {j \in DOMAIN items \ {i} :
     items[j].list = items[i].list /\ items[j].pkg = items[i].pkg}
PkgPeers(p) == {q \in DOMAIN pkgs \ {p} : pkgs[q].list = pkgs[p].list}

\* The positions that changed are written to the store.
Saved(table, old, new) ==
  [x \in DOMAIN table |->
     IF x \in DOMAIN new /\ new[x].pos # old[x].pos
     THEN [table[x] EXCEPT !.pos = new[x].pos] ELSE table[x]]

MoveLink(i, dir) ==
  /\ i \in DOMAIN items
  /\ \E g \in Reorderings(items, i, LinkPeers(i), dir) :
       /\ g[i].pos \in Positions
       /\ items' = g
       /\ rows' = Saved(rows, items, g)
  /\ UNCHANGED <<packages, counters, settings, machine>>

MovePkg(p, dir) ==
  /\ p \in DOMAIN pkgs
  /\ \E g \in Reorderings(pkgs, p, PkgPeers(p), dir) :
       /\ g[p].pos \in Positions
       /\ pkgs' = g
       /\ pkgRows' = Saved(pkgRows, pkgs, g)
  /\ UNCHANGED <<items, rows, counters, settings, machine>>

(* ---- global settings and bulk verbs ---- *)

SetMaxActive(v) ==
  /\ maxActive' = IF v < 1 THEN 1 ELSE v
  /\ UNCHANGED <<items, rows, packages, counters, globalAutostart, machine>>

\* setGlobalAutostart(true): what a global pause parked is queued again.
ResumeAll ==
  LET S == {i \in DOMAIN items : items[i].globallyPaused /\ items[i].state = "PAUSED"} IN
  /\ globalAutostart' = TRUE
  /\ items' = Each(items, S, LAMBDA it :
       [it EXCEPT !.globallyPaused = FALSE, !.state = "QUEUED", !.cancelRequested = FALSE])
  /\ rows' = RowsInState(S, "QUEUED")
  /\ UNCHANGED <<packages, counters, maxActive, machine>>

\* setGlobalAutostart(false): running workers are asked to stop and tagged.
PauseAll ==
  LET S == {i \in Running : items[i].state = "ACTIVE"} IN
  /\ globalAutostart' = FALSE
  /\ items' = Each(items, S, LAMBDA it :
       [Cancelling(it) EXCEPT !.globallyPaused = TRUE])
  /\ cells' = CellsTripped(S)
  /\ UNCHANGED <<rows, packages, counters, maxActive, partial>>

\* stopAll: every worker is asked to stop, with no tag.
StopAll ==
  /\ items' = Each(items, Running, Cancelling)
  /\ cells' = CellsTripped(Running)
  /\ UNCHANGED <<rows, packages, counters, settings, partial>>

\* clearFinished (no file is touched) and clearFailed (part files go too).
Clear(R, cleaned) ==
  /\ items' = Without(items, R) /\ rows' = Without(rows, R)
  /\ partial' = PartialWithout(cleaned)
  /\ DropIfEmpty({items[i].pkg : i \in R}, R)
  /\ UNCHANGED <<counters, settings, cells>>

IdleIn(st) == {i \in DOMAIN items : items[i].state = st /\ items[i].job = "none"}
ClearFinished == Clear(IdleIn("DONE"), {})
ClearFailed == Clear(IdleIn("ERROR"), IdleIn("ERROR"))

(* ---- scheduler tick ---- *)

Startable(i) ==
  /\ items[i].list = "download" /\ items[i].state = "QUEUED"
  /\ items[i].job = "none" /\ items[i].enabled

Eligible(i) == Startable(i) /\ items[i].autostart

\* The candidates of the two loops of tick.
ForcedNow == {i \in DOMAIN items : Startable(i) /\ items[i].force}
EligibleUngated == {i \in DOMAIN items : Eligible(i)}
EligibleNow == {i \in DOMAIN items : globalAutostart /\ Eligible(i)}

\* Priority descending, then position ascending.
Before(i, j) ==
  \/ items[i].prio > items[j].prio
  \/ items[i].prio = items[j].prio /\ items[i].pos <= items[j].pos

\* S is what n rounds of "start the best candidate" take from C.
IsBest(S, C, n) ==
  /\ S \subseteq C
  /\ IF Cardinality(C) <= n THEN S = C ELSE Cardinality(S) = n
  /\ \A i \in S, j \in C \ S : Before(i, j)

SlotsIgnoringRunning == maxActive
FreeSlotsButOne ==
  IF maxActive - 1 > Cardinality(Running) THEN maxActive - 1 - Cardinality(Running) ELSE 0
FreeSlots ==
  IF maxActive > Cardinality(Running) THEN maxActive - Cardinality(Running) ELSE 0

\* Forced links first, whatever globalAutostart says, then eligible ones.
Chosen(S) ==
  \E F \in SUBSET S :
    /\ IsBest(F, ForcedNow, FreeSlots)
    /\ IsBest(S \ F, EligibleNow \ F, FreeSlots - Cardinality(F))

\* startItem on every link of S: an engine link gets a fresh cancel cell.
StartItems(S) ==
  /\ items' = Each(items, S, LAMBDA it :
       [it EXCEPT !.state = "ACTIVE", !.cancelRequested = FALSE, !.globallyPaused = FALSE,
                  !.job = "running", !.token = ~it.delegate])
  /\ cells' = [i \in Links |-> IF i \in S /\ ~items[i].delegate THEN "clear" ELSE cells[i]]
  /\ rows' = RowsInState(S, "ACTIVE")
  /\ UNCHANGED <<packages, counters, settings, partial>>

Tick ==
  \E S \in SUBSET {i \in DOMAIN items : Startable(i)} : S # {} /\ Chosen(S) /\ StartItems(S)

(* ---- workers ---- *)

\* The engine opens its part file.
WorkerWrites(i) ==
  /\ i \in Running \ partial
  /\ items[i].job = "running" /\ ~items[i].delegate
  /\ partial' = partial \cup {i}
  /\ UNCHANGED <<items, rows, packages, counters, settings, cells>>

\* The engine reports "cancelled" once it reads its cell set, but a transfer
\* that is already over still succeeds; yt-dlp's runner looks at the flag last.
MayReturn(i, rc) ==
  LET it == items[i] IN
  CASE rc = "cancelled" -> IF it.delegate THEN it.cancelRequested ELSE cells[i] = "set"
    [] rc = "ok" -> it.delegate => ~it.cancelRequested
    [] OTHER -> TRUE

\* runWorker returns; a finished engine download has renamed its part file.
WorkerReturns(i, rc) ==
  /\ i \in Running /\ items[i].job = "running"
  /\ MayReturn(i, rc)
  /\ items' = [items EXCEPT ![i].job = rc]
  /\ partial' = IF rc = "ok" THEN partial \ {i} ELSE partial
  /\ UNCHANGED <<rows, packages, counters, settings, cells>>

\* The state finalizeWorker settles a link in.
Settled(it) ==
  CASE it.job = "ok" -> "DONE"
    [] it.job = "cancelled" ->
         IF it.globallyPaused /\ globalAutostart THEN "QUEUED" ELSE "PAUSED"
    [] OTHER -> "ERROR"

\* freeCancelToken comes before the return for a removed link.
CellsFreedUnlessRemoved(i) ==
  IF items[i].token /\ ~items[i].removeRequested THEN [cells EXCEPT ![i] = "free"] ELSE cells
CellsFreed(i) == IF items[i].token THEN [cells EXCEPT ![i] = "free"] ELSE cells

FinalizeWorker(i) ==
  /\ i \in Running /\ items[i].job \in Outcomes
  /\ cells' = CellsFreed(i)
  /\ IF items[i].removeRequested
     THEN /\ items' = Without(items, {i})
          /\ rows' = Without(rows, {i})
          /\ partial' = PartialWithout({i})
          /\ DropIfEmpty({items[i].pkg}, {i})
     ELSE LET it == items[i]
              st == Settled(it)
              err == it.job = "failed" \/ it.err IN
          /\ items' = [items EXCEPT ![i] = [it EXCEPT
                         !.state = st, !.err = err, !.job = "none", !.token = FALSE,
                         !.force = FALSE, !.cancelRequested = FALSE,
                         !.globallyPaused = it.globallyPaused /\ st = "PAUSED"]]
          /\ rows' = [rows EXCEPT ![i] = [rows[i] EXCEPT !.state = st, !.err = err]]
          /\ UNCHANGED <<packages, partial>>
  /\ UNCHANGED <<counters, settings>>

(* ---- process death, then load() in the next process ---- *)

\* QItem.fromStore with QState.fromStore: an interrupted link is queued again.
LoadedVerbatim(r) == ItemOf(r)
Loaded(r) ==
  ItemOf([r EXCEPT !.state = IF r.state = "ACTIVE" THEN "QUEUED" ELSE r.state])

Restart ==
  LET requeued == {i \in DOMAIN rows : /\ rows[i].state \in {"QUEUED", "ACTIVE"}
                                       /\ rows[i].list = "download"}
      placed == {rows[i].pos : i \in DOMAIN rows} \cup {pkgRows[p].pos : p \in DOMAIN pkgRows}
  IN
  /\ items' = [i \in DOMAIN rows |-> Loaded(rows[i])]
  /\ pkgs' = pkgRows
  /\ rows' = RowsInState(requeued, "QUEUED")
  /\ \E n \in 1 .. (PosBound + 1) :
       /\ n = 1 \/ n - 1 \in placed
       /\ \A q \in placed : q < n
       /\ nextPos' = n
  /\ cells' = [i \in Links |-> "free"]
  /\ UNCHANGED <<pkgRows, nextId, nextPkg, settings, partial>>

---------------------------------------------------------------------------
Linkgrabber ==
  \/ AddFails
  \/ \E d \in Delegates : Add(d)
  \/ \E k \in 1 .. MaxGrab : Grab(k)
  \/ \E start \in BOOLEAN :
       \/ ConfirmAll(start)
       \/ \E p \in DOMAIN pkgs : ConfirmPackage(p, start)
       \/ \E i \in DOMAIN items : ConfirmLink(i, start)
  \/ LgRemoveAll
  \/ \E p \in DOMAIN pkgs : LgRemovePackage(p)
  \/ \E i \in DOMAIN items : LgRemoveLink(i)

LinkVerbs ==
  \/ \E i \in DOMAIN items : Pause(i) \/ Resume(i) \/ Remove(i)
  \/ \E p \in DOMAIN pkgs : PkgRemove(p)
  \/ \E i \in DOMAIN items, v \in Priorities : SetPriority(i, v)
  \/ \E p \in DOMAIN pkgs, v \in Priorities : SetPackagePriority(p, v) \/ PkgUpdate(p, v)
  \/ \E S \in Scopes, on \in Toggles : SetEnabled(S, on) \/ SetAutostart(S, on)
  \/ \E S \in Scopes : ForceStart(S)
  \/ \E dir \in MoveDirs :
       \/ \E i \in DOMAIN items : MoveLink(i, dir)
       \/ \E p \in DOMAIN pkgs : MovePkg(p, dir)

GlobalVerbs ==
  \/ \E v \in MaxActives : SetMaxActive(v)
  \/ ResumeAll
  \/ PauseAll
  \/ StopAll
  \/ ClearFinished
  \/ ClearFailed

\* What happens with no caller: the tick loop and the workers.
System ==
  \/ Tick
  \/ \E i \in DOMAIN items :
       \/ WorkerWrites(i)
       \/ \E rc \in Outcomes : WorkerReturns(i, rc)
       \/ FinalizeWorker(i)

Next == Linkgrabber \/ LinkVerbs \/ GlobalVerbs \/ System \/ Restart

Spec == Init /\ [][Next]_vars

\* A worker whose stop signal is visible to it returns in the end: the engine
\* polls its cell and gives up a silent connection; a yt-dlp worker returns when
\* its process is killed or, where the kill misses it (CancelEndsDownload of
\* YtdlpRuntime), when the download ends by itself, which is an assumption.
\* Nothing is assumed of a worker nobody stops: a download may last for ever.
StopVisible(i) ==
  i \in Running /\ IF items[i].delegate THEN items[i].cancelRequested ELSE cells[i] = "set"
StoppedReturns(i) == StopVisible(i) /\ \E rc \in Outcomes : WorkerReturns(i, rc)

Fairness ==
  /\ WF_vars(Tick)
  /\ \A i \in Links : WF_vars(i \in DOMAIN items /\ StoppedReturns(i))
                      /\ WF_vars(i \in DOMAIN items /\ FinalizeWorker(i))
FairSpec == Spec /\ Fairness

---------------------------------------------------------------------------
(* Properties *)

\* Every variable has its type.
TypeOK ==
  /\ DOMAIN items \subseteq Links /\ \A i \in DOMAIN items : items[i] \in Item
  /\ DOMAIN rows \subseteq Links /\ \A i \in DOMAIN rows : rows[i] \in Row
  /\ DOMAIN pkgs \subseteq Packages /\ \A p \in DOMAIN pkgs : pkgs[p] \in Package
  /\ DOMAIN pkgRows \subseteq Packages /\ \A p \in DOMAIN pkgRows : pkgRows[p] \in Package
  /\ nextId \in 1 .. (MaxLinks + 1) /\ nextPkg \in 1 .. (MaxPackages + 1)
  /\ nextPos \in 1 .. (PosBound + 1)
  /\ maxActive \in Int /\ maxActive >= 1
  /\ globalAutostart \in BOOLEAN
  /\ cells \in [Links -> {"free", "clear", "set"}]
  /\ partial \subseteq Links

\* A link is ACTIVE exactly while it owns a worker: no verb, in whatever state
\* it finds the link, settles a link under its worker or leaves one ACTIVE
\* that nobody will finalize (the "never stays ACTIVE" of startItem).
ActiveIffWorker ==
  \A i \in DOMAIN items : items[i].state = "ACTIVE" <=> items[i].job # "none"

\* A native cancel cell is allocated exactly while a running engine link holds
\* its token: none leaks, none is used or freed twice.
CellsOwned ==
  /\ \A i \in DOMAIN items :
       items[i].token <=> items[i].job # "none" /\ ~items[i].delegate
  /\ \A i \in Links : cells[i] # "free" <=> i \in DOMAIN items /\ items[i].token

\* The flag yt-dlp polls and the cell the engine polls tell a worker the same:
\* a stop asked of it is neither lost nor left over from an earlier run.
CancelReachesWorker ==
  \A i \in Running : ~items[i].delegate => (items[i].cancelRequested <=> cells[i] = "set")

\* A link whose removal waits for its worker is being stopped, and no verb
\* (resume, force, resume all) takes that back.
RemovalStands ==
  \A i \in DOMAIN items :
    items[i].removeRequested => items[i].job # "none" /\ items[i].cancelRequested

\* A link in the linkgrabber has never been started: it waits or is paused.
StagedNeverRuns ==
  \A i \in Staged : items[i].state \in {"QUEUED", "PAUSED"} /\ i \notin partial

\* The package of a link in the linkgrabber exists and is listed there: no
\* confirm or remove of its siblings takes it away.
StagedPackageShown == \A i \in Staged : items[i].pkg \in StagedPackages

\* The store mirrors the memory: same links and packages, same columns.  Only
\* the state may differ, when "Start now" reached a running or finished link.
StoreMirrors ==
  /\ pkgRows = pkgs
  /\ DOMAIN rows = DOMAIN items
  /\ \A i \in DOMAIN items :
       LET r == rows[i] it == items[i] IN
       /\ <<r.err, r.list, r.pkg, r.prio, r.enabled, r.autostart, r.pos, r.delegate>>
          = <<it.err, it.list, it.pkg, it.prio, it.enabled, it.autostart, it.pos, it.delegate>>
       /\ \/ r.state = it.state
          \/ r.state = "QUEUED" /\ it.state \in {"ACTIVE", "DONE"}

\* With the global pause on, a worker that nobody is stopping belongs to a
\* link the user started with "Start now".
PauseAllStops ==
  ~globalAutostart =>
    \A i \in Running : items[i].cancelRequested \/ items[i].force

\* A part file on disk belongs to a link of the queue: removing a link, at
\* once or behind its worker, leaves no orphan.
NoOrphanPartial == partial \subseteq DOMAIN items

\* No step that starts a worker leaves more workers than maxActive: forced
\* links too "never run on top of the cap".
CapRespected ==
  [][LET busy == {i \in DOMAIN items' : items'[i].job # "none"} IN
     ~(busy \subseteq Running) => Cardinality(busy) <= maxActive]_vars

\* A free slot and a link that tick may start do not wait for each other.
WorkConserving ==
  \A i \in Links :
    ~<>[](/\ i \in DOMAIN items /\ Eligible(i) /\ globalAutostart
          /\ Cardinality(Running) < maxActive)
===========================================================================
