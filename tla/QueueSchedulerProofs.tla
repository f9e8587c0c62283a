----------------------- MODULE QueueSchedulerProofs -----------------------
(* Safety of QueueScheduler for every number of links and packages.          *)
EXTENDS QueueScheduler, FiniteSetTheorems, TLAPS

\* What one link is known to satisfy.
Typed(i) == i \in Links /\ items[i] \in Item /\ rows[i] \in Row

\* Its worker, its native cell and its flags agree.
Worked(i) ==
  LET it == items[i] IN
  /\ it.state = "ACTIVE" <=> it.job # "none"
  /\ it.token <=> it.job # "none" /\ ~it.delegate
  /\ it.token <=> cells[i] # "free"
  /\ it.job # "none" /\ ~it.delegate => (it.cancelRequested <=> cells[i] = "set")
  /\ it.removeRequested => it.job # "none" /\ it.cancelRequested
  /\ it.err => it.state = "ERROR"
  /\ it.job # "none" /\ ~globalAutostart => it.cancelRequested \/ it.force

\* It is in the linkgrabber only before its first start; and a finished download
\* has no part file.
Shelved(i) ==
  /\ items[i].list = "linkgrabber" =>
       items[i].state \in {"QUEUED", "PAUSED"} /\ i \notin partial
  /\ items[i].state = "DONE" \/ items[i].job = "ok" => i \notin partial

\* Its row mirrors it.
Mirrored(i) ==
  LET r == rows[i] it == items[i] IN
  /\ r.err = it.err /\ r.list = it.list /\ r.pkg = it.pkg /\ r.prio = it.prio
  /\ r.enabled = it.enabled /\ r.autostart = it.autostart /\ r.pos = it.pos
  /\ r.delegate = it.delegate
  /\ r.state = it.state \/ (r.state = "QUEUED" /\ it.state \in {"ACTIVE", "DONE"})

LinkOK(i) == Typed(i) /\ Worked(i) /\ Shelved(i) /\ Mirrored(i)

\* What holds of the tables, counters and settings.  The tables may have rows
\* that the process has not loaded (QueueStore).
GlobalOK ==
  /\ DOMAIN items \subseteq DOMAIN rows /\ DOMAIN pkgs \subseteq DOMAIN pkgRows
  /\ \A p \in DOMAIN pkgs : pkgs[p] = pkgRows[p]
  /\ \A p \in DOMAIN pkgRows : p \in Packages /\ p < nextPkg /\ pkgRows[p] \in Package
  /\ nextId \in 1 .. (MaxLinks + 1) /\ nextPkg \in 1 .. (MaxPackages + 1)
  /\ nextPos \in 1 .. (PosBound + 1)
  /\ maxActive \in Int /\ maxActive >= 1 /\ globalAutostart \in BOOLEAN
  /\ cells \in [Links -> {"free", "clear", "set"}]
  /\ \A i \in Links : cells[i] # "free" => i \in DOMAIN items
  /\ partial \subseteq DOMAIN rows
  /\ \A i \in DOMAIN rows : i \in Links /\ i < nextId

Core == GlobalOK /\ \A i \in DOMAIN items : LinkOK(i)

\* In the linkgrabber it is under a package that is listed there, or is one of E.
Shown(E, i) ==
  LET p == items[i].pkg IN
  items[i].list = "linkgrabber" =>
    p \in E \/ (p \in DOMAIN pkgs /\ pkgs[p].list = "linkgrabber")
AllShown(E) == \A i \in DOMAIN items : Shown(E, i)

\* The process has every row of both tables.
AllLoaded == DOMAIN rows = DOMAIN items /\ DOMAIN pkgRows = DOMAIN pkgs

\* Packages and their table are functions.
Tables ==
  /\ pkgs = [p \in DOMAIN pkgs |-> pkgs[p]]
  /\ pkgRows = [p \in DOMAIN pkgRows |-> pkgRows[p]]

\* Core alone is what any queue keeps, one that was loaded in part or after a
\* confirm was cut short (QueueStore) included; one that runs undisturbed keeps all.
IInv == Core /\ Tables /\ AllLoaded /\ AllShown({})

USE DEF Lists, QState, Outcomes, Jobs

LEMMA ClampRange == \A v \in Int : Clamp(v) \in PriorityRange
BY DEF Clamp, PriorityRange, LOWEST, HIGHEST


\* A link nothing is written to stays in order when the rest changes mildly:
\* no part file appears, and the global pause does not begin over its worker.
Around(j) ==
  /\ cells'[j] = cells[j]
  /\ globalAutostart' = globalAutostart \/ globalAutostart' = TRUE \/ items[j].job = "none"
  /\ j \in partial' => j \in partial

LEMMA Kept ==
  ASSUME NEW j, LinkOK(j), items'[j] = items[j], rows'[j] = rows[j], Around(j),
         globalAutostart \in BOOLEAN
  PROVE  LinkOK(j)'
<1>1. Typed(j)' BY DEF LinkOK, Typed
<1>2. Worked(j)' BY DEF LinkOK, Typed, Item, Worked, Around
<1>3. Shelved(j)' BY DEF LinkOK, Shelved, Around
<1>4. Mirrored(j)' BY DEF LinkOK, Mirrored
<1> QED BY <1>1, <1>2, <1>3, <1>4 DEF LinkOK

\* The same when the columns a caller edits change together in link and row.
Relabels(j) ==
  LET it == items[j] new == items'[j] r == rows[j] row == rows'[j] IN
  /\ new \in Item /\ row \in Row
  /\ new.state = it.state /\ new.err = it.err /\ new.list = it.list /\ new.pkg = it.pkg
  /\ new.force = it.force /\ new.delegate = it.delegate /\ new.job = it.job
  /\ new.token = it.token /\ new.cancelRequested = it.cancelRequested
  /\ new.removeRequested = it.removeRequested
  /\ row.state = r.state /\ row.err = r.err /\ row.list = r.list /\ row.pkg = r.pkg
  /\ row.delegate = r.delegate
  /\ row.prio = new.prio /\ row.enabled = new.enabled
  /\ row.autostart = new.autostart /\ row.pos = new.pos

LEMMA Relabelled ==
  ASSUME NEW j, LinkOK(j), Around(j), Relabels(j)
  PROVE  LinkOK(j)'
<1>1. Typed(j)' BY DEF LinkOK, Typed, Relabels
<1>2. Worked(j)' BY DEF LinkOK, Worked, Around, Relabels
<1>3. Shelved(j)' BY DEF LinkOK, Shelved, Around, Relabels
<1>4. Mirrored(j)' BY DEF LinkOK, Mirrored, Relabels
<1> QED BY <1>1, <1>2, <1>3, <1>4 DEF LinkOK

\* A verb that settles a link writes its state and error and no other column.
SameColumns(j) ==
  LET it == items[j] new == items'[j] r == rows[j] row == rows'[j] IN
  /\ new.list = it.list /\ new.pkg = it.pkg /\ new.prio = it.prio
  /\ new.enabled = it.enabled /\ new.autostart = it.autostart
  /\ new.pos = it.pos /\ new.delegate = it.delegate
  /\ row.list = r.list /\ row.pkg = r.pkg /\ row.prio = r.prio
  /\ row.enabled = r.enabled /\ row.autostart = r.autostart
  /\ row.pos = r.pos /\ row.delegate = r.delegate

LEMMA MirrorSettled ==
  ASSUME NEW j, Mirrored(j), SameColumns(j), rows'[j].err = items'[j].err,
         \/ rows'[j].state = items'[j].state
         \/ rows'[j].state = "QUEUED" /\ items'[j].state \in {"ACTIVE", "DONE"}
  PROVE  Mirrored(j)'
BY DEF Mirrored, SameColumns

\* When nothing but fields of links changes, only links are left to check.
LEMMA FieldsOnly ==
  ASSUME Core, UNCHANGED <<packages, counters, settings, machine>>,
         DOMAIN items' = DOMAIN items, DOMAIN rows' = DOMAIN rows
  PROVE  GlobalOK' /\ \A j \in DOMAIN items : Around(j)
<1>1. GlobalOK'
  BY DEF Core, GlobalOK, packages, counters, settings, machine
<1>2. \A j \in DOMAIN items : Around(j)
  BY DEF Core, LinkOK, Shelved, Around, packages, settings, machine
<1> QED BY <1>1, <1>2

---------------------------------------------------------------------------
(* One lemma per verb *)

LEMMA SetPriorityKeeps ==
  ASSUME NEW i \in DOMAIN items, NEW v \in Priorities, Core, SetPriority(i, v) PROVE Core'
<1>0. Clamp(v) \in PriorityRange BY ClampRange, BoundsAssumption
<1>1. GlobalOK' /\ \A j \in DOMAIN items : Around(j)
  <2>1. DOMAIN items' = DOMAIN items /\ DOMAIN rows' = DOMAIN rows
    BY DEF SetPriority, Each
  <2> QED BY <2>1, FieldsOnly DEF SetPriority
<1>2. ASSUME NEW j \in DOMAIN items' PROVE LinkOK(j)'
  <2>1. j \in DOMAIN items /\ j \in DOMAIN rows /\ LinkOK(j) /\ Around(j)
    BY <1>1 DEF SetPriority, Each, Core, GlobalOK
  <2>2. globalAutostart \in BOOLEAN BY DEF Core, GlobalOK
  <2>3. CASE j = i
    <3>1. items'[j] = [items[j] EXCEPT !.prio = Clamp(v)]
      BY <2>1, <2>3 DEF SetPriority, Each
    <3>2. rows'[j] = [rows[j] EXCEPT !.prio = Clamp(v)]
      BY <2>1, <2>3 DEF SetPriority, Each
    <3>3. Relabels(j)
      BY <1>0, <2>1, <3>1, <3>2 DEF LinkOK, Typed, Mirrored, Item, Row, Relabels
    <3> QED BY <2>1, <3>3, Relabelled
  <2>4. CASE j # i
    BY <2>1, <2>2, <2>4, Kept DEF SetPriority, Each
  <2> QED BY <2>3, <2>4
<1> QED BY <1>1, <1>2 DEF Core

LEMMA ResumeKeeps ==
  ASSUME NEW i \in DOMAIN items, Core, Resume(i) PROVE Core'
<1>1. GlobalOK' /\ \A j \in DOMAIN items : Around(j)
  <2>1. DOMAIN items' = DOMAIN items /\ DOMAIN rows' = DOMAIN rows
    BY DEF Resume, RowsInState, Each
  <2> QED BY <2>1, FieldsOnly DEF Resume
<1>2. ASSUME NEW j \in DOMAIN items' PROVE LinkOK(j)'
  <2>1. j \in DOMAIN items /\ j \in DOMAIN rows /\ LinkOK(j) /\ Around(j)
    BY <1>1 DEF Resume, Core, GlobalOK
  <2>2. globalAutostart \in BOOLEAN BY DEF Core, GlobalOK
  <2>3. CASE j = i
    <3>1. items'[j] = [items[j] EXCEPT !.state = "QUEUED", !.cancelRequested = FALSE,
                                       !.globallyPaused = FALSE, !.err = FALSE]
      BY <2>1, <2>3 DEF Resume
    <3>2. rows'[j] = [rows[j] EXCEPT !.state = "QUEUED", !.err = FALSE]
      BY <2>1, <2>3 DEF Resume, RowsInState, Each
    <3>3. items[j].state \in {"PAUSED", "ERROR"}
      BY <2>3 DEF Resume
    <3>4. Typed(j)' BY ZenonT(60), <2>1, <3>1, <3>2 DEF LinkOK, Typed, Item, Row
    <3>5. Worked(j)' BY <2>1, <3>1, <3>3 DEF LinkOK, Typed, Item, Worked, Around
    <3>6. Shelved(j)' BY <2>1, <3>1 DEF LinkOK, Typed, Item, Shelved, Around
    <3>7. Mirrored(j)' BY <2>1, <3>1, <3>2 DEF LinkOK, Typed, Item, Row, Mirrored
    <3> QED BY <3>4, <3>5, <3>6, <3>7 DEF LinkOK
  <2>4. CASE j # i
    BY <2>1, <2>2, <2>4, Kept DEF Resume, RowsInState, Each
  <2> QED BY <2>3, <2>4
<1> QED BY <1>1, <1>2 DEF Core

LEMMA SetEnabledKeeps ==
  ASSUME NEW S, NEW on \in Toggles, Core, SetEnabled(S, on) PROVE Core'
<1>0. on \in BOOLEAN BY BoundsAssumption
<1>1. GlobalOK' /\ \A j \in DOMAIN items : Around(j)
  <2>1. DOMAIN items' = DOMAIN items /\ DOMAIN rows' = DOMAIN rows
    BY DEF SetEnabled, Each
  <2> QED BY <2>1, FieldsOnly DEF SetEnabled
<1>2. ASSUME NEW j \in DOMAIN items' PROVE LinkOK(j)'
  <2>1. j \in DOMAIN items /\ j \in DOMAIN rows /\ LinkOK(j) /\ Around(j)
    BY <1>1 DEF SetEnabled, Each, Core, GlobalOK
  <2>2. globalAutostart \in BOOLEAN BY DEF Core, GlobalOK
  <2>3. CASE j \in S
    <3>1. items'[j] = [items[j] EXCEPT !.enabled = on]
      BY <2>1, <2>3 DEF SetEnabled, Each
    <3>2. rows'[j] = [rows[j] EXCEPT !.enabled = on]
      BY <2>1, <2>3 DEF SetEnabled, Each
    <3>3. Relabels(j)
      BY <1>0, <2>1, <3>1, <3>2 DEF LinkOK, Typed, Mirrored, Item, Row, Relabels
    <3> QED BY <2>1, <3>3, Relabelled
  <2>4. CASE j \notin S
    BY <2>1, <2>2, <2>4, Kept DEF SetEnabled, Each
  <2> QED BY <2>3, <2>4
<1> QED BY <1>1, <1>2 DEF Core

LEMMA SetAutostartKeeps ==
  ASSUME NEW S, NEW on \in Toggles, Core, SetAutostart(S, on) PROVE Core'
<1>0. on \in BOOLEAN BY BoundsAssumption
<1>1. GlobalOK' /\ \A j \in DOMAIN items : Around(j)
  <2>1. DOMAIN items' = DOMAIN items /\ DOMAIN rows' = DOMAIN rows
    BY DEF SetAutostart, Each
  <2> QED BY <2>1, FieldsOnly DEF SetAutostart
<1>2. ASSUME NEW j \in DOMAIN items' PROVE LinkOK(j)'
  <2>1. j \in DOMAIN items /\ j \in DOMAIN rows /\ LinkOK(j) /\ Around(j)
    BY <1>1 DEF SetAutostart, Each, Core, GlobalOK
  <2>2. globalAutostart \in BOOLEAN BY DEF Core, GlobalOK
  <2>3. CASE j \in S
    <3>1. items'[j] = [items[j] EXCEPT !.autostart = on]
      BY <2>1, <2>3 DEF SetAutostart, Each
    <3>2. rows'[j] = [rows[j] EXCEPT !.autostart = on]
      BY <2>1, <2>3 DEF SetAutostart, Each
    <3>3. Relabels(j)
      BY <1>0, <2>1, <3>1, <3>2 DEF LinkOK, Typed, Mirrored, Item, Row, Relabels
    <3> QED BY <2>1, <3>3, Relabelled
  <2>4. CASE j \notin S
    BY <2>1, <2>2, <2>4, Kept DEF SetAutostart, Each
  <2> QED BY <2>3, <2>4
<1> QED BY <1>1, <1>2 DEF Core

LEMMA SetPackagePriorityKeeps ==
  ASSUME NEW p, NEW v \in Priorities, Core, SetPackagePriority(p, v) PROVE Core'
<1>0. Clamp(v) \in PriorityRange BY ClampRange, BoundsAssumption
<1>1. \A q \in DOMAIN pkgs : /\ q \in DOMAIN pkgs' /\ pkgs'[q].list = pkgs[q].list
                            /\ pkgs'[q] \in Package
  BY <1>0 DEF SetPackagePriority, Each, Core, GlobalOK, Package
<1>2. GlobalOK'
  BY <1>1 DEF SetPackagePriority, Each, Core, GlobalOK, counters, settings, machine
<1>3. \A j \in DOMAIN items : Around(j)
  BY <1>1 DEF SetPackagePriority, Core, LinkOK, Shelved, Around, settings, machine
<1>4. ASSUME NEW j \in DOMAIN items' PROVE LinkOK(j)'
  <2>1. j \in DOMAIN items /\ j \in DOMAIN rows /\ LinkOK(j) /\ Around(j)
    BY <1>3 DEF SetPackagePriority, Each, Core, GlobalOK
  <2>2. globalAutostart \in BOOLEAN BY DEF Core, GlobalOK
  <2>3. CASE j \in Members(p)
    <3>1. items'[j] = [items[j] EXCEPT !.prio = Clamp(v)]
      BY <2>1, <2>3 DEF SetPackagePriority, Each
    <3>2. rows'[j] = [rows[j] EXCEPT !.prio = Clamp(v)]
      BY <2>1, <2>3 DEF SetPackagePriority, Each
    <3>3. Relabels(j)
      BY <1>0, <2>1, <3>1, <3>2 DEF LinkOK, Typed, Mirrored, Item, Row, Relabels
    <3> QED BY <2>1, <3>3, Relabelled
  <2>4. CASE j \notin Members(p)
    BY <2>1, <2>2, <2>4, Kept DEF SetPackagePriority, Each
  <2> QED BY <2>3, <2>4
<1> QED BY <1>2, <1>4 DEF Core

LEMMA PkgUpdateKeeps ==
  ASSUME NEW p, NEW v \in Priorities, Core, PkgUpdate(p, v) PROVE Core'
<1>0. Clamp(v) \in PriorityRange BY ClampRange, BoundsAssumption
<1>1. \A q \in DOMAIN pkgs : /\ q \in DOMAIN pkgs' /\ pkgs'[q].list = pkgs[q].list
                            /\ pkgs'[q] \in Package
  BY <1>0 DEF PkgUpdate, Each, Core, GlobalOK, Package
<1>2. GlobalOK'
  BY <1>1 DEF PkgUpdate, Each, Core, GlobalOK, counters, settings, machine
<1>3. \A j \in DOMAIN items : LinkOK(j) /\ Around(j)
  BY <1>1 DEF PkgUpdate, Core, LinkOK, Shelved, Around, settings, machine
<1>4. \A j \in DOMAIN items' : LinkOK(j)'
  BY <1>3, Kept DEF PkgUpdate, Core, GlobalOK
<1> QED BY <1>2, <1>4 DEF Core

LEMMA ForceKeeps ==
  ASSUME NEW S, Core, ForceStart(S) PROVE Core'
<1>1. GlobalOK' /\ \A j \in DOMAIN items : Around(j)
  <2>1. DOMAIN items' = DOMAIN items /\ DOMAIN rows' = DOMAIN rows
    BY DEF ForceStart, Each
  <2> QED BY <2>1, FieldsOnly DEF ForceStart
<1>2. ASSUME NEW j \in DOMAIN items' PROVE LinkOK(j)'
  <2>1. j \in DOMAIN items /\ j \in DOMAIN rows /\ LinkOK(j) /\ Around(j)
    BY <1>1 DEF ForceStart, Each, Core, GlobalOK
  <2>2. globalAutostart \in BOOLEAN BY DEF Core, GlobalOK
  <2>3. CASE j \in S \ Staged
    <3>1. items'[j] = Forced(items[j])
      BY <2>1, <2>3 DEF ForceStart, Each
    <3>2. rows'[j] = [rows[j] EXCEPT !.enabled = TRUE, !.state = "QUEUED", !.err = FALSE]
      BY <2>1, <2>3 DEF ForceStart, Each
    <3>3. items[j].list # "linkgrabber"
      BY <2>1, <2>3 DEF Staged
    <3>4. CASE items[j].state \in {"PAUSED", "ERROR"}
      <4>1. items'[j] = [items[j] EXCEPT !.enabled = TRUE, !.force = TRUE, !.state = "QUEUED",
                                         !.cancelRequested = FALSE, !.err = FALSE]
        BY <3>1, <3>4 DEF Forced
      <4>2. Typed(j)' BY ZenonT(60), <2>1, <3>2, <4>1 DEF LinkOK, Typed, Item, Row
      <4>3. Worked(j)' BY <2>1, <3>4, <4>1 DEF LinkOK, Typed, Item, Worked, Around
      <4>4. Shelved(j)' BY <2>1, <3>3, <4>1 DEF LinkOK, Typed, Item, Shelved, Around
      <4>5. Mirrored(j)' BY <2>1, <3>2, <4>1 DEF LinkOK, Typed, Item, Row, Mirrored
      <4> QED BY <4>2, <4>3, <4>4, <4>5 DEF LinkOK
    <3>5. CASE items[j].state \notin {"PAUSED", "ERROR"}
      <4>1. items'[j] = [items[j] EXCEPT !.enabled = TRUE, !.force = TRUE]
        BY <3>1, <3>5 DEF Forced
      <4>2. Typed(j)' BY ZenonT(60), <2>1, <3>2, <4>1 DEF LinkOK, Typed, Item, Row
      <4>3. Worked(j)' BY <2>1, <4>1 DEF LinkOK, Typed, Item, Worked, Around
      <4>4. Shelved(j)' BY <2>1, <3>3, <4>1 DEF LinkOK, Typed, Item, Shelved, Around
      <4>5. items[j].err = FALSE /\ items[j].state \in {"QUEUED", "ACTIVE", "DONE"}
        BY <2>1, <3>5 DEF LinkOK, Typed, Item, Worked
      <4>6. items'[j].err = items[j].err /\ rows'[j].err = FALSE
        BY <2>1, <3>2, <4>1 DEF LinkOK, Typed, Item, Row
      <4>7. rows'[j].err = items'[j].err BY <4>5, <4>6
      <4>8. Mirrored(j)'
        <5>1. items'[j].state = items[j].state /\ rows'[j].state = "QUEUED"
          BY <2>1, <3>2, <4>1 DEF LinkOK, Typed, Item, Row
        <5>2. rows'[j].enabled = items'[j].enabled
          BY <2>1, <3>2, <4>1 DEF LinkOK, Typed, Item, Row
        <5>3. /\ items'[j].list = items[j].list /\ items'[j].pkg = items[j].pkg
              /\ items'[j].prio = items[j].prio /\ items'[j].autostart = items[j].autostart
              /\ items'[j].pos = items[j].pos /\ items'[j].delegate = items[j].delegate
          BY <2>1, <4>1 DEF LinkOK, Typed, Item
        <5>4. /\ rows'[j].list = rows[j].list /\ rows'[j].pkg = rows[j].pkg
              /\ rows'[j].prio = rows[j].prio /\ rows'[j].autostart = rows[j].autostart
              /\ rows'[j].pos = rows[j].pos /\ rows'[j].delegate = rows[j].delegate
          BY <2>1, <3>2 DEF LinkOK, Typed, Row
        <5> QED BY <2>1, <4>5, <4>7, <5>1, <5>2, <5>3, <5>4 DEF LinkOK, Mirrored
      <4> QED BY <4>2, <4>3, <4>4, <4>8 DEF LinkOK
    <3> QED BY <3>4, <3>5
  <2>4. CASE j \notin S \ Staged
    BY <2>1, <2>2, <2>4, Kept DEF ForceStart, Each
  <2> QED BY <2>3, <2>4
<1> QED BY <1>1, <1>2 DEF Core

LEMMA PauseKeeps ==
  ASSUME NEW i \in DOMAIN items, Core, Pause(i) PROVE Core'
<1>1. DOMAIN items' = DOMAIN items /\ DOMAIN rows' = DOMAIN rows
  BY DEF Pause, RowsInState, Each
<1>2. cells' \in [Links -> {"free", "clear", "set"}]
  BY DEF Pause, CellsTripped, Core, GlobalOK
<1>3. \A j \in Links : /\ cells'[j] # "free" => cells[j] # "free"
                       /\ j # i => cells'[j] = cells[j]
  BY DEF Pause, CellsTripped, Core, GlobalOK, LinkOK, Worked
<1>4. GlobalOK'
  BY <1>1, <1>2, <1>3 DEF Pause, Core, GlobalOK, packages, counters, settings
<1>5. ASSUME NEW j \in DOMAIN items' PROVE LinkOK(j)'
  <2>1. j \in DOMAIN items /\ j \in DOMAIN rows /\ LinkOK(j) /\ j \in Links
    BY <1>1 DEF Core, GlobalOK, LinkOK, Typed
  <2>2. globalAutostart \in BOOLEAN BY DEF Core, GlobalOK
  <2>3. CASE j # i
    <3>1. items'[j] = items[j] /\ rows'[j] = rows[j]
      BY <2>1, <2>3 DEF Pause, RowsInState, Each
    <3>2. Around(j)
      BY <1>3, <2>1, <2>3 DEF Pause, LinkOK, Shelved, Around, packages, settings
    <3> QED BY <2>1, <2>2, <3>1, <3>2, Kept
  <2>4. CASE j = i
    <3> DEFINE it == [items[j] EXCEPT !.force = FALSE, !.globallyPaused = FALSE]
    <3>0. globalAutostart' = globalAutostart /\ pkgs' = pkgs /\ partial' = partial
      BY DEF Pause, packages, settings
    <3>1. it.state = items[j].state
      BY <2>1 DEF LinkOK, Typed, Item
    <3>2. CASE it.state = "ACTIVE"
      <4>1. items'[j] = [it EXCEPT !.cancelRequested = TRUE] /\ rows'[j] = rows[j]
        BY <2>1, <2>4, <3>2 DEF Pause, Cancelling
      <4>2. cells'[j] = IF items[j].token THEN "set" ELSE cells[j]
        BY <2>1, <2>4, <3>2 DEF Pause, CellsTripped
      <4>3. Typed(j)' BY <2>1, <4>1 DEF LinkOK, Typed, Item
      <4>4. Worked(j)' BY <2>1, <3>0, <4>1, <4>2 DEF LinkOK, Typed, Item, Worked
      <4>5. Shelved(j)' BY <2>1, <3>0, <4>1 DEF LinkOK, Typed, Item, Shelved
      <4>6. Mirrored(j)' BY <2>1, <4>1 DEF LinkOK, Typed, Item, Mirrored
      <4> QED BY <4>3, <4>4, <4>5, <4>6 DEF LinkOK
    <3>3. CASE it.state = "QUEUED"
      <4>1. items'[j] = [it EXCEPT !.state = "PAUSED"] /\ cells'[j] = cells[j]
        BY <2>1, <2>4, <3>3 DEF Pause
      <4>2. rows'[j] = [rows[j] EXCEPT !.state = "PAUSED", !.err = FALSE]
        BY <2>1, <2>4, <3>3 DEF Pause, RowsInState, Each
      <4>3. Typed(j)' BY ZenonT(60), <2>1, <4>1, <4>2 DEF LinkOK, Typed, Item, Row
      <4>4. Worked(j)' BY <2>1, <3>0, <3>1, <3>3, <4>1 DEF LinkOK, Typed, Item, Worked
      <4>5. Shelved(j)' BY <2>1, <3>0, <4>1 DEF LinkOK, Typed, Item, Shelved
      <4>6. items[j].err = FALSE
        BY <2>1, <3>1, <3>3 DEF LinkOK, Typed, Item, Worked
      <4>7. items'[j].err = items[j].err /\ rows'[j].err = FALSE
        BY <2>1, <4>1, <4>2 DEF LinkOK, Typed, Item, Row
      <4>8. rows'[j].err = items'[j].err BY <4>6, <4>7
      <4>9. SameColumns(j) /\ rows'[j].state = items'[j].state
        BY <2>1, <4>1, <4>2 DEF LinkOK, Typed, Item, Row, SameColumns
      <4>10. Mirrored(j)'
        BY <2>1, <4>8, <4>9, MirrorSettled DEF LinkOK
      <4> QED BY <4>3, <4>4, <4>5, <4>10 DEF LinkOK
    <3>4. CASE it.state \notin {"ACTIVE", "QUEUED"}
      <4>1. items'[j] = it /\ rows'[j] = rows[j] /\ cells'[j] = cells[j]
        BY <2>1, <2>4, <3>4 DEF Pause
      <4>3. Typed(j)' BY <2>1, <4>1 DEF LinkOK, Typed, Item
      <4>4. Worked(j)'
        BY <2>1, <3>0, <3>1, <3>4, <4>1 DEF LinkOK, Typed, Item, Worked
      <4>5. Shelved(j)' BY <2>1, <3>0, <4>1 DEF LinkOK, Typed, Item, Shelved
      <4>6. Mirrored(j)' BY <2>1, <4>1 DEF LinkOK, Typed, Item, Mirrored
      <4> QED BY <4>3, <4>4, <4>5, <4>6 DEF LinkOK
    <3> QED BY <3>2, <3>3, <3>4
  <2> QED BY <2>3, <2>4
<1> QED BY <1>4, <1>5 DEF Core

---------------------------------------------------------------------------
(* Links come and go *)

\* A link that was just read from its row is in order.
LEMMA FreshLink ==
  ASSUME NEW j \in Links, NEW r \in Row, items'[j] = ItemOf(r), rows'[j] = r,
         r.state # "ACTIVE", r.err => r.state = "ERROR", cells'[j] = "free",
         r.list = "linkgrabber" => r.state \in {"QUEUED", "PAUSED"} /\ j \notin partial',
         r.state = "DONE" => j \notin partial'
  PROVE  LinkOK(j)'
<1>1. ItemOf(r) \in Item BY DEF ItemOf, Item, Row
<1>2. Typed(j)' BY <1>1 DEF Typed
<1>3. Worked(j)' BY DEF Worked, ItemOf
<1>4. Shelved(j)' BY DEF Shelved, ItemOf
<1>5. Mirrored(j)' BY DEF Mirrored, ItemOf
<1> QED BY <1>2, <1>3, <1>4, <1>5 DEF LinkOK

LEMMA NewRowTyped ==
  ASSUME NEW list \in Lists, NEW p \in PkgRefs, NEW pos \in Positions, NEW d \in BOOLEAN
  PROVE  NewRow(list, p, pos, d) \in Row
<1>1. DEFAULT \in PriorityRange BY DEF DEFAULT, PriorityRange, LOWEST, HIGHEST
<1> QED BY <1>1 DEF NewRow, Row

LEMMA AddFailsKeeps ==
  ASSUME Core, AddFails PROVE Core'
<1>1. GlobalOK'
  BY BoundsAssumption DEF AddFails, Core, GlobalOK, packages, settings, machine
<1>2. \A j \in DOMAIN items : LinkOK(j) /\ Around(j)
  BY DEF AddFails, Core, LinkOK, Shelved, Around, packages, settings, machine
<1>3. \A j \in DOMAIN items' : LinkOK(j)'
  BY <1>2, Kept DEF AddFails, Core, GlobalOK
<1> QED BY <1>1, <1>3 DEF Core

LEMMA AddKeeps ==
  ASSUME NEW d \in Delegates, Core, Add(d) PROVE Core'
<1> DEFINE row == NewRow("download", 0, nextPos, d)
<1>1. row \in Row
  <2>1. 0 \in PkgRefs BY BoundsAssumption DEF PkgRefs
  <2>2. nextPos \in Positions BY BoundsAssumption DEF Positions, Add, Core, GlobalOK
  <2>3. d \in BOOLEAN BY BoundsAssumption
  <2> QED BY <2>1, <2>2, <2>3, NewRowTyped
<1>2. /\ nextId \in Links /\ nextId \notin DOMAIN rows /\ nextId \notin DOMAIN items
      /\ cells[nextId] = "free"
  BY BoundsAssumption DEF Add, Links, Core, GlobalOK
<1>3. DOMAIN items' = DOMAIN items \cup {nextId} /\ DOMAIN rows' = DOMAIN rows \cup {nextId}
  BY DEF Add
<1>4. GlobalOK'
  <2>1. /\ nextId' = nextId + 1 /\ nextPos' = nextPos + 1 /\ nextId <= MaxLinks
        /\ nextPos < PosBound
        /\ UNCHANGED <<pkgs, pkgRows, nextPkg, maxActive, globalAutostart, cells, partial>>
    BY DEF Add, packages, settings, machine
  <2>2. \A i \in Links : i \in Int BY DEF Links
  <2>3. nextId' \in 1 .. (MaxLinks + 1) /\ nextPos' \in 1 .. (PosBound + 1)
    BY <2>1, BoundsAssumption DEF Core, GlobalOK
  <2>4. \A i \in DOMAIN rows' : i \in Links /\ i < nextId'
    BY <1>2, <1>3, <2>1, <2>2 DEF Core, GlobalOK
  <2> QED BY <1>3, <2>1, <2>3, <2>4 DEF Core, GlobalOK
<1>5. ASSUME NEW j, j = nextId PROVE LinkOK(j)'
  <2>1. items'[j] = ItemOf(row) /\ rows'[j] = row
    BY <1>2, <1>3, <1>5 DEF Add
  <2>2. row.state = "QUEUED" /\ row.err = FALSE /\ row.list = "download"
    BY DEF NewRow
  <2>3. cells'[j] = "free" BY <1>2, <1>5 DEF Add, machine
  <2>4. j \in Links BY <1>2, <1>5
  <2> HIDE DEF row
  <2> QED BY <1>1, <2>1, <2>2, <2>3, <2>4, FreshLink
<1>6. ASSUME NEW j \in DOMAIN items PROVE LinkOK(j)'
  <2>1. items'[j] = items[j] /\ rows'[j] = rows[j]
    BY <1>2 DEF Add, Core, GlobalOK
  <2>2. LinkOK(j) /\ Around(j) /\ globalAutostart \in BOOLEAN
    BY DEF Add, Core, GlobalOK, LinkOK, Shelved, Around, packages, settings, machine
  <2> QED BY <2>1, <2>2, Kept
<1> QED BY <1>3, <1>4, <1>5, <1>6 DEF Core

LEMMA GrabKeeps ==
  ASSUME NEW k \in 1 .. MaxGrab, Core, Grab(k) PROVE Core'
<1> DEFINE Pkg == [list |-> "linkgrabber", prio |-> DEFAULT, pos |-> nextPos]
<1>0. PICK n \in 0 .. k :
        \E at \in [NewIds(n) -> (nextPos + 1) .. (nextPos + k)], d \in [NewIds(n) -> Delegates] :
          GrabInto(Pkg, k, n, at, d)
  BY DEF Grab
<1>1. PICK at \in [NewIds(n) -> (nextPos + 1) .. (nextPos + k)], d \in [NewIds(n) -> Delegates] :
        GrabInto(Pkg, k, n, at, d)
  BY <1>0
<1>2. /\ nextPkg <= MaxPackages /\ nextId + n <= MaxLinks + 1 /\ nextPos + k <= PosBound
      /\ nextId' = nextId + n /\ nextPkg' = nextPkg + 1 /\ nextPos' = nextPos + k + 1
      /\ UNCHANGED <<maxActive, globalAutostart, cells, partial>>
  BY <1>1 DEF GrabInto, settings, machine
<1>3. \A i \in NewIds(n) : /\ i \in Links /\ i \notin DOMAIN rows /\ i \notin DOMAIN items
                        /\ cells[i] = "free" /\ i < nextId' /\ i \notin partial
  <2>1. nextId \in Int /\ MaxLinks \in Int /\ n \in Int /\ nextId >= 1
    BY BoundsAssumption DEF Core, GlobalOK
  <2>2. ASSUME NEW i \in NewIds(n)
        PROVE  i \in Int /\ nextId <= i /\ i < nextId + n /\ i \in Links
    BY <1>2, <2>1 DEF NewIds, Links
  <2>3. ASSUME NEW i \in Links, nextId <= i
        PROVE  i \notin DOMAIN rows /\ cells[i] = "free"
    <3>1. \A j \in DOMAIN rows : j \in Links /\ j < nextId BY DEF Core, GlobalOK
    <3>2. i \in Int BY DEF Links
    <3>3. i \notin DOMAIN rows BY <2>1, <2>3, <3>1, <3>2
    <3> QED BY <2>3, <3>3 DEF Core, GlobalOK
  <2>4. DOMAIN items \subseteq DOMAIN rows /\ partial \subseteq DOMAIN rows
    BY DEF Core, GlobalOK
  <2> QED BY <1>2, <2>2, <2>3, <2>4
<1>4. Pkg \in Package /\ nextPkg \in Packages /\ nextPkg \notin DOMAIN pkgRows
  <2>1. DEFAULT \in PriorityRange BY DEF DEFAULT, PriorityRange, LOWEST, HIGHEST
  <2>2. nextPos + k <= PosBound /\ nextPkg <= MaxPackages BY <1>2
  <2>3. nextPos \in Positions /\ nextPkg \in Packages
    BY <2>2, BoundsAssumption DEF Positions, Packages, Core, GlobalOK
  <2>4. Pkg \in Package BY <2>1, <2>3 DEF Package
  <2> QED BY <2>3, <2>4 DEF Packages, Core, GlobalOK
<1>5. DOMAIN items' = DOMAIN items \cup NewIds(n) /\ DOMAIN rows' = DOMAIN rows \cup NewIds(n)
  BY <1>1 DEF GrabInto
<1>6. GlobalOK'
  <2>1. /\ DOMAIN pkgs' \subseteq DOMAIN pkgRows'
        /\ \A p \in DOMAIN pkgs' : pkgs'[p] = pkgRows'[p]
        /\ \A p \in DOMAIN pkgRows' : p \in Packages /\ p < nextPkg' /\ pkgRows'[p] \in Package
    <3>1. /\ pkgs' = [p \in DOMAIN pkgs \cup {nextPkg} |-> IF p = nextPkg THEN Pkg ELSE pkgs[p]]
          /\ pkgRows' = [p \in DOMAIN pkgRows \cup {nextPkg} |->
                           IF p = nextPkg THEN Pkg ELSE pkgRows[p]]
      BY <1>1 DEF GrabInto
    <3>2. nextPkg \in Int /\ \A p \in Packages : p \in Int BY <1>4 DEF Packages
    <3> HIDE DEF Pkg
    <3>3. /\ DOMAIN pkgs' \subseteq DOMAIN pkgRows'
          /\ \A p \in DOMAIN pkgs' : pkgs'[p] = pkgRows'[p]
      BY <3>1 DEF Core, GlobalOK
    <3>4. ASSUME NEW p \in DOMAIN pkgRows'
          PROVE  p \in Packages /\ p < nextPkg' /\ pkgRows'[p] \in Package
      <4>1. CASE p = nextPkg BY <1>2, <1>4, <3>1, <3>2, <4>1
      <4>2. CASE p # nextPkg
        <5>1. p \in DOMAIN pkgRows /\ pkgRows'[p] = pkgRows[p] BY <3>1, <3>4, <4>2
        <5> QED BY <1>2, <3>2, <5>1 DEF Core, GlobalOK
      <4> QED BY <4>1, <4>2
    <3> QED BY <3>3, <3>4
  <2>2. nextId' \in 1 .. (MaxLinks + 1) /\ nextPkg' \in 1 .. (MaxPackages + 1)
        /\ nextPos' \in 1 .. (PosBound + 1)
    BY <1>2, BoundsAssumption DEF Core, GlobalOK
  <2>3. \A i \in DOMAIN rows' : i \in Links /\ i < nextId'
    <3>1. \A i \in DOMAIN rows : i \in Links /\ i < nextId BY DEF Core, GlobalOK
    <3> QED BY <1>2, <1>3, <1>5, <3>1, BoundsAssumption DEF Links, Core, GlobalOK
  <2> QED BY <1>2, <1>5, <2>1, <2>2, <2>3 DEF Core, GlobalOK
<1>7. ASSUME NEW j \in NewIds(n) PROVE LinkOK(j)'
  <2> DEFINE row == NewRow("linkgrabber", nextPkg, at[j], d[j])
  <2>1. row \in Row
    <3>1. nextPkg \in PkgRefs BY <1>2, BoundsAssumption DEF PkgRefs, Core, GlobalOK
    <3>2. at[j] \in Positions
      BY <1>2, BoundsAssumption DEF Positions, Core, GlobalOK
    <3>3. d[j] \in BOOLEAN BY BoundsAssumption
    <3> QED BY <3>1, <3>2, <3>3, NewRowTyped
  <2>2. items'[j] = ItemOf(row) /\ rows'[j] = row BY <1>1 DEF GrabInto
  <2>3. row.state = "QUEUED" /\ row.err = FALSE /\ row.pkg = nextPkg
    BY DEF NewRow
  <2>4. cells'[j] = "free" /\ j \notin partial' /\ j \in Links
    BY <1>2, <1>3
  <2> HIDE DEF row
  <2> QED BY <2>1, <2>2, <2>3, <2>4, FreshLink
<1>8. ASSUME NEW j \in DOMAIN items PROVE LinkOK(j)'
  <2>0. j \in DOMAIN rows /\ j \notin NewIds(n) BY <1>3 DEF Core, GlobalOK
  <2>1. items'[j] = items[j] /\ rows'[j] = rows[j]
    BY <1>1, <2>0 DEF GrabInto
  <2>2. LinkOK(j) /\ globalAutostart \in BOOLEAN BY DEF Core, GlobalOK
  <2>3. Around(j) BY <1>2, <2>2 DEF Around
  <2> QED BY <2>1, <2>2, <2>3, Kept
<1> QED BY <1>5, <1>6, <1>7, <1>8 DEF Core

LEMMA ConfirmLinksKeeps ==
  ASSUME NEW S, NEW P, NEW start \in BOOLEAN, Core, S \subseteq Staged,
         ConfirmLinks(S, P, start)
  PROVE  Core'
<1>1. /\ DOMAIN pkgs' = DOMAIN pkgs /\ DOMAIN pkgRows' = DOMAIN pkgRows
      /\ \A q \in DOMAIN pkgs : pkgs'[q] = pkgRows'[q]
      /\ \A q \in DOMAIN pkgRows : pkgRows'[q] \in Package
  BY DEF ConfirmLinks, Each, Core, GlobalOK, Package
<1>2. GlobalOK'
  <2>1. DOMAIN items' = DOMAIN items /\ DOMAIN rows' = DOMAIN rows
    BY DEF ConfirmLinks, Each
  <2>2. UNCHANGED <<counters, settings, machine>> BY DEF ConfirmLinks
  <2> QED BY <1>1, <2>1, <2>2 DEF Core, GlobalOK, counters, settings, machine
<1>3. ASSUME NEW j \in DOMAIN items' PROVE LinkOK(j)'
  <2>1. j \in DOMAIN items /\ j \in DOMAIN rows /\ LinkOK(j)
    BY DEF ConfirmLinks, Each, Core, GlobalOK
  <2>2. /\ globalAutostart \in BOOLEAN /\ globalAutostart' = globalAutostart
        /\ partial' = partial /\ cells'[j] = cells[j]
    BY DEF ConfirmLinks, Core, GlobalOK, settings, machine
  <2>3. CASE j \in S
    <3>1. items'[j] = [items[j] EXCEPT !.list = "download", !.state = "QUEUED",
                                       !.autostart = start]
      BY <2>1, <2>3 DEF ConfirmLinks, Each
    <3>2. rows'[j] = [rows[j] EXCEPT !.list = "download", !.state = "QUEUED", !.err = FALSE,
                                     !.autostart = start]
      BY <2>1, <2>3 DEF ConfirmLinks, Each
    <3>3. items[j].list = "linkgrabber" BY <2>1, <2>3 DEF Staged
    <3>4. items[j].state \in {"QUEUED", "PAUSED"} BY <2>1, <3>3 DEF LinkOK, Shelved
    <3>5. Typed(j)' BY ZenonT(60), <2>1, <3>1, <3>2 DEF LinkOK, Typed, Item, Row
    <3>6. Worked(j)' BY <2>1, <2>2, <3>1, <3>4 DEF LinkOK, Typed, Item, Worked
    <3>7. Shelved(j)' BY <2>1, <2>2, <3>1 DEF LinkOK, Typed, Item, Shelved
    <3>8. items[j].err = FALSE BY <2>1, <3>4 DEF LinkOK, Typed, Item, Worked
    <3>9. rows'[j].err = items'[j].err
      <4>1. items'[j].err = items[j].err /\ rows'[j].err = FALSE
        BY <2>1, <3>1, <3>2 DEF LinkOK, Typed, Item, Row
      <4> QED BY <3>8, <4>1
    <3>10. Mirrored(j)'
      <4>1. /\ items'[j].list = "download" /\ items'[j].autostart = start
            /\ items'[j].state = "QUEUED"
            /\ items'[j].pkg = items[j].pkg /\ items'[j].prio = items[j].prio
            /\ items'[j].enabled = items[j].enabled /\ items'[j].pos = items[j].pos
            /\ items'[j].delegate = items[j].delegate
        BY <2>1, <3>1 DEF LinkOK, Typed, Item
      <4>2. /\ rows'[j].list = "download" /\ rows'[j].autostart = start
            /\ rows'[j].state = "QUEUED"
            /\ rows'[j].pkg = rows[j].pkg /\ rows'[j].prio = rows[j].prio
            /\ rows'[j].enabled = rows[j].enabled /\ rows'[j].pos = rows[j].pos
            /\ rows'[j].delegate = rows[j].delegate
        BY <2>1, <3>2 DEF LinkOK, Typed, Row
      <4> QED BY <2>1, <3>9, <4>1, <4>2 DEF LinkOK, Mirrored
    <3> QED BY <3>5, <3>6, <3>7, <3>10 DEF LinkOK
  <2>4. CASE j \notin S
    <3>1. items'[j] = items[j] /\ rows'[j] = rows[j]
      BY <2>1, <2>4 DEF ConfirmLinks, Each
    <3>2. Around(j) BY <2>2 DEF Around
    <3> QED BY <2>1, <2>2, <3>1, <3>2, Kept
  <2> QED BY <2>3, <2>4
<1> QED BY <1>2, <1>3 DEF Core

LEMMA ConfirmKeeps ==
  ASSUME NEW start \in BOOLEAN, Core,
         \/ ConfirmAll(start)
         \/ \E p \in DOMAIN pkgs : ConfirmPackage(p, start)
         \/ \E i \in DOMAIN items : ConfirmLink(i, start)
  PROVE  Core'
<1>1. CASE ConfirmAll(start)
  BY <1>1, ConfirmLinksKeeps DEF ConfirmAll
<1>2. ASSUME NEW p \in DOMAIN pkgs, ConfirmPackage(p, start) PROVE Core'
  BY <1>2, ConfirmLinksKeeps DEF ConfirmPackage
<1>3. ASSUME NEW i \in DOMAIN items, ConfirmLink(i, start) PROVE Core'
  <2>1. {i} \subseteq Staged BY <1>3 DEF ConfirmLink
  <2> QED BY <1>3, <2>1, ConfirmLinksKeeps DEF ConfirmLink
<1> QED BY <1>1, <1>2, <1>3

\* Links R go, with their cells and part files, and packages P.
LEMMA DroppedGlobal ==
  ASSUME Core, NEW R, NEW P,
         DOMAIN items' = DOMAIN items \ R, DOMAIN rows' = DOMAIN rows \ R,
         pkgs' = Without(pkgs, P), pkgRows' = Without(pkgRows, P),
         UNCHANGED <<counters, settings>>, partial' \subseteq partial \ R,
         cells' \in [Links -> {"free", "clear", "set"}],
         \A i \in Links : cells'[i] # "free" => cells[i] # "free" /\ i \notin R
  PROVE  GlobalOK'
<1>1. /\ DOMAIN pkgs' = DOMAIN pkgs \ P /\ DOMAIN pkgRows' = DOMAIN pkgRows \ P
      /\ \A p \in DOMAIN pkgs' : pkgs'[p] = pkgs[p]
      /\ \A p \in DOMAIN pkgRows' : pkgRows'[p] = pkgRows[p]
  BY DEF Without
<1>2. UNCHANGED <<nextId, nextPkg, nextPos, maxActive, globalAutostart>>
  BY DEF counters, settings
<1> QED BY <1>1, <1>2 DEF Core, GlobalOK

LEMMA Dropped ==
  ASSUME Core, NEW R, NEW P,
         items' = Without(items, R), rows' = Without(rows, R),
         pkgs' = Without(pkgs, P), pkgRows' = Without(pkgRows, P),
         UNCHANGED <<counters, settings>>, partial' \subseteq partial \ R,
         cells' \in [Links -> {"free", "clear", "set"}],
         \A i \in Links : i \notin R => cells'[i] = cells[i],
         \A i \in Links : i \in R => cells'[i] = "free"
  PROVE  Core'
<1>1. DOMAIN items' = DOMAIN items \ R /\ DOMAIN rows' = DOMAIN rows \ R
  BY DEF Without
<1>2. GlobalOK' BY <1>1, DroppedGlobal
<1>3. ASSUME NEW j \in DOMAIN items' PROVE LinkOK(j)'
  <2>1. j \in DOMAIN items /\ j \notin R /\ LinkOK(j) /\ globalAutostart \in BOOLEAN
    BY <1>1 DEF Core, GlobalOK
  <2>2. items'[j] = items[j] /\ rows'[j] = rows[j]
    BY <2>1 DEF Without, Core, GlobalOK
  <2>3. Around(j) BY <2>1 DEF LinkOK, Typed, Around, settings
  <2> QED BY <2>1, <2>2, <2>3, Kept
<1> QED BY <1>2, <1>3 DEF Core

\* An idle link has no cell.
LEMMA IdleFree ==
  ASSUME Core, NEW j \in DOMAIN items, items[j].job = "none"
  PROVE  cells[j] = "free"
BY DEF Core, LinkOK, Worked

LEMMA LgDeleteKeeps ==
  ASSUME NEW R, NEW P, Core, R \subseteq Staged, LgDelete(R, P)
  PROVE  Core'
<1>1. \A j \in R : j \in DOMAIN items /\ items[j].job = "none" /\ j \notin partial
  BY DEF Staged, Core, LinkOK, Worked, Shelved
<1>2. /\ UNCHANGED <<counters, settings>> /\ partial' = partial /\ cells' = cells
      /\ items' = Without(items, R) /\ rows' = Without(rows, R)
      /\ pkgs' = Without(pkgs, P) /\ pkgRows' = Without(pkgRows, P)
  BY DEF LgDelete, machine
<1>3. \A i \in Links : i \in R => cells'[i] = "free" BY <1>1, <1>2, IdleFree
<1>4. cells' \in [Links -> {"free", "clear", "set"}] BY <1>2 DEF Core, GlobalOK
<1>5. partial' \subseteq partial \ R BY <1>1, <1>2
<1>6. \A i \in Links : i \notin R => cells'[i] = cells[i] BY <1>2
<1> QED BY <1>2, <1>3, <1>4, <1>5, <1>6, Dropped

LEMMA LgRemoveKeeps ==
  ASSUME Core, \/ LgRemoveAll
               \/ \E p \in DOMAIN pkgs : LgRemovePackage(p)
               \/ \E i \in DOMAIN items : LgRemoveLink(i)
  PROVE  Core'
<1>1. CASE LgRemoveAll
  BY <1>1, LgDeleteKeeps DEF LgRemoveAll
<1>2. ASSUME NEW p \in DOMAIN pkgs, LgRemovePackage(p) PROVE Core'
  BY <1>2, LgDeleteKeeps DEF LgRemovePackage
<1>3. ASSUME NEW i \in DOMAIN items, LgRemoveLink(i) PROVE Core'
  <2>1. {i} \subseteq Staged BY <1>3 DEF LgRemoveLink
  <2> QED BY <1>3, <2>1, LgDeleteKeeps DEF LgRemoveLink
<1> QED BY <1>1, <1>2, <1>3

LEMMA ClearKeeps ==
  ASSUME Core, ClearFinished \/ ClearFailed PROVE Core'
<1>1. ASSUME NEW R, NEW cleaned, Clear(R, cleaned),
             \A j \in R : j \in DOMAIN items /\ items[j].job = "none",
             \A j \in R : j \notin partial \/ j \in cleaned
      PROVE  Core'
  <2> DEFINE P == Emptied({items[i].pkg : i \in R}, R)
  <2>1. /\ UNCHANGED <<counters, settings>> /\ cells' = cells
        /\ items' = Without(items, R) /\ rows' = Without(rows, R)
        /\ pkgs' = Without(pkgs, P) /\ pkgRows' = Without(pkgRows, P)
    BY <1>1 DEF Clear, DropIfEmpty
  <2>2. partial' \subseteq partial \ R
    BY <1>1 DEF Clear, PartialWithout
  <2>3. \A i \in Links : i \in R => cells'[i] = "free" BY <1>1, <2>1, IdleFree
  <2>4. cells' \in [Links -> {"free", "clear", "set"}] BY <2>1 DEF Core, GlobalOK
  <2>5. \A i \in Links : i \notin R => cells'[i] = cells[i] BY <2>1
  <2> HIDE DEF P
  <2> QED BY <2>1, <2>2, <2>3, <2>4, <2>5, Dropped
<1>2. CASE ClearFinished
  <2>1. \A j \in IdleIn("DONE") : j \in DOMAIN items /\ items[j].job = "none"
                                   /\ j \notin partial
    BY DEF IdleIn, Core, LinkOK, Shelved
  <2> QED BY <1>1, <1>2, <2>1 DEF ClearFinished
<1>3. CASE ClearFailed
  <2>1. \A j \in IdleIn("ERROR") : j \in DOMAIN items /\ items[j].job = "none"
    BY DEF IdleIn
  <2> QED BY <1>1, <1>3, <2>1 DEF ClearFailed
<1> QED BY <1>2, <1>3

LEMMA RemoveLinksKeeps ==
  ASSUME NEW S, NEW P, Core, S \subseteq DOMAIN items, RemoveLinks(S, P)
  PROVE  Core'
<1> DEFINE idle == S \ Running
           gone == Emptied(P, idle)
<1>1. /\ items' = Without(Each(items, S, LAMBDA it :
                    [Cancelling(it) EXCEPT !.removeRequested = TRUE]), idle)
      /\ rows' = Without(rows, idle) /\ cells' = CellsTripped(S \cap Running)
      /\ pkgs' = Without(pkgs, gone) /\ pkgRows' = Without(pkgRows, gone)
      /\ partial' = partial \ idle /\ UNCHANGED <<counters, settings>>
  BY DEF RemoveLinks, DropIfEmpty, PartialWithout
<1>2. DOMAIN items' = DOMAIN items \ idle /\ DOMAIN rows' = DOMAIN rows \ idle
  BY <1>1 DEF Without, Each
<1>3. \A j \in DOMAIN items : j \in Links /\ LinkOK(j)
  BY DEF Core, LinkOK, Typed
<1>4. \A j \in idle : cells[j] = "free"
  BY IdleFree DEF Running
<1>5. cells' \in [Links -> {"free", "clear", "set"}]
  BY <1>1 DEF CellsTripped, Core, GlobalOK
<1>6. \A i \in Links : cells'[i] # "free" => cells[i] # "free" /\ i \notin idle
  <2>1. \A i \in Links : cells'[i] # "free" => cells[i] # "free"
    BY <1>1, <1>3 DEF CellsTripped, LinkOK, Worked
  <2> QED BY <1>4, <2>1
<1>7. GlobalOK'
  <2> HIDE DEF gone, idle
  <2>1. partial' \subseteq partial \ idle BY <1>1
  <2> QED BY <1>1, <1>2, <1>5, <1>6, <2>1, DroppedGlobal
<1>8. ASSUME NEW j \in DOMAIN items' PROVE LinkOK(j)'
  <2>1. j \in DOMAIN items /\ j \notin idle /\ LinkOK(j) /\ j \in Links
    BY <1>2, <1>3
  <2>2. rows'[j] = rows[j]
    BY <1>1, <2>1 DEF Without, Core, GlobalOK
  <2>4. /\ globalAutostart \in BOOLEAN /\ globalAutostart' = globalAutostart
        /\ partial' \subseteq partial
    BY <1>1 DEF Core, GlobalOK, settings
  <2>5. CASE j \in S
    <3>1. j \in Running BY <2>1, <2>5
    <3>2. items'[j] = [items[j] EXCEPT !.cancelRequested = TRUE, !.removeRequested = TRUE]
      BY <1>1, <2>1, <2>5 DEF Without, Each, Cancelling
    <3>3. cells'[j] = IF items[j].token THEN "set" ELSE cells[j]
      BY <1>1, <2>1, <2>5, <3>1 DEF CellsTripped
    <3>4. items[j].job # "none" BY <3>1 DEF Running
    <3>5. Typed(j)' BY <2>1, <2>2, <3>2 DEF LinkOK, Typed, Item
    <3>6. Worked(j)' BY <2>1, <2>4, <3>2, <3>3, <3>4 DEF LinkOK, Typed, Item, Worked
    <3>7. Shelved(j)' BY <2>1, <2>4, <3>2 DEF LinkOK, Typed, Item, Shelved
    <3>8. Mirrored(j)' BY <2>1, <2>2, <3>2 DEF LinkOK, Typed, Item, Mirrored
    <3> QED BY <3>5, <3>6, <3>7, <3>8 DEF LinkOK
  <2>6. CASE j \notin S
    <3>1. items'[j] = items[j] BY <1>1, <2>1, <2>6 DEF Without, Each
    <3>2. cells'[j] = cells[j] BY <1>1, <2>1, <2>6 DEF CellsTripped
    <3>3. Around(j) BY <2>4, <3>2 DEF Around
    <3> QED BY <2>1, <2>2, <2>4, <3>1, <3>3, Kept
  <2> QED BY <2>5, <2>6
<1> QED BY <1>7, <1>8 DEF Core

---------------------------------------------------------------------------
(* Reordering *)

\* A reordering keeps the records of f but for their positions.
OnlyPositions(f, g) ==
  /\ DOMAIN g = DOMAIN f /\ g = [y \in DOMAIN f |-> g[y]]
  /\ \A y \in DOMAIN f : \/ g[y] = f[y]
                         \/ \E v \in Positions : g[y] = [f[y] EXCEPT !.pos = v]

LEMMA ReorderingShape ==
  ASSUME NEW f, NEW x \in DOMAIN f, NEW peers, peers \subseteq DOMAIN f \ {x},
         NEW dir \in {"UP", "DOWN", "TOP", "BOTTOM"},
         NEW g \in Reorderings(f, x, peers, dir), g[x].pos \in Positions,
         \A y \in DOMAIN f : f[y].pos \in Positions /\ (\A v : [f[y] EXCEPT !.pos = v].pos = v)
  PROVE  OnlyPositions(f, g)
<1>1. \/ \E n \in peers : g = MovedTo(MovedTo(f, x, f[n].pos), n, f[x].pos)
      \/ \E v : g = MovedTo(f, x, v)
  BY DEF Reorderings
<1>2. ASSUME NEW n \in peers, g = MovedTo(MovedTo(f, x, f[n].pos), n, f[x].pos)
      PROVE  OnlyPositions(f, g)
  BY <1>2 DEF MovedTo, OnlyPositions
<1>3. ASSUME NEW v, g = MovedTo(f, x, v) PROVE OnlyPositions(f, g)
  <2>1. g[x] = [f[x] EXCEPT !.pos = v] BY <1>3 DEF MovedTo
  <2>2. g[x].pos = v BY <2>1
  <2>3. v \in Positions BY <2>2
  <2> QED BY <1>3, <2>1, <2>3 DEF MovedTo, OnlyPositions
<1> QED BY <1>1, <1>2, <1>3

LEMMA MoveLinkKeeps ==
  ASSUME NEW i \in DOMAIN items, NEW dir \in MoveDirs, Core, MoveLink(i, dir) PROVE Core'
<1>0. dir \in {"UP", "DOWN", "TOP", "BOTTOM"} BY BoundsAssumption
<1>1. items' \in Reorderings(items, i, LinkPeers(i), dir) /\ items'[i].pos \in Positions
      /\ rows' = Saved(rows, items, items')
  BY DEF MoveLink
<1>2. \A y \in DOMAIN items :
        items[y].pos \in Positions /\ (\A v : [items[y] EXCEPT !.pos = v].pos = v)
  BY DEF Core, LinkOK, Typed, Item
<1>3. LinkPeers(i) \subseteq DOMAIN items \ {i} BY DEF LinkPeers
<1>4. OnlyPositions(items, items') BY <1>0, <1>1, <1>2, <1>3, ReorderingShape
<1>5. DOMAIN items' = DOMAIN items /\ DOMAIN rows' = DOMAIN rows
  BY <1>1, <1>4 DEF OnlyPositions, Saved
<1>6. GlobalOK' /\ \A j \in DOMAIN items : Around(j)
  BY <1>5, FieldsOnly DEF MoveLink
<1>7. ASSUME NEW j \in DOMAIN items' PROVE LinkOK(j)'
  <2>1. j \in DOMAIN items /\ j \in DOMAIN rows /\ LinkOK(j) /\ Around(j)
    BY <1>5, <1>6 DEF Core, GlobalOK
  <2>2. globalAutostart \in BOOLEAN BY DEF Core, GlobalOK
  <2>3. CASE items'[j] = items[j]
    <3>1. rows'[j] = rows[j] BY <1>1, <2>1, <2>3 DEF Saved
    <3> QED BY <2>1, <2>2, <2>3, <3>1, Kept
  <2>4. ASSUME NEW v \in Positions, items'[j] = [items[j] EXCEPT !.pos = v] PROVE LinkOK(j)'
    <3>1. items'[j].pos = v BY <2>1, <2>4 DEF LinkOK, Typed, Item
    <3>2. rows'[j] = IF v # items[j].pos THEN [rows[j] EXCEPT !.pos = v] ELSE rows[j]
      BY <1>1, <1>5, <2>1, <3>1 DEF Saved
    <3>3. Relabels(j)
      BY <2>1, <2>4, <3>2 DEF LinkOK, Typed, Mirrored, Item, Row, Relabels
    <3> QED BY <2>1, <3>3, Relabelled
  <2> QED BY <1>4, <2>1, <2>3, <2>4 DEF OnlyPositions
<1> QED BY <1>6, <1>7 DEF Core

LEMMA MovePkgKeeps ==
  ASSUME NEW p \in DOMAIN pkgs, NEW dir \in MoveDirs, Core, MovePkg(p, dir) PROVE Core'
<1>0. dir \in {"UP", "DOWN", "TOP", "BOTTOM"} BY BoundsAssumption
<1>1. pkgs' \in Reorderings(pkgs, p, PkgPeers(p), dir) /\ pkgs'[p].pos \in Positions
      /\ pkgRows' = Saved(pkgRows, pkgs, pkgs')
      /\ UNCHANGED <<items, rows, counters, settings, machine>>
  BY DEF MovePkg
<1>2. \A y \in DOMAIN pkgs :
        pkgs[y].pos \in Positions /\ (\A v : [pkgs[y] EXCEPT !.pos = v].pos = v)
  BY DEF Core, GlobalOK, Package
<1>3. PkgPeers(p) \subseteq DOMAIN pkgs \ {p} BY DEF PkgPeers
<1>4. OnlyPositions(pkgs, pkgs') BY <1>0, <1>1, <1>2, <1>3, ReorderingShape
<1>5. \A q \in DOMAIN pkgs : pkgs'[q].list = pkgs[q].list /\ pkgs'[q] \in Package
  BY <1>4 DEF OnlyPositions, Core, GlobalOK, Package
<1>6. /\ DOMAIN pkgs' = DOMAIN pkgs /\ DOMAIN pkgRows' = DOMAIN pkgRows
      /\ \A q \in DOMAIN pkgs : pkgs'[q] = pkgRows'[q]
      /\ \A q \in DOMAIN pkgRows : pkgRows'[q] \in Package
  <2>1. DOMAIN pkgs' = DOMAIN pkgs /\ DOMAIN pkgRows' = DOMAIN pkgRows
    BY <1>1, <1>4 DEF OnlyPositions, Saved
  <2>2. ASSUME NEW q \in DOMAIN pkgs PROVE pkgRows'[q] = pkgs'[q]
    <3>1. pkgRows'[q] = IF pkgs'[q].pos # pkgs[q].pos
                        THEN [pkgs[q] EXCEPT !.pos = pkgs'[q].pos] ELSE pkgs[q]
      BY <1>1, <1>4 DEF OnlyPositions, Saved, Core, GlobalOK
    <3>2. CASE pkgs'[q] = pkgs[q] BY <3>1, <3>2
    <3>3. ASSUME NEW v \in Positions, pkgs'[q] = [pkgs[q] EXCEPT !.pos = v]
          PROVE  pkgRows'[q] = pkgs'[q]
      <4>1. pkgs'[q].pos = v BY <1>2, <3>3
      <4>2. pkgs[q] = [pkgs[q] EXCEPT !.pos = pkgs[q].pos]
        BY DEF Core, GlobalOK, Package
      <4> QED BY <3>1, <3>3, <4>1, <4>2
    <3> QED BY <1>4, <3>2, <3>3 DEF OnlyPositions
  <2>3. \A q \in DOMAIN pkgRows \ DOMAIN pkgs : pkgRows'[q] = pkgRows[q]
    BY <1>1, <2>1 DEF Saved
  <2> QED BY <1>5, <2>1, <2>2, <2>3 DEF Core, GlobalOK
<1>7. GlobalOK'
  BY <1>1, <1>4, <1>5, <1>6 DEF OnlyPositions, Core, GlobalOK, counters, settings, machine
<1>8. \A j \in DOMAIN items : LinkOK(j) /\ Around(j)
  BY <1>1, <1>4, <1>5 DEF OnlyPositions, Core, LinkOK, Shelved, Around, settings, machine
<1>9. \A j \in DOMAIN items' : LinkOK(j)'
  BY <1>1, <1>8, Kept DEF Core, GlobalOK
<1> QED BY <1>7, <1>9 DEF Core

---------------------------------------------------------------------------
(* Global verbs *)

LEMMA SetMaxActiveKeeps ==
  ASSUME NEW v \in MaxActives, Core, SetMaxActive(v) PROVE Core'
<1>1. maxActive' \in Int /\ maxActive' >= 1
  BY BoundsAssumption DEF SetMaxActive
<1>2. GlobalOK'
  BY <1>1 DEF SetMaxActive, Core, GlobalOK, packages, counters, machine
<1>3. \A j \in DOMAIN items : LinkOK(j) /\ Around(j)
  BY DEF SetMaxActive, Core, LinkOK, Shelved, Around, packages, machine
<1>4. \A j \in DOMAIN items' : LinkOK(j)'
  BY <1>3, Kept DEF SetMaxActive, Core, GlobalOK
<1> QED BY <1>2, <1>4 DEF Core

LEMMA ResumeAllKeeps ==
  ASSUME Core, ResumeAll PROVE Core'
<1> DEFINE S == {i \in DOMAIN items : items[i].globallyPaused /\ items[i].state = "PAUSED"}
<1>1. /\ globalAutostart' = TRUE
      /\ items' = Each(items, S, LAMBDA it :
           [it EXCEPT !.globallyPaused = FALSE, !.state = "QUEUED", !.cancelRequested = FALSE])
      /\ rows' = RowsInState(S, "QUEUED")
      /\ UNCHANGED <<pkgs, pkgRows, nextId, nextPkg, nextPos, maxActive, cells, partial>>
  BY DEF ResumeAll, packages, counters, machine
<1>2. \A j \in S : items[j].state = "PAUSED" OBVIOUS
<1> HIDE DEF S
<1>3. DOMAIN items' = DOMAIN items /\ DOMAIN rows' = DOMAIN rows
  BY <1>1 DEF Each, RowsInState
<1>4. GlobalOK' BY <1>1, <1>3 DEF Core, GlobalOK
<1>5. ASSUME NEW j \in DOMAIN items' PROVE LinkOK(j)'
  <2>1. j \in DOMAIN items /\ j \in DOMAIN rows /\ LinkOK(j) /\ globalAutostart \in BOOLEAN
    BY <1>3 DEF Core, GlobalOK
  <2>2. Around(j) BY <1>1, <2>1 DEF LinkOK, Shelved, Around
  <2>3. CASE j \in S
    <3>1. items'[j] = [items[j] EXCEPT !.globallyPaused = FALSE, !.state = "QUEUED",
                                       !.cancelRequested = FALSE]
      BY <1>1, <2>1, <2>3 DEF Each
    <3>2. rows'[j] = [rows[j] EXCEPT !.state = "QUEUED", !.err = FALSE]
      BY <1>1, <2>1, <2>3 DEF RowsInState, Each
    <3>3. items[j].state = "PAUSED" /\ items[j].err = FALSE
      BY <1>2, <2>1, <2>3 DEF LinkOK, Typed, Item, Worked
    <3>4. Typed(j)' BY ZenonT(60), <2>1, <3>1, <3>2 DEF LinkOK, Typed, Item, Row
    <3>5. Worked(j)' BY <1>1, <2>1, <3>1, <3>3 DEF LinkOK, Typed, Item, Worked
    <3>6. Shelved(j)' BY <2>1, <2>2, <3>1 DEF LinkOK, Typed, Item, Shelved, Around
    <3>7. items'[j].err = items[j].err /\ rows'[j].err = FALSE
      BY <2>1, <3>1, <3>2 DEF LinkOK, Typed, Item, Row
    <3>8. SameColumns(j) /\ rows'[j].state = items'[j].state
      BY <2>1, <3>1, <3>2 DEF LinkOK, Typed, Item, Row, SameColumns
    <3>9. Mirrored(j)' BY <2>1, <3>3, <3>7, <3>8, MirrorSettled DEF LinkOK
    <3> QED BY <3>4, <3>5, <3>6, <3>9 DEF LinkOK
  <2>4. CASE j \notin S
    <3>1. items'[j] = items[j] /\ rows'[j] = rows[j]
      BY <1>1, <2>1, <2>4 DEF RowsInState, Each
    <3> QED BY <2>1, <2>2, <3>1, Kept
  <2> QED BY <2>3, <2>4
<1> QED BY <1>4, <1>5 DEF Core

\* A worker that is asked to stop: flag and cell are set together.
LEMMA Stopped ==
  ASSUME NEW j, LinkOK(j), items[j].job # "none",
         \/ items'[j] = [items[j] EXCEPT !.cancelRequested = TRUE]
         \/ items'[j] = [items[j] EXCEPT !.cancelRequested = TRUE, !.globallyPaused = TRUE],
         cells'[j] = IF items[j].token THEN "set" ELSE cells[j],
         rows'[j] = rows[j], partial' = partial, pkgs' = pkgs
  PROVE  LinkOK(j)'
<1>1. /\ items'[j] \in Item /\ items'[j].cancelRequested = TRUE
      /\ items'[j].state = items[j].state /\ items'[j].err = items[j].err
      /\ items'[j].list = items[j].list /\ items'[j].pkg = items[j].pkg
      /\ items'[j].job = items[j].job /\ items'[j].token = items[j].token
      /\ items'[j].removeRequested = items[j].removeRequested
      /\ items'[j].delegate = items[j].delegate
  BY DEF LinkOK, Typed, Item
<1>2. /\ items'[j].prio = items[j].prio /\ items'[j].enabled = items[j].enabled
      /\ items'[j].autostart = items[j].autostart /\ items'[j].pos = items[j].pos
  BY DEF LinkOK, Typed, Item
<1>3. Typed(j)' BY <1>1 DEF LinkOK, Typed
<1>4. Worked(j)' BY <1>1 DEF LinkOK, Worked
<1>5. Shelved(j)' BY <1>1 DEF LinkOK, Shelved
<1>6. Mirrored(j)' BY <1>1, <1>2 DEF LinkOK, Mirrored
<1> QED BY <1>3, <1>4, <1>5, <1>6 DEF LinkOK

\* Every worker of S is asked to stop; the global pause may begin if S is all.
LEMMA StopsKeep ==
  ASSUME NEW S, Core, S \subseteq Running,
         UNCHANGED <<rows, pkgs, pkgRows, nextId, nextPkg, nextPos, maxActive, partial>>,
         DOMAIN items' = DOMAIN items, cells' = CellsTripped(S),
         globalAutostart' \in BOOLEAN,
         globalAutostart' = globalAutostart \/ Running \subseteq S,
         \A j \in S : \/ items'[j] = [items[j] EXCEPT !.cancelRequested = TRUE]
                      \/ items'[j] = [items[j] EXCEPT !.cancelRequested = TRUE,
                                                      !.globallyPaused = TRUE],
         \A j \in DOMAIN items \ S : items'[j] = items[j]
  PROVE  Core'
<1>1. \A j \in DOMAIN items : j \in Links /\ LinkOK(j) BY DEF Core, LinkOK, Typed
<1>2. cells' \in [Links -> {"free", "clear", "set"}]
  BY DEF CellsTripped, Core, GlobalOK
<1>3. \A i \in Links : cells'[i] # "free" => cells[i] # "free"
  BY <1>1 DEF CellsTripped, Running, LinkOK, Worked
<1>4. GlobalOK' BY <1>2, <1>3 DEF Core, GlobalOK
<1>5. ASSUME NEW j \in DOMAIN items' PROVE LinkOK(j)'
  <2>1. j \in DOMAIN items /\ j \in Links /\ LinkOK(j) /\ rows'[j] = rows[j]
    BY <1>1
  <2>2. CASE j \in S
    <3>1. items[j].job # "none" BY <2>2 DEF Running
    <3>2. cells'[j] = IF items[j].token THEN "set" ELSE cells[j]
      BY <2>1, <2>2 DEF CellsTripped
    <3> QED BY <2>1, <2>2, <3>1, <3>2, Stopped
  <2>3. CASE j \notin S
    <3>1. cells'[j] = cells[j] BY <2>1, <2>3 DEF CellsTripped
    <3>2. globalAutostart' = globalAutostart \/ items[j].job = "none"
      BY <2>1, <2>3 DEF Running
    <3>3. Around(j) BY <2>1, <3>1, <3>2 DEF LinkOK, Shelved, Around
    <3>4. globalAutostart \in BOOLEAN BY DEF Core, GlobalOK
    <3> QED BY <2>1, <2>3, <3>3, <3>4, Kept
  <2> QED BY <2>2, <2>3
<1> QED BY <1>4, <1>5 DEF Core

LEMMA PauseAllKeeps ==
  ASSUME Core, PauseAll PROVE Core'
<1> DEFINE S == {i \in Running : items[i].state = "ACTIVE"}
<1>1. Running \subseteq S BY DEF Running, Core, LinkOK, Worked
<1>2. /\ globalAutostart' = FALSE /\ cells' = CellsTripped(S)
      /\ items' = Each(items, S, LAMBDA it : [Cancelling(it) EXCEPT !.globallyPaused = TRUE])
      /\ UNCHANGED <<rows, pkgs, pkgRows, nextId, nextPkg, nextPos, maxActive, partial>>
  BY DEF PauseAll, packages, counters
<1>3. S \subseteq Running /\ S \subseteq DOMAIN items BY DEF Running
<1> HIDE DEF S
<1>4. DOMAIN items' = DOMAIN items BY <1>2 DEF Each
<1>5. \A j \in S : items'[j] = [items[j] EXCEPT !.cancelRequested = TRUE,
                                                !.globallyPaused = TRUE]
  BY <1>2, <1>3 DEF Each, Cancelling
<1>6. \A j \in DOMAIN items \ S : items'[j] = items[j] BY <1>2 DEF Each
<1> QED BY <1>1, <1>2, <1>3, <1>4, <1>5, <1>6, StopsKeep

LEMMA StopAllKeeps ==
  ASSUME Core, StopAll PROVE Core'
<1>1. /\ globalAutostart' = globalAutostart /\ cells' = CellsTripped(Running)
      /\ UNCHANGED <<rows, pkgs, pkgRows, nextId, nextPkg, nextPos, maxActive, partial>>
      /\ globalAutostart \in BOOLEAN
  BY DEF StopAll, Core, GlobalOK, packages, counters, settings
<1>2. DOMAIN items' = DOMAIN items /\ Running \subseteq DOMAIN items
  BY DEF StopAll, Each, Running
<1>3. \A j \in Running : items'[j] = [items[j] EXCEPT !.cancelRequested = TRUE]
  BY <1>2 DEF StopAll, Each, Cancelling
<1>4. \A j \in DOMAIN items \ Running : items'[j] = items[j] BY DEF StopAll, Each
<1> QED BY <1>1, <1>2, <1>3, <1>4, StopsKeep

---------------------------------------------------------------------------
(* Tick, workers, restart *)

LEMMA TickKeeps ==
  ASSUME Core, Tick PROVE Core'
<1>1. PICK S \in SUBSET {i \in DOMAIN items : Startable(i)} : Chosen(S) /\ StartItems(S)
  BY DEF Tick
<1>2. \A j \in S : j \in DOMAIN items /\ j \in Links /\ LinkOK(j) /\ Startable(j)
  BY DEF Core, LinkOK, Typed
<1>3. \A j \in S : items[j].force \/ globalAutostart
  BY <1>1 DEF Chosen, IsBest, ForcedNow, EligibleNow
<1>4. /\ items' = Each(items, S, LAMBDA it :
           [it EXCEPT !.state = "ACTIVE", !.cancelRequested = FALSE, !.globallyPaused = FALSE,
                      !.job = "running", !.token = ~it.delegate])
      /\ cells' = [i \in Links |-> IF i \in S /\ ~items[i].delegate THEN "clear" ELSE cells[i]]
      /\ rows' = RowsInState(S, "ACTIVE")
      /\ UNCHANGED <<pkgs, pkgRows, nextId, nextPkg, nextPos, maxActive, globalAutostart, partial>>
  BY <1>1 DEF StartItems, packages, counters, settings
<1>5. DOMAIN items' = DOMAIN items /\ DOMAIN rows' = DOMAIN rows
  BY <1>4 DEF Each, RowsInState
<1>6. cells' \in [Links -> {"free", "clear", "set"}] BY <1>4 DEF Core, GlobalOK
<1>7. GlobalOK' BY <1>2, <1>4, <1>5, <1>6 DEF Core, GlobalOK
<1>8. ASSUME NEW j \in DOMAIN items' PROVE LinkOK(j)'
  <2>1. /\ j \in DOMAIN items /\ j \in DOMAIN rows /\ LinkOK(j) /\ j \in Links
        /\ globalAutostart \in BOOLEAN
    BY <1>5 DEF Core, GlobalOK, LinkOK, Typed
  <2>2. CASE j \in S
    <3>1. items'[j] = [items[j] EXCEPT
                         !.state = "ACTIVE", !.cancelRequested = FALSE,
                         !.globallyPaused = FALSE, !.job = "running",
                         !.token = ~items[j].delegate]
      BY <1>4, <2>1, <2>2 DEF Each
    <3>2. rows'[j] = [rows[j] EXCEPT !.state = "ACTIVE", !.err = FALSE]
      BY <1>4, <2>1, <2>2 DEF RowsInState, Each
    <3>3. cells'[j] = IF items[j].delegate THEN cells[j] ELSE "clear"
      BY <1>4, <2>1, <2>2
    <3>4. /\ items[j].list = "download" /\ items[j].state = "QUEUED"
          /\ items[j].job = "none" /\ (items[j].force \/ globalAutostart)
      BY <1>2, <1>3, <2>2 DEF Startable
    <3>5. items[j].err = FALSE /\ items[j].removeRequested = FALSE /\ cells[j] = "free"
      BY <2>1, <3>4 DEF LinkOK, Typed, Item, Worked
    <3>6. /\ items'[j].state = "ACTIVE" /\ items'[j].cancelRequested = FALSE
          /\ items'[j].job = "running" /\ items'[j].token = ~items[j].delegate
          /\ items'[j].err = items[j].err /\ items'[j].list = items[j].list
          /\ items'[j].removeRequested = items[j].removeRequested
          /\ items'[j].force = items[j].force /\ items'[j].delegate = items[j].delegate
          /\ items'[j] \in Item
      BY ZenonT(60), <2>1, <3>1 DEF LinkOK, Typed, Item
    <3>7. Typed(j)' BY <2>1, <3>2, <3>6 DEF LinkOK, Typed, Row
    <3>8. Worked(j)'
      BY <1>4, <2>1, <3>3, <3>4, <3>5, <3>6 DEF LinkOK, Typed, Item, Worked
    <3>9. Shelved(j)' BY <3>4, <3>6 DEF Shelved
    <3>10. rows'[j].err = FALSE BY <2>1, <3>2 DEF LinkOK, Typed, Row
    <3>11. SameColumns(j) /\ rows'[j].state = items'[j].state
      BY <2>1, <3>1, <3>2 DEF LinkOK, Typed, Item, Row, SameColumns
    <3>12. Mirrored(j)' BY <2>1, <3>5, <3>6, <3>10, <3>11, MirrorSettled DEF LinkOK
    <3> QED BY <3>7, <3>8, <3>9, <3>12 DEF LinkOK
  <2>3. CASE j \notin S
    <3>1. items'[j] = items[j] /\ rows'[j] = rows[j]
      BY <1>4, <2>1, <2>3 DEF RowsInState, Each
    <3>2. Around(j) BY <1>4, <2>1, <2>3 DEF LinkOK, Shelved, Around
    <3> QED BY <2>1, <3>1, <3>2, Kept
  <2> QED BY <2>2, <2>3
<1> QED BY <1>7, <1>8 DEF Core

LEMMA WorkerWritesKeeps ==
  ASSUME NEW i \in DOMAIN items, Core, WorkerWrites(i) PROVE Core'
<1>1. /\ UNCHANGED <<items, rows, pkgs, pkgRows, nextId, nextPkg, nextPos, maxActive,
                     globalAutostart, cells>>
      /\ partial' = partial \cup {i} /\ items[i].job = "running"
  BY DEF WorkerWrites, packages, counters, settings
<1>2. GlobalOK' BY <1>1 DEF Core, GlobalOK
<1>3. ASSUME NEW j \in DOMAIN items' PROVE LinkOK(j)'
  <2>1. j \in DOMAIN items /\ LinkOK(j) /\ globalAutostart \in BOOLEAN
    BY <1>1 DEF Core, GlobalOK
  <2>2. Typed(j)' /\ Worked(j)' /\ Mirrored(j)'
    BY <1>1, <2>1 DEF LinkOK, Typed, Worked, Mirrored
  <2>3. Shelved(j)' BY <1>1, <2>1 DEF LinkOK, Worked, Shelved
  <2> QED BY <2>2, <2>3 DEF LinkOK
<1> QED BY <1>2, <1>3 DEF Core

LEMMA WorkerReturnsKeeps ==
  ASSUME NEW i \in DOMAIN items, NEW rc \in Outcomes, Core, WorkerReturns(i, rc) PROVE Core'
<1>1. /\ UNCHANGED <<rows, pkgs, pkgRows, nextId, nextPkg, nextPos, maxActive,
                     globalAutostart, cells>>
      /\ partial' = (IF rc = "ok" THEN partial \ {i} ELSE partial)
      /\ items' = [items EXCEPT ![i] = [@ EXCEPT !.job = rc]] /\ items[i].job = "running"
  BY DEF WorkerReturns, packages, counters, settings
<1>2. DOMAIN items' = DOMAIN items /\ partial' \subseteq partial BY <1>1
<1>3. GlobalOK' BY <1>1, <1>2 DEF Core, GlobalOK
<1>4. ASSUME NEW j \in DOMAIN items' PROVE LinkOK(j)'
  <2>1. j \in DOMAIN items /\ LinkOK(j) /\ globalAutostart \in BOOLEAN
    BY <1>2 DEF Core, GlobalOK
  <2>2. CASE j = i
    <3>1. items'[j] = [items[j] EXCEPT !.job = rc] BY <1>1, <2>1, <2>2
    <3>2. Typed(j)' BY <1>1, <2>1, <3>1 DEF LinkOK, Typed, Item
    <3>3. Worked(j)' BY <1>1, <2>1, <2>2, <3>1 DEF LinkOK, Typed, Item, Worked
    <3>4. items[j].state = "ACTIVE" BY <1>1, <2>1, <2>2 DEF LinkOK, Worked
    <3>5. Shelved(j)' BY <1>1, <2>1, <2>2, <3>1, <3>4 DEF LinkOK, Typed, Item, Shelved
    <3>6. Mirrored(j)' BY <1>1, <2>1, <3>1 DEF LinkOK, Typed, Item, Mirrored
    <3> QED BY <3>2, <3>3, <3>5, <3>6 DEF LinkOK
  <2>3. CASE j # i
    <3>1. items'[j] = items[j] /\ rows'[j] = rows[j] BY <1>1, <2>1, <2>3
    <3>2. Around(j) BY <1>1, <1>2, <2>1 DEF LinkOK, Shelved, Around
    <3> QED BY <2>1, <3>1, <3>2, Kept
  <2> QED BY <2>2, <2>3
<1> QED BY <1>3, <1>4 DEF Core

LEMMA FinalizeWorkerKeeps ==
  ASSUME NEW i \in DOMAIN items, Core, FinalizeWorker(i) PROVE Core'
<1>1. /\ items[i].job \in Outcomes /\ cells' = CellsFreed(i)
      /\ UNCHANGED <<nextId, nextPkg, nextPos, maxActive, globalAutostart>>
  BY DEF FinalizeWorker, counters, settings
<1>2. i \in Links /\ LinkOK(i) /\ items[i].state = "ACTIVE"
  BY <1>1 DEF Core, LinkOK, Typed, Worked
<1>3. /\ cells' \in [Links -> {"free", "clear", "set"}] /\ cells'[i] = "free"
      /\ \A j \in Links : j # i => cells'[j] = cells[j]
  BY <1>1, <1>2 DEF CellsFreed, Core, GlobalOK, LinkOK, Worked
<1>4. CASE items[i].removeRequested
  <2> DEFINE R == {i}
             P == Emptied({items[i].pkg}, R)
  <2>1. /\ items' = Without(items, R) /\ rows' = Without(rows, R)
        /\ pkgs' = Without(pkgs, P) /\ pkgRows' = Without(pkgRows, P)
        /\ partial' \subseteq partial \ R
    BY <1>4 DEF FinalizeWorker, DropIfEmpty, PartialWithout
  <2>2. \A j \in Links : /\ j \notin R => cells'[j] = cells[j]
                         /\ j \in R => cells'[j] = "free"
    BY <1>3
  <2>3. UNCHANGED <<counters, settings>> BY <1>1 DEF counters, settings
  <2> HIDE DEF R, P
  <2> QED BY <1>3, <2>1, <2>2, <2>3, Dropped
<1>5. CASE ~items[i].removeRequested
  <2> DEFINE st == Settled(items[i])
             bad == items[i].job = "failed"
             err == bad \/ items[i].err
             paused == items[i].globallyPaused /\ st = "PAUSED"
  <2>1. /\ items' = [items EXCEPT ![i] = [items[i] EXCEPT
                         !.state = st, !.err = err, !.job = "none", !.token = FALSE,
                         !.force = FALSE, !.cancelRequested = FALSE,
                         !.globallyPaused = paused]]
        /\ rows' = [rows EXCEPT ![i] = [rows[i] EXCEPT !.state = st, !.err = err]]
        /\ UNCHANGED <<pkgs, pkgRows, partial>>
    BY <1>5 DEF FinalizeWorker, packages
  <2>2. /\ st \in {"DONE", "QUEUED", "PAUSED", "ERROR"}
        /\ st = "DONE" => items[i].job = "ok"
        /\ bad => st = "ERROR"
    BY <1>1 DEF Settled
  <2>3. items[i].err = FALSE => err = bad
    OBVIOUS
  <2>4a. err \in BOOLEAN /\ paused \in BOOLEAN /\ bad \in BOOLEAN OBVIOUS
  <2> HIDE DEF st, bad, err, paused
  <2>4. DOMAIN items' = DOMAIN items /\ DOMAIN rows' = DOMAIN rows BY <2>1
  <2>5. GlobalOK' BY <1>1, <1>3, <2>1, <2>4 DEF Core, GlobalOK
  <2>6. LinkOK(i)'
    <3>1. i \in DOMAIN rows BY DEF Core, GlobalOK
    <3>2. items[i] \in Item /\ rows[i] \in Row BY <1>2 DEF LinkOK, Typed
    <3>3. items[i].err = FALSE /\ items[i].removeRequested = FALSE
      BY <1>2, <1>5, <3>2 DEF LinkOK, Item, Worked
    <3>4. items'[i] = [items[i] EXCEPT
                         !.state = st, !.err = err, !.job = "none", !.token = FALSE,
                         !.force = FALSE, !.cancelRequested = FALSE,
                         !.globallyPaused = paused]
      BY <2>1
    <3>5. rows'[i] = [rows[i] EXCEPT !.state = st, !.err = err]
      BY <2>1, <3>1
    <3>6. /\ items'[i].state = st /\ items'[i].job = "none" /\ items'[i].token = FALSE
          /\ items'[i].cancelRequested = FALSE /\ items'[i].list = items[i].list
          /\ items'[i].removeRequested = items[i].removeRequested
          /\ items'[i].delegate = items[i].delegate /\ items'[i].err = err
          /\ items'[i] \in Item
      BY ZenonT(60), <2>2, <2>4a, <3>2, <3>4 DEF Item
    <3>7. rows'[i] \in Row /\ rows'[i].state = st /\ rows'[i].err = items'[i].err
      BY <2>2, <2>4a, <3>2, <3>5, <3>6 DEF Row
    <3>8. Typed(i)' BY <1>2, <3>6, <3>7 DEF Typed
    <3>9. Worked(i)' BY <1>3, <2>2, <2>3, <3>3, <3>6 DEF Worked
    <3>10. Shelved(i)'
      BY <1>2, <2>1, <2>2, <3>6 DEF LinkOK, Shelved
    <3>11. SameColumns(i)
      BY <3>2, <3>4, <3>5 DEF Item, Row, SameColumns
    <3>12. Mirrored(i)' BY <1>2, <3>6, <3>7, <3>11, MirrorSettled DEF LinkOK
    <3> QED BY <3>8, <3>9, <3>10, <3>12 DEF LinkOK
  <2>7. ASSUME NEW j \in DOMAIN items, j # i PROVE LinkOK(j)'
    <3>1. LinkOK(j) /\ j \in Links /\ globalAutostart \in BOOLEAN
      BY DEF Core, GlobalOK, LinkOK, Typed
    <3>2. items'[j] = items[j] /\ rows'[j] = rows[j]
      BY <2>1, <2>7 DEF Core, GlobalOK
    <3>3. Around(j) BY <1>1, <1>3, <2>1, <2>7, <3>1 DEF LinkOK, Shelved, Around
    <3> QED BY <3>1, <3>2, <3>3, Kept
  <2> QED BY <2>4, <2>5, <2>6, <2>7 DEF Core
<1> QED BY <1>4, <1>5

\* Tables and part files that a process can load.
Loadable ==
  /\ \A i \in DOMAIN rows :
       /\ i \in Links /\ i < nextId /\ rows[i] \in Row
       /\ rows[i].err => rows[i].state = "ERROR"
       /\ rows[i].list = "linkgrabber" =>
            rows[i].state \in {"QUEUED", "PAUSED"} /\ i \notin partial
       /\ rows[i].state = "DONE" => i \notin partial
  /\ \A p \in DOMAIN pkgRows : p \in Packages /\ p < nextPkg /\ pkgRows[p] \in Package
  /\ nextId \in 1 .. (MaxLinks + 1) /\ nextPkg \in 1 .. (MaxPackages + 1)
  /\ maxActive \in Int /\ maxActive >= 1 /\ globalAutostart \in BOOLEAN
  /\ partial \subseteq DOMAIN rows

LEMMA RunningLoadable ==
  ASSUME Core, AllLoaded PROVE Loadable
<1>1. ASSUME NEW i \in DOMAIN rows
      PROVE  /\ i \in Links /\ i < nextId /\ rows[i] \in Row
             /\ rows[i].err => rows[i].state = "ERROR"
             /\ rows[i].list = "linkgrabber" =>
                  rows[i].state \in {"QUEUED", "PAUSED"} /\ i \notin partial
             /\ rows[i].state = "DONE" => i \notin partial
  <2>1. i \in DOMAIN items /\ LinkOK(i) /\ i < nextId BY DEF Core, GlobalOK, AllLoaded
  <2>2. i \in Links /\ rows[i] \in Row /\ items[i] \in Item
    BY <2>1 DEF LinkOK, Typed
  <2>3. rows[i].err => rows[i].state = "ERROR"
    BY <2>1, <2>2 DEF LinkOK, Row, Item, Worked, Mirrored
  <2>4. /\ rows[i].list = "linkgrabber" =>
             rows[i].state \in {"QUEUED", "PAUSED"} /\ i \notin partial
        /\ rows[i].state = "DONE" => i \notin partial
    BY <2>1 DEF LinkOK, Shelved, Mirrored
  <2> QED BY <2>1, <2>2, <2>3, <2>4
<1> QED BY <1>1 DEF Loadable, Core, GlobalOK

\* A link that load() makes of its row is in order, as that is written once more.
LEMMA LoadedLink ==
  ASSUME Loadable, NEW j \in DOMAIN rows, NEW S, rows' = RowsInState(S, "QUEUED"),
         j \in S <=> rows[j].state \in {"QUEUED", "ACTIVE"} /\ rows[j].list = "download",
         items'[j] = Loaded(rows[j]), cells'[j] = "free", partial' = partial
  PROVE  LinkOK(j)'
<1>1. j \in Links /\ rows[j] \in Row BY DEF Loadable
<1>2. rows[j].list = "linkgrabber" =>
        rows[j].state \in {"QUEUED", "PAUSED"} /\ j \notin partial
  BY DEF Loadable
<1>3. rows[j].state = "DONE" => j \notin partial BY DEF Loadable
<1>4. rows[j].err => rows[j].state = "ERROR" BY DEF Loadable
<1>5. rows[j].state \in {"QUEUED", "ACTIVE"} => rows[j].err = FALSE
  BY <1>1, <1>4 DEF Row
<1>6. rows'[j] \in Row /\ items'[j] = ItemOf(rows'[j]) /\ rows'[j].state # "ACTIVE"
  <2>1. CASE rows[j].state = "ACTIVE"
    <3>1. rows[j].list = "download" BY <1>1, <1>2, <2>1 DEF Row
    <3>2. rows'[j] = [rows[j] EXCEPT !.state = "QUEUED", !.err = FALSE]
      BY <2>1, <3>1 DEF RowsInState, Each
    <3>3. rows'[j] = [rows[j] EXCEPT !.state = "QUEUED"]
      BY <1>1, <1>5, <2>1, <3>2 DEF Row
    <3>4. items'[j] = ItemOf([rows[j] EXCEPT !.state = "QUEUED"])
      BY <2>1 DEF Loaded
    <3> QED BY <1>1, <3>3, <3>4 DEF Row
  <2>2. CASE rows[j].state # "ACTIVE"
    <3>1. \/ rows'[j] = rows[j]
          \/ /\ rows'[j] = [rows[j] EXCEPT !.state = "QUEUED", !.err = FALSE]
             /\ rows[j].state = "QUEUED"
      <4>1. CASE j \in S BY <2>2, <4>1 DEF RowsInState, Each
      <4>2. CASE j \notin S BY <4>2 DEF RowsInState, Each
      <4> QED BY <4>1, <4>2
    <3>2. rows'[j] = rows[j]
      <4>1. CASE rows[j].state = "QUEUED"
        <5>1. [rows[j] EXCEPT !.state = "QUEUED"] = rows[j] BY <1>1, <4>1 DEF Row
        <5>2. [rows[j] EXCEPT !.state = "QUEUED", !.err = FALSE]
              = [rows[j] EXCEPT !.state = "QUEUED"]
          BY <1>1, <1>5, <4>1 DEF Row
        <5> QED BY <3>1, <5>1, <5>2
      <4>2. CASE rows[j].state # "QUEUED" BY <3>1, <4>2
      <4> QED BY <4>1, <4>2
    <3>3. [rows[j] EXCEPT !.state = rows[j].state] = rows[j] BY <1>1 DEF Row
    <3>4. items'[j] = ItemOf(rows[j]) BY <2>2, <3>3 DEF Loaded
    <3> QED BY <1>1, <2>2, <3>2, <3>4
  <2> QED BY <2>1, <2>2
<1>7. /\ rows'[j].list = rows[j].list
      /\ rows'[j].state = (IF rows[j].state = "ACTIVE" THEN "QUEUED" ELSE rows[j].state)
      /\ rows'[j].err => rows[j].err
  BY <1>1, <1>2 DEF RowsInState, Each, Row
<1>8. /\ rows'[j].list = "linkgrabber" =>
           rows'[j].state \in {"QUEUED", "PAUSED"} /\ j \notin partial'
      /\ rows'[j].err => rows'[j].state = "ERROR"
      /\ rows'[j].state = "DONE" => j \notin partial'
  BY <1>2, <1>3, <1>4, <1>7
<1> QED BY <1>1, <1>6, <1>8, FreshLink

\* Whatever the queue before was, the one loaded from such tables is in order.
LEMMA LoadedInOrder ==
  ASSUME Loadable, Restart PROVE Core'
<1> DEFINE requeued == {i \in DOMAIN rows : /\ rows[i].state \in {"QUEUED", "ACTIVE"}
                                            /\ rows[i].list = "download"}
<1>1. /\ items' = [i \in DOMAIN rows |-> Loaded(rows[i])] /\ pkgs' = pkgRows
      /\ rows' = RowsInState(requeued, "QUEUED") /\ nextPos' \in 1 .. (PosBound + 1)
      /\ cells' = [i \in Links |-> "free"]
      /\ UNCHANGED <<pkgRows, nextId, nextPkg, maxActive, globalAutostart, partial>>
  BY DEF Restart, settings
<1>2. DOMAIN items' = DOMAIN rows /\ DOMAIN rows' = DOMAIN rows
  BY <1>1 DEF RowsInState, Each
<1>3. GlobalOK' BY <1>1, <1>2 DEF Loadable, GlobalOK
<1>4. ASSUME NEW j \in DOMAIN items' PROVE LinkOK(j)'
  <2>1. j \in DOMAIN rows /\ j \in Links BY <1>2 DEF Loadable
  <2>2. j \in requeued <=> rows[j].state \in {"QUEUED", "ACTIVE"} /\ rows[j].list = "download"
    BY <2>1
  <2>3. items'[j] = Loaded(rows[j]) /\ cells'[j] = "free" /\ partial' = partial
    BY <1>1, <2>1
  <2> HIDE DEF requeued
  <2> QED BY <1>1, <2>1, <2>2, <2>3, LoadedLink
<1> QED BY <1>3, <1>4 DEF Core

LEMMA RestartKeeps ==
  ASSUME Core, Tables, AllLoaded, Restart PROVE Core' /\ Tables' /\ AllLoaded'
<1>1. AllLoaded' BY DEF Restart, RowsInState, Each, AllLoaded
<1>2. Tables' BY DEF Restart, Tables
<1> QED BY <1>1, <1>2, RunningLoadable, LoadedInOrder

---------------------------------------------------------------------------
(* The invariant, and what it gives *)

LEMMA LinkgrabberCore == Core /\ Linkgrabber => Core'
BY AddFailsKeeps, AddKeeps, GrabKeeps, ConfirmKeeps, LgRemoveKeeps DEF Linkgrabber

LEMMA LinkVerbsCore == Core /\ LinkVerbs => Core'
<1> SUFFICES ASSUME Core, LinkVerbs PROVE Core'
  OBVIOUS
<1>1. ASSUME NEW i \in DOMAIN items, Pause(i) \/ Resume(i) \/ Remove(i) PROVE Core'
  BY <1>1, PauseKeeps, ResumeKeeps, RemoveLinksKeeps DEF Remove
<1>2. ASSUME NEW p \in DOMAIN pkgs, PkgRemove(p) PROVE Core'
  <2>1. Members(p) \subseteq DOMAIN items BY DEF Members
  <2> QED BY <1>2, <2>1, RemoveLinksKeeps DEF PkgRemove
<1>3. ASSUME NEW dir \in MoveDirs,
             \/ \E i \in DOMAIN items : MoveLink(i, dir)
             \/ \E p \in DOMAIN pkgs : MovePkg(p, dir)
      PROVE  Core'
  BY <1>3, MoveLinkKeeps, MovePkgKeeps
<1>4. ASSUME NEW v \in Priorities,
             \/ \E i \in DOMAIN items : SetPriority(i, v)
             \/ \E p \in DOMAIN pkgs : SetPackagePriority(p, v) \/ PkgUpdate(p, v)
      PROVE  Core'
  BY <1>4, SetPriorityKeeps, SetPackagePriorityKeeps, PkgUpdateKeeps
<1>5. ASSUME NEW S \in Scopes, NEW on \in Toggles, SetEnabled(S, on) \/ SetAutostart(S, on)
      PROVE  Core'
  BY <1>5, SetEnabledKeeps, SetAutostartKeeps
<1>6. ASSUME NEW S \in Scopes, ForceStart(S) PROVE Core'
  BY <1>6, ForceKeeps
<1> QED BY <1>1, <1>2, <1>3, <1>4, <1>5, <1>6 DEF LinkVerbs

LEMMA GlobalVerbsCore == Core /\ GlobalVerbs => Core'
BY SetMaxActiveKeeps, ResumeAllKeeps, PauseAllKeeps, StopAllKeeps, ClearKeeps DEF GlobalVerbs

LEMMA SystemCore == Core /\ System => Core'
BY TickKeeps, WorkerWritesKeeps, WorkerReturnsKeeps, FinalizeWorkerKeeps DEF System

---------------------------------------------------------------------------
(* The linkgrabber shows its links *)

\* No link is staged anew or changes its package, and no package goes or moves.
ListsKept ==
  /\ \A j \in DOMAIN items' : /\ j \in DOMAIN items /\ items'[j].list = items[j].list
                             /\ items'[j].pkg = items[j].pkg
  /\ \A p \in DOMAIN pkgs : p \in DOMAIN pkgs' /\ pkgs'[p].list = pkgs[p].list

LEMMA ShownKept ==
  ASSUME NEW E, Core, AllShown(E), ListsKept PROVE AllShown(E)'
BY DEF AllShown, Shown, ListsKept

\* Packages P go, and every link of them that is staged.
LEMMA ShownDropped ==
  ASSUME NEW E, Core, AllShown(E), NEW R, NEW P, pkgs' = Without(pkgs, P),
         \A j \in DOMAIN items' : /\ j \in DOMAIN items \ R /\ items'[j].list = items[j].list
                                /\ items'[j].pkg = items[j].pkg,
         \A j \in Staged \ R : items[j].pkg \notin P
  PROVE  AllShown(E)'
BY DEF AllShown, Shown, Staged, Without

LEMMA LinkgrabberShows ==
  ASSUME NEW E, Core, AllShown(E), Linkgrabber PROVE AllShown(E)'
<1>0. \A j \in DOMAIN items : items[j] \in Item BY DEF Core, LinkOK, Typed
<1>1. CASE AddFails
  BY <1>1, ShownKept DEF AddFails, packages, ListsKept
<1>2. ASSUME NEW d \in Delegates, Add(d) PROVE AllShown(E)'
  BY <1>2 DEF Add, NewRow, ItemOf, packages, Core, GlobalOK, AllShown, Shown
<1>3. ASSUME NEW k \in 1 .. MaxGrab, Grab(k) PROVE AllShown(E)'
  <2>0. PICK n \in 0 .. k : \E at, d :
          GrabInto([list |-> "linkgrabber", prio |-> DEFAULT, pos |-> nextPos], k, n, at, d)
    BY <1>3 DEF Grab
  <2>1. PICK at, d :
          GrabInto([list |-> "linkgrabber", prio |-> DEFAULT, pos |-> nextPos], k, n, at, d)
    BY <2>0
  <2>2. nextPkg \notin DOMAIN pkgs BY BoundsAssumption DEF Core, GlobalOK
  <2>3. /\ nextPkg \in DOMAIN pkgs' /\ pkgs'[nextPkg].list = "linkgrabber"
        /\ \A p \in DOMAIN pkgs : p \in DOMAIN pkgs' /\ pkgs'[p] = pkgs[p]
    BY <2>1, <2>2 DEF GrabInto
  <2>4. ASSUME NEW j \in DOMAIN items' PROVE Shown(E, j)'
    <3>1. CASE j \in NewIds(n)
      <4>1. items'[j] = ItemOf(NewRow("linkgrabber", nextPkg, at[j], d[j]))
        BY <2>1, <3>1 DEF GrabInto
      <4>2. items'[j].pkg = nextPkg BY <4>1 DEF ItemOf, NewRow
      <4> QED BY <2>3, <4>2 DEF Shown
    <3>2. CASE j \notin NewIds(n)
      <4>1. j \in DOMAIN items /\ items'[j] = items[j] BY <2>1, <3>2 DEF GrabInto
      <4>2. Shown(E, j) BY <4>1 DEF AllShown
      <4> QED BY <2>3, <4>1, <4>2 DEF Shown
    <3> QED BY <3>1, <3>2
  <2> QED BY <2>4 DEF AllShown
<1>4. ASSUME NEW S, NEW P, NEW start, ConfirmLinks(S, P, start),
             \A j \in Staged \ S : items[j].pkg \notin P
      PROVE  AllShown(E)'
  <2>1. ASSUME NEW j \in DOMAIN items', items'[j].list = "linkgrabber"
        PROVE  j \in Staged \ S /\ items'[j] = items[j]
    <3>1. j \in DOMAIN items BY <1>4 DEF ConfirmLinks, Each
    <3>2. CASE j \in S
      <4>1. items'[j] = [items[j] EXCEPT !.list = "download", !.state = "QUEUED",
                                         !.autostart = start]
        BY <1>4, <3>1, <3>2 DEF ConfirmLinks, Each
      <4> QED BY <1>0, <2>1, <3>1, <4>1 DEF Item
    <3>3. CASE j \notin S BY <1>4, <2>1, <3>1, <3>3 DEF ConfirmLinks, Each, Staged
    <3> QED BY <3>2, <3>3
  <2>2. \A p \in DOMAIN pkgs : p \in DOMAIN pkgs' /\ (p \notin P => pkgs'[p] = pkgs[p])
    BY <1>4 DEF ConfirmLinks, Each
  <2> QED BY <1>4, <2>1, <2>2 DEF AllShown, Shown, Staged
<1>5. ASSUME NEW start, ConfirmAll(start) PROVE AllShown(E)'
  BY <1>4, <1>5 DEF ConfirmAll
<1>6. ASSUME NEW p, NEW start, ConfirmPackage(p, start)
      PROVE  AllShown(E)'
  <2>1. \A j \in Staged \ (Members(p) \cap Staged) : items[j].pkg \notin {p}
    BY DEF Members, Staged
  <2> QED BY <1>4, <1>6, <2>1 DEF ConfirmPackage
<1>7. ASSUME NEW i, NEW start, ConfirmLink(i, start) PROVE AllShown(E)'
  <2>1. \A j \in Staged \ {i} : items[j].pkg \notin Following(i)
    BY DEF Following, Members, Staged
  <2> QED BY <1>4, <1>7, <2>1 DEF ConfirmLink
<1>8. ASSUME NEW R, NEW P, LgDelete(R, P), \A j \in Staged \ R : items[j].pkg \notin P
      PROVE  AllShown(E)'
  <2>1. \A j \in DOMAIN items' : j \in DOMAIN items \ R /\ items'[j] = items[j]
    BY <1>8 DEF LgDelete, Without
  <2>2. pkgs' = Without(pkgs, P) BY <1>8 DEF LgDelete
  <2> QED BY <1>8, <2>1, <2>2, ShownDropped
<1>9. CASE LgRemoveAll
  BY <1>8, <1>9 DEF LgRemoveAll
<1>10. ASSUME NEW p, LgRemovePackage(p) PROVE AllShown(E)'
  <2>1. \A j \in Staged \ (Members(p) \cap Staged) : items[j].pkg \notin {p}
    BY DEF Members, Staged
  <2> QED BY <1>8, <1>10, <2>1 DEF LgRemovePackage
<1>11. ASSUME NEW i, LgRemoveLink(i) PROVE AllShown(E)'
  <2>1. \A j \in Staged \ {i} : items[j].pkg \notin Emptied({items[i].pkg}, {i})
    BY DEF Emptied, Staged
  <2> QED BY <1>8, <1>11, <2>1 DEF LgRemoveLink
<1> QED BY <1>1, <1>2, <1>3, <1>5, <1>6, <1>7, <1>9, <1>10, <1>11 DEF Linkgrabber

LEMMA RemoveLinksShows ==
  ASSUME NEW E, Core, AllShown(E), NEW S, NEW P, RemoveLinks(S, P) PROVE AllShown(E)'
<1> DEFINE idle == S \ Running
<1>0. \A j \in DOMAIN items : items[j] \in Item BY DEF Core, LinkOK, Typed
<1>1. /\ items' = Without(Each(items, S, LAMBDA it :
                    [Cancelling(it) EXCEPT !.removeRequested = TRUE]), idle)
      /\ pkgs' = Without(pkgs, Emptied(P, idle))
  BY DEF RemoveLinks, DropIfEmpty
<1> HIDE DEF idle
<1>2. \A j \in DOMAIN items' : /\ j \in DOMAIN items \ idle /\ items'[j].list = items[j].list
                             /\ items'[j].pkg = items[j].pkg
  BY ZenonT(60), <1>0, <1>1 DEF Without, Each, Cancelling, Item
<1>3. \A j \in Staged \ idle : items[j].pkg \notin Emptied(P, idle) BY DEF Emptied, Staged
<1> QED BY <1>1, <1>2, <1>3, ShownDropped

LEMMA LinkVerbsShow ==
  ASSUME NEW E, Core, AllShown(E), LinkVerbs PROVE AllShown(E)'
<1>0. /\ \A j \in DOMAIN items : items[j] \in Item
      /\ \A p \in DOMAIN pkgs : pkgs[p] \in Package
  BY DEF Core, GlobalOK, LinkOK, Typed
<1>1. ASSUME NEW i \in DOMAIN items, Pause(i) PROVE ListsKept
  <2>1. /\ DOMAIN items' = DOMAIN items /\ pkgs' = pkgs
        /\ \A j \in DOMAIN items : j # i => items'[j] = items[j]
    BY <1>1 DEF Pause, packages
  <2>2. items'[i].list = items[i].list /\ items'[i].pkg = items[i].pkg
    BY ZenonT(60), <1>0, <1>1 DEF Pause, Cancelling, Item
  <2> QED BY <2>1, <2>2 DEF ListsKept
<1>2. ASSUME NEW i \in DOMAIN items, Resume(i) PROVE ListsKept
  BY <1>0, <1>2 DEF Resume, Item, packages, ListsKept
<1>3. ASSUME NEW i, NEW v, SetPriority(i, v) PROVE ListsKept
  BY <1>0, <1>3 DEF SetPriority, Each, Item, packages, ListsKept
<1>4. ASSUME NEW p, NEW v, SetPackagePriority(p, v) PROVE ListsKept
  BY <1>0, <1>4 DEF SetPackagePriority, Each, Item, Package, ListsKept
<1>5. ASSUME NEW p, NEW v, PkgUpdate(p, v) PROVE ListsKept
  BY <1>0, <1>5 DEF PkgUpdate, Each, Package, ListsKept
<1>6. ASSUME NEW S, NEW on, SetEnabled(S, on) PROVE ListsKept
  BY <1>0, <1>6 DEF SetEnabled, Each, Item, packages, ListsKept
<1>7. ASSUME NEW S, NEW on, SetAutostart(S, on) PROVE ListsKept
  BY <1>0, <1>7 DEF SetAutostart, Each, Item, packages, ListsKept
<1>8. ASSUME NEW S, ForceStart(S) PROVE ListsKept
  BY ZenonT(60), <1>0, <1>8 DEF ForceStart, Forced, Each, Item, packages, ListsKept
<1>9. ASSUME NEW i \in DOMAIN items, NEW dir \in MoveDirs, MoveLink(i, dir) PROVE ListsKept
  <2>1. dir \in {"UP", "DOWN", "TOP", "BOTTOM"} BY BoundsAssumption
  <2>2. items' \in Reorderings(items, i, LinkPeers(i), dir) /\ items'[i].pos \in Positions
    BY <1>9 DEF MoveLink
  <2>3. \A y \in DOMAIN items :
          items[y].pos \in Positions /\ (\A v : [items[y] EXCEPT !.pos = v].pos = v)
    BY <1>0 DEF Item
  <2>4. LinkPeers(i) \subseteq DOMAIN items \ {i} BY DEF LinkPeers
  <2>5. OnlyPositions(items, items') BY <2>1, <2>2, <2>3, <2>4, ReorderingShape
  <2> QED BY <1>0, <1>9, <2>5 DEF MoveLink, OnlyPositions, Item, packages, ListsKept
<1>10. ASSUME NEW p \in DOMAIN pkgs, NEW dir \in MoveDirs, MovePkg(p, dir) PROVE ListsKept
  <2>1. dir \in {"UP", "DOWN", "TOP", "BOTTOM"} BY BoundsAssumption
  <2>2. pkgs' \in Reorderings(pkgs, p, PkgPeers(p), dir) /\ pkgs'[p].pos \in Positions
    BY <1>10 DEF MovePkg
  <2>3. \A y \in DOMAIN pkgs :
          pkgs[y].pos \in Positions /\ (\A v : [pkgs[y] EXCEPT !.pos = v].pos = v)
    BY <1>0 DEF Package
  <2>4. PkgPeers(p) \subseteq DOMAIN pkgs \ {p} BY DEF PkgPeers
  <2>5. OnlyPositions(pkgs, pkgs') BY <2>1, <2>2, <2>3, <2>4, ReorderingShape
  <2> QED BY <1>0, <1>10, <2>5 DEF MovePkg, OnlyPositions, Package, ListsKept
<1> QED
  BY <1>1, <1>2, <1>3, <1>4, <1>5, <1>6, <1>7, <1>8, <1>9, <1>10, ShownKept, RemoveLinksShows
  DEF LinkVerbs, Remove, PkgRemove

LEMMA OthersShow ==
  ASSUME NEW E, Core, AllShown(E), GlobalVerbs \/ (AllLoaded /\ Restart)
  PROVE  AllShown(E)'
<1>0. \A j \in DOMAIN items : items[j] \in Item BY DEF Core, LinkOK, Typed
<1>1. ASSUME NEW v, SetMaxActive(v) PROVE ListsKept
  BY <1>1 DEF SetMaxActive, packages, ListsKept
<1>2. CASE ResumeAll
  <2>1. ListsKept BY ZenonT(60), <1>0, <1>2 DEF ResumeAll, Each, Item, packages, ListsKept
  <2> QED BY <2>1, ShownKept
<1>3. CASE PauseAll
  <2>1. ListsKept BY ZenonT(60), <1>0, <1>3 DEF PauseAll, Each, Cancelling, Item, packages, ListsKept
  <2> QED BY <2>1, ShownKept
<1>4. CASE StopAll
  <2>1. ListsKept BY <1>0, <1>4 DEF StopAll, Each, Cancelling, Item, packages, ListsKept
  <2> QED BY <2>1, ShownKept
<1>5. ASSUME NEW R, NEW cleaned, Clear(R, cleaned) PROVE AllShown(E)'
  <2> DEFINE P == Emptied({items[i].pkg : i \in R}, R)
  <2>1. pkgs' = Without(pkgs, P) BY <1>5 DEF Clear, DropIfEmpty
  <2>2. \A j \in DOMAIN items' : j \in DOMAIN items \ R /\ items'[j] = items[j]
    BY <1>5 DEF Clear, Without
  <2>3. \A j \in Staged \ R : items[j].pkg \notin P BY DEF Emptied, Staged
  <2> HIDE DEF P
  <2> QED BY <2>1, <2>2, <2>3, ShownDropped
<1>6. CASE AllLoaded /\ Restart
  <2>1. /\ items' = [i \in DOMAIN items |-> Loaded(rows[i])] /\ DOMAIN pkgs' = DOMAIN pkgs
        /\ \A p \in DOMAIN pkgs : pkgs'[p] = pkgs[p]
    BY <1>6 DEF Restart, Core, GlobalOK, AllLoaded
  <2>2. \A j \in DOMAIN items : rows[j].list = items[j].list /\ rows[j].pkg = items[j].pkg
                                /\ rows[j] \in Row
    BY DEF Core, LinkOK, Typed, Mirrored
  <2>3. ListsKept BY <2>1, <2>2 DEF Loaded, ItemOf, Row, ListsKept
  <2> QED BY <2>3, ShownKept
<1> QED
  BY <1>1, <1>2, <1>3, <1>4, <1>5, <1>6, ShownKept
  DEF GlobalVerbs, ClearFinished, ClearFailed

LEMMA SystemShows ==
  ASSUME NEW E, Core, AllShown(E), System PROVE AllShown(E)'
<1>0. \A j \in DOMAIN items : items[j] \in Item BY DEF Core, LinkOK, Typed
<1>1. CASE Tick
  <2>1. PICK S : StartItems(S) BY <1>1 DEF Tick
  <2>2. /\ items' = Each(items, S, LAMBDA it :
             [it EXCEPT !.state = "ACTIVE", !.cancelRequested = FALSE,
                        !.globallyPaused = FALSE, !.job = "running", !.token = ~it.delegate])
        /\ pkgs' = pkgs
    BY <2>1 DEF StartItems, packages
  <2>3. ListsKept BY ZenonT(60), <1>0, <2>2 DEF Each, Item, ListsKept
  <2> QED BY <2>3, ShownKept
<1>2. ASSUME NEW i, WorkerWrites(i) PROVE ListsKept
  BY <1>2 DEF WorkerWrites, packages, ListsKept
<1>3. ASSUME NEW i, NEW rc, WorkerReturns(i, rc) PROVE ListsKept
  BY <1>0, <1>3 DEF WorkerReturns, Running, Item, packages, ListsKept
<1>4. ASSUME NEW i \in DOMAIN items, FinalizeWorker(i)
      PROVE  AllShown(E)'
  <2>1. CASE items[i].removeRequested
    <3> DEFINE R == {i}
               P == Emptied({items[i].pkg}, R)
    <3>1. items' = Without(items, R) /\ pkgs' = Without(pkgs, P)
      BY <1>4, <2>1 DEF FinalizeWorker, DropIfEmpty
    <3>2. \A j \in DOMAIN items' : j \in DOMAIN items \ R /\ items'[j] = items[j]
      BY <3>1 DEF Without
    <3>3. \A j \in Staged \ R : items[j].pkg \notin P BY DEF Emptied, Staged
    <3> HIDE DEF R, P
    <3> QED BY <3>1, <3>2, <3>3, ShownDropped
  <2>2. CASE ~items[i].removeRequested
    <3>1. /\ DOMAIN items' = DOMAIN items /\ pkgs' = pkgs
          /\ \A j \in DOMAIN items : j # i => items'[j] = items[j]
      BY <1>4, <2>2 DEF FinalizeWorker, packages
    <3>2. items'[i].list = items[i].list /\ items'[i].pkg = items[i].pkg
      <4> DEFINE st == Settled(items[i])
                 err == items[i].job = "failed" \/ items[i].err
                 paused == items[i].globallyPaused /\ st = "PAUSED"
      <4>1. items' = [items EXCEPT ![i] = [items[i] EXCEPT
                        !.state = st, !.err = err, !.job = "none", !.token = FALSE,
                        !.force = FALSE, !.cancelRequested = FALSE,
                        !.globallyPaused = paused]]
        BY <1>4, <2>2 DEF FinalizeWorker
      <4> HIDE DEF st, err, paused
      <4> QED BY <1>0, <4>1 DEF Item
    <3>3. ListsKept BY <3>1, <3>2 DEF ListsKept
    <3> QED BY <3>3, ShownKept
  <2> QED BY <2>1, <2>2
<1> QED BY <1>1, <1>2, <1>3, <1>4, ShownKept DEF System

---------------------------------------------------------------------------
(* What the process has not loaded *)

NotLoaded == DOMAIN rows \ DOMAIN items
PkgsNotLoaded == DOMAIN pkgRows \ DOMAIN pkgs

\* It stays as it is, and the process neither finds nor loses any of it.
LinksAside ==
  /\ NotLoaded' = NotLoaded
  /\ \A i \in NotLoaded : rows'[i] = rows[i] /\ (i \in partial' => i \in partial)
PkgsAside ==
  /\ PkgsNotLoaded' = PkgsNotLoaded
  /\ \A p \in PkgsNotLoaded : pkgRows'[p] = pkgRows[p]
  /\ Tables => Tables'
Aside == LinksAside /\ PkgsAside

LEMMA PkgsStay == ASSUME UNCHANGED packages PROVE PkgsAside
BY DEF packages, PkgsNotLoaded, Tables, PkgsAside

\* A column is written to some links.
LEMMA FieldsAside ==
  ASSUME NEW S, DOMAIN items' = DOMAIN items, DOMAIN rows' = DOMAIN rows,
         S \subseteq DOMAIN items, \A i \in DOMAIN rows \ S : rows'[i] = rows[i],
         UNCHANGED partial
  PROVE  LinksAside
BY DEF NotLoaded, LinksAside

\* Links and packages go, from memory and from the tables.
LEMMA DroppedAside ==
  ASSUME Core, NEW R, NEW P, R \subseteq DOMAIN items, P \subseteq DOMAIN pkgs,
         DOMAIN items' = DOMAIN items \ R, rows' = Without(rows, R),
         pkgs' = Without(pkgs, P), pkgRows' = Without(pkgRows, P), partial' \subseteq partial
  PROVE  Aside
<1>1. LinksAside BY DEF Without, NotLoaded, LinksAside
<1>2. PkgsNotLoaded' = PkgsNotLoaded /\ \A p \in PkgsNotLoaded : pkgRows'[p] = pkgRows[p]
  BY DEF Without, PkgsNotLoaded
<1>3. Tables' BY DEF Without, Tables
<1> QED BY <1>1, <1>2, <1>3 DEF PkgsAside, Aside

LEMMA LinkgrabberAside ==
  ASSUME Core, Linkgrabber PROVE Aside
<1>1. CASE AddFails
  BY <1>1 DEF AddFails, packages, machine, NotLoaded, PkgsNotLoaded, Tables, LinksAside,
     PkgsAside, Aside
<1>2. ASSUME NEW d \in Delegates, Add(d) PROVE Aside
  <2>1. nextId \notin DOMAIN rows BY BoundsAssumption DEF Core, GlobalOK
  <2>2. LinksAside
    BY <1>2, <2>1 DEF Add, machine, Core, GlobalOK, NotLoaded, LinksAside
  <2> QED BY <1>2, <2>2, PkgsStay DEF Add, Aside
<1>3. ASSUME NEW k \in 1 .. MaxGrab, Grab(k) PROVE Aside
  <2>1. PICK n \in 0 .. k : \E at, d, pkg : GrabInto(pkg, k, n, at, d)
    BY <1>3 DEF Grab
  <2>2. PICK at, d, pkg : GrabInto(pkg, k, n, at, d) BY <2>1
  <2>3. nextPkg \notin DOMAIN pkgRows /\ \A i \in NewIds(n) : i \notin DOMAIN rows
    BY BoundsAssumption DEF NewIds, Links, Core, GlobalOK
  <2>4. LinksAside
    BY <2>2, <2>3 DEF GrabInto, machine, NotLoaded, LinksAside
  <2>5. PkgsAside
    BY <2>2, <2>3 DEF GrabInto, PkgsNotLoaded, Tables, PkgsAside
  <2> QED BY <2>4, <2>5 DEF Aside
<1>4. ASSUME NEW S, NEW P, NEW start, ConfirmLinks(S, P, start),
             S \subseteq Staged, P \subseteq StagedPackages
      PROVE  Aside
  <2>1. S \subseteq DOMAIN items /\ P \subseteq DOMAIN pkgs
    BY <1>4 DEF Staged, StagedPackages
  <2>2. LinksAside
    BY <1>4, <2>1 DEF ConfirmLinks, Each, machine, NotLoaded, LinksAside
  <2>3. PkgsAside
    BY <1>4, <2>1 DEF ConfirmLinks, Each, PkgsNotLoaded, Tables, PkgsAside
  <2> QED BY <2>2, <2>3 DEF Aside
<1>5. ASSUME NEW start,
             \/ ConfirmAll(start)
             \/ \E p \in DOMAIN pkgs : ConfirmPackage(p, start)
             \/ \E i \in DOMAIN items : ConfirmLink(i, start)
      PROVE  Aside
  <2>1. CASE ConfirmAll(start) BY <1>4, <2>1 DEF ConfirmAll
  <2>2. ASSUME NEW p, ConfirmPackage(p, start) PROVE Aside
    BY <1>4, <2>2 DEF ConfirmPackage
  <2>3. ASSUME NEW i, ConfirmLink(i, start) PROVE Aside
    <3>1. {i} \subseteq Staged /\ Following(i) \subseteq StagedPackages
      BY <2>3 DEF ConfirmLink, Following
    <3> QED BY <1>4, <2>3, <3>1 DEF ConfirmLink
  <2> QED BY <1>5, <2>1, <2>2, <2>3
<1>6. ASSUME NEW R, NEW P, LgDelete(R, P), R \subseteq DOMAIN items, P \subseteq DOMAIN pkgs
      PROVE  Aside
  <2>1. DOMAIN items' = DOMAIN items \ R BY <1>6 DEF LgDelete, Without
  <2> QED BY <1>6, <2>1, DroppedAside DEF LgDelete, machine
<1>7. CASE LgRemoveAll
  BY <1>6, <1>7 DEF LgRemoveAll, Staged, StagedPackages
<1>8. ASSUME NEW p, LgRemovePackage(p) PROVE Aside
  BY <1>6, <1>8 DEF LgRemovePackage, Staged, StagedPackages
<1>9. ASSUME NEW i, LgRemoveLink(i) PROVE Aside
  BY <1>6, <1>9 DEF LgRemoveLink, Staged, Emptied
<1> QED BY <1>1, <1>2, <1>3, <1>5, <1>7, <1>8, <1>9 DEF Linkgrabber

LEMMA LinkVerbsAside ==
  ASSUME Core, LinkVerbs PROVE Aside
<1>1. ASSUME NEW i \in DOMAIN items, Pause(i) PROVE Aside
  <2>1. DOMAIN items' = DOMAIN items /\ DOMAIN rows' = DOMAIN rows
    BY <1>1 DEF Pause, RowsInState, Each
  <2>2. \A j \in DOMAIN rows \ {i} : rows'[j] = rows[j]
    BY <1>1 DEF Pause, RowsInState, Each
  <2>3. LinksAside BY <1>1, <2>1, <2>2, FieldsAside DEF Pause
  <2> QED BY <1>1, <2>3, PkgsStay DEF Pause, Aside
<1>2. ASSUME NEW i \in DOMAIN items, Resume(i) PROVE Aside
  <2>1. LinksAside
    BY <1>2, FieldsAside DEF Resume, RowsInState, Each, machine
  <2> QED BY <1>2, <2>1, PkgsStay DEF Resume, Aside
<1>3. ASSUME NEW S, NEW P, RemoveLinks(S, P), S \subseteq DOMAIN items PROVE Aside
  <2> DEFINE idle == S \ Running
             gone == Emptied(P, idle)
  <2>1. DOMAIN items' = DOMAIN items \ idle BY <1>3 DEF RemoveLinks, Without, Each
  <2>2. /\ rows' = Without(rows, idle) /\ partial' \subseteq partial
        /\ pkgs' = Without(pkgs, gone) /\ pkgRows' = Without(pkgRows, gone)
    BY <1>3 DEF RemoveLinks, DropIfEmpty, PartialWithout
  <2>3. idle \subseteq DOMAIN items /\ gone \subseteq DOMAIN pkgs BY <1>3 DEF Emptied
  <2> HIDE DEF idle, gone
  <2> QED BY <2>1, <2>2, <2>3, DroppedAside
<1>4. ASSUME NEW i \in DOMAIN items, NEW v, SetPriority(i, v) PROVE Aside
  <2>1. LinksAside BY <1>4, FieldsAside DEF SetPriority, Each, machine
  <2> QED BY <1>4, <2>1, PkgsStay DEF SetPriority, Aside
<1>5. ASSUME NEW p \in DOMAIN pkgs, NEW v, SetPackagePriority(p, v) PROVE Aside
  <2>1. Members(p) \subseteq DOMAIN items BY DEF Members
  <2>2. LinksAside BY <1>5, <2>1, FieldsAside DEF SetPackagePriority, Each, machine
  <2>3. PkgsAside BY <1>5 DEF SetPackagePriority, Each, PkgsNotLoaded, Tables, PkgsAside
  <2> QED BY <2>2, <2>3 DEF Aside
<1>6. ASSUME NEW p \in DOMAIN pkgs, NEW v, PkgUpdate(p, v) PROVE Aside
  <2>1. LinksAside BY <1>6 DEF PkgUpdate, machine, NotLoaded, LinksAside
  <2>2. PkgsAside BY <1>6 DEF PkgUpdate, Each, PkgsNotLoaded, Tables, PkgsAside
  <2> QED BY <2>1, <2>2 DEF Aside
<1>7. \A S \in Scopes : S \subseteq DOMAIN items BY DEF Scopes, Members
<1>8. ASSUME NEW S \in Scopes, NEW on, SetEnabled(S, on) PROVE Aside
  <2>1. LinksAside BY <1>7, <1>8, FieldsAside DEF SetEnabled, Each, machine
  <2> QED BY <1>8, <2>1, PkgsStay DEF SetEnabled, Aside
<1>9. ASSUME NEW S \in Scopes, NEW on, SetAutostart(S, on) PROVE Aside
  <2>1. LinksAside BY <1>7, <1>9, FieldsAside DEF SetAutostart, Each, machine
  <2> QED BY <1>9, <2>1, PkgsStay DEF SetAutostart, Aside
<1>10. ASSUME NEW S \in Scopes, ForceStart(S) PROVE Aside
  <2>1. LinksAside BY <1>7, <1>10, FieldsAside DEF ForceStart, Each, machine
  <2> QED BY <1>10, <2>1, PkgsStay DEF ForceStart, Aside
<1>11. ASSUME NEW i \in DOMAIN items, NEW dir \in MoveDirs, MoveLink(i, dir) PROVE Aside
  <2>1. dir \in {"UP", "DOWN", "TOP", "BOTTOM"} BY BoundsAssumption
  <2>2. /\ items' \in Reorderings(items, i, LinkPeers(i), dir) /\ items'[i].pos \in Positions
        /\ rows' = Saved(rows, items, items')
    BY <1>11 DEF MoveLink
  <2>3. \A y \in DOMAIN items :
          items[y].pos \in Positions /\ (\A v : [items[y] EXCEPT !.pos = v].pos = v)
    BY DEF Core, LinkOK, Typed, Item
  <2>4. LinkPeers(i) \subseteq DOMAIN items \ {i} BY DEF LinkPeers
  <2>5. OnlyPositions(items, items') BY <2>1, <2>2, <2>3, <2>4, ReorderingShape
  <2>6. LinksAside
    BY <1>11, <2>2, <2>5 DEF MoveLink, OnlyPositions, Saved, machine, NotLoaded, LinksAside
  <2> QED BY <1>11, <2>6, PkgsStay DEF MoveLink, Aside
<1>12. ASSUME NEW p \in DOMAIN pkgs, NEW dir \in MoveDirs, MovePkg(p, dir) PROVE Aside
  <2>1. dir \in {"UP", "DOWN", "TOP", "BOTTOM"} BY BoundsAssumption
  <2>2. /\ pkgs' \in Reorderings(pkgs, p, PkgPeers(p), dir) /\ pkgs'[p].pos \in Positions
        /\ pkgRows' = Saved(pkgRows, pkgs, pkgs')
    BY <1>12 DEF MovePkg
  <2>3. \A y \in DOMAIN pkgs :
          pkgs[y].pos \in Positions /\ (\A v : [pkgs[y] EXCEPT !.pos = v].pos = v)
    BY DEF Core, GlobalOK, Package
  <2>4. PkgPeers(p) \subseteq DOMAIN pkgs \ {p} BY DEF PkgPeers
  <2>5. OnlyPositions(pkgs, pkgs') BY <2>1, <2>2, <2>3, <2>4, ReorderingShape
  <2>6. PkgsAside
    BY <2>2, <2>5 DEF OnlyPositions, Saved, PkgsNotLoaded, Tables, PkgsAside
  <2>7. LinksAside BY <1>12 DEF MovePkg, machine, NotLoaded, LinksAside
  <2> QED BY <2>6, <2>7 DEF Aside
<1>13. ASSUME NEW i \in DOMAIN items, Remove(i) PROVE Aside
  BY <1>3, <1>13 DEF Remove
<1>14. ASSUME NEW p, PkgRemove(p) PROVE Aside
  BY <1>3, <1>14 DEF PkgRemove, Members
<1> QED
  BY <1>1, <1>2, <1>4, <1>5, <1>6, <1>8, <1>9, <1>10, <1>11, <1>12, <1>13, <1>14
  DEF LinkVerbs

LEMMA GlobalVerbsAside ==
  ASSUME Core, GlobalVerbs PROVE Aside
<1>1. ASSUME NEW v, SetMaxActive(v) PROVE Aside
  BY <1>1, PkgsStay DEF SetMaxActive, machine, NotLoaded, LinksAside, Aside
<1>2. CASE ResumeAll
  <2> DEFINE S == {i \in DOMAIN items : items[i].globallyPaused /\ items[i].state = "PAUSED"}
  <2>1. /\ DOMAIN items' = DOMAIN items /\ rows' = RowsInState(S, "QUEUED")
        /\ UNCHANGED <<packages, partial>>
    BY <1>2 DEF ResumeAll, Each, machine
  <2>2. S \subseteq DOMAIN items OBVIOUS
  <2> HIDE DEF S
  <2>3. LinksAside BY <2>1, <2>2, FieldsAside DEF RowsInState, Each
  <2> QED BY <2>1, <2>3, PkgsStay DEF Aside
<1>3. CASE PauseAll \/ StopAll
  <2>1. DOMAIN items' = DOMAIN items /\ UNCHANGED <<rows, packages, partial>>
    BY <1>3 DEF PauseAll, StopAll, Each
  <2> QED BY <2>1, PkgsStay DEF NotLoaded, LinksAside, Aside
<1>4. ASSUME NEW R, NEW cleaned, Clear(R, cleaned), R \subseteq DOMAIN items PROVE Aside
  <2> DEFINE P == Emptied({items[i].pkg : i \in R}, R)
  <2>1. /\ DOMAIN items' = DOMAIN items \ R /\ rows' = Without(rows, R)
        /\ pkgs' = Without(pkgs, P) /\ pkgRows' = Without(pkgRows, P)
        /\ partial' \subseteq partial
    BY <1>4 DEF Clear, DropIfEmpty, Without, PartialWithout
  <2>2. P \subseteq DOMAIN pkgs BY DEF Emptied
  <2> HIDE DEF P
  <2> QED BY <1>4, <2>1, <2>2, DroppedAside
<1>5. CASE ClearFinished BY <1>4, <1>5 DEF ClearFinished, IdleIn
<1>6. CASE ClearFailed BY <1>4, <1>6 DEF ClearFailed, IdleIn
<1> QED BY <1>1, <1>2, <1>3, <1>5, <1>6 DEF GlobalVerbs

LEMMA SystemAside ==
  ASSUME Core, System PROVE Aside
<1>1. CASE Tick
  <2>1. PICK S \in SUBSET {i \in DOMAIN items : Startable(i)} : StartItems(S)
    BY <1>1 DEF Tick
  <2>2. /\ DOMAIN items' = DOMAIN items /\ rows' = RowsInState(S, "ACTIVE")
        /\ UNCHANGED <<packages, partial>>
    BY <2>1 DEF StartItems, Each
  <2>3. LinksAside BY <2>1, <2>2, FieldsAside DEF RowsInState, Each
  <2> QED BY <2>2, <2>3, PkgsStay DEF Aside
<1>2. ASSUME NEW i \in DOMAIN items, WorkerWrites(i) PROVE Aside
  BY <1>2, PkgsStay DEF WorkerWrites, NotLoaded, LinksAside, Aside
<1>3. ASSUME NEW i \in DOMAIN items, NEW rc, WorkerReturns(i, rc) PROVE Aside
  BY <1>3, PkgsStay DEF WorkerReturns, NotLoaded, LinksAside, Aside
<1>4. ASSUME NEW i \in DOMAIN items, FinalizeWorker(i) PROVE Aside
  <2>1. CASE items[i].removeRequested
    <3> DEFINE R == {i}
               P == Emptied({items[i].pkg}, R)
    <3>1. /\ DOMAIN items' = DOMAIN items \ R /\ rows' = Without(rows, R)
          /\ pkgs' = Without(pkgs, P) /\ pkgRows' = Without(pkgRows, P)
          /\ partial' \subseteq partial
      BY <1>4, <2>1 DEF FinalizeWorker, DropIfEmpty, Without, PartialWithout
    <3>2. R \subseteq DOMAIN items /\ P \subseteq DOMAIN pkgs BY DEF Emptied
    <3> HIDE DEF R, P
    <3> QED BY <3>1, <3>2, DroppedAside
  <2>2. CASE ~items[i].removeRequested
    <3>1. /\ DOMAIN items' = DOMAIN items /\ DOMAIN rows' = DOMAIN rows
          /\ \A j \in DOMAIN rows \ {i} : rows'[j] = rows[j]
          /\ UNCHANGED <<packages, partial>>
      BY <1>4, <2>2 DEF FinalizeWorker
    <3>2. LinksAside BY <3>1, FieldsAside
    <3> QED BY <3>1, <3>2, PkgsStay DEF Aside
  <2> QED BY <2>1, <2>2
<1> QED BY <1>1, <1>2, <1>3, <1>4 DEF System

\* A queue that is loaded as a whole stays so.
LEMMA StaysLoaded ==
  ASSUME Tables, AllLoaded, Aside, Core' PROVE Tables' /\ AllLoaded'
<1>1. NotLoaded' = {} /\ PkgsNotLoaded' = {} /\ Tables'
  BY DEF Aside, LinksAside, PkgsAside, NotLoaded, PkgsNotLoaded, AllLoaded
<1>2. DOMAIN items' \subseteq DOMAIN rows' /\ DOMAIN pkgs' \subseteq DOMAIN pkgRows'
  BY DEF Core, GlobalOK
<1> QED BY <1>1, <1>2 DEF NotLoaded, PkgsNotLoaded, AllLoaded

---------------------------------------------------------------------------
LEMMA LinkgrabberKeeps == IInv /\ Linkgrabber => IInv'
BY LinkgrabberCore, LinkgrabberShows, LinkgrabberAside, StaysLoaded DEF IInv

LEMMA LinkVerbsKeep == IInv /\ LinkVerbs => IInv'
BY LinkVerbsCore, LinkVerbsShow, LinkVerbsAside, StaysLoaded DEF IInv

LEMMA GlobalVerbsKeep == IInv /\ GlobalVerbs => IInv'
BY GlobalVerbsCore, OthersShow, GlobalVerbsAside, StaysLoaded DEF IInv

LEMMA SystemKeeps == IInv /\ System => IInv'
BY SystemCore, SystemShows, SystemAside, StaysLoaded DEF IInv

LEMMA RestartInOrder == IInv /\ Restart => IInv'
BY RestartKeeps, OthersShow DEF IInv

LEMMA InitOK == Init => IInv
BY BoundsAssumption DEF Init, IInv, Core, GlobalOK, Tables, AllLoaded, AllShown

LEMMA StutterKeeps == IInv /\ UNCHANGED vars => IInv'
<1> SUFFICES ASSUME IInv, UNCHANGED vars PROVE IInv'
  OBVIOUS
<1>1. UNCHANGED <<items, pkgs, rows, pkgRows, nextId, nextPkg, nextPos, maxActive,
                  globalAutostart, cells, partial>>
  BY DEF vars
<1>2. GlobalOK' BY <1>1 DEF IInv, Core, GlobalOK
<1>3. \A j \in DOMAIN items : LinkOK(j)'
  BY <1>1 DEF IInv, Core, LinkOK, Typed, Worked, Shelved, Mirrored
<1>4. AllShown({})' BY <1>1 DEF IInv, AllShown, Shown
<1>5. Tables' /\ AllLoaded' BY <1>1 DEF IInv, Tables, AllLoaded
<1> QED BY <1>1, <1>2, <1>3, <1>4, <1>5 DEF IInv, Core

\* The inductive invariant: whatever verbs, workers and restarts do, every
\* link, its worker, its cell and its row agree.
THEOREM Inductive == Spec => []IInv
<1>1. IInv /\ [Next]_vars => IInv'
  BY LinkgrabberKeeps, LinkVerbsKeep, GlobalVerbsKeep, SystemKeeps, RestartInOrder,
     StutterKeeps DEF Next
<1> QED BY InitOK, <1>1, PTL DEF Spec

LEMMA CoreTyped ==
  ASSUME Core, \A i \in NotLoaded : rows[i] \in Row PROVE TypeOK
<1>1. DOMAIN items \subseteq Links /\ DOMAIN rows \subseteq Links
  BY DEF Core, GlobalOK, LinkOK, Typed
<1>2. /\ \A i \in DOMAIN items : items[i] \in Item
      /\ \A i \in DOMAIN rows : rows[i] \in Row
  BY DEF Core, LinkOK, Typed, NotLoaded
<1>3. /\ DOMAIN pkgs \subseteq Packages /\ \A p \in DOMAIN pkgs : pkgs[p] \in Package
      /\ DOMAIN pkgRows \subseteq Packages /\ \A p \in DOMAIN pkgRows : pkgRows[p] \in Package
  BY DEF Core, GlobalOK
<1>4. partial \subseteq Links BY <1>1 DEF Core, GlobalOK
<1> QED BY <1>1, <1>2, <1>3, <1>4 DEF TypeOK, Core, GlobalOK

\* Every variable keeps its type under every verb of QueueScheduler.kt.
THEOREM TypeCorrect == Spec => []TypeOK
<1>1. IInv => TypeOK BY CoreTyped DEF IInv, AllLoaded, NotLoaded
<1> QED BY Inductive, <1>1, PTL

\* startItem and finalizeWorker alone make and unmake ACTIVE links.
THEOREM WorkerOwnership == Spec => []ActiveIffWorker
<1>1. IInv => ActiveIffWorker BY DEF IInv, Core, LinkOK, Worked, ActiveIffWorker
<1> QED BY Inductive, <1>1, PTL

\* Native cancel cells are neither leaked, nor shared, nor freed twice.
THEOREM CellOwnership == Spec => []CellsOwned
<1>1. IInv => CellsOwned
  BY DEF IInv, Core, GlobalOK, LinkOK, Typed, Worked, CellsOwned
<1> QED BY Inductive, <1>1, PTL

\* A stop asked of an engine worker is in its cell, and nothing else is.
THEOREM CancelDelivered == Spec => []CancelReachesWorker
<1>1. IInv => CancelReachesWorker
  BY DEF IInv, Core, LinkOK, Worked, Running, CancelReachesWorker
<1> QED BY Inductive, <1>1, PTL

\* A pending removal is never taken back.
THEOREM RemovalIsFinal == Spec => []RemovalStands
<1>1. IInv => RemovalStands BY DEF IInv, Core, LinkOK, Worked, RemovalStands
<1> QED BY Inductive, <1>1, PTL

\* The linkgrabber never downloads.
THEOREM LinkgrabberNeverRuns == Spec => []StagedNeverRuns
<1>1. IInv => StagedNeverRuns
  BY DEF IInv, Core, LinkOK, Shelved, Staged, StagedNeverRuns
<1> QED BY Inductive, <1>1, PTL

\* A staged link always has a staged package to be shown under.
THEOREM StagedHavePackage == Spec => []StagedPackageShown
<1>1. IInv => StagedPackageShown
  BY DEF IInv, AllShown, Shown, Staged, StagedPackages, StagedPackageShown
<1> QED BY Inductive, <1>1, PTL

LEMMA LoadedMirrors ==
  ASSUME Core, Tables, AllLoaded PROVE StoreMirrors
<1>1. pkgRows = pkgs BY DEF Core, GlobalOK, Tables, AllLoaded
<1>2. DOMAIN rows = DOMAIN items BY DEF AllLoaded
<1>3. \A i \in DOMAIN items : Mirrored(i) BY DEF Core, LinkOK
<1> QED BY <1>1, <1>2, <1>3 DEF Mirrored, StoreMirrors

\* The sqlite rows mirror the memory, up to what "Start now" does.
THEOREM MemoryMirrored == Spec => []StoreMirrors
<1>1. IInv => StoreMirrors BY LoadedMirrors DEF IInv
<1> QED BY Inductive, <1>1, PTL

\* The global pause reaches every worker but those of "Start now".
THEOREM GlobalPauseReaches == Spec => []PauseAllStops
<1>1. IInv => PauseAllStops BY DEF IInv, Core, LinkOK, Worked, Running, PauseAllStops
<1> QED BY Inductive, <1>1, PTL

\* Removing links leaves no part file behind.
THEOREM PartFilesOwned == Spec => []NoOrphanPartial
<1>1. IInv => NoOrphanPartial
  BY DEF IInv, Core, GlobalOK, AllLoaded, NoOrphanPartial
<1> QED BY Inductive, <1>1, PTL

---------------------------------------------------------------------------
(* The cap *)

\* No worker is new: a link that has one afterwards had it before.
NoneNew == \A j \in DOMAIN items' : items'[j].job # "none" =>
             j \in DOMAIN items /\ items[j].job # "none"

LEMMA LinkgrabberStartsNone ==
  ASSUME Core, Linkgrabber PROVE NoneNew
<1>0. \A j \in DOMAIN items : items[j] \in Item BY DEF Core, LinkOK, Typed
<1>1. CASE AddFails BY <1>1 DEF AddFails, NoneNew
<1>2. ASSUME NEW d \in Delegates, Add(d) PROVE NoneNew
  BY <1>2 DEF Add, ItemOf, NoneNew
<1>3. ASSUME NEW k \in 1 .. MaxGrab, Grab(k) PROVE NoneNew
  <2>1. PICK n \in 0 .. k : \E at, d, pkg : GrabInto(pkg, k, n, at, d)
    BY <1>3 DEF Grab
  <2>2. PICK at, d, pkg : GrabInto(pkg, k, n, at, d) BY <2>1
  <2> QED BY <2>2 DEF GrabInto, ItemOf, NoneNew
<1>4. ASSUME NEW S, NEW P, NEW start, ConfirmLinks(S, P, start) PROVE NoneNew
  BY <1>0, <1>4 DEF ConfirmLinks, Each, Item, NoneNew
<1>5. ASSUME NEW R, NEW P, LgDelete(R, P) PROVE NoneNew
  BY <1>5 DEF LgDelete, Without, NoneNew
<1> QED
  BY <1>1, <1>2, <1>3, <1>4, <1>5 DEF Linkgrabber, ConfirmAll, ConfirmPackage, ConfirmLink,
     LgRemoveAll, LgRemovePackage, LgRemoveLink

LEMMA LinkVerbsStartNone ==
  ASSUME Core, LinkVerbs PROVE NoneNew
<1>0. \A j \in DOMAIN items : items[j] \in Item BY DEF Core, LinkOK, Typed
<1>1. ASSUME NEW i \in DOMAIN items, Pause(i) PROVE NoneNew
  <2>1. /\ DOMAIN items' = DOMAIN items
        /\ \A j \in DOMAIN items : j # i => items'[j] = items[j]
    BY <1>1 DEF Pause
  <2>2. items'[i].job = items[i].job
    BY <1>0, <1>1 DEF Pause, Cancelling, Item
  <2> QED BY <2>1, <2>2 DEF NoneNew
<1>2. ASSUME NEW i \in DOMAIN items, Resume(i) PROVE NoneNew
  BY <1>0, <1>2 DEF Resume, Item, NoneNew
<1>3. ASSUME NEW S, NEW P, RemoveLinks(S, P) PROVE NoneNew
  BY <1>0, <1>3 DEF RemoveLinks, Without, Each, Cancelling, Item, NoneNew
<1>4. ASSUME NEW i, NEW v, SetPriority(i, v) PROVE NoneNew
  BY <1>0, <1>4 DEF SetPriority, Each, Item, NoneNew
<1>5. ASSUME NEW p, NEW v, SetPackagePriority(p, v) PROVE NoneNew
  BY <1>0, <1>5 DEF SetPackagePriority, Each, Item, NoneNew
<1>6. ASSUME NEW p, NEW v, PkgUpdate(p, v) PROVE NoneNew
  BY <1>6 DEF PkgUpdate, NoneNew
<1>7. ASSUME NEW S, NEW on, SetEnabled(S, on) PROVE NoneNew
  BY <1>0, <1>7 DEF SetEnabled, Each, Item, NoneNew
<1>8. ASSUME NEW S, NEW on, SetAutostart(S, on) PROVE NoneNew
  BY <1>0, <1>8 DEF SetAutostart, Each, Item, NoneNew
<1>9. ASSUME NEW S, ForceStart(S) PROVE NoneNew
  BY <1>0, <1>9 DEF ForceStart, Forced, Each, Item, NoneNew
<1>10. ASSUME NEW i \in DOMAIN items, NEW dir \in MoveDirs, MoveLink(i, dir) PROVE NoneNew
  <2>1. dir \in {"UP", "DOWN", "TOP", "BOTTOM"} BY BoundsAssumption
  <2>2. items' \in Reorderings(items, i, LinkPeers(i), dir) /\ items'[i].pos \in Positions
    BY <1>10 DEF MoveLink
  <2>3. \A y \in DOMAIN items :
          items[y].pos \in Positions /\ (\A v : [items[y] EXCEPT !.pos = v].pos = v)
    BY <1>0 DEF Item
  <2>4. LinkPeers(i) \subseteq DOMAIN items \ {i} BY DEF LinkPeers
  <2>5. OnlyPositions(items, items') BY <2>1, <2>2, <2>3, <2>4, ReorderingShape
  <2> QED BY <1>0, <2>5 DEF OnlyPositions, Item, NoneNew
<1>11. ASSUME NEW p, NEW dir, MovePkg(p, dir) PROVE NoneNew
  BY <1>11 DEF MovePkg, NoneNew
<1> QED
  BY <1>1, <1>2, <1>3, <1>4, <1>5, <1>6, <1>7, <1>8, <1>9, <1>10, <1>11
  DEF LinkVerbs, Remove, PkgRemove

LEMMA OthersStartNone ==
  ASSUME Core, GlobalVerbs \/ Restart \/ UNCHANGED vars PROVE NoneNew
<1>0. \A j \in DOMAIN items : items[j] \in Item BY DEF Core, LinkOK, Typed
<1>1. ASSUME NEW v, SetMaxActive(v) PROVE NoneNew BY <1>1 DEF SetMaxActive, NoneNew
<1>2. CASE ResumeAll BY <1>0, <1>2 DEF ResumeAll, Each, Item, NoneNew
<1>3. CASE PauseAll BY <1>0, <1>3 DEF PauseAll, Each, Cancelling, Item, NoneNew
<1>4. CASE StopAll BY <1>0, <1>4 DEF StopAll, Each, Cancelling, Item, NoneNew
<1>5. ASSUME NEW R, NEW cleaned, Clear(R, cleaned) PROVE NoneNew
  BY <1>5 DEF Clear, Without, NoneNew
<1>6. CASE Restart BY <1>6 DEF Restart, Loaded, ItemOf, NoneNew
<1>7. CASE UNCHANGED vars BY <1>7 DEF vars, NoneNew
<1> QED
  BY <1>1, <1>2, <1>3, <1>4, <1>5, <1>6, <1>7 DEF GlobalVerbs, ClearFinished, ClearFailed

LEMMA WorkersStartNone ==
  ASSUME Core, NEW i \in DOMAIN items,
         \/ WorkerWrites(i)
         \/ \E rc \in Outcomes : WorkerReturns(i, rc)
         \/ FinalizeWorker(i)
  PROVE  NoneNew
<1>0. \A j \in DOMAIN items : items[j] \in Item BY DEF Core, LinkOK, Typed
<1>1. CASE WorkerWrites(i) BY <1>1 DEF WorkerWrites, NoneNew
<1>2. ASSUME NEW rc \in Outcomes, WorkerReturns(i, rc) PROVE NoneNew
  BY <1>0, <1>2 DEF WorkerReturns, Running, NoneNew
<1>3. CASE FinalizeWorker(i)
  <2>1. i \in Running BY <1>3 DEF FinalizeWorker
  <2>2. /\ DOMAIN items' \subseteq DOMAIN items
        /\ \A j \in DOMAIN items' : j # i => items'[j] = items[j]
    BY <1>3 DEF FinalizeWorker, Without
  <2> QED BY <2>1, <2>2 DEF Running, NoneNew
<1> QED BY <1>1, <1>2, <1>3

LEMMA RunningFinite ==
  ASSUME Core PROVE IsFiniteSet(DOMAIN items) /\ IsFiniteSet(Running)
<1>1. IsFiniteSet(Links) BY BoundsAssumption, FS_Interval DEF Links
<1>2. DOMAIN items \subseteq Links BY DEF Core, LinkOK, Typed
<1>3. IsFiniteSet(DOMAIN items) BY <1>1, <1>2, FS_Subset
<1>4. Running \subseteq DOMAIN items BY DEF Running
<1> QED BY <1>3, <1>4, FS_Subset

\* What n rounds take from C are at most n.
LEMMA BestBounded ==
  ASSUME NEW C, IsFiniteSet(C), NEW n \in Nat, NEW S, IsBest(S, C, n)
  PROVE  IsFiniteSet(S) /\ Cardinality(S) \in Nat /\ Cardinality(S) <= n
<1>1. S \subseteq C BY DEF IsBest
<1>2. IsFiniteSet(S) BY <1>1, FS_Subset
<1>3. Cardinality(S) \in Nat /\ Cardinality(C) \in Nat
  BY <1>2, FS_CardinalityType
<1>4. Cardinality(S) <= n BY <1>3 DEF IsBest
<1> QED BY <1>2, <1>3, <1>4

LEMMA TickWithinCap ==
  ASSUME Core, Tick PROVE Cardinality(Running') <= maxActive
<1>1. PICK S \in SUBSET {i \in DOMAIN items : Startable(i)} :
        S # {} /\ Chosen(S) /\ StartItems(S)
  BY DEF Tick
<1>2. PICK F \in SUBSET S :
        IsBest(F, ForcedNow, FreeSlots)
        /\ IsBest(S \ F, EligibleNow \ F, FreeSlots - Cardinality(F))
  BY <1>1 DEF Chosen
<1>3. Running' = Running \cup S
  <2>1. \A j \in DOMAIN items : items[j] \in Item BY DEF Core, LinkOK, Typed
  <2>2. items' = Each(items, S, LAMBDA it :
           [it EXCEPT !.state = "ACTIVE", !.cancelRequested = FALSE, !.globallyPaused = FALSE,
                      !.job = "running", !.token = ~it.delegate])
    BY <1>1 DEF StartItems
  <2>3. DOMAIN items' = DOMAIN items BY <2>2 DEF Each
  <2>4. ASSUME NEW j \in S PROVE items'[j].job = "running"
    <3>1. j \in DOMAIN items BY <1>1
    <3>2. items'[j] = [items[j] EXCEPT !.state = "ACTIVE", !.cancelRequested = FALSE,
                         !.globallyPaused = FALSE, !.job = "running",
                         !.token = ~items[j].delegate]
      BY <2>2, <3>1 DEF Each
    <3>3. items[j] \in Item BY <2>1, <3>1
    <3> QED BY <3>2, <3>3 DEF Item
  <2>5. \A j \in DOMAIN items \ S : items'[j] = items[j] BY <2>2 DEF Each
  <2> QED BY <1>1, <2>3, <2>4, <2>5 DEF Running
<1>4. Running \cap S = {} BY <1>1 DEF Running, Startable
<1>5. /\ IsFiniteSet(Running) /\ Cardinality(Running) \in Nat
      /\ IsFiniteSet(ForcedNow) /\ IsFiniteSet(EligibleNow \ F)
  <2>1. ForcedNow \subseteq DOMAIN items /\ EligibleNow \ F \subseteq DOMAIN items
    BY DEF ForcedNow, EligibleNow
  <2> QED BY <2>1, RunningFinite, FS_Subset, FS_CardinalityType
<1>6. maxActive \in Int BY DEF Core, GlobalOK
<1>7. FreeSlots \in Nat /\ (FreeSlots > 0 => FreeSlots = maxActive - Cardinality(Running))
  BY <1>5, <1>6 DEF FreeSlots
<1>8. IsFiniteSet(F) /\ Cardinality(F) \in Nat /\ Cardinality(F) <= FreeSlots
  BY <1>2, <1>5, <1>7, BestBounded
<1>9. /\ IsFiniteSet(S \ F) /\ Cardinality(S \ F) \in Nat
      /\ Cardinality(S \ F) <= FreeSlots - Cardinality(F)
  <2>1. FreeSlots - Cardinality(F) \in Nat BY <1>7, <1>8
  <2> QED BY <1>2, <1>5, <2>1, BestBounded
<1>10. IsFiniteSet(S) /\ Cardinality(S) = Cardinality(F) + Cardinality(S \ F)
  <2> DEFINE G == S \ F
  <2>1. S = F \cup G /\ F \cap G = {} OBVIOUS
  <2>2. IsFiniteSet(G) /\ Cardinality(G) \in Nat BY <1>9
  <2> HIDE DEF G
  <2>3. Cardinality(F \cap G) = 0 BY <2>1, FS_EmptySet
  <2>4. IsFiniteSet(F \cup G)
        /\ Cardinality(F \cup G) = Cardinality(F) + Cardinality(G) - Cardinality(F \cap G)
    BY <1>8, <2>2, FS_Union
  <2>5. IsFiniteSet(S) /\ Cardinality(S) = Cardinality(F) + Cardinality(G)
    BY <1>8, <2>1, <2>2, <2>3, <2>4
  <2> QED BY <2>5 DEF G
<1>11. Cardinality(S) > 0 /\ Cardinality(S) \in Nat
  BY <1>1, <1>10, FS_EmptySet, FS_CardinalityType
<1>12. Cardinality(Running \cup S) = Cardinality(Running) + Cardinality(S)
  <2>1. Cardinality(Running \cap S) = 0 BY <1>4, FS_EmptySet
  <2>2. Cardinality(Running \cup S)
        = Cardinality(Running) + Cardinality(S) - Cardinality(Running \cap S)
    BY <1>5, <1>10, FS_Union
  <2> QED BY <1>5, <1>11, <2>1, <2>2
<1> QED BY <1>3, <1>5, <1>6, <1>7, <1>8, <1>9, <1>10, <1>11, <1>12

\* tick starts forced and eligible links within maxActive, and nothing else
\* starts a worker.
THEOREM CapKept == Spec => CapRespected
<1> DEFINE Step == LET busy == {i \in DOMAIN items' : items'[i].job # "none"} IN
                     ~(busy \subseteq Running) => Cardinality(busy) <= maxActive
<1>1. IInv /\ [Next]_vars => Step
  <2> SUFFICES ASSUME Core, [Next]_vars PROVE Step
    BY DEF IInv
  <2>1. {i \in DOMAIN items' : items'[i].job # "none"} = Running' BY DEF Running
  <2>2. CASE Tick BY <2>1, <2>2, TickWithinCap
  <2>3. CASE NoneNew BY <2>3 DEF NoneNew, Running
  <2>4. Tick \/ NoneNew
    BY LinkgrabberStartsNone, LinkVerbsStartNone, OthersStartNone, WorkersStartNone
    DEF Next, System
  <2> QED BY <2>2, <2>3, <2>4
<1>2. IInv /\ [Next]_vars => [Step]_vars BY <1>1
<1> QED BY Inductive, <1>2, PTL DEF Spec, CapRespected
===========================================================================
