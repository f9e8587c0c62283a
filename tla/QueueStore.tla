---------------------------- MODULE QueueStore ----------------------------
(* The queue of QueueScheduler above its sqlite file (libdlm/store.c through  *)
(* jni_store.c): each verb is the sequence of statements it issues, in the    *)
(* order of the code, and the process may die between any two of them.        *)
(*                                                                            *)
(* QueueScheduler's rows, pkgRows and partial say what the tables and the     *)
(* part files are once every statement is through; disk is what they are.     *)
(* The verb that issued the statements holds the mutex until they are (todo), *)
(* so no other verb runs meanwhile; workers do.                               *)
(*                                                                            *)
(* The next process opens the file, migrates it and scans both tables into    *)
(* Java objects: the packages are appended to the lists once their scan is    *)
(* through, the links once theirs is.  A load that fails in between leaves    *)
(* what it had appended; a later trigger loads once more, over the same lists *)
(* (AppContainer.kt:101).  Nothing waits for a load: verbs and ticks run      *)
(* before the first one, and between two, on what the lists hold.             *)
(*                                                                            *)
(* Abstractions, beside those of QueueScheduler:                              *)
(*  - progress and the force column, which load() clears, are left out;       *)
(*  - the order of the in-memory lists, by insertion or by position after a   *)
(*    load, is left open, and so is the order of statements that follows it;  *)
(*  - updates and deletes succeed (nobody looks at their result); a failed    *)
(*    insert is QueueScheduler's AddFails or a gap of its Grab;               *)
(*  - a list is a function: of an entry that a load appends beside one that   *)
(*    is there only the first is kept, and of a process that has one twice    *)
(*    (twice) no more than its workers and its end are followed.              *)
EXTENDS QueueScheduler, Sequences
Seqs == INSTANCE SequencesExt

CONSTANTS
  Migrations,  \* columns an older schema lacks, in the order they are added
  OldLinks,    \* bound: links in a database of an older schema
  MaxVerbs     \* bound: verbs a caller uses

ASSUME StoreAssumption ==
  Migrations \in Seq(STRING) /\ OldLinks \in 0 .. MaxLinks /\ MaxVerbs \in Nat

VARIABLES
  disk,   \* the tables, the columns of downloads and the part files as they are
  todo,   \* statements the current verb, or the opening, has still to issue
  phase,  \* life of the process: closed, open, the two scans of a load, up
  scan,   \* the scan of a table: rows not seen, Java objects held, one was lost
  twice,  \* a load of this process appended an entry its lists had
  early,  \* history: this process used its queue before a load was through
  cut,    \* history: packages that left the linkgrabber ahead of links of theirs
  verbs   \* verbs used so far

storeVars == <<disk, todo, phase, scan, twice, early, cut, verbs>>
queueAndStore == <<vars, storeVars>>

Phases == {"closed", "open", "packages", "downloads", "up"}
Up == phase = "up"
NoScan == [unread |-> {}, refs |-> {}, lost |-> FALSE]
Empty == [x \in {} |-> x]

---------------------------------------------------------------------------
(* Statements *)

Insert(table, x, row) == [table |-> table, op |-> "insert", id |-> x, cols |-> row]
Update(table, x, cols) == [table |-> table, op |-> "update", id |-> x, cols |-> cols]
Delete(table, x) == [table |-> table, op |-> "delete", id |-> x]
PkgInsert(p, row) == Insert("packages", p, row)
Alter(column) == [table |-> "columns", op |-> "insert", id |-> column]

\* The row, with the columns of an update.
Overlay(cols, row) == [c \in DOMAIN row |-> IF c \in DOMAIN cols THEN cols[c] ELSE row[c]]

\* One statement on one table; an update or a delete of no row does nothing.
Changed(f, s) ==
  CASE s.op = "insert" -> [x \in DOMAIN f \cup {s.id} |-> IF x = s.id THEN s.cols ELSE f[x]]
    [] s.op = "update" ->
         IF s.id \in DOMAIN f THEN [f EXCEPT ![s.id] = Overlay(s.cols, @)] ELSE f
    [] s.op = "delete" -> Without(f, {s.id})

Apply(d, s) ==
  CASE s.table = "downloads" -> [d EXCEPT !.downloads = Changed(@, s)]
    [] s.table = "packages" -> [d EXCEPT !.packages = Changed(@, s)]
    [] s.table = "parts" -> [d EXCEPT !.parts = @ \ {s.id}]
    [] s.table = "columns" -> [d EXCEPT !.columns = @ \cup {s.id}]

\* What is on disk once the statements s are through.
After(d, s) ==
  LET run[n \in 0 .. Len(s)] == IF n = 0 THEN d ELSE Apply(run[n - 1], s[n]) IN run[Len(s)]

\* The statements Op(x) for each x of S, in some order of the list S is in.
InListOrder(S, Op(_)) ==
  {Seqs!FlattenSeq([n \in DOMAIN order |-> Op(order[n])]) : order \in Seqs!SetToSeqs(S)}

State(i, st, err) == Update("downloads", i, [state |-> st, err |-> err])
Requeued(i) == <<State(i, "QUEUED", FALSE)>>
Listed(table, x) == Update(table, x, [list |-> "download"])
Position(table, x, v) == Update(table, x, [pos |-> v])
Priority(table, x, v) == Update(table, x, [prio |-> Clamp(v)])

Confirmed(i, start) ==
  <<Listed("downloads", i), State(i, "QUEUED", FALSE),
    Update("downloads", i, [autostart |-> start])>>

\* cleanupPartialFiles, then the row.
RowThenPart(i) == <<Delete("downloads", i), Delete("parts", i)>>
PartThenRow(i) == <<Delete("parts", i), Delete("downloads", i)>>

\* dropIfEmpty on the package of i, once the links R are gone.
Drop(i, R) == IF Emptied({items[i].pkg}, R) = {} THEN <<>>
              ELSE <<Delete("packages", items[i].pkg)>>

\* clearFinished and clearFailed: each link with its package, one after the other.
Cleared(R, stmts) ==
  {Seqs!FlattenSeq([n \in DOMAIN order |->
     stmts[order[n]] \o Drop(order[n], {order[m] : m \in 1 .. n})]) : order \in Seqs!SetToSeqs(R)}

\* A swap writes the moved one first, then its neighbour.
MovedOnly(table, x, old, new) ==
  IF new[x].pos = old[x].pos THEN <<>> ELSE <<Position(table, x, new[x].pos)>>
Moved(table, x, old, new) ==
  LET others == {y \in DOMAIN new \ {x} : new[y].pos # old[y].pos} IN
  MovedOnly(table, x, old, new)
    \o (IF others = {} THEN <<>>
        ELSE LET n == CHOOSE y \in others : TRUE IN <<Position(table, n, new[n].pos)>>)

---------------------------------------------------------------------------
(* Verbs: a verb of QueueScheduler and the statements it issues *)

\* No verb holds the mutex.  (Of a process that has an entry twice no further
\* verb is followed.)
MutexFree == phase \in {"open", "up"} /\ todo = <<>> /\ ~twice

\* Packages this verb takes out of the linkgrabber while a link of theirs is
\* there that this process did not load.
LeftBehind ==
  {p \in StagedPackages :
     /\ p \in DOMAIN pkgs' => pkgs'[p].list = "download"
     /\ \E i \in DOMAIN rows \ DOMAIN items : rows[i].pkg = p /\ rows[i].list = "linkgrabber"}

\* The verb holds the mutex until its statements are through.
Issues(stmts) ==
  /\ MutexFree
  /\ todo' = stmts
  /\ early' = (early \/ ~Up)
  /\ cut' = cut \cup LeftBehind
  /\ UNCHANGED <<disk, phase, scan, twice>>

Adds ==
  \/ AddFails /\ Issues(<<>>)
  \/ \E d \in Delegates : Add(d) /\ Issues(<<Insert("downloads", nextId, rows'[nextId])>>)
  \/ \E k \in 1 .. MaxGrab :
       /\ Grab(k)
       /\ Issues(<<PkgInsert(nextPkg, pkgRows'[nextPkg])>>
                   \o [n \in 1 .. (nextId' - nextId) |->
                         Insert("downloads", nextId + n - 1, rows'[nextId + n - 1])])

Confirms(start) ==
  LET ConfirmedAs(i) == Confirmed(i, start)
      Follow(p) == <<Listed("packages", p)>> IN
  \/ /\ ConfirmAll(start)
     /\ \E first \in InListOrder(StagedPackages, Follow),
           then \in InListOrder(Staged, ConfirmedAs) :
          Issues(first \o then)
  \/ \E p \in DOMAIN pkgs :
       /\ ConfirmPackage(p, start)
       /\ \E then \in InListOrder(Members(p) \cap Staged, ConfirmedAs) : Issues(Follow(p) \o then)
  \/ \E i \in DOMAIN items :
       /\ ConfirmLink(i, start)
       /\ \E last \in InListOrder(Following(i), Follow) : Issues(Confirmed(i, start) \o last)

LgLinkRows(i) == <<Delete("downloads", i)>>
PackageFirst(p) ==
  {<<Delete("packages", p)>> \o then : then \in InListOrder(Members(p) \cap Staged, LgLinkRows)}
LgPackageStmts(p) ==
  {then \o <<Delete("packages", p)>> : then \in InListOrder(Members(p) \cap Staged, LgLinkRows)}

LgRemoves ==
  \/ /\ LgRemoveAll
     /\ \E first \in InListOrder(Staged, LgLinkRows),
           then \in InListOrder(StagedPackages, LAMBDA p : <<Delete("packages", p)>>) :
          Issues(first \o then)
  \/ \E p \in DOMAIN pkgs :
       LgRemovePackage(p) /\ \E stmts \in LgPackageStmts(p) : Issues(stmts)
  \/ \E i \in DOMAIN items :
       LgRemoveLink(i) /\ Issues(LgLinkRows(i) \o Drop(i, {i}))

Removes ==
  \/ \E i \in DOMAIN items :
       Remove(i) /\ Issues(IF i \in Running THEN <<>> ELSE PartThenRow(i) \o Drop(i, {i}))
  \/ \E p \in DOMAIN pkgs :
       /\ PkgRemove(p)
       /\ \E first \in InListOrder(Members(p) \ Running, PartThenRow) :
            Issues(first \o (IF p \in DOMAIN pkgs' THEN <<>> ELSE <<Delete("packages", p)>>))
  \/ /\ ClearFinished
     /\ \E then \in Cleared(IdleIn("DONE"), [i \in Links |-> LgLinkRows(i)]) : Issues(then)
  \/ /\ ClearFailed
     /\ \E then \in Cleared(IdleIn("ERROR"), [i \in Links |-> PartThenRow(i)]) : Issues(then)

\* The verbs that write one column, or one row, of each link they reach.
Sets ==
  \/ \E i \in DOMAIN items :
       \/ Pause(i) /\ Issues(IF items[i].state = "QUEUED" THEN <<State(i, "PAUSED", FALSE)>>
                             ELSE <<>>)
       \/ Resume(i) /\ Issues(Requeued(i))
       \/ \E v \in Priorities : SetPriority(i, v) /\ Issues(<<Priority("downloads", i, v)>>)
  \/ \E p \in DOMAIN pkgs, v \in Priorities :
       \/ PkgUpdate(p, v) /\ Issues(<<Priority("packages", p, v)>>)
       \/ /\ SetPackagePriority(p, v)
          /\ \E then \in InListOrder(Members(p), LAMBDA i : <<Priority("downloads", i, v)>>) :
               Issues(<<Priority("packages", p, v)>> \o then)
  \/ \E S \in Scopes, on \in Toggles :
       \/ /\ SetEnabled(S, on)
          /\ \E stmts \in InListOrder(S, LAMBDA i : <<Update("downloads", i, [enabled |-> on])>>) :
               Issues(stmts)
       \/ /\ SetAutostart(S, on)
          /\ \E stmts \in InListOrder(S, LAMBDA i : <<Update("downloads", i, [autostart |-> on])>>) :
               Issues(stmts)
  \/ \E S \in Scopes :
       /\ ForceStart(S)
       /\ \E stmts \in InListOrder(S \ Staged, LAMBDA i :
                         <<Update("downloads", i, [enabled |-> TRUE])>> \o Requeued(i)) :
            Issues(stmts)

Reorders ==
  \E dir \in MoveDirs :
    \/ \E i \in DOMAIN items :
         MoveLink(i, dir) /\ Issues(Moved("downloads", i, items, items'))
    \/ \E p \in DOMAIN pkgs :
         MovePkg(p, dir) /\ Issues(Moved("packages", p, pkgs, pkgs'))

Globals ==
  \/ \E v \in MaxActives : SetMaxActive(v) /\ Issues(<<>>)
  \/ /\ ResumeAll
     /\ \E stmts \in InListOrder({i \in DOMAIN items : items'[i].state # items[i].state}, Requeued) :
          Issues(stmts)
  \/ PauseAll /\ Issues(<<>>)
  \/ StopAll /\ Issues(<<>>)

\* tick, and finalizeWorker once the worker has the mutex.
Schedules ==
  \/ /\ Tick
     /\ \E stmts \in InListOrder({i \in DOMAIN items : items'[i].job # items[i].job},
                                 LAMBDA i : <<State(i, "ACTIVE", FALSE)>>) :
          Issues(stmts)
  \/ \E i \in DOMAIN items :
       /\ FinalizeWorker(i)
       /\ Issues(IF items[i].removeRequested THEN PartThenRow(i) \o Drop(i, {i})
                 ELSE <<State(i, items'[i].state, items'[i].err)>>)

\* A worker does not hold the mutex; what it does to its part file is done.
Works ==
  /\ \E i \in DOMAIN items : WorkerWrites(i) \/ \E rc \in Outcomes : WorkerReturns(i, rc)
  /\ disk' = [disk EXCEPT !.parts = (@ \cup (partial' \ partial)) \ (partial \ partial')]
  /\ UNCHANGED <<todo, phase, scan, twice, early, cut, verbs>>

---------------------------------------------------------------------------
(* The store *)

\* The next statement.  An ALTER may fail, and nobody looks.
Statement ==
  /\ todo # <<>>
  /\ todo' = Tail(todo)
  /\ \/ disk' = Apply(disk, Head(todo))
     \/ Head(todo).table = "columns" /\ disk' = disk
  /\ UNCHANGED <<vars, phase, scan, twice, early, cut, verbs>>

\* Packages that a confirm in progress has moved before their links.
Confirming ==
  {items[todo[n].id].pkg : n \in {n \in DOMAIN todo :
     /\ todo[n].table = "downloads" /\ todo[n].op = "update"
     /\ todo[n].id \in DOMAIN items /\ "list" \in DOMAIN todo[n].cols}}

\* The process ends; the statements not yet issued are lost.
Dies ==
  /\ phase # "closed"
  /\ phase' = "closed" /\ todo' = <<>> /\ scan' = NoScan
  /\ cut' = cut \cup {p \in Confirming \cap DOMAIN disk.packages :
                       disk.packages[p].list = "download"}
  /\ rows' = disk.downloads /\ pkgRows' = disk.packages /\ partial' = disk.parts
  /\ items' = Empty /\ pkgs' = Empty
  /\ cells' = [i \in Links |-> "free"]
  /\ nextPos' = 1
  /\ twice' = FALSE /\ early' = FALSE
  /\ UNCHANGED <<nextId, nextPkg, settings, disk, verbs>>

\* dlm_store_open: the schema, then one ALTER for each column of Migrations.
\* Those of columns that are there end in an error that is ignored.
Open ==
  /\ phase = "closed"
  /\ phase' = "open"
  /\ todo' = [n \in DOMAIN Migrations |-> Alter(Migrations[n])]
  /\ UNCHANGED <<vars, disk, scan, twice, early, cut, verbs>>

Scanning == phase \in {"packages", "downloads"}

\* nLoadPackages, then nLoadAll.
Scan(next, ids) ==
  /\ phase' = next
  /\ scan' = [NoScan EXCEPT !.unread = ids]
  /\ UNCHANGED <<disk, todo, early, cut, verbs>>

LoadPackages ==
  /\ phase = "open" /\ todo = <<>>
  /\ Scan("packages", DOMAIN disk.packages)
  /\ UNCHANGED <<vars, twice>>

\* The scan failed: its objects are released and an exception ends the load.
\* What an earlier scan appended stays, and the next trigger loads again.
LoadFails ==
  /\ Scanning
  /\ phase' = "open"
  /\ scan' = NoScan
  /\ UNCHANGED <<vars, disk, todo, twice, early, cut, verbs>>

\* A SELECT that names a missing column does not compile.
Compiles == phase = "downloads" => Seqs!ToSet(Migrations) \subseteq disk.columns

\* The next row of the table, by position, becomes an object, or is lost for
\* want of memory; after a loss the rest is only counted.
Read(table) ==
  /\ \E x \in scan.unread :
       /\ \A y \in scan.unread :
            \/ table[x].pos < table[y].pos
            \/ table[x].pos = table[y].pos /\ x <= y
       /\ \/ /\ ~scan.lost
             /\ scan' = [scan EXCEPT !.unread = @ \ {x}, !.refs = @ \cup {x}]
          \/ scan' = [scan EXCEPT !.unread = @ \ {x}, !.lost = TRUE]
  /\ UNCHANGED <<vars, disk, todo, phase, twice, early, cut, verbs>>

\* pkg_cb, row_cb
ReadPackage == phase = "packages" /\ Read(disk.packages)
ReadRow == phase = "downloads" /\ Compiles /\ Read(disk.downloads)

\* A loss, or a scan that did not reach the last row, is not a table.
EndReached == Compiles /\ scan.unread = {}
Whole == EndReached /\ ~scan.lost

\* The list f with the rows scanned at its end.
Appended(f, table) ==
  [x \in DOMAIN f \cup scan.refs |-> IF x \in DOMAIN f THEN f[x] ELSE table[x]]

\* nextPos, moved beyond the rows scanned (there is one such value).
Beyond(table) ==
  LET placed == {table[x].pos : x \in scan.refs} IN
  {n \in nextPos .. (PosBound + 1) :
     /\ \A q \in placed : q < n
     /\ n = nextPos \/ n - 1 \in placed}

PackagesLoaded ==
  /\ phase = "packages" /\ Whole
  /\ Scan("downloads", DOMAIN disk.downloads)
  /\ pkgs' = Appended(pkgs, pkgRows)
  /\ nextPos' \in Beyond(pkgRows)
  /\ twice' = (twice \/ DOMAIN pkgs \cap scan.refs # {})
  /\ UNCHANGED <<items, rows, pkgRows, nextId, nextPkg, settings, machine>>

\* The rest of load(): links, the next position, waiting links written once more
\* (a link that is in the list twice is written twice, which is the same).
Loads ==
  LET requeued == {i \in scan.refs : Loaded(rows[i]).state = "QUEUED"
                                     /\ rows[i].list = "download"} IN
  /\ phase = "downloads" /\ Whole
  /\ phase' = "up" /\ scan' = NoScan
  /\ items' = Appended(items, [i \in scan.refs |-> Loaded(rows[i])])
  /\ rows' = RowsInState(requeued, "QUEUED")
  /\ nextPos' \in Beyond(rows)
  /\ twice' = (twice \/ DOMAIN items \cap scan.refs # {})
  /\ todo' \in InListOrder(requeued, Requeued)
  /\ UNCHANGED <<pkgs, pkgRows, nextId, nextPkg, settings, machine, disk, early, cut, verbs>>

---------------------------------------------------------------------------
\* A row of an older schema, its missing columns at their defaults.
OldRow == NewRow("download", 0, 0, FALSE)

StoreInit ==
  \E old \in 0 .. OldLinks :
    /\ rows = [i \in 1 .. old |-> OldRow]
    /\ disk = [downloads |-> rows, packages |-> Empty, parts |-> {},
               columns |-> IF old = 0 THEN Seqs!ToSet(Migrations) ELSE {}]
    /\ nextId = old + 1 /\ nextPkg = 1 /\ nextPos = 1
    /\ items = Empty /\ pkgs = Empty /\ pkgRows = Empty
    /\ maxActive \in {v \in MaxActives : v >= 1} /\ globalAutostart \in BOOLEAN
    /\ cells = [i \in Links |-> "free"] /\ partial = {}
    /\ todo = <<>> /\ phase = "closed" /\ scan = NoScan
    /\ twice = FALSE /\ early = FALSE /\ cut = {} /\ verbs = 0

\* A verb begins when no other holds the mutex, whatever the lists hold by then.
Callers ==
  /\ MutexFree /\ verbs < MaxVerbs
  /\ verbs' = verbs + 1
  /\ \/ Adds \/ LgRemoves \/ Removes \/ Sets \/ Reorders \/ Globals
     \/ \E start \in BOOLEAN : Confirms(start)

Opens == Open \/ LoadPackages \/ ReadPackage \/ ReadRow \/ LoadFails \/ PackagesLoaded \/ Loads

StoreNext ==
  \/ Callers
  \/ MutexFree /\ Schedules /\ UNCHANGED verbs
  \/ Works \/ Statement \/ Opens \/ Dies

StoreSpec == StoreInit /\ [][StoreNext]_queueAndStore

---------------------------------------------------------------------------
(* Properties *)

StoreTypeOK ==
  /\ TypeOK
  /\ phase \in Phases
  /\ scan.refs \subseteq 1 .. (MaxLinks + MaxPackages) /\ scan.lost \in BOOLEAN
  /\ twice \in BOOLEAN /\ early \in BOOLEAN /\ cut \subseteq PkgRefs

\* The statements a verb issues, on whatever part of the queue its process has
\* loaded and in whatever order the lists are in, add up to what
\* QueueScheduler's verb says of the tables and the part files.
WrittenOut ==
  LET written == After(disk, todo) IN
  /\ StoreTypeOK
  /\ phase # "closed" => /\ written.downloads = rows
                         /\ written.packages = pkgRows
                         /\ written.parts = partial

\* Wherever a death cuts a verb short, a part file on disk belongs to a link
\* the next process will list: none is left that nobody would ever remove.
PartsListed == disk.parts \subseteq DOMAIN disk.downloads

\* Wherever a death cuts a verb short, the package of a link of the linkgrabber
\* is stored, and as one of the linkgrabber, so that Review shows the link;
\* except under a package whose confirm was cut, whose list is moved first, and
\* one that a process confirmed or removed without having loaded the link.
ReviewSurvives ==
  \A i \in DOMAIN disk.downloads :
    LET p == disk.downloads[i].pkg IN
    disk.downloads[i].list = "linkgrabber" =>
      \/ p \in cut
      \/ p \in DOMAIN disk.packages
         /\ (disk.packages[p].list = "linkgrabber" \/ p \in Confirming)

\* A load that is through leaves nothing of the file out: the lists mirror the
\* tables, so a scan that was aborted or lost a row is never taken for the
\* complete queue (jni_store.c:222-226), after however many failed loads and
\* whatever was done between them.  In a process that left its queue alone until
\* then, and has no entry twice, it is what QueueScheduler says of load().
LoadWhole == [][~Up /\ Up' => StoreMirrors' /\ (early \/ twice' \/ Restart)]_queueAndStore
===========================================================================
