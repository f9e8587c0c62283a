# dlm for Android: a verification development

TLA+ models of the download manager in `src/`, the TLC configurations that
check them, and TLAPS proofs about the download queue and what feeds it, the
engine, the yt-dlp runtime, the service, the export, the sign-in, and the text and
names that cross the JNI bridge. Line numbers
refer to the repository at the commit the models were written from; `QueueScheduler.kt`,
`download.c` and so on are unique file names in it.

Contents: 1 the system, 2 which module models what, 3 the modules in detail,
4 the runs, 5 what is proved, 6 where the code and its documents disagree,
7 what is not modelled, 8 the plan.

## 1. The system

dlm is a Kotlin app (`app/`) over a JNI layer and a C library (`core/`, libdlm).
A user adds links; they are sorted into packages in the *linkgrabber*, confirmed
into the *download list*, fetched by libdlm's segmented engine or by yt-dlp, and
moved to a folder the user chose.

| component | source | state | operations |
|---|---|---|---|
| download queue | `scheduler/QueueScheduler.kt`, `QueueState.kt` | links and packages in memory, `maxActive`, `globalAutostart`, `nextPos` | add, grab, confirm, remove, clear, pause, resume, force, move, priorities, enable, autostart, pause/resume/stop all, tick, worker, finalize, load |
| queue store | `libdlm/store.c`, `jni/jni_store.c`, `QueueStore.kt` | tables `downloads` and `packages`, their columns | open, migrate, insert, update of single columns, delete, scan |
| cancel cells | `jni/jni_engine.c`, `NativeEngine.kt` | one native `int` for each running engine worker | allocate, set, free |
| segmented engine | `libdlm/download.c` | part file, journal, output file; segments, counters, flags of one call | plan, resume, write, retry, fall back to one stream, save the journal, rename |
| yt-dlp runtime | `ytdlp/YtdlpManager.kt`, `YtdlpUpdateWorker.kt` | unpack state, three mutexes, the reader/writer gate, running processes | unpack, update (three ways), resolve, download, kill |
| foreground service | `service/DownloadService.kt` | tick loop, idle count, wake and Wi-Fi locks, `exported` | create, start command, tick, stop, export collector |
| export | `repo/SafMover.kt`, `QueueRepository.kt` | documents in the chosen tree | check, replace, create, copy, verify, delete the original |
| start-up | `repo/AppContainer.kt` | `loaded`, the scheduler's lists | ensureLoaded, ensureService |
| link intake | `repo/QueueRepository.kt`, `libdlm/extract.c` | the banner of hosts being resolved | Add, Download now, routing of a link to a resolver, fallback to a plain file |
| activity list | `repo/StatusCenter.kt` | at most 50 entries | begin, progress, finish, clearFinished |
| extractors | `libdlm/extract.c`, `extractors/*` | none | parse a page or a JSON reply |
| archive.org login | `libdlm/iaauth.c`, `httpget.c`, `jni/jni_auth.c`, `ui/screens/ArchiveOrgLoginScreen.kt` | a credentials file and its temporary file, the state of the screen | save keys, save cookie, password login, sign out, load |
| text of the bridge | `jni/jni_common.h` | none | `jstr_dup`, `jstr_new` |
| names of files | `util.c`, `extractors/ytdlp.c`, `extractors/archiveorg.c` | none | name from a URL, a title, a file of an item; link of such a file |
| utilities | `verify.c`, `util.c` | none | checksums, formatting of sizes |
| user interface | `ui/*` | view state | renders the snapshot, calls the verbs |

How they interact. The UI calls `QueueRepository`, which calls a verb of the
scheduler and then `ensureService`. The service's loop on the main thread calls
`tick()` every 200 ms; `tick` starts a worker coroutine for each link it admits.
Verbs and `tick` run one after the other (one `Mutex` on one dispatcher);
workers run outside that mutex, in native code or in the yt-dlp process, see a
stop only through a flag (yt-dlp) or a native cell (engine), and come back
through `finalizeWorker`, which takes the mutex again. Every verb writes the
columns it changed to sqlite and publishes a snapshot; the service's export
collector and the UI follow the snapshots.

What is hard, and for each component what makes it correct:

- **Queue.** Verbs meet workers at every moment of their life, including the
  moment between the return of the native call and `finalizeWorker`; a removal
  waits for its worker; a global pause meets manual pauses and Start now; the
  process may die at any time with links ACTIVE in the store. Correct: a link is
  ACTIVE exactly while it owns a worker; a stop is neither lost nor stale; native
  cells are freed once; a removal is final; the cap holds; the store mirrors the
  memory; nothing of the linkgrabber runs.
- **Queue store.** A verb issues its statements one by one, without a
  transaction, and the process may die between any two; an older file is migrated
  column by column; the scan may stop in the middle or lose a row for want of
  memory, after the packages were appended to the lists; verbs and ticks wait for
  no load, and a failed one is tried again over the same lists. Correct: the
  statements add up to the verb, on whatever the process has loaded; no part file
  outlives its row; a link of the linkgrabber keeps a package that Review shows; a
  load that is through leaves no row out.
- **Text and names.** UTF-16 with lone surrogates and NULs, C strings of any
  bytes, the modified UTF-8 the VM insists on; names made of escapes, separators
  and overlong forms, decoded again at every crossing. Correct: no buffer is too
  short, the VM gets nothing that aborts it, a path stays the same path, a name
  stays one component, the link of a file asks for that file.
- **Engine.** Replies, buffers, completions and errors of several connections in
  any order; servers that ignore ranges or send too much; retries; cancel;
  a death of the process between any two steps, with a journal on disk. Correct:
  the output path holds the whole file or what it held before; what is counted
  is on disk and right; a journal never claims more than the disk holds.
- **yt-dlp runtime.** Readers and an updater that rewrites the runtime, a gate
  polled every 50 ms, cancellation of a coroutine at any suspension point.
  Correct: no update under a user; the gate always opens; a cancel ends the
  process.
- **Service.** Start commands race with the idle stop; the process may start in
  the background, where a service may not be started. Correct: work has a loop or
  a start command on its way; an idle service stops; no lock is left held.
- **Link intake.** An Add and a Download now are coroutines of a view model that
  can be cleared at any suspension point; they share the banner, the activity
  list and the runtime, and end in verbs of the queue while the user works in
  Review. Correct: banner and list show what is going on and nothing else; a page
  is taken for a plain file only after yt-dlp ran; Download now starts its own
  files and nobody else's.
- **archive.org login.** A native call outlives the screen that made it, so two
  saves may use one temporary file; saves fail or are cut off at any step; status
  is read in one step and shown in a later one. Correct: a save replaces the
  credentials in one step or not at all; the screen says what will be used.
- **Export.** Copy, verify, delete in separate steps, beside another export of
  the same file, with failures and deaths between them. Correct: a finished
  download is always somewhere; no half document stays; a file is marked as
  exported only when it is.

## 2. Modules

| module | models | checked by |
|---|---|---|
| `QueueScheduler` | queue, store tables, cancel cells, part files on disk | `MCQueueScheduler` and `MCQueue*.cfg` |
| `QueueSchedulerProofs` | theorems about `QueueScheduler` | tlapm |
| `QueueStore` | `store.c`, `jni_store.c`: the statements of each verb of `QueueScheduler`, migration, scan | `MCQueueStore` |
| `LinkIntake` | `crawl`, `addDirect`, `resolveTasks`, `directFallback`, `dlm_extract`'s routing, `StatusCenter`, over `QueueScheduler` | `MCLinkIntake` |
| `AroundQueueProofs` | theorems about `LinkIntake` and about `QueueStore` | tlapm |
| `Credentials` | `iaauth.c` and the sign-in screen | `MCCredentials.cfg` |
| `CredentialsProofs` | theorems about `Credentials` | tlapm |
| `JniText` | `jstr_dup` and `jstr_new` of `jni_common.h`, unit by unit and byte by byte | `MCFileNames` |
| `FileNames` | the names made by `util.c`, `ytdlp.c`, `archiveorg.c`, over `JniText` | `MCFileNames` |
| `FileNamesProofs` | theorems about `JniText` and `FileNames` | tlapm |
| `SegmentedDownload` | `download.c`, over as many calls as the caller makes | `MCSeg*.cfg` |
| `FileDelivery` | what `dlm_download_file` promises; `SegmentedDownload` implements it | `Promise` in `MCSegTransfer.cfg` |
| `SegmentedDownloadProofs` | theorems about `SegmentedDownload`, the refinement among them | tlapm |
| `YtdlpRuntime` | `YtdlpManager.kt` | `MCYtdlp.cfg` |
| `YtdlpRuntimeProofs` | theorems about `YtdlpRuntime` | tlapm |
| `ServiceLife` | `AppContainer.ensureLoaded`, `ensureService`, the loop and locks of `DownloadService` | `MCService.cfg` |
| `ServiceLifeProofs` | theorems about `ServiceLife` | tlapm |
| `Export` | the export collector, `moveToTree`, `exportToTree`, `SafMover.export` | `MCExport*.cfg` |
| `ExportProofs` | theorems about `Export` | tlapm |

`LinkIntake` extends `QueueScheduler`: its steps take the queue's own actions,
and it implements the queue's specification (section 5). `QueueStore` extends it
too: the queue's actions run above a file that is a few statements behind, on
lists that need not hold all of it, and the load of a process that left its queue
alone is a `Restart` of the queue (`LoadWhole`). `FileNames`
extends `JniText`: a name is a text that crosses the bridge. The other modules
are joined by what each assumes of its neighbour: `QueueScheduler` takes a worker as
an outcome (ok, cancelled, failed), which `SegmentedDownload` and
`YtdlpRuntime` produce; `SegmentedDownload` takes the caller as calls, cancels and
deletions of the part file, which is what `QueueScheduler` does to it;
`ServiceLife` takes the scheduler as waiting, active, off and over links.

Some modules hold pairs of small operators such as `SegFull` and `FullAnyway`.
The second of a pair is a plausible bug: put in place of the first, it must break the property named beside it in
`PROJECT.json`, which is how each property is known to watch the code.

## 3. The modules in detail

### QueueScheduler

`items` and `pkgs` are the in-memory lists, `rows` and `pkgRows` the tables,
`cells` the native cancel cells, `partial` the part files, `nextId`, `nextPkg`,
`nextPos` the counters, `maxActive` and `globalAutostart` the settings that
`SettingsStore` keeps across restarts. A link's `job` is `none`, `running`, or
the outcome of a worker that has returned and waits for the mutex; `token` says
that it holds a native cell; `cancelRequested`, `removeRequested` and
`globallyPaused` are the flags of `QItem`.

Every verb runs under one mutex, so every verb is one action, with everything it
does: the flags, the cell it trips, the rows and columns it writes, the part
file it deletes. `Tick` starts the forced links and then the eligible ones, by
(priority, position), within the free slots counted once. `WorkerWrites`,
`WorkerReturns` and `FinalizeWorker` are the life of a worker; `FinalizeWorker`
is `finalizeWorker` with its five outcomes. `Restart` is the death of the process
followed by `load()`: memory comes back from the rows, ACTIVE becomes QUEUED,
cells are gone, part files stay.

Abstractions: names, URLs, sizes and error texts are data (`err` says whether a
text is attached); `pauseRequested` and the `force` column are written and never
read; ties of (priority, position) may be broken either way; updates of sqlite
succeed while inserts may fail, which is what the code checks; links have
distinct output paths; a verb is not interrupted by the death of the process
(`QueueStore` takes that back); `setMaxSpeed` and progress are left out.

Bounds: `MaxLinks` and `MaxPackages` (ids ever handed out), `MaxGrab` (links in
one grab), `PosBound` (positions), and the sets of arguments `Priorities`,
`MaxActives`, `Delegates`, `Toggles`, `MoveDirs`. The verbs act on one link, on
the links of one package, or on all, so two links show every interference of a
verb with a neighbour and with a slot that is taken; that the cap holds for any
number of links is proved. Two packages show their reordering. `MCPriorities`
goes beyond the clamp. Each run frees some of these arguments and fixes the
others, since their product is out of reach; the configurations say which.

### QueueStore

`disk` is the file: both tables, the columns `downloads` has, and the part files.
A verb is the verb of `QueueScheduler`, which says what memory and tables are to
be, together with the statements it issues (`todo`), in the order of the code;
`Statement` carries out the next one, and the verb holds the mutex until none is
left. Workers run meanwhile. `Dies` may come anywhere and loses what is in `todo`.

The next process opens the file (`Open`, with an ALTER for each column an older
schema may lack, which may fail unseen), scans the packages and appends them to
`pkgs` (`PackagesLoaded`), scans the links and ends with the rest of `load()`
(`Loads`). A scan may end early or lose a row for want of memory: `LoadFails`. What
the first scan had appended stays, and `phase` is `open` again: the next trigger
loads once more, over the same lists, and does not repeat the ALTERs. Verbs,
ticks and workers need the mutex and nothing else: they run before the first load,
between two, and after it, on what the lists hold by then; the load itself holds the
mutex, so none runs inside it. `early` says that a verb or tick came before the load
was through, `twice` that a load appended an entry the lists had already. After
`Loads` a process loads no more.

`LoadWhole` is about every step that ends a load: the lists then mirror the tables,
nothing of the file is left out; and where the process neither used its queue before
nor lists anything twice, the step is `Restart`, what `QueueScheduler` says of
`load()`. `cut` remembers the packages whose confirm a death cut short, and those a
process moved or removed without having loaded their links, which `ReviewSurvives`
excepts (section 6). `After` is what is on disk once a list of statements is through.
`StoreTypeOK` is a conjunct of `WrittenOut`.

Abstractions: progress and the force column, which `load()` clears, are left out;
where a verb goes through a list, the order of the list is open, since it differs
before and after a restart; the removal of a part file is a statement like the
others. The code looks at the result of no update and no delete, so a failing one
is the same as a death before it for that row, and is not modelled apart: a link
whose delete failed is back in the next process. Of a process whose lists hold an
entry twice (`twice`) only the workers and the end are followed, since a list is a
function here: what its verbs and ticks do with two entries of one id is section 7.

Bounds: two links and one package, the least for a list of two statements that a
death cuts in the middle; two of the ten columns of the migration, so that an
upgrade can be cut between two; `OldLinks` 1, a row of an older file; `MaxVerbs`
3 verbs of callers, as many as it takes to grab a package, change it and, in
another process that has read only the packages, confirm or remove it; with any
number of ticks, workers, deaths and failed loads.

### LinkIntake

A call of `crawl` (Add) or `addDirect` (Download now) is a coroutine on the main
thread; its `pc` is the suspension point it waits at: `native` (dlm_extract),
`init` (the mutex of `ensureInit`), `unpack`, `exec` (yt-dlp -J), `store`,
`confirm`, `service`. An action is the code from one such point to the next.
`banner` is `_resolving`, `status` the activity list, `runtime` the state of the
yt-dlp runtime, `gone` the calls whose view model was cleared: `Close` cancels
them and each unwinds at its next suspension, with its `finally` block
(`UnwindsResolve`). `Death` ends them all and restarts the queue. The storing
steps are the queue's `Add`, `Grab`, `AddFails` and `Confirm...`, and `Reviews` is
the user who confirms and removes meanwhile. `PreparedElsewhere` stands for every
other caller of `ensureInit`.

When unpacking fails, the exception, `directFallback` with its read of the state,
and the `finally` block are one stretch of the main thread (`UnpackFails`):
`FallbackOnlyAfterRun` rests on nobody else unpacking within it.

Bounds: one Add and one Download now, the least for which one call's banner,
entry and package meet another's; an item of archive.org, a file and a page, the
last two on one host; lists of at most two files (`Multi` splits at one);
`MaxStatus` 2 in place of 50, so that the list overflows; three links in two
packages. The proofs are for any of these, calls being finite in number and the
entry of the setup no URL (`IntakeAssumption`).

### JniText and FileNames

`text` is a sequence of UTF-16 units while Java holds it and of bytes while
native code does (`at`). `Dup`, `DupUnit`, `DupEnds` are `jstr_dup`: one turn of
its loop reads one unit, or a pair, and writes one code point; `New`, `NewByte`,
`NewEnds` are `jstr_new`. `DupFails` and `NewFails` are the allocations that may
fail. `NewStringUTF` is the VM's decoder, external, defined on what it accepts
(`ModifiedUtf8`, a property it is only given when `VmTakesIt` holds). A text goes
to and fro for as long as it likes, and `returned` collects the strings Java was
given for it. Null strings and pending exceptions, which both functions hand on,
do not occur.

`FileNames` makes the texts: `FilenameFromUrl`, `SanitizeFilename` and
`BasenameOf` are the three functions that name files, `PercentDecode` and
`UrlEncodePath` the two that names and links go through. A file of an item becomes
a name, or a link that the user adds again (`LinkFromItem`, `FileAsked`).
`NameConfined` is about the text at every place it rests at, after every
conversion, not about the moment it was made.

Where the code stops short of what one could want, the model follows it: names
have no directory, so two files of one item with the same leaf get one name
(`archiveorg.c:254`); `dlm_filename_from_url` keeps `:` and control characters,
although its comment (188-191) says that it mirrors the extractors; a link longer
than the buffer of 2048 bytes (`archiveorg.c:250`) is out of the model's inputs.

Bounds: inputs of up to three pieces, because a decision of this code looks at
three neighbours at most (an escape, a separator before a dot, a lead byte and its
continuations); the pieces are the bytes and units it tells apart. The four
invariants are proved without the bound (section 5).

### SegmentedDownload and FileDelivery

One output path with its part file and journal; `part` and `final` map offsets to
right, wrong, hole or past the end. `Start` is `dlm_download_file` up to the
first transfer: probe (`Probed`, what it makes of the replies to HEAD and to a
one-byte range), journal load and validation
(`Fits`), plan (`Plan`), opening and sizing the part file. `Respond`,
`ReceiveUnit`, `ReceiveExtra`, `ReceiveIgnored`, `ReceiveCancelled`,
`ReceiveFails` are `seg_write_cb` in its branches, `Over` the completion of a
transfer with its retry, `MultiFails` an error of `curl_multi_perform` (545-550) and a
segment that gets no handle (531, 595), `LoopEnds`, `FallBack`, `Finish`, `FinishFails`,
`UnlinkJournal` and `GiveUp` what follows. `SaveJournal` is the periodic save.
`DeletePart` and `DeleteJournal` are the caller's `deletePartialFiles`, two
steps. `Crash` may come wherever `CrashPoints` lists the stage.

`FileDelivery` is the promise in `dlm.h:57-60` and `download.c:14-15`: the file is
whole or as it was, and success is reported only with the file in place. The
mapping in `SegmentedDownload` reads the output path as absent, whole or broken.

Bounds: three units over two connections, so that the pieces have different
length; one retry, so that a first and a last attempt occur; `Slack` units past
the end; `ErrorBody` units of an error reply; `CrashPoints`, the stages where the
process may die. The death and the error body that break the promise are left to
section 6, so that `seg_transfer` shows what holds otherwise.

### YtdlpRuntime

One coroutine per caller, of four kinds, and the background update. Each `pc`
value is a place between two suspension points; `initMutex` and `updateMutex` are
their holders, `rwGate` is the atomicity of the actions that hold it. `Abandon`
is the cancellation of a coroutine at any suspension point with the `finally`
blocks the code runs. The watcher polls the flag and calls
`destroyProcessById` once.

Bounds: one resolve, one download, one Set up now, one weekly worker and the
background update: one of each kind, so that every path meets every other. A
second caller of a kind only lengthens the queue at a mutex.

### ServiceLife

The process (`up`, `front`, `loaded`), the queue as far as `hasWork` looks at it,
the service with its `loop` stage between two suspension points, start commands
given and not delivered, the verb that has changed the queue and has still to
call `ensureService` (`owed`), and the locks. Android is modelled from how the
code uses it: it creates a service for a command, delivers commands in turn,
refuses a start from the background, and honours `stopSelf(id)` only when no
later command was given. `Silent` are the links that `setEnabled` and
`setAutostart` are used on, the two verbs that start no service; `swallowed`
remembers that the start after the load was refused, which `ensureLoaded`
ignores. The properties about work except exactly these two (section 6).

Bounds: two links over one slot, two idle ticks, two undelivered commands (a
third is the same as the second for every guard).

### Export

One step for each statement of `SafMover.export` that touches a file, with the
failure of each. Three exporters: the automatic move, Save to folder, and a move
whose coroutine was cancelled by the end of its service while the blocking copy
runs on (`cutoff`). `Collect` takes the newest snapshot, as a collector of a
conflated flow does. `Copies` are the name asked for and the one `createFile`
invents when the name is taken. A document remembers who created it, the `dead`
being exports that the end of the process interrupted; `met` remembers the links
that two exports worked on at once, which `NothingLost` excepts, because there it
does not hold (section 6, `export_race`). `Publish` is any other change of the
queue: a new snapshot is what a failed move is tried again on, and `MovedInTheEnd`
says that it is.

Bounds: one link. Exports of two links share no file and no document, only their
turn in a pass; two exports of one link are where the interference is.

### Credentials

A job is a coroutine of the sign-in screen: a password login, a save of keys or
of a cookie, a sign-out, or the look at the status when the screen opens. Its
`pc` is a suspension point or, inside `save_root`, the system call it makes next.
`credentials` and `tmp` are the two directory entries, `content` says how much of
each file is written: a rename moves the entry, not the writer, which is how one
saver can publish another's empty file. `Leave` is leaving or rotating the screen:
its state is lost and its coroutines are cancelled, but a native call goes on and
ends unseen. A password login is an answer of archive.org (a session, or anything
else) followed by the save.

`met` remembers the savers that were in `save_root` beside another, which
`SavesAtomic` excepts (section 6);
`overlapped` that two jobs ran at once, after which the status shown may be the
older of two readings.

Bounds: one job of each kind, two visits: a job that outlives a screen needs the
second, and the third saver comes after two that met. The theorems are for any
number of both.

## 4. The runs

Runs that pass:

| run | shows |
|---|---|
| `queue_flags` | one link and two packages under every flag, setting, a priority beyond the clamp and both orders of the packages: the store mirrors the memory |
| `queue_links` | an engine and a yt-dlp link for one slot: every per-link and global verb against running, returned and finalized workers and restarts: ownership of workers, cells and part files, cancels, removals, Pause all, the cap; and, with ticks and stopped workers that return, no eligible link waits for ever beside a free slot |
| `queue_store` | two links, loose or in a package, statement by statement, with a death between any two: the statements add up to the verbs, staging, confirming, moving, removing and clearing included; no part file is left without a row; Review shows what is staged; a load that is through leaves nothing of the file out, however many failed before it and whatever was done meanwhile |
| `names` | every URL, title, file of an item and text of up to three pieces, named and sent to and fro: buffers suffice and the VM gets what it takes; a text from native code stays one string; a name stays one component of a path; the link of a file finds that file |
| `seg_transfer` | the file, the counters and the journal agree, segments never overlap, a cancelled call writes nothing, the call implements `FileDelivery`, and it returns however the server misbehaves, because retries and the one fall-back are used up |
| `ytdlp_gate` | update and use exclude each other and nothing runs before it is unpacked; the gate counts what uses it; a reader does not wait at the gate for ever, and a cancel seen while yt-dlp runs ends it |
| `service_life` | work has a loop or a start command on its way, however the idle stop races; no lock outlives the loop that releases it; work is started or withdrawn; an idle service stops |
| `export_move` | with failures at each step and deaths between any two, a finished download is always somewhere, only files that left are marked exported, no export that ended left a partial document, and a move that failed is made in the end |
| `link_intake` | an Add and a Download now of an item, a file or a page, with the user in Review, the list cleared, the view model closed, the process dying: banner and activity list show what is going on, a page becomes a file only after yt-dlp ran, Download now downloads its own files and nobody else's; no entry spins for ever |
| `auth_save` | a login, two saves and a sign-out over two visits of the screen, with failures at every step and deaths: a save that meets no other is atomic, and a quiet screen says what the next request will use |

The violation runs are section 6. Deadlock is checked in all of them.
The type invariant of a module is checked in its passing runs, as the first
conjunct of `WrittenOut`, `SegmentsTile`, `GateHonest`, `NoLitter`,
`WorkHasService`, `SpinnerHonest` and `StatusHonest`; that of `QueueScheduler` is
part of `WrittenOut`. Each is proved too.

Fairness, where a run is about liveness:

- `QueueScheduler`: the service's loop ticks (`WF(Tick)`); a worker that can see
  its stop returns; a returned worker gets the mutex (`WF(FinalizeWorker)`). The
  engine polls its cell and gives up a silent connection, so the second holds for
  it; for yt-dlp it holds when its process is killed and is otherwise an assumption that the download ends by
  itself (section 6, `CancelEndsDownload`). Nothing is assumed of a worker nobody stops.
- `SegmentedDownload`: curl ends every transfer (finite bodies, the low-speed
  limit), the loop goes on. Neither saves of the journal nor cancels are assumed.
- `YtdlpRuntime`: a coroutine that can run does (`OwnStep`); a Kotlin mutex serves
  its waiters in turn and a 50 ms poll meets a gate that opens again and again
  (strong fairness of `Turn`); the watcher fires; unpacking and updating end.
  yt-dlp itself may run for ever unless it is killed.
- `LinkIntake`: a call that can go on does: libcurl has timeouts and unpacking
  ends. That `yt-dlp -J` ends is an assumption; the code sets it no limit.
- `Export`: the collector and a running export go on; a create or a copy that is
  tried again and again succeeds once (strong fairness of `Create` and of a whole
  `Copy`), which is an assumption about the folder: the comment calls these failures
  transient. `MovedInTheEnd` further supposes that the service lives on, that the
  queue keeps publishing, which the code does while anything downloads and not
  otherwise (section 6), and that saving by hand ends.
- `ServiceLife`: the main thread runs and Android delivers what it owes; users,
  transfers and crashes are free.

## 5. What is proved

`QueueSchedulerProofs` proves, for every number of links and packages, every
bound and every set of arguments (assumption `BoundsAssumption` only):

`TypeCorrect`, `WorkerOwnership`, `CellOwnership`, `CancelDelivered`,
`RemovalIsFinal`, `LinkgrabberNeverRuns`, `StagedHavePackage`, `MemoryMirrored`,
`GlobalPauseReaches`, `PartFilesOwned`: each invariant of `queue_flags` and
`queue_links`, and three that need no run of their own, the types, that nothing
staged runs and that a staged link has its package, as `Spec => []P`; and `CapKept`:
`Spec => CapRespected`, an action property.

The argument. None of the invariants is inductive alone: that a removal stands
needs that the link has a worker, which needs that ACTIVE means a worker, which
needs that a restart and a finalize leave none behind. `IInv` (theorem
`Inductive`) is their joint strengthening. Its first conjunct, `Core`, is
`GlobalOK` for the tables and counters, and for each link `Typed`, `Worked`
(worker, cell and flags agree), `Shelved` (the linkgrabber and part files) and
`Mirrored` (row and memory). The others say that the process has every row of both
tables (`AllLoaded`) and that each staged link has its staged package
(`AllShown({})`). They are apart because a process that has loaded half of the queue
keeps `Core` and not the second, and a death in the middle of a confirm breaks the
third: `QueueStore` lives with `Core`, where a table may hold rows the lists lack, and
with `AllShown(cut)`. Two
facts are there only for the induction: a link in state DONE, or whose worker
returned ok, has no part file, and a cell is allocated only for a link of the
queue. `Mirrored` allows a row to say QUEUED under an ACTIVE or DONE link: ACTIVE
is never needed in the row for recovery, and DONE is the first difference of the
second table of section 6. One lemma per verb shows that the verb keeps `IInv`. Most links
are not touched by a verb: lemma `Kept` says that such a link stays in order when
the surroundings change mildly (`Around`), so a verb's proof is about the links it
writes. `Relabelled`, `FieldsOnly`, `MirrorSettled`, `Stopped` and `Dropped` do
the same for the patterns that verbs share.

`CapKept` needs counting: the running links are a finite set (from
`GlobalOK`), `BestBounded` bounds what a choice of best links adds to the free
slots, `TickWithinCap` adds them up with the cardinality theorems of
`FiniteSetTheorems`, and the other actions start no worker (`...StartNone`).

`AroundQueueProofs` proves of `LinkIntake`, for any number of calls, URLs and
entries (assumptions `BoundsAssumption` and `IntakeAssumption`):

- `IntakeUsesQueue`: `IntakeSpec => Spec`. Every step of the composition is a step
  of the queue or leaves it alone, so all theorems above hold of it. `Death` is
  the queue's `Restart`, `Reviews` its verbs; the storing steps need that a call
  stores between 1 and `MaxGrab` files, which is why the argument carries an
  invariant, `IntakeInv == IInv /\ Carried`: `Carried` types the calls and says that
  one waiting at `store` has files.
- `IntakeKeepsReview`: the store mirrors the memory and each staged link has its
  staged package, wherever calls are cut off.
- `FallbackGated`: `[]FallbackOnlyAfterRun`. `Carried` types the calls and
  says that the property holds of each, which every step of a call keeps.
- `NotParked`: `[]DownloadNowNotParked`. `OwnInv` adds to `IntakeInv`, for each call,
  that the package it will confirm has been handed out, and that past the
  confirmation no staged link is in it. The other calls and the user keep that
  because of an action fact of the queue, `StagedBefore`: package numbers only grow,
  and a staged link is in a new package or was staged in the same one before.
- `OthersStayInReview`: `IntakeSpec => ReviewKept`, an action property. By
  elimination a step that ends a call's confirmation is its own `ConfirmsOwn`, and
  `OwnInv` gives it the package it was made for, or none that still has staged links.
- `SpinnerIsHonest`: `[]SpinnerHonest`. `SpinInv` says that every entry of the list
  that spins has its call, that the list keeps its bound, and that the banner counts
  each host as often as a call resolves it. The counts are cardinalities, moved by
  the theorems on finite sets; the calls are finite in number
  (`IntakeAssumption`). `Only`, which leaves the entries of one key out of the list,
  is a recursive function, and what it keeps is shown by the least position at which
  it would fail.

It proves of `QueueStore`, for any number of links and packages, any list of
columns to migrate and any number of verbs, wherever a process dies and however a
scan ends (assumptions `BoundsAssumption` and `StoreAssumption`):

- `StoreInductive`, `[]StoreInv`, from which the rest follows;
- `VerbsWrittenOut`, `[]WrittenOut`, the type invariant included;
- `NoPartForgotten`, `[]PartsListed`;
- `ReviewOutlives`, `[]ReviewSurvives`;
- `OnlyWholeLoads`, `StoreSpec => LoadWhole`: a load that is through leaves the lists a
  mirror of the tables, after any number of failed ones and whatever was done meanwhile;
- `QueueAboveStore`: six invariants of the queue alone (`QueueSafe`) hold above the
  file in every process, also in one that begins with what a death left half-written
  or runs on half of the queue; two more, `StoreMirrors` and `NoOrphanPartial`, once a
  load is through. The ninth, `StagedPackageShown`, does not hold, which is the
  row on `QueueScheduler.kt:182-195` in section 6.

The argument. `StoreInv` says of the file, at any time, that it is typed and each
part file has its row (`DiskOK`), that no number was handed out beyond the counters
(`CountersOK`), and that a staged row has its package (`Reviewed`). Of the queue,
loaded, half loaded or not at all, it says (`QueueInv`) that what is in the lists is
in order (`Core`, `AllShown(cut)`), that the rows the process has not loaded are rows
a later load can take (`AsideOK`) under a package Review shows (`AsideShown(cut)`),
and relates disk, `todo` and the tables:

- `Brought`: the statements of `todo`, one after the other, bring the disk to the
  tables. `WrittenOut` says this through `After`, which is recursive; the invariant
  says it by its effect on each row and column (`Brings`, with `Writes` for "a
  statement still to come writes this column"), so that one statement carried out
  is a step from `Brings` at 0 to `Brings` at 1. Lemma `BringsAfter` ties both, by
  the least number of statements at which they would differ.
- `Fitting`: what is still to come keeps the order that makes a death harmless. A
  part file is removed before its row; a package is inserted before its links,
  leaves the linkgrabber only where each of its staged links is still to leave it, and
  is deleted only after its staged links; links that were not loaded put it in `cut`.
- `SamePackage` and `AtWork`: a link has the same package on disk and in the table; a
  link at work is on disk, in the download list, and not as one that is done.

Of the load it says that the rows seen and unseen of a scan make up the table unless
one was lost (`ScanOK`), that the packages are all in the list when the scan of links
begins, that a process which is up lacks nothing (`AllLoaded`), and that one which left
its queue alone has no links yet and its next position right behind the packages it has
read (`LoadOK`, with `Fresh`): that is what makes `Loads` a `Restart`. That a verb
leaves aside what it has not loaded is an action fact of `QueueScheduler`
(`LinksAside`, `PkgsAside`), proved verb by verb in `QueueSchedulerProofs`.
So the proof has one lemma for a statement (`One statement`),
and for each verb one that says that what it issues is a plan: a list of statements
that brings the old tables to the new ones and fits. The plans are put together from
the blocks of a verb, for one link or one package, by `FlattenSeq` and `SetToSeqs`; the
lemmas on these say at which place of the whole list each statement of a block is.

`FileNamesProofs` proves, for every text, every name and any number of crossings
(assumptions `TextAssumption`: units below 65536, bytes, no NUL in what native code
starts with; `NamesAssumption`: URLs, titles and names of items are such bytes):

- `TextTaken` and `NamesTaken`, `[]VmTakesIt` under `TextSpec` and `NamesSpec`. The
  argument is a bound for each turn of a loop: `ScalarTyped` and `ValueTyped` say
  what is read, `Utf8Typed` and `ModifiedTyped` what is written for it: three bytes
  at most for one unit or for a sequence that claims at most three bytes, four for a
  pair, six for a sequence of four. `BridgeInv` therefore carries
  `Len(out) <= 3 * i`, which the properties about whole buffers lack, and
  `ModifiedUtf8(out)`, kept because well-formed pieces put together are well formed
  (`ConcatTaken`).
- `NamesConfined`, `[]NameConfined`: not only when it is made (`NamesMade`) but
  after every crossing, a name is one component of a path. A character written is one
  that was read (`DupWrites`, `NewWrites`), so neither loop brings in a NUL or a
  separator, or another first character; overlong forms and lone
  surrogates are where this could fail. `NameInv` therefore speaks of a text
  half-way across as well.
- `LinksLead`, `[]LinkFindsFile`: `PercentDecode` undoes `UrlEncodePath`
  (`RoundTrip`). Both choose the positions of a text that stay; `PickedConcat` says
  that such a choice can be made piece by piece where no escape reaches over the
  seam (`Closed`), so that the encoding of one more byte can be
  added at the end (`EncodedText`).
- `StringsStay`, `[]CrossesUnchanged`: native code gives Java one string for a text.
  A text that has crossed to Java once is `Clean`: no NUL, each half of a pair beside
  the other. From then on `CrossInv` keeps a pairing of the positions in
  the bytes with those in the string (`Tracks`): the bytes between two pairs spell
  the units between them.

`CredentialsProofs` proves, for any number of jobs and visits (assumption
`JobsAssumption`):

- `SavesAreAtomic`, `Spec => SavesAtomic`. Its `IInv` says that the file of
  a saver exists nowhere before it creates it, and that one nobody met finds it,
  whole, under the temporary name when it renames. `Apart` carries the exception:
  of two savers in `save_root` at once both are in `met`.
- `StatusIsHonest`, `[]StatusHonest`. `Watched` says more than the property: while a
  visit goes on in which no two jobs overlapped, either nothing is under way and the
  screen is right, or the one job under way belongs to this visit and will show what
  is loaded.

`SegmentedDownloadProofs` proves, for every file size, number of connections and
of retries, and whatever the server sends (assumption `SizeAssumption`):

- `TilingKept`, `[]SegmentsTile`. `EngineInv` says that the segments of a
  call, and those a journal brings back, are one open stream or pieces that tile the
  file, and that `downloaded` is the sum of what they count. That pieces which tile
  also cover is carried along, since it cannot be derived without induction
  over the pieces. The sum is a fold; that it changes by what one segment gains is
  shown through the choice of a least subset on which it would not
  (`LeastSubset`).
- Under `Tame`, which is `ErrorBody = 0 /\ CrashPoints \subseteq {"multi", "returned"}`:
  `ProgressKept` (`[]ProgressHonest`), `JournalStaysHonest` (`[]JournalHonest`),
  `FinalStaysWhole` (`[]FinalWhole`) and `PromiseKept` (`Spec => Promise`, the
  refinement of `FileDelivery`: each step of the engine maps to a step of the promise
  or to a stutter). `HonestInv` says what the server still owes to a transfer
  (`Owed`), that what is counted is on disk and right (`Counted`) and that a complete
  segment is full. `Tame` is not a convenience: without its first half
  `seg_error_body` violates the promise, without its second the row on
  `download.c:729` in section 6 does, and the code prevents neither. It is
  what `seg_transfer` runs with.

`YtdlpRuntimeProofs` proves, for any number of callers (assumption
`CallersAssumption`),
`GateIsHonest` (`[]GateHonest`) and `UpdatesAreAlone` (`[]UpdateExcludesUse`), from
`GateInv`: flag and count of the gate are what they stand for, each mutex is
held by the coroutine that says so, and past `ensureInit` the runtime is ready.

`ServiceLifeProofs` proves, for any number of links and of start commands
(assumption `ServiceAssumption`),
`WorkIsServed` (`[]WorkHasService`) and `LocksAreOwned` (`[]LocksOwned`).
`WorkHasService` is not inductive: a loop that has decided to stop but has not
called `stopSelf` still counts for it. `LifeInv` counts only a loop that may yet see
the work; that `stopSelf` with an old id does not stop is what carries the step.

`ExportProofs` proves, for any links and copies (assumption `ExportAssumption`), `NeverLostAlone`
(`[]NothingLost`) and `DraftsHaveOwners` (`[]NoLitter`). `ExportInv` adds that two
exports of one link are in `met` (`Sole`), that an export past its check has its
original, and before it deletes the original, the whole document (`Held`), that
nothing unfinished is known to the collector (`Ahead`), and that a draft is where
its export stands (`Tidy`).

Only model-checked: the liveness properties `WorkConserving`, `DownloadReturns`,
`ReadersServed`, `CancelEndsRunning`, `MovedInTheEnd`, `WorkIsDriven`, `IdleStops` and
`SpinnerStops`, since neither fairness nor ENABLED can be handled by this prover. What
a recursive function or a fold computes needs induction over data; the library's
induction theorems take an operator, which the prover cannot instantiate. Where a
proof here needs one, it takes a least counterexample instead (`LeastNat`,
`LeastSubset`), which only needs a set.

## 6. Where the code and its documents disagree

Two disagreements are kept as runs, each with a property that states what a
document or comment says and that TLC violates.

| run | what happens |
|---|---|
| `seg_error_body` | the body of a 4xx or 5xx reply is written into the segment and counted; the retry resumes after it and the file is delivered with it (276) |
| `export_race` | Save to folder deletes the document the move has just verified, after the original is gone (`SafMover.kt:47`) |

The models show more differences, which the passing properties except or allow.
To see one, add the property to a configuration of its module.

| where | what happens | what fails |
|---|---|---|
| `QueueScheduler.kt:379` | Start now on a package writes `queued` into the row of a finished link; the next process downloads it again | invariant `items[i].state = "DONE" => rows[i].state = "DONE"` |
| `QueueScheduler.kt:249` | removing a package from the linkgrabber deletes it under a link that was confirmed alone | invariant `items[i].pkg = 0 \/ items[i].pkg \in DOMAIN pkgs` |
| `QueueScheduler.kt:484` | Pause all tags a worker that is already stopping for a manual pause; Resume all restarts it, against the comment at 466-467 | with a history variable of manual pauses: `ResumeAll` leaves those links alone |
| `QueueScheduler.kt:438` | after BOTTOM and an add two links share a position; UP passes both | action property: UP changes the order of one pair |
| `QueueState.kt:42-44` | the tag of a global pause is not stored, the setting is: after a restart Resume all leaves the links it parked | `ResumeAll` leaves nothing that `PauseAll` paused |
| `download.c:416` | a download in one piece is never resumed (`UserGuide.md:108`): its journal has an open end and is refused | `Start` after a death in one piece keeps what was counted |
| `QueueRepository.kt:86-87` | when the package of a Download now cannot be stored, `confirm(-1)` confirms and starts everything in Review | `ReviewKept` without `calls[c].id = -1` |
| `QueueRepository.kt:85` | a view model cleared, or a death, between grab and confirm leaves the files of Download now in Review (comment 83-85) | `DownloadNowNotParked` for calls that were `dropped` |
| `QueueRepository.kt:163` | the headers a resolver returns are dropped, here and at `QueueScheduler.kt:614-618`, against `archiveorg.c:10-11`, `ytdlp.c:7-8` and `UserGuide.md:89-90` | headers are data and not modelled |
| `StatusCenter.kt:59-60` | two calls for one URL share an entry, which the first to end marks as finished; the oldest entry is dropped even while it is RUNNING | invariant: a call that resolves has a RUNNING entry (the converse of `SpinnerHonest`) |
| `QueueScheduler.kt:160` | when every link of a grab fails to be stored, an empty package is reported as added | invariant: a staged package has a link |
| `download.c:729` | death between the rename of the part file and the unlink of its journal: the journal still says that all is there, and the next call renames a file of holes over the finished one, against 14-15 and 394-396; a death between the two deletions of the caller's cleanup leaves the same journal over no part file | `FinalWhole` in `MCSegErrorBody.cfg` with `ErrorBody = 0` and `CrashPoints = {"renamed"}`, or `{"cleaning"}` |
| `YtdlpManager.kt:256` | a cancel before the process is registered is used up, and yt-dlp runs on, against `Resolvers.md:60-61` | temporal property `CancelEndsDownload` in `MCYtdlp.cfg` |
| `QueueScheduler.kt:220-228` | Confirm without start writes the list, the state and the autostart flag in three statements; a death after the first leaves a link in the download list with the autostart it had, and it may start unasked | in `MCQueueStore.cfg`, invariant: a row in the download list has autostart FALSE unless a verb set it |
| `QueueScheduler.kt:182-195`, `LinkgrabberScreen.kt:82-83` | Confirm of a package, or of all, moves the package first; after a death the links it had not reached are staged under a package of the download list, and Review, grouped by package, does not show them until everything is confirmed | `ReviewSurvives` without `cut` |
| `QueueScheduler.kt:410` | a swap of two links is two statements; a death between them leaves two links at one position | in `MCQueueStore.cfg`, invariant: positions in `disk.downloads` differ where those of `rows` do |
| `QueueScheduler.kt:271`, `299` | the pause or removal of a running link is only in memory until its worker stops; after a death the link is back, and queued | in `MCQueueStore.cfg`, action property: a link with `removeRequested` is not loaded again |
| `iaauth.c:123` | a login outlives its screen and meets the save of the next: both unlink and create `credentials.tmp`, and the rename of one, which reports success, publishes the other's unwritten file, against "atomically" in `iaauth.h:37` | action property `[][Atomic(Savers)]_vars` in `MCCredentials.cfg` |
| `ArchiveOrgLoginScreen.kt:165` | Sign out does not wait for a login that is on its way; its answer signs in again | invariant: after a sign-out that began last, no login that began before it is loaded |
| `iaauth.c:199` | a header is cut at 1023 bytes, a cookie from a login at 2047: a longer one is sent damaged | headers are data and not modelled |
| `DownloadService.kt:142` | a failed move is retried only when the queue publishes again | `MovedInTheEnd` without `[]<>fresh` |
| `DownloadService.kt:86` | the idle stop cuts off a copy that is running; it ends, the next service copies again, and the file is kept twice | invariant: one whole document per link |
| `QueueRepository.kt:189` | enabling a link, or its autostart, does not start the service | `WorkHasService` without `Silent` |
| `AppContainer.kt:95` | a queue loaded by a background start is not resumed when the app is opened | `WorkHasService` without `swallowed` |
| `AppContainer.kt:101` | a failed load that is retried appends the packages to the list that has them, and so does a load after a verb that came first: the process lists packages, or links, twice | in `MCQueueStore.cfg`, invariant `~twice`; in `MCService.cfg`, `TypeOK` with `listed[l] <= 1` |
| `QueueScheduler.kt:77-88` | a load whose links failed, as after a cut upgrade, leaves the packages it had read, and nothing waits for a load: the process runs on half of the queue, against `jni_store.c:222-226`, and Clear in Review then deletes packages over links it never read, which no Review shows any more | in `MCQueueStore.cfg`: invariant `~(early /\ DOMAIN pkgs # {} /\ items = Empty)`; `ReviewSurvives` with `cut` without `LeftBehind` |

## 7. What is not modelled, and why

- Output paths shared by two links: paths are data. The hazards list names where
  sharing would bite; `FileNames` shows how two files of one item get one name.
- A file that changes on the server while keeping its size, and replies without
  a length: the code compares nothing a property could be about.
- Within `LinkIntake`: titles, details and progress of an activity; what the
  resolvers find on a page.
- Extractors: the parsing of pages and JSON. Checksums, and the formatting of
  sizes and durations: functions over bytes and strings whose whole behaviour a
  unit test reaches.
- A process that lists a package or a link twice (section 6, `AppContainer.kt:101`), beyond
  its workers and its end: a verb then finds the first entry, and a tick sees both.
  `QueueStore` says how a process comes to that.
- Of the export: a second Save to folder by hand beside the first.
- sqlite itself: `sqlite/sqlite3.h`, which is three quarters of the C and header
  lines under `core/`, declares a library whose statements are taken to be
  carried out one by one; so are libcurl, OpenSSL and jansson, as far as they occur.
- The user interface, except the sign-in screen: it renders snapshots and calls verbs that are modelled.
- Settings: one file written whole by a library; what the queue keeps of it is in
  `QueueScheduler`.

## 8. Plan

Done, in this order, most important first: the queue and its proofs; the engine
and its promise; the yt-dlp runtime; the export; the service; the intake of links
and its proofs; the sign-in; the store statement by statement; the text of the
bridge and the names of files; the retry of the export; then the proofs about
the names, the engine with its refinement, the runtime, the service, the export, the
status of the sign-in and the rest of the intake; last the store, whose proof needed
a lemma about one statement lifted to a list of them.

To do, extending the models:

1. A composition of `QueueScheduler` and `SegmentedDownload` for two links that
   share an output path.
2. The queue with a memory of manual pauses, for the second table's row on Resume
   all.
