---------------------------- MODULE LinkIntake ----------------------------
(* How a link enters the queue: QueueRepository.crawl ("Add") and addDirect  *)
(* ("Download now"), the resolvers they ask, the activity they show, and the *)
(* verbs of QueueScheduler they end in, composed with that module.           *)
(*                                                                           *)
(* A call is one coroutine of QueueViewModel, on the main thread between its *)
(* suspension points; each value of pc is such a point.                      *)
(*                                                                           *)
(* Abstractions:                                                             *)
(*  - a reply (of the metadata API, of yt-dlp -J) is the number of files it  *)
(*    lists; whether yt-dlp is to fetch them is chosen when they are stored; *)
(*  - the input the guard refuses leaves no trace and is left out;           *)
(*  - titles, details and progress of an activity are wording.               *)
EXTENDS QueueScheduler, Sequences

CONSTANTS
  Crawlers,     \* calls of QueueRepository.crawl
  Directs,      \* calls of QueueRepository.addDirect
  ArchiveUrls,  \* items of archive.org
  FileUrls,     \* URLs that end in a known file extension
  PageUrls,     \* everything else
  HttpUrls,     \* those whose scheme is http or https
  HostOf,       \* the host of each URL
  MaxStatus     \* StatusCenter.MAX

Urls == ArchiveUrls \cup FileUrls \cup PageUrls
Calls == Crawlers \cup Directs
Hosts == {HostOf[u] : u \in Urls}
SetupKey == "ytdlp-init"  \* YtdlpManager.ST_INIT

\* The key of a URL's activity is prefixed, so it is never SetupKey.
ASSUME IntakeAssumption ==
  /\ Crawlers \cap Directs = {} /\ IsFiniteSet(Calls)
  /\ Urls # {} /\ SetupKey \notin Urls
  /\ HttpUrls \subseteq Urls /\ HostOf \in [Urls -> Hosts]
  /\ MaxGrab > 0 /\ MaxStatus \in Nat \ {0}

VARIABLES
  calls,    \* the coroutines: call -> Call
  banner,   \* QueueRepository._resolving: how often each host is listed
  status,   \* StatusCenter._items: newest first
  runtime,  \* YtdlpManager._state
  gone      \* calls whose view model was cleared

intakeVars == <<calls, banner, status, runtime, gone>>
allVars == <<vars, intakeVars>>

Resolving == {"native", "init", "unpack", "exec"}
Stored == {"store", "confirm", "service"}
Over == {"ended", "dropped"}

\* id is what grab or add returned, ran tells that yt-dlp was run for the
\* call, raw that directFallback made its task.
Call == [pc : {"idle"} \cup Resolving \cup Stored \cup Over,
         url : Urls, files : 0 .. MaxGrab,
         id : -1 .. (MaxLinks + MaxPackages), ran : BOOLEAN, raw : BOOLEAN]
Activity == [key : Urls \cup {SetupKey}, state : {"RUNNING", "DONE", "FAILED"}]

\* The tick is not part of this composition, so one value of the setting will do.
IntakeInit ==
  /\ Init /\ globalAutostart
  /\ \E u \in Urls :  \* of no meaning before Begin
       calls = [c \in Calls |-> [pc |-> "idle", url |-> u, files |-> 0,
                                 id |-> 0, ran |-> FALSE, raw |-> FALSE]]
  /\ banner = [h \in Hosts |-> 0]
  /\ status = <<>>
  /\ runtime = "NOT_READY"
  /\ gone = {}

---------------------------------------------------------------------------
(* StatusCenter *)

Newest(s) == SubSeq(s, 1, IF Len(s) < MaxStatus THEN Len(s) ELSE MaxStatus)

\* The entries of s that are in S, in their order.
Only(s, S) ==
  LET kept[k \in 0 .. Len(s)] ==
        IF k = 0 THEN <<>>
        ELSE IF s[k] \in S THEN Append(kept[k - 1], s[k]) ELSE kept[k - 1]
  IN  kept[Len(s)]

UpsertBeside(s, k, st) == Newest(<<[key |-> k, state |-> st]>> \o s)
\* begin, progress and finish replace the entry of their key and put it first.
Upsert(s, k, st) ==
  Newest(<<[key |-> k, state |-> st]>> \o Only(s, {a \in Activity : a.key # k}))

ClearActivity ==
  /\ status' = Only(status, {a \in Activity : a.state = "RUNNING"})
  /\ UNCHANGED <<vars, calls, banner, runtime, gone>>

---------------------------------------------------------------------------
(* resolveTasks *)

At(c, p) == calls[c].pc = p /\ c \notin gone
Goto(c, p) == calls' = [calls EXCEPT ![c].pc = p]

Begin(c, u) ==
  /\ At(c, "idle")
  /\ calls' = [calls EXCEPT ![c].pc = "native", ![c].url = u]
  /\ banner' = [banner EXCEPT ![HostOf[u]] = @ + 1]
  /\ status' = Upsert(status, u, "RUNNING")
  /\ UNCHANGED <<vars, runtime, gone>>

\* The finally block, then the caller's tests for a result: n files, none
\* when it failed.  shown is the activity list as the block finds it.
HostsLeft(h) == banner[h] - 1
Finished(c, n, shown) ==
  /\ banner' = [banner EXCEPT ![HostOf[calls[c].url]] = HostsLeft(HostOf[calls[c].url])]
  /\ status' = Upsert(shown, calls[c].url, IF n > 0 THEN "DONE" ELSE "FAILED")
  /\ UNCHANGED <<vars, gone>>

Result(c, n, ran, raw) ==
  calls' = [calls EXCEPT ![c] = [@ EXCEPT
    !.pc = IF n > 0 THEN "store" ELSE "ended",
    !.files = n, !.ran = ran, !.raw = raw]]

\* dlm_extract: the kind of a URL, in the order of its tests.
IsArchive(u) == u \in ArchiveUrls
LooksDirect(u) == u \in FileUrls
Kind(u) == IF IsArchive(u) THEN "item" ELSE IF LooksDirect(u) THEN "file" ELSE "page"

\* An item of archive.org lists its files or fails, a direct file is one task,
\* a page needs yt-dlp.
ArchiveAnswers(c) ==
  /\ Kind(calls[c].url) = "item"
  /\ \E n \in 0 .. MaxGrab : Result(c, n, FALSE, FALSE) /\ Finished(c, n, status)
  /\ UNCHANGED runtime

FileAnswers(c) ==
  /\ Kind(calls[c].url) = "file"
  /\ Result(c, 1, FALSE, FALSE) /\ Finished(c, 1, status)
  /\ UNCHANGED runtime

PageAsksYtdlp(c) ==
  /\ Kind(calls[c].url) = "page"
  /\ Goto(c, "init")
  /\ status' = Upsert(status, calls[c].url, "RUNNING")
  /\ UNCHANGED <<vars, banner, runtime, gone>>

NativeReturns(c) ==
  At(c, "native") /\ (ArchiveAnswers(c) \/ FileAnswers(c) \/ PageAsksYtdlp(c))

\* ensureInit, once the caller has initMutex.
EntersInit(c) ==
  /\ At(c, "init")
  /\ \A o \in Calls : calls[o].pc # "unpack"
  /\ IF runtime = "READY"
     THEN Goto(c, "exec") /\ UNCHANGED <<status, runtime>>
     ELSE /\ Goto(c, "unpack")
          /\ runtime' = "PREPARING"
          /\ status' = Upsert(status, SetupKey, "RUNNING")
  /\ UNCHANGED <<vars, banner, gone>>

\* directFallback after yt-dlp returned nothing, with the state it reads.
FallbackUngated(c, rt) == IF calls[c].url \in HttpUrls THEN 1 ELSE 0
FallbackFiles(c, rt) == IF rt = "READY" /\ calls[c].url \in HttpUrls THEN 1 ELSE 0

\* A coroutine cancelled while it unpacks sees an exception like any other.
Unpacked(c) ==
  /\ At(c, "unpack")
  /\ Goto(c, "exec")
  /\ runtime' = "READY"
  /\ status' = Upsert(status, SetupKey, "DONE")
  /\ UNCHANGED <<vars, banner, gone>>

UnpackFails(c) ==
  /\ calls[c].pc = "unpack"
  /\ runtime' = "FAILED"
  /\ LET n == FallbackFiles(c, "FAILED") IN
       /\ Result(c, n, FALSE, n > 0)
       /\ Finished(c, n, Upsert(status, SetupKey, "FAILED"))

\* Another caller of ensureInit (a worker, Set up now, the weekly check).
PreparedElsewhere ==
  /\ runtime \in {"NOT_READY", "FAILED"}
  /\ runtime' = "READY"
  /\ status' = Upsert(status, SetupKey, "DONE")
  /\ UNCHANGED <<vars, calls, banner, gone>>

\* yt-dlp -J: files, a reply the parser refuses, or nothing.
YtdlpAnswers(c) ==
  /\ At(c, "exec")
  /\ \/ \E n \in 0 .. MaxGrab : Result(c, n, TRUE, FALSE) /\ Finished(c, n, status)
     \/ LET n == FallbackFiles(c, runtime) IN
          Result(c, n, TRUE, n > 0) /\ Finished(c, n, status)
  /\ UNCHANGED runtime

---------------------------------------------------------------------------
(* crawl and addDirect, from the result on *)

Returned(c, p, id) ==
  /\ calls' = [calls EXCEPT ![c].pc = p, ![c].id = id]
  /\ UNCHANGED <<banner, status, runtime, gone>>

Multi(c) == calls[c].files > 1

Stages(c) ==
  /\ At(c, "store") /\ (c \in Crawlers \/ Multi(c))
  /\ \/ Grab(calls[c].files) /\ Returned(c, IF c \in Crawlers THEN "ended" ELSE "confirm", nextPkg)
     \/ AddFails /\ Returned(c, IF c \in Crawlers THEN "ended" ELSE "confirm", -1)

AddsOne(c) ==
  /\ At(c, "store") /\ c \in Directs /\ ~Multi(c)
  /\ \/ \E d \in Delegates : Add(d) /\ Returned(c, "service", nextId)
     \/ AddFails /\ Returned(c, "service", -1)

\* scheduler.confirm(id, isPackage = true, start = true): an id that is not
\* positive confirms the whole linkgrabber.
ConfirmEverything(id) == ConfirmAll(TRUE)
ConfirmAsLink(id) ==
  \/ id <= 0 /\ ConfirmAll(TRUE)
  \/ id > 0 /\ ConfirmLink(id, TRUE)
  \/ id > 0 /\ id \notin Staged /\ UNCHANGED vars
ConfirmGrabbed(id) ==
  \/ id <= 0 /\ ConfirmAll(TRUE)
  \/ id > 0 /\ ConfirmPackage(id, TRUE)
  \/ id > 0 /\ id \notin StagedPackages /\ UNCHANGED vars

ConfirmsOwn(c) ==
  /\ At(c, "confirm")
  /\ ConfirmGrabbed(calls[c].id)
  /\ Goto(c, "service")
  /\ UNCHANGED <<banner, status, runtime, gone>>

EnsuresService(c) ==
  /\ At(c, "service")
  /\ Goto(c, "ended")
  /\ UNCHANGED <<vars, banner, status, runtime, gone>>

---------------------------------------------------------------------------
(* The view model is cleared; its coroutines unwind at their next suspension *)

Close ==
  /\ gone' = gone \cup {c \in Calls : calls[c].pc \notin {"idle"} \cup Over}
  /\ gone' # gone
  /\ UNCHANGED <<vars, calls, banner, status, runtime>>

UnwindsSilently(c) ==
  /\ c \in gone /\ calls[c].pc \in {"native", "init", "exec"}
  /\ Goto(c, "dropped")
  /\ UNCHANGED <<vars, banner, status, runtime, gone>>
\* The finally block of resolveTasks runs; a native call or yt-dlp has first
\* to come back, which is when this step is taken.
UnwindsResolve(c) ==
  /\ c \in gone /\ calls[c].pc \in {"native", "init", "exec"}
  /\ Goto(c, "dropped")
  /\ Finished(c, 0, status)
  /\ UNCHANGED runtime

UnwindsStore(c) ==
  /\ c \in gone /\ calls[c].pc \in Stored
  /\ Goto(c, "dropped")
  /\ UNCHANGED <<vars, banner, status, runtime, gone>>

\* The process dies: what lived in memory is gone, the queue is loaded again.
Death ==
  /\ Restart
  /\ calls' = [c \in Calls |-> IF calls[c].pc = "idle" THEN calls[c]
                               ELSE [calls[c] EXCEPT !.pc = IF @ = "ended" THEN @ ELSE "dropped"]]
  /\ banner' = [h \in Hosts |-> 0]
  /\ status' = <<>>
  /\ runtime' = "NOT_READY"
  /\ UNCHANGED gone

\* The user in Review, meanwhile; start is one of Toggles.
Reviews ==
  /\ \/ \E start \in Toggles :
          \/ ConfirmAll(start)
          \/ \E p \in DOMAIN pkgs : ConfirmPackage(p, start)
          \/ \E i \in DOMAIN items : ConfirmLink(i, start)
     \/ LgRemoveAll
     \/ \E p \in DOMAIN pkgs : LgRemovePackage(p)
     \/ \E i \in DOMAIN items : LgRemoveLink(i)
  /\ UNCHANGED intakeVars

CallStep(c) ==
  \/ NativeReturns(c) \/ EntersInit(c) \/ Unpacked(c) \/ UnpackFails(c) \/ YtdlpAnswers(c)
  \/ Stages(c) \/ AddsOne(c) \/ ConfirmsOwn(c) \/ EnsuresService(c)
  \/ UnwindsResolve(c) \/ UnwindsStore(c)

IntakeNext ==
  \/ \E c \in Calls : (\E u \in Urls : Begin(c, u)) \/ CallStep(c)
  \/ ClearActivity \/ PreparedElsewhere \/ Close \/ Reviews \/ Death

\* A call that can go on does: libcurl has timeouts, unpacking ends; that
\* yt-dlp -J ends is an assumption, the code sets it no limit.
IntakeSpec ==
  /\ IntakeInit /\ [][IntakeNext]_allVars
  /\ \A c \in Calls : WF_allVars(CallStep(c))

---------------------------------------------------------------------------
(* Properties *)

\* Every variable has its type, and the activity list its length (checked as
\* part of SpinnerHonest).
IntakeTypeOK ==
  /\ calls \in [Calls -> Call]
  /\ banner \in [Hosts -> 0 .. Cardinality(Calls)]
  /\ Len(status) <= MaxStatus /\ \A k \in DOMAIN status : status[k] \in Activity
  /\ runtime \in {"NOT_READY", "PREPARING", "READY", "FAILED"}
  /\ gone \subseteq Calls

\* A host is in the banner as often as it is being resolved.
BannerBalanced ==
  \A h \in Hosts :
    banner[h] = Cardinality({c \in Calls : calls[c].pc \in Resolving /\ HostOf[calls[c].url] = h})

\* What the user sees is what is going on, whatever ends, fails or is cancelled
\* meanwhile: "two adds of the same host stay balanced", and an entry of the
\* activity list that is RUNNING has a call that resolves its URL, or unpacks,
\* although two calls may share an entry and the list drops its oldest.
SpinnerHonest ==
  /\ IntakeTypeOK
  /\ BannerBalanced
  /\ \A k \in DOMAIN status : status[k].state = "RUNNING" =>
       \E c \in Calls : IF status[k].key = SetupKey THEN calls[c].pc = "unpack"
                        ELSE calls[c].pc \in Resolving /\ calls[c].url = status[k].key

\* directFallback's gate: a page is taken for a plain file only after yt-dlp
\* ran and returned nothing.
FallbackOnlyAfterRun == \A c \in Calls : calls[c].raw => calls[c].ran

\* "Download now should download, not silently park the files in Review": a
\* call that ended has none of its files there.
DownloadNowNotParked ==
  \A c \in Directs :
    calls[c].pc = "ended" /\ Multi(c) /\ calls[c].id > 0 =>
      \A i \in Staged : items[i].pkg # calls[c].id

\* Whatever else is confirmed in the same moment, a call confirms the links of
\* its own package only, unless its package could not be stored.
ReviewKept ==
  [][\A c \in Calls : calls[c].pc = "confirm" /\ calls'[c].pc = "service" =>
       \/ calls[c].id = -1
       \/ \A i \in Staged : items[i].pkg # calls[c].id => i \in DOMAIN items' /\ items'[i] = items[i]
    ]_allVars

\* No activity spins for ever.
SpinnerStops ==
  \A u \in Urls :
    (\E k \in DOMAIN status : status[k] = [key |-> u, state |-> "RUNNING"])
      ~> ~(\E k \in DOMAIN status : status[k] = [key |-> u, state |-> "RUNNING"])
===========================================================================
