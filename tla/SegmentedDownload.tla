------------------------- MODULE SegmentedDownload -------------------------
(* The segmented engine of libdlm/download.c: one output path, its part file *)
(* and its journal, over as many calls of dlm_download_file as the caller    *)
(* makes, with the death of the process between any two steps.               *)
(*                                                                           *)
(* The curl multi loop is one thread: its steps are the replies, buffers and *)
(* completions curl hands it, in any order across the segments.              *)
(*                                                                           *)
(* Abstractions:                                                             *)
(*  - the file has FileSize units and does not change on the server; a unit  *)
(*    on disk is right, wrong, a hole, or past the end of the file, and an   *)
(*    empty file is not told from a missing one;                             *)
(*  - a buffer holds one unit: a longer one is several steps;                *)
(*  - replies are framed: a transfer that curl calls complete has delivered  *)
(*    its whole body;                                                        *)
(*  - a journal of another URL, the rate cap and progress calls are left out;*)
(*  - a crash is the death of the process: what was written stays written.   *)
EXTENDS Integers, Sequences, FiniteSets, Functions

CONSTANTS
  FileSize,     \* units of the file on the server
  Slack,        \* bound: units a part file may grow past FileSize
  Connections,  \* dlm_options.connections
  MinSplit,     \* dlm_options.min_split_size
  MaxRetries,   \* dlm_options.max_retries
  ErrorBody,    \* bound: units of body an error reply carries
  CrashPoints   \* values of pc at which the process may die

ASSUME SizeAssumption ==
  /\ FileSize \in Nat \ {0} /\ Slack \in Nat /\ Connections \in Nat \ {0}
  /\ MinSplit \in Nat \ {0} /\ MaxRetries \in Nat /\ ErrorBody \in Nat
  /\ CrashPoints \subseteq {"multi", "returned", "renamed", "cleaning"}

VARIABLES
  part,          \* <out>.dlmpart
  final,         \* <out>
  journal,       \* <out>.dlmjson
  pc,            \* where dlm_download_file, or the caller's cleanup, stands
  total,         \* dl.total
  resumable,     \* dl.resumable
  segs,          \* dl.segs with the transfer of each
  downloaded,    \* dl.downloaded
  rangeIgnored,  \* dl.range_ignored
  ioError,       \* dl.io_error
  fellBack,      \* the single-stream restart has been used
  cancel,        \* *dl.cancel
  rc             \* result of run_multi, then of the call

disk == <<part, final, journal>>
call == <<total, resumable, fellBack>>
flags == <<rangeIgnored, ioError, downloaded>>
vars == <<part, final, journal, pc, total, resumable, segs, downloaded,
          rangeIgnored, ioError, fellBack, cancel, rc>>

---------------------------------------------------------------------------
(* Files and segments *)

Offsets == 0 .. FileSize + Slack - 1
File == [Offsets -> {"right", "wrong", "hole", "eof"}]
NoFile == [o \in Offsets |-> "eof"]
Whole(f) == \A o \in Offsets : f[o] = IF o < FileSize THEN "right" ELSE "eof"

\* ftruncate to size t: what lies beyond goes, what is missing is a hole.
Resized(f, t) ==
  [o \in Offsets |-> IF o >= t THEN "eof" ELSE IF f[o] = "eof" THEN "hole" ELSE f[o]]

\* open_part_file: O_CREAT without O_TRUNC, then ftruncate if the size is known.
Opened(f, t) == IF t > 0 THEN Resized(f, t) ELSE f

\* pwrite of one unit; a gap before it becomes a hole.
Written(f, at, unit) ==
  [o \in Offsets |-> IF o = at THEN unit
                     ELSE IF o < at /\ f[o] = "eof" THEN "hole" ELSE f[o]]

Results == {"none", "ok", "cancelled", "io", "http", "net"}
Replies == {"none", "206", "200", "error", "aborted"}

Segment == [start : 0 .. FileSize - 1, end : -1 .. FileSize - 1, done : 0 .. FileSize + Slack,
            retries : 0 .. MaxRetries, st : {"closed", "open", "complete"},
            reply : Replies, checked : BOOLEAN, body : 0 .. FileSize + ErrorBody]

\* A segment before run_multi looks at it.
Planned(start, end, done) ==
  [start |-> start, end |-> end, done |-> done, retries |-> 0, st |-> "closed",
   reply |-> "none", checked |-> FALSE, body |-> 0]

\* seg_make_easy: a new transfer that asks for the rest of the segment.
Requested(s) == [s EXCEPT !.st = "open", !.reply = "none", !.checked = FALSE, !.body = 0]

Span(s) == s.end - s.start + 1
SegIsDone(s) == s.end >= 0 /\ s.done >= Span(s)
Ranged(s) == s.end >= 0 \/ s.done > 0

\* The head of run_multi: a full segment is complete, the others start.
Launched(ss) ==
  [k \in DOMAIN ss |-> IF SegIsDone(ss[k]) THEN [ss[k] EXCEPT !.st = "complete"]
                       ELSE Requested(ss[k])]

Open == {k \in DOMAIN segs : segs[k].st = "open"}
AllComplete == \A k \in DOMAIN segs : segs[k].st = "complete"
SumDone(ss) == FoldFunction(LAMBDA a, b : a + b, 0, [k \in DOMAIN ss |-> ss[k].done])

---------------------------------------------------------------------------
(* Planning *)

Single == <<Planned(0, -1, 0)>>

PieceCount(t, r) ==
  LET most == IF t \div MinSplit < 1 THEN 1 ELSE t \div MinSplit IN
  IF r /\ t >= MinSplit /\ Connections > 1
  THEN IF Connections > most THEN most ELSE Connections
  ELSE 1

\* plan_segments: n equal pieces, the last takes the rest; one piece is open.
Plan(t, r) ==
  LET n == PieceCount(t, r) chunk == t \div n IN
  IF n = 1 THEN Single
  ELSE [k \in 1 .. n |-> Planned((k - 1) * chunk, IF k = n THEN t - 1 ELSE k * chunk - 1, 0)]

(* Journal *)

NoJournal == [total |-> -1, segs |-> <<>>]

\* journal_save: what every segment has counted so far.
Snapshot ==
  [total |-> total,
   segs |-> [k \in DOMAIN segs |-> [start |-> segs[k].start, end |-> segs[k].end,
                                    done |-> segs[k].done]]]

\* The segments of js cover 0..t-1 in order, without gap or overlap.
Tiles(js, t) ==
  /\ js # <<>> /\ js[1].start = 0 /\ js[Len(js)].end = t - 1
  /\ \A k \in 2 .. Len(js) : js[k].start = js[k - 1].end + 1

\* journal_load accepts the journal for a file of size t.
Fits(j, t) ==
  /\ j.segs # <<>> /\ j.total = t /\ t >= 0
  /\ \A k \in DOMAIN j.segs :
       LET s == j.segs[k] IN
       /\ 0 <= s.start /\ s.start <= s.end /\ s.end < t
       /\ 0 <= s.done /\ s.done <= Span(s)
  /\ Tiles(j.segs, t)

Resumed(j) == [k \in DOMAIN j.segs |-> Planned(j.segs[k].start, j.segs[k].end, j.segs[k].done)]

---------------------------------------------------------------------------
(* dlm_download_file *)

Init ==
  /\ part = NoFile /\ final = NoFile /\ journal = NoJournal
  /\ pc = "idle" /\ total = -1 /\ resumable = FALSE /\ segs = <<>>
  /\ downloaded = 0 /\ rangeIgnored = FALSE /\ ioError = FALSE /\ fellBack = FALSE
  /\ cancel = FALSE /\ rc = "none"

\* The probe fails, or the part file cannot be opened.
StartFails ==
  /\ pc = "idle"
  /\ rc' \in {"net", "http", "io"}
  /\ UNCHANGED <<disk, pc, call, segs, flags, cancel>>

\* probe asks with HEAD and, if that names no length, for the first byte: a 206
\* tells the size and that ranges are served, a 200 the size alone; either reply
\* may say that ranges are served.
HeadReplies == [length : {-1, FileSize}, ranges : BOOLEAN]
ByteReplies == [status : {"206", "200"}, length : {-1, FileSize}, ranges : BOOLEAN]
Probed ==
  {<<h.length, h.ranges>> : h \in {h \in HeadReplies : h.length >= 0}} \cup
  {<<b.length, h.ranges \/ b.ranges \/ b.status = "206">> : h \in HeadReplies, b \in ByteReplies}

\* The probe has learnt the size t (or not, -1) and whether ranges are served (r).
Start(t, r) ==
  LET ss == IF Fits(journal, t) THEN Resumed(journal) ELSE Plan(t, r) IN
  /\ pc = "idle"
  /\ total' = t /\ resumable' = r
  /\ segs' = Launched(ss) /\ downloaded' = SumDone(ss)
  /\ part' = Opened(part, t)
  /\ rangeIgnored' = FALSE /\ ioError' = FALSE /\ fellBack' = FALSE
  /\ cancel' = FALSE /\ rc' = "none" /\ pc' = "multi"
  /\ UNCHANGED <<final, journal>>

\* A reply of the server to the transfer of segment k, and the body it brings:
\* a 206 may run past the end of the range, a 200 is the whole file.
Respond(k, reply, body) ==
  LET s == segs[k] from == s.start + s.done IN
  /\ pc = "multi" /\ k \in Open /\ s.reply = "none"
  /\ CASE reply = "206" -> /\ Ranged(s) /\ from < FileSize
                           /\ body \in {(IF s.end >= 0 THEN s.end + 1 ELSE FileSize) - from,
                                        FileSize - from}
       [] reply = "200" -> body = FileSize
       [] OTHER -> reply = "error" /\ body \in 0 .. ErrorBody
  /\ segs' = [segs EXCEPT ![k].reply = reply, ![k].body = body, ![k].checked = FALSE]
  /\ UNCHANGED <<disk, pc, call, flags, cancel, rc>>

\* seg_write_cb is handed one unit of the body of segment k.
Delivering(k) == pc = "multi" /\ k \in Open /\ segs[k].body > 0 /\ segs[k].reply # "aborted"
Aborted(k) == segs' = [segs EXCEPT ![k].reply = "aborted", ![k].body = 0]

RangeNeverIgnored(s) == FALSE
RangeIgnored(s) == ~s.checked /\ Ranged(s) /\ s.reply = "200"

FullAnyway(s) == FALSE
SegFull(s) == s.end >= 0 /\ s.done >= Span(s)

\* The unit the server sends next: of the file, or of an error page.
Unit(s) ==
  CASE s.reply = "206" -> "right"
    [] s.reply = "200" -> IF s.start + s.done = FileSize - s.body THEN "right" ELSE "wrong"
    [] OTHER -> "wrong"

CancelSeen(k) == cancel

ReceiveCancelled(k) ==
  /\ Delivering(k) /\ CancelSeen(k)
  /\ Aborted(k)
  /\ UNCHANGED <<disk, pc, call, flags, cancel, rc>>

ReceiveIgnored(k) ==
  /\ Delivering(k) /\ ~CancelSeen(k) /\ RangeIgnored(segs[k])
  /\ rangeIgnored' = TRUE
  /\ Aborted(k)
  /\ UNCHANGED <<disk, pc, call, ioError, downloaded, cancel, rc>>

\* The segment is full: the rest of the body is dropped.
ReceiveExtra(k) ==
  /\ Delivering(k) /\ ~CancelSeen(k) /\ ~RangeIgnored(segs[k]) /\ SegFull(segs[k])
  /\ segs' = [segs EXCEPT ![k].body = @ - 1, ![k].checked = TRUE]
  /\ UNCHANGED <<disk, pc, call, flags, cancel, rc>>

ReceiveUnit(k) ==
  LET s == segs[k] at == s.start + s.done IN
  /\ Delivering(k) /\ ~CancelSeen(k) /\ ~RangeIgnored(s) /\ ~SegFull(s)
  /\ at \in Offsets
  /\ part' = Written(part, at, Unit(s))
  /\ segs' = [segs EXCEPT ![k].body = @ - 1, ![k].checked = TRUE, ![k].done = @ + 1]
  /\ downloaded' = downloaded + 1
  /\ UNCHANGED <<final, journal, pc, call, rangeIgnored, ioError, cancel, rc>>

\* pwrite fails: the disk is full.
ReceiveFails(k) ==
  /\ Delivering(k) /\ ~CancelSeen(k) /\ ~RangeIgnored(segs[k]) /\ ~SegFull(segs[k])
  /\ ioError' = TRUE
  /\ Aborted(k)
  /\ UNCHANGED <<disk, pc, call, rangeIgnored, downloaded, cancel, rc>>

\* run_multi ends with result r: the journal is saved, transfers are dropped.
Return(r) ==
  /\ rc' = r /\ pc' = "returned" /\ journal' = Snapshot
  /\ segs' = [k \in DOMAIN segs |-> IF k \in Open THEN [segs[k] EXCEPT !.st = "closed"]
                                    ELSE segs[k]]
  /\ UNCHANGED <<part, final, call, flags, cancel>>

AcceptedAnyStatus(s, ok) == ok /\ (s.end < 0 \/ SegIsDone(s))
Accepted(s, ok) == ok /\ s.reply \in {"200", "206"} /\ (s.end < 0 \/ SegIsDone(s))
RetriedForFree(s) == Requested(s)
Retried(s) == Requested([s EXCEPT !.retries = @ + 1])

\* curl_multi_info_read: the transfer of segment k is over, well (ok) or not
\* (an abort of ours, a network error, a silent connection given up).
Over(k, ok) ==
  LET s == segs[k] IN
  /\ pc = "multi" /\ k \in Open
  /\ ok => s.reply \in {"206", "200", "error"} /\ s.body = 0
  /\ \/ cancel /\ Return("cancelled")
     \/ ~cancel /\ ioError /\ Return("io")
     \/ ~cancel /\ ~ioError /\ rangeIgnored /\ Return("http")
     \/ /\ ~cancel /\ ~ioError /\ ~rangeIgnored
        /\ \/ /\ Accepted(s, ok)
              /\ segs' = [segs EXCEPT ![k].st = "complete"]
              /\ UNCHANGED <<disk, pc, call, flags, cancel, rc>>
           \/ /\ ~Accepted(s, ok) /\ s.retries < MaxRetries
              /\ segs' = [segs EXCEPT ![k] = Retried(s)]
              /\ UNCHANGED <<disk, pc, call, flags, cancel, rc>>
           \/ /\ ~Accepted(s, ok) /\ s.retries >= MaxRetries
              /\ Return(IF ok /\ s.reply = "error" THEN "http" ELSE "net")

\* Nothing is active any more.
LoopEnds == pc = "multi" /\ Open = {} /\ Return("ok")

\* curl_multi_perform fails, or a segment gets no easy handle: that segment stays
\* as it is, and the loop ends at once, or when the others are over.
MultiFails == pc = "multi" /\ Return("net")

\* The journal is saved every second.
SaveJournal ==
  /\ pc = "multi"
  /\ journal' = Snapshot
  /\ UNCHANGED <<part, final, pc, call, segs, flags, cancel, rc>>

\* The server ignored a range: once, the whole file is fetched in one stream.
MayFallBack == rc = "http" /\ rangeIgnored /\ ~fellBack
FallBack ==
  /\ pc = "returned" /\ MayFallBack
  /\ segs' = Launched(Single) /\ downloaded' = 0
  /\ rangeIgnored' = FALSE /\ resumable' = FALSE /\ fellBack' = TRUE
  /\ part' = Opened(part, total)
  /\ rc' = "none" /\ pc' = "multi"
  /\ UNCHANGED <<final, journal, total, ioError, cancel>>

\* The call returns: its memory is freed.
Released(r) ==
  /\ pc' = "idle" /\ rc' = r
  /\ total' = -1 /\ resumable' = FALSE /\ segs' = <<>> /\ downloaded' = 0
  /\ rangeIgnored' = FALSE /\ ioError' = FALSE /\ fellBack' = FALSE /\ cancel' = FALSE

\* fsync, close or rename fails.
FinishFails ==
  /\ pc = "returned" /\ rc = "ok" /\ AllComplete
  /\ Released("io")
  /\ UNCHANGED disk

Finish ==
  /\ pc = "returned" /\ rc = "ok" /\ AllComplete
  /\ final' = part /\ part' = NoFile /\ pc' = "renamed"
  /\ UNCHANGED <<journal, call, segs, flags, cancel, rc>>

UnlinkJournal ==
  /\ pc = "renamed"
  /\ journal' = NoJournal
  /\ Released("ok")
  /\ UNCHANGED <<part, final>>

GiveUp ==
  /\ pc = "returned" /\ ~MayFallBack /\ ~(rc = "ok" /\ AllComplete)
  /\ Released(IF rc = "ok" THEN "net" ELSE rc)
  /\ UNCHANGED disk

---------------------------------------------------------------------------
(* The caller *)

RequestCancel ==
  /\ pc \in {"multi", "returned", "renamed"} /\ ~cancel
  /\ cancel' = TRUE
  /\ UNCHANGED <<disk, pc, call, segs, flags, rc>>

\* cleanupPartialFiles of the queue, once no worker runs: the part file, then
\* the journal.
DeletePartOnly ==
  /\ pc = "idle"
  /\ part' = NoFile
  /\ UNCHANGED <<final, journal, pc, call, segs, flags, cancel, rc>>
DeletePart ==
  /\ pc = "idle"
  /\ part' = NoFile /\ pc' = "cleaning"
  /\ UNCHANGED <<final, journal, call, segs, flags, cancel, rc>>

DeleteJournal ==
  /\ pc = "cleaning"
  /\ journal' = NoJournal /\ pc' = "idle"
  /\ UNCHANGED <<part, final, call, segs, flags, cancel, rc>>

\* The process dies; the queue calls again for the same path.
Crash ==
  /\ pc \in CrashPoints
  /\ Released("none")
  /\ UNCHANGED disk

---------------------------------------------------------------------------
Transfer ==
  \E k \in DOMAIN segs :
    \/ \E reply \in {"206", "200", "error"}, body \in 0 .. FileSize + ErrorBody :
         Respond(k, reply, body)
    \/ ReceiveCancelled(k) \/ ReceiveIgnored(k) \/ ReceiveExtra(k)
    \/ ReceiveUnit(k) \/ ReceiveFails(k)
    \/ \E ok \in BOOLEAN : Over(k, ok)

Ending == LoopEnds \/ FallBack \/ FinishFails \/ Finish \/ UnlinkJournal \/ GiveUp

Next ==
  \/ StartFails
  \/ \E p \in Probed : Start(p[1], p[2])
  \/ Transfer \/ SaveJournal \/ Ending \/ MultiFails
  \/ RequestCancel \/ DeletePart \/ DeleteJournal \/ Crash

Spec == Init /\ [][Next]_vars

\* curl ends every transfer in the end: the body is finite, and a connection
\* below 1 B/s for 120 s is given up (CURLOPT_LOW_SPEED_*).
FairSpec == Spec /\ WF_vars(Transfer) /\ WF_vars(Ending)

---------------------------------------------------------------------------
(* Properties *)

\* Every variable has its type (checked as part of SegmentsTile).
TypeOK ==
  /\ part \in File /\ final \in File
  /\ journal.total \in {-1, FileSize}
  /\ \A k \in DOMAIN journal.segs :
       journal.segs[k] \in [start : 0 .. FileSize - 1, end : -1 .. FileSize - 1,
                            done : 0 .. FileSize + Slack]
  /\ pc \in {"idle", "multi", "returned", "renamed", "cleaning"}
  /\ total \in {-1, FileSize}
  /\ \A k \in DOMAIN segs : segs[k] \in Segment
  /\ downloaded \in Nat
  /\ {resumable, rangeIgnored, ioError, fellBack, cancel} \subseteq BOOLEAN
  /\ rc \in Results

\* While transfers run, the segments of a split file cover it exactly and none
\* counts more than its span: no two of them ever write the same unit, however
\* much a server sends and whichever run planned them.
SegmentsTile ==
  /\ TypeOK
  /\ pc = "multi" /\ Len(segs) > 1 =>
       /\ Tiles(segs, FileSize)
       /\ \A k \in DOMAIN segs : segs[k].done <= Span(segs[k])

\* What is counted as downloaded is on disk and right, through resumes,
\* retries, ignored ranges and the restart as a single stream.
ProgressHonest ==
  pc \in {"multi", "returned"} =>
    /\ downloaded = SumDone(segs)
    /\ \A k \in DOMAIN segs :
         \A o \in segs[k].start .. segs[k].start + segs[k].done - 1 : part[o] = "right"

\* A journal the next call would accept counts only units that are on disk and
\* right (download.c:12-13), wherever the process dies meanwhile.
JournalHonest ==
  pc \notin {"renamed", "cleaning"} /\ Fits(journal, FileSize) =>
    \A k \in DOMAIN journal.segs :
      \A o \in journal.segs[k].start .. journal.segs[k].start + journal.segs[k].done - 1 :
        part[o] = "right"

\* What a caller is promised: see FileDelivery.
Delivery ==
  INSTANCE FileDelivery WITH
    file <- IF final = NoFile THEN "absent" ELSE IF Whole(final) THEN "whole" ELSE "broken",
    busy <- pc \in {"multi", "returned", "renamed"},
    reported <- rc = "ok" /\ pc \in {"idle", "cleaning"}

Promise == Delivery!Spec

\* Every call returns.
DownloadReturns == pc = "multi" ~> pc = "idle"

(* Claims of the documentation that the code does not keep. *)

\* download.c:14-15 and 394-396: only a part file that has every byte of the
\* file is renamed to the output path, and no journal marks another one as a
\* completed download.
FinalWhole == final = NoFile \/ Whole(final)
=============================================================================
