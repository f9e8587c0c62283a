------------------------------- MODULE Export -------------------------------
(* Finished downloads leave the app for the folder the user chose:           *)
(* observeForExport of DownloadService.kt, moveToTree and exportToTree of    *)
(* QueueRepository.kt, and SafMover.export.                                  *)
(*                                                                           *)
(* The automatic move runs in a coroutine of the service, one file after the *)
(* other; "Save to folder" runs the same SafMover.export beside it; a move   *)
(* cut off by the end of its service still runs to the end of its export.    *)
(* Each statement that touches a file is a step.                             *)
(*                                                                           *)
(* Abstractions: every link has a file name and a place in the tree of its   *)
(* own; a file is the link whose content it has; two lengths are equal when  *)
(* the files are; folders exist or are made.                                 *)
EXTENDS Naturals, FiniteSets

CONSTANTS
  Links,       \* the links of the queue
  ByHand,      \* the links "Save to folder" is used on
  Crashes      \* may the process die

ASSUME ExportAssumption ==
  /\ IsFiniteSet(Links) /\ Links # {} /\ ByHand \subseteq Links /\ Crashes \in BOOLEAN

VARIABLES
  st,        \* state of each link
  local,     \* links whose finished file is in app storage
  tree,      \* documents of the tree: link -> copy number -> Doc
  folder,    \* a folder has been chosen
  serving,   \* the service is alive
  fresh,     \* a snapshot waits for the collector
  queue,     \* links the current pass has still to move
  snap,      \* links of the snapshot of the current pass
  exported,  \* DownloadService.exported
  exp,       \* the running exports
  met        \* history: links that two exports have worked on at once

vars == <<st, local, tree, folder, serving, fresh, queue, snap, exported, exp, met>>

Exporters == {"auto", "cutoff", "manual"}
Copies == {0, 1}  \* 1: createFile found the name taken and chose another

\* A document: missing, empty, incomplete or whole, and who created it (the
\* dead: an export that the end of the process interrupted).
Doc == [content : {"none", "empty", "short", "whole"}, by : Exporters \cup {"dead"}]
NoDoc == [content |-> "none", by |-> "auto"]

\* An export is idle or about to check its file, drop the old document, create
\* the new one, copy, verify, or delete the original.
Stages == {"idle", "check", "replace", "create", "copy", "verify", "delete"}
AtRest == [at |-> "idle", link |-> CHOOSE l \in Links : TRUE, doc |-> 0]

\* An export of l by e begins, perhaps beside another one.
Begin(e, l) ==
  /\ exp' = [exp EXCEPT ![e] = [at |-> "check", link |-> l, doc |-> 0]]
  /\ met' = IF \E o \in Exporters : exp[o].link = l /\ exp[o].at # "idle"
            THEN met \cup {l} ELSE met

Saved(l) == \E c \in Copies : tree[l][c].content = "whole"

Init ==
  /\ st = [l \in Links |-> "unfinished"] /\ local = {}
  /\ tree = [l \in Links |-> [c \in Copies |-> NoDoc]]
  /\ folder \in BOOLEAN /\ serving = TRUE /\ fresh = TRUE
  /\ queue = {} /\ snap = {} /\ exported = {}
  /\ exp = [e \in Exporters |-> AtRest]
  /\ met = {}

---------------------------------------------------------------------------
(* The queue: what publishes a snapshot *)

Finish(l) ==
  /\ st[l] = "unfinished"
  /\ st' = [st EXCEPT ![l] = "done"] /\ local' = local \cup {l} /\ fresh' = TRUE
  /\ UNCHANGED <<tree, folder, serving, queue, snap, exported, exp, met>>

\* remove or clearFinished: the finished file is kept.
Remove(l) ==
  /\ st[l] # "gone"
  /\ st' = [st EXCEPT ![l] = "gone"] /\ fresh' = TRUE
  /\ UNCHANGED <<local, tree, folder, serving, queue, snap, exported, exp, met>>

\* Progress, or a verb that concerns none of these links.
Publish ==
  /\ serving /\ ~fresh /\ fresh' = TRUE
  /\ UNCHANGED <<st, local, tree, folder, serving, queue, snap, exported, exp, met>>

\* setDownloadTreeUri: no snapshot is published.
ChooseFolder ==
  /\ ~folder /\ folder' = TRUE
  /\ UNCHANGED <<st, local, tree, serving, fresh, queue, snap, exported, exp, met>>

---------------------------------------------------------------------------
(* The collector of the service *)

Collecting == serving /\ queue = {} /\ snap = {} /\ exp["auto"].at = "idle"

\* A snapshot with nothing to move only has the ids that left it forgotten.
Collect ==
  LET present == {l \in Links : st[l] # "gone"}
      todo == {l \in present : st[l] = "done"} \ exported IN
  /\ Collecting /\ fresh /\ fresh' = FALSE
  /\ queue' = IF folder THEN todo ELSE {}
  /\ snap' = IF folder /\ todo # {} THEN present ELSE {}
  /\ exported' = IF folder /\ todo = {} THEN exported \cap present ELSE exported
  /\ UNCHANGED <<st, local, tree, folder, serving, exp, met>>

\* The file of the next link is gone already: handled.
SkipGone(l) ==
  /\ serving /\ exp["auto"].at = "idle" /\ l \in queue /\ l \notin local
  /\ queue' = queue \ {l} /\ exported' = exported \cup {l}
  /\ UNCHANGED <<st, local, tree, folder, serving, fresh, snap, exp, met>>

MoveNext(l) ==
  /\ serving /\ exp["auto"].at = "idle" /\ l \in queue /\ l \in local
  /\ queue' = queue \ {l}
  /\ Begin("auto", l)
  /\ UNCHANGED <<st, local, tree, folder, serving, fresh, snap, exported>>

\* The end of a pass: ids that have left the queue are forgotten.
PassEnds ==
  /\ serving /\ exp["auto"].at = "idle" /\ queue = {} /\ snap # {}
  /\ exported' = exported \cap snap /\ snap' = {}
  /\ UNCHANGED <<st, local, tree, folder, serving, fresh, queue, exp, met>>

---------------------------------------------------------------------------
(* SafMover.export, for whichever exporter e *)

At(e, stage) == exp[e].at = stage
Of(e) == exp[e].link
MyDoc(e) == tree[exp[e].link][exp[e].doc]
Stage(e, stage) ==
  exp' = [exp EXCEPT ![e] = IF stage = "idle" THEN AtRest ELSE [@ EXCEPT !.at = stage]]

\* Of the exporters only the automatic move goes on to delete the original.
IsMove(e) == e = "auto"

\* A failed export leaves the link to a later pass.
MarkedHandled(e) == exported \cup {Of(e)}
LeftForLater(e) == exported

queueing == <<st, folder, serving, fresh, queue, snap>>

CheckGone(e) ==
  /\ At(e, "check") /\ Of(e) \notin local
  /\ Stage(e, "idle") /\ exported' = LeftForLater(e)
  /\ UNCHANGED <<queueing, local, tree, met>>
CheckThere(e) ==
  /\ At(e, "check") /\ Of(e) \in local
  /\ Stage(e, "replace")
  /\ UNCHANGED <<queueing, local, tree, exported, met>>

\* The document of that name, whoever made it, is deleted.
Replace(e) ==
  /\ At(e, "replace")
  /\ tree' = [tree EXCEPT ![Of(e)][0] = NoDoc]
  /\ Stage(e, "create")
  /\ UNCHANGED <<queueing, local, exported, met>>

CreateFails(e) ==
  /\ At(e, "create")
  /\ Stage(e, "idle") /\ exported' = LeftForLater(e)
  /\ UNCHANGED <<queueing, local, tree, met>>
Create(e) ==
  /\ At(e, "create")
  /\ \E c \in Copies :
       /\ tree[Of(e)][c] = NoDoc /\ (c = 1 => tree[Of(e)][0] # NoDoc)
       /\ tree' = [tree EXCEPT ![Of(e)][c] = [content |-> "empty", by |-> e]]
       /\ exp' = [exp EXCEPT ![e].at = "copy", ![e].doc = c]
  /\ UNCHANGED <<queueing, local, exported, met>>

\* The copy goes to the document e created, if that is still in its place;
\* it may come out short with no exception.
Copy(e, content) ==
  /\ At(e, "copy") /\ Of(e) \in local
  /\ tree' = IF MyDoc(e).by = e /\ MyDoc(e) # NoDoc
             THEN [tree EXCEPT ![Of(e)][exp[e].doc].content = content] ELSE tree
  /\ Stage(e, "verify")
  /\ UNCHANGED <<queueing, local, exported, met>>

DocKept(e) == tree
DocDeleted(e) == [tree EXCEPT ![Of(e)][exp[e].doc] = NoDoc]

\* An exception, for instance because the original has gone meanwhile.
CopyFails(e) ==
  /\ At(e, "copy")
  /\ tree' = DocDeleted(e)
  /\ Stage(e, "idle") /\ exported' = LeftForLater(e)
  /\ UNCHANGED <<queueing, local, met>>

\* The document is as long as the original (0 if that has gone).
LengthUnchecked(e) == TRUE
SameLength(e) ==
  IF Of(e) \in local THEN MyDoc(e).content = "whole" ELSE MyDoc(e).content \in {"none", "empty"}

VerifyFails(e) ==
  /\ At(e, "verify") /\ ~SameLength(e)
  /\ tree' = DocDeleted(e)
  /\ Stage(e, "idle") /\ exported' = LeftForLater(e)
  /\ UNCHANGED <<queueing, local, met>>

\* A move whose coroutine was cancelled before its export returned ends there.
Verify(e) ==
  /\ At(e, "verify") /\ SameLength(e)
  /\ Stage(e, IF IsMove(e) THEN "delete" ELSE "idle")
  /\ UNCHANGED <<queueing, local, tree, exported, met>>

DeleteOriginal(e) ==
  /\ At(e, "delete")
  /\ local' = local \ {Of(e)}
  /\ exported' = IF e = "auto" THEN exported \cup {Of(e)} ELSE exported
  /\ Stage(e, "idle")
  /\ UNCHANGED <<queueing, tree, met>>

---------------------------------------------------------------------------
(* "Save to folder", the end of the service, and the end of the process *)

SaveToFolder(l) ==
  /\ l \in ByHand /\ folder /\ st[l] = "done" /\ At("manual", "idle")
  /\ Begin("manual", l)
  /\ UNCHANGED <<queueing, local, tree, exported>>

\* onDestroy: the collector is cancelled; the export it is in goes on without
\* it to its next suspension point, the end of SafMover.export.
ServiceStops ==
  /\ serving /\ serving' = FALSE
  /\ At("cutoff", "idle")
  /\ exp' = [exp EXCEPT !["auto"] = AtRest, !["cutoff"] = exp["auto"]]
  /\ tree' = [tree EXCEPT ![Of("auto")][exp["auto"].doc] =
                IF exp["auto"].at \in {"copy", "verify", "delete"} /\ @.by = "auto" /\ @ # NoDoc
                THEN [@ EXCEPT !.by = "cutoff"] ELSE @]
  /\ queue' = {} /\ snap' = {} /\ exported' = {}
  /\ UNCHANGED <<st, local, folder, fresh, met>>

\* A new service collects the current snapshot at once.
ServiceStarts ==
  /\ ~serving /\ serving' = TRUE /\ fresh' = TRUE
  /\ UNCHANGED <<st, local, tree, folder, queue, snap, exported, exp, met>>

Crash ==
  /\ Crashes
  /\ serving' = FALSE /\ fresh' = FALSE
  /\ queue' = {} /\ snap' = {} /\ exported' = {}
  /\ exp' = [e \in Exporters |-> AtRest]
  /\ tree' = [l \in Links |-> [c \in Copies |->
                IF tree[l][c] = NoDoc THEN NoDoc ELSE [tree[l][c] EXCEPT !.by = "dead"]]]
  /\ UNCHANGED <<st, local, folder, met>>

---------------------------------------------------------------------------
ExportStep(e) ==
  \/ CheckGone(e) \/ CheckThere(e) \/ Replace(e) \/ Create(e) \/ CreateFails(e)
  \/ \E content \in {"short", "whole"} : Copy(e, content)
  \/ CopyFails(e) \/ Verify(e) \/ VerifyFails(e) \/ DeleteOriginal(e)

Moving ==
  Collect \/ PassEnds \/ \E l \in Links : SkipGone(l) \/ MoveNext(l)

Next ==
  \/ \E l \in Links : Finish(l) \/ Remove(l) \/ SaveToFolder(l)
  \/ ChooseFolder \/ Publish \/ Moving
  \/ \E e \in Exporters : ExportStep(e)
  \/ ServiceStops \/ ServiceStarts \/ Crash

Spec == Init /\ [][Next]_vars

\* The collector and the exports run on.  The folder may fail at any time, but
\* not for ever: what is assumed is that a create or a copy that is tried again
\* and again succeeds once.
FairSpec ==
  /\ Spec
  /\ WF_vars(Moving) /\ \A e \in Exporters : WF_vars(ExportStep(e))
  /\ SF_vars(Create("auto")) /\ SF_vars(Copy("auto", "whole"))

---------------------------------------------------------------------------
(* Properties *)

\* Every variable has its type; a pass is about its snapshot, and "Save to
\* folder" leaves the original (QueueRepository.kt:228).  Checked as part of
\* NoLitter.
TypeOK ==
  /\ st \in [Links -> {"unfinished", "done", "gone"}] /\ local \subseteq Links
  /\ tree \in [Links -> [Copies -> Doc]]
  /\ {folder, serving, fresh} \subseteq BOOLEAN
  /\ queue \subseteq snap /\ snap \subseteq Links /\ exported \subseteq Links
  /\ exp \in [Exporters -> [at : Stages, link : Links, doc : Copies]] /\ exp["manual"].at # "delete"
  /\ met \subseteq Links

\* A finished download is somewhere, whole: "the delete can never lose data"
\* (QueueRepository.kt:239), wherever an export fails, the service stops or the
\* process dies, unless two exports of it have met (NeverLost); and what the move
\* has marked as handled is in the folder, whole, and is not kept twice.
NothingLost ==
  \A l \in Links \ met :
    /\ st[l] = "done" => l \in local \/ Saved(l)
    /\ l \in exported => Saved(l) /\ l \notin local

\* An incomplete document is one somebody is still writing, or was writing when
\* the process died: a failed export leaves nothing in the user's folder
\* (SafMover.kt:29-31), also beside another export of the same file.
NoLitter ==
  /\ TypeOK
  /\ \A l \in Links, c \in Copies :
       tree[l][c].content \in {"empty", "short"} /\ tree[l][c].by # "dead" =>
         \E e \in Exporters : Of(e) = l /\ exp[e].doc = c /\ exp[e].at \in {"copy", "verify"}

\* "A transient SAF failure is retried" (DownloadService.kt:143): where the
\* service lives on, the queue goes on publishing and the user does not go on
\* saving by hand, a finished file leaves the app in the end, however often its
\* move has failed, been cut off or met another export.
MovedInTheEnd ==
  <>[]serving /\ []<>fresh /\ <>[](At("manual", "idle")) =>
    \A l \in Links : (folder /\ l \in local) ~> (st[l] = "gone" \/ l \notin local)

(* Claims of the documentation that the code does not keep. *)

\* QueueRepository.kt:238-239: the delete can never lose data, so not when
\* "Save to folder" is used on a file that is being moved either.
NeverLost == \A l \in Links : st[l] = "done" => l \in local \/ Saved(l)
=============================================================================
