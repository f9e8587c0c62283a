---------------------------- MODULE ExportProofs ----------------------------
(* Wherever an export fails, a service stops or the process dies: a finished *)
(* file that two exports have not met on is somewhere whole, and what a      *)
(* failed export began is gone.  For any links, saved by hand or not.        *)
EXTENDS Export, TLAPS

Busy(e) == exp[e].at # "idle"
Touching == {"replace", "create", "copy", "verify", "delete"}
Runs == [at : Stages, link : Links, doc : Copies]
Draft(d) == d.content \in {"empty", "short"}

\* Two exports of one file have met.
Sole ==
  \A e, o \in Exporters :
    e # o /\ Busy(e) /\ Busy(o) /\ Of(e) = Of(o) => Of(e) \in met

\* What is exported was finished; past its check an export that is alone has
\* its original, and has it in the folder as well before that is deleted.
Held ==
  \A e \in Exporters :
    /\ Busy(e) => st[Of(e)] # "unfinished"
    /\ Of(e) \notin met /\ exp[e].at \in Touching => Of(e) \in local
    /\ Of(e) \notin met /\ exp[e].at = "delete" => MyDoc(e).content = "whole"

Ahead == \A l \in Links : st[l] = "unfinished" => l \notin local \cup queue \cup exported

\* NothingLost, also of a link removed in the middle of a pass.
Kept ==
  \A l \in Links \ met :
    /\ st[l] = "done" \/ l \in queue => l \in local \/ Saved(l)
    /\ l \in exported => Saved(l) /\ l \notin local

\* A draft is where the export that made it stands, and is begun by its copy.
Tidy ==
  \A l \in Links, c \in Copies, e \in Exporters :
    Draft(tree[l][c]) /\ tree[l][c].by = e =>
      /\ Of(e) = l /\ exp[e].doc = c /\ exp[e].at \in {"copy", "verify"}
      /\ tree[l][c].content = "empty" => exp[e].at = "copy"

ExportInv == TypeOK /\ Sole /\ Held /\ Ahead /\ Kept /\ Tidy

---------------------------------------------------------------------------
(* What a step of an export does to its record and to the tree *)

LEMMA RestTyped == AtRest \in Runs /\ AtRest.at = "idle"
BY ExportAssumption DEF AtRest, Runs, Stages, Copies

LEMMA StageTaken ==
  ASSUME TypeOK, NEW e \in Exporters, NEW s \in Stages, Stage(e, s),
         ~(e = "manual" /\ s = "delete")
  PROVE  /\ exp' \in [Exporters -> Runs] /\ exp'["manual"].at # "delete"
         /\ exp'[e].at = s
         /\ s # "idle" => exp'[e].link = exp[e].link /\ exp'[e].doc = exp[e].doc
         /\ \A o \in Exporters : o # e => exp'[o] = exp[o]
<1> DEFINE r == IF s = "idle" THEN AtRest ELSE [exp[e] EXCEPT !.at = s]
<1>1. exp \in [Exporters -> Runs] /\ exp["manual"].at # "delete" BY DEF TypeOK, Runs
<1>2. exp' = [exp EXCEPT ![e] = r] BY DEF Stage
<1>3. /\ r \in Runs /\ r.at = s
      /\ s # "idle" => r.link = exp[e].link /\ r.doc = exp[e].doc
  <2>1. exp[e] \in Runs BY <1>1
  <2> QED BY <2>1, RestTyped DEF Runs
<1> HIDE DEF r
<1> QED BY <1>1, <1>2, <1>3 DEF Exporters

LEMMA DocPut ==
  ASSUME TypeOK, NEW l \in Links, NEW c \in Copies, NEW d \in Doc,
         NEW t, t = [tree EXCEPT ![l][c] = d]
  PROVE  /\ t \in [Links -> [Copies -> Doc]] /\ t[l][c] = d
         /\ \A k \in Links, b \in Copies : k # l \/ b # c => t[k][b] = tree[k][b]
<1>1. tree \in [Links -> [Copies -> Doc]] BY DEF TypeOK
<1>2. t = [tree EXCEPT ![l] = [tree[l] EXCEPT ![c] = d]] OBVIOUS
<1>3. [tree[l] EXCEPT ![c] = d] \in [Copies -> Doc] BY <1>1
<1> QED BY <1>1, <1>2, <1>3

LEMMA RunTyped ==
  ASSUME TypeOK, NEW e \in Exporters
  PROVE  /\ Of(e) \in Links /\ exp[e].doc \in Copies /\ exp[e].at \in Stages
         /\ MyDoc(e) \in Doc
BY DEF TypeOK, Of, MyDoc

LEMMA NoDocTyped == NoDoc \in Doc /\ ~Draft(NoDoc)
BY DEF NoDoc, Doc, Exporters, Draft

\* An export that has not begun its copy, or has none to write to, has no draft.
LEMMA NoDraftYet ==
  ASSUME ExportInv, NEW e \in Exporters, exp[e].at \notin {"copy", "verify"}
  PROVE  \A l \in Links, c \in Copies : Draft(tree[l][c]) => tree[l][c].by # e
BY DEF ExportInv, Tidy

\* A step of one export that leaves the files alone.
LEMMA QuietStep ==
  ASSUME ExportInv, NEW e \in Exporters, Busy(e), NEW s \in Stages, Stage(e, s),
         ~(e = "manual" /\ s = "delete"),
         UNCHANGED <<queueing, local, tree, exported, met>>,
         Of(e) \notin met /\ s \in Touching => Of(e) \in local,
         Of(e) \notin met /\ s = "delete" => MyDoc(e).content = "whole",
         \A l \in Links, c \in Copies : Draft(tree[l][c]) => tree[l][c].by # e
  PROVE  ExportInv'
<1>1. /\ exp' \in [Exporters -> Runs] /\ exp'["manual"].at # "delete" /\ exp'[e].at = s
      /\ s # "idle" => exp'[e].link = exp[e].link /\ exp'[e].doc = exp[e].doc
      /\ \A o \in Exporters : o # e => exp'[o] = exp[o]
  BY StageTaken DEF ExportInv
<1>2. TypeOK' BY <1>1 DEF ExportInv, TypeOK, queueing, Runs
<1>3. Sole' BY <1>1 DEF ExportInv, Sole, Busy, Of
<1>4. Held'
  <2>1. ASSUME NEW o \in Exporters, o # e
        PROVE /\ Busy(o)' => st'[Of(o)'] # "unfinished"
              /\ Of(o)' \notin met' /\ exp'[o].at \in Touching => Of(o)' \in local'
              /\ Of(o)' \notin met' /\ exp'[o].at = "delete" => MyDoc(o)'.content = "whole"
    BY <1>1, <2>1 DEF ExportInv, Held, Busy, Of, MyDoc, queueing
  <2>2. CASE s = "idle"
    BY <1>1, <2>1, <2>2 DEF Held, Busy, Touching
  <2>3. CASE s # "idle"
    <3>1. /\ Busy(e)' => st'[Of(e)'] # "unfinished"
          /\ Of(e)' \notin met' /\ exp'[e].at \in Touching => Of(e)' \in local'
          /\ Of(e)' \notin met' /\ exp'[e].at = "delete" => MyDoc(e)'.content = "whole"
      BY <1>1, <2>3 DEF ExportInv, Held, Busy, Of, MyDoc, queueing
    <3> QED BY <2>1, <3>1 DEF Held
  <2> QED BY <2>2, <2>3
<1>5. Ahead' /\ Kept' BY DEF ExportInv, Ahead, Kept, Saved, queueing
<1>6. Tidy' BY <1>1 DEF ExportInv, Tidy, Of
<1> QED BY <1>2, <1>3, <1>4, <1>5, <1>6 DEF ExportInv

\* A step of one export that writes, or drops, one document of its link; what
\* is then unfinished there is its own.
LEMMA WritingStep ==
  ASSUME ExportInv, NEW e \in Exporters, exp[e].at \in Touching \ {"delete"},
         NEW c \in Copies, NEW d \in Doc, tree' = [tree EXCEPT ![Of(e)][c] = d],
         exp' \in [Exporters -> Runs], \A o \in Exporters : o # e => exp'[o] = exp[o],
         exp'[e].at \in {"idle", "create", "copy", "verify"},
         exp'[e].at # "idle" => exp'[e].link = exp[e].link,
         UNCHANGED <<queueing, local, exported, met>>,
         Draft(d) => /\ d.by = e /\ exp'[e].doc = c /\ exp'[e].at \in {"copy", "verify"}
                     /\ d.content = "empty" => exp'[e].at = "copy",
         \A l \in Links, b \in Copies :
           (l # Of(e) \/ b # c) /\ Draft(tree[l][b]) => tree[l][b].by # e
  PROVE  ExportInv'
<1> DEFINE m == Of(e)
<1>1. m \in Links /\ m = exp[e].link BY RunTyped DEF ExportInv, Of
<1>2. /\ tree' \in [Links -> [Copies -> Doc]] /\ tree'[m][c] = d
      /\ \A k \in Links, b \in Copies : k # m \/ b # c => tree'[k][b] = tree[k][b]
  <2> DEFINE t == [tree EXCEPT ![m][c] = d]
  <2>1. TypeOK /\ tree' = t BY DEF ExportInv
  <2>2. /\ t \in [Links -> [Copies -> Doc]] /\ t[m][c] = d
        /\ \A k \in Links, b \in Copies : k # m \/ b # c => t[k][b] = tree[k][b]
    BY <1>1, <2>1, DocPut DEF TypeOK
  <2>3. tree' = t OBVIOUS
  <2> HIDE DEF m, t
  <2>4. tree' \in [Links -> [Copies -> Doc]] BY <2>2, <2>3
  <2>5. tree'[m][c] = d BY <2>2, <2>3
  <2>6. ASSUME NEW k \in Links, NEW b \in Copies, k # m \/ b # c
        PROVE  tree'[k][b] = tree[k][b]
    BY <2>2, <2>3, <2>6
  <2> QED BY <2>4, <2>5, <2>6
<1>3. Busy(e) BY DEF Busy, Touching
<1>4. m \notin met => m \in local BY DEF ExportInv, Held
<1>5. exp'["manual"].at # "delete"
  BY DEF ExportInv, TypeOK, Exporters
<1>6. TypeOK' BY <1>2, <1>5 DEF ExportInv, TypeOK, queueing, Runs
<1>7. Sole' BY <1>1, <1>3 DEF ExportInv, Sole, Busy, Of
<1>8. Held'
  <2>1. ASSUME NEW o \in Exporters, o # e
        PROVE /\ Busy(o)' => st'[Of(o)'] # "unfinished"
              /\ Of(o)' \notin met' /\ exp'[o].at \in Touching => Of(o)' \in local'
    BY <2>1 DEF ExportInv, Held, Busy, Of, queueing
  <2>2. ASSUME NEW o \in Exporters, o # e, Of(o)' \notin met', exp'[o].at = "delete"
        PROVE  MyDoc(o)'.content = "whole"
    <3>1. exp'[o] = exp[o] /\ Of(o) \notin met /\ exp[o].at = "delete" /\ Busy(o)
      BY <2>2 DEF Of, Busy
    <3>2. Of(o) # m BY <1>3, <2>2, <3>1 DEF ExportInv, Sole
    <3>3. Of(o) \in Links /\ exp[o].doc \in Copies BY RunTyped DEF ExportInv
    <3>4. MyDoc(o)' = MyDoc(o)
      BY <1>2, <3>1, <3>2, <3>3 DEF MyDoc, Of
    <3> QED BY <2>2, <3>1, <3>4 DEF ExportInv, Held
  <2>3. /\ Busy(e)' => st'[Of(e)'] # "unfinished"
        /\ Of(e)' \notin met' /\ exp'[e].at \in Touching => Of(e)' \in local'
        /\ exp'[e].at # "delete"
    BY <1>1, <1>3, <1>4 DEF ExportInv, Held, Busy, Of, queueing, Touching
  <2> QED BY <2>1, <2>2, <2>3 DEF Held
<1>9. Ahead' BY DEF ExportInv, Ahead, queueing
<1>10. Kept'
  <2>1. \A k \in Links : k # m => Saved(k)' = Saved(k) BY <1>2 DEF Saved
  <2> QED BY <1>4, <2>1 DEF ExportInv, Kept, queueing
<1>11. Tidy'
  <2> SUFFICES ASSUME NEW k \in Links, NEW b \in Copies, NEW o \in Exporters,
                      Draft(tree'[k][b]), tree'[k][b].by = o
               PROVE  /\ exp'[o].link = k /\ exp'[o].doc = b
                      /\ exp'[o].at \in {"copy", "verify"}
                      /\ tree'[k][b].content = "empty" => exp'[o].at = "copy"
    BY DEF Tidy, Draft, Of
  <2>1. CASE k = m /\ b = c BY <1>1, <1>2, <2>1
  <2>2. CASE k # m \/ b # c
    <3>1. tree'[k][b] = tree[k][b] BY <1>2, <2>2
    <3>2. o # e BY <2>2, <3>1
    <3> QED BY <3>1, <3>2 DEF ExportInv, Tidy, Of
  <2> QED BY <2>1, <2>2
<1> QED BY <1>6, <1>7, <1>8, <1>9, <1>10, <1>11 DEF ExportInv

---------------------------------------------------------------------------
(* SafMover.export *)

LEMMA CheckKeeps ==
  ASSUME ExportInv, NEW e \in Exporters, CheckGone(e) \/ CheckThere(e) \/ CreateFails(e)
  PROVE  ExportInv'
<1>1. Busy(e) /\ exp[e].at \notin {"copy", "verify"}
  BY DEF CheckGone, CheckThere, CreateFails, At, Busy
<1>2. UNCHANGED <<queueing, local, tree, exported, met>>
  BY DEF CheckGone, CheckThere, CreateFails, LeftForLater
<1>3. CASE CheckThere(e)
  <2>1. "replace" \in Stages /\ Stage(e, "replace") /\ Of(e) \in local
    BY <1>3 DEF CheckThere, Stages
  <2> QED BY <1>1, <1>2, <2>1, NoDraftYet, QuietStep
<1>4. CASE CheckGone(e) \/ CreateFails(e)
  <2>1. "idle" \in Stages /\ Stage(e, "idle") /\ "idle" \notin Touching
    BY <1>4 DEF CheckGone, CreateFails, Stages, Touching
  <2> QED BY <1>1, <1>2, <2>1, NoDraftYet, QuietStep
<1> QED BY <1>3, <1>4

LEMMA ReplaceKeeps ==
  ASSUME ExportInv, NEW e \in Exporters, Replace(e)
  PROVE  ExportInv'
<1>1. /\ exp[e].at = "replace" /\ Stage(e, "create") /\ "create" \in Stages
      /\ tree' = [tree EXCEPT ![Of(e)][0] = NoDoc]
      /\ UNCHANGED <<queueing, local, exported, met>>
  BY DEF Replace, At, Stages
<1>2. /\ exp' \in [Exporters -> Runs] /\ exp'[e].at = "create" /\ exp'[e].link = exp[e].link
      /\ \A o \in Exporters : o # e => exp'[o] = exp[o]
  BY <1>1, StageTaken DEF ExportInv
<1>3. \A l \in Links, c \in Copies : Draft(tree[l][c]) => tree[l][c].by # e
  BY <1>1, NoDraftYet
<1>4. exp[e].at \in Touching \ {"delete"} /\ 0 \in Copies
  BY <1>1 DEF Touching, Copies
<1>5. \A l \in Links, b \in Copies :
        (l # Of(e) \/ b # 0) /\ Draft(tree[l][b]) => tree[l][b].by # e
  BY <1>3
<1>6. exp'[e].at \in {"idle", "create", "copy", "verify"} BY <1>2
<1> QED BY <1>1, <1>2, <1>4, <1>5, <1>6, NoDocTyped, WritingStep

LEMMA CreateKeeps ==
  ASSUME ExportInv, NEW e \in Exporters, Create(e)
  PROVE  ExportInv'
<1> DEFINE d == [content |-> "empty", by |-> e]
<1>1. exp[e].at = "create" /\ UNCHANGED <<queueing, local, exported, met>>
  BY DEF Create, At
<1>2. PICK c \in Copies :
        /\ tree' = [tree EXCEPT ![Of(e)][c] = d]
        /\ exp' = [exp EXCEPT ![e].at = "copy", ![e].doc = c]
  BY DEF Create
<1>3. /\ exp' \in [Exporters -> Runs] /\ exp'[e].at = "copy" /\ exp'[e].doc = c
      /\ exp'[e].link = exp[e].link
      /\ \A o \in Exporters : o # e => exp'[o] = exp[o]
  BY <1>2 DEF ExportInv, TypeOK, Runs, Stages
<1>4. \A l \in Links, b \in Copies : Draft(tree[l][b]) => tree[l][b].by # e
  BY <1>1, NoDraftYet
<1>5. d \in Doc /\ d.by = e BY DEF Doc
<1>6. exp[e].at \in Touching \ {"delete"} BY <1>1 DEF Touching
<1>7. \A l \in Links, b \in Copies :
        (l # Of(e) \/ b # c) /\ Draft(tree[l][b]) => tree[l][b].by # e
  BY <1>4
<1>8. /\ exp'[e].at \in {"idle", "create", "copy", "verify"}
      /\ exp'[e].at \in {"copy", "verify"}
  BY <1>3
<1>9. tree' = [tree EXCEPT ![Of(e)][c] = d] BY <1>2
<1> HIDE DEF d
<1>10. Draft(d) => /\ d.by = e /\ exp'[e].doc = c /\ exp'[e].at \in {"copy", "verify"}
                   /\ d.content = "empty" => exp'[e].at = "copy"
  BY <1>3, <1>5
<1> QED BY <1>1, <1>3, <1>5, <1>6, <1>7, <1>8, <1>9, <1>10, WritingStep

\* A copy writes to the document its export made; to another's, or to none, it
\* writes nothing, and then it has no draft of its own either.
LEMMA CopyKeeps ==
  ASSUME ExportInv, NEW e \in Exporters, NEW content \in {"short", "whole"},
         Copy(e, content)
  PROVE  ExportInv'
<1> DEFINE b == exp[e].doc
           d == [MyDoc(e) EXCEPT !.content = content]
<1>1. /\ exp[e].at = "copy" /\ Of(e) \in local /\ Stage(e, "verify") /\ "verify" \in Stages
      /\ UNCHANGED <<queueing, local, exported, met>>
  BY DEF Copy, At, Stages
<1>2. /\ exp' \in [Exporters -> Runs] /\ exp'[e].at = "verify"
      /\ exp'[e].link = exp[e].link /\ exp'[e].doc = b
      /\ \A o \in Exporters : o # e => exp'[o] = exp[o]
  BY <1>1, StageTaken DEF ExportInv
<1>3. Of(e) \in Links /\ b \in Copies /\ MyDoc(e) \in Doc BY RunTyped DEF ExportInv
<1>4. CASE MyDoc(e).by = e /\ MyDoc(e) # NoDoc
  <2>1. tree' = [tree EXCEPT ![Of(e)][b].content = content] BY <1>4 DEF Copy
  <2>2. tree' = [tree EXCEPT ![Of(e)][b] = d]
    <3>1. tree' = [tree EXCEPT ![Of(e)] =
                     [tree[Of(e)] EXCEPT ![b] = [tree[Of(e)][b] EXCEPT !.content = content]]]
      BY <2>1, Zenon
    <3>2. MyDoc(e) = tree[Of(e)][b] BY DEF MyDoc, Of
    <3> QED BY <3>1, <3>2, Zenon
  <2>3. d \in Doc /\ d.by = e /\ d.content = content BY <1>3, <1>4 DEF Doc
  <2>4. \A l \in Links, c \in Copies :
          (l # Of(e) \/ c # b) /\ Draft(tree[l][c]) => tree[l][c].by # e
    BY DEF ExportInv, Tidy
  <2>5. exp[e].at \in Touching \ {"delete"} BY <1>1 DEF Touching
  <2> HIDE DEF d, b
  <2> QED BY <1>1, <1>2, <1>3, <2>2, <2>3, <2>4, <2>5, WritingStep
<1>5. CASE ~(MyDoc(e).by = e /\ MyDoc(e) # NoDoc)
  <2>1. tree' = tree BY <1>5 DEF Copy
  <2>2. ~(Draft(MyDoc(e)) /\ MyDoc(e).by = e) BY <1>5, NoDocTyped
  <2>3. \A l \in Links, c \in Copies : Draft(tree[l][c]) => tree[l][c].by # e
    BY <2>2 DEF ExportInv, Tidy, MyDoc, Of
  <2>4. Busy(e) BY <1>1 DEF Busy
  <2> QED BY <1>1, <2>1, <2>3, <2>4, QuietStep
<1> QED BY <1>4, <1>5

\* The document in the place of a copy that failed is dropped, whosever it is.
LEMMA DropKeeps ==
  ASSUME ExportInv, NEW e \in Exporters, CopyFails(e) \/ VerifyFails(e)
  PROVE  ExportInv'
<1> DEFINE b == exp[e].doc
<1>1. /\ exp[e].at \in {"copy", "verify"} /\ Stage(e, "idle") /\ "idle" \in Stages
      /\ tree' = [tree EXCEPT ![Of(e)][b] = NoDoc]
      /\ UNCHANGED <<queueing, local, exported, met>>
  BY DEF CopyFails, VerifyFails, At, DocDeleted, LeftForLater, Stages
<1>2. /\ exp' \in [Exporters -> Runs] /\ exp'[e].at = "idle"
      /\ \A o \in Exporters : o # e => exp'[o] = exp[o]
  BY <1>1, StageTaken DEF ExportInv
<1>3. \A l \in Links, c \in Copies :
        (l # Of(e) \/ c # b) /\ Draft(tree[l][c]) => tree[l][c].by # e
  BY DEF ExportInv, Tidy
<1>4. exp[e].at \in Touching \ {"delete"} /\ b \in Copies
  BY <1>1, RunTyped DEF Touching, ExportInv
<1> HIDE DEF b
<1> QED BY <1>1, <1>2, <1>3, <1>4, NoDocTyped, WritingStep

\* What passes the comparison of lengths is no draft.
LEMMA VerifyKeeps ==
  ASSUME ExportInv, NEW e \in Exporters, Verify(e)
  PROVE  ExportInv'
<1> DEFINE s == IF IsMove(e) THEN "delete" ELSE "idle"
<1>1. /\ exp[e].at = "verify" /\ SameLength(e) /\ Stage(e, s)
      /\ UNCHANGED <<queueing, local, tree, exported, met>>
  BY DEF Verify, At
<1>2. s \in Stages /\ ~(e = "manual" /\ s = "delete") /\ s \in {"delete", "idle"}
  BY DEF Stages, IsMove
<1>3. Of(e) \notin met => Of(e) \in local
  BY <1>1 DEF ExportInv, Held, Touching
<1>4. Of(e) \notin met => MyDoc(e).content = "whole"
  BY <1>1, <1>3 DEF SameLength
<1>5. ~(Draft(MyDoc(e)) /\ MyDoc(e).by = e)
  <2> SUFFICES ASSUME Draft(MyDoc(e)), MyDoc(e).by = e PROVE FALSE
    OBVIOUS
  <2>1. MyDoc(e).content = "empty" BY <1>1 DEF SameLength, Draft
  <2>2. exp[e].at = "copy"
    BY <2>1, RunTyped DEF ExportInv, Tidy, MyDoc, Of
  <2> QED BY <1>1, <2>2
<1>6. \A l \in Links, c \in Copies : Draft(tree[l][c]) => tree[l][c].by # e
  BY <1>5 DEF ExportInv, Tidy, MyDoc, Of
<1>7. Busy(e) BY <1>1 DEF Busy
<1> HIDE DEF s
<1> QED BY <1>1, <1>2, <1>3, <1>4, <1>6, <1>7, QuietStep

\* The original goes when its copy is in the folder.
LEMMA DeleteOriginalKeeps ==
  ASSUME ExportInv, NEW e \in Exporters, DeleteOriginal(e)
  PROVE  ExportInv'
<1> DEFINE m == Of(e)
<1>1. /\ exp[e].at = "delete" /\ local' = local \ {m} /\ Stage(e, "idle") /\ "idle" \in Stages
      /\ exported' \in {exported, exported \cup {m}}
      /\ UNCHANGED <<queueing, tree, met>>
  BY DEF DeleteOriginal, At, Stages
<1>2. /\ exp' \in [Exporters -> Runs] /\ exp'["manual"].at # "delete" /\ exp'[e].at = "idle"
      /\ \A o \in Exporters : o # e => exp'[o] = exp[o]
  BY <1>1, StageTaken DEF ExportInv
<1>3. m \in Links /\ Busy(e) /\ exp[e].doc \in Copies
  BY <1>1, RunTyped DEF ExportInv, Busy
<1>4. TypeOK' BY <1>1, <1>2, <1>3 DEF ExportInv, TypeOK, queueing, Runs
<1>5. Sole' BY <1>1, <1>2 DEF ExportInv, Sole, Busy, Of
<1>6. st[m] # "unfinished" BY <1>3 DEF ExportInv, Held
<1>7. Held'
  <2>1. ASSUME NEW o \in Exporters, o # e
        PROVE /\ Busy(o)' => st'[Of(o)'] # "unfinished"
              /\ Of(o)' \notin met' /\ exp'[o].at \in Touching => Of(o)' \in local'
              /\ Of(o)' \notin met' /\ exp'[o].at = "delete" => MyDoc(o)'.content = "whole"
    <3>1. exp'[o] = exp[o] BY <1>2, <2>1
    <3>2. Of(o) \notin met /\ Busy(o) => Of(o) # m
      BY <1>3, <2>1 DEF ExportInv, Sole
    <3>3. exp[o].at \in Touching => Busy(o) BY DEF Touching, Busy
    <3> QED BY <1>1, <3>1, <3>2, <3>3 DEF ExportInv, Held, Busy, Of, MyDoc, queueing
  <2>2. exp'[e].at \notin Touching /\ ~Busy(e)' /\ exp'[e].at # "delete"
    BY <1>2 DEF Touching, Busy
  <2> QED BY <2>1, <2>2 DEF Held
<1>8. Ahead' BY <1>1, <1>6 DEF ExportInv, Ahead, queueing
<1>9. Kept'
  <2>1. \A k \in Links : Saved(k)' = Saved(k) BY <1>1 DEF Saved
  <2>2. m \notin met => Saved(m)
    <3>1. m \notin met => MyDoc(e).content = "whole" BY <1>1 DEF ExportInv, Held
    <3> QED BY <1>3, <3>1 DEF Saved, MyDoc, Of
  <2> QED BY <1>1, <2>1, <2>2 DEF ExportInv, Kept, queueing
<1>10. Tidy' BY <1>1, <1>2 DEF ExportInv, Tidy, Of
<1> QED BY <1>4, <1>5, <1>7, <1>8, <1>9, <1>10 DEF ExportInv

LEMMA ExportKeeps ==
  ASSUME ExportInv, NEW e \in Exporters, ExportStep(e)
  PROVE  ExportInv'
BY CheckKeeps, ReplaceKeeps, CreateKeeps, CopyKeeps, DropKeeps, VerifyKeeps,
   DeleteOriginalKeeps DEF ExportStep

---------------------------------------------------------------------------
(* The queue, the collector and "Save to folder" *)

LEMMA QueueKeeps ==
  ASSUME ExportInv, NEW l \in Links, Finish(l) \/ Remove(l)
  PROVE  ExportInv'
<1>1. /\ st' \in [Links -> {"unfinished", "done", "gone"}]
      /\ st'[l] \in {"done", "gone"} /\ \A k \in Links : k # l => st'[k] = st[k]
      /\ st'[l] = "done" => l \in local'
      /\ local' = local \/ (local' = local \cup {l} /\ l \notin exported)
  <2>1. st \in [Links -> {"unfinished", "done", "gone"}] BY DEF ExportInv, TypeOK
  <2>2. CASE Finish(l) BY <2>1, <2>2 DEF ExportInv, Ahead, Finish
  <2>3. CASE Remove(l) BY <2>1, <2>3 DEF Remove
  <2> QED BY <2>2, <2>3
<1>2. fresh' \in BOOLEAN BY Zenon DEF Finish, Remove
<1>3. UNCHANGED <<tree, folder, serving, queue, snap, exported, exp, met>>
  BY DEF Finish, Remove
<1>4. TypeOK' BY <1>1, <1>2, <1>3 DEF ExportInv, TypeOK
<1>5. Sole' /\ Tidy' BY <1>3 DEF ExportInv, Sole, Tidy, Busy, Of
<1>6. Held'
  <2>1. \A e \in Exporters : Of(e) \in Links BY RunTyped DEF ExportInv
  <2> QED BY <1>1, <1>3, <2>1 DEF ExportInv, Held, Busy, Of, MyDoc
<1>7. Ahead' BY <1>1, <1>3 DEF ExportInv, Ahead
<1>8. Kept' BY <1>1, <1>3 DEF ExportInv, Kept, Saved
<1> QED BY <1>4, <1>5, <1>6, <1>7, <1>8 DEF ExportInv

LEMMA FlagKeeps ==
  ASSUME ExportInv, Publish \/ ChooseFolder \/ ServiceStarts
  PROVE  ExportInv'
<1>1. /\ fresh' \in BOOLEAN /\ folder' \in BOOLEAN /\ serving' \in BOOLEAN
      /\ UNCHANGED <<st, local, tree, queue, snap, exported, exp, met>>
  BY DEF Publish, ChooseFolder, ServiceStarts, ExportInv, TypeOK
<1>2. TypeOK' BY <1>1 DEF ExportInv, TypeOK
<1> QED BY <1>1, <1>2
     DEF ExportInv, Sole, Held, Ahead, Kept, Tidy, Busy, Of, MyDoc, Saved

\* The collector begins and ends a pass: what it is to move is finished, and
\* what it keeps as moved it had moved.
LEMMA PassKeeps ==
  ASSUME ExportInv, Collect \/ PassEnds
  PROVE  ExportInv'
<1>1. /\ queue' \subseteq snap' /\ snap' \subseteq Links /\ exported' \subseteq exported
      /\ \A l \in queue' : st[l] = "done"
      /\ UNCHANGED <<st, local, tree, folder, serving, exp, met>>
  <2>1. CASE Collect BY <2>1 DEF Collect
  <2>2. CASE PassEnds BY <2>2 DEF PassEnds
  <2> QED BY <2>1, <2>2
<1>2. fresh' \in BOOLEAN BY DEF Collect, PassEnds, ExportInv, TypeOK
<1>3. TypeOK' BY <1>1, <1>2 DEF ExportInv, TypeOK
<1>4. Sole' /\ Held' /\ Tidy'
  BY <1>1 DEF ExportInv, Sole, Held, Tidy, Busy, Of, MyDoc
<1>5. Ahead' BY <1>1, <1>3 DEF ExportInv, Ahead
<1>6. Kept' BY <1>1 DEF ExportInv, Kept, Saved
<1> QED BY <1>3, <1>4, <1>5, <1>6 DEF ExportInv

\* A file that has gone is one that was moved.
LEMMA SkipGoneKeeps ==
  ASSUME ExportInv, NEW l \in Links, SkipGone(l)
  PROVE  ExportInv'
<1>1. /\ l \in queue /\ l \notin local /\ queue' = queue \ {l}
      /\ exported' = exported \cup {l}
      /\ UNCHANGED <<st, local, tree, folder, serving, fresh, snap, exp, met>>
  BY DEF SkipGone
<1>2. TypeOK' BY <1>1 DEF ExportInv, TypeOK
<1>3. Sole' /\ Held' /\ Tidy'
  BY <1>1 DEF ExportInv, Sole, Held, Tidy, Busy, Of, MyDoc
<1>4. Ahead' BY <1>1 DEF ExportInv, Ahead
<1>5. Kept' BY <1>1 DEF ExportInv, Kept, Saved
<1> QED BY <1>2, <1>3, <1>4, <1>5 DEF ExportInv

LEMMA BeginKeeps ==
  ASSUME ExportInv, NEW e \in Exporters, ~Busy(e), NEW l \in Links, st[l] # "unfinished",
         Begin(e, l), queue' \subseteq queue,
         UNCHANGED <<st, folder, serving, fresh, snap, local, tree, exported>>
  PROVE  ExportInv'
<1> DEFINE r == [at |-> "check", link |-> l, doc |-> 0]
<1>1. r \in Runs /\ r.at = "check" /\ r.link = l BY DEF Runs, Stages, Copies
<1>2. /\ exp' = [exp EXCEPT ![e] = r]
      /\ met' = met \/ met' = met \cup {l}
      /\ (\E o \in Exporters : Busy(o) /\ Of(o) = l) => l \in met'
  BY DEF Begin, Busy, Of
<1> HIDE DEF r
<1>3. exp \in [Exporters -> Runs] BY DEF ExportInv, TypeOK, Runs
<1>4. /\ exp' \in [Exporters -> Runs] /\ exp'[e] = r
      /\ \A o \in Exporters : o # e => exp'[o] = exp[o]
  BY <1>1, <1>2, <1>3
<1>5. exp'["manual"].at # "delete"
  BY <1>1, <1>4 DEF ExportInv, TypeOK, Exporters
<1>6. TypeOK' BY <1>2, <1>4, <1>5 DEF ExportInv, TypeOK, Runs
<1>7. Sole'
  <2>1. \A o \in Exporters : o # e /\ Busy(o)' /\ Of(o)' = l => l \in met'
    BY <1>2, <1>4 DEF Busy, Of
  <2> QED BY <1>1, <1>2, <1>4, <2>1 DEF ExportInv, Sole, Busy, Of
<1>8. Held' BY <1>1, <1>2, <1>4 DEF ExportInv, Held, Busy, Of, MyDoc, Touching
<1>9. Ahead' /\ Kept' BY <1>2 DEF ExportInv, Ahead, Kept, Saved
<1>10. Tidy'
  <2>1. \A k \in Links, c \in Copies : Draft(tree[k][c]) => tree[k][c].by # e
    BY NoDraftYet DEF Busy
  <2> QED BY <1>4, <2>1 DEF ExportInv, Tidy, Of
<1> QED BY <1>6, <1>7, <1>8, <1>9, <1>10 DEF ExportInv

LEMMA MoveNextKeeps ==
  ASSUME ExportInv, NEW l \in Links, MoveNext(l)
  PROVE  ExportInv'
<1>1. /\ "auto" \in Exporters /\ ~Busy("auto") /\ Begin("auto", l) /\ queue' \subseteq queue
      /\ UNCHANGED <<st, folder, serving, fresh, snap, local, tree, exported>>
  BY DEF MoveNext, Exporters, Busy
<1>2. st[l] # "unfinished" BY DEF MoveNext, ExportInv, Ahead
<1> QED BY <1>1, <1>2, BeginKeeps

LEMMA SaveToFolderKeeps ==
  ASSUME ExportInv, NEW l \in Links, SaveToFolder(l)
  PROVE  ExportInv'
<1>1. /\ "manual" \in Exporters /\ ~Busy("manual") /\ Begin("manual", l)
      /\ st[l] # "unfinished" /\ queue' \subseteq queue
      /\ UNCHANGED <<st, folder, serving, fresh, snap, local, tree, exported>>
  BY DEF SaveToFolder, Exporters, Busy, At, queueing
<1> QED BY <1>1, BeginKeeps

---------------------------------------------------------------------------
(* The end of the service, and of the process *)

\* The export that was cut off takes its file and its document with it.
LEMMA ServiceStopsKeeps ==
  ASSUME ExportInv, ServiceStops
  PROVE  ExportInv'
<1> DEFINE m == Of("auto")
           b == exp["auto"].doc
           mine == /\ exp["auto"].at \in {"copy", "verify", "delete"}
                   /\ tree[m][b].by = "auto" /\ tree[m][b] # NoDoc
           d == IF mine THEN [tree[m][b] EXCEPT !.by = "cutoff"] ELSE tree[m][b]
<1>1. /\ serving' = FALSE /\ ~Busy("cutoff")
      /\ exp' = [exp EXCEPT !["auto"] = AtRest, !["cutoff"] = exp["auto"]]
      /\ queue' = {} /\ snap' = {} /\ exported' = {}
      /\ UNCHANGED <<st, local, folder, fresh, met>>
  BY DEF ServiceStops, At, Busy
<1>2. tree' = [tree EXCEPT ![m][b] = d]
  BY DEF ServiceStops
<1>3. /\ {"auto", "cutoff", "manual"} = Exporters
      /\ m \in Links /\ b \in Copies /\ tree[m][b] \in Doc
  BY RunTyped DEF ExportInv, MyDoc, Of, Exporters
<1>4. d \in Doc /\ d.content = tree[m][b].content BY <1>3 DEF Doc, Exporters
<1>5. /\ tree' \in [Links -> [Copies -> Doc]] /\ tree'[m][b] = d
      /\ \A k \in Links, c \in Copies : k # m \/ c # b => tree'[k][c] = tree[k][c]
  <2>1. tree \in [Links -> [Copies -> Doc]] BY DEF ExportInv, TypeOK
  <2>2. tree' = [tree EXCEPT ![m] = [tree[m] EXCEPT ![b] = d]] BY <1>2
  <2>3. d \in Doc BY <1>4
  <2> HIDE DEF d, mine, m, b
  <2>4. [tree[m] EXCEPT ![b] = d] \in [Copies -> Doc] BY <1>3, <2>1, <2>3
  <2> QED BY <1>3, <2>1, <2>2, <2>4
<1>6. \A k \in Links, c \in Copies : tree'[k][c].content = tree[k][c].content
  <2> HIDE DEF d, m, b
  <2> QED BY <1>4, <1>5
<1>7. /\ exp' \in [Exporters -> Runs] /\ exp'["cutoff"] = exp["auto"]
      /\ exp'["auto"] = AtRest /\ exp'["manual"] = exp["manual"]
  <2>1. exp \in [Exporters -> Runs] BY DEF ExportInv, TypeOK, Runs
  <2> HIDE DEF m, b, d
  <2> QED BY <1>1, <1>3, <2>1, RestTyped DEF Exporters
<1>8. AtRest.at = "idle" BY RestTyped
<1> HIDE DEF mine, d, m, b
<1>9. TypeOK' BY <1>1, <1>5, <1>7 DEF ExportInv, TypeOK, Runs
<1>10. Sole' BY <1>1, <1>3, <1>7, <1>8 DEF ExportInv, Sole, Busy, Of
<1>11. Held'
  <2>1. /\ Of("auto") \in Links /\ exp["auto"].doc \in Copies
        /\ Of("manual") \in Links /\ exp["manual"].doc \in Copies
    BY <1>3, RunTyped DEF ExportInv
  <2>2. MyDoc("cutoff")'.content = MyDoc("auto").content
    BY <1>6, <1>7, <2>1 DEF MyDoc, Of
  <2>3. MyDoc("manual")'.content = MyDoc("manual").content
    BY <1>6, <1>7, <2>1 DEF MyDoc, Of
  <2>4. /\ Busy("auto") => st[Of("auto")] # "unfinished"
        /\ Of("auto") \notin met /\ exp["auto"].at \in Touching => Of("auto") \in local
        /\ Of("auto") \notin met /\ exp["auto"].at = "delete" => MyDoc("auto").content = "whole"
        /\ Busy("manual") => st[Of("manual")] # "unfinished"
        /\ Of("manual") \notin met /\ exp["manual"].at \in Touching => Of("manual") \in local
        /\ Of("manual") \notin met /\ exp["manual"].at = "delete"
             => MyDoc("manual").content = "whole"
    BY <1>3 DEF ExportInv, Held
  <2>5. "idle" \notin Touching BY DEF Touching
  <2>6. \A o \in Exporters :
          /\ Busy(o)' => st'[Of(o)'] # "unfinished"
          /\ Of(o)' \notin met' /\ exp'[o].at \in Touching => Of(o)' \in local'
          /\ Of(o)' \notin met' /\ exp'[o].at = "delete" => MyDoc(o)'.content = "whole"
    BY <1>1, <1>3, <1>7, <1>8, <2>2, <2>3, <2>4, <2>5 DEF Busy, Of
  <2> QED BY <2>6 DEF Held
<1>12. Ahead' BY <1>1 DEF ExportInv, Ahead
<1>13. Kept'
  <2>1. \A k \in Links : Saved(k)' = Saved(k) BY <1>6 DEF Saved
  <2> QED BY <1>1, <2>1 DEF ExportInv, Kept
<1>14. Tidy'
  <2> SUFFICES ASSUME NEW k \in Links, NEW c \in Copies, NEW o \in Exporters,
                      Draft(tree'[k][c]), tree'[k][c].by = o
               PROVE  /\ exp'[o].link = k /\ exp'[o].doc = c
                      /\ exp'[o].at \in {"copy", "verify"}
                      /\ tree'[k][c].content = "empty" => exp'[o].at = "copy"
    BY DEF Tidy, Draft, Of
  <2>1. Draft(tree[k][c]) BY <1>6 DEF Draft
  <2>2. ASSUME NEW e \in Exporters, tree[k][c].by = e
        PROVE  /\ exp[e].link = k /\ exp[e].doc = c /\ exp[e].at \in {"copy", "verify"}
               /\ tree'[k][c].content = "empty" => exp[e].at = "copy"
    BY <1>6, <2>1, <2>2 DEF ExportInv, Tidy, Of
  <2>3. CASE tree[k][c].by = "auto"
    <3>1. /\ exp["auto"].link = k /\ exp["auto"].doc = c
          /\ exp["auto"].at \in {"copy", "verify"}
          /\ tree'[k][c].content = "empty" => exp["auto"].at = "copy"
      BY <1>3, <2>2, <2>3
    <3>2. mine /\ k = m /\ c = b
      BY <2>1, <2>3, <3>1, NoDocTyped DEF mine, m, b, Of
    <3>3. tree[k][c] \in Doc BY DEF ExportInv, TypeOK
    <3>4. tree'[k][c].by = "cutoff" BY <1>5, <3>2, <3>3 DEF d, Doc
    <3> QED BY <1>7, <3>1, <3>4
  <2>4. CASE tree[k][c].by # "auto"
    <3>1. tree'[k][c] = tree[k][c] BY <1>5, <2>4 DEF d, mine
    <3>2. o = "manual"
      BY <1>1, <1>3, <2>2, <2>4, <3>1 DEF Busy
    <3> QED BY <1>7, <2>2, <3>1, <3>2
  <2> QED BY <2>3, <2>4
<1> QED BY <1>9, <1>10, <1>11, <1>12, <1>13, <1>14 DEF ExportInv

LEMMA CrashKeeps ==
  ASSUME ExportInv, Crash
  PROVE  ExportInv'
<1>1. /\ serving' = FALSE /\ fresh' = FALSE
      /\ queue' = {} /\ snap' = {} /\ exported' = {}
      /\ exp' = [e \in Exporters |-> AtRest]
      /\ UNCHANGED <<st, local, folder, met>>
  BY DEF Crash
<1>2. /\ tree' \in [Links -> [Copies -> Doc]]
      /\ \A k \in Links, c \in Copies :
           /\ tree'[k][c].content = tree[k][c].content
           /\ tree'[k][c] = NoDoc \/ tree'[k][c].by = "dead"
  <2>1. tree \in [Links -> [Copies -> Doc]] BY DEF ExportInv, TypeOK
  <2>2. \A k \in Links, c \in Copies :
          /\ tree'[k][c] = IF tree[k][c] = NoDoc THEN NoDoc
                           ELSE [tree[k][c] EXCEPT !.by = "dead"]
          /\ tree[k][c] \in Doc
    BY <2>1 DEF Crash
  <2>3. \A k \in Links, c \in Copies :
          /\ tree'[k][c] \in Doc
          /\ tree'[k][c].content = tree[k][c].content
          /\ tree'[k][c] = NoDoc \/ tree'[k][c].by = "dead"
    <3> SUFFICES ASSUME NEW k \in Links, NEW c \in Copies
                 PROVE  /\ tree'[k][c] \in Doc
                        /\ tree'[k][c].content = tree[k][c].content
                        /\ tree'[k][c] = NoDoc \/ tree'[k][c].by = "dead"
      OBVIOUS
    <3>1. CASE tree[k][c] = NoDoc BY <2>2, <3>1, NoDocTyped
    <3>2. CASE tree[k][c] # NoDoc
      <4>1. tree'[k][c] = [tree[k][c] EXCEPT !.by = "dead"] /\ tree[k][c] \in Doc
        BY <2>2, <3>2
      <4> QED BY <4>1 DEF Doc
    <3> QED BY <3>1, <3>2
  <2>4. tree' = [k \in Links |-> [c \in Copies |-> tree'[k][c]]] BY DEF Crash
  <2> QED BY <2>3, <2>4
<1>3. exp' \in [Exporters -> Runs] /\ \A e \in Exporters : exp'[e].at = "idle"
  BY <1>1, RestTyped
<1>4. "manual" \in Exporters BY DEF Exporters
<1>5. TypeOK' BY <1>1, <1>2, <1>3, <1>4 DEF ExportInv, TypeOK, Runs
<1>6. Sole' /\ Held' BY <1>3 DEF Sole, Held, Busy, Touching
<1>7. Ahead' BY <1>1 DEF ExportInv, Ahead
<1>8. Kept'
  <2>1. \A k \in Links : Saved(k)' = Saved(k) BY <1>2 DEF Saved
  <2> QED BY <1>1, <2>1 DEF ExportInv, Kept
<1>9. Tidy'
  <2>1. \A k \in Links, c \in Copies, e \in Exporters :
          ~(Draft(tree'[k][c]) /\ tree'[k][c].by = e)
    BY <1>2, NoDocTyped DEF Exporters
  <2> QED BY <2>1 DEF Tidy, Draft
<1> QED BY <1>5, <1>6, <1>7, <1>8, <1>9 DEF ExportInv

---------------------------------------------------------------------------
(* The invariant, and what follows *)

LEMMA ExportStarts == Init => ExportInv
<1> SUFFICES ASSUME Init PROVE ExportInv
  OBVIOUS
<1>1. /\ st = [l \in Links |-> "unfinished"] /\ local = {}
      /\ tree = [l \in Links |-> [c \in Copies |-> NoDoc]]
      /\ folder \in BOOLEAN /\ serving \in BOOLEAN /\ fresh \in BOOLEAN
      /\ queue = {} /\ snap = {} /\ exported = {} /\ met = {}
      /\ exp = [e \in Exporters |-> AtRest]
  BY DEF Init
<1>2. exp \in [Exporters -> Runs] /\ \A e \in Exporters : exp[e].at = "idle"
  BY <1>1, RestTyped
<1>3. "manual" \in Exporters BY DEF Exporters
<1>4. tree \in [Links -> [Copies -> Doc]] BY <1>1, NoDocTyped
<1>5. TypeOK BY <1>1, <1>2, <1>3, <1>4 DEF TypeOK, Runs
<1>6. Sole /\ Held BY <1>2 DEF Sole, Held, Busy, Touching
<1>7. Ahead /\ Kept BY <1>1 DEF Ahead, Kept
<1>8. Tidy
  <2>1. \A k \in Links, c \in Copies : ~Draft(tree[k][c]) BY <1>1, NoDocTyped
  <2> QED BY <2>1 DEF Tidy
<1> QED BY <1>5, <1>6, <1>7, <1>8 DEF ExportInv

LEMMA ExportStutters == ExportInv /\ UNCHANGED vars => ExportInv'
BY DEF ExportInv, TypeOK, Sole, Held, Ahead, Kept, Tidy, Busy, Of, MyDoc, Saved, vars

LEMMA ExportNext == ExportInv /\ Next => ExportInv'
BY QueueKeeps, SaveToFolderKeeps, FlagKeeps, PassKeeps, SkipGoneKeeps, MoveNextKeeps,
   ExportKeeps, ServiceStopsKeeps, CrashKeeps DEF Next, Moving

\* The inductive invariant of the collector, the exports, the ends of the
\* service and the process.
THEOREM ExportInductive == Spec => []ExportInv
<1> QED BY ExportStarts, ExportNext, ExportStutters, PTL DEF Spec

\* For any links: a finished file on which no two exports have met is in app
\* storage or whole in the folder, and one the collector marked as handled is in
\* the folder and no longer kept (moveToTree, SafMover.export, DownloadService).
THEOREM NeverLostAlone == Spec => []NothingLost
<1>1. ExportInv => NothingLost
  BY DEF ExportInv, Kept, NothingLost
<1> QED BY <1>1, ExportInductive, PTL

\* An incomplete document has an export that is still at it, or died with the
\* process, even where two exports take each other's documents (SafMover.export).
THEOREM DraftsHaveOwners == Spec => []NoLitter
<1>1. ASSUME ExportInv PROVE NoLitter
  <2>1. ASSUME NEW l \in Links, NEW c \in Copies,
               tree[l][c].content \in {"empty", "short"}, tree[l][c].by # "dead"
        PROVE  \E e \in Exporters :
                 Of(e) = l /\ exp[e].doc = c /\ exp[e].at \in {"copy", "verify"}
    <3>1. tree[l][c] \in Doc BY <1>1 DEF ExportInv, TypeOK
    <3>2. tree[l][c].by \in Exporters BY <2>1, <3>1 DEF Doc
    <3> QED BY <1>1, <2>1, <3>2 DEF ExportInv, Tidy, Draft
  <2> QED BY <1>1, <2>1 DEF NoLitter, ExportInv
<1> QED BY <1>1, ExportInductive, PTL
=============================================================================
