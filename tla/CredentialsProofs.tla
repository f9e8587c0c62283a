------------------------- MODULE CredentialsProofs -------------------------
(* A save of the credentials is atomic, and the screen tells what the next   *)
(* request will use, for any number of jobs and visits.                      *)
EXTENDS Credentials, TLAPS

Before == {"idle", "ask", "unlink", "open"}

\* The file of a save: nobody's before it is created; then, unless another
\* saver came in between, under the temporary name until it is renamed.
Unborn(s) == pc[s] \in Before => credentials # s /\ tmp # s
Owned(s) ==
  s \notin met =>
    /\ pc[s] \in {"write", "rename"} => tmp = s /\ credentials # s
    /\ pc[s] = "rename" => content[s] = "whole"
Unreported(j) == pc[j] \in Before \cup {"write", "rename", "out"} => ~ok[j]
Apart == \A s, t \in Saving : s # t => s \in met

IInv ==
  /\ pc \in [Jobs -> Steps] /\ ok \in [Jobs -> BOOLEAN]
  /\ content \in [Files -> {"part", "whole"}]
  /\ {credentials, tmp} \subseteq Files \cup {Nothing}
  /\ \A s \in Savers : Unborn(s) /\ Owned(s)
  /\ \A j \in Jobs \ {Look} : Unreported(j)
  /\ Apart

\* Nothing is saved or reported yet.
LEMMA InitOK == Init => IInv
BY JobsAssumption
DEF Init, IInv, Unborn, Owned, Unreported, Apart, Saving, Before, InSaveRoot, Files, Savers, Jobs,
    Steps, Native

\* Jobs that leave the files alone and enter nothing new.
Withdraws(j) == pc'[j] = pc[j] \/ pc'[j] \in {"read", "show", "ended"}
Approaches(j) == pc[j] \in Before /\ pc'[j] \in {"ask", "unlink", "out"}

LEMMA Aside ==
  ASSUME IInv, UNCHANGED <<disk, ok>>, pc' \in [Jobs -> Steps],
         \A j \in Jobs \ {Look} : Withdraws(j) \/ Approaches(j)
  PROVE  IInv'
<1>1. \A j \in Savers : j \in Jobs \ {Look}
  BY JobsAssumption DEF Jobs, Savers
<1>2. Saving' \subseteq Saving
  BY <1>1 DEF Saving, InSaveRoot, Withdraws, Approaches
<1>3. Apart' BY <1>2 DEF IInv, Apart, disk
<1>4. \A s \in Savers : Unborn(s)' /\ Owned(s)'
  <2> SUFFICES ASSUME NEW s \in Savers PROVE Unborn(s)' /\ Owned(s)'
    OBVIOUS
  <2> QED BY <1>1 DEF IInv, Unborn, Owned, Withdraws, Approaches, Before, disk
<1>5. \A j \in Jobs \ {Look} : Unreported(j)'
  BY DEF IInv, Unreported, Withdraws, Approaches, Before
<1> QED BY <1>3, <1>4, <1>5 DEF IInv, disk

\* A call that returns, having touched no file but the temporary one's name.
LEMMA ReturnsOK ==
  ASSUME IInv, NEW j \in Jobs \ {Look}, NEW r \in BOOLEAN, Returns(j, r),
         UNCHANGED <<content, met>>,
         credentials' \in {credentials, tmp, Nothing}, tmp' \in {tmp, j, Nothing},
         tmp' \in Files \cup {Nothing},
         j \in Saving \/ (UNCHANGED tmp /\ credentials' \in {credentials, Nothing})
  PROVE  IInv'
<1>1. pc' \in [Jobs -> Steps] /\ ok' \in [Jobs -> BOOLEAN]
  BY DEF IInv, Returns, Goto, Steps
<1>2. pc'[j] \in {"read", "ended"} /\ \A i \in Jobs : i # j => pc'[i] = pc[i] /\ ok'[i] = ok[i]
  BY DEF IInv, Returns, Goto
<1>3. Savers \subseteq Jobs \ {Look} BY JobsAssumption DEF Jobs, Savers
<1>4. Apart'
  BY <1>2, <1>3 DEF IInv, Apart, Saving, InSaveRoot
<1>5. \A s \in Savers : Unborn(s)' /\ Owned(s)'
  <2> SUFFICES ASSUME NEW s \in Savers PROVE Unborn(s)' /\ Owned(s)'
    OBVIOUS
  <2>1. s # Nothing BY JobsAssumption
  <2>2. CASE s = j BY <2>2, <1>2 DEF Unborn, Owned, Before
  <2>3. CASE s # j
    <3>1. Unborn(s)' BY <2>1, <2>3, <1>2, <1>3 DEF IInv, Unborn
    <3>2. CASE pc[s] \notin {"write", "rename"} BY <3>1, <3>2, <2>3, <1>2, <1>3 DEF Owned
    <3>3. CASE pc[s] \in {"write", "rename"} /\ s \notin met
      <4>1. j \notin Saving BY <3>3, <2>3 DEF IInv, Apart, Saving, InSaveRoot
      <4> QED BY <4>1, <3>1, <3>3, <2>1, <2>3, <1>2, <1>3 DEF IInv, Owned
    <3> QED BY <3>1, <3>2, <3>3 DEF Owned
  <2> QED BY <2>2, <2>3
<1>6. \A i \in Jobs \ {Look} : Unreported(i)'
  BY <1>2 DEF IInv, Unreported, Before
<1> QED BY <1>1, <1>4, <1>5, <1>6, JobsAssumption DEF IInv

\* The steps of save_root before its last: the only ones that enter it, create the
\* temporary file or write to it.
LEMMA SaverStepOK ==
  ASSUME IInv, NEW s \in Savers,
         UnlinksTmp(s) \/ CreatesTmp(s) \/ WritesTmp(s)
  PROVE  IInv'
<1>1. Savers \subseteq Jobs \ {Look} /\ s # Nothing /\ s \in Files
  BY JobsAssumption DEF Jobs, Savers, Files
<1>2. pc' \in [Jobs -> Steps] /\ \A i \in Jobs : i # s => pc'[i] = pc[i]
  BY <1>1 DEF IInv, UnlinksTmp, CreatesTmp, WritesTmp, Goto, Steps, Native, InSaveRoot
<1>3. CASE UnlinksTmp(s)
  <2>1. pc[s] = "unlink" /\ pc'[s] = "open" /\ tmp' = Nothing
        /\ UNCHANGED <<credentials, content, ok>>
    BY <1>3, <1>1 DEF IInv, UnlinksTmp, Goto
  <2>2. Saving' = Saving \cup {s} /\ s \notin Saving
    BY <2>1, <1>1, <1>2 DEF Saving, InSaveRoot
  <2>3. met' = met \cup (IF Saving = {} THEN {} ELSE Saving \cup {s}) BY <1>3 DEF UnlinksTmp
  <2>4. Apart' BY <2>2, <2>3 DEF IInv, Apart
  <2>5. \A t \in Savers : Unborn(t)' BY <2>1, <1>1, <1>2, JobsAssumption DEF IInv, Unborn, Before
  <2>6. \A t \in Savers : Owned(t)'
    <3> SUFFICES ASSUME NEW t \in Savers, t \notin met', pc'[t] \in {"write", "rename"} PROVE FALSE
      BY DEF Owned
    <3>1. t \in Saving BY <2>1, <1>1, <1>2 DEF Saving, InSaveRoot
    <3> QED BY <3>1, <2>3
  <2>7. \A j \in Jobs \ {Look} : Unreported(j)' BY <2>1, <1>2 DEF IInv, Unreported, Before
  <2> QED BY <2>1, <2>4, <2>5, <2>6, <2>7, <1>2 DEF IInv
<1>4. CASE CreatesTmp(s)
  <2>1. pc[s] = "open" /\ pc'[s] = "write" /\ tmp' = s /\ UNCHANGED <<credentials, content, met, ok>>
    BY <1>4, <1>1 DEF IInv, CreatesTmp, Goto
  <2>2. Saving' = Saving /\ s \in Saving BY <2>1, <1>1, <1>2 DEF Saving, InSaveRoot
  <2>3. Apart' BY <2>1, <2>2 DEF IInv, Apart
  <2>4. \A t \in Savers : Unborn(t)' BY <2>1, <1>1, <1>2 DEF IInv, Unborn, Before
  <2>5. \A t \in Savers : Owned(t)'
    <3> SUFFICES ASSUME NEW t \in Savers PROVE Owned(t)' OBVIOUS
    <3>1. CASE t = s BY <3>1, <2>1 DEF IInv, Unborn, Owned, Before
    <3>2. CASE t # s
      <4>1. pc[t] \in {"write", "rename"} => t \in met
        BY <3>2, <2>2 DEF IInv, Apart, Saving, InSaveRoot
      <4> QED BY <4>1, <3>2, <2>1, <1>1, <1>2 DEF Owned
    <3> QED BY <3>1, <3>2
  <2>6. \A j \in Jobs \ {Look} : Unreported(j)' BY <2>1, <1>2 DEF IInv, Unreported, Before
  <2> QED BY <2>1, <2>3, <2>4, <2>5, <2>6, <1>1, <1>2 DEF IInv
<1>5. CASE WritesTmp(s)
  <2>1. pc[s] = "write" /\ pc'[s] = "rename" /\ UNCHANGED <<credentials, tmp, met, ok>>
        /\ content' = [content EXCEPT ![s] = "whole"]
    BY <1>5, <1>1 DEF IInv, WritesTmp, Goto
  <2>2. Saving' = Saving BY <2>1, <1>1, <1>2 DEF Saving, InSaveRoot
  <2>3. Apart' BY <2>1, <2>2 DEF IInv, Apart
  <2>4. \A t \in Savers : Unborn(t)' BY <2>1, <1>1, <1>2 DEF IInv, Unborn, Before
  <2>5. content' \in [Files -> {"part", "whole"}] /\ content'[s] = "whole"
        /\ \A t \in Files : t # s => content'[t] = content[t]
    BY <2>1, <1>1 DEF IInv
  <2>6. \A t \in Savers : Owned(t)'
    <3> SUFFICES ASSUME NEW t \in Savers PROVE Owned(t)' OBVIOUS
    <3>1. CASE t = s BY <3>1, <2>1, <2>5 DEF IInv, Owned
    <3>2. CASE t # s BY <3>2, <2>1, <2>5, <1>1, <1>2 DEF IInv, Owned, Files
    <3> QED BY <3>1, <3>2
  <2>7. \A j \in Jobs \ {Look} : Unreported(j)' BY <2>1, <1>2 DEF IInv, Unreported, Before
  <2> QED BY <2>1, <2>3, <2>4, <2>5, <2>6, <2>7, <1>2 DEF IInv
<1> QED BY <1>3, <1>4, <1>5

\* What the screen does touches no file.
LEMMA ScreenStepOK ==
  ASSUME IInv,
         \/ Enter \/ Leave \/ Crash
         \/ \E j \in Jobs : ReadsStatus(j) \/ ShowsStatus(j)
         \/ \E o \in SignOuts : PressSignOut(o)
         \/ \E s \in Savers : PressSave(s)
  PROVE  IInv'
<1>1. UNCHANGED <<disk, ok>>
  BY DEF Enter, Leave, Crash, ReadsStatus, ShowsStatus, PressSignOut, PressSave
<1>2. Look \in Jobs /\ SignOuts \subseteq Jobs /\ Savers \subseteq Jobs
  BY DEF Jobs, Savers
<1>3. \/ \E j \in Jobs, p \in Steps :
           /\ pc' = [pc EXCEPT ![j] = p]
           /\ j = Look \/ p \in {"show", "ended"} \/ (pc[j] = "idle" /\ p \in {"ask", "unlink", "out"})
      \/ \E E \in SUBSET Jobs : pc' = [j \in Jobs |-> IF j \in E THEN "ended" ELSE pc[j]]
  <2>1. CASE Enter BY <2>1, <1>2 DEF Enter, Goto, Steps
  <2>2. CASE Leave
    <3>1. PICK u \in SUBSET {j \in here : pc[j] \in {"ask", "unlink", "out"}} :
            pc' = [j \in Jobs |-> IF pc[j] \in {"read", "show"} \/ j \in u THEN "ended" ELSE pc[j]]
      BY <2>2 DEF Leave
    <3>2. pc' = [j \in Jobs |-> IF j \in {k \in Jobs : pc[k] \in {"read", "show"} \/ k \in u}
                                THEN "ended" ELSE pc[j]]
      BY <3>1
    <3> QED BY <3>2
  <2>3. CASE Crash BY <2>3 DEF Crash, Live
  <2>4. CASE \E j \in Jobs : ReadsStatus(j) \/ ShowsStatus(j)
    BY <2>4 DEF ReadsStatus, ShowsStatus, Goto, Steps
  <2>5. CASE \E o \in SignOuts : PressSignOut(o)
    BY <2>5, <1>2 DEF PressSignOut, Goto, Steps, Native
  <2>6. CASE \E s \in Savers : PressSave(s)
    BY <2>6, <1>2 DEF PressSave, Goto, Steps, Native
  <2> QED BY <2>1, <2>2, <2>3, <2>4, <2>5, <2>6
<1>4. pc' \in [Jobs -> Steps] BY <1>3 DEF IInv, Steps
<1>5. \A j \in Jobs \ {Look} : Withdraws(j) \/ Approaches(j)
  BY <1>3 DEF IInv, Withdraws, Approaches, Before
<1> QED BY <1>1, <1>4, <1>5, Aside

\* A native call goes on to save_root or returns.
LEMMA CallStepOK ==
  ASSUME IInv, NEW j \in Jobs \ {Look},
         \/ Answered(j) \/ Refused(j)
         \/ j \in Savers /\ (CreateFails(j) \/ WriteFails(j) \/ RenamesTmp(j) \/ RenameFails(j))
         \/ SignsOut(j)
  PROVE  IInv'
<1>1. CASE Answered(j) /\ ~Returns(j, FALSE)
  <2>1. pc[j] = "ask" /\ pc' = [pc EXCEPT ![j] = "unlink"] /\ UNCHANGED <<disk, ok>>
    BY <1>1 DEF Answered, Goto
  <2>2. pc' \in [Jobs -> Steps] BY <2>1 DEF IInv, Steps, Native
  <2>3. \A i \in Jobs \ {Look} : Withdraws(i) \/ Approaches(i)
    BY <2>1 DEF IInv, Withdraws, Approaches, Before
  <2> QED BY <2>1, <2>2, <2>3, Aside
<1>2. CASE Returns(j, FALSE) /\ UNCHANGED disk
  BY <1>2, ReturnsOK DEF IInv, disk
<1>3. CASE j \in Savers /\ (CreateFails(j) \/ WriteFails(j) \/ RenamesTmp(j) \/ RenameFails(j))
  <2>1. j \in Saving /\ j \in Files
    BY <1>3 DEF Saving, InSaveRoot, Files, CreateFails, WriteFails, RenamesTmp, RenameFails
  <2>2. Returns(j, TRUE) \/ Returns(j, FALSE)
    BY <1>3 DEF CreateFails, WriteFails, RenamesTmp, RenameFails
  <2>3. /\ UNCHANGED <<content, met>> /\ credentials' \in {credentials, tmp, Nothing}
        /\ tmp' \in {tmp, j, Nothing} /\ tmp' \in Files \cup {Nothing}
    BY <1>3, <2>1 DEF IInv, CreateFails, WriteFails, RenamesTmp, RenameFails
  <2> QED BY <2>1, <2>2, <2>3, ReturnsOK
<1>4. CASE SignsOut(j)
  BY <1>4, ReturnsOK DEF SignsOut, IInv
<1> QED BY <1>1, <1>2, <1>3, <1>4 DEF Answered, Refused

\* Every step keeps the invariant.
LEMMA StepOK == IInv /\ [Next]_vars => IInv'
<1> SUFFICES ASSUME IInv, [Next]_vars PROVE IInv'
  OBVIOUS
<1>1. Savers \subseteq Jobs \ {Look} /\ SignOuts \subseteq Jobs \ {Look}
  BY JobsAssumption DEF Jobs, Savers
<1>2. CASE UNCHANGED vars
  BY <1>2 DEF vars, disk, IInv, Unborn, Owned, Unreported, Apart, Saving
<1>3. CASE \E s \in Savers : UnlinksTmp(s) \/ CreatesTmp(s) \/ WritesTmp(s)
  BY <1>3, SaverStepOK
<1>4. CASE \E s \in Savers : \/ Answered(s) \/ Refused(s) \/ CreateFails(s) \/ WriteFails(s)
                             \/ RenamesTmp(s) \/ RenameFails(s)
  BY <1>4, <1>1, CallStepOK
<1>5. CASE \E o \in SignOuts : SignsOut(o)
  BY <1>5, <1>1, CallStepOK
<1>6. CASE \/ Enter \/ Leave \/ Crash
           \/ \E j \in Jobs : ReadsStatus(j) \/ ShowsStatus(j)
           \/ \E o \in SignOuts : PressSignOut(o)
           \/ \E s \in Savers : PressSave(s)
  BY <1>6, ScreenStepOK
<1> QED BY <1>2, <1>3, <1>4, <1>5, <1>6 DEF Next

\* The files of a save are its own until it is over, unless another saver is
\* in save_root with it.
THEOREM Inductive == Spec => []IInv
<1> QED BY InitOK, StepOK, PTL DEF Spec

---------------------------------------------------------------------------
(* What a step does to the credentials the app would load *)

Exempt == \E s \in met : pc'[s] # pc[s] /\ pc[s] \in InSaveRoot

\* A saver nobody met renames its own, whole file.
LEMMA RenameIsAtomic ==
  ASSUME IInv, NEW s \in Savers, RenamesTmp(s), s \notin met
  PROVE  Atomic(Savers \ met)
<1>1. pc[s] = "rename" /\ s \in Jobs /\ s \in Files /\ s # Nothing /\ s \in Jobs \ {Look}
  BY JobsAssumption DEF RenamesTmp, Jobs, Files, Savers
<1>2. tmp = s /\ content[s] = "whole" /\ ~ok[s]
  BY <1>1 DEF IInv, Owned, Unreported
<1>3. Loaded' = s
  BY <1>1, <1>2 DEF RenamesTmp, Loaded
<1>4. ok'[s] /\ \A t \in Jobs : t # s => ok'[t] = ok[t]
  BY <1>1 DEF RenamesTmp, Returns, IInv
<1>5. Savers \subseteq Jobs BY DEF Jobs
<1> QED BY <1>2, <1>3, <1>4, <1>5 DEF Atomic, SavedBy

\* A step that changes neither what is loaded nor what a saver reported.
LEMMA ElsewhereAtomic ==
  ASSUME IInv, Loaded' = Loaded, \A s \in Savers : ok'[s] => ok[s]
  PROVE  Atomic(Savers \ met)
BY DEF Atomic, SavedBy

\* Every step is atomic or is one of a saver that met another.
LEMMA StepAtomic == IInv /\ [Next]_vars => Exempt \/ Atomic(Savers \ met) \/ UNCHANGED vars
<1> SUFFICES ASSUME IInv, Next, ~Exempt PROVE Atomic(Savers \ met)
  OBVIOUS
<1>1. Savers \subseteq Jobs \ {Look} /\ SignOuts \subseteq Jobs \ {Look} /\ SignOuts \cap Savers = {}
  BY JobsAssumption DEF Jobs, Savers
<1>2. CASE \E s \in Savers : RenamesTmp(s)
  <2>1. PICK s \in Savers : RenamesTmp(s) BY <1>2
  <2>2. pc[s] \in InSaveRoot /\ pc'[s] # pc[s]
    BY <2>1, <1>1 DEF RenamesTmp, Returns, Goto, InSaveRoot, IInv
  <2>3. s \notin met BY <2>2 DEF Exempt
  <2> QED BY <2>1, <2>3, RenameIsAtomic
<1>3. CASE \E s \in Savers : WritesTmp(s)
  <2>1. PICK s \in Savers : WritesTmp(s) BY <1>3
  <2>2. pc[s] = "write" /\ pc'[s] = "rename" /\ ok' = ok /\ credentials' = credentials
        /\ content' = [content EXCEPT ![s] = "whole"]
    BY <2>1, <1>1 DEF WritesTmp, Goto, IInv
  <2>3. s \notin met BY <2>2 DEF Exempt, InSaveRoot
  <2>4. credentials # s BY <2>2, <2>3 DEF IInv, Owned
  <2>5. Loaded' = Loaded BY <2>2, <2>4 DEF Loaded, IInv
  <2> QED BY <2>2, <2>5, ElsewhereAtomic
<1>4. CASE \E o \in SignOuts : SignsOut(o)
  <2>1. PICK o \in SignOuts : SignsOut(o) BY <1>4
  <2>2. ~ok[o] BY <2>1, <1>1 DEF SignsOut, IInv, Unreported
  <2>3. Loaded' = Nothing /\ ok' = [ok EXCEPT ![o] = TRUE]
    BY <2>1 DEF SignsOut, Returns, Loaded
  <2>4. ok'[o] /\ \A s \in Savers : ok'[s] = ok[s] BY <2>3, <1>1 DEF IInv
  <2> QED BY <2>1, <2>2, <2>3, <2>4 DEF Atomic, SavedBy
<1>5. CASE \E s \in Savers : \/ Answered(s) \/ Refused(s) \/ UnlinksTmp(s) \/ CreatesTmp(s)
                             \/ CreateFails(s) \/ WriteFails(s) \/ RenameFails(s)
  <2>1. PICK s \in Savers : \/ Answered(s) \/ Refused(s) \/ UnlinksTmp(s) \/ CreatesTmp(s)
                            \/ CreateFails(s) \/ WriteFails(s) \/ RenameFails(s)
    BY <1>5
  <2>2. UNCHANGED <<credentials, content>>
    BY <2>1 DEF Answered, Refused, UnlinksTmp, CreatesTmp, CreateFails, WriteFails, RenameFails, disk
  <2>3. UNCHANGED ok \/ ok' = [ok EXCEPT ![s] = FALSE]
    BY <2>1 DEF Answered, Refused, UnlinksTmp, CreatesTmp, CreateFails, WriteFails, RenameFails, Returns
  <2>4. \A t \in Savers : ok'[t] => ok[t] BY <2>3, <1>1 DEF IInv
  <2> QED BY <2>2, <2>4, ElsewhereAtomic DEF Loaded
<1>6. CASE \/ Enter \/ Leave \/ Crash
           \/ \E j \in Jobs : ReadsStatus(j) \/ ShowsStatus(j)
           \/ \E o \in SignOuts : PressSignOut(o)
           \/ \E s \in Savers : PressSave(s)
  <2>1. UNCHANGED <<disk, ok>>
    BY <1>6 DEF Enter, Leave, Crash, ReadsStatus, ShowsStatus, PressSignOut, PressSave
  <2> QED BY <2>1, ElsewhereAtomic DEF Loaded, disk
<1> QED BY <1>2, <1>3, <1>4, <1>5, <1>6 DEF Next

\* However many jobs there are and however often the screen is left: a save
\* that no other saver meets replaces the credentials in one step or not at all.
THEOREM SavesAreAtomic == Spec => SavesAtomic
<1>1. IInv /\ [Next]_vars => [Exempt \/ Atomic(Savers \ met)]_vars
  BY StepAtomic
<1> QED BY <1>1, Inductive, PTL DEF Spec, SavesAtomic, Exempt

---------------------------------------------------------------------------
(* What the screen shows *)

\* Unless two jobs have overlapped: either nothing goes on and the screen is
\* right, or one job of this visit goes on and what it has read is still so.
Watched ==
  open /\ ~overlapped =>
    \/ Live = {} /\ status = Mode(Loaded)
    \/ \E j \in here : Live = {j} /\ (pc[j] = "show" => seen[j] = Mode(Loaded))

StatusInv == TypeOK /\ Watched

LEMMA JobsTyped ==
  /\ Look \in Jobs /\ Savers \subseteq Jobs /\ SignOuts \subseteq Jobs
  /\ Savers \subseteq Files
BY DEF Jobs, Savers, Files

LEMMA ModeTyped == Mode(Loaded) \in Modes
BY DEF Mode, Modes

LEMMA StatusStarts == Init => StatusInv
<1> SUFFICES ASSUME Init PROVE StatusInv
  OBVIOUS
<1>1. ~open /\ {open, busy, overlapped} \subseteq BOOLEAN BY Zenon DEF Init
<1>2. pc \in [Jobs -> Steps] /\ ok \in [Jobs -> BOOLEAN] /\ seen \in [Jobs -> Modes]
  BY DEF Init, Steps, Modes
<1>3. /\ {credentials, tmp} \subseteq Files \cup {Nothing}
      /\ content \in [Files -> {"part", "whole"}]
      /\ status \in Modes \cup {Unread} /\ here \subseteq Jobs /\ met \subseteq Savers
  BY DEF Init, Files
<1>4. visits \in 0 .. Visits BY JobsAssumption DEF Init
<1> QED BY <1>1, <1>2, <1>3, <1>4 DEF StatusInv, TypeOK, Watched

\* A job moves on from one native step to the next, or its call returns: while
\* it is the only one, the screen has still to hear from it.
LEMMA NativeWatched ==
  ASSUME StatusInv, NEW j \in Jobs, pc[j] \in Native, NEW p \in Native \cup {"read", "ended"},
         p = "ended" => j \notin here, Goto(j, p), UNCHANGED <<seen, screen>>
  PROVE  pc' \in [Jobs -> Steps] /\ Watched'
<1>1. /\ pc \in [Jobs -> Steps] /\ pc' = [pc EXCEPT ![j] = p] /\ p \in Steps
      /\ here \subseteq Jobs
  BY DEF StatusInv, TypeOK, Goto, Steps
<1>2. pc'[j] = p /\ \A k \in Jobs : k # j => pc'[k] = pc[k] BY <1>1
<1>3. j \in Live BY DEF Live, Native, InSaveRoot
<1>4. Watched'
  <2> SUFFICES ASSUME open, ~overlapped
               PROVE  \E k \in here : Live' = {k} /\ pc'[k] # "show"
    BY DEF Watched, screen
  <2>1. j \in here /\ Live = {j} BY <1>3 DEF StatusInv, Watched
  <2>2. Live' = {j} BY <1>2, <1>3, <2>1 DEF Live, Native, InSaveRoot
  <2>3. pc'[j] # "show" BY <1>2 DEF Native, InSaveRoot
  <2> QED BY <2>1, <2>2, <2>3
<1> QED BY <1>1, <1>4

\* The steps of the jobs that work on the files.
LEMMA FilesWatched ==
  ASSUME StatusInv, NEW j \in Jobs,
         \/ j \in Savers /\ ( \/ Answered(j) \/ Refused(j) \/ UnlinksTmp(j) \/ CreatesTmp(j)
                            \/ CreateFails(j) \/ WritesTmp(j) \/ WriteFails(j)
                            \/ RenamesTmp(j) \/ RenameFails(j) )
         \/ SignsOut(j)
  PROVE  StatusInv'
<1>1. /\ pc[j] \in Native /\ UNCHANGED <<seen, screen>>
      /\ \/ ok' = ok /\ \E p \in Native : Goto(j, p)
         \/ \E r \in BOOLEAN : Returns(j, r)
  BY DEF Answered, Refused, UnlinksTmp, CreatesTmp, CreateFails, WritesTmp, WriteFails,
         RenamesTmp, RenameFails, SignsOut, Returns, Native, InSaveRoot
<1>2. \E p \in Native \cup {"read", "ended"} : Goto(j, p) /\ (p = "ended" => j \notin here)
  BY <1>1 DEF Returns, Native, InSaveRoot
<1>3. pc' \in [Jobs -> Steps] /\ Watched' BY <1>1, <1>2, NativeWatched
<1>4. ok' \in [Jobs -> BOOLEAN] BY <1>1 DEF StatusInv, TypeOK, Returns
<1>5. /\ {credentials', tmp'} \subseteq Files \cup {Nothing}
      /\ content' \in [Files -> {"part", "whole"}] /\ met' \subseteq Savers
  <2>1. /\ credentials \in Files \cup {Nothing} /\ tmp \in Files \cup {Nothing}
        /\ content \in [Files -> {"part", "whole"}] /\ met \subseteq Savers
    BY DEF StatusInv, TypeOK
  <2>2. /\ credentials' \in {credentials, tmp, Nothing}
        /\ tmp' \in {tmp, Nothing} \/ (tmp' = j /\ j \in Savers)
        /\ content' = content \/ (j \in Savers /\ content' = [content EXCEPT ![j] = "whole"])
        /\ met' = met \/ (j \in Savers /\ met' \subseteq met \cup Saving \cup {j})
    BY DEF Answered, Refused, UnlinksTmp, CreatesTmp, CreateFails, WritesTmp, WriteFails,
           RenamesTmp, RenameFails, SignsOut, disk
  <2>3. Saving \subseteq Savers BY DEF Saving
  <2>4. content' \in [Files -> {"part", "whole"}] BY <2>1, <2>2
  <2> QED BY <2>1, <2>2, <2>3, <2>4, JobsTyped
<1> QED BY <1>1, <1>3, <1>4, <1>5 DEF StatusInv, TypeOK, screen

\* A job begins: alone, or the two are known to overlap.
LEMMA BeginsWatched ==
  ASSUME StatusInv, NEW j \in Jobs, NEW p \in Native \cup {"read"}, Goto(j, p), j \in here', overlapped' = (Live # {})
  PROVE  pc' \in [Jobs -> Steps] /\ Watched'
<1>1. pc \in [Jobs -> Steps] /\ pc' = [pc EXCEPT ![j] = p] /\ p \in Steps
  BY DEF StatusInv, TypeOK, Goto, Steps
<1>2. pc'[j] = p /\ \A k \in Jobs : k # j => pc'[k] = pc[k] BY <1>1
<1>3. Watched'
  <2> SUFFICES ASSUME Live = {} PROVE \E k \in here' : Live' = {k} /\ pc'[k] # "show"
    BY DEF Watched
  <2>1. Live' = {j} BY <1>2 DEF Live, Native, InSaveRoot
  <2>2. pc'[j] # "show" BY <1>2 DEF Native, InSaveRoot
  <2> QED BY <2>1, <2>2
<1> QED BY <1>1, <1>3

LEMMA PressWatched ==
  ASSUME StatusInv,
         \/ Enter
         \/ \E o \in SignOuts : PressSignOut(o)
         \/ \E s \in Savers : PressSave(s)
  PROVE  StatusInv'
<1>1. PICK j \in Jobs, p \in Native \cup {"read"} :
        /\ Goto(j, p) /\ j \in here' /\ here' \subseteq here \cup {j}
  BY JobsTyped DEF Enter, PressSignOut, PressSave, Native, InSaveRoot
<1>2. /\ overlapped' = (Live # {}) /\ UNCHANGED <<disk, ok, seen, status>>
      /\ open' \in BOOLEAN /\ busy' \in BOOLEAN /\ visits' \in 0 .. Visits
  <2>1. overlapped' = (Live # {}) /\ UNCHANGED <<disk, ok, seen, status>>
    BY Zenon DEF Enter, PressSignOut, PressSave
  <2>2. open' \in BOOLEAN /\ busy' \in BOOLEAN
    BY DEF Enter, PressSignOut, PressSave, StatusInv, TypeOK
  <2>3. visits' = visits \/ (visits < Visits /\ visits' = visits + 1)
    BY DEF Enter, PressSignOut, PressSave
  <2>4. visits' \in 0 .. Visits BY <2>3, JobsAssumption DEF StatusInv, TypeOK
  <2> QED BY <2>1, <2>2, <2>4
<1>3. pc' \in [Jobs -> Steps] /\ Watched' BY <1>1, <1>2, BeginsWatched
<1>4. overlapped' \in BOOLEAN BY <1>2
<1>5. here' \subseteq Jobs BY <1>1 DEF StatusInv, TypeOK
<1> QED BY <1>2, <1>3, <1>4, <1>5 DEF StatusInv, TypeOK, disk

LEMMA ReadsWatched ==
  ASSUME StatusInv, NEW j \in Jobs, ReadsStatus(j)
  PROVE  StatusInv'
<1>1. /\ pc[j] = "read" /\ pc' = [pc EXCEPT ![j] = "show"]
      /\ seen' = [seen EXCEPT ![j] = Mode(Loaded)] /\ UNCHANGED <<disk, ok, screen>>
  BY DEF ReadsStatus, Goto
<1>2. /\ pc' \in [Jobs -> Steps] /\ seen' \in [Jobs -> Modes]
      /\ pc'[j] = "show" /\ seen'[j] = Mode(Loaded)
      /\ \A k \in Jobs : k # j => pc'[k] = pc[k]
  BY <1>1, ModeTyped DEF StatusInv, TypeOK, Steps
<1>3. TypeOK' BY <1>1, <1>2 DEF StatusInv, TypeOK, disk, screen
<1>4. Mode(Loaded)' = Mode(Loaded) BY <1>1 DEF Mode, Loaded, disk
<1>5. Watched'
  <2> SUFFICES ASSUME open, ~overlapped
               PROVE  \E k \in here : Live' = {k} /\ seen'[k] = Mode(Loaded)'
    BY <1>1 DEF Watched, screen
  <2>1. j \in here /\ Live = {j} BY <1>1 DEF StatusInv, Watched, Live
  <2>2. Live' = {j} BY <1>1, <1>2, <2>1 DEF Live
  <2> QED BY <1>2, <1>4, <2>1, <2>2
<1> QED BY <1>3, <1>5 DEF StatusInv

LEMMA ShowsWatched ==
  ASSUME StatusInv, NEW j \in Jobs, ShowsStatus(j)
  PROVE  StatusInv'
<1>1. /\ pc[j] = "show" /\ pc' = [pc EXCEPT ![j] = "ended"]
      /\ status' = seen[j] /\ seen' = [seen EXCEPT ![j] = "anonymous"]
      /\ busy' = (busy /\ j \notin Savers)
      /\ UNCHANGED <<disk, ok, open, here, visits, overlapped>>
  BY DEF ShowsStatus, Goto
<1>2. /\ pc' \in [Jobs -> Steps] /\ seen' \in [Jobs -> Modes]
      /\ pc'[j] = "ended" /\ status' \in Modes
      /\ \A k \in Jobs : k # j => pc'[k] = pc[k]
  BY <1>1 DEF StatusInv, TypeOK, Steps, Modes
<1>3. busy' \in BOOLEAN BY <1>1
<1>4. TypeOK' BY <1>1, <1>2, <1>3 DEF StatusInv, TypeOK, disk
<1>5. Mode(Loaded)' = Mode(Loaded) BY <1>1 DEF Mode, Loaded, disk
<1>6. Watched'
  <2> SUFFICES ASSUME open, ~overlapped PROVE Live' = {} /\ status' = Mode(Loaded)'
    BY <1>1 DEF Watched
  <2>1. Live = {j} /\ seen[j] = Mode(Loaded) BY <1>1 DEF StatusInv, Watched, Live
  <2>2. Live' = {} BY <1>2, <2>1 DEF Live
  <2> QED BY <1>1, <1>5, <2>1, <2>2
<1> QED BY <1>4, <1>6 DEF StatusInv

\* The screen is left, by the user or with the process.
LEMMA LeavesWatched ==
  ASSUME StatusInv, Leave \/ Crash
  PROVE  StatusInv'
<1>1. /\ open' = FALSE /\ busy' = FALSE /\ status' = Unread /\ here' = {}
      /\ seen' = [k \in Jobs |-> "anonymous"] /\ UNCHANGED <<disk, ok, visits, overlapped>>
  BY DEF Leave, Crash
<1>2. pc' \in [Jobs -> Steps]
  <2>1. CASE Leave BY <2>1 DEF Leave, StatusInv, TypeOK, Steps
  <2>2. CASE Crash BY <2>2 DEF Crash, StatusInv, TypeOK, Steps
  <2> QED BY <2>1, <2>2
<1>3. seen' \in [Jobs -> Modes] BY <1>1 DEF Modes
<1>4. TypeOK' BY <1>1, <1>2, <1>3 DEF StatusInv, TypeOK, disk
<1> QED BY <1>1, <1>4 DEF StatusInv, Watched

LEMMA StatusStep == StatusInv /\ [Next]_vars => StatusInv'
<1> SUFFICES ASSUME StatusInv, [Next]_vars PROVE StatusInv'
  OBVIOUS
<1>1. CASE UNCHANGED vars
  BY <1>1 DEF StatusInv, TypeOK, Watched, Live, Mode, Loaded, vars, disk, screen
<1>2. CASE \E s \in Savers :
             \/ Answered(s) \/ Refused(s) \/ UnlinksTmp(s) \/ CreatesTmp(s) \/ CreateFails(s)
             \/ WritesTmp(s) \/ WriteFails(s) \/ RenamesTmp(s) \/ RenameFails(s)
  BY <1>2, JobsTyped, FilesWatched
<1>3. CASE \E o \in SignOuts : SignsOut(o)
  BY <1>3, JobsTyped, FilesWatched
<1>4. CASE \/ Enter
           \/ \E o \in SignOuts : PressSignOut(o)
           \/ \E s \in Savers : PressSave(s)
  BY <1>4, PressWatched
<1>5. CASE Leave \/ Crash \/ \E j \in Jobs : ReadsStatus(j) \/ ShowsStatus(j)
  BY <1>5, LeavesWatched, ReadsWatched, ShowsWatched
<1> QED BY <1>1, <1>2, <1>3, <1>4, <1>5 DEF Next

\* However many jobs there are and however often the screen is left and opened
\* again in the middle of a native call: when nothing goes on, the screen says
\* how the next request will sign in, unless two jobs had overlapped
\* (ArchiveOrgLoginScreen.kt, dlm_ia_load).
THEOREM StatusIsHonest == Spec => []StatusHonest
<1>1. StatusInv => StatusHonest
  BY DEF StatusInv, Watched, StatusHonest
<1>2. Spec => []StatusInv
  BY StatusStarts, StatusStep, PTL DEF Spec
<1> QED BY <1>1, <1>2, PTL
=============================================================================
