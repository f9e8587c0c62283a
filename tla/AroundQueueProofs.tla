------------------------ MODULE AroundQueueProofs ------------------------
(* What is around the queue: the links that come into it, and the file that  *)
(* it is kept in.                                                            *)
(*                                                                           *)
(* LinkIntake: whatever links are added, by however many calls, the queue    *)
(* beneath is driven as QueueScheduler says, and its theorems hold of the    *)
(* composition.                                                              *)
(*                                                                           *)
(* QueueStore: wherever a process dies, what is on disk is what the queue    *)
(* was to be but for the statements not yet issued (todo), and those come in *)
(* an order that never leaves a part file without a row, nor a reviewed link *)
(* without its package.  The invariant is StoreInv: "One statement" says     *)
(* that a statement keeps it, the sections up to "The verbs" that what every *)
(* verb issues is a plan that leads from its tables to the next ones, and    *)
(* "Opening and loading" that those two keep it, a failed load included.     *)
EXTENDS LinkIntake, QueueStore, QueueSchedulerProofs, WellFoundedInduction

\* The library's induction theorems take an operator; the least element of a set
\* is induction without one.
LEMMA LeastNat ==
  ASSUME NEW T, T \subseteq Nat, T # {}
  PROVE  \E n \in T : \A m \in T : n <= m
<1> DEFINE R == OpToRel(<, Nat)
<1>1. IsWellFoundedOn(R, Nat) BY NatLessThanWellFounded
<1>2. \A i, j \in Nat : <<i, j>> \in R <=> i < j BY DEF OpToRel
<1> HIDE DEF R
<1>3. PICK n \in T : \A m \in T : ~ (<<m, n>> \in R) BY <1>1, WFMin
<1>4. n \in Nat /\ \A m \in T : m \in Nat /\ ~ (m < n) BY <1>2, <1>3
<1>5. \A m \in T : n <= m
  <2> SUFFICES ASSUME NEW m \in T PROVE n <= m
    OBVIOUS
  <2>1. m \in Nat /\ ~ (m < n) BY <1>4
  <2> QED BY SMT, <1>4, <2>1
<1> QED BY <1>5

---------------------------------------------------------------------------
(* LinkIntake *)

\* What a call carries from one suspension point to the next: it stores as
\* many files as it found, which is some.
CarriedCall == [pc : {"idle"} \cup Resolving \cup Stored \cup Over,
                url : Urls, files : 0 .. MaxGrab,
                id : Int, ran : BOOLEAN, raw : BOOLEAN]
Carried ==
  /\ calls \in [Calls -> CarriedCall]
  /\ \A c \in Calls : calls[c].pc = "store" => calls[c].files > 0
  /\ \A c \in Calls : calls[c].raw => calls[c].ran

IntakeInv == IInv /\ Carried

LEMMA IntakeStarts == IntakeInit => IntakeInv
BY IntakeAssumption, BoundsAssumption, InitOK DEF IntakeInit, IntakeInv, Carried, CarriedCall

\* A step of a call is a verb of the queue or leaves the queue alone.
LEMMA CallDrivesQueue ==
  ASSUME Carried, NEW c \in Calls, CallStep(c)
  PROVE  [Next]_vars
<1>1. CASE Stages(c)
  <2>1. calls[c].files \in 1 .. MaxGrab
    BY <1>1, IntakeAssumption, BoundsAssumption DEF Stages, At, Carried, CarriedCall
  <2> QED BY <1>1, <2>1 DEF Stages, Next, Linkgrabber
<1>2. CASE AddsOne(c) BY <1>2 DEF AddsOne, Next, Linkgrabber
<1>3. CASE ConfirmsOwn(c)
  <2>1. calls[c].id \in StagedPackages => calls[c].id \in DOMAIN pkgs BY DEF StagedPackages
  <2>2. ConfirmPackage(calls[c].id, TRUE) => calls[c].id \in StagedPackages
    BY DEF ConfirmPackage
  <2> QED BY <1>3, <2>1, <2>2 DEF ConfirmsOwn, ConfirmGrabbed, Next, Linkgrabber
<1>4. CASE NativeReturns(c)
  BY <1>4 DEF NativeReturns, ArchiveAnswers, FileAnswers, PageAsksYtdlp, Finished
<1>5. CASE EntersInit(c) \/ Unpacked(c) \/ EnsuresService(c) \/ UnwindsStore(c)
  BY <1>5 DEF EntersInit, Unpacked, EnsuresService, UnwindsStore
<1>6. CASE UnpackFails(c) \/ YtdlpAnswers(c) \/ UnwindsResolve(c)
  BY <1>6 DEF UnpackFails, YtdlpAnswers, UnwindsResolve, Finished
<1> QED BY <1>1, <1>2, <1>3, <1>4, <1>5, <1>6 DEF CallStep

LEMMA IntakeDrivesQueue == Carried /\ IntakeNext => [Next]_vars
<1> SUFFICES ASSUME Carried, IntakeNext PROVE [Next]_vars
  OBVIOUS
<1>1. CASE \E c \in Calls : CallStep(c) BY <1>1, CallDrivesQueue
<1>2. CASE \E c \in Calls, u \in Urls : Begin(c, u) BY <1>2 DEF Begin
<1>3. CASE ClearActivity \/ PreparedElsewhere \/ Close
  BY <1>3 DEF ClearActivity, PreparedElsewhere, Close
<1>4. CASE Reviews
  BY <1>4, BoundsAssumption DEF Reviews, Next, Linkgrabber
<1>5. CASE Death BY <1>5 DEF Death, Next
<1> QED BY <1>1, <1>2, <1>3, <1>4, <1>5 DEF IntakeNext

\* A step of one call keeps what every call carries if it does for that call.
LEMMA OneCarries ==
  ASSUME Carried, NEW c \in Calls, NEW r \in CarriedCall,
         r.pc = "store" => r.files > 0, r.raw => r.ran, calls' = [calls EXCEPT ![c] = r]
  PROVE  Carried'
<1>1. calls' \in [Calls -> CarriedCall] BY DEF Carried
<1>2. \A d \in Calls : calls'[d] = IF d = c THEN r ELSE calls[d] BY DEF Carried
<1>3. ASSUME NEW d \in Calls
      PROVE  (calls'[d].pc = "store" => calls'[d].files > 0) /\ (calls'[d].raw => calls'[d].ran)
  <2>1. CASE d = c
    <3>1. calls'[d] = r BY <1>2, <2>1
    <3> QED BY <3>1
  <2>2. CASE d # c
    <3>1. calls'[d] = calls[d] BY <1>2, <2>2
    <3> QED BY <3>1 DEF Carried
  <2> QED BY <2>1, <2>2
<1> QED BY <1>1, <1>3 DEF Carried

\* A result keeps what a call carries: a page is taken for a file only by a
\* call for which yt-dlp ran.
LEMMA ResultCarries ==
  ASSUME Carried, NEW c \in Calls, NEW n \in 0 .. MaxGrab,
         NEW ran \in BOOLEAN, NEW raw \in BOOLEAN, raw => ran, Result(c, n, ran, raw)
  PROVE  Carried'
<1> DEFINE r == [calls[c] EXCEPT !.pc = IF n > 0 THEN "store" ELSE "ended",
                                 !.files = n, !.ran = ran, !.raw = raw]
<1>1. calls[c] \in CarriedCall BY DEF Carried
<1>2. r \in CarriedCall BY <1>1 DEF CarriedCall, Stored, Over
<1>3. r.pc = "store" => r.files > 0 BY <1>1 DEF CarriedCall
<1>4. r.raw = raw /\ r.ran = ran BY <1>1 DEF CarriedCall
<1>5. calls' = [calls EXCEPT ![c] = r] BY DEF Result
<1> HIDE DEF r
<1> QED BY <1>2, <1>3, <1>4, <1>5, OneCarries

LEMMA GotoCarries ==
  ASSUME Carried, NEW c \in Calls,
         NEW p \in {"idle"} \cup Resolving \cup Stored \cup Over, p # "store", Goto(c, p)
  PROVE  Carried'
BY DEF Carried, CarriedCall, Goto

LEMMA ReturnedCarries ==
  ASSUME Carried, NEW c \in Calls, NEW p \in {"ended", "confirm", "service"}, NEW id \in Int,
         Returned(c, p, id)
  PROVE  Carried'
<1> DEFINE r == [calls[c] EXCEPT !.pc = p, !.id = id]
<1>1. calls[c] \in CarriedCall /\ (calls[c].raw => calls[c].ran) BY DEF Carried
<1>2. r \in CarriedCall BY <1>1 DEF CarriedCall, Stored, Over
<1>3. r.pc # "store" BY <1>1 DEF CarriedCall
<1>4. r.raw = calls[c].raw /\ r.ran = calls[c].ran BY <1>1 DEF CarriedCall
<1>5. calls' = [calls EXCEPT ![c] = r] BY <1>1 DEF Returned, Carried
<1> HIDE DEF r
<1> QED BY <1>1, <1>2, <1>3, <1>4, <1>5, OneCarries

LEMMA BeginCarries ==
  ASSUME Carried, NEW c \in Calls, NEW u \in Urls, Begin(c, u)
  PROVE  Carried'
<1> DEFINE r == [calls[c] EXCEPT !.pc = "native", !.url = u]
<1>1. calls[c] \in CarriedCall /\ (calls[c].raw => calls[c].ran) BY DEF Carried
<1>2. r \in CarriedCall BY <1>1 DEF CarriedCall, Resolving
<1>3. r.pc # "store" BY <1>1 DEF CarriedCall
<1>4. r.raw = calls[c].raw /\ r.ran = calls[c].ran BY <1>1 DEF CarriedCall
<1>5. calls' = [calls EXCEPT ![c] = r] BY <1>1 DEF Begin, Carried
<1> HIDE DEF r
<1> QED BY <1>1, <1>2, <1>3, <1>4, <1>5, OneCarries

LEMMA FallbackBounds ==
  ASSUME NEW c \in Calls, NEW rt
  PROVE  FallbackFiles(c, rt) \in 0 .. MaxGrab
BY IntakeAssumption, BoundsAssumption DEF FallbackFiles

LEMMA CallCarries ==
  ASSUME IntakeInv, NEW c \in Calls, CallStep(c)
  PROVE  Carried'
<1> USE DEF IntakeInv
<1>1. CASE NativeReturns(c)
  <2>1. CASE ArchiveAnswers(c)
    <3>1. PICK n \in 0 .. MaxGrab : Result(c, n, FALSE, FALSE)
      BY <2>1 DEF ArchiveAnswers
    <3> QED BY <3>1, ResultCarries
  <2>2. CASE FileAnswers(c)
    <3>1. 1 \in 0 .. MaxGrab BY IntakeAssumption, BoundsAssumption
    <3> QED BY <2>2, <3>1, ResultCarries DEF FileAnswers
  <2>3. CASE PageAsksYtdlp(c)
    BY <2>3, GotoCarries DEF PageAsksYtdlp, Resolving
  <2> QED BY <1>1, <2>1, <2>2, <2>3 DEF NativeReturns
<1>2. CASE EntersInit(c)
  BY <1>2, GotoCarries DEF EntersInit, Resolving
<1>3. CASE Unpacked(c) \/ EnsuresService(c) \/ UnwindsStore(c) \/ UnwindsResolve(c)
  BY <1>3, GotoCarries DEF Unpacked, EnsuresService, UnwindsStore, UnwindsResolve, Resolving, Over
<1>4. CASE UnpackFails(c)
  <2> DEFINE n == FallbackFiles(c, "FAILED")
  <2>1. n = 0 BY DEF FallbackFiles
  <2>2. Result(c, n, FALSE, n > 0) BY <1>4 DEF UnpackFails
  <2>3. n \in 0 .. MaxGrab /\ (n > 0) = FALSE BY <2>1, FallbackBounds
  <2> HIDE DEF n
  <2> QED BY <2>2, <2>3, ResultCarries
<1>5. CASE YtdlpAnswers(c)
  <2>1. ASSUME NEW n \in 0 .. MaxGrab, Result(c, n, TRUE, FALSE)
        PROVE  Carried'
    BY <2>1, ResultCarries
  <2> DEFINE k == FallbackFiles(c, runtime)
  <2>2. k \in 0 .. MaxGrab /\ (k > 0) \in BOOLEAN BY FallbackBounds
  <2>3. CASE Result(c, k, TRUE, k > 0)
    <3> HIDE DEF k
    <3> QED BY <2>2, <2>3, ResultCarries
  <2> QED BY <1>5, <2>1, <2>3 DEF YtdlpAnswers
<1>6. CASE Stages(c) \/ AddsOne(c)
  <2>1. nextPkg \in Int /\ nextId \in Int /\ -1 \in Int
    BY BoundsAssumption DEF IInv, Core, GlobalOK
  <2>2. \E p \in {"ended", "confirm", "service"}, id \in Int : Returned(c, p, id)
    BY <1>6, <2>1 DEF Stages, AddsOne
  <2> QED BY <2>2, ReturnedCarries
<1>7. CASE ConfirmsOwn(c)
  BY <1>7, GotoCarries DEF ConfirmsOwn, Stored
<1> QED BY <1>1, <1>2, <1>3, <1>4, <1>5, <1>6, <1>7 DEF CallStep

LEMMA IntakeCarries == IntakeInv /\ IntakeNext => Carried'
<1> SUFFICES ASSUME IntakeInv, IntakeNext PROVE Carried'
  OBVIOUS
<1> USE DEF IntakeInv
<1>1. CASE \E c \in Calls : CallStep(c) BY <1>1, CallCarries
<1>2. CASE \E c \in Calls, u \in Urls : Begin(c, u)
  BY <1>2, BeginCarries
<1>3. CASE ClearActivity \/ PreparedElsewhere \/ Close \/ Reviews
  BY <1>3 DEF ClearActivity, PreparedElsewhere, Close, Reviews, intakeVars, Carried
<1>4. CASE Death BY ZenonT(60), <1>4 DEF Death, Carried, CarriedCall, Over
<1> QED BY <1>1, <1>2, <1>3, <1>4 DEF IntakeNext

LEMMA IntakeInductive == IntakeSpec => []IntakeInv
<1>1. IntakeInv /\ [IntakeNext]_allVars => IntakeInv'
  <2>1. IntakeInv /\ IntakeNext => IntakeInv'
    <3>1. IInv /\ [Next]_vars => IInv'
      BY LinkgrabberKeeps, LinkVerbsKeep, GlobalVerbsKeep, SystemKeeps, RestartInOrder,
         StutterKeeps DEF Next
    <3> QED BY <3>1, IntakeDrivesQueue, IntakeCarries DEF IntakeInv
  <2>2. IntakeInv /\ UNCHANGED allVars => IntakeInv'
    BY StutterKeeps DEF IntakeInv, allVars, intakeVars, Carried
  <2> QED BY <2>1, <2>2
<1> QED BY IntakeStarts, <1>1, PTL DEF IntakeSpec

\* The composition implements QueueScheduler: crawl, addDirect and the user
\* reach the queue through its verbs only, with arguments those allow.
THEOREM IntakeUsesQueue == IntakeSpec => Spec
<1>1. IntakeInit => Init BY DEF IntakeInit
<1>2. IntakeInv /\ [IntakeNext]_allVars => [Next]_vars
  BY IntakeDrivesQueue DEF IntakeInv, allVars
<1> QED BY IntakeInductive, <1>1, <1>2, PTL DEF IntakeSpec, Spec

\* So what is added, confirmed or lost half-way leaves store and memory alike,
\* and every link in Review in a package that Review shows.
THEOREM IntakeKeepsReview == IntakeSpec => [](StoreMirrors /\ StagedPackageShown)
BY IntakeUsesQueue, MemoryMirrored, StagedHavePackage, PTL

\* directFallback's gate: a page becomes a plain file only after yt-dlp ran.
THEOREM FallbackGated == IntakeSpec => []FallbackOnlyAfterRun
<1>1. IntakeInv => FallbackOnlyAfterRun BY DEF IntakeInv, Carried, FallbackOnlyAfterRun
<1> QED BY IntakeInductive, <1>1, PTL

---------------------------------------------------------------------------
(* Whose files are confirmed *)

\* The files of a call of Download now stay its own: what grab returned is a
\* package that exists, and once it is confirmed no link is staged in it.
Owned(c) ==
  /\ calls[c].pc = "confirm" =>
       c \in Directs /\ (calls[c].id = -1 \/ calls[c].id \in 1 .. (nextPkg - 1))
  /\ c \in Directs /\ calls[c].pc \in {"service", "ended"} /\ Multi(c) /\ calls[c].id > 0 =>
       calls[c].id < nextPkg /\ \A i \in Staged : items[i].pkg # calls[c].id

OwnInv == IntakeInv /\ \A c \in Calls : Owned(c)

\* A link is staged by grab, in a package of its own, and stays in it: neither
\* a confirm nor a removal nor a restart puts a link into Review.
StagedBefore ==
  /\ nextPkg' >= nextPkg
  /\ \A i \in Staged' : items'[i].pkg = nextPkg \/ (i \in Staged /\ items'[i].pkg = items[i].pkg)

LEMMA GrabStages == ASSUME IInv, NEW k, Grab(k) PROVE StagedBefore
<1>1. nextPkg' = nextPkg + 1 /\ nextPkg \in Int
  BY DEF Grab, GrabInto, IInv, Core, GlobalOK
<1>2. ASSUME NEW i \in Staged'
      PROVE  items'[i].pkg = nextPkg \/ (i \in Staged /\ items'[i].pkg = items[i].pkg)
  BY <1>2 DEF Grab, GrabInto, ItemOf, NewRow, Staged
<1> QED BY <1>1, <1>2 DEF StagedBefore

LEMMA AddStages == ASSUME IInv, NEW d, Add(d) PROVE StagedBefore
<1>1. nextPkg' = nextPkg /\ nextPkg \in Int
  BY DEF Add, IInv, Core, GlobalOK
<1>2. ASSUME NEW i \in Staged' PROVE i \in Staged /\ items'[i].pkg = items[i].pkg
  BY <1>2 DEF Add, ItemOf, NewRow, Staged
<1> QED BY <1>1, <1>2 DEF StagedBefore

LEMMA AddFailsStages == IInv /\ AddFails => StagedBefore
BY DEF AddFails, IInv, Core, GlobalOK, Staged, StagedBefore

LEMMA ConfirmStages ==
  ASSUME IInv, NEW S, NEW P, NEW start, ConfirmLinks(S, P, start)
  PROVE  StagedBefore
<1>1. nextPkg' = nextPkg /\ nextPkg \in Int
  BY DEF ConfirmLinks, counters, IInv, Core, GlobalOK
<1>2. ASSUME NEW i \in Staged' PROVE i \in Staged /\ items'[i].pkg = items[i].pkg
  <2>1. i \in DOMAIN items /\ items[i] \in Item
    BY <1>2 DEF ConfirmLinks, Each, Staged, IInv, Core, LinkOK, Typed
  <2> QED BY <1>2, <2>1 DEF ConfirmLinks, Each, Staged, Item
<1> QED BY <1>1, <1>2 DEF StagedBefore

LEMMA LgDeleteStages ==
  ASSUME IInv, NEW R, NEW P, LgDelete(R, P)
  PROVE  StagedBefore
BY DEF LgDelete, Without, counters, IInv, Core, GlobalOK, Staged, StagedBefore

LEMMA RestartStages == IInv /\ Restart => StagedBefore
<1> SUFFICES ASSUME IInv, Restart PROVE StagedBefore
  OBVIOUS
<1>1. nextPkg' = nextPkg /\ nextPkg \in Int
  BY DEF Restart, IInv, Core, GlobalOK
<1>2. ASSUME NEW i \in Staged' PROVE i \in Staged /\ items'[i].pkg = items[i].pkg
  <2>1. i \in DOMAIN items /\ Mirrored(i) /\ rows[i] \in Row
    BY <1>2 DEF Restart, Staged, IInv, Core, GlobalOK, AllLoaded, LinkOK, Typed
  <2> QED BY <1>2, <2>1 DEF Restart, Staged, Loaded, ItemOf, Mirrored, Row
<1> QED BY <1>1, <1>2 DEF StagedBefore

LEMMA IntakeStages == ASSUME OwnInv, [IntakeNext]_allVars PROVE StagedBefore
<1> USE DEF OwnInv, IntakeInv
<1>1. ASSUME NEW c \in Calls, Stages(c) \/ AddsOne(c) PROVE StagedBefore
  BY <1>1, GrabStages, AddStages, AddFailsStages DEF Stages, AddsOne
<1>2. UNCHANGED vars => StagedBefore
  BY DEF vars, IInv, Core, GlobalOK, Staged, StagedBefore
<1>3. ASSUME NEW c \in Calls, ConfirmsOwn(c) PROVE StagedBefore
  BY <1>2, <1>3, ConfirmStages DEF ConfirmsOwn, ConfirmGrabbed, ConfirmAll, ConfirmPackage
<1>4. ASSUME NEW c \in Calls, CallStep(c) PROVE StagedBefore
  <2>1. CASE NativeReturns(c)
    BY <1>2, <2>1 DEF NativeReturns, ArchiveAnswers, FileAnswers, PageAsksYtdlp, Finished
  <2>2. CASE EntersInit(c) \/ Unpacked(c) \/ EnsuresService(c) \/ UnwindsStore(c)
    BY <1>2, <2>2 DEF EntersInit, Unpacked, EnsuresService, UnwindsStore
  <2>3. CASE UnpackFails(c) \/ YtdlpAnswers(c) \/ UnwindsResolve(c)
    BY <1>2, <2>3 DEF UnpackFails, YtdlpAnswers, UnwindsResolve, Finished
  <2> QED BY <1>1, <1>3, <1>4, <2>1, <2>2, <2>3 DEF CallStep
<1>5. Reviews => StagedBefore
  BY ConfirmStages, LgDeleteStages
  DEF Reviews, ConfirmAll, ConfirmPackage, ConfirmLink, LgRemoveAll, LgRemovePackage, LgRemoveLink
<1>6. CASE IntakeNext
  <2>1. CASE \E c \in Calls, u \in Urls : Begin(c, u) BY <1>2, <2>1 DEF Begin
  <2>2. CASE ClearActivity \/ PreparedElsewhere \/ Close
    BY <1>2, <2>2 DEF ClearActivity, PreparedElsewhere, Close
  <2>3. CASE Death BY <2>3, RestartStages DEF Death
  <2> QED BY <1>4, <1>5, <1>6, <2>1, <2>2, <2>3 DEF IntakeNext
<1>7. CASE UNCHANGED allVars BY <1>2, <1>7 DEF allVars
<1> QED BY <1>6, <1>7

\* A call that does not move owns what it owned: ids are never handed out twice.
LEMMA OwnedStays ==
  ASSUME Carried, StagedBefore, nextPkg \in Nat, nextPkg' \in Nat, NEW c \in Calls, Owned(c), calls'[c] = calls[c]
  PROVE  Owned(c)'
<1>1. calls[c].id \in Int BY DEF Carried, CarriedCall
<1>2. nextPkg' >= nextPkg BY DEF StagedBefore
<1>3. calls'[c].pc = "confirm" =>
        c \in Directs /\ (calls'[c].id = -1 \/ calls'[c].id \in 1 .. (nextPkg' - 1))
  <2> SUFFICES ASSUME calls'[c].pc = "confirm"
               PROVE  c \in Directs /\ (calls'[c].id = -1 \/ calls'[c].id \in 1 .. (nextPkg' - 1))
    OBVIOUS
  <2>1. c \in Directs /\ (calls[c].id = -1 \/ calls[c].id \in 1 .. (nextPkg - 1)) BY DEF Owned
  <2> QED BY <1>1, <1>2, <2>1
<1>4. ASSUME c \in Directs, calls'[c].pc \in {"service", "ended"}, Multi(c)', calls'[c].id > 0
      PROVE  calls'[c].id < nextPkg' /\ \A i \in Staged' : items'[i].pkg # calls'[c].id
  <2>1. calls[c].id < nextPkg /\ \A i \in Staged : items[i].pkg # calls[c].id
    BY <1>4 DEF Owned, Multi
  <2>2. nextPkg # calls[c].id BY <2>1, <1>1
  <2> QED BY <1>1, <1>2, <2>1, <2>2 DEF StagedBefore
<1> QED BY <1>3, <1>4 DEF Owned

\* Nothing is known of a call that is elsewhere, or that found no files.
LEMMA ResultOwns ==
  ASSUME Carried, NEW c \in Calls, NEW n \in 0 .. MaxGrab, NEW ran, NEW raw, Result(c, n, ran, raw)
  PROVE  Owned(c)'
<1>1. calls'[c].pc = (IF n > 0 THEN "store" ELSE "ended") /\ calls'[c].files = n
  BY DEF Carried, CarriedCall, Result
<1>2. CASE n > 0
  <2>1. calls'[c].pc = "store" BY <1>1, <1>2
  <2> QED BY <2>1 DEF Owned
<1>3. CASE n = 0
  <2>1. calls'[c].pc = "ended" /\ calls'[c].files = 0 BY <1>1, <1>3
  <2> QED BY <2>1 DEF Owned, Multi
<1> QED BY <1>2, <1>3, BoundsAssumption

LEMMA GotoOwns ==
  ASSUME Carried, NEW c \in Calls, NEW p, p \notin {"confirm", "service", "ended"}, Goto(c, p)
  PROVE  Owned(c)'
<1>1. calls'[c].pc = p BY DEF Carried, CarriedCall, Goto
<1> QED BY <1>1 DEF Owned

\* The verbs give what a call is to own: grab a package that exists from then
\* on, the confirm of that package none of whose links is left in Review.
LEMMA StagesOwns ==
  ASSUME OwnInv, NEW c \in Calls, Stages(c)
  PROVE  Owned(c)'
<1> USE DEF OwnInv, IntakeInv
<1>1. nextPkg \in Nat /\ nextPkg >= 1 BY BoundsAssumption DEF IInv, Core, GlobalOK
<1>2. c \in Crawlers => c \notin Directs BY IntakeAssumption
<1>3. calls'[c].pc = IF c \in Crawlers THEN "ended" ELSE "confirm"
  BY DEF Stages, Returned, Carried, CarriedCall
<1>4. calls'[c].id = -1 \/ (calls'[c].id = nextPkg /\ nextPkg' = nextPkg + 1)
  <2>1. ASSUME NEW p, NEW id, Returned(c, p, id) PROVE calls'[c].id = id
    BY <2>1 DEF Returned, Carried, CarriedCall
  <2>2. Grab(calls[c].files) => nextPkg' = nextPkg + 1 BY DEF Grab, GrabInto
  <2> QED BY <2>1, <2>2 DEF Stages
<1>5. c \in Crawlers \/ c \in Directs BY DEF Calls
<1> QED BY <1>1, <1>2, <1>3, <1>4, <1>5 DEF Owned

LEMMA AddsOneOwns ==
  ASSUME Carried, NEW c \in Calls, AddsOne(c)
  PROVE  Owned(c)'
<1>1. calls'[c].pc = "service" /\ calls'[c].files = calls[c].files
  BY DEF AddsOne, Returned, Carried, CarriedCall
<1>2. ~(calls'[c].files > 1) BY <1>1 DEF AddsOne, Multi
<1> QED BY <1>1, <1>2 DEF Owned, Multi

LEMMA ConfirmsOwns ==
  ASSUME OwnInv, NEW c \in Calls, ConfirmsOwn(c)
  PROVE  Owned(c)'
<1> USE DEF OwnInv, IntakeInv
<1>1. calls'[c].pc = "service" /\ calls'[c].id = calls[c].id
  BY DEF ConfirmsOwn, Goto, Carried, CarriedCall
<1>2. nextPkg' = nextPkg
  BY DEF ConfirmsOwn, ConfirmGrabbed, ConfirmAll, ConfirmPackage, ConfirmLinks, counters, vars
<1>3. c \in Directs /\ (calls[c].id = -1 \/ calls[c].id \in 1 .. (nextPkg - 1))
  BY DEF ConfirmsOwn, At, Owned
<1>4. nextPkg \in Nat BY BoundsAssumption DEF IInv, Core, GlobalOK
<1>5. ASSUME calls[c].id > 0
      PROVE  \A i \in Staged' : items'[i].pkg # calls[c].id
  <2>1. CASE ConfirmPackage(calls[c].id, TRUE)
    <3>1. ASSUME NEW i \in Staged' PROVE items'[i].pkg # calls[c].id
      <4>1. i \in DOMAIN items /\ items[i] \in Item
        BY <2>1, <3>1 DEF ConfirmPackage, ConfirmLinks, Each, Staged, IInv, Core, LinkOK, Typed
      <4>2. i \notin Members(calls[c].id) \cap Staged
        BY <2>1, <3>1, <4>1 DEF ConfirmPackage, ConfirmLinks, Each, Staged, Item
      <4>3. i \in Staged /\ items'[i] = items[i]
        BY <2>1, <3>1, <4>1, <4>2 DEF ConfirmPackage, ConfirmLinks, Each, Staged
      <4> QED BY <4>1, <4>2, <4>3 DEF Members
    <3> QED BY <3>1
  <2>2. CASE calls[c].id \notin StagedPackages /\ UNCHANGED vars
    <3>1. ASSUME NEW i \in Staged PROVE items[i].pkg \in StagedPackages
      BY <3>1 DEF Staged, StagedPackages, IInv, AllShown, Shown
    <3> QED BY <2>2, <3>1 DEF vars, Staged
  <2>3. ~(calls[c].id <= 0) BY <1>3, <1>4, <1>5
  <2> QED BY <2>1, <2>2, <2>3 DEF ConfirmsOwn, ConfirmGrabbed
<1> QED BY <1>1, <1>2, <1>3, <1>4, <1>5 DEF Owned

LEMMA CallOwns ==
  ASSUME OwnInv, NEW c \in Calls, CallStep(c)
  PROVE  Owned(c)'
<1> USE DEF OwnInv, IntakeInv
<1>1. CASE NativeReturns(c)
  <2>1. 1 \in 0 .. MaxGrab BY IntakeAssumption, BoundsAssumption
  <2>2. CASE ArchiveAnswers(c) BY <2>2, ResultOwns DEF ArchiveAnswers, Owned, Multi
  <2>3. CASE FileAnswers(c) BY <2>1, <2>3, ResultOwns DEF FileAnswers, Owned, Multi
  <2>4. CASE PageAsksYtdlp(c) BY <2>4, GotoOwns DEF PageAsksYtdlp, Owned, Multi
  <2> QED BY <1>1, <2>2, <2>3, <2>4 DEF NativeReturns
<1>2. CASE EntersInit(c) BY <1>2, GotoOwns DEF EntersInit, Owned, Multi
<1>3. CASE Unpacked(c) \/ UnwindsStore(c) \/ UnwindsResolve(c)
  BY <1>3, GotoOwns DEF Unpacked, UnwindsStore, UnwindsResolve, Owned, Multi
<1>4. CASE UnpackFails(c)
  <2>1. FallbackFiles(c, "FAILED") \in 0 .. MaxGrab BY FallbackBounds
  <2> QED BY <1>4, <2>1, ResultOwns DEF UnpackFails, Owned, Multi
<1>5. CASE YtdlpAnswers(c)
  <2>1. FallbackFiles(c, runtime) \in 0 .. MaxGrab BY FallbackBounds
  <2> QED BY <1>5, <2>1, ResultOwns DEF YtdlpAnswers, Owned, Multi
<1>6. CASE EnsuresService(c)
  <2>1. calls'[c] = [calls[c] EXCEPT !.pc = "ended"] /\ calls[c].pc = "service"
    BY <1>6 DEF EnsuresService, Goto, At, Carried
  <2>2. calls'[c].pc = "ended" /\ calls'[c].id = calls[c].id /\ calls'[c].files = calls[c].files
    BY <2>1 DEF Carried, CarriedCall
  <2>3. items' = items /\ nextPkg' = nextPkg BY <1>6 DEF EnsuresService, vars
  <2> QED BY <2>1, <2>2, <2>3 DEF Owned, Multi, Staged
<1>7. CASE Stages(c) BY <1>7, StagesOwns
<1>8. CASE AddsOne(c) BY <1>8, AddsOneOwns
<1>9. CASE ConfirmsOwn(c) BY <1>9, ConfirmsOwns
<1> QED BY <1>1, <1>2, <1>3, <1>4, <1>5, <1>6, <1>7, <1>8, <1>9 DEF CallStep

\* A step of a call moves that call alone.
LEMMA CallMovesAlone ==
  ASSUME Carried, NEW c \in Calls, CallStep(c) \/ \E u \in Urls : Begin(c, u),
         NEW d \in Calls, d # c
  PROVE  calls'[d] = calls[d]
<1>1. CASE \E u \in Urls : Begin(c, u) BY <1>1 DEF Begin, Carried
<1>2. CASE NativeReturns(c)
  BY <1>2 DEF NativeReturns, ArchiveAnswers, FileAnswers, PageAsksYtdlp, Result, Goto, Carried
<1>3. CASE EntersInit(c) \/ Unpacked(c) \/ EnsuresService(c) \/ UnwindsStore(c)
  BY <1>3 DEF EntersInit, Unpacked, EnsuresService, UnwindsStore, Goto, Carried
<1>4. CASE UnpackFails(c) \/ YtdlpAnswers(c) \/ UnwindsResolve(c)
  BY <1>4 DEF UnpackFails, YtdlpAnswers, UnwindsResolve, Result, Goto, Carried
<1>5. CASE Stages(c) \/ AddsOne(c)
  BY <1>5 DEF Stages, AddsOne, Returned, Carried
<1>6. CASE ConfirmsOwn(c) BY <1>6 DEF ConfirmsOwn, Goto, Carried
<1> QED BY <1>1, <1>2, <1>3, <1>4, <1>5, <1>6 DEF CallStep

LEMMA OwnInductive == IntakeSpec => []OwnInv
<1>1. IntakeInit => OwnInv
  <2>1. ASSUME IntakeInit, NEW c \in Calls PROVE calls[c].pc = "idle" BY <2>1 DEF IntakeInit
  <2> QED BY <2>1, IntakeStarts DEF OwnInv, Owned
<1>2. OwnInv /\ IntakeInv' /\ [IntakeNext]_allVars => OwnInv'
  <2> SUFFICES ASSUME OwnInv, IntakeInv', [IntakeNext]_allVars PROVE \A c \in Calls : Owned(c)'
    BY DEF OwnInv
  <2>1. StagedBefore /\ Carried BY IntakeStages DEF OwnInv, IntakeInv
  <2>2. nextPkg \in Nat /\ nextPkg' \in Nat
    BY BoundsAssumption DEF OwnInv, IntakeInv, IInv, Core, GlobalOK
  <2>3. ASSUME NEW c \in Calls, calls'[c] = calls[c] PROVE Owned(c)'
    <3>1. Owned(c) BY DEF OwnInv
    <3> QED BY <2>1, <2>2, <2>3, <3>1, OwnedStays
  <2>4. ASSUME NEW c \in Calls, CallStep(c) \/ \E u \in Urls : Begin(c, u)
        PROVE  \A d \in Calls : Owned(d)'
    <3>1. Owned(c)'
      <4>1. CASE CallStep(c) BY <4>1, CallOwns
      <4>2. CASE \E u \in Urls : Begin(c, u)
        <5>1. calls'[c].pc = "native" BY <2>1, <4>2 DEF Begin, Carried, CarriedCall
        <5> QED BY <5>1 DEF Owned
      <4> QED BY <2>4, <4>1, <4>2
    <3>2. ASSUME NEW d \in Calls, d # c PROVE calls'[d] = calls[d]
      BY <2>1, <2>4, <3>2, CallMovesAlone
    <3> QED BY <2>3, <3>1, <3>2
  <2>5. CASE ClearActivity \/ PreparedElsewhere \/ Close \/ Reviews \/ UNCHANGED allVars
    BY <2>3, <2>5 DEF ClearActivity, PreparedElsewhere, Close, Reviews, intakeVars, allVars
  <2>6. CASE Death
    <3>1. ASSUME NEW c \in Calls, calls'[c] # calls[c] PROVE Owned(c)'
      <4>1. calls'[c].pc = "dropped"
        BY <2>1, <2>6, <3>1 DEF Death, Carried, CarriedCall
      <4> QED BY <4>1 DEF Owned
    <3> QED BY <2>3, <3>1
  <2> QED BY <2>4, <2>5, <2>6 DEF IntakeNext
<1> QED BY <1>1, <1>2, IntakeInductive, PTL DEF IntakeSpec

\* Download now does not leave its files in Review.
THEOREM NotParked == IntakeSpec => []DownloadNowNotParked
<1>1. OwnInv => DownloadNowNotParked BY DEF OwnInv, Owned, DownloadNowNotParked, Calls
<1> QED BY OwnInductive, <1>1, PTL

\* A step that confirms for a call is that call's, and finds its package, or
\* finds that the user has confirmed or removed it.
THEOREM OthersStayInReview == IntakeSpec => ReviewKept
<1> DEFINE Kept1 == \A c \in Calls : calls[c].pc = "confirm" /\ calls'[c].pc = "service" =>
      \/ calls[c].id = -1
      \/ \A i \in Staged : items[i].pkg # calls[c].id => i \in DOMAIN items' /\ items'[i] = items[i]
<1>1. OwnInv /\ [IntakeNext]_allVars => [Kept1]_allVars
  <2> SUFFICES ASSUME OwnInv, IntakeNext, NEW c \in Calls,
                      calls[c].pc = "confirm", calls'[c].pc = "service", calls[c].id # -1
               PROVE  \A i \in Staged : items[i].pkg # calls[c].id =>
                                           i \in DOMAIN items' /\ items'[i] = items[i]
    OBVIOUS
  <2> USE DEF OwnInv, IntakeInv
  <2>1. calls[c] \in CarriedCall /\ calls[c].id \in 1 .. (nextPkg - 1)
    BY DEF Owned, Carried
  <2>2. calls'[c] # calls[c] OBVIOUS
  <2>3. CallStep(c)
    <3>1. ~(ClearActivity \/ PreparedElsewhere \/ Close \/ Reviews)
      BY <2>2 DEF ClearActivity, PreparedElsewhere, Close, Reviews, intakeVars
    <3>2. ~Death BY <2>1 DEF Death, CarriedCall
    <3>3. PICK d \in Calls : (\E u \in Urls : Begin(d, u)) \/ CallStep(d)
      BY <3>1, <3>2 DEF IntakeNext
    <3>4. d = c BY <2>2, <3>3, CallMovesAlone
    <3>5. ~\E u \in Urls : Begin(c, u) BY DEF Begin, At
    <3> QED BY <3>3, <3>4, <3>5
  <2>4. ConfirmsOwn(c)
    <3>1. ~(NativeReturns(c) \/ EntersInit(c) \/ Unpacked(c) \/ UnpackFails(c) \/ YtdlpAnswers(c))
      BY DEF NativeReturns, EntersInit, Unpacked, UnpackFails, YtdlpAnswers, At
    <3>2. ~(Stages(c) \/ AddsOne(c) \/ EnsuresService(c) \/ UnwindsResolve(c))
      BY DEF Stages, AddsOne, EnsuresService, UnwindsResolve, At
    <3>3. ~UnwindsStore(c) BY DEF UnwindsStore, Goto, Carried, CarriedCall
    <3> QED BY <2>3, <3>1, <3>2, <3>3 DEF CallStep
  <2>5. ~(calls[c].id <= 0) /\ calls[c].id > 0
    BY <2>1, BoundsAssumption DEF IInv, Core, GlobalOK
  <2>6. CASE ConfirmPackage(calls[c].id, TRUE)
    BY <2>6 DEF ConfirmPackage, ConfirmLinks, Each, Staged, Members
  <2>7. CASE UNCHANGED vars BY <2>7 DEF vars, Staged
  <2> QED BY <2>4, <2>5, <2>6, <2>7 DEF ConfirmsOwn, ConfirmGrabbed
<1> QED BY OwnInductive, <1>1, PTL DEF IntakeSpec, ReviewKept

---------------------------------------------------------------------------
(* What the activity list holds *)

Keeps(s, S, n, f) ==
  f = [k \in 0 .. n |-> IF k = 0 THEN <<>>
                         ELSE IF s[k] \in S THEN Append(f[k - 1], s[k]) ELSE f[k - 1]]

\* The function Only is defined by exists, one more entry at a time.
LEMMA KeepsExists ==
  ASSUME NEW s, NEW S, NEW n \in Nat
  PROVE  \E f : Keeps(s, S, n, f)
<1> DEFINE Bad == {m \in Nat : ~ \E f : Keeps(s, S, m, f)}
<1> SUFFICES ASSUME Bad # {} PROVE FALSE
  OBVIOUS
<1>1. PICK m \in Bad : \A k \in Bad : m <= k
  <2>1. Bad \subseteq Nat OBVIOUS
  <2> HIDE DEF Bad
  <2> QED BY <2>1, LeastNat
<1>2. CASE m = 0
  <2> DEFINE f == [k \in 0 .. 0 |-> <<>>]
  <2>1. \A k \in 0 .. 0 : k = 0 BY SMT
  <2>2. Keeps(s, S, 0, f) BY <2>1 DEF Keeps
  <2> QED BY <1>1, <1>2, <2>2
<1>3. CASE m # 0
  <2>1. m \in Nat /\ m - 1 \in Nat /\ ~ (m <= m - 1) BY <1>3
  <2>2. PICK g : Keeps(s, S, m - 1, g) BY <1>1, <2>1
  <2> DEFINE Step(h, k) == IF k = 0 THEN <<>>
                           ELSE IF s[k] \in S THEN Append(h[k - 1], s[k]) ELSE h[k - 1]
             f == [k \in 0 .. m |-> Step(g, k)]
  <2>3. \A k \in 0 .. (m - 1) : k \in 0 .. m /\ g[k] = Step(g, k)
    <3>1. g = [k \in 0 .. (m - 1) |-> Step(g, k)] BY Zenon, <2>2 DEF Keeps
    <3> HIDE DEF Step
    <3>2. \A k \in 0 .. (m - 1) : g[k] = Step(g, k) BY Zenon, <3>1
    <3>3. \A k \in 0 .. (m - 1) : k \in 0 .. m BY <2>1
    <3> QED BY <3>2, <3>3
  <2>4. \A k \in 0 .. m : k # 0 => k - 1 \in 0 .. (m - 1) BY <2>1
  <2>5. \A k \in 0 .. (m - 1) : f[k] = g[k] BY <2>3
  <2>6. \A k \in 0 .. m : Step(g, k) = Step(f, k) BY <2>4, <2>5
  <2>7. f = [k \in 0 .. m |-> Step(f, k)] BY <2>6
  <2>8. Keeps(s, S, m, f) BY <2>7 DEF Keeps
  <2> QED BY <1>1, <2>8
<1> QED BY <1>2, <1>3

\* Only returns nothing that was not there, and nothing outside S.
LEMMA OnlyKeeps ==
  ASSUME NEW T, NEW s \in Seq(T), NEW S
  PROVE  Only(s, S) \in Seq(T \cap S) /\ Len(Only(s, S)) <= Len(s)
<1> DEFINE f == CHOOSE g : Keeps(s, S, Len(s), g)
<1>1. Len(s) \in Nat /\ \A k \in 1 .. Len(s) : s[k] \in T OBVIOUS
<1>2. Keeps(s, S, Len(s), f) BY <1>1, KeepsExists
<1>3. Only(s, S) = f[Len(s)] BY DEF Only, Keeps
<1> HIDE DEF f
<1> DEFINE Good(k) == f[k] \in Seq(T \cap S) /\ Len(f[k]) <= k
           Bad == {k \in 0 .. Len(s) : ~Good(k)}
<1>4. Bad = {}
  <2> SUFFICES ASSUME Bad # {} PROVE FALSE
    OBVIOUS
  <2>1. PICK k \in Bad : \A j \in Bad : k <= j
    <3>1. Bad \subseteq Nat BY <1>1
    <3> HIDE DEF Bad
    <3> QED BY <3>1, LeastNat
  <2>2. k # 0
    <3>1. f[0] = <<>> BY <1>1, <1>2 DEF Keeps
    <3>2. <<>> \in Seq(T \cap S) /\ Len(<<>>) = 0 OBVIOUS
    <3> QED BY <2>1, <3>1, <3>2
  <2>3. k \in 1 .. Len(s) /\ k - 1 \in 0 .. Len(s) /\ ~ (k <= k - 1) BY <1>1, <2>1, <2>2
  <2>4. Good(k - 1) BY <2>1, <2>3
  <2>5. f[k] = IF s[k] \in S THEN Append(f[k - 1], s[k]) ELSE f[k - 1]
    <3>1. k \in 0 .. Len(s) BY <2>1
    <3> QED BY <1>2, <2>2, <3>1 DEF Keeps
  <2>6. Good(k)
    <3>1. CASE s[k] \in S
      <4>1. s[k] \in T \cap S BY <1>1, <2>3, <3>1
      <4> QED BY <2>4, <2>5, <3>1, <4>1
    <3>2. CASE s[k] \notin S BY <2>4, <2>5, <3>2
    <3> QED BY <3>1, <3>2
  <2> QED BY <2>1, <2>6
<1>5. Len(s) \in 0 .. Len(s) BY <1>1
<1> QED BY <1>3, <1>4, <1>5

\* The list after an upsert: the new entry, and of the old ones those with
\* another key, MaxStatus in all.
LEMMA UpsertHolds ==
  ASSUME NEW T \in SUBSET Activity, NEW s \in Seq(T), NEW k, NEW st
  PROVE  /\ Upsert(s, k, st) \in Seq({a \in T : a.key # k} \cup {[key |-> k, state |-> st]})
         /\ Len(Upsert(s, k, st)) <= MaxStatus
<1> DEFINE rest == Only(s, {a \in Activity : a.key # k})
           new == [key |-> k, state |-> st]
           U == {a \in T : a.key # k} \cup {new}
           all == <<new>> \o rest
<1>1. rest \in Seq(U)
  <2>1. rest \in Seq(T \cap {a \in Activity : a.key # k}) BY OnlyKeeps
  <2>2. T \cap {a \in Activity : a.key # k} \subseteq U OBVIOUS
  <2> HIDE DEF rest, U
  <2> QED BY <2>1, <2>2
<1>2. Upsert(s, k, st) = Newest(all) BY DEF Upsert
<1>3. new \in U OBVIOUS
<1> HIDE DEF rest, new, U
<1>4. all \in Seq(U) BY <1>1, <1>3
<1> HIDE DEF all
<1>5. Newest(all) \in Seq(U) /\ Len(Newest(all)) <= MaxStatus
  <2>1. MaxStatus \in Nat BY IntakeAssumption
  <2> DEFINE n == IF Len(all) < MaxStatus THEN Len(all) ELSE MaxStatus
  <2>2. n \in 0 .. Len(all) /\ n <= MaxStatus BY <1>4, <2>1
  <2>3. Newest(all) = SubSeq(all, 1, n) BY DEF Newest
  <2> HIDE DEF n
  <2> QED BY <1>4, <2>2, <2>3
<1> QED BY <1>2, <1>5 DEF U, new

\* An entry that is RUNNING has a call that resolves its URL, or unpacks.
Lively == {a \in Activity : a.state = "RUNNING" =>
             \E c \in Calls : IF a.key = SetupKey THEN calls[c].pc = "unpack"
                              ELSE calls[c].pc \in Resolving /\ calls[c].url = a.key}

Spin ==
  /\ status \in Seq(Lively) /\ Len(status) <= MaxStatus
  /\ banner \in [Hosts -> Int] /\ BannerBalanced

LEMMA LivelyUpsert ==
  ASSUME status \in Seq(Lively),
         NEW k \in Urls \cup {SetupKey}, NEW st \in {"RUNNING", "DONE", "FAILED"},
         \A a \in Lively : a.key # k => a \in Lively',
         [key |-> k, state |-> st] \in Lively', status' = Upsert(status, k, st)
  PROVE  status' \in Seq(Lively') /\ Len(status') <= MaxStatus
<1> DEFINE T == {a \in Lively : a.key # k} \cup {[key |-> k, state |-> st]}
<1>1. status' \in Seq(T) /\ Len(status') <= MaxStatus
  <2>1. Lively \in SUBSET Activity BY DEF Lively
  <2> QED BY <2>1, UpsertHolds
<1>2. T \subseteq Lively' OBVIOUS
<1> HIDE DEF T
<1> QED BY <1>1, <1>2

\* An entry that has ended needs no call.
LEMMA EndedLively ==
  ASSUME NEW k \in Urls \cup {SetupKey}, NEW st \in {"DONE", "FAILED"}
  PROVE  [key |-> k, state |-> st] \in Lively /\ [key |-> k, state |-> st] \in Lively'
BY DEF Lively, Activity

\* While the same calls resolve the same URLs, the banner need not change.
LEMMA SameBanner ==
  ASSUME BannerBalanced, banner' = banner,
         \A c \in Calls : /\ calls'[c].pc \in Resolving <=> calls[c].pc \in Resolving
                          /\ calls[c].pc \in Resolving => calls'[c].url = calls[c].url
  PROVE  BannerBalanced'
<1> SUFFICES ASSUME NEW h \in Hosts
             PROVE  banner'[h] = Cardinality({c \in Calls : calls'[c].pc \in Resolving
                                                           /\ HostOf[calls'[c].url] = h})
  BY DEF BannerBalanced
<1>1. {c \in Calls : calls'[c].pc \in Resolving /\ HostOf[calls'[c].url] = h}
        = {c \in Calls : calls[c].pc \in Resolving /\ HostOf[calls[c].url] = h}
  OBVIOUS
<1> QED BY <1>1 DEF BannerBalanced

LEMMA HostKnown == \A u \in Urls : HostOf[u] \in Hosts
BY DEF Hosts

\* A call begins to resolve, and its host is listed once more.
LEMMA BannerUp ==
  ASSUME BannerBalanced, banner \in [Hosts -> Int], NEW c \in Calls, NEW u \in Urls,
         calls[c].pc \notin Resolving, calls'[c].pc \in Resolving, calls'[c].url = u,
         \A d \in Calls : d # c => calls'[d] = calls[d],
         banner' = [banner EXCEPT ![HostOf[u]] = @ + 1]
  PROVE  banner' \in [Hosts -> Int] /\ BannerBalanced'
<1>1. banner' \in [Hosts -> Int] BY HostKnown
<1>2. ASSUME NEW h \in Hosts
      PROVE  banner'[h] = Cardinality({d \in Calls : calls'[d].pc \in Resolving
                                                    /\ HostOf[calls'[d].url] = h})
  <2> DEFINE old == {d \in Calls : calls[d].pc \in Resolving /\ HostOf[calls[d].url] = h}
             new == {d \in Calls : calls'[d].pc \in Resolving /\ HostOf[calls'[d].url] = h}
  <2>1. banner[h] = Cardinality(old) BY DEF BannerBalanced
  <2>2. IsFiniteSet(old) BY FS_Subset, IntakeAssumption
  <2>3. c \notin old OBVIOUS
  <2>4. CASE h = HostOf[u]
    <3>1. new = old \cup {c} BY <2>4
    <3>2. banner'[h] = banner[h] + 1 BY <2>4
    <3>3. Cardinality(new) = Cardinality(old) + 1
      <4> HIDE DEF old, new
      <4> QED BY <2>2, <2>3, <3>1, FS_AddElement
    <3> QED BY <2>1, <3>2, <3>3
  <2>5. CASE h # HostOf[u]
    <3>1. new = old BY <2>5
    <3>2. banner'[h] = banner[h] BY <2>5
    <3> QED BY <2>1, <3>1, <3>2
  <2> QED BY <2>4, <2>5
<1> QED BY <1>1, <1>2 DEF BannerBalanced

\* It ends, and one occurrence of its host goes.
LEMMA BannerDown ==
  ASSUME BannerBalanced, banner \in [Hosts -> Int], NEW c \in Calls, calls[c].url \in Urls,
         calls[c].pc \in Resolving, calls'[c].pc \notin Resolving,
         \A d \in Calls : d # c => calls'[d] = calls[d],
         banner' = [banner EXCEPT ![HostOf[calls[c].url]] = HostsLeft(HostOf[calls[c].url])]
  PROVE  banner' \in [Hosts -> Int] /\ BannerBalanced'
<1>1. banner' \in [Hosts -> Int] BY HostKnown DEF HostsLeft
<1>2. ASSUME NEW h \in Hosts
      PROVE  banner'[h] = Cardinality({d \in Calls : calls'[d].pc \in Resolving
                                                    /\ HostOf[calls'[d].url] = h})
  <2> DEFINE old == {d \in Calls : calls[d].pc \in Resolving /\ HostOf[calls[d].url] = h}
             new == {d \in Calls : calls'[d].pc \in Resolving /\ HostOf[calls'[d].url] = h}
  <2>1. banner[h] = Cardinality(old) BY DEF BannerBalanced
  <2>2. IsFiniteSet(old) BY FS_Subset, IntakeAssumption
  <2>3. CASE h = HostOf[calls[c].url]
    <3>1. new = old \ {c} /\ c \in old BY <2>3
    <3>2. banner'[h] = banner[h] - 1 BY <2>3 DEF HostsLeft
    <3>3. Cardinality(new) = Cardinality(old) - 1
      <4> HIDE DEF old, new
      <4> QED BY <2>2, <3>1, FS_RemoveElement
    <3> QED BY <2>1, <3>2, <3>3
  <2>4. CASE h # HostOf[calls[c].url]
    <3>1. new = old BY <2>4
    <3>2. banner'[h] = banner[h] BY <2>4
    <3> QED BY <2>1, <3>1, <3>2
  <2> QED BY <2>3, <2>4
<1> QED BY <1>1, <1>2 DEF BannerBalanced

\* The finally block of a call: its host and its entry stop saying that it
\* resolves; what other calls show stays.
LEMMA FinishedSpins ==
  ASSUME Carried, Spin, NEW c \in Calls, NEW n, NEW shown, NEW T \in SUBSET Activity,
         shown \in Seq(T), \A a \in T : a.key # calls[c].url => a \in Lively',
         Finished(c, n, shown), calls[c].pc \in Resolving, calls'[c].pc \notin Resolving,
         \A d \in Calls : d # c => calls'[d] = calls[d]
  PROVE  Spin'
<1> DEFINE k == calls[c].url
           st == IF n > 0 THEN "DONE" ELSE "FAILED"
           U == {a \in T : a.key # k} \cup {[key |-> k, state |-> st]}
<1>1. k \in Urls BY DEF Carried, CarriedCall
<1>2. banner' \in [Hosts -> Int] /\ BannerBalanced'
  BY <1>1, BannerDown DEF Spin, Finished
<1>3. status' \in Seq(U) /\ Len(status') <= MaxStatus
  <2>1. status' = Upsert(shown, k, st) BY DEF Finished
  <2> QED BY <2>1, UpsertHolds
<1>4. [key |-> k, state |-> st] \in Lively'
  <2>1. st \in {"DONE", "FAILED"} OBVIOUS
  <2> HIDE DEF st
  <2> QED BY <1>1, <2>1, EndedLively
<1>5. U \subseteq Lively' BY <1>4
<1> HIDE DEF U, k, st
<1>6. status' \in Seq(Lively') BY <1>3, <1>5
<1> QED BY <1>2, <1>3, <1>6 DEF Spin

\* Entries stay honest, but for those of the keys K, while their calls go on.
LEMMA LivelyKept ==
  ASSUME NEW K,
         \A c \in Calls :
           /\ calls[c].pc \in Resolving /\ calls[c].url \notin K =>
                calls'[c].pc \in Resolving /\ calls'[c].url = calls[c].url
           /\ calls[c].pc = "unpack" /\ SetupKey \notin K => calls'[c].pc = "unpack"
  PROVE  \A a \in Lively : a.key \notin K => a \in Lively'
<1> SUFFICES ASSUME NEW a \in Activity, a \in Lively, a.key \notin K, a.state = "RUNNING"
             PROVE  \E c \in Calls : IF a.key = SetupKey THEN calls'[c].pc = "unpack"
                                     ELSE calls'[c].pc \in Resolving /\ calls'[c].url = a.key
  BY DEF Lively
<1>1. PICK c \in Calls : IF a.key = SetupKey THEN calls[c].pc = "unpack"
                         ELSE calls[c].pc \in Resolving /\ calls[c].url = a.key
  BY DEF Lively
<1> QED BY <1>1

LEMMA LivelyStays ==
  ASSUME \A c \in Calls :
           /\ calls[c].pc \in Resolving => calls'[c].pc \in Resolving /\ calls'[c].url = calls[c].url
           /\ calls[c].pc = "unpack" => calls'[c].pc = "unpack"
  PROVE  Lively \subseteq Lively'
<1> SUFFICES ASSUME NEW a \in Activity, a \in Lively, a.state = "RUNNING"
             PROVE  \E c \in Calls : IF a.key = SetupKey THEN calls'[c].pc = "unpack"
                                     ELSE calls'[c].pc \in Resolving /\ calls'[c].url = a.key
  BY DEF Lively
<1>1. PICK c \in Calls : IF a.key = SetupKey THEN calls[c].pc = "unpack"
                         ELSE calls[c].pc \in Resolving /\ calls[c].url = a.key
  BY DEF Lively
<1> QED BY <1>1

\* The entry a call begins, or one that unpacks puts first, has that call.
LEMMA RunningLively ==
  ASSUME NEW c \in Calls
  PROVE  /\ \A u \in Urls : calls'[c].pc \in Resolving /\ calls'[c].url = u =>
                            [key |-> u, state |-> "RUNNING"] \in Lively'
         /\ calls'[c].pc = "unpack" => [key |-> SetupKey, state |-> "RUNNING"] \in Lively'
BY IntakeAssumption DEF Lively, Activity

\* When no call enters or leaves the resolving, and none stops unpacking, the
\* list is as it was.
LEMMA QuietSpins ==
  ASSUME Spin, banner' = banner, status' = status,
         \A c \in Calls : /\ calls'[c].pc \in Resolving <=> calls[c].pc \in Resolving
                          /\ calls[c].pc \in Resolving => calls'[c].url = calls[c].url
                          /\ calls[c].pc = "unpack" => calls'[c].pc = "unpack"
  PROVE  Spin'
<1>1. BannerBalanced' BY SameBanner DEF Spin
<1>2. Lively \subseteq Lively' BY LivelyStays
<1>3. status \in Seq(Lively') BY <1>2 DEF Spin
<1> QED BY <1>1, <1>3 DEF Spin

\* The same when one entry, of key k, is put first.
LEMMA UpsertSpins ==
  ASSUME Spin, banner' = banner,
         NEW k \in Urls \cup {SetupKey}, NEW st \in {"RUNNING", "DONE", "FAILED"},
         status' = Upsert(status, k, st), [key |-> k, state |-> st] \in Lively',
         \A c \in Calls : /\ calls'[c].pc \in Resolving <=> calls[c].pc \in Resolving
                          /\ calls[c].pc \in Resolving => calls'[c].url = calls[c].url
                          /\ calls[c].pc = "unpack" /\ k # SetupKey => calls'[c].pc = "unpack"
  PROVE  Spin'
<1>1. BannerBalanced' BY SameBanner DEF Spin
<1>2. \A a \in Lively : a.key \notin {k} => a \in Lively'
  <2>1. \A c \in Calls :
          /\ calls[c].pc \in Resolving /\ calls[c].url \notin {k} =>
               calls'[c].pc \in Resolving /\ calls'[c].url = calls[c].url
          /\ calls[c].pc = "unpack" /\ SetupKey \notin {k} => calls'[c].pc = "unpack"
    OBVIOUS
  <2> QED BY <2>1, LivelyKept
<1>3. status' \in Seq(Lively') /\ Len(status') <= MaxStatus BY <1>2, LivelyUpsert DEF Spin
<1> QED BY <1>1, <1>3 DEF Spin

LEMMA BeginSpins ==
  ASSUME Carried, Spin, NEW c \in Calls, NEW u \in Urls, Begin(c, u)
  PROVE  Spin'
<1>1. calls[c].pc = "idle" BY DEF Begin, At
<1>2. calls'[c].pc = "native" /\ calls'[c].url = u /\ "native" \in Resolving
  BY DEF Begin, Carried, CarriedCall, Resolving
<1>3. \A d \in Calls : d # c => calls'[d] = calls[d] BY DEF Begin, Carried
<1>4. calls[c].pc \notin Resolving /\ calls[c].pc # "unpack" BY <1>1 DEF Resolving
<1>5. banner' \in [Hosts -> Int] /\ BannerBalanced'
  BY <1>2, <1>3, <1>4, BannerUp DEF Begin, Spin
<1>6. Lively \subseteq Lively'
  <2>1. \A d \in Calls :
          /\ calls[d].pc \in Resolving => calls'[d].pc \in Resolving /\ calls'[d].url = calls[d].url
          /\ calls[d].pc = "unpack" => calls'[d].pc = "unpack"
    BY <1>3, <1>4
  <2> QED BY <2>1, LivelyStays
<1>7. [key |-> u, state |-> "RUNNING"] \in Lively' BY <1>2, RunningLively
<1>8. status' \in Seq(Lively') /\ Len(status') <= MaxStatus
  BY <1>6, <1>7, LivelyUpsert DEF Begin, Spin
<1> QED BY <1>5, <1>8 DEF Spin

\* A call that does not unpack ends or finds files.
LEMMA ResolvedSpins ==
  ASSUME Carried, Spin, NEW c \in Calls, calls[c].pc \in {"native", "init", "exec"},
         calls'[c].pc \notin Resolving, \A d \in Calls : d # c => calls'[d] = calls[d],
         NEW n, Finished(c, n, status)
  PROVE  Spin'
<1>1. calls[c].pc \in Resolving /\ calls[c].pc # "unpack" BY DEF Resolving
<1>2. \A a \in Lively : a.key \notin {calls[c].url} => a \in Lively'
  <2>1. \A d \in Calls :
          /\ calls[d].pc \in Resolving /\ calls[d].url \notin {calls[c].url} =>
               calls'[d].pc \in Resolving /\ calls'[d].url = calls[d].url
          /\ calls[d].pc = "unpack" /\ SetupKey \notin {calls[c].url} => calls'[d].pc = "unpack"
    BY <1>1
  <2> QED BY <2>1, LivelyKept
<1>3. Lively \in SUBSET Activity BY DEF Lively
<1> QED BY <1>1, <1>2, <1>3, FinishedSpins DEF Spin

LEMMA UnpackFailsSpins ==
  ASSUME Carried, Spin, NEW c \in Calls, UnpackFails(c),
         \A d \in Calls : d # c => calls'[d] = calls[d]
  PROVE  Spin'
<1> DEFINE n == FallbackFiles(c, "FAILED")
           shown == Upsert(status, SetupKey, "FAILED")
           failed == [key |-> SetupKey, state |-> "FAILED"]
           T == {a \in Lively : a.key # SetupKey} \cup {failed}
<1>1. calls[c].pc = "unpack" /\ calls[c].pc \in Resolving BY DEF UnpackFails, Resolving
<1>2. n = 0 BY DEF FallbackFiles
<1>3. Finished(c, n, shown) /\ Result(c, n, FALSE, n > 0) BY DEF UnpackFails
<1>4. calls'[c].pc = "ended" /\ "ended" \notin Resolving
  <2>1. calls'[c].pc = IF n > 0 THEN "store" ELSE "ended"
    <3> HIDE DEF n
    <3> QED BY <1>3 DEF Result, Carried, CarriedCall
  <2> QED BY <1>2, <2>1 DEF Resolving
<1>5. Lively \in SUBSET Activity BY DEF Lively
<1>6. failed \in Lively /\ failed \in Lively' BY EndedLively
<1>7. shown \in Seq(T) BY <1>5, UpsertHolds DEF Spin
<1>8. \A a \in Lively : a.key \notin {SetupKey, calls[c].url} => a \in Lively' BY LivelyKept
<1>9. T \in SUBSET Activity /\ \A a \in T : a.key # calls[c].url => a \in Lively'
  BY <1>5, <1>6, <1>8
<1> HIDE DEF n, shown, T
<1> QED BY <1>1, <1>3, <1>4, <1>7, <1>9, FinishedSpins

\* The other steps of a call: what it waits for changes, and an entry may.
LEMMA CallSpins ==
  ASSUME Carried, Spin, NEW c \in Calls, CallStep(c)
  PROVE  Spin'
<1> DEFINE Moves(p) == calls'[c].pc = p /\ calls'[c].url = calls[c].url
<1>0. calls[c].url \in Urls /\ calls[c].url # SetupKey
  BY IntakeAssumption DEF Carried, CarriedCall
<1>1. \A d \in Calls : d # c => calls'[d] = calls[d] BY CallMovesAlone
<1>2. ASSUME NEW p, Goto(c, p) PROVE Moves(p) BY <1>2 DEF Goto, Carried, CarriedCall
<1>3. ASSUME NEW n, NEW ran, NEW raw, Result(c, n, ran, raw)
      PROVE  calls'[c].pc \notin Resolving
  <2>1. calls'[c].pc \in {"store", "ended"} BY <1>3 DEF Result, Carried, CarriedCall
  <2> QED BY <2>1 DEF Resolving
<1>4. CASE NativeReturns(c)
  <2>1. calls[c].pc = "native" BY <1>4 DEF NativeReturns, At
  <2>2. CASE ArchiveAnswers(c) \/ FileAnswers(c)
    BY <1>1, <1>3, <2>1, <2>2, ResolvedSpins DEF ArchiveAnswers, FileAnswers
  <2>3. CASE PageAsksYtdlp(c)
    <3>1. Moves("init") BY <1>2, <2>3 DEF PageAsksYtdlp
    <3>2. [key |-> calls[c].url, state |-> "RUNNING"] \in Lively'
      BY <1>0, <3>1, RunningLively DEF Resolving
    <3>3. \A d \in Calls : /\ calls'[d].pc \in Resolving <=> calls[d].pc \in Resolving
                           /\ calls[d].pc \in Resolving => calls'[d].url = calls[d].url
                           /\ calls[d].pc = "unpack" /\ calls[c].url # SetupKey => calls'[d].pc = "unpack"
      BY <1>1, <2>1, <3>1 DEF Resolving
    <3> QED BY <1>0, <2>3, <3>2, <3>3, UpsertSpins DEF PageAsksYtdlp
  <2> QED BY <1>4, <2>2, <2>3 DEF NativeReturns
<1>5. CASE EntersInit(c)
  <2>1. calls[c].pc = "init" BY <1>5 DEF EntersInit, At
  <2>2. CASE runtime = "READY"
    <3>1. Moves("exec") BY <1>2, <1>5, <2>2 DEF EntersInit
    <3>2. \A d \in Calls : /\ calls'[d].pc \in Resolving <=> calls[d].pc \in Resolving
                           /\ calls[d].pc \in Resolving => calls'[d].url = calls[d].url
                           /\ calls[d].pc = "unpack" => calls'[d].pc = "unpack"
      BY <1>1, <2>1, <3>1 DEF Resolving
    <3> QED BY <1>5, <2>2, <3>2, QuietSpins DEF EntersInit
  <2>3. CASE runtime # "READY"
    <3>1. Moves("unpack") BY <1>2, <1>5, <2>3 DEF EntersInit
    <3>2. [key |-> SetupKey, state |-> "RUNNING"] \in Lively' BY <3>1, RunningLively
    <3>3. \A d \in Calls : /\ calls'[d].pc \in Resolving <=> calls[d].pc \in Resolving
                           /\ calls[d].pc \in Resolving => calls'[d].url = calls[d].url
                           /\ calls[d].pc = "unpack" /\ SetupKey # SetupKey => calls'[d].pc = "unpack"
      BY <1>1, <2>1, <3>1 DEF Resolving
    <3> QED BY <1>5, <2>3, <3>2, <3>3, UpsertSpins DEF EntersInit
  <2> QED BY <2>2, <2>3
<1>6. CASE Unpacked(c)
  <2>1. calls[c].pc = "unpack" /\ Moves("exec") BY <1>2, <1>6 DEF Unpacked, At
  <2>2. [key |-> SetupKey, state |-> "DONE"] \in Lively' BY EndedLively
  <2>3. \A d \in Calls : /\ calls'[d].pc \in Resolving <=> calls[d].pc \in Resolving
                         /\ calls[d].pc \in Resolving => calls'[d].url = calls[d].url
                         /\ calls[d].pc = "unpack" /\ SetupKey # SetupKey => calls'[d].pc = "unpack"
    BY <1>1, <2>1 DEF Resolving
  <2> QED BY <1>6, <2>2, <2>3, UpsertSpins DEF Unpacked
<1>7. CASE UnpackFails(c) BY <1>1, <1>7, UnpackFailsSpins
<1>8. CASE YtdlpAnswers(c)
  <2>1. calls[c].pc = "exec" BY <1>8 DEF YtdlpAnswers, At
  <2> QED BY <1>1, <1>3, <1>8, <2>1, ResolvedSpins DEF YtdlpAnswers
<1>9. CASE UnwindsResolve(c)
  <2>1. Moves("dropped") BY <1>2, <1>9 DEF UnwindsResolve
  <2>2. calls'[c].pc \notin Resolving BY <2>1 DEF Resolving
  <2> QED BY <1>1, <1>9, <2>2, ResolvedSpins DEF UnwindsResolve
<1>10. CASE Stages(c) \/ AddsOne(c) \/ ConfirmsOwn(c) \/ EnsuresService(c) \/ UnwindsStore(c)
  <2>1. calls[c].pc \in Stored
    BY <1>10 DEF Stages, AddsOne, ConfirmsOwn, EnsuresService, UnwindsStore, At, Stored
  <2>2. calls'[c].pc \in {"ended", "confirm", "service", "dropped"}
    BY <1>10 DEF Stages, AddsOne, ConfirmsOwn, EnsuresService, UnwindsStore, Returned, Goto,
                 Carried, CarriedCall
  <2>3. banner' = banner /\ status' = status
    BY <1>10 DEF Stages, AddsOne, ConfirmsOwn, EnsuresService, UnwindsStore, Returned
  <2>4. calls[c].pc \notin Resolving /\ calls[c].pc # "unpack" /\ calls'[c].pc \notin Resolving
    BY <2>1, <2>2 DEF Stored, Resolving
  <2>5. \A d \in Calls : /\ calls'[d].pc \in Resolving <=> calls[d].pc \in Resolving
                         /\ calls[d].pc \in Resolving => calls'[d].url = calls[d].url
                         /\ calls[d].pc = "unpack" => calls'[d].pc = "unpack"
    BY <1>1, <2>4
  <2> QED BY <2>3, <2>5, QuietSpins
<1> QED BY <1>4, <1>5, <1>6, <1>7, <1>8, <1>9, <1>10 DEF CallStep

\* The ids and states a call leaves behind; the rest of the types follows.
Ranged ==
  /\ \A c \in Calls : calls[c].id \in -1 .. (MaxLinks + MaxPackages)
  /\ runtime \in {"NOT_READY", "PREPARING", "READY", "FAILED"} /\ gone \subseteq Calls

SpinInv == IntakeInv /\ Spin /\ Ranged

LEMMA CallRanged ==
  ASSUME IntakeInv, Ranged, NEW c \in Calls, CallStep(c)
  PROVE  Ranged'
<1> USE DEF IntakeInv
<1> DEFINE Ids == -1 .. (MaxLinks + MaxPackages)
<1>1. \A d \in Calls : d # c => calls'[d] = calls[d] BY CallMovesAlone
<1>2. ASSUME NEW p, Goto(c, p) PROVE calls'[c].id = calls[c].id
  BY <1>2 DEF Goto, Carried, CarriedCall
<1>3. ASSUME NEW n, NEW ran, NEW raw, Result(c, n, ran, raw) PROVE calls'[c].id = calls[c].id
  BY <1>3 DEF Result, Carried, CarriedCall
<1>4. CASE NativeReturns(c) \/ EntersInit(c) \/ Unpacked(c) \/ UnpackFails(c) \/ YtdlpAnswers(c)
  <2>1. calls'[c].id = calls[c].id
    BY <1>2, <1>3, <1>4 DEF NativeReturns, ArchiveAnswers, FileAnswers, PageAsksYtdlp,
       EntersInit, Unpacked, UnpackFails, YtdlpAnswers
  <2>2. runtime' \in {runtime, "PREPARING", "READY", "FAILED"} /\ gone' = gone
    BY <1>4 DEF NativeReturns, ArchiveAnswers, FileAnswers, PageAsksYtdlp,
       EntersInit, Unpacked, UnpackFails, YtdlpAnswers, Finished
  <2> QED BY <1>1, <2>1, <2>2 DEF Ranged
<1>5. CASE ConfirmsOwn(c) \/ EnsuresService(c) \/ UnwindsResolve(c) \/ UnwindsStore(c)
  <2>1. calls'[c].id = calls[c].id
    BY <1>2, <1>5 DEF ConfirmsOwn, EnsuresService, UnwindsResolve, UnwindsStore
  <2>2. runtime' = runtime /\ gone' = gone
    BY <1>5 DEF ConfirmsOwn, EnsuresService, UnwindsResolve, UnwindsStore, Finished
  <2> QED BY <1>1, <2>1, <2>2 DEF Ranged
<1>6. CASE Stages(c) \/ AddsOne(c)
  <2>1. ASSUME NEW p, NEW id, Returned(c, p, id)
        PROVE  calls'[c].id = id /\ runtime' = runtime /\ gone' = gone
    BY <2>1 DEF Returned, Carried, CarriedCall
  <2>2. nextPkg \in 1 .. (MaxPackages + 1) /\ nextId \in 1 .. (MaxLinks + 1)
    BY DEF IInv, Core, GlobalOK
  <2>3. Grab(calls[c].files) => nextPkg <= MaxPackages BY DEF Grab, GrabInto
  <2>4. \A d : Add(d) => nextId <= MaxLinks BY DEF Add
  <2>5. PICK id \in Ids : \E p : Returned(c, p, id)
    <3>1. -1 \in Ids BY BoundsAssumption
    <3>2. nextPkg <= MaxPackages => nextPkg \in Ids BY <2>2, BoundsAssumption
    <3>3. nextId <= MaxLinks => nextId \in Ids BY <2>2, BoundsAssumption
    <3> HIDE DEF Ids
    <3> QED BY <1>6, <2>3, <2>4, <3>1, <3>2, <3>3 DEF Stages, AddsOne
  <2>6. calls'[c].id \in Ids /\ runtime' = runtime /\ gone' = gone BY <2>1, <2>5
  <2> QED BY <1>1, <2>6 DEF Ranged
<1> QED BY <1>4, <1>5, <1>6 DEF CallStep

LEMMA SpinInductive == IntakeSpec => []SpinInv
<1>1. IntakeInit => SpinInv
  <2> SUFFICES ASSUME IntakeInit PROVE Spin /\ Ranged
    BY IntakeStarts DEF SpinInv
  <2>1. \A c \in Calls : calls[c].pc = "idle" /\ calls[c].id = 0 BY DEF IntakeInit
  <2>2. BannerBalanced
    <3> SUFFICES ASSUME NEW h \in Hosts
                 PROVE  banner[h] = Cardinality({c \in Calls : calls[c].pc \in Resolving
                                                              /\ HostOf[calls[c].url] = h})
      BY DEF BannerBalanced
    <3>1. {c \in Calls : calls[c].pc \in Resolving /\ HostOf[calls[c].url] = h} = {}
      BY <2>1 DEF Resolving
    <3>2. banner[h] = 0 BY DEF IntakeInit
    <3> QED BY <3>1, <3>2, FS_EmptySet
  <2>3. status \in Seq(Lively) /\ Len(status) <= MaxStatus /\ banner \in [Hosts -> Int]
    BY IntakeAssumption DEF IntakeInit
  <2>4. Ranged
    <3>1. 0 \in -1 .. (MaxLinks + MaxPackages) BY BoundsAssumption
    <3> QED BY <2>1, <3>1 DEF IntakeInit, Ranged
  <2> QED BY <2>2, <2>3, <2>4 DEF Spin
<1>2. SpinInv /\ IntakeInv' /\ [IntakeNext]_allVars => SpinInv'
  <2> SUFFICES ASSUME SpinInv, [IntakeNext]_allVars PROVE Spin' /\ Ranged'
    BY DEF SpinInv
  <2> USE DEF SpinInv, IntakeInv
  <2>1. CASE \E c \in Calls : CallStep(c) BY <2>1, CallSpins, CallRanged
  <2>2. CASE \E c \in Calls, u \in Urls : Begin(c, u)
    <3>1. PICK c \in Calls, u \in Urls : Begin(c, u) BY <2>2
    <3>2. \A d \in Calls : calls'[d].id = calls[d].id
      BY <3>1 DEF Begin, Carried, CarriedCall
    <3> QED BY <3>1, <3>2, BeginSpins DEF Ranged, Begin
  <2>3. CASE ClearActivity
    <3> DEFINE running == {a \in Activity : a.state = "RUNNING"}
    <3>1. status' = Only(status, running) BY <2>3 DEF ClearActivity
    <3>2. status' \in Seq(Lively \cap running) /\ Len(status') <= Len(status)
      <4> HIDE DEF running
      <4> QED BY <3>1, OnlyKeeps DEF Spin
    <3>3. status' \in Seq(Lively) BY <3>2
    <3>4. UNCHANGED <<calls, banner, runtime, gone>> BY <2>3 DEF ClearActivity
    <3>5. Lively' = Lively /\ (BannerBalanced' <=> BannerBalanced) BY <3>4 DEF Lively, BannerBalanced
    <3>6. Len(status') <= MaxStatus
      <4>1. MaxStatus \in Nat /\ Len(status) \in Nat /\ Len(status') \in Nat
        BY <3>3, IntakeAssumption DEF Spin
      <4> QED BY <3>2, <4>1 DEF Spin
    <3> QED BY <3>3, <3>4, <3>5, <3>6 DEF Spin, Ranged
  <2>4. CASE PreparedElsewhere
    <3>1. [key |-> SetupKey, state |-> "DONE"] \in Lively' BY EndedLively
    <3>2. \A d \in Calls : /\ calls'[d].pc \in Resolving <=> calls[d].pc \in Resolving
                           /\ calls[d].pc \in Resolving => calls'[d].url = calls[d].url
                           /\ calls[d].pc = "unpack" /\ SetupKey # SetupKey => calls'[d].pc = "unpack"
      BY <2>4 DEF PreparedElsewhere
    <3>3. Spin' BY <2>4, <3>1, <3>2, UpsertSpins DEF PreparedElsewhere
    <3> QED BY <2>4, <3>3 DEF PreparedElsewhere, Ranged
  <2>5. CASE Close \/ Reviews \/ UNCHANGED allVars
    <3>1. UNCHANGED <<calls, banner, status, runtime>> /\ gone' \subseteq Calls
      BY <2>5 DEF Close, Reviews, intakeVars, allVars, Ranged
    <3>2. Spin' BY <3>1, QuietSpins
    <3> QED BY <3>1, <3>2 DEF Ranged
  <2>6. CASE Death
    <3>1. \A d \in Calls : calls'[d].pc \in {"idle", "ended", "dropped"} /\ calls'[d].id = calls[d].id
      BY <2>6 DEF Death, Carried, CarriedCall
    <3>2. BannerBalanced'
      <4> SUFFICES ASSUME NEW h \in Hosts
                   PROVE  banner'[h] = Cardinality({c \in Calls : calls'[c].pc \in Resolving
                                                                 /\ HostOf[calls'[c].url] = h})
        BY DEF BannerBalanced
      <4>1. {c \in Calls : calls'[c].pc \in Resolving /\ HostOf[calls'[c].url] = h} = {}
        BY <3>1 DEF Resolving
      <4>2. banner'[h] = 0 BY <2>6 DEF Death
      <4> QED BY <4>1, <4>2, FS_EmptySet
    <3>3. status' \in Seq(Lively') /\ Len(status') <= MaxStatus /\ banner' \in [Hosts -> Int]
      BY <2>6, IntakeAssumption DEF Death
    <3>4. Ranged' BY <2>6, <3>1 DEF Death, Ranged
    <3> QED BY <3>2, <3>3, <3>4 DEF Spin
  <2> QED BY <2>1, <2>2, <2>3, <2>4, <2>5, <2>6 DEF IntakeNext
<1> QED BY <1>1, <1>2, IntakeInductive, PTL DEF IntakeSpec

\* What the user sees is what is going on: each host is in the banner as often
\* as it is being resolved, and an entry that spins has its call.
THEOREM SpinnerIsHonest == IntakeSpec => []SpinnerHonest
<1>1. SpinInv => SpinnerHonest
  <2> SUFFICES ASSUME SpinInv PROVE SpinnerHonest
    OBVIOUS
  <2> USE DEF SpinInv, IntakeInv
  <2>1. \A h \in Hosts : banner[h] \in 0 .. Cardinality(Calls)
    <3> SUFFICES ASSUME NEW h \in Hosts PROVE banner[h] \in 0 .. Cardinality(Calls)
      OBVIOUS
    <3> DEFINE busy == {c \in Calls : calls[c].pc \in Resolving /\ HostOf[calls[c].url] = h}
    <3>1. banner[h] = Cardinality(busy) BY DEF Spin, BannerBalanced
    <3>2. Cardinality(busy) \in Nat /\ Cardinality(Calls) \in Nat
          /\ Cardinality(busy) <= Cardinality(Calls)
      <4>1. busy \subseteq Calls OBVIOUS
      <4> HIDE DEF busy
      <4> QED BY <4>1, FS_Subset, FS_CardinalityType, IntakeAssumption
    <3> QED BY <3>1, <3>2
  <2>2. \A k \in DOMAIN status : status[k] \in Lively BY DEF Spin
  <2>3. calls \in [Calls -> Call]
    <3>1. \A c \in Calls : calls[c] \in CarriedCall /\ calls[c].id \in -1 .. (MaxLinks + MaxPackages)
      BY DEF Carried, Ranged
    <3>2. \A c \in Calls : calls[c] \in Call BY <3>1 DEF CarriedCall, Call
    <3> QED BY <3>2 DEF Carried
  <2>4. banner \in [Hosts -> 0 .. Cardinality(Calls)] BY <2>1 DEF Spin
  <2>5. IntakeTypeOK BY <2>2, <2>3, <2>4 DEF IntakeTypeOK, Spin, Ranged, Lively
  <2> QED BY <2>2, <2>5 DEF SpinnerHonest, Spin, Lively
<1> QED BY SpinInductive, <1>1, PTL

---------------------------------------------------------------------------
(* QueueStore *)

---------------------------------------------------------------------------
(* Sequences of statements *)

\* A set that holds 0 and, with a number below N, the next, holds all up to N.
LEMMA UpTo ==
  ASSUME NEW A, NEW N \in Nat, 0 \in A, \A n \in Nat : n < N /\ n \in A => n + 1 \in A
  PROVE  \A n \in 0 .. N : n \in A
<1> DEFINE Bad == {n \in 0 .. N : n \notin A}
<1> SUFFICES ASSUME Bad # {} PROVE FALSE
  OBVIOUS
<1>1. PICK n \in Bad : \A m \in Bad : n <= m
  <2>1. Bad \subseteq Nat OBVIOUS
  <2> HIDE DEF Bad
  <2> QED BY <2>1, LeastNat
<1>2. n \in Nat /\ n <= N /\ n \notin A /\ n # 0 BY <1>1
<1>3. n - 1 \in Nat /\ n - 1 < N /\ n - 1 \in 0 .. N /\ ~ (n <= n - 1) BY <1>2
<1>4. n - 1 \in A BY <1>1, <1>3
<1>5. (n - 1) + 1 \in A BY <1>3, <1>4
<1> QED BY <1>2, <1>5

\* f is the function After runs along, up to the m-th statement.
Runs(d, s, m, f) == f = [n \in 0 .. m |-> IF n = 0 THEN d ELSE Apply(f[n - 1], s[n])]

LEMMA RunsExists ==
  ASSUME NEW d, NEW s, NEW N \in Nat
  PROVE  \E f : Runs(d, s, N, f)
<1> DEFINE A == {m \in Nat : \E f : Runs(d, s, m, f)}
<1>1. 0 \in A
  <2> DEFINE f == [n \in 0 .. 0 |-> d]
  <2>1. \A n \in 0 .. 0 : n = 0 BY SMT
  <2>2. Runs(d, s, 0, f) BY <2>1 DEF Runs
  <2> QED BY <2>2
<1>2. ASSUME NEW k \in Nat, k \in A PROVE k + 1 \in A
  <2>1. PICK g : Runs(d, s, k, g) BY <1>2
  <2> DEFINE Step(h, n) == IF n = 0 THEN d ELSE Apply(h[n - 1], s[n])
             f == [n \in 0 .. (k + 1) |-> Step(g, n)]
  <2>2. \A n \in 0 .. k : n \in 0 .. (k + 1) /\ g[n] = Step(g, n)
    <3>1. g = [n \in 0 .. k |-> Step(g, n)] BY Zenon, <2>1 DEF Runs
    <3> HIDE DEF Step
    <3>2. \A n \in 0 .. k : g[n] = Step(g, n) BY Zenon, <3>1
    <3> QED BY <3>2
  <2>3. \A n \in 0 .. (k + 1) : n # 0 => n - 1 \in 0 .. k OBVIOUS
  <2>4. \A n \in 0 .. k : f[n] = g[n] BY <2>2
  <2>5. \A n \in 0 .. (k + 1) : Step(g, n) = Step(f, n) BY <2>3, <2>4
  <2>6. f = [n \in 0 .. (k + 1) |-> Step(f, n)] BY <2>5
  <2>7. Runs(d, s, k + 1, f) BY Zenon, <2>6 DEF Runs
  <2> QED BY <2>7
<1> HIDE DEF A
<1>3. \A n \in 0 .. N : n \in A BY <1>1, <1>2, UpTo
<1>4. N \in A BY <1>3
<1> QED BY <1>4 DEF A

\* After is the last of a series of states, one statement apart.
LEMMA AfterSeries ==
  ASSUME NEW d, NEW s, NEW B, s \in Seq(B)
  PROVE  \E e : /\ e[0] = d
                /\ \A n \in 1 .. Len(s) : e[n] = Apply(e[n - 1], s[n])
                /\ After(d, s) = e[Len(s)]
<1> DEFINE f == CHOOSE g : Runs(d, s, Len(s), g)
<1>1. Len(s) \in Nat OBVIOUS
<1>2. Runs(d, s, Len(s), f) BY <1>1, RunsExists
<1>3. After(d, s) = f[Len(s)] BY DEF After, Runs
<1> HIDE DEF f
<1>4. f[0] = d BY <1>1, <1>2 DEF Runs
<1>5. \A n \in 1 .. Len(s) : f[n] = Apply(f[n - 1], s[n])
  <2> SUFFICES ASSUME NEW n \in 1 .. Len(s) PROVE f[n] = Apply(f[n - 1], s[n])
    OBVIOUS
  <2>1. n \in 0 .. Len(s) /\ n # 0 BY <1>1
  <2> QED BY <1>2, <2>1 DEF Runs
<1> QED BY <1>3, <1>4, <1>5

\* The same for the function FlattenSeq runs along.
Joins(b, m, f) == f = [n \in 1 .. m |-> IF n = 1 THEN b[n] ELSE f[n - 1] \o b[n]]

LEMMA JoinsExists ==
  ASSUME NEW b, NEW N \in Nat
  PROVE  \E f : Joins(b, N, f)
<1> DEFINE A == {m \in Nat : \E f : Joins(b, m, f)}
<1>1. 0 \in A
  <2> DEFINE f == [n \in 1 .. 0 |-> b]
  <2>1. \A n \in 1 .. 0 : FALSE BY SMT
  <2>2. f = [n \in 1 .. 0 |-> IF n = 1 THEN b[n] ELSE f[n - 1] \o b[n]] BY <2>1
  <2>3. Joins(b, 0, f) BY Zenon, <2>2 DEF Joins
  <2> QED BY <2>3
<1>2. ASSUME NEW k \in Nat, k \in A PROVE k + 1 \in A
  <2>1. PICK g : Joins(b, k, g) BY <1>2
  <2> DEFINE Step(h, n) == IF n = 1 THEN b[n] ELSE h[n - 1] \o b[n]
             f == [n \in 1 .. (k + 1) |-> Step(g, n)]
  <2>2. \A n \in 1 .. k : n \in 1 .. (k + 1) /\ g[n] = Step(g, n)
    <3>1. g = [n \in 1 .. k |-> Step(g, n)] BY Zenon, <2>1 DEF Joins
    <3> HIDE DEF Step
    <3>2. \A n \in 1 .. k : g[n] = Step(g, n) BY Zenon, <3>1
    <3> QED BY <3>2
  <2>3. \A n \in 1 .. (k + 1) : n # 1 => n - 1 \in 1 .. k OBVIOUS
  <2>4. \A n \in 1 .. k : f[n] = g[n] BY <2>2
  <2>5. \A n \in 1 .. (k + 1) : Step(g, n) = Step(f, n) BY <2>3, <2>4
  <2>6. f = [n \in 1 .. (k + 1) |-> Step(f, n)] BY <2>5
  <2>7. Joins(b, k + 1, f) BY Zenon, <2>6 DEF Joins
  <2> QED BY <2>7
<1> HIDE DEF A
<1>3. \A n \in 0 .. N : n \in A BY <1>1, <1>2, UpTo
<1>4. N \in A BY <1>3
<1> QED BY <1>4 DEF A

\* F is made of the blocks b[1] to b[m]: every entry is one of a block, after
\* those before it in its block and those of earlier blocks, and none is missing.
Laid(F, b, m) ==
  /\ \A n \in DOMAIN F : \E q \in 1 .. m : \E k \in DOMAIN b[q] :
       /\ F[n] = b[q][k]
       /\ \A o \in 1 .. q : \A j \in DOMAIN b[o] :
            o < q \/ j < k => \E l \in DOMAIN F : l < n /\ F[l] = b[o][j]
  /\ \A q \in 1 .. m : \A k \in DOMAIN b[q] : \E n \in DOMAIN F : F[n] = b[q][k]

LEMMA LaidOn ==
  ASSUME NEW B, NEW b, NEW m \in Nat, NEW F \in Seq(B), b[m + 1] \in Seq(B), Laid(F, b, m)
  PROVE  F \o b[m + 1] \in Seq(B) /\ Laid(F \o b[m + 1], b, m + 1)
<1> DEFINE t == b[m + 1]
           G == F \o t
<1>1. /\ t \in Seq(B) /\ Len(t) \in Nat /\ Len(F) \in Nat /\ G \in Seq(B)
      /\ DOMAIN t = 1 .. Len(t) /\ DOMAIN F = 1 .. Len(F)
      /\ DOMAIN G = 1 .. (Len(F) + Len(t))
  OBVIOUS
<1>2. /\ \A n \in DOMAIN F : n \in DOMAIN G /\ G[n] = F[n] /\ n \in Nat /\ n <= Len(F)
      /\ \A k \in DOMAIN t : /\ Len(F) + k \in DOMAIN G /\ G[Len(F) + k] = t[k]
                             /\ k \in Nat /\ k > 0
      /\ \A n \in DOMAIN G : n \notin DOMAIN F =>
           n - Len(F) \in DOMAIN t /\ G[n] = t[n - Len(F)] /\ n > Len(F)
  <2>1. \A n \in DOMAIN F : n \in DOMAIN G /\ G[n] = F[n] /\ n \in Nat /\ n <= Len(F)
    BY <1>1
  <2>2. \A k \in DOMAIN t : Len(F) + k \in DOMAIN G /\ G[Len(F) + k] = t[k] /\ k \in Nat /\ k > 0
    BY <1>1
  <2>3. \A n \in DOMAIN G : n \notin DOMAIN F =>
          n - Len(F) \in DOMAIN t /\ G[n] = t[n - Len(F)] /\ n > Len(F)
    BY <1>1
  <2> QED BY <2>1, <2>2, <2>3
<1>3. b[m + 1] = t OBVIOUS
<1> HIDE DEF t, G
<1>4. \A q \in 1 .. (m + 1) : \A k \in DOMAIN b[q] : \E n \in DOMAIN G : G[n] = b[q][k]
  <2> SUFFICES ASSUME NEW q \in 1 .. (m + 1), NEW k \in DOMAIN b[q]
               PROVE  \E n \in DOMAIN G : G[n] = b[q][k]
    OBVIOUS
  <2>1. CASE q = m + 1
    <3>1. k \in DOMAIN t BY <1>3, <2>1
    <3> QED BY <1>2, <1>3, <2>1, <3>1
  <2>2. CASE q # m + 1
    <3>1. q \in 1 .. m BY <2>2
    <3>2. PICK n \in DOMAIN F : F[n] = b[q][k] BY <3>1 DEF Laid
    <3> QED BY <1>2, <3>2
  <2> QED BY <2>1, <2>2
<1>5. ASSUME NEW n \in DOMAIN G
      PROVE  \E q \in 1 .. (m + 1) : \E k \in DOMAIN b[q] :
               /\ G[n] = b[q][k]
               /\ \A o \in 1 .. q : \A j \in DOMAIN b[o] :
                    o < q \/ j < k => \E l \in DOMAIN G : l < n /\ G[l] = b[o][j]
  <2>1. CASE n \in DOMAIN F
    <3>1. PICK q \in 1 .. m : \E k \in DOMAIN b[q] :
            /\ F[n] = b[q][k]
            /\ \A o \in 1 .. q : \A j \in DOMAIN b[o] :
                 o < q \/ j < k => \E l \in DOMAIN F : l < n /\ F[l] = b[o][j]
      BY <2>1 DEF Laid
    <3>2. PICK k \in DOMAIN b[q] :
            /\ F[n] = b[q][k]
            /\ \A o \in 1 .. q : \A j \in DOMAIN b[o] :
                 o < q \/ j < k => \E l \in DOMAIN F : l < n /\ F[l] = b[o][j]
      BY <3>1
    <3>3. \A o \in 1 .. q : \A j \in DOMAIN b[o] :
            o < q \/ j < k => \E l \in DOMAIN G : l < n /\ G[l] = b[o][j]
      BY <1>2, <3>2
    <3>4. q \in 1 .. (m + 1) /\ G[n] = b[q][k] BY <1>2, <2>1, <3>2
    <3> QED BY <3>3, <3>4
  <2>2. CASE n \notin DOMAIN F
    <3> DEFINE k == n - Len(F)
    <3>1. k \in DOMAIN t /\ G[n] = t[k] /\ n > Len(F) /\ n \in Int BY <1>1, <1>2, <2>2
    <3>2. n = Len(F) + k BY <1>1, <3>1
    <3> HIDE DEF k
    <3>3. ASSUME NEW o \in 1 .. (m + 1), NEW j \in DOMAIN b[o], o < m + 1 \/ j < k
          PROVE  \E l \in DOMAIN G : l < n /\ G[l] = b[o][j]
      <4>1. CASE o = m + 1
        <5>1. j \in DOMAIN t /\ j < k BY <1>3, <3>3, <4>1
        <5>2. Len(F) + j \in DOMAIN G /\ G[Len(F) + j] = t[j] BY <1>2, <5>1
        <5>3. Len(F) + j < n BY <1>1, <1>2, <3>1, <3>2, <5>1
        <5> QED BY <1>3, <4>1, <5>2, <5>3
      <4>2. CASE o # m + 1
        <5>1. o \in 1 .. m BY <4>2
        <5>2. PICK l \in DOMAIN F : F[l] = b[o][j] BY <5>1 DEF Laid
        <5>3. l \in DOMAIN G /\ G[l] = b[o][j] /\ l < n BY <1>1, <1>2, <3>1, <5>2
        <5> QED BY <5>3
      <4> QED BY <4>1, <4>2
    <3>4. m + 1 \in 1 .. (m + 1) OBVIOUS
    <3> QED BY <1>3, <3>1, <3>3, <3>4
  <2> QED BY <2>1, <2>2
<1>6. Laid(G, b, m + 1) BY <1>4, <1>5 DEF Laid
<1> QED BY <1>1, <1>6 DEF G, t

LEMMA FlattenLaid ==
  ASSUME NEW B, NEW b \in Seq(Seq(B))
  PROVE  Seqs!FlattenSeq(b) \in Seq(B) /\ Laid(Seqs!FlattenSeq(b), b, Len(b))
<1> DEFINE F == Seqs!FlattenSeq(b)
<1>0. Len(b) \in Nat /\ \A n \in 1 .. Len(b) : b[n] \in Seq(B) OBVIOUS
<1>1. CASE Len(b) = 0
  <2>1. F = b BY <1>1 DEF Seqs!FlattenSeq
  <2>2. b = <<>> BY <1>1
  <2>3. F \in Seq(B) /\ DOMAIN F = {} BY <2>1, <2>2
  <2>4. \A n \in 1 .. Len(b) : FALSE BY <1>1
  <2> QED BY <2>3, <2>4 DEF Laid
<1>2. CASE Len(b) # 0
  <2> DEFINE f == CHOOSE g : Joins(b, Len(b), g)
  <2>1. Joins(b, Len(b), f) BY <1>0, JoinsExists
  <2>2. F = f[Len(b)] BY <1>2 DEF Seqs!FlattenSeq, Joins
  <2> HIDE DEF f, F
  <2>3. \A n \in 1 .. Len(b) : f[n] = IF n = 1 THEN b[n] ELSE f[n - 1] \o b[n]
    BY <2>1 DEF Joins
  <2> DEFINE Good(n) == f[n + 1] \in Seq(B) /\ Laid(f[n + 1], b, n + 1)
             A == {n \in Nat : Good(n)}
  <2>4. Len(b) - 1 \in Nat BY <1>0, <1>2
  <2>5. 0 \in A
    <3>1. 1 \in 1 .. Len(b) BY <1>0, <1>2
    <3>2. f[1] = b[1] BY <2>3, <3>1
    <3>3. <<>> \in Seq(B) /\ Laid(<<>>, b, 0) BY DEF Laid
    <3>4. b[0 + 1] \in Seq(B) BY <1>0, <3>1
    <3>5. <<>> \o b[0 + 1] \in Seq(B) /\ Laid(<<>> \o b[0 + 1], b, 0 + 1)
      BY <3>3, <3>4, LaidOn
    <3>6. <<>> \o b[0 + 1] = b[1] BY <3>4
    <3>7. f[0 + 1] = <<>> \o b[0 + 1] BY <3>2, <3>6
    <3> QED BY <3>5, <3>7
  <2>6. ASSUME NEW n \in Nat, n < Len(b) - 1, n \in A PROVE n + 1 \in A
    <3>1. n + 2 \in 1 .. Len(b) /\ n + 2 # 1 /\ (n + 2) - 1 = n + 1 /\ n + 1 \in Nat
          /\ (n + 1) + 1 = n + 2
      BY <1>0, <2>6
    <3>2. f[n + 2] = f[n + 1] \o b[n + 2] BY <2>3, <3>1
    <3>3. b[(n + 1) + 1] \in Seq(B) BY <1>0, <3>1
    <3>4. f[n + 1] \in Seq(B) /\ Laid(f[n + 1], b, n + 1) BY <2>6
    <3>5. /\ f[n + 1] \o b[(n + 1) + 1] \in Seq(B)
          /\ Laid(f[n + 1] \o b[(n + 1) + 1], b, (n + 1) + 1)
      BY <3>1, <3>3, <3>4, LaidOn
    <3>6. f[(n + 1) + 1] = f[n + 1] \o b[(n + 1) + 1] BY <3>1, <3>2
    <3> QED BY <3>1, <3>5, <3>6
  <2> HIDE DEF A
  <2>7. \A n \in 0 .. (Len(b) - 1) : n \in A BY <2>4, <2>5, <2>6, UpTo
  <2>8. Len(b) - 1 \in A BY <2>4, <2>7
  <2>9. (Len(b) - 1) + 1 = Len(b) BY <1>0
  <2> QED BY <2>2, <2>8, <2>9 DEF A, F
<1> QED BY <1>1, <1>2

\* A sequence of SetToSeqs(S) is a sequence of S, and holds all of S.
LEMMA OrderHolds ==
  ASSUME NEW S, IsFiniteSet(S), NEW order \in Seqs!SetToSeqs(S)
  PROVE  /\ order \in Seq(S)
         /\ \A n, m \in DOMAIN order : order[n] = order[m] => n = m
         /\ \A x \in S : \E n \in DOMAIN order : order[n] = x
<1> DEFINE N == Cardinality(S)
<1>1. N \in Nat BY FS_CardinalityType
<1>2. Seqs!Cardinality(S) = N BY DEF Seqs!Cardinality, Cardinality
<1>3. /\ order \in [1 .. N -> S]
      /\ \A n, m \in 1 .. N : n # m => order[n] # order[m]
  BY <1>2 DEF Seqs!SetToSeqs
<1>4. order \in Injection(1 .. N, S)
  BY <1>3 DEF Injection, IsInjective
<1>5. Cardinality(1 .. N) = N
  <2>1. Cardinality(1 .. N) = IF 1 > N THEN 0 ELSE N - 1 + 1 BY <1>1, FS_Interval
  <2> HIDE DEF N
  <2> QED BY <1>1, <2>1
<1>6. order \in Surjection(1 .. N, S) BY <1>4, <1>5, FS_Injection
<1> HIDE DEF N
<1>7. \A x \in S : \E n \in 1 .. N : order[n] = x
  BY <1>6 DEF Surjection
<1>8. order \in Seq(S) /\ DOMAIN order = 1 .. N BY <1>1, <1>3
<1> QED BY <1>3, <1>7, <1>8

\* F is made of the blocks g[x], for x in S: every entry is one of a block, after
\* those before it in its block, and none is missing.
Made(F, S, g) ==
  /\ \A n \in DOMAIN F : \E x \in S : \E k \in DOMAIN g[x] :
       /\ F[n] = g[x][k]
       /\ \A j \in DOMAIN g[x] : j < k => \E l \in DOMAIN F : l < n /\ F[l] = g[x][j]
  /\ \A x \in S : \A k \in DOMAIN g[x] : \E n \in DOMAIN F : F[n] = g[x][k]

LEMMA ListingMade ==
  ASSUME NEW S, IsFiniteSet(S), NEW order \in Seqs!SetToSeqs(S), NEW B, NEW g,
         \A x \in S : g[x] \in Seq(B),
         NEW b, b = [n \in DOMAIN order |-> g[order[n]]]
  PROVE  Seqs!FlattenSeq(b) \in Seq(B) /\ Made(Seqs!FlattenSeq(b), S, g)
<1>1. /\ order \in Seq(S) /\ \A x \in S : \E n \in DOMAIN order : order[n] = x
      /\ DOMAIN order = 1 .. Len(order) /\ Len(order) \in Nat
  BY OrderHolds
<1>2. b \in Seq(Seq(B)) /\ Len(b) = Len(order)
  <2>1. \A n \in DOMAIN order : g[order[n]] \in Seq(B) BY <1>1
  <2>2. b = [n \in 1 .. Len(order) |-> g[order[n]]] BY <1>1
  <2>3. b \in [1 .. Len(order) -> Seq(B)] BY <1>1, <2>1, <2>2
  <2> QED BY <1>1, <2>3
<1> DEFINE F == Seqs!FlattenSeq(b)
<1>3. F \in Seq(B) /\ Laid(F, b, Len(b)) BY <1>2, FlattenLaid
<1> HIDE DEF F
<1>4. ASSUME NEW n \in DOMAIN F
      PROVE  \E x \in S : \E k \in DOMAIN g[x] :
               /\ F[n] = g[x][k]
               /\ \A j \in DOMAIN g[x] : j < k => \E l \in DOMAIN F : l < n /\ F[l] = g[x][j]
  <2>1. PICK q \in 1 .. Len(b) : \E k \in DOMAIN b[q] :
          /\ F[n] = b[q][k]
          /\ \A o \in 1 .. q : \A j \in DOMAIN b[o] :
               o < q \/ j < k => \E l \in DOMAIN F : l < n /\ F[l] = b[o][j]
    BY <1>3 DEF Laid
  <2>2. PICK k \in DOMAIN b[q] :
          /\ F[n] = b[q][k]
          /\ \A o \in 1 .. q : \A j \in DOMAIN b[o] :
               o < q \/ j < k => \E l \in DOMAIN F : l < n /\ F[l] = b[o][j]
    BY <2>1
  <2>3. q \in DOMAIN order /\ b[q] = g[order[q]] /\ order[q] \in S /\ q \in 1 .. q
    BY <1>1, <1>2
  <2> QED BY <2>2, <2>3
<1>5. ASSUME NEW x \in S, NEW k \in DOMAIN g[x] PROVE \E n \in DOMAIN F : F[n] = g[x][k]
  <2>1. PICK q \in DOMAIN order : order[q] = x BY <1>1
  <2>2. q \in 1 .. Len(b) /\ b[q] = g[x] BY <1>1, <1>2, <2>1
  <2>3. \A j \in DOMAIN b[q] : \E n \in DOMAIN F : F[n] = b[q][j]
    BY <1>3, <2>2 DEF Laid
  <2> QED BY <2>2, <2>3
<1> QED BY <1>3, <1>4, <1>5 DEF Made, F

---------------------------------------------------------------------------
(* Statements that lead from one state of a table to another *)

\* A table as sqlite returns it: a function whose values are functions.
Table(f) == /\ f = [x \in DOMAIN f |-> f[x]]
            /\ \A x \in DOMAIN f : f[x] = [c \in DOMAIN f[x] |-> f[x][c]]

\* After the k-th, s has such a statement on row x of table t.
Pends(s, k, t, op, x) ==
  \E n \in DOMAIN s : n > k /\ s[n].table = t /\ s[n].op = op /\ s[n].id = x
Writes(s, k, t, x, c) ==
  \E n \in DOMAIN s : /\ n > k /\ s[n].table = t /\ s[n].op = "update" /\ s[n].id = x
                      /\ c \in DOMAIN s[n].cols

\* What the statement leaves in its row is what F has there.
Toward(st, F) ==
  \/ st.op = "insert" /\ st.id \in DOMAIN F /\ st.cols = F[st.id]
  \/ /\ st.op = "update" /\ st.id \in DOMAIN F
     /\ \A c \in DOMAIN st.cols : c \in DOMAIN F[st.id] /\ st.cols[c] = F[st.id][c]
  \/ st.op = "delete" /\ st.id \notin DOMAIN F

\* The statements on t after the k-th leave nothing that F does not have, and
\* miss no difference between f and F; their order does not matter.
Leads(s, k, t, f, F) ==
  /\ Table(f) /\ Table(F)
  /\ \A n \in DOMAIN s : n > k /\ s[n].table = t => Toward(s[n], F)
  /\ \A x \in DOMAIN F :
       \/ Pends(s, k, t, "insert", x)
       \/ /\ x \in DOMAIN f /\ DOMAIN f[x] = DOMAIN F[x]
          /\ \A c \in DOMAIN F[x] : f[x][c] = F[x][c] \/ Writes(s, k, t, x, c)
  /\ \A x \in DOMAIN f \ DOMAIN F : Pends(s, k, t, "delete", x)

\* One statement on.
LEMMA LeadsOn ==
  ASSUME NEW B, NEW s \in Seq(B), NEW k \in Nat, k + 1 \in DOMAIN s, NEW t, NEW f, NEW F,
         Leads(s, k, t, f, F)
  PROVE  Leads(s, k + 1, t, IF s[k + 1].table = t THEN Changed(f, s[k + 1]) ELSE f, F)
<1> DEFINE st == s[k + 1]
           g == IF st.table = t THEN Changed(f, st) ELSE f
<1>0. \A n \in DOMAIN s : n \in Nat /\ (n > k => n = k + 1 \/ n > k + 1) OBVIOUS
<1>1. CASE st.table # t
  <2>1. \A x, op : Pends(s, k, t, op, x) => Pends(s, k + 1, t, op, x)
    BY <1>0, <1>1 DEF Pends
  <2>2. \A x, c : Writes(s, k, t, x, c) => Writes(s, k + 1, t, x, c)
    BY <1>0, <1>1 DEF Writes
  <2>3. \A n \in DOMAIN s : n > k + 1 => n > k BY <1>0
  <2> QED BY <1>1, <2>1, <2>2, <2>3 DEF Leads
<1>2. CASE st.table = t
  <2>0. g = Changed(f, st) BY <1>2
  <2>1. Toward(st, F)
    <3>1. k + 1 > k OBVIOUS
    <3> QED BY <1>2, <3>1 DEF Leads
  <2>2. \A n \in DOMAIN s : n > k + 1 => n > k BY <1>0
  <2>3. \A x, op : Pends(s, k, t, op, x) =>
          Pends(s, k + 1, t, op, x) \/ (st.op = op /\ st.id = x)
    BY <1>0 DEF Pends
  <2>4. \A x, c : Writes(s, k, t, x, c) =>
          Writes(s, k + 1, t, x, c) \/ (st.op = "update" /\ st.id = x /\ c \in DOMAIN st.cols)
    BY <1>0 DEF Writes
  <2>5. Table(f) /\ Table(F) BY DEF Leads
  <2> HIDE DEF st, g
  <2>6. CASE st.op = "insert"
    <3>1. st.id \in DOMAIN F /\ st.cols = F[st.id] BY <2>1, <2>6 DEF Toward
    <3>2. g = [x \in DOMAIN f \cup {st.id} |-> IF x = st.id THEN st.cols ELSE f[x]]
      BY <2>0, <2>6 DEF Changed
    <3>3. Table(g)
      <4>1. DOMAIN g = DOMAIN f \cup {st.id} BY <3>2
      <4>2. \A x \in DOMAIN g : g[x] = IF x = st.id THEN F[st.id] ELSE f[x] BY <3>1, <3>2
      <4>3. g = [x \in DOMAIN g |-> g[x]] BY <3>2
      <4>4. \A x \in DOMAIN g : g[x] = [c \in DOMAIN g[x] |-> g[x][c]]
        BY <2>5, <3>1, <4>1, <4>2 DEF Table
      <4> QED BY <4>3, <4>4 DEF Table
    <3>4. \A x \in DOMAIN F : \/ Pends(s, k + 1, t, "insert", x)
            \/ /\ x \in DOMAIN g /\ DOMAIN g[x] = DOMAIN F[x]
               /\ \A c \in DOMAIN F[x] : g[x][c] = F[x][c] \/ Writes(s, k + 1, t, x, c)
      <4> SUFFICES ASSUME NEW x \in DOMAIN F, ~ Pends(s, k + 1, t, "insert", x)
                   PROVE  /\ x \in DOMAIN g /\ DOMAIN g[x] = DOMAIN F[x]
                          /\ \A c \in DOMAIN F[x] :
                               g[x][c] = F[x][c] \/ Writes(s, k + 1, t, x, c)
        OBVIOUS
      <4>1. CASE x = st.id BY <3>1, <3>2, <4>1
      <4>2. CASE x # st.id
        <5>1. ~ Pends(s, k, t, "insert", x) BY <2>3, <4>2
        <5>2. x \in DOMAIN f /\ g[x] = f[x] /\ DOMAIN f[x] = DOMAIN F[x]
          BY <3>2, <4>2, <5>1 DEF Leads
        <5>3. \A c \in DOMAIN F[x] : f[x][c] = F[x][c] \/ Writes(s, k, t, x, c)
          BY <5>1 DEF Leads
        <5> QED BY <2>4, <3>2, <4>2, <5>2, <5>3
      <4> QED BY <4>1, <4>2
    <3>5. \A x \in DOMAIN g \ DOMAIN F : Pends(s, k + 1, t, "delete", x)
      BY <2>3, <2>6, <3>1, <3>2 DEF Leads
    <3>6. \A n \in DOMAIN s : n > k + 1 /\ s[n].table = t => Toward(s[n], F)
      BY <2>2 DEF Leads
    <3>7. Leads(s, k + 1, t, g, F) BY <2>5, <3>3, <3>4, <3>5, <3>6 DEF Leads
    <3> QED BY <3>7 DEF g, st
  <2>7. CASE st.op = "update"
    <3>1. /\ st.id \in DOMAIN F
          /\ \A c \in DOMAIN st.cols : c \in DOMAIN F[st.id] /\ st.cols[c] = F[st.id][c]
      BY <2>1, <2>7 DEF Toward
    <3>2. g = IF st.id \in DOMAIN f
              THEN [f EXCEPT ![st.id] = Overlay(st.cols, f[st.id])] ELSE f
      BY <2>0, <2>7 DEF Changed
    <3>3. /\ DOMAIN g = DOMAIN f /\ g = [x \in DOMAIN g |-> g[x]]
          /\ \A x \in DOMAIN g : x # st.id => g[x] = f[x]
          /\ st.id \in DOMAIN g =>
               g[st.id] = [c \in DOMAIN f[st.id] |->
                             IF c \in DOMAIN st.cols THEN st.cols[c] ELSE f[st.id][c]]
      BY <2>5, <3>2 DEF Table, Overlay
    <3>4. \A x \in DOMAIN g : DOMAIN g[x] = DOMAIN f[x] /\ g[x] = [c \in DOMAIN g[x] |-> g[x][c]]
      BY <2>5, <3>3 DEF Table
    <3>5. \A x \in DOMAIN F : \/ Pends(s, k + 1, t, "insert", x)
            \/ /\ x \in DOMAIN g /\ DOMAIN g[x] = DOMAIN F[x]
               /\ \A c \in DOMAIN F[x] : g[x][c] = F[x][c] \/ Writes(s, k + 1, t, x, c)
      <4> SUFFICES ASSUME NEW x \in DOMAIN F, ~ Pends(s, k + 1, t, "insert", x)
                   PROVE  /\ x \in DOMAIN g /\ DOMAIN g[x] = DOMAIN F[x]
                          /\ \A c \in DOMAIN F[x] :
                               g[x][c] = F[x][c] \/ Writes(s, k + 1, t, x, c)
        OBVIOUS
      <4>1. ~ Pends(s, k, t, "insert", x) BY <2>3, <2>7
      <4>2. x \in DOMAIN g /\ DOMAIN f[x] = DOMAIN F[x] /\ DOMAIN g[x] = DOMAIN F[x]
        BY <3>3, <3>4, <4>1 DEF Leads
      <4>3. ASSUME NEW c \in DOMAIN F[x] PROVE g[x][c] = F[x][c] \/ Writes(s, k + 1, t, x, c)
        <5>1. f[x][c] = F[x][c] \/ Writes(s, k, t, x, c) BY <4>1 DEF Leads
        <5>2. CASE x = st.id /\ c \in DOMAIN st.cols
          BY <3>1, <3>3, <4>2, <5>2
        <5>3. CASE ~ (x = st.id /\ c \in DOMAIN st.cols)
          <6>1. g[x][c] = f[x][c]
            <7>1. CASE x = st.id BY <3>3, <4>2, <5>3, <7>1
            <7>2. CASE x # st.id BY <3>3, <4>2, <7>2
            <7> QED BY <7>1, <7>2
          <6> QED BY <2>4, <5>1, <5>3, <6>1
        <5> QED BY <5>2, <5>3
      <4> QED BY <4>2, <4>3
    <3>6. \A x \in DOMAIN g \ DOMAIN F : Pends(s, k + 1, t, "delete", x)
      BY <2>3, <2>7, <3>3 DEF Leads
    <3>7. \A n \in DOMAIN s : n > k + 1 /\ s[n].table = t => Toward(s[n], F)
      BY <2>2 DEF Leads
    <3>8. Table(g) BY <3>3, <3>4 DEF Table
    <3>9. Leads(s, k + 1, t, g, F) BY <2>5, <3>5, <3>6, <3>7, <3>8 DEF Leads
    <3> QED BY <3>9 DEF g, st
  <2>8. CASE st.op = "delete"
    <3>1. st.id \notin DOMAIN F BY <2>1, <2>8 DEF Toward
    <3>2. g = [x \in DOMAIN f \ {st.id} |-> f[x]] BY <2>0, <2>8 DEF Changed, Without
    <3>3. Table(g)
      <4>1. DOMAIN g = DOMAIN f \ {st.id} /\ \A x \in DOMAIN g : g[x] = f[x] BY <3>2
      <4> QED BY <2>5, <3>2, <4>1 DEF Table
    <3>4. \A x \in DOMAIN F : \/ Pends(s, k + 1, t, "insert", x)
            \/ /\ x \in DOMAIN g /\ DOMAIN g[x] = DOMAIN F[x]
               /\ \A c \in DOMAIN F[x] : g[x][c] = F[x][c] \/ Writes(s, k + 1, t, x, c)
      <4> SUFFICES ASSUME NEW x \in DOMAIN F, ~ Pends(s, k + 1, t, "insert", x)
                   PROVE  /\ x \in DOMAIN g /\ DOMAIN g[x] = DOMAIN F[x]
                          /\ \A c \in DOMAIN F[x] :
                               g[x][c] = F[x][c] \/ Writes(s, k + 1, t, x, c)
        OBVIOUS
      <4>1. ~ Pends(s, k, t, "insert", x) BY <2>3, <2>8
      <4>2. x # st.id BY <3>1
      <4>3. x \in DOMAIN f /\ g[x] = f[x] /\ x \in DOMAIN g /\ DOMAIN f[x] = DOMAIN F[x]
        BY <3>2, <4>1, <4>2 DEF Leads
      <4>4. \A c \in DOMAIN F[x] : f[x][c] = F[x][c] \/ Writes(s, k, t, x, c)
        BY <4>1 DEF Leads
      <4> QED BY <2>4, <2>8, <4>3, <4>4
    <3>5. \A x \in DOMAIN g \ DOMAIN F : Pends(s, k + 1, t, "delete", x)
      BY <2>3, <3>2 DEF Leads
    <3>6. \A n \in DOMAIN s : n > k + 1 /\ s[n].table = t => Toward(s[n], F)
      BY <2>2 DEF Leads
    <3>7. Leads(s, k + 1, t, g, F) BY <2>5, <3>3, <3>4, <3>5, <3>6 DEF Leads
    <3> QED BY <3>7 DEF g, st
  <2> QED BY <2>1, <2>6, <2>7, <2>8 DEF Toward
<1> QED BY <1>1, <1>2

\* All statements through: the table is what it was to be.
LEMMA LeadsThere ==
  ASSUME NEW B, NEW s \in Seq(B), NEW t, NEW f, NEW F, Leads(s, Len(s), t, f, F)
  PROVE  f = F
<1>1. \A n \in DOMAIN s : ~ (n > Len(s)) OBVIOUS
<1>2. (\A op, x : ~ Pends(s, Len(s), t, op, x)) /\ \A x, c : ~ Writes(s, Len(s), t, x, c)
  BY <1>1 DEF Pends, Writes
<1>3. DOMAIN f = DOMAIN F BY <1>2 DEF Leads
<1>4. ASSUME NEW x \in DOMAIN F PROVE f[x] = F[x]
  <2>1. DOMAIN f[x] = DOMAIN F[x] /\ \A c \in DOMAIN F[x] : f[x][c] = F[x][c]
    BY <1>2, <1>4 DEF Leads
  <2>2. f[x] = [c \in DOMAIN f[x] |-> f[x][c]] /\ F[x] = [c \in DOMAIN F[x] |-> F[x][c]]
    BY <1>3, <1>4 DEF Leads, Table
  <2> QED BY <2>1, <2>2
<1>5. f = [x \in DOMAIN f |-> f[x]] /\ F = [x \in DOMAIN F |-> F[x]] BY DEF Leads, Table
<1> QED BY <1>3, <1>4, <1>5

---------------------------------------------------------------------------
(* What is on disk *)

IsDisk(d) == d = [downloads |-> d.downloads, packages |-> d.packages,
                  parts |-> d.parts, columns |-> d.columns]

Known(st) == st.table \in {"downloads", "packages", "parts", "columns"}

\* e is d after the statement st, table by table.
Stepped(d, st, e) ==
  /\ IsDisk(e)
  /\ e.downloads = IF st.table = "downloads" THEN Changed(d.downloads, st) ELSE d.downloads
  /\ e.packages = IF st.table = "packages" THEN Changed(d.packages, st) ELSE d.packages
  /\ e.parts = IF st.table = "parts" THEN d.parts \ {st.id} ELSE d.parts
  /\ e.columns = IF st.table = "columns" THEN d.columns \cup {st.id} ELSE d.columns

LEMMA Applied ==
  ASSUME NEW d, IsDisk(d), NEW st, Known(st), NEW e, e = Apply(d, st)
  PROVE  Stepped(d, st, e)
<1> DEFINE f == Changed(d.downloads, st)
           g == Changed(d.packages, st)
<1>1. CASE st.table = "downloads"
  <2>1. e = [d EXCEPT !.downloads = f] BY <1>1 DEF Apply
  <2> HIDE DEF f
  <2>2. e = [downloads |-> f, packages |-> d.packages, parts |-> d.parts,
             columns |-> d.columns] BY <2>1 DEF IsDisk
  <2> QED BY <1>1, <2>2 DEF f, IsDisk, Stepped
<1>2. CASE st.table = "packages"
  <2>1. e = [d EXCEPT !.packages = g] BY <1>2 DEF Apply
  <2> HIDE DEF g
  <2>2. e = [downloads |-> d.downloads, packages |-> g, parts |-> d.parts,
             columns |-> d.columns] BY <2>1 DEF IsDisk
  <2> QED BY <1>2, <2>2 DEF g, IsDisk, Stepped
<1>3. CASE st.table = "parts"
  <2>1. e = [d EXCEPT !.parts = @ \ {st.id}] BY <1>3 DEF Apply
  <2>2. e = [downloads |-> d.downloads, packages |-> d.packages, parts |-> d.parts \ {st.id},
             columns |-> d.columns] BY <2>1 DEF IsDisk
  <2> QED BY <1>3, <2>2 DEF IsDisk, Stepped
<1>4. CASE st.table = "columns"
  <2>1. e = [d EXCEPT !.columns = @ \cup {st.id}] BY <1>4 DEF Apply
  <2>2. e = [downloads |-> d.downloads, packages |-> d.packages, parts |-> d.parts,
             columns |-> d.columns \cup {st.id}] BY <2>1 DEF IsDisk
  <2> QED BY <1>4, <2>2 DEF IsDisk, Stepped
<1> QED BY <1>1, <1>2, <1>3, <1>4 DEF Known

\* The part files that the statements after the k-th remove.
Unlinked(s, k) == {s[n].id : n \in {m \in DOMAIN s : m > k /\ s[m].table = "parts"}}

\* The statements after the k-th bring d to the tables f and g and part files P.
Brings(s, k, d, f, g, P) ==
  /\ IsDisk(d)
  /\ \A n \in DOMAIN s : n > k => Known(s[n])
  /\ Leads(s, k, "downloads", d.downloads, f)
  /\ Leads(s, k, "packages", d.packages, g)
  /\ P = d.parts \ Unlinked(s, k)

LEMMA BringsOn ==
  ASSUME NEW B, NEW s \in Seq(B), NEW k \in Nat, k + 1 \in DOMAIN s, NEW d, NEW f, NEW g, NEW P,
         Brings(s, k, d, f, g, P), NEW e, e = Apply(d, s[k + 1])
  PROVE  Brings(s, k + 1, e, f, g, P)
<1> DEFINE st == s[k + 1]
<1>0. \A n \in DOMAIN s : n \in Nat /\ (n > k <=> n = k + 1 \/ n > k + 1) OBVIOUS
<1>1. Known(st) BY <1>0 DEF Brings
<1>2. /\ Leads(s, k + 1, "downloads",
               IF st.table = "downloads" THEN Changed(d.downloads, st) ELSE d.downloads, f)
      /\ Leads(s, k + 1, "packages",
               IF st.table = "packages" THEN Changed(d.packages, st) ELSE d.packages, g)
  BY LeadsOn DEF Brings
<1>3. P = (IF st.table = "parts" THEN d.parts \ {st.id} ELSE d.parts) \ Unlinked(s, k + 1)
  <2>1. Unlinked(s, k) = Unlinked(s, k + 1) \cup (IF st.table = "parts" THEN {st.id} ELSE {})
    BY <1>0 DEF Unlinked
  <2>2. P = d.parts \ Unlinked(s, k) BY DEF Brings
  <2> HIDE DEF st
  <2> QED BY <2>1, <2>2
<1>4. \A n \in DOMAIN s : n > k + 1 => Known(s[n])
  BY <1>0 DEF Brings
<1>6. IsDisk(d) /\ e = Apply(d, st) BY DEF Brings
<1> HIDE DEF st
<1>8. Stepped(d, st, e) BY <1>1, <1>6, Applied
<1> QED BY <1>2, <1>3, <1>4, <1>8 DEF Brings, Stepped

\* Statements that bring d to the tables f and g and the part files P do so.
LEMMA BringsAfter ==
  ASSUME NEW B, NEW s \in Seq(B), NEW d, NEW f, NEW g, NEW P, Brings(s, 0, d, f, g, P)
  PROVE  After(d, s).downloads = f /\ After(d, s).packages = g /\ After(d, s).parts = P
<1>1. PICK e : /\ e[0] = d
               /\ \A n \in 1 .. Len(s) : e[n] = Apply(e[n - 1], s[n])
               /\ After(d, s) = e[Len(s)]
  BY ZenonT(60), AfterSeries
<1> DEFINE A == {n \in Nat : Brings(s, n, e[n], f, g, P)}
<1>2. Len(s) \in Nat /\ DOMAIN s = 1 .. Len(s) OBVIOUS
<1>3. 0 \in A BY <1>1
<1>4. ASSUME NEW n \in Nat, n < Len(s), n \in A PROVE n + 1 \in A
  <2>1. n + 1 \in DOMAIN s /\ n + 1 \in 1 .. Len(s) /\ (n + 1) - 1 = n BY <1>2, <1>4
  <2>2. e[n + 1] = Apply(e[n], s[n + 1]) BY <1>1, <2>1
  <2>3. Brings(s, n, e[n], f, g, P) BY <1>4
  <2>4. Brings(s, n + 1, e[n + 1], f, g, P) BY <2>1, <2>2, <2>3, BringsOn
  <2> QED BY <2>4
<1> HIDE DEF A
<1>5. \A n \in 0 .. Len(s) : n \in A BY <1>2, <1>3, <1>4, UpTo
<1>6. Len(s) \in A BY <1>2, <1>5
<1> DEFINE l == e[Len(s)]
<1>7. Brings(s, Len(s), l, f, g, P) BY <1>6 DEF A
<1> HIDE DEF l
<1>8. Unlinked(s, Len(s)) = {} BY <1>2 DEF Unlinked
<1>9. l.downloads = f /\ l.packages = g BY <1>7, LeadsThere DEF Brings
<1>10. l.parts = P BY <1>7, <1>8 DEF Brings
<1> QED BY <1>1, <1>9, <1>10 DEF l

\* What is pending after the first is pending in the tail.
LEMMA TailPends ==
  ASSUME NEW B, NEW s \in Seq(B), s # <<>>, NEW u, u = Tail(s)
  PROVE  /\ u \in Seq(B)
         /\ \A n \in DOMAIN u : n + 1 \in DOMAIN s /\ u[n] = s[n + 1] /\ n \in Nat /\ n > 0
         /\ \A n \in DOMAIN s : n # 1 => n - 1 \in DOMAIN u /\ u[n - 1] = s[n] /\ n > 1
         /\ \A t, op, x : Pends(s, 1, t, op, x) <=> Pends(u, 0, t, op, x)
         /\ \A t, x, c : Writes(s, 1, t, x, c) <=> Writes(u, 0, t, x, c)
         /\ Unlinked(s, 1) = Unlinked(u, 0)
         /\ 1 \in DOMAIN s /\ Head(s) = s[1]
<1>1. /\ u \in Seq(B)
      /\ \A n \in DOMAIN u : n + 1 \in DOMAIN s /\ u[n] = s[n + 1] /\ n \in Nat /\ n > 0
      /\ \A n \in DOMAIN s : n # 1 => n - 1 \in DOMAIN u /\ u[n - 1] = s[n] /\ n > 1
  OBVIOUS
<1>2. \A n \in DOMAIN s : n > 1 <=> n # 1 OBVIOUS
<1>3. \A n \in DOMAIN u : n + 1 > 1 /\ n > 0 BY <1>1
<1>4. \A n \in DOMAIN s : n > 1 => n - 1 > 0 BY <1>2
<1>5. \A t, op, x : Pends(s, 1, t, op, x) <=> Pends(u, 0, t, op, x)
  BY <1>1, <1>2, <1>3, <1>4 DEF Pends
<1>6. \A t, x, c : Writes(s, 1, t, x, c) <=> Writes(u, 0, t, x, c)
  BY <1>1, <1>2, <1>3, <1>4 DEF Writes
<1>7. Unlinked(s, 1) = Unlinked(u, 0)
  BY <1>1, <1>2, <1>3, <1>4 DEF Unlinked
<1>8. 1 \in DOMAIN s /\ Head(s) = s[1] OBVIOUS
<1> QED BY <1>1, <1>5, <1>6, <1>7, <1>8

\* A column makes no difference to the tables.
LEMMA BringsSkip ==
  ASSUME NEW B, NEW s \in Seq(B), NEW k \in Nat, k + 1 \in DOMAIN s, s[k + 1].table = "columns",
         NEW d, NEW f, NEW g, NEW P, Brings(s, k, d, f, g, P)
  PROVE  Brings(s, k + 1, d, f, g, P)
<1>0. \A n \in DOMAIN s : n \in Nat /\ (n > k <=> n = k + 1 \/ n > k + 1) OBVIOUS
<1>1. /\ Leads(s, k + 1, "downloads",
               IF s[k + 1].table = "downloads" THEN Changed(d.downloads, s[k + 1])
               ELSE d.downloads, f)
      /\ Leads(s, k + 1, "packages",
               IF s[k + 1].table = "packages" THEN Changed(d.packages, s[k + 1])
               ELSE d.packages, g)
  BY LeadsOn DEF Brings
<1>2. Leads(s, k + 1, "downloads", d.downloads, f) /\ Leads(s, k + 1, "packages", d.packages, g)
  BY <1>1
<1>3. Unlinked(s, k) = Unlinked(s, k + 1) BY <1>0 DEF Unlinked
<1>4. \A n \in DOMAIN s : n > k + 1 => Known(s[n]) BY <1>0 DEF Brings
<1> QED BY <1>2, <1>3, <1>4 DEF Brings

\* The next statement, or a column that was there, leaves the rest to the tail.
LEMMA BringsTail ==
  ASSUME NEW B, NEW s \in Seq(B), s # <<>>, NEW d, NEW f, NEW g, NEW P,
         Brings(s, 0, d, f, g, P),
         NEW e, e = Apply(d, Head(s)) \/ (Head(s).table = "columns" /\ e = d)
  PROVE  Brings(Tail(s), 0, e, f, g, P)
<1> DEFINE u == Tail(s)
<1>1. 0 + 1 \in DOMAIN s /\ 0 + 1 = 1 /\ 0 \in Nat /\ Head(s) = s[1] OBVIOUS
<1>3. Brings(s, 1, e, f, g, P)
  <2>1. CASE e = Apply(d, s[1])
    <3>1. e = Apply(d, s[0 + 1]) BY <1>1, <2>1
    <3>2. Brings(s, 0 + 1, e, f, g, P) BY <1>1, <3>1, BringsOn
    <3> QED BY <1>1, <3>2
  <2>2. CASE s[1].table = "columns" /\ e = d
    <3>1. Brings(s, 0 + 1, d, f, g, P) BY <1>1, <2>2, BringsSkip
    <3> QED BY <1>1, <2>2, <3>1
  <2> QED BY <1>1, <2>1, <2>2
<1>4. u = Tail(s) OBVIOUS
<1> HIDE DEF u
<1>5. \A n \in DOMAIN u : n + 1 \in DOMAIN s /\ u[n] = s[n + 1] /\ n \in Nat /\ n > 0
  BY <1>4, TailPends
<1>6. \A t, op, x : Pends(s, 1, t, op, x) => Pends(u, 0, t, op, x) BY <1>4, TailPends
<1>7. \A t, x, c : Writes(s, 1, t, x, c) => Writes(u, 0, t, x, c) BY <1>4, TailPends
<1>8. Unlinked(s, 1) = Unlinked(u, 0) BY <1>4, TailPends
<1>9. \A n \in DOMAIN u : n + 1 > 1 BY <1>5
<1>10. ASSUME NEW t, NEW h, NEW F, Leads(s, 1, t, h, F) PROVE Leads(u, 0, t, h, F)
  <2>1. \A n \in DOMAIN u : u[n].table = t => Toward(u[n], F) BY <1>5, <1>9, <1>10 DEF Leads
  <2> QED BY <1>6, <1>7, <1>10, <2>1 DEF Leads
<1>11. \A n \in DOMAIN u : Known(u[n])
  BY <1>3, <1>5, <1>9 DEF Brings
<1>12. Brings(u, 0, e, f, g, P) BY <1>3, <1>8, <1>10, <1>11 DEF Brings
<1> QED BY <1>12 DEF u

\* An update that moves a row toward another keeps its type.
LEMMA OverRow ==
  ASSUME NEW r \in Row, NEW t \in Row, NEW cols,
         \A c \in DOMAIN cols : c \in DOMAIN t /\ cols[c] = t[c],
         NEW v, v = Overlay(cols, r)
  PROVE  /\ v \in Row /\ DOMAIN v = DOMAIN r
         /\ \A c \in DOMAIN r : v[c] = IF c \in DOMAIN cols THEN t[c] ELSE r[c]
<1>1. DOMAIN v = DOMAIN r /\ \A c \in DOMAIN r : v[c] = IF c \in DOMAIN cols THEN t[c] ELSE r[c]
  BY DEF Overlay
<1>2. v = [c \in DOMAIN r |-> v[c]] BY DEF Overlay
<1>3. DOMAIN r = {"state", "err", "list", "pkg", "prio", "enabled", "autostart", "pos",
                  "delegate"}
  BY DEF Row
<1>4. /\ v["state"] \in QState /\ v["err"] \in BOOLEAN /\ v["list"] \in Lists
      /\ v["pkg"] \in PkgRefs /\ v["prio"] \in PriorityRange /\ v["enabled"] \in BOOLEAN
      /\ v["autostart"] \in BOOLEAN /\ v["pos"] \in Positions /\ v["delegate"] \in BOOLEAN
  BY <1>1, <1>3 DEF Row
<1>5. v = [state |-> v["state"], err |-> v["err"], list |-> v["list"], pkg |-> v["pkg"],
           prio |-> v["prio"], enabled |-> v["enabled"], autostart |-> v["autostart"],
           pos |-> v["pos"], delegate |-> v["delegate"]]
  BY <1>2, <1>3
<1>6. v \in Row BY <1>4, <1>5 DEF Row
<1> QED BY <1>1, <1>6

LEMMA OverPackage ==
  ASSUME NEW r \in Package, NEW t \in Package, NEW cols,
         \A c \in DOMAIN cols : c \in DOMAIN t /\ cols[c] = t[c],
         NEW v, v = Overlay(cols, r)
  PROVE  /\ v \in Package /\ DOMAIN v = DOMAIN r
         /\ \A c \in DOMAIN r : v[c] = IF c \in DOMAIN cols THEN t[c] ELSE r[c]
<1>1. DOMAIN v = DOMAIN r /\ \A c \in DOMAIN r : v[c] = IF c \in DOMAIN cols THEN t[c] ELSE r[c]
  BY DEF Overlay
<1>2. v = [c \in DOMAIN r |-> v[c]] BY DEF Overlay
<1>3. DOMAIN r = {"list", "prio", "pos"} BY DEF Package
<1>4. v["list"] \in Lists /\ v["prio"] \in PriorityRange /\ v["pos"] \in Positions
  BY <1>1, <1>3 DEF Package
<1>5. v = [list |-> v["list"], prio |-> v["prio"], pos |-> v["pos"]] BY <1>2, <1>3
<1>6. v \in Package BY <1>4, <1>5 DEF Package
<1> QED BY <1>1, <1>6

---------------------------------------------------------------------------
(* The invariant: the file, at any time *)

StagedIn(i, p) ==
  /\ i \in DOMAIN disk.downloads /\ disk.downloads[i].list = "linkgrabber"
  /\ disk.downloads[i].pkg = p
FilePackage(p) == p \in DOMAIN disk.packages /\ disk.packages[p].list = "linkgrabber"

\* A row that a process can load, whatever is to come.
RowOK(i) ==
  LET r == disk.downloads[i] IN
  /\ i \in Links /\ i < nextId /\ r \in Row
  /\ r.err => r.state = "ERROR"
  /\ r.list = "linkgrabber" => r.state \in {"QUEUED", "PAUSED"} /\ i \notin disk.parts
  /\ r.state = "DONE" => i \notin disk.parts

DiskOK ==
  /\ IsDisk(disk) /\ Table(disk.downloads) /\ Table(disk.packages)
  /\ \A i \in DOMAIN disk.downloads : RowOK(i)
  /\ \A p \in DOMAIN disk.packages : p \in Packages /\ p < nextPkg /\ disk.packages[p] \in Package
  /\ disk.parts \subseteq DOMAIN disk.downloads

CountersOK ==
  /\ nextId \in 1 .. (MaxLinks + 1) /\ nextPkg \in 1 .. (MaxPackages + 1)
  /\ nextPos \in 1 .. (PosBound + 1)
  /\ maxActive \in Int /\ maxActive >= 1 /\ globalAutostart \in BOOLEAN
  /\ cut \subseteq PkgRefs

\* Review shows the link, or will not need to.
Reviewed ==
  \A i \in DOMAIN disk.downloads :
    LET p == disk.downloads[i].pkg IN
    disk.downloads[i].list = "linkgrabber" =>
      \/ p \in cut
      \/ /\ p \in DOMAIN disk.packages
         /\ disk.packages[p].list = "linkgrabber" \/ Writes(todo, 0, "downloads", i, "list")

(* What is to come *)

Prior(s, n, t, op, x) ==
  \E m \in DOMAIN s : m < n /\ s[m].table = t /\ s[m].op = op /\ s[m].id = x

\* Rows are only inserted where nothing but inserts is to come, and under a
\* package that is stored, or is before.
InsertFits(s, n) ==
  LET st == s[n] IN
  st.table = "downloads" /\ st.op = "insert" =>
    /\ \A m \in DOMAIN s : s[m].op = "insert"
    /\ st.cols.list = "linkgrabber" =>
         Prior(s, n, "packages", "insert", st.cols.pkg) \/ FilePackage(st.cols.pkg)

\* A link that leaves the linkgrabber is one that was loaded; it has no state there
\* but those two.
UpdateFits(s, n) ==
  LET st == s[n] IN
  st.table = "downloads" /\ st.op = "update" =>
    /\ "list" \in DOMAIN st.cols => st.cols.list = "download" /\ st.id \in DOMAIN items
    /\ "state" \in DOMAIN st.cols <=> "err" \in DOMAIN st.cols
    /\ "state" \in DOMAIN st.cols /\ (\E p : StagedIn(st.id, p)) =>
         st.cols.state \in {"QUEUED", "PAUSED"}

\* A row goes after its part file.
DeleteFits(s, n) ==
  LET st == s[n] IN
  st.table = "downloads" /\ st.op = "delete" =>
    (st.id \in disk.parts => Prior(s, n, "parts", "delete", st.id))

\* A package moves with its links of the linkgrabber, and goes after them, but
\* for one that left ahead of links.
PackageFits(s, n) ==
  LET st == s[n] IN
  st.table = "packages" =>
    /\ st.op = "insert" => st.cols.list = "linkgrabber"
    /\ st.op = "update" /\ "list" \in DOMAIN st.cols =>
         \A j : StagedIn(j, st.id) => Writes(s, 0, "downloads", j, "list") \/ st.id \in cut
    /\ st.op = "delete" =>
         \A j : StagedIn(j, st.id) => Prior(s, n, "downloads", "delete", j) \/ st.id \in cut

\* Part files go with their link, and in no other way.
PartFits(s, n) == s[n].table = "parts" => s[n].op = "delete" /\ s[n].id \notin DOMAIN rows

Fits(s, n) ==
  InsertFits(s, n) /\ UpdateFits(s, n) /\ DeleteFits(s, n) /\ PackageFits(s, n) /\ PartFits(s, n)

SamePackage ==
  \A i \in DOMAIN rows \cap DOMAIN disk.downloads : disk.downloads[i].pkg = rows[i].pkg

\* A worker's link is on disk, and its row says nothing a part file contradicts.
AtWork ==
  \A i \in Running : /\ i \in DOMAIN disk.downloads
                     /\ disk.downloads[i].list = "download" /\ disk.downloads[i].state # "DONE"

Brought == \E B : todo \in Seq(B) /\ Brings(todo, 0, disk, rows, pkgRows, partial)
Fitting == \A n \in DOMAIN todo : Fits(todo, n)

(* What the process has not loaded *)

AsideOK ==
  \A i \in NotLoaded :
    /\ rows[i] \in Row
    /\ rows[i].err => rows[i].state = "ERROR"
    /\ rows[i].list = "linkgrabber" =>
         rows[i].state \in {"QUEUED", "PAUSED"} /\ i \notin partial
    /\ rows[i].state = "DONE" => i \notin partial

AsideShown(E) ==
  \A i \in NotLoaded :
    LET p == rows[i].pkg IN
    rows[i].list = "linkgrabber" =>
      p \in E \/ (p \in DOMAIN pkgRows /\ pkgRows[p].list = "linkgrabber")

(* Opening and loading *)

ScanOK ==
  /\ scan = [unread |-> scan.unread, refs |-> scan.refs, lost |-> scan.lost]
  /\ scan.lost \in BOOLEAN
  /\ IF ~Scanning THEN scan = NoScan
     ELSE LET table == IF phase = "packages" THEN disk.packages ELSE disk.downloads IN
          /\ scan.refs \subseteq DOMAIN table
          /\ scan.lost \/ scan.unread \cup scan.refs = DOMAIN table

\* A process that left its queue alone has no links yet, and no place but for
\* the packages it has loaded.
Fresh ==
  /\ items = Empty
  /\ \A p \in DOMAIN pkgs : pkgs[p].pos < nextPos
  /\ nextPos = 1 \/ \E p \in DOMAIN pkgs : nextPos - 1 = pkgs[p].pos

LoadOK ==
  /\ phase \in {"closed", "packages", "downloads"} => todo = <<>>
  /\ phase = "downloads" => PkgsNotLoaded = {}
  /\ Up => AllLoaded
  /\ ~Up /\ ~early => Fresh

\* Memory, the tables and what is to be written of them.
QueueInv ==
  /\ Core /\ Tables /\ AllShown(cut) /\ AsideOK /\ AsideShown(cut)
  /\ Brought /\ Fitting /\ SamePackage /\ AtWork

StoreInv ==
  /\ phase \in Phases /\ twice \in BOOLEAN /\ early \in BOOLEAN
  /\ DiskOK /\ CountersOK /\ Reviewed
  /\ QueueInv /\ ScanOK /\ LoadOK

---------------------------------------------------------------------------
(* One statement *)

\* h is what st, on the way to F, makes of the table f.
Hits(st, f, F, h) ==
  /\ \A x \in DOMAIN h :
       \/ x \in DOMAIN f /\ h[x] = f[x]
       \/ st.op = "insert" /\ st.id = x /\ x \in DOMAIN F /\ h[x] = F[x]
       \/ /\ st.op = "update" /\ st.id = x /\ x \in DOMAIN f /\ x \in DOMAIN F
          /\ h[x] = Overlay(st.cols, f[x])
          /\ \A c \in DOMAIN st.cols : c \in DOMAIN F[x] /\ st.cols[c] = F[x][c]
  /\ \A x \in DOMAIN f : x \in DOMAIN h \/ (st.op = "delete" /\ st.id = x /\ x \notin DOMAIN F)
  /\ st.op = "insert" => st.id \in DOMAIN h /\ h[st.id] = F[st.id]
  /\ st.op = "update" /\ st.id \in DOMAIN f => h[st.id] = Overlay(st.cols, f[st.id])
  /\ st.op = "delete" => st.id \notin DOMAIN h

LEMMA Hit ==
  ASSUME NEW f, NEW F, NEW st, Toward(st, F), NEW h, h = Changed(f, st)
  PROVE  Hits(st, f, F, h)
<1>1. CASE st.op = "insert"
  <2>1. h = [x \in DOMAIN f \cup {st.id} |-> IF x = st.id THEN st.cols ELSE f[x]]
    BY <1>1 DEF Changed
  <2>2. st.id \in DOMAIN F /\ st.cols = F[st.id] BY <1>1 DEF Toward
  <2> QED BY <1>1, <2>1, <2>2 DEF Hits
<1>2. CASE st.op = "update"
  <2>1. h = IF st.id \in DOMAIN f THEN [f EXCEPT ![st.id] = Overlay(st.cols, f[st.id])] ELSE f
    BY <1>2 DEF Changed
  <2>2. /\ st.id \in DOMAIN F
        /\ \A c \in DOMAIN st.cols : c \in DOMAIN F[st.id] /\ st.cols[c] = F[st.id][c]
    BY <1>2 DEF Toward
  <2>3. /\ DOMAIN h = DOMAIN f /\ \A x \in DOMAIN f : x # st.id => h[x] = f[x]
        /\ st.id \in DOMAIN f => h[st.id] = Overlay(st.cols, f[st.id])
    BY <2>1
  <2> QED BY <1>2, <2>2, <2>3 DEF Hits
<1>3. CASE st.op = "delete"
  <2>1. h = [x \in DOMAIN f \ {st.id} |-> f[x]] BY <1>3 DEF Changed, Without
  <2>2. st.id \notin DOMAIN F BY <1>3 DEF Toward
  <2> QED BY <1>3, <2>1, <2>2 DEF Hits
<1> QED BY <1>1, <1>2, <1>3 DEF Toward

\* The state of things after the next statement of a verb, table by table.
Strikes(st) ==
  /\ IF st.table = "downloads" THEN Hits(st, disk.downloads, rows, disk'.downloads)
     ELSE disk'.downloads = disk.downloads
  /\ IF st.table = "packages" THEN Hits(st, disk.packages, pkgRows, disk'.packages)
     ELSE disk'.packages = disk.packages
  /\ disk'.parts = IF st.table = "parts" THEN disk.parts \ {st.id} ELSE disk.parts

LEMMA CoreLoadable ==
  ASSUME Core, AsideOK PROVE Loadable
<1>1. ASSUME NEW i \in DOMAIN rows
      PROVE  /\ rows[i] \in Row
             /\ rows[i].err => rows[i].state = "ERROR"
             /\ rows[i].list = "linkgrabber" =>
                  rows[i].state \in {"QUEUED", "PAUSED"} /\ i \notin partial
             /\ rows[i].state = "DONE" => i \notin partial
  <2>1. CASE i \in DOMAIN items
    <3>1. LinkOK(i) BY <2>1 DEF Core
    <3>2. rows[i] \in Row /\ items[i] \in Item BY <3>1 DEF LinkOK, Typed
    <3>3. rows[i].err => rows[i].state = "ERROR"
      BY <3>1, <3>2 DEF LinkOK, Row, Item, Worked, Mirrored
    <3>4. /\ rows[i].list = "linkgrabber" =>
               rows[i].state \in {"QUEUED", "PAUSED"} /\ i \notin partial
          /\ rows[i].state = "DONE" => i \notin partial
      BY <3>1 DEF LinkOK, Shelved, Mirrored
    <3> QED BY <3>2, <3>3, <3>4
  <2>2. CASE i \notin DOMAIN items BY <2>2 DEF AsideOK, NotLoaded
  <2> QED BY <2>1, <2>2
<1> QED BY <1>1 DEF Loadable, Core, GlobalOK

LEMMA CoreStutters ==
  ASSUME NEW E, Core, AllShown(E), UNCHANGED vars PROVE Core' /\ AllShown(E)'
<1>1. UNCHANGED <<items, pkgs, rows, pkgRows, nextId, nextPkg, nextPos, maxActive,
                  globalAutostart, cells, partial>>
  BY DEF vars
<1>2. GlobalOK' BY <1>1 DEF Core, GlobalOK
<1>3. \A j \in DOMAIN items : LinkOK(j)'
  BY <1>1 DEF Core, LinkOK, Typed, Worked, Shelved, Mirrored
<1>4. AllShown(E)' BY <1>1 DEF AllShown, Shown
<1> QED BY <1>1, <1>2, <1>3, <1>4 DEF Core

\* What a statement of a verb does, and leaves to be done.
LEMMA OneStatement ==
  ASSUME Brought, Statement
  PROVE  /\ todo # <<>> /\ 1 \in DOMAIN todo /\ todo' = Tail(todo)
         /\ IsDisk(disk') /\ Strikes(todo[1])
         /\ Brought'
<1>0. PICK B : todo \in Seq(B) /\ Brings(todo, 0, disk, rows, pkgRows, partial)
  BY DEF Brought
<1>1. todo # <<>> /\ todo' = Tail(todo) /\ UNCHANGED vars BY DEF Statement
<1>2. 1 \in DOMAIN todo /\ Head(todo) = todo[1] /\ 1 > 0 BY <1>0, <1>1
<1>3. Known(todo[1]) BY <1>0, <1>2 DEF Brings
<1>5. \/ disk' = Apply(disk, todo[1])
      \/ todo[1].table = "columns" /\ disk' = disk
  BY <1>2 DEF Statement
<1>6. IsDisk(disk) BY <1>0 DEF Brings
<1>7. IsDisk(disk') /\ Strikes(todo[1])
  <2>1. CASE disk' = Apply(disk, todo[1])
    <3>1. Stepped(disk, todo[1], disk') BY <1>3, <1>6, <2>1, Applied
    <3>2. /\ todo[1].table = "downloads" => Toward(todo[1], rows)
          /\ todo[1].table = "packages" => Toward(todo[1], pkgRows)
      BY <1>0, <1>2 DEF Brings, Leads
    <3> QED BY <3>1, <3>2, Hit DEF Stepped, Strikes
  <2>2. CASE todo[1].table = "columns" /\ disk' = disk
    BY <1>6, <2>2 DEF Strikes, IsDisk
  <2> QED BY <1>5, <2>1, <2>2
<1>10. Brings(Tail(todo), 0, disk', rows, pkgRows, partial)
  BY <1>0, <1>1, <1>2, <1>5, BringsTail
<1>11. Tail(todo) \in Seq(B) BY <1>0, <1>1
<1>12. Brought'
  BY <1>1, <1>10, <1>11 DEF Brought, vars
<1> QED BY <1>1, <1>2, <1>7, <1>12

\* A row of disk' is an old one, an inserted one or one with columns written.
Inserted(st, i) ==
  /\ st.table = "downloads" /\ st.op = "insert" /\ st.id = i /\ i \in DOMAIN rows
  /\ disk'.downloads[i] = rows[i]
Overwritten(st, i) ==
  LET r == disk.downloads[i] v == disk'.downloads[i] t == rows[i] IN
  /\ st.table = "downloads" /\ st.op = "update" /\ st.id = i
  /\ i \in DOMAIN rows /\ i \in DOMAIN disk.downloads /\ v \in Row
  /\ \A c \in DOMAIN st.cols : st.cols[c] = t[c]
  /\ v.state = (IF "state" \in DOMAIN st.cols THEN t.state ELSE r.state)
  /\ v.err = (IF "err" \in DOMAIN st.cols THEN t.err ELSE r.err)
  /\ v.list = (IF "list" \in DOMAIN st.cols THEN t.list ELSE r.list)
  /\ v.pkg = (IF "pkg" \in DOMAIN st.cols THEN t.pkg ELSE r.pkg)

LEMMA RowsAfter ==
  ASSUME NEW st, DiskOK, Loadable, Strikes(st), NEW i \in DOMAIN disk'.downloads
  PROVE  \/ i \in DOMAIN disk.downloads /\ disk'.downloads[i] = disk.downloads[i]
         \/ Inserted(st, i)
         \/ Overwritten(st, i)
<1>1. CASE st.table # "downloads" BY <1>1 DEF Strikes
<1>2. CASE st.table = "downloads"
  <2>1. Hits(st, disk.downloads, rows, disk'.downloads) BY <1>2 DEF Strikes
  <2>2. CASE st.op = "insert" /\ st.id = i /\ i \in DOMAIN rows /\ disk'.downloads[i] = rows[i]
    BY <1>2, <2>2 DEF Inserted
  <2>3. CASE /\ st.op = "update" /\ st.id = i /\ i \in DOMAIN disk.downloads /\ i \in DOMAIN rows
             /\ disk'.downloads[i] = Overlay(st.cols, disk.downloads[i])
             /\ \A c \in DOMAIN st.cols : c \in DOMAIN rows[i] /\ st.cols[c] = rows[i][c]
    <3> DEFINE r == disk.downloads[i]
               t == rows[i]
               v == disk'.downloads[i]
               cols == st.cols
    <3>1. r \in Row /\ t \in Row BY <2>3 DEF DiskOK, RowOK, Loadable
    <3>2. v = Overlay(cols, r) /\ \A c \in DOMAIN cols : c \in DOMAIN t /\ cols[c] = t[c]
      BY <2>3
    <3>3. /\ st.table = "downloads" /\ st.op = "update" /\ st.id = i
          /\ i \in DOMAIN rows /\ i \in DOMAIN disk.downloads
      BY <1>2, <2>3
    <3> HIDE DEF r, t, v, cols
    <3>4. v \in Row /\ \A c \in DOMAIN r : v[c] = IF c \in DOMAIN cols THEN t[c] ELSE r[c]
      BY <3>1, <3>2, OverRow
    <3>5. DOMAIN r = {"state", "err", "list", "pkg", "prio", "enabled", "autostart", "pos",
                      "delegate"}
      BY <3>1 DEF Row
    <3>6. /\ v.state = (IF "state" \in DOMAIN cols THEN t.state ELSE r.state)
          /\ v.err = (IF "err" \in DOMAIN cols THEN t.err ELSE r.err)
          /\ v.list = (IF "list" \in DOMAIN cols THEN t.list ELSE r.list)
          /\ v.pkg = (IF "pkg" \in DOMAIN cols THEN t.pkg ELSE r.pkg)
      BY <3>4, <3>5
    <3>7. Overwritten(st, i) BY <3>2, <3>3, <3>4, <3>6 DEF r, t, v, cols, Overwritten
    <3> QED BY <3>7
  <2> QED BY <2>1, <2>2, <2>3 DEF Hits
<1> QED BY <1>1, <1>2

\* While rows has it, disk has the part file of a link that the tables say.
LEMMA PartsOfRows ==
  ASSUME Brought, Fitting, NEW i \in DOMAIN rows
  PROVE  i \in disk.parts <=> i \in partial
<1>1. PICK B : todo \in Seq(B) /\ Brings(todo, 0, disk, rows, pkgRows, partial)
  BY DEF Brought
<1>2. i \notin Unlinked(todo, 0) BY DEF Unlinked, Fitting, Fits, PartFits
<1> QED BY <1>1, <1>2 DEF Brings

LEMMA StatementDisk ==
  ASSUME DiskOK, Core, AsideOK, Brought, Fitting, NEW st, st = todo[1], 1 \in DOMAIN todo, Strikes(st),
         IsDisk(disk'), Brought', UNCHANGED vars
  PROVE  DiskOK'
<1>1. Loadable BY CoreLoadable
<1>2. Fits(todo, 1) BY DEF Fitting
<1>3. disk'.parts \subseteq disk.parts BY DEF Strikes
<1>4. ASSUME NEW i \in DOMAIN disk'.downloads PROVE RowOK(i)'
  <2>0. nextId' = nextId BY DEF vars
  <2>1. CASE i \in DOMAIN disk.downloads /\ disk'.downloads[i] = disk.downloads[i]
    <3>1. RowOK(i) BY <2>1 DEF DiskOK
    <3> QED BY <1>3, <2>0, <2>1, <3>1 DEF RowOK
  <2>2. CASE Inserted(st, i)
    <3>1. i \in DOMAIN rows /\ disk'.downloads[i] = rows[i] BY <2>2 DEF Inserted
    <3>2. i \in disk.parts <=> i \in partial BY <3>1, PartsOfRows
    <3> QED BY <1>1, <1>3, <2>0, <3>1, <3>2 DEF Loadable, RowOK
  <2>3. CASE Overwritten(st, i)
    <3> DEFINE r == disk.downloads[i]
               t == rows[i]
               v == disk'.downloads[i]
               old == IF "state" \in DOMAIN st.cols THEN t ELSE r
    <3>1. /\ i \in DOMAIN rows /\ i \in DOMAIN disk.downloads
          /\ v \in Row /\ v.list = (IF "list" \in DOMAIN st.cols THEN t.list ELSE r.list)
      BY <2>3 DEF Overwritten
    <3>2. "state" \in DOMAIN st.cols <=> "err" \in DOMAIN st.cols
      BY <1>2, <2>3 DEF Fits, UpdateFits, Overwritten
    <3>3. v.state = old.state /\ v.err = old.err BY <2>3, <3>2 DEF Overwritten
    <3>4. RowOK(i) BY <3>1 DEF DiskOK
    <3>5. i \in disk.parts <=> i \in partial BY <3>1, PartsOfRows
    <3>6. /\ i \in Links /\ i < nextId
          /\ (t.err => t.state = "ERROR") /\ (t.state = "DONE" => i \notin disk.parts)
      BY <1>1, <3>1, <3>5 DEF Loadable
    <3>7. /\ (r.err => r.state = "ERROR") /\ (r.state = "DONE" => i \notin disk.parts)
      BY <3>4 DEF RowOK
    <3>8. ASSUME v.list = "linkgrabber"
          PROVE  v.state \in {"QUEUED", "PAUSED"} /\ i \notin disk.parts
      <4>1. "list" \notin DOMAIN st.cols
        <5> SUFFICES ASSUME "list" \in DOMAIN st.cols PROVE FALSE
          OBVIOUS
        <5>1. st.cols.list = "download" BY <1>2, <2>3 DEF Fits, UpdateFits, Overwritten
        <5>2. st.cols["list"] = t["list"] BY <2>3 DEF Overwritten
        <5> QED BY <3>1, <3>8, <5>1, <5>2
      <4>2. r.list = "linkgrabber" BY <3>1, <3>8, <4>1
      <4>3. StagedIn(i, r.pkg) BY <3>1, <4>2 DEF StagedIn
      <4>4. r.state \in {"QUEUED", "PAUSED"} /\ i \notin disk.parts
        BY <3>4, <4>2 DEF RowOK
      <4>5. ASSUME "state" \in DOMAIN st.cols PROVE t.state \in {"QUEUED", "PAUSED"}
        <5>1. st.cols.state \in {"QUEUED", "PAUSED"}
          BY <1>2, <2>3, <4>3, <4>5 DEF Fits, UpdateFits, Overwritten
        <5>2. st.cols["state"] = t["state"] BY <2>3, <4>5 DEF Overwritten
        <5> QED BY <5>1, <5>2
      <4> QED BY <3>3, <4>4, <4>5
    <3>9. (v.err => v.state = "ERROR") /\ (v.state = "DONE" => i \notin disk.parts)
      BY <3>3, <3>6, <3>7
    <3> HIDE DEF r, t, old
    <3> QED BY <1>3, <2>0, <3>1, <3>6, <3>8, <3>9 DEF RowOK
  <2> QED BY <1>1, <2>1, <2>2, <2>3, RowsAfter
<1>5. ASSUME NEW p \in DOMAIN disk'.packages
      PROVE  p \in Packages /\ p < nextPkg' /\ disk'.packages[p] \in Package
  <2>0. nextPkg' = nextPkg BY DEF vars
  <2>1. CASE st.table # "packages" BY <2>0, <2>1 DEF DiskOK, Strikes
  <2>2. CASE st.table = "packages"
    <3>1. Hits(st, disk.packages, pkgRows, disk'.packages) BY <2>2 DEF Strikes
    <3>2. CASE p \in DOMAIN disk.packages /\ disk'.packages[p] = disk.packages[p]
      BY <2>0, <3>2 DEF DiskOK
    <3>3. CASE p \in DOMAIN pkgRows /\ disk'.packages[p] = pkgRows[p]
      BY <1>1, <2>0, <3>3 DEF Loadable
    <3>4. CASE /\ p \in DOMAIN disk.packages /\ p \in DOMAIN pkgRows
               /\ disk'.packages[p] = Overlay(st.cols, disk.packages[p])
               /\ \A c \in DOMAIN st.cols : c \in DOMAIN pkgRows[p] /\ st.cols[c] = pkgRows[p][c]
      <4> DEFINE r == disk.packages[p]
                 t == pkgRows[p]
                 v == disk'.packages[p]
                 cols == st.cols
      <4>1. r \in Package /\ t \in Package /\ p \in Packages /\ p < nextPkg
        BY <1>1, <3>4 DEF DiskOK, Loadable
      <4>2. v = Overlay(cols, r) /\ \A c \in DOMAIN cols : c \in DOMAIN t /\ cols[c] = t[c]
        BY <3>4
      <4> HIDE DEF r, t, v, cols
      <4>3. v \in Package BY <4>1, <4>2, OverPackage
      <4> QED BY <2>0, <4>1, <4>3 DEF v
    <3> QED BY <3>1, <3>2, <3>3, <3>4 DEF Hits
  <2> QED BY <2>1, <2>2
<1>6. disk'.parts \subseteq DOMAIN disk'.downloads
  <2> SUFFICES ASSUME NEW i \in disk'.parts PROVE i \in DOMAIN disk'.downloads
    OBVIOUS
  <2>1. i \in disk.parts /\ i \in DOMAIN disk.downloads BY <1>3 DEF DiskOK
  <2>2. CASE st.table = "downloads" /\ st.op = "delete" /\ st.id = i
    <3>1. Prior(todo, 1, "parts", "delete", i)
      BY <1>2, <2>1, <2>2 DEF Fits, DeleteFits
    <3>2. \A m \in DOMAIN todo : ~ (m < 1) BY DEF Brought
    <3> QED BY <3>1, <3>2 DEF Prior
  <2>3. CASE ~ (st.table = "downloads" /\ st.op = "delete" /\ st.id = i)
    BY <2>1, <2>3 DEF Strikes, Hits
  <2> QED BY <2>2, <2>3
<1>7. Table(disk'.downloads) /\ Table(disk'.packages)
  BY DEF Brought, Brings, Leads
<1> QED BY <1>4, <1>5, <1>6, <1>7 DEF DiskOK

LEMMA StatementSame ==
  ASSUME DiskOK, Core, AsideOK, SamePackage, NEW st, Strikes(st), UNCHANGED vars
  PROVE  /\ SamePackage'
         /\ \A i \in DOMAIN disk'.downloads : i \in DOMAIN disk.downloads =>
              disk'.downloads[i].pkg = disk.downloads[i].pkg
<1>1. Loadable BY CoreLoadable
<1>2. UNCHANGED <<rows, pkgRows>> BY DEF vars
<1>3. ASSUME NEW i \in DOMAIN disk'.downloads
      PROVE  /\ i \in DOMAIN rows => disk'.downloads[i].pkg = rows[i].pkg
             /\ i \in DOMAIN disk.downloads => disk'.downloads[i].pkg = disk.downloads[i].pkg
  <2>1. i \in DOMAIN rows /\ i \in DOMAIN disk.downloads => disk.downloads[i].pkg = rows[i].pkg
    BY DEF SamePackage
  <2>2. CASE i \in DOMAIN disk.downloads /\ disk'.downloads[i] = disk.downloads[i]
    BY <2>1, <2>2
  <2>3. CASE Inserted(st, i) BY <2>1, <2>3 DEF Inserted
  <2>4. CASE Overwritten(st, i) BY <2>1, <2>4 DEF Overwritten
  <2> QED BY <1>1, <2>2, <2>3, <2>4, RowsAfter
<1> QED BY <1>2, <1>3 DEF SamePackage

\* The row of a running link: in the download list and not done.
LEMMA RunningRows ==
  ASSUME Core, NEW i \in Running
  PROVE  i \in DOMAIN rows /\ rows[i].list = "download" /\ rows[i].state # "DONE"
<1>1. i \in DOMAIN items /\ items[i].job # "none" /\ LinkOK(i) BY DEF Running, Core
<1>2. items[i].state = "ACTIVE" BY <1>1 DEF LinkOK, Worked
<1>3. items[i].list = "download" BY <1>1, <1>2 DEF LinkOK, Shelved, Typed, Item, Lists
<1>4. i \in DOMAIN rows BY <1>1 DEF Core, GlobalOK
<1>5. rows[i].list = items[i].list /\ rows[i].state \in {"ACTIVE", "QUEUED"}
  BY <1>1, <1>2 DEF LinkOK, Mirrored
<1> QED BY <1>3, <1>4, <1>5

LEMMA StatementAtWork ==
  ASSUME DiskOK, Core, AsideOK, AtWork, NEW st, Strikes(st), UNCHANGED vars
  PROVE  AtWork'
<1>1. Loadable BY CoreLoadable
<1>2. Running' = Running BY DEF Running, vars
<1>3. ASSUME NEW i \in Running
      PROVE  /\ i \in DOMAIN disk'.downloads
             /\ disk'.downloads[i].list = "download" /\ disk'.downloads[i].state # "DONE"
  <2>1. i \in DOMAIN rows /\ rows[i].list = "download" /\ rows[i].state # "DONE"
    BY RunningRows
  <2>2. /\ i \in DOMAIN disk.downloads
        /\ disk.downloads[i].list = "download" /\ disk.downloads[i].state # "DONE"
    BY DEF AtWork
  <2>3. i \in DOMAIN disk'.downloads BY <2>1, <2>2 DEF Strikes, Hits
  <2>4. CASE disk'.downloads[i] = disk.downloads[i] BY <2>2, <2>3, <2>4
  <2>5. CASE Inserted(st, i) BY <2>1, <2>3, <2>5 DEF Inserted
  <2>6. CASE Overwritten(st, i) BY <2>1, <2>2, <2>3, <2>6 DEF Overwritten
  <2> QED BY <1>1, <2>3, <2>4, <2>5, <2>6, RowsAfter
<1> QED BY <1>2, <1>3 DEF AtWork

\* A statement makes no row a link of the linkgrabber but by inserting it, and
\* then nothing but inserts is to come.
LEMMA StagedSoFar ==
  ASSUME DiskOK, Core, AsideOK, SamePackage, Fitting, NEW st, st = todo[1], 1 \in DOMAIN todo, Strikes(st),
         UNCHANGED vars, NEW i, NEW p, StagedIn(i, p)'
  PROVE  \/ /\ StagedIn(i, p)
            /\ ~ (st.table = "downloads" /\ st.id = i /\ st.op = "delete")
            /\ ~ (/\ st.table = "downloads" /\ st.id = i /\ st.op = "update"
                  /\ "list" \in DOMAIN st.cols)
         \/ Inserted(st, i) /\ \A m \in DOMAIN todo : todo[m].op = "insert"
<1>1. Loadable BY CoreLoadable
<1>2. Fits(todo, 1) BY DEF Fitting
<1>3. /\ i \in DOMAIN disk'.downloads /\ disk'.downloads[i].list = "linkgrabber"
      /\ disk'.downloads[i].pkg = p
  BY DEF StagedIn
<1>4. i \in DOMAIN disk.downloads => disk'.downloads[i].pkg = disk.downloads[i].pkg
  BY <1>3, StatementSame
<1>5. ~ (st.table = "downloads" /\ st.id = i /\ st.op = "delete")
  BY <1>3 DEF Strikes, Hits
<1>6. st.table = "downloads" /\ st.op = "update" /\ "list" \in DOMAIN st.cols =>
        st.cols.list = "download"
  BY <1>2 DEF Fits, UpdateFits
<1>7. CASE Inserted(st, i) BY <1>2, <1>7 DEF Fits, InsertFits, Inserted
<1>8. CASE i \in DOMAIN disk.downloads /\ disk'.downloads[i] = disk.downloads[i]
  <2>1. StagedIn(i, p) BY <1>3, <1>8 DEF StagedIn
  <2>2. ASSUME st.table = "downloads", st.id = i, st.op = "update", "list" \in DOMAIN st.cols
        PROVE  FALSE
    <3> DEFINE r == disk.downloads[i]
               v == disk'.downloads[i]
    <3>1. v = Overlay(st.cols, r) BY <1>8, <2>2 DEF Strikes, Hits
    <3>2. r \in Row BY <1>8 DEF DiskOK, RowOK
    <3>3. "list" \in DOMAIN r BY <3>2 DEF Row
    <3>4. v["list"] = st.cols["list"] BY <2>2, <3>1, <3>3 DEF Overlay
    <3> QED BY <1>3, <1>6, <2>2, <3>4
  <2> QED BY <1>5, <2>1, <2>2
<1>9. CASE Overwritten(st, i)
  <2>1. "list" \notin DOMAIN st.cols
    <3> SUFFICES ASSUME "list" \in DOMAIN st.cols PROVE FALSE
      OBVIOUS
    <3>1. st.cols.list = "download" BY <1>6, <1>9 DEF Overwritten
    <3>2. st.cols["list"] = rows[i]["list"] BY <1>9 DEF Overwritten
    <3> QED BY <1>3, <1>9, <3>1, <3>2 DEF Overwritten
  <2>2. StagedIn(i, p) BY <1>3, <1>4, <1>9, <2>1 DEF Overwritten, StagedIn
  <2> QED BY <1>5, <2>1, <2>2
<1> QED BY <1>1, <1>3, <1>7, <1>8, <1>9, RowsAfter

\* Before the n-th of the tail is before its place in the whole, or first.
LEMMA TailPrior ==
  ASSUME NEW B, NEW s \in Seq(B), s # <<>>, NEW u, u = Tail(s), NEW n \in DOMAIN u,
         NEW t, NEW op, NEW x, Prior(s, n + 1, t, op, x)
  PROVE  \/ Prior(u, n, t, op, x)
         \/ s[1].table = t /\ s[1].op = op /\ s[1].id = x
<1>1. PICK m \in DOMAIN s : m < n + 1 /\ s[m].table = t /\ s[m].op = op /\ s[m].id = x
  BY DEF Prior
<1>2. CASE m = 1 BY <1>1, <1>2
<1>3. CASE m # 1
  <2>1. m - 1 \in DOMAIN u /\ u[m - 1] = s[m] BY <1>3, TailPends
  <2>2. m - 1 < n BY <1>1
  <2> QED BY <1>1, <2>1, <2>2 DEF Prior
<1> QED BY <1>2, <1>3

LEMMA TailWrites ==
  ASSUME NEW B, NEW s \in Seq(B), s # <<>>, NEW t, NEW x, NEW c, Writes(s, 0, t, x, c)
  PROVE  \/ Writes(Tail(s), 0, t, x, c)
         \/ s[1].table = t /\ s[1].op = "update" /\ s[1].id = x /\ c \in DOMAIN s[1].cols
<1> DEFINE u == Tail(s)
<1>1. PICK n \in DOMAIN s : /\ n > 0 /\ s[n].table = t /\ s[n].op = "update" /\ s[n].id = x
                            /\ c \in DOMAIN s[n].cols
  BY DEF Writes
<1>2. CASE n = 1 BY <1>1, <1>2
<1>3. CASE n # 1
  <2>0. u = Tail(s) OBVIOUS
  <2> HIDE DEF u
  <2>1. n - 1 \in DOMAIN u /\ u[n - 1] = s[n] /\ n > 1 BY <1>3, <2>0, TailPends
  <2>2. n - 1 > 0 BY <2>1
  <2>3. Writes(u, 0, t, x, c) BY <1>1, <2>1, <2>2 DEF Writes
  <2> QED BY <2>3 DEF u
<1> QED BY <1>2, <1>3

LEMMA StatementReviewed ==
  ASSUME DiskOK, Core, AsideOK, SamePackage, Fitting, Reviewed, Brought, todo # <<>>,
         NEW st, st = todo[1], 1 \in DOMAIN todo, Strikes(st), UNCHANGED vars, cut' = cut,
         todo' = Tail(todo)
  PROVE  Reviewed'
<1>1. Fits(todo, 1) BY DEF Fitting
<1>2. PICK B : todo \in Seq(B) BY DEF Brought
<1>3. \A t, op, x : ~ Prior(todo, 1, t, op, x)
  <2>1. \A m \in DOMAIN todo : ~ (m < 1) BY <1>2
  <2> QED BY <2>1 DEF Prior
<1>4. ASSUME NEW i, NEW p, StagedIn(i, p)', p \notin cut
      PROVE  /\ p \in DOMAIN disk'.packages
             /\ \/ disk'.packages[p].list = "linkgrabber"
                \/ Writes(todo', 0, "downloads", i, "list")
  <2>1. CASE Inserted(st, i) /\ \A m \in DOMAIN todo : todo[m].op = "insert"
    <3>0. Toward(st, rows) /\ st.op = "insert" /\ st.id = i
      BY <1>2, <2>1 DEF Brought, Brings, Leads, Inserted
    <3>1. st.cols.list = "linkgrabber" /\ st.cols.pkg = p
      BY <1>4, <2>1, <3>0 DEF Inserted, StagedIn, Toward
    <3>2. FilePackage(p) BY <1>1, <1>3, <2>1, <3>1 DEF Fits, InsertFits, Inserted
    <3> QED BY <2>1, <3>2 DEF FilePackage, Inserted, Strikes
  <2>2. CASE /\ StagedIn(i, p)
             /\ ~ (st.table = "downloads" /\ st.id = i /\ st.op = "delete")
             /\ ~ (/\ st.table = "downloads" /\ st.id = i /\ st.op = "update"
                   /\ "list" \in DOMAIN st.cols)
    <3>1. /\ p \in DOMAIN disk.packages
          /\ \/ disk.packages[p].list = "linkgrabber"
             \/ Writes(todo, 0, "downloads", i, "list")
      BY <1>4, <2>2 DEF Reviewed, StagedIn
    <3>2. Writes(todo, 0, "downloads", i, "list") => Writes(todo', 0, "downloads", i, "list")
      BY <1>2, <2>2, TailWrites
    <3>3. CASE st.table # "packages" BY <3>1, <3>2, <3>3 DEF Strikes
    <3>4. CASE st.table = "packages"
      <4>1. Hits(st, disk.packages, pkgRows, disk'.packages) BY <3>4 DEF Strikes
      <4>2. p \in DOMAIN disk'.packages
        <5>1. st.op = "delete" => st.id # p
          BY <1>1, <1>3, <1>4, <2>2, <3>4 DEF Fits, PackageFits
        <5> QED BY <3>1, <4>1, <5>1 DEF Hits
      <4>3. CASE disk'.packages[p] = disk.packages[p] BY <3>1, <3>2, <4>2, <4>3
      <4>4. CASE st.op = "insert" /\ st.id = p
        <5>1. st.cols.list = "linkgrabber" BY <1>1, <3>4, <4>4 DEF Fits, PackageFits
        <5>2. disk'.packages[p] = pkgRows[p] BY <4>1, <4>4 DEF Hits
        <5>3. Toward(st, pkgRows) BY <1>2, <3>4 DEF Brought, Brings, Leads
        <5>4. st.cols = pkgRows[p] BY <4>4, <5>3 DEF Toward
        <5> QED BY <4>2, <5>1, <5>2, <5>4
      <4>5. CASE st.op = "update" /\ st.id = p
        <5>1. CASE "list" \in DOMAIN st.cols
          <6>1. Writes(todo, 0, "downloads", i, "list")
            BY <1>1, <1>4, <2>2, <3>4, <4>5, <5>1 DEF Fits, PackageFits
          <6> QED BY <3>2, <4>2, <6>1
        <5>2. CASE "list" \notin DOMAIN st.cols
          <6> DEFINE r == disk.packages[p]
                     v == disk'.packages[p]
          <6>1. v = Overlay(st.cols, r) BY <3>1, <4>1, <4>5 DEF Hits
          <6>2. r \in Package BY <3>1 DEF DiskOK
          <6>3. "list" \in DOMAIN r BY <6>2 DEF Package
          <6>4. v["list"] = r["list"] BY <5>2, <6>1, <6>3 DEF Overlay
          <6> QED BY <3>1, <3>2, <4>2, <6>4
        <5> QED BY <5>1, <5>2
      <4> QED BY <4>1, <4>2, <4>3, <4>4, <4>5 DEF Hits
    <3> QED BY <3>3, <3>4
  <2> QED BY <1>4, <2>1, <2>2, StagedSoFar
<1> QED BY <1>4 DEF Reviewed, StagedIn

LEMMA StatementFits ==
  ASSUME DiskOK, Core, AsideOK, SamePackage, Fitting, Brought, todo # <<>>,
         NEW st, st = todo[1], 1 \in DOMAIN todo, Strikes(st), UNCHANGED vars, cut' = cut,
         todo' = Tail(todo)
  PROVE  Fitting'
<1>5. PICK u : u = Tail(todo) OBVIOUS
<1>0. PICK B : todo \in Seq(B) BY DEF Brought
<1>1. u \in Seq(B) /\ \A n \in DOMAIN u : n + 1 \in DOMAIN todo /\ u[n] = todo[n + 1]
  BY <1>0, <1>5, TailPends
<1>2. UNCHANGED rows BY DEF vars
<1>3. SUFFICES ASSUME NEW n \in DOMAIN u PROVE Fits(u, n)'
  BY <1>5 DEF Fitting
<1>15. PICK s : s = todo[n + 1] OBVIOUS
<1>4. u[n] = s /\ Fits(todo, n + 1) /\ Fits(todo, 1) BY <1>1, <1>15 DEF Fitting
<1>6. ASSUME NEW t, NEW op, NEW x, Prior(todo, n + 1, t, op, x)
      PROVE  Prior(u, n, t, op, x) \/ (st.table = t /\ st.op = op /\ st.id = x)
  <2>1. todo \in Seq(B) BY <1>0
  <2> QED BY <1>5, <1>6, <2>1, TailPrior
<1>7. \A x : Writes(todo, 0, "downloads", x, "list") =>
        \/ Writes(u, 0, "downloads", x, "list")
        \/ st.table = "downloads" /\ st.op = "update" /\ st.id = x /\ "list" \in DOMAIN st.cols
  BY <1>0, <1>5, TailWrites
<1>8. \A i, p : StagedIn(i, p)' =>
        \/ /\ StagedIn(i, p)
           /\ ~ (st.table = "downloads" /\ st.id = i /\ st.op = "delete")
           /\ ~ (/\ st.table = "downloads" /\ st.id = i /\ st.op = "update"
                 /\ "list" \in DOMAIN st.cols)
        \/ s.op = "insert"
  <2> SUFFICES ASSUME NEW i, NEW p, StagedIn(i, p)'
               PROVE  \/ /\ StagedIn(i, p)
                         /\ ~ (st.table = "downloads" /\ st.id = i /\ st.op = "delete")
                         /\ ~ (/\ st.table = "downloads" /\ st.id = i /\ st.op = "update"
                               /\ "list" \in DOMAIN st.cols)
                      \/ s.op = "insert"
    OBVIOUS
  <2>1. \/ /\ StagedIn(i, p)
           /\ ~ (st.table = "downloads" /\ st.id = i /\ st.op = "delete")
           /\ ~ (/\ st.table = "downloads" /\ st.id = i /\ st.op = "update"
                 /\ "list" \in DOMAIN st.cols)
        \/ Inserted(st, i) /\ \A m \in DOMAIN todo : todo[m].op = "insert"
    BY StagedSoFar
  <2>2. (\A m \in DOMAIN todo : todo[m].op = "insert") => s.op = "insert"
    BY <1>1, <1>15
  <2> QED BY <2>1, <2>2
<1>9. \A m \in DOMAIN u : (\A k \in DOMAIN todo : todo[k].op = "insert") => u[m].op = "insert"
  BY <1>1
<1>10. InsertFits(u, n)'
  <2> SUFFICES ASSUME s.table = "downloads", s.op = "insert"
               PROVE  /\ \A m \in DOMAIN u : u[m].op = "insert"
                      /\ s.cols.list = "linkgrabber" =>
                           \/ Prior(u, n, "packages", "insert", s.cols.pkg)
                           \/ FilePackage(s.cols.pkg)'
    BY <1>4 DEF InsertFits, Prior
  <2>1. \A m \in DOMAIN todo : todo[m].op = "insert"
    BY <1>15, <1>4 DEF Fits, InsertFits
  <2>2. ASSUME s.cols.list = "linkgrabber", ~ Prior(u, n, "packages", "insert", s.cols.pkg)
        PROVE  FilePackage(s.cols.pkg)'
    <3> DEFINE p == s.cols.pkg
    <3>1. FilePackage(p) \/ (st.table = "packages" /\ st.op = "insert" /\ st.id = p)
      BY <1>15, <1>4, <1>6, <2>2 DEF Fits, InsertFits
    <3>2. st.op = "insert" BY <2>1
    <3>3. CASE st.table # "packages" BY <3>1, <3>3 DEF FilePackage, Strikes
    <3>4. CASE st.table = "packages"
      <4>1. Hits(st, disk.packages, pkgRows, disk'.packages) BY <3>4 DEF Strikes
      <4>2. CASE st.id = p
        <5>1. st.cols.list = "linkgrabber" BY <1>4, <3>2, <3>4 DEF Fits, PackageFits
        <5>2. Toward(st, pkgRows) /\ 1 > 0 BY <3>4 DEF Brought, Brings, Leads
        <5>3. st.cols = pkgRows[p] BY <3>2, <4>2, <5>2 DEF Toward
        <5>4. p \in DOMAIN disk'.packages /\ disk'.packages[p] = pkgRows[p]
          BY <3>2, <4>1, <4>2 DEF Hits
        <5> QED BY <5>1, <5>3, <5>4 DEF FilePackage
      <4>3. CASE st.id # p
        <5>1. p \in DOMAIN disk.packages /\ disk.packages[p].list = "linkgrabber"
          BY <3>1, <4>3 DEF FilePackage
        <5> HIDE DEF p
        <5>2. p \in DOMAIN disk'.packages /\ disk'.packages[p] = disk.packages[p]
          BY <4>1, <4>3, <5>1, <3>2 DEF Hits
        <5> QED BY <5>1, <5>2 DEF FilePackage, p
      <4> QED BY <4>2, <4>3
    <3> QED BY <3>3, <3>4
  <2> QED BY <1>9, <2>1, <2>2
<1>11. UpdateFits(u, n)'
  <2> SUFFICES ASSUME s.table = "downloads", s.op = "update"
               PROVE  /\ "list" \in DOMAIN s.cols =>
                           s.cols.list = "download" /\ s.id \in DOMAIN items'
                      /\ "state" \in DOMAIN s.cols <=> "err" \in DOMAIN s.cols
                      /\ "state" \in DOMAIN s.cols /\ (\E p : StagedIn(s.id, p)') =>
                           s.cols.state \in {"QUEUED", "PAUSED"}
    BY <1>4 DEF UpdateFits
  <2>1. (\E p : StagedIn(s.id, p)') => \E p : StagedIn(s.id, p) BY <1>8
  <2>2. items' = items BY DEF vars
  <2> QED BY <1>15, <1>4, <2>1, <2>2 DEF Fits, UpdateFits
<1>12. DeleteFits(u, n)'
  <2> SUFFICES ASSUME s.table = "downloads", s.op = "delete", s.id \in disk'.parts
               PROVE  Prior(u, n, "parts", "delete", s.id)
    BY <1>4 DEF DeleteFits, Prior
  <2>1. s.id \in disk.parts /\ ~ (st.table = "parts" /\ st.id = s.id)
    BY DEF Strikes
  <2>2. Prior(todo, n + 1, "parts", "delete", s.id)
    BY <1>15, <1>4, <2>1 DEF Fits, DeleteFits
  <2> QED BY <1>6, <2>1, <2>2
<1>13. PackageFits(u, n)'
  <2> SUFFICES ASSUME s.table = "packages"
               PROVE  /\ s.op = "insert" => s.cols.list = "linkgrabber"
                      /\ s.op = "update" /\ "list" \in DOMAIN s.cols =>
                           \A j : StagedIn(j, s.id)' =>
                             Writes(u, 0, "downloads", j, "list") \/ s.id \in cut
                      /\ s.op = "delete" =>
                           \A j : StagedIn(j, s.id)' =>
                             Prior(u, n, "downloads", "delete", j) \/ s.id \in cut
    BY <1>4 DEF PackageFits, Prior, Writes
  <2>1. s.op = "insert" => s.cols.list = "linkgrabber"
    BY <1>15, <1>4 DEF Fits, PackageFits
  <2>2. ASSUME s.op = "update", "list" \in DOMAIN s.cols, NEW j, StagedIn(j, s.id)',
               s.id \notin cut
        PROVE  Writes(u, 0, "downloads", j, "list")
    <3>1. StagedIn(j, s.id) => Writes(todo, 0, "downloads", j, "list")
      BY <1>15, <1>4, <2>2 DEF Fits, PackageFits
    <3> QED BY <1>7, <1>8, <2>2, <3>1
  <2>3. ASSUME s.op = "delete", NEW j, StagedIn(j, s.id)', s.id \notin cut
        PROVE  Prior(u, n, "downloads", "delete", j)
    <3>1. StagedIn(j, s.id) => Prior(todo, n + 1, "downloads", "delete", j)
      BY <1>15, <1>4, <2>3 DEF Fits, PackageFits
    <3> QED BY <1>6, <1>8, <2>3, <3>1
  <2> QED BY <2>1, <2>2, <2>3
<1>14. PartFits(u, n)'
  BY <1>2, <1>4, <1>15 DEF Fits, PartFits
<1> QED BY <1>10, <1>11, <1>12, <1>13, <1>14 DEF Fits

\* What a process has not loaded stays as it is.
LEMMA AsideStutters ==
  ASSUME QueueInv, UNCHANGED vars, cut' = cut
  PROVE  Tables' /\ AllShown(cut)' /\ AsideOK' /\ AsideShown(cut)' /\ Core'
<1>1. UNCHANGED <<items, pkgs, rows, pkgRows, partial>> BY DEF vars
<1>2. PICK E : E = cut OBVIOUS
<1>3. Core' /\ AllShown(E)' BY <1>2, CoreStutters DEF QueueInv
<1>4. AllShown(cut)' BY <1>2, <1>3 DEF AllShown, Shown
<1>5. Tables' BY <1>1 DEF QueueInv, Tables
<1>6. AsideOK' /\ AsideShown(cut)' BY <1>1 DEF QueueInv, AsideOK, AsideShown, NotLoaded
<1> QED BY <1>3, <1>4, <1>5, <1>6

LEMMA LoadStutters ==
  ASSUME LoadOK, UNCHANGED vars, UNCHANGED <<phase, early>>, todo = <<>> => todo' = <<>>
  PROVE  LoadOK'
<1>1. UNCHANGED <<items, pkgs, rows, pkgRows, nextPos>> BY DEF vars
<1> QED BY <1>1 DEF LoadOK, Up, Fresh, AllLoaded, PkgsNotLoaded

LEMMA StatementKeeps ==
  ASSUME StoreInv, Statement PROVE StoreInv'
<1>1. QueueInv /\ DiskOK /\ CountersOK /\ Reviewed /\ ScanOK /\ LoadOK BY DEF StoreInv
<1>2. UNCHANGED <<vars, phase, scan, twice, early, cut>> BY DEF Statement
<1>3. /\ todo # <<>> /\ 1 \in DOMAIN todo /\ todo' = Tail(todo)
      /\ IsDisk(disk') /\ Strikes(todo[1]) /\ Brought'
  BY <1>1, OneStatement DEF QueueInv
<1>5. PICK st : st = todo[1] OBVIOUS
<1>7. Tables' /\ AllShown(cut)' /\ AsideOK' /\ AsideShown(cut)' /\ Core'
  BY <1>1, <1>2, AsideStutters
<1>8. DiskOK' BY <1>1, <1>2, <1>3, <1>5, StatementDisk DEF QueueInv
<1>9. Fitting' BY <1>1, <1>2, <1>3, <1>5, StatementFits DEF QueueInv
<1>10. SamePackage' BY <1>1, <1>2, <1>3, StatementSame DEF QueueInv
<1>11. AtWork' BY <1>1, <1>2, <1>3, StatementAtWork DEF QueueInv
<1>12. Reviewed' BY <1>1, <1>2, <1>3, <1>5, StatementReviewed DEF QueueInv
<1>13. QueueInv' BY <1>3, <1>7, <1>9, <1>10, <1>11 DEF QueueInv
<1>14. CountersOK' BY <1>1, <1>2 DEF CountersOK, vars
<1>15. phase \notin {"packages", "downloads"} BY <1>1, <1>3 DEF LoadOK
<1>16. ScanOK' BY <1>1, <1>2, <1>15 DEF ScanOK, Scanning
<1>17. LoadOK' BY <1>1, <1>2, <1>3, LoadStutters
<1>18. phase' \in Phases /\ twice' \in BOOLEAN /\ early' \in BOOLEAN BY <1>2 DEF StoreInv
<1> QED BY <1>8, <1>12, <1>13, <1>14, <1>16, <1>17, <1>18 DEF StoreInv

---------------------------------------------------------------------------
(* The steps of workers, and the end of the process *)

LEMMA WorksKeep ==
  ASSUME StoreInv, Works PROVE StoreInv'
<1>0. UNCHANGED <<todo, phase, scan, twice, early, cut>> BY DEF Works
<1>1. QueueInv /\ DiskOK /\ CountersOK /\ Reviewed /\ ScanOK /\ LoadOK BY DEF StoreInv
<1>2. Core /\ AllShown(cut) BY <1>1 DEF QueueInv
<1>3. PICK i \in DOMAIN items : WorkerWrites(i) \/ \E rc \in Outcomes : WorkerReturns(i, rc)
  BY DEF Works
<1>4. System BY <1>3 DEF System
<1>5. Core' /\ NoneNew
  <2>1. Core' BY <1>2, <1>4, SystemCore
  <2>2. NoneNew BY <1>2, <1>3, WorkersStartNone
  <2> QED BY <2>1, <2>2
<1>6. PICK E : E = cut OBVIOUS
<1>7. AllShown(cut)'
  <2>1. AllShown(E)' BY <1>2, <1>4, <1>6, SystemShows
  <2> QED BY <1>0, <1>6, <2>1 DEF AllShown, Shown
<1>8. i \in Running BY <1>3 DEF WorkerWrites, WorkerReturns
<1>9. UNCHANGED <<rows, pkgs, pkgRows, nextId, nextPkg, nextPos>> /\ DOMAIN items' = DOMAIN items
  BY <1>3 DEF WorkerWrites, WorkerReturns, packages, counters
<1>10. \/ partial' = partial \cup {i} /\ i \notin partial
       \/ partial' = partial \ {i}
       \/ partial' = partial
  BY <1>3 DEF WorkerWrites, WorkerReturns
<1>11. i \in DOMAIN rows BY <1>2, <1>8, RunningRows
<1>12. /\ i \in DOMAIN disk.downloads
       /\ disk.downloads[i].list = "download" /\ disk.downloads[i].state # "DONE"
  BY <1>1, <1>8 DEF QueueInv, AtWork
<1>13. PICK B : todo \in Seq(B) /\ Brings(todo, 0, disk, rows, pkgRows, partial)
  BY <1>1 DEF QueueInv, Brought
<1>14. \A n \in DOMAIN todo : Fits(todo, n) BY <1>1 DEF QueueInv, Fitting
<1>15. i \notin Unlinked(todo, 0) BY <1>11, <1>14 DEF Unlinked, Fits, PartFits
<1>16. /\ disk'.downloads = disk.downloads /\ disk'.packages = disk.packages
       /\ disk'.parts = (disk.parts \cup (partial' \ partial)) \ (partial \ partial')
       /\ IsDisk(disk')
  <2> DEFINE P == (disk.parts \cup (partial' \ partial)) \ (partial \ partial')
  <2>1. disk' = [disk EXCEPT !.parts = P] BY DEF Works
  <2> HIDE DEF P
  <2>2. disk' = [downloads |-> disk.downloads, packages |-> disk.packages, parts |-> P,
                 columns |-> disk.columns]
    BY <1>13, <2>1 DEF Brings, IsDisk
  <2> QED BY <2>2 DEF P, IsDisk
<1>17. disk'.parts \subseteq disk.parts \cup {i} BY <1>10, <1>16
<1>18. Brought'
  <2>1. partial' = disk'.parts \ Unlinked(todo, 0) BY <1>10, <1>13, <1>15, <1>16 DEF Brings
  <2>2. Brings(todo, 0, disk', rows, pkgRows, partial')
    BY <1>13, <1>16, <2>1 DEF Brings
  <2> QED BY <1>0, <1>9, <1>13, <2>2 DEF Brought
<1>19. DiskOK'
  <2>1. ASSUME NEW j \in DOMAIN disk.downloads PROVE RowOK(j)'
    <3>1. RowOK(j) BY <1>1 DEF DiskOK
    <3> QED BY <1>9, <1>12, <1>16, <1>17, <3>1 DEF RowOK
  <2>2. disk'.parts \subseteq DOMAIN disk'.downloads
    BY <1>1, <1>12, <1>16, <1>17 DEF DiskOK
  <2> QED BY <1>1, <1>9, <1>16, <2>1, <2>2 DEF DiskOK
<1>20. Fitting'
  <2> SUFFICES ASSUME NEW n \in DOMAIN todo PROVE Fits(todo, n)'
    BY <1>0 DEF Fitting
  <2>1. Fits(todo, n) BY <1>14
  <2>2. InsertFits(todo, n)' BY <1>0, <1>16, <2>1 DEF Fits, InsertFits, Prior, FilePackage
  <2>3. UpdateFits(todo, n)' BY <1>0, <1>9, <1>16, <2>1 DEF Fits, UpdateFits, StagedIn
  <2>4. DeleteFits(todo, n)'
    <3> SUFFICES ASSUME todo[n].table = "downloads", todo[n].op = "delete",
                        todo[n].id \in disk'.parts
                 PROVE  Prior(todo, n, "parts", "delete", todo[n].id)
      BY <1>0 DEF DeleteFits, Prior
    <3>1. n > 0 BY <1>13
    <3>2. todo[n].id \notin DOMAIN rows
      BY <1>13, <3>1 DEF Brings, Leads, Toward
    <3> QED BY <1>11, <1>17, <2>1, <3>2 DEF Fits, DeleteFits
  <2>5. PackageFits(todo, n)' BY <1>0, <1>16, <2>1 DEF Fits, PackageFits, StagedIn, Writes, Prior
  <2>6. PartFits(todo, n)' BY <1>0, <1>9, <2>1 DEF Fits, PartFits
  <2> QED BY <2>2, <2>3, <2>4, <2>5, <2>6 DEF Fits
<1>21. SamePackage' BY <1>1, <1>9, <1>16 DEF QueueInv, SamePackage
<1>22. AtWork' BY <1>1, <1>5, <1>16 DEF QueueInv, AtWork, Running, NoneNew
<1>23. Reviewed' BY <1>0, <1>1, <1>16 DEF Reviewed, Writes
<1>24. Aside BY <1>2, <1>4, SystemAside
<1>25. Tables' /\ AsideOK' /\ AsideShown(cut)'
  <2>1. NotLoaded' = NotLoaded BY <1>24 DEF Aside, LinksAside
  <2>2. \A j \in NotLoaded : j \in partial' => j \in partial BY <1>24 DEF Aside, LinksAside
  <2>3. AsideOK' BY <1>1, <1>9, <2>1, <2>2 DEF QueueInv, AsideOK
  <2>4. AsideShown(cut)' BY <1>0, <1>1, <1>9, <2>1 DEF QueueInv, AsideShown
  <2> QED BY <1>1, <1>24, <2>3, <2>4 DEF QueueInv, Aside, PkgsAside
<1>26. QueueInv' BY <1>5, <1>7, <1>18, <1>20, <1>21, <1>22, <1>25 DEF QueueInv
<1>27. CountersOK' BY <1>0, <1>1, <1>5 DEF CountersOK, Core, GlobalOK
<1>28. LoadOK'
  <2>1. items # Empty BY DEF Empty
  <2> QED BY <1>0, <1>1, <1>9, <2>1 DEF LoadOK, Fresh, AllLoaded, PkgsNotLoaded, Up
<1>29. ScanOK' BY <1>0, <1>1, <1>16 DEF ScanOK, Scanning
<1>30. phase' \in Phases /\ twice' \in BOOLEAN /\ early' \in BOOLEAN BY <1>0 DEF StoreInv
<1> QED BY <1>19, <1>23, <1>26, <1>27, <1>28, <1>29, <1>30 DEF StoreInv

\* A link whose list is still to be written has its package in a confirm.
LEMMA WritesConfirming ==
  ASSUME StoreInv, NEW i \in DOMAIN disk.downloads, NEW p, p = disk.downloads[i].pkg,
         Writes(todo, 0, "downloads", i, "list")
  PROVE  p \in Confirming
<1>1. PICK n \in DOMAIN todo : /\ n > 0 /\ todo[n].table = "downloads"
                               /\ todo[n].op = "update" /\ todo[n].id = i
                               /\ "list" \in DOMAIN todo[n].cols
  BY DEF Writes
<1>2. QueueInv BY DEF StoreInv
<1>3. Toward(todo[n], rows) BY <1>1, <1>2 DEF QueueInv, Brought, Brings, Leads
<1>4. i \in DOMAIN rows BY <1>1, <1>3 DEF Toward
<1>5. rows[i].pkg = p BY <1>2, <1>4 DEF QueueInv, SamePackage
<1>6. i \in DOMAIN items BY <1>1, <1>2 DEF QueueInv, Fitting, Fits, UpdateFits
<1>7. items[i].pkg = p BY <1>2, <1>5, <1>6 DEF QueueInv, Core, LinkOK, Mirrored
<1> QED BY <1>1, <1>6, <1>7 DEF Confirming

\* What a confirm cut short had not written, its package makes up for.
LEMMA DiesKeep ==
  ASSUME StoreInv, Dies PROVE StoreInv'
<1>1. DiskOK /\ CountersOK /\ Reviewed BY DEF StoreInv
<1>2. /\ phase' = "closed" /\ todo' = <<>> /\ scan' = NoScan
      /\ cut' = cut \cup {p \in Confirming \cap DOMAIN disk.packages :
                           disk.packages[p].list = "download"}
      /\ rows' = disk.downloads /\ pkgRows' = disk.packages /\ partial' = disk.parts
      /\ items' = Empty /\ pkgs' = Empty
      /\ cells' = [i \in Links |-> "free"] /\ nextPos' = 1
      /\ twice' = FALSE /\ early' = FALSE
      /\ UNCHANGED <<nextId, nextPkg, maxActive, globalAutostart, disk>>
  BY DEF Dies, settings
<1>3. DOMAIN items' = {} /\ DOMAIN pkgs' = {} BY <1>2 DEF Empty
<1>4. DiskOK' BY <1>1, <1>2 DEF DiskOK, RowOK
<1>5. CountersOK'
  <2>1. 1 \in 1 .. (PosBound + 1) BY BoundsAssumption
  <2>2. cut' \subseteq PkgRefs
    <3>1. \A p \in DOMAIN disk.packages : p \in PkgRefs BY <1>1 DEF DiskOK, Packages, PkgRefs
    <3> QED BY <1>1, <1>2, <3>1 DEF CountersOK
  <2> QED BY <1>1, <1>2, <2>1, <2>2 DEF CountersOK
<1>6. ASSUME NEW i \in DOMAIN disk.downloads, disk.downloads[i].list = "linkgrabber",
             NEW p, p = disk.downloads[i].pkg
      PROVE  p \in cut' \/ (p \in DOMAIN disk.packages /\ disk.packages[p].list = "linkgrabber")
  <2>1. \/ p \in cut
        \/ /\ p \in DOMAIN disk.packages
           /\ disk.packages[p].list = "linkgrabber" \/ Writes(todo, 0, "downloads", i, "list")
    BY <1>1, <1>6 DEF Reviewed
  <2>2. p \in DOMAIN disk.packages => disk.packages[p].list \in {"linkgrabber", "download"}
    BY <1>1 DEF DiskOK, Package, Lists
  <2>3. ASSUME Writes(todo, 0, "downloads", i, "list") PROVE p \in Confirming
    BY <1>6, <2>3, WritesConfirming
  <2> QED BY <1>2, <2>1, <2>2, <2>3
<1>7. Reviewed' BY <1>2, <1>6 DEF Reviewed
<1>8. Table(rows') /\ Table(pkgRows') BY <1>1, <1>2 DEF DiskOK
<1>9. Core'
  <2>1. \A i \in DOMAIN rows' : i \in Links /\ i < nextId' BY <1>1, <1>2 DEF DiskOK, RowOK
  <2>2. \A p \in DOMAIN pkgRows' : p \in Packages /\ p < nextPkg' /\ pkgRows'[p] \in Package
    BY <1>1, <1>2 DEF DiskOK
  <2>3. partial' \subseteq DOMAIN rows' BY <1>1, <1>2 DEF DiskOK
  <2>4. /\ cells' \in [Links -> {"free", "clear", "set"}]
        /\ \A i \in Links : cells'[i] = "free"
    BY <1>2
  <2>5. GlobalOK' BY <1>3, <1>5, <2>1, <2>2, <2>3, <2>4 DEF GlobalOK, CountersOK
  <2> QED BY <1>3, <2>5 DEF Core
<1>10. Tables'
  <2>1. pkgRows' = [p \in DOMAIN pkgRows' |-> pkgRows'[p]] BY <1>8 DEF Table
  <2>2. pkgs' = [p \in DOMAIN pkgs' |-> pkgs'[p]] BY <1>2 DEF Empty
  <2> QED BY <2>1, <2>2 DEF Tables
<1>11. AllShown(cut)' BY <1>3 DEF AllShown
<1>12. NotLoaded' = DOMAIN disk.downloads BY <1>2, <1>3 DEF NotLoaded
<1>13. AsideOK' BY <1>1, <1>2, <1>12 DEF AsideOK, DiskOK, RowOK
<1>14. AsideShown(cut)' BY <1>2, <1>6, <1>12 DEF AsideShown
<1>15. Brought'
  <2>1. \E B : todo' \in Seq(B) BY <1>2
  <2>2. /\ Leads(todo', 0, "downloads", disk'.downloads, rows')
        /\ Leads(todo', 0, "packages", disk'.packages, pkgRows')
    BY <1>2, <1>8 DEF Leads
  <2>3. Unlinked(todo', 0) = {} BY <1>2 DEF Unlinked
  <2>4. Brings(todo', 0, disk', rows', pkgRows', partial')
    BY <1>1, <1>2, <2>2, <2>3 DEF Brings, DiskOK
  <2> QED BY <2>1, <2>4 DEF Brought
<1>16. Fitting' BY <1>2 DEF Fitting
<1>17. SamePackage' BY <1>2 DEF SamePackage
<1>18. AtWork' BY <1>3 DEF AtWork, Running
<1>19. QueueInv' BY <1>9, <1>10, <1>11, <1>13, <1>14, <1>15, <1>16, <1>17, <1>18 DEF QueueInv
<1>20. ScanOK' BY <1>2 DEF ScanOK, NoScan, Scanning
<1>21. LoadOK' BY <1>2, <1>3 DEF LoadOK, Fresh, Up
<1> QED BY <1>2, <1>4, <1>5, <1>7, <1>19, <1>20, <1>21 DEF StoreInv, Phases

---------------------------------------------------------------------------
(* The statements of a verb *)

\* Every statement is through.
Flushed == rows = disk.downloads /\ pkgRows = disk.packages /\ partial = disk.parts

\* What the statements s of a verb, or of a load, owe the invariant.
Plan(s) ==
  /\ \E B : s \in Seq(B) /\ Brings(s, 0, disk, rows', pkgRows', partial')
  /\ \A n \in DOMAIN s : Fits(s, n)'
  /\ \A i \in DOMAIN rows \cap DOMAIN rows' : rows'[i].pkg = rows[i].pkg

LEMMA AllThrough ==
  ASSUME QueueInv, todo = <<>> PROVE Flushed
<1>1. PICK B : todo \in Seq(B) /\ Brings(todo, 0, disk, rows, pkgRows, partial)
  BY DEF QueueInv, Brought
<1>2. Len(todo) = 0 OBVIOUS
<1>3. /\ Leads(todo, Len(todo), "downloads", disk.downloads, rows)
      /\ Leads(todo, Len(todo), "packages", disk.packages, pkgRows)
  BY <1>1, <1>2 DEF Brings
<1>4. disk.downloads = rows /\ disk.packages = pkgRows BY <1>1, <1>3, LeadsThere
<1>5. Unlinked(todo, 0) = {} BY DEF Unlinked
<1> QED BY <1>1, <1>4, <1>5 DEF Brings, Flushed

\* A verb, or a load, whose statements are planned leaves everything in order.
LEMMA Planned ==
  ASSUME DiskOK, CountersOK, Reviewed, todo = <<>>, Flushed, NEW s, s = todo', Plan(s),
         Core', Tables', AllShown(cut)', AsideOK', AsideShown(cut)', ScanOK', LoadOK',
         disk' = disk, cut \subseteq cut', cut' \subseteq PkgRefs,
         phase' \in Phases, twice' \in BOOLEAN, early' \in BOOLEAN,
         nextId' \in Nat, nextPkg' \in Nat, nextId' >= nextId, nextPkg' >= nextPkg,
         \A i \in Running' : i \in DOMAIN rows /\ rows[i].list = "download"
                             /\ rows[i].state # "DONE"
  PROVE  StoreInv'
<1>2. DiskOK'
  <2>1. \A i \in DOMAIN disk.downloads : RowOK(i)'
    <3> SUFFICES ASSUME NEW i \in DOMAIN disk.downloads PROVE RowOK(i)'
      OBVIOUS
    <3>1. RowOK(i) /\ nextId \in Int /\ i \in Int
      BY DEF DiskOK, RowOK, CountersOK, Links
    <3>2. i < nextId' BY <3>1 DEF RowOK
    <3> QED BY <3>1, <3>2 DEF RowOK
  <2>2. \A p \in DOMAIN disk.packages : p < nextPkg'
    <3> SUFFICES ASSUME NEW p \in DOMAIN disk.packages PROVE p < nextPkg'
      OBVIOUS
    <3>1. p \in Int /\ p < nextPkg /\ nextPkg \in Int
      BY DEF DiskOK, CountersOK, Packages
    <3> QED BY <3>1
  <2> QED BY <2>1, <2>2 DEF DiskOK
<1>3. CountersOK' BY DEF CountersOK, Core, GlobalOK
<1>4. Reviewed'
  <2>1. \A i : ~ Writes(todo, 0, "downloads", i, "list") BY DEF Writes
  <2> QED BY <2>1 DEF Reviewed
<1>5. Brought' BY DEF Plan, Brought
<1>9. Fitting' BY DEF Plan, Fitting
<1>6. SamePackage' BY DEF Plan, Flushed, SamePackage
<1>7. AtWork' BY DEF AtWork, Flushed
<1>8. QueueInv' BY <1>5, <1>6, <1>7, <1>9 DEF QueueInv
<1> QED BY <1>2, <1>3, <1>4, <1>8 DEF StoreInv

---------------------------------------------------------------------------
(* Statements one after the other *)

LEMMA Concat ==
  ASSUME NEW B, NEW C, NEW s \in Seq(B), NEW v \in Seq(C), NEW u, u = s \o v
  PROVE  /\ u \in Seq(B \cup C)
         /\ \A n \in DOMAIN s : n \in DOMAIN u /\ u[n] = s[n] /\ n > 0
         /\ \A n \in DOMAIN v : /\ Len(s) + n \in DOMAIN u /\ u[Len(s) + n] = v[n]
                                /\ n > 0 /\ Len(s) + n > 0
         /\ \A n \in DOMAIN u : \/ n \in DOMAIN s /\ u[n] = s[n]
                                \/ /\ n - Len(s) \in DOMAIN v /\ u[n] = v[n - Len(s)]
                                   /\ n > Len(s)
<1>1. /\ s \in Seq(B \cup C) /\ v \in Seq(B \cup C)
      /\ Len(s) \in Nat /\ Len(v) \in Nat /\ DOMAIN s = 1 .. Len(s) /\ DOMAIN v = 1 .. Len(v)
  OBVIOUS
<1>2. u \in Seq(B \cup C) /\ DOMAIN u = 1 .. (Len(s) + Len(v)) BY <1>1
<1>3. /\ \A n \in DOMAIN s : n \in DOMAIN u /\ u[n] = s[n] /\ n > 0
      /\ \A n \in DOMAIN v : /\ Len(s) + n \in DOMAIN u /\ u[Len(s) + n] = v[n]
                             /\ n > 0 /\ Len(s) + n > 0
  BY <1>1, <1>2
<1>4. \A n \in DOMAIN u : \/ n \in DOMAIN s /\ u[n] = s[n]
                          \/ /\ n - Len(s) \in DOMAIN v /\ u[n] = v[n - Len(s)]
                             /\ n > Len(s)
  BY <1>1, <1>2
<1> QED BY <1>2, <1>3, <1>4

Entries(s) == {s[n] : n \in DOMAIN s}

LEMMA EntriesSay ==
  ASSUME NEW B, NEW s \in Seq(B)
  PROVE  /\ \A t, op, x : Pends(s, 0, t, op, x) <=>
              \E e \in Entries(s) : e.table = t /\ e.op = op /\ e.id = x
         /\ \A t, x, c : Writes(s, 0, t, x, c) <=>
              \E e \in Entries(s) : /\ e.table = t /\ e.op = "update" /\ e.id = x
                                    /\ c \in DOMAIN e.cols
         /\ Unlinked(s, 0) = {e.id : e \in {e \in Entries(s) : e.table = "parts"}}
<1>1. \A n \in DOMAIN s : n > 0 OBVIOUS
<1>2. \A t, op, x : Pends(s, 0, t, op, x) <=>
        \E e \in Entries(s) : e.table = t /\ e.op = op /\ e.id = x
  BY <1>1 DEF Pends, Entries
<1>3. \A t, x, c : Writes(s, 0, t, x, c) <=>
        \E e \in Entries(s) : /\ e.table = t /\ e.op = "update" /\ e.id = x
                              /\ c \in DOMAIN e.cols
  BY <1>1 DEF Writes, Entries
<1>4. Unlinked(s, 0) = {e.id : e \in {e \in Entries(s) : e.table = "parts"}}
  BY <1>1 DEF Unlinked, Entries
<1> QED BY <1>2, <1>3, <1>4

Unites(u, s, v) == \A e : e \in Entries(u) <=> e \in Entries(s) \/ e \in Entries(v)

LEMMA ConcatEntries ==
  ASSUME NEW B, NEW C, NEW s \in Seq(B), NEW v \in Seq(C), NEW u, u = s \o v
  PROVE  Unites(u, s, v)
<1>2. /\ \A n \in DOMAIN s : n \in DOMAIN u /\ u[n] = s[n]
      /\ \A n \in DOMAIN v : Len(s) + n \in DOMAIN u /\ u[Len(s) + n] = v[n]
      /\ \A n \in DOMAIN u : \/ n \in DOMAIN s /\ u[n] = s[n]
                             \/ n - Len(s) \in DOMAIN v /\ u[n] = v[n - Len(s)]
  BY Concat
<1>3. ASSUME NEW e \in Entries(u) PROVE e \in Entries(s) \/ e \in Entries(v)
  <2>1. PICK n \in DOMAIN u : e = u[n] BY DEF Entries
  <2> QED BY <1>2, <2>1 DEF Entries
<1>4. ASSUME NEW e \in Entries(s) PROVE e \in Entries(u)
  <2>1. PICK n \in DOMAIN s : e = s[n] BY DEF Entries
  <2> QED BY <1>2, <2>1 DEF Entries
<1>5. ASSUME NEW e \in Entries(v) PROVE e \in Entries(u)
  <2>1. PICK n \in DOMAIN v : e = v[n] BY DEF Entries
  <2> QED BY <1>2, <2>1 DEF Entries
<1> QED BY <1>3, <1>4, <1>5 DEF Unites

LEMMA UnionPends ==
  ASSUME NEW B, NEW C, NEW D, NEW s \in Seq(B), NEW v \in Seq(C), NEW u \in Seq(D),
         Unites(u, s, v)
  PROVE  /\ \A t, op, x : Pends(u, 0, t, op, x) <=> Pends(s, 0, t, op, x) \/ Pends(v, 0, t, op, x)
         /\ \A t, x, c : Writes(u, 0, t, x, c) <=> Writes(s, 0, t, x, c) \/ Writes(v, 0, t, x, c)
         /\ Unlinked(u, 0) = Unlinked(s, 0) \cup Unlinked(v, 0)
<1>2. \A t, op, x : Pends(u, 0, t, op, x) <=> Pends(s, 0, t, op, x) \/ Pends(v, 0, t, op, x)
  <2>1. \A t, op, x : Pends(s, 0, t, op, x) <=>
          \E e \in Entries(s) : e.table = t /\ e.op = op /\ e.id = x
    BY EntriesSay
  <2>2. \A t, op, x : Pends(v, 0, t, op, x) <=>
          \E e \in Entries(v) : e.table = t /\ e.op = op /\ e.id = x
    BY EntriesSay
  <2>3. \A t, op, x : Pends(u, 0, t, op, x) <=>
          \E e \in Entries(u) : e.table = t /\ e.op = op /\ e.id = x
    BY EntriesSay
  <2> QED BY <2>1, <2>2, <2>3 DEF Unites
<1>3. \A t, x, c : Writes(u, 0, t, x, c) <=> Writes(s, 0, t, x, c) \/ Writes(v, 0, t, x, c)
  <2>1. \A t, x, c : Writes(s, 0, t, x, c) <=>
          \E e \in Entries(s) : /\ e.table = t /\ e.op = "update" /\ e.id = x
                                /\ c \in DOMAIN e.cols
    BY EntriesSay
  <2>2. \A t, x, c : Writes(v, 0, t, x, c) <=>
          \E e \in Entries(v) : /\ e.table = t /\ e.op = "update" /\ e.id = x
                                /\ c \in DOMAIN e.cols
    BY EntriesSay
  <2>3. \A t, x, c : Writes(u, 0, t, x, c) <=>
          \E e \in Entries(u) : /\ e.table = t /\ e.op = "update" /\ e.id = x
                                /\ c \in DOMAIN e.cols
    BY EntriesSay
  <2> QED BY <2>1, <2>2, <2>3 DEF Unites
<1>4. Unlinked(u, 0) = Unlinked(s, 0) \cup Unlinked(v, 0)
  <2>1. Unlinked(s, 0) = {e.id : e \in {e \in Entries(s) : e.table = "parts"}}
    BY EntriesSay
  <2>2. Unlinked(v, 0) = {e.id : e \in {e \in Entries(v) : e.table = "parts"}}
    BY EntriesSay
  <2>3. Unlinked(u, 0) = {e.id : e \in {e \in Entries(u) : e.table = "parts"}}
    BY EntriesSay
  <2> QED BY <2>1, <2>2, <2>3 DEF Unites
<1> QED BY <1>2, <1>3, <1>4

LEMMA ConcatPends ==
  ASSUME NEW B, NEW C, NEW s \in Seq(B), NEW v \in Seq(C), NEW u, u = s \o v
  PROVE  /\ \A t, op, x : Pends(u, 0, t, op, x) <=> Pends(s, 0, t, op, x) \/ Pends(v, 0, t, op, x)
         /\ \A t, x, c : Writes(u, 0, t, x, c) <=> Writes(s, 0, t, x, c) \/ Writes(v, 0, t, x, c)
         /\ Unlinked(u, 0) = Unlinked(s, 0) \cup Unlinked(v, 0)
<1>1. Unites(u, s, v) BY ConcatEntries
<1>2. PICK D : u \in Seq(D)
  <2>1. u \in Seq(B \cup C) BY Concat
  <2> QED BY <2>1
<1>3. PICK w : w = u OBVIOUS
<1>4. Unites(w, s, v) /\ w \in Seq(D) BY <1>1, <1>2, <1>3
<1>5. /\ \A t, op, x : Pends(w, 0, t, op, x) <=> Pends(s, 0, t, op, x) \/ Pends(v, 0, t, op, x)
      /\ \A t, x, c : Writes(w, 0, t, x, c) <=> Writes(s, 0, t, x, c) \/ Writes(v, 0, t, x, c)
      /\ Unlinked(w, 0) = Unlinked(s, 0) \cup Unlinked(v, 0)
  BY <1>4, UnionPends
<1> QED BY <1>3, <1>5

\* Statements on other tables may come before and after.
LEMMA LeadsAmong ==
  ASSUME NEW B, NEW C, NEW s \in Seq(B), NEW v \in Seq(C), NEW t, NEW f, NEW F,
         \A n \in DOMAIN s : s[n].table # t, Leads(v, 0, t, f, F)
  PROVE  Leads(s \o v, 0, t, f, F) /\ Leads(v \o s, 0, t, f, F)
<1>1. ASSUME NEW u, u = s \o v \/ u = v \o s PROVE Leads(u, 0, t, f, F)
  <2>0. Unites(u, s, v) \/ Unites(u, v, s) BY <1>1, ConcatEntries
  <2>1. \A n \in DOMAIN u : (\E m \in DOMAIN s : u[n] = s[m]) \/ \E m \in DOMAIN v : u[n] = v[m]
    BY <2>0 DEF Entries, Unites
  <2>2. \A m \in DOMAIN v : m > 0 OBVIOUS
  <2>3. \A n \in DOMAIN u : u[n].table = t => Toward(u[n], F)
    BY <2>1, <2>2 DEF Leads
  <2>4. \A op, x : Pends(v, 0, t, op, x) => Pends(u, 0, t, op, x) BY <1>1, ConcatPends
  <2>5. \A x, c : Writes(v, 0, t, x, c) => Writes(u, 0, t, x, c) BY <1>1, ConcatPends
  <2> QED BY <2>3, <2>4, <2>5 DEF Leads
<1> QED BY <1>1

LEMMA LeadsNowhere ==
  ASSUME NEW s, NEW t, NEW f, \A n \in DOMAIN s : s[n].table # t, Table(f)
  PROVE  Leads(s, 0, t, f, f)
BY DEF Leads

---------------------------------------------------------------------------
(* Statements that write columns *)

\* s writes the columns cols of the rows S of table t, in whatever order.
Strokes(s, S, t, cols) ==
  /\ \A n \in DOMAIN s :
       /\ s[n].table = t /\ s[n].op = "update" /\ s[n].id \in S
       /\ \A c \in DOMAIN s[n].cols : c \in DOMAIN cols /\ s[n].cols[c] = cols[c]
  /\ \A x \in S : \A c \in DOMAIN cols : Writes(s, 0, t, x, c)

\* s writes exactly cols, row by row.
Listing(s, S, t, cols) ==
  /\ \E B : s \in Seq(B)
  /\ Strokes(s, S, t, cols)
  /\ \A n \in DOMAIN s : s[n].cols = cols

LEMMA StrokesLead ==
  ASSUME NEW s, NEW S, NEW t, NEW cols, Strokes(s, S, t, cols), NEW f, Table(f),
         S \subseteq DOMAIN f, \A x \in S : DOMAIN cols \subseteq DOMAIN f[x],
         NEW F, F = [x \in DOMAIN f |-> IF x \in S THEN Overlay(cols, f[x]) ELSE f[x]]
  PROVE  Leads(s, 0, t, f, F)
<1>1. DOMAIN F = DOMAIN f /\ \A x \in DOMAIN f : x \notin S => F[x] = f[x] OBVIOUS
<1>2. \A x \in S : x \in DOMAIN F /\ F[x] = Overlay(cols, f[x]) OBVIOUS
<1>3. \A x \in S : /\ DOMAIN F[x] = DOMAIN f[x]
                   /\ \A c \in DOMAIN f[x] :
                        F[x][c] = IF c \in DOMAIN cols THEN cols[c] ELSE f[x][c]
                   /\ F[x] = [c \in DOMAIN F[x] |-> F[x][c]]
  BY <1>2 DEF Overlay
<1>4. Table(F) BY <1>1, <1>3 DEF Table
<1>5. \A n \in DOMAIN s : Toward(s[n], F)
  <2> SUFFICES ASSUME NEW n \in DOMAIN s PROVE Toward(s[n], F)
    OBVIOUS
  <2> DEFINE st == s[n]
  <2>1. /\ st.op = "update" /\ st.id \in S
        /\ \A c \in DOMAIN st.cols : c \in DOMAIN cols /\ st.cols[c] = cols[c]
    BY DEF Strokes
  <2> HIDE DEF st
  <2>2. \A c \in DOMAIN st.cols : c \in DOMAIN F[st.id] /\ st.cols[c] = F[st.id][c]
    BY <1>3, <2>1
  <2>3. Toward(st, F) BY <1>1, <2>1, <2>2 DEF Toward
  <2> QED BY <2>3 DEF st
<1>6. ASSUME NEW x \in DOMAIN F
      PROVE  /\ x \in DOMAIN f /\ DOMAIN f[x] = DOMAIN F[x]
             /\ \A c \in DOMAIN F[x] : f[x][c] = F[x][c] \/ Writes(s, 0, t, x, c)
  BY <1>1, <1>3 DEF Strokes
<1> QED BY <1>1, <1>4, <1>5, <1>6 DEF Leads

LEMMA StrokesListed ==
  ASSUME NEW S, IsFiniteSet(S), NEW order \in Seqs!SetToSeqs(S), NEW t, NEW cols,
         NEW s, s = Seqs!FlattenSeq([n \in DOMAIN order |-> <<Update(t, order[n], cols)>>])
  PROVE  Listing(s, S, t, cols)
<1> DEFINE g == [x \in S |-> <<Update(t, x, cols)>>]
           B == {Update(t, x, cols) : x \in S}
           b == [n \in DOMAIN order |-> g[order[n]]]
<1>1. \A n \in DOMAIN order : order[n] \in S BY OrderHolds
<1>2. b = [n \in DOMAIN order |-> <<Update(t, order[n], cols)>>] BY <1>1
<1>3. \A x \in S : g[x] \in Seq(B) OBVIOUS
<1>4. \A x \in S : /\ DOMAIN g[x] = {1} /\ g[x][1].table = t /\ g[x][1].op = "update"
                   /\ g[x][1].id = x /\ g[x][1].cols = cols
  BY DEF Update
<1>5. b = [n \in DOMAIN order |-> g[order[n]]] OBVIOUS
<1>6. s = Seqs!FlattenSeq(b) BY <1>2
<1> HIDE DEF b, g, B
<1>7. s \in Seq(B) /\ Made(s, S, g) BY <1>3, <1>5, <1>6, ListingMade
<1>8. \A n \in DOMAIN s : \E x \in S : s[n] = g[x][1] BY <1>4, <1>7 DEF Made
<1>12. \A x \in S : 1 \in DOMAIN g[x] BY <1>4
<1>13. \A n \in DOMAIN s : n > 0 BY <1>7
<1>9. \A x \in S : \E n \in DOMAIN s : s[n] = g[x][1] /\ n > 0 BY <1>7, <1>12, <1>13 DEF Made
<1>10. \A n \in DOMAIN s : s[n].table = t /\ s[n].op = "update" /\ s[n].id \in S /\ s[n].cols = cols
  BY <1>4, <1>8
<1>11. \A x \in S : \A c \in DOMAIN cols : Writes(s, 0, t, x, c) BY <1>4, <1>9 DEF Writes
<1> QED BY <1>7, <1>10, <1>11 DEF Strokes, Listing

LEMMA StrokeOne ==
  ASSUME NEW x, NEW t, NEW cols, NEW s, s = <<Update(t, x, cols)>>
  PROVE  Listing(s, {x}, t, cols)
<1> DEFINE st == Update(t, x, cols)
<1>1. st.table = t /\ st.op = "update" /\ st.id = x /\ st.cols = cols BY DEF Update
<1> HIDE DEF st
<1>2. s = <<st>> /\ st \in {st} BY DEF st
<1>3. DOMAIN s = {1} /\ s[1] = st /\ 1 > 0 /\ s \in Seq({st}) BY <1>2
<1> QED BY <1>1, <1>3 DEF Strokes, Writes, Listing

LEMMA RowDomain ==
  \A r \in Row : DOMAIN r = {"state", "err", "list", "pkg", "prio", "enabled", "autostart",
                             "pos", "delegate"}
BY DEF Row

LEMMA PackageDomain == \A r \in Package : DOMAIN r = {"list", "prio", "pos"}
BY DEF Package

\* An update of a row, as a record.
LEMMA StateOver ==
  ASSUME NEW r \in Row, NEW st, NEW e
  PROVE  [r EXCEPT !.state = st, !.err = e] = Overlay([state |-> st, err |-> e], r)
<1> DEFINE cols == [state |-> st, err |-> e]
           v == [r EXCEPT !.state = st, !.err = e]
<1>1. DOMAIN cols = {"state", "err"} /\ cols["state"] = st /\ cols["err"] = e OBVIOUS
<1>2. /\ v = [c \in DOMAIN r |-> v[c]]
      /\ \A c \in DOMAIN r : v[c] = IF c = "state" THEN st ELSE IF c = "err" THEN e ELSE r[c]
  BY RowDomain
<1> HIDE DEF cols, v
<1>3. \A c \in DOMAIN r : v[c] = IF c \in DOMAIN cols THEN cols[c] ELSE r[c] BY <1>1, <1>2
<1>4. v = Overlay(cols, r) BY <1>2, <1>3 DEF Overlay
<1> QED BY <1>4 DEF cols, v

LEMMA PrioOver ==
  ASSUME NEW r \in Row, NEW u PROVE [r EXCEPT !.prio = u] = Overlay([prio |-> u], r)
BY RowDomain DEF Overlay

LEMMA EnabledOver ==
  ASSUME NEW r \in Row, NEW u PROVE [r EXCEPT !.enabled = u] = Overlay([enabled |-> u], r)
BY RowDomain DEF Overlay

LEMMA AutostartOver ==
  ASSUME NEW r \in Row, NEW u PROVE [r EXCEPT !.autostart = u] = Overlay([autostart |-> u], r)
BY RowDomain DEF Overlay

LEMMA PackagePrioOver ==
  ASSUME NEW r \in Package, NEW u PROVE [r EXCEPT !.prio = u] = Overlay([prio |-> u], r)
BY PackageDomain DEF Overlay

LEMMA PackageListOver ==
  ASSUME NEW r \in Package, NEW u PROVE [r EXCEPT !.list = u] = Overlay([list |-> u], r)
BY PackageDomain DEF Overlay

\* Updates that move nothing between the lists or packages, a state with its error.
Plain(s) ==
  \A n \in DOMAIN s :
    /\ s[n].table \in {"downloads", "packages"} /\ s[n].op = "update"
    /\ "list" \notin DOMAIN s[n].cols /\ "pkg" \notin DOMAIN s[n].cols
    /\ s[n].table = "downloads" => ("state" \in DOMAIN s[n].cols <=> "err" \in DOMAIN s[n].cols)

LEMMA UpdatePlan ==
  ASSUME Flushed, DiskOK, Loadable', disk' = disk, partial' = partial,
         NEW s, \E B : s \in Seq(B), Plain(s),
         Leads(s, 0, "downloads", rows, rows'), Leads(s, 0, "packages", pkgRows, pkgRows')
  PROVE  Plan(s)
<1>1. PICK B : s \in Seq(B) OBVIOUS
<1>2. \A n \in DOMAIN s : n > 0 BY <1>1
<1>3. \A n \in DOMAIN s : Known(s[n]) /\ s[n].table # "parts" BY DEF Plain, Known
<1>4. Unlinked(s, 0) = {} BY <1>3 DEF Unlinked
<1>5. Brings(s, 0, disk, rows', pkgRows', partial')
  BY <1>3, <1>4 DEF Brings, Flushed, DiskOK
<1>6. ASSUME NEW i \in DOMAIN rows'
      PROVE  i \in DOMAIN rows /\ rows'[i].list = rows[i].list /\ rows'[i].pkg = rows[i].pkg
  <2>1. ~ Pends(s, 0, "downloads", "insert", i) BY DEF Pends, Plain
  <2>2. \A c : c \in {"list", "pkg"} => ~ Writes(s, 0, "downloads", i, c) BY DEF Writes, Plain
  <2>3. i \in DOMAIN rows /\ \A c \in DOMAIN rows'[i] :
          rows[i][c] = rows'[i][c] \/ Writes(s, 0, "downloads", i, c)
    BY <2>1 DEF Leads
  <2>4. rows'[i] \in Row BY DEF Loadable
  <2>5. "list" \in DOMAIN rows'[i] /\ "pkg" \in DOMAIN rows'[i] BY <2>4 DEF Row
  <2> QED BY <2>2, <2>3, <2>5
<1>7. ASSUME NEW n \in DOMAIN s PROVE Fits(s, n)'
  <2>1. InsertFits(s, n)' BY DEF InsertFits, Plain
  <2>2. UpdateFits(s, n)'
    <3> SUFFICES ASSUME s[n].table = "downloads", "state" \in DOMAIN s[n].cols, NEW p,
                        StagedIn(s[n].id, p)
                 PROVE  s[n].cols.state \in {"QUEUED", "PAUSED"}
      BY DEF UpdateFits, Plain, StagedIn
    <3> DEFINE i == s[n].id
               cols == s[n].cols
    <3>1. rows[i].list = "linkgrabber" BY DEF StagedIn, Flushed
    <3>2. Toward(s[n], rows') BY <1>2 DEF Leads
    <3>3. i \in DOMAIN rows' /\ \A c \in DOMAIN cols : cols[c] = rows'[i][c]
      BY <3>2 DEF Toward, Plain
    <3> HIDE DEF i, cols
    <3>4. rows'[i].list = "linkgrabber" BY <1>6, <3>1, <3>3
    <3>5. rows'[i].state \in {"QUEUED", "PAUSED"} BY <3>3, <3>4 DEF Loadable
    <3>6. "state" \in DOMAIN cols BY DEF cols
    <3>7. cols["state"] = rows'[i]["state"] BY <3>3, <3>6
    <3>8. cols.state \in {"QUEUED", "PAUSED"} BY <3>5, <3>7
    <3> QED BY <3>8 DEF cols
  <2>3. DeleteFits(s, n)' BY DEF DeleteFits, Plain
  <2>4. PackageFits(s, n)' BY DEF PackageFits, Plain
  <2>5. PartFits(s, n)' BY DEF PartFits, Plain
  <2> QED BY <2>1, <2>2, <2>3, <2>4, <2>5 DEF Fits
<1> QED BY <1>1, <1>5, <1>6, <1>7 DEF Plan

LEMMA NothingPlan ==
  ASSUME Flushed, DiskOK, Loadable', disk' = disk, UNCHANGED <<rows, pkgRows, partial>>
  PROVE  Plan(<<>>)
<1>1. Plain(<<>>) /\ \E B : <<>> \in Seq(B) BY DEF Plain
<1>2. Table(rows) /\ Table(pkgRows) BY DEF Flushed, DiskOK
<1>3. Leads(<<>>, 0, "downloads", rows, rows') /\ Leads(<<>>, 0, "packages", pkgRows, pkgRows')
  BY <1>2, LeadsNowhere
<1> QED BY <1>1, <1>3, UpdatePlan

\* No statement writes the state without the error.
Paired(s) == \A n \in DOMAIN s : "state" \in DOMAIN s[n].cols <=> "err" \in DOMAIN s[n].cols

\* Each row of S gets the columns cols.
LEMMA RowsPlan ==
  ASSUME Flushed, DiskOK, Loadable, Loadable', disk' = disk, UNCHANGED <<pkgRows, partial>>,
         NEW s, \E B : s \in Seq(B), NEW S, S \subseteq DOMAIN rows, NEW cols,
         Strokes(s, S, "downloads", cols), Paired(s),
         \A r \in Row : DOMAIN cols \subseteq DOMAIN r \ {"list", "pkg"},
         rows' = [x \in DOMAIN rows |-> IF x \in S THEN Overlay(cols, rows[x]) ELSE rows[x]]
  PROVE  Plan(s)
<1>1. Table(rows) /\ Table(pkgRows) BY DEF Flushed, DiskOK
<1>2. \A x \in S : DOMAIN cols \subseteq DOMAIN rows[x] BY DEF Loadable
<1>3. Leads(s, 0, "downloads", rows, rows') BY <1>1, <1>2, StrokesLead
<1>4. \A n \in DOMAIN s : s[n].table = "downloads" /\ s[n].op = "update" BY DEF Strokes
<1>5. Leads(s, 0, "packages", pkgRows, pkgRows') BY <1>1, <1>4, LeadsNowhere
<1>6. Plain(s)
  <2> SUFFICES ASSUME NEW n \in DOMAIN s
               PROVE  "list" \notin DOMAIN s[n].cols /\ "pkg" \notin DOMAIN s[n].cols
    BY <1>4 DEF Plain, Paired
  <2>1. s[n].id \in DOMAIN rows /\ \A c \in DOMAIN s[n].cols : c \in DOMAIN cols BY DEF Strokes
  <2>2. rows[s[n].id] \in Row BY <2>1 DEF Loadable
  <2> QED BY <2>1, <2>2
<1> QED BY <1>3, <1>5, <1>6, UpdatePlan

\* The package p gets the columns cols, and the rows S those of more.
LEMMA PackagePlan ==
  ASSUME Flushed, DiskOK, Loadable, Loadable', disk' = disk, UNCHANGED partial,
         NEW p \in DOMAIN pkgRows, NEW cols,
         NEW u, u = <<Update("packages", p, cols)>>,
         \A r \in Package : DOMAIN cols \subseteq DOMAIN r \ {"list"},
         pkgRows' = [q \in DOMAIN pkgRows |->
                       IF q \in {p} THEN Overlay(cols, pkgRows[q]) ELSE pkgRows[q]],
         NEW B, NEW v \in Seq(B), NEW S, S \subseteq DOMAIN rows, NEW more,
         Strokes(v, S, "downloads", more), Paired(v),
         \A r \in Row : DOMAIN more \subseteq DOMAIN r \ {"list", "pkg"},
         rows' = [x \in DOMAIN rows |-> IF x \in S THEN Overlay(more, rows[x]) ELSE rows[x]],
         NEW s, s = u \o v
  PROVE  Plan(s)
<1>1. Table(rows) /\ Table(pkgRows) BY DEF Flushed, DiskOK
<1>2. /\ \A x \in S : DOMAIN more \subseteq DOMAIN rows[x]
      /\ \A q \in {p} : DOMAIN cols \subseteq DOMAIN pkgRows[q]
  BY DEF Loadable
<1>3. Listing(u, {p}, "packages", cols) BY StrokeOne
<1>4. PICK C : u \in Seq(C) BY <1>3 DEF Listing
<1>5. Leads(v, 0, "downloads", rows, rows') BY <1>1, <1>2, StrokesLead
<1>13. Strokes(u, {p}, "packages", cols) /\ \A n \in DOMAIN u : u[n].cols = cols
  BY <1>3 DEF Listing
<1>6. Leads(u, 0, "packages", pkgRows, pkgRows') BY <1>1, <1>2, <1>13, StrokesLead
<1>7. /\ \A n \in DOMAIN u : u[n].table = "packages" /\ u[n].op = "update"
      /\ \A n \in DOMAIN v : v[n].table = "downloads" /\ v[n].op = "update"
  BY <1>13 DEF Strokes
<1>8. /\ Leads(s, 0, "downloads", rows, rows') /\ Leads(s, 0, "packages", pkgRows, pkgRows')
  BY <1>4, <1>5, <1>6, <1>7, LeadsAmong
<1>9. Plain(v)
  <2> SUFFICES ASSUME NEW n \in DOMAIN v
               PROVE  "list" \notin DOMAIN v[n].cols /\ "pkg" \notin DOMAIN v[n].cols
    BY <1>7 DEF Plain, Paired
  <2>1. v[n].id \in DOMAIN rows /\ \A c \in DOMAIN v[n].cols : c \in DOMAIN more BY DEF Strokes
  <2>2. rows[v[n].id] \in Row BY <2>1 DEF Loadable
  <2> QED BY <2>1, <2>2
<1>10. Plain(u)
  <2>1. pkgRows[p] \in Package BY DEF Loadable
  <2>2. "pkg" \notin DOMAIN pkgRows[p] BY SMTT(60), <2>1, PackageDomain
  <2>3. "list" \notin DOMAIN cols /\ "pkg" \notin DOMAIN cols BY <2>1, <2>2
  <2> QED BY <1>13, <1>7, <2>3 DEF Plain
<1>11. Plain(s)
  <2>1. Unites(s, u, v) BY <1>4, ConcatEntries
  <2>2. \A n \in DOMAIN s : (\E m \in DOMAIN u : s[n] = u[m]) \/ \E m \in DOMAIN v : s[n] = v[m]
    BY <2>1 DEF Unites, Entries
  <2> QED BY <1>9, <1>10, <2>2 DEF Plain
<1>12. s \in Seq(C \cup B) BY <1>4, Concat
<1> QED BY <1>8, <1>11, <1>12, UpdatePlan

---------------------------------------------------------------------------
(* Verbs that write columns *)

LEMMA LoadableNext == Core' /\ AsideOK' => Loadable'
<1>1. Core /\ AsideOK => Loadable BY CoreLoadable
<1> QED BY <1>1, PTL

Ready == Flushed /\ DiskOK /\ Loadable /\ Loadable' /\ disk' = disk

LEMMA StatePlan ==
  ASSUME Ready, UNCHANGED <<pkgRows, partial>>, NEW S, S \subseteq DOMAIN rows, NEW st,
         rows' = RowsInState(S, st),
         NEW s, \E B : s \in Seq(B), Strokes(s, S, "downloads", [state |-> st, err |-> FALSE]),
         \A n \in DOMAIN s : s[n].cols = [state |-> st, err |-> FALSE]
  PROVE  Plan(s)
<1> DEFINE cols == [state |-> st, err |-> FALSE]
<1>1. rows' = [x \in DOMAIN rows |-> IF x \in S THEN Overlay(cols, rows[x]) ELSE rows[x]]
  <2>1. \A x \in DOMAIN rows : [rows[x] EXCEPT !.state = st, !.err = FALSE] = Overlay(cols, rows[x])
    BY StateOver DEF Ready, Loadable
  <2> QED BY <2>1 DEF RowsInState, Each
<1>2. DOMAIN cols = {"state", "err"} OBVIOUS
<1>3. \A r \in Row : DOMAIN cols \subseteq DOMAIN r \ {"list", "pkg"} BY <1>2, RowDomain
<1>4. Paired(s) BY <1>2 DEF Paired
<1> HIDE DEF cols
<1> QED BY <1>1, <1>3, <1>4, RowsPlan DEF Ready, cols

LEMMA StatesPlan ==
  ASSUME Ready, UNCHANGED <<pkgRows, partial>>, NEW S, S \subseteq DOMAIN rows, IsFiniteSet(S),
         NEW st, rows' = RowsInState(S, st),
         NEW order \in Seqs!SetToSeqs(S), NEW s,
         s = Seqs!FlattenSeq([n \in DOMAIN order |-> <<State(order[n], st, FALSE)>>])
  PROVE  Plan(s)
<1> DEFINE cols == [state |-> st, err |-> FALSE]
<1>1. s = Seqs!FlattenSeq([n \in DOMAIN order |-> <<Update("downloads", order[n], cols)>>])
  BY DEF State
<1> HIDE DEF cols
<1>2. Listing(s, S, "downloads", cols)
  BY <1>1, StrokesListed
<1> QED BY <1>2, StatePlan DEF cols, Listing

LEMMA OneStatePlan ==
  ASSUME Ready, UNCHANGED <<pkgRows, partial>>, NEW i \in DOMAIN rows, NEW st,
         rows' = RowsInState({i}, st), NEW s, s = <<State(i, st, FALSE)>>
  PROVE  Plan(s)
<1> DEFINE cols == [state |-> st, err |-> FALSE]
<1>1. s = <<Update("downloads", i, cols)>> BY DEF State
<1> HIDE DEF cols
<1>2. Listing(s, {i}, "downloads", cols)
  BY <1>1, StrokeOne
<1> QED BY <1>2, StatePlan DEF cols, Listing

LEMMA PausePlan ==
  ASSUME Ready, Core, NEW i \in DOMAIN items, Pause(i), NEW s,
         s = IF items[i].state = "QUEUED" THEN <<State(i, "PAUSED", FALSE)>> ELSE <<>>
  PROVE  Plan(s)
<1>0. i \in DOMAIN rows /\ UNCHANGED <<pkgRows, partial>> BY DEF Pause, Core, GlobalOK, packages
<1>1. CASE items[i].state = "QUEUED"
  <2>1. items[i] \in Item BY DEF Core, LinkOK, Typed
  <2>2. rows' = RowsInState({i}, "PAUSED") BY <1>1, <2>1 DEF Pause, Item
  <2> QED BY <1>0, <1>1, <2>2, OneStatePlan
<1>2. CASE items[i].state # "QUEUED"
  <2>1. items[i] \in Item BY DEF Core, LinkOK, Typed
  <2>2. rows' = rows BY <1>2, <2>1 DEF Pause, Item
  <2> QED BY <1>0, <1>2, <2>2, NothingPlan DEF Ready
<1> QED BY <1>1, <1>2

LEMMA ResumePlan ==
  ASSUME Ready, Core, NEW i \in DOMAIN items, Resume(i) PROVE Plan(Requeued(i))
<1>1. i \in DOMAIN rows /\ UNCHANGED <<pkgRows, partial>> /\ rows' = RowsInState({i}, "QUEUED")
  BY DEF Resume, Core, GlobalOK, packages, machine
<1> QED BY <1>1, OneStatePlan DEF Requeued

LEMMA Unpaired ==
  ASSUME NEW s, NEW S, NEW t, NEW cols, Listing(s, S, t, cols),
         "state" \notin DOMAIN cols, "err" \notin DOMAIN cols
  PROVE  Paired(s)
BY DEF Paired, Listing

LEMMA SetPriorityPlan ==
  ASSUME Ready, Core, NEW i \in DOMAIN items, NEW v, SetPriority(i, v)
  PROVE  Plan(<<Priority("downloads", i, v)>>)
<1> DEFINE u == Clamp(v)
           cols == [prio |-> u]
           s == <<Priority("downloads", i, v)>>
<1>1. s = <<Update("downloads", i, cols)>> BY DEF Priority
<1>2. i \in DOMAIN rows /\ UNCHANGED <<pkgRows, partial>>
      /\ rows' = Each(rows, {i}, LAMBDA r : [r EXCEPT !.prio = u])
  BY DEF SetPriority, Core, GlobalOK, packages, machine
<1>3. DOMAIN cols = {"prio"} OBVIOUS
<1> HIDE DEF u
<1>4. rows' = [x \in DOMAIN rows |-> IF x \in {i} THEN Overlay(cols, rows[x]) ELSE rows[x]]
  BY <1>2, PrioOver DEF Ready, Loadable, Each
<1> HIDE DEF cols, s
<1>5. Listing(s, {i}, "downloads", cols)
  BY <1>1, StrokeOne
<1>6. Paired(s) BY <1>3, <1>5, Unpaired
<1>7. \A r \in Row : DOMAIN cols \subseteq DOMAIN r \ {"list", "pkg"} BY <1>3, RowDomain
<1>8. Plan(s) BY ZenonT(60), <1>2, <1>4, <1>5, <1>6, <1>7, RowsPlan DEF Ready, Listing
<1> QED BY <1>8 DEF s

LEMMA EnabledPlan ==
  ASSUME Ready, Core, NEW S, S \subseteq DOMAIN items, NEW on, SetEnabled(S, on),
         NEW s \in InListOrder(S, LAMBDA i : <<Update("downloads", i, [enabled |-> on])>>)
  PROVE  Plan(s)
<1> DEFINE cols == [enabled |-> on]
<1>1. PICK order \in Seqs!SetToSeqs(S) :
        s = Seqs!FlattenSeq([n \in DOMAIN order |-> <<Update("downloads", order[n], cols)>>])
  BY DEF InListOrder
<1>2. S \subseteq DOMAIN rows /\ UNCHANGED <<pkgRows, partial>>
      /\ rows' = Each(rows, S, LAMBDA r : [r EXCEPT !.enabled = on])
  BY DEF SetEnabled, Core, GlobalOK, packages, machine
<1>3. DOMAIN cols = {"enabled"} OBVIOUS
<1>4. rows' = [x \in DOMAIN rows |-> IF x \in S THEN Overlay(cols, rows[x]) ELSE rows[x]]
  BY <1>2, EnabledOver DEF Ready, Loadable, Each
<1> HIDE DEF cols
<1>5. IsFiniteSet(S) BY RunningFinite, FS_Subset
<1>6. Listing(s, S, "downloads", cols)
  BY <1>1, <1>5, StrokesListed
<1>7. Paired(s) BY <1>3, <1>6, Unpaired
<1>8. \A r \in Row : DOMAIN cols \subseteq DOMAIN r \ {"list", "pkg"} BY <1>3, RowDomain
<1> QED BY <1>2, <1>4, <1>6, <1>7, <1>8, RowsPlan DEF Ready, Listing

LEMMA AutostartPlan ==
  ASSUME Ready, Core, NEW S, S \subseteq DOMAIN items, NEW on, SetAutostart(S, on),
         NEW s \in InListOrder(S, LAMBDA i : <<Update("downloads", i, [autostart |-> on])>>)
  PROVE  Plan(s)
<1> DEFINE cols == [autostart |-> on]
<1>1. PICK order \in Seqs!SetToSeqs(S) :
        s = Seqs!FlattenSeq([n \in DOMAIN order |-> <<Update("downloads", order[n], cols)>>])
  BY DEF InListOrder
<1>2. S \subseteq DOMAIN rows /\ UNCHANGED <<pkgRows, partial>>
      /\ rows' = Each(rows, S, LAMBDA r : [r EXCEPT !.autostart = on])
  BY DEF SetAutostart, Core, GlobalOK, packages, machine
<1>3. DOMAIN cols = {"autostart"} OBVIOUS
<1>4. rows' = [x \in DOMAIN rows |-> IF x \in S THEN Overlay(cols, rows[x]) ELSE rows[x]]
  BY <1>2, AutostartOver DEF Ready, Loadable, Each
<1> HIDE DEF cols
<1>5. IsFiniteSet(S) BY RunningFinite, FS_Subset
<1>6. Listing(s, S, "downloads", cols)
  BY <1>1, <1>5, StrokesListed
<1>7. Paired(s) BY <1>3, <1>6, Unpaired
<1>8. \A r \in Row : DOMAIN cols \subseteq DOMAIN r \ {"list", "pkg"} BY <1>3, RowDomain
<1> QED BY <1>2, <1>4, <1>6, <1>7, <1>8, RowsPlan DEF Ready, Listing

LEMMA SetPackagePriorityPlan ==
  ASSUME Ready, Core, NEW p, NEW v, SetPackagePriority(p, v),
         NEW w \in InListOrder(Members(p), LAMBDA i : <<Priority("downloads", i, v)>>)
  PROVE  Plan(<<Priority("packages", p, v)>> \o w)
<1> DEFINE k == Clamp(v)
           cols == [prio |-> k]
           u == <<Priority("packages", p, v)>>
           S == Members(p)
<1>1. PICK order \in Seqs!SetToSeqs(S) :
        w = Seqs!FlattenSeq([n \in DOMAIN order |-> <<Update("downloads", order[n], cols)>>])
  BY DEF InListOrder, Priority
<1>2. u = <<Update("packages", p, cols)>> BY DEF Priority
<1>3. /\ p \in DOMAIN pkgRows /\ S \subseteq DOMAIN rows /\ UNCHANGED partial
      /\ rows' = Each(rows, S, LAMBDA r : [r EXCEPT !.prio = k])
      /\ pkgRows' = Each(pkgRows, {p}, LAMBDA q : [q EXCEPT !.prio = k])
  BY DEF SetPackagePriority, Core, GlobalOK, machine, Members
<1>4. S \subseteq DOMAIN items BY DEF Members
<1>5. DOMAIN cols = {"prio"} OBVIOUS
<1> HIDE DEF k
<1>6. rows' = [x \in DOMAIN rows |-> IF x \in S THEN Overlay(cols, rows[x]) ELSE rows[x]]
  BY <1>3, PrioOver DEF Ready, Loadable, Each
<1>7. pkgRows' = [q \in DOMAIN pkgRows |-> IF q \in {p} THEN Overlay(cols, pkgRows[q]) ELSE pkgRows[q]]
  BY <1>3, PackagePrioOver DEF Ready, Loadable, Each
<1>8. IsFiniteSet(S)
  <2> HIDE DEF S
  <2> QED BY <1>4, RunningFinite, FS_Subset
<1> HIDE DEF cols, S, u
<1>9. Listing(w, S, "downloads", cols) BY <1>1, <1>8, StrokesListed
<1>10. PICK B : w \in Seq(B) BY <1>9 DEF Listing
<1>11. Strokes(w, S, "downloads", cols) BY <1>9 DEF Listing
<1>12. Paired(w) BY <1>5, <1>9, Unpaired
<1>13. /\ \A r \in Row : DOMAIN cols \subseteq DOMAIN r \ {"list", "pkg"}
       /\ \A r \in Package : DOMAIN cols \subseteq DOMAIN r \ {"list"}
  BY <1>5, RowDomain, PackageDomain
<1>14. Flushed /\ DiskOK /\ Loadable /\ Loadable' /\ disk' = disk BY DEF Ready
<1>15. Plan(u \o w)
  BY <1>2, <1>3, <1>6, <1>7, <1>10, <1>11, <1>12, <1>13, <1>14, PackagePlan
<1> QED BY <1>15 DEF u

LEMMA PkgUpdatePlan ==
  ASSUME Ready, Core, NEW p, NEW v, PkgUpdate(p, v)
  PROVE  Plan(<<Priority("packages", p, v)>>)
<1> DEFINE k == Clamp(v)
           cols == [prio |-> k]
           u == <<Priority("packages", p, v)>>
<1>2. u = <<Update("packages", p, cols)>> BY DEF Priority
<1>4. u = u \o <<>> OBVIOUS
<1>3. /\ p \in DOMAIN pkgRows /\ UNCHANGED partial /\ rows' = rows
      /\ pkgRows' = Each(pkgRows, {p}, LAMBDA q : [q EXCEPT !.prio = k])
  BY DEF PkgUpdate, Core, GlobalOK, machine
<1>5. DOMAIN cols = {"prio"} OBVIOUS
<1> HIDE DEF k
<1>6. rows' = [x \in DOMAIN rows |-> IF x \in {} THEN Overlay(cols, rows[x]) ELSE rows[x]]
  BY <1>3 DEF Ready, Flushed, DiskOK, Table
<1>7. pkgRows' = [q \in DOMAIN pkgRows |-> IF q \in {p} THEN Overlay(cols, pkgRows[q]) ELSE pkgRows[q]]
  BY <1>3, PackagePrioOver DEF Ready, Loadable, Each
<1> HIDE DEF cols, u
<1>8. PICK none : none = {} OBVIOUS
<1>9. PICK z : z = <<>> OBVIOUS
<1>10. z \in Seq({}) /\ none \subseteq DOMAIN rows
       /\ rows' = [x \in DOMAIN rows |-> IF x \in none THEN Overlay(cols, rows[x]) ELSE rows[x]]
  BY <1>6, <1>8, <1>9
<1>11. Strokes(z, none, "downloads", cols) /\ Paired(z) BY <1>8, <1>9 DEF Strokes, Paired
<1>13. /\ \A r \in Row : DOMAIN cols \subseteq DOMAIN r \ {"list", "pkg"}
       /\ \A r \in Package : DOMAIN cols \subseteq DOMAIN r \ {"list"}
  BY <1>5, RowDomain, PackageDomain
<1>14. Flushed /\ DiskOK /\ Loadable /\ Loadable' /\ disk' = disk BY DEF Ready
<1>15. ASSUME NEW w, w = u \o z PROVE Plan(w)
  BY <1>2, <1>3, <1>7, <1>10, <1>11, <1>13, <1>14, <1>15, PackagePlan
<1> QED BY <1>4, <1>9, <1>15 DEF u

\* Resume, a tick and a global resume write the state of each link they change.
LEMMA ResumeAllPlan ==
  ASSUME Ready, Core, ResumeAll,
         NEW s \in InListOrder({i \in DOMAIN items : items'[i].state # items[i].state}, Requeued)
  PROVE  Plan(s)
<1> DEFINE S == {i \in DOMAIN items : items[i].globallyPaused /\ items[i].state = "PAUSED"}
           T == {i \in DOMAIN items : items'[i].state # items[i].state}
<1>1. /\ items' = Each(items, S, LAMBDA it :
           [it EXCEPT !.globallyPaused = FALSE, !.state = "QUEUED", !.cancelRequested = FALSE])
      /\ rows' = RowsInState(S, "QUEUED") /\ UNCHANGED <<pkgRows, partial>>
  BY DEF ResumeAll, packages, machine
<1>2. \A i \in DOMAIN items : items[i] \in Item BY DEF Core, LinkOK, Typed
<1>3. ASSUME NEW i \in DOMAIN items PROVE i \in T <=> i \in S
  <2>1. CASE i \in S
    <3>1. items'[i].state = "QUEUED" BY <1>1, <1>2, <2>1 DEF Each, Item
    <3> QED BY <2>1, <3>1
  <2>2. CASE i \notin S
    <3>1. items'[i] = items[i] BY <1>1, <2>2 DEF Each
    <3> QED BY <2>2, <3>1
  <2> QED BY <2>1, <2>2
<1>4. T = S BY <1>3
<1>5. PICK order \in Seqs!SetToSeqs(T) :
        s = Seqs!FlattenSeq([n \in DOMAIN order |-> <<State(order[n], "QUEUED", FALSE)>>])
  BY DEF InListOrder, Requeued
<1>6. S \subseteq DOMAIN items /\ S \subseteq DOMAIN rows BY DEF Core, GlobalOK
<1> HIDE DEF S, T
<1>7. IsFiniteSet(S) BY <1>6, RunningFinite, FS_Subset
<1> QED BY <1>1, <1>4, <1>5, <1>6, <1>7, StatesPlan

LEMMA TickPlan ==
  ASSUME Ready, Core, Tick,
         NEW s \in InListOrder({i \in DOMAIN items : items'[i].job # items[i].job},
                               LAMBDA i : <<State(i, "ACTIVE", FALSE)>>)
  PROVE  Plan(s)
<1> DEFINE T == {i \in DOMAIN items : items'[i].job # items[i].job}
<1>0. PICK S \in SUBSET {i \in DOMAIN items : Startable(i)} : StartItems(S) BY DEF Tick
<1>1. /\ items' = Each(items, S, LAMBDA it :
           [it EXCEPT !.state = "ACTIVE", !.cancelRequested = FALSE, !.globallyPaused = FALSE,
                      !.job = "running", !.token = ~it.delegate])
      /\ rows' = RowsInState(S, "ACTIVE") /\ UNCHANGED <<pkgRows, partial>>
  BY <1>0 DEF StartItems, packages
<1>2. \A i \in DOMAIN items : items[i] \in Item BY DEF Core, LinkOK, Typed
<1>3. ASSUME NEW i \in DOMAIN items PROVE i \in T <=> i \in S
  <2>1. CASE i \in S
    <3>1. items[i].job = "none" BY <1>0, <2>1 DEF Startable
    <3>2. items'[i].job = "running" BY <1>1, <1>2, <2>1 DEF Each, Item
    <3> QED BY <2>1, <3>1, <3>2
  <2>2. CASE i \notin S
    <3>1. items'[i] = items[i] BY <1>1, <2>2 DEF Each
    <3> QED BY <2>2, <3>1
  <2> QED BY <2>1, <2>2
<1>4. T = S BY <1>0, <1>3
<1>5. PICK order \in Seqs!SetToSeqs(T) :
        s = Seqs!FlattenSeq([n \in DOMAIN order |-> <<State(order[n], "ACTIVE", FALSE)>>])
  BY DEF InListOrder
<1>6. S \subseteq DOMAIN items /\ S \subseteq DOMAIN rows BY <1>0 DEF Core, GlobalOK
<1> HIDE DEF T
<1>7. IsFiniteSet(S) BY <1>6, RunningFinite, FS_Subset
<1> QED BY <1>1, <1>4, <1>5, <1>6, <1>7, StatesPlan

LEMMA SettlePlan ==
  ASSUME Ready, Core, NEW i \in DOMAIN items, FinalizeWorker(i), ~ items[i].removeRequested,
         NEW s0, s0 = <<State(i, items'[i].state, items'[i].err)>>
  PROVE  Plan(s0)
<1> DEFINE it == items[i]
           st == Settled(it)
           err == it.job = "failed" \/ it.err
           cols == [state |-> st, err |-> err]
<1>1. /\ items' = [items EXCEPT ![i] = [it EXCEPT
                     !.state = st, !.err = err, !.job = "none", !.token = FALSE,
                     !.force = FALSE, !.cancelRequested = FALSE,
                     !.globallyPaused = it.globallyPaused /\ st = "PAUSED"]]
      /\ rows' = [rows EXCEPT ![i] = [rows[i] EXCEPT !.state = st, !.err = err]]
      /\ UNCHANGED <<pkgRows, partial>>
  BY DEF FinalizeWorker, packages
<1>2. it \in Item BY DEF Core, LinkOK, Typed
<1> HIDE DEF it, st, err
<1>3. items'[i].state = st /\ items'[i].err = err
  BY <1>1, <1>2 DEF Item
<1>14. PICK s : s = s0 OBVIOUS
<1>4. s = <<Update("downloads", i, cols)>> BY <1>3, <1>14 DEF State
<1>5. i \in DOMAIN rows BY DEF Core, GlobalOK
<1>6. rows' = [x \in DOMAIN rows |-> IF x \in {i} THEN Overlay(cols, rows[x]) ELSE rows[x]]
  <2>1. [rows[i] EXCEPT !.state = st, !.err = err] = Overlay(cols, rows[i])
    BY <1>5, StateOver DEF Ready, Loadable
  <2>2. rows = [x \in DOMAIN rows |-> rows[x]] BY DEF Ready, Flushed, DiskOK, Table
  <2> HIDE DEF cols
  <2> QED BY <1>1, <1>5, <2>1, <2>2
<1>7. DOMAIN cols = {"state", "err"} OBVIOUS
<1> HIDE DEF cols
<1>8. Listing(s, {i}, "downloads", cols) BY <1>4, StrokeOne
<1>9. Paired(s) BY <1>7, <1>8 DEF Paired, Listing
<1>10. \A r \in Row : DOMAIN cols \subseteq DOMAIN r \ {"list", "pkg"} BY <1>7, RowDomain
<1>11. /\ Flushed /\ DiskOK /\ Loadable /\ Loadable' /\ disk' = disk
       /\ (\E B : s \in Seq(B)) /\ Strokes(s, {i}, "downloads", cols) /\ {i} \subseteq DOMAIN rows
  BY <1>5, <1>8 DEF Ready, Listing
<1>12. Plan(s) BY <1>1, <1>6, <1>9, <1>10, <1>11, RowsPlan
<1> QED BY <1>12, <1>14

---------------------------------------------------------------------------
(* Blocks of two statements *)

\* s is made of blocks of two, a[x] before b[x].
Couples(s, S, a, b) ==
  /\ \E B : s \in Seq(B)
  /\ \A n \in DOMAIN s : \E x \in S :
       s[n] = a[x] \/ (s[n] = b[x] /\ \E m \in DOMAIN s : m < n /\ s[m] = a[x])
  /\ \A x \in S : (\E n \in DOMAIN s : s[n] = a[x]) /\ \E n \in DOMAIN s : s[n] = b[x]

LEMMA CouplesListed ==
  ASSUME NEW S, IsFiniteSet(S), NEW order \in Seqs!SetToSeqs(S), NEW a, NEW b,
         NEW h, h = [n \in DOMAIN order |-> h[n]],
         \A n \in DOMAIN order : h[n] = <<a[order[n]], b[order[n]]>>,
         NEW s, s = Seqs!FlattenSeq(h)
  PROVE  Couples(s, S, a, b)
<1> DEFINE g == [x \in S |-> <<a[x], b[x]>>]
           B == {a[x] : x \in S} \cup {b[x] : x \in S}
<1>1. \A n \in DOMAIN order : order[n] \in S BY OrderHolds
<1>3. ASSUME NEW x \in S PROVE g[x] \in Seq(B)
  <2>1. a[x] \in B /\ b[x] \in B OBVIOUS
  <2>2. g[x] = <<a[x], b[x]>> OBVIOUS
  <2> HIDE DEF B
  <2> QED BY <2>1, <2>2
<1>4. \A x \in S : DOMAIN g[x] = {1, 2} /\ g[x][1] = a[x] /\ g[x][2] = b[x]
  <2>1. \A x, y : DOMAIN <<x, y>> = {1, 2} /\ <<x, y>>[1] = x /\ <<x, y>>[2] = y
    OBVIOUS
  <2> QED BY <2>1
<1>5. h = [n \in DOMAIN order |-> g[order[n]]] BY <1>1
<1> HIDE DEF g, B
<1>11. PICK z : z = s OBVIOUS
<1>7. z \in Seq(B) /\ Made(z, S, g) BY <1>3, <1>5, <1>11, ListingMade
<1>8. ASSUME NEW n \in DOMAIN z
      PROVE  \E x \in S : z[n] = a[x] \/ (z[n] = b[x] /\ \E m \in DOMAIN z : m < n /\ z[m] = a[x])
  <2>1. PICK x \in S : \E k \in DOMAIN g[x] :
          /\ z[n] = g[x][k]
          /\ \A j \in DOMAIN g[x] : j < k => \E l \in DOMAIN z : l < n /\ z[l] = g[x][j]
    BY <1>7 DEF Made
  <2>2. PICK k \in DOMAIN g[x] :
          /\ z[n] = g[x][k]
          /\ \A j \in DOMAIN g[x] : j < k => \E l \in DOMAIN z : l < n /\ z[l] = g[x][j]
    BY <2>1
  <2>3. CASE k = 1 BY <1>4, <2>2, <2>3
  <2>4. CASE k = 2
    <3>1. 1 \in DOMAIN g[x] /\ 1 < k BY <1>4, <2>4
    <3>2. PICK l \in DOMAIN z : l < n /\ z[l] = g[x][1] BY <2>2, <3>1
    <3> QED BY <1>4, <2>2, <2>4, <3>2
  <2>5. k \in {1, 2} BY <1>4
  <2> QED BY <2>3, <2>4, <2>5
<1>9. ASSUME NEW x \in S
      PROVE  (\E n \in DOMAIN z : z[n] = a[x]) /\ \E n \in DOMAIN z : z[n] = b[x]
  <2>1. 1 \in DOMAIN g[x] /\ 2 \in DOMAIN g[x] BY <1>4
  <2>2. \E n \in DOMAIN z : z[n] = g[x][1] BY <1>7, <2>1 DEF Made
  <2>3. \E n \in DOMAIN z : z[n] = g[x][2] BY <1>7, <2>1 DEF Made
  <2> QED BY <1>4, <2>2, <2>3
<1>10. \E C : z \in Seq(C) BY <1>7
<1>12. Couples(z, S, a, b) BY <1>8, <1>9, <1>10 DEF Couples
<1> QED BY <1>11, <1>12

LEMMA ConcatIs ==
  ASSUME NEW B, NEW u \in Seq(B), NEW v \in Seq(B)
  PROVE  u \o v \in Seq(B) /\ Len(u \o v) = Len(u) + Len(v)
         /\ \A n \in 1 .. (Len(u) + Len(v)) : (u \o v)[n] = IF n <= Len(u) THEN u[n] ELSE v[n - Len(u)]
OBVIOUS
LEMMA Couple ==
  ASSUME NEW B, NEW x \in B, NEW y \in B PROVE <<x>> \o <<y>> = <<x, y>>
<1>1. PICK u : u = <<x>> OBVIOUS
<1>2. PICK v : v = <<y>> OBVIOUS
<1>3. u \in Seq(B) /\ v \in Seq(B) /\ Len(u) = 1 /\ Len(v) = 1 /\ u[1] = x /\ v[1] = y
  BY <1>1, <1>2
<1>4. PICK n : n = Len(u) + Len(v) OBVIOUS
<1>5. u \o v \in Seq(B) /\ Len(u \o v) = n
      /\ \A k \in 1 .. n : (u \o v)[k] = IF k <= Len(u) THEN u[k] ELSE v[k - Len(u)]
  <2>1. u \in Seq(B) /\ v \in Seq(B) BY <1>3
  <2> QED BY <1>4, <2>1, ConcatIs
<1>6. n = 2 /\ 1 \in 1 .. n /\ 2 \in 1 .. n /\ ~ (2 <= Len(u)) /\ 2 - Len(u) = 1 /\ 1 <= Len(u)
  BY <1>3, <1>4
<1>7. PICK w : w = u \o v OBVIOUS
<1>8. w \in Seq(B) /\ Len(w) = 2 /\ \A k \in 1 .. n : w[k] = IF k <= Len(u) THEN u[k] ELSE v[k - Len(u)]
  BY <1>5, <1>6, <1>7
<1>9. w[1] = x /\ w[2] = y BY <1>3, <1>6, <1>8
<1>10. w = <<x, y>> BY <1>8, <1>9
<1> QED BY <1>1, <1>2, <1>7, <1>10

LEMMA EnabledFields ==
  ASSUME NEW i, NEW t, NEW u, u = Update("downloads", i, [enabled |-> t])
  PROVE  /\ u.table = "downloads" /\ u.op = "update" /\ u.id = i
         /\ DOMAIN u.cols = {"enabled"} /\ u.cols["enabled"] = t
BY DEF Update

LEMMA QueuedFields ==
  ASSUME NEW i, NEW f, NEW u, u = State(i, "QUEUED", f)
  PROVE  /\ u.table = "downloads" /\ u.op = "update" /\ u.id = i
         /\ DOMAIN u.cols = {"state", "err"} /\ u.cols["state"] = "QUEUED" /\ u.cols["err"] = f
BY DEF State, Update

LEMMA ForcedOver ==
  ASSUME NEW r \in Row
  PROVE  [r EXCEPT !.enabled = TRUE, !.state = "QUEUED", !.err = FALSE]
           = Overlay([enabled |-> TRUE, state |-> "QUEUED", err |-> FALSE], r)
<1> DEFINE cols == [enabled |-> TRUE, state |-> "QUEUED", err |-> FALSE]
           v == [r EXCEPT !.enabled = TRUE, !.state = "QUEUED", !.err = FALSE]
<1>1. /\ DOMAIN cols = {"enabled", "state", "err"}
      /\ cols["enabled"] = TRUE /\ cols["state"] = "QUEUED" /\ cols["err"] = FALSE
  OBVIOUS
<1>2. /\ v = [c \in DOMAIN r |-> v[c]]
      /\ \A c \in DOMAIN r : v[c] = IF c = "enabled" THEN TRUE ELSE IF c = "state" THEN "QUEUED"
                                    ELSE IF c = "err" THEN FALSE ELSE r[c]
  BY RowDomain
<1> HIDE DEF v, cols
<1>3. \A c \in DOMAIN r : v[c] = IF c \in DOMAIN cols THEN cols[c] ELSE r[c] BY <1>1, <1>2
<1>4. v = Overlay(cols, r) BY <1>2, <1>3 DEF Overlay
<1> QED BY <1>4 DEF v, cols

Enables(one, D, t) == \A i \in D : one[i] = Update("downloads", i, [enabled |-> t])
Requeues(two, D, f) == \A i \in D : two[i] = State(i, "QUEUED", f)

\* applyForce writes enabled, then the state.
LEMMA ForcedPlan ==
  ASSUME Ready, UNCHANGED <<pkgRows, partial>>, NEW D, D \subseteq DOMAIN rows, NEW t, NEW f,
         NEW cols, DOMAIN cols = {"enabled", "state", "err"},
         cols["enabled"] = t, cols["state"] = "QUEUED", cols["err"] = f,
         rows' = [x \in DOMAIN rows |-> IF x \in D THEN Overlay(cols, rows[x]) ELSE rows[x]],
         NEW one, NEW two, NEW z, Couples(z, D, one, two),
         Enables(one, D, t), Requeues(two, D, f)
  PROVE  Plan(z)
<1>3. \A i \in D : /\ one[i].table = "downloads" /\ one[i].op = "update" /\ one[i].id = i
                   /\ DOMAIN one[i].cols = {"enabled"} /\ one[i].cols["enabled"] = t
  <2> SUFFICES ASSUME NEW i \in D
               PROVE  /\ one[i].table = "downloads" /\ one[i].op = "update" /\ one[i].id = i
                      /\ DOMAIN one[i].cols = {"enabled"} /\ one[i].cols["enabled"] = t
    OBVIOUS
  <2>1. one[i] = Update("downloads", i, [enabled |-> t]) BY DEF Enables
  <2> QED BY <2>1, EnabledFields
<1>4. \A i \in D : /\ two[i].table = "downloads" /\ two[i].op = "update" /\ two[i].id = i
                   /\ DOMAIN two[i].cols = {"state", "err"}
                   /\ two[i].cols["state"] = "QUEUED" /\ two[i].cols["err"] = f
  <2> SUFFICES ASSUME NEW i \in D
               PROVE  /\ two[i].table = "downloads" /\ two[i].op = "update" /\ two[i].id = i
                      /\ DOMAIN two[i].cols = {"state", "err"}
                      /\ two[i].cols["state"] = "QUEUED" /\ two[i].cols["err"] = f
    OBVIOUS
  <2>1. two[i] = State(i, "QUEUED", f) BY DEF Requeues
  <2> QED BY <2>1, QueuedFields
<1>14. PICK B : z \in Seq(B) BY DEF Couples
<1>15. \A n \in DOMAIN z : n > 0 BY <1>14
<1>16. ASSUME NEW i \in D, NEW c \in DOMAIN cols PROVE Writes(z, 0, "downloads", i, c)
  <2>3. PICK n \in DOMAIN z : z[n] = one[i] BY DEF Couples
  <2>4. PICK m \in DOMAIN z : z[m] = two[i] BY DEF Couples
  <2>5. n > 0 /\ m > 0 BY <1>15
  <2>6. CASE c = "enabled" BY <1>3, <2>3, <2>5, <2>6 DEF Writes
  <2>7. CASE c \in {"state", "err"} BY <1>4, <2>4, <2>5, <2>7 DEF Writes
  <2> QED BY <2>6, <2>7
<1>17. ASSUME NEW n \in DOMAIN z
       PROVE  /\ z[n].table = "downloads" /\ z[n].op = "update" /\ z[n].id \in D
              /\ \A c \in DOMAIN z[n].cols : c \in DOMAIN cols /\ z[n].cols[c] = cols[c]
              /\ "state" \in DOMAIN z[n].cols <=> "err" \in DOMAIN z[n].cols
  <2>0. PICK u : u = z[n] OBVIOUS
  <2>1. PICK i \in D : u = one[i] \/ u = two[i] BY <2>0 DEF Couples
  <2>2. /\ u.table = "downloads" /\ u.op = "update" /\ u.id \in D
        /\ DOMAIN u.cols = {"enabled"} \/ DOMAIN u.cols = {"state", "err"}
    BY <1>3, <1>4, <2>1
  <2>3. \A c \in DOMAIN u.cols : c \in DOMAIN cols /\ u.cols[c] = cols[c]
    <3>1. \A c \in DOMAIN one[i].cols : c \in DOMAIN cols /\ one[i].cols[c] = cols[c]
      BY <1>3
    <3>2. \A c \in DOMAIN two[i].cols : c \in DOMAIN cols /\ two[i].cols[c] = cols[c]
      BY <1>4
    <3> QED BY <2>1, <3>1, <3>2
  <2>4. "state" \in DOMAIN u.cols <=> "err" \in DOMAIN u.cols BY <2>2
  <2> QED BY <2>0, <2>2, <2>3, <2>4
<1>18. Strokes(z, D, "downloads", cols) /\ Paired(z) BY <1>16, <1>17 DEF Strokes, Paired
<1>19. \A r \in Row : DOMAIN cols \subseteq DOMAIN r \ {"list", "pkg"} BY RowDomain
<1>23. /\ Flushed /\ DiskOK /\ Loadable /\ Loadable' /\ disk' = disk /\ \E C : z \in Seq(C)
  BY <1>14 DEF Ready
<1> QED BY <1>18, <1>19, <1>23, RowsPlan

LEMMA ForceOrdered ==
  ASSUME NEW D, IsFiniteSet(D), NEW order \in Seqs!SetToSeqs(D), NEW t, NEW f,
         NEW h, h = [n \in DOMAIN order |->
                      <<Update("downloads", order[n], [enabled |-> t])>>
                        \o <<State(order[n], "QUEUED", f)>>],
         NEW s, s = Seqs!FlattenSeq(h), NEW one, NEW two,
         Enables(one, D, t), Requeues(two, D, f)
  PROVE  Couples(s, D, one, two)
<1>1. \A n \in DOMAIN order : order[n] \in D
  BY OrderHolds
<1>2. ASSUME NEW n \in DOMAIN order PROVE h[n] = <<one[order[n]], two[order[n]]>>
  <2>1. h[n] = <<one[order[n]]>> \o <<two[order[n]]>> BY <1>1 DEF Enables, Requeues
  <2>2. PICK x : x = one[order[n]] OBVIOUS
  <2>3. PICK y : y = two[order[n]] OBVIOUS
  <2>4. <<x>> \o <<y>> = <<x, y>>
    <3>1. x \in {x, y} /\ y \in {x, y} OBVIOUS
    <3> QED BY <3>1, Couple
  <2> QED BY <2>1, <2>2, <2>3, <2>4
<1>3. h = [n \in DOMAIN order |-> h[n]] OBVIOUS
<1>4. PICK k : k = h OBVIOUS
<1>5. /\ k = [n \in DOMAIN order |-> k[n]] /\ s = Seqs!FlattenSeq(k)
      /\ \A n \in DOMAIN order : k[n] = <<one[order[n]], two[order[n]]>>
  BY <1>2, <1>3, <1>4
<1> QED BY <1>5, CouplesListed

LEMMA ForcePlan ==
  ASSUME Ready, Core, NEW S, S \subseteq DOMAIN items, ForceStart(S),
         NEW s \in InListOrder(S \ Staged, LAMBDA i :
                     <<Update("downloads", i, [enabled |-> TRUE])>> \o Requeued(i))
  PROVE  Plan(s)
<1>1. PICK t : t = TRUE OBVIOUS
<1>2. PICK f : f = FALSE OBVIOUS
<1>3. PICK D : D = S \ Staged OBVIOUS
<1>4. PICK order \in Seqs!SetToSeqs(D) :
        s = Seqs!FlattenSeq([n \in DOMAIN order |->
              <<Update("downloads", order[n], [enabled |-> t])>> \o <<State(order[n], "QUEUED", f)>>])
  BY <1>1, <1>2, <1>3 DEF InListOrder, Requeued
<1> DEFINE full == [enabled |-> TRUE, state |-> "QUEUED", err |-> FALSE]
<1>5. D \subseteq DOMAIN items /\ D \subseteq DOMAIN rows /\ UNCHANGED <<pkgRows, partial>>
      /\ rows' = Each(rows, D, LAMBDA r :
           [r EXCEPT !.enabled = TRUE, !.state = "QUEUED", !.err = FALSE])
  BY <1>3 DEF ForceStart, packages, machine, Core, GlobalOK
<1>13. \A x \in DOMAIN rows : [rows[x] EXCEPT !.enabled = TRUE, !.state = "QUEUED", !.err = FALSE]
                                = Overlay(full, rows[x])
  BY ForcedOver DEF Ready, Loadable
<1>14. DOMAIN full = {"enabled", "state", "err"} OBVIOUS
<1>15. full["enabled"] = t /\ full["state"] = "QUEUED" /\ full["err"] = f BY <1>1, <1>2
<1> HIDE DEF full
<1>16. rows' = [x \in DOMAIN rows |-> IF x \in D THEN Overlay(full, rows[x]) ELSE rows[x]]
  BY <1>5, <1>13 DEF Each
<1>17. D \subseteq DOMAIN rows /\ UNCHANGED <<pkgRows, partial>> BY <1>5
<1>6. IsFiniteSet(D) BY <1>5, RunningFinite, FS_Subset
<1>7. PICK one : one = [i \in D |-> Update("downloads", i, [enabled |-> t])] OBVIOUS
<1>8. PICK two : two = [i \in D |-> State(i, "QUEUED", f)] OBVIOUS
<1>9. PICK h : h = [n \in DOMAIN order |->
                      <<Update("downloads", order[n], [enabled |-> t])>>
                        \o <<State(order[n], "QUEUED", f)>>]
  OBVIOUS
<1>10. s = Seqs!FlattenSeq(h) BY <1>4, <1>9
<1>12. Enables(one, D, t) /\ Requeues(two, D, f) BY <1>7, <1>8 DEF Enables, Requeues
<1>18. PICK z : z = s OBVIOUS
<1>11. Couples(z, D, one, two) BY <1>6, <1>9, <1>10, <1>12, <1>18, ForceOrdered
<1>19. Plan(z) BY <1>11, <1>12, <1>14, <1>15, <1>16, <1>17, ForcedPlan
<1> QED BY <1>18, <1>19

---------------------------------------------------------------------------
(* Moves *)

\* s writes the positions that changed from f to g, and nothing else.
Places(s, t, f, g) ==
  /\ \E B : s \in Seq(B)
  /\ \A n \in DOMAIN s : \E y \in DOMAIN g : s[n] = Position(t, y, g[y].pos)
  /\ \A y \in DOMAIN g : g[y].pos # f[y].pos => \E n \in DOMAIN s : s[n] = Position(t, y, g[y].pos)

LEMMA MovedPlaces ==
  ASSUME NEW t, NEW f, NEW x \in DOMAIN f, NEW peers, peers \subseteq DOMAIN f \ {x},
         NEW dir \in {"UP", "DOWN", "TOP", "BOTTOM"},
         NEW g \in Reorderings(f, x, peers, dir)
  PROVE  Places(Moved(t, x, f, g), t, f, g)
<1> DEFINE others == {y \in DOMAIN g \ {x} : g[y].pos # f[y].pos}
           w == CHOOSE y \in others : TRUE
           at(y) == Position(t, y, g[y].pos)
           a == IF g[x].pos = f[x].pos THEN <<>> ELSE <<at(x)>>
           b == IF others = {} THEN <<>> ELSE <<at(w)>>
           s == a \o b
<1>1. \/ \E n \in peers : g = MovedTo(MovedTo(f, x, f[n].pos), n, f[x].pos)
      \/ \E v : g = MovedTo(f, x, v)
  BY DEF Reorderings
<1>2. DOMAIN g = DOMAIN f /\ \E n : \A y \in DOMAIN f \ {x} : y # n => g[y] = f[y]
  <2>1. ASSUME NEW n \in peers, g = MovedTo(MovedTo(f, x, f[n].pos), n, f[x].pos)
        PROVE  DOMAIN g = DOMAIN f /\ \A y \in DOMAIN f \ {x} : y # n => g[y] = f[y]
    BY <2>1 DEF MovedTo
  <2>2. ASSUME NEW v, g = MovedTo(f, x, v)
        PROVE  DOMAIN g = DOMAIN f /\ \A y \in DOMAIN f \ {x} : g[y] = f[y]
    BY <2>2 DEF MovedTo
  <2> QED BY <1>1, <2>1, <2>2
<1>3. others # {} => w \in others /\ \A y \in others : y = w
  <2>1. others # {} => w \in others OBVIOUS
  <2> HIDE DEF w
  <2> QED BY <1>2, <2>1
<1>4. Moved(t, x, f, g) = s BY DEF Moved, MovedOnly
<1> HIDE DEF w, at
<1>5. /\ a \in Seq({at(x)}) /\ b \in Seq({at(w)})
      /\ \A n \in DOMAIN a : a[n] = at(x) /\ g[x].pos # f[x].pos
      /\ g[x].pos # f[x].pos => 1 \in DOMAIN a /\ a[1] = at(x)
      /\ \A n \in DOMAIN b : b[n] = at(w) /\ others # {}
      /\ others # {} => 1 \in DOMAIN b /\ b[1] = at(w)
  <2>1. \A e : /\ <<>> \in Seq({e}) /\ DOMAIN <<>> = {}
               /\ <<e>> \in Seq({e}) /\ DOMAIN <<e>> = {1} /\ <<e>>[1] = e
    OBVIOUS
  <2>2. /\ a \in Seq({at(x)})
        /\ \A n \in DOMAIN a : a[n] = at(x) /\ g[x].pos # f[x].pos
        /\ g[x].pos # f[x].pos => 1 \in DOMAIN a /\ a[1] = at(x)
    <3>1. CASE g[x].pos = f[x].pos
      <4>1. a = <<>> BY <3>1
      <4> HIDE DEF a
      <4> QED BY <2>1, <3>1, <4>1
    <3>2. CASE g[x].pos # f[x].pos
      <4>1. a = <<at(x)>> BY <3>2
      <4> HIDE DEF a
      <4> QED BY <2>1, <3>2, <4>1
    <3> QED BY <3>1, <3>2
  <2> HIDE DEF others
  <2>3. /\ b \in Seq({at(w)})
        /\ \A n \in DOMAIN b : b[n] = at(w) /\ others # {}
        /\ others # {} => 1 \in DOMAIN b /\ b[1] = at(w)
    <3>1. CASE others = {}
      <4>1. b = <<>> BY <3>1
      <4> HIDE DEF b
      <4> QED BY <2>1, <3>1, <4>1
    <3>2. CASE others # {}
      <4>1. b = <<at(w)>> BY <3>2
      <4> HIDE DEF b
      <4> QED BY <2>1, <3>2, <4>1
    <3> QED BY <3>1, <3>2
  <2> QED BY <2>2, <2>3
<1>6. s = a \o b OBVIOUS
<1> HIDE DEF a, b, s
<1>7. /\ s \in Seq({at(x)} \cup {at(w)}) /\ \A n \in DOMAIN a : n \in DOMAIN s /\ s[n] = a[n]
      /\ \A n \in DOMAIN b : Len(a) + n \in DOMAIN s /\ s[Len(a) + n] = b[n]
      /\ \A n \in DOMAIN s : \/ n \in DOMAIN a /\ s[n] = a[n]
                             \/ n - Len(a) \in DOMAIN b /\ s[n] = b[n - Len(a)]
  BY <1>5, <1>6, Concat
<1>8. \A n \in DOMAIN s : \E y \in DOMAIN g : s[n] = at(y)
  <2> SUFFICES ASSUME NEW n \in DOMAIN s PROVE \E y \in DOMAIN g : s[n] = at(y)
    OBVIOUS
  <2>1. CASE n \in DOMAIN a /\ s[n] = a[n] BY <1>2, <1>5, <2>1
  <2>2. CASE n - Len(a) \in DOMAIN b /\ s[n] = b[n - Len(a)] BY <1>3, <1>5, <2>2
  <2> QED BY <1>7, <2>1, <2>2
<1>9. ASSUME NEW y \in DOMAIN g, g[y].pos # f[y].pos PROVE \E n \in DOMAIN s : s[n] = at(y)
  <2>1. CASE y = x BY <1>5, <1>7, <1>9, <2>1
  <2>2. CASE y # x
    <3>1. y \in others BY <1>9, <2>2
    <3> HIDE DEF others
    <3>2. y = w /\ 1 \in DOMAIN b /\ b[1] = at(w) BY <1>3, <1>5, <3>1
    <3> QED BY <1>7, <3>2
  <2> QED BY <2>1, <2>2
<1>10. Places(s, t, f, g) BY <1>7, <1>8, <1>9 DEF Places, at
<1> QED BY <1>4, <1>10

\* Such statements lead to the table where those positions are saved.
LEMMA PlacesLead ==
  ASSUME NEW s, NEW t, NEW f, NEW g, Places(s, t, f, g), NEW h, Table(h),
         DOMAIN g \subseteq DOMAIN h, \A x \in DOMAIN h : "pos" \in DOMAIN h[x],
         \A y \in DOMAIN g : h[y].pos = f[y].pos,
         NEW F, F = Saved(h, f, g)
  PROVE  /\ Leads(s, 0, t, h, F)
         /\ \A n \in DOMAIN s : /\ s[n].table = t /\ s[n].op = "update"
                                /\ DOMAIN s[n].cols = {"pos"}
<1>0. PICK B : s \in Seq(B) BY DEF Places
<1>1. \A n \in DOMAIN s : n > 0 BY <1>0
<1>2. ASSUME NEW y, NEW v
      PROVE  /\ Position(t, y, v).table = t /\ Position(t, y, v).op = "update"
             /\ Position(t, y, v).id = y /\ DOMAIN Position(t, y, v).cols = {"pos"}
             /\ Position(t, y, v).cols["pos"] = v
  BY DEF Position, Update
<1>3. DOMAIN F = DOMAIN h /\ F = [x \in DOMAIN F |-> F[x]] BY DEF Saved
<1>4. ASSUME NEW x \in DOMAIN h
      PROVE  /\ DOMAIN F[x] = DOMAIN h[x] /\ F[x] = [c \in DOMAIN F[x] |-> F[x][c]]
             /\ \A c \in DOMAIN h[x] : c # "pos" => F[x][c] = h[x][c]
             /\ x \in DOMAIN g => F[x]["pos"] = g[x].pos
             /\ x \in DOMAIN g /\ g[x].pos = f[x].pos => F[x] = h[x]
             /\ x \notin DOMAIN g => F[x] = h[x]
  <2>1. CASE x \in DOMAIN g /\ g[x].pos # f[x].pos
    <3>1. F[x] = [h[x] EXCEPT !.pos = g[x].pos] BY <2>1 DEF Saved
    <3>2. h[x] = [c \in DOMAIN h[x] |-> h[x][c]] /\ "pos" \in DOMAIN h[x] BY DEF Table
    <3> QED BY <2>1, <3>1, <3>2
  <2>2. CASE ~ (x \in DOMAIN g /\ g[x].pos # f[x].pos)
    <3>1. F[x] = h[x] BY <2>2 DEF Saved
    <3> QED BY <2>2, <3>1 DEF Table
  <2> QED BY <2>1, <2>2
<1>5. Table(F) BY <1>3, <1>4 DEF Table
<1>6. ASSUME NEW n \in DOMAIN s
      PROVE  /\ s[n].table = t /\ s[n].op = "update" /\ DOMAIN s[n].cols = {"pos"}
             /\ Toward(s[n], F)
  <2>1. PICK y \in DOMAIN g : s[n] = Position(t, y, g[y].pos) BY DEF Places
  <2>2. /\ s[n].table = t /\ s[n].op = "update" /\ s[n].id = y
        /\ DOMAIN s[n].cols = {"pos"} /\ s[n].cols["pos"] = g[y].pos
    BY <1>2, <2>1
  <2>3. y \in DOMAIN h /\ "pos" \in DOMAIN F[y] /\ F[y]["pos"] = g[y].pos BY <1>4
  <2> QED BY <1>3, <2>2, <2>3 DEF Toward
<1>7. ASSUME NEW x \in DOMAIN F
      PROVE  /\ x \in DOMAIN h /\ DOMAIN h[x] = DOMAIN F[x]
             /\ \A c \in DOMAIN F[x] : h[x][c] = F[x][c] \/ Writes(s, 0, t, x, c)
  <2>1. x \in DOMAIN h /\ DOMAIN h[x] = DOMAIN F[x] BY <1>3, <1>4
  <2>2. ASSUME NEW c \in DOMAIN F[x], h[x][c] # F[x][c] PROVE Writes(s, 0, t, x, c)
    <3>1. c = "pos" /\ x \in DOMAIN g /\ g[x].pos # f[x].pos BY <1>4, <2>1, <2>2
    <3>2. PICK n \in DOMAIN s : s[n] = Position(t, x, g[x].pos) BY <3>1 DEF Places
    <3> QED BY <1>1, <1>2, <3>1, <3>2 DEF Writes
  <2> QED BY <2>1, <2>2
<1>8. Leads(s, 0, t, h, F) BY <1>3, <1>5, <1>6, <1>7 DEF Leads
<1> QED BY <1>6, <1>8

LEMMA MoveLinkPlan ==
  ASSUME Ready, Core, NEW i \in DOMAIN items, NEW dir \in MoveDirs, MoveLink(i, dir),
         NEW s0, s0 = Moved("downloads", i, items, items')
  PROVE  Plan(s0)
<1>1. items' \in Reorderings(items, i, LinkPeers(i), dir) /\ rows' = Saved(rows, items, items')
      /\ UNCHANGED <<pkgRows, partial>>
  BY DEF MoveLink, packages, machine
<1>2. PICK g : g = items' OBVIOUS
<1>3. PICK s : s = Moved("downloads", i, items, g) OBVIOUS
<1>4. LinkPeers(i) \subseteq DOMAIN items \ {i} BY DEF LinkPeers
<1>5. dir \in {"UP", "DOWN", "TOP", "BOTTOM"} BY BoundsAssumption
<1>6. g \in Reorderings(items, i, LinkPeers(i), dir) BY <1>1, <1>2
<1>7. Places(s, "downloads", items, g) BY <1>3, <1>4, <1>5, <1>6, MovedPlaces
<1>8. DOMAIN g = DOMAIN items
  <2>1. \/ \E n \in LinkPeers(i) : g = MovedTo(MovedTo(items, i, items[n].pos), n, items[i].pos)
        \/ \E v : g = MovedTo(items, i, v)
    BY <1>5, <1>6 DEF Reorderings
  <2> QED BY <2>1 DEF MovedTo
<1>9. /\ DOMAIN items \subseteq DOMAIN rows /\ \A x \in DOMAIN rows : "pos" \in DOMAIN rows[x]
      /\ \A y \in DOMAIN items : rows[y].pos = items[y].pos
  <2>1. DOMAIN items \subseteq DOMAIN rows BY DEF Core, GlobalOK
  <2>2. \A y \in DOMAIN items : rows[y].pos = items[y].pos BY DEF Core, LinkOK, Mirrored
  <2>3. \A x \in DOMAIN rows : rows[x] \in Row BY DEF Ready, Loadable
  <2> QED BY <2>1, <2>2, <2>3, RowDomain
<1>10. Table(rows) /\ Table(pkgRows) BY DEF Ready, Flushed, DiskOK
<1>11. PICK F : F = rows' OBVIOUS
<1>12. F = Saved(rows, items, g) BY <1>1, <1>2, <1>11
<1>13. /\ Leads(s, 0, "downloads", rows, F)
       /\ \A n \in DOMAIN s : /\ s[n].table = "downloads" /\ s[n].op = "update"
                              /\ DOMAIN s[n].cols = {"pos"}
  BY <1>7, <1>8, <1>9, <1>10, <1>12, PlacesLead
<1>14. Leads(s, 0, "packages", pkgRows, pkgRows') BY <1>1, <1>10, <1>13, LeadsNowhere
<1>15. Plain(s) BY <1>13 DEF Plain
<1>16. \E B : s \in Seq(B) BY <1>7 DEF Places
<1>17. Leads(s, 0, "downloads", rows, rows') BY <1>11, <1>13
<1>18. Plan(s) BY <1>1, <1>14, <1>15, <1>16, <1>17, UpdatePlan DEF Ready
<1> QED BY <1>2, <1>3, <1>18

LEMMA MovePkgPlan ==
  ASSUME Ready, Core, NEW p \in DOMAIN pkgs, NEW dir \in MoveDirs, MovePkg(p, dir),
         NEW s0, s0 = Moved("packages", p, pkgs, pkgs')
  PROVE  Plan(s0)
<1>1. pkgs' \in Reorderings(pkgs, p, PkgPeers(p), dir) /\ pkgRows' = Saved(pkgRows, pkgs, pkgs')
      /\ UNCHANGED <<rows, partial>>
  BY DEF MovePkg, machine
<1>2. PICK g : g = pkgs' OBVIOUS
<1>3. PICK s : s = Moved("packages", p, pkgs, g) OBVIOUS
<1>4. PkgPeers(p) \subseteq DOMAIN pkgs \ {p} BY DEF PkgPeers
<1>5. dir \in {"UP", "DOWN", "TOP", "BOTTOM"} BY BoundsAssumption
<1>6. g \in Reorderings(pkgs, p, PkgPeers(p), dir) BY <1>1, <1>2
<1>7. Places(s, "packages", pkgs, g) BY <1>3, <1>4, <1>5, <1>6, MovedPlaces
<1>8. DOMAIN g = DOMAIN pkgs
  <2>1. \/ \E n \in PkgPeers(p) : g = MovedTo(MovedTo(pkgs, p, pkgs[n].pos), n, pkgs[p].pos)
        \/ \E v : g = MovedTo(pkgs, p, v)
    BY <1>5, <1>6 DEF Reorderings
  <2> QED BY <2>1 DEF MovedTo
<1>9. /\ DOMAIN pkgs \subseteq DOMAIN pkgRows /\ \A y \in DOMAIN pkgs : pkgRows[y].pos = pkgs[y].pos
      /\ \A x \in DOMAIN pkgRows : "pos" \in DOMAIN pkgRows[x]
  <2>1. \A x \in DOMAIN pkgRows : pkgRows[x] \in Package BY DEF Ready, Loadable
  <2> QED BY <2>1, PackageDomain DEF Core, GlobalOK
<1>10. Table(rows) /\ Table(pkgRows) BY DEF Ready, Flushed, DiskOK
<1>11. PICK F : F = pkgRows' OBVIOUS
<1>12. F = Saved(pkgRows, pkgs, g) BY <1>1, <1>2, <1>11
<1>13. /\ Leads(s, 0, "packages", pkgRows, F)
       /\ \A n \in DOMAIN s : /\ s[n].table = "packages" /\ s[n].op = "update"
                              /\ DOMAIN s[n].cols = {"pos"}
  BY <1>7, <1>8, <1>9, <1>10, <1>12, PlacesLead
<1>14. Leads(s, 0, "downloads", rows, rows') BY <1>1, <1>10, <1>13, LeadsNowhere
<1>15. Plain(s) BY <1>13 DEF Plain
<1>16. \E B : s \in Seq(B) BY <1>7 DEF Places
<1>17. Leads(s, 0, "packages", pkgRows, pkgRows') BY <1>11, <1>13
<1>18. Plan(s) BY <1>1, <1>14, <1>15, <1>16, <1>17, UpdatePlan DEF Ready
<1> QED BY <1>2, <1>3, <1>18

LEMMA NoStatementPlan ==
  ASSUME Ready, Core,
         \/ AddFails \/ PauseAll \/ StopAll
         \/ \E v \in MaxActives : SetMaxActive(v)
         \/ \E i \in Running : Remove(i)
  PROVE  Plan(<<>>)
<1>1. UNCHANGED <<rows, pkgRows, partial>>
  <2>1. CASE AddFails \/ PauseAll \/ StopAll \/ \E v \in MaxActives : SetMaxActive(v)
    BY <2>1 DEF AddFails, PauseAll, StopAll, SetMaxActive, packages, machine
  <2>2. ASSUME NEW i \in Running, Remove(i) PROVE UNCHANGED <<rows, pkgRows, partial>>
    <3>1. i \in DOMAIN items /\ {i} \ Running = {} BY DEF Running
    <3>2. RemoveLinks({i}, {items[i].pkg}) BY <2>2 DEF Remove
    <3>3. /\ rows' = Without(rows, {}) /\ partial' = partial
          /\ pkgRows' = Without(pkgRows, Emptied({items[i].pkg}, {}))
      BY <3>1, <3>2 DEF RemoveLinks, PartialWithout, DropIfEmpty
    <3>4. Emptied({items[i].pkg}, {}) = {} BY <3>1 DEF Emptied
    <3>5. Table(rows) /\ Table(pkgRows) BY DEF Ready, Flushed, DiskOK
    <3> QED BY <3>3, <3>4, <3>5 DEF Without, Table
  <2> QED BY <2>1, <2>2
<1> QED BY <1>1, NothingPlan DEF Ready

---------------------------------------------------------------------------
(* Statements that delete *)

\* s deletes the rows R, the part files Q and the packages P, a link's part file
\* before its row.
Clears(s, R, Q, P) ==
  /\ \E B : s \in Seq(B)
  /\ \A n \in DOMAIN s :
       /\ s[n].op = "delete"
       /\ \/ s[n].table = "downloads" /\ s[n].id \in R
          \/ s[n].table = "parts" /\ s[n].id \in Q
          \/ s[n].table = "packages" /\ s[n].id \in P
       /\ s[n].table = "downloads" /\ s[n].id \in Q => Prior(s, n, "parts", "delete", s[n].id)
  /\ \A i \in R : Pends(s, 0, "downloads", "delete", i)
  /\ \A i \in Q : Pends(s, 0, "parts", "delete", i)
  /\ \A p \in P : Pends(s, 0, "packages", "delete", p)

\* And no package before the links Review shows under it, but for one that goes
\* ahead of links of its own.
LinksFirst(s) ==
  \A n \in DOMAIN s : s[n].table = "packages" =>
    \A j : StagedIn(j, s[n].id) => Prior(s, n, "downloads", "delete", j) \/ s[n].id \in cut'

LEMMA DeletesLead ==
  ASSUME NEW B, NEW s \in Seq(B), NEW t, NEW f, Table(f), NEW R,
         \A n \in DOMAIN s : s[n].table = t => s[n].op = "delete" /\ s[n].id \in R,
         \A x \in R : Pends(s, 0, t, "delete", x),
         NEW F, F = Without(f, R)
  PROVE  Leads(s, 0, t, f, F)
<1>1. DOMAIN F = DOMAIN f \ R /\ F = [x \in DOMAIN F |-> F[x]] /\ \A x \in DOMAIN F : F[x] = f[x]
  BY DEF Without
<1>2. Table(F) BY <1>1 DEF Table
<1>3. \A n \in DOMAIN s : s[n].table = t => Toward(s[n], F) BY <1>1 DEF Toward
<1>4. \A x \in DOMAIN f \ DOMAIN F : Pends(s, 0, t, "delete", x) BY <1>1
<1> QED BY <1>1, <1>2, <1>3, <1>4 DEF Leads

LEMMA ClearPlan ==
  ASSUME Ready, NEW R, NEW Q, NEW P, NEW s, Clears(s, R, Q, P), LinksFirst(s),
         Q \subseteq R, R \cap partial \subseteq Q,
         rows' = Without(rows, R), pkgRows' = Without(pkgRows, P), partial' = partial \ Q
  PROVE  Plan(s)
<1>1. PICK B : s \in Seq(B) BY DEF Clears
<1>2. Table(rows) /\ Table(pkgRows) /\ IsDisk(disk) BY DEF Ready, Flushed, DiskOK
<1>3. \A n \in DOMAIN s : s[n].table = "downloads" => s[n].op = "delete" /\ s[n].id \in R
  BY DEF Clears
<1>4. \A n \in DOMAIN s : s[n].table = "packages" => s[n].op = "delete" /\ s[n].id \in P
  BY DEF Clears
<1>5. \A x \in R : Pends(s, 0, "downloads", "delete", x) BY DEF Clears
<1>6. \A x \in P : Pends(s, 0, "packages", "delete", x) BY DEF Clears
<1>7. Leads(s, 0, "downloads", rows, rows') BY <1>1, <1>2, <1>3, <1>5, DeletesLead
<1>8. Leads(s, 0, "packages", pkgRows, pkgRows') BY <1>1, <1>2, <1>4, <1>6, DeletesLead
<1>9. Unlinked(s, 0) = Q
  <2>1. \A n \in DOMAIN s : s[n].table = "parts" => s[n].id \in Q BY DEF Clears
  <2>2. \A i \in Q : \E n \in DOMAIN s : n > 0 /\ s[n].table = "parts" /\ s[n].id = i
    BY DEF Clears, Pends
  <2> QED BY <2>1, <2>2 DEF Unlinked
<1>10. \A n \in DOMAIN s : Known(s[n]) BY DEF Clears, Known
<1>11. Brings(s, 0, disk, rows', pkgRows', partial')
  BY <1>2, <1>7, <1>8, <1>9, <1>10 DEF Brings, Ready, Flushed
<1>12. DOMAIN rows' = DOMAIN rows \ R /\ \A i \in DOMAIN rows' : rows'[i] = rows[i]
  BY DEF Without
<1>13. ASSUME NEW n \in DOMAIN s PROVE Fits(s, n)'
  <2>0. disk' = disk /\ disk.parts = partial /\ s[n].op = "delete" BY DEF Ready, Flushed, Clears
  <2>1. InsertFits(s, n)' /\ UpdateFits(s, n)' BY <2>0 DEF InsertFits, UpdateFits
  <2>2. DeleteFits(s, n)'
    <3> SUFFICES ASSUME s[n].table = "downloads", s[n].id \in disk.parts
                 PROVE  Prior(s, n, "parts", "delete", s[n].id)
      BY <2>0 DEF DeleteFits, Prior
    <3>1. s[n].id \in Q BY <1>3, <2>0
    <3> QED BY <3>1 DEF Clears
  <2>3. PackageFits(s, n)'
    <3> SUFFICES ASSUME s[n].table = "packages", NEW j, StagedIn(j, s[n].id)
                 PROVE  Prior(s, n, "downloads", "delete", j) \/ s[n].id \in cut'
      BY <2>0 DEF PackageFits, Prior, StagedIn
    <3> QED BY DEF LinksFirst
  <2>4. PartFits(s, n)'
    <3>1. s[n].table = "parts" => s[n].id \in Q BY DEF Clears
    <3> QED BY <1>12, <2>0, <3>1 DEF PartFits
  <2> QED BY <2>1, <2>2, <2>3, <2>4 DEF Fits
<1> QED BY <1>1, <1>11, <1>12, <1>13 DEF Plan

\* Packages deleted after their links.
LEMMA ClearsThenPackages ==
  ASSUME NEW u, NEW R, NEW Q, Clears(u, R, Q, {}), NEW v, NEW P, Clears(v, {}, {}, P),
         \A p \in P : \A j : StagedIn(j, p) => j \in R \/ p \in cut',
         NEW s, s = u \o v
  PROVE  Clears(s, R, Q, P) /\ LinksFirst(s)
<1>1. PICK B : u \in Seq(B) BY DEF Clears
<1>2. PICK C : v \in Seq(C) BY DEF Clears
<1>3. PICK z : z = s OBVIOUS
<1>4. /\ z \in Seq(B \cup C)
      /\ \A n \in DOMAIN u : n \in DOMAIN z /\ z[n] = u[n] /\ n > 0
      /\ \A n \in DOMAIN v : /\ Len(u) + n \in DOMAIN z /\ z[Len(u) + n] = v[n]
                             /\ n > 0 /\ Len(u) + n > 0
      /\ \A n \in DOMAIN z : \/ n \in DOMAIN u /\ z[n] = u[n]
                             \/ /\ n - Len(u) \in DOMAIN v /\ z[n] = v[n - Len(u)]
                                /\ n > Len(u)
  BY <1>1, <1>2, <1>3, Concat
<1>5. \A t, op, x : Pends(u, 0, t, op, x) \/ Pends(v, 0, t, op, x) => Pends(z, 0, t, op, x)
  BY <1>4 DEF Pends
<1>6. \A n \in DOMAIN u : n \in Nat /\ n <= Len(u) BY <1>1
<1>7. \A n \in DOMAIN z : n \in Nat BY <1>4
<1>8. Len(u) \in Nat BY <1>1
<1>9. \A m, n, t, x : n \in DOMAIN u /\ Prior(u, n, t, "delete", x) => Prior(z, n, t, "delete", x)
  BY <1>4 DEF Prior
<1>10. ASSUME NEW n \in DOMAIN z
       PROVE  /\ z[n].op = "delete"
              /\ \/ z[n].table = "downloads" /\ z[n].id \in R
                 \/ z[n].table = "parts" /\ z[n].id \in Q
                 \/ z[n].table = "packages" /\ z[n].id \in P
              /\ z[n].table = "downloads" /\ z[n].id \in Q => Prior(z, n, "parts", "delete", z[n].id)
              /\ z[n].table = "packages" => z[n].id \in P /\ n > Len(u)
  <2>1. CASE n \in DOMAIN u /\ z[n] = u[n] BY <1>9, <2>1 DEF Clears
  <2>2. CASE n - Len(u) \in DOMAIN v /\ z[n] = v[n - Len(u)] /\ n > Len(u) BY <2>2 DEF Clears
  <2> QED BY <1>4, <2>1, <2>2
<1>11. Clears(z, R, Q, P)
  <2>1. \A i \in R : Pends(z, 0, "downloads", "delete", i) BY <1>5 DEF Clears
  <2>2. \A i \in Q : Pends(z, 0, "parts", "delete", i) BY <1>5 DEF Clears
  <2>3. \A i \in P : Pends(z, 0, "packages", "delete", i) BY <1>5 DEF Clears
  <2>4. \E D : z \in Seq(D) BY <1>4
  <2> QED BY <1>10, <2>1, <2>2, <2>3, <2>4 DEF Clears
<1>12. LinksFirst(z)
  <2> SUFFICES ASSUME NEW n \in DOMAIN z, z[n].table = "packages", NEW j, StagedIn(j, z[n].id)
               PROVE  Prior(z, n, "downloads", "delete", j) \/ z[n].id \in cut'
    BY DEF LinksFirst
  <2>1. z[n].id \in P /\ n > Len(u) BY <1>10
  <2> SUFFICES ASSUME z[n].id \notin cut' PROVE Prior(z, n, "downloads", "delete", j)
    OBVIOUS
  <2>2. j \in R BY <2>1
  <2>3. Pends(u, 0, "downloads", "delete", j) BY <2>2 DEF Clears
  <2>4. PICK m \in DOMAIN u : u[m].table = "downloads" /\ u[m].op = "delete" /\ u[m].id = j
    BY <2>3 DEF Pends
  <2>5. m \in DOMAIN z /\ z[m] = u[m] /\ m <= Len(u) BY <1>4, <1>6
  <2>6. m < n BY <1>6, <1>7, <1>8, <2>1, <2>5
  <2> QED BY <2>4, <2>5, <2>6 DEF Prior
<1> QED BY <1>3, <1>11, <1>12

---------------------------------------------------------------------------
(* The blocks of the verbs that delete *)

\* s holds the a[x], and nothing else.
Singles(s, S, a) ==
  /\ \E B : s \in Seq(B)
  /\ \A n \in DOMAIN s : \E x \in S : s[n] = a[x]
  /\ \A x \in S : \E n \in DOMAIN s : s[n] = a[x]

LEMMA SinglesListed ==
  ASSUME NEW S, IsFiniteSet(S), NEW order \in Seqs!SetToSeqs(S), NEW a,
         NEW h, h = [n \in DOMAIN order |-> h[n]], \A n \in DOMAIN order : h[n] = <<a[order[n]]>>,
         NEW s, s = Seqs!FlattenSeq(h)
  PROVE  Singles(s, S, a)
<1> DEFINE g == [x \in S |-> <<a[x]>>]
           B == {a[x] : x \in S}
<1>1. \A n \in DOMAIN order : order[n] \in S BY OrderHolds
<1>3. \A x \in S : g[x] \in Seq(B) OBVIOUS
<1>4. \A x \in S : DOMAIN g[x] = {1} /\ g[x][1] = a[x] OBVIOUS
<1>5. h = [n \in DOMAIN order |-> g[order[n]]] BY <1>1
<1>6. PICK z : z = s OBVIOUS
<1> HIDE DEF g, B
<1>7. z \in Seq(B) /\ Made(z, S, g) BY <1>3, <1>5, <1>6, ListingMade
<1>8. \A n \in DOMAIN z : \E x \in S : z[n] = a[x] BY <1>4, <1>7 DEF Made
<1>9. \A x \in S : \E n \in DOMAIN z : z[n] = a[x]
  <2> SUFFICES ASSUME NEW x \in S PROVE \E n \in DOMAIN z : z[n] = a[x]
    OBVIOUS
  <2>1. 1 \in DOMAIN g[x] BY <1>4
  <2>2. \E n \in DOMAIN z : z[n] = g[x][1] BY <1>7, <2>1 DEF Made
  <2> QED BY <1>4, <2>2
<1>10. \E C : z \in Seq(C) BY <1>7
<1>11. Singles(z, S, a) BY <1>8, <1>9, <1>10 DEF Singles
<1> QED BY <1>6, <1>11

DeletesOf(a, t, S) == \A x \in S : a[x] = Delete(t, x)

LEMMA DeleteFields ==
  ASSUME NEW a, NEW t, NEW S, DeletesOf(a, t, S), NEW x \in S
  PROVE  a[x].table = t /\ a[x].op = "delete" /\ a[x].id = x
<1>1. a[x] = Delete(t, x) BY DEF DeletesOf
<1> QED BY <1>1 DEF Delete

LEMMA RowsCleared ==
  ASSUME NEW s, NEW S, NEW a, Singles(s, S, a), DeletesOf(a, "downloads", S)
  PROVE  Clears(s, S, {}, {})
<1>1. PICK B : s \in Seq(B) BY DEF Singles
<1>2. \A n \in DOMAIN s : n > 0 BY <1>1
<1>3. \A x \in S : a[x].table = "downloads" /\ a[x].op = "delete" /\ a[x].id = x BY DeleteFields
<1>4. \A n \in DOMAIN s : s[n].table = "downloads" /\ s[n].op = "delete" /\ s[n].id \in S
  BY <1>3 DEF Singles
<1>5. \A i \in S : Pends(s, 0, "downloads", "delete", i) BY <1>2, <1>3 DEF Singles, Pends
<1> QED BY <1>1, <1>4, <1>5 DEF Clears

LEMMA PackagesCleared ==
  ASSUME NEW s, NEW S, NEW a, Singles(s, S, a), DeletesOf(a, "packages", S)
  PROVE  Clears(s, {}, {}, S)
<1>1. PICK B : s \in Seq(B) BY DEF Singles
<1>2. \A n \in DOMAIN s : n > 0 BY <1>1
<1>3. \A x \in S : a[x].table = "packages" /\ a[x].op = "delete" /\ a[x].id = x BY DeleteFields
<1>4. \A n \in DOMAIN s : s[n].table = "packages" /\ s[n].op = "delete" /\ s[n].id \in S
  BY <1>3 DEF Singles
<1>5. \A i \in S : Pends(s, 0, "packages", "delete", i) BY <1>2, <1>3 DEF Singles, Pends
<1> QED BY <1>1, <1>4, <1>5 DEF Clears

LEMMA LinksCleared ==
  ASSUME NEW s, NEW S, NEW a, NEW b, Couples(s, S, a, b),
         DeletesOf(a, "parts", S), DeletesOf(b, "downloads", S)
  PROVE  Clears(s, S, S, {})
<1>1. PICK B : s \in Seq(B) BY DEF Couples
<1>2. \A n \in DOMAIN s : n > 0 BY <1>1
<1>3. \A x \in S : a[x].table = "parts" /\ a[x].op = "delete" /\ a[x].id = x BY DeleteFields
<1>4. \A x \in S : b[x].table = "downloads" /\ b[x].op = "delete" /\ b[x].id = x BY DeleteFields
<1>5. ASSUME NEW n \in DOMAIN s
      PROVE  /\ s[n].op = "delete" /\ s[n].id \in S /\ s[n].table \in {"downloads", "parts"}
             /\ s[n].table = "downloads" => Prior(s, n, "parts", "delete", s[n].id)
  <2>1. PICK x \in S : s[n] = a[x] \/ (s[n] = b[x] /\ \E m \in DOMAIN s : m < n /\ s[m] = a[x])
    BY DEF Couples
  <2>2. CASE s[n] = a[x] BY <1>3, <2>2
  <2>3. CASE s[n] = b[x] /\ \E m \in DOMAIN s : m < n /\ s[m] = a[x]
    <3>1. Prior(s, n, "parts", "delete", x) BY <1>3, <2>3 DEF Prior
    <3> QED BY <1>4, <2>3, <3>1
  <2> QED BY <2>1, <2>2, <2>3
<1>6. ASSUME NEW i \in S PROVE Pends(s, 0, "downloads", "delete", i)
  <2>1. PICK n \in DOMAIN s : s[n] = b[i] BY DEF Couples
  <2> QED BY <1>2, <1>4, <2>1 DEF Pends
<1>7. ASSUME NEW i \in S PROVE Pends(s, 0, "parts", "delete", i)
  <2>1. PICK n \in DOMAIN s : s[n] = a[i] BY DEF Couples
  <2> QED BY <1>2, <1>3, <2>1 DEF Pends
<1> QED BY <1>1, <1>5, <1>6, <1>7 DEF Clears

LEMMA NoneCleared == Clears(<<>>, {}, {}, {})
<1>1. <<>> \in Seq({}) /\ DOMAIN <<>> = {} OBVIOUS
<1> QED BY <1>1 DEF Clears

LEMMA OneCleared ==
  ASSUME NEW x, NEW s, s = <<Delete("downloads", x)>> PROVE Clears(s, {x}, {}, {})
<1>1. PICK a : a = [y \in {x} |-> Delete("downloads", y)] OBVIOUS
<1>2. PICK st : st = Delete("downloads", x) OBVIOUS
<1>3. s = <<st>> /\ st \in {st} /\ a[x] = st BY <1>1, <1>2
<1>4. DOMAIN s = {1} /\ s[1] = a[x] /\ s \in Seq({st}) BY <1>3
<1>5. Singles(s, {x}, a) BY <1>4 DEF Singles
<1>6. DeletesOf(a, "downloads", {x}) BY <1>1 DEF DeletesOf
<1> QED BY <1>5, <1>6, RowsCleared

LEMMA OnePackageCleared ==
  ASSUME NEW x, NEW s, s = <<Delete("packages", x)>> PROVE Clears(s, {}, {}, {x})
<1>1. PICK a : a = [y \in {x} |-> Delete("packages", y)] OBVIOUS
<1>2. PICK st : st = Delete("packages", x) OBVIOUS
<1>3. s = <<st>> /\ st \in {st} /\ a[x] = st BY <1>1, <1>2
<1>4. DOMAIN s = {1} /\ s[1] = a[x] /\ s \in Seq({st}) BY <1>3
<1>5. Singles(s, {x}, a) BY <1>4 DEF Singles
<1>6. DeletesOf(a, "packages", {x}) BY <1>1 DEF DeletesOf
<1> QED BY <1>5, <1>6, PackagesCleared

LEMMA OneLinkCleared ==
  ASSUME NEW x, NEW s, s = PartThenRow(x) PROVE Clears(s, {x}, {x}, {})
<1>1. PICK a : a = [y \in {x} |-> Delete("parts", y)] OBVIOUS
<1>2. PICK b : b = [y \in {x} |-> Delete("downloads", y)] OBVIOUS
<1>3. s = <<a[x], b[x]>> BY <1>1, <1>2 DEF PartThenRow
<1>4. PICK c : c = a[x] OBVIOUS
<1>5. PICK d : d = b[x] OBVIOUS
<1>6. s = <<c, d>> /\ c \in {c, d} /\ d \in {c, d} BY <1>3, <1>4, <1>5
<1>7. DOMAIN s = {1, 2} /\ s[1] = c /\ s[2] = d /\ s \in Seq({c, d}) /\ 1 < 2 BY <1>6
<1>8. Couples(s, {x}, a, b) BY <1>4, <1>5, <1>7 DEF Couples
<1>9. DeletesOf(a, "parts", {x}) /\ DeletesOf(b, "downloads", {x}) BY <1>1, <1>2 DEF DeletesOf
<1> QED BY <1>8, <1>9, LinksCleared

---------------------------------------------------------------------------
(* The verbs that delete *)

LEMMA LinkRowsCleared ==
  ASSUME NEW S, IsFiniteSet(S), NEW order \in Seqs!SetToSeqs(S), NEW s,
         s = Seqs!FlattenSeq([n \in DOMAIN order |-> LgLinkRows(order[n])])
  PROVE  Clears(s, S, {}, {})
<1>1. PICK a : a = [x \in S |-> Delete("downloads", x)] OBVIOUS
<1>2. PICK h : h = [n \in DOMAIN order |-> LgLinkRows(order[n])] OBVIOUS
<1>3. \A n \in DOMAIN order : order[n] \in S BY OrderHolds
<1>4. \A n \in DOMAIN order : h[n] = <<a[order[n]]>> BY <1>1, <1>2, <1>3 DEF LgLinkRows
<1>5. h = [n \in DOMAIN order |-> h[n]] /\ s = Seqs!FlattenSeq(h) BY <1>2
<1>6. DeletesOf(a, "downloads", S) BY <1>1 DEF DeletesOf
<1>7. PICK z : z = s OBVIOUS
<1>8. PICK k : k = h OBVIOUS
<1>9. /\ k = [n \in DOMAIN order |-> k[n]] /\ z = Seqs!FlattenSeq(k)
      /\ \A n \in DOMAIN order : k[n] = <<a[order[n]]>>
  BY <1>4, <1>5, <1>7, <1>8
<1>10. Singles(z, S, a) BY <1>9, SinglesListed
<1>11. Clears(z, S, {}, {}) BY <1>6, <1>10, RowsCleared
<1> QED BY <1>7, <1>11

LEMMA PackageRowsCleared ==
  ASSUME NEW S, IsFiniteSet(S), NEW order \in Seqs!SetToSeqs(S), NEW s,
         s = Seqs!FlattenSeq([n \in DOMAIN order |-> <<Delete("packages", order[n])>>])
  PROVE  Clears(s, {}, {}, S)
<1>1. PICK a : a = [x \in S |-> Delete("packages", x)] OBVIOUS
<1>2. PICK h : h = [n \in DOMAIN order |-> <<Delete("packages", order[n])>>] OBVIOUS
<1>3. \A n \in DOMAIN order : order[n] \in S BY OrderHolds
<1>4. \A n \in DOMAIN order : h[n] = <<a[order[n]]>> BY <1>1, <1>2, <1>3
<1>5. h = [n \in DOMAIN order |-> h[n]] /\ s = Seqs!FlattenSeq(h) BY <1>2
<1>6. DeletesOf(a, "packages", S) BY <1>1 DEF DeletesOf
<1>7. PICK z : z = s OBVIOUS
<1>8. PICK k : k = h OBVIOUS
<1>9. /\ k = [n \in DOMAIN order |-> k[n]] /\ z = Seqs!FlattenSeq(k)
      /\ \A n \in DOMAIN order : k[n] = <<a[order[n]]>>
  BY <1>4, <1>5, <1>7, <1>8
<1>10. Singles(z, S, a) BY <1>9, SinglesListed
<1>11. Clears(z, {}, {}, S) BY <1>6, <1>10, PackagesCleared
<1> QED BY <1>7, <1>11

LEMMA PartRowsCleared ==
  ASSUME NEW S, IsFiniteSet(S), NEW order \in Seqs!SetToSeqs(S), NEW s,
         s = Seqs!FlattenSeq([n \in DOMAIN order |-> PartThenRow(order[n])])
  PROVE  Clears(s, S, S, {})
<1>1. PICK a : a = [x \in S |-> Delete("parts", x)] OBVIOUS
<1>2. PICK b : b = [x \in S |-> Delete("downloads", x)] OBVIOUS
<1>3. PICK h : h = [n \in DOMAIN order |-> PartThenRow(order[n])] OBVIOUS
<1>4. \A n \in DOMAIN order : order[n] \in S BY OrderHolds
<1>5. \A n \in DOMAIN order : h[n] = <<a[order[n]], b[order[n]]>>
  BY <1>1, <1>2, <1>3, <1>4 DEF PartThenRow
<1>6. h = [n \in DOMAIN order |-> h[n]] /\ s = Seqs!FlattenSeq(h) BY <1>3
<1>7. DeletesOf(a, "parts", S) /\ DeletesOf(b, "downloads", S) BY <1>1, <1>2 DEF DeletesOf
<1>8. PICK z : z = s OBVIOUS
<1>9. PICK k : k = h OBVIOUS
<1>10. /\ k = [n \in DOMAIN order |-> k[n]] /\ z = Seqs!FlattenSeq(k)
       /\ \A n \in DOMAIN order : k[n] = <<a[order[n]], b[order[n]]>>
  BY <1>5, <1>6, <1>8, <1>9
<1>11. Couples(z, S, a, b) BY <1>10, CouplesListed
<1>12. Clears(z, S, S, {}) BY <1>7, <1>11, LinksCleared
<1> QED BY <1>8, <1>12

LEMMA DropCleared ==
  ASSUME NEW i, NEW R, NEW P, P = Emptied({items[i].pkg}, R), NEW d, d = Drop(i, R)
  PROVE  Clears(d, {}, {}, P)
<1>1. CASE P = {}
  <2>1. d = <<>> BY <1>1 DEF Drop
  <2> QED BY <1>1, <2>1, NoneCleared
<1>2. CASE P # {}
  <2>1. PICK p : p = items[i].pkg OBVIOUS
  <2>2. P \subseteq {p} BY <2>1 DEF Emptied
  <2>3. P = {p} BY <1>2, <2>2
  <2>4. d = <<Delete("packages", p)>> BY <1>2, <2>1 DEF Drop
  <2> QED BY <2>3, <2>4, OnePackageCleared
<1> QED BY <1>1, <1>2

\* What Review shows under a package is a link of it, in the linkgrabber, if the
\* process has loaded it.
LEMMA ShownUnder ==
  ASSUME Flushed, Core, NEW j \in DOMAIN items, NEW p, StagedIn(j, p)
  PROVE  j \in Staged /\ j \in Members(p) /\ items[j].pkg = p
<1>1. rows[j].list = "linkgrabber" /\ rows[j].pkg = p BY DEF StagedIn, Flushed
<1>2. Mirrored(j) BY DEF Core, LinkOK
<1> QED BY <1>1, <1>2 DEF Mirrored, Staged, Members

LEMMA ShownGone ==
  ASSUME Flushed, Core, NEW Q, NEW R, NEW p \in Emptied(Q, R), NEW j \in DOMAIN items,
         StagedIn(j, p)
  PROVE  j \in R
BY ShownUnder DEF Emptied

\* A package that leaves the linkgrabber is noted when it leaves a link behind
\* that the process has not loaded.
Departs == AsideShown(cut) /\ cut \cup LeftBehind \subseteq cut'

LEMMA LeavesNoted ==
  ASSUME Flushed, Core, Departs, NEW p \in DOMAIN pkgs,
         p \in DOMAIN pkgs' => pkgs'[p].list = "download",
         NEW j, StagedIn(j, p), j \notin DOMAIN items
  PROVE  p \in cut'
<1>1. j \in DOMAIN rows /\ rows[j].list = "linkgrabber" /\ rows[j].pkg = p
  BY DEF StagedIn, Flushed
<1>2. p \in cut \/ (p \in DOMAIN pkgRows /\ pkgRows[p].list = "linkgrabber")
  BY <1>1 DEF Departs, AsideShown, NotLoaded
<1>3. pkgs[p] = pkgRows[p] BY DEF Core, GlobalOK
<1>4. CASE p \in StagedPackages BY <1>1, <1>4 DEF LeftBehind, Departs
<1>5. CASE p \notin StagedPackages BY <1>2, <1>3, <1>5 DEF StagedPackages, Departs
<1> QED BY <1>4, <1>5

\* Links, and the packages that are gone with them.
LEMMA GonePlan ==
  ASSUME Ready, Core, Departs, NEW R, NEW Q, NEW P, NEW u, NEW v, NEW s, s = u \o v,
         Clears(u, R, Q, {}), Clears(v, {}, {}, P), P \subseteq DOMAIN pkgs,
         \A p \in P : \A j \in DOMAIN items : StagedIn(j, p) => j \in R,
         Q \subseteq R, R \cap partial \subseteq Q, pkgs' = Without(pkgs, P),
         rows' = Without(rows, R), pkgRows' = Without(pkgRows, P), partial' = partial \ Q
  PROVE  Plan(s)
<1>1. PICK z : z = s OBVIOUS
<1>2. \A p \in P : \A j : StagedIn(j, p) => j \in R \/ p \in cut'
  <2> SUFFICES ASSUME NEW p \in P, NEW j, StagedIn(j, p), j \notin DOMAIN items
               PROVE  p \in cut'
    OBVIOUS
  <2>1. p \in DOMAIN pkgs /\ p \notin DOMAIN pkgs' BY DEF Without
  <2> QED BY <2>1, LeavesNoted DEF Ready
<1>3. Clears(z, R, Q, P) /\ LinksFirst(z) BY <1>1, <1>2, ClearsThenPackages
<1>4. Plan(z) BY <1>3, ClearPlan
<1> QED BY <1>1, <1>4

LEMMA LgRemoveAllPlan ==
  ASSUME Ready, Core, Departs, LgRemoveAll,
         NEW u \in InListOrder(Staged, LgLinkRows),
         NEW v \in InListOrder(StagedPackages, LAMBDA p : <<Delete("packages", p)>>),
         IsFiniteSet(DOMAIN items), IsFiniteSet(DOMAIN pkgs)
  PROVE  Plan(u \o v)
<1>1. PICK R : R = Staged OBVIOUS
<1>2. PICK P : P = StagedPackages OBVIOUS
<1>3. PICK one \in Seqs!SetToSeqs(R) :
        u = Seqs!FlattenSeq([n \in DOMAIN one |-> LgLinkRows(one[n])])
  BY <1>1 DEF InListOrder
<1>4. PICK two \in Seqs!SetToSeqs(P) :
        v = Seqs!FlattenSeq([n \in DOMAIN two |-> <<Delete("packages", two[n])>>])
  BY <1>2 DEF InListOrder
<1>5. R \subseteq DOMAIN items /\ P \subseteq DOMAIN pkgs BY <1>1, <1>2 DEF Staged, StagedPackages
<1>6. IsFiniteSet(R) /\ IsFiniteSet(P) BY <1>5, FS_Subset
<1>7. Clears(u, R, {}, {}) BY <1>3, <1>6, LinkRowsCleared
<1>8. Clears(v, {}, {}, P) BY <1>4, <1>6, PackageRowsCleared
<1>9. \A p \in P : \A j \in DOMAIN items : StagedIn(j, p) => j \in R
  BY <1>1, ShownUnder DEF Ready
<1>10. R \cap partial \subseteq {} BY <1>1 DEF Core, LinkOK, Shelved, Staged
<1>11. /\ rows' = Without(rows, R) /\ pkgRows' = Without(pkgRows, P) /\ partial' = partial \ {}
       /\ pkgs' = Without(pkgs, P)
  BY <1>1, <1>2 DEF LgRemoveAll, LgDelete, machine
<1>12. PICK none : none = {} OBVIOUS
<1>13. PICK z : z = u \o v OBVIOUS
<1>14. /\ Clears(u, R, none, {}) /\ none \subseteq R /\ R \cap partial \subseteq none
       /\ partial' = partial \ none
  BY <1>7, <1>10, <1>11, <1>12
<1>15. Plan(z) BY <1>5, <1>8, <1>9, <1>11, <1>13, <1>14, GonePlan
<1> QED BY <1>13, <1>15

LEMMA PackagesFinite == Core => IsFiniteSet(DOMAIN pkgs)
<1> SUFFICES ASSUME Core PROVE IsFiniteSet(DOMAIN pkgs)
  OBVIOUS
<1>1. DOMAIN pkgs \subseteq 1 .. MaxPackages BY DEF Core, GlobalOK, Packages
<1>2. IsFiniteSet(1 .. MaxPackages) BY BoundsAssumption, FS_Interval
<1> QED BY <1>1, <1>2, FS_Subset

LEMMA LgRemovePackagePlan ==
  ASSUME Ready, Core, Departs, NEW p \in DOMAIN pkgs, LgRemovePackage(p), NEW s \in LgPackageStmts(p)
  PROVE  Plan(s)
<1>1. PICK R : R = Members(p) \cap Staged OBVIOUS
<1>2. PICK u \in InListOrder(R, LgLinkRows) : s = u \o <<Delete("packages", p)>>
  BY <1>1 DEF LgPackageStmts
<1>3. PICK one \in Seqs!SetToSeqs(R) :
        u = Seqs!FlattenSeq([n \in DOMAIN one |-> LgLinkRows(one[n])])
  BY <1>2 DEF InListOrder
<1>4. PICK v : v = <<Delete("packages", p)>> OBVIOUS
<1>5. R \subseteq DOMAIN items BY <1>1 DEF Staged
<1>6. IsFiniteSet(R) BY <1>5, RunningFinite, FS_Subset
<1>7. Clears(u, R, {}, {}) BY <1>3, <1>6, LinkRowsCleared
<1>8. PICK P : P = {p} OBVIOUS
<1>9. Clears(v, {}, {}, P) BY <1>4, <1>8, OnePackageCleared
<1>10. \A q \in P : \A j \in DOMAIN items : StagedIn(j, q) => j \in R
  BY <1>1, <1>8, ShownUnder DEF Ready
<1>11. R \cap partial \subseteq {} BY <1>1 DEF Core, LinkOK, Shelved, Staged
<1>12. /\ rows' = Without(rows, R) /\ pkgRows' = Without(pkgRows, P) /\ partial' = partial \ {}
       /\ pkgs' = Without(pkgs, P) /\ P \subseteq DOMAIN pkgs
  BY <1>1, <1>8 DEF LgRemovePackage, LgDelete, machine
<1>13. PICK none : none = {} OBVIOUS
<1>14. PICK z : z = u \o v OBVIOUS
<1>15. /\ Clears(u, R, none, {}) /\ none \subseteq R /\ R \cap partial \subseteq none
       /\ partial' = partial \ none
  BY <1>7, <1>11, <1>12, <1>13
<1>16. Plan(z) BY <1>9, <1>10, <1>12, <1>14, <1>15, GonePlan
<1> QED BY <1>2, <1>4, <1>14, <1>16

LEMMA LgRemoveLinkPlan ==
  ASSUME Ready, Core, Departs, NEW i \in DOMAIN items, LgRemoveLink(i),
         NEW s, s = LgLinkRows(i) \o Drop(i, {i})
  PROVE  Plan(s)
<1>1. PICK R : R = {i} OBVIOUS
<1>2. PICK P : P = Emptied({items[i].pkg}, R) OBVIOUS
<1>3. PICK u : u = LgLinkRows(i) OBVIOUS
<1>4. PICK v : v = Drop(i, R) OBVIOUS
<1>5. Clears(u, R, {}, {}) BY <1>1, <1>3, OneCleared DEF LgLinkRows
<1>6. Clears(v, {}, {}, P) BY <1>2, <1>4, DropCleared
<1>7. \A q \in P : \A j \in DOMAIN items : StagedIn(j, q) => j \in R
  BY <1>2, ShownGone DEF Ready
<1>8. R \cap partial \subseteq {} BY <1>1 DEF LgRemoveLink, Core, LinkOK, Shelved, Staged
<1>9. /\ rows' = Without(rows, R) /\ pkgRows' = Without(pkgRows, P) /\ partial' = partial \ {}
      /\ pkgs' = Without(pkgs, P) /\ P \subseteq DOMAIN pkgs
  BY <1>1, <1>2 DEF LgRemoveLink, LgDelete, machine, Emptied
<1>10. PICK none : none = {} OBVIOUS
<1>11. /\ Clears(u, R, none, {}) /\ none \subseteq R /\ R \cap partial \subseteq none
       /\ partial' = partial \ none
  BY <1>5, <1>8, <1>9, <1>10
<1>12. PICK z : z = u \o v OBVIOUS
<1>13. Plan(z) BY <1>6, <1>7, <1>9, <1>11, <1>12, GonePlan
<1> QED BY <1>1, <1>3, <1>4, <1>12, <1>13

\* A link, its part file, and its package when that is empty.
LEMMA OneGonePlan ==
  ASSUME Ready, Core, Departs, NEW i \in DOMAIN items,
         rows' = Without(rows, {i}), partial' = PartialWithout({i}),
         DropIfEmpty({items[i].pkg}, {i}),
         NEW s, s = PartThenRow(i) \o Drop(i, {i})
  PROVE  Plan(s)
<1>1. PICK R : R = {i} OBVIOUS
<1>2. PICK P : P = Emptied({items[i].pkg}, R) OBVIOUS
<1>3. PICK u : u = PartThenRow(i) OBVIOUS
<1>4. PICK v : v = Drop(i, R) OBVIOUS
<1>5. Clears(u, R, R, {}) BY <1>1, <1>3, OneLinkCleared
<1>6. Clears(v, {}, {}, P) BY <1>2, <1>4, DropCleared
<1>7. \A q \in P : \A j \in DOMAIN items : StagedIn(j, q) => j \in R
  BY <1>2, ShownGone DEF Ready
<1>8. /\ rows' = Without(rows, R) /\ pkgRows' = Without(pkgRows, P) /\ partial' = partial \ R
      /\ pkgs' = Without(pkgs, P) /\ P \subseteq DOMAIN pkgs
  BY <1>1, <1>2 DEF DropIfEmpty, PartialWithout, Emptied
<1>9. PICK z : z = u \o v OBVIOUS
<1>10. R \subseteq R /\ R \cap partial \subseteq R OBVIOUS
<1>11. Plan(z) BY <1>5, <1>6, <1>7, <1>8, <1>9, <1>10, GonePlan
<1> QED BY <1>1, <1>3, <1>4, <1>9, <1>11

LEMMA RemovePlan ==
  ASSUME Ready, Core, Departs, NEW i \in DOMAIN items, Remove(i), i \notin Running,
         NEW s, s = PartThenRow(i) \o Drop(i, {i})
  PROVE  Plan(s)
<1>1. {i} \ Running = {i} OBVIOUS
<1>2. /\ rows' = Without(rows, {i}) /\ partial' = PartialWithout({i})
      /\ DropIfEmpty({items[i].pkg}, {i})
  BY <1>1 DEF Remove, RemoveLinks
<1> QED BY <1>2, OneGonePlan

LEMMA SettleGonePlan ==
  ASSUME Ready, Core, Departs, NEW i \in DOMAIN items, FinalizeWorker(i), items[i].removeRequested,
         NEW s, s = PartThenRow(i) \o Drop(i, {i})
  PROVE  Plan(s)
<1>1. /\ rows' = Without(rows, {i}) /\ partial' = PartialWithout({i})
      /\ DropIfEmpty({items[i].pkg}, {i})
  BY DEF FinalizeWorker
<1> QED BY <1>1, OneGonePlan

LEMMA PkgRemovePlan ==
  ASSUME Ready, Core, Departs, NEW p \in DOMAIN pkgs, PkgRemove(p),
         NEW u \in InListOrder(Members(p) \ Running, PartThenRow),
         NEW s, s = u \o (IF p \in DOMAIN pkgs' THEN <<>> ELSE <<Delete("packages", p)>>)
  PROVE  Plan(s)
<1>1. PICK R : R = Members(p) \ Running OBVIOUS
<1>2. PICK one \in Seqs!SetToSeqs(R) :
        u = Seqs!FlattenSeq([n \in DOMAIN one |-> PartThenRow(one[n])])
  BY <1>1 DEF InListOrder
<1>3. PICK P : P = Emptied({p}, R) OBVIOUS
<1>4. PICK v : v = IF p \in DOMAIN pkgs' THEN <<>> ELSE <<Delete("packages", p)>> OBVIOUS
<1>5. R \subseteq DOMAIN items BY <1>1 DEF Members
<1>6. IsFiniteSet(R) BY <1>5, RunningFinite, FS_Subset
<1>7. Clears(u, R, R, {}) BY <1>2, <1>6, PartRowsCleared
<1>8. /\ rows' = Without(rows, R) /\ pkgRows' = Without(pkgRows, P) /\ partial' = partial \ R
      /\ pkgs' = Without(pkgs, P) /\ P \subseteq DOMAIN pkgs
  BY <1>1, <1>3 DEF PkgRemove, RemoveLinks, DropIfEmpty, PartialWithout, Emptied
<1>9. Clears(v, {}, {}, P)
  <2>1. DOMAIN pkgs' = DOMAIN pkgs \ P BY <1>8 DEF Without
  <2>2. P \subseteq {p} BY <1>3 DEF Emptied
  <2>3. CASE p \in P
    <3>1. v = <<Delete("packages", p)>> BY <1>4, <2>1, <2>3
    <3>2. P = {p} BY <2>2, <2>3
    <3> QED BY <3>1, <3>2, OnePackageCleared
  <2>4. CASE p \notin P
    <3>1. v = <<>> BY <1>4, <2>1, <2>4
    <3>2. P = {} BY <2>2, <2>4
    <3> QED BY <3>1, <3>2, NoneCleared
  <2> QED BY <2>3, <2>4
<1>10. \A q \in P : \A j \in DOMAIN items : StagedIn(j, q) => j \in R
  BY <1>3, ShownGone DEF Ready
<1>11. PICK z : z = u \o v OBVIOUS
<1>12. R \subseteq R /\ R \cap partial \subseteq R OBVIOUS
<1>13. Plan(z) BY <1>7, <1>8, <1>9, <1>10, <1>11, <1>12, GonePlan
<1> QED BY <1>4, <1>11, <1>13

---------------------------------------------------------------------------
(* clearFinished and clearFailed *)

LEMMA SeqOver ==
  ASSUME NEW C, NEW v \in Seq(C), NEW B, \A k \in DOMAIN v : v[k] \in B PROVE v \in Seq(B)
OBVIOUS

\* Each of the blocks h clears its part of R, Q and P.
Blocks(h, rr, qq, pp, R, Q, P) ==
  /\ \A n \in DOMAIN h :
       /\ Clears(h[n], rr[n], qq[n], pp[n])
       /\ rr[n] \subseteq R /\ qq[n] \subseteq Q /\ pp[n] \subseteq P /\ rr[n] \cap Q \subseteq qq[n]
  /\ \A x \in R : \E n \in DOMAIN h : x \in rr[n]
  /\ \A x \in Q : \E n \in DOMAIN h : x \in qq[n]
  /\ \A x \in P : \E n \in DOMAIN h : x \in pp[n]

LEMMA BlocksClear ==
  ASSUME NEW N \in Nat, NEW h, h = [n \in 1 .. N |-> h[n]], NEW rr, NEW qq, NEW pp,
         NEW R, NEW Q, NEW P, Blocks(h, rr, qq, pp, R, Q, P),
         NEW s, s = Seqs!FlattenSeq(h)
  PROVE  Clears(s, R, Q, P)
<1> DEFINE B == UNION {{h[n][k] : k \in DOMAIN h[n]} : n \in 1 .. N}
<1>1. DOMAIN h = 1 .. N OBVIOUS
<1>2. ASSUME NEW n \in 1 .. N PROVE h[n] \in Seq(B)
  <2>1. PICK C : h[n] \in Seq(C) BY <1>1 DEF Blocks, Clears
  <2>2. \A k \in DOMAIN h[n] : h[n][k] \in B OBVIOUS
  <2> HIDE DEF B
  <2> QED BY <2>1, <2>2, SeqOver
<1> HIDE DEF B
<1>3. h \in Seq(Seq(B)) /\ Len(h) = N
  <2>1. h \in [1 .. N -> Seq(B)] BY <1>2
  <2> QED BY <2>1
<1>4. PICK F : F = s OBVIOUS
<1>5. F \in Seq(B) /\ Laid(F, h, N) BY <1>3, <1>4, FlattenLaid
<1>6. \A n \in DOMAIN F : n > 0 BY <1>5
<1>7. ASSUME NEW n \in DOMAIN F
      PROVE  /\ F[n].op = "delete"
             /\ \/ F[n].table = "downloads" /\ F[n].id \in R
                \/ F[n].table = "parts" /\ F[n].id \in Q
                \/ F[n].table = "packages" /\ F[n].id \in P
             /\ F[n].table = "downloads" /\ F[n].id \in Q => Prior(F, n, "parts", "delete", F[n].id)
  <2>1. PICK q \in 1 .. N : \E k \in DOMAIN h[q] :
          /\ F[n] = h[q][k]
          /\ \A o \in 1 .. q : \A j \in DOMAIN h[o] :
               o < q \/ j < k => \E l \in DOMAIN F : l < n /\ F[l] = h[o][j]
    BY <1>5 DEF Laid
  <2>2. PICK k \in DOMAIN h[q] :
          /\ F[n] = h[q][k]
          /\ \A o \in 1 .. q : \A j \in DOMAIN h[o] :
               o < q \/ j < k => \E l \in DOMAIN F : l < n /\ F[l] = h[o][j]
    BY <2>1
  <2>3. /\ Clears(h[q], rr[q], qq[q], pp[q])
        /\ rr[q] \subseteq R /\ qq[q] \subseteq Q /\ pp[q] \subseteq P /\ rr[q] \cap Q \subseteq qq[q]
    BY <1>1 DEF Blocks
  <2>4. PICK v : v = h[q] OBVIOUS
  <2>5. PICK x : x = F[n] OBVIOUS
  <2>6. k \in DOMAIN v /\ x = v[k] /\ Clears(v, rr[q], qq[q], pp[q]) BY <2>2, <2>3, <2>4, <2>5
  <2>7. /\ x.op = "delete"
        /\ \/ x.table = "downloads" /\ x.id \in rr[q]
           \/ x.table = "parts" /\ x.id \in qq[q]
           \/ x.table = "packages" /\ x.id \in pp[q]
        /\ x.table = "downloads" /\ x.id \in qq[q] => Prior(v, k, "parts", "delete", x.id)
    BY <2>6 DEF Clears
  <2>8. \A j \in DOMAIN v : j < k => \E l \in DOMAIN F : l < n /\ F[l] = v[j]
    <3>1. q \in 1 .. q OBVIOUS
    <3> QED BY <2>2, <2>4, <3>1
  <2>9. ASSUME x.table = "downloads", x.id \in Q PROVE Prior(F, n, "parts", "delete", x.id)
    <3>0. x.id \in rr[q] BY <2>7, <2>9
    <3>1. x.id \in qq[q] BY <2>3, <2>9, <3>0
    <3>2. PICK j \in DOMAIN v : /\ j < k /\ v[j].table = "parts" /\ v[j].op = "delete"
                                /\ v[j].id = x.id
      BY <2>7, <2>9, <3>1 DEF Prior
    <3>3. PICK l \in DOMAIN F : l < n /\ F[l] = v[j] BY <2>8, <3>2
    <3> QED BY <3>2, <3>3 DEF Prior
  <2> QED BY <2>3, <2>5, <2>7, <2>9
<1>8. ASSUME NEW q \in 1 .. N, NEW t, NEW x, Pends(h[q], 0, t, "delete", x)
      PROVE  Pends(F, 0, t, "delete", x)
  <2>1. PICK k \in DOMAIN h[q] : h[q][k].table = t /\ h[q][k].op = "delete" /\ h[q][k].id = x
    BY <1>8 DEF Pends
  <2>2. PICK n \in DOMAIN F : F[n] = h[q][k] BY <1>5 DEF Laid
  <2> QED BY <1>6, <2>1, <2>2 DEF Pends
<1>9. ASSUME NEW x \in R PROVE Pends(F, 0, "downloads", "delete", x)
  <2>1. PICK q \in 1 .. N : x \in rr[q] BY <1>1 DEF Blocks
  <2>2. Clears(h[q], rr[q], qq[q], pp[q]) BY <1>1 DEF Blocks
  <2>3. Pends(h[q], 0, "downloads", "delete", x) BY <2>1, <2>2 DEF Clears
  <2> QED BY <1>8, <2>3
<1>10. ASSUME NEW x \in Q PROVE Pends(F, 0, "parts", "delete", x)
  <2>1. PICK q \in 1 .. N : x \in qq[q] BY <1>1 DEF Blocks
  <2>2. Clears(h[q], rr[q], qq[q], pp[q]) BY <1>1 DEF Blocks
  <2>3. Pends(h[q], 0, "parts", "delete", x) BY <2>1, <2>2 DEF Clears
  <2> QED BY <1>8, <2>3
<1>11. ASSUME NEW x \in P PROVE Pends(F, 0, "packages", "delete", x)
  <2>1. PICK q \in 1 .. N : x \in pp[q] BY <1>1 DEF Blocks
  <2>2. Clears(h[q], rr[q], qq[q], pp[q]) BY <1>1 DEF Blocks
  <2>3. Pends(h[q], 0, "packages", "delete", x) BY <2>1, <2>2 DEF Clears
  <2> QED BY <1>8, <2>3
<1>12. \E C : F \in Seq(C) BY <1>5
<1>13. Clears(F, R, Q, P) BY <1>7, <1>9, <1>10, <1>11, <1>12 DEF Clears
<1> QED BY <1>4, <1>13

LEMMA GreatestUpTo ==
  ASSUME NEW N \in Nat, NEW T, T \subseteq 1 .. N, T # {}
  PROVE  \E n \in T : \A m \in T : m <= n
<1> DEFINE U == {N - n : n \in T}
<1>1. U \subseteq Nat /\ U # {}
  <2>1. \A n \in T : N - n \in Nat OBVIOUS
  <2> QED BY <2>1
<1> HIDE DEF U
<1>2. PICK k \in U : \A m \in U : k <= m BY <1>1, LeastNat
<1>3. PICK n \in T : k = N - n BY DEF U
<1>4. ASSUME NEW m \in T PROVE m <= n
  <2>1. N - m \in U BY DEF U
  <2>2. k <= N - m BY <1>2, <2>1
  <2>3. m \in Int /\ n \in Int OBVIOUS
  <2> QED BY <1>3, <2>2, <2>3
<1> QED BY <1>4

\* The packages that go with the first n, and those that go with all.
InTurn(pp, order) ==
  \A n \in DOMAIN order : pp[n] = Emptied({items[order[n]].pkg}, {order[m] : m \in 1 .. n})
GoneWith(P, R) == P = Emptied({items[i].pkg : i \in R}, R)

LEMMA EmptiedInTurn ==
  ASSUME NEW R, R \subseteq DOMAIN items, IsFiniteSet(R), NEW order \in Seqs!SetToSeqs(R),
         NEW P, GoneWith(P, R), NEW pp, InTurn(pp, order)
  PROVE  /\ \A n \in DOMAIN order : pp[n] \subseteq P
         /\ \A x \in P : \E n \in DOMAIN order : x \in pp[n]
<1>1. PICK N \in Nat : order \in Seq(R) /\ DOMAIN order = 1 .. N
  <2>1. order \in Seq(R) BY OrderHolds
  <2> QED BY <2>1
<1>2. \A n \in 1 .. N : order[n] \in R BY <1>1
<1>3. \A x \in R : \E n \in 1 .. N : order[n] = x BY <1>1, OrderHolds
<1>4. ASSUME NEW n \in 1 .. N, NEW p \in pp[n] PROVE p \in P
  <2>1. p = items[order[n]].pkg /\ p \in DOMAIN pkgs
        /\ \A i \in DOMAIN items \ {order[m] : m \in 1 .. n} : items[i].pkg # p
    BY <1>1 DEF InTurn, Emptied
  <2>2. {order[m] : m \in 1 .. n} \subseteq R BY <1>2
  <2> QED BY <1>2, <2>1, <2>2 DEF GoneWith, Emptied
<1>5. ASSUME NEW p \in P PROVE \E n \in 1 .. N : p \in pp[n]
  <2> DEFINE T == {n \in 1 .. N : items[order[n]].pkg = p}
  <2>1. p \in DOMAIN pkgs /\ (\E i \in R : items[i].pkg = p)
        /\ \A i \in DOMAIN items \ R : items[i].pkg # p
    BY DEF GoneWith, Emptied
  <2>2. T # {} /\ T \subseteq 1 .. N BY <1>3, <2>1
  <2>3. PICK n \in T : \A m \in T : m <= n
    <3> HIDE DEF T
    <3> QED BY <2>2, GreatestUpTo
  <2>4. ASSUME NEW i \in DOMAIN items, items[i].pkg = p PROVE i \in {order[m] : m \in 1 .. n}
    <3>1. i \in R BY <2>1, <2>4
    <3>2. PICK m \in 1 .. N : order[m] = i BY <1>3, <3>1
    <3>3. m \in T BY <2>4, <3>2
    <3>4. m <= n /\ m \in 1 .. n BY <2>3, <3>3
    <3> QED BY <3>2, <3>4
  <2>5. p \in Emptied({p}, {order[m] : m \in 1 .. n}) BY <2>1, <2>4 DEF Emptied
  <2>6. n \in 1 .. N /\ items[order[n]].pkg = p OBVIOUS
  <2> QED BY <1>1, <2>5, <2>6 DEF InTurn
<1> QED BY <1>1, <1>4, <1>5

\* The blocks of the two verbs: b clears a link, and its package goes in its turn.
ClearsEach(b, R, Q) == \A i \in R : Clears(b[i], {i}, Q \cap {i}, {})
Turns(h, b, order) ==
  /\ h = [n \in DOMAIN order |-> h[n]]
  /\ \A n \in DOMAIN order : h[n] = b[order[n]] \o Drop(order[n], {order[m] : m \in 1 .. n})
NeverShown(R) == \A i \in R : items[i].state \notin {"QUEUED", "PAUSED"}

LEMMA ClearedOrder ==
  ASSUME NEW R, NEW b, NEW s \in Cleared(R, b)
  PROVE  \E order \in Seqs!SetToSeqs(R) : \E h : Turns(h, b, order) /\ s = Seqs!FlattenSeq(h)
<1>1. PICK order \in Seqs!SetToSeqs(R) :
        s = Seqs!FlattenSeq([n \in DOMAIN order |->
              b[order[n]] \o Drop(order[n], {order[m] : m \in 1 .. n})])
  BY DEF Cleared
<1>2. PICK h : h = [n \in DOMAIN order |->
                      b[order[n]] \o Drop(order[n], {order[m] : m \in 1 .. n})]
  OBVIOUS
<1>3. Turns(h, b, order) BY <1>2 DEF Turns
<1>4. s = Seqs!FlattenSeq(h) BY <1>1, <1>2
<1> QED BY <1>3, <1>4

LEMMA ClearedPlan ==
  ASSUME Ready, Core, Departs, NEW R, R \subseteq DOMAIN items,
         NEW Q, Q \subseteq R, R \cap partial \subseteq Q,
         NeverShown(R), NEW b, ClearsEach(b, R, Q),
         rows' = Without(rows, R), partial' = partial \ Q,
         DropIfEmpty({items[i].pkg : i \in R}, R),
         NEW order \in Seqs!SetToSeqs(R), NEW h, Turns(h, b, order),
         NEW s, s = Seqs!FlattenSeq(h)
  PROVE  Plan(s)
<1>1. IsFiniteSet(R) BY RunningFinite, FS_Subset
<1>2. PICK N \in Nat : order \in Seq(R) /\ DOMAIN order = 1 .. N
  <2>1. order \in Seq(R) BY <1>1, OrderHolds
  <2> QED BY <2>1
<1>3. PICK P : P = Emptied({items[i].pkg : i \in R}, R) OBVIOUS
<1>4. PICK pp : pp = [n \in 1 .. N |-> Emptied({items[order[n]].pkg}, {order[m] : m \in 1 .. n})]
  OBVIOUS
<1>5. PICK rr : rr = [n \in 1 .. N |-> {order[n]}] OBVIOUS
<1>6. PICK qq : qq = [n \in 1 .. N |-> Q \cap {order[n]}] OBVIOUS
<1>7. InTurn(pp, order) /\ GoneWith(P, R) BY <1>2, <1>3, <1>4 DEF InTurn, GoneWith
<1>8. /\ \A n \in 1 .. N : pp[n] \subseteq P
      /\ \A x \in P : \E n \in 1 .. N : x \in pp[n]
  BY <1>1, <1>2, <1>7, EmptiedInTurn
<1>9. ASSUME NEW p \in P, NEW j, StagedIn(j, p) PROVE p \in cut'
  <2>4. p \in DOMAIN pkgs /\ p \notin DOMAIN pkgs'
    BY <1>3 DEF DropIfEmpty, Without, Emptied
  <2> SUFFICES ASSUME j \in DOMAIN items PROVE FALSE
    BY <1>9, <2>4, LeavesNoted DEF Ready
  <2>1. j \in R BY <1>3, <1>9, ShownGone DEF Ready
  <2>2. j \in Staged BY <1>9, ShownUnder DEF Ready
  <2>3. items[j].state \in {"QUEUED", "PAUSED"} BY <2>1, <2>2 DEF Core, LinkOK, Shelved, Staged
  <2> QED BY <2>1, <2>3 DEF NeverShown
<1>10. ASSUME NEW n \in 1 .. N PROVE Clears(h[n], rr[n], qq[n], pp[n])
  <2>1. PICK i : i = order[n] OBVIOUS
  <2>2. i \in R BY <1>2, <2>1
  <2>3. PICK T : T = {order[m] : m \in 1 .. n} OBVIOUS
  <2>4. PICK v : v = Drop(i, T) OBVIOUS
  <2>5. PICK u : u = b[i] OBVIOUS
  <2>6. PICK z : z = h[n] OBVIOUS
  <2>7. z = u \o v BY <1>2, <2>1, <2>3, <2>4, <2>5, <2>6 DEF Turns
  <2>8. pp[n] = Emptied({items[i].pkg}, T) BY <1>4, <2>1, <2>3
  <2>9. PICK G : G = pp[n] OBVIOUS
  <2>10. Clears(v, {}, {}, G) BY <2>4, <2>8, <2>9, DropCleared
  <2>11. PICK S : S = {i} OBVIOUS
  <2>12. PICK O : O = Q \cap {i} OBVIOUS
  <2>13. Clears(u, S, O, {}) BY <2>2, <2>5, <2>11, <2>12 DEF ClearsEach
  <2>14. \A p \in G : \A j : StagedIn(j, p) => j \in S \/ p \in cut' BY <1>8, <1>9, <2>9
  <2>15. Clears(z, S, O, G) BY <2>7, <2>10, <2>13, <2>14, ClearsThenPackages
  <2> QED BY <1>5, <1>6, <2>1, <2>6, <2>9, <2>11, <2>12, <2>15
<1>11. Blocks(h, rr, qq, pp, R, Q, P)
  <2>1. DOMAIN h = 1 .. N BY <1>2 DEF Turns
  <2>2. \A n \in 1 .. N : order[n] \in R BY <1>2
  <2>3. \A n \in 1 .. N : rr[n] \subseteq R /\ qq[n] \subseteq Q /\ rr[n] \cap Q \subseteq qq[n]
    BY <1>5, <1>6, <2>2
  <2>4. \A x \in R : \E n \in 1 .. N : order[n] = x BY <1>1, <1>2, OrderHolds
  <2>5. \A x \in R : \E n \in 1 .. N : x \in rr[n] BY <1>5, <2>4
  <2>6. \A x \in Q : \E n \in 1 .. N : x \in qq[n] BY <1>6, <2>4
  <2> QED BY <1>8, <1>10, <2>1, <2>3, <2>5, <2>6 DEF Blocks
<1>12. PICK z : z = s OBVIOUS
<1>13. h = [n \in 1 .. N |-> h[n]] BY <1>2 DEF Turns
<1>14. PICK k : k = h OBVIOUS
<1>15. k = [n \in 1 .. N |-> k[n]] /\ Blocks(k, rr, qq, pp, R, Q, P) /\ z = Seqs!FlattenSeq(k)
  BY <1>11, <1>12, <1>13, <1>14
<1>16. Clears(z, R, Q, P) BY <1>15, BlocksClear
<1>17. LinksFirst(z)
  <2> SUFFICES ASSUME NEW n \in DOMAIN z, z[n].table = "packages", NEW j, StagedIn(j, z[n].id)
               PROVE  z[n].id \in cut'
    BY DEF LinksFirst
  <2>1. z[n].id \in P BY <1>16 DEF Clears
  <2> QED BY <1>9, <2>1
<1>18. pkgRows' = Without(pkgRows, P) BY <1>3 DEF DropIfEmpty
<1>19. Plan(z) BY <1>16, <1>17, <1>18, ClearPlan
<1> QED BY <1>12, <1>19

LEMMA ClearFinishedPlan ==
  ASSUME Ready, Core, Departs, ClearFinished,
         NEW s \in Cleared(IdleIn("DONE"), [i \in Links |-> LgLinkRows(i)])
  PROVE  Plan(s)
<1>1. PICK R : R = IdleIn("DONE") OBVIOUS
<1>2. PICK b : b = [i \in Links |-> LgLinkRows(i)] OBVIOUS
<1>3. s \in Cleared(R, b) BY <1>1, <1>2
<1>4. PICK order \in Seqs!SetToSeqs(R) : \E h : Turns(h, b, order) /\ s = Seqs!FlattenSeq(h)
  BY <1>3, ClearedOrder
<1>5. PICK h : Turns(h, b, order) /\ s = Seqs!FlattenSeq(h) BY <1>4
<1>6. PICK Q : Q = {} OBVIOUS
<1>7. R \subseteq DOMAIN items BY <1>1 DEF IdleIn
<1>8. Q \subseteq R /\ R \cap partial \subseteq Q BY <1>1, <1>6 DEF Core, LinkOK, Shelved, IdleIn
<1>9. NeverShown(R) BY <1>1 DEF IdleIn, NeverShown
<1>10. ASSUME NEW i \in R PROVE Clears(b[i], {i}, Q \cap {i}, {})
  <2>1. i \in Links BY <1>7 DEF Core, LinkOK, Typed
  <2>2. PICK u : u = b[i] OBVIOUS
  <2>3. u = <<Delete("downloads", i)>> BY <1>2, <2>1, <2>2 DEF LgLinkRows
  <2>4. Clears(u, {i}, {}, {}) BY <2>3, OneCleared
  <2>5. Q \cap {i} = {} BY <1>6
  <2> QED BY <2>2, <2>4, <2>5
<1>11. ClearsEach(b, R, Q) BY <1>10 DEF ClearsEach
<1>12. /\ rows' = Without(rows, R) /\ partial' = partial \ Q
       /\ DropIfEmpty({items[i].pkg : i \in R}, R)
  BY <1>1, <1>6 DEF ClearFinished, Clear, PartialWithout
<1>13. PICK z : z = s OBVIOUS
<1>14. z = Seqs!FlattenSeq(h) BY <1>5, <1>13
<1>15. Plan(z) BY <1>5, <1>7, <1>8, <1>9, <1>11, <1>12, <1>14, ClearedPlan
<1> QED BY <1>13, <1>15

LEMMA ClearFailedPlan ==
  ASSUME Ready, Core, Departs, ClearFailed,
         NEW s \in Cleared(IdleIn("ERROR"), [i \in Links |-> PartThenRow(i)])
  PROVE  Plan(s)
<1>1. PICK R : R = IdleIn("ERROR") OBVIOUS
<1>2. PICK b : b = [i \in Links |-> PartThenRow(i)] OBVIOUS
<1>3. s \in Cleared(R, b) BY <1>1, <1>2
<1>4. PICK order \in Seqs!SetToSeqs(R) : \E h : Turns(h, b, order) /\ s = Seqs!FlattenSeq(h)
  BY <1>3, ClearedOrder
<1>5. PICK h : Turns(h, b, order) /\ s = Seqs!FlattenSeq(h) BY <1>4
<1>6. PICK Q : Q = R OBVIOUS
<1>7. R \subseteq DOMAIN items BY <1>1 DEF IdleIn
<1>8. Q \subseteq R /\ R \cap partial \subseteq Q BY <1>1, <1>6 DEF Core, LinkOK, Shelved, IdleIn
<1>9. NeverShown(R) BY <1>1 DEF IdleIn, NeverShown
<1>10. ASSUME NEW i \in R PROVE Clears(b[i], {i}, Q \cap {i}, {})
  <2>1. i \in Links BY <1>7 DEF Core, LinkOK, Typed
  <2>2. PICK u : u = b[i] OBVIOUS
  <2>3. u = PartThenRow(i) BY <1>2, <2>1, <2>2
  <2>4. Clears(u, {i}, {i}, {}) BY <2>3, OneLinkCleared
  <2>5. Q \cap {i} = {i} BY <1>6
  <2> QED BY <2>2, <2>4, <2>5
<1>11. ClearsEach(b, R, Q) BY <1>10 DEF ClearsEach
<1>12. /\ rows' = Without(rows, R) /\ partial' = partial \ Q
       /\ DropIfEmpty({items[i].pkg : i \in R}, R)
  BY <1>1, <1>6 DEF ClearFailed, Clear, PartialWithout
<1>13. PICK z : z = s OBVIOUS
<1>14. z = Seqs!FlattenSeq(h) BY <1>5, <1>13
<1>15. Plan(z) BY <1>5, <1>7, <1>8, <1>9, <1>11, <1>12, <1>14, ClearedPlan
<1> QED BY <1>13, <1>15

---------------------------------------------------------------------------
(* The verbs that confirm *)

\* The columns confirmLink writes, in the end.
Final(start, f) == [list |-> "download", state |-> "QUEUED", err |-> f, autostart |-> start]

LEMMA FinalColumns ==
  ASSUME NEW start, NEW f, NEW full, full = Final(start, f)
  PROVE  /\ DOMAIN full = {"list", "state", "err", "autostart"}
         /\ full["list"] = "download" /\ full["state"] = "QUEUED" /\ full["err"] = f
         /\ full["autostart"] = start
BY DEF Final

LEMMA ConfirmedOver ==
  ASSUME NEW r \in Row, NEW start, NEW f, NEW full, full = Final(start, f)
  PROVE  [r EXCEPT !.list = "download", !.state = "QUEUED", !.err = f, !.autostart = start]
           = Overlay(full, r)
<1> DEFINE v == [r EXCEPT !.list = "download", !.state = "QUEUED", !.err = f, !.autostart = start]
<1>2. /\ v = [c \in DOMAIN r |-> v[c]]
      /\ \A c \in DOMAIN r : v[c] = IF c = "list" THEN "download" ELSE IF c = "state" THEN "QUEUED"
                                    ELSE IF c = "err" THEN f
                                    ELSE IF c = "autostart" THEN start ELSE r[c]
  BY RowDomain
<1> HIDE DEF v
<1>3. \A c \in DOMAIN r : v[c] = IF c \in DOMAIN full THEN full[c] ELSE r[c] BY <1>2, FinalColumns
<1>4. v = Overlay(full, r) BY <1>2, <1>3 DEF Overlay
<1> QED BY <1>4 DEF v

\* A statement on the row of x that writes columns of full, the state with its error.
Sent(st, x, full) ==
  /\ st.table = "downloads" /\ st.op = "update" /\ st.id = x
  /\ \A c \in DOMAIN st.cols : c \in DOMAIN full /\ st.cols[c] = full[c]
  /\ "state" \in DOMAIN st.cols <=> "err" \in DOMAIN st.cols

\* The block writes all of full to the row of x.
Sends(block, x, full) ==
  /\ \A k \in DOMAIN block : Sent(block[k], x, full)
  /\ \A c \in DOMAIN full : \E k \in DOMAIN block : c \in DOMAIN block[k].cols

LEMMA ConfirmedSends ==
  ASSUME NEW x, NEW start, NEW f, f = FALSE, NEW full, full = Final(start, f),
         NEW block, block = Confirmed(x, start)
  PROVE  Sends(block, x, full) /\ \E B : block \in Seq(B)
<1> DEFINE a == Listed("downloads", x)
           b == State(x, "QUEUED", f)
           d == Update("downloads", x, [autostart |-> start])
<1>1. block = <<a, b, d>> BY DEF Confirmed
<1>2. Sent(a, x, full) /\ DOMAIN a.cols = {"list"}
  <2>1. a = [table |-> "downloads", op |-> "update", id |-> x, cols |-> [list |-> "download"]]
    BY DEF Listed, Update
  <2>2. PICK cols : cols = [list |-> "download"] OBVIOUS
  <2>3. DOMAIN cols = {"list"} /\ cols["list"] = "download" BY <2>2
  <2>4. a.table = "downloads" /\ a.op = "update" /\ a.id = x /\ a.cols = cols BY <2>1, <2>2
  <2> HIDE DEF a
  <2> QED BY <2>3, <2>4, FinalColumns DEF Sent
<1>3. Sent(b, x, full) /\ DOMAIN b.cols = {"state", "err"}
  <2>1. b = [table |-> "downloads", op |-> "update", id |-> x,
             cols |-> [state |-> "QUEUED", err |-> f]]
    BY DEF State, Update
  <2>2. PICK cols : cols = [state |-> "QUEUED", err |-> f] OBVIOUS
  <2>3. DOMAIN cols = {"state", "err"} /\ cols["state"] = "QUEUED" /\ cols["err"] = f BY <2>2
  <2>4. b.table = "downloads" /\ b.op = "update" /\ b.id = x /\ b.cols = cols BY <2>1, <2>2
  <2> HIDE DEF b
  <2> QED BY <2>3, <2>4, FinalColumns DEF Sent
<1>4. Sent(d, x, full) /\ DOMAIN d.cols = {"autostart"}
  <2>1. d = [table |-> "downloads", op |-> "update", id |-> x, cols |-> [autostart |-> start]]
    BY DEF Update
  <2>2. PICK cols : cols = [autostart |-> start] OBVIOUS
  <2>3. DOMAIN cols = {"autostart"} /\ cols["autostart"] = start BY <2>2
  <2>4. d.table = "downloads" /\ d.op = "update" /\ d.id = x /\ d.cols = cols BY <2>1, <2>2
  <2> HIDE DEF d
  <2> QED BY <2>3, <2>4, FinalColumns DEF Sent
<1> HIDE DEF a, b, d
<1>5. DOMAIN block = {1, 2, 3} /\ block[1] = a /\ block[2] = b /\ block[3] = d BY <1>1
<1>6. block \in Seq({a, b, d}) BY <1>1
<1>7. \A c \in DOMAIN full : \E k \in DOMAIN block : c \in DOMAIN block[k].cols
  <2>1. \A c \in DOMAIN full : c \in {"list", "state", "err", "autostart"} BY FinalColumns
  <2> QED BY <1>2, <1>3, <1>4, <1>5, <2>1
<1>8. \A k \in DOMAIN block : Sent(block[k], x, full) BY <1>2, <1>3, <1>4, <1>5
<1> QED BY <1>6, <1>7, <1>8 DEF Sends

\* s writes full to each row of S, and nothing else.
SendsAll(s, S, full) ==
  (\E B : s \in Seq(B)) /\ Strokes(s, S, "downloads", full) /\ Paired(s)

LEMMA OneSent ==
  ASSUME NEW s, NEW x, NEW full, Sends(s, x, full), NEW B, s \in Seq(B)
  PROVE  SendsAll(s, {x}, full)
<1>1. \A n \in DOMAIN s : n > 0 OBVIOUS
<1>2. \A n \in DOMAIN s : Sent(s[n], x, full) BY DEF Sends
<1>3. Paired(s) BY <1>2 DEF Paired, Sent
<1>4. ASSUME NEW c \in DOMAIN full PROVE Writes(s, 0, "downloads", x, c)
  <2>1. PICK n \in DOMAIN s : c \in DOMAIN s[n].cols BY DEF Sends
  <2> QED BY <1>1, <1>2, <2>1 DEF Sent, Writes
<1>5. Strokes(s, {x}, "downloads", full) BY <1>2, <1>4 DEF Strokes, Sent
<1> QED BY <1>3, <1>5 DEF SendsAll

LEMMA AllSent ==
  ASSUME NEW S, IsFiniteSet(S), NEW order \in Seqs!SetToSeqs(S), NEW full,
         NEW B, NEW g, \A x \in S : g[x] \in Seq(B) /\ Sends(g[x], x, full),
         NEW b, b = [n \in DOMAIN order |-> g[order[n]]],
         NEW s, s = Seqs!FlattenSeq(b)
  PROVE  SendsAll(s, S, full)
<1>1. PICK z : z = s OBVIOUS
<1>2. z \in Seq(B) /\ Made(z, S, g) BY <1>1, ListingMade
<1>3. \A n \in DOMAIN z : n > 0 BY <1>2
<1>4. ASSUME NEW n \in DOMAIN z PROVE \E x \in S : Sent(z[n], x, full)
  <2>1. PICK x \in S : \E k \in DOMAIN g[x] : z[n] = g[x][k] BY <1>2 DEF Made
  <2>2. PICK k \in DOMAIN g[x] : z[n] = g[x][k] BY <2>1
  <2> QED BY <2>2 DEF Sends
<1>5. ASSUME NEW x \in S, NEW c \in DOMAIN full PROVE Writes(z, 0, "downloads", x, c)
  <2>1. Sends(g[x], x, full) OBVIOUS
  <2>2. PICK k \in DOMAIN g[x] : c \in DOMAIN g[x][k].cols BY <2>1 DEF Sends
  <2>3. Sent(g[x][k], x, full) BY <2>1 DEF Sends
  <2>4. PICK n \in DOMAIN z : z[n] = g[x][k] BY <1>2 DEF Made
  <2> QED BY <1>3, <2>2, <2>3, <2>4 DEF Sent, Writes
<1>6. Paired(z) BY <1>4 DEF Paired, Sent
<1>7. \A n \in DOMAIN z :
        /\ z[n].table = "downloads" /\ z[n].op = "update" /\ z[n].id \in S
        /\ \A c \in DOMAIN z[n].cols : c \in DOMAIN full /\ z[n].cols[c] = full[c]
  BY <1>4 DEF Sent
<1>8. Strokes(z, S, "downloads", full) BY <1>5, <1>7 DEF Strokes
<1>9. SendsAll(z, S, full) BY <1>2, <1>6, <1>8 DEF SendsAll
<1> QED BY <1>1, <1>9

LEMMA ConfirmedListed ==
  ASSUME NEW S, IsFiniteSet(S), NEW order \in Seqs!SetToSeqs(S), NEW start, NEW f, f = FALSE,
         NEW full, full = Final(start, f), NEW s,
         s = Seqs!FlattenSeq([n \in DOMAIN order |-> Confirmed(order[n], start)])
  PROVE  SendsAll(s, S, full)
<1>1. PICK g : g = [x \in S |-> Confirmed(x, start)] OBVIOUS
<1>2. \A n \in DOMAIN order : order[n] \in S BY OrderHolds
<1>3. PICK b : b = [n \in DOMAIN order |-> g[order[n]]] OBVIOUS
<1>4. b = [n \in DOMAIN order |-> Confirmed(order[n], start)] BY <1>1, <1>2, <1>3
<1> DEFINE B == UNION {{g[x][k] : k \in DOMAIN g[x]} : x \in S}
<1>5. ASSUME NEW x \in S PROVE g[x] \in Seq(B) /\ Sends(g[x], x, full)
  <2>1. PICK block : block = g[x] OBVIOUS
  <2>2. block = Confirmed(x, start) BY <1>1, <2>1
  <2>3. Sends(block, x, full) /\ \E C : block \in Seq(C) BY <2>2, ConfirmedSends
  <2>4. PICK C : block \in Seq(C) BY <2>3
  <2>5. \A k \in DOMAIN block : block[k] \in B BY <2>1
  <2> HIDE DEF B
  <2>6. block \in Seq(B) BY <2>4, <2>5, SeqOver
  <2> QED BY <2>1, <2>3, <2>6
<1> HIDE DEF B
<1>6. PICK z : z = s OBVIOUS
<1>7. z = Seqs!FlattenSeq(b) BY <1>4, <1>6
<1>8. \A x \in S : g[x] \in Seq(B) /\ Sends(g[x], x, full) BY <1>5
<1>9. SendsAll(z, S, full) BY <1>3, <1>7, <1>8, AllSent
<1> QED BY <1>6, <1>9

\* The packages P follow.
Follows(s, P) ==
  Listing(s, P, "packages", [list |-> "download"])

LEMMA FollowsListed ==
  ASSUME NEW S, IsFiniteSet(S), NEW order \in Seqs!SetToSeqs(S), NEW s,
         s = Seqs!FlattenSeq([n \in DOMAIN order |-> <<Listed("packages", order[n])>>])
  PROVE  Follows(s, S)
<1>1. PICK cols : cols = [list |-> "download"] OBVIOUS
<1>2. s = Seqs!FlattenSeq([n \in DOMAIN order |-> <<Update("packages", order[n], cols)>>])
  BY <1>1 DEF Listed
<1>3. Listing(s, S, "packages", cols) BY <1>2, StrokesListed
<1> QED BY <1>1, <1>3 DEF Follows

LEMMA OneFollows ==
  ASSUME NEW p, NEW s, s = <<Listed("packages", p)>> PROVE Follows(s, {p})
<1>1. PICK cols : cols = [list |-> "download"] OBVIOUS
<1>2. s = <<Update("packages", p, cols)>> BY <1>1 DEF Listed
<1>3. Listing(s, {p}, "packages", cols) BY <1>2, StrokeOne
<1> QED BY <1>1, <1>3 DEF Follows

LEMMA ConfirmedToQueue ==
  ASSUME NEW r \in Row, NEW start, NEW f, f = FALSE, NEW full, full = Final(start, f)
  PROVE  [r EXCEPT !.list = "download", !.state = "QUEUED", !.err = FALSE, !.autostart = start]
           = Overlay(full, r)
<1>1. ASSUME NEW g, g = f
      PROVE  [r EXCEPT !.list = "download", !.state = "QUEUED", !.err = g, !.autostart = start]
               = Overlay(full, r)
  <2>1. full = Final(start, g) BY <1>1
  <2> QED BY <2>1, ConfirmedOver
<1> QED BY <1>1

LEMMA ConfirmLinksPlan ==
  ASSUME Ready, Core, Departs,
         NEW S, S \subseteq DOMAIN items, NEW P, P \subseteq DOMAIN pkgs, NEW start,
         ConfirmLinks(S, P, start),
         \A p \in P : \A j \in DOMAIN items : StagedIn(j, p) => j \in S,
         NEW f, f = FALSE, NEW full, full = Final(start, f),
         NEW u, SendsAll(u, S, full), NEW v, Follows(v, P),
         NEW s, s = u \o v \/ s = v \o u
  PROVE  Plan(s)
<1>1. PICK B : u \in Seq(B) BY DEF SendsAll
<1>2. PICK cols : cols = [list |-> "download"] OBVIOUS
<1>3. Listing(v, P, "packages", cols) BY <1>2 DEF Follows
<1>4. PICK C : v \in Seq(C) BY <1>3 DEF Listing
<1>5. DOMAIN cols = {"list"} /\ cols["list"] = "download" BY <1>2
<1>6. /\ Strokes(u, S, "downloads", full) /\ Paired(u)
      /\ Strokes(v, P, "packages", cols)
  BY <1>3 DEF SendsAll, Listing
<1>7. S \subseteq DOMAIN rows /\ P \subseteq DOMAIN pkgRows BY DEF Core, GlobalOK
<1>8. Table(rows) /\ Table(pkgRows) /\ IsDisk(disk) BY DEF Ready, Flushed, DiskOK
<1>9. /\ rows' = [x \in DOMAIN rows |->
                    IF x \in S THEN [rows[x] EXCEPT !.list = "download", !.state = "QUEUED",
                                                   !.err = FALSE, !.autostart = start]
                    ELSE rows[x]]
      /\ pkgRows' = [x \in DOMAIN pkgRows |->
                       IF x \in P THEN [pkgRows[x] EXCEPT !.list = "download"] ELSE pkgRows[x]]
      /\ partial' = partial
  BY DEF ConfirmLinks, Each, machine
<1>10. rows' = [x \in DOMAIN rows |-> IF x \in S THEN Overlay(full, rows[x]) ELSE rows[x]]
  <2>1. ASSUME NEW x \in DOMAIN rows
        PROVE  [rows[x] EXCEPT !.list = "download", !.state = "QUEUED", !.err = FALSE,
                               !.autostart = start] = Overlay(full, rows[x])
    <3>1. PICK r \in Row : r = rows[x] BY DEF Ready, Loadable
    <3>2. [r EXCEPT !.list = "download", !.state = "QUEUED", !.err = FALSE, !.autostart = start]
            = Overlay(full, r)
      BY ConfirmedToQueue
    <3> QED BY <3>1, <3>2
  <2> QED BY <1>9, <2>1
<1>11. pkgRows' = [x \in DOMAIN pkgRows |-> IF x \in P THEN Overlay(cols, pkgRows[x]) ELSE pkgRows[x]]
  <2>1. \A x \in DOMAIN pkgRows : [pkgRows[x] EXCEPT !.list = "download"] = Overlay(cols, pkgRows[x])
    BY <1>2, PackageListOver DEF Ready, Loadable
  <2> QED BY <1>9, <2>1
<1>12. \A x \in S : rows[x] \in Row BY <1>7 DEF Ready, Loadable
<1>13. \A x \in S : DOMAIN full \subseteq DOMAIN rows[x]
  <2>1. \A x \in S : DOMAIN rows[x] = {"state", "err", "list", "pkg", "prio", "enabled",
                                       "autostart", "pos", "delegate"}
    BY <1>12, RowDomain
  <2>2. DOMAIN full = {"list", "state", "err", "autostart"} BY FinalColumns
  <2> QED BY <2>1, <2>2
<1>14. \A x \in P : DOMAIN cols \subseteq DOMAIN pkgRows[x]
  <2>1. \A x \in P : pkgRows[x] \in Package BY <1>7 DEF Ready, Loadable
  <2> QED BY <1>5, <2>1, PackageDomain
<1>15. Leads(u, 0, "downloads", rows, rows') BY <1>6, <1>7, <1>8, <1>10, <1>13, StrokesLead
<1>16. Leads(v, 0, "packages", pkgRows, pkgRows') BY <1>6, <1>7, <1>8, <1>11, <1>14, StrokesLead
<1>17. /\ \A n \in DOMAIN u : u[n].table = "downloads" /\ u[n].op = "update"
       /\ \A n \in DOMAIN v : v[n].table = "packages" /\ v[n].op = "update"
  BY <1>6 DEF Strokes
<1>18. Leads(s, 0, "downloads", rows, rows') /\ Leads(s, 0, "packages", pkgRows, pkgRows')
  <2>1. \A n \in DOMAIN u : u[n].table # "packages" BY <1>17
  <2>2. \A n \in DOMAIN v : v[n].table # "downloads" BY <1>17
  <2>3. Leads(u \o v, 0, "packages", pkgRows, pkgRows') /\ Leads(v \o u, 0, "packages", pkgRows, pkgRows')
    BY <1>1, <1>4, <1>16, <2>1, LeadsAmong
  <2>4. Leads(u \o v, 0, "downloads", rows, rows') /\ Leads(v \o u, 0, "downloads", rows, rows')
    BY <1>1, <1>4, <1>15, <2>2, LeadsAmong
  <2> QED BY <2>3, <2>4
<1>19. (Unites(s, u, v) \/ Unites(s, v, u)) /\ \E D : s \in Seq(D)
  <2>1. CASE s = u \o v BY <1>1, <1>4, <2>1, ConcatEntries, Concat
  <2>2. CASE s = v \o u BY <1>1, <1>4, <2>2, ConcatEntries, Concat
  <2> QED BY <2>1, <2>2
<1>20. \A n \in DOMAIN s : (\E m \in DOMAIN u : s[n] = u[m]) \/ \E m \in DOMAIN v : s[n] = v[m]
  BY <1>19 DEF Unites, Entries
<1>21. ASSUME NEW x \in S PROVE Writes(s, 0, "downloads", x, "list")
  <2>1. "list" \in DOMAIN full BY FinalColumns
  <2>2. Writes(u, 0, "downloads", x, "list") BY <1>6, <2>1 DEF Strokes
  <2>3. CASE s = u \o v BY <1>1, <1>4, <2>2, <2>3, ConcatPends
  <2>4. CASE s = v \o u BY <1>1, <1>4, <2>2, <2>4, ConcatPends
  <2> QED BY <2>3, <2>4
<1>22. ASSUME NEW n \in DOMAIN s PROVE Fits(s, n)' /\ Known(s[n]) /\ s[n].table # "parts"
  <2>0. PICK st : st = s[n] OBVIOUS
  <2>1. CASE \E m \in DOMAIN u : st = u[m]
    <3>1. /\ st.table = "downloads" /\ st.op = "update"
          /\ \A c \in DOMAIN st.cols : c \in DOMAIN full /\ st.cols[c] = full[c]
          /\ "state" \in DOMAIN st.cols <=> "err" \in DOMAIN st.cols
      BY <1>6, <2>1 DEF Strokes, Paired
    <3>2. /\ "list" \in DOMAIN st.cols => st.cols["list"] = "download"
          /\ "state" \in DOMAIN st.cols => st.cols["state"] = "QUEUED"
      BY <3>1, FinalColumns
    <3>5. st.id \in DOMAIN items' BY <1>6, <2>1 DEF Strokes, ConfirmLinks, Each
    <3>3. UpdateFits(s, n)' BY <2>0, <3>1, <3>2, <3>5 DEF UpdateFits
    <3>4. InsertFits(s, n)' /\ DeleteFits(s, n)' /\ PackageFits(s, n)' /\ PartFits(s, n)'
      BY <2>0, <3>1 DEF InsertFits, DeleteFits, PackageFits, PartFits
    <3> QED BY <2>0, <3>1, <3>3, <3>4 DEF Fits, Known
  <2>2. CASE \E m \in DOMAIN v : st = v[m]
    <3>1. st.table = "packages" /\ st.op = "update" /\ st.id \in P
      BY <1>6, <2>2 DEF Strokes
    <3>2. InsertFits(s, n)' /\ DeleteFits(s, n)' /\ UpdateFits(s, n)' /\ PartFits(s, n)'
      BY <2>0, <3>1 DEF InsertFits, DeleteFits, UpdateFits, PartFits
    <3>3. PackageFits(s, n)'
      <4>1. ASSUME NEW j, StagedIn(j, st.id)
            PROVE  Writes(s, 0, "downloads", j, "list") \/ st.id \in cut'
        <5>1. CASE j \in DOMAIN items BY <1>21, <3>1, <4>1, <5>1
        <5>2. CASE j \notin DOMAIN items
          <6>1. pkgs' = Each(pkgs, P, LAMBDA q : [q EXCEPT !.list = "download"])
            BY DEF ConfirmLinks
          <6>2. pkgs[st.id] \in Package BY <3>1 DEF Core, GlobalOK
          <6>3. pkgs'[st.id].list = "download" BY <3>1, <6>1, <6>2 DEF Each, Package
          <6> QED BY <3>1, <4>1, <5>2, <6>3, LeavesNoted DEF Ready
        <5> QED BY <5>1, <5>2
      <4>2. ASSUME NEW j, StagedIn(j, st.id)' PROVE StagedIn(j, st.id)
        BY <2>0, <4>2 DEF StagedIn, Ready
      <4> QED BY <2>0, <3>1, <4>1, <4>2 DEF PackageFits
    <3> QED BY <2>0, <3>1, <3>2, <3>3 DEF Fits, Known
  <2> QED BY <1>20, <2>0, <2>1, <2>2
<1>23. Unlinked(s, 0) = {} BY <1>22 DEF Unlinked
<1>24. Brings(s, 0, disk, rows', pkgRows', partial')
  BY <1>8, <1>9, <1>18, <1>22, <1>23 DEF Brings, Ready, Flushed
<1>25. ASSUME NEW i \in DOMAIN rows PROVE rows'[i].pkg = rows[i].pkg
  <2>1. CASE i \in S
    <3>1. rows'[i] = Overlay(full, rows[i]) BY <1>10, <2>1
    <3>2. "pkg" \in DOMAIN rows[i] /\ "pkg" \notin DOMAIN full BY <1>12, <2>1, RowDomain, FinalColumns
    <3>3. Overlay(full, rows[i])["pkg"] = rows[i]["pkg"] BY <3>2 DEF Overlay
    <3> QED BY <3>1, <3>3
  <2>2. CASE i \notin S BY <1>10, <2>2
  <2> QED BY <2>1, <2>2
<1> QED BY <1>19, <1>22, <1>24, <1>25 DEF Plan

LEMMA ConfirmAllPlan ==
  ASSUME Ready, Core, Departs, NEW start, ConfirmAll(start),
         NEW S, S = Staged, NEW P, P = StagedPackages,
         NEW one \in Seqs!SetToSeqs(P), NEW two \in Seqs!SetToSeqs(S),
         NEW v, v = Seqs!FlattenSeq([n \in DOMAIN one |-> <<Listed("packages", one[n])>>]),
         NEW u, u = Seqs!FlattenSeq([n \in DOMAIN two |-> Confirmed(two[n], start)]),
         NEW s, s = v \o u
  PROVE  Plan(s)
<1>1. PICK f : f = FALSE OBVIOUS
<1>2. PICK full : full = Final(start, f) OBVIOUS
<1>3. S \subseteq DOMAIN items /\ P \subseteq DOMAIN pkgs BY DEF Staged, StagedPackages
<1>4. IsFiniteSet(S) /\ IsFiniteSet(P) BY <1>3, RunningFinite, PackagesFinite, FS_Subset
<1>5. SendsAll(u, S, full) BY <1>1, <1>2, <1>4, ConfirmedListed
<1>6. Follows(v, P) BY <1>4, FollowsListed
<1>7. \A p \in P : \A j \in DOMAIN items : StagedIn(j, p) => j \in S BY ShownUnder DEF Ready
<1>8. ConfirmLinks(S, P, start) BY DEF ConfirmAll
<1>9. PICK z : z = s OBVIOUS
<1>10. z = u \o v \/ z = v \o u BY <1>9
<1>11. Plan(z) BY <1>1, <1>2, <1>3, <1>5, <1>6, <1>7, <1>8, <1>10, ConfirmLinksPlan
<1> QED BY <1>9, <1>11

LEMMA ConfirmPackagePlan ==
  ASSUME Ready, Core, Departs, NEW start, NEW p \in DOMAIN pkgs, ConfirmPackage(p, start),
         NEW S, S = Members(p) \cap Staged,
         NEW two \in Seqs!SetToSeqs(S),
         NEW v, v = <<Listed("packages", p)>>,
         NEW u, u = Seqs!FlattenSeq([n \in DOMAIN two |-> Confirmed(two[n], start)]),
         NEW s, s = v \o u
  PROVE  Plan(s)
<1>1. PICK f : f = FALSE OBVIOUS
<1>2. PICK full : full = Final(start, f) OBVIOUS
<1>3. PICK P : P = {p} OBVIOUS
<1>4. S \subseteq DOMAIN items /\ P \subseteq DOMAIN pkgs BY <1>3 DEF Staged
<1>5. IsFiniteSet(S) BY <1>4, RunningFinite, FS_Subset
<1>6. SendsAll(u, S, full) BY <1>1, <1>2, <1>5, ConfirmedListed
<1>7. Follows(v, P) BY <1>3, OneFollows
<1>8. \A q \in P : \A j \in DOMAIN items : StagedIn(j, q) => j \in S
  BY <1>3, ShownUnder DEF Ready
<1>9. ConfirmLinks(S, P, start) BY <1>3 DEF ConfirmPackage
<1>10. PICK z : z = s OBVIOUS
<1>11. z = u \o v \/ z = v \o u BY <1>10
<1>12. Plan(z) BY <1>1, <1>2, <1>4, <1>6, <1>7, <1>8, <1>9, <1>11, ConfirmLinksPlan
<1> QED BY <1>10, <1>12

LEMMA ConfirmLinkPlan ==
  ASSUME Ready, Core, Departs, NEW start, NEW i \in DOMAIN items, ConfirmLink(i, start),
         NEW P, P = Following(i),
         NEW one \in Seqs!SetToSeqs(P),
         NEW v, v = Seqs!FlattenSeq([n \in DOMAIN one |-> <<Listed("packages", one[n])>>]),
         NEW u, u = Confirmed(i, start),
         NEW s, s = u \o v
  PROVE  Plan(s)
<1>1. PICK f : f = FALSE OBVIOUS
<1>2. PICK full : full = Final(start, f) OBVIOUS
<1>3. PICK S : S = {i} OBVIOUS
<1>4. S \subseteq DOMAIN items /\ P \subseteq DOMAIN pkgs
  BY <1>3 DEF Following, StagedPackages
<1>5. IsFiniteSet(P) BY <1>4, PackagesFinite, FS_Subset
<1>6. SendsAll(u, S, full)
  <2>1. Sends(u, i, full) /\ \E B : u \in Seq(B) BY <1>1, <1>2, ConfirmedSends
  <2>2. PICK B : u \in Seq(B) BY <2>1
  <2>3. PICK w : w = u OBVIOUS
  <2>4. Sends(w, i, full) /\ w \in Seq(B) BY <2>1, <2>2, <2>3
  <2>5. SendsAll(w, {i}, full) BY <2>4, OneSent
  <2> QED BY <1>3, <2>3, <2>5
<1>7. Follows(v, P) BY <1>5, FollowsListed
<1>8. ASSUME NEW q \in P, NEW j \in DOMAIN items, StagedIn(j, q) PROVE j \in S
  <2>1. j \in Staged /\ j \in Members(q) BY <1>8, ShownUnder DEF Ready
  <2>2. Members(q) \cap Staged \subseteq {i} BY DEF Following
  <2> QED BY <1>3, <2>1, <2>2
<1>9. ConfirmLinks(S, P, start) BY <1>3 DEF ConfirmLink
<1>10. PICK z : z = s OBVIOUS
<1>11. z = u \o v \/ z = v \o u BY <1>10
<1>12. PICK w : w = u OBVIOUS
<1>13. (z = w \o v \/ z = v \o w) /\ SendsAll(w, S, full) BY <1>6, <1>11, <1>12
<1>14. Plan(z) BY <1>1, <1>2, <1>4, <1>7, <1>8, <1>9, <1>13, ConfirmLinksPlan
<1> QED BY <1>10, <1>14

LEMMA ConfirmsPlan ==
  ASSUME Ready, Core, Departs, NEW start, Confirms(start), NEW s, s = todo'
  PROVE  Plan(s)
<1>1. CASE /\ ConfirmAll(start)
           /\ \E one \in Seqs!SetToSeqs(StagedPackages) : \E two \in Seqs!SetToSeqs(Staged) :
                todo' = Seqs!FlattenSeq([n \in DOMAIN one |-> <<Listed("packages", one[n])>>])
                          \o Seqs!FlattenSeq([n \in DOMAIN two |-> Confirmed(two[n], start)])
  <2>1. PICK P : P = StagedPackages OBVIOUS
  <2>2. PICK S : S = Staged OBVIOUS
  <2>3. PICK one \in Seqs!SetToSeqs(P) : \E two \in Seqs!SetToSeqs(S) :
          todo' = Seqs!FlattenSeq([n \in DOMAIN one |-> <<Listed("packages", one[n])>>])
                    \o Seqs!FlattenSeq([n \in DOMAIN two |-> Confirmed(two[n], start)])
    BY <1>1, <2>1, <2>2
  <2>4. PICK two \in Seqs!SetToSeqs(S) :
          todo' = Seqs!FlattenSeq([n \in DOMAIN one |-> <<Listed("packages", one[n])>>])
                    \o Seqs!FlattenSeq([n \in DOMAIN two |-> Confirmed(two[n], start)])
    BY <2>3
  <2>5. PICK v : v = Seqs!FlattenSeq([n \in DOMAIN one |-> <<Listed("packages", one[n])>>]) OBVIOUS
  <2>6. PICK u : u = Seqs!FlattenSeq([n \in DOMAIN two |-> Confirmed(two[n], start)]) OBVIOUS
  <2>7. s = v \o u BY <2>4, <2>5, <2>6
  <2>8. PICK z : z = s OBVIOUS
  <2>9. z = v \o u BY <2>7, <2>8
  <2>10. Plan(z) BY <1>1, <2>1, <2>2, <2>5, <2>6, <2>9, ConfirmAllPlan
  <2> QED BY <2>8, <2>10
<1>2. ASSUME NEW p \in DOMAIN pkgs, ConfirmPackage(p, start),
             \E two \in Seqs!SetToSeqs(Members(p) \cap Staged) :
               todo' = <<Listed("packages", p)>>
                         \o Seqs!FlattenSeq([n \in DOMAIN two |-> Confirmed(two[n], start)])
      PROVE  Plan(s)
  <2>1. PICK S : S = Members(p) \cap Staged OBVIOUS
  <2>2. PICK two \in Seqs!SetToSeqs(S) :
          todo' = <<Listed("packages", p)>>
                    \o Seqs!FlattenSeq([n \in DOMAIN two |-> Confirmed(two[n], start)])
    BY <1>2, <2>1
  <2>3. PICK v : v = <<Listed("packages", p)>> OBVIOUS
  <2>4. PICK u : u = Seqs!FlattenSeq([n \in DOMAIN two |-> Confirmed(two[n], start)]) OBVIOUS
  <2>5. PICK z : z = s OBVIOUS
  <2>6. z = v \o u BY <2>2, <2>3, <2>4, <2>5
  <2>7. Plan(z) BY <1>2, <2>1, <2>3, <2>4, <2>6, ConfirmPackagePlan
  <2> QED BY <2>5, <2>7
<1>3. ASSUME NEW i \in DOMAIN items, ConfirmLink(i, start),
             \E one \in Seqs!SetToSeqs(Following(i)) :
               todo' = Confirmed(i, start)
                         \o Seqs!FlattenSeq([n \in DOMAIN one |-> <<Listed("packages", one[n])>>])
      PROVE  Plan(s)
  <2>1. PICK P : P = Following(i) OBVIOUS
  <2>2. PICK one \in Seqs!SetToSeqs(P) :
          todo' = Confirmed(i, start)
                    \o Seqs!FlattenSeq([n \in DOMAIN one |-> <<Listed("packages", one[n])>>])
    BY <1>3, <2>1
  <2>3. PICK v : v = Seqs!FlattenSeq([n \in DOMAIN one |-> <<Listed("packages", one[n])>>]) OBVIOUS
  <2>4. PICK u : u = Confirmed(i, start) OBVIOUS
  <2>5. PICK z : z = s OBVIOUS
  <2>6. z = u \o v BY <2>2, <2>3, <2>4, <2>5
  <2>7. Plan(z) BY <1>3, <2>1, <2>3, <2>4, <2>6, ConfirmLinkPlan
  <2> QED BY <2>5, <2>7
<1>4. \/ /\ ConfirmAll(start)
         /\ \E one \in Seqs!SetToSeqs(StagedPackages) : \E two \in Seqs!SetToSeqs(Staged) :
              todo' = Seqs!FlattenSeq([n \in DOMAIN one |-> <<Listed("packages", one[n])>>])
                        \o Seqs!FlattenSeq([n \in DOMAIN two |-> Confirmed(two[n], start)])
      \/ \E p \in DOMAIN pkgs :
           /\ ConfirmPackage(p, start)
           /\ \E two \in Seqs!SetToSeqs(Members(p) \cap Staged) :
                todo' = <<Listed("packages", p)>>
                          \o Seqs!FlattenSeq([n \in DOMAIN two |-> Confirmed(two[n], start)])
      \/ \E i \in DOMAIN items :
           /\ ConfirmLink(i, start)
           /\ \E one \in Seqs!SetToSeqs(Following(i)) :
                todo' = Confirmed(i, start)
                          \o Seqs!FlattenSeq([n \in DOMAIN one |-> <<Listed("packages", one[n])>>])
  BY Zenon DEF Confirms, InListOrder, Issues
<1> QED BY <1>1, <1>2, <1>3, <1>4

---------------------------------------------------------------------------
(* The verbs that insert *)

LEMMA RowsTable ==
  ASSUME NEW f, f = [x \in DOMAIN f |-> f[x]],
         (\A x \in DOMAIN f : f[x] \in Row) \/ \A x \in DOMAIN f : f[x] \in Package
  PROVE  Table(f)
<1>1. \A r \in Row : r = [c \in DOMAIN r |-> r[c]] BY DEF Row
<1>2. \A r \in Package : r = [c \in DOMAIN r |-> r[c]] BY DEF Package
<1> QED BY <1>1, <1>2 DEF Table

LEMMA InsertsLead ==
  ASSUME NEW s, NEW t, NEW f, Table(f), NEW F, Table(F),
         \A n \in DOMAIN s : s[n].table = t =>
           s[n].op = "insert" /\ s[n].id \in DOMAIN F /\ s[n].cols = F[s[n].id],
         DOMAIN f \subseteq DOMAIN F,
         \A x \in DOMAIN F : (x \in DOMAIN f /\ F[x] = f[x]) \/ Pends(s, 0, t, "insert", x)
  PROVE  Leads(s, 0, t, f, F)
<1>1. \A n \in DOMAIN s : s[n].table = t => Toward(s[n], F) BY DEF Toward
<1> QED BY <1>1 DEF Leads

\* Rows and packages that are inserted, a package before its links.
InsertsAll(s, f, g) ==
  /\ \A n \in DOMAIN s :
       /\ s[n].op = "insert"
       /\ \/ s[n].table = "downloads" /\ s[n].id \in DOMAIN f /\ s[n].cols = f[s[n].id]
          \/ s[n].table = "packages" /\ s[n].id \in DOMAIN g /\ s[n].cols = g[s[n].id]
       /\ s[n].table = "downloads" /\ s[n].cols.list = "linkgrabber" =>
            Prior(s, n, "packages", "insert", s[n].cols.pkg)
       /\ s[n].table = "packages" => s[n].cols.list = "linkgrabber"

\* F is f, but for what s inserts.
Extends(s, t, f, F) ==
  /\ DOMAIN f \subseteq DOMAIN F /\ F = [x \in DOMAIN F |-> F[x]]
  /\ \A x \in DOMAIN f : F[x] = f[x]
  /\ \A x \in DOMAIN F \ DOMAIN f : Pends(s, 0, t, "insert", x)

LEMMA InsertPlan ==
  ASSUME Ready, Core, NEW B, NEW s \in Seq(B), NEW f, NEW g, f = rows', g = pkgRows',
         InsertsAll(s, f, g), Extends(s, "downloads", rows, f), Extends(s, "packages", pkgRows, g),
         partial' = partial
  PROVE  Plan(s)
<1>1. Table(rows) /\ Table(pkgRows) /\ IsDisk(disk) BY DEF Ready, Flushed, DiskOK
<1>2. (\A x \in DOMAIN f : f[x] \in Row) /\ \A x \in DOMAIN g : g[x] \in Package
  BY DEF Ready, Loadable
<1>3. Table(f) /\ Table(g) BY <1>2, RowsTable DEF Extends
<1>4. Leads(s, 0, "downloads", rows, f)
  <2>1. \A n \in DOMAIN s : s[n].table = "downloads" =>
          s[n].op = "insert" /\ s[n].id \in DOMAIN f /\ s[n].cols = f[s[n].id]
    BY DEF InsertsAll
  <2>2. DOMAIN rows \subseteq DOMAIN f BY DEF Extends
  <2>3. \A x \in DOMAIN f :
          (x \in DOMAIN rows /\ f[x] = rows[x]) \/ Pends(s, 0, "downloads", "insert", x)
    BY DEF Extends
  <2> QED BY <1>1, <1>3, <2>1, <2>2, <2>3, InsertsLead
<1>5. Leads(s, 0, "packages", pkgRows, g)
  <2>1. \A n \in DOMAIN s : s[n].table = "packages" =>
          s[n].op = "insert" /\ s[n].id \in DOMAIN g /\ s[n].cols = g[s[n].id]
    BY DEF InsertsAll
  <2>2. DOMAIN pkgRows \subseteq DOMAIN g BY DEF Extends
  <2>3. \A x \in DOMAIN g :
          (x \in DOMAIN pkgRows /\ g[x] = pkgRows[x]) \/ Pends(s, 0, "packages", "insert", x)
    BY DEF Extends
  <2> QED BY <1>1, <1>3, <2>1, <2>2, <2>3, InsertsLead
<1>6. \A n \in DOMAIN s : Known(s[n]) /\ s[n].table # "parts" BY DEF InsertsAll, Known
<1>7. Unlinked(s, 0) = {} BY <1>6 DEF Unlinked
<1>8. Brings(s, 0, disk, rows', pkgRows', partial')
  BY <1>1, <1>4, <1>5, <1>6, <1>7 DEF Brings, Ready, Flushed
<1>9. ASSUME NEW n \in DOMAIN s PROVE Fits(s, n)'
  <2>1. s[n].op = "insert" BY DEF InsertsAll
  <2>2. InsertFits(s, n)' BY DEF InsertsAll, InsertFits, Prior
  <2>3. UpdateFits(s, n)' /\ DeleteFits(s, n)' BY <2>1 DEF UpdateFits, DeleteFits
  <2>4. PackageFits(s, n)' BY <2>1 DEF PackageFits, InsertsAll
  <2>5. PartFits(s, n)' BY <1>6 DEF PartFits
  <2> QED BY <2>2, <2>3, <2>4, <2>5 DEF Fits
<1>10. \A i \in DOMAIN rows \cap DOMAIN rows' : rows'[i].pkg = rows[i].pkg BY DEF Extends
<1> QED BY <1>8, <1>9, <1>10 DEF Plan

LEMMA AddPlan ==
  ASSUME Ready, Core, NEW d, Add(d), NEW s, s = <<Insert("downloads", nextId, rows'[nextId])>>
  PROVE  Plan(s)
<1>1. PICK row : row = NewRow("download", 0, nextPos, d) OBVIOUS
<1>2. /\ rows' = [i \in DOMAIN rows \cup {nextId} |-> IF i = nextId THEN row ELSE rows[i]]
      /\ pkgRows' = pkgRows /\ partial' = partial
  BY <1>1 DEF Add, packages, machine
<1>3. nextId \notin DOMAIN rows
  <2>1. nextId \in Int BY DEF Core, GlobalOK
  <2>2. \A i \in DOMAIN rows : i < nextId BY DEF Core, GlobalOK
  <2> QED BY <2>1, <2>2
<1>4. row.list = "download" BY <1>1 DEF NewRow
<1>5. PICK f : f = rows' OBVIOUS
<1>6. PICK g : g = pkgRows' OBVIOUS
<1>7. /\ DOMAIN f = DOMAIN rows \cup {nextId} /\ f[nextId] = row
      /\ \A x \in DOMAIN rows : f[x] = rows[x]
      /\ f = [x \in DOMAIN f |-> f[x]]
  BY <1>2, <1>3, <1>5
<1>8. PICK st : st = Insert("downloads", nextId, row) OBVIOUS
<1>9. PICK z : z = s OBVIOUS
<1>10. z = <<st>> BY <1>5, <1>7, <1>8, <1>9
<1>11. st.table = "downloads" /\ st.op = "insert" /\ st.id = nextId /\ st.cols = row
  BY <1>8 DEF Insert
<1>12. DOMAIN z = {1} /\ z[1] = st /\ z \in Seq({st}) /\ 1 > 0 BY <1>10
<1>13. InsertsAll(z, f, g) BY <1>4, <1>7, <1>11, <1>12 DEF InsertsAll
<1>14. Extends(z, "downloads", rows, f) BY <1>7, <1>11, <1>12 DEF Extends, Pends
<1>15. Extends(z, "packages", pkgRows, g)
  <2>1. pkgRows = [x \in DOMAIN pkgRows |-> pkgRows[x]] BY DEF Ready, Flushed, DiskOK, Table
  <2> QED BY <1>2, <1>6, <2>1 DEF Extends
<1>16. Plan(z) BY <1>2, <1>5, <1>6, <1>12, <1>13, <1>14, <1>15, InsertPlan
<1> QED BY <1>9, <1>16

LEMMA GrabPlan ==
  ASSUME Ready, Core, NEW k \in Nat, Grab(k), NEW s,
         s = <<PkgInsert(nextPkg, pkgRows'[nextPkg])>>
               \o [n \in 1 .. (nextId' - nextId) |->
                     Insert("downloads", nextId + n - 1, rows'[nextId + n - 1])]
  PROVE  Plan(s)
<1>1. PICK pkg : pkg = [list |-> "linkgrabber", prio |-> DEFAULT, pos |-> nextPos] OBVIOUS
<1>2. PICK n \in Nat : \E at, d : GrabInto(pkg, k, n, at, d) BY <1>1 DEF Grab
<1>3. PICK at, d : GrabInto(pkg, k, n, at, d) BY <1>2
<1>4. PICK rowOf : rowOf = [i \in NewIds(n) |-> NewRow("linkgrabber", nextPkg, at[i], d[i])]
  OBVIOUS
<1>5. /\ rows' = [i \in DOMAIN rows \cup NewIds(n) |->
                    IF i \in NewIds(n) THEN rowOf[i] ELSE rows[i]]
      /\ pkgRows' = [p \in DOMAIN pkgRows \cup {nextPkg} |->
                       IF p = nextPkg THEN pkg ELSE pkgRows[p]]
      /\ nextId' = nextId + n /\ partial' = partial
  BY <1>3, <1>4 DEF GrabInto, machine
<1>6. nextId \in Int /\ nextPkg \in Int BY DEF Core, GlobalOK
<1>7. \A i \in DOMAIN rows : i \in Int /\ i < nextId BY DEF Core, GlobalOK, LinkOK, Typed, Links
<1>8. \A p \in DOMAIN pkgRows : p \in Int /\ p < nextPkg BY DEF Core, GlobalOK, Packages
<1>9. NewIds(n) = nextId .. (nextId + n - 1) BY DEF NewIds
<1>10. \A i \in DOMAIN rows : i \notin NewIds(n) BY <1>6, <1>7, <1>9
<1>11. \A i \in NewIds(n) : rowOf[i].list = "linkgrabber" /\ rowOf[i].pkg = nextPkg
  BY <1>4 DEF NewRow
<1>12. pkg.list = "linkgrabber" BY <1>1
<1>13. PICK f : f = rows' OBVIOUS
<1>14. PICK g : g = pkgRows' OBVIOUS
<1>15. /\ DOMAIN f = DOMAIN rows \cup NewIds(n)
       /\ \A x \in NewIds(n) : f[x] = rowOf[x]
       /\ \A x \in DOMAIN rows : f[x] = rows[x]
       /\ f = [x \in DOMAIN f |-> f[x]]
  BY <1>5, <1>10, <1>13
<1>16. /\ DOMAIN g = DOMAIN pkgRows \cup {nextPkg} /\ g[nextPkg] = pkg
       /\ \A x \in DOMAIN pkgRows : g[x] = pkgRows[x]
       /\ g = [x \in DOMAIN g |-> g[x]]
  <2>1. nextPkg \notin DOMAIN pkgRows BY <1>6, <1>8
  <2> QED BY <1>5, <1>14, <2>1
<1>17. PICK st : st = PkgInsert(nextPkg, pkg) OBVIOUS
<1>18. st.table = "packages" /\ st.op = "insert" /\ st.id = nextPkg /\ st.cols = pkg
  BY <1>17 DEF PkgInsert, Insert
<1>19. PICK u : u = <<st>> OBVIOUS
<1>20. PICK v : v = [m \in 1 .. n |-> Insert("downloads", nextId + m - 1, f[nextId + m - 1])] OBVIOUS
<1>21. nextId' - nextId = n BY <1>5, <1>6
<1>22. s = u \o v
  <2>1. u = <<PkgInsert(nextPkg, pkgRows'[nextPkg])>> BY <1>14, <1>16, <1>17, <1>19
  <2>2. v = [m \in 1 .. (nextId' - nextId) |->
               Insert("downloads", nextId + m - 1, rows'[nextId + m - 1])]
    BY <1>13, <1>20, <1>21
  <2> QED BY <2>1, <2>2
<1>23. PICK z : z = s OBVIOUS
<1>24. DOMAIN u = {1} /\ u[1] = st /\ u \in Seq({st}) /\ Len(u) = 1 BY <1>19
<1>25. \A m \in 1 .. n : /\ v[m].table = "downloads" /\ v[m].op = "insert"
                         /\ v[m].id = nextId + m - 1 /\ v[m].cols = f[nextId + m - 1]
  BY <1>20 DEF Insert
<1>26. PICK C : C = {v[m] : m \in 1 .. n} OBVIOUS
<1>27. v \in Seq(C) /\ DOMAIN v = 1 .. n
  <2>1. v = [m \in 1 .. n |-> v[m]] BY <1>20
  <2>2. v \in [1 .. n -> C] BY <1>26, <2>1
  <2> QED BY <2>1, <2>2
<1>28. /\ z \in Seq({st} \cup C)
       /\ 1 \in DOMAIN z /\ z[1] = st
       /\ \A m \in 1 .. n : 1 + m \in DOMAIN z /\ z[1 + m] = v[m] /\ 1 + m > 0
       /\ \A m \in DOMAIN z : z[m] = st \/ (m - 1 \in 1 .. n /\ z[m] = v[m - 1] /\ m > 1)
  <2>1. z = u \o v BY <1>22, <1>23
  <2>0. PICK A : A = {st} OBVIOUS
  <2>3. u \in Seq(A) /\ v \in Seq(C) BY <1>24, <1>27, <2>0
  <2>2. /\ z \in Seq(A \cup C)
        /\ \A m \in DOMAIN u : m \in DOMAIN z /\ z[m] = u[m] /\ m > 0
        /\ \A m \in DOMAIN v : /\ Len(u) + m \in DOMAIN z /\ z[Len(u) + m] = v[m]
                               /\ m > 0 /\ Len(u) + m > 0
        /\ \A m \in DOMAIN z : \/ m \in DOMAIN u /\ z[m] = u[m]
                               \/ /\ m - Len(u) \in DOMAIN v /\ z[m] = v[m - Len(u)]
                                  /\ m > Len(u)
    BY <2>1, <2>3, Concat
  <2> QED BY <1>24, <1>27, <2>0, <2>2
<1>29. \A m \in 1 .. n : nextId + m - 1 \in NewIds(n) BY <1>6, <1>9
<1>30. ASSUME NEW m \in DOMAIN z
       PROVE  /\ z[m].op = "insert"
              /\ \/ z[m].table = "downloads" /\ z[m].id \in DOMAIN f /\ z[m].cols = f[z[m].id]
                 \/ z[m].table = "packages" /\ z[m].id \in DOMAIN g /\ z[m].cols = g[z[m].id]
              /\ z[m].table = "downloads" /\ z[m].cols.list = "linkgrabber" =>
                   Prior(z, m, "packages", "insert", z[m].cols.pkg)
              /\ z[m].table = "packages" => z[m].cols.list = "linkgrabber"
  <2>1. CASE z[m] = st BY <1>12, <1>16, <1>18, <2>1
  <2>2. CASE m - 1 \in 1 .. n /\ z[m] = v[m - 1] /\ m > 1
    <3>1. PICK x : x = nextId + (m - 1) - 1 OBVIOUS
    <3>2. /\ z[m].table = "downloads" /\ z[m].op = "insert" /\ z[m].id = x /\ z[m].cols = f[x]
          /\ x \in NewIds(n)
      BY <1>25, <1>29, <2>2, <3>1
    <3>3. z[m].cols.pkg = nextPkg BY <1>11, <1>15, <3>2
    <3>4. Prior(z, m, "packages", "insert", nextPkg) BY <1>18, <1>28, <2>2 DEF Prior
    <3> QED BY <1>15, <3>2, <3>3, <3>4
  <2> QED BY <1>28, <2>1, <2>2
<1>31. InsertsAll(z, f, g) BY <1>30 DEF InsertsAll
<1>32. ASSUME NEW x \in NewIds(n) PROVE Pends(z, 0, "downloads", "insert", x)
  <2>1. PICK m : m = x - nextId + 1 OBVIOUS
  <2>2. m \in 1 .. n /\ nextId + m - 1 = x BY <1>6, <1>9, <2>1
  <2>3. v[m].table = "downloads" /\ v[m].op = "insert" /\ v[m].id = x BY <1>25, <2>2
  <2> QED BY <1>28, <2>2, <2>3 DEF Pends
<1>33. Extends(z, "downloads", rows, f) BY <1>15, <1>32 DEF Extends
<1>34. Pends(z, 0, "packages", "insert", nextPkg)
  <2>1. 1 > 0 OBVIOUS
  <2> QED BY <1>18, <1>28, <2>1 DEF Pends
<1>35. Extends(z, "packages", pkgRows, g) BY <1>16, <1>34 DEF Extends
<1>36. Plan(z) BY <1>5, <1>13, <1>14, <1>28, <1>31, <1>33, <1>35, InsertPlan
<1> QED BY <1>23, <1>36

LEMMA AddsPlan ==
  ASSUME Ready, Core, Adds, NEW s, s = todo'
  PROVE  Plan(s)
<1>1. CASE AddFails /\ Issues(<<>>)
  <2>1. s = <<>> BY <1>1 DEF Issues
  <2>2. Plan(<<>>) BY <1>1, NoStatementPlan
  <2> QED BY <2>1, <2>2
<1>2. ASSUME NEW d \in Delegates, Add(d), Issues(<<Insert("downloads", nextId, rows'[nextId])>>)
      PROVE  Plan(s)
  <2>1. s = <<Insert("downloads", nextId, rows'[nextId])>> BY <1>2 DEF Issues
  <2>2. PICK z : z = s OBVIOUS
  <2>3. z = <<Insert("downloads", nextId, rows'[nextId])>> BY <2>1, <2>2
  <2>4. Plan(z) BY <1>2, <2>3, AddPlan
  <2> QED BY <2>2, <2>4
<1>3. ASSUME NEW k \in 1 .. MaxGrab, Grab(k),
             Issues(<<PkgInsert(nextPkg, pkgRows'[nextPkg])>>
                      \o [n \in 1 .. (nextId' - nextId) |->
                            Insert("downloads", nextId + n - 1, rows'[nextId + n - 1])])
      PROVE  Plan(s)
  <2>1. s = <<PkgInsert(nextPkg, pkgRows'[nextPkg])>>
              \o [n \in 1 .. (nextId' - nextId) |->
                    Insert("downloads", nextId + n - 1, rows'[nextId + n - 1])]
    BY <1>3 DEF Issues
  <2>2. PICK z : z = s OBVIOUS
  <2>3. z = <<PkgInsert(nextPkg, pkgRows'[nextPkg])>>
              \o [n \in 1 .. (nextId' - nextId) |->
                    Insert("downloads", nextId + n - 1, rows'[nextId + n - 1])]
    BY <2>1, <2>2
  <2>4. k \in Nat OBVIOUS
  <2>5. Plan(z) BY <1>3, <2>3, <2>4, GrabPlan
  <2> QED BY <2>2, <2>5
<1> QED BY <1>1, <1>2, <1>3 DEF Adds

LEMMA LgRemovesPlan ==
  ASSUME Ready, Core, Departs, LgRemoves, NEW s, s = todo'
  PROVE  Plan(s)
<1>1. CASE /\ LgRemoveAll
           /\ \E first \in InListOrder(Staged, LgLinkRows),
                 then \in InListOrder(StagedPackages, LAMBDA p : <<Delete("packages", p)>>) :
                Issues(first \o then)
  <2>1. PICK u \in InListOrder(Staged, LgLinkRows),
             v \in InListOrder(StagedPackages, LAMBDA p : <<Delete("packages", p)>>) :
               Issues(u \o v)
    BY <1>1
  <2>2. IsFiniteSet(DOMAIN items) /\ IsFiniteSet(DOMAIN pkgs) BY RunningFinite, PackagesFinite
  <2>3. Plan(u \o v) BY <1>1, <2>2, LgRemoveAllPlan
  <2> QED BY <2>1, <2>3 DEF Issues
<1>2. ASSUME NEW p \in DOMAIN pkgs, LgRemovePackage(p), NEW t \in LgPackageStmts(p), Issues(t)
      PROVE  Plan(s)
  <2>1. t = s BY <1>2 DEF Issues
  <2>2. Plan(t) BY <1>2, LgRemovePackagePlan
  <2> QED BY <2>1, <2>2
<1>3. ASSUME NEW i \in DOMAIN items, LgRemoveLink(i), Issues(LgLinkRows(i) \o Drop(i, {i}))
      PROVE  Plan(s)
  <2>1. s = LgLinkRows(i) \o Drop(i, {i}) BY <1>3 DEF Issues
  <2>2. PICK z : z = s OBVIOUS
  <2>3. z = LgLinkRows(i) \o Drop(i, {i}) BY <2>1, <2>2
  <2>4. Plan(z) BY <1>3, <2>3, LgRemoveLinkPlan
  <2> QED BY <2>2, <2>4
<1> QED BY <1>1, <1>2, <1>3 DEF LgRemoves

LEMMA RemovesPlan ==
  ASSUME Ready, Core, Departs, Removes, NEW s, s = todo'
  PROVE  Plan(s)
<1>1. ASSUME NEW i \in DOMAIN items, Remove(i),
             Issues(IF i \in Running THEN <<>> ELSE PartThenRow(i) \o Drop(i, {i}))
      PROVE  Plan(s)
  <2>1. CASE i \in Running
    <3>1. s = <<>> BY <1>1, <2>1 DEF Issues
    <3>2. Plan(<<>>) BY <1>1, <2>1, NoStatementPlan
    <3> QED BY <3>1, <3>2
  <2>2. CASE i \notin Running
    <3>1. s = PartThenRow(i) \o Drop(i, {i}) BY <1>1, <2>2 DEF Issues
    <3>2. PICK z : z = s OBVIOUS
    <3>3. z = PartThenRow(i) \o Drop(i, {i}) BY <3>1, <3>2
    <3>4. Plan(z) BY <1>1, <2>2, <3>3, RemovePlan
    <3> QED BY <3>2, <3>4
  <2> QED BY <2>1, <2>2
<1>2. ASSUME NEW p \in DOMAIN pkgs, PkgRemove(p),
             NEW u \in InListOrder(Members(p) \ Running, PartThenRow),
             Issues(u \o (IF p \in DOMAIN pkgs' THEN <<>> ELSE <<Delete("packages", p)>>))
      PROVE  Plan(s)
  <2>1. s = u \o (IF p \in DOMAIN pkgs' THEN <<>> ELSE <<Delete("packages", p)>>)
    BY <1>2 DEF Issues
  <2>2. PICK z : z = s OBVIOUS
  <2>3. z = u \o (IF p \in DOMAIN pkgs' THEN <<>> ELSE <<Delete("packages", p)>>)
    BY <2>1, <2>2
  <2>4. Plan(z) BY <1>2, <2>3, PkgRemovePlan
  <2> QED BY <2>2, <2>4
<1>3. ASSUME ClearFinished, NEW t \in Cleared(IdleIn("DONE"), [i \in Links |-> LgLinkRows(i)]),
             Issues(t)
      PROVE  Plan(s)
  <2>1. t = s BY <1>3 DEF Issues
  <2>2. Plan(t) BY <1>3, ClearFinishedPlan
  <2> QED BY <2>1, <2>2
<1>4. ASSUME ClearFailed, NEW t \in Cleared(IdleIn("ERROR"), [i \in Links |-> PartThenRow(i)]),
             Issues(t)
      PROVE  Plan(s)
  <2>1. t = s BY <1>4 DEF Issues
  <2>2. Plan(t) BY <1>4, ClearFailedPlan
  <2> QED BY <2>1, <2>2
<1> QED BY <1>1, <1>2, <1>3, <1>4 DEF Removes

LEMMA ScopesListed == ASSUME NEW S \in Scopes PROVE S \subseteq DOMAIN items
BY DEF Scopes, Members

LEMMA SetsPlan ==
  ASSUME Ready, Core, Sets, NEW s, s = todo'
  PROVE  Plan(s)
<1>1. ASSUME NEW i \in DOMAIN items, Pause(i),
             Issues(IF items[i].state = "QUEUED" THEN <<State(i, "PAUSED", FALSE)>> ELSE <<>>)
      PROVE  Plan(s)
  <2>1. s = IF items[i].state = "QUEUED" THEN <<State(i, "PAUSED", FALSE)>> ELSE <<>>
    BY <1>1 DEF Issues
  <2>2. PICK z : z = s OBVIOUS
  <2>3. z = IF items[i].state = "QUEUED" THEN <<State(i, "PAUSED", FALSE)>> ELSE <<>>
    BY <2>1, <2>2
  <2>4. Plan(z) BY <1>1, <2>3, PausePlan
  <2> QED BY <2>2, <2>4
<1>2. ASSUME NEW i \in DOMAIN items, Resume(i), Issues(Requeued(i)) PROVE Plan(s)
  <2>1. Plan(Requeued(i)) BY <1>2, ResumePlan
  <2>2. s = Requeued(i) BY <1>2 DEF Issues
  <2> QED BY <2>1, <2>2
<1>3. ASSUME NEW i \in DOMAIN items, NEW v \in Priorities, SetPriority(i, v),
             Issues(<<Priority("downloads", i, v)>>)
      PROVE  Plan(s)
  <2>1. Plan(<<Priority("downloads", i, v)>>) BY <1>3, SetPriorityPlan
  <2>2. s = <<Priority("downloads", i, v)>> BY <1>3 DEF Issues
  <2> QED BY <2>1, <2>2
<1>4. ASSUME NEW p \in DOMAIN pkgs, NEW v \in Priorities, PkgUpdate(p, v),
             Issues(<<Priority("packages", p, v)>>)
      PROVE  Plan(s)
  <2>1. Plan(<<Priority("packages", p, v)>>) BY <1>4, PkgUpdatePlan
  <2>2. s = <<Priority("packages", p, v)>> BY <1>4 DEF Issues
  <2> QED BY <2>1, <2>2
<1>5. ASSUME NEW p \in DOMAIN pkgs, NEW v \in Priorities, SetPackagePriority(p, v),
             NEW w \in InListOrder(Members(p), LAMBDA i : <<Priority("downloads", i, v)>>),
             Issues(<<Priority("packages", p, v)>> \o w)
      PROVE  Plan(s)
  <2>1. Plan(<<Priority("packages", p, v)>> \o w) BY <1>5, SetPackagePriorityPlan
  <2>2. s = <<Priority("packages", p, v)>> \o w BY <1>5 DEF Issues
  <2> QED BY <2>1, <2>2
<1>6. ASSUME NEW S \in Scopes, NEW on \in Toggles, SetEnabled(S, on),
             NEW t \in InListOrder(S, LAMBDA i : <<Update("downloads", i, [enabled |-> on])>>),
             Issues(t)
      PROVE  Plan(s)
  <2>1. S \subseteq DOMAIN items BY ScopesListed
  <2>2. Plan(t) BY <1>6, <2>1, EnabledPlan DEF InListOrder
  <2> QED BY <1>6, <2>2 DEF Issues
<1>7. ASSUME NEW S \in Scopes, NEW on \in Toggles, SetAutostart(S, on),
             NEW t \in InListOrder(S, LAMBDA i : <<Update("downloads", i, [autostart |-> on])>>),
             Issues(t)
      PROVE  Plan(s)
  <2>1. S \subseteq DOMAIN items BY ScopesListed
  <2>2. Plan(t) BY <1>7, <2>1, AutostartPlan DEF InListOrder
  <2> QED BY <1>7, <2>2 DEF Issues
<1>8. ASSUME NEW S \in Scopes, ForceStart(S),
             NEW t \in InListOrder(S \ Staged, LAMBDA i :
                         <<Update("downloads", i, [enabled |-> TRUE])>> \o Requeued(i)),
             Issues(t)
      PROVE  Plan(s)
  <2>1. S \subseteq DOMAIN items BY ScopesListed
  <2>2. Plan(t) BY <1>8, <2>1, ForcePlan
  <2> QED BY <1>8, <2>2 DEF Issues
<1> QED BY <1>1, <1>2, <1>3, <1>4, <1>5, <1>6, <1>7, <1>8 DEF Sets

LEMMA ReordersPlan ==
  ASSUME Ready, Core, Reorders, NEW s, s = todo'
  PROVE  Plan(s)
<1>1. ASSUME NEW dir \in MoveDirs, NEW i \in DOMAIN items, MoveLink(i, dir),
             Issues(Moved("downloads", i, items, items'))
      PROVE  Plan(s)
  <2>1. s = Moved("downloads", i, items, items') BY <1>1 DEF Issues
  <2>2. PICK z : z = s OBVIOUS
  <2>3. z = Moved("downloads", i, items, items') BY <2>1, <2>2
  <2>4. Plan(z) BY <1>1, <2>3, MoveLinkPlan
  <2> QED BY <2>2, <2>4
<1>2. ASSUME NEW dir \in MoveDirs, NEW p \in DOMAIN pkgs, MovePkg(p, dir),
             Issues(Moved("packages", p, pkgs, pkgs'))
      PROVE  Plan(s)
  <2>1. s = Moved("packages", p, pkgs, pkgs') BY <1>2 DEF Issues
  <2>2. PICK z : z = s OBVIOUS
  <2>3. z = Moved("packages", p, pkgs, pkgs') BY <2>1, <2>2
  <2>4. Plan(z) BY <1>2, <2>3, MovePkgPlan
  <2> QED BY <2>2, <2>4
<1> QED BY <1>1, <1>2 DEF Reorders

LEMMA GlobalsPlan ==
  ASSUME Ready, Core, Globals, NEW s, s = todo'
  PROVE  Plan(s)
<1>1. ASSUME NEW v \in MaxActives, SetMaxActive(v), Issues(<<>>) PROVE Plan(s)
  <2>1. Plan(<<>>) BY <1>1, NoStatementPlan
  <2> QED BY <1>1, <2>1 DEF Issues
<1>2. ASSUME ResumeAll,
             NEW t \in InListOrder({i \in DOMAIN items : items'[i].state # items[i].state}, Requeued),
             Issues(t)
      PROVE  Plan(s)
  <2>1. Plan(t) BY <1>2, ResumeAllPlan
  <2> QED BY <1>2, <2>1 DEF Issues
<1>3. CASE PauseAll /\ Issues(<<>>)
  <2>1. Plan(<<>>) BY <1>3, NoStatementPlan
  <2> QED BY <1>3, <2>1 DEF Issues
<1>4. CASE StopAll /\ Issues(<<>>)
  <2>1. Plan(<<>>) BY <1>4, NoStatementPlan
  <2> QED BY <1>4, <2>1 DEF Issues
<1> QED BY <1>1, <1>2, <1>3, <1>4 DEF Globals

LEMMA SchedulesPlan ==
  ASSUME Ready, Core, Departs, Schedules, NEW s, s = todo'
  PROVE  Plan(s)
<1>1. ASSUME Tick,
             NEW t \in InListOrder({i \in DOMAIN items : items'[i].job # items[i].job},
                                   LAMBDA i : <<State(i, "ACTIVE", FALSE)>>),
             Issues(t)
      PROVE  Plan(s)
  <2>1. Plan(t) BY <1>1, TickPlan
  <2> QED BY <1>1, <2>1 DEF Issues
<1>2. ASSUME NEW i \in DOMAIN items, FinalizeWorker(i),
             Issues(IF items[i].removeRequested THEN PartThenRow(i) \o Drop(i, {i})
                    ELSE <<State(i, items'[i].state, items'[i].err)>>)
      PROVE  Plan(s)
  <2>1. CASE items[i].removeRequested
    <3>1. s = PartThenRow(i) \o Drop(i, {i}) BY <1>2, <2>1 DEF Issues
    <3>2. PICK z : z = s OBVIOUS
    <3>3. z = PartThenRow(i) \o Drop(i, {i}) BY <3>1, <3>2
    <3>4. Plan(z) BY <1>2, <2>1, <3>3, SettleGonePlan
    <3> QED BY <3>2, <3>4
  <2>2. CASE ~ items[i].removeRequested
    <3>1. s = <<State(i, items'[i].state, items'[i].err)>> BY <1>2, <2>2 DEF Issues
    <3>2. PICK z : z = s OBVIOUS
    <3>3. z = <<State(i, items'[i].state, items'[i].err)>> BY <3>1, <3>2
    <3>4. Plan(z) BY <1>2, <2>2, <3>3, SettlePlan
    <3> QED BY <3>2, <3>4
  <2> QED BY <2>1, <2>2
<1> QED BY <1>1, <1>2 DEF Schedules

---------------------------------------------------------------------------
(* The verbs *)

\* Ids are only handed out.
CountersGrow == nextId' >= nextId /\ nextPkg' >= nextPkg

LEMMA LinkgrabberGrows == ASSUME Core, Linkgrabber PROVE CountersGrow
<1>0. nextId \in Nat /\ nextPkg \in Nat BY BoundsAssumption DEF Core, GlobalOK
<1>1. ASSUME UNCHANGED <<nextId, nextPkg>> PROVE CountersGrow BY <1>0, <1>1 DEF CountersGrow
<1>2. CASE AddFails BY <1>1, <1>2 DEF AddFails
<1>3. CASE \E d \in Delegates : Add(d)
  <2>1. nextId' = nextId + 1 /\ nextPkg' = nextPkg BY <1>3 DEF Add
  <2> QED BY <1>0, <2>1 DEF CountersGrow
<1>4. CASE \E k \in 1 .. MaxGrab : Grab(k)
  <2>1. PICK k \in 1 .. MaxGrab : Grab(k) BY <1>4
  <2>2. PICK n \in 0 .. k : nextId' = nextId + n /\ nextPkg' = nextPkg + 1
    BY <2>1 DEF Grab, GrabInto
  <2> QED BY <1>0, <2>2 DEF CountersGrow
<1>5. CASE \E start \in BOOLEAN :
             \/ ConfirmAll(start)
             \/ \E p \in DOMAIN pkgs : ConfirmPackage(p, start)
             \/ \E i \in DOMAIN items : ConfirmLink(i, start)
  BY <1>1, <1>5 DEF ConfirmAll, ConfirmPackage, ConfirmLink, ConfirmLinks, counters
<1>6. CASE \/ LgRemoveAll
           \/ \E p \in DOMAIN pkgs : LgRemovePackage(p)
           \/ \E i \in DOMAIN items : LgRemoveLink(i)
  BY <1>1, <1>6 DEF LgRemoveAll, LgRemovePackage, LgRemoveLink, LgDelete, counters
<1> QED BY <1>2, <1>3, <1>4, <1>5, <1>6 DEF Linkgrabber

LEMMA OthersGrow == ASSUME Core, LinkVerbs \/ GlobalVerbs \/ System PROVE CountersGrow
<1>0. nextId \in Nat /\ nextPkg \in Nat BY BoundsAssumption DEF Core, GlobalOK
<1>1. ASSUME UNCHANGED counters PROVE CountersGrow BY <1>0, <1>1 DEF CountersGrow, counters
<1>2. ASSUME LinkVerbs PROVE UNCHANGED counters
  <2>1. CASE \E i \in DOMAIN items : Pause(i) \/ Resume(i) \/ Remove(i)
    BY <2>1 DEF Pause, Resume, Remove, RemoveLinks
  <2>2. CASE \E p \in DOMAIN pkgs : PkgRemove(p) BY <2>2 DEF PkgRemove, RemoveLinks
  <2>3. CASE \E i \in DOMAIN items, v \in Priorities : SetPriority(i, v) BY <2>3 DEF SetPriority
  <2>4. CASE \E p \in DOMAIN pkgs, v \in Priorities : SetPackagePriority(p, v) \/ PkgUpdate(p, v)
    BY <2>4 DEF SetPackagePriority, PkgUpdate
  <2>5. CASE \E S \in Scopes, on \in Toggles : SetEnabled(S, on) \/ SetAutostart(S, on)
    BY <2>5 DEF SetEnabled, SetAutostart
  <2>6. CASE \E S \in Scopes : ForceStart(S) BY <2>6 DEF ForceStart
  <2>7. CASE \E dir \in MoveDirs : \/ \E i \in DOMAIN items : MoveLink(i, dir)
                                   \/ \E p \in DOMAIN pkgs : MovePkg(p, dir)
    BY <2>7 DEF MoveLink, MovePkg
  <2> QED BY <1>2, <2>1, <2>2, <2>3, <2>4, <2>5, <2>6, <2>7 DEF LinkVerbs
<1>3. ASSUME GlobalVerbs PROVE UNCHANGED counters
  BY <1>3 DEF GlobalVerbs, SetMaxActive, ResumeAll, PauseAll, StopAll, ClearFinished, ClearFailed,
              Clear
<1>4. ASSUME System PROVE UNCHANGED counters
  BY <1>4 DEF System, Tick, StartItems, WorkerWrites, WorkerReturns, FinalizeWorker
<1> QED BY <1>1, <1>2, <1>3, <1>4

\* A link with a worker after the verb has a row to start from.
Starters ==
  \A i \in Running' : i \in DOMAIN rows /\ rows[i].list = "download" /\ rows[i].state # "DONE"

LEMMA OldStarters == ASSUME Core, NoneNew PROVE Starters
<1> SUFFICES ASSUME NEW i \in Running'
             PROVE  i \in DOMAIN rows /\ rows[i].list = "download" /\ rows[i].state # "DONE"
  BY DEF Starters
<1>1. i \in Running BY DEF Running, NoneNew
<1> QED BY <1>1, RunningRows

LEMMA TickStarters == ASSUME Core, Tick PROVE Starters
<1>1. PICK S \in SUBSET {i \in DOMAIN items : Startable(i)} : StartItems(S) BY DEF Tick
<1>2. items' = Each(items, S, LAMBDA it :
         [it EXCEPT !.state = "ACTIVE", !.cancelRequested = FALSE, !.globallyPaused = FALSE,
                    !.job = "running", !.token = ~it.delegate])
  BY <1>1 DEF StartItems
<1>3. ASSUME NEW i \in Running'
      PROVE  i \in DOMAIN rows /\ rows[i].list = "download" /\ rows[i].state # "DONE"
  <2>1. i \in DOMAIN items BY <1>2 DEF Running, Each
  <2>2. CASE i \in S
    <3>1. items[i].list = "download" /\ items[i].state = "QUEUED" BY <1>1, <2>2 DEF Startable
    <3>2. rows[i].list = items[i].list BY <2>1 DEF Core, LinkOK, Mirrored
    <3>3. rows[i].state = items[i].state
          \/ (rows[i].state = "QUEUED" /\ items[i].state \in {"ACTIVE", "DONE"})
      BY <2>1 DEF Core, LinkOK, Mirrored
    <3>4. i \in DOMAIN rows BY <2>1 DEF Core, GlobalOK
    <3> QED BY <3>1, <3>2, <3>3, <3>4
  <2>3. CASE i \notin S
    <3>1. items'[i] = items[i] BY <1>2, <2>1, <2>3 DEF Each
    <3>2. i \in Running BY <2>1, <3>1 DEF Running
    <3> QED BY <3>2, RunningRows
  <2> QED BY <2>2, <2>3
<1> QED BY <1>3 DEF Starters

Issued ==
  /\ MutexFree
  /\ early' = (early \/ ~Up) /\ cut' = cut \cup LeftBehind
  /\ UNCHANGED <<disk, phase, scan, twice>>
Verb == Linkgrabber \/ LinkVerbs \/ GlobalVerbs \/ System

\* What the process has not loaded is as it was, and Review shows it, or its
\* package is noted.
LEMMA AsideKept ==
  ASSUME Core, Core', Aside, AsideOK, AsideShown(cut), cut' = cut \cup LeftBehind
  PROVE  AsideOK' /\ AsideShown(cut)'
<1>1. /\ NotLoaded' = NotLoaded
      /\ \A i \in NotLoaded : rows'[i] = rows[i] /\ (i \in partial' => i \in partial)
  BY DEF Aside, LinksAside
<1>2. AsideOK' BY <1>1 DEF AsideOK
<1>3. ASSUME NEW i \in NotLoaded, rows[i].list = "linkgrabber", NEW p, p = rows[i].pkg,
             p \notin cut'
      PROVE  p \in DOMAIN pkgRows' /\ pkgRows'[p].list = "linkgrabber"
  <2>1. p \in DOMAIN pkgRows /\ pkgRows[p].list = "linkgrabber" BY <1>3 DEF AsideShown
  <2>2. CASE p \in DOMAIN pkgs
    <3>1. p \in StagedPackages BY <2>1, <2>2 DEF StagedPackages, Core, GlobalOK
    <3>2. ~ (p \in DOMAIN pkgs' => pkgs'[p].list = "download")
      BY <1>3, <3>1 DEF LeftBehind, NotLoaded
    <3>3. pkgs'[p] = pkgRows'[p] /\ p \in DOMAIN pkgRows' /\ pkgRows'[p] \in Package
      BY <3>2 DEF Core, GlobalOK
    <3> QED BY <3>2, <3>3 DEF Package, Lists
  <2>3. CASE p \notin DOMAIN pkgs
    <3>1. p \in PkgsNotLoaded BY <2>1, <2>3 DEF PkgsNotLoaded
    <3>2. p \in DOMAIN pkgRows' /\ pkgRows'[p] = pkgRows[p]
      BY <3>1 DEF Aside, PkgsAside, PkgsNotLoaded
    <3> QED BY <2>1, <3>2
  <2> QED BY <2>2, <2>3
<1>4. AsideShown(cut)' BY <1>1, <1>3 DEF AsideShown
<1> QED BY <1>2, <1>4

LEMMA VerbReady ==
  ASSUME StoreInv, Issued, Verb
  PROVE  Ready /\ Core /\ Core' /\ AllShown(cut)' /\ CountersGrow /\ Departs /\ Aside
         /\ Tables' /\ AsideOK' /\ AsideShown(cut)'
<1>1. QueueInv /\ DiskOK /\ todo = <<>> BY DEF StoreInv, Issued, MutexFree
<1>2. Core /\ Tables /\ AllShown(cut) /\ AsideOK /\ AsideShown(cut) BY <1>1 DEF QueueInv
<1>3. Core'
  BY <1>2, LinkgrabberCore, LinkVerbsCore, GlobalVerbsCore, SystemCore DEF Verb
<1>4. PICK E : E = cut OBVIOUS
<1>5. AllShown(E) BY <1>2, <1>4
<1>6. AllShown(E)' BY <1>2, <1>5, LinkgrabberShows, LinkVerbsShow, OthersShow, SystemShows DEF Verb
<1>7. E \subseteq cut' BY <1>4 DEF Issued
<1>8. AllShown(cut)' BY <1>6, <1>7 DEF AllShown, Shown
<1>9. Aside BY <1>2, LinkgrabberAside, LinkVerbsAside, GlobalVerbsAside, SystemAside DEF Verb
<1>10. AsideOK' /\ AsideShown(cut)' BY <1>2, <1>3, <1>9, AsideKept DEF Issued
<1>11. Tables' BY <1>2, <1>9 DEF Aside, PkgsAside
<1>12. Flushed BY <1>1, AllThrough
<1>13. Loadable BY <1>2, CoreLoadable
<1>14. Loadable' BY <1>3, <1>10, LoadableNext
<1>15. Ready BY <1>1, <1>12, <1>13, <1>14 DEF Ready, Issued
<1>16. CountersGrow BY <1>2, LinkgrabberGrows, OthersGrow DEF Verb
<1>17. Departs BY <1>2 DEF Departs, Issued
<1> QED BY <1>2, <1>3, <1>8, <1>9, <1>10, <1>11, <1>15, <1>16, <1>17

LEMMA VerbKeeps ==
  ASSUME StoreInv, Issued, Verb, Starters, NEW s, s = todo', Plan(s)
  PROVE  StoreInv'
<1>1. QueueInv /\ DiskOK /\ CountersOK /\ Reviewed /\ ScanOK /\ LoadOK
      /\ phase \in Phases /\ twice \in BOOLEAN /\ early \in BOOLEAN
  BY DEF StoreInv
<1>2. Ready /\ Core /\ Core' /\ AllShown(cut)' /\ CountersGrow /\ Aside
      /\ Tables' /\ AsideOK' /\ AsideShown(cut)'
  BY VerbReady
<1>3. todo = <<>> /\ disk' = disk /\ phase' = phase /\ phase \in {"open", "up"}
      /\ scan' = scan /\ twice' = twice
  BY DEF Issued, MutexFree
<1>4. ScanOK' BY <1>1, <1>3 DEF ScanOK, Scanning
<1>5. early' \in BOOLEAN /\ (~Up => early') BY <1>1 DEF Issued
<1>6. LoadOK'
  <2>1. CASE Up
    <3>1. AllLoaded /\ Tables BY <1>1, <2>1 DEF LoadOK, QueueInv
    <3>2. AllLoaded' BY <1>2, <3>1, StaysLoaded
    <3> QED BY <1>3, <2>1, <3>2 DEF LoadOK, Up
  <2>2. CASE ~Up BY <1>3, <1>5, <2>2 DEF LoadOK, Up
  <2> QED BY <2>1, <2>2
<1>7. cut \subseteq cut' /\ cut' \subseteq PkgRefs
  <2>1. \A p \in StagedPackages : p \in Packages BY <1>2 DEF StagedPackages, Core, GlobalOK
  <2>2. LeftBehind \subseteq PkgRefs BY <2>1, BoundsAssumption DEF LeftBehind, Packages, PkgRefs
  <2> QED BY <1>1, <2>2 DEF Issued, CountersOK
<1>8. nextId' \in Nat /\ nextPkg' \in Nat
  BY <1>2, BoundsAssumption DEF Core, GlobalOK
<1>9. nextId' >= nextId /\ nextPkg' >= nextPkg BY <1>2 DEF CountersGrow
<1>10. \A i \in Running' : i \in DOMAIN rows /\ rows[i].list = "download" /\ rows[i].state # "DONE"
  BY DEF Starters
<1>11. Flushed BY <1>2 DEF Ready
<1>12. phase' \in Phases /\ twice' \in BOOLEAN BY <1>1, <1>3
<1> QED BY <1>1, <1>2, <1>3, <1>4, <1>5, <1>6, <1>7, <1>8, <1>9, <1>10, <1>11, <1>12, Planned

LEMMA CallerKeeps ==
  ASSUME StoreInv, Issued, Linkgrabber \/ LinkVerbs \/ GlobalVerbs,
         NEW s, s = todo', Plan(s)
  PROVE  StoreInv'
<1>1. Verb BY DEF Verb
<1>2. Core BY <1>1, VerbReady
<1>3. NoneNew BY <1>2, LinkgrabberStartsNone, LinkVerbsStartNone, OthersStartNone
<1>4. Starters BY <1>2, <1>3, OldStarters
<1> QED BY <1>1, <1>4, VerbKeeps

LEMMA AddsKeep == ASSUME StoreInv, Adds PROVE StoreInv'
<1>1. Issued /\ Linkgrabber BY DEF Adds, Issues, Issued, Linkgrabber
<1>2. Ready /\ Core /\ Departs BY <1>1, VerbReady DEF Verb
<1>3. PICK s : s = todo' OBVIOUS
<1>4. Plan(s) BY <1>2, <1>3, AddsPlan
<1> QED BY <1>1, <1>3, <1>4, CallerKeeps

LEMMA ConfirmsKeep == ASSUME StoreInv, NEW start \in BOOLEAN, Confirms(start) PROVE StoreInv'
<1>1. Issued /\ Linkgrabber BY DEF Confirms, Issues, Issued, Linkgrabber
<1>2. Ready /\ Core /\ Departs BY <1>1, VerbReady DEF Verb
<1>3. PICK s : s = todo' OBVIOUS
<1>4. Plan(s) BY <1>2, <1>3, ConfirmsPlan
<1> QED BY <1>1, <1>3, <1>4, CallerKeeps

LEMMA LgRemovesKeep == ASSUME StoreInv, LgRemoves PROVE StoreInv'
<1>1. Issued /\ Linkgrabber BY DEF LgRemoves, Issues, Issued, Linkgrabber
<1>2. Ready /\ Core /\ Departs BY <1>1, VerbReady DEF Verb
<1>3. PICK s : s = todo' OBVIOUS
<1>4. Plan(s) BY <1>2, <1>3, LgRemovesPlan
<1> QED BY <1>1, <1>3, <1>4, CallerKeeps

LEMMA RemovesKeep == ASSUME StoreInv, Removes PROVE StoreInv'
<1>1. Issued /\ (LinkVerbs \/ GlobalVerbs)
  BY DEF Removes, Issues, Issued, LinkVerbs, GlobalVerbs
<1>2. Ready /\ Core /\ Departs BY <1>1, VerbReady DEF Verb
<1>3. PICK s : s = todo' OBVIOUS
<1>4. Plan(s) BY <1>2, <1>3, RemovesPlan
<1> QED BY <1>1, <1>3, <1>4, CallerKeeps

LEMMA SetsKeep == ASSUME StoreInv, Sets PROVE StoreInv'
<1>1. Issued /\ LinkVerbs BY DEF Sets, Issues, Issued, LinkVerbs
<1>2. Ready /\ Core /\ Departs BY <1>1, VerbReady DEF Verb
<1>3. PICK s : s = todo' OBVIOUS
<1>4. Plan(s) BY <1>2, <1>3, SetsPlan
<1> QED BY <1>1, <1>3, <1>4, CallerKeeps

LEMMA ReordersKeep == ASSUME StoreInv, Reorders PROVE StoreInv'
<1>1. Issued /\ LinkVerbs BY DEF Reorders, Issues, Issued, LinkVerbs
<1>2. Ready /\ Core /\ Departs BY <1>1, VerbReady DEF Verb
<1>3. PICK s : s = todo' OBVIOUS
<1>4. Plan(s) BY <1>2, <1>3, ReordersPlan
<1> QED BY <1>1, <1>3, <1>4, CallerKeeps

LEMMA GlobalsKeep == ASSUME StoreInv, Globals PROVE StoreInv'
<1>1. Issued /\ GlobalVerbs BY DEF Globals, Issues, Issued, GlobalVerbs
<1>2. Ready /\ Core /\ Departs BY <1>1, VerbReady DEF Verb
<1>3. PICK s : s = todo' OBVIOUS
<1>4. Plan(s) BY <1>2, <1>3, GlobalsPlan
<1> QED BY <1>1, <1>3, <1>4, CallerKeeps

LEMMA SchedulesKeep == ASSUME StoreInv, Schedules PROVE StoreInv'
<1>1. Issued /\ System BY DEF Schedules, Issues, Issued, System
<1>2. Ready /\ Core /\ Departs BY <1>1, VerbReady DEF Verb
<1>3. PICK s : s = todo' OBVIOUS
<1>4. Plan(s) BY <1>2, <1>3, SchedulesPlan
<1>5. Starters
  <2>1. Tick \/ \E i \in DOMAIN items : FinalizeWorker(i) BY DEF Schedules
  <2>2. ASSUME NEW i \in DOMAIN items, FinalizeWorker(i) PROVE Starters
    <3>1. NoneNew BY <1>2, <2>2, WorkersStartNone
    <3> QED BY <1>2, <3>1, OldStarters
  <2> QED BY <1>2, <2>1, <2>2, TickStarters
<1> QED BY <1>1, <1>3, <1>4, <1>5, VerbKeeps DEF Verb

LEMMA CallersKeep == ASSUME StoreInv, Callers PROVE StoreInv'
<1>1. \/ Adds \/ LgRemoves \/ Removes \/ Sets \/ Reorders \/ Globals
      \/ \E start \in BOOLEAN : Confirms(start)
  BY DEF Callers
<1> QED BY <1>1, AddsKeep, LgRemovesKeep, RemovesKeep, SetsKeep, ReordersKeep, GlobalsKeep,
           ConfirmsKeep

---------------------------------------------------------------------------
(* Opening and loading *)

LEMMA VarsSame ==
  ASSUME UNCHANGED vars
  PROVE  UNCHANGED <<items, pkgs, rows, pkgRows, nextId, nextPkg, nextPos, maxActive,
                     globalAutostart, cells, partial>>
BY DEF vars

\* Nothing but the scan goes on.
LEMMA ScanGoesOn ==
  ASSUME StoreInv, UNCHANGED vars, UNCHANGED <<disk, todo, twice, early, cut>>,
         phase' \in Phases, ScanOK', LoadOK'
  PROVE  StoreInv'
<1>1. QueueInv /\ DiskOK /\ CountersOK /\ Reviewed /\ twice \in BOOLEAN /\ early \in BOOLEAN
  BY DEF StoreInv
<1>2. UNCHANGED <<items, pkgs, rows, pkgRows, nextId, nextPkg, nextPos, maxActive,
                  globalAutostart, cells, partial>>
  BY VarsSame
<1>3. Tables' /\ AllShown(cut)' /\ AsideOK' /\ AsideShown(cut)' /\ Core'
  BY <1>1, AsideStutters
<1>4. Brought' BY <1>1, <1>2 DEF QueueInv, Brought
<1>5. Fitting'
  BY <1>1, <1>2
  DEF QueueInv, Fitting, Fits, InsertFits, UpdateFits, DeleteFits, PackageFits, PartFits,
      FilePackage, StagedIn
<1>6. SamePackage' /\ AtWork' BY <1>1, <1>2 DEF QueueInv, SamePackage, AtWork, Running
<1>7. QueueInv' BY <1>3, <1>4, <1>5, <1>6 DEF QueueInv
<1>8. DiskOK' /\ CountersOK' /\ Reviewed'
  BY <1>1, <1>2 DEF DiskOK, RowOK, CountersOK, Reviewed
<1> QED BY <1>1, <1>7, <1>8 DEF StoreInv

\* The columns of a schema make no difference to what the tables hold.
LEMMA ColumnsPlan ==
  ASSUME Flushed, DiskOK, UNCHANGED vars, NEW B, NEW s \in Seq(B),
         \A n \in DOMAIN s : s[n].table = "columns"
  PROVE  Plan(s)
<1>1. UNCHANGED <<rows, pkgRows, partial>> BY VarsSame
<1>2. IsDisk(disk) /\ Table(rows) /\ Table(pkgRows) BY DEF DiskOK, Flushed
<1>3. /\ Leads(s, 0, "downloads", disk.downloads, rows')
      /\ Leads(s, 0, "packages", disk.packages, pkgRows')
  BY <1>1, <1>2, LeadsNowhere DEF Flushed
<1>4. Unlinked(s, 0) = {} BY DEF Unlinked
<1>5. Brings(s, 0, disk, rows', pkgRows', partial')
  BY <1>1, <1>2, <1>3, <1>4 DEF Brings, Known, Flushed
<1>6. \A n \in DOMAIN s : Fits(s, n)'
  BY DEF Fits, InsertFits, UpdateFits, DeleteFits, PackageFits, PartFits
<1> QED BY <1>1, <1>5, <1>6 DEF Plan

LEMMA OpenKeeps == ASSUME StoreInv, Open PROVE StoreInv'
<1>1. QueueInv /\ DiskOK /\ CountersOK /\ Reviewed /\ ScanOK /\ LoadOK
      /\ twice \in BOOLEAN /\ early \in BOOLEAN
  BY DEF StoreInv
<1>2. /\ phase = "closed" /\ phase' = "open" /\ UNCHANGED <<disk, scan, twice, early, cut>>
      /\ UNCHANGED vars
      /\ todo' = [n \in DOMAIN Migrations |-> Alter(Migrations[n])]
  BY DEF Open
<1>3. todo = <<>> BY <1>1, <1>2 DEF LoadOK
<1>4. Flushed BY <1>1, <1>3, AllThrough
<1>5. PICK s : s = todo' OBVIOUS
<1>6. PICK B : s \in Seq(B) /\ \A n \in DOMAIN s : s[n].table = "columns"
  <2> DEFINE B == {Alter(Migrations[n]) : n \in DOMAIN Migrations}
  <2>1. DOMAIN Migrations = 1 .. Len(Migrations) /\ Len(Migrations) \in Nat BY StoreAssumption
  <2>2. \A n \in DOMAIN Migrations :
          Alter(Migrations[n]) \in B /\ Alter(Migrations[n]).table = "columns"
    BY DEF Alter
  <2> HIDE DEF B
  <2>3. s \in [1 .. Len(Migrations) -> B] BY <1>2, <1>5, <2>1, <2>2
  <2>4. s \in Seq(B) BY <2>1, <2>3
  <2>5. \A n \in DOMAIN s : s[n].table = "columns" BY <1>2, <1>5, <2>2
  <2> QED BY <2>4, <2>5
<1>7. Plan(s) BY <1>1, <1>2, <1>4, <1>6, ColumnsPlan
<1>8. Tables' /\ AllShown(cut)' /\ AsideOK' /\ AsideShown(cut)' /\ Core'
  BY <1>1, <1>2, AsideStutters
<1>9. ScanOK' BY <1>1, <1>2 DEF ScanOK, Scanning
<1>10. LoadOK' BY <1>1, <1>2, VarsSame DEF LoadOK, Up, Fresh
<1>11. \A i \in Running' : i \in DOMAIN rows /\ rows[i].list = "download"
                           /\ rows[i].state # "DONE"
  BY <1>1, <1>2, VarsSame, RunningRows DEF QueueInv, Running
<1>12. nextId' \in Nat /\ nextPkg' \in Nat /\ nextId' >= nextId /\ nextPkg' >= nextPkg
  BY <1>1, <1>2, VarsSame, BoundsAssumption DEF CountersOK
<1>13. cut \subseteq cut' /\ cut' \subseteq PkgRefs /\ phase' \in Phases
       /\ twice' \in BOOLEAN /\ early' \in BOOLEAN
  BY <1>1, <1>2 DEF CountersOK, Phases
<1> QED BY <1>1, <1>2, <1>3, <1>4, <1>5, <1>7, <1>8, <1>9, <1>10, <1>11, <1>12, <1>13, Planned

LEMMA LoadPackagesKeeps == ASSUME StoreInv, LoadPackages PROVE StoreInv'
<1>1. /\ phase = "open" /\ todo = <<>> /\ phase' = "packages"
      /\ UNCHANGED <<disk, todo, twice, early, cut>> /\ UNCHANGED vars
      /\ scan' = [NoScan EXCEPT !.unread = DOMAIN disk.packages]
  BY DEF LoadPackages, Scan
<1>2. ScanOK' BY <1>1 DEF ScanOK, Scanning, NoScan
<1>3. LoadOK' BY <1>1, VarsSame DEF StoreInv, LoadOK, Up, Fresh
<1> QED BY <1>1, <1>2, <1>3, ScanGoesOn DEF Phases

LEMMA LoadFailsKeeps == ASSUME StoreInv, LoadFails PROVE StoreInv'
<1>1. /\ phase \in {"packages", "downloads"} /\ phase' = "open" /\ scan' = NoScan
      /\ UNCHANGED <<disk, todo, twice, early, cut>> /\ UNCHANGED vars
  BY DEF LoadFails, Scanning
<1>2. ScanOK' BY <1>1 DEF ScanOK, Scanning, NoScan
<1>3. LoadOK' BY <1>1, VarsSame DEF StoreInv, LoadOK, Up, Fresh
<1> QED BY <1>1, <1>2, <1>3, ScanGoesOn DEF Phases

\* A row read becomes an object or is lost; the others keep their place.
LEMMA ReadKeeps ==
  ASSUME StoreInv, Scanning, NEW table, Read(table)
  PROVE  StoreInv'
<1>1. UNCHANGED <<disk, todo, phase, twice, early, cut>> /\ UNCHANGED vars BY DEF Read
<1>2. ScanOK /\ LoadOK /\ phase \in Phases BY DEF StoreInv
<1>3. PICK x \in scan.unread :
        \/ ~scan.lost /\ scan' = [scan EXCEPT !.unread = @ \ {x}, !.refs = @ \cup {x}]
        \/ scan' = [scan EXCEPT !.unread = @ \ {x}, !.lost = TRUE]
  BY DEF Read
<1>4. PICK D : D = IF phase = "packages" THEN DOMAIN disk.packages ELSE DOMAIN disk.downloads
  OBVIOUS
<1>5. scan.refs \subseteq D /\ (scan.lost \/ scan.unread \cup scan.refs = D)
  BY <1>2, <1>4 DEF ScanOK
<1>6. scan'.refs \subseteq D /\ (scan'.lost \/ scan'.unread \cup scan'.refs = D)
      /\ scan'.lost \in BOOLEAN
      /\ scan' = [unread |-> scan'.unread, refs |-> scan'.refs, lost |-> scan'.lost]
  <2>1. scan = [unread |-> scan.unread, refs |-> scan.refs, lost |-> scan.lost]
        /\ scan.lost \in BOOLEAN
    BY <1>2 DEF ScanOK
  <2>2. CASE ~scan.lost /\ scan' = [scan EXCEPT !.unread = @ \ {x}, !.refs = @ \cup {x}]
    <3>1. scan' = [unread |-> scan.unread \ {x}, refs |-> scan.refs \cup {x},
                   lost |-> scan.lost]
      BY <2>1, <2>2
    <3>2. x \in D /\ scan.unread \cup scan.refs = D BY <1>5, <2>2
    <3> QED BY <2>1, <3>1, <3>2
  <2>3. CASE scan' = [scan EXCEPT !.unread = @ \ {x}, !.lost = TRUE]
    <3>1. scan' = [unread |-> scan.unread \ {x}, refs |-> scan.refs, lost |-> TRUE]
      BY <2>1, <2>3
    <3> QED BY <1>5, <3>1
  <2> QED BY <1>3, <2>2, <2>3
<1>7. ScanOK' BY <1>1, <1>4, <1>6 DEF ScanOK, Scanning
<1>8. LoadOK' BY <1>1, <1>2, LoadStutters
<1> QED BY <1>1, <1>2, <1>7, <1>8, ScanGoesOn

\* A scan that reached the end without a loss has seen the whole table.
LEMMA WholeTable ==
  ASSUME StoreInv, Scanning, Whole
  PROVE  /\ todo = <<>> /\ Flushed
         /\ scan.refs = IF phase = "packages" THEN DOMAIN pkgRows ELSE DOMAIN rows
<1>1. QueueInv /\ ScanOK /\ LoadOK BY DEF StoreInv
<1>2. todo = <<>> BY <1>1 DEF LoadOK, Scanning
<1>3. Flushed BY <1>1, <1>2, AllThrough
<1>4. scan.refs = IF phase = "packages" THEN DOMAIN disk.packages ELSE DOMAIN disk.downloads
  BY <1>1 DEF ScanOK, Whole, EndReached
<1> QED BY <1>2, <1>3, <1>4 DEF Flushed

LEMMA PackagesLoadedKeeps == ASSUME StoreInv, PackagesLoaded PROVE StoreInv'
<1>1. QueueInv /\ DiskOK /\ CountersOK /\ Reviewed /\ ScanOK /\ LoadOK
      /\ twice \in BOOLEAN /\ early \in BOOLEAN
  BY DEF StoreInv
<1>2. /\ phase = "packages" /\ Whole /\ phase' = "downloads"
      /\ UNCHANGED <<disk, todo, early, cut>>
      /\ scan' = [NoScan EXCEPT !.unread = DOMAIN disk.downloads]
      /\ pkgs' = Appended(pkgs, pkgRows) /\ nextPos' \in Beyond(pkgRows)
      /\ twice' = (twice \/ DOMAIN pkgs \cap scan.refs # {})
      /\ UNCHANGED <<items, rows, pkgRows, nextId, nextPkg, maxActive, globalAutostart,
                     cells, partial>>
  BY DEF PackagesLoaded, Scan, settings, machine
<1>3. todo = <<>> /\ Flushed /\ scan.refs = DOMAIN pkgRows BY <1>2, WholeTable DEF Scanning
<1>4. Core /\ Tables /\ AllShown(cut) /\ AsideOK /\ AsideShown(cut) BY <1>1 DEF QueueInv
<1>5. DOMAIN pkgs \subseteq DOMAIN pkgRows /\ \A p \in DOMAIN pkgs : pkgs[p] = pkgRows[p]
  BY <1>4 DEF Core, GlobalOK
<1>6. DOMAIN pkgs' = DOMAIN pkgRows /\ \A p \in DOMAIN pkgRows : pkgs'[p] = pkgRows[p]
  BY <1>2, <1>3, <1>5 DEF Appended
<1>7. /\ nextPos' \in nextPos .. (PosBound + 1)
      /\ \A p \in DOMAIN pkgRows : pkgRows[p].pos < nextPos'
      /\ nextPos' = nextPos \/ \E p \in DOMAIN pkgRows : nextPos' - 1 = pkgRows[p].pos
  BY <1>2, <1>3 DEF Beyond
<1>8. nextPos' \in 1 .. (PosBound + 1) BY <1>1, <1>7, BoundsAssumption DEF CountersOK
<1>9. Core'
  <2>1. GlobalOK' BY <1>2, <1>4, <1>6, <1>8 DEF Core, GlobalOK
  <2>2. \A j \in DOMAIN items : LinkOK(j)'
    BY <1>2, <1>4 DEF Core, LinkOK, Typed, Worked, Shelved, Mirrored
  <2> QED BY <1>2, <2>1, <2>2 DEF Core
<1>10. Tables'
  <2>1. pkgs' = [p \in DOMAIN pkgs' |-> pkgs'[p]] BY <1>2 DEF Appended
  <2> QED BY <1>2, <1>4, <2>1 DEF Tables
<1>11. AllShown(cut)' BY <1>2, <1>4, <1>5, <1>6 DEF AllShown, Shown
<1>12. AsideOK' /\ AsideShown(cut)' BY <1>2, <1>4 DEF AsideOK, AsideShown, NotLoaded
<1>13. ScanOK' BY <1>2 DEF ScanOK, Scanning, NoScan
<1>14. LoadOK'
  <2>1. ASSUME ~early PROVE Fresh'
    <3>1. Fresh BY <1>1, <1>2, <2>1 DEF LoadOK, Up
    <3>2. nextPos' = 1 \/ \E p \in DOMAIN pkgs' : nextPos' - 1 = pkgs'[p].pos
      <4>1. CASE nextPos' = nextPos
        <5>1. nextPos = 1 \/ \E p \in DOMAIN pkgs : nextPos - 1 = pkgs[p].pos
          BY <3>1 DEF Fresh
        <5> QED BY <1>5, <1>6, <4>1, <5>1
      <4>2. CASE nextPos' # nextPos BY <1>6, <1>7, <4>2
      <4> QED BY <4>1, <4>2
    <3>3. \A p \in DOMAIN pkgs' : pkgs'[p].pos < nextPos' BY <1>6, <1>7
    <3> QED BY <1>2, <3>1, <3>2, <3>3 DEF Fresh
  <2>2. PkgsNotLoaded' = {} BY <1>2, <1>6 DEF PkgsNotLoaded
  <2> QED BY <1>2, <1>3, <2>1, <2>2 DEF LoadOK, Up
<1>15. Plan(<<>>)
  <2>1. Loadable' BY <1>9, <1>12, LoadableNext
  <2> QED BY <1>1, <1>2, <1>3, <2>1, NothingPlan
<1>16. PICK s : s = todo' OBVIOUS
<1>17. Plan(s) BY <1>2, <1>3, <1>15, <1>16
<1>18. \A i \in Running' : i \in DOMAIN rows /\ rows[i].list = "download"
                           /\ rows[i].state # "DONE"
  BY <1>2, <1>4, RunningRows DEF Running
<1>19. nextId' \in Nat /\ nextPkg' \in Nat /\ nextId' >= nextId /\ nextPkg' >= nextPkg
  BY <1>1, <1>2, BoundsAssumption DEF CountersOK
<1>20. cut \subseteq cut' /\ cut' \subseteq PkgRefs /\ phase' \in Phases
       /\ twice' \in BOOLEAN /\ early' \in BOOLEAN
  BY <1>1, <1>2 DEF CountersOK, Phases
<1> QED BY <1>1, <1>2, <1>3, <1>9, <1>10, <1>11, <1>12, <1>13, <1>14, <1>16, <1>17, <1>18,
           <1>19, <1>20, Planned

\* What the end of a load finds: all packages in memory, all rows scanned.
LEMMA LoadsShape ==
  ASSUME StoreInv, Loads
  PROVE  /\ phase = "downloads" /\ phase' = "up" /\ scan' = NoScan /\ todo = <<>>
         /\ UNCHANGED <<disk, early, cut, pkgs, pkgRows, nextId, nextPkg, maxActive,
                        globalAutostart, cells, partial>>
         /\ twice' \in BOOLEAN
         /\ Flushed /\ Loadable /\ PkgsNotLoaded = {} /\ scan.refs = DOMAIN rows
         /\ DOMAIN items' = DOMAIN rows /\ DOMAIN rows' = DOMAIN rows
         /\ \A i \in DOMAIN items : items'[i] = items[i]
         /\ \A i \in NotLoaded : items'[i] = Loaded(rows[i])
         /\ items' = [i \in DOMAIN items' |-> items'[i]]
         /\ nextPos' \in nextPos .. (PosBound + 1)
         /\ \A i \in DOMAIN rows : rows[i].pos < nextPos'
         /\ nextPos' = nextPos \/ \E i \in DOMAIN rows : nextPos' - 1 = rows[i].pos
<1>1. QueueInv /\ LoadOK /\ twice \in BOOLEAN BY DEF StoreInv
<1>2. /\ phase = "downloads" /\ Whole /\ phase' = "up" /\ scan' = NoScan
      /\ UNCHANGED <<disk, early, cut, pkgs, pkgRows, nextId, nextPkg, maxActive,
                     globalAutostart, cells, partial>>
      /\ items' = Appended(items, [i \in scan.refs |-> Loaded(rows[i])])
      /\ nextPos' \in Beyond(rows)
      /\ twice' = (twice \/ DOMAIN items \cap scan.refs # {})
      /\ \E S : rows' = RowsInState(S, "QUEUED")
  BY DEF Loads, settings, machine
<1>3. todo = <<>> /\ Flushed /\ scan.refs = DOMAIN rows BY <1>2, WholeTable DEF Scanning
<1>4. Core /\ AsideOK BY <1>1 DEF QueueInv
<1>5. Loadable BY <1>4, CoreLoadable
<1>6. DOMAIN items \subseteq DOMAIN rows BY <1>4 DEF Core, GlobalOK
<1>7. /\ DOMAIN items' = DOMAIN rows
      /\ \A i \in DOMAIN items : items'[i] = items[i]
      /\ \A i \in NotLoaded : items'[i] = Loaded(rows[i])
      /\ items' = [i \in DOMAIN items' |-> items'[i]]
  <2>1. PICK g : g = [i \in scan.refs |-> Loaded(rows[i])] OBVIOUS
  <2>2. items' = [x \in DOMAIN items \cup scan.refs |->
                    IF x \in DOMAIN items THEN items[x] ELSE g[x]]
    BY <1>2, <2>1 DEF Appended
  <2> QED BY <1>3, <1>6, <2>1, <2>2 DEF NotLoaded
<1>8. DOMAIN rows' = DOMAIN rows BY <1>2 DEF RowsInState, Each
<1>9. /\ nextPos' \in nextPos .. (PosBound + 1)
      /\ \A i \in DOMAIN rows : rows[i].pos < nextPos'
      /\ nextPos' = nextPos \/ \E i \in DOMAIN rows : nextPos' - 1 = rows[i].pos
  BY <1>2, <1>3 DEF Beyond
<1>10. PkgsNotLoaded = {} BY <1>1, <1>2 DEF LoadOK
<1> QED BY <1>1, <1>2, <1>3, <1>5, <1>7, <1>8, <1>9, <1>10

\* Those that a load writes once more.
Waiting == {i \in DOMAIN rows : /\ rows[i].state \in {"QUEUED", "ACTIVE"}
                                /\ rows[i].list = "download"}

LEMMA LoadsWrite ==
  ASSUME StoreInv, Loads
  PROVE  /\ rows' = RowsInState(Waiting, "QUEUED")
         /\ todo' \in InListOrder(Waiting, Requeued)
<1> DEFINE R == {i \in scan.refs : Loaded(rows[i]).state = "QUEUED" /\ rows[i].list = "download"}
<1>1. scan.refs = DOMAIN rows /\ Loadable BY LoadsShape
<1>2. ASSUME NEW i \in DOMAIN rows
      PROVE  Loaded(rows[i]).state = "QUEUED" <=> rows[i].state \in {"QUEUED", "ACTIVE"}
  <2>1. rows[i] \in Row BY <1>1 DEF Loadable
  <2> QED BY <2>1 DEF Loaded, ItemOf, Row
<1>3. R = Waiting BY <1>1, <1>2 DEF Waiting
<1>4. rows' = RowsInState(R, "QUEUED") /\ todo' \in InListOrder(R, Requeued) BY DEF Loads
<1> HIDE DEF R
<1> QED BY <1>3, <1>4

\* What was in the lists stays, its row written once more or not; what a load
\* makes of the other rows is in order.
LEMMA LoadsCore == ASSUME StoreInv, Loads PROVE Core'
<1>1. Core /\ CountersOK BY DEF StoreInv, QueueInv
<1>2. /\ UNCHANGED <<pkgs, pkgRows, nextId, nextPkg, maxActive, globalAutostart, cells, partial>>
      /\ Loadable /\ DOMAIN items' = DOMAIN rows /\ DOMAIN rows' = DOMAIN rows
      /\ \A i \in DOMAIN items : items'[i] = items[i]
      /\ \A i \in NotLoaded : items'[i] = Loaded(rows[i])
      /\ nextPos' \in nextPos .. (PosBound + 1)
  BY LoadsShape
<1>3. rows' = RowsInState(Waiting, "QUEUED") BY LoadsWrite
<1>4. nextPos' \in 1 .. (PosBound + 1) BY <1>1, <1>2, BoundsAssumption DEF CountersOK
<1>5. GlobalOK' BY <1>1, <1>2, <1>4 DEF Core, GlobalOK
<1>6. ASSUME NEW j \in DOMAIN rows PROVE LinkOK(j)'
  <2>1. j \in Waiting <=> rows[j].state \in {"QUEUED", "ACTIVE"} /\ rows[j].list = "download"
    BY DEF Waiting
  <2>2. CASE j \notin DOMAIN items
    <3>1. items'[j] = Loaded(rows[j]) BY <1>2, <2>2 DEF NotLoaded
    <3>2. j \in Links BY <1>2 DEF Loadable
    <3>3. cells'[j] = "free" BY <1>1, <1>2, <2>2, <3>2 DEF Core, GlobalOK
    <3> QED BY <1>2, <1>3, <2>1, <3>1, <3>3, LoadedLink
  <2>3. CASE j \in DOMAIN items
    <3>1. LinkOK(j) /\ items'[j] = items[j] BY <1>1, <1>2, <2>3 DEF Core
    <3>2. CASE j \notin Waiting
      <4>1. rows'[j] = rows[j] BY <1>3, <3>2 DEF RowsInState, Each
      <4> QED BY <1>2, <3>1, <4>1 DEF LinkOK, Typed, Worked, Shelved, Mirrored
    <3>3. CASE j \in Waiting
      <4>1. rows'[j] = [rows[j] EXCEPT !.state = "QUEUED", !.err = FALSE]
        BY <1>3, <3>3 DEF RowsInState, Each
      <4>2. rows[j] \in Row /\ items[j] \in Item BY <3>1 DEF LinkOK, Typed
      <4>3. items[j].state \in {"QUEUED", "ACTIVE", "DONE"} /\ items[j].err = FALSE
        BY <2>1, <3>1, <3>3, <4>2 DEF LinkOK, Worked, Mirrored, Item, Row
      <4>4. Typed(j)'
        <5>1. PICK r \in Row : r = rows[j] BY <4>2
        <5>2. [r EXCEPT !.state = "QUEUED", !.err = FALSE] \in Row BY DEF Row, QState
        <5>3. rows'[j] \in Row BY <4>1, <5>1, <5>2
        <5> QED BY <3>1, <4>2, <5>3 DEF LinkOK, Typed
      <4>5. Worked(j)' /\ Shelved(j)' BY <1>2, <3>1 DEF LinkOK, Worked, Shelved
      <4>6. Mirrored(j)' BY <3>1, <4>1, <4>2, <4>3 DEF LinkOK, Mirrored, Row
      <4> QED BY <4>4, <4>5, <4>6 DEF LinkOK
    <3> QED BY <3>2, <3>3
  <2> QED BY <2>2, <2>3
<1> QED BY <1>2, <1>5, <1>6 DEF Core

LEMMA LoadsKeep == ASSUME StoreInv, Loads PROVE StoreInv'
<1>1. QueueInv /\ DiskOK /\ CountersOK /\ Reviewed /\ early \in BOOLEAN BY DEF StoreInv
<1>2. Core /\ Tables /\ AllShown(cut) /\ AsideOK /\ AsideShown(cut) BY <1>1 DEF QueueInv
<1>3. /\ phase' = "up" /\ scan' = NoScan /\ todo = <<>> /\ twice' \in BOOLEAN
      /\ UNCHANGED <<disk, early, cut, pkgs, pkgRows, nextId, nextPkg, partial>>
      /\ Flushed /\ Loadable /\ PkgsNotLoaded = {}
      /\ DOMAIN items' = DOMAIN rows /\ DOMAIN rows' = DOMAIN rows
      /\ \A i \in DOMAIN items : items'[i] = items[i]
      /\ \A i \in NotLoaded : items'[i] = Loaded(rows[i])
  BY LoadsShape
<1>4. Core' BY LoadsCore
<1>5. NotLoaded' = {} BY <1>3 DEF NotLoaded
<1>6. Tables' BY <1>2, <1>3 DEF Tables
<1>7. AsideOK' /\ AsideShown(cut)' BY <1>5 DEF AsideOK, AsideShown
<1>8. Ready BY <1>1, <1>3, <1>4, <1>7, LoadableNext DEF Ready
<1>9. DOMAIN pkgs = DOMAIN pkgRows /\ \A p \in DOMAIN pkgs : pkgs[p] = pkgRows[p]
  BY <1>2, <1>3 DEF Core, GlobalOK, PkgsNotLoaded
<1>10. AllShown(cut)'
  <2> SUFFICES ASSUME NEW i \in DOMAIN rows PROVE Shown(cut, i)'
    BY <1>3 DEF AllShown
  <2>1. CASE i \in DOMAIN items BY <1>2, <1>3, <2>1 DEF AllShown, Shown
  <2>2. CASE i \notin DOMAIN items
    <3>1. i \in NotLoaded /\ rows[i] \in Row BY <1>3, <2>2 DEF NotLoaded, Loadable
    <3>2. items'[i].list = rows[i].list /\ items'[i].pkg = rows[i].pkg
      <4>1. items'[i] = Loaded(rows[i]) BY <1>3, <3>1
      <4>2. PICK r \in Row : r = rows[i] BY <3>1
      <4>3. Loaded(r).list = r.list /\ Loaded(r).pkg = r.pkg BY DEF Loaded, ItemOf, Row
      <4> QED BY <4>1, <4>2, <4>3
    <3>3. rows[i].list = "linkgrabber" =>
            \/ rows[i].pkg \in cut
            \/ rows[i].pkg \in DOMAIN pkgRows /\ pkgRows[rows[i].pkg].list = "linkgrabber"
      BY <1>2, <3>1 DEF AsideShown
    <3> QED BY <1>3, <1>9, <3>2, <3>3 DEF Shown
  <2> QED BY <2>1, <2>2
<1>11. ScanOK' BY <1>3 DEF ScanOK, Scanning, NoScan
<1>12. LoadOK' BY <1>3, <1>9 DEF LoadOK, AllLoaded, Up
<1>13. PICK S : S = Waiting OBVIOUS
<1>14. rows' = RowsInState(S, "QUEUED") BY <1>13, LoadsWrite
<1>15. PICK order \in Seqs!SetToSeqs(S) :
         todo' = Seqs!FlattenSeq([n \in DOMAIN order |-> <<State(order[n], "QUEUED", FALSE)>>])
  BY <1>13, LoadsWrite DEF InListOrder, Requeued
<1>16. S \subseteq DOMAIN rows BY <1>13 DEF Waiting
<1>17. IsFiniteSet(S)
  <2>1. IsFiniteSet(Links) BY BoundsAssumption, FS_Interval DEF Links
  <2>2. S \subseteq Links BY <1>3, <1>16 DEF Loadable
  <2> QED BY <2>1, <2>2, FS_Subset
<1>18. PICK s : s = todo' OBVIOUS
<1>19. s = Seqs!FlattenSeq([n \in DOMAIN order |-> <<State(order[n], "QUEUED", FALSE)>>])
  BY <1>15, <1>18
<1>20. Plan(s) BY <1>3, <1>8, <1>14, <1>16, <1>17, <1>19, StatesPlan
<1>21. \A i \in Running' : i \in DOMAIN rows /\ rows[i].list = "download"
                           /\ rows[i].state # "DONE"
  <2> SUFFICES ASSUME NEW i \in Running' PROVE i \in Running
    BY <1>2, RunningRows
  <2>1. i \in DOMAIN rows /\ items'[i].job # "none" BY <1>3 DEF Running
  <2>2. CASE i \in DOMAIN items BY <1>3, <2>1, <2>2 DEF Running
  <2>3. CASE i \notin DOMAIN items
    <3>1. items'[i] = Loaded(rows[i]) BY <1>3, <2>1, <2>3 DEF NotLoaded
    <3> QED BY <2>1, <3>1 DEF Loaded, ItemOf
  <2> QED BY <2>2, <2>3
<1>22. nextId' \in Nat /\ nextPkg' \in Nat /\ nextId' >= nextId /\ nextPkg' >= nextPkg
  BY <1>1, <1>3, BoundsAssumption DEF CountersOK
<1>23. cut \subseteq cut' /\ cut' \subseteq PkgRefs /\ phase' \in Phases
       /\ twice' \in BOOLEAN /\ early' \in BOOLEAN
  BY <1>1, <1>3 DEF CountersOK, Phases
<1> QED BY <1>1, <1>3, <1>4, <1>6, <1>7, <1>10, <1>11, <1>12, <1>18, <1>20, <1>21, <1>22,
           <1>23, Planned

\* In a process that left its queue alone, what a load does is a restart.
LEMMA LoadsRestart ==
  ASSUME StoreInv, Loads, ~early PROVE Restart
<1>1. Core /\ Tables /\ LoadOK BY DEF StoreInv, QueueInv
<1>2. /\ phase = "downloads" /\ PkgsNotLoaded = {}
      /\ UNCHANGED <<pkgs, pkgRows, nextId, nextPkg, maxActive, globalAutostart, cells, partial>>
      /\ DOMAIN items' = DOMAIN rows
      /\ \A i \in NotLoaded : items'[i] = Loaded(rows[i])
      /\ items' = [i \in DOMAIN items' |-> items'[i]]
      /\ nextPos' \in nextPos .. (PosBound + 1)
      /\ \A i \in DOMAIN rows : rows[i].pos < nextPos'
      /\ nextPos' = nextPos \/ \E i \in DOMAIN rows : nextPos' - 1 = rows[i].pos
  BY LoadsShape
<1>3. Fresh BY <1>1, <1>2 DEF LoadOK, Up
<1>4. DOMAIN items = {} BY <1>3 DEF Fresh, Empty
<1>5. items' = [i \in DOMAIN rows |-> Loaded(rows[i])] BY <1>2, <1>4 DEF NotLoaded
<1>6. DOMAIN pkgs = DOMAIN pkgRows /\ \A p \in DOMAIN pkgs : pkgs[p] = pkgRows[p]
  BY <1>1, <1>2 DEF Core, GlobalOK, PkgsNotLoaded
<1>7. pkgs' = pkgRows BY <1>1, <1>2, <1>6 DEF Tables
<1>8. cells' = [i \in Links |-> "free"]
  <2>1. cells \in [Links -> {"free", "clear", "set"}] /\ \A i \in Links : cells[i] = "free"
    BY <1>1, <1>4 DEF Core, GlobalOK
  <2> QED BY <1>2, <2>1
<1>9. PICK placed :
        placed = {rows[i].pos : i \in DOMAIN rows} \cup {pkgRows[p].pos : p \in DOMAIN pkgRows}
  OBVIOUS
<1>10. \E n \in 1 .. (PosBound + 1) : /\ n = 1 \/ n - 1 \in placed
                                      /\ \A q \in placed : q < n
                                      /\ nextPos' = n
  <2>1. nextPos \in 1 .. (PosBound + 1) /\ PosBound \in Nat
    BY <1>1, BoundsAssumption DEF Core, GlobalOK
  <2>2. nextPos' \in 1 .. (PosBound + 1) /\ nextPos <= nextPos' BY <1>2, <2>1
  <2>3. \A p \in DOMAIN pkgRows : pkgRows[p].pos < nextPos'
    <3> SUFFICES ASSUME NEW p \in DOMAIN pkgRows PROVE pkgRows[p].pos < nextPos'
      OBVIOUS
    <3>1. pkgRows[p].pos < nextPos BY <1>3, <1>6 DEF Fresh
    <3>2. pkgRows[p].pos \in Int BY <1>1, BoundsAssumption DEF Core, GlobalOK, Package, Positions
    <3> QED BY <2>1, <2>2, <3>1, <3>2
  <2>4. nextPos' = 1 \/ nextPos' - 1 \in placed
    <3>1. CASE nextPos' = nextPos
      <4>1. nextPos = 1 \/ \E p \in DOMAIN pkgRows : nextPos - 1 = pkgRows[p].pos
        BY <1>3, <1>6 DEF Fresh
      <4> QED BY <1>9, <3>1, <4>1
    <3>2. CASE nextPos' # nextPos BY <1>2, <1>9, <3>2
    <3> QED BY <3>1, <3>2
  <2>5. \A q \in placed : q < nextPos' BY <1>2, <1>9, <2>3
  <2> QED BY <2>2, <2>4, <2>5
<1>11. rows' = RowsInState(Waiting, "QUEUED") BY LoadsWrite
<1> QED BY <1>2, <1>5, <1>7, <1>8, <1>9, <1>10, <1>11 DEF Restart, Waiting, settings

---------------------------------------------------------------------------
(* The invariant, and what it gives *)

LEMMA StoreInitOK == StoreInit => StoreInv
<1> SUFFICES ASSUME StoreInit PROVE StoreInv
  OBVIOUS
<1>1. PICK old \in 0 .. OldLinks :
        /\ rows = [i \in 1 .. old |-> OldRow]
        /\ disk = [downloads |-> rows, packages |-> Empty, parts |-> {},
                   columns |-> IF old = 0 THEN Seqs!ToSet(Migrations) ELSE {}]
        /\ nextId = old + 1 /\ nextPkg = 1 /\ nextPos = 1
        /\ items = Empty /\ pkgs = Empty /\ pkgRows = Empty
        /\ maxActive \in {v \in MaxActives : v >= 1} /\ globalAutostart \in BOOLEAN
        /\ cells = [i \in Links |-> "free"] /\ partial = {}
        /\ todo = <<>> /\ phase = "closed" /\ scan = NoScan
        /\ twice = FALSE /\ early = FALSE /\ cut = {}
  BY DEF StoreInit
<1>3. /\ MaxLinks \in Nat /\ MaxPackages \in Nat /\ PosBound \in Nat /\ old \in Nat
      /\ old <= MaxLinks
  BY BoundsAssumption, StoreAssumption
<1>4. OldRow \in Row
  <2>1. "download" \in Lists /\ 0 \in PkgRefs /\ 0 \in Positions /\ FALSE \in BOOLEAN
    BY <1>3 DEF Lists, PkgRefs, Positions
  <2> QED BY <2>1, NewRowTyped DEF OldRow
<1>5. OldRow.list = "download" /\ OldRow.state = "QUEUED" /\ OldRow.err = FALSE
  BY DEF OldRow, NewRow
<1>6. /\ IsDisk(disk) /\ disk.downloads = rows /\ disk.packages = Empty /\ disk.parts = {}
  <2>1. PICK C : C = IF old = 0 THEN Seqs!ToSet(Migrations) ELSE {} OBVIOUS
  <2>2. disk = [downloads |-> rows, packages |-> Empty, parts |-> {}, columns |-> C]
    BY <1>1, <2>1
  <2> HIDE DEF Empty
  <2> QED BY <2>2 DEF IsDisk
<1>7. Table(rows) /\ Table(Empty)
  <2>1. rows = [x \in DOMAIN rows |-> rows[x]] /\ \A x \in DOMAIN rows : rows[x] \in Row
    BY <1>1, <1>4
  <2>2. Table(rows) BY <2>1, RowsTable
  <2>3. Table(Empty) BY DEF Table, Empty
  <2> QED BY <2>2, <2>3
<1>8. ASSUME NEW i \in DOMAIN rows PROVE RowOK(i)
  <2>1. rows[i] = OldRow /\ i \in 1 .. old BY <1>1
  <2>2. i \in Links /\ i < nextId BY <1>1, <1>3, <2>1 DEF Links
  <2> QED BY <1>4, <1>5, <1>6, <2>1, <2>2 DEF RowOK
<1>9. DiskOK BY <1>6, <1>7, <1>8 DEF DiskOK, Empty
<1>10. CountersOK
  <2>1. nextId \in 1 .. (MaxLinks + 1) BY <1>1, <1>3
  <2>2. nextPkg \in 1 .. (MaxPackages + 1) /\ nextPos \in 1 .. (PosBound + 1) BY <1>1, <1>3
  <2>3. maxActive \in Int /\ maxActive >= 1 BY <1>1, BoundsAssumption
  <2> QED BY <1>1, <2>1, <2>2, <2>3 DEF CountersOK
<1>11. Reviewed BY <1>1, <1>5, <1>6 DEF Reviewed
<1>12. DOMAIN items = {} /\ DOMAIN pkgs = {} /\ DOMAIN pkgRows = {} BY <1>1 DEF Empty
<1>13. Core
  <2>1. \A i \in DOMAIN rows : i \in Links /\ i < nextId BY <1>6, <1>8 DEF RowOK
  <2>2. /\ cells \in [Links -> {"free", "clear", "set"}]
        /\ \A i \in Links : cells[i] = "free"
    BY <1>1
  <2>3. GlobalOK BY <1>1, <1>10, <1>12, <2>1, <2>2 DEF GlobalOK, CountersOK
  <2> QED BY <1>12, <2>3 DEF Core
<1>14. Tables /\ AllShown(cut) /\ AtWork
  BY <1>1, <1>12 DEF Tables, Empty, AllShown, AtWork, Running
<1>15. AsideOK /\ AsideShown(cut)
  <2>1. \A i \in DOMAIN rows : rows[i] = OldRow BY <1>1
  <2> QED BY <1>1, <1>4, <1>5, <2>1 DEF AsideOK, AsideShown, NotLoaded
<1>16. Brought
  <2>1. /\ Leads(todo, 0, "downloads", disk.downloads, rows)
        /\ Leads(todo, 0, "packages", disk.packages, pkgRows)
    BY <1>1, <1>6, <1>7, LeadsNowhere
  <2>2. Unlinked(todo, 0) = {} BY <1>1 DEF Unlinked
  <2>3. Brings(todo, 0, disk, rows, pkgRows, partial) BY <1>1, <1>6, <2>1, <2>2 DEF Brings
  <2>4. \E B : todo \in Seq(B) BY <1>1
  <2> QED BY <2>3, <2>4 DEF Brought
<1>17. Fitting /\ SamePackage BY <1>1, <1>6 DEF Fitting, SamePackage
<1>18. QueueInv BY <1>13, <1>14, <1>15, <1>16, <1>17 DEF QueueInv
<1>19. ScanOK BY <1>1 DEF ScanOK, NoScan, Scanning
<1>20. LoadOK BY <1>1, <1>12 DEF LoadOK, Fresh, Up
<1> QED BY <1>1, <1>9, <1>10, <1>11, <1>18, <1>19, <1>20 DEF StoreInv, Phases

LEMMA StoreStutters == ASSUME StoreInv, UNCHANGED queueAndStore PROVE StoreInv'
<1>1. UNCHANGED vars /\ UNCHANGED <<disk, todo, phase, scan, twice, early, cut>>
  BY DEF queueAndStore, storeVars
<1>2. phase \in Phases /\ ScanOK /\ LoadOK BY DEF StoreInv
<1>3. ScanOK' BY <1>1, <1>2 DEF ScanOK, Scanning
<1>4. LoadOK' BY <1>1, <1>2, LoadStutters
<1> QED BY <1>1, <1>2, <1>3, <1>4, ScanGoesOn

\* The inductive invariant: wherever the process is, between two statements of a
\* verb, dead, opening, scanning or between two loads, what is on disk can be
\* loaded and shown, what is still to be written leads to what memory says, and
\* what has not been loaded is as the tables have it.
THEOREM StoreInductive == StoreSpec => []StoreInv
<1>1. StoreInv /\ [StoreNext]_queueAndStore => StoreInv'
  <2> SUFFICES ASSUME StoreInv, [StoreNext]_queueAndStore PROVE StoreInv'
    OBVIOUS
  <2>1. CASE UNCHANGED queueAndStore BY <2>1, StoreStutters
  <2>2. CASE Callers BY <2>2, CallersKeep
  <2>3. CASE Schedules BY <2>3, SchedulesKeep
  <2>4. CASE Works BY <2>4, WorksKeep
  <2>5. CASE Statement BY <2>5, StatementKeeps
  <2>6. CASE Opens
    <3>1. CASE ReadPackage \/ ReadRow BY <3>1, ReadKeeps DEF ReadPackage, ReadRow, Scanning
    <3>2. CASE Open \/ LoadPackages \/ LoadFails \/ PackagesLoaded \/ Loads
      BY <3>2, OpenKeeps, LoadPackagesKeeps, LoadFailsKeeps, PackagesLoadedKeeps, LoadsKeep
    <3> QED BY <2>6, <3>1, <3>2 DEF Opens
  <2>7. CASE Dies BY <2>7, DiesKeep
  <2> QED BY <2>1, <2>2, <2>3, <2>4, <2>5, <2>6, <2>7 DEF StoreNext
<1> QED BY <1>1, StoreInitOK, PTL DEF StoreSpec

LEMMA StoreTyped == ASSUME StoreInv PROVE StoreTypeOK
<1>1. DiskOK /\ CountersOK /\ ScanOK /\ phase \in Phases /\ twice \in BOOLEAN /\ early \in BOOLEAN
  BY DEF StoreInv
<1>2. TypeOK BY CoreTyped DEF StoreInv, QueueInv, AsideOK
<1>3. scan.refs \subseteq 1 .. (MaxLinks + MaxPackages) /\ scan.lost \in BOOLEAN
  <2>0. MaxLinks \in Nat /\ MaxPackages \in Nat BY BoundsAssumption
  <2>1. CASE scan = NoScan BY <2>1 DEF NoScan
  <2>2. CASE scan # NoScan
    <3>1. scan.refs \subseteq DOMAIN disk.downloads \/ scan.refs \subseteq DOMAIN disk.packages
      BY <1>1, <2>2 DEF ScanOK
    <3>2. \A i \in DOMAIN disk.downloads : i \in 1 .. (MaxLinks + MaxPackages)
      BY <1>1, <2>0 DEF DiskOK, RowOK, Links
    <3>3. \A p \in DOMAIN disk.packages : p \in 1 .. (MaxLinks + MaxPackages)
      BY <1>1, <2>0 DEF DiskOK, Packages
    <3> QED BY <1>1, <3>1, <3>2, <3>3 DEF ScanOK
  <2> QED BY <2>1, <2>2
<1> QED BY <1>1, <1>2, <1>3 DEF StoreTypeOK, CountersOK

\* What is on disk and what the verb has still to write are, together, what
\* QueueScheduler's verb says of the tables and the part files, in a process that
\* has loaded its queue, half of it, or none.
THEOREM VerbsWrittenOut == StoreSpec => []WrittenOut
<1>1. StoreInv => WrittenOut
  <2> SUFFICES ASSUME StoreInv PROVE WrittenOut
    OBVIOUS
  <2>1. StoreTypeOK BY StoreTyped
  <2>2. PICK B : todo \in Seq(B) /\ Brings(todo, 0, disk, rows, pkgRows, partial)
    BY DEF StoreInv, QueueInv, Brought
  <2>3. LET written == After(disk, todo) IN
        /\ written.downloads = rows /\ written.packages = pkgRows
        /\ written.parts = partial
    BY <2>2, BringsAfter
  <2> QED BY <2>1, <2>3 DEF WrittenOut
<1> QED BY <1>1, StoreInductive, PTL

\* Wherever the process dies, every part file on disk has a row that the next
\* process loads.
THEOREM NoPartForgotten == StoreSpec => []PartsListed
<1>1. StoreInv => PartsListed BY DEF StoreInv, DiskOK, PartsListed
<1> QED BY <1>1, StoreInductive, PTL

\* Wherever the process dies, a link of the linkgrabber has its package stored,
\* and as one of the linkgrabber, unless a confirm of it was cut or under way, or
\* a process that had not loaded the link confirmed or removed the package.
THEOREM ReviewOutlives == StoreSpec => []ReviewSurvives
<1>1. StoreInv => ReviewSurvives
  <2> SUFFICES ASSUME StoreInv,
                      NEW i \in DOMAIN disk.downloads, disk.downloads[i].list = "linkgrabber",
                      NEW p, p = disk.downloads[i].pkg
               PROVE  \/ p \in cut
                      \/ /\ p \in DOMAIN disk.packages
                         /\ disk.packages[p].list = "linkgrabber" \/ p \in Confirming
    BY DEF ReviewSurvives
  <2>1. \/ p \in cut
        \/ /\ p \in DOMAIN disk.packages
           /\ disk.packages[p].list = "linkgrabber" \/ Writes(todo, 0, "downloads", i, "list")
    BY DEF StoreInv, Reviewed
  <2>2. ASSUME Writes(todo, 0, "downloads", i, "list") PROVE p \in Confirming
    BY <2>2, WritesConfirming
  <2> QED BY <2>1, <2>2
<1> QED BY <1>1, StoreInductive, PTL

LEMMA UpMirrors == StoreInv /\ Up => StoreMirrors
BY LoadedMirrors DEF StoreInv, QueueInv, LoadOK

\* After however many failed loads, and whatever verbs and ticks did before and
\* between them, a load that is through leaves the lists a mirror of the tables;
\* in a process that left its queue alone it is what QueueScheduler says of load().
THEOREM OnlyWholeLoads == StoreSpec => LoadWhole
<1>1. StoreInv /\ [StoreNext]_queueAndStore
        => [~Up /\ Up' => early \/ twice' \/ Restart]_queueAndStore
  <2> SUFFICES ASSUME StoreInv, StoreNext, ~Up, Up', ~early PROVE Restart
    OBVIOUS
  <2>1. ~ (UNCHANGED phase) BY DEF Up
  <2>2. ~ Callers
    BY <2>1 DEF Callers, Adds, Confirms, LgRemoves, Removes, Sets, Reorders, Globals, Issues
  <2>3. ~ Schedules BY <2>1 DEF Schedules, Issues
  <2>4. ~ (Works \/ Statement \/ Dies) BY <2>1 DEF Works, Statement, Dies, Up
  <2>5. Opens => Loads
    BY <2>1 DEF Opens, Open, LoadPackages, Scan, ReadPackage, ReadRow, Read, LoadFails,
       PackagesLoaded, Up
  <2>6. Loads BY <2>2, <2>3, <2>4, <2>5 DEF StoreNext
  <2> QED BY <2>6, LoadsRestart
<1>2. (StoreInv /\ Up)' => StoreMirrors' BY UpMirrors, PTL
<1>3. StoreInv /\ StoreInv' /\ [StoreNext]_queueAndStore
        => [~Up /\ Up' => StoreMirrors' /\ (early \/ twice' \/ Restart)]_queueAndStore
  BY <1>1, <1>2
<1>4. StoreSpec => [][~Up /\ Up' => StoreMirrors' /\ (early \/ twice' \/ Restart)]_queueAndStore
  BY <1>3, StoreInductive, PTL DEF StoreSpec
<1> QED BY <1>4 DEF LoadWhole

---------------------------------------------------------------------------
(* The queue above its store *)

\* What QueueScheduler's verbs keep whatever was in the file the queue came from,
\* and however much of it has been loaded.
QueueSafe ==
  /\ ActiveIffWorker /\ CellsOwned /\ CancelReachesWorker /\ RemovalStands
  /\ StagedNeverRuns /\ PauseAllStops

LEMMA CoreSafe == Core => QueueSafe
<1> SUFFICES ASSUME Core PROVE QueueSafe
  OBVIOUS
<1>1. ActiveIffWorker BY DEF Core, LinkOK, Worked, ActiveIffWorker
<1>2. CellsOwned BY DEF Core, GlobalOK, LinkOK, Typed, Worked, CellsOwned
<1>3. CancelReachesWorker BY DEF Core, LinkOK, Worked, Running, CancelReachesWorker
<1>4. RemovalStands BY DEF Core, LinkOK, Worked, RemovalStands
<1>5. StagedNeverRuns BY DEF Core, LinkOK, Shelved, Staged, StagedNeverRuns
<1>6. PauseAllStops BY DEF Core, LinkOK, Worked, Running, PauseAllStops
<1> QED BY <1>1, <1>2, <1>3, <1>4, <1>5, <1>6 DEF QueueSafe

LEMMA UpOwnsParts == StoreInv /\ Up => NoOrphanPartial
  BY DEF StoreInv, QueueInv, LoadOK, AllLoaded, Core, GlobalOK, NoOrphanPartial

\* The queue's own invariants hold in every process, the ones included that begin
\* with what an earlier process left in the file half-written, and the ones that
\* run on half of it; and once a load is through the rows mirror the lists and
\* each part file has its link in them.
THEOREM QueueAboveStore ==
  StoreSpec => [](QueueSafe /\ (Up => StoreMirrors /\ NoOrphanPartial))
<1>1. StoreInv => QueueSafe /\ (Up => StoreMirrors /\ NoOrphanPartial)
  BY CoreSafe, UpMirrors, UpOwnsParts DEF StoreInv, QueueInv
<1> QED BY <1>1, StoreInductive, PTL
===========================================================================
