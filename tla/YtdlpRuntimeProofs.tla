------------------------- MODULE YtdlpRuntimeProofs -------------------------
(* The gate of the yt-dlp runtime keeps updates and users apart, for any     *)
(* number of callers of each kind.                                           *)
EXTENDS YtdlpRuntime, FiniteSetTheorems, TLAPS

Slot == {"starting", "running", "killed", "leaving"}
Writing == {"updating", "updated"}
Holding == {"claim", "updating", "updated"}
Before == {"idle", "init", "unpacking"}

\* The flag and the count of the gate are what they stand for, each mutex is
\* held by the coroutine that says so, and past ensureInit the runtime is ready.
GateInv ==
  /\ TypeOK
  /\ updateInProgress <=> Updating # {}
  /\ activeRuntimeUsers = Cardinality(Using)
  /\ Updating # {} => Using = {}
  /\ \A p \in Procs : updateHolder = p <=> pc[p] \in Holding
  /\ \A p \in Procs : initHolder = p <=> pc[p] = "unpacking"
  /\ initHolder # Nobody => state = "PREPARING"
  /\ \A p \in Procs : pc[p] \notin Before => state = "READY"
  /\ pc[Background] \in {"idle", "update"} \cup Holding
  /\ updating <=> pc[Background] # "idle"

LEMMA GateStarts == Init => GateInv
<1> SUFFICES ASSUME Init PROVE GateInv
  OBVIOUS
<1>1. Using = {} /\ Updating = {} BY CallersAssumption DEF Init, Using, Updating, Procs, Readers, Callers
<1>2. Cardinality({}) = 0 /\ 0 \in Nat BY FS_EmptySet
<1> QED BY <1>1, <1>2, CallersAssumption
     DEF Init, GateInv, TypeOK, YtdlpState, Steps, Holding, Before, Procs

---------------------------------------------------------------------------
(* One coroutine moves *)

LEMMA MovedTo ==
  ASSUME TypeOK, NEW p \in Procs, NEW s \in Steps, Goto(p, s)
  PROVE  /\ pc' \in [Procs -> Steps] /\ pc'[p] = s
         /\ \A q \in Procs : q # p => pc'[q] = pc[q]
BY DEF TypeOK, Goto

\* Who uses and who rewrites the runtime is the same before and after a move
\* that neither begins nor ends it.
LEMMA SidesStay ==
  ASSUME NEW p \in Procs, \A q \in Procs : q # p => pc'[q] = pc[q],
         pc[p] \in Slot <=> pc'[p] \in Slot, pc[p] \in Writing <=> pc'[p] \in Writing
  PROVE  Using' = Using /\ Updating' = Updating
BY DEF Using, Updating, Readers, Procs, Callers, Slot, Writing

LEMMA UsingFinite == IsFiniteSet(Using) /\ Cardinality(Using) \in Nat
<1>1. Using \in SUBSET Callers BY DEF Using, Readers, Callers
<1>2. IsFiniteSet(Using) BY <1>1, CallersAssumption, FS_Subset
<1> QED BY <1>2, FS_CardinalityType

\* A move between two steps that mean the same to the gate and the mutexes.
LEMMA PlainMove ==
  ASSUME GateInv, NEW p \in Procs, NEW s \in Steps, Goto(p, s), p # Background,
         pc[p] \in Slot <=> s \in Slot, pc[p] \in Writing <=> s \in Writing,
         pc[p] \in Holding <=> s \in Holding, pc[p] = "unpacking" <=> s = "unpacking",
         s \in Before \/ state = "READY",
         UNCHANGED <<state, locks, gate, updating>>,
         due' \in BOOLEAN, cancelled' \subseteq Downloads, watching' \subseteq Downloads
  PROVE  GateInv'
<1>1. /\ pc' \in [Procs -> Steps] /\ pc'[p] = s
      /\ \A q \in Procs : q # p => pc'[q] = pc[q]
  BY MovedTo DEF GateInv
<1>2. Using' = Using /\ Updating' = Updating BY <1>1, SidesStay
<1>3. Background \in Procs BY DEF Procs
<1>4. TypeOK' BY <1>1 DEF GateInv, TypeOK, locks, gate
<1> QED BY <1>1, <1>2, <1>3, <1>4 DEF GateInv, locks, gate

\* Nothing the gate looks at changes.
LEMMA GateStays ==
  ASSUME GateInv, UNCHANGED <<state, locks, gate, updating, pc>>,
         due' \in BOOLEAN, cancelled' \subseteq Downloads, watching' \subseteq Downloads
  PROVE  GateInv'
<1>1. Using' = Using /\ Updating' = Updating BY DEF Using, Updating
<1>2. TypeOK' BY DEF GateInv, TypeOK, locks, gate
<1> QED BY <1>1, <1>2 DEF GateInv, locks, gate

---------------------------------------------------------------------------
(* Each step keeps the gate *)

LEMMA CallersApart == ASSUME NEW t \in Callers PROVE t \in Procs /\ t # Background /\ t # Nobody
BY CallersAssumption DEF Procs

LEMMA CallKeeps ==
  ASSUME GateInv, NEW t \in Callers, Call(t)
  PROVE  GateInv'
<1>1. cancelled' \subseteq Downloads BY DEF Call, GateInv, TypeOK
<1> QED BY <1>1, CallersApart, PlainMove
     DEF Call, Slot, Writing, Holding, Before, Steps, GateInv, TypeOK

LEMMA AlreadyKeeps ==
  ASSUME GateInv, NEW t \in Callers, AlreadyUnpacked(t)
  PROVE  GateInv'
BY CallersApart, PlainMove
   DEF AlreadyUnpacked, kills, Slot, Writing, Holding, Before, Steps, GateInv, TypeOK

LEMMA UnpackKeeps ==
  ASSUME GateInv, NEW t \in Callers, Unpack(t)
  PROVE  GateInv'
<1>1. t \in Procs /\ t # Background /\ t # Nobody BY CallersApart
<1>2. /\ pc[t] = "init" /\ initHolder = Nobody /\ state # "READY" /\ Goto(t, "unpacking")
      /\ state' = "PREPARING" /\ initHolder' = t
      /\ UNCHANGED <<updateHolder, gate, updating, due, kills>>
  BY DEF Unpack, NotReady
<1>3. /\ pc' \in [Procs -> Steps] /\ pc'[t] = "unpacking"
      /\ \A q \in Procs : q # t => pc'[q] = pc[q]
  BY <1>1, <1>2, MovedTo DEF GateInv, Steps
<1>4. Using' = Using /\ Updating' = Updating BY <1>1, <1>2, <1>3, SidesStay DEF Slot, Writing
<1>5. \A q \in Procs : pc'[q] \in Before BY <1>2, <1>3 DEF GateInv, Before
<1>6. TypeOK' BY <1>2, <1>3 DEF GateInv, TypeOK, gate, kills, YtdlpState
<1>7. Background \in Procs BY DEF Procs
<1>8. \A q \in Procs : updateHolder' = q <=> pc'[q] \in Holding
  BY <1>1, <1>2, <1>3 DEF GateInv, Holding
<1>9. \A q \in Procs : initHolder' = q <=> pc'[q] = "unpacking"
  BY <1>1, <1>2, <1>3, CallersAssumption DEF GateInv
<1> QED BY <1>1, <1>2, <1>3, <1>4, <1>5, <1>6, <1>7, <1>8, <1>9 DEF GateInv, gate

LEMMA UnpackedKeeps ==
  ASSUME GateInv, NEW t \in Callers, NEW ok \in BOOLEAN, Unpacked(t, ok)
  PROVE  GateInv'
<1> DEFINE s == IF ok THEN "ready" ELSE "idle"
<1>1. t \in Procs /\ t # Background /\ t # Nobody BY CallersApart
<1>2. /\ pc[t] = "unpacking" /\ initHolder' = Nobody /\ Goto(t, s)
      /\ state' = IF ok THEN "READY" ELSE "FAILED"
      /\ UNCHANGED <<updateHolder, gate, updating, due, kills>>
  BY DEF Unpacked
<1>3. s \in Steps /\ s \in {"ready", "idle"} BY DEF Steps
<1>4. /\ pc' \in [Procs -> Steps] /\ pc'[t] = s
      /\ \A q \in Procs : q # t => pc'[q] = pc[q]
  BY <1>1, <1>2, <1>3, MovedTo DEF GateInv
<1>5. Using' = Using /\ Updating' = Updating
  BY <1>1, <1>2, <1>3, <1>4, SidesStay DEF Slot, Writing
<1>6. initHolder = t /\ state = "PREPARING" BY <1>1, <1>2 DEF GateInv
<1>7. \A q \in Procs : pc[q] \in Before BY <1>6 DEF GateInv
<1>8. \A q \in Procs : pc'[q] \notin Before => state' = "READY"
  BY <1>2, <1>3, <1>4, <1>7 DEF Before
<1>9. TypeOK' BY <1>2, <1>4 DEF GateInv, TypeOK, gate, kills, YtdlpState
<1>10. \A q \in Procs : updateHolder' = q <=> pc'[q] \in Holding
  BY <1>1, <1>2, <1>3, <1>4 DEF GateInv, Holding
<1>11. \A q \in Procs : initHolder' = q <=> pc'[q] = "unpacking"
  BY <1>1, <1>2, <1>3, <1>4, <1>6, CallersAssumption DEF GateInv
<1>12. Background \in Procs BY DEF Procs
<1> QED BY <1>1, <1>2, <1>4, <1>5, <1>8, <1>9, <1>10, <1>11, <1>12 DEF GateInv, gate

LEMMA ReadyNowKeeps ==
  ASSUME GateInv, NEW t \in Callers, ReadyNow(t)
  PROVE  GateInv'
<1> DEFINE fire == due /\ ~updating
<1>1. t \in Procs /\ t # Background /\ t # Nobody /\ Background \in Procs
  BY CallersApart DEF Procs
<1>2. /\ pc[t] = "ready"
      /\ pc' = [pc EXCEPT ![t] = "wait", ![Background] = IF fire THEN "update" ELSE @]
      /\ updating' = (updating \/ fire)
      /\ UNCHANGED <<state, locks, gate, due, cancelled>>
      /\ watching' \subseteq Downloads
  BY DEF ReadyNow, GateInv, TypeOK
<1>3. /\ pc' \in [Procs -> Steps] /\ pc'[t] = "wait"
      /\ pc'[Background] = IF fire THEN "update" ELSE pc[Background]
      /\ \A q \in Procs : q # t /\ q # Background => pc'[q] = pc[q]
  BY <1>1, <1>2 DEF GateInv, TypeOK, Steps
<1>4. fire => pc[Background] = "idle" BY DEF GateInv
<1>5. Using' = Using /\ Updating' = Updating
  <2>1. \A q \in Procs : /\ pc[q] \in Slot <=> pc'[q] \in Slot
                         /\ pc[q] \in Writing <=> pc'[q] \in Writing
    BY <1>1, <1>2, <1>3, <1>4 DEF Slot, Writing
  <2> QED BY <2>1 DEF Using, Updating, Slot, Writing, Readers, Procs, Callers
<1>6. state = "READY" BY <1>1, <1>2 DEF GateInv, Before
<1>7. \A q \in Procs : /\ pc[q] \in Holding <=> pc'[q] \in Holding
                       /\ pc[q] = "unpacking" <=> pc'[q] = "unpacking"
  BY <1>1, <1>2, <1>3, <1>4 DEF Holding
<1>8. TypeOK' BY <1>2, <1>3 DEF GateInv, TypeOK, locks, gate
<1>9. pc'[Background] \in {"idle", "update"} \cup Holding
      /\ (updating' <=> pc'[Background] # "idle")
  <2> HIDE DEF fire
  <2>1. CASE fire
    <3>1. updating' BY <1>2, <2>1, Zenon
    <3>2. pc'[Background] = "update" BY <1>3, <2>1, Zenon
    <3> QED BY <3>1, <3>2
  <2>2. CASE ~fire BY <1>2, <1>3, <2>2 DEF GateInv
  <2> QED BY <2>1, <2>2
<1> QED BY <1>2, <1>5, <1>6, <1>7, <1>8, <1>9 DEF GateInv, locks, gate

LEMMA ReadyToUpdateKeeps ==
  ASSUME GateInv, NEW t \in Callers, ReadyToUpdate(t)
  PROVE  GateInv'
<1> DEFINE s == IF due \/ t \in Checks THEN "update" ELSE "idle"
<1>1. t \in Procs /\ t # Background BY CallersApart
<1>2. pc[t] = "ready" /\ Goto(t, s) /\ UNCHANGED <<state, locks, gate, updating, due, kills>>
  BY DEF ReadyToUpdate
<1>3. s \in Steps /\ s \in {"update", "idle"} BY DEF Steps
<1>4. state = "READY" BY <1>1, <1>2 DEF GateInv, Before
<1> HIDE DEF s
<1> QED BY <1>1, <1>2, <1>3, <1>4, PlainMove
     DEF kills, Slot, Writing, Holding, Before, GateInv, TypeOK

LEMMA WaitingKeeps ==
  ASSUME GateInv, NEW t \in Readers, Spawn(t) \/ ExecuteReturns(t)
  PROVE  GateInv'
<1>1. t \in Callers BY DEF Readers, Callers
<1>2. t \in Procs /\ t # Background BY <1>1, CallersApart
<1>3. PICK s \in {"running", "leaving"} : Goto(t, s) BY DEF Spawn, ExecuteReturns
<1>4. pc[t] \in Slot /\ s \in Slot /\ s \in Steps BY DEF Spawn, ExecuteReturns, Slot, Steps
<1>5. state = "READY" BY <1>2, <1>4 DEF GateInv, Before, Slot
<1>6. UNCHANGED <<state, locks, gate, updating, due, kills>> BY DEF Spawn, ExecuteReturns
<1>7. /\ pc[t] \notin Writing /\ s \notin Writing /\ pc[t] \notin Holding /\ s \notin Holding
      /\ pc[t] # "unpacking" /\ s # "unpacking"
  BY <1>4 DEF Slot, Writing, Holding
<1> QED BY <1>2, <1>3, <1>4, <1>5, <1>6, <1>7, PlainMove DEF kills, GateInv, TypeOK

LEMMA CancelsKeep ==
  ASSUME GateInv, NEW t \in Downloads, CancelDownload(t) \/ WatcherFires(t)
  PROVE  GateInv'
<1>1. t \in Callers /\ t \in Readers BY DEF Callers, Readers
<1>2. t \in Procs /\ t # Background BY <1>1, CallersApart
<1>3. /\ UNCHANGED <<state, locks, gate, updating, due>>
      /\ due' \in BOOLEAN /\ cancelled' \subseteq Downloads /\ watching' \subseteq Downloads
  BY DEF CancelDownload, WatcherFires, GateInv, TypeOK
<1>4. CASE pc' = pc BY <1>3, <1>4, GateStays
<1>5. CASE pc' = [pc EXCEPT ![t] = "killed"] /\ pc[t] = "running"
  <2>1. Goto(t, "killed") BY <1>5 DEF Goto
  <2>2. state = "READY" BY <1>2, <1>5 DEF GateInv, Before
  <2> QED BY <1>2, <1>3, <1>5, <2>1, <2>2, PlainMove DEF Slot, Writing, Holding, Steps
<1> QED BY <1>4, <1>5 DEF CancelDownload, WatcherFires

---------------------------------------------------------------------------
(* Updates *)

LEMMA TakeMutexKeeps ==
  ASSUME GateInv, NEW p \in Procs, TakeUpdateMutex(p)
  PROVE  GateInv'
<1>1. /\ pc[p] = "update" /\ updateHolder = Nobody /\ updateHolder' = p /\ Goto(p, "claim")
      /\ UNCHANGED <<state, initHolder, gate, updating, due, kills>>
  BY DEF TakeUpdateMutex
<1>2. /\ pc' \in [Procs -> Steps] /\ pc'[p] = "claim"
      /\ \A q \in Procs : q # p => pc'[q] = pc[q]
  BY <1>1, MovedTo DEF GateInv, Steps
<1>3. Using' = Using /\ Updating' = Updating BY <1>1, <1>2, SidesStay DEF Slot, Writing
<1>4. \A q \in Procs : pc[q] \notin Holding BY <1>1, CallersAssumption DEF GateInv
<1>5. \A q \in Procs : updateHolder' = q <=> pc'[q] \in Holding
  BY <1>1, <1>2, <1>4 DEF Holding
<1>6. state = "READY" BY <1>1 DEF GateInv, Before
<1>7. TypeOK' BY <1>1, <1>2 DEF GateInv, TypeOK, gate, kills
<1>8. \A q \in Procs : initHolder' = q <=> pc'[q] = "unpacking" BY <1>1, <1>2 DEF GateInv
<1>9. /\ pc'[Background] \in {"idle", "update"} \cup Holding
      /\ updating' <=> pc'[Background] # "idle"
  BY <1>1, <1>2 DEF GateInv, Holding, Procs
<1> QED BY <1>1, <1>3, <1>5, <1>6, <1>7, <1>8, <1>9 DEF GateInv, gate

\* An update begins where nothing uses the runtime; the mutex has kept the others
\* out.
LEMMA ClaimKeeps ==
  ASSUME GateInv, NEW p \in Procs, Claim(p)
  PROVE  GateInv'
<1>1. /\ pc[p] = "claim" /\ activeRuntimeUsers = 0 /\ updateInProgress' = TRUE
      /\ Goto(p, "updating")
      /\ UNCHANGED <<state, locks, activeRuntimeUsers, updating, due, kills>>
  BY DEF Claim, RuntimeIdle
<1>2. /\ pc' \in [Procs -> Steps] /\ pc'[p] = "updating"
      /\ \A q \in Procs : q # p => pc'[q] = pc[q]
  BY <1>1, MovedTo DEF GateInv, Steps
<1>3. Using = {} BY <1>1, UsingFinite, FS_EmptySet DEF GateInv
<1>4. Using' = Using BY <1>1, <1>2 DEF Using, Readers, Procs, Callers
<1>5. p \in Updating' BY <1>2 DEF Updating
<1>6. state = "READY" BY <1>1 DEF GateInv, Before
<1>7. TypeOK' BY <1>1, <1>2 DEF GateInv, TypeOK, locks, kills
<1>8. \A q \in Procs : /\ pc[q] \in Holding <=> pc'[q] \in Holding
                       /\ pc[q] = "unpacking" <=> pc'[q] = "unpacking"
  BY <1>1, <1>2 DEF Holding
<1>9. /\ pc'[Background] \in {"idle", "update"} \cup Holding
      /\ updating' <=> pc'[Background] # "idle"
  BY <1>1, <1>2 DEF GateInv, Holding, Procs
<1> QED BY <1>1, <1>3, <1>4, <1>5, <1>6, <1>7, <1>8, <1>9 DEF GateInv, locks

\* What runUpdate leaves behind: a free mutex, and the background's flag down.
LEMMA LeaveKeeps ==
  ASSUME GateInv, NEW p \in Procs, pc[p] \in Holding, Leave(p), Updating' = {},
         updateInProgress' = FALSE, due' \in BOOLEAN,
         UNCHANGED <<state, initHolder, activeRuntimeUsers, kills>>
  PROVE  GateInv'
<1>1. /\ updateHolder' = Nobody /\ Goto(p, "idle")
      /\ updating' = IF p = Background THEN FALSE ELSE updating
  BY DEF Leave
<1>2. /\ pc' \in [Procs -> Steps] /\ pc'[p] = "idle"
      /\ \A q \in Procs : q # p => pc'[q] = pc[q]
  BY <1>1, MovedTo DEF GateInv, Steps
<1>3. Using' = Using BY <1>2 DEF Using, Readers, Procs, Callers, Holding
<1>4. \A q \in Procs : q # p => pc[q] \notin Holding BY DEF GateInv
<1>5. \A q \in Procs : updateHolder' = q <=> pc'[q] \in Holding
  BY <1>1, <1>2, <1>4, CallersAssumption DEF Holding
<1>6. \A q \in Procs : initHolder' = q <=> pc'[q] = "unpacking"
  BY <1>2 DEF GateInv, Holding
<1>7. \A q \in Procs : pc'[q] \notin Before => state' = "READY"
  BY <1>2 DEF GateInv, Before
<1>8. TypeOK' BY <1>1, <1>2 DEF GateInv, TypeOK, kills
<1>9. /\ pc'[Background] \in {"idle", "update"} \cup Holding
      /\ updating' <=> pc'[Background] # "idle"
  BY <1>1, <1>2 DEF GateInv, Procs
<1> QED BY <1>3, <1>5, <1>6, <1>7, <1>8, <1>9 DEF GateInv

\* Only the holder of the mutex is ever between the claim and the release.
LEMMA OneUpdates ==
  ASSUME GateInv, NEW p \in Procs, pc[p] \in Holding
  PROVE  Updating \subseteq {p}
BY DEF GateInv, Updating, Holding

LEMMA DeferKeeps ==
  ASSUME GateInv, NEW p \in Procs, Defer(p)
  PROVE  GateInv'
<1>1. /\ pc[p] = "claim" /\ Leave(p) /\ pc[p] \in Holding
      /\ UNCHANGED <<state, initHolder, gate, due, kills>>
  BY DEF Defer, Holding
<1>2. Updating = {} BY <1>1, OneUpdates DEF Updating
<1>3. \A q \in Procs : q # p => pc'[q] = pc[q] BY <1>1 DEF Leave, Goto, GateInv, TypeOK
<1>4. pc'[p] = "idle" BY <1>1 DEF Leave, Goto, GateInv, TypeOK
<1>5. Updating' = {} BY <1>2, <1>3, <1>4 DEF Updating
<1> QED BY <1>1, <1>2, <1>5, LeaveKeeps DEF GateInv, TypeOK, gate

LEMMA UpdateEndsKeeps ==
  ASSUME GateInv, NEW p \in Procs, NEW ok \in BOOLEAN, UpdateEnds(p, ok)
  PROVE  GateInv'
<1>1. /\ pc[p] = "updating" /\ Goto(p, "updated") /\ due' \in BOOLEAN
      /\ UNCHANGED <<state, locks, gate, updating, kills>>
  BY DEF UpdateEnds
<1>2. /\ pc' \in [Procs -> Steps] /\ pc'[p] = "updated"
      /\ \A q \in Procs : q # p => pc'[q] = pc[q]
  BY <1>1, MovedTo DEF GateInv, Steps
<1>3. Using' = Using /\ Updating' = Updating BY <1>1, <1>2, SidesStay DEF Slot, Writing
<1>4. state = "READY" BY <1>1 DEF GateInv, Before
<1>5. TypeOK' BY <1>1, <1>2 DEF GateInv, TypeOK, locks, gate, kills
<1>6. \A q \in Procs : /\ pc[q] \in Holding <=> pc'[q] \in Holding
                       /\ pc[q] = "unpacking" <=> pc'[q] = "unpacking"
  BY <1>1, <1>2 DEF Holding
<1>7. /\ pc'[Background] \in {"idle", "update"} \cup Holding
      /\ updating' <=> pc'[Background] # "idle"
  BY <1>1, <1>2 DEF GateInv, Holding, Procs
<1> QED BY <1>1, <1>3, <1>4, <1>5, <1>6, <1>7 DEF GateInv, locks, gate

LEMMA ReleaseGateKeeps ==
  ASSUME GateInv, NEW p \in Procs, ReleaseGate(p)
  PROVE  GateInv'
<1>1. /\ pc[p] = "updated" /\ Leave(p) /\ pc[p] \in Holding /\ updateInProgress' = FALSE
      /\ UNCHANGED <<state, initHolder, activeRuntimeUsers, due, kills>>
  BY DEF ReleaseGate, Holding, GateOpened
<1>2. Updating \subseteq {p} BY <1>1, OneUpdates
<1>3. \A q \in Procs : q # p => pc'[q] = pc[q] BY <1>1 DEF Leave, Goto, GateInv, TypeOK
<1>4. pc'[p] = "idle" BY <1>1 DEF Leave, Goto, GateInv, TypeOK
<1>5. Updating' = {} BY <1>2, <1>3, <1>4 DEF Updating
<1> QED BY <1>1, <1>5, LeaveKeeps DEF GateInv, TypeOK

---------------------------------------------------------------------------
(* Users *)

LEMMA AcquireKeeps ==
  ASSUME GateInv, NEW t \in Readers, Acquire(t)
  PROVE  GateInv'
<1>1. /\ pc[t] = "wait" /\ ~updateInProgress /\ activeRuntimeUsers' = activeRuntimeUsers + 1
      /\ Goto(t, "starting")
      /\ UNCHANGED <<state, locks, updateInProgress, updating, due, kills>>
  BY DEF Acquire
<1>2. t \in Procs /\ t # Background
  <2>1. t \in Callers BY DEF Readers, Callers
  <2> QED BY <2>1, CallersApart
<1>3. /\ pc' \in [Procs -> Steps] /\ pc'[t] = "starting"
      /\ \A q \in Procs : q # t => pc'[q] = pc[q]
  BY <1>1, <1>2, MovedTo DEF GateInv, Steps
<1>4. Updating' = Updating /\ Updating = {} BY <1>1, <1>2, <1>3 DEF Updating, GateInv
<1>5. Using' = Using \cup {t} /\ t \notin Using
  BY <1>1, <1>3 DEF Using, Readers, Procs, Callers
<1>6. Cardinality(Using') = Cardinality(Using) + 1 BY <1>5, UsingFinite, FS_AddElement
<1>7. activeRuntimeUsers' = Cardinality(Using') /\ activeRuntimeUsers' \in Nat
  BY <1>1, <1>6, UsingFinite DEF GateInv
<1>8. state = "READY" BY <1>1, <1>2 DEF GateInv, Before
<1>9. TypeOK' BY <1>1, <1>3, <1>7 DEF GateInv, TypeOK, locks, kills
<1>10. \A q \in Procs : /\ pc[q] \in Holding <=> pc'[q] \in Holding
                        /\ pc[q] = "unpacking" <=> pc'[q] = "unpacking"
  BY <1>1, <1>3 DEF Holding
<1>11. pc'[Background] = pc[Background] BY <1>2, <1>3 DEF Procs
<1> QED BY <1>1, <1>4, <1>7, <1>8, <1>9, <1>10, <1>11 DEF GateInv, locks

LEMMA ReleaseSlotKeeps ==
  ASSUME GateInv, NEW t \in Readers, ReleaseSlot(t)
  PROVE  GateInv'
<1>1. /\ pc[t] = "leaving" /\ activeRuntimeUsers' = activeRuntimeUsers - 1 /\ Goto(t, "idle")
      /\ UNCHANGED <<state, locks, updateInProgress, updating, due, cancelled>>
      /\ watching' \subseteq Downloads
  BY DEF ReleaseSlot, GateInv, TypeOK
<1>2. t \in Procs /\ t # Background
  <2>1. t \in Callers BY DEF Readers, Callers
  <2> QED BY <2>1, CallersApart
<1>3. /\ pc' \in [Procs -> Steps] /\ pc'[t] = "idle"
      /\ \A q \in Procs : q # t => pc'[q] = pc[q]
  BY <1>1, <1>2, MovedTo DEF GateInv, Steps
<1>4. Updating' = Updating BY <1>1, <1>2, <1>3 DEF Updating
<1>5. Using' = Using \ {t} /\ t \in Using
  BY <1>1, <1>3 DEF Using, Readers, Procs, Callers
<1>6. Cardinality(Using') = Cardinality(Using) - 1 BY <1>5, UsingFinite, FS_RemoveElement
<1>7. Cardinality(Using') \in Nat
  <2>1. IsFiniteSet(Using') BY <1>5, UsingFinite, FS_RemoveElement
  <2> QED BY <2>1, FS_CardinalityType
<1>8. activeRuntimeUsers' = Cardinality(Using') /\ activeRuntimeUsers' \in Nat
  BY <1>1, <1>6, <1>7 DEF GateInv
<1>9. Updating = {} BY <1>5 DEF GateInv
<1>10. TypeOK' BY <1>1, <1>3, <1>8 DEF GateInv, TypeOK, locks
<1>11. \A q \in Procs : /\ pc[q] \in Holding <=> pc'[q] \in Holding
                        /\ pc[q] = "unpacking" <=> pc'[q] = "unpacking"
  BY <1>1, <1>3 DEF Holding
<1>12. \A q \in Procs : pc'[q] \notin Before => state' = "READY"
  BY <1>1, <1>3 DEF GateInv, Before
<1>13. pc'[Background] = pc[Background] BY <1>2, <1>3 DEF Procs
<1> QED BY <1>1, <1>4, <1>8, <1>9, <1>10, <1>11, <1>12, <1>13 DEF GateInv, locks

\* A cancelled coroutine frees the mutex it holds, and held no slot.
LEMMA AbandonKeeps ==
  ASSUME GateInv, NEW t \in Callers, Abandon(t)
  PROVE  GateInv'
<1>1. /\ pc[t] \in {"init", "update", "claim", "wait"} /\ Goto(t, "idle")
      /\ updateHolder' = IF updateHolder = t THEN Nobody ELSE updateHolder
      /\ UNCHANGED <<state, initHolder, gate, updating, due, kills>>
  BY DEF Abandon
<1>2. t \in Procs /\ t # Background BY CallersApart
<1>3. /\ pc' \in [Procs -> Steps] /\ pc'[t] = "idle"
      /\ \A q \in Procs : q # t => pc'[q] = pc[q]
  BY <1>1, <1>2, MovedTo DEF GateInv, Steps
<1>4. Using' = Using /\ Updating' = Updating BY <1>1, <1>2, <1>3, SidesStay DEF Slot, Writing
<1>5. \A q \in Procs : updateHolder' = q <=> pc'[q] \in Holding
  BY <1>1, <1>2, <1>3, CallersAssumption DEF GateInv, Holding
<1>6. \A q \in Procs : initHolder' = q <=> pc'[q] = "unpacking"
  BY <1>1, <1>2, <1>3 DEF GateInv
<1>7. \A q \in Procs : pc'[q] \notin Before => state' = "READY"
  BY <1>1, <1>3 DEF GateInv, Before
<1>8. TypeOK' BY <1>1, <1>3 DEF GateInv, TypeOK, gate, kills
<1>9. pc'[Background] = pc[Background] BY <1>2, <1>3 DEF Procs
<1> QED BY <1>1, <1>4, <1>5, <1>6, <1>7, <1>8, <1>9 DEF GateInv, gate

---------------------------------------------------------------------------

LEMMA GateStep ==
  ASSUME GateInv, [Next]_vars
  PROVE  GateInv'
<1>1. CASE \E t \in Callers :
             \/ Call(t) \/ Starting(t) \/ Abandon(t)
             \/ \E ok \in BOOLEAN : Unpacked(t, ok)
  BY <1>1, CallKeeps, AlreadyKeeps, UnpackKeeps, UnpackedKeeps, ReadyNowKeeps, ReadyToUpdateKeeps,
     AbandonKeeps DEF Starting
<1>2. CASE \E p \in Procs :
             \/ TakeUpdateMutex(p) \/ Updates(p)
             \/ \E ok \in BOOLEAN : UpdateEnds(p, ok)
  BY <1>2, TakeMutexKeeps, ClaimKeeps, DeferKeeps, ReleaseGateKeeps, UpdateEndsKeeps DEF Updates
<1>3. CASE \E t \in Readers : Acquire(t) \/ Spawn(t) \/ ExecuteReturns(t) \/ ReleaseSlot(t)
  BY <1>3, AcquireKeeps, WaitingKeeps, ReleaseSlotKeeps
<1>4. CASE \E t \in Downloads : CancelDownload(t) \/ WatcherFires(t)
  BY <1>4, CancelsKeep
<1>5. CASE WeekPasses
  BY <1>5, GateStays DEF WeekPasses, kills, GateInv, TypeOK
<1>6. CASE UNCHANGED vars
  BY <1>6, GateStays DEF vars, locks, gate, GateInv, TypeOK
<1> QED BY <1>1, <1>2, <1>3, <1>4, <1>5, <1>6 DEF Next

THEOREM GateInductive == Spec => []GateInv
BY GateStarts, GateStep, PTL DEF Spec

\* The flag of the gate is up exactly while an update is under way, and its count
\* is the number of users, on every path, cancelled or not (withRuntimeUse and
\* runUpdate, YtdlpManager.kt).
THEOREM GateIsHonest == Spec => []GateHonest
<1>1. GateInv => GateHonest BY DEF GateInv, GateHonest
<1> QED BY <1>1, GateInductive, PTL

\* No update meets a user or another update, whichever of the three paths it came
\* by (runUpdate); what runs or is rewritten is unpacked (ensureInit).
THEOREM UpdatesAreAlone == Spec => []UpdateExcludesUse
<1>1. GateInv => UpdateExcludesUse
  <2> SUFFICES ASSUME GateInv PROVE UpdateExcludesUse
    OBVIOUS
  <2>1. \A p, q \in Updating : p = q BY OneUpdates DEF Updating, Holding
  <2>2. Using # {} \/ Updating # {} => state = "READY"
    BY DEF GateInv, Using, Updating, Before, Readers, Callers, Procs
  <2>3. \A t \in Callers : pc[t] = "unpacking" => state = "PREPARING" /\ initHolder = t
    BY CallersApart DEF GateInv
  <2> QED BY <2>1, <2>2, <2>3 DEF GateInv, UpdateExcludesUse
<1> QED BY <1>1, GateInductive, PTL
=============================================================================
