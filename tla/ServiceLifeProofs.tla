------------------------- MODULE ServiceLifeProofs -------------------------
(* The queue never holds work that nothing drives, and the locks never       *)
(* outlive the loop that releases them: for any links, any cap, any number   *)
(* of idle ticks and any number of start commands on their way.              *)
EXTENDS ServiceLife, TLAPS

States == {"none", "waiting", "active", "off", "over"}

\* Work that somebody has to drive.
Driven == (Active \cup Waiting) \ Silent

\* Where the loop stands while it may still see work before it stops.
Turning == {"tick", "look", "recheck"}

\* A process that is gone has loaded nothing; until the load every list holds
\* at most what a failed load left; the loop gives the locks up before it goes
\* on to stop; and, more than WorkHasService says, a loop that has decided to
\* stop does not count as one that drives the work.
LifeInv ==
  /\ TypeOK
  /\ ~up => loaded = "no"
  /\ loaded \in {"no", "loading"} => pkgListed <= 1
  /\ loaded \in {"no", "loading"} => \A l \in Links : listed[l] <= 1
  /\ locks => loop \in {"tick", "look"}
  /\ loaded = "yes" /\ Driven # {} =>
       loop \in Turning \/ pending > 0 \/ owed \/ swallowed

---------------------------------------------------------------------------
(* Of two numbers *)

LEMMA LessOfTwo ==
  ASSUME NEW a \in Nat, NEW b \in Nat
  PROVE  Min({a, b}) = IF a <= b THEN a ELSE b
<1> DEFINE m == IF a <= b THEN a ELSE b
<1>1. m \in {a, b} /\ \A y \in {a, b} : m <= y OBVIOUS
<1>2. Min({a, b}) \in {a, b} /\ \A y \in {a, b} : Min({a, b}) <= y
  <2> HIDE DEF m
  <2> QED BY <1>1, Zenon DEF Min
<1>3. Min({a, b}) <= m /\ m <= Min({a, b}) BY <1>1, <1>2, Zenon
<1>4. Min({a, b}) \in Nat /\ m \in Nat BY <1>2
<1> HIDE DEF m
<1>5. Min({a, b}) = m BY <1>3, <1>4, SMT
<1> QED BY <1>5 DEF m

LEMMA MoreOfTwo ==
  ASSUME NEW a \in Nat, NEW b \in Nat
  PROVE  Max({a, b}) = IF a <= b THEN b ELSE a
<1> DEFINE m == IF a <= b THEN b ELSE a
<1>1. m \in {a, b} /\ \A y \in {a, b} : m >= y OBVIOUS
<1>2. Max({a, b}) \in {a, b} /\ \A y \in {a, b} : Max({a, b}) >= y
  <2> HIDE DEF m
  <2> QED BY <1>1, Zenon DEF Max
<1>3. Max({a, b}) >= m /\ m >= Max({a, b}) BY <1>1, <1>2, Zenon
<1>4. Max({a, b}) \in Nat /\ m \in Nat BY <1>2
<1> HIDE DEF m
<1>5. Max({a, b}) = m BY <1>3, <1>4, SMT
<1> QED BY <1>5 DEF m

\* A start command that is given is on its way, whatever is on its way already.
LEMMA OneMoreIsSome ==
  ASSUME pending \in 0..MaxStarts
  PROVE  OneMore \in 0..MaxStarts /\ OneMore > 0
<1>1. MaxStarts \in Nat /\ MaxStarts > 0 BY ServiceAssumption
<1>2. pending \in Nat /\ pending + 1 \in Nat BY <1>1
<1>3. OneMore = IF pending + 1 <= MaxStarts THEN pending + 1 ELSE MaxStarts
  BY <1>1, <1>2, LessOfTwo DEF OneMore
<1> QED BY <1>1, <1>2, <1>3

LEMMA IdleCountedIsSome ==
  ASSUME idleTicks \in 0..IdleTicks
  PROVE  IdleCounted \in 0..IdleTicks
<1>1. IdleTicks \in Nat /\ IdleTicks > 0 BY ServiceAssumption
<1>2. idleTicks \in Nat /\ idleTicks + 1 \in Nat BY <1>1
<1>3. IdleCounted = IF idleTicks + 1 <= IdleTicks THEN idleTicks + 1 ELSE IdleTicks
  BY <1>1, <1>2, LessOfTwo DEF IdleCounted
<1> QED BY <1>1, <1>2, <1>3

---------------------------------------------------------------------------
(* The process and its load *)

\* TypeOK, its Booleans one by one.
LEMMA Flags ==
  TypeOK <=>
    /\ up \in BOOLEAN /\ front \in BOOLEAN /\ service \in BOOLEAN
    /\ owed \in BOOLEAN /\ swallowed \in BOOLEAN /\ locks \in BOOLEAN
    /\ row \in [Links -> {"none", "waiting", "off", "over"}]
    /\ item \in [Links -> States]
    /\ listed \in [Links -> 0..2] /\ pkgListed \in 0..2
    /\ loaded \in {"no", "loading", "resuming", "yes"}
    /\ loop \in Stages /\ idleTicks \in 0..IdleTicks /\ pending \in 0..MaxStarts
    /\ (loop # "off" => service) /\ (service \/ front => up)
BY DEF TypeOK, States

LEMMA BoundsAreNumbers ==
  /\ MaxStarts \in Nat /\ MaxStarts > 0 /\ 1 \in 0..MaxStarts /\ 0 \in 0..MaxStarts
  /\ IdleTicks \in Nat /\ IdleTicks > 0 /\ 0 \in 0..IdleTicks
BY ServiceAssumption

LEMMA LifeStarts == Init => LifeInv
<1> SUFFICES ASSUME Init PROVE LifeInv
  OBVIOUS
<1>1. /\ row \in [Links -> {"none", "waiting", "off", "over"}]
      /\ item \in [Links -> States] /\ listed \in [Links -> 0..2]
      /\ \A l \in Links : listed[l] <= 1
  BY DEF Init, States
<1>2. pkgListed = 0 /\ idleTicks = 0 /\ pending = 0 /\ loaded = "no" /\ loop = "off"
  BY DEF Init
<1>3. /\ ~up /\ ~front /\ ~service /\ ~owed /\ ~swallowed /\ ~locks
      /\ up \in BOOLEAN /\ front \in BOOLEAN /\ service \in BOOLEAN
      /\ owed \in BOOLEAN /\ swallowed \in BOOLEAN /\ locks \in BOOLEAN
  BY Zenon DEF Init
<1>4. TypeOK BY <1>1, <1>2, <1>3, BoundsAreNumbers, Flags DEF Stages
<1> QED BY <1>1, <1>2, <1>3, <1>4 DEF LifeInv

LEMMA LaunchKeeps ==
  ASSUME LifeInv, NEW foreground \in BOOLEAN, Launch(foreground)
  PROVE  LifeInv'
BY Flags DEF Launch, LifeInv, TypeOK, queue, svc

LEMMA AppKeeps ==
  ASSUME LifeInv, OpenApp \/ CloseApp
  PROVE  LifeInv'
<1>1. /\ up' = up /\ up /\ front' \in BOOLEAN
      /\ UNCHANGED <<queue, loaded, svc, pending, owed, swallowed>>
  BY Zenon DEF OpenApp, CloseApp
<1>2. Driven' = Driven BY <1>1 DEF queue, Driven, Active, Waiting, Listed
<1>3. TypeOK' BY <1>1 DEF LifeInv, TypeOK, queue, svc
<1> QED BY <1>1, <1>2, <1>3 DEF LifeInv, queue, svc

LEMMA LoadKeeps ==
  ASSUME LifeInv, Load
  PROVE  LifeInv'
<1>1. TypeOK' BY DEF Load, LifeInv, TypeOK, svc, Stages
<1> QED BY <1>1 DEF Load, LifeInv, svc

LEMMA LoadFailsKeeps ==
  ASSUME LifeInv, LoadFails
  PROVE  LifeInv'
BY DEF LoadFails, LifeInv, TypeOK, svc, Stages

LEMMA ResumeLoadedKeeps ==
  ASSUME LifeInv, ResumeLoaded
  PROVE  LifeInv'
<1>1. PICK refused \in {FALSE, ~MayStart} :
        /\ pending' = IF HasWork /\ ~refused THEN OneMore ELSE pending
        /\ swallowed' = (HasWork /\ refused)
  BY DEF ResumeLoaded
<1>2. loaded = "resuming" /\ loaded' = "yes" /\ UNCHANGED <<up, front, queue, svc, owed>>
  BY DEF ResumeLoaded
<1>3. Driven' = Driven BY <1>2 DEF queue, Driven, Active, Waiting, Listed
<1>4. OneMore \in 0..MaxStarts /\ OneMore > 0 BY OneMoreIsSome DEF LifeInv, TypeOK
<1>5. swallowed' \in BOOLEAN /\ pending' \in 0..MaxStarts
  BY <1>1, <1>4 DEF LifeInv, TypeOK
<1>6. TypeOK' BY <1>2, <1>5 DEF LifeInv, TypeOK, queue, svc
<1>7. Driven # {} => HasWork BY DEF Driven, HasWork
<1>8. Driven' # {} => pending' > 0 \/ swallowed'
  BY <1>1, <1>3, <1>4, <1>7
<1> QED BY <1>2, <1>6, <1>8 DEF LifeInv, queue, svc

\* The process ends, by a crash or by a start command that was refused.
LEMMA EndKeeps ==
  ASSUME LifeInv, Crash \/ EnsureServiceRefused
  PROVE  LifeInv'
<1>1. /\ up' = FALSE /\ front' = FALSE /\ loaded' = "no" /\ Fresh
      /\ pending' \in {0, 1} /\ UNCHANGED row
  BY DEF Crash, EnsureServiceRefused
<1>2. pending' \in 0..MaxStarts BY <1>1, BoundsAreNumbers
<1>3. /\ {up', front', service', owed', swallowed', locks'} \subseteq BOOLEAN
      /\ ~service' /\ ~front' /\ ~locks'
  BY <1>1, Zenon DEF Fresh
<1>4. /\ item' \in [Links -> States] /\ listed' \in [Links -> 0..2]
      /\ \A l \in Links : listed'[l] <= 1
  BY <1>1 DEF Fresh, States
<1>5. pkgListed' = 0 /\ loop' = "off" /\ idleTicks' = 0 BY <1>1 DEF Fresh
<1>6. TypeOK' BY <1>1, <1>2, <1>3, <1>4, <1>5, BoundsAreNumbers DEF LifeInv, TypeOK, Stages, States
<1> QED BY <1>1, <1>3, <1>4, <1>5, <1>6 DEF LifeInv

---------------------------------------------------------------------------
(* The verbs and the workers *)

\* A verb or a worker changes what one link is.
LEMMA PutTypes ==
  ASSUME TypeOK, NEW l \in Links, NEW state \in States \ {"none"}, Put(l, state)
  PROVE  /\ item' \in [Links -> States]
         /\ row' \in [Links -> {"none", "waiting", "off", "over"}]
         /\ item'[l] = state /\ \A k \in Links : k # l => item'[k] = item[k]
<1> DEFINE r == IF state = "active" THEN "waiting" ELSE state
<1>1. item' = [item EXCEPT ![l] = state] /\ row' = [row EXCEPT ![l] = r] BY DEF Put
<1>2. r \in {"waiting", "off", "over"} BY DEF States
<1> HIDE DEF r
<1> QED BY <1>1, <1>2 DEF TypeOK, States

LEMMA QueueKeeps ==
  ASSUME LifeInv, NEW l \in Links, Queue(l)
  PROVE  LifeInv'
<1>1. /\ loaded \in {"no", "yes"} /\ Put(l, "waiting") /\ owed' = TRUE
      /\ listed' = [listed EXCEPT ![l] = Max({listed[l], 1})]
      /\ UNCHANGED <<up, front, pkgListed, loaded, svc, pending, swallowed>>
  BY DEF Queue, CanAct
<1>2. listed[l] \in 0..2 /\ listed[l] \in Nat BY DEF LifeInv, TypeOK
<1>3. Max({listed[l], 1}) = IF listed[l] <= 1 THEN 1 ELSE listed[l] BY <1>2, MoreOfTwo
<1> DEFINE n == Max({listed[l], 1})
<1>4. n \in 0..2 /\ (listed[l] <= 1 => n <= 1) BY <1>2, <1>3
<1> HIDE DEF n
<1>5. listed' \in [Links -> 0..2] BY <1>1, <1>4 DEF LifeInv, TypeOK, n
<1>6. (\A k \in Links : listed[k] <= 1) => \A k \in Links : listed'[k] <= 1
  BY <1>1, <1>4 DEF LifeInv, TypeOK, n
<1>7. /\ item' \in [Links -> States]
      /\ row' \in [Links -> {"none", "waiting", "off", "over"}]
  BY <1>1, PutTypes DEF LifeInv, States
<1>8. TypeOK' BY <1>1, <1>5, <1>7 DEF LifeInv, TypeOK, svc, States
<1> QED BY <1>1, <1>6, <1>8 DEF LifeInv, svc

LEMMA EnableKeeps ==
  ASSUME LifeInv, NEW l \in Links, Enable(l)
  PROVE  LifeInv'
<1>1. /\ l \in Silent /\ Put(l, "waiting")
      /\ UNCHANGED <<up, front, listed, pkgListed, loaded, svc, pending, owed, swallowed>>
  BY DEF Enable
<1>2. /\ item' \in [Links -> States]
      /\ row' \in [Links -> {"none", "waiting", "off", "over"}]
      /\ \A k \in Links : k # l => item'[k] = item[k]
  BY <1>1, PutTypes DEF LifeInv, States
<1>3. Driven' = Driven
  BY <1>1, <1>2 DEF Driven, Active, Waiting, Listed
<1>4. TypeOK' BY <1>1, <1>2 DEF LifeInv, TypeOK, svc, States
<1> QED BY <1>1, <1>3, <1>4 DEF LifeInv, svc

\* Work is withdrawn, or its transfer ends: there is no more of it than before.
LEMMA LessWorkKeeps ==
  ASSUME LifeInv, NEW l \in Links, TurnOff(l) \/ WorkerEnds(l)
  PROVE  LifeInv'
<1>1. /\ l \in Active \cup Waiting
      /\ \E state \in {"over", "off", "waiting"} : Put(l, state)
      /\ UNCHANGED <<up, front, listed, pkgListed, loaded, svc, pending, owed, swallowed>>
  BY DEF TurnOff, WorkerEnds
<1>2. /\ item' \in [Links -> States]
      /\ row' \in [Links -> {"none", "waiting", "off", "over"}]
      /\ \A k \in Links : k # l => item'[k] = item[k]
  BY <1>1, PutTypes DEF LifeInv, States
<1>3. Driven' \subseteq Driven
  BY <1>1, <1>2 DEF Driven, Active, Waiting, Listed
<1>4. TypeOK' BY <1>1, <1>2 DEF LifeInv, TypeOK, svc, States
<1> QED BY <1>1, <1>3, <1>4 DEF LifeInv, svc

LEMMA EnsureServiceKeeps ==
  ASSUME LifeInv, EnsureService
  PROVE  LifeInv'
<1>1. OneMore \in 0..MaxStarts /\ OneMore > 0 BY OneMoreIsSome DEF LifeInv, TypeOK
<1>2. /\ owed' = FALSE /\ pending' = OneMore /\ swallowed' = FALSE
      /\ UNCHANGED <<up, front, queue, loaded, svc>>
  BY DEF EnsureService
<1>3. TypeOK' BY <1>1, <1>2 DEF LifeInv, TypeOK, queue, svc
<1> QED BY <1>1, <1>2, <1>3 DEF LifeInv, queue, svc

---------------------------------------------------------------------------
(* The service *)

LEMMA CreateKeeps ==
  ASSUME LifeInv, Create
  PROVE  LifeInv'
<1>1. /\ up /\ ~service /\ service' = TRUE /\ loop' = "tick" /\ idleTicks' = 0
      /\ loaded' = Claim /\ swallowed' = FALSE
      /\ UNCHANGED <<up, front, queue, locks, pending, owed>>
  BY DEF Create
<1>2. loaded' \in {"no", "loading", "resuming", "yes"}
      /\ (loaded' \in {"no", "loading"} => loaded \in {"no", "loading"})
  BY <1>1 DEF LifeInv, TypeOK, Claim
<1>3. TypeOK' BY <1>1, <1>2, BoundsAreNumbers DEF LifeInv, TypeOK, queue, Stages
<1> QED BY <1>1, <1>2, <1>3 DEF LifeInv, queue, Turning

\* A command that is delivered while the loop stands leaves it turning.
LEMMA OnStartCommandKeeps ==
  ASSUME LifeInv, OnStartCommand
  PROVE  LifeInv'
<1>1. /\ service /\ pending > 0 /\ ~MainBusy /\ pending' = pending - 1
      /\ loop' = LoopRevived
      /\ UNCHANGED <<up, front, queue, loaded, service, idleTicks, locks, owed, swallowed>>
  BY DEF OnStartCommand
<1>2. pending' \in 0..MaxStarts
  <2>1. pending \in 0..MaxStarts BY DEF LifeInv, TypeOK
  <2> QED BY <1>1, <2>1, BoundsAreNumbers
<1>3. loop' \in {"tick", "look"} /\ (loop # "off" => loop' = loop)
  BY <1>1 DEF LifeInv, TypeOK, Stages, MainBusy, LoopRevived
<1>4. TypeOK' BY <1>1, <1>2, <1>3 DEF LifeInv, TypeOK, queue, Stages
<1> QED BY <1>1, <1>3, <1>4 DEF LifeInv, queue, Turning

\* A tick makes waiting links active; that is still work.
LEMMA TickKeeps ==
  ASSUME LifeInv, Tick
  PROVE  LifeInv'
<1>1. /\ loop = "tick" /\ loop' = "look"
      /\ UNCHANGED <<up, front, row, listed, pkgListed, loaded, service, idleTicks,
                     locks, pending, owed, swallowed>>
  BY DEF Tick
<1>2. item' \in [Links -> States]
  <2>1. PICK S \in SUBSET Waiting : item' = [l \in Links |-> IF l \in S THEN "active" ELSE item[l]]
    BY DEF Tick
  <2> QED BY <2>1 DEF LifeInv, TypeOK, States
<1>3. TypeOK' BY <1>1, <1>2 DEF LifeInv, TypeOK, Stages, States
<1> QED BY <1>1, <1>3 DEF LifeInv, Turning

\* The loop stops only after ticks with nothing to do, the last of which has
\* let the locks go.
LEMMA LookKeeps ==
  ASSUME LifeInv, Look
  PROVE  LifeInv'
<1>1. /\ loop = "look" /\ locks' = LocksFor
      /\ idleTicks' = IF HasWork THEN 0 ELSE IdleCounted
      /\ loop' = IF idleTicks' = IdleTicks THEN "recheck" ELSE "tick"
      /\ UNCHANGED <<up, front, queue, loaded, service, pending, owed, swallowed>>
  BY DEF Look
<1>2. Driven' = Driven BY <1>1 DEF queue, Driven, Active, Waiting, Listed
<1>3. IdleCounted \in 0..IdleTicks BY IdleCountedIsSome DEF LifeInv, TypeOK
<1>4. idleTicks' \in 0..IdleTicks BY <1>1, <1>3, BoundsAreNumbers
<1>5. loop' \in Turning BY <1>1 DEF Turning
<1>6. locks' => loop' = "tick"
  <2>1. locks' => HasWork BY <1>1 DEF LocksFor, HasWork
  <2>2. HasWork => idleTicks' # IdleTicks BY <1>1, BoundsAreNumbers
  <2> QED BY <1>1, <2>1, <2>2
<1>7. locks' \in BOOLEAN BY <1>1 DEF LocksFor
<1>8. TypeOK' BY <1>1, <1>4, <1>5, <1>7 DEF LifeInv, TypeOK, queue, Stages, Turning
<1> QED BY <1>1, <1>5, <1>6, <1>8 DEF LifeInv, queue

\* What arrives between the last look and the stop is seen by the second look,
\* or was announced by a command that is still to come.
LEMMA RecheckKeeps ==
  ASSUME LifeInv, Recheck
  PROVE  LifeInv'
<1>1. /\ loop = "recheck" /\ loop' = IF HasWork THEN "tick" ELSE "stop"
      /\ idleTicks' = IF HasWork THEN 0 ELSE idleTicks
      /\ UNCHANGED <<up, front, queue, loaded, service, locks, pending, owed, swallowed>>
  BY DEF Recheck
<1>2. Driven' = Driven BY <1>1 DEF queue, Driven, Active, Waiting, Listed
<1>3. Driven # {} => HasWork BY DEF Driven, HasWork
<1>4. TypeOK' BY <1>1, BoundsAreNumbers DEF LifeInv, TypeOK, queue, Stages
<1> QED BY <1>1, <1>2, <1>3, <1>4 DEF LifeInv, queue, Turning

LEMMA StopSelfKeeps ==
  ASSUME LifeInv, StopSelf
  PROVE  LifeInv'
<1>1. /\ loop = "stop" /\ loop' = "off"
      /\ UNCHANGED <<up, front, queue, loaded, owed, swallowed>>
  BY DEF StopSelf
<1>2. /\ pending' = pending /\ locks = FALSE /\ locks' = FALSE
      /\ service' \in {service, FALSE} /\ idleTicks' \in {idleTicks, 0}
  BY <1>1 DEF StopSelf, NoLaterStart, LifeInv, TypeOK
<1>3. Driven' = Driven BY <1>1 DEF queue, Driven, Active, Waiting, Listed
<1>4. TypeOK' BY <1>1, <1>2, BoundsAreNumbers DEF LifeInv, TypeOK, queue, Stages
<1> QED BY <1>1, <1>2, <1>3, <1>4 DEF LifeInv, queue, Turning

---------------------------------------------------------------------------
(* The invariant, and what follows *)

LEMMA LifeStutters == LifeInv /\ UNCHANGED vars => LifeInv'
<1> SUFFICES ASSUME LifeInv, UNCHANGED vars PROVE LifeInv'
  OBVIOUS
<1>1. Driven' = Driven BY DEF vars, queue, Driven, Active, Waiting, Listed
<1> QED BY <1>1 DEF LifeInv, TypeOK, vars, queue, svc

LEMMA LifeStep == LifeInv /\ Next => LifeInv'
BY LaunchKeeps, AppKeeps, LoadKeeps, LoadFailsKeeps, ResumeLoadedKeeps, EndKeeps,
   QueueKeeps, EnableKeeps, LessWorkKeeps, EnsureServiceKeeps, CreateKeeps,
   OnStartCommandKeeps, TickKeeps, LookKeeps, RecheckKeeps, StopSelfKeeps
   DEF Next, Service

\* The inductive invariant of the process, its load, the verbs and the service.
THEOREM LifeInductive == Spec => []LifeInv
<1> QED BY LifeStarts, LifeStep, LifeStutters, PTL DEF Spec

\* Work that the queue holds after its load has a running loop, a start command
\* on its way to one, or a verb that has still to give one (ensureService,
\* stopSelf(lastStartId)), for any number of links and commands, with the two
\* exceptions the property names.
THEOREM WorkIsServed == Spec => []WorkHasService
<1>1. LifeInv => WorkHasService
  BY DEF LifeInv, WorkHasService, Driven, Turning
<1> QED BY <1>1, LifeInductive, PTL

\* Wake lock and Wi-Fi lock are never held without a loop that will look at
\* them again (updateLocks, onDestroy of DownloadService).
THEOREM LocksAreOwned == Spec => []LocksOwned
<1>1. LifeInv => LocksOwned
  BY DEF LifeInv, TypeOK, LocksOwned
<1> QED BY <1>1, LifeInductive, PTL
=============================================================================
