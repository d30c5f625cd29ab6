---------------------------- MODULE Engine_proofs ----------------------------
(***************************************************************************)
(* Engine for every number of workers, every graph and all lists.  Its     *)
(* threads are a ThreadPool; with a single token, what they do in a pass   *)
(* is one walk of ThreadingStrategy, and the barriers of that walk make up *)
(* for a main latch that the first worker opens.                           *)
(***************************************************************************)
EXTENDS Engine, TLAPS

PoolP == INSTANCE ThreadPool_proofs

\* The walk that the engine's state shows: it has not begun for a worker that
\* has not set out, and its latches are ready once the model is constructed.
PassP == INSTANCE ThreadingStrategy_proofs
             WITH latch <- IF mpc = "spawn" THEN PlannedLatches ELSE latch,
                  pos   <- [t \in Threads |-> IF pos[t] = 0 THEN 1 ELSE pos[t]],
                  pc    <- [t \in Threads |-> IF pos[t] = 0 THEN EntryOf(1) ELSE pc[t]]

USE StrategyAssumption, RoundsAssumption

-----------------------------------------------------------------------------
(* The pool.                                                               *)

\* The two instances of ThreadPool are one.
LEMMA SamePool ==
  /\ Pool!Threads = Threads /\ PoolP!Threads = Threads
  /\ Pool!poolVars = poolVars /\ PoolP!poolVars = poolVars
  /\ Pool!Init <=> PoolP!Init
  /\ Pool!MainStep <=> PoolP!MainStep
  /\ \A t \in Threads : Pool!WorkerStep(t) <=> PoolP!WorkerStep(t)
BY DEF Threads, Pool!Threads, PoolP!Threads, poolVars, Pool!poolVars, PoolP!poolVars,
   Pool!Init, PoolP!Init, Pool!MainStep, PoolP!MainStep, Pool!WorkerStep, PoolP!WorkerStep,
   Pool!MainGoto, PoolP!MainGoto, Pool!WorkersAlone, PoolP!WorkersAlone,
   Pool!MainAlone, PoolP!MainAlone, Pool!WorkerGoto, PoolP!WorkerGoto,
   Pool!Spawn, PoolP!Spawn, Pool!Constructed, PoolP!Constructed, Pool!BeginTasks,
   PoolP!BeginTasks, Pool!TryWait, PoolP!TryWait, Pool!Release, PoolP!Release,
   Pool!AllTold, PoolP!AllTold, Pool!TasksReturn, PoolP!TasksReturn, Pool!Destroy,
   PoolP!Destroy, Pool!SetStop, PoolP!SetStop, Pool!Join, PoolP!Join, Pool!Joined,
   PoolP!Joined, Pool!LoopTest, PoolP!LoopTest, Pool!Wake, PoolP!Wake, Pool!BeginPass,
   PoolP!BeginPass, Pool!SkipPass, PoolP!SkipPass, Pool!EndPass, PoolP!EndPass,
   Pool!TellTest, PoolP!TellTest, Pool!Tell, PoolP!Tell, Pool!Rearm, PoolP!Rearm

\* Every step of the engine is a step of the pool, or leaves the pool alone.
LEMMA PoolStep == [EngineNext]_vars => [Pool!Next]_poolVars
<1> SUFFICES ASSUME [EngineNext]_vars PROVE [Pool!Next]_poolVars
  OBVIOUS
<1>1. CASE EngineMain
  BY <1>1 DEF EngineMain, Construct, PlanLatch, Execute, FreeArena, Pool!Next, Pool!MainStep
<1>2. ASSUME NEW t \in Threads, EngineWorker(t) PROVE [Pool!Next]_poolVars
  BY <1>2, SamePool DEF EngineWorker, CallImpl, WalkOn, ImplReturns, Pool!Next,
     Pool!WorkerStep
<1>3. CASE UNCHANGED vars
  BY <1>3 DEF vars
<1> QED
  BY <1>1, <1>2, <1>3 DEF EngineNext, EngineFinished

\* The two instances of ThreadPool take the same steps.
LEMMA PoolPStep == [EngineNext]_vars => [PoolP!Next]_(PoolP!poolVars)
BY PoolStep, SamePool DEF Pool!Next, PoolP!Next, Pool!Finished, PoolP!Finished,
   poolVars, Pool!poolVars, PoolP!poolVars

LEMMA PoolIInvInit == EngineInit => PoolP!IInv
BY SamePool, PoolP!InitIInv DEF EngineInit

LEMMA PoolIInvStep == PoolP!IInv /\ [EngineNext]_vars => PoolP!IInv'
BY PoolPStep, PoolP!StepIInv

\* The engine's threads are a thread_pool, whatever they do in a pass.
THEOREM EngineIsAPool == EngineSafeSpec => Pool!SafeSpec
<1>1. EngineInit => Pool!Init
  BY DEF EngineInit
<1>2. [EngineNext]_vars => [Pool!Next]_(Pool!poolVars)
  BY PoolStep DEF poolVars, Pool!poolVars
<1> QED
  BY <1>1, <1>2, PTL DEF EngineSafeSpec, Pool!SafeSpec

-----------------------------------------------------------------------------
(* The pass.                                                               *)

\* The walk of the instance is the walk.
LEMMA SameWalk ==
  /\ PassP!Threads = Threads /\ PassP!WalkLength = WalkLength /\ PassP!Walk = Walk
  /\ PassP!BlockingAt = BlockingAt /\ PassP!Slots = Slots /\ PassP!Executed = Executed
  /\ PassP!PlannedLatches = PlannedLatches
  /\ \A i : PassP!EntryOf(i) = EntryOf(i)
<1>1. PassP!FirstInBlocks = FirstInBlocks /\ PassP!LastInBlocks = LastInBlocks
  BY DEF PassP!FirstInBlocks, FirstInBlocks, PassP!LastInBlocks, LastInBlocks
<1>2. PassP!WalkLength = WalkLength
  BY <1>1 DEF PassP!WalkLength, WalkLength
<1>3. PassP!Walk = Walk
  BY <1>1, <1>2 DEF PassP!Walk, Walk
<1>4. PassP!BlockingAt = BlockingAt
  BY <1>2, <1>3 DEF PassP!BlockingAt, BlockingAt
<1>5. PassP!Slots = Slots
  BY <1>3, <1>4 DEF PassP!Slots, Slots
<1>6. PassP!Threads = Threads /\ PassP!PlannedLatches = PlannedLatches
  BY <1>5 DEF PassP!Threads, Threads, PassP!PlannedLatches, PlannedLatches
<1>7. PassP!Executed = Executed
  BY <1>2, <1>3 DEF PassP!Executed, Executed
<1>8. \A i : PassP!EntryOf(i) = EntryOf(i)
  BY <1>2, <1>3 DEF PassP!EntryOf, EntryOf
<1> QED
  BY <1>2, <1>3, <1>4, <1>5, <1>6, <1>7, <1>8

LEMMA WalkIsFinite == WalkLength \in Nat
BY PassP!WalkFacts, MaxCountAssumption, OneLatchEach, InputsComeFirst, InputsAreBehind,
   SameWalk

LEMMA PassIInvStep == PassP!IInv /\ [PassP!Next]_(PassP!walkVars) => PassP!IInv'
BY PassP!StepIInv, MaxCountAssumption, OneLatchEach, InputsComeFirst, InputsAreBehind,
   SameWalk

\* A worker that has set out is through when it is out.
LEMMA OnTheWalk ==
  ASSUME PassP!IInv, WalkTypes, NEW t \in Threads
  PROVE  pos[t] # 0 => (pos[t] > WalkLength <=> pc[t] = "out")
BY SameWalk DEF PassP!IInv, PassP!TypeOK, WalkTypes

\* The arrivals at a blocking operation are those of the walk: a worker that has
\* not set out has come to none.
LEMMA SameCame ==
  ASSUME WalkTypes, NEW i \in BlockingAt
  PROVE  PassP!Came(i) = Came(i)
<1>1. i \in 1 .. WalkLength /\ Walk[i].op \in Blocking
  BY DEF BlockingAt
<1>2. i = 1 => EntryOf(1) = "arrive"
  BY <1>1, WalkIsFinite DEF EntryOf
<1>3. ASSUME NEW t \in Threads PROVE t \in PassP!Came(i) <=> t \in Came(i)
  BY <1>1, <1>2, SameWalk DEF PassP!Came, Came, WalkTypes
<1> QED
  BY <1>3, SameWalk DEF PassP!Came, Came

-----------------------------------------------------------------------------
(* The invariant.                                                          *)

EInv == PoolP!IInv /\ PassP!IInv /\ EIInv

\* An instance of the walk's operators, for a worker that has set out.
LEMMA SamePlace ==
  ASSUME mpc # "spawn", NEW t \in Threads, pos[t] # 0
  PROVE  PassP!At(t) = At(t) /\ PassP!Mine(t) = Mine(t)
BY SameWalk DEF PassP!At, At, PassP!Mine, Mine

LEMMA PassInit == EngineInit => PassP!Init
BY SameWalk DEF EngineInit, PassP!Init, Pool!Init

LEMMA EngineInitInv == EngineInit => EInv
<1> SUFFICES ASSUME EngineInit PROVE EInv
  OBVIOUS
<1>1. PoolP!IInv
  BY PoolIInvInit
<1>2. PassP!IInv
  <2>1. PassP!Init
    BY PassInit
  <2> QED
    BY <2>1, PassP!InitTypes, PassP!InitClosed, MaxCountAssumption, OneLatchEach,
       InputsComeFirst, InputsAreBehind, SameWalk DEF PassP!IInv
<1>3. WalkTypes
  BY WalkIsFinite DEF EngineInit, WalkTypes, Points
<1>4. TypesAgree /\ OnePass /\ ToldByOne /\ Phases
  BY SamePool DEF EngineInit, Pool!Init, TypesAgree, OnePass, ToldByOne, Returned,
     Destroying, Phases
<1> QED
  BY <1>1, <1>2, <1>3, <1>4 DEF EInv, EIInv

-----------------------------------------------------------------------------
(* The engine's steps are steps of the walk.                               *)

LEMMA ReadyStaysReady ==
  ASSUME NEW l \in [gc : {N}, tc : {N}, flags : {{}}]
  PROVE  \A i : ClearFlag(l, i) = l
BY DEF ClearFlag

\* The main thread takes no part in the walk: what its planner resets is reset
\* already.
LEMMA MainPass ==
  ASSUME Rounds = 1, EInv, EngineMain
  PROVE  UNCHANGED PassP!walkVars
<1> USE DEF EInv, EIInv, Phases, PassP!walkVars
<1>1. CASE Construct
  BY <1>1 DEF Construct, Pool!Constructed, Pool!MainGoto
<1>2. CASE PlanLatch
  <2>1. latch = PlannedLatches /\ mpc' = mpc
    BY <1>2 DEF PlanLatch, poolVars, PoolP!IInv, PoolP!TypeOK
  <2>2. latch' = latch
    <3>1. \A s \in Slots : /\ ResetCounter(latch[s], N) = latch[s]
                           /\ \A i : ClearFlag(latch[s], i) = latch[s]
      <4> SUFFICES ASSUME NEW s \in Slots
                   PROVE  /\ ResetCounter(latch[s], N) = latch[s]
                          /\ \A i : ClearFlag(latch[s], i) = latch[s]
        OBVIOUS
      <4>1. latch[s] = [gc |-> N, tc |-> N, flags |-> {}]
        BY <2>1 DEF PlannedLatches
      <4>2. /\ latch[s] \in [gc : {N}, tc : {N}, flags : {{}}]
            /\ \A i : latch[s].flags \ {i} = {}
        BY <4>1
      <4> QED
        BY <4>1, <4>2, ReadyStaysReady DEF ResetCounter, ClearFlag
    <3>2. \A s, l : (s \in Slots => l = latch[s]) => [latch EXCEPT ![s] = l] = latch
      BY <2>1 DEF PlannedLatches
    <3> QED
      BY <1>2, <3>1, <3>2 DEF PlanLatch
  <2> QED
    BY <1>2, <2>1, <2>2 DEF PlanLatch
<1>3. CASE ~Construct /\ ~PlanLatch
  <2>1. UNCHANGED walkVars
    BY <1>3 DEF EngineMain, Execute, FreeArena
  <2>2. mpc = "spawn" <=> mpc' = "spawn"
    BY <1>3 DEF EngineMain, Execute, FreeArena, Pool!Spawn, Pool!TryWait, Pool!Release,
       Pool!AllTold, Pool!TasksReturn, Pool!SetStop, Pool!Join, Pool!Joined,
       Pool!BeginTasks, Pool!Destroy, Pool!MainGoto
  <2> QED
    BY <2>1, <2>2 DEF walkVars
<1> QED
  BY <1>1, <1>2, <1>3

\* A worker calls impl only when it has been told to, and for the first time.
LEMMA FirstPass ==
  ASSUME Rounds = 1, EInv, NEW t \in Threads, CallImpl(t)
  PROVE  pos[t] = 0 /\ passes[t] = 0 /\ round = 1
<1>1. wpc[t] = "check" /\ ~stop
  BY DEF CallImpl, Pool!BeginPass, Pool!WorkerGoto
<1>2. passes[t] < PoolP!Asked(t) /\ passes[t] \in Nat /\ round \in 0 .. 1
  BY <1>1, SamePool DEF EInv, PoolP!IInv, PoolP!WakeInv, PoolP!TypeOK
<1>3. passes[t] = 0 /\ round = 1
  BY <1>2 DEF PoolP!Asked
<1> QED
  BY <1>3 DEF EInv, EIInv, OnePass

LEMMA SameGoto ==
  ASSUME WalkTypes, NEW t \in Threads, pos[t] # 0, NEW p, Goto(t, p)
  PROVE  PassP!Goto(t, p)
BY DEF WalkTypes, Goto, PassP!Goto

LEMMA SameMove ==
  ASSUME WalkTypes, NEW t \in Threads, pos[t] # 0, MoveTo(t, pos[t] + 1)
  PROVE  PassP!MoveTo(t, pos[t] + 1)
<1>1. pos[t] + 1 # 0 /\ PassP!EntryOf(pos[t] + 1) = EntryOf(pos[t] + 1)
  BY SameWalk, WalkIsFinite DEF WalkTypes
<1>2. /\ pos' = [pos EXCEPT ![t] = pos[t] + 1]
      /\ pc' = [pc EXCEPT ![t] = EntryOf(pos[t] + 1)]
  BY DEF MoveTo
<1> QED
  BY <1>1, <1>2 DEF WalkTypes, PassP!MoveTo

\* A worker that walks is in its pass, and the latches are in use.
LEMMA Walking ==
  ASSUME EInv, NEW t \in Threads, WalkOn(t)
  PROVE  /\ pc[t] # "out" /\ wpc[t] = "pass" /\ pos[t] # 0 /\ round # 0
         /\ mpc # "spawn" /\ mpc' = mpc
<1>1. pc[t] # "out" /\ mpc' = mpc
  BY DEF WalkOn, Step, Arrive, Store, Flag, Enter, SyncKernel, AsyncKernel, Leave, Return,
     poolVars
<1> QED
  BY <1>1 DEF EInv, EIInv, TypesAgree, OnePass, Phases

LEMMA WalkPass ==
  ASSUME EInv, NEW t \in Threads, WalkOn(t)
  PROVE  PassP!Step(t)
<1>1. pos[t] # 0 /\ mpc # "spawn" /\ mpc' # "spawn" /\ WalkTypes
  BY Walking DEF EInv, EIInv
<1>2. PassP!At(t) = At(t) /\ PassP!Mine(t) = Mine(t)
  BY <1>1, SamePlace
<1>3. \A l : Change(t, l) => PassP!Change(t, l)
  BY <1>1, <1>2 DEF Change, PassP!Change
<1>4. \A p : Goto(t, p) => PassP!Goto(t, p)
  BY <1>1, SameGoto
<1>5. MoveTo(t, pos[t] + 1) => PassP!MoveTo(t, pos[t] + 1)
  BY <1>1, SameMove
<1>6. LoopIsOver(t) => PassP!LoopIsOver(t)
  BY <1>2 DEF LoopIsOver, PassP!LoopIsOver
<1>7. \A l : /\ PassP!FetchSub(l) = FetchSub(l) /\ PassP!FetchAdd(l) = FetchAdd(l)
            /\ PassP!StoreZero(l) = StoreZero(l) /\ PassP!StoreFull(l) = StoreFull(l)
            /\ PassP!SetFlag(l, next[t]) = SetFlag(l, next[t])
  BY DEF FetchSub, PassP!FetchSub, FetchAdd, PassP!FetchAdd, StoreZero, PassP!StoreZero,
     StoreFull, PassP!StoreFull, SetFlag, PassP!SetFlag
<1>8. \A l : /\ PassP!LastToArrive(l) = LastToArrive(l)
            /\ PassP!LastToLeave(l) = LastToLeave(l)
            /\ PassP!Released(l, t) = Released(l, t)
  BY DEF LastToArrive, PassP!LastToArrive, LastToLeave, PassP!LastToLeave, Released,
     PassP!Released
<1>9. /\ (IF pos[t] = 0 THEN 1 ELSE pos[t]) = pos[t]
      /\ [u \in Threads |-> IF pos[u] = 0 THEN 1 ELSE pos[u]][t] = pos[t]
      /\ [u \in Threads |-> IF pos[u] = 0 THEN EntryOf(1) ELSE pc[u]][t] = pc[t]
  BY <1>1
<1>10. /\ Arrive(t) => PassP!Arrive(t)
       /\ Store(t) => PassP!Store(t)
       /\ Flag(t) => PassP!Flag(t)
       /\ Enter(t) => PassP!Enter(t)
       /\ SyncKernel(t) => PassP!SyncKernel(t)
       /\ AsyncKernel(t) => PassP!AsyncKernel(t)
       /\ Leave(t) => PassP!Leave(t)
       /\ Return(t) => PassP!Return(t)
  <2> USE <1>1, <1>2, <1>3, <1>4, <1>5, <1>6, <1>7, <1>8, <1>9
  <2>1. ASSUME Arrive(t) PROVE PassP!Arrive(t)
    <3>1. PICK p : p = (IF LastToArrive(Mine(t)) THEN "zero" ELSE "spin") /\ Goto(t, p)
      BY <2>1 DEF Arrive
    <3>2. p = IF PassP!LastToArrive(PassP!Mine(t)) THEN "zero" ELSE "spin"
      BY <3>1 DEF LastToArrive, PassP!LastToArrive
    <3>3. PassP!Goto(t, p) /\ PassP!Change(t, PassP!FetchSub(PassP!Mine(t)))
      BY <2>1, <3>1 DEF Arrive
    <3> QED
      BY <2>1, <3>2, <3>3 DEF Arrive, PassP!Arrive, PassP!Goto
  <2>2. Store(t) => PassP!Store(t)
    BY DEF Store, PassP!Store
  <2>3. Flag(t) => PassP!Flag(t)
    BY DEF Flag, PassP!Flag
  <2>4. Enter(t) => PassP!Enter(t)
    BY DEF Enter, PassP!Enter
  <2>5. SyncKernel(t) => PassP!SyncKernel(t)
    BY DEF SyncKernel, PassP!SyncKernel
  <2>6. ASSUME AsyncKernel(t) PROVE PassP!AsyncKernel(t)
    <3>1. PassP!MoveTo(t, pos[t] + 1)
      BY <2>6 DEF AsyncKernel
    <3> QED
      BY <2>6, <3>1 DEF AsyncKernel, PassP!AsyncKernel, PassP!MoveTo
  <2>7. ASSUME Leave(t) PROVE PassP!Leave(t)
    <3>1. PICK p : p = (IF LastToLeave(Mine(t)) THEN "full" ELSE "spin2") /\ Goto(t, p)
      BY <2>7 DEF Leave
    <3>2. p = IF PassP!LastToLeave(PassP!Mine(t)) THEN "full" ELSE "spin2"
      BY <3>1 DEF LastToLeave, PassP!LastToLeave
    <3>3. PassP!Goto(t, p) /\ PassP!Change(t, PassP!FetchAdd(PassP!Mine(t)))
      BY <2>7, <3>1 DEF Leave
    <3> QED
      BY <2>7, <3>2, <3>3 DEF Leave, PassP!Leave, PassP!Goto
  <2>8. ASSUME Return(t) PROVE PassP!Return(t)
    <3>1. PassP!MoveTo(t, pos[t] + 1)
      BY <2>8 DEF Return
    <3> QED
      BY <2>8, <3>1 DEF Return, PassP!Return, PassP!MoveTo
  <2> QED
    BY <2>1, <2>2, <2>3, <2>4, <2>5, <2>6, <2>7, <2>8
<1> QED
  BY <1>10 DEF WalkOn, Step, PassP!Step

-----------------------------------------------------------------------------
(* What the engine adds to the pool and the walk is preserved.             *)

\* The types of the pool's variables, for a single token.
LEMMA PoolTypes ==
  ASSUME Rounds = 1, PoolP!IInv
  PROVE  /\ round \in {0, 1} /\ mainGc \in {0, N} /\ mpc \in PoolP!MainPoints
         /\ wpc \in [Threads -> PoolP!WorkerPoints] /\ passes \in [Threads -> Nat]
BY SamePool DEF PoolP!IInv, PoolP!TypeOK

LEMMA MainEIInv ==
  ASSUME Rounds = 1, EInv, EngineMain
  PROVE  EIInv'
<1> USE PoolTypes DEF EInv, EIInv, Pool!MainGoto, Pool!WorkersAlone
<1> DEFINE PoolOnly == UNCHANGED <<walkVars, planVars, arena>>
<1>1. UNCHANGED <<pos, pc, next, passes>>
  BY DEF EngineMain, Construct, PlanLatch, Execute, FreeArena, poolVars, walkVars,
     Pool!Spawn, Pool!Constructed, Pool!BeginTasks, Pool!TryWait, Pool!Release, Pool!AllTold,
     Pool!TasksReturn, Pool!Destroy, Pool!SetStop, Pool!Join, Pool!Joined
<1>2. WalkTypes'
  BY <1>1 DEF WalkTypes
<1> SUFFICES TypesAgree' /\ OnePass' /\ ToldByOne' /\ Phases'
  BY <1>2
<1> USE DEF TypesAgree, OnePass, ToldByOne, Phases, Returned, Destroying, Through
<1>3. CASE Pool!Spawn /\ PoolOnly
  BY <1>1, <1>3 DEF Pool!Spawn, walkVars
<1>4. CASE Construct
  BY <1>1, <1>4 DEF Construct, Pool!Constructed
<1>5. CASE PlanLatch
  <2>1. UNCHANGED poolVars /\ UNCHANGED arena
    BY <1>5 DEF PlanLatch
  <2>2. round = 0 /\ mpc = "idle"
    BY <1>5 DEF PlanLatch
  <2>3. latch' = latch
    BY <1>5, <2>1, <2>2, MainPass DEF PassP!walkVars, poolVars
  <2> QED
    BY <1>1, <2>1, <2>2, <2>3 DEF poolVars
<1>6. CASE Execute
  BY <1>1, <1>6 DEF Execute, Pool!BeginTasks, walkVars
<1>7. CASE FreeArena
  BY <1>1, <1>7 DEF FreeArena, Pool!Destroy, walkVars
<1>8. CASE (Pool!TryWait \/ Pool!Release \/ Pool!AllTold) /\ PoolOnly
  BY <1>1, <1>8 DEF Pool!TryWait, Pool!Release, Pool!AllTold, walkVars
<1>9. CASE (Pool!TasksReturn \/ Pool!SetStop) /\ PoolOnly
  BY <1>1, <1>9 DEF Pool!TasksReturn, Pool!SetStop, walkVars
<1>10. CASE (Pool!Join \/ Pool!Joined) /\ PoolOnly
  BY <1>1, <1>10 DEF Pool!Join, Pool!Joined, walkVars
<1> QED
  BY <1>3, <1>4, <1>5, <1>6, <1>7, <1>8, <1>9, <1>10 DEF EngineMain

\* A step of the walk moves nobody but the worker that takes it.
LEMMA WalkShape ==
  ASSUME EInv, NEW t \in Threads, WalkOn(t)
  PROVE  /\ pos' = pos \/ pos' = [pos EXCEPT ![t] = pos[t] + 1]
         /\ \E p : pc' = [pc EXCEPT ![t] = p]
         /\ \E n : next' = [next EXCEPT ![t] = n]
<1> USE DEF EInv, EIInv, WalkTypes
<1>1. CASE Arrive(t) \/ Store(t) \/ Enter(t) \/ SyncKernel(t) \/ Leave(t)
  BY <1>1 DEF Arrive, Store, Enter, SyncKernel, Leave, LoopIsOver, Goto
<1>2. CASE Flag(t)
  BY <1>2 DEF Flag
<1>3. CASE AsyncKernel(t) \/ Return(t)
  BY <1>3 DEF AsyncKernel, Return, LoopIsOver, MoveTo
<1> QED
  BY <1>1, <1>2, <1>3 DEF WalkOn, Step

LEMMA WalkOnTypes ==
  ASSUME EInv, NEW t \in Threads, WalkOn(t)
  PROVE  WalkTypes'
<1>1. PassP!TypeOK'
  <2>1. PassP!Next
    BY WalkPass, SameWalk DEF PassP!Next
  <2> QED
    BY <2>1, PassIInvStep DEF EInv, PassP!IInv
<1>2. /\ pos[t] # 0 /\ pos' \in [Threads -> Int] /\ pos'[t] # 0
      /\ \A u \in Threads \ {t} : pos'[u] = pos[u]
  BY WalkShape, Walking, WalkIsFinite DEF EInv, EIInv, WalkTypes
<1>3. pos' \in [Threads -> 0 .. WalkLength + 1]
  BY <1>1, <1>2, SameWalk, WalkIsFinite DEF PassP!TypeOK, EInv, EIInv, WalkTypes
<1>4. pc'[t] \in Points
  BY <1>1, <1>2, SameWalk DEF PassP!TypeOK, PassP!Points, Points
<1>5. pc' \in [Threads -> Points]
  BY <1>4, WalkShape DEF EInv, EIInv, WalkTypes
<1>6. next' \in [Threads -> 0 .. N]
  BY <1>1, SameWalk DEF PassP!TypeOK
<1> QED
  BY <1>3, <1>5, <1>6 DEF WalkTypes

LEMMA WalkOnEIInv ==
  ASSUME EInv, NEW t \in Threads, WalkOn(t)
  PROVE  EIInv'
<1> USE DEF EInv, EIInv
<1>1. /\ UNCHANGED <<mpc, round, mainGc, stop, wpc, passes, arena>>
      /\ pos[t] # 0 /\ pc[t] # "out" /\ wpc[t] = "pass" /\ round # 0 /\ mpc # "spawn"
  BY Walking DEF WalkOn, poolVars
<1>2. WalkTypes'
  BY WalkOnTypes
<1>3. \A u \in Threads \ {t} : pos'[u] = pos[u] /\ pc'[u] = pc[u] /\ next'[u] = next[u]
  BY WalkShape DEF WalkTypes
<1>4. pos'[t] # 0
  <2>1. pos \in [Threads -> Int] /\ pos[t] \in Nat
    BY WalkIsFinite DEF WalkTypes
  <2> QED
    BY <1>1, <2>1, WalkShape
<1>5. ~Through(t)
  BY <1>1, OnTheWalk, WalkIsFinite DEF Through
<1>6. \A u \in Threads : Through(u) => Through(u)'
  BY <1>3, <1>5 DEF Through
<1>7. TypesAgree'
  BY <1>1, <1>3 DEF TypesAgree
<1>8. OnePass'
  BY <1>1, <1>3, <1>4, <1>6 DEF OnePass
<1>9. ToldByOne'
  BY <1>1, <1>6 DEF ToldByOne, Returned, Destroying
<1>10. Phases'
  BY <1>1 DEF Phases, Destroying
<1> QED
  BY <1>2, <1>7, <1>8, <1>9, <1>10

LEMMA WorkerEIInv ==
  ASSUME Rounds = 1, EInv, NEW t \in Threads, EngineWorker(t)
  PROVE  EIInv'
<1> DEFINE PoolOnly == UNCHANGED <<walkVars, planVars, arena>>
<1> USE PoolTypes DEF EInv, EIInv, Pool!WorkerGoto, Pool!MainAlone, TypesAgree, OnePass,
      ToldByOne, Phases, Returned, Destroying, Through, WalkTypes
<1>1. CASE CallImpl(t)
  <2>1. pos[t] = 0 /\ passes[t] = 0 /\ round = 1
    BY <1>1, FirstPass
  <2>2. /\ UNCHANGED <<mpc, index, round, stop, mainGc, workerGc, latch, next, arena>>
        /\ pos' = [pos EXCEPT ![t] = 1] /\ pc' = [pc EXCEPT ![t] = EntryOf(1)]
        /\ wpc' = [wpc EXCEPT ![t] = "pass"]
        /\ passes' = [passes EXCEPT ![t] = passes[t] + 1]
    BY <1>1 DEF CallImpl, Pool!BeginPass, MoveTo
  <2>3. EntryOf(1) \in Points /\ 1 \in 0 .. WalkLength + 1
    BY WalkIsFinite DEF EntryOf, Points
  <2>4. \A u \in Threads : Through(u) => Through(u)'
    BY <2>1, <2>2, WalkIsFinite
  <2> QED
    BY <2>1, <2>2, <2>3, <2>4
<1>2. CASE WalkOn(t)
  BY <1>2, WalkOnEIInv
<1>3. CASE ImplReturns(t)
  <2>1. Through(t)
    BY <1>3, OnTheWalk, WalkIsFinite DEF ImplReturns, Pool!EndPass
  <2> QED
    BY <1>3, <2>1 DEF ImplReturns, Pool!EndPass, walkVars
<1>4. CASE (Pool!LoopTest(t) \/ Pool!Wake(t) \/ Pool!SkipPass(t)) /\ PoolOnly
  BY <1>4 DEF Pool!LoopTest, Pool!Wake, Pool!SkipPass, walkVars
<1>5. CASE (Pool!TellTest(t) \/ Pool!Rearm(t)) /\ PoolOnly
  BY <1>5 DEF Pool!TellTest, Pool!Rearm, walkVars
<1>6. CASE Pool!Tell(t) /\ PoolOnly
  BY <1>6 DEF Pool!Tell, walkVars
<1> QED
  BY <1>1, <1>2, <1>3, <1>4, <1>5, <1>6 DEF EngineWorker

LEMMA WorkerPass ==
  ASSUME Rounds = 1, EInv, NEW t \in Threads, EngineWorker(t)
  PROVE  [PassP!Next]_(PassP!walkVars)
<1>1. CASE WalkOn(t)
  BY <1>1, WalkPass, SameWalk DEF PassP!Next
<1>2. CASE CallImpl(t)
  <2>1. pos[t] = 0
    BY <1>2, FirstPass
  <2> QED
    BY <1>2, <2>1 DEF CallImpl, Pool!BeginPass, Pool!MainAlone, MoveTo, PassP!walkVars,
       EInv, EIInv, WalkTypes
<1>3. CASE ~WalkOn(t) /\ ~CallImpl(t)
  <2>1. UNCHANGED walkVars /\ UNCHANGED mpc
    BY <1>3 DEF EngineWorker, ImplReturns, Pool!EndPass, Pool!LoopTest, Pool!Wake,
       Pool!SkipPass, Pool!TellTest, Pool!Tell, Pool!Rearm, Pool!MainAlone
  <2> QED
    BY <2>1 DEF walkVars, PassP!walkVars
<1> QED
  BY <1>1, <1>2, <1>3

LEMMA EInvStep == Rounds = 1 /\ EInv /\ [EngineNext]_vars => EInv'
<1> SUFFICES ASSUME Rounds = 1, EInv, [EngineNext]_vars PROVE EInv'
  OBVIOUS
<1>1. PoolP!IInv'
  BY PoolIInvStep DEF EInv
<1>2. CASE EngineMain
  BY <1>1, <1>2, MainPass, MainEIInv, PassIInvStep DEF EInv
<1>3. ASSUME NEW t \in Threads, EngineWorker(t) PROVE EInv'
  <2>1. [PassP!Next]_(PassP!walkVars)
    BY <1>3, WorkerPass
  <2> QED
    BY <1>1, <1>3, <2>1, WorkerEIInv, PassIInvStep DEF EInv
<1>4. CASE UNCHANGED vars
  <2>1. UNCHANGED PassP!walkVars
    BY <1>4 DEF vars, poolVars, walkVars, PassP!walkVars
  <2>2. EIInv'
    BY <1>4 DEF EInv, EIInv, vars, poolVars, walkVars, WalkTypes, TypesAgree, OnePass,
       ToldByOne, Phases, Returned, Destroying, Through
  <2> QED
    BY <1>1, <2>1, <2>2, PassIInvStep DEF EInv
<1> QED
  BY <1>2, <1>3, <1>4 DEF EngineNext, EngineFinished

\* With a single token the inductive invariant holds in every reachable state.
THEOREM Invariant == Rounds = 1 => (EngineSafeSpec => []EInv)
<1> SUFFICES ASSUME Rounds = 1 PROVE EngineSafeSpec => []EInv
  OBVIOUS
<1>1. EInv /\ [EngineNext]_vars => EInv'
  BY EInvStep
<1> QED
  BY <1>1, EngineInitInv, PTL DEF EngineSafeSpec

\* A step of the engine is a step of the walk, or leaves it alone.
LEMMA PassStep == Rounds = 1 /\ EInv /\ [EngineNext]_vars => [PassP!Next]_(PassP!walkVars)
<1> SUFFICES ASSUME Rounds = 1, EInv, [EngineNext]_vars PROVE [PassP!Next]_(PassP!walkVars)
  OBVIOUS
<1>1. CASE EngineMain
  BY <1>1, MainPass
<1>2. ASSUME NEW t \in Threads, EngineWorker(t) PROVE [PassP!Next]_(PassP!walkVars)
  BY <1>2, WorkerPass
<1>3. CASE UNCHANGED vars
  BY <1>3 DEF vars, poolVars, walkVars, PassP!walkVars
<1> QED
  BY <1>1, <1>2, <1>3 DEF EngineNext, EngineFinished

\* With a single token what the workers do is one pass of ThreadingStrategy, in
\* which nobody is lapped: the barriers work although the pool's main latch
\* waits for a single worker and the planner resets their latches.
THEOREM EngineIsAPass == Rounds = 1 => (EngineSafeSpec => PassP!SafeSpec)
<1> SUFFICES ASSUME Rounds = 1 PROVE EngineSafeSpec => PassP!SafeSpec
  OBVIOUS
<1>1. EngineInit => PassP!Init
  BY PassInit
<1>2. EInv /\ [EngineNext]_vars => [PassP!Next]_(PassP!walkVars)
  BY PassStep
<1> QED
  BY <1>1, <1>2, Invariant, PTL DEF EngineSafeSpec, PassP!SafeSpec

\* A kernel that the engine executes is executed in the walk.
LEMMA SameExecuting ==
  ASSUME EInv, NEW t \in Threads, NEW o, Executing(t, o)
  PROVE  PassP!Executing(t, o)
BY SameWalk DEF EInv, EIInv, OnePass, Executing, PassP!Executing, At, PassP!At

\* In the engine too nobody writes what a running blocking kernel reads, and it
\* is what the whole pool has made of it in the same block.
THEOREM EngineInputsAreStable == Rounds = 1 => (EngineSafeSpec => []StableInputs)
<1> SUFFICES ASSUME Rounds = 1 PROVE EngineSafeSpec => []StableInputs
  OBVIOUS
<1>1. PassP!SafeSpec => []PassP!StableInputs
  BY PassP!InputsAreStable, MaxCountAssumption, OneLatchEach, InputsComeFirst,
     InputsAreBehind, SameWalk
<1>2. EInv /\ PassP!StableInputs => StableInputs
  BY SameExecuting, SameWalk DEF StableInputs, PassP!StableInputs, EInv
<1> QED
  BY <1>1, <1>2, EngineIsAPass, Invariant, PTL

\* What it reads of its own block was finished by every worker, which has set
\* out, then, and is beyond it (one token).
THEOREM EngineInputsAreFresh == Rounds = 1 => (EngineSafeSpec => []FreshInputs)
<1> SUFFICES ASSUME Rounds = 1 PROVE EngineSafeSpec => []FreshInputs
  OBVIOUS
<1>1. PassP!SafeSpec => []PassP!FreshInputs
  BY PassP!InputsAreFresh, MaxCountAssumption, OneLatchEach, InputsComeFirst,
     InputsAreBehind, SameWalk
<1>2. EInv /\ PassP!FreshInputs => FreshInputs
  <2> SUFFICES ASSUME EInv, PassP!FreshInputs, NEW t \in Threads, pc[t] = "kernel",
                      At(t).op \in Blocking, NEW i \in Inputs[At(t).op] \cap Executed
               PROVE  \E j \in 1 .. pos[t] - 1 : /\ Walk[j] = [op |-> i, block |-> At(t).block]
                                                 /\ \A u \in Threads : pos[u] > j
    BY DEF FreshInputs
  <2>1. pos[t] # 0
    BY DEF EInv, EIInv, OnePass
  <2>2. PassP!At(t) = At(t)
    BY <2>1, SameWalk DEF At, PassP!At
  <2>3. PICK j \in 1 .. pos[t] - 1 :
          /\ Walk[j] = [op |-> i, block |-> At(t).block]
          /\ \A u \in Threads : (IF pos[u] = 0 THEN 1 ELSE pos[u]) > j
    BY <2>1, <2>2, SameWalk DEF PassP!FreshInputs
  <2>4. \A u \in Threads : pos[u] > j
    BY <2>3
  <2> QED
    BY <2>3, <2>4
<1> QED
  BY <1>1, <1>2, EngineIsAPass, Invariant, PTL

\* What is carried from block to block is what the block before left, in the
\* engine as in the walk (one token).
THEOREM EngineCarriedIsPrevious ==
  Rounds = 1 /\ CarriedAreApart => (EngineSafeSpec => []CarriedIsPrevious)
<1> SUFFICES ASSUME Rounds = 1, CarriedAreApart PROVE EngineSafeSpec => []CarriedIsPrevious
  OBVIOUS
<1>1. PassP!CarriedAreApart
  BY SameWalk DEF CarriedAreApart, PassP!CarriedAreApart
<1>2. PassP!SafeSpec => []PassP!CarriedIsPrevious
  BY <1>1, PassP!CarriedStaysPrevious, MaxCountAssumption, OneLatchEach, InputsComeFirst,
     InputsAreBehind, SameWalk
<1>3. EInv /\ PassP!CarriedIsPrevious => CarriedIsPrevious
  <2> SUFFICES ASSUME EInv, PassP!CarriedIsPrevious, NEW t \in Threads, NEW u \in Threads,
                      NEW c \in Carried, NEW j \in 1 .. WalkLength,
                      Executing(t, c[1]), Walk[j].op = c[2]
               PROVE  (j < pos[t] => pos[u] > j) /\ (j > pos[t] => pos[u] < j)
    BY DEF CarriedIsPrevious
  <2>1. pos[t] # 0
    BY DEF EInv, EIInv, OnePass, Executing
  <2>2. PassP!Executing(t, c[1])
    BY SameExecuting
  <2>3. /\ j < pos[t] => (IF pos[u] = 0 THEN 1 ELSE pos[u]) > j
        /\ j > pos[t] => (IF pos[u] = 0 THEN 1 ELSE pos[u]) < j
    BY <2>1, <2>2, SameWalk DEF PassP!CarriedIsPrevious
  <2> QED
    BY <2>3
<1> QED
  BY <1>2, <1>3, EngineIsAPass, Invariant, PTL

-----------------------------------------------------------------------------
(* What this means for the model's destructor.                             *)

\* The pool and the walk agree: a worker is at an operation only within a pass,
\* tells the main thread only when it is through or stop is set, and the main
\* latch is not down before.
THEOREM PoolAndWalkAgree == Rounds = 1 => (EngineSafeSpec => []EIInv)
<1> SUFFICES ASSUME Rounds = 1 PROVE EngineSafeSpec => []EIInv
  OBVIOUS
<1>1. EInv => EIInv
  BY DEF EInv
<1> QED
  BY <1>1, Invariant, PTL

\* A worker that is through has been through every barrier, so all have come to
\* every blocking operation by the time that execute_tasks returns.
LEMMA AllCame ==
  ASSUME EInv, Returned, NEW i \in BlockingAt
  PROVE  Came(i) = Threads
<1>1. PICK t \in Threads : Through(t)
  BY DEF EInv, EIInv, ToldByOne
<1>2. i \in 1 .. WalkLength
  BY DEF BlockingAt
<1>3. PassP!ClosedUntilAll(i)
  BY SameWalk DEF EInv, PassP!IInv
<1>4. PassP!Came(i) = Came(i)
  BY SameCame DEF EInv, EIInv
<1> QED
  BY <1>1, <1>2, <1>3, <1>4, SameWalk, WalkIsFinite DEF PassP!ClosedUntilAll, Through

LEMMA SetOut ==
  ASSUME WalkTypes, BlockingAt # {}, \A i \in BlockingAt : Came(i) = Threads,
         NEW t \in Threads
  PROVE  pos[t] # 0
<1>1. PICK i \in BlockingAt : t \in Came(i)
  OBVIOUS
<1> QED
  BY <1>1 DEF Came, BlockingAt, WalkTypes

\* When execute_tasks returns every worker has come to every blocking operation
\* of its pass, though the main latch waits for one worker only.
THEOREM NobodyIsLeftBehind ==
  Rounds = 1 /\ BlockingAt # {} => (EngineSafeSpec => []AllReachTheEnd)
<1> SUFFICES ASSUME Rounds = 1, BlockingAt # {} PROVE EngineSafeSpec => []AllReachTheEnd
  OBVIOUS
<1>1. EInv => AllReachTheEnd
  <2> SUFFICES ASSUME EInv, mpc = "idle", round > 0 PROVE AllReachTheEnd
    BY DEF AllReachTheEnd
  <2>1. \A i \in BlockingAt : Came(i) = Threads
    BY AllCame DEF Returned
  <2>2. \A t \in Threads : pos[t] # 0
    BY <2>1, SetOut DEF EInv, EIInv
  <2>3. \A t \in Threads : passes[t] = round
    BY <2>2, PoolTypes DEF EInv, EIInv, OnePass
  <2> QED
    BY <2>1, <2>3 DEF AllReachTheEnd
<1> QED
  BY <1>1, Invariant, PTL

\* No kernel runs without the arena, but for the last blocking operation and
\* those that follow it.
THEOREM KernelsHaveTheArena == Rounds = 1 => (EngineSafeSpec => []ArenaOutlivesKernels)
<1> SUFFICES ASSUME Rounds = 1 PROVE EngineSafeSpec => []ArenaOutlivesKernels
  OBVIOUS
<1>1. EInv => ArenaOutlivesKernels
  <2> SUFFICES ASSUME EInv, NEW t \in Threads, pc[t] = "kernel", arena # "live"
               PROVE  arena = "freed" /\ \A i \in BlockingAt : pos[t] >= i
    BY DEF ArenaOutlivesKernels
  <2>1. arena = "freed" /\ Returned
    BY PoolTypes DEF EInv, EIInv, OnePass, Phases, Returned
  <2>2. \A i \in BlockingAt : t \in Came(i) /\ i \in Int /\ pos[t] \in Int
    BY <2>1, AllCame DEF BlockingAt, EInv, EIInv, WalkTypes
  <2> QED
    BY <2>1, <2>2 DEF Came
<1> QED
  BY <1>1, Invariant, PTL

\* When the model is gone every worker has made its whole pass: none skipped it
\* because the destructor had set stop before it looked.
THEOREM NobodySkipsThePass ==
  Rounds = 1 /\ BlockingAt # {} => (EngineSafeSpec => []EveryoneWalked)
<1> SUFFICES ASSUME Rounds = 1, BlockingAt # {} PROVE EngineSafeSpec => []EveryoneWalked
  OBVIOUS
<1>1. EInv => EveryoneWalked
  <2> SUFFICES ASSUME EInv, mpc = "end", NEW t \in Threads
               PROVE  passes[t] = Rounds /\ Through(t)
    BY DEF EveryoneWalked, Through
  <2>1. \A i \in BlockingAt : Came(i) = Threads
    BY PoolTypes, AllCame DEF Returned, Destroying, EInv, EIInv, Phases
  <2>2. pos[t] # 0
    BY <2>1, SetOut DEF EInv, EIInv
  <2>3. wpc[t] = "exit"
    BY SamePool DEF EInv, PoolP!IInv, PoolP!TypeOK, PoolP!MainInv, Threads
  <2>4. pc[t] = "out"
    BY <2>3 DEF EInv, EIInv, TypesAgree
  <2> QED
    BY <2>2, <2>4, OnTheWalk, WalkIsFinite DEF EInv, EIInv, OnePass, WalkTypes, Through
<1> QED
  BY <1>1, Invariant, PTL

-----------------------------------------------------------------------------
(* The model does not hang.                                                *)

\* What pool and pass need in order not to hang, each on its own.
EHInv == EInv /\ PoolP!HInv /\ PassP!OInv

LEMMA EHInvInit == EngineInit => EHInv
<1> SUFFICES ASSUME EngineInit PROVE EHInv
  OBVIOUS
<1>1. PoolP!HInv
  BY SamePool, PoolP!InitHInv DEF EngineInit
<1>2. PassP!OInv
  BY PassInit, PassP!InitOInv, MaxCountAssumption, OneLatchEach, InputsComeFirst,
     InputsAreBehind, SameWalk
<1> QED
  BY <1>1, <1>2, EngineInitInv DEF EHInv

LEMMA EHInvStep == Rounds = 1 /\ EHInv /\ [EngineNext]_vars => EHInv'
<1> SUFFICES ASSUME Rounds = 1, EHInv, [EngineNext]_vars PROVE EHInv'
  OBVIOUS
<1>1. PoolP!HInv'
  BY PoolPStep, PoolP!StepHInv DEF EHInv
<1>2. PassP!OInv'
  BY PassStep, PassP!StepOInv, MaxCountAssumption, OneLatchEach, InputsComeFirst,
     InputsAreBehind, SameWalk DEF EHInv
<1> QED
  BY <1>1, <1>2, EInvStep DEF EHInv

\* Together they hold in every reachable state.
THEOREM HangInvariant == Rounds = 1 => (EngineSafeSpec => []EHInv)
<1> SUFFICES ASSUME Rounds = 1 PROVE EngineSafeSpec => []EHInv
  OBVIOUS
<1>1. EHInv /\ [EngineNext]_vars => EHInv'
  BY EHInvStep
<1> QED
  BY <1>1, EHInvInit, PTL DEF EngineSafeSpec

\* A worker that has set out can go on if it can in the walk.
LEMMA SameTurn ==
  ASSUME mpc # "spawn", NEW t \in Threads, pos[t] # 0
  PROVE  PassP!CanGoOn(t) <=> CanGoOn(t)
BY SamePlace DEF PassP!CanGoOn, CanGoOn, PassP!Released, Released

\* If all workers have set out the walk does not deadlock.
LEMMA WalkersGoOn ==
  ASSUME EHInv, mpc # "spawn", \A t \in Threads : pos[t] # 0
  PROVE  (\A t \in Threads : pc[t] = "out") \/ (\E t \in Threads : CanGoOn(t))
<1>1. PassP!SomebodyGoesOn
  BY PassP!OInvGoesOn, MaxCountAssumption, OneLatchEach, InputsComeFirst,
     InputsAreBehind, SameWalk DEF EHInv
<1> QED
  BY <1>1, SameTurn, SameWalk DEF PassP!SomebodyGoesOn, PassP!AllOut

\* A model that evaluates one token does not deadlock: not in execute_tasks, whose
\* main latch is down as soon as one worker is through, and not in the destructor,
\* which begins while other workers are still at the barriers of the walk.
THEOREM ModelDoesNotHang == Rounds = 1 => (EngineSafeSpec => []NeverHangs)
<1> SUFFICES ASSUME Rounds = 1 PROVE EngineSafeSpec => []NeverHangs
  OBVIOUS
<1>1. EHInv => NeverHangs
  <2> SUFFICES ASSUME EHInv, mpc # "end", ~Pool!MainGoesOn,
                      \A t \in Threads : ~WorkerCanGoOn(t)
               PROVE  FALSE
    BY DEF NeverHangs
  <2>1. /\ EInv /\ EIInv /\ PoolP!IInv /\ PoolP!Manned /\ PoolP!FirstCall /\ PoolP!Woken
        /\ round \in {0, 1} /\ mainGc \in {0, N} /\ mpc \in PoolP!MainPoints
        /\ wpc \in [Threads -> PoolP!WorkerPoints] /\ workerGc \in [Threads -> {0, 1}]
        /\ index \in 0 .. N
    BY PoolTypes, SamePool DEF EHInv, EInv, PoolP!HInv, PoolP!IInv, PoolP!TypeOK
  <2>2. \A t \in Threads : \/ wpc[t] \in {"none", "exit"}
                           \/ wpc[t] = "wait" /\ workerGc[t] = 1
                           \/ wpc[t] = "pass" /\ pc[t] # "out" /\ ~CanGoOn(t)
    <3> SUFFICES ASSUME NEW t \in Threads
                 PROVE  \/ wpc[t] \in {"none", "exit"}
                        \/ wpc[t] = "wait" /\ workerGc[t] = 1
                        \/ wpc[t] = "pass" /\ pc[t] # "out" /\ ~CanGoOn(t)
      OBVIOUS
    <3>1. workerGc[t] \in {0, 1} /\ ~WorkerCanGoOn(t)
      BY <2>1
    <3> QED
      BY <3>1 DEF WorkerCanGoOn, Pool!WorkerGoesOn
  <2>3. \/ mpc = "await" /\ mainGc # 0
        \/ mpc = "join" /\ index < N /\ wpc[index] # "exit"
    BY DEF Pool!MainGoesOn
  <2>4. ASSUME \A t \in Threads : pos[t] # 0,
               NEW u \in Threads, wpc[u] = "pass"
        PROVE  FALSE
    <3>1. PICK t \in Threads : CanGoOn(t)
      BY <2>2, <2>3, <2>4, WalkersGoOn
    <3>2. wpc[t] = "pass"
      BY <2>1, <3>1 DEF EIInv, TypesAgree, CanGoOn
    <3> QED
      BY <2>2, <3>1, <3>2
  <2>5. CASE mpc = "await" /\ mainGc # 0
    <3>1. round = 1 /\ ~stop
      BY <2>1, <2>5 DEF PoolP!Manned
    <3>2. ASSUME NEW t \in Threads PROVE wpc[t] = "pass"
      <4>1. wpc[t] \notin {"none", "exit"}
        BY <2>1, <2>5, <3>1, SamePool DEF PoolP!Manned
      <4>2. CASE wpc[t] = "wait" /\ workerGc[t] = 1
        <5>1. PoolP!Asked(t) = 1
          BY <2>5, <3>1 DEF PoolP!Asked
        <5>2. passes[t] = 1 => mainGc = 0
          BY <2>1, <3>1, <4>2, SamePool DEF PoolP!FirstCall
        <5>3. passes[t] = 1
          BY <2>1, <3>1, <4>2, <5>1, SamePool DEF PoolP!FirstCall
        <5> QED
          BY <2>5, <5>2, <5>3
      <4> QED
        BY <2>2, <4>1, <4>2
    <3>3. 0 \in Threads
      BY DEF Threads
    <3>4. \A t \in Threads : pos[t] # 0
      BY <2>1, <3>2 DEF EIInv, OnePass
    <3> QED
      BY <2>4, <3>2, <3>3, <3>4
  <2>6. CASE mpc = "join" /\ index < N /\ wpc[index] # "exit"
    <3>1. index \in Threads
      <4>1. index \in Nat /\ N \in Nat
        BY <2>1
      <4> QED BY <2>6, <4>1 DEF Threads
    <3>2. stop /\ wpc[index] # "none"
      BY <2>1, <2>6, <3>1, SamePool DEF PoolP!Manned
    <3>3. wpc[index] = "wait" => workerGc[index] = 0
      BY <2>1, <2>6, <3>1, <3>2, SamePool DEF PoolP!Woken
    <3>4. wpc[index] = "pass" /\ pc[index] # "out" /\ ~CanGoOn(index)
      BY <2>2, <2>6, <3>1, <3>2, <3>3
    <3>5. pc[index] \in {"spin", "spin2"} /\ pos[index] # 0
      BY <2>1, <3>1, <3>4 DEF CanGoOn, EIInv, OnePass
    <3>6. BlockingAt # {}
      BY <2>1, <2>6, <3>1, <3>5, SameWalk DEF EInv, PassP!IInv, PassP!Located
    <3>7. \A i \in BlockingAt : Came(i) = Threads
      BY <2>1, <3>2, AllCame DEF EIInv, ToldByOne
    <3>8. \A t \in Threads : pos[t] # 0
      BY <2>1, <3>6, <3>7, SetOut DEF EIInv
    <3> QED
      BY <2>4, <3>1, <3>4, <3>8
  <2> QED
    BY <2>3, <2>5, <2>6
<1> QED
  BY <1>1, HangInvariant, PTL

-----------------------------------------------------------------------------
(* The life of a model that evaluates one token is finite.                 *)

\* execution_planner comes to its next access of a latch, or to the next latch.
PlannerAdvances == /\ planAt <= Len(Plan)
                   /\ \/ planFlag < N /\ planFlag' = planFlag + 1 /\ planAt' = planAt
                      \/ planFlag' = 0 /\ planAt' = planAt + 1

\* Worker t comes on in the pool or, being where it was there, in the walk.
EngineWorkerAdvances(t) == \/ PoolP!WorkerProgress(t)' > PoolP!WorkerProgress(t)
                           \/ /\ PoolP!WorkerProgress(t)' = PoolP!WorkerProgress(t)
                              /\ PassP!Advances(t)

StaysWhereItIs(t) == /\ PoolP!WorkerProgress(t)' = PoolP!WorkerProgress(t)
                     /\ pos'[t] = pos[t] /\ PassP!Stage(t)' = PassP!Stage(t)

\* Every step brings the main thread on, or leaves it where it is and brings on
\* the planner or one of the workers.
OneAdvances ==
  \/ PoolP!MainProgress' > PoolP!MainProgress
  \/ /\ PoolP!MainProgress' = PoolP!MainProgress
     /\ \/ PlannerAdvances /\ \A t \in Threads : StaysWhereItIs(t)
        \/ /\ UNCHANGED planVars
           /\ \E t \in Threads : /\ EngineWorkerAdvances(t)
                                 /\ \A u \in Threads \ {t} : StaysWhereItIs(u)

\* The model does not go round in circles: with NeverHangs, it comes to an end
\* whoever runs, if only somebody does.
NoCircle == /\ [](/\ PoolP!InRange
                  /\ \A t \in Threads : pos[t] \in 0 .. WalkLength + 1
                                        /\ PassP!Stage(t) \in 0 .. 2 * N + 6)
            /\ [][OneAdvances]_vars

\* A thread that can go on can go on until it does.
NobodyIsRobbed ==
  [][/\ Pool!MainGoesOn => Pool!MainGoesOn' \/ EngineMain
     /\ \A t \in Threads : WorkerCanGoOn(t) => WorkerCanGoOn(t)' \/ EngineWorker(t)]_vars

LEMMA EngineStepAdvances == Rounds = 1 /\ EHInv /\ EngineNext => OneAdvances \/ UNCHANGED vars
<1> SUFFICES ASSUME Rounds = 1, EHInv, EngineNext, ~UNCHANGED vars PROVE OneAdvances
  OBVIOUS
<1>1. EInv /\ EIInv /\ PoolP!HInv /\ PassP!TypeOK /\ PassP!Located /\ PassP!Rewound
  BY DEF EHInv, EInv, PassP!OInv, PassP!IInv
<1>2. round' <= 1
  <2>1. PoolP!IInv'
    BY <1>1, PoolIInvStep DEF EInv
  <2>2. round' \in 0 .. Rounds
    BY <2>1 DEF PoolP!IInv, PoolP!TypeOK
  <2> QED BY <2>2
<1>3. CASE PlanLatch
  <2>1. UNCHANGED poolVars /\ UNCHANGED <<pos, pc, next>> /\ PlannerAdvances
    BY <1>3 DEF PlanLatch, PlannerAdvances
  <2>2. UNCHANGED <<mpc, index, round, stop, wpc, passes>>
    BY <2>1 DEF poolVars
  <2>3. PoolP!MainProgress' = PoolP!MainProgress
    BY <2>2 DEF PoolP!MainProgress
  <2>4. \A t \in Threads : StaysWhereItIs(t)
    BY <2>1, <2>2 DEF StaysWhereItIs, PoolP!WorkerProgress, PassP!Stage, PassP!StageAt
  <2> QED BY <2>1, <2>3, <2>4 DEF OneAdvances
<1>4. CASE EngineMain /\ ~PlanLatch
  <2>1. PoolP!MainStep
    BY <1>4, SamePool DEF EngineMain, Construct, Execute, FreeArena, Pool!MainStep
  <2>2. PoolP!MainProgress' > PoolP!MainProgress
    BY <1>1, <1>2, <2>1, PoolP!MainAdvances
  <2> QED BY <2>2 DEF OneAdvances
<1>5. ASSUME NEW t \in Threads, WalkOn(t) PROVE OneAdvances
  <2>1. UNCHANGED <<mpc, index, round, stop, wpc, passes, planVars>>
    BY <1>5 DEF WalkOn, poolVars
  <2>2. PoolP!MainProgress' = PoolP!MainProgress
    BY <2>1 DEF PoolP!MainProgress
  <2>3. \A u \in Threads : PoolP!WorkerProgress(u)' = PoolP!WorkerProgress(u)
    BY <2>1 DEF PoolP!WorkerProgress
  <2>4. PassP!Step(t)
    BY <1>1, <1>5, WalkPass
  <2>5. PassP!Advances(t)
    BY <1>1, <2>4, PassP!StepAdvances, MaxCountAssumption, OneLatchEach, InputsComeFirst,
       InputsAreBehind, SameWalk
  <2>6. ASSUME NEW u \in Threads \ {t} PROVE StaysWhereItIs(u)
    <3>1. pos'[u] = pos[u] /\ pc'[u] = pc[u] /\ next'[u] = next[u]
      BY <1>1, <1>5, WalkShape DEF EIInv, WalkTypes
    <3> QED BY <2>3, <3>1 DEF StaysWhereItIs, PassP!Stage, PassP!StageAt
  <2> QED BY <2>1, <2>2, <2>3, <2>5, <2>6 DEF OneAdvances, EngineWorkerAdvances
<1>6. ASSUME NEW t \in Threads, EngineWorker(t), ~WalkOn(t) PROVE OneAdvances
  <2>1. PoolP!WorkerStep(t) /\ UNCHANGED planVars
    BY <1>6, SamePool DEF EngineWorker, CallImpl, ImplReturns, Pool!WorkerStep
  <2>2. round' = round
    BY <2>1 DEF PoolP!WorkerStep, PoolP!MainAlone, PoolP!LoopTest, PoolP!Wake,
       PoolP!BeginPass, PoolP!SkipPass, PoolP!EndPass, PoolP!TellTest, PoolP!Tell, PoolP!Rearm
  <2>3. /\ PoolP!MainProgress' = PoolP!MainProgress
        /\ PoolP!WorkerProgress(t)' > PoolP!WorkerProgress(t)
        /\ \A u \in Threads \ {t} : PoolP!WorkerProgress(u)' = PoolP!WorkerProgress(u)
    BY <1>1, <1>2, <2>1, <2>2, PoolP!WorkerAdvances, SamePool
  <2>4. ASSUME NEW u \in Threads \ {t}
        PROVE  pos'[u] = pos[u] /\ pc'[u] = pc[u] /\ next'[u] = next[u]
    BY <1>1, <1>6 DEF EngineWorker, CallImpl, MoveTo, ImplReturns, walkVars, EIInv, WalkTypes
  <2> QED
    BY <2>1, <2>3, <2>4 DEF OneAdvances, EngineWorkerAdvances, StaysWhereItIs, PassP!Stage,
       PassP!StageAt
<1> QED
  BY <1>3, <1>4, <1>5, <1>6 DEF EngineNext, EngineFinished

\* A model that evaluates one token takes boundedly many steps: with
\* ModelDoesNotHang, it comes to an end in every execution in which, as long as
\* some thread can go on, some thread does.
THEOREM ModelAdvances == Rounds = 1 => (EngineSafeSpec => NoCircle)
<1> SUFFICES ASSUME Rounds = 1 PROVE EngineSafeSpec => NoCircle
  OBVIOUS
<1>1. EHInv /\ [EngineNext]_vars => [OneAdvances]_vars
  BY EngineStepAdvances
<1>2. EHInv => /\ PoolP!InRange
                /\ \A t \in Threads : pos[t] \in 0 .. WalkLength + 1
                                      /\ PassP!Stage(t) \in 0 .. 2 * N + 6
  <2> SUFFICES ASSUME EHInv
               PROVE  /\ PoolP!InRange
                      /\ \A t \in Threads : pos[t] \in 0 .. WalkLength + 1
                                            /\ PassP!Stage(t) \in 0 .. 2 * N + 6
    OBVIOUS
  <2>1. PoolP!HInv /\ PassP!TypeOK /\ WalkTypes
    BY DEF EHInv, EInv, EIInv, PassP!OInv, PassP!IInv
  <2>2. PoolP!InRange
    BY <2>1, PoolP!HInvInRange
  <2>3. \A t \in Threads : PassP!Stage(t) \in 0 .. 2 * N + 6
    BY <2>1, PassP!StageRange, MaxCountAssumption, OneLatchEach, InputsComeFirst,
       InputsAreBehind, SameWalk
  <2>4. \A t \in Threads : pos[t] \in 0 .. WalkLength + 1
    BY <2>1, WalkIsFinite DEF WalkTypes
  <2> QED BY <2>2, <2>3, <2>4
<1> QED
  BY <1>1, <1>2, HangInvariant, PTL DEF EngineSafeSpec, NoCircle

\* The two instances agree on who can go on.
LEMMA SameGoesOn ==
  /\ Pool!MainGoesOn <=> PoolP!MainGoesOn
  /\ \A t \in Threads : Pool!WorkerGoesOn(t) <=> PoolP!WorkerGoesOn(t)
BY DEF Pool!MainGoesOn, PoolP!MainGoesOn, Pool!WorkerGoesOn, PoolP!WorkerGoesOn

\* A worker that can go on in the walk can go on there after a step of another
\* thread.
LEMMA WalkTurnStays ==
  ASSUME Rounds = 1, EHInv, NEW t \in Threads, wpc[t] = "pass", CanGoOn(t),
         EngineMain \/ \E u \in Threads \ {t} : EngineWorker(u)
  PROVE  CanGoOn(t)'
<1>1. EInv /\ EIInv /\ WalkTypes /\ PassP!TypeOK /\ PassP!Located
  BY DEF EHInv, EInv, EIInv, PassP!OInv, PassP!IInv
<1>2. pos[t] # 0 /\ mpc # "spawn"
  BY <1>1 DEF EIInv, OnePass, Phases
<1>3. CASE EngineMain
  <2>1. UNCHANGED PassP!walkVars
    BY <1>1, <1>3, MainPass
  <2>2. UNCHANGED <<pos, pc>>
    BY <1>3 DEF EngineMain, Construct, PlanLatch, Execute, FreeArena, walkVars
  <2>3. mpc' # "spawn"
    BY <1>2, <1>3 DEF EngineMain, Construct, PlanLatch, Execute, FreeArena, poolVars,
       Pool!Spawn, Pool!TryWait, Pool!Release, Pool!AllTold, Pool!TasksReturn,
       Pool!SetStop, Pool!Join, Pool!Joined, Pool!Constructed, Pool!BeginTasks,
       Pool!Destroy, Pool!MainGoto
  <2>4. latch' = latch
    BY <1>2, <2>1, <2>3 DEF PassP!walkVars
  <2> QED
    BY <2>2, <2>4 DEF CanGoOn, Mine, At, Released
<1>4. ASSUME NEW u \in Threads \ {t}, WalkOn(u) PROVE CanGoOn(t)'
  <2>1. PassP!Step(u) /\ mpc' = mpc
    BY <1>1, <1>4, WalkPass, Walking
  <2>2. PassP!CanGoOn(t)
    BY <1>2, SameTurn
  <2>3. PassP!CanGoOn(t)'
    BY <1>1, <2>1, <2>2, PassP!TurnStays, MaxCountAssumption, OneLatchEach,
       InputsComeFirst, InputsAreBehind, SameWalk
  <2>4. pos'[t] = pos[t]
    BY <1>1, <1>4, WalkShape DEF WalkTypes
  <2> QED
    BY <1>2, <2>1, <2>3, <2>4, SameWalk DEF PassP!CanGoOn, PassP!Released, PassP!Mine, PassP!At,
       CanGoOn, Released, Mine, At
<1>5. ASSUME NEW u \in Threads \ {t}, EngineWorker(u), ~WalkOn(u) PROVE CanGoOn(t)'
  <2>1. latch' = latch /\ pos'[t] = pos[t] /\ pc'[t] = pc[t]
    BY <1>1, <1>5 DEF EngineWorker, CallImpl, MoveTo, ImplReturns, walkVars, WalkTypes
  <2> QED
    BY <2>1 DEF CanGoOn, Mine, At, Released
<1> QED
  BY <1>3, <1>4, <1>5

\* No thread takes away another's turn, neither in the pool nor in the walk: so
\* a thread that is scheduled again and again is never starved by the others.
THEOREM EveryoneKeepsTheTurn == Rounds = 1 => (EngineSafeSpec => NobodyIsRobbed)
<1> SUFFICES ASSUME Rounds = 1 PROVE EngineSafeSpec => NobodyIsRobbed
  OBVIOUS
<1>1. ASSUME EHInv, EngineMain, NEW t \in Threads, WorkerCanGoOn(t)
      PROVE  WorkerCanGoOn(t)'
  <2>1. PoolP!HInv /\ PoolP!IInv /\ EIInv
    BY <1>1 DEF EHInv, EInv, EIInv
  <2>2. CASE wpc[t] = "pass"
    <3>1. wpc'[t] = "pass" /\ pc' = pc
      BY <1>1, <2>1, <2>2, PoolTypes DEF EngineMain, Construct, PlanLatch, Execute, FreeArena,
         poolVars, walkVars, Pool!Spawn, Pool!TryWait, Pool!Release, Pool!AllTold,
         Pool!TasksReturn, Pool!SetStop, Pool!Join, Pool!Joined, Pool!Constructed,
         Pool!BeginTasks, Pool!Destroy, Pool!MainGoto, Pool!WorkersAlone, EIInv, Phases,
         OnePass
    <3> QED
      BY <1>1, <2>2, <3>1, WalkTurnStays DEF WorkerCanGoOn
  <2>3. CASE wpc[t] # "pass"
    <3>1. PoolP!WorkerGoesOn(t)
      BY <1>1, <2>3, SameGoesOn DEF WorkerCanGoOn
    <3>2. PoolP!WorkerGoesOn(t)'
      <4>1. CASE PlanLatch
        BY <3>1, <4>1 DEF PlanLatch, poolVars, PoolP!WorkerGoesOn
      <4>2. CASE ~PlanLatch
        <5>1. PoolP!MainStep
          BY <1>1, <4>2, SamePool DEF EngineMain, Construct, Execute, FreeArena, Pool!MainStep
        <5> QED
          BY <2>1, <3>1, <5>1, PoolP!MainTurn, SamePool
      <4> QED BY <4>1, <4>2
    <3>3. wpc'[t] # "pass"
      BY <1>1, <2>1, <2>3, PoolTypes DEF EngineMain, Construct, PlanLatch, Execute, FreeArena,
         poolVars, Pool!Spawn, Pool!TryWait, Pool!Release, Pool!AllTold,
         Pool!TasksReturn, Pool!SetStop, Pool!Join, Pool!Joined, Pool!Constructed,
         Pool!BeginTasks, Pool!Destroy, Pool!MainGoto, Pool!WorkersAlone
    <3> QED
      BY <3>2, <3>3 DEF WorkerCanGoOn, Pool!WorkerGoesOn, PoolP!WorkerGoesOn
  <2> QED BY <2>2, <2>3
<1>2. ASSUME EHInv, NEW u \in Threads, EngineWorker(u)
      PROVE  /\ Pool!MainGoesOn => Pool!MainGoesOn'
             /\ \A t \in Threads \ {u} : WorkerCanGoOn(t) => WorkerCanGoOn(t)'
  <2>1. PoolP!HInv /\ PoolP!IInv
    BY <1>2 DEF EHInv, EInv
  <2>2. PoolP!WorkerStep(u) \/ UNCHANGED poolVars
    BY <1>2, SamePool DEF EngineWorker, CallImpl, WalkOn, ImplReturns, Pool!WorkerStep
  <2>3. /\ PoolP!MainGoesOn => PoolP!MainGoesOn'
        /\ \A t \in Threads \ {u} : PoolP!WorkerGoesOn(t) => PoolP!WorkerGoesOn(t)'
    <3>1. CASE PoolP!WorkerStep(u)
      BY <2>1, <3>1, PoolP!WorkerTurn, SamePool
    <3>2. CASE UNCHANGED poolVars
      BY <3>2 DEF poolVars, PoolP!MainGoesOn, PoolP!WorkerGoesOn
    <3> QED BY <2>2, <3>1, <3>2
  <2>4. \A t \in Threads \ {u} : wpc'[t] = wpc[t] /\ pc'[t] = pc[t]
    <3>1. \A t \in Threads \ {u} : wpc'[t] = wpc[t]
      BY <1>2, <2>1, PoolTypes DEF EngineWorker, CallImpl, WalkOn, ImplReturns, poolVars,
         Pool!WorkerGoto, Pool!BeginPass, Pool!EndPass, Pool!LoopTest, Pool!Wake,
         Pool!SkipPass, Pool!TellTest, Pool!Tell, Pool!Rearm
    <3>2. \A t \in Threads \ {u} : pc'[t] = pc[t]
      <4>1. WalkTypes /\ EInv
        BY <1>2 DEF EHInv, EInv, EIInv
      <4>2. CASE WalkOn(u)
        BY <4>1, <4>2, WalkShape DEF WalkTypes
      <4>3. CASE ~WalkOn(u)
        BY <1>2, <4>1, <4>3 DEF EngineWorker, CallImpl, MoveTo, ImplReturns, walkVars, WalkTypes
      <4> QED BY <4>2, <4>3
    <3> QED BY <3>1, <3>2
  <2>5. ASSUME NEW t \in Threads \ {u}, WorkerCanGoOn(t) PROVE WorkerCanGoOn(t)'
    <3>1. CASE wpc[t] = "pass"
      BY <1>2, <2>4, <2>5, <3>1, WalkTurnStays DEF WorkerCanGoOn
    <3>2. CASE wpc[t] # "pass"
      BY <2>3, <2>4, <2>5, <3>2, SameGoesOn DEF WorkerCanGoOn, Pool!WorkerGoesOn,
         PoolP!WorkerGoesOn
    <3> QED BY <3>1, <3>2
  <2> QED
    BY <2>3, <2>5 DEF Pool!MainGoesOn, PoolP!MainGoesOn
<1>3. EHInv /\ [EngineNext]_vars =>
        [/\ Pool!MainGoesOn => Pool!MainGoesOn' \/ EngineMain
         /\ \A t \in Threads : WorkerCanGoOn(t) => WorkerCanGoOn(t)' \/ EngineWorker(t)]_vars
  BY <1>1, <1>2 DEF EngineNext, EngineFinished
<1> QED
  BY <1>3, HangInvariant, PTL DEF EngineSafeSpec, NobodyIsRobbed
=============================================================================
