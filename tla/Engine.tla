------------------------------- MODULE Engine -------------------------------
(***************************************************************************)
(* A model<config> (common/model.hpp): the thread pool of ThreadPool whose *)
(* passes are the walks of ThreadingStrategy, the execution_planner that   *)
(* the main thread runs over the operations' latches before each call of   *)
(* execute_tasks, and the arena, which is a member of the model and so is  *)
(* made after the pool's threads are started and freed before they are     *)
(* joined.                                                                 *)
(***************************************************************************)
EXTENDS ThreadingStrategy

CONSTANTS Rounds,       \* token_count + 1
          PlanOrder     \* the blocking operations in the order of llama_op_types

ASSUME RoundsAssumption == Rounds \in Nat

VARIABLES mpc, index, round, mainGc, workerGc, stop, wpc, passes,   \* as in ThreadPool
          planAt,       \* the latch that execution_planner resets next
          planFlag,     \* 0 before its counter is stored, then 1 + a flag's index
          arena         \* "none", "live" or "freed"

Pool == INSTANCE ThreadPool

poolVars == <<mpc, index, round, mainGc, workerGc, stop, wpc, passes>>

planVars == <<planAt, planFlag>>

vars == <<poolVars, walkVars, planVars, arena>>

\* The latches that the walk uses, in the order in which execution_planner
\* comes to them: operation by operation, block by block.
Plan ==
  LET all == [i \in 1 .. Len(PlanOrder) * BlockCount |->
                [op    |-> PlanOrder[((i - 1) \div BlockCount) + 1],
                 block |-> (i - 1) % BlockCount]]
  IN SelectSeq(all, LAMBDA s : s \in Slots)

EngineInit == /\ Pool!Init
              /\ latch = [s \in Slots |-> FreshLatch]
              /\ pos = [t \in Threads |-> 0]
              /\ pc = [t \in Threads |-> "out"]
              /\ next = [t \in Threads |-> 0]
              /\ planAt = 1 /\ planFlag = 0
              /\ arena = "none"

-----------------------------------------------------------------------------

\* The rest of the model's constructor: memory.init, the mapping of the
\* buffers, and a first execution_planner, all before any worker is woken.
Construct == /\ Pool!Constructed
             /\ arena' = "live"
             /\ latch' = PlannedLatches
             /\ UNCHANGED <<pos, pc, next, planVars>>

\* execution_planner: reset(thread_count) of one latch, access by access.
PlanLatch ==
  /\ mpc = "idle" /\ round < Rounds /\ planAt <= Len(Plan)
  /\ IF planFlag = 0
     THEN latch' = [latch EXCEPT ![Plan[planAt]] = ResetCounter(@, N)]
     ELSE latch' = [latch EXCEPT ![Plan[planAt]] = ClearFlag(@, planFlag - 1)]
  /\ IF planFlag < N
     THEN planFlag' = planFlag + 1 /\ UNCHANGED planAt
     ELSE planFlag' = 0 /\ planAt' = planAt + 1
  /\ UNCHANGED <<poolVars, pos, pc, next, arena>>

\* execute_model's loop: execute_tasks follows the planner.
Execute == /\ Pool!BeginTasks
           /\ planAt > Len(Plan)
           /\ planAt' = 1
           /\ UNCHANGED <<walkVars, planFlag, arena>>

\* ~model: the arena goes first, then ~thread_pool begins.
FreeArena == /\ Pool!Destroy
             /\ arena' = "freed"
             /\ UNCHANGED <<walkVars, planVars>>

EngineMain == \/ Construct \/ PlanLatch \/ Execute \/ FreeArena
              \/ /\ \/ Pool!Spawn \/ Pool!TryWait \/ Pool!Release \/ Pool!AllTold
                    \/ Pool!TasksReturn \/ Pool!SetStop \/ Pool!Join \/ Pool!Joined
                 /\ UNCHANGED <<walkVars, planVars, arena>>

\* A worker calls impl, walks, and returns from it.
CallImpl(t) == /\ Pool!BeginPass(t)
               /\ MoveTo(t, 1)
               /\ UNCHANGED <<latch, next, planVars, arena>>

WalkOn(t) == /\ Step(t)
             /\ UNCHANGED <<poolVars, planVars, arena>>

\* Variant (the lists are taken for a queue that another thread finishes).
ImplReturnsEarly(t) == /\ Pool!EndPass(t)
                       /\ UNCHANGED <<walkVars, planVars, arena>>

ImplReturns(t) == /\ Pool!EndPass(t)
                  /\ pc[t] = "out"
                  /\ UNCHANGED <<walkVars, planVars, arena>>

EngineWorker(t) == \/ CallImpl(t) \/ WalkOn(t) \/ ImplReturns(t)
                   \/ /\ \/ Pool!LoopTest(t) \/ Pool!Wake(t) \/ Pool!SkipPass(t) \/ Pool!TellTest(t)
                         \/ Pool!Tell(t) \/ Pool!Rearm(t)
                      /\ UNCHANGED <<walkVars, planVars, arena>>

EngineFinished == mpc = "end" /\ UNCHANGED vars

EngineNext == EngineMain \/ (\E t \in Threads : EngineWorker(t)) \/ EngineFinished

EngineSafeSpec == EngineInit /\ [][EngineNext]_vars

\* Preemptively scheduled threads, as in ThreadPool.
EngineSpec == EngineSafeSpec /\ WF_vars(EngineMain)
                             /\ \A t \in Threads : WF_vars(EngineWorker(t))

-----------------------------------------------------------------------------
(* Properties.                                                             *)

\* Where the pool and the walk must agree: a thread is at an operation only
\* within a pass.
TypesAgree == \A t \in Threads : pc[t] # "out" => wpc[t] = "pass"

\* execute_tasks waits for the first worker only, yet when it returns every
\* worker has come to every blocking operation of the pass, the last one too:
\* the barriers in the walk do what the main latch does not.
AllReachTheEnd == mpc = "idle" /\ round > 0 =>
                    /\ \A t \in Threads : passes[t] = round
                    /\ \A i \in BlockingAt : Came(i) = Threads

\* The arena is there whenever a kernel runs, but for the last blocking
\* operation and what follows it: a worker may still be in those when ~model
\* frees it.
ArenaOutlivesKernels == \A t \in Threads :
  pc[t] = "kernel" => \/ arena = "live"
                      \/ arena = "freed" /\ \A i \in BlockingAt : pos[t] >= i

\* The destructor's early exit from the worker's loop costs no worker its
\* pass: when the model is gone, everyone has walked the whole graph.
EveryoneWalked == mpc = "end" =>
                    \A t \in Threads : passes[t] = Rounds /\ pos[t] = WalkLength + 1

\* Worker t has a step that it can take.
WorkerCanGoOn(t) == IF wpc[t] = "pass" THEN pc[t] = "out" \/ CanGoOn(t)
                    ELSE Pool!WorkerGoesOn(t)

\* Until the model is gone some thread waits for nobody: neither the first call
\* of execute_tasks, nor the barriers of the walk while the main thread goes on
\* to destroy the pool, nor the joining of the workers ends in a deadlock.
NeverHangs == mpc = "end" \/ Pool!MainGoesOn \/ \E t \in Threads : WorkerCanGoOn(t)

\* A model that evaluates a single token comes to an end.
ModelTerminates == <>(mpc = "end")

-----------------------------------------------------------------------------
(* What makes the safety properties inductive, for a single token.         *)

\* Worker t has walked the whole graph.
Through(t) == pos[t] = WalkLength + 1

Destroying == mpc \in {"stop", "stopWake", "stopRelease", "join", "end"}

\* execute_tasks has returned.
Returned == round > 0 /\ (mpc = "idle" \/ Destroying)

WalkTypes == /\ pos \in [Threads -> 0 .. WalkLength + 1]
             /\ pc \in [Threads -> Points]
             /\ next \in [Threads -> 0 .. N]

\* A worker has begun a pass if it has set out on the walk, and it tells the
\* main thread when it is through, or because the pool is being destroyed.
OnePass == \A t \in Threads :
  /\ passes[t] = IF pos[t] = 0 THEN 0 ELSE 1
  /\ pos[t] = 0 => pc[t] = "out" /\ next[t] = 0
  /\ wpc[t] = "pass" => pos[t] # 0
  /\ wpc[t] \in {"tell", "count", "rearm"} => Through(t) \/ stop

\* The main latch is down when, and not before, a worker was through.
ToldByOne == /\ mainGc = 0 => \E t \in Threads : Through(t)
             /\ Returned => mainGc = 0
             /\ stop => Returned

\* What goes on while the main thread is where it is.
Phases == /\ mpc = "spawn" => round = 0
          /\ round = 0 => mpc \in {"spawn", "idle"} /\ \A t \in Threads : pos[t] = 0
          /\ round = 0 /\ mpc = "idle" => latch = PlannedLatches
          /\ arena = IF mpc = "spawn" THEN "none" ELSE IF Destroying THEN "freed" ELSE "live"

EIInv == WalkTypes /\ TypesAgree /\ OnePass /\ ToldByOne /\ Phases
=============================================================================
