----------------------------- MODULE ThreadPool -----------------------------
(***************************************************************************)
(* The life of a thread_pool (cpu/thread_pool.hpp): its constructor starts *)
(* the workers, execute_tasks wakes them for one pass and waits on the     *)
(* main latch, and the destructor tells them to stop and joins them.  The  *)
(* main thread calls execute_tasks Rounds times, as model::execute_model   *)
(* does (token_count + 1 times).                                           *)
(*                                                                         *)
(* A pass (threading_strategy::impl) is a single step here; module Engine  *)
(* puts ThreadingStrategy in its place.  The worker latches and the main   *)
(* latch are used through try_wait, wait, count_down and reset only, which *)
(* look at nothing but global_counter: their flags are left out.           *)
(***************************************************************************)
EXTENDS Naturals, FiniteSets

CONSTANTS N,          \* thread_count
          Rounds      \* calls of execute_tasks

ASSUME PoolAssumption == N \in Nat \ {0} /\ Rounds \in Nat

VARIABLES mpc,        \* where the main thread is
          index,      \* the index of the main thread's loop over the workers
          round,      \* calls of execute_tasks begun
          mainGc,     \* main_thread_latch.global_counter
          workerGc,   \* worker_latches[t].global_counter
          stop,
          wpc,        \* where each worker is in thread_function_impl
          passes      \* passes each worker has begun (history)

poolVars == <<mpc, index, round, mainGc, workerGc, stop, wpc, passes>>

Threads == 0 .. N - 1

MainPoints == {"spawn",     \* constructor, in its loop
               "idle",      \* between two calls
               "wake",      \* execute_tasks: try_wait on a worker's latch
               "release",   \* execute_tasks: before that latch's count_down
               "await",     \* execute_tasks: main_thread_latch.wait()
               "stop",      \* destructor: before stop.store
               "stopWake",  \* destructor: try_wait on a worker's latch
               "stopRelease",
               "join",      \* destructor, joining
               "end"}

WorkerPoints == {"none",    \* not started
                 "loop",    \* at the test of the while loop
                 "wait",    \* worker_latches[t].wait()
                 "check",   \* before the second test of stop
                 "pass",    \* in threading_strategy::impl
                 "tell",    \* main_thread_latch.try_wait()
                 "count",   \* main_thread_latch.count_down()
                 "rearm",   \* worker_latches[t].reset(1)
                 "exit"}

Init == /\ mpc = "spawn" /\ index = 0 /\ round = 0 /\ stop = FALSE
        /\ mainGc = N
        /\ workerGc = [t \in Threads |-> 0]
        /\ wpc = [t \in Threads |-> "none"]
        /\ passes = [t \in Threads |-> 0]

-----------------------------------------------------------------------------
(* The main thread.                                                        *)

MainGoto(from, to) == mpc = from /\ mpc' = to

WorkersAlone == UNCHANGED <<wpc, passes>>

\* One turn of the constructor's loop: reset the worker's latch, start it.
Spawn == /\ mpc = "spawn" /\ index < N
         /\ workerGc' = [workerGc EXCEPT ![index] = 1]
         /\ wpc' = [wpc EXCEPT ![index] = "loop"]
         /\ index' = index + 1
         /\ UNCHANGED <<mpc, round, mainGc, stop, passes>>

Constructed == /\ MainGoto("spawn", "idle") /\ index = N
               /\ UNCHANGED <<index, round, mainGc, workerGc, stop>> /\ WorkersAlone

\* execute_tasks begins: main_thread_latch.reset(threads.size()).
BeginTasks == /\ MainGoto("idle", "wake") /\ round < Rounds
              /\ round' = round + 1
              /\ mainGc' = N
              /\ index' = 0
              /\ UNCHANGED <<workerGc, stop>> /\ WorkersAlone

\* Variant: if (value.try_wait()).
TryWaitNegated == /\ mpc \in {"wake", "stopWake"} /\ index < N
                  /\ IF workerGc[index] # 0
                     THEN index' = index + 1 /\ UNCHANGED mpc
                     ELSE mpc' = (IF mpc = "wake" THEN "release" ELSE "stopRelease")
                          /\ UNCHANGED index
                  /\ UNCHANGED <<round, mainGc, workerGc, stop>> /\ WorkersAlone

\* execute_tasks and the destructor: if (!value.try_wait()).
TryWait == /\ mpc \in {"wake", "stopWake"} /\ index < N
           /\ IF workerGc[index] = 0
              THEN index' = index + 1 /\ UNCHANGED mpc
              ELSE mpc' = (IF mpc = "wake" THEN "release" ELSE "stopRelease")
                   /\ UNCHANGED index
           /\ UNCHANGED <<round, mainGc, workerGc, stop>> /\ WorkersAlone

\* value.count_down().
Release == /\ \/ MainGoto("release", "wake") \/ MainGoto("stopRelease", "stopWake")
           /\ workerGc' = [workerGc EXCEPT ![index] = 0]
           /\ index' = index + 1
           /\ UNCHANGED <<round, mainGc, stop>> /\ WorkersAlone

AllTold == /\ index = N
           /\ \/ MainGoto("wake", "await") /\ UNCHANGED index
              \/ MainGoto("stopWake", "join") /\ index' = 0
           /\ UNCHANGED <<round, mainGc, workerGc, stop>> /\ WorkersAlone

\* Variant: execute_tasks does not wait.
TasksReturnUnwaited == /\ MainGoto("await", "idle")
                       /\ UNCHANGED <<index, round, mainGc, workerGc, stop>> /\ WorkersAlone

\* main_thread_latch.wait() returns, and with it execute_tasks.
TasksReturn == /\ MainGoto("await", "idle") /\ mainGc = 0
               /\ UNCHANGED <<index, round, mainGc, workerGc, stop>> /\ WorkersAlone

\* The last call has returned: ~thread_pool begins.
Destroy == /\ MainGoto("idle", "stop") /\ round = Rounds
           /\ UNCHANGED <<index, round, mainGc, workerGc, stop>> /\ WorkersAlone

SetStop == /\ MainGoto("stop", "stopWake")
           /\ stop' = TRUE
           /\ index' = 0
           /\ UNCHANGED <<round, mainGc, workerGc>> /\ WorkersAlone

\* Variant: the threads are detached, not joined.
JoinDetached == /\ mpc = "join" /\ index < N
                /\ index' = index + 1
                /\ UNCHANGED <<mpc, round, mainGc, workerGc, stop>> /\ WorkersAlone

Join == /\ mpc = "join" /\ index < N
        /\ wpc[index] = "exit"
        /\ index' = index + 1
        /\ UNCHANGED <<mpc, round, mainGc, workerGc, stop>> /\ WorkersAlone

Joined == /\ MainGoto("join", "end") /\ index = N
          /\ UNCHANGED <<index, round, mainGc, workerGc, stop>> /\ WorkersAlone

MainStep == \/ Spawn \/ Constructed \/ BeginTasks \/ TryWait \/ Release \/ AllTold
            \/ TasksReturn \/ Destroy \/ SetStop \/ Join \/ Joined

-----------------------------------------------------------------------------
(* A worker: thread_function_impl.                                         *)

WorkerGoto(t, from, to) == wpc[t] = from /\ wpc' = [wpc EXCEPT ![t] = to]

MainAlone == UNCHANGED <<mpc, index, round, stop>>

\* Variant: while (true).
LoopForever(t) == /\ WorkerGoto(t, "loop", "wait")
                  /\ UNCHANGED <<mainGc, workerGc, passes>> /\ MainAlone

\* while (!stop.load()).
LoopTest(t) == /\ WorkerGoto(t, "loop", IF stop THEN "exit" ELSE "wait")
               /\ UNCHANGED <<mainGc, workerGc, passes>> /\ MainAlone

\* worker_latches[t].wait() returns.
Wake(t) == /\ WorkerGoto(t, "wait", "check") /\ workerGc[t] = 0
           /\ UNCHANGED <<mainGc, workerGc, passes>> /\ MainAlone

\* if (!stop.load()): the pass is skipped when the pool is being destroyed.
BeginPass(t) == /\ WorkerGoto(t, "check", "pass") /\ ~stop
                /\ passes' = [passes EXCEPT ![t] = @ + 1]
                /\ UNCHANGED <<mainGc, workerGc>> /\ MainAlone

SkipPass(t) == /\ WorkerGoto(t, "check", "tell") /\ stop
               /\ UNCHANGED <<mainGc, workerGc, passes>> /\ MainAlone

EndPass(t) == /\ WorkerGoto(t, "pass", "tell")
              /\ UNCHANGED <<mainGc, workerGc, passes>> /\ MainAlone

\* if (!main_thread_latch.try_wait()).
TellTest(t) == /\ WorkerGoto(t, "tell", IF mainGc = 0 THEN "rearm" ELSE "count")
               /\ UNCHANGED <<mainGc, workerGc, passes>> /\ MainAlone

\* main_thread_latch.count_down(), which stores 0: one worker is enough.
Tell(t) == /\ WorkerGoto(t, "count", "rearm")
           /\ mainGc' = 0
           /\ UNCHANGED <<workerGc, passes>> /\ MainAlone

\* Variants: the latch is left down, or reset to the number of threads.
RearmForgotten(t) == /\ WorkerGoto(t, "rearm", "loop")
                     /\ UNCHANGED <<mainGc, workerGc, passes>> /\ MainAlone

RearmForAll(t) == /\ WorkerGoto(t, "rearm", "loop")
                  /\ workerGc' = [workerGc EXCEPT ![t] = N]
                  /\ UNCHANGED <<mainGc, passes>> /\ MainAlone

\* worker_latches[t].reset(1).
Rearm(t) == /\ WorkerGoto(t, "rearm", "loop")
            /\ workerGc' = [workerGc EXCEPT ![t] = 1]
            /\ UNCHANGED <<mainGc, passes>> /\ MainAlone

WorkerStep(t) == \/ LoopTest(t) \/ Wake(t) \/ BeginPass(t) \/ SkipPass(t) \/ EndPass(t)
                 \/ TellTest(t) \/ Tell(t) \/ Rearm(t)

-----------------------------------------------------------------------------

Finished == mpc = "end" /\ UNCHANGED poolVars

Next == MainStep \/ (\E t \in Threads : WorkerStep(t)) \/ Finished

SafeSpec == Init /\ [][Next]_poolVars

\* Every thread is preemptively scheduled, and a pass comes to an end.
Spec == SafeSpec /\ WF_poolVars(MainStep) /\ \A t \in Threads : WF_poolVars(WorkerStep(t))

-----------------------------------------------------------------------------
(* Properties.                                                             *)

\* The calls in which worker t has been told, or found awake: execute_tasks
\* has not come to the latches from index on.
Asked(t) == IF mpc \in {"wake", "release"} /\ t >= index THEN round - 1 ELSE round

\* The types of the variables.
TypeOK == /\ mpc \in MainPoints /\ index \in 0 .. N /\ round \in 0 .. Rounds
          /\ mainGc \in {0, N} /\ workerGc \in [Threads -> {0, 1}]
          /\ stop \in BOOLEAN
          /\ wpc \in [Threads -> WorkerPoints]
          /\ passes \in [Threads -> Nat]

\* A worker never runs a pass nobody asked for: it has begun at most as many
\* passes as execute_tasks has been called, however the re-arming of its latch
\* interleaves with the wake-ups of the next call.
NoSpuriousPass == \A t \in Threads : passes[t] <= round

\* At the end of the destructor every thread has been joined and nobody is
\* left that could touch the pool.
NobodyOutlivesThePool == mpc = "end" => \A t \in Threads : wpc[t] = "exit"

\* The main thread's loops stay within the workers, and its destructor
\* releases and joins with stop set.
MainInv == /\ mpc \in {"release", "stopRelease"} => index < N
           /\ mpc \in {"stopWake", "stopRelease", "join", "end"} => stop
           /\ mpc \in {"join", "end"} => \A t \in Threads : t < index => wpc[t] = "exit"
           /\ mpc = "end" => index = N

\* A worker's latch is down from the moment it is told until it re-arms it; a
\* worker that is told and has not yet begun its pass owes one to a call.
WakeInv == \A t \in Threads :
             /\ wpc[t] \in {"check", "pass", "tell", "count", "rearm"} => workerGc[t] = 0
             /\ passes[t] <= Asked(t)
             /\ wpc[t] \in {"loop", "wait", "check"} /\ workerGc[t] = 0 /\ ~stop
                  => passes[t] < Asked(t)

\* The inductive invariant.
IInv == TypeOK /\ MainInv /\ WakeInv

\* The main thread, and worker t, has a step that it can take: it is not in a
\* wait that would go on.
MainGoesOn == /\ mpc # "end"
              /\ mpc = "await" => mainGc = 0
              /\ mpc = "join" /\ index < N => wpc[index] = "exit"

WorkerGoesOn(t) == /\ wpc[t] \notin {"none", "exit"}
                   /\ wpc[t] = "wait" => workerGc[t] = 0

SomebodyGoesOn == mpc = "end" \/ MainGoesOn \/ \E t \in Threads : WorkerGoesOn(t)

\* The pool cannot hang in its first call, nor once the destructor has set
\* stop, whatever calls came before: there is always a thread that is not
\* waiting for another.  (In a later call it can: EveryCallReturns.)
NoHang == round <= 1 \/ stop => SomebodyGoesOn

\* A worker has been started once the constructor has come past it, leaves only
\* when stop is set, and ends a pass only if it has begun one.
Manned == /\ stop <=> mpc \in {"stopWake", "stopRelease", "join", "end"}
          /\ mpc = "spawn" => round = 0
          /\ mpc \in {"wake", "release", "await"} => round > 0
          /\ \A t \in Threads :
               /\ wpc[t] = "none" <=> mpc = "spawn" /\ t >= index
               /\ wpc[t] = "exit" => stop
               /\ wpc[t] \in {"pass", "tell", "count", "rearm"} /\ ~stop => passes[t] > 0

\* In the first call a worker that was told and has its latch up again has made
\* its pass, and one that has made it has told the main thread.
FirstCall == round = 1 =>
  \A t \in Threads :
    /\ Asked(t) = 1 /\ workerGc[t] = 1 /\ ~stop => passes[t] = 1
    /\ passes[t] = 1 /\ wpc[t] \in {"rearm", "loop", "wait", "check", "exit"} => mainGc = 0

\* A worker that the destructor has come past does not sleep.
Woken == stop => \A t \in Threads :
           wpc[t] = "wait" /\ (mpc \in {"join", "end"} \/ t < index) => workerGc[t] = 0

HInv == IInv /\ Manned /\ FirstCall /\ Woken

\* The shutdown handshake: once the destructor has set stop every worker
\* leaves, whether it was about to test stop, asleep on its latch, in a pass
\* or re-arming, and the destructor returns.
ShutdownCompletes == stop ~> mpc = "end"

\* README.md:8 says of the engine that nothing blocks: each of model::
\* execute_model's calls of execute_tasks returns.
EveryCallReturns == mpc = "await" ~> mpc = "idle"
=============================================================================
