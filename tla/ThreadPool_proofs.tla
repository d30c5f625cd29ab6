-------------------------- MODULE ThreadPool_proofs --------------------------
(***************************************************************************)
(* ThreadPool for every number of workers and of calls: no worker runs a   *)
(* pass nobody asked for, and the destructor leaves no worker behind.      *)
(***************************************************************************)
EXTENDS ThreadPool, Integers, TLAPS

USE PoolAssumption

LEMMA InitIInv == Init => IInv
<1> SUFFICES ASSUME Init PROVE IInv
  OBVIOUS
<1>1. TypeOK
  <2>1. /\ mpc = "spawn" /\ index = 0 /\ round = 0 /\ stop = FALSE /\ mainGc = N
        /\ workerGc = [t \in Threads |-> 0] /\ wpc = [t \in Threads |-> "none"]
        /\ passes = [t \in Threads |-> 0]
    BY DEF Init
  <2>2. stop \in BOOLEAN
    BY <2>1
  <2>3. index \in 0 .. N /\ round \in 0 .. Rounds /\ mainGc \in {0, N}
    BY <2>1
  <2>4. mpc \in MainPoints /\ wpc \in [Threads -> WorkerPoints]
    BY <2>1 DEF MainPoints, WorkerPoints
  <2>5. workerGc \in [Threads -> {0, 1}] /\ passes \in [Threads -> Nat]
    BY <2>1
  <2> QED
    BY <2>2, <2>3, <2>4, <2>5 DEF TypeOK
<1>2. MainInv /\ WakeInv
  BY DEF Init, MainInv, WakeInv, Asked
<1> QED
  BY <1>1, <1>2 DEF IInv

-----------------------------------------------------------------------------

LEMMA MainTypeOK == TypeOK /\ MainInv /\ MainStep => TypeOK'
<1> SUFFICES ASSUME TypeOK, MainInv, MainStep PROVE TypeOK'
  OBVIOUS
<1> USE DEF TypeOK, MainPoints, MainGoto, WorkersAlone
<1>1. CASE Spawn
  <2>1. index \in Threads
    BY <1>1 DEF Spawn, Threads
  <2> QED
    BY <1>1, <2>1 DEF Spawn, WorkerPoints
<1>2. CASE Constructed
  BY <1>2 DEF Constructed
<1>3. CASE BeginTasks
  BY <1>3 DEF BeginTasks
<1>4. CASE TryWait
  BY <1>4 DEF TryWait
<1>5. CASE Release
  <2>1. index \in Threads /\ index + 1 \in 0 .. N
    BY <1>5 DEF Release, MainInv, Threads
  <2> QED
    BY <1>5, <2>1 DEF Release
<1>6. CASE AllTold
  BY <1>6 DEF AllTold
<1>7. CASE TasksReturn
  BY <1>7 DEF TasksReturn
<1>8. CASE Destroy
  BY <1>8 DEF Destroy
<1>9. CASE SetStop
  BY <1>9 DEF SetStop
<1>10. CASE Join
  BY <1>10 DEF Join
<1>11. CASE Joined
  BY <1>11 DEF Joined
<1> QED
  BY <1>1, <1>2, <1>3, <1>4, <1>5, <1>6, <1>7, <1>8, <1>9, <1>10, <1>11 DEF MainStep

LEMMA WorkerTypeOK ==
  ASSUME TypeOK, NEW t \in Threads, WorkerStep(t)
  PROVE  TypeOK'
BY DEF TypeOK, WorkerPoints, WorkerStep, WorkerGoto, MainAlone, LoopTest, Wake, BeginPass,
   SkipPass, EndPass, TellTest, Tell, Rearm

-----------------------------------------------------------------------------
(* The main thread's steps.                                                *)

LEMMA MainMainInv == IInv /\ MainStep => MainInv'
<1> SUFFICES ASSUME IInv, MainStep PROVE MainInv'
  OBVIOUS
<1> USE DEF IInv, TypeOK, MainInv, MainGoto, WorkersAlone
<1>1. CASE Spawn
  BY <1>1 DEF Spawn
<1>2. CASE Constructed
  BY <1>2 DEF Constructed
<1>3. CASE BeginTasks
  BY <1>3 DEF BeginTasks
<1>4. CASE TryWait
  BY <1>4 DEF TryWait
<1>5. CASE Release
  BY <1>5 DEF Release
<1>6. CASE AllTold
  BY <1>6 DEF AllTold, Threads
<1>7. CASE TasksReturn
  BY <1>7 DEF TasksReturn
<1>8. CASE Destroy
  BY <1>8 DEF Destroy
<1>9. CASE SetStop
  BY <1>9 DEF SetStop
<1>10. CASE Join
  BY <1>10 DEF Join, Threads
<1>11. CASE Joined
  BY <1>11 DEF Joined
<1> QED
  BY <1>1, <1>2, <1>3, <1>4, <1>5, <1>6, <1>7, <1>8, <1>9, <1>10, <1>11 DEF MainStep

\* Telling a worker, or finding its latch down, is what moves Asked: by one
\* call, for the worker at index.
LEMMA MainWakeInv == IInv /\ MainStep => WakeInv'
<1> SUFFICES ASSUME IInv, MainStep, NEW t \in Threads
             PROVE  /\ wpc'[t] \in {"check", "pass", "tell", "count", "rearm"}
                         => workerGc'[t] = 0
                    /\ passes'[t] <= Asked(t)'
                    /\ wpc'[t] \in {"loop", "wait", "check"} /\ workerGc'[t] = 0 /\ ~stop'
                         => passes'[t] < Asked(t)'
  BY DEF WakeInv
<1> USE DEF IInv, TypeOK, WakeInv, Asked, MainGoto, WorkersAlone, Threads
<1>1. CASE Spawn
  BY <1>1 DEF Spawn
<1>2. CASE Constructed \/ TasksReturn \/ Destroy \/ Joined \/ Join \/ SetStop
  BY <1>2 DEF Constructed, TasksReturn, Destroy, Joined, Join, SetStop
<1>3. CASE BeginTasks
  BY <1>3 DEF BeginTasks
<1>4. CASE TryWait
  BY <1>4 DEF TryWait
<1>5. CASE Release
  BY <1>5 DEF Release, MainInv
<1>6. CASE AllTold
  BY <1>6 DEF AllTold
<1> QED
  BY <1>1, <1>2, <1>3, <1>4, <1>5, <1>6 DEF MainStep

-----------------------------------------------------------------------------
(* The workers' steps.                                                     *)

LEMMA WorkerMainInv ==
  ASSUME IInv, NEW t \in Threads, WorkerStep(t)
  PROVE  MainInv'
<1>1. wpc[t] # "exit" /\ \A u \in Threads \ {t} : wpc'[u] = wpc[u]
  BY DEF IInv, TypeOK, WorkerStep, WorkerGoto, LoopTest, Wake, BeginPass, SkipPass,
     EndPass, TellTest, Tell, Rearm
<1>2. MainAlone
  BY DEF WorkerStep, LoopTest, Wake, BeginPass, SkipPass, EndPass, TellTest, Tell, Rearm
<1> QED
  BY <1>1, <1>2 DEF IInv, TypeOK, MainInv, MainAlone

LEMMA WorkerWakeInv ==
  ASSUME IInv, NEW u \in Threads, WorkerStep(u)
  PROVE  WakeInv'
<1> SUFFICES ASSUME NEW t \in Threads
             PROVE  /\ wpc'[t] \in {"check", "pass", "tell", "count", "rearm"}
                         => workerGc'[t] = 0
                    /\ passes'[t] <= Asked(t)'
                    /\ wpc'[t] \in {"loop", "wait", "check"} /\ workerGc'[t] = 0 /\ ~stop'
                         => passes'[t] < Asked(t)'
  BY DEF WakeInv
<1> USE DEF IInv, TypeOK, WakeInv, WorkerGoto
<1>1. Asked(t)' = Asked(t) /\ stop' = stop
  BY DEF WorkerStep, MainAlone, LoopTest, Wake, BeginPass, SkipPass, EndPass, TellTest,
     Tell, Rearm, Asked
<1>2. Asked(t) \in Int
  BY DEF Asked
<1>3. CASE LoopTest(u) \/ Wake(u) \/ SkipPass(u)
  BY <1>1, <1>2, <1>3 DEF LoopTest, Wake, SkipPass
<1>4. CASE BeginPass(u)
  BY <1>1, <1>2, <1>4 DEF BeginPass
<1>5. CASE EndPass(u) \/ TellTest(u) \/ Tell(u)
  BY <1>1, <1>2, <1>5 DEF EndPass, TellTest, Tell
<1>6. CASE Rearm(u)
  BY <1>1, <1>2, <1>6 DEF Rearm
<1> QED
  BY <1>3, <1>4, <1>5, <1>6 DEF WorkerStep

LEMMA StepIInv == IInv /\ [Next]_poolVars => IInv'
<1> SUFFICES ASSUME IInv, [Next]_poolVars PROVE IInv'
  OBVIOUS
<1>1. CASE MainStep
  BY <1>1, MainTypeOK, MainMainInv, MainWakeInv DEF IInv
<1>2. ASSUME NEW t \in Threads, WorkerStep(t) PROVE IInv'
  BY <1>2, WorkerTypeOK, WorkerMainInv, WorkerWakeInv DEF IInv
<1>3. CASE UNCHANGED poolVars
  BY <1>3 DEF poolVars, IInv, TypeOK, MainInv, WakeInv, Asked
<1> QED
  BY <1>1, <1>2, <1>3 DEF Next, Finished

\* The inductive invariant holds in every reachable state.
THEOREM Invariant == SafeSpec => []IInv
BY InitIInv, StepIInv, PTL DEF SafeSpec

\* The variables of the pool keep their types.
THEOREM TypeCorrect == SafeSpec => []TypeOK
<1>1. IInv => TypeOK
  BY DEF IInv
<1> QED
  BY <1>1, Invariant, PTL

\* A worker begins at most one pass for each call of execute_tasks.
THEOREM NoPassUnasked == SafeSpec => []NoSpuriousPass
<1>1. IInv => NoSpuriousPass
  BY DEF IInv, TypeOK, WakeInv, Asked, NoSpuriousPass
<1> QED
  BY <1>1, Invariant, PTL

\* When the destructor has returned every worker has left its loop.
THEOREM AllJoined == SafeSpec => []NobodyOutlivesThePool
<1>1. IInv => NobodyOutlivesThePool
  BY DEF IInv, TypeOK, MainInv, NobodyOutlivesThePool, Threads
<1> QED
  BY <1>1, Invariant, PTL

-----------------------------------------------------------------------------
(* Nobody waits for ever in the first call and in the destructor.          *)

LEMMA InitHInv == Init => HInv
<1> SUFFICES ASSUME Init PROVE Manned /\ FirstCall /\ Woken
  BY InitIInv DEF HInv
<1>1. /\ mpc = "spawn" /\ index = 0 /\ round = 0 /\ ~stop
      /\ \A t \in Threads : wpc[t] = "none" /\ t >= 0
  BY DEF Init, Threads
<1>2. Manned
  BY <1>1 DEF Manned
<1> QED
  BY <1>1, <1>2 DEF FirstCall, Woken

\* What the main thread's steps do to Manned, FirstCall and Woken.
LEMMA MainHInv == HInv /\ MainStep => (Manned /\ FirstCall /\ Woken)'
<1> SUFFICES ASSUME HInv, MainStep PROVE Manned' /\ FirstCall' /\ Woken'
  OBVIOUS
<1> USE DEF HInv, IInv, TypeOK, MainGoto, WorkersAlone, MainPoints, WorkerPoints
<1>1. Manned'
  <2> USE DEF Manned
  <2>1. CASE Spawn
    BY <2>1 DEF Spawn, Threads
  <2>2. CASE Constructed
    BY <2>2 DEF Constructed, Threads
  <2>3. CASE BeginTasks
    BY <2>3 DEF BeginTasks
  <2>4. CASE TryWait \/ Release \/ AllTold
    BY <2>4 DEF TryWait, Release, AllTold
  <2>5. CASE TasksReturn \/ Destroy
    BY <2>5 DEF TasksReturn, Destroy
  <2>6. CASE SetStop
    BY <2>6 DEF SetStop
  <2>7. CASE Join \/ Joined
    BY <2>7 DEF Join, Joined
  <2> QED
    BY <2>1, <2>2, <2>3, <2>4, <2>5, <2>6, <2>7 DEF MainStep
<1>2. FirstCall'
  <2> SUFFICES ASSUME round' = 1, NEW t \in Threads
               PROVE  /\ Asked(t)' = 1 /\ workerGc'[t] = 1 /\ ~stop' => passes'[t] = 1
                      /\ passes'[t] = 1 /\ wpc'[t] \in {"rearm", "loop", "wait", "check", "exit"}
                           => mainGc' = 0
    BY DEF FirstCall
  <2> USE DEF Asked, Threads, FirstCall
  <2>1. CASE Spawn \/ Constructed
    BY <2>1 DEF Spawn, Constructed, Manned
  <2>2. CASE BeginTasks
    BY <2>2 DEF BeginTasks, WakeInv
  <2>3. CASE TryWait
    BY <2>3 DEF TryWait
  <2>4. CASE Release
    BY <2>4 DEF Release, MainInv
  <2>5. CASE AllTold
    BY <2>5 DEF AllTold
  <2>6. CASE TasksReturn \/ Destroy \/ SetStop \/ Join \/ Joined
    BY <2>6 DEF TasksReturn, Destroy, SetStop, Join, Joined
  <2> QED
    BY <2>1, <2>2, <2>3, <2>4, <2>5, <2>6 DEF MainStep
<1>3. Woken'
  <2> USE DEF Woken, Manned, Threads
  <2>1. CASE Spawn \/ Constructed \/ BeginTasks \/ TasksReturn \/ Destroy \/ SetStop
    <3>1. CASE SetStop
      BY <3>1 DEF SetStop
    <3>2. CASE ~SetStop
      <4>1. ~stop /\ stop' = stop
        BY <2>1, <3>2 DEF Spawn, Constructed, BeginTasks, TasksReturn, Destroy
      <4> QED BY <4>1
    <3> QED BY <3>1, <3>2
  <2>2. CASE TryWait
    BY <2>2 DEF TryWait
  <2>3. CASE Release
    BY <2>3 DEF Release, MainInv
  <2>4. CASE AllTold
    BY <2>4 DEF AllTold
  <2>5. CASE Join \/ Joined
    BY <2>5 DEF Join, Joined
  <2> QED
    BY <2>1, <2>2, <2>3, <2>4, <2>5 DEF MainStep
<1> QED
  BY <1>1, <1>2, <1>3

LEMMA WorkerHInv ==
  ASSUME HInv, NEW u \in Threads, WorkerStep(u)
  PROVE  (Manned /\ FirstCall /\ Woken)'
<1> USE DEF HInv, IInv, TypeOK, WorkerGoto
<1>1. UNCHANGED <<mpc, index, round, stop>> /\ \A t \in Threads : Asked(t)' = Asked(t)
  BY DEF WorkerStep, MainAlone, LoopTest, Wake, BeginPass, SkipPass, EndPass, TellTest,
     Tell, Rearm, Asked
<1>2. \A t \in Threads : Asked(t) \in Int /\ Asked(t) <= round
  BY DEF Asked
<1>3. Manned'
  <2> USE <1>1 DEF Manned
  <2>1. CASE LoopTest(u) \/ Wake(u) \/ SkipPass(u) \/ EndPass(u) \/ TellTest(u)
    BY <2>1 DEF LoopTest, Wake, SkipPass, EndPass, TellTest
  <2>2. CASE BeginPass(u) \/ Tell(u) \/ Rearm(u)
    BY <2>2 DEF BeginPass, Tell, Rearm
  <2> QED
    BY <2>1, <2>2 DEF WorkerStep
<1>4. FirstCall'
  <2> SUFFICES ASSUME round = 1, NEW t \in Threads
               PROVE  /\ Asked(t) = 1 /\ workerGc'[t] = 1 /\ ~stop => passes'[t] = 1
                      /\ passes'[t] = 1 /\ wpc'[t] \in {"rearm", "loop", "wait", "check", "exit"}
                           => mainGc' = 0
    BY <1>1 DEF FirstCall
  <2> USE <1>1, <1>2 DEF FirstCall
  <2>1. CASE LoopTest(u) \/ Wake(u) \/ SkipPass(u)
    BY <2>1 DEF LoopTest, Wake, SkipPass
  <2>2. CASE BeginPass(u)
    BY <2>2 DEF BeginPass, WakeInv
  <2>3. CASE EndPass(u) \/ TellTest(u) \/ Tell(u)
    BY <2>3 DEF EndPass, TellTest, Tell
  <2>4. CASE Rearm(u)
    BY <2>4 DEF Rearm, Manned, WakeInv
  <2> QED
    BY <2>1, <2>2, <2>3, <2>4 DEF WorkerStep
<1>5. Woken'
  BY <1>1 DEF Woken, WorkerStep, LoopTest, Wake, BeginPass, SkipPass, EndPass, TellTest,
     Tell, Rearm
<1> QED
  BY <1>3, <1>4, <1>5

LEMMA StepHInv == HInv /\ [Next]_poolVars => HInv'
<1> SUFFICES ASSUME HInv, [Next]_poolVars PROVE HInv'
  OBVIOUS
<1>1. CASE UNCHANGED poolVars
  BY <1>1, StepIInv DEF poolVars, HInv, Manned, FirstCall, Woken, Asked
<1> QED
  BY <1>1, StepIInv, MainHInv, WorkerHInv DEF HInv, Next, Finished

\* The strengthened invariant holds in every reachable state.
THEOREM HangInvariant == SafeSpec => []HInv
BY InitHInv, StepHInv, PTL DEF SafeSpec

\* In the first call, and once the destructor has set stop, some thread is not
\* waiting for another.
THEOREM FirstCallAndShutdownDoNotHang == SafeSpec => []NoHang
<1>1. HInv => NoHang
  <2> SUFFICES ASSUME HInv, round <= 1 \/ stop, mpc # "end", ~MainGoesOn,
                      \A t \in Threads : ~WorkerGoesOn(t)
               PROVE  FALSE
    BY DEF NoHang, SomebodyGoesOn
  <2> USE DEF HInv, IInv, TypeOK, WorkerGoesOn, WorkerPoints
  <2>1. CASE mpc = "await" /\ mainGc # 0
    <3>1. round = 1 /\ ~stop /\ \A t \in Threads : wpc[t] \notin {"none", "exit"}
      BY <2>1 DEF Manned
    <3>2. 0 \in Threads
      BY DEF Threads
    <3>3. wpc[0] = "wait" /\ workerGc[0] = 1 /\ Asked(0) = 1
      BY <2>1, <3>1, <3>2 DEF Asked
    <3> QED
      BY <2>1, <3>1, <3>2, <3>3 DEF FirstCall
  <2>2. CASE mpc = "join" /\ index < N /\ wpc[index] # "exit"
    <3>1. index \in Threads /\ stop
      BY <2>2 DEF Threads, Manned
    <3> QED
      BY <2>2, <3>1 DEF Manned, Woken
  <2> QED
    BY <2>1, <2>2 DEF MainGoesOn
<1> QED
  BY <1>1, HangInvariant, PTL

-----------------------------------------------------------------------------
(* The first call and the shutdown are finite.                             *)

\* How far the main thread has come in its first call and the destructor.
MainProgress ==
  CASE mpc = "spawn" -> index
    [] mpc = "idle" /\ round = 0 -> N + 1
    [] mpc = "wake" -> N + 2 + 2 * index
    [] mpc = "release" -> N + 3 + 2 * index
    [] mpc = "await" -> 3 * N + 3
    [] mpc = "idle" /\ round > 0 -> 3 * N + 4
    [] mpc = "stop" -> 3 * N + 5
    [] mpc = "stopWake" -> 3 * N + 6 + 2 * index
    [] mpc = "stopRelease" -> 3 * N + 7 + 2 * index
    [] mpc = "join" -> 5 * N + 7 + index
    [] mpc = "end" -> 6 * N + 8

\* How far a worker has come: on its one lap, and on its way out.
LapOrder == [p \in WorkerPoints |->
               CASE p = "none" -> 0 [] p = "loop" -> 1 [] p = "wait" -> 2 [] p = "check" -> 3
                 [] p = "pass" -> 4 [] p = "tell" -> 5 [] p = "count" -> 6 [] p = "rearm" -> 7
                 [] p = "exit" -> 11]

WayOut == [p \in WorkerPoints |->
             CASE p = "none" -> 0 [] p = "wait" -> 1 [] p = "check" -> 2 [] p = "pass" -> 3
               [] p = "tell" -> 4 [] p = "count" -> 5 [] p = "rearm" -> 6 [] p = "loop" -> 7
               [] p = "exit" -> 8]

WorkerProgress(t) == IF stop THEN WayOut[wpc[t]]
                     ELSE IF wpc[t] \in {"loop", "wait", "check"} /\ passes[t] > 0
                          THEN LapOrder[wpc[t]] + 7 ELSE LapOrder[wpc[t]]

\* Every step brings the main thread on, or leaves it and brings one worker on.
OneAdvances == \/ MainProgress' > MainProgress
               \/ /\ MainProgress' = MainProgress
                  /\ \E t \in Threads :
                       /\ WorkerProgress(t)' > WorkerProgress(t)
                       /\ \A u \in Threads \ {t} : WorkerProgress(u)' = WorkerProgress(u)

\* Nobody has further to go than this.
InRange == /\ MainProgress \in 0 .. 6 * N + 8
           /\ \A t \in Threads : WorkerProgress(t) \in 0 .. 11

\* The first call and the destructor do not go round in circles: with NoHang,
\* they come to an end whoever runs, if only somebody does.
NoCircle == []InRange /\ [][round' <= 1 \/ stop => OneAdvances]_poolVars

\* A thread that can go on can go on until it does: nobody takes its turn away,
\* and so weak fairness is all that the threads need.
NobodyIsRobbed ==
  [][/\ MainGoesOn => MainGoesOn' \/ MainStep
     /\ \A t \in Threads : WorkerGoesOn(t) => WorkerGoesOn(t)' \/ WorkerStep(t)]_poolVars

\* The main thread takes the turn from no worker.
LEMMA MainTurn ==
  ASSUME HInv, MainStep, NEW t \in Threads, WorkerGoesOn(t)
  PROVE  WorkerGoesOn(t)'
<1> USE DEF HInv, IInv, TypeOK, WorkerGoesOn
<1>1. CASE Spawn
  BY <1>1 DEF Spawn, Manned, Threads
<1>2. CASE Release
  BY <1>2 DEF Release, WorkersAlone
<1>3. CASE ~Spawn /\ ~Release
  <2>1. wpc' = wpc /\ workerGc' = workerGc
    BY <1>3 DEF MainStep, WorkersAlone, Constructed, BeginTasks, TryWait, AllTold,
       TasksReturn, Destroy, SetStop, Join, Joined
  <2> QED BY <2>1
<1> QED BY <1>1, <1>2, <1>3

\* A worker takes the turn neither from the main thread nor from another worker.
LEMMA WorkerTurn ==
  ASSUME HInv, NEW u \in Threads, WorkerStep(u)
  PROVE  /\ MainGoesOn => MainGoesOn'
         /\ \A t \in Threads \ {u} : WorkerGoesOn(t) => WorkerGoesOn(t)'
<1> USE DEF HInv, IInv, TypeOK, MainGoesOn, WorkerGoesOn
<1>1. /\ UNCHANGED <<mpc, index>> /\ (mainGc = 0 => mainGc' = 0)
      /\ workerGc' = workerGc \/ workerGc' = [workerGc EXCEPT ![u] = 1]
  BY DEF WorkerStep, MainAlone, LoopTest, Wake, BeginPass, SkipPass, EndPass, TellTest,
     Tell, Rearm
<1>2. wpc[u] # "exit" /\ \E p : wpc' = [wpc EXCEPT ![u] = p]
  BY DEF WorkerStep, WorkerGoto, LoopTest, Wake, BeginPass, SkipPass, EndPass, TellTest,
     Tell, Rearm
<1>3. MainGoesOn => MainGoesOn'
  <2>1. index \in Nat /\ N \in Nat /\ index >= 0
    OBVIOUS
  <2>2. index < N => index \in Threads
    BY <2>1 DEF Threads
  <2> QED BY <1>1, <1>2, <2>2
<1> QED BY <1>1, <1>2, <1>3

\* A thread that can go on can go on until it does, in every call.
THEOREM EveryoneKeepsTheTurn == SafeSpec => NobodyIsRobbed
<1>1. ASSUME HInv, [Next]_poolVars
      PROVE  /\ MainGoesOn => MainGoesOn' \/ MainStep
             /\ \A t \in Threads : WorkerGoesOn(t) => WorkerGoesOn(t)' \/ WorkerStep(t)
  <2>1. CASE MainStep
    BY <1>1, <2>1, MainTurn
  <2>2. ASSUME NEW u \in Threads, WorkerStep(u)
        PROVE  /\ MainGoesOn => MainGoesOn'
               /\ \A t \in Threads \ {u} : WorkerGoesOn(t) => WorkerGoesOn(t)'
    BY <1>1, <2>2, WorkerTurn
  <2>3. CASE UNCHANGED poolVars
    BY <2>3 DEF poolVars, MainGoesOn, WorkerGoesOn
  <2> QED
    BY <1>1, <2>1, <2>2, <2>3 DEF Next, Finished
<1>2. HInv /\ [Next]_poolVars =>
        [/\ MainGoesOn => MainGoesOn' \/ MainStep
         /\ \A t \in Threads : WorkerGoesOn(t) => WorkerGoesOn(t)' \/ WorkerStep(t)]_poolVars
  BY <1>1
<1> QED
  BY <1>2, HangInvariant, PTL DEF SafeSpec, NobodyIsRobbed

LEMMA MainAdvances ==
  ASSUME HInv, MainStep, round' <= 1 \/ stop
  PROVE  MainProgress' > MainProgress
<1> USE DEF HInv, IInv, TypeOK, MainGoto, WorkersAlone
<1>1. round \in Nat /\ index \in 0 .. N /\ N \in Nat
  OBVIOUS
<1>2. CASE Spawn
  BY <1>2 DEF Spawn, MainProgress
<1>3. CASE Constructed
  BY <1>3 DEF Constructed, MainProgress, Manned
<1>4. CASE BeginTasks
  BY <1>4 DEF BeginTasks, MainProgress, Manned
<1>5. CASE TryWait
  BY <1>5 DEF TryWait, MainProgress
<1>6. CASE Release
  BY <1>6 DEF Release, MainProgress
<1>7. CASE AllTold
  BY <1>7 DEF AllTold, MainProgress
<1>8. CASE TasksReturn
  BY <1>8 DEF TasksReturn, MainProgress, Manned
<1>9. CASE Destroy
  BY <1>9 DEF Destroy, MainProgress
<1>10. CASE SetStop
  BY <1>10 DEF SetStop, MainProgress
<1>11. CASE Join
  BY <1>11 DEF Join, MainProgress
<1>12. CASE Joined
  BY <1>12 DEF Joined, MainProgress
<1> QED
  BY <1>2, <1>3, <1>4, <1>5, <1>6, <1>7, <1>8, <1>9, <1>10, <1>11, <1>12 DEF MainStep

LEMMA WorkerAdvances ==
  ASSUME HInv, NEW t \in Threads, WorkerStep(t), round <= 1 \/ stop
  PROVE  /\ MainProgress' = MainProgress
         /\ WorkerProgress(t)' > WorkerProgress(t)
         /\ \A u \in Threads \ {t} : WorkerProgress(u)' = WorkerProgress(u)
<1> USE DEF HInv, IInv, TypeOK, WorkerGoto
<1>1. UNCHANGED <<mpc, index, round, stop>>
  BY DEF WorkerStep, MainAlone, LoopTest, Wake, BeginPass, SkipPass, EndPass, TellTest,
     Tell, Rearm
<1>2. MainProgress' = MainProgress
  BY <1>1 DEF MainProgress
<1>3. \A u \in Threads \ {t} : wpc'[u] = wpc[u] /\ passes'[u] = passes[u]
  BY DEF WorkerStep, LoopTest, Wake, BeginPass, SkipPass, EndPass, TellTest, Tell, Rearm
<1>4. \A u \in Threads \ {t} : WorkerProgress(u)' = WorkerProgress(u)
  BY <1>1, <1>3 DEF WorkerProgress
<1>5. WorkerProgress(t)' > WorkerProgress(t)
  <2> USE DEF WorkerProgress, LapOrder, WayOut, WorkerPoints
  <2>1. CASE LoopTest(t)
    BY <1>1, <2>1 DEF LoopTest
  <2>2. CASE Wake(t)
    BY <1>1, <2>2 DEF Wake
  <2>3. CASE BeginPass(t)
    <3>1. passes[t] = 0
      BY <2>3 DEF BeginPass, WakeInv, Asked
    <3> QED BY <1>1, <2>3, <3>1 DEF BeginPass
  <2>4. CASE SkipPass(t) \/ EndPass(t)
    BY <1>1, <2>4 DEF SkipPass, EndPass
  <2>5. CASE TellTest(t) \/ Tell(t)
    BY <1>1, <2>5 DEF TellTest, Tell
  <2>6. CASE Rearm(t)
    BY <1>1, <2>6 DEF Rearm, Manned
  <2> QED
    BY <2>1, <2>2, <2>3, <2>4, <2>5, <2>6 DEF WorkerStep
<1> QED
  BY <1>2, <1>4, <1>5

\* How far the main thread and the workers have come is bounded.
LEMMA HInvInRange == HInv => InRange
<1> SUFFICES ASSUME HInv PROVE InRange
  OBVIOUS
<1>1. /\ mpc \in MainPoints /\ round \in Nat /\ index \in 0 .. N /\ N \in Nat
      /\ mpc \in {"release", "stopRelease"} => index < N
  BY DEF HInv, IInv, TypeOK, MainInv
<1>2. MainProgress \in 0 .. 6 * N + 8
  <2>1. CASE mpc = "spawn"
    BY <1>1, <2>1 DEF MainProgress
  <2>2. CASE mpc = "idle"
    <3>1. round = 0 \/ round > 0
      BY <1>1
    <3>2. MainProgress = N + 1 \/ MainProgress = 3 * N + 4
      BY <2>2, <3>1 DEF MainProgress
    <3> QED BY <1>1, <3>2
  <2>3. CASE mpc \in {"wake", "release", "stopWake", "stopRelease"}
    <3>1. \/ mpc = "wake" /\ MainProgress = N + 2 + 2 * index
          \/ mpc = "release" /\ MainProgress = N + 3 + 2 * index
          \/ mpc = "stopWake" /\ MainProgress = 3 * N + 6 + 2 * index
          \/ mpc = "stopRelease" /\ MainProgress = 3 * N + 7 + 2 * index
      BY <2>3 DEF MainProgress
    <3>2. mpc \in {"release", "stopRelease"} => index + 1 <= N
      BY <1>1
    <3> QED BY <1>1, <3>1, <3>2
  <2>4. CASE mpc \in {"await", "stop", "join", "end"}
    <3>1. \/ MainProgress = 3 * N + 3 \/ MainProgress = 3 * N + 5 \/ MainProgress = 6 * N + 8
          \/ MainProgress = 5 * N + 7 + index
      BY <2>4 DEF MainProgress
    <3> QED BY <1>1, <3>1
  <2> QED BY <1>1, <2>1, <2>2, <2>3, <2>4 DEF MainPoints
<1>3. ASSUME NEW t \in Threads PROVE WorkerProgress(t) \in 0 .. 11
  <2>1. \A p \in WorkerPoints : /\ WayOut[p] \in 0 .. 8 /\ LapOrder[p] \in 0 .. 11
                                /\ p \in {"loop", "wait", "check"} => LapOrder[p] \in 0 .. 4
    BY DEF WorkerPoints, LapOrder, WayOut
  <2>2. wpc[t] \in WorkerPoints
    BY DEF HInv, IInv, TypeOK
  <2>3. /\ WayOut[wpc[t]] \in 0 .. 8 /\ LapOrder[wpc[t]] \in 0 .. 11
        /\ wpc[t] \in {"loop", "wait", "check"} => LapOrder[wpc[t]] + 7 \in 0 .. 11
    BY <2>1, <2>2
  <2> QED BY <2>3 DEF WorkerProgress
<1> QED BY <1>2, <1>3 DEF InRange

\* In the first call, and once stop is set, no step leads back: with the theorem
\* that nobody hangs, these end after a bounded number of steps.
THEOREM FirstCallAndShutdownAdvance == SafeSpec => NoCircle
<1>1. ASSUME HInv, [Next]_poolVars, round' <= 1 \/ stop, ~UNCHANGED poolVars
      PROVE  OneAdvances
  <2>1. CASE MainStep
    BY <1>1, <2>1, MainAdvances DEF OneAdvances
  <2>2. ASSUME NEW t \in Threads, WorkerStep(t) PROVE OneAdvances
    <3>1. round' = round
      BY <2>2 DEF WorkerStep, MainAlone, LoopTest, Wake, BeginPass, SkipPass, EndPass,
         TellTest, Tell, Rearm
    <3> QED
      BY <1>1, <2>2, <3>1, WorkerAdvances DEF OneAdvances
  <2> QED
    BY <1>1, <2>1, <2>2 DEF Next, Finished
<1>2. HInv /\ [Next]_poolVars => [round' <= 1 \/ stop => OneAdvances]_poolVars
  BY <1>1
<1> QED
  BY <1>2, HInvInRange, HangInvariant, PTL DEF SafeSpec, NoCircle
=============================================================================
