-------------------------- MODULE BlockingOp_proofs --------------------------
(***************************************************************************)
(* BlockingOp for every number of threads: its inductive invariant, the    *)
(* start barrier, and the refinement of the rendezvous (safety).           *)
(***************************************************************************)
EXTENDS BlockingOp, FiniteSetTheorems, TLAPS

USE NAssumption, MaxCountAssumption

\* The pool's threads are a finite set of thread_count members.
LEMMA ThreadsFinite == IsFiniteSet(Threads) /\ Cardinality(Threads) = N
<1>1. 0 \in Int /\ N - 1 \in Int
  OBVIOUS
<1>2. IsFiniteSet(0 .. N-1) /\ Cardinality(0 .. N-1) = IF 0 > N-1 THEN 0 ELSE (N-1)-0+1
  BY <1>1, FS_Interval
<1> QED
  BY <1>2 DEF Threads

\* A set of threads has at most thread_count members, and exactly that many
\* only if it is all of them.
LEMMA ThreadSets ==
  ASSUME NEW S \in SUBSET Threads
  PROVE  /\ IsFiniteSet(S)
         /\ Cardinality(S) \in 0 .. N
         /\ Cardinality(S) = N => S = Threads
         /\ Cardinality(S) = 0 => S = {}
<1>1. IsFiniteSet(S) /\ Cardinality(S) <= N /\ (N = Cardinality(S) => Threads = S)
  BY ThreadsFinite, FS_Subset
<1>2. Cardinality(S) \in Nat
  BY <1>1, FS_CardinalityType
<1>3. Cardinality(S) = 0 => S = {}
  BY <1>1, FS_EmptySet
<1> QED
  BY <1>1, <1>2, <1>3

\* One thread joining a set of threads raises its cardinality by one.
LEMMA ThreadJoins ==
  ASSUME NEW S \in SUBSET Threads, NEW t \in Threads, t \notin S
  PROVE  Cardinality(S \cup {t}) = Cardinality(S) + 1
BY ThreadSets, FS_AddElement

-----------------------------------------------------------------------------

LEMMA InitTypeOK == Init => TypeOK
BY DEF Init, TypeOK, Points, Threads, Counter

LEMMA StepTypeOK == TypeOK /\ [Next]_vars => TypeOK'
<1> SUFFICES ASSUME TypeOK, [Next]_vars PROVE TypeOK'
  OBVIOUS
<1> USE DEF TypeOK, Counter
<1>1. ASSUME NEW t \in Threads, Arrive(t) PROVE TypeOK'
  BY <1>1 DEF Arrive, Goto, Points, FetchSub
<1>2. ASSUME NEW t \in Threads, CountDownStore(t) PROVE TypeOK'
  BY <1>2 DEF CountDownStore, Goto, Points, StoreZero
<1>3. ASSUME NEW t \in Threads, CountDownFlag(t) PROVE TypeOK'
  <2>1. next[t] \in 0 .. N-1
    BY <1>3 DEF CountDownFlag
  <2>2. latch' \in [gc : 0 .. MaxCount, tc : {N}, flags : SUBSET Threads]
    BY <1>3, <2>1 DEF CountDownFlag, SetFlag, Threads
  <2>3. next' \in [Threads -> 0 .. N] /\ pc' = pc
    BY <1>3, <2>1 DEF CountDownFlag
  <2> QED
    BY <2>2, <2>3
<1>4. ASSUME NEW t \in Threads, CountDownReturn(t) PROVE TypeOK'
  BY <1>4 DEF CountDownReturn, Goto, Points
<1>5. ASSUME NEW t \in Threads, SpinEnds(t) PROVE TypeOK'
  BY <1>5 DEF SpinEnds, Goto, Points
<1>6. ASSUME NEW t \in Threads, Kernel(t) PROVE TypeOK'
  BY <1>6 DEF Kernel, Goto, Points
<1>7. ASSUME NEW t \in Threads, Leave(t) PROVE TypeOK'
  BY <1>7 DEF Leave, Goto, Points, FetchAdd
<1>8. ASSUME NEW t \in Threads, CountUpStore(t) PROVE TypeOK'
  BY <1>8 DEF CountUpStore, Goto, Points, StoreFull
<1>9. ASSUME NEW t \in Threads, CountUpFlag(t) PROVE TypeOK'
  <2>1. next[t] \in 0 .. N-1
    BY <1>9 DEF CountUpFlag
  <2>2. latch' \in [gc : 0 .. MaxCount, tc : {N}, flags : SUBSET Threads]
    BY <1>9, <2>1 DEF CountUpFlag, SetFlag, Threads
  <2>3. next' \in [Threads -> 0 .. N] /\ pc' = pc
    BY <1>9, <2>1 DEF CountUpFlag
  <2> QED
    BY <2>2, <2>3
<1>10. ASSUME NEW t \in Threads, CountUpReturn(t) PROVE TypeOK'
  BY <1>10 DEF CountUpReturn, Goto, Points
<1>11. ASSUME NEW t \in Threads, Spin2Ends(t) PROVE TypeOK'
  BY <1>11 DEF Spin2Ends, Goto, Points
<1>12. ASSUME UNCHANGED vars PROVE TypeOK'
  BY <1>12 DEF vars
<1> QED
  BY <1>1, <1>2, <1>3, <1>4, <1>5, <1>6, <1>7, <1>8, <1>9, <1>10, <1>11, <1>12
  DEF Next, Step, Finished

\* The variables of a blocking operation keep their types: the counter stays
\* a 64-bit value and the loops of count_down and count_up stay in bounds.
THEOREM TypeCorrect == SafeSpec => []TypeOK
<1> QED
  BY InitTypeOK, StepTypeOK, PTL DEF SafeSpec

-----------------------------------------------------------------------------

LEMMA InitIInv == Init => IInv
<1> SUFFICES ASSUME Init PROVE IInv
  OBVIOUS
<1>1. TypeOK
  BY InitTypeOK
<1>2. Arrived = {} /\ Left = {}
  BY DEF Init, Arrived, Left
<1>3. CounterIsExact
  BY <1>2 DEF Init, CounterIsExact
<1>4. OneOpener /\ RestoreIsLast /\ Opened /\ ZeroIsAlone
  BY DEF Init, OneOpener, RestoreIsLast, Opened, ZeroIsAlone
<1> QED
  BY <1>1, <1>3, <1>4 DEF IInv

\* The arithmetic of the counter: what its value says about who has arrived
\* and who has left.
LEMMA CounterMeaning ==
  ASSUME IInv
  PROVE  /\ Arrived # Threads => Left = {}
         /\ \A t \in Threads \ Arrived :
              LastToArrive(latch) => Arrived = Threads \ {t} /\ Left = {}
         /\ \A t \in Threads \ Left :
              Arrived = Threads /\ LastToLeave(latch) => Left = Threads \ {t}
         /\ Arrived # Threads => latch.gc > 0
         /\ Left # Threads /\ Arrived = Threads => latch.gc < N
<1>1. Arrived \in SUBSET Threads /\ Left \in SUBSET Threads
  BY DEF Arrived, Left
<1>2. latch.gc \in Nat /\ latch.gc + Cardinality(Arrived) = N + Cardinality(Left)
  BY DEF IInv, CounterIsExact, TypeOK, Counter
<1>3. /\ Cardinality(Arrived) \in 0 .. N /\ Cardinality(Left) \in 0 .. N
      /\ Cardinality(Arrived) = N => Arrived = Threads
      /\ Cardinality(Left) = N => Left = Threads
  BY <1>1, ThreadSets
<1>4. Arrived # Threads => Left = {}
  BY DEF IInv, Opened, Left
<1>5. Cardinality({}) = 0 /\ Cardinality(Threads) = N
  BY FS_EmptySet, ThreadsFinite
<1>6. ASSUME NEW t \in Threads \ Arrived, LastToArrive(latch)
      PROVE Arrived = Threads \ {t} /\ Left = {}
  <2>1. Left = {}
    BY <1>4, <1>6
  <2>2. Cardinality(Arrived \cup {t}) = N
    BY <1>1, <1>2, <1>3, <1>5, <1>6, <2>1, ThreadJoins DEF LastToArrive
  <2>3. Arrived \cup {t} = Threads
    BY <1>1, <2>2, ThreadSets
  <2> QED
    BY <1>1, <1>6, <2>1, <2>3
<1>7. ASSUME NEW t \in Threads \ Left, Arrived = Threads, LastToLeave(latch)
      PROVE Left = Threads \ {t}
  <2>1. latch.gc = N - 1
    BY <1>7 DEF LastToLeave, IInv, TypeOK
  <2>2. Cardinality(Left \cup {t}) = N
    BY <1>1, <1>2, <1>3, <1>5, <1>7, <2>1, ThreadJoins
  <2>3. Left \cup {t} = Threads
    BY <1>1, <2>2, ThreadSets
  <2> QED
    BY <1>1, <1>7, <2>3
<1>8. Arrived # Threads => latch.gc > 0
  BY <1>2, <1>3, <1>4, <1>5
<1>9. Left # Threads /\ Arrived = Threads => latch.gc < N
  BY <1>2, <1>3, <1>5
<1> QED
  BY <1>4, <1>6, <1>7, <1>8, <1>9

\* A step that neither arrives nor leaves keeps the counter exact, as long as
\* it does not change the counter.
LEMMA QuietStep ==
  ASSUME IInv, Arrived' = Arrived, Left' = Left, latch'.gc = latch.gc
  PROVE  CounterIsExact'
BY DEF IInv, CounterIsExact

LEMMA ArriveIInv ==
  ASSUME IInv, NEW t \in Threads, Arrive(t), TypeOK'
  PROVE  IInv'
<1> USE DEF IInv
<1>1. /\ pc[t] = "arrive" /\ latch' = FetchSub(latch) /\ next' = next
      /\ pc' = [pc EXCEPT ![t] = IF LastToArrive(latch) THEN "zero" ELSE "spin"]
  BY DEF Arrive, Goto
<1>2. t \in Threads \ Arrived /\ Left = {}
  BY <1>1, CounterMeaning DEF Arrived
<1>3. Arrived' = Arrived \cup {t} /\ Left' = {}
  BY <1>1, <1>2 DEF Arrived, Left, TypeOK
<1>4. latch.gc > 0 /\ latch.gc \in Nat /\ latch'.gc = latch.gc - 1
      /\ latch'.flags = latch.flags
  BY <1>1, <1>2, CounterMeaning DEF FetchSub, TypeOK, Counter
<1>5. CounterIsExact'
  <2>1. Cardinality(Arrived') = Cardinality(Arrived) + 1
    BY <1>2, <1>3, ThreadJoins DEF Arrived
  <2>2. Cardinality(Arrived) \in Nat /\ Cardinality(Left) \in Nat
    BY ThreadSets DEF Arrived, Left
  <2> QED
    BY <1>2, <1>3, <1>4, <2>1, <2>2 DEF CounterIsExact
<1>6. /\ latch.flags = {}
      /\ \A u \in Threads : pc[u] \in {"arrive", "spin"}
  BY <1>2 DEF Opened
<1>7. LastToArrive(latch) => \A u \in Threads \ {t} : pc[u] = "spin"
  <2> SUFFICES ASSUME LastToArrive(latch), NEW u \in Threads \ {t}
               PROVE  pc[u] = "spin"
    OBVIOUS
  <2>1. Arrived = Threads \ {t}
    BY <1>2, CounterMeaning
  <2> QED
    BY <1>6, <2>1 DEF Arrived
<1>8. OneOpener'
  BY <1>1, <1>6 DEF OneOpener, TypeOK
<1>9. RestoreIsLast'
  BY <1>1, <1>6 DEF RestoreIsLast, TypeOK
<1>10. Opened'
  <2>1. CASE LastToArrive(latch)
    <3>1. Arrived = Threads \ {t}
      BY <1>2, <2>1, CounterMeaning
    <3> QED
      BY <1>2, <1>3, <3>1 DEF Opened
  <2>2. CASE ~LastToArrive(latch)
    BY <1>1, <1>4, <1>6, <2>2 DEF Opened, TypeOK
  <2> QED
    BY <2>1, <2>2
<1>11. ZeroIsAlone'
  BY <1>1, <1>4, <1>6, <1>7 DEF ZeroIsAlone, TypeOK
<1> QED
  BY <1>5, <1>8, <1>9, <1>10, <1>11

LEMMA LeaveIInv ==
  ASSUME IInv, NEW t \in Threads, Leave(t), TypeOK'
  PROVE  IInv'
<1> USE DEF IInv
<1>1. /\ pc[t] = "leave" /\ latch' = FetchAdd(latch) /\ next' = next
      /\ pc' = [pc EXCEPT ![t] = IF LastToLeave(latch) THEN "full" ELSE "spin2"]
  BY DEF Leave, Goto
<1>2. t \in Threads \ Left /\ Arrived = Threads
  BY <1>1 DEF Opened, Left
<1>3. Arrived' = Threads /\ Left' = Left \cup {t}
  BY <1>1, <1>2 DEF Arrived, Left, TypeOK
<1>4. latch.gc < N /\ latch.gc \in Nat /\ latch'.gc = latch.gc + 1
      /\ latch'.flags = latch.flags
  BY <1>1, <1>2, CounterMeaning DEF FetchAdd, TypeOK, Counter
<1>5. CounterIsExact'
  <2>1. Cardinality(Left') = Cardinality(Left) + 1
    BY <1>2, <1>3, ThreadJoins DEF Left
  <2>2. Cardinality(Arrived) \in Nat /\ Cardinality(Left) \in Nat
    BY ThreadSets DEF Arrived, Left
  <2> QED
    BY <1>2, <1>3, <1>4, <2>1, <2>2 DEF CounterIsExact
<1>6. \A u \in Threads : pc[u] \notin {"zero", "full", "reopen"}
  BY <1>1, <1>2 DEF ZeroIsAlone, RestoreIsLast
<1>7. LastToLeave(latch) => Left' = Threads
  BY <1>2, <1>3, CounterMeaning
<1>8. OneOpener'
  BY <1>1, <1>6 DEF OneOpener, TypeOK
<1>9. RestoreIsLast'
  BY <1>1, <1>6, <1>7 DEF RestoreIsLast, TypeOK
<1>10. Opened'
  BY <1>3 DEF Opened
<1>11. ZeroIsAlone'
  BY <1>1, <1>6 DEF ZeroIsAlone, TypeOK
<1> QED
  BY <1>5, <1>8, <1>9, <1>10, <1>11

\* The stores and the flag loops of count_down and count_up.
LEMMA StoreIInv ==
  ASSUME IInv, TypeOK', NEW t \in Threads,
         CountDownStore(t) \/ CountDownFlag(t) \/ CountUpStore(t) \/ CountUpFlag(t)
  PROVE  IInv'
<1> USE DEF IInv
<1>1. CASE CountDownStore(t)
  <2>1. /\ pc[t] = "zero" /\ latch' = StoreZero(latch)
        /\ pc' = [pc EXCEPT ![t] = "open"]
    BY <1>1 DEF CountDownStore, Goto
  <2>2. Arrived = Threads /\ Left = {} /\ \A u \in Threads \ {t} : pc[u] = "spin"
    BY <2>1 DEF ZeroIsAlone, Opened, Left
  <2>3. Arrived' = Arrived /\ Left' = Left
    BY <2>1, <2>2 DEF Arrived, Left, TypeOK
  <2>4. latch.gc = 0
    <3>1. Cardinality(Threads) = N /\ Cardinality({}) = 0
      BY ThreadsFinite, FS_EmptySet
    <3> QED
      BY <2>2, <3>1 DEF CounterIsExact, TypeOK, Counter
  <2>5. CounterIsExact'
    BY <2>1, <2>3, <2>4, QuietStep DEF StoreZero, TypeOK
  <2>6. OneOpener' /\ RestoreIsLast' /\ ZeroIsAlone'
    BY <2>1, <2>2 DEF OneOpener, RestoreIsLast, ZeroIsAlone, TypeOK
  <2>7. Opened'
    BY <2>2, <2>3 DEF Opened
  <2> QED
    BY <2>5, <2>6, <2>7
<1>2. CASE CountUpStore(t)
  <2>1. /\ pc[t] = "full" /\ latch' = StoreFull(latch)
        /\ pc' = [pc EXCEPT ![t] = "reopen"]
    BY <1>2 DEF CountUpStore, Goto
  <2>2. Left = Threads /\ Arrived = Threads
    BY <2>1 DEF RestoreIsLast, Opened
  <2>3. Arrived' = Arrived /\ Left' = Left
    BY <2>1, <2>2 DEF Arrived, Left, TypeOK
  <2>4. latch.gc = latch.tc
    BY <2>2, ThreadsFinite DEF CounterIsExact, TypeOK, Counter
  <2>5. CounterIsExact'
    BY <2>1, <2>3, <2>4, QuietStep DEF StoreFull, TypeOK
  <2>6. OneOpener'
    BY <2>1 DEF OneOpener, TypeOK
  <2>7. RestoreIsLast' /\ Opened'
    BY <2>2, <2>3 DEF RestoreIsLast, Opened
  <2>8. ZeroIsAlone'
    BY <2>1, <2>2 DEF ZeroIsAlone, TypeOK, Left
  <2> QED
    BY <2>5, <2>6, <2>7, <2>8
<1>3. CASE CountDownFlag(t) \/ CountUpFlag(t)
  <2>1. /\ pc[t] \in {"open", "reopen"} /\ pc' = pc
        /\ latch' = SetFlag(latch, next[t])
    BY <1>3 DEF CountDownFlag, CountUpFlag
  <2>2. Arrived = Threads /\ \A u \in Threads : pc[u] # "zero"
    BY <2>1 DEF Opened, ZeroIsAlone
  <2>3. Arrived' = Arrived /\ Left' = Left
    BY <2>1 DEF Arrived, Left
  <2>4. CounterIsExact'
    BY <2>1, <2>3, QuietStep DEF SetFlag, TypeOK
  <2>5. OneOpener' /\ RestoreIsLast' /\ Opened' /\ ZeroIsAlone'
    BY <2>1, <2>2, <2>3 DEF OneOpener, RestoreIsLast, Opened, ZeroIsAlone
  <2> QED
    BY <2>4, <2>5
<1> QED
  BY <1>1, <1>2, <1>3

\* The steps that leave the latch alone.
LEMMA MoveIInv ==
  ASSUME IInv, TypeOK', NEW t \in Threads,
         \/ CountDownReturn(t) \/ SpinEnds(t) \/ Kernel(t)
         \/ CountUpReturn(t) \/ Spin2Ends(t)
  PROVE  IInv'
<1> USE DEF IInv
<1>1. latch' = latch
  BY DEF CountDownReturn, SpinEnds, Kernel, CountUpReturn, Spin2Ends
<1>2. Arrived = Threads
  BY DEF CountDownReturn, SpinEnds, Released, Kernel, CountUpReturn, Spin2Ends, Opened
<1>3. PICK p \in {"kernel", "leave", "done"} : pc' = [pc EXCEPT ![t] = p]
  BY DEF CountDownReturn, SpinEnds, Kernel, CountUpReturn, Spin2Ends, Goto
<1>5. Arrived' = Arrived /\ Left' = Left
  BY <1>2, <1>3 DEF CountDownReturn, SpinEnds, Kernel, CountUpReturn, Spin2Ends, Goto,
     Arrived, Left, TypeOK
<1>6. CounterIsExact'
  BY <1>1, <1>5, QuietStep
<1>7. OneOpener' /\ RestoreIsLast'
  BY <1>3, <1>5 DEF OneOpener, RestoreIsLast, TypeOK
<1>8. Opened'
  BY <1>2, <1>5 DEF Opened
<1>9. \A u \in Threads : pc[u] # "zero"
  BY DEF CountDownReturn, SpinEnds, Released, Kernel, CountUpReturn, Spin2Ends, ZeroIsAlone
<1>10. ZeroIsAlone'
  BY <1>3, <1>9 DEF ZeroIsAlone, TypeOK
<1> QED
  BY <1>6, <1>7, <1>8, <1>10

LEMMA StepIInv == IInv /\ [Next]_vars => IInv'
<1> SUFFICES ASSUME IInv, [Next]_vars PROVE IInv'
  OBVIOUS
<1>1. TypeOK'
  BY StepTypeOK DEF IInv
<1>2. ASSUME NEW t \in Threads, Step(t) PROVE IInv'
  BY <1>1, <1>2, ArriveIInv, LeaveIInv, StoreIInv, MoveIInv DEF Step
<1>3. ASSUME UNCHANGED vars PROVE IInv'
  BY <1>3 DEF vars, IInv, TypeOK, CounterIsExact, OneOpener, RestoreIsLast, Opened,
     ZeroIsAlone, Arrived, Left
<1> QED
  BY <1>2, <1>3 DEF Next, Finished

\* The inductive invariant holds in every reachable state.
THEOREM Invariant == SafeSpec => []IInv
BY InitIInv, StepIInv, PTL DEF SafeSpec

\* No thread is in a blocking operation's kernel, or past it, before all have
\* arrived (the wait that thread_impl makes before the kernel).
THEOREM StartBarrierHolds == SafeSpec => []StartBarrier
<1>1. IInv => StartBarrier
  BY DEF IInv, Opened, StartBarrier, Inside
<1> QED
  BY <1>1, Invariant, PTL

\* The counter of a latch is exact at every step of its use.
THEOREM CounterExact == SafeSpec => []CounterIsExact
<1>1. IInv => CounterIsExact
  BY DEF IInv
<1> QED
  BY <1>1, Invariant, PTL

\* No two threads are in count_down, or in count_up, at the same time.
THEOREM OpenedByOne == SafeSpec => []OneOpener
<1>1. IInv => OneOpener
  BY DEF IInv
<1> QED
  BY <1>1, Invariant, PTL

\* count_up runs after every thread has left.
THEOREM RestoreLast == SafeSpec => []RestoreIsLast
<1>1. IInv => RestoreIsLast
  BY DEF IInv
<1> QED
  BY <1>1, Invariant, PTL

-----------------------------------------------------------------------------
(* Refinement of the rendezvous.                                           *)

LEMMA InitRefines == Init => Abstract!Init
BY DEF Init, Abstract!Init, Arrived, Inside

LEMMA StepRefines ==
  ASSUME IInv, [Next]_vars
  PROVE  [Abstract!Next]_(Abstract!vars)
<1> USE DEF Abstract!vars, Abstract!Next
<1>1. ASSUME NEW t \in Threads, Arrive(t) PROVE Abstract!Arrive(t)
  BY <1>1 DEF Arrive, Goto, Abstract!Arrive, Arrived, Inside, IInv, TypeOK
<1>2. ASSUME NEW t \in Threads, CountDownReturn(t) \/ SpinEnds(t)
      PROVE Abstract!Pass(t)
  <2>1. pc[t] \in {"open", "spin"} /\ pc' = [pc EXCEPT ![t] = "kernel"]
    BY <1>2 DEF CountDownReturn, SpinEnds, Goto
  <2>2. Arrived = Threads
    BY <1>2 DEF CountDownReturn, SpinEnds, Released, IInv, Opened
  <2>3. t \notin Inside /\ Inside' = Inside \cup {t} /\ Arrived' = Arrived
    BY <2>1 DEF Inside, Arrived, IInv, TypeOK
  <2> QED
    BY <2>2, <2>3 DEF Abstract!Pass
<1>3. ASSUME NEW t \in Threads,
             CountDownStore(t) \/ CountDownFlag(t) \/ CountUpStore(t) \/ CountUpFlag(t)
      PROVE UNCHANGED <<Arrived, Inside>>
  BY <1>3 DEF CountDownStore, CountDownFlag, CountUpStore, CountUpFlag, Goto,
     Arrived, Inside, IInv, TypeOK
<1>4. ASSUME NEW t \in Threads,
             Kernel(t) \/ Leave(t) \/ CountUpReturn(t) \/ Spin2Ends(t)
      PROVE UNCHANGED <<Arrived, Inside>>
  BY <1>4 DEF Kernel, Leave, CountUpReturn, Spin2Ends, Goto, Arrived, Inside, IInv, TypeOK
<1>5. ASSUME UNCHANGED vars PROVE UNCHANGED <<Arrived, Inside>>
  BY <1>5 DEF vars, Arrived, Inside
<1> QED
  BY <1>1, <1>2, <1>3, <1>4, <1>5 DEF Next, Step, Finished

\* Every behaviour of a blocking operation is, seen through who has arrived and
\* who is inside, a behaviour of the rendezvous.
THEOREM Refinement == SafeSpec => Abstract!SafeSpec
BY InitRefines, StepRefines, Invariant, PTL DEF SafeSpec, Abstract!SafeSpec
=============================================================================
