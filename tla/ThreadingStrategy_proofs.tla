---------------------- MODULE ThreadingStrategy_proofs ----------------------
(***************************************************************************)
(* ThreadingStrategy for every number of threads and blocks, every graph   *)
(* and all lists: nobody is lapped, the inputs of a running blocking       *)
(* kernel are finished and stay as they are, what is carried from block to *)
(* block is what the block before left, and each latch goes through        *)
(* exactly the steps of one blocking operation.                            *)
(***************************************************************************)
EXTENDS ThreadingStrategy, DataInduction

USE StrategyAssumption, MaxCountAssumption

\* A set of threads is finite, and has thread_count members only if it is all
\* of them.
LEMMA ThreadSets ==
  ASSUME NEW S \in SUBSET Threads
  PROVE  /\ IsFiniteSet(S) /\ Cardinality(S) \in 0 .. N
         /\ Cardinality(S) = N => S = Threads
<1>0. 0 \in Int /\ N - 1 \in Int
  OBVIOUS
<1>1. IsFiniteSet(0 .. N-1) /\ Cardinality(0 .. N-1) = IF 0 > N-1 THEN 0 ELSE (N-1)-0+1
  BY <1>0, FS_Interval
<1>2. IsFiniteSet(Threads) /\ Cardinality(Threads) = N
  BY <1>1 DEF Threads
<1>3. IsFiniteSet(S) /\ Cardinality(S) <= N /\ (N = Cardinality(S) => Threads = S)
  BY <1>2, FS_Subset
<1>4. Cardinality(S) \in Nat
  BY <1>3, FS_CardinalityType
<1> QED
  BY <1>3, <1>4

\* One more thread in a set of threads raises its cardinality by one.
LEMMA ThreadJoins ==
  ASSUME NEW S \in SUBSET Threads, NEW t \in Threads, t \notin S
  PROVE  Cardinality(S \cup {t}) = Cardinality(S) + 1
BY ThreadSets, FS_AddElement

\* The walk is finite, and its blocking positions have latches.
LEMMA WalkFacts ==
  /\ WalkLength \in Nat
  /\ \A i \in BlockingAt : /\ i \in Nat /\ 1 <= i /\ i <= WalkLength
                           /\ Walk[i] \in Slots /\ Walk[i].op \in Blocking
<1>1. Len(GlobalInput) \in Nat /\ Len(PerBlock) \in Nat /\ Len(GlobalOutput) \in Nat
  OBVIOUS
<1>2. BlockCount * Len(PerBlock) \in Nat
  BY <1>1
<1>3. WalkLength \in Nat
  BY <1>1, <1>2 DEF WalkLength, LastInBlocks
<1> QED
  BY <1>3 DEF BlockingAt, Slots

-----------------------------------------------------------------------------
(* Types.                                                                  *)

\* The types of the latches.
Latches == [Slots -> [gc : Counter, tc : {N}, flags : SUBSET Threads]]

\* The operations of slim_latch keep the type of a latch.
LEMMA LatchTypes ==
  ASSUME NEW l \in [gc : Counter, tc : {N}, flags : SUBSET Threads], NEW t \in Threads
  PROVE  \A m \in {FetchSub(l), FetchAdd(l), StoreZero(l), StoreFull(l), SetFlag(l, t)} :
           m \in [gc : Counter, tc : {N}, flags : SUBSET Threads]
BY DEF Counter, FetchSub, FetchAdd, StoreZero, StoreFull, SetFlag

LEMMA EntryPoints ==
  ASSUME NEW i \in 1 .. WalkLength + 1
  PROVE  /\ EntryOf(i) \in {"out", "arrive", "kernel"}
         /\ EntryOf(i) = "out" <=> i > WalkLength
         /\ EntryOf(i) = "arrive" <=> i \in BlockingAt
BY WalkFacts DEF EntryOf, BlockingAt

LEMMA InitTypes == Init => TypeOK /\ Located
<1> SUFFICES ASSUME Init PROVE TypeOK /\ Located
  OBVIOUS
<1>1. latch \in Latches
  BY DEF Init, PlannedLatches, Latches, Counter
<1>2. 1 \in 1 .. WalkLength + 1
  BY WalkFacts
<1> QED
  BY <1>1, <1>2, EntryPoints, WalkFacts DEF Init, TypeOK, Latches, Located, Points

\* A thread that synchronizes is at a blocking operation, whose latch is there.
LEMMA MyLatch ==
  ASSUME TypeOK, Located, NEW t \in Threads, pc[t] \notin {"kernel", "out"}
  PROVE  /\ pos[t] \in BlockingAt /\ At(t) \in Slots
         /\ Mine(t) \in [gc : Counter, tc : {N}, flags : SUBSET Threads]
BY WalkFacts DEF Located, At, Mine, TypeOK

\* A step of t that is in the operation at its position and stays there.
LEMMA StayTypes ==
  ASSUME TypeOK, Located, NEW t \in Threads, NEW p \in Points \ {"out"},
         pc[t] # "out", pos' = pos, pc' = [pc EXCEPT ![t] = p],
         latch' \in Latches, next' \in [Threads -> 0 .. N],
         p # "kernel" => pos[t] \in BlockingAt
  PROVE  TypeOK' /\ Located'
BY DEF TypeOK, Located, Latches, Points

\* A step of t that ends the operation at its position.
LEMMA MoveTypes ==
  ASSUME TypeOK, Located, NEW t \in Threads, pc[t] # "out", MoveTo(t, pos[t] + 1),
         latch' = latch, next' \in [Threads -> 0 .. N]
  PROVE  TypeOK' /\ Located'
<1>1. pos[t] \in 1 .. WalkLength
  BY WalkFacts DEF TypeOK
<1>2. pos[t] + 1 \in 1 .. WalkLength + 1
  BY <1>1, WalkFacts
<1>3. /\ pos' = [pos EXCEPT ![t] = pos[t] + 1]
      /\ pc' = [pc EXCEPT ![t] = EntryOf(pos[t] + 1)]
  BY DEF MoveTo
<1>4. EntryOf(pos[t] + 1) \in Points
  BY <1>2, EntryPoints DEF Points
<1>5. pos' \in [Threads -> 1 .. WalkLength + 1] /\ pc' \in [Threads -> Points]
  BY <1>2, <1>3, <1>4 DEF TypeOK
<1>6. \A u \in Threads : pos'[u] > WalkLength <=> pc'[u] = "out"
  BY <1>2, <1>3, EntryPoints DEF TypeOK
<1>7. Located'
  BY <1>2, <1>3, EntryPoints DEF Located, TypeOK
<1> QED
  BY <1>5, <1>6, <1>7 DEF TypeOK

LEMMA StepTypes ==
  ASSUME TypeOK, Located, NEW t \in Threads, Step(t)
  PROVE  TypeOK' /\ Located'
<1>1. CASE Arrive(t)
  <2>1. pc[t] = "arrive" /\ latch' = [latch EXCEPT ![At(t)] = FetchSub(Mine(t))]
    BY <1>1 DEF Arrive, Change
  <2>2. latch' \in Latches
    BY <2>1, MyLatch, LatchTypes DEF TypeOK, Latches
  <2>3. PICK p \in {"zero", "spin"} : pos' = pos /\ pc' = [pc EXCEPT ![t] = p]
    BY <1>1 DEF Arrive, Goto
  <2> QED
    BY <1>1, <2>1, <2>2, <2>3, MyLatch, StayTypes DEF Arrive, TypeOK, Points
<1>2. CASE Store(t)
  <2>1. PICK l \in {StoreZero(Mine(t)), StoreFull(Mine(t))} :
          latch' = [latch EXCEPT ![At(t)] = l]
    BY <1>2 DEF Store, Change
  <2>2. PICK p \in {"open", "reopen"} : pos' = pos /\ pc' = [pc EXCEPT ![t] = p]
    BY <1>2 DEF Store, Goto
  <2>3. pc[t] \in {"zero", "full"} /\ next' = next
    BY <1>2 DEF Store
  <2>4. latch' \in Latches
    <3>1. /\ l \in [gc : Counter, tc : {N}, flags : SUBSET Threads]
          /\ latch \in Latches /\ At(t) \in Slots
      BY <2>3, MyLatch, LatchTypes DEF TypeOK, Latches
    <3> QED
      BY <2>1, <3>1 DEF Latches
  <2> QED
    BY <2>2, <2>3, <2>4, MyLatch, StayTypes DEF TypeOK, Points
<1>3. CASE Flag(t)
  <2>1. pc[t] \in {"open", "reopen"} /\ next[t] < Mine(t).tc /\ pos' = pos /\ pc' = pc
    BY <1>3 DEF Flag
  <2>2. next[t] \in 0 .. N /\ Mine(t).tc = N
    BY <2>1, MyLatch DEF TypeOK
  <2>3. next[t] \in Threads /\ next[t] + 1 \in 0 .. N
    BY <2>1, <2>2 DEF Threads
  <2>4. latch' = [latch EXCEPT ![At(t)] = SetFlag(Mine(t), next[t])]
    BY <1>3 DEF Flag, Change
  <2>5. latch' \in Latches
    <3>1. SetFlag(Mine(t), next[t]) \in [gc : Counter, tc : {N}, flags : SUBSET Threads]
      BY <2>1, <2>3, MyLatch, LatchTypes
    <3>2. latch \in Latches /\ At(t) \in Slots
      BY <2>1, MyLatch DEF TypeOK, Latches
    <3> QED
      BY <2>4, <3>1, <3>2 DEF Latches
  <2>6. next' \in [Threads -> 0 .. N]
    BY <1>3, <2>3 DEF Flag, TypeOK
  <2> QED
    BY <2>1, <2>5, <2>6 DEF TypeOK, Located, Latches
<1>4. CASE Enter(t)
  <2>1. /\ pc[t] \in {"open", "spin"} /\ pos' = pos /\ latch' = latch
        /\ pc' = [pc EXCEPT ![t] = "kernel"]
    BY <1>4 DEF Enter, Goto
  <2>2. next' \in [Threads -> 0 .. N]
    BY <1>4 DEF Enter, LoopIsOver, TypeOK
  <2> QED
    BY <2>1, <2>2, StayTypes DEF TypeOK, Points, Latches
<1>5. CASE SyncKernel(t)
  <2>1. /\ pc[t] = "kernel" /\ pos' = pos /\ latch' = latch /\ next' = next
        /\ pc' = [pc EXCEPT ![t] = "leave"]
    BY <1>5 DEF SyncKernel, Goto
  <2>2. pos[t] \in BlockingAt
    BY <1>5, WalkFacts DEF SyncKernel, TypeOK, At, BlockingAt
  <2> QED
    BY <2>1, <2>2, StayTypes DEF TypeOK, Points, Latches
<1>6. CASE AsyncKernel(t)
  BY <1>6, MoveTypes DEF AsyncKernel, TypeOK
<1>7. CASE Leave(t)
  <2>1. pc[t] = "leave" /\ latch' = [latch EXCEPT ![At(t)] = FetchAdd(Mine(t))]
    BY <1>7 DEF Leave, Change
  <2>2. latch' \in Latches
    BY <2>1, MyLatch, LatchTypes DEF TypeOK, Latches
  <2>3. PICK p \in {"full", "spin2"} : pos' = pos /\ pc' = [pc EXCEPT ![t] = p]
    BY <1>7 DEF Leave, Goto
  <2> QED
    BY <1>7, <2>1, <2>2, <2>3, MyLatch, StayTypes DEF Leave, TypeOK, Points
<1>8. CASE Return(t)
  <2>1. pc[t] # "out" /\ latch' = latch /\ MoveTo(t, pos[t] + 1)
    BY <1>8 DEF Return
  <2>2. next' \in [Threads -> 0 .. N]
    BY <1>8 DEF Return, LoopIsOver, TypeOK
  <2> QED
    BY <2>1, <2>2, MoveTypes
<1> QED
  BY <1>1, <1>2, <1>3, <1>4, <1>5, <1>6, <1>7, <1>8 DEF Step

-----------------------------------------------------------------------------
(* The inductive invariant.                                                *)

LEMMA InitClosed == Init => \A i \in BlockingAt : ClosedUntilAll(i)
<1> SUFFICES ASSUME Init, NEW i \in BlockingAt PROVE ClosedUntilAll(i)
  OBVIOUS
<1>1. pos = [t \in Threads |-> 1] /\ \A t \in Threads : 1 = i => pc[t] = "arrive"
  BY WalkFacts, EntryPoints DEF Init
<1>2. Came(i) = {}
  BY <1>1, WalkFacts DEF Came
<1>3. latch[Walk[i]] = [gc |-> N, tc |-> N, flags |-> {}]
  BY WalkFacts DEF Init, PlannedLatches
<1> QED
  BY <1>1, <1>2, <1>3, WalkFacts, FS_EmptySet DEF ClosedUntilAll

\* A step changes at most the latch of the operation that the thread is at, and
\* moves the thread within that operation or to the entry of the next one.
LEMMA StepShape ==
  ASSUME TypeOK, Located, NEW t \in Threads, Step(t)
  PROVE  /\ \/ latch' = latch
            \/ pos[t] \in BlockingAt /\ \E l : latch' = [latch EXCEPT ![At(t)] = l]
         /\ \/ pos' = pos /\ \E p \in Points \ {"arrive"} : pc' = [pc EXCEPT ![t] = p]
            \/ MoveTo(t, pos[t] + 1)
<1>1. CASE Arrive(t) \/ Store(t) \/ Leave(t)
  <2>1. pos[t] \in BlockingAt
    BY <1>1, MyLatch DEF Arrive, Store, Leave
  <2>2. \E l : latch' = [latch EXCEPT ![At(t)] = l]
    BY <1>1 DEF Arrive, Store, Leave, Change
  <2>3. pos' = pos /\ \E p \in Points \ {"arrive"} : pc' = [pc EXCEPT ![t] = p]
    BY <1>1 DEF Arrive, Store, Leave, Goto, Points
  <2> QED
    BY <2>1, <2>2, <2>3
<1>2. CASE Flag(t)
  <2>1. pos[t] \in BlockingAt /\ \E l : latch' = [latch EXCEPT ![At(t)] = l]
    BY <1>2, MyLatch DEF Flag, Change
  <2>2. pc' = [pc EXCEPT ![t] = pc[t]] /\ pc[t] \in Points \ {"arrive"} /\ pos' = pos
    BY <1>2 DEF Flag, TypeOK
  <2> QED
    BY <2>1, <2>2
<1>3. CASE Enter(t) \/ SyncKernel(t)
  BY <1>3 DEF Enter, SyncKernel, Goto, Points
<1>4. CASE AsyncKernel(t) \/ Return(t)
  BY <1>4 DEF AsyncKernel, Return
<1> QED
  BY <1>1, <1>2, <1>3, <1>4 DEF Step

\* Nobody goes back: who has come to an operation stays among those who have.
LEMMA CameGrows ==
  ASSUME TypeOK, Located, NEW t \in Threads, Step(t), NEW i \in BlockingAt
  PROVE  Came(i) \subseteq Came(i)' /\ Came(i)' \subseteq Came(i) \cup {t}
<1>1. i \in Nat
  BY WalkFacts
<1>2. CASE pos' = pos /\ \E p \in Points \ {"arrive"} : pc' = [pc EXCEPT ![t] = p]
  BY <1>2 DEF Came, TypeOK
<1>3. CASE MoveTo(t, pos[t] + 1)
  <2>1. \A u \in Threads : /\ u # t => pos'[u] = pos[u] /\ pc'[u] = pc[u]
                           /\ u = t => pos'[u] = pos[u] + 1
                           /\ pos[u] \in Nat
    BY <1>3 DEF MoveTo, TypeOK
  <2> QED
    BY <1>1, <2>1 DEF Came
<1> QED
  BY <1>2, <1>3, StepShape

\* The arithmetic of an arrival at an operation to which not all have come.
LEMMA ArriveClosed ==
  ASSUME IInv, TypeOK', NEW t \in Threads, Arrive(t), NEW i \in BlockingAt, pos[t] = i,
         Came(i) # Threads, Came(i)' # Threads
  PROVE  ClosedUntilAll(i)'
<1> DEFINE l == latch[Walk[i]]
<1>1. /\ l.gc + Cardinality(Came(i)) = N /\ l.flags = {}
      /\ \A u \in Threads : pos[u] <= i /\ (pos[u] = i => pc[u] \in {"arrive", "spin"})
  BY DEF IInv, ClosedUntilAll
<1>2. l \in [gc : Counter, tc : {N}, flags : SUBSET Threads] /\ Walk[i] \in Slots
  BY WalkFacts DEF IInv, TypeOK
<1>3. pc[t] = "arrive" /\ t \notin Came(i) /\ Came(i) \in SUBSET Threads
  BY WalkFacts DEF Arrive, Came
<1>4. /\ pos' = pos /\ latch' = [latch EXCEPT ![Walk[i]] = FetchSub(l)]
      /\ pc' = [pc EXCEPT ![t] = IF LastToArrive(l) THEN "zero" ELSE "spin"]
  BY DEF Arrive, Change, Goto, Mine, At
<1>5. Came(i)' = Came(i) \cup {t}
  BY <1>3, <1>4 DEF Came, IInv, TypeOK
<1>6. /\ Cardinality(Came(i)') = Cardinality(Came(i)) + 1
      /\ Cardinality(Came(i)) \in 0 .. N /\ Cardinality(Came(i)') \in 0 .. N
      /\ Cardinality(Came(i)') # N
  <2>1. Came(i) \cup {t} \in SUBSET Threads
    BY <1>3
  <2>2. Cardinality(Came(i) \cup {t}) \in 0 .. N /\ Cardinality(Came(i) \cup {t}) # N
    BY <1>5, <2>1, ThreadSets
  <2> QED
    BY <1>3, <1>5, <2>2, ThreadSets, ThreadJoins
<1>7. l.gc \in Nat /\ l.gc >= 2
  BY <1>1, <1>2, <1>6 DEF Counter
<1>8. ~LastToArrive(l) /\ FetchSub(l) = [l EXCEPT !.gc = l.gc - 1]
  BY <1>2, <1>7 DEF LastToArrive, FetchSub
<1>9. latch'[Walk[i]] = [l EXCEPT !.gc = l.gc - 1]
  BY <1>2, <1>4, <1>8 DEF IInv, TypeOK
<1>10. latch'[Walk[i]].gc = l.gc - 1 /\ latch'[Walk[i]].flags = {}
  BY <1>1, <1>2, <1>9
<1>11. latch'[Walk[i]].gc + Cardinality(Came(i)') = N
  BY <1>1, <1>6, <1>7, <1>10
<1>12. \A u \in Threads : pos'[u] <= i /\ (pos'[u] = i => pc'[u] \in {"arrive", "spin"})
  BY <1>1, <1>4, <1>8 DEF IInv, TypeOK
<1> QED
  BY <1>10, <1>11, <1>12 DEF ClosedUntilAll

LEMMA StepClosed ==
  ASSUME IInv, TypeOK', NEW t \in Threads, Step(t), NEW i \in BlockingAt
  PROVE  ClosedUntilAll(i)'
<1> SUFFICES ASSUME Came(i)' # Threads PROVE ClosedUntilAll(i)'
  BY DEF ClosedUntilAll
<1>1. Came(i) # Threads /\ i \in Nat
  BY CameGrows, WalkFacts DEF IInv, Came
<1>2. /\ latch[Walk[i]].gc + Cardinality(Came(i)) = N /\ latch[Walk[i]].flags = {}
      /\ \A u \in Threads : pos[u] <= i /\ (pos[u] = i => pc[u] \in {"arrive", "spin"})
  BY <1>1 DEF IInv, ClosedUntilAll
<1>3. CASE pos[t] = i
  <2>1. ~Enter(t)
    BY <1>2, <1>3 DEF Enter, Released, Mine, At
  <2>2. Arrive(t)
    BY <1>2, <1>3, <2>1 DEF Step, Store, Flag, SyncKernel, AsyncKernel, Leave, Return
  <2> QED
    BY <1>1, <1>3, <2>2, ArriveClosed
<1>4. CASE pos[t] < i
  <2>1. latch'[Walk[i]] = latch[Walk[i]]
    <3>1. CASE latch' = latch
      BY <3>1
    <3>2. CASE pos[t] \in BlockingAt /\ \E l : latch' = [latch EXCEPT ![At(t)] = l]
      <4>1. Walk[pos[t]] # Walk[i] /\ Walk[i] \in Slots
        BY <1>4, <3>2, OneLatchEach, WalkFacts
      <4> QED
        BY <3>2, <4>1 DEF At, IInv, TypeOK
    <3> QED
      BY <3>1, <3>2, StepShape DEF IInv
  <2>2. /\ \A u \in Threads : u # t => pos'[u] = pos[u] /\ pc'[u] = pc[u]
        /\ \/ pos'[t] < i
           \/ pos'[t] = i /\ pc'[t] = "arrive"
    <3>1. CASE pos' = pos /\ \E p \in Points \ {"arrive"} : pc' = [pc EXCEPT ![t] = p]
      BY <1>4, <3>1 DEF IInv, TypeOK
    <3>2. CASE MoveTo(t, pos[t] + 1)
      BY <1>4, <3>2, WalkFacts, EntryPoints DEF MoveTo, IInv, TypeOK
    <3> QED
      BY <3>1, <3>2, StepShape DEF IInv
  <2>3. Came(i)' = Came(i)
    <3>1. t \notin Came(i) /\ t \notin Came(i)'
      BY <1>1, <1>4, <2>2 DEF Came, IInv, TypeOK
    <3> QED
      BY <3>1, CameGrows DEF IInv
  <2>4. \A u \in Threads : pos'[u] <= i /\ (pos'[u] = i => pc'[u] \in {"arrive", "spin"})
    BY <1>1, <1>2, <2>2 DEF TypeOK
  <2> QED
    BY <1>2, <2>1, <2>3, <2>4 DEF ClosedUntilAll
<1> QED
  BY <1>1, <1>2, <1>3, <1>4 DEF IInv, TypeOK

LEMMA StepIInv == IInv /\ [Next]_walkVars => IInv'
<1> SUFFICES ASSUME IInv, [Next]_walkVars PROVE IInv'
  OBVIOUS
<1>1. ASSUME NEW t \in Threads, Step(t) PROVE IInv'
  <2>1. TypeOK' /\ Located'
    BY <1>1, StepTypes DEF IInv
  <2>2. \A i \in BlockingAt : ClosedUntilAll(i)'
    BY <1>1, <2>1, StepClosed
  <2> QED
    BY <2>1, <2>2 DEF IInv, BlockingAt, Walk
<1>2. ASSUME UNCHANGED walkVars PROVE IInv'
  <2>1. TypeOK' /\ Located'
    BY <1>2 DEF walkVars, IInv, TypeOK, Located
  <2>2. ASSUME NEW i \in BlockingAt PROVE ClosedUntilAll(i)'
    <3>1. Came(i)' = Came(i)
      BY <1>2 DEF walkVars, Came
    <3> QED
      BY <1>2, <3>1 DEF walkVars, IInv, ClosedUntilAll
  <2> QED
    BY <2>1, <2>2 DEF IInv
<1> QED
  BY <1>1, <1>2 DEF Next, Finished

\* The inductive invariant holds in every reachable state.
THEOREM Invariant == SafeSpec => []IInv
<1>1. Init => IInv
  BY InitTypes, InitClosed DEF IInv
<1> QED
  BY <1>1, StepIInv, PTL DEF SafeSpec

\* The variables of a pass keep their types: no position, no loop index and no
\* counter leaves its range.
THEOREM TypeCorrect == SafeSpec => []TypeOK
<1>1. IInv => TypeOK
  BY DEF IInv
<1> QED
  BY <1>1, Invariant, PTL

-----------------------------------------------------------------------------
(* What the latches guarantee.                                             *)

LEMMA Lapped == IInv => NobodyLapped
<1> SUFFICES ASSUME IInv, NEW i \in BlockingAt, NEW t \in Threads, NEW u \in Threads,
                    PastStart(t, i)
             PROVE  u \in Came(i)
  BY DEF NobodyLapped, Came
<1>1. i \in Nat /\ pos[t] \in Nat
  BY WalkFacts DEF IInv, TypeOK
<1>2. Came(i) = Threads
  BY <1>1 DEF PastStart, Waiting, IInv, ClosedUntilAll
<1> QED
  BY <1>2

\* No thread is past the start of a blocking operation that another thread has
\* not come to, in whichever block (slim_latch::arrive_and_wait in thread_impl).
THEOREM NobodyIsLapped == SafeSpec => []NobodyLapped
BY Lapped, Invariant, PTL

\* While a thread is in the kernel of a blocking operation everyone has come
\* that far.
LEMMA AllHaveCome ==
  ASSUME IInv, NEW t \in Threads, pc[t] = "kernel", At(t).op \in Blocking
  PROVE  /\ pos[t] \in BlockingAt
         /\ \A u \in Threads : pos[u] \in Nat /\ pos[u] >= pos[t]
<1>1. pos[t] \in BlockingAt
  BY WalkFacts DEF IInv, TypeOK, At, BlockingAt
<1>2. PastStart(t, pos[t])
  BY DEF PastStart, Waiting
<1>3. \A u \in Threads : pos[u] > pos[t] \/ pos[u] = pos[t]
  BY <1>1, <1>2, Lapped DEF NobodyLapped
<1> QED
  BY <1>1, <1>3 DEF IInv, TypeOK

\* What a running blocking kernel reads is not being written: by no thread that
\* lags behind, and by none that has run ahead, into the next block even.  The
\* graph must have a blocking operation between a blocking one and the next
\* execution of any of its inputs (InputsAreBehind).
THEOREM InputsAreStable == SafeSpec => []StableInputs
<1>1. IInv => StableInputs
  <2> SUFFICES ASSUME IInv, NEW t \in Threads, NEW u \in Threads, NEW o \in Blocking,
                      Executing(t, o), NEW i \in Inputs[o], Executing(u, i)
               PROVE  FALSE
    BY DEF StableInputs
  <2>1. pc[t] = "kernel" /\ At(t).op = o /\ pc[u] = "kernel" /\ Walk[pos[u]].op = i
    BY DEF Executing, At
  <2>2. pos[t] \in BlockingAt /\ \A v \in Threads : pos[v] \in Nat /\ pos[v] >= pos[t]
    BY <2>1, AllHaveCome
  <2>3. pos[u] \in pos[t] .. WalkLength
    BY <2>1, <2>2, WalkFacts DEF IInv, TypeOK
  <2>4. PICK k \in BlockingAt : pos[t] < k /\ k <= pos[u]
    BY <2>1, <2>2, <2>3, InputsAreBehind DEF At
  <2>5. PastStart(u, k)
    BY <2>1, <2>2, <2>4, WalkFacts DEF PastStart, Waiting
  <2>6. pos[t] >= k
    BY <2>2, <2>5, Lapped, WalkFacts DEF NobodyLapped
  <2> QED
    BY <2>2, <2>4, <2>6, WalkFacts
<1> QED
  BY <1>1, Invariant, PTL

\* What a running blocking kernel reads was finished by every thread in the
\* same block, provided the lists execute inputs first (InputsComeFirst).
THEOREM InputsAreFresh == SafeSpec => []FreshInputs
<1>1. IInv => FreshInputs
  <2> SUFFICES ASSUME IInv, NEW t \in Threads, pc[t] = "kernel", At(t).op \in Blocking,
                      NEW i \in Inputs[At(t).op] \cap Executed
               PROVE  \E j \in 1 .. pos[t] - 1 :
                        /\ Walk[j] = [op |-> i, block |-> At(t).block]
                        /\ \A u \in Threads : pos[u] > j
    BY DEF FreshInputs
  <2>1. pos[t] \in BlockingAt /\ \A u \in Threads : pos[u] \in Nat /\ pos[u] >= pos[t]
    BY AllHaveCome
  <2>2. PICK j \in 1 .. pos[t] - 1 : Walk[j] = [op |-> i, block |-> At(t).block]
    BY <2>1, InputsComeFirst DEF At
  <2>3. \A u \in Threads : pos[u] > j
    BY <2>1, <2>2
  <2> QED
    BY <2>2, <2>3
<1> QED
  BY <1>1, Invariant, PTL

\* What an operation reads of the block before is complete while any thread
\* reads it, and nobody has come to where it is written again, provided that a
\* blocking operation begins before either (CarriedAreApart).
THEOREM CarriedStaysPrevious == CarriedAreApart => (SafeSpec => []CarriedIsPrevious)
<1> SUFFICES ASSUME CarriedAreApart PROVE SafeSpec => []CarriedIsPrevious
  OBVIOUS
<1>1. IInv => CarriedIsPrevious
  <2> SUFFICES ASSUME IInv, NEW t \in Threads, NEW u \in Threads, NEW c \in Carried,
                      NEW j \in 1 .. WalkLength, Executing(t, c[1]), Walk[j].op = c[2]
               PROVE  (j < pos[t] => pos[u] > j) /\ (j > pos[t] => pos[u] < j)
    BY DEF CarriedIsPrevious
  <2>1. /\ pc[t] = "kernel" /\ Walk[pos[t]].op = c[1]
        /\ pos[t] \in 1 .. WalkLength /\ pos[u] \in Nat
    BY WalkFacts DEF Executing, At, IInv, TypeOK
  <2>2. ASSUME j < pos[t] PROVE pos[u] > j
    <3>1. PICK k \in BlockingAt : j < k /\ k <= pos[t]
      BY <2>1, <2>2 DEF CarriedAreApart
    <3>2. PastStart(t, k)
      BY <2>1, <3>1, WalkFacts DEF PastStart, Waiting
    <3>3. pos[u] >= k
      BY <2>1, <3>2, Lapped, WalkFacts DEF NobodyLapped
    <3> QED BY <2>1, <3>1, <3>3, WalkFacts
  <2>3. ASSUME j > pos[t], pos[u] >= j PROVE FALSE
    <3>1. PICK k \in BlockingAt : pos[t] < k /\ k < j
      BY <2>1, <2>3 DEF CarriedAreApart
    <3>2. PastStart(u, k)
      BY <2>1, <2>3, <3>1, WalkFacts DEF PastStart
    <3>3. pos[t] >= k
      BY <2>1, <3>2, Lapped, WalkFacts DEF NobodyLapped
    <3> QED BY <2>1, <3>1, <3>3, WalkFacts
  <2> QED BY <2>1, <2>2, <2>3
<1> QED BY <1>1, Invariant, PTL

-----------------------------------------------------------------------------
(* Each latch goes through the steps of BlockingOp.                        *)

LEMMA StepRewound ==
  ASSUME TypeOK, Rewound, NEW t \in Threads, Step(t)
  PROVE  Rewound'
<1>1. \A u \in Threads \ {t} : pc'[u] = pc[u] /\ next'[u] = next[u]
  BY DEF Step, Arrive, Store, Flag, Enter, SyncKernel, AsyncKernel, Leave, Return,
         Goto, MoveTo, LoopIsOver, TypeOK
<1>2. pc'[t] \notin {"open", "reopen"} => next'[t] = 0
  BY EntryPoints DEF Step, Arrive, Store, Flag, Enter, SyncKernel, AsyncKernel, Leave, Return,
         Goto, MoveTo, LoopIsOver, TypeOK, Rewound, EntryOf
<1> QED
  BY <1>1, <1>2 DEF Rewound

LEMMA AlwaysRewound == SafeSpec => []Rewound
<1>1. Init => Rewound
  BY DEF Init, Rewound
<1>2. TypeOK /\ Rewound /\ [Next]_walkVars => Rewound'
  BY StepRewound DEF Next, Finished, walkVars, Rewound
<1> QED
  BY <1>1, <1>2, TypeCorrect, PTL DEF SafeSpec

\* Where the threads are, seen from the latch at position i.
PcAt(i) == [t \in Threads |-> IF pos[t] < i THEN "arrive"
                              ELSE IF pos[t] > i THEN "done" ELSE pc[t]]

NextAt(i) == [t \in Threads |-> IF pos[t] = i THEN next[t] ELSE 0]

LEMMA InitAt == Init => \A i \in BlockingAt : LatchAt(i)!Init
<1> SUFFICES ASSUME Init, NEW i \in BlockingAt PROVE LatchAt(i)!Init
  OBVIOUS
<1>1. latch[Walk[i]] = [gc |-> N, tc |-> N, flags |-> {}]
  BY WalkFacts DEF Init, PlannedLatches
<1>2. \A t \in Threads : pos[t] = 1 /\ next[t] = 0 /\ (1 = i => pc[t] = "arrive")
  BY WalkFacts, EntryPoints DEF Init
<1>3. PcAt(i) = [t \in Threads |-> "arrive"] /\ NextAt(i) = [t \in Threads |-> 0]
  BY <1>2, WalkFacts DEF PcAt, NextAt
<1> QED
  BY <1>1, <1>3 DEF LatchAt!Init, LatchAt!Threads, PcAt, NextAt, Threads

\* A thread at position i that stays there, for the latch.
LEMMA StayAt ==
  ASSUME TypeOK, NEW i \in BlockingAt, NEW t \in Threads, pos[t] = i, pos' = pos
  PROVE  /\ PcAt(i)[t] = pc[t] /\ NextAt(i)[t] = next[t]
         /\ \A p : pc' = [pc EXCEPT ![t] = p] => PcAt(i)' = [PcAt(i) EXCEPT ![t] = p]
         /\ pc' = pc => PcAt(i)' = PcAt(i)
         /\ \A n : next' = [next EXCEPT ![t] = n] => NextAt(i)' = [NextAt(i) EXCEPT ![t] = n]
         /\ next' = next => NextAt(i)' = NextAt(i)
<1>1. i \in Nat /\ pos \in [Threads -> Nat] /\ DOMAIN pc = Threads /\ DOMAIN next = Threads
  BY WalkFacts DEF TypeOK
<1>2. PcAt(i)[t] = pc[t] /\ NextAt(i)[t] = next[t]
  BY <1>1 DEF PcAt, NextAt
<1>3. ASSUME NEW p, pc' = [pc EXCEPT ![t] = p] PROVE PcAt(i)' = [PcAt(i) EXCEPT ![t] = p]
  <2>1. \A u \in Threads :
          (IF pos'[u] < i THEN "arrive" ELSE IF pos'[u] > i THEN "done" ELSE pc'[u])
            = IF u = t THEN p ELSE PcAt(i)[u]
    BY <1>1, <1>3 DEF PcAt
  <2>2. PcAt(i)' = [u \in Threads |-> IF u = t THEN p ELSE PcAt(i)[u]]
    BY <2>1 DEF PcAt
  <2>3. [PcAt(i) EXCEPT ![t] = p] = [u \in Threads |-> IF u = t THEN p ELSE PcAt(i)[u]]
    BY DEF PcAt
  <2> QED
    BY <2>2, <2>3
<1>4. ASSUME NEW n, next' = [next EXCEPT ![t] = n]
      PROVE  NextAt(i)' = [NextAt(i) EXCEPT ![t] = n]
  BY <1>1, <1>4 DEF NextAt
<1> QED
  BY <1>1, <1>2, <1>3, <1>4 DEF PcAt, NextAt

\* A thread that moves on from position i is done with its latch.
LEMMA DoneAt ==
  ASSUME TypeOK, NEW i \in BlockingAt, NEW t \in Threads, pos[t] = i, MoveTo(t, i + 1)
  PROVE  /\ PcAt(i)' = [PcAt(i) EXCEPT ![t] = "done"]
         /\ \A n : next' = [next EXCEPT ![t] = n] => NextAt(i)' = [NextAt(i) EXCEPT ![t] = 0]
         /\ next' = next /\ next[t] = 0 => NextAt(i)' = NextAt(i)
<1>1. /\ i \in Nat /\ pos \in [Threads -> Nat] /\ DOMAIN pc = Threads /\ DOMAIN next = Threads
      /\ pos' = [pos EXCEPT ![t] = i + 1]
      /\ \A u \in Threads : u # t => pc'[u] = pc[u]
  BY WalkFacts DEF TypeOK, MoveTo
<1>2. PcAt(i)' = [PcAt(i) EXCEPT ![t] = "done"]
  <2>1. \A u \in Threads :
          (IF pos'[u] < i THEN "arrive" ELSE IF pos'[u] > i THEN "done" ELSE pc'[u])
            = IF u = t THEN "done" ELSE PcAt(i)[u]
    BY <1>1 DEF PcAt
  <2>2. PcAt(i)' = [u \in Threads |-> IF u = t THEN "done" ELSE PcAt(i)[u]]
    BY <2>1 DEF PcAt
  <2>3. [PcAt(i) EXCEPT ![t] = "done"] = [u \in Threads |-> IF u = t THEN "done" ELSE PcAt(i)[u]]
    BY DEF PcAt
  <2> QED
    BY <2>2, <2>3
<1>3. ASSUME NEW n, next' = [next EXCEPT ![t] = n]
      PROVE  NextAt(i)' = [NextAt(i) EXCEPT ![t] = 0]
  <2>1. \A u \in Threads : (IF pos'[u] = i THEN next'[u] ELSE 0)
                             = IF u = t THEN 0 ELSE IF pos[u] = i THEN next[u] ELSE 0
    BY <1>1, <1>3
  <2> QED
    BY <2>1 DEF NextAt
<1>4. ASSUME next' = next, next[t] = 0 PROVE NextAt(i)' = NextAt(i)
  <2>1. \A u \in Threads : (IF pos'[u] = i THEN next'[u] ELSE 0)
                             = IF pos[u] = i THEN next[u] ELSE 0
    BY <1>1, <1>4
  <2> QED
    BY <2>1 DEF NextAt
<1> QED
  BY <1>2, <1>3, <1>4

\* A latch that the thread is not at does not notice its step: on the way to
\* it the thread has yet to arrive, beyond it it is done.
LEMMA ElsewhereAt ==
  ASSUME TypeOK, Located, Rewound, NEW t \in Threads, Step(t),
         NEW i \in BlockingAt, pos[t] # i
  PROVE  latch'[Walk[i]] = latch[Walk[i]] /\ PcAt(i)' = PcAt(i) /\ NextAt(i)' = NextAt(i)
<1>1. i \in Nat /\ pos \in [Threads -> Nat] /\ DOMAIN pc = Threads /\ DOMAIN next = Threads
  BY WalkFacts DEF TypeOK
<1>2. latch'[Walk[i]] = latch[Walk[i]]
  <2>1. CASE latch' = latch
    BY <2>1
  <2>2. CASE pos[t] \in BlockingAt /\ \E l : latch' = [latch EXCEPT ![At(t)] = l]
    <3>1. Walk[pos[t]] # Walk[i] /\ Walk[i] \in Slots
      BY <2>2, OneLatchEach, WalkFacts
    <3> QED
      BY <2>2, <3>1 DEF At, TypeOK
  <2> QED
    BY <2>1, <2>2, StepShape
<1>3. \A u \in Threads \ {t} : pos'[u] = pos[u] /\ pc'[u] = pc[u] /\ next'[u] = next[u]
  BY DEF Step, Arrive, Store, Flag, Enter, SyncKernel, AsyncKernel, Leave, Return,
         Goto, MoveTo, LoopIsOver, TypeOK
<1>4. \/ pos'[t] = pos[t]
      \/ pos'[t] = pos[t] + 1 /\ (pos[t] + 1 = i => pc'[t] = "arrive" /\ next'[t] = 0)
  <2>1. CASE pos' = pos
    BY <2>1
  <2>2. CASE MoveTo(t, pos[t] + 1)
    <3>1. pos'[t] = pos[t] + 1 /\ pc'[t] = EntryOf(pos[t] + 1)
      BY <2>2 DEF MoveTo, TypeOK
    <3>2. pos[t] + 1 = i => pc'[t] = "arrive"
      BY <3>1, EntryPoints, WalkFacts
    <3>3. pc'[t] = "arrive" => next'[t] = 0
      BY StepRewound DEF Rewound
    <3> QED
      BY <3>1, <3>2, <3>3
  <2> QED
    BY <2>1, <2>2, StepShape
<1>5. \A u \in Threads : /\ pos'[u] \in Nat
                         /\ (IF pos'[u] < i THEN "arrive" ELSE IF pos'[u] > i THEN "done" ELSE pc'[u])
                            = (IF pos[u] < i THEN "arrive" ELSE IF pos[u] > i THEN "done" ELSE pc[u])
                         /\ (IF pos'[u] = i THEN next'[u] ELSE 0)
                            = (IF pos[u] = i THEN next[u] ELSE 0)
  BY <1>1, <1>3, <1>4
<1> QED
  BY <1>2, <1>5 DEF PcAt, NextAt

\* A step of a thread at position i is a step of BlockingOp on its latch.
LEMMA StepAt ==
  ASSUME TypeOK, Located, Rewound, NEW t \in Threads, Step(t),
         NEW i \in BlockingAt, pos[t] = i
  PROVE  LatchAt(i)!Step(t)
<1> DEFINE l == latch[Walk[i]]
<1>1. Mine(t) = l /\ At(t) = Walk[i] /\ Walk[i].op \in Blocking
  BY WalkFacts DEF Mine, At
<1>2. \A m : Change(t, m) => latch'[Walk[i]] = m
  BY <1>1, WalkFacts DEF Change, TypeOK
<1>3. PcAt(i)[t] = pc[t] /\ PcAt(i) = [u \in Threads |-> IF pos[u] < i THEN "arrive"
                              ELSE IF pos[u] > i THEN "done" ELSE pc[u]]
  BY WalkFacts DEF PcAt, TypeOK
<1>4. CASE Arrive(t)
  <2>1. pc[t] = "arrive" /\ latch'[Walk[i]] = FetchSub(l) /\ next' = next /\ pos' = pos
        /\ pc' = [pc EXCEPT ![t] = IF LastToArrive(l) THEN "zero" ELSE "spin"]
    BY <1>1, <1>2, <1>4 DEF Arrive, Goto
  <2>2. /\ PcAt(i)[t] = "arrive" /\ NextAt(i)' = NextAt(i)
        /\ PcAt(i)' = [PcAt(i) EXCEPT ![t] = IF LastToArrive(l) THEN "zero" ELSE "spin"]
    BY <2>1, StayAt
  <2>3. LatchAt(i)!Arrive(t)
    BY <2>1, <2>2 DEF LatchAt!Arrive, LatchAt!Goto, LatchAt!FetchSub, LatchAt!LastToArrive,
       LatchAt!Threads, FetchSub, LastToArrive, PcAt, NextAt, Threads
  <2> QED
    BY <2>3 DEF LatchAt!Step
<1>5. CASE Store(t)
  <2>1. next' = next /\ pos' = pos
        /\ \/ /\ pc[t] = "zero" /\ latch'[Walk[i]] = StoreZero(l) /\ pc' = [pc EXCEPT ![t] = "open"]
           \/ /\ pc[t] = "full" /\ latch'[Walk[i]] = StoreFull(l) /\ pc' = [pc EXCEPT ![t] = "reopen"]
    BY <1>1, <1>2, <1>5 DEF Store, Goto
  <2>2. /\ PcAt(i)[t] = pc[t] /\ NextAt(i)' = NextAt(i)
        /\ \A p : pc' = [pc EXCEPT ![t] = p] => PcAt(i)' = [PcAt(i) EXCEPT ![t] = p]
    BY <2>1, StayAt
  <2>3. LatchAt(i)!CountDownStore(t) \/ LatchAt(i)!CountUpStore(t)
    BY <2>1, <2>2 DEF LatchAt!CountDownStore, LatchAt!CountUpStore, LatchAt!Goto,
       LatchAt!StoreZero, LatchAt!StoreFull, LatchAt!Threads, StoreZero, StoreFull,
       PcAt, NextAt, Threads
  <2> QED
    BY <2>3 DEF LatchAt!Step
<1>6. CASE Flag(t)
  <2>1. /\ pos' = pos /\ pc' = pc /\ pc[t] \in {"open", "reopen"} /\ next[t] < l.tc
        /\ latch'[Walk[i]] = SetFlag(l, next[t]) /\ next' = [next EXCEPT ![t] = next[t] + 1]
    BY <1>1, <1>2, <1>6 DEF Flag
  <2>2. /\ PcAt(i)[t] = pc[t] /\ PcAt(i)' = PcAt(i) /\ NextAt(i)[t] = next[t]
        /\ NextAt(i)' = [NextAt(i) EXCEPT ![t] = next[t] + 1]
    BY <2>1, StayAt
  <2>3. LatchAt(i)!CountDownFlag(t) \/ LatchAt(i)!CountUpFlag(t)
    BY <2>1, <2>2 DEF LatchAt!CountDownFlag, LatchAt!CountUpFlag, LatchAt!SetFlag,
       LatchAt!Threads, SetFlag, PcAt, NextAt, Threads
  <2> QED
    BY <2>3 DEF LatchAt!Step
<1>7. CASE Enter(t)
  <2>1. /\ pos' = pos /\ latch' = latch /\ pc' = [pc EXCEPT ![t] = "kernel"]
        /\ \/ /\ pc[t] = "open" /\ next[t] >= l.tc /\ next' = [next EXCEPT ![t] = 0]
           \/ /\ pc[t] = "spin" /\ Released(l, t) /\ next' = next
    BY <1>1, <1>7 DEF Enter, Goto, LoopIsOver
  <2>2. /\ PcAt(i)[t] = pc[t] /\ NextAt(i)[t] = next[t]
        /\ PcAt(i)' = [PcAt(i) EXCEPT ![t] = "kernel"]
        /\ next' = next => NextAt(i)' = NextAt(i)
        /\ next' = [next EXCEPT ![t] = 0] => NextAt(i)' = [NextAt(i) EXCEPT ![t] = 0]
    BY <2>1, StayAt
  <2>3. LatchAt(i)!CountDownReturn(t) \/ LatchAt(i)!SpinEnds(t)
    BY <2>1, <2>2 DEF LatchAt!CountDownReturn, LatchAt!SpinEnds, LatchAt!Goto,
       LatchAt!Released, LatchAt!Threads, Released, PcAt, NextAt, Threads
  <2> QED
    BY <2>3 DEF LatchAt!Step
<1>8. CASE SyncKernel(t)
  <2>1. /\ pos' = pos /\ latch' = latch /\ next' = next
        /\ pc[t] = "kernel" /\ pc' = [pc EXCEPT ![t] = "leave"]
    BY <1>8 DEF SyncKernel, Goto
  <2>2. /\ PcAt(i)[t] = pc[t] /\ NextAt(i)' = NextAt(i)
        /\ PcAt(i)' = [PcAt(i) EXCEPT ![t] = "leave"]
    BY <2>1, StayAt
  <2>3. LatchAt(i)!Kernel(t)
    BY <2>1, <2>2 DEF LatchAt!Kernel, LatchAt!Goto, LatchAt!Threads, PcAt, NextAt, Threads
  <2> QED
    BY <2>3 DEF LatchAt!Step
<1>9. CASE AsyncKernel(t)
  BY <1>1, <1>9 DEF AsyncKernel
<1>10. CASE Leave(t)
  <2>1. /\ pc[t] = "leave" /\ latch'[Walk[i]] = FetchAdd(l) /\ next' = next /\ pos' = pos
        /\ pc' = [pc EXCEPT ![t] = IF LastToLeave(l) THEN "full" ELSE "spin2"]
    BY <1>1, <1>2, <1>10 DEF Leave, Goto
  <2>2. /\ PcAt(i)[t] = "leave" /\ NextAt(i)' = NextAt(i)
        /\ PcAt(i)' = [PcAt(i) EXCEPT ![t] = IF LastToLeave(l) THEN "full" ELSE "spin2"]
    BY <2>1, StayAt
  <2>3. LatchAt(i)!Leave(t)
    BY <2>1, <2>2 DEF LatchAt!Leave, LatchAt!Goto, LatchAt!FetchAdd, LatchAt!LastToLeave,
       LatchAt!Threads, FetchAdd, LastToLeave, PcAt, NextAt, Threads
  <2> QED
    BY <2>3 DEF LatchAt!Step
<1>11. CASE Return(t)
  <2>1. /\ MoveTo(t, i + 1) /\ latch' = latch
        /\ \/ /\ pc[t] = "reopen" /\ next[t] >= l.tc /\ next' = [next EXCEPT ![t] = 0]
           \/ /\ pc[t] = "spin2" /\ Released(l, t) /\ next' = next
    BY <1>1, <1>11 DEF Return, LoopIsOver
  <2>2. /\ PcAt(i)[t] = pc[t] /\ NextAt(i)[t] = next[t]
        /\ PcAt(i)' = [PcAt(i) EXCEPT ![t] = "done"]
        /\ next' = [next EXCEPT ![t] = 0] => NextAt(i)' = [NextAt(i) EXCEPT ![t] = 0]
        /\ pc[t] = "spin2" /\ next' = next => NextAt(i)' = NextAt(i)
    <3>1. pc[t] = "spin2" => next[t] = 0
      BY DEF Rewound
    <3>2. pos[t] \in Nat /\ NextAt(i)[t] = next[t] /\ PcAt(i)[t] = pc[t]
      BY <1>3 DEF TypeOK, NextAt
    <3> QED
      BY <2>1, <3>1, <3>2, DoneAt
  <2>3. LatchAt(i)!CountUpReturn(t) \/ LatchAt(i)!Spin2Ends(t)
    BY <2>1, <2>2 DEF LatchAt!CountUpReturn, LatchAt!Spin2Ends, LatchAt!Goto,
       LatchAt!Released, LatchAt!Threads, Released, PcAt, NextAt, Threads
  <2> QED
    BY <2>3 DEF LatchAt!Step
<1> QED
  BY <1>4, <1>5, <1>6, <1>7, <1>8, <1>9, <1>10, <1>11 DEF Step

\* Each latch goes through exactly the steps of one blocking operation, once:
\* what is proved of BlockingOp holds of every latch of a pass.
THEOREM LatchesAreUsedOnce == SafeSpec => EachLatchIsUsedOnce
<1> DEFINE Seen(i) == UNCHANGED LatchAt(i)!vars \/ LatchAt(i)!Next
<1>1. ASSUME IInv, Rewound, [Next]_walkVars, NEW i \in BlockingAt PROVE Seen(i)
  <2>1. ASSUME NEW t \in Threads, Step(t), pos[t] = i PROVE Seen(i)
    BY <1>1, <2>1, StepAt DEF IInv, LatchAt!Next, LatchAt!Threads, Threads
  <2>2. ASSUME NEW t \in Threads, Step(t), pos[t] # i PROVE Seen(i)
    BY <1>1, <2>2, ElsewhereAt DEF IInv, LatchAt!vars, PcAt, NextAt
  <2>3. ASSUME UNCHANGED walkVars PROVE Seen(i)
    BY <2>3 DEF LatchAt!vars, walkVars
  <2> QED
    BY <1>1, <2>1, <2>2, <2>3 DEF Next, Finished
<1>2. IInv /\ Rewound /\ [Next]_walkVars => [\A i \in BlockingAt : Seen(i)]_walkVars
  BY <1>1
<1>3. SafeSpec => [][\A i \in BlockingAt : Seen(i)]_walkVars
  BY <1>2, Invariant, AlwaysRewound, PTL DEF SafeSpec
<1>4. SafeSpec => \A i \in BlockingAt : LatchAt(i)!Init
  BY InitAt DEF SafeSpec
<1> QED
  BY <1>3, <1>4 DEF EachLatchIsUsedOnce

-----------------------------------------------------------------------------
(* The pass cannot deadlock.                                               *)

LEMMA InitOInv == Init => OInv
<1> SUFFICES ASSUME Init PROVE OInv
  OBVIOUS
<1>1. IInv
  BY InitTypes, InitClosed DEF IInv
<1>2. Rewound
  BY DEF Init, Rewound
<1>3. OpenedBefore
  BY <1>1 DEF Init, OpenedBefore, Threads
<1>4. ASSUME NEW i \in BlockingAt PROVE Opening(i)
  <2>1. 0 \in Threads
    BY DEF Threads
  <2>2. pos[0] = 1 /\ (i = 1 => pc[0] = "arrive")
    BY <2>1, EntryPoints, WalkFacts DEF Init
  <2>3. 0 \notin Came(i)
    BY <2>2, WalkFacts DEF Came
  <2> QED
    BY <2>1, <2>3 DEF Opening
<1> QED
  BY <1>1, <1>2, <1>3, <1>4 DEF OInv

\* No step clears a flag: that is execution_planner's business.
LEMMA FlagsGrow ==
  ASSUME TypeOK, Located, NEW t \in Threads, Step(t), NEW s \in Slots
  PROVE  latch[s].flags \subseteq latch'[s].flags
<1>1. CASE latch' = latch
  BY <1>1
<1>2. ASSUME NEW l, latch' = [latch EXCEPT ![At(t)] = l], Mine(t).flags \subseteq l.flags
      PROVE  latch[s].flags \subseteq latch'[s].flags
  BY <1>2 DEF TypeOK, Mine
<1>3. CASE Arrive(t) \/ Store(t) \/ Leave(t)
  <2>1. Mine(t) \in [gc : Counter, tc : {N}, flags : SUBSET Threads]
    BY <1>3, MyLatch DEF Arrive, Store, Leave
  <2>2. \A m \in {FetchSub(Mine(t)), StoreZero(Mine(t)), StoreFull(Mine(t)), FetchAdd(Mine(t))} :
          m.flags = Mine(t).flags
    BY <2>1 DEF FetchSub, StoreZero, StoreFull, FetchAdd
  <2> QED
    BY <1>2, <1>3, <2>2 DEF Arrive, Store, Leave, Change
<1>4. CASE Flag(t)
  <2>1. Mine(t) \in [gc : Counter, tc : {N}, flags : SUBSET Threads]
    BY <1>4, MyLatch DEF Flag
  <2>2. Mine(t).flags \subseteq SetFlag(Mine(t), next[t]).flags
    BY <2>1 DEF SetFlag
  <2> QED
    BY <1>2, <1>4, <2>2 DEF Flag, Change
<1> QED
  BY <1>1, <1>3, <1>4 DEF Step, Enter, SyncKernel, AsyncKernel, Return

\* A step leaves the other threads where they are.
LEMMA OthersStay ==
  ASSUME TypeOK, NEW t \in Threads, Step(t)
  PROVE  \A u \in Threads \ {t} : pos'[u] = pos[u] /\ pc'[u] = pc[u] /\ next'[u] = next[u]
BY DEF Step, Arrive, Store, Flag, Enter, SyncKernel, AsyncKernel, Leave, Return,
       Goto, MoveTo, LoopIsOver, TypeOK

LEMMA StepOpenedBefore ==
  ASSUME OInv, NEW t \in Threads, Step(t)
  PROVE  OpenedBefore'
<1> SUFFICES ASSUME NEW v \in Threads, NEW u \in Threads, pc'[v] = "open", u < next'[v]
             PROVE  u \in Mine(v).flags'
  BY DEF OpenedBefore
<1>1. TypeOK /\ Located /\ Rewound /\ TypeOK' /\ Located'
  BY StepTypes DEF OInv, IInv
<1>2. CASE v # t
  <2>1. pos'[v] = pos[v] /\ pc[v] = "open" /\ next'[v] = next[v]
    BY <1>1, <1>2, OthersStay
  <2>2. u \in Mine(v).flags /\ At(v)' = At(v) /\ At(v) \in Slots
    BY <1>1, <2>1, MyLatch DEF OInv, OpenedBefore, At
  <2> QED
    BY <1>1, <2>2, FlagsGrow DEF Mine
<1>3. CASE v = t
  <2>1. \/ Store(t) /\ pc[t] = "zero"
        \/ Flag(t) /\ pc[t] = "open"
    BY <1>1, <1>3, EntryPoints DEF Step, Arrive, Store, Flag, Enter, SyncKernel, AsyncKernel,
       Leave, Return, Goto, MoveTo, TypeOK, EntryOf
  <2>2. CASE Store(t) /\ pc[t] = "zero"
    <3>1. next'[v] = 0
      BY <1>1, <1>3, <2>2 DEF Store, Rewound
    <3> QED
      BY <3>1 DEF Threads
  <2>3. CASE Flag(t) /\ pc[t] = "open"
    <3>1. At(t) \in Slots /\ Mine(t) \in [gc : Counter, tc : {N}, flags : SUBSET Threads]
      BY <1>1, <2>3, MyLatch
    <3>2. pos' = pos /\ next'[t] = next[t] + 1 /\ next[t] \in 0 .. N
          /\ latch' = [latch EXCEPT ![At(t)] = SetFlag(Mine(t), next[t])]
      BY <1>1, <2>3 DEF Flag, Change, TypeOK
    <3>3. Mine(t)' = SetFlag(Mine(t), next[t])
      BY <1>1, <3>1, <3>2 DEF Mine, At, TypeOK
    <3>4. Mine(t)'.flags = Mine(t).flags \cup {next[t]}
      BY <3>1, <3>3 DEF SetFlag
    <3>5. u < next[t] \/ u = next[t]
      BY <1>3, <3>2 DEF Threads
    <3> QED
      BY <1>3, <2>3, <3>4, <3>5 DEF OInv, OpenedBefore
  <2> QED
    BY <2>1, <2>2, <2>3
<1> QED
  BY <1>2, <1>3

\* The last to come draws the last ticket: it sets the flags.
LEMMA LastComes ==
  ASSUME OInv, NEW t \in Threads, Step(t), NEW i \in BlockingAt,
         Came(i) # Threads, Came(i)' = Threads
  PROVE  pos'[t] = i /\ pc'[t] = "zero"
<1>1. TypeOK /\ Located /\ i \in Nat /\ Walk[i] \in Slots
  BY WalkFacts DEF OInv, IInv
<1>2. /\ latch[Walk[i]].gc + Cardinality(Came(i)) = N
      /\ \A u \in Threads : pos[u] <= i /\ (pos[u] = i => pc[u] \in {"arrive", "spin"})
  BY DEF OInv, IInv, ClosedUntilAll
<1>3. t \notin Came(i) /\ Threads = Came(i) \cup {t} /\ t \in Came(i)'
  BY <1>1, CameGrows DEF Came
<1>4. pos[t] = i /\ pc[t] = "arrive"
  <2>1. pos[t] \in Nat
    BY <1>1 DEF TypeOK
  <2>2. CASE pos' = pos /\ \E p \in Points \ {"arrive"} : pc' = [pc EXCEPT ![t] = p]
    <3>1. pos'[t] = pos[t]
      BY <2>2
    <3> QED
      BY <1>1, <1>2, <1>3, <2>1, <3>1 DEF Came
  <2>3. CASE MoveTo(t, pos[t] + 1)
    <3>1. pos'[t] = pos[t] + 1 /\ pc'[t] = EntryOf(pos[t] + 1)
      BY <1>1, <2>3 DEF MoveTo, TypeOK
    <3>2. pos[t] = i \/ pos[t] + 1 < i \/ pos[t] + 1 = i
      BY <1>1, <1>2, <2>1
    <3>3. pos[t] + 1 = i => pc'[t] = "arrive"
      BY <1>1, <3>1, WalkFacts, EntryPoints
    <3>4. pos[t] = i
      BY <1>1, <1>3, <2>1, <3>1, <3>2, <3>3 DEF Came
    <3> QED
      BY <1>1, <1>3, <2>1, <3>4 DEF Came
  <2> QED
    BY <1>1, <2>2, <2>3, StepShape
<1>5. Arrive(t)
  BY <1>4 DEF Step, Store, Flag, Enter, SyncKernel, AsyncKernel, Leave, Return
<1>6. Mine(t) = latch[Walk[i]] /\ latch[Walk[i]].gc = 1
  <2>1. Came(i) \in SUBSET Threads /\ Cardinality(Threads) = Cardinality(Came(i)) + 1
    BY <1>3, ThreadJoins DEF Came
  <2>2. Cardinality(Threads) = N
    <3>1. 0 \in Int /\ N - 1 \in Int
      OBVIOUS
    <3> QED BY <3>1, FS_Interval DEF Threads
  <2>3. latch[Walk[i]].gc \in Nat /\ Cardinality(Came(i)) \in Nat
    BY <1>1, <2>1, ThreadSets DEF TypeOK, Counter
  <2> QED
    BY <1>2, <1>4, <2>1, <2>2, <2>3 DEF Mine, At
<1> QED
  BY <1>1, <1>4, <1>5, <1>6 DEF Arrive, Goto, LastToArrive, TypeOK

LEMMA StepOpening ==
  ASSUME OInv, NEW t \in Threads, Step(t), NEW i \in BlockingAt
  PROVE  Opening(i)'
<1> SUFFICES ASSUME Came(i)' = Threads
             PROVE  \/ latch'[Walk[i]].flags = Threads
                    \/ \E u \in Threads : pos'[u] = i /\ pc'[u] \in {"zero", "open"}
  BY DEF Opening
<1>1. TypeOK /\ Located /\ TypeOK' /\ Walk[i] \in Slots
  BY StepTypes, WalkFacts DEF OInv, IInv
<1>2. CASE Came(i) # Threads
  BY <1>2, LastComes
<1>3. CASE latch[Walk[i]].flags = Threads
  <2>1. Threads \subseteq latch'[Walk[i]].flags
    BY <1>1, <1>3, FlagsGrow
  <2>2. latch'[Walk[i]].flags \in SUBSET Threads
    BY <1>1 DEF TypeOK
  <2> QED
    BY <2>1, <2>2
<1>4. ASSUME NEW u \in Threads, pos[u] = i, pc[u] \in {"zero", "open"}
      PROVE  \/ latch'[Walk[i]].flags = Threads
             \/ \E v \in Threads : pos'[v] = i /\ pc'[v] \in {"zero", "open"}
  <2>1. CASE u # t
    BY <1>1, <1>4, <2>1, OthersStay
  <2>2. CASE u = t /\ (Store(t) \/ Flag(t))
    BY <1>1, <1>4, <2>2 DEF Store, Flag, Goto, TypeOK
  <2>3. CASE u = t /\ ~Store(t) /\ ~Flag(t)
    <3>1. pc[t] = "open" /\ LoopIsOver(t) /\ latch' = latch
      BY <1>4, <2>3 DEF Step, Arrive, Enter, SyncKernel, AsyncKernel, Leave, Return
    <3>2. Mine(t) = latch[Walk[i]] /\ Mine(t).tc = N /\ Mine(t).flags \in SUBSET Threads
      BY <1>1, <1>4, <2>3 DEF Mine, At, TypeOK
    <3>3. \A v \in Threads : v < next[t]
      BY <1>1, <3>1, <3>2 DEF LoopIsOver, TypeOK, Threads
    <3>4. Threads \subseteq Mine(t).flags
      BY <3>1, <3>3 DEF OInv, OpenedBefore
    <3> QED
      BY <3>1, <3>2, <3>4
  <2> QED
    BY <2>1, <2>2, <2>3
<1> QED
  BY <1>2, <1>3, <1>4 DEF OInv, Opening

LEMMA StepOInv == OInv /\ [Next]_walkVars => OInv'
<1> SUFFICES ASSUME OInv, [Next]_walkVars PROVE OInv'
  OBVIOUS
<1>1. IInv'
  BY StepIInv DEF OInv
<1>2. ASSUME NEW t \in Threads, Step(t) PROVE OInv'
  <2>1. Rewound'
    BY <1>2, StepRewound DEF OInv, IInv
  <2> QED
    BY <1>1, <1>2, <2>1, StepOpenedBefore, StepOpening DEF OInv
<1>3. CASE UNCHANGED walkVars
  BY <1>1, <1>3 DEF OInv, Rewound, OpenedBefore, Opening, Came, Mine, At, walkVars
<1> QED
  BY <1>2, <1>3 DEF Next, Finished

\* When all have come the flags are set, or somebody is on the way to set them.
THEOREM OpeningInvariant == SafeSpec => []OInv
BY InitOInv, StepOInv, PTL DEF SafeSpec

LEMMA OInvGoesOn == OInv => SomebodyGoesOn
<1> SUFFICES ASSUME OInv, ~AllOut, \A t \in Threads : ~CanGoOn(t) PROVE FALSE
  BY DEF SomebodyGoesOn
<1> DEFINE Behind == {pos[t] : t \in {u \in Threads : pc[u] # "out"}}
<1>1. TypeOK /\ Located
  BY DEF OInv, IInv
<1>2. Behind \subseteq Nat /\ Behind # {}
  <2>1. \A u \in Threads : pos[u] \in Nat
    BY <1>1, WalkFacts DEF TypeOK
  <2>2. PICK u \in Threads : pc[u] # "out"
    BY DEF AllOut
  <2>3. pos[u] \in Behind
    BY <2>2
  <2> QED
    BY <2>1, <2>3
<1>3. PICK i \in Behind : \A j \in Behind : i <= j
  <2> HIDE DEF Behind
  <2> QED BY <1>2, LeastOf
<1>4. PICK t \in Threads : pos[t] = i /\ pc[t] # "out"
  OBVIOUS
<1>5. pc[t] \in {"spin", "spin2"} /\ ~Released(Mine(t), t)
  BY <1>4 DEF CanGoOn
<1>6. i \in BlockingAt /\ i \in Nat /\ i <= WalkLength /\ Mine(t) = latch[Walk[i]]
  BY <1>1, <1>4, <1>5, WalkFacts DEF Located, Mine, At
<1>7. Came(i) = Threads
  <2> SUFFICES ASSUME NEW u \in Threads PROVE u \in Came(i)
    BY DEF Came
  <2>1. CASE pc[u] = "out"
    BY <1>1, <1>6, <2>1, WalkFacts DEF TypeOK, Came
  <2>2. CASE pc[u] # "out"
    <3>1. i <= pos[u] /\ pos[u] \in Nat
      BY <1>1, <1>3, <2>2 DEF TypeOK
    <3>2. pc[u] # "arrive"
      BY <2>2 DEF CanGoOn
    <3> QED
      BY <1>6, <3>1, <3>2 DEF Came
  <2> QED
    BY <2>1, <2>2
<1>8. CASE latch[Walk[i]].flags = Threads
  BY <1>5, <1>6, <1>8 DEF Released
<1>9. CASE \E u \in Threads : pos[u] = i /\ pc[u] \in {"zero", "open"}
  BY <1>9 DEF CanGoOn
<1> QED
  BY <1>6, <1>7, <1>8, <1>9 DEF OInv, Opening

\* A pass does not deadlock, for any lists and any number of threads and blocks.
THEOREM PassDoesNotDeadlock == SafeSpec => []SomebodyGoesOn
BY OpeningInvariant, OInvGoesOn, PTL

-----------------------------------------------------------------------------
(* A pass is finite, and a thread's turn is its own.                       *)

\* How far a thread has come in the operation at its position: at point p, with
\* n turns of a loop made.
StageAt(p, n) == CASE p \in {"arrive", "out"} -> 0
                   [] p = "zero" -> 1
                   [] p = "spin" -> 2
                   [] p = "open" -> 2 + n
                   [] p = "kernel" -> N + 3
                   [] p = "leave" -> N + 4
                   [] p = "full" -> N + 5
                   [] p = "spin2" -> N + 6
                   [] p = "reopen" -> N + 6 + n

Stage(t) == StageAt(pc[t], next[t])

\* Thread t comes on in its operation, or to the next one.
Advances(t) == \/ pos'[t] = pos[t] + 1
               \/ pos'[t] = pos[t] /\ Stage(t)' > Stage(t)

\* A pass does not go round in circles: every step brings one thread on and
\* leaves the others where they are, and nobody has further to go than to the
\* last stage of the last operation.
NoCircle == /\ [](\A t \in Threads : pos[t] \in 1 .. WalkLength + 1 /\ Stage(t) \in 0 .. 2 * N + 6)
            /\ [][\E t \in Threads :
                    /\ Advances(t)
                    /\ \A u \in Threads \ {t} : pos'[u] = pos[u] /\ Stage(u)' = Stage(u)]_walkVars

\* A thread that can go on can go on until it does: nobody takes its turn away,
\* and so weak fairness is all that the threads need.
NobodyIsRobbed == [][\A t \in Threads : CanGoOn(t) => CanGoOn(t)' \/ Step(t)]_walkVars

\* A step of another thread does not stop a thread that can go on: flags that
\* are set stay set.
LEMMA TurnStays ==
  ASSUME TypeOK, Located, NEW t \in Threads, CanGoOn(t), NEW u \in Threads \ {t}, Step(u)
  PROVE  CanGoOn(t)'
<1>1. pos'[t] = pos[t] /\ pc'[t] = pc[t]
  BY OthersStay
<1>2. ASSUME pc[t] \in {"spin", "spin2"} PROVE Released(Mine(t), t)'
  <2>1. At(t) \in Slots /\ At(t)' = At(t) /\ t \in Mine(t).flags
    BY <1>1, <1>2, MyLatch DEF At, CanGoOn, Released
  <2> QED
    BY <2>1, FlagsGrow DEF Mine, Released
<1> QED
  BY <1>1, <1>2 DEF CanGoOn

\* Whatever the others do, a thread that can go on can go on until it does.
THEOREM EveryoneKeepsTheTurn == SafeSpec => NobodyIsRobbed
<1>1. ASSUME IInv, [Next]_walkVars, NEW t \in Threads, CanGoOn(t), ~Step(t)
      PROVE  CanGoOn(t)'
  <2>1. ASSUME NEW u \in Threads, Step(u) PROVE CanGoOn(t)'
    BY <1>1, <2>1, TurnStays DEF IInv
  <2>2. CASE UNCHANGED walkVars
    BY <1>1, <2>2 DEF CanGoOn, Mine, At, Released, walkVars
  <2> QED
    BY <1>1, <2>1, <2>2 DEF Next, Finished
<1>2. IInv /\ [Next]_walkVars => [\A t \in Threads : CanGoOn(t) => CanGoOn(t)' \/ Step(t)]_walkVars
  BY <1>1
<1> QED
  BY <1>2, Invariant, PTL DEF SafeSpec, NobodyIsRobbed

LEMMA Stages ==
  \A n : /\ StageAt("arrive", n) = 0 /\ StageAt("out", n) = 0 /\ StageAt("zero", n) = 1
         /\ StageAt("spin", n) = 2 /\ StageAt("open", n) = 2 + n
         /\ StageAt("kernel", n) = N + 3 /\ StageAt("leave", n) = N + 4
         /\ StageAt("full", n) = N + 5 /\ StageAt("spin2", n) = N + 6
         /\ StageAt("reopen", n) = N + 6 + n
BY DEF StageAt

LEMMA StepAdvances ==
  ASSUME TypeOK, Rewound, NEW t \in Threads, Step(t)
  PROVE  Advances(t)
<1>1. next[t] \in 0 .. N /\ N \in Nat
  BY DEF TypeOK
<1>2. CASE AsyncKernel(t) \/ Return(t)
  <2>1. pos'[t] = pos[t] + 1
    BY <1>2 DEF AsyncKernel, Return, MoveTo, TypeOK
  <2> QED BY <2>1 DEF Advances
<1>3. CASE Flag(t)
  <2>1. /\ pos'[t] = pos[t] /\ pc'[t] = pc[t] /\ next'[t] = next[t] + 1
        /\ pc[t] \in {"open", "reopen"}
    BY <1>3 DEF Flag, TypeOK
  <2> QED BY <1>1, <2>1, Stages DEF Advances, Stage
<1>4. CASE ~AsyncKernel(t) /\ ~Return(t) /\ ~Flag(t)
  <2>1. pos'[t] = pos[t]
    BY <1>4 DEF Step, Arrive, Store, Enter, SyncKernel, Leave, Goto
  <2>2. \/ pc[t] = "arrive" /\ pc'[t] \in {"zero", "spin"}
        \/ pc[t] = "zero" /\ pc'[t] = "open" /\ next'[t] = next[t]
        \/ pc[t] \in {"open", "spin"} /\ pc'[t] = "kernel"
        \/ pc[t] = "kernel" /\ pc'[t] = "leave"
        \/ pc[t] = "leave" /\ pc'[t] \in {"full", "spin2"}
        \/ pc[t] = "full" /\ pc'[t] = "reopen" /\ next'[t] = next[t]
    BY <1>4 DEF Step, Arrive, Store, Enter, SyncKernel, Leave, Goto, TypeOK
  <2> QED BY <1>1, <2>1, <2>2, Stages DEF Advances, Stage
<1> QED
  BY <1>2, <1>3, <1>4

\* How far a thread has come is bounded.
LEMMA StageRange ==
  TypeOK => \A t \in Threads : pos[t] \in 1 .. WalkLength + 1 /\ Stage(t) \in 0 .. 2 * N + 6
<1> SUFFICES ASSUME TypeOK, NEW t \in Threads PROVE Stage(t) \in 0 .. 2 * N + 6
  BY DEF TypeOK
<1>1. pc[t] \in Points /\ next[t] \in 0 .. N /\ N \in Nat
  BY DEF TypeOK
<1>2. \/ Stage(t) \in {0, 1, 2} \/ Stage(t) \in {N + 3, N + 4, N + 5, N + 6}
      \/ Stage(t) = 2 + next[t] \/ Stage(t) = N + 6 + next[t]
  BY <1>1, Stages DEF Points, Stage
<1>3. next[t] \in Nat /\ next[t] <= N
  BY <1>1
<1>4. CASE Stage(t) \in {0, 1, 2}
  BY <1>1, <1>4
<1>5. CASE Stage(t) \in {N + 3, N + 4, N + 5, N + 6}
  BY <1>1, <1>5
<1>6. CASE Stage(t) = 2 + next[t]
  BY <1>1, <1>3, <1>6
<1>7. CASE Stage(t) = N + 6 + next[t]
  BY <1>1, <1>3, <1>7
<1> QED
  BY <1>2, <1>4, <1>5, <1>6, <1>7

\* Every step brings a thread on in its operation or to the next, and there are
\* boundedly many stages: with PassDoesNotDeadlock, a pass of which some thread
\* that can go on always does ends.
THEOREM PassAdvances == SafeSpec => NoCircle
<1>1. ASSUME OInv, Next, ~UNCHANGED walkVars
      PROVE  \E t \in Threads :
               /\ Advances(t)
               /\ \A u \in Threads \ {t} : pos'[u] = pos[u] /\ Stage(u)' = Stage(u)
  <2>1. PICK t \in Threads : Step(t)
    BY <1>1 DEF Next, Finished
  <2>2. \A u \in Threads \ {t} : pos'[u] = pos[u] /\ pc'[u] = pc[u] /\ next'[u] = next[u]
    BY <1>1, <2>1, OthersStay DEF OInv, IInv
  <2>3. \A u \in Threads \ {t} : Stage(u)' = Stage(u)
    BY <2>2 DEF Stage
  <2> QED
    BY <1>1, <2>1, <2>2, <2>3, StepAdvances DEF OInv, IInv
<1>2. OInv /\ [Next]_walkVars =>
        [\E t \in Threads :
           /\ Advances(t)
           /\ \A u \in Threads \ {t} : pos'[u] = pos[u] /\ Stage(u)' = Stage(u)]_walkVars
  BY <1>1
<1>3. SafeSpec => [](\A t \in Threads : pos[t] \in 1 .. WalkLength + 1 /\ Stage(t) \in 0 .. 2 * N + 6)
  BY StageRange, TypeCorrect, PTL
<1> QED
  BY <1>2, <1>3, OpeningInvariant, PTL DEF SafeSpec, NoCircle
=============================================================================
