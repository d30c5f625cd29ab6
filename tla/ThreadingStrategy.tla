-------------------------- MODULE ThreadingStrategy --------------------------
(***************************************************************************)
(* One pass of the pool's threads over the graph: every thread runs        *)
(* threading_strategy::impl, which executes the global_input list once,    *)
(* the per_block list once for each block and the global_output list once, *)
(* in that order (cpu/thread_pool.hpp).  The threads meet only at the      *)
(* latches of the blocking operations, one latch for each operation and    *)
(* block, which work as in BlockingOp.                                     *)
(*                                                                         *)
(* The lists and the graph are parameters: nothing here depends on which   *)
(* operations a model has.                                                 *)
(***************************************************************************)
EXTENDS SlimLatch, Integers, Sequences, FiniteSets

CONSTANTS N,              \* thread_count
          BlockCount,     \* model_traits_type::block_count
          GlobalInput,    \* the lists of threading_strategy
          PerBlock,
          GlobalOutput,
          Blocking,       \* the operations that have latches
          Inputs,         \* for each operation, those whose buffers it reads
          Carried         \* the pairs of an operation and an input that it reads
                          \* as the block before has left it

ASSUME StrategyAssumption ==
         /\ N \in Nat \ {0} /\ N < MaxCount
         /\ BlockCount \in Nat
         /\ \A list \in {GlobalInput, PerBlock, GlobalOutput} : Len(list) \in Nat

VARIABLES latch,          \* sync_flag_start[block] of each blocking operation
          pos,            \* how far each thread has come in the walk
          pc,             \* where it is in the operation at that position
          next            \* the loop index of count_down and count_up

walkVars == <<latch, pos, pc, next>>

Threads == 0 .. N - 1

-----------------------------------------------------------------------------
(* The walk: impl_global_input, impl_per_block for every block,            *)
(* impl_global_output, unrolled.  Operations outside the blocks use the    *)
(* default latch index, 0.                                                 *)

FirstInBlocks == Len(GlobalInput) + 1

LastInBlocks == Len(GlobalInput) + BlockCount * Len(PerBlock)

WalkLength == LastInBlocks + Len(GlobalOutput)

Walk ==
  [i \in 1 .. WalkLength |->
     IF i < FirstInBlocks THEN [op |-> GlobalInput[i], block |-> 0]
     ELSE IF i > LastInBlocks THEN [op |-> GlobalOutput[i - LastInBlocks], block |-> 0]
     ELSE [op    |-> PerBlock[((i - FirstInBlocks) % Len(PerBlock)) + 1],
           block |-> (i - FirstInBlocks) \div Len(PerBlock)]]

\* The positions that have a latch, and the latches.
BlockingAt == {i \in 1 .. WalkLength : Walk[i].op \in Blocking}

Slots == {Walk[i] : i \in BlockingAt}

\* No two positions share a latch: an operation that occurs twice in a block
\* (as the filler of the per_block list does) is not a blocking one.
ASSUME OneLatchEach == \A i, j \in BlockingAt : Walk[i] = Walk[j] => i = j

Executed == {Walk[i].op : i \in 1 .. WalkLength}

\* An input of a blocking operation that the walk executes comes before it in
\* the same block, and does not come again until another blocking operation
\* has begun.
ASSUME InputsComeFirst ==
         \A p \in BlockingAt : \A i \in Inputs[Walk[p].op] \cap Executed :
           \E j \in 1 .. p - 1 : Walk[j] = [op |-> i, block |-> Walk[p].block]

ASSUME InputsAreBehind ==
         \A p \in BlockingAt : \A j \in p .. WalkLength :
           Walk[j].op \in Inputs[Walk[p].op] => \E k \in BlockingAt : p < k /\ k <= j

-----------------------------------------------------------------------------

Points == {"arrive", "zero", "open", "spin", "kernel", "leave", "full", "reopen", "spin2",
           "out"}      \* not in a pass, or through with it

At(t) == Walk[pos[t]]

Mine(t) == latch[At(t)]

Change(t, l) == latch' = [latch EXCEPT ![At(t)] = l]

Goto(t, p) == pc' = [pc EXCEPT ![t] = p] /\ UNCHANGED pos

\* The first point of the operation at position i.
EntryOf(i) == IF i > WalkLength THEN "out"
              ELSE IF Walk[i].op \in Blocking THEN "arrive" ELSE "kernel"

\* Thread t starts on position i of the walk.
MoveTo(t, i) == /\ pos' = [pos EXCEPT ![t] = i]
                /\ pc' = [pc EXCEPT ![t] = EntryOf(i)]

\* execution_planner has reset every latch.
PlannedLatches == [s \in Slots |-> [gc |-> N, tc |-> N, flags |-> {}]]

Init == /\ latch = PlannedLatches
        /\ pos = [t \in Threads |-> 1]
        /\ pc = [t \in Threads |-> EntryOf(1)]
        /\ next = [t \in Threads |-> 0]

Arrive(t) == /\ pc[t] = "arrive"
             /\ Change(t, FetchSub(Mine(t)))
             /\ Goto(t, IF LastToArrive(Mine(t)) THEN "zero" ELSE "spin")
             /\ UNCHANGED next

\* Variant: count_up stores what count_down stores.
StoreZeroTwice(t) == /\ \/ pc[t] = "zero" /\ Change(t, StoreZero(Mine(t))) /\ Goto(t, "open")
                        \/ pc[t] = "full" /\ Change(t, StoreZero(Mine(t))) /\ Goto(t, "reopen")
                     /\ UNCHANGED next

\* The store with which count_down and count_up begin.
Store(t) == /\ \/ pc[t] = "zero" /\ Change(t, StoreZero(Mine(t))) /\ Goto(t, "open")
               \/ pc[t] = "full" /\ Change(t, StoreFull(Mine(t))) /\ Goto(t, "reopen")
            /\ UNCHANGED next

\* One turn of the loop over the flags, which both have.
Flag(t) == /\ pc[t] \in {"open", "reopen"}
           /\ next[t] < Mine(t).tc
           /\ Change(t, SetFlag(Mine(t), next[t]))
           /\ next' = [next EXCEPT ![t] = @ + 1]
           /\ UNCHANGED <<pos, pc>>

LoopIsOver(t) == next[t] >= Mine(t).tc /\ next' = [next EXCEPT ![t] = 0]

\* arrive_and_wait returns: the loop is over, or the thread's flag is set.
Enter(t) == /\ \/ pc[t] = "open" /\ LoopIsOver(t)
               \/ pc[t] = "spin" /\ Released(Mine(t), t) /\ UNCHANGED next
            /\ Goto(t, "kernel")
            /\ UNCHANGED latch

\* The kernel of a blocking operation returns.
SyncKernel(t) == /\ pc[t] = "kernel"
                 /\ At(t).op \in Blocking
                 /\ Goto(t, "leave")
                 /\ UNCHANGED <<latch, next>>

\* The kernel of any other operation returns, and with it thread_impl.
AsyncKernel(t) == /\ pc[t] = "kernel"
                  /\ At(t).op \notin Blocking
                  /\ MoveTo(t, pos[t] + 1)
                  /\ UNCHANGED <<latch, next>>

Leave(t) == /\ pc[t] = "leave"
            /\ Change(t, FetchAdd(Mine(t)))
            /\ Goto(t, IF LastToLeave(Mine(t)) THEN "full" ELSE "spin2")
            /\ UNCHANGED next

\* arrive_and_wait_second returns, and with it thread_impl.
Return(t) == /\ \/ pc[t] = "reopen" /\ LoopIsOver(t)
                \/ pc[t] = "spin2" /\ Released(Mine(t), t) /\ UNCHANGED next
             /\ MoveTo(t, pos[t] + 1)
             /\ UNCHANGED latch

Step(t) == \/ Arrive(t) \/ Store(t) \/ Flag(t) \/ Enter(t) \/ SyncKernel(t)
           \/ AsyncKernel(t) \/ Leave(t) \/ Return(t)

AllOut == \A t \in Threads : pc[t] = "out"

\* Every thread is through: the pass is over.
Finished == AllOut /\ UNCHANGED walkVars

Next == (\E t \in Threads : Step(t)) \/ Finished

SafeSpec == Init /\ [][Next]_walkVars

\* The threads are preemptively scheduled and the kernels terminate.
Spec == SafeSpec /\ \A t \in Threads : WF_walkVars(Step(t))

-----------------------------------------------------------------------------
(* Properties.                                                             *)

\* The types of the variables.
TypeOK == /\ latch \in [Slots -> [gc : Counter, tc : {N}, flags : SUBSET Threads]]
          /\ pos \in [Threads -> 1 .. WalkLength + 1]
          /\ pc \in [Threads -> Points]
          /\ next \in [Threads -> 0 .. N]
          /\ \A t \in Threads : pos[t] > WalkLength <=> pc[t] = "out"

Waiting == {"arrive", "zero", "open", "spin"}

\* Thread t has got past the start of the blocking operation at position i.
PastStart(t, i) == pos[t] > i \/ (pos[t] = i /\ pc[t] \notin Waiting)

\* The latches keep the threads together: nobody is past the start of a
\* blocking operation that another thread has not come to.
NobodyLapped == \A i \in BlockingAt : \A t, u \in Threads :
                  PastStart(t, i) => pos[u] > i \/ (pos[u] = i /\ pc[u] # "arrive")

\* t is executing the kernel of operation o.
Executing(t, o) == pc[t] = "kernel" /\ At(t).op = o

\* While a thread is in the kernel of a blocking operation no thread is in a
\* kernel that writes one of its inputs: neither one that lags behind and has
\* not finished that input, nor one that has run ahead into the next block.
StableInputs == \A t, u \in Threads : \A o \in Blocking :
                  Executing(t, o) => \A i \in Inputs[o] : ~Executing(u, i)

\* A thread in the kernel of a blocking operation reads what the whole pool has
\* made of its inputs in the same block: every thread has finished each of
\* those that the walk executes.
FreshInputs == \A t \in Threads : pc[t] = "kernel" /\ At(t).op \in Blocking =>
                 \A i \in Inputs[At(t).op] \cap Executed :
                   \E j \in 1 .. pos[t] - 1 :
                     /\ Walk[j] = [op |-> i, block |-> At(t).block]
                     /\ \A u \in Threads : pos[u] > j

\* An operation that comes before an input of its own reads what the block
\* before has made of it, and neither need have latches: ffn_inp adds l_out.
\* While a thread executes it every thread has finished that input wherever it
\* comes before, and none has come to where it is written again.
CarriedIsPrevious ==
  \A t, u \in Threads : \A c \in Carried : \A j \in 1 .. WalkLength :
    Executing(t, c[1]) /\ Walk[j].op = c[2] =>
      /\ j < pos[t] => pos[u] > j
      /\ j > pos[t] => pos[u] < j

\* What it takes: before an operation reads what is carried over, and before
\* that is written again, a blocking operation begins.
CarriedAreApart ==
  \A c \in Carried : \A p, j \in 1 .. WalkLength :
    Walk[p].op = c[1] /\ Walk[j].op = c[2] =>
      /\ j < p => \E k \in BlockingAt : j < k /\ k <= p
      /\ j > p => \E k \in BlockingAt : p < k /\ k < j

\* Thread t has a step that it can take: it is not at a flag that is not set.
CanGoOn(t) == /\ pc[t] # "out"
              /\ pc[t] \in {"spin", "spin2"} => Released(Mine(t), t)

\* The pass cannot deadlock: until all are through, some thread waits for
\* nobody, however far apart the threads are and whatever the lists.
SomebodyGoesOn == AllOut \/ \E t \in Threads : CanGoOn(t)

\* Every thread gets through the whole walk.
EveryoneFinishes == <>AllOut

-----------------------------------------------------------------------------
(* What makes NobodyLapped inductive.                                      *)

\* Only a blocking operation has points at which a thread synchronizes.
Located == \A t \in Threads : pc[t] \notin {"kernel", "out"} => pos[t] \in BlockingAt

\* The threads that have arrived at the blocking operation at position i.
Came(i) == {t \in Threads : pos[t] > i \/ (pos[t] = i /\ pc[t] # "arrive")}

\* Until all have come its counter says how many have, no flag is set, and
\* those that have come spin.
ClosedUntilAll(i) == Came(i) # Threads =>
                       /\ latch[Walk[i]].gc + Cardinality(Came(i)) = N
                       /\ latch[Walk[i]].flags = {}
                       /\ \A t \in Threads : /\ pos[t] <= i
                                             /\ pos[t] = i => pc[t] \in {"arrive", "spin"}

IInv == /\ TypeOK
        /\ Located
        /\ \A i \in BlockingAt : ClosedUntilAll(i)

\* Outside the loops over the flags their index is 0.
Rewound == \A t \in Threads : pc[t] \notin {"open", "reopen"} => next[t] = 0

\* What makes SomebodyGoesOn inductive: when all have come to a blocking
\* operation its flags are set, or one thread is about to set them, and the
\* thread that sets them has set those before its index.
Opening(i) == Came(i) = Threads =>
                \/ latch[Walk[i]].flags = Threads
                \/ \E t \in Threads : pos[t] = i /\ pc[t] \in {"zero", "open"}

OpenedBefore == \A t, u \in Threads : pc[t] = "open" /\ u < next[t] => u \in Mine(t).flags

OInv == /\ IInv /\ Rewound /\ OpenedBefore
        /\ \A i \in BlockingAt : Opening(i)

-----------------------------------------------------------------------------
\* Each latch, seen on its own, goes through exactly the steps of BlockingOp:
\* threads on their way to it have yet to arrive, threads beyond it are done.
LatchAt(i) ==
  INSTANCE BlockingOp
            WITH latch <- latch[Walk[i]],
                 pc    <- [t \in Threads |-> IF pos[t] < i THEN "arrive"
                                             ELSE IF pos[t] > i THEN "done" ELSE pc[t]],
                 next  <- [t \in Threads |-> IF pos[t] = i THEN next[t] ELSE 0]

EachLatchIsUsedOnce ==
  /\ \A i \in BlockingAt : LatchAt(i)!Init
  /\ [][\A i \in BlockingAt : UNCHANGED LatchAt(i)!vars \/ LatchAt(i)!Next]_walkVars
=============================================================================
