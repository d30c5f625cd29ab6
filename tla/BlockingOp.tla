----------------------------- MODULE BlockingOp -----------------------------
(***************************************************************************)
(* One blocking operation, once, by every thread of the pool: the          *)
(* thread_impl that thread_function has for operations with a sync_flag    *)
(* (cpu/thread_pool.hpp), with slim_latch's two waits inlined at the grain *)
(* of single atomic accesses:                                              *)
(*                                                                         *)
(*     sync_flag_start[block].arrive_and_wait(thread_index);               *)
(*     kernel_dispatcher<...>::impl( *this);                               *)
(*     sync_flag_start[block].arrive_and_wait_second(thread_index);        *)
(*                                                                         *)
(* The latch starts as execution_planner leaves it: reset(thread_count).   *)
(***************************************************************************)
EXTENDS SlimLatch, FiniteSets

CONSTANT N            \* thread_count

ASSUME NAssumption == N \in Nat \ {0} /\ N < MaxCount

VARIABLES latch,      \* sync_flag_start of the operation, in this block
          pc,         \* where each thread is
          next        \* the index x of count_down's or count_up's loop, 0 outside it

vars == <<latch, pc, next>>

Threads == 0 .. N - 1

\* The points of thread_impl at which another thread may run.
Points == {"arrive",     \* before the fetch_sub
           "zero",       \* before count_down's store
           "open",       \* in count_down's loop over the flags
           "spin",       \* waiting for its own flag, first phase
           "kernel",     \* in the kernel
           "leave",      \* before the fetch_add
           "full",       \* before count_up's store
           "reopen",     \* in count_up's loop over the flags
           "spin2",      \* waiting for its own flag, second phase
           "done"}       \* thread_impl has returned

Init == /\ latch = [gc |-> N, tc |-> N, flags |-> {}]
        /\ pc = [t \in Threads |-> "arrive"]
        /\ next = [t \in Threads |-> 0]

Goto(t, p) == pc' = [pc EXCEPT ![t] = p]

\* arrive_and_wait: the fetch_sub and the branch on the value it returns.
Arrive(t) == /\ pc[t] = "arrive"
             /\ latch' = FetchSub(latch)
             /\ Goto(t, IF LastToArrive(latch) THEN "zero" ELSE "spin")
             /\ UNCHANGED next

\* count_down: global_counter.store(0).
CountDownStore(t) == /\ pc[t] = "zero"
                     /\ latch' = StoreZero(latch)
                     /\ Goto(t, "open")
                     /\ UNCHANGED next

\* count_down: one turn of the loop that sets every thread's flag.
CountDownFlag(t) == /\ pc[t] = "open"
                    /\ next[t] < latch.tc
                    /\ latch' = SetFlag(latch, next[t])
                    /\ next' = [next EXCEPT ![t] = @ + 1]
                    /\ UNCHANGED pc

\* count_down returns, and with it arrive_and_wait.
CountDownReturn(t) == /\ pc[t] = "open"
                      /\ next[t] >= latch.tc
                      /\ Goto(t, "kernel")
                      /\ next' = [next EXCEPT ![t] = 0]
                      /\ UNCHANGED latch

\* arrive_and_wait: the spin ends when the thread's own flag is set.
SpinEnds(t) == /\ pc[t] = "spin"
               /\ Released(latch, t)
               /\ Goto(t, "kernel")
               /\ UNCHANGED <<latch, next>>

\* kernel_dispatcher::impl returns.
Kernel(t) == /\ pc[t] = "kernel"
             /\ Goto(t, "leave")
             /\ UNCHANGED <<latch, next>>

\* arrive_and_wait_second: the fetch_add and the branch on what it returns.
Leave(t) == /\ pc[t] = "leave"
            /\ latch' = FetchAdd(latch)
            /\ Goto(t, IF LastToLeave(latch) THEN "full" ELSE "spin2")
            /\ UNCHANGED next

\* count_up: global_counter.store(thread_count).
CountUpStore(t) == /\ pc[t] = "full"
                   /\ latch' = StoreFull(latch)
                   /\ Goto(t, "reopen")
                   /\ UNCHANGED next

\* count_up: one turn of its loop over the flags.
CountUpFlag(t) == /\ pc[t] = "reopen"
                  /\ next[t] < latch.tc
                  /\ latch' = SetFlag(latch, next[t])
                  /\ next' = [next EXCEPT ![t] = @ + 1]
                  /\ UNCHANGED pc

\* count_up returns, and with it arrive_and_wait_second.
CountUpReturn(t) == /\ pc[t] = "reopen"
                    /\ next[t] >= latch.tc
                    /\ Goto(t, "done")
                    /\ next' = [next EXCEPT ![t] = 0]
                    /\ UNCHANGED latch

\* arrive_and_wait_second: the spin on the same flags as in the first phase.
Spin2Ends(t) == /\ pc[t] = "spin2"
                /\ Released(latch, t)
                /\ Goto(t, "done")
                /\ UNCHANGED <<latch, next>>

Step(t) == \/ Arrive(t) \/ CountDownStore(t) \/ CountDownFlag(t) \/ CountDownReturn(t)
           \/ SpinEnds(t) \/ Kernel(t)
           \/ Leave(t) \/ CountUpStore(t) \/ CountUpFlag(t) \/ CountUpReturn(t)
           \/ Spin2Ends(t)

AllDone == \A t \in Threads : pc[t] = "done"

\* Every thread has returned: nothing more happens on this latch.
Finished == AllDone /\ UNCHANGED vars

Next == (\E t \in Threads : Step(t)) \/ Finished

SafeSpec == Init /\ [][Next]_vars

\* The pool's threads are preemptively scheduled std::threads: a thread that
\* can take a step takes one eventually.
Spec == SafeSpec /\ \A t \in Threads : WF_vars(Step(t))

-----------------------------------------------------------------------------
(* What the threads have done, read off their locations.                   *)

Arrived == {t \in Threads : pc[t] # "arrive"}

Inside == {t \in Threads : pc[t] \notin {"arrive", "zero", "open", "spin"}}

Left == {t \in Threads : pc[t] \in {"full", "reopen", "spin2", "done"}}

\* CounterIsExact, OneOpener and RestoreIsLast are inductive together with
\* what the threads' locations say about each other:
\* a thread past the first fetch_sub that is not spinning, and a set flag,
\* are there only once everybody has arrived; while the last arriver has not
\* stored the zero, nobody else can move.
Opened == (latch.flags # {} \/ \E t \in Threads : pc[t] \notin {"arrive", "spin"})
            => Arrived = Threads

ZeroIsAlone == \A t \in Threads : pc[t] = "zero" =>
                 /\ latch.flags = {}
                 /\ \A u \in Threads \ {t} : pc[u] = "spin"

-----------------------------------------------------------------------------
(* Properties.                                                             *)

\* The types of the variables.
TypeOK == /\ latch \in [gc : Counter, tc : {N}, flags : SUBSET Threads]
          /\ pc \in [Threads -> Points]
          /\ next \in [Threads -> 0 .. N]

\* No thread enters the kernel of a blocking operation before every thread
\* of the pool has arrived at it (arrive_and_wait before the kernel).
StartBarrier == Inside # {} => Arrived = Threads

\* The counter is exact at every moment: the fetch_subs done minus the
\* fetch_adds done.  In particular the plain stores of count_down and
\* count_up never overwrite an arrival they did not see, and the counter
\* never wraps below zero.
CounterIsExact == latch.gc + Cardinality(Arrived) = N + Cardinality(Left)

\* Exactly one thread draws the last ticket of each phase: count_down and
\* count_up are never run by two threads of one operation.
OneOpener == \A t, u \in Threads :
               /\ {pc[t], pc[u]} \subseteq {"zero", "open"} => t = u
               /\ {pc[t], pc[u]} \subseteq {"full", "reopen"} => t = u

\* The last thread to leave is the one that restores the counter: while
\* count_up runs every thread has done its fetch_add.
RestoreIsLast == \A t \in Threads : pc[t] \in {"full", "reopen"} => Left = Threads

\* The inductive invariant.
IInv == /\ TypeOK /\ CounterIsExact /\ OneOpener /\ RestoreIsLast
        /\ Opened /\ ZeroIsAlone

\* Every thread of the pool gets through the operation (nobody spins forever
\* on a flag that is not set).
EveryoneReturns == <>AllDone

\* The latch implements the rendezvous.
Abstract == INSTANCE Rendezvous WITH arrived <- Arrived, passed <- Inside

ImplementsRendezvous == Abstract!Spec

\* README.md:55 has each blocking operation end at a second synchronization
\* point: a thread that is past it knows that no thread is still in the
\* kernel.  The code's second wait is on flags that the first one set.
EndBarrier == \A t, u \in Threads : pc[t] = "done" => u \in Left
=============================================================================
