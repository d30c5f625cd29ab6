------------------------------ MODULE SlimLatch ------------------------------
(***************************************************************************)
(* The atomic operations of `slim_latch` (common/common.hpp), one operator *)
(* per access of shared memory, as functions from the latch before to the  *)
(* latch after.  The modules that use a latch decide which thread performs *)
(* which access and when; no operator here is more than one atomic step.   *)
(*                                                                         *)
(* A latch is a record: `gc` is global_counter, `tc` is thread_count and   *)
(* `flags` is the set of the indices whose thread_flags entry is set.      *)
(* global_counter is a std::atomic<uint64_t>: it wraps.  MaxCount stands   *)
(* for its largest value, 2^64 - 1.                                        *)
(***************************************************************************)
EXTENDS Naturals

CONSTANT MaxCount    \* largest value of global_counter

ASSUME MaxCountAssumption == MaxCount \in Nat \ {0}

Counter == 0 .. MaxCount

Latch == [gc : Counter, tc : Counter, flags : SUBSET Nat]

\* A latch as its default constructor leaves it.
FreshLatch == [gc |-> 0, tc |-> 0, flags |-> {}]

-----------------------------------------------------------------------------
(* reset(count): thread_count and global_counter are stored first, then    *)
(* the flags are cleared one at a time.  (A variant, here and in the other *)
(* modules, is the definition below it with a bug that the properties must *)
(* tell from the code; no specification uses one.)                         *)

\* Variant: one arrival too many is expected.
ResetCounterPlusOne(l, count) == [gc |-> count + 1, tc |-> count, flags |-> l.flags]

ResetCounter(l, count) == [gc |-> count, tc |-> count, flags |-> l.flags]

ClearFlag(l, i) == [l EXCEPT !.flags = @ \ {i}]

-----------------------------------------------------------------------------
(* arrive_and_wait and arrive_and_wait_second: one fetch_sub or fetch_add. *)
(* The value either returns is the counter before the step.                *)

FetchSub(l) == [l EXCEPT !.gc = IF @ = 0 THEN MaxCount ELSE @ - 1]

FetchAdd(l) == [l EXCEPT !.gc = IF @ = MaxCount THEN 0 ELSE @ + 1]

-----------------------------------------------------------------------------
(* count_down() and count_up(): one store of the counter, then the flags   *)
(* are set one at a time.                                                  *)

StoreZero(l) == [l EXCEPT !.gc = 0]

StoreFull(l) == [l EXCEPT !.gc = l.tc]

\* Variant: the loop starts at one.
SetFlagOffByOne(l, i) == [l EXCEPT !.flags = @ \cup {i + 1}]

SetFlag(l, i) == [l EXCEPT !.flags = @ \cup {i}]

-----------------------------------------------------------------------------
(* Loads.                                                                  *)

\* Variants: the open comes one arrival early; the ticket compared is the one
\* after the subtraction, which nobody but an extra thread would see.
LastToArriveEarly(l) == l.gc <= 2
LastToArriveMissed(l) == l.gc = 0

\* arrive_and_wait: the caller drew the last ticket and must count_down().
LastToArrive(l) == l.gc = 1

\* Variant: the test of the first phase, copied to the second.
LastToLeaveCopied(l) == l.gc = 1

\* arrive_and_wait_second: the caller must count_up().
LastToLeave(l) == l.gc = l.tc - 1

\* Variant: the spin waits for the flag to be clear.
ReleasedInverted(l, i) == i \notin l.flags

\* The spin on one's own flag ends.
Released(l, i) == i \in l.flags
=============================================================================
