---------------------------- MODULE MemoryMapping ----------------------------
(***************************************************************************)
(* How a model<config> lays the buffers of its operations out in its arena *)
(* (common/model.hpp): collect_required_bytes computes the arena's size at *)
(* compile time, memory.init allocates it, and memory_mapper claims one    *)
(* buffer for each operation, in the order of llama_op_types               *)
(* (cpu/thread_pool.hpp).  The constructor does this once; model::init     *)
(* does it again.                                                          *)
(*                                                                         *)
(* The arena is a MemoryBuffer of its own.                                 *)
(***************************************************************************)
EXTENDS MemoryBuffer, Sequences

CONSTANTS Arena,          \* the model's memory_buffer
          OpOrder,        \* the operations, in the order of llama_op_types
          PerBlockAlloc,  \* those whose alc_type is per_block_alloc
          Bufferless,     \* those whose total_required_bytes is 0
          BlockCount,     \* model_traits_type::block_count
          CacheLine,      \* the 64 to which core_traits rounds byte sizes
          ByteSizes,      \* how many bytes a tensor can have
          MaxMappings     \* bound: the constructor and calls of model::init

Ops == {OpOrder[i] : i \in DOMAIN OpOrder}

\* The two roundings: cpu_alignment is 16, 32 or 64.
ASSUME MappingAssumption == /\ Arena \in Buffers
                            /\ OpOrder \in Seq(Ops)
                            /\ MaxMappings \in Nat
                            /\ CacheLine % Alignment = 0
                            /\ CacheLine \in Nat \ {0} /\ CacheLine <= MaxSize
                            /\ \A n \in ByteSizes : n \in Nat /\ n + CacheLine <= MaxSize

\* A model has blocks, and uint64_t is ample for the sum of its operations'
\* bytes.
ASSUME SumAssumption == /\ BlockCount \in Nat \ {0}
                        /\ Len(OpOrder) * (MaxSize * BlockCount) < Modulus

VARIABLES bytes,          \* total_byte_size of the operations that have a buffer
          data,           \* core.data of each operation
          mapping,        \* how many times the buffers have been mapped
          at              \* the operation that memory_mapper is at

vars == <<bufVars, bytes, data, mapping, at>>

NullPtr == [block |-> Null, at |-> 0]

\* Variant: byte sizes are not rounded at compile time.
ExactBytes(o) == IF o \in Bufferless THEN 0 ELSE bytes[o]

\* total_required_bytes of operation o.
TotalRequiredBytes(o) == IF o \in Bufferless THEN 0 ELSE RoundUp(bytes[o], CacheLine)

Multiplier(o) == IF o \in PerBlockAlloc THEN BlockCount ELSE 1

\* What operation i adds to collect_required_bytes, and the sum impl<i> of the
\* first i of them.
Summand == [i \in DOMAIN OpOrder |-> TotalRequiredBytes(OpOrder[i]) * Multiplier(OpOrder[i])]

impl[i \in 0 .. Len(OpOrder)] == IF i = 0 THEN 0 ELSE impl[i - 1] + Summand[i]

CollectRequiredBytes == impl[Len(OpOrder)] % Modulus

-----------------------------------------------------------------------------

Init == /\ BufInit
        /\ bytes \in [Ops \ Bufferless -> ByteSizes]
        /\ data = [o \in Ops |-> NullPtr]
        /\ mapping = 0 /\ at = Len(OpOrder) + 1

Idle == at > Len(OpOrder)

\* memory.init(total_required_bytes), in the constructor or in model::init.
Allocate == /\ Idle /\ mapping < MaxMappings
            /\ InitBuffer(Arena, CollectRequiredBytes)
            /\ mapping' = mapping + 1 /\ at' = 1
            /\ UNCHANGED <<bytes, data>>

\* Variant: a null pointer is not stored.
MapBufferIfClaimed ==
  LET o == OpOrder[at]
  IN /\ TotalRequiredBytes(o) > 0
     /\ \/ /\ Claim(Arena, TotalRequiredBytes(o))
           /\ data' = [data EXCEPT ![o] = [block |-> buf[Arena].data, at |-> buf[Arena].offset]]
        \/ /\ ~Fits(Arena, TotalRequiredBytes(o))
           /\ UNCHANGED <<bufVars, data>>

\* memory_mapper of an operation that needs bytes: the pointer it is given is
\* stored, also when it is null.
MapBuffer ==
  LET o == OpOrder[at]
  IN /\ TotalRequiredBytes(o) > 0
     /\ \/ /\ Claim(Arena, TotalRequiredBytes(o))
           /\ data' = [data EXCEPT ![o] = [block |-> buf[Arena].data, at |-> buf[Arena].offset]]
        \/ /\ ~Fits(Arena, TotalRequiredBytes(o))
           /\ data' = [data EXCEPT ![o] = NullPtr]
           /\ UNCHANGED bufVars

\* memory_mapper of an operation that needs none.
SkipBuffer == TotalRequiredBytes(OpOrder[at]) = 0 /\ UNCHANGED <<bufVars, data>>

Map == /\ ~Idle
       /\ MapBuffer \/ SkipBuffer
       /\ at' = at + 1
       /\ UNCHANGED <<bytes, mapping>>

\* The program may stop calling.
Next == Allocate \/ Map

Spec == Init /\ [][Next]_vars

-----------------------------------------------------------------------------
(* Properties.                                                             *)

\* The types of the variables.
TypeOK == /\ bytes \in [Ops \ Bufferless -> ByteSizes]
          /\ data \in [Ops -> [block : {Null} \cup Blocks, at : 0 .. MaxSize]]
          /\ mapping \in 0 .. MaxMappings
          /\ at \in 1 .. Len(OpOrder) + 1

Mapped(o) == TotalRequiredBytes(o) > 0 /\ data[o].block = buf[Arena].data

\* What the compile-time sum promises the constructor: when it has mapped the
\* operations in a block that could be allocated, all that need bytes have a
\* buffer there, although the sum rounds to cache lines and the claims to
\* cpu_alignment.
ConstructionFits == Idle /\ mapping = 1 /\ buf[Arena].data # Null =>
                      \A o \in Ops : TotalRequiredBytes(o) > 0 => Mapped(o)

\* Two operations never write the same bytes, and none writes beyond the
\* arena: not while they are being mapped, and not after any number of
\* mappings.
BuffersApart ==
  buf[Arena].data # Null =>
    /\ \A o \in Ops : Mapped(o) => data[o].at + bytes[o] <= buf[Arena].size
    /\ \A o, p \in Ops : o # p /\ Mapped(o) /\ Mapped(p) =>
                           \/ data[o].at + bytes[o] <= data[p].at
                           \/ data[p].at + bytes[p] <= data[o].at

\* When a mapping is over no operation is left with a buffer in a block that
\* was deallocated.
NoStaleBuffer == Idle => \A o \in Ops : data[o].block \in live \cup {Null}

\* README.md:42 has a model-wide arena allocator that pre-allocates all memory
\* up front: whenever a mapping is over, and no allocation has failed, all
\* operations that need bytes have a buffer.
EverythingIsMapped == Idle /\ allocs = mapping /\ mapping > 0 =>
                        \A o \in Ops : TotalRequiredBytes(o) > 0 => Mapped(o)

-----------------------------------------------------------------------------
(* What makes BuffersApart, NoStaleBuffer and ConstructionFits inductive.  *)

ReservedApart ==
  buf[Arena].data # Null =>
    /\ \A o \in Ops : Mapped(o) =>
         /\ data[o].at + TotalRequiredBytes(o) <= buf[Arena].size
         /\ data[o].at + TotalRequiredBytes(o) <= buf[Arena].offset
    /\ \A o, p \in Ops : o # p /\ Mapped(o) /\ Mapped(p) =>
         \/ data[o].at + TotalRequiredBytes(o) <= data[p].at
         \/ data[p].at + TotalRequiredBytes(p) <= data[o].at

\* The operations that memory_mapper has dealt with hold no older block, none
\* holds a block that has yet to be allocated, and those that need no bytes
\* never hold one.
DealtWith == /\ \A i \in DOMAIN OpOrder :
                  i < at => data[OpOrder[i]].block \in {Null, buf[Arena].data}
             /\ \A o \in Ops : /\ data[o].block <= allocs
                               /\ TotalRequiredBytes(o) = 0 => data[o].block = Null

\* Until it is mapped for the first time the arena is as it was made; then the
\* operations dealt with have claimed no more than they added to the sum, and
\* those that need bytes have them.
FirstMapping ==
  /\ mapping = 0 => Idle /\ buf[Arena].data = Null /\ buf[Arena].offset = 0
  /\ mapping = 1 =>
       /\ buf[Arena].size = impl[Len(OpOrder)]
       /\ buf[Arena].offset <= impl[at - 1]
       /\ buf[Arena].data # Null =>
            \A i \in DOMAIN OpOrder :
              i < at /\ TotalRequiredBytes(OpOrder[i]) > 0 => Mapped(OpOrder[i])

MapIInv == BufIInv /\ TypeOK /\ ReservedApart /\ DealtWith
=============================================================================
