---------------------------- MODULE MemoryBuffer ----------------------------
(***************************************************************************)
(* memory_buffer<config> (common/memory_buffer.hpp): an aligned block from *)
(* which memory is claimed front to back, and the allocator it uses        *)
(* (common/allocator.hpp).  Several buffers stand next to each other,      *)
(* because a buffer can be moved to another.                               *)
(*                                                                         *)
(* The configuration has exceptions off, as tests/vs-llama/main.cpp does:  *)
(* a claim that does not fit returns a null pointer.                       *)
(***************************************************************************)
EXTENDS Integers, FiniteSets

CONSTANTS Buffers,
          Alignment,      \* cpu_alignment
          Modulus,        \* 2^64: the arithmetic of uint64_t
          MaxSize,        \* no size and no amount is larger
          MaxBlocks       \* bound: how many blocks the allocator gives

\* The width is ample: the sizes are those of models, not of addresses.
ASSUME BufferAssumption ==
         /\ Alignment \in Nat \ {0} /\ Modulus \in Nat /\ MaxSize \in Nat
         /\ 2 * MaxSize + Alignment <= Modulus
         /\ MaxBlocks \in Nat

VARIABLES buf,      \* the members data_val, size_val and current_offset
          live,     \* the blocks that are allocated
          allocs,   \* how many blocks have been allocated so far
          claims    \* what has been claimed from the blocks that are allocated

bufVars == <<buf, live, allocs, claims>>

\* A block stands for its address; no address is used twice.
Null == 0

Blocks == 1 .. MaxBlocks

NewBuffer == [data |-> Null, size |-> 0, offset |-> 0]

\* Variants: nothing is added before; nothing is done.
RoundDown(value, multiple) == value - (value % multiple)

RoundNot(value, multiple) == value

\* roundUpToMultiple, for a multiple that is a power of two: the bits below
\* it are cleared, in unsigned arithmetic.
RoundUp(value, multiple) ==
  LET sum == (value + (multiple - 1)) % Modulus IN sum - (sum % multiple)

Aligned(amount) == RoundUp(amount, Alignment)

-----------------------------------------------------------------------------

BufInit == /\ buf = [b \in Buffers |-> NewBuffer]
           /\ live = {} /\ allocs = 0 /\ claims = {}

\* What goes with block k when it is deallocated.
Kept(k) == {c \in claims : c.block # k}

\* init: clear what there is, then allocate.  The allocator returns null for
\* no bytes, and when there is no memory; the size is stored all the same,
\* and the offset stays what it is.
InitBuffer(b, size) ==
  /\ allocs < MaxBlocks /\ size \in 0 .. MaxSize
  /\ \E new \in {Null} \cup (IF size > 0 THEN {allocs + 1} ELSE {}) :
       /\ buf' = [buf EXCEPT ![b].data = new, ![b].size = size]
       /\ live' = (live \ {buf[b].data}) \cup ({new} \ {Null})
       /\ allocs' = IF new = Null THEN allocs ELSE new
  /\ claims' = Kept(buf[b].data)

\* clear, for a block that is there: it does nothing without one.
Clear(b) == /\ buf[b].data # Null
            /\ buf' = [buf EXCEPT ![b].data = Null, ![b].size = 0]
            /\ live' = live \ {buf[b].data}
            /\ claims' = Kept(buf[b].data)
            /\ UNCHANGED allocs

\* ~memory_buffer, and a new buffer in the place of the old one.
Renew(b) == /\ buf' = [buf EXCEPT ![b] = NewBuffer]
            /\ live' = live \ {buf[b].data}
            /\ claims' = Kept(buf[b].data)
            /\ UNCHANGED allocs

\* Variant: the test forgets what has been claimed already.
FitsAlone(b, amount) == Aligned(amount) <= buf[b].size

\* The test of claim_memory.
Fits(b, amount) == (buf[b].offset + Aligned(amount)) % Modulus <= buf[b].size

\* Memory at the offset of b; the first component tells two claims apart.
Claimed(b, amount) ==
  [number |-> Cardinality({c \in claims : c.block = buf[b].data}),
   block  |-> buf[b].data, at |-> buf[b].offset, amount |-> amount]

\* claim_memory that returns data_val + current_offset.  Without a block that
\* is no memory, although it need not be the null pointer; nor is it when no
\* byte was asked for.
Claim(b, amount) ==
  /\ Fits(b, amount)
  /\ buf' = [buf EXCEPT ![b].offset = (@ + Aligned(amount)) % Modulus]
  /\ claims' = IF buf[b].data = Null \/ amount = 0 THEN claims
               ELSE claims \cup {Claimed(b, amount)}
  /\ UNCHANGED <<live, allocs>>

\* Variant: the pointer is copied, not exchanged.
MoveCopiesData(b, c) == /\ b # c
                        /\ buf' = [buf EXCEPT ![b] = buf[c],
                                              ![c].size = buf[b].size,
                                              ![c].offset = buf[b].offset]
                        /\ UNCHANGED <<live, allocs, claims>>

\* Variant: the offset is left out of the exchange.
MoveKeepsOffset(b, c) ==
  /\ b # c
  /\ buf' = [buf EXCEPT ![b] = [buf[c] EXCEPT !.offset = buf[b].offset],
                        ![c] = [buf[b] EXCEPT !.offset = buf[c].offset]]
  /\ UNCHANGED <<live, allocs, claims>>

\* Move assignment (and the move constructor, whose target is a new buffer)
\* exchanges the members.
MoveAssign(b, c) == /\ b # c
                    /\ buf' = [buf EXCEPT ![b] = buf[c], ![c] = buf[b]]
                    /\ UNCHANGED <<live, allocs, claims>>

BufNext == \E b \in Buffers :
             \/ \E size \in 0 .. MaxSize : InitBuffer(b, size)
             \/ \E amount \in 0 .. MaxSize : Claim(b, amount)
             \/ \E c \in Buffers : MoveAssign(b, c)
             \/ Clear(b)
             \/ Renew(b)

BufSpec == BufInit /\ [][BufNext]_bufVars

-----------------------------------------------------------------------------
(* Properties.                                                             *)

\* The types of the variables.
BufTypeOK ==
  /\ buf \in [Buffers -> [data : {Null} \cup Blocks, size : 0 .. MaxSize,
                          offset : 0 .. MaxSize]]
  /\ allocs \in 0 .. MaxBlocks
  /\ live \subseteq 1 .. allocs
  /\ \A c \in claims : /\ c.block \in live
                       /\ c.at \in 0 .. MaxSize /\ c.amount \in 0 .. MaxSize

\* Every allocated block is held by exactly one buffer and no buffer holds a
\* block that was deallocated: moves, clears and re-initialisations neither
\* leak a block nor deallocate it twice.
OneOwner == /\ \A b \in Buffers : buf[b].data \in live \cup {Null}
            /\ \A b, c \in Buffers : b # c /\ buf[b].data = buf[c].data => buf[b].data = Null
            /\ \A k \in live : \E b \in Buffers : buf[b].data = k

\* Every claim lies within the block of its buffer, wherever the buffer has
\* been moved.
ClaimsInside == \A c \in claims : \A b \in Buffers :
                  buf[b].data = c.block => c.at + c.amount <= buf[b].size

\* No byte is handed out twice while its block lives.
ClaimsApart == \A c, d \in claims :
                 c # d /\ c.block = d.block => \/ c.at + c.amount <= d.at
                                               \/ d.at + d.amount <= c.at

\* Every claim begins at a multiple of cpu_alignment.
ClaimsAligned == \A c \in claims : c.at % Alignment = 0

-----------------------------------------------------------------------------
(* What makes these inductive: the offset is behind everything that has    *)
(* been claimed from the block, however often the buffer was moved, and    *)
(* the next claim begins there.                                            *)

OffsetIsBehind == \A c \in claims : \A b \in Buffers :
                    buf[b].data = c.block => c.at + c.amount <= buf[b].offset

OffsetAligned == \A b \in Buffers : buf[b].offset % Alignment = 0

BufIInv == /\ BufTypeOK /\ OneOwner /\ ClaimsInside /\ ClaimsApart /\ ClaimsAligned
           /\ OffsetIsBehind /\ OffsetAligned
=============================================================================
