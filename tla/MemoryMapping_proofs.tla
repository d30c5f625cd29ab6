------------------------ MODULE MemoryMapping_proofs ------------------------
(***************************************************************************)
(* The buffers of a model's operations never overlap and, between two      *)
(* mappings, none is in a block that was deallocated: for all lists of     *)
(* operations, byte sizes and block counts, and any number of mappings.    *)
(* The size that collect_required_bytes computes does not matter for this; *)
(* that it is enough for the constructor is the last theorem.              *)
(***************************************************************************)
EXTENDS MemoryMapping, MemoryBuffer_proofs, DataInduction

\* What an operation needs is no less than its bytes, and is a size that the
\* arena can be asked for.
LEMMA RequiredBytes ==
  ASSUME TypeOK, NEW o \in Ops
  PROVE  /\ TotalRequiredBytes(o) \in 0 .. MaxSize
         /\ o \notin Bufferless => bytes[o] \in Nat /\ bytes[o] <= TotalRequiredBytes(o)
<1>1. CASE o \in Bufferless
  BY <1>1, BufferAssumption DEF TotalRequiredBytes
<1>2. CASE o \notin Bufferless
  <2>1. bytes[o] \in Nat /\ bytes[o] + CacheLine <= MaxSize
    BY <1>2, MappingAssumption DEF TypeOK
  <2>2. CacheLine \in Nat \ {0} /\ bytes[o] + CacheLine <= Modulus
    BY <2>1, MappingAssumption, BufferAssumption
  <2>3. /\ RoundUp(bytes[o], CacheLine) \in Nat
        /\ bytes[o] <= RoundUp(bytes[o], CacheLine)
        /\ RoundUp(bytes[o], CacheLine) < bytes[o] + CacheLine
    BY <2>1, <2>2, RoundUpIsNext
  <2> QED BY <1>2, <2>1, <2>3, MappingAssumption, BufferAssumption DEF TotalRequiredBytes
<1> QED BY <1>1, <1>2

LEMMA OpAt == ASSUME TypeOK, ~Idle
              PROVE  at \in DOMAIN OpOrder /\ OpOrder[at] \in Ops
  BY MappingAssumption DEF TypeOK, Idle, Ops

\* A mapping uses the arena as a memory_buffer is used.
LEMMA StepIsBufferStep == TypeOK /\ [Next]_vars => [BufNext]_bufVars
<1> SUFFICES ASSUME TypeOK, [Next]_vars PROVE [BufNext]_bufVars
  OBVIOUS
<1>1. CASE Allocate
  <2>1. InitBuffer(Arena, CollectRequiredBytes) /\ CollectRequiredBytes \in 0 .. MaxSize
    BY <1>1 DEF Allocate, InitBuffer
  <2> QED BY <2>1, MappingAssumption DEF BufNext
<1>2. CASE Map
  <2>1. CASE Claim(Arena, TotalRequiredBytes(OpOrder[at]))
    <3>1. TotalRequiredBytes(OpOrder[at]) \in 0 .. MaxSize
      BY <1>2, OpAt, RequiredBytes DEF Map
    <3> QED BY <2>1, <3>1, MappingAssumption DEF BufNext
  <2>2. CASE UNCHANGED bufVars
    BY <2>2
  <2> QED BY <1>2, <2>1, <2>2 DEF Map, MapBuffer, SkipBuffer
<1>3. CASE UNCHANGED vars
  BY <1>3 DEF vars
<1> QED BY <1>1, <1>2, <1>3 DEF Next

-----------------------------------------------------------------------------

LEMMA InitMapping == Init => MapIInv
<1> SUFFICES ASSUME Init PROVE MapIInv
  OBVIOUS
<1>1. BufIInv
  BY InitInvariant DEF Init
<1>2. TypeOK
  BY MappingAssumption, BufferAssumption DEF Init, TypeOK, NullPtr, Null
<1>3. ReservedApart
  BY MappingAssumption DEF Init, BufInit, NewBuffer, ReservedApart, Null
<1>4. DealtWith
  BY DEF Init, BufInit, DealtWith, NullPtr, Null, Ops
<1> QED BY <1>1, <1>2, <1>3, <1>4 DEF MapIInv

\* A new block holds no operation's buffer yet.
LEMMA AllocateMapping == ASSUME MapIInv, Allocate, BufIInv' PROVE MapIInv'
<1>1. /\ data' = data /\ bytes' = bytes /\ mapping < MaxMappings
      /\ mapping' = mapping + 1 /\ at' = 1
  BY DEF Allocate
<1>2. TypeOK'
  BY <1>1, MappingAssumption DEF MapIInv, TypeOK
<1>3. /\ allocs \in Nat /\ allocs' \in Nat /\ allocs <= allocs'
      /\ buf'[Arena].data = Null \/ buf'[Arena].data = allocs + 1
  BY MappingAssumption, BufferAssumption
  DEF Allocate, InitBuffer, MapIInv, BufIInv, BufTypeOK, Null
<1>4. \A o \in Ops : data[o].block <= allocs /\ data[o].block \in Nat
  BY BufferAssumption DEF MapIInv, DealtWith, TypeOK, Null, Blocks
<1>5. ReservedApart'
  <2>1. ASSUME buf'[Arena].data # Null, NEW o \in Ops
        PROVE  ~Mapped(o)'
    BY <1>1, <1>3, <1>4, <2>1 DEF Mapped
  <2> QED BY <2>1 DEF ReservedApart
<1>6. DealtWith'
  <2>1. \A o \in Ops : data'[o].block <= allocs'
    BY <1>1, <1>3, <1>4
  <2>2. \A o \in Ops : TotalRequiredBytes(o)' = 0 => data'[o].block = Null
    BY <1>1 DEF MapIInv, DealtWith, TotalRequiredBytes
  <2> QED BY <1>1, <2>1, <2>2, MappingAssumption DEF DealtWith
<1> QED BY <1>2, <1>5, <1>6 DEF MapIInv

\* An offset and a rounded amount do not wrap around.
LEMMA NoWrap == ASSUME NEW x \in 0 .. MaxSize, NEW y \in Nat, y < MaxSize + Alignment
                PROVE  (x + y) % Modulus = x + y
<1>1. x + y \in Nat /\ x + y < Modulus /\ Modulus \in Nat
  BY BufferAssumption
<1> QED BY <1>1, SMT

\* The next operation's buffer begins where all others end.
LEMMA ClaimMapping ==
  ASSUME MapIInv, BufIInv', ~Idle, at' = at + 1, bytes' = bytes, mapping' = mapping,
         TotalRequiredBytes(OpOrder[at]) > 0,
         Claim(Arena, TotalRequiredBytes(OpOrder[at])),
         data' = [data EXCEPT ![OpOrder[at]] = [block |-> buf[Arena].data,
                                                at    |-> buf[Arena].offset]]
  PROVE  MapIInv'
<1> DEFINE r == OpOrder[at]
           n == TotalRequiredBytes(r)
           a == Aligned(n)
           offset == buf[Arena].offset
           size == buf[Arena].size
<1> USE MappingAssumption, BufferAssumption DEF Null, Blocks
<1>1. /\ at \in DOMAIN OpOrder /\ r \in Ops /\ n \in 0 .. MaxSize
      /\ offset \in 0 .. MaxSize /\ size \in 0 .. MaxSize
      /\ buf[Arena].data \in {Null} \cup Blocks /\ allocs \in Nat
  BY OpAt, RequiredBytes DEF MapIInv, BufIInv, BufTypeOK
<1>2. a \in Nat /\ n <= a /\ a < n + Alignment
  <2> HIDE DEF n
  <2>1. n \in Nat /\ n + Alignment <= Modulus
    BY <1>1
  <2> QED BY <2>1, RoundUpIsNext DEF Aligned
<1> HIDE DEF r, n, a, offset, size
<1>3. (offset + a) % Modulus = offset + a
  <2>1. a < MaxSize + Alignment
    BY <1>1, <1>2
  <2> QED BY <1>1, <1>2, <2>1, NoWrap
<1>4. /\ offset + a <= size
      /\ buf' = [buf EXCEPT ![Arena].offset = offset + a]
      /\ allocs' = allocs
  BY <1>3 DEF Claim, Fits, r, n, a, offset, size
<1>5. /\ buf'[Arena].data = buf[Arena].data /\ buf'[Arena].size = size
      /\ buf'[Arena].offset = offset + a
  BY <1>4 DEF MapIInv, BufIInv, BufTypeOK, size
<1>6. /\ data'[r].at = offset /\ data'[r].block = buf[Arena].data
      /\ \A o \in Ops : o # r => data'[o] = data[o]
  BY <1>1 DEF MapIInv, TypeOK, r, offset
<1>7. TypeOK'
  BY <1>1 DEF MapIInv, TypeOK, Idle, r, offset
<1>8. \A o \in Ops : /\ TotalRequiredBytes(o)' = TotalRequiredBytes(o)
                     /\ TotalRequiredBytes(o) \in 0 .. MaxSize
  BY RequiredBytes DEF MapIInv, TotalRequiredBytes
<1>9. \A o \in Ops : o # r => Mapped(o)' = Mapped(o)
  BY <1>5, <1>6, <1>8 DEF Mapped
<1>10. \A o \in Ops : data[o].at \in 0 .. MaxSize
  BY DEF MapIInv, TypeOK
<1>11. TotalRequiredBytes(r) = n
  BY DEF n
<1>12. ReservedApart'
  <2> SUFFICES ASSUME buf'[Arena].data # Null PROVE ReservedApart'
    BY DEF ReservedApart
  <2>1. \A o \in Ops : o # r /\ Mapped(o)' =>
           /\ data'[o] = data[o]
           /\ data[o].at + TotalRequiredBytes(o) <= size
           /\ data[o].at + TotalRequiredBytes(o) <= offset
    BY <1>5, <1>6, <1>9 DEF MapIInv, ReservedApart, offset, size
  <2>2. ASSUME NEW o \in Ops, Mapped(o)'
        PROVE  /\ data'[o].at + TotalRequiredBytes(o) <= buf'[Arena].size
               /\ data'[o].at + TotalRequiredBytes(o) <= buf'[Arena].offset
    <3>1. CASE o = r
      <4>1. offset + n <= size /\ offset + n <= offset + a
        BY <1>1, <1>2, <1>4
      <4> QED BY <1>5, <1>6, <1>11, <3>1, <4>1
    <3>2. CASE o # r
      <4>1. data[o].at + TotalRequiredBytes(o) <= offset + a
        BY <1>1, <1>2, <1>8, <1>10, <2>1, <2>2, <3>2
      <4> QED BY <1>5, <2>1, <2>2, <3>2, <4>1
    <3> QED BY <3>1, <3>2
  <2>3. ASSUME NEW o \in Ops, NEW p \in Ops, o # p, Mapped(o)', Mapped(p)'
        PROVE  \/ data'[o].at + TotalRequiredBytes(o) <= data'[p].at
               \/ data'[p].at + TotalRequiredBytes(p) <= data'[o].at
    <3>1. CASE o # r /\ p # r
      BY <1>5, <1>6, <1>9, <2>3, <3>1 DEF MapIInv, ReservedApart
    <3>2. CASE o = r
      BY <1>6, <2>1, <2>3, <3>2
    <3>3. CASE p = r
      BY <1>6, <2>1, <2>3, <3>3
    <3> QED BY <3>1, <3>2, <3>3
  <2> QED BY <1>8, <2>2, <2>3 DEF ReservedApart
<1>13. DealtWith'
  <2>1. buf[Arena].data <= allocs
    BY <1>1 DEF MapIInv, BufIInv, BufTypeOK, OneOwner
  <2>2. \A o \in Ops : data'[o].block <= allocs'
    BY <1>4, <1>6, <2>1 DEF MapIInv, DealtWith
  <2>3. \A o \in Ops : TotalRequiredBytes(o)' = 0 => data'[o].block = Null
    BY <1>6, <1>8, <1>11 DEF MapIInv, DealtWith, n, r
  <2>4. ASSUME NEW i \in DOMAIN OpOrder, i < at'
        PROVE  data'[OpOrder[i]].block \in {Null, buf'[Arena].data}
    <3>1. CASE OpOrder[i] = r
      BY <1>5, <1>6, <3>1
    <3>2. CASE OpOrder[i] # r
      <4>1. i < at /\ OpOrder[i] \in Ops
        BY <1>1, <2>4, <3>2 DEF r, Ops
      <4> QED BY <1>5, <1>6, <3>2, <4>1 DEF MapIInv, DealtWith
    <3> QED BY <3>1, <3>2
  <2> QED BY <2>2, <2>3, <2>4 DEF DealtWith
<1> QED BY <1>7, <1>12, <1>13 DEF MapIInv

\* An operation that gets no buffer, and one that needs none.
LEMMA NullMapping ==
  ASSUME MapIInv, BufIInv', ~Idle, at' = at + 1, bytes' = bytes, mapping' = mapping,
         UNCHANGED bufVars,
         \/ data' = [data EXCEPT ![OpOrder[at]] = NullPtr]
         \/ data' = data /\ data[OpOrder[at]].block = Null
  PROVE  MapIInv'
<1> USE MappingAssumption, BufferAssumption DEF Null, Blocks
<1>1. at \in DOMAIN OpOrder /\ OpOrder[at] \in Ops
  BY OpAt DEF MapIInv
<1>2. /\ data'[OpOrder[at]].block = Null
      /\ \A o \in Ops : o # OpOrder[at] => data'[o] = data[o]
  BY <1>1 DEF MapIInv, TypeOK, NullPtr
<1>3. buf' = buf /\ allocs' = allocs
  BY DEF bufVars
<1>4. TypeOK'
  <2>1. NullPtr \in [block : {Null} \cup Blocks, at : 0 .. MaxSize]
    BY DEF NullPtr
  <2>2. data' \in [Ops -> [block : {Null} \cup Blocks, at : 0 .. MaxSize]]
    BY <1>1, <2>1 DEF MapIInv, TypeOK
  <2>3. at' \in 1 .. Len(OpOrder) + 1
    BY <1>1 DEF MapIInv, TypeOK
  <2> QED BY <2>2, <2>3 DEF MapIInv, TypeOK
<1>5. \A o \in Ops : TotalRequiredBytes(o)' = TotalRequiredBytes(o)
  BY DEF TotalRequiredBytes
<1>6. \A o \in Ops : buf[Arena].data # Null /\ Mapped(o)' => Mapped(o) /\ data'[o] = data[o]
  BY <1>2, <1>3, <1>5 DEF Mapped
<1>7. ReservedApart'
  BY <1>3, <1>5, <1>6 DEF MapIInv, ReservedApart
<1>8. DealtWith'
  <2>1. \A o \in Ops : /\ data'[o].block <= allocs'
                       /\ TotalRequiredBytes(o)' = 0 => data'[o].block = Null
    BY <1>2, <1>3, <1>5 DEF MapIInv, DealtWith, BufIInv, BufTypeOK
  <2>2. ASSUME NEW i \in DOMAIN OpOrder, i < at'
        PROVE  data'[OpOrder[i]].block \in {Null, buf'[Arena].data}
    <3>1. CASE OpOrder[i] = OpOrder[at]
      BY <1>2, <3>1
    <3>2. CASE OpOrder[i] # OpOrder[at]
      <4>1. i < at /\ OpOrder[i] \in Ops
        BY <1>1, <2>2, <3>2 DEF Ops
      <4> QED BY <1>2, <1>3, <3>2, <4>1 DEF MapIInv, DealtWith
    <3> QED BY <3>1, <3>2
  <2> QED BY <2>1, <2>2 DEF DealtWith
<1> QED BY <1>4, <1>7, <1>8 DEF MapIInv

LEMMA MapStep == MapIInv /\ [Next]_vars => MapIInv'
<1> SUFFICES ASSUME MapIInv, [Next]_vars PROVE MapIInv'
  OBVIOUS
<1>1. BufIInv'
  BY StepIsBufferStep, NextInvariant DEF MapIInv
<1>2. CASE Allocate
  BY <1>1, <1>2, AllocateMapping
<1>3. CASE Map
  <2>1. ~Idle /\ at' = at + 1 /\ bytes' = bytes /\ mapping' = mapping
    BY <1>3 DEF Map
  <2>2. CASE SkipBuffer
    <3>1. OpOrder[at] \in Ops /\ TotalRequiredBytes(OpOrder[at]) = 0
      BY <2>1, <2>2, OpAt DEF MapIInv, SkipBuffer
    <3>2. data' = data /\ UNCHANGED bufVars /\ data[OpOrder[at]].block = Null
      BY <2>2, <3>1 DEF MapIInv, DealtWith, SkipBuffer
    <3> QED BY <1>1, <2>1, <3>2, NullMapping
  <2>3. CASE MapBuffer
    BY <1>1, <2>1, <2>3, ClaimMapping, NullMapping DEF MapBuffer
  <2> QED BY <1>3, <2>2, <2>3 DEF Map
<1>4. CASE UNCHANGED vars
  BY <1>1, <1>4 DEF vars, bufVars, MapIInv, TypeOK, ReservedApart, DealtWith, Mapped,
                    TotalRequiredBytes
<1> QED BY <1>2, <1>3, <1>4 DEF Next

LEMMA MapInvariant == Spec => []MapIInv
  BY InitMapping, MapStep, PTL DEF Spec

\* The mapping counts and points into OpOrder, every buffer is null or an
\* address in a block that was allocated, and every byte size leaves room to
\* be rounded up, after any number of mappings of any lists of operations.
THEOREM MappingTypeCorrect == Spec => []TypeOK
<1>1. MapIInv => TypeOK
  BY DEF MapIInv
<1> QED BY <1>1, MapInvariant, PTL

-----------------------------------------------------------------------------

\* The constructor and model::init use the arena as a memory_buffer is used:
\* what is proved of claim_memory holds of their claims.
THEOREM MappingImplementsBuffer == Spec => BufSpec
<1>1. Init => BufInit
  BY DEF Init
<1>2. MapIInv => TypeOK
  BY DEF MapIInv
<1>3. TypeOK /\ [Next]_vars => [BufNext]_bufVars
  BY StepIsBufferStep
<1> QED BY <1>1, <1>2, <1>3, MapInvariant, PTL DEF Spec, BufSpec

\* memory_mapper gives no two operations the same bytes, and none bytes beyond
\* the arena.
THEOREM BuffersStayApart == Spec => []BuffersApart
<1>1. ASSUME MapIInv PROVE BuffersApart
  <2> SUFFICES ASSUME buf[Arena].data # Null PROVE BuffersApart
    BY DEF BuffersApart
  <2>1. \A o \in Ops : Mapped(o) => /\ bytes[o] \in Nat
                                    /\ TotalRequiredBytes(o) \in Nat
                                    /\ bytes[o] <= TotalRequiredBytes(o)
                                    /\ data[o].at \in Nat
    <3>1. \A o \in Ops : Mapped(o) => o \notin Bufferless
      BY DEF Mapped, TotalRequiredBytes
    <3>2. \A o \in Ops : data[o].at \in Nat
      BY <1>1, BufferAssumption DEF MapIInv, TypeOK
    <3>3. TypeOK /\ \A n \in 0 .. MaxSize : n \in Nat
      BY <1>1, BufferAssumption DEF MapIInv
    <3>4. ASSUME NEW o \in Ops, Mapped(o)
          PROVE  /\ bytes[o] \in Nat /\ TotalRequiredBytes(o) \in Nat
                 /\ bytes[o] <= TotalRequiredBytes(o)
      BY <3>1, <3>3, <3>4, RequiredBytes
    <3> QED BY <3>2, <3>4
  <2>2. buf[Arena].size \in Nat
    BY <1>1, MappingAssumption, BufferAssumption DEF MapIInv, BufIInv, BufTypeOK
  <2>3. ReservedApart
    BY <1>1 DEF MapIInv
  <2>4. ASSUME NEW o \in Ops, Mapped(o) PROVE data[o].at + bytes[o] <= buf[Arena].size
    BY <2>1, <2>2, <2>3, <2>4 DEF ReservedApart
  <2>5. ASSUME NEW o \in Ops, NEW p \in Ops, o # p, Mapped(o), Mapped(p)
        PROVE  \/ data[o].at + bytes[o] <= data[p].at
               \/ data[p].at + bytes[p] <= data[o].at
    BY <2>1, <2>3, <2>5 DEF ReservedApart
  <2> QED BY <2>4, <2>5 DEF BuffersApart
<1> QED BY <1>1, MapInvariant, PTL

\* When memory_mapper is done, no operation has a buffer in the block that
\* memory.init deallocated.
THEOREM NoBufferIsStale == Spec => []NoStaleBuffer
<1>1. ASSUME MapIInv PROVE NoStaleBuffer
  <2> SUFFICES ASSUME Idle, NEW o \in Ops PROVE data[o].block \in live \cup {Null}
    BY DEF NoStaleBuffer
  <2>1. PICK i \in DOMAIN OpOrder : OpOrder[i] = o
    BY DEF Ops
  <2>2. i < at
    BY <1>1, MappingAssumption DEF MapIInv, TypeOK, Idle
  <2>3. data[o].block \in {Null, buf[Arena].data}
    BY <1>1, <2>1, <2>2 DEF MapIInv, DealtWith
  <2> QED BY <1>1, <2>3, MappingAssumption DEF MapIInv, BufIInv, OneOwner
<1> QED BY <1>1, MapInvariant, PTL

-----------------------------------------------------------------------------
(* The size that collect_required_bytes computes.                          *)

LEMMA MultipleOfMultiple ==
  ASSUME NEW k \in Nat \ {0}, NEW m \in Nat \ {0}, NEW x \in Nat, m % k = 0, x % m = 0
  PROVE  x % k = 0
<1> DEFINE p == m \div k
           q == x \div m
<1>1. m = k * p /\ x = m * q /\ p \in Int /\ q \in Int
  BY SMT
<1> HIDE DEF p, q
<1>2. x = k * (p * q) /\ p * q \in Int
  BY <1>1, SMT
<1>3. (k * (p * q)) % k = 0
  BY <1>2, MultipleModulo
<1> QED BY <1>2, <1>3

\* A size that was rounded to cache lines is claimed as it is: cpu_alignment
\* divides the cache line.
LEMMA ClaimedAsItIs ==
  ASSUME TypeOK, NEW o \in Ops
  PROVE  Aligned(TotalRequiredBytes(o)) = TotalRequiredBytes(o)
<1> DEFINE n == TotalRequiredBytes(o)
<1>1. n \in Nat /\ n + Alignment <= Modulus
  BY RequiredBytes, BufferAssumption
<1>2. n % CacheLine = 0
  <2>1. CASE o \in Bufferless
    BY <2>1, MappingAssumption DEF TotalRequiredBytes
  <2>2. CASE o \notin Bufferless
    <3>1. bytes[o] \in Nat /\ bytes[o] + CacheLine <= MaxSize
      BY <2>2, MappingAssumption DEF TypeOK
    <3>2. CacheLine \in Nat \ {0} /\ bytes[o] + CacheLine <= Modulus
      BY <3>1, MappingAssumption, BufferAssumption
    <3>3. RoundUp(bytes[o], CacheLine) % CacheLine = 0
      BY <3>1, <3>2, RoundUpIsNext
    <3> QED BY <2>2, <3>3 DEF TotalRequiredBytes
  <2> QED BY <2>1, <2>2
<1> HIDE DEF n
<1>3. n % Alignment = 0
  BY <1>1, <1>2, MultipleOfMultiple, MappingAssumption, BufferAssumption
<1>4. /\ Aligned(n) \in Nat /\ n <= Aligned(n) /\ Aligned(n) < n + Alignment
      /\ Aligned(n) % Alignment = 0
  BY <1>1, RoundUpIsNext, BufferAssumption DEF Aligned
<1>5. Aligned(n) = n
  <2> DEFINE a == Aligned(n)
  <2> HIDE DEF a
  <2>1. a \in Nat /\ n <= a /\ a < n + Alignment /\ a % Alignment = 0
    BY <1>4 DEF a
  <2>2. a - n = Alignment * (a \div Alignment - n \div Alignment)
    BY <1>1, <1>3, <2>1, BufferAssumption, SMT
  <2>3. a \div Alignment - n \div Alignment \in Int
    BY <1>1, <2>1, BufferAssumption
  <2>4. ASSUME NEW d \in Int, a - n = Alignment * d PROVE a = n
    BY <1>1, <2>1, <2>4, BufferAssumption, SMT
  <2> QED BY <2>2, <2>3, <2>4 DEF a
<1> QED BY <1>5 DEF n

\* The sum: its equations, that it never falls, and that uint64_t holds it.
LEMMA RequiredSum ==
  ASSUME TypeOK
  PROVE  /\ impl \in [0 .. Len(OpOrder) -> Nat] /\ impl[0] = 0
         /\ \A i \in DOMAIN OpOrder : impl[i] >= impl[i - 1] + TotalRequiredBytes(OpOrder[i])
         /\ \A i \in 0 .. Len(OpOrder) : impl[i] <= impl[Len(OpOrder)]
         /\ CollectRequiredBytes = impl[Len(OpOrder)]
<1> DEFINE n == Len(OpOrder)
           c == MaxSize * BlockCount
<1>1. n \in Nat /\ DOMAIN OpOrder = 1 .. n /\ c \in Nat
  BY MappingAssumption, SumAssumption, BufferAssumption
<1>2. \A i \in 1 .. n : /\ Summand[i] \in Nat /\ Summand[i] <= c
                        /\ Summand[i] >= TotalRequiredBytes(OpOrder[i])
  <2> SUFFICES ASSUME NEW i \in 1 .. n
               PROVE  /\ Summand[i] \in Nat /\ Summand[i] <= c
                      /\ Summand[i] >= TotalRequiredBytes(OpOrder[i])
    OBVIOUS
  <2> DEFINE t == TotalRequiredBytes(OpOrder[i])
             m == Multiplier(OpOrder[i])
  <2>1. OpOrder[i] \in Ops
    BY <1>1 DEF Ops
  <2>2. t \in 0 .. MaxSize
    BY <2>1, RequiredBytes
  <2>3. m \in 1 .. BlockCount
    BY MappingAssumption, SumAssumption DEF Multiplier
  <2>4. Summand[i] = t * m
    BY <1>1 DEF Summand
  <2> HIDE DEF t, m
  <2>5. t * m \in Nat /\ t * m >= t
    BY <2>2, <2>3, BufferAssumption, MappingAssumption, SumAssumption, SMT
  <2>6. t * m <= MaxSize * m /\ MaxSize * m <= MaxSize * BlockCount
    BY <2>2, <2>3, BufferAssumption, MappingAssumption, SumAssumption, SMT
  <2>7. t * m <= c
    BY <2>2, <2>3, <2>6, BufferAssumption, MappingAssumption, SumAssumption, SMT
  <2> QED BY <2>4, <2>5, <2>7 DEF t
<1>3. Summand \in [1 .. n -> Nat]
  BY <1>1, <1>2 DEF Summand
<1>4. Sums(impl, n, Summand)
  <2>1. impl = CHOOSE f : Sums(f, n, Summand)
    BY DEF impl, Sums
  <2> QED BY <1>1, <2>1, ChosenSums
<1> HIDE DEF n, c
<1>5. /\ impl[0] = 0 /\ impl \in [0 .. n -> Nat]
      /\ \A i \in 1 .. n : impl[i] = impl[i - 1] + Summand[i]
      /\ \A i \in 0 .. n : impl[i] <= impl[n]
  BY <1>1, <1>3, <1>4, SumFacts
<1>6. impl[n] <= n * c
  BY <1>1, <1>2, <1>3, <1>4, SumBound
<1>7. impl[n] % Modulus = impl[n]
  <2>1. impl[n] \in Nat /\ n * c < Modulus /\ n * c \in Nat /\ Modulus \in Nat
    BY <1>1, <1>5, MappingAssumption, SumAssumption, BufferAssumption DEF n, c
  <2>2. impl[n] < Modulus
    BY <1>6, <2>1
  <2> QED BY <2>1, <2>2
<1>8. ASSUME NEW i \in 1 .. n PROVE impl[i] >= impl[i - 1] + TotalRequiredBytes(OpOrder[i])
  <2>1. TotalRequiredBytes(OpOrder[i]) \in 0 .. MaxSize
    BY <1>1, RequiredBytes DEF Ops
  <2>2. impl[i - 1] \in Nat
    BY <1>1, <1>5
  <2> QED BY <1>2, <1>5, <2>1, <2>2, BufferAssumption
<1> QED BY <1>1, <1>5, <1>7, <1>8 DEF n, CollectRequiredBytes

\* The sum depends on nothing that a mapping changes.
LEMMA SumStays == ASSUME bytes' = bytes
                  PROVE  /\ impl' = impl
                         /\ \A o : TotalRequiredBytes(o)' = TotalRequiredBytes(o)
<1>1. \A o : TotalRequiredBytes(o)' = TotalRequiredBytes(o)
  BY DEF TotalRequiredBytes
<1>2. Summand' = Summand
  BY DEF Summand, TotalRequiredBytes, Multiplier
<1>3. impl' = impl
  BY <1>2 DEF impl
<1> QED BY <1>1, <1>3

\* The first arena is as large as the sum, and nothing has been claimed.
LEMMA AllocateFirst ==
  ASSUME MapIInv, MapIInv', FirstMapping, Allocate
  PROVE  FirstMapping'
<1>1. /\ mapping \in Nat /\ mapping' = mapping + 1 /\ at' = 1 /\ bytes' = bytes
      /\ TypeOK
  BY MappingAssumption DEF MapIInv, TypeOK, Allocate
<1>2. mapping' # 0
  BY <1>1
<1>3. ASSUME mapping' = 1
      PROVE  /\ buf'[Arena].size = impl'[Len(OpOrder)]
             /\ buf'[Arena].offset <= impl'[at' - 1]
  <2>1. mapping = 0 /\ buf[Arena].offset = 0
    BY <1>1, <1>3 DEF FirstMapping
  <2>2. buf'[Arena].size = CollectRequiredBytes /\ buf'[Arena].offset = buf[Arena].offset
    BY MappingAssumption DEF Allocate, InitBuffer, MapIInv, BufIInv, BufTypeOK
  <2>3. CollectRequiredBytes = impl[Len(OpOrder)] /\ impl[0] = 0 /\ impl' = impl
    BY <1>1, RequiredSum, SumStays
  <2>4. at' - 1 = 0
    BY <1>1
  <2> QED BY <2>1, <2>2, <2>3, <2>4
<1> QED BY <1>1, <1>2, <1>3 DEF FirstMapping

\* In the first arena every claim fits: it moves the offset by no more than
\* the operation has added to the sum.
LEMMA MapFirst ==
  ASSUME MapIInv, MapIInv', FirstMapping, Map
  PROVE  FirstMapping'
<1> DEFINE r == OpOrder[at]
           n == TotalRequiredBytes(r)
           offset == buf[Arena].offset
<1>1. /\ TypeOK /\ ~Idle /\ at' = at + 1 /\ bytes' = bytes /\ mapping' = mapping
  BY DEF MapIInv, Map
<1>2. /\ at \in DOMAIN OpOrder /\ r \in Ops /\ n \in 0 .. MaxSize
      /\ Len(OpOrder) \in Nat /\ DOMAIN OpOrder = 1 .. Len(OpOrder)
  BY <1>1, OpAt, RequiredBytes, MappingAssumption
<1>3. mapping # 0
  BY <1>1 DEF FirstMapping
<1>4. /\ impl' = impl
      /\ \A o : TotalRequiredBytes(o)' = TotalRequiredBytes(o)
  BY <1>1, SumStays
<1> SUFFICES ASSUME mapping = 1 PROVE FirstMapping'
  BY <1>1, <1>3 DEF FirstMapping
<1>5. /\ buf[Arena].size = impl[Len(OpOrder)]
      /\ offset <= impl[at - 1]
      /\ buf[Arena].data # Null =>
           \A i \in DOMAIN OpOrder :
             i < at /\ TotalRequiredBytes(OpOrder[i]) > 0 => Mapped(OpOrder[i])
  BY DEF FirstMapping
<1>6. /\ impl[at - 1] \in Nat /\ impl[at] \in Nat /\ impl[Len(OpOrder)] \in Nat
      /\ impl[at] >= impl[at - 1] + n
      /\ impl[at] <= impl[Len(OpOrder)]
  <2>1. at - 1 \in 0 .. Len(OpOrder) /\ at \in 0 .. Len(OpOrder)
    BY <1>2
  <2> QED BY <1>1, <1>2, <2>1, RequiredSum
<1>7. offset \in 0 .. MaxSize /\ MaxSize \in Nat
  BY MappingAssumption, BufferAssumption DEF MapIInv, BufIInv, BufTypeOK
<1>8. (offset + Aligned(n)) % Modulus = offset + n
  <2>1. Aligned(n) = n
    BY <1>1, <1>2, ClaimedAsItIs
  <2>2. n \in Nat /\ n < MaxSize + Alignment
    BY <1>2, <1>7, BufferAssumption
  <2> HIDE DEF n, offset
  <2> QED BY <1>7, <2>1, <2>2, NoWrap
<1> HIDE DEF r, n, offset
<1>9. offset + n <= impl[at] /\ offset + n <= buf[Arena].size
  BY <1>2, <1>5, <1>6, <1>7
<1>10. Fits(Arena, n)
  BY <1>8, <1>9 DEF Fits, offset
<1>11. at' - 1 = at
  BY <1>1, <1>2
<1>12. CASE SkipBuffer
  <2>1. n = 0 /\ buf' = buf /\ data' = data
    BY <1>12 DEF SkipBuffer, bufVars, n, r
  <2>2. buf[Arena].offset <= impl[at]
    BY <1>9, <1>7, <2>1 DEF offset
  <2>3. ASSUME buf'[Arena].data # Null, NEW i \in DOMAIN OpOrder, i < at',
               TotalRequiredBytes(OpOrder[i]) > 0
        PROVE  Mapped(OpOrder[i])'
    <3>1. i # at
      BY <2>1, <2>3 DEF n, r
    <3>2. i < at
      BY <1>1, <1>2, <2>3, <3>1
    <3> QED BY <1>4, <1>5, <2>1, <2>3, <3>2 DEF Mapped
  <2> QED BY <1>1, <1>4, <1>5, <1>11, <2>1, <2>2, <2>3 DEF FirstMapping
<1>13. CASE MapBuffer
  <2>1. /\ Claim(Arena, n)
        /\ data' = [data EXCEPT ![r] = [block |-> buf[Arena].data, at |-> buf[Arena].offset]]
    BY <1>10, <1>13 DEF MapBuffer, n, r
  <2>2. /\ buf'[Arena].size = buf[Arena].size /\ buf'[Arena].data = buf[Arena].data
        /\ buf'[Arena].offset = offset + n
    BY <1>8, <2>1, MappingAssumption DEF Claim, MapIInv, BufIInv, BufTypeOK, offset
  <2>3. /\ data'[r].block = buf[Arena].data
        /\ \A o \in Ops : o # r => data'[o] = data[o]
    BY <1>2, <2>1 DEF MapIInv, TypeOK
  <2>4. ASSUME buf'[Arena].data # Null, NEW i \in DOMAIN OpOrder, i < at',
               TotalRequiredBytes(OpOrder[i]) > 0
        PROVE  Mapped(OpOrder[i])'
    <3>1. CASE OpOrder[i] = r
      BY <1>4, <2>2, <2>3, <2>4, <3>1 DEF Mapped
    <3>2. CASE OpOrder[i] # r
      <4>1. i < at /\ OpOrder[i] \in Ops
        BY <1>1, <1>2, <2>4, <3>2 DEF r, Ops
      <4>2. Mapped(OpOrder[i])
        BY <1>5, <2>2, <2>4, <4>1
      <4> QED BY <1>4, <2>2, <2>3, <3>2, <4>1, <4>2 DEF Mapped
    <3> QED BY <3>1, <3>2
  <2> QED BY <1>1, <1>4, <1>5, <1>9, <1>11, <2>2, <2>4 DEF FirstMapping
<1> QED BY <1>12, <1>13 DEF Map

\* The size that is computed at compile time is enough for the constructor,
\* for every list of operations, whatever their sizes and their number of
\* blocks are, although it is a sum of sizes rounded to the cache line while
\* what is claimed is rounded to cpu_alignment.
THEOREM ConstructorHasRoom == Spec => []ConstructionFits
<1>1. Init => FirstMapping
  BY MappingAssumption DEF Init, BufInit, NewBuffer, FirstMapping, Idle
<1>2. MapIInv /\ MapIInv' /\ FirstMapping /\ [Next]_vars => FirstMapping'
  <2> SUFFICES ASSUME MapIInv, MapIInv', FirstMapping, [Next]_vars PROVE FirstMapping'
    OBVIOUS
  <2>1. CASE UNCHANGED vars
    <3>1. bytes' = bytes /\ mapping' = mapping /\ at' = at /\ buf' = buf /\ data' = data
      BY <2>1 DEF vars, bufVars
    <3> QED BY <3>1, SumStays DEF FirstMapping, Idle, Mapped
  <2> QED BY <2>1, AllocateFirst, MapFirst DEF Next
<1>3. MapIInv /\ FirstMapping => ConstructionFits
  <2> SUFFICES ASSUME MapIInv, FirstMapping, Idle, mapping = 1, buf[Arena].data # Null,
                      NEW o \in Ops, TotalRequiredBytes(o) > 0
               PROVE  Mapped(o)
    BY DEF ConstructionFits
  <2>1. PICK i \in DOMAIN OpOrder : OpOrder[i] = o
    BY DEF Ops
  <2>2. i < at
    BY MappingAssumption DEF MapIInv, TypeOK, Idle
  <2> QED BY <2>1, <2>2 DEF FirstMapping
<1> QED BY <1>1, <1>2, <1>3, MapInvariant, PTL DEF Spec
=============================================================================
