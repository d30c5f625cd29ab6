------------------------- MODULE MemoryBuffer_proofs -------------------------
(***************************************************************************)
(* The claims of a memory_buffer are inside its block, apart from each     *)
(* other and aligned, and no block leaks or is deallocated twice: for all  *)
(* buffers, sizes and alignments that BufferAssumption allows.             *)
(***************************************************************************)
EXTENDS MemoryBuffer, TLAPS

LEMMA MultipleModulo == ASSUME NEW m \in Nat \ {0}, NEW q \in Int PROVE (m * q) % m = 0
  BY SMT

LEMMA SumModulo ==
  ASSUME NEW m \in Nat \ {0}, NEW x \in Nat, NEW y \in Nat, x % m = 0, y % m = 0
  PROVE  (x + y) % m = 0
<1> DEFINE p == x \div m
           q == y \div m
<1>1. x = m * p /\ y = m * q /\ p \in Int /\ q \in Int
  BY SMT
<1> HIDE DEF p, q
<1>2. x + y = m * (p + q) /\ p + q \in Int
  BY <1>1, SMT
<1>3. (m * (p + q)) % m = 0
  BY <1>2, MultipleModulo
<1> QED BY <1>2, <1>3

\* roundUpToMultiple returns the next multiple when the arithmetic of
\* uint64_t has room for it.
LEMMA RoundUpIsNext ==
  ASSUME NEW v \in Nat, NEW m \in Nat \ {0}, v + m <= Modulus
  PROVE  /\ RoundUp(v, m) \in Nat
         /\ v <= RoundUp(v, m) /\ RoundUp(v, m) < v + m
         /\ RoundUp(v, m) % m = 0
<1> DEFINE s == v + (m - 1)
<1>1. s \in Nat /\ s % Modulus = s
  BY BufferAssumption, SMT
<1>2. RoundUp(v, m) = s - (s % m)
  BY <1>1 DEF RoundUp
<1>3. s % m \in 0 .. m - 1
  BY <1>1, SMT
<1>4. s - (s % m) = m * (s \div m) /\ s \div m \in Int
  BY <1>1, SMT
<1>5. (m * (s \div m)) % m = 0
  BY <1>4, MultipleModulo
<1> QED BY <1>1, <1>2, <1>3, <1>4, <1>5, SMT

-----------------------------------------------------------------------------

LEMMA InitInvariant == BufInit => BufIInv
<1> SUFFICES ASSUME BufInit PROVE BufIInv
  OBVIOUS
<1>1. 0 % Alignment = 0
  BY BufferAssumption, SMT
<1> QED
  BY <1>1, BufferAssumption
  DEF BufInit, BufIInv, BufTypeOK, OneOwner, ClaimsInside, ClaimsApart, ClaimsAligned,
      OffsetIsBehind, OffsetAligned, NewBuffer, Null, Blocks

\* What deallocating the block of b does to the claims, whatever b holds next:
\* a block of its own, or none.
LEMMA Deallocate ==
  ASSUME BufIInv, NEW b \in Buffers, NEW k \in {Null} \cup Blocks,
         k = Null \/ k > allocs,
         NEW new, new \in [data : {k}, size : 0 .. MaxSize, offset : 0 .. MaxSize],
         new.offset % Alignment = 0,
         buf' = [buf EXCEPT ![b] = new],
         live' = (live \ {buf[b].data}) \cup ({k} \ {Null}),
         allocs' = IF k = Null THEN allocs ELSE k,
         k \in {Null, allocs + 1}, allocs' <= MaxBlocks,
         claims' = Kept(buf[b].data)
  PROVE  BufIInv'
<1> USE BufferAssumption DEF Null, Blocks
<1>1. BufTypeOK'
  <2>1. buf' \in [Buffers -> [data : {Null} \cup Blocks, size : 0 .. MaxSize,
                             offset : 0 .. MaxSize]]
    BY DEF BufIInv, BufTypeOK
  <2>2. allocs' \in 0 .. MaxBlocks /\ live' \subseteq 1 .. allocs'
    <3>1. allocs \in 0 .. MaxBlocks /\ live \subseteq 1 .. allocs
      BY DEF BufIInv, BufTypeOK
    <3>2. CASE k = Null
      BY <3>1, <3>2
    <3>3. CASE k = allocs + 1
      <4>1. allocs' = allocs + 1 /\ live' \subseteq live \cup {allocs + 1}
        BY <3>1, <3>3
      <4>2. \A x \in live' : x \in 1 .. allocs + 1
        BY <3>1, <4>1
      <4>3. allocs + 1 \in 0 .. MaxBlocks
        BY <3>1, <4>1
      <4> QED BY <4>1, <4>2, <4>3
    <3> QED BY <3>2, <3>3
  <2>3. \A c \in claims' : c \in claims /\ c.block # buf[b].data
    BY DEF Kept
  <2>4. \A c \in claims' : /\ c.block \in live'
                           /\ c.at \in 0 .. MaxSize /\ c.amount \in 0 .. MaxSize
    BY <2>3 DEF BufIInv, BufTypeOK
  <2> QED BY <2>1, <2>2, <2>4 DEF BufTypeOK
<1>2. OneOwner'
  BY SMT DEF BufIInv, BufTypeOK, OneOwner
<1>3. ASSUME NEW c \in claims'
      PROVE  /\ c \in claims /\ c.block # buf'[b].data
             /\ \A d \in Buffers \ {b} : buf'[d] = buf[d]
  BY <1>3 DEF BufIInv, BufTypeOK, OneOwner, Kept
<1>4. ClaimsInside' /\ ClaimsApart' /\ ClaimsAligned' /\ OffsetIsBehind'
  BY <1>3 DEF BufIInv, ClaimsInside, ClaimsApart, ClaimsAligned, OffsetIsBehind
<1>5. OffsetAligned'
  BY DEF BufIInv, BufTypeOK, OffsetAligned
<1> QED BY <1>1, <1>2, <1>4, <1>5 DEF BufIInv

LEMMA ClaimInvariant ==
  ASSUME BufIInv, NEW b \in Buffers, NEW amount \in 0 .. MaxSize, Claim(b, amount)
  PROVE  BufIInv'
<1> USE BufferAssumption DEF Null, Blocks
<1> DEFINE a == Aligned(amount)
           offset == buf[b].offset
<1>1. offset \in 0 .. MaxSize /\ buf[b].size \in 0 .. MaxSize /\ offset % Alignment = 0
  BY DEF BufIInv, BufTypeOK, OffsetAligned
<1>2. a \in Nat /\ amount <= a /\ a < amount + Alignment /\ a % Alignment = 0
  BY RoundUpIsNext DEF Aligned
<1> HIDE DEF a, offset
<1>3. (offset + a) % Modulus = offset + a
  BY <1>1, <1>2, SMT
<1>4. offset + a <= buf[b].size /\ (offset + a) % Alignment = 0
  BY <1>1, <1>2, <1>3, SumModulo DEF Claim, Fits, a, offset
<1>5. /\ buf' = [buf EXCEPT ![b].offset = offset + a]
      /\ live' = live /\ allocs' = allocs
      /\ \/ claims' = claims
         \/ buf[b].data # Null /\ claims' = claims \cup {Claimed(b, amount)}
  BY <1>3 DEF Claim, a, offset
<1>6. /\ Claimed(b, amount).block = buf[b].data
      /\ Claimed(b, amount).at = offset /\ Claimed(b, amount).amount = amount
  BY DEF Claimed, offset
<1> HIDE DEF Claimed
<1>7. BufTypeOK'
  BY <1>1, <1>2, <1>4, <1>5, <1>6 DEF BufIInv, BufTypeOK, OneOwner
<1>8. /\ \A d \in Buffers : /\ buf'[d].data = buf[d].data /\ buf'[d].size = buf[d].size
                            /\ d # b => buf'[d].offset = buf[d].offset
      /\ buf'[b].offset = offset + a
  BY <1>5 DEF BufIInv, BufTypeOK
<1>9. OneOwner'
  BY <1>5, <1>8 DEF BufIInv, OneOwner
<1>10. ClaimsInside'
  BY <1>1, <1>2, <1>4, <1>5, <1>6, <1>8 DEF BufIInv, BufTypeOK, OneOwner, ClaimsInside
<1>11. OffsetIsBehind'
  BY <1>1, <1>2, <1>5, <1>6, <1>8
  DEF BufIInv, BufTypeOK, OneOwner, OffsetIsBehind, offset
<1>12. ClaimsApart'
  BY <1>1, <1>5, <1>6 DEF BufIInv, BufTypeOK, ClaimsApart, OffsetIsBehind, offset
<1>13. ClaimsAligned'
  BY <1>1, <1>5, <1>6 DEF BufIInv, ClaimsAligned
<1>14. OffsetAligned'
  BY <1>4, <1>8 DEF BufIInv, OffsetAligned
<1> QED BY <1>7, <1>9, <1>10, <1>11, <1>12, <1>13, <1>14 DEF BufIInv

LEMMA MoveInvariant ==
  ASSUME BufIInv, NEW b \in Buffers, NEW c \in Buffers, MoveAssign(b, c)
  PROVE  BufIInv'
<1>1. /\ b # c /\ buf' = [buf EXCEPT ![b] = buf[c], ![c] = buf[b]]
      /\ live' = live /\ allocs' = allocs /\ claims' = claims
  BY DEF MoveAssign
<1>2. BufTypeOK'
  BY <1>1 DEF BufIInv, BufTypeOK
<1> DEFINE other(d) == IF d = b THEN c ELSE IF d = c THEN b ELSE d
<1>3. \A d \in Buffers : other(d) \in Buffers /\ other(other(d)) = d /\ buf'[d] = buf[other(d)]
  BY <1>1 DEF BufIInv, BufTypeOK
<1> HIDE DEF other
<1>4. OneOwner'
  <2>1. \A d \in Buffers : buf'[d].data \in live' \cup {Null}
    BY <1>1, <1>3 DEF BufIInv, OneOwner
  <2>2. \A d, e \in Buffers : d # e /\ buf'[d].data = buf'[e].data => buf'[d].data = Null
    BY <1>3 DEF BufIInv, OneOwner
  <2>3. ASSUME NEW k \in live' PROVE \E d \in Buffers : buf'[d].data = k
    <3>1. PICK d \in Buffers : buf[d].data = k
      BY <1>1 DEF BufIInv, OneOwner
    <3>2. buf'[other(d)].data = k /\ other(d) \in Buffers
      BY <1>3, <3>1
    <3> QED BY <3>2
  <2> QED BY <2>1, <2>2, <2>3 DEF OneOwner
<1>5. ClaimsInside' /\ ClaimsApart' /\ ClaimsAligned' /\ OffsetIsBehind' /\ OffsetAligned'
  BY <1>1, <1>3
  DEF BufIInv, ClaimsInside, ClaimsApart, ClaimsAligned, OffsetIsBehind, OffsetAligned
<1> QED BY <1>2, <1>4, <1>5 DEF BufIInv

LEMMA NextInvariant == BufIInv /\ [BufNext]_bufVars => BufIInv'
<1> USE BufferAssumption DEF Null, Blocks
<1> SUFFICES ASSUME BufIInv, [BufNext]_bufVars PROVE BufIInv'
  OBVIOUS
<1>1. ASSUME NEW b \in Buffers, NEW size \in 0 .. MaxSize, InitBuffer(b, size)
      PROVE  BufIInv'
  <2>1. PICK new \in {Null, allocs + 1} :
          /\ buf' = [buf EXCEPT ![b].data = new, ![b].size = size]
          /\ live' = (live \ {buf[b].data}) \cup ({new} \ {Null})
          /\ allocs' = IF new = Null THEN allocs ELSE new
    BY <1>1 DEF InitBuffer
  <2> DEFINE rec == [buf[b] EXCEPT !.data = new, !.size = size]
  <2>2. buf' = [buf EXCEPT ![b] = rec]
    BY <2>1 DEF BufIInv, BufTypeOK
  <2>3. /\ rec \in [data : {new}, size : 0 .. MaxSize, offset : 0 .. MaxSize]
        /\ rec.offset % Alignment = 0
    BY DEF BufIInv, BufTypeOK, OffsetAligned
  <2>4. /\ new = Null \/ new > allocs
        /\ new \in {Null} \cup Blocks /\ allocs' <= MaxBlocks
    BY <1>1, <2>1 DEF BufIInv, BufTypeOK, InitBuffer
  <2>5. claims' = Kept(buf[b].data)
    BY <1>1 DEF InitBuffer
  <2> HIDE DEF rec
  <2> QED BY <2>1, <2>2, <2>3, <2>4, <2>5, Deallocate
<1>2. ASSUME NEW b \in Buffers, NEW amount \in 0 .. MaxSize, Claim(b, amount)
      PROVE  BufIInv'
  BY <1>2, ClaimInvariant
<1>3. ASSUME NEW b \in Buffers, NEW c \in Buffers, MoveAssign(b, c)
      PROVE  BufIInv'
  BY <1>3, MoveInvariant
<1>4. ASSUME NEW b \in Buffers, Clear(b) \/ Renew(b)
      PROVE  BufIInv'
  <2> DEFINE k == Null
  <2>1. 0 % Alignment = 0
    BY SMT
  <2>2. PICK rec \in {[buf[b] EXCEPT !.data = Null, !.size = 0], NewBuffer} :
          buf' = [buf EXCEPT ![b] = rec]
    BY <1>4 DEF Clear, Renew, BufIInv, BufTypeOK
  <2>3. /\ rec \in [data : {k}, size : 0 .. MaxSize, offset : 0 .. MaxSize]
        /\ rec.offset % Alignment = 0
    <3>1. buf[b] \in [data : {Null} \cup Blocks, size : 0 .. MaxSize, offset : 0 .. MaxSize]
      BY DEF BufIInv, BufTypeOK
    <3>2. CASE rec = NewBuffer
      BY <2>1, <3>2 DEF NewBuffer
    <3>3. CASE rec = [buf[b] EXCEPT !.data = Null, !.size = 0]
      <4>1. /\ rec = [data |-> Null, size |-> 0, offset |-> buf[b].offset]
            /\ buf[b].offset \in 0 .. MaxSize
        BY <3>1, <3>3
      <4>2. buf[b].offset % Alignment = 0
        BY DEF BufIInv, OffsetAligned
      <4> QED BY <4>1, <4>2
    <3> QED BY <3>2, <3>3
  <2>4. /\ live' = (live \ {buf[b].data}) \cup ({k} \ {Null})
        /\ allocs' = IF k = Null THEN allocs ELSE k
        /\ k = Null
        /\ claims' = Kept(buf[b].data) /\ allocs' <= MaxBlocks
    BY <1>4 DEF Clear, Renew, BufIInv, BufTypeOK
  <2> HIDE DEF k
  <2> QED BY <2>2, <2>3, <2>4, Deallocate
<1>5. CASE UNCHANGED bufVars
  BY <1>5
  DEF bufVars, BufIInv, BufTypeOK, OneOwner, ClaimsInside, ClaimsApart, ClaimsAligned,
      OffsetIsBehind, OffsetAligned
<1> QED BY <1>1, <1>2, <1>3, <1>4, <1>5 DEF BufNext

LEMMA Invariant == BufSpec => []BufIInv
  BY InitInvariant, NextInvariant, PTL DEF BufSpec

-----------------------------------------------------------------------------

\* The variables keep their types.
THEOREM TypeCorrect == BufSpec => []BufTypeOK
<1>1. BufIInv => BufTypeOK
  BY DEF BufIInv
<1> QED BY <1>1, Invariant, PTL

\* No block leaks and none is deallocated twice (clear, operator=).
THEOREM BlocksHaveOneOwner == BufSpec => []OneOwner
<1>1. BufIInv => OneOwner
  BY DEF BufIInv
<1> QED BY <1>1, Invariant, PTL

\* claim_memory hands out bytes of the block only.
THEOREM ClaimsStayInside == BufSpec => []ClaimsInside
<1>1. BufIInv => ClaimsInside
  BY DEF BufIInv
<1> QED BY <1>1, Invariant, PTL

\* It hands out each byte at most once.
THEOREM ClaimsStayApart == BufSpec => []ClaimsApart
<1>1. BufIInv => ClaimsApart
  BY DEF BufIInv
<1> QED BY <1>1, Invariant, PTL

\* What it hands out begins at a multiple of cpu_alignment.
THEOREM ClaimsStayAligned == BufSpec => []ClaimsAligned
<1>1. BufIInv => ClaimsAligned
  BY DEF BufIInv
<1> QED BY <1>1, Invariant, PTL
=============================================================================
