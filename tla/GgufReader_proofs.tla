-------------------------- MODULE GgufReader_proofs --------------------------
(***************************************************************************)
(* Whatever a GGUF file contains, for all limits, file lengths, keys and   *)
(* types: nothing beyond its end is read, the arrays of its metadata are   *)
(* neither shared nor used after they were deleted and leak only in two    *)
(* known ways, the parameters are those the file gives last, and the       *)
(* tensors end in the order of their layers.                               *)
(***************************************************************************)
EXTENDS GgufReader, DataInduction

\* The cursor stays inside the file, for every file length and content.
THEOREM NothingBeyondTheEnd == Spec => []InsideFile
<1>1. Init => InsideFile
  BY DEF Init, InsideFile
<1>2. InsideFile /\ [Next]_vars => InsideFile'
  <2> SUFFICES ASSUME InsideFile, [Next]_vars PROVE InsideFile'
    OBVIOUS
  <2>1. ASSUME NEW n, Take(n) PROVE InsideFile'
    BY <2>1 DEF Take, Room, InsideFile
  <2>2. ASSUME UNCHANGED fileVars PROVE InsideFile'
    BY <2>2 DEF fileVars, InsideFile
  <2>3. CASE ReadHeader \/ ReadKey \/ ReadType \/ ReadScalar \/ ReadString \/ ReadArray \/ ReadInfo
    BY <2>1, <2>3 DEF ReadHeader, ReadKey, ReadType, ReadScalar, ReadString, ReadArray, ReadInfo,
                      TakeString
  <2>4. CASE EndArray \/ StoreKv \/ HeaderIsRead
    BY <2>2, <2>4 DEF EndArray, StoreKv, ReadOn, HeaderIsRead
  <2>5. CASE Refuse \/ SizeTensors \/ GatherParameters \/ SortTensors \/ BuildCores
    BY <2>2, <2>5 DEF Refuse, SizeTensors, GatherParameters, SortTensors, BuildCores, Leave, Undefined
  <2>6. CASE UNCHANGED vars
    BY <2>2, <2>6 DEF vars
  <2> QED BY <2>3, <2>4, <2>5, <2>6 DEF Next
<1> QED BY <1>1, <1>2, PTL DEF Spec

-----------------------------------------------------------------------------

\* What makes ArraysHeld inductive: the identities that were given out are
\* those up to allocs, and the value that is being read holds none.
IsFresh(v) == v = [key |-> v.key, at |-> v.at, alt |-> v.alt, elem |-> v.elem, text |-> v.text,
                   nested |-> v.nested, array |-> 0]

HeapInv == /\ allocs \in Nat
           /\ \A k \in live : k \in Nat \ {0} /\ k <= allocs
           /\ pc \in {"type", "value"} => IsFresh(kv)
           /\ \A key \in DOMAIN map : map[key].alt # "array" => map[key].array = 0

HeapIInv == HeapInv /\ ArraysHeld

\* What a step that leaves the metadata alone must do to the value.
LEMMA ReadingKeepsHeap ==
  ASSUME HeapIInv, UNCHANGED <<map, live, allocs>>,
         pc' \in {"type", "value"} => IsFresh(kv')
  PROVE  HeapIInv'
BY DEF HeapIInv, HeapInv, ArraysHeld, IsFresh

\* A value stays fresh when another of its fields is assigned.
LEMMA FreshStaysFresh ==
  ASSUME NEW v, IsFresh(v), NEW w, NEW x,
         w \in {v, [v EXCEPT !.alt = x], [v EXCEPT !.elem = x], [v EXCEPT !.text = x],
                [v EXCEPT !.nested = x]}
  PROVE  IsFresh(w)
BY DEF IsFresh

\* A new value is fresh.
LEMMA NewIsFresh == ASSUME NEW key, NEW w, w = NewValue(key) PROVE IsFresh(w)
BY DEF NewValue, IsFresh

\* The identities in the metadata were given out.
LEMMA HeldAreGivenOut ==
  ASSUME HeapIInv, NEW key \in DOMAIN map
  PROVE  map[key].array \in 0 .. allocs
<1>1. allocs \in Nat /\ \A k \in live : k \in Nat \ {0} /\ k <= allocs
  BY DEF HeapIInv, HeapInv
<1>2. map[key].array \in live \/ map[key].array = 0
  BY DEF HeapIInv, HeapInv, ArraysHeld
<1> DEFINE a == map[key].array
<1> HIDE DEF a
<1>3. a \in live \/ a = 0
  BY <1>2 DEF a
<1>4. a \in 0 .. allocs
  BY <1>1, <1>3
<1> QED BY <1>4 DEF a

\* metadata_kv[key] = value.
LEMMA StoringKeepsHeap == ASSUME HeapIInv, StoreKv PROVE HeapIInv'
<1>1. /\ IsFresh(kv) /\ pc' = "key"
  BY DEF HeapIInv, HeapInv, StoreKv, KvIsRead, ReadOn
<1>2. CASE kv.alt = "array"
  <2> DEFINE old == IF kv.key \in DOMAIN map THEN map[kv.key].array ELSE 0
             new == [kv EXCEPT !.array = allocs + 1]
  <2>1. /\ map' = Assigned(map, kv.key, new)
        /\ live' = (live \ {old}) \cup {allocs + 1} /\ allocs' = allocs + 1
    BY <1>2 DEF StoreKv
  <2>2. new.alt = "array" /\ new.array = allocs + 1
    BY <1>1, <1>2 DEF IsFresh
  <2> HIDE DEF new
  <2>3. /\ DOMAIN map' = {kv.key} \cup DOMAIN map
        /\ map'[kv.key] = new
        /\ \A key \in DOMAIN map \ {kv.key} : map'[key] = map[key]
    BY <2>1 DEF Assigned
  <2>4. \A key \in DOMAIN map : map[key].array \in 0 .. allocs
    BY HeldAreGivenOut
  <2>5. \A key \in DOMAIN map \ {kv.key} : map[key].array = old => map[key].array = 0
    BY DEF HeapIInv, ArraysHeld
  <2>6. HeapInv'
    BY <1>1, <2>1, <2>2, <2>3 DEF HeapIInv, HeapInv
  <2>7. ArraysHeld'
    <3>1. ASSUME NEW key \in DOMAIN map'
          PROVE  map'[key].alt = "array" <=> map'[key].array \in live'
      <4>1. CASE key = kv.key
        BY <2>1, <2>2, <2>3, <4>1
      <4>2. CASE key # kv.key
        <5>1. map'[key] = map[key] /\ key \in DOMAIN map
          BY <2>3, <3>1, <4>2
        <5>2. map[key].alt = "array" <=> map[key].array \in live
          BY <5>1 DEF HeapIInv, ArraysHeld
        <5>3. map[key].array \in live => map[key].array # old /\ map[key].array # allocs + 1
          BY <2>5, <4>2, <5>1 DEF HeapIInv, HeapInv
        <5>4. map[key].array # allocs + 1
          BY <2>4, <5>1 DEF HeapIInv, HeapInv
        <5> QED BY <2>1, <5>1, <5>2, <5>3, <5>4
      <4> QED BY <4>1, <4>2
    <3>2. ASSUME NEW key \in DOMAIN map', NEW other \in DOMAIN map' \ {key},
                 map'[key].array = map'[other].array
          PROVE  map'[key].array = 0
      <4>1. CASE kv.key \in {key, other}
        BY <2>2, <2>3, <2>4, <3>2, <4>1 DEF HeapIInv, HeapInv
      <4>2. CASE kv.key \notin {key, other}
        BY <2>3, <3>2, <4>2 DEF HeapIInv, ArraysHeld
      <4> QED BY <4>1, <4>2
    <3> QED BY <3>1, <3>2 DEF ArraysHeld
  <2> QED BY <2>6, <2>7 DEF HeapIInv
<1>3. CASE kv.alt # "array"
  <2>1. map' = Assigned(map, kv.key, kv) /\ UNCHANGED <<live, allocs>>
    BY <1>3 DEF StoreKv, heapVars
  <2>2. /\ DOMAIN map' = {kv.key} \cup DOMAIN map
        /\ map'[kv.key] = kv
        /\ \A key \in DOMAIN map \ {kv.key} : map'[key] = map[key]
    BY <2>1 DEF Assigned
  <2>3. kv.array = 0
    BY <1>1 DEF IsFresh
  <2>4. 0 \notin live
    BY DEF HeapIInv, HeapInv
  <2>5. HeapInv'
    BY <1>1, <1>3, <2>1, <2>2, <2>3 DEF HeapIInv, HeapInv
  <2>6. ArraysHeld'
    BY <1>3, <2>1, <2>2, <2>3, <2>4 DEF HeapIInv, ArraysHeld
  <2> QED BY <2>5, <2>6 DEF HeapIInv
<1> QED BY <1>2, <1>3

\* The copy of an array that is an element of another is nobody's.
LEMMA LeakingKeepsHeap == ASSUME HeapIInv, EndArray PROVE HeapIInv'
<1>1. /\ UNCHANGED <<map, pc, kv>> /\ allocs' \in {allocs, allocs + 1}
      /\ live \subseteq live' /\ live' \subseteq live \cup {allocs'}
      /\ live' # live => allocs' = allocs + 1
  BY DEF EndArray, heapVars
<1>2. \A key \in DOMAIN map : map[key].array \in 0 .. allocs
  BY HeldAreGivenOut
<1>3. HeapInv'
  BY <1>1 DEF HeapIInv, HeapInv, IsFresh
<1>4. ArraysHeld'
  BY <1>1, <1>2 DEF HeapIInv, HeapInv, ArraysHeld
<1> QED BY <1>3, <1>4 DEF HeapIInv

\* Whoever leaves parse_model destroys the metadata with its arrays.
LEMMA LeavingKeepsHeap ==
  ASSUME HeapIInv, NEW how \in {"thrown", "returned"}, Leave(how) PROVE HeapIInv'
BY DEF HeapIInv, HeapInv, ArraysHeld, Leave

LEMMA HeapInvariant == Spec => []HeapIInv
<1>1. Init => HeapIInv
  BY DEF Init, HeapIInv, HeapInv, ArraysHeld
<1>2. HeapIInv /\ [Next]_vars => HeapIInv'
  <2> SUFFICES ASSUME HeapIInv, [Next]_vars PROVE HeapIInv'
    OBVIOUS
  <2>0. pc \in {"type", "value"} => IsFresh(kv)
    BY DEF HeapIInv, HeapInv
  <2>1. CASE ReadHeader \/ HeaderIsRead \/ ReadInfo
    BY <2>1, ReadingKeepsHeap DEF ReadHeader, HeaderIsRead, ReadInfo, heapVars
  <2>2. CASE ReadKey
    <3>1. /\ UNCHANGED <<map, live, allocs>>
          /\ \E key \in Keys : kv' = NewValue(key)
      BY <2>2 DEF ReadKey, heapVars
    <3>2. IsFresh(kv')
      BY <3>1, NewIsFresh
    <3> QED BY <3>1, <3>2, ReadingKeepsHeap
  <2>3. CASE ReadType
    <3>1. /\ UNCHANGED <<map, live, allocs>>
          /\ IsFresh(kv)
          /\ \E x : kv' = [kv EXCEPT !.alt = x]
      BY <2>0, <2>3 DEF ReadType, heapVars
    <3>2. IsFresh(kv')
      BY <3>1, FreshStaysFresh
    <3> QED BY <3>1, <3>2, ReadingKeepsHeap
  <2>4. CASE ReadScalar
    BY <2>0, <2>4, ReadingKeepsHeap DEF ReadScalar, heapVars
  <2>5. CASE ReadString
    <3>1. /\ UNCHANGED <<map, live, allocs>>
          /\ IsFresh(kv)
          /\ kv' = kv \/ \E x : kv' = [kv EXCEPT !.text = x]
      BY <2>0, <2>5 DEF ReadString, Reading, heapVars
    <3>2. IsFresh(kv')
      BY <3>1, FreshStaysFresh
    <3> QED BY <3>1, <3>2, ReadingKeepsHeap
  <2>6. CASE ReadArray
    <3>1. /\ UNCHANGED <<map, live, allocs>>
          /\ IsFresh(kv)
          /\ \/ kv' = kv
             \/ \E x : kv' = [kv EXCEPT !.nested = x]
             \/ \E x : kv' = [kv EXCEPT !.elem = x]
      BY <2>0, <2>6 DEF ReadArray, Reading, heapVars
    <3>2. IsFresh(kv')
      BY <3>1, FreshStaysFresh
    <3> QED BY <3>1, <3>2, ReadingKeepsHeap
  <2>7. CASE EndArray
    BY <2>7, LeakingKeepsHeap
  <2>8. CASE StoreKv
    BY <2>8, StoringKeepsHeap
  <2>9. CASE Refuse
    BY <2>9, LeavingKeepsHeap DEF Refuse
  <2>10. ASSUME Undefined PROVE HeapIInv'
    BY <2>10, ReadingKeepsHeap DEF Undefined, heapVars
  <2>11. CASE SizeTensors
    BY <2>10, <2>11, ReadingKeepsHeap DEF SizeTensors, heapVars
  <2>12. CASE GatherParameters
    BY <2>12, LeavingKeepsHeap, ReadingKeepsHeap DEF GatherParameters, heapVars
  <2>13. CASE SortTensors
    BY <2>13, ReadingKeepsHeap DEF SortTensors, heapVars
  <2>14. CASE BuildCores
    BY <2>10, <2>14, LeavingKeepsHeap DEF BuildCores
  <2>15. CASE UNCHANGED vars
    BY <2>0, <2>15, ReadingKeepsHeap DEF vars, heapVars
  <2> QED BY <2>1, <2>2, <2>3, <2>4, <2>5, <2>6, <2>7, <2>8, <2>9, <2>11, <2>12, <2>13, <2>14, <2>15
          DEF Next
<1> QED BY <1>1, <1>2, PTL DEF Spec

\* Every array in the metadata is allocated and there once, whatever keys and
\* types come in whatever order.
THEOREM NoArrayIsDangling == Spec => []ArraysHeld
<1>1. HeapIInv => ArraysHeld
  BY DEF HeapIInv
<1> QED BY <1>1, HeapInvariant, PTL

-----------------------------------------------------------------------------
(* Types and control.                                                      *)

ReadIInv == ReaderTypeOK /\ Control

LEMMA SizesAreNaturals == \A type \in ScalarTypes : ScalarSize[type] \in Nat
  BY DEF ScalarTypes, ScalarSize

\* The cursor after something was read.
LEMMA TakeType ==
  ASSUME ReaderTypeOK, NEW n \in Nat, Take(n)
  PROVE  length' \in Lengths /\ cursor' \in 0 .. length'
BY GgufAssumption DEF ReaderTypeOK, Take, Room

LEMMA TakeStringType ==
  ASSUME ReaderTypeOK, NEW n \in Nat, TakeString(n)
  PROVE  length' \in Lengths /\ cursor' \in 0 .. length'
BY TakeType DEF TakeString

LEMMA UnreadType ==
  ASSUME ReaderTypeOK, UNCHANGED fileVars
  PROVE  length' \in Lengths /\ cursor' \in 0 .. length'
BY DEF ReaderTypeOK, fileVars

LEMMA ValueFields ==
  ASSUME NEW v \in Value
  PROVE  /\ v # <<>>
         /\ \A x \in Alternatives : [v EXCEPT !.alt = x] \in Value
         /\ \A x \in Alternatives : [v EXCEPT !.elem = x] \in Value
         /\ \A x \in Architectures : [v EXCEPT !.text = x] \in Value
         /\ [v EXCEPT !.nested = TRUE] \in Value
         /\ \A n \in Nat : [v EXCEPT !.array = n] \in Value
<1>1. v # <<>>
  <2>1. "key" \in DOMAIN v
    BY DEF Value
  <2>2. DOMAIN <<>> = {}
    OBVIOUS
  <2> QED BY <2>1, <2>2, Zenon
<1>2. \A x \in Alternatives : [v EXCEPT !.alt = x] \in Value
  BY DEF Value
<1>3. \A x \in Alternatives : [v EXCEPT !.elem = x] \in Value
  BY DEF Value
<1>4. \A x \in Architectures : [v EXCEPT !.text = x] \in Value
  BY DEF Value
<1>5. [v EXCEPT !.nested = TRUE] \in Value
  BY DEF Value
<1>6. \A n \in Nat : [v EXCEPT !.array = n] \in Value
  BY DEF Value
<1> QED BY <1>1, <1>2, <1>3, <1>4, <1>5, <1>6

LEMMA HeaderRead == ASSUME ReadIInv, ReadHeader PROVE ReadIInv'
<1>1. /\ pc = "header" /\ pc' = "key" /\ Take(24)
      /\ UNCHANGED <<stack, kv, log, map, live, allocs, infos, params>>
      /\ counts' \in [tensors : 0 .. MaxTensors, kvs : 0 .. MaxKvs]
      /\ counts'.tensors \in Nat /\ counts'.kvs \in Nat
  BY GgufAssumption DEF ReadHeader, heapVars
<1>2. length' \in Lengths /\ cursor' \in 0 .. length'
  BY <1>1, TakeType DEF ReadIInv
<1>3. log = <<>> /\ infos = <<>> /\ kv = <<>>
  BY <1>1 DEF ReadIInv, Control
<1>4. ReaderTypeOK'
  BY <1>1, <1>2, <1>3 DEF ReadIInv, ReaderTypeOK
<1>5. Control'
  BY <1>1, <1>3 DEF Control
<1> QED BY <1>4, <1>5 DEF ReadIInv

LEMMA KeyRead == ASSUME ReadIInv, ReadKey PROVE ReadIInv'
<1>1. /\ pc = "key" /\ pc' = "type" /\ Len(log) < counts.kvs
      /\ UNCHANGED <<counts, stack, log, map, live, allocs, infos, params>>
  BY DEF ReadKey, heapVars
<1>2. PICK n \in 0 .. MaxString, key \in Keys : TakeString(n) /\ kv' = NewValue(key)
  BY DEF ReadKey
<1>3. length' \in Lengths /\ cursor' \in 0 .. length'
  BY <1>2, GgufAssumption, TakeStringType DEF ReadIInv
<1>4. Len(log) \in Nat /\ Len(log) + 1 \in 1 .. MaxKvs
  BY <1>1, GgufAssumption DEF ReadIInv, ReaderTypeOK
<1>5. kv' \in Value /\ kv'.at = Len(log) + 1
  BY <1>2, <1>4 DEF NewValue, Value, Alternatives
<1>6. ReaderTypeOK'
  BY <1>1, <1>3, <1>5 DEF ReadIInv, ReaderTypeOK
<1>7. Control'
  BY <1>1, <1>5 DEF ReadIInv, Control
<1> QED BY <1>6, <1>7 DEF ReadIInv

LEMMA TypeRead == ASSUME ReadIInv, ReadType PROVE ReadIInv'
<1>1. /\ pc = "type" /\ pc' = "value" /\ Take(4)
      /\ UNCHANGED <<counts, log, map, live, allocs, infos, params>>
  BY DEF ReadType, heapVars
<1>2. PICK type \in FileTypes : /\ stack' = <<[type |-> type, left |-> 1]>>
                                /\ kv' = [kv EXCEPT !.alt = Alternative(type)]
  BY DEF ReadType
<1>3. length' \in Lengths /\ cursor' \in 0 .. length'
  BY <1>1, TakeType DEF ReadIInv
<1>4. kv \in Value /\ kv.at = Len(log) + 1 /\ Len(log) < counts.kvs
  BY <1>1 DEF ReadIInv, Control
<1>5. kv' \in Value /\ kv'.at = kv.at
  <2>1. Alternative(type) \in Alternatives
    BY <1>2 DEF Alternatives
  <2>2. kv' \in Value
    BY <1>2, <1>4, <2>1, ValueFields
  <2>3. kv'.at = kv.at
    BY <1>2, <1>4 DEF Value
  <2> QED BY <2>2, <2>3
<1>6. /\ stack' \in Seq([type : FileTypes, left : Nat])
      /\ stack' # <<>> /\ Len(stack') = 1
  BY <1>2
<1>7. ReaderTypeOK'
  BY <1>1, <1>3, <1>5, <1>6 DEF ReadIInv, ReaderTypeOK
<1>8. Control'
  BY <1>1, <1>4, <1>5, <1>6 DEF Control
<1> QED BY <1>7, <1>8 DEF ReadIInv

LEMMA StackFacts ==
  ASSUME NEW S, NEW s \in Seq(S)
  PROVE  /\ Len(s) \in Nat /\ (s = <<>> <=> Len(s) = 0)
         /\ s # <<>> => /\ 1 \in DOMAIN s /\ s[1] \in S /\ Head(s) = s[1]
                        /\ Tail(s) \in Seq(S) /\ Len(Tail(s)) = Len(s) - 1
  OBVIOUS

\* One value less is left to read.
LEMMA OneLessType ==
  ASSUME ReadIInv, Reading
  PROVE  /\ OneLess \in Seq([type : FileTypes, left : Nat]) /\ Len(OneLess) = Len(stack)
         /\ OneLess # <<>>
         /\ Wanted \in FileTypes
<1>1. stack \in Seq([type : FileTypes, left : Nat]) /\ stack # <<>> /\ Head(stack).left > 0
  BY DEF ReadIInv, ReaderTypeOK, Control, Reading
<1>2. 1 \in DOMAIN stack /\ stack[1] \in [type : FileTypes, left : Nat] /\ Head(stack) = stack[1]
  BY <1>1, StackFacts
<1> DEFINE less == [stack[1] EXCEPT !.left = @ - 1]
<1>3. less \in [type : FileTypes, left : Nat]
  BY <1>1, <1>2
<1>4. OneLess = [stack EXCEPT ![1] = less]
  BY DEF OneLess
<1> HIDE DEF less
<1>5. OneLess \in Seq([type : FileTypes, left : Nat]) /\ Len(OneLess) = Len(stack)
  BY <1>1, <1>2, <1>3, <1>4
<1> QED BY <1>1, <1>2, <1>5 DEF Wanted

LEMMA ScalarRead == ASSUME ReadIInv, ReadScalar PROVE ReadIInv'
<1>1. /\ Reading /\ Wanted \in ScalarTypes /\ Take(ScalarSize[Wanted]) /\ stack' = OneLess
      /\ UNCHANGED <<pc, counts, kv, log, map, live, allocs, infos, params>>
  BY DEF ReadScalar, heapVars
<1>2. length' \in Lengths /\ cursor' \in 0 .. length'
  BY <1>1, TakeType, SizesAreNaturals DEF ReadIInv
<1>3. ReaderTypeOK'
  BY <1>1, <1>2, OneLessType DEF ReadIInv, ReaderTypeOK
<1>4. Control'
  BY <1>1, OneLessType DEF ReadIInv, Control
<1> QED BY <1>3, <1>4 DEF ReadIInv

LEMMA StringRead == ASSUME ReadIInv, ReadString PROVE ReadIInv'
<1>1. /\ Reading /\ pc = "value" /\ stack' = OneLess
      /\ UNCHANGED <<pc, counts, log, map, live, allocs, infos, params>>
      /\ kv' = kv \/ \E text \in Architectures : kv' = [kv EXCEPT !.text = text]
  BY DEF ReadString, Reading, heapVars
<1>2. length' \in Lengths /\ cursor' \in 0 .. length'
  BY GgufAssumption, TakeStringType DEF ReadIInv, ReadString
<1>3. kv \in Value
  BY <1>1 DEF ReadIInv, Control
<1>4. kv' \in Value /\ kv'.at = kv.at /\ kv'.nested = kv.nested
  <2>1. kv' \in Value
    BY <1>1, <1>3, ValueFields
  <2>2. kv'.at = kv.at /\ kv'.nested = kv.nested
    BY <1>1, <1>3 DEF Value
  <2> QED BY <2>1, <2>2
<1>5. ReaderTypeOK'
  BY <1>1, <1>2, <1>4, OneLessType DEF ReadIInv, ReaderTypeOK
<1>6. Control'
  BY <1>1, <1>4, OneLessType DEF ReadIInv, Control
<1> QED BY <1>5, <1>6 DEF ReadIInv

LEMMA ArrayRead == ASSUME ReadIInv, ReadArray PROVE ReadIInv'
<1>1. /\ Reading /\ pc = "value" /\ Take(12)
      /\ UNCHANGED <<pc, counts, log, map, live, allocs, infos, params>>
  BY DEF ReadArray, Reading, heapVars
<1>2. PICK type \in FileTypes, n \in 0 .. MaxArray :
        /\ stack' = <<[type |-> type, left |-> n]>> \o OneLess
        /\ kv' = IF Len(stack) > 1 THEN [kv EXCEPT !.nested = TRUE]
                 ELSE IF n > 0 THEN [kv EXCEPT !.elem = Alternative(type)]
                 ELSE kv
  BY DEF ReadArray
<1>3. length' \in Lengths /\ cursor' \in 0 .. length'
  BY <1>1, TakeType DEF ReadIInv
<1>4. kv \in Value
  BY <1>1 DEF ReadIInv, Control
<1>5. kv' \in Value
  <2>1. Alternative(type) \in Alternatives
    BY <1>2 DEF Alternatives
  <2> QED BY <1>2, <1>4, <2>1, ValueFields
<1>6. kv'.at = kv.at /\ (Len(stack) > 1 => kv'.nested)
  BY <1>2, <1>4 DEF Value
<1>7. /\ stack' \in Seq([type : FileTypes, left : Nat])
      /\ Len(stack') = Len(stack) + 1 /\ stack' # <<>>
  <2>1. n \in Nat
    BY GgufAssumption
  <2>2. <<[type |-> type, left |-> n]>> \in Seq([type : FileTypes, left : Nat])
    BY <2>1
  <2>3. /\ OneLess \in Seq([type : FileTypes, left : Nat])
        /\ Len(OneLess) = Len(stack) /\ Len(stack) \in Nat
    BY <1>1, OneLessType DEF ReadIInv, ReaderTypeOK
  <2> DEFINE one == <<[type |-> type, left |-> n]>>
  <2>4. Len(one) = 1 /\ stack' = one \o OneLess
    BY <1>2
  <2> HIDE DEF one
  <2>5. /\ stack' \in Seq([type : FileTypes, left : Nat])
        /\ Len(stack') = Len(one) + Len(OneLess)
    BY <2>2, <2>3, <2>4 DEF one
  <2>6. Len(stack') = Len(stack) + 1 /\ Len(stack') # 0
    BY <2>3, <2>4, <2>5
  <2>7. Len(<<>>) = 0
    OBVIOUS
  <2>8. stack' # <<>>
    BY <2>6, <2>7, Zenon
  <2> QED BY <2>5, <2>6, <2>8
<1>8. Len(stack) \in Nat
  BY DEF ReadIInv, ReaderTypeOK
<1>9. ReaderTypeOK'
  BY <1>1, <1>3, <1>5, <1>7 DEF ReadIInv, ReaderTypeOK
<1>10. Control'
  BY <1>1, <1>5, <1>6, <1>7, <1>8 DEF ReadIInv, Control
<1> QED BY <1>9, <1>10 DEF ReadIInv

LEMMA ArrayEnded == ASSUME ReadIInv, EndArray PROVE ReadIInv'
<1>1. /\ pc = "value" /\ Len(stack) > 1 /\ stack' = Tail(stack)
      /\ UNCHANGED <<length, cursor, pc, counts, kv, log, map, infos, params>>
      /\ \/ UNCHANGED <<live, allocs>>
         \/ live' = live \cup {allocs + 1} /\ allocs' = allocs + 1
  BY DEF EndArray, fileVars, heapVars
<1>2. stack \in Seq([type : FileTypes, left : Nat])
  BY DEF ReadIInv, ReaderTypeOK
<1>3. /\ stack' \in Seq([type : FileTypes, left : Nat])
      /\ Len(stack') = Len(stack) - 1 /\ stack' # <<>>
  <2>1. stack # <<>>
    BY <1>1, <1>2, StackFacts
  <2>2. /\ stack' \in Seq([type : FileTypes, left : Nat])
        /\ Len(stack') = Len(stack) - 1 /\ Len(stack) \in Nat
    BY <1>1, <1>2, <2>1, StackFacts
  <2>3. Len(stack) > 1
    BY <1>1
  <2>4. Len(stack') # 0
    BY <2>2, <2>3
  <2> QED BY <2>2, <2>4, StackFacts
<1>4. allocs' \in Nat /\ live' \subseteq 1 .. allocs'
  BY <1>1 DEF ReadIInv, ReaderTypeOK
<1>5. ReaderTypeOK'
  BY <1>1, <1>3, <1>4 DEF ReadIInv, ReaderTypeOK
<1>6. Control'
  BY <1>1, <1>2, <1>3 DEF ReadIInv, Control
<1> QED BY <1>5, <1>6 DEF ReadIInv

\* What storing a value does to the metadata.
LEMMA StoreFacts ==
  ASSUME ReadIInv, StoreKv
  PROVE  /\ kv \in Value /\ kv' = <<>> /\ log' = Append(log, kv) /\ Len(log) < counts.kvs
         /\ kv.at = Len(log) + 1
         /\ pc = "value" /\ pc' = "key" /\ stack' = <<>>
         /\ DOMAIN map' = {kv.key} \cup DOMAIN map
         /\ \A key \in DOMAIN map : key # kv.key => map'[key] = map[key]
         /\ map'[kv.key] \in Value
         /\ map'[kv.key] = [kv EXCEPT !.array = map'[kv.key].array]
         /\ kv.alt = "array" => map'[kv.key].array = allocs + 1
         /\ kv.alt # "array" => map'[kv.key] = kv
         /\ map' = [key \in DOMAIN map' |-> map'[key]]
<1>1. /\ pc = "value" /\ pc' = "key" /\ stack' = <<>> /\ kv' = <<>> /\ log' = Append(log, kv)
  BY DEF StoreKv, KvIsRead, ReadOn
<1>2. kv \in Value /\ Len(log) < counts.kvs /\ kv.at = Len(log) + 1
  BY <1>1 DEF ReadIInv, Control
<1>3. PICK new : /\ map' = Assigned(map, kv.key, new)
                 /\ new = IF kv.alt = "array" THEN [kv EXCEPT !.array = allocs + 1] ELSE kv
  BY DEF StoreKv
<1>4. /\ DOMAIN map' = {kv.key} \cup DOMAIN map /\ map'[kv.key] = new
      /\ \A key \in DOMAIN map : key # kv.key => map'[key] = map[key]
      /\ map' = [key \in DOMAIN map' |-> map'[key]]
  BY <1>3 DEF Assigned
<1>5. /\ new \in Value /\ new = [kv EXCEPT !.array = new.array]
      /\ kv.alt = "array" => new.array = allocs + 1
      /\ kv.alt # "array" => new = kv
  <2>1. CASE kv.alt = "array"
    <3>1. new = [kv EXCEPT !.array = allocs + 1] /\ allocs + 1 \in Nat
      BY <1>3, <2>1 DEF ReadIInv, ReaderTypeOK
    <3>2. new \in Value
      BY <1>2, <3>1, ValueFields
    <3>3. new.array = allocs + 1
      BY <1>2, <3>1 DEF Value
    <3> QED BY <2>1, <3>1, <3>2, <3>3
  <2>2. CASE kv.alt # "array"
    <3>1. new = kv
      BY <1>3, <2>2
    <3>2. kv = [kv EXCEPT !.array = kv.array]
      BY <1>2 DEF Value
    <3> QED BY <1>2, <2>2, <3>1, <3>2
  <2> QED BY <2>1, <2>2
<1> QED BY <1>1, <1>2, <1>4, <1>5

LEMMA KvStored == ASSUME ReadIInv, StoreKv PROVE ReadIInv'
<1>1. UNCHANGED <<length, cursor, counts, infos, params>>
  BY DEF StoreKv, ReadOn, fileVars
<1>2. log \in Seq(Value) /\ counts.kvs \in Nat
  BY GgufAssumption DEF ReadIInv, ReaderTypeOK
<1>3. log' \in Seq(Value) /\ Len(log') <= counts.kvs
  BY <1>2, StoreFacts
<1>4. map' \in [DOMAIN map' -> Value] /\ DOMAIN map' \subseteq Keys
  <2>1. kv.key \in Keys
    BY StoreFacts DEF Value
  <2>2. map \in [DOMAIN map -> Value] /\ DOMAIN map \subseteq Keys
    BY DEF ReadIInv, ReaderTypeOK
  <2>3. \A key \in DOMAIN map' : map'[key] \in Value
    BY <2>2, StoreFacts
  <2>4. map' = [key \in DOMAIN map' |-> map'[key]] /\ DOMAIN map' = {kv.key} \cup DOMAIN map
    BY StoreFacts
  <2> QED BY <2>1, <2>2, <2>3, <2>4
<1>5. allocs' \in Nat /\ live' \subseteq 1 .. allocs'
  <2>1. \/ UNCHANGED <<live, allocs>>
        \/ allocs' = allocs + 1 /\ \E old : live' = (live \ {old}) \cup {allocs + 1}
    BY DEF StoreKv, heapVars
  <2> QED BY <2>1 DEF ReadIInv, ReaderTypeOK
<1>6. stack' \in Seq([type : FileTypes, left : Nat])
  BY StoreFacts
<1>7. ReaderTypeOK'
  BY <1>1, <1>3, <1>4, <1>5, <1>6, StoreFacts DEF ReadIInv, ReaderTypeOK
<1>8. Control'
  BY StoreFacts DEF Control
<1> QED BY <1>7, <1>8 DEF ReadIInv

LEMMA InfosTurn == ASSUME ReadIInv, HeaderIsRead PROVE ReadIInv'
<1>1. /\ pc = "key" /\ pc' = "info"
      /\ UNCHANGED <<length, cursor, counts, stack, kv, log, map, live, allocs, infos, params>>
  BY DEF HeaderIsRead, fileVars, heapVars
<1>2. ReaderTypeOK'
  BY <1>1 DEF ReadIInv, ReaderTypeOK
<1>3. Control'
  BY <1>1 DEF ReadIInv, Control
<1> QED BY <1>2, <1>3 DEF ReadIInv

LEMMA InfoRead == ASSUME ReadIInv, ReadInfo PROVE ReadIInv'
<1>1. /\ pc = "info" /\ Len(infos) < counts.tensors
      /\ UNCHANGED <<pc, counts, stack, kv, log, map, live, allocs, params>>
  BY DEF ReadInfo, heapVars
<1>2. PICK n \in 0 .. MaxString, name \in Names, dims \in 0 .. MaxDims :
        /\ Take(8 + n + 4 + 8 * dims + 4 + 8)
        /\ infos' = Append(infos, [name |-> name, dims |-> dims])
  BY DEF ReadInfo
<1>3. length' \in Lengths /\ cursor' \in 0 .. length'
  <2>1. 8 + n + 4 + 8 * dims + 4 + 8 \in Nat
    BY GgufAssumption
  <2> QED BY <1>2, <2>1, TakeType DEF ReadIInv
<1>4. /\ infos' \in Seq([name : Names, dims : 0 .. MaxDims])
      /\ Len(infos') <= counts.tensors
  <2> DEFINE info == [name |-> name, dims |-> dims]
             S == [name : Names, dims : 0 .. MaxDims]
  <2>1. info \in S /\ infos \in Seq(S) /\ counts.tensors \in Nat
    BY GgufAssumption DEF ReadIInv, ReaderTypeOK
  <2>2. infos' = Append(infos, info)
    BY <1>2
  <2> HIDE DEF info, S
  <2>3. infos' \in Seq(S) /\ Len(infos') = Len(infos) + 1 /\ Len(infos) \in Nat
    BY <2>1, <2>2
  <2> QED BY <1>1, <2>1, <2>3 DEF S
<1>5. ReaderTypeOK'
  BY <1>1, <1>3, <1>4 DEF ReadIInv, ReaderTypeOK
<1>6. Control'
  BY <1>1 DEF ReadIInv, Control
<1> QED BY <1>5, <1>6 DEF ReadIInv

LEMMA ReaderLeft ==
  ASSUME ReadIInv, NEW how \in {"thrown", "returned"}, Leave(how), how = "returned" => kv = <<>>
  PROVE  ReadIInv'
<1>1. /\ pc' = how /\ map' = <<>> /\ live' \subseteq live
      /\ UNCHANGED <<length, cursor, counts, stack, kv, log, allocs, infos, params>>
  BY DEF Leave, fileVars
<1>2. map' \in [DOMAIN map' -> Value] /\ DOMAIN map' \subseteq Keys
  BY <1>1
<1>3. ReaderTypeOK'
  BY <1>1, <1>2 DEF ReadIInv, ReaderTypeOK
<1>4. Control'
  BY <1>1 DEF Control
<1> QED BY <1>3, <1>4 DEF ReadIInv

LEMMA ReaderStopped == ASSUME ReadIInv, Undefined, kv = <<>> PROVE ReadIInv'
<1>1. /\ pc' = "undefined"
      /\ UNCHANGED <<length, cursor, counts, stack, kv, log, map, live, allocs, infos, params>>
  BY DEF Undefined, fileVars, heapVars
<1>2. ReaderTypeOK'
  BY <1>1 DEF ReadIInv, ReaderTypeOK
<1>3. Control'
  BY <1>1 DEF Control
<1> QED BY <1>2, <1>3 DEF ReadIInv

LEMMA TensorsSized == ASSUME ReadIInv, SizeTensors PROVE ReadIInv'
<1>1. pc = "info" /\ kv = <<>>
  BY DEF ReadIInv, Control, SizeTensors
<1>2. CASE Undefined
  BY <1>1, <1>2, ReaderStopped
<1>3. CASE ~Undefined
  <2>1. /\ pc' = "params"
        /\ UNCHANGED <<length, cursor, counts, stack, kv, log, map, live, allocs, infos, params>>
    BY <1>3 DEF SizeTensors, fileVars, heapVars
  <2>2. ReaderTypeOK'
    BY <2>1 DEF ReadIInv, ReaderTypeOK
  <2>3. Control'
    BY <1>1, <2>1 DEF Control
  <2> QED BY <2>2, <2>3 DEF ReadIInv
<1> QED BY <1>2, <1>3

LEMMA ParametersGathered == ASSUME ReadIInv, GatherParameters PROVE ReadIInv'
<1>1. pc = "params" /\ kv = <<>>
  BY DEF ReadIInv, Control, GatherParameters
<1>2. CASE Leave("thrown")
  BY <1>2, ReaderLeft
<1>3. CASE ~Leave("thrown")
  <2>1. /\ pc' = "sort"
        /\ UNCHANGED <<length, cursor, counts, stack, kv, log, map, live, allocs, infos>>
        /\ params' = [p \in Params |-> LET key == <<Architecture, p>>
                                       IN IF Has(key, AltOf(p)) THEN map[key].at ELSE 0]
    BY <1>3 DEF GatherParameters, fileVars, heapVars
  <2>2. \A key \in DOMAIN map : map[key].at \in 0 .. MaxKvs
    <3>1. \A v \in Value : v.at \in 0 .. MaxKvs
      <4>1. MaxKvs \in Nat
        BY GgufAssumption
      <4>2. \A v \in Value : v.at \in 1 .. MaxKvs
        BY DEF Value
      <4> QED BY <4>1, <4>2
    <3>2. \A key \in DOMAIN map : map[key] \in Value
      BY DEF ReadIInv, ReaderTypeOK
    <3> QED BY <3>1, <3>2
  <2>3. 0 \in 0 .. MaxKvs
    BY GgufAssumption
  <2>4. params' \in [Params -> 0 .. MaxKvs]
    BY <2>1, <2>2, <2>3 DEF Has
  <2>5. ReaderTypeOK'
    BY <2>1, <2>4 DEF ReadIInv, ReaderTypeOK
  <2>6. Control'
    BY <1>1, <2>1 DEF Control
  <2> QED BY <2>5, <2>6 DEF ReadIInv
<1> QED BY <1>2, <1>3

LEMMA TensorsSorted == ASSUME ReadIInv, SortTensors PROVE ReadIInv'
<1>1. /\ pc = "sort" /\ pc' = "cores" /\ kv = <<>>
      /\ UNCHANGED <<length, cursor, counts, stack, kv, log, map, live, allocs, params>>
  BY DEF ReadIInv, Control, SortTensors, fileVars, heapVars
<1>2. PICK perm \in Bijection(DOMAIN infos, DOMAIN infos) :
        infos' = [i \in DOMAIN infos |-> infos[perm[i]]]
  BY DEF SortTensors
<1>3. infos' \in Seq([name : Names, dims : 0 .. MaxDims]) /\ Len(infos') = Len(infos)
  <2> DEFINE S == [name : Names, dims : 0 .. MaxDims]
  <2>1. infos \in Seq(S)
    BY DEF ReadIInv, ReaderTypeOK
  <2>2. perm \in [DOMAIN infos -> DOMAIN infos]
    BY DEF Bijection, Injection
  <2> HIDE DEF S
  <2>3. Len(infos) \in Nat /\ DOMAIN infos = 1 .. Len(infos)
    BY <2>1
  <2>4. infos' \in [1 .. Len(infos) -> S]
    BY <1>2, <2>1, <2>2, <2>3
  <2>5. infos' \in Seq(S) /\ Len(infos') = Len(infos)
    BY <2>3, <2>4
  <2> QED BY <2>5 DEF S
<1>4. ReaderTypeOK'
  BY <1>1, <1>3 DEF ReadIInv, ReaderTypeOK
<1>5. Control'
  BY <1>1 DEF Control
<1> QED BY <1>4, <1>5 DEF ReadIInv

LEMMA CoresBuilt == ASSUME ReadIInv, BuildCores PROVE ReadIInv'
<1>1. kv = <<>>
  BY DEF ReadIInv, Control, BuildCores
<1> QED BY <1>1, ReaderLeft, ReaderStopped DEF BuildCores

LEMMA ReadInvariant == Spec => []ReadIInv
<1>1. Init => ReadIInv
  <2> SUFFICES ASSUME Init PROVE ReadIInv
    OBVIOUS
  <2>1. /\ length \in Lengths /\ length \in Nat /\ cursor = 0 /\ pc = "header"
        /\ counts = [tensors |-> 0, kvs |-> 0]
        /\ stack = <<>> /\ kv = <<>> /\ log = <<>> /\ map = <<>> /\ live = {} /\ allocs = 0
        /\ infos = <<>> /\ params = [p \in Params |-> 0]
    BY GgufAssumption DEF Init
  <2>2. /\ 0 \in 0 .. MaxTensors /\ 0 \in 0 .. MaxKvs /\ 0 \in 0 .. length
    BY <2>1, GgufAssumption
  <2>3. map \in [DOMAIN map -> Value] /\ DOMAIN map \subseteq Keys
    BY <2>1
  <2>4. ReaderTypeOK
    BY <2>1, <2>2, <2>3 DEF ReaderTypeOK
  <2>5. Control
    BY <2>1 DEF Control
  <2> QED BY <2>4, <2>5 DEF ReadIInv
<1>2. ReadIInv /\ [Next]_vars => ReadIInv'
  <2> SUFFICES ASSUME ReadIInv, [Next]_vars PROVE ReadIInv'
    OBVIOUS
  <2>1. CASE Refuse
    BY <2>1, ReaderLeft DEF Refuse
  <2>2. CASE UNCHANGED vars
    BY <2>2 DEF ReadIInv, ReaderTypeOK, Control, vars, fileVars, heapVars
  <2> QED BY <2>1, <2>2, HeaderRead, KeyRead, TypeRead, ScalarRead, StringRead, ArrayRead, ArrayEnded,
             KvStored, InfosTurn, InfoRead, TensorsSized, ParametersGathered, TensorsSorted,
             CoresBuilt DEF Next
<1> QED BY <1>1, <1>2, PTL DEF Spec

\* Whatever the file contains, the parser reads no more kvs and tensors than
\* its header counts, a parameter is from one of these, and no array's
\* identity was not given out.
THEOREM ParserTypeCorrect == Spec => []ReaderTypeOK
<1>1. ReadIInv => ReaderTypeOK
  BY DEF ReadIInv
<1> QED BY <1>1, ReadInvariant, PTL

-----------------------------------------------------------------------------
(* The metadata and what was read.                                         *)

\* Which steps touch what was read, the metadata and the value being read.
LEMMA Untouched ==
  ASSUME ReadIInv, [Next]_vars,
         ~StoreKv, ~Refuse, ~BuildCores, ~GatherParameters
  PROVE  /\ UNCHANGED <<log, map>>
         /\ pc' \in {"returned", "thrown"} => pc \in {"returned", "thrown"}
BY DEF Next, ReadHeader, ReadKey, ReadType, ReadScalar, ReadString, ReadArray, EndArray, HeaderIsRead,
       ReadInfo, SizeTensors, Undefined, SortTensors, vars, Reading, KvIsRead

LEMMA LeavingOrNot ==
  ASSUME ReadIInv, Refuse \/ BuildCores \/ GatherParameters
  PROVE  /\ log' = log /\ kv' = kv /\ pc \notin {"returned", "thrown"}
         /\ \/ pc' \in {"returned", "thrown"} /\ map' = <<>> /\ live' = live \ Held
            \/ pc' \notin {"returned", "thrown"} /\ map' = map /\ live' = live
BY DEF Refuse, BuildCores, GatherParameters, Leave, Undefined, heapVars

LEMMA LastIsLast ==
  ASSUME ReadIInv, StoreKv, NEW key
  PROVE  /\ DOMAIN log' = DOMAIN log \cup {Len(log) + 1} /\ Len(log) + 1 \notin DOMAIN log
         /\ \A i \in DOMAIN log : log'[i] = log[i]
         /\ log'[Len(log) + 1] = kv
         /\ key = kv.key => LastOf(key)' = {Len(log) + 1}
         /\ key # kv.key => LastOf(key)' = LastOf(key)
<1>1. log \in Seq(Value) /\ log' = Append(log, kv) /\ kv \in Value
  BY StoreFacts DEF ReadIInv, ReaderTypeOK
<1> DEFINE n == Len(log) + 1
<1>2. /\ Len(log) \in Nat /\ DOMAIN log = 1 .. Len(log)
      /\ Len(log') = n /\ DOMAIN log' = 1 .. n
      /\ \A i \in 1 .. Len(log) : log'[i] = log[i]
      /\ log'[n] = kv
  BY <1>1
<1>3. DOMAIN log' = DOMAIN log \cup {n} /\ n \notin DOMAIN log
  BY <1>2
<1>4. CASE key = kv.key
  <2>1. n \in LastOf(key)'
    BY <1>2, <1>3, <1>4 DEF LastOf
  <2>2. ASSUME NEW i \in LastOf(key)' PROVE i = n
    <3>1. i \in 1 .. n /\ \A j \in i + 1 .. n : log'[j].key # key
      BY <1>2 DEF LastOf
    <3>2. ~(n \in i + 1 .. n)
      BY <1>2, <1>4, <3>1
    <3> QED BY <1>2, <3>1, <3>2
  <2> QED BY <1>2, <1>3, <1>4, <2>1, <2>2
<1>5. CASE key # kv.key
  <2>1. ASSUME NEW i \in LastOf(key)' PROVE i \in LastOf(key)
    <3>1. i \in 1 .. n /\ log'[i].key = key /\ \A j \in i + 1 .. n : log'[j].key # key
      BY <1>2 DEF LastOf
    <3>2. i \in 1 .. Len(log)
      BY <1>2, <1>5, <3>1
    <3> QED BY <1>2, <3>1, <3>2 DEF LastOf
  <2>2. ASSUME NEW i \in LastOf(key) PROVE i \in LastOf(key)'
    <3>1. i \in 1 .. Len(log) /\ log[i].key = key /\ \A j \in i + 1 .. Len(log) : log[j].key # key
      BY <1>2 DEF LastOf
    <3>2. \A j \in i + 1 .. n : j \in i + 1 .. Len(log) \/ j = n
      BY <1>2, <3>1
    <3>3. \A j \in i + 1 .. n : log'[j].key # key
      BY <1>2, <1>5, <3>1, <3>2
    <3> QED BY <1>2, <3>1, <3>3 DEF LastOf
  <2>3. LastOf(key)' = LastOf(key)
    BY <2>1, <2>2
  <2> QED BY <1>2, <1>3, <1>5, <2>3
<1> QED BY <1>4, <1>5

LEMMA StoringKeepsLatest ==
  ASSUME ReadIInv, MapIsLatest, StoreKv
  PROVE  MapIsLatest'
<1> DEFINE n == Len(log) + 1
<1>1. pc \notin {"returned", "thrown"}
  BY StoreFacts
<1>2. /\ DOMAIN map = {log[i].key : i \in DOMAIN log}
      /\ \A key \in DOMAIN map : /\ map[key].at \in LastOf(key)
                                 /\ map[key] = [log[map[key].at] EXCEPT !.array = map[key].array]
  BY <1>1 DEF MapIsLatest
<1>3. /\ DOMAIN log' = DOMAIN log \cup {n} /\ n \notin DOMAIN log
      /\ \A i \in DOMAIN log : log'[i] = log[i]
      /\ log'[n] = kv
      /\ \A key : key = kv.key => LastOf(key)' = {n}
      /\ \A key : key # kv.key => LastOf(key)' = LastOf(key)
  BY LastIsLast
<1>4. DOMAIN map' = {log'[i].key : i \in DOMAIN log'}
  <2>1. DOMAIN map' = {kv.key} \cup DOMAIN map
    BY StoreFacts
  <2> QED BY <1>2, <1>3, <2>1
<1>5. ASSUME NEW key \in DOMAIN map'
      PROVE  /\ map'[key].at \in LastOf(key)'
             /\ map'[key] = [log'[map'[key].at] EXCEPT !.array = map'[key].array]
  <2>1. CASE key = kv.key
    <3>1. map'[key] = [kv EXCEPT !.array = map'[key].array] /\ kv \in Value /\ kv.at = n
      BY <2>1, StoreFacts
    <3>2. map'[key].at = n
      BY <3>1 DEF Value
    <3> QED BY <1>3, <2>1, <3>1, <3>2
  <2>2. CASE key # kv.key
    <3>1. key \in DOMAIN map /\ map'[key] = map[key]
      BY <1>5, <2>2, StoreFacts
    <3>2. map[key].at \in DOMAIN log
      BY <1>2, <3>1 DEF LastOf
    <3>3. log'[map[key].at] = log[map[key].at]
      BY <1>3, <3>2
    <3> QED BY <1>2, <1>3, <2>2, <3>1, <3>3
  <2> QED BY <2>1, <2>2
<1> QED BY <1>4, <1>5 DEF MapIsLatest

LEMMA LatestStep == ReadIInv /\ MapIsLatest /\ [Next]_vars => MapIsLatest'
<1> SUFFICES ASSUME ReadIInv, MapIsLatest, [Next]_vars PROVE MapIsLatest'
  OBVIOUS
<1>1. ASSUME UNCHANGED <<log, map>>,
             pc' \in {"returned", "thrown"} \/ pc \notin {"returned", "thrown"}
      PROVE  MapIsLatest'
  BY <1>1 DEF MapIsLatest, LastOf
<1>2. CASE StoreKv
  BY <1>2, StoringKeepsLatest
<1>3. CASE Refuse \/ BuildCores \/ GatherParameters
  <2>1. CASE pc' \in {"returned", "thrown"}
    BY <2>1 DEF MapIsLatest
  <2>2. CASE pc' \notin {"returned", "thrown"}
    BY <1>1, <1>3, <2>2, LeavingOrNot
  <2> QED BY <2>1, <2>2
<1>4. CASE UNCHANGED vars
  BY <1>4 DEF vars, MapIsLatest, LastOf
<1>5. CASE Next /\ ~(StoreKv \/ Refuse \/ BuildCores \/ GatherParameters)
  <2>1. UNCHANGED <<log, map>>
    BY <1>5, Untouched
  <2>2. pc \notin {"returned", "thrown"} \/ UNCHANGED vars
    BY <1>5 DEF Next, ReadHeader, ReadKey, ReadType, ReadScalar, ReadString, ReadArray, EndArray,
                HeaderIsRead, ReadInfo, SizeTensors, SortTensors, Reading
  <2> QED BY <1>1, <1>4, <2>1, <2>2
<1> QED BY <1>2, <1>3, <1>4, <1>5

-----------------------------------------------------------------------------
(* Leaks.                                                                  *)

\* What has been leaked stays leaked, and the file it was read from stays.
LEMMA LeakyStays == ASSUME ReadIInv, [Next]_vars, Leaky PROVE Leaky'
<1>1. CASE StoreKv
  <2>1. /\ DOMAIN log' = DOMAIN log \cup {Len(log) + 1} /\ Len(log) + 1 \notin DOMAIN log
        /\ \A i \in DOMAIN log : log'[i] = log[i]
        /\ log'[Len(log) + 1] = kv
    BY <1>1, LastIsLast
  <2>2. CASE \E i \in DOMAIN log : log[i].nested
    BY <2>1, <2>2 DEF Leaky
  <2>3. CASE kv # <<>> /\ kv.nested
    BY <2>1, <2>3 DEF Leaky
  <2>4. CASE \E i, j \in DOMAIN log : /\ i < j /\ log[i].key = log[j].key
                                      /\ log[i].alt = "array" /\ log[j].alt # "array"
    BY <2>1, <2>4 DEF Leaky
  <2> QED BY <2>2, <2>3, <2>4 DEF Leaky
<1>2. ASSUME log' = log, kv # <<>> /\ kv.nested => kv' # <<>> /\ kv'.nested PROVE Leaky'
  BY <1>2 DEF Leaky
<1>3. CASE ReadKey
  BY <1>2, <1>3 DEF ReadKey, ReadIInv, Control
<1>4. CASE ReadType \/ ReadString \/ ReadArray
  <2>1. pc \in {"type", "value"} /\ log' = log
    BY <1>4 DEF ReadType, ReadString, ReadArray, Reading
  <2>2. kv \in Value
    BY <2>1 DEF ReadIInv, Control
  <2>3. \/ kv' = kv
        \/ \E x \in Alternatives : kv' = [kv EXCEPT !.alt = x]
        \/ \E x \in Alternatives : kv' = [kv EXCEPT !.elem = x]
        \/ \E x \in Architectures : kv' = [kv EXCEPT !.text = x]
        \/ kv' = [kv EXCEPT !.nested = TRUE]
    BY <1>4 DEF ReadType, ReadString, ReadArray, Alternatives
  <2>4. kv' # <<>>
    BY <2>2, <2>3, ValueFields
  <2>5. kv.nested => kv'.nested
    BY <2>2, <2>3 DEF Value
  <2> QED BY <1>2, <2>1, <2>4, <2>5
<1>5. CASE Refuse \/ BuildCores \/ GatherParameters
  BY <1>2, <1>5, LeavingOrNot
<1>6. CASE ReadHeader \/ ReadScalar \/ EndArray \/ HeaderIsRead \/ ReadInfo \/ SizeTensors \/ SortTensors
  BY <1>2, <1>6 DEF ReadHeader, ReadScalar, EndArray, HeaderIsRead, ReadInfo, SizeTensors, Undefined,
                    SortTensors
<1>7. CASE UNCHANGED vars
  BY <1>2, <1>7 DEF vars
<1> QED BY <1>1, <1>3, <1>4, <1>5, <1>6, <1>7 DEF Next

\* Storing a value loses an array only when it replaces one by none.
LEMMA StoringLosesNone ==
  ASSUME ReadIInv, HeapIInv, MapIsLatest, LeaksAreKnown, StoreKv
  PROVE  LeaksAreKnown'
<1> SUFFICES ASSUME live = Held, ~Leaky' PROVE live' = Held'
  BY LeakyStays DEF LeaksAreKnown, Next
<1> DEFINE key == kv.key
           old == IF key \in DOMAIN map THEN map[key].array ELSE 0
<1>1. /\ DOMAIN map' = {key} \cup DOMAIN map
      /\ \A other \in DOMAIN map : other # key => map'[other] = map[other]
      /\ kv \in Value
      /\ kv.alt = "array" => map'[key].array = allocs + 1
      /\ kv.alt # "array" => map'[key] = kv
  BY StoreFacts
<1>2. \A other \in DOMAIN map \ {key} : map[other].array = old => map[other].array = 0
  BY DEF HeapIInv, ArraysHeld
<1>3. Held' = ((Held \ {old}) \cup {map'[key].array}) \ {0}
  BY <1>1, <1>2 DEF Held
<1>4. allocs + 1 # 0
  BY DEF ReadIInv, ReaderTypeOK
<1>5. CASE kv.alt = "array"
  <2>1. live' = (live \ {old}) \cup {allocs + 1}
    BY <1>5 DEF StoreKv
  <2>2. 0 \notin live
    BY DEF Held
  <2> QED BY <1>1, <1>3, <1>4, <1>5, <2>1, <2>2
<1>6. CASE kv.alt # "array"
  <2>1. live' = live /\ map'[key].array = 0
    <3>1. pc = "value"
      BY StoreFacts
    <3>2. kv.array = 0
      BY <3>1 DEF HeapIInv, HeapInv, IsFresh
    <3> QED BY <1>1, <1>6, <3>2 DEF StoreKv, heapVars
  <2>2. old = 0
    <3> SUFFICES ASSUME old # 0 PROVE FALSE
      OBVIOUS
    <3>1. key \in DOMAIN map /\ map[key].array # 0
      OBVIOUS
    <3>2. map[key].alt = "array"
      BY <3>1 DEF HeapIInv, HeapInv
    <3>3. PICK i \in DOMAIN log : log[i].key = key /\ map[key] = [log[i] EXCEPT !.array = map[key].array]
      <4>1. pc \notin {"returned", "thrown"}
        BY StoreFacts
      <4> QED BY <3>1, <4>1 DEF MapIsLatest, LastOf
    <3>4. /\ log \in Seq(Value) /\ log[i] \in Value
      BY DEF ReadIInv, ReaderTypeOK
    <3>5. log[i].alt = "array"
      BY <3>2, <3>3, <3>4 DEF Value
    <3>6. /\ DOMAIN log' = DOMAIN log \cup {Len(log) + 1}
          /\ log'[i] = log[i] /\ log'[Len(log) + 1] = kv
      BY LastIsLast
    <3>7. i < Len(log) + 1
      BY <3>4
    <3> QED BY <1>6, <3>3, <3>5, <3>6, <3>7 DEF Leaky
  <2> QED BY <1>3, <2>1, <2>2 DEF Held
<1> QED BY <1>5, <1>6

LEMMA LeakStep ==
  ReadIInv /\ HeapIInv /\ MapIsLatest /\ LeaksAreKnown /\ [Next]_vars => LeaksAreKnown'
<1> SUFFICES ASSUME ReadIInv, HeapIInv, MapIsLatest, LeaksAreKnown, [Next]_vars
             PROVE  LeaksAreKnown'
  OBVIOUS
<1>1. Leaky => Leaky'
  BY LeakyStays
<1>2. ASSUME UNCHANGED <<map, live>> PROVE LeaksAreKnown'
  BY <1>1, <1>2 DEF LeaksAreKnown, Held
<1>3. CASE StoreKv
  BY <1>3, StoringLosesNone
<1>4. CASE EndArray
  <2>1. CASE Len(stack) > 2
    <3>1. kv \in Value /\ kv.nested /\ kv' = kv /\ log' = log
      BY <1>4, <2>1 DEF EndArray, ReadIInv, Control
    <3>2. Leaky'
      BY <3>1, ValueFields DEF Leaky
    <3> QED BY <3>2 DEF LeaksAreKnown
  <2>2. CASE ~(Len(stack) > 2)
    BY <1>2, <1>4, <2>2 DEF EndArray, heapVars
  <2> QED BY <2>1, <2>2
<1>5. CASE Refuse \/ BuildCores \/ GatherParameters
  <2>1. CASE map' = <<>> /\ live' = live \ Held
    <3>1. Held' = {}
      BY <2>1 DEF Held
    <3> QED BY <1>1, <2>1, <3>1 DEF LeaksAreKnown
  <2>2. CASE UNCHANGED <<map, live>>
    BY <1>2, <2>2
  <2> QED BY <1>5, <2>1, <2>2, LeavingOrNot
<1>6. CASE ReadHeader \/ ReadKey \/ ReadType \/ ReadScalar \/ ReadString \/ ReadArray
           \/ HeaderIsRead \/ ReadInfo \/ SizeTensors \/ SortTensors
  BY <1>2, <1>6 DEF ReadHeader, ReadKey, ReadType, ReadScalar, ReadString, ReadArray,
                    HeaderIsRead, ReadInfo, SizeTensors, Undefined, SortTensors, heapVars
<1>7. CASE UNCHANGED vars
  BY <1>2, <1>7 DEF vars, heapVars
<1> QED BY <1>3, <1>4, <1>5, <1>6, <1>7 DEF Next

LEMMA FileInvariant == Spec => [](ReadIInv /\ MapIsLatest /\ LeaksAreKnown)
<1>1. Init => MapIsLatest /\ LeaksAreKnown
  BY DEF Init, MapIsLatest, LeaksAreKnown, Held
<1> QED BY <1>1, LatestStep, LeakStep, ReadInvariant, HeapInvariant, PTL DEF Spec

\* When parse_model has ended, the only arrays that were leaked are elements of
\* another array, and those whose key came again with a value that is none:
\* whatever keys and types the file has, and wherever it breaks off.
THEOREM NoOtherLeak == Spec => []NothingLeaks
<1>1. ReadIInv /\ LeaksAreKnown => NothingLeaks
  BY DEF ReadIInv, Control, LeaksAreKnown, Held, NothingLeaks
<1> QED BY <1>1, FileInvariant, PTL

-----------------------------------------------------------------------------
(* Parameters.                                                             *)

\* The metadata holds all and only the last occurrences of the keys.
LEMMA LastInMap ==
  ASSUME ReadIInv, MapIsLatest, pc \notin {"returned", "thrown"}, NEW key
  PROVE  /\ key \notin DOMAIN map => LastOf(key) = {}
         /\ key \in DOMAIN map => /\ LastOf(key) = {map[key].at}
                                  /\ log[map[key].at].alt = map[key].alt
                                  /\ log[map[key].at].text = map[key].text
<1>1. CASE key \notin DOMAIN map
  BY <1>1 DEF MapIsLatest, LastOf
<1>2. CASE key \in DOMAIN map
  <2> DEFINE at == map[key].at
  <2>1. at \in LastOf(key) /\ map[key] = [log[at] EXCEPT !.array = map[key].array]
    BY <1>2 DEF MapIsLatest
  <2> HIDE DEF at
  <2>2. log \in Seq(Value) /\ at \in DOMAIN log /\ log[at] \in Value
    BY <2>1 DEF ReadIInv, ReaderTypeOK, LastOf
  <2>3. log[at].alt = map[key].alt /\ log[at].text = map[key].text
    BY <2>1, <2>2 DEF Value
  <2>4. ASSUME NEW i \in LastOf(key) PROVE i = at
    <3>1. /\ Len(log) \in Nat /\ i \in 1 .. Len(log) /\ at \in 1 .. Len(log)
          /\ log[i].key = key /\ log[at].key = key
          /\ \A j \in i + 1 .. Len(log) : log[j].key # key
          /\ \A j \in at + 1 .. Len(log) : log[j].key # key
      BY <2>1, <2>2 DEF LastOf
    <3>2. ~(at \in i + 1 .. Len(log)) /\ ~(i \in at + 1 .. Len(log))
      BY <3>1
    <3> QED BY <3>1, <3>2
  <2> QED BY <1>2, <2>1, <2>3, <2>4 DEF at
<1> QED BY <1>1, <1>2

LEMMA GatheredAreLatest ==
  ASSUME ReadIInv, MapIsLatest, GatherParameters
  PROVE  ParametersAreLatest'
<1>1. pc = "params" /\ log' = log
  BY LeavingOrNot DEF GatherParameters
<1>2. CASE pc' # "sort"
  <2>1. pc' = "thrown"
    BY <1>2 DEF GatherParameters, Leave
  <2> QED BY <2>1 DEF ParametersAreLatest
<1>3. CASE pc' = "sort"
  <2>1. params' = [p \in Params |-> LET key == <<Architecture, p>>
                                    IN IF Has(key, AltOf(p)) THEN map[key].at ELSE 0]
    BY <1>3 DEF GatherParameters, Leave
  <2>2. (IF LastText = {} THEN {""} ELSE LastText) = {Architecture}
    <3>1. CASE ArchitectureKey \in DOMAIN map
      BY <1>1, <3>1, LastInMap DEF LastText, Architecture
    <3>2. CASE ArchitectureKey \notin DOMAIN map
      BY <1>1, <3>2, LastInMap DEF LastText, Architecture
    <3> QED BY <3>1, <3>2
  <2>3. ASSUME NEW p \in Params
        PROVE  LET last == {i \in LastOf(<<Architecture, p>>) : log[i].alt = AltOf(p)}
               IN IF last = {} THEN params'[p] = 0 ELSE params'[p] \in last
    <3> DEFINE key == <<Architecture, p>>
    <3>1. params'[p] = IF Has(key, AltOf(p)) THEN map[key].at ELSE 0
      BY <2>1
    <3> HIDE DEF key
    <3>2. CASE key \notin DOMAIN map
      BY <1>1, <3>1, <3>2, LastInMap DEF Has, key
    <3>3. CASE key \in DOMAIN map
      <4>1. LastOf(key) = {map[key].at} /\ log[map[key].at].alt = map[key].alt
        BY <1>1, <3>3, LastInMap
      <4> QED BY <3>1, <3>3, <4>1 DEF Has, key
    <3> QED BY <3>2, <3>3
  <2>4. LastText' = LastText /\ \A key : LastOf(key)' = LastOf(key)
    BY <1>1 DEF LastText, LastOf
  <2> QED BY <1>1, <2>2, <2>3, <2>4 DEF ParametersAreLatest, AltOf
<1> QED BY <1>2, <1>3

\* After these steps nobody looks at the order in which the keys came: the
\* parameters are those of the last occurrences, in whatever file.
THEOREM ParametersAreTheLatest == Spec => []ParametersAreLatest
<1>1. Init => ParametersAreLatest
  BY DEF Init, ParametersAreLatest
<1>2. ReadIInv /\ MapIsLatest /\ ParametersAreLatest /\ [Next]_vars => ParametersAreLatest'
  <2> SUFFICES ASSUME ReadIInv, MapIsLatest, ParametersAreLatest, [Next]_vars
               PROVE  ParametersAreLatest'
    OBVIOUS
  <2>1. ASSUME UNCHANGED <<log, params>>,
               pc' \in {"sort", "cores", "returned"} => pc \in {"sort", "cores", "returned"}
        PROVE  ParametersAreLatest'
    <3>1. LastText' = LastText /\ \A key : LastOf(key)' = LastOf(key)
      BY <2>1 DEF LastText, LastOf
    <3>2. log' = log /\ params' = params
      BY <2>1
    <3> SUFFICES ASSUME pc \in {"sort", "cores", "returned"} PROVE ParametersAreLatest'
      BY <2>1 DEF ParametersAreLatest
    <3> QED BY <3>1, <3>2 DEF ParametersAreLatest
  <2>2. ASSUME pc' \notin {"sort", "cores", "returned"} PROVE ParametersAreLatest'
    BY <2>2 DEF ParametersAreLatest
  <2>3. CASE GatherParameters
    BY <2>3, GatheredAreLatest
  <2>4. CASE SortTensors \/ BuildCores \/ UNCHANGED vars
    BY <2>1, <2>4 DEF SortTensors, BuildCores, Leave, Undefined, vars
  <2>5. CASE ReadHeader \/ ReadKey \/ ReadType \/ ReadScalar \/ ReadString \/ ReadArray \/ EndArray
             \/ StoreKv \/ HeaderIsRead \/ ReadInfo \/ Refuse \/ SizeTensors
    BY <2>2, <2>5 DEF ReadHeader, ReadKey, ReadType, ReadScalar, ReadString, ReadArray, EndArray,
                      StoreKv, ReadOn, HeaderIsRead, ReadInfo, Refuse, Leave, SizeTensors, Undefined,
                      Reading
  <2> QED BY <2>3, <2>4, <2>5 DEF Next
<1> QED BY <1>1, <1>2, FileInvariant, PTL DEF Spec

-----------------------------------------------------------------------------
(* The order of the tensors.                                               *)

\* operator< is a strict weak order on the names of a LLaMA file.
THEOREM LessIsStrictWeak ==
  ASSUME NEW S, \A a \in S : a.text \in Nat /\ a.number \in Nat \cup {NoNumber},
         NumberedAreAdjacent(S)
  PROVE  StrictWeak(S)
<1> USE DEF NoNumber, Numbered
<1>1. \A a \in S : ~Less(a, a)
  BY DEF Less
<1>2. \A a, b, c \in S : Less(a, b) /\ Less(b, c) => Less(a, c)
  BY DEF Less, NumberedAreAdjacent
<1>3. \A a, b, c \in S : Equivalent(a, b) /\ Equivalent(b, c) => Equivalent(a, c)
  BY DEF Less, Equivalent, NumberedAreAdjacent
<1> QED BY <1>1, <1>2, <1>3 DEF StrictWeak

\* What is not less is transitive in a strict weak order.
LEMMA NotLessIsTransitive ==
  ASSUME NEW S, StrictWeak(S), NEW a \in S, NEW b \in S, NEW c \in S, ~Less(b, a), ~Less(c, b)
  PROVE  ~Less(c, a)
<1> SUFFICES ASSUME Less(c, a) PROVE FALSE
  OBVIOUS
<1>1. ~Less(a, b) /\ ~Less(b, c)
  BY DEF StrictWeak
<1>2. Equivalent(a, b) /\ Equivalent(b, c)
  BY <1>1 DEF Equivalent
<1>3. Equivalent(a, c)
  BY <1>2 DEF StrictWeak
<1> QED BY <1>3 DEF Equivalent

\* std::sort compares neighbours; all pairs are in order.
LEMMA SortedPairs ==
  ASSUME ReadIInv', SortTensors
  PROVE  /\ \A i \in DOMAIN infos' : infos'[i].name \in Names
         /\ \A i, j \in DOMAIN infos' : i < j => ~Less(infos'[j].name, infos'[i].name)
         /\ \E n \in Nat : DOMAIN infos' = 1 .. n
<1> DEFINE n == Len(infos')
           R == {p \in (1 .. n) \X (1 .. n) : ~Less(infos'[p[2]].name, infos'[p[1]].name)}
<1>1. infos' \in Seq([name : Names, dims : 0 .. MaxDims])
  BY DEF ReadIInv, ReaderTypeOK
<1>2. n \in Nat /\ DOMAIN infos' = 1 .. n /\ \A i \in 1 .. n : infos'[i].name \in Names
  <2> DEFINE S == [name : Names, dims : 0 .. MaxDims]
  <2>1. \A info \in S : info.name \in Names
    OBVIOUS
  <2>2. infos' \in Seq(S)
    BY <1>1
  <2> HIDE DEF S
  <2>3. n \in Nat /\ DOMAIN infos' = 1 .. n /\ \A i \in 1 .. n : infos'[i] \in S
    BY <2>2
  <2> QED BY <2>1, <2>3
<1>3. \A i \in 1 .. n - 1 : ~Less(infos'[i + 1].name, infos'[i].name)
  <2>1. PICK perm : infos' = [i \in DOMAIN infos |-> infos[perm[i]]]
    BY DEF SortTensors
  <2>2. DOMAIN infos' = DOMAIN infos
    BY <2>1
  <2>3. \A i \in 1 .. Len(infos) - 1 : ~Less(infos'[i + 1].name, infos'[i].name)
    BY DEF SortTensors
  <2> QED BY <2>2, <2>3
<1>4. StrictWeak(Names)
  BY GgufAssumption, LessIsStrictWeak
<1> HIDE DEF n
<1>5. \A i, j \in 1 .. n : <<i, j>> \in R <=> ~Less(infos'[j].name, infos'[i].name)
  OBVIOUS
<1> HIDE DEF R
<1>6. \A i \in 1 .. n - 1 : <<i, i + 1>> \in R
  BY <1>2, <1>3, <1>5
<1>7. \A i, j, k \in 1 .. n : <<i, j>> \in R /\ <<j, k>> \in R => <<i, k>> \in R
  BY <1>2, <1>4, <1>5, NotLessIsTransitive
<1>8. \A i, j \in 1 .. n : i < j => <<i, j>> \in R
  BY <1>2, <1>6, <1>7, NeighboursSuffice
<1> QED BY <1>2, <1>5, <1>8

\* A name without a number is not between two with one: all of its texts are
\* on one side of it.
LEMMA SortedAscend == ASSUME ReadIInv', SortTensors PROVE LayersAscend'
<1> SUFFICES ASSUME NEW i \in DOMAIN infos', NEW j \in DOMAIN infos', i < j,
                    Numbered(infos'[i].name), Numbered(infos'[j].name)
             PROVE  /\ infos'[i].name.number <= infos'[j].name.number
                    /\ \A k \in i .. j : Numbered(infos'[k].name)
  BY DEF LayersAscend
<1>1. PICK n \in Nat : DOMAIN infos' = 1 .. n
  BY SortedPairs
<1>2. \A k \in 1 .. n : /\ infos'[k].name \in Names
                        /\ infos'[k].name.text \in Nat
                        /\ infos'[k].name.number \in Nat \cup {NoNumber}
  BY <1>1, SortedPairs, GgufAssumption
<1>3. infos'[i].name.number <= infos'[j].name.number
  <2>1. ~Less(infos'[j].name, infos'[i].name)
    BY SortedPairs
  <2> QED BY <1>1, <1>2, <2>1 DEF Less, Numbered, NoNumber
<1>4. ASSUME NEW k \in i .. j, ~Numbered(infos'[k].name) PROVE FALSE
  <2>1. k \in 1 .. n /\ i < k /\ k < j
    BY <1>1, <1>4
  <2>2. ~Less(infos'[k].name, infos'[i].name) /\ ~Less(infos'[j].name, infos'[k].name)
    BY <1>1, <2>1, SortedPairs
  <2>3. infos'[i].name.text <= infos'[k].name.text /\ infos'[k].name.text <= infos'[j].name.text
    BY <1>1, <1>2, <1>4, <2>1, <2>2 DEF Less
  <2>4. /\ infos'[i].name.text # infos'[k].name.text
        /\ infos'[i].name.text < infos'[k].name.text <=> infos'[j].name.text < infos'[k].name.text
    BY <1>1, <1>2, <1>4, <2>1, GgufAssumption DEF NumberedAreAdjacent
  <2> QED BY <1>1, <1>2, <2>1, <2>3, <2>4
<1> QED BY <1>3, <1>4

\* The tensors are in the order of the layers when the cores are made of them,
\* whatever the file's order was and whatever std::sort did with those that
\* compare alike.
THEOREM LayersAscendAlways == Spec => []LayersAscend
<1>1. Init => LayersAscend
  BY DEF Init, LayersAscend
<1>2. ReadIInv' /\ LayersAscend /\ [Next]_vars => LayersAscend'
  <2> SUFFICES ASSUME ReadIInv', LayersAscend, [Next]_vars PROVE LayersAscend'
    OBVIOUS
  <2>1. CASE SortTensors
    BY <2>1, SortedAscend
  <2>2. CASE BuildCores \/ UNCHANGED vars
    BY <2>2 DEF BuildCores, Leave, Undefined, vars, LayersAscend
  <2>3. CASE ReadHeader \/ ReadKey \/ ReadType \/ ReadScalar \/ ReadString \/ ReadArray \/ EndArray
             \/ StoreKv \/ HeaderIsRead \/ ReadInfo \/ Refuse \/ SizeTensors \/ GatherParameters
    <3>1. pc' \notin {"cores", "returned"}
      BY <2>3 DEF ReadHeader, ReadKey, ReadType, ReadScalar, ReadString, ReadArray, EndArray,
                  StoreKv, ReadOn, HeaderIsRead, ReadInfo, Refuse, Leave, SizeTensors, Undefined,
                  GatherParameters, Reading
    <3> QED BY <3>1 DEF LayersAscend
  <2> QED BY <2>1, <2>2, <2>3 DEF Next
<1> QED BY <1>1, <1>2, ReadInvariant, PTL DEF Spec
=============================================================================
