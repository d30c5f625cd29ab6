----------------------------- MODULE GgufReader -----------------------------
(***************************************************************************)
(* How model_parser reads a GGUF file (common/model_parser.hpp): the       *)
(* header with its metadata, whose values may be nested arrays, the        *)
(* descriptions of the tensors, and then the parameters that are looked up *)
(* in the metadata and the order of the tensors.                           *)
(*                                                                         *)
(* The file is as long as length says and has any content: a value is      *)
(* chosen when it is read.  No sum of a cursor and a size comes near 2^64. *)
(***************************************************************************)
EXTENDS TensorOrder, Sequences, FiniteSets, Functions

CONSTANTS Lengths,        \* how long a file may be
          MaxString, MaxArray, MaxTensors, MaxKvs, MaxDims,
          AllocatedDims,  \* the extent of core_base_creation_data::allocated_dims
          FileTypes,      \* the value types that files have
          Keys,           \* the metadata keys that files have: <<prefix, suffix>>
          Architectures,  \* the texts of general.architecture
          Names           \* the tensor names that files have

\* The sizes of the scalar value types, and the alternatives of the variant
\* in which their values are kept.
ScalarSize == [uint8  |-> 1, int8  |-> 1, bool   |-> 1, uint16  |-> 2, int16   |-> 2, uint32 |-> 4,
               int32  |-> 4, uint64 |-> 8, int64 |-> 8, float32 |-> 4, float64 |-> 8]

ScalarTypes == DOMAIN ScalarSize

Alternative(type) ==
  CASE type \in {"uint8", "uint16", "uint32", "uint64"} -> "uint64"
    [] type \in {"int8", "int16", "int32", "int64"}     -> "int64"
    [] type = "float32"                                 -> "float"
    [] type = "float64"                                 -> "double"
    [] OTHER                                            -> type

ArchitectureKey == <<"general", "architecture">>

\* Every file may have these names: those with digits begin with "blk.".
ASSUME GgufAssumption == /\ Lengths \subseteq Nat
                         /\ {MaxString, MaxArray, MaxTensors, MaxKvs, MaxDims} \subseteq Nat
                         /\ FileTypes \subseteq ScalarTypes \cup {"string", "array"}
                         /\ \A n \in Names : n.text \in Nat /\ n.number \in Nat \cup {NoNumber}
                         /\ NumberedAreAdjacent(Names)

VARIABLES length, cursor, \* string_iterator
          pc,             \* what is read next, or how parse_model ended
          counts,         \* tensor_count and metadata_kv_count
          stack,          \* the value_readers that are active: type and values left
          kv,             \* the key and value that are being read
          log,            \* the keys and values read so far (history)
          map,            \* metadata_kv
          live, allocs,   \* the gguf_array_t that are allocated
          infos,          \* tensor_infos
          params          \* cparams: which kv of the file each is from, or 0

fileVars == <<length, cursor>>

heapVars == <<live, allocs>>

vars == <<fileVars, pc, counts, stack, kv, log, map, heapVars, infos, params>>

\* The members of cparams that gather_scalar asks of the metadata.
UintParams == {"rope.dimension_count", "feed_forward_length", "embedding_length", "context_length",
               "attention.head_count_kv", "block_count", "attention.head_count", "vocab_size",
               "rope.type", "expert_count", "expert_used_count"}

DoubleParams == {"rope.freq_base", "rope.scaling.factor", "rope.scaling.attn_factor",
                 "rope.scaling.beta_fast", "rope.scaling.beta_slow",
                 "attention.layer_norm_rms_epsilon", "attention.scale", "rope.scaling.ext_factor"}

Params == UintParams \cup DoubleParams

\* The arrays of tokenizer_parameters.
TokenizerArrays == [merges |-> "string", tokens |-> "string", token_type |-> "int64"]

Init == /\ length \in Lengths /\ cursor = 0
        /\ pc = "header" /\ counts = [tensors |-> 0, kvs |-> 0]
        /\ stack = <<>> /\ kv = <<>> /\ log = <<>> /\ map = <<>>
        /\ live = {} /\ allocs = 0
        /\ infos = <<>> /\ params = [p \in Params |-> 0]

-----------------------------------------------------------------------------
(* Reading.                                                                *)

\* Variant: the size of what is read is left out.
RoomAtCursor(n) == cursor < length

\* string_iterator::operator(): the byte after the n that are asked for must
\* be in the file too.
Room(n) == cursor + n < length

Take(n) == Room(n) /\ cursor' = cursor + n /\ UNCHANGED length

\* Variant: the text is copied without a look at the length of the file.
TakeStringUnchecked(n) == n <= MaxString /\ Room(8) /\ cursor' = cursor + 8 + n /\ UNCHANGED length

\* A string of n bytes after its length.
TakeString(n) == n <= MaxString /\ Take(8 + n)

\* magic, version and the two counts.
ReadHeader == /\ pc = "header" /\ pc' = "key"
              /\ Take(24)
              /\ \E t \in 0 .. MaxTensors, k \in 0 .. MaxKvs : counts' = [tensors |-> t, kvs |-> k]
              /\ UNCHANGED <<stack, kv, log, map, heapVars, infos, params>>

NewValue(key) == [key |-> key, at |-> Len(log) + 1, alt |-> "float", elem |-> "none", text |-> "",
                  nested |-> FALSE, array |-> 0]

\* The key of the next kv.
ReadKey == /\ pc = "key" /\ Len(log) < counts.kvs /\ pc' = "type"
           /\ \E n \in 0 .. MaxString, key \in Keys : TakeString(n) /\ kv' = NewValue(key)
           /\ UNCHANGED <<counts, stack, log, map, heapVars, infos, params>>

\* The type of its value.
ReadType == /\ pc = "type" /\ pc' = "value"
            /\ Take(4)
            /\ \E type \in FileTypes : /\ stack' = <<[type |-> type, left |-> 1]>>
                                       /\ kv' = [kv EXCEPT !.alt = Alternative(type)]
            /\ UNCHANGED <<counts, log, map, heapVars, infos, params>>

\* One value is read for the innermost value_reader.
Wanted == Head(stack).type

Reading == pc = "value" /\ Head(stack).left > 0

OneLess == [stack EXCEPT ![1].left = @ - 1]

ReadScalar == /\ Reading /\ Wanted \in ScalarTypes
              /\ Take(ScalarSize[Wanted])
              /\ stack' = OneLess
              /\ UNCHANGED <<pc, counts, kv, log, map, heapVars, infos, params>>

ReadString == /\ Reading /\ Wanted = "string"
              /\ \E n \in 0 .. MaxString : TakeString(n)
              /\ stack' = OneLess
              /\ IF Len(stack) = 1 /\ kv.key = ArchitectureKey
                 THEN \E text \in Architectures : kv' = [kv EXCEPT !.text = text]
                 ELSE UNCHANGED kv
              /\ UNCHANGED <<pc, counts, log, map, heapVars, infos, params>>

\* The type and the length of an array, whose values come next.
ReadArray == /\ Reading /\ Wanted = "array"
             /\ Take(12)
             /\ \E type \in FileTypes, n \in 0 .. MaxArray :
                  /\ stack' = <<[type |-> type, left |-> n]>> \o OneLess
                  /\ kv' = IF Len(stack) > 1 THEN [kv EXCEPT !.nested = TRUE]
                           ELSE IF n > 0 THEN [kv EXCEPT !.elem = Alternative(type)]
                           ELSE kv
             /\ UNCHANGED <<pc, counts, log, map, heapVars, infos, params>>

\* An array is complete.  One that is an element of another is copied there:
\* nobody has the pointer to the first copy.
EndArray == /\ pc = "value" /\ Len(stack) > 1 /\ Head(stack).left = 0
            /\ stack' = Tail(stack)
            /\ IF Len(stack) > 2 THEN live' = live \cup {allocs + 1} /\ allocs' = allocs + 1
                                 ELSE UNCHANGED heapVars
            /\ UNCHANGED <<fileVars, pc, counts, kv, log, map, infos, params>>

KvIsRead == pc = "value" /\ Len(stack) = 1 /\ Head(stack).left = 0

ReadOn == /\ pc' = "key" /\ stack' = <<>> /\ kv' = <<>> /\ log' = Append(log, kv)
          /\ UNCHANGED <<fileVars, counts, infos, params>>

\* f with v assigned to k.
Assigned(f, k, v) == [x \in DOMAIN f \cup {k} |-> IF x = k THEN v ELSE f[x]]

Held == {map[key].array : key \in DOMAIN map} \ {0}

\* Variant: the value's pointer is copied, and deleted with the temporary.
StoreShallow == /\ KvIsRead /\ ReadOn
                /\ map' = Assigned(map, kv.key, [kv EXCEPT !.array = allocs + 1])
                /\ allocs' = allocs + 1 /\ UNCHANGED live

\* Variant: insert keeps what the key already has.
StoreFirst == /\ KvIsRead /\ ReadOn
              /\ map' = IF kv.key \in DOMAIN map THEN map ELSE Assigned(map, kv.key, [kv EXCEPT !.array = 0])
              /\ UNCHANGED heapVars

\* Variant: the array that is replaced is not deleted.
StoreOver == /\ KvIsRead /\ ReadOn
             /\ IF kv.alt = "array"
                THEN /\ map' = Assigned(map, kv.key, [kv EXCEPT !.array = allocs + 1])
                     /\ live' = live \cup {allocs + 1} /\ allocs' = allocs + 1
                ELSE map' = Assigned(map, kv.key, kv) /\ UNCHANGED heapVars

\* metadata_kv[key] = value: gguf_metadata_value_t::operator= copies an array
\* into a new one and deletes the one it replaces; but when the new value is
\* no array, nothing deletes the old one.  The temporary deletes its own.
StoreKv ==
  /\ KvIsRead /\ ReadOn
  /\ IF kv.alt = "array"
     THEN LET old == IF kv.key \in DOMAIN map THEN map[kv.key].array ELSE 0
          IN /\ map' = Assigned(map, kv.key, [kv EXCEPT !.array = allocs + 1])
             /\ live' = (live \ {old}) \cup {allocs + 1}
             /\ allocs' = allocs + 1
     ELSE map' = Assigned(map, kv.key, kv) /\ UNCHANGED heapVars

HeaderIsRead == /\ pc = "key" /\ Len(log) = counts.kvs /\ pc' = "info"
                /\ UNCHANGED <<fileVars, counts, stack, kv, log, map, heapVars, infos, params>>

\* The description of the next tensor: its name, the number of its dimensions
\* and these, its type and its offset.
ReadInfo == /\ pc = "info" /\ Len(infos) < counts.tensors
            /\ \E n \in 0 .. MaxString, name \in Names, dims \in 0 .. MaxDims :
                 /\ Take(8 + n + 4 + 8 * dims + 4 + 8)
                 /\ infos' = Append(infos, [name |-> name, dims |-> dims])
            /\ UNCHANGED <<pc, counts, stack, kv, log, map, heapVars, params>>

\* Leaving parse_model, in whatever way, destroys the metadata.
Leave(how) == /\ pc' = how /\ map' = <<>> /\ live' = live \ Held
              /\ UNCHANGED <<fileVars, counts, stack, kv, log, allocs, infos, params>>

\* Every read fails where the file ends.  Those of a count, a length, a type or
\* a number of dimensions fail as well when that is out of range, and that of
\* the header when magic is wrong.
Refuse == /\ pc \in {"header", "key", "type", "value", "info"}
          /\ (pc = "key" => Len(log) < counts.kvs) /\ (pc = "info" => Len(infos) < counts.tensors)
          /\ pc = "value" => Reading /\ (Wanted \in ScalarTypes => ~Room(ScalarSize[Wanted]))
          /\ Leave("thrown")

-----------------------------------------------------------------------------
(* After reading.                                                          *)

Undefined == /\ pc' = "undefined"
             /\ UNCHANGED <<fileVars, counts, stack, kv, log, map, heapVars, infos, params>>

\* The byte size of a tensor is divided by a block size of 0, and multiplied by
\* a type size of 0: the program stops, or the size is 0.
SizeTensors ==
  /\ pc = "info" /\ Len(infos) = counts.tensors
  /\ \/ /\ pc' = "params"
        /\ UNCHANGED <<fileVars, counts, stack, kv, log, map, heapVars, infos, params>>
     \/ infos # <<>> /\ Undefined

Has(key, alt) == key \in DOMAIN map /\ map[key].alt = alt

Architecture == IF ArchitectureKey \in DOMAIN map THEN map[ArchitectureKey].text ELSE ""

\* The type under which a parameter is asked for.
AltOf(p) == IF p \in UintParams THEN "uint64" ELSE "double"

\* std::get throws when general.architecture is no text, and when an array of
\* the tokenizer has elements of another type.
BadVariant == \/ ArchitectureKey \in DOMAIN map /\ ~Has(ArchitectureKey, "string")
              \/ \E a \in DOMAIN TokenizerArrays :
                   LET key == <<"tokenizer", a>>
                   IN Has(key, "array") /\ map[key].elem \notin {"none", TokenizerArrays[a]}

\* gather_scalar leaves a parameter alone that is not in the metadata, and one
\* that is there with another type.
GatherParameters ==
  /\ pc = "params"
  /\ \/ BadVariant /\ Leave("thrown")
     \/ /\ ~BadVariant /\ pc' = "sort"
        /\ params' = [p \in Params |-> LET key == <<Architecture, p>>
                                       IN IF Has(key, AltOf(p)) THEN map[key].at ELSE 0]
        /\ UNCHANGED <<fileVars, counts, stack, kv, log, map, heapVars, infos>>

\* Variant: the order of the texts.
SortByText == /\ pc = "sort" /\ pc' = "cores"
              /\ \E perm \in Bijection(DOMAIN infos, DOMAIN infos) :
                   /\ infos' = [i \in DOMAIN infos |-> infos[perm[i]]]
                   /\ \A i \in 1 .. Len(infos) - 1 : infos'[i].name.text <= infos'[i + 1].name.text
              /\ UNCHANGED <<fileVars, counts, stack, kv, log, map, heapVars, params>>

\* sort_tensor_infos: std::sort, which is not stable.
SortTensors == /\ pc = "sort" /\ pc' = "cores"
               /\ \E perm \in Bijection(DOMAIN infos, DOMAIN infos) :
                    /\ infos' = [i \in DOMAIN infos |-> infos[perm[i]]]
                    /\ \A i \in 1 .. Len(infos) - 1 : ~Less(infos'[i + 1].name, infos'[i].name)
               /\ UNCHANGED <<fileVars, counts, stack, kv, log, map, heapVars, params>>

\* The cores, whose dimensions are written to an array of AllocatedDims and
\* which are sized as before, and generate_ops, which divides by two of the
\* parameters and uses no result.  These are 0 when the file does not give them
\* and may be 0 when it does.
BuildCores ==
  /\ pc = "cores"
  /\ \/ Leave("returned") /\ \A i \in DOMAIN infos : infos[i].dims <= AllocatedDims
     \/ Undefined

Ended == pc \in {"returned", "thrown", "undefined"}

Next == \/ ReadHeader \/ ReadKey \/ ReadType \/ ReadScalar \/ ReadString \/ ReadArray \/ EndArray
        \/ StoreKv \/ HeaderIsRead \/ ReadInfo \/ Refuse
        \/ SizeTensors \/ GatherParameters \/ SortTensors \/ BuildCores
        \/ (Ended /\ UNCHANGED vars)

Spec == Init /\ [][Next]_vars

-----------------------------------------------------------------------------
(* Properties.                                                             *)

Alternatives == {Alternative(type) : type \in FileTypes} \cup {"float"}

Value == [key : Keys, at : 1 .. MaxKvs, alt : Alternatives, elem : Alternatives \cup {"none"},
          text : Architectures \cup {""}, nested : BOOLEAN, array : Nat]

\* The types of the variables.
ReaderTypeOK == /\ length \in Lengths /\ cursor \in 0 .. length
                /\ pc \in {"header", "key", "type", "value", "info", "params", "sort", "cores",
                           "returned", "thrown", "undefined"}
                /\ counts \in [tensors : 0 .. MaxTensors, kvs : 0 .. MaxKvs]
                /\ stack \in Seq([type : FileTypes, left : Nat])
                /\ kv \in {<<>>} \cup Value
                /\ log \in Seq(Value) /\ Len(log) <= counts.kvs
                /\ map \in [DOMAIN map -> Value] /\ DOMAIN map \subseteq Keys
                /\ allocs \in Nat /\ live \subseteq 1 .. allocs
                /\ infos \in Seq([name : Names, dims : 0 .. MaxDims]) /\ Len(infos) <= counts.tensors
                /\ params \in [Params -> 0 .. MaxKvs]

\* Whatever the counts and the lengths in the file say, and however deep its
\* arrays are, nothing beyond its end is read.
InsideFile == cursor > 0 => cursor < length

\* Every array in the metadata is allocated and is there once: none is deleted
\* twice, and none is used after it was deleted, also when a key comes twice.
ArraysHeld == \A key \in DOMAIN map :
                /\ map[key].alt = "array" <=> map[key].array \in live
                /\ \A other \in DOMAIN map \ {key} :
                     map[key].array = map[other].array => map[key].array = 0

\* An array is leaked only as the element of another one, or when its key
\* comes again with a value that is none.
Leaky == \/ \E i \in DOMAIN log : log[i].nested
         \/ kv # <<>> /\ kv.nested
         \/ \E i, j \in DOMAIN log : /\ i < j /\ log[i].key = log[j].key
                                     /\ log[i].alt = "array" /\ log[j].alt # "array"

NothingLeaks == pc \in {"returned", "thrown"} /\ live # {} => Leaky

\* The parameters are those of the file: of each key under the architecture
\* of the file the last occurrence counts, and none when that has not the type
\* under which it is asked for.
LastOf(key) == {i \in DOMAIN log : /\ log[i].key = key
                                   /\ \A j \in i + 1 .. Len(log) : log[j].key # key}

LastText == {log[i].text : i \in LastOf(ArchitectureKey)}

ParametersAreLatest ==
  pc \in {"sort", "cores", "returned"} =>
    \A p \in Params, prefix \in (IF LastText = {} THEN {""} ELSE LastText) :
      LET last == {i \in LastOf(<<prefix, p>>) : log[i].alt = AltOf(p)}
      IN IF last = {} THEN params[p] = 0 ELSE params[p] \in last

\* When the cores are made of them, the tensors of a layer come before those of
\* the next, layer 2 before layer 10, and between them is none that belongs to
\* no layer: although the file has them in any order, std::sort is not stable,
\* and operator< compares some names as text.
LayersAscend ==
  pc \in {"cores", "returned"} =>
    \A i, j \in DOMAIN infos :
      i < j /\ Numbered(infos[i].name) /\ Numbered(infos[j].name) =>
        /\ infos[i].name.number <= infos[j].name.number
        /\ \A k \in i .. j : Numbered(infos[k].name)

-----------------------------------------------------------------------------
(* What makes these inductive.                                             *)

\* What is there of the file when parse_model is at pc.
Control == /\ pc = "header" => log = <<>> /\ infos = <<>>
           /\ pc \notin {"type", "value", "thrown"} => kv = <<>>
           /\ pc \in {"type", "value"} => /\ kv \in Value
                                          /\ kv.at = Len(log) + 1 /\ Len(log) < counts.kvs
           /\ pc = "value" => stack # <<>> /\ (Len(stack) > 2 => kv.nested)
           /\ pc \in {"returned", "thrown"} => map = <<>>

\* Until parse_model is left, the metadata holds of each key that has been
\* read what came last.
MapIsLatest ==
  pc \notin {"returned", "thrown"} =>
    /\ DOMAIN map = {log[i].key : i \in DOMAIN log}
    /\ \A key \in DOMAIN map :
         LET i == map[key].at
         IN i \in LastOf(key) /\ map[key] = [log[i] EXCEPT !.array = map[key].array]

\* The arrays that are allocated are those in the metadata, and those leaked.
LeaksAreKnown == live # Held => Leaky
=============================================================================
