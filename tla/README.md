# Nihilus in TLA+

Nihilus executes a LLaMA graph that is fixed at compile time.  A `model<config>` inherits from
one `core_traits` struct per operation and from a `thread_pool`; every thread of the pool walks
the same list of operations, and the threads meet only at per-operation latches.  This directory
holds TLA+ models of that machinery, TLC configurations that check them and TLAPS proofs about
them.  Paths below are relative to `src/include/nihilus`.

## Inventory

| Component | State | Operations | Talks to | Hard because |
| --- | --- | --- | --- | --- |
| `slim_latch` (`common/common.hpp`) | counter, one flag per thread, thread count | `reset`, `count_down`, `count_up`, `arrive_and_wait`, `arrive_and_wait_second`, `try_wait`, `wait` | shared by all threads | every access is its own atomic step; plain stores next to `fetch_sub`/`fetch_add`; flags are never cleared between phases |
| blocking operation (`thread_function`, `cpu/thread_pool.hpp`) | `sync_flag_start[block]` | wait, kernel, second wait | latch, kernel dispatcher | threads may run ahead of those still inside |
| graph and schedule (`common/core_traits.hpp`, `threading_strategy`) | compile-time lists | derivation of the lists | everything | counts and lists are computed by different rules |
| models and kernels (`common/model_traits.hpp`, `kernel_traits.hpp`, `kernel_type_profile_traits.hpp`, `monolithic_dispatcher.hpp`, `cpu/simd`) | table of models, dimensions and types of the operations, `depths_new` | `static_assert`s of each kernel, dispatch to the architecture's kernel | graph | eighteen models written by hand, one ever built; operations that the lists leave out are never checked; an array whose size is written by hand |
| pass (`threading_strategy::impl`) | each thread's position | the walk | latches | lagging and leading threads; buffers rewritten by all |
| thread pool (`cpu/thread_pool.hpp`) | worker latches, main latch, `stop` | constructor, `execute_tasks`, worker loop, destructor | model, passes | wake-ups, re-arming, first finisher releases the caller, shutdown |
| model (`common/model.hpp`) | pool, arena, round | construction, `execute_model`, destruction | planner, pool, arena | threads live before and after the arena; latches reset between passes |
| arena (`common/memory_buffer.hpp`, `common/allocator.hpp`, `memory_mapper`) | block, size, offset; each operation's `data` | `init`, `clear`, `claim_memory`, moves, mapping | model, parser | stale offset, exhaustion, two roundings, `uint64_t` |
| GGUF parser (`common/model_parser.hpp`) | cursor, metadata map, tensor infos | recursive readers, look-ups, sorting | arena | bounds at every nesting depth, raw-pointer ownership of arrays, order of names |
| command line (`common/harbinger.hpp`) | flag/value state | `parse_cli_arguments` | model | missing or malformed values |
| input session, tokenizer | none of their own | `process_input` | model | - |
| containers, debugging output | none shared | - | - | value types, text |

How they interact: `main` (in `tests/vs-llama/main.cpp`) builds a model from the command line.  The
model's constructor starts the pool's threads, then allocates the arena, maps the operations into
it and resets the latches.  `execute_model` resets the latches and calls `execute_tasks` once per
token and once more; each worker is woken through its own latch, walks the graph, counts the main
latch down and re-arms its own.  The destructor of the model frees the arena first and then joins
the threads.  `parse_model` has no caller yet.

What makes each correct: a latch opens when all have come and not before, never loses an arrival
and lets everyone out; the walk keeps threads close enough that nobody writes what a blocking
kernel reads, and that it reads what all have finished; every kernel accepts the operations of
every model; the pool runs one pass per worker and call, and its destructor always ends; the
model frees nothing that is in use; claims lie inside the arena, apart and aligned, and each block
has one owner; the parser reads nothing beyond the file, owns each array once and gives the
parameters that the file has.

## Modules

| Module | Models | State and actions in terms of the code |
| --- | --- | --- |
| `SlimLatch` | single atomic accesses of `slim_latch` | a record of `global_counter`, `thread_count` and the set of set flags; one operator per access |
| `Rendezvous` | the abstract promise of a start latch | who has arrived, who has passed |
| `BlockingOp` | `thread_impl` of one blocking operation by all threads | `pc` is the point of `thread_impl`/`arrive_and_wait`/`count_down` a thread is at, `next` the loop index; one action per atomic access or return |
| `OpGraph` | the `core_traits` table and the lists derived from it | constants only |
| `ModelTraits` | `model_traits`, the dimensions of `core_traits`, `depth` | constants only: the table of models, and the dimensions of each operation as functions of a model's row |
| `KernelTraits` | the type profiles, the `static_assert`s of `kernel_traits`, the kernels of each architecture, `kernel_dispatcher` | constants only: for each kernel the predicate that its assertions make up, for each architecture the types it has kernels for, and the depth counter that each operation increments |
| `ThreadingStrategy` | `threading_strategy::impl` by all threads | `pos` is the place in the unrolled walk, `pc`, `next` and `latch` as in `BlockingOp` for the latch at that place; parameterised by the lists |
| `ThreadPool` | constructor, `execute_tasks`, `thread_function_impl`, destructor | `mpc`/`wpc` are the points of the main thread and the workers; a pass is one step |
| `Engine` | `model<config>` | `ThreadPool` whose passes are `ThreadingStrategy`'s walks, `execution_planner` reset by reset, and the arena's lifetime |
| `MemoryBuffer` | `memory_buffer` and the allocator it uses | `buf` has the three members of each buffer; `live`, `allocs` and `claims` are what the allocator and the claimers know; one action per member function |
| `MemoryMapping` | `collect_required_bytes`, `memory_mapper`, the two callers of both | `EXTENDS MemoryBuffer`; `data` is `core.data` of each operation, `at` the operation that `memory_mapper` is at |
| `TensorOrder` | `operator<` of `gguf_tensor_info_t` | a name is its place in the order of the texts and its first number |
| `GgufReader` | `parse_model` | `stack` holds the active `value_reader`s, innermost first; one action per read; `log` is the history of what was read |
| `BlockingOp_proofs`, `ThreadingStrategy_proofs`, `ThreadPool_proofs`, `Engine_proofs`, `MemoryBuffer_proofs`, `MemoryMapping_proofs`, `GgufReader_proofs` | theorems | |
| `DataInduction` | induction over intervals, sequences and sums, for the proofs | |
| `MC*` | instances for TLC | the LLaMA lists, small graphs and files, and a property quoted from the documentation |

`ThreadingStrategy` instantiates `BlockingOp` at each latch and `Engine` instantiates `ThreadPool`
and extends `ThreadingStrategy`; `MemoryMapping` extends `MemoryBuffer`; `MCThreadingStrategy`
puts the lists of `OpGraph`, `ModelTraits` and `KernelTraits` under the walk.  Definitions called
*variants* in comments are plausible errors: a property is worth keeping if it fails with one of
them in the place of the definition that follows it.

Abstractions that run through all modules: kernels and byte contents are not represented (the
kernels of this commit are stubs), atomics are sequentially consistent, and a wait on an atomic is
the guard of the step that follows it.

## Runs

| Run | What it shows | Bounds and why they are enough |
| --- | --- | --- |
| `blocking_op` | the start wait is a barrier, the counter is exact at every step, one thread opens, the last to leave restores, everyone returns; implements `Rendezvous` | 4 threads: a last arriver, one that spins, two that may overtake; the proofs cover every number |
| `end_barrier` | the second wait is no barrier | 2 threads |
| `strategy` | latches keep threads within one barrier; inputs of running blocking kernels are stable, and were finished by all threads in the same block; the `l_out` that a block adds is the whole one of the block before; all finish; each latch goes through exactly the steps of `BlockingOp` once; every kernel compiles for every supported model on every architecture but AVX-512, whose own file does not | 3 threads (lagging, leading, between), 2 blocks (one block-to-block step), the real lists |
| `block_lists` | every block runs `inp_embd` | 1 thread: the lists are the same for all |
| `pool` | no spurious pass; neither the first call nor the destructor gets to a state in which everybody waits (`NoHang`); shutdown completes, nobody is left | 3 workers, 3 calls: a call, the one its stragglers disturb, and one after; deadlock is off because the program really may hang between the first call and the destructor (next run), and `NoHang` says that it does nowhere else |
| `pool_hang` | `execute_tasks` can wait for ever from the second call on | 1 worker, 2 calls |
| `engine` | pool and walk agree (`EIInv`, the invariant of the proof); with the walk's barriers, a first finisher releases the caller only when all are at the last blocking operation; the arena outlives every other kernel; the model ends | 3 workers, 1 token, 2 blocks, the real lists |
| `depth_counters` | a kernel increments memory behind `depths_new` | 1 thread: which counter an operation increments depends on the lists alone |
| `memory_buffer` | claims are inside, apart, aligned; blocks have one owner | 2 buffers to move between, 3 blocks (one after a freed one), sizes of 2½ alignment units so that three claims meet |
| `memory_mapping` | the compile-time sum is enough for the constructor; no mapping overlaps or leaves a pointer into a freed block | one operation of each kind (shared weight, weight per block, without buffer, output), all byte sizes around an alignment unit and a cache line, 3 mappings; `Modulus` is 512, the smallest power of two in which the sum of the constructor does not overflow (`SumAssumption`); deadlock is off because callers may stop |
| `second_mapping` | `model::init` leaves operations without a buffer | as above |
| `gguf` | nothing beyond the end is read; arrays are owned once and leak only as elements of arrays or when replaced by another type; parameters are the last the file gives; tensors are in layer order, and the layers in one piece | 7 file lengths that end at and around each boundary, 3 keys and values (the architecture and a parameter twice), arrays in arrays, 3 tensors of two layers and none; `AllocatedDims` is scaled from 4 to 1 |

Fairness: weak fairness of each thread's steps (`blocking_op`, `strategy`, `pool`, `engine`).  The
threads are preemptively scheduled operating-system threads, a spin re-reads its atomic, the waits
on atomics are notified after every store, and kernels terminate.  No strong fairness is assumed,
and no liveness is claimed where the code has none: `EveryCallReturns` fails under exactly this
fairness.  The parser and the arena are sequential and state only safety.

### What the failing runs say

- `end_barrier`: the README has a second latch `sync_flag_end`; the code waits a second time on
  flags of `sync_flag_start` that are already set.
- `block_lists`: `per_block_count` counts the nine view, reshape, permute and transpose operations
  that the list leaves out, so nine value-initialised entries remain, which are `inp_embd`.
- `pool_hang`: `execute_tasks` does not wake a worker whose latch is still down from the call
  before; the worker then re-arms it and sleeps, and the main thread waits for ever.
- `depth_counters`: `depths_new` has 22 counters, for depths 0 to 21; the operations of
  `global_output` have depths 22 to 24, and `operator[]` does not compare.
- `second_mapping`: `memory_buffer::init` does not reset `current_offset`.

Seen while modelling, without a run:

- `qcur_rope` and `kcur_rope` are handed the buffers of the reshapes before them, which have memory
  of their own and are never executed: nothing writes what the two read.  This follows from the
  lists alone, and matters once kernels do.  (`ffn_inp` also reads a buffer that is written later
  in the walk, `l_out` of the block before; there the barriers make it right, and
  `CarriedIsPrevious` says so.)
- `execute_tasks` returns when the first worker is done, since `count_down` stores 0 in the main
  latch.  The other workers may still be behind the last blocking operation, as `AllReachTheEnd`
  and `ArenaOutlivesKernels` say, and on the second token in the latches that the planner resets.
- `avx_512.hpp` declares a kernel for `int26_t`, a type that does not exist, and a `softmax` with two
  parameters named `input02`.  It does not compile, and `HasBody`, and so `KernelsFit`, is about the
  other architectures.
- Most kernels in `arm_neon.hpp` and `arm_sve2.hpp` take the output after the inputs (`add` at line
  98, `copy` at 78), while `kernel_dispatcher` passes it first.  This compiles, since the pointers
  passed are not to `const`, and does nothing while the bodies are empty; with bodies they would
  write to their last input.  `KernelTraits` compares types, not the order of parameters.
- `is_quantized_type` accepts every type that has a size, and the rules of `mul_mat` compare neither
  the columns of the second input nor the number of elements with the output.
- `execute_model` computes `token_count + 1` in `uint64_t`: the largest count makes no call at all.
- `-t 0` makes a pool without workers, whose `execute_tasks` returns at once.

## Proofs

All proofs are for every value of the constants under the assumptions named in the modules.

- `BlockingOp_proofs` (assumes `0 < N < MaxCount`: a signed counter that holds the thread count).
  The barrier is not inductive: it rests on the counter being exactly the arrivals that are
  outstanding, which in turn rests on the plain stores of `count_down` and `count_up` being made by
  a single thread after all others have done their read-modify-write.  `IInv` joins these by the
  cardinality of the sets of threads before and behind each point.  From it follow `StartBarrier`,
  `CounterIsExact`, `OneOpener`, `RestoreIsLast` and the safety part of the refinement of
  `Rendezvous`.
- `ThreadingStrategy_proofs` (any lists, any graph, any number of threads and blocks, under
  `StrategyAssumption`, `OneLatchEach`, `InputsComeFirst` and `InputsAreBehind`, which TLC evaluates
  for the LLaMA lists in the runs `strategy` and `engine`).  `NobodyLapped` is not inductive: that a
  thread may pass is decided by a counter.  `ClosedUntilAll` says for each blocking position that,
  until everyone has come to it, its counter and those who have come add up to `N`, no flag is set,
  and those who have come spin; it is preserved because no other position shares the latch.  With
  `TypeOK` and `Located` it is the inductive invariant.  `StableInputs` follows since between a
  blocking operation and the next writer of its inputs lies another barrier, which nobody can have
  passed; `FreshInputs` since each input is before the operation in the walk, and all have come to
  the operation.  `CarriedIsPrevious` follows in the same way for the residual, which is read in the
  block after the one that wrote it, from `CarriedAreApart`: a barrier between either writing and
  the reading.  That is a hypothesis of the theorem and not an assumption of the module, so that
  TLC checks the property also for graphs without it; for the LLaMA lists `MCEngine` assumes it
  and TLC evaluates it.  `EachLatchIsUsedOnce`, the refinement of `BlockingOp` by each latch of the
  pass, is proved action by action: a thread on its way to a latch has yet to arrive there, one
  beyond it is done, and so a step at another position leaves the latch's view alone.  It needs
  `Rewound`: a loop index is 0 outside its loop.  `PassDoesNotDeadlock` needs more of a latch than
  that it is closed until all have come: that once they have, its flags are set or somebody is
  there who is about to set them (`Opening`), and who has set those before its loop index
  (`OpenedBefore`).  Then the thread that is
  furthest behind (`LeastOf` of `DataInduction`) can go on, or another at the same latch is opening
  it.  That no step sets a thread back or takes its turn away (`PassAdvances`,
  `EveryoneKeepsTheTurn`) follows from the flags only ever being set.
- `ThreadPool_proofs` (`N > 0`).  `NoSpuriousPass` needs `WakeInv`: a worker's latch is down from
  the time it is told until it re-arms it, and a worker that was told and has not begun owes its
  pass to a call.  `MainInv` gives `NobodyOutlivesThePool`.  `NoHang` needs `HInv`, which adds
  `Manned` (who has been started and who may have left), `FirstCall` (in the first call a worker
  whose latch is up again has made its pass and told the main thread: what fails in the second) and
  `Woken` (a worker that the destructor has come past does not sleep, whichever of the two came to
  the latch first).
- `Engine_proofs` uses the two before it through instances.  Each of the model's steps is a step of
  `ThreadPool` or leaves its variables alone, for every number of tokens (`EngineIsAPool`).  With
  `Rounds = 1`, and so for a model that evaluates one token, each is also a step of
  `ThreadingStrategy` or leaves the walk alone (`EngineIsAPass`), under the mapping that takes a
  worker that has not set out to the beginning of the walk, and the latches before the planner has
  run to those after it.  That needs `EIInv`, what pool and walk know of each other: nobody sets out
  twice, the planner only resets latches that are ready, and a worker counts the main latch down
  only when it is through or `stop` is set, which is not before `execute_tasks` has returned.  A
  worker that is through has passed every barrier, so by `ClosedUntilAll` all have come to each:
  `AllReachTheEnd`, `ArenaOutlivesKernels` and `EveryoneWalked` follow, the first and the last
  if the lists have a blocking operation at all.  `StableInputs`, `FreshInputs` and
  `CarriedIsPrevious` carry over from the walk.  `ModelDoesNotHang` is more than what pool and walk
  say on their own, since a pass is a single step of the pool that is always possible, and the pool
  wakes workers at a time when others wait for them in the walk: if the main thread waits in
  `execute_tasks` nobody has told it yet, so all workers are in the walk or on their way, and if it
  joins a worker that is at a latch then, `stop` being set only after all had come to every latch,
  all have set out.  With more tokens the model may hang, since the pool itself does (`pool_hang`),
  and these theorems are about one.
- `MemoryBuffer_proofs` (`2 * MaxSize + Alignment <= Modulus`: sizes of models in `uint64_t`).
  `BufIInv` adds that the offset is aligned and behind every claim of the buffer's block, whichever
  buffer that has been moved to.
- `MemoryMapping_proofs`.  Every step is a step of `MemoryBuffer`, so `BufIInv` carries over;
  `MapIInv` adds that what operations *reserve* (their rounded sizes) is apart and before the
  offset, and that the operations already dealt with hold no older block.  `ConstructionFits` needs
  `FirstMapping`: while the constructor maps, the offset is at most the sum of what
  `collect_required_bytes` counts for the operations before `at`.  The step is that an amount which
  is a multiple of the cache line is claimed as it is, since the alignment divides it; the rest is
  that sums of naturals grow (`SumFacts`), and that the whole sum is below `Modulus`
  (`SumAssumption`, a bound on the bytes of a model that fits in `uint64_t`).
- `GgufReader_proofs` (`GgufAssumption`: limits and lengths are naturals, names have a text and a
  number).  `InsideFile` is inductive as it stands.  `ArraysHeld` needs `HeapIInv`: array
  identities are given out in order, a value that is being read holds none yet, and a value that is
  no array never holds one.  `ReaderTypeOK` needs `Control`, what has been read when `parse_model`
  is at each point: without it the reader could be in a value of no kv.  `NothingLeaks` needs
  `LeaksAreKnown`, that every array that nobody holds has been lost in one of the two ways that
  `Leaky` names; `ParametersAreLatest` needs `MapIsLatest`, that until the look-up the map has of
  each key what came last and nothing else.  `LayersAscend` is a fact about one step: `std::sort`
  promises that no element is less than its predecessor, and `NeighboursSuffice` makes that
  pairwise order, provided that `not less` is transitive.  It is (`LessIsStrictWeak`) when the
  numbered names are adjacent in the order of the texts, as they are when all begin with `blk.`; on
  arbitrary names `operator<` is no strict weak order.  Adjacency also keeps unnumbered names out:
  one between two layers would have its text between theirs (`SortedPairs`, `SortedAscend`).
- `DataInduction` has the inductions over data that these rest on.  An induction theorem with the
  predicate as a parameter cannot be used, so the predicate is a set: `IntervalInduction` says that
  a set of numbers that has 0, and with each number the next, has all up to n.  It comes from the
  least element of a finite set, which well-foundedness of the strict subset order gives.

Deadlock freedom, bounded progress (`NoCircle`: every step brings some thread on in a bounded
lexicographic order, and sets none back but by bringing on one above it) and persistence
(`NobodyIsRobbed`: a thread that can go on can go on until it does) are proved for `ThreadPool`'s
first call and shutdown, for a pass and for a model that evaluates one token.  Together they are
the safety half of `ShutdownCompletes`, `EveryoneFinishes` and `ModelTerminates`: what is left to
the temporal logic is that somebody who can go on eventually does.  They are stated with `CanGoOn`,
`WorkerGoesOn` and `MainGoesOn`, which write out when a step is possible; that each of these is
ENABLED of the step it stands for was compared on the instances of the runs.  `NoHang` is checked
by the run `pool`; in `strategy` and `engine` TLC's own deadlock check says the same.

Only model-checked: liveness itself and what rests on ENABLED; `KernelsFit`, which is about the
tables of LLaMA models and kernels themselves, with nothing in them that varies; and what the
violated runs refute.

## Not modelled, and the plan

Not modelled: the bodies of the kernels (stubs at this commit) and the detection of the
architecture (CMake's), the byte sizes of the operations (`MemoryMapping` takes any), `arch_traits`
(names), containers, debugging text, the input session, the benchmark and vendored llama.cpp.
`parse_cli_arguments` is a loop over the arguments in which the last value of a flag counts and a
number that cannot be read falls back to a default; nothing but its thread count reaches the rest
of the system, and the modules take any.  In the parser, `string_to_tensor_name` and
`extract_layer_number` are used by commented-out code only, and tensor offsets mean nothing while
every tensor has size 0.

What would come next, in this order:

1. `Engine` with two tokens: the planner resets latches under a straggler of the pass before, and a
   worker that finishes late counts down the main latch of the next call.
2. The shutdown handshake with store buffers: `stop` and the workers' latches use release and
   acquire only, and each side stores to one and loads from the other.
3. The command line, with a thread count of 0.
4. Kernel bodies, and which operation's output is in a buffer when a kernel reads it, when the
   kernels exist.
