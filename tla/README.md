# Formal models of ChampSim and its CHIA prefetcher agent

ChampSim (`src/src`, `src/inc`; C++) simulates out-of-order cores and a memory hierarchy, one
clock cycle at a time. CHIA (`src/chia_agent`; Python) is a loop around it: it runs the simulator
with the prefetcher of `src/prefetcher/custom_pref` configured by a small "genome", reads the
results, and asks a language model for the next genome.

This directory holds TLA+ models of the parts of that system whose correctness depends on the
order of events, TLC configurations that check them on small instances, and proofs, checked by
TLAPS, that hold for every value of the parameters.

## 1. Inventory

### How the parts interact

`champsim.cc:do_cycle` calls `operate()` of every component in every cycle, in an order that
depends on their clocks; `operate()` is never interrupted. Components talk through
`champsim::channel` objects: an upper component pushes into the RQ, WQ or PQ of a channel (and is
refused when the queue is full); the lower one takes requests from the queues and pushes
responses into `returned`. Inside a cache the prefetcher and the replacement policy are
callbacks. There are no threads: the "concurrency" is the interleaving of the components and of
many requests in flight inside each.

| Component | State | Operations | Hard behaviour | What makes it correct |
|---|---|---|---|---|
| Cache (`cache.cc`, `channel.cc`) | the queues of its channels, tag pipeline, MSHR, inflight fills, lines, `internal_PQ`, counters | finish_packet, handle_fill, tag checks, try_hit, handle_miss, handle_write, prefetch_line, begin_phase | merging, full queues below, refused write-backs, several upper levels, change of phase | no request is lost or answered twice, none is asked for twice below, no dirty data is lost, bounded queues |
| Back end and renaming (`ooo_cpu.cc`, `register_allocator.cc`) | ROB, frontend and backend RAT, free list, register file | dispatch, schedule and rename, execute, complete, retire | out-of-order completion, recycling of registers, the free list running out | registers conserved, every source reads the last write, no stall for ever |
| Load and store queues (`ooo_cpu.cc`) | LQ, SQ, dependences between them | do_memory_scheduling, operate_lsq, do_finish_store, do_complete_store, handle_memory_return | forwarding from the youngest older store, references into the LQ | each load waits for the last older store of its address and finishes once; the asserts of lines 507, 578 and 579 hold |
| Front end (`ooo_cpu.cc`) | input queue, IFETCH, DECODE, DIB hit and DISPATCH buffers, DIB | initialize, predict, check_dib, fetch, decode, dispatch | stall on a misprediction, DIB hits overtaking decoding | program order into dispatch, restart after each misprediction |
| Page table walker (`ptw.cc`) | MSHR, finished, completed, PSCLs | handle_read, handle_fill, finish_packet | walks of several levels over one queue, no check of MSHR_SIZE | every translation is answered, level by level |
| Virtual memory (`vmem.cc`) | page table, free list of pages | va_to_pa, get_pte_pa | the free list filled again when empty | no aliasing until memory is exhausted |
| Translation path of the cache (`cache.cc`) | translation stash | issue_translation, finish_translation | one answer serves entries that have not asked yet | every stalled lookup is resumed |
| DRAM controller (`dram_controller.cc`) | RQ, WQ, banks, data bus, write mode, refresh | operate, add_rq, add_wq | mode switches that unschedule, refresh, collisions | every read answered once, banks and queues agree |
| Simulation loop (`champsim.cc`, `operable.cc`) | phase, clocks, stall counters | main, do_phase, do_cycle | several processors, end of a trace, deadlock and livelock detection | each processor reports its own region of interest |
| CHIA prefetcher (`custom_pref.h`) | genome, stride and delta tables, accuracy counters, current degree | load_genome, prefetcher_cache_operate | two throttles that write the same degree, refused prefetches counted | prefetches follow the history of their instruction |
| CHIA agent (`agent_loop.py`, `gemini_client.py`) | genome file, history file, generation | simulate, record, ask, retry | crashes between and inside writes, failing traces, busy service | the recorded genome is the one measured, no measured record is lost |
| SPP prefetcher (`spp_dev`) | signature, pattern and filter tables, GHR | cache_operate, cache_fill, lookahead | saturation and halving of counters over long runs | its assertions |
| Small prefetchers (`next_line`, `ip_stride`, `va_ampm_lite`) | trackers, access maps | cache_operate, cycle_operate | tables that forget, a full PQ | every prefetch has its reason in the accesses |
| BTB (`basic_btb`) | direct table, indirect table and history, return stack | btb_prediction, update_btb | overflow of the stack, learnt call sizes | returns go behind their calls |
| Direction predictors (`branch/*`) | counters, perceptrons, histories | predict_branch, last_branch_result | folded histories, predictions of instructions that are no branches | each history holds the latest outcomes, none lost or twice |
| Replacement policies (`replacement/*`) | state per way, duelling counters | find_victim, update, cache_fill | hooks some policies do not have, searches repeated when a write-back is refused | victims are cold |
| lru_table (`lru_table.h`) | ways with a last-used stamp | check_hit, fill, invalidate | one comparison for hit and victim | least recently used is replaced |
| Trace reader (`tracereader.h`, `repeatable.h`) | buffer, end of file | operator(), eof | refill at the boundary of the buffer | program order, right targets |
| Addresses (`address.h`, `extent.h`, DRAM_ADDRESS_MAPPING) | - | slice, splice, offset, swizzle | extents that meet, folding of row bits | no bit moves, the mapping is one to one |
| Statistics, other search scripts, configuration scripts | - | output, code generation | - | - |

`PROJECT.json` lists the same parts with their status, and, under `hazards`, the places of the
code where one of these difficulties bites, with the properties that watch it.

### Plan

| Step | Modules | State |
|---|---|---|
| channels and the cache | `MemoryPort`, `Cache`, `CacheProofs` | done |
| renaming and the back end | `RegisterRename`, `RegisterRenameProofs` | done |
| load and store queues | `LoadStoreQueue`, `LoadStoreQueueProofs` | done |
| front end | `Positions`, `FrontEnd`, `PositionProofs`, `FrontEndProofs` | done; warmup left out |
| walker, page allocation, translating cache | `VirtualMemory`, `Translation`, `TranslationProofs` | done |
| DRAM | `DramChannel`, `DramProofs`, `AddressMapping` | done |
| what a caller drives alone | `CustomPref`, `SignaturePath`, `LinePrefetchers`, `LruTable`, `BranchTargets`, `InstructionDecode`, `BranchDirection` (with `Words`, the one operator on bits that several of them need), `Replacement`, `TraceReader`, `Simulation` | done |
| the search | `AgentLoop` | done |
| the sequential parts, proved | `UnitProofs`: `AgentLoop`, `Simulation`, `TraceReader`, `CustomPref`, `LruTable`, `BranchTargets`, `Replacement`, `SignaturePath`, `LinePrefetchers` | done |
| left | `CustomPref` composed with `Cache` through the hooks, which already take the lines asked for as a parameter; the warmup of the front end | open |

The abstract specification of every channel is `MemoryPort`: `Cache` is shown to implement it at
both ends, `DramChannel` at its upper end. The other references are stated inside the modules:
program order (`FrontEnd`, `TraceReader`), the last write (`RegisterRename`), the youngest older
store (`LoadStoreQueue`), a list kept in order of use (`LruTable`), the history of accesses
(`CustomPref`, `LinePrefetchers`), whole addresses next to their slices (`AddressMapping`), and an
append-only history (`AgentLoop`).

## 2. The modules

### MemoryPort

What the two ends of a channel promise about requests that want a response: a client asks for a
block at most once at a time, the server answers each outstanding block once, and the client
reads answers in order. `CACHE::finish_packet` prints a message and asserts when this is broken.

### Cache

One cache between the channels of its upper levels and the channel to its lower level.
`operate()` is atomic in a cycle, but the model takes one action per function it calls, so that a
step of the model is a step of the code: `stage` is the place in `operate()`, `budget`, `quota`,
`share`, `todo` and `scan` are its local variables.

| `stage` | code of `operate()` | actions |
|---|---|---|
| `idle` | between two calls | `UpperRequest`, `UpperFinishPacket`, `LowerAccept`, `LowerRespond`, `BeginPhase`, `BeginOperate` |
| `returns` | the loop over `lower_level->returned` | `FinishPacket`, `FinishReturns` |
| `fills` | the loop over `inflight_fills` | `HandleFill`, `HandleFillFails`, `FinishFills` |
| `initiate` | bandwidth shared over the upper queues and `internal_PQ` | `InitiateTagCheck`, `NextQueue`, `InitiatePrefetch`, `FinishInitiate` |
| `hits` | `try_hit` on what is ready in the pipeline | `TryHit`, `TryHitMisses`, `FinishHits` |
| `misses` | `handle_write` or `handle_miss` on the rest | `HandleWrite`, `MergeIntoMSHR`, `MergeIntoFill`, `ForwardMiss`, `HandleMissFails`, `FinishOperate` |

The replacement policy chooses any way (or bypasses, if `PolicyMayBypass`); the prefetcher asks
for any of `PrefetchRequests` in each hook. An address is its block; times are numbers of cycles
still to wait (`BeginOperate` ticks them). The upper levels keep the client side of `MemoryPort`;
`asked` is the set of blocks each waits for: the client is a cache, which merges its own misses. Above a
first-level cache the LSQ and the walker may ask for a block they wait for already
(`ooo_cpu.cc:600`, `ptw.cc:102`); such a request takes the same merges as one of another upper level,
which `cache_shared` has.

Left out: the translation path (the model is a level whose requests arrive translated, such as
L2C and LLC), `invalidate_entry` (nothing calls it), statistics other than the prefetch
counters.

### RegisterRename

The ROB from dispatch to retirement with the whole `RegisterAllocator`. `stage`, `scan`,
`operand` and `budget` are the place in `operate()`, the iterator over the ROB, the operand in
the allocator's loop and what is left of the bandwidth. An entry keeps in `instr` the registers
the program named, while `src` and `dst` are overwritten by renaming, as in the code.

| code | actions |
|---|---|
| `retire_rob`, `retire_dest_register`, `free_register` | `RetireDest`, `RetireNext`, `RetireErase` |
| `complete_inflight_instruction`, `do_complete_execution` | `CompleteInflight` |
| `execute_instruction`, `do_execution` | `Execute` |
| `schedule_instruction`, `do_scheduling` | `ScheduleStops`, `ScheduleEnds`, `ScheduleSkips`, `BeginScheduling`, `FinishScheduling` |
| `rename_src_register`, `rename_dest_register` | `RenameSource`, `RenameDest` |
| load return, store finish | `FinishLoad`, `FinishStore` |
| `dispatch_instruction` | `BeginDispatch`, `Dispatch` |
| the next cycle, the end of warmup | `NextCycle` |

The model has the code's lookup of entries that are renamed already (`IsAllocated` on a physical
register number): it is what the finding below is about, and it needs the physical registers to
be fewer than the entries of the RAT, which `RenameAssumption` states and the default
configuration (128 and 256) satisfies. The load and store queues are reduced to loads and stores
that finish after their instruction, or an older store, has executed.

### LoadStoreQueue

The LQ and SQ of one core with the part of the ROB they look at. `stage` sequences the calls of
`operate()`; `CompleteStores(n)` and `IssueLoads(S)` let the L1D refuse what it likes.

| code | actions |
|---|---|
| `retire_rob`, `complete_inflight_instruction` | `Retire`, `Complete` |
| `handle_memory_return` (data side) | `MemoryReturn`, with `Answer` for the L1D |
| `operate_lsq`: finish stores, complete stores, issue loads | `FinishStores`, `CompleteStores`, `IssueLoads` |
| `execute_instruction` | `Execute(E)`: which sources are valid is left open |
| `dispatch_instruction`, `do_memory_scheduling` | `Dispatch` |

The comparison of `ooo_cpu.cc:499` is translated as `max_element` uses it, one step at a time. It is
no strict order; `LoadWaitsForYoungestStore` shows that the result is right all the same. A load
that waits for a store is answered by it and never reaches the cache. Loads of one block are
answered together, so an answer may find nothing left to do.

### FrontEnd

From the trace to the dispatch buffer: `InitInstruction` (input queue, predictor, stop behind a
misprediction), `CheckDib`, `FetchChunk` and `EndFetch` (one block at a time, refused or not),
`ServeInstruction`, `PopResponse`, `EndReturn` (`handle_memory_return`, instruction side, which may
stop in the middle of an answer), `Promote` and `Decode` (the two ways and their merge),
`Dispatch`, `Complete` (a branch resolved by the back end). The predictor, the L1I and the back end
are nondeterministic. A DIB of one set; the warmup phase, in which mispredictions do not
stop the trace, and the code prefetcher are left out. `Positions` has the few operators on
increasing sets of positions that say what is selected from a buffer and what stays, for this
module and for `Translation`; none is recursive, so that they can be reasoned about.

### VirtualMemory and Translation

`VirtualMemory` has the page table and the free list, with `va_to_pa` and `get_pte_pa` as
operators that a caller takes as part of its step. The free list is a constant sequence: what
`populate_pages` and `shuffle_pages` leave is the same at every refill, the seed being used anew.
`Translation` puts the walker (`ptw.cc`) on it, and on the walker the translating half of a cache:
tag check pipeline, stash, `issue_translation`, `finish_translation`. One answer, one fill and one
read are a step each (`FinishTranslation`, `FinishPacket`, `HandleFill`, `HandleRead`), with `budget`
for what is left of the walker's bandwidth; `FillRefused` and `ReadRefused` are the lower level's
refusals, after which the rest waits for the next cycle. PSCLs skip levels; the lower
level may refuse reads and answers in any order. A block holds a whole page table, which makes
the most walks share one answer. The first step of a walk asks for the first table of the page, whatever
slot its table has, because `ptw.cc:69` takes only the page of it (`WalkInit`). The
walker's `MSHR_SIZE` does not occur: the code never compares it with anything, so the number of walks
is bounded by the requests only.

### DramChannel

`MEMORY_CONTROLLER` with one channel. A cycle has four parts: `BeginCycle` lets time pass;
`InitiateRequests` empties the queues of one upper channel after the other (`todo`, in any order)
into the free slots; `BeginOperate` drops writes that collide (all of them in warmup) and then new
reads are answered, merged or kept one by one (`WarmupAnswer`, `ForwardWrite`, `MergeRead`,
`NoCollision`); `FinishCycle` is the rest of `operate()`: finished bus transfers, write
mode, refresh, banks to the bus, and new requests on banks, each an operator from a channel
state to the next, composed in the order of the code. `UpperRequest`,
`UpperFinishPacket` and `BeginPhase` are the neighbours. Two orders of the code are kept that a
reader may not expect: the scheduler takes the first ready request, not the oldest, and a bank
that is being refreshed counts as free while it is looked for.

### Parts that only their caller drives

| Module | Code | Kept | Abstracted |
|---|---|---|---|
| `CustomPref` | `custom_pref.h` | genome, three patterns with fallback, both throttles, counters | cache: any occupancy, any refusal; a degree of at least 1, which `load_genome` does not check |
| `SignaturePath` | `spp_dev.cc` | ST, PT, FILTER, GHR, lookahead: a pass of either loop of `prefetcher_cache_operate` is a step, `walk` its local variables | hashes are constants; the queue of a lookahead, which has `MSHR_SIZE` slots in the code, has no limit |
| `LinePrefetchers` | `next_line`, `ip_stride`, `va_ampm_lite` | tables, page ends, room in the PQ; a distance that `va_ampm_lite` tries is a step, `search` its local variables | fill level |
| `LruTable` | `lru_table.h` | all operations | - |
| `BranchTargets`, `InstructionDecode` | `basic_btb`, `instruction.h`, stack pointer folding | all three predictors, kinds of branch from the registers read and written | - |
| `BranchDirection` | `bimodal`, `gshare`, `perceptron`, `hashed_perceptron` | counters, weights, histories, folding; predictions of non-branches | table sizes |
| `Replacement` | `lru`, `srrip`, `drrip`, `ship`, dispatch of `cache.h` | which hook is called when, duelling, sampler; merged misses, write-backs that make fills of their own, misses looked up again, fills whose write-back is refused | one processor; the lower level answers and refuses at will |
| `TraceReader` | `tracereader.h`, `repeatable.h` | buffering, targets, end of file, reopening | decompression |
| `Simulation` | `champsim.cc`, `operable.cc`, `phase_info.h` | phases, clocks, end of traces, deadlock and livelock | what an operable does in a cycle |
| `AddressMapping` | `address.h`, `extent.h`, DRAM_ADDRESS_MAPPING | slices, casts, offsets, splices, mapping and its folding | static and dynamic extents are one |
| `AgentLoop` | `agent_loop.py`, `gemini_client.py` | both files rewritten in place, traces that fail, queries and retries, crashes between any two steps | the service: any genome of a set |

In `AgentLoop` a write is two steps, `OpenX` (which empties the file) and `DumpX`, so that a crash
between them leaves a file `read_json` takes for a missing one.

The modules `MC*` give TLC the constants; `MCUnits` puts the sequential parts side by side, each
behaviour driving one of them while the others keep an initial state, and `MCSpp` is the
signature path prefetcher on a long stream. `Words` takes the exclusive or as a constant operator
(`ExclusiveOr`), so that the modules that need one can be proved about; the `MC*` modules give it
the bitwise operator.

## 3. The runs

| Run | Properties | What it shows |
|---|---|---|
| `cache_writeback` | NoForgottenRequest, DirtyLeavesByWriteback, EventuallyAnswered | loads and write-backs of two blocks in one line, one MSHR entry, one tag check a cycle, lower queues of 1: misses stall, fills are retried on a full lower WQ, the policy bypasses; nothing is lost and every demand is answered |
| `cache_prefetch` | NoForgottenMiss, OneCopy, PrefetchAccounting, TagPipelineBound | a first-level cache (stores are misses) with a prefetcher that asks from every hook, across the end of warmup |
| `cache_shared` | NoOrphanResponse, AnswersOnce, AsksOnce | two upper levels miss on the same blocks; both ends refine `MemoryPort` |
| `cache_lost_write` | WritesMayNotBypass | violated: first finding |
| `rename` | RegistersConserved, ReadsLastWrite, ExecutesAfterWriters, AlwaysRetires | three architectural registers written and overwritten by two kinds of instruction, five physical ones, a ROB of three; with exactly the registers the code needs the ROB never stops retiring |
| `rename_stops_early` | StopsForNextInstruction | violated: second finding |
| `dram` | BanksMatchQueues, ImplementsMemoryPort, EventuallyAnswered, EveryBankRefreshed | reads, prefetches without answer and writes of two blocks in two banks; collisions, mode changes, refresh and the end of warmup |
| `lsq` | MemOpsConserved, DependentsWait, LoadWaitsForYoungestStore, StoresFinishBeforeWritten, EverythingRetires | four programs whose accesses conflict within and across instructions, full queues, a reluctant L1D |
| `frontend` | ProgramOrder, StopsBehindMispredict, EverythingDispatched | two programs whose later iterations hit in the DIB while earlier instructions decode, every outcome of prediction |
| `translation` | NoSharing, NoLostTranslation, EverythingTranslated | cache, walker and page allocator together |
| `units` | AddressesKeepTheirBits, RegionOfInterest, ReturnsFollowCalls, SearchIsRecorded, TableKeepsRecency, SppAssertionsHold, PrefetchesFollowHistory, HistoriesAgree, PrefetchesHaveReasons, TraceInOrder, VictimsAreCold | eleven sequential parts against what they stand for; deadlock is not checked, since their streams of inputs end |
| `spp_halved` | GhrFindsVictim | violated: third finding |

Every property of a passing run has a mutant in `PROJECT.json`: a definition of the model changed
as a slip in that code would change it, which makes TLC find the property violated. The mutants
are the operators named `<Definition>_<Change>` in the modules.

### Bounds

* One set with one line makes every two blocks conflict, which is what evictions, write-backs and
  merges need, and two blocks are enough for one to be filled while the other is the victim. The
  safety properties of the cache are proved for any number of blocks. Sets do not interact.
* Queues of size 1 and an MSHR of 1 or 2 entries are full all the time; an MSHR of 2 is the
  smallest in which `finish_packet` swaps entries.
* `MaxPending` bounds the number of requests inside the cache when a write enters, because
  `inflight_fills` has no limit in the code; `MaxPrefetch` bounds the prefetches per phase.
* Five physical registers are exactly what one instruction needs beside the three architectural
  ones in use, so the free list runs empty again and again and every register is recycled; a ROB
  of three holds a writer, an overwriting writer and a reader. A scheduling latency
  of two cycles makes the change of latency at the end of warmup visible.
* Blocks and upper channels are symmetric in `cache_prefetch`, `cache_shared` and
  `cache_lost_write`; no symmetry is used where liveness is checked.

* `dram`: two blocks in different banks (two rows of one bank, `Block = {a, b}` with `tRP = 1`, pass
  as well; all three blocks are out of reach); queues of two are the smallest with two
  different watermarks. `tREF` of three cycles puts refreshes between all steps of a
  request. Upper queues hold one request.
* `lsq`: LQ of three, SQ of two, ROB of three under programs of four instructions that need more,
  so dispatch waits for every queue. `frontend`: buffers of two or three under five instructions,
  a DIB of two windows under three.
* `translation`: two levels, three virtual pages of which two share a page table, three physical
  pages and two tables to a page: the page of tables fills up, and the free list runs out and is
  filled again. Three requests (`MaxRequests`), an MSHR of one in the cache and queues of one.
* `units`: the streams are the shortest in which a table overflows, a counter saturates and is
  halved, a stack drops its oldest call or a buffer is refilled several times; `MaxAccesses`,
  `MaxSppOperations`, `MaxLruAccesses`, `MaxBranches`, `MaxOutcomes`, `MaxOthers`,
  `MaxReplacementSteps`, `MaxHandedOut`, `MaxAddressSteps`, `MaxLineAccesses` and
  `MaxStarts` bound them. Words, tables and counters are small (`WORD_LEN`, `COUNTER_MAX`, `SHCT_MAX`,
  `PSEL_MAX`, `C_SIG_MAX`, `LINES`), so that they wrap and saturate. The signature path prefetcher has
  two pages of eight blocks and too few accesses to reach `GLOBAL_COUNTER_MAX`. The replacement policies
  have six lookups of three lines, two of which share a set of two ways, and `REPLACEMENT_MSHR` of one:
  enough to fill a set, write a block, have its write-back refused again and again with hits in
  between, merge a miss and fill a block twice. Refusals have no bound.
* `spp_halved`: a stream of single steps through six pages; `GLOBAL_COUNTER_MAX` and `C_SIG_MAX` are
  7 instead of 1023 and 15, so that the counters are halved within 48 accesses.

### Fairness

`operate()` is called in every cycle, so `Operate` is weakly fair. In `Cache` each neighbour acts
only between two calls (`stage = "idle"`), and does so in every cycle in which it can, hence
strong fairness for `UpperFinishPacket`, `LowerAccept` and `LowerRespond`: the lower level is
assumed to take from each of its queues and to answer each block sooner or later. In
`RegisterRename` the memory system is assumed to finish each load and each store; its steps are
possible only in one stage, hence strong fairness again. The upper levels are not assumed to send
anything and the front end is not assumed to dispatch.

`EventuallyAnswered` of `Cache` assumes that the writes pause (`WritesPause`): again and again a cycle
begins with no write in WQ or in the tag checks. `operate()` drains WQ first, and nothing in the
code stops a steady stream of write-backs from taking every tag check; without the assumption TLC
finds that stream, with one tag check a cycle or with two. The run has one, where it takes one
write a cycle. The hazard list says so.

`DramChannel`: the loop operates the controller in every cycle, `[]<><<Cycle>>_vars`, and the caches
above read their answers. `EventuallyAnswered` assumes that writes pause in the end
(`WritesPause`): while WQ stays above its low watermark reads wait, and only the writers limit
that. `EveryBankRefreshed` needs no such assumption.

`LoadStoreQueue` and `FrontEnd`: the clock (weak fairness of the steps of `operate()`), an L1D or L1I
that does not refuse one request for ever and answers, a back end that resolves branches and whose
oldest instruction gets its sources, a front end that delivers. What can be refused in one cycle
and accepted in another is strongly fair.

`Translation`: the clock, and a lower level that neither refuses for ever nor keeps an answer; the tag
check takes its oldest entry in the end.

## 4. The proofs

All theorems are for arbitrary constants that satisfy the assumptions of their modules:
`CacheAssumption`, `RenameAssumption`, `LSQAssumption`, `FrontEndAssumption`, `VmemAssumption` with
`TranslationAssumption`, `DramAssumption`, `AgentAssumption`, `SimulationAssumption`,
`TraceAssumption`, `CustomPrefAssumption`, `LruAssumption`, `BtbAssumption`, `ReplacementAssumption`,
`SppAssumption` or `LineAssumption`. They assume no fairness and no bound but those the models
themselves have. Of `DramAssumption` two parts matter: blocks of one
bank are in one bank group, and requests for WQ want no answer, which is how the caches write
back (`cache.cc:200`); the controller would never give one. Of `SppAssumption` one: C_SIG_MAX is odd,
as `(1 << C_SIG_BIT) - 1` is.

`CacheProofs`

* `TypeCorrect`, `TagPipelineBounded`: `Inv == TypeOK /\ SchedOK` is inductive. `SchedOK` is what
  `operate()` knows about its local variables between two calls: in `initiate` the
  bandwidth still to be spent plus the pipeline's length is at most its depth, and the cursors of
  the two later loops stay inside the pipeline.
* `NoOrphan`, `NoMissForgotten`: `MissInv` says that the set of MSHR addresses is the
  disjoint union of the requests waiting in the lower RQ and PQ, those the lower level works on
  and those answered, each block once. `NoOrphanResponse` and `NoForgottenMiss` are each one half
  of it and not inductive alone: a response removes an MSHR entry, so without "each block
  once" a second response would be orphaned.
* `LowerPortRefined`: every step maps to a step of `MemoryPort` or a stutter, with the MSHR
  addresses as what is asked for. It needs `MissInv`: a new miss is not outstanding, and an
  answer is to an outstanding block.
* `NoRequestForgotten`, `UpperPortRefined`: the same for the other end. `AskInv` says that the
  blocks an upper level waits for are the disjoint union of those in its three queues, in the tag
  checks, in the MSHR, among the inflight fills and in `returned`, none of them twice in one place
  for one level, although a merge lets one entry stand for several levels; and that prefetches
  of this cache answer nobody. Each step of a request moves a set of blocks from one place to the
  next (`Shifting`, `TokenMoves`), a merge included.
* `OneCopyOfBlock`: where stores are misses (`match_offset_bits`, a first-level cache) a block is in
  one line at most. `CopyInv` adds that MSHR and inflight fills have each block once and none that
  hits, and that what `try_hit` found missing still misses when `handle_miss` sees it:
  the misses stage of a cycle works on a result of the hits stage, and only fills, which come
  before both, could make it stale. Write-back levels lack the property, see section 5.
* `DirtyLinesWrittenBack`: only `HandleFill` and `TryHit` touch lines, and `HandleFill` replaces a
  dirty one only together with the write-back that the lower WQ accepts.
* `PrefetchesCountedOnce`: the inequality of `PrefetchAccounting` is inductive on top of the types. For
  each action a balance says what leaves the pending prefetches and what is counted.

`RegisterRenameProofs`

* `TypeCorrect`, `RegistersAreConserved`: `Inv` (types, the cursors, and that entries are
  scheduled, executed and completed in this order with renamed destinations in the register file)
  and `RegInv` (conservation, with "every register in use knows an architectural register that is
  mapped" and "what is committed is mapped") are inductive only together. `RegInv` needs the
  cursors of `Inv`; `Inv` needs `RegInv` for what `retire_dest_register` looks up: a register in
  flight is not free, so its `arch_reg_index` is not the 255 that `free_register` leaves.
  The lemmas `TakeFree` and `GiveFree` are about the free list, `QuietStep` serves the steps that
  leave the registers alone, and `Erased` relates ROB positions before and after retirement.
* `SourcesReadLastWrite`, `WritersComplete`: `OrderInv` ties both RATs to the program: the
  frontend RAT maps each register to the last renamed write in the ROB, or to the committed value
  when there is none, and the backend RAT to the last committed write. It rests on
  conservation: a register that is recycled is in flight nowhere, so what a renamed source reads is
  not overwritten. That a writer has completed when a reader executes needs two facts the code
  states nowhere: instructions are scheduled in the order of the ROB (`ScheduleOK`: an older one
  never waits longer), and a register in flight is valid only when its writer has
  completed (`ValidOK`).

`LoadStoreQueueProofs`

* `LSQInvariant`, and from it `AccessesConserved`, `DependentsStay`, `MemoryOrder` and
  `WrittenStoresFinished`: the four invariants are proved together, since each needs the others. A
  store leaves the SQ only when its instruction has retired, hence with all accesses done; the
  loads that waited for it have been released; so the youngest older store of a load that is still
  in the LQ stays where it is. The induction adds that the ids in the ROB are consecutive, that a
  completed entry has all its accesses done, and that `lq_depend_on_me` and `producer_id` are
  the two directions of one relation in which a load waits for one store only. `MemoryOrder`
  includes the odd comparison of `ooo_cpu.cc:499`: whatever its verdict on equal ids, what
  `max_element` ends with is the youngest.

`PositionProofs`, `FrontEndProofs`

* `PositionProofs` says what the operators of `Positions` return: the n-th smallest position of a
  finite set, what is selected, what stays, and how both relate to the sequence they come from.
  Where one would argue by induction the lemmas count: a rising map from an interval into
  an interval of the same size is onto. `UnitProofs` uses the same facts for lists kept in
  order of use.
* `InstructionsInOrder` (`ProgramOrder`): each of the two buffers in front of decode is rising,
  they share no instruction, and together they hold every one between the dispatch buffer and the
  fetch buffer. What a call of `decode_instruction` takes from the two is closed towards the
  older, so it is the next stretch of the program and a prefix of each buffer, however
  DIB hits have overtaken the instructions that are decoded.
* `FetchStopsBehindMispredict`: rests on the order. Fetch stops behind one instruction, and
  there is only one entry with its number, so fetch is resumed once, and by one of decode and execution.

`TranslationProofs`

* `NoTranslationLost`: an entry that asked for its translation is served (`EntriesServed`): its page
  is in the queue to the walker, in a walk, finished, completed or among the answers. An answer
  leaves `translate_returned` only in the step that translates every entry of its page, those that have
  not asked included; a block leaves `returned` only when no walk is left that it matches
  (`WalksServed`). The types carry the levels: a PSCL entry of a level holds a table, and a walk
  that is stepped down stays within the levels.
* `PagesAreNotShared`: `NoSharing` alone is not inductive: `Unshared` adds
  that the free list holds no page twice and that the slots of the active page are used in order,
  without which the next slot might be taken already. `PageTaken` is about the free list,
  `DataPageKeeps` and `TablePageKeeps` about the two calls.

`DramProofs`

* `DramInvHolds`: `DramInv` (types, `BankInv`, `WaitInv`) is inductive.
* `BanksAndQueuesMatch`: `Match`, in `BankInv`, says that the valid banks and the scheduled slots are
  in one to one correspondence, each slot with the bank of its address. The functions of
  `FinishCycle` keep it one after the other, each lemma from the state its predecessor leaves. It
  needs that nothing is scheduled before the collision check has seen it, so that
  `check_write_collision` and `check_read_collision` never empty a slot that a bank works
  on; `FinishCycle`, which schedules, starts with every slot checked (`AllChecked`).
* `MemoryPortImplemented`: `WaitInv` says that each block an upper level waits for is in exactly one place:
  its RQ, its PQ, one slot of the controller's RQ (as one of several in `to_return` after a merge)
  or its answers. Requests enter the free slots in order (`Rank` is a bijection between the slots
  filled and the requests taken, lemmas of their own), a merge moves the waiting levels from one slot to
  another, and mode changes and refreshes leave `to_return` alone.

`UnitProofs`

* `SearchRecorded`: for any genomes, results, number of generations, retries and starts, every record
  was measured under its genome in every trace the averages count, and the history loses records
  only by a crash inside the write of the history. `Measuring` carries the genome from the file
  through the traces, `InMemory` relates the history in memory to what was written, up to
  the one record about to be.
* `RegionsReported`: while a phase runs, a processor that is not complete is below the length, or has
  retired nothing yet; one that is complete has its region already; and when all are complete the shared
  parts have taken theirs in this very quantum (`RegionsTaken`). That a trace which has ended stays at its
  end is what makes a short region excusable later. The proof found the one exception to "less
  than the length plus a retire width": a phase of length 0 still lasts one quantum.
* `InstructionsAsTraced`: the buffer is a stretch of the file that ends where the reader is, each
  instruction but the last with its target (`Stretch`), and one is left behind until the end was seen
  (`LeftBehind`), whose target the next refill brings. This needs a buffer that refills with two
  instructions at least (128 and 1 in the code, `TraceAssumption`).
* `PrefetchesFollowed` (`PrefetchesFollowHistory`): an entry of either table is a function of the last
  lines of its instruction (`StrideRemembers`, `DeltaRemembers`): the last one, the last
  step, and how many equal steps precede it as far as the confidence counts. The two throttles
  change the degree in turn and never beyond the genome's.
* `RecencyKept` (`TableKeepsRecency`): `Arranged` is a list of ways in order of use, one for each element
  of the list the table stands for and one for each way in use. The hardest case is a fill: the victim is the way
  with the smallest stamp, which is an empty one or the last of the list.
* `ReturnsPredicted` (`ReturnsFollowCalls`): the stack is the end of the list of open calls
  (`EndsWith`), also when it has dropped its oldest; a tracker a return has set holds the size of the calls that
  share it, if they have only one (`SizesLearnt`).
* `ColdVictims` (`VictimsAreCold`), from three invariants. `Ordered`: no two blocks of a set have the same
  stamp of lru, and of two the later one was used since the earlier. `Promoted`: a block of the others
  that was promoted since the last search of its set has value 0, and one of value 0 was
  promoted since its fill. `Refusing`: after a refused write-back its victim is the first way
  of the greatest value, which a second search leaves alone (`Ages`), until it is hit. Searches raise
  all values until one is at its maximum, so they end the state of every promoted block: that is why
  the property, for a refused fill too, counts promotions from the last search. `Firsts` is about
  `min_element` and `max_element`. Every value that `brrip_counter` may start from is covered.
* `SppNeverAsserts` (`SppAssertionsHold`), from four invariants. `TableInv`: the LRU values of ST are a permutation,
  and promoting one keeps them so. `WellCounted`: the occurrences counted in a set of PT are
  fewer than c_sig; when c_sig saturates all are halved, and each occurrence that is
  left stands for two old ones, which an odd C_SIG_MAX needs. `GlobalInv`: what counts as useful and
  what may still come to count (`Pending`) is no more than was issued, until the two are halved, which
  forgets what is pending: the third finding. `WalkInv`: only the first candidate of a lookahead
  may have confidence 100, and it leads nowhere; every pass after it loses confidence, so the GHR
  gets entries below 100 only, a lookahead has at most 100 passes, and one entry is always
  replaceable.
* `ReasonsHold` (`PrefetchesHaveReasons`): the lemmas `Found`, `TableLooked` and `TableFilled` say of
  any user of `lru_table` that each tag is in the table once, in its set, that a look changes nothing
  but the order of use and that a fill only adds its own element. On them, `TrackerTrue`: an entry of
  ip_stride has the last line of its instruction, and a stride that is not 0 was its last step; the
  lookahead is some strides, fewer than STRIDE_DEGREE, ahead of an access at the end of two equal
  ones, in its page. `RegionsTrue`: a region of va_ampm_lite maps only lines that were accessed, and
  every line asked for is marked in its region for as long as the table has it, which is why no line is
  asked for twice; a region that was thrown out comes back with empty maps, which forgets both.

Model-checked only:

* liveness (`EventuallyAnswered` of both modules, `AlwaysRetires`,
  `EveryBankRefreshed`, `EverythingRetires`, `EverythingDispatched`, `EverythingTranslated`): fairness
  and `ENABLED` are out of this prover's reach;
* `AddressesKeepTheirBits`: logarithms by recursion, powers of two and bitwise operators;
* `HistoriesAgree`: the predictors fold a history into a number bit by bit, so what they hold is a
  fold over the outcomes and its proof an induction over data.

## 5. Findings

1. `cache.cc:117` (run `cache_lost_write`): a load that merges into the inflight fill of a
   write-back replaces its type, so the line is filled clean, or bypassed, and the written data
   never reaches the lower level. Line 181 says of such fills "Writes may not bypass". The
   shortest trace: a write-back misses and becomes a fill, a load of the same block
   merges into it before it is filled, the fill is now a load.
2. `ooo_cpu.cc:417` (run `rename_stops_early`): the test for free registers is also applied to
   entries that are scheduled already. Their destinations are counted again and their sources,
   physical register numbers by then, are looked up as architectural ones. Scheduling then stops
   although the next instruction to be scheduled has enough registers; line 414 says it stops for
   the next instruction. It costs cycles, never correctness: the run `rename` holds with it.
3. `spp_dev.cc:86` (run `spp_halved`): when `pf_issued` passes its maximum both counters are halved, but
   the prefetches issued and not yet used still add one to `pf_useful` each. It may then exceed
   `pf_issued`; the accuracy passes 100%, a lookahead gains confidence with every step
   instead of losing it, entries of the GHR reach confidence 100, and the assertion of line 528
   ("[GHR] Cannot find a replacement victim!") fails. The run is a sequential stream whose
   prefetches are all used. `SppNeverAsserts` shows that nothing but the halving leads there.

### Behaviour worth knowing

What the models show of the code. No document says otherwise, except in the last entry:

* Cache: `handle_write` does not look at the MSHR, so a write-back level may hold a block twice;
  `inflight_fills` has no limit; a `HIT_LATENCY` below one clock period makes a pipeline of depth 0,
  in which no tag check ever starts; a steady stream of write-backs starves the loads.
* Renaming: with more than 256 physical registers, `register_allocator.cc:74` reads past the
  frontend RAT.
* Walker and memory: the walker's MSHR_SIZE is never compared with anything; once the free list is
  empty every page is handed out again, those in use included.
* DRAM: writes that never pause starve the reads; with one bank and one bank group the loop of
  `dram_controller.cc:561` does not end.
* Store queue: a store is written when it is older than the retired instructions and ready; that
  it has finished follows from the order of the steps only.
* Prefetchers: in HYBRID mode of `custom_pref.h` the second throttle overwrites the first; refused
  prefetches count as issued. `va_ampm_lite` does not mark the access that allocates a region.
* Replacement: a fill asks for its victim again in every cycle in which the lower level refuses the
  write-back (`cache.cc:207`), and `find_victim` of `srrip`, `drrip` and `ship` ages the whole set each
  time its maximum is below the limit. With hits on the victim in between, a promoted block can
  become the victim before one that was never promoted. Two write-backs that miss on one
  block fill two ways.
* Direction predictors: `perceptron` predicts with a history that holds its own predictions of
  instructions that are no branches (`ooo_cpu.cc:138`), until the next misprediction puts the outcomes
  of branches there again; these instructions also leave states that nothing takes out but the limit
  of the buffer.
* Traces: the last instruction of a file is not handed out; one trace that ends finishes the
  phase of all processors.
* Agent: a crash while a file is written loses all of it; traces that fail are left out of the mean.
* `srrip` has no hook for fills, and the dispatch (`cache.h:475`, `514`) drops what it would be told
  instead, so a block filled into a full set keeps the value of its victim. The comment above its
  `update_replacement_state` ("called on every cache hit and cache fill", `srrip.cc:23`) says
  otherwise. No run is spent on it: the comment fails at the first fill of any behaviour.

## 6. Not modelled

* Statistics other than the prefetch counters, printing, plots: input and output.
* The builders (`cache_builder.h`, `core_builder.h`) and the configuration scripts: parameter plumbing
  and code generation before the build.
* The other search scripts: `chia_distributed_loop.py` keeps no history that it reads back and
  `run_baselines.py` is a sweep of fixed genomes.
* The `random` policy, which keeps no state: `Cache` lets the policy choose any way.
* Decompression of traces.
* Of the modelled parts: the warmup of the front end, `reset_frontend_RAT` and `invalidate_entry`,
  which nothing calls, several address spaces, several DRAM channels.

## 7. Running

    tlc -config MCCacheWriteback.cfg MCCache.tla
    tlapm CacheProofs.tla

Each run of `PROJECT.json` names its module and configuration. From nothing, `CacheProofs` takes
about nine minutes, `UnitProofs` about ten, `RegisterRenameProofs` about five, `FrontEndProofs`,
`DramProofs` and `LoadStoreQueueProofs` two to three each, `TranslationProofs` a little more than one,
`PositionProofs` less. The run `units` takes about three minutes and a quarter, the others one at most.
