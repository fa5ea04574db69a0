# A TLA+ model of the RISC-V pipeline simulator

This directory holds TLA+ modules that model the simulator under `src/`, TLC
configurations that check them, and theorems that TLAPS proves about them.
Every definition is translated from the Python source. Line numbers are those
of the files under `src/`.

## 1. Inventory

The program is single-threaded, but it simulates concurrent hardware: what can
go wrong is the interleaving of stages, buffers and countdowns inside a cycle
and across cycles, and long sequences of calls that leave the virtual memory's
structures in disagreement.

| component | state | operations | correct when |
|---|---|---|---|
| Simulator loop and stages (`core/simulator.py`, `core/latches.py`, `stages/*.py`) | `pc`, four latches, `_mem_wb_buffer`, `_mem_bubbles_remaining`, the fetch buffer and its countdown | one cycle: write-back, memory, execute, decode, fetch, ticks | instructions take effect as if one at a time; the loop ends, and not before everything is written back |
| Hazard unit (`core/hazard_unit.py`) | the execute counter in ID/EX | `detect`: stall signal and forwarding | every operand read is the newest one |
| Store buffer (`stages/mem.py`) | queue of stores, countdown | append, forward, drain, flush | bounded; loads see the youngest store |
| Registers, data and instruction memory (`components/*.py`) | words, registers | read, write | x0 is 0; words wrap to 32 bits |
| Caches (`components/cache_system/cache.py`, `cache_hierarchy.py`) | sets of lines, recency, counts, dirty bits | fetch, load, store, evict, flush | inclusion; a load returns the last value stored |
| Memory controller (`components/cache_system/memory_controller.py`) | write-back queue, active write, countdown | enqueue, tick, flush | no write-back is lost |
| TLB (`vm/tlb.py`) | slots, recency list | lookup, insert, set_dirty, invalidate | no stale translation; displaces the least recently used; raises only when its slots are used up |
| Page table, page walker (`vm/page_table.py`, `vm/page_walker.py`) | rows with frame and dirty bit | lookup, insert, evict, walk | inverse of the allocator's frames |
| Frame allocator (`vm/frame_allocator.py`) | free list, owner of each frame, recency list | allocate, mark_accessed | no frame shared or lost; the victim is the least recently used |
| Swap (`vm/secondary_memory.py`) | saved pages | save, restore | no page is lost |
| Translator (`vm/address_translator.py`) | the four above, bytes of memory | translate | a page holds what was last stored in it |
| Parser (`utils/parser.py`) | none after it returns | two passes over the text | labels and instruction positions agree |
| `main.py`, statistics, `vm/test_vm.py` | none | wiring, printing, tests | |

How they interact: `Simulator.run` calls the stages in reverse order each
cycle. Fetch calls `CacheHierarchy.fetch`. The MEM stage calls
`AddressTranslator.translate` for instructions of a trace, appends stores to the
store buffer, and serves loads from the store buffer or from the caches. `tick`
drains the store buffer into the caches and the memory controller's queue into
data memory. The translator reads and writes the bytes of data memory directly
when it evicts or prepares a frame, without a word to the caches.

What is hard: forwarding windows that open and close while one part of the
pipeline is frozen and another goes on; accesses that end during a stall; a
branch that redirects fetch while an access is pending; queues that are checked,
filled and drained at three points of one cycle; dirty bits kept in one of two
places; invalidated TLB slots; memory bytes that are behind the caches, the
store buffer or the write-back queue. `PROJECT.json` lists the hazards line by
line with the properties that cover them.

## 2. Plan

1. *(done)* Virtual memory: `TLB`, `AddressTranslator`, with the abstract
   `PagedMemory`, the history-variable module `TranslatorRecency` and the proofs
   in `AddressTranslatorProofs`.
2. *(done)* Pipeline: `Instructions`, `Pipeline`, with the abstract machine `ISA`
   and the programs of `MCPipeline`.
3. *(done)* Caches: `Cache`, `CacheHierarchy` with the memory controller,
   `MemorySystem`, and their proofs in `CacheProofs`, `HierarchyProofs` and
   `MemorySystemProofs`.
4. *(done)* Composition: `CachedPages`, the translator over the hierarchy behind
   the store buffer, and its proof in `CachedPagesProofs`.
5. *(done)* The parser's two passes: `Parser`, and their proofs in `ParserProofs`.
6. *(done)* Proofs for `Pipeline`, in `PipelineProofs`: its types, the store
   buffer's bound, the results kept back, the refinement of `ISA`, and the state
   at the end.
7. Left: `Pipeline` over the caches and the translator in one module, which would
   need a smaller pool of programs; runs for the flush order and for the exception
   of `translate` (section 4, "Other behaviour"). Every safety property of the runs
   that pass is proved.

## 3. Modules

### Virtual memory

`Recency` has the four lines that the TLB, the frame allocator and the cache
sets share: a Python list of indices, least recently used first.

`TLB` has the TLB's operations as functions of its value `[entries, order]`,
because one call of `translate` makes several of them. `Invalidate` clears
`valid`, keeps the page number and takes the slot off the list;
`InsertSlot` reuses a slot that already names the page, valid or not, else
appends, else takes the head of the list; `InsertRaises` is `pop(0)` on an empty
list.

`AddressTranslator` has one action for each of the four ways through
`translate`: `TLBHit`, `WalkHit`, `FaultFree`, `FaultEvict`. Each includes
everything the call does: the walker's and the allocator's updates, the swap
store, the bytes of the frame, the TLB's insertion with the write-back of a
displaced dirty bit, and the caller's access. The caller is the one of
`vm/test_vm.py:177-179`, which reads or writes physical memory right after the
translation. State: `tlb`; `table` (only resident pages have a row); `owner`,
`freeList`, `frameOrder` (allocator); `mem` (one value per frame); `disk`
(swap); `crashed` (translate raised); `access`, what the program saw of its last
access, which is what the promises below are about. When `insert` raises, the changes made
before it stay. `ByteLevel = FALSE` is the translator built without data memory.

`PagedMemory` is what a virtual memory promises: pages that hold what was last
stored and loads that return it, or, with `MayLose`, pages that may turn into
zeros while another one is accessed. `TranslatorRecency` adds the
order of the program's accesses as a history variable, outside the code's own
lists; `MCTranslator` is what TLC runs.

### Pipeline

`Instructions` gives what instructions read, write and compute. `ISA` is the
machine the pipeline stands for: one instruction at a time. `Pipeline` has one
action per kind of cycle, chosen by the stall signal:

| action | cycle |
|---|---|
| `MemoryStall` | `_mem_bubbles_remaining > 0` |
| `StoreBufferStall` | a store is in EX/MEM and the store buffer is full |
| `ExecuteStall` | `add` or `mul` still counting in ID/EX |
| `DecodeStall` | load-use, branch or (without forwarding) any read-after-write hazard |
| `Advance` | no stall |
| `Finish` | the loop's condition is false: statistics, store buffer flushed |
| `Exited` | the program has returned; a stutter, so that deadlock stays checked |

Within an action the stages run in the code's order: write-back updates `regs`
first, decode reads `regs'`, the store is appended before the tick that may
drain it. A latch holds the address of its instruction; the control signals the
code copies from latch to latch are functions of it. The caches and the address
translation appear as the number of cycles an access takes, any member of
`FetchTimes`, `LoadTimes`, `StoreTimes` and `DrainTimes`, so a run covers every
combination of hits and misses at once. Program counters past the end are all
equal to the loop and are cut to `End`. The pool's programs use only the data
addresses `Addrs`: an access outside them has no step in the model, so the
deadlock check also shows that they never leave it. (In the code only a
misaligned address raises; a load beyond memory gives zeros, and a store beyond
it is dropped when it is written back.)

Programs are any sequences of instructions whose branches and jumps land in the
program or at its end (`ProgramsAssumption`), and data memories hold words
(`ImagesAssumption`); the proofs need no more of them.

`MCPipeline` builds the programs: all sequences of up to `MaxBody` instructions
of a menu of nine, between an instruction that puts an address in `x1` and one
that does nothing. Branches and jumps go forward over one instruction, so a body
may end with one that goes to the end of the program, as `program.asm` does. To
these it adds a counting loop and, for each instruction of the menu, a `Burst`: stores
that fill the store buffer, with a result on the forwarding path when the last of
them finds it full and that instruction waits behind it.

Two definitions name what the code does not handle. `LosesOperand` is a cycle that
freezes the instruction in EX, for the store buffer or for its own counter, while an
operand it has from nowhere else is on its last cycle of the forwarding path.
`Settles(p)`, of a program, is that no load of it is followed by the end, at once
or after one or two branches and nothing else. `Sequential` and `FinalState` hold
where neither hazard is met; what happens where they are is in the runs
`pipe_lost_operand` and `pipe_last_load`.

The transition relations of `Pipeline` and `AddressTranslator` were compared
with recorded runs of the Python code on random programs, latencies and access
sequences: every recorded step is a step of the model.

### Caches

`Cache` is one set-associative cache as operators on its value: sets of valid
lines with their recency list. `Insert` has the three places `insert` can take
(the block's own line, an invalid one, the victim's), `Evicted` is what it
returns, `Victim` is `get_victim` of both policies.

`CacheHierarchy` adds the two levels and the memory controller: `Enqueued`,
`Rested` and `Started` (the two halves of `tick`), `InsertL2` (`_insert_l2`),
`FillL1`, `Ensured` (`fetch` and `_ensure_data_block`, which differ only in the
cache and in where a block comes from), `Stored` (`store_word`), `FlushWrites` and
`Flushed` (`flush_all`). A block's data gives each word a value, or an
instruction when it was fetched. One access makes many updates in a row, so
these are functions; the steps are in the modules that use them.

`MemorySystem` has the simulator's three requesters, in the order of a cycle:

| action | code |
|---|---|
| `Load` | `MemStage._handle_load` through the caches |
| `Fetch` | `FetchStage.step` |
| `Drain` | a store leaves the store buffer: `MemStage.tick`, or `flush_all` after the loop |
| `Tick` | the controller's tick, and the countdowns of the load port and the drain |
| `LoopEnds`, `FlushAll` | the end of `Simulator.run` |

`turn` keeps the order within a cycle, `wait` the latencies that must pass before
a requester comes again, `phase` the end of the run. Which blocks are accessed is
left open. Two history variables state the promises: `latest`, what the program
last stored, and `overtaken`, the blocks that a miss has read from memory while a
newer version waited in the controller.

### Translation over the caches

`CachedPages` instantiates `AddressTranslator` for the accesses of a trace:
`LoadForwarded` (from the store buffer), `LoadCached`, `Store`, `Fails`
(`translate` raises, `crashed`), and `Tick`, the store buffer's before the
controller's. `mem` is the translator's memory and the hierarchy's: evictions
copy frames between it and the swap store while their newest bytes may be in the
store buffer, in a cache or in the write-back queue. A page is one block.
`latest` is what was last stored in each page, `recycled` the frames that an
eviction has given to another page, `overtaken` those a miss has read from memory
past a waiting write-back, as in `MemorySystem`.

### Parser

`Parser` has both passes, one action per kind of line: `Marker`, `DataLine`,
`TextLine`, then `Plain`, `Jump`, `LoadAddress` and `Unrecognised`. A line is its
label, operation and argument; splitting text into them and numbers is left out,
and operands that do not parse raise in the code and are not among the sources.
The properties compare the result with the source as its author reads it: which
lines are code and which data, and which line a label belongs to.
`SourcesAssumption` says that a source is a sequence of lines and that a directive
has at least one value.

## 4. Runs

| run | question | result |
|---|---|---|
| `vm_translation` | do TLB, page table and allocator agree, does the TLB displace the least recently used entry, when does `translate` raise, do dirty pages survive, and can a page show bytes that are neither its own latest nor zero? | they agree, it does, only with the TLB used up by invalidations, they survive, never |
| `pipe_forwarding` | is the pipeline with forwarding the sequential machine, and is what it prints at the end that machine's state? (multi-cycle arithmetic, store buffer of 2) | yes, for programs that settle and until an operand is lost |
| `pipe_stalling` | is the pipeline without forwarding the sequential machine, and does every stall end? (multi-cycle arithmetic, store buffer of 1) | yes |
| `caches` | do the caches agree, does every store survive and every load see it, and does every write-back land? | yes, but for blocks read past a waiting write-back |
| `cached_pages_kept` | does a page whose frame no eviction has touched read back what was stored, while other pages are displaced around it and every cache? | yes, but for blocks read past a waiting write-back |
| `parser` | are instructions, jumps, labels and data where the source says? | yes, with the two offsets below |

and the disagreements between code and documentation, each a run that TLC
refutes with a short trace:

| run | what the trace shows |
|---|---|
| `vm_frame_zero` | four frames hold three pages: the fourth page evicts one, where `vm/test_vm.py:116-121` expects none |
| `vm_loses_page` | stored, evicted, restored, read, evicted: the page is zeros |
| `pipe_lost_operand` | shipped latencies: `add` waiting in EX misses its forwarded operand |
| `pipe_last_load` | a last load is never written back |
| `caches_stale` | a miss reads memory while the block's newer version waits in the write-back queue |
| `cached_pages` | a page that gets an evicted page's frame reads that page's data from L1D |

Other behaviour a reader of the code may not expect is part of the models and of
the properties' wording:

- An invalidated TLB slot stays in `entries`, and only its own page can use it
  again. Once all slots are like that, `insert` pops from an empty list
  (`tlb.py:156`) and `translate` raises, half-way through a fault, where the
  docstring says that it will "evict the LRU entry first" (`tlb.py:84-86`).
  `RaisesOnlyExhausted` says when: every slot names a page that was evicted and
  the frames back as many others. A program needs as many pages as there are TLB
  entries and usable frames together (`EnoughSlots` in section 5). After the
  exception the structures still agree (`TypeOK`, `TLBCoherent`, `SlotsTracked`,
  `FramesOwned`).
- Frame 0 is kept for instructions (`frame_allocator.py:43-45`), unless it is the only
  one. The tests were written for an allocator that hands it out: the first page gets
  frame 0 (`test_vm.py:64-65`), four frames take four pages (`:117`), two frames two
  (`:187`). `EvictsOnlyWhenFull` is the second of these.
- A page found by the walk does not count as used for the frame allocator
  (`page_walker.py:70`), which says it will "evict the frame that was used least
  recently" (`frame_allocator.py:30`). No property depends on which page is evicted.
- The controller's `flush` writes the queue before the older active write
  (`memory_controller.py:40-46`). This matters only if both are of one block, and
  then a miss has read the block past the active write (`overtaken`); the store made
  since is lost. `NewestKept` leaves such blocks out, so no property shows it.
- An unrecognised line counts in the parser's first pass and not in its second, so
  jumps to labels below it land one instruction further (`JumpsLand` says by how
  much). A data label is taken before its first word is aligned and may be up to
  three bytes short (`LabelsNameData`).

`NewestKept`, `LoadsReturnLatest` and `UndisturbedPagesReadBack` say nothing of blocks
that are `overtaken`, and the last nothing of frames that are `recycled`: those are
where the code goes wrong, and `caches_stale` and `cached_pages` are the runs that
reach them.

### Bounds

Virtual memory. Four pages over two usable frames (`NumFrames` is 3 and frame 0 is
reserved) and two TLB entries. An eviction leaves its page's slot invalid, so the TLB
often has fewer slots in use than there are pages resident: a page is resident
without a TLB entry, is displaced from the TLB while dirty, is evicted, comes back to
another frame, meets its own invalidated slot and is evicted again while every
other page does the same; and four pages are as many as it takes to use the TLB up and
raise. Contents are two values, zeros and something else, because the properties
compare contents only for equality. Pages are interchangeable, the history of accesses
included, so `MCTranslator` declares their symmetry. `vm_frame_zero` has the sizes of
the test it is about, four frames and eight entries, and no data memory. Deadlock is not
checked here, since the program really stops when `translate` raises.

Pipeline. Four free instructions fill all stages behind the first, so
every hazard the unit looks for (distance one to three) meets every latency;
latencies of 1 and of 2 or 3 cover "no bubble", "one bubble" and "more than
one". In `pipe_forwarding` a store buffer of two that drains in one or four cycles
is full often enough; the bursts reach the stall for it both with and without an
operand on the forwarding path. Its constraint `Followed` drops the programs that
do not settle, and stops at a cycle that loses an operand, because from there on
the run is no longer the machine's. `WordHalf` is a million: no
program of the pool computes so much, and the wrapping of words is not what these
runs are about.

Caches. One set and one line in each L1 cache, one set of two lines in L2, two
blocks of data and one of instructions: the smallest instance in which L1D
displaces a dirty line that L2 keeps, L2 evicts a block that L1D holds dirty, and
a fetch evicts data. L2 uses LFU, the L1 caches LRU. `MaxWB = 0` makes the
write-back buffer always full, so the penalty is always charged. Two bounds of
the model, `MaxUses = 3` and `MaxQueued = 2`, stop LFU counts and the queue from
growing; accesses beyond them are not taken. With three blocks only one that has not been overtaken can be
out of L2 at a time; several of them in the queue at once, and every other size,
policy and latency, are covered by the theorems. Deadlock is not checked, since
the program ends.

Translation over the caches. In `cached_pages_kept` three pages share two usable
frames, so there are evictions; one TLB entry lets `translate` raise; and every
cache has one line, so each access to another page writes a block back and may find
the one it needs still in the queue. Memory is slower than the fastest translation,
so that stores are still in the buffer, of one, when the next load comes. The
constraint `SomethingUndisturbed` drops the states in which every frame is
`recycled` or `overtaken`, which it then stays: they satisfy the property trivially.
Deadlock is not checked, since nothing follows a raised exception.

Parser. Every source of up to five lines over ten kinds of line, in a memory of
16 bytes whose data starts at 4: overflow, bytes before words, redefined labels,
undefined ones and code before any marker all occur. The last step is the
program's end, so deadlock is not checked.

### Fairness

`Pipeline!FairSpec` assumes that the loop of `Simulator.run` goes on
(`WF_vars(Cycle \/ Finish)`), which is what a Python `while` does. Nothing is
assumed about the latencies, which are finite because the configuration's are.
`MemorySystem!FairSpec` assumes the same of the end of a cycle (`WF_vars(Tick)`;
each cycle has one, whatever was accessed in it) and of the flush after the loop
(`WF_vars(FlushAll)`). Accesses need not happen.

## 5. Proofs

### Virtual memory

`AddressTranslatorProofs`, for every set of pages, every number of frames and
TLB entries, and both modes, under the assumptions of the modules (`NumFrames`
and `NumEntries` positive, `Zero` a content, the two flags Boolean):

- `TypeCorrect`, `TLBNeverStale`, `SlotsAlwaysTracked`, `FramesNeverShared`: the
  invariants of `vm_translation` about the structures.
- `RaiseTheorem`: `RaisesOnlyExhausted`; and `EnoughSlots`: a program with fewer pages
  than TLB entries and usable frames together never sees `translate` raise.
- `DirtyPagesNeverLost`: the action property `DirtyPagesSurvive`: a store marks
  its page, the mark stays as long as the page does, and a marked page keeps its
  bytes when it is evicted.
- `ImplementsLossyMemory`: `translate` implements `PagedMemory` with losses.
- `RecencyTheorem`: `TLBOrderIsRecency`,
  from the order lemmas about lists (`WithoutOrder`, `MoveToBackOrder`) and the
  invariant that the TLB's list `Follows` the program's accesses.

The inductive invariant `IInv` is the conjunction of the four invariants about the
structures and `SomeoneToDisplace`, that until an exception a TLB with slots has one in
use; that one is for the proofs alone, which need to know that a walk hit finds a slot
to displace. None is inductive alone: a stale translation is excluded only because the page table
and the allocator are inverse to each other, the slot `InsertSlot` picks is free
only because the recency list holds exactly the valid slots, and an eviction has
a victim only because every used frame is in the allocator's list.
For `RaisesOnlyExhausted`, `RaiseInv` adds that the page of an invalid slot is not
resident (`Retired`), and the pages of the slots and of the frames are counted. The lemmas go
bottom up: lists (in `RecencyProofs`, which the cache proofs share), TLB operations
(`TouchFacts`, `SetDirtyFacts`, `InvalidateFacts`, `InsertFacts`), the common end
of a fault (`InstallFacts`), and one step per action in `NextIInv`. The two
results about contents add `SwapApart`, that no page is both resident and in the
swap store, `PageStep`, what one step means for the pages, and `MarksKept`, that
no dirty bit is dropped on its way from the TLB to the page table.

### Caches

For every number of sets and ways, every policy and latency of the three caches,
every program and every set of blocks, under the modules' assumptions (positive
sizes, blocks are numbers, `Zero` a value, an instruction's block has all its
words), in `MemorySystemProofs`:

- `TypeTheorem` (`TypeOK`), `TrackedTheorem` (`AllLinesTracked`) and
  `InclusionTheorem` (`Inclusion`, which is about the time before the flush).
- `NewestTheorem` (`NewestKept`), `LoadTheorem` (`LoadsReturnLatest`),
  `AgreementTheorem` (`CleanCopiesAgree`) and `FetchTheorem` (`FetchesProgram`).
  These four assume `MemoryLatency # 0`, and the first needs it: with 0 an active
  write never counts down (`memory_controller.py:11-19`), and the next one replaces
  it before it is in memory.

There are three inductive invariants. `GoodUntilFlush` is inclusion and
well-formed sets together, since each operation finds the right line only in a
well-formed set, and the flush ends inclusion by emptying L2 only. `TypeInv`
therefore does without inclusion: it has the well-formed sets and the types, and
that only blocks of data are dirty, from which follows that only they are written
back; it goes on after the flush because what `flush_all` keeps of a recency list
is in its old order (`OnlyFacts`, `InvalidateAllFacts`, `CleanedFacts`).

The third follows the data, one block at a time. `Sound(k, y, x, v)` says
of block `x`, with version `y` in memory, that `v` is the one to go on with:
every waiting write of `x` carries `v`, and then no cache has the block; a clean
copy in L2 is `y`; L1D's copy is `v`, and so is L2's if L1D's is not newer, and
so is `y` if the block is nowhere else. It is kept because L1D's dirty victim
finds its block in L2 (inclusion), because what L2 evicts leaves L1D at the same
moment with its newer data (`GoneFor`), and because a miss reads memory only when
nothing waits, unless the block is `overtaken`. `Agrees` and `CodeIs` are the
invariants of the other two theorems; the flush takes dirty lines only, so it
leaves `CodeIs` alone (`FlushKeepsCode`). The lemmas go bottom up:

- `CacheProofs`: sets of lines stay well-formed, which blocks a cache holds after
  each operation (`HeldAfterInsert`), what each does to the data and dirty bit of
  the blocks held, its own and all others (`Same`), and the dirty lines;
- `HierarchyProofs`: the hierarchy's operations keep `GoodHierarchy`, and each of
  them keeps `Sound`, `Agrees` and `CodeIs` for every block (`InsertL2Keeps`,
  `FillL1DKeeps`, `EnsuredL1DKeeps`, `StoredKeeps`, `TickedKeeps`);
- `MemorySystemProofs`: one lemma per action (`LoadKeepsData`, `DrainKeepsData`,
  `FetchKeepsData`, `TickKeepsData`), and the flush (`FlushIsRight`).

### Translation over the caches

`CachedPagesProofs`, for every number of pages, frames and TLB entries, every size
of the store buffer and all caches, under the modules' assumptions and
`MemoryLatency # 0`: `UndisturbedPagesTheorem` (`UndisturbedPagesReadBack`).

Until a translation has raised, the invariant `PagesInv` is `PagesOK` and
`DataOK`. `PagesOK` is about the translator only: TLB and page table agree, and
page table and allocator are inverse to each other. `DataOK` says of each frame
that is neither `recycled` nor `overtaken` that it `Finds` what its page is due:
some version is `Sound` in the hierarchy, and the stores to the frame still in the
store buffer, written over that version, give what was last stored
(`Overlaid`). A step keeps it for these reasons:

- a translation leaves the owner and the bytes of every frame it does not recycle
  (`Served`, one lemma for each way through `translate`); a frame never handed
  out is zeros, which is what a page never touched is to read (`Due`);
- a store adds to the end of the buffer, where it is the newest of its word
  (`OverlaidAppended`), and the buffer's drain moves its oldest store into the
  version (`OverlaidDrained`, `DrainKeeps`);
- everything the caches and the controller do keeps `Sound` (`HierarchyProofs`).

### Pipeline

`PipelineProofs`, for all programs, data memories, latencies, access times and
sizes of the store buffer that satisfy the assumptions of `Pipeline`:

- `PipelineTypes` (`TypeOK`), `StoreBufferTheorem` (`StoreBufferBounded`),
  `KeptBackTheorem` (`ResultKeptBack`).
- `ForwardingTheorem` (`Sequential`): the pipeline implements `ISA`, with or without
  forwarding, with any latency of `add` and `mul` and any store buffer, in every run
  with `[](LoadsWords /\ ~LosesOperand)`.
- `StallingTheorem` (`Sequential`): without forwarding no operand can be lost, and
  `[]LoadsWords` is enough.
- `FinalStateTheorem` (`Sequential` and `FinalState`): if moreover every program
  `Settles`, the loop ends when the machine does, and the registers and the memory it
  leaves are the machine's.

The hypotheses are about the run, and the code needs them.
`LoadsWords`: a load that the store buffer answers gets the Python integer that
was stored, not the 32-bit word memory would return (`mem.py:55-57`), so beyond
32 bits the result depends on whether the store has drained.
`~LosesOperand`: while an instruction waits in EX, what it was to be forwarded moves
on, whether it waits for its own counter (`simulator.py:153`) or for the store buffer
(`simulator.py:104`); `pipe_lost_operand` is what happens with the shipped
latencies. The hypothesis is only about the last cycle in which the operand can be
had: an instruction may wait as long as the result is in EX/MEM, or if it depends
on nothing (`OperandStays`).

`Settles` is needed because the loop's end does not look at what is kept back
(`simulator.py:70-80`): `pipe_last_load` is a last load lost, and a branch to the
end that is taken right behind a load leaves nothing in the latches either. Two
branches are the most that can follow a load before it is released. The
invariant `LoadsFollowed` is that behind every load, in EX, in MEM or kept back,
there is another instruction in a latch or still to be fetched; a taken branch
may remove it, but goes to another one (`FrontGoesOn`), two branches away at most
(`Past1`, `Past2`). So at the end nothing is kept back (`NothingLeft`), and what is
in the store buffer is written by the flush (`AlwaysFlushed`).

The refinement's program counter is that of the oldest instruction that has not
left MEM, its registers those of the register file with the results of MEM/WB
and of the kept-back buffer on top (at most one of the two is there: `KeptBack`),
its memory what the store buffer will leave. The invariant `InOrder` says that
each latch is right with respect to that machine: what is in EX/MEM was computed
from its state (`ExecutedRight`), the operands in ID/EX are those of the state
after EX/MEM, unless they are going to be forwarded (`DecodedRight`), and IF/ID
is what the machine runs after these two (`FetchedRight`). It does not hold
without `Typed`, which includes that the next fetch is inside the program.
A cycle that freezes EX/MEM commits nothing and must leave the machine's state as
it is (`FrozenCommits`, `FrozenStep`); one that moves it commits one instruction
(`MovingCommits`, `MovingStepHeld`) or, if it was empty, none (`MovingStepEmpty`).
In either case the taken branches that decode has already dropped are part of the
step, which is why `ISA` lets up to two follow an instruction. What decode reads
is right because no hazard means no writer on the way (`NoHazard`) or one whose
value is forwarded now or later (`ForwardedLater`), and a value in the store
buffer is what memory will hold (`OverlaidFacts`, `AfterMemReads`).

### Parser

`ParserProofs`, for every set of sources, base address and memory size, under the
assumptions of `Parser`: `AssembledTheorem` (`AllAssembled`), `JumpsTheorem`
(`JumpsLand`), `LabelsTheorem` (`LabelsNameData`) and `DataTheorem` (`DataApart`).

The invariant `PInv` relates what has been read to the lines read so far. After
`n` lines `clean_lines` lists the lines with code in their order (`Lists`), a label
is four times the number of those above the last line that has it (`TextRead`), the
values of the data are aligned and apart (`ValuesApart`) and each data label is
near the first value of its line (`LabelsRight`). In the second pass the
instructions emitted are the recognised ones among the first clean lines, and each
one's index is the number of recognised lines above it (`Emitted`); that is why an
unrecognised line above a label moves the jump, and the theorem says by how much.
The section a line is in is what the last marker says (`ModeNext`), which needs
that a non-empty set of lines has a greatest element (`MaxIsGreatest`, from the
well-foundedness of the naturals). `TextNext`, `TextLabel`, `DirectiveNext`,
`DataLabelNext` and `EmittedNext` say what one line adds.

### Only model-checked

Liveness, which is out of the prover's reach: `Termination` and `WriteBacksLand`.
The properties of the six runs that end in a violation are false.

## 6. Not modelled

- `main.py`, statistics, printing, file reading: no state the rest depends on.
- Splitting a source's text into words and numbers, and the trace format.
- Byte accesses and accesses that cross a block: no instruction makes them.
- Unaligned addresses, which raise, and addresses beyond memory.
- Caches with different block sizes at the two levels; the shipped ones are equal.
- Bytes within a word, and the page offset beyond the words of a block.
- Blocks that are used both as data and as instructions have no property: the
  code keeps one unified L2 and promises nothing for them. `MemorySystem` has
  them when `Program` and `DataBlocks` overlap.
- The pipeline with the caches and the translator in one module: `Pipeline` has
  their access times, `CachedPages` their data.
