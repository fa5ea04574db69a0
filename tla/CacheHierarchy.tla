--------------------------- MODULE CacheHierarchy ---------------------------
(***************************************************************************)
(* The two-level hierarchy and the memory controller behind it             *)
(* (cache_hierarchy.py, memory_controller.py) as operators on the value    *)
(*                                                                         *)
(*   [l1i, l1d, l2   the three caches (Cache.tla)                          *)
(*    wb             MemoryController.wb_buffer, a sequence of writes      *)
(*    active, busy   its active_write, a sequence of one or none, and      *)
(*                   memory_busy_cycles                                    *)
(*    cost]          the latency of the last access                        *)
(*                                                                         *)
(* One access makes many of these updates in a row, so they are functions  *)
(* of the value; MemorySystem has the steps.  A block's data gives each of *)
(* Cells (its words) a data value or, in a block fetched as instructions,  *)
(* an instruction.  Every access is to an aligned word: no instruction     *)
(* accesses bytes, and with blocks of whole words an aligned word never    *)
(* crosses a block, so _handle_unaligned_access is never entered.          *)
(***************************************************************************)
EXTENDS Cache, SequencesExt

CONSTANTS
  L1I, L1D, L2,   \* config: [sets, ways, policy, latency] of each cache
  MemoryLatency,  \* config: MEMORY_LATENCY
  MaxWB,          \* MemoryController.MAX_WB_SIZE
  Cells,          \* words of a block
  Values,         \* what a data word can hold
  Zero            \* a word of zeros

Config ==
  [sets : Nat \ {0}, ways : Nat \ {0}, policy : {"LRU", "LFU"}, latency : Nat]

ASSUME ConfigAssumption ==
  /\ L1I \in Config /\ L1D \in Config /\ L2 \in Config
  /\ MemoryLatency \in Nat /\ MaxWB \in Nat
ASSUME ValuesAssumption == Zero \in Values

(* A block of data words. *)
Block == [Cells -> Values]

EmptyHierarchy ==
  [l1i |-> EmptyCache(L1I), l1d |-> EmptyCache(L1D), l2 |-> EmptyCache(L2),
   wb |-> << >>, active |-> << >>, busy |-> 0, cost |-> 0]

-----------------------------------------------------------------------------
(* The memory controller. *)

(* enqueue_write: beyond MAX_WB_SIZE it costs cycles but goes in anyway. *)
Penalty(h) ==
  IF Len(h.wb) < MaxWB THEN 0
  ELSE IF h.busy > 0 THEN h.busy ELSE MemoryLatency
Enqueued(h, b, data) ==
  [h EXCEPT !.wb = Append(@, [block |-> b, data |-> data]),
            !.cost = @ + Penalty(h)]

(* _actual_write_back, of each of a sequence of writes in turn: a word     *)
(* ends up as the last of them that has a data word for it left it.        *)
WrittenAll(mem, writes) ==
  [b \in DOMAIN mem |->
     [c \in Cells |->
        LET to == {k \in DOMAIN writes :
                     writes[k].block = b /\ writes[k].data[c] \in Values}
        IN IF to = {} THEN mem[b][c] ELSE writes[Max(to)].data[c]]]

(* tick counts down, and on reaching zero writes the active block to       *)
(* memory; an idle controller then takes the oldest waiting one.           *)
Completes(h) == h.busy = 1 /\ h.active # << >>
MemoryAfterTick(h, mem) ==
  IF Completes(h) THEN WrittenAll(mem, h.active) ELSE mem

RestedTooEarly(h) ==  \* faulty variant
  [h EXCEPT !.busy = IF @ > 1 THEN @ - 1 ELSE @,
            !.active = IF Completes(h) THEN << >> ELSE @]
Rested(h) ==
  [h EXCEPT !.busy = IF @ > 0 THEN @ - 1 ELSE 0,
            !.active = IF Completes(h) THEN << >> ELSE @]
Started(h) ==
  IF h.busy = 0 /\ h.wb # << >>
    THEN [h EXCEPT !.active = <<Head(h.wb)>>, !.wb = Tail(@),
                   !.busy = MemoryLatency]
    ELSE h
Ticked(h) == Started(Rested(h))

-----------------------------------------------------------------------------
(* _insert_l2.  The block L2 evicts leaves both L1 caches, and is written  *)
(* back, with L1D's data if that is newer.                                 *)
InsertL2KeepsL1I(h, b, data, dirty) ==  \* faulty variant
  LET h1 == [h EXCEPT !.l2 = Insert(L2, @, b, data, dirty)]
      out == Evicted(L2, h.l2, b)
      newer == HoldsDirty(L1D, h.l1d, out.block)
      h2 == [h1 EXCEPT !.l1d = Invalidate(L1D, @, out.block)]
  IN IF ~MustEvict(L2, h.l2, b) THEN h1
     ELSE IF newer
       THEN Enqueued(h2, out.block, LineOf(L1D, h.l1d, out.block).data)
     ELSE IF out.dirty THEN Enqueued(h2, out.block, out.data)
     ELSE h2
InsertL2(h, b, data, dirty) ==
  LET h1 == [h EXCEPT !.l2 = Insert(L2, @, b, data, dirty)]
      out == Evicted(L2, h.l2, b)
      newer == HoldsDirty(L1D, h.l1d, out.block)
      h2 == [h1 EXCEPT !.l1d = Invalidate(L1D, @, out.block),
                       !.l1i = Invalidate(L1I, @, out.block)]
  IN IF ~MustEvict(L2, h.l2, b) THEN h1
     ELSE IF newer
       THEN Enqueued(h2, out.block, LineOf(L1D, h.l1d, out.block).data)
     ELSE IF out.dirty THEN Enqueued(h2, out.block, out.data)
     ELSE h2

(* L1.insert of a clean copy; a dirty victim goes to L2. *)
L1(l) == IF l = "l1i" THEN L1I ELSE L1D
FillL1(h, l, b, data) ==
  LET h1 == [h EXCEPT ![l] = Insert(L1(l), @, b, data, FALSE)]
      out == Evicted(L1(l), h[l], b)
  IN IF MustEvict(L1(l), h[l], b) /\ out.dirty
       THEN InsertL2(h1, out.block, out.data, TRUE)
       ELSE h1

(* fetch (l is l1i) and _ensure_data_block (l is l1d), which differ in     *)
(* where a block that misses both levels comes from: behind.               *)
Ensured(h, l, b, behind) ==
  LET atL1 == [h EXCEPT !.cost = L1(l).latency]
      atL2 == [h EXCEPT !.cost = L1(l).latency + L2.latency]
      atMem == [h EXCEPT !.cost = L1(l).latency + L2.latency + MemoryLatency]
  IN IF Holds(L1(l), h[l], b)
       THEN [atL1 EXCEPT ![l] = Accessed(L1(l), @, b)]
     ELSE IF Holds(L2, h.l2, b)
       THEN FillL1([atL2 EXCEPT !.l2 = Accessed(L2, @, b)], l, b,
                   LineOf(L2, h.l2, b).data)
     ELSE FillL1(InsertL2(atMem, b, behind, FALSE), l, b, behind)

(* The block both return. *)
FoundL2First(h, l, b, behind) ==  \* faulty variant
  IF Holds(L2, h.l2, b) THEN LineOf(L2, h.l2, b).data ELSE behind
Found(h, l, b, behind) ==
  IF Holds(L1(l), h[l], b) THEN LineOf(L1(l), h[l], b).data
  ELSE IF Holds(L2, h.l2, b) THEN LineOf(L2, h.l2, b).data
  ELSE behind
Misses(h, l, b) == ~Holds(L1(l), h[l], b) /\ ~Holds(L2, h.l2, b)

(* load_word reads what is not a data word as zeros (_data_byte). *)
AsData(x) == IF x \in Values THEN x ELSE Zero

(* store_word. *)
Stored(h, b, behind, cell, value) ==
  [Ensured(h, "l1d", b, behind) EXCEPT !.l1d = Write(L1D, @, b, cell, value)]

(* flush_all: L1D's dirty blocks, which leave L2, then the ones still      *)
(* dirty in L2, join the queue (in some order: they are different blocks), *)
(* which is written to memory, and after it the active write.              *)
L2LinesLeftAll(h) == DirtyLines(L2, h.l2)  \* faulty variant
L2LinesLeft(h) ==
  {d \in DirtyLines(L2, h.l2) : ~HoldsDirty(L1D, h.l1d, d.block)}
FlushWrites(h) ==
  h.wb \o SetToSeq(DirtyLines(L1D, h.l1d)) \o SetToSeq(L2LinesLeft(h)) \o h.active
Flushed(h) ==
  LET written == {d.block : d \in DirtyLines(L1D, h.l1d)}
  IN [h EXCEPT !.l1d = Cleaned(L1D, @),
               !.l2 = Cleaned(L2, InvalidateAll(L2, @, written)),
               !.wb = << >>, !.active = << >>, !.busy = 0]
=============================================================================
