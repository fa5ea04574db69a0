---------------------------- MODULE CachedPages ----------------------------
(***************************************************************************)
(* Translated loads and stores as the MEM stage makes them (stages/mem.py):*)
(* AddressTranslator gives each its physical address, and the access then  *)
(* goes through the store buffer and the cache hierarchy, while evictions  *)
(* of pages copy bytes between data memory and the swap store directly.    *)
(*                                                                         *)
(* A page is one block, so a frame's number is its block's number.  In a   *)
(* cycle the MEM stage makes at most one access, then the hardware ticks:  *)
(* the store buffer first, the memory controller after it                  *)
(* (simulator.py:187-190).  Fetches, which MemorySystem has, hit L1I       *)
(* throughout and are left out.                                            *)
(***************************************************************************)
EXTENDS CacheHierarchy

CONSTANTS
  VPNs, NumFrames, NumEntries,             \* as in AddressTranslator
  TLBLatency, WalkLatency, FaultLatency,   \* config: cycles
  MaxSB                                    \* MemStage.MAX_SB_SIZE

ASSUME SizesAssumption == NumFrames \in Nat \ {0} /\ NumEntries \in Nat \ {0}
ASSUME TimesAssumption ==
  /\ TLBLatency \in Nat /\ WalkLatency \in Nat /\ FaultLatency \in Nat
  /\ MaxSB \in Nat \ {0}

VARIABLES
  tlb, table, owner, freeList, frameOrder, disk, crashed, \* AddressTranslator
  mem,         \* data memory, a block for each frame
  translated,  \* the translator's last access
  h,           \* CacheHierarchy
  sb,          \* MemStage.store_buffer, of stores to physical addresses
  sbWait,      \* sb_latency_remaining
  memWait,     \* cycles until the MEM stage is done with its last access
  loaded,      \* what the last step loaded, if it was a load
  latest,      \* history: what was last stored in each word of a page
  recycled,    \* history: frames that an eviction has given to another page
  overtaken    \* history: blocks a miss read past a waiting write-back

vars == <<tlb, table, owner, freeList, frameOrder, disk, crashed, mem,
          translated, h, sb, sbWait, memWait, loaded, latest, recycled,
          overtaken>>

Zeros == [c \in Cells |-> Zero]

Translator ==
  INSTANCE AddressTranslator
    WITH Contents <- Block, Zero <- Zeros, Stores <- BOOLEAN,
         ByteLevel <- TRUE, access <- translated

Nothing == [k \in {} |-> k]

Init ==
  /\ Translator!Init
  /\ h = EmptyHierarchy
  /\ sb = << >>
  /\ sbWait = 0
  /\ memWait = 0
  /\ loaded = Nothing
  /\ latest = [v \in VPNs |-> Zeros]
  /\ recycled = {}
  /\ overtaken = {}

-----------------------------------------------------------------------------
(* translate alone: the step AddressTranslator makes, with an access that  *)
(* leaves in memory what is there.                                         *)
Translates(v, write) ==
  /\ Translator!Translate(v, write, Translator!PageOf(v))
  /\ recycled' = recycled \cup {f \in DOMAIN owner : owner'[f] # owner[f]}
FrameOf(v) == table'[v].pfn

(* Accesses through the caches. *)
Writes == h.wb \o h.active
Overtakes(f) ==
  overtaken' = IF Misses(h, "l1d", f) /\ \E k \in DOMAIN Writes : Writes[k].block = f
                 THEN overtaken \cup {f} ELSE overtaken

(* The penalty it returns, vm_latency. *)
VMLatency(v) ==
  TLBLatency
    + (IF Translator!Matches(tlb, v) # {} THEN 0
       ELSE WalkLatency + (IF v \in DOMAIN table THEN 0 ELSE FaultLatency))

(* Stores to the word still in the store buffer.  The variant looks at the *)
(* offset only.                                                            *)
StoresToAnyFrame(f, c) == {k \in DOMAIN sb : sb[k].cell = c}
StoresTo(f, c) == {k \in DOMAIN sb : sb[k].block = f /\ sb[k].cell = c}

(* MemStage._handle_load, of a word whose store is in the buffer. *)
LoadForwarded(v, c) ==
  /\ memWait = 0 /\ ~crashed
  /\ Translates(v, FALSE) /\ ~crashed'
  /\ LET stores == StoresTo(FrameOf(v), c)
     IN /\ stores # {}
        /\ loaded' = [page |-> v, cell |-> c, value |-> sb[Max(stores)].value]
  /\ memWait' = VMLatency(v) + 1
  /\ UNCHANGED <<h, sb, sbWait, latest, overtaken>>

(* The same through the caches, which read the memory translate left. *)
LoadCached(v, c) ==
  /\ memWait = 0 /\ ~crashed
  /\ Translates(v, FALSE) /\ ~crashed'
  /\ LET f == FrameOf(v)
         after == Ensured(h, "l1d", f, mem'[f])
     IN /\ StoresTo(f, c) = {}
        /\ h' = [after EXCEPT !.cost = 0]
        /\ Overtakes(f)
        /\ loaded' = [page |-> v, cell |-> c,
                      value |-> AsData(Found(h, "l1d", f, mem'[f])[c])]
        /\ memWait' = VMLatency(v) + after.cost
  /\ UNCHANGED <<sb, sbWait, latest>>

(* MemStage._handle_store: the store is queued under the frame of the      *)
(* moment.  With the buffer full the pipeline stalls instead.              *)
Store(v, c, value) ==
  /\ memWait = 0 /\ ~crashed
  /\ Len(sb) < MaxSB
  /\ Translates(v, TRUE) /\ ~crashed'
  /\ sb' = Append(sb, [block |-> FrameOf(v), cell |-> c, value |-> value])
  /\ latest' = [latest EXCEPT ![v] = [@ EXCEPT ![c] = value]]
  /\ memWait' = VMLatency(v) + 1
  /\ loaded' = Nothing
  /\ UNCHANGED <<h, sbWait, overtaken>>

(* translate raises: the simulation is over. *)
Fails(v, write) ==
  /\ memWait = 0 /\ ~crashed
  /\ Translates(v, write) /\ crashed'
  /\ loaded' = Nothing
  /\ UNCHANGED <<h, sb, sbWait, memWait, latest, overtaken>>

CountedDown(n) == IF n > 0 THEN n - 1 ELSE 0

(* The end of a cycle: MemStage.tick, then the memory controller's. *)
Tick ==
  /\ ~crashed
  /\ LET drains == sbWait = 0 /\ sb # << >>
         st == Head(sb)
         after == IF drains THEN Stored(h, st.block, mem[st.block],
                                        st.cell, st.value)
                            ELSE h
     IN /\ sb' = IF drains THEN Tail(sb) ELSE sb
        /\ sbWait' = CountedDown(IF drains THEN after.cost ELSE sbWait)
        /\ h' = Ticked([after EXCEPT !.cost = 0])
        /\ mem' = MemoryAfterTick(after, mem)
        /\ IF drains THEN Overtakes(st.block) ELSE UNCHANGED overtaken
  /\ memWait' = CountedDown(memWait)
  /\ loaded' = Nothing
  /\ UNCHANGED <<tlb, table, owner, freeList, frameOrder, disk, crashed,
                 translated, latest, recycled>>

Next ==
  \/ \E v \in VPNs, c \in Cells :
       \/ LoadForwarded(v, c)
       \/ LoadCached(v, c)
       \/ \E value \in Values : Store(v, c, value)
  \/ \E v \in VPNs, write \in BOOLEAN : Fails(v, write)
  \/ Tick

Spec == Init /\ [][Next]_vars

-----------------------------------------------------------------------------
(* A load returns what the program last stored in the page, or zero in a   *)
(* new one, whatever was evicted in between: translate saves the frame of  *)
(* an evicted page, restores a page that was in swap, and "if it's brand   *)
(* new -> zero out the new frame" (address_translator.py:29-33).           *)
RightlyLoaded ==
  loaded # Nothing => loaded.value = latest[loaded.page][loaded.cell]
PagesReadBack == RightlyLoaded

(* What is left of it: a page in a frame that no eviction has touched, and *)
(* no miss has read past its waiting write-back, reads back what was last  *)
(* stored in it, from the store buffer, a cache or memory, while other     *)
(* pages are displaced, saved and restored around it (stages/mem.py:10-21, *)
(* 53-67, address_translator.py:120-168, cache_hierarchy.py:37-76).        *)
UndisturbedPagesReadBack ==
  loaded # Nothing /\ table[loaded.page].pfn \notin recycled \cup overtaken
    => RightlyLoaded
=============================================================================
