------------------------- MODULE AddressTranslator -------------------------
(***************************************************************************)
(* The virtual-memory subsystem under src/vm: AddressTranslator.translate  *)
(* with the TLB, the page walker, the flat page table, the frame allocator *)
(* and the swap store it drives, over the bytes of physical memory.        *)
(*                                                                         *)
(* A step is one call of translate followed by the access its caller makes *)
(* at the address it returned, the way vm/test_vm.py uses it: a load, or a *)
(* store that replaces the contents of the page.  (In the pipeline a store *)
(* reaches memory later, through the store buffer and the caches.)         *)
(* The offset within a page is carried through unchanged and is abstracted *)
(* away: a page's bytes are one member of Contents.                        *)
(*                                                                         *)
(* The four actions are the four ways through translate: a TLB hit, a page *)
(* found by the walk, a fault served by a free frame, and a fault that     *)
(* evicts a page.                                                          *)
(***************************************************************************)
EXTENDS TLB

CONSTANTS
  VPNs,        \* virtual pages the program touches
  NumFrames,   \* FrameAllocator.num_frames
  Contents,    \* what a page can hold
  Zero,        \* the contents of a zero-filled page
  Stores,      \* which values is_write takes, a subset of BOOLEAN
  ByteLevel    \* FALSE: translator built with data_mem = None (statistics)

ASSUME NumFramesAssumption == NumFrames \in Nat \ {0}
ASSUME ZeroAssumption == Zero \in Contents
ASSUME ModeAssumption == Stores \subseteq BOOLEAN /\ ByteLevel \in BOOLEAN

(* Frame 0 is kept out of the pool whenever there is another one. *)
Frames == 0..(NumFrames - 1)
StartFrame == IF NumFrames > 1 THEN 1 ELSE 0

(* The free list a new allocator has: the frames it may hand out. *)
AllFree == [i \in 1..(NumFrames - StartFrame) |-> StartFrame + i - 1]

VARIABLES
  tlb,         \* TLB: entries and recency order
  table,       \* PageTable.table: resident page -> [pfn, dirty]
  owner,       \* FrameAllocator.frames: occupied frame -> its page
  freeList,    \* FrameAllocator.free_list
  frameOrder,  \* FrameAllocator._lru_order
  mem,         \* Memory.mem, per frame
  disk,        \* SecondaryMemory._store: swapped-out page -> contents
  crashed,     \* translate raised; the simulation is over
  access       \* what the program saw of its last completed access

vars ==
  <<tlb, table, owner, freeList, frameOrder, mem, disk, crashed, access>>

(* A dictionary with no key. *)
NoKeys == [k \in {} |-> k]

(* Before the first access. *)
NoAccess == NoKeys

Init ==
  /\ tlb = EmptyTLB
  /\ table = NoKeys
  /\ owner = NoKeys
  /\ freeList = AllFree
  /\ frameOrder = << >>
  /\ mem = [f \in Frames |-> Zero]
  /\ disk = NoKeys
  /\ crashed = FALSE
  /\ access = NoAccess

-----------------------------------------------------------------------------
Resident == DOMAIN table
Swapped == DOMAIN disk

(* A dictionary with one key set, and with one key removed. *)
With(d, k, x) == [j \in DOMAIN d \cup {k} |-> IF j = k THEN x ELSE d[j]]
Minus(d, k) == [j \in DOMAIN d \ {k} |-> d[j]]

WriteBackLost(pt, pages) == pt  \* faulty variant

(* PageTable.set_dirty for the page whose dirty entry the TLB displaced. *)
WriteBack(pt, pages) ==
  [v \in DOMAIN pt |-> IF v \in pages THEN [pt[v] EXCEPT !.dirty = TRUE]
                                      ELSE pt[v]]

(* Steps 4 and 5 of translate: cache the translation, mark it dirty. *)
Cached(t, v, f, write) ==
  IF write THEN SetDirty(Insert(t, v, f), v) ELSE Insert(t, v, f)

(* The caller's access to the frame it was given. *)
Accessed(m, f, write, c) == IF write THEN [m EXCEPT ![f] = c] ELSE m

(* What the program sees of it: the contents it stored or loaded. *)
Access(v, write, contents) ==
  [page |-> v, store |-> write, contents |-> contents]

-----------------------------------------------------------------------------
(* FrameAllocator.mark_accessed. *)
MarkAccessed(f) == MoveToBack(frameOrder, f)

(* The TLB knows the page.  The allocator's recency list is refreshed.     *)
TLBHit(v, write, c) ==
  /\ ~crashed
  /\ Matches(tlb, v) # {}
  /\ LET f == HitFrame(tlb, v)
     IN /\ tlb' = IF write THEN SetDirty(Touch(tlb, v), v) ELSE Touch(tlb, v)
        /\ frameOrder' = MarkAccessed(f)
        /\ mem' = Accessed(mem, f, write, c)
        /\ access' = Access(v, write, mem'[f])
  /\ UNCHANGED <<table, owner, freeList, disk, crashed>>

(* PageWalker.walk finds the page resident.  Only the TLB's recency list   *)
(* moves; the allocator's does not.                                        *)
WalkHit(v, write, c) ==
  /\ ~crashed
  /\ Matches(tlb, v) = {}
  /\ v \in Resident
  /\ LET f == table[v].pfn
     IN /\ tlb' = Cached(tlb, v, f, write)
        /\ table' = WriteBack(table, DisplacedDirty(tlb, v))
        /\ mem' = Accessed(mem, f, write, c)
        /\ access' = Access(v, write, mem'[f])
  /\ UNCHANGED <<owner, freeList, frameOrder, disk, crashed>>

(* _prepare_frame_for_vpn: the page's saved bytes, which leave the swap    *)
(* store (see Install), or zeros.  The variant forgets the zeros.          *)
PreparedUncleared(swap, v, f) ==
  [mem EXCEPT ![f] = IF v \in DOMAIN swap THEN swap[v] ELSE @]
Prepared(swap, v, f) ==
  [mem EXCEPT ![f] = IF v \in DOMAIN swap THEN swap[v] ELSE Zero]

(* A page fault's common end, once frame f is v's, evicting left the TLB   *)
(* at t and the swap store at swap, and the victim's row is out of pt.     *)
Install(t, pt, swap, v, f, write, c) ==
  LET pt1 == With(pt, v, [pfn |-> f, dirty |-> FALSE])
      ready == IF ByteLevel THEN Prepared(swap, v, f) ELSE mem
  IN /\ owner' = With(owner, f, v)
     /\ disk' = Minus(swap, v)
     /\ IF InsertRaises(t, v)
          THEN /\ crashed' = TRUE
               /\ tlb' = t
               /\ table' = pt1
               /\ mem' = ready
               /\ UNCHANGED access
          ELSE /\ UNCHANGED crashed
               /\ tlb' = Cached(t, v, f, write)
               /\ table' = WriteBack(pt1, DisplacedDirty(t, v))
               /\ mem' = Accessed(ready, f, write, c)
               /\ access' = Access(v, write, mem'[f])

(* Faulty variant: the frame handed out stays on the free list. *)
FaultFreeShared(v, write, c) ==
  /\ ~crashed
  /\ Matches(tlb, v) = {}
  /\ v \notin Resident
  /\ freeList # << >>
  /\ frameOrder' = MoveToBack(frameOrder, Head(freeList))
  /\ Install(tlb, table, disk, v, Head(freeList), write, c)
  /\ UNCHANGED freeList

(* A fault while frames are free. *)
FaultFree(v, write, c) ==
  /\ ~crashed
  /\ Matches(tlb, v) = {}
  /\ v \notin Resident
  /\ freeList # << >>
  /\ freeList' = Tail(freeList)
  /\ frameOrder' = MoveToBack(frameOrder, Head(freeList))
  /\ Install(tlb, table, disk, v, Head(freeList), write, c)

(* A fault with memory full: the allocator's least recently used frame is  *)
(* taken, its page's bytes are saved if it is dirty in the page table or   *)
(* in the TLB, and its translation is dropped from both.                   *)
FaultEvict(v, write, c) ==
  /\ ~crashed
  /\ Matches(tlb, v) = {}
  /\ v \notin Resident
  /\ freeList = << >>
  /\ LET f == Head(frameOrder)
         victim == owner[f]
         dirty == table[victim].dirty \/ IsDirty(tlb, victim)
         swap == IF ByteLevel /\ dirty THEN With(disk, victim, mem[f])
                                       ELSE disk
     IN /\ frameOrder' = MoveToBack(Tail(frameOrder), f)
        /\ Install(Invalidate(tlb, victim), Minus(table, victim), swap,
                   v, f, write, c)
  /\ UNCHANGED freeList

Translate(v, write, c) ==
  \/ TLBHit(v, write, c)
  \/ WalkHit(v, write, c)
  \/ FaultFree(v, write, c)
  \/ FaultEvict(v, write, c)

(* Only a translator with memory behind it has bytes to store. *)
Next ==
  \E v \in VPNs, write \in Stores :
    \E c \in IF write /\ ByteLevel THEN Contents ELSE {Zero} :
      Translate(v, write, c)

Spec == Init /\ [][Next]_vars

-----------------------------------------------------------------------------
Slots == DOMAIN tlb.entries
SlotNumbers == 1..NumEntries
PTE == [pfn : Frames, dirty : BOOLEAN]
AccessRecord == [page : VPNs, store : BOOLEAN, contents : Contents]
TLBEntry == [vpn : VPNs, pfn : Frames, valid : BOOLEAN, dirty : BOOLEAN]

(* Every structure holds what its class says it holds. *)
TypeOK ==
  /\ tlb \in [entries : Seq(TLBEntry), order : Seq(SlotNumbers)]
  /\ Len(tlb.entries) <= NumEntries
  /\ table \in [Resident -> PTE] /\ Resident \subseteq VPNs
  /\ owner \in [DOMAIN owner -> VPNs] /\ DOMAIN owner \subseteq Frames
  /\ freeList \in Seq(Frames) /\ frameOrder \in Seq(Frames)
  /\ mem \in [Frames -> Contents]
  /\ disk \in [Swapped -> Contents] /\ Swapped \subseteq VPNs
  /\ crashed \in BOOLEAN
  /\ access \in AccessRecord \cup {NoAccess}

(* No stale translation: a valid TLB entry names a resident page and the   *)
(* frame the page table gives it, across evictions of the page and reuse   *)
(* of the frame (tlb.py:127-142, address_translator.py:127-129).           *)
TLBCoherent ==
  \A i \in Slots : tlb.entries[i].valid =>
    /\ tlb.entries[i].vpn \in Resident
    /\ table[tlb.entries[i].vpn].pfn = tlb.entries[i].pfn

(* The TLB's recency list holds exactly its valid slots, each once, and no *)
(* page has two slots: what _choose_victim, lookup and set_dirty rely on   *)
(* when they take the first match (tlb.py:69-74, 148-156).                 *)
SlotsTracked ==
  /\ Tracked(tlb.order) = {i \in Slots : tlb.entries[i].valid}
  /\ NoRepeats(tlb.order)
  /\ \A i, j \in Slots : tlb.entries[i].vpn = tlb.entries[j].vpn => i = j

(* No frame backs two pages or is lost: the page table and the allocator's *)
(* frames are inverse to each other, and every frame the allocator began   *)
(* with is either free or in the recency list, once, and never both        *)
(* (frame_allocator.py:75-94).                                             *)
FramesOwned ==
  /\ \A v \in Resident : /\ table[v].pfn \in DOMAIN owner
                         /\ owner[table[v].pfn] = v
  /\ \A f \in DOMAIN owner : /\ owner[f] \in Resident
                             /\ table[owner[f]].pfn = f
  /\ Tracked(frameOrder) = DOMAIN owner /\ NoRepeats(frameOrder)
  /\ Tracked(freeList) \cup DOMAIN owner = Tracked(AllFree)
  /\ Tracked(freeList) \cap DOMAIN owner = {} /\ NoRepeats(freeList)

(* The pages the TLB's slots name, valid or not. *)
Named == {tlb.entries[i].vpn : i \in Slots}

(* translate raises only when the TLB is used up by invalidations: every   *)
(* slot then names a page that was evicted and has not come back, and the  *)
(* frames of the pool back as many others.  It takes NumEntries pages more *)
(* than there are frames to hand out, each evicted while it was in the TLB *)
(* and none found in its old slot again (tlb.py:88-105, 127-142, 156).     *)
RaisesOnlyExhausted ==
  crashed => Cardinality(Named \cup Resident) = NumEntries + Len(AllFree)

(* What the test of a full memory expects: all num_frames frames are used  *)
(* before a page is evicted (vm/test_vm.py:116-121).                       *)
EvictsOnlyWhenFull ==
  [][~(Resident \subseteq Resident') => DOMAIN owner = Frames]_vars

-----------------------------------------------------------------------------
(* The contents of a virtual page, wherever they are kept. *)
PageOf(v) == IF v \in Resident THEN mem[table[v].pfn]
             ELSE IF v \in Swapped THEN disk[v] ELSE Zero

Lossless == INSTANCE PagedMemory
              WITH Pages <- VPNs, MayLose <- FALSE,
                   page <- [v \in VPNs |-> PageOf(v)]
Lossy == INSTANCE PagedMemory
           WITH Pages <- VPNs, MayLose <- TRUE,
                page <- [v \in VPNs |-> PageOf(v)]

(* Data written to a page survives its eviction and is restored when the   *)
(* page is accessed again (secondary_memory.py:5-7, vm/test_vm.py:147).    *)
KeepsEveryPage == Lossless!Spec

(* Whatever is evicted, saved, restored or zeroed, a page only ever holds  *)
(* what the program last stored in it or zeros, and a load returns just    *)
(* what its page holds: it never shows the bytes of another page or an     *)
(* older version of its own (address_translator.py:125-142, 174-201).      *)
NeverForeignBytes == Lossy!Spec

DirtyAnywhere(v) == v \in Resident /\ (table[v].dirty \/ IsDirty(tlb, v))

(* The program's last step stored to v. *)
StoredTo(v) ==
  ~crashed /\ access # NoAccess /\ access.page = v /\ access.store

(* A page that was stored to since it came into memory is known dirty      *)
(* until it leaves, and then leaves its bytes behind: the mark is never    *)
(* lost between the TLB, which alone has it after a hit, and the page      *)
(* table, to which it is written back when the TLB displaces the entry     *)
(* (address_translator.py:127-137, 154-165).                               *)
DirtyPagesSurvive ==
  [][\A v \in VPNs :
       /\ StoredTo(v)' => DirtyAnywhere(v)'
       /\ DirtyAnywhere(v) =>
            IF v \in Resident' THEN DirtyAnywhere(v)'
                               ELSE PageOf(v)' = PageOf(v)]_vars
=============================================================================
