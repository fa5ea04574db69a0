-------------------------- MODULE CachedPagesProofs --------------------------
(***************************************************************************)
(* Proof that translated loads read back what was stored, for any number   *)
(* of pages, frames and TLB entries, and any sizes, policies and latencies *)
(* of the caches.                                                          *)
(*                                                                         *)
(* Three invariants meet.  PagesOK is the translator's: its tables agree.  *)
(* Finds says of one frame that its stores in the store buffer, over the   *)
(* version the caches, the write-back queue or memory go on with, give     *)
(* what its page is due.  It holds of every frame no eviction has taken    *)
(* and no miss has read past, and is preserved because a translation       *)
(* leaves such a frame's owner and bytes alone (Served) and because the    *)
(* operations of the hierarchy keep Sound (HierarchyProofs).               *)
(***************************************************************************)
EXTENDS CachedPages, HierarchyProofs

-----------------------------------------------------------------------------
(* The translator.                                                         *)

Frames == 0..(NumFrames - 1)
TLBSlot == [vpn : VPNs, pfn : Frames, valid : BOOLEAN, dirty : BOOLEAN]
Row == [pfn : Frames, dirty : BOOLEAN]

(* Its values between two updates: a TLB, a page table. *)
IsTLB(t) == t = [entries |-> t.entries, order |-> t.order] /\ t.entries \in Seq(TLBSlot)
IsTable(pt) == pt \in [DOMAIN pt -> Row] /\ DOMAIN pt \subseteq VPNs
Agree(t, pt) ==
  \A i \in DOMAIN t.entries : t.entries[i].valid =>
    /\ t.entries[i].vpn \in DOMAIN pt
    /\ pt[t.entries[i].vpn].pfn = t.entries[i].pfn
TLBOK(t, pt) == IsTLB(t) /\ Agree(t, pt)

LEMMA SameRecency ==
  ASSUME NEW s, NEW x
  PROVE  /\ Translator!Without(s, x) = Without(s, x)
         /\ Translator!MoveToBack(s, x) = MoveToBack(s, x)
         /\ Translator!Tracked(s) = Tracked(s)
         /\ Translator!NoRepeats(s) <=> NoRepeats(s)
BY DEF Translator!Without, Without, Translator!MoveToBack, MoveToBack,
       Translator!Tracked, Tracked, Translator!NoRepeats, NoRepeats

LEMMA MinFacts ==
  ASSUME NEW S \in SUBSET Nat, S # {}
  PROVE  Translator!Min(S) \in S
<1>1. PICK x \in S : \A y \in S : x <= y
  BY FirstFacts
<1> QED BY <1>1 DEF Translator!Min

LEMMA TLBHitFacts ==
  ASSUME NEW t, NEW pt, TLBOK(t, pt), NEW v, Translator!Matches(t, v) # {}
  PROVE  /\ v \in DOMAIN pt /\ Translator!HitFrame(t, v) = pt[v].pfn
<1> DEFINE S == Translator!Matches(t, v)
<1>1. S \in SUBSET Nat /\ S # {}
  BY DEF Translator!Matches, TLBOK, IsTLB
<1>2. Translator!Min(S) \in S
  <2> HIDE DEF S
  <2> QED BY <1>1, MinFacts
<1> QED BY <1>2 DEF Translator!HitFrame, Translator!HitSlot, Translator!Matches, TLBOK, Agree

LEMMA TouchFacts ==
  ASSUME NEW t, NEW pt, TLBOK(t, pt), NEW v
  PROVE  TLBOK(Translator!Touch(t, v), pt)
<1> DEFINE order == Translator!MoveToBack(t.order, Translator!HitSlot(t, v))
           u == [t EXCEPT !.order = order]
<1>1. Translator!Touch(t, v) = u
  BY DEF Translator!Touch
<1> HIDE DEF order
<1>2. u = [entries |-> t.entries, order |-> order]
  BY DEF TLBOK, IsTLB
<1> QED BY <1>1, <1>2 DEF TLBOK, IsTLB, Agree

LEMMA SetDirtyFacts ==
  ASSUME NEW t, NEW pt, TLBOK(t, pt), NEW v
  PROVE  TLBOK(Translator!SetDirty(t, v), pt)
<1> DEFINE marked == [i \in DOMAIN t.entries |->
                        IF i \in Translator!Matches(t, v)
                          THEN [t.entries[i] EXCEPT !.dirty = TRUE] ELSE t.entries[i]]
           u == Translator!SetDirty(t, v)
<1>1. t = [entries |-> t.entries, order |-> t.order] /\ t.entries \in Seq(TLBSlot)
  BY DEF TLBOK, IsTLB
<1>2. u = [t EXCEPT !.entries = marked]
  BY DEF Translator!SetDirty
<1> HIDE DEF u
<1>3. \A i \in DOMAIN t.entries :
        /\ marked[i] \in TLBSlot /\ marked[i].vpn = t.entries[i].vpn
        /\ marked[i].pfn = t.entries[i].pfn /\ marked[i].valid = t.entries[i].valid
  <2> TAKE i \in DOMAIN t.entries
  <2>1. t.entries[i] \in TLBSlot
    BY <1>1
  <2> QED BY <2>1 DEF TLBSlot
<1>4. marked \in Seq(TLBSlot) /\ DOMAIN marked = DOMAIN t.entries
  BY <1>1, <1>3
<1> HIDE DEF marked
<1>5. u = [entries |-> marked, order |-> t.order]
  BY <1>1, <1>2
<1>6. IsTLB(u)
  BY <1>4, <1>5 DEF IsTLB
<1>7. Agree(u, pt)
  BY <1>3, <1>4, <1>5 DEF Agree, TLBOK
<1> QED BY <1>6, <1>7 DEF TLBOK, u

(* invalidate: no entry of v is valid any more. *)
LEMMA TLBInvalidateFacts ==
  ASSUME NEW t, NEW pt, TLBOK(t, pt), NEW v
  PROVE  TLBOK(Translator!Invalidate(t, v), Translator!Minus(pt, v))
<1> DEFINE left == [i \in DOMAIN t.entries |->
                      IF i \in Translator!Matches(t, v)
                        THEN [t.entries[i] EXCEPT !.valid = FALSE] ELSE t.entries[i]]
           order == IF Translator!Matches(t, v) = {} THEN t.order
                    ELSE Translator!Without(t.order, Translator!HitSlot(t, v))
           u == [entries |-> left, order |-> order]
<1>1. t.entries \in Seq(TLBSlot)
  BY DEF TLBOK, IsTLB
<1>2. Translator!Invalidate(t, v) = u
  BY DEF Translator!Invalidate
<1> HIDE DEF order
<1>3. \A i \in DOMAIN t.entries :
        /\ left[i] \in TLBSlot /\ left[i].vpn = t.entries[i].vpn
        /\ left[i].pfn = t.entries[i].pfn
        /\ left[i].valid => t.entries[i].valid /\ t.entries[i].vpn # v
  <2> TAKE i \in DOMAIN t.entries
  <2>1. t.entries[i] \in TLBSlot
    BY <1>1
  <2> QED BY <2>1 DEF TLBSlot, Translator!Matches
<1>4. left \in Seq(TLBSlot) /\ DOMAIN left = DOMAIN t.entries
  <2>1. DOMAIN left = DOMAIN t.entries /\ left = [i \in DOMAIN left |-> left[i]]
    OBVIOUS
  <2> HIDE DEF left
  <2> QED BY <1>1, <1>3, <2>1
<1> HIDE DEF left
<1>5. IsTLB(u)
  BY <1>4 DEF IsTLB
<1>6. Agree(u, Translator!Minus(pt, v))
  BY <1>3, <1>4 DEF Agree, TLBOK, Translator!Minus
<1> QED BY <1>2, <1>5, <1>6 DEF TLBOK

(* insert, wherever it puts the entry. *)
LEMMA TLBInsertFacts ==
  ASSUME NEW t, NEW pt, TLBOK(t, pt), NEW v \in VPNs, NEW f \in Frames,
         v \in DOMAIN pt, pt[v].pfn = f
  PROVE  TLBOK(Translator!Insert(t, v, f), pt)
<1> DEFINE slot == Translator!InsertSlot(t, v)
           entry == [vpn |-> v, pfn |-> f, valid |-> TRUE, dirty |-> FALSE]
           after == IF slot \in DOMAIN t.entries THEN [t.entries EXCEPT ![slot] = entry]
                                                 ELSE Append(t.entries, entry)
           order == Translator!MoveToBack(t.order, slot)
           u == [entries |-> after, order |-> order]
<1>1. t.entries \in Seq(TLBSlot)
  BY DEF TLBOK, IsTLB
<1>2. Translator!Insert(t, v, f) = u
  BY Zenon DEF Translator!Insert
<1>3. entry \in TLBSlot /\ entry.vpn = v /\ entry.pfn = f
  BY DEF TLBSlot
<1> HIDE DEF slot, order, entry
<1>4. after \in Seq(TLBSlot)
  BY <1>1, <1>3
<1>5. \A i \in DOMAIN after : after[i] = entry \/ (i \in DOMAIN t.entries /\ after[i] = t.entries[i])
  BY <1>1, <1>3
<1> HIDE DEF after
<1>6. IsTLB(u)
  BY <1>4 DEF IsTLB
<1>7. Agree(u, pt)
  BY <1>3, <1>5 DEF Agree, TLBOK
<1> QED BY <1>2, <1>6, <1>7 DEF TLBOK

LEMMA CachedFacts ==
  ASSUME NEW t, NEW pt, TLBOK(t, pt), NEW v \in VPNs, NEW f \in Frames, NEW write,
         v \in DOMAIN pt, pt[v].pfn = f
  PROVE  TLBOK(Translator!Cached(t, v, f, write), pt)
<1>1. TLBOK(Translator!Insert(t, v, f), pt)
  BY TLBInsertFacts
<1>2. TLBOK(Translator!SetDirty(Translator!Insert(t, v, f), v), pt)
  BY <1>1, SetDirtyFacts
<1> QED BY <1>1, <1>2 DEF Translator!Cached

LEMMA WriteBackFacts ==
  ASSUME NEW pt, IsTable(pt), NEW pages
  PROVE  LET qt == Translator!WriteBack(pt, pages)
         IN /\ IsTable(qt) /\ DOMAIN qt = DOMAIN pt
            /\ \A v \in DOMAIN pt : qt[v].pfn = pt[v].pfn
            /\ \A t : TLBOK(t, pt) => TLBOK(t, qt)
<1> DEFINE qt == Translator!WriteBack(pt, pages)
<1>1. /\ qt = [v \in DOMAIN pt |-> IF v \in pages THEN [pt[v] EXCEPT !.dirty = TRUE]
                                                   ELSE pt[v]]
      /\ pt \in [DOMAIN pt -> Row] /\ DOMAIN pt \subseteq VPNs
  BY DEF Translator!WriteBack, IsTable
<1> HIDE DEF qt
<1>2. ASSUME NEW v \in DOMAIN pt
      PROVE  qt[v] \in Row /\ qt[v].pfn = pt[v].pfn
  <2>1. pt[v] \in Row
    BY <1>1
  <2> QED BY <1>1, <2>1 DEF Row
<1>3. DOMAIN qt = DOMAIN pt /\ qt = [v \in DOMAIN qt |-> qt[v]]
  BY <1>1
<1>4. IsTable(qt)
  BY <1>1, <1>2, <1>3 DEF IsTable
<1>5. \A t : TLBOK(t, pt) => TLBOK(t, qt)
  BY <1>2, <1>3 DEF TLBOK, Agree
<1> QED BY <1>2, <1>3, <1>4, <1>5 DEF qt

(* The end of a fault that raises nothing. *)
Installed(t, pt, v, f, after) ==
  /\ TLBOK(t, after) /\ IsTable(after) /\ DOMAIN after = DOMAIN pt \cup {v}
  /\ after[v].pfn = f /\ \A u \in DOMAIN pt : after[u].pfn = pt[u].pfn

LEMMA InstallFacts ==
  ASSUME NEW t, NEW pt, TLBOK(t, pt), IsTable(pt), NEW v \in VPNs, v \notin DOMAIN pt,
         NEW f \in Frames, NEW write, NEW row, row = [pfn |-> f, dirty |-> FALSE],
         NEW pages
  PROVE  Installed(Translator!Cached(t, v, f, write), pt, v, f,
                   Translator!WriteBack(Translator!With(pt, v, row), pages))
<1> DEFINE pt1 == Translator!With(pt, v, row)
           t2 == Translator!Cached(t, v, f, write)
           pt2 == Translator!WriteBack(pt1, pages)
<1>1. /\ IsTable(pt1) /\ DOMAIN pt1 = DOMAIN pt \cup {v} /\ pt1[v].pfn = f
      /\ \A u \in DOMAIN pt : pt1[u] = pt[u]
  <2>1. row \in Row /\ row.pfn = f
    BY DEF Row
  <2> QED BY <2>1 DEF Translator!With, IsTable
<1> HIDE DEF pt1
<1>2. TLBOK(t, pt1)
  BY <1>1 DEF TLBOK, Agree
<1>3. TLBOK(t2, pt1)
  BY <1>1, <1>2, CachedFacts
<1>4. /\ IsTable(pt2) /\ DOMAIN pt2 = DOMAIN pt1
      /\ \A u \in DOMAIN pt1 : pt2[u].pfn = pt1[u].pfn
      /\ TLBOK(t2, pt2)
  BY <1>1, <1>3, WriteBackFacts
<1> QED BY <1>1, <1>4 DEF pt1, Installed

(* Its state between two accesses: TLB, page table and allocator agree, a  *)
(* frame that was never handed out holds zeros, and while there is one     *)
(* nothing is in swap.                                                     *)
Pool == Translator!StartFrame..(NumFrames - 1)
OwnersInverse ==
  /\ owner \in [DOMAIN owner -> VPNs] /\ DOMAIN owner \subseteq Frames
  /\ \A v \in DOMAIN table : table[v].pfn \in DOMAIN owner /\ owner[table[v].pfn] = v
  /\ \A f \in DOMAIN owner : owner[f] \in DOMAIN table /\ table[owner[f]].pfn = f
Listed ==
  /\ ListOf(Frames, frameOrder) /\ Tracked(frameOrder) = DOMAIN owner
  /\ ListOf(Frames, freeList) /\ Tracked(freeList) = Pool \ DOMAIN owner
PagesOK ==
  /\ TLBOK(tlb, table) /\ IsTable(table) /\ OwnersInverse /\ Listed
  /\ mem \in [Frames -> Block] /\ \A x \in Frames \ DOMAIN owner : mem[x] = Zeros
  /\ disk \in [DOMAIN disk -> Block] /\ (freeList # << >> => DOMAIN disk = {})

(* What a translation of v does: its page has a frame, and the frames that *)
(* no eviction has taken keep their owners and their bytes.                *)
Served(v) ==
  /\ PagesOK'
  /\ v \in DOMAIN table'
  /\ DOMAIN owner \subseteq DOMAIN owner'
  /\ recycled \subseteq recycled' /\ recycled' \subseteq recycled \cup DOMAIN owner
  /\ \A x \in DOMAIN owner : x \in recycled' \/ owner'[x] = owner[x]
  /\ \A x \in Frames : x \in recycled' \/ mem'[x] = mem[x]
  /\ \A x \in DOMAIN owner' \ DOMAIN owner :
       freeList # << >> /\ x = FrameOf(v) /\ v \notin DOMAIN table
  /\ freeList' # << >> => freeList # << >> /\ DOMAIN table \subseteq DOMAIN table'

LEMMA PageFacts ==
  ASSUME PagesOK, NEW v \in VPNs
  PROVE  /\ Translator!PageOf(v) \in Block
         /\ v \in DOMAIN table => Translator!PageOf(v) = mem[table[v].pfn] /\ table[v].pfn \in Frames
         /\ v \notin DOMAIN table =>
              Translator!PageOf(v) = IF v \in DOMAIN disk THEN disk[v] ELSE Zeros
<1>1. Zeros \in Block
  BY ValuesAssumption DEF Zeros, Block
<1>2. v \in DOMAIN table => table[v].pfn \in Frames
  BY DEF PagesOK, OwnersInverse
<1>3. /\ v \in DOMAIN table => Translator!PageOf(v) = mem[table[v].pfn]
      /\ v \notin DOMAIN table =>
           Translator!PageOf(v) = IF v \in DOMAIN disk THEN disk[v] ELSE Zeros
  BY DEF Translator!PageOf, Translator!Resident, Translator!Swapped
<1>4. mem \in [Frames -> Block] /\ disk \in [DOMAIN disk -> Block]
  BY DEF PagesOK
<1> QED BY <1>1, <1>2, <1>3, <1>4

(* A page that has a frame keeps it, and its bytes. *)
LEMMA ServedInPlace ==
  ASSUME PagesOK, NEW v \in VPNs, v \in DOMAIN table,
         TLBOK(tlb', table'), IsTable(table'), DOMAIN table' = DOMAIN table,
         \A u \in DOMAIN table : table'[u].pfn = table[u].pfn,
         NEW write \in BOOLEAN,
         mem' = Translator!Accessed(mem, table[v].pfn, write, Translator!PageOf(v)),
         ListOf(Frames, frameOrder'), Tracked(frameOrder') = DOMAIN owner,
         owner' = owner, freeList' = freeList, disk' = disk,
         recycled' = recycled \cup {f \in DOMAIN owner : owner'[f] # owner[f]}
  PROVE  Served(v)
<1>1. mem' = mem
  <2>1. /\ Translator!PageOf(v) = mem[table[v].pfn] /\ table[v].pfn \in Frames
        /\ mem \in [Frames -> Block]
    BY PageFacts DEF PagesOK
  <2> QED BY <2>1 DEF Translator!Accessed
<1>2. OwnersInverse' /\ Listed'
  BY DEF PagesOK, OwnersInverse, Listed, Pool, Translator!StartFrame
<1>3. PagesOK'
  BY <1>1, <1>2 DEF PagesOK, Block, Frames
<1>4. recycled' = recycled
  OBVIOUS
<1> QED BY <1>1, <1>3, <1>4 DEF Served

LEMMA HitServes ==
  ASSUME PagesOK, NEW v \in VPNs, NEW write \in BOOLEAN,
         Translator!TLBHit(v, write, Translator!PageOf(v)),
         recycled' = recycled \cup {f \in DOMAIN owner : owner'[f] # owner[f]}
  PROVE  Served(v)
<1>1. /\ Translator!Matches(tlb, v) # {}
      /\ tlb' = IF write THEN Translator!SetDirty(Translator!Touch(tlb, v), v)
                         ELSE Translator!Touch(tlb, v)
      /\ frameOrder' = Translator!MoveToBack(frameOrder, Translator!HitFrame(tlb, v))
      /\ mem' = Translator!Accessed(mem, Translator!HitFrame(tlb, v), write, Translator!PageOf(v))
      /\ table' = table /\ owner' = owner /\ freeList' = freeList /\ disk' = disk
  BY DEF Translator!TLBHit, Translator!MarkAccessed
<1>2. TLBOK(tlb, table) /\ IsTable(table)
  BY DEF PagesOK
<1>3. v \in DOMAIN table /\ Translator!HitFrame(tlb, v) = table[v].pfn
  BY <1>1, <1>2, TLBHitFacts
<1>4. TLBOK(tlb', table)
  BY <1>1, <1>2, TouchFacts, SetDirtyFacts
<1>5. table[v].pfn \in DOMAIN owner /\ table[v].pfn \in Frames
  BY <1>3 DEF PagesOK, OwnersInverse
<1>6. ListOf(Frames, frameOrder') /\ Tracked(frameOrder') = DOMAIN owner
  <2> DEFINE f == table[v].pfn
  <2>1. frameOrder' = MoveToBack(frameOrder, f)
    BY <1>1, <1>3, SameRecency
  <2>2. ListOf(Frames, frameOrder) /\ Tracked(frameOrder) = DOMAIN owner
    BY DEF PagesOK, Listed
  <2>3. f \in Frames /\ DOMAIN owner \cup {f} = DOMAIN owner
    BY <1>5
  <2> HIDE DEF f
  <2>4. /\ ListOf(Frames, MoveToBack(frameOrder, f))
        /\ Tracked(MoveToBack(frameOrder, f)) = Tracked(frameOrder) \cup {f}
    BY <2>2, <2>3, MoveToBackFacts
  <2> QED BY <2>1, <2>2, <2>3, <2>4
<1> QED BY <1>1, <1>2, <1>3, <1>4, <1>6, ServedInPlace

LEMMA WalkServes ==
  ASSUME PagesOK, NEW v \in VPNs, NEW write \in BOOLEAN,
         Translator!WalkHit(v, write, Translator!PageOf(v)),
         recycled' = recycled \cup {f \in DOMAIN owner : owner'[f] # owner[f]}
  PROVE  Served(v)
<1> DEFINE f == table[v].pfn
           pages == Translator!DisplacedDirty(tlb, v)
<1>1. /\ v \in DOMAIN table
      /\ tlb' = Translator!Cached(tlb, v, f, write)
      /\ table' = Translator!WriteBack(table, pages)
      /\ mem' = Translator!Accessed(mem, f, write, Translator!PageOf(v))
      /\ owner' = owner /\ freeList' = freeList /\ frameOrder' = frameOrder /\ disk' = disk
  BY DEF Translator!WalkHit, Translator!Resident
<1> HIDE DEF pages
<1>2. TLBOK(tlb, table) /\ IsTable(table) /\ f \in Frames
  BY <1>1 DEF PagesOK, OwnersInverse
<1>3. TLBOK(tlb', table)
  BY <1>1, <1>2, CachedFacts
<1>4. /\ IsTable(table') /\ DOMAIN table' = DOMAIN table
      /\ \A u \in DOMAIN table : table'[u].pfn = table[u].pfn
      /\ TLBOK(tlb', table')
  BY <1>1, <1>2, <1>3, WriteBackFacts
<1>5. ListOf(Frames, frameOrder') /\ Tracked(frameOrder') = DOMAIN owner
  BY <1>1 DEF PagesOK, Listed
<1> QED BY <1>1, <1>4, <1>5, ServedInPlace

LEMMA FreeServes ==
  ASSUME PagesOK, NEW v \in VPNs, NEW write \in BOOLEAN, ~crashed',
         Translator!FaultFree(v, write, Translator!PageOf(v)),
         recycled' = recycled \cup {f \in DOMAIN owner : owner'[f] # owner[f]}
  PROVE  Served(v)
<1> DEFINE f == Head(freeList)
           c == Translator!PageOf(v)
           row == [pfn |-> f, dirty |-> FALSE]
           pages == Translator!DisplacedDirty(tlb, v)
<1>1. /\ v \notin DOMAIN table /\ freeList # << >> /\ freeList' = Tail(freeList)
      /\ frameOrder' = MoveToBack(frameOrder, f)
      /\ owner' = Translator!With(owner, f, v) /\ disk' = Translator!Minus(disk, v)
      /\ tlb' = Translator!Cached(tlb, v, f, write)
      /\ table' = Translator!WriteBack(Translator!With(table, v, row), pages)
      /\ mem' = Translator!Accessed(Translator!Prepared(disk, v, f), f, write, c)
  BY SameRecency, Zenon DEF Translator!FaultFree, Translator!Resident, Translator!Install
<1>2. /\ TLBOK(tlb, table) /\ IsTable(table) /\ mem \in [Frames -> Block]
      /\ ListOf(Frames, freeList) /\ Tracked(freeList) = Pool \ DOMAIN owner
      /\ ListOf(Frames, frameOrder) /\ Tracked(frameOrder) = DOMAIN owner
      /\ DOMAIN disk = {}
  BY <1>1 DEF PagesOK, Listed
<1>3. /\ f \in Frames /\ f \in Pool \ DOMAIN owner
      /\ ListOf(Frames, Tail(freeList))
      /\ Tracked(Tail(freeList)) = (Pool \ DOMAIN owner) \ {f}
  BY <1>1, <1>2, PopFacts DEF ListOf
<1>4. c = Zeros /\ mem[f] = Zeros
  BY <1>1, <1>2, <1>3, PageFacts DEF PagesOK
<1> HIDE DEF f, c, pages, row
<1>5. /\ TLBOK(tlb', table') /\ IsTable(table') /\ DOMAIN table' = DOMAIN table \cup {v}
      /\ table'[v].pfn = f /\ \A u \in DOMAIN table : table'[u].pfn = table[u].pfn
  <2> DEFINE t2 == Translator!Cached(tlb, v, f, write)
             pt2 == Translator!WriteBack(Translator!With(table, v, row), pages)
  <2>1. row = [pfn |-> f, dirty |-> FALSE]
    BY DEF row
  <2>2. TLBOK(tlb, table) /\ IsTable(table) /\ v \notin DOMAIN table /\ f \in Frames
    BY <1>1, <1>2, <1>3
  <2>3. Installed(t2, table, v, f, pt2)
    BY <2>1, <2>2, InstallFacts
  <2>4. tlb' = t2 /\ table' = pt2
    BY <1>1
  <2> QED BY <2>3, <2>4 DEF Installed
<1>6. mem' = mem
  BY <1>1, <1>2, <1>3, <1>4 DEF Translator!Prepared, Translator!Accessed
<1>7. /\ DOMAIN owner' = DOMAIN owner \cup {f} /\ owner'[f] = v
      /\ \A x \in DOMAIN owner : owner'[x] = owner[x]
      /\ owner' = [x \in DOMAIN owner' |-> owner'[x]]
      /\ DOMAIN disk' = {} /\ disk' = [u \in DOMAIN disk' |-> disk'[u]]
  BY <1>1, <1>2, <1>3 DEF Translator!With, Translator!Minus
<1>8. recycled' = recycled
  BY <1>7
<1>9. OwnersInverse'
  <2>1. OwnersInverse
    BY DEF PagesOK
  <2>2. owner' \in [DOMAIN owner' -> VPNs] /\ DOMAIN owner' \subseteq Frames
    BY <1>3, <1>7, <2>1 DEF OwnersInverse
  <2>3. \A u \in DOMAIN table' : table'[u].pfn \in DOMAIN owner' /\ owner'[table'[u].pfn] = u
    BY <1>3, <1>5, <1>7, <2>1 DEF OwnersInverse
  <2>4. \A x \in DOMAIN owner' : owner'[x] \in DOMAIN table' /\ table'[owner'[x]].pfn = x
    BY <1>1, <1>3, <1>5, <1>7, <2>1 DEF OwnersInverse
  <2> QED BY <2>2, <2>3, <2>4 DEF OwnersInverse, Frames
<1>10. Listed'
  <2>1. ListOf(Frames, frameOrder') /\ Tracked(frameOrder') = DOMAIN owner \cup {f}
    BY <1>1, <1>2, <1>3, MoveToBackFacts
  <2>2. ListOf(Frames, freeList') /\ Tracked(freeList') = Pool \ DOMAIN owner'
    BY <1>1, <1>3, <1>7
  <2> QED BY <1>7, <2>1, <2>2 DEF Listed, Pool, Translator!StartFrame, Frames
<1>11. PagesOK'
  BY <1>2, <1>5, <1>6, <1>7, <1>9, <1>10 DEF PagesOK, Frames, Block
<1> QED BY <1>1, <1>5, <1>6, <1>7, <1>8, <1>11 DEF Served, FrameOf

LEMMA EvictServes ==
  ASSUME PagesOK, NEW v \in VPNs, NEW write \in BOOLEAN, ~crashed',
         Translator!FaultEvict(v, write, Translator!PageOf(v)),
         recycled' = recycled \cup {f \in DOMAIN owner : owner'[f] # owner[f]}
  PROVE  Served(v)
<1> DEFINE f == Head(frameOrder)
           victim == owner[f]
           dirty == table[victim].dirty \/ Translator!IsDirty(tlb, victim)
           swap == IF dirty THEN Translator!With(disk, victim, mem[f]) ELSE disk
           t == Translator!Invalidate(tlb, victim)
           pt == Translator!Minus(table, victim)
           c == Translator!PageOf(v)
           row == [pfn |-> f, dirty |-> FALSE]
           pages == Translator!DisplacedDirty(t, v)
<1>1. /\ v \notin DOMAIN table /\ freeList = << >> /\ freeList' = freeList
      /\ frameOrder' = MoveToBack(Tail(frameOrder), f)
      /\ owner' = Translator!With(owner, f, v) /\ disk' = Translator!Minus(swap, v)
      /\ tlb' = Translator!Cached(t, v, f, write)
      /\ table' = Translator!WriteBack(Translator!With(pt, v, row), pages)
      /\ mem' = Translator!Accessed(Translator!Prepared(swap, v, f), f, write, c)
  BY SameRecency, Zenon DEF Translator!FaultEvict, Translator!Resident, Translator!Install
<1>2. /\ TLBOK(tlb, table) /\ IsTable(table) /\ mem \in [Frames -> Block] /\ OwnersInverse
      /\ ListOf(Frames, freeList) /\ Tracked(freeList) = Pool \ DOMAIN owner
      /\ ListOf(Frames, frameOrder) /\ Tracked(frameOrder) = DOMAIN owner
      /\ disk \in [DOMAIN disk -> Block]
  BY DEF PagesOK, Listed
<1>3. /\ f \in DOMAIN owner /\ f \in Frames
      /\ ListOf(Frames, MoveToBack(Tail(frameOrder), f))
      /\ Tracked(MoveToBack(Tail(frameOrder), f)) = DOMAIN owner
  <2>1. NumFrames - 1 \in Pool
    BY SizesAssumption DEF Pool, Translator!StartFrame
  <2>2. frameOrder # << >>
    BY <1>1, <1>2, <2>1 DEF Tracked
  <2>3. /\ f \in Frames /\ f \in Tracked(frameOrder)
        /\ ListOf(Frames, Tail(frameOrder))
        /\ Tracked(Tail(frameOrder)) = Tracked(frameOrder) \ {f}
    BY <1>2, <2>2, PopFacts DEF ListOf
  <2> HIDE DEF f
  <2>4. /\ ListOf(Frames, MoveToBack(Tail(frameOrder), f))
        /\ Tracked(MoveToBack(Tail(frameOrder), f)) = Tracked(Tail(frameOrder)) \cup {f}
    BY <2>3, MoveToBackFacts
  <2>5. Tracked(Tail(frameOrder)) \cup {f} = DOMAIN owner
    BY <1>2, <2>3
  <2> QED BY <1>2, <2>3, <2>4, <2>5
<1>4. victim \in DOMAIN table /\ table[victim].pfn = f /\ victim # v
  BY <1>1, <1>2, <1>3 DEF OwnersInverse
<1>5. c \in Block /\ swap \in [DOMAIN swap -> Block]
  <2>1. Translator!With(disk, victim, mem[f]) \in [DOMAIN disk \cup {victim} -> Block]
    BY <1>2, <1>3 DEF Translator!With
  <2> HIDE DEF dirty
  <2> QED BY <1>2, <2>1, PageFacts
<1> HIDE DEF f, victim, swap, c
<1>6. TLBOK(t, pt)
  BY <1>2, TLBInvalidateFacts
<1>7. IsTable(pt) /\ DOMAIN pt = DOMAIN table \ {victim} /\ \A u \in DOMAIN pt : pt[u] = table[u]
  BY <1>2 DEF IsTable, Translator!Minus
<1> HIDE DEF t, pt, pages, row
<1>8. /\ TLBOK(tlb', table') /\ IsTable(table') /\ DOMAIN table' = DOMAIN pt \cup {v}
      /\ table'[v].pfn = f /\ \A u \in DOMAIN pt : table'[u].pfn = pt[u].pfn
  <2> DEFINE t2 == Translator!Cached(t, v, f, write)
             pt2 == Translator!WriteBack(Translator!With(pt, v, row), pages)
  <2>1. row = [pfn |-> f, dirty |-> FALSE]
    BY DEF row
  <2>2. TLBOK(t, pt) /\ IsTable(pt) /\ v \notin DOMAIN pt /\ f \in Frames
    BY <1>1, <1>3, <1>6, <1>7
  <2>3. Installed(t2, pt, v, f, pt2)
    BY <2>1, <2>2, InstallFacts
  <2>4. tlb' = t2 /\ table' = pt2
    BY <1>1
  <2> QED BY <2>3, <2>4 DEF Installed
<1>9. mem' \in [Frames -> Block] /\ \A x \in Frames \ {f} : mem'[x] = mem[x]
  <2>1. Zeros \in Block /\ (v \in DOMAIN swap => swap[v] \in Block)
    BY <1>5, ValuesAssumption DEF Zeros, Block
  <2>2. mem' = [mem EXCEPT ![f] = IF write THEN c
                                  ELSE IF v \in DOMAIN swap THEN swap[v] ELSE Zeros]
    BY <1>1, <1>2, <1>3 DEF Translator!Prepared, Translator!Accessed
  <2> QED BY <1>2, <1>3, <1>5, <2>1, <2>2
<1>10. /\ DOMAIN owner' = DOMAIN owner /\ owner'[f] = v
       /\ \A x \in DOMAIN owner \ {f} : owner'[x] = owner[x]
       /\ owner' = [x \in DOMAIN owner' |-> owner'[x]]
       /\ disk' \in [DOMAIN disk' -> Block]
  BY <1>1, <1>3, <1>5 DEF Translator!With, Translator!Minus
<1>11. f \in recycled' /\ recycled \subseteq recycled' /\ recycled' \subseteq recycled \cup DOMAIN owner
  BY <1>3, <1>4, <1>10 DEF victim
<1>12. OwnersInverse'
  <2>1. owner' \in [DOMAIN owner' -> VPNs] /\ DOMAIN owner' \subseteq Frames
    BY <1>2, <1>3, <1>10 DEF OwnersInverse
  <2>2. \A u \in DOMAIN table' : table'[u].pfn \in DOMAIN owner' /\ owner'[table'[u].pfn] = u
    BY <1>2, <1>3, <1>4, <1>7, <1>8, <1>10 DEF OwnersInverse, victim
  <2>3. \A x \in DOMAIN owner' : owner'[x] \in DOMAIN table' /\ table'[owner'[x]].pfn = x
    BY <1>1, <1>2, <1>3, <1>4, <1>7, <1>8, <1>10 DEF OwnersInverse, victim
  <2> QED BY <2>1, <2>2, <2>3 DEF OwnersInverse, Frames
<1>13. Listed'
  BY <1>1, <1>2, <1>3, <1>10 DEF Listed, Pool, Translator!StartFrame, Frames
<1>14. PagesOK'
  <2>1. \A x \in Frames \ DOMAIN owner' : mem'[x] = Zeros
    BY <1>3, <1>9, <1>10 DEF PagesOK
  <2> QED BY <1>1, <1>8, <1>9, <1>10, <1>12, <1>13, <2>1 DEF PagesOK, Frames, Block
<1> QED BY <1>1, <1>8, <1>9, <1>10, <1>11, <1>14 DEF Served, FrameOf

LEMMA TranslationServes ==
  ASSUME PagesOK, NEW v \in VPNs, NEW write \in BOOLEAN, Translates(v, write), ~crashed'
  PROVE  Served(v)
BY HitServes, WalkServes, FreeServes, EvictServes DEF Translates, Translator!Translate

-----------------------------------------------------------------------------
(* The store buffer.                                                       *)

(* The word at cell c of block x once the stores of s are in it, over u. *)
To(s, x, c) == {k \in DOMAIN s : s[k].block = x /\ s[k].cell = c}
Newest(s, x, c, u) == IF To(s, x, c) = {} THEN u ELSE s[Max(To(s, x, c))].value
Overlaid(s, x, w) == [c \in Cells |-> Newest(s, x, c, w[c])]

LEMMA NewestFacts ==
  ASSUME NEW S, NEW s \in Seq(S), NEW k \in DOMAIN s, NEW x, NEW c, NEW u,
         k \in To(s, x, c), \A j \in To(s, x, c) : k >= j
  PROVE  Newest(s, x, c, u) = s[k].value
<1> DEFINE to == To(s, x, c)
           m == Max(to)
<1>1. to \in SUBSET (1..Len(s)) /\ Len(s) \in Nat
  BY DEF To
<1>2. to # {} /\ k \in to /\ \A j \in to : k >= j
  OBVIOUS
<1> HIDE DEF to
<1>3. m \in to /\ m >= k
  BY <1>1, <1>2, MaxFacts
<1>4. k >= m /\ m \in Nat /\ k \in Nat
  BY <1>1, <1>2, <1>3
<1> HIDE DEF m
<1>5. m = k
  BY <1>3, <1>4
<1> QED BY <1>2, <1>5 DEF Newest, m, to

(* A store to the word becomes the newest (Store). *)
LEMMA NewestAppended ==
  ASSUME NEW S, NEW s \in Seq(S), NEW e \in S, NEW x, NEW c, NEW u
  PROVE  Newest(Append(s, e), x, c, u) =
           IF e.block = x /\ e.cell = c THEN e.value ELSE Newest(s, x, c, u)
<1> DEFINE t == Append(s, e)
<1>1. /\ Len(s) \in Nat /\ DOMAIN s = 1..Len(s) /\ DOMAIN t = 1..(Len(s) + 1)
      /\ t[Len(s) + 1] = e /\ \A k \in DOMAIN s : t[k] = s[k]
      /\ t \in Seq(S)
  OBVIOUS
<1> HIDE DEF t
<1>2. CASE e.block = x /\ e.cell = c
  <2>1. Len(s) + 1 \in To(t, x, c) /\ Len(s) + 1 \in DOMAIN t
    BY <1>1, <1>2 DEF To
  <2>2. \A j \in To(t, x, c) : Len(s) + 1 >= j
    BY <1>1 DEF To
  <2>3. Newest(t, x, c, u) = t[Len(s) + 1].value
    BY <1>1, <2>1, <2>2, NewestFacts
  <2> QED BY <1>1, <1>2, <2>3 DEF t
<1>3. CASE ~(e.block = x /\ e.cell = c)
  <2>1. To(t, x, c) = To(s, x, c)
    BY <1>1, <1>3 DEF To
  <2>2. To(s, x, c) # {} => Max(To(s, x, c)) \in DOMAIN s
    <3> DEFINE to == To(s, x, c)
    <3>1. to \in SUBSET (1..Len(s))
      BY DEF To
    <3> HIDE DEF to
    <3>2. to # {} => Max(to) \in to
      BY <1>1, <3>1, MaxFacts
    <3> QED BY <1>1, <3>1, <3>2 DEF to
  <2> QED BY <1>1, <1>3, <2>1, <2>2 DEF Newest, t
<1> QED BY <1>2, <1>3

(* A store that leaves the buffer is still found under the others (tick). *)
LEMMA NewestDrained ==
  ASSUME NEW S, NEW s \in Seq(S), s # << >>, NEW x, NEW c, NEW u
  PROVE  Newest(Tail(s), x, c,
                IF Head(s).block = x /\ Head(s).cell = c THEN Head(s).value ELSE u) =
           Newest(s, x, c, u)
<1> DEFINE t == Tail(s)
           w == IF Head(s).block = x /\ Head(s).cell = c THEN Head(s).value ELSE u
           to == To(s, x, c)
           toT == To(t, x, c)
<1>1. /\ Len(s) \in Nat /\ DOMAIN s = 1..Len(s) /\ Len(s) > 0
      /\ DOMAIN t = 1..(Len(s) - 1) /\ Len(s) - 1 \in Nat
      /\ \A k \in DOMAIN t : t[k] = s[k + 1]
      /\ Head(s) = s[1] /\ t \in Seq(S)
  OBVIOUS
<1>2. /\ to = {k \in DOMAIN s : s[k].block = x /\ s[k].cell = c}
      /\ toT = {k \in DOMAIN t : t[k].block = x /\ t[k].cell = c}
  BY DEF To
<1> HIDE DEF t, to, toT
<1>3. CASE toT # {}
  <2> DEFINE k == Max(toT)
  <2>1. k \in toT /\ \A j \in toT : k >= j
    <3>1. toT \in SUBSET (1..(Len(s) - 1))
      BY <1>1, <1>2
    <3> QED BY <1>1, <1>3, <3>1, MaxFacts
  <2> HIDE DEF k
  <2>2. k \in Nat /\ k + 1 \in to /\ k + 1 \in DOMAIN s /\ t[k] = s[k + 1]
    BY <1>1, <1>2, <2>1
  <2>3. ASSUME NEW j \in to PROVE k + 1 >= j
    <3>1. j \in Nat /\ (j # 1 => j - 1 \in toT)
      BY <1>1, <1>2
    <3>2. j # 1 => k >= j - 1
      BY <2>1, <3>1
    <3> QED BY <2>2, <3>1, <3>2
  <2>4. Newest(s, x, c, u) = s[k + 1].value
    BY <2>2, <2>3, NewestFacts DEF to
  <2>5. Newest(t, x, c, w) = t[k].value
    BY <1>3 DEF Newest, k, toT
  <2> QED BY <2>2, <2>4, <2>5 DEF t
<1>4. CASE toT = {}
  <2>1. Newest(t, x, c, w) = w
    BY <1>4 DEF Newest, toT
  <2>2. \A j \in to : j = 1
    <3>1. ASSUME NEW j \in to, j # 1 PROVE FALSE
      <4>1. j - 1 \in toT
        BY <1>1, <1>2, <3>1
      <4> QED BY <1>4, <4>1
    <3> QED BY <3>1
  <2>3. CASE Head(s).block = x /\ Head(s).cell = c
    <3>1. 1 \in to /\ 1 \in DOMAIN s /\ \A j \in to : 1 >= j
      BY <1>1, <1>2, <2>2, <2>3
    <3>2. Newest(s, x, c, u) = s[1].value
      BY <3>1, NewestFacts DEF to
    <3> QED BY <1>1, <2>1, <2>3, <3>2 DEF t
  <2>4. CASE ~(Head(s).block = x /\ Head(s).cell = c)
    <3>1. to = {}
      BY <1>1, <1>2, <2>2, <2>4
    <3>2. Newest(s, x, c, u) = u
      BY <3>1 DEF Newest, to
    <3> QED BY <2>1, <2>4, <3>2 DEF t
  <2> QED BY <2>3, <2>4
<1> QED BY <1>3, <1>4

Patched(w, e) == [w EXCEPT ![e.cell] = e.value]

LEMMA OverlaidAppended ==
  ASSUME NEW S, NEW s \in Seq(S), NEW e \in S, e.cell \in Cells, NEW x, NEW w
  PROVE  Overlaid(Append(s, e), x, w) =
           IF x = e.block THEN Patched(Overlaid(s, x, w), e) ELSE Overlaid(s, x, w)
<1>1. \A c \in Cells : Newest(Append(s, e), x, c, w[c]) =
           IF e.block = x /\ e.cell = c THEN e.value ELSE Newest(s, x, c, w[c])
  BY NewestAppended
<1> DEFINE t == Append(s, e)
<1> HIDE DEF t
<1>2. Overlaid(t, x, w) = [c \in Cells |-> IF e.block = x /\ e.cell = c THEN e.value
                                           ELSE Newest(s, x, c, w[c])]
  BY <1>1 DEF Overlaid, t
<1>3. CASE x = e.block
  BY <1>2, <1>3 DEF Overlaid, Patched, t
<1>4. CASE x # e.block
  BY <1>2, <1>4 DEF Overlaid, t
<1> QED BY <1>3, <1>4

LEMMA OverlaidDrained ==
  ASSUME NEW S, NEW s \in Seq(S), s # << >>, Head(s).cell \in Cells,
         NEW x, NEW w \in Block
  PROVE  Overlaid(Tail(s), x, IF x = Head(s).block THEN Patched(w, Head(s)) ELSE w) =
           Overlaid(s, x, w)
<1> DEFINE e == Head(s)
           v == IF x = e.block THEN Patched(w, e) ELSE w
<1>1. \A c \in Cells : v[c] = IF e.block = x /\ e.cell = c THEN e.value ELSE w[c]
  BY DEF Block, Patched
<1>2. \A c \in Cells : Newest(Tail(s), x, c,
                              IF e.block = x /\ e.cell = c THEN e.value ELSE w[c]) =
                         Newest(s, x, c, w[c])
  BY NewestDrained
<1> HIDE DEF v, e
<1> QED BY <1>1, <1>2 DEF Overlaid, v, e

-----------------------------------------------------------------------------
(* The invariant.  A page in a frame no eviction took, and no miss read    *)
(* past, is in the store buffer over what the hierarchy goes on with; a    *)
(* page never touched is to be zeros, and so is a frame not handed out.    *)

(* The owner o of frame x is to find what was last stored, l. *)
Due(o, l, x) == IF x \in DOMAIN o THEN l[o[x]] ELSE Zeros

(* Hierarchy k and the stores s find e in block x, over y in memory. *)
Finds(k, s, x, y, e) == \E w \in Block : Sound(k, y, x, w) /\ Overlaid(s, x, w) = e

QueuedStore(o) == [block : DOMAIN o, cell : Cells, value : Values]

DataOK ==
  /\ Ready(h)
  /\ latest \in [VPNs -> Block]
  /\ freeList # << >> => \A v \in VPNs \ DOMAIN table : latest[v] = Zeros
  /\ sb \in Seq(QueuedStore(owner))
  /\ recycled \subseteq DOMAIN owner /\ overtaken \subseteq DOMAIN owner
  /\ \A x \in Frames \ (recycled \cup overtaken) :
       Finds(h, sb, x, mem[x], Due(owner, latest, x))
PagesInv == crashed \/ (PagesOK /\ DataOK)

(* What a translation leaves for the access that follows it. *)
LEMMA ServedFacts ==
  ASSUME PagesOK, DataOK, NEW v \in VPNs, Served(v)
  PROVE  /\ FrameOf(v) \in Frames /\ FrameOf(v) \in DOMAIN owner' /\ owner'[FrameOf(v)] = v
         /\ \A x \in DOMAIN owner' : owner'[x] \in VPNs /\ (owner'[x] = v => x = FrameOf(v))
         /\ mem' \in [Frames -> Block] /\ v \in DOMAIN table'
         /\ freeList' # << >> => \A u \in VPNs \ DOMAIN table' : latest[u] = Zeros
         /\ sb \in Seq(QueuedStore(owner'))
         /\ recycled' \subseteq DOMAIN owner' /\ overtaken \subseteq DOMAIN owner'
         /\ \A x \in Frames \ (recycled' \cup overtaken) :
              /\ mem'[x] = mem[x]
              /\ Finds(h, sb, x, mem'[x], Due(owner', latest, x))
<1> DEFINE f == FrameOf(v)
<1>1. PagesOK' /\ v \in DOMAIN table' /\ DOMAIN owner \subseteq DOMAIN owner'
  BY DEF Served
<1>2. /\ f \in Frames /\ f \in DOMAIN owner' /\ owner'[f] = v
      /\ \A x \in DOMAIN owner' : owner'[x] \in VPNs /\ (owner'[x] = v => x = f)
      /\ mem' \in [Frames -> Block]
  BY <1>1 DEF PagesOK, OwnersInverse, FrameOf, Frames, Block
<1>3. freeList' # << >> => \A u \in VPNs \ DOMAIN table' : latest[u] = Zeros
  BY DEF Served, DataOK
<1>4. sb \in Seq(QueuedStore(owner'))
  <2>1. QueuedStore(owner) \subseteq QueuedStore(owner')
    BY <1>1 DEF QueuedStore
  <2>2. sb \in Seq(QueuedStore(owner))
    BY DEF DataOK
  <2> HIDE DEF f
  <2> QED BY <2>1, <2>2
<1>5. recycled' \subseteq DOMAIN owner' /\ overtaken \subseteq DOMAIN owner'
  BY <1>1 DEF Served, DataOK
<1>6. ASSUME NEW x \in Frames \ (recycled' \cup overtaken)
      PROVE  mem'[x] = mem[x] /\ Due(owner', latest, x) = Due(owner, latest, x)
  <2>1. mem'[x] = mem[x] /\ x \notin recycled /\ (x \in DOMAIN owner => owner'[x] = owner[x])
    BY <1>6 DEF Served
  <2>2. CASE x \in DOMAIN owner \/ x \notin DOMAIN owner'
    BY <1>1, <2>1, <2>2 DEF Due
  <2>3. CASE x \in DOMAIN owner' \ DOMAIN owner
    <3>1. freeList # << >> /\ x = f /\ v \notin DOMAIN table
      BY <2>3 DEF Served
    <3>2. latest[v] = Zeros
      BY <3>1 DEF DataOK
    <3> QED BY <1>2, <2>1, <2>3, <3>1, <3>2 DEF Due
  <2> QED BY <2>2, <2>3
<1>7. ASSUME NEW x \in Frames \ (recycled' \cup overtaken)
      PROVE  Finds(h, sb, x, mem'[x], Due(owner', latest, x))
  <2>1. x \in Frames \ (recycled \cup overtaken)
    BY <1>7 DEF Served
  <2>2. Finds(h, sb, x, mem[x], Due(owner, latest, x))
    BY <2>1 DEF DataOK
  <2> QED BY <1>6, <1>7, <2>2
<1> QED BY <1>1, <1>2, <1>3, <1>4, <1>5, <1>6, <1>7

(* The value a step loaded is right, if its frame was left alone. *)
LEMMA LoadedRight ==
  ASSUME NEW v \in VPNs, NEW c \in Cells, NEW value,
         loaded' = [page |-> v, cell |-> c, value |-> value],
         FrameOf(v) \notin recycled' \cup overtaken' => value = latest'[v][c]
  PROVE  UndisturbedPagesReadBack'
<1>1. loaded'.page = v /\ loaded'.cell = c /\ loaded'.value = value
  OBVIOUS
<1> QED BY <1>1 DEF UndisturbedPagesReadBack, RightlyLoaded, FrameOf

LEMMA ForwardedStep ==
  ASSUME PagesOK, DataOK, NEW v \in VPNs, NEW c \in Cells, LoadForwarded(v, c)
  PROVE  PagesOK' /\ DataOK' /\ UndisturbedPagesReadBack'
<1> DEFINE f == FrameOf(v)
           to == StoresTo(f, c)
<1>1. /\ Translates(v, FALSE) /\ ~crashed' /\ to # {}
      /\ loaded' = [page |-> v, cell |-> c, value |-> sb[Max(to)].value]
      /\ h' = h /\ sb' = sb /\ latest' = latest /\ overtaken' = overtaken
  BY DEF LoadForwarded
<1>2. Served(v)
  BY <1>1, TranslationServes
<1>3. /\ f \in Frames /\ f \in DOMAIN owner' /\ owner'[f] = v
      /\ freeList' # << >> => \A u \in VPNs \ DOMAIN table' : latest[u] = Zeros
      /\ sb \in Seq(QueuedStore(owner'))
      /\ recycled' \subseteq DOMAIN owner' /\ overtaken \subseteq DOMAIN owner'
      /\ \A x \in Frames \ (recycled' \cup overtaken) :
           Finds(h, sb, x, mem'[x], Due(owner', latest, x))
  BY <1>2, ServedFacts
<1>4. PagesOK' /\ DataOK'
  BY <1>1, <1>2, <1>3 DEF Served, DataOK, Block, Frames
<1>5. ASSUME f \notin recycled' \cup overtaken'
      PROVE  sb[Max(to)].value = latest'[v][c]
  <2>1. PICK w \in Block : Overlaid(sb, f, w) = latest[v]
    BY <1>1, <1>3, <1>5 DEF Finds, Due
  <2>2. to = To(sb, f, c)
    BY DEF StoresTo, To
  <2> HIDE DEF f, to
  <2>3. Overlaid(sb, f, w)[c] = sb[Max(to)].value
    BY <1>1, <2>2 DEF Overlaid, Newest
  <2> QED BY <1>1, <2>1, <2>3
<1> HIDE DEF to
<1> QED BY <1>1, <1>4, <1>5, LoadedRight

LEMMA NotOvertaken ==
  ASSUME NEW f, IsSeq(h.wb), IsSeq(h.active), Overtakes(f)
  PROVE  /\ overtaken \subseteq overtaken' /\ overtaken' \subseteq overtaken \cup {f}
         /\ f \notin overtaken' /\ Misses(h, "l1d", f) => \A d : ~Queued(h, f, d)
<1>1. \A x, d : WaitsIn(Writes, x, d) <=> WaitsIn(h.wb, x, d) \/ WaitsIn(h.active, x, d)
  BY JoinedWaits DEF Writes
<1>2. f \notin overtaken' /\ Misses(h, "l1d", f) =>
        ~ \E k \in DOMAIN Writes : Writes[k].block = f
  BY DEF Overtakes
<1>3. f \notin overtaken' /\ Misses(h, "l1d", f) => \A d : ~WaitsIn(Writes, f, d)
  BY <1>2 DEF WaitsIn
<1> QED BY <1>1, <1>3 DEF Overtakes, Queued

LEMMA CachedStep ==
  ASSUME PagesOK, DataOK, NEW v \in VPNs, NEW c \in Cells, LoadCached(v, c)
  PROVE  PagesOK' /\ DataOK' /\ UndisturbedPagesReadBack'
<1> DEFINE f == FrameOf(v)
           after == Ensured(h, "l1d", f, mem'[f])
           found == Found(h, "l1d", f, mem'[f])
<1>1. /\ Translates(v, FALSE) /\ ~crashed' /\ StoresTo(f, c) = {}
      /\ h' = [after EXCEPT !.cost = 0] /\ Overtakes(f)
      /\ loaded' = [page |-> v, cell |-> c, value |-> AsData(found[c])]
      /\ sb' = sb /\ latest' = latest
  BY DEF LoadCached
<1>2. Served(v)
  BY <1>1, TranslationServes
<1>3. /\ f \in Frames /\ f \in DOMAIN owner' /\ owner'[f] = v
      /\ freeList' # << >> => \A u \in VPNs \ DOMAIN table' : latest[u] = Zeros
      /\ sb \in Seq(QueuedStore(owner'))
      /\ recycled' \subseteq DOMAIN owner' /\ overtaken \subseteq DOMAIN owner'
      /\ \A x \in Frames \ (recycled' \cup overtaken) :
           Finds(h, sb, x, mem'[x], Due(owner', latest, x))
  BY <1>2, ServedFacts
<1>4. Ready(h) /\ IsSeq(h.wb) /\ IsSeq(h.active) /\ Frames \subseteq Nat
  BY SizesAssumption DEF DataOK, Ready, QueueOK, Frames
<1>5. /\ overtaken \subseteq overtaken' /\ overtaken' \subseteq overtaken \cup {f}
      /\ f \notin overtaken' /\ Misses(h, "l1d", f) => \A d : ~Queued(h, f, d)
  BY <1>1, <1>4, NotOvertaken
<1> HIDE DEF f, after, found
<1>6. /\ Ready(after)
      /\ \A x \in Nat : \A y, w, p : DataKeeps(h, f, mem'[f], after, x, y, w, p)
  BY <1>3, <1>4, EnsuredL1DKeeps DEF after
<1>7. Ready(h') /\ \A x \in Nat : SameFor(after, h', x)
  BY <1>1, <1>6, CostFacts
<1>8. ASSUME NEW x \in Frames \ (recycled' \cup overtaken')
      PROVE  Finds(h', sb, x, mem'[x], Due(owner', latest, x))
  <2>1. PICK w \in Block : /\ Sound(h, mem'[x], x, w)
                           /\ Overlaid(sb, x, w) = Due(owner', latest, x)
    BY <1>3, <1>5, <1>8 DEF Finds
  <2>2. x \in Nat /\ (x = f /\ Misses(h, "l1d", f) =>
                        mem'[f] = mem'[x] /\ \A d : ~Queued(h, f, d))
    BY <1>4, <1>5, <1>8
  <2>3. DataKeeps(h, f, mem'[f], after, x, mem'[x], w, Zero)
    BY <1>6, <2>2
  <2>4. Sound(after, mem'[x], x, w)
    BY <2>1, <2>2, <2>3 DEF DataKeeps
  <2>5. Sound(h', mem'[x], x, w)
    BY <1>6, <1>7, <2>2, <2>4, SameForFacts DEF Ready
  <2> QED BY <2>1, <2>5 DEF Finds
<1>9. PagesOK' /\ DataOK'
  <2>1. latest' \in [VPNs -> Block] /\ recycled' \cup overtaken' \subseteq DOMAIN owner'
    BY <1>1, <1>3, <1>5 DEF DataOK
  <2> QED BY <1>1, <1>2, <1>3, <1>7, <1>8, <2>1 DEF Served, DataOK, Block, Frames
<1>10. ASSUME f \notin recycled' \cup overtaken'
       PROVE  AsData(found[c]) = latest'[v][c]
  <2>1. PICK w \in Block : Sound(h, mem'[f], f, w) /\ Overlaid(sb, f, w) = latest[v]
    BY <1>3, <1>5, <1>10 DEF Finds, Due
  <2>2. found = w
    BY <1>5, <1>10, <2>1, FoundFacts DEF found
  <2>3. Overlaid(sb, f, w)[c] = w[c]
    BY <1>1 DEF Overlaid, Newest, To, StoresTo
  <2>4. w[c] \in Values
    BY DEF Block
  <2> QED BY <1>1, <2>1, <2>2, <2>3, <2>4 DEF AsData
<1> QED BY <1>1, <1>9, <1>10, LoadedRight DEF f

LEMMA StoreStep ==
  ASSUME PagesOK, DataOK, NEW v \in VPNs, NEW c \in Cells, NEW value \in Values,
         Store(v, c, value)
  PROVE  PagesOK' /\ DataOK' /\ UndisturbedPagesReadBack'
<1> DEFINE f == FrameOf(v)
           e == [block |-> f, cell |-> c, value |-> value]
<1>1. /\ Translates(v, TRUE) /\ ~crashed' /\ sb' = Append(sb, e)
      /\ latest' = [latest EXCEPT ![v] = [latest[v] EXCEPT ![c] = value]]
      /\ h' = h /\ overtaken' = overtaken /\ loaded' = Nothing
  BY DEF Store
<1>2. Served(v)
  BY <1>1, TranslationServes
<1>3. /\ f \in Frames /\ f \in DOMAIN owner' /\ owner'[f] = v
      /\ \A x \in DOMAIN owner' : owner'[x] \in VPNs /\ (owner'[x] = v => x = f)
      /\ v \in DOMAIN table'
      /\ freeList' # << >> => \A u \in VPNs \ DOMAIN table' : latest[u] = Zeros
      /\ sb \in Seq(QueuedStore(owner'))
      /\ recycled' \subseteq DOMAIN owner' /\ overtaken \subseteq DOMAIN owner'
      /\ \A x \in Frames \ (recycled' \cup overtaken) :
           Finds(h, sb, x, mem'[x], Due(owner', latest, x))
  BY <1>2, ServedFacts
<1> HIDE DEF f
<1>4. e \in QueuedStore(owner') /\ e.block = f /\ e.cell = c /\ e.value = value
  BY <1>3 DEF QueuedStore
<1> HIDE DEF e
<1>5. /\ latest' \in [VPNs -> Block] /\ latest'[v] = Patched(latest[v], e)
      /\ \A u \in VPNs \ {v} : latest'[u] = latest[u]
  <2>1. latest \in [VPNs -> Block] /\ latest[v] \in Block
    BY DEF DataOK
  <2>2. [latest[v] EXCEPT ![c] = value] \in Block
    BY <2>1 DEF Block
  <2> QED BY <1>1, <1>4, <2>1, <2>2 DEF Patched
<1>6. sb' \in Seq(QueuedStore(owner'))
  BY <1>1, <1>3, <1>4
<1>7. \A x, w : Overlaid(sb', x, w) = IF x = f THEN Patched(Overlaid(sb, x, w), e)
                                              ELSE Overlaid(sb, x, w)
  <2> DEFINE S == QueuedStore(owner')
  <2>1. e \in S /\ sb \in Seq(S) /\ e.cell \in Cells
    BY <1>3, <1>4
  <2> HIDE DEF S
  <2> QED BY <1>1, <1>4, <2>1, OverlaidAppended
<1>8. ASSUME NEW x \in Frames
      PROVE  Due(owner', latest', x) = IF x = f THEN Patched(Due(owner', latest, x), e)
                                               ELSE Due(owner', latest, x)
  BY <1>3, <1>5 DEF Due
<1>9. ASSUME NEW x \in Frames \ (recycled' \cup overtaken')
      PROVE  Finds(h', sb', x, mem'[x], Due(owner', latest', x))
  <2>1. PICK w \in Block : /\ Sound(h, mem'[x], x, w)
                           /\ Overlaid(sb, x, w) = Due(owner', latest, x)
    BY <1>1, <1>3, <1>9 DEF Finds
  <2>2. Overlaid(sb', x, w) = Due(owner', latest', x)
    BY <1>7, <1>8, <1>9, <2>1
  <2> QED BY <1>1, <2>1, <2>2 DEF Finds
<1>10. freeList' # << >> => \A u \in VPNs \ DOMAIN table' : latest'[u] = Zeros
  BY <1>3, <1>5
<1>11. PagesOK' /\ DataOK'
  <2>1. Ready(h') /\ overtaken' \subseteq DOMAIN owner'
    BY <1>1, <1>3 DEF DataOK
  <2> QED BY <1>2, <1>3, <1>5, <1>6, <1>9, <1>10, <2>1 DEF Served, DataOK, Block, Frames
<1> QED BY <1>1, <1>11 DEF UndisturbedPagesReadBack

(* MemStage.tick: the oldest store leaves the buffer for the caches. *)
LEMMA DrainKeeps ==
  ASSUME PagesOK, DataOK, sb # << >>, NEW e, e = Head(sb),
         NEW after, after = Stored(h, e.block, mem[e.block], e.cell, e.value),
         Overtakes(e.block)
  PROVE  /\ Ready(after) /\ Tail(sb) \in Seq(QueuedStore(owner))
         /\ overtaken' \subseteq DOMAIN owner
         /\ \A x \in Frames \ (recycled \cup overtaken') :
              Finds(after, Tail(sb), x, mem[x], Due(owner, latest, x))
<1> DEFINE b == e.block
<1>1. /\ sb \in Seq(QueuedStore(owner)) /\ Tail(sb) \in Seq(QueuedStore(owner))
      /\ b \in DOMAIN owner /\ e.cell \in Cells /\ e.value \in Values
  <2> DEFINE S == QueuedStore(owner)
  <2>1. sb \in Seq(S)
    BY DEF DataOK
  <2> HIDE DEF S
  <2>2. Tail(sb) \in Seq(S) /\ e \in S
    BY <2>1
  <2> QED BY <2>1, <2>2 DEF S, QueuedStore
<1>2. Ready(h) /\ IsSeq(h.wb) /\ IsSeq(h.active) /\ Frames \subseteq Nat /\ b \in Frames
  BY <1>1, SizesAssumption DEF PagesOK, OwnersInverse, DataOK, Ready, QueueOK, Frames
<1>3. /\ overtaken \subseteq overtaken' /\ overtaken' \subseteq overtaken \cup {b}
      /\ b \notin overtaken' /\ Misses(h, "l1d", b) => \A d : ~Queued(h, b, d)
  BY <1>2, NotOvertaken
<1>4. /\ Ready(after)
      /\ \A x \in Nat : \A y, w, p :
           StoreKeeps(h, b, mem[b], e.cell, e.value, after, x, y, w, p)
  BY <1>2, StoredKeeps
<1> HIDE DEF b
<1>5. ASSUME NEW x \in Frames \ (recycled \cup overtaken')
      PROVE  Finds(after, Tail(sb), x, mem[x], Due(owner, latest, x))
  <2>1. PICK w \in Block : /\ Sound(h, mem[x], x, w)
                           /\ Overlaid(sb, x, w) = Due(owner, latest, x)
    BY <1>3, <1>5 DEF DataOK, Finds
  <2> DEFINE now == IF x = b THEN Patched(w, e) ELSE w
  <2>2. now \in Block
    BY <1>1 DEF Patched, Block
  <2>3. x \in Nat /\ (x = b /\ Misses(h, "l1d", b) =>
                        mem[b] = mem[x] /\ \A d : ~Queued(h, b, d))
    BY <1>2, <1>3, <1>5
  <2>4. StoreKeeps(h, b, mem[b], e.cell, e.value, after, x, mem[x], w, Zero)
    BY <1>4, <2>3
  <2>5. Sound(after, mem[x], x, now)
    BY <2>1, <2>3, <2>4 DEF StoreKeeps, Patched
  <2>6. Overlaid(Tail(sb), x, now) = Overlaid(sb, x, w)
    <3> DEFINE S == QueuedStore(owner)
    <3>1. sb \in Seq(S) /\ sb # << >> /\ Head(sb).cell \in Cells
      BY <1>1
    <3> HIDE DEF S
    <3> QED BY <3>1, OverlaidDrained DEF b
  <2> HIDE DEF now
  <2> QED BY <2>1, <2>2, <2>5, <2>6 DEF Finds
<1>6. overtaken' \subseteq DOMAIN owner
  BY <1>1, <1>3 DEF DataOK
<1> QED BY <1>1, <1>4, <1>5, <1>6

(* The controller's tick after it. *)
StillFinds(k, m, j, n) ==
  \A x \in Frames : \A s, e : Finds(k, s, x, m[x], e) => Finds(j, s, x, n[x], e)

LEMMA TickFinds ==
  ASSUME MemoryLatency # 0, NEW k, Ready(k), NEW m \in [Frames -> Block],
         NEW j, j = Ticked([k EXCEPT !.cost = 0]), NEW n, n = MemoryAfterTick(k, m)
  PROVE  Ready(j) /\ n \in [Frames -> Block] /\ StillFinds(k, m, j, n)
<1> DEFINE r == [k EXCEPT !.cost = 0]
<1>1. Ready(r) /\ \A x \in Nat : SameFor(k, r, x)
  BY CostFacts
<1>2. r.busy = k.busy /\ r.active = k.active
  BY WithCost DEF Ready, SameQueue
<1> HIDE DEF r
<1>3. n = MemoryAfterTick(r, m)
  BY <1>2 DEF MemoryAfterTick, Completes
<1>4. /\ Ready(j) /\ n \in [Frames -> Block]
      /\ \A x \in Nat : \A v, p : TickKeeps(r, m, j, n, x, v, p)
  <2>1. j = Ticked(r)
    BY DEF r
  <2> QED BY <1>1, <1>3, <2>1, TickedKeeps
<1>5. ASSUME NEW x \in Frames, NEW s, NEW e, Finds(k, s, x, m[x], e)
      PROVE  Finds(j, s, x, n[x], e)
  <2>1. PICK w \in Block : Sound(k, m[x], x, w) /\ Overlaid(s, x, w) = e
    BY <1>5 DEF Finds
  <2>2. x \in Nat /\ x \in DOMAIN m
    BY SizesAssumption DEF Frames
  <2>3. Sound(r, m[x], x, w)
    BY <1>1, <2>1, <2>2, SameForFacts DEF Ready
  <2>4. TickKeeps(r, m, j, n, x, w, Zero)
    BY <1>4, <2>2
  <2>5. Sound(j, n[x], x, w)
    BY <2>2, <2>3, <2>4 DEF TickKeeps
  <2> QED BY <2>1, <2>5 DEF Finds
<1> QED BY <1>4, <1>5 DEF StillFinds

(* A frame not handed out has no store queued for it, and no write other   *)
(* than of zeros.                                                          *)
LEMMA ZerosStay ==
  ASSUME NEW k, Ready(k), NEW m \in [Frames -> Block], NEW o, NEW s \in Seq(QueuedStore(o)),
         NEW x \in Frames, x \notin DOMAIN o, m[x] = Zeros, Finds(k, s, x, m[x], Zeros)
  PROVE  MemoryAfterTick(k, m)[x] = Zeros
<1>1. PICK w \in Block : Sound(k, m[x], x, w) /\ Overlaid(s, x, w) = Zeros
  BY DEF Finds
<1>2. \A i \in DOMAIN s : s[i].block # x
  <2> DEFINE S == QueuedStore(o)
  <2>1. s \in Seq(S)
    OBVIOUS
  <2> HIDE DEF S
  <2>2. \A i \in DOMAIN s : s[i] \in S
    BY <2>1
  <2> QED BY <2>2 DEF S, QueuedStore
<1>3. \A c \in Cells : Newest(s, x, c, w[c]) = w[c]
  BY <1>2 DEF Newest, To
<1>4. w = Zeros
  <2>1. Overlaid(s, x, w) = [c \in Cells |-> w[c]]
    BY <1>3 DEF Overlaid
  <2> QED BY <1>1, <2>1 DEF Block
<1>5. \A d : WaitsIn(k.active, x, d) => d = Zeros
  BY <1>1, <1>4 DEF Sound, Queued
<1> DEFINE a == k.active
<1>6. IsSeq(a) /\ Zeros \in Block
  BY <1>1, <1>4 DEF Ready, QueueOK
<1> HIDE DEF a
<1>7. WrittenAll(m, a)[x] = Zeros
  <2>1. \A d : WaitsIn(a, x, d) => d = Zeros
    BY <1>5 DEF a
  <2> DEFINE z == Zeros
  <2>2. z \in Block /\ (\A d : WaitsIn(a, x, d) => d = z) /\ m[x] = z
    BY <1>6, <2>1
  <2> HIDE DEF z
  <2>3. /\ (\E d : WaitsIn(a, x, d)) => WrittenAll(m, a)[x] = z
        /\ (\A d : ~WaitsIn(a, x, d)) => WrittenAll(m, a)[x] = m[x]
    BY <1>6, <2>2, WrittenFacts
  <2> QED BY <2>2, <2>3 DEF z
<1> QED BY <1>7 DEF MemoryAfterTick, a

LEMMA TickStep ==
  ASSUME MemoryLatency # 0, PagesOK, DataOK, Tick
  PROVE  PagesOK' /\ DataOK' /\ UndisturbedPagesReadBack'
<1> DEFINE drains == sbWait = 0 /\ sb # << >>
           st == Head(sb)
           after == IF drains THEN Stored(h, st.block, mem[st.block], st.cell, st.value)
                              ELSE h
<1>1. /\ sb' = IF drains THEN Tail(sb) ELSE sb
      /\ h' = Ticked([after EXCEPT !.cost = 0]) /\ mem' = MemoryAfterTick(after, mem)
      /\ IF drains THEN Overtakes(st.block) ELSE overtaken' = overtaken
      /\ loaded' = Nothing
      /\ tlb' = tlb /\ table' = table /\ owner' = owner /\ freeList' = freeList
      /\ frameOrder' = frameOrder /\ disk' = disk /\ crashed' = crashed
      /\ latest' = latest /\ recycled' = recycled
  BY DEF Tick
<1> HIDE DEF after, st
<1>2. /\ Ready(after) /\ sb' \in Seq(QueuedStore(owner)) /\ overtaken' \subseteq DOMAIN owner
      /\ \A x \in Frames \ (recycled \cup overtaken') :
           Finds(after, sb', x, mem[x], Due(owner, latest, x))
  <2>1. CASE drains
    BY <1>1, <2>1, DrainKeeps DEF after, st
  <2>2. CASE ~drains
    BY <1>1, <2>2 DEF after, DataOK
  <2> QED BY <2>1, <2>2
<1> HIDE DEF drains
<1>3. mem \in [Frames -> Block] /\ \A x \in Frames \ DOMAIN owner : mem[x] = Zeros
  BY DEF PagesOK
<1>4. /\ Ready(h') /\ mem' \in [Frames -> Block]
      /\ \A x \in Frames : \A s, e :
           Finds(after, s, x, mem[x], e) => Finds(h', s, x, mem'[x], e)
  <2> DEFINE j == h'
             n == mem'
  <2>1. j = Ticked([after EXCEPT !.cost = 0]) /\ n = MemoryAfterTick(after, mem)
    BY <1>1
  <2> HIDE DEF j, n
  <2>2. Ready(j) /\ n \in [Frames -> Block]
    BY <1>2, <1>3, <2>1, TickFinds
  <2>3. StillFinds(after, mem, j, n)
    BY <1>2, <1>3, <2>1, TickFinds
  <2> QED BY <2>2, <2>3 DEF j, n, StillFinds
<1>5. \A x \in Frames \ (recycled \cup overtaken') :
        Finds(h', sb', x, mem'[x], Due(owner, latest, x))
  BY <1>2, <1>4
<1>6. ASSUME NEW x \in Frames \ DOMAIN owner
      PROVE  mem'[x] = Zeros
  <2>1. x \in Frames \ (recycled \cup overtaken') /\ Due(owner, latest, x) = Zeros
    BY <1>2, <1>6 DEF DataOK, Due
  <2>2. Finds(after, sb', x, mem[x], Zeros)
    BY <1>2, <2>1
  <2>3. MemoryAfterTick(after, mem)[x] = Zeros
    BY <1>2, <1>3, <1>6, <2>2, ZerosStay
  <2> QED BY <1>1, <2>3
<1>7. PagesOK'
  BY <1>1, <1>4, <1>6 DEF PagesOK, OwnersInverse, Listed, Pool, Translator!StartFrame,
                         Frames, Block
<1>8. DataOK'
  BY <1>1, <1>2, <1>4, <1>5 DEF DataOK, Block, Frames
<1> QED BY <1>1, <1>7, <1>8 DEF UndisturbedPagesReadBack

LEMMA InitialPages == Init => PagesOK
<1> SUFFICES ASSUME Init PROVE PagesOK
  OBVIOUS
<1> DEFINE start == Translator!StartFrame
<1>1. NumFrames \in Nat \ {0} /\ start \in {0, 1} /\ start < NumFrames
  BY SizesAssumption DEF Translator!StartFrame
<1>2. /\ tlb = [entries |-> << >>, order |-> << >>]
      /\ DOMAIN table = {} /\ DOMAIN owner = {} /\ DOMAIN disk = {}
      /\ table = [v \in DOMAIN table |-> table[v]] /\ owner = [f \in DOMAIN owner |-> owner[f]]
      /\ disk = [v \in DOMAIN disk |-> disk[v]]
      /\ freeList = [i \in 1..(NumFrames - start) |-> start + i - 1]
      /\ frameOrder = << >> /\ mem = [f \in Frames |-> Zeros]
  BY DEF Init, Translator!Init, Translator!EmptyTLB, Translator!NoKeys,
         Translator!AllFree, Translator!Frames, Frames
<1>3. Zeros \in Block
  BY ValuesAssumption DEF Zeros, Block
<1> HIDE DEF start
<1>4. ListOf(Frames, freeList) /\ Tracked(freeList) = start..(NumFrames - 1)
  <2>1. NumFrames - start \in Nat /\ \A i \in 1..(NumFrames - start) : start + i - 1 \in Frames
    BY <1>1 DEF Frames
  <2>2. /\ freeList \in Seq(Frames) /\ DOMAIN freeList = 1..(NumFrames - start)
        /\ \A i \in DOMAIN freeList : freeList[i] = start + i - 1
    BY <1>2, <2>1
  <2>3. NoRepeats(freeList)
    BY <1>1, <2>2 DEF NoRepeats
  <2>4. ASSUME NEW f \in start..(NumFrames - 1)
        PROVE  f \in Tracked(freeList)
    <3>1. f - start + 1 \in 1..(NumFrames - start) /\ start + (f - start + 1) - 1 = f
      BY <1>1
    <3> QED BY <2>2, <3>1 DEF Tracked
  <2>5. Tracked(freeList) \subseteq start..(NumFrames - 1)
    BY <1>1, <2>2 DEF Tracked
  <2> QED BY <2>2, <2>3, <2>4, <2>5 DEF ListOf
<1>5. ListOf(Frames, frameOrder) /\ Tracked(frameOrder) = {}
  BY <1>2 DEF ListOf, NoRepeats, Tracked
<1>6. TLBOK(tlb, table) /\ IsTable(table)
  BY <1>2 DEF TLBOK, IsTLB, Agree, IsTable
<1>7. OwnersInverse /\ Listed
  BY <1>2, <1>4, <1>5 DEF OwnersInverse, Listed, Pool, start
<1> QED BY <1>2, <1>3, <1>6, <1>7 DEF PagesOK

LEMMA InitialPagesData == Init => DataOK
<1> SUFFICES ASSUME Init PROVE DataOK
  OBVIOUS
<1>1. /\ h = EmptyHierarchy /\ sb = << >> /\ latest = [v \in VPNs |-> Zeros]
      /\ recycled = {} /\ overtaken = {}
      /\ DOMAIN owner = {} /\ mem = [f \in Frames |-> Zeros]
  BY DEF Init, Translator!Init, Translator!NoKeys, Translator!Frames, Frames
<1>2. /\ h.l1i = EmptyCache(L1I) /\ h.l1d = EmptyCache(L1D) /\ h.l2 = EmptyCache(L2)
      /\ h.wb = << >> /\ h.active = << >> /\ h.busy = 0
  BY <1>1 DEF EmptyHierarchy
<1>3. \A x \in Nat :
        ~Holds(L1I, h.l1i, x) /\ ~Holds(L1D, h.l1d, x) /\ ~Holds(L2, h.l2, x)
  BY <1>2, Configs, EmptyFacts
<1>4. \A x, d : ~Queued(h, x, d)
  BY <1>2 DEF Queued, WaitsIn
<1>5. Ready(h)
  <2>1. GoodHierarchy(h)
    BY <1>1, EmptyHierarchyFacts
  <2>2. QueueOK(h)
    BY <1>2 DEF QueueOK, IsSeq
  <2>3. CleanL1I(h)
    BY <1>3 DEF CleanL1I
  <2> QED BY <2>1, <2>2, <2>3 DEF Ready
<1>6. Zeros \in Block
  BY ValuesAssumption DEF Zeros, Block
<1>7. ASSUME NEW x \in Frames
      PROVE  Finds(h, sb, x, mem[x], Due(owner, latest, x))
  <2>1. x \in Nat /\ mem[x] = Zeros
    BY <1>1, SizesAssumption DEF Frames
  <2>2. Sound(h, mem[x], x, Zeros)
    BY <1>3, <1>4, <2>1 DEF Sound
  <2>3. Overlaid(sb, x, Zeros) = Zeros
    BY <1>1 DEF Overlaid, Newest, To, Zeros
  <2>4. Due(owner, latest, x) = Zeros
    BY <1>1 DEF Due
  <2> QED BY <1>6, <2>2, <2>3, <2>4 DEF Finds
<1>8. latest \in [VPNs -> Block] /\ \A v \in VPNs : latest[v] = Zeros
  BY <1>1, <1>6
<1>9. sb \in Seq(QueuedStore(owner))
  BY <1>1
<1> QED BY <1>1, <1>5, <1>7, <1>8, <1>9 DEF DataOK

LEMMA StepsKeepPages ==
  ASSUME MemoryLatency # 0, PagesInv, [Next]_vars
  PROVE  PagesInv' /\ (UndisturbedPagesReadBack => UndisturbedPagesReadBack')
<1>1. CASE UNCHANGED vars
  BY <1>1 DEF vars, PagesInv, PagesOK, DataOK, OwnersInverse, Listed, Pool,
              Translator!StartFrame, Frames, Block, UndisturbedPagesReadBack, RightlyLoaded
<1>2. ASSUME NEW v \in VPNs, NEW c \in Cells, LoadForwarded(v, c)
      PROVE  PagesInv' /\ UndisturbedPagesReadBack'
  <2>1. PagesOK /\ DataOK
    BY <1>2 DEF LoadForwarded, PagesInv
  <2> QED BY <1>2, <2>1, ForwardedStep DEF PagesInv
<1>3. ASSUME NEW v \in VPNs, NEW c \in Cells, LoadCached(v, c)
      PROVE  PagesInv' /\ UndisturbedPagesReadBack'
  <2>1. PagesOK /\ DataOK
    BY <1>3 DEF LoadCached, PagesInv
  <2> QED BY <1>3, <2>1, CachedStep DEF PagesInv
<1>4. ASSUME NEW v \in VPNs, NEW c \in Cells, NEW value \in Values, Store(v, c, value)
      PROVE  PagesInv' /\ UndisturbedPagesReadBack'
  <2>1. PagesOK /\ DataOK
    BY <1>4 DEF Store, PagesInv
  <2> QED BY <1>4, <2>1, StoreStep DEF PagesInv
<1>5. ASSUME NEW v \in VPNs, NEW write \in BOOLEAN, Fails(v, write)
      PROVE  PagesInv' /\ UndisturbedPagesReadBack'
  BY <1>5 DEF Fails, PagesInv, UndisturbedPagesReadBack
<1>6. ASSUME Tick PROVE PagesInv' /\ UndisturbedPagesReadBack'
  <2>1. PagesOK /\ DataOK
    BY <1>6 DEF Tick, PagesInv
  <2> QED BY <1>6, <2>1, TickStep DEF PagesInv
<1> QED BY <1>1, <1>2, <1>3, <1>4, <1>5, <1>6 DEF Next

(* Whatever is evicted, saved and restored around it, a page whose frame   *)
(* no eviction took, and which no miss read past its waiting write-back,   *)
(* reads back what was last stored in it: through the store buffer, either *)
(* level of the caches, the write-back queue and memory (stages/mem.py,    *)
(* cache_hierarchy.py, memory_controller.py, address_translator.py).  The  *)
(* controller takes at least a cycle for a write.                          *)
THEOREM UndisturbedPagesTheorem ==
  ASSUME MemoryLatency # 0
  PROVE  Spec => []UndisturbedPagesReadBack
<1> DEFINE Inv == PagesInv /\ UndisturbedPagesReadBack
<1>1. Init => Inv
  BY InitialPages, InitialPagesData DEF Init, PagesInv, UndisturbedPagesReadBack
<1>2. Inv /\ [Next]_vars => Inv'
  BY StepsKeepPages
<1> QED BY <1>1, <1>2, PTL DEF Spec
=============================================================================
