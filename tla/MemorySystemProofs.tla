------------------------- MODULE MemorySystemProofs -------------------------
(***************************************************************************)
(* Theorems about MemorySystem, for every size, policy and latency of the  *)
(* three caches, every program and every number of blocks.  Every          *)
(* structure keeps its type and every recency list is exactly the valid    *)
(* lines of its set, to after the flush; until the flush, L2 includes both *)
(* L1 caches.  With every memory latency but 0, no store is lost and every *)
(* load is current, but where a miss has read past a waiting write-back;   *)
(* clean copies agree; fetches get the program's instructions.             *)
(***************************************************************************)
EXTENDS MemorySystem, HierarchyProofs

-----------------------------------------------------------------------------
(* The caches.                                                             *)
(* Until the flush, the hierarchy is good. *)
GoodUntilFlush == phase # "flushed" => GoodHierarchy(h)

LEMMA TakesFacts ==
  ASSUME NEW after, GoodHierarchy(after), Takes(after)
  PROVE  GoodHierarchy(h')
<1>1. h' = [after EXCEPT !.cost = 0]
  BY DEF Takes
<1> QED BY <1>1, WithCost

LEMMA StepsKeepGood ==
  ASSUME GoodUntilFlush, [Next]_vars
  PROVE  GoodUntilFlush'
<1> SUFFICES ASSUME (phase # "flushed")' PROVE GoodHierarchy(h')
  BY DEF GoodUntilFlush
<1>1. ASSUME NEW b \in DataBlocks, NEW c \in Cells, Load(b, c)
      PROVE  GoodHierarchy(h')
  <2> DEFINE after == Ensured(h, "l1d", b, mem[b])
  <2>1. Takes(after) /\ phase = "running" /\ b \in Nat
    BY <1>1, BlocksAssumption DEF Load
  <2>2. GoodHierarchy(after)
    BY <2>1, EnsuredFacts DEF GoodUntilFlush
  <2> HIDE DEF after
  <2> QED BY <2>1, <2>2, TakesFacts
<1>2. ASSUME NEW b \in DataBlocks, NEW c \in Cells, NEW value \in Values, Drain(b, c, value)
      PROVE  GoodHierarchy(h')
  <2> DEFINE after == Stored(h, b, mem[b], c, value)
  <2>1. Takes(after) /\ phase # "flushed" /\ b \in Nat
    BY <1>2, BlocksAssumption DEF Drain
  <2>2. GoodHierarchy(after)
    BY <2>1, StoredFacts DEF GoodUntilFlush
  <2> HIDE DEF after
  <2> QED BY <2>1, <2>2, TakesFacts
<1>3. ASSUME NEW b \in DOMAIN Program, Fetch(b)
      PROVE  GoodHierarchy(h')
  <2> DEFINE after == Ensured(h, "l1i", b, Program[b])
  <2>1. Takes(after) /\ phase = "running" /\ b \in Nat
    BY <1>3, BlocksAssumption DEF Fetch
  <2>2. GoodHierarchy(after)
    BY <2>1, EnsuredFacts DEF GoodUntilFlush
  <2> HIDE DEF after
  <2> QED BY <2>1, <2>2, TakesFacts
<1>4. ASSUME Tick PROVE GoodHierarchy(h')
  <2>1. h' = Ticked(h) /\ IsHierarchy(h) /\ GoodCaches(h.l1i, h.l1d, h.l2)
    BY <1>4 DEF Tick, GoodUntilFlush, GoodHierarchy
  <2> QED BY <2>1, TickedFacts DEF SameCaches, GoodHierarchy
<1>5. ASSUME LoopEnds PROVE GoodHierarchy(h')
  BY <1>5 DEF LoopEnds, GoodUntilFlush
<1>6. ASSUME FlushAll PROVE FALSE
  BY <1>6 DEF FlushAll
<1>7. ASSUME UNCHANGED vars PROVE GoodHierarchy(h')
  BY <1>7 DEF vars, GoodUntilFlush
<1> QED BY <1>1, <1>2, <1>3, <1>4, <1>5, <1>6, <1>7 DEF Next

LEMMA AlwaysGood == Spec => []GoodUntilFlush
<1>1. Init => GoodUntilFlush
  BY EmptyHierarchyFacts DEF Init, GoodUntilFlush
<1>2. GoodUntilFlush /\ [Next]_vars => GoodUntilFlush'
  BY StepsKeepGood
<1> QED BY <1>1, <1>2, PTL DEF Spec

(* L2 has every block that L1I or L1D has, until the flush takes blocks    *)
(* out of L2 (_insert_l2 and its callers, cache_hierarchy.py:61-134).      *)
THEOREM InclusionTheorem == Spec => []Inclusion
<1>1. GoodUntilFlush => Inclusion
  BY BlocksAssumption
     DEF GoodUntilFlush, GoodHierarchy, GoodCaches, Included, Inclusion, Blocks
<1> QED BY <1>1, AlwaysGood, PTL

-----------------------------------------------------------------------------
(* The types.                                                              *)
(* What a cache may hold of block x: words, and dirty only if x is data.   *)
Fit(x, d, y) == d \in [Cells -> Word] /\ y \in BOOLEAN /\ (y => x \in DataBlocks)
AllFit(g, c) == \A x \in Nat : \A d, y : Has(g, c, x, d, y) => Fit(x, d, y)

CacheTyped(g, c) == GoodCache(g, c) /\ AllFit(g, c)

(* The whole hierarchy; inclusion plays no part in it. *)
QueueTyped(k) ==
  /\ k.wb \in Seq(WriteBack) /\ k.active \in Seq(WriteBack)
  /\ k.busy \in 0..MemoryLatency /\ k.cost \in Nat
Typed(k) ==
  /\ IsHierarchy(k) /\ QueueTyped(k)
  /\ CacheTyped(L1I, k.l1i) /\ CacheTyped(L1D, k.l1d) /\ CacheTyped(L2, k.l2)

LEMMA LineFits ==
  ASSUME NEW g, IsConfig(g), NEW c, CacheTyped(g, c),
         NEW x \in Nat, Holds(g, c, x)
  PROVE  Fit(x, LineOf(g, c, x).data, LineOf(g, c, x).dirty)
<1> DEFINE d == LineOf(g, c, x).data
           y == LineOf(g, c, x).dirty
<1>1. Has(g, c, x, d, y)
  BY HasFacts DEF CacheTyped
<1> HIDE DEF d, y
<1>2. Fit(x, d, y)
  BY <1>1 DEF CacheTyped, AllFit
<1> QED BY <1>2 DEF d, y

LEMMA DirtyFits ==
  ASSUME NEW g, IsConfig(g), NEW c, CacheTyped(g, c),
         NEW x \in Nat, HoldsDirty(g, c, x)
  PROVE  x \in DataBlocks /\ LineOf(g, c, x).data \in [Cells -> Word]
BY LineFits DEF HoldsDirty, Fit

LEMMA AccessedFits ==
  ASSUME NEW g, IsConfig(g), NEW c, CacheTyped(g, c),
         NEW b \in Nat, Holds(g, c, b)
  PROVE  CacheTyped(g, Accessed(g, c, b))
<1>1. \A x \in Nat : \A d, y : Has(g, Accessed(g, c, b), x, d, y) <=> Has(g, c, x, d, y)
  BY AccessedHas DEF CacheTyped
<1> QED BY <1>1, AccessedFacts DEF CacheTyped, AllFit

LEMMA InvalidateFits ==
  ASSUME NEW g, IsConfig(g), NEW c, CacheTyped(g, c), NEW b \in Nat
  PROVE  CacheTyped(g, Invalidate(g, c, b))
<1>1. \A x \in Nat : \A d, y : Has(g, Invalidate(g, c, b), x, d, y) => Has(g, c, x, d, y)
  BY InvalidateHas DEF CacheTyped
<1> QED BY <1>1, InvalidateFacts DEF CacheTyped, AllFit

LEMMA InsertFits ==
  ASSUME NEW g, IsConfig(g), NEW c, CacheTyped(g, c), NEW b \in Nat,
         NEW data, NEW dirty, Fit(b, data, dirty)
  PROVE  CacheTyped(g, Insert(g, c, b, data, dirty))
<1>1. HasAfterInsert(g, c, b, data, dirty, Insert(g, c, b, data, dirty))
  BY InsertHas DEF CacheTyped
<1>2. GoodCache(g, Insert(g, c, b, data, dirty))
  BY InsertFacts DEF CacheTyped
<1> QED BY <1>1, <1>2 DEF CacheTyped, AllFit, HasAfterInsert

LEMMA EvictedFits ==
  ASSUME NEW g, IsConfig(g), NEW c, CacheTyped(g, c), NEW b \in Nat,
         MustEvict(g, c, b)
  PROVE  LET out == Evicted(g, c, b)
         IN out.block \in Nat /\ Fit(out.block, out.data, out.dirty)
<1> DEFINE out == Evicted(g, c, b)
<1>1. out.block \in Nat /\ Holds(g, c, out.block)
  BY EvictedFacts DEF CacheTyped
<1>2. out.data = LineOf(g, c, out.block).data /\ out.dirty = LineOf(g, c, out.block).dirty
  BY EvictedData DEF CacheTyped
<1> HIDE DEF out
<1>3. Fit(out.block, LineOf(g, c, out.block).data, LineOf(g, c, out.block).dirty)
  BY <1>1, LineFits
<1> QED BY <1>1, <1>2, <1>3 DEF out

LEMMA WriteFits ==
  ASSUME NEW g, IsConfig(g), NEW c, CacheTyped(g, c), NEW b \in Nat,
         b \in DataBlocks, NEW cell \in Cells, NEW value \in Values
  PROVE  CacheTyped(g, Write(g, c, b, cell, value))
<1> DEFINE data == LineOf(g, c, b).data
           new == [data EXCEPT ![cell] = value]
           after == Write(g, c, b, cell, value)
<1>1. CASE ~Holds(g, c, b)
  BY <1>1 DEF Write
<1>2. CASE Holds(g, c, b)
  <2>1. GoodCache(g, after) /\ HasAfterWrite(g, c, b, new, after)
    BY <1>2, WriteFacts, WriteHas DEF CacheTyped
  <2>2. data \in [Cells -> Word]
    BY <1>2, LineFits DEF Fit
  <2> HIDE DEF data, after
  <2>3. new \in [Cells -> Word]
    BY <2>2 DEF Word
  <2> HIDE DEF new
  <2>4. \A y : y = TRUE => Fit(b, new, y)
    BY <2>3 DEF Fit
  <2>5. AllFit(g, after)
    BY <2>1, <2>4 DEF CacheTyped, AllFit, HasAfterWrite
  <2> QED BY <2>1, <2>5 DEF CacheTyped, after
<1> QED BY <1>1, <1>2

LEMMA FlushFits ==
  ASSUME NEW g, IsConfig(g), NEW c, CacheTyped(g, c), NEW blocks
  PROVE  CacheTyped(g, InvalidateAll(g, c, blocks)) /\ CacheTyped(g, Cleaned(g, c))
<1> DEFINE i == InvalidateAll(g, c, blocks)
           n == Cleaned(g, c)
<1>1. /\ GoodCache(g, i)
      /\ \A x \in Nat : \A d, y : Has(g, i, x, d, y) => Has(g, c, x, d, y)
  BY InvalidateAllFacts DEF CacheTyped
<1>2. /\ GoodCache(g, n)
      /\ \A x \in Nat : \A d, y :
           Has(g, n, x, d, y) => y = FALSE /\ \E z : Has(g, c, x, d, z)
  BY CleanedFacts DEF CacheTyped
<1> HIDE DEF i, n
<1>3. CacheTyped(g, i)
  BY <1>1 DEF CacheTyped, AllFit
<1>4. CacheTyped(g, n)
  BY <1>2 DEF CacheTyped, AllFit, Fit
<1> QED BY <1>3, <1>4 DEF i, n

(* Insertions into L2 and its consequences (_insert_l2). *)
LEMMA CostTyped ==
  ASSUME NEW k, k.cost \in Nat, k.busy \in 0..MemoryLatency
  PROVE  k.cost + Penalty(k) \in Nat
BY ConfigAssumption DEF Penalty

LEMMA InsertL2Typed ==
  ASSUME NEW k, Typed(k), NEW b \in Nat, NEW data, NEW dirty, Fit(b, data, dirty)
  PROVE  Typed(InsertL2(k, b, data, dirty))
<1> DEFINE j == InsertL2(k, b, data, dirty)
           after == Insert(L2, k.l2, b, data, dirty)
           out == Evicted(L2, k.l2, b)
           x == out.block
           newer == LineOf(L1D, k.l1d, x).data
<1>1. /\ IsHierarchy(k) /\ QueueTyped(k)
      /\ CacheTyped(L1I, k.l1i) /\ CacheTyped(L1D, k.l1d) /\ CacheTyped(L2, k.l2)
      /\ IsConfig(L1I) /\ IsConfig(L1D) /\ IsConfig(L2)
  BY Configs DEF Typed
<1>2. InsertL2Leaves(k, b, data, dirty, j)
  BY <1>1, InsertL2Parts
<1> HIDE DEF j
<1>3. /\ IsHierarchy(j) /\ j.l2 = after
      /\ j.active = k.active /\ j.busy = k.busy
      /\ j.cost \in {k.cost, k.cost + Penalty(k)}
      /\ ~MustEvict(L2, k.l2, b) => j.l1i = k.l1i /\ j.l1d = k.l1d /\ j.wb = k.wb
      /\ MustEvict(L2, k.l2, b) =>
           /\ j.l1i = Invalidate(L1I, k.l1i, x) /\ j.l1d = Invalidate(L1D, k.l1d, x)
           /\ \/ j.wb = k.wb
              \/ HoldsDirty(L1D, k.l1d, x) /\ j.wb = Append(k.wb, [block |-> x, data |-> newer])
              \/ out.dirty /\ j.wb = Append(k.wb, [block |-> x, data |-> out.data])
  BY <1>2 DEF InsertL2Leaves
<1>4. CacheTyped(L2, after)
  BY <1>1, InsertFits
<1>5. MustEvict(L2, k.l2, b) => x \in Nat /\ Fit(x, out.data, out.dirty)
  BY <1>1, EvictedFits
<1> HIDE DEF out, x, after, newer
<1>6. CacheTyped(L1I, j.l1i) /\ CacheTyped(L1D, j.l1d) /\ CacheTyped(L2, j.l2)
  BY <1>1, <1>3, <1>4, <1>5, InvalidateFits
<1>7. j.wb \in Seq(WriteBack)
  <2>1. k.wb \in Seq(WriteBack)
    BY <1>1 DEF QueueTyped
  <2>2. MustEvict(L2, k.l2, b) /\ HoldsDirty(L1D, k.l1d, x) =>
          [block |-> x, data |-> newer] \in WriteBack
    BY <1>1, <1>5, DirtyFits DEF WriteBack, newer
  <2>3. MustEvict(L2, k.l2, b) /\ out.dirty =>
          [block |-> x, data |-> out.data] \in WriteBack
    BY <1>5 DEF WriteBack, Fit
  <2>4. \A w \in WriteBack : Append(k.wb, w) \in Seq(WriteBack)
    BY <2>1
  <2> QED BY <1>3, <2>1, <2>2, <2>3, <2>4
<1>8. QueueTyped(j)
  BY <1>1, <1>3, <1>7, CostTyped DEF QueueTyped
<1> QED BY <1>3, <1>6, <1>8 DEF Typed, j

(* One cache, or the cost, replaced. *)
LEMMA ReplacedTyped ==
  ASSUME NEW k, Typed(k), NEW c
  PROVE  /\ CacheTyped(L1I, c) => Typed([k EXCEPT !.l1i = c])
         /\ CacheTyped(L1D, c) => Typed([k EXCEPT !.l1d = c])
         /\ CacheTyped(L2, c) => Typed([k EXCEPT !.l2 = c])
<1>1. ASSUME NEW j, IsHierarchy(j), SameQueue(k, j), j.cost = k.cost
      PROVE  QueueTyped(j)
  BY <1>1 DEF SameQueue, Typed, QueueTyped
<1>2. ASSUME CacheTyped(L1I, c) PROVE Typed([k EXCEPT !.l1i = c])
  <2> DEFINE j == [k EXCEPT !.l1i = c]
  <2>1. /\ IsHierarchy(j) /\ j.l1i = c /\ j.l1d = k.l1d /\ j.l2 = k.l2
        /\ SameQueue(k, j) /\ j.cost = k.cost
    BY WithL1I DEF Typed
  <2> HIDE DEF j
  <2>2. Typed(j)
    BY <1>1, <1>2, <2>1 DEF Typed
  <2> QED BY <2>2 DEF j
<1>3. ASSUME CacheTyped(L1D, c) PROVE Typed([k EXCEPT !.l1d = c])
  <2> DEFINE j == [k EXCEPT !.l1d = c]
  <2>1. /\ IsHierarchy(j) /\ j.l1i = k.l1i /\ j.l1d = c /\ j.l2 = k.l2
        /\ SameQueue(k, j) /\ j.cost = k.cost
    BY WithL1D DEF Typed
  <2> HIDE DEF j
  <2>2. Typed(j)
    BY <1>1, <1>3, <2>1 DEF Typed
  <2> QED BY <2>2 DEF j
<1>4. ASSUME CacheTyped(L2, c) PROVE Typed([k EXCEPT !.l2 = c])
  <2> DEFINE j == [k EXCEPT !.l2 = c]
  <2>1. /\ IsHierarchy(j) /\ j.l1i = k.l1i /\ j.l1d = k.l1d /\ j.l2 = c
        /\ SameQueue(k, j) /\ j.cost = k.cost
    BY WithL2 DEF Typed
  <2> HIDE DEF j
  <2>2. Typed(j)
    BY <1>1, <1>4, <2>1 DEF Typed
  <2> QED BY <2>2 DEF j
<1> QED BY <1>2, <1>3, <1>4

LEMMA CostReplacedTyped ==
  ASSUME NEW k, Typed(k), NEW x \in Nat
  PROVE  LET j == [k EXCEPT !.cost = x]
         IN Typed(j) /\ SameCaches(k, j) /\ j.cost = x
<1> DEFINE r == [l1i |-> k.l1i, l1d |-> k.l1d, l2 |-> k.l2,
                 wb |-> k.wb, active |-> k.active, busy |-> k.busy, cost |-> k.cost]
           j == [r EXCEPT !.cost = x]
<1>1. /\ IsHierarchy(j) /\ SameCaches(k, j) /\ SameQueue(k, j) /\ j.cost = x
  BY DEF IsHierarchy, SameCaches, SameQueue
<1>2. k = r
  BY DEF Typed, IsHierarchy
<1> HIDE DEF r
<1>3. [k EXCEPT !.cost = x] = j
  BY <1>2
<1> HIDE DEF j
<1>4. Typed(j)
  BY <1>1 DEF Typed, QueueTyped, SameCaches, SameQueue
<1> QED BY <1>1, <1>3, <1>4

(* L1.insert, with the victim's way to L2. *)
LEMMA FillL1Typed ==
  ASSUME NEW k, Typed(k), NEW l \in {"l1i", "l1d"}, NEW b \in Nat,
         NEW data, Fit(b, data, FALSE)
  PROVE  Typed(FillL1(k, l, b, data))
<1> DEFINE g == L1(l)
           c == k[l]
           after == Insert(g, c, b, data, FALSE)
           k1 == [k EXCEPT ![l] = after]
           out == Evicted(g, c, b)
<1>1. \/ FillL1(k, l, b, data) = k1
      \/ /\ MustEvict(g, c, b) /\ out.dirty
         /\ FillL1(k, l, b, data) = InsertL2(k1, out.block, out.data, TRUE)
  BY DEF FillL1
<1>2. /\ IsConfig(g) /\ CacheTyped(g, c)
      /\ l = "l1i" => g = L1I
      /\ l = "l1d" => g = L1D
  BY Configs DEF L1, Typed
<1> HIDE DEF g, c
<1>3. CacheTyped(g, after)
  BY <1>2, InsertFits
<1>4. MustEvict(g, c, b) => out.block \in Nat /\ Fit(out.block, out.data, out.dirty)
  BY <1>2, EvictedFits
<1> HIDE DEF after, out
<1>5. Typed(k1)
  <2>1. CASE l = "l1i"
    BY <1>2, <1>3, <2>1, ReplacedTyped
  <2>2. CASE l = "l1d"
    BY <1>2, <1>3, <2>2, ReplacedTyped
  <2> QED BY <2>1, <2>2
<1> HIDE DEF k1
<1>6. ASSUME MustEvict(g, c, b), out.dirty
      PROVE  Typed(InsertL2(k1, out.block, out.data, TRUE))
  <2>1. Fit(out.block, out.data, TRUE)
    BY <1>4, <1>6 DEF Fit
  <2> QED BY <1>4, <1>5, <1>6, <2>1, InsertL2Typed
<1> QED BY <1>1, <1>5, <1>6

LEMMA EnsuredTyped ==
  ASSUME NEW k, Typed(k), NEW l \in {"l1i", "l1d"}, NEW b \in Nat,
         NEW behind, Fit(b, behind, FALSE)
  PROVE  Typed(Ensured(k, l, b, behind))
<1> DEFINE atL1 == [k EXCEPT !.cost = L1(l).latency]
           atL2 == [k EXCEPT !.cost = L1(l).latency + L2.latency]
           atMem == [k EXCEPT !.cost = L1(l).latency + L2.latency + MemoryLatency]
           found == LineOf(L2, k.l2, b).data
           hit == [atL2 EXCEPT !.l2 = Accessed(L2, atL2.l2, b)]
           after == Ensured(k, l, b, behind)
<1>1. \/ Holds(L1(l), k[l], b) /\ after = [atL1 EXCEPT ![l] = Accessed(L1(l), atL1[l], b)]
      \/ Holds(L2, k.l2, b) /\ after = FillL1(hit, l, b, found)
      \/ after = FillL1(InsertL2(atMem, b, behind, FALSE), l, b, behind)
  BY Zenon DEF Ensured
<1>2. /\ Typed(atL1) /\ SameCaches(k, atL1)
      /\ Typed(atL2) /\ SameCaches(k, atL2)
      /\ Typed(atMem)
  <2>1. L1(l).latency \in Nat /\ L2.latency \in Nat /\ MemoryLatency \in Nat
    BY ConfigAssumption DEF Config, L1
  <2> QED BY <2>1, CostReplacedTyped
<1> HIDE DEF atL1, atL2, atMem, after
<1>3. CASE Holds(L1(l), k[l], b) /\ after = [atL1 EXCEPT ![l] = Accessed(L1(l), atL1[l], b)]
  <2>1. CASE l = "l1i"
    <3>1. Holds(L1I, atL1.l1i, b) /\ after = [atL1 EXCEPT !.l1i = Accessed(L1I, atL1.l1i, b)]
      BY <1>2, <1>3, <2>1 DEF L1, SameCaches
    <3>2. CacheTyped(L1I, Accessed(L1I, atL1.l1i, b))
      BY <1>2, <3>1, Configs, AccessedFits DEF Typed
    <3>3. Typed([atL1 EXCEPT !.l1i = Accessed(L1I, atL1.l1i, b)])
      BY <1>2, <3>2, ReplacedTyped
    <3> QED BY <3>1, <3>3 DEF after
  <2>2. CASE l = "l1d"
    <3>1. Holds(L1D, atL1.l1d, b) /\ after = [atL1 EXCEPT !.l1d = Accessed(L1D, atL1.l1d, b)]
      BY <1>2, <1>3, <2>2 DEF L1, SameCaches
    <3>2. CacheTyped(L1D, Accessed(L1D, atL1.l1d, b))
      BY <1>2, <3>1, Configs, AccessedFits DEF Typed
    <3>3. Typed([atL1 EXCEPT !.l1d = Accessed(L1D, atL1.l1d, b)])
      BY <1>2, <3>2, ReplacedTyped
    <3> QED BY <3>1, <3>3 DEF after
  <2> QED BY <2>1, <2>2
<1>4. CASE Holds(L2, k.l2, b) /\ after = FillL1(hit, l, b, found)
  <2>1. CacheTyped(L2, k.l2) /\ Holds(L2, atL2.l2, b)
    BY <1>2, <1>4 DEF SameCaches, Typed
  <2>2. Fit(b, found, FALSE)
    BY <1>4, <2>1, Configs, LineFits DEF Fit
  <2>3. CacheTyped(L2, Accessed(L2, atL2.l2, b))
    BY <1>2, <2>1, Configs, AccessedFits DEF Typed
  <2>4. Typed(hit)
    BY <1>2, <2>3, ReplacedTyped
  <2> HIDE DEF hit, found
  <2>5. Typed(FillL1(hit, l, b, found))
    BY <2>2, <2>4, FillL1Typed
  <2> QED BY <1>4, <2>5 DEF after
<1>5. CASE after = FillL1(InsertL2(atMem, b, behind, FALSE), l, b, behind)
  <2> DEFINE j == InsertL2(atMem, b, behind, FALSE)
  <2>1. Typed(j)
    BY <1>2, InsertL2Typed
  <2> HIDE DEF j
  <2>2. after = FillL1(j, l, b, behind)
    BY <1>5 DEF j
  <2>3. Typed(FillL1(j, l, b, behind))
    BY <2>1, FillL1Typed
  <2> QED BY <2>2, <2>3 DEF after
<1> HIDE DEF hit, found
<1> QED BY <1>1, <1>3, <1>4, <1>5 DEF after

LEMMA StoredTyped ==
  ASSUME NEW k, Typed(k), NEW b \in DataBlocks, NEW behind, Fit(b, behind, FALSE),
         NEW cell \in Cells, NEW value \in Values
  PROVE  Typed(Stored(k, b, behind, cell, value))
<1> DEFINE j == Ensured(k, "l1d", b, behind)
           c == Write(L1D, j.l1d, b, cell, value)
           after == [j EXCEPT !.l1d = c]
<1>0. b \in Nat
  BY BlocksAssumption
<1>1. Stored(k, b, behind, cell, value) = after
  BY DEF Stored
<1>2. Typed(j)
  BY <1>0, EnsuredTyped
<1> HIDE DEF j
<1>3. CacheTyped(L1D, c)
  BY <1>0, <1>2, Configs, WriteFits DEF Typed
<1> HIDE DEF c
<1>4. Typed(after)
  BY <1>2, <1>3, ReplacedTyped
<1> QED BY <1>1, <1>4

(* The controller's tick. *)
LEMMA TickTyped ==
  ASSUME NEW k, Typed(k)
  PROVE  Typed(Ticked(k)) /\ Ticked(k).cost = k.cost
<1> DEFINE r == Rested(k)
<1>1. /\ IsHierarchy(k) /\ QueueTyped(k) /\ MemoryLatency \in Nat
      /\ CacheTyped(L1I, k.l1i) /\ CacheTyped(L1D, k.l1d) /\ CacheTyped(L2, k.l2)
  BY ConfigAssumption DEF Typed
<1>2. /\ IsHierarchy(r) /\ SameCaches(k, r) /\ r.wb = k.wb /\ r.cost = k.cost
      /\ r.active = IF Completes(k) THEN << >> ELSE k.active
      /\ r.busy = IF k.busy > 0 THEN k.busy - 1 ELSE 0
  BY <1>1, RestedFacts
<1> HIDE DEF r
<1>3. QueueTyped(r)
  <2>1. r.busy \in 0..MemoryLatency
    BY <1>1, <1>2 DEF QueueTyped
  <2>2. r.active \in Seq(WriteBack)
    BY <1>1, <1>2 DEF QueueTyped
  <2> QED BY <1>1, <1>2, <2>1, <2>2 DEF QueueTyped
<1> DEFINE j == Started(r)
<1>4. /\ IsHierarchy(j) /\ SameCaches(r, j) /\ j.cost = r.cost
      /\ IF r.busy = 0 /\ r.wb # << >>
           THEN /\ j.active = <<Head(r.wb)>> /\ j.wb = Tail(r.wb)
                /\ j.busy = MemoryLatency
           ELSE j = r
  BY <1>2, StartedFacts
<1>5. Ticked(k) = j
  BY DEF Ticked, r
<1> HIDE DEF j
<1>6. QueueTyped(j)
  <2>0. r.wb \in Seq(WriteBack) /\ j.cost \in Nat
    BY <1>3, <1>4 DEF QueueTyped
  <2>1. CASE r.busy = 0 /\ r.wb # << >>
    <3>1. Head(r.wb) \in WriteBack /\ Tail(r.wb) \in Seq(WriteBack)
      BY <2>0, <2>1
    <3>2. <<Head(r.wb)>> \in Seq(WriteBack)
      BY <3>1
    <3>3. j.active \in Seq(WriteBack) /\ j.wb \in Seq(WriteBack)
      BY <1>4, <2>1, <3>1, <3>2
    <3>4. j.busy \in 0..MemoryLatency
      BY <1>1, <1>4, <2>1
    <3> QED BY <2>0, <3>3, <3>4 DEF QueueTyped
  <2>2. CASE ~(r.busy = 0 /\ r.wb # << >>)
    BY <1>3, <1>4, <2>2
  <2> QED BY <2>1, <2>2
<1> QED BY <1>1, <1>2, <1>4, <1>5, <1>6 DEF Typed, SameCaches

(* flush_all leaves typed caches and an idle controller. *)
LEMMA FlushTyped ==
  ASSUME NEW k, Typed(k)
  PROVE  LET j == Flushed(k)
         IN /\ Typed(j) /\ j.cost = k.cost /\ j.l1i = k.l1i
            /\ \A x \in Nat : \A d, y :
                 Has(L2, j.l2, x, d, y) => \E z : Has(L2, k.l2, x, d, z)
<1> DEFINE written == {d.block : d \in DirtyLines(L1D, k.l1d)}
           c1 == Cleaned(L1D, k.l1d)
           kept == InvalidateAll(L2, k.l2, written)
           c2 == Cleaned(L2, kept)
           r == [l1i |-> k.l1i, l1d |-> k.l1d, l2 |-> k.l2,
                 wb |-> k.wb, active |-> k.active, busy |-> k.busy, cost |-> k.cost]
           j == [l1i |-> k.l1i, l1d |-> c1, l2 |-> c2,
                 wb |-> << >>, active |-> << >>, busy |-> 0, cost |-> k.cost]
<1>1. k = r /\ MemoryLatency \in Nat
  BY ConfigAssumption DEF Typed, IsHierarchy
<1>2. Flushed(k) = [k EXCEPT !.l1d = c1, !.l2 = c2,
                             !.wb = << >>, !.active = << >>, !.busy = 0]
  BY Zenon DEF Flushed
<1>3. CacheTyped(L1D, c1)
  BY Configs, FlushFits DEF Typed
<1>4. CacheTyped(L2, kept)
  BY Configs, FlushFits DEF Typed
<1>5. \A x \in Nat : \A d, y : Has(L2, kept, x, d, y) => Has(L2, k.l2, x, d, y)
  BY Configs, InvalidateAllFacts DEF Typed, CacheTyped
<1> HIDE DEF kept, c1
<1>6. CacheTyped(L2, c2)
  BY <1>4, Configs, FlushFits
<1>7. \A x \in Nat : \A d, y : Has(L2, c2, x, d, y) => \E z : Has(L2, kept, x, d, z)
  BY <1>4, Configs, CleanedFacts DEF CacheTyped
<1> HIDE DEF c2
<1>8. [r EXCEPT !.l1d = c1, !.l2 = c2, !.wb = << >>, !.active = << >>, !.busy = 0] = j
  <2> DEFINE r1 == [l1i |-> k.l1i, l1d |-> c1, l2 |-> k.l2,
                    wb |-> k.wb, active |-> k.active, busy |-> k.busy, cost |-> k.cost]
             r2 == [l1i |-> k.l1i, l1d |-> c1, l2 |-> c2,
                    wb |-> k.wb, active |-> k.active, busy |-> k.busy, cost |-> k.cost]
             r3 == [l1i |-> k.l1i, l1d |-> c1, l2 |-> c2,
                    wb |-> << >>, active |-> k.active, busy |-> k.busy, cost |-> k.cost]
             r4 == [l1i |-> k.l1i, l1d |-> c1, l2 |-> c2,
                    wb |-> << >>, active |-> << >>, busy |-> k.busy, cost |-> k.cost]
  <2>1. [r EXCEPT !.l1d = c1] = r1 /\ [r1 EXCEPT !.l2 = c2] = r2
    OBVIOUS
  <2>2. [r2 EXCEPT !.wb = << >>] = r3 /\ [r3 EXCEPT !.active = << >>] = r4
    OBVIOUS
  <2>3. [r4 EXCEPT !.busy = 0] = j
    OBVIOUS
  <2> HIDE DEF r, r1, r2, r3, r4, j
  <2> QED BY <2>1, <2>2, <2>3
<1> HIDE DEF r
<1>9. Flushed(k) = j
  BY <1>1, <1>2, <1>8
<1>10. QueueTyped(j)
  BY <1>1 DEF QueueTyped, Typed
<1>11. IsHierarchy(j) /\ j.l1i = k.l1i /\ j.l1d = c1 /\ j.l2 = c2 /\ j.cost = k.cost
  BY DEF IsHierarchy
<1> HIDE DEF j
<1>12. Typed(j)
  BY <1>3, <1>6, <1>10, <1>11 DEF Typed
<1>13. \A x \in Nat : \A d, y :
        Has(L2, j.l2, x, d, y) => \E z : Has(L2, k.l2, x, d, z)
  BY <1>5, <1>11, <1>7
<1> QED BY <1>9, <1>11, <1>12, <1>13

LEMMA FlushWritesSeq ==
  ASSUME NEW k, Typed(k)
  PROVE  IsSeq(FlushWrites(k))
<1> DEFINE d == DirtyLines(L1D, k.l1d)
           l == L2LinesLeft(k)
<1>1. IsFiniteSet(d) /\ IsFiniteSet(DirtyLines(L2, k.l2))
  BY Configs, DirtyLinesFinite DEF Typed, CacheTyped
<1>2. IsFiniteSet(l)
  BY <1>1, FS_Subset DEF L2LinesLeft
<1>3. IsSeq(k.wb) /\ IsSeq(k.active)
  BY DEF Typed, QueueTyped, IsSeq
<1> HIDE DEF d, l
<1>4. IsSeq(SetToSeq(d)) /\ IsSeq(SetToSeq(l))
  BY <1>1, <1>2, SetWaits
<1>5. IsSeq(((k.wb \o SetToSeq(d)) \o SetToSeq(l)) \o k.active)
  BY <1>3, <1>4, JoinedWaits
<1> QED BY <1>5 DEF FlushWrites, d, l

(* The invariant that gives every structure its type, to the end. *)
TypeInv ==
  /\ Typed(h) /\ h.cost = 0
  /\ mem \in [DataBlocks -> Block]
  /\ wait \in [load : Nat, drain : Nat]

LEMMA TakesTyped ==
  ASSUME NEW after, Typed(after), Takes(after)
  PROVE  Typed(h') /\ h'.cost = 0
BY CostReplacedTyped DEF Takes

LEMMA BehindFits ==
  ASSUME TypeInv
  PROVE  /\ \A b \in DataBlocks : Fit(b, mem[b], FALSE)
         /\ \A b \in DOMAIN Program : Fit(b, Program[b], FALSE)
<1>1. \A b \in DataBlocks : mem[b] \in [Cells -> Word]
  BY DEF TypeInv, Block, Word
<1>2. \A b \in DOMAIN Program : Program[b] \in [Cells -> Word]
  BY BlocksAssumption DEF Word
<1> QED BY <1>1, <1>2 DEF Fit

LEMMA CostNat ==
  ASSUME NEW k, Typed(k)
  PROVE  k.cost \in Nat
BY DEF Typed, QueueTyped

LEMMA StepsKeepTypes ==
  ASSUME TypeInv, [Next]_vars
  PROVE  TypeInv'
<1>0. /\ Typed(h) /\ h.cost = 0 /\ mem \in [DataBlocks -> Block]
      /\ wait \in [load : Nat, drain : Nat]
  BY DEF TypeInv
<1>1. ASSUME NEW b \in DataBlocks, NEW c \in Cells, Load(b, c)
      PROVE  TypeInv'
  <2> DEFINE after == Ensured(h, "l1d", b, mem[b])
  <2>1. Takes(after) /\ wait' = [wait EXCEPT !.load = after.cost] /\ mem' = mem
    BY <1>1 DEF Load
  <2>2. Typed(after)
    BY <1>0, BehindFits, BlocksAssumption, EnsuredTyped
  <2> HIDE DEF after
  <2>3. Typed(h') /\ h'.cost = 0
    BY <2>1, <2>2, TakesTyped
  <2>4. wait' \in [load : Nat, drain : Nat]
    BY <1>0, <2>1, <2>2, CostNat
  <2> QED BY <1>0, <2>1, <2>3, <2>4 DEF TypeInv, Block
<1>2. ASSUME NEW b \in DataBlocks, NEW c \in Cells, NEW value \in Values, Drain(b, c, value)
      PROVE  TypeInv'
  <2> DEFINE after == Stored(h, b, mem[b], c, value)
  <2>1. /\ Takes(after) /\ mem' = mem
        /\ wait' = [wait EXCEPT !.drain = after.cost] \/ wait' = wait
    BY <1>2 DEF Drain
  <2>2. Typed(after)
    BY <1>0, BehindFits, StoredTyped
  <2> HIDE DEF after
  <2>3. Typed(h') /\ h'.cost = 0
    BY <2>1, <2>2, TakesTyped
  <2>4. wait' \in [load : Nat, drain : Nat]
    BY <1>0, <2>1, <2>2, CostNat
  <2> QED BY <1>0, <2>1, <2>3, <2>4 DEF TypeInv, Block
<1>3. ASSUME NEW b \in DOMAIN Program, Fetch(b)
      PROVE  TypeInv'
  <2> DEFINE after == Ensured(h, "l1i", b, Program[b])
  <2>1. Takes(after) /\ wait' = wait /\ mem' = mem
    BY <1>3 DEF Fetch
  <2>2. Typed(after)
    BY <1>0, BehindFits, BlocksAssumption, EnsuredTyped
  <2> HIDE DEF after
  <2>3. Typed(h') /\ h'.cost = 0
    BY <2>1, <2>2, TakesTyped
  <2> QED BY <1>0, <2>1, <2>3 DEF TypeInv, Block
<1>4. ASSUME Tick PROVE TypeInv'
  <2>1. /\ h' = Ticked(h) /\ mem' = MemoryAfterTick(h, mem)
        /\ wait' = [load |-> CountedDown(wait.load), drain |-> CountedDown(wait.drain)]
    BY <1>4 DEF Tick
  <2>2. Typed(h') /\ h'.cost = 0
    BY <1>0, <2>1, TickTyped
  <2>3. IsSeq(h.active)
    BY <1>0 DEF Typed, QueueTyped, IsSeq
  <2>4. mem' \in [DataBlocks -> Block]
    BY <1>0, <2>1, <2>3, WrittenType DEF MemoryAfterTick
  <2>5. wait' \in [load : Nat, drain : Nat]
    BY <1>0, <2>1 DEF CountedDown
  <2> QED BY <2>2, <2>4, <2>5 DEF TypeInv, Block
<1>5. ASSUME LoopEnds PROVE TypeInv'
  BY <1>0, <1>5 DEF LoopEnds, TypeInv, Block
<1>6. ASSUME FlushAll PROVE TypeInv'
  <2>1. h' = Flushed(h) /\ mem' = WrittenAll(mem, FlushWrites(h)) /\ wait' = wait
    BY <1>6 DEF FlushAll
  <2>2. Typed(h') /\ h'.cost = 0
    BY <1>0, <2>1, FlushTyped
  <2>3. mem' \in [DataBlocks -> Block]
    BY <1>0, <2>1, FlushWritesSeq, WrittenType
  <2> QED BY <1>0, <2>1, <2>2, <2>3 DEF TypeInv, Block
<1>7. ASSUME UNCHANGED vars PROVE TypeInv'
  BY <1>0, <1>7 DEF vars, TypeInv, Block
<1> QED BY <1>1, <1>2, <1>3, <1>4, <1>5, <1>6, <1>7 DEF Next

LEMMA InitialTypes == Init => TypeInv
<1> SUFFICES ASSUME Init PROVE TypeInv
  OBVIOUS
<1>1. /\ h = EmptyHierarchy /\ wait = [load |-> 0, drain |-> 0]
      /\ mem = [b \in DataBlocks |-> [c \in Cells |-> Zero]]
  BY DEF Init
<1>2. ASSUME NEW g, IsConfig(g) PROVE CacheTyped(g, EmptyCache(g))
  <2>1. /\ GoodCache(g, EmptyCache(g))
        /\ \A x \in Nat : ~Holds(g, EmptyCache(g), x)
    BY <1>2, EmptyFacts
  <2>2. \A x \in Nat : \A d, y : ~Has(g, EmptyCache(g), x, d, y)
    BY <1>2, <2>1, HasFacts
  <2> QED BY <2>1, <2>2 DEF CacheTyped, AllFit
<1>3. /\ h.l1i = EmptyCache(L1I) /\ h.l1d = EmptyCache(L1D) /\ h.l2 = EmptyCache(L2)
      /\ h.wb = << >> /\ h.active = << >> /\ h.busy = 0 /\ h.cost = 0 /\ IsHierarchy(h)
  BY <1>1 DEF EmptyHierarchy, IsHierarchy
<1>4. QueueTyped(h)
  BY <1>3, ConfigAssumption DEF QueueTyped
<1>5. Typed(h)
  BY <1>2, <1>3, <1>4, Configs DEF Typed
<1>6. mem \in [DataBlocks -> Block]
  BY <1>1, ValuesAssumption DEF Block
<1> QED BY <1>1, <1>3, <1>5, <1>6 DEF TypeInv

LEMMA AlwaysTyped == Spec => []TypeInv
<1>1. TypeInv /\ [Next]_vars => TypeInv'
  BY StepsKeepTypes
<1> QED BY InitialTypes, <1>1, PTL DEF Spec

LEMMA CacheIsOK ==
  ASSUME NEW g, IsConfig(g), NEW c, CacheTyped(g, c)
  PROVE  CacheOK(g, c)
<1>1. DOMAIN c = SetNumbers(g) /\ \A i \in SetNumbers(g) : GoodSet(Ways(g), c[i])
  BY DEF CacheTyped, GoodCache
<1>2. ASSUME NEW i \in SetNumbers(g), NEW w \in DOMAIN c[i].lines
      PROVE  c[i].lines[w] \in Line(g)
  <2> DEFINE l == c[i].lines[w]
             x == BlockAt(g, l.tag, i)
  <2>1. IsLine(l) /\ Entry(l) \in Entries(c[i].lines)
    BY <1>1, <1>2 DEF GoodSet, GoodLines, Entries
  <2> HIDE DEF l
  <2>2. x \in Nat /\ Tag(g, x) = l.tag /\ Index(g, x) = i
    BY <2>1, BlockAtFacts DEF IsLine
  <2> HIDE DEF x
  <2>3. Has(g, c, x, l.data, l.dirty)
    BY <2>1, <2>2 DEF Has, Entry
  <2>4. Fit(x, l.data, l.dirty)
    BY <2>2, <2>3 DEF CacheTyped, AllFit
  <2>5. l.data \in [Cells -> Word] /\ l.dirty \in BOOLEAN
    BY <2>4 DEF Fit
  <2>6. l = [tag |-> l.tag, data |-> l.data, dirty |-> l.dirty, uses |-> l.uses]
        /\ l.tag \in Nat /\ l.uses \in Nat
    BY <2>1 DEF IsLine
  <2>7. l \in Line(g)
    BY <2>5, <2>6 DEF Line
  <2> QED BY <2>7 DEF l
<1>3. ASSUME NEW i \in SetNumbers(g)
      PROVE  /\ c[i].lines \in [DOMAIN c[i].lines -> Line(g)]
             /\ DOMAIN c[i].lines \subseteq Ways(g)
             /\ c[i].order \in Seq(Ways(g))
  <2>1. c[i].lines = [w \in DOMAIN c[i].lines |-> c[i].lines[w]]
    BY <1>1 DEF GoodSet, GoodLines
  <2> QED BY <1>1, <1>2, <2>1 DEF GoodSet, GoodLines, ListOf
<1> QED BY <1>1, <1>3 DEF CacheOK

(* Every structure holds what its class says it holds, from the first      *)
(* access to after the flush; a line is dirty only if the program stores   *)
(* to its block.                                                           *)
THEOREM TypeTheorem == Spec => []TypeOK
<1>1. TypeInv => TypeOK
  BY Configs, CacheIsOK DEF TypeInv, Typed, QueueTyped, TypeOK
<1> QED BY <1>1, AlwaysTyped, PTL

(* Each recency list is the valid lines of its set, each once, and no tag  *)
(* is in a set twice: find_line and get_victim return the line they should *)
(* (cache.py:41-56, 72-76, 172-205), after the flush as well.              *)
LEMMA TrackedFacts ==
  ASSUME NEW g, NEW c, GoodCache(g, c)
  PROVE  LinesTracked(g, c)
<1>1. /\ DOMAIN c = SetNumbers(g)
      /\ \A i \in SetNumbers(g) : GoodSet(Ways(g), c[i])
  BY DEF GoodCache
<1> QED BY <1>1 DEF LinesTracked, GoodSet, GoodLines, ListOf

THEOREM TrackedTheorem == Spec => []AllLinesTracked
<1>1. TypeInv => AllLinesTracked
  BY TrackedFacts DEF TypeInv, Typed, CacheTyped, AllLinesTracked
<1> QED BY <1>1, AlwaysTyped, PTL

-----------------------------------------------------------------------------
(* The data.                                                               *)
(* The invariant, of the blocks whose story it tells. *)
DataInv ==
  /\ Ready(h)
  /\ mem \in [DataBlocks -> Block] /\ latest \in [DataBlocks -> Block]
  /\ \A x \in Nat : Holds(L1D, h.l1d, x) => x \in DataBlocks
  /\ \A x \in DataBlocks : Agrees(h, x)
  /\ \A x \in PureData \ overtaken : Sound(h, mem[x], x, latest[x])
  /\ \A x \in PureCode : CodeIs(h, x, Program[x])
DataUntilFlush == phase # "flushed" => DataInv

LEMMA TakesKeeps ==
  ASSUME NEW after, Ready(after), Takes(after)
  PROVE  /\ Ready(h')
         /\ \A x \in Nat : \A y, v, p :
              /\ Sound(after, y, x, v) => Sound(h', y, x, v)
              /\ Agrees(after, x) => Agrees(h', x)
              /\ CodeIs(after, x, p) => CodeIs(h', x, p)
              /\ Holds(L1D, h'.l1d, x) => Holds(L1D, after.l1d, x)
<1>1. h' = [after EXCEPT !.cost = 0]
  BY DEF Takes
<1>2. Ready(h') /\ \A x \in Nat : SameFor(after, h', x)
  BY <1>1, CostFacts
<1> QED BY <1>2, SameForFacts DEF Ready, SameFor, Same

LEMMA WaitingFacts ==
  ASSUME NEW b, ~Waiting(b)
  PROVE  \A d : ~Queued(h, b, d)
BY DEF Waiting, Queued, WaitsIn

LEMMA LoadKeepsData ==
  ASSUME DataInv, NEW b \in DataBlocks, NEW c \in Cells, Load(b, c)
  PROVE  DataInv'
<1> DEFINE after == Ensured(h, "l1d", b, mem[b])
<1>1. Takes(after) /\ Overtakes(b) /\ mem' = mem /\ latest' = latest
  BY DEF Load
<1>2. /\ Ready(h) /\ b \in Nat /\ DataBlocks \subseteq Nat /\ DOMAIN Program \subseteq Nat
      /\ PureData \subseteq DataBlocks /\ PureCode \subseteq Nat
      /\ \A x \in PureCode : x \notin DataBlocks
  BY BlocksAssumption DEF DataInv, PureData, PureCode
<1>3. /\ Ready(after)
      /\ \A x \in Nat : \A y, v, p : DataKeeps(h, b, mem[b], after, x, y, v, p)
  BY <1>2, EnsuredL1DKeeps
<1> HIDE DEF after
<1>4. Ready(h')
  BY <1>1, <1>3, TakesKeeps
<1>5. \A x \in Nat : \A y, v, p :
        /\ Sound(after, y, x, v) => Sound(h', y, x, v)
        /\ Agrees(after, x) => Agrees(h', x)
        /\ CodeIs(after, x, p) => CodeIs(h', x, p)
        /\ Holds(L1D, h'.l1d, x) => Holds(L1D, after.l1d, x)
  BY <1>1, <1>3, TakesKeeps
<1>6. (\A x \in Nat : Holds(L1D, h.l1d, x) => x \in DataBlocks)'
  BY <1>3, <1>5 DEF DataInv, DataKeeps
<1>7. (\A x \in DataBlocks : Agrees(h, x))'
  BY <1>2, <1>3, <1>5 DEF DataInv, DataKeeps
<1>8. ASSUME NEW x \in PureData \ overtaken'
      PROVE  Sound(h', mem[x], x, latest[x])
  <2>1. x \notin overtaken /\ (x = b /\ Misses(h, "l1d", b) => ~Waiting(b))
    BY <1>1, <1>8 DEF Overtakes
  <2>2. Sound(h, mem[x], x, latest[x])
    BY <1>8, <2>1 DEF DataInv
  <2>3. x = b /\ Misses(h, "l1d", b) => \A d : ~Queued(h, b, d)
    BY <2>1, WaitingFacts
  <2>4. DataKeeps(h, b, mem[b], after, x, mem[x], latest[x], Zero)
    BY <1>2, <1>3, <1>8
  <2>5. x = b /\ Misses(h, "l1d", b) => mem[b] = mem[x] /\ \A d : ~Queued(h, b, d)
    BY <2>3
  <2>6. Sound(after, mem[x], x, latest[x])
    BY <2>2, <2>4, <2>5 DEF DataKeeps
  <2> QED BY <1>2, <1>5, <1>8, <2>6
<1>9. ASSUME NEW x \in PureCode
      PROVE  CodeIs(h', x, Program[x])
  <2>1. CodeIs(h, x, Program[x]) /\ ~Holds(L1D, h.l1d, x) /\ x # b
    BY <1>2, <1>9 DEF DataInv
  <2>2. CodeIs(after, x, Program[x])
    BY <1>2, <1>3, <1>9, <2>1 DEF DataKeeps
  <2> QED BY <1>2, <1>5, <1>9, <2>2
<1>10. (\A x \in PureData \ overtaken : Sound(h, mem[x], x, latest[x]))'
  BY <1>1, <1>8 DEF PureData
<1>11. (\A x \in PureCode : CodeIs(h, x, Program[x]))'
  BY <1>9 DEF PureCode
<1> QED BY <1>1, <1>4, <1>6, <1>7, <1>10, <1>11 DEF DataInv

LEMMA DrainKeepsData ==
  ASSUME DataInv, NEW b \in DataBlocks, NEW c \in Cells, NEW value \in Values,
         Drain(b, c, value)
  PROVE  DataInv'
<1> DEFINE after == Stored(h, b, mem[b], c, value)
           now(x) == IF x = b THEN [latest[x] EXCEPT ![c] = value] ELSE latest[x]
<1>1. Takes(after) /\ Overtakes(b) /\ mem' = mem
  BY DEF Drain
<1>2. /\ Ready(h) /\ b \in Nat /\ DataBlocks \subseteq Nat /\ DOMAIN Program \subseteq Nat
      /\ PureData \subseteq DataBlocks /\ PureCode \subseteq Nat
      /\ \A x \in PureCode : x \notin DataBlocks
      /\ latest \in [DataBlocks -> Block]
  BY BlocksAssumption DEF DataInv, PureData, PureCode
<1>3. latest' \in [DataBlocks -> Block] /\ \A x \in DataBlocks : latest'[x] = now(x)
  <2>1. latest' = [latest EXCEPT ![b] = [latest[b] EXCEPT ![c] = value]]
    BY DEF Drain
  <2>2. [latest[b] EXCEPT ![c] = value] \in Block
    BY <1>2 DEF Block
  <2> QED BY <1>2, <2>1, <2>2
<1>4. /\ Ready(after)
      /\ \A x \in Nat : \A y, v, p :
           StoreKeeps(h, b, mem[b], c, value, after, x, y, v, p)
  BY <1>2, StoredKeeps
<1>5. ASSUME NEW x \in PureData \ overtaken'
      PROVE  Sound(after, mem[x], x, now(x))
  <2>1. x \notin overtaken /\ (x = b /\ Misses(h, "l1d", b) => ~Waiting(b))
    BY <1>1, <1>5 DEF Overtakes
  <2>2. Sound(h, mem[x], x, latest[x])
    BY <1>5, <2>1 DEF DataInv
  <2>3. x = b /\ Misses(h, "l1d", b) => mem[b] = mem[x] /\ \A d : ~Queued(h, b, d)
    BY <2>1, WaitingFacts
  <2>4. StoreKeeps(h, b, mem[b], c, value, after, x, mem[x], latest[x], Zero)
    BY <1>2, <1>4, <1>5
  <2> QED BY <2>2, <2>3, <2>4 DEF StoreKeeps
<1> HIDE DEF after, now
<1>6. Ready(h')
  BY <1>1, <1>4, TakesKeeps
<1>7. \A x \in Nat : \A y, v, p :
        /\ Sound(after, y, x, v) => Sound(h', y, x, v)
        /\ Agrees(after, x) => Agrees(h', x)
        /\ CodeIs(after, x, p) => CodeIs(h', x, p)
        /\ Holds(L1D, h'.l1d, x) => Holds(L1D, after.l1d, x)
  BY <1>1, <1>4, TakesKeeps
<1>8. (\A x \in Nat : Holds(L1D, h.l1d, x) => x \in DataBlocks)'
  BY <1>4, <1>7 DEF DataInv, StoreKeeps
<1>9. (\A x \in DataBlocks : Agrees(h, x))'
  BY <1>2, <1>4, <1>7 DEF DataInv, StoreKeeps
<1>10. ASSUME NEW x \in PureData \ overtaken'
       PROVE  Sound(h', mem'[x], x, latest'[x])
  <2>1. x \in Nat /\ latest'[x] = now(x) /\ mem'[x] = mem[x]
    BY <1>1, <1>2, <1>3, <1>10
  <2> QED BY <1>5, <1>7, <1>10, <2>1
<1>11. ASSUME NEW x \in PureCode
       PROVE  CodeIs(h', x, Program[x])
  <2>1. CodeIs(h, x, Program[x]) /\ ~Holds(L1D, h.l1d, x) /\ x # b /\ x \in Nat
    BY <1>2, <1>11 DEF DataInv
  <2>2. CodeIs(after, x, Program[x])
    BY <1>4, <2>1 DEF StoreKeeps
  <2> QED BY <1>7, <2>1, <2>2
<1>12. (\A x \in PureData \ overtaken : Sound(h, mem[x], x, latest[x]))'
  BY <1>10 DEF PureData
<1>13. (\A x \in PureCode : CodeIs(h, x, Program[x]))'
  BY <1>11 DEF PureCode
<1>14. (mem \in [DataBlocks -> Block])'
  BY <1>1 DEF DataInv, Block
<1>15. (latest \in [DataBlocks -> Block])'
  BY <1>3 DEF Block
<1> QED BY <1>6, <1>8, <1>9, <1>12, <1>13, <1>14, <1>15 DEF DataInv

LEMMA FetchKeepsData ==
  ASSUME DataInv, NEW b \in DOMAIN Program, Fetch(b)
  PROVE  DataInv'
<1> DEFINE after == Ensured(h, "l1i", b, Program[b])
<1>1. /\ Takes(after) /\ mem' = mem /\ latest' = latest /\ overtaken' = overtaken
  BY DEF Fetch
<1>2. /\ Ready(h) /\ b \in Nat /\ DataBlocks \subseteq Nat /\ PureCode \subseteq Nat
      /\ \A x \in PureData \ overtaken : x # b /\ x \in Nat
  BY BlocksAssumption DEF DataInv, PureData, PureCode
<1>3. /\ Ready(after)
      /\ \A x \in Nat : \A y, v, p : FetchKeeps(h, b, Program[b], after, x, y, v, p)
  BY <1>2, EnsuredL1IKeeps
<1> HIDE DEF after
<1>4. Ready(h')
  BY <1>1, <1>3, TakesKeeps
<1>5. \A x \in Nat : \A y, v, p :
        /\ Sound(after, y, x, v) => Sound(h', y, x, v)
        /\ Agrees(after, x) => Agrees(h', x)
        /\ CodeIs(after, x, p) => CodeIs(h', x, p)
        /\ Holds(L1D, h'.l1d, x) => Holds(L1D, after.l1d, x)
  BY <1>1, <1>3, TakesKeeps
<1>6. (\A x \in Nat : Holds(L1D, h.l1d, x) => x \in DataBlocks)'
  BY <1>3, <1>5 DEF DataInv, FetchKeeps
<1>7. (\A x \in DataBlocks : Agrees(h, x))'
  BY <1>2, <1>3, <1>5 DEF DataInv, FetchKeeps
<1>8. (\A x \in PureData \ overtaken : Sound(h, mem[x], x, latest[x]))'
  <2>1. ASSUME NEW x \in PureData \ overtaken
        PROVE  Sound(h', mem[x], x, latest[x])
    <3>1. Sound(h, mem[x], x, latest[x]) /\ x # b /\ x \in Nat
      BY <1>2, <2>1 DEF DataInv
    <3>2. Sound(after, mem[x], x, latest[x])
      BY <1>3, <3>1 DEF FetchKeeps
    <3> QED BY <1>5, <3>1, <3>2
  <2> QED BY <1>1, <2>1 DEF PureData
<1>9. ASSUME NEW x \in PureCode
      PROVE  CodeIs(h', x, Program[x])
  <2>1. CodeIs(h, x, Program[x]) /\ x \in Nat
    BY <1>2, <1>9 DEF DataInv
  <2>2. CodeIs(after, x, Program[x])
    <3>1. FetchKeeps(h, b, Program[b], after, x, Zero, Zero, Program[x])
      BY <1>3, <2>1
    <3> QED BY <2>1, <3>1 DEF FetchKeeps
  <2> QED BY <1>5, <2>1, <2>2
<1>10. (\A x \in PureCode : CodeIs(h, x, Program[x]))'
  BY <1>9 DEF PureCode
<1> QED BY <1>1, <1>4, <1>6, <1>7, <1>8, <1>10 DEF DataInv, Block

(* The controller's tick, at the end of a cycle. *)
LEMMA TickKeepsData ==
  ASSUME MemoryLatency # 0, DataInv, Tick
  PROVE  DataInv'
<1>1. h' = Ticked(h) /\ mem' = MemoryAfterTick(h, mem) /\ UNCHANGED history
  BY DEF Tick
<1>2. latest' = latest /\ overtaken' = overtaken
  BY <1>1 DEF history
<1>3. /\ Ready(h) /\ mem \in [DataBlocks -> Block] /\ latest \in [DataBlocks -> Block]
      /\ DataBlocks \subseteq Nat /\ PureCode \subseteq Nat /\ PureData \subseteq DataBlocks
  BY BlocksAssumption DEF DataInv, PureCode, PureData
<1>4. /\ Ready(h') /\ mem' \in [DataBlocks -> Block]
      /\ \A x \in Nat : \A v, p : TickKeeps(h, mem, h', mem', x, v, p)
  BY <1>1, <1>3, TickedKeeps
<1>5. (\A x \in Nat : Holds(L1D, h.l1d, x) => x \in DataBlocks)'
  BY <1>4 DEF DataInv, TickKeeps
<1>6. (\A x \in DataBlocks : Agrees(h, x))'
  BY <1>3, <1>4 DEF DataInv, TickKeeps
<1>7. ASSUME NEW x \in PureData \ overtaken
      PROVE  Sound(h', mem'[x], x, latest[x])
  <2>1. x \in Nat /\ x \in DOMAIN mem /\ latest[x] \in Block
    BY <1>3, <1>7
  <2>2. Sound(h, mem[x], x, latest[x])
    BY <1>7 DEF DataInv
  <2>3. TickKeeps(h, mem, h', mem', x, latest[x], Zero)
    BY <1>4, <2>1
  <2> QED BY <2>1, <2>2, <2>3 DEF TickKeeps
<1>8. ASSUME NEW x \in PureCode
      PROVE  CodeIs(h', x, Program[x])
  <2>1. CodeIs(h, x, Program[x]) /\ x \in Nat
    BY <1>3, <1>8 DEF DataInv
  <2>2. TickKeeps(h, mem, h', mem', x, Zero, Program[x])
    BY <1>4, <2>1
  <2> QED BY <2>1, <2>2 DEF TickKeeps
<1>9. (\A x \in PureData \ overtaken : Sound(h, mem[x], x, latest[x]))'
  BY <1>2, <1>7 DEF PureData
<1>10. (\A x \in PureCode : CodeIs(h, x, Program[x]))'
  BY <1>8 DEF PureCode
<1> QED BY <1>2, <1>3, <1>4, <1>5, <1>6, <1>9, <1>10 DEF DataInv, Block

(* Nothing waits and no cache holds anything at first.                     *)
LEMMA InitialData == Init => DataInv
<1> SUFFICES ASSUME Init PROVE DataInv
  OBVIOUS
<1>1. /\ h = EmptyHierarchy
      /\ mem = [b \in DataBlocks |-> [c \in Cells |-> Zero]] /\ latest = mem
  BY DEF Init
<1>2. /\ h.l1i = EmptyCache(L1I) /\ h.l1d = EmptyCache(L1D) /\ h.l2 = EmptyCache(L2)
      /\ h.wb = << >> /\ h.active = << >> /\ h.busy = 0
  BY <1>1 DEF EmptyHierarchy
<1>3. \A x \in Nat :
        ~Holds(L1I, h.l1i, x) /\ ~Holds(L1D, h.l1d, x) /\ ~Holds(L2, h.l2, x)
  BY <1>2, Configs, EmptyFacts
<1>4. \A x, d : ~Queued(h, x, d)
  BY <1>2 DEF Queued, WaitsIn
<1>5. Ready(h)
  <2>1. GoodHierarchy(h)
    BY <1>1, EmptyHierarchyFacts
  <2>2. QueueOK(h)
    BY <1>2 DEF QueueOK, IsSeq
  <2>3. CleanL1I(h)
    BY <1>3 DEF CleanL1I
  <2> QED BY <2>1, <2>2, <2>3 DEF Ready
<1>6. mem \in [DataBlocks -> Block] /\ latest \in [DataBlocks -> Block]
  BY <1>1, ValuesAssumption DEF Block
<1>7. \A x \in DataBlocks : Agrees(h, x) /\ Sound(h, mem[x], x, latest[x])
  BY <1>1, <1>3, <1>4, BlocksAssumption DEF Agrees, Sound
<1>8. \A x \in PureCode : CodeIs(h, x, Program[x])
  BY <1>3, BlocksAssumption DEF PureCode, CodeIs
<1> QED BY <1>3, <1>5, <1>6, <1>7, <1>8 DEF DataInv, PureData

LEMMA StepsKeepData ==
  ASSUME MemoryLatency # 0, DataUntilFlush, [Next]_vars
  PROVE  DataUntilFlush'
<1> SUFFICES ASSUME (phase # "flushed")' PROVE DataInv'
  BY DEF DataUntilFlush
<1>1. ASSUME NEW b \in DataBlocks, NEW c \in Cells, Load(b, c)
      PROVE  DataInv'
  <2>1. DataInv
    BY <1>1 DEF Load, DataUntilFlush
  <2> QED BY <1>1, <2>1, LoadKeepsData
<1>2. ASSUME NEW b \in DataBlocks, NEW c \in Cells, NEW value \in Values, Drain(b, c, value)
      PROVE  DataInv'
  <2>1. DataInv
    BY <1>2 DEF Drain, DataUntilFlush
  <2> QED BY <1>2, <2>1, DrainKeepsData
<1>3. ASSUME NEW b \in DOMAIN Program, Fetch(b)
      PROVE  DataInv'
  <2>1. DataInv
    BY <1>3 DEF Fetch, DataUntilFlush
  <2> QED BY <1>3, <2>1, FetchKeepsData
<1>4. ASSUME Tick PROVE DataInv'
  <2>1. DataInv
    BY <1>4 DEF Tick, DataUntilFlush
  <2> QED BY <1>4, <2>1, TickKeepsData
<1>5. ASSUME h' = h /\ mem' = mem /\ latest' = latest /\ overtaken' = overtaken,
             phase # "flushed"
      PROVE  DataInv'
  BY <1>5 DEF DataUntilFlush, DataInv, PureData, PureCode, Block
<1>6. ASSUME LoopEnds PROVE DataInv'
  BY <1>5, <1>6 DEF LoopEnds, history
<1>7. ASSUME FlushAll PROVE FALSE
  BY <1>7 DEF FlushAll
<1>8. ASSUME UNCHANGED vars PROVE DataInv'
  BY <1>5, <1>8 DEF vars, history
<1> QED BY <1>1, <1>2, <1>3, <1>4, <1>6, <1>7, <1>8 DEF Next

LEMMA AlwaysData ==
  ASSUME MemoryLatency # 0
  PROVE  Spec => []DataUntilFlush
<1>1. Init => DataUntilFlush
  BY InitialData DEF DataUntilFlush
<1>2. DataUntilFlush /\ [Next]_vars => DataUntilFlush'
  BY StepsKeepData
<1> QED BY <1>1, <1>2, PTL DEF Spec

(* Until the flush, L2's data is L1D's where L1D is clean: an L2 eviction  *)
(* writes the newest version back (_insert_l2).                            *)
THEOREM AgreementTheorem ==
  ASSUME MemoryLatency # 0
  PROVE  Spec => []CleanCopiesAgree
<1>1. DataUntilFlush => CleanCopiesAgree
  BY DEF DataUntilFlush, DataInv, Agrees, CleanCopiesAgree
<1> QED BY <1>1, AlwaysData, PTL

(* The caches hold a block of instructions as instruction memory has it,   *)
(* from the first fetch to after the flush (fetch).                        *)
LEMMA FlushKeepsCode ==
  ASSUME NEW k, Typed(k), NEW x \in Nat, NEW p, CodeIs(k, x, p)
  PROVE  CodeIs(Flushed(k), x, p)
<1> DEFINE j == Flushed(k)
<1>1. /\ Typed(j) /\ j.l1i = k.l1i
      /\ \A d, y : Has(L2, j.l2, x, d, y) => \E z : Has(L2, k.l2, x, d, z)
  BY FlushTyped
<1> HIDE DEF j
<1>2. ASSUME Holds(L2, j.l2, x) PROVE LineOf(L2, j.l2, x).data = p
  <2> DEFINE d == LineOf(L2, j.l2, x).data
  <2>1. Has(L2, j.l2, x, d, LineOf(L2, j.l2, x).dirty)
    BY <1>1, <1>2, Configs, HasFacts DEF Typed, CacheTyped
  <2>2. PICK z : Has(L2, k.l2, x, d, z)
    BY <1>1, <2>1
  <2> HIDE DEF d
  <2>3. Holds(L2, k.l2, x) /\ d = LineOf(L2, k.l2, x).data
    BY <2>2, Configs, HasFacts DEF Typed, CacheTyped
  <2> QED BY <2>3 DEF CodeIs, d
<1> QED BY <1>1, <1>2 DEF CodeIs, j

CodeToTheEnd == \A x \in PureCode : CodeIs(h, x, Program[x])

THEOREM FetchTheorem ==
  ASSUME MemoryLatency # 0
  PROVE  Spec => []FetchesProgram
<1>1. Init => CodeToTheEnd
  BY InitialData DEF DataInv, CodeToTheEnd
<1>2. DataUntilFlush /\ TypeInv /\ CodeToTheEnd /\ [Next]_vars => CodeToTheEnd'
  <2> SUFFICES ASSUME DataUntilFlush, TypeInv, CodeToTheEnd, [Next]_vars
               PROVE  CodeToTheEnd'
    OBVIOUS
  <2>1. CASE phase' # "flushed"
    <3>1. DataUntilFlush'
      BY StepsKeepData
    <3> QED BY <2>1, <3>1 DEF DataUntilFlush, DataInv, CodeToTheEnd
  <2>2. ASSUME FlushAll PROVE CodeToTheEnd'
    <3>1. h' = Flushed(h) /\ Typed(h)
      BY <2>2 DEF FlushAll, TypeInv
    <3>2. \A x \in PureCode : x \in Nat /\ CodeIs(h, x, Program[x])
      BY BlocksAssumption DEF CodeToTheEnd, PureCode
    <3>3. \A x \in PureCode : CodeIs(h', x, Program[x])
      BY <3>1, <3>2, FlushKeepsCode
    <3> QED BY <3>3 DEF CodeToTheEnd, PureCode
  <2>3. ASSUME UNCHANGED vars PROVE CodeToTheEnd'
    BY <2>3 DEF vars, CodeToTheEnd, PureCode
  <2>4. CASE phase' = "flushed"
    <3>1. ASSUME NEW b \in DataBlocks, NEW c \in Cells, Load(b, c) PROVE FALSE
      BY <2>4, <3>1 DEF Load
    <3>2. ASSUME NEW b \in DataBlocks, NEW c \in Cells, NEW value \in Values,
                 Drain(b, c, value)
          PROVE  FALSE
      BY <2>4, <3>2 DEF Drain
    <3>3. ASSUME NEW b \in DOMAIN Program, Fetch(b) PROVE FALSE
      BY <2>4, <3>3 DEF Fetch
    <3>4. ASSUME Tick \/ LoopEnds PROVE FALSE
      BY <2>4, <3>4 DEF Tick, LoopEnds
    <3> QED BY <2>2, <2>3, <3>1, <3>2, <3>3, <3>4 DEF Next
  <2> QED BY <2>1, <2>4
<1>3. CodeToTheEnd => FetchesProgram
  BY DEF CodeToTheEnd, CodeIs, FetchesProgram
<1> QED BY <1>1, <1>2, <1>3, AlwaysData, AlwaysTyped, PTL DEF Spec

(* A load finds the block's newest version, unless it or an earlier access *)
(* read past a waiting write-back (_ensure_data_block, load_word).         *)
LEMMA LoadIsRight ==
  ASSUME DataInv, NEW b \in DataBlocks, NEW c \in Cells, Load(b, c)
  PROVE  LoadsReturnLatest'
<1>1. /\ loaded' = [block |-> b, cell |-> c,
                    value |-> AsData(Found(h, "l1d", b, mem[b])[c])]
      /\ Overtakes(b) /\ latest' = latest
  BY DEF Load
<1> SUFFICES ASSUME b \in PureData \ overtaken'
             PROVE  (loaded.value = latest[loaded.block][loaded.cell])'
  BY <1>1 DEF LoadsReturnLatest, RightlyLoaded, PureData
<1>2. b \notin overtaken /\ (Misses(h, "l1d", b) => ~Waiting(b))
  BY <1>1 DEF Overtakes
<1>3. Sound(h, mem[b], b, latest[b])
  BY <1>2 DEF DataInv
<1>4. Misses(h, "l1d", b) => \A d : ~Queued(h, b, d)
  BY <1>2, WaitingFacts
<1>5. Found(h, "l1d", b, mem[b]) = latest[b]
  BY <1>3, <1>4, FoundFacts
<1>6. latest[b][c] \in Values
  BY DEF DataInv, Block
<1>7. AsData(Found(h, "l1d", b, mem[b])[c]) = latest[b][c]
  BY <1>5, <1>6 DEF AsData
<1> QED BY <1>1, <1>7

THEOREM LoadTheorem ==
  ASSUME MemoryLatency # 0
  PROVE  Spec => []LoadsReturnLatest
<1>1. Init => LoadsReturnLatest
  BY DEF Init, LoadsReturnLatest
<1>2. DataUntilFlush /\ LoadsReturnLatest /\ [Next]_vars => LoadsReturnLatest'
  <2> SUFFICES ASSUME DataUntilFlush, LoadsReturnLatest, [Next]_vars
               PROVE  LoadsReturnLatest'
    OBVIOUS
  <2>1. ASSUME NEW b \in DataBlocks, NEW c \in Cells, Load(b, c)
        PROVE  LoadsReturnLatest'
    <3>1. DataInv
      BY <2>1 DEF Load, DataUntilFlush
    <3> QED BY <2>1, <3>1, LoadIsRight
  <2>2. ASSUME loaded' = Nothing PROVE LoadsReturnLatest'
    BY <2>2 DEF LoadsReturnLatest, Nothing
  <2>3. ASSUME NEW b \in DataBlocks, NEW c \in Cells, NEW value \in Values, Drain(b, c, value)
        PROVE  LoadsReturnLatest'
    BY <2>2, <2>3 DEF Drain
  <2>4. ASSUME NEW b \in DOMAIN Program, Fetch(b) PROVE LoadsReturnLatest'
    BY <2>2, <2>4 DEF Fetch
  <2>5. ASSUME Tick \/ LoopEnds \/ FlushAll PROVE LoadsReturnLatest'
    BY <2>2, <2>5 DEF Tick, LoopEnds, FlushAll
  <2>6. ASSUME UNCHANGED vars PROVE LoadsReturnLatest'
    BY <2>6 DEF vars, history, LoadsReturnLatest, RightlyLoaded, PureData
  <2> QED BY <2>1, <2>3, <2>4, <2>5, <2>6 DEF Next
<1> QED BY <1>1, <1>2, AlwaysData, PTL DEF Spec

-----------------------------------------------------------------------------
(* The flush.                                                              *)
(* Until then, the version the hierarchy would go on with is the block's.  *)
LEMMA NewestIsRight ==
  ASSUME DataInv, NEW b \in PureData \ overtaken
  PROVE  Newest(b) = latest[b]
<1>1. Sound(h, mem[b], b, latest[b]) /\ IsSeq(h.wb) /\ IsSeq(h.active)
  BY DEF DataInv, Ready, QueueOK
<1>2. CASE Holds(L1D, h.l1d, b) \/ Holds(L2, h.l2, b)
  BY <1>1, <1>2 DEF Newest, Sound, HoldsDirty
<1>3. CASE ~Holds(L1D, h.l1d, b) /\ ~Holds(L2, h.l2, b)
  <2> DEFINE w == h.active \o h.wb
             to == {k \in DOMAIN w : w[k].block = b}
  <2>1. Newest(b) = IF to = {} THEN mem[b] ELSE w[Max(to)].data
    BY <1>3 DEF Newest, OnTheWay
  <2>2. IsSeq(w) /\ \A d : WaitsIn(w, b, d) <=> Queued(h, b, d)
    BY <1>1, JoinedWaits DEF Queued
  <2> HIDE DEF w
  <2>3. CASE to = {}
    <3>1. \A d : ~WaitsIn(w, b, d)
      BY <2>3 DEF WaitsIn
    <3>2. mem[b] = latest[b]
      BY <1>1, <1>3, <2>2, <3>1 DEF Sound
    <3> QED BY <2>1, <2>3, <3>2
  <2>4. CASE to # {}
    <3>1. PICK S : w \in Seq(S)
      BY <2>2 DEF IsSeq
    <3>2. Len(w) \in Nat /\ to \in SUBSET (1..Len(w))
      BY <3>1
    <3>3. Max(to) \in to
      <4> HIDE DEF to
      <4> QED BY <2>4, <3>2, MaxFacts
    <3>4. WaitsIn(w, b, w[Max(to)].data)
      BY <3>3 DEF WaitsIn
    <3>5. w[Max(to)].data = latest[b]
      BY <1>1, <2>2, <3>4 DEF Sound
    <3> QED BY <2>1, <2>4, <3>5
  <2> QED BY <2>3, <2>4
<1> QED BY <1>2, <1>3

(* No store is lost, to the end: wherever a block's data is, it is what    *)
(* was last stored, and after flush_all memory has it.                     *)
MemoryIsLatest == \A b \in PureData \ overtaken : mem[b] = latest[b]
FlushedRight == phase = "flushed" => MemoryIsLatest

THEOREM NewestTheorem ==
  ASSUME MemoryLatency # 0
  PROVE  Spec => []NewestKept
<1>1. Init => FlushedRight
  BY DEF Init, FlushedRight
<1>2. DataUntilFlush /\ FlushedRight /\ [Next]_vars => FlushedRight'
  <2> SUFFICES ASSUME DataUntilFlush, FlushedRight, [Next]_vars, phase' = "flushed"
               PROVE  MemoryIsLatest'
    BY DEF FlushedRight
  <2>1. ASSUME FlushAll PROVE MemoryIsLatest'
    <3>1. /\ DataInv /\ mem' = WrittenAll(mem, FlushWrites(h))
          /\ latest' = latest /\ overtaken' = overtaken
      BY <2>1 DEF FlushAll, history, DataUntilFlush
    <3>2. /\ Ready(h) /\ mem \in [DataBlocks -> Block] /\ latest \in [DataBlocks -> Block]
          /\ \A b \in PureData \ overtaken : b \in DataBlocks /\ Sound(h, mem[b], b, latest[b])
      BY <3>1 DEF DataInv, PureData
    <3>3. ASSUME NEW b \in PureData \ overtaken
          PROVE  WrittenAll(mem, FlushWrites(h))[b] = latest[b]
      <4>1. b \in DataBlocks /\ latest[b] \in Block /\ Sound(h, mem[b], b, latest[b])
        BY <3>2, <3>3
      <4> QED BY <3>2, <4>1, FlushIsRight, BlocksAssumption
    <3> QED BY <3>1, <3>3 DEF MemoryIsLatest, PureData
  <2>2. ASSUME UNCHANGED vars PROVE MemoryIsLatest'
    BY <2>2 DEF vars, history, FlushedRight, MemoryIsLatest, PureData
  <2>3. ASSUME NEW b \in DataBlocks, NEW c \in Cells, Load(b, c) PROVE FALSE
    BY <2>3 DEF Load
  <2>4. ASSUME NEW b \in DataBlocks, NEW c \in Cells, NEW value \in Values, Drain(b, c, value)
        PROVE  FALSE
    BY <2>4 DEF Drain
  <2>5. ASSUME NEW b \in DOMAIN Program, Fetch(b) PROVE FALSE
    BY <2>5 DEF Fetch
  <2>6. ASSUME Tick \/ LoopEnds PROVE FALSE
    BY <2>6 DEF Tick, LoopEnds
  <2> QED BY <2>1, <2>2, <2>3, <2>4, <2>5, <2>6 DEF Next
<1>3. DataUntilFlush /\ FlushedRight => NewestKept
  BY NewestIsRight DEF DataUntilFlush, FlushedRight, MemoryIsLatest, NewestKept
<1> QED BY <1>1, <1>2, <1>3, AlwaysData, PTL DEF Spec
=============================================================================
