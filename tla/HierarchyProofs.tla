-------------------------- MODULE HierarchyProofs --------------------------
(***************************************************************************)
(* Lemmas about the operations of CacheHierarchy, for every size, policy   *)
(* and latency of the caches: inclusion is kept, and so is the data.       *)
(*                                                                         *)
(* What is said of data is said of one block at a time: of a hierarchy k,  *)
(* the block's version y in data memory and the version v it should have;  *)
(* each operation keeps it, for the block it is about and for every other. *)
(* MemorySystemProofs and CachedPagesProofs rest on these lemmas.          *)
(***************************************************************************)
EXTENDS CacheHierarchy, CacheProofs

LEMMA Configs == IsConfig(L1I) /\ IsConfig(L1D) /\ IsConfig(L2)
BY ConfigAssumption DEF Config, IsConfig

(* The inductive invariant, on the value of the hierarchy. *)
IsHierarchy(k) ==
  k = [l1i |-> k.l1i, l1d |-> k.l1d, l2 |-> k.l2,
       wb |-> k.wb, active |-> k.active, busy |-> k.busy, cost |-> k.cost]
WellFormed(i, d, u) == GoodCache(L1I, i) /\ GoodCache(L1D, d) /\ GoodCache(L2, u)
Included(i, d, u) ==
  \A b \in Nat : Holds(L1I, i, b) \/ Holds(L1D, d, b) => Holds(L2, u, b)
GoodCaches(i, d, u) == WellFormed(i, d, u) /\ Included(i, d, u)
GoodHierarchy(k) == IsHierarchy(k) /\ GoodCaches(k.l1i, k.l1d, k.l2)

(* k's caches, or its memory controller, are those of j. *)
SameCaches(j, k) == k.l1i = j.l1i /\ k.l1d = j.l1d /\ k.l2 = j.l2
SameQueue(j, k) == k.wb = j.wb /\ k.active = j.active /\ k.busy = j.busy

-----------------------------------------------------------------------------
(* A write-back enqueued changes no cache (enqueue_write). *)
LEMMA EnqueuedFacts ==
  ASSUME NEW k, IsHierarchy(k), NEW b, NEW data
  PROVE  LET j == Enqueued(k, b, data)
         IN /\ IsHierarchy(j) /\ SameCaches(k, j)
            /\ j.wb = Append(k.wb, [block |-> b, data |-> data])
            /\ j.active = k.active /\ j.busy = k.busy /\ j.cost = k.cost + Penalty(k)
<1> DEFINE wb == Append(k.wb, [block |-> b, data |-> data])
           cost == k.cost + Penalty(k)
           j == [k EXCEPT !.wb = wb]
<1>1. Enqueued(k, b, data) = [j EXCEPT !.cost = cost]
  BY Zenon DEF Enqueued
<1> HIDE DEF wb, cost
<1>2. /\ IsHierarchy(j) /\ SameCaches(k, j)
      /\ j.wb = wb /\ j.active = k.active /\ j.busy = k.busy
  BY DEF IsHierarchy, SameCaches
<1> HIDE DEF j
<1> DEFINE m == [j EXCEPT !.cost = cost]
<1>3. /\ IsHierarchy(m) /\ SameCaches(k, m)
      /\ m.wb = wb /\ m.active = k.active /\ m.busy = k.busy /\ m.cost = cost
  BY <1>2 DEF IsHierarchy, SameCaches
<1> HIDE DEF m
<1> QED BY <1>1, <1>3 DEF m, wb, cost

(* Nor does the memory controller's tick. *)
LEMMA RestedFacts ==
  ASSUME NEW k, IsHierarchy(k)
  PROVE  /\ IsHierarchy(Rested(k)) /\ SameCaches(k, Rested(k))
         /\ Rested(k).wb = k.wb /\ Rested(k).cost = k.cost
         /\ Rested(k).active = IF Completes(k) THEN << >> ELSE k.active
         /\ Rested(k).busy = IF k.busy > 0 THEN k.busy - 1 ELSE 0
<1> DEFINE busy == IF k.busy > 0 THEN k.busy - 1 ELSE 0
           active == IF Completes(k) THEN << >> ELSE k.active
           j == [k EXCEPT !.busy = busy]
<1>1. Rested(k) = [j EXCEPT !.active = active]
  BY Zenon DEF Rested
<1> HIDE DEF busy, active
<1>2. /\ IsHierarchy(j) /\ SameCaches(k, j)
      /\ j.wb = k.wb /\ j.active = k.active /\ j.busy = busy /\ j.cost = k.cost
  BY DEF IsHierarchy, SameCaches
<1> HIDE DEF j
<1> DEFINE m == [j EXCEPT !.active = active]
<1>3. /\ IsHierarchy(m) /\ SameCaches(k, m)
      /\ m.wb = k.wb /\ m.active = active /\ m.busy = busy /\ m.cost = k.cost
  BY <1>2 DEF IsHierarchy, SameCaches
<1> HIDE DEF m
<1> QED BY <1>1, <1>3 DEF m, active, busy

LEMMA StartedFacts ==
  ASSUME NEW k, IsHierarchy(k)
  PROVE  /\ IsHierarchy(Started(k)) /\ SameCaches(k, Started(k))
         /\ Started(k).cost = k.cost
         /\ IF k.busy = 0 /\ k.wb # << >>
              THEN /\ Started(k).active = <<Head(k.wb)>>
                   /\ Started(k).wb = Tail(k.wb)
                   /\ Started(k).busy = MemoryLatency
              ELSE Started(k) = k
<1> DEFINE active == <<Head(k.wb)>>
           wb == Tail(k.wb)
           j == [k EXCEPT !.active = active]
           m == [j EXCEPT !.wb = wb]
           l == [m EXCEPT !.busy = MemoryLatency]
<1>1. IF k.busy = 0 /\ k.wb # << >> THEN Started(k) = l ELSE Started(k) = k
  BY Zenon DEF Started
<1> HIDE DEF wb, active
<1>2. /\ IsHierarchy(j) /\ SameCaches(k, j)
      /\ j.active = active /\ j.wb = k.wb /\ j.busy = k.busy /\ j.cost = k.cost
  BY DEF IsHierarchy, SameCaches
<1> HIDE DEF j
<1>3. /\ IsHierarchy(m) /\ SameCaches(k, m)
      /\ m.active = active /\ m.wb = wb /\ m.busy = k.busy /\ m.cost = k.cost
  BY <1>2 DEF IsHierarchy, SameCaches
<1> HIDE DEF m
<1>4. /\ IsHierarchy(l) /\ SameCaches(k, l)
      /\ l.active = active /\ l.wb = wb /\ l.busy = MemoryLatency /\ l.cost = k.cost
  BY <1>3 DEF IsHierarchy, SameCaches
<1> HIDE DEF l
<1>5. SameCaches(k, k)
  BY DEF SameCaches
<1> QED BY <1>1, <1>4, <1>5 DEF wb, active

LEMMA TickedFacts ==
  ASSUME NEW k, IsHierarchy(k)
  PROVE  IsHierarchy(Ticked(k)) /\ SameCaches(k, Ticked(k))
BY RestedFacts, StartedFacts DEF SameCaches, Ticked

(* One cache replaced. *)
LEMMA WithL1I ==
  ASSUME NEW k, IsHierarchy(k), NEW x
  PROVE  LET j == [k EXCEPT !.l1i = x]
         IN /\ IsHierarchy(j) /\ j.l1i = x /\ j.l1d = k.l1d /\ j.l2 = k.l2
            /\ SameQueue(k, j) /\ j.cost = k.cost
<1> DEFINE r == [l1i |-> k.l1i, l1d |-> k.l1d, l2 |-> k.l2,
                 wb |-> k.wb, active |-> k.active, busy |-> k.busy, cost |-> k.cost]
           j == [r EXCEPT !.l1i = x]
<1>1. /\ IsHierarchy(j) /\ j.l1i = x /\ j.l1d = k.l1d /\ j.l2 = k.l2
      /\ SameQueue(k, j) /\ j.cost = k.cost
  BY DEF IsHierarchy, SameQueue
<1>2. k = r
  BY DEF IsHierarchy
<1> HIDE DEF r
<1>3. [k EXCEPT !.l1i = x] = j
  BY <1>2
<1> HIDE DEF j
<1> QED BY <1>1, <1>3

LEMMA WithL1D ==
  ASSUME NEW k, IsHierarchy(k), NEW x
  PROVE  LET j == [k EXCEPT !.l1d = x]
         IN /\ IsHierarchy(j) /\ j.l1i = k.l1i /\ j.l1d = x /\ j.l2 = k.l2
            /\ SameQueue(k, j) /\ j.cost = k.cost
<1> DEFINE r == [l1i |-> k.l1i, l1d |-> k.l1d, l2 |-> k.l2,
                 wb |-> k.wb, active |-> k.active, busy |-> k.busy, cost |-> k.cost]
           j == [r EXCEPT !.l1d = x]
<1>1. /\ IsHierarchy(j) /\ j.l1i = k.l1i /\ j.l1d = x /\ j.l2 = k.l2
      /\ SameQueue(k, j) /\ j.cost = k.cost
  BY DEF IsHierarchy, SameQueue
<1>2. k = r
  BY DEF IsHierarchy
<1> HIDE DEF r
<1>3. [k EXCEPT !.l1d = x] = j
  BY <1>2
<1> HIDE DEF j
<1> QED BY <1>1, <1>3

LEMMA WithL2 ==
  ASSUME NEW k, IsHierarchy(k), NEW x
  PROVE  LET j == [k EXCEPT !.l2 = x]
         IN /\ IsHierarchy(j) /\ j.l1i = k.l1i /\ j.l1d = k.l1d /\ j.l2 = x
            /\ SameQueue(k, j) /\ j.cost = k.cost
<1> DEFINE r == [l1i |-> k.l1i, l1d |-> k.l1d, l2 |-> k.l2,
                 wb |-> k.wb, active |-> k.active, busy |-> k.busy, cost |-> k.cost]
           j == [r EXCEPT !.l2 = x]
<1>1. /\ IsHierarchy(j) /\ j.l1i = k.l1i /\ j.l1d = k.l1d /\ j.l2 = x
      /\ SameQueue(k, j) /\ j.cost = k.cost
  BY DEF IsHierarchy, SameQueue
<1>2. k = r
  BY DEF IsHierarchy
<1> HIDE DEF r
<1>3. [k EXCEPT !.l2 = x] = j
  BY <1>2
<1> HIDE DEF j
<1> QED BY <1>1, <1>3

-----------------------------------------------------------------------------
(* The accesses.                                                           *)

(* An L2 insertion keeps inclusion: what L2 drops, the L1 caches drop; and *)
(* its block is in L2 (_insert_l2).                                        *)
LEMMA InsertL2Caches ==
  ASSUME NEW i, NEW d, NEW u, GoodCaches(i, d, u), NEW b \in Nat,
         NEW data, NEW dirty
  PROVE  LET after == Insert(L2, u, b, data, dirty)
             out == Evicted(L2, u, b).block
         IN /\ Holds(L2, after, b)
            /\ ~MustEvict(L2, u, b) => GoodCaches(i, d, after)
            /\ MustEvict(L2, u, b) =>
                 GoodCaches(Invalidate(L1I, i, out), Invalidate(L1D, d, out), after)
<1> DEFINE after == Insert(L2, u, b, data, dirty)
           out == Evicted(L2, u, b).block
<1>1. IsConfig(L1I) /\ IsConfig(L1D) /\ IsConfig(L2)
  BY Configs
<1>2. /\ GoodCache(L1I, i) /\ GoodCache(L1D, d) /\ GoodCache(L2, u)
      /\ Included(i, d, u)
  BY DEF GoodCaches, WellFormed
<1>3. GoodCache(L2, after) /\ HeldAfterInsert(L2, u, b, after)
  BY <1>1, <1>2, InsertFacts
<1> HIDE DEF after
<1>4. Holds(L2, after, b)
  BY <1>3 DEF HeldAfterInsert
<1>5. ASSUME ~MustEvict(L2, u, b) PROVE GoodCaches(i, d, after)
  BY <1>2, <1>3, <1>5 DEF HeldAfterInsert, Displaced, GoodCaches, WellFormed, Included
<1>6. ASSUME MustEvict(L2, u, b)
      PROVE  GoodCaches(Invalidate(L1I, i, out), Invalidate(L1D, d, out), after)
  <2>1. out \in Nat
    BY <1>1, <1>2, <1>6, EvictedFacts
  <2> DEFINE i2 == Invalidate(L1I, i, out)
             d2 == Invalidate(L1D, d, out)
  <2>2. \A x \in Nat : x # out /\ Holds(L2, u, x) => Holds(L2, after, x)
    BY <1>3 DEF HeldAfterInsert, Displaced
  <2> HIDE DEF out
  <2>3. /\ GoodCache(L1I, i2)
        /\ \A x \in Nat : Holds(L1I, i2, x) <=> Holds(L1I, i, x) /\ x # out
    BY <1>1, <1>2, <2>1, InvalidateFacts
  <2>4. /\ GoodCache(L1D, d2)
        /\ \A x \in Nat : Holds(L1D, d2, x) <=> Holds(L1D, d, x) /\ x # out
    BY <1>1, <1>2, <2>1, InvalidateFacts
  <2> HIDE DEF i2, d2
  <2>5. GoodCaches(i2, d2, after)
    BY <1>2, <1>3, <2>2, <2>3, <2>4 DEF GoodCaches, WellFormed, Included
  <2> QED BY <2>5 DEF i2, d2, out
<1> QED BY <1>4, <1>5, <1>6 DEF after

(* What it leaves in every part of the hierarchy. *)
InsertL2Leaves(k, b, data, dirty, j) ==
  LET out == Evicted(L2, k.l2, b)
      x == out.block
  IN /\ IsHierarchy(j) /\ j.l2 = Insert(L2, k.l2, b, data, dirty)
     /\ j.active = k.active /\ j.busy = k.busy
     /\ j.cost \in {k.cost, k.cost + Penalty(k)}
     /\ ~MustEvict(L2, k.l2, b) => j.l1i = k.l1i /\ j.l1d = k.l1d /\ j.wb = k.wb
     /\ MustEvict(L2, k.l2, b) =>
          /\ j.l1i = Invalidate(L1I, k.l1i, x) /\ j.l1d = Invalidate(L1D, k.l1d, x)
          /\ IF HoldsDirty(L1D, k.l1d, x)
               THEN j.wb = Append(k.wb, [block |-> x, data |-> LineOf(L1D, k.l1d, x).data])
             ELSE IF out.dirty THEN j.wb = Append(k.wb, [block |-> x, data |-> out.data])
             ELSE j.wb = k.wb

LEMMA InsertL2Parts ==
  ASSUME NEW k, IsHierarchy(k), NEW b, NEW data, NEW dirty
  PROVE  InsertL2Leaves(k, b, data, dirty, InsertL2(k, b, data, dirty))
<1> DEFINE after == Insert(L2, k.l2, b, data, dirty)
           out == Evicted(L2, k.l2, b)
           x == out.block
           d2 == Invalidate(L1D, k.l1d, x)
           i2 == Invalidate(L1I, k.l1i, x)
           k1 == [k EXCEPT !.l2 = after]
           kd == [k1 EXCEPT !.l1d = d2]
           k2 == [kd EXCEPT !.l1i = i2]
           newer == LineOf(L1D, k.l1d, x).data
           own == out.data
           j == InsertL2(k, b, data, dirty)
<1>1. /\ ~MustEvict(L2, k.l2, b) => j = k1
      /\ MustEvict(L2, k.l2, b) =>
           IF HoldsDirty(L1D, k.l1d, x) THEN j = Enqueued(k2, x, newer)
           ELSE IF out.dirty THEN j = Enqueued(k2, x, own)
           ELSE j = k2
  BY Zenon DEF InsertL2
<1> HIDE DEF after, d2, i2, newer, own, j
<1>2. /\ IsHierarchy(k1) /\ k1.l1i = k.l1i /\ k1.l1d = k.l1d /\ k1.l2 = after
      /\ SameQueue(k, k1) /\ k1.cost = k.cost
  BY WithL2
<1> HIDE DEF k1
<1>3. /\ IsHierarchy(kd) /\ kd.l1i = k.l1i /\ kd.l1d = d2 /\ kd.l2 = after
      /\ SameQueue(k1, kd) /\ kd.cost = k.cost
  BY <1>2, WithL1D
<1> HIDE DEF kd
<1>4. /\ IsHierarchy(k2) /\ k2.l1i = i2 /\ k2.l1d = d2 /\ k2.l2 = after
      /\ SameQueue(kd, k2) /\ k2.cost = k.cost
  BY <1>3, WithL1I
<1>5. SameQueue(k, k2)
  BY <1>2, <1>3, <1>4 DEF SameQueue
<1> HIDE DEF k2, x
<1>6. ASSUME NEW e
      PROVE  LET q == Enqueued(k2, x, e)
             IN /\ IsHierarchy(q) /\ SameCaches(k2, q)
                /\ q.wb = Append(k.wb, [block |-> x, data |-> e])
                /\ q.active = k.active /\ q.busy = k.busy /\ q.cost = k.cost + Penalty(k)
  BY <1>4, <1>5, EnqueuedFacts DEF SameQueue, Penalty
<1>7. IsHierarchy(j) /\ j.l2 = after /\ j.active = k.active /\ j.busy = k.busy
  BY <1>1, <1>2, <1>4, <1>5, <1>6 DEF SameCaches, SameQueue
<1>8. ~MustEvict(L2, k.l2, b) => j.l1i = k.l1i /\ j.l1d = k.l1d /\ j.wb = k.wb
  BY <1>1, <1>2 DEF SameQueue
<1>9. MustEvict(L2, k.l2, b) =>
        /\ j.l1i = i2 /\ j.l1d = d2
        /\ IF HoldsDirty(L1D, k.l1d, x)
             THEN j.wb = Append(k.wb, [block |-> x, data |-> newer])
           ELSE IF out.dirty THEN j.wb = Append(k.wb, [block |-> x, data |-> own])
           ELSE j.wb = k.wb
  BY <1>1, <1>4, <1>5, <1>6 DEF SameCaches, SameQueue
<1>10. j.cost \in {k.cost, k.cost + Penalty(k)}
  BY <1>1, <1>2, <1>4, <1>6
<1> QED BY <1>7, <1>8, <1>9, <1>10 DEF after, x, i2, d2, newer, own, j, InsertL2Leaves

LEMMA InsertL2Facts ==
  ASSUME NEW k, GoodHierarchy(k), NEW b \in Nat, NEW data, NEW dirty
  PROVE  /\ GoodHierarchy(InsertL2(k, b, data, dirty))
         /\ Holds(L2, InsertL2(k, b, data, dirty).l2, b)
<1> DEFINE after == Insert(L2, k.l2, b, data, dirty)
           out == Evicted(L2, k.l2, b).block
           d2 == Invalidate(L1D, k.l1d, out)
           i2 == Invalidate(L1I, k.l1i, out)
           j == InsertL2(k, b, data, dirty)
<1>1. IsHierarchy(k) /\ GoodCaches(k.l1i, k.l1d, k.l2)
  BY DEF GoodHierarchy
<1>2. /\ Holds(L2, after, b)
      /\ ~MustEvict(L2, k.l2, b) => GoodCaches(k.l1i, k.l1d, after)
      /\ MustEvict(L2, k.l2, b) => GoodCaches(i2, d2, after)
  BY <1>1, InsertL2Caches
<1>3. /\ IsHierarchy(j) /\ j.l2 = after
      /\ ~MustEvict(L2, k.l2, b) => j.l1i = k.l1i /\ j.l1d = k.l1d
      /\ MustEvict(L2, k.l2, b) => j.l1i = i2 /\ j.l1d = d2
  <2>1. InsertL2Leaves(k, b, data, dirty, j)
    BY <1>1, InsertL2Parts
  <2> HIDE DEF j
  <2> QED BY <2>1 DEF InsertL2Leaves
<1> HIDE DEF after, out, d2, i2, j
<1>4. GoodCaches(j.l1i, j.l1d, j.l2)
  BY <1>2, <1>3
<1> QED BY <1>2, <1>3, <1>4 DEF GoodHierarchy, j

(* Inclusion with one L1 cache replaced by a good one whose blocks are in  *)
(* L2.                                                                     *)
InL2(g, c, u) == \A x \in Nat : Holds(g, c, x) => Holds(L2, u, x)

LEMMA SplitInclusion ==
  ASSUME NEW i, NEW d, NEW u
  PROVE  GoodCaches(i, d, u) <=>
           /\ GoodCache(L1I, i) /\ GoodCache(L1D, d) /\ GoodCache(L2, u)
           /\ InL2(L1I, i, u) /\ InL2(L1D, d, u)
BY DEF GoodCaches, WellFormed, Included, InL2

LEMMA InsertL1InL2 ==
  ASSUME NEW g, IsConfig(g), NEW c, GoodCache(g, c), NEW u, InL2(g, c, u),
         NEW b \in Nat, Holds(L2, u, b), NEW data, NEW dirty
  PROVE  /\ GoodCache(g, Insert(g, c, b, data, dirty))
         /\ InL2(g, Insert(g, c, b, data, dirty), u)
         /\ MustEvict(g, c, b) => Evicted(g, c, b).block \in Nat
<1> DEFINE after == Insert(g, c, b, data, dirty)
<1>1. GoodCache(g, after) /\ HeldAfterInsert(g, c, b, after)
  BY InsertFacts
<1>2. MustEvict(g, c, b) => Evicted(g, c, b).block \in Nat
  BY EvictedFacts
<1> HIDE DEF after
<1>3. InL2(g, after, u)
  BY <1>1 DEF HeldAfterInsert, InL2
<1> QED BY <1>1, <1>2, <1>3 DEF after

(* A block of L2 copied to an L1 cache, whose dirty victim goes to L2.     *)
LEMMA FillL1Facts ==
  ASSUME NEW k, GoodHierarchy(k), NEW l \in {"l1i", "l1d"}, NEW b \in Nat,
         Holds(L2, k.l2, b), NEW data
  PROVE  GoodHierarchy(FillL1(k, l, b, data))
<1>1. IsHierarchy(k) /\ GoodCaches(k.l1i, k.l1d, k.l2)
  BY DEF GoodHierarchy
<1>2. /\ GoodCache(L1I, k.l1i) /\ GoodCache(L1D, k.l1d) /\ GoodCache(L2, k.l2)
      /\ InL2(L1I, k.l1i, k.l2) /\ InL2(L1D, k.l1d, k.l2)
  BY <1>1, SplitInclusion
<1> DEFINE g == L1(l)
           c == k[l]
           after == Insert(g, c, b, data, FALSE)
           k1 == [k EXCEPT ![l] = after]
           out == Evicted(g, c, b)
<1>3. \/ FillL1(k, l, b, data) = k1
      \/ /\ MustEvict(g, c, b)
         /\ FillL1(k, l, b, data) = InsertL2(k1, out.block, out.data, TRUE)
  BY DEF FillL1
<1>4. /\ IsConfig(g) /\ GoodCache(g, c) /\ InL2(g, c, k.l2)
      /\ l = "l1i" => g = L1I /\ c = k.l1i
      /\ l = "l1d" => g = L1D /\ c = k.l1d
  BY <1>2, Configs DEF L1
<1> HIDE DEF g, c
<1>5. /\ GoodCache(g, after) /\ InL2(g, after, k.l2)
      /\ MustEvict(g, c, b) => out.block \in Nat
  BY <1>4, InsertL1InL2
<1> HIDE DEF after
<1>6. GoodHierarchy(k1)
  <2>1. CASE l = "l1i"
    <3>1. k1 = [k EXCEPT !.l1i = after]
      BY <2>1
    <3> HIDE DEF k1
    <3>2. IsHierarchy(k1) /\ k1.l1i = after /\ k1.l1d = k.l1d /\ k1.l2 = k.l2
      BY <1>1, <3>1, WithL1I
    <3>3. GoodCaches(after, k.l1d, k.l2)
      BY <1>2, <1>4, <1>5, <2>1, SplitInclusion
    <3> QED BY <3>2, <3>3 DEF GoodHierarchy
  <2>2. CASE l = "l1d"
    <3>1. k1 = [k EXCEPT !.l1d = after]
      BY <2>2
    <3> HIDE DEF k1
    <3>2. IsHierarchy(k1) /\ k1.l1i = k.l1i /\ k1.l1d = after /\ k1.l2 = k.l2
      BY <1>1, <3>1, WithL1D
    <3>3. GoodCaches(k.l1i, after, k.l2)
      BY <1>2, <1>4, <1>5, <2>2, SplitInclusion
    <3> QED BY <3>2, <3>3 DEF GoodHierarchy
  <2> QED BY <2>1, <2>2
<1> HIDE DEF k1, out
<1>7. MustEvict(g, c, b) => GoodHierarchy(InsertL2(k1, out.block, out.data, TRUE))
  BY <1>5, <1>6, InsertL2Facts
<1> QED BY <1>3, <1>6, <1>7

(* The cost of an access is no cache's. *)
LEMMA WithCost ==
  ASSUME NEW k, GoodHierarchy(k), NEW x
  PROVE  LET j == [k EXCEPT !.cost = x]
         IN GoodHierarchy(j) /\ SameCaches(k, j) /\ SameQueue(k, j)
<1> DEFINE r == [l1i |-> k.l1i, l1d |-> k.l1d, l2 |-> k.l2,
                 wb |-> k.wb, active |-> k.active, busy |-> k.busy, cost |-> k.cost]
           j == [r EXCEPT !.cost = x]
<1>1. /\ IsHierarchy(j) /\ j.l1i = k.l1i /\ j.l1d = k.l1d /\ j.l2 = k.l2
      /\ SameQueue(k, j)
  BY DEF IsHierarchy, SameQueue
<1>2. k = r
  BY DEF GoodHierarchy, IsHierarchy
<1> HIDE DEF r
<1>3. [k EXCEPT !.cost = x] = j
  BY <1>2
<1> HIDE DEF j
<1> QED BY <1>1, <1>3 DEF GoodHierarchy, SameCaches

(* A hit in one of the caches. *)
LEMMA HitFacts ==
  ASSUME NEW k, GoodHierarchy(k), NEW b \in Nat
  PROVE  /\ Holds(L1I, k.l1i, b) =>
              GoodHierarchy([k EXCEPT !.l1i = Accessed(L1I, k.l1i, b)])
         /\ Holds(L1D, k.l1d, b) =>
              GoodHierarchy([k EXCEPT !.l1d = Accessed(L1D, k.l1d, b)])
         /\ Holds(L2, k.l2, b) =>
              LET j == [k EXCEPT !.l2 = Accessed(L2, k.l2, b)]
              IN GoodHierarchy(j) /\ Holds(L2, j.l2, b)
<1>1. IsHierarchy(k) /\ GoodCaches(k.l1i, k.l1d, k.l2)
  BY DEF GoodHierarchy
<1>2. IsConfig(L1I) /\ IsConfig(L1D) /\ IsConfig(L2)
  BY Configs
<1>3. ASSUME Holds(L1I, k.l1i, b)
      PROVE  GoodHierarchy([k EXCEPT !.l1i = Accessed(L1I, k.l1i, b)])
  <2> DEFINE c == Accessed(L1I, k.l1i, b)
             j == [k EXCEPT !.l1i = c]
  <2>1. GoodCache(L1I, c) /\ \A x \in Nat : Holds(L1I, c, x) <=> Holds(L1I, k.l1i, x)
    BY <1>1, <1>2, <1>3, AccessedFacts DEF GoodCaches, WellFormed
  <2> HIDE DEF c
  <2>2. GoodCaches(c, k.l1d, k.l2)
    BY <1>1, <2>1 DEF GoodCaches, WellFormed, Included
  <2>3. IsHierarchy(j) /\ j.l1i = c /\ j.l1d = k.l1d /\ j.l2 = k.l2
    BY <1>1, WithL1I
  <2> HIDE DEF j
  <2>4. GoodHierarchy(j)
    BY <2>2, <2>3 DEF GoodHierarchy
  <2> QED BY <2>4 DEF j, c
<1>4. ASSUME Holds(L1D, k.l1d, b)
      PROVE  GoodHierarchy([k EXCEPT !.l1d = Accessed(L1D, k.l1d, b)])
  <2> DEFINE c == Accessed(L1D, k.l1d, b)
             j == [k EXCEPT !.l1d = c]
  <2>1. GoodCache(L1D, c) /\ \A x \in Nat : Holds(L1D, c, x) <=> Holds(L1D, k.l1d, x)
    BY <1>1, <1>2, <1>4, AccessedFacts DEF GoodCaches, WellFormed
  <2> HIDE DEF c
  <2>2. GoodCaches(k.l1i, c, k.l2)
    BY <1>1, <2>1 DEF GoodCaches, WellFormed, Included
  <2>3. IsHierarchy(j) /\ j.l1i = k.l1i /\ j.l1d = c /\ j.l2 = k.l2
    BY <1>1, WithL1D
  <2> HIDE DEF j
  <2>4. GoodHierarchy(j)
    BY <2>2, <2>3 DEF GoodHierarchy
  <2> QED BY <2>4 DEF j, c
<1>5. ASSUME Holds(L2, k.l2, b)
      PROVE  LET j == [k EXCEPT !.l2 = Accessed(L2, k.l2, b)]
             IN GoodHierarchy(j) /\ Holds(L2, j.l2, b)
  <2> DEFINE c == Accessed(L2, k.l2, b)
             j == [k EXCEPT !.l2 = c]
  <2>1. GoodCache(L2, c) /\ \A x \in Nat : Holds(L2, c, x) <=> Holds(L2, k.l2, x)
    BY <1>1, <1>2, <1>5, AccessedFacts DEF GoodCaches, WellFormed
  <2> HIDE DEF c
  <2>2. GoodCaches(k.l1i, k.l1d, c)
    BY <1>1, <2>1 DEF GoodCaches, WellFormed, Included
  <2>3. IsHierarchy(j) /\ j.l1i = k.l1i /\ j.l1d = k.l1d /\ j.l2 = c
    BY <1>1, WithL2
  <2> HIDE DEF j
  <2>4. GoodHierarchy(j) /\ Holds(L2, j.l2, b)
    BY <1>5, <2>1, <2>2, <2>3 DEF GoodHierarchy
  <2> QED BY <2>4 DEF j, c
<1> QED BY <1>3, <1>4, <1>5

(* fetch and _ensure_data_block. *)
LEMMA EnsuredFacts ==
  ASSUME NEW k, GoodHierarchy(k), NEW l \in {"l1i", "l1d"}, NEW b \in Nat,
         NEW behind
  PROVE  GoodHierarchy(Ensured(k, l, b, behind))
<1> DEFINE atL1 == [k EXCEPT !.cost = L1(l).latency]
           atL2 == [k EXCEPT !.cost = L1(l).latency + L2.latency]
           atMem == [k EXCEPT !.cost = L1(l).latency + L2.latency + MemoryLatency]
           found == LineOf(L2, k.l2, b).data
           hit == [atL2 EXCEPT !.l2 = Accessed(L2, atL2.l2, b)]
           after == Ensured(k, l, b, behind)
<1>1. \/ Holds(L1(l), k[l], b) /\ after = [atL1 EXCEPT ![l] = Accessed(L1(l), atL1[l], b)]
      \/ Holds(L2, k.l2, b) /\ after = FillL1(hit, l, b, found)
      \/ after = FillL1(InsertL2(atMem, b, behind, FALSE), l, b, behind)
  BY Zenon DEF Ensured
<1>2. /\ GoodHierarchy(atL1) /\ SameCaches(k, atL1)
      /\ GoodHierarchy(atL2) /\ SameCaches(k, atL2)
      /\ GoodHierarchy(atMem)
  BY WithCost
<1> HIDE DEF atL1, atL2, atMem, found, after
<1>3. CASE Holds(L1(l), k[l], b) /\ after = [atL1 EXCEPT ![l] = Accessed(L1(l), atL1[l], b)]
  <2>1. CASE l = "l1i"
    <3>1. Holds(L1I, atL1.l1i, b) /\ after = [atL1 EXCEPT !.l1i = Accessed(L1I, atL1.l1i, b)]
      BY <1>2, <1>3, <2>1 DEF L1, SameCaches
    <3> QED BY <1>2, <3>1, HitFacts DEF after
  <2>2. CASE l = "l1d"
    <3>1. Holds(L1D, atL1.l1d, b) /\ after = [atL1 EXCEPT !.l1d = Accessed(L1D, atL1.l1d, b)]
      BY <1>2, <1>3, <2>2 DEF L1, SameCaches
    <3> QED BY <1>2, <3>1, HitFacts DEF after
  <2> QED BY <2>1, <2>2
<1>4. CASE Holds(L2, k.l2, b) /\ after = FillL1(hit, l, b, found)
  <2>1. Holds(L2, atL2.l2, b)
    BY <1>2, <1>4 DEF SameCaches
  <2>2. GoodHierarchy(hit) /\ Holds(L2, hit.l2, b)
    BY <1>2, <2>1, HitFacts
  <2> HIDE DEF hit
  <2> QED BY <1>4, <2>2, FillL1Facts DEF after
<1>5. CASE after = FillL1(InsertL2(atMem, b, behind, FALSE), l, b, behind)
  <2> DEFINE j == InsertL2(atMem, b, behind, FALSE)
  <2>1. GoodHierarchy(j) /\ Holds(L2, j.l2, b)
    BY <1>2, InsertL2Facts
  <2> HIDE DEF j
  <2>2. after = FillL1(j, l, b, behind)
    BY <1>5 DEF j
  <2> QED BY <2>1, <2>2, FillL1Facts DEF after
<1> QED BY <1>1, <1>3, <1>4, <1>5

(* store_word. *)
LEMMA StoredFacts ==
  ASSUME NEW k, GoodHierarchy(k), NEW b \in Nat, NEW behind, NEW cell, NEW value
  PROVE  GoodHierarchy(Stored(k, b, behind, cell, value))
<1> DEFINE j == Ensured(k, "l1d", b, behind)
           c == Write(L1D, j.l1d, b, cell, value)
           after == [j EXCEPT !.l1d = c]
<1>1. Stored(k, b, behind, cell, value) = after
  BY DEF Stored
<1>2. GoodHierarchy(j)
  BY EnsuredFacts
<1> HIDE DEF j
<1>3. IsHierarchy(j) /\ GoodCaches(j.l1i, j.l1d, j.l2)
  BY <1>2 DEF GoodHierarchy
<1>4. GoodCache(L1D, c) /\ \A x \in Nat : Holds(L1D, c, x) <=> Holds(L1D, j.l1d, x)
  BY <1>3, Configs, WriteFacts DEF GoodCaches, WellFormed
<1> HIDE DEF c
<1>5. GoodCaches(j.l1i, c, j.l2)
  BY <1>3, <1>4 DEF GoodCaches, WellFormed, Included
<1>6. IsHierarchy(after) /\ after.l1i = j.l1i /\ after.l1d = c /\ after.l2 = j.l2
  BY <1>3, WithL1D
<1> HIDE DEF after
<1>7. GoodHierarchy(after)
  BY <1>5, <1>6 DEF GoodHierarchy
<1> QED BY <1>1, <1>7

LEMMA EmptyHierarchyFacts == GoodHierarchy(EmptyHierarchy)
<1> DEFINE k == EmptyHierarchy
<1>1. /\ IsHierarchy(k)
      /\ k.l1i = EmptyCache(L1I) /\ k.l1d = EmptyCache(L1D) /\ k.l2 = EmptyCache(L2)
  BY DEF EmptyHierarchy, IsHierarchy
<1>2. /\ GoodCache(L1I, EmptyCache(L1I)) /\ GoodCache(L1D, EmptyCache(L1D))
      /\ GoodCache(L2, EmptyCache(L2))
      /\ \A x \in Nat : ~Holds(L1I, EmptyCache(L1I), x) /\ ~Holds(L1D, EmptyCache(L1D), x)
  BY Configs, EmptyFacts
<1> HIDE DEF k
<1>3. GoodCaches(k.l1i, k.l1d, k.l2)
  BY <1>1, <1>2 DEF GoodCaches, WellFormed, Included
<1>4. GoodHierarchy(k)
  BY <1>1, <1>3 DEF GoodHierarchy
<1> QED BY <1>4 DEF k


-----------------------------------------------------------------------------
(* The queue of writes.                                                    *)

IsSeq(s) == \E S : s \in Seq(S)

(* A version d of block x waits in s; and anywhere in the controller. *)
WaitsIn(s, x, d) == \E i \in DOMAIN s : s[i].block = x /\ s[i].data = d
Queued(k, x, d) == WaitsIn(k.wb, x, d) \/ WaitsIn(k.active, x, d)

(* The controller is never idle with a write in hand. *)
QueueOK(k) ==
  /\ IsSeq(k.wb) /\ IsSeq(k.active)
  /\ k.busy \in Nat /\ (k.busy = 0 => k.active = << >>)

LEMMA AppendWaits ==
  ASSUME NEW s, IsSeq(s), NEW b, NEW data
  PROVE  LET t == Append(s, [block |-> b, data |-> data])
         IN /\ IsSeq(t)
            /\ \A x, d : WaitsIn(t, x, d) <=> WaitsIn(s, x, d) \/ (x = b /\ d = data)
<1> DEFINE e == [block |-> b, data |-> data]
           t == Append(s, e)
<1>1. PICK S : s \in Seq(S)
  BY DEF IsSeq
<1>2. e.block = b /\ e.data = data
  OBVIOUS
<1> HIDE DEF e
<1>3. s \in Seq(S \cup {e})
  BY <1>1
<1>4. t \in Seq(S \cup {e})
  BY <1>3
<1>5. /\ DOMAIN t = DOMAIN s \cup {Len(s) + 1}
      /\ \A i \in DOMAIN s : t[i] = s[i]
      /\ t[Len(s) + 1] = e
  BY <1>3
<1> HIDE DEF t
<1>6. \A x, d : WaitsIn(t, x, d) <=> WaitsIn(s, x, d) \/ (x = b /\ d = data)
  BY <1>2, <1>5 DEF WaitsIn
<1>7. IsSeq(t)
  BY <1>4 DEF IsSeq
<1> QED BY <1>6, <1>7 DEF t, e

LEMMA HeadWaits ==
  ASSUME NEW s, IsSeq(s), s # << >>
  PROVE  /\ IsSeq(<<Head(s)>>) /\ IsSeq(Tail(s))
         /\ \A x, d : WaitsIn(s, x, d) <=>
                        WaitsIn(<<Head(s)>>, x, d) \/ WaitsIn(Tail(s), x, d)
<1>1. PICK S : s \in Seq(S)
  BY DEF IsSeq
<1> DEFINE n == Len(s)
           first == <<Head(s)>>
           rest == Tail(s)
<1>2. first \in Seq(S) /\ rest \in Seq(S)
  BY <1>1
<1>3. /\ n \in Nat /\ n > 0 /\ DOMAIN s = 1..n
      /\ DOMAIN first = {1} /\ first[1] = s[1]
      /\ DOMAIN rest = 1..(n - 1) /\ \A i \in 1..(n - 1) : rest[i] = s[i + 1]
  BY <1>1
<1> HIDE DEF n, first, rest
<1>4. \A i \in DOMAIN s : i = 1 \/ (i - 1 \in 1..(n - 1) /\ (i - 1) + 1 = i)
  BY <1>3
<1>5. ASSUME NEW x, NEW d, WaitsIn(s, x, d)
      PROVE  WaitsIn(first, x, d) \/ WaitsIn(rest, x, d)
  <2>1. PICK i \in DOMAIN s : s[i].block = x /\ s[i].data = d
    BY <1>5 DEF WaitsIn
  <2>2. CASE i = 1
    BY <1>3, <2>1, <2>2 DEF WaitsIn
  <2>3. CASE i # 1
    <3>1. i - 1 \in DOMAIN rest /\ rest[i - 1] = s[i]
      BY <1>3, <1>4, <2>1, <2>3
    <3> QED BY <2>1, <3>1 DEF WaitsIn
  <2> QED BY <2>2, <2>3
<1>6. ASSUME NEW x, NEW d, WaitsIn(first, x, d) \/ WaitsIn(rest, x, d)
      PROVE  WaitsIn(s, x, d)
  <2>1. CASE WaitsIn(first, x, d)
    BY <1>3, <2>1 DEF WaitsIn
  <2>2. CASE WaitsIn(rest, x, d)
    <3>1. PICK i \in 1..(n - 1) : rest[i].block = x /\ rest[i].data = d
      BY <1>3, <2>2 DEF WaitsIn
    <3>2. i + 1 \in DOMAIN s /\ rest[i] = s[i + 1]
      BY <1>3, <3>1
    <3> QED BY <3>1, <3>2 DEF WaitsIn
  <2> QED BY <1>6, <2>1, <2>2
<1>7. IsSeq(first) /\ IsSeq(rest)
  BY <1>2 DEF IsSeq
<1> QED BY <1>5, <1>6, <1>7 DEF first, rest

-----------------------------------------------------------------------------
(* The invariant, for one block.                                           *)

(* Block x has version y in data memory, and v is the one to go on with:   *)
(* every waiting write carries it and then no cache has the block; a clean *)
(* copy in L2 is memory's; L1D's copy, or L2's if L1D's is not newer, or   *)
(* memory's, is v.                                                         *)
Sound(k, y, x, v) ==
  /\ \A d : Queued(k, x, d) => d = v /\ ~Holds(L2, k.l2, x)
  /\ Holds(L2, k.l2, x) /\ ~LineOf(L2, k.l2, x).dirty => LineOf(L2, k.l2, x).data = y
  /\ Holds(L1D, k.l1d, x) => LineOf(L1D, k.l1d, x).data = v
  /\ Holds(L2, k.l2, x) /\ ~HoldsDirty(L1D, k.l1d, x) => LineOf(L2, k.l2, x).data = v
  /\ ~Holds(L2, k.l2, x) /\ (\A d : ~Queued(k, x, d)) => y = v

(* L1D's clean copy is L2's. *)
Agrees(k, x) ==
  Holds(L1D, k.l1d, x) /\ ~LineOf(L1D, k.l1d, x).dirty =>
    LineOf(L1D, k.l1d, x).data = LineOf(L2, k.l2, x).data

(* Both copies of a block fetched from instruction memory are p. *)
CodeIs(k, x, p) ==
  /\ Holds(L1I, k.l1i, x) => LineOf(L1I, k.l1i, x).data = p
  /\ Holds(L2, k.l2, x) => LineOf(L2, k.l2, x).data = p

(* Nothing dirties L1I. *)
CleanL1I(k) ==
  \A x \in Nat : Holds(L1I, k.l1i, x) => ~LineOf(L1I, k.l1i, x).dirty

Ready(k) == GoodHierarchy(k) /\ QueueOK(k) /\ CleanL1I(k)

(* What an operation that takes the hierarchy from k to j may do to block  *)
(* x: leave it alone, put it in L2, or take it from all caches.            *)
SameFor(k, j, x) ==
  /\ Same(L1I, k.l1i, j.l1i, x) /\ Same(L1D, k.l1d, j.l1d, x) /\ Same(L2, k.l2, j.l2, x)
  /\ \A d : Queued(j, x, d) <=> Queued(k, x, d)
PutFor(k, j, x, data, dirty) ==
  /\ Same(L1I, k.l1i, j.l1i, x) /\ Same(L1D, k.l1d, j.l1d, x)
  /\ Holds(L2, j.l2, x)
  /\ LineOf(L2, j.l2, x).data = data /\ LineOf(L2, j.l2, x).dirty = dirty
  /\ \A d : Queued(j, x, d) <=> Queued(k, x, d)
GoneFor(k, j, x) ==
  /\ Holds(L2, k.l2, x)
  /\ ~Holds(L1I, j.l1i, x) /\ ~Holds(L1D, j.l1d, x) /\ ~Holds(L2, j.l2, x)
  /\ \A d : Queued(j, x, d) <=>
       \/ Queued(k, x, d)
       \/ HoldsDirty(L1D, k.l1d, x) /\ d = LineOf(L1D, k.l1d, x).data
       \/ /\ ~HoldsDirty(L1D, k.l1d, x) /\ LineOf(L2, k.l2, x).dirty
          /\ d = LineOf(L2, k.l2, x).data

LEMMA SameForFacts ==
  ASSUME NEW k, GoodHierarchy(k), NEW j, NEW x \in Nat, SameFor(k, j, x),
         NEW y, NEW v, NEW p
  PROVE  /\ Sound(k, y, x, v) => Sound(j, y, x, v)
         /\ Agrees(k, x) => Agrees(j, x)
         /\ CodeIs(k, x, p) => CodeIs(j, x, p)
<1>1. Holds(L1D, k.l1d, x) => Holds(L2, k.l2, x)
  BY DEF GoodHierarchy, GoodCaches, Included
<1>2. Sound(k, y, x, v) => Sound(j, y, x, v)
  BY DEF SameFor, Same, Sound, HoldsDirty
<1>3. Agrees(k, x) => Agrees(j, x)
  BY <1>1 DEF SameFor, Same, Agrees
<1>4. CodeIs(k, x, p) => CodeIs(j, x, p)
  BY DEF SameFor, Same, CodeIs
<1> QED BY <1>2, <1>3, <1>4

(* _insert_l2. *)
LEMMA InsertL2Effect ==
  ASSUME NEW k, GoodHierarchy(k), QueueOK(k), NEW b \in Nat, NEW data, NEW dirty,
         NEW x \in Nat, NEW j, j = InsertL2(k, b, data, dirty)
  PROVE  /\ QueueOK(j)
         /\ x = b => PutFor(k, j, x, data, dirty)
         /\ x # b /\ Displaced(L2, k.l2, b, x) => GoneFor(k, j, x)
         /\ x # b /\ ~Displaced(L2, k.l2, b, x) => SameFor(k, j, x)
<1> DEFINE out == Evicted(L2, k.l2, b)
           o == out.block
<1>1. /\ IsHierarchy(k) /\ GoodCache(L1I, k.l1i) /\ GoodCache(L1D, k.l1d)
      /\ GoodCache(L2, k.l2)
      /\ IsConfig(L1I) /\ IsConfig(L1D) /\ IsConfig(L2)
  BY Configs DEF GoodHierarchy, GoodCaches, WellFormed
<1>2. InsertL2Leaves(k, b, data, dirty, j)
  BY <1>1, InsertL2Parts
<1>3. j.l2 = Insert(L2, k.l2, b, data, dirty) /\ j.active = k.active /\ j.busy = k.busy
  BY <1>2 DEF InsertL2Leaves
<1>4. /\ x # b /\ ~Displaced(L2, k.l2, b, x) => Same(L2, k.l2, j.l2, x)
      /\ Holds(L2, j.l2, b)
      /\ LineOf(L2, j.l2, b).data = data /\ LineOf(L2, j.l2, b).dirty = dirty
  BY <1>1, <1>3, InsertData
<1>5. HeldAfterInsert(L2, k.l2, b, j.l2)
  BY <1>1, <1>3, InsertFacts
<1>6. CASE ~MustEvict(L2, k.l2, b)
  <2>1. j.l1i = k.l1i /\ j.l1d = k.l1d /\ j.wb = k.wb
    BY <1>2, <1>6 DEF InsertL2Leaves
  <2>2. Same(L1I, k.l1i, j.l1i, x) /\ Same(L1D, k.l1d, j.l1d, x)
    BY <2>1 DEF Same
  <2>3. QueueOK(j) /\ \A d : Queued(j, x, d) <=> Queued(k, x, d)
    BY <1>3, <2>1 DEF QueueOK, Queued
  <2>4. ~Displaced(L2, k.l2, b, x)
    BY <1>6 DEF Displaced
  <2> QED BY <1>4, <2>2, <2>3, <2>4 DEF PutFor, SameFor
<1>7. CASE MustEvict(L2, k.l2, b)
  <2>1. /\ o \in Nat /\ o # b /\ Holds(L2, k.l2, o)
        /\ out.data = LineOf(L2, k.l2, o).data /\ out.dirty = LineOf(L2, k.l2, o).dirty
    BY <1>1, <1>7, EvictedFacts, EvictedData
  <2>2. Displaced(L2, k.l2, b, x) <=> x = o
    BY <1>7 DEF Displaced
  <2>3. /\ j.l1i = Invalidate(L1I, k.l1i, o) /\ j.l1d = Invalidate(L1D, k.l1d, o)
        /\ IF HoldsDirty(L1D, k.l1d, o)
             THEN j.wb = Append(k.wb, [block |-> o, data |-> LineOf(L1D, k.l1d, o).data])
           ELSE IF out.dirty THEN j.wb = Append(k.wb, [block |-> o, data |-> out.data])
           ELSE j.wb = k.wb
    BY <1>2, <1>7 DEF InsertL2Leaves
  <2> HIDE DEF o, out
  <2>4. /\ Holds(L1I, j.l1i, x) <=> Holds(L1I, k.l1i, x) /\ x # o
        /\ Holds(L1D, j.l1d, x) <=> Holds(L1D, k.l1d, x) /\ x # o
    BY <1>1, <2>1, <2>3, InvalidateFacts
  <2>5. x # o => Same(L1I, k.l1i, j.l1i, x) /\ Same(L1D, k.l1d, j.l1d, x)
    BY <1>1, <2>1, <2>3, InvalidateSame
  <2>6. /\ IsSeq(j.wb)
        /\ \A d : WaitsIn(j.wb, x, d) <=>
             \/ WaitsIn(k.wb, x, d)
             \/ x = o /\ HoldsDirty(L1D, k.l1d, o) /\ d = LineOf(L1D, k.l1d, o).data
             \/ /\ x = o /\ ~HoldsDirty(L1D, k.l1d, o) /\ out.dirty
                /\ d = out.data
    <3>1. IsSeq(k.wb)
      BY DEF QueueOK
    <3>2. CASE HoldsDirty(L1D, k.l1d, o)
      <4> DEFINE e == LineOf(L1D, k.l1d, o).data
      <4>1. j.wb = Append(k.wb, [block |-> o, data |-> e])
        BY <2>3, <3>2
      <4> HIDE DEF e
      <4>2. /\ IsSeq(j.wb)
            /\ \A d : WaitsIn(j.wb, x, d) <=> WaitsIn(k.wb, x, d) \/ (x = o /\ d = e)
        BY <3>1, <4>1, AppendWaits
      <4> QED BY <3>2, <4>2 DEF e
    <3>3. CASE ~HoldsDirty(L1D, k.l1d, o) /\ out.dirty
      <4> DEFINE e == out.data
      <4>1. j.wb = Append(k.wb, [block |-> o, data |-> e])
        BY <2>3, <3>3
      <4> HIDE DEF e
      <4>2. /\ IsSeq(j.wb)
            /\ \A d : WaitsIn(j.wb, x, d) <=> WaitsIn(k.wb, x, d) \/ (x = o /\ d = e)
        BY <3>1, <4>1, AppendWaits
      <4> QED BY <3>3, <4>2 DEF e
    <3>4. CASE ~HoldsDirty(L1D, k.l1d, o) /\ ~out.dirty
      BY <2>3, <3>1, <3>4
    <3> QED BY <3>2, <3>3, <3>4
  <2>7. QueueOK(j)
    BY <1>3, <2>6 DEF QueueOK
  <2>8. x # o => \A d : Queued(j, x, d) <=> Queued(k, x, d)
    BY <1>3, <2>6 DEF Queued
  <2>9. x = b => PutFor(k, j, x, data, dirty)
    BY <1>4, <2>1, <2>5, <2>8 DEF PutFor
  <2>10. x # b /\ x # o => SameFor(k, j, x)
    BY <1>4, <2>2, <2>5, <2>8 DEF SameFor
  <2>11. x = o => GoneFor(k, j, x)
    <3>1. x = o => ~Holds(L2, j.l2, x)
      BY <1>5, <2>1, <2>2 DEF HeldAfterInsert
    <3>2. x = o => \A d : Queued(j, x, d) <=>
             \/ Queued(k, x, d)
             \/ HoldsDirty(L1D, k.l1d, x) /\ d = LineOf(L1D, k.l1d, x).data
             \/ /\ ~HoldsDirty(L1D, k.l1d, x) /\ LineOf(L2, k.l2, x).dirty
                /\ d = LineOf(L2, k.l2, x).data
      BY <1>3, <2>1, <2>6 DEF Queued
    <3> QED BY <2>1, <2>4, <3>1, <3>2 DEF GoneFor
  <2> QED BY <2>2, <2>7, <2>9, <2>10, <2>11
<1> QED BY <1>6, <1>7

(* The data is right to put in L2 for a block at v, and y in memory. *)
Fits(k, x, y, v, data, dirty) ==
  /\ ~Holds(L1D, k.l1d, x) /\ (\A d : ~Queued(k, x, d))
  /\ data = v /\ (dirty \/ y = v)

(* What it keeps: the invariant of its own block, if the data fits, and of *)
(* every other.                                                            *)
L2Keeps(k, b, data, dirty, j, x, y, v, p) ==
  /\ Holds(L1D, j.l1d, x) => Holds(L1D, k.l1d, x)
  /\ Agrees(k, x) /\ (x = b => ~Holds(L1D, k.l1d, x)) => Agrees(j, x)
  /\ x # b /\ Sound(k, y, x, v) => Sound(j, y, x, v)
  /\ x = b /\ Fits(k, x, y, v, data, dirty) => Sound(j, y, x, v)
  /\ CodeIs(k, x, p) /\ (x = b => data = p) => CodeIs(j, x, p)

LEMMA InsertL2Keeps ==
  ASSUME NEW k, Ready(k), NEW b \in Nat, NEW data, NEW dirty \in BOOLEAN,
         NEW j, j = InsertL2(k, b, data, dirty),
         NEW x \in Nat, NEW y, NEW v, NEW p
  PROVE  Ready(j) /\ L2Keeps(k, b, data, dirty, j, x, y, v, p)
<1>1. GoodHierarchy(k) /\ QueueOK(k) /\ CleanL1I(k)
  BY DEF Ready
<1>2. GoodHierarchy(j)
  BY <1>1, InsertL2Facts
<1>3. \A z \in Nat :
        /\ z = b => PutFor(k, j, z, data, dirty)
        /\ z # b => GoneFor(k, j, z) \/ SameFor(k, j, z)
  BY <1>1, InsertL2Effect
<1>4. QueueOK(j)
  BY <1>1, InsertL2Effect
<1>5. CleanL1I(j)
  BY <1>1, <1>3 DEF CleanL1I, PutFor, GoneFor, SameFor, Same
<1>6. CASE x = b
  <2>1. PutFor(k, j, x, data, dirty)
    BY <1>3, <1>6
  <2>2. Holds(L1D, j.l1d, x) <=> Holds(L1D, k.l1d, x)
    BY <2>1 DEF PutFor, Same
  <2>3. ~Holds(L1D, k.l1d, x) => Agrees(j, x)
    BY <2>2 DEF Agrees
  <2>4. Fits(k, x, y, v, data, dirty) => Sound(j, y, x, v)
    BY <2>1, <2>2 DEF PutFor, Sound, Fits
  <2>5. CodeIs(k, x, p) /\ data = p => CodeIs(j, x, p)
    BY <2>1 DEF PutFor, Same, CodeIs
  <2> QED BY <1>2, <1>4, <1>5, <1>6, <2>2, <2>3, <2>4, <2>5 DEF Ready, L2Keeps
<1>7. CASE x # b /\ SameFor(k, j, x)
  <2>1. /\ Sound(k, y, x, v) => Sound(j, y, x, v)
        /\ Agrees(k, x) => Agrees(j, x)
        /\ CodeIs(k, x, p) => CodeIs(j, x, p)
    BY <1>1, <1>7, SameForFacts
  <2>2. Holds(L1D, j.l1d, x) => Holds(L1D, k.l1d, x)
    BY <1>7 DEF SameFor, Same
  <2> QED BY <1>2, <1>4, <1>5, <1>7, <2>1, <2>2 DEF Ready, L2Keeps
<1>8. CASE x # b /\ GoneFor(k, j, x)
  <2>1. /\ ~Holds(L1I, j.l1i, x) /\ ~Holds(L1D, j.l1d, x) /\ ~Holds(L2, j.l2, x)
        /\ Holds(L2, k.l2, x)
    BY <1>8 DEF GoneFor
  <2>2. Sound(k, y, x, v) => Sound(j, y, x, v)
    <3> SUFFICES ASSUME Sound(k, y, x, v) PROVE Sound(j, y, x, v)
      OBVIOUS
    <3>1. \A d : ~Queued(k, x, d)
      BY <2>1 DEF Sound
    <3>2. HoldsDirty(L1D, k.l1d, x) => LineOf(L1D, k.l1d, x).data = v
      BY DEF Sound, HoldsDirty
    <3>3. ~HoldsDirty(L1D, k.l1d, x) => LineOf(L2, k.l2, x).data = v
      BY <2>1 DEF Sound
    <3>4. \A d : Queued(j, x, d) => d = v
      BY <1>8, <3>1, <3>2, <3>3 DEF GoneFor
    <3>5. ASSUME \A d : ~Queued(j, x, d) PROVE y = v
      <4>1. ~HoldsDirty(L1D, k.l1d, x) /\ ~LineOf(L2, k.l2, x).dirty
        BY <1>8, <3>5 DEF GoneFor
      <4> QED BY <2>1, <3>3, <4>1 DEF Sound
    <3> QED BY <2>1, <3>4, <3>5 DEF Sound
  <2>3. Agrees(j, x) /\ CodeIs(j, x, p)
    BY <2>1 DEF Agrees, CodeIs
  <2>4. Ready(j)
    BY <1>2, <1>4, <1>5 DEF Ready
  <2> QED BY <1>8, <2>1, <2>2, <2>3, <2>4 DEF L2Keeps
<1> QED BY <1>3, <1>6, <1>7, <1>8

(* A hierarchy with the same controller has the same queue. *)
LEMMA QueueFacts ==
  ASSUME NEW k, QueueOK(k), NEW j, SameQueue(k, j)
  PROVE  QueueOK(j) /\ \A x, d : Queued(j, x, d) <=> Queued(k, x, d)
BY DEF QueueOK, Queued, SameQueue

(* L1D.insert of a block of L2 (FillL1, without what becomes of the dirty  *)
(* victim): the invariant of every block but that victim, which is now     *)
(* right to put in L2.                                                     *)
DirtyVictim(g, c, b, x) == Displaced(g, c, b, x) /\ Evicted(g, c, b).dirty

L1DKeeps(k, b, j, x, y, v, p) ==
  /\ Holds(L1D, j.l1d, x) => Holds(L1D, k.l1d, x) \/ x = b
  /\ Agrees(k, x) => Agrees(j, x)
  /\ CodeIs(k, x, p) => CodeIs(j, x, p)
  /\ Sound(k, y, x, v) /\ ~DirtyVictim(L1D, k.l1d, b, x) => Sound(j, y, x, v)
  /\ Sound(k, y, x, v) /\ DirtyVictim(L1D, k.l1d, b, x) =>
       Fits(j, x, y, v, Evicted(L1D, k.l1d, b).data, TRUE)
  /\ DirtyVictim(L1D, k.l1d, b, x) => ~Holds(L1D, j.l1d, x)

LEMMA InsertL1DKeeps ==
  ASSUME NEW k, Ready(k), NEW b \in Nat, Holds(L2, k.l2, b), ~Holds(L1D, k.l1d, b),
         NEW data, data = LineOf(L2, k.l2, b).data,
         NEW j, j = [k EXCEPT !.l1d = Insert(L1D, k.l1d, b, data, FALSE)],
         NEW x \in Nat, NEW y, NEW v, NEW p
  PROVE  /\ Ready(j) /\ j.l2 = k.l2 /\ Holds(L1D, j.l1d, b)
         /\ L1DKeeps(k, b, j, x, y, v, p)
<1> DEFINE c == Insert(L1D, k.l1d, b, data, FALSE)
<1>1. /\ IsHierarchy(k) /\ GoodCache(L1D, k.l1d) /\ IsConfig(L1D)
      /\ GoodCache(L1I, k.l1i) /\ GoodCache(L2, k.l2)
      /\ QueueOK(k) /\ CleanL1I(k)
      /\ InL2(L1I, k.l1i, k.l2) /\ InL2(L1D, k.l1d, k.l2)
  BY Configs DEF Ready, GoodHierarchy, GoodCaches, WellFormed, Included, InL2
<1>2. /\ Holds(L1D, c, b) /\ LineOf(L1D, c, b).data = data
      /\ LineOf(L1D, c, b).dirty = FALSE
      /\ x # b /\ ~Displaced(L1D, k.l1d, b, x) => Same(L1D, k.l1d, c, x)
  <2> DEFINE clean == FALSE
             after == Insert(L1D, k.l1d, b, data, clean)
  <2> HIDE DEF clean
  <2>1. /\ Holds(L1D, after, b) /\ LineOf(L1D, after, b).data = data
        /\ LineOf(L1D, after, b).dirty = clean
        /\ x # b /\ ~Displaced(L1D, k.l1d, b, x) => Same(L1D, k.l1d, after, x)
    BY <1>1, InsertData
  <2> QED BY <2>1 DEF clean
<1>3. GoodCache(L1D, c) /\ HeldAfterInsert(L1D, k.l1d, b, c)
  BY <1>1, InsertFacts
<1>4. InL2(L1D, c, k.l2)
  BY <1>1, InsertL1InL2
<1> HIDE DEF c
<1>5. /\ IsHierarchy(j) /\ j.l1i = k.l1i /\ j.l1d = c /\ j.l2 = k.l2
      /\ SameQueue(k, j)
  BY <1>1, WithL1D DEF c
<1>6. QueueOK(j) /\ \A d : Queued(j, x, d) <=> Queued(k, x, d)
  BY <1>1, <1>5, QueueFacts
<1>7. GoodHierarchy(j)
  BY <1>1, <1>3, <1>4, <1>5, SplitInclusion DEF GoodHierarchy
<1>8. Ready(j)
  BY <1>1, <1>5, <1>6, <1>7 DEF Ready, CleanL1I
<1>9. Holds(L1D, c, x) => Holds(L1D, k.l1d, x) \/ x = b
  BY <1>3 DEF HeldAfterInsert
<1>10. CodeIs(k, x, p) => CodeIs(j, x, p)
  BY <1>5 DEF CodeIs
<1>11. CASE x = b
  <2>1. ~HoldsDirty(L1D, k.l1d, b) /\ ~HoldsDirty(L1D, c, b)
    BY <1>2 DEF HoldsDirty
  <2>2. Agrees(j, x)
    BY <1>2, <1>5, <1>11 DEF Agrees
  <2>3. Sound(k, y, x, v) => Sound(j, y, x, v)
    BY <1>2, <1>5, <1>6, <1>11, <2>1 DEF Sound
  <2>4. ~DirtyVictim(L1D, k.l1d, b, x)
    BY <1>1, <1>11, EvictedFacts DEF DirtyVictim, Displaced
  <2> QED BY <1>2, <1>5, <1>8, <1>9, <1>10, <2>2, <2>3, <2>4 DEF L1DKeeps
<1>12. CASE x # b /\ ~Displaced(L1D, k.l1d, b, x)
  <2>1. SameFor(k, j, x)
    BY <1>2, <1>5, <1>6, <1>12 DEF SameFor, Same
  <2>2. /\ Sound(k, y, x, v) => Sound(j, y, x, v)
        /\ Agrees(k, x) => Agrees(j, x)
    BY <2>1, SameForFacts DEF Ready
  <2>3. ~DirtyVictim(L1D, k.l1d, b, x)
    BY <1>12 DEF DirtyVictim
  <2> QED BY <1>2, <1>5, <1>8, <1>9, <1>10, <2>2, <2>3 DEF L1DKeeps
<1>13. CASE x # b /\ Displaced(L1D, k.l1d, b, x)
  <2> DEFINE out == Evicted(L1D, k.l1d, b)
  <2>1. MustEvict(L1D, k.l1d, b) /\ x = out.block
    BY <1>13 DEF Displaced
  <2>2. /\ Holds(L1D, k.l1d, x)
        /\ out.data = LineOf(L1D, k.l1d, x).data /\ out.dirty = LineOf(L1D, k.l1d, x).dirty
    BY <1>1, <2>1, EvictedFacts, EvictedData
  <2> HIDE DEF out
  <2>3. ~Holds(L1D, c, x)
    BY <1>3, <1>13 DEF HeldAfterInsert
  <2>4. Holds(L2, k.l2, x)
    BY <1>1, <2>2 DEF InL2
  <2>5. DirtyVictim(L1D, k.l1d, b, x) <=> HoldsDirty(L1D, k.l1d, x)
    BY <1>13, <2>2 DEF DirtyVictim, HoldsDirty, out
  <2>6. Agrees(j, x)
    BY <1>5, <2>3 DEF Agrees
  <2>7. ASSUME Sound(k, y, x, v), ~DirtyVictim(L1D, k.l1d, b, x)
        PROVE  Sound(j, y, x, v)
    BY <1>5, <1>6, <2>3, <2>5, <2>7 DEF Sound, HoldsDirty
  <2>8. ASSUME Sound(k, y, x, v), DirtyVictim(L1D, k.l1d, b, x)
        PROVE  Fits(j, x, y, v, out.data, TRUE)
    <3>1. out.data = v
      BY <2>2, <2>8 DEF Sound
    <3>2. \A d : ~Queued(j, x, d)
      BY <1>6, <2>4, <2>8 DEF Sound
    <3> QED BY <1>5, <2>3, <3>1, <3>2 DEF Fits
  <2> QED BY <1>2, <1>5, <1>8, <1>9, <1>10, <2>3, <2>6, <2>7, <2>8 DEF out, L1DKeeps
<1> QED BY <1>11, <1>12, <1>13

(* FillL1 of L1D: the dirty victim, if there is one, goes to L2, which has *)
(* its block and so evicts nothing.                                        *)
LEMMA FillL1DKeeps ==
  ASSUME NEW k, Ready(k), NEW b \in Nat, Holds(L2, k.l2, b), ~Holds(L1D, k.l1d, b),
         NEW data, data = LineOf(L2, k.l2, b).data,
         NEW j, j = FillL1(k, "l1d", b, data),
         NEW x \in Nat, NEW y, NEW v, NEW p
  PROVE  /\ Ready(j) /\ Holds(L1D, j.l1d, b)
         /\ Holds(L1D, j.l1d, x) => Holds(L1D, k.l1d, x) \/ x = b
         /\ Agrees(k, x) => Agrees(j, x)
         /\ Sound(k, y, x, v) => Sound(j, y, x, v)
         /\ CodeIs(k, x, p) /\ ~Holds(L1D, k.l1d, x) => CodeIs(j, x, p)
<1> DEFINE out == Evicted(L1D, k.l1d, b)
           m == [k EXCEPT !.l1d = Insert(L1D, k.l1d, b, data, FALSE)]
<1>1. /\ GoodHierarchy(k) /\ GoodCache(L1D, k.l1d) /\ IsConfig(L1D)
      /\ InL2(L1D, k.l1d, k.l2)
  BY Configs DEF Ready, GoodHierarchy, GoodCaches, WellFormed, Included, InL2
<1>2. IF MustEvict(L1D, k.l1d, b) /\ out.dirty
        THEN j = InsertL2(m, out.block, out.data, TRUE)
        ELSE j = m
  BY Zenon DEF FillL1, L1
<1> HIDE DEF m
<1>3. /\ Ready(m) /\ m.l2 = k.l2 /\ Holds(L1D, m.l1d, b)
      /\ L1DKeeps(k, b, m, x, y, v, p)
  BY InsertL1DKeeps DEF m
<1> HIDE DEF out
<1>4. CASE ~(MustEvict(L1D, k.l1d, b) /\ out.dirty)
  <2>1. j = m /\ ~DirtyVictim(L1D, k.l1d, b, x)
    BY <1>2, <1>4 DEF DirtyVictim, Displaced, out
  <2> QED BY <1>3, <2>1 DEF L1DKeeps
<1>5. CASE MustEvict(L1D, k.l1d, b) /\ out.dirty
  <2> DEFINE o == out.block
  <2>1. o \in Nat /\ o # b /\ Holds(L1D, k.l1d, o)
    BY <1>1, <1>5, EvictedFacts DEF out
  <2>2. j = InsertL2(m, o, out.data, TRUE)
    BY <1>2, <1>5
  <2>3. DirtyVictim(L1D, k.l1d, b, x) <=> x = o
    BY <1>5 DEF DirtyVictim, Displaced, out
  <2> DEFINE d == out.data
             dirty == TRUE
  <2> HIDE DEF o, d, dirty
  <2>4. j = InsertL2(m, o, d, dirty) /\ dirty \in BOOLEAN /\ dirty
    BY <2>2 DEF d, dirty
  <2>5. Ready(m)
    BY <1>3, <2>1
  <2>6. Ready(j) /\ L2Keeps(m, o, d, dirty, j, x, y, v, p)
    BY <2>1, <2>4, <2>5, InsertL2Keeps
  <2>7. Sound(k, y, x, v) => Sound(j, y, x, v)
    BY <1>3, <2>3, <2>6 DEF d, dirty, out, L1DKeeps, L2Keeps
  <2>8. Holds(L1D, j.l1d, b)
    <3>1. Holds(L2, m.l2, o)
      BY <1>1, <1>3, <2>1 DEF InL2
    <3>2. ~Displaced(L2, m.l2, o, b)
      BY <3>1 DEF Displaced, MustEvict
    <3>3. SameFor(m, j, b)
      BY <2>1, <2>4, <2>5, <3>2, InsertL2Effect DEF Ready
    <3> QED BY <1>3, <2>1, <3>3 DEF SameFor, Same
  <2> QED BY <1>3, <2>1, <2>3, <2>6, <2>7, <2>8 DEF L1DKeeps, L2Keeps
<1> QED BY <1>4, <1>5

(* FillL1 of L1I, which has no dirty victim.                               *)
LEMMA FillL1IKeeps ==
  ASSUME NEW k, Ready(k), NEW b \in Nat, Holds(L2, k.l2, b), ~Holds(L1I, k.l1i, b),
         NEW data, data = LineOf(L2, k.l2, b).data,
         NEW j, j = FillL1(k, "l1i", b, data),
         NEW x \in Nat, NEW y, NEW v, NEW p
  PROVE  /\ Ready(j)
         /\ Holds(L1D, j.l1d, x) => Holds(L1D, k.l1d, x)
         /\ Agrees(k, x) => Agrees(j, x)
         /\ Sound(k, y, x, v) => Sound(j, y, x, v)
         /\ CodeIs(k, x, p) => CodeIs(j, x, p)
<1> DEFINE out == Evicted(L1I, k.l1i, b)
           c == Insert(L1I, k.l1i, b, data, FALSE)
           m == [k EXCEPT !.l1i = c]
<1>1. /\ IsHierarchy(k) /\ GoodCache(L1I, k.l1i) /\ IsConfig(L1I)
      /\ GoodCache(L1D, k.l1d) /\ GoodCache(L2, k.l2)
      /\ QueueOK(k) /\ CleanL1I(k)
      /\ InL2(L1I, k.l1i, k.l2) /\ InL2(L1D, k.l1d, k.l2)
  BY Configs DEF Ready, GoodHierarchy, GoodCaches, WellFormed, Included, InL2
<1>2. ~(MustEvict(L1I, k.l1i, b) /\ out.dirty)
  BY <1>1, EvictedFacts, EvictedData DEF CleanL1I
<1>3. j = m
  BY <1>2, Zenon DEF FillL1, L1
<1>4. /\ Holds(L1I, c, b) /\ LineOf(L1I, c, b).data = data
      /\ LineOf(L1I, c, b).dirty = FALSE
      /\ \A z \in Nat : z # b /\ ~Displaced(L1I, k.l1i, b, z) => Same(L1I, k.l1i, c, z)
  <2> DEFINE clean == FALSE
             after == Insert(L1I, k.l1i, b, data, clean)
  <2> HIDE DEF clean
  <2>1. \A z \in Nat :
          /\ Holds(L1I, after, b) /\ LineOf(L1I, after, b).data = data
          /\ LineOf(L1I, after, b).dirty = clean
          /\ z # b /\ ~Displaced(L1I, k.l1i, b, z) => Same(L1I, k.l1i, after, z)
    BY <1>1, InsertData
  <2> QED BY <2>1 DEF clean
<1>5. GoodCache(L1I, c) /\ HeldAfterInsert(L1I, k.l1i, b, c) /\ InL2(L1I, c, k.l2)
  BY <1>1, InsertFacts, InsertL1InL2
<1> HIDE DEF c, m, out
<1>6. /\ IsHierarchy(j) /\ j.l1i = c /\ j.l1d = k.l1d /\ j.l2 = k.l2
      /\ SameQueue(k, j)
  <2>1. /\ IsHierarchy(m) /\ m.l1i = c /\ m.l1d = k.l1d /\ m.l2 = k.l2
        /\ SameQueue(k, m)
    BY <1>1, WithL1I DEF m
  <2> QED BY <1>3, <2>1
<1>7. QueueOK(j) /\ \A d : Queued(j, x, d) <=> Queued(k, x, d)
  BY <1>1, <1>6, QueueFacts
<1>8. GoodHierarchy(j)
  BY <1>1, <1>5, <1>6, SplitInclusion DEF GoodHierarchy
<1>9. \A z \in Nat : z # b /\ Holds(L1I, c, z) => Same(L1I, k.l1i, c, z) /\ Holds(L1I, k.l1i, z)
  BY <1>4, <1>5 DEF HeldAfterInsert
<1>10. CleanL1I(j)
  BY <1>1, <1>4, <1>6, <1>9 DEF CleanL1I, Same
<1>11. CodeIs(k, x, p) => CodeIs(j, x, p)
  BY <1>4, <1>6, <1>9 DEF CodeIs, Same
<1>12. /\ Sound(k, y, x, v) => Sound(j, y, x, v)
       /\ Agrees(k, x) => Agrees(j, x)
  BY <1>6, <1>7 DEF Sound, Agrees
<1> QED BY <1>6, <1>7, <1>8, <1>10, <1>11, <1>12 DEF Ready

(* The cost of an access is no block's.                                    *)
LEMMA CostFacts ==
  ASSUME NEW k, Ready(k), NEW cost, NEW j, j = [k EXCEPT !.cost = cost]
  PROVE  /\ Ready(j) /\ SameCaches(k, j)
         /\ \A x \in Nat : SameFor(k, j, x)
<1>1. GoodHierarchy(j) /\ SameCaches(k, j) /\ SameQueue(k, j)
  BY WithCost DEF Ready
<1>2. QueueOK(j) /\ \A x, d : Queued(j, x, d) <=> Queued(k, x, d)
  BY <1>1, QueueFacts DEF Ready
<1>3. \A x \in Nat : SameFor(k, j, x)
  BY <1>1, <1>2 DEF SameCaches, SameFor, Same
<1>4. CleanL1I(j)
  BY <1>1 DEF Ready, CleanL1I, SameCaches
<1> QED BY <1>1, <1>2, <1>3, <1>4 DEF Ready

(* Nor does a hit change any. *)
LEMMA HitL1IKeeps ==
  ASSUME NEW k, Ready(k), NEW b \in Nat, Holds(L1I, k.l1i, b),
         NEW j, j = [k EXCEPT !.l1i = Accessed(L1I, k.l1i, b)]
  PROVE  Ready(j) /\ \A x \in Nat : SameFor(k, j, x)
<1> DEFINE c == Accessed(L1I, k.l1i, b)
<1>1. IsHierarchy(k) /\ GoodCache(L1I, k.l1i) /\ IsConfig(L1I) /\ QueueOK(k) /\ CleanL1I(k)
  BY Configs DEF Ready, GoodHierarchy, GoodCaches, WellFormed
<1>2. GoodHierarchy(j)
  BY HitFacts DEF Ready
<1>3. \A x \in Nat : Same(L1I, k.l1i, c, x)
  BY <1>1, AccessedSame
<1> HIDE DEF c
<1>4. /\ j.l1i = c /\ j.l1d = k.l1d /\ j.l2 = k.l2
      /\ SameQueue(k, j)
  BY <1>1, WithL1I DEF c
<1>5. QueueOK(j) /\ \A x, d : Queued(j, x, d) <=> Queued(k, x, d)
  BY <1>1, <1>4, QueueFacts
<1>6. \A x \in Nat : SameFor(k, j, x)
  BY <1>3, <1>4, <1>5 DEF SameFor, Same
<1>7. CleanL1I(j)
  BY <1>1, <1>3, <1>4 DEF CleanL1I, Same
<1> QED BY <1>2, <1>5, <1>6, <1>7 DEF Ready

LEMMA HitL1DKeeps ==
  ASSUME NEW k, Ready(k), NEW b \in Nat, Holds(L1D, k.l1d, b),
         NEW j, j = [k EXCEPT !.l1d = Accessed(L1D, k.l1d, b)]
  PROVE  Ready(j) /\ \A x \in Nat : SameFor(k, j, x)
<1> DEFINE c == Accessed(L1D, k.l1d, b)
<1>1. IsHierarchy(k) /\ GoodCache(L1D, k.l1d) /\ IsConfig(L1D) /\ QueueOK(k) /\ CleanL1I(k)
  BY Configs DEF Ready, GoodHierarchy, GoodCaches, WellFormed
<1>2. GoodHierarchy(j)
  BY HitFacts DEF Ready
<1>3. \A x \in Nat : Same(L1D, k.l1d, c, x)
  BY <1>1, AccessedSame
<1> HIDE DEF c
<1>4. /\ j.l1i = k.l1i /\ j.l1d = c /\ j.l2 = k.l2
      /\ SameQueue(k, j)
  BY <1>1, WithL1D DEF c
<1>5. QueueOK(j) /\ \A x, d : Queued(j, x, d) <=> Queued(k, x, d)
  BY <1>1, <1>4, QueueFacts
<1>6. \A x \in Nat : SameFor(k, j, x)
  BY <1>3, <1>4, <1>5 DEF SameFor, Same
<1>7. CleanL1I(j)
  BY <1>1, <1>4 DEF CleanL1I
<1> QED BY <1>2, <1>5, <1>6, <1>7 DEF Ready

LEMMA HitL2Keeps ==
  ASSUME NEW k, Ready(k), NEW b \in Nat, Holds(L2, k.l2, b),
         NEW j, j = [k EXCEPT !.l2 = Accessed(L2, k.l2, b)]
  PROVE  Ready(j) /\ \A x \in Nat : SameFor(k, j, x)
<1> DEFINE c == Accessed(L2, k.l2, b)
<1>1. IsHierarchy(k) /\ GoodCache(L2, k.l2) /\ IsConfig(L2) /\ QueueOK(k) /\ CleanL1I(k)
  BY Configs DEF Ready, GoodHierarchy, GoodCaches, WellFormed
<1>2. GoodHierarchy(j)
  BY HitFacts DEF Ready
<1>3. \A x \in Nat : Same(L2, k.l2, c, x)
  BY <1>1, AccessedSame
<1> HIDE DEF c
<1>4. /\ j.l1i = k.l1i /\ j.l1d = k.l1d /\ j.l2 = c
      /\ SameQueue(k, j)
  BY <1>1, WithL2 DEF c
<1>5. QueueOK(j) /\ \A x, d : Queued(j, x, d) <=> Queued(k, x, d)
  BY <1>1, <1>4, QueueFacts
<1>6. \A x \in Nat : SameFor(k, j, x)
  BY <1>3, <1>4, <1>5 DEF SameFor, Same
<1>7. CleanL1I(j)
  BY <1>1, <1>4 DEF CleanL1I
<1> QED BY <1>2, <1>5, <1>6, <1>7 DEF Ready

(* _ensure_data_block, whose block is one of data: if it comes from        *)
(* memory, none of its versions may be waiting.                            *)
DataKeeps(k, b, behind, j, x, y, v, p) ==
  /\ Holds(L1D, j.l1d, x) => Holds(L1D, k.l1d, x) \/ x = b
  /\ Agrees(k, x) => Agrees(j, x)
  /\ /\ Sound(k, y, x, v)
     /\ x = b /\ Misses(k, "l1d", b) => behind = y /\ \A d : ~Queued(k, b, d)
     => Sound(j, y, x, v)
  /\ CodeIs(k, x, p) /\ ~Holds(L1D, k.l1d, x) /\ x # b => CodeIs(j, x, p)

LEMMA EnsuredL1DKeeps ==
  ASSUME NEW k, Ready(k), NEW b \in Nat, NEW behind,
         NEW j, j = Ensured(k, "l1d", b, behind),
         NEW x \in Nat, NEW y, NEW v, NEW p
  PROVE  Ready(j) /\ Holds(L1D, j.l1d, b) /\ DataKeeps(k, b, behind, j, x, y, v, p)
<1> DEFINE atL1 == [k EXCEPT !.cost = L1D.latency]
           atL2 == [k EXCEPT !.cost = L1D.latency + L2.latency]
           atMem == [k EXCEPT !.cost = L1D.latency + L2.latency + MemoryLatency]
           found == LineOf(L2, k.l2, b).data
           hit == [atL2 EXCEPT !.l2 = Accessed(L2, atL2.l2, b)]
           filled == InsertL2(atMem, b, behind, FALSE)
<1>1. IF Holds(L1D, k.l1d, b) THEN j = [atL1 EXCEPT !.l1d = Accessed(L1D, atL1.l1d, b)]
      ELSE IF Holds(L2, k.l2, b) THEN j = FillL1(hit, "l1d", b, found)
      ELSE j = FillL1(filled, "l1d", b, behind)
  BY Zenon DEF Ensured, L1
<1>2. /\ Ready(atL1) /\ SameCaches(k, atL1) /\ \A z \in Nat : SameFor(k, atL1, z)
      /\ Ready(atL2) /\ SameCaches(k, atL2) /\ \A z \in Nat : SameFor(k, atL2, z)
      /\ Ready(atMem) /\ SameCaches(k, atMem) /\ \A z \in Nat : SameFor(k, atMem, z)
  BY CostFacts
<1> HIDE DEF atL1, atL2, atMem
<1>3. CASE Holds(L1D, k.l1d, b)
  <2>1. j = [atL1 EXCEPT !.l1d = Accessed(L1D, atL1.l1d, b)] /\ Holds(L1D, atL1.l1d, b)
    BY <1>1, <1>2, <1>3 DEF SameCaches
  <2>2. Ready(j) /\ \A z \in Nat : SameFor(atL1, j, z)
    BY <1>2, <2>1, HitL1DKeeps
  <2>3. \A z \in Nat : SameFor(k, j, z)
    BY <1>2, <2>2 DEF SameFor, Same
  <2>4. Holds(L1D, j.l1d, b) /\ (Holds(L1D, j.l1d, x) => Holds(L1D, k.l1d, x))
    BY <1>3, <2>3 DEF SameFor, Same
  <2>5. /\ Sound(k, y, x, v) => Sound(j, y, x, v)
        /\ Agrees(k, x) => Agrees(j, x)
        /\ CodeIs(k, x, p) => CodeIs(j, x, p)
    BY <2>3, SameForFacts DEF Ready
  <2> QED BY <2>2, <2>4, <2>5 DEF DataKeeps
<1>4. CASE ~Holds(L1D, k.l1d, b) /\ Holds(L2, k.l2, b)
  <2>1. j = FillL1(hit, "l1d", b, found) /\ Holds(L2, atL2.l2, b)
    BY <1>1, <1>2, <1>4 DEF SameCaches
  <2>2. Ready(hit) /\ \A z \in Nat : SameFor(atL2, hit, z)
    BY <1>2, <2>1, HitL2Keeps
  <2> HIDE DEF hit, found
  <2>3. \A z \in Nat : SameFor(k, hit, z)
    BY <1>2, <2>2 DEF SameFor, Same
  <2>4. /\ ~Holds(L1D, hit.l1d, b) /\ Holds(L2, hit.l2, b)
        /\ found = LineOf(L2, hit.l2, b).data
        /\ Holds(L1D, hit.l1d, x) <=> Holds(L1D, k.l1d, x)
    BY <1>4, <2>3 DEF SameFor, Same, found
  <2>5. /\ Ready(j) /\ Holds(L1D, j.l1d, b)
        /\ Holds(L1D, j.l1d, x) => Holds(L1D, hit.l1d, x) \/ x = b
        /\ Agrees(hit, x) => Agrees(j, x)
        /\ Sound(hit, y, x, v) => Sound(j, y, x, v)
        /\ CodeIs(hit, x, p) /\ ~Holds(L1D, hit.l1d, x) => CodeIs(j, x, p)
    BY <2>1, <2>2, <2>4, FillL1DKeeps
  <2>6. /\ Sound(k, y, x, v) => Sound(hit, y, x, v)
        /\ Agrees(k, x) => Agrees(hit, x)
        /\ CodeIs(k, x, p) => CodeIs(hit, x, p)
    BY <2>3, SameForFacts DEF Ready
  <2> QED BY <2>4, <2>5, <2>6 DEF DataKeeps
<1>5. CASE ~Holds(L1D, k.l1d, b) /\ ~Holds(L2, k.l2, b)
  <2> DEFINE clean == FALSE
             m == InsertL2(atMem, b, behind, clean)
  <2>1. j = FillL1(m, "l1d", b, behind)
    BY <1>1, <1>5
  <2> HIDE DEF filled, clean
  <2>2. clean \in BOOLEAN
    BY DEF clean
  <2>3. /\ ~Holds(L1D, atMem.l1d, b)
        /\ \A z \in Nat : Holds(L1D, atMem.l1d, z) <=> Holds(L1D, k.l1d, z)
        /\ \A d : Queued(atMem, b, d) <=> Queued(k, b, d)
    BY <1>2, <1>5 DEF SameFor, Same
  <2>4. /\ Ready(m) /\ L2Keeps(atMem, b, behind, clean, m, x, y, v, p)
        /\ L2Keeps(atMem, b, behind, clean, m, b, y, v, p)
    BY <1>2, <2>2, InsertL2Keeps
  <2>5. PutFor(atMem, m, b, behind, clean)
    BY <1>2, InsertL2Effect DEF Ready
  <2> HIDE DEF m
  <2>6. ~Holds(L1D, m.l1d, b) /\ Holds(L2, m.l2, b) /\ behind = LineOf(L2, m.l2, b).data
    BY <2>3, <2>4, <2>5 DEF L2Keeps, PutFor
  <2>7. /\ Ready(j) /\ Holds(L1D, j.l1d, b)
        /\ Holds(L1D, j.l1d, x) => Holds(L1D, m.l1d, x) \/ x = b
        /\ Agrees(m, x) => Agrees(j, x)
        /\ Sound(m, y, x, v) => Sound(j, y, x, v)
        /\ CodeIs(m, x, p) /\ ~Holds(L1D, m.l1d, x) => CodeIs(j, x, p)
    BY <2>1, <2>4, <2>6, FillL1DKeeps
  <2>8. /\ Sound(k, y, x, v) => Sound(atMem, y, x, v)
        /\ Agrees(k, x) => Agrees(atMem, x)
        /\ CodeIs(k, x, p) => CodeIs(atMem, x, p)
    BY <1>2, SameForFacts DEF Ready
  <2>9. Holds(L1D, j.l1d, x) => Holds(L1D, k.l1d, x) \/ x = b
    BY <2>3, <2>4, <2>7 DEF L2Keeps
  <2>10. Agrees(k, x) => Agrees(j, x)
    BY <2>3, <2>4, <2>7, <2>8 DEF L2Keeps
  <2>11. CodeIs(k, x, p) /\ ~Holds(L1D, k.l1d, x) /\ x # b => CodeIs(j, x, p)
    BY <2>3, <2>4, <2>7, <2>8 DEF L2Keeps
  <2>12. ASSUME Sound(k, y, x, v),
                x = b /\ Misses(k, "l1d", b) => behind = y /\ \A d : ~Queued(k, b, d)
         PROVE  Sound(m, y, x, v)
    <3>1. CASE x # b
      BY <2>4, <2>8, <2>12, <3>1 DEF L2Keeps
    <3>2. CASE x = b
      <4>1. Misses(k, "l1d", b)
        BY <1>5 DEF Misses, L1
      <4>2. behind = y /\ \A d : ~Queued(k, b, d)
        BY <2>12, <3>2, <4>1
      <4>3. y = v
        BY <1>5, <2>12, <3>2, <4>2 DEF Sound
      <4>4. Fits(atMem, x, y, v, behind, clean)
        BY <2>3, <3>2, <4>2, <4>3 DEF Fits
      <4> QED BY <2>4, <3>2, <4>4 DEF L2Keeps
    <3> QED BY <3>1, <3>2
  <2> QED BY <2>7, <2>9, <2>10, <2>11, <2>12 DEF DataKeeps
<1> QED BY <1>3, <1>4, <1>5

(* fetch, whose block is one of the program: a block of data keeps its     *)
(* place or is written back, a block of code stays what it is.             *)
FetchKeeps(k, b, behind, j, x, y, v, p) ==
  /\ Holds(L1D, j.l1d, x) => Holds(L1D, k.l1d, x)
  /\ Agrees(k, x) => Agrees(j, x)
  /\ x # b /\ Sound(k, y, x, v) => Sound(j, y, x, v)
  /\ CodeIs(k, x, p) /\ (x = b => behind = p) => CodeIs(j, x, p)

LEMMA EnsuredL1IKeeps ==
  ASSUME NEW k, Ready(k), NEW b \in Nat, NEW behind,
         NEW j, j = Ensured(k, "l1i", b, behind),
         NEW x \in Nat, NEW y, NEW v, NEW p
  PROVE  Ready(j) /\ FetchKeeps(k, b, behind, j, x, y, v, p)
<1> DEFINE atL1 == [k EXCEPT !.cost = L1I.latency]
           atL2 == [k EXCEPT !.cost = L1I.latency + L2.latency]
           atMem == [k EXCEPT !.cost = L1I.latency + L2.latency + MemoryLatency]
           found == LineOf(L2, k.l2, b).data
           hit == [atL2 EXCEPT !.l2 = Accessed(L2, atL2.l2, b)]
           filled == InsertL2(atMem, b, behind, FALSE)
<1>1. IF Holds(L1I, k.l1i, b) THEN j = [atL1 EXCEPT !.l1i = Accessed(L1I, atL1.l1i, b)]
      ELSE IF Holds(L2, k.l2, b) THEN j = FillL1(hit, "l1i", b, found)
      ELSE j = FillL1(filled, "l1i", b, behind)
  BY Zenon DEF Ensured, L1
<1>2. /\ Ready(atL1) /\ SameCaches(k, atL1) /\ \A z \in Nat : SameFor(k, atL1, z)
      /\ Ready(atL2) /\ SameCaches(k, atL2) /\ \A z \in Nat : SameFor(k, atL2, z)
      /\ Ready(atMem) /\ SameCaches(k, atMem) /\ \A z \in Nat : SameFor(k, atMem, z)
  BY CostFacts
<1> HIDE DEF atL1, atL2, atMem
<1>3. CASE Holds(L1I, k.l1i, b)
  <2>1. j = [atL1 EXCEPT !.l1i = Accessed(L1I, atL1.l1i, b)] /\ Holds(L1I, atL1.l1i, b)
    BY <1>1, <1>2, <1>3 DEF SameCaches
  <2>2. Ready(j) /\ \A z \in Nat : SameFor(atL1, j, z)
    BY <1>2, <2>1, HitL1IKeeps
  <2>3. \A z \in Nat : SameFor(k, j, z)
    BY <1>2, <2>2 DEF SameFor, Same
  <2>4. Holds(L1D, j.l1d, x) => Holds(L1D, k.l1d, x)
    BY <2>3 DEF SameFor, Same
  <2>5. /\ Sound(k, y, x, v) => Sound(j, y, x, v)
        /\ Agrees(k, x) => Agrees(j, x)
        /\ CodeIs(k, x, p) => CodeIs(j, x, p)
    BY <2>3, SameForFacts DEF Ready
  <2> QED BY <2>2, <2>4, <2>5 DEF FetchKeeps
<1>4. CASE ~Holds(L1I, k.l1i, b) /\ Holds(L2, k.l2, b)
  <2>1. j = FillL1(hit, "l1i", b, found) /\ Holds(L2, atL2.l2, b)
    BY <1>1, <1>2, <1>4 DEF SameCaches
  <2>2. Ready(hit) /\ \A z \in Nat : SameFor(atL2, hit, z)
    BY <1>2, <2>1, HitL2Keeps
  <2> HIDE DEF hit, found
  <2>3. \A z \in Nat : SameFor(k, hit, z)
    BY <1>2, <2>2 DEF SameFor, Same
  <2>4. /\ ~Holds(L1I, hit.l1i, b) /\ Holds(L2, hit.l2, b)
        /\ found = LineOf(L2, hit.l2, b).data
        /\ Holds(L1D, hit.l1d, x) <=> Holds(L1D, k.l1d, x)
    BY <1>4, <2>3 DEF SameFor, Same, found
  <2>5. /\ Ready(j)
        /\ Holds(L1D, j.l1d, x) => Holds(L1D, hit.l1d, x)
        /\ Agrees(hit, x) => Agrees(j, x)
        /\ Sound(hit, y, x, v) => Sound(j, y, x, v)
        /\ CodeIs(hit, x, p) => CodeIs(j, x, p)
    BY <2>1, <2>2, <2>4, FillL1IKeeps
  <2>6. /\ Sound(k, y, x, v) => Sound(hit, y, x, v)
        /\ Agrees(k, x) => Agrees(hit, x)
        /\ CodeIs(k, x, p) => CodeIs(hit, x, p)
    BY <2>3, SameForFacts DEF Ready
  <2> QED BY <2>4, <2>5, <2>6 DEF FetchKeeps
<1>5. CASE ~Holds(L1I, k.l1i, b) /\ ~Holds(L2, k.l2, b)
  <2> DEFINE clean == FALSE
             m == InsertL2(atMem, b, behind, clean)
  <2>1. j = FillL1(m, "l1i", b, behind)
    BY <1>1, <1>5
  <2> HIDE DEF filled, clean
  <2>2. clean \in BOOLEAN
    BY DEF clean
  <2>3. /\ ~Holds(L1I, atMem.l1i, b) /\ ~Holds(L1D, atMem.l1d, b)
        /\ Holds(L1D, atMem.l1d, x) <=> Holds(L1D, k.l1d, x)
    <3>1. ~Holds(L1D, k.l1d, b)
      BY <1>5 DEF Ready, GoodHierarchy, GoodCaches, Included
    <3> QED BY <1>2, <1>5, <3>1 DEF SameFor, Same
  <2>4. Ready(m) /\ L2Keeps(atMem, b, behind, clean, m, x, y, v, p)
    BY <1>2, <2>2, InsertL2Keeps
  <2>5. PutFor(atMem, m, b, behind, clean)
    BY <1>2, InsertL2Effect DEF Ready
  <2> HIDE DEF m
  <2>6. ~Holds(L1I, m.l1i, b) /\ Holds(L2, m.l2, b) /\ behind = LineOf(L2, m.l2, b).data
    BY <2>3, <2>5 DEF PutFor, Same
  <2>7. /\ Ready(j)
        /\ Holds(L1D, j.l1d, x) => Holds(L1D, m.l1d, x)
        /\ Agrees(m, x) => Agrees(j, x)
        /\ Sound(m, y, x, v) => Sound(j, y, x, v)
        /\ CodeIs(m, x, p) => CodeIs(j, x, p)
    BY <2>1, <2>4, <2>6, FillL1IKeeps
  <2>8. /\ Sound(k, y, x, v) => Sound(atMem, y, x, v)
        /\ Agrees(k, x) => Agrees(atMem, x)
        /\ CodeIs(k, x, p) => CodeIs(atMem, x, p)
    BY <1>2, SameForFacts DEF Ready
  <2> QED BY <2>3, <2>4, <2>7, <2>8 DEF FetchKeeps, L2Keeps
<1> QED BY <1>3, <1>4, <1>5

(* The block an access to data finds is the one to go on with.             *)
LEMMA FoundFacts ==
  ASSUME NEW k, NEW b, NEW behind, NEW v, Sound(k, behind, b, v),
         Misses(k, "l1d", b) => \A d : ~Queued(k, b, d)
  PROVE  Found(k, "l1d", b, behind) = v
BY DEF Found, Sound, Misses, L1, HoldsDirty

(* store_word: its block's version is now the one with the word written.   *)
StoreKeeps(k, b, behind, cell, value, j, x, y, v, p) ==
  /\ Holds(L1D, j.l1d, x) => Holds(L1D, k.l1d, x) \/ x = b
  /\ Agrees(k, x) => Agrees(j, x)
  /\ /\ Sound(k, y, x, v)
     /\ x = b /\ Misses(k, "l1d", b) => behind = y /\ \A d : ~Queued(k, b, d)
     => Sound(j, y, x, IF x = b THEN [v EXCEPT ![cell] = value] ELSE v)
  /\ CodeIs(k, x, p) /\ ~Holds(L1D, k.l1d, x) /\ x # b => CodeIs(j, x, p)

LEMMA StoredKeeps ==
  ASSUME NEW k, Ready(k), NEW b \in Nat, NEW behind, NEW cell, NEW value,
         NEW j, j = Stored(k, b, behind, cell, value),
         NEW x \in Nat, NEW y, NEW v, NEW p
  PROVE  Ready(j) /\ StoreKeeps(k, b, behind, cell, value, j, x, y, v, p)
<1> DEFINE m == Ensured(k, "l1d", b, behind)
           c == Write(L1D, m.l1d, b, cell, value)
<1>1. j = [m EXCEPT !.l1d = c]
  BY DEF Stored
<1>2. /\ Ready(m) /\ Holds(L1D, m.l1d, b)
      /\ DataKeeps(k, b, behind, m, x, y, v, p)
  BY EnsuredL1DKeeps
<1>3. GoodHierarchy(j)
  BY StoredFacts DEF Ready
<1> HIDE DEF m
<1>4. IsHierarchy(m) /\ GoodCache(L1D, m.l1d) /\ IsConfig(L1D) /\ QueueOK(m) /\ CleanL1I(m)
  BY <1>2, Configs DEF Ready, GoodHierarchy, GoodCaches, WellFormed
<1>5. /\ x # b => Same(L1D, m.l1d, c, x)
      /\ LineOf(L1D, c, b).data = [LineOf(L1D, m.l1d, b).data EXCEPT ![cell] = value]
      /\ LineOf(L1D, c, b).dirty = TRUE
  BY <1>2, <1>4, WriteData
<1>6. Holds(L1D, c, x) <=> Holds(L1D, m.l1d, x)
  BY <1>4, WriteFacts
<1>7. Holds(L1D, c, b)
  BY <1>2, <1>4, WriteFacts
<1> HIDE DEF c
<1>8. /\ j.l1i = m.l1i /\ j.l1d = c /\ j.l2 = m.l2
      /\ SameQueue(m, j)
  BY <1>1, <1>4, WithL1D
<1>9. QueueOK(j) /\ \A d : Queued(j, x, d) <=> Queued(m, x, d)
  BY <1>4, <1>8, QueueFacts
<1>10. CleanL1I(j)
  BY <1>4, <1>8 DEF CleanL1I
<1>11. CodeIs(m, x, p) => CodeIs(j, x, p)
  BY <1>8 DEF CodeIs
<1>12. Agrees(m, x) => Agrees(j, x)
  <2>1. CASE x = b
    BY <1>5, <1>8, <2>1 DEF Agrees
  <2>2. CASE x # b
    BY <1>5, <1>6, <1>8, <2>2 DEF Agrees, Same
  <2> QED BY <2>1, <2>2
<1>13. CASE x # b
  <2>1. Same(L1I, m.l1i, j.l1i, x) /\ Same(L2, m.l2, j.l2, x)
    BY <1>8 DEF Same
  <2>2. SameFor(m, j, x)
    BY <1>5, <1>8, <1>9, <1>13, <2>1 DEF SameFor
  <2>3. Sound(m, y, x, v) => Sound(j, y, x, v)
    BY <1>2, <2>2, SameForFacts DEF Ready
  <2> QED BY <1>2, <1>3, <1>6, <1>8, <1>9, <1>10, <1>11, <1>12, <1>13, <2>3
        DEF Ready, DataKeeps, StoreKeeps
<1>14. CASE x = b
  <2> DEFINE w == [v EXCEPT ![cell] = value]
  <2>1. Sound(m, y, b, v) => LineOf(L1D, c, b).data = w
    <3>1. Sound(m, y, b, v) => LineOf(L1D, m.l1d, b).data = v
      BY <1>2 DEF Sound
    <3> QED BY <1>5, <3>1
  <2> HIDE DEF w
  <2>2. Holds(L2, m.l2, b)
    BY <1>2 DEF Ready, GoodHierarchy, GoodCaches, Included
  <2>3. HoldsDirty(L1D, c, b)
    BY <1>5, <1>7 DEF HoldsDirty
  <2>4. Sound(m, y, b, v) => Sound(j, y, b, w)
    BY <1>8, <1>9, <1>14, <2>1, <2>2, <2>3 DEF Sound
  <2> QED BY <1>2, <1>3, <1>6, <1>8, <1>9, <1>10, <1>11, <1>12, <1>14, <2>4
        DEF Ready, DataKeeps, StoreKeeps, w
<1> QED BY <1>13, <1>14

-----------------------------------------------------------------------------
(* Writing to memory.                                                      *)

LEMMA MaxFacts ==
  ASSUME NEW n \in Nat, NEW S \in SUBSET (1..n), S # {}
  PROVE  Max(S) \in S /\ \A k \in S : Max(S) >= k
<1> DEFINE T == {n - i : i \in S}
<1>1. T \in SUBSET Nat /\ T # {}
  <2>1. \A i \in S : n - i \in Nat
    OBVIOUS
  <2>2. PICK i \in S : TRUE
    OBVIOUS
  <2>3. n - i \in T
    OBVIOUS
  <2> QED BY <2>1, <2>3
<1>2. First(T) \in T /\ \A v \in T : First(T) <= v
  BY <1>1, FirstFacts
<1>3. PICK i \in S : First(T) = n - i
  BY <1>2
<1>4. \A k \in S : i >= k
  <2> TAKE k \in S
  <2>1. n - k \in T
    OBVIOUS
  <2>2. n - i <= n - k
    BY <1>2, <1>3, <2>1
  <2>3. i \in Nat /\ k \in Nat
    OBVIOUS
  <2> QED BY <2>2, <2>3
<1> QED BY <1>4 DEF Max

(* _actual_write_back, when every write of block x carries v. *)
LEMMA WrittenFacts ==
  ASSUME NEW D, NEW m \in [D -> Block], NEW x \in D, NEW s, IsSeq(s),
         NEW v \in Block, \A d : WaitsIn(s, x, d) => d = v
  PROVE  /\ (\E d : WaitsIn(s, x, d)) => WrittenAll(m, s)[x] = v
         /\ (\A d : ~WaitsIn(s, x, d)) => WrittenAll(m, s)[x] = m[x]
<1>1. PICK S : s \in Seq(S)
  BY DEF IsSeq
<1>2. Len(s) \in Nat /\ DOMAIN s = 1..Len(s)
  BY <1>1
<1> DEFINE here == {k \in DOMAIN s : s[k].block = x}
           to(c) == {k \in DOMAIN s : s[k].block = x /\ s[k].data[c] \in Values}
<1>3. \A k \in here : s[k].data = v
  BY DEF WaitsIn
<1>4. \A c \in Cells : v[c] \in Values
  BY DEF Block
<1>5. \A c \in Cells : to(c) = here
  BY <1>3, <1>4
<1>6. WrittenAll(m, s)[x] =
        [c \in Cells |-> IF here = {} THEN m[x][c] ELSE s[Max(here)].data[c]]
  <2>1. WrittenAll(m, s)[x] =
          [c \in Cells |-> IF to(c) = {} THEN m[x][c] ELSE s[Max(to(c))].data[c]]
    BY DEF WrittenAll
  <2> HIDE DEF to, here
  <2> QED BY <1>5, <2>1
<1>7. m[x] = [c \in Cells |-> m[x][c]] /\ v = [c \in Cells |-> v[c]]
  BY DEF Block
<1>8. CASE here = {}
  <2>1. WrittenAll(m, s)[x] = m[x]
    BY <1>6, <1>7, <1>8
  <2>2. ~ \E d : WaitsIn(s, x, d)
    BY <1>8 DEF WaitsIn
  <2> QED BY <2>1, <2>2
<1>9. CASE here # {}
  <2>1. Max(here) \in here
    BY <1>2, <1>9, MaxFacts
  <2>2. s[Max(here)].data = v
    BY <1>3, <2>1
  <2> HIDE DEF here
  <2>3. WrittenAll(m, s)[x] = v
    BY <1>6, <1>7, <1>9, <2>2
  <2>4. \E d : WaitsIn(s, x, d)
    BY <2>1 DEF WaitsIn, here
  <2> QED BY <2>3, <2>4
<1> QED BY <1>8, <1>9

(* Memory holds only data words. *)
LEMMA WrittenType ==
  ASSUME NEW D, NEW m \in [D -> Block], NEW s, IsSeq(s)
  PROVE  WrittenAll(m, s) \in [D -> Block]
<1>1. PICK S : s \in Seq(S)
  BY DEF IsSeq
<1>2. Len(s) \in Nat /\ DOMAIN s = 1..Len(s)
  BY <1>1
<1> DEFINE to(x, c) == {k \in DOMAIN s : s[k].block = x /\ s[k].data[c] \in Values}
           word(x, c) == IF to(x, c) = {} THEN m[x][c] ELSE s[Max(to(x, c))].data[c]
<1>3. ASSUME NEW x \in D, NEW c \in Cells
      PROVE  word(x, c) \in Values
  <2>1. m[x][c] \in Values
    BY DEF Block
  <2>2. to(x, c) # {} => Max(to(x, c)) \in to(x, c)
    BY <1>2, MaxFacts
  <2> QED BY <2>1, <2>2
<1>4. WrittenAll(m, s) = [x \in D |-> [c \in Cells |-> word(x, c)]]
  BY DEF WrittenAll
<1> HIDE DEF word
<1> QED BY <1>3, <1>4 DEF Block

(* The memory controller's tick: a version that reaches memory is the one  *)
(* to go on with, and the next in line is then in hand.                    *)
TickKeeps(k, m, j, n, x, v, p) ==
  /\ Holds(L1D, j.l1d, x) => Holds(L1D, k.l1d, x)
  /\ Agrees(k, x) => Agrees(j, x)
  /\ x \in DOMAIN m /\ v \in Block /\ Sound(k, m[x], x, v) => Sound(j, n[x], x, v)
  /\ CodeIs(k, x, p) => CodeIs(j, x, p)

LEMMA RestKeeps ==
  ASSUME NEW k, Ready(k), NEW D, NEW m \in [D -> Block],
         NEW j, j = Rested(k), NEW n, n = MemoryAfterTick(k, m)
  PROVE  /\ Ready(j) /\ n \in [D -> Block]
         /\ \A x \in Nat : \A v, p : TickKeeps(k, m, j, n, x, v, p)
<1>1. IsHierarchy(k) /\ GoodCaches(k.l1i, k.l1d, k.l2) /\ QueueOK(k) /\ CleanL1I(k)
  BY DEF Ready, GoodHierarchy
<1>2. /\ IsHierarchy(j) /\ SameCaches(k, j)
      /\ j.wb = k.wb
      /\ j.active = IF Completes(k) THEN << >> ELSE k.active
      /\ j.busy = IF k.busy > 0 THEN k.busy - 1 ELSE 0
  BY <1>1, RestedFacts
<1>3. QueueOK(j)
  <2>1. IsSeq(<< >>)
    BY DEF IsSeq
  <2>2. j.busy \in Nat /\ (j.busy = 0 => j.active = << >>)
    BY <1>1, <1>2 DEF QueueOK, Completes
  <2> QED BY <1>1, <1>2, <2>1, <2>2 DEF QueueOK
<1>4. Ready(j)
  BY <1>1, <1>2, <1>3 DEF Ready, GoodHierarchy, SameCaches, CleanL1I
<1>5. n \in [D -> Block]
  BY <1>1, WrittenType DEF MemoryAfterTick, QueueOK
<1>6. ASSUME NEW x \in Nat, NEW v, NEW p
      PROVE  TickKeeps(k, m, j, n, x, v, p)
  <2>1. /\ Same(L1I, k.l1i, j.l1i, x) /\ Same(L1D, k.l1d, j.l1d, x)
        /\ Same(L2, k.l2, j.l2, x)
    BY <1>2 DEF SameCaches, Same
  <2>2. /\ Holds(L1D, j.l1d, x) => Holds(L1D, k.l1d, x)
        /\ Agrees(k, x) => Agrees(j, x)
        /\ CodeIs(k, x, p) => CodeIs(j, x, p)
    BY <1>2 DEF SameCaches, Agrees, CodeIs
  <2>3. ASSUME x \in DOMAIN m, v \in Block, Sound(k, m[x], x, v)
        PROVE  Sound(j, n[x], x, v)
    <3>1. CASE ~Completes(k)
      <4>1. n = m /\ j.active = k.active
        BY <1>2, <3>1 DEF MemoryAfterTick
      <4>2. SameFor(k, j, x)
        BY <1>2, <2>1, <4>1 DEF SameFor, Queued
      <4> QED BY <2>3, <4>1, <4>2, SameForFacts DEF Ready
    <3>2. CASE Completes(k)
      <4>1. n = WrittenAll(m, k.active) /\ j.active = << >>
        BY <1>2, <3>2 DEF MemoryAfterTick
      <4>2. \A d : Queued(j, x, d) <=> WaitsIn(k.wb, x, d)
        BY <1>2, <4>1 DEF Queued, WaitsIn
      <4>3. \A d : Queued(k, x, d) <=> WaitsIn(k.wb, x, d) \/ WaitsIn(k.active, x, d)
        BY DEF Queued
      <4>4. \A d : WaitsIn(k.active, x, d) => d = v
        BY <2>3, <4>3 DEF Sound
      <4>5. /\ (\E d : WaitsIn(k.active, x, d)) => n[x] = v
            /\ (\A d : ~WaitsIn(k.active, x, d)) => n[x] = m[x]
        <5> DEFINE s == k.active
        <5>1. IsSeq(s) /\ (\A d : WaitsIn(s, x, d) => d = v) /\ n = WrittenAll(m, s)
          BY <1>1, <4>1, <4>4 DEF QueueOK
        <5>2. x \in D /\ v \in Block
          BY <2>3
        <5> HIDE DEF s
        <5>3. /\ (\E d : WaitsIn(s, x, d)) => WrittenAll(m, s)[x] = v
              /\ (\A d : ~WaitsIn(s, x, d)) => WrittenAll(m, s)[x] = m[x]
          BY <5>1, <5>2, WrittenFacts
        <5> QED BY <5>1, <5>3 DEF s
      <4>6. Holds(L2, k.l2, x) => n[x] = m[x]
        BY <2>3, <4>3, <4>5 DEF Sound
      <4>7. ASSUME ~Holds(L2, k.l2, x), \A d : ~WaitsIn(k.wb, x, d)
            PROVE  n[x] = v
        <5>1. CASE \E d : WaitsIn(k.active, x, d)
          BY <4>5, <5>1
        <5>2. CASE \A d : ~WaitsIn(k.active, x, d)
          <6>1. m[x] = v
            BY <2>3, <4>3, <4>7, <5>2 DEF Sound
          <6> QED BY <4>5, <5>2, <6>1
        <5> QED BY <5>1, <5>2
      <4>8. /\ \A d : Queued(j, x, d) => d = v /\ ~Holds(L2, j.l2, x)
            /\ ~Holds(L2, j.l2, x) /\ (\A d : ~Queued(j, x, d)) => n[x] = v
        BY <1>2, <2>3, <4>2, <4>3, <4>7 DEF Sound, SameCaches
      <4>9. Holds(L2, j.l2, x) /\ ~LineOf(L2, j.l2, x).dirty => LineOf(L2, j.l2, x).data = n[x]
        BY <1>2, <2>3, <4>6 DEF Sound, SameCaches
      <4>10. /\ Holds(L1D, j.l1d, x) => LineOf(L1D, j.l1d, x).data = v
             /\ Holds(L2, j.l2, x) /\ ~HoldsDirty(L1D, j.l1d, x) =>
                  LineOf(L2, j.l2, x).data = v
        BY <1>2, <2>3 DEF Sound, SameCaches
      <4> QED BY <4>8, <4>9, <4>10 DEF Sound
    <3> QED BY <3>1, <3>2
  <2> QED BY <2>2, <2>3 DEF TickKeeps
<1> QED BY <1>4, <1>5, <1>6

LEMMA StartKeeps ==
  ASSUME MemoryLatency # 0, NEW k, Ready(k), NEW j, j = Started(k)
  PROVE  Ready(j) /\ \A x \in Nat : SameFor(k, j, x)
<1>1. IsHierarchy(k) /\ GoodCaches(k.l1i, k.l1d, k.l2) /\ QueueOK(k) /\ CleanL1I(k)
  BY DEF Ready, GoodHierarchy
<1>2. /\ IsHierarchy(j) /\ SameCaches(k, j)
      /\ IF k.busy = 0 /\ k.wb # << >>
           THEN /\ j.active = <<Head(k.wb)>> /\ j.wb = Tail(k.wb)
                /\ j.busy = MemoryLatency
           ELSE j = k
  BY <1>1, StartedFacts
<1>3. QueueOK(j) /\ \A x, d : Queued(j, x, d) <=> Queued(k, x, d)
  <2>1. CASE ~(k.busy = 0 /\ k.wb # << >>)
    BY <1>1, <1>2, <2>1
  <2>2. CASE k.busy = 0 /\ k.wb # << >>
    <3>1. /\ j.active = <<Head(k.wb)>> /\ j.wb = Tail(k.wb) /\ j.busy = MemoryLatency
          /\ k.active = << >> /\ IsSeq(k.wb)
      BY <1>1, <1>2, <2>2 DEF QueueOK
    <3>2. /\ IsSeq(j.active) /\ IsSeq(j.wb)
          /\ \A x, d : WaitsIn(k.wb, x, d) <=> WaitsIn(j.active, x, d) \/ WaitsIn(j.wb, x, d)
      BY <2>2, <3>1, HeadWaits
    <3>3. \A x, d : ~WaitsIn(k.active, x, d)
      BY <3>1 DEF WaitsIn
    <3> QED BY <3>1, <3>2, <3>3, ConfigAssumption DEF QueueOK, Queued
  <2> QED BY <2>1, <2>2
<1>4. \A x \in Nat : SameFor(k, j, x)
  BY <1>2, <1>3 DEF SameCaches, SameFor, Same
<1> QED BY <1>1, <1>2, <1>3, <1>4 DEF Ready, GoodHierarchy, SameCaches, CleanL1I

LEMMA TickedKeeps ==
  ASSUME MemoryLatency # 0, NEW k, Ready(k), NEW D, NEW m \in [D -> Block],
         NEW j, j = Ticked(k), NEW n, n = MemoryAfterTick(k, m)
  PROVE  /\ Ready(j) /\ n \in [D -> Block]
         /\ \A x \in Nat : \A v, p : TickKeeps(k, m, j, n, x, v, p)
<1> DEFINE r == Rested(k)
<1>1. j = Started(r)
  BY DEF Ticked
<1>2. /\ Ready(r) /\ n \in [D -> Block]
      /\ \A x \in Nat : \A v, p : TickKeeps(k, m, r, n, x, v, p)
  BY RestKeeps
<1> HIDE DEF r
<1>3. Ready(j) /\ \A x \in Nat : SameFor(r, j, x)
  BY <1>1, <1>2, StartKeeps
<1>4. ASSUME NEW x \in Nat, NEW v, NEW p
      PROVE  TickKeeps(k, m, j, n, x, v, p)
  <2>1. /\ Sound(r, n[x], x, v) => Sound(j, n[x], x, v)
        /\ Agrees(r, x) => Agrees(j, x)
        /\ CodeIs(r, x, p) => CodeIs(j, x, p)
    BY <1>2, <1>3, SameForFacts DEF Ready
  <2>2. Holds(L1D, j.l1d, x) => Holds(L1D, r.l1d, x)
    BY <1>3 DEF SameFor, Same
  <2>3. TickKeeps(k, m, r, n, x, v, p)
    BY <1>2
  <2> QED BY <2>1, <2>2, <2>3 DEF TickKeeps
<1> QED BY <1>2, <1>3, <1>4

-----------------------------------------------------------------------------
(* The flush.                                                              *)

LEMMA JoinedWaits ==
  ASSUME NEW s, IsSeq(s), NEW t, IsSeq(t)
  PROVE  /\ IsSeq(s \o t)
         /\ \A x, d : WaitsIn(s \o t, x, d) <=> WaitsIn(s, x, d) \/ WaitsIn(t, x, d)
<1>1. PICK S : s \in Seq(S)
  BY DEF IsSeq
<1>2. PICK T : t \in Seq(T)
  BY DEF IsSeq
<1> DEFINE r == s \o t
           m == Len(s)
           n == Len(t)
<1>3. s \in Seq(S \cup T) /\ t \in Seq(S \cup T)
  BY <1>1, <1>2
<1>4. r \in Seq(S \cup T)
  BY <1>3
<1>5. /\ m \in Nat /\ n \in Nat /\ DOMAIN s = 1..m /\ DOMAIN t = 1..n
      /\ DOMAIN r = 1..(m + n)
      /\ \A i \in 1..(m + n) : r[i] = IF i <= m THEN s[i] ELSE t[i - m]
  BY <1>3
<1> HIDE DEF r, m, n
<1>6. ASSUME NEW x, NEW d, WaitsIn(r, x, d)
      PROVE  WaitsIn(s, x, d) \/ WaitsIn(t, x, d)
  <2>1. PICK i \in 1..(m + n) : r[i].block = x /\ r[i].data = d
    BY <1>5, <1>6 DEF WaitsIn
  <2>2. CASE i <= m
    BY <1>5, <2>1, <2>2 DEF WaitsIn
  <2>3. CASE ~(i <= m)
    <3>1. i - m \in 1..n /\ r[i] = t[i - m]
      BY <1>5, <2>3
    <3> QED BY <1>5, <2>1, <3>1 DEF WaitsIn
  <2> QED BY <2>2, <2>3
<1>7. ASSUME NEW x, NEW d, WaitsIn(s, x, d)
      PROVE  WaitsIn(r, x, d)
  <2>1. PICK i \in 1..m : s[i].block = x /\ s[i].data = d
    BY <1>5, <1>7 DEF WaitsIn
  <2>2. i \in 1..(m + n) /\ r[i] = s[i]
    BY <1>5
  <2> QED BY <1>5, <2>1, <2>2 DEF WaitsIn
<1>8. ASSUME NEW x, NEW d, WaitsIn(t, x, d)
      PROVE  WaitsIn(r, x, d)
  <2>1. PICK i \in 1..n : t[i].block = x /\ t[i].data = d
    BY <1>5, <1>8 DEF WaitsIn
  <2>2. i + m \in 1..(m + n) /\ ~(i + m <= m) /\ (i + m) - m = i
    BY <1>5
  <2>3. r[i + m] = t[i]
    BY <1>5, <2>2
  <2> QED BY <1>5, <2>1, <2>2, <2>3 DEF WaitsIn
<1>9. IsSeq(r)
  BY <1>4 DEF IsSeq
<1> QED BY <1>6, <1>7, <1>8, <1>9 DEF r

(* A set's elements in some order. *)
LEMMA SetWaits ==
  ASSUME NEW S, IsFiniteSet(S)
  PROVE  /\ IsSeq(SetToSeq(S))
         /\ \A x, d : WaitsIn(SetToSeq(S), x, d) <=> \E e \in S : e.block = x /\ e.data = d
<1> DEFINE n == Cardinality(S)
           places == 1..n
           q == SetToSeq(S)
<1>1. n \in Nat /\ ExistsBijection(places, S)
  BY FS_CardinalityType
<1>2. \E f \in [places -> S] : IsInjective(f)
  BY <1>1 DEF ExistsBijection, Bijection, Injection
<1>3. q \in [places -> S] /\ IsInjective(q)
  BY <1>2 DEF SetToSeq
<1>4. IsFiniteSet(places) /\ Cardinality(places) = n
  <2> HIDE DEF n
  <2>1. 1 \in Int /\ n \in Int
    BY <1>1
  <2> QED BY <1>1, <2>1, FS_Interval
<1>5. q \in Injection(places, S)
  BY <1>3 DEF Injection
<1>6. q \in Surjection(places, S)
  <2> HIDE DEF q, places
  <2> QED BY <1>4, <1>5, FS_Injection
<1> HIDE DEF n, q
<1>7. q \in Seq(S)
  BY <1>1, <1>3
<1>8. DOMAIN q = places /\ (\A i \in places : q[i] \in S) /\ \A e \in S : \E i \in places : q[i] = e
  BY <1>3, <1>6 DEF Surjection
<1>9. \A x, d : WaitsIn(q, x, d) <=> \E e \in S : e.block = x /\ e.data = d
  BY <1>8 DEF WaitsIn
<1>10. IsSeq(q)
  BY <1>7 DEF IsSeq
<1> QED BY <1>9, <1>10 DEF q

(* flush_all writes a block's newest version, or has none to write when    *)
(* memory holds it already.                                                *)
LEMMA FlushIsRight ==
  ASSUME NEW k, Ready(k), NEW B \in SUBSET Nat, NEW m \in [B -> Block], NEW x \in B,
         NEW v \in Block, Sound(k, m[x], x, v)
  PROVE  WrittenAll(m, FlushWrites(k))[x] = v
<1> DEFINE D == DirtyLines(L1D, k.l1d)
           U == L2LinesLeft(k)
           s == k.wb \o SetToSeq(D)
           t == s \o SetToSeq(U)
           w == t \o k.active
<1>1. /\ GoodCache(L1D, k.l1d) /\ GoodCache(L2, k.l2)
      /\ IsSeq(k.wb) /\ IsSeq(k.active) /\ IsConfig(L1D) /\ IsConfig(L2) /\ x \in Nat
  BY Configs DEF Ready, GoodHierarchy, GoodCaches, WellFormed, QueueOK
<1>2. IsFiniteSet(D) /\ IsFiniteSet(U)
  <2>1. IsFiniteSet(D) /\ IsFiniteSet(DirtyLines(L2, k.l2))
    BY <1>1, DirtyLinesFinite
  <2>2. U \subseteq DirtyLines(L2, k.l2)
    BY DEF L2LinesLeft
  <2> HIDE DEF D, U
  <2> QED BY <2>1, <2>2, FS_Subset
<1>3. FlushWrites(k) = w
  BY DEF FlushWrites
<1>4. /\ \A e \in D : HoldsDirty(L1D, k.l1d, e.block) /\ e.data = LineOf(L1D, k.l1d, e.block).data
      /\ HoldsDirty(L1D, k.l1d, x) => \E e \in D : e.block = x /\ e.data = LineOf(L1D, k.l1d, x).data
  BY <1>1, DirtyLineFacts, HeldDirtyFacts
<1>5. /\ \A e \in U : /\ HoldsDirty(L2, k.l2, e.block) /\ ~HoldsDirty(L1D, k.l1d, e.block)
                      /\ e.data = LineOf(L2, k.l2, e.block).data
      /\ HoldsDirty(L2, k.l2, x) /\ ~HoldsDirty(L1D, k.l1d, x) =>
           \E e \in U : e.block = x /\ e.data = LineOf(L2, k.l2, x).data
  BY <1>1, DirtyLineFacts, HeldDirtyFacts DEF L2LinesLeft
<1> HIDE DEF D, U
<1>6. /\ IsSeq(s)
      /\ \A d : WaitsIn(s, x, d) <=>
           WaitsIn(k.wb, x, d) \/ \E e \in D : e.block = x /\ e.data = d
  BY <1>1, <1>2, SetWaits, JoinedWaits
<1> HIDE DEF s
<1>7. /\ IsSeq(t)
      /\ \A d : WaitsIn(t, x, d) <=>
           WaitsIn(s, x, d) \/ \E e \in U : e.block = x /\ e.data = d
  BY <1>2, <1>6, SetWaits, JoinedWaits
<1> HIDE DEF t
<1>8. IsSeq(w) /\ \A d : WaitsIn(w, x, d) <=> WaitsIn(t, x, d) \/ WaitsIn(k.active, x, d)
  BY <1>1, <1>7, JoinedWaits
<1> HIDE DEF w
<1>9. \A d : WaitsIn(w, x, d) <=>
        \/ Queued(k, x, d)
        \/ \E e \in D : e.block = x /\ e.data = d
        \/ \E e \in U : e.block = x /\ e.data = d
  BY <1>6, <1>7, <1>8 DEF Queued
<1>10. ASSUME NEW d, WaitsIn(w, x, d) PROVE d = v
  <2>1. CASE Queued(k, x, d)
    BY <2>1 DEF Sound
  <2>2. CASE \E e \in D : e.block = x /\ e.data = d
    BY <1>4, <2>2 DEF Sound, HoldsDirty
  <2>3. CASE \E e \in U : e.block = x /\ e.data = d
    BY <1>5, <2>3 DEF Sound, HoldsDirty
  <2> QED BY <1>9, <1>10, <2>1, <2>2, <2>3
<1>11. ASSUME \A d : ~WaitsIn(w, x, d) PROVE m[x] = v
  <2>1. ~HoldsDirty(L1D, k.l1d, x) /\ ~HoldsDirty(L2, k.l2, x) /\ \A d : ~Queued(k, x, d)
    BY <1>4, <1>5, <1>9, <1>11
  <2>2. CASE Holds(L2, k.l2, x)
    BY <2>1, <2>2 DEF Sound, HoldsDirty
  <2>3. CASE ~Holds(L2, k.l2, x)
    BY <2>1, <2>3 DEF Sound
  <2> QED BY <2>2, <2>3
<1>12. /\ (\E d : WaitsIn(w, x, d)) => WrittenAll(m, w)[x] = v
       /\ (\A d : ~WaitsIn(w, x, d)) => WrittenAll(m, w)[x] = m[x]
  BY <1>8, <1>10, WrittenFacts
<1>13. WrittenAll(m, w)[x] = v
  BY <1>11, <1>12
<1> QED BY <1>3, <1>13
=============================================================================
