------------------------------- MODULE Cache -------------------------------
(***************************************************************************)
(* One set-associative cache (components/cache_system/cache.py) as         *)
(* operators on its value: a set number for each set, and in it            *)
(*                                                                         *)
(*   [lines |-> [way |-> [tag, data, dirty, uses]], order |-> <<way...>>]  *)
(*                                                                         *)
(* lines has the valid lines only: the code never looks at the tag, data   *)
(* or count of an invalid one.  order is lru_order, uses is the way's      *)
(* entry of access_counts, which only LFUPolicy keeps.  g is the cache's   *)
(* configuration [sets, ways, policy, latency]; a block is named by its    *)
(* number, the address without its offset.  The hit and miss counters only *)
(* feed the final report and are left out.                                 *)
(***************************************************************************)
EXTENDS Recency, FiniteSets

Ways(g) == 1..g.ways
SetNumbers(g) == 0..(g.sets - 1)

EmptyCache(g) ==
  [i \in SetNumbers(g) |-> [lines |-> [w \in {} |-> w], order |-> << >>]]

(* _get_index_tag_offset and _reconstruct_address; num_sets is a power of  *)
(* two, as the masks and shifts require.                                   *)
Index(g, b) == b % g.sets
Tag(g, b) == b \div g.sets
BlockAt(g, tag, i) == tag * g.sets + i

(* The smallest of a set of ways. *)
First(ways) == CHOOSE w \in ways : \A v \in ways : w <= v

(* find_line: the ways of set s that hold the tag; one at most. *)
FindLineAnyTag(s, tag) == DOMAIN s.lines  \* faulty variant
FindLine(s, tag) == {w \in DOMAIN s.lines : s.lines[w].tag = tag}
Hits(g, c, b) == FindLine(c[Index(g, b)], Tag(g, b))
Holds(g, c, b) == Hits(g, c, b) # {}
WayOf(g, c, b) == First(Hits(g, c, b))
LineOf(g, c, b) == c[Index(g, b)].lines[WayOf(g, c, b)]

-----------------------------------------------------------------------------
(* The policies.  on_access and on_insert; LRU does not count uses. *)
OnAccess(g, s, w) ==
  [lines |-> IF g.policy = "LFU" THEN [s.lines EXCEPT ![w].uses = @ + 1]
                                 ELSE s.lines,
   order |-> MoveToBack(s.order, w)]

OnInsert(s, w, line) ==
  [lines |-> [v \in DOMAIN s.lines \cup {w} |->
                IF v = w THEN line ELSE s.lines[v]],
   order |-> MoveToBack(s.order, w)]

(* get_victim: the least recently used way, or the least recently used of  *)
(* the least frequently used ones.                                         *)
LeastUsed(s) ==
  {w \in DOMAIN s.lines :
     \A v \in DOMAIN s.lines : s.lines[w].uses <= s.lines[v].uses}
Victim(g, s) ==
  LET candidates == IF g.policy = "LFU" THEN LeastUsed(s) ELSE Tracked(s.order)
      places == {i \in DOMAIN s.order : s.order[i] \in candidates}
  IN IF places # {} THEN s.order[First(places)] ELSE First(candidates)

-----------------------------------------------------------------------------
(* read and read_block with update_stats, on a hit. *)
Accessed(g, c, b) ==
  [c EXCEPT ![Index(g, b)] = OnAccess(g, @, WayOf(g, c, b))]

(* A line's place taken by another. *)
WithLine(s, w, line) == [lines |-> [s.lines EXCEPT ![w] = line], order |-> s.order]

(* write: the line is replaced and marked; an absent block is ignored, and *)
(* the recency list is left alone.                                         *)
Written(line, cell, value) ==
  [tag |-> line.tag, data |-> [line.data EXCEPT ![cell] = value],
   dirty |-> TRUE, uses |-> line.uses]
WriteClean(g, c, b, cell, value) ==  \* faulty variant
  IF ~Holds(g, c, b) THEN c
  ELSE [c EXCEPT ![Index(g, b)].lines[WayOf(g, c, b)].data[cell] = value]
Write(g, c, b, cell, value) ==
  IF ~Holds(g, c, b) THEN c
  ELSE [c EXCEPT ![Index(g, b)] =
          WithLine(@, WayOf(g, c, b), Written(LineOf(g, c, b), cell, value))]

(* insert: over the block's own line, else into the first invalid line,    *)
(* else over the victim, whose contents are returned (see Evicted).        *)
FreeWays(g, s) == Ways(g) \ DOMAIN s.lines
MustEvict(g, c, b) ==
  ~Holds(g, c, b) /\ FreeWays(g, c[Index(g, b)]) = {}

Insert(g, c, b, data, dirty) ==
  LET s == c[Index(g, b)]
      line == [tag |-> Tag(g, b), data |-> data, dirty |-> dirty, uses |-> 1]
      own == WayOf(g, c, b)
      renewed == [line EXCEPT !.uses = s.lines[own].uses]
      after == IF Holds(g, c, b)
                 THEN OnAccess(g, WithLine(s, own, renewed), own)
               ELSE IF FreeWays(g, s) # {}
                 THEN OnInsert(s, First(FreeWays(g, s)), line)
               ELSE OnInsert(s, Victim(g, s), line)
  IN [c EXCEPT ![Index(g, b)] = after]

(* The line insert would evict for b, when MustEvict. *)
Evicted(g, c, b) ==
  LET s == c[Index(g, b)]
      line == s.lines[Victim(g, s)]
  IN [block |-> BlockAt(g, line.tag, Index(g, b)),
      data |-> line.data, dirty |-> line.dirty]

(* invalidate: the way leaves the recency list. *)
InvalidateTracked(g, c, b) ==  \* faulty variant
  IF ~Holds(g, c, b) THEN c
  ELSE [c EXCEPT ![Index(g, b)].lines =
          [v \in DOMAIN @ \ {WayOf(g, c, b)} |-> @[v]]]
Invalidate(g, c, b) ==
  IF ~Holds(g, c, b) THEN c
  ELSE [c EXCEPT ![Index(g, b)] =
          [lines |-> [v \in DOMAIN @.lines \ {WayOf(g, c, b)} |-> @.lines[v]],
           order |-> Without(@.order, WayOf(g, c, b))]]

(* invalidate, of each of a set of blocks.  The ways kept stay in their    *)
(* order; this is SelectSeq, written as a function so that the provers see *)
(* it.                                                                     *)
Only(order, kept) ==
  LET part[i \in 0..Len(order)] ==
        IF i = 0 THEN << >>
        ELSE IF order[i] \in kept THEN Append(part[i - 1], order[i])
        ELSE part[i - 1]
  IN part[Len(order)]
InvalidateAll(g, c, blocks) ==
  [i \in SetNumbers(g) |->
     LET kept == {w \in DOMAIN c[i].lines :
                    BlockAt(g, c[i].lines[w].tag, i) \notin blocks}
     IN [lines |-> [w \in kept |-> c[i].lines[w]],
         order |-> Only(c[i].order, kept)]]

(* Whether invalidate returns the line's data. *)
HoldsDirty(g, c, b) == Holds(g, c, b) /\ LineOf(g, c, b).dirty

(* The dirty lines, in the form evictions have. *)
DirtyWays(s) == {w \in DOMAIN s.lines : s.lines[w].dirty}
DirtyLines(g, c) ==
  UNION {{[block |-> BlockAt(g, c[i].lines[w].tag, i),
           data |-> c[i].lines[w].data] : w \in DirtyWays(c[i])} :
           i \in SetNumbers(g)}

(* line.dirty = False, on every line. *)
Cleaned(g, c) ==
  [i \in SetNumbers(g) |->
     [c[i] EXCEPT !.lines = [w \in DOMAIN @ |-> [@[w] EXCEPT !.dirty = FALSE]]]]
=============================================================================
