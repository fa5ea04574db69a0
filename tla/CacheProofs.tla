---------------------------- MODULE CacheProofs ----------------------------
(***************************************************************************)
(* Lemmas about one cache: what each operation of Cache does to the blocks *)
(* the cache holds, for every number of sets and ways and both policies.   *)
(* A set is well formed when its recency list is exactly its valid lines   *)
(* and no tag is held twice; every operation keeps it so, and that is what *)
(* makes a victim exist and an eviction drop one block only.               *)
(***************************************************************************)
EXTENDS Cache, RecencyProofs, FiniteSetTheorems, WellFoundedInduction

IsConfig(g) ==
  /\ g.sets \in Nat \ {0} /\ g.ways \in Nat \ {0}
  /\ g.policy \in {"LRU", "LFU"}

IsLine(l) ==
  /\ l = [tag |-> l.tag, data |-> l.data, dirty |-> l.dirty, uses |-> l.uses]
  /\ l.tag \in Nat /\ l.uses \in Nat

(* Well-formed sets of lines, sets and caches. *)
GoodLines(ways, lines) ==
  /\ lines = [w \in DOMAIN lines |-> lines[w]]
  /\ DOMAIN lines \subseteq ways
  /\ \A w \in DOMAIN lines : IsLine(lines[w])
  /\ \A v, w \in DOMAIN lines : lines[v].tag = lines[w].tag => v = w
GoodSet(ways, s) ==
  /\ s = [lines |-> s.lines, order |-> s.order]
  /\ GoodLines(ways, s.lines)
  /\ ListOf(ways, s.order)
  /\ Tracked(s.order) = DOMAIN s.lines
GoodCache(g, c) ==
  /\ c = [i \in SetNumbers(g) |-> c[i]]
  /\ \A i \in SetNumbers(g) : GoodSet(Ways(g), c[i])

(* The tags a set of lines holds. *)
Tags(lines) == {lines[w].tag : w \in DOMAIN lines}
OtherTags(s, w) == {s.lines[v].tag : v \in DOMAIN s.lines \ {w}}

-----------------------------------------------------------------------------
(* Numbers.                                                                *)

(* A block is found again from its tag and set number, and two blocks with *)
(* the same tag and set number are one (_get_index_tag_offset,             *)
(* _reconstruct_address).                                                  *)
LEMMA BlockFacts ==
  ASSUME NEW g, IsConfig(g), NEW b \in Nat
  PROVE  /\ Index(g, b) \in SetNumbers(g) /\ Tag(g, b) \in Nat
         /\ BlockAt(g, Tag(g, b), Index(g, b)) = b
<1> DEFINE n == g.sets
<1>1. n \in Nat \ {0}
  BY DEF IsConfig
<1> HIDE DEF n
<1>2. b % n \in 0..(n - 1) /\ b \div n \in Nat /\ b = (b \div n) * n + (b % n)
  BY <1>1
<1> QED BY <1>2 DEF n, Index, Tag, BlockAt, SetNumbers

LEMMA BlockAtFacts ==
  ASSUME NEW g, IsConfig(g), NEW t \in Nat, NEW i \in SetNumbers(g)
  PROVE  /\ BlockAt(g, t, i) \in Nat
         /\ Tag(g, BlockAt(g, t, i)) = t /\ Index(g, BlockAt(g, t, i)) = i
<1> DEFINE n == g.sets
<1>1. n \in Nat \ {0} /\ i \in 0..(n - 1)
  BY DEF IsConfig, SetNumbers
<1> HIDE DEF n
<1>2. (t * n + i) % n = i /\ (t * n + i) \div n = t /\ t * n + i \in Nat
  BY <1>1
<1> QED BY <1>2 DEF n, Index, Tag, BlockAt

(* The smallest element of a set of numbers. *)
LEMMA FirstFacts ==
  ASSUME NEW S \in SUBSET Nat, S # {}
  PROVE  First(S) \in S /\ \A v \in S : First(S) <= v
<1> DEFINE R == {ss \in Nat \X Nat : ss[1] < ss[2]}
<1>0. IsWellFoundedOn(R, Nat)
  BY NatLessThanWellFounded, Zenon DEF OpToRel
<1>1. \E x \in S : \A y \in S : ~(<<y, x>> \in R)
  <2> HIDE DEF R
  <2> QED BY <1>0, WFMin
<1>2. PICK x \in S : \A y \in S : ~(<<y, x>> \in R)
  BY <1>1
<1>3. ASSUME NEW y \in S PROVE x <= y
  <2>1. <<y, x>> \in Nat \X Nat /\ <<y, x>>[1] = y /\ <<y, x>>[2] = x
    OBVIOUS
  <2>2. y < x => <<y, x>> \in R
    BY <2>1
  <2>3. ~(y < x)
    BY <1>2, <2>2
  <2> QED BY <2>3
<1> QED BY <1>3 DEF First

(* A property that some number has, a least number has. *)
LEMMA LeastFacts ==
  ASSUME NEW S \in SUBSET Nat, S # {}
  PROVE  \E m \in S : \A k \in Nat : k < m => k \notin S
<1>1. First(S) \in S /\ \A k \in S : First(S) <= k
  BY FirstFacts
<1> DEFINE m == First(S)
<1>2. m \in S /\ m \in Nat /\ \A k \in S : m <= k
  BY <1>1
<1> HIDE DEF m
<1>3. ASSUME NEW k \in Nat, k < m, k \in S PROVE FALSE
  <2>1. m <= k
    BY <1>2, <1>3
  <2> QED BY <1>2, <1>3, <2>1
<1> QED BY <1>2, <1>3

-----------------------------------------------------------------------------
(* Sets of lines.                                                          *)

(* The line that holds a tag is the one find_line returns. *)
LEMMA FindFacts ==
  ASSUME NEW ways \in SUBSET Nat, NEW s, GoodSet(ways, s), NEW t \in Tags(s.lines)
  PROVE  /\ First(FindLine(s, t)) \in DOMAIN s.lines
         /\ s.lines[First(FindLine(s, t))].tag = t
<1>1. FindLine(s, t) \in SUBSET Nat /\ FindLine(s, t) # {}
  BY DEF FindLine, Tags, GoodSet, GoodLines
<1>2. First(FindLine(s, t)) \in FindLine(s, t)
  BY <1>1, FirstFacts
<1> QED BY <1>2 DEF FindLine

(* Replacing a valid line by one with its tag. *)
LEMMA ReplaceFacts ==
  ASSUME NEW ways, NEW lines, GoodLines(ways, lines),
         NEW w \in DOMAIN lines, NEW l, IsLine(l), l.tag = lines[w].tag
  PROVE  /\ GoodLines(ways, [lines EXCEPT ![w] = l])
         /\ DOMAIN [lines EXCEPT ![w] = l] = DOMAIN lines
         /\ Tags([lines EXCEPT ![w] = l]) = Tags(lines)
<1> DEFINE after == [lines EXCEPT ![w] = l]
<1>1. DOMAIN after = DOMAIN lines
  BY DEF GoodLines
<1>2. \A v \in DOMAIN lines : after[v] = IF v = w THEN l ELSE lines[v]
  BY DEF GoodLines
<1>3. \A v \in DOMAIN lines : IsLine(after[v]) /\ after[v].tag = lines[v].tag
  BY <1>2 DEF GoodLines
<1>4. after = [v \in DOMAIN after |-> after[v]]
  BY DEF GoodLines
<1> HIDE DEF after
<1>5. GoodLines(ways, after)
  BY <1>1, <1>3, <1>4 DEF GoodLines
<1>6. Tags(after) = Tags(lines)
  BY <1>1, <1>3 DEF Tags
<1> QED BY <1>1, <1>5, <1>6 DEF after

(* Its lines replaced, a set with the same ways tracked stays well formed. *)
LEMMA SetFacts ==
  ASSUME NEW ways, NEW s, GoodSet(ways, s),
         NEW lines, GoodLines(ways, lines),
         NEW order, ListOf(ways, order), Tracked(order) = DOMAIN lines
  PROVE  GoodSet(ways, [lines |-> lines, order |-> order])
BY DEF GoodSet

(* A hit moves its way to the recent end and, for LFU, counts a use. *)
LEMMA OnAccessFacts ==
  ASSUME NEW g, IsConfig(g), NEW ways, NEW s, GoodSet(ways, s),
         NEW w \in DOMAIN s.lines
  PROVE  /\ GoodSet(ways, OnAccess(g, s, w))
         /\ Tags(OnAccess(g, s, w).lines) = Tags(s.lines)
         /\ DOMAIN OnAccess(g, s, w).lines = DOMAIN s.lines
<1> DEFINE l == [s.lines[w] EXCEPT !.uses = @ + 1]
           order == MoveToBack(s.order, w)
<1>1. /\ GoodLines(ways, s.lines) /\ ListOf(ways, s.order)
      /\ Tracked(s.order) = DOMAIN s.lines /\ w \in ways
  BY DEF GoodSet, GoodLines
<1>2. ListOf(ways, order) /\ Tracked(order) = DOMAIN s.lines
  <2>1. ListOf(ways, order) /\ Tracked(order) = Tracked(s.order) \cup {w}
    BY <1>1, MoveToBackFacts
  <2> QED BY <1>1, <2>1
<1>3. IsLine(l) /\ l.tag = s.lines[w].tag
  <2>1. IsLine(s.lines[w])
    BY <1>1 DEF GoodLines
  <2> DEFINE x == s.lines[w]
  <2>2. l = [tag |-> x.tag, data |-> x.data, dirty |-> x.dirty, uses |-> x.uses + 1]
    BY <2>1 DEF IsLine
  <2> QED BY <2>1, <2>2 DEF IsLine
<1>4. OnAccess(g, s, w).lines = [s.lines EXCEPT ![w] = l] \/ OnAccess(g, s, w).lines = s.lines
  BY DEF OnAccess
<1>5. OnAccess(g, s, w) = [lines |-> OnAccess(g, s, w).lines, order |-> order]
  BY DEF OnAccess
<1> DEFINE after == OnAccess(g, s, w).lines
<1>6. GoodLines(ways, after) /\ DOMAIN after = DOMAIN s.lines /\ Tags(after) = Tags(s.lines)
  <2> HIDE DEF l
  <2> QED BY <1>1, <1>3, <1>4, ReplaceFacts
<1> HIDE DEF after, order
<1> QED BY <1>2, <1>5, <1>6, SetFacts DEF after

(* A line put into a way, valid or not, takes the place of what it held. *)
LEMMA OnInsertFacts ==
  ASSUME NEW ways, NEW s, GoodSet(ways, s), NEW w \in ways,
         NEW line, IsLine(line), line.tag \notin OtherTags(s, w)
  PROVE  /\ GoodSet(ways, OnInsert(s, w, line))
         /\ Tags(OnInsert(s, w, line).lines) = OtherTags(s, w) \cup {line.tag}
<1> DEFINE order == MoveToBack(s.order, w)
           lines == [v \in DOMAIN s.lines \cup {w} |->
                       IF v = w THEN line ELSE s.lines[v]]
<1>1. /\ GoodLines(ways, s.lines) /\ ListOf(ways, s.order)
      /\ Tracked(s.order) = DOMAIN s.lines
  BY DEF GoodSet
<1>2. ListOf(ways, order) /\ Tracked(order) = DOMAIN s.lines \cup {w}
  BY <1>1, MoveToBackFacts
<1>3. DOMAIN lines = DOMAIN s.lines \cup {w} /\ lines = [v \in DOMAIN lines |-> lines[v]]
  OBVIOUS
<1>4. \A v \in DOMAIN lines : lines[v] = IF v = w THEN line ELSE s.lines[v]
  OBVIOUS
<1>5. OnInsert(s, w, line) = [lines |-> lines, order |-> order]
  BY DEF OnInsert
<1> HIDE DEF lines, order
<1>6. GoodLines(ways, lines)
  BY <1>1, <1>3, <1>4 DEF GoodLines, OtherTags
<1>7. Tags(lines) = OtherTags(s, w) \cup {line.tag}
  BY <1>3, <1>4 DEF Tags, OtherTags
<1>8. GoodSet(ways, [lines |-> lines, order |-> order])
  BY <1>2, <1>3, <1>6, SetFacts
<1> QED BY <1>5, <1>7, <1>8

(* A line that goes takes its tag, and its way, with it. *)
LEMMA OnInvalidateFacts ==
  ASSUME NEW ways, NEW s, GoodSet(ways, s), NEW w \in DOMAIN s.lines
  PROVE  LET lines == [v \in DOMAIN s.lines \ {w} |-> s.lines[v]]
         IN /\ GoodSet(ways, [lines |-> lines, order |-> Without(s.order, w)])
            /\ Tags(lines) = Tags(s.lines) \ {s.lines[w].tag}
<1> DEFINE order == Without(s.order, w)
           lines == [v \in DOMAIN s.lines \ {w} |-> s.lines[v]]
<1>1. /\ GoodLines(ways, s.lines) /\ ListOf(ways, s.order)
      /\ Tracked(s.order) = DOMAIN s.lines
  BY DEF GoodSet
<1>2. ListOf(ways, order) /\ Tracked(order) = DOMAIN s.lines \ {w}
  BY <1>1, WithoutFacts DEF ListOf
<1>3. DOMAIN lines = DOMAIN s.lines \ {w} /\ lines = [v \in DOMAIN lines |-> lines[v]]
  OBVIOUS
<1>4. \A v \in DOMAIN lines : lines[v] = s.lines[v]
  OBVIOUS
<1> HIDE DEF lines, order
<1>5. GoodLines(ways, lines)
  BY <1>1, <1>3, <1>4 DEF GoodLines
<1>6. Tags(lines) = Tags(s.lines) \ {s.lines[w].tag}
  BY <1>1, <1>3, <1>4 DEF Tags, GoodLines
<1>7. GoodSet(ways, [lines |-> lines, order |-> order])
  BY <1>2, <1>3, <1>5, SetFacts
<1> QED BY <1>6, <1>7 DEF lines, order

(* Both policies find a victim among the valid lines, if there are any.    *)
LEMMA VictimFacts ==
  ASSUME NEW g, IsConfig(g), NEW ways \in SUBSET Nat, NEW s, GoodSet(ways, s),
         DOMAIN s.lines # {}
  PROVE  Victim(g, s) \in DOMAIN s.lines
<1> DEFINE candidates == IF g.policy = "LFU" THEN LeastUsed(s) ELSE Tracked(s.order)
           places == {i \in DOMAIN s.order : s.order[i] \in candidates}
<1>1. /\ Tracked(s.order) = DOMAIN s.lines
      /\ s.order \in Seq(ways)
      /\ \A w \in DOMAIN s.lines : s.lines[w].uses \in Nat
  BY DEF GoodSet, GoodLines, ListOf, IsLine
<1>2. LeastUsed(s) # {}
  <2> DEFINE counts == {s.lines[w].uses : w \in DOMAIN s.lines}
  <2>1. counts \in SUBSET Nat /\ counts # {}
    BY <1>1
  <2>2. First(counts) \in counts /\ \A n \in counts : First(counts) <= n
    <3> HIDE DEF counts
    <3> QED BY <2>1, FirstFacts
  <2>3. PICK w \in DOMAIN s.lines : s.lines[w].uses = First(counts)
    BY <2>2
  <2>4. \A v \in DOMAIN s.lines : s.lines[w].uses <= s.lines[v].uses
    BY <2>2, <2>3
  <2> QED BY <2>4 DEF LeastUsed
<1>3. candidates \subseteq DOMAIN s.lines /\ candidates # {}
  BY <1>1, <1>2 DEF LeastUsed
<1>4. Victim(g, s) = IF places # {} THEN s.order[First(places)] ELSE First(candidates)
  BY DEF Victim
<1> HIDE DEF candidates
<1>5. places # {} /\ places \in SUBSET Nat
  BY <1>1, <1>3 DEF Tracked
<1>6. First(places) \in places
  <2> HIDE DEF places
  <2> QED BY <1>5, FirstFacts
<1> QED BY <1>3, <1>4, <1>5, <1>6

-----------------------------------------------------------------------------
(* Whole caches.                                                           *)

LEMMA WaysFacts ==
  ASSUME NEW g, IsConfig(g)
  PROVE  Ways(g) \in SUBSET Nat /\ Ways(g) # {}
BY DEF IsConfig, Ways

(* Holding a block is holding its tag in its set. *)
LEMMA HoldsFacts ==
  ASSUME NEW g, IsConfig(g), NEW c, GoodCache(g, c), NEW b \in Nat
  PROVE  /\ GoodSet(Ways(g), c[Index(g, b)])
         /\ Holds(g, c, b) <=> Tag(g, b) \in Tags(c[Index(g, b)].lines)
         /\ Holds(g, c, b) =>
              /\ WayOf(g, c, b) \in DOMAIN c[Index(g, b)].lines
              /\ c[Index(g, b)].lines[WayOf(g, c, b)].tag = Tag(g, b)
<1> DEFINE s == c[Index(g, b)]
<1>1. GoodSet(Ways(g), s)
  BY BlockFacts DEF GoodCache
<1>2. Holds(g, c, b) <=> Tag(g, b) \in Tags(s.lines)
  BY DEF Holds, Hits, FindLine, Tags
<1>3. WayOf(g, c, b) = First(FindLine(s, Tag(g, b)))
  BY DEF WayOf, Hits
<1> HIDE DEF s
<1>4. ASSUME Holds(g, c, b)
      PROVE  /\ WayOf(g, c, b) \in DOMAIN s.lines
             /\ s.lines[WayOf(g, c, b)].tag = Tag(g, b)
  BY <1>1, <1>2, <1>3, <1>4, WaysFacts, FindFacts
<1> QED BY <1>1, <1>2, <1>4 DEF s

(* What after holds, if it differs from c in block b's set only, now s. *)
HeldAfter(g, c, b, s, after) ==
  \A x \in Nat : Holds(g, after, x) <=>
    IF Index(g, x) = Index(g, b) THEN Tag(g, x) \in Tags(s.lines)
                                 ELSE Holds(g, c, x)

(* Replacing block b's set by a well-formed one changes what is held there *)
(* only.                                                                   *)
LEMMA SetReplaced ==
  ASSUME NEW g, IsConfig(g), NEW c, GoodCache(g, c), NEW b \in Nat,
         NEW s, GoodSet(Ways(g), s),
         NEW after, after = [c EXCEPT ![Index(g, b)] = s]
  PROVE  GoodCache(g, after) /\ HeldAfter(g, c, b, s, after)
<1> DEFINE k == Index(g, b)
<1>1. k \in SetNumbers(g)
  BY BlockFacts
<1>2. /\ c = [i \in SetNumbers(g) |-> c[i]]
      /\ \A i \in SetNumbers(g) : GoodSet(Ways(g), c[i])
  BY DEF GoodCache
<1> HIDE DEF k
<1>3. /\ after = [i \in SetNumbers(g) |-> after[i]]
      /\ \A i \in SetNumbers(g) : after[i] = IF i = k THEN s ELSE c[i]
  BY <1>1, <1>2 DEF k
<1>4. GoodCache(g, after)
  BY <1>2, <1>3 DEF GoodCache
<1>5. ASSUME NEW x \in Nat
      PROVE  Holds(g, after, x) <=>
               IF Index(g, x) = k THEN Tag(g, x) \in Tags(s.lines)
                                  ELSE Holds(g, c, x)
  <2>1. Index(g, x) \in SetNumbers(g)
    BY BlockFacts
  <2>2. /\ Holds(g, after, x) <=> Tag(g, x) \in Tags(after[Index(g, x)].lines)
        /\ Holds(g, c, x) <=> Tag(g, x) \in Tags(c[Index(g, x)].lines)
    BY <1>4, HoldsFacts
  <2> QED BY <1>3, <2>1, <2>2
<1> QED BY <1>4, <1>5 DEF k, HeldAfter

(* Two blocks of one set with one tag are one block. *)
LEMMA SameBlock ==
  ASSUME NEW g, IsConfig(g), NEW b \in Nat, NEW x \in Nat
  PROVE  x = b <=> Index(g, x) = Index(g, b) /\ Tag(g, x) = Tag(g, b)
<1>1. BlockAt(g, Tag(g, b), Index(g, b)) = b /\ BlockAt(g, Tag(g, x), Index(g, x)) = x
  BY BlockFacts
<1> QED BY <1>1

LEMMA EmptyFacts ==
  ASSUME NEW g, IsConfig(g)
  PROVE  /\ GoodCache(g, EmptyCache(g))
         /\ \A x \in Nat : ~Holds(g, EmptyCache(g), x)
<1> DEFINE none == [w \in {} |-> w]
           s == [lines |-> none, order |-> << >>]
<1>1. DOMAIN none = {} /\ none = [w \in DOMAIN none |-> none[w]]
  OBVIOUS
<1> HIDE DEF none
<1>2. GoodLines(Ways(g), none)
  BY <1>1 DEF GoodLines
<1>3. ListOf(Ways(g), << >>) /\ Tracked(<< >>) = {}
  BY DEF ListOf, NoRepeats, Tracked
<1>4. GoodSet(Ways(g), s)
  BY <1>1, <1>2, <1>3 DEF GoodSet
<1>5. /\ EmptyCache(g) = [i \in SetNumbers(g) |-> s]
      /\ s.lines = none
  BY DEF EmptyCache, none
<1> HIDE DEF s
<1>6. GoodCache(g, EmptyCache(g))
  BY <1>4, <1>5 DEF GoodCache
<1>7. ASSUME NEW x \in Nat PROVE ~Holds(g, EmptyCache(g), x)
  <2>1. Index(g, x) \in SetNumbers(g)
    BY BlockFacts
  <2>2. Tags(EmptyCache(g)[Index(g, x)].lines) = {}
    BY <1>1, <1>5, <2>1 DEF Tags
  <2> QED BY <1>6, <2>2, HoldsFacts
<1> QED BY <1>6, <1>7

(* A hit changes neither what is held nor its form (read, read_block). *)
LEMMA AccessedFacts ==
  ASSUME NEW g, IsConfig(g), NEW c, GoodCache(g, c), NEW b \in Nat, Holds(g, c, b)
  PROVE  /\ GoodCache(g, Accessed(g, c, b))
         /\ \A x \in Nat : Holds(g, Accessed(g, c, b), x) <=> Holds(g, c, x)
<1> DEFINE s == c[Index(g, b)]
           after == OnAccess(g, s, WayOf(g, c, b))
<1>1. GoodSet(Ways(g), s) /\ WayOf(g, c, b) \in DOMAIN s.lines
  BY HoldsFacts
<1>2. GoodSet(Ways(g), after) /\ Tags(after.lines) = Tags(s.lines)
  <2> HIDE DEF s
  <2> QED BY <1>1, OnAccessFacts
<1>3. Accessed(g, c, b) = [c EXCEPT ![Index(g, b)] = after]
  BY DEF Accessed
<1> HIDE DEF after
<1>4. GoodCache(g, Accessed(g, c, b)) /\ HeldAfter(g, c, b, after, Accessed(g, c, b))
  BY <1>2, <1>3, SetReplaced
<1>5. \A x \in Nat : Holds(g, c, x) <=> Tag(g, x) \in Tags(c[Index(g, x)].lines)
  BY HoldsFacts
<1> QED BY <1>2, <1>4, <1>5 DEF HeldAfter

(* A line of a set replaced by one with its tag. *)
LEMMA WithLineFacts ==
  ASSUME NEW ways, NEW s, GoodSet(ways, s), NEW w \in DOMAIN s.lines,
         NEW l, IsLine(l), l.tag = s.lines[w].tag
  PROVE  /\ GoodSet(ways, WithLine(s, w, l))
         /\ Tags(WithLine(s, w, l).lines) = Tags(s.lines)
         /\ DOMAIN WithLine(s, w, l).lines = DOMAIN s.lines
<1> DEFINE lines == [s.lines EXCEPT ![w] = l]
<1>1. /\ GoodLines(ways, s.lines) /\ ListOf(ways, s.order)
      /\ Tracked(s.order) = DOMAIN s.lines
  BY DEF GoodSet
<1>2. /\ GoodLines(ways, lines) /\ DOMAIN lines = DOMAIN s.lines
      /\ Tags(lines) = Tags(s.lines)
  BY <1>1, ReplaceFacts
<1>3. WithLine(s, w, l) = [lines |-> lines, order |-> s.order]
  BY DEF WithLine
<1> HIDE DEF lines
<1>4. GoodSet(ways, [lines |-> lines, order |-> s.order])
  BY <1>1, <1>2, SetFacts
<1> QED BY <1>2, <1>3, <1>4

(* A write changes the data of a held block only (write). *)
LEMMA WriteFacts ==
  ASSUME NEW g, IsConfig(g), NEW c, GoodCache(g, c), NEW b \in Nat,
         NEW cell, NEW value
  PROVE  /\ GoodCache(g, Write(g, c, b, cell, value))
         /\ \A x \in Nat : Holds(g, Write(g, c, b, cell, value), x) <=> Holds(g, c, x)
<1>1. CASE ~Holds(g, c, b)
  BY <1>1 DEF Write
<1>2. CASE Holds(g, c, b)
  <2> DEFINE s == c[Index(g, b)]
             w == WayOf(g, c, b)
             y == LineOf(g, c, b)
             l == Written(y, cell, value)
             after == WithLine(s, w, l)
  <2>1. GoodSet(Ways(g), s) /\ w \in DOMAIN s.lines
    BY <1>2, HoldsFacts
  <2>2. y = s.lines[w]
    BY DEF LineOf
  <2>3. IsLine(y)
    BY <2>1, <2>2 DEF GoodSet, GoodLines
  <2>4. IsLine(l) /\ l.tag = y.tag
    BY <2>3 DEF IsLine, Written
  <2>5. Write(g, c, b, cell, value) = [c EXCEPT ![Index(g, b)] = after]
    BY <1>2 DEF Write
  <2> HIDE DEF l, y
  <2>6. GoodSet(Ways(g), after) /\ Tags(after.lines) = Tags(s.lines)
    <3> HIDE DEF s, w
    <3> QED BY <2>1, <2>2, <2>4, WithLineFacts
  <2> HIDE DEF after
  <2>7. GoodCache(g, Write(g, c, b, cell, value)) /\ HeldAfter(g, c, b, after, Write(g, c, b, cell, value))
    BY <2>5, <2>6, SetReplaced
  <2>8. \A x \in Nat : Holds(g, c, x) <=> Tag(g, x) \in Tags(c[Index(g, x)].lines)
    BY HoldsFacts
  <2> QED BY <2>6, <2>7, <2>8 DEF HeldAfter
<1> QED BY <1>1, <1>2

(* An invalidation drops its block only (invalidate). *)
LEMMA InvalidateFacts ==
  ASSUME NEW g, IsConfig(g), NEW c, GoodCache(g, c), NEW b \in Nat
  PROVE  /\ GoodCache(g, Invalidate(g, c, b))
         /\ \A x \in Nat : Holds(g, Invalidate(g, c, b), x) <=> Holds(g, c, x) /\ x # b
<1>1. CASE ~Holds(g, c, b)
  BY <1>1 DEF Invalidate
<1>2. CASE Holds(g, c, b)
  <2> DEFINE s == c[Index(g, b)]
             w == WayOf(g, c, b)
             lines == [v \in DOMAIN s.lines \ {w} |-> s.lines[v]]
             after == [lines |-> lines, order |-> Without(s.order, w)]
  <2>1. GoodSet(Ways(g), s) /\ w \in DOMAIN s.lines /\ s.lines[w].tag = Tag(g, b)
    BY <1>2, HoldsFacts
  <2>2. Invalidate(g, c, b) = [c EXCEPT ![Index(g, b)] = after]
    BY <1>2 DEF Invalidate
  <2>3. /\ GoodSet(Ways(g), after)
        /\ Tags(after.lines) = Tags(s.lines) \ {Tag(g, b)}
    <3>1. after.lines = lines
      OBVIOUS
    <3> HIDE DEF s, w
    <3>2. GoodSet(Ways(g), after) /\ Tags(lines) = Tags(s.lines) \ {s.lines[w].tag}
      BY <2>1, OnInvalidateFacts
    <3> HIDE DEF after, lines
    <3> QED BY <2>1, <3>1, <3>2
  <2> HIDE DEF after
  <2>4. GoodCache(g, Invalidate(g, c, b)) /\ HeldAfter(g, c, b, after, Invalidate(g, c, b))
    BY <2>2, <2>3, SetReplaced
  <2>5. \A x \in Nat : Holds(g, c, x) <=> Tag(g, x) \in Tags(c[Index(g, x)].lines)
    BY HoldsFacts
  <2>6. \A x \in Nat : x = b <=> Index(g, x) = Index(g, b) /\ Tag(g, x) = Tag(g, b)
    BY SameBlock
  <2> QED BY <2>3, <2>4, <2>5, <2>6 DEF HeldAfter
<1> QED BY <1>1, <1>2

(* A full set always has a block to give up, other than the one inserted   *)
(* (get_victim, insert).                                                   *)
LEMMA EvictedFacts ==
  ASSUME NEW g, IsConfig(g), NEW c, GoodCache(g, c), NEW b \in Nat,
         MustEvict(g, c, b)
  PROVE  LET out == Evicted(g, c, b).block
             s == c[Index(g, b)]
         IN /\ out \in Nat /\ out # b /\ Holds(g, c, out)
            /\ Index(g, out) = Index(g, b)
            /\ Victim(g, s) \in DOMAIN s.lines
            /\ Tag(g, out) = s.lines[Victim(g, s)].tag
<1> DEFINE s == c[Index(g, b)]
           v == Victim(g, s)
           t == s.lines[v].tag
           out == Evicted(g, c, b).block
<1>1. GoodSet(Ways(g), s) /\ ~Holds(g, c, b) /\ FreeWays(g, s) = {}
  BY HoldsFacts DEF MustEvict
<1>2. GoodLines(Ways(g), s.lines)
  BY <1>1 DEF GoodSet
<1>3. DOMAIN s.lines # {}
  BY <1>1, WaysFacts DEF FreeWays
<1>4. v \in DOMAIN s.lines
  <2> HIDE DEF s
  <2> QED BY <1>1, <1>3, WaysFacts, VictimFacts
<1>5. t \in Nat /\ t \in Tags(s.lines)
  BY <1>2, <1>4 DEF GoodLines, IsLine, Tags
<1>6. out = BlockAt(g, t, Index(g, b))
  BY DEF Evicted
<1>7. Index(g, b) \in SetNumbers(g)
  BY BlockFacts
<1> HIDE DEF t, out
<1>8. out \in Nat /\ Tag(g, out) = t /\ Index(g, out) = Index(g, b)
  BY <1>5, <1>6, <1>7, BlockAtFacts
<1>9. Holds(g, c, out)
  BY <1>5, <1>8, HoldsFacts DEF s
<1> QED BY <1>1, <1>4, <1>8, <1>9 DEF t, out

(* An inserted block is held, and nothing else leaves than what insert     *)
(* returns (insert).                                                       *)
Displaced(g, c, b, x) == MustEvict(g, c, b) /\ x = Evicted(g, c, b).block
HeldAfterInsert(g, c, b, after) ==
  \A x \in Nat : Holds(g, after, x) <=> x = b \/ (Holds(g, c, x) /\ ~Displaced(g, c, b, x))

LEMMA InsertFacts ==
  ASSUME NEW g, IsConfig(g), NEW c, GoodCache(g, c), NEW b \in Nat,
         NEW data, NEW dirty
  PROVE  /\ GoodCache(g, Insert(g, c, b, data, dirty))
         /\ HeldAfterInsert(g, c, b, Insert(g, c, b, data, dirty))
<1> DEFINE s == c[Index(g, b)]
           w == WayOf(g, c, b)
           line == [tag |-> Tag(g, b), data |-> data, dirty |-> dirty, uses |-> 1]
           renewed == [line EXCEPT !.uses = s.lines[w].uses]
           hit == OnAccess(g, WithLine(s, w, renewed), w)
           filled == OnInsert(s, First(FreeWays(g, s)), line)
           swapped == OnInsert(s, Victim(g, s), line)
           after == Insert(g, c, b, data, dirty)
<1>1. /\ GoodSet(Ways(g), s)
      /\ \A x \in Nat : Holds(g, c, x) <=> Tag(g, x) \in Tags(c[Index(g, x)].lines)
  BY HoldsFacts
<1>2. GoodLines(Ways(g), s.lines)
  BY <1>1 DEF GoodSet
<1>3. \A x \in Nat : x = b <=> Index(g, x) = Index(g, b) /\ Tag(g, x) = Tag(g, b)
  BY SameBlock
<1>4. IsLine(line) /\ line.tag = Tag(g, b)
  BY BlockFacts DEF IsLine
<1>5. CASE Holds(g, c, b)
  <2>1. w \in DOMAIN s.lines /\ s.lines[w].tag = Tag(g, b)
    BY <1>5, HoldsFacts
  <2>2. IsLine(renewed) /\ renewed.tag = s.lines[w].tag
    <3>1. s.lines[w].uses \in Nat
      BY <1>2, <2>1 DEF GoodLines, IsLine
    <3> QED BY <1>4, <2>1, <3>1 DEF IsLine
  <2>3. after = [c EXCEPT ![Index(g, b)] = hit]
    BY <1>5 DEF Insert
  <2>4. GoodSet(Ways(g), hit) /\ Tags(hit.lines) = Tags(s.lines)
    <3> DEFINE mid == WithLine(s, w, renewed)
    <3> HIDE DEF s, w, renewed
    <3>1. /\ GoodSet(Ways(g), mid) /\ Tags(mid.lines) = Tags(s.lines)
          /\ DOMAIN mid.lines = DOMAIN s.lines
      BY <1>1, <2>1, <2>2, WithLineFacts
    <3> HIDE DEF mid
    <3>2. GoodSet(Ways(g), OnAccess(g, mid, w)) /\ Tags(OnAccess(g, mid, w).lines) = Tags(mid.lines)
      BY <2>1, <3>1, OnAccessFacts
    <3> QED BY <3>1, <3>2 DEF mid
  <2> HIDE DEF hit, after
  <2>5. GoodCache(g, after) /\ HeldAfter(g, c, b, hit, after)
    BY <1>1, <2>3, <2>4, SetReplaced
  <2>6. ~MustEvict(g, c, b)
    BY <1>5 DEF MustEvict
  <2>7. HeldAfterInsert(g, c, b, after)
    BY <1>1, <1>3, <1>5, <2>4, <2>5, <2>6 DEF HeldAfter, HeldAfterInsert, Displaced
  <2> QED BY <2>5, <2>7 DEF after
<1>6. CASE ~Holds(g, c, b)
  <2>1. \A v \in DOMAIN s.lines : s.lines[v].tag # Tag(g, b)
    BY <1>1, <1>6 DEF Tags
  <2>2. CASE FreeWays(g, s) # {}
    <3>1. First(FreeWays(g, s)) \in FreeWays(g, s)
      BY <2>2, WaysFacts, FirstFacts DEF FreeWays
    <3> DEFINE free == First(FreeWays(g, s))
    <3>2. after = [c EXCEPT ![Index(g, b)] = filled]
      BY <1>6, <2>2 DEF Insert
    <3>3. free \in Ways(g) /\ free \notin DOMAIN s.lines
      BY <3>1 DEF FreeWays
    <3>4. /\ GoodSet(Ways(g), filled)
          /\ Tags(filled.lines) = OtherTags(s, free) \cup {line.tag}
      <4>1. filled = OnInsert(s, free, line)
        OBVIOUS
      <4> HIDE DEF filled, s, line, free
      <4>2. line.tag \notin OtherTags(s, free)
        BY <1>4, <2>1 DEF OtherTags
      <4> QED BY <1>1, <1>4, <3>3, <4>1, <4>2, OnInsertFacts
    <3>5. Tags(filled.lines) = Tags(s.lines) \cup {Tag(g, b)}
      BY <1>4, <3>3, <3>4 DEF Tags, OtherTags
    <3>6. ~MustEvict(g, c, b)
      BY <2>2 DEF MustEvict
    <3> HIDE DEF filled, after
    <3>7. GoodCache(g, after) /\ HeldAfter(g, c, b, filled, after)
      BY <3>2, <3>4, SetReplaced
    <3>8. HeldAfterInsert(g, c, b, after)
      BY <1>1, <1>3, <3>5, <3>6, <3>7 DEF HeldAfter, HeldAfterInsert, Displaced
    <3> QED BY <3>7, <3>8 DEF after
  <2>3. CASE FreeWays(g, s) = {}
    <3> DEFINE v == Victim(g, s)
               out == Evicted(g, c, b).block
    <3>1. MustEvict(g, c, b)
      BY <1>6, <2>3 DEF MustEvict
    <3>2. /\ out \in Nat /\ out # b /\ Index(g, out) = Index(g, b)
          /\ v \in DOMAIN s.lines /\ Tag(g, out) = s.lines[v].tag
      BY <3>1, EvictedFacts
    <3>3. after = [c EXCEPT ![Index(g, b)] = swapped]
      BY <1>6, <2>3 DEF Insert
    <3>4. v \in Ways(g)
      BY <1>2, <3>2 DEF GoodLines
    <3>5. /\ GoodSet(Ways(g), swapped)
          /\ Tags(swapped.lines) = OtherTags(s, v) \cup {line.tag}
      <4>1. swapped = OnInsert(s, v, line)
        OBVIOUS
      <4> HIDE DEF swapped, s, line, v
      <4>2. line.tag \notin OtherTags(s, v)
        BY <1>4, <2>1 DEF OtherTags
      <4> QED BY <1>1, <1>4, <3>4, <4>1, <4>2, OnInsertFacts
    <3>6. Tags(swapped.lines) = (Tags(s.lines) \ {Tag(g, out)}) \cup {Tag(g, b)}
      <4>1. OtherTags(s, v) = Tags(s.lines) \ {s.lines[v].tag}
        BY <1>2, <3>2 DEF Tags, OtherTags, GoodLines
      <4> QED BY <1>4, <3>2, <3>5, <4>1
    <3>7. \A x \in Nat : x = out <=> Index(g, x) = Index(g, out) /\ Tag(g, x) = Tag(g, out)
      <4> HIDE DEF out
      <4> QED BY <3>2, SameBlock
    <3> HIDE DEF swapped, after, v, out
    <3>8. GoodCache(g, after) /\ HeldAfter(g, c, b, swapped, after)
      BY <3>3, <3>5, SetReplaced
    <3>9. HeldAfterInsert(g, c, b, after)
      BY <1>1, <1>3, <3>1, <3>2, <3>6, <3>7, <3>8
         DEF HeldAfter, HeldAfterInsert, Displaced, out
    <3> QED BY <3>8, <3>9 DEF after
  <2> QED BY <2>2, <2>3
<1> QED BY <1>5, <1>6

-----------------------------------------------------------------------------
(* What each operation does to the data and the dirty bit of the blocks    *)
(* held.  A set of lines is seen as the set of its entries, whatever their *)
(* ways.                                                                   *)

Entry(l) == <<l.tag, l.data, l.dirty>>
Entries(lines) == {Entry(lines[w]) : w \in DOMAIN lines}
OtherEntries(s, w) == {Entry(s.lines[v]) : v \in DOMAIN s.lines \ {w}}

(* The cache holds block x with this data and this dirty bit. *)
Has(g, c, x, data, dirty) ==
  <<Tag(g, x), data, dirty>> \in Entries(c[Index(g, x)].lines)

(* after holds x as c does. *)
Same(g, c, after, x) ==
  /\ Holds(g, after, x) <=> Holds(g, c, x)
  /\ Holds(g, c, x) => /\ LineOf(g, after, x).data = LineOf(g, c, x).data
                       /\ LineOf(g, after, x).dirty = LineOf(g, c, x).dirty

-----------------------------------------------------------------------------
(* Sets of lines.                                                          *)

LEMMA OtherEntriesFacts ==
  ASSUME NEW ways, NEW s, GoodSet(ways, s), NEW w \in DOMAIN s.lines,
         NEW t, NEW data, NEW dirty
  PROVE  <<t, data, dirty>> \in OtherEntries(s, w) <=>
           <<t, data, dirty>> \in Entries(s.lines) /\ t # s.lines[w].tag
<1>1. \A v \in DOMAIN s.lines : v = w <=> s.lines[v].tag = s.lines[w].tag
  BY DEF GoodSet, GoodLines
<1> QED BY <1>1 DEF OtherEntries, Entries, Entry

LEMMA OnAccessEntries ==
  ASSUME NEW g, NEW ways, NEW s, GoodSet(ways, s), NEW w \in DOMAIN s.lines
  PROVE  Entries(OnAccess(g, s, w).lines) = Entries(s.lines)
<1> DEFINE l == [s.lines[w] EXCEPT !.uses = @ + 1]
           lines == [s.lines EXCEPT ![w] = l]
<1>1. /\ s.lines = [v \in DOMAIN s.lines |-> s.lines[v]]
      /\ IsLine(s.lines[w])
  BY DEF GoodSet, GoodLines
<1>2. Entry(l) = Entry(s.lines[w])
  <2> DEFINE x == s.lines[w]
  <2>1. l = [tag |-> x.tag, data |-> x.data, dirty |-> x.dirty, uses |-> x.uses + 1]
    BY <1>1 DEF IsLine
  <2> QED BY <2>1 DEF Entry
<1>3. OnAccess(g, s, w).lines = lines \/ OnAccess(g, s, w).lines = s.lines
  BY DEF OnAccess
<1> HIDE DEF l
<1>4. /\ DOMAIN lines = DOMAIN s.lines
      /\ \A v \in DOMAIN s.lines : lines[v] = IF v = w THEN l ELSE s.lines[v]
  BY <1>1
<1> HIDE DEF lines
<1>5. \A v \in DOMAIN s.lines : Entry(lines[v]) = Entry(s.lines[v])
  BY <1>2, <1>4
<1>6. Entries(lines) = Entries(s.lines)
  BY <1>4, <1>5 DEF Entries
<1> QED BY <1>3, <1>6

LEMMA OnInsertEntries ==
  ASSUME NEW ways, NEW s, GoodSet(ways, s), NEW w, NEW line
  PROVE  Entries(OnInsert(s, w, line).lines) = OtherEntries(s, w) \cup {Entry(line)}
<1> DEFINE lines == [v \in DOMAIN s.lines \cup {w} |-> IF v = w THEN line ELSE s.lines[v]]
<1>1. OnInsert(s, w, line).lines = lines
  BY DEF OnInsert
<1>2. /\ DOMAIN lines = DOMAIN s.lines \cup {w}
      /\ \A v \in DOMAIN lines : lines[v] = IF v = w THEN line ELSE s.lines[v]
  OBVIOUS
<1> HIDE DEF lines
<1>3. Entries(lines) = OtherEntries(s, w) \cup {Entry(line)}
  BY <1>2 DEF Entries, OtherEntries
<1> QED BY <1>1, <1>3

LEMMA WithLineEntries ==
  ASSUME NEW ways, NEW s, GoodSet(ways, s), NEW w \in DOMAIN s.lines, NEW line
  PROVE  Entries(WithLine(s, w, line).lines) = OtherEntries(s, w) \cup {Entry(line)}
<1> DEFINE lines == [s.lines EXCEPT ![w] = line]
<1>1. WithLine(s, w, line).lines = lines
  BY DEF WithLine
<1>2. s.lines = [v \in DOMAIN s.lines |-> s.lines[v]]
  BY DEF GoodSet, GoodLines
<1>3. /\ DOMAIN lines = DOMAIN s.lines
      /\ \A v \in DOMAIN lines : lines[v] = IF v = w THEN line ELSE s.lines[v]
  BY <1>2
<1> HIDE DEF lines
<1>4. Entries(lines) = OtherEntries(s, w) \cup {Entry(line)}
  BY <1>3 DEF Entries, OtherEntries
<1> QED BY <1>1, <1>4

-----------------------------------------------------------------------------
(* Whole caches.                                                           *)

LEMMA HasFacts ==
  ASSUME NEW g, IsConfig(g), NEW c, GoodCache(g, c), NEW x \in Nat,
         NEW data, NEW dirty
  PROVE  Has(g, c, x, data, dirty) <=>
           /\ Holds(g, c, x)
           /\ data = LineOf(g, c, x).data /\ dirty = LineOf(g, c, x).dirty
<1> DEFINE s == c[Index(g, x)]
           w == WayOf(g, c, x)
           t == Tag(g, x)
<1>1. /\ GoodSet(Ways(g), s)
      /\ Holds(g, c, x) <=> t \in Tags(s.lines)
      /\ Holds(g, c, x) => w \in DOMAIN s.lines /\ s.lines[w].tag = t
  BY HoldsFacts
<1>2. \A u, v \in DOMAIN s.lines : s.lines[v].tag = s.lines[u].tag => v = u
  BY <1>1 DEF GoodSet, GoodLines
<1>3. LineOf(g, c, x) = s.lines[w]
  BY DEF LineOf
<1>4. Has(g, c, x, data, dirty) <=> <<t, data, dirty>> \in Entries(s.lines)
  BY DEF Has
<1> HIDE DEF s, w, t
<1>5. ASSUME <<t, data, dirty>> \in Entries(s.lines)
      PROVE  /\ Holds(g, c, x)
             /\ data = s.lines[w].data /\ dirty = s.lines[w].dirty
  <2>1. PICK v \in DOMAIN s.lines : <<t, data, dirty>> = Entry(s.lines[v])
    BY <1>5 DEF Entries
  <2>2. s.lines[v].tag = t /\ s.lines[v].data = data /\ s.lines[v].dirty = dirty
    BY <2>1 DEF Entry
  <2>3. Holds(g, c, x)
    BY <1>1, <2>2 DEF Tags
  <2> QED BY <1>1, <1>2, <2>2, <2>3
<1>6. ASSUME Holds(g, c, x), data = s.lines[w].data, dirty = s.lines[w].dirty
      PROVE  <<t, data, dirty>> \in Entries(s.lines)
  BY <1>1, <1>6 DEF Entries, Entry
<1> QED BY <1>3, <1>4, <1>5, <1>6

(* What after has, if it differs from c in block b's set only, now s. *)
HasAfter(g, c, b, s, after) ==
  \A x \in Nat : \A data, dirty :
    Has(g, after, x, data, dirty) <=>
      IF Index(g, x) = Index(g, b)
        THEN <<Tag(g, x), data, dirty>> \in Entries(s.lines)
        ELSE Has(g, c, x, data, dirty)

LEMMA SetReplacedHas ==
  ASSUME NEW g, IsConfig(g), NEW c, GoodCache(g, c), NEW b \in Nat, NEW s,
         NEW after, after = [c EXCEPT ![Index(g, b)] = s]
  PROVE  HasAfter(g, c, b, s, after)
<1> SUFFICES ASSUME NEW x \in Nat, NEW data, NEW dirty
             PROVE  Has(g, after, x, data, dirty) <=>
                      IF Index(g, x) = Index(g, b)
                        THEN <<Tag(g, x), data, dirty>> \in Entries(s.lines)
                        ELSE Has(g, c, x, data, dirty)
  BY DEF HasAfter
<1> DEFINE k == Index(g, b)
           j == Index(g, x)
<1>1. k \in SetNumbers(g) /\ j \in SetNumbers(g)
  BY BlockFacts
<1>2. c = [i \in SetNumbers(g) |-> c[i]]
  BY DEF GoodCache
<1> HIDE DEF k, j
<1>3. after[j] = IF j = k THEN s ELSE c[j]
  BY <1>1, <1>2 DEF k
<1> QED BY <1>3 DEF Has, j, k

(* A hit changes no block's data (read, read_block). *)
LEMMA AccessedHas ==
  ASSUME NEW g, IsConfig(g), NEW c, GoodCache(g, c), NEW b \in Nat, Holds(g, c, b),
         NEW x \in Nat, NEW d, NEW y
  PROVE  Has(g, Accessed(g, c, b), x, d, y) <=> Has(g, c, x, d, y)
<1> DEFINE s == c[Index(g, b)]
           w == WayOf(g, c, b)
           set == OnAccess(g, s, w)
           after == Accessed(g, c, b)
<1>1. GoodSet(Ways(g), s) /\ w \in DOMAIN s.lines
  BY HoldsFacts
<1>2. Entries(set.lines) = Entries(s.lines)
  <2> HIDE DEF s, w
  <2> QED BY <1>1, OnAccessEntries
<1>3. after = [c EXCEPT ![Index(g, b)] = set]
  BY DEF Accessed
<1> HIDE DEF set, after
<1>4. HasAfter(g, c, b, set, after)
  BY <1>3, SetReplacedHas
<1>5. Index(g, x) = Index(g, b) =>
        (Has(g, c, x, d, y) <=> <<Tag(g, x), d, y>> \in Entries(s.lines))
  BY DEF Has
<1> QED BY <1>2, <1>4, <1>5 DEF after, HasAfter

(* A write changes its own block's data, and marks it (write). *)
HasAfterWrite(g, c, b, data, after) ==
  \A x \in Nat : \A d, y :
    Has(g, after, x, d, y) <=>
      IF x = b THEN d = data /\ y = TRUE ELSE Has(g, c, x, d, y)

LEMMA WriteHas ==
  ASSUME NEW g, IsConfig(g), NEW c, GoodCache(g, c), NEW b \in Nat, Holds(g, c, b),
         NEW cell, NEW value
  PROVE  HasAfterWrite(g, c, b, [LineOf(g, c, b).data EXCEPT ![cell] = value],
                       Write(g, c, b, cell, value))
<1> DEFINE s == c[Index(g, b)]
           w == WayOf(g, c, b)
           data == [LineOf(g, c, b).data EXCEPT ![cell] = value]
           l == Written(LineOf(g, c, b), cell, value)
           set == WithLine(s, w, l)
           after == Write(g, c, b, cell, value)
<1> SUFFICES ASSUME NEW x \in Nat, NEW d, NEW y
             PROVE  Has(g, after, x, d, y) <=>
                      IF x = b THEN d = data /\ y = TRUE ELSE Has(g, c, x, d, y)
  BY DEF HasAfterWrite
<1>1. GoodSet(Ways(g), s) /\ w \in DOMAIN s.lines /\ s.lines[w].tag = Tag(g, b)
  BY HoldsFacts
<1>2. Entry(l) = <<Tag(g, b), data, TRUE>>
  BY <1>1 DEF Entry, Written, LineOf
<1>3. after = [c EXCEPT ![Index(g, b)] = set]
  BY DEF Write
<1> HIDE DEF l, data
<1>4. Entries(set.lines) = OtherEntries(s, w) \cup {Entry(l)}
  <2> HIDE DEF s, w
  <2> QED BY <1>1, WithLineEntries
<1>5. <<Tag(g, x), d, y>> \in OtherEntries(s, w) \cup {<<Tag(g, b), data, TRUE>>} <=>
        IF Tag(g, x) = Tag(g, b) THEN d = data /\ y = TRUE
                                 ELSE <<Tag(g, x), d, y>> \in Entries(s.lines)
  <2> DEFINE marked == TRUE
  <2> HIDE DEF s, w, marked
  <2>1. <<Tag(g, x), d, y>> \in OtherEntries(s, w) <=>
          <<Tag(g, x), d, y>> \in Entries(s.lines) /\ Tag(g, x) # s.lines[w].tag
    BY <1>1, OtherEntriesFacts
  <2>2. <<Tag(g, x), d, y>> = <<Tag(g, b), data, marked>> <=>
          Tag(g, x) = Tag(g, b) /\ d = data /\ y = marked
    OBVIOUS
  <2> QED BY <1>1, <2>1, <2>2 DEF marked
<1> HIDE DEF set, after
<1>6. HasAfter(g, c, b, set, after)
  BY <1>3, SetReplacedHas
<1>7. Index(g, x) = Index(g, b) =>
        (Has(g, c, x, d, y) <=> <<Tag(g, x), d, y>> \in Entries(s.lines))
  BY DEF Has
<1>8. x = b <=> Index(g, x) = Index(g, b) /\ Tag(g, x) = Tag(g, b)
  BY SameBlock
<1>9. Has(g, after, x, d, y) <=>
        IF x = b THEN d = data /\ y = TRUE ELSE Has(g, c, x, d, y)
  <2> HIDE DEF s, w
  <2> QED BY <1>2, <1>4, <1>5, <1>6, <1>7, <1>8 DEF HasAfter
<1> QED BY <1>9 DEF after, data

(* An invalidation leaves the other blocks' data (invalidate). *)
LEMMA InvalidateHas ==
  ASSUME NEW g, IsConfig(g), NEW c, GoodCache(g, c), NEW b \in Nat,
         NEW x \in Nat, NEW d, NEW y
  PROVE  Has(g, Invalidate(g, c, b), x, d, y) <=> Has(g, c, x, d, y) /\ x # b
<1>1. CASE ~Holds(g, c, b)
  BY <1>1, HasFacts DEF Invalidate
<1>2. CASE Holds(g, c, b)
  <2> DEFINE s == c[Index(g, b)]
             w == WayOf(g, c, b)
             lines == [v \in DOMAIN s.lines \ {w} |-> s.lines[v]]
             set == [lines |-> lines, order |-> Without(s.order, w)]
             after == Invalidate(g, c, b)
  <2>1. GoodSet(Ways(g), s) /\ w \in DOMAIN s.lines /\ s.lines[w].tag = Tag(g, b)
    BY <1>2, HoldsFacts
  <2>2. after = [c EXCEPT ![Index(g, b)] = set]
    BY <1>2 DEF Invalidate
  <2>3. set.lines = lines
    OBVIOUS
  <2>4. Entries(lines) = OtherEntries(s, w)
    BY DEF Entries, OtherEntries
  <2> HIDE DEF set, after, lines
  <2>5. <<Tag(g, x), d, y>> \in OtherEntries(s, w) <=>
          <<Tag(g, x), d, y>> \in Entries(s.lines) /\ Tag(g, x) # s.lines[w].tag
    <3> HIDE DEF s, w
    <3> QED BY <2>1, OtherEntriesFacts
  <2>6. HasAfter(g, c, b, set, after)
    BY <2>2, SetReplacedHas
  <2>7. Index(g, x) = Index(g, b) =>
          (Has(g, c, x, d, y) <=> <<Tag(g, x), d, y>> \in Entries(s.lines))
    BY DEF Has
  <2>8. x = b <=> Index(g, x) = Index(g, b) /\ Tag(g, x) = Tag(g, b)
    BY SameBlock
  <2>9. Has(g, after, x, d, y) <=> Has(g, c, x, d, y) /\ x # b
    <3> HIDE DEF s, w
    <3> QED BY <2>1, <2>3, <2>4, <2>5, <2>6, <2>7, <2>8 DEF HasAfter
  <2> QED BY <2>9 DEF after
<1> QED BY <1>1, <1>2

(* What a set has once line, of block b, is in its way w: its own entry,   *)
(* and of the set's others those not of the way's tag.                     *)
HasPlaced(g, c, b, data, dirty, others, after) ==
  \A x \in Nat : \A d, y :
    Has(g, after, x, d, y) <=>
      IF x = b THEN (d = data /\ y = dirty) \/ <<Tag(g, b), d, y>> \in others
      ELSE IF Index(g, x) = Index(g, b) THEN <<Tag(g, x), d, y>> \in others
      ELSE Has(g, c, x, d, y)

LEMMA PlacedHas ==
  ASSUME NEW g, IsConfig(g), NEW c, NEW b \in Nat,
         NEW data, NEW dirty, NEW set, NEW others,
         Entries(set.lines) = others \cup {<<Tag(g, b), data, dirty>>},
         NEW after, HasAfter(g, c, b, set, after)
  PROVE  HasPlaced(g, c, b, data, dirty, others, after)
<1> SUFFICES ASSUME NEW x \in Nat, NEW d, NEW y
             PROVE  Has(g, after, x, d, y) <=>
                      IF x = b THEN (d = data /\ y = dirty) \/ <<Tag(g, b), d, y>> \in others
                      ELSE IF Index(g, x) = Index(g, b) THEN <<Tag(g, x), d, y>> \in others
                      ELSE Has(g, c, x, d, y)
  BY DEF HasPlaced
<1>1. <<Tag(g, x), d, y>> = <<Tag(g, b), data, dirty>> <=>
        Tag(g, x) = Tag(g, b) /\ d = data /\ y = dirty
  OBVIOUS
<1>2. x = b <=> Index(g, x) = Index(g, b) /\ Tag(g, x) = Tag(g, b)
  BY SameBlock
<1> QED BY <1>1, <1>2 DEF HasAfter

(* An insertion gives its block the data, and takes none from another but  *)
(* the one it returns (insert).                                            *)
HasAfterInsert(g, c, b, data, dirty, after) ==
  \A x \in Nat : \A d, y :
    Has(g, after, x, d, y) <=>
      IF x = b THEN d = data /\ y = dirty
               ELSE Has(g, c, x, d, y) /\ ~Displaced(g, c, b, x)

LEMMA InsertHas ==
  ASSUME NEW g, IsConfig(g), NEW c, GoodCache(g, c), NEW b \in Nat,
         NEW data, NEW dirty
  PROVE  HasAfterInsert(g, c, b, data, dirty, Insert(g, c, b, data, dirty))
<1> DEFINE s == c[Index(g, b)]
           w == WayOf(g, c, b)
           line == [tag |-> Tag(g, b), data |-> data, dirty |-> dirty, uses |-> 1]
           renewed == [line EXCEPT !.uses = s.lines[w].uses]
           mid == WithLine(s, w, renewed)
           hit == OnAccess(g, mid, w)
           after == Insert(g, c, b, data, dirty)
<1>1. /\ GoodSet(Ways(g), s)
      /\ \A x \in Nat : Holds(g, c, x) <=> Tag(g, x) \in Tags(c[Index(g, x)].lines)
  BY HoldsFacts
<1>2. GoodLines(Ways(g), s.lines)
  BY <1>1 DEF GoodSet
<1>3. Entry(line) = <<Tag(g, b), data, dirty>> /\ Entry(renewed) = Entry(line)
  BY DEF Entry
<1>4. IsLine(line) /\ line.tag = Tag(g, b)
  BY BlockFacts DEF IsLine
<1>5. SUFFICES ASSUME NEW x \in Nat, NEW d, NEW y
               PROVE  Has(g, after, x, d, y) <=>
                        IF x = b THEN d = data /\ y = dirty
                                 ELSE Has(g, c, x, d, y) /\ ~Displaced(g, c, b, x)
  BY DEF HasAfterInsert
<1>6. \A z \in Nat : Index(g, z) = Index(g, b) =>
        (Has(g, c, z, d, y) <=> <<Tag(g, z), d, y>> \in Entries(s.lines))
  BY DEF Has
<1>7. x = b <=> Index(g, x) = Index(g, b) /\ Tag(g, x) = Tag(g, b)
  BY SameBlock
<1>8. Has(g, c, b, d, y) => Holds(g, c, b)
  BY HasFacts
<1>9. CASE Holds(g, c, b)
  <2>1. w \in DOMAIN s.lines /\ s.lines[w].tag = Tag(g, b)
    BY <1>9, HoldsFacts
  <2>2. IsLine(renewed) /\ renewed.tag = s.lines[w].tag
    <3>1. s.lines[w].uses \in Nat
      BY <1>2, <2>1 DEF GoodLines, IsLine
    <3> QED BY <1>4, <2>1, <3>1 DEF IsLine
  <2>3. after = [c EXCEPT ![Index(g, b)] = hit]
    BY <1>9 DEF Insert
  <2>4. ~Displaced(g, c, b, x)
    BY <1>9 DEF Displaced, MustEvict
  <2> HIDE DEF after, renewed, line
  <2>5. Entries(hit.lines) = OtherEntries(s, w) \cup {Entry(line)}
    <3> HIDE DEF s, w
    <3>1. GoodSet(Ways(g), mid) /\ DOMAIN mid.lines = DOMAIN s.lines
      BY <1>1, <2>1, <2>2, WithLineFacts
    <3>2. Entries(mid.lines) = OtherEntries(s, w) \cup {Entry(line)}
      BY <1>1, <1>3, <2>1, WithLineEntries
    <3> HIDE DEF mid
    <3>3. Entries(hit.lines) = Entries(mid.lines)
      BY <2>1, <3>1, OnAccessEntries
    <3> QED BY <3>2, <3>3
  <2> HIDE DEF hit
  <2>6. HasAfter(g, c, b, hit, after)
    BY <2>3, SetReplacedHas
  <2>7. \A t : <<t, d, y>> \in OtherEntries(s, w) <=>
                 <<t, d, y>> \in Entries(s.lines) /\ t # s.lines[w].tag
    <3> HIDE DEF s, w
    <3> QED BY <1>1, <2>1, OtherEntriesFacts
  <2> DEFINE others == OtherEntries(s, w)
  <2> HIDE DEF others
  <2>8. Entries(hit.lines) = others \cup {<<Tag(g, b), data, dirty>>}
    BY <1>3, <2>5 DEF others
  <2>9. HasPlaced(g, c, b, data, dirty, others, after)
    BY <2>6, <2>8, PlacedHas
  <2> HIDE DEF s, w
  <2> QED BY <1>6, <1>7, <2>1, <2>4, <2>7, <2>9 DEF others, HasPlaced
<1>10. CASE ~Holds(g, c, b)
  <2>1. \A v \in DOMAIN s.lines : s.lines[v].tag # Tag(g, b)
    BY <1>1, <1>10 DEF Tags
  <2>2. CASE FreeWays(g, s) # {}
    <3> DEFINE free == First(FreeWays(g, s))
               set == OnInsert(s, free, line)
               others == OtherEntries(s, free)
    <3>1. free \in FreeWays(g, s)
      BY <2>2, WaysFacts, FirstFacts DEF FreeWays
    <3>2. after = [c EXCEPT ![Index(g, b)] = set]
      BY <1>10, <2>2 DEF Insert
    <3>3. free \notin DOMAIN s.lines
      BY <3>1 DEF FreeWays
    <3>4. others = Entries(s.lines)
      BY <3>3 DEF OtherEntries, Entries
    <3>5. ~Displaced(g, c, b, x)
      BY <2>2 DEF Displaced, MustEvict
    <3> HIDE DEF after, line, free
    <3>6. Entries(set.lines) = others \cup {Entry(line)}
      <4> HIDE DEF s
      <4> QED BY <1>1, OnInsertEntries
    <3> HIDE DEF set, others
    <3>7. Entries(set.lines) = others \cup {<<Tag(g, b), data, dirty>>}
      BY <1>3, <3>6
    <3>8. HasAfter(g, c, b, set, after)
      BY <3>2, SetReplacedHas
    <3>9. HasPlaced(g, c, b, data, dirty, others, after)
      BY <3>7, <3>8, PlacedHas
    <3> HIDE DEF s
    <3> QED BY <1>6, <1>8, <1>10, <3>4, <3>5, <3>9 DEF HasPlaced
  <2>3. CASE FreeWays(g, s) = {}
    <3> DEFINE v == Victim(g, s)
               out == Evicted(g, c, b).block
               set == OnInsert(s, v, line)
               others == OtherEntries(s, v)
    <3>1. MustEvict(g, c, b)
      BY <1>10, <2>3 DEF MustEvict
    <3>2. /\ out \in Nat /\ out # b /\ Index(g, out) = Index(g, b)
          /\ v \in DOMAIN s.lines /\ Tag(g, out) = s.lines[v].tag
      BY <3>1, EvictedFacts
    <3>3. after = [c EXCEPT ![Index(g, b)] = set]
      BY <1>10, <2>3 DEF Insert
    <3>4. \A t : <<t, d, y>> \in others <=>
                   <<t, d, y>> \in Entries(s.lines) /\ t # s.lines[v].tag
      <4> HIDE DEF s, v
      <4> QED BY <1>1, <3>2, OtherEntriesFacts
    <3>5. Displaced(g, c, b, x) <=> x = out
      BY <3>1 DEF Displaced
    <3>6. x = out <=> Index(g, x) = Index(g, out) /\ Tag(g, x) = Tag(g, out)
      <4> HIDE DEF out
      <4> QED BY <3>2, SameBlock
    <3> HIDE DEF after, line, v, out
    <3>7. Entries(set.lines) = others \cup {Entry(line)}
      <4> HIDE DEF s
      <4> QED BY <1>1, OnInsertEntries
    <3> HIDE DEF set, others
    <3>8. Entries(set.lines) = others \cup {<<Tag(g, b), data, dirty>>}
      BY <1>3, <3>7
    <3>9. HasAfter(g, c, b, set, after)
      BY <3>3, SetReplacedHas
    <3>10. HasPlaced(g, c, b, data, dirty, others, after)
      BY <3>8, <3>9, PlacedHas
    <3> HIDE DEF s
    <3> QED BY <1>6, <1>8, <1>10, <3>2, <3>4, <3>5, <3>6, <3>10
       DEF HasPlaced
  <2> QED BY <2>2, <2>3
<1> QED BY <1>9, <1>10

-----------------------------------------------------------------------------
(* The same in terms of the blocks' lines.                                 *)

LEMMA SameFacts ==
  ASSUME NEW g, IsConfig(g), NEW c, GoodCache(g, c),
         NEW after, GoodCache(g, after), NEW x \in Nat,
         \A d, y : Has(g, after, x, d, y) <=> Has(g, c, x, d, y)
  PROVE  Same(g, c, after, x)
<1>1. \A d, y : Has(g, c, x, d, y) <=>
        Holds(g, c, x) /\ d = LineOf(g, c, x).data /\ y = LineOf(g, c, x).dirty
  BY HasFacts
<1>2. \A d, y : Has(g, after, x, d, y) <=>
        Holds(g, after, x) /\ d = LineOf(g, after, x).data /\ y = LineOf(g, after, x).dirty
  BY HasFacts
<1> QED BY <1>1, <1>2 DEF Same

LEMMA AccessedSame ==
  ASSUME NEW g, IsConfig(g), NEW c, GoodCache(g, c), NEW b \in Nat, Holds(g, c, b),
         NEW x \in Nat
  PROVE  Same(g, c, Accessed(g, c, b), x)
<1> DEFINE after == Accessed(g, c, b)
<1>1. GoodCache(g, after)
  BY AccessedFacts
<1>2. \A d, y : Has(g, after, x, d, y) <=> Has(g, c, x, d, y)
  BY AccessedHas
<1> HIDE DEF after
<1>3. Same(g, c, after, x)
  BY <1>1, <1>2, SameFacts
<1> QED BY <1>3 DEF after

LEMMA InvalidateSame ==
  ASSUME NEW g, IsConfig(g), NEW c, GoodCache(g, c), NEW b \in Nat,
         NEW x \in Nat, x # b
  PROVE  Same(g, c, Invalidate(g, c, b), x)
<1> DEFINE after == Invalidate(g, c, b)
<1>1. GoodCache(g, after)
  BY InvalidateFacts
<1>2. \A d, y : Has(g, after, x, d, y) <=> Has(g, c, x, d, y)
  BY InvalidateHas
<1> HIDE DEF after
<1>3. Same(g, c, after, x)
  BY <1>1, <1>2, SameFacts
<1> QED BY <1>3 DEF after

LEMMA WriteData ==
  ASSUME NEW g, IsConfig(g), NEW c, GoodCache(g, c), NEW b \in Nat, Holds(g, c, b),
         NEW cell, NEW value, NEW x \in Nat
  PROVE  LET after == Write(g, c, b, cell, value)
         IN /\ x # b => Same(g, c, after, x)
            /\ LineOf(g, after, b).data = [LineOf(g, c, b).data EXCEPT ![cell] = value]
            /\ LineOf(g, after, b).dirty = TRUE
<1> DEFINE after == Write(g, c, b, cell, value)
           data == [LineOf(g, c, b).data EXCEPT ![cell] = value]
<1>1. GoodCache(g, after) /\ HasAfterWrite(g, c, b, data, after)
  BY WriteFacts, WriteHas
<1> HIDE DEF after, data
<1>2. x # b => \A d, y : Has(g, after, x, d, y) <=> Has(g, c, x, d, y)
  BY <1>1 DEF HasAfterWrite
<1>3. \A y : y = TRUE => Has(g, after, b, data, y)
  BY <1>1 DEF HasAfterWrite
<1>4. x # b => Same(g, c, after, x)
  BY <1>1, <1>2, SameFacts
<1>5. \A y : y = TRUE =>
        data = LineOf(g, after, b).data /\ y = LineOf(g, after, b).dirty
  BY <1>1, <1>3, HasFacts
<1> QED BY <1>4, <1>5 DEF after, data

LEMMA InsertData ==
  ASSUME NEW g, IsConfig(g), NEW c, GoodCache(g, c), NEW b \in Nat,
         NEW data, NEW dirty, NEW x \in Nat
  PROVE  LET after == Insert(g, c, b, data, dirty)
         IN /\ x # b /\ ~Displaced(g, c, b, x) => Same(g, c, after, x)
            /\ Holds(g, after, b)
            /\ LineOf(g, after, b).data = data
            /\ LineOf(g, after, b).dirty = dirty
<1> DEFINE after == Insert(g, c, b, data, dirty)
<1>1. GoodCache(g, after) /\ HasAfterInsert(g, c, b, data, dirty, after)
  BY InsertFacts, InsertHas
<1> HIDE DEF after
<1>2. x # b /\ ~Displaced(g, c, b, x) =>
        \A d, y : Has(g, after, x, d, y) <=> Has(g, c, x, d, y)
  BY <1>1 DEF HasAfterInsert
<1>3. Has(g, after, b, data, dirty)
  BY <1>1 DEF HasAfterInsert
<1>4. x # b /\ ~Displaced(g, c, b, x) => Same(g, c, after, x)
  BY <1>1, <1>2, SameFacts
<1>5. /\ Holds(g, after, b)
      /\ data = LineOf(g, after, b).data /\ dirty = LineOf(g, after, b).dirty
  BY <1>1, <1>3, HasFacts
<1> QED BY <1>4, <1>5 DEF after

(* What insert returns is what the cache had of the block (insert). *)
LEMMA EvictedData ==
  ASSUME NEW g, IsConfig(g), NEW c, GoodCache(g, c), NEW b \in Nat,
         MustEvict(g, c, b)
  PROVE  LET out == Evicted(g, c, b)
         IN out.data = LineOf(g, c, out.block).data /\ out.dirty = LineOf(g, c, out.block).dirty
<1> DEFINE s == c[Index(g, b)]
           v == Victim(g, s)
           out == Evicted(g, c, b)
<1>1. /\ out.block \in Nat /\ Index(g, out.block) = Index(g, b)
      /\ v \in DOMAIN s.lines /\ Tag(g, out.block) = s.lines[v].tag
  BY EvictedFacts
<1>2. out.data = s.lines[v].data /\ out.dirty = s.lines[v].dirty
  BY DEF Evicted
<1> HIDE DEF out
<1>3. Has(g, c, out.block, out.data, out.dirty)
  <2> HIDE DEF v
  <2> QED BY <1>1, <1>2 DEF Has, Entries, Entry
<1>4. out.data = LineOf(g, c, out.block).data /\ out.dirty = LineOf(g, c, out.block).dirty
  BY <1>1, <1>3, HasFacts
<1> QED BY <1>4 DEF out

(* The dirty lines are those of the blocks held dirty, and finitely many. *)
LEMMA DirtyLineFacts ==
  ASSUME NEW g, IsConfig(g), NEW c, GoodCache(g, c), NEW e \in DirtyLines(g, c)
  PROVE  e.block \in Nat /\ HoldsDirty(g, c, e.block) /\ e.data = LineOf(g, c, e.block).data
<1>0. PICK i \in SetNumbers(g) : \E w \in DirtyWays(c[i]) :
        e = [block |-> BlockAt(g, c[i].lines[w].tag, i), data |-> c[i].lines[w].data]
  BY DEF DirtyLines
<1>1. PICK w \in DirtyWays(c[i]) :
        e = [block |-> BlockAt(g, c[i].lines[w].tag, i), data |-> c[i].lines[w].data]
  BY <1>0
<1>2. w \in DOMAIN c[i].lines /\ c[i].lines[w].dirty /\ GoodSet(Ways(g), c[i])
  BY <1>1 DEF DirtyWays, GoodCache
<1> DEFINE l == c[i].lines[w]
<1>3. /\ l.tag \in Nat /\ l.dirty
      /\ e.block = BlockAt(g, l.tag, i) /\ e.data = l.data
      /\ Entry(l) \in Entries(c[i].lines)
  BY <1>1, <1>2 DEF GoodSet, GoodLines, IsLine, Entries
<1> HIDE DEF l
<1>4. e.block \in Nat /\ Tag(g, e.block) = l.tag /\ Index(g, e.block) = i
  BY <1>3, BlockAtFacts
<1>5. Has(g, c, e.block, l.data, l.dirty)
  BY <1>3, <1>4 DEF Has, Entry
<1>6. /\ Holds(g, c, e.block)
      /\ l.data = LineOf(g, c, e.block).data /\ l.dirty = LineOf(g, c, e.block).dirty
  BY <1>4, <1>5, HasFacts
<1> QED BY <1>3, <1>4, <1>6 DEF HoldsDirty

LEMMA HeldDirtyFacts ==
  ASSUME NEW g, IsConfig(g), NEW c, GoodCache(g, c), NEW x \in Nat,
         HoldsDirty(g, c, x)
  PROVE  \E e \in DirtyLines(g, c) : e.block = x /\ e.data = LineOf(g, c, x).data
<1> DEFINE i == Index(g, x)
           w == WayOf(g, c, x)
           l == c[i].lines[w]
           e == [block |-> BlockAt(g, l.tag, i), data |-> l.data]
<1>1. /\ w \in DOMAIN c[i].lines /\ l.tag = Tag(g, x) /\ l = LineOf(g, c, x)
  BY HoldsFacts DEF HoldsDirty, LineOf
<1>2. i \in SetNumbers(g) /\ BlockAt(g, Tag(g, x), i) = x
  BY BlockFacts
<1>3. w \in DirtyWays(c[i])
  BY <1>1 DEF HoldsDirty, DirtyWays
<1>4. e \in DirtyLines(g, c)
  BY <1>2, <1>3 DEF DirtyLines
<1>5. e.block = x /\ e.data = LineOf(g, c, x).data
  BY <1>1, <1>2
<1> QED BY <1>4, <1>5

LEMMA DirtyLinesFinite ==
  ASSUME NEW g, IsConfig(g), NEW c, GoodCache(g, c)
  PROVE  IsFiniteSet(DirtyLines(g, c))
<1> DEFINE all == SetNumbers(g) \X Ways(g)
           dirty == {q \in all : q[2] \in DirtyWays(c[q[1]])}
           e(q) == [block |-> BlockAt(g, c[q[1]].lines[q[2]].tag, q[1]),
                    data |-> c[q[1]].lines[q[2]].data]
           f == [q \in dirty |-> e(q)]
<1>1. IsFiniteSet(all)
  <2> DEFINE sets == g.sets - 1
             ways == g.ways
  <2>0. sets \in Int /\ ways \in Int /\ 0 \in Int /\ 1 \in Int
    BY DEF IsConfig
  <2> HIDE DEF sets, ways
  <2>1. IsFiniteSet(0..sets) /\ IsFiniteSet(1..ways)
    BY <2>0, FS_Interval
  <2>2. IsFiniteSet(SetNumbers(g)) /\ IsFiniteSet(Ways(g))
    BY <2>1 DEF SetNumbers, Ways, sets, ways
  <2> QED BY <2>2, FS_Product
<1>2. IsFiniteSet(dirty)
  BY <1>1, FS_Subset
<1>3. \A i \in SetNumbers(g) : \A w \in DirtyWays(c[i]) :
        /\ <<i, w>> \in dirty
        /\ e(<<i, w>>) = [block |-> BlockAt(g, c[i].lines[w].tag, i),
                          data |-> c[i].lines[w].data]
  BY DEF DirtyWays, GoodCache, GoodSet, GoodLines
<1>4. \A q \in dirty : e(q) \in DirtyLines(g, c)
  BY DEF DirtyLines
<1>5. \A d \in DirtyLines(g, c) : \E q \in dirty : e(q) = d
  <2> TAKE d \in DirtyLines(g, c)
  <2>1. PICK i \in SetNumbers(g) : \E w \in DirtyWays(c[i]) :
          d = [block |-> BlockAt(g, c[i].lines[w].tag, i), data |-> c[i].lines[w].data]
    BY DEF DirtyLines
  <2> HIDE DEF dirty, e
  <2> QED BY <1>3, <2>1
<1> HIDE DEF dirty, e
<1>6. f \in Surjection(dirty, DirtyLines(g, c))
  BY <1>4, <1>5 DEF Surjection
<1> HIDE DEF f
<1> QED BY <1>2, <1>6, FS_Surjection

-----------------------------------------------------------------------------
(* What the flush leaves of a cache (flush_all).                           *)

(* The recursive function part of Only, and the value it has.              *)
PartOf(order, kept, n, part) ==
  part = [i \in 0..n |->
            IF i = 0 THEN << >>
            ELSE IF order[i] \in kept THEN Append(part[i - 1], order[i])
            ELSE part[i - 1]]

LEMMA OnlyIs ==
  ASSUME NEW order, NEW kept, \E f : PartOf(order, kept, Len(order), f)
  PROVE  \E f : PartOf(order, kept, Len(order), f) /\ Only(order, kept) = f[Len(order)]
<1> DEFINE f == CHOOSE part : part = [i \in 0..Len(order) |->
            IF i = 0 THEN << >>
            ELSE IF order[i] \in kept THEN Append(part[i - 1], order[i])
            ELSE part[i - 1]]
<1>1. Only(order, kept) = f[Len(order)]
  BY DEF Only
<1>2. PartOf(order, kept, Len(order), f)
  BY DEF PartOf
<1> HIDE DEF f
<1> QED BY <1>1, <1>2

LEMMA PartsExist ==
  ASSUME NEW order, NEW kept, NEW n \in Nat
  PROVE  \E f : PartOf(order, kept, n, f)
<1> DEFINE without == {m \in Nat : ~\E f : PartOf(order, kept, m, f)}
<1> SUFFICES ASSUME without # {} PROVE FALSE
  OBVIOUS
<1>0. PICK m \in without : \A k \in Nat : k < m => k \notin without
  <2>1. without \in SUBSET Nat
    OBVIOUS
  <2> HIDE DEF without
  <2> QED BY <2>1, LeastFacts
<1>1. /\ m \in Nat /\ ~\E f : PartOf(order, kept, m, f)
      /\ \A k \in Nat : k < m => \E f : PartOf(order, kept, k, f)
  BY <1>0
<1>2. CASE m = 0
  <2>1. PartOf(order, kept, m, [i \in 0..m |-> << >>])
    BY <1>2 DEF PartOf
  <2> QED BY <1>1, <2>1
<1>3. CASE m # 0
  <2>1. m - 1 \in Nat /\ m - 1 < m
    BY <1>1, <1>3
  <2>2. PICK f : PartOf(order, kept, m - 1, f)
    BY <1>1, <2>1
  <2> DEFINE last == IF order[m] \in kept THEN Append(f[m - 1], order[m]) ELSE f[m - 1]
             longer == [i \in 0..m |-> IF i < m THEN f[i] ELSE last]
             val(fn, i) == IF i = 0 THEN << >>
                           ELSE IF order[i] \in kept THEN Append(fn[i - 1], order[i])
                           ELSE fn[i - 1]
  <2>3. \A i \in 0..(m - 1) : f[i] = val(f, i)
    BY <2>2 DEF PartOf
  <2>4. \A i \in 0..m : longer[i] = IF i < m THEN f[i] ELSE last
    OBVIOUS
  <2>5. ASSUME NEW i \in 0..m PROVE longer[i] = val(longer, i)
    <3>1. i # 0 => i - 1 \in 0..m /\ i - 1 < m
      BY <1>1
    <3>2. i # 0 => longer[i - 1] = f[i - 1]
      BY <3>1, <2>4
    <3>3. i < m => i \in 0..(m - 1)
      BY <1>1
    <3>4. i < m \/ i = m
      BY <1>1
    <3> HIDE DEF longer
    <3>5. CASE i < m
      BY <2>3, <2>4, <3>2, <3>3, <3>5
    <3>6. CASE i = m
      BY <1>1, <1>3, <2>4, <3>2, <3>6
    <3> QED BY <3>4, <3>5, <3>6
  <2>6. longer = [i \in 0..m |-> longer[i]]
    OBVIOUS
  <2> HIDE DEF longer
  <2>7. longer = [i \in 0..m |-> val(longer, i)]
    BY <2>5, <2>6
  <2>8. PartOf(order, kept, m, longer)
    BY <2>7 DEF PartOf
  <2> QED BY <1>1, <2>8
<1> QED BY <1>2, <1>3

(* What is kept of the first m entries of the list. *)
KeptUpTo(S, order, kept, m, s) ==
  /\ ListOf(S, s) /\ Tracked(s) = {order[i] : i \in 1..m} \cap kept
LEMMA AppendFacts ==
  ASSUME NEW S, NEW s, ListOf(S, s), NEW x \in S, x \notin Tracked(s)
  PROVE  ListOf(S, Append(s, x)) /\ Tracked(Append(s, x)) = Tracked(s) \cup {x}
<1> DEFINE t == Append(s, x)
<1>1. /\ s \in Seq(S) /\ Len(s) \in Nat /\ DOMAIN s = 1..Len(s)
  BY DEF ListOf
<1>2. /\ t \in Seq(S) /\ DOMAIN t = 1..(Len(s) + 1)
      /\ \A i \in 1..Len(s) : t[i] = s[i]
      /\ t[Len(s) + 1] = x
  BY <1>1
<1> HIDE DEF t
<1>3. \A i \in 1..Len(s) : s[i] # x
  BY <1>1 DEF Tracked
<1>4. NoRepeats(t)
  BY <1>1, <1>2, <1>3 DEF NoRepeats, ListOf
<1>5. Tracked(t) = Tracked(s) \cup {x}
  <2>1. \A i \in 1..(Len(s) + 1) : i \in 1..Len(s) \/ i = Len(s) + 1
    BY <1>1
  <2>2. Len(s) + 1 \in 1..(Len(s) + 1) /\ 1..Len(s) \subseteq 1..(Len(s) + 1)
    BY <1>1
  <2> QED BY <1>1, <1>2, <2>1, <2>2 DEF Tracked
<1> QED BY <1>2, <1>4, <1>5 DEF ListOf, t

LEMMA PartFacts ==
  ASSUME NEW S, NEW order, ListOf(S, order), NEW kept,
         NEW f, PartOf(order, kept, Len(order), f), NEW n \in 0..Len(order)
  PROVE  KeptUpTo(S, order, kept, n, f[n])
<1> DEFINE wrong == {m \in 0..Len(order) : ~KeptUpTo(S, order, kept, m, f[m])}
<1> SUFFICES ASSUME wrong # {} PROVE FALSE
  OBVIOUS
<1>0. /\ order \in Seq(S) /\ Len(order) \in Nat /\ DOMAIN order = 1..Len(order)
      /\ \A i, j \in 1..Len(order) : order[i] = order[j] => i = j
  BY DEF ListOf, NoRepeats
<1>9. PICK m \in wrong : \A k \in Nat : k < m => k \notin wrong
  <2>1. wrong \in SUBSET Nat
    BY <1>0
  <2> HIDE DEF wrong
  <2> QED BY <2>1, LeastFacts
<1>1. /\ m \in 0..Len(order) /\ ~KeptUpTo(S, order, kept, m, f[m])
      /\ \A k \in 0..Len(order) : k < m => KeptUpTo(S, order, kept, k, f[k])
  BY <1>0, <1>9
<1>2. f[m] = IF m = 0 THEN << >>
             ELSE IF order[m] \in kept THEN Append(f[m - 1], order[m])
             ELSE f[m - 1]
  BY <1>1 DEF PartOf
<1>3. CASE m = 0
  <2>1. f[m] = << >> /\ 1..m = {}
    BY <1>2, <1>3
  <2>2. ListOf(S, << >>) /\ Tracked(<< >>) = {}
    BY DEF ListOf, NoRepeats, Tracked
  <2>3. {order[i] : i \in 1..m} \cap kept = {}
    BY <2>1
  <2> QED BY <1>1, <2>1, <2>2, <2>3 DEF KeptUpTo
<1>4. CASE m # 0
  <2>1. m - 1 \in 0..Len(order) /\ m - 1 < m /\ m - 1 \in Nat /\ m \in 1..Len(order)
    BY <1>0, <1>1, <1>4
  <2>2. KeptUpTo(S, order, kept, m - 1, f[m - 1])
    BY <1>1, <2>1
  <2>3. order[m] \in S /\ 1..m = 1..(m - 1) \cup {m}
    BY <1>0, <2>1
  <2>4. order[m] \notin {order[i] : i \in 1..(m - 1)}
    BY <1>0, <2>1
  <2>5. {order[i] : i \in 1..m} = {order[i] : i \in 1..(m - 1)} \cup {order[m]}
    BY <2>3
  <2>6. CASE order[m] \in kept
    <3>1. f[m] = Append(f[m - 1], order[m])
      BY <1>2, <1>4, <2>6
    <3>2. ListOf(S, f[m - 1]) /\ order[m] \notin Tracked(f[m - 1])
      BY <2>2, <2>4 DEF KeptUpTo
    <3>3. ListOf(S, f[m]) /\ Tracked(f[m]) = Tracked(f[m - 1]) \cup {order[m]}
      BY <2>3, <3>1, <3>2, AppendFacts
    <3> QED BY <1>1, <2>2, <2>5, <2>6, <3>3 DEF KeptUpTo
  <2>7. CASE order[m] \notin kept
    BY <1>1, <1>2, <1>4, <2>2, <2>5, <2>7 DEF KeptUpTo
  <2> QED BY <2>6, <2>7
<1> QED BY <1>3, <1>4

(* The part of a recency list that is kept. *)
LEMMA OnlyFacts ==
  ASSUME NEW S, NEW order, ListOf(S, order), NEW kept
  PROVE  /\ ListOf(S, Only(order, kept))
         /\ Tracked(Only(order, kept)) = Tracked(order) \cap kept
<1>1. Len(order) \in Nat /\ DOMAIN order = 1..Len(order)
  BY DEF ListOf
<1>2. PICK f : PartOf(order, kept, Len(order), f) /\ Only(order, kept) = f[Len(order)]
  BY <1>1, PartsExist, OnlyIs
<1>3. KeptUpTo(S, order, kept, Len(order), f[Len(order)])
  BY <1>1, <1>2, PartFacts
<1> QED BY <1>1, <1>2, <1>3 DEF KeptUpTo, Tracked

(* Only the blocks it names go. *)
LEMMA InvalidateAllFacts ==
  ASSUME NEW g, IsConfig(g), NEW c, GoodCache(g, c), NEW blocks
  PROVE  LET after == InvalidateAll(g, c, blocks)
         IN /\ GoodCache(g, after)
            /\ \A x \in Nat : \A d, y :
                 Has(g, after, x, d, y) <=> Has(g, c, x, d, y) /\ x \notin blocks
<1> DEFINE after == InvalidateAll(g, c, blocks)
           kept(i) == {w \in DOMAIN c[i].lines :
                         BlockAt(g, c[i].lines[w].tag, i) \notin blocks}
           lines(i) == [w \in kept(i) |-> c[i].lines[w]]
           order(i) == Only(c[i].order, kept(i))
<1>1. after = [i \in SetNumbers(g) |-> [lines |-> lines(i), order |-> order(i)]]
  BY DEF InvalidateAll
<1>2. ASSUME NEW i \in SetNumbers(g)
      PROVE  GoodSet(Ways(g), after[i]) /\ after[i].lines = lines(i)
  <2> DEFINE s == c[i]
             K == kept(i)
             L == lines(i)
  <2>1. GoodSet(Ways(g), s)
    BY DEF GoodCache
  <2>2. K \subseteq DOMAIN s.lines
    OBVIOUS
  <2>3. DOMAIN L = K /\ L = [w \in DOMAIN L |-> L[w]] /\ \A w \in K : L[w] = s.lines[w]
    OBVIOUS
  <2>4. after[i] = [lines |-> L, order |-> Only(s.order, K)]
    BY <1>1
  <2> HIDE DEF s, K, L, after
  <2>5. GoodLines(Ways(g), L)
    BY <2>1, <2>2, <2>3 DEF GoodSet, GoodLines
  <2>6. ListOf(Ways(g), Only(s.order, K)) /\ Tracked(Only(s.order, K)) = DOMAIN L
    BY <2>1, <2>2, <2>3, OnlyFacts DEF GoodSet
  <2>7. GoodSet(Ways(g), [lines |-> L, order |-> Only(s.order, K)])
    BY <2>1, <2>5, <2>6, SetFacts
  <2> QED BY <2>4, <2>7 DEF L
<1>3. after = [i \in SetNumbers(g) |-> after[i]]
  BY <1>1
<1>4. ASSUME NEW x \in Nat, NEW d, NEW y
      PROVE  Has(g, after, x, d, y) <=> Has(g, c, x, d, y) /\ x \notin blocks
  <2> DEFINE i == Index(g, x)
             t == Tag(g, x)
             s == c[i]
             K == kept(i)
  <2>1. i \in SetNumbers(g) /\ BlockAt(g, t, i) = x
    BY BlockFacts
  <2>2. after[i].lines = [w \in K |-> s.lines[w]]
    BY <1>2, <2>1
  <2>3. Has(g, after, x, d, y) <=> <<t, d, y>> \in Entries(after[i].lines)
    BY DEF Has
  <2>4. Has(g, c, x, d, y) <=> <<t, d, y>> \in Entries(s.lines)
    BY DEF Has
  <2>5. \A w \in DOMAIN s.lines : w \in K <=> BlockAt(g, s.lines[w].tag, i) \notin blocks
    OBVIOUS
  <2>6. K \subseteq DOMAIN s.lines
    OBVIOUS
  <2> HIDE DEF i, t, s, K, after
  <2>7. \A w \in DOMAIN s.lines : s.lines[w].tag = t => (w \in K <=> x \notin blocks)
    BY <2>1, <2>5
  <2>8. <<t, d, y>> \in Entries(after[i].lines) <=>
          \E w \in K : s.lines[w].tag = t /\ s.lines[w].data = d /\ s.lines[w].dirty = y
    BY <2>2 DEF Entries, Entry
  <2>9. <<t, d, y>> \in Entries(s.lines) <=>
          \E w \in DOMAIN s.lines :
            s.lines[w].tag = t /\ s.lines[w].data = d /\ s.lines[w].dirty = y
    BY DEF Entries, Entry
  <2> QED BY <2>3, <2>4, <2>6, <2>7, <2>8, <2>9
<1> HIDE DEF after
<1>5. GoodCache(g, after)
  BY <1>2, <1>3 DEF GoodCache
<1> QED BY <1>4, <1>5 DEF after

(* Every line stays, and none is dirty. *)
LEMMA CleanedFacts ==
  ASSUME NEW g, IsConfig(g), NEW c, GoodCache(g, c)
  PROVE  LET after == Cleaned(g, c)
         IN /\ GoodCache(g, after)
            /\ \A x \in Nat : \A d, y :
                 Has(g, after, x, d, y) <=> y = FALSE /\ \E z : Has(g, c, x, d, z)
<1> DEFINE after == Cleaned(g, c)
           clean(m, l) == m.tag = l.tag /\ m.data = l.data /\ m.dirty = FALSE
           lines(i) == [w \in DOMAIN c[i].lines |-> [c[i].lines[w] EXCEPT !.dirty = FALSE]]
<1>1. after = [i \in SetNumbers(g) |-> [c[i] EXCEPT !.lines = lines(i)]]
  BY DEF Cleaned
<1>2. ASSUME NEW i \in SetNumbers(g)
      PROVE  /\ GoodSet(Ways(g), after[i]) /\ DOMAIN after[i].lines = DOMAIN c[i].lines
             /\ \A w \in DOMAIN c[i].lines : clean(after[i].lines[w], c[i].lines[w])
  <2> DEFINE s == c[i]
             L == lines(i)
  <2>1. GoodSet(Ways(g), s)
    BY DEF GoodCache
  <2>2. ASSUME NEW w \in DOMAIN s.lines PROVE clean(L[w], s.lines[w]) /\ IsLine(L[w])
    <3> DEFINE l == s.lines[w]
    <3>1. IsLine(l)
      BY <2>1 DEF GoodSet, GoodLines
    <3>2. L[w] = [l EXCEPT !.dirty = FALSE]
      OBVIOUS
    <3> HIDE DEF l, L
    <3> DEFINE m == [tag |-> l.tag, data |-> l.data, dirty |-> FALSE, uses |-> l.uses]
    <3>3. L[w] = m
      BY <3>1, <3>2 DEF IsLine
    <3>4. IsLine(m) /\ clean(m, l)
      BY <3>1 DEF IsLine
    <3> HIDE DEF m
    <3> QED BY <3>3, <3>4 DEF l
  <2>3. DOMAIN L = DOMAIN s.lines /\ L = [w \in DOMAIN L |-> L[w]]
    OBVIOUS
  <2>4. after[i] = [s EXCEPT !.lines = L]
    BY <1>1
  <2> HIDE DEF s, L, after
  <2>5. after[i] = [lines |-> L, order |-> s.order]
    BY <2>1, <2>4 DEF GoodSet
  <2>6. \A w \in DOMAIN s.lines : L[w].tag = s.lines[w].tag
    BY <2>2
  <2>7. GoodLines(Ways(g), L)
    BY <2>1, <2>2, <2>3, <2>6 DEF GoodSet, GoodLines
  <2>8. GoodSet(Ways(g), [lines |-> L, order |-> s.order])
    BY <2>1, <2>3, <2>7, SetFacts DEF GoodSet
  <2>9. after[i].lines = L /\ GoodSet(Ways(g), after[i])
    BY <2>5, <2>8
  <2>10. \A w \in DOMAIN s.lines : clean(after[i].lines[w], s.lines[w])
    BY <2>2, <2>9
  <2> QED BY <2>3, <2>9, <2>10 DEF s
<1>3. after = [i \in SetNumbers(g) |-> after[i]]
  BY <1>1
<1>4. ASSUME NEW x \in Nat, NEW d, NEW y
      PROVE  Has(g, after, x, d, y) <=> y = FALSE /\ \E z : Has(g, c, x, d, z)
  <2> DEFINE i == Index(g, x)
             t == Tag(g, x)
             s == c[i]
             a == after[i]
  <2>1. i \in SetNumbers(g)
    BY BlockFacts
  <2>2. /\ DOMAIN a.lines = DOMAIN s.lines
        /\ \A w \in DOMAIN s.lines : clean(a.lines[w], s.lines[w])
    BY <1>2, <2>1
  <2>3. Has(g, after, x, d, y) <=> <<t, d, y>> \in Entries(a.lines)
    BY DEF Has
  <2>4. \A z : Has(g, c, x, d, z) <=> <<t, d, z>> \in Entries(s.lines)
    BY DEF Has
  <2> HIDE DEF i, t, s, a, after
  <2>6. <<t, d, y>> \in Entries(a.lines) <=>
          y = FALSE /\ \E w \in DOMAIN s.lines : s.lines[w].tag = t /\ s.lines[w].data = d
    BY <2>2 DEF Entries, Entry
  <2>7. (\E z : <<t, d, z>> \in Entries(s.lines)) <=>
          \E w \in DOMAIN s.lines : s.lines[w].tag = t /\ s.lines[w].data = d
    BY DEF Entries, Entry
  <2> QED BY <2>3, <2>4, <2>6, <2>7
<1> HIDE DEF after
<1>5. GoodCache(g, after)
  BY <1>2, <1>3 DEF GoodCache
<1> QED BY <1>4, <1>5 DEF after
=============================================================================
