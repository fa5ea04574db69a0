--------------------------- MODULE RecencyProofs ---------------------------
(***************************************************************************)
(* Lemmas about recency lists: what removing, moving and popping an        *)
(* element does to the elements a list tracks.  The lists of the TLB, of   *)
(* the frame allocator and of the cache sets all rest on them.             *)
(***************************************************************************)
EXTENDS Recency, TLAPS

(* A recency list of elements of S. *)
ListOf(S, order) == order \in Seq(S) /\ NoRepeats(order)

(* Removing an element of a repetition-free list removes it and nothing    *)
(* else (list.remove).                                                     *)
LEMMA WithoutFacts ==
  ASSUME NEW S, NEW order \in Seq(S), NoRepeats(order), NEW x
  PROVE  /\ Without(order, x) \in Seq(S)
         /\ NoRepeats(Without(order, x))
         /\ Tracked(Without(order, x)) = Tracked(order) \ {x}
<1>1. CASE \E i \in DOMAIN order : order[i] = x
  <2>1. PICK p \in DOMAIN order : order[p] = x
    BY <1>1
  <2>2. p \in 1..Len(order) /\ Len(order) \in Nat
    BY <2>1
  <2> DEFINE k == CHOOSE i \in DOMAIN order :
                    /\ order[i] = x
                    /\ \A j \in DOMAIN order : order[j] = x => i <= j
             rest == [j \in 1..(Len(order) - 1) |->
                        order[IF j < k THEN j ELSE j + 1]]
  <2>3. k = p
    <3>1. \A i \in DOMAIN order : order[i] = x => i = p
      BY <2>1 DEF NoRepeats
    <3>2. /\ order[p] = x
          /\ \A j \in DOMAIN order : order[j] = x => p <= j
      BY <2>1, <2>2, <3>1
    <3> QED BY <2>1, <3>1, <3>2
  <2>4. Without(order, x) = rest
    BY <1>1 DEF Without
  <2> HIDE DEF k
  <2>5. DOMAIN rest = 1..(Len(order) - 1) /\ Len(order) - 1 \in Nat
    BY <2>2
  <2>6. \A j \in 1..(Len(order) - 1) :
          /\ rest[j] = order[IF j < p THEN j ELSE j + 1]
          /\ (IF j < p THEN j ELSE j + 1) \in 1..Len(order)
          /\ (IF j < p THEN j ELSE j + 1) # p
    BY <2>2, <2>3
  <2>7. rest \in Seq(S)
    <3>1. \A j \in 1..(Len(order) - 1) : rest[j] \in S
      BY <2>6
    <3> QED BY <2>5, <3>1
  <2>8. NoRepeats(rest)
    BY <2>2, <2>5, <2>6 DEF NoRepeats
  <2>9. Tracked(rest) = Tracked(order) \ {x}
    <3>1. ASSUME NEW y \in Tracked(rest) PROVE y \in Tracked(order) \ {x}
      BY <2>1, <2>2, <2>5, <2>6 DEF Tracked, NoRepeats
    <3>2. ASSUME NEW y \in Tracked(order) \ {x} PROVE y \in Tracked(rest)
      <4>1. PICK i \in 1..Len(order) : order[i] = y /\ i # p
        BY <2>1 DEF Tracked
      <4>2. CASE i < p
        BY <2>2, <2>5, <2>6, <4>1, <4>2 DEF Tracked
      <4>3. CASE i > p
        <5>1. i - 1 \in 1..(Len(order) - 1) /\ ~(i - 1 < p) /\ i - 1 + 1 = i
          BY <2>2, <4>1, <4>3
        <5> QED BY <2>5, <2>6, <4>1, <5>1 DEF Tracked
      <4> QED BY <2>2, <4>1, <4>2, <4>3
    <3> QED BY <3>1, <3>2
  <2> QED BY <2>4, <2>7, <2>8, <2>9
<1>2. CASE ~ \E i \in DOMAIN order : order[i] = x
  BY <1>2 DEF Without, Tracked
<1> QED BY <1>1, <1>2

(* Moving an element to the recent end tracks it, once, and drops nothing  *)
(* (_update_lru, mark_accessed, _track_insert).                            *)
LEMMA MoveToBackFacts ==
  ASSUME NEW S, NEW order, ListOf(S, order), NEW x \in S
  PROVE  /\ ListOf(S, MoveToBack(order, x)) /\ MoveToBack(order, x) # << >>
         /\ Tracked(MoveToBack(order, x)) = Tracked(order) \cup {x}
<1> DEFINE rest == Without(order, x)
<1>1. rest \in Seq(S) /\ NoRepeats(rest) /\ Tracked(rest) = Tracked(order) \ {x}
  BY WithoutFacts DEF ListOf
<1>2. MoveToBack(order, x) = Append(rest, x)
  BY DEF MoveToBack
<1> HIDE DEF rest
<1>3. /\ Append(rest, x) \in Seq(S) /\ Append(rest, x) # << >>
      /\ DOMAIN Append(rest, x) = 1..(Len(rest) + 1)
      /\ \A i \in 1..Len(rest) : Append(rest, x)[i] = rest[i]
      /\ Append(rest, x)[Len(rest) + 1] = x
      /\ Len(rest) \in Nat /\ DOMAIN rest = 1..Len(rest)
  BY <1>1
<1>4. \A i \in DOMAIN rest : rest[i] # x
  BY <1>1 DEF Tracked
<1>5. NoRepeats(Append(rest, x))
  BY <1>1, <1>3, <1>4 DEF NoRepeats
<1>6. Tracked(Append(rest, x)) = Tracked(rest) \cup {x}
  <2>1. \A i \in 1..(Len(rest) + 1) : i \in 1..Len(rest) \/ i = Len(rest) + 1
    BY <1>3
  <2> QED BY <1>3, <2>1 DEF Tracked
<1>7. Tracked(Append(rest, x)) = Tracked(order) \cup {x}
  BY <1>1, <1>6
<1> QED BY <1>2, <1>3, <1>5, <1>7 DEF ListOf

(* Popping the front of a repetition-free list (list.pop(0)). *)
LEMMA PopFacts ==
  ASSUME NEW S, NEW order \in Seq(S), NoRepeats(order), order # << >>
  PROVE  /\ Head(order) \in S /\ Head(order) \in Tracked(order)
         /\ Tail(order) \in Seq(S)
         /\ NoRepeats(Tail(order))
         /\ Tracked(Tail(order)) = Tracked(order) \ {Head(order)}
<1>1. /\ Head(order) = order[1] /\ 1 \in DOMAIN order
      /\ Tail(order) \in Seq(S)
      /\ DOMAIN order = 1..Len(order) /\ Len(order) \in Nat \ {0}
      /\ DOMAIN Tail(order) = 1..(Len(order) - 1)
      /\ \A i \in 1..(Len(order) - 1) : Tail(order)[i] = order[i + 1]
  OBVIOUS
<1>2. NoRepeats(Tail(order))
  BY <1>1 DEF NoRepeats
<1>3. Tracked(Tail(order)) \subseteq Tracked(order) \ {Head(order)}
  BY <1>1 DEF Tracked, NoRepeats
<1>4. ASSUME NEW y \in Tracked(order) \ {Head(order)}
      PROVE  y \in Tracked(Tail(order))
  <2>1. PICK i \in 1..Len(order) : order[i] = y /\ i # 1
    BY <1>1 DEF Tracked
  <2>2. i - 1 \in 1..(Len(order) - 1) /\ (i - 1) + 1 = i
    BY <1>1, <2>1
  <2> QED BY <1>1, <2>1, <2>2 DEF Tracked
<1>5. Head(order) \in S
  BY <1>1
<1>6. Head(order) \in Tracked(order)
  BY <1>1 DEF Tracked
<1> QED BY <1>1, <1>2, <1>3, <1>4, <1>5, <1>6
=============================================================================
