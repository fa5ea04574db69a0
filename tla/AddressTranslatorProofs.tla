----------------------- MODULE AddressTranslatorProofs -----------------------
(***************************************************************************)
(* Proofs about AddressTranslator.  The inductive invariant is the         *)
(* conjunction of four invariants TLC checks and SomeoneToDisplace: the    *)
(* recency lists must be free of repetitions for a removal to be well      *)
(* defined, the TLB must track its valid slots for its victim to exist,    *)
(* and the allocator must agree with the page table for an eviction to     *)
(* drop the right row.                                                     *)
(***************************************************************************)
EXTENDS TranslatorRecency, RecencyProofs, FiniteSetTheorems, FunctionTheorems,
        TLAPS

-----------------------------------------------------------------------------
(* The TLB.                                                                *)

Live(t) == {i \in DOMAIN t.entries : t.entries[i].valid}

(* TypeOK and SlotsTracked, of a TLB value between two updates. *)
WellFormed(t) ==
  /\ t \in [entries : Seq(TLBEntry), order : Seq(SlotNumbers)]
  /\ Len(t.entries) <= NumEntries
  /\ Tracked(t.order) = Live(t) /\ NoRepeats(t.order)
  /\ \A i, j \in DOMAIN t.entries :
       t.entries[i].vpn = t.entries[j].vpn => i = j

(* TLBCoherent, of a TLB value and a page table. *)
Agree(t, pt) ==
  \A i \in Live(t) : /\ t.entries[i].vpn \in DOMAIN pt
                     /\ pt[t.entries[i].vpn].pfn = t.entries[i].pfn

(* The slots of a well-formed TLB, as numbers. *)
LEMMA SlotFacts ==
  ASSUME NEW t, WellFormed(t)
  PROVE  /\ DOMAIN t.entries = 1..Len(t.entries) /\ Len(t.entries) \in Nat
         /\ DOMAIN t.entries \subseteq SlotNumbers
         /\ \A i \in DOMAIN t.entries : t.entries[i] \in TLBEntry
         /\ t.entries \in Seq(TLBEntry) /\ t.order \in Seq(SlotNumbers)
         /\ t = [entries |-> t.entries, order |-> t.order]
<1> USE NumEntriesAssumption
<1>1. /\ t \in [entries : Seq(TLBEntry), order : Seq(SlotNumbers)]
      /\ Len(t.entries) <= NumEntries
  BY DEF WellFormed
<1>2. t.entries \in Seq(TLBEntry) /\ t.order \in Seq(SlotNumbers)
  BY <1>1
<1>3. /\ DOMAIN t.entries = 1..Len(t.entries) /\ Len(t.entries) \in Nat
      /\ \A i \in DOMAIN t.entries : t.entries[i] \in TLBEntry
  BY <1>2
<1>4. DOMAIN t.entries \subseteq SlotNumbers
  BY <1>1, <1>3 DEF SlotNumbers
<1>5. t = [entries |-> t.entries, order |-> t.order]
  BY <1>1
<1> QED BY <1>2, <1>3, <1>4, <1>5

(* The least element of a set with one element. *)
LEMMA MinOfOne ==
  ASSUME NEW i \in Int
  PROVE  Min({i}) = i
BY DEF Min

(* A page has at most one slot, so the first match is the only one. *)
LEMMA HitFacts ==
  ASSUME NEW t, WellFormed(t), NEW v, NEW i \in Matches(t, v)
  PROVE  /\ Matches(t, v) = {i} /\ HitSlot(t, v) = i
         /\ i \in Live(t) /\ i \in SlotNumbers /\ t.entries[i].vpn = v
<1>1. i \in Live(t) /\ i \in DOMAIN t.entries /\ t.entries[i].vpn = v
  BY DEF Matches, Live
<1>2. i \in SlotNumbers
  BY <1>1, SlotFacts
<1>3. Matches(t, v) = {i}
  BY <1>1 DEF Matches, WellFormed
<1>4. HitSlot(t, v) = i
  BY <1>2, <1>3, MinOfOne DEF HitSlot, SlotNumbers
<1> QED BY <1>1, <1>2, <1>3, <1>4

(* A hit moves the slot in the recency list and changes nothing else. *)
LEMMA TouchFacts ==
  ASSUME NEW t, WellFormed(t), NEW v, Matches(t, v) # {}
  PROVE  /\ WellFormed(Touch(t, v))
         /\ Touch(t, v).entries = t.entries /\ Touch(t, v).order # << >>
         /\ \A pt : Agree(t, pt) => Agree(Touch(t, v), pt)
<1>1. PICK i : i \in Matches(t, v)
  OBVIOUS
<1>2. HitSlot(t, v) = i /\ i \in Live(t) /\ i \in SlotNumbers
  BY <1>1, HitFacts
<1> DEFINE u == Touch(t, v)
<1>3. u = [entries |-> t.entries, order |-> MoveToBack(t.order, i)]
  BY <1>2, SlotFacts DEF Touch
<1>4. u.entries = t.entries /\ u.order = MoveToBack(t.order, i)
  BY <1>3
<1>5. t.order \in Seq(SlotNumbers) /\ NoRepeats(t.order)
      /\ Tracked(t.order) = Live(t)
  BY SlotFacts DEF WellFormed
<1>6. /\ u.order \in Seq(SlotNumbers) /\ NoRepeats(u.order)
      /\ Tracked(u.order) = Live(t) /\ u.order # << >>
  <2>1. ListOf(SlotNumbers, t.order)
    BY <1>5 DEF ListOf
  <2>3. /\ ListOf(SlotNumbers, MoveToBack(t.order, i))
        /\ MoveToBack(t.order, i) # << >>
        /\ Tracked(MoveToBack(t.order, i)) = Tracked(t.order) \cup {i}
    BY <1>2, <2>1, MoveToBackFacts
  <2>2. Live(t) \cup {i} = Live(t)
    BY <1>2
  <2> QED BY <1>4, <1>5, <2>2, <2>3 DEF ListOf
<1>7. Live(u) = Live(t)
  BY <1>4 DEF Live
<1> HIDE DEF u
<1>8. u \in [entries : Seq(TLBEntry), order : Seq(SlotNumbers)]
  <2>1. t.entries \in Seq(TLBEntry)
    BY SlotFacts
  <2>2. u = [entries |-> t.entries, order |-> u.order]
    BY <1>3, <1>4
  <2> QED BY <1>6, <2>1, <2>2
<1>9. WellFormed(u)
  BY <1>4, <1>6, <1>7, <1>8 DEF WellFormed
<1>10. \A pt : Agree(t, pt) => Agree(u, pt)
  BY <1>4, <1>7 DEF Agree
<1> QED BY <1>4, <1>6, <1>9, <1>10 DEF u

(* A hit loses no dirty bit. *)
LEMMA TouchMarks ==
  ASSUME NEW t, WellFormed(t), NEW v, Matches(t, v) # {}
  PROVE  /\ Matches(Touch(t, v), v) # {}
         /\ \A u : IsDirty(t, u) => IsDirty(Touch(t, v), u)
<1>1. Touch(t, v).entries = t.entries
  BY TouchFacts
<1> QED BY <1>1 DEF Matches, IsDirty

(* A TLB whose slots keep their pages is well formed if its recency list   *)
(* tracks what is live.                                                    *)
LEMMA SamePages ==
  ASSUME NEW t, WellFormed(t), NEW E, NEW o \in Seq(SlotNumbers),
         DOMAIN E = DOMAIN t.entries,
         \A i \in DOMAIN E : E[i] \in TLBEntry /\ E[i].vpn = t.entries[i].vpn,
         E = [i \in DOMAIN E |-> E[i]],
         NoRepeats(o), Tracked(o) = {i \in DOMAIN E : E[i].valid}
  PROVE  WellFormed([entries |-> E, order |-> o])
<1> DEFINE u == [entries |-> E, order |-> o]
<1>1. DOMAIN E = 1..Len(t.entries) /\ Len(t.entries) \in Nat
  BY SlotFacts
<1>2. E \in Seq(TLBEntry) /\ Len(E) = Len(t.entries)
  BY <1>1
<1>3. u.entries = E /\ u.order = o
  OBVIOUS
<1>4. u \in [entries : Seq(TLBEntry), order : Seq(SlotNumbers)]
  BY <1>2
<1>5. Live(u) = {i \in DOMAIN E : E[i].valid}
  BY <1>3 DEF Live
<1> HIDE DEF u
<1>6. \A i, j \in DOMAIN E : E[i].vpn = E[j].vpn => i = j
  BY DEF WellFormed
<1>7. WellFormed(u)
  BY <1>2, <1>3, <1>4, <1>5, <1>6 DEF WellFormed
<1> QED BY <1>7 DEF u

(* set_dirty keeps every slot's page, frame and validity. *)
LEMMA SetDirtyFacts ==
  ASSUME NEW t, WellFormed(t), NEW v
  PROVE  /\ WellFormed(SetDirty(t, v)) /\ SetDirty(t, v).order = t.order
         /\ \A pt : Agree(t, pt) => Agree(SetDirty(t, v), pt)
<1> DEFINE E == [i \in DOMAIN t.entries |->
                   IF i \in Matches(t, v)
                     THEN [t.entries[i] EXCEPT !.dirty = TRUE]
                     ELSE t.entries[i]]
           u == SetDirty(t, v)
<1>1. u = [entries |-> E, order |-> t.order]
  <2>1. u = [t EXCEPT !.entries = E]
    BY DEF SetDirty
  <2>2. t = [entries |-> t.entries, order |-> t.order]
    BY SlotFacts
  <2> HIDE DEF u, E
  <2> QED BY <2>1, <2>2
<1>2. u.entries = E /\ DOMAIN E = DOMAIN t.entries
  BY <1>1
<1>3. ASSUME NEW i \in DOMAIN t.entries
      PROVE  /\ E[i] \in TLBEntry
             /\ E[i].vpn = t.entries[i].vpn /\ E[i].pfn = t.entries[i].pfn
             /\ E[i].valid = t.entries[i].valid
  <2>1. t.entries[i] \in TLBEntry
    BY SlotFacts
  <2> QED BY <2>1 DEF TLBEntry
<1>4. {i \in DOMAIN E : E[i].valid} = Live(t)
  BY <1>2, <1>3 DEF Live
<1>5. WellFormed([entries |-> E, order |-> t.order])
  <2>1. t.order \in Seq(SlotNumbers) /\ NoRepeats(t.order)
        /\ Tracked(t.order) = Live(t)
    BY SlotFacts DEF WellFormed
  <2>2. E = [i \in DOMAIN E |-> E[i]]
    BY <1>2
  <2> HIDE DEF E
  <2> QED BY <1>2, <1>3, <1>4, <2>1, <2>2, SamePages
<1>6. \A pt : Agree(t, pt) => Agree(u, pt)
  <2>1. Live(u) = Live(t)
    BY <1>2, <1>4 DEF Live
  <2>2. \A i \in Live(t) : /\ u.entries[i].vpn = t.entries[i].vpn
                           /\ u.entries[i].pfn = t.entries[i].pfn
    BY <1>2, <1>3 DEF Live
  <2> HIDE DEF u, E
  <2> QED BY <2>1, <2>2 DEF Agree
<1> QED BY <1>1, <1>5, <1>6

(* set_dirty leaves the slots' pages and their validity. *)
LEMMA SetDirtyEntries ==
  ASSUME NEW t, WellFormed(t), NEW v
  PROVE  /\ DOMAIN SetDirty(t, v).entries = DOMAIN t.entries
         /\ \A i \in DOMAIN t.entries :
              /\ SetDirty(t, v).entries[i].vpn = t.entries[i].vpn
              /\ SetDirty(t, v).entries[i].valid = t.entries[i].valid
<1> DEFINE u == SetDirty(t, v)
<1>1. t = [entries |-> t.entries, order |-> t.order]
  BY SlotFacts
<1>2. \A i \in DOMAIN t.entries : t.entries[i] \in TLBEntry
  BY SlotFacts
<1>3. u.entries = [i \in DOMAIN t.entries |->
                    IF i \in Matches(t, v)
                      THEN [t.entries[i] EXCEPT !.dirty = TRUE]
                      ELSE t.entries[i]]
  <2> HIDE DEF u
  <2>1. u = [t EXCEPT !.entries = [i \in DOMAIN t.entries |->
              IF i \in Matches(t, v)
                THEN [t.entries[i] EXCEPT !.dirty = TRUE]
                ELSE t.entries[i]]]
    BY DEF u, SetDirty
  <2> QED BY <1>1, <2>1
<1> HIDE DEF u
<1>4. /\ DOMAIN u.entries = DOMAIN t.entries
      /\ \A i \in DOMAIN t.entries : /\ u.entries[i].vpn = t.entries[i].vpn
                                     /\ u.entries[i].valid = t.entries[i].valid
  BY <1>2, <1>3 DEF TLBEntry
<1> QED BY <1>4 DEF u

(* set_dirty marks the page it finds and loses no other mark. *)
LEMMA SetDirtyMarks ==
  ASSUME NEW t, WellFormed(t), NEW v
  PROVE  /\ Matches(t, v) # {} => IsDirty(SetDirty(t, v), v)
         /\ \A u : IsDirty(t, u) => IsDirty(SetDirty(t, v), u)
<1> DEFINE E == [i \in DOMAIN t.entries |->
                   IF i \in Matches(t, v)
                     THEN [t.entries[i] EXCEPT !.dirty = TRUE]
                     ELSE t.entries[i]]
           u == SetDirty(t, v)
<1>1. u.entries = E
  <2>1. u = [t EXCEPT !.entries = E]
    BY DEF SetDirty
  <2>2. t = [entries |-> t.entries, order |-> t.order]
    BY SlotFacts
  <2> HIDE DEF u, E
  <2> QED BY <2>1, <2>2
<1>2. ASSUME NEW i \in DOMAIN t.entries
      PROVE  /\ i \in DOMAIN E
             /\ E[i].vpn = t.entries[i].vpn /\ E[i].valid = t.entries[i].valid
             /\ t.entries[i].dirty => E[i].dirty
             /\ i \in Matches(t, v) => E[i].dirty
  <2>1. t.entries[i] \in TLBEntry
    BY SlotFacts
  <2> QED BY <2>1 DEF TLBEntry
<1> HIDE DEF E, u
<1>3. \A x : \A i \in Matches(t, x) : i \in DOMAIN t.entries /\ i \in Matches(u, x)
  BY <1>1, <1>2 DEF Matches
<1> QED BY <1>1, <1>2, <1>3 DEF IsDirty, u

(* invalidate leaves no valid entry for the page, and keeps the others in  *)
(* agreement with a page table from which the page's row is removed.       *)
LEMMA InvalidateFacts ==
  ASSUME NEW t, WellFormed(t), NEW v
  PROVE  /\ WellFormed(Invalidate(t, v))
         /\ Matches(Invalidate(t, v), v) = {}
         /\ \A pt : Agree(t, pt) => Agree(Invalidate(t, v), Minus(pt, v))
<1> DEFINE E == [i \in DOMAIN t.entries |->
                   IF i \in Matches(t, v)
                     THEN [t.entries[i] EXCEPT !.valid = FALSE]
                     ELSE t.entries[i]]
           o == IF Matches(t, v) = {} THEN t.order
                ELSE Without(t.order, HitSlot(t, v))
           u == Invalidate(t, v)
<1>1. u = [entries |-> E, order |-> o]
  BY DEF Invalidate
<1>2. u.entries = E /\ DOMAIN E = DOMAIN t.entries
  BY <1>1
<1>3. ASSUME NEW i \in DOMAIN t.entries
      PROVE  /\ E[i] \in TLBEntry
             /\ E[i].vpn = t.entries[i].vpn /\ E[i].pfn = t.entries[i].pfn
             /\ i \in Matches(t, v) => E[i].valid = FALSE
             /\ i \notin Matches(t, v) => E[i].valid = t.entries[i].valid
  <2>1. t.entries[i] \in TLBEntry
    BY SlotFacts
  <2> QED BY <2>1 DEF TLBEntry
<1>4. {i \in DOMAIN E : E[i].valid} = Live(t) \ Matches(t, v)
  BY <1>2, <1>3 DEF Live
<1>5. o \in Seq(SlotNumbers) /\ NoRepeats(o)
      /\ Tracked(o) = Live(t) \ Matches(t, v)
  <2>1. t.order \in Seq(SlotNumbers) /\ NoRepeats(t.order)
        /\ Tracked(t.order) = Live(t)
    BY SlotFacts DEF WellFormed
  <2>2. CASE Matches(t, v) = {}
    BY <2>1, <2>2
  <2>3. CASE Matches(t, v) # {}
    <3>1. PICK i : i \in Matches(t, v)
      BY <2>3
    <3>2. Matches(t, v) = {i} /\ HitSlot(t, v) = i
      BY <3>1, HitFacts
    <3> QED BY <2>1, <3>2, WithoutFacts
  <2> QED BY <2>2, <2>3
<1>6. WellFormed([entries |-> E, order |-> o])
  <2>1. E = [i \in DOMAIN E |-> E[i]]
    BY <1>2
  <2>2. NoRepeats(o) /\ o \in Seq(SlotNumbers)
        /\ Tracked(o) = {i \in DOMAIN E : E[i].valid}
    BY <1>4, <1>5
  <2>3. \A i \in DOMAIN E : E[i] \in TLBEntry /\ E[i].vpn = t.entries[i].vpn
    BY <1>2, <1>3
  <2>4. DOMAIN E = DOMAIN t.entries
    BY <1>2
  <2> HIDE DEF E, o, u
  <2> QED BY <2>1, <2>2, <2>3, <2>4, SamePages
<1>7. Matches(u, v) = {}
  BY <1>2, <1>3 DEF Matches
<1>8. ASSUME NEW pt, Agree(t, pt) PROVE Agree(u, Minus(pt, v))
  <2>1. ASSUME NEW i \in Live(u)
        PROVE  /\ u.entries[i].vpn \in DOMAIN Minus(pt, v)
               /\ Minus(pt, v)[u.entries[i].vpn].pfn = u.entries[i].pfn
    <3>1. i \in Live(t) /\ i \notin Matches(t, v) /\ i \in DOMAIN t.entries
      BY <1>2, <1>4 DEF Live
    <3>2. u.entries[i].vpn = t.entries[i].vpn /\ u.entries[i].pfn = t.entries[i].pfn
      BY <1>2, <1>3, <3>1
    <3>3. t.entries[i].vpn # v
      BY <3>1 DEF Matches, Live
    <3> HIDE DEF u, E
    <3> QED BY <1>8, <3>1, <3>2, <3>3 DEF Agree, Minus
  <2> HIDE DEF u
  <2> QED BY <2>1 DEF Agree
<1> QED BY <1>1, <1>6, <1>7, <1>8

(* invalidate loses no other page's dirty bit. *)
LEMMA InvalidateMarks ==
  ASSUME NEW t, WellFormed(t), NEW v, NEW x, x # v, IsDirty(t, x)
  PROVE  IsDirty(Invalidate(t, v), x)
<1>1. PICK i \in DOMAIN t.entries :
        t.entries[i].valid /\ t.entries[i].vpn = x /\ t.entries[i].dirty
  BY DEF IsDirty, Matches
<1>2. /\ i \in DOMAIN Invalidate(t, v).entries
      /\ Invalidate(t, v).entries[i] = t.entries[i]
  BY <1>1 DEF Invalidate, Matches
<1> QED BY <1>1, <1>2 DEF IsDirty, Matches

(* What insert does to the slots: the one it fills, and the others. *)
InsertedAt(t, u, v, slot) ==
  /\ slot \in DOMAIN u.entries
  /\ u.entries[slot].vpn = v /\ u.entries[slot].valid
  /\ \A i \in DOMAIN t.entries :
       i # slot => i \in DOMAIN u.entries /\ u.entries[i] = t.entries[i]
  /\ \A i \in SlotsOf(t, v) : i = slot

(* insert makes v's translation the only one it changes, and finds a slot  *)
(* for it unless the TLB is full of invalidated slots.                     *)
LEMMA InsertFacts ==
  ASSUME NEW t, WellFormed(t), NEW v \in VPNs, NEW f \in Frames,
         ~InsertRaises(t, v)
  PROVE  /\ WellFormed(Insert(t, v, f)) /\ Insert(t, v, f).order # << >>
         /\ \A pt : Agree(t, pt) /\ v \in DOMAIN pt /\ pt[v].pfn = f
                     => Agree(Insert(t, v, f), pt)
         /\ InsertedAt(t, Insert(t, v, f), v, InsertSlot(t, v))
<1> DEFINE slot == InsertSlot(t, v)
           e == [vpn |-> v, pfn |-> f, valid |-> TRUE, dirty |-> FALSE]
           E == IF slot \in DOMAIN t.entries
                  THEN [t.entries EXCEPT ![slot] = e]
                  ELSE Append(t.entries, e)
           o == MoveToBack(t.order, slot)
           u == [entries |-> E, order |-> o]
<1>1. Insert(t, v, f) = u
  BY DEF Insert
<1>2. e \in TLBEntry
  BY DEF TLBEntry
<1>3. /\ DOMAIN t.entries = 1..Len(t.entries) /\ Len(t.entries) \in Nat
      /\ \A i \in DOMAIN t.entries : t.entries[i] \in TLBEntry
      /\ t.entries \in Seq(TLBEntry)
      /\ t.order \in Seq(SlotNumbers) /\ NoRepeats(t.order)
      /\ Tracked(t.order) = Live(t) /\ Len(t.entries) <= NumEntries
  BY SlotFacts DEF WellFormed
<1>4. /\ slot \in SlotNumbers
      /\ \/ /\ slot \in DOMAIN t.entries
            /\ \A i \in SlotsOf(t, v) : i = slot
         \/ /\ slot = Len(t.entries) + 1 /\ SlotsOf(t, v) = {}
            /\ Len(t.entries) < NumEntries
  <2>1. CASE SlotsOf(t, v) # {}
    <3>1. PICK i : i \in SlotsOf(t, v)
      BY <2>1
    <3>2. SlotsOf(t, v) = {i} /\ i \in DOMAIN t.entries
      BY <3>1 DEF SlotsOf, WellFormed
    <3>3. slot = i
      BY <1>3, <3>2, MinOfOne DEF InsertSlot
    <3>4. slot \in SlotNumbers
      BY <3>2, <3>3, SlotFacts
    <3> QED BY <3>2, <3>3, <3>4
  <2>2. CASE SlotsOf(t, v) = {} /\ ~IsFull(t)
    BY <1>3, <2>2, NumEntriesAssumption DEF InsertSlot, IsFull, SlotNumbers
  <2>3. CASE SlotsOf(t, v) = {} /\ IsFull(t)
    <3>1. t.order # << >> /\ slot = Head(t.order)
      BY <2>3 DEF InsertRaises, MustEvict, InsertSlot
    <3>2. Head(t.order) \in Tracked(t.order) /\ Head(t.order) \in SlotNumbers
      BY <1>3, <3>1, PopFacts
    <3>3. slot \in DOMAIN t.entries
      BY <1>3, <3>1, <3>2 DEF Live
    <3> QED BY <2>3, <3>1, <3>2, <3>3
  <2> QED BY <2>1, <2>2, <2>3
<1> HIDE DEF slot, e
<1>5. /\ E \in Seq(TLBEntry) /\ Len(E) <= NumEntries
      /\ DOMAIN E = DOMAIN t.entries \cup {slot}
      /\ E[slot] = e
      /\ \A i \in DOMAIN t.entries : i # slot => E[i] = t.entries[i]
  <2>1. CASE slot \in DOMAIN t.entries
    <3>1. E = [t.entries EXCEPT ![slot] = e]
      BY <2>1
    <3>2. E \in Seq(TLBEntry) /\ Len(E) = Len(t.entries)
      BY <1>2, <1>3, <2>1, <3>1
    <3> QED BY <1>3, <2>1, <3>1, <3>2
  <2>2. CASE slot \notin DOMAIN t.entries
    <3>1. /\ E = Append(t.entries, e)
          /\ slot = Len(t.entries) + 1 /\ Len(t.entries) < NumEntries
      BY <1>4, <2>2
    <3>2. /\ E \in Seq(TLBEntry) /\ Len(E) = Len(t.entries) + 1
          /\ E[Len(t.entries) + 1] = e
          /\ \A i \in 1..Len(t.entries) : E[i] = t.entries[i]
      BY <1>2, <1>3, <3>1
    <3>3. DOMAIN E = 1..(Len(t.entries) + 1)
      BY <1>3, <3>2
    <3>4. 1..(Len(t.entries) + 1) = 1..Len(t.entries) \cup {Len(t.entries) + 1}
      BY <1>3
    <3>5. Len(E) <= NumEntries
      BY <1>3, <3>1, <3>2, NumEntriesAssumption
    <3> QED BY <1>3, <3>1, <3>2, <3>3, <3>4, <3>5
  <2> QED BY <2>1, <2>2
<1>6. /\ o \in Seq(SlotNumbers) /\ NoRepeats(o) /\ o # << >>
      /\ Tracked(o) = Live(t) \cup {slot}
  <2>1. ListOf(SlotNumbers, t.order) /\ slot \in SlotNumbers
    BY <1>3, <1>4 DEF ListOf
  <2>2. ListOf(SlotNumbers, o) /\ o # << >>
        /\ Tracked(o) = Tracked(t.order) \cup {slot}
    BY <2>1, MoveToBackFacts
  <2> QED BY <1>3, <2>2 DEF ListOf
<1>7. u.entries = E /\ u.order = o
      /\ u \in [entries : Seq(TLBEntry), order : Seq(SlotNumbers)]
  BY <1>5, <1>6
<1> HIDE DEF E, o, u
<1>8. e.vpn = v /\ e.pfn = f /\ e.valid = TRUE
  BY DEF e
<1>9. Live(u) = Live(t) \cup {slot}
  BY <1>5, <1>7, <1>8 DEF Live
<1>10. \A i, j \in DOMAIN E : E[i].vpn = E[j].vpn => i = j
  <2>1. \A i \in DOMAIN t.entries : i # slot => t.entries[i].vpn # v
    BY <1>4 DEF SlotsOf
  <2>2. \A i, j \in DOMAIN t.entries :
          t.entries[i].vpn = t.entries[j].vpn => i = j
    BY DEF WellFormed
  <2> QED BY <1>5, <1>8, <2>1, <2>2
<1>11. WellFormed(u)
  BY <1>5, <1>6, <1>7, <1>9, <1>10 DEF WellFormed
<1>12. ASSUME NEW pt, Agree(t, pt), v \in DOMAIN pt, pt[v].pfn = f
       PROVE  Agree(u, pt)
  <2>1. ASSUME NEW i \in Live(u)
        PROVE  u.entries[i].vpn \in DOMAIN pt /\ pt[u.entries[i].vpn].pfn = u.entries[i].pfn
    <3>1. CASE i = slot
      BY <1>5, <1>7, <1>8, <1>12, <3>1
    <3>2. CASE i # slot
      BY <1>5, <1>7, <1>9, <1>12, <2>1, <3>2 DEF Agree, Live
    <3> QED BY <3>1, <3>2
  <2> QED BY <2>1 DEF Agree
<1>13. InsertedAt(t, u, v, slot)
  BY <1>4, <1>5, <1>7, <1>8 DEF InsertedAt
<1> QED BY <1>1, <1>6, <1>7, <1>11, <1>12, <1>13 DEF slot

(* The only dirty bit insert can lose is that of the entry it displaces,   *)
(* which it reports.                                                       *)
LEMMA InsertMarks ==
  ASSUME NEW t, WellFormed(t), NEW v \in VPNs, NEW f \in Frames,
         ~InsertRaises(t, v), Matches(t, v) = {}
  PROVE  /\ Matches(Insert(t, v, f), v) # {}
         /\ \A x : IsDirty(t, x) =>
              IsDirty(Insert(t, v, f), x) \/ x \in DisplacedDirty(t, v)
<1> DEFINE slot == InsertSlot(t, v)
           u == Insert(t, v, f)
<1>1. InsertedAt(t, u, v, slot)
  BY InsertFacts
<1>2. DOMAIN t.entries = 1..Len(t.entries) /\ Len(t.entries) \in Nat
  BY SlotFacts
<1>3. slot = Len(t.entries) + 1 \/ SlotsOf(t, v) # {} \/ MustEvict(t, v)
  BY DEF InsertSlot, MustEvict
<1> HIDE DEF slot, u
<1>4. Matches(u, v) # {}
  BY <1>1 DEF InsertedAt, Matches
<1>5. ASSUME NEW x, IsDirty(t, x)
      PROVE  IsDirty(u, x) \/ x \in DisplacedDirty(t, v)
  <2>1. PICK i \in DOMAIN t.entries :
          t.entries[i].valid /\ t.entries[i].vpn = x /\ t.entries[i].dirty
    BY <1>5 DEF IsDirty, Matches
  <2>2. CASE i # slot
    BY <1>1, <2>1, <2>2 DEF InsertedAt, IsDirty, Matches
  <2>3. CASE i = slot
    <3>1. x # v
      BY <2>1 DEF Matches
    <3>2. SlotsOf(t, v) = {}
      BY <1>1, <2>1, <2>3, <3>1 DEF InsertedAt, SlotsOf
    <3>3. MustEvict(t, v)
      BY <1>2, <1>3, <2>3, <3>2
    <3> QED BY <2>1, <2>3, <3>3 DEF DisplacedDirty, slot
  <2> QED BY <2>2, <2>3
<1> QED BY <1>4, <1>5 DEF u

(* What translate caches agrees with a page table that maps v to f. *)
LEMMA CachedFacts ==
  ASSUME NEW t, WellFormed(t), NEW v \in VPNs, NEW f \in Frames, NEW write,
         ~InsertRaises(t, v)
  PROVE  /\ WellFormed(Cached(t, v, f, write))
         /\ Cached(t, v, f, write).order # << >>
         /\ \A pt : Agree(t, pt) /\ v \in DOMAIN pt /\ pt[v].pfn = f
                     => Agree(Cached(t, v, f, write), pt)
<1>1. /\ WellFormed(Insert(t, v, f)) /\ Insert(t, v, f).order # << >>
      /\ \A pt : Agree(t, pt) /\ v \in DOMAIN pt /\ pt[v].pfn = f
                  => Agree(Insert(t, v, f), pt)
  BY InsertFacts
<1>2. /\ WellFormed(SetDirty(Insert(t, v, f), v))
      /\ SetDirty(Insert(t, v, f), v).order # << >>
      /\ \A pt : Agree(Insert(t, v, f), pt)
                  => Agree(SetDirty(Insert(t, v, f), v), pt)
  BY <1>1, SetDirtyFacts
<1> QED BY <1>1, <1>2 DEF Cached

(* Writing dirty bits back moves no page. *)
LEMMA WriteBackFacts ==
  ASSUME NEW pt, pt \in [DOMAIN pt -> PTE], NEW pages
  PROVE  /\ WriteBack(pt, pages) \in [DOMAIN pt -> PTE]
         /\ DOMAIN WriteBack(pt, pages) = DOMAIN pt
         /\ \A v \in DOMAIN pt : WriteBack(pt, pages)[v].pfn = pt[v].pfn
         /\ \A t : Agree(t, pt) => Agree(t, WriteBack(pt, pages))
<1>1. \A v \in DOMAIN pt : pt[v] \in PTE
  OBVIOUS
<1>2. \A v \in DOMAIN pt :
        /\ WriteBack(pt, pages)[v] \in PTE
        /\ WriteBack(pt, pages)[v].pfn = pt[v].pfn
  BY <1>1 DEF WriteBack, PTE
<1>3. /\ DOMAIN WriteBack(pt, pages) = DOMAIN pt
      /\ WriteBack(pt, pages) \in [DOMAIN pt -> PTE]
  BY <1>2 DEF WriteBack
<1> QED BY <1>2, <1>3 DEF Agree

(* A page's dirty bit, in a TLB value or in a page table. *)
Marked(t, pt, x) == x \in DOMAIN pt /\ (pt[x].dirty \/ IsDirty(t, x))

(* Caching a translation and writing back what it displaced loses no dirty *)
(* bit, and marks the page of a store.                                     *)
LEMMA CachedMarks ==
  ASSUME NEW t, WellFormed(t), NEW v \in VPNs, NEW f \in Frames, NEW write,
         ~InsertRaises(t, v), Matches(t, v) = {},
         NEW pt, pt \in [DOMAIN pt -> PTE]
  PROVE  /\ \A x : Marked(t, pt, x) =>
              Marked(Cached(t, v, f, write),
                     WriteBack(pt, DisplacedDirty(t, v)), x)
         /\ write => IsDirty(Cached(t, v, f, write), v)
<1> DEFINE u == Insert(t, v, f)
           gone == DisplacedDirty(t, v)
           back == WriteBack(pt, gone)
<1>1. /\ WellFormed(u) /\ Matches(u, v) # {}
      /\ \A x : IsDirty(t, x) => IsDirty(u, x) \/ x \in gone
  BY InsertFacts, InsertMarks
<1>2. /\ IsDirty(SetDirty(u, v), v)
      /\ \A x : IsDirty(u, x) => IsDirty(SetDirty(u, v), x)
  BY <1>1, SetDirtyMarks
<1>3. Cached(t, v, f, write) = IF write THEN SetDirty(u, v) ELSE u
  BY DEF Cached
<1> HIDE DEF u, gone
<1>4. ASSUME NEW x \in DOMAIN pt
      PROVE  /\ x \in DOMAIN back
             /\ x \in gone \/ pt[x].dirty => back[x].dirty
  <2>1. pt[x] \in PTE
    OBVIOUS
  <2> QED BY <2>1 DEF WriteBack, PTE
<1> HIDE DEF back
<1>5. ASSUME NEW x, Marked(t, pt, x)
      PROVE  Marked(Cached(t, v, f, write), back, x)
  <2>1. x \in DOMAIN pt /\ (pt[x].dirty \/ IsDirty(t, x))
    BY <1>5 DEF Marked
  <2>2. x \in DOMAIN back /\ (back[x].dirty \/ IsDirty(u, x))
    BY <1>1, <1>4, <2>1
  <2> QED BY <1>2, <1>3, <2>2 DEF Marked
<1> QED BY <1>2, <1>3, <1>5 DEF back, gone

-----------------------------------------------------------------------------
(* The translator.                                                         *)

(* TypeOK without the TLB. *)
StoresOK ==
  /\ table \in [Resident -> PTE] /\ Resident \subseteq VPNs
  /\ owner \in [DOMAIN owner -> VPNs] /\ DOMAIN owner \subseteq Frames
  /\ freeList \in Seq(Frames) /\ frameOrder \in Seq(Frames)
  /\ mem \in [Frames -> Contents]
  /\ disk \in [Swapped -> Contents] /\ Swapped \subseteq VPNs
  /\ crashed \in BOOLEAN
  /\ access \in AccessRecord \cup {NoAccess}

(* Until translate raises there is a slot to displace, so that neither a   *)
(* walk that finds the page nor a fault that evicts none can raise: every  *)
(* other use of the TLB leaves the slot of its page in the recency list.   *)
SomeoneToDisplace ==
  ~crashed /\ tlb.entries # << >> => tlb.order # << >>

IInv ==
  TypeOK /\ TLBCoherent /\ SlotsTracked /\ FramesOwned /\ SomeoneToDisplace

(* The inductive invariant, sorted by structure. *)
Parts ==
  /\ WellFormed(tlb) /\ Agree(tlb, table) /\ SomeoneToDisplace
  /\ StoresOK /\ FramesOwned

(* IInv, written over the well-formedness and agreement the lemmas use. *)
LEMMA IInvParts == IInv <=> Parts
<1>1. Live(tlb) = {i \in Slots : tlb.entries[i].valid}
  BY DEF Live, Slots
<1>2. TLBCoherent <=> Agree(tlb, table)
  BY <1>1 DEF TLBCoherent, Agree, Resident, Slots
<1>3. TypeOK /\ SlotsTracked <=> WellFormed(tlb) /\ StoresOK
  BY <1>1 DEF TypeOK, SlotsTracked, WellFormed, StoresOK, Slots
<1> QED BY <1>2, <1>3 DEF IInv, Parts

(* The frames of the pool, without repetition. *)
LEMMA PoolFacts ==
  /\ StartFrame \in {0, 1} /\ NumFrames - StartFrame \in Nat \ {0}
  /\ AllFree \in Seq(Frames) /\ Len(AllFree) = NumFrames - StartFrame
  /\ NoRepeats(AllFree)
  /\ Tracked(AllFree) = StartFrame..(NumFrames - 1)
<1>1. NumFrames \in Nat \ {0} /\ StartFrame \in {0, 1} /\ StartFrame < NumFrames
  BY NumFramesAssumption DEF StartFrame
<1>2. /\ AllFree \in Seq(Frames)
      /\ DOMAIN AllFree = 1..(NumFrames - StartFrame)
      /\ \A i \in DOMAIN AllFree : AllFree[i] = StartFrame + i - 1
  <2>1. AllFree = [i \in 1..(NumFrames - StartFrame) |-> StartFrame + i - 1]
    BY DEF AllFree
  <2>2. \A i \in 1..(NumFrames - StartFrame) : StartFrame + i - 1 \in Frames
    BY <1>1 DEF Frames
  <2>3. NumFrames - StartFrame \in Nat
    BY <1>1
  <2> QED BY <2>1, <2>2, <2>3
<1>3. NoRepeats(AllFree)
  BY <1>1, <1>2 DEF NoRepeats
<1>4. Tracked(AllFree) = StartFrame..(NumFrames - 1)
  <2>1. ASSUME NEW f \in StartFrame..(NumFrames - 1)
        PROVE  f \in Tracked(AllFree)
    <3>1. f - StartFrame + 1 \in 1..(NumFrames - StartFrame)
          /\ StartFrame + (f - StartFrame + 1) - 1 = f
      BY <1>1
    <3> QED BY <1>2, <3>1 DEF Tracked
  <2>2. Tracked(AllFree) \subseteq StartFrame..(NumFrames - 1)
    BY <1>1, <1>2 DEF Tracked
  <2> QED BY <2>1, <2>2
<1>5. Len(AllFree) = NumFrames - StartFrame
  BY <1>1, <1>2
<1> QED BY <1>1, <1>2, <1>3, <1>4, <1>5

(* The start: nothing cached, resident, owned or saved. *)
LEMMA InitIInv == Init => Parts
<1> SUFFICES ASSUME Init PROVE Parts
  OBVIOUS
<1>2. WellFormed(tlb) /\ Agree(tlb, table)
  <2>1. tlb = [entries |-> << >>, order |-> << >>]
    BY DEF Init, EmptyTLB
  <2>2. DOMAIN tlb.entries = {} /\ DOMAIN tlb.order = {} /\ Len(tlb.entries) = 0
        /\ tlb \in [entries : Seq(TLBEntry), order : Seq(SlotNumbers)]
    BY <2>1
  <2> QED BY <2>2, NumEntriesAssumption
          DEF WellFormed, Agree, Live, Tracked, NoRepeats
<1>3. /\ DOMAIN table = {} /\ DOMAIN owner = {} /\ DOMAIN disk = {}
      /\ table \in [DOMAIN table -> PTE] /\ owner \in [DOMAIN owner -> VPNs]
      /\ disk \in [DOMAIN disk -> Contents]
  BY DEF Init, NoKeys
<1>4. freeList = AllFree /\ freeList \in Seq(Frames) /\ NoRepeats(freeList)
  BY PoolFacts DEF Init
<1>7. frameOrder = << >> /\ Tracked(frameOrder) = {} /\ NoRepeats(frameOrder)
  BY DEF Init, Tracked, NoRepeats
<1>8. StoresOK
  <2>1. /\ mem \in [Frames -> Contents] /\ crashed \in BOOLEAN
        /\ access \in AccessRecord \cup {NoAccess}
    BY ZeroAssumption DEF Init
  <2>2. frameOrder \in Seq(Frames)
    BY <1>7
  <2> QED BY <1>3, <1>4, <2>1, <2>2 DEF StoresOK, Resident, Swapped
<1>9. FramesOwned
  BY <1>3, <1>4, <1>7 DEF FramesOwned, Resident
<1>10. SomeoneToDisplace
  BY DEF Init, EmptyTLB, SomeoneToDisplace
<1> QED BY <1>2, <1>8, <1>9, <1>10 DEF Parts

(* A TLB with something in its recency list can always cache a page. *)
LEMMA NoRaise ==
  ASSUME WellFormed(tlb), SomeoneToDisplace, ~crashed, NEW v
  PROVE  ~InsertRaises(tlb, v)
<1>1. IsFull(tlb) => tlb.entries # << >>
  BY SlotFacts, NumEntriesAssumption DEF IsFull
<1> QED BY <1>1 DEF InsertRaises, MustEvict, SomeoneToDisplace

(* What a page fault's end starts from. *)
FaultReady(t, pt, swap) ==
  /\ WellFormed(t) /\ Agree(t, pt)
  /\ pt \in [DOMAIN pt -> PTE] /\ DOMAIN pt \subseteq VPNs
  /\ swap \in [DOMAIN swap -> Contents] /\ DOMAIN swap \subseteq VPNs
  /\ mem \in [Frames -> Contents] /\ crashed = FALSE
  /\ access \in AccessRecord \cup {NoAccess}

(* What it leaves. *)
FaultDone(pt, v, f) ==
  /\ WellFormed(tlb') /\ Agree(tlb', table') /\ SomeoneToDisplace'
  /\ table' \in [DOMAIN table' -> PTE]
  /\ DOMAIN table' = DOMAIN pt \cup {v} /\ table'[v].pfn = f
  /\ \A u \in DOMAIN pt : table'[u].pfn = pt[u].pfn
  /\ owner' = With(owner, f, v)
  /\ disk' \in [DOMAIN disk' -> Contents] /\ DOMAIN disk' \subseteq VPNs
  /\ mem' \in [Frames -> Contents] /\ crashed' \in BOOLEAN
  /\ access' \in AccessRecord \cup {NoAccess}

(* The end of a page fault, from any TLB and page table that agree once    *)
(* the victim is out of both.                                              *)
LEMMA InstallFacts ==
  ASSUME NEW t, NEW pt, NEW swap, FaultReady(t, pt, swap),
         NEW v \in VPNs, v \notin DOMAIN pt, NEW f \in Frames,
         NEW write \in BOOLEAN, NEW c \in Contents,
         Install(t, pt, swap, v, f, write, c)
  PROVE  FaultDone(pt, v, f)
<1> USE DEF FaultReady
<1> DEFINE row == [pfn |-> f, dirty |-> FALSE]
           pt1 == With(pt, v, row)
           ready == IF ByteLevel THEN Prepared(swap, v, f) ELSE mem
<1>1. row \in PTE /\ row.pfn = f
  BY DEF PTE
<1>2. /\ pt1 \in [DOMAIN pt1 -> PTE] /\ DOMAIN pt1 = DOMAIN pt \cup {v}
      /\ pt1[v] = row /\ \A u \in DOMAIN pt \ {v} : pt1[u] = pt[u]
  BY <1>1 DEF With
<1>3. Agree(t, pt1)
  BY <1>2 DEF Agree
<1>4. /\ owner' = With(owner, f, v) /\ disk' = Minus(swap, v)
      /\ \/ /\ ~InsertRaises(t, v) /\ crashed' = crashed
            /\ tlb' = Cached(t, v, f, write)
            /\ table' = WriteBack(pt1, DisplacedDirty(t, v))
            /\ mem' = Accessed(ready, f, write, c)
            /\ access' = Access(v, write, mem'[f])
         \/ /\ crashed' = TRUE /\ tlb' = t /\ table' = pt1 /\ mem' = ready
            /\ access' = access
  BY DEF Install
<1>5. ready \in [Frames -> Contents]
  BY ZeroAssumption DEF Prepared
<1>6. Accessed(ready, f, write, c) \in [Frames -> Contents]
  BY <1>5 DEF Accessed
<1>7. disk' \in [DOMAIN disk' -> Contents] /\ DOMAIN disk' \subseteq VPNs
  BY <1>4 DEF Minus
<1> HIDE DEF row, pt1, ready
<1>8. CASE ~InsertRaises(t, v)
  <2>1. /\ tlb' = Cached(t, v, f, write) /\ crashed' = crashed
        /\ table' = WriteBack(pt1, DisplacedDirty(t, v))
        /\ mem' = Accessed(ready, f, write, c)
        /\ access' = Access(v, write, mem'[f])
    BY <1>4, <1>8 DEF Install, pt1, row, ready
  <2>2. WellFormed(tlb') /\ Agree(tlb', pt1) /\ SomeoneToDisplace'
    BY <1>1, <1>2, <1>3, <1>8, <2>1, CachedFacts DEF SomeoneToDisplace
  <2>3. /\ table' \in [DOMAIN pt1 -> PTE] /\ DOMAIN table' = DOMAIN pt1
        /\ \A u \in DOMAIN pt1 : table'[u].pfn = pt1[u].pfn
        /\ Agree(tlb', table')
    BY <1>2, <2>1, <2>2, WriteBackFacts
  <2>4. access' \in AccessRecord
    <3>1. mem'[f] \in Contents
      BY <1>6, <2>1
    <3> QED BY <2>1, <3>1 DEF Access, AccessRecord
  <2> QED BY <1>1, <1>2, <1>4, <1>6, <1>7, <2>1, <2>2, <2>3, <2>4
          DEF FaultDone
<1>9. CASE InsertRaises(t, v)
  <2>1. /\ crashed' = TRUE /\ tlb' = t /\ table' = pt1 /\ mem' = ready
        /\ access' = access
    BY <1>4, <1>9
  <2>2. SomeoneToDisplace'
    BY <2>1 DEF SomeoneToDisplace
  <2> QED BY <1>1, <1>2, <1>3, <1>4, <1>5, <1>7, <2>1, <2>2 DEF FaultDone
<1> QED BY <1>8, <1>9

(* One frame is handed to page v, another page at most leaving it: what is *)
(* left to check of FramesOwned is about the two lists.                    *)
LEMMA OwnedAfter ==
  ASSUME StoresOK, FramesOwned, NEW gone, gone \subseteq VPNs,
         NEW v \in VPNs, v \notin Resident, NEW f \in Frames,
         \A g \in DOMAIN owner : g = f <=> owner[g] \in gone,
         owner' = With(owner, f, v),
         DOMAIN table' = (Resident \ gone) \cup {v},
         table'[v].pfn = f,
         \A u \in Resident \ gone : table'[u].pfn = table[u].pfn
  PROVE  /\ owner' \in [DOMAIN owner' -> VPNs] /\ DOMAIN owner' \subseteq Frames
         /\ DOMAIN owner' = DOMAIN owner \cup {f}
         /\ \A u \in DOMAIN table' : /\ table'[u].pfn \in DOMAIN owner'
                                     /\ owner'[table'[u].pfn] = u
         /\ \A g \in DOMAIN owner' : /\ owner'[g] \in DOMAIN table'
                                     /\ table'[owner'[g]].pfn = g
<1>1. /\ DOMAIN owner' = DOMAIN owner \cup {f} /\ owner'[f] = v
      /\ \A g \in DOMAIN owner \ {f} : owner'[g] = owner[g]
  BY DEF With
<1>2. owner' \in [DOMAIN owner' -> VPNs] /\ DOMAIN owner' \subseteq Frames
  <2>1. owner \in [DOMAIN owner -> VPNs] /\ DOMAIN owner \subseteq Frames
    BY DEF StoresOK
  <2> QED BY <2>1 DEF With
<1>3. ASSUME NEW u \in DOMAIN table'
      PROVE  table'[u].pfn \in DOMAIN owner' /\ owner'[table'[u].pfn] = u
  <2>1. CASE u = v
    BY <1>1, <2>1
  <2>2. CASE u # v
    <3>1. u \in Resident \ gone
      BY <2>2
    <3>2. table'[u].pfn = table[u].pfn /\ table[u].pfn \in DOMAIN owner
          /\ owner[table[u].pfn] = u
      BY <3>1 DEF FramesOwned
    <3>3. table[u].pfn # f
      BY <3>1, <3>2
    <3> QED BY <1>1, <3>2, <3>3
  <2> QED BY <2>1, <2>2
<1>4. ASSUME NEW g \in DOMAIN owner'
      PROVE  owner'[g] \in DOMAIN table' /\ table'[owner'[g]].pfn = g
  <2>1. CASE g = f
    BY <1>1, <2>1
  <2>2. CASE g # f
    <3>1. g \in DOMAIN owner /\ owner'[g] = owner[g] /\ owner[g] \notin gone
      BY <1>1, <2>2
    <3>2. owner[g] \in Resident /\ table[owner[g]].pfn = g
      BY <3>1 DEF FramesOwned
    <3> QED BY <3>1, <3>2
  <2> QED BY <2>1, <2>2
<1> QED BY <1>1, <1>2, <1>3, <1>4

(* The frame a fault takes when none is free, and what is saved of it. *)
TakenFrame == Head(frameOrder)
SwapAfterEvict ==
  LET victim == owner[TakenFrame]
      dirty == table[victim].dirty \/ IsDirty(tlb, victim)
  IN IF ByteLevel /\ dirty THEN With(disk, victim, mem[TakenFrame]) ELSE disk

(* An eviction takes the frame of a resident page, and what it hands to    *)
(* the fault's end is in order once that page is out.                      *)
LEMMA EvictSetup ==
  ASSUME Parts, NEW v \in VPNs, NEW write \in BOOLEAN, NEW c \in Contents,
         FaultEvict(v, write, c)
  PROVE  /\ TakenFrame \in Frames /\ TakenFrame \in DOMAIN owner
         /\ ListOf(Frames, Tail(frameOrder))
         /\ Tracked(Tail(frameOrder)) = DOMAIN owner \ {TakenFrame}
         /\ owner[TakenFrame] \in Resident /\ owner[TakenFrame] \in VPNs
         /\ table[owner[TakenFrame]].pfn = TakenFrame
         /\ DOMAIN Minus(table, owner[TakenFrame])
              = Resident \ {owner[TakenFrame]}
         /\ \A u \in DOMAIN Minus(table, owner[TakenFrame]) :
              Minus(table, owner[TakenFrame])[u] = table[u]
         /\ FaultReady(Invalidate(tlb, owner[TakenFrame]),
                       Minus(table, owner[TakenFrame]), SwapAfterEvict)
         /\ Install(Invalidate(tlb, owner[TakenFrame]),
                    Minus(table, owner[TakenFrame]), SwapAfterEvict,
                    v, TakenFrame, write, c)
         /\ FaultDone(Minus(table, owner[TakenFrame]), v, TakenFrame)
<1> DEFINE f == TakenFrame
           victim == owner[f]
           t == Invalidate(tlb, victim)
           pt == Minus(table, victim)
           swap == SwapAfterEvict
<1>1. /\ WellFormed(tlb) /\ Agree(tlb, table)
      /\ table \in [Resident -> PTE] /\ Resident \subseteq VPNs
      /\ frameOrder \in Seq(Frames) /\ mem \in [Frames -> Contents]
      /\ disk \in [Swapped -> Contents] /\ Swapped \subseteq VPNs
      /\ crashed \in BOOLEAN /\ access \in AccessRecord \cup {NoAccess}
  BY DEF Parts, StoresOK
<1>2. /\ Tracked(frameOrder) = DOMAIN owner /\ NoRepeats(frameOrder)
      /\ Tracked(freeList) \cup DOMAIN owner = Tracked(AllFree)
      /\ Tracked(freeList) \cap DOMAIN owner = {}
  BY DEF Parts, FramesOwned
<1>3. /\ crashed = FALSE /\ v \notin Resident /\ freeList = << >>
      /\ Install(t, pt, swap, v, f, write, c)
  BY <1>1 DEF FaultEvict, TakenFrame, SwapAfterEvict
<1>4. frameOrder # << >>
  <2>1. StartFrame \in Tracked(AllFree)
    BY NumFramesAssumption, PoolFacts DEF StartFrame
  <2>2. Tracked(freeList) = {}
    BY <1>3 DEF Tracked
  <2>3. StartFrame \in Tracked(frameOrder)
    BY <1>2, <2>1, <2>2
  <2> QED BY <2>3 DEF Tracked
<1>5. /\ f \in Frames /\ f \in DOMAIN owner
      /\ ListOf(Frames, Tail(frameOrder))
      /\ Tracked(Tail(frameOrder)) = DOMAIN owner \ {f}
  BY <1>1, <1>2, <1>4, PopFacts DEF TakenFrame, ListOf
<1> HIDE DEF f
<1>6. victim \in Resident /\ victim \in VPNs /\ table[victim].pfn = f
  BY <1>1, <1>5 DEF Parts, FramesOwned
<1>7. WellFormed(t) /\ Agree(t, pt)
  BY <1>1, InvalidateFacts
<1>8. /\ pt \in [DOMAIN pt -> PTE] /\ DOMAIN pt = Resident \ {victim}
      /\ \A u \in DOMAIN pt : pt[u] = table[u]
  BY <1>1 DEF Minus, Resident
<1>9. swap \in [DOMAIN swap -> Contents] /\ DOMAIN swap \subseteq VPNs
  <2>1. mem[f] \in Contents
    BY <1>1, <1>5
  <2> QED BY <1>1, <1>6, <2>1 DEF With, Swapped, SwapAfterEvict, f
<1> HIDE DEF victim, t, pt, swap
<1>10. FaultReady(t, pt, swap)
  BY <1>1, <1>3, <1>7, <1>8, <1>9 DEF FaultReady
<1>11. FaultDone(pt, v, f)
  <2>1. v \notin DOMAIN pt
    BY <1>3, <1>8
  <2> QED BY <1>3, <1>5, <1>10, <2>1, InstallFacts
<1> QED BY <1>3, <1>5, <1>6, <1>8, <1>10, <1>11 DEF f, victim, t, pt, swap

(* Every way through translate preserves the invariant. *)
LEMMA NextIInv == Parts /\ [Next]_vars => Parts'
<1> SUFFICES ASSUME Parts, [Next]_vars PROVE Parts'
  OBVIOUS
<1>1. /\ WellFormed(tlb) /\ Agree(tlb, table) /\ SomeoneToDisplace
      /\ table \in [Resident -> PTE] /\ Resident \subseteq VPNs
      /\ owner \in [DOMAIN owner -> VPNs] /\ DOMAIN owner \subseteq Frames
      /\ freeList \in Seq(Frames) /\ frameOrder \in Seq(Frames)
      /\ mem \in [Frames -> Contents]
      /\ disk \in [Swapped -> Contents] /\ Swapped \subseteq VPNs
      /\ StoresOK /\ FramesOwned /\ access \in AccessRecord \cup {NoAccess}
  BY DEF Parts, StoresOK
<1>2. /\ Tracked(frameOrder) = DOMAIN owner /\ NoRepeats(frameOrder)
      /\ Tracked(freeList) \cup DOMAIN owner = Tracked(AllFree)
      /\ Tracked(freeList) \cap DOMAIN owner = {}
      /\ NoRepeats(freeList)
  BY <1>1 DEF FramesOwned
<1>3. ASSUME NEW v \in VPNs, NEW write \in BOOLEAN, NEW c \in Contents,
             TLBHit(v, write, c)
      PROVE  Parts'
  <2> DEFINE f == HitFrame(tlb, v)
  <2>1. /\ Matches(tlb, v) # {} /\ frameOrder' = MoveToBack(frameOrder, f)
        /\ tlb' = IF write THEN SetDirty(Touch(tlb, v), v) ELSE Touch(tlb, v)
        /\ mem' = Accessed(mem, f, write, c)
        /\ access' = Access(v, write, mem'[f])
        /\ UNCHANGED <<table, owner, freeList, disk, crashed>>
    BY <1>3 DEF TLBHit, MarkAccessed
  <2>2. WellFormed(tlb') /\ Agree(tlb', table) /\ tlb'.order # << >>
    <3>1. WellFormed(Touch(tlb, v)) /\ Agree(Touch(tlb, v), table)
          /\ Touch(tlb, v).order # << >>
      BY <1>1, <2>1, TouchFacts
    <3>2. /\ WellFormed(SetDirty(Touch(tlb, v), v))
          /\ Agree(SetDirty(Touch(tlb, v), v), table)
          /\ SetDirty(Touch(tlb, v), v).order # << >>
      BY <3>1, SetDirtyFacts
    <3> QED BY <2>1, <3>1, <3>2
  <2>3. f \in DOMAIN owner /\ f \in Frames
    <3>1. PICK i : i \in Matches(tlb, v)
      BY <2>1
    <3>2. HitSlot(tlb, v) = i /\ i \in Live(tlb)
      BY <1>1, <3>1, HitFacts
    <3>3. table[tlb.entries[i].vpn].pfn = f /\ tlb.entries[i].vpn \in Resident
      BY <1>1, <3>2 DEF Agree, HitFrame, Resident
    <3> QED BY <1>1, <3>3 DEF FramesOwned
  <2> HIDE DEF f
  <2>4. /\ frameOrder' \in Seq(Frames) /\ NoRepeats(frameOrder')
        /\ Tracked(frameOrder') = DOMAIN owner
    <3>1. ListOf(Frames, frameOrder)
      BY <1>1, <1>2 DEF ListOf
    <3>2. /\ ListOf(Frames, frameOrder')
          /\ Tracked(frameOrder') = Tracked(frameOrder) \cup {f}
      BY <2>1, <2>3, <3>1, MoveToBackFacts
    <3>3. DOMAIN owner \cup {f} = DOMAIN owner
      BY <2>3
    <3> QED BY <1>2, <3>2, <3>3 DEF ListOf
  <2>5. mem' \in [Frames -> Contents] /\ access' \in AccessRecord
    <3>1. mem' \in [Frames -> Contents]
      BY <1>1, <2>1 DEF Accessed
    <3> QED BY <2>1, <2>3, <3>1 DEF Access, AccessRecord
  <2>6. StoresOK'
    BY <1>1, <2>1, <2>4, <2>5 DEF StoresOK, Resident, Swapped
  <2>7. FramesOwned'
    BY <1>1, <2>1, <2>4 DEF FramesOwned, Resident
  <2> QED BY <2>1, <2>2, <2>6, <2>7 DEF Parts, SomeoneToDisplace
<1>4. ASSUME NEW v \in VPNs, NEW write \in BOOLEAN, NEW c \in Contents,
             WalkHit(v, write, c)
      PROVE  Parts'
  <2> DEFINE f == table[v].pfn
  <2>1. /\ Matches(tlb, v) = {} /\ v \in Resident
        /\ tlb' = Cached(tlb, v, f, write)
        /\ table' = WriteBack(table, DisplacedDirty(tlb, v))
        /\ mem' = Accessed(mem, f, write, c)
        /\ access' = Access(v, write, mem'[f])
        /\ UNCHANGED <<owner, freeList, frameOrder, disk, crashed>>
    BY <1>4 DEF WalkHit
  <2>2. f \in Frames
    BY <1>1, <2>1 DEF PTE
  <2>3. WellFormed(tlb') /\ Agree(tlb', table) /\ tlb'.order # << >>
    <3>1. ~InsertRaises(tlb, v)
      BY <1>1, <1>4, NoRaise DEF WalkHit
    <3>2. v \in DOMAIN table /\ table[v].pfn = f
      BY <2>1 DEF Resident
    <3> HIDE DEF f
    <3> QED BY <1>1, <2>1, <2>2, <3>1, <3>2, CachedFacts
  <2>4. /\ table' \in [DOMAIN table' -> PTE] /\ DOMAIN table' = Resident
        /\ \A u \in Resident : table'[u].pfn = table[u].pfn
        /\ Agree(tlb', table')
    BY <1>1, <2>1, <2>3, WriteBackFacts DEF Resident
  <2>5. mem' \in [Frames -> Contents] /\ access' \in AccessRecord
    <3>1. mem' \in [Frames -> Contents]
      BY <1>1, <2>1 DEF Accessed
    <3> HIDE DEF f
    <3> QED BY <2>1, <2>2, <3>1 DEF Access, AccessRecord
  <2>6. StoresOK'
    BY <1>1, <2>1, <2>4, <2>5 DEF StoresOK, Resident, Swapped
  <2>7. FramesOwned'
    BY <1>1, <2>1, <2>4 DEF FramesOwned, Resident
  <2> QED BY <2>3, <2>4, <2>6, <2>7 DEF Parts, SomeoneToDisplace
<1>5. ASSUME NEW v \in VPNs, NEW write \in BOOLEAN, NEW c \in Contents,
             FaultFree(v, write, c)
      PROVE  Parts'
  <2> DEFINE f == Head(freeList)
  <2>1. /\ crashed = FALSE /\ v \notin Resident /\ freeList # << >>
        /\ freeList' = Tail(freeList) /\ frameOrder' = MoveToBack(frameOrder, f)
        /\ Install(tlb, table, disk, v, f, write, c)
    BY <1>1, <1>5 DEF FaultFree, StoresOK
  <2>2. /\ f \in Frames /\ f \in Tracked(freeList) /\ freeList' \in Seq(Frames)
        /\ NoRepeats(freeList') /\ Tracked(freeList') = Tracked(freeList) \ {f}
    BY <1>1, <1>2, <2>1, PopFacts
  <2> HIDE DEF f
  <2>3. f \notin DOMAIN owner
    BY <1>2, <2>2
  <2>4. /\ WellFormed(tlb') /\ Agree(tlb', table') /\ SomeoneToDisplace'
        /\ table' \in [DOMAIN table' -> PTE]
        /\ DOMAIN table' = Resident \cup {v} /\ table'[v].pfn = f
        /\ \A u \in Resident : table'[u].pfn = table[u].pfn
        /\ owner' = With(owner, f, v)
        /\ disk' \in [DOMAIN disk' -> Contents] /\ DOMAIN disk' \subseteq VPNs
        /\ mem' \in [Frames -> Contents] /\ crashed' \in BOOLEAN
        /\ access' \in AccessRecord \cup {NoAccess}
    <3>1. FaultReady(tlb, table, disk)
      BY <1>1, <2>1 DEF FaultReady, Resident, Swapped
    <3>2. v \notin DOMAIN table /\ Install(tlb, table, disk, v, f, write, c)
      BY <2>1 DEF Resident
    <3>3. FaultDone(table, v, f)
      BY <2>2, <3>1, <3>2, InstallFacts
    <3> QED BY <3>3 DEF FaultDone, Resident
  <2>5. /\ frameOrder' \in Seq(Frames) /\ NoRepeats(frameOrder')
        /\ Tracked(frameOrder') = DOMAIN owner \cup {f}
    <3>1. ListOf(Frames, frameOrder)
      BY <1>1, <1>2 DEF ListOf
    <3>2. /\ ListOf(Frames, frameOrder')
          /\ Tracked(frameOrder') = Tracked(frameOrder) \cup {f}
      BY <2>1, <2>2, <3>1, MoveToBackFacts
    <3> QED BY <1>2, <3>2 DEF ListOf
  <2>6. /\ owner' \in [DOMAIN owner' -> VPNs] /\ DOMAIN owner' \subseteq Frames
        /\ DOMAIN owner' = DOMAIN owner \cup {f}
        /\ \A u \in DOMAIN table' : /\ table'[u].pfn \in DOMAIN owner'
                                    /\ owner'[table'[u].pfn] = u
        /\ \A g \in DOMAIN owner' : /\ owner'[g] \in DOMAIN table'
                                    /\ table'[owner'[g]].pfn = g
    <3> DEFINE gone == {}
    <3>1. \A g \in DOMAIN owner : g = f <=> owner[g] \in gone
      BY <2>3
    <3>2. DOMAIN table' = (Resident \ gone) \cup {v}
      BY <2>4
    <3>3. /\ StoresOK /\ FramesOwned /\ f \in Frames /\ v \notin Resident
          /\ gone \subseteq VPNs
      BY <1>1, <2>1, <2>2
    <3>4. /\ owner' = With(owner, f, v) /\ table'[v].pfn = f
          /\ \A u \in Resident \ gone : table'[u].pfn = table[u].pfn
      BY <2>4
    <3> HIDE DEF gone
    <3> QED BY <3>1, <3>2, <3>3, <3>4, OwnedAfter
  <2>7. StoresOK'
    BY <1>1, <2>2, <2>4, <2>5, <2>6 DEF StoresOK, Resident, Swapped
  <2>8. FramesOwned'
    BY <1>2, <2>2, <2>5, <2>6 DEF FramesOwned, Resident
  <2> QED BY <2>4, <2>7, <2>8 DEF Parts
<1>6. ASSUME NEW v \in VPNs, NEW write \in BOOLEAN, NEW c \in Contents,
             FaultEvict(v, write, c)
      PROVE  Parts'
  <2> DEFINE f == TakenFrame
             victim == owner[TakenFrame]
             pt == Minus(table, victim)
  <2>1. /\ v \notin Resident /\ freeList' = freeList
        /\ frameOrder' = MoveToBack(Tail(frameOrder), f)
    BY <1>6 DEF FaultEvict, TakenFrame
  <2>3. /\ f \in Frames /\ f \in DOMAIN owner
        /\ ListOf(Frames, Tail(frameOrder))
        /\ Tracked(Tail(frameOrder)) = DOMAIN owner \ {f}
        /\ victim \in Resident /\ victim \in VPNs /\ table[victim].pfn = f
        /\ DOMAIN pt = Resident \ {victim}
        /\ \A u \in DOMAIN pt : pt[u] = table[u]
        /\ FaultDone(pt, v, f)
    BY <1>6, EvictSetup
  <2> HIDE DEF f, victim, pt
  <2>8. /\ WellFormed(tlb') /\ Agree(tlb', table') /\ SomeoneToDisplace'
        /\ table' \in [DOMAIN table' -> PTE]
        /\ DOMAIN table' = DOMAIN pt \cup {v} /\ table'[v].pfn = f
        /\ \A u \in DOMAIN pt : table'[u].pfn = pt[u].pfn
        /\ owner' = With(owner, f, v)
        /\ disk' \in [DOMAIN disk' -> Contents] /\ DOMAIN disk' \subseteq VPNs
        /\ mem' \in [Frames -> Contents] /\ crashed' \in BOOLEAN
        /\ access' \in AccessRecord \cup {NoAccess}
    BY <2>3 DEF FaultDone
  <2>9. /\ frameOrder' \in Seq(Frames) /\ NoRepeats(frameOrder')
        /\ Tracked(frameOrder') = DOMAIN owner
    <3>2. /\ ListOf(Frames, frameOrder')
          /\ Tracked(frameOrder') = Tracked(Tail(frameOrder)) \cup {f}
      BY <2>1, <2>3, MoveToBackFacts
    <3>3. (DOMAIN owner \ {f}) \cup {f} = DOMAIN owner
      BY <2>3
    <3> QED BY <2>3, <3>2, <3>3 DEF ListOf
  <2>10. /\ owner' \in [DOMAIN owner' -> VPNs] /\ DOMAIN owner' \subseteq Frames
         /\ DOMAIN owner' = DOMAIN owner \cup {f}
         /\ \A u \in DOMAIN table' : /\ table'[u].pfn \in DOMAIN owner'
                                     /\ owner'[table'[u].pfn] = u
         /\ \A g \in DOMAIN owner' : /\ owner'[g] \in DOMAIN table'
                                     /\ table'[owner'[g]].pfn = g
    <3>1. \A g \in DOMAIN owner : g = f <=> owner[g] \in {victim}
      BY <1>1, <2>3 DEF FramesOwned, victim, f
    <3>2. /\ DOMAIN table' = (Resident \ {victim}) \cup {v}
          /\ \A u \in Resident \ {victim} : table'[u].pfn = table[u].pfn
      BY <2>3, <2>8
    <3>3. /\ StoresOK /\ FramesOwned /\ f \in Frames /\ v \notin Resident
          /\ {victim} \subseteq VPNs
      BY <1>1, <2>1, <2>3
    <3>4. owner' = With(owner, f, v) /\ table'[v].pfn = f
      BY <2>8
    <3>5. /\ owner' \in [DOMAIN owner' -> VPNs] /\ DOMAIN owner' \subseteq Frames
          /\ DOMAIN owner' = DOMAIN owner \cup {f}
          /\ \A u \in DOMAIN table' : /\ table'[u].pfn \in DOMAIN owner'
                                      /\ owner'[table'[u].pfn] = u
          /\ \A g \in DOMAIN owner' : /\ owner'[g] \in DOMAIN table'
                                      /\ table'[owner'[g]].pfn = g
      BY <3>1, <3>2, <3>3, <3>4, OwnedAfter
    <3> QED BY <3>5
  <2>11. StoresOK'
    BY <1>1, <2>1, <2>3, <2>8, <2>9, <2>10 DEF StoresOK, Resident, Swapped
  <2>12. FramesOwned'
    BY <1>2, <2>1, <2>3, <2>9, <2>10 DEF FramesOwned, Resident
  <2> QED BY <2>8, <2>11, <2>12 DEF Parts
<1>7. CASE UNCHANGED vars
  <2>1. /\ tlb' = tlb /\ table' = table /\ owner' = owner
        /\ freeList' = freeList /\ frameOrder' = frameOrder /\ mem' = mem
        /\ disk' = disk /\ crashed' = crashed /\ access' = access
    BY <1>7 DEF vars
  <2>2. WellFormed(tlb') /\ Agree(tlb', table')
    BY <1>1, <2>1
  <2>3. SomeoneToDisplace'
    BY <1>1, <2>1 DEF SomeoneToDisplace
  <2>4. StoresOK'
    BY <1>1, <2>1 DEF StoresOK, Resident, Swapped
  <2>5. FramesOwned'
    BY <1>1, <2>1 DEF FramesOwned, Resident
  <2> QED BY <2>2, <2>3, <2>4, <2>5 DEF Parts
<1> QED
  <2>1. ASSUME Next PROVE Parts'
    <3>1. PICK v \in VPNs, write \in Stores :
            \E c \in IF write /\ ByteLevel THEN Contents ELSE {Zero} :
              Translate(v, write, c)
      BY <2>1 DEF Next
    <3>2. PICK c \in Contents : Translate(v, write, c)
      BY <3>1, ZeroAssumption
    <3> QED BY <1>3, <1>4, <1>5, <1>6, <3>2, ModeAssumption DEF Translate
  <2> QED BY <1>7, <2>1

(* The inductive invariant of translate (address_translator.py:90-168):    *)
(* every claim about the four structures holds of all of them together.    *)
THEOREM Invariance == Spec => []IInv
<1>1. Init => Parts
  BY InitIInv
<1>2. Parts /\ [Next]_vars => Parts'
  BY NextIInv
<1>3. Parts => IInv
  BY IInvParts
<1> QED BY <1>1, <1>2, <1>3, PTL DEF Spec

(* Every structure of the translator keeps its type, for any number of     *)
(* pages, frames and TLB entries.                                          *)
THEOREM TypeCorrect == Spec => []TypeOK
<1>1. IInv => TypeOK
  BY DEF IInv
<1> QED BY <1>1, Invariance, PTL

(* No translation in the TLB is ever stale. *)
THEOREM TLBNeverStale == Spec => []TLBCoherent
<1>1. IInv => TLBCoherent
  BY DEF IInv
<1> QED BY <1>1, Invariance, PTL

(* The TLB's recency list tracks its valid slots, one per page. *)
THEOREM SlotsAlwaysTracked == Spec => []SlotsTracked
<1>1. IInv => SlotsTracked
  BY DEF IInv
<1> QED BY <1>1, Invariance, PTL

(* No frame ever backs two pages, leaks, or is both free and in use. *)
THEOREM FramesNeverShared == Spec => []FramesOwned
<1>1. IInv => FramesOwned
  BY DEF IInv
<1> QED BY <1>1, Invariance, PTL

(* A slot that is not valid names a page that is not in memory. *)
Retired(t, pt) ==
  \A i \in DOMAIN t.entries :
    t.entries[i].valid \/ t.entries[i].vpn \notin DOMAIN pt

(* Once translate has raised, nothing is left to displace or to hand out. *)
Exhausted == IsFull(tlb) /\ tlb.order = << >> /\ freeList = << >>

RaiseInv == Parts /\ Retired(tlb, table) /\ (crashed => Exhausted)

LEMMA DirtyRetires ==
  ASSUME NEW t, WellFormed(t), NEW v, NEW pt, Retired(t, pt)
  PROVE  Retired(SetDirty(t, v), pt)
BY SetDirtyEntries DEF Retired

LEMMA InvalidateRetires ==
  ASSUME NEW t, WellFormed(t), NEW v, NEW pt, Retired(t, pt)
  PROVE  Retired(Invalidate(t, v), Minus(pt, v))
<1> DEFINE u == Invalidate(t, v)
<1>1. DOMAIN u.entries = DOMAIN t.entries
  BY DEF Invalidate
<1>2. ASSUME NEW i \in DOMAIN t.entries
      PROVE  u.entries[i].valid \/ u.entries[i].vpn \notin DOMAIN Minus(pt, v)
  <2>1. CASE i \in Matches(t, v)
    <3>1. u.entries[i] = [t.entries[i] EXCEPT !.valid = FALSE]
      BY <2>1 DEF Invalidate
    <3>2. t.entries[i] \in TLBEntry /\ t.entries[i].vpn = v
      BY <2>1, SlotFacts DEF Matches
    <3>3. u.entries[i].vpn = v
      BY <3>1, <3>2 DEF TLBEntry
    <3> QED BY <3>3 DEF Minus
  <2>2. CASE i \notin Matches(t, v)
    <3>1. u.entries[i] = t.entries[i]
      BY <2>2 DEF Invalidate
    <3> QED BY <3>1 DEF Retired, Minus
  <2> QED BY <2>1, <2>2
<1> HIDE DEF u
<1>3. Retired(u, Minus(pt, v))
  BY <1>1, <1>2 DEF Retired
<1> QED BY <1>3 DEF u

(* Each step keeps every slot's page but that of the slot it fills; the    *)
(* page it fills it with is the one that may have come into memory.        *)
LEMMA CachedRetires ==
  ASSUME NEW t, WellFormed(t), NEW v \in VPNs, NEW f \in Frames, NEW write,
         ~InsertRaises(t, v), NEW pt, NEW qt, Retired(t, pt),
         DOMAIN qt \subseteq DOMAIN pt \cup {v}
  PROVE  Retired(Cached(t, v, f, write), qt)
<1> DEFINE u == Insert(t, v, f)
           slot == InsertSlot(t, v)
<1>1. WellFormed(u) /\ InsertedAt(t, u, v, slot)
  BY InsertFacts
<1>2. DOMAIN u.entries \subseteq DOMAIN t.entries \cup {slot}
  <2>1. /\ DOMAIN t.entries = 1..Len(t.entries) /\ Len(t.entries) \in Nat
        /\ t.entries \in Seq(TLBEntry)
    BY SlotFacts
  <2>2. u.entries = IF slot \in DOMAIN t.entries
                      THEN [t.entries EXCEPT ![slot] =
                             [vpn |-> v, pfn |-> f, valid |-> TRUE, dirty |-> FALSE]]
                      ELSE Append(t.entries,
                             [vpn |-> v, pfn |-> f, valid |-> TRUE, dirty |-> FALSE])
    BY DEF Insert
  <2>3. CASE slot \in DOMAIN t.entries
    BY <2>2, <2>3
  <2>4. CASE slot \notin DOMAIN t.entries
    <3>1. DOMAIN u.entries = 1..(Len(t.entries) + 1)
      BY <2>1, <2>2, <2>4
    <3>2. slot \in DOMAIN u.entries
      BY <1>1 DEF InsertedAt
    <3>3. slot = Len(t.entries) + 1
      BY <2>1, <2>4, <3>1, <3>2
    <3> QED BY <2>1, <3>1, <3>3
  <2> QED BY <2>3, <2>4
<1> HIDE DEF u, slot
<1>3. ASSUME NEW i \in DOMAIN u.entries
      PROVE  u.entries[i].valid \/ u.entries[i].vpn \notin DOMAIN qt
  <2>1. CASE i = slot
    BY <1>1, <2>1 DEF InsertedAt
  <2>2. CASE i # slot
    <3>1. i \in DOMAIN t.entries /\ u.entries[i] = t.entries[i]
      BY <1>1, <1>2, <2>2 DEF InsertedAt
    <3>2. t.entries[i].vpn # v
      BY <1>1, <2>2, <3>1 DEF InsertedAt, SlotsOf
    <3> QED BY <3>1, <3>2 DEF Retired
  <2> QED BY <2>1, <2>2
<1>4. Retired(u, qt)
  BY <1>3 DEF Retired
<1>5. Retired(SetDirty(u, v), qt)
  BY <1>1, <1>4, DirtyRetires
<1> QED BY <1>4, <1>5 DEF Cached, u

LEMMA NextRaise == RaiseInv /\ [Next]_vars => RaiseInv'
<1> SUFFICES ASSUME RaiseInv, [Next]_vars PROVE RaiseInv'
  OBVIOUS
<1>1. /\ Parts /\ WellFormed(tlb) /\ SomeoneToDisplace /\ StoresOK
      /\ FramesOwned /\ Retired(tlb, table) /\ (crashed => Exhausted)
      /\ crashed \in BOOLEAN
  BY DEF RaiseInv, Parts, StoresOK
<1>2. Parts'
  BY <1>1, NextIInv
<1>3. ASSUME NEW v \in VPNs, NEW write \in BOOLEAN, NEW c \in Contents,
             TLBHit(v, write, c)
      PROVE  Retired(tlb', table') /\ (crashed' => Exhausted')
  <2>1. /\ Matches(tlb, v) # {} /\ crashed' = FALSE /\ table' = table
        /\ tlb' = IF write THEN SetDirty(Touch(tlb, v), v) ELSE Touch(tlb, v)
    BY <1>1, <1>3 DEF TLBHit
  <2>2. WellFormed(Touch(tlb, v)) /\ Retired(Touch(tlb, v), table)
    BY <1>1, <2>1, TouchFacts DEF Retired
  <2> QED BY <2>1, <2>2, DirtyRetires
<1>4. ASSUME NEW v \in VPNs, NEW write \in BOOLEAN, NEW c \in Contents,
             WalkHit(v, write, c)
      PROVE  Retired(tlb', table') /\ (crashed' => Exhausted')
  <2>1. /\ v \in Resident /\ ~crashed /\ crashed' = FALSE
        /\ tlb' = Cached(tlb, v, table[v].pfn, write)
        /\ table' = WriteBack(table, DisplacedDirty(tlb, v))
    BY <1>1, <1>4 DEF WalkHit
  <2>2. ~InsertRaises(tlb, v) /\ table[v].pfn \in Frames
    BY <1>1, <2>1, NoRaise DEF StoresOK, PTE
  <2>3. DOMAIN table' = DOMAIN table
    BY <2>1 DEF WriteBack
  <2> QED BY <1>1, <2>1, <2>2, <2>3, CachedRetires
<1>5. ASSUME NEW v \in VPNs, NEW write \in BOOLEAN, NEW c \in Contents,
             FaultFree(v, write, c)
      PROVE  Retired(tlb', table') /\ (crashed' => Exhausted')
  <2>1. /\ ~crashed /\ freeList # << >>
        /\ Install(tlb, table, disk, v, Head(freeList), write, c)
    BY <1>5 DEF FaultFree
  <2>2. ~InsertRaises(tlb, v) /\ Head(freeList) \in Frames
    BY <1>1, <2>1, NoRaise DEF StoresOK
  <2>3. /\ tlb' = Cached(tlb, v, Head(freeList), write) /\ crashed' = FALSE
        /\ DOMAIN table' = DOMAIN table \cup {v}
    BY <1>1, <2>1, <2>2 DEF Install, WriteBack, With
  <2> QED BY <1>1, <2>2, <2>3, CachedRetires
<1>6. ASSUME NEW v \in VPNs, NEW write \in BOOLEAN, NEW c \in Contents,
             FaultEvict(v, write, c)
      PROVE  Retired(tlb', table') /\ (crashed' => Exhausted')
  <2> DEFINE victim == owner[TakenFrame]
             t == Invalidate(tlb, victim)
             pt == Minus(table, victim)
  <2>1. /\ ~crashed /\ freeList = << >> /\ freeList' = freeList
        /\ TakenFrame \in Frames
        /\ Install(t, pt, SwapAfterEvict, v, TakenFrame, write, c)
    BY <1>1, <1>6, EvictSetup DEF FaultEvict
  <2>2. WellFormed(t) /\ Retired(t, pt)
    BY <1>1, InvalidateFacts, InvalidateRetires
  <2> HIDE DEF t, pt
  <2>3. CASE InsertRaises(t, v)
    <3>1. tlb' = t /\ DOMAIN table' = DOMAIN pt \cup {v}
      BY <2>1, <2>3 DEF Install, With
    <3>2. /\ IsFull(t) /\ t.order = << >>
          /\ \A i \in DOMAIN t.entries : t.entries[i].vpn # v
      BY <2>3 DEF InsertRaises, MustEvict, SlotsOf
    <3>3. Retired(tlb', table')
      BY <2>2, <3>1, <3>2 DEF Retired
    <3>4. Exhausted'
      BY <2>1, <3>1, <3>2 DEF Exhausted, IsFull
    <3> QED BY <3>3, <3>4
  <2>4. CASE ~InsertRaises(t, v)
    <3>1. /\ tlb' = Cached(t, v, TakenFrame, write) /\ crashed' = FALSE
          /\ DOMAIN table' = DOMAIN pt \cup {v}
      BY <1>1, <2>1, <2>4 DEF Install, WriteBack, With
    <3> QED BY <2>1, <2>2, <2>4, <3>1, CachedRetires
  <2> QED BY <2>3, <2>4
<1>7. CASE UNCHANGED vars
  BY <1>1, <1>2, <1>7 DEF vars, RaiseInv, Retired, Exhausted, IsFull
<1> QED
  <2>1. ASSUME Next PROVE RaiseInv'
    <3>1. PICK v \in VPNs, write \in Stores :
            \E c \in IF write /\ ByteLevel THEN Contents ELSE {Zero} :
              Translate(v, write, c)
      BY <2>1 DEF Next
    <3>2. PICK c \in Contents : Translate(v, write, c)
      BY <3>1, ZeroAssumption
    <3>3. Retired(tlb', table') /\ (crashed' => Exhausted')
      BY <1>3, <1>4, <1>5, <1>6, <3>2, ModeAssumption DEF Translate
    <3> QED BY <1>2, <3>3 DEF RaiseInv
  <2> QED BY <1>7, <2>1

(* Each slot of the TLB names a page of its own, and so does each frame    *)
(* of the pool when none is free.                                          *)
LEMMA ExhaustedPages ==
  ASSUME RaiseInv, crashed
  PROVE  /\ IsFiniteSet(Named) /\ Cardinality(Named) = NumEntries
         /\ IsFiniteSet(Resident) /\ Cardinality(Resident) = Len(AllFree)
         /\ Named \cap Resident = {}
<1>1. /\ WellFormed(tlb) /\ FramesOwned /\ Retired(tlb, table) /\ Exhausted
  BY DEF RaiseInv, Parts
<1>2. Slots = 1..NumEntries
  BY <1>1, SlotFacts, NumEntriesAssumption DEF Exhausted, IsFull, WellFormed, Slots
<1>3. IsFiniteSet(Slots) /\ Cardinality(Slots) = NumEntries
  <2>1. IsFiniteSet(1..NumEntries)
        /\ Cardinality(1..NumEntries) = IF 1 > NumEntries THEN 0 ELSE NumEntries - 1 + 1
    BY FS_Interval, NumEntriesAssumption
  <2> QED BY <1>2, <2>1, NumEntriesAssumption
<1>4. IsFiniteSet(Named) /\ Cardinality(Named) = NumEntries
  <2> DEFINE names == [i \in Slots |-> tlb.entries[i].vpn]
  <2>1. names \in Bijection(Slots, Named)
    <3>1. names \in [Slots -> Named]
      BY DEF Named
    <3>2. \A i, j \in Slots : names[i] = names[j] => i = j
      BY <1>1 DEF WellFormed, Slots
    <3>3. \A v \in Named : \E i \in Slots : names[i] = v
      BY DEF Named
    <3> HIDE DEF names
    <3> QED BY <3>1, <3>2, <3>3, Fun_IsBij
  <2>2. ExistsBijection(Slots, Named)
    BY <2>1 DEF ExistsBijection
  <2> QED BY <1>3, <2>2, FS_Bijection
<1>5. DOMAIN owner = Tracked(AllFree)
  <2>1. Tracked(freeList) = {}
    BY <1>1 DEF Exhausted, Tracked
  <2> QED BY <1>1, <2>1 DEF FramesOwned
<1>6. IsFiniteSet(DOMAIN owner) /\ Cardinality(DOMAIN owner) = Len(AllFree)
  <2>1. /\ StartFrame \in Int /\ NumFrames - 1 \in Int /\ NumFrames - StartFrame \in Nat \ {0}
        /\ DOMAIN owner = StartFrame..(NumFrames - 1)
        /\ Len(AllFree) = NumFrames - StartFrame
    BY <1>5, PoolFacts, NumFramesAssumption
  <2>2. /\ IsFiniteSet(StartFrame..(NumFrames - 1))
        /\ Cardinality(StartFrame..(NumFrames - 1))
             = IF StartFrame > NumFrames - 1 THEN 0 ELSE NumFrames - 1 - StartFrame + 1
    BY <2>1, FS_Interval
  <2> QED BY <2>1, <2>2, NumFramesAssumption
<1>7. IsFiniteSet(Resident) /\ Cardinality(Resident) = Len(AllFree)
  <2> DEFINE pages == [f \in DOMAIN owner |-> owner[f]]
  <2>1. pages \in Bijection(DOMAIN owner, Resident)
    <3>1. pages \in [DOMAIN owner -> Resident]
      BY <1>1 DEF FramesOwned
    <3>2. \A f, g \in DOMAIN owner : pages[f] = pages[g] => f = g
      BY <1>1 DEF FramesOwned
    <3>3. \A v \in Resident : \E f \in DOMAIN owner : pages[f] = v
      BY <1>1 DEF FramesOwned
    <3> HIDE DEF pages
    <3> QED BY <3>1, <3>2, <3>3, Fun_IsBij
  <2>2. ExistsBijection(DOMAIN owner, Resident)
    BY <2>1 DEF ExistsBijection
  <2> QED BY <1>6, <2>2, FS_Bijection
<1>8. Named \cap Resident = {}
  <2>1. ASSUME NEW i \in Slots PROVE ~tlb.entries[i].valid
    <3>1. Live(tlb) = {}
      BY <1>1 DEF WellFormed, Exhausted, Tracked
    <3> QED BY <3>1 DEF Live, Slots
  <2> QED BY <1>1, <2>1 DEF Retired, Named, Slots, Resident
<1> QED BY <1>4, <1>7, <1>8

LEMMA RaiseInvariance == Spec => []RaiseInv
<1>1. Init => RaiseInv
  BY InitIInv DEF Init, EmptyTLB, RaiseInv, Retired
<1> QED BY <1>1, NextRaise, PTL DEF Spec

LEMMA RaiseCount == RaiseInv => RaisesOnlyExhausted
<1> SUFFICES ASSUME RaiseInv, crashed
             PROVE  Cardinality(Named \cup Resident) = NumEntries + Len(AllFree)
  BY DEF RaisesOnlyExhausted
<1>1. /\ IsFiniteSet(Named) /\ Cardinality(Named) = NumEntries
      /\ IsFiniteSet(Resident) /\ Cardinality(Resident) = Len(AllFree)
      /\ Named \cap Resident = {}
  BY ExhaustedPages
<1>2. Cardinality(Named \cup Resident)
        = Cardinality(Named) + Cardinality(Resident) - Cardinality(Named \cap Resident)
  BY <1>1, FS_Union
<1>3. Cardinality(Named \cap Resident) = 0
  BY <1>1, FS_EmptySet
<1> QED BY <1>1, <1>2, <1>3, PoolFacts, NumEntriesAssumption

(* translate raises only when every slot of the TLB names a page evicted   *)
(* since and every frame of the pool backs yet another one.                *)
THEOREM RaiseTheorem == Spec => []RaisesOnlyExhausted
BY RaiseInvariance, RaiseCount, PTL

(* A program that touches fewer pages than the TLB has slots and the pool  *)
(* frames, together, never makes translate raise.                          *)
THEOREM EnoughSlots ==
  ASSUME IsFiniteSet(VPNs), Cardinality(VPNs) < NumEntries + Len(AllFree)
  PROVE  Spec => []~crashed
<1>1. RaiseInv => ~crashed
  <2> SUFFICES ASSUME RaiseInv, crashed PROVE FALSE
    OBVIOUS
  <2>1. Cardinality(Named \cup Resident) = NumEntries + Len(AllFree)
    BY RaiseCount DEF RaisesOnlyExhausted
  <2>2. Named \cup Resident \subseteq VPNs
    <3>1. WellFormed(tlb) /\ Resident \subseteq VPNs
      BY DEF RaiseInv, Parts, StoresOK
    <3>2. \A i \in Slots : tlb.entries[i].vpn \in VPNs
      BY <3>1, SlotFacts DEF Slots, TLBEntry
    <3> QED BY <3>1, <3>2 DEF Named
  <2>3. Cardinality(Named \cup Resident) <= Cardinality(VPNs)
    BY <2>2, FS_Subset
  <2>4. Cardinality(VPNs) \in Nat
    BY FS_CardinalityType
  <2> QED BY <2>1, <2>3, <2>4, PoolFacts, NumEntriesAssumption
<1> QED BY <1>1, RaiseInvariance, PTL

-----------------------------------------------------------------------------
(* The bytes.                                                              *)

(* A page is in memory or in the swap store, never in both, because        *)
(* restore removes the saved copy; without a memory there are no bytes.    *)
SwapApart ==
  /\ Resident \cap Swapped = {}
  /\ ByteLevel = FALSE => Swapped = {} /\ \A f \in Frames : mem[f] = Zero

(* What is in the frame a fault hands out before the access. *)
Loaded(swap, v, f) ==
  IF ByteLevel THEN IF v \in DOMAIN swap THEN swap[v] ELSE Zero ELSE mem[f]

(* What a fault's end does to the bytes. *)
BytesLeft(swap, v, f, write, c) ==
  /\ disk' = Minus(swap, v)
  /\ \A g \in Frames \ {f} : mem'[g] = mem[g]
  /\ mem'[f] = IF write /\ crashed' = FALSE THEN c ELSE Loaded(swap, v, f)
  /\ \/ crashed' = FALSE /\ access' = Access(v, write, mem'[f])
     \/ crashed' = TRUE /\ access' = access

(* A fault's end leaves the bytes of every frame but its own alone.        *)
LEMMA InstallBytes ==
  ASSUME NEW t, NEW pt, NEW swap, FaultReady(t, pt, swap),
         NEW v \in VPNs, v \notin DOMAIN pt, NEW f \in Frames,
         NEW write \in BOOLEAN, NEW c \in Contents,
         Install(t, pt, swap, v, f, write, c)
  PROVE  BytesLeft(swap, v, f, write, c)
<1> DEFINE ready == IF ByteLevel THEN Prepared(swap, v, f) ELSE mem
<1>1. mem \in [Frames -> Contents] /\ crashed = FALSE
  BY DEF FaultReady
<1>2. /\ ready[f] = Loaded(swap, v, f) /\ DOMAIN ready = Frames
      /\ \A g \in Frames \ {f} : ready[g] = mem[g]
  BY <1>1 DEF Prepared, Loaded
<1>3. /\ disk' = Minus(swap, v)
      /\ \/ /\ crashed' = FALSE /\ mem' = Accessed(ready, f, write, c)
            /\ access' = Access(v, write, mem'[f])
         \/ crashed' = TRUE /\ mem' = ready /\ access' = access
  BY <1>1 DEF Install
<1> HIDE DEF ready
<1>4. CASE /\ crashed' = FALSE /\ mem' = Accessed(ready, f, write, c)
           /\ access' = Access(v, write, mem'[f])
  BY <1>2, <1>3, <1>4 DEF Accessed, BytesLeft
<1>5. CASE crashed' = TRUE /\ mem' = ready /\ access' = access
  BY <1>2, <1>3, <1>5 DEF BytesLeft
<1> QED BY <1>3, <1>4, <1>5

(* What the program sees of a step that stores c to v (w) or loads v: the  *)
(* access, or nothing when translate raised, and then nothing was stored.  *)
Answered(v, c, w) ==
  \/ access' = Access(v, w, IF w THEN c ELSE PageOf(v))
  \/ access' = access /\ ~w

(* ... and what the step leaves in the pages of S. *)
Stepped(v, c, w, S) ==
  /\ Answered(v, c, w)
  /\ \A u \in S : PageOf(u)' = IF u = v /\ w THEN c ELSE PageOf(u)

(* A hit, in the TLB or in the page table, changes at most page v's bytes. *)
LEMMA HitBytes ==
  ASSUME Parts, SwapApart, NEW v \in VPNs, NEW write \in BOOLEAN,
         NEW c \in Contents, ByteLevel = FALSE => c = Zero,
         TLBHit(v, write, c) \/ WalkHit(v, write, c)
  PROVE  /\ SwapApart' /\ Resident' = Resident /\ v \in Resident'
         /\ Answered(v, c, write)
         /\ \A u \in VPNs :
              PageOf(u)' = IF u = v /\ write THEN c ELSE PageOf(u)
<1> DEFINE f == table[v].pfn
<1>1. /\ WellFormed(tlb) /\ Agree(tlb, table)
      /\ table \in [Resident -> PTE] /\ Resident \subseteq VPNs
      /\ mem \in [Frames -> Contents] /\ FramesOwned
  BY DEF Parts, StoresOK
<1>2. /\ v \in Resident /\ mem' = Accessed(mem, f, write, c) /\ disk' = disk
      /\ access' = Access(v, write, mem'[f])
      /\ DOMAIN table' = Resident
      /\ \A u \in Resident : table'[u].pfn = table[u].pfn
  <2>1. CASE TLBHit(v, write, c)
    <3>1. /\ Matches(tlb, v) # {} /\ table' = table /\ disk' = disk
          /\ mem' = Accessed(mem, HitFrame(tlb, v), write, c)
          /\ access' = Access(v, write, mem'[HitFrame(tlb, v)])
      BY <2>1 DEF TLBHit
    <3>2. PICK i : i \in Matches(tlb, v)
      BY <3>1
    <3>3. HitSlot(tlb, v) = i /\ i \in Live(tlb) /\ tlb.entries[i].vpn = v
      BY <1>1, <3>2, HitFacts
    <3>4. v \in Resident /\ f = HitFrame(tlb, v)
      BY <1>1, <3>3 DEF Agree, HitFrame, Resident
    <3> QED BY <3>1, <3>4 DEF Resident
  <2>2. CASE WalkHit(v, write, c)
    <3>1. /\ v \in Resident /\ disk' = disk
          /\ mem' = Accessed(mem, f, write, c)
          /\ access' = Access(v, write, mem'[f])
          /\ table' = WriteBack(table, DisplacedDirty(tlb, v))
      BY <2>2 DEF WalkHit
    <3> QED BY <1>1, <3>1, WriteBackFacts DEF Resident
  <2> QED BY <2>1, <2>2
<1>3. /\ f \in Frames /\ \A u \in Resident : table[u].pfn \in Frames
      /\ \A u \in Resident : table[u].pfn = f => u = v
  BY <1>1, <1>2 DEF FramesOwned, PTE
<1> HIDE DEF f
<1>4. /\ mem'[f] = IF write THEN c ELSE mem[f]
      /\ \A g \in Frames \ {f} : mem'[g] = mem[g]
  BY <1>1, <1>2, <1>3 DEF Accessed
<1>5. SwapApart'
  BY <1>2, <1>3, <1>4 DEF SwapApart, Resident, Swapped
<1>6. ASSUME NEW u \in VPNs
      PROVE  PageOf(u)' = IF u = v /\ write THEN c ELSE PageOf(u)
  <2>1. CASE u = v
    BY <1>2, <1>4, <2>1 DEF PageOf, Resident, f
  <2>2. CASE u # v /\ u \in Resident
    <3>1. table'[u].pfn = table[u].pfn /\ table[u].pfn \in Frames \ {f}
      BY <1>2, <1>3, <2>2
    <3> QED BY <1>2, <1>4, <2>2, <3>1 DEF PageOf, Resident
  <2>3. CASE u # v /\ u \notin Resident
    BY <1>2, <2>3 DEF PageOf, Resident, Swapped
  <2> QED BY <2>1, <2>2, <2>3
<1>7. Answered(v, c, write)
  <2>1. mem'[f] = IF write THEN c ELSE PageOf(v)
    BY <1>2, <1>4 DEF PageOf, f
  <2> QED BY <1>2, <2>1 DEF Answered
<1> QED BY <1>2, <1>5, <1>6, <1>7 DEF Resident

(* A fault with a free frame changes at most page v's bytes. *)
LEMMA FreeBytes ==
  ASSUME Parts, SwapApart, NEW v \in VPNs, NEW write \in BOOLEAN,
         NEW c \in Contents, ByteLevel = FALSE => c = Zero,
         FaultFree(v, write, c)
  PROVE  /\ SwapApart' /\ v \in Resident'
         /\ \E w \in BOOLEAN : Stepped(v, c, w, VPNs)
<1> DEFINE f == Head(freeList)
           w == write /\ crashed' = FALSE
<1>1. /\ table \in [Resident -> PTE] /\ Resident \subseteq VPNs
      /\ disk \in [Swapped -> Contents] /\ mem \in [Frames -> Contents]
      /\ freeList \in Seq(Frames) /\ NoRepeats(freeList) /\ FramesOwned
      /\ Tracked(freeList) \cup DOMAIN owner = Tracked(AllFree)
      /\ Tracked(freeList) \cap DOMAIN owner = {}
  BY DEF Parts, StoresOK, FramesOwned
<1>2. v \notin DOMAIN table /\ freeList # << >>
      /\ Install(tlb, table, disk, v, f, write, c)
  BY DEF FaultFree, Resident
<1>3. f \in Frames /\ f \notin DOMAIN owner
  BY <1>1, <1>2, PopFacts
<1>4. FaultReady(tlb, table, disk)
  BY DEF Parts, StoresOK, FaultReady, FaultFree, Resident, Swapped
<1> HIDE DEF f
<1>5. /\ disk' = Minus(disk, v)
      /\ \A g \in Frames \ {f} : mem'[g] = mem[g]
      /\ mem'[f] = IF w THEN c ELSE Loaded(disk, v, f)
      /\ \/ write = w /\ access' = Access(v, write, mem'[f])
         \/ ~w /\ access' = access
  <2>1. BytesLeft(disk, v, f, write, c)
    BY <1>2, <1>3, <1>4, InstallBytes
  <2> QED BY <2>1 DEF BytesLeft
<1>6. /\ DOMAIN table' = Resident \cup {v} /\ table'[v].pfn = f
      /\ \A u \in Resident : table'[u].pfn = table[u].pfn
  <2>1. FaultDone(table, v, f)
    BY <1>2, <1>3, <1>4, InstallFacts
  <2> QED BY <2>1 DEF FaultDone, Resident
<1> HIDE DEF w
<1>7. Loaded(disk, v, f) = PageOf(v)
  BY <1>2, <1>3, ModeAssumption DEF Loaded, PageOf, SwapApart, Resident, Swapped
<1>8. DOMAIN disk' = Swapped \ {v} /\ \A u \in Swapped \ {v} : disk'[u] = disk[u]
  BY <1>5 DEF Minus, Swapped
<1>9. ASSUME NEW u \in VPNs
      PROVE  PageOf(u)' = IF u = v /\ w THEN c ELSE PageOf(u)
  <2>1. CASE u = v
    BY <1>5, <1>6, <1>7, <2>1 DEF PageOf, Resident
  <2>2. CASE u # v /\ u \in Resident
    <3>1. table[u].pfn \in Frames \ {f}
      BY <1>1, <1>3, <2>2 DEF FramesOwned, PTE
    <3> QED BY <1>5, <1>6, <2>2, <3>1 DEF PageOf, Resident
  <2>3. CASE u # v /\ u \notin Resident
    BY <1>6, <1>8, <2>3 DEF PageOf, Resident, Swapped
  <2> QED BY <2>1, <2>2, <2>3
<1>10. SwapApart'
  <2>1. Resident' \cap Swapped' = {}
    BY <1>6, <1>8 DEF SwapApart, Resident, Swapped
  <2>2. ASSUME ByteLevel = FALSE, NEW g \in Frames PROVE mem'[g] = Zero
    BY <1>3, <1>5, <2>2 DEF SwapApart, Loaded
  <2>3. ByteLevel = FALSE => Swapped' = {}
    BY <1>8 DEF SwapApart, Swapped
  <2> QED BY <2>1, <2>2, <2>3 DEF SwapApart
<1>11. Answered(v, c, w)
  BY <1>5, <1>7 DEF Answered
<1>12. w \in BOOLEAN /\ Stepped(v, c, w, VPNs)
  BY <1>9, <1>11 DEF Stepped, w
<1> QED BY <1>6, <1>10, <1>12 DEF Resident

(* An eviction changes page v's bytes and at most turns the victim's into  *)
(* zeros, and that only if no dirty bit is set for it.                     *)
LEMMA EvictBytes ==
  ASSUME Parts, SwapApart, NEW v \in VPNs, NEW write \in BOOLEAN,
         NEW c \in Contents, ByteLevel = FALSE => c = Zero,
         FaultEvict(v, write, c)
  PROVE  /\ SwapApart'
         /\ Resident' = (Resident \ {owner[TakenFrame]}) \cup {v}
         /\ owner[TakenFrame] \in VPNs /\ owner[TakenFrame] # v
         /\ \A u \in VPNs : u = owner[TakenFrame] =>
              \/ PageOf(u)' = PageOf(u)
              \/ PageOf(u)' = Zero /\ ~DirtyAnywhere(u)
         /\ \E w \in BOOLEAN : Stepped(v, c, w, VPNs \ {owner[TakenFrame]})
<1> DEFINE f == TakenFrame
           victim == owner[f]
           t == Invalidate(tlb, victim)
           pt == Minus(table, victim)
           swap == SwapAfterEvict
           w == write /\ crashed' = FALSE
<1>1. /\ table \in [Resident -> PTE] /\ Resident \subseteq VPNs
      /\ disk \in [Swapped -> Contents] /\ mem \in [Frames -> Contents]
      /\ FramesOwned
  BY DEF Parts, StoresOK
<1>2. /\ f \in Frames /\ f \in DOMAIN owner
      /\ victim \in Resident /\ victim \in VPNs /\ table[victim].pfn = f
      /\ DOMAIN pt = Resident \ {victim}
      /\ \A u \in DOMAIN pt : pt[u] = table[u]
      /\ FaultReady(t, pt, swap) /\ Install(t, pt, swap, v, f, write, c)
      /\ FaultDone(pt, v, f)
  BY EvictSetup
<1>3. v \notin Resident
  BY DEF FaultEvict
<1>4. swap = IF ByteLevel /\ DirtyAnywhere(victim)
               THEN With(disk, victim, mem[f]) ELSE disk
  BY <1>2 DEF SwapAfterEvict, DirtyAnywhere, f
<1> HIDE DEF f, victim, t, pt, swap
<1>5. /\ disk' = Minus(swap, v)
      /\ \A g \in Frames \ {f} : mem'[g] = mem[g]
      /\ mem'[f] = IF w THEN c ELSE Loaded(swap, v, f)
      /\ \/ write = w /\ access' = Access(v, write, mem'[f])
         \/ ~w /\ access' = access
  <2>1. v \notin DOMAIN pt
    BY <1>2, <1>3
  <2>2. BytesLeft(swap, v, f, write, c)
    BY <1>2, <2>1, InstallBytes
  <2> QED BY <2>2 DEF BytesLeft
<1>6. /\ DOMAIN table' = (Resident \ {victim}) \cup {v} /\ table'[v].pfn = f
      /\ \A u \in Resident \ {victim} : table'[u].pfn = table[u].pfn
  BY <1>2 DEF FaultDone
<1> HIDE DEF w
<1>7. victim # v
  BY <1>2, <1>3
<1>8. /\ DOMAIN swap \ {victim} = Swapped \ {victim}
      /\ \A u \in Swapped \ {victim} : swap[u] = disk[u]
      /\ victim \in DOMAIN swap
           => ByteLevel /\ DirtyAnywhere(victim) /\ swap[victim] = mem[f]
      /\ ByteLevel /\ DirtyAnywhere(victim) => victim \in DOMAIN swap
      /\ ByteLevel = FALSE => swap = disk
  BY <1>2, <1>4, ModeAssumption DEF With, Swapped, SwapApart
<1>9. /\ DOMAIN disk' = DOMAIN swap \ {v}
      /\ \A u \in DOMAIN swap \ {v} : disk'[u] = swap[u]
  BY <1>5 DEF Minus
<1>10. Loaded(swap, v, f) = PageOf(v)
  <2>1. CASE ByteLevel = TRUE
    BY <1>3, <1>7, <1>8, <2>1 DEF Loaded, PageOf, Swapped
  <2>2. CASE ByteLevel = FALSE
    BY <1>2, <1>3, <2>2 DEF Loaded, PageOf, SwapApart
  <2> QED BY <2>1, <2>2, ModeAssumption
<1>11. ASSUME NEW u \in VPNs \ {victim}
       PROVE  PageOf(u)' = IF u = v /\ w THEN c ELSE PageOf(u)
  <2>1. CASE u = v
    BY <1>5, <1>6, <1>10, <2>1 DEF PageOf, Resident
  <2>2. CASE u # v /\ u \in Resident
    <3>1. table[u].pfn \in Frames \ {f}
      BY <1>1, <1>2, <1>11, <2>2 DEF FramesOwned, PTE
    <3> QED BY <1>5, <1>6, <1>11, <2>2, <3>1 DEF PageOf, Resident
  <2>3. CASE u # v /\ u \notin Resident
    BY <1>6, <1>8, <1>9, <1>11, <2>3 DEF PageOf, Resident, Swapped
  <2> QED BY <2>1, <2>2, <2>3
<1>12. ASSUME NEW u \in VPNs, u = victim
       PROVE  \/ PageOf(u)' = PageOf(u)
              \/ PageOf(u)' = Zero /\ ~DirtyAnywhere(u)
  <2>1. u \notin Resident' /\ PageOf(u) = mem[f] /\ u # v
    BY <1>2, <1>6, <1>7, <1>12 DEF PageOf, Resident
  <2>2. CASE u \in DOMAIN swap
    <3>1. u \in Swapped' /\ disk'[u] = mem[f]
      BY <1>8, <1>9, <1>12, <2>1, <2>2 DEF Swapped
    <3> QED BY <2>1, <3>1 DEF PageOf
  <2>3. CASE u \notin DOMAIN swap
    <3>1. PageOf(u)' = Zero
      BY <1>9, <2>1, <2>3 DEF PageOf, Swapped
    <3>2. CASE ByteLevel = FALSE
      BY <1>2, <2>1, <3>1, <3>2 DEF SwapApart
    <3>3. CASE ByteLevel = TRUE
      BY <1>8, <1>12, <2>3, <3>1, <3>3
    <3> QED BY <3>2, <3>3, ModeAssumption
  <2> QED BY <2>2, <2>3
<1>13. SwapApart'
  <2>1. Resident' \cap Swapped' = {}
    BY <1>6, <1>8, <1>9 DEF SwapApart, Resident, Swapped
  <2>2. ASSUME ByteLevel = FALSE, NEW g \in Frames PROVE mem'[g] = Zero
    BY <1>2, <1>5, <2>2 DEF SwapApart, Loaded
  <2>3. ByteLevel = FALSE => Swapped' = {}
    BY <1>8, <1>9 DEF SwapApart, Swapped
  <2> QED BY <2>1, <2>2, <2>3 DEF SwapApart
<1>14. Answered(v, c, w)
  BY <1>5, <1>10 DEF Answered
<1>15. w \in BOOLEAN /\ Stepped(v, c, w, VPNs \ {victim})
  BY <1>11, <1>14 DEF Stepped, w
<1> QED BY <1>2, <1>6, <1>7, <1>12, <1>13, <1>15 DEF f, victim, Resident

(* The invariant the two results below rest on. *)
BytesInv == Parts /\ SwapApart

(* It is an invariant: a page is never both resident and in the swap store.*)
LEMMA BytesInvariance == Spec => []BytesInv
<1>1. Init => BytesInv
  <2>1. Init => SwapApart
    BY DEF Init, NoKeys, SwapApart, Resident, Swapped
  <2> QED BY <2>1, InitIInv DEF BytesInv
<1>2. BytesInv /\ [Next]_vars => BytesInv'
  <2> SUFFICES ASSUME BytesInv, [Next]_vars PROVE SwapApart'
    BY NextIInv DEF BytesInv
  <2>1. CASE UNCHANGED vars
    BY <2>1 DEF vars, BytesInv, SwapApart, Resident, Swapped
  <2>2. ASSUME NEW v \in VPNs, NEW write \in BOOLEAN, NEW c \in Contents,
               ByteLevel = FALSE => c = Zero, Translate(v, write, c)
        PROVE  SwapApart'
    BY <2>2, HitBytes, FreeBytes, EvictBytes DEF Translate, BytesInv
  <2>3. CASE Next
    <3>1. PICK v \in VPNs, write \in Stores :
            \E c \in IF write /\ ByteLevel THEN Contents ELSE {Zero} :
              Translate(v, write, c)
      BY <2>3 DEF Next
    <3>2. PICK c \in Contents :
            Translate(v, write, c) /\ (ByteLevel = FALSE => c = Zero)
      BY <3>1, ZeroAssumption, ModeAssumption
    <3> QED BY <2>2, <3>2, ModeAssumption
  <2> QED BY <2>1, <2>3
<1> QED BY <1>1, <1>2, PTL DEF Spec

(* One step of the translator, seen from the pages: at most page v is      *)
(* stored to, the program sees what v holds, and at most one page leaves   *)
(* memory, becoming zeros if it was clean.                                 *)
PageStep(v, c, w, lost) ==
  /\ v \in Resident' /\ Answered(v, c, w)
  /\ lost = {} \/ \E u \in VPNs \ {v} : lost = {u}
  /\ \A u \in VPNs \ lost : PageOf(u)' = IF u = v /\ w THEN c ELSE PageOf(u)
  /\ \A u \in lost : PageOf(u)' = Zero /\ ~DirtyAnywhere(u)

(* Every step is a page step: one access, and at most one page lost.       *)
LEMMA PageSteps ==
  ASSUME BytesInv, Next
  PROVE  \E v \in VPNs, c \in Contents, w \in BOOLEAN, lost \in SUBSET VPNs :
           PageStep(v, c, w, lost)
<1>1. PICK v \in VPNs, write \in BOOLEAN, c \in Contents :
        Translate(v, write, c) /\ (ByteLevel = FALSE => c = Zero)
  BY ZeroAssumption, ModeAssumption DEF Next
<1>2. CASE TLBHit(v, write, c) \/ WalkHit(v, write, c)
  <2>1. /\ v \in Resident' /\ Answered(v, c, write)
        /\ \A u \in VPNs : PageOf(u)' = IF u = v /\ write THEN c ELSE PageOf(u)
    BY <1>1, <1>2, HitBytes DEF BytesInv
  <2>2. PageStep(v, c, write, {})
    BY <2>1 DEF PageStep
  <2> QED BY <2>2
<1>3. CASE FaultFree(v, write, c)
  <2>1. v \in Resident'
    BY <1>1, <1>3, FreeBytes DEF BytesInv
  <2>2. PICK w \in BOOLEAN : Stepped(v, c, w, VPNs)
    BY <1>1, <1>3, FreeBytes DEF BytesInv
  <2>3. PageStep(v, c, w, {})
    BY <2>1, <2>2 DEF PageStep, Stepped
  <2> QED BY <2>3
<1>4. CASE FaultEvict(v, write, c)
  <2>1. PICK w \in BOOLEAN : Stepped(v, c, w, VPNs \ {owner[TakenFrame]})
    BY <1>1, <1>4, EvictBytes DEF BytesInv
  <2>2. PICK x \in VPNs : x = owner[TakenFrame] /\ x # v
    BY <1>1, <1>4, EvictBytes DEF BytesInv
  <2>3. \/ PageOf(x)' = PageOf(x)
        \/ PageOf(x)' = Zero /\ ~DirtyAnywhere(x)
    BY <1>1, <1>4, <2>2, EvictBytes DEF BytesInv
  <2>4. v \in Resident'
    BY <1>1, <1>4, EvictBytes DEF BytesInv
  <2>5. CASE PageOf(x)' = PageOf(x)
    <3>1. \A u \in VPNs : PageOf(u)' = IF u = v /\ w THEN c ELSE PageOf(u)
      BY <2>1, <2>2, <2>5 DEF Stepped
    <3>2. PageStep(v, c, w, {})
      BY <2>1, <2>4, <3>1 DEF PageStep, Stepped
    <3> QED BY <3>2
  <2>6. CASE PageOf(x)' = Zero /\ ~DirtyAnywhere(x)
    <3>1. PageStep(v, c, w, {x})
      <4>1. \A u \in VPNs \ {x} : PageOf(u)' = IF u = v /\ w THEN c ELSE PageOf(u)
        BY <2>1, <2>2 DEF Stepped
      <4>2. \A u \in {x} : PageOf(u)' = Zero /\ ~DirtyAnywhere(u)
        BY <2>6
      <4>3. \E u \in VPNs \ {v} : {x} = {u}
        BY <2>2
      <4> QED BY <2>1, <2>4, <4>1, <4>2, <4>3 DEF PageStep, Stepped
    <3>2. {x} \in SUBSET VPNs
      BY <2>2
    <3> QED BY <3>1, <3>2
  <2> QED BY <2>3, <2>5, <2>6
<1> QED BY <1>1, <1>2, <1>3, <1>4 DEF Translate

-----------------------------------------------------------------------------
(* The dirty marks.                                                        *)

(* A page is dirty somewhere if it is marked in the current tables. *)
LEMMA MarkedIsDirty ==
  /\ \A x : DirtyAnywhere(x) <=> Marked(tlb, table, x)
  /\ \A x : DirtyAnywhere(x)' <=> Marked(tlb', table', x)
BY DEF DirtyAnywhere, Marked, Resident, IsDirty, Matches

(* A step that neither drops a mark of a page of S nor forgets to set one. *)
MarksKept(S) ==
  /\ \A x \in S : DirtyAnywhere(x) => DirtyAnywhere(x)'
  /\ \A x : StoredTo(x)' => DirtyAnywhere(x)'

(* A fault's end keeps the marks of the pages it finds. *)
LEMMA InstallMarks ==
  ASSUME NEW t, NEW pt, NEW swap, FaultReady(t, pt, swap),
         NEW v \in VPNs, v \notin DOMAIN pt, NEW f \in Frames,
         NEW write \in BOOLEAN, NEW c \in Contents,
         Install(t, pt, swap, v, f, write, c),
         NEW S, \A x \in S : DirtyAnywhere(x) => Marked(t, pt, x)
  PROVE  MarksKept(S)
<1> DEFINE row == [pfn |-> f, dirty |-> FALSE]
           pt1 == With(pt, v, row)
<1>1. /\ WellFormed(t) /\ Agree(t, pt) /\ crashed = FALSE
      /\ pt \in [DOMAIN pt -> PTE]
  BY DEF FaultReady
<1>2. Matches(t, v) = {}
  BY <1>1 DEF Agree, Matches, Live
<1>3. /\ pt1 \in [DOMAIN pt1 -> PTE] /\ DOMAIN pt1 = DOMAIN pt \cup {v}
      /\ \A x \in DOMAIN pt : pt1[x] = pt[x]
  BY <1>1 DEF With, PTE
<1>4. \/ /\ ~InsertRaises(t, v) /\ tlb' = Cached(t, v, f, write)
         /\ table' = WriteBack(pt1, DisplacedDirty(t, v))
         /\ access' = Access(v, write, mem'[f])
      \/ crashed' = TRUE /\ tlb' = t /\ table' = pt1
  BY DEF Install
<1> HIDE DEF row, pt1
<1>5. \A x \in S : DirtyAnywhere(x) => Marked(t, pt1, x)
  BY <1>3 DEF Marked
<1>6. CASE /\ ~InsertRaises(t, v) /\ tlb' = Cached(t, v, f, write)
           /\ table' = WriteBack(pt1, DisplacedDirty(t, v))
           /\ access' = Access(v, write, mem'[f])
  <2>1. /\ \A x : Marked(t, pt1, x) => Marked(tlb', table', x)
        /\ write => IsDirty(tlb', v)
    BY <1>1, <1>2, <1>3, <1>6, CachedMarks
  <2>2. DOMAIN table' = DOMAIN pt1
    BY <1>6 DEF WriteBack
  <2>3. \A x : StoredTo(x)' => x = v /\ write
    BY <1>6 DEF StoredTo, Access
  <2>4. \A x : StoredTo(x)' => Marked(tlb', table', x)
    BY <1>3, <2>1, <2>2, <2>3 DEF Marked
  <2> QED BY <1>5, <2>1, <2>4, MarkedIsDirty DEF MarksKept
<1>7. CASE crashed' = TRUE /\ tlb' = t /\ table' = pt1
  BY <1>5, <1>7, MarkedIsDirty DEF MarksKept, StoredTo
<1> QED BY <1>4, <1>6, <1>7

(* A hit keeps every mark; a fault keeps those of the pages that stay.     *)
LEMMA StepMarks ==
  ASSUME Parts, Next
  PROVE  MarksKept(Resident')
<1>1. PICK v \in VPNs, write \in BOOLEAN, c \in Contents :
        Translate(v, write, c)
  BY ZeroAssumption, ModeAssumption DEF Next
<1>2. /\ WellFormed(tlb) /\ Agree(tlb, table) /\ SomeoneToDisplace
      /\ table \in [Resident -> PTE] /\ StoresOK
  BY DEF Parts, StoresOK
<1>3. CASE TLBHit(v, write, c)
  <2>1. /\ Matches(tlb, v) # {} /\ table' = table
        /\ tlb' = IF write THEN SetDirty(Touch(tlb, v), v) ELSE Touch(tlb, v)
        /\ access' = Access(v, write, mem'[HitFrame(tlb, v)])
    BY <1>3 DEF TLBHit
  <2>2. v \in Resident
    BY <1>2, <2>1 DEF Agree, Matches, Live, Resident
  <2>3. /\ WellFormed(Touch(tlb, v)) /\ Matches(Touch(tlb, v), v) # {}
        /\ \A x : IsDirty(tlb, x) => IsDirty(Touch(tlb, v), x)
    BY <1>2, <2>1, TouchFacts, TouchMarks
  <2>4. /\ IsDirty(SetDirty(Touch(tlb, v), v), v)
        /\ \A x : IsDirty(Touch(tlb, v), x)
                    => IsDirty(SetDirty(Touch(tlb, v), v), x)
    BY <2>3, SetDirtyMarks
  <2>5. \A x : Marked(tlb, table, x) => Marked(tlb', table', x)
    BY <2>1, <2>3, <2>4 DEF Marked
  <2>6. \A x : StoredTo(x)' => x = v /\ write
    BY <2>1 DEF StoredTo, Access
  <2>7. \A x : StoredTo(x)' => Marked(tlb', table', x)
    BY <2>1, <2>2, <2>4, <2>6 DEF Marked, Resident
  <2> QED BY <2>5, <2>7, MarkedIsDirty DEF MarksKept
<1>4. CASE WalkHit(v, write, c)
  <2> DEFINE f == table[v].pfn
  <2>1. /\ Matches(tlb, v) = {} /\ v \in Resident /\ crashed = FALSE
        /\ tlb' = Cached(tlb, v, f, write)
        /\ table' = WriteBack(table, DisplacedDirty(tlb, v))
        /\ access' = Access(v, write, mem'[f])
    BY <1>2, <1>4 DEF WalkHit, StoresOK
  <2>2. f \in Frames
    BY <1>2, <2>1 DEF PTE
  <2>3. ~InsertRaises(tlb, v)
    BY <1>2, <2>1, NoRaise
  <2>4. \A x : StoredTo(x)' => x = v /\ write
    BY <2>1 DEF StoredTo, Access
  <2> HIDE DEF f
  <2>5. table \in [DOMAIN table -> PTE]
    BY <1>2 DEF Resident
  <2>6. /\ \A x : Marked(tlb, table, x) => Marked(tlb', table', x)
        /\ write => IsDirty(tlb', v)
    BY <1>2, <2>1, <2>2, <2>3, <2>5, CachedMarks
  <2>7. v \in DOMAIN table'
    BY <2>1 DEF WriteBack, Resident
  <2>8. \A x : StoredTo(x)' => Marked(tlb', table', x)
    BY <2>4, <2>6, <2>7 DEF Marked
  <2> QED BY <2>6, <2>8, MarkedIsDirty DEF MarksKept
<1>5. CASE FaultFree(v, write, c)
  <2> DEFINE f == Head(freeList)
  <2>1. /\ crashed = FALSE /\ v \notin DOMAIN table /\ freeList # << >>
        /\ Install(tlb, table, disk, v, f, write, c)
    BY <1>2, <1>5 DEF FaultFree, StoresOK, Resident
  <2>2. f \in Frames
    <3>1. freeList \in Seq(Frames) /\ NoRepeats(freeList)
      BY DEF Parts, StoresOK, FramesOwned
    <3> QED BY <2>1, <3>1, PopFacts
  <2>3. FaultReady(tlb, table, disk)
    BY <1>2, <2>1 DEF StoresOK, FaultReady, Resident, Swapped
  <2> HIDE DEF f
  <2>4. \A x \in Resident' : DirtyAnywhere(x) => Marked(tlb, table, x)
    BY MarkedIsDirty
  <2> QED BY <2>1, <2>2, <2>3, <2>4, InstallMarks
<1>6. CASE FaultEvict(v, write, c)
  <2> DEFINE f == TakenFrame
             victim == owner[f]
             t == Invalidate(tlb, victim)
             pt == Minus(table, victim)
  <2>1. /\ f \in Frames /\ victim \in Resident
        /\ DOMAIN pt = Resident \ {victim}
        /\ \A x \in DOMAIN pt : pt[x] = table[x]
        /\ FaultReady(t, pt, SwapAfterEvict) /\ FaultDone(pt, v, f)
        /\ Install(t, pt, SwapAfterEvict, v, f, write, c)
    BY <1>6, EvictSetup
  <2>2. v \notin Resident
    BY <1>6 DEF FaultEvict
  <2>3. \A x : x # victim /\ IsDirty(tlb, x) => IsDirty(t, x)
    BY <1>2, InvalidateMarks
  <2> HIDE DEF f, victim, t, pt
  <2>4. Resident' = (Resident \ {victim}) \cup {v} /\ v \notin DOMAIN pt
    BY <2>1, <2>2 DEF FaultDone, Resident
  <2>5. \A x \in Resident' : DirtyAnywhere(x) => Marked(t, pt, x)
    BY <2>1, <2>2, <2>3, <2>4 DEF DirtyAnywhere, Marked, Resident
  <2> QED BY <2>1, <2>4, <2>5, InstallMarks
<1> QED BY <1>1, <1>3, <1>4, <1>5, <1>6 DEF Translate

(* Whatever the number of pages, frames and TLB entries, a store marks its *)
(* page dirty, no mark is lost while the page stays in memory, and an      *)
(* eviction never loses a page that is marked.                             *)
THEOREM DirtyPagesNeverLost == Spec => DirtyPagesSurvive
<1> DEFINE Survive == \A v \in VPNs :
      /\ StoredTo(v)' => DirtyAnywhere(v)'
      /\ DirtyAnywhere(v) => IF v \in Resident' THEN DirtyAnywhere(v)'
                                                ELSE PageOf(v)' = PageOf(v)
<1>1. BytesInv /\ [Next]_vars => [Survive]_vars
  <2> SUFFICES ASSUME BytesInv, Next PROVE Survive
    OBVIOUS
  <2>1. PICK v \in VPNs, c \in Contents, w \in BOOLEAN, lost \in SUBSET VPNs :
          PageStep(v, c, w, lost)
    BY PageSteps
  <2>2. \A u \in VPNs : DirtyAnywhere(u) /\ u \notin Resident'
                          => PageOf(u)' = PageOf(u)
    BY <2>1 DEF PageStep
  <2>3. MarksKept(Resident')
    BY StepMarks DEF BytesInv
  <2> QED BY <2>2, <2>3 DEF MarksKept
<1>2. Spec => [][Survive]_vars
  BY <1>1, BytesInvariance, PTL DEF Spec
<1> QED BY <1>2 DEF DirtyPagesSurvive

(* The translator implements the memory that may lose pages: for any       *)
(* number of pages, frames and TLB entries, a load returns what its page   *)
(* holds, and that is what was last stored in it, or zeros, and never the  *)
(* bytes of another page.                                                  *)
THEOREM ImplementsLossyMemory == Spec => NeverForeignBytes
<1> DEFINE pages == [v \in VPNs |-> PageOf(v)]
<1>1. Init => Lossy!Init
  BY DEF Init, NoKeys, Lossy!Init, PageOf, Resident, Swapped
<1>2. BytesInv /\ [Next]_vars => [Lossy!Next]_<<pages, access>>
  <2>1. ASSUME BytesInv, Next PROVE Lossy!Next
    <3>1. PICK v \in VPNs, c \in Contents, w \in BOOLEAN, lost \in SUBSET VPNs :
            PageStep(v, c, w, lost)
      BY <2>1, PageSteps
    <3>2. lost \in {{}} \cup {{u} : u \in VPNs}
      BY <3>1 DEF PageStep
    <3>3. lost \in Lossy!Losses
      BY <3>2 DEF Lossy!Losses
    <3>4. /\ v \notin lost /\ Answered(v, c, w)
          /\ \A u \in VPNs :
               PageOf(u)' = IF u \in lost THEN Zero
                            ELSE IF u = v /\ w THEN c ELSE PageOf(u)
      BY <3>1 DEF PageStep
    <3>5. CASE w
      <4>1. pages' = [[u \in VPNs |-> IF u \in lost THEN Zero ELSE pages[u]]
                       EXCEPT ![v] = c]
        BY <3>4, <3>5
      <4>2. access' = [page |-> v, store |-> TRUE, contents |-> c]
        BY <3>4, <3>5 DEF Answered, Access
      <4>3. Lossy!Store(v, c, lost)
        BY <3>4, <4>1, <4>2 DEF Lossy!Store, Lossy!After
      <4> QED BY <3>3, <4>3 DEF Lossy!Next
    <3>6. CASE ~w
      <4>1. pages' = [u \in VPNs |-> IF u \in lost THEN Zero ELSE pages[u]]
        BY <3>4, <3>6
      <4>2. \/ access' = access
            \/ access' = [page |-> v, store |-> FALSE, contents |-> pages[v]]
        BY <3>4, <3>6 DEF Answered, Access
      <4>3. Lossy!Load(v, lost) \/ Lossy!Fail(lost)
        BY <3>4, <4>1, <4>2 DEF Lossy!Load, Lossy!Fail, Lossy!After
      <4> QED BY <3>3, <4>3 DEF Lossy!Next
    <3> QED BY <3>5, <3>6
  <2>2. CASE UNCHANGED vars
    <3>1. access' = access /\ \A v \in VPNs : PageOf(v)' = PageOf(v)
      BY <2>2 DEF vars, PageOf, Resident, Swapped
    <3> QED BY <3>1
  <2> QED BY <2>1, <2>2
<1>3. Spec => Lossy!Spec
  BY <1>1, <1>2, BytesInvariance, PTL DEF Spec, Lossy!Spec
<1> QED BY <1>3 DEF NeverForeignBytes
-----------------------------------------------------------------------------
(* The order of a list's elements.                                         *)

(* Removing an element leaves the others in their order. *)
LEMMA WithoutOrder ==
  ASSUME NEW S, NEW s, ListOf(S, s), NEW x, NEW a, NEW b
  PROVE  Before(Without(s, x), a, b) <=> Before(s, a, b) /\ a # x /\ b # x
<1>1. s \in Seq(S) /\ NoRepeats(s) /\ DOMAIN s = 1..Len(s) /\ Len(s) \in Nat
  BY DEF ListOf
<1>2. CASE \E i \in DOMAIN s : s[i] = x
  <2>1. PICK p \in DOMAIN s : s[p] = x
    BY <1>2
  <2> DEFINE k == CHOOSE i \in DOMAIN s :
                    /\ s[i] = x
                    /\ \A j \in DOMAIN s : s[j] = x => i <= j
             rest == [j \in 1..(Len(s) - 1) |-> s[IF j < k THEN j ELSE j + 1]]
  <2>2. \A i \in DOMAIN s : s[i] = x <=> i = p
    BY <1>1, <2>1 DEF NoRepeats
  <2>3. k = p
    BY <1>1, <2>1, <2>2
  <2>4. Without(s, x) = rest
    BY <1>2 DEF Without
  <2> HIDE DEF k
  <2>5. /\ DOMAIN rest = 1..(Len(s) - 1)
        /\ \A j \in 1..(Len(s) - 1) : rest[j] = s[IF j < p THEN j ELSE j + 1]
    BY <2>3
  <2> HIDE DEF rest
  <2>6. ASSUME Before(rest, a, b) PROVE Before(s, a, b) /\ a # x /\ b # x
    <3>1. PICK i, j \in 1..(Len(s) - 1) : i < j /\ rest[i] = a /\ rest[j] = b
      BY <2>5, <2>6 DEF Before
    <3> DEFINE m == IF i < p THEN i ELSE i + 1
               n == IF j < p THEN j ELSE j + 1
    <3>2. m \in DOMAIN s /\ n \in DOMAIN s /\ m < n /\ m # p /\ n # p
      BY <1>1, <2>1, <3>1
    <3>3. s[m] = a /\ s[n] = b
      BY <2>5, <3>1
    <3> HIDE DEF m, n
    <3> QED BY <2>2, <3>2, <3>3 DEF Before
  <2>7. ASSUME Before(s, a, b), a # x, b # x PROVE Before(rest, a, b)
    <3>1. PICK i, j \in DOMAIN s : i < j /\ s[i] = a /\ s[j] = b
      BY <2>7 DEF Before
    <3>2. i # p /\ j # p
      BY <2>2, <2>7, <3>1
    <3> DEFINE m == IF i < p THEN i ELSE i - 1
               n == IF j < p THEN j ELSE j - 1
    <3>3. /\ m \in 1..(Len(s) - 1) /\ n \in 1..(Len(s) - 1) /\ m < n
          /\ (IF m < p THEN m ELSE m + 1) = i /\ (IF n < p THEN n ELSE n + 1) = j
      BY <1>1, <2>1, <3>1, <3>2
    <3> HIDE DEF m, n
    <3>4. rest[m] = a /\ rest[n] = b
      BY <2>5, <3>1, <3>3
    <3> QED BY <2>5, <3>3, <3>4 DEF Before
  <2> QED BY <2>4, <2>6, <2>7
<1>3. CASE ~ \E i \in DOMAIN s : s[i] = x
  BY <1>3 DEF Without, Before
<1> QED BY <1>2, <1>3

(* Moving an element to the end puts it after all others. *)
LEMMA MoveToBackOrder ==
  ASSUME NEW S, NEW s, ListOf(S, s), NEW x \in S, NEW a, NEW b
  PROVE  Before(MoveToBack(s, x), a, b) <=>
           \/ Before(s, a, b) /\ a # x /\ b # x
           \/ a \in Tracked(s) \ {x} /\ b = x
<1> DEFINE rest == Without(s, x)
           all == Append(rest, x)
<1>1. rest \in Seq(S) /\ Tracked(rest) = Tracked(s) \ {x}
  BY WithoutFacts DEF ListOf
<1>2. Before(rest, a, b) <=> Before(s, a, b) /\ a # x /\ b # x
  BY WithoutOrder
<1>3. MoveToBack(s, x) = all
  BY DEF MoveToBack
<1> HIDE DEF rest
<1>4. /\ DOMAIN rest = 1..Len(rest) /\ Len(rest) \in Nat
      /\ DOMAIN all = 1..(Len(rest) + 1)
      /\ \A i \in 1..Len(rest) : all[i] = rest[i]
      /\ all[Len(rest) + 1] = x
  BY <1>1
<1> HIDE DEF all
<1>5. ASSUME Before(all, a, b)
      PROVE  Before(rest, a, b) \/ (a \in Tracked(rest) /\ b = x)
  <2>1. PICK i, j \in 1..(Len(rest) + 1) : i < j /\ all[i] = a /\ all[j] = b
    BY <1>4, <1>5 DEF Before
  <2>2. i \in 1..Len(rest) /\ rest[i] = a
    BY <1>4, <2>1
  <2>3. j = Len(rest) + 1 \/ (j \in 1..Len(rest) /\ rest[j] = b)
    BY <1>4, <2>1
  <2> QED BY <1>4, <2>1, <2>2, <2>3 DEF Before, Tracked
<1>6. ASSUME Before(rest, a, b) PROVE Before(all, a, b)
  <2>1. PICK i, j \in 1..Len(rest) : i < j /\ rest[i] = a /\ rest[j] = b
    BY <1>4, <1>6 DEF Before
  <2>2. i \in 1..(Len(rest) + 1) /\ j \in 1..(Len(rest) + 1)
    BY <1>4, <2>1
  <2> QED BY <1>4, <2>1, <2>2 DEF Before
<1>7. ASSUME a \in Tracked(rest), b = x PROVE Before(all, a, b)
  <2>1. PICK i \in 1..Len(rest) : rest[i] = a
    BY <1>4, <1>7 DEF Tracked
  <2>2. i \in 1..(Len(rest) + 1) /\ Len(rest) + 1 \in 1..(Len(rest) + 1)
        /\ i < Len(rest) + 1
    BY <1>4, <2>1
  <2> QED BY <1>4, <1>7, <2>1, <2>2 DEF Before
<1> QED BY <1>1, <1>2, <1>3, <1>5, <1>6, <1>7

-----------------------------------------------------------------------------
(* The TLB's recency list and the program's accesses.                      *)

(* A TLB value's recency list follows the accesses. *)
Follows(t, s) ==
  /\ \A i \in Live(t) : t.entries[i].vpn \in Tracked(s)
  /\ \A i, j \in Live(t) :
       Before(t.order, i, j) => Before(s, t.entries[i].vpn, t.entries[j].vpn)

(* It is enough to look at slots that are live. *)
LEMMA FollowsIsRecency ==
  ASSUME WellFormed(tlb), Follows(tlb, accessed)
  PROVE  TLBOrderIsRecency
<1>1. ASSUME NEW i \in Slots, NEW j \in Slots, Before(tlb.order, i, j)
      PROVE  i \in Live(tlb) /\ j \in Live(tlb)
  BY <1>1 DEF Before, Tracked, WellFormed
<1> QED BY <1>1 DEF Follows, TLBOrderIsRecency

(* Updates that keep the order of the slots and their pages. *)
LEMMA FollowsSame ==
  ASSUME NEW t, NEW s, Follows(t, s), NEW u,
         Live(u) \subseteq Live(t),
         \A i \in Live(u) : u.entries[i].vpn = t.entries[i].vpn,
         \A i, j \in Live(u) : Before(u.order, i, j) => Before(t.order, i, j)
  PROVE  Follows(u, s)
BY DEF Follows

LEMMA DirtyFollows ==
  ASSUME NEW t, WellFormed(t), NEW s, Follows(t, s), NEW v
  PROVE  Follows(SetDirty(t, v), s)
<1> DEFINE u == SetDirty(t, v)
<1>1. u.order = t.order /\ WellFormed(u)
  BY SetDirtyFacts
<1>2. Live(u) = Live(t)
  BY <1>1 DEF WellFormed
<1>3. \A i \in DOMAIN t.entries : u.entries[i].vpn = t.entries[i].vpn
  BY SetDirtyEntries
<1>4. Live(t) \subseteq DOMAIN t.entries
  BY DEF Live
<1> HIDE DEF u
<1>5. Follows(u, s)
  BY <1>1, <1>2, <1>3, <1>4, FollowsSame
<1> QED BY <1>5 DEF u

LEMMA InvalidateFollows ==
  ASSUME NEW t, WellFormed(t), NEW s, Follows(t, s), NEW v
  PROVE  Follows(Invalidate(t, v), s)
<1> DEFINE u == Invalidate(t, v)
<1>1. ASSUME NEW i \in DOMAIN t.entries
      PROVE  /\ i \in DOMAIN u.entries
             /\ u.entries[i].vpn = t.entries[i].vpn
             /\ u.entries[i].valid => t.entries[i].valid
  <2>1. t.entries[i] \in TLBEntry
    BY SlotFacts
  <2> QED BY <2>1 DEF Invalidate, TLBEntry, Matches
<1>2. DOMAIN u.entries = DOMAIN t.entries
  BY DEF Invalidate
<1>3. Live(u) \subseteq Live(t)
  BY <1>1, <1>2 DEF Live
<1>4. \A i \in Live(u) : u.entries[i].vpn = t.entries[i].vpn
  BY <1>1, <1>2 DEF Live
<1>5. u.order = t.order \/ u.order = Without(t.order, HitSlot(t, v))
  BY DEF Invalidate
<1>6. \A i, j : Before(u.order, i, j) => Before(t.order, i, j)
  <2>1. ListOf(SlotNumbers, t.order)
    BY SlotFacts DEF WellFormed, ListOf
  <2> HIDE DEF u
  <2> QED BY <1>5, <2>1, WithoutOrder
<1> HIDE DEF u
<1>7. Follows(u, s)
  BY <1>3, <1>4, <1>6, FollowsSame
<1> QED BY <1>7 DEF u

(* The slot of the page accessed moves to the end, and the page with it. *)
LEMMA UsedFollows ==
  ASSUME NEW t, WellFormed(t), NEW s, ListOf(VPNs, s), Follows(t, s),
         NEW v \in VPNs, NEW slot \in SlotNumbers, NEW u, WellFormed(u),
         u.order = MoveToBack(t.order, slot), u.entries[slot].vpn = v,
         \A i \in Live(t) \ {slot} :
           u.entries[i].vpn = t.entries[i].vpn /\ t.entries[i].vpn # v
  PROVE  Follows(u, MoveToBack(s, v))
<1>1. ListOf(SlotNumbers, t.order) /\ Tracked(t.order) = Live(t)
  BY SlotFacts DEF WellFormed, ListOf
<1>2. Live(u) = Live(t) \cup {slot}
  BY <1>1, MoveToBackFacts DEF WellFormed
<1>3. Tracked(MoveToBack(s, v)) = Tracked(s) \cup {v}
  BY MoveToBackFacts
<1>4. \A i \in Live(t) \ {slot} : u.entries[i].vpn \in Tracked(s) \ {v}
  BY DEF Follows
<1>5. \A i \in Live(u) : u.entries[i].vpn \in Tracked(MoveToBack(s, v))
  BY <1>2, <1>3, <1>4
<1>6. ASSUME NEW i \in Live(u), NEW j \in Live(u), Before(u.order, i, j)
      PROVE  Before(MoveToBack(s, v), u.entries[i].vpn, u.entries[j].vpn)
  <2>1. \/ Before(t.order, i, j) /\ i # slot /\ j # slot
        \/ i \in Live(t) \ {slot} /\ j = slot
    BY <1>1, <1>6, MoveToBackOrder
  <2>2. CASE Before(t.order, i, j) /\ i # slot /\ j # slot
    <3>1. i \in Live(t) \ {slot} /\ j \in Live(t) \ {slot}
      BY <1>2, <2>2
    <3>2. Before(s, t.entries[i].vpn, t.entries[j].vpn)
      BY <2>2, <3>1 DEF Follows
    <3>3. /\ u.entries[i].vpn = t.entries[i].vpn /\ u.entries[i].vpn # v
          /\ u.entries[j].vpn = t.entries[j].vpn /\ u.entries[j].vpn # v
      BY <3>1
    <3> QED BY <3>2, <3>3, MoveToBackOrder
  <2>3. CASE i \in Live(t) \ {slot} /\ j = slot
    <3>1. u.entries[i].vpn \in Tracked(s) \ {v} /\ u.entries[j].vpn = v
      BY <1>4, <2>3
    <3> QED BY <3>1, MoveToBackOrder
  <2> QED BY <2>1, <2>2, <2>3
<1> QED BY <1>5, <1>6 DEF Follows

(* A page that is accessed without an entry of its own (translate raised). *)
LEMMA RaisedFollows ==
  ASSUME NEW t, NEW s, ListOf(VPNs, s), Follows(t, s), NEW v \in VPNs,
         Matches(t, v) = {}
  PROVE  Follows(t, MoveToBack(s, v))
<1>1. \A i \in Live(t) : t.entries[i].vpn # v
  BY DEF Live, Matches
<1>2. Tracked(MoveToBack(s, v)) = Tracked(s) \cup {v}
  BY MoveToBackFacts
<1>3. \A i, j \in Live(t) :
        Before(t.order, i, j) =>
          Before(MoveToBack(s, v), t.entries[i].vpn, t.entries[j].vpn)
  BY <1>1, MoveToBackOrder DEF Follows
<1> QED BY <1>2, <1>3 DEF Follows

LEMMA TouchFollows ==
  ASSUME NEW t, WellFormed(t), NEW s, ListOf(VPNs, s), Follows(t, s),
         NEW v \in VPNs, Matches(t, v) # {}
  PROVE  Follows(Touch(t, v), MoveToBack(s, v)) /\ WellFormed(Touch(t, v))
<1> DEFINE u == Touch(t, v)
<1>1. PICK slot : slot \in Matches(t, v)
  OBVIOUS
<1>2. /\ Matches(t, v) = {slot} /\ HitSlot(t, v) = slot
      /\ slot \in SlotNumbers /\ t.entries[slot].vpn = v
  BY <1>1, HitFacts
<1>3. WellFormed(u) /\ u.entries = t.entries
  BY TouchFacts
<1>4. u.order = MoveToBack(t.order, slot)
  BY <1>2, SlotFacts DEF Touch
<1>5. \A i \in Live(t) \ {slot} : t.entries[i].vpn # v
  BY <1>2 DEF Live, Matches
<1> HIDE DEF u
<1>6. Follows(u, MoveToBack(s, v))
  BY <1>2, <1>3, <1>4, <1>5, UsedFollows
<1> QED BY <1>3, <1>6 DEF u

LEMMA CachedFollows ==
  ASSUME NEW t, WellFormed(t), NEW s, ListOf(VPNs, s), Follows(t, s),
         NEW v \in VPNs, NEW f \in Frames, NEW write, ~InsertRaises(t, v)
  PROVE  Follows(Cached(t, v, f, write), MoveToBack(s, v))
<1> DEFINE u == Insert(t, v, f)
           slot == InsertSlot(t, v)
<1>1. WellFormed(u) /\ InsertedAt(t, u, v, slot)
  BY InsertFacts
<1>2. u.order = MoveToBack(t.order, slot)
  BY DEF Insert
<1> HIDE DEF u, slot
<1>3. slot \in SlotNumbers /\ u.entries[slot].vpn = v
  BY <1>1, SlotFacts DEF InsertedAt
<1>4. \A i \in Live(t) \ {slot} :
        u.entries[i].vpn = t.entries[i].vpn /\ t.entries[i].vpn # v
  BY <1>1 DEF InsertedAt, SlotsOf, Live
<1>5. Follows(u, MoveToBack(s, v))
  BY <1>1, <1>2, <1>3, <1>4, UsedFollows
<1>6. Follows(SetDirty(u, v), MoveToBack(s, v))
  BY <1>1, <1>5, DirtyFollows
<1> QED BY <1>5, <1>6 DEF Cached, u

-----------------------------------------------------------------------------
(* The program.                                                            *)

HInv == Parts /\ ListOf(VPNs, accessed) /\ Follows(tlb, accessed)

LEMMA InitHInv == HInit => HInv
<1> SUFFICES ASSUME HInit PROVE HInv
  OBVIOUS
<1>1. Parts /\ accessed = << >>
  BY InitIInv DEF HInit
<1>2. ListOf(VPNs, accessed)
  BY <1>1 DEF ListOf, NoRepeats
<1>3. Live(tlb) = {}
  BY DEF HInit, Init, EmptyTLB, Live
<1> QED BY <1>1, <1>2, <1>3 DEF HInv, Follows

(* The end of a fault, from the TLB that evicting left. *)
LEMMA InstallFollows ==
  ASSUME NEW t, WellFormed(t), ListOf(VPNs, accessed), Follows(t, accessed),
         NEW v \in VPNs, Matches(t, v) = {}, NEW f \in Frames,
         NEW pt, NEW swap, NEW write, NEW c,
         Install(t, pt, swap, v, f, write, c)
  PROVE  Follows(tlb', MoveToBack(accessed, v))
<1>1. CASE InsertRaises(t, v)
  <2>1. tlb' = t
    BY <1>1 DEF Install
  <2> QED BY <2>1, RaisedFollows
<1>2. CASE ~InsertRaises(t, v)
  <2>1. tlb' = Cached(t, v, f, write)
    BY <1>2 DEF Install
  <2> QED BY <1>2, <2>1, CachedFollows
<1> QED BY <1>1, <1>2

LEMMA StepFollows ==
  ASSUME HInv, NEW v \in VPNs, NEW write \in BOOLEAN, NEW c \in Contents,
         Translate(v, write, c)
  PROVE  Follows(tlb', MoveToBack(accessed, v))
<1>1. /\ Parts /\ WellFormed(tlb) /\ Agree(tlb, table) /\ SomeoneToDisplace
      /\ StoresOK /\ FramesOwned /\ Follows(tlb, accessed) /\ ListOf(VPNs, accessed)
  BY DEF HInv, Parts
<1>2. CASE TLBHit(v, write, c)
  <2>1. /\ Matches(tlb, v) # {}
        /\ tlb' = IF write THEN SetDirty(Touch(tlb, v), v) ELSE Touch(tlb, v)
    BY <1>2 DEF TLBHit
  <2>2. /\ Follows(Touch(tlb, v), MoveToBack(accessed, v))
        /\ WellFormed(Touch(tlb, v))
    BY <1>1, <2>1, TouchFollows
  <2> QED BY <2>1, <2>2, DirtyFollows
<1>3. CASE WalkHit(v, write, c)
  <2>1. /\ v \in Resident /\ tlb' = Cached(tlb, v, table[v].pfn, write)
        /\ ~crashed
    BY <1>3 DEF WalkHit
  <2>2. table[v].pfn \in Frames
    BY <1>1, <2>1 DEF StoresOK, PTE
  <2>3. ~InsertRaises(tlb, v)
    BY <1>1, <2>1, NoRaise
  <2> QED BY <1>1, <2>1, <2>2, <2>3, CachedFollows
<1>4. CASE FaultFree(v, write, c)
  <2>1. /\ Matches(tlb, v) = {} /\ freeList # << >>
        /\ Install(tlb, table, disk, v, Head(freeList), write, c)
    BY <1>4 DEF FaultFree
  <2>2. Head(freeList) \in Frames
    BY <1>1, <2>1 DEF StoresOK
  <2> QED BY <1>1, <2>1, <2>2, InstallFollows
<1>5. CASE FaultEvict(v, write, c)
  <2> DEFINE t == Invalidate(tlb, owner[TakenFrame])
  <2>1. /\ TakenFrame \in Frames
        /\ Install(t, Minus(table, owner[TakenFrame]), SwapAfterEvict,
                   v, TakenFrame, write, c)
    BY <1>1, <1>5, EvictSetup
  <2>2. WellFormed(t) /\ Follows(t, accessed)
    BY <1>1, InvalidateFacts, InvalidateFollows
  <2>3. Matches(tlb, v) = {}
    BY <1>5 DEF FaultEvict
  <2>4. Matches(t, v) = {}
    BY <2>3 DEF Matches, Invalidate
  <2> HIDE DEF t
  <2> QED BY <1>1, <2>1, <2>2, <2>4, InstallFollows
<1> QED BY <1>2, <1>3, <1>4, <1>5 DEF Translate

LEMMA NextHInv == HInv /\ [HNext]_hvars => HInv'
<1> SUFFICES ASSUME HInv, [HNext]_hvars PROVE HInv'
  OBVIOUS
<1>1. CASE HNext
  <2>1. PICK v \in VPNs, write \in Stores :
          /\ \E c \in IF write /\ ByteLevel THEN Contents ELSE {Zero} :
               Translate(v, write, c)
          /\ accessed' = MoveToBack(accessed, v)
    BY <1>1 DEF HNext
  <2>2. PICK c \in Contents : Translate(v, write, c)
    BY <2>1, ZeroAssumption
  <2>3. Next
    BY <2>1 DEF Next
  <2>4. Parts'
    BY <2>3, NextIInv DEF HInv
  <2>5. ListOf(VPNs, accessed')
    BY <2>1, MoveToBackFacts DEF HInv
  <2>6. Follows(tlb', accessed')
    BY <2>1, <2>2, StepFollows, ModeAssumption
  <2> QED BY <2>4, <2>5, <2>6 DEF HInv
<1>2. CASE UNCHANGED hvars
  <2>1. UNCHANGED vars /\ accessed' = accessed
    BY <1>2 DEF hvars
  <2>2. Parts'
    BY <2>1, NextIInv DEF HInv
  <2>3. tlb' = tlb
    BY <2>1 DEF vars
  <2> QED BY <2>1, <2>2, <2>3 DEF HInv
<1> QED BY <1>1, <1>2

(* The history only records: what holds of Spec holds of HSpec. *)
LEMMA HistoryRecords == HSpec => Spec
<1>1. HInit => Init
  BY DEF HInit
<1>2. [HNext]_hvars => [Next]_vars
  BY DEF HNext, Next, hvars
<1> QED BY <1>1, <1>2, PTL DEF HSpec, Spec

(* The TLB displaces what the program used longest ago: its recency list   *)
(* is the order of the last accesses, for any number of pages, frames and  *)
(* entries, and also once translate has raised (tlb.py:69-74, 88-114,      *)
(* 139-140, 148-156).                                                      *)
THEOREM RecencyTheorem == HSpec => []TLBOrderIsRecency
<1>1. HInv => TLBOrderIsRecency
  BY FollowsIsRecency DEF HInv, Parts
<1> QED BY <1>1, InitHInv, NextHInv, PTL DEF HSpec
=============================================================================
