-------------------------------- MODULE TLB --------------------------------
(***************************************************************************)
(* The data TLB (vm/tlb.py) as operators on its value                      *)
(*                                                                         *)
(*   [entries |-> <<[vpn, pfn, valid, dirty], ...>>, order |-> <<slot...>>]*)
(*                                                                         *)
(* entries is the list of slots in slot order, which only ever grows;      *)
(* order is _lru_order, the slots from least to most recently used.  One   *)
(* call of AddressTranslator.translate makes several of these updates in   *)
(* a row, so they are functions of the value and not actions.  The hit and *)
(* miss counters only feed the final report and are left out.              *)
(***************************************************************************)
EXTENDS Recency, FiniteSetsExt

CONSTANT NumEntries  \* TLB.num_entries: slots in the TLB

ASSUME NumEntriesAssumption == NumEntries \in Nat \ {0}

EmptyTLB == [entries |-> << >>, order |-> << >>]

(* Slots holding a valid translation of v: at most one, as SlotsTracked of *)
(* AddressTranslator shows.                                                *)
Matches(tlb, v) ==
  {i \in DOMAIN tlb.entries : tlb.entries[i].valid /\ tlb.entries[i].vpn = v}

(* lookup, when it hits: the frame, and the slot moved to the MRU end. *)
HitSlot(tlb, v) == Min(Matches(tlb, v))
HitFrame(tlb, v) == tlb.entries[HitSlot(tlb, v)].pfn
TouchNot(tlb, v) == tlb  \* faulty variant: first in, first out
Touch(tlb, v) == [tlb EXCEPT !.order = MoveToBack(@, HitSlot(tlb, v))]

(* insert reuses a slot that already names v, valid or not; else appends a *)
(* slot; else takes the least recently used one, and then only one that    *)
(* the recency list still tracks.                                          *)
SlotsOfValid(tlb, v) == Matches(tlb, v)  \* faulty variant: only valid ones
SlotsOf(tlb, v) == {i \in DOMAIN tlb.entries : tlb.entries[i].vpn = v}
IsFullLate(tlb) == Len(tlb.entries) > NumEntries  \* faulty variant
IsFull(tlb) == Len(tlb.entries) >= NumEntries
MustEvict(tlb, v) == SlotsOf(tlb, v) = {} /\ IsFull(tlb)

InsertSlot(tlb, v) ==
  IF SlotsOf(tlb, v) # {} THEN Min(SlotsOf(tlb, v))
  ELSE IF ~IsFull(tlb) THEN Len(tlb.entries) + 1
  ELSE Head(tlb.order)

(* _choose_victim pops from an empty list: Python raises IndexError. *)
InsertRaises(tlb, v) == MustEvict(tlb, v) /\ tlb.order = << >>

Insert(tlb, v, f) ==
  LET slot == InsertSlot(tlb, v)
      entry == [vpn |-> v, pfn |-> f, valid |-> TRUE, dirty |-> FALSE]
  IN [entries |-> IF slot \in DOMAIN tlb.entries
                    THEN [tlb.entries EXCEPT ![slot] = entry]
                    ELSE Append(tlb.entries, entry),
      order |-> MoveToBack(tlb.order, slot)]

(* What insert returns, as a set: the page whose dirty entry it displaced. *)
DisplacedDirty(tlb, v) ==
  {tlb.entries[i].vpn : i \in {j \in DOMAIN tlb.entries :
       MustEvict(tlb, v) /\ j = InsertSlot(tlb, v) /\ tlb.entries[j].dirty}}

(* set_dirty, on the valid entry of v. *)
SetDirty(tlb, v) ==
  [tlb EXCEPT !.entries =
     [i \in DOMAIN @ |-> IF i \in Matches(tlb, v)
                           THEN [@[i] EXCEPT !.dirty = TRUE] ELSE @[i]]]

(* Faulty variant of invalidate: the slot stays valid. *)
InvalidateNot(tlb, v) ==
  [tlb EXCEPT !.order = IF Matches(tlb, v) = {} THEN @
                        ELSE Without(@, HitSlot(tlb, v))]

(* invalidate: the slot keeps its page number and dirty bit, stops being   *)
(* valid and leaves the recency list.  It returns the dirty bit.           *)
Invalidate(tlb, v) ==
  [entries |-> [i \in DOMAIN tlb.entries |->
                  IF i \in Matches(tlb, v)
                    THEN [tlb.entries[i] EXCEPT !.valid = FALSE]
                    ELSE tlb.entries[i]],
   order |-> IF Matches(tlb, v) = {} THEN tlb.order
             ELSE Without(tlb.order, HitSlot(tlb, v))]
IsDirty(tlb, v) == \E i \in Matches(tlb, v) : tlb.entries[i].dirty
=============================================================================
