------------------------------ MODULE Recency ------------------------------
(***************************************************************************)
(* The recency lists of the simulator: TLB._lru_order,                     *)
(* FrameAllocator._lru_order and CacheSet.lru_order are all Python lists   *)
(* of indices, least recently used first, moved by the same four lines:    *)
(*                                                                         *)
(*     if x in order: order.remove(x)                                      *)
(*     order.append(x)                                                     *)
(***************************************************************************)
EXTENDS Integers, Sequences

(* The list without its (first) occurrence of x: list.remove, guarded by   *)
(* the membership test every caller makes.  It is written index by index,  *)
(* rather than with SequencesExt!RemoveFirst, so that the provers see it.  *)
Without(order, x) ==
  IF \E i \in DOMAIN order : order[i] = x
    THEN LET k == CHOOSE i \in DOMAIN order :
                    /\ order[i] = x
                    /\ \A j \in DOMAIN order : order[j] = x => i <= j
         IN [j \in 1..(Len(order) - 1) |-> order[IF j < k THEN j ELSE j + 1]]
    ELSE order

(* x becomes the most recently used element. *)
MoveToBack(order, x) == Append(Without(order, x), x)

(* The elements the list tracks. *)
Tracked(order) == {order[i] : i \in DOMAIN order}

(* No element is tracked twice. *)
NoRepeats(order) ==
  \A i, j \in DOMAIN order : order[i] = order[j] => i = j
=============================================================================
