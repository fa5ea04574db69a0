--------------------------- MODULE MCCachedPages ---------------------------
(***************************************************************************)
(* Translated accesses for TLC: caches of one line, from which every       *)
(* change of page writes the old one's block back, or an L2 with room for  *)
(* the frames of the instance.                                             *)
(***************************************************************************)
EXTENDS CachedPages

OneWay == [sets |-> 1, ways |-> 1, policy |-> "LRU", latency |-> 1]
TwoWays == [sets |-> 1, ways |-> 2, policy |-> "LRU", latency |-> 1]
NoWait == [sets |-> 1, ways |-> 1, policy |-> "LRU", latency |-> 0]

(* Nothing is left to check once every frame is excluded, for good. *)
SomethingUndisturbed == ~(1 .. NumFrames - 1 \subseteq recycled \cup overtaken)

(* Pages are only ever compared for equality. *)
PageSymmetry == Permutations(VPNs)
=============================================================================
