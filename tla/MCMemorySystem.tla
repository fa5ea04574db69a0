--------------------------- MODULE MCMemorySystem ---------------------------
(***************************************************************************)
(* The memory system for TLC: the smallest caches in which a dirty line of *)
(* L1D is displaced while L2 keeps its block, and L2 evicts a block that   *)
(* L1D holds dirty.                                                        *)
(***************************************************************************)
EXTENDS MemorySystem

(* One set each; both policies occur. *)
OneWay == [sets |-> 1, ways |-> 1, policy |-> "LRU", latency |-> 1]
TwoWays == [sets |-> 1, ways |-> 2, policy |-> "LFU", latency |-> 1]

(* Two blocks of data and one of instructions compete for L2. *)
TwoBlocks == {0, 1}
OneBlockProgram == [b \in {2} |-> [c \in Cells |-> <<"instruction", b>>]]
=============================================================================
