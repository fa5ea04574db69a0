------------------------------ MODULE MCParser ------------------------------
(***************************************************************************)
(* Every source of at most MaxLines of these lines.  Memory has room for a *)
(* few values only.                                                        *)
(***************************************************************************)
EXTENDS Parser

CONSTANTS MaxLines, L, D

Source(label, op, arg) == [label |-> label, op |-> op, arg |-> arg]

SourceLines ==
  {Source(None, m, None) : m \in Markers} \cup
  {Source(D, "byte", 1), Source(D, "word", 2),   \* D: .byte 0   D: .word 0 0
   Source(L, None, None),                        \* L:
   Source(L, "plain", None),                     \* L: add x1, x2, x3
   Source(None, "plain", None),                  \* add x1, x2, x3
   Source(None, "jump", L),                      \* j L
   Source(None, "la", D),                        \* la x1, D
   Source(None, "unknown", None)}                \* nop

ShortSources == UNION {[1..n -> SourceLines] : n \in 0..MaxLines}
=============================================================================
