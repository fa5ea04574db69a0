---------------------------- MODULE Instructions ----------------------------
(***************************************************************************)
(* The instructions (utils/Instruction.py) and what each computes, taken   *)
(* from the decode and execute stages.  "la" computes what "addi" does     *)
(* without a source register, and "j" is "jal x0", so neither has an       *)
(* opcode of its own here.  An instruction is named by the byte address it *)
(* stands at.                                                              *)
(***************************************************************************)
EXTENDS Integers, Sequences

CONSTANT WordHalf  \* half the number of words memory can hold: 2^31

ASSUME WordHalfAssumption == WordHalf \in Nat \ {0}

NoReg == -1  \* Instruction.rd, rs1 or rs2 is None

Instr(op, rd, rs1, rs2, imm) ==
  [op |-> op, rd |-> rd, rs1 |-> rs1, rs2 |-> rs2, imm |-> imm]

Branches == {"beq", "bne"}
RegWriters == {"add", "sub", "mul", "slt", "addi", "lw", "jal"}

(* reg_write, with a destination other than x0. *)
Produces(i) == i.op \in RegWriters /\ i.rd \notin {0, NoReg}
Sources(i) == {i.rs1, i.rs2} \ {NoReg}

(* alu_result.  A Python integer: nothing wraps before it reaches memory.  *)
Result(i, pc, a, b) ==
  CASE i.op = "add" -> a + b
    [] i.op = "mul" -> a * b
    [] i.op \in {"sub"} \cup Branches -> a - b
    [] i.op = "slt" -> IF a < b THEN 1 ELSE 0
    [] i.op \in {"addi", "lw", "sw"} -> a + i.imm
    [] i.op = "jal" -> pc + 4

TakenBranch(i, a, b) ==
  \/ i.op = "beq" /\ a = b
  \/ i.op = "bne" /\ a # b
Redirects(i, a, b) == i.op = "jal" \/ TakenBranch(i, a, b)

(* RegisterFile: x0 and "no register" read as 0 and are never written. *)
Read(regs, r) == IF r \in {0, NoReg} THEN 0 ELSE regs[r]
Updated(regs, i, x) ==
  IF Produces(i) THEN [regs EXCEPT ![i.rd] = x] ELSE regs

(* store_word then read_word: the low bits, read back as a signed word. *)
Signed(x) == ((x + WordHalf) % (2 * WordHalf)) - WordHalf
=============================================================================
