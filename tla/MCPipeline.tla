----------------------------- MODULE MCPipeline -----------------------------
(***************************************************************************)
(* Programs for TLC.  Every sequence over a small menu of instructions is  *)
(* a program of the pool, so that each pair and triple of neighbours that  *)
(* can depend on each other meets every latency.  The sequences start with *)
(* an instruction that puts a word's address in x1 and end with an         *)
(* instruction that does nothing.                                          *)
(***************************************************************************)
EXTENDS Pipeline

CONSTANT MaxBody  \* instructions between the first and the last

Set == Instr("addi", 1, 0, NoReg, 4)
Pad == Instr("addi", 0, 0, NoReg, 0)

Load(rd, rs1, imm) == Instr("lw", rd, rs1, NoReg, imm)
Store(rs2, rs1, imm) == Instr("sw", NoReg, rs1, rs2, imm)

(* Branches and jumps go forward over one instruction, which may be the    *)
(* last one.                                                               *)
Menu == {Load(2, 1, 0), Load(1, 1, 0), Store(2, 1, 0), Store(1, 0, 4),
         Instr("add", 2, 2, 1, NoReg), Instr("mul", 2, 1, 2, NoReg),
         Instr("beq", NoReg, 2, 1, 8), Instr("bne", NoReg, 2, 0, 8),
         Instr("jal", 2, NoReg, NoReg, 8)}

Bodies == UNION {[1..n -> Menu] : n \in 0..MaxBody}

(* A loop: x1 counts down to 0, adding to x2 and storing it. *)
Loop == << Instr("addi", 1, 0, NoReg, 2), Instr("add", 2, 2, 1, NoReg),
           Store(2, 0, 0), Instr("addi", 1, 1, NoReg, -1),
           Instr("bne", NoReg, 1, 0, -12), Pad >>

(* Stores that fill the buffer, with a result on the forwarding path when  *)
(* the last of them finds it full and the instruction i waits behind it.   *)
Burst(i) == << Set, Store(1, 0, 0), Store(1, 0, 4), Store(1, 0, 0),
               Instr("addi", 2, 1, NoReg, 0), Store(1, 0, 4), i, Pad, Pad >>

Pool == {<<Set>> \o body \o <<Pad>> : body \in Bodies}
          \cup {Burst(i) : i \in Menu} \cup {Loop}

(* pipe_forwarding follows a program that settles until it loses an        *)
(* operand: pipe_last_load and pipe_lost_operand show the others.          *)
Followed == Settles(prog) /\ ~LosesOperand

(* Programs that end with a load. *)
EndsWithLoad == {<<Set, Load(2, 0, 0)>>, <<Set, Load(2, 0, 0), Load(1, 1, 0)>>}

Words == {0, 4}
Image == {[addr \in Words |-> 4 - addr]}
=============================================================================
