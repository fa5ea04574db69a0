-------------------------------- MODULE ISA --------------------------------
(***************************************************************************)
(* The machine the pipeline promises: one program counter, one register    *)
(* file, one memory, and instructions executed in program order, each of   *)
(* them whole.  There are no stages, no latencies and no buffers.          *)
(*                                                                         *)
(* A step runs one instruction, and up to two taken branches that follow   *)
(* it: a branch taken in the decode stage leaves the pipeline at once, so  *)
(* by the time the instruction before it completes up to two may be gone.  *)
(***************************************************************************)
EXTENDS Instructions

CONSTANTS
  Programs,  \* instruction memories: sequences of instructions
  Images,    \* data memories after loading: functions from addresses
  Regs       \* register numbers, x0 excepted

VARIABLES prog, pc, regs, mem

vars == <<prog, pc, regs, mem>>

Init ==
  /\ prog \in Programs
  /\ pc = 0
  /\ regs = [r \in Regs |-> 0]
  /\ mem \in Images

Now == [pc |-> pc, regs |-> regs, mem |-> mem]
Running(s) == s.pc < 4 * Len(prog)
InstrAt(s) == prog[s.pc \div 4 + 1]

(* The state after the instruction at s.pc. *)
Exec(s) ==
  LET i == InstrAt(s)
      a == Read(s.regs, i.rs1)
      b == Read(s.regs, i.rs2)
      x == Result(i, s.pc, a, b)
  IN [pc |-> IF Redirects(i, a, b) THEN s.pc + i.imm ELSE s.pc + 4,
      regs |-> Updated(s.regs, i, IF i.op = "lw" THEN s.mem[x] ELSE x),
      mem |-> IF i.op = "sw" THEN [s.mem EXCEPT ![x] = Signed(b)] ELSE s.mem]

AtTakenBranch(s) ==
  /\ Running(s)
  /\ TakenBranch(InstrAt(s), Read(s.regs, InstrAt(s).rs1),
                 Read(s.regs, InstrAt(s).rs2))

Reach(s) == pc' = s.pc /\ regs' = s.regs /\ mem' = s.mem

Next ==
  /\ Running(Now)
  /\ UNCHANGED prog
  /\ LET s1 == Exec(Now)
     IN \/ Reach(s1)
        \/ AtTakenBranch(s1) /\ Reach(Exec(s1))
        \/ /\ AtTakenBranch(s1) /\ AtTakenBranch(Exec(s1))
           /\ Reach(Exec(Exec(s1)))

Spec == Init /\ [][Next]_vars
=============================================================================
