------------------------------ MODULE Pipeline ------------------------------
(***************************************************************************)
(* The five-stage pipeline: core/simulator.py and core/hazard_unit.py with *)
(* the stages of src/stages, the latches, the store buffer and the fetch   *)
(* buffer.  A step is one clock cycle: one iteration of Simulator.run.     *)
(*                                                                         *)
(* A latch holds the address of its instruction, from which the control    *)
(* signals the code copies along (rd_addr, reg_write, mem_read, ...) are   *)
(* read back, and the values computed so far; a nop latch is Bubble.       *)
(*                                                                         *)
(* What stands behind the stages (the caches, the memory controller, the   *)
(* address translation) appears as the number of cycles an access takes,   *)
(* any of a given set, and as one memory that a store reaches when it      *)
(* leaves the store buffer.  The statistics counters are left out.         *)
(***************************************************************************)
EXTENDS Instructions, FiniteSetsExt

CONSTANTS
  Programs,     \* instruction memories: sequences of instructions
  Images,       \* data memories after loading: functions from addresses
  Regs,         \* register numbers, x0 excepted
  Addrs,        \* addresses of data words
  Forwarding,   \* config forwarding_enabled
  LatencyAdd,   \* config latencies.add
  LatencyMul,   \* config latencies.mul
  LoadTimes,    \* cycles a load may take in MEM
  StoreTimes,   \* cycles a store may take in MEM
  FetchTimes,   \* cycles an instruction fetch may take
  DrainTimes,   \* cycles the store buffer waits for the cache
  MaxSB         \* MemStage.MAX_SB_SIZE

ASSUME PipelineAssumption ==
  /\ Forwarding \in BOOLEAN
  /\ LatencyAdd \in Nat /\ LatencyMul \in Nat
  /\ LoadTimes \subseteq Nat /\ StoreTimes \subseteq Nat
  /\ FetchTimes \subseteq Nat /\ DrainTimes \subseteq Nat
  /\ MaxSB \in Nat \ {0}

(* Instructions, and programs whose branches and jumps stay inside.  *)
RegNumbers == Regs \cup {0, NoReg}
Instrs == [op : RegWriters \cup Branches \cup {"sw"}, rd : RegNumbers,
           rs1 : RegNumbers, rs2 : RegNumbers, imm : Int]

ASSUME ProgramsAssumption ==
  \A p \in Programs :
    /\ p \in Seq(Instrs)
    /\ \A k \in DOMAIN p : p[k].op \in Branches \cup {"jal"} =>
         \E j \in 0..Len(p) : 4 * (k - 1) + p[k].imm = 4 * j

(* Data memories hold words. *)
ASSUME ImagesAssumption ==
  \A m \in Images : /\ m \in [Addrs -> Int]
                    /\ \A addr \in Addrs : Signed(m[addr]) = m[addr]

VARIABLES
  prog,          \* InstructionMemory.instructions
  pc,            \* Simulator.pc, not counted beyond the end of the program
  ifId,          \* if_id_latch:  [pc]
  idEx,          \* id_ex_latch:  [pc, a, b, counter]
  exMem,         \* ex_mem_latch: [pc, result, b]
  memWb,         \* mem_wb_latch: [pc, value]
  wbBuffer,      \* Simulator._mem_wb_buffer, Bubble for None
  bubbles,       \* Simulator._mem_bubbles_remaining
  fetchBuf,      \* FetchStage._buffer_instr and _buffer_pc
  fetchPending,  \* FetchStage._pending_if_cycles
  storeBuffer,   \* MemStage.store_buffer
  sbLatency,     \* MemStage.sb_latency_remaining
  regs,          \* RegisterFile
  dmem,          \* data memory, by word
  done           \* Simulator.run has returned

fetchVars == <<pc, ifId, fetchBuf, fetchPending>>
storeVars == <<storeBuffer, sbLatency, dmem>>
vars == <<prog, fetchVars, idEx, exMem, memWb, wbBuffer, bubbles, storeVars,
          regs, done>>

Bubble == [pc |-> -4]
Holds(latch) == latch # Bubble

Init ==
  /\ prog \in Programs
  /\ pc = 0
  /\ ifId = Bubble /\ idEx = Bubble /\ exMem = Bubble /\ memWb = Bubble
  /\ wbBuffer = Bubble /\ bubbles = 0
  /\ fetchBuf = Bubble /\ fetchPending = 0
  /\ storeBuffer = << >> /\ sbLatency = 0
  /\ regs = [r \in Regs |-> 0]
  /\ dmem \in Images
  /\ done = FALSE

End == 4 * Len(prog)
InstrOf(latch) == prog[latch.pc \div 4 + 1]
Is(latch, ops) == Holds(latch) /\ InstrOf(latch).op \in ops
WritesTo(latch, r) ==
  Holds(latch) /\ Produces(InstrOf(latch)) /\ InstrOf(latch).rd = r

-----------------------------------------------------------------------------
(* The hazard unit. *)

(* _check_execution_delays: add and mul hold the EX stage. *)
Latency(latch) == IF Is(latch, {"add"}) THEN LatencyAdd
                  ELSE IF Is(latch, {"mul"}) THEN LatencyMul ELSE 1
ExecuteBusy == Holds(idEx) /\ idEx.counter < Latency(idEx) - 1

(* ... and counts, in the latch. *)
Counted == IF ExecuteBusy THEN [idEx EXCEPT !.counter = @ + 1] ELSE idEx

(* _check_load_use_hazards, _check_branch_hazards. *)
NeedsFrom(latch) ==
  Holds(ifId) /\ \E r \in Sources(InstrOf(ifId)) : WritesTo(latch, r)
LoadUseHazard == Is(idEx, {"lw"}) /\ NeedsFrom(idEx)
BranchHazard ==
  /\ Is(ifId, Branches)
  /\ NeedsFrom(idEx) \/ (Is(exMem, {"lw"}) /\ NeedsFrom(exMem))

(* _check_nonforwarding_hazards; the variant forgets the EX/MEM latch. *)
AnyHazardShort == NeedsFrom(idEx) \/ NeedsFrom(memWb)
AnyHazard == NeedsFrom(idEx) \/ NeedsFrom(exMem) \/ NeedsFrom(memWb)

DecodeHazard ==
  IF Forwarding THEN LoadUseHazard \/ BranchHazard ELSE AnyHazard

(* _get_alu_forwarding and its use by ExecuteStage: the value register r   *)
(* of the instruction in EX is read with, own being what decode read.      *)
FromExMem(r) == WritesTo(exMem, r) /\ ~Is(exMem, {"lw"})
ALUOperand(r, own) ==
  IF Forwarding /\ FromExMem(r) THEN exMem.result
  ELSE IF Forwarding /\ WritesTo(memWb, r) THEN memWb.value
  ELSE own

(* _get_branch_forwarding and its use by DecodeStage, which otherwise      *)
(* reads the registers this cycle's write-back has just updated.           *)
DecodeOperand(r) ==
  IF Forwarding /\ Is(ifId, Branches) /\ FromExMem(r) THEN exMem.result
  ELSE IF Forwarding /\ Is(ifId, Branches) /\ Is(memWb, {"lw"}) /\ WritesTo(memWb, r)
    THEN memWb.value
  ELSE Read(regs', r)

(* MemStage.is_sb_full, on behalf of the store about to enter MEM. *)
SBFullLate == Len(storeBuffer) > MaxSB  \* faulty variant
SBFull == Len(storeBuffer) >= MaxSB

-----------------------------------------------------------------------------
(* The stages, in the order the cycle runs them. *)

WriteBack ==
  regs' = IF Holds(memWb) THEN Updated(regs, InstrOf(memWb), memWb.value)
                          ELSE regs

(* The value a load takes: the youngest store to the address still in the  *)
(* store buffer, as it was given, else what memory holds.                  *)
StoresTo(addr) == {k \in DOMAIN storeBuffer : storeBuffer[k].addr = addr}
LoadedOldest(addr) ==  \* faulty variant
  IF StoresTo(addr) # {} THEN storeBuffer[Min(StoresTo(addr))].value
                         ELSE dmem[addr]
Loaded(addr) ==
  IF StoresTo(addr) # {} THEN storeBuffer[Max(StoresTo(addr))].value
                         ELSE dmem[addr]

(* The MEM stage's output for the instruction in EX/MEM. *)
MemOutput ==
  [pc |-> exMem.pc,
   value |-> IF Is(exMem, {"lw"}) THEN Loaded(exMem.result)
             ELSE IF Produces(InstrOf(exMem)) THEN exMem.result ELSE 0]

(* An access of t cycles: a result of more than one is kept back. *)
DelayedShort(t) ==  \* faulty variant
  IF t > 1 THEN wbBuffer' = MemOutput /\ bubbles' = t - 2 /\ memWb' = Bubble
           ELSE memWb' = MemOutput /\ UNCHANGED <<wbBuffer, bubbles>>
Delayed(t) ==
  IF t > 1 THEN wbBuffer' = MemOutput /\ bubbles' = t - 1 /\ memWb' = Bubble
           ELSE memWb' = MemOutput /\ UNCHANGED <<wbBuffer, bubbles>>

(* Other addresses are outside the program pool's memory. *)
Memory ==
  \/ /\ Is(exMem, {"lw"}) /\ exMem.result \in Addrs
     /\ \E t \in LoadTimes : Delayed(t)
  \/ /\ Is(exMem, {"sw"})
     /\ \E t \in StoreTimes : Delayed(t)
  \/ /\ ~Is(exMem, {"lw", "sw"})
     /\ memWb' = IF Holds(exMem) THEN MemOutput ELSE Bubble
     /\ UNCHANGED <<wbBuffer, bubbles>>

WithStore ==
  IF Is(exMem, {"sw"})
    THEN Append(storeBuffer, [addr |-> exMem.result, value |-> exMem.b])
    ELSE storeBuffer

Execute ==
  LET i == InstrOf(idEx)
      a == ALUOperand(i.rs1, idEx.a)
      b == ALUOperand(i.rs2, idEx.b)
  IN exMem' = IF Holds(idEx)
                THEN [pc |-> idEx.pc, result |-> Result(i, idEx.pc, a, b), b |-> b]
                ELSE Bubble

(* FetchStage.step at address at, with cycles left on the access for buf.  *)
Fetch(at, left, buf) ==
  \/ /\ Holds(buf) /\ left = 0
     /\ ifId' = buf /\ pc' = at + 4
     /\ fetchBuf' = Bubble /\ fetchPending' = 0
  \/ /\ Holds(buf) /\ left > 0
     /\ ifId' = Bubble /\ pc' = at
     /\ fetchBuf' = buf /\ fetchPending' = left
  \/ /\ ~Holds(buf) /\ at >= End
     /\ ifId' = Bubble /\ pc' = End
     /\ fetchBuf' = Bubble /\ fetchPending' = left
  \/ /\ ~Holds(buf) /\ at < End
     /\ \E t \in FetchTimes :
          IF t <= 1
            THEN /\ ifId' = [pc |-> at] /\ pc' = at + 4
                 /\ fetchBuf' = Bubble /\ fetchPending' = left
            ELSE /\ ifId' = Bubble /\ pc' = at
                 /\ fetchBuf' = [pc |-> at] /\ fetchPending' = t - 1

Left == IF fetchPending > 0 THEN fetchPending - 1 ELSE 0

(* A stalled fetch only lets its memory access go on. *)
FetchStalled == fetchPending' = Left /\ UNCHANGED <<pc, ifId, fetchBuf>>

(* Decode, then fetch: a taken branch never leaves decode, jal does, and   *)
(* both send this cycle's fetch to their target, cancelling the pending    *)
(* one.                                                                    *)
DecodeAndFetch ==
  LET i == InstrOf(ifId)
      a == DecodeOperand(i.rs1)
      b == DecodeOperand(i.rs2)
  IN IF ~Holds(ifId) THEN idEx' = Bubble /\ Fetch(pc, Left, fetchBuf)
     ELSE /\ idEx' = IF TakenBranch(i, a, b) THEN Bubble
                     ELSE [pc |-> ifId.pc, a |-> a, b |-> b, counter |-> 0]
          /\ IF Redirects(i, a, b) THEN Fetch(ifId.pc + i.imm, 0, Bubble)
                                   ELSE Fetch(pc, Left, fetchBuf)

(* MemStage.tick, ending the cycle that leaves sb in the store buffer: the *)
(* head store goes to the cache once the one before it has been paid for.  *)
CountdownStuck == sbLatency  \* faulty variant
Countdown == sbLatency - 1
RemainingUnguarded(t) == t - 1  \* faulty variant
Remaining(t) == IF t > 0 THEN t - 1 ELSE 0

Tick(sb) ==
  \/ sbLatency > 0 /\ sbLatency' = Countdown /\ storeBuffer' = sb /\ UNCHANGED dmem
  \/ sbLatency = 0 /\ sb = << >> /\ storeBuffer' = sb /\ UNCHANGED <<sbLatency, dmem>>
  \/ /\ sbLatency = 0 /\ sb # << >> /\ Head(sb).addr \in Addrs
     /\ storeBuffer' = Tail(sb)
     /\ dmem' = [dmem EXCEPT ![Head(sb).addr] = Signed(Head(sb).value)]
     /\ \E t \in DrainTimes : sbLatency' = Remaining(t)

-----------------------------------------------------------------------------
(* _is_pipeline_empty, which looks at the latches and the fetch stage.     *)
EmptyFrontEnd ==  \* faulty variant
  pc >= End /\ ~Holds(fetchBuf) /\ fetchPending = 0 /\ ~Holds(ifId)
Empty ==
  /\ pc >= End /\ ~Holds(fetchBuf) /\ fetchPending = 0
  /\ ~Holds(ifId) /\ ~Holds(idEx) /\ ~Holds(exMem) /\ ~Holds(memWb)

(* What a cycle does is decided by its stall signal. *)
Cycling == ~done /\ ~Empty /\ UNCHANGED <<prog, done>>
SBStalls == Is(exMem, {"sw"}) /\ SBFull

(* The MEM stage waits for memory, everything behind it is frozen. *)
MemoryStall ==
  /\ Cycling /\ bubbles > 0
  /\ WriteBack
  /\ bubbles' = bubbles - 1
  /\ IF bubbles = 1 /\ Holds(wbBuffer)
       THEN memWb' = wbBuffer /\ wbBuffer' = Bubble
       ELSE memWb' = Bubble /\ UNCHANGED wbBuffer
  /\ UNCHANGED <<exMem, idEx>>
  /\ FetchStalled
  /\ Tick(storeBuffer)

(* A store finds the store buffer full: two bubbles, one spent at once. *)
StoreBufferStall ==
  /\ Cycling /\ bubbles = 0 /\ SBStalls
  /\ WriteBack
  /\ bubbles' = 1 /\ memWb' = Bubble
  /\ idEx' = Counted
  /\ UNCHANGED <<exMem, wbBuffer>>
  /\ FetchStalled
  /\ Tick(storeBuffer)

(* The EX stage needs more cycles; MEM and WB go on. *)
ExecuteStall ==
  /\ Cycling /\ bubbles = 0 /\ ~SBStalls /\ ExecuteBusy
  /\ WriteBack
  /\ Memory
  /\ exMem' = Bubble
  /\ idEx' = Counted
  /\ FetchStalled
  /\ Tick(WithStore)

(* The instruction in decode waits for an operand. *)
DecodeStall ==
  /\ Cycling /\ bubbles = 0 /\ ~SBStalls /\ ~ExecuteBusy /\ DecodeHazard
  /\ WriteBack
  /\ Memory
  /\ Execute
  /\ idEx' = Bubble
  /\ FetchStalled
  /\ Tick(WithStore)

Advance ==
  /\ Cycling /\ bubbles = 0 /\ ~SBStalls /\ ~ExecuteBusy /\ ~DecodeHazard
  /\ WriteBack
  /\ Memory
  /\ Execute
  /\ DecodeAndFetch
  /\ Tick(WithStore)

(* An operand on its last cycle of the forwarding path, for an instruction *)
(* that waits in EX and has not got it from anywhere else: the cycle moves *)
(* it on to the registers, which that instruction read before.             *)
LosesOperand ==
  /\ Forwarding /\ bubbles = 0
  /\ Holds(idEx) /\ (SBStalls \/ ExecuteBusy)
  /\ \E r \in Sources(InstrOf(idEx)) : WritesTo(memWb, r) /\ ~WritesTo(exMem, r)

(* What an address holds once the stores in the buffer have reached it. *)
Final(addr) == Signed(Loaded(addr))

(* The loop ends; flush_all empties the store buffer. *)
Finish ==
  /\ ~done /\ Empty
  /\ done' = TRUE
  /\ dmem' = [addr \in Addrs |-> Final(addr)]
  /\ storeBuffer' = << >>
  /\ UNCHANGED <<prog, fetchVars, idEx, exMem, memWb, wbBuffer, bubbles,
                 sbLatency, regs>>

Cycle == MemoryStall \/ StoreBufferStall \/ ExecuteStall \/ DecodeStall \/ Advance

(* The program has exited. *)
Exited == done /\ UNCHANGED vars

Next == Cycle \/ Finish \/ Exited

Spec == Init /\ [][Next]_vars

(* The simulator's loop never pauses. *)
FairSpec == Spec /\ WF_vars(Cycle \/ Finish)
-----------------------------------------------------------------------------
Positions == {4 * k : k \in 0..(Len(prog) - 1)}
AtBubble(latch) == latch = Bubble
Stores == [addr : Int, value : Int]

(* Every latch and buffer holds what its class says it holds. *)
TypeOK ==
  /\ pc \in Positions \cup {End}
  /\ ifId \in [pc : Positions] \cup {Bubble}
  /\ AtBubble(idEx) \/ idEx \in [pc : Positions, a : Int, b : Int, counter : Nat]
  /\ AtBubble(exMem) \/ exMem \in [pc : Positions, result : Int, b : Int]
  /\ AtBubble(memWb) \/ memWb \in [pc : Positions, value : Int]
  /\ AtBubble(wbBuffer) \/ wbBuffer \in [pc : Positions, value : Int]
  /\ bubbles \in Nat
  /\ fetchBuf \in [pc : Positions] \cup {Bubble}
  /\ fetchPending \in Nat
  /\ storeBuffer \in Seq(Stores)
  /\ sbLatency \in Nat
  /\ regs \in [Regs -> Int]
  /\ dmem \in [Addrs -> Int]
  /\ done \in BOOLEAN

(* The store buffer never outgrows MAX_SB_SIZE: the check made on the      *)
(* store in EX/MEM before the cycle holds for the append the MEM stage     *)
(* makes later in it (simulator.py:99-106, mem.py:64-67).                  *)
StoreBufferBounded == Len(storeBuffer) <= MaxSB

(* A result kept back while memory answers is released, once: while one    *)
(* waits there are bubbles left to release it, no result of another        *)
(* instruction is in MEM/WB, and nothing can overwrite it                  *)
(* (simulator.py:121-141).                                                 *)
ResultKeptBack == Holds(wbBuffer) => bubbles > 0 /\ ~Holds(memWb)

(* The architectural state: the oldest instruction not yet through MEM,    *)
(* and the registers and memory the ones before it leave behind.           *)
OldestPc == IF Holds(exMem) THEN exMem.pc
            ELSE IF Holds(idEx) THEN idEx.pc
            ELSE IF Holds(ifId) THEN ifId.pc ELSE pc
Overlaid(rs, latch) ==
  IF Holds(latch) THEN Updated(rs, InstrOf(latch), latch.value) ELSE rs
CommittedRegs == Overlaid(Overlaid(regs, memWb), wbBuffer)

Machine == INSTANCE ISA
  WITH pc <- OldestPc, regs <- CommittedRegs,
       mem <- [addr \in Addrs |-> Final(addr)]

(* Whatever the latencies, the stalls, the forwarding and the buffers do,  *)
(* instructions take effect in program order, each once, with the operands *)
(* and the branch decisions of a machine that runs one at a time           *)
(* (README.md:38-39, 49, 291).                                             *)
Sequential == Machine!Spec

(* The simulation ends when the machine does, and what is printed then is  *)
(* the state the machine ends in: no result is left in a buffer, and no    *)
(* store (README.md:25, simulator.py:50, 70-80, mem.py:26-32).             *)
FinalState == done => Machine!Now = [pc |-> End, regs |-> regs, mem |-> dmem]

(* The addresses behind a program's loads, and where taken branches lead   *)
(* from a set of addresses.                                                *)
BehindLoads(p) == {4 * k : k \in {j \in DOMAIN p : p[j].op = "lw"}}
PastBranch(p, at) ==
  at \cup {4 * (k - 1) + p[k].imm :
             k \in {j \in DOMAIN p : p[j].op \in Branches /\ 4 * (j - 1) \in at}}

(* Programs in which no load is followed by the end, at once or after one  *)
(* or two branches and nothing else.  The loop sees neither a load that is *)
(* kept back nor a branch that decode has taken, so such a program may end *)
(* before its load does.                                                   *)
Settles(p) == 4 * Len(p) \notin PastBranch(p, PastBranch(p, BehindLoads(p)))

(* Every program that the machine finishes, the simulator finishes: no     *)
(* stall signal is raised for ever, the store buffer full and an execute   *)
(* counter not counting among them (simulator.py:50-66).                   *)
Termination == <>done
=============================================================================
