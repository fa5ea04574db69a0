--------------------------- MODULE PipelineProofs ---------------------------
(***************************************************************************)
(* Theorems about Pipeline, for every program, every set of registers and  *)
(* addresses, every latency and every size of the store buffer.  The last  *)
(* two say that the pipeline implements the sequential machine.            *)
(***************************************************************************)
EXTENDS Pipeline, WellFoundedInduction, TLAPS

-----------------------------------------------------------------------------
(* The invariant of the refinement.                                        *)

(* A load that the store buffer answers takes the value as it was given,   *)
(* not as memory will hold it: the two must agree.                         *)
LoadsWords == Is(exMem, {"lw"}) => Signed(Loaded(exMem.result)) = Loaded(exMem.result)

(* While MEM waits, MEM/WB is empty; else nothing is kept back. *)
KeptBack == IF bubbles = 0 THEN ~Holds(wbBuffer) ELSE ~Holds(memWb)

(* The machine's state before, and after, the instruction in EX/MEM. *)
Now == Machine!Now
AfterMem == IF Holds(exMem) THEN Machine!Exec(Now) ELSE Now

(* Where the front end is: the next instruction to be decoded. *)
FrontPc == IF Holds(ifId) THEN ifId.pc ELSE pc

(* The instruction in EX/MEM has computed what the machine computes. *)
ExecutedRight ==
  Holds(exMem) =>
    LET i == InstrOf(exMem)
    IN /\ exMem.result = Result(i, exMem.pc, Read(Now.regs, i.rs1), Read(Now.regs, i.rs2))
       /\ exMem.b = Read(Now.regs, i.rs2)

(* What decode has read of register r, x, is right, or will be corrected   *)
(* by forwarding before it is used.                                        *)
NotOnItsWay(r) == ~WritesTo(exMem, r) /\ ~WritesTo(memWb, r) /\ ~WritesTo(wbBuffer, r)
OperandRight(r, x) ==
  IF Forwarding
    THEN /\ NotOnItsWay(r) => x = Read(regs, r)
         /\ ~(Is(exMem, {"lw"}) /\ WritesTo(exMem, r))
    ELSE x = Read(AfterMem.regs, r)

DecodedRight ==
  Holds(idEx) =>
    LET i == InstrOf(idEx)
    IN /\ idEx.pc = AfterMem.pc
       /\ OperandRight(i.rs1, idEx.a) /\ OperandRight(i.rs2, idEx.b)

(* The front end is where the machine goes next.  A branch taken in decode *)
(* leaves a bubble between it and the instruction in EX/MEM.               *)
FetchedRight ==
  IF Holds(idEx) THEN Machine!Exec(AfterMem).pc = FrontPc
  ELSE \/ AfterMem.pc = FrontPc
       \/ /\ Holds(exMem) /\ Machine!AtTakenBranch(AfterMem)
          /\ Machine!Exec(AfterMem).pc = FrontPc

InOrder == ExecutedRight /\ DecodedRight /\ FetchedRight
-----------------------------------------------------------------------------
(* Sequences and sets of numbers.                                          *)

LEMMA MaxFacts ==
  ASSUME NEW n \in Nat, NEW S \in SUBSET (1..n), S # {}
  PROVE  Max(S) \in S /\ \A k \in S : Max(S) >= k
<1> DEFINE R == {ss \in Nat \X Nat : ss[1] < ss[2]}
           T == {n - i : i \in S}
<1>1. IsWellFoundedOn(R, Nat)
  BY NatLessThanWellFounded, Zenon DEF OpToRel
<1>2. \A i \in S : i \in Nat /\ n - i \in Nat
  OBVIOUS
<1>3. T \in SUBSET Nat /\ T # {}
  BY <1>2
<1>4. PICK x \in T : \A y \in T : ~(<<y, x>> \in R)
  <2> HIDE DEF R, T
  <2> QED BY <1>1, <1>3, WFMin
<1>5. PICK i \in S : x = n - i
  BY <1>4
<1>6. ASSUME NEW k \in S PROVE i >= k
  <2>1. n - k \in T /\ x \in Nat
    BY <1>3, <1>4
  <2>2. <<n - k, x>> \in Nat \X Nat /\ <<n - k, x>>[1] = n - k /\ <<n - k, x>>[2] = x
    BY <1>2, <2>1
  <2>3. n - k < x => <<n - k, x>> \in R
    BY <2>2
  <2>4. ~(n - k < x)
    BY <1>4, <2>1, <2>3
  <2> QED BY <1>2, <1>5, <2>1, <2>4
<1> QED BY <1>6 DEF Max

(* The value loads find for an address: the store buffer's last, if any.   *)
Newest(sb, m, addr) ==
  LET to == {k \in DOMAIN sb : sb[k].addr = addr}
  IN IF to # {} THEN sb[Max(to)].value ELSE m[addr]

LEMMA LoadedIsNewest ==
  \A addr : Loaded(addr) = Newest(storeBuffer, dmem, addr)
BY DEF Loaded, Newest, StoresTo

(* The largest of a set is the only one that no other exceeds. *)
LEMMA MaxIs ==
  ASSUME NEW n \in Nat, NEW S \in SUBSET (1..n), NEW k \in S, \A j \in S : k >= j
  PROVE  Max(S) = k
<1>1. Max(S) \in S /\ Max(S) >= k
  BY MaxFacts
<1>2. Max(S) \in 1..n /\ k \in 1..n /\ k >= Max(S)
  BY <1>1
<1> QED BY <1>1, <1>2

LEMMA NewestAppended ==
  ASSUME NEW sb \in Seq(Stores), NEW m, NEW store \in Stores, NEW addr
  PROVE  Newest(Append(sb, store), m, addr)
           = IF addr = store.addr THEN store.value ELSE Newest(sb, m, addr)
<1> DEFINE t == Append(sb, store)
           to == {k \in DOMAIN sb : sb[k].addr = addr}
           toT == {k \in DOMAIN t : t[k].addr = addr}
<1>1. /\ Len(sb) \in Nat /\ DOMAIN sb = 1..Len(sb) /\ DOMAIN t = 1..(Len(sb) + 1)
      /\ t[Len(sb) + 1] = store /\ \A k \in DOMAIN sb : t[k] = sb[k]
  OBVIOUS
<1>2. CASE addr = store.addr
  <2>1. Len(sb) + 1 \in toT /\ toT \in SUBSET (1..(Len(sb) + 1))
    BY <1>1, <1>2
  <2>2. \A j \in toT : Len(sb) + 1 >= j
    BY <1>1
  <2>3. Max(toT) = Len(sb) + 1
    <3>1. Len(sb) + 1 \in Nat
      BY <1>1
    <3> HIDE DEF toT
    <3> QED BY <2>1, <2>2, <3>1, MaxIs
  <2> QED BY <1>1, <1>2, <2>1, <2>3 DEF Newest
<1>3. CASE addr # store.addr
  <2>1. toT = to
    BY <1>1, <1>3
  <2>2. to # {} => Max(to) \in DOMAIN sb
    <3>1. to \in SUBSET (1..Len(sb))
      BY <1>1
    <3> QED BY <1>1, <3>1, MaxFacts
  <2>3. to # {} => t[Max(to)] = sb[Max(to)]
    BY <1>1, <2>2
  <2>4. Newest(t, m, addr) = IF to # {} THEN t[Max(to)].value ELSE m[addr]
    BY <2>1 DEF Newest
  <2> QED BY <1>3, <2>3, <2>4 DEF Newest
<1> QED BY <1>2, <1>3

(* Signed gives a word, and leaves words alone. *)
LEMMA SignedFacts == \A x \in Int : Signed(x) \in Int /\ Signed(Signed(x)) = Signed(x)
<1> DEFINE w == 2 * WordHalf
<1>1. WordHalf \in Nat /\ w \in Nat /\ w > 0
  BY WordHalfAssumption
<1> SUFFICES ASSUME NEW x \in Int PROVE Signed(x) \in Int /\ Signed(Signed(x)) = Signed(x)
  OBVIOUS
<1> DEFINE z == (x + WordHalf) % w
<1>2. Signed(x) = z - WordHalf /\ Signed(Signed(x)) = ((z - WordHalf + WordHalf) % w) - WordHalf
  BY DEF Signed
<1>3. z \in 0..(w - 1)
  <2> DEFINE y == x + WordHalf
  <2>1. y \in Int
    BY <1>1
  <2> HIDE DEF w, y
  <2>2. y % w \in 0..(w - 1)
    BY <1>1, <2>1
  <2> QED BY <2>2 DEF y
<1> HIDE DEF z, w
<1>4. z % w = z /\ z \in Int
  BY <1>1, <1>3
<1>5. z - WordHalf + WordHalf = z
  BY <1>1, <1>4
<1> QED BY <1>1, <1>2, <1>4, <1>5

(* Draining the head store moves its value to memory, as a word, where it  *)
(* is found unless a younger store to the address waits.                   *)
LEMMA NewestDrained ==
  ASSUME NEW sb \in Seq(Stores), sb # << >>, NEW m \in [Addrs -> Int], NEW addr \in Addrs
  PROVE  Signed(Newest(Tail(sb), [m EXCEPT ![Head(sb).addr] = Signed(Head(sb).value)], addr))
           = Signed(Newest(sb, m, addr))
<1> DEFINE t == Tail(sb)
           w == [m EXCEPT ![Head(sb).addr] = Signed(Head(sb).value)]
           to == {k \in DOMAIN sb : sb[k].addr = addr}
           toT == {k \in DOMAIN t : t[k].addr = addr}
<1>1. /\ Len(sb) \in Nat /\ DOMAIN sb = 1..Len(sb) /\ Len(sb) > 0
      /\ Len(t) = Len(sb) - 1 /\ DOMAIN t = 1..(Len(sb) - 1)
      /\ \A k \in DOMAIN t : t[k] = sb[k + 1]
      /\ Head(sb) = sb[1]
  OBVIOUS
<1>2. to \in SUBSET (1..Len(sb)) /\ toT \in SUBSET (1..(Len(sb) - 1))
  BY <1>1
<1>3. CASE toT # {}
  <2>1. Max(toT) \in toT /\ \A k \in toT : Max(toT) >= k
    <3>1. Len(sb) - 1 \in Nat
      BY <1>1
    <3> HIDE DEF toT
    <3> QED BY <1>2, <1>3, <3>1, MaxFacts
  <2> DEFINE k == Max(toT)
  <2>2. k \in Nat /\ k + 1 \in to /\ t[k] = sb[k + 1]
    <3>1. \A j \in toT : j \in Nat /\ j + 1 \in to /\ t[j] = sb[j + 1]
      BY <1>1
    <3> HIDE DEF to, toT, t
    <3> QED BY <2>1, <3>1
  <2>3. ASSUME NEW j \in to PROVE k + 1 >= j
    <3>1. j # 1 => j - 1 \in toT
      BY <1>1
    <3>2. j # 1 => k >= j - 1
      BY <2>1, <3>1
    <3>3. j \in Nat
      BY <1>1
    <3> HIDE DEF k
    <3> QED BY <2>2, <3>2, <3>3
  <2>4. Max(to) = k + 1
    <3> HIDE DEF to, k
    <3> QED BY <1>1, <1>2, <2>2, <2>3, MaxIs
  <2>5. Newest(t, w, addr) = t[k].value /\ Newest(sb, m, addr) = sb[k + 1].value
    BY <1>3, <2>2, <2>4 DEF Newest
  <2> QED BY <2>2, <2>5
<1>4. CASE toT = {}
  <2>1. Newest(t, w, addr) = w[addr]
    BY <1>4 DEF Newest
  <2>2. to \in SUBSET {1}
    <3>1. ASSUME NEW j \in to, j # 1 PROVE FALSE
      <4>1. j - 1 \in toT
        BY <1>1, <3>1
      <4> QED BY <1>4, <4>1
    <3> QED BY <3>1
  <2>3. CASE sb[1].addr = addr
    <3>1. 1 \in to
      BY <1>1, <2>3
    <3>2. Max(to) = 1
      <4>1. \A j \in to : 1 >= j
        BY <2>2
      <4> HIDE DEF to
      <4> QED BY <1>1, <1>2, <3>1, <4>1, MaxIs
    <3>3. Newest(sb, m, addr) = sb[1].value
      BY <3>1, <3>2 DEF Newest
    <3>4. w[addr] = Signed(sb[1].value)
      BY <1>1, <2>3
    <3>5. sb[1].value \in Int
      <4>1. sb[1] \in Stores
        BY <1>1
      <4> QED BY <4>1 DEF Stores
    <3> QED BY <2>1, <3>3, <3>4, <3>5, SignedFacts
  <2>4. CASE sb[1].addr # addr
    <3>1. to = {}
      BY <2>2, <2>4
    <3>2. Newest(sb, m, addr) = m[addr]
      BY <3>1 DEF Newest
    <3> QED BY <1>1, <2>1, <2>4, <3>2
  <2> QED BY <2>3, <2>4
<1> QED BY <1>3, <1>4

LEMMA NewestType ==
  ASSUME NEW sb \in Seq(Stores), NEW m \in [Addrs -> Int], NEW addr \in Addrs
  PROVE  Newest(sb, m, addr) \in Int
<1> DEFINE to == {k \in DOMAIN sb : sb[k].addr = addr}
<1>1. Len(sb) \in Nat /\ to \in SUBSET (1..Len(sb))
  OBVIOUS
<1>2. to # {} => Max(to) \in to
  <2> HIDE DEF to
  <2> QED BY <1>1, MaxFacts
<1>3. \A k \in to : sb[k] \in Stores
  OBVIOUS
<1>4. to # {} => sb[Max(to)].value \in Int
  <2> HIDE DEF to
  <2> QED BY <1>2, <1>3 DEF Stores
<1> QED BY <1>4 DEF Newest
-----------------------------------------------------------------------------
(* What instructions read, compute and write.                              *)

LEMMA InstrFacts ==
  ASSUME prog \in Programs, NEW p \in Positions
  PROVE  LET i == prog[p \div 4 + 1]
         IN /\ i \in Instrs
            /\ p \in Nat /\ p < End /\ p + 4 \in Positions \cup {End}
            /\ i.op \in Branches \cup {"jal"} => p + i.imm \in Positions \cup {End}
<1>1. prog \in Seq(Instrs) /\ Len(prog) \in Nat /\ DOMAIN prog = 1..Len(prog)
  BY ProgramsAssumption
<1>2. PICK k \in 0..(Len(prog) - 1) : p = 4 * k
  BY DEF Positions
<1>3. k \in Nat /\ k + 1 \in DOMAIN prog /\ p \div 4 = k /\ p + 4 = 4 * (k + 1)
  BY <1>1, <1>2
<1>4. prog[k + 1] \in Instrs
  BY <1>1, <1>3
<1>5. \A j \in 0..Len(prog) : 4 * j \in Positions \cup {End}
  BY <1>1 DEF Positions, End
<1>6. prog[k + 1].op \in Branches \cup {"jal"} =>
        \E j \in 0..Len(prog) : 4 * k + prog[k + 1].imm = 4 * j
  <2>1. (k + 1) - 1 = k
    BY <1>3
  <2> QED BY <1>3, <2>1, ProgramsAssumption
<1>7. p \in Nat /\ p < End /\ k + 1 \in 0..Len(prog)
  BY <1>1, <1>2, <1>3 DEF End
<1> QED BY <1>2, <1>3, <1>4, <1>5, <1>6, <1>7

LEMMA PositionFacts ==
  ASSUME prog \in Programs
  PROVE  /\ End \in Nat /\ 0 \in Positions \cup {End}
         /\ \A p \in Positions \cup {End} : p \in Nat /\ (p < End <=> p \in Positions)
<1>1. Len(prog) \in Nat
  BY ProgramsAssumption
<1>2. 0 \in Positions \cup {End}
  BY <1>1 DEF Positions, End
<1>3. ~(End < End)
  BY <1>1 DEF End
<1>4. End \notin Positions
  BY <1>1 DEF Positions, End
<1> QED BY <1>1, <1>2, <1>3, <1>4, InstrFacts DEF End

LEMMA ResultType ==
  ASSUME NEW i \in Instrs, NEW p \in Int, NEW a \in Int, NEW b \in Int
  PROVE  Result(i, p, a, b) \in Int
<1>1. i.op \in RegWriters \cup Branches \cup {"sw"} /\ i.imm \in Int
  BY DEF Instrs
<1>2. a + b \in Int /\ a - b \in Int /\ a * b \in Int /\ a + i.imm \in Int /\ p + 4 \in Int
  BY <1>1
<1> DEFINE op == i.op
<1>3. Result(i, p, a, b) \in {a + b, a - b, a * b, a + i.imm, p + 4, 0, 1}
  BY <1>1 DEF Result, RegWriters, Branches
<1> QED BY <1>2, <1>3

LEMMA RegisterTypes ==
  ASSUME NEW rs \in [Regs -> Int]
  PROVE  /\ \A r \in RegNumbers : Read(rs, r) \in Int
         /\ \A i \in Instrs, x \in Int : Updated(rs, i, x) \in [Regs -> Int]
<1>1. ASSUME NEW r \in RegNumbers PROVE Read(rs, r) \in Int
  BY DEF Read, RegNumbers
<1>2. ASSUME NEW i \in Instrs, NEW x \in Int PROVE Updated(rs, i, x) \in [Regs -> Int]
  BY DEF Updated
<1> QED BY <1>1, <1>2

-----------------------------------------------------------------------------
(* Types.  The invariant also says that the program does not change, and   *)
(* that fetch goes on where the last instruction fetched ends.             *)

FetchesNext ==
  /\ Holds(ifId) => pc = ifId.pc + 4
  /\ Holds(fetchBuf) => fetchBuf.pc = pc

Typed == prog \in Programs /\ TypeOK /\ FetchesNext

(* What a latch that holds an instruction holds. *)
Holding(latch) == Holds(latch) =>
  latch.pc \in Positions /\ InstrOf(latch) \in Instrs

LEMMA LatchTypes ==
  ASSUME Typed
  PROVE  /\ Holding(ifId) /\ Holding(idEx) /\ Holding(exMem) /\ Holding(memWb)
         /\ Holding(wbBuffer) /\ Holding(fetchBuf)
         /\ Holds(idEx) => idEx.a \in Int /\ idEx.b \in Int /\ idEx.counter \in Nat
         /\ Holds(exMem) => exMem.result \in Int /\ exMem.b \in Int
         /\ Holds(memWb) => memWb.value \in Int
         /\ Holds(wbBuffer) => wbBuffer.value \in Int
         /\ Holds(ifId) => ifId = [pc |-> ifId.pc]
         /\ Holds(fetchBuf) => fetchBuf = [pc |-> fetchBuf.pc]
<1>1. \A latch : Holds(latch) /\ latch.pc \in Positions => Holding(latch)
  BY InstrFacts DEF Holding, InstrOf, Typed
<1>2. \A latch : ~Holds(latch) => Holding(latch)
  BY DEF Holding
<1>3. Holds(idEx) => /\ idEx.pc \in Positions
                     /\ idEx.a \in Int /\ idEx.b \in Int /\ idEx.counter \in Nat
  BY DEF Typed, TypeOK, Holds, AtBubble
<1>4. Holds(exMem) => exMem.pc \in Positions /\ exMem.result \in Int /\ exMem.b \in Int
  BY DEF Typed, TypeOK, Holds, AtBubble
<1>5. /\ Holds(memWb) => memWb.pc \in Positions /\ memWb.value \in Int
      /\ Holds(wbBuffer) => wbBuffer.pc \in Positions /\ wbBuffer.value \in Int
  BY DEF Typed, TypeOK, Holds, AtBubble
<1>6. /\ Holds(ifId) => ifId.pc \in Positions /\ ifId = [pc |-> ifId.pc]
      /\ Holds(fetchBuf) => fetchBuf.pc \in Positions /\ fetchBuf = [pc |-> fetchBuf.pc]
  BY DEF Typed, TypeOK, Holds
<1> QED BY <1>1, <1>2, <1>3, <1>4, <1>5, <1>6
(* A value in the type of a latch behind a stage. *)
MemWbType == [pc : Positions, value : Int]
Valued(latch) == AtBubble(latch) \/ latch \in MemWbType

LEMMA WriteBackType ==
  ASSUME Typed, WriteBack
  PROVE  regs' \in [Regs -> Int]
<1>1. CASE Holds(memWb)
  <2>1. InstrOf(memWb) \in Instrs /\ memWb.value \in Int
    BY <1>1, LatchTypes DEF Holding
  <2> QED BY <1>1, <2>1, RegisterTypes DEF WriteBack, Typed, TypeOK
<1>2. CASE ~Holds(memWb)
  BY <1>2 DEF WriteBack, Typed, TypeOK
<1> QED BY <1>1, <1>2

LEMMA MemOutputType ==
  ASSUME Typed, Holds(exMem), Is(exMem, {"lw"}) => exMem.result \in Addrs
  PROVE  MemOutput \in MemWbType
<1>1. exMem.pc \in Positions /\ exMem.result \in Int
  BY LatchTypes DEF Holding
<1>2. Is(exMem, {"lw"}) => Loaded(exMem.result) \in Int
  BY NewestType, LoadedIsNewest DEF Typed, TypeOK
<1> QED BY <1>1, <1>2 DEF MemOutput, MemWbType

LEMMA MemoryType ==
  ASSUME Typed, Memory
  PROVE  Valued(memWb') /\ Valued(wbBuffer') /\ bubbles' \in Nat
<1>1. Valued(wbBuffer) /\ bubbles \in Nat
  BY DEF Typed, TypeOK, Valued, MemWbType
<1>2. AtBubble(Bubble)
  BY DEF AtBubble
<1>3. ASSUME NEW t \in Nat, Delayed(t), MemOutput \in MemWbType
      PROVE  Valued(memWb') /\ Valued(wbBuffer') /\ bubbles' \in Nat
  BY <1>1, <1>2, <1>3 DEF Delayed, Valued
<1>4. ASSUME Is(exMem, {"lw"}), exMem.result \in Addrs, \E t \in LoadTimes : Delayed(t)
      PROVE  Valued(memWb') /\ Valued(wbBuffer') /\ bubbles' \in Nat
  <2>1. MemOutput \in MemWbType
    BY <1>4, MemOutputType DEF Is
  <2>2. PICK t \in LoadTimes : Delayed(t)
    BY <1>4
  <2> QED BY <1>3, <2>1, <2>2, PipelineAssumption
<1>5. ASSUME Is(exMem, {"sw"}), \E t \in StoreTimes : Delayed(t)
      PROVE  Valued(memWb') /\ Valued(wbBuffer') /\ bubbles' \in Nat
  <2>1. MemOutput \in MemWbType
    BY <1>5, MemOutputType DEF Is
  <2>2. PICK t \in StoreTimes : Delayed(t)
    BY <1>5
  <2> QED BY <1>3, <2>1, <2>2, PipelineAssumption
<1>6. ASSUME ~Is(exMem, {"lw", "sw"}), UNCHANGED <<wbBuffer, bubbles>>,
             memWb' = IF Holds(exMem) THEN MemOutput ELSE Bubble
      PROVE  Valued(memWb') /\ Valued(wbBuffer') /\ bubbles' \in Nat
  <2>1. Holds(exMem) => MemOutput \in MemWbType
    BY <1>6, MemOutputType DEF Is
  <2> QED BY <1>1, <1>2, <1>6, <2>1 DEF Valued
<1> QED BY <1>4, <1>5, <1>6 DEF Memory

LEMMA WithStoreType ==
  ASSUME Typed
  PROVE  WithStore \in Seq(Stores)
<1>1. storeBuffer \in Seq(Stores)
  BY DEF Typed, TypeOK
<1>2. Holds(exMem) => [addr |-> exMem.result, value |-> exMem.b] \in Stores
  BY LatchTypes DEF Stores
<1> QED BY <1>1, <1>2 DEF WithStore, Is

LEMMA TickType ==
  ASSUME Typed, NEW sb \in Seq(Stores), Tick(sb)
  PROVE  storeBuffer' \in Seq(Stores) /\ sbLatency' \in Nat /\ dmem' \in [Addrs -> Int]
<1>1. sbLatency \in Nat /\ dmem \in [Addrs -> Int]
  BY DEF Typed, TypeOK
<1>2. CASE sbLatency > 0 /\ sbLatency' = Countdown /\ storeBuffer' = sb /\ UNCHANGED dmem
  BY <1>1, <1>2 DEF Countdown
<1>3. CASE sbLatency = 0 /\ sb = << >> /\ storeBuffer' = sb /\ UNCHANGED <<sbLatency, dmem>>
  BY <1>1, <1>3
<1>4. CASE /\ sb # << >> /\ storeBuffer' = Tail(sb)
           /\ dmem' = [dmem EXCEPT ![Head(sb).addr] = Signed(Head(sb).value)]
           /\ \E t \in DrainTimes : sbLatency' = Remaining(t)
  <2>1. Head(sb) \in Stores /\ Tail(sb) \in Seq(Stores)
    BY <1>4
  <2>2. Signed(Head(sb).value) \in Int
    BY <2>1, SignedFacts DEF Stores
  <2>3. dmem' \in [Addrs -> Int]
    BY <1>1, <1>4, <2>2
  <2>4. sbLatency' \in Nat
    BY <1>4, PipelineAssumption DEF Remaining
  <2> QED BY <1>4, <2>1, <2>3, <2>4
<1> QED BY <1>2, <1>3, <1>4 DEF Tick

LEMMA OperandTypes ==
  ASSUME Typed, NEW r \in RegNumbers
  PROVE  /\ \A own \in Int : ALUOperand(r, own) \in Int
         /\ regs' \in [Regs -> Int] => DecodeOperand(r) \in Int
<1>1. /\ \A latch : WritesTo(latch, r) => Holds(latch)
      /\ Holds(exMem) => exMem.result \in Int
      /\ Holds(memWb) => memWb.value \in Int
  BY LatchTypes DEF WritesTo
<1>2. FromExMem(r) => exMem.result \in Int
  BY <1>1 DEF FromExMem
<1>3. \A own \in Int : ALUOperand(r, own) \in Int
  BY <1>1, <1>2 DEF ALUOperand
<1>4. regs' \in [Regs -> Int] => Read(regs', r) \in Int
  BY RegisterTypes
<1>5. regs' \in [Regs -> Int] => DecodeOperand(r) \in Int
  BY <1>1, <1>2, <1>4 DEF DecodeOperand
<1> QED BY <1>3, <1>5

LEMMA ExecuteType ==
  ASSUME Typed, Execute
  PROVE  AtBubble(exMem') \/ exMem' \in [pc : Positions, result : Int, b : Int]
<1>1. CASE ~Holds(idEx)
  BY <1>1 DEF Execute, AtBubble
<1>2. CASE Holds(idEx)
  <2> DEFINE i == InstrOf(idEx)
             a == ALUOperand(i.rs1, idEx.a)
             b == ALUOperand(i.rs2, idEx.b)
  <2>1. i \in Instrs /\ idEx.pc \in Positions /\ idEx.a \in Int /\ idEx.b \in Int
    BY <1>2, LatchTypes DEF Holding
  <2>2. a \in Int /\ b \in Int
    BY <2>1, OperandTypes DEF Instrs
  <2>3. idEx.pc \in Int
    BY <2>1, InstrFacts DEF Typed
  <2>4. Result(i, idEx.pc, a, b) \in Int
    BY <2>1, <2>2, <2>3, ResultType
  <2>5. exMem' = [pc |-> idEx.pc, result |-> Result(i, idEx.pc, a, b), b |-> b]
    BY <1>2 DEF Execute
  <2> QED BY <2>1, <2>2, <2>4, <2>5
<1> QED BY <1>1, <1>2
LEMMA FetchFacts ==
  ASSUME prog \in Programs, prog' = prog,
         NEW at \in Positions \cup {End}, NEW left \in Nat,
         NEW buf \in [pc : Positions] \cup {Bubble}, Holds(buf) => buf.pc = at,
         Fetch(at, left, buf)
  PROVE  /\ pc' \in Positions \cup {End} /\ fetchPending' \in Nat
         /\ ifId' \in [pc : Positions] \cup {Bubble}
         /\ fetchBuf' \in [pc : Positions] \cup {Bubble}
         /\ FetchesNext' /\ FrontPc' = at
<1>1. /\ at \in Nat /\ End \in Nat /\ Bubble.pc = -4
      /\ at < End <=> at \in Positions
      /\ at \in Positions => at + 4 \in Positions \cup {End}
      /\ \A p \in Positions : p \in Nat /\ [pc |-> p] \in [pc : Positions] /\ [pc |-> p].pc = p
  BY PositionFacts, InstrFacts DEF Bubble
<1>2. \A p \in Positions : Holds([pc |-> p])
  <2> TAKE p \in Positions
  <2>1. [pc |-> p].pc # Bubble.pc
    BY <1>1
  <2> QED BY <2>1 DEF Holds
<1>3. ~Holds(Bubble)
  BY DEF Holds
<1>4. CASE /\ Holds(buf) /\ ifId' = buf /\ pc' = at + 4
           /\ fetchBuf' = Bubble /\ fetchPending' = 0
  <2>1. buf \in [pc : Positions] /\ at \in Positions
    BY <1>4 DEF Holds
  <2> QED BY <1>1, <1>3, <1>4, <2>1 DEF FetchesNext, FrontPc
<1>5. CASE /\ Holds(buf) /\ ifId' = Bubble /\ pc' = at
           /\ fetchBuf' = buf /\ fetchPending' = left
  BY <1>3, <1>5 DEF FetchesNext, FrontPc
<1>6. CASE /\ at >= End /\ ifId' = Bubble /\ pc' = End
           /\ fetchBuf' = Bubble /\ fetchPending' = left
  <2>1. at = End
    BY <1>1, <1>6
  <2> QED BY <1>3, <1>6, <2>1 DEF FetchesNext, FrontPc
<1>7. ASSUME at < End, NEW t \in FetchTimes,
             IF t <= 1
               THEN /\ ifId' = [pc |-> at] /\ pc' = at + 4
                    /\ fetchBuf' = Bubble /\ fetchPending' = left
               ELSE /\ ifId' = Bubble /\ pc' = at
                    /\ fetchBuf' = [pc |-> at] /\ fetchPending' = t - 1
      PROVE  /\ pc' \in Positions \cup {End} /\ fetchPending' \in Nat
             /\ ifId' \in [pc : Positions] \cup {Bubble}
             /\ fetchBuf' \in [pc : Positions] \cup {Bubble}
             /\ FetchesNext' /\ FrontPc' = at
  <2>1. t \in Nat
    BY PipelineAssumption
  <2>2. at \in Positions
    BY <1>1, <1>7
  <2>3. CASE t <= 1
    BY <1>1, <1>2, <1>3, <1>7, <2>2, <2>3 DEF FetchesNext, FrontPc
  <2>4. CASE ~(t <= 1)
    BY <1>1, <1>3, <1>7, <2>1, <2>2, <2>4 DEF FetchesNext, FrontPc
  <2> QED BY <2>3, <2>4
<1> QED BY <1>4, <1>5, <1>6, <1>7 DEF Fetch

(* Decode and fetch: where the front end goes, and what decode passes on.  *)
LEMMA DecodeFacts ==
  ASSUME Typed, prog' = prog, regs' \in [Regs -> Int], DecodeAndFetch
  PROVE  LET i == InstrOf(ifId)
             a == DecodeOperand(i.rs1)
             b == DecodeOperand(i.rs2)
         IN /\ AtBubble(idEx') \/ idEx' \in [pc : Positions, a : Int, b : Int, counter : Nat]
            /\ pc' \in Positions \cup {End} /\ fetchPending' \in Nat
            /\ ifId' \in [pc : Positions] \cup {Bubble}
            /\ fetchBuf' \in [pc : Positions] \cup {Bubble}
            /\ FetchesNext'
            /\ ~Holds(ifId) => idEx' = Bubble /\ FrontPc' = FrontPc
            /\ Holds(ifId) =>
                 /\ idEx' = IF TakenBranch(i, a, b) THEN Bubble
                            ELSE [pc |-> ifId.pc, a |-> a, b |-> b, counter |-> 0]
                 /\ FrontPc' = IF Redirects(i, a, b) THEN ifId.pc + i.imm ELSE ifId.pc + 4
<1> DEFINE i == InstrOf(ifId)
           a == DecodeOperand(i.rs1)
           b == DecodeOperand(i.rs2)
<1>1. /\ prog \in Programs /\ pc \in Positions \cup {End} /\ Left \in Nat /\ 0 \in Nat
      /\ fetchBuf \in [pc : Positions] \cup {Bubble} /\ (Holds(fetchBuf) => fetchBuf.pc = pc)
      /\ Bubble \in [pc : Positions] \cup {Bubble} /\ ~Holds(Bubble) /\ AtBubble(Bubble)
  BY DEF Typed, TypeOK, FetchesNext, Left, Holds, AtBubble
<1>2. CASE ~Holds(ifId)
  <2>1. idEx' = Bubble /\ Fetch(pc, Left, fetchBuf)
    BY <1>2 DEF DecodeAndFetch
  <2> HIDE DEF i, a, b
  <2> QED BY <1>1, <1>2, <2>1, FetchFacts DEF FrontPc
<1>3. CASE Holds(ifId)
  <2>1. i \in Instrs /\ ifId.pc \in Positions /\ a \in Int /\ b \in Int
    <3>1. i \in Instrs /\ ifId.pc \in Positions
      BY <1>3, LatchTypes DEF Holding
    <3> QED BY <3>1, OperandTypes DEF Instrs
  <2>2. /\ idEx' = IF TakenBranch(i, a, b) THEN Bubble
                   ELSE [pc |-> ifId.pc, a |-> a, b |-> b, counter |-> 0]
        /\ IF Redirects(i, a, b) THEN Fetch(ifId.pc + i.imm, 0, Bubble)
                                 ELSE Fetch(pc, Left, fetchBuf)
    BY <1>3 DEF DecodeAndFetch
  <2>3. Redirects(i, a, b) => ifId.pc + i.imm \in Positions \cup {End}
    <3>1. Redirects(i, a, b) => i.op \in Branches \cup {"jal"}
      BY DEF Redirects, TakenBranch, Branches
    <3> QED BY <1>1, <2>1, <3>1, InstrFacts DEF InstrOf
  <2>4. pc = ifId.pc + 4
    BY <1>3 DEF Typed, FetchesNext
  <2>5. AtBubble(idEx') \/ idEx' \in [pc : Positions, a : Int, b : Int, counter : Nat]
    <3> HIDE DEF i, a, b
    <3> QED BY <1>1, <2>1, <2>2
  <2> HIDE DEF i, a, b
  <2>6. CASE Redirects(i, a, b)
    <3>1. Fetch(ifId.pc + i.imm, 0, Bubble) /\ ifId.pc + i.imm \in Positions \cup {End}
      BY <2>2, <2>3, <2>6
    <3> DEFINE at == ifId.pc + i.imm
    <3> HIDE DEF at
    <3>2. Fetch(at, 0, Bubble) /\ at \in Positions \cup {End}
      BY <3>1 DEF at
    <3>3. /\ pc' \in Positions \cup {End} /\ fetchPending' \in Nat
          /\ ifId' \in [pc : Positions] \cup {Bubble}
          /\ fetchBuf' \in [pc : Positions] \cup {Bubble}
          /\ FetchesNext' /\ FrontPc' = at
      BY <1>1, <3>2, FetchFacts
    <3> QED BY <1>3, <2>2, <2>5, <2>6, <3>3 DEF at, i, a, b
  <2>7. CASE ~Redirects(i, a, b)
    <3>1. Fetch(pc, Left, fetchBuf)
      BY <2>2, <2>7
    <3>2. /\ pc' \in Positions \cup {End} /\ fetchPending' \in Nat
          /\ ifId' \in [pc : Positions] \cup {Bubble}
          /\ fetchBuf' \in [pc : Positions] \cup {Bubble}
          /\ FetchesNext' /\ FrontPc' = pc
      BY <1>1, <3>1, FetchFacts
    <3> QED BY <1>3, <2>2, <2>4, <2>5, <2>7, <3>2 DEF i, a, b
  <2> QED BY <2>6, <2>7
<1> QED BY <1>2, <1>3
-----------------------------------------------------------------------------
(* A cycle, by its stall signal: what it does to each part of the state.   *)

Frozen == MemoryStall \/ StoreBufferStall
Moving == ExecuteStall \/ DecodeStall \/ Advance

LEMMA CycleFacts ==
  /\ Frozen => WriteBack /\ Tick(storeBuffer) /\ FetchStalled /\ UNCHANGED <<prog, done, exMem>>
  /\ Moving => /\ WriteBack /\ Memory /\ Tick(WithStore) /\ UNCHANGED <<prog, done>>
               /\ bubbles = 0 /\ ~SBStalls
  /\ Cycle <=> Frozen \/ Moving
BY DEF Frozen, Moving, MemoryStall, StoreBufferStall, ExecuteStall, DecodeStall, Advance,
       Cycle, Cycling

LEMMA InitTyped == Init => Typed
<1> SUFFICES ASSUME Init PROVE Typed
  OBVIOUS
<1>1. prog \in Programs /\ 0 \in Positions \cup {End} /\ AtBubble(Bubble) /\ ~Holds(Bubble)
  BY PositionFacts DEF Init, AtBubble, Holds
<1>2. dmem \in [Addrs -> Int]
  BY ImagesAssumption DEF Init
<1>3. storeBuffer \in Seq(Stores) /\ regs \in [Regs -> Int]
  BY DEF Init
<1>4. TypeOK
  BY <1>1, <1>2, <1>3 DEF Init, TypeOK
<1>5. FetchesNext
  BY <1>1 DEF Init, FetchesNext
<1> QED BY <1>1, <1>4, <1>5 DEF Typed

LEMMA NextTyped == Typed /\ [Next]_vars => Typed'
<1> SUFFICES ASSUME Typed, [Next]_vars PROVE Typed'
  OBVIOUS
<1>1. prog \in Programs /\ TypeOK /\ FetchesNext
  BY DEF Typed
<1>2. AtBubble(Bubble) /\ ~Holds(Bubble) /\ Valued(Bubble)
  BY DEF AtBubble, Holds, Valued
<1>3. prog' = prog => Positions' = Positions /\ End' = End
  BY DEF Positions, End
<1>4. AtBubble(Counted) \/ Counted \in [pc : Positions, a : Int, b : Int, counter : Nat]
  <2>1. CASE ExecuteBusy
    <3>1. idEx \in [pc : Positions, a : Int, b : Int, counter : Nat]
      BY <1>1, <2>1 DEF ExecuteBusy, Holds, AtBubble, TypeOK
    <3>2. [idEx EXCEPT !.counter = @ + 1] \in [pc : Positions, a : Int, b : Int, counter : Nat]
      BY <3>1
    <3> QED BY <2>1, <3>2 DEF Counted
  <2>2. CASE ~ExecuteBusy
    BY <1>1, <2>2 DEF Counted, TypeOK
  <2> QED BY <2>1, <2>2
<1>5. FetchStalled => /\ pc' \in Positions \cup {End} /\ fetchPending' \in Nat
                      /\ ifId' \in [pc : Positions] \cup {Bubble}
                      /\ fetchBuf' \in [pc : Positions] \cup {Bubble}
                      /\ FetchesNext'
  BY <1>1 DEF FetchStalled, TypeOK, FetchesNext, Left
<1>6. \A latch : Valued(latch) => AtBubble(latch) \/ latch \in [pc : Positions, value : Int]
  BY DEF Valued, MemWbType
<1>7. WriteBack => regs' \in [Regs -> Int]
  BY WriteBackType
<1>8. ASSUME Frozen PROVE Typed'
  <2>1. /\ regs' \in [Regs -> Int] /\ prog' = prog /\ done' = done /\ exMem' = exMem
        /\ storeBuffer' \in Seq(Stores) /\ sbLatency' \in Nat /\ dmem' \in [Addrs -> Int]
    BY <1>1, <1>7, <1>8, CycleFacts, TickType DEF TypeOK
  <2>2. AtBubble(idEx') \/ idEx' \in [pc : Positions, a : Int, b : Int, counter : Nat]
    BY <1>1, <1>4, <1>8 DEF Frozen, MemoryStall, StoreBufferStall, TypeOK
  <2>3. Valued(memWb') /\ Valued(wbBuffer') /\ bubbles' \in Nat
    <3>1. Valued(memWb) /\ Valued(wbBuffer)
      BY <1>1 DEF TypeOK, Valued, MemWbType
    <3> QED BY <1>1, <1>2, <1>8, <3>1 DEF Frozen, MemoryStall, StoreBufferStall, TypeOK
  <2>4. FetchStalled
    BY <1>8, CycleFacts
  <2>5. exMem' = exMem
    BY <2>1
  <2> QED BY <1>1, <1>3, <1>5, <1>6, <2>1, <2>2, <2>3, <2>4 DEF Typed, TypeOK, AtBubble
<1>9. ASSUME Moving PROVE Typed'
  <2>1. /\ regs' \in [Regs -> Int] /\ prog' = prog /\ done' = done
        /\ storeBuffer' \in Seq(Stores) /\ sbLatency' \in Nat /\ dmem' \in [Addrs -> Int]
    BY <1>1, <1>7, <1>9, CycleFacts, TickType, WithStoreType
  <2>2. Valued(memWb') /\ Valued(wbBuffer') /\ bubbles' \in Nat
    BY <1>9, CycleFacts, MemoryType
  <2>3. AtBubble(exMem') \/ exMem' \in [pc : Positions, result : Int, b : Int]
    BY <1>2, <1>9, ExecuteType DEF Moving, ExecuteStall, DecodeStall, Advance
  <2>4. /\ AtBubble(idEx') \/ idEx' \in [pc : Positions, a : Int, b : Int, counter : Nat]
        /\ pc' \in Positions \cup {End} /\ fetchPending' \in Nat
        /\ ifId' \in [pc : Positions] \cup {Bubble}
        /\ fetchBuf' \in [pc : Positions] \cup {Bubble}
        /\ FetchesNext'
    <3>1. CASE ExecuteStall
      BY <1>4, <1>5, <3>1 DEF ExecuteStall
    <3>2. CASE DecodeStall
      BY <1>2, <1>5, <3>2 DEF DecodeStall
    <3>3. CASE Advance
      <4>1. DecodeAndFetch
        BY <3>3 DEF Advance
      <4> QED BY <2>1, <4>1, DecodeFacts
    <3> QED BY <1>9, <3>1, <3>2, <3>3 DEF Moving
  <2> QED BY <1>1, <1>3, <1>6, <2>1, <2>2, <2>3, <2>4 DEF Typed, TypeOK, AtBubble
<1>10. ASSUME Finish PROVE Typed'
  <2>1. \A addr \in Addrs : Final(addr) \in Int
    <3> TAKE addr \in Addrs
    <3>1. Loaded(addr) \in Int
      BY <1>1, NewestType, LoadedIsNewest DEF TypeOK
    <3> QED BY <3>1, SignedFacts DEF Final
  <2>2. dmem' \in [Addrs -> Int] /\ storeBuffer' \in Seq(Stores) /\ done' \in BOOLEAN
    BY <1>10, <2>1 DEF Finish
  <2>3. UNCHANGED <<prog, fetchVars, idEx, exMem, memWb, wbBuffer, bubbles, sbLatency, regs>>
    BY <1>10 DEF Finish
  <2> QED BY <1>1, <1>3, <2>2, <2>3 DEF fetchVars, Typed, TypeOK, AtBubble, FetchesNext
<1>11. ASSUME UNCHANGED vars PROVE Typed'
  BY <1>1, <1>3, <1>11 DEF vars, fetchVars, storeVars, Typed, TypeOK, AtBubble, FetchesNext
<1> QED BY <1>8, <1>9, <1>10, <1>11, CycleFacts DEF Next, Exited

LEMMA AlwaysTyped == Spec => []Typed
BY InitTyped, NextTyped, PTL DEF Spec

(* Every latch and buffer holds what its class says it holds, for every    *)
(* program whose branches and jumps stay inside it.                        *)
THEOREM PipelineTypes == Spec => []TypeOK
<1>1. Typed => TypeOK
  BY DEF Typed
<1> QED BY <1>1, AlwaysTyped, PTL

-----------------------------------------------------------------------------
(* The store buffer's bound, and the results kept back.                    *)

(* The store buffer never outgrows MAX_SB_SIZE: the check made before the  *)
(* cycle holds for the append made in it (simulator.py:99-106,             *)
(* mem.py:64-67).                                                          *)
THEOREM StoreBufferTheorem == Spec => []StoreBufferBounded
<1>1. Init => StoreBufferBounded
  BY PipelineAssumption DEF Init, StoreBufferBounded
<1>2. Typed /\ StoreBufferBounded /\ [Next]_vars => StoreBufferBounded'
  <2> SUFFICES ASSUME Typed, StoreBufferBounded, [Next]_vars PROVE StoreBufferBounded'
    OBVIOUS
  <2>1. storeBuffer \in Seq(Stores) /\ Len(storeBuffer) \in Nat /\ MaxSB \in Nat
    BY PipelineAssumption DEF Typed, TypeOK
  <2>2. ASSUME NEW sb \in Seq(Stores), Len(sb) <= MaxSB, Tick(sb)
        PROVE  Len(storeBuffer') <= MaxSB
    <3>1. storeBuffer' = sb \/ (sb # << >> /\ storeBuffer' = Tail(sb))
      BY <2>2 DEF Tick
    <3>2. sb # << >> => Len(Tail(sb)) = Len(sb) - 1 /\ Len(sb) \in Nat
      OBVIOUS
    <3> QED BY <2>1, <2>2, <3>1, <3>2
  <2>3. ASSUME Frozen PROVE StoreBufferBounded'
    BY <2>1, <2>2, <2>3, CycleFacts DEF StoreBufferBounded
  <2>4. ASSUME Moving PROVE StoreBufferBounded'
    <3>1. Tick(WithStore) /\ ~SBStalls /\ WithStore \in Seq(Stores)
      BY <2>4, CycleFacts, WithStoreType
    <3>2. Len(WithStore) <= MaxSB
      <4>1. CASE Is(exMem, {"sw"})
        <5>1. Len(storeBuffer) < MaxSB
          BY <2>1, <3>1, <4>1 DEF SBStalls, SBFull
        <5>2. Len(WithStore) = Len(storeBuffer) + 1
          BY <2>1, <4>1 DEF WithStore
        <5> QED BY <2>1, <5>1, <5>2
      <4>2. CASE ~Is(exMem, {"sw"})
        BY <4>2 DEF WithStore, StoreBufferBounded
      <4> QED BY <4>1, <4>2
    <3> QED BY <2>2, <3>1, <3>2 DEF StoreBufferBounded
  <2>5. ASSUME Finish PROVE StoreBufferBounded'
    BY <2>1, <2>5 DEF Finish, StoreBufferBounded
  <2>6. ASSUME UNCHANGED vars PROVE StoreBufferBounded'
    BY <2>6 DEF vars, storeVars, StoreBufferBounded
  <2> QED BY <2>3, <2>4, <2>5, <2>6, CycleFacts DEF Next, Exited
<1> QED BY <1>1, <1>2, AlwaysTyped, PTL DEF Spec

LEMMA InitKeptBack == Init => KeptBack
BY DEF Init, KeptBack, Holds

LEMMA NextKeptBack == Typed /\ KeptBack /\ [Next]_vars => KeptBack'
<1> SUFFICES ASSUME Typed, KeptBack, [Next]_vars PROVE KeptBack'
  OBVIOUS
<1>1. bubbles \in Nat /\ ~Holds(Bubble)
  BY DEF Typed, TypeOK, Holds
<1>2. ASSUME MemoryStall PROVE KeptBack'
  <2>1. CASE bubbles = 1
    BY <1>1, <1>2, <2>1 DEF MemoryStall, KeptBack, Holds
  <2>2. CASE bubbles # 1
    BY <1>1, <1>2, <2>2 DEF MemoryStall, KeptBack, Holds
  <2> QED BY <2>1, <2>2
<1>3. ASSUME StoreBufferStall PROVE KeptBack'
  BY <1>1, <1>3 DEF StoreBufferStall, KeptBack, Holds
<1>4. ASSUME Moving PROVE KeptBack'
  <2>1. Memory /\ bubbles = 0 /\ ~Holds(wbBuffer)
    BY <1>4, CycleFacts DEF KeptBack
  <2>2. ASSUME NEW t \in Nat, Delayed(t) PROVE KeptBack'
    BY <1>1, <2>1, <2>2 DEF Delayed, KeptBack, Holds
  <2>3. CASE \E t \in LoadTimes \cup StoreTimes : Delayed(t)
    BY <2>2, <2>3, PipelineAssumption
  <2>4. CASE UNCHANGED <<wbBuffer, bubbles>>
    BY <2>1, <2>4 DEF KeptBack, Holds
  <2> QED BY <2>1, <2>3, <2>4 DEF Memory
<1>5. ASSUME Finish \/ UNCHANGED vars PROVE KeptBack'
  BY <1>5 DEF Finish, vars, KeptBack, Holds
<1> QED BY <1>2, <1>3, <1>4, <1>5, CycleFacts DEF Next, Exited, Frozen

LEMMA AlwaysKeptBack == Spec => []KeptBack
BY InitKeptBack, NextKeptBack, AlwaysTyped, PTL DEF Spec

(* A result kept back while memory answers is released, once: there are    *)
(* bubbles left to release it, and nothing else is in its place            *)
(* (simulator.py:121-141).                                                 *)
THEOREM KeptBackTheorem == Spec => []ResultKeptBack
<1>1. Typed /\ KeptBack => ResultKeptBack
  BY DEF Typed, TypeOK, KeptBack, ResultKeptBack
<1> QED BY <1>1, AlwaysTyped, AlwaysKeptBack, PTL
-----------------------------------------------------------------------------
(* The state at the end.  Empty does not look at what is kept back, so the *)
(* loop can end before a load is written back; a program is safe if there  *)
(* is something left to do behind each of its loads (Settles).             *)

Past1 == PastBranch(prog, BehindLoads(prog))
Past2 == PastBranch(prog, Past1)

(* Behind every load on its way there is another instruction in a latch,   *)
(* or the front end is where the branches behind the load have led it: one *)
(* may have been taken while the load was in EX, one while it was in MEM.  *)
LoadsFollowed ==
  /\ Is(idEx, {"lw"}) => FrontPc \in BehindLoads(prog)
  /\ Is(exMem, {"lw"}) => Holds(idEx) \/ FrontPc \in Past1
  /\ Is(wbBuffer, {"lw"}) => Holds(exMem) \/ Holds(idEx) \/ FrontPc \in Past2
  /\ Holds(wbBuffer) => Is(wbBuffer, {"lw", "sw"})

Settled == LoadsFollowed /\ (done => Empty)

LEMMA CountedFacts ==
  ASSUME Typed
  PROVE  /\ Holds(Counted) <=> Holds(idEx)
         /\ Counted.pc = idEx.pc
         /\ Holds(idEx) => Counted.a = idEx.a /\ Counted.b = idEx.b
<1>1. CASE ~ExecuteBusy
  BY <1>1 DEF Counted
<1>2. CASE ExecuteBusy
  <2>1. idEx \in [pc : Positions, a : Int, b : Int, counter : Nat]
    BY <1>2 DEF ExecuteBusy, Typed, TypeOK, AtBubble, Holds
  <2>2. Counted.pc = idEx.pc /\ Counted.a = idEx.a /\ Counted.b = idEx.b
    BY <1>2, <2>1 DEF Counted
  <2>3. idEx.pc \in Nat /\ Bubble.pc = -4
    BY <2>1, InstrFacts DEF Typed, Bubble
  <2>4. Holds(Counted)
    BY <2>2, <2>3 DEF Holds
  <2> QED BY <1>2, <2>2, <2>4 DEF ExecuteBusy
<1> QED BY <1>1, <1>2

LEMMA BehindFacts ==
  ASSUME prog \in Programs, NEW p \in Positions
  PROVE  LET i == prog[p \div 4 + 1]
         IN /\ i.op = "lw" => p + 4 \in BehindLoads(prog)
            /\ \A S : p \in S /\ i.op \in Branches => p + i.imm \in PastBranch(prog, S)
<1>1. prog \in Seq(Instrs) /\ Len(prog) \in Nat /\ DOMAIN prog = 1..Len(prog)
  BY ProgramsAssumption
<1>2. PICK k \in 0..(Len(prog) - 1) : p = 4 * k
  BY DEF Positions
<1>3. k + 1 \in DOMAIN prog /\ p \div 4 = k /\ p + 4 = 4 * (k + 1) /\ p = 4 * ((k + 1) - 1)
  BY <1>1, <1>2
<1>4. prog[k + 1].op = "lw" => p + 4 \in BehindLoads(prog)
  BY <1>3 DEF BehindLoads
<1>5. ASSUME NEW S, p \in S, prog[k + 1].op \in Branches
      PROVE  p + prog[k + 1].imm \in PastBranch(prog, S)
  BY <1>3, <1>5 DEF PastBranch
<1> QED BY <1>3, <1>4, <1>5

LEMMA PastKeeps == \A S : S \subseteq PastBranch(prog, S)
BY DEF PastBranch

(* Decode and fetch drop no instruction but a taken branch. *)
LEMMA FrontGoesOn ==
  ASSUME Typed, prog' = prog, regs' \in [Regs -> Int], DecodeAndFetch,
         NEW S, FrontPc \in S
  PROVE  Holds(idEx') \/ FrontPc' \in PastBranch(prog, S)
<1> DEFINE i == InstrOf(ifId)
           a == DecodeOperand(i.rs1)
           b == DecodeOperand(i.rs2)
<1>1. CASE ~Holds(ifId)
  BY <1>1, DecodeFacts, PastKeeps
<1>2. CASE Holds(ifId) /\ TakenBranch(i, a, b)
  <2>1. i.op \in Branches /\ Redirects(i, a, b)
    BY <1>2 DEF TakenBranch, Branches, Redirects
  <2>2. FrontPc' = ifId.pc + i.imm
    BY <1>2, <2>1, DecodeFacts
  <2>3. ifId.pc \in Positions /\ prog \in Programs /\ ifId.pc \in S
    BY <1>2, LatchTypes DEF Holding, Typed, FrontPc
  <2>4. ifId.pc + i.imm \in PastBranch(prog, S)
    BY <2>1, <2>3, BehindFacts DEF InstrOf
  <2> QED BY <2>2, <2>4
<1>3. CASE Holds(ifId) /\ ~TakenBranch(i, a, b)
  <2>1. idEx' = [pc |-> ifId.pc, a |-> a, b |-> b, counter |-> 0]
    BY <1>3, DecodeFacts
  <2>2. ifId.pc \in Nat /\ Bubble.pc = -4
    BY <1>3, LatchTypes, PositionFacts DEF Holding, Typed, Bubble
  <2>3. idEx'.pc = ifId.pc
    BY <2>1
  <2> QED BY <2>2, <2>3 DEF Holds
<1> QED BY <1>1, <1>2, <1>3

LEMMA InitSettled == Init => Settled
BY DEF Init, Settled, LoadsFollowed, Is, Holds

(* What the MEM stage keeps back is what it was given. *)
LEMMA MemoryKeeps ==
  ASSUME Typed, KeptBack, LoadsFollowed, Memory, bubbles = 0, prog' = prog
  PROVE  /\ (Holds(wbBuffer) => Is(wbBuffer, {"lw", "sw"}))'
         /\ Is(wbBuffer, {"lw"})' => Is(exMem, {"lw"})
<1>1. ~Holds(wbBuffer)
  BY DEF KeptBack
<1>2. MemOutput.pc = exMem.pc
  BY DEF MemOutput
<1>3. ASSUME NEW t, Delayed(t), NEW op, Is(exMem, {op}), op \in {"lw", "sw"}
      PROVE  /\ (Holds(wbBuffer) => Is(wbBuffer, {"lw", "sw"}))'
             /\ Is(wbBuffer, {"lw"})' => Is(exMem, {"lw"})
  <2>1. wbBuffer' = MemOutput \/ wbBuffer' = wbBuffer
    BY <1>3 DEF Delayed
  <2>2. CASE wbBuffer' = MemOutput
    BY <1>2, <1>3, <2>2 DEF Is, InstrOf
  <2>3. CASE wbBuffer' = wbBuffer
    BY <1>1, <2>3 DEF Is, Holds, Bubble
  <2> QED BY <2>1, <2>2, <2>3
<1>4. CASE Is(exMem, {"lw"}) /\ \E t \in LoadTimes : Delayed(t)
  BY <1>3, <1>4
<1>5. CASE Is(exMem, {"sw"}) /\ \E t \in StoreTimes : Delayed(t)
  BY <1>3, <1>5
<1>6. CASE UNCHANGED <<wbBuffer, bubbles>>
  BY <1>1, <1>6 DEF Is, Holds, Bubble
<1> QED BY <1>4, <1>5, <1>6 DEF Memory

LEMMA MovingSettled ==
  ASSUME Typed, KeptBack, LoadsFollowed, Moving
  PROVE  LoadsFollowed'
<1>1. /\ WriteBack /\ Memory /\ prog' = prog /\ bubbles = 0 /\ End' = End
      /\ prog \in Programs /\ regs' \in [Regs -> Int]
  BY CycleFacts, WriteBackType DEF Typed, End
<1>2. ~Holds(Bubble)
  BY DEF Holds
<1>3. FetchStalled => FrontPc' = FrontPc
  BY DEF FetchStalled, FrontPc, Holds, Bubble
<1>4. ASSUME DecodeAndFetch, NEW S, FrontPc \in S
      PROVE  Holds(idEx') \/ FrontPc' \in PastBranch(prog, S)
  BY <1>1, <1>4, FrontGoesOn
<1>5. BehindLoads(prog)' = BehindLoads(prog) /\ Past1' = Past1 /\ Past2' = Past2
  BY <1>1 DEF Past1, Past2
<1>6. BehindLoads(prog) \subseteq Past1 /\ Past1 \subseteq Past2
  BY PastKeeps DEF Past1, Past2
<1>7. DecodeAndFetch => (Is(idEx, {"lw"}) => FrontPc \in BehindLoads(prog))'
  <2> SUFFICES ASSUME DecodeAndFetch, Is(idEx, {"lw"})' PROVE FrontPc' \in BehindLoads(prog)
    BY <1>5
  <2> DEFINE i == InstrOf(ifId)
             a == DecodeOperand(i.rs1)
             b == DecodeOperand(i.rs2)
  <2>1. Holds(ifId)
    BY <1>1, DecodeFacts DEF Is, Holds
  <2>2. idEx' = [pc |-> ifId.pc, a |-> a, b |-> b, counter |-> 0]
    BY <1>1, <2>1, DecodeFacts DEF Is, Holds
  <2>3. i.op = "lw"
    <3>1. idEx'.pc = ifId.pc
      BY <2>2
    <3> QED BY <1>1, <3>1 DEF Is, InstrOf
  <2>4. ~Redirects(i, a, b)
    BY <2>3 DEF Redirects, TakenBranch
  <2>5. FrontPc' = ifId.pc + 4
    BY <1>1, <2>1, <2>4, DecodeFacts
  <2>6. ifId.pc \in Positions
    BY <2>1, LatchTypes DEF Holding
  <2> QED BY <1>1, <2>3, <2>5, <2>6, BehindFacts DEF InstrOf
<1>8. Execute => /\ Holds(idEx) => Holds(exMem')
                 /\ Is(exMem, {"lw"})' => Is(idEx, {"lw"})
  <2> SUFFICES ASSUME Execute PROVE /\ Holds(idEx) => Holds(exMem')
                                    /\ Is(exMem, {"lw"})' => Is(idEx, {"lw"})
    OBVIOUS
  <2>1. CASE Holds(idEx)
    <3>1. exMem'.pc = idEx.pc
      BY <2>1 DEF Execute
    <3>2. idEx.pc \in Nat /\ Bubble.pc = -4
      BY <1>1, <2>1, LatchTypes, PositionFacts DEF Holding, Bubble
    <3> QED BY <1>1, <2>1, <3>1, <3>2 DEF Is, InstrOf, Holds
  <2>2. CASE ~Holds(idEx)
    BY <2>2 DEF Execute, Is, Holds
  <2> QED BY <2>1, <2>2
<1>9. /\ (Holds(wbBuffer) => Is(wbBuffer, {"lw", "sw"}))'
      /\ Is(wbBuffer, {"lw"})' => Holds(idEx) \/ FrontPc \in Past1
  BY <1>1, MemoryKeeps DEF LoadsFollowed
<1>10. CASE ExecuteStall
  <2>1. Holds(idEx') /\ ~Holds(exMem') /\ FrontPc' = FrontPc /\ Holds(idEx) /\ idEx'.pc = idEx.pc
    BY <1>2, <1>3, <1>10, CountedFacts DEF ExecuteStall, ExecuteBusy
  <2>2. (Is(idEx, {"lw"}) => FrontPc \in BehindLoads(prog))'
    BY <1>1, <1>5, <2>1 DEF Is, InstrOf, LoadsFollowed
  <2> QED BY <1>9, <2>1, <2>2 DEF LoadsFollowed, Is, Holds
<1>11. CASE DecodeStall
  <2>1. ~Holds(idEx') /\ Execute /\ FetchStalled /\ FrontPc' = FrontPc
    BY <1>2, <1>3, <1>11 DEF DecodeStall
  <2> QED BY <1>5, <1>6, <1>8, <1>9, <2>1 DEF LoadsFollowed, Is, Holds
<1>12. CASE Advance
  <2>1. Execute /\ DecodeAndFetch
    BY <1>12 DEF Advance
  <2>2. FrontPc \in BehindLoads(prog) => Holds(idEx') \/ FrontPc' \in Past1
    BY <1>4, <2>1 DEF Past1
  <2>3. FrontPc \in Past1 => Holds(idEx') \/ FrontPc' \in Past2
    BY <1>4, <2>1 DEF Past2
  <2>4. (Is(exMem, {"lw"}) => Holds(idEx) \/ FrontPc \in Past1)'
    BY <1>5, <1>8, <2>1, <2>2 DEF LoadsFollowed, Holds, Bubble
  <2>5. (Is(wbBuffer, {"lw"}) => Holds(exMem) \/ Holds(idEx) \/ FrontPc \in Past2)'
    BY <1>5, <1>8, <1>9, <2>1, <2>3 DEF Holds, Bubble
  <2> QED BY <1>7, <1>9, <2>1, <2>4, <2>5 DEF LoadsFollowed
<1> QED BY <1>10, <1>11, <1>12 DEF Moving

LEMMA NextSettled ==
  ASSUME Typed, KeptBack, Settled, [Next]_vars
  PROVE  Settled'
<1>1. /\ prog' = prog => /\ BehindLoads(prog)' = BehindLoads(prog)
                        /\ Past1' = Past1 /\ Past2' = Past2
      /\ FetchStalled => FrontPc' = FrontPc
      /\ ~Holds(Bubble)
  BY DEF FetchStalled, FrontPc, Past1, Past2, Holds, Bubble
<1>2. ASSUME Frozen PROVE LoadsFollowed'
  <2>1. prog' = prog /\ exMem' = exMem /\ FetchStalled
    BY <1>2, CycleFacts
  <2>2. (Holds(idEx') <=> Holds(idEx)) /\ idEx'.pc = idEx.pc
    BY <1>2, CountedFacts DEF Frozen, MemoryStall, StoreBufferStall
  <2>3. wbBuffer' = wbBuffer \/ wbBuffer' = Bubble
    BY <1>2 DEF Frozen, MemoryStall, StoreBufferStall
  <2>4. /\ FrontPc' = FrontPc /\ BehindLoads(prog)' = BehindLoads(prog)
        /\ Past1' = Past1 /\ Past2' = Past2
    BY <1>1, <2>1
  <2>5. /\ Is(idEx, {"lw"})' <=> Is(idEx, {"lw"})
        /\ Is(exMem, {"lw"})' <=> Is(exMem, {"lw"})
        /\ Holds(exMem)' <=> Holds(exMem)
        /\ Holds(idEx)' <=> Holds(idEx)
    BY <2>1, <2>2 DEF Is, InstrOf, Holds, Bubble
  <2>6. \A ops : Is(wbBuffer, ops)' => Is(wbBuffer, ops)
    BY <1>1, <2>1, <2>3 DEF Is, InstrOf, Holds, Bubble
  <2>7. (Holds(wbBuffer) => Is(wbBuffer, {"lw", "sw"}))'
    BY <1>1, <2>1, <2>3 DEF Is, InstrOf, Holds, Bubble, Settled, LoadsFollowed
  <2> QED BY <2>4, <2>5, <2>6, <2>7 DEF Settled, LoadsFollowed
<1>3. Moving => LoadsFollowed'
  BY MovingSettled DEF Settled
<1>4. ASSUME Cycle PROVE (done => Empty)'
  BY <1>4 DEF Cycle, MemoryStall, StoreBufferStall, ExecuteStall, DecodeStall, Advance, Cycling
<1>5. ASSUME Finish \/ UNCHANGED vars PROVE Settled'
  <2>1. /\ prog' = prog /\ pc' = pc /\ ifId' = ifId /\ idEx' = idEx /\ exMem' = exMem
        /\ memWb' = memWb /\ wbBuffer' = wbBuffer /\ fetchBuf' = fetchBuf
        /\ fetchPending' = fetchPending
    BY <1>5 DEF Finish, vars, fetchVars
  <2>2. Empty' <=> Empty
    BY <2>1 DEF Empty, End, Holds, Bubble
  <2>3. LoadsFollowed'
    BY <1>1, <2>1 DEF Settled, LoadsFollowed, Is, InstrOf, Holds, Bubble, FrontPc
  <2>4. done' => Empty
    BY <1>5 DEF Settled, Finish, vars
  <2> QED BY <2>2, <2>3, <2>4 DEF Settled
<1> QED BY <1>2, <1>3, <1>4, <1>5, CycleFacts DEF Next, Exited, Settled

LEMMA AlwaysSettled == Spec => []Settled
<1>1. Typed /\ KeptBack /\ Settled /\ [Next]_vars => Settled'
  BY NextSettled
<1> QED BY <1>1, InitSettled, AlwaysTyped, AlwaysKeptBack, PTL DEF Spec

(* When the loop has ended nothing that matters is kept back. *)
LEMMA NothingLeft ==
  ASSUME Typed, Settled, Settles(prog), done
  PROVE  regs = CommittedRegs /\ OldestPc = End
<1>1. Empty /\ End \in Nat
  BY PositionFacts DEF Settled, Typed
<1>2. ~Holds(exMem) /\ ~Holds(idEx) /\ ~Holds(memWb) /\ FrontPc = pc /\ OldestPc = pc /\ pc = End
  BY <1>1, PositionFacts DEF Empty, FrontPc, OldestPc, Typed, TypeOK
<1>3. ~(FrontPc \in Past2)
  BY <1>2 DEF Settles, Past1, Past2, End
<1>4. ~Is(wbBuffer, {"lw"})
  BY <1>2, <1>3 DEF Settled, LoadsFollowed
<1>5. Holds(wbBuffer) => ~Produces(InstrOf(wbBuffer))
  BY <1>4 DEF Settled, LoadsFollowed, Is, Produces, RegWriters
<1> QED BY <1>2, <1>5 DEF CommittedRegs, Overlaid, Updated
-----------------------------------------------------------------------------
(* The machine.                                                            *)

MemoryNow == [addr \in Addrs |-> Final(addr)]

LEMMA NowIs ==
  Now = [pc |-> OldestPc, regs |-> CommittedRegs, mem |-> MemoryNow]
BY DEF Now, Machine!Now, MemoryNow

(* The instruction at a state, and what it does there. *)
At(s) == prog[s.pc \div 4 + 1]
FirstOf(s) == Read(s.regs, At(s).rs1)
SecondOf(s) == Read(s.regs, At(s).rs2)
ResultOf(s) == Result(At(s), s.pc, FirstOf(s), SecondOf(s))
TakenAt(s) == TakenBranch(At(s), FirstOf(s), SecondOf(s))

LEMMA ExecIs ==
  ASSUME NEW s
  PROVE  Machine!Exec(s) =
           [pc |-> IF Redirects(At(s), FirstOf(s), SecondOf(s)) THEN s.pc + At(s).imm
                                                               ELSE s.pc + 4,
            regs |-> Updated(s.regs, At(s),
                             IF At(s).op = "lw" THEN s.mem[ResultOf(s)] ELSE ResultOf(s)),
            mem |-> IF At(s).op = "sw"
                      THEN [s.mem EXCEPT ![ResultOf(s)] = Signed(SecondOf(s))]
                      ELSE s.mem]
<1>1. \A rs, r : Machine!Read(rs, r) = Read(rs, r)
  BY DEF Machine!Read, Read, Machine!NoReg, NoReg
<1>2. \A i, p, a, b : Machine!Result(i, p, a, b) = Result(i, p, a, b)
  BY DEF Machine!Result, Result, Machine!Branches, Branches
<1>3. \A i, a, b : Machine!Redirects(i, a, b) = Redirects(i, a, b)
  BY DEF Machine!Redirects, Redirects, Machine!TakenBranch, TakenBranch
<1>4. \A rs, i, x : Machine!Updated(rs, i, x) = Updated(rs, i, x)
  BY DEF Machine!Updated, Updated, Machine!Produces, Produces, Machine!NoReg, NoReg,
         Machine!RegWriters, RegWriters
<1>5. \A x : Machine!Signed(x) = Signed(x)
  BY DEF Machine!Signed, Signed
<1>6. Machine!InstrAt(s) = At(s)
  BY DEF Machine!InstrAt, At
<1> QED BY <1>1, <1>2, <1>3, <1>4, <1>5, <1>6
        DEF Machine!Exec, FirstOf, SecondOf, ResultOf

LEMMA TakenIs ==
  ASSUME NEW s
  PROVE  Machine!AtTakenBranch(s) <=> s.pc < End /\ TakenAt(s)
<1>1. \A rs, r : Machine!Read(rs, r) = Read(rs, r)
  BY DEF Machine!Read, Read, Machine!NoReg, NoReg
<1>2. \A i, a, b : Machine!TakenBranch(i, a, b) = TakenBranch(i, a, b)
  BY DEF Machine!TakenBranch, TakenBranch
<1>3. Machine!InstrAt(s) = At(s)
  BY DEF Machine!InstrAt, At
<1> QED BY <1>1, <1>2, <1>3
        DEF Machine!AtTakenBranch, Machine!Running, End, TakenAt, FirstOf, SecondOf

(* A branch changes the program counter only. *)
LEMMA BranchKeeps ==
  ASSUME NEW s, TakenAt(s)
  PROVE  Machine!Exec(s).regs = s.regs /\ Machine!Exec(s).mem = s.mem
<1>1. At(s).op \in {"beq", "bne"}
  BY DEF TakenAt, TakenBranch
<1>2. At(s).op # "sw" /\ ~Produces(At(s))
  BY <1>1 DEF Produces, RegWriters
<1> QED BY <1>2, ExecIs DEF Updated

(* The machine's states are the same when their parts are. *)
IsState(s) == s = [pc |-> s.pc, regs |-> s.regs, mem |-> s.mem]

LEMMA StateFacts ==
  /\ IsState(Now) /\ IsState(AfterMem)
  /\ \A s : IsState(Machine!Exec(s))
  /\ \A s, t : IsState(s) /\ IsState(t) /\ s.pc = t.pc /\ s.regs = t.regs /\ s.mem = t.mem
              => s = t
<1>1. IsState(Now)
  BY NowIs DEF IsState
<1>2. \A s : IsState(Machine!Exec(s))
  <2> TAKE s
  <2>1. \A x, y, z : IsState([pc |-> x, regs |-> y, mem |-> z])
    BY DEF IsState
  <2> QED BY <2>1, ExecIs
<1>3. IsState(AfterMem)
  BY <1>1, <1>2 DEF AfterMem
<1> QED BY <1>1, <1>2, <1>3 DEF IsState

-----------------------------------------------------------------------------
(* Registers.                                                              *)

(* Reading a register after a latch's instruction has written its result. *)
LEMMA OverlaidFacts ==
  ASSUME Typed, NEW latch, Holding(latch), NEW V, NEW rs \in [Regs -> V], NEW x,
         NEW r \in RegNumbers
  PROVE  LET after == IF Holds(latch) THEN Updated(rs, InstrOf(latch), x) ELSE rs
         IN Read(after, r) = IF WritesTo(latch, r) THEN x ELSE Read(rs, r)
<1> DEFINE after == IF Holds(latch) THEN Updated(rs, InstrOf(latch), x) ELSE rs
<1> SUFFICES Read(after, r) = IF WritesTo(latch, r) THEN x ELSE Read(rs, r)
  OBVIOUS
<1>1. CASE ~Holds(latch)
  BY <1>1 DEF WritesTo
<1>2. CASE Holds(latch)
  <2> DEFINE i == InstrOf(latch)
  <2>1. i \in Instrs /\ i.rd \in RegNumbers
    BY <1>2 DEF Holding, Instrs
  <2>2. WritesTo(latch, r) <=> Produces(i) /\ i.rd = r
    BY <1>2 DEF WritesTo
  <2>3. Produces(i) => i.rd \notin {0, NoReg} /\ i.rd \in Regs
    BY <2>1 DEF Produces, RegNumbers
  <2>4. after = Updated(rs, i, x)
    BY <1>2
  <2> HIDE DEF i, after
  <2>5. CASE WritesTo(latch, r)
    BY <2>2, <2>3, <2>4, <2>5 DEF Updated, Read
  <2>6. CASE ~WritesTo(latch, r)
    <3>1. CASE Produces(i)
      <4>1. r # i.rd /\ after = [rs EXCEPT ![i.rd] = x]
        BY <2>2, <2>4, <2>6, <3>1 DEF Updated
      <4>2. r \in Regs => after[r] = rs[r]
        BY <4>1
      <4> QED BY <2>6, <4>2 DEF Read, RegNumbers
    <3>2. CASE ~Produces(i)
      BY <2>4, <2>6, <3>2 DEF Updated
    <3> QED BY <3>1, <3>2
  <2> QED BY <2>5, <2>6
<1> QED BY <1>1, <1>2

LEMMA CommittedType == Typed => CommittedRegs \in [Regs -> Int]
<1> SUFFICES ASSUME Typed PROVE CommittedRegs \in [Regs -> Int]
  OBVIOUS
<1>1. ASSUME NEW rs \in [Regs -> Int], NEW latch, Holding(latch),
             Holds(latch) => latch.value \in Int
      PROVE  Overlaid(rs, latch) \in [Regs -> Int]
  BY <1>1, RegisterTypes DEF Overlaid, Holding
<1>2. regs \in [Regs -> Int]
  BY DEF Typed, TypeOK
<1> QED BY <1>1, <1>2, LatchTypes DEF CommittedRegs

(* When nothing is kept back, what is committed is what write-back leaves. *)
LEMMA CommittedIs ==
  ASSUME Typed, KeptBack, bubbles = 0
  PROVE  /\ CommittedRegs = Overlaid(regs, memWb)
         /\ WriteBack => regs' = CommittedRegs
         /\ \A r \in RegNumbers :
              Read(CommittedRegs, r) = IF WritesTo(memWb, r) THEN memWb.value ELSE Read(regs, r)
<1>1. CommittedRegs = Overlaid(regs, memWb)
  BY DEF CommittedRegs, KeptBack, Overlaid
<1>2. WriteBack => regs' = CommittedRegs
  BY <1>1 DEF WriteBack, Overlaid
<1>3. regs \in [Regs -> Int] /\ Holding(memWb)
  BY LatchTypes DEF Typed, TypeOK
<1> QED BY <1>1, <1>2, <1>3, OverlaidFacts DEF Overlaid
-----------------------------------------------------------------------------
(* What a cycle commits.                                                   *)

LEMMA MemoryIs ==
  /\ MemoryNow = [addr \in Addrs |-> Signed(Newest(storeBuffer, dmem, addr))]
  /\ MemoryNow' = [addr \in Addrs |-> Signed(Newest(storeBuffer', dmem', addr))]
BY DEF MemoryNow, Final, Loaded, StoresTo, Newest

LEMMA TickKeeps ==
  ASSUME Typed, NEW sb \in Seq(Stores), Tick(sb)
  PROVE  MemoryNow' = [addr \in Addrs |-> Signed(Newest(sb, dmem, addr))]
<1>1. CASE storeBuffer' = sb /\ dmem' = dmem
  BY <1>1, MemoryIs
<1>2. CASE /\ sb # << >> /\ storeBuffer' = Tail(sb)
           /\ dmem' = [dmem EXCEPT ![Head(sb).addr] = Signed(Head(sb).value)]
  <2>1. dmem \in [Addrs -> Int]
    BY DEF Typed, TypeOK
  <2>2. ASSUME NEW addr \in Addrs
        PROVE  Signed(Newest(storeBuffer', dmem', addr)) = Signed(Newest(sb, dmem, addr))
    BY <1>2, <2>1, NewestDrained
  <2> QED BY <2>2, MemoryIs
<1> QED BY <1>1, <1>2 DEF Tick

(* While MEM is frozen nothing is committed. *)
LEMMA FrozenCommits ==
  ASSUME Typed, KeptBack, Frozen
  PROVE  CommittedRegs' = CommittedRegs /\ MemoryNow' = MemoryNow
<1>1. WriteBack /\ Tick(storeBuffer) /\ prog' = prog /\ storeBuffer \in Seq(Stores)
  BY CycleFacts DEF Typed, TypeOK
<1>2. MemoryNow' = MemoryNow
  BY <1>1, TickKeeps, MemoryIs
<1>3. \A latch, rs : Overlaid(rs, latch)
        = IF Holds(latch) THEN Updated(rs, InstrOf(latch), latch.value) ELSE rs
  BY DEF Overlaid
<1>4. CommittedRegs' = IF Holds(wbBuffer') THEN Updated(Overlaid(regs', memWb'), InstrOf(wbBuffer'), wbBuffer'.value)
                       ELSE Overlaid(regs', memWb')
  BY <1>1 DEF CommittedRegs, Overlaid, InstrOf
<1>5. \A rs : Overlaid(rs, Bubble) = rs
  BY DEF Overlaid, Holds
<1>6. regs' = Overlaid(regs, memWb)
  BY <1>1 DEF WriteBack, Overlaid
<1>7. CASE StoreBufferStall
  <2>1. memWb' = Bubble /\ wbBuffer' = wbBuffer /\ ~Holds(wbBuffer)
    BY <1>7 DEF StoreBufferStall, KeptBack
  <2> QED BY <1>2, <1>4, <1>5, <1>6, <2>1 DEF CommittedRegs, Overlaid
<1>8. CASE MemoryStall
  <2>1. bubbles # 0
    BY <1>8 DEF MemoryStall, Typed, TypeOK
  <2>2. regs' = regs /\ CommittedRegs = Overlaid(regs, wbBuffer)
    BY <1>6, <2>1 DEF KeptBack, Overlaid, CommittedRegs
  <2>3. \/ memWb' = wbBuffer /\ wbBuffer' = Bubble
        \/ memWb' = Bubble /\ wbBuffer' = wbBuffer
    BY <1>8 DEF MemoryStall
  <2>4. ~Holds(Bubble)
    BY DEF Holds
  <2> QED BY <1>2, <1>4, <1>5, <2>2, <2>3, <2>4 DEF Overlaid
<1> QED BY <1>7, <1>8 DEF Frozen

(* The result of a memory access is in MEM/WB or kept back, and nothing    *)
(* else is.                                                                *)
LEMMA MemoryGives ==
  ASSUME Memory, KeptBack, bubbles = 0
  PROVE  /\ wbBuffer = Bubble
         /\ Holds(exMem) => \/ memWb' = MemOutput /\ wbBuffer' = Bubble
                            \/ memWb' = Bubble /\ wbBuffer' = MemOutput
         /\ ~Holds(exMem) => memWb' = Bubble /\ wbBuffer' = Bubble
<1>1. wbBuffer = Bubble
  BY DEF KeptBack, Holds
<1>2. ASSUME NEW t, Delayed(t)
      PROVE  \/ memWb' = MemOutput /\ wbBuffer' = Bubble
             \/ memWb' = Bubble /\ wbBuffer' = MemOutput
  BY <1>1, <1>2 DEF Delayed
<1> QED BY <1>1, <1>2 DEF Memory, Is

LEMMA MemOutputFacts ==
  ASSUME Typed, Holds(exMem)
  PROVE  Holds(MemOutput) /\ InstrOf(MemOutput) = InstrOf(exMem) /\ MemOutput.pc = exMem.pc
<1>1. MemOutput.pc = exMem.pc /\ exMem.pc \in Nat /\ Bubble.pc = -4
  BY LatchTypes, InstrFacts DEF MemOutput, Holding, Typed, Bubble
<1>2. MemOutput # Bubble
  BY <1>1
<1> QED BY <1>1, <1>2 DEF Holds, InstrOf

(* When MEM goes on, it commits the instruction in EX/MEM, if any. *)
LEMMA MovingCommits ==
  ASSUME Typed, KeptBack, ExecutedRight, LoadsWords, Moving
  PROVE  CommittedRegs' = AfterMem.regs /\ MemoryNow' = AfterMem.mem
<1>1. /\ WriteBack /\ Memory /\ Tick(WithStore) /\ prog' = prog /\ bubbles = 0
      /\ WithStore \in Seq(Stores) /\ storeBuffer \in Seq(Stores)
  BY CycleFacts, WithStoreType DEF Typed, TypeOK
<1>2. regs' = CommittedRegs
  BY <1>1, CommittedIs
<1>3. CommittedRegs' =
        LET rs == IF Holds(memWb') THEN Updated(regs', InstrOf(memWb'), memWb'.value) ELSE regs'
        IN IF Holds(wbBuffer') THEN Updated(rs, InstrOf(wbBuffer'), wbBuffer'.value) ELSE rs
  BY <1>1 DEF CommittedRegs, Overlaid, InstrOf
<1>4. MemoryNow' = [addr \in Addrs |-> Signed(Newest(WithStore, dmem, addr))]
  BY <1>1, TickKeeps
<1>5. ~Holds(Bubble)
  BY DEF Holds
<1>6. CASE ~Holds(exMem)
  <2>1. CommittedRegs' = CommittedRegs
    BY <1>1, <1>2, <1>3, <1>5, <1>6, MemoryGives
  <2>2. WithStore = storeBuffer
    BY <1>6 DEF WithStore, Is
  <2> QED BY <1>4, <1>6, <2>1, <2>2, NowIs, MemoryIs DEF AfterMem
<1>7. CASE Holds(exMem)
  <2> DEFINE i == InstrOf(exMem)
             x == exMem.result
  <2>1. CommittedRegs' = Updated(CommittedRegs, i, MemOutput.value)
    BY <1>1, <1>2, <1>3, <1>5, <1>7, MemoryGives, MemOutputFacts
  <2>2. /\ Now.pc = exMem.pc /\ Now.regs = CommittedRegs /\ Now.mem = MemoryNow
        /\ At(Now) = i
    BY <1>7, NowIs DEF OldestPc, At, InstrOf
  <2>3. x = ResultOf(Now) /\ exMem.b = SecondOf(Now)
    BY <1>7, <2>2 DEF ExecutedRight, ResultOf, FirstOf, SecondOf
  <2>4. /\ AfterMem.regs = Updated(CommittedRegs, i, IF i.op = "lw" THEN MemoryNow[x] ELSE x)
        /\ AfterMem.mem = IF i.op = "sw" THEN [MemoryNow EXCEPT ![x] = Signed(exMem.b)]
                                         ELSE MemoryNow
    BY <1>7, <2>2, <2>3, ExecIs DEF AfterMem
  <2>5. Is(exMem, {"lw"}) <=> i.op = "lw"
    BY <1>7 DEF Is
  <2>6. Is(exMem, {"sw"}) <=> i.op = "sw"
    BY <1>7 DEF Is
  <2>7. CASE i.op = "lw"
    <3>1. x \in Addrs
      BY <1>1, <2>5, <2>6, <2>7 DEF Memory, Is
    <3>2. MemoryNow[x] = Loaded(x)
      BY <2>5, <2>7, <3>1 DEF MemoryNow, Final, LoadsWords
    <3>3. MemOutput.value = Loaded(x)
      BY <2>5, <2>7 DEF MemOutput
    <3>4. CommittedRegs' = AfterMem.regs
      BY <2>1, <2>4, <2>7, <3>2, <3>3
    <3>5. WithStore = storeBuffer /\ AfterMem.mem = MemoryNow
      BY <2>4, <2>6, <2>7 DEF WithStore
    <3> QED BY <1>4, <3>4, <3>5, MemoryIs
  <2>8. CASE i.op # "lw"
    <3>1. Produces(i) => MemOutput.value = x
      BY <2>5, <2>8 DEF MemOutput
    <3>2. CommittedRegs' = AfterMem.regs
      BY <2>1, <2>4, <2>8, <3>1 DEF Updated
    <3>3. CASE i.op = "sw"
      <4> DEFINE e == [addr |-> x, value |-> exMem.b]
      <4>1. WithStore = Append(storeBuffer, e) /\ e \in Stores
        BY <1>7, <2>6, <3>3, LatchTypes DEF WithStore, Stores
      <4>2. ASSUME NEW addr \in Addrs
            PROVE  Newest(WithStore, dmem, addr)
                     = IF addr = x THEN exMem.b ELSE Newest(storeBuffer, dmem, addr)
        <5>1. e.addr = x /\ e.value = exMem.b
          OBVIOUS
        <5> HIDE DEF e
        <5> QED BY <1>1, <4>1, <5>1, NewestAppended
      <4>3. MemoryNow' = [addr \in Addrs |-> IF addr = x THEN Signed(exMem.b) ELSE MemoryNow[addr]]
        BY <1>4, <4>2, MemoryIs
      <4>4. AfterMem.mem = [MemoryNow EXCEPT ![x] = Signed(exMem.b)]
        BY <2>4, <3>3
      <4>5. MemoryNow \in [Addrs -> Int]
        <5>1. ASSUME NEW addr \in Addrs PROVE Signed(Newest(storeBuffer, dmem, addr)) \in Int
          BY <1>1, NewestType, SignedFacts DEF Typed, TypeOK
        <5> QED BY <5>1, MemoryIs
      <4>6. MemoryNow' = [MemoryNow EXCEPT ![x] = Signed(exMem.b)]
        <5> DEFINE m == MemoryNow
        <5>1. m \in [Addrs -> Int] /\ MemoryNow' = [addr \in Addrs |-> IF addr = x THEN Signed(exMem.b) ELSE m[addr]]
          BY <4>3, <4>5
        <5> HIDE DEF m, x
        <5>2. [m EXCEPT ![x] = Signed(exMem.b)] = [addr \in Addrs |-> IF addr = x THEN Signed(exMem.b) ELSE m[addr]]
          BY <5>1
        <5> QED BY <5>1, <5>2 DEF m
      <4> QED BY <3>2, <4>4, <4>6
    <3>4. CASE i.op # "sw"
      <4>1. WithStore = storeBuffer /\ AfterMem.mem = MemoryNow
        BY <2>4, <2>6, <3>4 DEF WithStore
      <4> QED BY <1>4, <3>2, <4>1, MemoryIs
    <3> QED BY <3>3, <3>4
  <2> QED BY <2>7, <2>8
<1> QED BY <1>6, <1>7
-----------------------------------------------------------------------------
(* Operands.                                                               *)

(* The registers behind the instruction in ID/EX. *)
FrontRegs == IF Holds(idEx) THEN Machine!Exec(AfterMem).regs ELSE AfterMem.regs

LEMMA AfterMemReads ==
  ASSUME Typed, ExecutedRight
  PROVE  /\ \E V : AfterMem.regs \in [Regs -> V]
         /\ \A r \in RegNumbers :
              /\ ~WritesTo(exMem, r) => Read(AfterMem.regs, r) = Read(CommittedRegs, r)
              /\ FromExMem(r) => Read(AfterMem.regs, r) = exMem.result
<1>1. CommittedRegs \in [Regs -> Int]
  BY CommittedType
<1>2. CASE ~Holds(exMem)
  <2>1. AfterMem.regs = CommittedRegs
    BY <1>2, NowIs DEF AfterMem
  <2> QED BY <1>1, <1>2, <2>1 DEF FromExMem, WritesTo
<1>3. CASE Holds(exMem)
  <2> DEFINE i == InstrOf(exMem)
             x == IF i.op = "lw" THEN MemoryNow[exMem.result] ELSE exMem.result
  <2>1. Now.pc = exMem.pc /\ Now.regs = CommittedRegs /\ Now.mem = MemoryNow /\ At(Now) = i
    BY <1>3, NowIs DEF OldestPc, At, InstrOf
  <2>2. exMem.result = ResultOf(Now)
    BY <1>3, <2>1 DEF ExecutedRight, ResultOf, FirstOf, SecondOf
  <2>3. AfterMem.regs = Updated(CommittedRegs, i, x)
    BY <1>3, <2>1, <2>2, ExecIs DEF AfterMem
  <2>4. Updated(CommittedRegs, i, x) \in [Regs -> Int \cup {x}]
    <3> HIDE DEF i, x
    <3> QED BY <1>1 DEF Updated
  <2>5. ASSUME NEW r \in RegNumbers
        PROVE  Read(AfterMem.regs, r) = IF WritesTo(exMem, r) THEN x ELSE Read(CommittedRegs, r)
    <3>1. Holding(exMem)
      BY LatchTypes
    <3> HIDE DEF x
    <3> QED BY <1>1, <1>3, <2>3, <3>1, OverlaidFacts
  <2>6. \A r : FromExMem(r) => WritesTo(exMem, r) /\ x = exMem.result
    BY <1>3 DEF FromExMem, Is
  <2> HIDE DEF x
  <2> QED BY <2>3, <2>4, <2>5, <2>6
<1> QED BY <1>2, <1>3

LEMMA FrontReads ==
  ASSUME Typed, InOrder, NEW r \in RegNumbers, ~WritesTo(idEx, r)
  PROVE  Read(FrontRegs, r) = Read(AfterMem.regs, r)
<1>1. CASE ~Holds(idEx)
  BY <1>1 DEF FrontRegs
<1>2. CASE Holds(idEx)
  <2> DEFINE s == AfterMem
             x == IF At(s).op = "lw" THEN s.mem[ResultOf(s)] ELSE ResultOf(s)
  <2>1. At(s) = InstrOf(idEx)
    BY <1>2 DEF InOrder, DecodedRight, At, InstrOf
  <2>2. FrontRegs = Updated(s.regs, InstrOf(idEx), x)
    BY <1>2, <2>1, ExecIs DEF FrontRegs
  <2>3. PICK V : s.regs \in [Regs -> V]
    BY AfterMemReads DEF InOrder
  <2>4. Holding(idEx)
    BY LatchTypes
  <2> HIDE DEF s, x
  <2>5. Read(FrontRegs, r) = Read(s.regs, r)
    BY <1>2, <2>2, <2>3, <2>4, OverlaidFacts
  <2> QED BY <2>5 DEF s
<1> QED BY <1>1, <1>2

(* ALUOperand is the operand. *)
LEMMA OperandUsed ==
  ASSUME Typed, KeptBack, InOrder, bubbles = 0, NEW r \in RegNumbers, NEW x, OperandRight(r, x)
  PROVE  ALUOperand(r, x) = Read(AfterMem.regs, r)
<1>1. CASE ~Forwarding
  BY <1>1 DEF OperandRight, ALUOperand
<1>2. CASE Forwarding
  <2>1. WritesTo(exMem, r) => FromExMem(r)
    BY <1>2 DEF OperandRight, FromExMem
  <2>2. Read(CommittedRegs, r) = IF WritesTo(memWb, r) THEN memWb.value ELSE Read(regs, r)
    BY CommittedIs
  <2>3. ~WritesTo(wbBuffer, r)
    BY DEF KeptBack, WritesTo
  <2>4. CASE FromExMem(r)
    BY <1>2, <2>4, AfterMemReads DEF InOrder, ALUOperand
  <2>5. CASE ~FromExMem(r)
    <3>1. Read(AfterMem.regs, r) = Read(CommittedRegs, r)
      BY <2>1, <2>5, AfterMemReads DEF InOrder
    <3>2. ~WritesTo(memWb, r) => x = Read(regs, r)
      BY <1>2, <2>1, <2>3, <2>5 DEF OperandRight, NotOnItsWay
    <3> QED BY <1>2, <2>2, <2>5, <3>1, <3>2 DEF ALUOperand
  <2> QED BY <2>4, <2>5
<1> QED BY <1>1, <1>2

(* What the hazard unit has looked for is not there. *)
LEMMA NoHazard ==
  ASSUME Typed, Holds(ifId), ~DecodeHazard, NEW r \in {InstrOf(ifId).rs1, InstrOf(ifId).rs2}
  PROVE  /\ r \in RegNumbers
         /\ ~Forwarding => ~WritesTo(idEx, r) /\ ~WritesTo(exMem, r) /\ ~WritesTo(memWb, r)
         /\ Forwarding => ~(Is(idEx, {"lw"}) /\ WritesTo(idEx, r))
         /\ Forwarding /\ Is(ifId, Branches) =>
              ~WritesTo(idEx, r) /\ ~(Is(exMem, {"lw"}) /\ WritesTo(exMem, r))
<1>1. r \in RegNumbers
  BY LatchTypes DEF Holding, Instrs
<1>2. \A latch : WritesTo(latch, r) => NeedsFrom(latch)
  <2> TAKE latch
  <2> HAVE WritesTo(latch, r)
  <2>1. r # NoReg
    BY DEF WritesTo, Produces
  <2> QED BY <2>1 DEF NeedsFrom, Sources
<1> QED BY <1>1, <1>2 DEF DecodeHazard, LoadUseHazard, BranchHazard, AnyHazard

(* What decode reads is right, when it must be. *)
LEMMA DecodeReads ==
  ASSUME Typed, KeptBack, InOrder, bubbles = 0, WriteBack, Holds(ifId), ~DecodeHazard,
         Forwarding => Is(ifId, Branches),
         NEW r \in {InstrOf(ifId).rs1, InstrOf(ifId).rs2}
  PROVE  DecodeOperand(r) = Read(FrontRegs, r)
<1>1. r \in RegNumbers /\ ~WritesTo(idEx, r)
  BY NoHazard
<1>2. /\ Read(regs', r) = Read(CommittedRegs, r)
      /\ WritesTo(memWb, r) => Read(CommittedRegs, r) = memWb.value
  BY <1>1, CommittedIs
<1>3. Read(FrontRegs, r) = Read(AfterMem.regs, r)
  BY <1>1, FrontReads
<1>4. CASE ~Forwarding
  <2>1. Read(AfterMem.regs, r) = Read(CommittedRegs, r)
    BY <1>1, <1>4, NoHazard, AfterMemReads DEF InOrder
  <2> QED BY <1>2, <1>3, <1>4, <2>1 DEF DecodeOperand
<1>5. CASE Forwarding
  <2>1. WritesTo(exMem, r) => FromExMem(r)
    BY <1>5, NoHazard DEF FromExMem
  <2>2. CASE FromExMem(r)
    BY <1>1, <1>3, <1>5, <2>2, AfterMemReads DEF InOrder, DecodeOperand
  <2>3. CASE ~FromExMem(r)
    <3>1. Read(AfterMem.regs, r) = Read(CommittedRegs, r)
      BY <1>1, <2>1, <2>3, AfterMemReads DEF InOrder
    <3> QED BY <1>2, <1>3, <2>3, <3>1 DEF DecodeOperand
  <2> QED BY <2>2, <2>3
<1> QED BY <1>4, <1>5
-----------------------------------------------------------------------------
(* The state after a cycle.                                                *)

LEMMA NextStateIs ==
  ASSUME prog' = prog
  PROVE  /\ Now' = [pc |-> OldestPc', regs |-> CommittedRegs', mem |-> MemoryNow']
         /\ AfterMem' = IF Holds(exMem') THEN Machine!Exec(Now') ELSE Now'
         /\ Machine!Exec(AfterMem)' = Machine!Exec(AfterMem')
         /\ Machine!AtTakenBranch(AfterMem)' <=> Machine!AtTakenBranch(AfterMem')
<1>1. Now' = [pc |-> OldestPc', regs |-> CommittedRegs', mem |-> MemoryNow']
  BY DEF Now, Machine!Now, MemoryNow
<1>2. Machine!Exec(Now)' = Machine!Exec(Now')
  BY DEF Machine!Exec, Machine!InstrAt
<1>3. Machine!Exec(AfterMem)' = Machine!Exec(AfterMem')
  BY DEF Machine!Exec, Machine!InstrAt
<1>4. Machine!AtTakenBranch(AfterMem)' <=> Machine!AtTakenBranch(AfterMem')
  BY DEF Machine!AtTakenBranch, Machine!Running, Machine!InstrAt
<1>5. AfterMem' = IF Holds(exMem') THEN Machine!Exec(Now)' ELSE Now'
  BY DEF AfterMem, Holds, Bubble
<1> QED BY <1>1, <1>2, <1>3, <1>4, <1>5

LEMMA ExecuteFacts ==
  ASSUME Typed, Execute, prog' = prog
  PROVE  /\ ~Holds(idEx) => exMem' = Bubble
         /\ Holds(idEx) =>
              LET i == InstrOf(idEx)
                  a == ALUOperand(i.rs1, idEx.a)
                  b == ALUOperand(i.rs2, idEx.b)
              IN /\ Holds(exMem') /\ exMem'.pc = idEx.pc /\ InstrOf(exMem)' = i
                 /\ exMem'.result = Result(i, idEx.pc, a, b) /\ exMem'.b = b
<1>1. CASE ~Holds(idEx)
  BY <1>1 DEF Execute
<1>2. CASE Holds(idEx)
  <2> DEFINE i == InstrOf(idEx)
             a == ALUOperand(i.rs1, idEx.a)
             b == ALUOperand(i.rs2, idEx.b)
  <2>1. exMem' = [pc |-> idEx.pc, result |-> Result(i, idEx.pc, a, b), b |-> b]
    BY <1>2 DEF Execute
  <2>2. idEx.pc \in Nat /\ Bubble.pc = -4
    BY <1>2, LatchTypes, InstrFacts DEF Holding, Typed, Bubble
  <2> HIDE DEF i, a, b
  <2>3. exMem'.pc = idEx.pc /\ exMem'.result = Result(i, idEx.pc, a, b) /\ exMem'.b = b
    BY <2>1
  <2>4. Holds(exMem')
    <3>1. exMem'.pc # Bubble.pc
      BY <2>2, <2>3
    <3> QED BY <3>1 DEF Holds
  <2>5. InstrOf(exMem)' = i
    BY <2>3 DEF InstrOf, i
  <2> QED BY <1>2, <2>3, <2>4, <2>5 DEF i, a, b
<1> QED BY <1>1, <1>2

(* The instruction that leaves ID/EX has executed right. *)
LEMMA ExecutedNext ==
  ASSUME Typed, KeptBack, InOrder, bubbles = 0, Execute, prog' = prog, Holds(idEx),
         Now' = AfterMem
  PROVE  ExecutedRight' /\ AfterMem' = Machine!Exec(AfterMem)
<1> DEFINE i == InstrOf(idEx)
           a == ALUOperand(i.rs1, idEx.a)
           b == ALUOperand(i.rs2, idEx.b)
<1>1. /\ Holds(exMem') /\ exMem'.pc = idEx.pc /\ InstrOf(exMem)' = i
      /\ exMem'.result = Result(i, idEx.pc, a, b) /\ exMem'.b = b
  BY ExecuteFacts
<1>2. a = Read(AfterMem.regs, i.rs1) /\ b = Read(AfterMem.regs, i.rs2)
  <2>1. i.rs1 \in RegNumbers /\ i.rs2 \in RegNumbers
    BY LatchTypes DEF Holding, Instrs
  <2>2. OperandRight(i.rs1, idEx.a) /\ OperandRight(i.rs2, idEx.b)
    BY DEF InOrder, DecodedRight
  <2> QED BY <2>1, <2>2, OperandUsed
<1>3. AfterMem' = Machine!Exec(AfterMem)
  BY <1>1, NextStateIs
<1> HIDE DEF i, a, b
<1>4. ExecutedRight'
  BY <1>1, <1>2 DEF ExecutedRight
<1> QED BY <1>3, <1>4

(* With forwarding, what decode passes on is right or on its way. *)
LEMMA ForwardedLater ==
  ASSUME Typed, KeptBack, InOrder, Forwarding, Advance, Holds(ifId),
         NEW r \in {InstrOf(ifId).rs1, InstrOf(ifId).rs2}
  PROVE  /\ NotOnItsWay(r)' => DecodeOperand(r) = Read(regs', r)
         /\ ~(Is(exMem, {"lw"}) /\ WritesTo(exMem, r))'
<1>1. /\ bubbles = 0 /\ WriteBack /\ Memory /\ Execute /\ ~DecodeHazard /\ prog' = prog
  BY DEF Advance, Cycling
<1>2. ~(Is(exMem, {"lw"}) /\ WritesTo(exMem, r))'
  <2>1. Is(exMem, {"lw"})' /\ WritesTo(exMem, r)' => Is(idEx, {"lw"}) /\ WritesTo(idEx, r)
    <3>1. CASE ~Holds(idEx)
      BY <1>1, <3>1, ExecuteFacts DEF Is, Holds
    <3>2. CASE Holds(idEx)
      BY <1>1, <3>2, ExecuteFacts DEF Is, WritesTo
    <3> QED BY <3>1, <3>2
  <2> QED BY <1>1, <2>1, NoHazard
<1>3. ASSUME NotOnItsWay(r)' PROVE DecodeOperand(r) = Read(regs', r)
  <2>1. r \in RegNumbers
    BY <1>1, NoHazard
  <2>2. ~WritesTo(exMem, r)
    <3> SUFFICES ASSUME WritesTo(exMem, r) PROVE FALSE
      OBVIOUS
    <3>1. Holds(exMem) /\ Produces(InstrOf(exMem)) /\ InstrOf(exMem).rd = r
      BY DEF WritesTo
    <3>2. memWb' = MemOutput \/ wbBuffer' = MemOutput
      BY <1>1, <3>1, MemoryGives
    <3>3. Holds(MemOutput) /\ MemOutput.pc = exMem.pc
      BY <3>1, MemOutputFacts
    <3>4. WritesTo(memWb, r)' \/ WritesTo(wbBuffer, r)'
      BY <1>1, <3>1, <3>2, <3>3 DEF WritesTo, Holds, InstrOf, Bubble
    <3> QED BY <1>3, <3>4 DEF NotOnItsWay
  <2>3. ~FromExMem(r)
    BY <2>2 DEF FromExMem
  <2>4. WritesTo(memWb, r) => memWb.value = Read(regs', r)
    BY <1>1, <2>1, CommittedIs
  <2> QED BY <2>3, <2>4 DEF DecodeOperand
<1> QED BY <1>2, <1>3
-----------------------------------------------------------------------------
(* The front end.                                                          *)

(* The machine's state before the instruction to be decoded next. *)
FrontState == [pc |-> FrontPc, regs |-> FrontRegs,
               mem |-> IF Holds(idEx) THEN Machine!Exec(AfterMem).mem ELSE AfterMem.mem]

LEMMA FrontStateIs ==
  ASSUME InOrder
  PROVE  /\ FrontState.pc = FrontPc /\ FrontState.regs = FrontRegs
         /\ Holds(idEx) => FrontState = Machine!Exec(AfterMem)
         /\ ~Holds(idEx) =>
              \/ FrontState = AfterMem
              \/ /\ Holds(exMem) /\ Machine!AtTakenBranch(AfterMem)
                 /\ FrontState = Machine!Exec(AfterMem)
<1>1. FrontState.pc = FrontPc /\ FrontState.regs = FrontRegs /\ IsState(FrontState)
  BY DEF FrontState, IsState
<1>2. CASE Holds(idEx)
  <2>1. FrontState.mem = Machine!Exec(AfterMem).mem
    BY <1>2 DEF FrontState
  <2>2. FrontPc = Machine!Exec(AfterMem).pc /\ FrontRegs = Machine!Exec(AfterMem).regs
    BY <1>2 DEF InOrder, FetchedRight, FrontRegs
  <2> QED BY <1>1, <1>2, <2>1, <2>2, StateFacts
<1>3. CASE ~Holds(idEx)
  <2>1. FrontState.mem = AfterMem.mem /\ FrontRegs = AfterMem.regs
    BY <1>3 DEF FrontState, FrontRegs
  <2>2. CASE AfterMem.pc = FrontPc
    BY <1>1, <1>3, <2>1, <2>2, StateFacts
  <2>3. CASE Holds(exMem) /\ Machine!AtTakenBranch(AfterMem) /\ Machine!Exec(AfterMem).pc = FrontPc
    <3>1. Machine!Exec(AfterMem).regs = FrontRegs /\ Machine!Exec(AfterMem).mem = FrontState.mem
      BY <2>1, <2>3, TakenIs, BranchKeeps
    <3> QED BY <1>1, <1>3, <2>3, <3>1, StateFacts
  <2> QED BY <1>3, <2>2, <2>3 DEF InOrder, FetchedRight
<1> QED BY <1>1, <1>2, <1>3

(* Decode decides branches as the machine does. *)
LEMMA DecodeDecides ==
  ASSUME Typed, KeptBack, InOrder, Advance, Holds(ifId)
  PROVE  LET i == InstrOf(ifId)
             a == DecodeOperand(i.rs1)
             b == DecodeOperand(i.rs2)
         IN /\ TakenBranch(i, a, b) <=> Machine!AtTakenBranch(FrontState)
            /\ FrontPc' = Machine!Exec(FrontState).pc
            /\ FrontState.pc = ifId.pc /\ ifId.pc < End
            /\ idEx' = IF TakenBranch(i, a, b) THEN Bubble
                       ELSE [pc |-> ifId.pc, a |-> a, b |-> b, counter |-> 0]
<1> DEFINE i == InstrOf(ifId)
           a == DecodeOperand(i.rs1)
           b == DecodeOperand(i.rs2)
           s == FrontState
<1>1. /\ bubbles = 0 /\ WriteBack /\ ~DecodeHazard /\ DecodeAndFetch /\ prog' = prog
      /\ regs' \in [Regs -> Int]
  BY WriteBackType DEF Advance, Cycling
<1>2. s.pc = ifId.pc /\ At(s) = i /\ s.regs = FrontRegs
  BY FrontStateIs DEF FrontPc, At, InstrOf
<1>3. ifId.pc < End
  BY LatchTypes, InstrFacts DEF Holding, Typed
<1>4. /\ idEx' = IF TakenBranch(i, a, b) THEN Bubble
                 ELSE [pc |-> ifId.pc, a |-> a, b |-> b, counter |-> 0]
      /\ FrontPc' = IF Redirects(i, a, b) THEN ifId.pc + i.imm ELSE ifId.pc + 4
  BY <1>1, DecodeFacts
<1>5. TakenBranch(i, a, b) <=> TakenBranch(i, FirstOf(s), SecondOf(s))
  <2>1. CASE i.op \in Branches
    <3>1. Is(ifId, Branches)
      BY <2>1 DEF Is
    <3>2. a = Read(FrontRegs, i.rs1) /\ b = Read(FrontRegs, i.rs2)
      BY <1>1, <3>1, DecodeReads
    <3> QED BY <1>2, <3>2 DEF FirstOf, SecondOf
  <2>2. CASE i.op \notin Branches
    BY <2>2 DEF TakenBranch, Branches
  <2> QED BY <2>1, <2>2
<1> HIDE DEF i, a, b, s
<1>6. TakenBranch(i, a, b) <=> Machine!AtTakenBranch(s)
  BY <1>2, <1>3, <1>5, TakenIs DEF TakenAt
<1>7. FrontPc' = Machine!Exec(s).pc
  BY <1>2, <1>4, <1>5, ExecIs DEF Redirects
<1> QED BY <1>2, <1>3, <1>4, <1>6, <1>7 DEF i, a, b, s

(* The instruction decode passes on has what it needs. *)
LEMMA DecodedNext ==
  ASSUME Typed, KeptBack, InOrder, Advance, Holds(ifId),
         ~Machine!AtTakenBranch(FrontState),
         AfterMem'.pc = FrontPc, AfterMem'.regs = FrontRegs
  PROVE  Holds(idEx') /\ idEx'.pc = ifId.pc /\ DecodedRight'
<1> DEFINE i == InstrOf(ifId)
           a == DecodeOperand(i.rs1)
           b == DecodeOperand(i.rs2)
<1>1. bubbles = 0 /\ WriteBack /\ ~DecodeHazard /\ prog' = prog
  BY DEF Advance, Cycling
<1>2. idEx' = [pc |-> ifId.pc, a |-> a, b |-> b, counter |-> 0]
  BY DecodeDecides
<1>3. PICK r1, r2 : r1 = i.rs1 /\ r2 = i.rs2
  OBVIOUS
<1>4. ~Forwarding => a = Read(FrontRegs, r1) /\ b = Read(FrontRegs, r2)
  BY <1>1, <1>3, DecodeReads
<1>5. Forwarding => /\ NotOnItsWay(r1)' => a = Read(regs', r1)
                    /\ ~(Is(exMem, {"lw"}) /\ WritesTo(exMem, r1))'
                    /\ NotOnItsWay(r2)' => b = Read(regs', r2)
                    /\ ~(Is(exMem, {"lw"}) /\ WritesTo(exMem, r2))'
  <2>1. r1 \in {i.rs1, i.rs2} /\ r2 \in {i.rs1, i.rs2} /\ a = DecodeOperand(r1) /\ b = DecodeOperand(r2)
    BY <1>3
  <2> HIDE DEF a, b
  <2> QED BY <2>1, ForwardedLater
<1>6. ifId.pc \in Nat /\ Bubble.pc = -4
  BY LatchTypes, InstrFacts DEF Holding, Typed, Bubble
<1> HIDE DEF a, b
<1>7. idEx'.pc = ifId.pc /\ idEx'.a = a /\ idEx'.b = b
  BY <1>2
<1>8. Holds(idEx')
  BY <1>6, <1>7 DEF Holds
<1>9. InstrOf(idEx)' = i
  BY <1>1, <1>7 DEF InstrOf
<1>10. AfterMem'.pc = ifId.pc
  BY DEF FrontPc
<1> HIDE DEF i
<1>11. InstrOf(idEx)'.rs1 = r1 /\ InstrOf(idEx)'.rs2 = r2
  BY <1>3, <1>9
<1>12. DecodedRight'
  BY <1>4, <1>5, <1>7, <1>10, <1>11 DEF DecodedRight, OperandRight
<1> QED BY <1>7, <1>8, <1>12
-----------------------------------------------------------------------------
(* Every step.                                                             *)

(* What the refinement needs of the run: no load is forwarded a value too  *)
(* wide for a word, and no instruction loses an operand while it waits.    *)
Allowed == LoadsWords /\ ~LosesOperand

Good == Typed /\ KeptBack /\ InOrder

(* The operands of the instruction in ID/EX. *)
Operands == {InstrOf(idEx).rs1, InstrOf(idEx).rs2}

(* What was read of r stays right, or on its way. *)
Stays(r) == NotOnItsWay(r)' => NotOnItsWay(r) /\ Read(regs', r) = Read(regs, r)

(* An instruction that waits in EX and loses no operand: each is still on  *)
(* its way after the cycle, or was not before it and is not changed.       *)
LEMMA OperandStays ==
  ASSUME Typed, KeptBack, Allowed, Forwarding, WriteBack, prog' = prog, bubbles = 0,
         Holds(idEx), SBStalls \/ ExecuteBusy, exMem' = exMem \/ Memory, NEW r \in Operands
  PROVE  Stays(r)
<1>1. \A latch : WritesTo(latch, NoReg) <=> FALSE
  BY DEF WritesTo, Produces
<1>2. Operands \subseteq Sources(InstrOf(idEx)) \cup {NoReg}
  BY DEF Operands, Sources
<1>3. CASE WritesTo(exMem, r)
  <2>1. Holds(exMem) /\ exMem.pc \in Nat /\ Bubble.pc = -4
    BY <1>3, LatchTypes, PositionFacts DEF WritesTo, Holding, Typed, Bubble
  <2>2. exMem' = exMem => WritesTo(exMem, r)'
    BY <1>3 DEF WritesTo, InstrOf, Holds, Bubble
  <2>3. MemOutput.pc = exMem.pc
    BY DEF MemOutput
  <2>4. ASSUME Memory PROVE memWb' = MemOutput \/ wbBuffer' = MemOutput
    BY <2>1, <2>4 DEF Memory, Delayed
  <2>5. \A latch : latch.pc = exMem.pc => Holds(latch)
    BY <2>1 DEF Holds
  <2>6. memWb' = MemOutput => WritesTo(memWb, r)'
    BY <1>3, <2>3, <2>5 DEF WritesTo, InstrOf
  <2>7. wbBuffer' = MemOutput => WritesTo(wbBuffer, r)'
    BY <1>3, <2>3, <2>5 DEF WritesTo, InstrOf
  <2> QED BY <2>2, <2>4, <2>6, <2>7 DEF Stays, NotOnItsWay
<1>4. CASE ~WritesTo(exMem, r)
  <2>1. ~WritesTo(memWb, r)
    BY <1>1, <1>2, <1>4 DEF Allowed, LosesOperand
  <2>2. ~WritesTo(wbBuffer, r)
    BY DEF KeptBack, WritesTo
  <2>3. Read(regs', r) = Read(regs, r)
    BY <2>1 DEF WriteBack, WritesTo, Updated, Read, Typed, TypeOK
  <2> QED BY <1>4, <2>1, <2>2, <2>3 DEF Stays, NotOnItsWay
<1> QED BY <1>3, <1>4

(* A step that leaves the machine's state and the latches' instructions    *)
(* alone keeps them in order.                                              *)
LEMMA SameKeepsOrder ==
  ASSUME Typed, InOrder, prog' = prog, exMem' = exMem, ifId' = ifId, pc' = pc,
         idEx' = idEx \/ idEx' = Counted,
         CommittedRegs' = CommittedRegs, MemoryNow' = MemoryNow,
         Forwarding /\ Holds(idEx) => \A r \in Operands : Stays(r)
  PROVE  InOrder' /\ Now' = Now
<1>1. /\ Holds(idEx') <=> Holds(idEx)
      /\ idEx'.pc = idEx.pc
      /\ Holds(idEx) => idEx'.a = idEx.a /\ idEx'.b = idEx.b
  BY CountedFacts
<1>2. OldestPc' = OldestPc /\ FrontPc' = FrontPc
  BY <1>1 DEF OldestPc, FrontPc, Holds, Bubble
<1>3. Now' = Now
  BY <1>2, NowIs, NextStateIs
<1>4. AfterMem' = AfterMem
  BY <1>3, NextStateIs DEF AfterMem
<1>5. ExecutedRight'
  <2>1. ExecutedRight
    BY DEF InOrder
  <2> QED BY <1>3, <2>1 DEF ExecutedRight, InstrOf, Holds, Bubble
<1>6. FetchedRight'
  BY <1>1, <1>2, <1>4, NextStateIs DEF InOrder, FetchedRight, Holds, Bubble
<1>7. DecodedRight'
  <2> SUFFICES ASSUME Holds(idEx') PROVE DecodedRight'
    BY DEF DecodedRight, Holds, Bubble
  <2>1. PICK r1, r2 : r1 = InstrOf(idEx).rs1 /\ r2 = InstrOf(idEx).rs2
    OBVIOUS
  <2>2. InstrOf(idEx)'.rs1 = r1 /\ InstrOf(idEx)'.rs2 = r2
    BY <1>1, <2>1 DEF InstrOf
  <2>3. /\ idEx.pc = AfterMem.pc /\ OperandRight(r1, idEx.a) /\ OperandRight(r2, idEx.b)
    BY <1>1, <2>1 DEF InOrder, DecodedRight
  <2>5. Forwarding => Stays(r1) /\ Stays(r2)
    BY <1>1, <2>1 DEF Operands
  <2>4. \A r : (Is(exMem, {"lw"}) /\ WritesTo(exMem, r))' <=> (Is(exMem, {"lw"}) /\ WritesTo(exMem, r))
    BY DEF Is, WritesTo, InstrOf, Holds, Bubble
  <2> QED BY <1>1, <1>4, <2>2, <2>3, <2>4, <2>5 DEF DecodedRight, OperandRight, Stays
<1> QED BY <1>3, <1>5, <1>6, <1>7 DEF InOrder

LEMMA FrozenStep ==
  ASSUME Good, Allowed, Frozen
  PROVE  InOrder' /\ Now' = Now
<1>1. /\ Typed /\ KeptBack /\ InOrder /\ WriteBack /\ prog' = prog
      /\ exMem' = exMem /\ ifId' = ifId /\ pc' = pc
  BY CycleFacts DEF Good, FetchStalled
<1>2. idEx' = idEx \/ idEx' = Counted
  BY DEF Frozen, MemoryStall, StoreBufferStall
<1>3. CommittedRegs' = CommittedRegs /\ MemoryNow' = MemoryNow
  BY <1>1, FrozenCommits
<1>4. ASSUME Forwarding, Holds(idEx), NEW r \in Operands
      PROVE  Stays(r)
  <2>1. CASE MemoryStall
    <3>1. ~Holds(memWb) /\ regs' = regs
      BY <1>1, <2>1 DEF MemoryStall, KeptBack, WriteBack, Typed, TypeOK
    <3>2. \/ memWb' = wbBuffer /\ wbBuffer' = Bubble
          \/ memWb' = Bubble /\ wbBuffer' = wbBuffer
      BY <2>1 DEF MemoryStall
    <3>3. WritesTo(exMem, r)' <=> WritesTo(exMem, r)
      BY <1>1 DEF WritesTo, InstrOf, Holds, Bubble
    <3>4. WritesTo(wbBuffer, r) => WritesTo(memWb, r)' \/ WritesTo(wbBuffer, r)'
      BY <1>1, <3>2 DEF WritesTo, InstrOf, Holds, Bubble
    <3>5. ~WritesTo(memWb, r)
      BY <3>1 DEF WritesTo
    <3> QED BY <3>1, <3>3, <3>4, <3>5 DEF Stays, NotOnItsWay
  <2>2. CASE StoreBufferStall
    <3>1. bubbles = 0 /\ SBStalls
      BY <2>2 DEF StoreBufferStall
    <3> QED BY <1>1, <1>4, <3>1, OperandStays
  <2> QED BY <2>1, <2>2 DEF Frozen
<1> QED BY <1>1, <1>2, <1>3, <1>4, SameKeepsOrder

(* A cycle in which MEM goes on, with an instruction in ID/EX.  It is what *)
(* the machine runs next.                                                  *)
LEMMA MovingStepHeld ==
  ASSUME Good, Allowed, Moving, Holds(idEx)
  PROVE  InOrder' /\ Now' = AfterMem
<1>1. /\ Typed /\ KeptBack /\ InOrder /\ bubbles = 0 /\ prog' = prog
      /\ ExecutedRight /\ DecodedRight /\ FetchedRight /\ LoadsWords
  BY CycleFacts DEF Good, InOrder, Allowed
<1>2. CommittedRegs' = AfterMem.regs /\ MemoryNow' = AfterMem.mem
  BY <1>1, MovingCommits
<1>3. idEx.pc = AfterMem.pc
  BY <1>1 DEF DecodedRight
<1>4. ASSUME OldestPc' = idEx.pc PROVE Now' = AfterMem
  <2>1. Now'.pc = AfterMem.pc /\ Now'.regs = AfterMem.regs /\ Now'.mem = AfterMem.mem
    BY <1>1, <1>2, <1>3, <1>4, NextStateIs
  <2>2. IsState(Now')
    BY <1>1, NextStateIs DEF IsState
  <2> QED BY <2>1, <2>2, StateFacts
<1>5. CASE ExecuteStall
  <2>1. /\ exMem' = Bubble /\ idEx' = Counted /\ ifId' = ifId /\ pc' = pc
        /\ ExecuteBusy /\ WriteBack /\ Memory
    BY <1>1, <1>5 DEF ExecuteStall, FetchStalled
  <2>2. /\ Holds(idEx') /\ idEx'.pc = idEx.pc /\ idEx'.a = idEx.a /\ idEx'.b = idEx.b
        /\ ~Holds(exMem')
    BY <1>1, <2>1, CountedFacts DEF Holds
  <2>3. Now' = AfterMem
    BY <1>4, <2>2 DEF OldestPc, Holds, Bubble
  <2>4. AfterMem' = AfterMem
    BY <1>1, <2>2, <2>3, NextStateIs
  <2>5. ExecutedRight'
    BY <2>2 DEF ExecutedRight, Holds, Bubble
  <2>6. DecodedRight'
    <3>1. InstrOf(idEx)' = InstrOf(idEx)
      BY <1>1, <2>2 DEF InstrOf
    <3>2. ASSUME Forwarding, NEW r \in Operands PROVE Stays(r)
      BY <1>1, <2>1, <3>2, OperandStays
    <3>3. ASSUME NEW r \in Operands, NEW x, OperandRight(r, x) PROVE OperandRight(r, x)'
      <4>1. CASE Forwarding
        BY <2>2, <3>2, <3>3, <4>1 DEF OperandRight, Stays, Is
      <4>2. CASE ~Forwarding
        BY <2>4, <3>3, <4>2 DEF OperandRight
      <4> QED BY <4>1, <4>2
    <3> QED BY <1>1, <1>3, <2>2, <2>4, <3>1, <3>3 DEF DecodedRight, Operands
  <2>7. FetchedRight'
    BY <1>1, <2>1, <2>2, <2>4, NextStateIs DEF FetchedRight, FrontPc, Holds, Bubble
  <2> QED BY <2>3, <2>5, <2>6, <2>7 DEF InOrder
<1>6. CASE DecodeStall \/ Advance
  <2>1. Execute
    BY <1>6 DEF DecodeStall, Advance
  <2>2. Holds(exMem') /\ exMem'.pc = idEx.pc
    BY <1>1, <2>1, ExecuteFacts
  <2>3. Now' = AfterMem
    BY <1>4, <2>2 DEF OldestPc, Holds, Bubble
  <2>4. ExecutedRight' /\ AfterMem' = Machine!Exec(AfterMem)
    BY <1>1, <2>1, <2>3, ExecutedNext
  <2>5. FrontState = Machine!Exec(AfterMem) /\ FrontState.pc = FrontPc /\ FrontState.regs = FrontRegs
    BY <1>1, FrontStateIs
  <2>6. ASSUME idEx' = Bubble, FrontPc' = FrontPc PROVE InOrder'
    <3>1. DecodedRight'
      BY <2>6 DEF DecodedRight, Holds, Bubble
    <3>2. FetchedRight'
      BY <2>4, <2>5, <2>6 DEF FetchedRight, Holds, Bubble
    <3> QED BY <2>4, <3>1, <3>2 DEF InOrder
  <2>7. CASE DecodeStall
    BY <2>3, <2>6, <2>7 DEF DecodeStall, FetchStalled, FrontPc, Holds, Bubble
  <2>8. CASE Advance /\ ~Holds(ifId)
    <3>1. regs' \in [Regs -> Int] /\ DecodeAndFetch
      BY <1>1, <2>8, WriteBackType DEF Advance
    <3>2. idEx' = Bubble /\ FrontPc' = FrontPc
      BY <1>1, <2>8, <3>1, DecodeFacts
    <3> QED BY <2>3, <2>6, <3>2
  <2>9. CASE Advance /\ Holds(ifId) /\ Machine!AtTakenBranch(FrontState)
    <3>1. idEx' = Bubble /\ FrontPc' = Machine!Exec(FrontState).pc
      BY <1>1, <2>9, DecodeDecides
    <3>2. DecodedRight'
      BY <3>1 DEF DecodedRight, Holds, Bubble
    <3>3. Machine!AtTakenBranch(AfterMem)' /\ Machine!Exec(AfterMem)'.pc = FrontPc'
      BY <1>1, <2>4, <2>5, <2>9, <3>1, NextStateIs
    <3>4. FetchedRight'
      BY <2>2, <3>1, <3>3 DEF FetchedRight, Holds, Bubble
    <3> QED BY <2>3, <2>4, <3>2, <3>4 DEF InOrder
  <2>10. CASE Advance /\ Holds(ifId) /\ ~Machine!AtTakenBranch(FrontState)
    <3>1. FrontPc' = Machine!Exec(FrontState).pc
      BY <1>1, <2>10, DecodeDecides
    <3>2. Holds(idEx') /\ DecodedRight'
      BY <1>1, <2>4, <2>5, <2>10, DecodedNext
    <3>3. Machine!Exec(AfterMem)'.pc = FrontPc'
      BY <1>1, <2>4, <2>5, <3>1, NextStateIs
    <3>4. FetchedRight'
      BY <3>2, <3>3 DEF FetchedRight, Holds, Bubble
    <3> QED BY <2>3, <2>4, <3>2, <3>4 DEF InOrder
  <2> QED BY <1>6, <2>7, <2>8, <2>9, <2>10
<1> QED BY <1>5, <1>6 DEF Moving

(* ... and with a bubble there: the machine is where the front end is, or  *)
(* past the branch decode has just taken.                                  *)
LEMMA MovingStepEmpty ==
  ASSUME Good, Allowed, Moving, ~Holds(idEx)
  PROVE  /\ InOrder'
         /\ \/ Now' = FrontState
            \/ Machine!AtTakenBranch(FrontState) /\ Now' = Machine!Exec(FrontState)
<1>1. /\ Typed /\ KeptBack /\ InOrder /\ bubbles = 0 /\ prog' = prog
      /\ ExecutedRight /\ DecodedRight /\ FetchedRight /\ LoadsWords
  BY CycleFacts DEF Good, InOrder, Allowed
<1>2. CommittedRegs' = AfterMem.regs /\ MemoryNow' = AfterMem.mem
  BY <1>1, MovingCommits
<1>3. /\ FrontState.pc = FrontPc /\ FrontState.regs = AfterMem.regs
      /\ FrontState.mem = AfterMem.mem /\ IsState(FrontState)
  BY <1>1 DEF FrontState, FrontRegs, IsState
<1>4. ASSUME OldestPc' = FrontPc PROVE Now' = FrontState
  <2>1. /\ Now'.pc = FrontState.pc /\ Now'.regs = FrontState.regs
        /\ Now'.mem = FrontState.mem /\ IsState(Now')
    BY <1>1, <1>2, <1>3, <1>4, NextStateIs DEF IsState
  <2> QED BY <1>3, <2>1, StateFacts
<1>5. DecodeStall \/ Advance
  BY <1>1 DEF Moving, ExecuteStall, ExecuteBusy
<1>6. Execute
  BY <1>5 DEF DecodeStall, Advance
<1>7. ~Holds(exMem')
  BY <1>1, <1>6, ExecuteFacts DEF Holds
<1>8. ExecutedRight' /\ AfterMem' = Now'
  BY <1>1, <1>7, NextStateIs DEF ExecutedRight, Holds, Bubble
<1>9. Now'.pc = OldestPc' /\ Now'.regs = AfterMem.regs
  BY <1>1, <1>2, NextStateIs
<1>10. ASSUME idEx' = Bubble
       PROVE  InOrder' /\ OldestPc' = FrontPc'
  <2>1. OldestPc' = FrontPc'
    BY <1>7, <1>10 DEF OldestPc, FrontPc, Holds, Bubble
  <2>2. DecodedRight'
    BY <1>10 DEF DecodedRight, Holds, Bubble
  <2>3. FetchedRight'
    BY <1>8, <1>9, <1>10, <2>1 DEF FetchedRight, Holds, Bubble
  <2> QED BY <1>8, <2>1, <2>2, <2>3 DEF InOrder
<1>11. CASE DecodeStall
  <2>1. idEx' = Bubble /\ FrontPc' = FrontPc
    BY <1>11 DEF DecodeStall, FetchStalled, FrontPc, Holds, Bubble
  <2> QED BY <1>4, <1>10, <2>1
<1>12. CASE Advance /\ ~Holds(ifId)
  <2>1. regs' \in [Regs -> Int] /\ DecodeAndFetch
    BY <1>1, <1>12, WriteBackType DEF Advance
  <2>2. idEx' = Bubble /\ FrontPc' = FrontPc
    BY <1>1, <1>12, <2>1, DecodeFacts
  <2> QED BY <1>4, <1>10, <2>2
<1>13. CASE Advance /\ Holds(ifId) /\ Machine!AtTakenBranch(FrontState)
  <2>1. idEx' = Bubble /\ FrontPc' = Machine!Exec(FrontState).pc
    BY <1>1, <1>13, DecodeDecides
  <2>2. InOrder' /\ OldestPc' = FrontPc'
    BY <1>10, <2>1
  <2>3. Machine!Exec(FrontState).regs = FrontState.regs /\ Machine!Exec(FrontState).mem = FrontState.mem
    BY <1>13, TakenIs, BranchKeeps
  <2>4. Now'.pc = Machine!Exec(FrontState).pc /\ Now'.regs = Machine!Exec(FrontState).regs
        /\ Now'.mem = Machine!Exec(FrontState).mem /\ IsState(Now')
    BY <1>1, <1>2, <1>3, <2>1, <2>2, <2>3, NextStateIs DEF IsState
  <2>5. Now' = Machine!Exec(FrontState)
    BY <2>4, StateFacts
  <2> QED BY <1>13, <2>2, <2>5
<1>14. CASE Advance /\ Holds(ifId) /\ ~Machine!AtTakenBranch(FrontState)
  <2>1. FrontPc' = Machine!Exec(FrontState).pc /\ FrontState.pc = ifId.pc /\ ~Holds(Bubble)
        /\ ifId.pc \in Nat /\ Bubble.pc = -4
    BY <1>1, <1>14, DecodeDecides, LatchTypes, InstrFacts DEF Holds, Holding, Typed, Bubble
  <2>2. Holds(idEx') /\ idEx'.pc = ifId.pc
    <3>1. \E a, b : idEx' = [pc |-> ifId.pc, a |-> a, b |-> b, counter |-> 0]
      BY <1>1, <1>14, DecodeDecides
    <3>2. idEx'.pc = ifId.pc
      BY <3>1
    <3> QED BY <2>1, <3>2 DEF Holds
  <2>3. OldestPc' = FrontPc
    BY <1>3, <1>7, <2>1, <2>2 DEF OldestPc, Holds, Bubble
  <2>4. Now' = FrontState
    BY <1>4, <2>3
  <2>5. AfterMem'.pc = FrontPc /\ AfterMem'.regs = FrontRegs
    BY <1>1, <1>8, <2>4, FrontStateIs
  <2>6. DecodedRight'
    BY <1>1, <1>14, <2>5, DecodedNext
  <2>7. Machine!Exec(AfterMem)'.pc = FrontPc'
    BY <1>1, <1>8, <2>1, <2>4, NextStateIs
  <2>8. FetchedRight'
    BY <2>2, <2>7 DEF FetchedRight, Holds, Bubble
  <2> QED BY <1>8, <2>4, <2>6, <2>8 DEF InOrder
<1> QED BY <1>5, <1>11, <1>12, <1>13, <1>14
(* flush_all moves what the store buffer holds to where loads find it. *)
LEMMA FlushFacts ==
  ASSUME Typed, Finish
  PROVE  MemoryNow' = MemoryNow /\ dmem' = MemoryNow
<1>1. storeBuffer' = << >> /\ dmem' = MemoryNow
  BY DEF Finish, MemoryNow
<1>2. \A addr : Newest(<< >>, dmem', addr) = dmem'[addr]
  BY DEF Newest
<1>3. ASSUME NEW addr \in Addrs
      PROVE  Signed(MemoryNow[addr]) = MemoryNow[addr]
  <2>1. MemoryNow[addr] = Signed(Newest(storeBuffer, dmem, addr))
    BY MemoryIs
  <2>2. Newest(storeBuffer, dmem, addr) \in Int
    BY <1>3, NewestType DEF Typed, TypeOK
  <2> QED BY <2>1, <2>2, SignedFacts
<1>4. MemoryNow' = [addr \in Addrs |-> MemoryNow[addr]]
  BY <1>1, <1>2, <1>3, MemoryIs
<1>5. MemoryNow = [addr \in Addrs |-> MemoryNow[addr]]
  BY DEF MemoryNow
<1> QED BY <1>1, <1>4, <1>5

LEMMA FinishStep ==
  ASSUME Good, Finish \/ UNCHANGED vars
  PROVE  InOrder' /\ Now' = Now
<1>1. /\ Typed /\ InOrder /\ prog' = prog /\ exMem' = exMem /\ idEx' = idEx /\ ifId' = ifId
      /\ pc' = pc /\ memWb' = memWb /\ wbBuffer' = wbBuffer /\ regs' = regs
  BY DEF Good, Finish, vars, fetchVars
<1>2. CommittedRegs' = CommittedRegs
  BY <1>1 DEF CommittedRegs, Overlaid, InstrOf, Holds, Bubble
<1>3. MemoryNow' = MemoryNow
  <2>1. CASE Finish
    BY <1>1, <2>1, FlushFacts
  <2>2. CASE UNCHANGED vars
    BY <2>2, MemoryIs DEF vars, storeVars
  <2> QED BY <2>1, <2>2
<1>4. \A r : NotOnItsWay(r)' <=> NotOnItsWay(r)
  BY <1>1 DEF NotOnItsWay, WritesTo, InstrOf, Holds, Bubble
<1> QED BY <1>1, <1>2, <1>3, <1>4, SameKeepsOrder DEF Stays

LEMMA InitInOrder == Init => InOrder
BY DEF Init, InOrder, ExecutedRight, DecodedRight, FetchedRight, AfterMem, Now, Machine!Now,
       OldestPc, FrontPc, Holds

LEMMA NextInOrder == Good /\ Allowed /\ [Next]_vars => InOrder'
<1> SUFFICES ASSUME Good, Allowed, [Next]_vars PROVE InOrder'
  OBVIOUS
<1>1. Frozen => InOrder'
  BY FrozenStep
<1>2. Moving => InOrder'
  BY MovingStepHeld, MovingStepEmpty
<1>3. Finish \/ UNCHANGED vars => InOrder'
  BY FinishStep
<1> QED BY <1>1, <1>2, <1>3, CycleFacts DEF Next, Exited

LEMMA AlwaysInOrder == Spec /\ []Allowed => []InOrder
<1>1. Init => InOrder
  BY InitInOrder
<1>2. Typed /\ KeptBack /\ InOrder /\ Allowed /\ [Next]_vars => InOrder'
  BY NextInOrder DEF Good
<1> QED BY <1>1, <1>2, AlwaysTyped, AlwaysKeptBack, PTL DEF Spec

(* A step of the machine, as a relation between its states. *)
LEMMA MachineStep ==
  ASSUME prog' = prog, Now.pc < End,
         \/ Now' = Machine!Exec(Now)
         \/ /\ Machine!AtTakenBranch(Machine!Exec(Now))
            /\ Now' = Machine!Exec(Machine!Exec(Now))
         \/ /\ Machine!AtTakenBranch(Machine!Exec(Now))
            /\ Machine!AtTakenBranch(Machine!Exec(Machine!Exec(Now)))
            /\ Now' = Machine!Exec(Machine!Exec(Machine!Exec(Now)))
  PROVE  Machine!Next
<1>1. /\ Now'.pc = OldestPc' /\ Now'.regs = CommittedRegs' /\ Now'.mem = MemoryNow'
  BY NextStateIs
<1>2. \A s : Now' = s => Machine!Reach(s)
  <2> TAKE s
  <2> HAVE Now' = s
  <2>1. s.pc = OldestPc' /\ s.regs = CommittedRegs' /\ s.mem = MemoryNow'
    BY <1>1
  <2> QED BY <2>1 DEF Machine!Reach, MemoryNow
<1>3. Machine!Running(Now)
  BY DEF Machine!Running, End
<1> QED BY <1>2, <1>3 DEF Machine!Next, Now

LEMMA MachineStutter ==
  ASSUME prog' = prog, Now' = Now
  PROVE  UNCHANGED Machine!vars
<1>1. OldestPc' = OldestPc /\ CommittedRegs' = CommittedRegs /\ MemoryNow' = MemoryNow
  BY NowIs, NextStateIs
<1> QED BY <1>1 DEF Machine!vars, MemoryNow

LEMMA StepRefines ==
  Good /\ Allowed /\ [Next]_vars => [Machine!Next]_(Machine!vars)
<1> SUFFICES ASSUME Good, Allowed, [Next]_vars PROVE [Machine!Next]_(Machine!vars)
  OBVIOUS
<1>1. Typed /\ InOrder
  BY DEF Good
<1>2. Holds(exMem) => Now.pc = exMem.pc /\ Now.pc < End
  BY <1>1, NowIs, LatchTypes, InstrFacts DEF OldestPc, Holding, Typed
<1>3. Frozen \/ Finish \/ UNCHANGED vars => prog' = prog /\ Now' = Now
  BY FrozenStep, FinishStep, CycleFacts DEF Finish, vars
<1>4. ASSUME Moving PROVE [Machine!Next]_(Machine!vars)
  <2>1. prog' = prog
    BY <1>4, CycleFacts
  <2>2. CASE Holds(exMem)
    <3>1. AfterMem = Machine!Exec(Now)
      BY <2>2 DEF AfterMem
    <3>2. CASE Holds(idEx)
      BY <1>2, <1>4, <2>1, <2>2, <3>1, <3>2, MovingStepHeld, MachineStep
    <3>3. CASE ~Holds(idEx)
      <4>1. \/ FrontState = AfterMem
            \/ /\ Machine!AtTakenBranch(AfterMem)
               /\ FrontState = Machine!Exec(AfterMem)
        BY <1>1, <3>3, FrontStateIs
      <4>2. \/ Now' = FrontState
            \/ Machine!AtTakenBranch(FrontState) /\ Now' = Machine!Exec(FrontState)
        BY <1>4, <3>3, MovingStepEmpty
      <4> QED BY <1>2, <2>1, <2>2, <3>1, <4>1, <4>2, MachineStep
    <3> QED BY <3>2, <3>3
  <2>3. CASE ~Holds(exMem)
    <3>1. AfterMem = Now
      BY <2>3 DEF AfterMem
    <3>2. CASE Holds(idEx)
      BY <1>4, <2>1, <3>1, <3>2, MovingStepHeld, MachineStutter
    <3>3. CASE ~Holds(idEx)
      <4>1. FrontState = Now
        BY <1>1, <2>3, <3>1, <3>3, FrontStateIs
      <4>2. \/ Now' = Now
            \/ Machine!AtTakenBranch(Now) /\ Now' = Machine!Exec(Now)
        BY <1>4, <3>3, <4>1, MovingStepEmpty
      <4>3. Machine!AtTakenBranch(Now) => Now.pc < End
        BY TakenIs
      <4> QED BY <2>1, <4>2, <4>3, MachineStep, MachineStutter
    <3> QED BY <3>2, <3>3
  <2> QED BY <2>2, <2>3
<1> QED BY <1>3, <1>4, MachineStutter, CycleFacts DEF Next, Exited

LEMMA InitRefines == Init => Machine!Init
<1> SUFFICES ASSUME Init PROVE Machine!Init
  OBVIOUS
<1>1. OldestPc = 0 /\ CommittedRegs = [r \in Regs |-> 0] /\ prog \in Programs
  BY DEF Init, OldestPc, CommittedRegs, Overlaid, Holds
<1>2. dmem \in Images /\ storeBuffer = << >> /\ dmem \in [Addrs -> Int]
      /\ \A addr \in Addrs : Signed(dmem[addr]) = dmem[addr]
  BY ImagesAssumption DEF Init
<1>3. \A addr : Newest(<< >>, dmem, addr) = dmem[addr]
  BY DEF Newest
<1>4. MemoryNow = [addr \in Addrs |-> dmem[addr]]
  BY <1>2, <1>3, MemoryIs
<1>5. MemoryNow = dmem
  BY <1>2, <1>4
<1> QED BY <1>1, <1>2, <1>5 DEF Machine!Init, MemoryNow

LEMMA Refines == Spec /\ []Allowed => Sequential
<1>1. Typed /\ KeptBack /\ InOrder /\ Allowed /\ [Next]_vars => [Machine!Next]_(Machine!vars)
  BY StepRefines DEF Good
<1> QED BY <1>1, InitRefines, AlwaysTyped, AlwaysKeptBack, AlwaysInOrder, PTL
        DEF Spec, Sequential, Machine!Spec

-----------------------------------------------------------------------------
(* Instructions take effect in program order, each once, with the operands *)
(* and branch decisions of a machine that runs one at a time, with or      *)
(* without forwarding, whatever the latencies, the access times and the    *)
(* size of the store buffer (simulator.py:93-190, hazard_unit.py:46-139),  *)
(* as long as no load is forwarded a value too wide for a word             *)
(* (mem.py:53-62) and no instruction that waits in EX, for itself or for a *)
(* store behind which it is frozen, sees the last of an operand it was to  *)
(* be forwarded (simulator.py:99-106, 147-157).                            *)
THEOREM ForwardingTheorem == Spec /\ [](LoadsWords /\ ~LosesOperand) => Sequential
<1>1. LoadsWords /\ ~LosesOperand => Allowed
  BY DEF Allowed
<1> QED BY <1>1, Refines, PTL

(* Without forwarding nothing can be lost, and only the width of what      *)
(* loads are forwarded matters (hazard_unit.py:120-139, mem.py:53-62).     *)
THEOREM StallingTheorem ==
  ASSUME ~Forwarding
  PROVE  Spec /\ []LoadsWords => Sequential
<1>1. LoadsWords => Allowed
  BY DEF Allowed, LosesOperand
<1> QED BY <1>1, Refines, PTL

(* After the flush memory is what the machine has. *)
Flushed == done => dmem = MemoryNow

LEMMA AlwaysFlushed == Spec => []Flushed
<1>1. Init => Flushed
  BY DEF Init, Flushed
<1>2. Typed /\ Flushed /\ [Next]_vars => Flushed'
  <2> SUFFICES ASSUME Typed, Flushed, [Next]_vars PROVE Flushed'
    OBVIOUS
  <2>1. CASE Cycle
    BY <2>1 DEF Cycle, MemoryStall, StoreBufferStall, ExecuteStall, DecodeStall, Advance,
                Cycling, Flushed
  <2>2. CASE Finish
    BY <2>2, FlushFacts DEF Flushed
  <2>3. CASE UNCHANGED vars
    <3>1. MemoryNow' = MemoryNow
      BY <2>3, MemoryIs DEF vars, storeVars
    <3> QED BY <2>3, <3>1 DEF vars, storeVars, Flushed
  <2> QED BY <2>1, <2>2, <2>3 DEF Next, Exited
<1> QED BY <1>1, <1>2, AlwaysTyped, PTL DEF Spec

(* What is printed is what the program computes: the pipeline implements   *)
(* the machine, and when its loop ends the machine is at its end, with the *)
(* registers and the memory the simulator prints (README.md:25,            *)
(* simulator.py:50, 70-80, mem.py:26-32).  For every program in which      *)
(* something is left to do behind each load, and every run in which no     *)
(* load is forwarded too wide a value and no operand is lost.              *)
THEOREM FinalStateTheorem ==
  ASSUME \A p \in Programs : Settles(p)
  PROVE  Spec /\ [](LoadsWords /\ ~LosesOperand) => Sequential /\ []FinalState
<1>1. Typed /\ Settled /\ Flushed => FinalState
  <2> SUFFICES ASSUME Typed, Settled, Flushed, done
               PROVE  Now = [pc |-> End, regs |-> regs, mem |-> dmem]
    BY DEF FinalState, Now
  <2>1. Settles(prog)
    BY DEF Typed
  <2>2. regs = CommittedRegs /\ OldestPc = End /\ dmem = MemoryNow
    BY <2>1, NothingLeft DEF Flushed
  <2> QED BY <2>2, NowIs
<1> QED BY <1>1, AlwaysTyped, AlwaysSettled, AlwaysFlushed, ForwardingTheorem, PTL
=============================================================================
