------------------------------- MODULE Parser -------------------------------
(***************************************************************************)
(* The assembler (utils/parser.py) on every short source: a first pass     *)
(* that collects labels, lays out the data section and keeps the lines     *)
(* with code, and a second that turns those lines into instructions.       *)
(*                                                                         *)
(* A line is [label, op, arg], any of which may be None, a section marker  *)
(* having its name for op; comments and blank lines are gone.  Of an       *)
(* operation only what the passes distinguish is kept: a directive's size  *)
(* and number of values, a jump's (beq, bne, jal, j) or la's label,        *)
(* whether it is known at all.                                             *)
(* Lines whose operands do not parse raise at once and are left out.       *)
(***************************************************************************)
EXTENDS Integers, Sequences, FiniteSetsExt

CONSTANTS
  Sources,      \* programs, sequences of lines
  None,         \* no label, operation or argument
  BaseAddress,  \* Memory.base_address, at first
  MemorySize    \* Memory.size

Directives == {"word", "byte"}
Jumps == {"jump"}
Known == {"plain", "la"} \cup Jumps
Markers == {".data", ".text"}

ASSUME NoneAssumption == None \notin Known \cup Directives \cup Markers
ASSUME MemoryAssumption == BaseAddress \in Nat /\ MemorySize \in Nat

(* Sources are sequences, and a directive has at least one value. *)
ASSUME SourcesAssumption ==
  \A s \in Sources :
    /\ s \in Seq({s[i] : i \in DOMAIN s})
    /\ \A i \in DOMAIN s : s[i].op \in Directives => s[i].arg \in Nat \ {0}

VARIABLES
  source,        \* lines
  at,            \* the line (pass 1) or clean line (pass 2) being read
  phase,         \* pass1, pass2, done, or raised
  mode,          \* the section
  labelMap,      \* label_map
  dataLabelMap,  \* data_label_map
  base,          \* memory.base_address
  stored,        \* the writes to memory: [line, address, size]
  cleanLines,    \* clean_lines, as line numbers
  index,         \* instr_index
  instructions   \* as [line, pc, imm]

vars == <<source, at, phase, mode, labelMap, dataLabelMap, base, stored,
          cleanLines, index, instructions>>
data == <<dataLabelMap, base, stored>>
text == <<labelMap, cleanLines, index>>

Init ==
  /\ source \in Sources
  /\ at = 1
  /\ phase = "pass1"
  /\ mode = None
  /\ labelMap = [l \in {} |-> 0]
  /\ dataLabelMap = [l \in {} |-> 0]
  /\ base = BaseAddress
  /\ stored = << >>
  /\ cleanLines = << >>
  /\ index = 0
  /\ instructions = << >>

(* A dictionary with a key set.  The variant keeps the first value. *)
WithFirst(d, l, x) ==
  [k \in DOMAIN d \cup {l} |-> IF k \in DOMAIN d THEN d[k] ELSE x]
With(d, l, x) == [k \in DOMAIN d \cup {l} |-> IF k = l THEN x ELSE d[k]]

Raise == phase' = "raised" /\ UNCHANGED <<at, instructions>>

-----------------------------------------------------------------------------
(* Pass 1. *)
Reading == phase = "pass1" /\ at <= Len(source)
NextLine == at' = at + 1 /\ UNCHANGED <<phase, instructions>>

Marker ==
  /\ Reading /\ source[at].op \in Markers
  /\ mode' = source[at].op
  /\ NextLine
  /\ UNCHANGED <<source, data, text>>

(* data_section_word and data_section_byte, n times: words are aligned.    *)
(* The variant does not align them.                                        *)
StartUnaligned(from, size) == from
Start(from, size) == IF from % size = 0 THEN from ELSE from + size - (from % size)
Size(op) == IF op = "word" THEN 4 ELSE 1

DataLine ==
  /\ Reading /\ source[at].op \notin Markers /\ mode = ".data"
  /\ LET line == source[at]
         size == Size(line.op)
         start == Start(base, size)
     IN IF line.label = None \/ line.op = None
          THEN Raise /\ UNCHANGED data
        ELSE IF line.op \notin Directives
          THEN /\ dataLabelMap' = With(dataLabelMap, line.label, base)
               /\ NextLine
               /\ UNCHANGED <<base, stored>>
        ELSE IF start + size * line.arg > MemorySize
          THEN Raise /\ UNCHANGED data
        ELSE /\ dataLabelMap' = With(dataLabelMap, line.label, base)
             /\ base' = start + size * line.arg
             /\ stored' = stored \o [k \in 1..line.arg |->
                            [line |-> at, address |-> start + size * (k - 1),
                             size |-> size]]
             /\ NextLine
  /\ UNCHANGED <<source, mode, text>>

(* A line may have a label, code, or both. *)
TextLine ==
  /\ Reading /\ source[at].op \notin Markers /\ mode # ".data"
  /\ LET line == source[at]
     IN /\ labelMap' = IF line.label = None THEN labelMap
                       ELSE With(labelMap, line.label, index * 4)
        /\ IF line.op # None
             THEN /\ cleanLines' = Append(cleanLines, at)
                  /\ index' = index + 1
             ELSE UNCHANGED <<cleanLines, index>>
  /\ NextLine
  /\ UNCHANGED <<source, mode, data>>

EndOfPass1 ==
  /\ phase = "pass1" /\ at > Len(source)
  /\ phase' = "pass2"
  /\ at' = 1
  /\ index' = 0
  /\ UNCHANGED <<source, mode, labelMap, cleanLines, data, instructions>>

-----------------------------------------------------------------------------
(* Pass 2. *)
Generating == phase = "pass2" /\ at <= Len(cleanLines)
Line == source[cleanLines[at]]

Emit(imm) ==
  /\ instructions' =
       Append(instructions, [line |-> cleanLines[at], pc |-> index * 4,
                             imm |-> imm])
  /\ index' = index + 1
  /\ at' = at + 1
  /\ UNCHANGED phase

Plain ==
  /\ Generating /\ Line.op = "plain"
  /\ Emit(None)
  /\ UNCHANGED <<source, mode, labelMap, cleanLines, data>>

(* beq, bne, jal and j: the offset from this instruction.  The variant     *)
(* forgets where this instruction is.                                      *)
OffsetAbsolute(l) == labelMap[l]
Offset(l) == labelMap[l] - index * 4
Jump ==
  /\ Generating /\ Line.op \in Jumps
  /\ IF Line.arg \in DOMAIN labelMap
       THEN Emit(Offset(Line.arg))
       ELSE Raise /\ UNCHANGED index
  /\ UNCHANGED <<source, mode, labelMap, cleanLines, data>>

(* la: data labels come before labels of the text. *)
LoadAddress ==
  /\ Generating /\ Line.op = "la"
  /\ IF Line.arg \in DOMAIN dataLabelMap THEN Emit(dataLabelMap[Line.arg])
     ELSE IF Line.arg \in DOMAIN labelMap THEN Emit(labelMap[Line.arg])
     ELSE Raise /\ UNCHANGED index
  /\ UNCHANGED <<source, mode, labelMap, cleanLines, data>>

(* A warning, and nothing else: the variant counts the line. *)
UnrecognisedCounted ==
  /\ Generating /\ Line.op \notin Known
  /\ at' = at + 1
  /\ index' = index + 1
  /\ UNCHANGED <<source, phase, mode, labelMap, cleanLines, data, instructions>>
Unrecognised ==
  /\ Generating /\ Line.op \notin Known
  /\ at' = at + 1
  /\ UNCHANGED <<source, phase, mode, text, data, instructions>>

Done ==
  /\ phase = "pass2" /\ at > Len(cleanLines)
  /\ phase' = "done"
  /\ UNCHANGED <<source, at, mode, text, data, instructions>>

Next ==
  \/ Marker \/ DataLine \/ TextLine \/ EndOfPass1
  \/ Plain \/ Jump \/ LoadAddress \/ Unrecognised \/ Done

Spec == Init /\ [][Next]_vars

-----------------------------------------------------------------------------
(* The source as its author reads it: lines of data, and lines of code. *)
Lines == {i \in DOMAIN source : source[i].op \notin Markers}
InData(i) ==
  LET before == {j \in 1..i : source[j].op \in Markers}
  IN before # {} /\ source[Max(before)].op = ".data"
Code == {i \in Lines : ~InData(i) /\ source[i].op # None}
Recognised == {i \in Code : source[i].op \in Known}
Before(lines, i) == Cardinality({j \in lines : j < i})

(* The line a label belongs to: the last that has it. *)
TextLabelLine(l) == Max({i \in Lines : ~InData(i) /\ source[i].label = l})
DataLabelLine(l) == Max({i \in Lines : InData(i) /\ source[i].label = l})

(* Instruction memory has the instructions of the source, in its order,    *)
(* each where its pc says (Instruction_mem.py:8-18, parser.py:63-71,       *)
(* 154-155).                                                               *)
AllAssembled ==
  phase = "done" =>
    /\ {instructions[k].line : k \in DOMAIN instructions} = Recognised
    /\ \A k \in DOMAIN instructions :
         /\ instructions[k].pc = 4 * (k - 1)
         /\ k - 1 = Before(Recognised, instructions[k].line)

(* A jump lands on the first instruction after its label, and past it by   *)
(* one instruction for each unrecognised line above the label, which the   *)
(* first pass counts and the second does not (parser.py:57-64, 111-114,    *)
(* 136-147, 150-152).                                                      *)
JumpsLand ==
  phase = "done" =>
    \A k \in DOMAIN instructions :
      LET i == instructions[k]
          label == source[i.line].arg
      IN source[i.line].op \in Jumps =>
           i.pc + i.imm = 4 * (Before(Recognised, TextLabelLine(label))
                                + Before(Code \ Recognised, TextLabelLine(label)))

(* A data label names the first value of its line, unless that is a word   *)
(* that follows bytes: the label is taken before the word is aligned, and  *)
(* is then less than a word short of it (parser.py:35, data_mem.py:52-64). *)
LabelsNameData ==
  \A l \in DOMAIN dataLabelMap :
    \A k \in DOMAIN stored :
      stored[k].line = DataLabelLine(l)
        /\ (\A j \in 1..(k - 1) : stored[j].line # stored[k].line)
      => LET skipped == stored[k].address - dataLabelMap[l]
         IN skipped = 0 \/ (dataLabelMap[l] % stored[k].size # 0
                              /\ skipped \in 1..(stored[k].size - 1))

(* The values of the data section do not overlap, lie within memory, and   *)
(* lw and sw can reach the words: they are aligned (data_mem.py:52-72).    *)
DataApart ==
  \A k \in DOMAIN stored :
    LET v == stored[k]
    IN /\ v.address % v.size = 0
       /\ v.address + v.size <= MemorySize
       /\ \A j \in 1..(k - 1) : stored[j].address + stored[j].size <= v.address
=============================================================================
