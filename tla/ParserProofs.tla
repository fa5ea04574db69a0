---------------------------- MODULE ParserProofs ----------------------------
(***************************************************************************)
(* Theorems about Parser, for every source, base address and size of the   *)
(* memory: what the second pass emits is the source's recognised code in   *)
(* its order, jumps land where their label says, and the data section is   *)
(* laid out as its labels claim.                                           *)
(***************************************************************************)
EXTENDS Parser, FiniteSetTheorems, WellFoundedInduction, TLAPS

-----------------------------------------------------------------------------
(* The invariant.                                                          *)

Upto(S, n) == {i \in S : i <= n}
TextLines == {i \in Lines : ~InData(i)}
DataLines == {i \in Lines : InData(i)}
Labelled(S, l, n) == {i \in S : source[i].label = l /\ i <= n}

(* The section that line n + 1 is in, unless it is a marker. *)
MarkersUpto(n) == {j \in 1..n : source[j].op \in Markers}
ModeAt(n) ==
  IF MarkersUpto(n) = {} THEN None ELSE source[Max(MarkersUpto(n))].op

(* lines has the elements of S in their order. *)
Lists(lines, S) ==
  /\ lines \in Seq(Nat)
  /\ {lines[k] : k \in DOMAIN lines} = S
  /\ \A j, k \in DOMAIN lines : j < k => lines[j] < lines[k]

(* The labels and the lines of code that the first n lines give. *)
TextRead(lines, labels, n) ==
  /\ Lists(lines, Upto(Code, n))
  /\ None \notin DOMAIN labels
  /\ \A l \in DOMAIN labels :
       labels[l] = 4 * Before(Code, Max(Labelled(TextLines, l, n)))

InPass1 ==
  phase = "pass1" =>
    /\ at \in 1..(Len(source) + 1)
    /\ mode = ModeAt(at - 1)
    /\ index = Cardinality(Upto(Code, at - 1))
    /\ instructions = << >>
    /\ TextRead(cleanLines, labelMap, at - 1)

(* The instructions emitted for the first n clean lines. *)
LinesOf(emitted) == {emitted[k].line : k \in DOMAIN emitted}
EmittedRight(i, labels) ==
  source[i.line].op \in Jumps =>
    /\ source[i.line].arg \in DOMAIN labels
    /\ i.imm = labels[source[i.line].arg] - i.pc
Emitted(emitted, count, n) ==
  /\ emitted \in Seq({emitted[k] : k \in DOMAIN emitted})
  /\ LinesOf(emitted) = {cleanLines[k] : k \in 1..n} \cap Recognised
  /\ count = Len(emitted) /\ count = Cardinality(LinesOf(emitted))
  /\ \A k \in DOMAIN emitted :
       /\ emitted[k].pc = 4 * (k - 1)
       /\ k - 1 = Before(Recognised, emitted[k].line)
       /\ EmittedRight(emitted[k], labelMap)

InPass2 ==
  phase \in {"pass2", "done"} =>
    /\ at \in 1..(Len(cleanLines) + 1)
    /\ phase = "done" => at = Len(cleanLines) + 1
    /\ TextRead(cleanLines, labelMap, Len(source))
    /\ Emitted(instructions, index, at - 1)

(* The values and labels of the data in the first n lines. *)
LastOf(m, S) == m \in S /\ \A j \in S : j <= m
Near(address, label, size) ==
  \/ address = label
  \/ label % size # 0 /\ address - label \in 1..(size - 1)
Values == [line : Nat, address : Nat, size : {1, 4}]
Aligned(v) == v.address % v.size = 0
ValuesApart(values, end, n) ==
  /\ values \in Seq(Values)
  /\ \A k \in DOMAIN values :
       LET v == values[k]
       IN /\ v.line \in Upto(DataLines, n)
          /\ Aligned(v)
          /\ v.address + v.size <= MemorySize
          /\ v.address + v.size <= end
          /\ \A j \in 1..(k - 1) : values[j].address + values[j].size <= v.address
FirstOfLine(values, k) == \A j \in 1..(k - 1) : values[j].line # values[k].line
LabelsRight(values, labels, n) ==
  /\ None \notin DOMAIN labels
  /\ \A l \in DOMAIN labels :
       /\ labels[l] \in Nat /\ Labelled(DataLines, l, n) # {}
       /\ \A k \in DOMAIN values :
            LastOf(values[k].line, Labelled(DataLines, l, n)) /\ FirstOfLine(values, k)
              => Near(values[k].address, labels[l], values[k].size)
LaidOut(values, end, labels, n) ==
  end \in Nat /\ ValuesApart(values, end, n) /\ LabelsRight(values, labels, n)

(* Pass 2 has all of the data; a parser that raised, some of it. *)
DataRead ==
  \E n \in 0..Len(source) :
    /\ phase = "pass1" => n = at - 1
    /\ phase \in {"pass2", "done"} => n = Len(source)
    /\ LaidOut(stored, base, dataLabelMap, n)

Phases == {"pass1", "pass2", "done", "raised"}
PInv == source \in Sources /\ phase \in Phases /\ InPass1 /\ InPass2 /\ DataRead

-----------------------------------------------------------------------------
(* Lines and sets of lines.                                                *)

LEMMA SourceFacts ==
  ASSUME source \in Sources
  PROVE  /\ DOMAIN source = 1..Len(source) /\ Len(source) \in Nat
         /\ \A i \in DOMAIN source :
              source[i].op \in Directives => source[i].arg \in Nat \ {0}
         /\ Lines \subseteq DOMAIN source
         /\ Code \subseteq TextLines /\ Recognised \subseteq Code
         /\ TextLines \subseteq Lines /\ DataLines \subseteq Lines
<1>1. source \in Seq({source[i] : i \in DOMAIN source})
  BY SourcesAssumption
<1>2. DOMAIN source = 1..Len(source) /\ Len(source) \in Nat
  BY <1>1
<1> QED BY <1>2, SourcesAssumption DEF Lines, Code, Recognised, TextLines, DataLines

LEMMA FiniteLines ==
  ASSUME source \in Sources, NEW S, S \subseteq DOMAIN source
  PROVE  IsFiniteSet(S) /\ Cardinality(S) \in Nat
<1>1. DOMAIN source = 1..Len(source) /\ Len(source) \in Nat
  BY SourceFacts
<1>2. IsFiniteSet(1..Len(source))
  BY <1>1, FS_Interval
<1>3. IsFiniteSet(S)
  BY <1>1, <1>2, FS_Subset
<1> QED BY <1>3, FS_CardinalityType

(* The greatest element is the only one that no other exceeds ... *)
LEMMA GreatestIsMax ==
  ASSUME NEW S, S \subseteq Nat, NEW m \in S, \A j \in S : j <= m
  PROVE  Max(S) = m
<1>1. \A x \in S : (\A y \in S : x >= y) => x = m
  OBVIOUS
<1>2. \A y \in S : m >= y
  OBVIOUS
<1> QED BY <1>1, <1>2 DEF Max

(* ... and a set of lines has one. *)
LEMMA MaxIsGreatest ==
  ASSUME NEW n \in Nat, NEW S, S \subseteq 1..n, S # {}
  PROVE  LastOf(Max(S), S)
<1> DEFINE R == {ss \in Nat \X Nat : ss[1] < ss[2]}
           T == {n - i : i \in S}
<1>1. IsWellFoundedOn(R, Nat)
  BY NatLessThanWellFounded, Zenon DEF OpToRel
<1>2. \A i \in S : i \in Nat /\ n - i \in Nat
  OBVIOUS
<1>3. T \in SUBSET Nat /\ T # {}
  BY <1>2
<1>4. PICK x \in T : \A y \in T : ~(<<y, x>> \in R)
  <2> HIDE DEF R, T
  <2> QED BY <1>1, <1>3, WFMin
<1>5. PICK i \in S : x = n - i
  BY <1>4
<1>6. ASSUME NEW k \in S PROVE k <= i
  <2>1. n - k \in T /\ x \in Nat
    BY <1>3, <1>4
  <2>2. <<n - k, x>> \in Nat \X Nat /\ <<n - k, x>>[1] = n - k /\ <<n - k, x>>[2] = x
    BY <1>2, <2>1
  <2>3. n - k < x => <<n - k, x>> \in R
    BY <2>2
  <2>4. ~(n - k < x)
    BY <1>4, <2>1, <2>3
  <2> QED BY <1>2, <1>5, <2>1, <2>4
<1>7. Max(S) = i
  BY <1>2, <1>6, GreatestIsMax
<1> QED BY <1>6, <1>7 DEF LastOf

(* What line n adds. *)
LEMMA UptoNext ==
  ASSUME source \in Sources, NEW n \in 1..Len(source), NEW S, S \subseteq DOMAIN source
  PROVE  /\ n \in S => Upto(S, n) = Upto(S, n - 1) \cup {n}
         /\ n \notin S => Upto(S, n) = Upto(S, n - 1)
         /\ n \notin Upto(S, n - 1)
         /\ {j \in S : j < n} = Upto(S, n - 1)
         /\ Upto(S, n - 1) \subseteq DOMAIN source
         /\ \A l : /\ n \in S /\ source[n].label = l => Max(Labelled(S, l, n)) = n
                   /\ n \notin S \/ source[n].label # l =>
                        Labelled(S, l, n) = Labelled(S, l, n - 1)
<1>1. DOMAIN source = 1..Len(source) /\ Len(source) \in Nat
  BY SourceFacts
<1>2. /\ n \in S => Upto(S, n) = Upto(S, n - 1) \cup {n}
      /\ n \notin S => Upto(S, n) = Upto(S, n - 1)
      /\ n \notin Upto(S, n - 1) /\ {j \in S : j < n} = Upto(S, n - 1)
      /\ Upto(S, n - 1) \subseteq DOMAIN source
  BY <1>1 DEF Upto
<1>3. ASSUME NEW l, n \in S, source[n].label = l PROVE Max(Labelled(S, l, n)) = n
  <2>1. /\ Labelled(S, l, n) \subseteq Nat /\ n \in Labelled(S, l, n)
        /\ \A j \in Labelled(S, l, n) : j <= n
    BY <1>1, <1>3 DEF Labelled
  <2> QED BY <2>1, GreatestIsMax
<1>4. ASSUME NEW l, n \notin S \/ source[n].label # l
      PROVE  Labelled(S, l, n) = Labelled(S, l, n - 1)
  BY <1>1, <1>4 DEF Labelled
<1> QED BY <1>2, <1>3, <1>4

(* The section of a line, as the first pass keeps it. *)
LEMMA ModeNext ==
  ASSUME source \in Sources, NEW n \in 1..Len(source)
  PROVE  /\ source[n].op \in Markers =>
              ModeAt(n) = source[n].op /\ n \notin Lines
         /\ source[n].op \notin Markers =>
              /\ ModeAt(n) = ModeAt(n - 1)
              /\ n \in DataLines <=> ModeAt(n - 1) = ".data"
              /\ n \in TextLines <=> ModeAt(n - 1) # ".data"
<1>1. DOMAIN source = 1..Len(source) /\ Len(source) \in Nat
  BY SourceFacts
<1>2. CASE source[n].op \in Markers
  <2>1. /\ MarkersUpto(n) \subseteq Nat /\ n \in MarkersUpto(n)
        /\ \A j \in MarkersUpto(n) : j <= n
    BY <1>1, <1>2 DEF MarkersUpto
  <2>2. Max(MarkersUpto(n)) = n
    BY <2>1, GreatestIsMax
  <2> QED BY <1>2, <2>1, <2>2 DEF ModeAt, Lines
<1>3. CASE source[n].op \notin Markers
  <2>1. MarkersUpto(n) = MarkersUpto(n - 1)
    BY <1>1, <1>3 DEF MarkersUpto
  <2>2. ModeAt(n) = ModeAt(n - 1)
    BY <2>1 DEF ModeAt
  <2>3. InData(n) <=> ModeAt(n) = ".data"
    BY NoneAssumption DEF InData, ModeAt, MarkersUpto, Markers
  <2>4. n \in Lines
    BY <1>1, <1>3 DEF Lines
  <2> QED BY <1>3, <2>2, <2>3, <2>4 DEF DataLines, TextLines
<1> QED BY <1>2, <1>3

-----------------------------------------------------------------------------
(* What each kind of line adds.                                            *)

LEMMA ListsNext ==
  ASSUME NEW lines, NEW S, Lists(lines, S), NEW x \in Nat, \A y \in S : y < x
  PROVE  Lists(Append(lines, x), S \cup {x})
<1> SUFFICES ASSUME NEW all, all = Append(lines, x) PROVE Lists(all, S \cup {x})
  OBVIOUS
<1>1. lines \in Seq(Nat) /\ DOMAIN lines = 1..Len(lines) /\ Len(lines) \in Nat
  BY DEF Lists
<1>2. /\ all \in Seq(Nat) /\ DOMAIN all = 1..(Len(lines) + 1)
      /\ \A k \in 1..Len(lines) : all[k] = lines[k]
      /\ all[Len(lines) + 1] = x
  BY <1>1
<1>3. {all[k] : k \in DOMAIN all} = S \cup {x}
  <2>1. {all[k] : k \in DOMAIN all} = {lines[k] : k \in DOMAIN lines} \cup {x}
    BY <1>1, <1>2
  <2> QED BY <2>1 DEF Lists
<1>4. \A j, k \in DOMAIN all : j < k => all[j] < all[k]
  <2> SUFFICES ASSUME NEW j \in DOMAIN all, NEW k \in DOMAIN all, j < k
               PROVE  all[j] < all[k]
    OBVIOUS
  <2>1. j \in 1..Len(lines) /\ all[j] = lines[j] /\ lines[j] \in S
    BY <1>1, <1>2 DEF Lists
  <2>2. CASE k \in 1..Len(lines)
    BY <1>1, <1>2, <2>1, <2>2 DEF Lists
  <2>3. CASE k = Len(lines) + 1
    BY <1>2, <2>1, <2>3
  <2> QED BY <1>1, <1>2, <2>2, <2>3
<1> QED BY <1>2, <1>3, <1>4 DEF Lists

LEMMA TextSkip ==
  ASSUME source \in Sources, NEW n \in 1..Len(source), n \notin TextLines,
         NEW lines, NEW labels, TextRead(lines, labels, n - 1)
  PROVE  TextRead(lines, labels, n) /\ Upto(Code, n) = Upto(Code, n - 1)
<1>1. Code \subseteq TextLines /\ TextLines \subseteq DOMAIN source
  BY SourceFacts
<1>2. Upto(Code, n) = Upto(Code, n - 1)
  BY <1>1, UptoNext
<1>3. \A l : Labelled(TextLines, l, n) = Labelled(TextLines, l, n - 1)
  BY <1>1, UptoNext
<1> QED BY <1>2, <1>3 DEF TextRead

LEMMA DataSkip ==
  ASSUME source \in Sources, NEW n \in 1..Len(source), n \notin DataLines,
         NEW values, NEW end, NEW labels, LaidOut(values, end, labels, n - 1)
  PROVE  LaidOut(values, end, labels, n)
<1>1. DataLines \subseteq DOMAIN source
  BY SourceFacts
<1>2. Upto(DataLines, n) = Upto(DataLines, n - 1)
  BY <1>1, UptoNext
<1>3. \A l : Labelled(DataLines, l, n) = Labelled(DataLines, l, n - 1)
  BY <1>1, UptoNext
<1> QED BY <1>2, <1>3 DEF LaidOut, ValuesApart, LabelsRight

(* A label names the lines of code above it. *)
LEMMA TextLabel ==
  ASSUME source \in Sources, NEW n \in 1..Len(source), n \in TextLines,
         NEW lines, NEW labels, TextRead(lines, labels, n - 1),
         NEW new, new = IF source[n].label = None THEN labels
                        ELSE With(labels, source[n].label,
                                  Cardinality(Upto(Code, n - 1)) * 4)
  PROVE  /\ None \notin DOMAIN new
         /\ \A l \in DOMAIN new :
              new[l] = 4 * Before(Code, Max(Labelled(TextLines, l, n)))
<1>1. Code \subseteq DOMAIN source /\ TextLines \subseteq DOMAIN source
  BY SourceFacts
<1>2. /\ {j \in Code : j < n} = Upto(Code, n - 1)
      /\ Upto(Code, n - 1) \subseteq DOMAIN source
  BY <1>1, UptoNext
<1>3. Before(Code, n) \in Nat /\ Before(Code, n) = Cardinality(Upto(Code, n - 1))
  BY <1>2, FiniteLines DEF Before
<1>4. \A l : /\ source[n].label = l => Max(Labelled(TextLines, l, n)) = n
             /\ source[n].label # l =>
                  Labelled(TextLines, l, n) = Labelled(TextLines, l, n - 1)
  BY <1>1, UptoNext
<1>5. /\ None \notin DOMAIN labels
      /\ \A l \in DOMAIN labels :
           labels[l] = 4 * Before(Code, Max(Labelled(TextLines, l, n - 1)))
  BY DEF TextRead
<1>6. CASE source[n].label = None
  BY <1>4, <1>5, <1>6
<1>7. CASE source[n].label # None
  <2>1. /\ DOMAIN new = DOMAIN labels \cup {source[n].label}
        /\ new[source[n].label] = Cardinality(Upto(Code, n - 1)) * 4
        /\ \A k \in DOMAIN labels : k # source[n].label => new[k] = labels[k]
    BY <1>7, Zenon DEF With
  <2>2. None \notin DOMAIN new
    BY <1>5, <1>7, <2>1
  <2>3. ASSUME NEW l \in DOMAIN new
        PROVE  new[l] = 4 * Before(Code, Max(Labelled(TextLines, l, n)))
    <3>1. CASE l = source[n].label
      BY <1>3, <1>4, <2>1, <3>1
    <3>2. CASE l # source[n].label
      BY <1>4, <1>5, <2>1, <2>3, <3>2
    <3> QED BY <3>1, <3>2
  <2> QED BY <2>2, <2>3
<1> QED BY <1>6, <1>7

(* The line itself is kept if it has code. *)
LEMMA TextNext ==
  ASSUME source \in Sources, NEW n \in 1..Len(source), n \in TextLines,
         NEW lines, Lists(lines, Upto(Code, n - 1))
  PROVE  /\ source[n].op # None =>
              /\ Lists(Append(lines, n), Upto(Code, n))
              /\ Cardinality(Upto(Code, n)) = Cardinality(Upto(Code, n - 1)) + 1
         /\ source[n].op = None => Upto(Code, n) = Upto(Code, n - 1)
<1>1. Code \subseteq DOMAIN source /\ (n \in Code <=> source[n].op # None)
  BY SourceFacts DEF Code, TextLines
<1>2. /\ n \in Code => Upto(Code, n) = Upto(Code, n - 1) \cup {n}
      /\ n \notin Code => Upto(Code, n) = Upto(Code, n - 1)
      /\ n \notin Upto(Code, n - 1)
      /\ Upto(Code, n - 1) \subseteq DOMAIN source
  BY <1>1, UptoNext
<1>3. IsFiniteSet(Upto(Code, n - 1))
  BY <1>2, FiniteLines
<1>4. \A y \in Upto(Code, n - 1) : y < n
  BY <1>2, SourceFacts DEF Upto
<1>5. ASSUME n \in Code
      PROVE  /\ Lists(Append(lines, n), Upto(Code, n))
             /\ Cardinality(Upto(Code, n)) = Cardinality(Upto(Code, n - 1)) + 1
  BY <1>2, <1>3, <1>4, <1>5, ListsNext, FS_AddElement
<1> QED BY <1>1, <1>2, <1>5

(* A directive's values start near the label. *)
LEMMA StartFacts ==
  ASSUME NEW from \in Nat, NEW size \in {1, 4}
  PROVE  /\ Start(from, size) \in Nat /\ Start(from, size) >= from
         /\ Start(from, size) % size = 0
         /\ Near(Start(from, size), from, size)
BY DEF Start, Near

(* What a directive writes, as the code computes it, ... *)
LaidFrom(added, n, size, count, start, stop) ==
  /\ size \in {1, 4} /\ start % size = 0
  /\ added = [k \in 1..count |->
                [line |-> n, address |-> start + size * (k - 1), size |-> size]]
  /\ stop = start + size * count

(* ... and what that amounts to, without its arithmetic. *)
Following(added, n, start, stop) ==
  /\ start \in Nat /\ stop \in Nat /\ stop >= start
  /\ added \in Seq(Values)
  /\ \A k \in 1..Len(added) :
       /\ added[k].line = n /\ Aligned(added[k])
       /\ added[k].address >= start
       /\ added[k].address + added[k].size <= stop
       /\ \A j \in 1..(k - 1) :
            added[j].address + added[j].size <= added[k].address

Joined(all, values, added, n) ==
  /\ DOMAIN all = 1..(Len(values) + Len(added))
  /\ \A k \in 1..Len(values) : all[k] = values[k]
  /\ \A k \in DOMAIN all : k > Len(values) => all[k].line = n
  /\ Len(added) > 0 => all[Len(values) + 1] = added[1]

LEMMA ValueFacts ==
  ASSUME NEW v \in Values
  PROVE  v.line \in Nat /\ v.address \in Nat /\ v.size \in Nat
BY DEF Values

LEMMA Ordered ==
  \A a, b, c, d, e \in Nat : a + b <= c /\ d >= c /\ e >= d => a + b <= e
OBVIOUS

LEMMA AddedFacts ==
  ASSUME NEW n \in Nat, NEW size, NEW count \in Nat \ {0}, NEW start \in Nat,
         NEW added, NEW stop, LaidFrom(added, n, size, count, start, stop)
  PROVE  /\ stop \in Nat /\ stop >= start
         /\ Following(added, n, start, stop) /\ Len(added) = count
         /\ added[1].address = start /\ added[1].size = size
<1>1. /\ size \in {1, 4}
      /\ size = 1 => stop = start + count
      /\ size = 4 => stop = start + 4 * count /\ start % 4 = 0
  BY DEF LaidFrom
<1>2. stop \in Nat /\ stop >= start
  BY <1>1
<1>3. ASSUME NEW k \in 1..count
      PROVE  /\ added[k].line = n /\ added[k].size = size
             /\ added[k].address \in Nat
             /\ added[k] \in Values
             /\ size = 1 => added[k].address = start + (k - 1)
             /\ size = 4 => added[k].address = start + 4 * (k - 1)
  <2>1. added[k] = [line |-> n, address |-> start + size * (k - 1), size |-> size]
    BY DEF LaidFrom
  <2>2. /\ size = 1 => added[k].address = start + (k - 1)
        /\ size = 4 => added[k].address = start + 4 * (k - 1)
    BY <2>1
  <2>3. added[k].address \in Nat
    BY <1>1, <2>2
  <2>4. added[k] = [line |-> n, address |-> added[k].address, size |-> size]
    BY <2>1
  <2>5. added[k] \in Values
    BY <1>1, <2>3, <2>4 DEF Values
  <2> QED BY <2>1, <2>2, <2>3, <2>5
<1>4. ASSUME NEW k \in 1..count
      PROVE  /\ Aligned(added[k])
             /\ added[k].address >= start
             /\ added[k].address + added[k].size <= stop
  <2>1. CASE size = 1
    BY <1>1, <1>3, <2>1 DEF Aligned
  <2>2. CASE size = 4
    <3>1. /\ added[k].address = start + 4 * (k - 1) /\ added[k].size = 4
          /\ start % 4 = 0 /\ stop = start + 4 * count
      BY <1>1, <1>3, <2>2
    <3>2. Aligned(added[k])
      BY <3>1 DEF Aligned
    <3> QED BY <3>1, <3>2
  <2> QED BY <1>1, <2>1, <2>2
<1>5. ASSUME NEW k \in 1..count, NEW j \in 1..(k - 1)
      PROVE  added[j].address + added[j].size <= added[k].address
  <2>1. j \in 1..count
    OBVIOUS
  <2>2. CASE size = 1
    BY <1>3, <2>1, <2>2
  <2>3. CASE size = 4
    BY <1>3, <2>1, <2>3
  <2> QED BY <1>1, <2>2, <2>3
<1>6. added \in Seq(Values) /\ Len(added) = count
  <2>1. \A k \in 1..count : added[k] \in Values
    BY <1>3
  <2>2. DOMAIN added = 1..count /\ added = [k \in 1..count |-> added[k]]
    BY DEF LaidFrom
  <2> QED BY <2>1, <2>2
<1>7. added[1].address = start /\ added[1].size = size
  <2>1. 1 \in 1..count
    OBVIOUS
  <2> QED BY <1>1, <1>3, <2>1
<1> QED BY <1>2, <1>3, <1>4, <1>5, <1>6, <1>7 DEF Following

LEMMA ValuesNext ==
  ASSUME source \in Sources, NEW n \in 1..Len(source), n \in DataLines,
         NEW values, NEW end \in Nat, ValuesApart(values, end, n - 1),
         NEW start, NEW stop, NEW added, Following(added, n, start, stop),
         start >= end, stop <= MemorySize,
         NEW all, all = values \o added
  PROVE  ValuesApart(all, stop, n) /\ Joined(all, values, added, n)
<1>1. values \in Seq(Values) /\ added \in Seq(Values)
  BY DEF ValuesApart, Following
<1> start \in Nat /\ stop \in Nat /\ stop >= start
  BY DEF Following
<1> SUFFICES ASSUME NEW v \in Nat, v = Len(values), NEW c \in Nat, c = Len(added)
             PROVE  /\ ValuesApart(all, stop, n)
                    /\ DOMAIN all = 1..(v + c)
                    /\ \A k \in 1..v : all[k] = values[k]
                    /\ \A k \in DOMAIN all : k > v => all[k].line = n
                    /\ c > 0 => all[v + 1] = added[1]
  <2>1. Len(values) \in Nat /\ Len(added) \in Nat
    BY <1>1
  <2> QED BY <2>1 DEF Joined
<1>2. DOMAIN source = 1..Len(source) /\ Len(source) \in Nat
      /\ DataLines \subseteq DOMAIN source
  BY SourceFacts
<1>3. /\ DOMAIN values = 1..v /\ DOMAIN added = 1..c
      /\ all \in Seq(Values) /\ DOMAIN all = 1..(v + c)
      /\ \A k \in 1..v : all[k] = values[k]
      /\ \A k \in 1..(v + c) : k > v => all[k] = added[k - v] /\ k - v \in 1..c
  BY <1>1
<1>4. \A k \in 1..(v + c) :
        all[k].line \in Nat /\ all[k].address \in Nat /\ all[k].size \in Nat
  <2> TAKE k \in 1..(v + c)
  <2>1. all[k] \in Values
    BY <1>3
  <2> QED BY <2>1, ValueFacts, Zenon
<1>5. ASSUME NEW k \in 1..v
      PROVE  /\ k \in 1..(v + c)
             /\ all[k].line \in Upto(DataLines, n) /\ Aligned(all[k])
             /\ all[k].address + all[k].size <= MemorySize
             /\ all[k].address + all[k].size <= end
             /\ \A j \in 1..(k - 1) : all[j].address + all[j].size <= all[k].address
  <2>1. /\ values[k].line \in Upto(DataLines, n - 1) /\ Aligned(values[k])
        /\ values[k].address + values[k].size <= MemorySize
        /\ values[k].address + values[k].size <= end
        /\ \A j \in 1..(k - 1) :
             values[j].address + values[j].size <= values[k].address
    BY <1>3 DEF ValuesApart
  <2>2. Upto(DataLines, n - 1) \subseteq Upto(DataLines, n)
    BY <1>2 DEF Upto
  <2>3. \A j \in 1..(k - 1) : j \in 1..v
    OBVIOUS
  <2> QED BY <1>3, <2>1, <2>2, <2>3
<1>6. ASSUME NEW k \in 1..(v + c), k > v
      PROVE  /\ all[k].line = n /\ Aligned(all[k])
             /\ all[k].address >= start
             /\ all[k].address + all[k].size <= stop
             /\ \A j \in 1..(k - 1) : all[j].address + all[j].size <= all[k].address
  <2>1. all[k] = added[k - v] /\ k - v \in 1..c
    BY <1>3, <1>6
  <2>2. /\ added[k - v].line = n /\ Aligned(added[k - v])
        /\ added[k - v].address >= start
        /\ added[k - v].address + added[k - v].size <= stop
        /\ \A j \in 1..((k - v) - 1) :
             added[j].address + added[j].size <= added[k - v].address
    BY <2>1 DEF Following
  <2>3. ASSUME NEW j \in 1..(k - 1)
        PROVE  all[j].address + all[j].size <= all[k].address
    <3>0. j \in 1..(v + c)
      OBVIOUS
    <3>1. CASE j \in 1..v
      <4>1. all[j].address + all[j].size <= end
        BY <1>5, <3>1
      <4>2. all[k].address >= start
        BY <2>1, <2>2
      <4>3. /\ all[j].address \in Nat /\ all[j].size \in Nat
            /\ all[k].address \in Nat
        BY <1>4, <3>0, Zenon
      <4> QED BY <4>1, <4>2, <4>3, Ordered, Zenon
    <3>2. CASE j > v
      <4>1. j - v \in 1..((k - v) - 1)
        BY <2>3, <3>2
      <4>2. all[j] = added[j - v]
        BY <1>3, <3>0, <3>2
      <4> QED BY <2>1, <2>2, <4>1, <4>2
    <3> QED BY <3>1, <3>2
  <2> QED BY <2>1, <2>2, <2>3
<1>7. MemorySize >= stop /\ stop >= stop /\ MemorySize \in Nat
  BY MemoryAssumption
<1>8. ASSUME NEW k \in 1..(v + c)
      PROVE  /\ all[k].line \in Upto(DataLines, n) /\ Aligned(all[k])
             /\ all[k].address + all[k].size <= MemorySize
             /\ all[k].address + all[k].size <= stop
             /\ \A j \in 1..(k - 1) : all[j].address + all[j].size <= all[k].address
  <2>1. CASE k \in 1..v
    <3>1. all[k].address + all[k].size <= end
      BY <1>5, <2>1
    <3>2. all[k].address \in Nat /\ all[k].size \in Nat
      BY <1>4, Zenon
    <3>3. all[k].address + all[k].size <= stop
      BY <3>1, <3>2, Ordered, Zenon
    <3> QED BY <1>5, <2>1, <3>3
  <2>2. CASE k > v
    <3>1. n \in Upto(DataLines, n)
      BY <1>2 DEF Upto
    <3>2. all[k].address + all[k].size <= stop
      BY <1>6, <2>2
    <3>3. all[k].address \in Nat /\ all[k].size \in Nat
      BY <1>4, Zenon
    <3>4. all[k].address + all[k].size <= MemorySize
      BY <3>2, <3>3, <1>7, Ordered, Zenon
    <3> QED BY <1>6, <2>2, <3>1, <3>2, <3>4
  <2> QED BY <2>1, <2>2
<1>9. ValuesApart(all, stop, n)
  BY <1>3, <1>8 DEF ValuesApart
<1>10. c > 0 => all[v + 1] = added[1]
  <2>1. c > 0 => v + 1 \in 1..(v + c) /\ v + 1 > v /\ (v + 1) - v = 1
    OBVIOUS
  <2> QED BY <1>3, <2>1
<1> QED BY <1>3, <1>6, <1>9, <1>10

(* The label of a data line, whether values follow it or none do. *)
LEMMA DataLabelNext ==
  ASSUME source \in Sources, NEW n \in 1..Len(source), n \in DataLines,
         source[n].label # None,
         NEW values, NEW end \in Nat, ValuesApart(values, end, n - 1),
         NEW labels, LabelsRight(values, labels, n - 1),
         NEW all, NEW more \in Nat,
         DOMAIN all = 1..(Len(values) + more),
         \A k \in 1..Len(values) : all[k] = values[k],
         \A k \in DOMAIN all : k > Len(values) => all[k].line = n,
         more > 0 => Near(all[Len(values) + 1].address, end, all[Len(values) + 1].size)
  PROVE  LabelsRight(all, With(labels, source[n].label, end), n)
<1> SUFFICES ASSUME NEW l0, l0 = source[n].label,
                    NEW new, new = With(labels, l0, end)
             PROVE  LabelsRight(all, new, n)
  OBVIOUS
<1>1. DOMAIN values = 1..Len(values) /\ Len(values) \in Nat
  <2>1. values \in Seq(Values)
    BY DEF ValuesApart
  <2> QED BY <2>1
<1>2. /\ DOMAIN new = DOMAIN labels \cup {l0} /\ new[l0] = end
      /\ \A k \in DOMAIN labels : k # l0 => new[k] = labels[k]
  BY Zenon DEF With
<1>3. DataLines \subseteq DOMAIN source /\ DOMAIN source = 1..Len(source)
      /\ Len(source) \in Nat
  BY SourceFacts
<1>4. ASSUME NEW k \in 1..Len(values)
      PROVE  all[k].line \in Nat /\ all[k].line <= n - 1
  <2>1. values[k].line \in DataLines /\ values[k].line <= n - 1
    BY <1>1 DEF ValuesApart, Upto
  <2> QED BY <1>3, <2>1
<1>5. ASSUME NEW l \in DOMAIN new
      PROVE  /\ new[l] \in Nat /\ Labelled(DataLines, l, n) # {}
             /\ \A k \in DOMAIN all :
                  LastOf(all[k].line, Labelled(DataLines, l, n)) /\ FirstOfLine(all, k)
                    => Near(all[k].address, new[l], all[k].size)
  <2>1. CASE l = l0
    <3>1. n \in Labelled(DataLines, l, n)
      BY <2>1, <1>3 DEF Labelled
    <3>2. ASSUME NEW k \in DOMAIN all,
                 LastOf(all[k].line, Labelled(DataLines, l, n)), FirstOfLine(all, k)
          PROVE  Near(all[k].address, new[l], all[k].size)
      <4>1. all[k].line >= n
        BY <3>1, <3>2 DEF LastOf
      <4>2. k > Len(values)
        BY <1>1, <1>4, <3>2, <4>1
      <4>3. all[k].line = n
        BY <3>2, <4>2
      <4>4. k = Len(values) + 1
        <5> SUFFICES ASSUME k # Len(values) + 1 PROVE FALSE
          OBVIOUS
        <5>1. Len(values) + 1 \in 1..(k - 1) /\ Len(values) + 1 \in DOMAIN all
          BY <1>1, <3>2, <4>2
        <5>2. all[Len(values) + 1].line = n
          BY <1>1, <5>1
        <5> QED BY <3>2, <4>3, <5>1, <5>2 DEF FirstOfLine
      <4>5. more > 0
        BY <1>1, <3>2, <4>4
      <4> QED BY <1>2, <2>1, <4>4, <4>5
    <3> QED BY <1>2, <2>1, <3>1, <3>2
  <2>2. CASE l # l0
    <3>1. Labelled(DataLines, l, n) = Labelled(DataLines, l, n - 1)
      BY <1>3, <2>2, UptoNext
    <3>2. /\ l \in DOMAIN labels /\ new[l] = labels[l]
          /\ labels[l] \in Nat /\ Labelled(DataLines, l, n - 1) # {}
          /\ \A k \in DOMAIN values :
               LastOf(values[k].line, Labelled(DataLines, l, n - 1))
                 /\ FirstOfLine(values, k)
                 => Near(values[k].address, labels[l], values[k].size)
      BY <1>2, <1>5, <2>2 DEF LabelsRight
    <3>3. ASSUME NEW k \in DOMAIN all,
                 LastOf(all[k].line, Labelled(DataLines, l, n)), FirstOfLine(all, k)
          PROVE  Near(all[k].address, new[l], all[k].size)
      <4>1. all[k].line <= n - 1
        BY <1>3, <3>1, <3>3 DEF LastOf, Labelled
      <4>2. k \in 1..Len(values)
        BY <1>1, <3>3, <4>1
      <4>3. all[k] = values[k] /\ FirstOfLine(values, k)
        BY <1>1, <3>3, <4>2 DEF FirstOfLine
      <4> QED BY <1>1, <3>1, <3>2, <3>3, <4>2, <4>3
    <3> QED BY <3>1, <3>2, <3>3
  <2> QED BY <2>1, <2>2
<1>6. None \notin DOMAIN new
  BY <1>2 DEF LabelsRight
<1> QED BY <1>5, <1>6 DEF LabelsRight

(* A line with a directive: its values and its label. *)
LEMMA DirectiveNext ==
  ASSUME source \in Sources, NEW n \in 1..Len(source), n \in DataLines,
         source[n].label # None,
         NEW values, NEW end, NEW labels, LaidOut(values, end, labels, n - 1),
         NEW size \in {1, 4}, NEW count \in Nat \ {0}, NEW added, NEW stop,
         LaidFrom(added, n, size, count, Start(end, size), stop),
         ~(stop > MemorySize)
  PROVE  LaidOut(values \o added, stop, With(labels, source[n].label, end), n)
<1> SUFFICES ASSUME NEW start, start = Start(end, size),
                    NEW all, all = values \o added
             PROVE  LaidOut(all, stop, With(labels, source[n].label, end), n)
  OBVIOUS
<1>1. /\ end \in Nat /\ ValuesApart(values, end, n - 1)
      /\ LabelsRight(values, labels, n - 1)
  BY DEF LaidOut
<1>2. start \in Nat /\ start >= end /\ Near(start, end, size)
  BY <1>1, StartFacts
<1>3. n \in Nat /\ LaidFrom(added, n, size, count, start, stop)
  BY SourceFacts
<1>4. /\ stop \in Nat /\ stop >= start
      /\ Following(added, n, start, stop) /\ Len(added) = count
      /\ added[1].address = start /\ added[1].size = size
  BY <1>2, <1>3, AddedFacts
<1>5. stop <= MemorySize
  BY <1>4, MemoryAssumption
<1>6. /\ ValuesApart(all, stop, n)
      /\ DOMAIN all = 1..(Len(values) + Len(added))
      /\ \A k \in 1..Len(values) : all[k] = values[k]
      /\ \A k \in DOMAIN all : k > Len(values) => all[k].line = n
      /\ Len(added) > 0 => all[Len(values) + 1] = added[1]
  <2>1. ValuesApart(all, stop, n) /\ Joined(all, values, added, n)
    BY <1>1, <1>2, <1>4, <1>5, ValuesNext, Zenon
  <2> QED BY <2>1, Zenon DEF Joined
<1>7. /\ Len(added) \in Nat
      /\ Near(all[Len(values) + 1].address, end, all[Len(values) + 1].size)
  <2>1. Len(added) \in Nat /\ Len(added) > 0
    BY <1>4
  <2>2. all[Len(values) + 1] = added[1]
    BY <1>6, <2>1
  <2> QED BY <1>2, <1>4, <2>1, <2>2
<1>8. LabelsRight(all, With(labels, source[n].label, end), n)
  BY <1>1, <1>6, <1>7, DataLabelNext, Zenon
<1> QED BY <1>4, <1>6, <1>8 DEF LaidOut

Appended(new, s, x) ==
  /\ new \in Seq({new[k] : k \in DOMAIN new})
  /\ DOMAIN s = 1..Len(s)
  /\ DOMAIN new = 1..(Len(s) + 1)
  /\ Len(new) = Len(s) + 1
  /\ \A k \in 1..Len(s) : new[k] = s[k]
  /\ new[Len(s) + 1] = x

LEMMA AppendFacts ==
  ASSUME NEW S, NEW s \in Seq(S), NEW x \in S, NEW new, new = Append(s, x)
  PROVE  Appended(new, s, x)
<1>1. /\ new \in Seq(S)
      /\ DOMAIN s = 1..Len(s)
      /\ DOMAIN new = 1..(Len(s) + 1)
      /\ Len(new) = Len(s) + 1
      /\ \A k \in 1..Len(s) : new[k] = s[k]
      /\ new[Len(s) + 1] = x
  OBVIOUS
<1>2. new \in Seq({new[k] : k \in DOMAIN new})
  BY <1>1
<1> QED BY <1>1, <1>2 DEF Appended

(* An instruction is emitted where the recognised lines above it say. *)
LEMMA CleanFacts ==
  ASSUME source \in Sources, TextRead(cleanLines, labelMap, Len(source))
  PROVE  /\ DOMAIN cleanLines = 1..Len(cleanLines) /\ Len(cleanLines) \in Nat
         /\ {cleanLines[k] : k \in DOMAIN cleanLines} = Code
         /\ \A k \in DOMAIN cleanLines : cleanLines[k] \in Code /\ cleanLines[k] \in Nat
         /\ \A j, k \in DOMAIN cleanLines : j < k => cleanLines[j] < cleanLines[k]
<1>1. Code \subseteq DOMAIN source /\ DOMAIN source = 1..Len(source)
      /\ Len(source) \in Nat
  BY SourceFacts
<1>2. Upto(Code, Len(source)) = Code
  BY <1>1 DEF Upto
<1>3. Lists(cleanLines, Code)
  BY <1>2 DEF TextRead
<1>4. cleanLines \in Seq(Nat)
  BY <1>3 DEF Lists
<1>5. DOMAIN cleanLines = 1..Len(cleanLines) /\ Len(cleanLines) \in Nat
  BY <1>4
<1> QED BY <1>3, <1>4, <1>5 DEF Lists

LEMMA EmittedSkip ==
  ASSUME source \in Sources, TextRead(cleanLines, labelMap, Len(source)),
         NEW n \in 1..Len(cleanLines), NEW emitted, NEW count,
         Emitted(emitted, count, n - 1), source[cleanLines[n]].op \notin Known
  PROVE  Emitted(emitted, count, n)
<1>1. {cleanLines[k] : k \in 1..n} = {cleanLines[k] : k \in 1..(n - 1)} \cup {cleanLines[n]}
  BY CleanFacts
<1>2. cleanLines[n] \notin Recognised
  BY DEF Recognised
<1>3. {cleanLines[k] : k \in 1..n} \cap Recognised
        = {cleanLines[k] : k \in 1..(n - 1)} \cap Recognised
  BY <1>1, <1>2
<1> QED BY <1>3 DEF Emitted

LEMMA EmittedNext ==
  ASSUME source \in Sources, TextRead(cleanLines, labelMap, Len(source)),
         NEW n \in 1..Len(cleanLines), NEW emitted, NEW count,
         Emitted(emitted, count, n - 1), source[cleanLines[n]].op \in Known,
         NEW i, i.line = cleanLines[n], i.pc = count * 4, EmittedRight(i, labelMap)
  PROVE  Emitted(Append(emitted, i), count + 1, n)
<1> DEFINE above == {cleanLines[k] : k \in 1..(n - 1)}
<1>1. cleanLines[n] \in Recognised /\ Recognised \subseteq Code
      /\ Code \subseteq DOMAIN source
  BY CleanFacts, SourceFacts DEF Recognised
<1>2. {cleanLines[k] : k \in 1..n} = above \cup {cleanLines[n]}
  BY CleanFacts
<1>3. /\ \A j \in above : j < cleanLines[n]
      /\ \A j \in Code : j < cleanLines[n] => j \in above
  <2>1. ASSUME NEW j \in Code, j < cleanLines[n] PROVE j \in above
    <3>1. PICK k \in 1..Len(cleanLines) : j = cleanLines[k]
      BY CleanFacts
    <3>2. ~(n < k) /\ n # k
      BY <2>1, <3>1, CleanFacts
    <3>3. k \in 1..(n - 1)
      BY <3>1, <3>2
    <3> QED BY <3>1, <3>3
  <2> QED BY <2>1, CleanFacts
<1>4. {j \in Recognised : j < cleanLines[n]} = above \cap Recognised
  BY <1>1, <1>3
<1>5. LinesOf(emitted) = above \cap Recognised
  BY DEF Emitted
<1>6. cleanLines[n] \notin LinesOf(emitted) /\ LinesOf(emitted) \subseteq DOMAIN source
  <2>1. cleanLines[n] \notin above
    BY <1>1, <1>3, CleanFacts
  <2> QED BY <1>1, <1>5, <2>1
<1> HIDE DEF above
<1>7. IsFiniteSet(LinesOf(emitted)) /\ Cardinality(LinesOf(emitted)) \in Nat
  BY <1>6, FiniteLines
<1>8. count = Cardinality(LinesOf(emitted)) /\ count = Len(emitted) /\ count \in Nat
      /\ count = Before(Recognised, cleanLines[n])
  BY <1>4, <1>5, <1>7 DEF Emitted, Before
<1> SUFFICES ASSUME NEW new, new = Append(emitted, i) PROVE Emitted(new, count + 1, n)
  OBVIOUS
<1>9. /\ new \in Seq({new[k] : k \in DOMAIN new})
      /\ DOMAIN emitted = 1..count
      /\ DOMAIN new = 1..(count + 1)
      /\ Len(new) = count + 1
      /\ \A k \in 1..count : new[k] = emitted[k]
      /\ new[count + 1] = i
  <2>1. emitted \in Seq({emitted[k] : k \in DOMAIN emitted})
    BY DEF Emitted
  <2>2. PICK T : emitted \in Seq(T) /\ i \in T
    <3>1. emitted \in Seq({emitted[k] : k \in DOMAIN emitted} \cup {i})
      BY <2>1
    <3>2. i \in {emitted[k] : k \in DOMAIN emitted} \cup {i}
      OBVIOUS
    <3> QED BY <3>1, <3>2, Zenon
  <2>3. Len(emitted) = count
    BY <1>8
  <2>4. Appended(new, emitted, i)
    BY <2>2, AppendFacts, Zenon
  <2> QED BY <2>3, <2>4, Zenon DEF Appended
<1>10. LinesOf(new) = LinesOf(emitted) \cup {cleanLines[n]}
  <2>1. count + 1 \in DOMAIN new /\ DOMAIN new = DOMAIN emitted \cup {count + 1}
    BY <1>8, <1>9
  <2>2. {new[k].line : k \in DOMAIN new}
          = {new[k].line : k \in DOMAIN emitted} \cup {new[count + 1].line}
    BY <2>1
  <2>3. {new[k].line : k \in DOMAIN emitted} = {emitted[k].line : k \in DOMAIN emitted}
    BY <1>9
  <2> QED BY <1>9, <2>2, <2>3 DEF LinesOf
<1>11. LinesOf(new) = {cleanLines[k] : k \in 1..n} \cap Recognised
  BY <1>1, <1>2, <1>5, <1>10
<1>12. count + 1 = Cardinality(LinesOf(new))
  BY <1>6, <1>7, <1>8, <1>10, FS_AddElement
<1>13. ASSUME NEW k \in 1..(count + 1)
       PROVE  /\ new[k].pc = 4 * (k - 1)
              /\ k - 1 = Before(Recognised, new[k].line)
              /\ EmittedRight(new[k], labelMap)
  <2>1. CASE k \in 1..count
    BY <1>9, <2>1 DEF Emitted
  <2>2. CASE k = count + 1
    <3>1. new[k] = i
      BY <1>9, <2>2
    <3>2. k - 1 = count /\ count * 4 = 4 * (k - 1)
      BY <1>8, <2>2
    <3>3. i.pc = 4 * (k - 1) /\ k - 1 = Before(Recognised, i.line)
      BY <1>8, <3>2
    <3> QED BY <3>1, <3>3
  <2>3. k \in 1..count \/ k = count + 1
    BY <1>8
  <2> QED BY <2>1, <2>2, <2>3, Zenon
<1> QED BY <1>9, <1>11, <1>12, <1>13 DEF Emitted

-----------------------------------------------------------------------------
(* The invariant, step by step.                                            *)

(* The source does not change, and so neither does its reading. *)
LEMMA Primed ==
  ASSUME source' = source, source \in Sources, phase' \in Phases,
         phase' = "pass1" =>
           /\ at' \in 1..(Len(source) + 1)
           /\ mode' = ModeAt(at' - 1)
           /\ index' = Cardinality(Upto(Code, at' - 1))
           /\ instructions' = << >>
           /\ TextRead(cleanLines', labelMap', at' - 1),
         phase' \in {"pass2", "done"} =>
           /\ cleanLines' = cleanLines /\ labelMap' = labelMap
           /\ at' \in 1..(Len(cleanLines) + 1)
           /\ phase' = "done" => at' = Len(cleanLines) + 1
           /\ TextRead(cleanLines, labelMap, Len(source))
           /\ Emitted(instructions', index', at' - 1),
         NEW n \in 0..Len(source),
         phase' = "pass1" => n = at' - 1,
         phase' \in {"pass2", "done"} => n = Len(source),
         LaidOut(stored', base', dataLabelMap', n)
  PROVE  PInv'
<1>1. /\ Lines' = Lines /\ Code' = Code /\ Recognised' = Recognised
      /\ TextLines' = TextLines /\ DataLines' = DataLines
  BY DEF Lines, InData, Code, Recognised, TextLines, DataLines
<1>2. InPass1'
  <2> SUFFICES ASSUME phase' = "pass1"
               PROVE  /\ at' \in 1..(Len(source') + 1)
                      /\ mode' = ModeAt(at - 1)'
                      /\ index' = Cardinality(Upto(Code', at' - 1))
                      /\ instructions' = << >>
                      /\ TextRead(cleanLines, labelMap, at - 1)'
    BY DEF InPass1
  <2>1. mode' = ModeAt(at - 1)'
    BY DEF ModeAt, MarkersUpto
  <2>2. TextRead(cleanLines, labelMap, at - 1)'
    <3>1. TextRead(cleanLines', labelMap', at' - 1)
      OBVIOUS
    <3> QED BY <1>1, <3>1 DEF TextRead, Labelled
  <2> QED BY <1>1, <2>1, <2>2
<1>3. InPass2'
  <2> SUFFICES ASSUME phase' \in {"pass2", "done"}
               PROVE  /\ at' \in 1..(Len(cleanLines') + 1)
                      /\ phase' = "done" => at' = Len(cleanLines') + 1
                      /\ TextRead(cleanLines, labelMap, Len(source))'
                      /\ Emitted(instructions, index, at - 1)'
    BY DEF InPass2
  <2>1. TextRead(cleanLines, labelMap, Len(source))'
    <3>1. TextRead(cleanLines, labelMap, Len(source))
      OBVIOUS
    <3> QED BY <1>1, <3>1 DEF TextRead, Labelled
  <2>2. Emitted(instructions, index, at - 1)'
    <3>1. Emitted(instructions', index', at' - 1)
      OBVIOUS
    <3> QED BY <1>1, <3>1 DEF Emitted, EmittedRight
  <2> QED BY <2>1, <2>2
<1>4. DataRead'
  <2>1. LaidOut(stored, base, dataLabelMap, n)'
    BY <1>1 DEF LaidOut, ValuesApart, LabelsRight, Labelled
  <2> QED BY <2>1 DEF DataRead
<1> QED BY <1>2, <1>3, <1>4 DEF PInv

LEMMA InitPInv == ASSUME Init PROVE PInv
<1>1. source \in Sources /\ phase = "pass1" /\ at = 1 /\ Len(source) \in Nat
  BY SourceFacts DEF Init
<1>2. /\ \A S : S \subseteq DOMAIN source => Upto(S, 0) = {}
      /\ Code \subseteq DOMAIN source
  BY <1>1, SourceFacts DEF Upto
<1>3. InPass1
  <2>1. MarkersUpto(0) = {}
    BY DEF MarkersUpto
  <2>2. Lists(<< >>, {})
    BY DEF Lists
  <2>3. TextRead(cleanLines, labelMap, 0)
    BY <1>2, <2>2 DEF Init, TextRead
  <2>4. Cardinality(Upto(Code, 0)) = 0
    BY <1>2, FS_EmptySet
  <2> QED BY <1>1, <2>1, <2>3, <2>4 DEF InPass1, Init, ModeAt
<1>4. LaidOut(stored, base, dataLabelMap, 0)
  BY MemoryAssumption DEF Init, LaidOut, ValuesApart, LabelsRight
<1>5. DataRead
  <2>1. 0 \in 0..Len(source)
    BY <1>1
  <2> QED BY <1>1, <1>4, <2>1 DEF DataRead
<1> QED BY <1>1, <1>3, <1>5 DEF PInv, InPass2, Phases

(* What holds while lines are read. *)
LEMMA ReadingFacts ==
  ASSUME PInv, Reading
  PROVE  /\ source \in Sources /\ at \in 1..Len(source) /\ phase = "pass1"
         /\ Len(source) \in Nat /\ at - 1 \in 0..Len(source)
         /\ at \in 0..Len(source) /\ (at + 1) - 1 = at
         /\ at + 1 \in 1..(Len(source) + 1)
         /\ mode = ModeAt(at - 1)
         /\ index = Cardinality(Upto(Code, at - 1)) /\ index \in Nat
         /\ instructions = << >>
         /\ TextRead(cleanLines, labelMap, at - 1)
         /\ LaidOut(stored, base, dataLabelMap, at - 1)
<1>1. source \in Sources /\ Len(source) \in Nat /\ Code \subseteq DOMAIN source
  BY SourceFacts DEF PInv
<1>2. /\ phase = "pass1" /\ at \in 1..Len(source)
      /\ mode = ModeAt(at - 1)
      /\ index = Cardinality(Upto(Code, at - 1))
      /\ instructions = << >>
      /\ TextRead(cleanLines, labelMap, at - 1)
  BY <1>1 DEF PInv, InPass1, Reading
<1>3. index \in Nat
  <2>1. Upto(Code, at - 1) \subseteq DOMAIN source
    BY <1>1 DEF Upto
  <2> QED BY <1>1, <1>2, <2>1, FiniteLines
<1>4. LaidOut(stored, base, dataLabelMap, at - 1)
  BY <1>2 DEF PInv, DataRead
<1>5. /\ at - 1 \in 0..Len(source) /\ at \in 0..Len(source)
      /\ at + 1 \in 1..(Len(source) + 1) /\ (at + 1) - 1 = at
  BY <1>1, <1>2
<1> QED BY <1>1, <1>2, <1>3, <1>4, <1>5

LEMMA MarkerStep == ASSUME PInv, Marker PROVE PInv'
<1>1. Reading /\ source[at].op \in Markers
  BY DEF Marker
<1>2. /\ source' = source /\ at' = at + 1 /\ phase' = phase /\ mode' = source[at].op
      /\ index' = index /\ instructions' = instructions
      /\ cleanLines' = cleanLines /\ labelMap' = labelMap
      /\ stored' = stored /\ base' = base /\ dataLabelMap' = dataLabelMap
  BY DEF Marker, NextLine, data, text
<1>3. ModeAt(at) = source[at].op /\ at \notin Lines
  BY <1>1, ReadingFacts, ModeNext
<1>4. at \notin TextLines /\ at \notin DataLines
  BY <1>3 DEF TextLines, DataLines
<1>5. /\ TextRead(cleanLines, labelMap, at)
      /\ Upto(Code, at) = Upto(Code, at - 1)
  BY <1>1, <1>4, ReadingFacts, TextSkip
<1>6. LaidOut(stored, base, dataLabelMap, at)
  BY <1>1, <1>4, ReadingFacts, DataSkip
<1>7. phase' = "pass1" /\ at' - 1 = at
  BY <1>1, <1>2, ReadingFacts
<1> QED BY <1>1, <1>2, <1>3, <1>5, <1>6, <1>7, ReadingFacts, Primed DEF Phases

LEMMA TextLineStep == ASSUME PInv, TextLine PROVE PInv'
<1>1. Reading /\ source[at].op \notin Markers /\ mode # ".data"
  BY DEF TextLine
<1>2. /\ source' = source /\ at' = at + 1 /\ phase' = phase /\ mode' = mode
      /\ instructions' = instructions
      /\ stored' = stored /\ base' = base /\ dataLabelMap' = dataLabelMap
  BY DEF TextLine, NextLine, data
<1>3. /\ labelMap' = IF source[at].label = None THEN labelMap
                     ELSE With(labelMap, source[at].label, index * 4)
      /\ source[at].op # None =>
           cleanLines' = Append(cleanLines, at) /\ index' = index + 1
      /\ source[at].op = None => cleanLines' = cleanLines /\ index' = index
  BY DEF TextLine
<1>4. at \in TextLines /\ at \notin DataLines /\ ModeAt(at) = ModeAt(at - 1)
  <2>1. at \in TextLines /\ ModeAt(at) = ModeAt(at - 1)
    BY <1>1, ReadingFacts, ModeNext
  <2> QED BY <2>1 DEF TextLines, DataLines
<1>5. /\ None \notin DOMAIN labelMap'
      /\ \A l \in DOMAIN labelMap' :
           labelMap'[l] = 4 * Before(Code, Max(Labelled(TextLines, l, at)))
  BY <1>1, <1>3, <1>4, ReadingFacts, TextLabel
<1>6. Lists(cleanLines', Upto(Code, at)) /\ index' = Cardinality(Upto(Code, at))
  <2>1. Lists(cleanLines, Upto(Code, at - 1))
    BY <1>1, ReadingFacts DEF TextRead
  <2>2. /\ source[at].op # None =>
             /\ Lists(Append(cleanLines, at), Upto(Code, at))
             /\ Cardinality(Upto(Code, at)) = Cardinality(Upto(Code, at - 1)) + 1
        /\ source[at].op = None => Upto(Code, at) = Upto(Code, at - 1)
    BY <1>1, <1>4, <2>1, ReadingFacts, TextNext
  <2>3. index = Cardinality(Upto(Code, at - 1))
    BY <1>1, ReadingFacts
  <2> QED BY <1>3, <2>1, <2>2, <2>3
<1>7. TextRead(cleanLines', labelMap', at)
  BY <1>5, <1>6 DEF TextRead
<1>8. LaidOut(stored, base, dataLabelMap, at)
  BY <1>1, <1>4, ReadingFacts, DataSkip
<1>9. phase' = "pass1" /\ at' - 1 = at
  BY <1>1, <1>2, ReadingFacts
<1> QED
  BY <1>1, <1>2, <1>4, <1>6, <1>7, <1>8, <1>9, ReadingFacts, Primed DEF Phases

LEMMA DataLineStep == ASSUME PInv, DataLine PROVE PInv'
<1> DEFINE line == source[at]
           size == Size(line.op)
           first == Start(base, size)
           last == first + size * line.arg
           new == With(dataLabelMap, line.label, base)
           fresh == [k \in 1..line.arg |->
                       [line |-> at, address |-> first + size * (k - 1),
                        size |-> size]]
<1>1. Reading /\ source[at].op \notin Markers /\ mode = ".data"
  BY DEF DataLine
<1>2. /\ source' = source /\ mode' = mode
      /\ cleanLines' = cleanLines /\ labelMap' = labelMap /\ index' = index
  BY DEF DataLine, text
<1>3. \/ /\ phase' = "raised"
         /\ stored' = stored /\ base' = base /\ dataLabelMap' = dataLabelMap
      \/ /\ line.label # None /\ NextLine
         /\ dataLabelMap' = new /\ base' = base /\ stored' = stored
      \/ /\ line.label # None /\ NextLine /\ line.op \in Directives
         /\ ~(last > MemorySize)
         /\ dataLabelMap' = new /\ base' = last /\ stored' = stored \o fresh
  BY Zenon DEF DataLine, Raise, data
<1>4. at \in DataLines /\ at \notin TextLines /\ ModeAt(at) = ModeAt(at - 1)
  <2>1. at \in DataLines /\ ModeAt(at) = ModeAt(at - 1)
    BY <1>1, ReadingFacts, ModeNext
  <2> QED BY <2>1 DEF TextLines, DataLines
<1>5. /\ TextRead(cleanLines, labelMap, at)
      /\ Upto(Code, at) = Upto(Code, at - 1)
  BY <1>1, <1>4, ReadingFacts, TextSkip
<1>6. base \in Nat /\ ValuesApart(stored, base, at - 1)
      /\ LabelsRight(stored, dataLabelMap, at - 1)
  BY <1>1, ReadingFacts DEF LaidOut
<1> HIDE DEF line, size, first, last, new, fresh
<1>7. ASSUME NextLine, LaidOut(stored', base', dataLabelMap', at) PROVE PInv'
  <2>1. /\ at' = at + 1 /\ phase' = phase /\ instructions' = instructions
        /\ phase' = "pass1" /\ at' - 1 = at
    BY <1>1, <1>7, ReadingFacts DEF NextLine
  <2> QED
    BY <1>1, <1>2, <1>4, <1>5, <1>7, <2>1, ReadingFacts, Primed DEF Phases
<1>8. CASE /\ phase' = "raised"
           /\ stored' = stored /\ base' = base /\ dataLabelMap' = dataLabelMap
  BY <1>1, <1>2, <1>8, ReadingFacts, Primed DEF Phases
<1>9. CASE /\ line.label # None /\ NextLine
           /\ dataLabelMap' = new /\ base' = base /\ stored' = stored
  <2>1. DOMAIN stored = 1..(Len(stored) + 0) /\ Len(stored) \in Nat
    <3>1. stored \in Seq(Values)
      BY <1>6 DEF ValuesApart
    <3> QED BY <3>1
  <2>2. /\ \A k \in DOMAIN stored : k > Len(stored) => stored[k].line = at
        /\ 0 > 0 => Near(stored[Len(stored) + 1].address, base,
                         stored[Len(stored) + 1].size)
        /\ 0 \in Nat /\ at \in 1..Len(source) /\ source \in Sources
    BY <1>1, <2>1, ReadingFacts
  <2>3. LabelsRight(stored, new, at)
    BY <1>4, <1>6, <1>9, <2>1, <2>2, DataLabelNext, Zenon DEF new, line
  <2>4. ValuesApart(stored, base, at)
    <3>1. Upto(DataLines, at - 1) \subseteq Upto(DataLines, at)
      BY <1>1, ReadingFacts, SourceFacts DEF Upto
    <3> QED BY <1>6, <3>1 DEF ValuesApart
  <2> QED BY <1>6, <1>7, <1>9, <2>3, <2>4 DEF LaidOut
<1>10. CASE /\ line.label # None /\ NextLine /\ line.op \in Directives
            /\ ~(last > MemorySize)
            /\ dataLabelMap' = new /\ base' = last /\ stored' = stored \o fresh
  <2>1. line.arg \in Nat \ {0}
    BY <1>1, <1>10, ReadingFacts, SourceFacts DEF line
  <2>2. size \in {1, 4}
    BY DEF size, Size
  <2>3. LaidFrom(fresh, at, size, line.arg, Start(base, size), last)
    <3>1. Start(base, size) % size = 0
      BY <1>6, <2>2, StartFacts
    <3> QED BY <2>2, <3>1 DEF LaidFrom, fresh, last, first
  <2>4. /\ source \in Sources /\ at \in 1..Len(source)
        /\ LaidOut(stored, base, dataLabelMap, at - 1)
    BY <1>1, ReadingFacts
  <2>5. LaidOut(stored \o fresh, last, new, at)
    BY <1>4, <1>10, <2>1, <2>2, <2>3, <2>4, DirectiveNext DEF new, line
  <2> QED BY <1>7, <1>10, <2>5
<1> QED BY <1>3, <1>8, <1>9, <1>10

LEMMA EndOfPass1Step == ASSUME PInv, EndOfPass1 PROVE PInv'
<1>1. /\ source' = source /\ at' = 1 /\ phase' = "pass2" /\ index' = 0
      /\ instructions' = instructions
      /\ cleanLines' = cleanLines /\ labelMap' = labelMap
      /\ stored' = stored /\ base' = base /\ dataLabelMap' = dataLabelMap
      /\ phase = "pass1" /\ at > Len(source)
  BY DEF EndOfPass1, data
<1>2. source \in Sources /\ Len(source) \in Nat
  BY SourceFacts DEF PInv
<1>3. at = Len(source) + 1 /\ at - 1 = Len(source)
  BY <1>1, <1>2 DEF PInv, InPass1
<1>4. TextRead(cleanLines, labelMap, Len(source)) /\ instructions = << >>
  BY <1>1, <1>3 DEF PInv, InPass1
<1>5. LaidOut(stored, base, dataLabelMap, Len(source))
  BY <1>1, <1>3 DEF PInv, DataRead
<1>6. Emitted(instructions', index', 0)
  <2>1. LinesOf(<< >>) = {}
    BY DEF LinesOf
  <2> QED BY <1>1, <1>4, <2>1, FS_EmptySet DEF Emitted
<1>7. at' \in 1..(Len(cleanLines) + 1) /\ at' - 1 = 0 /\ Len(source) \in 0..Len(source)
  BY <1>1, <1>2, <1>4, CleanFacts
<1> QED BY <1>1, <1>2, <1>4, <1>5, <1>6, <1>7, Primed DEF Phases

(* What holds while instructions are generated. *)
LEMMA GeneratingFacts ==
  ASSUME PInv, phase = "pass2"
  PROVE  /\ source \in Sources /\ at \in 1..(Len(cleanLines) + 1)
         /\ Len(source) \in Nat /\ Len(cleanLines) \in Nat
         /\ Len(source) \in 0..Len(source)
         /\ TextRead(cleanLines, labelMap, Len(source))
         /\ Emitted(instructions, index, at - 1)
         /\ LaidOut(stored, base, dataLabelMap, Len(source))
<1>1. source \in Sources /\ Len(source) \in Nat
  BY SourceFacts DEF PInv
<1>2. /\ TextRead(cleanLines, labelMap, Len(source))
      /\ Emitted(instructions, index, at - 1)
      /\ at \in 1..(Len(cleanLines) + 1)
  BY DEF PInv, InPass2
<1>3. LaidOut(stored, base, dataLabelMap, Len(source))
  BY DEF PInv, DataRead
<1>4. Len(cleanLines) \in Nat
  BY <1>1, <1>2, CleanFacts
<1> QED BY <1>1, <1>2, <1>3, <1>4

(* A step of the second pass that goes on to the next line. *)
LEMMA GeneratingStep ==
  ASSUME PInv, Generating, source' = source, phase' = phase, at' = at + 1,
         labelMap' = labelMap, cleanLines' = cleanLines, UNCHANGED data,
         Emitted(instructions', index', at)
  PROVE  PInv'
<1>1. phase = "pass2" /\ at <= Len(cleanLines)
  BY DEF Generating
<1>2. at' \in 1..(Len(cleanLines) + 1) /\ at' - 1 = at
  BY <1>1, GeneratingFacts
<1>3. stored' = stored /\ base' = base /\ dataLabelMap' = dataLabelMap
  BY DEF data
<1> QED BY <1>1, <1>2, <1>3, GeneratingFacts, Primed DEF Phases

LEMMA RaiseStep ==
  ASSUME PInv, source' = source, phase' = "raised", UNCHANGED data
  PROVE  PInv'
<1>1. source \in Sources
  BY DEF PInv
<1>2. PICK n \in 0..Len(source) : LaidOut(stored, base, dataLabelMap, n)
  BY DEF PInv, DataRead
<1>3. stored' = stored /\ base' = base /\ dataLabelMap' = dataLabelMap
  BY DEF data
<1> QED BY <1>1, <1>2, <1>3, Primed DEF Phases

LEMMA EmitStep ==
  ASSUME PInv, Generating, NEW imm, Emit(imm), Line.op \in Known,
         Line.op \in Jumps => Line.arg \in DOMAIN labelMap /\ imm = Offset(Line.arg),
         source' = source, labelMap' = labelMap, cleanLines' = cleanLines,
         UNCHANGED data
  PROVE  PInv'
<1>1. phase = "pass2" /\ at <= Len(cleanLines)
  BY DEF Generating
<1>2. at \in 1..Len(cleanLines) /\ source \in Sources
  BY <1>1, GeneratingFacts
<1> DEFINE i == [line |-> cleanLines[at], pc |-> index * 4, imm |-> imm]
<1>3. /\ instructions' = Append(instructions, i)
      /\ index' = index + 1 /\ at' = at + 1 /\ phase' = phase
  BY DEF Emit
<1>4. i.line = cleanLines[at] /\ i.pc = index * 4 /\ i.imm = imm
  OBVIOUS
<1> HIDE DEF i
<1>5. EmittedRight(i, labelMap)
  BY <1>4 DEF EmittedRight, Offset, Line
<1>6. Emitted(Append(instructions, i), index + 1, at)
  BY <1>1, <1>2, <1>4, <1>5, GeneratingFacts, EmittedNext DEF Line
<1> QED BY <1>3, <1>6, GeneratingStep

LEMMA GenerateStep ==
  ASSUME PInv, Plain \/ Jump \/ LoadAddress PROVE PInv'
<1>1. CASE Plain
  BY <1>1, EmitStep, Zenon DEF Plain, Known, Jumps
<1>2. CASE Jump
  BY <1>2, EmitStep, RaiseStep DEF Jump, Raise, Known, Jumps
<1>3. CASE LoadAddress
  BY <1>3, EmitStep, RaiseStep DEF LoadAddress, Raise, Known, Jumps
<1> QED BY <1>1, <1>2, <1>3

LEMMA UnrecognisedStep == ASSUME PInv, Unrecognised PROVE PInv'
<1>1. /\ Generating /\ source[cleanLines[at]].op \notin Known
      /\ source' = source /\ phase' = phase /\ at' = at + 1
      /\ labelMap' = labelMap /\ cleanLines' = cleanLines /\ index' = index
      /\ instructions' = instructions
      /\ UNCHANGED data
  BY DEF Unrecognised, text, Line
<1>2. phase = "pass2" /\ at \in 1..Len(cleanLines)
  BY <1>1, GeneratingFacts DEF Generating
<1>3. Emitted(instructions', index', at)
  BY <1>1, <1>2, GeneratingFacts, EmittedSkip
<1> QED BY <1>1, <1>3, GeneratingStep

LEMMA DoneStep == ASSUME PInv, Done PROVE PInv'
<1>1. /\ phase = "pass2" /\ at > Len(cleanLines) /\ phase' = "done"
      /\ source' = source /\ at' = at
      /\ labelMap' = labelMap /\ cleanLines' = cleanLines /\ index' = index
      /\ instructions' = instructions
      /\ stored' = stored /\ base' = base /\ dataLabelMap' = dataLabelMap
  BY DEF Done, text, data
<1>2. at' = Len(cleanLines) + 1
  BY <1>1, GeneratingFacts
<1>3. Emitted(instructions', index', at' - 1)
  BY <1>1, GeneratingFacts
<1>4. source \in Sources /\ at' \in 1..(Len(cleanLines) + 1)
  BY <1>1, GeneratingFacts
<1> QED BY <1>1, <1>2, <1>3, <1>4, GeneratingFacts, Primed DEF Phases

LEMMA StutterStep == ASSUME PInv, UNCHANGED vars PROVE PInv'
<1>1. /\ source' = source /\ at' = at /\ phase' = phase /\ mode' = mode
      /\ labelMap' = labelMap /\ cleanLines' = cleanLines /\ index' = index
      /\ instructions' = instructions
      /\ stored' = stored /\ base' = base /\ dataLabelMap' = dataLabelMap
  BY DEF vars
<1>2. source \in Sources /\ phase \in Phases
  BY DEF PInv
<1>3. PICK n \in 0..Len(source) :
        /\ phase = "pass1" => n = at - 1
        /\ phase \in {"pass2", "done"} => n = Len(source)
        /\ LaidOut(stored, base, dataLabelMap, n)
  BY DEF PInv, DataRead
<1>4. InPass1 /\ InPass2
  BY DEF PInv
<1> QED BY <1>1, <1>2, <1>3, <1>4, Primed DEF InPass1, InPass2

LEMMA NextPInv == ASSUME PInv, [Next]_vars PROVE PInv'
BY MarkerStep, DataLineStep, TextLineStep, EndOfPass1Step, GenerateStep,
   UnrecognisedStep, DoneStep, StutterStep DEF Next

THEOREM InvTheorem == Spec => []PInv
<1>1. Init => PInv
  BY InitPInv
<1>2. PInv /\ [Next]_vars => PInv'
  BY NextPInv
<1> QED BY <1>1, <1>2, PTL DEF Spec

-----------------------------------------------------------------------------
(* The theorems.                                                           *)

(* Instruction memory has the recognised instructions of the source, in    *)
(* their order, each where its pc says, whatever the source               *)
(* (Instruction_mem.py:8-18, parser.py:63-71, 154-155).                    *)
THEOREM AssembledTheorem == Spec => []AllAssembled
<1>1. PInv => AllAssembled
  <2> SUFFICES ASSUME PInv, phase = "done"
               PROVE  /\ LinesOf(instructions) = Recognised
                      /\ \A k \in DOMAIN instructions :
                           /\ instructions[k].pc = 4 * (k - 1)
                           /\ k - 1 = Before(Recognised, instructions[k].line)
    BY DEF AllAssembled, LinesOf
  <2>1. /\ source \in Sources /\ at = Len(cleanLines) + 1
        /\ TextRead(cleanLines, labelMap, Len(source))
        /\ Emitted(instructions, index, at - 1)
    BY DEF PInv, InPass2
  <2>2. at - 1 = Len(cleanLines) /\ {cleanLines[k] : k \in 1..Len(cleanLines)} = Code
    BY <2>1, CleanFacts
  <2>3. Code \cap Recognised = Recognised
    BY <2>1, SourceFacts
  <2> QED BY <2>1, <2>2, <2>3 DEF Emitted
<1> QED BY <1>1, InvTheorem, PTL

(* A jump lands past the first instruction after its label by one          *)
(* instruction for each unrecognised line above the label, and on it when  *)
(* there is none (parser.py:57-64, 111-114, 136-147, 150-152).             *)
THEOREM JumpsTheorem == Spec => []JumpsLand
<1>1. PInv => JumpsLand
  <2> SUFFICES ASSUME PInv, phase = "done", NEW k \in DOMAIN instructions,
                      NEW label, label = source[instructions[k].line].arg,
                      source[instructions[k].line].op \in Jumps
               PROVE  instructions[k].pc + instructions[k].imm
                        = 4 * (Before(Recognised, TextLabelLine(label))
                               + Before(Code \ Recognised, TextLabelLine(label)))
    BY DEF JumpsLand
  <2> DEFINE m == TextLabelLine(label)
             R == {j \in Recognised : j < m}
             U == {j \in Code \ Recognised : j < m}
  <2>1. /\ source \in Sources
        /\ TextRead(cleanLines, labelMap, Len(source))
        /\ Emitted(instructions, index, at - 1)
    BY DEF PInv, InPass2
  <2>2. /\ DOMAIN source = 1..Len(source) /\ Code \subseteq DOMAIN source
        /\ Recognised \subseteq Code /\ TextLines \subseteq DOMAIN source
    BY <2>1, SourceFacts
  <2>3. /\ instructions[k].pc = 4 * (k - 1)
        /\ label \in DOMAIN labelMap
        /\ instructions[k].imm = labelMap[label] - instructions[k].pc
    BY <2>1 DEF Emitted, EmittedRight
  <2>4. m = Max(Labelled(TextLines, label, Len(source)))
    <3>1. {i \in Lines : ~InData(i) /\ source[i].label = label}
            = Labelled(TextLines, label, Len(source))
      BY <2>1, <2>2, SourceFacts DEF Labelled, TextLines
    <3> QED BY <3>1 DEF TextLabelLine
  <2>5. labelMap[label] = 4 * Before(Code, m)
    BY <2>1, <2>3, <2>4 DEF TextRead
  <2> HIDE DEF m
  <2>6. Before(Code, m) = Before(Recognised, m) + Before(Code \ Recognised, m)
        /\ Before(Code, m) \in Nat
    <3>1. R \subseteq DOMAIN source /\ U \subseteq DOMAIN source
      BY <2>2
    <3>2. IsFiniteSet(R) /\ IsFiniteSet(U) /\ R \cap U = {}
      BY <2>1, <3>1, FiniteLines
    <3>3. Cardinality(R \cup U) = Cardinality(R) + Cardinality(U)
          /\ Cardinality(R) \in Nat /\ Cardinality(U) \in Nat
      <4>1. Cardinality(R) \in Nat /\ Cardinality(U) \in Nat
        BY <2>1, <3>1, FiniteLines
      <4>2. Cardinality(R \cup U)
              = Cardinality(R) + Cardinality(U) - Cardinality(R \cap U)
        BY <3>2, FS_Union
      <4>3. Cardinality(R \cap U) = 0
        BY <3>2, FS_EmptySet
      <4> QED BY <4>1, <4>2, <4>3
    <3>4. {j \in Code : j < m} = R \cup U
      BY <2>2
    <3> QED BY <3>3, <3>4 DEF Before
  <2>7. instructions[k].pc + instructions[k].imm = labelMap[label]
    <3>1. k \in Int
      <4>1. instructions \in Seq({instructions[j] : j \in DOMAIN instructions})
        BY <2>1 DEF Emitted
      <4> QED BY <4>1
    <3> QED BY <2>3, <2>5, <2>6, <3>1
  <2> QED BY <2>5, <2>6, <2>7 DEF m
<1> QED BY <1>1, InvTheorem, PTL

(* A data label names the first value of its line, or, when that is a word *)
(* that follows bytes, the place less than a word before it where the      *)
(* alignment starts (parser.py:35, data_mem.py:52-64).                     *)
THEOREM LabelsTheorem == Spec => []LabelsNameData
<1>1. PInv => LabelsNameData
  <2> SUFFICES ASSUME PInv, NEW l \in DOMAIN dataLabelMap,
                      NEW k \in DOMAIN stored,
                      stored[k].line = DataLabelLine(l),
                      \A j \in 1..(k - 1) : stored[j].line # stored[k].line
               PROVE  LET skipped == stored[k].address - dataLabelMap[l]
                      IN skipped = 0 \/ (dataLabelMap[l] % stored[k].size # 0
                                           /\ skipped \in 1..(stored[k].size - 1))
    BY DEF LabelsNameData
  <2> DEFINE all == Labelled(DataLines, l, Len(source))
  <2>1. source \in Sources
    BY DEF PInv
  <2>2. PICK n \in 0..Len(source) : LaidOut(stored, base, dataLabelMap, n)
    BY DEF PInv, DataRead
  <2>3. /\ DOMAIN source = 1..Len(source) /\ Len(source) \in Nat
        /\ DataLines \subseteq DOMAIN source
    BY <2>1, SourceFacts
  <2>4. /\ dataLabelMap[l] \in Nat /\ Labelled(DataLines, l, n) # {}
        /\ LastOf(stored[k].line, Labelled(DataLines, l, n)) /\ FirstOfLine(stored, k)
             => Near(stored[k].address, dataLabelMap[l], stored[k].size)
    BY <2>2 DEF LaidOut, LabelsRight
  <2>5. stored[k].line <= n /\ stored[k].address \in Nat
    <3>1. stored \in Seq(Values) /\ stored[k].line \in Upto(DataLines, n)
      BY <2>2 DEF LaidOut, ValuesApart
    <3>2. stored[k] \in Values
      BY <3>1
    <3> QED BY <3>1, <3>2, ValueFacts DEF Upto
  <2>6. Labelled(DataLines, l, n) \subseteq all /\ all \subseteq 1..Len(source)
    BY <2>3 DEF Labelled
  <2>7. DataLabelLine(l) = Max(all)
    <3>1. {i \in Lines : InData(i) /\ source[i].label = l} = all
      BY <2>1, <2>3, SourceFacts DEF Labelled, DataLines
    <3> QED BY <3>1 DEF DataLabelLine
  <2>8. LastOf(stored[k].line, all)
    <3> HIDE DEF all
    <3>1. all # {}
      BY <2>4, <2>6
    <3> QED BY <2>3, <2>6, <2>7, <3>1, MaxIsGreatest
  <2>9. LastOf(stored[k].line, Labelled(DataLines, l, n))
    BY <2>5, <2>6, <2>8 DEF LastOf, Labelled
  <2>10. Near(stored[k].address, dataLabelMap[l], stored[k].size)
    BY <2>4, <2>9 DEF FirstOfLine
  <2> QED BY <2>4, <2>5, <2>10 DEF Near
<1> QED BY <1>1, InvTheorem, PTL

(* The values of the data section do not overlap, lie within memory and    *)
(* are aligned, whatever the directives and the size of the memory         *)
(* (data_mem.py:52-72).                                                    *)
THEOREM DataTheorem == Spec => []DataApart
<1>1. PInv => DataApart
  <2>1. ASSUME PInv PROVE \E n : ValuesApart(stored, base, n)
    BY <2>1 DEF PInv, DataRead, LaidOut
  <2> QED BY <2>1 DEF DataApart, ValuesApart, Aligned
<1> QED BY <1>1, InvTheorem, PTL
=============================================================================
