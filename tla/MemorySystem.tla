---------------------------- MODULE MemorySystem ----------------------------
(***************************************************************************)
(* The cache hierarchy and the memory controller at work: the three        *)
(* requesters of the simulator (the MEM stage's loads, the fetch stage,    *)
(* the store buffer's drain) access it in that order within a cycle, each  *)
(* of them again once the latency of its last access is over, and the      *)
(* controller ticks at the end of the cycle (simulator.py:57-66, 187-190). *)
(* Which accesses are made is left open: any load, fetch or store of the   *)
(* given blocks, in any cycle its requester is free.                       *)
(*                                                                         *)
(* When the loop ends the store buffer is drained without waiting          *)
(* (mem.py:26-32) and the hierarchy flushed.                               *)
(***************************************************************************)
EXTENDS CacheHierarchy

CONSTANTS
  DataBlocks,  \* blocks the program loads from and stores to
  Program,     \* instruction memory, by block
  MaxUses,     \* bound of the model: LFU counts
  MaxQueued    \* bound of the model: waiting write-backs

VARIABLES
  h,          \* CacheHierarchy
  mem,        \* data memory, by block
  wait,       \* cycles until the load port and the drain are free
  turn,       \* how far the cycle has come: 0, 1, 2, 3
  phase,      \* the loop runs, the store buffer drains, memory is final
  loaded,     \* what the last step loaded, if it was a load
  latest,     \* history: what was last stored in each word
  overtaken   \* history: blocks a miss read past a waiting write-back

history == <<latest, overtaken>>
vars == <<h, mem, wait, turn, phase, loaded, history>>

(* What the words of the program are. *)
ProgramWords == UNION {{Program[b][c] : c \in Cells} : b \in DOMAIN Program}

ASSUME BlocksAssumption ==
  /\ DataBlocks \subseteq Nat /\ DOMAIN Program \subseteq Nat
  /\ \A b \in DOMAIN Program : Program[b] \in [Cells -> ProgramWords]

Blocks == DataBlocks \cup DOMAIN Program
Nothing == [k \in {} |-> k]

Init ==
  /\ h = EmptyHierarchy
  /\ mem = [b \in DataBlocks |-> [c \in Cells |-> Zero]]
  /\ wait = [load |-> 0, drain |-> 0]
  /\ turn = 0
  /\ phase = "running"
  /\ loaded = Nothing
  /\ latest = [b \in DataBlocks |-> [c \in Cells |-> Zero]]
  /\ overtaken = {}

-----------------------------------------------------------------------------
(* Block b has a version on its way to memory. *)
Waiting(b) ==
  \/ \E k \in DOMAIN h.wb : h.wb[k].block = b
  \/ \E k \in DOMAIN h.active : h.active[k].block = b

UsesWithin(c) ==
  \A s \in {c[i] : i \in DOMAIN c} :
    \A w \in DOMAIN s.lines : s.lines[w].uses <= MaxUses

(* An access leaves the hierarchy at after. *)
Takes(after) ==
  /\ Len(after.wb) <= MaxQueued
  /\ UsesWithin(after.l1i) /\ UsesWithin(after.l1d) /\ UsesWithin(after.l2)
  /\ h' = [after EXCEPT !.cost = 0]

Overtakes(b) ==
  overtaken' = IF Misses(h, "l1d", b) /\ Waiting(b) THEN overtaken \cup {b}
                                                    ELSE overtaken

(* MemStage._handle_load, for a word not in the store buffer. *)
Load(b, c) ==
  /\ phase = "running" /\ turn = 0 /\ wait.load = 0
  /\ LET after == Ensured(h, "l1d", b, mem[b])
     IN /\ Takes(after)
        /\ wait' = [wait EXCEPT !.load = after.cost]
  /\ loaded' = [block |-> b, cell |-> c,
                value |-> AsData(Found(h, "l1d", b, mem[b])[c])]
  /\ Overtakes(b)
  /\ turn' = 1
  /\ UNCHANGED <<mem, phase, latest>>

(* FetchStage.step.  A taken branch cancels the access that is pending and *)
(* fetches again at once, so fetches may come in any cycle.                *)
Fetch(b) ==
  /\ phase = "running" /\ turn \in {0, 1}
  /\ Takes(Ensured(h, "l1i", b, Program[b]))
  /\ turn' = 2
  /\ loaded' = Nothing
  /\ UNCHANGED <<mem, wait, phase, latest, overtaken>>

(* A store leaves the store buffer: MemStage.tick, or flush_all. *)
Drain(b, c, value) ==
  /\ \/ phase = "running" /\ turn \in 0..2 /\ wait.drain = 0
     \/ phase = "draining"
  /\ LET after == Stored(h, b, mem[b], c, value)
     IN /\ Takes(after)
        /\ wait' = IF phase = "running" THEN [wait EXCEPT !.drain = after.cost]
                                        ELSE wait
  /\ loaded' = Nothing
  /\ latest' = [latest EXCEPT ![b] = [@ EXCEPT ![c] = value]]
  /\ Overtakes(b)
  /\ turn' = 3
  /\ UNCHANGED <<mem, phase>>

(* The end of a cycle. *)
CountedDownUnguarded(n) == n - 1  \* faulty variant
CountedDown(n) == IF n > 0 THEN n - 1 ELSE 0
Tick ==
  /\ phase = "running"
  /\ h' = Ticked(h)
  /\ mem' = MemoryAfterTick(h, mem)
  /\ wait' = [load |-> CountedDown(wait.load), drain |-> CountedDown(wait.drain)]
  /\ turn' = 0
  /\ loaded' = Nothing
  /\ UNCHANGED <<phase, history>>

(* The loop ends between two cycles; what is left in the store buffer      *)
(* drains.                                                                 *)
LoopEnds ==
  /\ phase = "running" /\ turn = 0
  /\ phase' = "draining"
  /\ wait' = [load |-> 0, drain |-> 0]
  /\ loaded' = Nothing
  /\ UNCHANGED <<h, mem, turn, history>>

FlushAll ==
  /\ phase = "draining"
  /\ phase' = "flushed"
  /\ h' = Flushed(h)
  /\ mem' = WrittenAll(mem, FlushWrites(h))
  /\ loaded' = Nothing
  /\ UNCHANGED <<wait, turn, history>>

Next ==
  \/ \E b \in DataBlocks, c \in Cells :
       Load(b, c) \/ \E value \in Values : Drain(b, c, value)
  \/ \E b \in DOMAIN Program : Fetch(b)
  \/ Tick \/ LoopEnds \/ FlushAll

Spec == Init /\ [][Next]_vars

(* The simulator's loop never pauses, and its end flushes. *)
FairSpec == Spec /\ WF_vars(Tick) /\ WF_vars(FlushAll)

-----------------------------------------------------------------------------
Word == Values \cup ProgramWords
Line(g) == [tag : Nat, data : [Cells -> Word], dirty : BOOLEAN, uses : Nat]
CacheOK(g, c) ==
  /\ DOMAIN c = SetNumbers(g)
  /\ \A i \in SetNumbers(g) :
       /\ c[i].lines \in [DOMAIN c[i].lines -> Line(g)]
       /\ DOMAIN c[i].lines \subseteq Ways(g)
       /\ c[i].order \in Seq(Ways(g))
WriteBack == [block : DataBlocks, data : [Cells -> Word]]

(* Every structure holds what its class says it holds. *)
TypeOK ==
  /\ CacheOK(L1I, h.l1i) /\ CacheOK(L1D, h.l1d) /\ CacheOK(L2, h.l2)
  /\ h.wb \in Seq(WriteBack) /\ h.active \in Seq(WriteBack)
  /\ h.busy \in 0..MemoryLatency /\ h.cost = 0
  /\ mem \in [DataBlocks -> Block]
  /\ wait \in [load : Nat, drain : Nat]

(* lru_order lists exactly the valid lines of its set, each once, and no   *)
(* tag is held twice: what find_line and get_victim rely on, through       *)
(* insertions, evictions and the invalidations L2 imposes on the L1 caches *)
(* (cache.py:41-56, 72-76, 194-201).                                       *)
LinesTracked(g, c) ==
  \A i \in SetNumbers(g) :
    /\ Tracked(c[i].order) = DOMAIN c[i].lines /\ NoRepeats(c[i].order)
    /\ \A v, w \in DOMAIN c[i].lines :
         c[i].lines[v].tag = c[i].lines[w].tag => v = w
AllLinesTracked ==
  LinesTracked(L1I, h.l1i) /\ LinesTracked(L1D, h.l1d) /\ LinesTracked(L2, h.l2)

(* "The L2 enforces inclusion" (README.md:170), until the flush takes      *)
(* blocks out of L2: every block of L1I and L1D is in L2, whatever the     *)
(* order of evictions of the three caches.  The write that follows a miss, *)
(* and the dirty victim of L1D, both rely on it (cache_hierarchy.py:61-76, *)
(* 109-134, 190-193).                                                      *)
Inclusion ==
  phase # "flushed" =>
    \A b \in Blocks :
      Holds(L1I, h.l1i, b) \/ Holds(L1D, h.l1d, b) => Holds(L2, h.l2, b)

(* A clean line of L1D has the data L2 has: what makes it right to take    *)
(* L2's data, and not L1D's, when L2 evicts a block that L1D holds clean   *)
(* (cache_hierarchy.py:65-75).                                             *)
CleanCopiesAgree ==
  phase # "flushed" =>
    \A b \in DataBlocks :
      Holds(L1D, h.l1d, b) /\ ~LineOf(L1D, h.l1d, b).dirty =>
        LineOf(L1D, h.l1d, b).data = LineOf(L2, h.l2, b).data

(* Blocks used only as data, and only as instructions. *)
PureData == DataBlocks \ DOMAIN Program
PureCode == DOMAIN Program \ DataBlocks

(* The version of a block the hierarchy would go on with: L1D's before     *)
(* L2's, before the youngest on its way to memory, before memory's.        *)
OnTheWay(b) ==
  LET writes == h.active \o h.wb
      to == {k \in DOMAIN writes : writes[k].block = b}
  IN IF to = {} THEN mem[b] ELSE writes[Max(to)].data
Newest(b) ==
  IF Holds(L1D, h.l1d, b) THEN LineOf(L1D, h.l1d, b).data
  ELSE IF Holds(L2, h.l2, b) THEN LineOf(L2, h.l2, b).data
  ELSE OnTheWay(b)

(* No store is lost: wherever evictions, write-backs and the final flush   *)
(* have carried a block, its newest version is what the program last       *)
(* stored; unless a miss read the block while it was on its way to memory  *)
(* (cache_hierarchy.py:61-76, 127, 213-229, memory_controller.py:10-46).   *)
NewestKept ==
  \A b \in PureData \ overtaken :
    IF phase = "flushed" THEN mem[b] = latest[b] ELSE Newest(b) = latest[b]

(* A load returns what the program last stored, with the same exception.   *)
RightlyLoaded ==
  loaded # Nothing => loaded.value = latest[loaded.block][loaded.cell]
LoadsReturnLatest ==
  loaded # Nothing /\ loaded.block \in PureData \ overtaken => RightlyLoaded

(* A fetch gets the instructions of its own block: the L1I and L2 copies   *)
(* of a block that is not used as data too are those of instruction        *)
(* memory (cache_hierarchy.py:78-107).                                     *)
FetchesProgram ==
  \A b \in PureCode :
    /\ Holds(L1I, h.l1i, b) => LineOf(L1I, h.l1i, b).data = Program[b]
    /\ Holds(L2, h.l2, b) => LineOf(L2, h.l2, b).data = Program[b]

(* Every write-back reaches memory: the countdown never stops while        *)
(* something waits (memory_controller.py:10-19).                           *)
WriteBacksLand ==
  \A b \in PureData : Waiting(b) ~> ~Waiting(b) \/ b \in overtaken

(* A load returns what the program last stored, without exception: "dirty  *)
(* evictions are written back to the level below", from where "on a cache  *)
(* miss, the block is fetched" (README.md:168).                            *)
Coherent == RightlyLoaded
=============================================================================
