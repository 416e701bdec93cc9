-------------------------------- MODULE SimHeap --------------------------------
(***************************************************************************)
(* One binary tree on the heap and inc_leaves walking it                   *)
(* (assets/explainer/sim-heap.js): in place, into a copy when the tree is  *)
(* shared, or by two tasks, a half each.                                   *)
(*                                                                         *)
(* Cells are numbered as in the code: cell i has children 2i+1 and 2i+2.   *)
(* How many cells a cursor gets through in one call of step() depends on   *)
(* the frame rate and is a choice.                                         *)
(***************************************************************************)
EXTENDS Integers, Sequences, FiniteSets, Functions

CONSTANTS Depths,    \* depths of the tree; a parallel run needs a root with children
          MaxSpeed,  \* bound: cells a cursor reaches in one step
          MaxStarts  \* bound: runs started

\* What is asked of the constants; the module of a run assumes it.
HeapAssumption == /\ Depths # {} /\ Depths \subseteq Nat \ {0}
                  /\ MaxSpeed \in Nat \ {0} /\ MaxStarts \in Nat

Modes == {"owned", "shared", "vault", "parallel"}
Sharing == {"shared", "vault"}

VARIABLES
  depth, mode,
  cursors,            \* the cells each walks, in order, and how far it is
  rc, holders,        \* reference counts; holders of the tree
  visited, copies,    \* the cells visited, and those copied
  allocs, incs,       \* counters
  visits, starts      \* history: visits made in this run; runs started

vars == <<depth, mode, cursors, rc, holders, visited, copies, allocs, incs, visits, starts>>

\* cellCount(): one less than a power of two.
CellCount(d) == LET power[n \in 0..(d + 1)] == IF n = 0 THEN 1 ELSE 2 * power[n - 1]
                IN power[d + 1] - 1
Cells == 0..(CellCount(depth) - 1)
Parent(i) == (i - 1) \div 2
Children(i) == IF 2 * i + 2 \in Cells THEN <<2 * i + 1, 2 * i + 2>> ELSE << >>

\* preorder(): the order inc_leaves visits the subtree under i.
Preorder(i) ==
  LET walk[k \in Cells] == IF Children(k) = << >> THEN <<k>>
                           ELSE <<k>> \o walk[Children(k)[1]] \o walk[Children(k)[2]]
  IN walk[i]

TypeOK ==
  /\ depth \in Depths /\ mode \in Modes \cup {"none"}
  /\ Len(cursors) <= 2
  /\ \A c \in DOMAIN cursors : cursors[c].at \in 0..(Len(cursors[c].order) + 1)
  /\ rc \in [Cells -> 1..2] /\ holders \in 1..2
  /\ visited \subseteq Cells /\ copies \subseteq Cells
  /\ {allocs, incs, visits} \subseteq Nat /\ starts \in 0..MaxStarts

Init == /\ depth \in Depths /\ mode = "none"
        /\ cursors = << >>
        /\ rc = [i \in Cells |-> 1] /\ holders = 1
        /\ visited = {} /\ copies = {}
        /\ allocs = 0 /\ incs = 0 /\ visits = 0 /\ starts = 0

\* start(): the tree is as build left it, whatever the run before had done.
Rebuilt(m) == [i \in Cells |-> IF i = 0 /\ m \in Sharing THEN 2 ELSE 1]

Halves_Whole == <<0, 0>> \* mutant: both tasks walk the whole tree
Halves == Children(0)
Roots(m) == CASE m = "none"     -> << >>
              [] m = "parallel" -> Halves
              [] OTHER          -> <<0>>

Begin(m) == /\ starts < MaxStarts
            /\ starts' = starts + 1
            /\ mode' = m
            /\ holders' = IF m \in Sharing THEN 2 ELSE 1
            /\ rc' = Rebuilt(m)
            /\ cursors' = [c \in DOMAIN Roots(m) |-> [order |-> Preorder(Roots(m)[c]), at |-> 0]]
            /\ visited' = {} /\ copies' = {}
            /\ allocs' = 0 /\ incs' = 0 /\ visits' = 0
            /\ UNCHANGED depth

Start == \E m \in Modes : Begin(m)

\* reset() alone, which the first card asks for: no run.
Reset == Begin("none")

-----------------------------------------------------------------------------
(* step(): each cursor arrives at some cells; the place after the last cell *)
(* of its order is its end.                                                *)

Done(c) == c.at > Len(c.order)
Reached(c, n) == [c EXCEPT !.at = IF @ + n > Len(c.order) THEN Len(c.order) + 1 ELSE @ + n]
Arrivals(c, d) == {c.order[k] : k \in (c.at + 1)..(IF Done(d) THEN Len(c.order) ELSE d.at)}

\* The root of a parallel run, once both halves are back.
RootBack(cs) == IF mode = "parallel" /\ (\A c \in DOMAIN cs : Done(cs[c])) THEN {0} \ visited ELSE {}

Visit(cells) ==
  /\ visited' = visited \cup cells
  /\ IF mode \in Sharing
     THEN LET shared == {k \in Cells \ {0} : Parent(k) \in cells}
          IN /\ copies' = copies \cup cells
             /\ allocs' = allocs + Cardinality(cells)
             /\ rc' = [k \in Cells |-> IF k \in shared THEN rc[k] + 1 ELSE rc[k]]
             /\ incs' = incs + Cardinality(shared)
     ELSE UNCHANGED <<copies, allocs, rc, incs>>

Step == \E speed \in [DOMAIN cursors -> 0..MaxSpeed] :
  /\ cursors' = [c \in DOMAIN cursors |-> Reached(cursors[c], speed[c])]
  /\ cursors' # cursors
  /\ LET arrived == [c \in DOMAIN cursors |-> Arrivals(cursors[c], cursors'[c])]
         cells   == (UNION {arrived[c] : c \in DOMAIN cursors}) \cup RootBack(cursors')
     IN /\ Visit(cells)
        /\ visits' = visits + Cardinality(RootBack(cursors'))
                       + SumFunction([c \in DOMAIN cursors |-> Cardinality(arrived[c])])
  /\ UNCHANGED <<depth, mode, holders, starts>>

\* A step in which no cursor arrives anywhere.
Idle == UNCHANGED vars

Next == Start \/ Reset \/ Step \/ Idle

Spec == Init /\ [][Next]_vars

-----------------------------------------------------------------------------
(* Properties. *)

\* progress().done
Over == mode # "none" /\ \A c \in DOMAIN cursors : Done(cursors[c])

Under(i) == LET up[k \in Cells] == {k} \cup (IF k = 0 THEN {} ELSE up[Parent(k)])
            IN {k \in Cells : i \in up[k]}

\* "Pre-order (node, left, right)" (sim-heap.js:14): a cell is visited after the one above
\* it, and after all of its left sibling's subtree; in a parallel run this holds
\* within each half.
InOrder == \A i \in visited \ {0} :
  /\ Parent(i) \in visited \/ (mode = "parallel" /\ Parent(i) = 0)
  /\ i % 2 = 0 /\ (mode = "parallel" => Parent(i) # 0) => Under(i - 1) \subseteq visited

\* The root of a parallel run is visited when both tasks are back.
RootLast == mode = "parallel" /\ 0 \in visited => visited = Cells

\* No cell is visited twice, by one task or by two.
VisitedOnce == visits = Cardinality(visited)

\* A cell's count is its references: from the cell above it, and from that
\* cell's copy; the root's are its holders (17-19).
CountsAreReferences == \A i \in Cells :
  rc[i] = IF i = 0 THEN holders ELSE 1 + (IF Parent(i) \in copies THEN 1 ELSE 0)

\* The counts a run ends on: nothing allocated in place; a second tree and an
\* increment for each cell but the root when shared ("31 cells built, 0 or 31
\* allocated [...], 30 reference-count increments", 7-9).
EndsOnMeasured == Over =>
  /\ visited = Cells
  /\ allocs = (IF mode \in Sharing THEN Cardinality(Cells) ELSE 0)
  /\ incs   = (IF mode \in Sharing THEN Cardinality(Cells) - 1 ELSE 0)

\* A run walks the tree as inc_leaves does, keeps its counts right throughout, and
\* ends on the figures that were measured.
WalkOK == TypeOK /\ InOrder /\ RootLast /\ VisitedOnce /\ CountsAreReferences /\ EndsOnMeasured
===============================================================================
