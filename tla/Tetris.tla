-------------------------------- MODULE Tetris --------------------------------
(***************************************************************************)
(* The rules of the Tetris program of the playground                       *)
(* (assets/tetris/tetris-source.march.txt, which the page compiles and     *)
(* serves compiled as tetris.mjs): the falling piece, the keys, the clock. *)
(*                                                                         *)
(* The board is the set of its filled cells; which colour fills a cell is  *)
(* only painted. The next piece, which the code draws from its generator,  *)
(* is a choice. Scrubbing is TimeTravel's.                                 *)
(***************************************************************************)
EXTENDS Integers, FiniteSetsExt

CONSTANTS Width, Height,   \* board_width(), board_height()
          SpawnX,          \* where spawn_piece puts a piece
          Pieces,          \* the pieces played with
          MaxLocked        \* bound: pieces locked in one game

\* piece_cells(): four offsets in the 4x4 box a piece spawns in.
Shape(p) == CASE p = "I" -> {<<0, 1>>, <<1, 1>>, <<2, 1>>, <<3, 1>>}
              [] p = "O" -> {<<1, 1>>, <<2, 1>>, <<1, 2>>, <<2, 2>>}
              [] p = "T" -> {<<1, 1>>, <<0, 2>>, <<1, 2>>, <<2, 2>>}
              [] p = "S" -> {<<1, 1>>, <<2, 1>>, <<0, 2>>, <<1, 2>>}
              [] p = "Z" -> {<<0, 1>>, <<1, 1>>, <<1, 2>>, <<2, 2>>}
              [] p = "J" -> {<<0, 1>>, <<0, 2>>, <<1, 2>>, <<2, 2>>}
              [] p = "L" -> {<<2, 1>>, <<0, 2>>, <<1, 2>>, <<2, 2>>}

\* What is asked of the constants; the module of a run assumes it.
TetrisAssumption ==
  /\ {Width, Height} \subseteq Nat /\ Height >= 3 /\ SpawnX \in 0..(Width - 4) /\ MaxLocked \in Nat
  /\ Pieces # {} /\ Pieces \subseteq {"I", "O", "T", "S", "Z", "J", "L"}

Columns == 0..(Width - 1)
Rows    == 0..(Height - 1)

VARIABLES
  board, piece, rot, x, y, next, score, lines, over, paused,   \* #game-state
  locked     \* history: pieces locked in this game

vars == <<board, piece, rot, x, y, next, score, lines, over, paused, locked>>

TypeOK == /\ board \subseteq Columns \X Rows
          /\ {piece, next} \subseteq Pieces
          /\ rot \in 0..3
          /\ x \in -3..(Width - 1) /\ y \in -3..(Height - 1)
          /\ {score, lines, locked} \subseteq Nat
          /\ {over, paused} \subseteq BOOLEAN

-----------------------------------------------------------------------------
(* TetrisLogic. *)

RotateCell(c) == <<3 - c[2], c[1]>>

\* rotate_n(): quarter turns, one after another.
Turn(c, n) == CASE n = 0 -> c
                [] n = 1 -> RotateCell(c)
                [] n = 2 -> RotateCell(RotateCell(c))
                [] n = 3 -> RotateCell(RotateCell(RotateCell(c)))

Placed(p, r, ox, oy) ==
  {LET t == Turn(c, r) IN <<ox + t[1], oy + t[2]>> : c \in Shape(p)}

InBounds(c) == c[1] \in Columns /\ c[2] \in Rows

Collides(b, p, r, ox, oy) == \E c \in Placed(p, r, ox, oy) : ~InBounds(c) \/ c \in b

RowFull(b, row) == \A col \in Columns : <<col, row>> \in b

FullRows(b) == {row \in Rows : RowFull(b, row)}

\* Blank rows come first and the kept ones after them, in their order.
ClearLines_First(b) == \* mutant: of several full rows only the lowest goes
  LET low == Max(FullRows(b)) IN
  IF FullRows(b) = {} THEN b
  ELSE {<<c[1], IF c[2] < low THEN c[2] + 1 ELSE c[2]>> : c \in {d \in b : d[2] # low}}
ClearLines(b) ==
  LET full == FullRows(b) IN
  {<<c[1], c[2] + Cardinality({row \in full : row > c[2]})>> : c \in {d \in b : d[2] \notin full}}

Points(n) == CASE n = 1 -> 100 [] n = 2 -> 300 [] n = 3 -> 500 [] n = 4 -> 800 [] OTHER -> 0

\* Where a piece comes to rest, straight down.
FallFrom(b, p, r, ox, oy) == Min({row \in oy..Height : Collides(b, p, r, ox, row + 1)})

-----------------------------------------------------------------------------
(* The game. *)

\* spawn_piece(): the next piece at the top, over if there is no room for it.
Spawn(p, b) == /\ piece' = p /\ rot' = 0 /\ x' = SpawnX /\ y' = 0
               /\ next' \in Pieces
               /\ over' = Collides(b, p, 0, SpawnX, 0)

\* main() and the R key: restart().
NewGame(p) == /\ board' = {}
              /\ Spawn(p, {})
              /\ over' = FALSE
              /\ score' = 0 /\ lines' = 0 /\ locked' = 0
              /\ paused' = FALSE

Init == /\ board = {} /\ rot = 0 /\ x = SpawnX /\ y = 0
        /\ piece \in Pieces /\ next \in Pieces
        /\ score = 0 /\ lines = 0 /\ locked = 0
        /\ over = FALSE /\ paused = FALSE

Restart == \E p \in Pieces : NewGame(p)

\* with_state(), which a finished game refuses, and a paused one is not asked.
Playing == ~over /\ ~paused

LockAndAdvance(row) ==
  LET full == board \cup Placed(piece, rot, x, row) IN
  /\ locked < MaxLocked
  /\ locked' = locked + 1
  /\ board' = ClearLines(full)
  /\ lines' = lines + Cardinality(FullRows(full))
  /\ score' = score + Points(Cardinality(FullRows(full)))
  /\ Spawn(next, board')
  /\ UNCHANGED paused

MoveTo(r, ox, oy) == /\ rot' = r /\ x' = ox /\ y' = oy
                     /\ UNCHANGED <<board, piece, next, score, lines, over, paused, locked>>

TryTo(r, ox, oy) == IF Collides(board, piece, r, ox, oy) THEN UNCHANGED vars ELSE MoveTo(r, ox, oy)

Land_Stays == UNCHANGED vars     \* mutant: the clock moves a piece as the arrow does
Land       == LockAndAdvance(y)

Tick == /\ Playing
        /\ IF Collides(board, piece, rot, x, y + 1) THEN Land ELSE TryTo(rot, x, y + 1)

\* The arrow keys and the space bar.
TryMove   == Playing /\ \E d \in {<<-1, 0>>, <<1, 0>>, <<0, 1>>} : TryTo(rot, x + d[1], y + d[2])
TryRotate == Playing /\ TryTo((rot + 1) % 4, x, y)
HardDrop  == Playing /\ LockAndAdvance(FallFrom(board, piece, rot, x, y))

\* The P key and the pause button.
TogglePause == /\ ~over
               /\ paused' = ~paused
               /\ UNCHANGED <<board, piece, rot, x, y, next, score, lines, over, locked>>

Next == Tick \/ TryMove \/ TryRotate \/ HardDrop \/ TogglePause \/ Restart

\* schedule_tick() sets the next timer whatever the tick did.
FairSpec == Init /\ [][Next]_vars /\ WF_vars(Tick)

-----------------------------------------------------------------------------
(* Properties. *)

\* Until the game is over the falling piece is on the board and on free cells,
\* however it was moved and turned; it is over when a new piece has no room.
FallingFits == over <=> Collides(board, piece, rot, x, y)

\* No cell is lost and none doubled, by locking, clearing or hard drops: four
\* cells a piece, less what went with the full rows, and none of those is left.
CellsAddUp == /\ Cardinality(board) = 4 * locked - Width * lines
              /\ FullRows(board) = {}

\* A line is worth at least 100 and at most 200 points, whatever came at once.
ScoreOK == 100 * lines <= score /\ score <= 200 * lines

\* The board, the piece and the score agree, whatever is pressed.
GameOK == TypeOK /\ FallingFits /\ CellsAddUp /\ ScoreOK

\* Wherever a piece is moved and however it is turned, the clock brings it down:
\* once it has left the top there is, sooner or later, a new piece at the top (or a
\* new game), unless the reader pauses or has locked all that are counted.
PieceLocks == y > 0 ~> y = 0 \/ paused \/ locked = MaxLocked
===============================================================================
