------------------------------ MODULE TimeTravel ------------------------------
(***************************************************************************)
(* The frame history of the Tetris playground (assets/tetris-playground.js, *)
(* timeTravelScript) against the running game (assets/tetris/              *)
(* tetris-source.march.txt): the script records a snapshot whenever the    *)
(* game commits a move, and writes an old one back when the reader scrubs. *)
(*                                                                         *)
(* Both run in one iframe and meet in attributes of #game-state. A         *)
(* snapshot is abstracted to a number, the number of the frame it was      *)
(* played from (0 for a new game), and the two attributes the code reads.  *)
(* Positions count from 1 here and from 0 in the code.                     *)
(***************************************************************************)
EXTENDS Integers, Sequences

CONSTANTS Cap,        \* HISTORY_CAP
          MaxFrames   \* bound: frames ever recorded

\* What is asked of the constants; the module of a run assumes it.
TimeTravelAssumption == /\ Cap \in Nat \ {0, 1}
                        /\ MaxFrames \in Nat \ {0}

Snapshots == [id : 1..MaxFrames, from : 0..MaxFrames, over : BOOLEAN, paused : BOOLEAN]

VARIABLES
  game,       \* the attributes of #game-state
  last,       \* data-seq: the number of the last frame played
  history, index, following, \* followingLive
  pending,    \* pendingScrub, 0 when no frame is scheduled
  strayed     \* history: was P or R pressed in the past the reader looks at?

vars == <<game, last, history, index, following, pending, strayed>>

TypeOK == /\ game \in Snapshots
          /\ last \in 1..MaxFrames
          /\ history \in Seq(Snapshots)
          /\ index \in 1..Cap
          /\ following \in BOOLEAN
          /\ pending \in 0..Cap
          /\ strayed \in BOOLEAN

NewGame(n) == [id |-> n, from |-> 0, over |-> FALSE, paused |-> FALSE]

\* main() starts a game, which is the first thing recorded.
Init == /\ game = NewGame(1)
        /\ last = 1
        /\ history = <<NewGame(1)>>
        /\ index = 1
        /\ following = TRUE
        /\ pending = 0
        /\ strayed = FALSE

\* The observer of data-seq.
Recorded(f) == LET h == Append(history, f) IN IF Len(h) > Cap THEN Tail(h) ELSE h

Played(f) == /\ last < MaxFrames
             /\ last' = last + 1
             /\ game' = f
             /\ history' = Recorded(f)
             /\ index' = IF following THEN Len(history') ELSE index
             /\ UNCHANGED <<following, pending>>

\* with_state(), from tick() or a key of the game: both leave a paused game alone.
Commit == /\ ~game.paused /\ ~game.over
          /\ \E over \in BOOLEAN :
               Played([id |-> last + 1, from |-> game.id, over |-> over, paused |-> game.paused])
          /\ UNCHANGED strayed

\* The same events change nothing in a paused or finished game.
Ignored == (game.paused \/ game.over) /\ UNCHANGED vars

\* restart(), the R key; toggle_pause(), the P key or the pause button, which
\* is hidden while the reader looks at the past.
Restarted        == NewGame(last + 1)
Restart == Played(Restarted) /\ strayed' = (strayed \/ ~following)

TogglePause == /\ ~game.over
               /\ strayed' = (strayed \/ ~following)
               /\ game' = [game EXCEPT !.paused = ~@]
               /\ UNCHANGED <<last, history, index, following, pending>>

-----------------------------------------------------------------------------
(* The bar under the board. *)

\* writeRequest() and, in the game, restore_from_request().
Restore(snap, paused) == game' = [snap EXCEPT !.paused = paused]

ScrubPauses_Never(snap, tip) == snap.paused         \* mutant
ScrubPauses(snap, tip)       == IF tip THEN snap.paused ELSE TRUE

Within(i) == IF i < 1 THEN 1 ELSE IF i > Len(history) THEN Len(history) ELSE i

ScrubTo(i) == /\ index' = Within(i)
              /\ following' = (index' = Len(history))
              /\ Restore(history[index'], ScrubPauses(history[index'], following'))
              /\ UNCHANGED history

Back == index > 1 /\ ScrubTo(index - 1) /\ UNCHANGED <<last, pending, strayed>>
Forward == index < Len(history) /\ ScrubTo(index + 1) /\ UNCHANGED <<last, pending, strayed>>

\* Dragging the slider is applied in the next animation frame, the latest
\* position only.
Slide == /\ Len(history) > 1
         /\ pending' \in DOMAIN history
         /\ UNCHANGED <<game, last, history, index, following, strayed>>

AnimationFrame == /\ pending # 0
                  /\ ScrubTo(pending)
                  /\ pending' = 0
                  /\ UNCHANGED <<last, strayed>>

\* "Resume from here", on screen only while scrubbed.
Kept_All == history                     \* mutant
Kept     == SubSeq(history, 1, index)
Resume == /\ ~following
          /\ history' = Kept
          /\ following' = TRUE
          /\ Restore(history[index], FALSE)
          /\ UNCHANGED <<last, index, pending, strayed>>

Next == \/ Commit \/ Ignored \/ Restart \/ TogglePause
        \/ Back \/ Forward \/ Slide \/ AnimationFrame \/ Resume

Spec == Init /\ [][Next]_vars

-----------------------------------------------------------------------------
(* Properties. *)

\* The label and the slider name a recorded frame, the last one while the game
\* is live, and the history stays within its cap whatever is pressed.
InBounds == /\ index \in DOMAIN history
            /\ Len(history) <= Cap
            /\ following => index = Len(history)

\* Frames are kept in the order they were played, none twice: scrubbing and
\* resuming record nothing (tetris-playground.js:184-188).
OldestFirst == \A i, j \in DOMAIN history : i < j => history[i].id < history[j].id

\* No recorded frame is paused: stepping forward to the last one plays on.
RecordsRunning == \A i \in DOMAIN history : ~history[i].paused

\* Unless P or R has been pressed in the past, the board shows the frame the bar
\* names, and away from the last frame it is paused.
ShownIsIndexed == ~strayed =>
  /\ [game EXCEPT !.paused = FALSE] = [history[index] EXCEPT !.paused = FALSE]
  /\ ~following => game.paused

\* Then too, every frame in the history was played from the one before it, or
\* starts a new game: resuming branches "exactly like undo-then-edit" (196).
BranchesForward == ~strayed =>
  \A i \in 1..(Len(history) - 1) : history[i + 1].from \in {0, history[i].id}

\* The recorded history is sound, and it is what the reader sees, whatever is
\* pressed and whenever.
HistoryOK == TypeOK /\ InBounds /\ OldestFirst /\ RecordsRunning /\ ShownIsIndexed /\ BranchesForward

\* "Nothing can advance while you're looking at the past" (191): no frame is played
\* there, neither by the clock nor by a key, until P or R has been pressed in it.
PastIsFrozen == [][~following /\ ~strayed' => last' = last]_vars
===============================================================================
