---------------------------- MODULE MCPlaygrounds ----------------------------
(* The site's playgrounds but the REPL: the error examples, and the Tetris   *)
(* page with its loader, its game and its time travel. The reader is at one  *)
(* of them; the others wait as they were when the page was opened, so that   *)
(* the run is each playground's behaviours, not their product.               *)
EXTENDS Integers, Sequences

CONSTANTS
    Cap, MaxFrames,
    Examples, Options, First, Typed, NoText, MaxFetches, MaxPresses,
    Source, Drafts, Broken, Nothing,
    Width, Height, SpawnX, Pieces, MaxLocked

VARIABLES
    at,
    game, last, history, index, following, pending, strayed,
    select, editor, original, output, compiler, script, waiting, fetches, asked, want, typed, overtaken,
    text, screen, sourceDue, staticDue, loaded, loading, tag, starter, parked, asks, due, ran, late, left,
    board, piece, rot, x, y, next, score, lines, over, paused, locked

travelVars == <<game, last, history, index, following, pending, strayed>>
errorVars  == <<select, editor, original, output, compiler, script, waiting, fetches, asked, want,
                typed, overtaken>>
runVars    == <<text, screen, sourceDue, staticDue, loaded, loading, tag, starter, parked, asks, due, ran, late, left>>
gameVars   == <<board, piece, rot, x, y, next, score, lines, over, paused, locked>>
vars       == <<at, travelVars, errorVars, runVars, gameVars>>

Travel == INSTANCE TimeTravel
Errors == INSTANCE ErrorPlayground
Page   == INSTANCE TetrisRun WITH editor <- text, pending <- parked, script <- tag, asked <- asks
Tetris == INSTANCE Tetris

ASSUME PlaygroundsAssumption ==
    /\ Travel!TimeTravelAssumption
    /\ Errors!PlaygroundAssumption
    /\ Page!RunAssumption
    /\ Tetris!TetrisAssumption

\* A playground nobody looks at has one state.
Init ==
    /\ at \in {"travel", "errors", "page", "tetris"}
    /\ Travel!Init /\ Errors!Init /\ Page!Init /\ Tetris!Init
    /\ at = "tetris" \/ (piece = "I" /\ next = "I")

Next ==
    \/ at = "travel" /\ Travel!Next /\ UNCHANGED <<at, errorVars, runVars, gameVars>>
    \/ at = "errors" /\ Errors!Next /\ UNCHANGED <<at, travelVars, runVars, gameVars>>
    \/ at = "page"   /\ Page!Next   /\ UNCHANGED <<at, travelVars, errorVars, gameVars>>
    \/ at = "tetris" /\ Tetris!Next /\ UNCHANGED <<at, travelVars, errorVars, runVars>>

\* What each module's FairSpec asks of the playground on screen.
Fairness ==
    /\ WF_errorVars(at = "errors" /\ (Errors!ScriptLoads \/ Errors!ScriptFails))
    /\ WF_runVars(at = "page" /\ Page!ScriptEnds)
    /\ WF_gameVars(at = "tetris" /\ Tetris!Tick)

Spec == Init /\ [][Next]_vars /\ Fairness

-----------------------------------------------------------------------------
(* The playgrounds' properties, stated and explained in their modules. *)

\* tetris-playground.js: TimeTravel.HistoryOK.
HistoryOK == Travel!HistoryOK
\* tetris-playground.js: TimeTravel.PastIsFrozen.
PastIsFrozen == Travel!PastIsFrozen

\* error-playground.js: ErrorPlayground.PageOK.
PageOK == Errors!PageOK
\* error-playground.js: ErrorPlayground.ChecksAreAnswered.
ChecksAreAnswered == Errors!ChecksAreAnswered

\* tetris-playground.js: TetrisRun.RunOK.
RunOK == Page!RunOK
\* tetris-playground.js: TetrisRun.PressAnswered.
PressAnswered == Page!PressAnswered

\* tetris-source.march.txt: Tetris.GameOK.
GameOK == Tetris!GameOK
\* tetris-source.march.txt: Tetris.PieceLocks.
PieceLocks == Tetris!PieceLocks
===============================================================================
