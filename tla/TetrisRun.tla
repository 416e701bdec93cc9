------------------------------- MODULE TetrisRun -------------------------------
(***************************************************************************)
(* The page around the Tetris game (assets/tetris-playground.js): the      *)
(* editor, the Run button, the compiler that is downloaded on the first    *)
(* run, and the program in the frame.                                      *)
(*                                                                         *)
(* A press reads the editor; its callback, which compiles what was read,   *)
(* is kept by the script tag if it started the download and in `pending`   *)
(* otherwise. Both are modelled by the text. Messages, colours and line    *)
(* numbers are left out.                                                   *)
(***************************************************************************)
CONSTANTS Source,     \* the program the page serves, as text
          Drafts,     \* what the reader may write
          Broken,     \* those that do not compile
          Nothing     \* no text, no program, no callback

\* What is asked of the constants; the module of a run assumes it.
RunAssumption == Source \notin Drafts /\ Nothing \notin Drafts \cup {Source} /\ Broken \subseteq Drafts

VARIABLES
  editor, screen,               \* the text; the program in the frame
  sourceDue, staticDue,         \* fetches on their way: the source, the compiled game
  loaded, loading, script,      \* script: the one being downloaded
  starter, pending,             \* the callbacks, by their texts
  asked, due,                   \* history: the text of the last press; is it unanswered?
  ran, late,                    \* history: the text compiled last; did the game come after it?
  left                          \* history: has a download ended with a callback in `pending`?

loaderVars == <<loaded, loading, script, starter, pending>>
historyVars == <<asked, due, ran, late, left>>
vars == <<editor, screen, sourceDue, staticDue, loaderVars, historyVars>>

TypeOK == /\ {editor, screen, starter, pending, asked, ran} \subseteq Drafts \cup {Source, Nothing}
          /\ {sourceDue, staticDue, loaded, loading, due, late, left} \subseteq BOOLEAN
          /\ script \in {"none", "stdlib", "compile", "compile without stdlib"}

\* The page asks for the source at once and for the game when it is loaded.
Init == /\ editor = Nothing /\ screen = Nothing /\ starter = Nothing /\ pending = Nothing
        /\ asked = Nothing /\ ran = Nothing
        /\ sourceDue = TRUE /\ staticDue = TRUE
        /\ loaded = FALSE /\ loading = FALSE /\ script = "none"
        /\ due = FALSE /\ late = FALSE /\ left = FALSE

-----------------------------------------------------------------------------

\* What the frame shows once a text has been compiled: an error leaves it alone.
Mounted(text, before) == IF text \in Broken THEN before ELSE text

\* The callbacks of tpRun(), one after another.
Compile(text) == /\ screen' = Mounted(text, screen)
                 /\ ran' = text
                 /\ late' = (late /\ text \in Broken)

CompileBoth_Swapped(first, second) == \* mutant: the parked one first
  /\ screen' = Mounted(first, Mounted(second, screen))
  /\ ran' = first
  /\ late' = (late /\ {first, second} \subseteq Broken)
CompileBoth(first, second) ==
  /\ screen' = Mounted(second, Mounted(first, screen))
  /\ ran' = second
  /\ late' = (late /\ {first, second} \subseteq Broken)

\* tpRun() through ensureCompilerLoaded(), with something in the editor.
Press ==
  /\ editor # Nothing
  /\ asked' = editor
  /\ due' = ~loaded
  /\ \/ loaded /\ Compile(editor) /\ UNCHANGED loaderVars
     \/ /\ ~loaded /\ loading
        /\ pending' = editor
        /\ UNCHANGED <<screen, loaded, loading, script, starter, ran, late>>
     \/ /\ ~loaded /\ ~loading
        /\ loading' = TRUE /\ script' = "stdlib" /\ starter' = editor
        /\ UNCHANGED <<screen, loaded, pending, ran, late>>
  /\ UNCHANGED <<editor, sourceDue, staticDue, left>>

\* The library first; the compiler does without it if it cannot be had.
StdlibEnds == /\ script = "stdlib"
              /\ script' \in {"compile", "compile without stdlib"}
              /\ UNCHANGED <<editor, screen, sourceDue, staticDue, loaded, loading, starter, pending, historyVars>>

\* The callback in the tag is called, and the waiting one only when the library
\* came too.
MayFlush == script = "compile" /\ pending # Nothing

CompilerLoads == /\ script \in {"compile", "compile without stdlib"}
                 /\ loaded' = TRUE /\ loading' = FALSE /\ script' = "none" /\ starter' = Nothing
                 /\ IF MayFlush
                    THEN CompileBoth(starter, pending) /\ pending' = Nothing /\ UNCHANGED left
                    ELSE Compile(starter) /\ left' = (left \/ pending # Nothing) /\ UNCHANGED pending
                 /\ due' = (due /\ ~MayFlush /\ asked # starter)
                 /\ UNCHANGED <<editor, sourceDue, staticDue, asked>>

\* onLoadFail(), which says so: the callback in the tag is gone, the waiting one
\* is not.
FailLoading_Stuck == loading     \* mutant
FailLoading       == FALSE

CompilerFails == /\ script \in {"compile", "compile without stdlib"}
                 /\ loading' = FailLoading /\ script' = "none" /\ starter' = Nothing
                 /\ due' = FALSE
                 /\ left' = (left \/ pending # Nothing)
                 /\ UNCHANGED <<editor, screen, sourceDue, staticDue, loaded, pending, asked, ran, late>>

SourceComes == /\ sourceDue /\ sourceDue' = FALSE
               /\ editor' = Source
               /\ UNCHANGED <<screen, staticDue, loaderVars, historyVars>>

\* mountStatic(), whose answer is mounted whenever it comes.
GameComes == /\ staticDue /\ staticDue' = FALSE
             /\ screen' = Source
             /\ late' = TRUE
             /\ UNCHANGED <<editor, sourceDue, loaderVars, asked, due, ran, left>>

\* Neither fetch is tried again.
FetchFails == /\ \/ sourceDue /\ sourceDue' = FALSE /\ UNCHANGED staticDue
                 \/ staticDue /\ staticDue' = FALSE /\ UNCHANGED sourceDue
              /\ UNCHANGED <<editor, screen, loaderVars, historyVars>>

Type == /\ editor' \in Drafts
        /\ UNCHANGED <<screen, sourceDue, staticDue, loaderVars, historyVars>>

Next == \/ Press \/ StdlibEnds \/ CompilerLoads \/ CompilerFails
        \/ SourceComes \/ GameComes \/ FetchFails \/ Type

\* The browser answers for a script it was given.
ScriptEnds == StdlibEnds \/ CompilerLoads \/ CompilerFails
FairSpec   == Init /\ [][Next]_vars /\ WF_vars(ScriptEnds)

-----------------------------------------------------------------------------
(* Properties. *)

\* A download is under way exactly while the page says so, with a run to serve, and
\* never once the compiler is there.
LoaderOK == /\ loading <=> script # "none"
            /\ loading <=> starter # Nothing
            /\ loaded => ~loading

\* The frame shows the program compiled last, unless the compiled game, which is
\* mounted whenever its fetch is answered, came after it.
ShowsLastRun == ran \notin Broken \cup {Nothing} /\ ~late => screen = ran

\* The program compiled last is the one asked for last, however many presses met
\* in the download, unless a download ended with a run still parked.
NewestRuns == ~due /\ loaded /\ ~left => ran = asked

\* The page's parts agree, in whatever order the downloads are answered.
RunOK == TypeOK /\ LoaderOK /\ ShowsLastRun /\ NewestRuns

\* A press is compiled or told that the compiler could not be loaded; only one
\* parked while the library fails is forgotten.
PressAnswered == due ~> ~due \/ left
===============================================================================
