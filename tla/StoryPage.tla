------------------------------- MODULE StoryPage -------------------------------
(***************************************************************************)
(* One section of the scrolling explainer: the scroll observer             *)
(* (assets/explainer/scroll.js), the story that maps the active step to a  *)
(* figure state (assets/explainer/story.js) and the figure (CanvasFigure). *)
(*                                                                         *)
(* line is the step under the trigger line, 0 before the first: the reader  *)
(* moves it between any two callbacks; measurements wait for a frame.       *)
(***************************************************************************)
EXTENDS CanvasFigure

CONSTANT MaxMoves   \* bound: how often the reader moves

\* What is asked of the constants; the module of a run assumes it.
ReaderAssumption == MaxMoves \in Nat

VARIABLES
  layout,    \* "image": not mounted; "scrolly": mx-on; "article": an error box
  line,      \* activeStep(): what a measurement would find
  watched,   \* observeSteps' current
  scheduled, \* its pending
  failed,    \* story.js
  errors,    \* error boxes in the section
  moves,     \* the reader's moves so far
  hasty      \* history: has a step been reached while a fade was under way?

storyVars == <<layout, line, watched, scheduled, failed, errors, moves, hasty>>
vars == <<figureVars, storyVars>>

Lines == 0..NCards

TypeOK == /\ FigureTypeOK
          /\ layout \in {"image", "scrolly", "article"}
          /\ line \in Lines
          /\ watched \in Lines \cup {None}
          /\ scheduled \in BOOLEAN
          /\ failed \in BOOLEAN
          /\ errors \in Nat
          /\ moves \in 0..MaxMoves
          /\ hasty \in BOOLEAN

Init == /\ FigureInit
        /\ layout = "image"
        /\ line \in Lines
        /\ watched = None
        /\ scheduled = FALSE
        /\ failed = FALSE
        /\ errors = 0
        /\ moves = 0
        /\ hasty = FALSE

\* showError()
ShowError == errors' = errors + 1

\* apply(): the card is shown, or its failure is reported, once.
Reports       == ~failed
Apply(c) ==
  IF Reports
  THEN \/ Throws(c) /\ failed' = TRUE /\ ShowError /\ UNCHANGED figureVars
       \/ SetState(c) /\ UNCHANGED <<failed, errors>>
  ELSE UNCHANGED <<failed, errors, figureVars>>

\* mountAll(): the figure's mount function throws ...
MountFails == /\ layout = "image"
              /\ layout' = "article"
              /\ ShowError
              /\ UNCHANGED <<figureVars, line, watched, scheduled, failed, moves, hasty>>

\* ... or the first card is applied, and only a figure that could draw it
\* switches its section to the scrolling layout.
LayoutAfter(f)        == IF f THEN "article" ELSE "scrolly"
Mount == /\ layout = "image"
         /\ Apply(1)
         /\ layout' = LayoutAfter(failed')
         /\ scheduled' = ~failed'
         /\ UNCHANGED <<line, watched, moves, hasty>>

\* The reader scrolls or resizes: a frame is asked for unless one is pending.
Scroll(l) == /\ moves < MaxMoves
             /\ line' = l
             /\ scheduled' = (layout = "scrolly")
             /\ moves' = moves + 1
             /\ UNCHANGED <<figureVars, layout, watched, failed, errors, hasty>>

\* measure(): onStep for a new step, onProgress while it stays.
StepCard(l) == IF l = 0 THEN 1 ELSE l
Measure == /\ scheduled
           /\ scheduled' = FALSE
           /\ watched' = line
           /\ hasty' = (hasty \/ timers # <<>>)
           /\ IF line = watched /\ line = 0
              THEN UNCHANGED <<figureVars, failed, errors>>
              ELSE Apply(StepCard(line))
           /\ UNCHANGED <<layout, line, moves>>

Timer  == FadeIn /\ UNCHANGED storyVars
Motion == MotionChanges /\ UNCHANGED storyVars

Next == \/ MountFails \/ Mount
        \/ \E l \in Lines : Scroll(l)
        \/ Measure \/ Timer \/ Motion

Spec == Init /\ [][Next]_vars

\* The page mounts its figures, the browser runs the frames and the timers it
\* was asked for.
FairSpec == Spec /\ WF_vars(Mount \/ MountFails) /\ WF_vars(Measure) /\ WF_vars(Timer)

-----------------------------------------------------------------------------
(* Properties. *)

\* The section takes the scrolling layout, which hides the static image, only
\* when the figure has drawn something (story.js:15-16).
ImageOrPicture == layout = "scrolly" => picture # None

\* "One that fails later reports once" (story.js:17).
ReportsOnce == errors <= 1

\* While nothing is under way the figure shows the picture of the card it was
\* given last (chapters.js:3-5: a state is absolute).
AtRest == timers = <<>> /\ visible
PictureIsCurrent == AtRest => picture = current

\* It does for a reader who waits for each fade before the next step.
PictureIsCurrentIfPatient == ~hasty => PictureIsCurrent

\* A section is readable whatever fails: an image or a picture, the right one for
\* a patient reader, and one report.
SectionOK == TypeOK /\ ImageOrPicture /\ ReportsOnce /\ PictureIsCurrentIfPatient

\* The canvas never comes back while a newer picture is on its way: what fades
\* in is what the reader jumped to last.
NoFlicker == [][~visible /\ visible' => timers' = <<>>]_vars

\* After the reader stops, the figure ends on the card under the line, drawn,
\* unless that card or an earlier one has failed.
FollowsReader ==
  \A l \in Lines :
    <>[](line = l) => <>[](\/ current = StepCard(l) /\ visible
                           \/ layout = "article" \/ failed)
===============================================================================
