----------------------------- MODULE CanvasFigure -----------------------------
(***************************************************************************)
(* A simulation figure of the explainer, as canvasFigure() of assets/      *)
(* explainer/chapters.js drives it: setState(card) either makes the next    *)
(* card's event happen to the simulation on screen, or builds the card's    *)
(* picture and, 170 ms later, fades it in.                                 *)
(*                                                                         *)
(* A simulation is abstracted to the card whose picture it shows: the card  *)
(* it was built for, or the one whose event was done to it last.           *)
(***************************************************************************)
EXTENDS Integers, Sequences

CONSTANTS NCards,      \* the figure's cards, in page order
          Refusable,   \* cards the figure may refuse to reach as an event
          Doubtful,    \* cards whose state the figure may not know
          None         \* null

Cards == 1..NCards

\* What is asked of the constants; the module of a run assumes it.
CardsAssumption == /\ NCards \in Nat \ {0}
                   /\ Refusable \cup Doubtful \subseteq Cards
                   /\ None \notin Cards

VARIABLES
  current,  \* the card setState was last given
  picture,  \* sim: the card it shows, None before the first
  fade,     \* how many fades have begun
  timers,   \* pictures waiting for their later(..., 170), in the order they fall due
  visible,  \* canvas.style.opacity
  still,    \* reducedMotion()
  broken    \* cards of an unknown state, for which buildState throws: it never changes

figureVars == <<current, picture, fade, timers, visible, still, broken>>

FigureTypeOK ==
  /\ current \in Cards \cup {None}
  /\ picture \in Cards \cup {None}
  /\ fade \in Nat
  /\ timers \in Seq([mine : 1..fade, next : Cards \ broken])
  /\ visible \in BOOLEAN
  /\ still \in BOOLEAN
  /\ broken \subseteq Doubtful

FigureInit ==
  /\ current = None
  /\ picture = None
  /\ fade = 0
  /\ timers = <<>>
  /\ visible = TRUE
  /\ still \in BOOLEAN
  /\ broken \in SUBSET Doubtful

-----------------------------------------------------------------------------
(* setState(c) *)

\* isNext(): only the next card in page order is reached as an event.
IsNext(c) == c = current + 1

MayHappenLive(c) == /\ picture # None
                    /\ IsNext(c)
                    /\ c \notin broken

\* liveTransition(): the event happens to the simulation on screen.
HappenLive_Forgets(c) == picture' = c /\ UNCHANGED <<current, fade, timers, visible>> \* mutant
HappenLive(c) == /\ current' = c
                 /\ picture' = c
                 /\ UNCHANGED <<fade, timers, visible>>

\* buildState(): shown at once, the first time or without motion ...
ShowNow(c) == /\ picture = None \/ still
              /\ current' = c
              /\ picture' = c
              /\ UNCHANGED <<fade, timers, visible>>

NextFade_After == fade \* mutant: fade++ for ++fade
NextFade       == fade + 1

\* ... or faded in: the old picture stays until the timer fires.
FadeOver(c) == /\ picture # None
               /\ ~still
               /\ current' = c
               /\ fade' = fade + 1
               /\ timers' = Append(timers, [mine |-> NextFade, next |-> c])
               /\ visible' = FALSE
               /\ UNCHANGED picture

Builds(c) == ~MayHappenLive(c) \/ c \in Refusable
Throws(c) == c # current /\ Builds(c) /\ c \in broken

SetState(c) ==
  /\ UNCHANGED <<still, broken>>
  /\ \/ c = current /\ UNCHANGED <<current, picture, fade, timers, visible>>
     \/ c # current /\ MayHappenLive(c) /\ HappenLive(c)
     \/ c # current /\ Builds(c) /\ c \notin broken /\ (ShowNow(c) \/ FadeOver(c))

\* A timer fires: a later fade has got there first, or the picture is installed.
Install_Any(t) == picture' = t.next /\ visible' = TRUE \* mutant: mine is not compared
Install(t) ==
  IF t.mine # fade THEN UNCHANGED <<picture, visible>>
  ELSE picture' = t.next /\ visible' = TRUE

FadeIn ==
  /\ timers # <<>>
  /\ Install(Head(timers))
  /\ timers' = Tail(timers)
  /\ UNCHANGED <<current, fade, still, broken>>

\* The reader's preference changes while the page is open.
MotionChanges == /\ still' = ~still
                 /\ UNCHANGED <<current, picture, fade, timers, visible, broken>>
===============================================================================
