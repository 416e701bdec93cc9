----------------------------- MODULE Figures_proofs -----------------------------
(***************************************************************************)
(* Theorems about the explainer's figures that MCFigures composes, for any *)
(* cards, parties, trees and bounds: SectionOK and NoFlicker of the story  *)
(* page and its figure, MailboxOK of the mailbox, WalkOK of the heap.      *)
(*                                                                         *)
(* StoryKept, MailboxKept and HeapKept are their invariants, each on its   *)
(* figure's own variables: the other figures leave them alone.             *)
(***************************************************************************)
EXTENDS MCFigures, SumTheorems, SequenceTheorems, FiniteSetTheorems, TLAPS

-------------------------------------------------------------------------------
(* The story page and its figure.                                          *)

\* For a reader who waits for each fade, one picture at most is on its way, the
\* newest; otherwise the one on screen is the card's.
Patient ==
  ~hasty => \/ timers = <<>> /\ visible /\ picture = current
            \/ /\ Len(timers) = 1 /\ ~visible
               /\ timers[1].mine = fade /\ timers[1].next = current

\* Before it is mounted nothing is drawn, and who may still report an error.
Unreported ==
  /\ scheduled => layout = "scrolly"
  /\ layout = "image" => errors = 0 /\ ~failed /\ current = None /\ picture = None /\ timers = <<>>
  /\ layout = "scrolly" /\ ~failed => errors = 0

\* Fades fall due in the order they began.
FadesInOrder == \A i, j \in DOMAIN timers : i < j => timers[i].mine < timers[j].mine

StoryKept == Story!SectionOK /\ Patient /\ Unreported /\ FadesInOrder

-------------------------------------------------------------------------------
(* The mailbox.                                                            *)

\* Is there a marker to meet?
Marked == deployed /\ version = 1 /\ ~lost

\* The marker divides what the senders sent under the old code from the rest;
\* without it, all that waits was sent under the present one.
Divided(q, k) ==
  \A i \in DOMAIN q :
    q[i] = IF i < k THEN Mailbox!Msg(1) ELSE IF i = k THEN Mailbox!Marker ELSE Mailbox!Msg(2)

QueueShape(q, marked, e) ==
  /\ marked => e = 2 /\ \E k \in DOMAIN q : Divided(q, k)
  /\ ~marked => \A i \in DOMAIN q : q[i] = Mailbox!Msg(e)

\* What the actor does at its place in the deploy.
Phases ==
  /\ epoch = IF deployed THEN 2 ELSE 1
  /\ version = 2 \/ lost => deployed
  /\ migrating => migrateLeft >= 1 /\ ~held /\ serving = -1
  /\ migrating \/ held => queue # <<>> /\ Head(queue) = Mailbox!Marker
  /\ serving >= 0 => serving < parked /\ queue # <<>> /\ Head(queue) # Mailbox!Marker
  /\ ~up => restarts < MaxCrashes

\* Nothing is lost without a crash, the marker aside.
Counted ==
  restarts = 0 /\ up => Backlog + arrived = total + Len(queue) - (IF Marked THEN 1 ELSE 0)

MailboxKept ==
  /\ Mailbox!TypeOK /\ Mailbox!HandledByItsCode /\ Mailbox!CountsWhatItHandled
  /\ QueueShape(queue, Marked, epoch) /\ Phases /\ Counted

-------------------------------------------------------------------------------
(* The story page: every callback keeps it.                                *)

\* What FiguresAssumption says of the story, with a card to begin on.
LEMMA StoryConstants ==
  /\ NCards \in Nat /\ NCards >= 1 /\ Refusable \subseteq 1..NCards /\ Doubtful \subseteq 1..NCards
  /\ None \notin 1..NCards /\ MaxMoves \in Nat
BY FiguresAssumption DEF Story!CardsAssumption, Story!ReaderAssumption, Story!Cards

Fades(n, bad) == [mine : 1..n, next : Story!Cards \ bad]

\* The figure's variables, apart from the page's.
FigureTyped ==
  /\ current \in Story!Cards \cup {None} /\ picture \in Story!Cards \cup {None}
  /\ fade \in Nat /\ timers \in Seq(Fades(fade, broken))
  /\ visible \in BOOLEAN /\ still \in BOOLEAN /\ broken \subseteq Doubtful

PageTyped ==
  /\ layout \in {"image", "scrolly", "article"} /\ line \in Story!Lines
  /\ watched \in Story!Lines \cup {None} /\ scheduled \in BOOLEAN /\ failed \in BOOLEAN
  /\ errors \in {0, 1} /\ moves \in 0..MaxMoves /\ hasty \in BOOLEAN

\* The invariant in the parts the steps change together.
LEMMA StoryParts ==
  StoryKept <=> FigureTyped /\ PageTyped /\ (layout = "scrolly" => picture # None) /\ Patient /\ Unreported /\ FadesInOrder
<1>1. errors \in Nat /\ errors <= 1 <=> errors \in {0, 1}
  OBVIOUS
<1>2. Patient => Story!PictureIsCurrentIfPatient
  BY DEF Patient, Story!PictureIsCurrentIfPatient, Story!PictureIsCurrent, Story!AtRest
<1> QED
  BY <1>1, <1>2
  DEF StoryKept, FigureTyped, PageTyped, Fades, Story!SectionOK, Story!TypeOK, Story!FigureTypeOK,
      Story!ImageOrPicture, Story!ReportsOnce

\* The same of the state after a step.
LEMMA StoryPartsAfter ==
  StoryKept' <=> FigureTyped' /\ PageTyped' /\ (layout' = "scrolly" => picture' # None) /\ Patient' /\ Unreported' /\ FadesInOrder'
<1>1. errors' \in Nat /\ errors' <= 1 <=> errors' \in {0, 1}
  OBVIOUS
<1>2. Patient' => Story!PictureIsCurrentIfPatient'
  BY DEF Patient, Story!PictureIsCurrentIfPatient, Story!PictureIsCurrent, Story!AtRest
<1> QED
  BY <1>1, <1>2
  DEF StoryKept, FigureTyped, PageTyped, Fades, Story!SectionOK, Story!TypeOK, Story!FigureTypeOK,
      Story!ImageOrPicture, Story!ReportsOnce

\* Patience, before and after the reader's step is known.
Waits(was) ==
  was => \/ timers = <<>> /\ visible /\ picture = current
         \/ /\ Len(timers) = 1 /\ ~visible
            /\ timers[1].mine = fade /\ timers[1].next = current

FigureKept == FigureTyped /\ FadesInOrder

\* setState(c) on a card of the figure.
LEMMA SetStateKeeps ==
  ASSUME FigureKept, NEW c \in Story!Cards, Story!SetState(c)
  PROVE  /\ FigureTyped' /\ FadesInOrder'
         /\ picture # None \/ c # current => picture' # None
         /\ timers = <<>> /\ visible /\ picture = current =>
              \/ timers' = <<>> /\ visible' /\ picture' = current'
              \/ /\ Len(timers') = 1 /\ ~visible'
                 /\ timers'[1].mine = fade' /\ timers'[1].next = current'
         /\ ~visible /\ visible' => timers' = <<>>
<1>1. /\ FigureTyped /\ still' = still /\ broken' = broken /\ None \notin Story!Cards
  BY StoryConstants DEF FigureKept, Story!SetState, Story!Cards
<1>2. CASE UNCHANGED <<current, picture, fade, timers, visible>> /\ c = current
  BY <1>1, <1>2 DEF FigureKept, FigureTyped, FadesInOrder, Fades
<1>3. CASE current' = c /\ picture' = c /\ UNCHANGED <<fade, timers, visible>>
  BY <1>1, <1>3 DEF FigureKept, FigureTyped, FadesInOrder, Fades
<1>4. CASE Story!FadeOver(c) /\ c \notin broken
  <2>0. PICK p \in Nat, bad \in {broken} : p = fade /\ bad = broken
    BY <1>1 DEF FigureTyped
  <2> DEFINE t == [mine |-> p + 1, next |-> c]
  <2>1. /\ current' = c /\ fade' = p + 1 /\ timers' = Append(timers, t) /\ visible' = FALSE /\ picture' = picture /\ picture # None
    BY <1>4, <2>0 DEF Story!FadeOver, Story!NextFade
  <2>2. t \in Fades(p + 1, bad) /\ t.mine = p + 1 /\ t.next = c
    BY <1>1, <1>4, <2>0 DEF Fades
  <2> HIDE DEF t
  <2>3. Fades(p, bad) \subseteq Fades(p + 1, bad)
    BY DEF Fades
  <2>4. timers \in Seq(Fades(p, bad)) /\ timers \in Seq(Fades(p + 1, bad))
    BY <1>1, <2>0, <2>3 DEF FigureTyped
  <2>5. PICK n \in Nat : n = Len(timers) /\ DOMAIN timers = 1..n
    BY <2>4
  <2>6. timers' \in Seq(Fades(p + 1, bad)) /\ Len(timers') = n + 1 /\ timers'[n + 1] = t
        /\ DOMAIN timers' = 1..(n + 1) /\ \A i \in 1..n : timers'[i] = timers[i]
    BY <2>1, <2>2, <2>4, <2>5
  <2>7. FigureTyped'
    <3>1. timers' \in Seq(Fades(fade', broken')) /\ fade' \in Nat
      BY <1>1, <2>0, <2>1, <2>6
    <3> QED
      BY <1>1, <2>1, <3>1 DEF FigureTyped
  <2>9. FadesInOrder'
    <3>1. \A i \in 1..n : timers[i].mine \in 1..p /\ timers'[i] = timers[i]
      <4>1. \A i \in 1..n : timers[i] \in Fades(p, bad)
        BY <2>4, <2>5
      <4> QED
        BY <2>6, <4>1 DEF Fades
    <3>3. \A i, j \in 1..n : i < j => timers[i].mine < timers[j].mine
      BY <2>5 DEF FigureKept, FadesInOrder
    <3>4. timers'[n + 1].mine = p + 1
      BY <2>2, <2>6
    <3>5. ASSUME NEW i \in 1..(n + 1), NEW j \in 1..(n + 1), i < j PROVE timers'[i].mine < timers'[j].mine
      <4>1. i \in 1..n /\ (j \in 1..n \/ j = n + 1)
        BY <3>5
      <4> QED
        BY <3>1, <3>3, <3>4, <3>5, <4>1
    <3> QED
      BY <2>6, <3>5 DEF FadesInOrder
  <2>8. timers = <<>> => Len(timers') = 1 /\ timers'[1].mine = fade' /\ timers'[1].next = current'
    <3> SUFFICES ASSUME timers = <<>> PROVE Len(timers') = 1 /\ timers'[1].mine = fade' /\ timers'[1].next = current'
      OBVIOUS
    <3>1. n = 0
      BY <2>5
    <3> QED
      BY <2>1, <2>2, <2>6, <3>1
  <2> QED
    BY <2>1, <2>7, <2>8, <2>9
<1> QED
  BY <1>2, <1>3, <1>4 DEF Story!SetState, Story!HappenLive, Story!ShowNow

\* A timer fires: what is on screen is the newest fade's, or does not change.
LEMMA FadeInKeeps ==
  ASSUME FigureKept, Story!FadeIn
  PROVE  /\ FigureTyped' /\ FadesInOrder'
         /\ picture # None => picture' # None
         /\ \A was \in BOOLEAN : Waits(was) => Waits(was)'
         /\ ~visible /\ visible' => timers' = <<>>
<1>1. /\ FigureTyped /\ current' = current /\ fade' = fade /\ still' = still /\ broken' = broken /\ timers # <<>>
      /\ timers' = Tail(timers) /\ None \notin Story!Cards
  BY StoryConstants DEF FigureKept, Story!FadeIn, Story!Cards
<1>2. PICK t : t = Head(timers)
  OBVIOUS
<1>3. PICK n \in Nat : n = Len(timers) /\ n >= 1 /\ DOMAIN timers = 1..n
  BY <1>1 DEF FigureTyped
<1>4. /\ timers' \in Seq(Fades(fade, broken)) /\ Len(timers') = n - 1 /\ t = timers[1] /\ t \in Fades(fade, broken)
      /\ DOMAIN timers' = 1..(n - 1) /\ \A i \in 1..(n - 1) : timers'[i] = timers[i + 1]
  BY <1>1, <1>2, <1>3 DEF FigureTyped
<1>5. t.next \in Story!Cards /\ t.next # None
  BY <1>1, <1>4 DEF Fades
<1>6. \/ t.mine # fade /\ UNCHANGED <<picture, visible>>
      \/ t.mine = fade /\ picture' = t.next /\ visible' = TRUE
  BY <1>2 DEF Story!FadeIn, Story!Install
<1>7. FigureTyped'
  BY <1>1, <1>4, <1>5, <1>6 DEF FigureTyped, Fades
<1>8. \A i, j \in 1..n : i < j => timers[i].mine < timers[j].mine
  BY <1>3 DEF FigureKept, FadesInOrder
<1>9. FadesInOrder'
  <2>1. ASSUME NEW i \in 1..(n - 1), NEW j \in 1..(n - 1), i < j PROVE timers'[i].mine < timers'[j].mine
    <3>1. i + 1 \in 1..n /\ j + 1 \in 1..n /\ i + 1 < j + 1
      BY <2>1
    <3> QED
      BY <1>4, <1>8, <3>1
  <2> QED
    BY <1>4, <2>1 DEF FadesInOrder
<1>10. t.mine = fade => n = 1
  <2> SUFFICES ASSUME t.mine = fade, n # 1 PROVE FALSE
    OBVIOUS
  <2>1. timers[2] \in Fades(fade, broken) /\ 1 \in 1..n /\ 2 \in 1..n
    BY <1>1, <1>3 DEF FigureTyped
  <2>2. timers[2].mine \in 1..fade /\ fade \in Nat /\ timers[1].mine < timers[2].mine
    BY <1>1, <1>8, <2>1 DEF FigureTyped, Fades
  <2> QED
    BY <1>4, <2>2
<1>11. n = 1 => timers' = <<>>
  BY <1>4
<1>12. ASSUME NEW was \in BOOLEAN, Waits(was) PROVE Waits(was)'
  BY <1>1, <1>3, <1>4, <1>6, <1>11, <1>12 DEF Waits
<1> QED
  BY <1>5, <1>6, <1>7, <1>9, <1>10, <1>11, <1>12

\* apply(): the figure shows the card, or its failure is reported, the first time.
LEMMA ApplyKeeps ==
  ASSUME FigureKept, failed \in BOOLEAN, errors \in {0, 1}, ~failed => errors = 0, NEW c \in Story!Cards, Story!Apply(c)
  PROVE  /\ FigureTyped' /\ FadesInOrder'
         /\ failed' \in BOOLEAN /\ errors' \in {0, 1} /\ (~failed' => errors' = 0 /\ ~failed)
         /\ picture # None => picture' # None
         /\ ~failed' /\ c # current => picture' # None
         /\ timers = <<>> /\ visible /\ picture = current =>
              \/ timers' = <<>> /\ visible' /\ picture' = current'
              \/ /\ Len(timers') = 1 /\ ~visible'
                 /\ timers'[1].mine = fade' /\ timers'[1].next = current'
         /\ ~visible /\ visible' => timers' = <<>>
<1>1. CASE ~failed /\ Story!SetState(c) /\ UNCHANGED <<failed, errors>>
  BY <1>1, SetStateKeeps
<1>2. CASE /\ \/ ~failed /\ failed' = TRUE /\ Story!ShowError
              \/ failed /\ UNCHANGED <<failed, errors>>
           /\ UNCHANGED <<current, picture, fade, timers, visible, still, broken>>
  <2>1. FigureTyped' /\ FadesInOrder'
    BY <1>2 DEF FigureKept, FigureTyped, FadesInOrder, Fades
  <2>2. failed' = TRUE /\ errors' \in {0, 1}
    BY <1>2 DEF Story!ShowError
  <2> QED
    BY <1>2, <2>1, <2>2
<1> QED
  BY <1>1, <1>2 DEF Story!Apply, Story!Reports, Story!figureVars

FigureStays == UNCHANGED <<current, picture, fade, timers, visible, still, broken>>

\* A step that leaves the figure alone leaves what is due to it as it was.
LEMMA FigureStaysKept ==
  ASSUME FigureKept, FigureStays
  PROVE  FigureTyped' /\ FadesInOrder'
BY DEF FigureKept, FigureStays, FigureTyped, FadesInOrder, Fades

NoFlash == ~visible /\ visible' => timers' = <<>>

\* mountAll(), as far as the first card.
LEMMA MountKeeps == ASSUME StoryKept, Story!Mount PROVE StoryKept' /\ NoFlash
<1>1. FigureTyped /\ PageTyped /\ Patient /\ Unreported /\ FadesInOrder
  BY StoryParts
<1>2. layout = "image" /\ errors = 0 /\ ~failed /\ current = None /\ picture = None
  BY <1>1 DEF Story!Mount, Unreported
<1>3. 1 \in Story!Cards /\ 1 # current
  BY <1>2, StoryConstants DEF Story!Cards
<1>4. /\ Story!Apply(1) /\ layout' = (IF failed' THEN "article" ELSE "scrolly") /\ scheduled' = ~failed'
      /\ UNCHANGED <<line, watched, moves, hasty>>
  BY DEF Story!Mount, Story!LayoutAfter
<1>5. /\ FigureTyped' /\ FadesInOrder'
      /\ failed' \in BOOLEAN /\ errors' \in {0, 1} /\ (~failed' => errors' = 0)
      /\ ~failed' => picture' # None
      /\ NoFlash
  BY <1>1, <1>2, <1>3, <1>4, ApplyKeeps DEF FigureKept, PageTyped, NoFlash
<1>6. Patient'
  <2> SUFFICES ASSUME ~hasty' PROVE \/ timers' = <<>> /\ visible' /\ picture' = current'
                                    \/ /\ Len(timers') = 1 /\ ~visible'
                                       /\ timers'[1].mine = fade' /\ timers'[1].next = current'
    BY DEF Patient
  <2>1. CASE timers = <<>> /\ visible /\ picture = current
    BY <1>1, <1>2, <1>3, <1>4, <2>1, ApplyKeeps DEF FigureKept, PageTyped
  <2>2. CASE Len(timers) = 1 /\ ~visible /\ timers[1].mine = fade /\ timers[1].next = current
    <3>1. timers[1] \in Fades(fade, broken)
      BY <1>1, <2>2 DEF FigureTyped
    <3> QED
      BY <1>2, <2>2, <3>1, StoryConstants DEF Fades, Story!Cards
  <2> QED
    BY <1>1, <1>4, <2>1, <2>2 DEF Patient
<1>7. PageTyped'
  BY <1>1, <1>4, <1>5 DEF PageTyped
<1>8. Unreported' /\ (layout' = "scrolly" => picture' # None)
  BY <1>4, <1>5 DEF Unreported
<1> QED
  BY <1>5, <1>6, <1>7, <1>8, StoryPartsAfter

\* measure(), when the reader has crossed a step, or moved within one.
LEMMA MeasureKeeps == ASSUME StoryKept, Story!Measure PROVE StoryKept' /\ NoFlash
<1>1. /\ FigureTyped /\ PageTyped /\ Patient /\ Unreported /\ FadesInOrder /\ (layout = "scrolly" => picture # None)
  BY StoryParts
<1>2. /\ layout = "scrolly" /\ scheduled' = FALSE /\ watched' = line /\ hasty' = (hasty \/ timers # <<>>)
      /\ UNCHANGED <<layout, line, moves>> /\ picture # None /\ (~failed => errors = 0)
  BY <1>1 DEF Story!Measure, Unreported
<1>3. line \in 0..NCards
  BY <1>1 DEF PageTyped, Story!Lines
<1>4. Story!StepCard(line) \in Story!Cards
  BY <1>3, StoryConstants DEF Story!StepCard, Story!Cards
<1>5. PICK c \in Story!Cards : Story!Apply(c) \/ (UNCHANGED <<failed, errors>> /\ FigureStays)
  BY <1>4 DEF Story!Measure, FigureStays, Story!figureVars
<1>6. /\ FigureTyped' /\ FadesInOrder' /\ failed' \in BOOLEAN /\ errors' \in {0, 1} /\ (~failed' => errors' = 0)
      /\ picture' # None /\ NoFlash
      /\ timers = <<>> /\ visible /\ picture = current =>
              \/ timers' = <<>> /\ visible' /\ picture' = current'
              \/ /\ Len(timers') = 1 /\ ~visible'
                 /\ timers'[1].mine = fade' /\ timers'[1].next = current'
  <2>1. CASE Story!Apply(c)
    BY <1>1, <1>2, <2>1, ApplyKeeps DEF FigureKept, PageTyped, NoFlash
  <2>2. CASE UNCHANGED <<failed, errors>> /\ FigureStays
    <3>1. FigureTyped' /\ FadesInOrder'
      BY <1>1, <2>2, FigureStaysKept DEF FigureKept
    <3> QED
      BY <1>1, <1>2, <2>2, <3>1 DEF FigureStays, PageTyped, NoFlash
  <2> QED
    BY <1>5, <2>1, <2>2
<1>7. Patient'
  <2> SUFFICES ASSUME ~hasty' PROVE \/ timers' = <<>> /\ visible' /\ picture' = current'
                                    \/ /\ Len(timers') = 1 /\ ~visible'
                                       /\ timers'[1].mine = fade' /\ timers'[1].next = current'
    BY DEF Patient
  <2>1. ~hasty /\ timers = <<>>
    BY <1>2
  <2>2. timers = <<>> /\ visible /\ picture = current
    <3>1. Len(timers) # 1
      BY <2>1
    <3> QED
      BY <1>1, <2>1, <3>1 DEF Patient
  <2> QED
    BY <1>6, <2>2
<1>8. PageTyped'
  <2>1. hasty' \in BOOLEAN /\ watched' \in Story!Lines \cup {None}
    BY <1>1, <1>2 DEF PageTyped
  <2> QED
    BY <1>1, <1>2, <1>6, <2>1 DEF PageTyped
<1>9. Unreported' /\ (layout' = "scrolly" => picture' # None)
  BY <1>2, <1>6 DEF Unreported
<1> QED
  BY <1>6, <1>7, <1>8, <1>9, StoryPartsAfter

\* What the reader does, or a figure that cannot be mounted: the canvas stays.
LEMMA ReaderKeeps ==
  ASSUME StoryKept, Story!MountFails \/ (\E l \in Story!Lines : Story!Scroll(l)) \/ Story!Motion
  PROVE  StoryKept' /\ NoFlash
<1>1. /\ FigureTyped /\ PageTyped /\ Patient /\ Unreported /\ FadesInOrder /\ (layout = "scrolly" => picture # None)
  BY StoryParts
<1>2. /\ UNCHANGED <<current, picture, fade, timers, visible, broken>> /\ still' \in BOOLEAN
  BY <1>1 DEF Story!MountFails, Story!Scroll, Story!Motion, Story!MotionChanges, Story!figureVars, FigureTyped
<1>3. FigureTyped' /\ FadesInOrder' /\ NoFlash
  BY <1>1, <1>2 DEF FigureTyped, FadesInOrder, Fades, NoFlash
<1>4. hasty' = hasty
  BY DEF Story!MountFails, Story!Scroll, Story!Motion, Story!storyVars
<1>5. Patient'
  BY <1>1, <1>2, <1>4 DEF Patient
<1>6. PageTyped' /\ Unreported' /\ (layout' = "scrolly" => picture' # None)
  <2>1. CASE Story!MountFails
    <3>1. layout = "image" /\ errors = 0 /\ errors' = 1 /\ layout' = "article" /\ UNCHANGED <<line, watched, scheduled, failed, moves, hasty>>
      BY <1>1, <2>1 DEF Story!MountFails, Story!ShowError, Unreported
    <3>2. ~scheduled
      BY <1>1, <3>1 DEF Unreported
    <3> QED
      BY <1>1, <3>1, <3>2 DEF PageTyped, Unreported
  <2>2. CASE \E l \in Story!Lines : Story!Scroll(l)
    <3>1. PICK l \in Story!Lines : Story!Scroll(l)
      BY <2>2
    <3>2. moves' \in 0..MaxMoves
      BY <1>1, <3>1, StoryConstants DEF Story!Scroll, PageTyped
    <3>3. line' = l /\ scheduled' = (layout = "scrolly") /\ UNCHANGED <<layout, watched, failed, errors, hasty>>
      BY <3>1 DEF Story!Scroll
    <3> QED
      BY <1>1, <1>2, <3>2, <3>3 DEF PageTyped, Unreported
  <2>3. CASE Story!Motion
    BY <1>1, <1>2, <2>3 DEF Story!Motion, Story!storyVars, PageTyped, Unreported
  <2> QED
    BY <2>1, <2>2, <2>3
<1> QED
  BY <1>1, <1>3, <1>5, <1>6, StoryPartsAfter

\* The timer of a fade.
LEMMA TimerKeeps == ASSUME StoryKept, Story!Timer PROVE StoryKept' /\ NoFlash
<1>1. /\ FigureTyped /\ PageTyped /\ Patient /\ Unreported /\ FadesInOrder /\ (layout = "scrolly" => picture # None)
  BY StoryParts
<1>2. Story!FadeIn /\ UNCHANGED <<layout, line, watched, scheduled, failed, errors, moves, hasty>> /\ current' = current
  BY DEF Story!Timer, Story!FadeIn, Story!storyVars
<1>3. /\ FigureTyped' /\ FadesInOrder' /\ (picture # None => picture' # None) /\ NoFlash
      /\ \A was \in BOOLEAN : Waits(was) => Waits(was)'
  BY <1>1, <1>2, FadeInKeeps DEF FigureKept, NoFlash
<1>4. Patient'
  <2>1. PICK was \in BOOLEAN : was = ~hasty
    BY <1>1 DEF PageTyped
  <2>2. Waits(was)
    BY <1>1, <2>1 DEF Waits, Patient
  <2>3. Waits(was)'
    BY <1>3, <2>2
  <2> QED
    BY <1>2, <2>1, <2>3 DEF Waits, Patient
<1>5. layout # "image"
  BY <1>1, <1>2 DEF Unreported, Story!FadeIn
<1>6. PageTyped' /\ Unreported' /\ (layout' = "scrolly" => picture' # None)
  BY <1>1, <1>2, <1>3, <1>5 DEF PageTyped, Unreported
<1> QED
  BY <1>3, <1>4, <1>6, StoryPartsAfter

\* Every step of the page keeps the invariant, and fades in nothing that is out of date.
LEMMA StoryKeeps ==
  ASSUME StoryKept, [Story!Next]_storyVars
  PROVE  StoryKept' /\ NoFlash
<1>1. CASE UNCHANGED storyVars
  <2>1. /\ FigureTyped /\ PageTyped /\ Patient /\ Unreported /\ FadesInOrder /\ (layout = "scrolly" => picture # None)
    BY StoryParts
  <2>2. FigureTyped' /\ FadesInOrder' /\ NoFlash
    BY <1>1, <2>1 DEF storyVars, FigureTyped, FadesInOrder, Fades, NoFlash
  <2>3. PageTyped' /\ Patient' /\ Unreported' /\ (layout' = "scrolly" => picture' # None)
    BY <1>1, <2>1 DEF storyVars, PageTyped, Patient, Unreported
  <2> QED
    BY <2>2, <2>3, StoryPartsAfter
<1> QED
  BY <1>1, MountKeeps, MeasureKeeps, ReaderKeeps, TimerKeeps DEF Story!Next

\* A page that has just been read has mounted nothing and owes nothing.
LEMMA StoryInit == Story!Init => StoryKept
<1> SUFFICES ASSUME Story!Init PROVE StoryKept
  OBVIOUS
<1>1. /\ current = None /\ picture = None /\ fade = 0 /\ timers = <<>> /\ visible = TRUE /\ still \in BOOLEAN
      /\ broken \in SUBSET Doubtful /\ layout = "image" /\ line \in Story!Lines /\ watched = None
      /\ scheduled = FALSE /\ failed = FALSE /\ errors = 0 /\ moves = 0 /\ hasty = FALSE
  BY DEF Story!Init, Story!FigureInit
<1>2. FigureTyped /\ PageTyped
  <2>1. timers \in Seq(Fades(fade, broken)) /\ 0 \in 0..MaxMoves
    BY <1>1, StoryConstants
  <2> QED
    BY <1>1, <2>1 DEF FigureTyped, PageTyped
<1>3. Patient /\ Unreported /\ FadesInOrder
  BY <1>1 DEF Patient, Unreported, FadesInOrder
<1> QED
  BY <1>1, <1>2, <1>3, StoryParts

-------------------------------------------------------------------------------
(* The mailbox: what a queue of messages and a marker looks like.          *)

\* What FiguresAssumption says of the mailbox.
LEMMA MailboxConstants ==
  /\ ServiceS \in Nat /\ ServiceS >= 1 /\ MigrateS \in Nat /\ MigrateS >= 1 /\ RestartS \in Nat /\ RestartS >= 1
  /\ Parked \in Nat /\ Backlog \in Nat /\ Burst \in Nat /\ MaxMessages \in Nat /\ MaxCrashes \in Nat
BY FiguresAssumption DEF Mailbox!MailboxAssumption

Mail == {Mailbox!Marker, Mailbox!Msg(1), Mailbox!Msg(2)}

\* A message is no marker, and the three kinds of mail carry their epochs.
LEMMA MailDiffers ==
  /\ Mailbox!Msg(1) # Mailbox!Marker /\ Mailbox!Msg(2) # Mailbox!Marker
  /\ Mailbox!Msg(1).kind = "msg" /\ Mailbox!Msg(2).kind = "msg" /\ Mailbox!Marker.kind = "marker"
  /\ Mailbox!Msg(1).epoch = 1 /\ Mailbox!Msg(2).epoch = 2 /\ Mailbox!Marker.epoch = 2
BY DEF Mailbox!Msg, Mailbox!Marker

\* The head of the queue says where in the deploy the actor is.
LEMMA ShapeHead ==
  ASSUME NEW q \in Seq(Mail), NEW b \in BOOLEAN, NEW e \in {1, 2}, QueueShape(q, b, e), q # <<>>
  PROVE  /\ Head(q) = Mailbox!Marker => b
         /\ Head(q) # Mailbox!Marker => Head(q) = IF b THEN Mailbox!Msg(1) ELSE Mailbox!Msg(e)
<1>1. Head(q) = q[1] /\ 1 \in DOMAIN q
  OBVIOUS
<1>2. CASE ~b
  BY <1>1, <1>2, MailDiffers DEF QueueShape
<1>3. CASE b
  <2>1. PICK k \in DOMAIN q : Divided(q, k)
    BY <1>3 DEF QueueShape
  <2>2. k \in Nat /\ k >= 1
    OBVIOUS
  <2> QED
    BY <1>1, <1>3, <2>1, <2>2, MailDiffers DEF Divided
<1> QED
  BY <1>2, <1>3

\* Messages arrive behind it.
Behind(r, q, n, e) ==
  /\ r \in Seq(Mail) /\ Len(r) = Len(q) + n
  /\ \A i \in 1..Len(q) : r[i] = q[i]
  /\ \A i \in 1..n : r[Len(q) + i] = Mailbox!Msg(e)

\* Messages that arrive in one frame are behind those already there.
LEMMA BehindIs ==
  ASSUME NEW q \in Seq(Mail), NEW e \in {1, 2}, NEW n \in Nat
  PROVE  Behind(q \o [i \in 1..n |-> Mailbox!Msg(e)], q, n, e)
<1>1. PICK m \in Nat : m = Len(q)
  OBVIOUS
<1>2. PICK more : more = [i \in 1..n |-> Mailbox!Msg(e)]
  OBVIOUS
<1>3. more \in Seq(Mail) /\ Len(more) = n /\ \A i \in 1..n : more[i] = Mailbox!Msg(e)
  BY <1>2 DEF Mail
<1>4. PICK r : r = q \o more
  OBVIOUS
<1>5. /\ r \in Seq(Mail) /\ Len(r) = m + n
      /\ \A i \in 1..(m + n) : r[i] = IF i <= m THEN q[i] ELSE more[i - m]
  BY <1>1, <1>3, <1>4, ConcatProperties, ZenonT(40)
<1>6. \A i \in 1..m : i \in 1..(m + n) /\ i <= m
  OBVIOUS
<1>7. \A i \in 1..n : m + i \in 1..(m + n) /\ ~(m + i <= m) /\ (m + i) - m = i
  OBVIOUS
<1> QED
  BY <1>1, <1>2, <1>3, <1>4, <1>5, <1>6, <1>7 DEF Behind

\* Mail of the current epoch, put behind a queue, keeps its shape and its head.
LEMMA ShapeGrows ==
  ASSUME NEW q \in Seq(Mail), NEW b \in BOOLEAN, NEW e \in {1, 2}, QueueShape(q, b, e), NEW n \in Nat,
         NEW r, Behind(r, q, n, e)
  PROVE  /\ r \in Seq(Mail) /\ Len(r) = Len(q) + n /\ QueueShape(r, b, e)
         /\ q # <<>> => r # <<>> /\ Head(r) = Head(q)
<1>1. PICK m \in Nat : m = Len(q) /\ DOMAIN q = 1..m
  OBVIOUS
<1>4. /\ r \in Seq(Mail) /\ Len(r) = m + n /\ DOMAIN r = 1..(m + n)
      /\ \A i \in 1..m : r[i] = q[i]
      /\ \A i \in 1..n : r[m + i] = Mailbox!Msg(e)
  <2>1. r \in Seq(Mail) /\ Len(r) = m + n
    BY <1>1 DEF Behind
  <2>2. DOMAIN r = 1..(m + n)
    BY <2>1
  <2>3. \A i \in 1..m : r[i] = q[i]
    BY <1>1 DEF Behind
  <2>4. \A i \in 1..n : r[m + i] = Mailbox!Msg(e)
    BY <1>1 DEF Behind
  <2> QED
    BY <2>1, <2>2, <2>3, <2>4
<1>5. \A i \in 1..(m + n) : (i \in 1..m /\ r[i] = q[i]) \/ (i > m /\ r[i] = Mailbox!Msg(e))
  <2> SUFFICES ASSUME NEW i \in 1..(m + n), i > m PROVE r[i] = Mailbox!Msg(e)
    BY <1>4
  <2>1. i - m \in 1..n /\ m + (i - m) = i
    OBVIOUS
  <2>2. PICK j \in 1..n : m + j = i
    BY <2>1
  <2> QED
    BY <1>4, <2>2
<1>6. QueueShape(r, b, e)
  <2>1. CASE ~b
    BY <1>1, <1>4, <1>5, <2>1 DEF QueueShape
  <2>2. CASE b
    <3>1. e = 2 /\ \E k \in 1..m : Divided(q, k)
      BY <1>1, <2>2 DEF QueueShape
    <3>2. PICK k \in 1..m : Divided(q, k)
      BY <3>1
    <3>3. k \in 1..(m + n) /\ Divided(r, k)
      BY <1>1, <1>4, <1>5, <3>1, <3>2 DEF Divided
    <3> QED
      BY <1>4, <2>2, <3>1, <3>3 DEF QueueShape
  <2> QED
    BY <2>1, <2>2
<1>7. ASSUME q # <<>> PROVE r # <<>> /\ Head(r) = Head(q)
  <2>1. m >= 1
    BY <1>1, <1>7
  <2> QED
    BY <1>1, <1>4, <2>1
<1> QED
  BY <1>1, <1>4, <1>6, <1>7

\* Its head leaves: a message, or the marker, once the state is migrated.
LEMMA ShapeTail ==
  ASSUME NEW q \in Seq(Mail), NEW b \in BOOLEAN, NEW e \in {1, 2}, QueueShape(q, b, e), q # <<>>
  PROVE  /\ Tail(q) \in Seq(Mail) /\ Len(Tail(q)) = Len(q) - 1
         /\ Head(q) # Mailbox!Marker => QueueShape(Tail(q), b, e)
         /\ Head(q) = Mailbox!Marker => QueueShape(Tail(q), FALSE, e)
<1>0. PICK m \in Nat : m = Len(q) /\ DOMAIN q = 1..m
  OBVIOUS
<1>1. PICK r : r = Tail(q)
  OBVIOUS
<1>. m = Len(q) /\ DOMAIN q = 1..m /\ m >= 1
  <2>1. m # 0
    BY <1>0
  <2> QED
    BY <1>0, <2>1
<1>2. /\ r \in Seq(Mail) /\ Len(r) = m - 1 /\ DOMAIN r = 1..(m - 1) /\ Head(q) = q[1]
      /\ \A i \in 1..(m - 1) : i + 1 \in 1..m /\ r[i] = q[i + 1]
  BY <1>1
<1>3. CASE ~b
  <2>1. \A i \in 1..(m - 1) : r[i] = Mailbox!Msg(e)
    BY <1>1, <1>2, <1>3 DEF QueueShape
  <2> QED
    BY <1>1, <1>2, <1>3, <2>1 DEF QueueShape
<1>4. CASE b
  <2>1. e = 2 /\ \E k \in 1..m : Divided(q, k)
    BY <1>1, <1>4 DEF QueueShape
  <2>2. PICK k \in 1..m : Divided(q, k)
    BY <2>1
  <2>3. 1 \in 1..m /\ (q[1] = Mailbox!Marker <=> k = 1)
    <3>1. 1 \in 1..m
      BY <1>1
    <3> QED
      BY <1>1, <2>2, <3>1, MailDiffers DEF Divided
  <2>4. \A i \in 1..(m - 1) :
          r[i] = IF i + 1 < k THEN Mailbox!Msg(1) ELSE IF i + 1 = k THEN Mailbox!Marker ELSE Mailbox!Msg(2)
    BY <1>1, <1>2, <2>2 DEF Divided
  <2>5. CASE k = 1
    <3>1. \A i \in 1..(m - 1) : r[i] = Mailbox!Msg(2)
      BY <2>4, <2>5
    <3> QED
      BY <1>1, <1>2, <2>1, <2>3, <2>5, <3>1 DEF QueueShape
  <2>6. CASE k # 1
    <3>1. k - 1 \in 1..(m - 1) /\ Divided(r, k - 1)
      BY <1>2, <2>4, <2>6 DEF Divided
    <3> QED
      BY <1>1, <1>2, <1>4, <2>1, <2>3, <2>6, <3>1 DEF QueueShape
  <2> QED
    BY <2>5, <2>6
<1> QED
  BY <1>3, <1>4

\* A deploy's marker goes behind all of it.
LEMMA ShapeMarked ==
  ASSUME NEW q \in Seq(Mail), QueueShape(q, FALSE, 1), NEW r, r = Append(q, Mailbox!Marker)
  PROVE  /\ r \in Seq(Mail) /\ Len(r) = Len(q) + 1 /\ QueueShape(r, TRUE, 2)
         /\ q # <<>> => r # <<>> /\ Head(r) = Head(q)
<1>1. PICK m \in Nat : m = Len(q) /\ DOMAIN q = 1..m
  OBVIOUS
<1>2. PICK mark : mark = Mailbox!Marker /\ mark \in Mail
  BY DEF Mail
<1>3. /\ r \in Seq(Mail) /\ Len(r) = m + 1 /\ DOMAIN r = 1..(m + 1) /\ r[m + 1] = mark
      /\ \A i \in 1..m : r[i] = q[i]
  BY <1>1, <1>2
<1>4. \A i \in 1..m : r[i] = Mailbox!Msg(1)
  BY <1>1, <1>3 DEF QueueShape
<1>5. Divided(r, m + 1) /\ m + 1 \in DOMAIN r
  BY <1>2, <1>3, <1>4 DEF Divided
<1>6. ASSUME q # <<>> PROVE r # <<>> /\ Head(r) = Head(q)
  <2>1. m >= 1
    BY <1>1, <1>6
  <2> QED
    BY <1>1, <1>3, <2>1
<1> QED
  BY <1>1, <1>3, <1>5, <1>6 DEF QueueShape

-------------------------------------------------------------------------------
(* The mailbox: every step keeps it.                                       *)

\* What was handled on one version of the code.
HandledOn(d, v) == {i \in DOMAIN d : d[i].version = v}

Handlings == [epoch : Mailbox!Epochs, version : Mailbox!Epochs]

\* The mailbox's module counts as this one does.
LEMMA CountsAlike == \A S : Mailbox!Cardinality(S) = Cardinality(S)
BY DEF Mailbox!Cardinality, Cardinality

\* Nothing has been handled yet, by either version.
LEMMA HandledOnNone == HandledOn(<<>>, 1) = {} /\ HandledOn(<<>>, 2) = {}
BY DEF HandledOn

\* One more handling is one more for its version, and none for the other.
LEMMA HandledOnGrows ==
  ASSUME NEW d \in Seq(Handlings), NEW h \in Handlings, NEW v
  PROVE  /\ Cardinality(HandledOn(d, v)) \in Nat
         /\ Cardinality(HandledOn(Append(d, h), v))
              = IF h.version = v THEN Cardinality(HandledOn(d, v)) + 1 ELSE Cardinality(HandledOn(d, v))
<1>1. PICK m \in Nat : m = Len(d) /\ DOMAIN d = 1..m
  OBVIOUS
<1>2. PICK r : r = Append(d, h)
  OBVIOUS
<1>3. DOMAIN r = 1..(m + 1) /\ r[m + 1] = h /\ \A i \in 1..m : r[i] = d[i]
  BY <1>1, <1>2
<1>4. PICK T : T = HandledOn(d, v)
  OBVIOUS
<1>5. IsFiniteSet(T) /\ m + 1 \notin T
  <2>1. T \subseteq 1..m
    BY <1>1, <1>4 DEF HandledOn
  <2>2. IsFiniteSet(1..m)
    BY FS_Interval
  <2>3. IsFiniteSet(T)
    BY <2>1, <2>2, FS_Subset
  <2> QED
    BY <2>1, <2>3
<1>6. HandledOn(r, v) = IF h.version = v THEN T \cup {m + 1} ELSE T
  <2>1. 1..(m + 1) = (1..m) \cup {m + 1}
    OBVIOUS
  <2> QED
    BY <1>1, <1>3, <1>4, <2>1 DEF HandledOn
<1>7. Cardinality(T \cup {m + 1}) = Cardinality(T) + 1 /\ Cardinality(T) \in Nat
  BY <1>5, FS_AddElement, FS_CardinalityType
<1> QED
  BY <1>2, <1>4, <1>6, <1>7

\* The types, in the groups the actions change them in.
MailTyped ==
  /\ queue \in Seq(Mail) /\ service \in 0..(ServiceS - 1)
  /\ version \in {1, 2} /\ epoch \in {1, 2}
  /\ deployed \in BOOLEAN /\ migrating \in BOOLEAN /\ held \in BOOLEAN /\ holds \in BOOLEAN /\ up \in BOOLEAN
  /\ migrateLeft \in 0..MigrateS /\ downFor \in 0..(RestartS - 1) /\ restarts \in 0..MaxCrashes
  /\ dropped \in Nat /\ arrived \in Nat /\ lost \in BOOLEAN

WorkTyped ==
  /\ total \in Nat /\ handled \in [{"old", "new"} -> Nat]
  /\ parked \in 0..Parked /\ serving \in -1..(Parked - 1)
  /\ done \in Seq(Handlings)

Work ==
  /\ WorkTyped
  /\ total = Len(done)
  /\ handled["old"] = Cardinality(HandledOn(done, 1)) /\ handled["new"] = Cardinality(HandledOn(done, 2))
  /\ ~lost => \A i \in DOMAIN done : done[i].version = done[i].epoch

\* The invariant in the parts the steps change together.
LEMMA MailboxParts ==
  MailboxKept <=> MailTyped /\ Work /\ QueueShape(queue, Marked, epoch) /\ Phases /\ Counted
<1>1. Mailbox!TypeOK <=> MailTyped /\ WorkTyped
  BY DEF Mailbox!TypeOK, MailTyped, WorkTyped, Handlings, Mail, Mailbox!Epochs
<1>2. /\ {i \in DOMAIN done : done[i].version = 1} = HandledOn(done, 1)
      /\ {i \in DOMAIN done : done[i].version = 2} = HandledOn(done, 2)
  BY DEF HandledOn
<1>3. Mailbox!HandledByItsCode /\ Mailbox!CountsWhatItHandled /\ WorkTyped <=> Work
  BY <1>2, CountsAlike DEF Work, Mailbox!HandledByItsCode, Mailbox!CountsWhatItHandled
<1> QED
  BY <1>1, <1>3 DEF MailboxKept

\* The same of the state after a step.
LEMMA MailboxPartsAfter ==
  MailboxKept' <=> MailTyped' /\ Work' /\ QueueShape(queue', Marked', epoch') /\ Phases' /\ Counted'
<1>1. Mailbox!TypeOK' <=> MailTyped' /\ WorkTyped'
  BY DEF Mailbox!TypeOK, MailTyped, WorkTyped, Handlings, Mail, Mailbox!Epochs
<1>2. /\ {i \in DOMAIN done' : done'[i].version = 1} = HandledOn(done', 1)
      /\ {i \in DOMAIN done' : done'[i].version = 2} = HandledOn(done', 2)
  BY DEF HandledOn
<1>3. Mailbox!HandledByItsCode' /\ Mailbox!CountsWhatItHandled' /\ WorkTyped' <=> Work'
  BY <1>2, CountsAlike DEF Work, Mailbox!HandledByItsCode, Mailbox!CountsWhatItHandled
<1> QED
  BY <1>1, <1>3 DEF MailboxKept, QueueShape, Divided

\* What a step leaves alone.
LEMMA WorkStays ==
  ASSUME Work, UNCHANGED <<total, handled, parked, done>>, serving' \in -1..(Parked - 1), lost => lost'
  PROVE  Work'
BY DEF Work, WorkTyped, HandledOn

\* deploy(): the marker goes to the end of the mailbox.
LEMMA DeployKeeps == ASSUME MailboxKept, Mailbox!Deploy PROVE MailboxKept'
<1>1. MailTyped /\ Work /\ QueueShape(queue, Marked, epoch) /\ Phases /\ Counted
  BY MailboxParts
<1>2. /\ ~deployed /\ up /\ deployed' = TRUE /\ epoch' = 2 /\ queue' = Append(queue, Mailbox!Marker)
      /\ UNCHANGED <<version, holds, migrating, migrateLeft, held, up, downFor, restarts,
                     service, total, handled, parked, serving, done, dropped, arrived, lost>>
  BY DEF Mailbox!Deploy, Mailbox!MayDeploy, Mailbox!migrateVars, Mailbox!lifeVars, Mailbox!workVars
<1>3. epoch = 1 /\ version = 1 /\ ~lost /\ Marked = FALSE /\ Marked' = TRUE
  BY <1>1, <1>2 DEF Phases, MailTyped, Marked
<1>4. queue \in Seq(Mail) /\ QueueShape(queue, FALSE, 1)
  BY <1>1, <1>3 DEF MailTyped
<1>5. /\ queue' \in Seq(Mail) /\ Len(queue') = Len(queue) + 1 /\ QueueShape(queue', TRUE, 2)
      /\ queue # <<>> => queue' # <<>> /\ Head(queue') = Head(queue)
  BY <1>2, <1>4, ShapeMarked
<1>6. MailTyped'
  BY <1>1, <1>2, <1>5 DEF MailTyped
<1>7. Work'
  BY <1>1, <1>2, WorkStays DEF Work, WorkTyped
<1>8. Phases'
  BY <1>1, <1>2, <1>5 DEF Phases
<1>9. Counted'
  <2>1. PICK m \in Nat : m = Len(queue)
    BY <1>4
  <2> QED
    BY <1>1, <1>2, <1>3, <1>5, <2>1 DEF Counted
<1> QED
  BY <1>2, <1>3, <1>5, <1>6, <1>7, <1>8, <1>9, MailboxPartsAfter

\* releaseHold()
LEMMA ReleaseHoldKeeps == ASSUME MailboxKept, Mailbox!ReleaseHold PROVE MailboxKept'
<1>1. MailTyped /\ Work /\ QueueShape(queue, Marked, epoch) /\ Phases /\ Counted
  BY MailboxParts
<1>2. /\ holds' = FALSE
      /\ UNCHANGED <<queue, version, epoch, deployed, migrating, migrateLeft, held, up, downFor, restarts,
                     service, total, handled, parked, serving, done, dropped, arrived, lost>>
  BY DEF Mailbox!ReleaseHold, Mailbox!migrateVars, Mailbox!lifeVars, Mailbox!workVars
<1>3. MailTyped' /\ Phases'
  BY <1>1, <1>2 DEF MailTyped, Phases
<1>4. Work'
  BY <1>1, <1>2, WorkStays DEF Work, WorkTyped
<1>5. Counted' /\ Marked' = Marked
  BY <1>1, <1>2 DEF Counted, Marked
<1> QED
  BY <1>1, <1>2, <1>3, <1>4, <1>5, MailboxPartsAfter

\* crash(): what was waiting and what had been done is gone, the marker with it.
LEMMA CrashKeeps == ASSUME MailboxKept, Mailbox!Crash PROVE MailboxKept'
<1>1. MailTyped /\ Work /\ QueueShape(queue, Marked, epoch) /\ Phases /\ Counted
  BY MailboxParts
<1>2. /\ up /\ restarts < MaxCrashes /\ up' = FALSE /\ downFor' = 0 /\ queue' = <<>> /\ service' = 0 /\ done' = <<>>
      /\ lost' = (lost \/ \E i \in DOMAIN queue : queue[i] = Mailbox!Marker)
      /\ total' = 0 /\ parked' = 0 /\ serving' = -1 /\ handled' = [old |-> 0, new |-> 0]
      /\ migrating' = FALSE /\ held' = FALSE
      /\ UNCHANGED <<version, epoch, deployed, holds, migrateLeft, restarts, dropped, arrived>>
  BY DEF Mailbox!Crash, Mailbox!LosesState, Mailbox!deployVars
<1>3. lost' \in BOOLEAN /\ ~Marked' /\ (lost' => deployed)
  <2>1. CASE Marked
    <3>1. PICK k \in DOMAIN queue : Divided(queue, k)
      BY <1>1, <2>1 DEF QueueShape
    <3>2. queue[k] = Mailbox!Marker
      BY <1>1, <3>1 DEF Divided, MailTyped
    <3> QED
      BY <1>1, <1>2, <2>1, <3>2 DEF MailTyped, Marked
  <2>2. CASE ~Marked
    <3>1. \A i \in DOMAIN queue : queue[i] # Mailbox!Marker
      BY <1>1, <2>2, MailDiffers DEF QueueShape, MailTyped
    <3> QED
      BY <1>1, <1>2, <2>2, <3>1 DEF MailTyped, Marked, Phases
  <2> QED
    BY <2>1, <2>2
<1>4. MailTyped'
  <2>1. queue' \in Seq(Mail) /\ 0 \in 0..(ServiceS - 1) /\ 0 \in 0..(RestartS - 1)
    BY <1>2, MailboxConstants
  <2> QED
    BY <1>1, <1>2, <1>3, <2>1 DEF MailTyped
<1>5. Work'
  <2>1. Cardinality({}) = 0
    BY FS_EmptySet
  <2>2. WorkTyped'
    BY <1>2, MailboxConstants DEF WorkTyped
  <2>3. handled'["old"] = 0 /\ handled'["new"] = 0 /\ Len(done') = 0
    BY <1>2
  <2>4. HandledOn(done', 1) = {} /\ HandledOn(done', 2) = {}
    BY <1>2, HandledOnNone
  <2>5. \A i \in DOMAIN done' : FALSE
    BY <1>2
  <2> QED
    BY <1>2, <2>1, <2>2, <2>3, <2>4, <2>5 DEF Work, HandledOn
<1>6. QueueShape(queue', Marked', epoch')
  BY <1>2, <1>3 DEF QueueShape
<1>7. Phases' /\ Counted'
  BY <1>1, <1>2, <1>3 DEF Phases, Counted
<1> QED
  BY <1>4, <1>5, <1>6, <1>7, MailboxPartsAfter

\* step(): n messages have arrived in q.
Arrived(q, n) ==
  /\ n \in Nat /\ q = queue \o [i \in 1..n |-> Mailbox!Msg(epoch)]
  /\ arrived' = arrived + n /\ dropped' = (IF up THEN dropped ELSE dropped + n)
  /\ UNCHANGED <<epoch, deployed, holds, lost>>

Before == MailTyped /\ Work /\ QueueShape(queue, Marked, epoch) /\ Phases /\ Counted

\* What a frame finds in the queue, once its messages have arrived.
LEMMA ArrivedFits ==
  ASSUME Before, NEW q, NEW n, Arrived(q, n)
  PROVE  /\ q \in Seq(Mail) /\ Len(q) = Len(queue) + n /\ QueueShape(q, Marked, epoch)
         /\ queue # <<>> => q # <<>> /\ Head(q) = Head(queue)
         /\ n \in Nat /\ Marked \in BOOLEAN /\ epoch \in {1, 2} /\ arrived' \in Nat /\ dropped' \in Nat
<1>1. PICK b \in BOOLEAN, e \in {1, 2}, r \in Seq(Mail) : b = Marked /\ e = epoch /\ r = queue
  BY DEF Before, MailTyped, Marked
<1>2. r \in Seq(Mail) /\ QueueShape(r, b, e) /\ n \in Nat
  BY <1>1 DEF Before, MailTyped, Arrived
<1>6. Behind(q, r, n, e)
  BY <1>1, <1>2, BehindIs DEF Arrived
<1>7. /\ q \in Seq(Mail) /\ Len(q) = Len(r) + n /\ QueueShape(q, b, e)
      /\ r # <<>> => q # <<>> /\ Head(q) = Head(r)
  BY <1>2, <1>6, ShapeGrows
<1>4. arrived' \in Nat /\ dropped' \in Nat
  BY DEF Before, MailTyped, Arrived
<1> QED
  BY <1>1, <1>2, <1>4, <1>7

\* The sizes, as numbers, s the marker there is.
Tally(m, t, a, s) == m = Len(queue) /\ t = total /\ a = arrived /\ (s = 1 <=> Marked)

\* Before a step the counters are those of some tally of what was handled.
LEMMA Tallied == ASSUME Before PROVE \E m \in Nat, t \in Nat, a \in Nat, s \in {0, 1} : Tally(m, t, a, s)
<1>1. Len(queue) \in Nat /\ total \in Nat /\ arrived \in Nat
  BY DEF Before, MailTyped, Work, WorkTyped
<1>2. \E s \in {0, 1} : s = 1 <=> Marked
  OBVIOUS
<1> QED
  BY <1>1, <1>2 DEF Tally

\* n messages come, g leaves the queue, and r is the marker that is left.
Changed(m, t, a, s, n, g, r) ==
  /\ arrived' = a + n /\ Len(queue') = m + n - g /\ total' = t + g - s + r
  /\ up' = up /\ restarts' = restarts /\ (r = 1 <=> Marked')

\* Messages and the marker are accounted for when they leave.
LEMMA CountedStays ==
  ASSUME Before, NEW m \in Nat, NEW t \in Nat, NEW a \in Nat, NEW s \in {0, 1}, Tally(m, t, a, s),
         NEW n \in Nat, NEW g \in {0, 1}, NEW r \in {0, 1}, Changed(m, t, a, s, n, g, r)
  PROVE  Counted'
<1>1. Backlog \in Nat
  BY MailboxConstants
<1>2. ASSUME restarts = 0, up PROVE Backlog + a = t + m - s
  BY <1>2 DEF Before, Counted, Tally
<1>3. ASSUME restarts = 0, up PROVE Backlog + (a + n) = (t + g - s + r) + (m + n - g) - r
  BY <1>1, <1>2, <1>3
<1>4. (IF Marked' THEN 1 ELSE 0) = r
  BY DEF Changed
<1> QED
  BY <1>3, <1>4 DEF Counted, Changed

\* The actor is down, and may come up.
LEMMA DownKeeps ==
  ASSUME Before, NEW q, NEW n, Arrived(q, n), Mailbox!Down(q)
  PROVE  MailboxKept'
<1>1. /\ ~up /\ UNCHANGED <<queue, version, migrating, migrateLeft, held, service, total, handled, parked, serving, done>>
  BY DEF Mailbox!Down, Mailbox!migrateVars, Mailbox!workVars
<1>0. \/ up' = TRUE /\ downFor' = 0 /\ restarts' = restarts + 1
      \/ up' = FALSE /\ downFor' = downFor + 1 /\ downFor + 1 < RestartS /\ restarts' = restarts
  <2>1. downFor \in Nat
    BY MailboxConstants DEF Before, MailTyped
  <2>2. up' = TRUE \/ up' = FALSE
    BY DEF Mailbox!Down
  <2>3. up' <=> downFor + 1 >= RestartS
    BY DEF Mailbox!Down
  <2> QED
    BY <2>1, <2>2, <2>3, MailboxConstants DEF Mailbox!Down
<1>2. UNCHANGED <<epoch, deployed, holds, lost>> /\ arrived' \in Nat /\ dropped' \in Nat
  BY ArrivedFits DEF Arrived
<1>3. restarts' \in 0..MaxCrashes /\ (~up' => restarts' < MaxCrashes) /\ (up' => restarts' # 0)
  BY <1>0, <1>1, MailboxConstants DEF Before, MailTyped, Phases
<1>4. downFor' \in 0..(RestartS - 1) /\ up' \in BOOLEAN
  <2>1. PICK d \in 0..(RestartS - 1) : d = downFor
    BY DEF Before, MailTyped
  <2>2. 0 \in 0..(RestartS - 1) /\ (d + 1 < RestartS => d + 1 \in 0..(RestartS - 1))
    BY MailboxConstants
  <2>3. downFor' \in 0..(RestartS - 1)
    BY <1>0, <2>1, <2>2
  <2>4. up' = TRUE \/ up' = FALSE
    BY <1>0
  <2> QED
    BY <2>3, <2>4
<1>5. MailTyped'
  BY <1>1, <1>2, <1>3, <1>4 DEF Before, MailTyped
<1>6. Work'
  BY <1>1, <1>2, WorkStays DEF Before, Work, WorkTyped
<1>7. Phases'
  BY <1>1, <1>2, <1>3 DEF Before, Phases
<1>8. Counted' /\ Marked' = Marked
  BY <1>1, <1>2, <1>3 DEF Counted, Marked
<1> QED
  BY <1>1, <1>2, <1>5, <1>6, <1>7, <1>8, MailboxPartsAfter DEF Before

\* The state is migrated; at the end of it the marker leaves.
LEMMA MigrateKeeps ==
  ASSUME Before, NEW q, NEW n, Arrived(q, n), Mailbox!Migrate(q)
  PROVE  MailboxKept'
<1>1. /\ up /\ migrating /\ migrateLeft' = migrateLeft - 1
      /\ \/ migrateLeft > 1 /\ queue' = q /\ UNCHANGED <<migrating, version>>
         \/ ~(migrateLeft > 1) /\ migrating' = FALSE /\ version' = 2 /\ queue' = Tail(q)
      /\ UNCHANGED <<held, up, downFor, restarts, service, total, handled, parked, serving, done>>
  BY DEF Mailbox!Migrate, Mailbox!Migrated, Mailbox!lifeVars, Mailbox!workVars
<1>2. /\ UNCHANGED <<epoch, deployed, holds, lost>> /\ arrived' = arrived + n
  BY DEF Arrived
<1>3. /\ q \in Seq(Mail) /\ Len(q) = Len(queue) + n /\ QueueShape(q, Marked, epoch)
      /\ queue # <<>> => q # <<>> /\ Head(q) = Head(queue)
      /\ n \in Nat /\ Marked \in BOOLEAN /\ epoch \in {1, 2} /\ arrived' \in Nat /\ dropped' \in Nat
  BY ArrivedFits
<1>4. migrateLeft >= 1 /\ ~held /\ serving = -1 /\ q # <<>> /\ Head(q) = Mailbox!Marker /\ migrateLeft \in 0..MigrateS
  BY <1>1, <1>3 DEF Before, Phases, MailTyped
<1>5. Marked
  <2>1. PICK b \in BOOLEAN, e \in {1, 2} : b = Marked /\ e = epoch
    BY <1>3
  <2> QED
    BY <1>3, <1>4, <2>1, ShapeHead
<1>6. /\ Tail(q) \in Seq(Mail) /\ Len(Tail(q)) = Len(q) - 1 /\ QueueShape(Tail(q), FALSE, epoch)
  BY <1>3, <1>4, ShapeTail
<1>7. migrateLeft' \in 0..MigrateS /\ (migrateLeft > 1 => migrateLeft' >= 1)
  BY <1>1, <1>4, MailboxConstants
<1>8. Work'
  BY <1>1, <1>2, WorkStays DEF Before, Work, WorkTyped
<1>9. CASE migrateLeft > 1
  <2>1. queue' = q /\ migrating' = migrating /\ version' = version /\ Marked' = Marked
    BY <1>1, <1>2, <1>9 DEF Marked
  <2>2. MailTyped'
    BY <1>1, <1>2, <1>3, <1>7, <2>1 DEF Before, MailTyped
  <2>3. Phases'
    BY <1>1, <1>2, <1>4, <1>7, <1>9, <2>1 DEF Before, Phases
  <2>4. Counted'
    <3>1. PICK m \in Nat, t \in Nat, a \in Nat, s \in {0, 1} : Tally(m, t, a, s)
      BY Tallied
    <3>2. Changed(m, t, a, s, n, 0, s)
      BY <1>1, <1>2, <1>3, <2>1, <3>1 DEF Tally, Changed
    <3> QED
      BY <1>3, <3>1, <3>2, CountedStays
  <2> QED
    BY <1>2, <1>3, <1>8, <2>1, <2>2, <2>3, <2>4, MailboxPartsAfter
<1>10. CASE ~(migrateLeft > 1)
  <2>1. queue' = Tail(q) /\ migrating' = FALSE /\ version' = 2 /\ Marked' = FALSE
    <3>1. migrateLeft \in Nat
      BY <1>4, MailboxConstants
    <3>2. queue' = Tail(q) /\ migrating' = FALSE /\ version' = 2
      BY <1>1, <1>10, <3>1
    <3> QED
      BY <3>2 DEF Marked
  <2>2. MailTyped'
    BY <1>1, <1>2, <1>3, <1>6, <1>7, <2>1 DEF Before, MailTyped
  <2>3. Phases'
    BY <1>1, <1>2, <1>4, <1>5, <2>1 DEF Before, Phases, Marked
  <2>4. Counted'
    <3>1. PICK m \in Nat, t \in Nat, a \in Nat, s \in {0, 1} : Tally(m, t, a, s)
      BY Tallied
    <3>2. Changed(m, t, a, s, n, 1, 0)
      BY <1>1, <1>2, <1>3, <1>5, <1>6, <2>1, <3>1 DEF Tally, Changed
    <3> QED
      BY <1>3, <3>1, <3>2, CountedStays
  <2> QED
    BY <1>2, <1>6, <1>8, <2>1, <2>2, <2>3, <2>4, MailboxPartsAfter
<1> QED
  BY <1>9, <1>10

\* The marker is met: a party that holds keeps it there, else the state is migrated.
LEMMA MeetMarkerKeeps ==
  ASSUME Before, NEW q, NEW n, Arrived(q, n), Mailbox!MeetMarker(q)
  PROVE  MailboxKept'
<1>1. /\ up /\ ~migrating /\ q # <<>> /\ Head(q) = Mailbox!Marker /\ held' = holds /\ queue' = q
      /\ \/ holds /\ UNCHANGED <<migrating, migrateLeft>>
         \/ ~holds /\ migrating' = TRUE /\ migrateLeft' = MigrateS
      /\ UNCHANGED <<version, up, downFor, restarts, service, total, handled, parked, serving, done>>
  BY DEF Mailbox!MeetMarker, Mailbox!AtMarker, Mailbox!lifeVars, Mailbox!workVars
<1>2. /\ UNCHANGED <<epoch, deployed, holds, lost>> /\ arrived' = arrived + n
  BY DEF Arrived
<1>3. /\ q \in Seq(Mail) /\ Len(q) = Len(queue) + n /\ QueueShape(q, Marked, epoch)
      /\ queue # <<>> => q # <<>> /\ Head(q) = Head(queue)
      /\ n \in Nat /\ Marked \in BOOLEAN /\ epoch \in {1, 2} /\ arrived' \in Nat /\ dropped' \in Nat
  BY ArrivedFits
<1>4. MailTyped'
  <2>1. MigrateS \in 0..MigrateS
    BY MailboxConstants
  <2> QED
    BY <1>1, <1>2, <1>3, <2>1 DEF Before, MailTyped
<1>5. serving = -1
  <2>1. ~(serving >= 0)
    BY <1>1, <1>3 DEF Before, Phases
  <2>2. serving \in -1..(Parked - 1)
    BY DEF Before, Work, WorkTyped
  <2> QED
    BY <2>1, <2>2, MailboxConstants
<1>6. Work'
  BY <1>1, <1>2, WorkStays DEF Before, Work, WorkTyped
<1>7. Phases'
  BY <1>1, <1>2, <1>5, MailboxConstants DEF Before, Phases
<1>8. Counted' /\ Marked' = Marked
  <2>1. PICK m \in Nat, t \in Nat, a \in Nat, s \in {0, 1} : Tally(m, t, a, s)
    BY Tallied
  <2>2. Marked' = Marked
    BY <1>1, <1>2 DEF Marked
  <2>3. Changed(m, t, a, s, n, 0, s)
    BY <1>1, <1>2, <1>3, <2>1, <2>2 DEF Tally, Changed
  <2> QED
    BY <1>3, <2>1, <2>2, <2>3, CountedStays
<1> QED
  BY <1>1, <1>2, <1>3, <1>4, <1>6, <1>7, <1>8, MailboxPartsAfter

\* One message more is handled, on the code the actor runs.
LEMMA WorkGrows ==
  ASSUME Work, NEW e \in {1, 2}, version \in {1, 2}, ~lost => version = e, lost' = lost,
         total' = total + 1,
         handled' = [handled EXCEPT ![IF version = 1 THEN "old" ELSE "new"] = @ + 1],
         parked' = (IF parked < Parked THEN parked + 1 ELSE parked), serving' = -1,
         done' = Append(done, [epoch |-> e, version |-> version])
  PROVE  Work'
<1>1. PICK h \in Handlings : h = [epoch |-> e, version |-> version]
  BY DEF Handlings, Mailbox!Epochs
<1>2. PICK d \in Seq(Handlings) : d = done
  BY DEF Work, WorkTyped
<1>3. PICK c1 \in Nat, c2 \in Nat : c1 = Cardinality(HandledOn(d, 1)) /\ c2 = Cardinality(HandledOn(d, 2))
  BY HandledOnGrows, <1>1
<1>4. /\ Cardinality(HandledOn(done', 1)) = (IF version = 1 THEN c1 + 1 ELSE c1)
      /\ Cardinality(HandledOn(done', 2)) = (IF version = 2 THEN c2 + 1 ELSE c2)
  <2>1. done' = Append(d, h) /\ h.version = version
    BY <1>1, <1>2
  <2>2. /\ Cardinality(HandledOn(Append(d, h), 1)) = (IF h.version = 1 THEN c1 + 1 ELSE c1)
        /\ Cardinality(HandledOn(Append(d, h), 2)) = (IF h.version = 2 THEN c2 + 1 ELSE c2)
    BY <1>3, HandledOnGrows
  <2> QED
    BY <2>1, <2>2
<1>5. PICK o \in Nat, w \in Nat : handled["old"] = o /\ handled["new"] = w /\ o = c1 /\ w = c2
  BY <1>2, <1>3 DEF Work
<1>6. handled \in [{"old", "new"} -> Nat]
  BY DEF Work, WorkTyped
<1>7. /\ handled'["old"] = (IF version = 1 THEN o + 1 ELSE o)
      /\ handled'["new"] = (IF version = 2 THEN w + 1 ELSE w)
      /\ handled' \in [{"old", "new"} -> Nat]
  <2>1. CASE version = 1
    BY <1>5, <1>6, <2>1
  <2>2. CASE version = 2
    BY <1>5, <1>6, <2>2
  <2> QED
    BY <2>1, <2>2
<1>8. PICK m \in Nat : m = Len(d) /\ DOMAIN d = 1..m
  OBVIOUS
<1>9. /\ done' \in Seq(Handlings) /\ Len(done') = m + 1 /\ DOMAIN done' = 1..(m + 1)
      /\ done'[m + 1] = h /\ \A i \in 1..m : done'[i] = d[i]
  BY <1>1, <1>2, <1>8
<1>10. total' = Len(done')
  BY <1>2, <1>8, <1>9 DEF Work
<1>11. ~lost' => \A i \in DOMAIN done' : done'[i].version = done'[i].epoch
  <2> SUFFICES ASSUME ~lost, NEW i \in 1..(m + 1) PROVE done'[i].version = done'[i].epoch
    BY <1>9
  <2>1. CASE i = m + 1
    BY <1>1, <1>9, <2>1
  <2>2. CASE i \in 1..m
    BY <1>2, <1>8, <1>9, <2>2 DEF Work
  <2>3. i = m + 1 \/ i \in 1..m
    OBVIOUS
  <2> QED
    BY <2>1, <2>2, <2>3
<1>12. parked' \in 0..Parked /\ serving' \in -1..(Parked - 1) /\ total' \in Nat
  BY MailboxConstants DEF Work, WorkTyped
<1>13. WorkTyped'
  BY <1>7, <1>9, <1>12 DEF WorkTyped
<1> QED
  BY <1>3, <1>4, <1>5, <1>7, <1>10, <1>11, <1>13 DEF Work

\* A message is worked on; the last tick of it handles it.
LEMMA HandleKeeps ==
  ASSUME Before, NEW q, NEW n, Arrived(q, n), Mailbox!Handle(q)
  PROVE  MailboxKept'
<1>1. /\ up /\ ~migrating /\ q # <<>> /\ Head(q) # Mailbox!Marker
      /\ \/ /\ service + 1 < ServiceS /\ service' = service + 1 /\ serving' \in Mailbox!Resumed
            /\ queue' = q /\ UNCHANGED <<total, handled, parked, done>>
         \/ /\ service' = 0 /\ serving' = -1 /\ queue' = Tail(q) /\ total' = total + 1
            /\ handled' = [handled EXCEPT ![IF version = 1 THEN "old" ELSE "new"] = @ + 1]
            /\ parked' = (IF parked < Parked THEN parked + 1 ELSE parked)
            /\ done' = Append(done, [epoch |-> Head(q).epoch, version |-> version])
      /\ UNCHANGED <<version, migrating, migrateLeft, held, up, downFor, restarts>>
  BY DEF Mailbox!Handle, Mailbox!AtMarker, Mailbox!migrateVars, Mailbox!lifeVars
<1>2. /\ UNCHANGED <<epoch, deployed, holds, lost>> /\ arrived' = arrived + n
  BY DEF Arrived
<1>3. /\ q \in Seq(Mail) /\ Len(q) = Len(queue) + n /\ QueueShape(q, Marked, epoch)
      /\ queue # <<>> => q # <<>> /\ Head(q) = Head(queue)
      /\ n \in Nat /\ Marked \in BOOLEAN /\ epoch \in {1, 2} /\ arrived' \in Nat /\ dropped' \in Nat
  BY ArrivedFits
<1>4. ~held /\ Marked' = Marked
  BY <1>1, <1>2, <1>3 DEF Before, Phases, Marked
<1>5. PICK t \in Nat, m \in Nat, a \in Nat, s \in {0, 1} : Tally(m, t, a, s)
  BY Tallied
<1>6. CASE /\ service + 1 < ServiceS /\ service' = service + 1 /\ serving' \in Mailbox!Resumed
           /\ queue' = q /\ UNCHANGED <<total, handled, parked, done>>
  <2>1. parked \in 0..Parked /\ serving \in -1..(Parked - 1) /\ service \in 0..(ServiceS - 1)
    BY DEF Before, MailTyped, Work, WorkTyped
  <2>2. serving' = -1 \/ (serving' \in 0..(parked - 1)) \/ (serving >= 0 /\ serving' = serving)
    BY <1>6, <2>1, MailboxConstants DEF Mailbox!Resumed
  <2>3. serving' \in -1..(Parked - 1) /\ (serving' >= 0 => serving' < parked)
    BY <2>1, <2>2, MailboxConstants DEF Before, Phases
  <2>4. MailTyped'
    <3>1. service' \in 0..(ServiceS - 1)
      BY <1>6, <2>1, MailboxConstants
    <3> QED
      BY <1>1, <1>2, <1>3, <1>6, <3>1 DEF Before, MailTyped
  <2>5. Work'
    BY <1>2, <1>6, <2>3, WorkStays DEF Before
  <2>6. Phases'
    BY <1>1, <1>2, <1>4, <1>6, <2>3 DEF Before, Phases
  <2>7. Changed(m, t, a, s, n, 0, s)
    BY <1>1, <1>2, <1>3, <1>4, <1>5, <1>6 DEF Tally, Changed
  <2>8. Counted'
    BY <1>3, <1>5, <2>7, CountedStays
  <2> QED
    BY <1>2, <1>3, <1>4, <1>6, <2>4, <2>5, <2>6, <2>8, MailboxPartsAfter
<1>7. CASE /\ service' = 0 /\ serving' = -1 /\ queue' = Tail(q) /\ total' = total + 1
           /\ handled' = [handled EXCEPT ![IF version = 1 THEN "old" ELSE "new"] = @ + 1]
           /\ parked' = (IF parked < Parked THEN parked + 1 ELSE parked)
           /\ done' = Append(done, [epoch |-> Head(q).epoch, version |-> version])
  <2>1. /\ Tail(q) \in Seq(Mail) /\ Len(Tail(q)) = Len(q) - 1 /\ QueueShape(Tail(q), Marked, epoch)
    BY <1>1, <1>3, ShapeTail
  <2>2. PICK e \in {1, 2} : Head(q).epoch = e /\ (~lost => version = e)
    <3>1. Head(q) = IF Marked THEN Mailbox!Msg(1) ELSE Mailbox!Msg(epoch)
      BY <1>1, <1>3, ShapeHead
    <3>2. CASE Marked
      BY <3>1, <3>2, MailDiffers DEF Marked
    <3>3. CASE ~Marked
      <4>1. Head(q).epoch = epoch
        BY <1>3, <3>1, <3>3, MailDiffers
      <4>2. ~lost => version = epoch
        BY <3>3 DEF Marked, Before, Phases, MailTyped
      <4> QED
        BY <1>3, <4>1, <4>2
    <3> QED
      BY <3>2, <3>3
  <2>3. Work'
    <3>1. Work /\ version \in {1, 2} /\ lost' = lost
      BY <1>2 DEF Before, MailTyped
    <3>2. done' = Append(done, [epoch |-> e, version |-> version])
      BY <1>7, <2>2
    <3> QED
      BY <1>7, <2>2, <3>1, <3>2, WorkGrows
  <2>4. MailTyped'
    <3>1. service' \in 0..(ServiceS - 1)
      BY <1>7, MailboxConstants
    <3> QED
      BY <1>1, <1>2, <1>3, <1>7, <2>1, <3>1 DEF Before, MailTyped
  <2>5. Phases'
    BY <1>1, <1>2, <1>4, <1>7 DEF Before, Phases
  <2>6. Changed(m, t, a, s, n, 1, s)
    BY <1>1, <1>2, <1>3, <1>4, <1>5, <1>7, <2>1 DEF Tally, Changed
  <2>7. Counted'
    BY <1>3, <1>5, <2>6, CountedStays
  <2> QED
    BY <1>2, <1>4, <1>7, <2>1, <2>3, <2>4, <2>5, <2>7, MailboxPartsAfter
<1> QED
  BY <1>1, <1>6, <1>7

\* Nothing waits.
LEMMA IdleKeeps ==
  ASSUME Before, NEW q, NEW n, Arrived(q, n), Mailbox!Idle(q)
  PROVE  MailboxKept'
<1>1. /\ q = <<>>
      /\ UNCHANGED <<queue, version, migrating, migrateLeft, held, up, downFor, restarts,
                     service, total, handled, parked, serving, done>>
  BY DEF Mailbox!Idle, Mailbox!migrateVars, Mailbox!lifeVars, Mailbox!workVars
<1>2. /\ UNCHANGED <<epoch, deployed, holds, lost>> /\ arrived' = arrived + n
  BY DEF Arrived
<1>3. q \in Seq(Mail) /\ Len(q) = Len(queue) + n /\ n \in Nat /\ arrived' \in Nat /\ dropped' \in Nat
  BY ArrivedFits
<1>4. n = 0 /\ arrived' = arrived
  <2>1. PICK m \in Nat, t \in Nat, a \in Nat, s \in {0, 1} : Tally(m, t, a, s)
    BY Tallied
  <2>2. m + n = 0 /\ arrived' = a + n /\ arrived = a
    BY <1>1, <1>2, <1>3, <2>1 DEF Tally
  <2> QED
    BY <1>3, <2>2
<1>5. MailTyped' /\ Phases'
  BY <1>1, <1>2, <1>3 DEF Before, MailTyped, Phases
<1>6. Work'
  BY <1>1, <1>2, WorkStays DEF Before, Work, WorkTyped
<1>7. Counted' /\ Marked' = Marked
  BY <1>1, <1>2, <1>4 DEF Before, Counted, Marked
<1> QED
  BY <1>1, <1>2, <1>5, <1>6, <1>7, MailboxPartsAfter DEF Before

\* Every step of the mailbox keeps the invariant.
LEMMA MailboxKeeps ==
  ASSUME MailboxKept, [Mailbox!Next]_mailboxVars
  PROVE  MailboxKept'
<1>1. CASE UNCHANGED mailboxVars
  <2>1. MailTyped /\ Work /\ QueueShape(queue, Marked, epoch) /\ Phases /\ Counted
    BY MailboxParts
  <2>2. MailTyped' /\ Phases'
    BY <1>1, <2>1 DEF mailboxVars, MailTyped, Phases
  <2>3. Work'
    BY <1>1, <2>1, WorkStays DEF mailboxVars, Work, WorkTyped
  <2>4. Counted' /\ Marked' = Marked
    BY <1>1, <2>1 DEF mailboxVars, Counted, Marked
  <2> QED
    BY <1>1, <2>1, <2>2, <2>3, <2>4, MailboxPartsAfter DEF mailboxVars
<1>2. CASE Mailbox!Step
  <2>1. Before
    BY MailboxParts DEF Before
  <2>2. PICK n \in 0..Burst :
          /\ arrived + n <= MaxMessages
          /\ arrived' = arrived + n
          /\ dropped' = IF up THEN dropped ELSE dropped + n
          /\ LET q == queue \o [i \in 1..n |-> Mailbox!Msg(epoch)]
             IN \/ Mailbox!Down(q) \/ Mailbox!Migrate(q) \/ Mailbox!MeetMarker(q)
                \/ Mailbox!Handle(q) \/ Mailbox!Idle(q)
          /\ UNCHANGED <<epoch, deployed, holds, lost>>
    BY <1>2 DEF Mailbox!Step
  <2>3. PICK q : q = queue \o [i \in 1..n |-> Mailbox!Msg(epoch)]
    OBVIOUS
  <2>4. n \in Nat
    BY MailboxConstants
  <2>5. Arrived(q, n)
    BY <2>2, <2>3, <2>4 DEF Arrived
  <2>6. \/ Mailbox!Down(q) \/ Mailbox!Migrate(q) \/ Mailbox!MeetMarker(q)
        \/ Mailbox!Handle(q) \/ Mailbox!Idle(q)
    BY <2>2, <2>3
  <2> QED
    BY <2>1, <2>5, <2>6, DownKeeps, MigrateKeeps, MeetMarkerKeeps, HandleKeeps, IdleKeeps
<1> QED
  BY <1>1, <1>2, DeployKeeps, ReleaseHoldKeeps, CrashKeeps DEF Mailbox!Next

\* The queue begins with messages of the first epoch only.
LEMMA MailboxInit == Mailbox!Init => MailboxKept
<1> SUFFICES ASSUME Mailbox!Init PROVE MailboxKept
  OBVIOUS
<1>1. /\ queue = [i \in 1..Backlog |-> Mailbox!Msg(1)] /\ service = 0
      /\ version = 1 /\ epoch = 1 /\ deployed = FALSE /\ migrating = FALSE /\ migrateLeft = 0
      /\ held = FALSE /\ holds \in BOOLEAN /\ up = TRUE /\ downFor = 0 /\ restarts = 0
      /\ total = 0 /\ handled = [old |-> 0, new |-> 0] /\ parked = Parked /\ serving = -1
      /\ dropped = 0 /\ arrived = 0 /\ done = <<>> /\ lost = FALSE
  BY DEF Mailbox!Init
<1>2. /\ queue \in Seq(Mail) /\ Len(queue) = Backlog
      /\ \A i \in DOMAIN queue : queue[i] = Mailbox!Msg(1)
  BY <1>1, MailboxConstants DEF Mail
<1>3. MailTyped
  <2>1. /\ 0 \in 0..(ServiceS - 1) /\ 0 \in 0..(RestartS - 1)
        /\ 0 \in 0..MigrateS /\ 0 \in 0..MaxCrashes /\ 0 \in Nat
    BY MailboxConstants
  <2>2. /\ deployed \in BOOLEAN /\ migrating \in BOOLEAN /\ held \in BOOLEAN
        /\ holds \in BOOLEAN /\ up \in BOOLEAN /\ lost \in BOOLEAN
    BY <1>1
  <2>3. version \in {1, 2} /\ epoch \in {1, 2}
    BY <1>1
  <2> QED
    BY <1>1, <1>2, <2>1, <2>2, <2>3 DEF MailTyped
<1>4. Work
  <2>1. done \in Seq(Handlings) /\ Len(done) = 0 /\ DOMAIN done = {}
    BY <1>1
  <2>2. WorkTyped
    BY <1>1, <2>1, MailboxConstants DEF WorkTyped
  <2>3. handled["old"] = 0 /\ handled["new"] = 0
    BY <1>1
  <2> QED
    BY <1>1, <2>1, <2>2, <2>3, HandledOnNone, FS_EmptySet DEF Work
<1>5. Marked = FALSE /\ Phases
  BY <1>1 DEF Marked, Phases
<1>6. QueueShape(queue, Marked, epoch) /\ Counted
  BY <1>1, <1>2, <1>5, MailboxConstants DEF QueueShape, Counted
<1> QED
  BY <1>3, <1>4, <1>5, <1>6, MailboxParts

\* What the mailbox promises of its queue, from the queue's shape: where the
\* marker is, the order of the epochs, how many messages wait.
Markers(q) == {i \in DOMAIN q : q[i] = Mailbox!Marker}
Messages(q) == {i \in DOMAIN q : q[i].kind = "msg"}

\* A queue of this shape has a marker if one is due, and is sorted by epoch.
LEMMA ShapeCounts ==
  ASSUME NEW q \in Seq(Mail), NEW b \in BOOLEAN, NEW e \in {1, 2}, QueueShape(q, b, e)
  PROVE  /\ Cardinality(Markers(q)) = (IF b THEN 1 ELSE 0)
         /\ Cardinality(Messages(q)) = Len(q) - (IF b THEN 1 ELSE 0)
         /\ \A i, j \in DOMAIN q : i < j => q[i].epoch <= q[j].epoch
<1>1. PICK m \in Nat : m = Len(q) /\ DOMAIN q = 1..m
  OBVIOUS
<1>2. IsFiniteSet(1..m) /\ Cardinality(1..m) = m
  <2>1. /\ IsFiniteSet(1..m) /\ Cardinality(1..m) = IF 1 > m THEN 0 ELSE m - 1 + 1
    BY FS_Interval
  <2> QED
    BY <2>1
<1>3. CASE ~b
  <2>1. \A i \in 1..m : q[i] = Mailbox!Msg(e)
    BY <1>1, <1>3 DEF QueueShape
  <2>2. \A i \in 1..m : q[i] # Mailbox!Marker /\ q[i].kind = "msg" /\ q[i].epoch = e
    BY <2>1, MailDiffers
  <2>3. Markers(q) = {} /\ Messages(q) = 1..m
    BY <1>1, <2>2 DEF Markers, Messages
  <2>4. Cardinality(Markers(q)) = 0 /\ Cardinality(Messages(q)) = m
    BY <1>2, <2>3, FS_EmptySet
  <2> QED
    BY <1>1, <1>3, <2>2, <2>4
<1>4. CASE b
  <2>1. PICK k \in 1..m : Divided(q, k)
    BY <1>1, <1>4 DEF QueueShape
  <2>2. \A i \in 1..m :
          /\ q[i] = Mailbox!Marker <=> i = k
          /\ q[i].kind = "msg" <=> i # k
          /\ q[i].epoch = IF i < k THEN 1 ELSE 2
    BY <1>1, <2>1, MailDiffers DEF Divided
  <2>3. Markers(q) = {k} /\ Messages(q) = (1..m) \ {k}
    BY <1>1, <2>2 DEF Markers, Messages
  <2>4. Cardinality(Markers(q)) = 1
    BY <2>3, FS_Singleton
  <2>5. Cardinality(Messages(q)) = m - 1
    BY <1>2, <2>3, FS_RemoveElement
  <2>6. \A i, j \in 1..m : i < j => q[i].epoch <= q[j].epoch
    BY <2>2
  <2> QED
    BY <1>1, <1>4, <2>4, <2>5, <2>6
<1> QED
  BY <1>3, <1>4

\* The invariant says more than the property.
LEMMA MailboxKeptIsOK == MailboxKept => Mailbox!MailboxOK
<1> SUFFICES ASSUME MailboxKept PROVE Mailbox!MailboxOK
  OBVIOUS
<1>1. MailTyped /\ Work /\ QueueShape(queue, Marked, epoch) /\ Phases /\ Counted
  BY MailboxParts
<1>2. Mailbox!TypeOK /\ Mailbox!HandledByItsCode /\ Mailbox!CountsWhatItHandled
  BY DEF MailboxKept
<1>3. PICK b \in BOOLEAN, e \in {1, 2}, r \in Seq(Mail) : b = Marked /\ e = epoch /\ r = queue
  BY <1>1 DEF MailTyped, Marked
<1>4. r \in Seq(Mail) /\ QueueShape(r, b, e)
  BY <1>1, <1>3 DEF MailTyped
<1>5. /\ Cardinality(Markers(r)) = (IF b THEN 1 ELSE 0)
      /\ Cardinality(Messages(r)) = Len(r) - (IF b THEN 1 ELSE 0)
      /\ \A i, j \in DOMAIN r : i < j => r[i].epoch <= r[j].epoch
  BY <1>4, ShapeCounts
<1>6. Mailbox!MarkerParts
  <2>1. Mailbox!Cardinality({i \in DOMAIN queue : queue[i] = Mailbox!Marker})
          = (IF deployed /\ version = 1 /\ ~lost THEN 1 ELSE 0)
    BY <1>3, <1>5, CountsAlike DEF Markers, Marked
  <2>2. migrating \/ held => queue # <<>> /\ Head(queue) = Mailbox!Marker
    BY <1>1 DEF Phases
  <2> QED
    BY <1>3, <1>5, <2>1, <2>2 DEF Mailbox!MarkerParts
<1>7. Mailbox!ResumesAParkedSession
  BY <1>1 DEF Phases, Mailbox!ResumesAParkedSession
<1>8. Mailbox!NothingLost
  <2> SUFFICES ASSUME restarts = 0, up
               PROVE  Backlog + arrived
                        = total + Mailbox!Cardinality({i \in DOMAIN queue : queue[i].kind = "msg"})
    BY DEF Mailbox!NothingLost
  <2>1. Mailbox!Cardinality({i \in DOMAIN queue : queue[i].kind = "msg"}) = Cardinality(Messages(r))
    BY <1>3, CountsAlike DEF Messages
  <2>2. PICK m \in Nat, t \in Nat, s \in {0, 1} :
          m = Len(r) /\ t = total /\ s = (IF b THEN 1 ELSE 0)
    <3>1. Len(r) \in Nat /\ total \in Nat
      BY <1>1, <1>4 DEF Work, WorkTyped
    <3>2. (IF b THEN 1 ELSE 0) \in {0, 1}
      OBVIOUS
    <3> QED
      BY <3>1, <3>2
  <2>3. Backlog + arrived = t + m - s
    BY <1>1, <1>3, <2>2 DEF Counted
  <2>4. Cardinality(Messages(r)) = m - s
    BY <1>5, <2>2
  <2> QED
    BY <2>1, <2>2, <2>3, <2>4
<1> QED
  BY <1>2, <1>6, <1>7, <1>8 DEF Mailbox!MailboxOK

-------------------------------------------------------------------------------
(* The heap: its tree.  2m is the last of its cells, m the number of those *)
(* that have children.                                                     *)

\* The heap's module counts as this one does.
LEMMA HeapCounts == \A S : Heap!Cardinality(S) = Cardinality(S)
BY DEF Heap!Cardinality, Cardinality

PowerIs(f, n) == f = [k \in 0..n |-> IF k = 0 THEN 1 ELSE 2 * f[k - 1]]

\* The powers of two up to the nth.
LEMMA PowerExists == ASSUME NEW n \in Nat PROVE \E f : PowerIs(f, n)
<1> DEFINE S == {k \in Nat : \E f : PowerIs(f, k)}
<1>1. 0 \in S
  <2>1. PowerIs([k \in 0..0 |-> 1], 0)
    BY DEF PowerIs
  <2> QED
    BY <2>1
<1>2. ASSUME NEW k \in Nat, k \in S PROVE k + 1 \in S
  <2>1. PICK f : PowerIs(f, k)
    BY <1>2
  <2> DEFINE h == [j \in 0..(k + 1) |-> IF j = 0 THEN 1 ELSE 2 * f[j - 1]]
  <2>2. \A j \in 0..k : h[j] = f[j]
    BY <2>1 DEF PowerIs
  <2>3. \A j \in 0..(k + 1) : j # 0 => f[j - 1] = h[j - 1]
    <3> HIDE DEF h
    <3> QED
      BY <2>2
  <2>4. h = [j \in 0..(k + 1) |-> IF j = 0 THEN 1 ELSE 2 * h[j - 1]]
    BY <2>3
  <2>5. PowerIs(h, k + 1)
    BY <2>4 DEF PowerIs
  <2> QED
    BY <2>5
<1> HIDE DEF S
<1>3. Nat \subseteq S
  BY <1>1, <1>2, OnNaturals
<1> QED
  BY <1>3 DEF S

\* Each is twice the one before it.
LEMMA PowersAre ==
  ASSUME NEW n \in Nat, NEW f, PowerIs(f, n)
  PROVE  \A k \in 0..n : f[k] \in Nat /\ f[k] >= 1 /\ (k # 0 => f[k] = 2 * f[k - 1])
<1> DEFINE S == {k \in Nat : k <= n => f[k] \in Nat /\ f[k] >= 1}
<1>1. \A k \in 0..n : f[k] = IF k = 0 THEN 1 ELSE 2 * f[k - 1]
  BY DEF PowerIs
<1>2. 0 \in S
  BY <1>1
<1>3. ASSUME NEW k \in Nat, k \in S PROVE k + 1 \in S
  <2> SUFFICES ASSUME k + 1 <= n PROVE f[k + 1] \in Nat /\ f[k + 1] >= 1
    OBVIOUS
  <2>1. f[k] \in Nat /\ f[k] >= 1
    BY <1>3
  <2>2. f[k + 1] = 2 * f[k]
    BY <1>1
  <2> QED
    BY <2>1, <2>2
<1> HIDE DEF S
<1>4. Nat \subseteq S
  BY <1>2, <1>3, OnNaturals
<1> QED
  BY <1>1, <1>4 DEF S

\* One cell, and two for each that has children.
LEMMA CellsAre ==
  ASSUME depth \in Depths
  PROVE  \E m \in Nat \ {0} : Heap!Cells = 0..(2 * m)
<1> DEFINE f == CHOOSE g : PowerIs(g, depth + 1)
<1>1. depth \in Nat /\ depth >= 1
  BY FiguresAssumption DEF Heap!HeapAssumption
<1>2. PowerIs(f, depth + 1)
  BY <1>1, PowerExists
<1>3. Heap!CellCount(depth) = f[depth + 1] - 1
  BY DEF Heap!CellCount, PowerIs
<1> HIDE DEF f
<1>4. \A k \in 0..(depth + 1) : f[k] \in Nat /\ f[k] >= 1 /\ (k # 0 => f[k] = 2 * f[k - 1])
  BY <1>1, <1>2, PowersAre
<1>5. f[depth + 1] = 2 * f[depth] /\ f[depth] = 2 * f[depth - 1] /\ f[depth - 1] \in Nat /\ f[depth - 1] >= 1
  BY <1>1, <1>4
<1>6. f[depth] - 1 \in Nat \ {0} /\ Heap!CellCount(depth) - 1 = 2 * (f[depth] - 1)
  BY <1>3, <1>5
<1> QED
  BY <1>6 DEF Heap!Cells

\* Parents come before their children, and children are where they are.
LEMMA ParentIs ==
  /\ \A k \in Nat \ {0} : Heap!Parent(k) \in Nat /\ Heap!Parent(k) < k
  /\ \A k \in Nat : Heap!Parent(2 * k + 1) = k /\ Heap!Parent(2 * k + 2) = k
  /\ \A k \in Nat \ {0} : \/ k = 2 * Heap!Parent(k) + 1 /\ k % 2 = 1
                          \/ k = 2 * Heap!Parent(k) + 2 /\ k % 2 = 0
BY DEF Heap!Parent

AboveIs(u, C) == u = [k \in C |-> {k} \cup (IF k = 0 THEN {} ELSE u[Heap!Parent(k)])]

\* The cells above each cell: there is such a function.
LEMMA AboveExists == ASSUME NEW n \in Nat PROVE \E u : AboveIs(u, 0..n)
<1> DEFINE S == {k \in Nat : \E u : AboveIs(u, 0..k)}
<1>1. 0 \in S
  <2>1. AboveIs([k \in 0..0 |-> {0}], 0..0)
    BY DEF AboveIs
  <2> QED
    BY <2>1
<1>2. ASSUME NEW k \in Nat, k \in S PROVE k + 1 \in S
  <2>1. PICK u : AboveIs(u, 0..k)
    BY <1>2
  <2> DEFINE h == [j \in 0..(k + 1) |-> {j} \cup (IF j = 0 THEN {} ELSE u[Heap!Parent(j)])]
  <2>2. \A j \in 0..k : h[j] = u[j]
    <3> SUFFICES ASSUME NEW j \in 0..k PROVE h[j] = u[j]
      OBVIOUS
    <3>1. u[j] = {j} \cup (IF j = 0 THEN {} ELSE u[Heap!Parent(j)])
      BY <2>1 DEF AboveIs
    <3>2. j \in 0..(k + 1)
      OBVIOUS
    <3> QED
      BY <3>1, <3>2, Zenon
  <2> HIDE DEF h
  <2>3. \A j \in 0..(k + 1) : j # 0 => u[Heap!Parent(j)] = h[Heap!Parent(j)]
    <3> SUFFICES ASSUME NEW j \in 0..(k + 1), j # 0 PROVE u[Heap!Parent(j)] = h[Heap!Parent(j)]
      OBVIOUS
    <3>1. Heap!Parent(j) \in Nat /\ Heap!Parent(j) < j
      BY ParentIs
    <3>2. Heap!Parent(j) \in 0..k
      BY <3>1
    <3> QED
      BY <2>2, <3>2
  <2>4. \A j \in 0..(k + 1) : (IF j = 0 THEN {} ELSE u[Heap!Parent(j)]) = (IF j = 0 THEN {} ELSE h[Heap!Parent(j)])
    BY <2>3
  <2>5. h = [j \in 0..(k + 1) |-> {j} \cup (IF j = 0 THEN {} ELSE h[Heap!Parent(j)])]
    BY <2>4, Zenon DEF h
  <2>6. AboveIs(h, 0..(k + 1))
    BY <2>5 DEF AboveIs
  <2> QED
    BY <2>6
<1> HIDE DEF S
<1>3. Nat \subseteq S
  BY <1>1, <1>2, OnNaturals
<1> QED
  BY <1>3 DEF S

Above(C) == CHOOSE u : AboveIs(u, C)

UnderIn(C, i) == {k \in C : i \in Above(C)[k]}

\* What is under a cell is what it is above.
LEMMA UnderAlike == \A i : Heap!Under(i) = UnderIn(Heap!Cells, i)
BY DEF Heap!Under, UnderIn, Above, AboveIs

\* What is above a cell: itself, and what is above its parent.
LEMMA AboveHas ==
  ASSUME NEW n \in Nat, NEW k \in 0..n
  PROVE  /\ Above(0..n)[k] = {k} \cup (IF k = 0 THEN {} ELSE Above(0..n)[Heap!Parent(k)])
         /\ k # 0 => Heap!Parent(k) \in 0..n
<1>1. AboveIs(Above(0..n), 0..n)
  BY AboveExists DEF Above
<1>2. k # 0 => Heap!Parent(k) \in 0..n
  BY ParentIs
<1> QED
  BY <1>1, <1>2 DEF AboveIs

\* The root is above every cell; nothing is above a cell that comes after it; and
\* who is above a cell, but not the cell, has a child above it.
LEMMA AboveIsTree ==
  ASSUME NEW n \in Nat
  PROVE  \A k \in 0..n :
           /\ 0 \in Above(0..n)[k] /\ k \in Above(0..n)[k]
           /\ \A i \in Above(0..n)[k] :
                 /\ i \in 0..k
                 /\ i # k => 2 * i + 1 \in Above(0..n)[k] \/ 2 * i + 2 \in Above(0..n)[k]
<1> DEFINE A(k) == Above(0..n)[k]
           Has(k) == /\ 0 \in A(k) /\ k \in A(k)
                     /\ \A i \in A(k) : i \in 0..k /\ (i # k => 2 * i + 1 \in A(k) \/ 2 * i + 2 \in A(k))
           S == {k \in Nat : \A j \in 0..k : j <= n => Has(j)}
<1>1. \A k \in 0..n : A(k) = {k} \cup (IF k = 0 THEN {} ELSE A(Heap!Parent(k)))
  BY AboveHas
<1> HIDE DEF A
<1>2. Has(0)
  <2>1. A(0) = {0}
    BY <1>1
  <2> QED
    BY <2>1
<1>3. 0 \in S
  BY <1>2
<1>4. ASSUME NEW k \in Nat, k \in S PROVE k + 1 \in S
  <2>1. \A j \in 0..k : j <= n => Has(j)
    BY <1>4
  <2> SUFFICES ASSUME k + 1 <= n PROVE Has(k + 1)
    <3> HIDE DEF Has
    <3>1. \A j \in 0..(k + 1) : j \in 0..k \/ j = k + 1
      OBVIOUS
    <3> QED
      BY <2>1, <3>1
  <2> DEFINE p == Heap!Parent(k + 1)
  <2>2. p \in 0..k /\ p <= n /\ (k + 1 = 2 * p + 1 \/ k + 1 = 2 * p + 2)
    <3>1. k + 1 \in Nat \ {0}
      OBVIOUS
    <3>2. p \in Nat /\ p < k + 1 /\ (k + 1 = 2 * p + 1 \/ k + 1 = 2 * p + 2)
      BY <3>1, ParentIs
    <3> QED
      BY <3>2
  <2>3. Has(p)
    BY <2>1, <2>2
  <2>4. A(k + 1) = {k + 1} \cup A(p)
    BY <1>1
  <2> HIDE DEF p
  <2>5. 0 \in A(k + 1) /\ k + 1 \in A(k + 1)
    BY <2>3, <2>4
  <2>6. ASSUME NEW i \in A(k + 1)
        PROVE  i \in 0..(k + 1) /\ (i # k + 1 => 2 * i + 1 \in A(k + 1) \/ 2 * i + 2 \in A(k + 1))
    <3>1. CASE i = k + 1
      BY <3>1
    <3>2. CASE i # k + 1
      <4>1. i \in A(p) /\ i \in 0..p
        BY <2>3, <2>4, <3>2
      <4>2. CASE i = p
        BY <2>2, <2>5, <4>2
      <4>3. CASE i # p
        BY <2>2, <2>3, <2>4, <4>1, <4>3
      <4> QED
        BY <4>2, <4>3
    <3> QED
      BY <3>1, <3>2
  <2> QED
    BY <2>5, <2>6
<1> HIDE DEF S
<1>5. Nat \subseteq S
  BY <1>3, <1>4, OnNaturals
<1>6. \A k \in 0..n : Has(k)
  <2> SUFFICES ASSUME NEW k \in 0..n PROVE Has(k)
    OBVIOUS
  <2>1. k \in S /\ k \in 0..k
    BY <1>5
  <2> HIDE DEF Has
  <2> QED
    BY <2>1 DEF S
<1> QED
  BY <1>6 DEF A

\* Of two cells above a third the first is above the other.
LEMMA AboveIsChain ==
  ASSUME NEW n \in Nat
  PROVE  \A k \in 0..n : \A a, b \in Above(0..n)[k] : a <= b => a \in Above(0..n)[b]
<1> DEFINE A(k) == Above(0..n)[k]
           Has(k) == \A a, b \in A(k) : a <= b => a \in A(b)
           S == {k \in Nat : \A j \in 0..k : j <= n => Has(j)}
<1>1. \A k \in 0..n : A(k) = {k} \cup (IF k = 0 THEN {} ELSE A(Heap!Parent(k)))
  BY AboveHas
<1>2. \A k \in 0..n : \A i \in A(k) : i \in 0..k
  BY AboveIsTree
<1> HIDE DEF A
<1>3. 0 \in S
  <2>1. A(0) = {0}
    BY <1>1
  <2> QED
    BY <2>1
<1>4. ASSUME NEW k \in Nat, k \in S PROVE k + 1 \in S
  <2>1. \A j \in 0..k : j <= n => Has(j)
    BY <1>4
  <2> SUFFICES ASSUME k + 1 <= n PROVE Has(k + 1)
    <3> HIDE DEF Has
    <3>1. \A j \in 0..(k + 1) : j \in 0..k \/ j = k + 1
      OBVIOUS
    <3> QED
      BY <2>1, <3>1
  <2> DEFINE p == Heap!Parent(k + 1)
  <2>2. p \in 0..k /\ p <= n
    <3>1. k + 1 \in Nat \ {0}
      OBVIOUS
    <3>2. p \in Nat /\ p < k + 1
      BY <3>1, ParentIs
    <3> QED
      BY <3>2
  <2>3. Has(p)
    BY <2>1, <2>2
  <2>4. A(k + 1) = {k + 1} \cup A(p)
    BY <1>1
  <2> HIDE DEF p
  <2> SUFFICES ASSUME NEW a \in A(k + 1), NEW b \in A(k + 1), a <= b PROVE a \in A(b)
    OBVIOUS
  <2>5. CASE b = k + 1
    BY <2>5
  <2>6. CASE b # k + 1
    <3>1. b \in A(p) /\ b \in 0..p
      BY <1>2, <2>2, <2>4, <2>6
    <3>2. a # k + 1
      BY <2>2, <3>1
    <3>3. a \in A(p)
      BY <2>4, <3>2
    <3> QED
      BY <2>3, <3>1, <3>3
  <2> QED
    BY <2>5, <2>6
<1> HIDE DEF S
<1>5. Nat \subseteq S
  BY <1>3, <1>4, OnNaturals
<1>6. \A k \in 0..n : Has(k)
  <2> SUFFICES ASSUME NEW k \in 0..n PROVE Has(k)
    OBVIOUS
  <2>1. k \in S /\ k \in 0..k
    BY <1>5
  <2> HIDE DEF Has
  <2> QED
    BY <2>1 DEF S
<1> QED
  BY <1>6 DEF A

\* Who is above a cell that is above a third is above that.
LEMMA Upwards ==
  ASSUME NEW n \in Nat
  PROVE  \A k \in 0..n : \A c \in Above(0..n)[k] : \A i \in Above(0..n)[c] : i \in Above(0..n)[k]
<1> DEFINE A(k) == Above(0..n)[k]
           Has(k) == \A c \in A(k) : \A i \in A(c) : i \in A(k)
           S == {k \in Nat : \A j \in 0..k : j <= n => Has(j)}
<1>1. \A k \in 0..n : A(k) = {k} \cup (IF k = 0 THEN {} ELSE A(Heap!Parent(k)))
  BY AboveHas
<1> HIDE DEF A
<1>3. 0 \in S
  <2>1. A(0) = {0}
    BY <1>1
  <2> QED
    BY <2>1
<1>4. ASSUME NEW k \in Nat, k \in S PROVE k + 1 \in S
  <2>1. \A j \in 0..k : j <= n => Has(j)
    BY <1>4
  <2> SUFFICES ASSUME k + 1 <= n PROVE Has(k + 1)
    <3> HIDE DEF Has
    <3>1. \A j \in 0..(k + 1) : j \in 0..k \/ j = k + 1
      OBVIOUS
    <3> QED
      BY <2>1, <3>1
  <2> DEFINE p == Heap!Parent(k + 1)
  <2>2. p \in 0..k /\ p <= n
    <3>1. k + 1 \in Nat \ {0}
      OBVIOUS
    <3>2. p \in Nat /\ p < k + 1
      BY <3>1, ParentIs
    <3> QED
      BY <3>2
  <2>3. Has(p)
    BY <2>1, <2>2
  <2>4. A(k + 1) = {k + 1} \cup A(p)
    BY <1>1
  <2> HIDE DEF p
  <2> QED
    BY <2>3, <2>4
<1> HIDE DEF S
<1>5. Nat \subseteq S
  BY <1>3, <1>4, OnNaturals
<1>6. \A k \in 0..n : Has(k)
  <2> SUFFICES ASSUME NEW k \in 0..n PROVE Has(k)
    OBVIOUS
  <2>1. k \in S /\ k \in 0..k
    BY <1>5
  <2> HIDE DEF Has
  <2> QED
    BY <2>1 DEF S
<1> QED
  BY <1>6 DEF A

\* A subtree is its root and the subtrees of the root's children, which share nothing.
LEMMA UnderIs ==
  ASSUME NEW m \in Nat \ {0}, NEW i \in 0..(2 * m)
  PROVE  /\ i \in UnderIn(0..(2 * m), i)
         /\ UnderIn(0..(2 * m), i) \subseteq i..(2 * m)
         /\ UnderIn(0..(2 * m), 0) = 0..(2 * m)
         /\ i >= m => UnderIn(0..(2 * m), i) = {i}
         /\ i < m =>
              /\ UnderIn(0..(2 * m), i)
                   = {i} \cup UnderIn(0..(2 * m), 2 * i + 1) \cup UnderIn(0..(2 * m), 2 * i + 2)
              /\ UnderIn(0..(2 * m), 2 * i + 1) \cap UnderIn(0..(2 * m), 2 * i + 2) = {}
<1> DEFINE n == 2 * m
           A(k) == Above(0..n)[k]
           U(j) == UnderIn(0..n, j)
<1>1. n \in Nat
  OBVIOUS
<1>2. \A k \in 0..n :
        /\ 0 \in A(k) /\ k \in A(k)
        /\ \A j \in A(k) : j \in 0..k /\ (j # k => 2 * j + 1 \in A(k) \/ 2 * j + 2 \in A(k))
  BY <1>1, AboveIsTree
<1>3. \A k \in 0..n : \A a, b \in A(k) : a <= b => a \in A(b)
  BY <1>1, AboveIsChain
<1>4. \A k, j : k \in U(j) <=> k \in 0..n /\ j \in A(k)
  BY DEF UnderIn
<1> HIDE DEF A, U
<1>5. i \in U(i) /\ U(i) \subseteq i..n /\ U(0) = 0..n
  <2>1. i \in U(i)
    BY <1>2, <1>4
  <2>2. ASSUME NEW k \in U(i) PROVE k \in i..n
    <3>1. k \in 0..n /\ i \in 0..k
      BY <1>2, <1>4
    <3> QED
      BY <3>1
  <2>3. \A k : k \in U(0) <=> k \in 0..n
    BY <1>2, <1>4
  <2> QED
    BY <2>1, <2>2, <2>3
<1>6. i >= m => U(i) = {i}
  <2> SUFFICES ASSUME i >= m, NEW k \in U(i), k # i PROVE FALSE
    BY <1>5
  <2>1. k \in 0..n /\ (2 * i + 1 \in A(k) \/ 2 * i + 2 \in A(k))
    BY <1>2, <1>4
  <2>2. 2 * i + 1 \in 0..k \/ 2 * i + 2 \in 0..k
    BY <1>2, <2>1
  <2> QED
    BY <2>1, <2>2
<1>7. ASSUME i < m PROVE U(i) = {i} \cup U(2 * i + 1) \cup U(2 * i + 2) /\ U(2 * i + 1) \cap U(2 * i + 2) = {}
  <2>1. 2 * i + 1 \in 0..n /\ 2 * i + 2 \in 0..n
    BY <1>7
  <2>2. A(2 * i + 1) = {2 * i + 1} \cup A(i) /\ A(2 * i + 2) = {2 * i + 2} \cup A(i)
    <3>1. Heap!Parent(2 * i + 1) = i /\ Heap!Parent(2 * i + 2) = i
      BY ParentIs
    <3>2. 2 * i + 1 # 0 /\ 2 * i + 2 # 0
      OBVIOUS
    <3> QED
      BY <1>1, <2>1, <3>1, <3>2, AboveHas DEF A
  <2>3. ASSUME NEW k \in U(i) PROVE k = i \/ k \in U(2 * i + 1) \/ k \in U(2 * i + 2)
    BY <1>2, <1>4
  <2>4. ASSUME NEW k, k \in U(2 * i + 1) \/ k \in U(2 * i + 2) PROVE k \in U(i)
    <3>1. PICK c \in {2 * i + 1, 2 * i + 2} : c \in A(k) /\ k \in 0..n
      BY <1>4, <2>4
    <3>2. c \in 0..n /\ i \in A(c)
      BY <1>2, <2>1, <2>2
    <3>3. i \in A(k)
      <4>1. PICK e \in Nat : e = c
        BY <3>2
      <4> QED
        BY <1>1, <3>1, <3>2, Upwards DEF A
    <3> QED
      BY <1>4, <3>1, <3>3
  <2>5. ASSUME NEW k, k \in U(2 * i + 1), k \in U(2 * i + 2) PROVE FALSE
    <3>1. 2 * i + 1 \in A(k) /\ 2 * i + 2 \in A(k) /\ k \in 0..n
      BY <1>4, <2>5
    <3>2. 2 * i + 1 \in A(2 * i + 2)
      BY <1>3, <3>1
    <3>3. 2 * i + 1 \in A(i)
      BY <2>2, <3>2
    <3>4. 2 * i + 1 \in 0..i
      BY <1>2, <3>3
    <3> QED
      BY <3>4
  <2>6. U(i) = {i} \cup U(2 * i + 1) \cup U(2 * i + 2)
    BY <1>5, <2>3, <2>4
  <2> QED
    BY <2>5, <2>6
<1> QED
  BY <1>5, <1>6, <1>7 DEF U

-------------------------------------------------------------------------------
(* The heap: the walk.                                                     *)

WalkIs(w, m, C) ==
  w = [k \in C |-> IF k < m THEN <<k>> \o w[2 * k + 1] \o w[2 * k + 2] ELSE <<k>>]

\* The walk from each cell: there is such a function.
LEMMA WalkExists == ASSUME NEW m \in Nat \ {0} PROVE \E w : WalkIs(w, m, 0..(2 * m))
<1> DEFINE n == 2 * m
           S == {k \in Nat : k <= n => \E w : WalkIs(w, m, (n - k)..n)}
<1>1. n \in Nat /\ n >= m
  OBVIOUS
<1> HIDE DEF n
<1>2. 0 \in S
  <2> DEFINE w == [k \in (n - 0)..n |-> <<k>>]
  <2>1. \A k \in (n - 0)..n : <<k>> = IF k < m THEN <<k>> \o w[2 * k + 1] \o w[2 * k + 2] ELSE <<k>>
    <3>1. \A k \in (n - 0)..n : ~(k < m)
      BY <1>1
    <3> QED
      BY <3>1, Zenon
  <2>2. WalkIs(w, m, (n - 0)..n)
    BY <2>1 DEF WalkIs
  <2> QED
    BY <2>2
<1>3. ASSUME NEW k \in Nat, k \in S PROVE k + 1 \in S
  <2> SUFFICES ASSUME k + 1 <= n PROVE \E w : WalkIs(w, m, (n - (k + 1))..n)
    OBVIOUS
  <2>1. PICK w : WalkIs(w, m, (n - k)..n)
    BY <1>3, <1>1
  <2> DEFINE D == (n - (k + 1))..n
             Step(v, j) == IF j < m THEN <<j>> \o v[2 * j + 1] \o v[2 * j + 2] ELSE <<j>>
             h == [j \in D |-> Step(w, j)]
  <2>2. \A j \in (n - k)..n : w[j] = Step(w, j)
    BY <2>1 DEF WalkIs
  <2>3. \A j \in (n - k)..n : h[j] = w[j]
    <3>1. \A j \in (n - k)..n : j \in D
      BY <1>1
    <3> HIDE DEF D, Step
    <3> QED
      BY <2>2, <3>1
  <2> HIDE DEF h
  <2>4. \A j \in D : j < m => h[2 * j + 1] = w[2 * j + 1] /\ h[2 * j + 2] = w[2 * j + 2]
    <3> SUFFICES ASSUME NEW j \in D, j < m PROVE 2 * j + 1 \in (n - k)..n /\ 2 * j + 2 \in (n - k)..n
      BY <2>3
    <3> QED
      BY <1>1 DEF n
  <2>5. \A j \in D : Step(w, j) = Step(h, j)
    BY <2>4
  <2>6. h = [j \in D |-> Step(h, j)]
    <3> HIDE DEF Step, D
    <3> QED
      BY <2>5 DEF h
  <2>7. WalkIs(h, m, D)
    BY <2>6, Zenon DEF WalkIs
  <2> QED
    BY <2>7
<1> HIDE DEF S
<1>4. Nat \subseteq S
  BY <1>2, <1>3, OnNaturals
<1>5. n \in S /\ n - n = 0
  BY <1>1, <1>4
<1>6. \E w : WalkIs(w, m, (n - n)..n)
  BY <1>1, <1>5 DEF S
<1> QED
  BY <1>5, <1>6 DEF n

\* A tour of the subtree under i: each cell once, the parent before its children, and
\* before a right child all that is under the left one.
Tour(w, i, C) ==
  /\ w \in Seq(C) /\ w # <<>> /\ w[1] = i
  /\ \A p, q \in 1..Len(w) : w[p] = w[q] => p = q
  /\ \A k \in C : k \in UnderIn(C, i) <=> \E p \in 1..Len(w) : w[p] = k
  /\ \A p \in 2..Len(w) :
       /\ \E q \in 1..(p - 1) : w[q] = Heap!Parent(w[p])
       /\ w[p] % 2 = 0 => \A k \in UnderIn(C, w[p] - 1) : \E q \in 1..(p - 1) : w[q] = k

\* A cell, a tour of what is under its left child, one of what is under the right.
LEMMA ToursJoin ==
  ASSUME NEW m \in Nat \ {0}, NEW i \in Nat, i < m, NEW s, NEW t,
         Tour(s, 2 * i + 1, 0..(2 * m)), Tour(t, 2 * i + 2, 0..(2 * m))
  PROVE  Tour(<<i>> \o s \o t, i, 0..(2 * m))
<1> DEFINE C == 0..(2 * m)
           l == 2 * i + 1
           r == 2 * i + 2
           w == <<i>> \o s \o t
           U(j) == UnderIn(C, j)
<1>1. i \in C /\ l \in C /\ r \in C
  OBVIOUS
<1>2. /\ U(i) = {i} \cup U(l) \cup U(r) /\ U(l) \cap U(r) = {}
      /\ U(l) \subseteq l..(2 * m) /\ U(r) \subseteq r..(2 * m) /\ U(i) \subseteq C
  <2>1. U(i) = {i} \cup U(l) \cup U(r) /\ U(l) \cap U(r) = {}
    BY <1>1, UnderIs
  <2>2. U(l) \subseteq l..(2 * m) /\ U(r) \subseteq r..(2 * m)
    BY <1>1, UnderIs
  <2>3. U(i) \subseteq C
    BY DEF UnderIn
  <2> QED
    BY <2>1, <2>2, <2>3
<1>3. i \notin U(l) /\ i \notin U(r)
  BY <1>2
<1>4. Heap!Parent(l) = i /\ Heap!Parent(r) = i /\ l % 2 = 1 /\ r - 1 = l
  <2>1. Heap!Parent(l) = i /\ Heap!Parent(r) = i
    BY ParentIs
  <2>2. l % 2 = 1 /\ r - 1 = l
    OBVIOUS
  <2> QED
    BY <2>1, <2>2
<1> HIDE DEF l, r
<1>5. /\ s \in Seq(C) /\ s # <<>> /\ s[1] = l
      /\ \A p, q \in 1..Len(s) : s[p] = s[q] => p = q
      /\ \A k \in C : k \in U(l) <=> \E p \in 1..Len(s) : s[p] = k
      /\ \A p \in 2..Len(s) :
           /\ \E q \in 1..(p - 1) : s[q] = Heap!Parent(s[p])
           /\ s[p] % 2 = 0 => \A k \in U(s[p] - 1) : \E q \in 1..(p - 1) : s[q] = k
  BY DEF Tour, l, r
<1>6. /\ t \in Seq(C) /\ t # <<>> /\ t[1] = r
      /\ \A p, q \in 1..Len(t) : t[p] = t[q] => p = q
      /\ \A k \in C : k \in U(r) <=> \E p \in 1..Len(t) : t[p] = k
      /\ \A p \in 2..Len(t) :
           /\ \E q \in 1..(p - 1) : t[q] = Heap!Parent(t[p])
           /\ t[p] % 2 = 0 => \A k \in U(t[p] - 1) : \E q \in 1..(p - 1) : t[q] = k
  BY DEF Tour, l, r
<1> HIDE DEF C, U, w
<1>0. PICK a \in Nat, b \in Nat : a = Len(s) /\ b = Len(t) /\ a >= 1 /\ b >= 1
  <2>1. Len(s) \in Nat /\ Len(t) \in Nat /\ Len(s) >= 1 /\ Len(t) >= 1
    BY <1>5, <1>6
  <2> QED
    BY <2>1
<1>7. /\ w \in Seq(C) /\ Len(w) = 1 + a + b
      /\ w[1] = i
      /\ \A p \in 1..a : w[1 + p] = s[p] /\ s[p] \in C
      /\ \A p \in 1..b : w[1 + a + p] = t[p] /\ t[p] \in C
  <2>1. /\ <<i>> \in Seq(C) /\ Len(<<i>>) = 1 /\ <<i>>[1] = i /\ 1 \in 1..1
        /\ s \in Seq(C) /\ t \in Seq(C)
    BY <1>1, <1>5, <1>6
  <2> DEFINE v == <<i>> \o s
  <2>2. /\ v \in Seq(C) /\ Len(v) = Len(<<i>>) + Len(s)
        /\ \A p \in 1..Len(<<i>>) : v[p] = <<i>>[p]
        /\ \A p \in 1..Len(s) : v[Len(<<i>>) + p] = s[p]
    BY <2>1, ConcatHas
  <2>3. v[1] = i
    BY <2>1, <2>2, Zenon
  <2>4. Len(v) = 1 + a /\ \A p \in 1..a : v[1 + p] = s[p]
    BY <1>0, <2>1, <2>2
  <2>5. w = v \o t
    BY DEF w
  <2> HIDE DEF v
  <2>6. /\ w \in Seq(C) /\ Len(w) = Len(v) + Len(t)
        /\ \A p \in 1..Len(v) : w[p] = v[p]
        /\ \A p \in 1..Len(t) : w[Len(v) + p] = t[p]
    <3>1. v \in Seq(C) /\ t \in Seq(C)
      BY <2>1, <2>2
    <3> QED
      BY <2>5, <3>1, ConcatHas
  <2>7. /\ \A p \in 1..(1 + a) : w[p] = v[p]
        /\ \A p \in 1..b : w[1 + a + p] = t[p]
    BY <1>0, <2>4, <2>6
  <2>8. /\ \A p \in 1..a : 1 + p \in 1..(1 + a) /\ s[p] \in C
        /\ \A p \in 1..b : t[p] \in C
        /\ 1 \in 1..(1 + a)
    BY <1>0, <2>1
  <2>9. w \in Seq(C) /\ Len(w) = 1 + a + b
    BY <1>0, <2>4, <2>6
  <2> QED
    BY <2>3, <2>4, <2>7, <2>8, <2>9
<1>8. \A p \in 1..(1 + a + b) : \/ p = 1 /\ w[p] = i
                                \/ \E q \in 1..a : p = 1 + q /\ w[p] = s[q]
                                \/ \E q \in 1..b : p = 1 + a + q /\ w[p] = t[q]
  <2> TAKE p \in 1..(1 + a + b)
  <2>1. CASE p = 1
    BY <1>7, <2>1
  <2>2. CASE p > 1 /\ p <= 1 + a
    <3>1. p - 1 \in 1..a /\ p = 1 + (p - 1)
      BY <2>2
    <3> QED
      BY <1>7, <3>1
  <2>3. CASE p > 1 + a
    <3>1. p - 1 - a \in 1..b /\ p = 1 + a + (p - 1 - a)
      BY <2>3
    <3> QED
      BY <1>7, <3>1
  <2> QED
    BY <2>1, <2>2, <2>3
<1>9. \A p \in 1..a : s[p] \in U(l) /\ s[p] # i /\ s[p] \notin U(r)
  BY <1>0, <1>2, <1>3, <1>5, <1>7
<1>10. \A p \in 1..b : t[p] \in U(r) /\ t[p] # i /\ t[p] \notin U(l)
  BY <1>0, <1>2, <1>3, <1>6, <1>7
<1>11. \A p, q \in 1..Len(w) : w[p] = w[q] => p = q
  <2>0. Len(w) = 1 + a + b
    BY <1>7
  <2> SUFFICES ASSUME NEW p \in 1..(1 + a + b), NEW q \in 1..(1 + a + b), w[p] = w[q] PROVE p = q
    BY <2>0
  <2>1. CASE p = 1
    <3>1. w[q] = i
      BY <1>7, <2>1
    <3>2. q = 1
      BY <1>8, <1>9, <1>10, <3>1
    <3> QED
      BY <2>1, <3>2
  <2>2. CASE \E j \in 1..a : p = 1 + j
    <3>1. PICK j \in 1..a : p = 1 + j
      BY <2>2
    <3>2. w[p] = s[j] /\ s[j] # i /\ s[j] \notin U(r)
      BY <1>0, <1>7, <1>9, <3>1
    <3>3. PICK k \in 1..a : q = 1 + k /\ w[q] = s[k]
      BY <1>8, <1>10, <3>2
    <3> QED
      BY <1>5, <1>0, <1>7, <3>1, <3>2, <3>3
  <2>3. CASE \E j \in 1..b : p = 1 + a + j
    <3>1. PICK j \in 1..b : p = 1 + a + j
      BY <2>3
    <3>2. w[p] = t[j] /\ t[j] # i /\ t[j] \notin U(l)
      BY <1>0, <1>7, <1>10, <3>1
    <3>3. PICK k \in 1..b : q = 1 + a + k /\ w[q] = t[k]
      BY <1>8, <1>9, <3>2
    <3> QED
      BY <1>6, <1>0, <1>7, <3>1, <3>2, <3>3
  <2> QED
    BY <1>8, <2>1, <2>2, <2>3
<1>12. \A k \in C : k \in U(i) <=> \E p \in 1..Len(w) : w[p] = k
  <2> SUFFICES ASSUME NEW k \in C PROVE k \in U(i) <=> \E p \in 1..(1 + a + b) : w[p] = k
    BY <1>0, <1>7
  <2>1. ASSUME k = i PROVE \E p \in 1..(1 + a + b) : w[p] = k
    BY <1>0, <1>7, <2>1
  <2>2. ASSUME k \in U(l) PROVE \E p \in 1..(1 + a + b) : w[p] = k
    <3>1. PICK q \in 1..a : s[q] = k
      BY <1>5, <1>0, <1>7, <2>2
    <3>2. 1 + q \in 1..(1 + a + b) /\ w[1 + q] = k
      BY <1>0, <1>7, <3>1
    <3> QED
      BY <3>2
  <2>3. ASSUME k \in U(r) PROVE \E p \in 1..(1 + a + b) : w[p] = k
    <3>1. PICK q \in 1..b : t[q] = k
      BY <1>6, <1>0, <1>7, <2>3
    <3>2. 1 + a + q \in 1..(1 + a + b) /\ w[1 + a + q] = k
      BY <1>0, <1>7, <3>1
    <3> QED
      BY <3>2
  <2>4. ASSUME NEW p \in 1..(1 + a + b), w[p] = k PROVE k \in U(i)
    BY <1>2, <1>8, <1>9, <1>10, <2>4
  <2> QED
    BY <1>2, <2>1, <2>2, <2>3, <2>4
<1>13. ASSUME NEW p \in 2..Len(w)
       PROVE  /\ \E q \in 1..(p - 1) : w[q] = Heap!Parent(w[p])
              /\ w[p] % 2 = 0 => \A k \in U(w[p] - 1) : \E q \in 1..(p - 1) : w[q] = k
  <2>0. p \in Int /\ p >= 2 /\ p <= 1 + a + b /\ p \in 1..(1 + a + b) /\ 1 \in 1..(p - 1)
    BY <1>0, <1>7
  <2>1. CASE \E j \in 1..a : p = 1 + j
    <3>1. PICK j \in 1..a : p = 1 + j
      BY <2>1
    <3>2. w[p] = s[j]
      BY <1>0, <1>7, <3>1
    <3>3. CASE j = 1
      <4>1. w[p] = l
        BY <1>5, <3>2, <3>3
      <4>2. w[1] = Heap!Parent(w[p]) /\ w[p] % 2 = 1
        BY <1>4, <1>7, <4>1
      <4> QED
        BY <2>0, <4>2
    <3>4. CASE j # 1
      <4>1. j \in 2..Len(s)
        BY <1>0, <1>7, <3>4
      <4>2. \A q \in 1..(j - 1) : 1 + q \in 1..(p - 1) /\ w[1 + q] = s[q]
        <5>1. \A q \in 1..(j - 1) : 1 + q \in 1..(p - 1) /\ q \in 1..a
          BY <3>1
        <5> QED
          BY <1>7, <5>1
      <4>3. \E q \in 1..(j - 1) : s[q] = Heap!Parent(s[j])
        BY <1>5, <4>1
      <4>4. s[j] % 2 = 0 => \A k \in U(s[j] - 1) : \E q \in 1..(j - 1) : s[q] = k
        BY <1>5, <4>1
      <4> QED
        BY <3>2, <4>2, <4>3, <4>4
    <3> QED
      BY <3>3, <3>4
  <2>2. CASE \E j \in 1..b : p = 1 + a + j
    <3>1. PICK j \in 1..b : p = 1 + a + j
      BY <2>2
    <3>2. w[p] = t[j]
      BY <1>0, <1>7, <3>1
    <3>3. CASE j = 1
      <4>1. w[p] = r
        BY <1>6, <3>2, <3>3
      <4>2. \A k \in U(l) : \E q \in 1..(p - 1) : w[q] = k
        <5> SUFFICES ASSUME NEW k \in U(l) PROVE \E q \in 1..(p - 1) : w[q] = k
          OBVIOUS
        <5>1. k \in C
          BY <1>2
        <5>2. PICK q \in 1..a : s[q] = k
          BY <1>5, <1>0, <1>7, <5>1
        <5>3. 1 + q \in 1..(p - 1) /\ w[1 + q] = k
          BY <1>0, <1>7, <3>1, <5>2
        <5> QED
          BY <5>3
      <4> QED
        BY <1>4, <1>0, <1>7, <2>0, <4>1, <4>2
    <3>4. CASE j # 1
      <4>1. j \in 2..Len(t)
        BY <1>0, <1>7, <3>4
      <4>2. \A q \in 1..(j - 1) : 1 + a + q \in 1..(p - 1) /\ w[1 + a + q] = t[q]
        <5>1. \A q \in 1..(j - 1) : 1 + a + q \in 1..(p - 1) /\ q \in 1..b
          BY <3>1
        <5> QED
          BY <1>7, <5>1
      <4>3. \E q \in 1..(j - 1) : t[q] = Heap!Parent(t[j])
        BY <1>6, <4>1
      <4>4. t[j] % 2 = 0 => \A k \in U(t[j] - 1) : \E q \in 1..(j - 1) : t[q] = k
        BY <1>6, <4>1
      <4> QED
        BY <3>2, <4>2, <4>3, <4>4
    <3> QED
      BY <3>3, <3>4
  <2> QED
    BY <1>8, <2>0, <2>1, <2>2
<1>14. w # <<>>
  BY <1>0, <1>7
<1> QED
  BY <1>0, <1>7, <1>11, <1>12, <1>13, <1>14 DEF Tour, C, U, w

\* A cell without children is a tour of itself.
LEMMA LeafTour ==
  ASSUME NEW m \in Nat \ {0}, NEW i \in 0..(2 * m), i >= m
  PROVE  Tour(<<i>>, i, 0..(2 * m))
<1>1. <<i>> \in Seq(0..(2 * m)) /\ <<i>> # <<>> /\ Len(<<i>>) = 1 /\ <<i>>[1] = i
  OBVIOUS
<1>2. UnderIn(0..(2 * m), i) = {i}
  BY UnderIs
<1>3. 1..Len(<<i>>) = {1} /\ 2..Len(<<i>>) = {}
  BY <1>1
<1> QED
  BY <1>1, <1>2, <1>3, Zenon DEF Tour

\* The walk from any cell is a tour of what is under it.
LEMMA WalkTours ==
  ASSUME NEW m \in Nat \ {0}, NEW w, WalkIs(w, m, 0..(2 * m))
  PROVE  \A i \in 0..(2 * m) : Tour(w[i], i, 0..(2 * m))
<1> DEFINE Good(i) == Tour(w[i], i, 0..(2 * m))
           S == {n \in Nat : \A i \in 0..(2 * m) : i >= 2 * m - n => Good(i)}
<1>1. \A i \in 0..(2 * m) : w[i] = IF i < m THEN <<i>> \o w[2 * i + 1] \o w[2 * i + 2] ELSE <<i>>
  BY DEF WalkIs
<1>2. ASSUME NEW i \in 0..(2 * m), i >= m PROVE Good(i)
  <2>1. w[i] = <<i>>
    <3>1. ~(i < m)
      BY <1>2
    <3> QED
      BY <1>1, <3>1, Zenon
  <2> QED
    BY <1>2, <2>1, LeafTour
<1>3. ASSUME NEW i \in 0..(2 * m), i < m, Good(2 * i + 1), Good(2 * i + 2) PROVE Good(i)
  <2>1. w[i] = <<i>> \o w[2 * i + 1] \o w[2 * i + 2]
    BY <1>1, <1>3
  <2>2. i \in Nat
    OBVIOUS
  <2> QED
    BY <1>3, <2>1, <2>2, ToursJoin
<1> HIDE DEF Good
<1>4. 0 \in S
  <2>1. \A i \in 0..(2 * m) : i >= 2 * m - 0 => i >= m
    OBVIOUS
  <2> QED
    BY <1>2, <2>1
<1>5. ASSUME NEW n \in Nat, n \in S PROVE n + 1 \in S
  <2> SUFFICES ASSUME NEW i \in 0..(2 * m), i >= 2 * m - (n + 1) PROVE Good(i)
    OBVIOUS
  <2>1. CASE i >= m
    BY <1>2, <2>1
  <2>2. CASE i < m
    <3>1. /\ 2 * i + 1 \in 0..(2 * m) /\ 2 * i + 1 >= 2 * m - n
          /\ 2 * i + 2 \in 0..(2 * m) /\ 2 * i + 2 >= 2 * m - n
      BY <2>2
    <3>2. Good(2 * i + 1) /\ Good(2 * i + 2)
      BY <1>5, <3>1
    <3> QED
      BY <1>3, <2>2, <3>2
  <2> QED
    BY <2>1, <2>2
<1> HIDE DEF S
<1>6. Nat \subseteq S
  BY <1>4, <1>5, OnNaturals
<1>7. 2 * m \in S
  BY <1>6
<1>8. \A i \in 0..(2 * m) : Good(i)
  <2>1. \A i \in 0..(2 * m) : i >= 2 * m - 2 * m
    OBVIOUS
  <2> QED
    BY <1>7, <2>1 DEF S
<1> QED
  BY <1>8 DEF Good

\* So preorder() is.
LEMMA PreorderTours ==
  ASSUME NEW m \in Nat \ {0}, Heap!Cells = 0..(2 * m), NEW i \in 0..(2 * m)
  PROVE  Tour(Heap!Preorder(i), i, 0..(2 * m))
<1> DEFINE walk == CHOOSE w : w = [k \in Heap!Cells |->
                     IF Heap!Children(k) = << >> THEN <<k>>
                     ELSE <<k>> \o w[Heap!Children(k)[1]] \o w[Heap!Children(k)[2]]]
           C == 0..(2 * m)
<1>1. \A k \in C : /\ k < m => Heap!Children(k) = <<2 * k + 1, 2 * k + 2>>
                   /\ ~(k < m) => Heap!Children(k) = << >>
  <2> TAKE k \in C
  <2>1. 2 * k + 2 \in Heap!Cells <=> k < m
    OBVIOUS
  <2> QED
    BY <2>1, Zenon DEF Heap!Children
<1>2. \A w : \A k \in C :
        (IF Heap!Children(k) = << >> THEN <<k>>
         ELSE <<k>> \o w[Heap!Children(k)[1]] \o w[Heap!Children(k)[2]])
          = (IF k < m THEN <<k>> \o w[2 * k + 1] \o w[2 * k + 2] ELSE <<k>>)
  <2> TAKE w
  <2> TAKE k \in C
  <2>1. CASE k < m
    <3>1. Heap!Children(k) = <<2 * k + 1, 2 * k + 2>>
      BY <1>1, <2>1
    <3>2. Heap!Children(k) # << >> /\ Heap!Children(k)[1] = 2 * k + 1 /\ Heap!Children(k)[2] = 2 * k + 2
      BY <3>1
    <3> QED
      BY <2>1, <3>2, Zenon
  <2>2. CASE ~(k < m)
    <3>1. Heap!Children(k) = << >>
      BY <1>1, <2>2
    <3> QED
      BY <2>2, <3>1, Zenon
  <2> QED
    BY <2>1, <2>2
<1>3. \E w : w = [k \in Heap!Cells |->
                IF Heap!Children(k) = << >> THEN <<k>>
                ELSE <<k>> \o w[Heap!Children(k)[1]] \o w[Heap!Children(k)[2]]]
  <2>1. PICK w : WalkIs(w, m, C)
    BY WalkExists
  <2>2. w = [k \in C |->
                IF Heap!Children(k) = << >> THEN <<k>>
                ELSE <<k>> \o w[Heap!Children(k)[1]] \o w[Heap!Children(k)[2]]]
    BY <1>2, <2>1 DEF WalkIs
  <2> QED
    BY <2>2
<1>4. walk = [k \in Heap!Cells |->
                IF Heap!Children(k) = << >> THEN <<k>>
                ELSE <<k>> \o walk[Heap!Children(k)[1]] \o walk[Heap!Children(k)[2]]]
  BY <1>3
<1>5. Heap!Preorder(i) = walk[i]
  BY DEF Heap!Preorder
<1> HIDE DEF walk
<1>6. WalkIs(walk, m, C)
  BY <1>2, <1>4 DEF WalkIs
<1>7. Tour(walk[i], i, C)
  BY <1>6, WalkTours
<1> QED
  BY <1>5, <1>7

-------------------------------------------------------------------------------
(* The heap: its steps.                                                    *)

\* Where the cursors of a mode start.
RootOf(md) == CASE md = "none" -> << >> [] md = "parallel" -> <<1, 2>> [] OTHER -> <<0>>

\* How far a cursor is, and what it has passed.
Upto(c) == IF c.at > Len(c.order) THEN Len(c.order) ELSE c.at
Passed(c) == {c.order[p] : p \in 1..Upto(c)}

\* A cursor of a run that starts at i.
OnTour(c, i, C) == /\ c = [order |-> c.order, at |-> c.at]
                   /\ Tour(c.order, i, C)
                   /\ c.at \in 0..(Len(c.order) + 1)

HeapTyped == /\ depth \in Depths
             /\ mode \in {"owned", "shared", "vault", "parallel", "none"}
             /\ starts \in 0..MaxStarts

\* Each cursor is on a tour from its root.
Routes == /\ cursors = [c \in DOMAIN RootOf(mode) |-> cursors[c]]
          /\ \A c \in DOMAIN RootOf(mode) : OnTour(cursors[c], RootOf(mode)[c], Heap!Cells)

\* What is visited is what the cursors passed, and the root of a parallel run once they
\* are through.
Home == mode = "parallel" /\ \A c \in DOMAIN cursors : Heap!Done(cursors[c])
Seen == visited = (UNION {Passed(cursors[c]) : c \in DOMAIN cursors}) \cup (IF Home THEN {0} ELSE {})

Shared(C, S) == {k \in C \ {0} : Heap!Parent(k) \in S}

\* Copies, counters and counts follow from what was visited.
Counting == /\ holders = IF mode \in Heap!Sharing THEN 2 ELSE 1
            /\ copies = IF mode \in Heap!Sharing THEN visited ELSE {}
            /\ allocs = Cardinality(copies)
            /\ incs = Cardinality(Shared(Heap!Cells, copies))
            /\ rc = [i \in Heap!Cells |-> IF i = 0 THEN holders
                                          ELSE IF Heap!Parent(i) \in copies THEN 2 ELSE 1]
            /\ visits = Cardinality(visited)

HeapKept == HeapTyped /\ Routes /\ Seen /\ Counting

\* What FiguresAssumption says of the heap.
LEMMA HeapConstants == Depths \subseteq Nat \ {0} /\ MaxSpeed \in Nat /\ MaxStarts \in Nat
BY FiguresAssumption DEF Heap!HeapAssumption

\* The roots, in the code's words.
LEMMA RootsAre ==
  ASSUME NEW m \in Nat \ {0}, Heap!Cells = 0..(2 * m),
         NEW md \in {"owned", "shared", "vault", "parallel", "none"}
  PROVE  /\ Heap!Roots(md) = RootOf(md)
         /\ DOMAIN RootOf(md) = IF md = "none" THEN {} ELSE IF md = "parallel" THEN {1, 2} ELSE {1}
         /\ \A c \in DOMAIN RootOf(md) : RootOf(md)[c] \in 0..(2 * m)
<1>1. Heap!Halves = <<1, 2>>
  <2>1. 2 * 0 + 2 \in Heap!Cells /\ 2 * 0 + 1 = 1 /\ 2 * 0 + 2 = 2
    OBVIOUS
  <2> QED
    BY <2>1, Zenon DEF Heap!Halves, Heap!Children
<1>2. CASE md = "none"
  BY <1>2 DEF Heap!Roots, RootOf
<1>3. CASE md = "parallel"
  BY <1>1, <1>3 DEF Heap!Roots, RootOf
<1>4. CASE md \in {"owned", "shared", "vault"}
  BY <1>4 DEF Heap!Roots, RootOf
<1> QED
  BY <1>2, <1>3, <1>4

\* A cursor that goes on passes the cells it arrives at, which it had not passed.
LEMMA CursorMoves ==
  ASSUME NEW C, NEW i, NEW c, OnTour(c, i, C), NEW n \in Nat, NEW d, d = Heap!Reached(c, n)
  PROVE  /\ OnTour(d, i, C)
         /\ Passed(c) \cup Heap!Arrivals(c, d) = Passed(d)
         /\ Passed(c) \cap Heap!Arrivals(c, d) = {}
         /\ IsFiniteSet(Heap!Arrivals(c, d)) /\ Cardinality(Heap!Arrivals(c, d)) \in Nat
         /\ Heap!Done(c) => d = c
<1>1. /\ c = [order |-> c.order, at |-> c.at] /\ c.order \in Seq(C) /\ c.at \in 0..(Len(c.order) + 1)
      /\ \A p, q \in 1..Len(c.order) : c.order[p] = c.order[q] => p = q
  BY DEF OnTour, Tour
<1>2. PICK l \in Nat, a \in Int : l = Len(c.order) /\ a = c.at /\ a >= 0 /\ a <= l + 1
  BY <1>1
<1>3. d = [order |-> c.order, at |-> IF a + n > l THEN l + 1 ELSE a + n]
  BY <1>1, <1>2 DEF Heap!Reached
<1>4. /\ d = [order |-> d.order, at |-> d.at] /\ d.order = c.order
      /\ d.at = (IF a + n > l THEN l + 1 ELSE a + n) /\ d.at \in 0..(l + 1)
  BY <1>2, <1>3
<1>5. OnTour(d, i, C)
  BY <1>2, <1>4 DEF OnTour
<1>6. PICK u \in 0..l, v \in 0..l :
        /\ u = Upto(c) /\ v = Upto(d) /\ u <= v
        /\ a <= l => u = a
        /\ a > l => u = l /\ v = l
        /\ v = IF Heap!Done(d) THEN l ELSE d.at
  <2>1. /\ Upto(c) = (IF a > l THEN l ELSE a)
        /\ Upto(d) = (IF d.at > l THEN l ELSE d.at)
        /\ Heap!Done(d) <=> d.at > l
    BY <1>2, <1>4 DEF Upto, Heap!Done
  <2>2. PICK b \in Int : b = d.at
    BY <1>4
  <2>3. PICK u \in Int : u = Upto(c)
    BY <1>2, <2>1
  <2>4. PICK v \in Int : v = Upto(d)
    BY <1>2, <1>4, <2>1
  <2>5. b = (IF a + n > l THEN l + 1 ELSE a + n)
    BY <1>4, <2>2
  <2>6. u \in 0..l /\ v \in 0..l /\ u <= v /\ (a <= l => u = a) /\ (a > l => u = l /\ v = l)
    <3>1. u = (IF a > l THEN l ELSE a) /\ v = (IF b > l THEN l ELSE b)
      BY <2>1, <2>2, <2>3, <2>4
    <3>2. a >= 0 /\ a <= l + 1
      BY <1>2
    <3>3. CASE a > l
      <4>1. b > l
        BY <2>5, <3>2, <3>3
      <4> QED
        BY <3>1, <3>3, <4>1
    <3>4. CASE a <= l
      <4>1. b >= a
        BY <2>5, <3>4
      <4> QED
        BY <3>1, <3>2, <3>4, <4>1
    <3> QED
      BY <3>3, <3>4
  <2>7. v = IF Heap!Done(d) THEN l ELSE d.at
    BY <2>1, <2>4
  <2> QED
    BY <2>3, <2>4, <2>6, <2>7
<1>7. Heap!Arrivals(c, d) = {c.order[p] : p \in (u + 1)..v}
  <2>1. (a + 1)..v = (u + 1)..v
    BY <1>6
  <2>2. c.at + 1 = a + 1 /\ (IF Heap!Done(d) THEN Len(c.order) ELSE d.at) = v
    BY <1>2, <1>6
  <2> QED
    BY <2>1, <2>2, Zenon DEF Heap!Arrivals
<1>8. Passed(c) = {c.order[p] : p \in 1..u} /\ Passed(d) = {c.order[p] : p \in 1..v}
  BY <1>4, <1>6 DEF Passed
<1>9. 1..v = (1..u) \cup ((u + 1)..v)
  BY <1>6
<1>10. Passed(c) \cup Heap!Arrivals(c, d) = Passed(d)
  BY <1>7, <1>8, <1>9
<1>11. Passed(c) \cap Heap!Arrivals(c, d) = {}
  <2> SUFFICES ASSUME NEW p \in 1..u, NEW q \in (u + 1)..v, c.order[p] = c.order[q] PROVE FALSE
    BY <1>7, <1>8
  <2>1. p \in 1..l /\ q \in 1..l /\ p # q
    OBVIOUS
  <2>2. p \in 1..Len(c.order) /\ q \in 1..Len(c.order) /\ p # q
    BY <1>2, <2>1
  <2> QED
    BY <1>1, <2>2
<1>12. IsFiniteSet(Heap!Arrivals(c, d)) /\ Cardinality(Heap!Arrivals(c, d)) \in Nat
  <2>1. u + 1 \in Int /\ v \in Int
    BY <1>6
  <2>2. IsFiniteSet((u + 1)..v)
    BY <2>1, FS_Interval
  <2> DEFINE f == [p \in (u + 1)..v |-> c.order[p]]
  <2>3. f \in Surjection((u + 1)..v, Heap!Arrivals(c, d))
    BY <1>7 DEF Surjection
  <2> HIDE DEF f
  <2> QED
    BY <2>2, <2>3, FS_Surjection, FS_CardinalityType
<1>13. Heap!Done(c) => d = c
  BY <1>1, <1>2, <1>4 DEF Heap!Done
<1> QED
  BY <1>5, <1>10, <1>11, <1>12, <1>13

\* The figures of one cursor, or of two, added up.
LEMMA HeapSums ==
  ASSUME NEW f
  PROVE  /\ DOMAIN f = {1} /\ f[1] \in Int => Heap!SumFunction(f) = f[1]
         /\ DOMAIN f = {1, 2} /\ f[1] \in Int /\ f[2] \in Int => Heap!SumFunction(f) = f[1] + f[2]
<1>1. Heap!SumFunction(f) = SumFunctionOnSet(f, DOMAIN f)
  BY DEF Heap!SumFunction, Heap!SumFunctionOnSet, Heap!FoldFunctionOnSet, Heap!MapThenFoldSet,
         SumFunctionOnSet, FoldFunctionOnSet, MapThenFoldSet
<1>2. IsFiniteSet({1}) /\ IsFiniteSet({2}) /\ IsFiniteSet({1, 2})
  <2>1. {1, 2} = {1} \cup {2}
    OBVIOUS
  <2>2. IsFiniteSet({1}) /\ IsFiniteSet({2})
    BY FS_Singleton
  <2> QED
    BY <2>1, <2>2, FS_AddElement
<1>3. ASSUME NEW x \in {1, 2}, f[x] \in Int PROVE SumFunctionOnSet(f, {x}) = f[x]
  <2>1. {x} \ {x} = {} /\ IsFiniteSet({x}) /\ \A y \in {x} : f[y] \in Int
    BY <1>2, <1>3
  <2>2. SumFunctionOnSet(f, {x}) = f[x] + SumFunctionOnSet(f, {x} \ {x})
    BY <2>1, SumTake
  <2> QED
    BY <1>3, <2>1, <2>2, SumEmpty
<1>4. ASSUME f[1] \in Int, f[2] \in Int PROVE SumFunctionOnSet(f, {1, 2}) = f[1] + f[2]
  <2>1. {1, 2} \ {1} = {2} /\ \A y \in {1, 2} : f[y] \in Int
    BY <1>4
  <2>2. SumFunctionOnSet(f, {1, 2}) = f[1] + SumFunctionOnSet(f, {1, 2} \ {1})
    BY <1>2, <2>1, SumTake
  <2>3. SumFunctionOnSet(f, {2}) = f[2]
    BY <1>3, <1>4
  <2> QED
    BY <2>1, <2>2, <2>3
<1> QED
  BY <1>1, <1>3, <1>4

\* What is shared by two sets of cells that have nothing in common.
LEMMA SharedJoin ==
  ASSUME NEW m \in Nat, NEW S, NEW T, S \cap T = {}
  PROVE  /\ Shared(0..(2 * m), S \cup T) = Shared(0..(2 * m), S) \cup Shared(0..(2 * m), T)
         /\ Shared(0..(2 * m), S) \cap Shared(0..(2 * m), T) = {}
         /\ Shared(0..(2 * m), S) \subseteq 0..(2 * m) /\ Shared(0..(2 * m), T) \subseteq 0..(2 * m)
         /\ Shared(0..(2 * m), {}) = {}
BY DEF Shared

\* The sizes of two sets of cells, or of anything finite, that have nothing in common.
LEMMA SizesAdd ==
  ASSUME NEW S, NEW T, IsFiniteSet(S), IsFiniteSet(T), S \cap T = {}
  PROVE  /\ Cardinality(S \cup T) = Cardinality(S) + Cardinality(T)
         /\ IsFiniteSet(S \cup T) /\ Cardinality(S) \in Nat /\ Cardinality(T) \in Nat
<1>1. Cardinality(S \cup T) = Cardinality(S) + Cardinality(T) - Cardinality(S \cap T)
      /\ IsFiniteSet(S \cup T)
  BY FS_Union
<1>2. Cardinality(S) \in Nat /\ Cardinality(T) \in Nat /\ Cardinality(S \cap T) = 0
  BY FS_CardinalityType, FS_EmptySet
<1> QED
  BY <1>1, <1>2

\* Cells visited for the first time leave every counter right.
LEMMA VisitKeeps ==
  ASSUME NEW m \in Nat \ {0}, Heap!Cells = 0..(2 * m), Counting, visited \subseteq Heap!Cells,
         NEW cells \in SUBSET Heap!Cells, cells \cap visited = {}, Heap!Visit(cells),
         UNCHANGED <<depth, mode, holders>>, visits' = visits + Cardinality(cells)
  PROVE  Counting' /\ visited' = visited \cup cells
<1> DEFINE C == 0..(2 * m)
<1>0. Heap!Cells' = C /\ Heap!Cells = C
  BY DEF Heap!Cells
<1>1. IsFiniteSet(visited) /\ IsFiniteSet(cells)
  <2>1. IsFiniteSet(C)
    BY FS_Interval
  <2> QED
    BY <2>1, FS_Subset
<1>2. visited' = visited \cup cells
  BY DEF Heap!Visit
<1>3. visits' = Cardinality(visited')
  BY <1>1, <1>2, SizesAdd DEF Counting
<1>4. holders' = IF mode' \in Heap!Sharing THEN 2 ELSE 1
  BY DEF Counting
<1>5. CASE mode \in Heap!Sharing
  <2> DEFINE shared == {k \in Heap!Cells \ {0} : Heap!Parent(k) \in cells}
  <2>1. /\ copies' = copies \cup cells
        /\ allocs' = allocs + Heap!Cardinality(cells)
        /\ rc' = [k \in Heap!Cells |-> IF k \in shared THEN rc[k] + 1 ELSE rc[k]]
        /\ incs' = incs + Heap!Cardinality(shared)
    BY <1>5 DEF Heap!Visit
  <2>2. /\ copies = visited /\ allocs = Cardinality(visited)
        /\ incs = Cardinality(Shared(C, visited))
        /\ rc = [i \in C |-> IF i = 0 THEN holders ELSE IF Heap!Parent(i) \in visited THEN 2 ELSE 1]
    BY <1>5, <1>0 DEF Counting
  <2>3. shared = Shared(C, cells)
    BY <1>0 DEF Shared
  <2> HIDE DEF shared
  <2>4. copies' = visited' /\ allocs' = Cardinality(visited')
    BY <1>1, <1>2, <2>1, <2>2, HeapCounts, SizesAdd
  <2>5. incs' = Cardinality(Shared(C, visited'))
    <3>1. /\ Shared(C, visited \cup cells) = Shared(C, visited) \cup Shared(C, cells)
          /\ Shared(C, visited) \cap Shared(C, cells) = {}
          /\ Shared(C, visited) \subseteq C /\ Shared(C, cells) \subseteq C
      <4>1. visited \cap cells = {} /\ m \in Nat
        OBVIOUS
      <4> HIDE DEF C
      <4> QED
        BY <4>1, SharedJoin DEF C
    <3>2. IsFiniteSet(Shared(C, visited)) /\ IsFiniteSet(Shared(C, cells))
      <4>1. IsFiniteSet(C)
        BY FS_Interval
      <4> QED
        BY <3>1, <4>1, FS_Subset
    <3>3. Cardinality(Shared(C, visited \cup cells)) = Cardinality(Shared(C, visited)) + Cardinality(Shared(C, cells))
      BY <3>1, <3>2, SizesAdd
    <3> QED
      BY <1>2, <2>1, <2>2, <2>3, <3>3, HeapCounts
  <2>6. rc' = [i \in C |-> IF i = 0 THEN holders' ELSE IF Heap!Parent(i) \in visited' THEN 2 ELSE 1]
    <3>1. \A i \in C : (IF i \in shared THEN rc[i] + 1 ELSE rc[i])
                         = (IF i = 0 THEN holders ELSE IF Heap!Parent(i) \in visited \cup cells THEN 2 ELSE 1)
      <4> TAKE i \in C
      <4>1. i \in shared <=> i # 0 /\ Heap!Parent(i) \in cells
        BY <2>3 DEF Shared
      <4>2. rc[i] = IF i = 0 THEN holders ELSE IF Heap!Parent(i) \in visited THEN 2 ELSE 1
        BY <2>2
      <4>3. 1 + 1 = 2
        OBVIOUS
      <4>4. CASE i = 0
        BY <4>1, <4>2, <4>4
      <4>5. CASE i # 0 /\ Heap!Parent(i) \in cells
        BY <4>1, <4>2, <4>3, <4>5
      <4>6. CASE i # 0 /\ Heap!Parent(i) \notin cells
        BY <4>1, <4>2, <4>6
      <4> QED
        BY <4>4, <4>5, <4>6
    <3> QED
      BY <1>0, <1>2, <2>1, <3>1, Zenon
  <2> QED
    BY <1>0, <1>2, <1>3, <1>4, <1>5, <2>4, <2>5, <2>6 DEF Counting
<1>6. CASE mode \notin Heap!Sharing
  <2>1. UNCHANGED <<copies, allocs, rc, incs>>
    BY <1>6 DEF Heap!Visit
  <2> QED
    BY <1>0, <1>2, <1>3, <1>4, <1>6, <2>1 DEF Counting
<1> QED
  BY <1>2, <1>5, <1>6

\* The cursors and what they passed, after a step.
LEMMA SeenAfter ==
  Seen' <=> visited' = (UNION {Passed(cursors'[c]) : c \in DOMAIN cursors'})
              \cup (IF mode' = "parallel" /\ \A c \in DOMAIN cursors' : Heap!Done(cursors'[c]) THEN {0} ELSE {})
BY DEF Seen, Home, Passed, Upto, Heap!Done

\* And where the cursors are, after a step.
LEMMA RoutesAfter ==
  Routes' <=> /\ cursors' = [c \in DOMAIN RootOf(mode') |-> cursors'[c]]
              /\ \A c \in DOMAIN RootOf(mode') : OnTour(cursors'[c], RootOf(mode')[c], Heap!Cells')
BY DEF Routes, RootOf, OnTour, Tour, UnderIn, Above, AboveIs, Heap!Parent

\* A cursor passes cells under the one it started from, and in the end all of them.
LEMMA PassedAre ==
  ASSUME NEW C, NEW i, NEW c, OnTour(c, i, C)
  PROVE  /\ Passed(c) \subseteq UnderIn(C, i)
         /\ Heap!Done(c) => Passed(c) = UnderIn(C, i)
<1>1. /\ c.order \in Seq(C) /\ c.at \in 0..(Len(c.order) + 1)
      /\ \A k \in C : k \in UnderIn(C, i) <=> \E p \in 1..Len(c.order) : c.order[p] = k
  BY DEF OnTour, Tour
<1>2. Len(c.order) \in Nat /\ \A p \in 1..Len(c.order) : c.order[p] \in C
  BY <1>1, LenProperties, ElementOfSeq
<1>3. \A p \in 1..Upto(c) : p \in 1..Len(c.order)
  BY <1>1, <1>2 DEF Upto
<1>4. Heap!Done(c) => Upto(c) = Len(c.order)
  BY DEF Upto, Heap!Done
<1>5. UnderIn(C, i) \subseteq C
  BY DEF UnderIn
<1> QED
  BY <1>1, <1>2, <1>3, <1>4, <1>5 DEF Passed

\* The parallel run's halves: they share nothing, and are all but the root.
LEMMA HalvesAre ==
  ASSUME NEW m \in Nat \ {0}
  PROVE  /\ UnderIn(0..(2 * m), 1) \cap UnderIn(0..(2 * m), 2) = {}
         /\ 0 \notin UnderIn(0..(2 * m), 1) /\ 0 \notin UnderIn(0..(2 * m), 2)
         /\ {0} \cup UnderIn(0..(2 * m), 1) \cup UnderIn(0..(2 * m), 2) = 0..(2 * m)
<1>1. 0 \in 0..(2 * m) /\ 1 \in 0..(2 * m) /\ 2 \in 0..(2 * m) /\ 0 < m /\ 2 * 0 + 1 = 1 /\ 2 * 0 + 2 = 2
  OBVIOUS
<1>2. /\ UnderIn(0..(2 * m), 0) = 0..(2 * m)
      /\ UnderIn(0..(2 * m), 0) = {0} \cup UnderIn(0..(2 * m), 2 * 0 + 1) \cup UnderIn(0..(2 * m), 2 * 0 + 2)
      /\ UnderIn(0..(2 * m), 2 * 0 + 1) \cap UnderIn(0..(2 * m), 2 * 0 + 2) = {}
  BY <1>1, UnderIs
<1>3. UnderIn(0..(2 * m), 1) \subseteq 1..(2 * m) /\ UnderIn(0..(2 * m), 2) \subseteq 2..(2 * m)
  BY <1>1, UnderIs
<1>4. 0 \notin 1..(2 * m) /\ 0 \notin 2..(2 * m)
  OBVIOUS
<1> QED
  BY <1>1, <1>2, <1>3, <1>4, Zenon

\* What the cursors arrive at, cells: none they had passed, and those they have passed
\* once they are there; x, y are the visits counted for the root and for the rest.
Moved(cells, x, y) ==
  /\ cells \subseteq Heap!Cells /\ cells \cap visited = {}
  /\ x \in Nat /\ y \in Nat /\ x + y = Cardinality(cells)
  /\ visited \cup cells = (UNION {Passed(cursors'[c]) : c \in DOMAIN cursors})
       \cup (IF mode = "parallel" /\ \A c \in DOMAIN cursors : Heap!Done(cursors'[c]) THEN {0} ELSE {})

\* One cursor that goes on.
LEMMA OneCursor ==
  ASSUME NEW a, Routes, Seen, mode # "parallel", DOMAIN cursors = {1}, DOMAIN a = {1},
         Passed(cursors[1]) \cup a[1] = Passed(cursors'[1]), Passed(cursors[1]) \cap a[1] = {},
         Cardinality(a[1]) \in Nat, a[1] \subseteq Heap!Cells
  PROVE  Moved((UNION {a[c] : c \in {1}}) \cup Heap!RootBack(cursors'),
               Cardinality(Heap!RootBack(cursors')),
               Heap!SumFunction([c \in {1} |-> Heap!Cardinality(a[c])]))
<1>1. Heap!RootBack(cursors') = {} /\ (UNION {a[c] : c \in {1}}) \cup {} = a[1]
  BY DEF Heap!RootBack
<1>2. visited = Passed(cursors[1])
  BY DEF Seen, Home
<1>3. Heap!SumFunction([c \in {1} |-> Heap!Cardinality(a[c])]) = Cardinality(a[1])
  <2> DEFINE f == [c \in {1} |-> Heap!Cardinality(a[c])]
  <2>1. DOMAIN f = {1} /\ f[1] = Cardinality(a[1])
    BY HeapCounts
  <2> HIDE DEF f
  <2>2. Heap!SumFunction(f) = Cardinality(a[1])
    BY <2>1, HeapSums
  <2> QED
    BY <2>2 DEF f
<1>4. Cardinality({}) = 0
  BY FS_EmptySet
<1>5. UNION {Passed(cursors'[c]) : c \in DOMAIN cursors} = Passed(cursors'[1])
  OBVIOUS
<1>6. a[1] \cap visited = {} /\ visited \cup a[1] = Passed(cursors'[1])
  BY <1>2
<1>7. Moved(a[1], 0, Cardinality(a[1]))
  BY <1>5, <1>6 DEF Moved
<1> QED
  BY <1>1, <1>3, <1>4, <1>7

\* Two cursors that go on.
LEMMA TwoCursors ==
  ASSUME NEW a, NEW m \in Nat \ {0}, Heap!Cells = 0..(2 * m), Routes, Routes', Seen, ~Home,
         mode = "parallel", mode' = mode, depth' = depth,
         DOMAIN cursors = {1, 2}, DOMAIN cursors' = {1, 2}, DOMAIN a = {1, 2},
         \A c \in {1, 2} : /\ Passed(cursors[c]) \cup a[c] = Passed(cursors'[c])
                           /\ Passed(cursors[c]) \cap a[c] = {}
                           /\ IsFiniteSet(a[c])
  PROVE  Moved((UNION {a[c] : c \in {1, 2}}) \cup Heap!RootBack(cursors'),
               Cardinality(Heap!RootBack(cursors')),
               Heap!SumFunction([c \in {1, 2} |-> Heap!Cardinality(a[c])]))
<1> DEFINE U(i) == UnderIn(0..(2 * m), i)
           P(c) == Passed(cursors[c])
           Q(c) == Passed(cursors'[c])
           back == Heap!RootBack(cursors')
           cells == (UNION {a[c] : c \in {1, 2}}) \cup back
           f == [c \in {1, 2} |-> Heap!Cardinality(a[c])]
<1>1. U(1) \cap U(2) = {} /\ 0 \notin U(1) /\ 0 \notin U(2) /\ U(1) \subseteq 0..(2 * m) /\ U(2) \subseteq 0..(2 * m)
  BY HalvesAre DEF UnderIn
<1>2. Q(1) \subseteq U(1) /\ Q(2) \subseteq U(2)
  <2>1. RootOf(mode) = <<1, 2>> /\ RootOf(mode)[1] = 1 /\ RootOf(mode)[2] = 2
    BY DEF RootOf
  <2>2. Heap!Cells' = 0..(2 * m)
    BY DEF Heap!Cells
  <2>3. OnTour(cursors'[1], 1, 0..(2 * m)) /\ OnTour(cursors'[2], 2, 0..(2 * m))
    <3>1. 1 \in DOMAIN RootOf(mode) /\ 2 \in DOMAIN RootOf(mode)
      BY <2>1
    <3> QED
      BY <2>1, <2>2, <3>1, RoutesAfter
  <2> QED
    BY <2>3, PassedAre
<1>3. P(1) \cup a[1] = Q(1) /\ P(1) \cap a[1] = {} /\ P(2) \cup a[2] = Q(2) /\ P(2) \cap a[2] = {}
  OBVIOUS
<1>4. visited = P(1) \cup P(2)
  BY DEF Seen
<1>5. back = IF \A c \in {1, 2} : Heap!Done(cursors'[c]) THEN {0} ELSE {}
  <2>1. 0 \notin visited
    BY <1>1, <1>2, <1>3, <1>4
  <2> QED
    BY <2>1 DEF Heap!RootBack
<1>6. DOMAIN f = {1, 2} /\ f[1] = Cardinality(a[1]) /\ f[2] = Cardinality(a[2])
  BY HeapCounts
<1> HIDE DEF U, P, Q, f
<1>7. cells = a[1] \cup a[2] \cup back
  OBVIOUS
<1>8. UNION {Passed(cursors'[c]) : c \in DOMAIN cursors} = Q(1) \cup Q(2)
  BY DEF Q
<1> HIDE DEF back, cells
<1>9. back \subseteq {0} /\ IsFiniteSet(back) /\ IsFiniteSet(a[1]) /\ IsFiniteSet(a[2])
  BY <1>5, FS_Singleton, FS_EmptySet
<1>10. cells \subseteq Heap!Cells /\ cells \cap visited = {}
  <2>1. 0 \in 0..(2 * m)
    OBVIOUS
  <2>2. a[1] \subseteq U(1) /\ a[2] \subseteq U(2) /\ P(1) \subseteq U(1) /\ P(2) \subseteq U(2)
    BY <1>2, <1>3
  <2>3. cells \subseteq 0..(2 * m)
    BY <1>1, <1>7, <1>9, <2>1, <2>2
  <2>4. a[1] \cap visited = {} /\ a[2] \cap visited = {}
    BY <1>1, <1>3, <1>4, <2>2
  <2>5. back \cap visited = {}
    BY <1>1, <1>4, <1>9, <2>2
  <2> QED
    BY <1>7, <2>3, <2>4, <2>5
<1>11. /\ Cardinality(back) \in Nat /\ Heap!SumFunction(f) \in Nat
       /\ Cardinality(back) + Heap!SumFunction(f) = Cardinality(cells)
  <2>1. a[1] \cap a[2] = {} /\ (a[1] \cup a[2]) \cap back = {}
    BY <1>1, <1>2, <1>3, <1>9
  <2>2. /\ Cardinality(a[1] \cup a[2]) = Cardinality(a[1]) + Cardinality(a[2])
        /\ IsFiniteSet(a[1] \cup a[2]) /\ Cardinality(a[1]) \in Nat /\ Cardinality(a[2]) \in Nat
    BY <1>9, <2>1, SizesAdd
  <2>3. Cardinality(a[1] \cup a[2] \cup back) = Cardinality(a[1] \cup a[2]) + Cardinality(back)
        /\ Cardinality(back) \in Nat
    BY <1>9, <2>1, <2>2, SizesAdd
  <2>4. Heap!SumFunction(f) = f[1] + f[2]
    BY <1>6, <2>2, HeapSums
  <2> QED
    BY <1>6, <1>7, <2>2, <2>3, <2>4
<1>12. visited \cup cells = Q(1) \cup Q(2) \cup (IF \A c \in {1, 2} : Heap!Done(cursors'[c]) THEN {0} ELSE {})
  BY <1>3, <1>4, <1>5, <1>7
<1>13. Moved(cells, Cardinality(back), Heap!SumFunction(f))
  BY <1>8, <1>10, <1>11, <1>12 DEF Moved
<1> QED
  BY <1>13 DEF cells, back, f

\* A step keeps the heap's invariant.
LEMMA HeapStep == ASSUME HeapKept, Heap!Step PROVE HeapKept'
<1> DEFINE R == RootOf(mode)
           D == DOMAIN R
<1>0. HeapTyped /\ Routes /\ Seen /\ Counting
  BY DEF HeapKept
<1>1. PICK m \in Nat \ {0} : Heap!Cells = 0..(2 * m)
  BY <1>0, CellsAre DEF HeapTyped
<1>2. PICK speed \in [DOMAIN cursors -> 0..MaxSpeed] :
        /\ cursors' = [c \in DOMAIN cursors |-> Heap!Reached(cursors[c], speed[c])]
        /\ cursors' # cursors
        /\ LET reach == [c \in DOMAIN cursors |-> Heap!Arrivals(cursors[c], cursors'[c])]
               all   == (UNION {reach[c] : c \in DOMAIN cursors}) \cup Heap!RootBack(cursors')
           IN /\ Heap!Visit(all)
              /\ visits' = visits + Heap!Cardinality(Heap!RootBack(cursors'))
                             + Heap!SumFunction([c \in DOMAIN cursors |-> Heap!Cardinality(reach[c])])
        /\ UNCHANGED <<depth, mode, holders, starts>>
  BY DEF Heap!Step
<1> DEFINE a == [c \in D |-> Heap!Arrivals(cursors[c], cursors'[c])]
           back == Heap!RootBack(cursors')
           cells == (UNION {a[c] : c \in D}) \cup back
           sum == Heap!SumFunction([c \in D |-> Heap!Cardinality(a[c])])
<1>3. DOMAIN cursors = D /\ DOMAIN cursors' = D /\ DOMAIN a = D
  <2>1. DOMAIN cursors = D
    BY <1>0 DEF Routes
  <2> QED
    BY <1>2, <2>1
<1>4. /\ Heap!Cells' = 0..(2 * m) /\ mode' = mode /\ depth' = depth /\ holders' = holders /\ starts' = starts
      /\ RootOf(mode') = R
  BY <1>1, <1>2 DEF Heap!Cells
<1>5. Heap!Visit(cells) /\ visits' = visits + Cardinality(back) + sum
  BY <1>2, <1>3, HeapCounts
<1>6. ASSUME NEW c \in D
      PROVE  /\ OnTour(cursors'[c], R[c], 0..(2 * m))
             /\ Passed(cursors[c]) \cup a[c] = Passed(cursors'[c])
             /\ Passed(cursors[c]) \cap a[c] = {}
             /\ IsFiniteSet(a[c]) /\ Cardinality(a[c]) \in Nat
             /\ Heap!Done(cursors[c]) => cursors'[c] = cursors[c]
  <2>1. OnTour(cursors[c], R[c], 0..(2 * m))
    BY <1>0, <1>1 DEF Routes
  <2>2. speed[c] \in Nat /\ cursors'[c] = Heap!Reached(cursors[c], speed[c])
    <3>1. speed[c] \in 0..MaxSpeed /\ cursors'[c] = Heap!Reached(cursors[c], speed[c])
      BY <1>2, <1>3
    <3> QED
      BY <3>1, HeapConstants
  <2>3. a[c] = Heap!Arrivals(cursors[c], cursors'[c])
    OBVIOUS
  <2> HIDE DEF a, R, D
  <2>4. PICK k : k = cursors[c]
    OBVIOUS
  <2>5. PICK d : d = cursors'[c]
    OBVIOUS
  <2>6. PICK n : n = speed[c]
    OBVIOUS
  <2>7. OnTour(k, R[c], 0..(2 * m)) /\ n \in Nat /\ d = Heap!Reached(k, n)
    BY <2>1, <2>2, <2>4, <2>5, <2>6
  <2>8. /\ OnTour(d, R[c], 0..(2 * m))
        /\ Passed(k) \cup Heap!Arrivals(k, d) = Passed(d)
        /\ Passed(k) \cap Heap!Arrivals(k, d) = {}
        /\ IsFiniteSet(Heap!Arrivals(k, d)) /\ Cardinality(Heap!Arrivals(k, d)) \in Nat
        /\ Heap!Done(k) => d = k
    BY <2>7, CursorMoves
  <2> QED
    BY <2>3, <2>4, <2>5, <2>8
<1>7. HeapTyped'
  BY <1>0, <1>4 DEF HeapTyped
<1>8. Routes'
  <2>1. cursors' = [c \in D |-> cursors'[c]]
    BY <1>2, <1>3
  <2> QED
    BY <1>4, <1>6, <2>1, RoutesAfter
<1> HIDE DEF a
<1>9. ~(\A c \in D : Heap!Done(cursors[c])) /\ ~Home
  <2>1. ASSUME \A c \in D : Heap!Done(cursors[c]) PROVE FALSE
    <3>1. \A c \in D : cursors'[c] = cursors[c]
      BY <1>6, <2>1
    <3>2. cursors = [c \in D |-> cursors[c]] /\ cursors' = [c \in D |-> cursors'[c]]
      BY <1>0, <1>2, <1>3 DEF Routes
    <3>3. cursors' = cursors
      BY <3>1, <3>2
    <3> QED
      BY <1>2, <3>3
  <2> QED
    BY <1>3, <2>1 DEF Home
<1>10. D = IF mode = "none" THEN {} ELSE IF mode = "parallel" THEN {1, 2} ELSE {1}
  BY <1>0, <1>1, RootsAre DEF HeapTyped
<1> HIDE DEF D, R
<1>11. Moved(cells, Cardinality(back), sum)
  <2>1. CASE mode = "parallel"
    <3>1. D = {1, 2}
      BY <1>10, <2>1
    <3> QED
      BY <1>0, <1>1, <1>3, <1>4, <1>6, <1>8, <1>9, <2>1, <3>1, TwoCursors
  <2>2. CASE mode # "parallel"
    <3>1. D = {1}
      BY <1>9, <1>10, <2>2
    <3>2. a[1] \subseteq Heap!Cells
      <4>1. 1 \in D
        BY <3>1
      <4>2. Passed(cursors'[1]) \subseteq UnderIn(0..(2 * m), R[1])
        BY <1>6, <4>1, PassedAre
      <4> QED
        BY <1>1, <1>6, <4>1, <4>2 DEF UnderIn
    <3> QED
      BY <1>0, <1>3, <1>6, <2>2, <3>1, <3>2, OneCursor
  <2> QED
    BY <2>1, <2>2
<1>12. /\ cells \in SUBSET Heap!Cells /\ cells \cap visited = {}
       /\ Cardinality(back) \in Nat /\ sum \in Nat /\ Cardinality(back) + sum = Cardinality(cells)
       /\ visited \cup cells = (UNION {Passed(cursors'[c]) : c \in DOMAIN cursors})
            \cup (IF mode = "parallel" /\ \A c \in DOMAIN cursors : Heap!Done(cursors'[c]) THEN {0} ELSE {})
  BY <1>11 DEF Moved
<1>13. visited \subseteq Heap!Cells
  <2>1. \A c \in D : Passed(cursors[c]) \subseteq Heap!Cells
    <3> SUFFICES ASSUME NEW c \in D PROVE Passed(cursors[c]) \subseteq Heap!Cells
      OBVIOUS
    <3>1. OnTour(cursors[c], R[c], Heap!Cells)
      BY <1>0 DEF Routes, D, R
    <3> QED
      BY <3>1, PassedAre DEF UnderIn
  <2> QED
    BY <1>0, <1>3, <1>9, <2>1 DEF Seen
<1>14. visits' = visits + Cardinality(cells)
  <2>1. visits \in Int
    <3>1. IsFiniteSet(visited)
      <4>1. IsFiniteSet(Heap!Cells)
        BY <1>1, FS_Interval
      <4> QED
        BY <1>13, <4>1, FS_Subset
    <3> QED
      BY <1>0, <3>1, FS_CardinalityType DEF Counting
  <2> HIDE DEF cells, sum, back
  <2> QED
    BY <1>5, <1>12, <2>1
<1> HIDE DEF cells, sum, back
<1>15. Counting' /\ visited' = visited \cup cells
  BY <1>0, <1>1, <1>4, <1>5, <1>12, <1>13, <1>14, VisitKeeps
<1>16. Seen'
  BY <1>3, <1>4, <1>12, <1>15, SeenAfter
<1> QED
  BY <1>7, <1>8, <1>15, <1>16 DEF HeapKept

\* A run that has not begun has visited nothing, and its counters are at 0.
Fresh == /\ \A c \in DOMAIN cursors : cursors[c].at = 0
         /\ mode = "parallel" => 1 \in DOMAIN cursors
         /\ holders = (IF mode \in Heap!Sharing THEN 2 ELSE 1)
         /\ rc = Heap!Rebuilt(mode)
         /\ visited = {} /\ copies = {} /\ allocs = 0 /\ incs = 0 /\ visits = 0

\* It is as the invariant has it.
LEMMA FreshIsKept == HeapTyped /\ Routes /\ Fresh => HeapKept
<1> SUFFICES ASSUME HeapTyped, Routes, Fresh PROVE HeapKept
  OBVIOUS
<1>1. PICK m \in Nat \ {0} : Heap!Cells = 0..(2 * m)
  BY CellsAre DEF HeapTyped
<1>2. ASSUME NEW c \in DOMAIN cursors PROVE Passed(cursors[c]) = {} /\ ~Heap!Done(cursors[c])
  <2>1. cursors[c].at = 0 /\ cursors[c].order \in Seq(Heap!Cells)
    BY DEF Fresh, Routes, OnTour, Tour
  <2>2. Len(cursors[c].order) \in Nat
    BY <2>1
  <2>3. ~Heap!Done(cursors[c])
    BY <2>1, <2>2 DEF Heap!Done
  <2>4. Upto(cursors[c]) = 0
    BY <2>1, <2>2 DEF Upto
  <2>5. Passed(cursors[c]) = {}
    BY <2>4 DEF Passed
  <2> QED
    BY <2>3, <2>5
<1>3. Seen
  BY <1>2 DEF Seen, Home, Fresh
<1>4. Counting
  <2>1. Shared(Heap!Cells, {}) = {} /\ Cardinality({}) = 0
    BY FS_EmptySet DEF Shared
  <2>2. rc = [i \in Heap!Cells |-> IF i = 0 THEN holders ELSE 1]
    BY DEF Fresh, Heap!Rebuilt
  <2> QED
    BY <2>1, <2>2 DEF Counting, Fresh
<1> QED
  BY <1>3, <1>4 DEF HeapKept

\* The heap starts without a run.
LEMMA HeapInit == Heap!Init => HeapKept
<1> SUFFICES ASSUME Heap!Init PROVE HeapKept
  OBVIOUS
<1>1. HeapTyped
  BY HeapConstants DEF Heap!Init, HeapTyped
<1>2. Routes
  BY DEF Heap!Init, Routes, RootOf
<1>3. Fresh
  <2>1. Heap!Rebuilt("none") = [i \in Heap!Cells |-> 1]
    BY DEF Heap!Rebuilt, Heap!Sharing
  <2> QED
    BY <2>1 DEF Fresh, Heap!Init, Heap!Sharing
<1> QED
  BY <1>1, <1>2, <1>3, FreshIsKept

\* Beginning a run keeps the heap's invariant.
LEMMA HeapBegin ==
  ASSUME HeapKept, NEW md \in {"owned", "shared", "vault", "parallel", "none"}, Heap!Begin(md)
  PROVE  HeapTyped' /\ Routes' /\ Fresh'
<1>0. HeapTyped /\ Routes
  BY DEF HeapKept
<1>1. PICK m \in Nat \ {0} : Heap!Cells = 0..(2 * m)
  BY <1>0, CellsAre DEF HeapTyped
<1>2. Heap!Cells' = 0..(2 * m) /\ mode' = md /\ depth' = depth
  BY <1>1 DEF Heap!Begin, Heap!Cells
<1>3. HeapTyped'
  BY <1>0, <1>2, HeapConstants DEF HeapTyped, Heap!Begin
<1>4. /\ Heap!Roots(md) = RootOf(md)
      /\ DOMAIN RootOf(md) = IF md = "none" THEN {} ELSE IF md = "parallel" THEN {1, 2} ELSE {1}
      /\ \A c \in DOMAIN RootOf(md) : RootOf(md)[c] \in 0..(2 * m)
  BY <1>1, RootsAre
<1>5. cursors' = [c \in DOMAIN RootOf(md) |-> [order |-> Heap!Preorder(RootOf(md)[c]), at |-> 0]]
  BY <1>4 DEF Heap!Begin
<1>6. ASSUME NEW c \in DOMAIN RootOf(md) PROVE OnTour(cursors'[c], RootOf(md)[c], 0..(2 * m))
  <2>1. Tour(Heap!Preorder(RootOf(md)[c]), RootOf(md)[c], 0..(2 * m))
    BY <1>1, <1>4, PreorderTours
  <2>2. PICK w : w = Heap!Preorder(RootOf(md)[c])
    OBVIOUS
  <2>3. cursors'[c] = [order |-> w, at |-> 0]
    BY <1>5, <2>2
  <2>4. Len(w) \in Nat
    BY <2>1, <2>2, LenProperties DEF Tour
  <2> QED
    BY <2>1, <2>2, <2>3, <2>4 DEF OnTour
<1>7. Routes'
  <2>1. cursors' = [c \in DOMAIN RootOf(md) |-> cursors'[c]]
    BY <1>5
  <2> QED
    BY <1>2, <1>6, <2>1, RoutesAfter
<1>8. Fresh'
  <2>1. DOMAIN cursors' = DOMAIN RootOf(md) /\ \A c \in DOMAIN cursors' : cursors'[c].at = 0
    BY <1>5
  <2>2. /\ holders' = IF md \in Heap!Sharing THEN 2 ELSE 1
        /\ rc' = Heap!Rebuilt(md)
        /\ visited' = {} /\ copies' = {} /\ allocs' = 0 /\ incs' = 0 /\ visits' = 0
    BY DEF Heap!Begin
  <2>3. Heap!Rebuilt(mode)' = Heap!Rebuilt(md)
    BY <1>1, <1>2 DEF Heap!Rebuilt
  <2> QED
    BY <1>2, <1>4, <2>1, <2>2, <2>3 DEF Fresh
<1> QED
  BY <1>3, <1>7, <1>8

\* Every step of the heap keeps its invariant.
LEMMA HeapKeeps == ASSUME HeapKept, [Heap!Next]_heapVars PROVE HeapKept'
<1> DEFINE Begins == \E md \in {"owned", "shared", "vault", "parallel", "none"} : Heap!Begin(md)
<1>1. CASE Begins
  <2>1. HeapTyped' /\ Routes' /\ Fresh'
    BY <1>1, HeapBegin
  <2>2. HeapTyped' /\ Routes' /\ Fresh' => HeapKept'
    BY FreshIsKept, PTL
  <2> QED
    BY <2>1, <2>2
<1>2. CASE Heap!Step
  BY <1>2, HeapStep
<1>3. CASE UNCHANGED heapVars
  <2>1. UNCHANGED <<depth, mode, cursors, rc, holders, visited, copies, allocs, incs, visits, starts>>
    BY <1>3 DEF heapVars
  <2>2. Heap!Cells' = Heap!Cells
    BY <2>1 DEF Heap!Cells
  <2>3. HeapTyped'
    BY <2>1 DEF HeapKept, HeapTyped
  <2>4. Routes'
    BY <2>1, <2>2, RoutesAfter DEF HeapKept, Routes
  <2>5. Seen'
    BY <2>1, SeenAfter DEF HeapKept, Seen, Home
  <2>6. Counting'
    BY <2>1, <2>2 DEF HeapKept, Counting, Shared, Heap!Parent
  <2> QED
    BY <2>3, <2>4, <2>5, <2>6 DEF HeapKept
<1>4. Begins \/ Heap!Step \/ UNCHANGED heapVars
  BY DEF Heap!Next, Heap!Start, Heap!Reset, Heap!Modes, Heap!Idle, Heap!vars, heapVars
<1> QED
  BY <1>1, <1>2, <1>3, <1>4

\* A cell that is visited: by which cursor, and where on its tour.
LEMMA Visited ==
  ASSUME Routes, Seen, NEW i \in visited
  PROVE  \/ Home /\ i = 0
         \/ \E c \in DOMAIN RootOf(mode) : \E p \in 1..Len(cursors[c].order) :
              /\ i = cursors[c].order[p]
              /\ \A q \in 1..p : cursors[c].order[q] \in visited
<1> SUFFICES ASSUME ~(Home /\ i = 0)
    PROVE \E c \in DOMAIN RootOf(mode) : \E p \in 1..Len(cursors[c].order) :
              /\ i = cursors[c].order[p]
              /\ \A q \in 1..p : cursors[c].order[q] \in visited
  OBVIOUS
<1>1. DOMAIN cursors = DOMAIN RootOf(mode)
  BY DEF Routes
<1>2. PICK c \in DOMAIN cursors : i \in Passed(cursors[c])
  BY DEF Seen
<1>3. PICK p \in 1..Upto(cursors[c]) : i = cursors[c].order[p]
  BY <1>2 DEF Passed
<1>4. cursors[c].order \in Seq(Heap!Cells) /\ cursors[c].at \in 0..(Len(cursors[c].order) + 1)
  BY <1>1, <1>2 DEF Routes, OnTour, Tour
<1>5. PICK l \in Nat, u \in Int : l = Len(cursors[c].order) /\ u = Upto(cursors[c]) /\ u <= l
  <2>1. PICK l \in Nat : l = Len(cursors[c].order)
    BY <1>4
  <2>2. Upto(cursors[c]) \in Int /\ Upto(cursors[c]) <= l
    BY <1>4, <2>1 DEF Upto
  <2> QED
    BY <2>1, <2>2
<1>6. p \in 1..Len(cursors[c].order) /\ \A q \in 1..p : q \in 1..Upto(cursors[c])
  BY <1>5
<1>7. \A q \in 1..p : cursors[c].order[q] \in visited
  BY <1>2, <1>6 DEF Seen, Passed
<1> QED
  BY <1>1, <1>3, <1>6, <1>7

\* Cells are visited in the code's order: a cell's place on its tour says so.
LEMMA InOrderKept == ASSUME HeapKept PROVE Heap!InOrder
<1>0. HeapTyped /\ Routes /\ Seen
  BY DEF HeapKept
<1>1. PICK m \in Nat \ {0} : Heap!Cells = 0..(2 * m)
  BY <1>0, CellsAre DEF HeapTyped
<1> SUFFICES ASSUME NEW i \in visited \ {0}
             PROVE  /\ Heap!Parent(i) \in visited \/ (mode = "parallel" /\ Heap!Parent(i) = 0)
                    /\ i % 2 = 0 /\ (mode = "parallel" => Heap!Parent(i) # 0)
                         => Heap!Under(i - 1) \subseteq visited
  BY DEF Heap!InOrder
<1>2. PICK c \in DOMAIN RootOf(mode) : \E p \in 1..Len(cursors[c].order) :
              /\ i = cursors[c].order[p]
              /\ \A q \in 1..p : cursors[c].order[q] \in visited
  BY <1>0, Visited
<1>3. PICK w : w = cursors[c].order
  OBVIOUS
<1>4. PICK p \in 1..Len(w) : i = w[p] /\ \A q \in 1..p : w[q] \in visited
  BY <1>2, <1>3
<1>5. Tour(w, RootOf(mode)[c], Heap!Cells)
  BY <1>0, <1>3 DEF Routes, OnTour
<1>6. CASE p = 1
  <2>1. i = RootOf(mode)[c]
    BY <1>4, <1>5, <1>6 DEF Tour
  <2>2. mode = "parallel" /\ i \in {1, 2}
    BY <1>0, <2>1 DEF RootOf, HeapTyped
  <2>3. Heap!Parent(1) = 0 /\ Heap!Parent(2) = 0
    <3>1. Heap!Parent(2 * 0 + 1) = 0 /\ Heap!Parent(2 * 0 + 2) = 0
      BY ParentIs
    <3> QED
      BY <3>1
  <2> QED
    BY <2>2, <2>3
<1>7. CASE p # 1
  <2>1. Len(w) \in Nat
    BY <1>5, LenProperties DEF Tour
  <2>2. p \in 2..Len(w) /\ \A q \in 1..(p - 1) : q \in 1..p
    BY <1>7, <2>1
  <2>3. /\ \E q \in 1..(p - 1) : w[q] = Heap!Parent(w[p])
        /\ w[p] % 2 = 0 => \A k \in UnderIn(Heap!Cells, w[p] - 1) : \E q \in 1..(p - 1) : w[q] = k
    BY <1>5, <2>2 DEF Tour
  <2>4. Heap!Parent(i) \in visited
    BY <1>4, <2>2, <2>3
  <2>5. i % 2 = 0 => UnderIn(Heap!Cells, i - 1) \subseteq visited
    BY <1>4, <2>2, <2>3
  <2> QED
    BY <2>4, <2>5, UnderAlike
<1> QED
  BY <1>6, <1>7

\* What the cursors have passed when all are through.
LEMMA ThroughAll ==
  ASSUME HeapKept, Heap!Over \/ Home PROVE visited = Heap!Cells
<1>0. HeapTyped /\ Routes /\ Seen
  BY DEF HeapKept
<1>1. PICK m \in Nat \ {0} : Heap!Cells = 0..(2 * m)
  BY <1>0, CellsAre DEF HeapTyped
<1>2. mode # "none" /\ DOMAIN cursors = DOMAIN RootOf(mode) /\ \A c \in DOMAIN cursors : Heap!Done(cursors[c])
  BY <1>0 DEF Heap!Over, Home, Routes
<1>3. \A c \in DOMAIN RootOf(mode) : Passed(cursors[c]) = UnderIn(0..(2 * m), RootOf(mode)[c])
  BY <1>0, <1>1, <1>2, PassedAre DEF Routes
<1>4. CASE mode = "parallel"
  <2>1. DOMAIN RootOf(mode) = {1, 2} /\ RootOf(mode)[1] = 1 /\ RootOf(mode)[2] = 2
    BY <1>4 DEF RootOf
  <2>2. Home
    BY <1>2, <1>4 DEF Home
  <2>3. visited = Passed(cursors[1]) \cup Passed(cursors[2]) \cup {0}
    BY <1>0, <1>2, <2>1, <2>2 DEF Seen
  <2>4. Passed(cursors[1]) = UnderIn(0..(2 * m), 1) /\ Passed(cursors[2]) = UnderIn(0..(2 * m), 2)
    BY <1>3, <2>1
  <2>5. {0} \cup UnderIn(0..(2 * m), 1) \cup UnderIn(0..(2 * m), 2) = 0..(2 * m)
    BY HalvesAre
  <2> QED
    BY <1>1, <2>3, <2>4, <2>5
<1>5. CASE mode # "parallel"
  <2>1. DOMAIN RootOf(mode) = {1} /\ RootOf(mode)[1] = 0
    BY <1>0, <1>2, <1>5 DEF RootOf, HeapTyped
  <2>2. ~Home
    BY <1>5 DEF Home
  <2>3. visited = Passed(cursors[1])
    BY <1>0, <1>2, <2>1, <2>2 DEF Seen
  <2>4. Passed(cursors[1]) = UnderIn(0..(2 * m), 0)
    BY <1>3, <2>1
  <2>5. 0 \in 0..(2 * m)
    OBVIOUS
  <2>6. UnderIn(0..(2 * m), 0) = 0..(2 * m)
    BY <2>5, UnderIs
  <2> QED
    BY <1>1, <2>3, <2>4, <2>6
<1> QED
  BY <1>4, <1>5

\* What is typed in the code's words.
LEMMA HeapTypesKept == ASSUME HeapKept PROVE Heap!TypeOK
<1>0. HeapTyped /\ Routes /\ Seen /\ Counting
  BY DEF HeapKept
<1>1. PICK m \in Nat \ {0} : Heap!Cells = 0..(2 * m)
  BY <1>0, CellsAre DEF HeapTyped
<1>2. \A c \in DOMAIN cursors : cursors[c].at \in 0..(Len(cursors[c].order) + 1)
  BY <1>0 DEF Routes, OnTour
<1>3. Len(cursors) <= 2
  <2>1. PICK n \in 0..2 : DOMAIN RootOf(mode) = 1..n
    <3>1. DOMAIN RootOf(mode) = IF mode = "none" THEN {} ELSE IF mode = "parallel" THEN {1, 2} ELSE {1}
      BY <1>0, <1>1, RootsAre DEF HeapTyped
    <3>2. 1..0 = {} /\ 1..1 = {1} /\ 1..2 = {1, 2}
      OBVIOUS
    <3> QED
      BY <3>1, <3>2
  <2> DEFINE S == {cursors[c] : c \in 1..n}
  <2>2. cursors = [c \in 1..n |-> cursors[c]]
    BY <1>0, <2>1 DEF Routes
  <2>3. cursors \in Seq(S)
    <3>1. \A c \in 1..n : cursors[c] \in S
      OBVIOUS
    <3> HIDE DEF S
    <3>2. [c \in 1..n |-> cursors[c]] \in Seq(S)
      BY <3>1
    <3> QED
      BY <2>2, <3>2, Zenon
  <2> HIDE DEF S
  <2>4. Len(cursors) \in Nat /\ DOMAIN cursors = 1..Len(cursors)
    BY <2>3, LenProperties
  <2>5. Len(cursors) = n
    <3>1. PICK l \in Nat : l = Len(cursors) /\ 1..l = 1..n
      <4>1. DOMAIN cursors = 1..n
        BY <2>2
      <4> QED
        BY <2>4, <4>1
    <3>2. (n = 0 \/ n \in 1..n) /\ (l = 0 \/ l \in 1..l)
      OBVIOUS
    <3>3. (n = 0 \/ n \in 1..l) /\ (l = 0 \/ l \in 1..n)
      BY <3>1, <3>2
    <3> QED
      BY <3>1, <3>3
  <2> QED
    BY <2>5
<1>4. visited \subseteq Heap!Cells
  <2>1. \A c \in DOMAIN cursors : Passed(cursors[c]) \subseteq Heap!Cells
    <3> SUFFICES ASSUME NEW c \in DOMAIN cursors PROVE Passed(cursors[c]) \subseteq Heap!Cells
      OBVIOUS
    <3>1. OnTour(cursors[c], RootOf(mode)[c], Heap!Cells)
      BY <1>0 DEF Routes
    <3> QED
      BY <3>1, PassedAre DEF UnderIn
  <2>2. 0 \in Heap!Cells
    BY <1>1
  <2> QED
    BY <1>0, <2>1, <2>2 DEF Seen
<1>5. copies \subseteq Heap!Cells
  BY <1>0, <1>4 DEF Counting
<1>6. {allocs, incs, visits} \subseteq Nat
  <2>1. IsFiniteSet(Heap!Cells) /\ Shared(Heap!Cells, copies) \subseteq Heap!Cells
    BY <1>1, FS_Interval DEF Shared
  <2>2. IsFiniteSet(visited) /\ IsFiniteSet(copies) /\ IsFiniteSet(Shared(Heap!Cells, copies))
    BY <1>4, <1>5, <2>1, FS_Subset
  <2>3. Cardinality(visited) \in Nat /\ Cardinality(copies) \in Nat /\ Cardinality(Shared(Heap!Cells, copies)) \in Nat
    BY <2>2, FS_CardinalityType
  <2> QED
    BY <1>0, <2>3 DEF Counting
<1>7. rc \in [Heap!Cells -> 1..2] /\ holders \in 1..2
  BY <1>0 DEF Counting
<1> QED
  BY <1>0, <1>2, <1>3, <1>4, <1>5, <1>6, <1>7 DEF HeapTyped, Heap!TypeOK, Heap!Modes

\* And so WalkOK holds, part by part.
LEMMA HeapKeptIsOK == HeapKept => Heap!WalkOK
<1> SUFFICES ASSUME HeapKept PROVE Heap!WalkOK
  OBVIOUS
<1>0. HeapTyped /\ Routes /\ Seen /\ Counting
  BY DEF HeapKept
<1>1. PICK m \in Nat \ {0} : Heap!Cells = 0..(2 * m)
  BY <1>0, CellsAre DEF HeapTyped
<1>2. Heap!RootLast
  <2> SUFFICES ASSUME mode = "parallel", 0 \in visited PROVE visited = Heap!Cells
    BY DEF Heap!RootLast
  <2>1. DOMAIN RootOf(mode) = {1, 2} /\ RootOf(mode)[1] = 1 /\ RootOf(mode)[2] = 2
    BY DEF RootOf
  <2>2. OnTour(cursors[1], 1, 0..(2 * m)) /\ OnTour(cursors[2], 2, 0..(2 * m)) /\ DOMAIN cursors = {1, 2}
    BY <1>0, <1>1, <2>1 DEF Routes
  <2>3. 0 \notin Passed(cursors[1]) /\ 0 \notin Passed(cursors[2])
    <3>1. Passed(cursors[1]) \subseteq UnderIn(0..(2 * m), 1) /\ Passed(cursors[2]) \subseteq UnderIn(0..(2 * m), 2)
      BY <2>2, PassedAre
    <3>2. 0 \notin UnderIn(0..(2 * m), 1) /\ 0 \notin UnderIn(0..(2 * m), 2)
      BY HalvesAre
    <3> QED
      BY <3>1, <3>2
  <2>4. Home
    BY <1>0, <2>2, <2>3 DEF Seen
  <2> QED
    BY <2>4, ThroughAll
<1>3. Heap!VisitedOnce
  BY <1>0, HeapCounts DEF Counting, Heap!VisitedOnce
<1>4. Heap!CountsAreReferences
  BY <1>0 DEF Counting, Heap!CountsAreReferences
<1>5. Heap!EndsOnMeasured
  <2> SUFFICES ASSUME Heap!Over
               PROVE  /\ visited = Heap!Cells
                      /\ allocs = (IF mode \in Heap!Sharing THEN Cardinality(Heap!Cells) ELSE 0)
                      /\ incs = (IF mode \in Heap!Sharing THEN Cardinality(Heap!Cells) - 1 ELSE 0)
    BY HeapCounts DEF Heap!EndsOnMeasured
  <2>1. visited = Heap!Cells
    BY ThroughAll
  <2>2. Shared(Heap!Cells, Heap!Cells) = Heap!Cells \ {0} /\ Shared(Heap!Cells, {}) = {} /\ 0 \in Heap!Cells
    <3>1. \A k \in (0..(2 * m)) \ {0} : Heap!Parent(k) \in 0..(2 * m)
      <4> SUFFICES ASSUME NEW k \in (0..(2 * m)) \ {0} PROVE Heap!Parent(k) \in 0..(2 * m)
        OBVIOUS
      <4>1. Heap!Parent(k) \in Nat /\ Heap!Parent(k) < k
        BY ParentIs
      <4> QED
        BY <4>1
    <3> QED
      BY <1>1, <3>1 DEF Shared
  <2>3. Cardinality(Heap!Cells \ {0}) = Cardinality(Heap!Cells) - 1 /\ Cardinality({}) = 0
    <3>1. IsFiniteSet(Heap!Cells)
      BY <1>1, FS_Interval
    <3> QED
      BY <2>2, <3>1, FS_RemoveElement, FS_EmptySet
  <2> QED
    BY <1>0, <2>1, <2>2, <2>3 DEF Counting
<1> QED
  BY <1>2, <1>3, <1>4, <1>5, HeapTypesKept, InOrderKept DEF Heap!WalkOK

-------------------------------------------------------------------------------
(* The page of figures.                                                    *)

\* One figure moves at a time; what it does, it does to its own variables.
LEMMA OneMoves ==
  ASSUME [Next]_vars
  PROVE  [Mailbox!Next]_mailboxVars /\ [Heap!Next]_heapVars /\ [Story!Next]_storyVars
BY DEF Next, vars

\* The mailbox, the actor's state and code and the page's counters agree, for
\* any burst of messages, any deploy, hold and crash (SimMailbox.MailboxOK).
THEOREM MailboxAlwaysOK == Spec => []MailboxOK
<1>1. Init => MailboxKept
  BY MailboxInit DEF Init
<1>2. MailboxKept /\ [Next]_vars => MailboxKept'
  BY OneMoves, MailboxKeeps
<1> QED
  BY <1>1, <1>2, MailboxKeptIsOK, PTL DEF Spec, MailboxOK

\* The tree is walked in order and each cell once, its counts are its references
\* throughout and a run ends on the measured figures, for a tree of any depth, cursors
\* of any speed and any sequence of runs (SimHeap.WalkOK).
THEOREM WalkAlwaysOK == Spec => []WalkOK
<1>1. Init => HeapKept
  BY HeapInit DEF Init
<1>2. HeapKept /\ [Next]_vars => HeapKept'
  BY OneMoves, HeapKeeps
<1> QED
  BY <1>1, <1>2, HeapKeptIsOK, PTL DEF Spec, WalkOK

\* The card, the picture and the fades under way agree, however the reader
\* scrolls and whichever drawing fails (StoryPage.SectionOK).
THEOREM SectionAlwaysOK == Spec => []SectionOK
<1>1. Init => StoryKept
  BY StoryInit DEF Init
<1>2. StoryKept /\ [Next]_vars => StoryKept'
  BY OneMoves, StoryKeeps
<1>3. StoryKept => SectionOK
  BY DEF StoryKept, SectionOK
<1> QED
  BY <1>1, <1>2, <1>3, PTL DEF Spec

\* A picture is not replaced while it is on screen (StoryPage.NoFlicker).
THEOREM NeverFlickers == Spec => NoFlicker
<1>1. Init => StoryKept
  BY StoryInit DEF Init
<1>2. StoryKept /\ [Next]_vars => StoryKept' /\ NoFlash
  BY OneMoves, StoryKeeps
<1> QED
  BY <1>1, <1>2, PTL DEF Spec, NoFlicker, Story!NoFlicker, NoFlash
=================================================================================
