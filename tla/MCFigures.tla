------------------------------ MODULE MCFigures ------------------------------
(* The explainer's figures that are small enough for one run: the mailbox,   *)
(* the heap, the story page with its canvas, and the cluster of two hosts.   *)
(* The reader is at one of them; the others wait as they were when the page  *)
(* was opened, so that the run is each figure's behaviours, not their        *)
(* product.                                                                  *)
EXTENDS Integers, Sequences

CONSTANTS
    ServiceS, MigrateS, RestartS, Parked, Backlog, Burst, MaxMessages, MaxCrashes,
    Depths, MaxSpeed, MaxStarts,
    NCards, Refusable, Doubtful, None, MaxMoves,
    NHosts, Books, StockCapacity, LedgerCapacity, NoticeS, SuspectS, HostRestartS, SettleS,
    Travel, Bounce, Lengths, MaxSessions, MaxRevives

VARIABLES
    atFigure,
    queue, service, version, epoch, deployed, migrating, migrateLeft, held, holds,
    up, downFor, restarts, total, handled, parked, serving, dropped, arrived, done, lost,
    depth, mode, cursors, rc, holders, visited, copies, allocs, incs, visits, starts,
    current, picture, fade, timers, visible, still, broken,
    layout, line, watched, scheduled, failed, errors, moves, hasty,
    host, stock, ledger, ledgerSlots, sessions, nextId, rr, counters, turn, todo

mailboxVars == <<queue, service, version, epoch, deployed, migrating, migrateLeft, held, holds,
                 up, downFor, restarts, total, handled, parked, serving, dropped, arrived, done, lost>>
heapVars    == <<depth, mode, cursors, rc, holders, visited, copies, allocs, incs, visits, starts>>
storyVars   == <<current, picture, fade, timers, visible, still, broken,
                 layout, line, watched, scheduled, failed, errors, moves, hasty>>
clusterVars == <<host, stock, ledger, ledgerSlots, sessions, nextId, rr, counters, turn, todo>>
vars        == <<atFigure, mailboxVars, heapVars, storyVars, clusterVars>>

Mailbox == INSTANCE SimMailbox
Heap    == INSTANCE SimHeap
Story   == INSTANCE StoryPage
Cluster == INSTANCE SimCluster WITH RestartS <- HostRestartS

ASSUME FiguresAssumption ==
    /\ Mailbox!MailboxAssumption
    /\ Heap!HeapAssumption
    /\ Story!CardsAssumption /\ Story!ReaderAssumption

Figures == {"mailbox", "heap", "story", "cluster"}

\* A figure nobody looks at has one state.
Init ==
    /\ atFigure \in Figures
    /\ Mailbox!Init /\ Heap!Init /\ Story!Init /\ Cluster!Init
    /\ atFigure = "mailbox" \/ holds = FALSE
    /\ atFigure = "heap" \/ \A d \in Depths : depth <= d
    /\ atFigure = "story" \/ (still = FALSE /\ broken = {} /\ line = 0)

Next ==
    \/ atFigure = "mailbox" /\ Mailbox!Next /\ UNCHANGED <<atFigure, heapVars, storyVars, clusterVars>>
    \/ atFigure = "heap"    /\ Heap!Next    /\ UNCHANGED <<atFigure, mailboxVars, storyVars, clusterVars>>
    \/ atFigure = "story"   /\ Story!Next   /\ UNCHANGED <<atFigure, mailboxVars, heapVars, clusterVars>>
    \/ atFigure = "cluster" /\ Cluster!Next /\ UNCHANGED <<atFigure, mailboxVars, heapVars, storyVars>>

\* What each module's FairSpec asks of the figure on screen.
Fairness ==
    /\ WF_mailboxVars(atFigure = "mailbox" /\ Mailbox!Step)
    /\ WF_mailboxVars(atFigure = "mailbox" /\ Mailbox!ReleaseHold)
    /\ WF_storyVars(atFigure = "story" /\ (Story!Mount \/ Story!MountFails))
    /\ WF_storyVars(atFigure = "story" /\ Story!Measure)
    /\ WF_storyVars(atFigure = "story" /\ Story!Timer)
    /\ WF_clusterVars(atFigure = "cluster" /\ (Cluster!Step \/ Cluster!StepOn))

Spec == Init /\ [][Next]_vars /\ Fairness

-----------------------------------------------------------------------------
(* The figures' properties, stated and explained in their modules. *)

\* sim-mailbox.js: SimMailbox.MailboxOK.
MailboxOK == Mailbox!MailboxOK
\* sim-mailbox.js: SimMailbox.DeployLands.
DeployLands == Mailbox!DeployLands

\* sim-heap.js: SimHeap.WalkOK.
WalkOK == Heap!WalkOK

\* story.js: StoryPage.SectionOK.
SectionOK == Story!SectionOK
\* chapters.js: StoryPage.NoFlicker.
NoFlicker == Story!NoFlicker
\* story.js: StoryPage.FollowsReader, of the page that is on screen.
FollowsReader == atFigure = "story" => Story!FollowsReader

\* sim-cluster.js: SimCluster.EverySessionEnds.
EverySessionEnds == Cluster!EverySessionEnds
\* sim-cluster.js: SimCluster.SeatIsFilled.
SeatIsFilled == Cluster!SeatIsFilled
===============================================================================
