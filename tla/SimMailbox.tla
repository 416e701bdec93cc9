------------------------------ MODULE SimMailbox ------------------------------
(***************************************************************************)
(* One actor and its mailbox (assets/explainer/sim-mailbox.js): messages   *)
(* queue and are handled one at a time; a deploy lands in the mailbox as a *)
(* marker; a crash loses the mailbox and the state.                        *)
(*                                                                         *)
(* Time advances in ticks, one per call of step(); how many messages       *)
(* arrive in a tick is a choice (the code draws the intervals).            *)
(***************************************************************************)
EXTENDS Integers, Sequences, FiniteSets

CONSTANTS ServiceS, MigrateS, RestartS,  \* in ticks
          Parked,        \* cfg.parked: the sessions the actor keeps
          Backlog,       \* cfg.backlog: messages queued at the start
          Burst,         \* bound: messages that arrive in one tick
          MaxMessages,   \* bound: messages that arrive in a behaviour
          MaxCrashes     \* bound: crashes

\* What is asked of the constants; the module of a run assumes it.
MailboxAssumption ==
  /\ {ServiceS, MigrateS, RestartS} \subseteq Nat \ {0}
  /\ {Parked, Backlog, Burst, MaxMessages, MaxCrashes} \subseteq Nat

Epochs == {1, 2}
Marker == [kind |-> "marker", epoch |-> 2]
Msg(e) == [kind |-> "msg", epoch |-> e]

VARIABLES
  queue, service,            \* the mailbox; ticks spent on its head
  version, epoch, deployed,  \* code the actor runs, code senders assume
  migrating, migrateLeft, held, holds,
  up, downFor, restarts,     \* status = "up"
  total, handled,            \* the actor's state; messages per code version
  parked, serving,           \* sessions it keeps, the one being resumed (-1)
  dropped, arrived,
  done,                      \* history: what was handled, on which code, since the restart
  lost                       \* history: has a crash taken the marker with it?

deployVars  == <<version, epoch, deployed, holds>>
migrateVars == <<migrating, migrateLeft, held>>
lifeVars    == <<up, downFor, restarts>>
workVars    == <<service, total, handled, parked, serving, done>>
vars == <<queue, deployVars, migrateVars, lifeVars, workVars, dropped, arrived, lost>>

TypeOK ==
  /\ queue \in Seq({Marker, Msg(1), Msg(2)})
  /\ service \in 0..(ServiceS - 1)
  /\ version \in Epochs /\ epoch \in Epochs
  /\ {deployed, migrating, held, holds, up} \subseteq BOOLEAN
  /\ migrateLeft \in 0..MigrateS
  /\ downFor \in 0..(RestartS - 1)
  /\ restarts \in 0..MaxCrashes
  /\ total \in Nat
  /\ handled \in [{"old", "new"} -> Nat]
  /\ parked \in 0..Parked
  /\ serving \in -1..(Parked - 1)
  /\ dropped \in Nat /\ arrived \in Nat
  /\ done \in Seq([epoch : Epochs, version : Epochs])
  /\ lost \in BOOLEAN

Init ==
  /\ queue = [i \in 1..Backlog |-> Msg(1)]
  /\ service = 0
  /\ version = 1 /\ epoch = 1 /\ deployed = FALSE
  /\ migrating = FALSE /\ migrateLeft = 0
  /\ held = FALSE /\ holds \in BOOLEAN
  /\ up = TRUE /\ downFor = 0 /\ restarts = 0
  /\ total = 0 /\ handled = [old |-> 0, new |-> 0]
  /\ parked = Parked /\ serving = -1
  /\ dropped = 0 /\ arrived = 0
  /\ done = <<>> /\ lost = FALSE

\* deploy()
MayDeploy      == ~deployed /\ up
Deploy == /\ MayDeploy
          /\ deployed' = TRUE
          /\ epoch' = 2
          /\ queue' = Append(queue, Marker)
          /\ UNCHANGED <<version, holds, migrateVars, lifeVars, workVars, dropped, arrived, lost>>

\* releaseHold()
ReleaseHold == /\ holds
               /\ holds' = FALSE
               /\ UNCHANGED <<queue, version, epoch, deployed, migrateVars, lifeVars,
                              workVars, dropped, arrived, lost>>

\* crash(): everything but the code and the configuration is lost.
LosesState_NotServing == \* mutant: the session being resumed is kept
  /\ total' = 0 /\ parked' = 0 /\ handled' = [old |-> 0, new |-> 0]
  /\ UNCHANGED serving
LosesState == /\ total' = 0 /\ parked' = 0 /\ serving' = -1
              /\ handled' = [old |-> 0, new |-> 0]

Crash == /\ up
         /\ restarts < MaxCrashes
         /\ up' = FALSE /\ downFor' = 0
         /\ queue' = <<>> /\ service' = 0 /\ done' = <<>>
         /\ lost' = (lost \/ \E i \in DOMAIN queue : queue[i] = Marker)
         /\ LosesState
         /\ migrating' = FALSE /\ held' = FALSE
         /\ UNCHANGED <<deployVars, migrateLeft, restarts, dropped, arrived>>

-----------------------------------------------------------------------------
(* step(dt), whose messages have arrived in q. *)

Down(q) == /\ ~up
           /\ up' = (downFor + 1 >= RestartS)
           /\ downFor' = IF up' THEN 0 ELSE downFor + 1
           /\ restarts' = IF up' THEN restarts + 1 ELSE restarts
           /\ UNCHANGED <<queue, version, migrateVars, workVars>>

\* At the marker the state is migrated, with nothing handled meanwhile.
Migrated(q)       == queue' = Tail(q)

Migrate(q) ==
  /\ up /\ migrating
  /\ migrateLeft' = migrateLeft - 1
  /\ IF migrateLeft > 1
     THEN queue' = q /\ UNCHANGED <<migrating, version>>
     ELSE migrating' = FALSE /\ version' = 2 /\ Migrated(q)
  /\ UNCHANGED <<held, lifeVars, workVars>>

AtMarker_Ignored(q) == FALSE \* mutant
AtMarker(q) == q # <<>> /\ Head(q) = Marker

MeetMarker(q) ==
  /\ up /\ ~migrating
  /\ AtMarker(q)
  /\ held' = holds
  /\ IF holds THEN UNCHANGED <<migrating, migrateLeft>>
              ELSE migrating' = TRUE /\ migrateLeft' = MigrateS
  /\ queue' = q
  /\ UNCHANGED <<version, lifeVars, workVars>>

\* The message at the head is worked on; the last tick handles it. A session
\* being resumed is drawn when its message begins.
Resumed == IF serving < 0 /\ parked > 0 THEN 0..(parked - 1) ELSE {serving}

Handle(q) ==
  /\ up /\ ~migrating
  /\ q # <<>> /\ ~AtMarker(q)
  /\ IF service + 1 < ServiceS
     THEN /\ service' = service + 1
          /\ serving' \in Resumed
          /\ queue' = q
          /\ UNCHANGED <<total, handled, parked, done>>
     ELSE /\ service' = 0
          /\ serving' = -1
          /\ queue' = Tail(q)
          /\ total' = total + 1
          /\ handled' = [handled EXCEPT ![IF version = 1 THEN "old" ELSE "new"] = @ + 1]
          /\ parked' = IF parked < Parked THEN parked + 1 ELSE parked
          /\ done' = Append(done, [epoch |-> Head(q).epoch, version |-> version])
  /\ UNCHANGED <<version, migrateVars, lifeVars>>

Idle(q) == /\ up /\ ~migrating
           /\ q = <<>>
           /\ UNCHANGED <<queue, version, migrateVars, lifeVars, workVars>>

Step == \E n \in 0..Burst :
  /\ arrived + n <= MaxMessages
  /\ arrived' = arrived + n
  /\ dropped' = IF up THEN dropped ELSE dropped + n
  /\ LET q == queue \o [i \in 1..n |-> Msg(epoch)]
     IN Down(q) \/ Migrate(q) \/ MeetMarker(q) \/ Handle(q) \/ Idle(q)
  /\ UNCHANGED <<epoch, deployed, holds, lost>>

Next == Deploy \/ ReleaseHold \/ Crash \/ Step

Spec == Init /\ [][Next]_vars

\* Frames are drawn while the figure is on screen; a session party lets go.
FairSpec == Spec /\ WF_vars(Step) /\ WF_vars(ReleaseHold)

-----------------------------------------------------------------------------
(* Properties. *)

\* "Messages ahead of it finish on the old code; [...] everything after runs on
\* the new code" (sim-mailbox.js:11-13), unless a crash took the marker with it.
HandledByItsCode == ~lost => \A i \in DOMAIN done : done[i].version = done[i].epoch

\* The actor's total and the page's two counters are what it has handled since
\* it last started, migrated or not, and it kept the senders' order.
CountsWhatItHandled ==
  /\ total = Len(done)
  /\ handled.old = Cardinality({i \in DOMAIN done : done[i].version = 1})
  /\ handled.new = Cardinality({i \in DOMAIN done : done[i].version = 2})

\* Messages sent under the old code are ahead of the marker, those sent under
\* the new code behind it, and there is one marker until the state is migrated.
MarkerParts ==
  /\ Cardinality({i \in DOMAIN queue : queue[i] = Marker})
       = (IF deployed /\ version = 1 /\ ~lost THEN 1 ELSE 0)
  /\ \A i, j \in DOMAIN queue : i < j => queue[i].epoch <= queue[j].epoch
  /\ migrating \/ held => queue # <<>> /\ Head(queue) = Marker

\* The session being resumed is one the actor still keeps.
ResumesAParkedSession == serving >= 0 => serving < parked /\ queue # <<>>

\* Every message is handled, dropped by a crashed actor, waiting, or was lost
\* in a crash: without crashes none is lost.
NothingLost == restarts = 0 /\ up =>
  Backlog + arrived = total + Cardinality({i \in DOMAIN queue : queue[i].kind = "msg"})

\* The mailbox, the actor's state and code and the page's counters agree, after
\* any crash.
MailboxOK == /\ TypeOK /\ HandledByItsCode
             /\ MarkerParts /\ CountsWhatItHandled
             /\ ResumesAParkedSession /\ NothingLost

\* A deploy takes effect once the hold is released, unless its marker is lost.
DeployLands == deployed ~> version = 2 \/ lost
===============================================================================
