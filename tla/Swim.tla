--------------------------------- MODULE Swim ---------------------------------
(***************************************************************************)
(* The cluster's failure detector: every node runs the pure core of        *)
(* src/assets/stdlib/cluster_node.js over swim_driver.js, swim.js and      *)
(* membership.js.  Its ticks, links, dials and control frames are actions  *)
(* here; processes that crash and restart, connections that break and acks *)
(* that come too late are the environment's.                               *)
(*                                                                         *)
(* Time is abstract.  A dial may come back at any time; a period may be as *)
(* long as it likes.  A suspect timer runs out in some later period if the *)
(* member is gone; if it runs, only when the cluster was paused for longer *)
(* than suspect_timeout_ms, which is one of the faults.                    *)
(*                                                                         *)
(* Frames cross a link at once, or are lost with it; what has come waits   *)
(* in `pending` for the node's next tick, as in the code.  The two ends of *)
(* a new link are installed in one step.  An answered probe leaves no      *)
(* trace, so only a probe that stays unanswered is kept.  An event is      *)
(* about one member and changes what is known of that one, so events wait  *)
(* by member: between two members their order does not matter.             *)
(***************************************************************************)
EXTENDS Membership, Sequences, FiniteSets

CONSTANTS
  Node,     \* the nodes, by their node_id: numbers, which are compared
  Seeds,    \* Seeds[n]: the nodes whose addresses n is configured with
  Scenarios \* bounds: who has formed a cluster, and what goes wrong, how often

ASSUME SwimAssumption ==
  /\ Node \subseteq Nat \ {0}
  /\ Seeds \in [Node -> SUBSET Node]
  /\ Scenarios \subseteq [members : SUBSET Node, crash : SUBSET Node, restart : Nat, break : Nat, stale : Nat, late : Nat,
                           pause : Nat]

VARIABLES
  process,    \* "up", "down", or "silent": down, and its host answers nobody
  creation,   \* of each process; bumped by a restart
  view,       \* Swim.State: what a node has observed of each member,
  incarnation, \* its own incarnation,
  probe,      \* the target of its unanswered probe,
  timers,     \* and the members with a suspect timer
  pending,    \* the events of each member that the next tick folds into SWIM
  link,       \* a node's end of its current pair with another
  dialing,    \* dials in flight
  rejoining,  \* nodes whose first Alive is a rejoin
  told,       \* history: the last event a subscriber heard of each node
  left        \* the members of the scenario, and the faults still to come

swim == <<view, incarnation, probe, timers>>
core == <<swim, pending, dialing, rejoining, told>>
vars == <<process, creation, core, link, left>>

Nobody == 0
NoLink == [dialer |-> Nobody, creation |-> 0, whole |-> FALSE]

Up(n)      == process[n] = "up"
Linked(n)  == {m \in Node : link[n][m] # NoLink}
Reached(n) == {m \in Node : link[n][m].whole}

Member(status, inc, life) == [status |-> status, incarnation |-> inc, creation |-> life]

Gossip(member) == [kind |-> "Gossip", member |-> member]
ConnLost       == [kind |-> "ConnLost", member |-> Unknown]
PeerDown       == [kind |-> "PeerDown", member |-> Unknown]

\* What is known of one member in the course of a tick, and the verdicts on it
\* that peers will be told.
Knowledge == [seen : Members \cup {Unknown}, timer : BOOLEAN, out : Seq(Members)]

\* A cluster that has formed: its members are linked, by the lower's dial, and
\* the other nodes have never been started.
Init ==
  /\ left \in Scenarios
  /\ process = [n \in Node |-> IF n \in left.members THEN "up" ELSE "down"]
  /\ creation = [n \in Node |-> 1]
  /\ view = [n \in Node |-> [m \in Node |-> IF {n, m} \subseteq left.members \/ n = m THEN Member("Alive", 1, 1) ELSE Unknown]]
  /\ incarnation = [n \in Node |-> 1]
  /\ probe = [n \in Node |-> Nobody]
  /\ timers = [n \in Node |-> {}]
  /\ pending = [n \in Node |-> [m \in Node |-> <<>>]]
  /\ link = [n \in Node |-> [m \in Node |->
       IF {n, m} \subseteq left.members /\ m # n
       THEN [dialer |-> IF n < m THEN n ELSE m, creation |-> 1, whole |-> TRUE] ELSE NoLink]]
  /\ dialing = [n \in Node |-> {}]
  /\ rejoining = [n \in Node |-> {}]
  /\ told = [n \in Node |-> [m \in Node |-> IF {n, m} \subseteq left.members THEN "up" ELSE "nothing"]]

-------------------------------------------------------------------------------
(* Swim: what each transition makes of the knowledge k of one member.      *)

OnGossip_Armed(k, member) == \* mutant: the timer stays
  [k EXCEPT !.seen = Winner(@, member)]
OnGossip(k, member) ==
  LET winner == Winner(k.seen, member)
  IN  [k EXCEPT !.seen = winner, !.timer = @ /\ winner.status # "Alive"]

\* The view learns a verdict, and peers will be told.
Judged(k, status) ==
  [k EXCEPT !.seen = Winner(@, Verdict(@, status)), !.out = Append(@, Verdict(k.seen, status))]

Suspected(k) == [Judged(k, "Suspect") EXCEPT !.timer = TRUE]

\* suspect_member: a closed connection is a hint about a member that was Alive.
SuspectMember(k) == IF k.seen # Unknown /\ k.seen.status = "Alive" THEN Suspected(k) ELSE k

\* apply_event, of a member other than oneself unless it is gossip.
ApplyEvent(k, ev) ==
  CASE ev.kind = "Gossip"   -> OnGossip(k, ev.member)
    [] ev.kind = "ConnLost" -> SuspectMember(k)
    [] ev.kind = "PeerDown" -> Judged(k, "Dead")

ApplyEvents(known, events) ==
  LET fold(ev) == [k \in Knowledge |-> ApplyEvent(k, ev)]
      after[i \in 0..Len(events)] == IF i = 0 THEN known ELSE fold(events[i])[after[i - 1]]
  IN  after[Len(events)]

EndPeriod_Unarmed(k) == Judged(k, "Suspect") \* mutant: no timer is armed

\* The probed member never answered.
EndPeriod(k) == Suspected(k)

ExpireSuspect(k) == [Judged(k, "Dead") EXCEPT !.timer = FALSE]

NextIncarnation(n, k) == 1 + (IF k.seen.incarnation > incarnation[n] THEN k.seen.incarnation ELSE incarnation[n])

\* n's own entry is Suspect or Dead.
Refute(n, k) ==
  LET v == [k.seen EXCEPT !.status = "Alive", !.incarnation = NextIncarnation(n, k)]
  IN  IF k.seen.status = "Alive" THEN k ELSE [k EXCEPT !.seen = Winner(@, v), !.out = Append(@, v)]

-------------------------------------------------------------------------------
(* SwimDriver.step.                                                        *)

\* The events that have come are folded in.
Folded(n) ==
  [m \in Node |-> ApplyEvents([seen |-> view[n][m], timer |-> m \in timers[n], out |-> <<>>], pending[n][m])]

\* A period ends: the timers in `expired` are over, n clears itself.
Ended(n, known, expired) ==
  [m \in Node |-> IF m = n THEN Refute(n, known[m])
                  ELSE IF m = probe[n] THEN EndPeriod(known[m])
                  ELSE IF m \in expired THEN ExpireSuspect(known[m]) ELSE known[m]]

Alive(known) == {m \in Node : known[m].seen # Unknown /\ known[m].seen.status = "Alive"}

\* A ping of t is answered: directly, or through a helper that pings it for n.
Answers(n, known, t) ==
  t \in Reached(n) \/ \E h \in (Alive(known) \ {n, t}) \cap Reached(n) : t \in Reached(h)

\* The next period probes an Alive member, if there is any.
Targets(n, known) == IF Alive(known) \ {n} = {} THEN {Nobody} ELSE Alive(known) \ {n}

-------------------------------------------------------------------------------
(* ClusterNode: member events, links and frames.                           *)

Restarted(a, b) == a # Unknown /\ a.creation # b.creation

\* m was heard of, and the view b says that the life a told of is over.
Dies(a, b) ==
  /\ a # Unknown /\ a.status # "Dead"
  /\ Restarted(a, b) \/ b.status = "Dead"

Returns(a, b) == b # Unknown /\ b.status = "Alive" /\ (a = Unknown \/ a.status # "Alive" \/ Restarted(a, b))

\* member_events: the last thing subscribers hear as the view goes from a to b.
Event(a, b, rejoins, before) ==
  CASE Returns(a, b) ->
         IF a # Unknown /\ (Restarted(a, b) \/ a.status = "Dead" \/ rejoins) THEN "rejoined" ELSE "up"
    [] ~Returns(a, b) /\ Dies(a, b) -> "dead"
    [] ~Returns(a, b) /\ ~Dies(a, b) ->
         IF a # Unknown /\ a.status = "Alive" /\ b.status = "Suspect" THEN "suspect" ELSE before

\* next_rejoining: the first Alive of such a node is a rejoin.
Rejoins_Restarted(a, b, before) == \* mutant: of a new life only
  /\ b # Unknown /\ b.status # "Alive"
  /\ before \/ Restarted(a, b)
Rejoins(a, b, before) ==
  /\ b # Unknown /\ b.status # "Alive"
  /\ before \/ Restarted(a, b) \/ (a # Unknown /\ a.status = "Dead")

\* What n is told that its view does not outrank already: the rest changes
\* nothing when it is folded in, for a view only grows.
News(n, m, members) ==
  LET counts(member) == Winner(view[n][m], member) # view[n][m]
      new[i \in 0..Len(members)] ==
        IF i = 0 THEN <<>>
        ELSE IF counts(members[i]) THEN Append(new[i - 1], Gossip(members[i])) ELSE new[i - 1]
  IN  new[Len(members)]

\* n's links to these nodes are dropped; the other ends are broken.
Dropped(n, gone) ==
  [a \in Node |-> [b \in Node |->
     IF a = n /\ b \in gone THEN NoLink
     ELSE IF b = n /\ a \in gone /\ link[n][a].whole THEN [link[a][b] EXCEPT !.whole = FALSE]
     ELSE link[a][b]]]

\* dial_targets: members and seeds without a link.
DialTargets(n, known, ends) ==
  {m \in Node \ {n} : ends[m] = NoLink /\ (m \in Seeds[n] \/ known[m].seen # Unknown)}

\* The end of core_tick, for what SWIM knows by then: frames to the peers that
\* hear them, member events, the links of the dead, the dials.
Concludes(n, known, gone, hearers) ==
  /\ view' = [view EXCEPT ![n] = [m \in Node |-> known[m].seen]]
  /\ timers' = [timers EXCEPT ![n] = {m \in Node : known[m].timer}]
  /\ pending' = [p \in Node |-> [m \in Node |->
       IF p = n THEN <<>>
       ELSE IF p \in hearers THEN pending[p][m] \o News(p, m, known[m].out) ELSE pending[p][m]]]
  /\ told' = [told EXCEPT ![n] = [m \in Node |->
       IF m = n THEN @[m] ELSE Event(view[n][m], known[m].seen, m \in rejoining[n], @[m])]]
  /\ rejoining' = [rejoining EXCEPT ![n] = {m \in Node : Rejoins(view[n][m], known[m].seen, m \in @)}]
  /\ link' = Dropped(n, gone)
  /\ dialing' = [dialing EXCEPT ![n] = @ \cup DialTargets(n, known, link'[n])]
  /\ UNCHANGED <<process, creation>>

\* The frames of a tick may be lost with a link that it drops.
Ends(n, known) ==
  LET gone == {m \in Linked(n) : Dies(view[n][m], known[m].seen)}
  IN  \E heard \in SUBSET (gone \cap Reached(n)) :
         Concludes(n, known, gone, (Reached(n) \ gone) \cup heard)

\* A tick within a period.
TickMidPeriod(n) ==
  /\ Up(n)
  /\ \E known \in {Folded(n)} : Ends(n, known)
  /\ UNCHANGED <<incarnation, probe, left>>

\* The timers that may run out now, after the events.
Due(n, known) == {m \in timers[n] \ {probe[n]} : known[m].timer}

\* A late ack, and a timer of a member that runs, are faults.
Spends(late, paused) ==
  /\ late => left.late > 0
  /\ paused => left.pause > 0
  /\ left' = [left EXCEPT !.late = IF late THEN @ - 1 ELSE @, !.pause = IF paused THEN @ - 1 ELSE @]

\* A tick at the end of a period; the next one probes target, and keeps track
\* of the probe if no ack is to come. Only the timers in `patient` may run on.
TickBoundary(n, target, patient) ==
  /\ Up(n)
  /\ \E folded \in {Folded(n)} : \E expired \in SUBSET Due(n, folded) : \E known \in {Ended(n, folded, expired)} :
        /\ Due(n, folded) \ expired \subseteq patient
        /\ target \in Targets(n, known)
        /\ \E answered \in {Answers(n, known, target), FALSE} :
              /\ Spends(~answered /\ Answers(n, known, target), \E m \in expired : Up(m))
              /\ probe' = [probe EXCEPT ![n] = IF answered THEN Nobody ELSE target]
        /\ incarnation' = [incarnation EXCEPT ![n] =
             IF folded[n].seen.status = "Alive" THEN @ ELSE NextIncarnation(n, folded[n])]
        /\ Ends(n, known)

Tick(n) ==
  \/ TickMidPeriod(n)
  \/ \E target \in Node \cup {Nobody} : TickBoundary(n, target, Node)

\* keeps_new: which of two pairs with m is kept.
KeepsNew(n, m, old, new) ==
  IF new.creation # old.creation THEN new.creation > old.creation
  ELSE old.dialer = new.dialer \/ new.dialer = (IF n < m THEN n ELSE m)

\* What n observes of m as their link comes up: Alive, beyond any doubt it had.
LinkSeen(n, m) ==
  LET known == view[n][m]
  IN  Member("Alive",
             CASE known.creation # creation[m] -> 0
               [] known.creation = creation[m] /\ known.status = "Alive" -> known.incarnation
               [] OTHER -> known.incarnation + 1,
             creation[m])

\* The members sync that n sends to m tells this of k, and last what n has just
\* seen of m.
Sync(n, m, k) ==
  (IF view[n][k] = Unknown THEN <<>> ELSE <<view[n][k]>>) \o (IF k = m THEN <<LinkSeen(n, m)>> ELSE <<>>)

\* core_dialed and core_linked: a dial of n reaches m, and each of them keeps
\* the new pair or discards it.
DialSucceeds(n, m) ==
  LET New(b)      == [dialer |-> n, creation |-> creation[b], whole |-> FALSE]
      Keeps(a, b) == link[a][b] = NoLink \/ KeepsNew(a, b, link[a][b], New(b))
      kept        == Keeps(n, m) /\ Keeps(m, n)
      \* a's end to b: the new one, or the old one, broken if b has left it
      End(a, b)   == IF Keeps(a, b) THEN [New(b) EXCEPT !.whole = kept]
                     ELSE [link[a][b] EXCEPT !.whole = @ /\ ~Keeps(b, a)]
      Hears(a, b) == [k \in Node |->
         pending[a][k] \o (IF Keeps(a, b) /\ k = b THEN News(a, b, <<LinkSeen(a, b)>>) ELSE <<>>)
                       \o (IF kept THEN News(a, k, Sync(b, a, k)) ELSE <<>>)]
  IN  /\ Up(n) /\ Up(m) /\ m \in dialing[n]
      /\ Keeps(n, m) # Keeps(m, n) => left.stale > 0
      /\ left' = [left EXCEPT !.stale = IF Keeps(n, m) # Keeps(m, n) THEN @ - 1 ELSE @]
      /\ link' = [link EXCEPT ![n][m] = End(n, m), ![m][n] = End(m, n)]
      /\ pending' = [pending EXCEPT ![n] = Hears(n, m), ![m] = Hears(m, n)]
      /\ dialing' = [dialing EXCEPT ![n] = @ \ {m}, ![m] = IF Keeps(m, n) THEN @ \ {n} ELSE @]
      /\ UNCHANGED <<process, creation, swim, rejoining, told>>

\* core_dial_failed: nobody listens there, which is definite, or nobody answers.
DialFails(n, m) ==
  /\ Up(n) /\ ~Up(m) /\ m \in dialing[n]
  /\ dialing' = [dialing EXCEPT ![n] = @ \ {m}]
  /\ pending' = IF process[m] = "down" /\ view[n][m] # Unknown /\ view[n][m].status # "Dead"
                THEN [pending EXCEPT ![n][m] = Append(@, PeerDown)] ELSE pending
  /\ UNCHANGED <<process, creation, swim, link, rejoining, told, left>>

\* core_link_closed: n notices that its end is broken; a silent host tells nothing.
LinkClosed(n, m) ==
  /\ Up(n) /\ process[m] # "silent"
  /\ link[n][m] # NoLink /\ ~link[n][m].whole
  /\ link' = [link EXCEPT ![n][m] = NoLink]
  /\ pending' = [pending EXCEPT ![n][m] = Append(@, ConnLost)]
  /\ UNCHANGED <<process, creation, swim, dialing, rejoining, told, left>>

-------------------------------------------------------------------------------
(* The environment.                                                        *)

Breaks(n, m) ==
  /\ left.break > 0 /\ n < m /\ link[n][m].whole
  /\ left' = [left EXCEPT !.break = @ - 1]
  /\ link' = [link EXCEPT ![n][m].whole = FALSE, ![m][n].whole = FALSE]
  /\ UNCHANGED <<process, creation, core>>

\* core_new, of a process that knows nobody but itself.
Starts(n, life) ==
  /\ view' = [view EXCEPT ![n] = [m \in Node |-> IF m = n THEN Member("Alive", 1, life) ELSE Unknown]]
  /\ incarnation' = [incarnation EXCEPT ![n] = 1]
  /\ probe' = [probe EXCEPT ![n] = Nobody]
  /\ timers' = [timers EXCEPT ![n] = {}]
  /\ pending' = [pending EXCEPT ![n] = [m \in Node |-> <<>>]]
  /\ dialing' = [dialing EXCEPT ![n] = {}]
  /\ rejoining' = [rejoining EXCEPT ![n] = {}]
  /\ told' = [told EXCEPT ![n] = [m \in Node |-> "nothing"]]

\* A process is gone with all it had; the ends of its links are broken.
Crashes(n) ==
  /\ Up(n) /\ n \in left.crash
  /\ left' = [left EXCEPT !.crash = @ \ {n}]
  /\ \E how \in {"down", "silent"} : process' = [process EXCEPT ![n] = how]
  /\ Starts(n, creation[n])
  /\ link' = [a \in Node |-> [b \in Node |->
       IF a = n THEN NoLink ELSE IF b = n THEN [link[a][b] EXCEPT !.whole = FALSE] ELSE link[a][b]]]
  /\ UNCHANGED creation

Restarts(n) ==
  /\ ~Up(n) /\ n \in left.members /\ left.restart > 0
  /\ left' = [left EXCEPT !.restart = @ - 1]
  /\ process' = [process EXCEPT ![n] = "up"]
  /\ creation' = [creation EXCEPT ![n] = @ + 1]
  /\ Starts(n, creation[n] + 1)
  /\ UNCHANGED link

Next == \E n \in Node :
  \/ Tick(n) \/ Crashes(n) \/ Restarts(n)
  \/ \E m \in Node \ {n} : DialSucceeds(n, m) \/ DialFails(n, m) \/ LinkClosed(n, m) \/ Breaks(n, m)

\* A period ends, and with it the timers of the dead; the next probes t.
Probes(n, t) == TickBoundary(n, t, {m \in Node : Up(m)})

\* Ticks come for ever and choose their targets at random; a dial comes back,
\* and a connection that was reset is noticed.
Fairness == \A n \in Node :
  /\ WF_vars(\E t \in Node \cup {Nobody} : Probes(n, t))
  /\ \A m \in Node \ {n} : /\ WF_vars(Probes(n, m))
                           /\ WF_vars(DialSucceeds(n, m) \/ DialFails(n, m) \/ LinkClosed(n, m))

Spec == Init /\ [][Next]_vars /\ Fairness

-------------------------------------------------------------------------------

TypeOK ==
  /\ process \in [Node -> {"up", "down", "silent"}] /\ creation \in [Node -> Nat]
  /\ view \in [Node -> [Node -> Members \cup {Unknown}]]
  /\ incarnation \in [Node -> Nat] /\ probe \in [Node -> Node \cup {Nobody}]
  /\ {timers, dialing, rejoining} \subseteq [Node -> SUBSET Node]
  /\ \A n, m \in Node :
       /\ link[n][m] \in [dialer : Node \cup {Nobody}, creation : Nat, whole : BOOLEAN]
       /\ told[n][m] \in {"nothing", "up", "suspect", "dead", "rejoined"}
       /\ \A i \in DOMAIN pending[n][m] : pending[n][m][i] \in
             [kind : {"Gossip", "ConnLost", "PeerDown"}, member : Members \cup {Unknown}]

\* A suspicion's timer goes with the suspicion, so no node that has cleared
\* itself is buried by an old one; and subscribers have last heard what the
\* view says, or have never heard the node praised.
MembersOK ==
  /\ TypeOK
  /\ \A n, m \in Node : Up(n) /\ n # m =>
       LET known == view[n][m] IN
       /\ m \in timers[n] => known.status # "Alive"
       /\ known # Unknown /\ known.status = "Alive" => told[n][m] \in {"up", "rejoined"}
       /\ known.status = "Suspect" => told[n][m] \in {"suspect", "dead", "nothing"}
       /\ known.status = "Dead" => told[n][m] \in {"dead", "nothing"}

\* While a node runs, what it believes of another only gives way to what
\* outranks it, and a death it reported is only taken back by a rejoin.
NothingIsTakenBack == [][\A n, m \in Node : Up(n) /\ process'[n] = "up" =>
  /\ Supersedes(view'[n][m], view[n][m])
  /\ told[n][m] = "dead" => told'[n][m] \in {"dead", "rejoined"}]_vars

\* A process that is gone, however silently, is not believed in for ever.
CrashIsNoticed == \A m \in Node :
  ~Up(m) ~> Up(m) \/ \A n \in Node : Up(n) => view[n][m] = Unknown \/ view[n][m].status = "Dead"

\* A suspicion ends: its node clears itself, or is declared dead.
SuspicionEnds == \A n, m \in Node :
  Up(n) /\ view[n][m].status = "Suspect" ~> view[n][m].status # "Suspect"
===============================================================================
