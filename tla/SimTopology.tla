------------------------------ MODULE SimTopology ------------------------------
(***************************************************************************)
(* A topology placing roles on machines, sessions between them, and one    *)
(* patch trying to reach them (assets/explainer/sim-topology.js).          *)
(*                                                                         *)
(* Time advances in ticks, one per call of step(): a stored moment is a    *)
(* countdown or an age here, kept while it is read. How many sessions are  *)
(* asked for in a tick is a choice.                                        *)
(***************************************************************************)
EXTENDS Integers, FiniteSets

CONSTANTS Hosts, Serving,   \* numbers; the hosts of the serving pool
          Labelled,         \* those that may hold the single-holder role
          Initiator,        \* the host that initiates sessions
          SuspectS, LegS, ChipS, Stagger, Hops,  \* in ticks
          Burst,            \* bound: sessions asked for in one tick
          MaxSessions, MaxStops, MaxPatches      \* bounds

ASSUME TopologyAssumption ==
  /\ Hosts \subseteq Nat /\ IsFiniteSet(Hosts)
  /\ Labelled \subseteq Serving /\ Serving \subseteq Hosts /\ Labelled # {}
  /\ Initiator \in Hosts \ Serving
  /\ {SuspectS, Stagger} \subseteq Nat /\ {LegS, ChipS} \subseteq Nat \ {0}
  /\ Hops \in [{"toGate", "toLeader", "fanOut"} -> Nat \ {0}]
  /\ {Burst, MaxSessions, MaxStops, MaxPatches} \subseteq Nat

Nobody == -1

VARIABLES
  up, age,              \* per host: status, ticks since it stopped (while read)
  code,                 \* per host
  placed, flow,
  single,               \* the holder of the single-holder role
  landing, singleLanding, \* ticks until a serving host's chip, and that role's, settles
  sessions, asked, rr,  \* by number; how many were asked for
  finished, cancelled, refused,
  patch, patches,       \* s.patch; how many were sent
  ruled                 \* history: the patch the nodes' last verdict was about

roleVars    == <<placed, single, landing, singleLanding>>
patchVars   == <<patch, patches, ruled>>
sessionVars == <<sessions, asked, rr, finished, cancelled, refused>>
vars == <<up, age, code, flow, roleVars, sessionVars, patchVars>>

NoPatch == [phase |-> "none", t |-> 0, grant |-> FALSE, verdict |-> "none"]
Landing == 0..(Stagger * (Cardinality(Serving) + 1) + ChipS)

TypeOK ==
  /\ up \in [Hosts -> BOOLEAN] /\ age \in [Hosts -> 0..SuspectS]
  /\ code \in [Hosts -> {1, 2}]
  /\ {placed, flow} \subseteq BOOLEAN
  /\ single \in Labelled \cup {Nobody}
  /\ landing \in [Serving -> Landing] /\ singleLanding \in Landing
  /\ DOMAIN sessions \subseteq 1..asked
  /\ \A i \in DOMAIN sessions :
       sessions[i] \in [stock : Serving, single : Labelled, leg : 0..3, elapsed : 0..(LegS - 1)]
  /\ asked \in 0..MaxSessions
  /\ {rr, finished, cancelled, refused} \subseteq Nat
  /\ patch \in [phase : {"none", "toGate", "refused", "toLeader", "fanOut", "atNodes",
                         "activated", "nodeRefused"},
                t : Nat, grant : BOOLEAN, verdict : {"none", "admit", "refuse"}]
  /\ patches \in Nat /\ ruled \in 0..patches

Fresh ==
  /\ up = [h \in Hosts |-> TRUE] /\ age = [h \in Hosts |-> 0]
  /\ code = [h \in Hosts |-> 1]
  /\ landing = [h \in Serving |-> 0] /\ singleLanding = 0
  /\ sessions = << >> /\ asked = 0 /\ rr = 0
  /\ finished = 0 /\ cancelled = 0 /\ refused = 0
  /\ patch = NoPatch /\ patches = 0 /\ ruled = 0

Init == Fresh /\ placed = FALSE /\ flow = FALSE /\ single = Nobody

-----------------------------------------------------------------------------
(* The page's events. *)

RankSingle == LET able == {h \in Labelled : up[h]}
              IN IF able = {} THEN Nobody ELSE CHOOSE h \in able : \A g \in able : g <= h

Nth(h) == Cardinality({g \in Serving : g <= h})

Place == IF placed
         THEN UNCHANGED roleVars
         ELSE /\ placed' = TRUE
              /\ landing' = [h \in Serving |-> Stagger * Nth(h) + ChipS]
              /\ single' = RankSingle
              /\ singleLanding' = Stagger * (Cardinality(Serving) + 1) + ChipS

\* stop() looks for the hosts a session is served by, not for its initiator.
RunsOn_StockOnly(x, h) == x.stock = h \* mutant
RunsOn(x, h) == h \in {x.stock, x.single}

Stop(h) == IF up[h]
           THEN LET lost == {i \in DOMAIN sessions : RunsOn(sessions[i], h)}
                IN /\ up' = [up EXCEPT ![h] = FALSE]
                   /\ age' = [age EXCEPT ![h] = 0]
                   /\ sessions' = [i \in DOMAIN sessions \ lost |-> sessions[i]]
                   /\ cancelled' = cancelled + Cardinality(lost)
           ELSE UNCHANGED <<up, age, sessions, cancelled>>

\* start() for all of a set of hosts: their every-host roles set out again.
Start(hs) == /\ up' = [h \in Hosts |-> up[h] \/ h \in hs]
             /\ landing' = [h \in Serving |->
                              IF placed /\ ~up[h] /\ h \in hs THEN ChipS ELSE landing[h]]

\* sendPatch()
Sent_Reused(grant) == \* mutant: the verdict on the patch before is kept
  [phase |-> "toGate", t |-> 0, grant |-> grant, verdict |-> patch.verdict]
Sent(grant) == [phase |-> "toGate", t |-> 0, grant |-> grant, verdict |-> "none"]

\* decide(), on a patch that has its verdict: hosts that are up activate it.
Decided_Always(p) == [p EXCEPT !.phase = "activated", !.t = 0] \* mutant
Decided(p) == CASE p.verdict = "admit"  -> [p EXCEPT !.phase = "activated", !.t = 0]
                [] p.verdict = "refuse" -> [p EXCEPT !.phase = "nodeRefused", !.t = 0]
                [] OTHER -> p
Activates(p, q) == IF p.phase # "activated" /\ q.phase = "activated"
                   THEN [h \in Hosts |-> IF up[h] THEN 2 ELSE code[h]]
                   ELSE code

\* resolveNodes(), on patch p.
Resolved(p, verdict) == LET q == [p EXCEPT !.verdict = verdict]
                        IN IF p.phase = "atNodes" THEN Decided(q) ELSE q

-----------------------------------------------------------------------------
(* step(): the role moves, sessions begin, sessions advance, the patch travels. *)

Less(n) == IF n > 0 THEN n - 1 ELSE 0
Older(n) == IF n < SuspectS THEN n + 1 ELSE n

GivenUp == single # Nobody /\ ~up[single] /\ Older(age[single]) >= SuspectS

MoveSingle == IF GivenUp /\ RankSingle # Nobody
              THEN single' = RankSingle /\ singleLanding' = ChipS
              ELSE single' = single /\ singleLanding' = Less(singleLanding)

\* What newSession() asks of the roles, as this step leaves them.
Offered == {h \in Serving : placed /\ up[h] /\ landing'[h] = 0}
Ready == /\ single' # Nobody /\ singleLanding' = 0 /\ up[single']
         /\ Offered # {}
         /\ up[Initiator]

\* The n-th of the offering hosts, in their order.
Offering(n) == CHOOSE h \in Offered : Cardinality({g \in Offered : g < h}) = n % Cardinality(Offered)

NewSession(n) == [stock |-> Offering(n), single |-> single', leg |-> 0, elapsed |-> 0]

\* want, have, book, booked; a message to oneself is no leg.
Legs(x) == IF x.stock = x.single THEN 3 ELSE 4

LastLeg(x) == x.leg + 1 >= Legs(x) /\ x.elapsed + 1 >= LegS
Ticked(x) == IF x.elapsed + 1 < LegS THEN [x EXCEPT !.elapsed = @ + 1]
                                     ELSE [x EXCEPT !.elapsed = 0, !.leg = @ + 1]

RefusedBy(n) == IF Ready THEN refused ELSE refused + n

StepSessions(n) ==
  LET new  == IF Ready THEN (asked + 1)..(asked + n) ELSE {}
      all  == [i \in DOMAIN sessions \cup new |->
                 IF i \in new THEN NewSession(rr + i - asked - 1) ELSE sessions[i]]
      over == {i \in DOMAIN all : LastLeg(all[i])}
  IN /\ sessions' = [i \in DOMAIN all \ over |-> Ticked(all[i])]
     /\ finished' = finished + Cardinality(over)
     /\ refused' = RefusedBy(n)
     /\ rr' = rr + Cardinality(new)
     /\ asked' = asked + n

\* stepPatch(); the gate lets only a granted patch out.
Hop_Deaf(p) == CASE p.phase = "toGate"   -> [p EXCEPT !.phase = IF p.grant THEN "toLeader" ELSE "refused", !.t = 0]
                 [] p.phase = "toLeader" -> [p EXCEPT !.phase = "fanOut", !.t = 0]
                 [] p.phase = "fanOut"   -> [p EXCEPT !.phase = "atNodes", !.t = 0] \* mutant: an early verdict is lost
Hop(p) == CASE p.phase = "toGate"   -> [p EXCEPT !.phase = IF p.grant THEN "toLeader" ELSE "refused", !.t = 0]
            [] p.phase = "toLeader" -> [p EXCEPT !.phase = "fanOut", !.t = 0]
            [] p.phase = "fanOut"   -> Decided([p EXCEPT !.phase = "atNodes", !.t = 0])

Travelled(p) == IF p.phase \in DOMAIN Hops
                THEN IF p.t + 1 >= Hops[p.phase] THEN Hop(p) ELSE [p EXCEPT !.t = @ + 1]
                ELSE p

Step == \E n \in 0..(IF flow THEN Burst ELSE 0) :
  /\ asked + n <= MaxSessions
  /\ age' = [h \in Hosts |-> IF up[h] THEN 0 ELSE Older(age[h])]
  /\ landing' = [h \in Serving |-> Less(landing[h])]
  /\ MoveSingle
  /\ StepSessions(n)
  /\ patch' = Travelled(patch)
  /\ code' = Activates(patch, patch')
  /\ UNCHANGED <<up, placed, flow, cancelled, patches, ruled>>

-----------------------------------------------------------------------------
(* Any use of the simulation's interface. *)

SomePlace == Place /\ UNCHANGED <<up, age, code, flow, sessionVars, patchVars>>

SomeFlow == /\ flow' = TRUE
            /\ UNCHANGED <<up, age, code, roleVars, sessionVars, patchVars>>

Stops == Cardinality({h \in Hosts : ~up[h]})

SomeStop == \E h \in Hosts :
  /\ up[h] /\ Stops < MaxStops
  /\ Stop(h)
  /\ UNCHANGED <<code, flow, roleVars, asked, rr, finished, refused, patchVars>>

SomeStart == \E h \in Hosts :
  /\ ~up[h]
  /\ Start({h})
  /\ UNCHANGED <<age, code, flow, placed, single, singleLanding, sessionVars, patchVars>>

SomeSend == \E grant \in BOOLEAN :
  /\ patches < MaxPatches
  /\ patches' = patches + 1
  /\ patch' = Sent(grant)
  /\ UNCHANGED <<up, age, code, flow, roleVars, sessionVars, ruled>>

SomeVerdict == \E verdict \in {"admit", "refuse"} :
  /\ patch.phase # "none"
  /\ patch' = Resolved(patch, verdict)
  /\ ruled' = patches
  /\ code' = Activates(patch, patch')
  /\ UNCHANGED <<up, age, flow, roleVars, sessionVars, patches>>

Next == \/ Step \/ SomePlace \/ SomeFlow \/ SomeStop \/ SomeStart
        \/ SomeSend \/ SomeVerdict

Spec == Init /\ [][Next]_vars
-----------------------------------------------------------------------------
(* Properties. *)

\* No session outlives a host that serves it.
ServedByUpHosts == \A i \in DOMAIN sessions : up[sessions[i].stock] /\ up[sessions[i].single]

\* Every session asked for is finished, cancelled, refused or under way.
Conservation == asked = finished + cancelled + refused + Cardinality(DOMAIN sessions)

\* Sessions follow their hosts and none is lost count of.
SessionsOK == TypeOK /\ ServedByUpHosts /\ Conservation

\* The single-holder role leaves a host only when that host has been down for the
\* suspect time, and a session that uses it never sees it on two hosts: it stays
\* where it went when its old host returns (15-19).
RoleStays == single' # single /\ single # Nobody =>
                  /\ ~up[single] /\ Older(age[single]) >= SuspectS
                  /\ up[single']

\* A patch that runs was granted by name, reached the nodes, and was admitted
\* there: no verdict on an earlier patch, and none of the nodes' before the
\* patch has reached them, lets it in.
OnlyAdmittedRuns == code' # code =>
  /\ patch.phase \in {"fanOut", "atNodes"} /\ patch.grant
  /\ patch'.verdict = "admit" /\ ruled' = patches

\* The role and the code change hands for a reason, once, whatever host stops or
\* starts and whenever a verdict comes.
ChangesAreEarned == [][RoleStays /\ OnlyAdmittedRuns]_vars
===============================================================================
