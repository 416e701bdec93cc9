---------------------------- MODULE Topology_proofs ----------------------------
(***************************************************************************)
(* Theorems about the topology and patch simulation and the two figures    *)
(* that run it, for any hosts, labels, times and bounds, in the figures    *)
(* and under any events: SessionsOK, ChangesAreEarned, NewCodeOnItsCard.   *)
(*                                                                         *)
(* The invariant has a part for the hosts, the roles, the sessions, the    *)
(* patch and the card: every action changes two of them at most.           *)
(***************************************************************************)
EXTENDS MCTopology, SumTheorems

\* What TopologyAssumption says of the constants.
LEMMA TopologyConstants ==
  /\ Hosts \subseteq Nat /\ IsFiniteSet(Hosts) /\ Labelled \subseteq Serving /\ Serving \subseteq Hosts
  /\ Initiator \in Hosts /\ SuspectS \in Nat /\ Stagger \in Nat
  /\ LegS \in Nat /\ LegS >= 1 /\ ChipS \in Nat /\ ChipS >= 1
  /\ Hops \in [{"toGate", "toLeader", "fanOut"} -> Nat \ {0}]
  /\ Burst \in Nat /\ MaxSessions \in Nat
BY TopologyAssumption

\* The hosts that serve, and those that may hold the role, are finitely many.
LEMMA PoolsAreFinite ==
  /\ IsFiniteSet(Serving) /\ IsFiniteSet(Labelled) /\ Serving \subseteq Int /\ Labelled \subseteq Int
  /\ Cardinality(Serving) \in Nat
<1>1. Serving \subseteq Hosts /\ Labelled \subseteq Hosts /\ IsFiniteSet(Hosts) /\ Hosts \subseteq Int
  BY TopologyConstants
<1>2. IsFiniteSet(Serving) /\ IsFiniteSet(Labelled)
  BY <1>1, FS_Subset
<1> QED
  BY <1>1, <1>2, FS_CardinalityType

-------------------------------------------------------------------------------
(* Choosing a host.                                                        *)

Lower(S, h) == {g \in S : g < h}
Ranked(S, n) == \A k \in 0..(n - 1) : \E h \in S : Cardinality(Lower(S, h)) = k

\* A finite set of numbers has one of every rank: the round robin always finds
\* the next host.
LEMMA EveryRank ==
  ASSUME NEW S, IsFiniteSet(S), S \subseteq Int
  PROVE  Ranked(S, Cardinality(S))
<1> DEFINE N == {n \in Nat : \A T \in SUBSET S : Cardinality(T) = n => Ranked(T, n)}
<1>1. 0 \in N
  BY DEF Ranked
<1>2. ASSUME NEW n \in Nat, n \in N PROVE n + 1 \in N
  <2> SUFFICES ASSUME NEW T \in SUBSET S, Cardinality(T) = n + 1, NEW k \in 0..n
               PROVE  \E h \in T : Cardinality(Lower(T, h)) = k
    BY DEF Ranked
  <2>1. IsFiniteSet(T) /\ T \subseteq Int
    BY FS_Subset
  <2>2. T # {}
    BY FS_EmptySet
  <2>3. PICK x \in T : \A y \in T : x >= y
    BY <2>1, <2>2, Greatest
  <2>4. PICK U : U = T \ {x}
    OBVIOUS
  <2>5. Cardinality(U) = n /\ U \in SUBSET S
    BY <2>1, <2>4, TakeOne
  <2>6. CASE k = n
    <3>1. \A g \in T : g < x <=> g # x
      BY <2>1, <2>3
    <3>2. Lower(T, x) = U
      BY <2>4, <3>1 DEF Lower
    <3> QED
      BY <2>5, <2>6, <3>2
  <2>7. CASE k # n
    <3>1. k \in 0..(n - 1)
      BY <2>7
    <3>2. Ranked(U, n)
      BY <1>2, <2>5
    <3>3. PICK h \in U : Cardinality(Lower(U, h)) = k
      BY <3>1, <3>2 DEF Ranked
    <3>4. Lower(T, h) = Lower(U, h) /\ h \in T
      BY <2>1, <2>3, <2>4 DEF Lower
    <3> QED
      BY <3>3, <3>4
  <2> QED
    BY <2>6, <2>7
<1>3. Nat \subseteq N
  <2> HIDE DEF N
  <2> QED
    BY <1>1, <1>2, OnNaturals
<1>4. Cardinality(S) \in N
  BY <1>3, FS_CardinalityType
<1> QED
  BY <1>4

\* The single-holder role goes to a labelled host that is up.
LEMMA RankSingleIs ==
  /\ RankSingle = Nobody \/ (RankSingle \in Labelled /\ up[RankSingle])
  /\ (\A h \in Labelled : up[h]) => RankSingle \in Labelled
<1> DEFINE able == {h \in Labelled : up[h]}
<1>1. CASE able = {}
  <2>1. ~(\A h \in Labelled : up[h])
    BY <1>1, TopologyAssumption
  <2> QED
    BY <1>1, <2>1 DEF RankSingle
<1>2. CASE able # {}
  <2>1. able \subseteq Labelled
    OBVIOUS
  <2>2. IsFiniteSet(able) /\ able \subseteq Int
    BY <2>1, PoolsAreFinite, FS_Subset
  <2>3. \E h \in able : \A g \in able : h >= g
    BY <1>2, <2>2, Greatest
  <2>4. \E h \in able : \A g \in able : g <= h
    BY <2>2, <2>3
  <2>5. RankSingle = CHOOSE h \in able : \A g \in able : g <= h
    BY <1>2 DEF RankSingle
  <2>6. RankSingle \in able
    BY <2>4, <2>5
  <2> QED
    BY <2>6
<1> QED
  BY <1>1, <1>2

\* A session is offered a serving host that is up.
LEMMA OfferingIs ==
  ASSUME Offered # {}, NEW n \in Nat
  PROVE  Offering(n) \in Serving /\ up[Offering(n)]
<1>1. PICK S : S = Offered
  OBVIOUS
<1>2. S \subseteq Serving /\ \A h \in S : up[h]
  BY <1>1 DEF Offered
<1>3. IsFiniteSet(S) /\ S \subseteq Int
  BY <1>2, PoolsAreFinite, FS_Subset
<1>4. PICK c \in Nat : c = Cardinality(S)
  BY <1>3, FS_CardinalityType
<1>5. c # 0
  BY <1>1, <1>3, <1>4, FS_EmptySet
<1>6. n % c \in 0..(c - 1)
  BY <1>5
<1>7. \E h \in S : Cardinality({g \in S : g < h}) = n % c
  <2>1. Ranked(S, c)
    BY <1>3, <1>4, EveryRank
  <2> QED
    BY <1>6, <2>1 DEF Ranked, Lower
<1>8. Offering(n) = CHOOSE h \in S : Cardinality({g \in S : g < h}) = n % c
  BY <1>1, <1>4 DEF Offering
<1>9. Offering(n) \in S
  BY <1>7, <1>8
<1> QED
  BY <1>2, <1>9

\* Chips settle within the time that TypeOK allows for.
LEMMA Products ==
  ASSUME NEW a \in Nat, NEW b \in Nat, NEW c \in Nat, b <= c
  PROVE  a * b \in Nat /\ a * c \in Nat /\ a * b <= a * c
<1>1. a * b \in Nat /\ a * (c - b) \in Nat
  OBVIOUS
<1>2. a * c = a * b + a * (c - b)
  OBVIOUS
<1> QED
  BY <1>1, <1>2

\* The times a chip takes to land, each a tick later still one of them.
LEMMA LandingTimes ==
  /\ 0 \in Landing /\ ChipS \in Landing
  /\ \A h : Stagger * Nth(h) + ChipS \in Landing
  /\ Stagger * (Cardinality(Serving) + 1) + ChipS \in Landing
  /\ \A t \in Landing : Less(t) \in Landing
<1>1. PICK c \in Nat : c = Cardinality(Serving) + 1
  BY PoolsAreFinite
<1>2. PICK top \in Nat : top = Stagger * c
  BY TopologyConstants
<1>3. Landing = 0..(top + ChipS)
  BY <1>1, <1>2 DEF Landing
<1>4. ASSUME NEW h PROVE Stagger * Nth(h) + ChipS \in Landing
  <2>1. {g \in Serving : g <= h} \subseteq Serving
    OBVIOUS
  <2>2. Nth(h) \in Nat /\ Nth(h) <= c
    <3>1. Nth(h) \in Nat /\ Nth(h) <= Cardinality(Serving)
      BY <2>1, PoolsAreFinite, FS_Subset, FS_CardinalityType DEF Nth
    <3> QED
      BY <1>1, <3>1, PoolsAreFinite
  <2>3. PICK k \in Nat : k = Nth(h)
    BY <2>2
  <2>4. Stagger * k \in Nat /\ Stagger * k <= Stagger * c
    BY <2>2, <2>3, Products, TopologyConstants
  <2>5. PICK s \in Nat : s = Stagger * k
    BY <2>4
  <2> QED
    BY <1>2, <1>3, <2>3, <2>4, <2>5, TopologyConstants
<1>5. top + ChipS \in Landing /\ 0 \in Landing /\ ChipS \in Landing
  BY <1>3, TopologyConstants
<1>6. \A t \in Landing : Less(t) \in Landing
  BY <1>3, TopologyConstants DEF Less
<1> QED
  BY <1>1, <1>2, <1>4, <1>5, <1>6

-------------------------------------------------------------------------------
(* The invariant of the simulation.                                        *)

Session == [stock : Serving, single : Labelled, leg : 0..3, elapsed : 0..(LegS - 1)]

Patches == [phase : {"none", "toGate", "refused", "toLeader", "fanOut", "atNodes",
                     "activated", "nodeRefused"},
            t : Nat, grant : BOOLEAN, verdict : {"none", "admit", "refuse"}]

HostsKept ==
  /\ up \in [Hosts -> BOOLEAN] /\ age \in [Hosts -> 0..SuspectS]
  /\ code \in [Hosts -> {1, 2}]

\* The role is nobody's before the roles are placed.
RolesKept ==
  /\ placed \in BOOLEAN /\ flow \in BOOLEAN
  /\ single \in Labelled \cup {Nobody}
  /\ landing \in [Serving -> Landing] /\ singleLanding \in Landing
  /\ ~placed => single = Nobody

SessionsKept ==
  /\ DOMAIN sessions \subseteq 1..asked
  /\ \A i \in DOMAIN sessions : sessions[i] \in Session
  /\ asked \in 0..MaxSessions
  /\ rr \in Nat /\ finished \in Nat /\ cancelled \in Nat /\ refused \in Nat
  /\ ServedByUpHosts
  /\ asked = finished + cancelled + refused + Cardinality(DOMAIN sessions)

\* Only a patch that was granted gets past the gate.
OnItsWay(p) ==
  /\ p \in Patches
  /\ p.phase \in {"toLeader", "fanOut", "atNodes", "activated", "nodeRefused"} => p.grant

\* A verdict is on the patch it stands with: the last one sent.
PatchKept ==
  /\ OnItsWay(patch)
  /\ patches \in Nat /\ ruled \in 0..patches
  /\ patch.verdict # "none" => ruled = patches

Kept == HostsKept /\ RolesKept /\ SessionsKept /\ PatchKept

\* The invariant says more than the property.
LEMMA KeptIsOK == Kept => SessionsOK
<1> SUFFICES ASSUME Kept PROVE SessionsOK
  OBVIOUS
<1>1. Conservation
  BY DEF Kept, SessionsKept, Conservation
<1>2. TypeOK
  BY DEF Kept, HostsKept, RolesKept, SessionsKept, PatchKept, OnItsWay, TypeOK, Session, Patches
<1> QED
  BY <1>1, <1>2 DEF Kept, SessionsKept, SessionsOK

-------------------------------------------------------------------------------
(* The patch.                                                              *)

\* A patch has the fields its type says.
LEMMA PatchFields ==
  ASSUME NEW p \in Patches
  PROVE  /\ p.phase \in {"none", "toGate", "refused", "toLeader", "fanOut", "atNodes",
                         "activated", "nodeRefused"}
         /\ p.t \in Nat /\ p.grant \in BOOLEAN /\ p.verdict \in {"none", "admit", "refuse"}
BY DEF Patches

\* A patch that moves to another phase.
Moved(p, phase, q) ==
  q \in Patches /\ q.phase = phase /\ q.grant = p.grant /\ q.verdict = p.verdict

\* A patch moved to another phase starts its clock there.
LEMMA Moving ==
  ASSUME NEW p \in Patches,
         NEW phase \in {"none", "toGate", "refused", "toLeader", "fanOut", "atNodes",
                        "activated", "nodeRefused"}
  PROVE  Moved(p, phase, [p EXCEPT !.phase = phase, !.t = 0])
BY DEF Patches, Moved

\* The nodes activate only what the verdict on this patch admits.
LEMMA DecidedKeeps ==
  ASSUME NEW p, OnItsWay(p), p.phase = "atNodes"
  PROVE  /\ OnItsWay(Decided(p)) /\ Decided(p).verdict = p.verdict
         /\ Decided(p).phase = "activated" => p.verdict = "admit"
<1>1. p \in Patches /\ p.grant
  BY DEF OnItsWay
<1>2. p.verdict \in {"none", "admit", "refuse"}
  BY <1>1, PatchFields
<1>3. CASE p.verdict = "admit"
  <2>1. PICK q : q = Decided(p)
    OBVIOUS
  <2>2. q = [p EXCEPT !.phase = "activated", !.t = 0]
    BY <1>3, <2>1 DEF Decided
  <2>3. Moved(p, "activated", q)
    BY <1>1, <2>2, Moving
  <2> QED
    BY <1>1, <1>3, <2>1, <2>3 DEF Moved, OnItsWay
<1>4. CASE p.verdict = "refuse"
  <2>1. PICK q : q = Decided(p)
    OBVIOUS
  <2>2. q = [p EXCEPT !.phase = "nodeRefused", !.t = 0]
    BY <1>4, <2>1 DEF Decided
  <2>3. Moved(p, "nodeRefused", q)
    BY <1>1, <2>2, Moving
  <2> QED
    BY <1>1, <2>1, <2>3 DEF Moved, OnItsWay
<1>5. CASE p.verdict = "none"
  <2>1. Decided(p) = p
    BY <1>5 DEF Decided
  <2> QED
    BY <2>1
<1> QED
  BY <1>2, <1>3, <1>4, <1>5

\* stepPatch(): what a tick does to a patch.
LEMMA TravelledKeeps ==
  ASSUME NEW p, OnItsWay(p)
  PROVE  /\ OnItsWay(Travelled(p)) /\ Travelled(p).verdict = p.verdict
         /\ Travelled(p).phase = "activated" =>
              \/ p.phase = "activated"
              \/ p.phase = "fanOut" /\ p.grant /\ p.verdict = "admit"
<1>1. p \in Patches
  BY DEF OnItsWay
<1>2. DOMAIN Hops = {"toGate", "toLeader", "fanOut"}
  BY TopologyConstants
<1>3. CASE p.phase \notin {"toGate", "toLeader", "fanOut"}
  <2>1. Travelled(p) = p
    BY <1>2, <1>3 DEF Travelled
  <2> QED
    BY <2>1
<1>4. CASE p.phase \in {"toGate", "toLeader", "fanOut"}
  <2>1. \/ Travelled(p) = [p EXCEPT !.t = p.t + 1]
        \/ Travelled(p) = Hop(p)
    BY <1>2, <1>4 DEF Travelled
  <2>2. CASE Travelled(p) = [p EXCEPT !.t = p.t + 1]
    <3>1. PICK q : q = [p EXCEPT !.t = p.t + 1]
      OBVIOUS
    <3>2. q \in Patches /\ q.phase = p.phase /\ q.grant = p.grant /\ q.verdict = p.verdict
      BY <1>1, <3>1 DEF Patches
    <3> QED
      BY <1>4, <2>2, <3>1, <3>2 DEF OnItsWay
  <2>3. CASE Travelled(p) = Hop(p)
    <3>1. CASE p.phase = "toGate"
      <4>1. PICK phase \in {"toLeader", "refused"} : phase = IF p.grant THEN "toLeader" ELSE "refused"
        OBVIOUS
      <4>2. PICK q : q = Hop(p)
        OBVIOUS
      <4>3. q = [p EXCEPT !.phase = phase, !.t = 0]
        BY <3>1, <4>1, <4>2 DEF Hop
      <4>4. Moved(p, phase, q)
        BY <1>1, <4>3, Moving
      <4>5. phase = "toLeader" => p.grant
        BY <4>1
      <4> QED
        BY <2>3, <4>2, <4>4, <4>5 DEF Moved, OnItsWay
    <3>2. CASE p.phase = "toLeader"
      <4>1. PICK q : q = Hop(p)
        OBVIOUS
      <4>2. q = [p EXCEPT !.phase = "fanOut", !.t = 0]
        BY <3>2, <4>1 DEF Hop
      <4>3. Moved(p, "fanOut", q)
        BY <1>1, <4>2, Moving
      <4> QED
        BY <2>3, <3>2, <4>1, <4>3 DEF Moved, OnItsWay
    <3>3. CASE p.phase = "fanOut"
      <4>1. PICK q : q = [p EXCEPT !.phase = "atNodes", !.t = 0]
        OBVIOUS
      <4>2. Hop(p) = Decided(q)
        BY <3>3, <4>1 DEF Hop
      <4>3. Moved(p, "atNodes", q)
        BY <1>1, <4>1, Moving
      <4>4. OnItsWay(q) /\ q.phase = "atNodes" /\ q.verdict = p.verdict /\ p.grant
        BY <3>3, <4>3 DEF Moved, OnItsWay
      <4> QED
        BY <2>3, <3>3, <4>2, <4>4, DecidedKeeps
    <3> QED
      BY <1>4, <3>1, <3>2, <3>3
  <2> QED
    BY <2>1, <2>2, <2>3
<1> QED
  BY <1>3, <1>4

\* resolveNodes()
LEMMA ResolvedKeeps ==
  ASSUME NEW p, OnItsWay(p), NEW verdict \in {"admit", "refuse"}
  PROVE  /\ OnItsWay(Resolved(p, verdict)) /\ Resolved(p, verdict).verdict = verdict
         /\ Resolved(p, verdict).phase = "activated" =>
              \/ p.phase = "activated"
              \/ p.phase = "atNodes" /\ p.grant /\ verdict = "admit"
<1>1. p \in Patches
  BY DEF OnItsWay
<1>2. PICK q : q = [p EXCEPT !.verdict = verdict]
  OBVIOUS
<1>3. q \in Patches /\ q.phase = p.phase /\ q.grant = p.grant /\ q.verdict = verdict
  BY <1>1, <1>2 DEF Patches
<1>4. OnItsWay(q)
  BY <1>3 DEF OnItsWay
<1>5. CASE p.phase = "atNodes"
  <2>1. Resolved(p, verdict) = Decided(q)
    BY <1>2, <1>5 DEF Resolved
  <2> QED
    BY <1>3, <1>4, <1>5, <2>1, DecidedKeeps DEF OnItsWay
<1>6. CASE p.phase # "atNodes"
  <2>1. Resolved(p, verdict) = q
    BY <1>2, <1>6 DEF Resolved
  <2> QED
    BY <1>3, <1>4, <2>1
<1> QED
  BY <1>5, <1>6

\* The code changes when, and only when, the patch is activated.
LEMMA ActivatesIs ==
  ASSUME HostsKept, NEW p, NEW q
  PROVE  /\ Activates(p, q) \in [Hosts -> {1, 2}]
         /\ Activates(p, q) # code => p.phase # "activated" /\ q.phase = "activated"
<1>1. PICK new : new = [h \in Hosts |-> IF up[h] THEN 2 ELSE code[h]]
  OBVIOUS
<1>2. new \in [Hosts -> {1, 2}] /\ code \in [Hosts -> {1, 2}]
  BY <1>1 DEF HostsKept
<1> QED
  BY <1>1, <1>2 DEF Activates

\* A patch is sent.
LEMMA SendKeeps ==
  ASSUME PatchKept, NEW grant \in BOOLEAN, patch' = Sent(grant), patches' = patches + 1, ruled' = ruled
  PROVE  PatchKept'
<1>1. patch' \in Patches /\ patch'.phase = "toGate" /\ patch'.verdict = "none"
  BY DEF Sent, Patches
<1> QED
  BY <1>1 DEF PatchKept, OnItsWay

\* The nodes' verdict comes, on the patch there is or on one just sent.
LEMMA VerdictKeeps ==
  ASSUME HostsKept, PatchKept, NEW p, OnItsWay(p), NEW verdict \in {"admit", "refuse"},
         patch' = Resolved(p, verdict), code' = Activates(patch, patch'),
         patches' \in Nat, ruled' = patches',
         (p = patch /\ patches' = patches) \/ p.phase = "toGate"
  PROVE  PatchKept' /\ code' \in [Hosts -> {1, 2}] /\ OnlyAdmittedRuns
<1>1. PICK q : q = patch'
  OBVIOUS
<1>2. /\ OnItsWay(q) /\ q.verdict = verdict
      /\ q.phase = "activated" => p.phase = "activated" \/ (p.phase = "atNodes" /\ p.grant /\ verdict = "admit")
  BY <1>1, ResolvedKeeps
<1>3. PatchKept'
  BY <1>1, <1>2 DEF PatchKept
<1>4. code' \in [Hosts -> {1, 2}] /\ (code' # code => patch.phase # "activated" /\ q.phase = "activated")
  BY <1>1, ActivatesIs
<1>5. OnlyAdmittedRuns
  BY <1>1, <1>2, <1>4 DEF OnlyAdmittedRuns
<1> QED
  BY <1>3, <1>4, <1>5

-------------------------------------------------------------------------------
(* The sessions.                                                           *)

\* A session has the fields its type says.
LEMMA SessionFields ==
  ASSUME NEW x \in Session
  PROVE  x.stock \in Serving /\ x.single \in Labelled /\ x.leg \in 0..3 /\ x.elapsed \in 0..(LegS - 1)
BY DEF Session

\* A session that is not over goes on, where it was.
LEMMA TickedIs ==
  ASSUME NEW x \in Session, ~LastLeg(x)
  PROVE  Ticked(x) \in Session /\ Ticked(x).stock = x.stock /\ Ticked(x).single = x.single
<1>1. PICK leg \in 0..3, elapsed \in 0..(LegS - 1) : leg = x.leg /\ elapsed = x.elapsed
  BY SessionFields
<1>2. PICK legs \in {3, 4} : legs = Legs(x)
  BY DEF Legs
<1>3. ~(leg + 1 >= legs /\ elapsed + 1 >= LegS)
  BY <1>1, <1>2 DEF LastLeg
<1>4. CASE elapsed + 1 < LegS
  <2>1. PICK y : y = [x EXCEPT !.elapsed = elapsed + 1]
    OBVIOUS
  <2>2. elapsed + 1 \in 0..(LegS - 1)
    BY <1>4, TopologyConstants
  <2>3. y \in Session /\ y.stock = x.stock /\ y.single = x.single
    BY <2>1, <2>2 DEF Session
  <2>4. Ticked(x) = y
    BY <1>1, <1>4, <2>1 DEF Ticked
  <2> QED
    BY <2>3, <2>4
<1>5. CASE ~(elapsed + 1 < LegS)
  <2>1. PICK y : y = [x EXCEPT !.elapsed = 0, !.leg = leg + 1]
    OBVIOUS
  <2>2. 0 \in 0..(LegS - 1) /\ leg + 1 \in 0..3
    BY <1>3, <1>5, TopologyConstants
  <2>3. y \in Session /\ y.stock = x.stock /\ y.single = x.single
    BY <2>1, <2>2 DEF Session
  <2>4. Ticked(x) = y
    BY <1>1, <1>5, <2>1 DEF Ticked
  <2> QED
    BY <2>3, <2>4
<1> QED
  BY <1>4, <1>5

\* Finitely many sessions are under way.
LEMMA SessionsAreFinite ==
  ASSUME SessionsKept
  PROVE  IsFiniteSet(DOMAIN sessions) /\ Cardinality(DOMAIN sessions) \in Nat
<1>1. IsFiniteSet(1..asked) /\ DOMAIN sessions \subseteq 1..asked
  BY FS_Interval DEF SessionsKept
<1> QED
  BY <1>1, FS_Subset, FS_CardinalityType

\* step(), for the sessions: n are asked for, all of them begin or none does.
LEMMA StepSessionsKeeps ==
  ASSUME SessionsKept, single' \in Labelled \cup {Nobody}, up' = up,
         NEW n \in Nat, asked + n <= MaxSessions, StepSessions(n), cancelled' = cancelled
  PROVE  SessionsKept'
<1>1. PICK a \in Nat, turn \in Nat : a = asked /\ turn = rr /\ a + n <= MaxSessions
  BY DEF SessionsKept
<1> DEFINE new  == IF Ready THEN (a + 1)..(a + n) ELSE {}
           all  == [i \in DOMAIN sessions \cup new |->
                      IF i \in new THEN NewSession(turn + i - a - 1) ELSE sessions[i]]
           over == {i \in DOMAIN all : LastLeg(all[i])}
<1>2. /\ sessions' = [i \in DOMAIN all \ over |-> Ticked(all[i])]
      /\ finished' = finished + Cardinality(over)
      /\ refused' = (IF Ready THEN refused ELSE refused + n)
      /\ rr' = turn + Cardinality(new) /\ asked' = a + n
  BY <1>1 DEF StepSessions, RefusedBy
<1>3. PICK D, W : D = DOMAIN sessions /\ W = new
  OBVIOUS
<1>4. PICK A : A = all
  OBVIOUS
<1>5. PICK O : O = over
  OBVIOUS
<1>6. /\ W = (IF Ready THEN (a + 1)..(a + n) ELSE {})
      /\ DOMAIN A = D \cup W
      /\ \A i \in D \cup W : A[i] = IF i \in W THEN NewSession(turn + i - a - 1) ELSE sessions[i]
      /\ O = {i \in D \cup W : LastLeg(A[i])}
      /\ sessions' = [i \in (D \cup W) \ O |-> Ticked(A[i])]
      /\ finished' = finished + Cardinality(O)
      /\ rr' = turn + Cardinality(W)
  BY <1>2, <1>3, <1>4, <1>5
<1> HIDE DEF new, all, over
<1>7. D \subseteq 1..a /\ IsFiniteSet(D) /\ Cardinality(D) \in Nat
  BY <1>1, <1>3, SessionsAreFinite DEF SessionsKept
<1>8. W \subseteq (a + 1)..(a + n) /\ IsFiniteSet(W) /\ Cardinality(W) = (IF Ready THEN n ELSE 0)
  <2>1. IsFiniteSet((a + 1)..(a + n)) /\ Cardinality((a + 1)..(a + n)) = n
    <3>1. /\ IsFiniteSet((a + 1)..(a + n))
          /\ Cardinality((a + 1)..(a + n)) = IF a + 1 > a + n THEN 0 ELSE (a + n) - (a + 1) + 1
      BY FS_Interval
    <3> QED
      BY <3>1
  <2> QED
    BY <1>6, <2>1, FS_EmptySet
<1>9. D \cap W = {} /\ D \cup W \subseteq 1..(a + n)
  BY <1>7, <1>8
<1>10. IsFiniteSet(D \cup W) /\ Cardinality(D \cup W) = Cardinality(D) + Cardinality(W)
  <2>1. IsFiniteSet(D \cup W)
    BY <1>7, <1>8, FS_Union
  <2>2. Cardinality(D \cup W) = Cardinality((D \cup W) \ D) + Cardinality(D)
    BY <2>1, LessAPart
  <2>3. (D \cup W) \ D = W
    BY <1>9
  <2>4. PICK d \in Nat, w \in Nat : d = Cardinality(D) /\ w = Cardinality(W)
    BY <1>7, <1>8
  <2>5. Cardinality(D \cup W) = w + d
    BY <2>2, <2>3, <2>4
  <2> QED
    BY <2>1, <2>4, <2>5
<1>11. PICK left \in Nat, ended \in Nat, held \in Nat :
          /\ left = Cardinality((D \cup W) \ O) /\ ended = Cardinality(O) /\ held = Cardinality(D)
          /\ held + (IF Ready THEN n ELSE 0) = left + ended
  <2>1. O \in SUBSET (D \cup W)
    BY <1>6
  <2>2. /\ Cardinality((D \cup W) \ O) \in Nat /\ Cardinality(O) \in Nat
        /\ Cardinality(D \cup W) = Cardinality((D \cup W) \ O) + Cardinality(O)
    BY <1>10, <2>1, LessAPart
  <2> QED
    BY <1>7, <1>8, <1>10, <2>2
<1>12. ASSUME NEW i \in D \cup W
       PROVE  A[i] \in Session /\ up[A[i].stock] /\ up[A[i].single]
  <2>1. CASE i \in W
    <3>1. Ready /\ i >= a + 1 /\ i \in Nat
      BY <1>6, <1>8, <2>1
    <3>2. PICK k \in Nat : k = turn + i - a - 1
      BY <3>1
    <3>3. Offering(k) \in Serving /\ up[Offering(k)]
      BY <3>1, OfferingIs DEF Ready
    <3>4. single' \in Labelled /\ up[single']
      BY <3>1 DEF Ready
    <3>5. 0 \in 0..3 /\ 0 \in 0..(LegS - 1)
      BY TopologyConstants
    <3>6. A[i] = [stock |-> Offering(k), single |-> single', leg |-> 0, elapsed |-> 0]
      BY <1>6, <2>1, <3>2 DEF NewSession
    <3> QED
      BY <3>3, <3>4, <3>5, <3>6 DEF Session
  <2>2. CASE i \notin W
    <3>1. A[i] = sessions[i] /\ i \in DOMAIN sessions
      BY <1>3, <1>6, <2>2
    <3> QED
      BY <3>1 DEF SessionsKept, ServedByUpHosts
  <2> QED
    BY <2>1, <2>2
<1>13. DOMAIN sessions' = (D \cup W) \ O
  BY <1>6
<1>14. ASSUME NEW i \in DOMAIN sessions'
       PROVE  sessions'[i] \in Session /\ up'[sessions'[i].stock] /\ up'[sessions'[i].single]
  <2>1. i \in D \cup W /\ ~LastLeg(A[i]) /\ sessions'[i] = Ticked(A[i])
    BY <1>6, <1>13
  <2> QED
    BY <1>12, <2>1, TickedIs
<1>15. asked' = asked + n /\ asked' \in 0..MaxSessions /\ DOMAIN sessions' \subseteq 1..asked'
  BY <1>1, <1>2, <1>9, <1>13, TopologyConstants
<1>16. PICK f \in Nat, c \in Nat, r \in Nat :
         f = finished /\ c = cancelled /\ r = refused /\ a = f + c + r + held
  BY <1>1, <1>3, <1>11 DEF SessionsKept
<1>17. CASE Ready
  <2>1. finished' = f + ended /\ refused' = r /\ rr' = turn + n /\ held + n = left + ended
    BY <1>2, <1>6, <1>8, <1>11, <1>16, <1>17
  <2>2. a + n = (f + ended) + c + r + left
    BY <1>16, <2>1
  <2>3. asked' = finished' + cancelled' + refused' + Cardinality(DOMAIN sessions')
    BY <1>1, <1>11, <1>13, <1>15, <1>16, <2>1, <2>2
  <2>4. rr' \in Nat /\ finished' \in Nat /\ cancelled' \in Nat /\ refused' \in Nat
    BY <1>16, <2>1
  <2> QED
    BY <1>14, <1>15, <2>3, <2>4 DEF SessionsKept, ServedByUpHosts
<1>18. CASE ~Ready
  <2>1. finished' = f + ended /\ refused' = r + n /\ rr' = turn + 0 /\ held = left + ended
    BY <1>2, <1>6, <1>8, <1>11, <1>16, <1>18
  <2>2. a + n = (f + ended) + c + (r + n) + left
    BY <1>16, <2>1
  <2>3. asked' = finished' + cancelled' + refused' + Cardinality(DOMAIN sessions')
    BY <1>1, <1>11, <1>13, <1>15, <1>16, <2>1, <2>2
  <2>4. rr' \in Nat /\ finished' \in Nat /\ cancelled' \in Nat /\ refused' \in Nat
    BY <1>16, <2>1
  <2> QED
    BY <1>14, <1>15, <2>3, <2>4 DEF SessionsKept, ServedByUpHosts
<1> QED
  BY <1>17, <1>18

\* Sessions stay as they are while no host goes down.
LEMMA SessionsStay ==
  ASSUME SessionsKept, UNCHANGED sessionVars, \A h \in Hosts : up[h] => up'[h]
  PROVE  SessionsKept'
<1>1. UNCHANGED <<sessions, asked, rr, finished, cancelled, refused>>
  BY DEF sessionVars
<1>2. \A i \in DOMAIN sessions' : up'[sessions'[i].stock] /\ up'[sessions'[i].single]
  <2> SUFFICES ASSUME NEW i \in DOMAIN sessions
               PROVE  up'[sessions[i].stock] /\ up'[sessions[i].single]
    BY <1>1
  <2>1. PICK x \in Session : x = sessions[i] /\ up[x.stock] /\ up[x.single]
    BY DEF SessionsKept, ServedByUpHosts
  <2>2. x.stock \in Hosts /\ x.single \in Hosts
    BY SessionFields, TopologyConstants
  <2> QED
    BY <2>1, <2>2
<1> QED
  BY <1>1, <1>2 DEF SessionsKept, ServedByUpHosts

-------------------------------------------------------------------------------
(* The page's events.                                                      *)

\* place()
LEMMA PlaceKeeps ==
  ASSUME RolesKept, Place, flow' \in BOOLEAN
  PROVE  RolesKept' /\ RoleStays
<1>1. CASE placed
  BY <1>1 DEF Place, RolesKept, roleVars, RoleStays
<1>2. CASE ~placed
  <2>1. /\ placed' = TRUE /\ single' = RankSingle /\ single = Nobody
        /\ landing' = [h \in Serving |-> Stagger * Nth(h) + ChipS]
        /\ singleLanding' = Stagger * (Cardinality(Serving) + 1) + ChipS
    BY <1>2 DEF Place, RolesKept
  <2>2. landing' \in [Serving -> Landing] /\ singleLanding' \in Landing
    BY <2>1, LandingTimes
  <2>3. single' \in Labelled \cup {Nobody}
    BY <2>1, RankSingleIs
  <2> QED
    BY <2>1, <2>2, <2>3 DEF RolesKept, RoleStays
<1> QED
  BY <1>1, <1>2

\* stop(): its sessions are cancelled, and counted.
LEMMA StopKeeps ==
  ASSUME HostsKept, SessionsKept, NEW h \in Hosts, Stop(h),
         UNCHANGED <<code, asked, rr, finished, refused>>
  PROVE  HostsKept' /\ SessionsKept'
<1>1. CASE ~up[h]
  <2>1. UNCHANGED <<up, age, sessions, cancelled>>
    BY <1>1 DEF Stop
  <2> QED
    BY <2>1 DEF HostsKept, SessionsKept, ServedByUpHosts
<1>2. CASE up[h]
  <2>1. PICK L : L = {i \in DOMAIN sessions : RunsOn(sessions[i], h)}
    OBVIOUS
  <2>2. /\ up' = [up EXCEPT ![h] = FALSE] /\ age' = [age EXCEPT ![h] = 0]
        /\ sessions' = [i \in DOMAIN sessions \ L |-> sessions[i]]
        /\ cancelled' = cancelled + Cardinality(L)
    BY <1>2, <2>1 DEF Stop
  <2>3. HostsKept'
    BY <2>2, TopologyConstants DEF HostsKept
  <2>4. PICK D : D = DOMAIN sessions
    OBVIOUS
  <2>5. PICK left \in Nat, gone \in Nat :
          /\ left = Cardinality(D \ L) /\ gone = Cardinality(L)
          /\ Cardinality(D) = left + gone
    <3>1. IsFiniteSet(D) /\ L \in SUBSET D
      BY <2>1, <2>4, SessionsAreFinite
    <3> QED
      BY <3>1, LessAPart
  <2>6. DOMAIN sessions' = D \ L /\ \A i \in D \ L : sessions'[i] = sessions[i]
    BY <2>2, <2>4
  <2>7. ASSUME NEW i \in DOMAIN sessions'
        PROVE  sessions'[i] \in Session /\ up'[sessions'[i].stock] /\ up'[sessions'[i].single]
    <3>1. PICK x \in Session : x = sessions'[i] /\ up[x.stock] /\ up[x.single]
      BY <2>4, <2>6 DEF SessionsKept, ServedByUpHosts
    <3>2. x.stock # h /\ x.single # h
      BY <2>1, <2>4, <2>6, <3>1 DEF RunsOn
    <3>3. x.stock \in Hosts /\ x.single \in Hosts
      BY SessionFields, TopologyConstants
    <3> QED
      BY <2>2, <3>1, <3>2, <3>3 DEF HostsKept
  <2>8. PICK f \in Nat, c \in Nat, r \in Nat :
          f = finished /\ c = cancelled /\ r = refused /\ asked = f + c + r + (left + gone)
    BY <2>4, <2>5 DEF SessionsKept
  <2>9. asked = f + (c + gone) + r + left
    BY <2>8
  <2>10. /\ asked' = finished' + cancelled' + refused' + Cardinality(DOMAIN sessions')
         /\ cancelled' \in Nat /\ finished' \in Nat /\ refused' \in Nat
    BY <2>2, <2>5, <2>6, <2>8, <2>9
  <2> QED
    BY <2>3, <2>4, <2>6, <2>7, <2>10 DEF SessionsKept, ServedByUpHosts
<1> QED
  BY <1>1, <1>2

\* start(): hosts come up, and their roles set out again.
LEMMA StartKeeps ==
  ASSUME HostsKept, RolesKept, SessionsKept, NEW hs, Start(hs),
         UNCHANGED <<age, code, flow, placed, single, singleLanding>>, UNCHANGED sessionVars
  PROVE  HostsKept' /\ RolesKept' /\ SessionsKept' /\ RoleStays
<1>1. /\ up' = [h \in Hosts |-> up[h] \/ h \in hs]
      /\ landing' = [h \in Serving |-> IF placed /\ ~up[h] /\ h \in hs THEN ChipS ELSE landing[h]]
  BY DEF Start
<1>2. HostsKept'
  BY <1>1 DEF HostsKept
<1>3. RolesKept' /\ RoleStays
  BY <1>1, LandingTimes DEF RolesKept, RoleStays
<1>4. SessionsKept'
  BY <1>1, SessionsStay
<1> QED
  BY <1>2, <1>3, <1>4

\* step()
LEMMA StepKeeps ==
  ASSUME Kept, Step
  PROVE  Kept' /\ RoleStays /\ OnlyAdmittedRuns
<1>1. PICK n \in 0..(IF flow THEN Burst ELSE 0) :
        /\ asked + n <= MaxSessions
        /\ age' = [h \in Hosts |-> IF up[h] THEN 0 ELSE Older(age[h])]
        /\ landing' = [h \in Serving |-> Less(landing[h])]
        /\ MoveSingle
        /\ StepSessions(n)
        /\ patch' = Travelled(patch)
        /\ code' = Activates(patch, patch')
        /\ UNCHANGED <<up, placed, flow, cancelled, patches, ruled>>
  BY DEF Step
<1>2. n \in Nat
  BY TopologyConstants
<1>3. HostsKept'
  <2>1. \A t \in 0..SuspectS : Older(t) \in 0..SuspectS
    BY TopologyConstants DEF Older
  <2>2. 0 \in 0..SuspectS
    BY TopologyConstants
  <2>3. age' \in [Hosts -> 0..SuspectS]
    BY <1>1, <2>1, <2>2 DEF Kept, HostsKept
  <2>4. code' \in [Hosts -> {1, 2}]
    BY <1>1, ActivatesIs DEF Kept
  <2> QED
    BY <1>1, <2>3, <2>4 DEF Kept, HostsKept
<1>4. RolesKept' /\ RoleStays
  <2>1. landing' \in [Serving -> Landing]
    BY <1>1, LandingTimes DEF Kept, RolesKept
  <2>2. CASE GivenUp /\ RankSingle # Nobody
    <3>1. single' = RankSingle /\ singleLanding' = ChipS
      BY <1>1, <2>2 DEF MoveSingle
    <3>2. single' \in Labelled /\ up[single']
      BY <2>2, <3>1, RankSingleIs
    <3>3. placed
      BY <2>2 DEF GivenUp, Kept, RolesKept
    <3> QED
      BY <1>1, <2>1, <2>2, <3>1, <3>2, <3>3, LandingTimes DEF Kept, RolesKept, RoleStays, GivenUp
  <2>3. CASE ~(GivenUp /\ RankSingle # Nobody)
    <3>1. single' = single /\ singleLanding' = Less(singleLanding)
      BY <1>1, <2>3 DEF MoveSingle
    <3> QED
      BY <1>1, <2>1, <3>1, LandingTimes DEF Kept, RolesKept, RoleStays
  <2> QED
    BY <2>2, <2>3
<1>5. SessionsKept'
  <2>1. single' \in Labelled \cup {Nobody}
    BY <1>4 DEF RolesKept
  <2> QED
    BY <1>1, <1>2, <2>1, StepSessionsKeeps DEF Kept
<1>6. /\ OnItsWay(Travelled(patch)) /\ Travelled(patch).verdict = patch.verdict
      /\ Travelled(patch).phase = "activated" =>
              \/ patch.phase = "activated"
              \/ patch.phase = "fanOut" /\ patch.grant /\ patch.verdict = "admit"
  BY TravelledKeeps DEF Kept, PatchKept
<1>7. PatchKept'
  BY <1>1, <1>6 DEF Kept, PatchKept
<1>8. OnlyAdmittedRuns
  <2>1. code' # code => patch.phase # "activated" /\ patch'.phase = "activated"
    BY <1>1, ActivatesIs DEF Kept
  <2>2. patch' = Travelled(patch) /\ ruled' = ruled /\ (patch.verdict # "none" => ruled = patches)
    BY <1>1 DEF Kept, PatchKept
  <2> QED
    BY <1>6, <2>1, <2>2 DEF OnlyAdmittedRuns
<1> QED
  BY <1>3, <1>4, <1>5, <1>7, <1>8 DEF Kept

\* Any event, in any order.
LEMMA NextKeeps ==
  ASSUME Kept, Next
  PROVE  Kept' /\ RoleStays /\ OnlyAdmittedRuns
<1>1. CASE Step
  BY <1>1, StepKeeps
<1>2. CASE SomePlace
  <2>1. Place /\ UNCHANGED <<up, age, code, flow>> /\ UNCHANGED sessionVars /\ UNCHANGED patchVars
    BY <1>2 DEF SomePlace
  <2>2. RolesKept' /\ RoleStays
    BY <2>1, PlaceKeeps DEF Kept, RolesKept
  <2>3. SessionsKept'
    BY <2>1, SessionsStay DEF Kept
  <2> QED
    BY <2>1, <2>2, <2>3 DEF Kept, HostsKept, PatchKept, patchVars, OnlyAdmittedRuns
<1>3. CASE SomeFlow
  <2>1. flow' = TRUE /\ UNCHANGED <<up, age, code>> /\ UNCHANGED roleVars /\ UNCHANGED sessionVars /\ UNCHANGED patchVars
    BY <1>3 DEF SomeFlow
  <2>2. SessionsKept'
    BY <2>1, SessionsStay DEF Kept
  <2> QED
    BY <2>1, <2>2 DEF Kept, HostsKept, RolesKept, PatchKept, roleVars, patchVars, OnlyAdmittedRuns, RoleStays
<1>4. CASE SomeStop
  <2>1. PICK h \in Hosts : /\ Stop(h)
                           /\ UNCHANGED <<code, flow, asked, rr, finished, refused>>
                           /\ UNCHANGED roleVars /\ UNCHANGED patchVars
    BY <1>4 DEF SomeStop
  <2>2. HostsKept' /\ SessionsKept'
    BY <2>1, StopKeeps DEF Kept
  <2> QED
    BY <2>1, <2>2 DEF Kept, RolesKept, PatchKept, roleVars, patchVars, OnlyAdmittedRuns, RoleStays
<1>5. CASE SomeStart
  <2>1. PICK h \in Hosts : /\ Start({h})
                           /\ UNCHANGED <<age, code, flow, placed, single, singleLanding>>
                           /\ UNCHANGED sessionVars /\ UNCHANGED patchVars
    BY <1>5 DEF SomeStart
  <2>2. HostsKept' /\ RolesKept' /\ SessionsKept' /\ RoleStays
    BY <2>1, StartKeeps DEF Kept
  <2> QED
    BY <2>1, <2>2 DEF Kept, PatchKept, patchVars, OnlyAdmittedRuns
<1>6. CASE SomeSend
  <2>1. PICK grant \in BOOLEAN :
          /\ patches' = patches + 1 /\ patch' = Sent(grant) /\ UNCHANGED <<up, age, code, flow, ruled>>
          /\ UNCHANGED roleVars /\ UNCHANGED sessionVars
    BY <1>6 DEF SomeSend
  <2>2. PatchKept'
    BY <2>1, SendKeeps DEF Kept
  <2>3. SessionsKept'
    BY <2>1, SessionsStay DEF Kept
  <2> QED
    BY <2>1, <2>2, <2>3 DEF Kept, HostsKept, RolesKept, roleVars, OnlyAdmittedRuns, RoleStays
<1>7. CASE SomeVerdict
  <2>1. PICK verdict \in {"admit", "refuse"} :
          /\ patch' = Resolved(patch, verdict) /\ ruled' = patches /\ code' = Activates(patch, patch')
          /\ UNCHANGED <<up, age, flow, patches>> /\ UNCHANGED roleVars /\ UNCHANGED sessionVars
    BY <1>7 DEF SomeVerdict
  <2>2. PatchKept' /\ code' \in [Hosts -> {1, 2}] /\ OnlyAdmittedRuns
    BY <2>1, VerdictKeeps DEF Kept, PatchKept
  <2>3. SessionsKept'
    BY <2>1, SessionsStay DEF Kept
  <2> QED
    BY <2>1, <2>2, <2>3 DEF Kept, HostsKept, RolesKept, roleVars, RoleStays
<1> QED
  BY <1>1, <1>2, <1>3, <1>4, <1>5, <1>6, <1>7 DEF Next

\* Both figures, and any events, begin in a state the invariant describes.
LEMMA StartsKept ==
  ASSUME Fresh, \/ placed = FALSE /\ flow = FALSE /\ single = Nobody
                \/ placed = TRUE /\ flow = TRUE /\ single = RankSingle
  PROVE  Kept /\ \A h \in Hosts : up[h] /\ code[h] = 1
<1>1. /\ up = [h \in Hosts |-> TRUE] /\ age = [h \in Hosts |-> 0] /\ code = [h \in Hosts |-> 1]
      /\ landing = [h \in Serving |-> 0] /\ singleLanding = 0
      /\ sessions = << >> /\ asked = 0 /\ rr = 0 /\ finished = 0 /\ cancelled = 0 /\ refused = 0
      /\ patch = NoPatch /\ patches = 0 /\ ruled = 0
  BY DEF Fresh
<1>2. HostsKept
  <2>1. 0 \in 0..SuspectS
    BY TopologyConstants
  <2> QED
    BY <1>1, <2>1 DEF HostsKept
<1>3. RolesKept
  BY <1>1, LandingTimes, RankSingleIs DEF RolesKept
<1>4. SessionsKept
  <2>1. DOMAIN sessions = {} /\ Cardinality({}) = 0
    BY <1>1, FS_EmptySet
  <2> QED
    BY <1>1, <2>1, TopologyConstants DEF SessionsKept, ServedByUpHosts
<1>5. PatchKept
  BY <1>1 DEF PatchKept, OnItsWay, Patches, NoPatch
<1> QED
  BY <1>1, <1>2, <1>3, <1>4, <1>5 DEF Kept

-------------------------------------------------------------------------------
(* The figures' cards.                                                     *)

\* Which card the reader is on says what has happened: in the topology figure
\* every host is up until one is stopped, and the role has been placed by then;
\* in the rollout figure nothing is admitted before the card that admits it.
CardKept ==
  /\ figure \in {"any", "topology", "rollout"}
  /\ figure = "topology" =>
       /\ card \in 1..7
       /\ card < 4 => \A h \in Hosts : up[h]
       /\ card = 1 => ~placed
       /\ card >= 2 => placed /\ single # Nobody
  /\ figure = "rollout" =>
       /\ card \in 1..5
       /\ card # 5 => patch.verdict # "admit" /\ \A h \in Hosts : code[h] = 1

PageKept == Kept /\ CardKept

\* The actions of the two figures, by card.
LEMMA CardsAre ==
  /\ figure = "rollout" => Cards = <<"widen", "refused", "granted", "node", "admitted">>
  /\ figure = "topology" => Cards = <<"hosts", "placed", "flow", "stop", "caps", "firewall", "policy">>
BY DEF Cards

\* A role that somebody holds is never nobody's again.
LEMMA SingleStays ==
  ASSUME Step, single # Nobody PROVE single' # Nobody
BY DEF Step, MoveSingle

\* A frame drawn keeps the invariant, moves the role and changes code by the rules.
LEMMA FrameKeeps ==
  ASSUME PageKept, Frame
  PROVE  PageKept' /\ RoleStays /\ OnlyAdmittedRuns
<1>1. Step /\ figure' = figure /\ card' = card
  BY DEF Frame
<1>2. Kept' /\ RoleStays /\ OnlyAdmittedRuns
  BY <1>1, StepKeeps DEF PageKept
<1>3. up' = up /\ placed' = placed /\ patch' = Travelled(patch)
  BY <1>1 DEF Step
<1>4. patch'.verdict = patch.verdict
  BY <1>3, TravelledKeeps DEF PageKept, Kept, PatchKept
<1>5. patch.verdict # "admit" => code' = code
  BY <1>2, <1>4 DEF OnlyAdmittedRuns
<1>6. CardKept'
  BY <1>1, <1>3, <1>4, <1>5, SingleStays DEF PageKept, CardKept
<1> QED
  BY <1>2, <1>6 DEF PageKept

\* The topology figure's cards.
LEMMA TopologyArriveKeeps ==
  ASSUME PageKept, Arrive, figure = "topology"
  PROVE  PageKept' /\ RoleStays /\ OnlyAdmittedRuns
<1>1. PICK c \in 1..6 : c = card /\ card' = c + 1 /\ figure' = "topology"
  <2>1. Len(Cards) = 7
    BY CardsAre
  <2> QED
    BY <2>1 DEF Arrive, PageKept, CardKept
<1>2. Enter(Cards[c + 1])
  BY <1>1 DEF Arrive
<1>3. Cards[c + 1] = <<"hosts", "placed", "flow", "stop", "caps", "firewall", "policy">>[c + 1]
  BY CardsAre
<1>4. Kept /\ HostsKept /\ RolesKept /\ SessionsKept /\ PatchKept
  BY DEF PageKept, Kept
<1>5. CASE c = 1
  <2>1. Place /\ UNCHANGED <<up, age, code, flow>> /\ UNCHANGED sessionVars /\ UNCHANGED patchVars
    BY <1>2, <1>3, <1>5 DEF Enter
  <2>2. RolesKept' /\ RoleStays
    BY <1>4, <2>1, PlaceKeeps DEF RolesKept
  <2>3. SessionsKept'
    BY <1>4, <2>1, SessionsStay
  <2>4. HostsKept' /\ PatchKept' /\ OnlyAdmittedRuns
    BY <1>4, <2>1 DEF HostsKept, PatchKept, patchVars, OnlyAdmittedRuns
  <2>5. ~placed /\ \A h \in Hosts : up[h]
    BY <1>1, <1>5 DEF PageKept, CardKept
  <2>6. RankSingle \in Labelled /\ Nobody \notin Labelled
    BY <2>5, RankSingleIs, TopologyConstants DEF Nobody
  <2>7. placed' = TRUE /\ single' # Nobody
    BY <2>1, <2>5, <2>6 DEF Place
  <2> QED
    BY <1>1, <1>5, <2>1, <2>2, <2>3, <2>4, <2>5, <2>7 DEF PageKept, Kept, CardKept
<1>6. CASE c = 2
  <2>1. /\ flow' = TRUE /\ UNCHANGED <<up, age, code>> /\ UNCHANGED roleVars
        /\ UNCHANGED sessionVars /\ UNCHANGED patchVars
    BY <1>2, <1>3, <1>6 DEF Enter
  <2>2. SessionsKept'
    BY <1>4, <2>1, SessionsStay
  <2>3. HostsKept' /\ RolesKept' /\ PatchKept' /\ RoleStays /\ OnlyAdmittedRuns
    BY <1>4, <2>1 DEF HostsKept, RolesKept, PatchKept, roleVars, patchVars, RoleStays, OnlyAdmittedRuns
  <2>4. CardKept'
    BY <1>1, <1>6, <2>1 DEF PageKept, CardKept, roleVars
  <2> QED
    BY <2>2, <2>3, <2>4 DEF PageKept, Kept
<1>7. CASE c = 3
  <2>1. /\ Stop(single) /\ UNCHANGED <<code, flow, asked, rr, finished, refused>>
        /\ UNCHANGED roleVars /\ UNCHANGED patchVars
    BY <1>2, <1>3, <1>7 DEF Enter
  <2>2. placed /\ single # Nobody
    BY <1>1, <1>7 DEF PageKept, CardKept
  <2>3. single \in Hosts
    BY <1>4, <2>2, TopologyConstants DEF RolesKept
  <2>4. HostsKept' /\ SessionsKept'
    BY <1>4, <2>1, <2>3, StopKeeps
  <2>5. RolesKept' /\ PatchKept' /\ RoleStays /\ OnlyAdmittedRuns
    BY <1>4, <2>1 DEF RolesKept, PatchKept, roleVars, patchVars, RoleStays, OnlyAdmittedRuns
  <2>6. CardKept'
    BY <1>1, <1>7, <2>1, <2>2 DEF PageKept, CardKept, roleVars
  <2> QED
    BY <2>4, <2>5, <2>6 DEF PageKept, Kept
<1>8. CASE c = 4
  <2>1. /\ Start(Hosts) /\ UNCHANGED <<age, code, flow, placed, single, singleLanding>>
        /\ UNCHANGED sessionVars /\ UNCHANGED patchVars
    BY <1>2, <1>3, <1>8 DEF Enter
  <2>2. HostsKept' /\ RolesKept' /\ SessionsKept' /\ RoleStays
    BY <1>4, <2>1, StartKeeps
  <2>3. PatchKept' /\ OnlyAdmittedRuns
    BY <1>4, <2>1 DEF PatchKept, patchVars, OnlyAdmittedRuns
  <2>4. CardKept'
    BY <1>1, <1>8, <2>1 DEF PageKept, CardKept
  <2> QED
    BY <2>2, <2>3, <2>4 DEF PageKept, Kept
<1>9. CASE c \in {5, 6}
  <2>0. Cards[c + 1] \in {"firewall", "policy"}
    BY <1>3, <1>9
  <2>1. UNCHANGED vars
    BY <1>2, <2>0 DEF Enter
  <2>2. /\ UNCHANGED <<up, age, code, flow>> /\ UNCHANGED roleVars
        /\ UNCHANGED sessionVars /\ UNCHANGED patchVars
    BY <2>1 DEF vars
  <2>3. SessionsKept'
    BY <1>4, <2>2, SessionsStay
  <2>4. HostsKept' /\ RolesKept' /\ PatchKept' /\ RoleStays /\ OnlyAdmittedRuns
    BY <1>4, <2>2 DEF HostsKept, RolesKept, PatchKept, roleVars, patchVars, RoleStays, OnlyAdmittedRuns
  <2>5. CardKept'
    BY <1>1, <1>9, <2>2 DEF PageKept, CardKept, roleVars
  <2> QED
    BY <2>3, <2>4, <2>5 DEF PageKept, Kept
<1> QED
  BY <1>1, <1>5, <1>6, <1>7, <1>8, <1>9

\* A patch just sent is at the gate, without a verdict.
LEMMA SentIs ==
  ASSUME NEW grant \in BOOLEAN
  PROVE  /\ OnItsWay(Sent(grant)) /\ Sent(grant).phase = "toGate" /\ Sent(grant).verdict = "none"
BY DEF Sent, OnItsWay, Patches

\* A granted patch that is sent is on its way to the gate.
LEMMA SentTrueIs == OnItsWay(Sent(TRUE)) /\ Sent(TRUE).phase = "toGate"
BY DEF Sent, OnItsWay, Patches

\* The rollout figure's cards.
LEMMA RolloutArriveKeeps ==
  ASSUME PageKept, Arrive, figure = "rollout"
  PROVE  PageKept' /\ RoleStays /\ OnlyAdmittedRuns
<1>1. PICK c \in 1..4 : c = card /\ card' = c + 1 /\ figure' = "rollout"
  <2>1. Len(Cards) = 5
    BY CardsAre
  <2> QED
    BY <2>1 DEF Arrive, PageKept, CardKept
<1>2. Enter(Cards[c + 1])
  BY <1>1 DEF Arrive
<1>3. Cards[c + 1] = <<"widen", "refused", "granted", "node", "admitted">>[c + 1]
  BY CardsAre
<1>4. /\ Kept /\ HostsKept /\ RolesKept /\ SessionsKept /\ PatchKept
      /\ \A h \in Hosts : code[h] = 1
  BY <1>1 DEF PageKept, Kept, CardKept
<1>5. ASSUME UNCHANGED <<up, age, flow>>, UNCHANGED roleVars, UNCHANGED sessionVars,
             code' \in [Hosts -> {1, 2}]
      PROVE  HostsKept' /\ RolesKept' /\ SessionsKept' /\ RoleStays
  <2>1. SessionsKept'
    BY <1>4, <1>5, SessionsStay
  <2>2. HostsKept' /\ RolesKept' /\ RoleStays
    BY <1>4, <1>5 DEF HostsKept, RolesKept, roleVars, RoleStays
  <2> QED
    BY <2>1, <2>2
<1>6. CASE c \in {1, 2}
  <2>0. Cards[c + 1] \in {"refused", "granted"}
    BY <1>3, <1>6
  <2>1. PICK grant \in BOOLEAN :
          /\ patch' = Sent(grant) /\ patches' = patches + 1 /\ ruled' = ruled
          /\ UNCHANGED <<up, age, code, flow>> /\ UNCHANGED roleVars /\ UNCHANGED sessionVars
    <3>1. /\ Sending(Sent(FALSE)) \/ Sending(Sent(TRUE))
          /\ UNCHANGED <<up, age, code, flow>> /\ UNCHANGED roleVars /\ UNCHANGED sessionVars
      BY <1>2, <2>0 DEF Enter
    <3>2. PICK sent \in {Sent(FALSE), Sent(TRUE)} : Sending(sent)
      BY <3>1
    <3>3. PICK grant \in BOOLEAN : sent = Sent(grant)
      OBVIOUS
    <3> QED
      BY <3>1, <3>2, <3>3 DEF Sending
  <2>2. PatchKept'
    BY <1>4, <2>1, SendKeeps
  <2>3. HostsKept' /\ RolesKept' /\ SessionsKept' /\ RoleStays /\ OnlyAdmittedRuns
    BY <1>4, <1>5, <2>1 DEF HostsKept, OnlyAdmittedRuns
  <2>4. CardKept'
    BY <1>1, <1>4, <1>6, <2>1, SentIs DEF PageKept, CardKept
  <2> QED
    BY <2>2, <2>3, <2>4 DEF PageKept, Kept
<1>7. CASE c = 3
  <2>1. /\ ruled' = (IF patch.grant THEN patches ELSE patches + 1)
        /\ patches' = ruled'
        /\ ResolveNodes(IF patch.grant THEN patch ELSE Sent(TRUE), "refuse")
        /\ UNCHANGED <<up, age, flow>> /\ UNCHANGED roleVars /\ UNCHANGED sessionVars
    <3>1. Cards[c + 1] = "node"
      BY <1>3, <1>7
    <3> QED
      BY <1>2, <3>1 DEF Enter
  <2>2. PICK p : p = IF patch.grant THEN patch ELSE Sent(TRUE)
    OBVIOUS
  <2>3. /\ patch' = Resolved(p, "refuse") /\ code' = Activates(patch, patch')
        /\ OnItsWay(p) /\ patches' \in Nat /\ ((p = patch /\ patches' = patches) \/ p.phase = "toGate")
    <3>1. patch' = Resolved(p, "refuse") /\ code' = Activates(patch, patch')
      BY <2>1, <2>2 DEF ResolveNodes
    <3>2. OnItsWay(patch) /\ patches \in Nat /\ patches + 1 \in Nat
      BY <1>4 DEF PatchKept
    <3>3. CASE patch.grant
      BY <2>1, <2>2, <3>1, <3>2, <3>3
    <3>4. CASE ~patch.grant
      BY <2>1, <2>2, <3>1, <3>2, <3>4, SentTrueIs
    <3> QED
      BY <3>3, <3>4
  <2>4. PatchKept' /\ code' \in [Hosts -> {1, 2}] /\ OnlyAdmittedRuns
    BY <1>4, <2>1, <2>3, VerdictKeeps
  <2>5. patch'.verdict = "refuse"
    BY <2>3, ResolvedKeeps
  <2>6. code' = code
    BY <2>4, <2>5 DEF OnlyAdmittedRuns
  <2>7. HostsKept' /\ RolesKept' /\ SessionsKept' /\ RoleStays
    BY <1>5, <2>1, <2>4
  <2>8. CardKept'
    BY <1>1, <1>4, <1>7, <2>5, <2>6 DEF PageKept, CardKept
  <2> QED
    BY <2>4, <2>7, <2>8 DEF PageKept, Kept
<1>8. CASE c = 4
  <2>1. /\ patches' = patches + 1 /\ ruled' = patches'
        /\ patch' = Resolved(Sent(TRUE), "admit") /\ code' = Activates(patch, patch')
        /\ UNCHANGED <<up, age, flow>> /\ UNCHANGED roleVars /\ UNCHANGED sessionVars
    BY <1>2, <1>3, <1>8 DEF Enter, ResolveNodes
  <2>2. PICK p : p = Sent(TRUE)
    OBVIOUS
  <2>3. OnItsWay(p) /\ p.phase = "toGate" /\ patches' \in Nat
    <3>1. OnItsWay(p) /\ p.phase = "toGate"
      BY <2>2, SentTrueIs
    <3>2. patches \in Nat
      BY <1>4 DEF PatchKept
    <3> QED
      BY <2>1, <3>1, <3>2
  <2>4. PatchKept' /\ code' \in [Hosts -> {1, 2}] /\ OnlyAdmittedRuns
    BY <1>4, <2>1, <2>2, <2>3, VerdictKeeps
  <2>5. HostsKept' /\ RolesKept' /\ SessionsKept' /\ RoleStays
    BY <1>5, <2>1, <2>4
  <2>6. CardKept'
    BY <1>1, <1>8 DEF PageKept, CardKept
  <2> QED
    BY <2>4, <2>5, <2>6 DEF PageKept, Kept
<1> QED
  BY <1>1, <1>6, <1>7, <1>8

-------------------------------------------------------------------------------
(* The page.                                                               *)

\* Whichever figure is looked at, it begins well.
LEMMA PageInitKept == PageInit => PageKept
<1> SUFFICES ASSUME PageInit PROVE PageKept
  OBVIOUS
<1>1. CASE CardsInit
  <2>1. /\ card = 1 /\ figure \in {"topology", "rollout"} /\ Fresh
        /\ \/ figure = "rollout" /\ placed = TRUE /\ flow = TRUE /\ single = RankSingle
           \/ figure = "topology" /\ placed = FALSE /\ flow = FALSE /\ single = Nobody
    BY <1>1 DEF CardsInit, Init
  <2>2. Kept /\ \A h \in Hosts : up[h] /\ code[h] = 1
    BY <2>1, StartsKept
  <2>3. patch.verdict = "none"
    BY <2>1 DEF Fresh, NoPatch
  <2> QED
    BY <2>1, <2>2, <2>3 DEF PageKept, CardKept
<1>2. CASE Init /\ Events /\ card = 1
  BY <1>2, StartsKept DEF Init, Events, PageKept, CardKept
<1> QED
  BY <1>1, <1>2 DEF PageInit

\* Every step of the page keeps the invariant, and obeys the rules of the model.
LEMMA PageKeeps ==
  ASSUME PageKept, [PageNext]_cardVars
  PROVE  PageKept' /\ (UNCHANGED vars \/ (RoleStays /\ OnlyAdmittedRuns))
<1>1. CASE UNCHANGED cardVars
  <2>1. /\ UNCHANGED vars /\ UNCHANGED <<up, age, code, flow, figure, card>> /\ UNCHANGED roleVars
        /\ UNCHANGED sessionVars /\ UNCHANGED patchVars
    BY <1>1 DEF cardVars, vars
  <2>2. Kept /\ HostsKept /\ RolesKept /\ SessionsKept /\ PatchKept /\ CardKept
    BY DEF PageKept, Kept
  <2>3. SessionsKept'
    BY <2>1, <2>2, SessionsStay
  <2>4. HostsKept' /\ RolesKept' /\ PatchKept'
    BY <2>1, <2>2 DEF HostsKept, RolesKept, PatchKept, roleVars, patchVars
  <2>5. CardKept'
    BY <2>1, <2>2 DEF CardKept, roleVars, patchVars
  <2> QED
    BY <2>1, <2>3, <2>4, <2>5 DEF PageKept, Kept
<1>2. CASE Events /\ Next /\ UNCHANGED <<figure, card>>
  <2>1. Kept' /\ RoleStays /\ OnlyAdmittedRuns
    BY <1>2, NextKeeps DEF PageKept
  <2>2. CardKept'
    BY <1>2 DEF Events, CardKept
  <2> QED
    BY <2>1, <2>2 DEF PageKept
<1>3. CASE ~Events /\ Frame
  BY <1>3, FrameKeeps
<1>4. CASE ~Events /\ Arrive
  <2>1. figure = "topology" \/ figure = "rollout"
    BY <1>4 DEF Events, PageKept, CardKept
  <2> QED
    BY <1>4, <2>1, TopologyArriveKeeps, RolloutArriveKeeps
<1> QED
  BY <1>1, <1>2, <1>3, <1>4 DEF PageNext, CardsNext

\* A session is served by hosts that are up, and every session asked for is
\* finished, cancelled, refused or under way, whatever stops, starts or moves
\* (SimTopology.SessionsOK).
THEOREM SessionsAlwaysOK == PageSpec => []SessionsOK
<1>1. PageKept => SessionsOK
  BY KeptIsOK DEF PageKept
<1> QED
  BY <1>1, PageInitKept, PageKeeps, PTL DEF PageSpec

\* The role leaves a host only after the suspect time, and new code runs only by
\* a grant and a verdict on that very patch (SimTopology.ChangesAreEarned).
THEOREM ChangesAlwaysEarned == PageSpec => ChangesAreEarned
<1>1. PageKept /\ [PageNext]_cardVars => PageKept' /\ [RoleStays /\ OnlyAdmittedRuns]_vars
  BY PageKeeps
<1> QED
  BY <1>1, PageInitKept, PTL DEF PageSpec, ChangesAreEarned

\* However fast the reader passes the rollout's cards, no machine runs the new
\* code before the card that admits it (AuthorityCards.NewCodeOnItsCard).
THEOREM NewCodeAlwaysOnItsCard == PageSpec => []NewCodeOnItsCard
<1>1. PageKept => NewCodeOnItsCard
  <2> SUFFICES ASSUME PageKept, figure = "rollout", NEW h \in Hosts, code[h] = 2
               PROVE  Name = "admitted"
    BY DEF NewCodeOnItsCard
  <2>1. card = 5
    BY DEF PageKept, CardKept
  <2> QED
    BY <2>1, CardsAre DEF Name
<1> QED
  BY <1>1, PageInitKept, PageKeeps, PTL DEF PageSpec
================================================================================
