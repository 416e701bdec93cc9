------------------------------ MODULE Swim_proofs ------------------------------
(***************************************************************************)
(* Theorems about the failure detector and the view it merges, for any     *)
(* nodes, incarnations and bounds.                                         *)
(*                                                                         *)
(* Merging: of two observations of a node the winner is a least upper      *)
(* bound in a total order, so that merging is commutative, associative and *)
(* idempotent. Then what each transition of Swim does to the knowledge of  *)
(* one member, a tick being the repetition of these. Then IInv: what a     *)
(* node knows of the others, that it knows itself alive at the end of a    *)
(* tick, and that its subscribers last heard what its view says.           *)
(***************************************************************************)
EXTENDS Swim, SumTheorems

-------------------------------------------------------------------------------
(* Merging views.                                                          *)

\* A view, and what a node may be known as: the unheard-of node is below all.
Known == Members \cup {Unknown}

\* Severities are numbers.
LEMMA SeverityIsNat ==
  ASSUME NEW s \in Statuses
  PROVE  Severity[s] \in Nat
BY DEF Statuses, Severity

\* Two statuses of one severity are the same.
LEMMA SeverityTellsApart ==
  ASSUME NEW s \in Statuses, NEW t \in Statuses, Severity[s] = Severity[t]
  PROVE  s = t
BY DEF Statuses, Severity

\* An observation is its status, its incarnation and its creation.
LEMMA KnownFields ==
  ASSUME NEW a \in Known
  PROVE  /\ a.status \in Statuses /\ a.incarnation \in Int /\ a.creation \in Int
         /\ a = [status |-> a.status, incarnation |-> a.incarnation, creation |-> a.creation]
         /\ Severity[a.status] \in Nat
<1>1. "Alive" \in Statuses
  BY DEF Statuses, Severity
<1>2. CASE a \in Members
  BY <1>2, SeverityIsNat DEF Members
<1>3. CASE a = Unknown
  BY <1>1, <1>3, SeverityIsNat DEF Unknown
<1> QED
  BY <1>2, <1>3 DEF Known

-------------------------------------------------------------------------------
(* supersedes is a total order.                                            *)

\* Supersedes is a total order on the observations of one node.
LEMMA SupersedesReflexive ==
  ASSUME NEW a \in Known
  PROVE  Supersedes(a, a)
BY KnownFields DEF Supersedes

LEMMA SupersedesTotal ==
  ASSUME NEW a \in Known, NEW b \in Known
  PROVE  Supersedes(a, b) \/ Supersedes(b, a)
BY KnownFields DEF Supersedes

LEMMA SupersedesTransitive ==
  ASSUME NEW a \in Known, NEW b \in Known, NEW c \in Known, Supersedes(c, b), Supersedes(b, a)
  PROVE  Supersedes(c, a)
BY KnownFields DEF Supersedes

LEMMA SupersedesAntisymmetric ==
  ASSUME NEW a \in Known, NEW b \in Known, Supersedes(a, b), Supersedes(b, a)
  PROVE  a = b
<1>1. a.creation = b.creation /\ a.incarnation = b.incarnation /\ Severity[a.status] = Severity[b.status]
  BY KnownFields DEF Supersedes
<1>2. a.status = b.status
  BY <1>1, KnownFields, SeverityTellsApart
<1> QED
  BY <1>1, <1>2, KnownFields

\* What was heard of outranks what was not.
LEMMA UnknownIsBelow ==
  ASSUME NEW a \in Members
  PROVE  a # Unknown /\ Supersedes(a, Unknown) /\ ~Supersedes(Unknown, a)
BY DEF Members, Unknown, Supersedes

-------------------------------------------------------------------------------
(* The winner is their least upper bound.                                  *)

\* What is kept of two observations is one of them.
LEMMA WinnerIsOneOfThem ==
  ASSUME NEW a, NEW b
  PROVE  Winner(a, b) \in {a, b}
BY DEF Winner

LEMMA WinnerIsKnown ==
  ASSUME NEW a \in Known, NEW b \in Known
  PROVE  Winner(a, b) \in Known
BY WinnerIsOneOfThem

\* A view never gives up an observation for one that it outranks (observe):
\* the winner outranks both, and nothing less does.
THEOREM WinnerIsLeastUpperBound ==
  ASSUME NEW a \in Known, NEW b \in Known
  PROVE  /\ Supersedes(Winner(a, b), a) /\ Supersedes(Winner(a, b), b)
         /\ \A c \in Known : Supersedes(c, a) /\ Supersedes(c, b) => Supersedes(c, Winner(a, b))
<1>1. CASE Supersedes(b, a)
  BY <1>1, SupersedesReflexive DEF Winner
<1>2. CASE ~Supersedes(b, a)
  BY <1>2, SupersedesReflexive, SupersedesTotal DEF Winner
<1> QED
  BY <1>1, <1>2

LEMMA WinnerIdempotent ==
  ASSUME NEW a
  PROVE  Winner(a, a) = a
BY DEF Winner

\* Two observations of a node leave the same one, whichever comes first.
THEOREM WinnerCommutative ==
  ASSUME NEW a \in Known, NEW b \in Known
  PROVE  Winner(a, b) = Winner(b, a)
<1>1. CASE Supersedes(a, b) /\ Supersedes(b, a)
  BY <1>1, SupersedesAntisymmetric DEF Winner
<1>2. CASE ~(Supersedes(a, b) /\ Supersedes(b, a))
  BY <1>2, SupersedesTotal DEF Winner
<1> QED
  BY <1>1, <1>2

\* An observation may be folded into another before it is told, or after.
THEOREM WinnerAssociative ==
  ASSUME NEW a \in Known, NEW b \in Known, NEW c \in Known
  PROVE  Winner(Winner(a, b), c) = Winner(a, Winner(b, c))
<1> DEFINE onLeft == Winner(Winner(a, b), c)
           onRight == Winner(a, Winner(b, c))
<1>1. Winner(a, b) \in Known /\ Winner(b, c) \in Known /\ onLeft \in Known /\ onRight \in Known
  BY WinnerIsKnown
<1>2. Supersedes(onLeft, a) /\ Supersedes(onLeft, b) /\ Supersedes(onLeft, c)
  <2>1. Supersedes(onLeft, Winner(a, b)) /\ Supersedes(onLeft, c)
    BY <1>1, WinnerIsLeastUpperBound
  <2>2. Supersedes(Winner(a, b), a) /\ Supersedes(Winner(a, b), b)
    BY WinnerIsLeastUpperBound
  <2> HIDE DEF onLeft
  <2> QED
    BY <1>1, <2>1, <2>2, SupersedesTransitive
<1>3. Supersedes(onRight, a) /\ Supersedes(onRight, b) /\ Supersedes(onRight, c)
  <2>1. Supersedes(onRight, a) /\ Supersedes(onRight, Winner(b, c))
    BY <1>1, WinnerIsLeastUpperBound
  <2>2. Supersedes(Winner(b, c), b) /\ Supersedes(Winner(b, c), c)
    BY WinnerIsLeastUpperBound
  <2> HIDE DEF onRight
  <2> QED
    BY <1>1, <2>1, <2>2, SupersedesTransitive
<1>4. Supersedes(onRight, onLeft)
  <2>1. Supersedes(onRight, Winner(a, b))
    BY <1>1, <1>3, WinnerIsLeastUpperBound
  <2> QED
    BY <1>1, <1>3, <2>1, WinnerIsLeastUpperBound
<1>5. Supersedes(onLeft, onRight)
  <2>1. Supersedes(onLeft, Winner(b, c))
    BY <1>1, <1>2, WinnerIsLeastUpperBound
  <2> QED
    BY <1>1, <1>2, <2>1, WinnerIsLeastUpperBound
<1> HIDE DEF onLeft, onRight
<1>6. onLeft = onRight
  BY <1>1, <1>4, <1>5, SupersedesAntisymmetric
<1> QED
  BY <1>6 DEF onLeft, onRight

-------------------------------------------------------------------------------
(* Views.                                                                  *)

\* Merging is the join, member by member.
LEMMA MergeIsPointwise ==
  ASSUME NEW Id, NEW v \in [Id -> Known], NEW w \in [Id -> Known]
  PROVE  Merge(v, w) = [id \in Id |-> Winner(v[id], w[id])] /\ Merge(v, w) \in [Id -> Known]
<1>1. ASSUME NEW id \in Id
      PROVE  (IF w[id] = Unknown THEN v[id] ELSE Winner(v[id], w[id])) = Winner(v[id], w[id])
  <2>1. CASE w[id] # Unknown
    BY <2>1
  <2>2. CASE w[id] = Unknown
    <3>1. CASE v[id] = Unknown
      BY <2>2, <3>1, WinnerIdempotent
    <3>2. CASE v[id] # Unknown
      BY <2>2, <3>2, UnknownIsBelow DEF Known, Winner
    <3> QED
      BY <3>1, <3>2
  <2> QED
    BY <2>1, <2>2
<1>2. Merge(v, w) = [id \in Id |-> Winner(v[id], w[id])]
  BY <1>1 DEF Merge
<1> QED
  BY <1>2, WinnerIsKnown

\* The views of two nodes that have heard the same sync messages agree, in
\* whatever order and however often the messages came (membership.js: "gossiped
\* member views converge regardless of order").
THEOREM MergesConverge ==
  ASSUME NEW Id, NEW v \in [Id -> Known], NEW a \in [Id -> Known], NEW b \in [Id -> Known]
  PROVE  /\ Merge(Merge(v, a), b) = Merge(Merge(v, b), a)
         /\ Merge(Merge(v, a), a) = Merge(v, a)
         /\ Merge(Merge(v, a), b) = Merge(v, Merge(a, b))
<1>1. /\ Merge(v, a) \in [Id -> Known] /\ Merge(v, b) \in [Id -> Known] /\ Merge(a, b) \in [Id -> Known]
      /\ Merge(v, a) = [id \in Id |-> Winner(v[id], a[id])]
      /\ Merge(v, b) = [id \in Id |-> Winner(v[id], b[id])]
      /\ Merge(a, b) = [id \in Id |-> Winner(a[id], b[id])]
  BY MergeIsPointwise
<1>2. /\ Merge(Merge(v, a), b) = [id \in Id |-> Winner(Winner(v[id], a[id]), b[id])]
      /\ Merge(Merge(v, b), a) = [id \in Id |-> Winner(Winner(v[id], b[id]), a[id])]
      /\ Merge(Merge(v, a), a) = [id \in Id |-> Winner(Winner(v[id], a[id]), a[id])]
      /\ Merge(v, Merge(a, b)) = [id \in Id |-> Winner(v[id], Winner(a[id], b[id]))]
  BY <1>1, MergeIsPointwise
<1>3. ASSUME NEW id \in Id
      PROVE  /\ Winner(Winner(v[id], a[id]), b[id]) = Winner(v[id], Winner(a[id], b[id]))
             /\ Winner(Winner(v[id], b[id]), a[id]) = Winner(v[id], Winner(a[id], b[id]))
             /\ Winner(Winner(v[id], a[id]), a[id]) = Winner(v[id], a[id])
  <2>1. v[id] \in Known /\ a[id] \in Known /\ b[id] \in Known
    OBVIOUS
  <2>2. Winner(a[id], b[id]) = Winner(b[id], a[id]) /\ Winner(a[id], a[id]) = a[id]
    BY <2>1, WinnerCommutative, WinnerIdempotent
  <2> QED
    BY <2>1, <2>2, WinnerAssociative
<1> QED
  BY <1>1, <1>2, <1>3

-------------------------------------------------------------------------------
(* What a transition does to the knowledge of one member.                  *)

\* A suspect timer goes with a suspicion.
TimerOK(k) == k.timer => k.seen.status # "Alive"

\* Events as they come: gossip carries a member, the others none.
Events == {Gossip(member) : member \in Members} \cup {ConnLost, PeerDown}

\* What a node knows of a member has the fields its type says.
LEMMA KnowledgeFields ==
  ASSUME NEW k \in Knowledge
  PROVE  k.seen \in Known /\ k.timer \in BOOLEAN /\ k.out \in Seq(Members)
BY DEF Knowledge, Known

\* A new observation with its events leaves the timer as it was.
LEMMA KnowledgeUpdated ==
  ASSUME NEW k \in Knowledge, NEW seen \in Known, NEW out \in Seq(Members)
  PROVE  /\ [k EXCEPT !.seen = seen, !.out = out] \in Knowledge
         /\ [k EXCEPT !.seen = seen, !.out = out].seen = seen
         /\ [k EXCEPT !.seen = seen, !.out = out].timer = k.timer
BY DEF Knowledge, Known

\* A verdict is of the status that was passed.
LEMMA VerdictIsMember ==
  ASSUME NEW known \in Known, NEW status \in Statuses
  PROVE  Verdict(known, status) \in Members /\ Verdict(known, status).status = status
<1>1. CASE known \in Members
  BY <1>1, UnknownIsBelow DEF Verdict, Members
<1>2. CASE known = Unknown
  BY <1>2 DEF Verdict, Members, Unknown
<1> QED
  BY <1>1, <1>2 DEF Known

\* A verdict that is more severe than what is known becomes known.
LEMMA HarsherVerdictWins ==
  ASSUME NEW known \in Known, NEW status \in Statuses, Severity[status] >= Severity[known.status]
  PROVE  Winner(known, Verdict(known, status)) = Verdict(known, status)
<1>1. CASE known \in Members
  BY <1>1, UnknownIsBelow, KnownFields DEF Winner, Verdict, Supersedes
<1>2. CASE known = Unknown
  BY <1>2 DEF Winner, Verdict, Supersedes, Unknown
<1> QED
  BY <1>1, <1>2 DEF Known

\* The statuses and their severities, written out.
LEMMA ThreeStatuses == Statuses = {"Alive", "Suspect", "Dead"}
                       /\ Severity["Alive"] = 0 /\ Severity["Suspect"] = 1 /\ Severity["Dead"] = 2
BY DEF Statuses, Severity

-------------------------------------------------------------------------------

\* Gossip heard raises what is known, and leaves no timer behind.
LEMMA OnGossipRaises ==
  ASSUME NEW k \in Knowledge, NEW member \in Members
  PROVE  /\ OnGossip(k, member) \in Knowledge
         /\ Supersedes(OnGossip(k, member).seen, k.seen)
         /\ TimerOK(k) => TimerOK(OnGossip(k, member))
<1>1. k.seen \in Known /\ member \in Known
  BY KnowledgeFields DEF Known
<1>2. Winner(k.seen, member) \in Known /\ Supersedes(Winner(k.seen, member), k.seen)
  BY <1>1, WinnerIsKnown, WinnerIsLeastUpperBound
<1> QED
  BY <1>2, KnowledgeFields DEF OnGossip, Knowledge, Known, TimerOK

\* A verdict of the node itself raises what is known.
LEMMA JudgedRaises ==
  ASSUME NEW k \in Knowledge, NEW status \in Statuses
  PROVE  /\ Judged(k, status) \in Knowledge
         /\ Supersedes(Judged(k, status).seen, k.seen)
         /\ status # "Alive" => Judged(k, status).seen.status # "Alive"
         /\ Judged(k, status).timer = k.timer
<1>1. k.seen \in Known /\ Verdict(k.seen, status) \in Members /\ Verdict(k.seen, status) \in Known
  BY KnowledgeFields, VerdictIsMember DEF Known
<1>2. /\ Winner(k.seen, Verdict(k.seen, status)) \in Known
      /\ Supersedes(Winner(k.seen, Verdict(k.seen, status)), k.seen)
  BY <1>1, WinnerIsKnown, WinnerIsLeastUpperBound
<1>3. ASSUME status # "Alive"
      PROVE  Winner(k.seen, Verdict(k.seen, status)).status # "Alive"
  <2>1. CASE k.seen.status = "Alive"
    <3>1. Severity[status] >= Severity[k.seen.status]
      BY <1>1, <2>1, ThreeStatuses, SeverityIsNat
    <3> QED
      BY <1>1, <1>3, <3>1, HarsherVerdictWins, VerdictIsMember
  <2>2. CASE k.seen.status # "Alive"
    BY <1>1, <1>3, <2>2, WinnerIsOneOfThem, VerdictIsMember
  <2> QED
    BY <2>1, <2>2
<1>4. Append(k.out, Verdict(k.seen, status)) \in Seq(Members)
  BY <1>1, KnowledgeFields
<1> DEFINE seen == Winner(k.seen, Verdict(k.seen, status))
           out  == Append(k.out, Verdict(k.seen, status))
<1>5. Judged(k, status) = [k EXCEPT !.seen = seen, !.out = out]
  BY DEF Judged, Knowledge
<1> HIDE DEF seen, out
<1>6. /\ [k EXCEPT !.seen = seen, !.out = out] \in Knowledge
      /\ [k EXCEPT !.seen = seen, !.out = out].seen = seen
      /\ [k EXCEPT !.seen = seen, !.out = out].timer = k.timer
  BY <1>2, <1>4, KnowledgeUpdated, ZenonT(40) DEF seen, out
<1> QED
  BY <1>2, <1>3, <1>5, <1>6 DEF seen

\* A transition of k raises what is known, and its timer goes with a suspicion.
Raises(k, result) ==
  /\ result \in Knowledge /\ Supersedes(result.seen, k.seen)
  /\ TimerOK(k) => TimerOK(result)

\* A suspicion raises what is known and arms the timer.
LEMMA SuspectedRaises ==
  ASSUME NEW k \in Knowledge
  PROVE  Raises(k, Suspected(k)) /\ Suspected(k).seen.status # "Alive" /\ Suspected(k).timer
<1>1. "Suspect" \in Statuses
  BY ThreeStatuses
<1>2. /\ Judged(k, "Suspect") \in Knowledge /\ Supersedes(Judged(k, "Suspect").seen, k.seen)
      /\ Judged(k, "Suspect").seen.status # "Alive"
  BY <1>1, JudgedRaises
<1> DEFINE j == Judged(k, "Suspect")
<1> HIDE DEF j
<1>3. j \in Knowledge => [j EXCEPT !.timer = TRUE] \in Knowledge
                         /\ [j EXCEPT !.timer = TRUE].seen = j.seen /\ [j EXCEPT !.timer = TRUE].timer = TRUE
  BY DEF Knowledge
<1> QED
  BY <1>2, <1>3 DEF Suspected, Raises, TimerOK, j

\* An event (apply_event) takes nothing back that was observed of a member, and
\* leaves no timer on one that is Alive: a late Suspect or Dead of an earlier
\* incarnation or life changes nothing, and an Alive that wins disarms.
THEOREM EventsRaise ==
  ASSUME NEW k \in Knowledge, NEW ev \in Events
  PROVE  Raises(k, ApplyEvent(k, ev))
<1>1. CASE ev \in {Gossip(member) : member \in Members}
  <2>1. PICK member \in Members : ev = Gossip(member)
    BY <1>1
  <2>2. ApplyEvent(k, ev) = OnGossip(k, member)
    BY <2>1 DEF ApplyEvent, Gossip
  <2> QED
    BY <2>2, OnGossipRaises DEF Raises
<1>2. CASE ev = ConnLost
  <2>1. ApplyEvent(k, ev) = SuspectMember(k)
    BY <1>2 DEF ApplyEvent, ConnLost
  <2>2. Raises(k, k)
    BY KnowledgeFields, SupersedesReflexive DEF Raises
  <2> QED
    BY <2>1, <2>2, SuspectedRaises DEF SuspectMember
<1>3. CASE ev = PeerDown
  <2>1. ApplyEvent(k, ev) = Judged(k, "Dead")
    BY <1>3 DEF ApplyEvent, PeerDown
  <2>2. "Dead" \in Statuses
    BY ThreeStatuses
  <2> QED
    BY <2>1, <2>2, JudgedRaises DEF Raises, TimerOK
<1> QED
  BY <1>1, <1>2, <1>3 DEF Events

\* Nor does the end of a period, whatever becomes of the member: it did not
\* answer (end_period), its timer ran out (expire_suspects), or it is the node
\* itself, which arms no timer on itself and is Alive afterwards (refute).
THEOREM PeriodsRaise ==
  ASSUME NEW k \in Knowledge, NEW n \in Node, incarnation[n] \in Nat
  PROVE  /\ Raises(k, EndPeriod(k))
         /\ Raises(k, ExpireSuspect(k))
         /\ k.seen \in Members /\ ~k.timer =>
              Raises(k, Refute(n, k)) /\ Refute(n, k).seen.status = "Alive"
<1>1. Raises(k, EndPeriod(k))
  BY SuspectedRaises DEF EndPeriod
<1>2. Raises(k, ExpireSuspect(k))
  <2>1. "Dead" \in Statuses
    BY ThreeStatuses
  <2> DEFINE j == Judged(k, "Dead")
  <2>2. j \in Knowledge /\ Supersedes(j.seen, k.seen)
    BY <2>1, JudgedRaises
  <2> HIDE DEF j
  <2>3. [j EXCEPT !.timer = FALSE] \in Knowledge /\ [j EXCEPT !.timer = FALSE].seen = j.seen
        /\ [j EXCEPT !.timer = FALSE].timer = FALSE
    BY <2>2 DEF Knowledge
  <2> QED
    BY <2>2, <2>3 DEF ExpireSuspect, Raises, TimerOK, j
<1>3. ASSUME k.seen \in Members, ~k.timer
      PROVE  Raises(k, Refute(n, k)) /\ Refute(n, k).seen.status = "Alive"
  <2> DEFINE v == [k.seen EXCEPT !.status = "Alive", !.incarnation = NextIncarnation(n, k)]
  <2>1. NextIncarnation(n, k) \in Nat /\ NextIncarnation(n, k) > k.seen.incarnation
    BY <1>3 DEF NextIncarnation, Members
  <2>2. /\ v \in Members /\ v.status = "Alive" /\ v.creation = k.seen.creation
        /\ v.incarnation > k.seen.incarnation
    BY <1>3, <2>1, ThreeStatuses DEF Members
  <2> HIDE DEF v
  <2>3. Supersedes(v, k.seen) /\ Winner(k.seen, v) = v
    BY <2>2 DEF Supersedes, Winner
  <2>4. CASE k.seen.status = "Alive"
    BY <2>4, KnowledgeFields, SupersedesReflexive DEF Refute, Raises
  <2>5. CASE k.seen.status # "Alive"
    <3> DEFINE out == Append(k.out, v)
    <3>1. Refute(n, k) = [k EXCEPT !.seen = v, !.out = out]
      BY <2>3, <2>5, KnowledgeFields DEF Refute, Knowledge, v
    <3>2. v \in Known /\ out \in Seq(Members)
      BY <2>2, KnowledgeFields DEF Known
    <3> HIDE DEF out
    <3>3. /\ [k EXCEPT !.seen = v, !.out = out] \in Knowledge
          /\ [k EXCEPT !.seen = v, !.out = out].seen = v
          /\ [k EXCEPT !.seen = v, !.out = out].timer = k.timer
      BY <3>2, KnowledgeUpdated, ZenonT(40)
    <3> QED
      BY <1>3, <2>2, <2>3, <3>1, <3>3 DEF Raises, TimerOK
  <2> QED
    BY <2>4, <2>5
<1> QED
  BY <1>1, <1>2, <1>3

-------------------------------------------------------------------------------
(* The repetition: the events a tick folds in, and the news it sends.      *)

\* Gossip is an event.
LEMMA EventKinds ==
  ASSUME NEW member \in Members
  PROVE  Gossip(member) \in Events
BY DEF Events

\* Two raises are one.
LEMMA RaisesTransitive ==
  ASSUME NEW k \in Knowledge, NEW k1 \in Knowledge, NEW k2, Raises(k, k1), Raises(k1, k2)
  PROVE  Raises(k, k2)
<1>1. k.seen \in Known /\ k1.seen \in Known /\ k2.seen \in Known
  BY KnowledgeFields DEF Raises
<1> QED
  BY <1>1, SupersedesTransitive DEF Raises

\* The recursion of apply_events, unfolded: knowledge stays in a set that no
\* event takes it out of.
LEMMA ApplyEventsStays ==
  ASSUME NEW known \in Knowledge, NEW events \in Seq(Events), NEW S \in SUBSET Knowledge, known \in S,
         \A i \in 1..Len(events) : \A k \in S : ApplyEvent(k, events[i]) \in S
  PROVE  ApplyEvents(known, events) \in S
<1> DEFINE N == Len(events)
           g == [i \in 1..N |-> [k \in Knowledge |-> ApplyEvent(k, events[i])]]
           IsAfter(F) == F = [i \in 0..N |-> IF i = 0 THEN known ELSE [k \in Knowledge |-> ApplyEvent(k, events[i])][F[i - 1]]]
<1>1. N \in Nat
  OBVIOUS
<1>2. \E F : IsAfter(F)
  <2>1. PICK F : IsFold(F, N, known, g)
    BY <1>1, FoldExists
  <2>2. F = [i \in 0..N |-> IF i = 0 THEN known ELSE g[i][F[i - 1]]]
    BY <2>1 DEF IsFold
  <2>3. \A i \in 0..N : i # 0 => g[i] = [k \in Knowledge |-> ApplyEvent(k, events[i])]
    OBVIOUS
  <2>4. IsAfter(F)
    <3> HIDE DEF g
    <3> QED
      BY <2>2, <2>3
  <2> QED
    BY <2>4
<1>3. ApplyEvents(known, events) = (CHOOSE F : IsAfter(F))[N]
  BY DEF ApplyEvents
<1>4. PICK F : IsAfter(F) /\ ApplyEvents(known, events) = F[N]
  BY <1>2, <1>3
<1>5. F[0] \in S
  BY <1>1, <1>4
<1>6. ASSUME NEW i \in 1..N, F[i - 1] \in S PROVE F[i] \in S
  <2>1. i \in 0..N /\ i # 0 /\ i \in 1..Len(events)
    OBVIOUS
  <2>2. F[i] = [k \in Knowledge |-> ApplyEvent(k, events[i])][F[i - 1]]
    BY <1>4, <2>1
  <2>3. F[i] = ApplyEvent(F[i - 1], events[i])
    BY <1>6, <2>2
  <2> QED
    BY <1>6, <2>1, <2>3
<1> HIDE DEF N, IsAfter
<1> QED
  BY <1>1, <1>4, <1>5, <1>6, FoldStays

\* A tick's events raise what is known, all together.
LEMMA AllEventsRaise ==
  ASSUME NEW known \in Knowledge, NEW events \in Seq(Events)
  PROVE  ApplyEvents(known, events) \in Knowledge /\ Raises(known, ApplyEvents(known, events))
<1> DEFINE S == {k \in Knowledge : Raises(known, k)}
<1>1. known \in S
  BY KnowledgeFields, SupersedesReflexive DEF Raises
<1>2. ASSUME NEW i \in 1..Len(events), NEW k \in S
      PROVE  ApplyEvent(k, events[i]) \in S
  <2>1. events[i] \in Events
    OBVIOUS
  <2>2. Raises(k, ApplyEvent(k, events[i]))
    BY <2>1, EventsRaise
  <2> QED
    BY <2>2, RaisesTransitive DEF Raises
<1>3. S \in SUBSET Knowledge
  OBVIOUS
<1> HIDE DEF S
<1>4. ApplyEvents(known, events) \in S
  BY <1>1, <1>2, <1>3, ApplyEventsStays
<1> QED
  BY <1>4 DEF S

Gossips == {Gossip(member) : member \in Members}

\* What a node knows of itself: it arms no timer on itself.
OfSelf == {k \in Knowledge : k.seen \in Members /\ ~k.timer}

\* Of itself a node only hears gossip.
LEMMA GossipOfSelf ==
  ASSUME NEW known \in OfSelf, NEW events \in Seq(Gossips)
  PROVE  ApplyEvents(known, events) \in OfSelf
<1>1. events \in Seq(Events) /\ known \in Knowledge
  BY DEF Events, Gossips, OfSelf
<1>2. ASSUME NEW i \in 1..Len(events), NEW k \in OfSelf
      PROVE  ApplyEvent(k, events[i]) \in OfSelf
  <2>1. PICK member \in Members : events[i] = Gossip(member)
    BY DEF Gossips
  <2>2. ApplyEvent(k, events[i]) = OnGossip(k, member)
    BY <2>1 DEF ApplyEvent, Gossip
  <2>3. OnGossip(k, member) \in Knowledge
    BY OnGossipRaises DEF OfSelf
  <2>4. Winner(k.seen, member) \in Members
    BY WinnerIsOneOfThem DEF OfSelf
  <2> QED
    BY <2>2, <2>3, <2>4 DEF OnGossip, OfSelf, Knowledge
<1>3. OfSelf \in SUBSET Knowledge
  BY DEF OfSelf
<1> QED
  BY <1>1, <1>2, <1>3, ApplyEventsStays

\* News are gossip (swim_frames).
LEMMA NewsAreGossip ==
  ASSUME NEW n, NEW m, NEW members \in Seq(Members)
  PROVE  News(n, m, members) \in Seq(Gossips)
<1> DEFINE N == Len(members)
           Counts(member) == Winner(view[n][m], member) # view[n][m]
           Told(s, i) == IF Counts(members[i]) THEN Append(s, Gossip(members[i])) ELSE s
           g == [i \in 1..N |-> [s \in Seq(Gossips) |-> Told(s, i)]]
           IsNew(F) == F = [i \in 0..N |-> IF i = 0 THEN <<>> ELSE IF Counts(members[i]) THEN Append(F[i - 1], Gossip(members[i])) ELSE F[i - 1]]
<1>1. N \in Nat
  OBVIOUS
<1>2. \A i \in 1..N : \A s \in Seq(Gossips) : Told(s, i) \in Seq(Gossips)
  <2>1. \A i \in 1..N : Gossip(members[i]) \in Gossips
    BY DEF Gossips
  <2> QED
    BY <2>1
<1>3. \E F : IsNew(F)
  <2>1. PICK F : IsFold(F, N, <<>>, g)
    BY <1>1, FoldExists
  <2>2. F = [i \in 0..N |-> IF i = 0 THEN <<>> ELSE g[i][F[i - 1]]]
    BY <2>1 DEF IsFold
  <2>3. \A i \in 1..N : F[i - 1] \in Seq(Gossips) => F[i] = Told(F[i - 1], i) /\ F[i] \in Seq(Gossips)
    <3> SUFFICES ASSUME NEW i \in 1..N, F[i - 1] \in Seq(Gossips)
                 PROVE  F[i] = Told(F[i - 1], i) /\ F[i] \in Seq(Gossips)
      OBVIOUS
    <3>1. i \in 0..N /\ i # 0
      OBVIOUS
    <3>2. F[i] = g[i][F[i - 1]]
      <4> HIDE DEF g
      <4> QED
        BY <2>2, <3>1
    <3> HIDE DEF Told
    <3>3. F[i] = Told(F[i - 1], i)
      BY <3>2
    <3> QED
      BY <1>2, <3>3
  <2>4. F[0] = <<>> /\ <<>> \in Seq(Gossips)
    BY <1>1, <2>2
  <2>5. ASSUME NEW i \in 1..N PROVE F[i - 1] \in Seq(Gossips)
    <3>1. i - 1 \in Nat
      OBVIOUS
    <3>2. \A j \in 1..(i - 1) : F[j - 1] \in Seq(Gossips) => F[j] \in Seq(Gossips)
      BY <2>3
    <3> DEFINE k == i - 1
               S == Seq(Gossips)
    <3>3. k \in Nat /\ F[0] \in S /\ \A j \in 1..k : F[j - 1] \in S => F[j] \in S
      BY <2>4, <3>1, <3>2
    <3> HIDE DEF N, k, S
    <3>4. F[k] \in S
      BY <3>3, FoldStays
    <3> QED
      BY <3>4 DEF k, S
  <2>6. \A i \in 0..N : i # 0 => i \in 1..N
    OBVIOUS
  <2>7. \A i \in 1..N : F[i] = IF Counts(members[i]) THEN Append(F[i - 1], Gossip(members[i])) ELSE F[i - 1]
    BY <2>3, <2>5
  <2>8. F = [i \in 0..N |-> F[i]]
    BY <2>2
  <2>9. IsNew(F)
    <3> HIDE DEF N, Counts
    <3> QED
      BY <2>4, <2>6, <2>7, <2>8
  <2> QED
    BY <2>9
<1>4. News(n, m, members) = (CHOOSE F : IsNew(F))[N]
  BY DEF News
<1>5. PICK F : IsNew(F) /\ News(n, m, members) = F[N]
  BY <1>3, <1>4
<1>6. F[0] \in Seq(Gossips)
  BY <1>1, <1>5
<1>7. ASSUME NEW i \in 1..N, F[i - 1] \in Seq(Gossips) PROVE F[i] \in Seq(Gossips)
  <2>1. i \in 0..N /\ i # 0
    OBVIOUS
  <2>2. F[i] = Told(F[i - 1], i)
    <3> HIDE DEF Counts
    <3> QED
      BY <1>5, <2>1
  <2> QED
    BY <1>2, <1>7, <2>2
<1> HIDE DEF N, IsNew
<1> QED
  BY <1>1, <1>5, <1>6, <1>7, FoldStays

-------------------------------------------------------------------------------
(* What subscribers have heard.                                            *)

Heard == {"nothing", "up", "suspect", "dead", "rejoined"}

\* What subscribers last heard of a member agrees with what the view knows of
\* it; of one whose death they heard of, the first Alive is a rejoin.
SameStory(known, heard, rejoins) ==
  /\ known = Unknown => heard = "nothing"
  /\ known # Unknown /\ known.status = "Alive" => heard \in {"up", "rejoined"}
  /\ known.status = "Suspect" => heard \in {"suspect", "dead", "nothing"}
  /\ known.status = "Dead" => heard \in {"dead", "nothing"}
  /\ heard = "dead" => known.status # "Alive" /\ (known.status = "Dead" \/ rejoins)

\* A member nobody has heard of counts as alive, in no life.
LEMMA UnknownIsAlive == Unknown.status = "Alive" /\ Unknown.creation = -1
BY DEF Unknown

\* A node that was heard of is not forgotten.
LEMMA StaysKnown ==
  ASSUME NEW a \in Known, NEW b \in Known, Supersedes(b, a), a # Unknown
  PROVE  b # Unknown
BY UnknownIsBelow DEF Known

\* member_events and next_rejoining keep the two in step, however far the view
\* has grown in between; and a death is only taken back by a rejoin.
LEMMA EventKeepsStory ==
  ASSUME NEW a \in Known, NEW b \in Known, Supersedes(b, a), NEW rejoins \in BOOLEAN, NEW heard \in Heard,
         SameStory(a, heard, rejoins)
  PROVE  /\ Event(a, b, rejoins, heard) \in Heard
         /\ SameStory(b, Event(a, b, rejoins, heard), Rejoins(a, b, rejoins))
         /\ heard = "dead" => Event(a, b, rejoins, heard) \in {"dead", "rejoined"}
<1>1. /\ a.status \in {"Alive", "Suspect", "Dead"} /\ b.status \in {"Alive", "Suspect", "Dead"}
      /\ a # Unknown => b # Unknown
  BY KnownFields, ThreeStatuses, StaysKnown
<1>2. CASE Returns(a, b)
  <2>1. b # Unknown /\ b.status = "Alive"
    BY <1>2 DEF Returns
  <2>2. Event(a, b, rejoins, heard) \in {"up", "rejoined"}
    BY <1>2 DEF Event
  <2>3. heard = "dead" => Event(a, b, rejoins, heard) = "rejoined"
    BY <1>2, UnknownIsAlive DEF Event, SameStory
  <2> QED
    BY <2>1, <2>2, <2>3 DEF SameStory, Heard
<1>3. CASE ~Returns(a, b) /\ Dies(a, b)
  <2>1. Event(a, b, rejoins, heard) = "dead"
    BY <1>3 DEF Event
  <2>2. b # Unknown /\ b.status # "Alive"
    BY <1>1, <1>3 DEF Returns, Dies
  <2>3. b.status = "Dead" \/ Rejoins(a, b, rejoins)
    BY <1>3, <2>2 DEF Dies, Rejoins
  <2> QED
    BY <1>1, <2>1, <2>2, <2>3 DEF SameStory, Heard
<1>4. CASE ~Returns(a, b) /\ ~Dies(a, b)
  <2>1. CASE a # Unknown /\ a.status = "Alive" /\ b.status = "Suspect"
    <3>1. Event(a, b, rejoins, heard) = "suspect"
      BY <1>4, <2>1 DEF Event
    <3>2. b # Unknown /\ heard # "dead"
      BY <2>1, UnknownIsAlive DEF SameStory
    <3> QED
      BY <2>1, <3>1, <3>2 DEF SameStory, Heard
  <2>2. CASE ~(a # Unknown /\ a.status = "Alive" /\ b.status = "Suspect")
    <3>1. Event(a, b, rejoins, heard) = heard
      BY <1>4, <2>2 DEF Event
    <3>2. CASE a = Unknown
      BY <1>1, <1>4, <3>1, <3>2, UnknownIsAlive DEF SameStory, Returns, Heard
    <3>3. CASE a # Unknown /\ a.status = "Alive"
      BY <1>1, <1>4, <2>2, <3>1, <3>3 DEF SameStory, Returns, Dies, Heard
    <3>4. CASE a # Unknown /\ a.status # "Alive"
      BY <1>1, <1>4, <2>2, <3>1, <3>4 DEF SameStory, Returns, Dies, Heard, Rejoins
    <3> QED
      BY <3>2, <3>3, <3>4
  <2> QED
    BY <2>1, <2>2
<1> QED
  BY <1>2, <1>3, <1>4

-------------------------------------------------------------------------------
(* The invariant.                                                          *)

Links == [dialer : Node \cup {Nobody}, creation : Nat, whole : BOOLEAN]

\* The shapes TypeOK leaves open.
Shape ==
  /\ view \in [Node -> [Node -> Known]] /\ told \in [Node -> [Node -> Heard]]
  /\ link \in [Node -> [Node -> Links]]
  /\ pending \in [Node -> [Node -> Seq(Events)]]
  /\ timers \in [Node -> SUBSET Node] /\ dialing \in [Node -> SUBSET Node] /\ rejoining \in [Node -> SUBSET Node]
  /\ process \in [Node -> {"up", "down", "silent"}] /\ creation \in [Node -> Nat]
  /\ incarnation \in [Node -> Nat] /\ probe \in [Node -> Node \cup {Nobody}]

\* A node knows itself, waits for no answer of its own and is told of itself by gossip.
KnowsItself(n) == view[n][n] \in Members /\ n \notin timers[n] /\ pending[n][n] \in Seq(Gossips)

\* Of the others, timers go with suspicions and subscribers have heard the story.
KnowsOf(n, m) ==
  /\ m \in timers[n] => view[n][m].status # "Alive"
  /\ SameStory(view[n][m], told[n][m], m \in rejoining[n])

IInv ==
  /\ Shape
  /\ \A n \in Node : KnowsItself(n)
  /\ \A n, m \in Node : n # m => KnowsOf(n, m)

\* An event has its kind and its member.
LEMMA EventFields ==
  ASSUME NEW ev \in Events
  PROVE  ev \in [kind : {"Gossip", "ConnLost", "PeerDown"}, member : Members \cup {Unknown}]
BY DEF Events, Gossip, ConnLost, PeerDown

\* The invariant says more than the types.
LEMMA IInvImpliesTypeOK == IInv => TypeOK
<1> SUFFICES ASSUME IInv PROVE TypeOK
  OBVIOUS
<1>1. Shape
  BY DEF IInv
<1>2. ASSUME NEW n \in Node, NEW m \in Node, NEW i \in DOMAIN pending[n][m]
      PROVE  pending[n][m][i] \in [kind : {"Gossip", "ConnLost", "PeerDown"}, member : Members \cup {Unknown}]
  <2>1. pending[n][m] \in Seq(Events)
    BY <1>1 DEF Shape
  <2>2. pending[n][m][i] \in Events
    BY <2>1
  <2> QED
    BY <2>2, EventFields
<1>3. \A n, m \in Node : /\ link[n][m] \in Links
                         /\ told[n][m] \in Heard
  BY <1>1 DEF Shape
<1> QED
  BY <1>1, <1>2, <1>3 DEF Shape, TypeOK, Known, Heard, Links

\* And more than the property.
LEMMA IInvImpliesMembersOK == IInv => MembersOK
<1> SUFFICES ASSUME IInv PROVE MembersOK
  OBVIOUS
<1>1. TypeOK
  BY IInvImpliesTypeOK
<1>2. \A n, m \in Node : n # m => KnowsOf(n, m)
  BY DEF IInv
<1> QED
  BY <1>1, <1>2 DEF MembersOK, KnowsOf, SameStory

-------------------------------------------------------------------------------
(* A tick.                                                                 *)

\* What a tick of n has come to know, from what n's view knew.
Grown(n, known) ==
  /\ known \in [Node -> Knowledge]
  /\ \A m \in Node : Supersedes(known[m].seen, view[n][m])
  /\ \A m \in Node : m # n => TimerOK(known[m])
  /\ known[n] \in OfSelf

\* All events of a tick, folded in one by one, have only raised what is known.
LEMMA FoldedGrown ==
  ASSUME IInv, NEW n \in Node
  PROVE  Grown(n, Folded(n))
<1> DEFINE first(m) == [seen |-> view[n][m], timer |-> m \in timers[n], out |-> <<>>]
<1>1. Shape /\ KnowsItself(n)
  BY DEF IInv
<1>2. ASSUME NEW m \in Node
      PROVE  first(m) \in Knowledge /\ pending[n][m] \in Seq(Events)
  <2>1. view[n][m] \in Known /\ pending[n][m] \in Seq(Events)
    BY <1>1 DEF Shape
  <2>2. <<>> \in Seq(Members)
    OBVIOUS
  <2> QED
    BY <2>1, <2>2 DEF Knowledge, Known
<1>3. Folded(n) = [m \in Node |-> ApplyEvents(first(m), pending[n][m])]
  BY DEF Folded
<1>4. ASSUME NEW m \in Node
      PROVE  /\ Folded(n)[m] \in Knowledge /\ Supersedes(Folded(n)[m].seen, view[n][m])
             /\ m # n => TimerOK(Folded(n)[m])
  <2>1. Folded(n)[m] = ApplyEvents(first(m), pending[n][m])
    BY <1>3
  <2>2. Raises(first(m), Folded(n)[m]) /\ Folded(n)[m] \in Knowledge
    <3> HIDE DEF first
    <3> QED
      BY <1>2, <2>1, AllEventsRaise
  <2>3. m # n => TimerOK(first(m))
    BY DEF IInv, KnowsOf, TimerOK
  <2>4. first(m).seen = view[n][m]
    OBVIOUS
  <2> HIDE DEF first
  <2> QED
    BY <2>2, <2>3, <2>4 DEF Raises
<1>5. Folded(n)[n] \in OfSelf
  <2>1. first(n) \in OfSelf
    BY <1>1, <1>2 DEF OfSelf, KnowsItself
  <2>2. Folded(n)[n] = ApplyEvents(first(n), pending[n][n])
    BY <1>3
  <2> HIDE DEF first
  <2> QED
    BY <1>1, <2>1, <2>2, GossipOfSelf DEF KnowsItself
<1>6. DOMAIN Folded(n) = Node
  BY <1>3
<1>7. Folded(n) \in [Node -> Knowledge]
  BY <1>3, <1>4, <1>6
<1> QED
  BY <1>4, <1>5, <1>7 DEF Grown

\* So has the end of a period after them.
LEMMA EndedGrown ==
  ASSUME IInv, NEW n \in Node, NEW known, Grown(n, known), NEW expired
  PROVE  Grown(n, Ended(n, known, expired))
<1> DEFINE e == Ended(n, known, expired)
<1>1. /\ known \in [Node -> Knowledge] /\ view \in [Node -> [Node -> Known]]
      /\ known[n] \in Knowledge /\ known[n].seen \in Members /\ ~known[n].timer
  BY DEF Grown, IInv, Shape, OfSelf
<1>2. incarnation[n] \in Nat
  BY DEF IInv, Shape
<1>3. ASSUME NEW m \in Node, m # n
      PROVE  Raises(known[m], e[m])
  <2>1. known[m] \in Knowledge
    BY <1>1
  <2>2. CASE m = probe[n]
    BY <1>2, <1>3, <2>1, <2>2, PeriodsRaise DEF Ended
  <2>3. CASE m # probe[n] /\ m \in expired
    BY <1>2, <1>3, <2>1, <2>3, PeriodsRaise DEF Ended
  <2>4. CASE m # probe[n] /\ m \notin expired
    <3>1. e[m] = known[m]
      BY <1>3, <2>4 DEF Ended
    <3> QED
      BY <2>1, <3>1, KnowledgeFields, SupersedesReflexive DEF Raises
  <2> QED
    BY <2>2, <2>3, <2>4
<1>4. Raises(known[n], e[n]) /\ e[n] \in OfSelf
  <2>1. e[n] = Refute(n, known[n])
    BY DEF Ended
  <2>2. Raises(known[n], e[n]) /\ e[n].seen.status = "Alive"
    BY <1>1, <1>2, <2>1, PeriodsRaise
  <2>3. e[n] \in Knowledge /\ Supersedes(e[n].seen, known[n].seen)
    BY <2>2 DEF Raises
  <2>4. e[n].seen \in Members
    <3>1. e[n].seen \in Known /\ known[n].seen # Unknown /\ known[n].seen \in Known
      BY <1>1, <2>3, KnowledgeFields, UnknownIsBelow
    <3>2. e[n].seen # Unknown
      BY <2>3, <3>1, StaysKnown
    <3> QED
      BY <3>1, <3>2 DEF Known
  <2>5. ~e[n].timer
    BY <1>1, <2>2, <2>3 DEF Raises, TimerOK
  <2> QED
    BY <2>2, <2>3, <2>4, <2>5 DEF OfSelf
<1>5. ASSUME NEW m \in Node
      PROVE  /\ e[m] \in Knowledge /\ Supersedes(e[m].seen, view[n][m])
             /\ m # n => TimerOK(e[m])
  <2>1. Raises(known[m], e[m])
    BY <1>3, <1>4
  <2>2. known[m] \in Knowledge /\ e[m] \in Knowledge /\ view[n][m] \in Known
    BY <1>1, <2>1 DEF Raises
  <2>3. Supersedes(e[m].seen, known[m].seen) /\ Supersedes(known[m].seen, view[n][m])
    BY <2>1 DEF Raises, Grown
  <2>4. Supersedes(e[m].seen, view[n][m])
    BY <2>2, <2>3, KnowledgeFields, SupersedesTransitive
  <2>5. m # n => TimerOK(e[m])
    BY <2>1 DEF Raises, Grown
  <2> QED
    BY <2>2, <2>4, <2>5
<1>6. e = [m \in Node |-> e[m]]
  BY DEF Ended
<1> HIDE DEF e
<1>7. e \in [Node -> Knowledge]
  BY <1>5, <1>6
<1> QED
  BY <1>4, <1>5, <1>7 DEF Grown, e

\* What a step of a node that runs may do to what it knows (NothingIsTakenBack).
KeepsWhatItKnew(n) ==
  \A m \in Node : /\ Supersedes(view'[n][m], view[n][m])
                  /\ told[n][m] = "dead" => told'[n][m] \in {"dead", "rejoined"}

\* The end of a tick keeps the invariant, whatever the tick has come to know.
LEMMA ConcludesKeeps ==
  ASSUME IInv, NEW n \in Node, NEW known, Grown(n, known), NEW gone, NEW hearers, Concludes(n, known, gone, hearers),
         incarnation' \in [Node -> Nat], probe' \in [Node -> Node \cup {Nobody}]
  PROVE  IInv' /\ \A a \in Node : KeepsWhatItKnew(a)
<1>1. Shape /\ (\A a \in Node : KnowsItself(a)) /\ \A a, b \in Node : a # b => KnowsOf(a, b)
  BY DEF IInv
<1>2. known \in [Node -> Knowledge] /\ \A m \in Node : known[m].seen \in Known /\ known[m].out \in Seq(Members)
  BY KnowledgeFields DEF Grown
<1>3. /\ view' \in [Node -> [Node -> Known]] /\ view'[n] = [m \in Node |-> known[m].seen]
      /\ \A a \in Node : a # n => view'[a] = view[a]
  BY <1>1, <1>2 DEF Concludes, Shape
<1>4. /\ timers' \in [Node -> SUBSET Node] /\ timers'[n] = {m \in Node : known[m].timer}
      /\ \A a \in Node : a # n => timers'[a] = timers[a]
  BY <1>1 DEF Concludes, Shape
<1>5. /\ rejoining' \in [Node -> SUBSET Node]
      /\ rejoining'[n] = {m \in Node : Rejoins(view[n][m], known[m].seen, m \in rejoining[n])}
      /\ \A a \in Node : a # n => rejoining'[a] = rejoining[a]
  BY <1>1 DEF Concludes, Shape
<1>6. /\ told' = [told EXCEPT ![n] = [m \in Node |->
           IF m = n THEN told[n][m] ELSE Event(view[n][m], known[m].seen, m \in rejoining[n], told[n][m])]]
      /\ \A a \in Node : a # n => told'[a] = told[a]
  BY <1>1 DEF Concludes, Shape
<1>7. told'[n] = [m \in Node |->
           IF m = n THEN told[n][m] ELSE Event(view[n][m], known[m].seen, m \in rejoining[n], told[n][m])]
  BY <1>1, <1>6 DEF Shape
<1>8. ASSUME NEW m \in Node, m # n
      PROVE  /\ told'[n][m] \in Heard
             /\ SameStory(view'[n][m], told'[n][m], m \in rejoining'[n])
             /\ told[n][m] = "dead" => told'[n][m] \in {"dead", "rejoined"}
  <2>1. /\ view[n][m] \in Known /\ known[m].seen \in Known /\ told[n][m] \in Heard /\ (m \in rejoining[n]) \in BOOLEAN
        /\ Supersedes(known[m].seen, view[n][m]) /\ SameStory(view[n][m], told[n][m], m \in rejoining[n])
    BY <1>1, <1>2, <1>8 DEF Shape, Grown, KnowsOf
  <2>2. told'[n][m] = Event(view[n][m], known[m].seen, m \in rejoining[n], told[n][m])
    BY <1>7, <1>8
  <2>3. view'[n][m] = known[m].seen
    BY <1>3
  <2>4. (m \in rejoining'[n]) <=> Rejoins(view[n][m], known[m].seen, m \in rejoining[n])
    BY <1>5
  <2>5. /\ Event(view[n][m], known[m].seen, m \in rejoining[n], told[n][m]) \in Heard
        /\ SameStory(known[m].seen, Event(view[n][m], known[m].seen, m \in rejoining[n], told[n][m]), Rejoins(view[n][m], known[m].seen, m \in rejoining[n]))
        /\ told[n][m] = "dead" => Event(view[n][m], known[m].seen, m \in rejoining[n], told[n][m]) \in {"dead", "rejoined"}
    BY <2>1, EventKeepsStory
  <2> QED
    BY <2>2, <2>3, <2>4, <2>5 DEF SameStory
<1>9. told'[n][n] = told[n][n]
  BY <1>7
<1>10. told' \in [Node -> [Node -> Heard]]
  <2>1. told'[n] \in [Node -> Heard]
    <3>1. \A m \in Node : told'[n][m] \in Heard
      BY <1>1, <1>8, <1>9 DEF Shape
    <3>2. told'[n] = [m \in Node |-> told'[n][m]]
      BY <1>7
    <3> QED
      BY <3>1, <3>2
  <2>2. told' = [a \in Node |-> told'[a]]
    BY <1>1, <1>6 DEF Shape
  <2>3. \A a \in Node : told'[a] \in [Node -> Heard]
    BY <1>1, <1>6, <2>1 DEF Shape
  <2> QED
    BY <2>2, <2>3
<1>11. \A p, m \in Node : News(p, m, known[m].out) \in Seq(Gossips)
  BY <1>2, NewsAreGossip
<1>12. ASSUME NEW p \in Node, NEW m \in Node
       PROVE  pending'[p][m] \in Seq(Events) /\ (p = m => pending'[p][m] \in Seq(Gossips))
  <2>1. pending[p][m] \in Seq(Events) /\ (p = m => pending[p][m] \in Seq(Gossips))
    BY <1>1 DEF Shape, KnowsItself
  <2>2. pending'[p][m] = IF p = n THEN <<>>
                         ELSE IF p \in hearers THEN pending[p][m] \o News(p, m, known[m].out) ELSE pending[p][m]
    BY DEF Concludes
  <2>3. PICK news : news = News(p, m, known[m].out)
    OBVIOUS
  <2>4. news \in Seq(Gossips) /\ news \in Seq(Events)
    BY <1>11, <2>3, SMTT(30) DEF Events, Gossips
  <2>5. pending'[p][m] \in {<<>>, pending[p][m] \o news, pending[p][m]}
    BY <2>2, <2>3
  <2>6. /\ pending[p][m] \o news \in Seq(Events) /\ (p = m => pending[p][m] \o news \in Seq(Gossips))
        /\ <<>> \in Seq(Events) /\ <<>> \in Seq(Gossips)
    BY <2>1, <2>4
  <2> QED
    BY <2>1, <2>5, <2>6
<1>13. pending' \in [Node -> [Node -> Seq(Events)]]
  <2>1. pending' = [p \in Node |-> [m \in Node |-> pending'[p][m]]]
    BY DEF Concludes
  <2> QED
    BY <1>12, <2>1
<1>14. link' \in [Node -> [Node -> Links]]
  <2>1. ASSUME NEW a \in Node, NEW b \in Node PROVE link'[a][b] \in Links
    <3>1. link[a][b] \in Links /\ NoLink \in Links
      BY <1>1, SMTT(30) DEF Shape, NoLink, Links
    <3>2. link'[a][b] \in {NoLink, [link[a][b] EXCEPT !.whole = FALSE], link[a][b]}
      BY DEF Concludes, Dropped
    <3>3. [link[a][b] EXCEPT !.whole = FALSE] \in Links
      BY <3>1 DEF Links
    <3> QED
      BY <3>1, <3>2, <3>3
  <2>2. link' = [a \in Node |-> [b \in Node |-> link'[a][b]]]
    BY DEF Concludes, Dropped
  <2>3. link' \in [Node -> [Node -> Links]]
    BY <2>1, <2>2
  <2> QED
    BY <2>3
<1>15. dialing' \in [Node -> SUBSET Node]
  BY <1>1 DEF Concludes, Shape, DialTargets
<1>16. process' = process /\ creation' = creation
  BY DEF Concludes
<1>17. Shape'
  BY <1>1, <1>3, <1>4, <1>5, <1>10, <1>13, <1>14, <1>15, <1>16 DEF Shape
<1>18. ASSUME NEW a \in Node PROVE KnowsItself(a)'
  <2>1. pending'[a][a] \in Seq(Gossips)
    BY <1>12
  <2>2. view'[a][a] \in Members /\ a \notin timers'[a]
    <3>1. CASE a = n
      BY <1>3, <1>4, <3>1 DEF Grown, OfSelf
    <3>2. CASE a # n
      BY <1>1, <1>3, <1>4, <3>2 DEF KnowsItself
    <3> QED
      BY <3>1, <3>2
  <2> QED
    BY <2>1, <2>2 DEF KnowsItself
<1>19. ASSUME NEW a \in Node, NEW m \in Node, a # m PROVE KnowsOf(a, m)'
  <2>1. CASE a = n
    BY <1>3, <1>4, <1>8, <1>19, <2>1 DEF KnowsOf, Grown, TimerOK
  <2>2. CASE a # n
    BY <1>1, <1>3, <1>4, <1>5, <1>6, <1>19, <2>2 DEF KnowsOf
  <2> QED
    BY <2>1, <2>2
<1>20. ASSUME NEW a \in Node, NEW m \in Node
       PROVE  /\ Supersedes(view'[a][m], view[a][m])
              /\ told[a][m] = "dead" => told'[a][m] \in {"dead", "rejoined"}
  <2>1. CASE a = n
    BY <1>3, <1>8, <1>9, <2>1 DEF Grown
  <2>2. CASE a # n
    BY <1>1, <1>3, <1>6, <2>2, SupersedesReflexive DEF Shape
  <2> QED
    BY <2>1, <2>2
<1> QED
  BY <1>17, <1>18, <1>19, <1>20 DEF IInv, KeepsWhatItKnew

\* A tick that ends with grown knowledge keeps the invariant and takes nothing back.
LEMMA EndsKeeps ==
  ASSUME IInv, NEW n \in Node, NEW known, Grown(n, known), Ends(n, known),
         incarnation' \in [Node -> Nat], probe' \in [Node -> Node \cup {Nobody}]
  PROVE  IInv' /\ \A a \in Node : KeepsWhatItKnew(a)
<1>1. PICK gone, hearers : Concludes(n, known, gone, hearers)
  BY DEF Ends
<1> QED
  BY <1>1, ConcludesKeeps

\* The tick in the middle of a period does.
LEMMA TickMidPeriodKeeps ==
  ASSUME IInv, NEW n \in Node, TickMidPeriod(n)
  PROVE  IInv' /\ \A a \in Node : KeepsWhatItKnew(a)
<1>1. Grown(n, Folded(n)) /\ Ends(n, Folded(n))
  BY FoldedGrown DEF TickMidPeriod
<1>2. incarnation' \in [Node -> Nat] /\ probe' \in [Node -> Node \cup {Nobody}]
  BY DEF TickMidPeriod, IInv, Shape
<1> QED
  BY <1>1, <1>2, EndsKeeps

\* So does the one at its end.
LEMMA TickBoundaryKeeps ==
  ASSUME IInv, NEW n \in Node, NEW target, NEW patient, TickBoundary(n, target, patient)
  PROVE  IInv' /\ \A a \in Node : KeepsWhatItKnew(a)
<1>1. PICK folded, expired, known :
         /\ folded = Folded(n) /\ known = Ended(n, folded, expired)
         /\ target \in Targets(n, known)
         /\ \E answered \in {Answers(n, known, target), FALSE} :
               probe' = [probe EXCEPT ![n] = IF answered THEN Nobody ELSE target]
         /\ incarnation' = [incarnation EXCEPT ![n] =
               IF folded[n].seen.status = "Alive" THEN incarnation[n] ELSE NextIncarnation(n, folded[n])]
         /\ Ends(n, known)
  BY DEF TickBoundary
<1>2. Grown(n, folded)
  BY <1>1, FoldedGrown
<1>3. Grown(n, known)
  BY <1>1, <1>2, EndedGrown
<1>4. probe' \in [Node -> Node \cup {Nobody}]
  BY <1>1 DEF Targets, Alive, IInv, Shape
<1>5. NextIncarnation(n, folded[n]) \in Nat
  BY <1>2 DEF NextIncarnation, Grown, OfSelf, Members, IInv, Shape
<1>6. incarnation' \in [Node -> Nat]
  BY <1>1, <1>5 DEF IInv, Shape
<1> QED
  BY <1>1, <1>3, <1>4, <1>6, EndsKeeps

-------------------------------------------------------------------------------
(* Links, dials and the environment.                                       *)

\* Steps that leave alone what nodes know and have told.
LEMMA QuietKeeps ==
  ASSUME IInv, UNCHANGED <<swim, rejoining, told, creation>>,
         pending' \in [Node -> [Node -> Seq(Events)]], \A n \in Node : pending'[n][n] \in Seq(Gossips),
         link' \in [Node -> [Node -> Links]],
         dialing' \in [Node -> SUBSET Node], process' \in [Node -> {"up", "down", "silent"}]
  PROVE  IInv' /\ \A a \in Node : KeepsWhatItKnew(a)
<1>1. /\ view' = view /\ timers' = timers /\ incarnation' = incarnation /\ probe' = probe
      /\ rejoining' = rejoining /\ told' = told /\ creation' = creation
  BY DEF swim
<1>2. Shape'
  BY <1>1 DEF IInv, Shape
<1>3. \A n \in Node : KnowsItself(n)'
  BY <1>1 DEF IInv, KnowsItself
<1>4. \A n, m \in Node : n # m => KnowsOf(n, m)'
  BY <1>1 DEF IInv, KnowsOf
<1>5. ASSUME NEW n \in Node, NEW m \in Node PROVE Supersedes(view'[n][m], view[n][m])
  BY <1>1, SupersedesReflexive DEF IInv, Shape
<1> QED
  BY <1>1, <1>2, <1>3, <1>4, <1>5 DEF IInv, KeepsWhatItKnew

\* A link that comes up is worth an observation.
LEMMA LinkSeenIsMember ==
  ASSUME Shape, NEW n \in Node, NEW m \in Node
  PROVE  LinkSeen(n, m) \in Members
<1> DEFINE known == view[n][m]
           inc == CASE known.creation # creation[m] -> 0
                    [] known.creation = creation[m] /\ known.status = "Alive" -> known.incarnation
                    [] OTHER -> known.incarnation + 1
<1>1. known \in Known /\ creation[m] \in Nat /\ "Alive" \in Statuses
  BY ThreeStatuses DEF Shape
<1>2. known \in Members \/ known.creation = -1
  BY <1>1, UnknownIsAlive DEF Known
<1> HIDE DEF known
<1>3. inc \in Nat
  BY <1>1, <1>2 DEF Members
<1>4. LinkSeen(n, m) = Member("Alive", inc, creation[m])
  BY DEF LinkSeen, known
<1> HIDE DEF inc
<1> QED
  BY <1>1, <1>3, <1>4 DEF Member, Members

\* What a new link is told is a list of members.
LEMMA SyncIsMembers ==
  ASSUME Shape, NEW n \in Node, NEW m \in Node, NEW k \in Node
  PROVE  Sync(n, m, k) \in Seq(Members)
<1> DEFINE s == IF view[n][k] = Unknown THEN <<>> ELSE <<view[n][k]>>
           t == IF k = m THEN <<LinkSeen(n, m)>> ELSE <<>>
<1>1. s \in Seq(Members)
  BY DEF Shape, Known
<1>2. t \in Seq(Members)
  BY LinkSeenIsMember
<1>3. Sync(n, m, k) = s \o t
  BY DEF Sync
<1> HIDE DEF s, t
<1> QED
  BY <1>1, <1>2, <1>3

\* A new link brings both ends events to come, and changes no view yet.
LEMMA DialSucceedsKeeps ==
  ASSUME IInv, NEW n \in Node, NEW m \in Node, n # m, DialSucceeds(n, m)
  PROVE  IInv' /\ \A a \in Node : KeepsWhatItKnew(a)
<1> DEFINE New(b)      == [dialer |-> n, creation |-> creation[b], whole |-> FALSE]
           Keeps(a, b) == link[a][b] = NoLink \/ KeepsNew(a, b, link[a][b], New(b))
           kept        == Keeps(n, m) /\ Keeps(m, n)
           End(a, b)   == IF Keeps(a, b) THEN [New(b) EXCEPT !.whole = kept]
                          ELSE [link[a][b] EXCEPT !.whole = @ /\ ~Keeps(b, a)]
           Hears(a, b) == [k \in Node |->
             pending[a][k] \o (IF Keeps(a, b) /\ k = b THEN News(a, b, <<LinkSeen(a, b)>>) ELSE <<>>)
                           \o (IF kept THEN News(a, k, Sync(b, a, k)) ELSE <<>>)]
<1>1. Shape /\ \A a \in Node : KnowsItself(a)
  BY DEF IInv
<1>2. /\ link' = [link EXCEPT ![n][m] = End(n, m), ![m][n] = End(m, n)]
      /\ pending' = [pending EXCEPT ![n] = Hears(n, m), ![m] = Hears(m, n)]
      /\ dialing' = [dialing EXCEPT ![n] = @ \ {m}, ![m] = IF Keeps(m, n) THEN @ \ {n} ELSE @]
      /\ UNCHANGED <<process, creation, swim, rejoining, told>>
  BY DEF DialSucceeds
<1>3. ASSUME NEW a \in Node, NEW b \in Node PROVE End(a, b) \in Links
  <2>1. link[a][b] \in Links
    BY <1>1 DEF Shape
  <2>2. New(b) \in Links
    BY <1>1 DEF Shape, Links
  <2>3. CASE Keeps(a, b)
    <3>1. kept \in BOOLEAN
      OBVIOUS
    <3> HIDE DEF kept, Keeps
    <3> QED
      BY <2>2, <2>3, <3>1 DEF Links
  <2>4. CASE ~Keeps(a, b)
    <3> DEFINE w == link[a][b].whole /\ ~Keeps(b, a)
    <3>1. w \in BOOLEAN
      OBVIOUS
    <3>2. End(a, b) = [link[a][b] EXCEPT !.whole = w]
      BY <2>4
    <3> HIDE DEF w, End
    <3> QED
      BY <2>1, <3>1, <3>2 DEF Links
  <2> QED
    BY <2>3, <2>4
<1>4. ASSUME NEW a \in Node, NEW b \in Node, a # b, NEW k \in Node
      PROVE  Hears(a, b)[k] \in Seq(Events) /\ (k = a => Hears(a, b)[k] \in Seq(Gossips))
  <2>1. PICK news : news = IF Keeps(a, b) /\ k = b THEN News(a, b, <<LinkSeen(a, b)>>) ELSE <<>>
    OBVIOUS
  <2>2. PICK sync : sync = IF kept THEN News(a, k, Sync(b, a, k)) ELSE <<>>
    OBVIOUS
  <2>3. news \in Seq(Gossips)
    <3>1. <<LinkSeen(a, b)>> \in Seq(Members)
      <4>1. PICK x \in Members : x = LinkSeen(a, b)
        BY <1>1, LinkSeenIsMember
      <4>2. <<x>> \in Seq(Members)
        OBVIOUS
      <4> QED
        BY <4>1, <4>2
    <3>2. PICK seen \in Seq(Members) : seen = <<LinkSeen(a, b)>>
      BY <3>1
    <3>3. News(a, b, seen) \in Seq(Gossips)
      BY NewsAreGossip
    <3>4. News(a, b, <<LinkSeen(a, b)>>) \in Seq(Gossips) /\ <<>> \in Seq(Gossips)
      BY <3>2, <3>3
    <3> QED
      BY <2>1, <3>4
  <2>4. sync \in Seq(Gossips)
    <3>1. Sync(b, a, k) \in Seq(Members)
      BY <1>1, SyncIsMembers
    <3>2. News(a, k, Sync(b, a, k)) \in Seq(Gossips) /\ <<>> \in Seq(Gossips)
      BY <3>1, NewsAreGossip
    <3> QED
      BY <2>2, <3>2
  <2>5. news \in Seq(Events) /\ sync \in Seq(Events)
    BY <2>3, <2>4 DEF Events, Gossips
  <2>6. PICK old : old = pending[a][k]
    OBVIOUS
  <2>7. old \in Seq(Events) /\ (k = a => old \in Seq(Gossips))
    BY <1>1, <2>6 DEF Shape, KnowsItself
  <2>8. Hears(a, b)[k] = old \o news \o sync
    BY <2>1, <2>2, <2>6
  <2>9. old \o news \o sync \in Seq(Events) /\ (k = a => old \o news \o sync \in Seq(Gossips))
    BY <2>3, <2>4, <2>5, <2>7
  <2> QED
    BY <2>8, <2>9
<1>5. ASSUME NEW a \in Node, NEW b \in Node, a # b PROVE Hears(a, b) \in [Node -> Seq(Events)]
  BY <1>4, <1>5
<1> HIDE DEF End, Hears, Keeps
<1>6. /\ pending' \in [Node -> [Node -> Seq(Events)]]
      /\ \A a \in Node : pending'[a] \in {pending[a], Hears(n, m), Hears(m, n)}
      /\ pending'[n] = Hears(n, m) /\ pending'[m] = Hears(m, n)
      /\ \A a \in Node : a # n /\ a # m => pending'[a] = pending[a]
  BY <1>1, <1>2, <1>5 DEF Shape
<1>7. \A a \in Node : pending'[a][a] \in Seq(Gossips)
  BY <1>1, <1>4, <1>6 DEF KnowsItself
<1>8. link' \in [Node -> [Node -> Links]]
  BY <1>1, <1>2, <1>3 DEF Shape
<1>9. dialing' \in [Node -> SUBSET Node] /\ process' \in [Node -> {"up", "down", "silent"}]
  BY <1>1, <1>2 DEF Shape
<1> QED
  BY <1>2, <1>6, <1>7, <1>8, <1>9, QuietKeeps

\* One event more about another node.
LEMMA HearsOne ==
  ASSUME IInv, NEW n \in Node, NEW m \in Node, n # m, NEW ev \in {ConnLost, PeerDown},
         pending' = [pending EXCEPT ![n][m] = Append(@, ev)]
  PROVE  pending' \in [Node -> [Node -> Seq(Events)]] /\ \A a \in Node : pending'[a][a] \in Seq(Gossips)
<1>1. pending \in [Node -> [Node -> Seq(Events)]] /\ \A a \in Node : pending[a][a] \in Seq(Gossips)
  BY DEF IInv, Shape, KnowsItself
<1>2. PICK s : s = Append(pending[n][m], ev)
  OBVIOUS
<1>3. s \in Seq(Events)
  <2>1. ev \in Events /\ pending[n][m] \in Seq(Events)
    BY <1>1 DEF Events
  <2> QED
    BY <1>2, <2>1
<1>4. pending' = [pending EXCEPT ![n][m] = s]
  BY <1>2
<1> QED
  BY <1>1, <1>3, <1>4

\* A dial that fails is an event to come, if any.
LEMMA DialFailsKeeps ==
  ASSUME IInv, NEW n \in Node, NEW m \in Node, n # m, DialFails(n, m)
  PROVE  IInv' /\ \A a \in Node : KeepsWhatItKnew(a)
<1>1. /\ dialing' = [dialing EXCEPT ![n] = @ \ {m}]
      /\ UNCHANGED <<process, creation, swim, link, rejoining, told, left>>
      /\ pending' = [pending EXCEPT ![n][m] = Append(@, PeerDown)] \/ pending' = pending
  BY DEF DialFails
<1>2. pending' \in [Node -> [Node -> Seq(Events)]] /\ \A a \in Node : pending'[a][a] \in Seq(Gossips)
  <2>1. CASE pending' = pending
    BY <2>1 DEF IInv, Shape, KnowsItself
  <2> QED
    BY <1>1, <2>1, HearsOne
<1>3. /\ dialing' \in [Node -> SUBSET Node] /\ process' \in [Node -> {"up", "down", "silent"}]
      /\ link' \in [Node -> [Node -> Links]]
  BY <1>1 DEF IInv, Shape
<1> QED
  BY <1>1, <1>2, <1>3, QuietKeeps

\* A link that closes is an event to come.
LEMMA LinkClosedKeeps ==
  ASSUME IInv, NEW n \in Node, NEW m \in Node, n # m, LinkClosed(n, m)
  PROVE  IInv' /\ \A a \in Node : KeepsWhatItKnew(a)
<1>1. /\ link' = [link EXCEPT ![n][m] = NoLink]
      /\ pending' = [pending EXCEPT ![n][m] = Append(@, ConnLost)]
      /\ UNCHANGED <<process, creation, swim, dialing, rejoining, told, left>>
  BY DEF LinkClosed
<1>2. pending' \in [Node -> [Node -> Seq(Events)]] /\ \A a \in Node : pending'[a][a] \in Seq(Gossips)
  BY <1>1, HearsOne
<1>3. dialing' \in [Node -> SUBSET Node] /\ process' \in [Node -> {"up", "down", "silent"}]
  BY <1>1 DEF IInv, Shape
<1>4. link' \in [Node -> [Node -> Links]]
  <2>1. NoLink \in Links /\ link \in [Node -> [Node -> Links]]
    BY DEF NoLink, Links, IInv, Shape
  <2> QED
    BY <1>1, <2>1
<1> QED
  BY <1>1, <1>2, <1>3, <1>4, QuietKeeps

\* A connection that breaks changes no view.
LEMMA BreaksKeeps ==
  ASSUME IInv, NEW n \in Node, NEW m \in Node, Breaks(n, m)
  PROVE  IInv' /\ \A a \in Node : KeepsWhatItKnew(a)
<1>1. /\ link' = [link EXCEPT ![n][m].whole = FALSE, ![m][n].whole = FALSE]
      /\ UNCHANGED <<process, creation, swim, pending, dialing, rejoining, told>>
  BY DEF Breaks, core
<1>2. pending' \in [Node -> [Node -> Seq(Events)]] /\ \A a \in Node : pending'[a][a] \in Seq(Gossips)
  BY <1>1 DEF IInv, Shape, KnowsItself
<1>3. dialing' \in [Node -> SUBSET Node] /\ process' \in [Node -> {"up", "down", "silent"}]
  BY <1>1 DEF IInv, Shape
<1>4. link' \in [Node -> [Node -> Links]]
  <2>1. link \in [Node -> [Node -> Links]]
    BY DEF IInv, Shape
  <2>2. PICK first : first = [link EXCEPT ![n][m].whole = FALSE]
    OBVIOUS
  <2>3. [link[n][m] EXCEPT !.whole = FALSE] \in Links
    <3>1. link[n][m] \in Links
      BY <2>1
    <3> QED
      BY <3>1 DEF Links
  <2>4. first \in [Node -> [Node -> Links]]
    <3> QED
      BY <2>1, <2>2, <2>3
  <2>5. [first[m][n] EXCEPT !.whole = FALSE] \in Links
    <3>1. first[m][n] \in Links
      BY <2>4
    <3> QED
      BY <3>1 DEF Links
  <2>6. link' = [first EXCEPT ![m][n].whole = FALSE]
    BY <1>1, <2>2
  <2>7. link' \in [Node -> [Node -> Links]]
    BY <2>4, <2>5, <2>6
  <2> QED
    BY <2>7
<1> QED
  BY <1>1, <1>2, <1>3, <1>4, QuietKeeps

\* A process that starts, or is gone, knows nobody but itself.
LEMMA StartsKeeps ==
  ASSUME IInv, NEW n \in Node, NEW life \in Nat, Starts(n, life),
         creation' \in [Node -> Nat], process' \in [Node -> {"up", "down", "silent"}],
         link' \in [Node -> [Node -> Links]]
  PROVE  IInv' /\ \A a \in Node : a # n => KeepsWhatItKnew(a)
<1> DEFINE fresh == [m \in Node |-> IF m = n THEN Member("Alive", 1, life) ELSE Unknown]
<1>1. Shape /\ (\A a \in Node : KnowsItself(a)) /\ \A a, b \in Node : a # b => KnowsOf(a, b)
  BY DEF IInv
<1>2. Member("Alive", 1, life) \in Members
  BY ThreeStatuses DEF Member, Members
<1>3. fresh \in [Node -> Known]
  BY <1>2 DEF Known
<1>4. /\ view' = [view EXCEPT ![n] = fresh] /\ incarnation' = [incarnation EXCEPT ![n] = 1]
      /\ probe' = [probe EXCEPT ![n] = Nobody] /\ timers' = [timers EXCEPT ![n] = {}]
      /\ pending' = [pending EXCEPT ![n] = [m \in Node |-> <<>>]] /\ dialing' = [dialing EXCEPT ![n] = {}]
      /\ rejoining' = [rejoining EXCEPT ![n] = {}] /\ told' = [told EXCEPT ![n] = [m \in Node |-> "nothing"]]
  BY DEF Starts
<1>5. fresh[n] \in Members /\ \A m \in Node : m # n => fresh[m] = Unknown
  BY <1>2
<1> HIDE DEF fresh
<1>6. [m \in Node |-> <<>>] \in [Node -> Seq(Events)] /\ <<>> \in Seq(Gossips)
  OBVIOUS
<1>7. [m \in Node |-> "nothing"] \in [Node -> Heard]
  BY DEF Heard
<1>8. Shape'
  BY <1>1, <1>3, <1>4, <1>6, <1>7 DEF Shape
<1>9. ASSUME NEW a \in Node PROVE KnowsItself(a)'
  <2>1. CASE a = n
    BY <1>1, <1>4, <1>5, <1>6, <2>1 DEF Shape, KnowsItself
  <2>2. CASE a # n
    BY <1>1, <1>4, <2>2 DEF Shape, KnowsItself
  <2> QED
    BY <2>1, <2>2
<1>10. ASSUME NEW a \in Node, NEW m \in Node, a # m PROVE KnowsOf(a, m)'
  <2>1. CASE a = n
    <3>1. view'[a][m] = Unknown /\ told'[a][m] = "nothing" /\ timers'[a] = {} /\ rejoining'[a] = {}
      BY <1>1, <1>4, <1>5, <1>10, <2>1 DEF Shape
    <3> QED
      BY <3>1, UnknownIsAlive DEF KnowsOf, SameStory
  <2>2. CASE a # n
    BY <1>1, <1>4, <1>10, <2>2 DEF Shape, KnowsOf
  <2> QED
    BY <2>1, <2>2
<1>11. ASSUME NEW a \in Node, a # n, NEW m \in Node
       PROVE  /\ Supersedes(view'[a][m], view[a][m])
              /\ told[a][m] = "dead" => told'[a][m] \in {"dead", "rejoined"}
  <2>1. view'[a] = view[a] /\ told'[a] = told[a]
    BY <1>1, <1>4, <1>11 DEF Shape
  <2>2. view[a][m] \in Known
    BY <1>1 DEF Shape
  <2> QED
    BY <2>1, <2>2, SupersedesReflexive
<1> QED
  BY <1>8, <1>9, <1>10, <1>11 DEF IInv, KeepsWhatItKnew

\* A crash loses the view of the node that crashes, and no other.
LEMMA CrashesKeeps ==
  ASSUME IInv, NEW n \in Node, Crashes(n)
  PROVE  IInv' /\ (\A a \in Node : a # n => KeepsWhatItKnew(a)) /\ process'[n] # "up"
<1>1. Shape
  BY DEF IInv
<1>2. PICK how \in {"down", "silent"} : process' = [process EXCEPT ![n] = how]
  BY DEF Crashes
<1>3. Starts(n, creation[n]) /\ creation' = creation /\ creation[n] \in Nat
  BY <1>1 DEF Crashes, Shape
<1>4. link' \in [Node -> [Node -> Links]]
  <2>1. link' = [a \in Node |-> [b \in Node |->
           IF a = n THEN NoLink ELSE IF b = n THEN [link[a][b] EXCEPT !.whole = FALSE] ELSE link[a][b]]]
    BY DEF Crashes
  <2>2. ASSUME NEW a \in Node, NEW b \in Node
        PROVE  link[a][b] \in Links /\ [link[a][b] EXCEPT !.whole = FALSE] \in Links /\ NoLink \in Links
    <3>1. link[a][b] \in Links
      BY <1>1 DEF Shape
    <3> QED
      BY <3>1 DEF Links, NoLink
  <2> QED
    BY <2>1, <2>2
<1>5. process' \in [Node -> {"up", "down", "silent"}] /\ process'[n] # "up"
  BY <1>1, <1>2 DEF Shape
<1>6. creation' \in [Node -> Nat]
  BY <1>1, <1>3 DEF Shape
<1> QED
  BY <1>3, <1>4, <1>5, <1>6, StartsKeeps

\* A restarted node begins with a view of its own.
LEMMA RestartsKeeps ==
  ASSUME IInv, NEW n \in Node, Restarts(n)
  PROVE  IInv' /\ (\A a \in Node : a # n => KeepsWhatItKnew(a)) /\ ~Up(n)
<1>1. Shape
  BY DEF IInv
<1>2. /\ Starts(n, creation[n] + 1) /\ creation[n] + 1 \in Nat /\ ~Up(n)
      /\ creation' = [creation EXCEPT ![n] = @ + 1] /\ process' = [process EXCEPT ![n] = "up"] /\ link' = link
  BY <1>1 DEF Restarts, Shape
<1>3. /\ creation' \in [Node -> Nat] /\ process' \in [Node -> {"up", "down", "silent"}]
      /\ link' \in [Node -> [Node -> Links]]
  BY <1>1, <1>2 DEF Shape
<1> QED
  BY <1>2, <1>3, StartsKeeps

-------------------------------------------------------------------------------
(* The theorems.                                                           *)

\* A formed cluster, as any scenario begins.
LEMMA InitEstablishes == Init => IInv
<1> SUFFICES ASSUME Init PROVE IInv
  OBVIOUS
<1>1. Member("Alive", 1, 1) \in Members /\ Member("Alive", 1, 1).status = "Alive"
  BY ThreeStatuses DEF Member, Members
<1>2. ASSUME NEW n \in Node, NEW m \in Node
      PROVE  /\ view[n][m] \in Known /\ told[n][m] \in Heard /\ link[n][m] \in Links
             /\ (n = m => view[n][m] \in Members)
             /\ view[n][m] = Unknown => told[n][m] = "nothing"
             /\ view[n][m] # Unknown => n = m \/ told[n][m] = "up"
             /\ view[n][m].status = "Alive"
  <2>1. view[n][m] = IF {n, m} \subseteq left.members \/ n = m THEN Member("Alive", 1, 1) ELSE Unknown
    BY DEF Init
  <2>2. told[n][m] = IF {n, m} \subseteq left.members THEN "up" ELSE "nothing"
    BY DEF Init
  <2>3. link[n][m] = IF {n, m} \subseteq left.members /\ m # n
                     THEN [dialer |-> IF n < m THEN n ELSE m, creation |-> 1, whole |-> TRUE] ELSE NoLink
    BY DEF Init
  <2>4. link[n][m] \in Links
    BY <2>3 DEF Links, NoLink
  <2>5. view[n][m] \in Known /\ told[n][m] \in Heard
    BY <1>1, <2>1, <2>2 DEF Known, Heard
  <2> QED
    BY <1>1, <2>1, <2>2, <2>4, <2>5, UnknownIsBelow, UnknownIsAlive
<1>3. pending \in [Node -> [Node -> Seq(Events)]] /\ \A n \in Node : pending[n][n] \in Seq(Gossips)
  BY DEF Init
<1>4. Shape
  <2>1. /\ view = [n \in Node |-> [m \in Node |-> view[n][m]]] /\ told = [n \in Node |-> [m \in Node |-> told[n][m]]]
        /\ link = [n \in Node |-> [m \in Node |-> link[n][m]]]
    BY DEF Init
  <2>2. view \in [Node -> [Node -> Known]] /\ told \in [Node -> [Node -> Heard]] /\ link \in [Node -> [Node -> Links]]
    BY <1>2, <2>1
  <2>3. timers \in [Node -> SUBSET Node] /\ dialing \in [Node -> SUBSET Node] /\ rejoining \in [Node -> SUBSET Node]
    BY DEF Init
  <2>4. /\ process \in [Node -> {"up", "down", "silent"}] /\ creation \in [Node -> Nat]
        /\ incarnation \in [Node -> Nat] /\ probe \in [Node -> Node \cup {Nobody}]
    BY DEF Init
  <2> QED
    BY <1>3, <2>2, <2>3, <2>4 DEF Shape
<1>5. \A n \in Node : KnowsItself(n)
  BY <1>2, <1>3 DEF Init, KnowsItself
<1>6. ASSUME NEW n \in Node, NEW m \in Node, n # m PROVE KnowsOf(n, m)
  <2>1. timers[n] = {}
    BY DEF Init
  <2>2. SameStory(view[n][m], told[n][m], m \in rejoining[n])
    BY <1>2, <1>6 DEF SameStory
  <2> QED
    BY <2>1, <2>2 DEF KnowsOf
<1> QED
  BY <1>4, <1>5, <1>6 DEF IInv

\* A step keeps the invariant, and of every node that runs through it what it knew.
LEMMA NextKeeps ==
  ASSUME IInv, Next
  PROVE  IInv' /\ \A a \in Node : Up(a) /\ process'[a] = "up" => KeepsWhatItKnew(a)
<1>1. PICK n \in Node :
        \/ Tick(n) \/ Crashes(n) \/ Restarts(n)
        \/ \E m \in Node \ {n} : DialSucceeds(n, m) \/ DialFails(n, m) \/ LinkClosed(n, m) \/ Breaks(n, m)
  BY DEF Next
<1>2. CASE Tick(n)
  BY <1>2, TickMidPeriodKeeps, TickBoundaryKeeps DEF Tick
<1>3. CASE Crashes(n)
  BY <1>3, CrashesKeeps
<1>4. CASE Restarts(n)
  BY <1>4, RestartsKeeps
<1>5. ASSUME NEW m \in Node \ {n}, DialSucceeds(n, m) \/ DialFails(n, m) \/ LinkClosed(n, m) \/ Breaks(n, m)
      PROVE  IInv' /\ \A a \in Node : KeepsWhatItKnew(a)
  BY <1>5, DialSucceedsKeeps, DialFailsKeeps, LinkClosedKeeps, BreaksKeeps
<1> QED
  BY <1>1, <1>2, <1>3, <1>4, <1>5

\* And so does a step of something else.
LEMMA StutterKeeps ==
  ASSUME IInv, UNCHANGED vars
  PROVE  IInv' /\ \A a \in Node : KeepsWhatItKnew(a)
<1>1. /\ UNCHANGED <<swim, rejoining, told, creation>>
      /\ pending' = pending /\ link' = link /\ dialing' = dialing /\ process' = process
  BY DEF vars, core
<1>2. /\ pending' \in [Node -> [Node -> Seq(Events)]] /\ \A n \in Node : pending'[n][n] \in Seq(Gossips)
      /\ link' \in [Node -> [Node -> Links]]
      /\ dialing' \in [Node -> SUBSET Node] /\ process' \in [Node -> {"up", "down", "silent"}]
  BY <1>1 DEF IInv, Shape, KnowsItself
<1> QED
  BY <1>1, <1>2, QuietKeeps

\* The invariant holds of every behaviour of every cluster.
THEOREM InvariantAlways == Spec => []IInv
<1>1. IInv /\ [Next]_vars => IInv'
  BY NextKeeps, StutterKeeps
<1> QED
  BY <1>1, InitEstablishes, PTL DEF Spec

\* A suspect timer goes with its suspicion, so that a member that has cleared
\* itself is never buried by it (expire_suspects); and what subscribers last
\* heard of a member is what the view says of it (member_events).
THEOREM MembersAlwaysOK == Spec => []MembersOK
BY InvariantAlways, IInvImpliesMembersOK, PTL

\* While a node runs, its view only grows in supersedes' order, whatever events
\* it folds in, in whatever order; and subscribers who were told of a death only
\* hear it taken back by a rejoin.
THEOREM NothingIsEverTakenBack == Spec => NothingIsTakenBack
<1> DEFINE Kept == \A n, m \in Node : Up(n) /\ process'[n] = "up" =>
              /\ Supersedes(view'[n][m], view[n][m])
              /\ told[n][m] = "dead" => told'[n][m] \in {"dead", "rejoined"}
<1>1. IInv /\ [Next]_vars => [Kept]_vars
  <2>1. ASSUME IInv, Next PROVE Kept
    BY <2>1, NextKeeps DEF KeepsWhatItKnew
  <2> QED
    BY <2>1
<1>2. Spec => [][Next]_vars
  BY PTL DEF Spec
<1>3. Spec => [][Kept]_vars
  BY <1>1, <1>2, InvariantAlways, PTL
<1> QED
  BY <1>3 DEF NothingIsTakenBack
=============================================================================
