--------------------------- MODULE SimCluster_proofs ---------------------------
(***************************************************************************)
(* Theorems about SimCluster, for any number of hosts, slots and sessions  *)
(* and any times: ClusterOK, SessionsOK, DetectorOK and LedgerHandsOver.   *)
(*                                                                         *)
(* The invariant is built in three layers.  Placed keeps the types: a host *)
(* is suspected only while it is silent, it has come back at most as often *)
(* as the bound says, a session to come has a number of its own.  Held     *)
(* says that a session has its two slots and two hosts exactly while it is *)
(* served, which is what the slots' owners and the verdicts rest on.  Last *)
(* come the clock of the hung hosts and the counters.                      *)
(***************************************************************************)
EXTENDS SimCluster, SumTheorems

SessionType ==
  [phase : Phases, start : Hosts, next : 0..NHosts, host : Hosts, ledgerHost : Books \cup {None},
   stockSlot : StockSlots \cup {None}, ledgerSlot : LedgerSlots \cup {None}, left : Nat]

\* A host is silent only while the others count on it, or have begun to doubt,
\* and is doubted only for that; and it returns no more often than it is revived.
HostOK(h) ==
  /\ h.silent => h.status \in {"up", "suspect"}
  /\ h.status = "suspect" => h.silent
  /\ h.incarnation + (IF h.status = "restarting" THEN 1 ELSE 0) <= MaxRevives + 1

\* A seat that is empty, or whose holder hangs, has a moment to be filled.
SeatOK ==
  /\ ledger.host # None => Tryable(ledger.host)
  /\ ledger.host = None => ledger.moveIn # None
  /\ ledger.host # None /\ host[ledger.host].silent => ledger.moveIn # None

\* Numbers are given out in order, and the loop is over sessions in progress.
NumbersOK ==
  /\ \A x \in Live : x < nextId
  /\ turn = "sessions" => todo \subseteq Live

Placed == TypeOK /\ (\A h \in Hosts : HostOK(host[h])) /\ SeatOK /\ NumbersOK

\* A session has its slots and its Ledger while it is served.
Holding(s) ==
  IF s.phase = "serve" THEN s.stockSlot # None /\ s.ledgerSlot # None /\ s.ledgerHost # None
                       ELSE s.stockSlot = None /\ s.ledgerSlot = None

Held == (\A x \in Live : Holding(sessions[x])) /\ SlotsOwned /\ ServedByLiveHosts

\* A hung host is noticed and declared dead by the first step after its time.
OnTime == \A h \in Hosts : host[h].silent /\ turn # "hosts" => host[h].age < NoticeS + SuspectS

IInv == Placed /\ Held /\ OnTime /\ Conservation

-------------------------------------------------------------------------------
(* Hosts, numbers and the sessions a verdict takes away.                   *)

\* There is a host 0, and the hosts and the sessions to come are finite.
LEMMA SomeHost == 0 \in Hosts /\ Hosts \subseteq Nat /\ IsFiniteSet(Hosts) /\ IsFiniteSet(Ids) /\ NHosts \in Nat
<1>1. NHosts \in Nat \ {0} /\ MaxSessions \in Nat
  BY HostsAssumption, SizesAssumption
<1>2. IsFiniteSet(0..(NHosts - 1)) /\ IsFiniteSet(1..MaxSessions)
  BY <1>1, FS_Interval
<1> QED
  BY <1>1, <1>2 DEF Hosts, Ids

\* None is neither a host, a session nor a slot.
LEMMA NoneIsNobody ==
  /\ None \notin Hosts /\ None \notin Books
  /\ None \notin Ids /\ None \notin StockSlots /\ None \notin LedgerSlots
<1>1. Hosts \subseteq Nat /\ Books \subseteq Hosts
  BY SomeHost, HostsAssumption
<1>2. MaxSessions \in Nat /\ StockCapacity \in Nat /\ LedgerCapacity \in Nat
  BY SizesAssumption
<1>3. Ids \subseteq Nat /\ StockSlots \subseteq Nat /\ LedgerSlots \subseteq Nat
  BY <1>2 DEF Ids, StockSlots, LedgerSlots
<1> QED
  BY <1>1, <1>3, NoneAssumption

\* Going round from any host meets hosts only.
LEMMA OrderIsHost ==
  ASSUME NEW start \in Hosts, NEW n \in Nat
  PROVE  OrderAt(start, n) \in Hosts
<1> DEFINE m == start + n
<1>1. m \in Nat /\ NHosts \in Nat \ {0}
  BY HostsAssumption DEF Hosts
<1> HIDE DEF m
<1>2. m % NHosts \in 0..(NHosts - 1)
  BY <1>1
<1> QED
  BY <1>2 DEF OrderAt, m, Hosts

\* The search for a host ends on one that may be tried, or after all of them.
LEMMA NextTryIsTried ==
  ASSUME NEW start \in Hosts, NEW n \in Nat
  PROVE  /\ NextTry(start, n) \in Nat /\ NextTry(start, n) \in 0..NHosts
         /\ NextTry(start, n) # NHosts => Tryable(OrderAt(start, NextTry(start, n)))
<1> DEFINE worth == {m \in n..(NHosts - 1) : Tryable(OrderAt(start, m))}
<1>1. CASE worth = {}
  BY <1>1, SomeHost DEF NextTry
<1>2. CASE worth # {}
  <2>1. IsFiniteSet(worth) /\ worth \subseteq Int
    <3>1. IsFiniteSet(n..(NHosts - 1))
      BY SomeHost, FS_Interval
    <3>2. worth \subseteq n..(NHosts - 1)
      OBVIOUS
    <3> HIDE DEF worth
    <3>3. IsFiniteSet(worth)
      BY <3>1, <3>2, FS_Subset
    <3> QED
      BY <3>2, <3>3, SomeHost
  <2>2. \E x \in worth : \A y \in worth : x <= y
    <3> HIDE DEF worth
    <3> QED
      BY <1>2, <2>1, Least
  <2>3. Min(worth) \in worth
    BY <2>2 DEF Min
  <2>4. NextTry(start, n) = Min(worth)
    BY <1>2 DEF NextTry
  <2> QED
    BY <2>3, <2>4, SomeHost
<1> QED
  BY <1>1, <1>2

SessionsTyped == DOMAIN sessions \subseteq Ids /\ \A x \in DOMAIN sessions : sessions[x] \in SessionType

\* Types, with the facts about finite sets that the counts need.
LEMMA TypesSplit == TypeOK =>
  /\ SessionsTyped
  /\ stock \in [Hosts -> [StockSlots -> Ids \cup {None}]]
  /\ ledgerSlots \in [LedgerSlots -> Ids \cup {None}]
  /\ counters \in [started : Nat, completed : Nat, cancelled : Nat, refused : Nat]
  /\ IsFiniteSet(Live) /\ Cardinality(Live) \in Nat
<1> SUFFICES ASSUME TypeOK
             PROVE  /\ SessionsTyped
                    /\ stock \in [Hosts -> [StockSlots -> Ids \cup {None}]]
                    /\ ledgerSlots \in [LedgerSlots -> Ids \cup {None}]
                    /\ counters \in [started : Nat, completed : Nat, cancelled : Nat, refused : Nat]
                    /\ IsFiniteSet(Live) /\ Cardinality(Live) \in Nat
  OBVIOUS
<1>1. Live \in SUBSET Ids
  BY DEF TypeOK, Live
<1>2. IsFiniteSet(Live) /\ Cardinality(Live) \in Nat
  BY <1>1, SomeHost, FS_Subset, FS_CardinalityType
<1> QED
  BY <1>2 DEF TypeOK, SessionsTyped, SessionType

\* The verdict on D (declareDead, cancelOn and release): its sessions are gone
\* with their slots, those of the others are theirs as before, and the counters
\* have them all.
LEMMA Verdict ==
  ASSUME Placed, Held, Conservation, NEW D \in SUBSET Hosts, DeclareDead(D)
  PROVE  /\ SessionsTyped'
         /\ Live' \subseteq Live /\ \A x \in Live' : sessions'[x] = sessions[x]
         /\ \A x \in Live' : Serving(x) => sessions[x].host \notin D /\ sessions[x].ledgerHost \notin D
         /\ stock' \in [Hosts -> [StockSlots -> Ids \cup {None}]]
         /\ ledgerSlots' \in [LedgerSlots -> Ids \cup {None}]
         /\ counters' \in [started : Nat, completed : Nat, cancelled : Nat, refused : Nat]
         /\ SlotsOwned' /\ Conservation'
         /\ \A k \in LedgerSlots, x \in Live : x \in Live' /\ ledgerSlots[k] = x => ledgerSlots'[k] = x \/ ledger.host \in D
<1> DEFINE C == ServedBy(D)
<1>1. /\ SessionsTyped /\ IsFiniteSet(Live) /\ Cardinality(Live) \in Nat
      /\ stock \in [Hosts -> [StockSlots -> Ids \cup {None}]]
      /\ ledgerSlots \in [LedgerSlots -> Ids \cup {None}]
      /\ counters \in [started : Nat, completed : Nat, cancelled : Nat, refused : Nat]
  BY TypesSplit DEF Placed
<1>2. /\ stock' = StockWithout(C) /\ sessions' = Without(C)
      /\ counters' = [counters EXCEPT !.cancelled = @ + Cardinality(C)]
      /\ ledgerSlots' = IF ledger.host \in D THEN Empty(LedgerSlots) ELSE LedgerWithout(C)
  BY DEF DeclareDead
<1>3. C \in SUBSET Live /\ \A x \in C : Serving(x)
  BY DEF ServedBy
<1>4. \A x \in Live \ C : Serving(x) => sessions[x].host \notin D /\ sessions[x].ledgerHost \notin D
  BY DEF ServedBy
<1> HIDE DEF C
<1>5. Live' = Live \ C /\ \A x \in Live' : sessions'[x] = sessions[x]
  BY <1>2, <1>3 DEF Without, Live
<1>6. SessionsTyped'
  BY <1>1, <1>5 DEF SessionsTyped, Live
<1>7. stock' \in [Hosts -> [StockSlots -> Ids \cup {None}]]
  BY <1>1, <1>2 DEF StockWithout
<1>8. ledgerSlots' \in [LedgerSlots -> Ids \cup {None}]
  BY <1>1, <1>2 DEF LedgerWithout, Empty
<1>9. /\ IsFiniteSet(C) /\ Cardinality(C) \in Nat /\ Cardinality(Live') \in Nat
      /\ Cardinality(Live) = Cardinality(Live') + Cardinality(C)
  BY <1>1, <1>3, <1>5, LessAPart
<1>10. counters' \in [started : Nat, completed : Nat, cancelled : Nat, refused : Nat]
  BY <1>1, <1>2, <1>9
<1>11. Conservation'
  <2> DEFINE c == Cardinality(C)
             l == Cardinality(Live')
             m == Cardinality(Live)
  <2>1. counters'.started = counters.started /\ counters'.completed = counters.completed
        /\ counters'.refused = counters.refused /\ counters'.cancelled = counters.cancelled + c
    BY <1>1, <1>2
  <2>2. counters.started = counters.completed + counters.cancelled + counters.refused + m /\ m = l + c
    BY <1>9 DEF Conservation
  <2>3. l \in Nat /\ c \in Nat
    BY <1>9
  <2> HIDE DEF c, l, m
  <2>4. counters'.started = counters'.completed + counters'.cancelled + counters'.refused + l
    BY <1>1, <2>1, <2>2, <2>3
  <2> QED
    BY <2>4 DEF Conservation, l
<1>12. StockSlotsOwned'
  <2> SUFFICES ASSUME NEW h \in Hosts, NEW k \in StockSlots, NEW x \in Ids
               PROVE  stock'[h][k] = x <=> Serving(x)' /\ sessions'[x].host = h /\ sessions'[x].stockSlot = k
    BY DEF StockSlotsOwned
  <2>1. stock[h][k] = x <=> Serving(x) /\ sessions[x].host = h /\ sessions[x].stockSlot = k
    BY DEF Held, SlotsOwned, StockSlotsOwned
  <2>2. stock'[h][k] = IF \E y \in C : sessions[y].host = h /\ sessions[y].stockSlot = k /\ stock[h][k] = y
                       THEN None ELSE stock[h][k]
    BY <1>2 DEF StockWithout
  <2>3. stock'[h][k] = x <=> stock[h][k] = x /\ x \notin C
    BY <1>3, <2>1, <2>2, NoneIsNobody
  <2>4. Serving(x)' /\ sessions'[x].host = h /\ sessions'[x].stockSlot = k
          <=> x \notin C /\ Serving(x) /\ sessions[x].host = h /\ sessions[x].stockSlot = k
    BY <1>5 DEF Serving
  <2> QED
    BY <2>1, <2>3, <2>4
<1>13. LedgerSlotsOwned'
  <2> SUFFICES ASSUME NEW k \in LedgerSlots, ledgerSlots'[k] # None
               PROVE  /\ ledgerSlots'[k] \in Live' /\ sessions'[ledgerSlots'[k]].phase = "serve"
                      /\ sessions'[ledgerSlots'[k]].ledgerSlot = k
    BY DEF LedgerSlotsOwned, Serving
  <2>1. ledgerSlots'[k] = ledgerSlots[k] /\ ledgerSlots[k] \notin C
    <3>1. ledger.host \notin D
      BY <1>2 DEF Empty
    <3>2. ledgerSlots'[k] = IF \E y \in C : sessions[y].ledgerSlot = k /\ ledgerSlots[k] = y THEN None ELSE ledgerSlots[k]
      BY <1>2, <3>1 DEF LedgerWithout
    <3>3. ledgerSlots[k] # None /\ sessions[ledgerSlots[k]].ledgerSlot = k
      BY <3>2 DEF Held, SlotsOwned, LedgerSlotsOwned
    <3> QED
      BY <3>2, <3>3
  <2>2. Serving(ledgerSlots[k]) /\ sessions[ledgerSlots[k]].ledgerSlot = k
    BY <2>1 DEF Held, SlotsOwned, LedgerSlotsOwned
  <2>3. ledgerSlots[k] \in Live' /\ sessions'[ledgerSlots[k]] = sessions[ledgerSlots[k]]
    BY <1>5, <2>1, <2>2 DEF Serving
  <2> QED
    BY <2>1, <2>2, <2>3 DEF Serving
<1>14. ASSUME NEW k \in LedgerSlots, NEW x \in Live, x \in Live', ledgerSlots[k] = x, ledger.host \notin D
       PROVE  ledgerSlots'[k] = x
  BY <1>2, <1>5, <1>14 DEF LedgerWithout
<1> QED
  BY <1>4, <1>5, <1>6, <1>7, <1>8, <1>10, <1>11, <1>12, <1>13, <1>14 DEF SlotsOwned

-------------------------------------------------------------------------------
(* What a step preserves, in the terms the verdict leaves it in.           *)

HostType == [status : Statuses, silent : BOOLEAN, age : 0..Oldest, upAge : 0..SettleS,
             incarnation : 1..(MaxRevives + 1)]

\* The parts of IInv that say nothing of the sessions.
Frame ==
  /\ host \in [Hosts -> HostType]
  /\ ledger \in [host : Books \cup {None}, moveIn : Nat \cup {None}]
  /\ nextId \in 1..(MaxSessions + 1)
  /\ rr \in Hosts
  /\ turn \in Turns
  /\ todo \subseteq Ids
  /\ \A h \in Hosts : HostOK(host[h])
  /\ SeatOK
  /\ OnTime

\* The sessions and the slots, apart from who is alive to serve.
Ledgers ==
  /\ SessionsTyped
  /\ stock \in [Hosts -> [StockSlots -> Ids \cup {None}]]
  /\ ledgerSlots \in [LedgerSlots -> Ids \cup {None}]
  /\ counters \in [started : Nat, completed : Nat, cancelled : Nat, refused : Nat]
  /\ \A x \in Live : Holding(sessions[x])
  /\ SlotsOwned
  /\ Conservation

Rest == NumbersOK /\ ServedByLiveHosts

\* The invariant in the parts the steps change together.
LEMMA Parts == IInv <=> Frame /\ Ledgers /\ Rest
BY DEF IInv, Placed, Held, Frame, Ledgers, Rest, TypeOK, SessionsTyped, HostType, SessionType, Live

\* The same of the state after a step.
LEMMA PartsAfter == IInv' <=> Frame' /\ Ledgers' /\ Rest'
BY DEF IInv, Placed, Held, Frame, Ledgers, Rest, TypeOK, SessionsTyped, HostType, SessionType, Live

\* The greatest age and the times it is made of.
LEMMA Ages == /\ Oldest \in Nat /\ SettleS \in Nat /\ NoticeS \in Nat /\ SuspectS \in Nat \ {0}
              /\ MaxRevives \in Nat /\ NoticeS + SuspectS <= Oldest /\ MaxSessions \in Nat \ {0}
<1>1. SettleS \in Nat /\ NoticeS \in Nat /\ SuspectS \in Nat \ {0} /\ RestartS \in Nat /\ MaxRevives \in Nat
      /\ MaxSessions \in Nat \ {0}
  BY SizesAssumption
<1> QED
  BY <1>1 DEF Oldest

\* After the verdict on D the ledgers are in order, whoever else is alive.
LEMMA AfterVerdict ==
  ASSUME IInv, NEW D \in SUBSET Hosts, DeclareDead(D), ledger.host \in D => ledger'.host # ledger.host,
         nextId' = nextId, turn' # "sessions", \A g \in Hosts \ D : Tryable(g) => Tryable(g)'
  PROVE  Ledgers' /\ Rest' /\ LedgerSlotsKept
<1>1. /\ SessionsTyped'
      /\ Live' \subseteq Live /\ \A x \in Live' : sessions'[x] = sessions[x]
      /\ \A x \in Live' : Serving(x) => sessions[x].host \notin D /\ sessions[x].ledgerHost \notin D
      /\ stock' \in [Hosts -> [StockSlots -> Ids \cup {None}]]
      /\ ledgerSlots' \in [LedgerSlots -> Ids \cup {None}]
      /\ counters' \in [started : Nat, completed : Nat, cancelled : Nat, refused : Nat]
      /\ SlotsOwned' /\ Conservation'
      /\ \A k \in LedgerSlots, x \in Live : x \in Live' /\ ledgerSlots[k] = x => ledgerSlots'[k] = x \/ ledger.host \in D
  BY Verdict DEF IInv
<1>2. /\ \A x \in Live : Holding(sessions[x]) /\ x < nextId
      /\ \A x \in Live : Serving(x) => Tryable(sessions[x].host) /\ Tryable(sessions[x].ledgerHost)
      /\ \A x \in Live : sessions[x] \in SessionType
      /\ \A x \in Live : Serving(x) => sessions[x].ledgerHost \in Books
  <2>1. SessionsTyped
    BY Parts DEF Ledgers
  <2>2. \A x \in Live : sessions[x] \in SessionType /\ Holding(sessions[x])
    BY <2>1, Parts DEF SessionsTyped, Live, Ledgers
  <2>3. \A x \in Live : Serving(x) => sessions[x].ledgerHost \in Books
    BY <2>2 DEF Serving, Holding, SessionType
  <2>4. /\ \A x \in Live : x < nextId
        /\ \A x \in Live : Serving(x) => Tryable(sessions[x].host) /\ Tryable(sessions[x].ledgerHost)
    BY Parts DEF Rest, NumbersOK, ServedByLiveHosts
  <2> QED
    BY <2>2, <2>3, <2>4
<1>3. \A x \in Live' : Holding(sessions'[x])
  BY <1>1, <1>2
<1>4. NumbersOK'
  BY <1>1, <1>2 DEF NumbersOK
<1>5. ServedByLiveHosts'
  <2> SUFFICES ASSUME NEW x, x \in Live', sessions'[x].phase = "serve"
               PROVE  /\ host'[sessions'[x].host].status \in {"up", "suspect"}
                      /\ host'[sessions'[x].ledgerHost].status \in {"up", "suspect"}
    BY DEF ServedByLiveHosts, Serving, Tryable
  <2>1. /\ x \in Live /\ sessions'[x] = sessions[x] /\ Serving(x)
        /\ sessions[x].host \in Hosts \ D /\ sessions[x].ledgerHost \in Hosts \ D
        /\ Tryable(sessions[x].host) /\ Tryable(sessions[x].ledgerHost)
    <3>1. x \in Live /\ sessions'[x] = sessions[x] /\ Serving(x)
      BY <1>1 DEF Serving
    <3>2. sessions[x].host \in Hosts /\ sessions[x].ledgerHost \in Hosts
      BY <1>2, <3>1, HostsAssumption DEF SessionType
    <3> QED
      BY <1>1, <1>2, <3>1, <3>2
  <2> QED
    BY <2>1 DEF Tryable
<1>6. LedgerSlotsKept
  BY <1>1 DEF LedgerSlotsKept, Serving
<1> QED
  BY <1>1, <1>3, <1>4, <1>5, <1>6 DEF Ledgers, Rest

\* The step leaves the seat where it is, or empties it.
SeatStays == ledger'.host \in {None, ledger.host}

\* One host changes.
LEMMA OneHost ==
  ASSUME Frame, NEW h \in Hosts, NEW r \in HostType, HostOK(r), host' = [host EXCEPT ![h] = r],
         r.silent => r.age < NoticeS + SuspectS, turn # "hosts"
  PROVE  /\ host' \in [Hosts -> HostType] /\ \A g \in Hosts : HostOK(host'[g])
         /\ host'[h] = r /\ \A g \in Hosts \ {h} : host'[g] = host[g]
         /\ \A g \in Hosts : host'[g].silent => host'[g].age < NoticeS + SuspectS
BY DEF Frame, OnTime

\* What a host is when it is declared dead, or restarts.
LEMMA DeadHost ==
  ASSUME NEW r \in HostType, HostOK(r)
  PROVE  /\ Dead(r) \in HostType /\ HostOK(Dead(r)) /\ ~Dead(r).silent /\ Dead(r).incarnation = r.incarnation
         /\ Dead(r).status = "dead" /\ Dead(r).age = 0
<1>1. r.incarnation \in 1..(MaxRevives + 1) /\ r.incarnation \in Nat
  BY Ages DEF HostType
<1>2. /\ Dead(r).status = "dead" /\ Dead(r).silent = FALSE /\ Dead(r).age = 0 /\ Dead(r).upAge = 0
      /\ Dead(r).incarnation = r.incarnation
  BY DEF Dead, HostType
<1>3. 0 \in 0..Oldest /\ 0 \in 0..SettleS /\ "dead" \in Statuses
  BY Ages DEF Statuses
<1>4. Dead(r) \in HostType
  BY <1>1, <1>3 DEF Dead, HostType
<1>5. r.incarnation <= MaxRevives + 1
  BY <1>1, Ages
<1> QED
  BY <1>1, <1>2, <1>4, <1>5, Ages DEF HostOK

\* Nobody comes or goes, and whoever was alive to serve still is.
LEMMA SameSessions ==
  ASSUME Ledgers, Rest, UNCHANGED <<stock, ledgerSlots, sessions, counters, nextId>>,
         turn' = "sessions" => todo' \subseteq Live, \A g \in Hosts : Tryable(g) => Tryable(g)'
  PROVE  Ledgers' /\ Rest' /\ LedgerSlotsKept
<1>1. Ledgers'
  BY DEF Ledgers, SessionsTyped, Live, Holding, SlotsOwned, StockSlotsOwned, LedgerSlotsOwned, Serving, Conservation
<1>2. \A x \in Live : Serving(x) => sessions[x].host \in Hosts /\ sessions[x].ledgerHost \in Hosts
  <2>1. \A x \in Live : sessions[x] \in SessionType /\ Holding(sessions[x])
    BY DEF Ledgers, SessionsTyped, Live
  <2> QED
    BY <2>1, HostsAssumption DEF Holding, SessionType, Serving
<1>3. Rest'
  BY <1>2 DEF Rest, NumbersOK, ServedByLiveHosts, Live, Serving, Tryable
<1> QED
  BY <1>1, <1>3 DEF LedgerSlotsKept

\* kill(i, "crash").
LEMMA CrashKeeps ==
  ASSUME IInv, NEW h \in Hosts, Crash(h)
  PROVE  IInv' /\ LedgerSlotsKept /\ SeatStays
<1>1. Frame /\ Ledgers /\ Rest
  BY Parts
<1>2. /\ turn = "rest" /\ Answering(h)
      /\ host' = [host EXCEPT ![h] = Dead(host[h])]
      /\ DeclareDead({h})
      /\ ledger' = IF ledger.host = h THEN [host |-> None, moveIn |-> SuspectS] ELSE ledger
      /\ nextId' = nextId /\ rr' = rr /\ turn' = turn /\ todo' = todo
  BY DEF Crash
<1>3. host[h] \in HostType /\ HostOK(host[h])
  BY <1>1 DEF Frame
<1>4. /\ host' \in [Hosts -> HostType] /\ \A g \in Hosts : HostOK(host'[g])
      /\ \A g \in Hosts \ {h} : host'[g] = host[g]
      /\ \A g \in Hosts : host'[g].silent => host'[g].age < NoticeS + SuspectS
  BY <1>1, <1>2, <1>3, DeadHost, OneHost
<1>5. ledger' \in [host : Books \cup {None}, moveIn : Nat \cup {None}] /\ SeatStays
  BY <1>1, <1>2, Ages DEF Frame, SeatStays
<1>6. SeatOK'
  <2>1. CASE ledger.host = h
    BY <1>2, <2>1, Ages, NoneAssumption, NoneIsNobody DEF SeatOK
  <2>2. CASE ledger.host # h
    <3>1. ledger' = ledger /\ (ledger.host # None => host'[ledger.host] = host[ledger.host])
      BY <1>1, <1>2, <1>4, <2>2, HostsAssumption DEF Frame
    <3> QED
      BY <1>1, <3>1 DEF Frame, SeatOK, Tryable
  <2> QED
    BY <2>1, <2>2
<1>7. Frame'
  BY <1>1, <1>2, <1>4, <1>5, <1>6 DEF Frame, OnTime
<1>8. Ledgers' /\ Rest' /\ LedgerSlotsKept
  <2>1. ledger.host \in {h} => ledger'.host # ledger.host
    BY <1>2, NoneIsNobody
  <2>2. \A g \in Hosts \ {h} : Tryable(g) => Tryable(g)'
    BY <1>4 DEF Tryable
  <2> QED
    BY <1>2, <2>1, <2>2, AfterVerdict
<1> QED
  BY <1>5, <1>7, <1>8, PartsAfter

\* kill(i, "silent"): nobody has noticed yet, so nothing changes hands.
LEMMA HangKeeps ==
  ASSUME IInv, NEW h \in Hosts, Hang(h)
  PROVE  IInv' /\ LedgerSlotsKept /\ SeatStays
<1> DEFINE r == [host[h] EXCEPT !.silent = TRUE, !.age = 0]
<1>1. Frame /\ Ledgers /\ Rest
  BY Parts
<1>2. /\ turn = "rest" /\ host[h].status = "up" /\ ~host[h].silent
      /\ host' = [host EXCEPT ![h] = r]
      /\ ledger' = IF ledger.host = h THEN [ledger EXCEPT !.moveIn = NoticeS + SuspectS] ELSE ledger
      /\ UNCHANGED <<stock, ledgerSlots, sessions, nextId, rr, counters, turn, todo>>
  BY <1>1 DEF Hang, Answering, Frame
<1>3. r \in HostType /\ HostOK(r) /\ r.status = "up" /\ r.silent /\ r.age = 0
  <2>1. host[h] \in HostType /\ HostOK(host[h]) /\ 0 \in 0..Oldest
    BY <1>1, Ages DEF Frame
  <2>2. r \in HostType /\ r.status = "up" /\ r.silent = TRUE /\ r.age = 0 /\ r.incarnation = host[h].incarnation
    BY <1>2, <2>1 DEF HostType
  <2> HIDE DEF r
  <2> QED
    BY <1>2, <2>1, <2>2 DEF HostOK
<1> HIDE DEF r
<1>4. /\ host' \in [Hosts -> HostType] /\ \A g \in Hosts : HostOK(host'[g])
      /\ host'[h] = r /\ \A g \in Hosts \ {h} : host'[g] = host[g]
      /\ \A g \in Hosts : host'[g].silent => host'[g].age < NoticeS + SuspectS
  <2>1. r.age < NoticeS + SuspectS /\ turn # "hosts"
    BY <1>2, <1>3, Ages
  <2> QED
    BY <1>1, <1>2, <1>3, <2>1, OneHost
<1>5. ledger' \in [host : Books \cup {None}, moveIn : Nat \cup {None}] /\ ledger'.host = ledger.host
  BY <1>1, <1>2, Ages DEF Frame
<1>6. \A g \in Hosts : Tryable(g) <=> Tryable(g)'
  BY <1>2, <1>3, <1>4 DEF Tryable
<1>7. SeatOK'
  <2>1. ledger.host # None => host'[ledger.host].status \in {"up", "suspect"}
    <3>1. ledger.host # None => ledger.host \in Hosts
      BY <1>1, HostsAssumption DEF Frame
    <3> QED
      BY <1>1, <1>6, <3>1 DEF Frame, SeatOK, Tryable
  <2>2. CASE ledger.host = h
    <3>1. ledger'.moveIn \in Nat
      BY <1>1, <1>2, <2>2, Ages DEF Frame
    <3> QED
      BY <1>5, <2>1, <3>1, NoneAssumption DEF SeatOK, Tryable
  <2>3. CASE ledger.host # h
    <3>1. ledger' = ledger /\ (ledger.host # None => host'[ledger.host] = host[ledger.host])
      BY <1>1, <1>2, <1>4, <2>3, HostsAssumption DEF Frame
    <3> QED
      BY <1>1, <3>1 DEF Frame, SeatOK, Tryable
  <2> QED
    BY <2>2, <2>3
<1>8. Frame'
  BY <1>1, <1>2, <1>4, <1>5, <1>7 DEF Frame, OnTime
<1>9. Ledgers' /\ Rest' /\ LedgerSlotsKept
  BY <1>1, <1>2, <1>6, SameSessions
<1> QED
  BY <1>5, <1>8, <1>9, PartsAfter DEF SeatStays

\* A host that has come back as often as it may, or is about to for the last
\* time, has used up the bound alone.
LEMMA ReturnsLeft ==
  ASSUME Frame, NEW h \in Hosts, host[h].status # "restarting", Returns < MaxRevives
  PROVE  host[h].incarnation <= MaxRevives
<1> DEFINE m == host[h].incarnation
           S == {r \in Hosts \X (1..MaxRevives) :
                   r[2] < host[r[1]].incarnation + (IF host[r[1]].status = "restarting" THEN 1 ELSE 0)}
           f == [n \in 1..MaxRevives |-> <<h, n>>]
<1>1. m \in 1..(MaxRevives + 1) /\ MaxRevives \in Nat
  BY Ages DEF Frame, HostType
<1> SUFFICES ASSUME m = MaxRevives + 1 PROVE FALSE
  BY <1>1
<1>2. IsFiniteSet(S)
  <2>1. IsFiniteSet(1..MaxRevives)
    BY <1>1, FS_Interval
  <2>2. IsFiniteSet(Hosts \X (1..MaxRevives))
    BY <2>1, SomeHost, FS_Product
  <2>3. S \subseteq Hosts \X (1..MaxRevives)
    OBVIOUS
  <2> HIDE DEF S
  <2> QED
    BY <2>2, <2>3, FS_Subset
<1>3. f \in Injection(1..MaxRevives, S)
  <2>1. \A n \in 1..MaxRevives : <<h, n>> \in S
    BY <1>1
  <2> HIDE DEF S
  <2>2. f \in [1..MaxRevives -> S]
    BY <2>1
  <2>3. \A n, k \in 1..MaxRevives : f[n] = f[k] => n = k
    OBVIOUS
  <2> QED
    BY <2>2, <2>3, Zenon DEF Injection, IsInjective
<1>4. Cardinality(1..MaxRevives) = MaxRevives
  BY <1>1, FS_Interval
<1> HIDE DEF f, S, m
<1>5. Cardinality(1..MaxRevives) <= Cardinality(S) /\ Cardinality(S) \in Nat
  BY <1>2, <1>3, FS_Injection, FS_CardinalityType
<1> QED
  BY <1>1, <1>4, <1>5 DEF Returns, S

\* revive(i): a host that is not back yet answers to nobody.
LEMMA ReviveKeeps ==
  ASSUME IInv, NEW h \in Hosts, Revive(h)
  PROVE  IInv' /\ LedgerSlotsKept /\ SeatStays
<1> DEFINE r == [Dead(host[h]) EXCEPT !.status = "restarting"]
<1>1. Frame /\ Ledgers /\ Rest
  BY Parts
<1>2. /\ turn = "rest" /\ ~Answering(h) /\ host[h].status # "restarting"
      /\ Returns < MaxRevives /\ ReviveLoses(h)
      /\ host' = [host EXCEPT ![h] = r]
      /\ nextId' = nextId /\ rr' = rr /\ turn' = turn /\ todo' = todo
  BY DEF Revive
<1>3. host[h] \in HostType /\ HostOK(host[h]) /\ host[h].incarnation <= MaxRevives
  BY <1>1, <1>2, ReturnsLeft DEF Frame
<1>4. r \in HostType /\ HostOK(r) /\ ~r.silent /\ r.status = "restarting"
  <2>1. PICK d : d = Dead(host[h])
    OBVIOUS
  <2>2. d \in HostType /\ ~d.silent /\ d.incarnation = host[h].incarnation
    BY <1>3, <2>1, DeadHost
  <2>3. r = [d EXCEPT !.status = "restarting"]
    BY <2>1
  <2>4. r \in HostType /\ r.status = "restarting" /\ r.silent = d.silent /\ r.incarnation = d.incarnation
    BY <2>2, <2>3 DEF HostType, Statuses
  <2>5. d.incarnation \in Nat /\ MaxRevives \in Nat
    BY <2>2, Ages DEF HostType
  <2> HIDE DEF r
  <2> QED
    BY <1>3, <2>2, <2>4, <2>5 DEF HostOK
<1> HIDE DEF r
<1>5. /\ host' \in [Hosts -> HostType] /\ \A g \in Hosts : HostOK(host'[g])
      /\ \A g \in Hosts \ {h} : host'[g] = host[g]
      /\ \A g \in Hosts : host'[g].silent => host'[g].age < NoticeS + SuspectS
  BY <1>1, <1>2, <1>4, OneHost
<1>6. \A g \in Hosts \ {h} : Tryable(g) => Tryable(g)'
  BY <1>5 DEF Tryable
<1>7. CASE host[h].status = "dead"
  <2>1. UNCHANGED <<stock, sessions, counters, ledgerSlots, ledger>>
    BY <1>2, <1>7 DEF ReviveLoses
  <2>2. SeatOK'
    <3>1. ledger.host # None => ledger.host \in Hosts \ {h}
      BY <1>1, <1>7, HostsAssumption DEF Frame, SeatOK, Tryable
    <3>2. ledger' = ledger /\ (ledger.host # None => host'[ledger.host] = host[ledger.host])
      BY <1>5, <2>1, <3>1
    <3> QED
      BY <1>1, <3>2 DEF Frame, SeatOK, Tryable
  <2>3. Frame'
    BY <1>1, <1>2, <1>5, <2>1, <2>2 DEF Frame, OnTime
  <2>4. Ledgers'
    BY <1>1, <2>1 DEF Ledgers, SessionsTyped, Live, Holding, SlotsOwned, StockSlotsOwned, LedgerSlotsOwned,
                      Serving, Conservation
  <2>5. Rest'
    <3>1. \A x \in Live : Serving(x) => sessions[x].host \in Hosts \ {h} /\ sessions[x].ledgerHost \in Hosts \ {h}
      <4>1. \A x \in Live : sessions[x] \in SessionType /\ Holding(sessions[x])
        BY <1>1 DEF Ledgers, SessionsTyped, Live
      <4>2. \A x \in Live : Serving(x) => sessions[x].host \in Hosts /\ sessions[x].ledgerHost \in Hosts
        BY <4>1, HostsAssumption DEF Holding, SessionType, Serving
      <4> QED
        BY <1>1, <1>7, <4>2 DEF Rest, ServedByLiveHosts, Tryable
    <3> QED
      BY <1>1, <1>2, <1>6, <2>1, <3>1 DEF Rest, NumbersOK, ServedByLiveHosts, Live, Serving, Tryable
  <2> QED
    BY <2>1, <2>3, <2>4, <2>5, PartsAfter DEF LedgerSlotsKept, SeatStays
<1>8. CASE host[h].status # "dead"
  <2>1. DeclareDead({h}) /\ ledger' = IF ledger.host = h THEN [ledger EXCEPT !.host = None] ELSE ledger
    BY <1>2, <1>8 DEF ReviveLoses
  <2>2. host[h].silent
    BY <1>2, <1>3, <1>8 DEF HostOK, HostType, Statuses, Answering
  <2>3. ledger' \in [host : Books \cup {None}, moveIn : Nat \cup {None}] /\ SeatStays
    BY <1>1, <2>1 DEF Frame, SeatStays
  <2>4. SeatOK'
    <3>1. CASE ledger.host = h
      <4>1. ledger'.host = None /\ ledger'.moveIn = ledger.moveIn /\ ledger.moveIn # None
        BY <1>1, <2>1, <2>2, <3>1, NoneIsNobody DEF Frame, SeatOK
      <4> QED
        BY <4>1 DEF SeatOK
    <3>2. CASE ledger.host # h
      <4>1. ledger' = ledger /\ (ledger.host # None => host'[ledger.host] = host[ledger.host])
        BY <1>1, <1>5, <2>1, <3>2, HostsAssumption DEF Frame
      <4> QED
        BY <1>1, <4>1 DEF Frame, SeatOK, Tryable
    <3> QED
      BY <3>1, <3>2
  <2>5. Frame'
    BY <1>1, <1>2, <1>5, <2>3, <2>4 DEF Frame, OnTime
  <2>6. Ledgers' /\ Rest' /\ LedgerSlotsKept
    <3>1. ledger.host \in {h} => ledger'.host # ledger.host
      BY <1>1, <2>1, NoneIsNobody DEF Frame
    <3> QED
      BY <1>2, <1>6, <2>1, <3>1, AfterVerdict
  <2> QED
    BY <2>3, <2>5, <2>6, PartsAfter
<1> QED
  BY <1>7, <1>8

\* s.t += dt: a step begins, and every age and countdown takes it into account.
LEMMA StepKeeps ==
  ASSUME IInv, Step
  PROVE  IInv' /\ LedgerSlotsKept /\ SeatStays
<1>1. Frame /\ Ledgers /\ Rest
  BY Parts
<1>2. /\ turn' = "hosts" /\ host' = [h \in Hosts |-> Older(host[h])]
      /\ ledger' = [ledger EXCEPT !.moveIn = IF @ = None \/ @ = 0 THEN @ ELSE @ - 1]
      /\ UNCHANGED <<stock, ledgerSlots, sessions, nextId, rr, counters, todo>>
  BY DEF Step
<1>3. ASSUME NEW h \in Hosts
      PROVE  /\ host'[h] \in HostType /\ HostOK(host'[h])
             /\ host'[h].status = host[h].status /\ host'[h].silent = host[h].silent
  <2>1. PICK r : r = host[h]
    OBVIOUS
  <2>2. r \in HostType /\ HostOK(r)
    BY <1>1, <2>1 DEF Frame
  <2> DEFINE a == IF (r.silent \/ r.status = "restarting") /\ r.age < Oldest THEN r.age + 1 ELSE r.age
             u == IF r.status = "up" /\ r.upAge < SettleS THEN r.upAge + 1 ELSE r.upAge
  <2>3. a \in 0..Oldest /\ u \in 0..SettleS
    <3>1. r.age \in 0..Oldest /\ r.upAge \in 0..SettleS
      BY <2>2 DEF HostType
    <3> QED
      BY <3>1, Ages
  <2>4. host'[h] = [r EXCEPT !.age = a, !.upAge = u]
    BY <1>2, <2>1, <2>2 DEF Older, HostType
  <2> HIDE DEF a, u
  <2>5. /\ host'[h] \in HostType /\ host'[h].status = r.status /\ host'[h].silent = r.silent
        /\ host'[h].incarnation = r.incarnation
    BY <2>2, <2>3, <2>4 DEF HostType
  <2> QED
    BY <2>1, <2>2, <2>5 DEF HostOK
<1>4. ledger' \in [host : Books \cup {None}, moveIn : Nat \cup {None}] /\ ledger'.host = ledger.host
      /\ (ledger'.moveIn = None <=> ledger.moveIn = None)
  <2>1. PICK m : m = ledger.moveIn
    OBVIOUS
  <2>2. PICK n : n = IF m = None \/ m = 0 THEN m ELSE m - 1
    OBVIOUS
  <2>3. m \in Nat \cup {None} /\ ledger \in [host : Books \cup {None}, moveIn : Nat \cup {None}]
    BY <1>1, <2>1 DEF Frame
  <2>4. n \in Nat \cup {None} /\ (n = None <=> m = None)
    BY <2>2, <2>3, NoneAssumption
  <2>5. ledger' = [ledger EXCEPT !.moveIn = n]
    BY <1>2, <2>1, <2>2, <2>3
  <2> QED
    BY <2>1, <2>3, <2>4, <2>5
<1>5. host' \in [Hosts -> HostType]
  BY <1>2, <1>3
<1>6. \A g \in Hosts : Tryable(g) => Tryable(g)'
  BY <1>3 DEF Tryable
<1>7. SeatOK'
  <2>1. ledger.host # None => ledger.host \in Hosts
    BY <1>1, HostsAssumption DEF Frame
  <2> QED
    BY <1>1, <1>3, <1>4, <2>1 DEF Frame, SeatOK, Tryable
<1>8. Frame'
  BY <1>1, <1>2, <1>3, <1>4, <1>5, <1>7 DEF Frame, OnTime, Turns
<1>9. Ledgers' /\ Rest' /\ LedgerSlotsKept
  BY <1>1, <1>2, <1>6, SameSessions
<1> QED
  BY <1>4, <1>8, <1>9, PartsAfter DEF SeatStays

\* What the hosts' timers make of one host: it stays on time, and whoever was
\* not overdue is as alive as before.
LEMMA Timers ==
  ASSUME NEW r \in HostType, HostOK(r)
  PROVE  /\ HostAfter(r) \in HostType /\ HostOK(HostAfter(r))
         /\ HostAfter(r).silent => HostAfter(r).age < NoticeS + SuspectS /\ HostAfter(r).silent = r.silent
         /\ ~Overdue(r) /\ r.status \in {"up", "suspect"} => HostAfter(r).status \in {"up", "suspect"}
<1>1. /\ r.age \in 0..Oldest /\ r.incarnation \in 1..(MaxRevives + 1) /\ r.silent \in BOOLEAN
      /\ r.status \in Statuses
  BY DEF HostType
<1>2. CASE Overdue(r)
  <2>1. HostAfter(r) = Dead(r)
    BY <1>2 DEF HostAfter
  <2> QED
    BY <1>2, <2>1, DeadHost
<1>3. CASE ~Overdue(r) /\ Restarted(r)
  <2>1. HostAfter(r) = [r EXCEPT !.status = "up", !.age = 0, !.incarnation = @ + 1]
    BY <1>3 DEF HostAfter
  <2>2. PICK n : n = r.incarnation + 1
    OBVIOUS
  <2>3. r.status = "restarting" /\ ~r.silent /\ n \in 1..(MaxRevives + 1) /\ r.incarnation <= MaxRevives
    BY <1>1, <1>3, <2>2, Ages DEF Restarted, HostOK
  <2>4. HostAfter(r) = [r EXCEPT !.status = "up", !.age = 0, !.incarnation = n]
    BY <2>1, <2>2 DEF HostType
  <2>5. 0 \in 0..Oldest /\ "up" \in Statuses /\ n <= MaxRevives + 1 /\ n + 0 = n
    BY <2>3, Ages DEF Statuses
  <2>6. /\ HostAfter(r) \in HostType /\ HostAfter(r).status = "up" /\ HostAfter(r).silent = r.silent
        /\ HostAfter(r).incarnation = n
    BY <2>3, <2>4, <2>5 DEF HostType
  <2> QED
    BY <2>3, <2>5, <2>6 DEF HostOK
<1>4. CASE ~Overdue(r) /\ ~Restarted(r) /\ Noticed(r)
  <2>1. HostAfter(r) = [r EXCEPT !.status = "suspect"]
    BY <1>4 DEF HostAfter
  <2>2. r.silent /\ r.status = "up" /\ r.age < NoticeS + SuspectS /\ "suspect" \in Statuses
    BY <1>1, <1>4, Ages DEF Noticed, Overdue, Statuses
  <2>3. /\ HostAfter(r) \in HostType /\ HostAfter(r).status = "suspect" /\ HostAfter(r).silent = r.silent
        /\ HostAfter(r).incarnation = r.incarnation /\ HostAfter(r).age = r.age
    BY <2>1, <2>2 DEF HostType
  <2>4. r.incarnation <= MaxRevives + 1 /\ r.incarnation + 0 = r.incarnation
    BY <1>1, <2>2, Ages
  <2> QED
    BY <2>2, <2>3, <2>4 DEF HostOK
<1>5. CASE ~Overdue(r) /\ ~Restarted(r) /\ ~Noticed(r)
  <2>1. HostAfter(r) = r
    BY <1>5 DEF HostAfter
  <2>2. r.silent => r.age < NoticeS + SuspectS
    BY <1>1, <1>5, Ages DEF Noticed, Overdue, HostOK
  <2> QED
    BY <2>1, <2>2
<1> QED
  BY <1>2, <1>3, <1>4, <1>5

\* A host that restarts has no session to lose: its Stock is empty already.
LEMMA RestartedIsEmpty ==
  ASSUME Frame, Ledgers, Rest, NEW h \in Hosts, ~Tryable(h)
  PROVE  \A k \in StockSlots : stock[h][k] = None
<1> SUFFICES ASSUME NEW k \in StockSlots, stock[h][k] # None PROVE FALSE
  OBVIOUS
<1>1. PICK x : x = stock[h][k]
  OBVIOUS
<1>2. x \in Ids
  BY <1>1 DEF Ledgers
<1>3. Serving(x) /\ sessions[x].host = h
  BY <1>1, <1>2 DEF Ledgers, SlotsOwned, StockSlotsOwned
<1> QED
  BY <1>3 DEF Rest, ServedByLiveHosts, Serving

\* The hosts' turn: the verdict on every host that is overdue.
LEMMA StepHostsKeeps ==
  ASSUME IInv, StepHosts
  PROVE  IInv' /\ LedgerSlotsKept /\ SeatStays
<1> DEFINE over == {h \in Hosts : Overdue(host[h])}
           back == {h \in Hosts : Restarted(host[h])}
<1>1. Frame /\ Ledgers /\ Rest
  BY Parts
<1>2. /\ turn = "hosts" /\ turn' = "ledger" /\ host' = [h \in Hosts |-> HostAfter(host[h])]
      /\ stock' = [h \in Hosts |-> IF h \in back THEN Empty(StockSlots) ELSE StockWithout(ServedBy(over))[h]]
      /\ sessions' = Without(ServedBy(over))
      /\ counters' = [counters EXCEPT !.cancelled = @ + Cardinality(ServedBy(over))]
      /\ ledgerSlots' = IF ledger.host \in over THEN Empty(LedgerSlots) ELSE LedgerWithout(ServedBy(over))
      /\ ledger' = IF ledger.host \in over THEN [ledger EXCEPT !.host = None] ELSE ledger
      /\ nextId' = nextId /\ rr' = rr /\ todo' = todo
  BY DEF StepHosts
<1>3. \A h \in back : ~Tryable(h)
  BY DEF Restarted, Tryable
<1>4. \A h \in over : host[h].silent
  BY <1>1 DEF Frame, HostOK, Overdue, Noticed
<1>5. \A h \in Hosts : host[h] \in HostType /\ HostOK(host[h])
  BY <1>1 DEF Frame
<1>6. ASSUME NEW h \in Hosts
      PROVE  /\ host'[h] \in HostType /\ HostOK(host'[h])
             /\ host'[h].silent => host'[h].age < NoticeS + SuspectS /\ host[h].silent
             /\ h \notin over /\ Tryable(h) => host'[h].status \in {"up", "suspect"}
  <2>1. PICK r : r = host[h]
    OBVIOUS
  <2>2. r \in HostType /\ HostOK(r) /\ host'[h] = HostAfter(r)
    BY <1>2, <1>5, <2>1
  <2> QED
    BY <2>1, <2>2, Timers DEF Tryable
<1> HIDE DEF over, back
<1>7. over \in SUBSET Hosts /\ back \in SUBSET Hosts
  BY DEF over, back
<1>8. DeclareDead(over)
  <2> DEFINE S == StockWithout(ServedBy(over))
  <2>1. S = [h \in Hosts |-> S[h]]
    BY DEF StockWithout
  <2>2. \A h \in back : S[h] = Empty(StockSlots)
    <3> SUFFICES ASSUME NEW h \in back PROVE S[h] = Empty(StockSlots)
      OBVIOUS
    <3>1. h \in Hosts /\ \A k \in StockSlots : stock[h][k] = None
      BY <1>1, <1>3, <1>7, RestartedIsEmpty
    <3> QED
      BY <3>1 DEF StockWithout, Empty
  <2>3. stock' = S
    <3> HIDE DEF S
    <3> QED
      BY <1>2, <2>1, <2>2 DEF S
  <2> QED
    BY <1>2, <2>3 DEF DeclareDead
<1>9. host' \in [Hosts -> HostType]
  BY <1>2, <1>6
<1>10. ledger' \in [host : Books \cup {None}, moveIn : Nat \cup {None}] /\ SeatStays
  BY <1>1, <1>2 DEF Frame, SeatStays
<1>11. SeatOK'
  <2>1. CASE ledger.host \in over
    <3>1. ledger'.host = None /\ ledger'.moveIn = ledger.moveIn /\ ledger.moveIn # None
      BY <1>1, <1>2, <1>4, <1>7, <2>1, NoneIsNobody DEF Frame, SeatOK
    <3> QED
      BY <3>1 DEF SeatOK
  <2>2. CASE ledger.host \notin over
    <3>1. ledger' = ledger /\ (ledger.host # None => ledger.host \in Hosts)
      BY <1>1, <1>2, <2>2, HostsAssumption DEF Frame
    <3>2. ledger.host # None => /\ host'[ledger.host].status \in {"up", "suspect"}
                                /\ host'[ledger.host].silent => host[ledger.host].silent
      BY <1>1, <1>6, <2>2, <3>1 DEF Frame, SeatOK
    <3> QED
      BY <1>1, <3>1, <3>2 DEF Frame, SeatOK, Tryable
  <2> QED
    BY <2>1, <2>2
<1>12. Frame'
  BY <1>1, <1>2, <1>6, <1>9, <1>10, <1>11 DEF Frame, OnTime, Turns
<1>13. Ledgers' /\ Rest' /\ LedgerSlotsKept
  <2>1. ledger.host \in over => ledger'.host # ledger.host
    BY <1>1, <1>2, <1>7, NoneIsNobody DEF Frame
  <2>2. \A g \in Hosts \ over : Tryable(g) => Tryable(g)'
    BY <1>6 DEF Tryable
  <2> QED
    BY <1>2, <1>7, <1>8, <2>1, <2>2, AfterVerdict
<1> QED
  BY <1>10, <1>12, <1>13, PartsAfter

\* placeLedger(): the seat goes to a books host that answers and has sat out its
\* settle time, and from a holder only upwards.
LEMMA Placement ==
  ASSUME Frame, ledger' = PlaceLedger, ledger' # ledger
  PROVE  /\ ledger' \in [host : Books, moveIn : Nat \cup {None}] /\ Counts(ledger'.host)
         /\ ledger.host # None => ledger'.host > ledger.host
<1> DEFINE candidates == {h \in Hosts : Counts(h)}
           best == Max(candidates)
<1>1. ledger' = IF candidates = {} THEN ledger
                ELSE IF ledger.host = None
                     THEN IF ledger.moveIn \in {None, 0} THEN [host |-> best, moveIn |-> None] ELSE ledger
                     ELSE IF best > ledger.host THEN [ledger EXCEPT !.host = best] ELSE ledger
  BY DEF PlaceLedger
<1>2. candidates # {}
  BY <1>1
<1>3. best \in candidates
  <2>1. candidates \subseteq Hosts
    OBVIOUS
  <2> HIDE DEF candidates
  <2>2. IsFiniteSet(candidates) /\ candidates \subseteq Int
    <3>1. IsFiniteSet(candidates)
      BY <2>1, SomeHost, FS_Subset
    <3> QED
      BY <2>1, <3>1, SomeHost
  <2>3. \E x \in candidates : \A y \in candidates : x >= y
    BY <1>2, <2>2, Greatest
  <2> QED
    BY <2>3 DEF Max
<1>4. Counts(best) /\ best \in Books
  BY <1>3 DEF Counts
<1> HIDE DEF candidates, best
<1> QED
  BY <1>1, <1>4 DEF Frame

\* The seat of the Ledger, in its turn, keeps the invariant and hands over.
LEMMA StepLedgerKeeps ==
  ASSUME IInv, StepLedger
  PROVE  IInv' /\ LedgerSlotsKept /\ TakeoverDrains
<1>1. Frame /\ Ledgers /\ Rest
  BY Parts
<1>2. /\ turn = "ledger" /\ turn' = "load" /\ ledger' = PlaceLedger
      /\ UNCHANGED <<host, stock, ledgerSlots, sessions, nextId, rr, counters, todo>>
  BY DEF StepLedger
<1>3. ledger' # ledger => /\ ledger' \in [host : Books, moveIn : Nat \cup {None}] /\ Counts(ledger'.host)
                          /\ ledger.host # None => ledger'.host > ledger.host
  BY <1>1, <1>2, Placement
<1>4. ledger' \in [host : Books \cup {None}, moveIn : Nat \cup {None}]
  BY <1>1, <1>3 DEF Frame
<1>5. SeatOK'
  <2>1. CASE ledger' = ledger
    BY <1>1, <1>2, <2>1 DEF Frame, SeatOK, Tryable
  <2>2. CASE ledger' # ledger
    <3>1. ledger'.host # None /\ host[ledger'.host].status = "up" /\ ~host[ledger'.host].silent
      BY <1>3, <2>2, NoneIsNobody DEF Counts, Answering
    <3> QED
      BY <1>2, <3>1 DEF SeatOK, Tryable
  <2> QED
    BY <2>1, <2>2
<1>6. Frame'
  BY <1>1, <1>2, <1>4, <1>5 DEF Frame, OnTime, Turns
<1>7. Ledgers' /\ Rest' /\ LedgerSlotsKept
  BY <1>1, <1>2, SameSessions DEF Tryable
<1>8. TakeoverDrains
  <2> SUFFICES ASSUME ledger.host # None, ledger'.host \notin {None, ledger.host}
               PROVE  ledger'.host > ledger.host /\ host[ledger'.host].upAge >= SettleS
    BY <1>2 DEF TakeoverDrains
  <2> QED
    BY <1>3 DEF Counts
<1> QED
  BY <1>6, <1>7, <1>8, PartsAfter

\* What every step of the sessions' part of step() leaves as it is.
LEMMA SameFrame ==
  ASSUME Frame, UNCHANGED <<host, ledger>>, nextId' \in 1..(MaxSessions + 1), rr' \in Hosts,
         turn' \in Turns \ {"hosts"}, todo' \subseteq Ids, turn # "hosts"
  PROVE  Frame' /\ SeatStays
BY DEF Frame, SeatOK, Tryable, OnTime, SeatStays

\* The loop begins over a copy of s.sessions, and ends.
LEMMA LoopKeeps ==
  ASSUME IInv, LoadDone \/ StepDone
  PROVE  IInv' /\ LedgerSlotsKept /\ SeatStays
<1>1. Frame /\ Ledgers /\ Rest
  BY Parts
<1>2. /\ UNCHANGED <<host, stock, ledger, ledgerSlots, sessions, nextId, rr, counters>>
      /\ turn \in {"load", "sessions"}
      /\ \/ turn' = "sessions" /\ todo' = Live
         \/ turn' = "rest" /\ todo' = todo
  BY DEF LoadDone, StepDone
<1>3. todo' \subseteq Ids
  BY <1>1, <1>2 DEF Frame, Ledgers, SessionsTyped, Live
<1>4. Frame' /\ SeatStays
  BY <1>1, <1>2, <1>3, SameFrame DEF Frame, Turns
<1>5. Ledgers' /\ Rest' /\ LedgerSlotsKept
  BY <1>1, <1>2, SameSessions DEF Tryable
<1> QED
  BY <1>4, <1>5, PartsAfter

\* A new session has a number of its own and holds nothing.
LEMMA StartKeeps ==
  ASSUME IInv, StartSession
  PROVE  IInv' /\ LedgerSlotsKept /\ SeatStays
<1> DEFINE first == NextTry(rr, 0)
           new == NewSession(rr, first)
<1>1. Frame /\ Ledgers /\ Rest
  BY Parts
<1>2. /\ turn = "load" /\ turn' = "load" /\ todo' = todo /\ nextId <= MaxSessions
      /\ sessions' = IF first = NHosts THEN sessions
                     ELSE [x \in Live \cup {nextId} |-> IF x = nextId THEN new ELSE sessions[x]]
      /\ counters' = [counters EXCEPT !.started = @ + 1, !.refused = IF first = NHosts THEN @ + 1 ELSE @]
      /\ nextId' = nextId + 1 /\ rr' = (rr + 1) % NHosts
      /\ UNCHANGED <<host, stock, ledger, ledgerSlots>>
  BY DEF StartSession
<1>3. nextId \in Ids /\ nextId' \in 1..(MaxSessions + 1) /\ nextId \notin Live /\ \A x \in Live : x < nextId'
  <2>1. nextId \in 1..(MaxSessions + 1) /\ MaxSessions \in Nat
    BY <1>1, Ages DEF Frame
  <2>2. Live \subseteq Ids /\ \A x \in Live : x < nextId
    BY <1>1 DEF Ledgers, SessionsTyped, Live, Rest, NumbersOK
  <2> QED
    BY <1>2, <2>1, <2>2 DEF Ids
<1>4. rr \in Hosts /\ rr' \in Hosts
  <2>1. OrderAt(rr, 1) \in Hosts /\ rr \in Hosts
    BY <1>1, OrderIsHost DEF Frame
  <2> QED
    BY <1>2, <2>1 DEF OrderAt
<1>5. first \in 0..NHosts /\ first \in Nat
  BY <1>4, NextTryIsTried
<1> HIDE DEF first
<1>6. /\ new \in SessionType /\ Holding(new) /\ new.phase = "out" /\ new.stockSlot = None
  <2>1. OrderAt(rr, first) \in Hosts /\ Travel \in Nat
    BY <1>4, <1>5, OrderIsHost, SizesAssumption
  <2>2. new = [phase |-> "out", start |-> rr, next |-> first, host |-> OrderAt(rr, first), ledgerHost |-> None,
               stockSlot |-> None, ledgerSlot |-> None, left |-> Travel]
    BY DEF NewSession
  <2> HIDE DEF new
  <2> QED
    BY <1>4, <1>5, <2>1, <2>2 DEF SessionType, Phases, Holding
<1> HIDE DEF new
<1>7. IsFiniteSet(Live) /\ Cardinality(Live) \in Nat
  <2>1. Live \subseteq Ids
    BY <1>1 DEF Ledgers, SessionsTyped, Live
  <2> QED
    BY <2>1, SomeHost, FS_Subset, FS_CardinalityType
<1>8. Frame' /\ SeatStays
  BY <1>1, <1>2, <1>3, <1>4, SameFrame DEF Frame, Turns
<1>9. CASE first = NHosts
  <2>1. sessions' = sessions /\ counters' = [counters EXCEPT !.started = @ + 1, !.refused = @ + 1]
    BY <1>1, <1>2, <1>9 DEF Ledgers
  <2>2. Ledgers'
    <3>1. /\ SessionsTyped' /\ \A x \in Live' : Holding(sessions'[x])
          /\ SlotsOwned'
      <4>1. sessions' = sessions /\ stock' = stock /\ ledgerSlots' = ledgerSlots
        BY <1>2, <2>1
      <4>2. SessionsTyped' /\ \A x \in Live' : Holding(sessions'[x])
        BY <1>1, <4>1 DEF Ledgers, SessionsTyped, Live
      <4>3. SlotsOwned'
        BY <1>1, <4>1 DEF Ledgers, Live, SlotsOwned, StockSlotsOwned, LedgerSlotsOwned, Serving
      <4> QED
        BY <4>2, <4>3
    <3>2. PICK m : m = Cardinality(Live)
      OBVIOUS
    <3>3. /\ counters.started = counters.completed + counters.cancelled + counters.refused + m
          /\ counters \in [started : Nat, completed : Nat, cancelled : Nat, refused : Nat]
      BY <1>1, <3>2 DEF Ledgers, Conservation
    <3>4. /\ counters'.started = counters'.completed + counters'.cancelled + counters'.refused + m
          /\ counters' \in [started : Nat, completed : Nat, cancelled : Nat, refused : Nat]
      <4>1. /\ counters'.started = counters.started + 1 /\ counters'.completed = counters.completed
            /\ counters'.cancelled = counters.cancelled /\ counters'.refused = counters.refused + 1
            /\ counters' \in [started : Nat, completed : Nat, cancelled : Nat, refused : Nat]
        <5>1. PICK p, q : p = counters.started + 1 /\ q = counters.refused + 1
          OBVIOUS
        <5>2. p \in Nat /\ q \in Nat
          BY <3>3, <5>1
        <5>3. counters' = [counters EXCEPT !.started = p, !.refused = q]
          BY <2>1, <3>3, <5>1
        <5> QED
          BY <3>3, <5>1, <5>2, <5>3
      <4> QED
        BY <1>7, <3>2, <3>3, <4>1
    <3>5. Cardinality(Live') = m
      BY <2>1, <3>2 DEF Live
    <3> QED
      BY <1>1, <1>2, <3>1, <3>4, <3>5 DEF Ledgers, Conservation
  <2>3. Rest'
    BY <1>1, <1>2, <1>3, <2>1 DEF Rest, NumbersOK, ServedByLiveHosts, Live, Serving, Tryable
  <2> QED
    BY <1>2, <1>8, <2>2, <2>3, PartsAfter DEF LedgerSlotsKept
<1>10. CASE first # NHosts
  <2>1. /\ Live' = Live \cup {nextId} /\ sessions'[nextId] = new
        /\ \A x \in Live : sessions'[x] = sessions[x]
        /\ counters' = [counters EXCEPT !.started = @ + 1]
    BY <1>1, <1>2, <1>3, <1>10 DEF Live, Ledgers
  <2>2. \A x \in Ids : Serving(x)' <=> Serving(x)
    BY <1>3, <1>6, <2>1 DEF Serving
  <2>3. Conservation' /\ counters' \in [started : Nat, completed : Nat, cancelled : Nat, refused : Nat]
    <3> DEFINE m == Cardinality(Live)
    <3>1. Cardinality(Live') = m + 1
      BY <1>3, <1>7, <2>1, FS_AddElement
    <3>2. m \in Nat
      BY <1>7
    <3>3. counters.started = counters.completed + counters.cancelled + counters.refused + m
      BY <1>1 DEF Ledgers, Conservation
    <3> HIDE DEF m
    <3>4. counters'.started = counters'.completed + counters'.cancelled + counters'.refused + (m + 1)
          /\ counters' \in [started : Nat, completed : Nat, cancelled : Nat, refused : Nat]
      BY <1>1, <2>1, <3>2, <3>3 DEF Ledgers
    <3> QED
      BY <3>1, <3>4 DEF Conservation
  <2>4. SlotsOwned'
    <3>1. StockSlotsOwned'
      BY <1>1, <1>2, <1>3, <1>6, <2>1, <2>2 DEF Ledgers, SlotsOwned, StockSlotsOwned, Serving
    <3>2. LedgerSlotsOwned'
      BY <1>1, <1>2, <1>3, <1>6, <2>1, <2>2 DEF Ledgers, SlotsOwned, LedgerSlotsOwned, Serving
    <3> QED
      BY <3>1, <3>2 DEF SlotsOwned
  <2>5. SessionsTyped' /\ \A x \in Live' : Holding(sessions'[x])
    BY <1>1, <1>3, <1>6, <2>1 DEF Ledgers, SessionsTyped, Live
  <2>6. Ledgers'
    BY <1>1, <1>2, <2>3, <2>4, <2>5 DEF Ledgers
  <2>7. Rest'
    <3>1. NumbersOK'
      BY <1>1, <1>2, <1>3, <2>1 DEF Rest, NumbersOK, Frame, Ids
    <3>2. ServedByLiveHosts'
      BY <1>1, <1>2, <1>6, <2>1 DEF Rest, ServedByLiveHosts, Serving, Tryable
    <3> QED
      BY <3>1, <3>2 DEF Rest
  <2> QED
    BY <1>2, <1>8, <2>6, <2>7, PartsAfter DEF LedgerSlotsKept
<1> QED
  BY <1>9, <1>10

-------------------------------------------------------------------------------
(* A session advances.                                                     *)

\* The session x may leave, the others stay and are served as before.
Advanced(x) ==
  /\ Ledgers' /\ ServedByLiveHosts' /\ LedgerSlotsKept
  /\ Live' \subseteq Live /\ Live \ {x} \subseteq Live'

\* A session that is not served leaves: the counters have it.
LEMMA Leaves ==
  ASSUME Ledgers, Rest, NEW x \in Live, sessions[x].phase # "serve", sessions' = Without({x}),
         UNCHANGED <<host, stock, ledgerSlots>>,
         \/ counters' = [counters EXCEPT !.refused = @ + 1]
         \/ counters' = [counters EXCEPT !.completed = @ + 1]
  PROVE  Advanced(x)
<1>1. Live' = Live \ {x} /\ \A y \in Live' : sessions'[y] = sessions[y]
  BY DEF Without, Live
<1>2. \A y \in Ids : Serving(y)' <=> Serving(y)
  BY <1>1 DEF Serving
<1>3. SessionsTyped' /\ \A y \in Live' : Holding(sessions'[y])
  BY <1>1 DEF Ledgers, SessionsTyped, Live
<1>4. StockSlotsOwned'
  <2> SUFFICES ASSUME NEW h \in Hosts, NEW k \in StockSlots, NEW y \in Ids
               PROVE  stock'[h][k] = y <=> Serving(y)' /\ sessions'[y].host = h /\ sessions'[y].stockSlot = k
    BY DEF StockSlotsOwned
  <2>1. stock[h][k] = y <=> Serving(y) /\ sessions[y].host = h /\ sessions[y].stockSlot = k
    BY DEF Ledgers, SlotsOwned, StockSlotsOwned
  <2> QED
    BY <1>1, <2>1 DEF Serving
<1>5. LedgerSlotsOwned'
  <2> SUFFICES ASSUME NEW k \in LedgerSlots, ledgerSlots'[k] # None
               PROVE  /\ ledgerSlots'[k] \in Live' /\ sessions'[ledgerSlots'[k]].phase = "serve"
                      /\ sessions'[ledgerSlots'[k]].ledgerSlot = k
    BY DEF LedgerSlotsOwned, Serving
  <2>1. Serving(ledgerSlots[k]) /\ sessions[ledgerSlots[k]].ledgerSlot = k /\ ledgerSlots'[k] = ledgerSlots[k]
    BY DEF Ledgers, SlotsOwned, LedgerSlotsOwned
  <2> QED
    BY <1>1, <2>1 DEF Serving
<1>6. Conservation' /\ counters' \in [started : Nat, completed : Nat, cancelled : Nat, refused : Nat]
  <2>1. PICK m, n : m = Cardinality(Live) /\ n = Cardinality(Live')
    OBVIOUS
  <2>2. m \in Nat /\ n \in Nat /\ m = n + 1
    <3>1. Live \subseteq Ids
      BY DEF Ledgers, SessionsTyped, Live
    <3>2. IsFiniteSet(Live)
      BY <3>1, SomeHost, FS_Subset
    <3>3. /\ Cardinality(Live \ {x}) = Cardinality(Live) - 1 /\ Cardinality(Live) \in Nat
          /\ IsFiniteSet(Live \ {x})
      BY <3>2, FS_RemoveElement, FS_CardinalityType
    <3>4. Cardinality(Live \ {x}) \in Nat
      BY <3>3, FS_CardinalityType
    <3>5. n = Cardinality(Live \ {x})
      BY <1>1, <2>1
    <3> QED
      BY <2>1, <3>3, <3>4, <3>5
  <2>3. /\ counters.started = counters.completed + counters.cancelled + counters.refused + m
        /\ counters \in [started : Nat, completed : Nat, cancelled : Nat, refused : Nat]
    BY <2>1 DEF Ledgers, Conservation
  <2>4. /\ counters'.started = counters'.completed + counters'.cancelled + counters'.refused + n
        /\ counters' \in [started : Nat, completed : Nat, cancelled : Nat, refused : Nat]
    <3>1. CASE counters' = [counters EXCEPT !.refused = @ + 1]
      BY <2>2, <2>3, <3>1
    <3>2. CASE counters' = [counters EXCEPT !.completed = @ + 1]
      BY <2>2, <2>3, <3>2
    <3> QED
      BY <3>1, <3>2
  <2> QED
    BY <2>1, <2>4 DEF Conservation
<1>7. Ledgers'
  BY <1>3, <1>4, <1>5, <1>6 DEF Ledgers, SlotsOwned
<1>8. ServedByLiveHosts'
  BY <1>1 DEF Rest, ServedByLiveHosts, Serving, Tryable
<1> QED
  BY <1>1, <1>7, <1>8 DEF Advanced, LedgerSlotsKept

\* A session moves on, and holds what it held.
LEMMA Moves ==
  ASSUME Ledgers, Rest, NEW x \in Live, NEW s \in SessionType,
         Live' = Live, sessions'[x] = s, \A y \in Live \ {x} : sessions'[y] = sessions[y],
         s.phase = sessions[x].phase, s.stockSlot = sessions[x].stockSlot, s.ledgerSlot = sessions[x].ledgerSlot,
         s.ledgerHost = sessions[x].ledgerHost, s.phase = "serve" => s.host = sessions[x].host,
         UNCHANGED <<host, stock, ledgerSlots, counters>>
  PROVE  Advanced(x)
<1>1. Live' = Live /\ sessions'[x] = s /\ \A y \in Live \ {x} : sessions'[y] = sessions[y]
  OBVIOUS
<1>2. \A y \in Live : /\ Serving(y)' <=> Serving(y)
                      /\ sessions'[y].stockSlot = sessions[y].stockSlot
                      /\ sessions'[y].ledgerSlot = sessions[y].ledgerSlot
                      /\ sessions'[y].ledgerHost = sessions[y].ledgerHost
                      /\ sessions'[y].phase = sessions[y].phase
                      /\ Serving(y) => sessions'[y].host = sessions[y].host
  BY <1>1 DEF Serving
<1>3. \A y \in Live : sessions[y] \in SessionType /\ Holding(sessions[y])
  BY DEF Ledgers, SessionsTyped, Live
<1>4. SessionsTyped' /\ \A y \in Live' : Holding(sessions'[y])
  <2>1. \A y \in Live : Holding(sessions'[y])
    BY <1>2, <1>3 DEF Holding
  <2> QED
    BY <1>1, <1>3, <2>1 DEF Ledgers, SessionsTyped, Live
<1>5. StockSlotsOwned'
  <2>1. \A y : Serving(y)' <=> Serving(y)
    BY <1>1, <1>2 DEF Serving
  <2> QED
    BY <1>1, <1>2, <2>1 DEF Ledgers, SlotsOwned, StockSlotsOwned, Serving
<1>6. LedgerSlotsOwned'
  BY <1>1, <1>2 DEF Ledgers, SlotsOwned, LedgerSlotsOwned, Serving
<1>7. Ledgers'
  BY <1>1, <1>4, <1>5, <1>6 DEF Ledgers, SlotsOwned, Conservation
<1>8. ServedByLiveHosts'
  BY <1>1, <1>2 DEF Rest, ServedByLiveHosts, Serving, Tryable
<1> QED
  BY <1>1, <1>7, <1>8 DEF Advanced, LedgerSlotsKept

\* arrive(), and there is no slot: the session tries another host or is refused.
LEMMA BouncesAdvances ==
  ASSUME Ledgers, Rest, NEW x \in Live, sessions[x].phase = "out", Bounces(x), UNCHANGED host
  PROVE  Advanced(x)
<1> DEFINE next == NextTry(sessions[x].start, sessions[x].next + 1)
           s == [sessions[x] EXCEPT !.next = next, !.left = Bounce, !.host = OrderAt(sessions[x].start, next)]
<1>1. sessions[x] \in SessionType
  BY DEF Ledgers, SessionsTyped, Live
<1>2. sessions[x].start \in Hosts /\ sessions[x].next + 1 \in Nat
  BY <1>1, SomeHost DEF SessionType
<1>3. next \in 0..NHosts /\ next \in Nat
  BY <1>2, NextTryIsTried
<1>4. UNCHANGED <<stock, ledgerSlots>>
  BY DEF Bounces
<1>5. CASE next = NHosts
  <2>1. sessions' = Without({x}) /\ counters' = [counters EXCEPT !.refused = @ + 1]
    BY <1>5 DEF Bounces, Refuse
  <2>2. sessions[x].phase # "serve"
    OBVIOUS
  <2> HIDE DEF next, s
  <2> QED
    BY <1>4, <2>1, <2>2, Leaves
<1>6. CASE next # NHosts
  <2>1. sessions' = [sessions EXCEPT ![x] = s] /\ counters' = counters
    BY <1>6 DEF Bounces
  <2>2. OrderAt(sessions[x].start, next) \in Hosts /\ Bounce \in Nat
    BY <1>2, <1>3, OrderIsHost, SizesAssumption
  <2>3. PICK h : h = OrderAt(sessions[x].start, next)
    OBVIOUS
  <2>4. PICK n : n = next
    OBVIOUS
  <2>5. s = [sessions[x] EXCEPT !.next = n, !.left = Bounce, !.host = h]
    BY <2>3, <2>4
  <2>6. n \in 0..NHosts /\ h \in Hosts
    BY <1>3, <2>2, <2>3, <2>4
  <2> HIDE DEF s, next
  <2>7. Live' = Live /\ sessions'[x] = s /\ \A y \in Live \ {x} : sessions'[y] = sessions[y]
    BY <2>1 DEF Live
  <2>8. /\ s \in SessionType /\ s.phase = sessions[x].phase /\ s.stockSlot = sessions[x].stockSlot
        /\ s.ledgerSlot = sessions[x].ledgerSlot /\ s.ledgerHost = sessions[x].ledgerHost
    BY <1>1, <2>2, <2>5, <2>6 DEF SessionType
  <2> QED
    BY <1>4, <2>1, <2>7, <2>8, Moves
<1> QED
  BY <1>5, <1>6

\* The session gives way only to its own slots: done() at the end of its time.
LEMMA EndsAdvances ==
  ASSUME Frame, Ledgers, Rest, NEW x \in Live, Ends(x), UNCHANGED host
  PROVE  Advanced(x)
<1> DEFINE s == [sessions[x] EXCEPT !.stockSlot = None, !.ledgerSlot = None, !.phase = "back", !.left = Travel]
<1>1. /\ sessions[x].phase = "serve" /\ stock' = StockWithout({x}) /\ ledgerSlots' = LedgerWithout({x})
      /\ sessions' = [sessions EXCEPT ![x] = s] /\ counters' = counters
  BY DEF Ends
<1>2. \A y \in Live : sessions[y] \in SessionType /\ Holding(sessions[y])
  BY DEF Ledgers, SessionsTyped, Live
<1>3. s \in SessionType /\ s.phase = "back" /\ s.stockSlot = None /\ s.ledgerSlot = None
  <2>1. Travel \in Nat /\ "back" \in Phases
    BY SizesAssumption DEF Phases
  <2> QED
    BY <1>2, <2>1 DEF SessionType
<1> HIDE DEF s
<1>4. Live' = Live /\ sessions'[x] = s /\ \A y \in Live \ {x} : sessions'[y] = sessions[y]
  BY <1>1 DEF Live
<1>5. \A y : Serving(y)' <=> Serving(y) /\ y # x
  BY <1>3, <1>4 DEF Serving
<1>6. SessionsTyped' /\ \A y \in Live' : Holding(sessions'[y])
  <2>1. Holding(s)
    BY <1>3 DEF Holding
  <2> QED
    BY <1>2, <1>3, <1>4, <2>1 DEF Ledgers, SessionsTyped, Live
<1>7. stock' \in [Hosts -> [StockSlots -> Ids \cup {None}]]
  BY <1>1 DEF StockWithout, Ledgers
<1>8. ledgerSlots' \in [LedgerSlots -> Ids \cup {None}]
  BY <1>1 DEF LedgerWithout, Ledgers
<1>9. x \in Ids
  BY DEF Ledgers, SessionsTyped, Live
<1>10. StockSlotsOwned'
  <2> SUFFICES ASSUME NEW h \in Hosts, NEW k \in StockSlots, NEW y \in Ids
               PROVE  stock'[h][k] = y <=> Serving(y)' /\ sessions'[y].host = h /\ sessions'[y].stockSlot = k
    BY DEF StockSlotsOwned
  <2>1. \A z \in Ids : stock[h][k] = z <=> Serving(z) /\ sessions[z].host = h /\ sessions[z].stockSlot = k
    BY DEF Ledgers, SlotsOwned, StockSlotsOwned
  <2>2. stock'[h][k] = IF sessions[x].host = h /\ sessions[x].stockSlot = k /\ stock[h][k] = x
                       THEN None ELSE stock[h][k]
    BY <1>1 DEF StockWithout
  <2>3. stock'[h][k] = y <=> stock[h][k] = y /\ y # x
    BY <1>9, <2>1, <2>2, NoneIsNobody
  <2>4. Serving(y)' /\ sessions'[y].host = h /\ sessions'[y].stockSlot = k
          <=> y # x /\ Serving(y) /\ sessions[y].host = h /\ sessions[y].stockSlot = k
    BY <1>4, <1>5 DEF Serving
  <2> QED
    BY <2>1, <2>3, <2>4
<1>11. \A k \in LedgerSlots : /\ ledgerSlots'[k] # None => ledgerSlots'[k] = ledgerSlots[k] /\ ledgerSlots[k] # x
                              /\ ledgerSlots[k] # x => ledgerSlots'[k] = ledgerSlots[k]
  <2> SUFFICES ASSUME NEW k \in LedgerSlots
               PROVE  /\ ledgerSlots'[k] # None => ledgerSlots'[k] = ledgerSlots[k] /\ ledgerSlots[k] # x
                      /\ ledgerSlots[k] # x => ledgerSlots'[k] = ledgerSlots[k]
    OBVIOUS
  <2>1. ledgerSlots'[k] = IF sessions[x].ledgerSlot = k /\ ledgerSlots[k] = x THEN None ELSE ledgerSlots[k]
    BY <1>1 DEF LedgerWithout
  <2>2. ledgerSlots[k] # None => sessions[ledgerSlots[k]].ledgerSlot = k
    BY DEF Ledgers, SlotsOwned, LedgerSlotsOwned
  <2>3. x # None
    BY <1>9, NoneIsNobody
  <2> QED
    BY <2>1, <2>2, <2>3
<1>12. LedgerSlotsOwned'
  <2> SUFFICES ASSUME NEW k \in LedgerSlots, ledgerSlots'[k] # None
               PROVE  /\ ledgerSlots'[k] \in Live' /\ sessions'[ledgerSlots'[k]].phase = "serve"
                      /\ sessions'[ledgerSlots'[k]].ledgerSlot = k
    BY DEF LedgerSlotsOwned, Serving
  <2>1. ledgerSlots'[k] = ledgerSlots[k] /\ ledgerSlots[k] # x
    BY <1>11
  <2>2. Serving(ledgerSlots[k]) /\ sessions[ledgerSlots[k]].ledgerSlot = k
    BY <2>1 DEF Ledgers, SlotsOwned, LedgerSlotsOwned
  <2>3. ledgerSlots[k] \in Live' /\ sessions'[ledgerSlots[k]] = sessions[ledgerSlots[k]]
    BY <1>4, <2>1, <2>2 DEF Serving
  <2> QED
    BY <2>1, <2>2, <2>3 DEF Serving
<1>13. Ledgers'
  BY <1>1, <1>4, <1>6, <1>7, <1>8, <1>10, <1>12 DEF Ledgers, SlotsOwned, Conservation
<1>14. ServedByLiveHosts'
  BY <1>3, <1>4 DEF Rest, ServedByLiveHosts, Serving, Tryable
<1>15. LedgerSlotsKept
  BY <1>3, <1>4, <1>11 DEF LedgerSlotsKept, Serving
<1> QED
  BY <1>4, <1>13, <1>14, <1>15 DEF Advanced

\* The lowest of some indices is one of them.
LEMMA LowestIsOne ==
  ASSUME NEW n \in Nat, NEW S, S \subseteq 1..n, S # {}
  PROVE  Min(S) \in S
<1>1. IsFiniteSet(1..n)
  BY FS_Interval
<1>2. IsFiniteSet(S) /\ S \subseteq Int
  <2>1. IsFiniteSet(S)
    BY <1>1, FS_Subset
  <2> QED
    BY <2>1
<1>3. \E x \in S : \A y \in S : x <= y
  BY <1>2, Least
<1> QED
  BY <1>3 DEF Min

\* arrive() where there is room: the session takes a free slot on the Stock and
\* one at the Ledger, and nobody else's.
LEMMA StartsAdvances ==
  ASSUME Frame, Ledgers, Rest, NEW x \in Live, sessions[x].phase = "out", Starts(x), UNCHANGED host
  PROVE  Advanced(x)
<1> DEFINE h == sessions[x].host
           a == Min(FreeSlots(stock[h]))
           b == Min(FreeSlots(ledgerSlots))
<1>1. Answering(h) /\ FreeSlots(stock[h]) # {}
  BY DEF Starts
<1>2. \A y \in Live : sessions[y] \in SessionType /\ Holding(sessions[y])
  BY DEF Ledgers, SessionsTyped, Live
<1>3. h \in Hosts /\ x \in Ids
  BY <1>2 DEF SessionType, Ledgers, SessionsTyped, Live
<1>4. CASE ~LedgerReady
  <2>1. sessions' = Without({x}) /\ counters' = [counters EXCEPT !.refused = @ + 1]
        /\ UNCHANGED <<stock, ledgerSlots>>
    BY <1>4 DEF Starts, Refuse
  <2>2. sessions[x].phase # "serve"
    OBVIOUS
  <2> HIDE DEF h, a, b
  <2> QED
    BY <2>1, <2>2, Leaves
<1>5. CASE LedgerReady
  <2>1. PICK length \in Lengths :
          sessions' = [sessions EXCEPT ![x] = [@ EXCEPT !.stockSlot = a, !.ledgerSlot = b, !.ledgerHost = ledger.host,
                                                        !.phase = "serve", !.left = length]]
    BY <1>5 DEF Starts
  <2>2. /\ stock' = [stock EXCEPT ![h][a] = x] /\ ledgerSlots' = [ledgerSlots EXCEPT ![b] = x]
        /\ counters' = counters
    BY <1>5 DEF Starts
  <2>3. a \in StockSlots /\ stock[h][a] = None
    <3> DEFINE S == FreeSlots(stock[h])
    <3>1. S # {} /\ S \subseteq 1..StockCapacity /\ \A k \in S : stock[h][k] = None
      BY <1>1, <1>3 DEF FreeSlots, Ledgers, StockSlots
    <3>2. StockCapacity \in Nat
      BY SizesAssumption
    <3> HIDE DEF S, h
    <3>3. Min(S) \in S
      BY <3>1, <3>2, LowestIsOne
    <3> QED
      BY <3>1, <3>3 DEF S, StockSlots
  <2>4. b \in LedgerSlots /\ ledgerSlots[b] = None
    <3> DEFINE S == FreeSlots(ledgerSlots)
    <3>1. S # {} /\ S \subseteq 1..LedgerCapacity /\ \A k \in S : ledgerSlots[k] = None
      BY <1>5 DEF FreeSlots, Ledgers, LedgerSlots, LedgerReady
    <3>2. LedgerCapacity \in Nat
      BY SizesAssumption
    <3> HIDE DEF S
    <3>3. Min(S) \in S
      BY <3>1, <3>2, LowestIsOne
    <3> QED
      BY <3>1, <3>3 DEF S, LedgerSlots
  <2>5. ledger.host \in Books /\ Answering(ledger.host)
    BY <1>5 DEF LedgerReady, Frame
  <2> DEFINE s == [sessions[x] EXCEPT !.stockSlot = a, !.ledgerSlot = b, !.ledgerHost = ledger.host,
                                      !.phase = "serve", !.left = length]
  <2>6. sessions' = [sessions EXCEPT ![x] = s]
    BY <2>1
  <2> HIDE DEF a, b
  <2>7. /\ s \in SessionType /\ s.phase = "serve" /\ s.host = h /\ s.stockSlot = a /\ s.ledgerSlot = b
        /\ s.ledgerHost = ledger.host
    <3>1. length \in Nat /\ "serve" \in Phases
      BY SizesAssumption DEF Phases
    <3> QED
      BY <1>2, <2>3, <2>4, <2>5, <3>1 DEF SessionType
  <2> HIDE DEF s, h
  <2>8. Live' = Live /\ sessions'[x] = s /\ \A y \in Live \ {x} : sessions'[y] = sessions[y]
    BY <2>6 DEF Live
  <2>9. \A y : Serving(y)' <=> Serving(y) \/ y = x
    BY <2>7, <2>8 DEF Serving
  <2>10. ~Serving(x)
    BY DEF Serving
  <2>11. SessionsTyped' /\ \A y \in Live' : Holding(sessions'[y])
    <3>1. Holding(s)
      BY <2>3, <2>4, <2>5, <2>7, NoneIsNobody DEF Holding
    <3> QED
      BY <1>2, <2>7, <2>8, <3>1 DEF Ledgers, SessionsTyped, Live
  <2>12. /\ stock' \in [Hosts -> [StockSlots -> Ids \cup {None}]]
         /\ \A g \in Hosts, k \in StockSlots : stock'[g][k] = IF g = h /\ k = a THEN x ELSE stock[g][k]
    BY <1>3, <2>2, <2>3 DEF Ledgers
  <2>13. /\ ledgerSlots' \in [LedgerSlots -> Ids \cup {None}]
         /\ \A k \in LedgerSlots : ledgerSlots'[k] = IF k = b THEN x ELSE ledgerSlots[k]
    BY <1>3, <2>2, <2>4 DEF Ledgers
  <2>14. StockSlotsOwned'
    <3> SUFFICES ASSUME NEW g \in Hosts, NEW k \in StockSlots, NEW y \in Ids
                 PROVE  stock'[g][k] = y <=> Serving(y)' /\ sessions'[y].host = g /\ sessions'[y].stockSlot = k
      BY DEF StockSlotsOwned
    <3>1. stock[g][k] = y <=> Serving(y) /\ sessions[y].host = g /\ sessions[y].stockSlot = k
      BY DEF Ledgers, SlotsOwned, StockSlotsOwned
    <3>2. CASE y = x
      BY <2>3, <2>7, <2>8, <2>9, <2>10, <2>12, <3>1, <3>2
    <3>3. CASE y # x
      <4>1. Serving(y) => sessions'[y] = sessions[y]
        BY <2>8, <3>3 DEF Serving
      <4> QED
        BY <2>3, <2>9, <2>12, <3>1, <3>3, <4>1, NoneIsNobody
    <3> QED
      BY <3>2, <3>3
  <2>15. LedgerSlotsOwned'
    <3> SUFFICES ASSUME NEW k \in LedgerSlots, ledgerSlots'[k] # None
                 PROVE  /\ ledgerSlots'[k] \in Live' /\ sessions'[ledgerSlots'[k]].phase = "serve"
                        /\ sessions'[ledgerSlots'[k]].ledgerSlot = k
      BY DEF LedgerSlotsOwned, Serving
    <3>1. CASE k = b
      BY <2>7, <2>8, <2>13, <3>1
    <3>2. CASE k # b
      <4>1. ledgerSlots'[k] = ledgerSlots[k] /\ Serving(ledgerSlots[k]) /\ sessions[ledgerSlots[k]].ledgerSlot = k
        BY <2>13, <3>2 DEF Ledgers, SlotsOwned, LedgerSlotsOwned
      <4> QED
        BY <2>8, <2>10, <4>1 DEF Serving
    <3> QED
      BY <3>1, <3>2
  <2>16. Ledgers'
    BY <2>2, <2>8, <2>11, <2>12, <2>13, <2>14, <2>15 DEF Ledgers, SlotsOwned, Conservation
  <2>17. ServedByLiveHosts'
    <3>1. Tryable(h) /\ Tryable(ledger.host)
      BY <1>1, <2>5 DEF Answering, Tryable, h
    <3> QED
      BY <2>7, <2>8, <3>1 DEF Rest, ServedByLiveHosts, Serving, Tryable
  <2>18. LedgerSlotsKept
    <3>1. \A k \in LedgerSlots, y \in Live : ledgerSlots[k] = y => ledgerSlots'[k] = y
      <4>1. \A y \in Live : y # None
        BY NoneIsNobody DEF Ledgers, SessionsTyped, Live
      <4> QED
        BY <2>4, <2>13, <4>1
    <3> QED
      BY <3>1 DEF LedgerSlotsKept
  <2> QED
    BY <2>8, <2>16, <2>17, <2>18 DEF Advanced
<1> QED
  BY <1>4, <1>5

\* One turn of the loop over the sessions.
LEMMA AdvanceAdvances ==
  ASSUME Frame, Ledgers, Rest, NEW x \in Live, Advance(x), UNCHANGED host
  PROVE  Advanced(x)
<1>1. sessions[x] \in SessionType
  BY DEF Ledgers, SessionsTyped, Live
<1>2. CASE UNCHANGED <<sessions, counters, stock, ledgerSlots>>
  BY <1>1, <1>2, Moves DEF Live
<1>3. CASE /\ sessions[x].left > 1 /\ sessions' = [sessions EXCEPT ![x].left = @ - 1]
           /\ UNCHANGED <<counters, stock, ledgerSlots>>
  <2>1. PICK l : l = sessions[x].left - 1
    OBVIOUS
  <2>2. PICK s : s = [sessions[x] EXCEPT !.left = l]
    OBVIOUS
  <2>3. l \in Nat
    BY <1>1, <1>3, <2>1 DEF SessionType
  <2>4. /\ s \in SessionType /\ s.phase = sessions[x].phase /\ s.stockSlot = sessions[x].stockSlot
        /\ s.ledgerSlot = sessions[x].ledgerSlot /\ s.ledgerHost = sessions[x].ledgerHost
        /\ s.host = sessions[x].host
    BY <1>1, <2>2, <2>3 DEF SessionType
  <2>5. sessions' = [sessions EXCEPT ![x] = s]
    BY <1>1, <1>3, <2>1, <2>2
  <2>6. Live' = Live /\ sessions'[x] = s /\ \A y \in Live \ {x} : sessions'[y] = sessions[y]
    BY <2>5 DEF Live
  <2> QED
    BY <1>3, <2>4, <2>6, Moves
<1>4. CASE sessions[x].phase = "out" /\ (Bounces(x) \/ Starts(x))
  BY <1>4, BouncesAdvances, StartsAdvances
<1>5. CASE Ends(x)
  BY <1>5, EndsAdvances
<1>6. CASE Completes(x)
  <2>1. /\ sessions[x].phase # "serve" /\ sessions' = Without({x})
        /\ counters' = [counters EXCEPT !.completed = @ + 1] /\ UNCHANGED <<stock, ledgerSlots>>
    BY <1>6 DEF Completes
  <2> QED
    BY <2>1, Leaves
<1> QED
  BY <1>2, <1>3, <1>4, <1>5, <1>6 DEF Advance

\* A session, in its turn, keeps the invariant and takes no slot but its own.
LEMMA StepSessionKeeps ==
  ASSUME IInv, StepSession
  PROVE  IInv' /\ LedgerSlotsKept /\ SeatStays
<1> DEFINE x == Min(todo)
<1>1. Frame /\ Ledgers /\ Rest
  BY Parts
<1>2. /\ turn = "sessions" /\ turn' = "sessions" /\ todo # {} /\ Advance(x) /\ todo' = todo \ {x}
      /\ host' = host /\ ledger' = ledger /\ nextId' = nextId /\ rr' = rr
  BY DEF StepSession
<1>3. x \in todo
  <2>1. todo \subseteq 1..MaxSessions /\ MaxSessions \in Nat
    BY <1>1, Ages DEF Frame, Ids
  <2> QED
    BY <1>2, <2>1, LowestIsOne
<1>4. todo \subseteq Live
  BY <1>1, <1>2 DEF Rest, NumbersOK
<1> HIDE DEF x
<1>5. Advanced(x)
  BY <1>1, <1>2, <1>3, <1>4, AdvanceAdvances
<1>6. Frame' /\ SeatStays
  <2>1. turn' \in Turns \ {"hosts"} /\ turn # "hosts" /\ todo' \subseteq Ids
        /\ nextId' \in 1..(MaxSessions + 1) /\ rr' \in Hosts
    BY <1>1, <1>2 DEF Frame, Turns
  <2> QED
    BY <1>1, <1>2, <2>1, SameFrame
<1>7. Rest'
  BY <1>1, <1>2, <1>4, <1>5 DEF Rest, NumbersOK, Advanced
<1> QED
  BY <1>5, <1>6, <1>7, PartsAfter DEF Advanced

-------------------------------------------------------------------------------
(* The theorems.                                                           *)

\* A cluster begins with all hosts up, no session, the Ledger in its seat.
LEMMA InitHolds == Init => IInv
<1> SUFFICES ASSUME Init PROVE IInv
  OBVIOUS
<1> DEFINE up == [status |-> "up", silent |-> FALSE, age |-> 0, upAge |-> SettleS, incarnation |-> 1]
           best == Max(Books)
<1>1. best \in Books /\ Books \subseteq Hosts
  <2>1. Books \subseteq Hosts /\ Books # {}
    BY HostsAssumption
  <2>2. IsFiniteSet(Books)
    BY <2>1, SomeHost, FS_Subset
  <2>3. Books \subseteq Int
    BY <2>1, SomeHost
  <2>4. \E x \in Books : \A y \in Books : x >= y
    BY <2>1, <2>2, <2>3, Greatest
  <2> QED
    BY <2>1, <2>4 DEF Max
<1>2. host = [h \in Hosts |-> up] /\ ledger = [host |-> best, moveIn |-> None]
  BY DEF Init
<1>3. /\ stock = [h \in Hosts |-> Empty(StockSlots)] /\ ledgerSlots = Empty(LedgerSlots) /\ sessions = <<>>
      /\ nextId = 1 /\ rr = 0 /\ turn = "rest" /\ todo = {}
      /\ counters = [started |-> 0, completed |-> 0, cancelled |-> 0, refused |-> 0]
  BY DEF Init
<1>4. up \in HostType /\ HostOK(up) /\ up.status = "up" /\ ~up.silent
  <2>1. 0 \in 0..Oldest /\ SettleS \in 0..SettleS /\ 1 \in 1..(MaxRevives + 1) /\ 1 + 0 <= MaxRevives + 1
    BY Ages
  <2> QED
    BY <2>1 DEF HostType, Statuses, HostOK
<1> HIDE DEF up, best
<1>5. Live = {}
  BY <1>3 DEF Live
<1>6. SeatOK
  BY <1>1, <1>2, <1>4, NoneIsNobody DEF SeatOK, Tryable
<1>7. Frame
  <2>1. 1 \in 1..(MaxSessions + 1) /\ 0 \in Hosts
    BY Ages, SomeHost
  <2> QED
    BY <1>1, <1>2, <1>3, <1>4, <1>6, <2>1 DEF Frame, OnTime, Turns
<1>8. Ledgers
  <2>1. SlotsOwned
    BY <1>3, <1>5, NoneIsNobody DEF SlotsOwned, StockSlotsOwned, LedgerSlotsOwned, Serving, Empty
  <2>2. Conservation /\ counters \in [started : Nat, completed : Nat, cancelled : Nat, refused : Nat]
    BY <1>3, <1>5, FS_EmptySet DEF Conservation
  <2>3. stock \in [Hosts -> [StockSlots -> Ids \cup {None}]] /\ ledgerSlots \in [LedgerSlots -> Ids \cup {None}]
    BY <1>3 DEF Empty
  <2> QED
    BY <1>5, <2>1, <2>2, <2>3 DEF Ledgers, SessionsTyped, Live
<1>9. Rest
  BY <1>3, <1>5 DEF Rest, NumbersOK, ServedByLiveHosts
<1> QED
  BY <1>7, <1>8, <1>9, Parts

\* Every step keeps the invariant and hands the Ledger over by the rules.
LEMMA NextKeeps == IInv /\ [Next]_vars => IInv' /\ LedgerSlotsKept /\ TakeoverDrains
<1> SUFFICES ASSUME IInv, [Next]_vars PROVE IInv' /\ LedgerSlotsKept /\ TakeoverDrains
  OBVIOUS
<1>1. SeatStays => TakeoverDrains
  BY DEF SeatStays, TakeoverDrains
<1>2. CASE UNCHANGED vars
  BY <1>2 DEF vars, IInv, Placed, TypeOK, HostOK, SeatOK, Tryable, NumbersOK, Held, Holding, SlotsOwned,
              StockSlotsOwned, LedgerSlotsOwned, ServedByLiveHosts, Serving, Live, OnTime, Conservation,
              LedgerSlotsKept, TakeoverDrains
<1>3. CASE \E h \in Hosts : Crash(h) \/ Hang(h) \/ Revive(h)
  BY <1>1, <1>3, CrashKeeps, HangKeeps, ReviveKeeps
<1>4. CASE Step
  BY <1>1, <1>4, StepKeeps
<1>5. CASE StepHosts
  BY <1>1, <1>5, StepHostsKeeps
<1>6. CASE StepLedger
  BY <1>6, StepLedgerKeeps
<1>7. CASE StartSession
  BY <1>1, <1>7, StartKeeps
<1>8. CASE LoadDone \/ StepDone
  BY <1>1, <1>8, LoopKeeps
<1>9. CASE StepSession
  BY <1>1, <1>9, StepSessionKeeps
<1> QED
  BY <1>2, <1>3, <1>4, <1>5, <1>6, <1>7, <1>8, <1>9 DEF Next, StepOn

\* The invariant: whatever fails and whenever, hosts, slots, sessions and
\* counters stay in step (sim-cluster.js, kill, revive and step).
THEOREM InvariantAlways == Spec => []IInv
<1>1. IInv /\ [Next]_vars => IInv'
  BY NextKeeps
<1> QED
  BY InitHolds, <1>1, PTL DEF Spec

\* The cluster's parts are well formed, the Ledger is on a host that has not
\* been declared dead, and an empty seat waits for its day (placeLedger).
THEOREM ClusterAlwaysOK == Spec => []ClusterOK
<1>1. IInv => ClusterOK
  BY DEF IInv, Placed, SeatOK, ClusterOK, LedgerSeat
<1> QED
  BY InvariantAlways, <1>1, PTL

\* No slot leaks and none is held twice, and the page's counters account for
\* every session that ever started (release, cancelOn, arrive).
THEOREM SessionsAlwaysOK == Spec => []SessionsOK
<1>1. IInv => SessionsOK
  BY DEF IInv, Held, SessionsOK
<1> QED
  BY InvariantAlways, <1>1, PTL

\* A hung host is declared dead in time, and nobody is served by a host that is
\* gone, as Stock or as Ledger (the hosts' timers and declareDead).
THEOREM DetectorAlwaysOK == Spec => []DetectorOK
<1>1. IInv => DetectorOK
  <2> SUFFICES ASSUME IInv PROVE DetectorOK
    OBVIOUS
  <2>1. turn = "rest" => turn # "hosts"
    OBVIOUS
  <2> QED
    BY <2>1 DEF IInv, Held, OnTime, DetectorOK, HungNotForLong
<1> QED
  BY InvariantAlways, <1>1, PTL

\* A Ledger slot stays its session's until the session ends or the Ledger's host
\* dies, and a takeover cancels no session and takes no slot (release, placeLedger).
THEOREM LedgerAlwaysHandsOver == Spec => LedgerHandsOver
<1>1. IInv /\ [Next]_vars => [LedgerSlotsKept /\ TakeoverDrains]_vars
  BY NextKeeps
<1> QED
  BY InvariantAlways, <1>1, PTL DEF Spec, LedgerHandsOver
=============================================================================
