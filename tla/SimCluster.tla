------------------------------ MODULE SimCluster ------------------------------
(***************************************************************************)
(* The cluster simulation of the explainer (assets/explainer/              *)
(* sim-cluster.js): sessions that need a Stock slot on some host and a slot *)
(* on the one Ledger, hosts that crash, hang and restart, and a Ledger role *)
(* that moves between the "books" hosts.                                   *)
(*                                                                         *)
(* Time advances in whole ticks, one per call of step(); the code's        *)
(* comparisons of s.t with a stored moment are ages and countdowns here.   *)
(* One call of step() is a series of actions, in the code's order (turn):  *)
(* hosts, ledger, load, then the sessions one by one; kill() and revive()  *)
(* come between two calls.                                                 *)
(***************************************************************************)
EXTENDS Integers, FiniteSets, FiniteSetsExt

CONSTANTS NHosts, Books,          \* hosts 0..NHosts-1; those labelled books
          StockCapacity, LedgerCapacity,
          NoticeS, SuspectS, RestartS, SettleS,  \* in ticks
          Travel, Bounce,         \* TRAVEL and BOUNCE, in ticks
          Lengths,                \* possible session lengths, in ticks
          None,                   \* null
          MaxSessions,            \* bound: sessions started
          MaxRevives              \* bound: hosts brought back

Hosts       == 0..(NHosts - 1)
Ids         == 1..MaxSessions
StockSlots  == 1..StockCapacity
LedgerSlots == 1..LedgerCapacity

ASSUME HostsAssumption == /\ NHosts \in Nat \ {0}
                          /\ Books \subseteq Hosts
                          /\ Books # {}
ASSUME SizesAssumption == /\ {StockCapacity, LedgerCapacity} \subseteq Nat \ {0}
                          /\ {NoticeS, RestartS, SettleS} \subseteq Nat
                          /\ {SuspectS, Travel, Bounce} \subseteq Nat \ {0}
                          /\ Lengths \subseteq Nat \ {0}
                          /\ MaxSessions \in Nat \ {0}
                          /\ MaxRevives \in Nat
ASSUME NoneAssumption  == None \notin Nat

VARIABLES
  host,        \* status, silent, incarnation; age since it hung or began to
               \* restart, upAge since it returned: kept while they are read
  stock,       \* h.stock, per host
  ledger,      \* the holder, and the countdown to ledger.moveAt
  ledgerSlots, \* ledger.slots
  sessions,    \* s.sessions: the sessions in progress, by id
  nextId, rr,
  counters,
  turn,        \* what the running step() does next, or "rest"
  todo         \* sessions the running step() still has to advance

vars == <<host, stock, ledger, ledgerSlots, sessions, nextId, rr,
          counters, turn, todo>>

Oldest   == NoticeS + SuspectS + RestartS
Statuses == {"up", "suspect", "dead", "restarting"}
Phases   == {"out", "serve", "back"}
Turns    == {"rest", "hosts", "ledger", "load", "sessions"}

TypeOK ==
  /\ host \in [Hosts -> [status : Statuses, silent : BOOLEAN, age : 0..Oldest,
                         upAge : 0..SettleS, incarnation : 1..(MaxRevives + 1)]]
  /\ stock \in [Hosts -> [StockSlots -> Ids \cup {None}]]
  /\ ledger \in [host : Books \cup {None}, moveIn : Nat \cup {None}]
  /\ ledgerSlots \in [LedgerSlots -> Ids \cup {None}]
  /\ DOMAIN sessions \subseteq Ids
  /\ \A x \in DOMAIN sessions :
       sessions[x] \in [phase : Phases, start : Hosts, next : 0..NHosts,
                        host : Hosts, ledgerHost : Books \cup {None},
                        stockSlot : StockSlots \cup {None},
                        ledgerSlot : LedgerSlots \cup {None}, left : Nat]
  /\ nextId \in 1..(MaxSessions + 1)
  /\ rr \in Hosts
  /\ counters \in [started : Nat, completed : Nat, cancelled : Nat, refused : Nat]
  /\ turn \in Turns
  /\ todo \subseteq Ids

OrderAt(start, n) == (start + n) % NHosts \* sess.order[n]

NewSession(start, next) ==
  [phase |-> "out", start |-> start, next |-> next, host |-> OrderAt(start, next),
   ledgerHost |-> None, stockSlot |-> None, ledgerSlot |-> None, left |-> Travel]

Empty(S) == [k \in S |-> None]

\* create(): the Ledger starts on the last books host; a host that is up from
\* the start has nothing to sit out.
Init ==
  /\ host = [h \in Hosts |-> [status |-> "up", silent |-> FALSE, age |-> 0,
                              upAge |-> SettleS, incarnation |-> 1]]
  /\ stock = [h \in Hosts |-> Empty(StockSlots)]
  /\ ledger = [host |-> Max(Books), moveIn |-> None]
  /\ ledgerSlots = Empty(LedgerSlots)
  /\ sessions = <<>>
  /\ nextId = 1
  /\ rr = 0
  /\ counters = [started |-> 0, completed |-> 0, cancelled |-> 0, refused |-> 0]
  /\ turn = "rest"
  /\ todo = {}

Answering(h) == host[h].status = "up" /\ ~host[h].silent
Tryable(h)   == host[h].status \in {"up", "suspect"}

Live       == DOMAIN sessions
Serving(x) == x \in Live /\ sessions[x].phase = "serve"

\* remove()
Without(X) == [x \in Live \ X |-> sessions[x]]

-----------------------------------------------------------------------------
(* release(): slots are given back only where they are still the session's. *)

StockWithout(X) ==
  [h \in Hosts |-> [k \in StockSlots |->
     IF \E x \in X : /\ sessions[x].host = h
                     /\ sessions[x].stockSlot = k
                     /\ stock[h][k] = x
     THEN None ELSE stock[h][k]]]

\* mutant: without the check that the slot is still the session's
LedgerWithout_Unchecked(X) ==
  [k \in LedgerSlots |->
     IF \E x \in X : sessions[x].ledgerSlot = k THEN None ELSE ledgerSlots[k]]

LedgerWithout(X) ==
  [k \in LedgerSlots |->
     IF \E x \in X : sessions[x].ledgerSlot = k /\ ledgerSlots[k] = x
     THEN None ELSE ledgerSlots[k]]

\* cancelOn(): the sessions the hosts D serve, as their Stock or their Ledger.
ServedBy_StockOnly(D) == {x \in Live : Serving(x) /\ sessions[x].host \in D} \* mutant
ServedBy(D) == {x \in Live : /\ Serving(x)
                                 /\ \/ sessions[x].host \in D
                                    \/ sessions[x].ledgerHost \in D}

\* The verdict declareDead() on the hosts D, beside their new status: their
\* sessions are cancelled and the Ledger leaves them.
DeclareDead(D) ==
  LET cancelled == ServedBy(D)
  IN /\ stock' = StockWithout(cancelled)
     /\ sessions' = Without(cancelled)
     /\ counters' = [counters EXCEPT !.cancelled = @ + Cardinality(cancelled)]
     /\ ledgerSlots' = IF ledger.host \in D THEN Empty(LedgerSlots)
                                            ELSE LedgerWithout(cancelled)

Dead(h) == [h EXCEPT !.status = "dead", !.silent = FALSE, !.age = 0, !.upAge = 0]

-----------------------------------------------------------------------------
(* What the page does to the cluster between two steps. *)

\* kill(i, "crash"): the host's connections close at once.
Crash(h) ==
  /\ turn = "rest"
  /\ Answering(h)
  /\ host' = [host EXCEPT ![h] = Dead(@)]
  /\ DeclareDead({h})
  /\ ledger' = IF ledger.host = h THEN [host |-> None, moveIn |-> SuspectS]
                                  ELSE ledger
  /\ UNCHANGED <<nextId, rr, turn, todo>>

\* kill(i, "silent"): nothing closes; to everyone else the host is up.
Hang(h) ==
  /\ turn = "rest"
  /\ Answering(h)
  /\ host' = [host EXCEPT ![h].silent = TRUE, ![h].age = 0]
  /\ ledger' = IF ledger.host = h
               THEN [ledger EXCEPT !.moveIn = NoticeS + SuspectS] ELSE ledger
  /\ UNCHANGED <<stock, ledgerSlots, sessions, nextId, rr, counters,
                 turn, todo>>

\* revive(i): what the host still served is lost.
Revive_Keeps(h) == \* mutant: a hung host restarts without the verdict
  UNCHANGED <<stock, sessions, counters, ledgerSlots, ledger>>
ReviveLoses(h) ==
  IF host[h].status = "dead"
  THEN UNCHANGED <<stock, sessions, counters, ledgerSlots, ledger>>
  ELSE /\ DeclareDead({h})
       /\ ledger' = IF ledger.host = h THEN [ledger EXCEPT !.host = None] ELSE ledger

\* Hosts that came back or are about to.
Returns == Cardinality({r \in Hosts \X (1..MaxRevives) :
             r[2] < host[r[1]].incarnation + (IF host[r[1]].status = "restarting" THEN 1 ELSE 0)})

Revive(h) ==
  /\ turn = "rest"
  /\ ~Answering(h)
  /\ host[h].status # "restarting"
  /\ Returns < MaxRevives
  /\ ReviveLoses(h)
  /\ host' = [host EXCEPT ![h] = [Dead(@) EXCEPT !.status = "restarting"]]
  /\ UNCHANGED <<nextId, rr, turn, todo>>

-----------------------------------------------------------------------------
(* step(dt) *)

\* s.t += dt: what is measured from a moment in the past grows by a tick, up to
\* an age no rule tells from a greater one.
Older(h) == [h EXCEPT
  !.age   = IF (h.silent \/ h.status = "restarting") /\ @ < Oldest THEN @ + 1 ELSE @,
  !.upAge = IF h.status = "up" /\ @ < SettleS THEN @ + 1 ELSE @]

Step ==
  /\ turn = "rest"
  /\ turn' = "hosts"
  /\ host' = [h \in Hosts |-> Older(host[h])]
  /\ ledger' = [ledger EXCEPT !.moveIn = IF @ = None \/ @ = 0 THEN @ ELSE @ - 1]
  /\ UNCHANGED <<stock, ledgerSlots, sessions, nextId, rr, counters, todo>>

\* The hosts' timers: a hung host is noticed, then declared dead; a restarting
\* one comes back empty, as its next incarnation, with its settle time ahead.
Noticed(h)  == /\ h.status = "up"
               /\ h.silent
               /\ h.age >= NoticeS
Overdue_Unsuspected(h) == \* mutant: the verdict misses a host already under suspicion
  h.status = "up" /\ h.silent /\ h.age >= NoticeS + SuspectS
Overdue(h)  == /\ h.status = "suspect" \/ Noticed(h)
               /\ h.age >= NoticeS + SuspectS
Restarted(h) == /\ h.status = "restarting"
                /\ h.age >= RestartS

HostAfter(h) ==
  IF Overdue(h) THEN Dead(h)
  ELSE IF Restarted(h) THEN [h EXCEPT !.status = "up", !.age = 0, !.incarnation = @ + 1]
  ELSE IF Noticed(h) THEN [h EXCEPT !.status = "suspect"]
  ELSE h

StepHosts ==
  /\ turn = "hosts"
  /\ turn' = "ledger"
  /\ LET over == {h \in Hosts : Overdue(host[h])}
         back == {h \in Hosts : Restarted(host[h])}
         cancelled == ServedBy(over)
     IN /\ stock' = [h \in Hosts |-> IF h \in back THEN Empty(StockSlots)
                                                   ELSE StockWithout(cancelled)[h]]
        /\ sessions' = Without(cancelled)
        /\ counters' = [counters EXCEPT !.cancelled = @ + Cardinality(cancelled)]
        /\ ledgerSlots' = IF ledger.host \in over THEN Empty(LedgerSlots)
                                                  ELSE LedgerWithout(cancelled)
        /\ ledger' = IF ledger.host \in over THEN [ledger EXCEPT !.host = None]
                                             ELSE ledger
  /\ host' = [h \in Hosts |-> HostAfter(host[h])]
  /\ UNCHANGED <<nextId, rr, todo>>

\* placeLedger()
Counts_Hung(h) == \* mutant: by the status alone
  h \in Books /\ host[h].status = "up" /\ host[h].upAge >= SettleS
Counts(h) == h \in Books /\ Answering(h) /\ host[h].upAge >= SettleS

PlaceLedger_Waiting == \* mutant: an empty seat does not look at the clock
  LET best == Max({h \in Hosts : Counts(h)})
  IN IF \A h \in Hosts : ~Counts(h) THEN ledger
     ELSE IF ledger.host = None /\ ledger.moveIn = None THEN [ledger EXCEPT !.host = best]
     ELSE IF ledger.host # None /\ best > ledger.host THEN [ledger EXCEPT !.host = best]
     ELSE ledger

PlaceLedger ==
  LET candidates == {h \in Hosts : Counts(h)}
      best == Max(candidates)
  IN IF candidates = {} THEN ledger
     ELSE IF ledger.host = None
          THEN IF ledger.moveIn \in {None, 0} THEN [host |-> best, moveIn |-> None]
                                              ELSE ledger
          ELSE IF best > ledger.host THEN [ledger EXCEPT !.host = best]
                                     ELSE ledger

StepLedger ==
  /\ turn = "ledger"
  /\ turn' = "load"
  /\ ledger' = PlaceLedger
  /\ UNCHANGED <<host, stock, ledgerSlots, sessions, nextId, rr,
                 counters, todo>>

\* route(): the next host worth trying from position n of the session's order.
NextTry(start, n) ==
  LET worth == {m \in n..(NHosts - 1) : Tryable(OrderAt(start, m))}
  IN IF worth = {} THEN NHosts ELSE Min(worth)

Refuse(x) == /\ sessions' = Without({x})
             /\ counters' = [counters EXCEPT !.refused = @ + 1]

\* The accumulated load is a whole session: it is routed to its first host, or
\* refused when no host is worth trying.
StartSession ==
  /\ turn = "load"
  /\ nextId <= MaxSessions
  /\ LET first == NextTry(rr, 0)
         refused == first = NHosts
     IN /\ sessions' = IF refused THEN sessions
                       ELSE [x \in Live \cup {nextId} |-> IF x = nextId THEN NewSession(rr, first) ELSE sessions[x]]
        /\ counters' = [counters EXCEPT !.started = @ + 1,
                                        !.refused = IF refused THEN @ + 1 ELSE @]
  /\ nextId' = nextId + 1
  /\ rr' = (rr + 1) % NHosts
  /\ UNCHANGED <<host, stock, ledger, ledgerSlots, turn, todo>>

\* No whole session is left in the load: the loop over a copy of s.sessions.
LoadDone ==
  /\ turn = "load"
  /\ turn' = "sessions"
  /\ todo' = Live
  /\ UNCHANGED <<host, stock, ledger, ledgerSlots, sessions, nextId,
                 rr, counters>>

LedgerReady == /\ ledger.host # None
               /\ Answering(ledger.host)
               /\ \E k \in LedgerSlots : ledgerSlots[k] = None

FreeSlots(slots) == {k \in DOMAIN slots : slots[k] = None}

\* arrive() at a host that is full or does not answer: bounce to the next one.
Bounces(x) ==
  /\ \/ ~Answering(sessions[x].host)
     \/ FreeSlots(stock[sessions[x].host]) = {}
  /\ LET next == NextTry(sessions[x].start, sessions[x].next + 1)
     IN IF next = NHosts
        THEN Refuse(x)
        ELSE /\ sessions' = [sessions EXCEPT ![x] =
                  [@ EXCEPT !.next = next, !.left = Bounce,
                            !.host = OrderAt(sessions[x].start, next)]]
             /\ UNCHANGED counters
  /\ UNCHANGED <<stock, ledgerSlots>>

\* arrive() where there is a slot: the session also needs the Ledger.
Starts(x) ==
  /\ Answering(sessions[x].host)
  /\ FreeSlots(stock[sessions[x].host]) # {}
  /\ IF ~LedgerReady
     THEN /\ Refuse(x)
          /\ UNCHANGED <<stock, ledgerSlots>>
     ELSE LET h == sessions[x].host
              stockSlot == Min(FreeSlots(stock[h]))
              ledgerSlot == Min(FreeSlots(ledgerSlots))
          IN /\ stock' = [stock EXCEPT ![h][stockSlot] = x]
             /\ ledgerSlots' = [ledgerSlots EXCEPT ![ledgerSlot] = x]
             /\ \E length \in Lengths :
                  sessions' = [sessions EXCEPT ![x] =
                    [@ EXCEPT !.stockSlot = stockSlot, !.ledgerSlot = ledgerSlot,
                              !.ledgerHost = ledger.host,
                              !.phase = "serve", !.left = length]]
             /\ UNCHANGED counters

\* A session whose time is up: it arrives, ends, or is back.
Ends(x) ==
  /\ sessions[x].phase = "serve"
  /\ stock' = StockWithout({x})
  /\ ledgerSlots' = LedgerWithout({x})
  /\ sessions' = [sessions EXCEPT ![x] =
       [@ EXCEPT !.stockSlot = None, !.ledgerSlot = None, !.phase = "back",
                 !.left = Travel]]
  /\ UNCHANGED counters

Completes(x) ==
  /\ sessions[x].phase = "back"
  /\ sessions' = Without({x})
  /\ counters' = [counters EXCEPT !.completed = @ + 1]
  /\ UNCHANGED <<stock, ledgerSlots>>

\* Its Stock or its Ledger hangs: the session is frozen.
Frozen(x) == /\ Serving(x)
             /\ host[sessions[x].host].silent \/ host[sessions[x].ledgerHost].silent

Advance(x) ==
  IF Frozen(x) THEN UNCHANGED <<sessions, counters, stock, ledgerSlots>>
  ELSE IF sessions[x].left > 1
  THEN /\ sessions' = [sessions EXCEPT ![x].left = @ - 1]
       /\ UNCHANGED <<counters, stock, ledgerSlots>>
  ELSE \/ sessions[x].phase = "out" /\ (Bounces(x) \/ Starts(x))
       \/ Ends(x)
       \/ Completes(x)

StepSession ==
  /\ turn = "sessions"
  /\ todo # {}
  /\ Advance(Min(todo))
  /\ todo' = todo \ {Min(todo)}
  /\ UNCHANGED <<host, ledger, nextId, rr, turn>>

StepDone ==
  /\ turn = "sessions"
  /\ todo = {}
  /\ turn' = "rest"
  /\ UNCHANGED <<host, stock, ledger, ledgerSlots, sessions, nextId,
                 rr, counters, todo>>

StepOn == \/ StepHosts \/ StepLedger \/ StartSession \/ LoadDone
          \/ StepSession \/ StepDone

Next == \/ \E h \in Hosts : Crash(h) \/ Hang(h) \/ Revive(h)
        \/ Step
        \/ StepOn

Spec == Init /\ [][Next]_vars

\* The page draws frames as long as the figure is on screen, and a step that
\* has begun runs to its end.
FairSpec == Spec /\ WF_vars(Step \/ StepOn)

-----------------------------------------------------------------------------
(* Properties. *)

\* A Stock slot belongs to the session being served in it, on a host that is
\* up or hung: none is lost when a host dies or restarts, and no session is
\* served without one.
StockSlotsOwned ==
  \A h \in Hosts, k \in StockSlots, x \in Ids :
    stock[h][k] = x
      <=> Serving(x) /\ sessions[x].host = h /\ sessions[x].stockSlot = k

\* No Ledger slot leaks: whoever holds one is being served with it. (Not the
\* converse: when a holder that has taken the seat over dies, the slots are
\* fresh while its predecessor's sessions drain.)
LedgerSlotsOwned ==
  \A k \in LedgerSlots :
    ledgerSlots[k] # None
      => Serving(ledgerSlots[k]) /\ sessions[ledgerSlots[k]].ledgerSlot = k

\* No slot leaks and none is held twice, on the Stocks and at the Ledger.
SlotsOwned == StockSlotsOwned /\ LedgerSlotsOwned

\* A host that crashes or is declared dead loses its sessions at once, as their
\* Stock and as their Ledger: nobody is served by a host that is not there.
ServedByLiveHosts ==
  \A x \in Live : Serving(x) => /\ Tryable(sessions[x].host)
                                    /\ Tryable(sessions[x].ledgerHost)

\* The page's counters account for every session, whatever happened to it.
Conservation ==
  counters.started = counters.completed + counters.cancelled
                       + counters.refused + Cardinality(Live)

\* Every session is accounted for, by the counters and by the slots.
SessionsOK == SlotsOwned /\ Conservation

\* The Ledger is on a books host that has not been declared dead, and an empty
\* seat is waiting for the failure that emptied it to be known.
LedgerSeat == /\ ledger.host # None => Tryable(ledger.host)
              /\ ledger.host = None => ledger.moveIn # None

\* The cluster's parts are well formed and the Ledger has a seat or a day for one.
ClusterOK == TypeOK /\ LedgerSeat

\* A hung host is declared dead, and what it served is cancelled, no later than
\* noticeS + suspectS after it hung.
HungNotForLong ==
  \A h \in Hosts : host[h].silent /\ turn = "rest" => host[h].age < NoticeS + SuspectS

\* The detector's verdict, early or late, leaves nobody with a host that is gone.
DetectorOK == ServedByLiveHosts /\ HungNotForLong

\* A session that ends takes back no slot but its own: the Ledger slot of a
\* session in progress stays its own until it ends or the Ledger's host dies.
LedgerSlotsKept ==
  \A k \in LedgerSlots, x \in Live :
    ledgerSlots[k] = x /\ ledgerSlots'[k] # x
      => ~Serving(x)' \/ ledger'.host # ledger.host

\* A held seat passes only to a higher-ranked host that has sat out its settle
\* period, and it drains: no session is cancelled and no slot is taken away.
TakeoverDrains ==
  ledger.host # None /\ ledger'.host \notin {None, ledger.host}
    => /\ ledger'.host > ledger.host
       /\ host[ledger'.host].upAge >= SettleS
       /\ sessions' = sessions
       /\ ledgerSlots' = ledgerSlots

\* Whatever fails, the Ledger's seat and slots change hands as they should.
LedgerHandsOver == [][LedgerSlotsKept /\ TakeoverDrains]_vars

\* Every session that starts is over one day: completed, cancelled or refused.
EverySessionEnds == \A x \in Ids : x \in Live ~> x \notin Live

\* An empty seat is filled when some books host stays fit for it.
SeatIsFilled ==
  \A h \in Books : [](<>[]Counts(h) => <>(ledger.host # None))
===============================================================================
