------------------------------ MODULE MCTopology ------------------------------
(* SimTopology for TLC, under the two figures' cards and on its own: host 0  *)
(* initiates, the others serve.                                              *)
EXTENDS AuthorityCards

OneTickHops == [h \in {"toGate", "toLeader", "fanOut"} |-> 1]

\* A behaviour is one figure's, or that of the simulation with any events in any
\* order.
Events == figure = "any"

PageInit == CardsInit \/ (Init /\ Events /\ card = 1)

PageNext == \/ ~Events /\ CardsNext
            \/ Events /\ Next /\ UNCHANGED <<figure, card>>

PageSpec == PageInit /\ [][PageNext]_cardVars /\ WF_cardVars(~Events /\ Frame)

\* Bound: a behaviour of any events has sessions, and two hosts down, or it has
\* patches, and one.
OneOfBoth == Events /\ patches > 0 => asked = 0 /\ Stops <= 1
===============================================================================
