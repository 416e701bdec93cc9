---------------------------- MODULE AuthorityCards ----------------------------
(***************************************************************************)
(* The two figures of assets/explainer/chapters-authority.js that run      *)
(* SimTopology. Moving on to the next card makes that card's event happen  *)
(* to the simulation on screen, at whatever moment the reader moves on.    *)
(*                                                                         *)
(* A reader who lands on a later card gets a simulation to which all the   *)
(* events up to it have happened, with a pause after each: it is one of    *)
(* the behaviours below. What a card only shows (show, hide) is drawing.   *)
(***************************************************************************)
EXTENDS SimTopology, Sequences

VARIABLES figure,  \* which of the two: it never changes
          card

cardVars == <<vars, figure, card>>

Cards == IF figure = "rollout"
         THEN <<"widen", "refused", "granted", "node", "admitted">>
         ELSE <<"hosts", "placed", "flow", "stop", "caps", "firewall", "policy">>

Name == Cards[card]

\* Card "widen" places the roles, lets them settle, and opens the flow.
CardsInit == /\ card = 1
             /\ figure \in {"topology", "rollout"}
             /\ IF figure = "rollout"
                THEN Fresh /\ placed = TRUE /\ flow = TRUE /\ single = RankSingle
                ELSE Init

Sending(p) == /\ patch' = p
              /\ patches' = patches + 1
              /\ UNCHANGED ruled

ResolveNodes(p, verdict) == /\ patch' = Resolved(p, verdict)
                            /\ code' = Activates(patch, patch')

Enter(name) ==
  \/ /\ name = "placed" /\ Place
     /\ UNCHANGED <<up, age, code, flow, sessionVars, patchVars>>
  \/ /\ name = "flow" /\ flow' = TRUE
     /\ UNCHANGED <<up, age, code, roleVars, sessionVars, patchVars>>
  \/ /\ name = "stop" /\ Stop(single)
     /\ UNCHANGED <<code, flow, roleVars, asked, rr, finished, refused, patchVars>>
  \/ /\ name = "caps" /\ Start(Hosts)
     /\ UNCHANGED <<age, code, flow, placed, single, singleLanding, sessionVars, patchVars>>
  \/ /\ name \in {"firewall", "policy"}
     /\ UNCHANGED vars
  \/ /\ name = "refused" /\ Sending(Sent(FALSE))
     /\ UNCHANGED <<up, age, code, flow, roleVars, sessionVars>>
  \/ /\ name = "granted" /\ Sending(Sent(TRUE))
     /\ UNCHANGED <<up, age, code, flow, roleVars, sessionVars>>
  \/ /\ name = "node"
     /\ ruled' = IF patch.grant THEN patches ELSE patches + 1
     /\ patches' = ruled'
     /\ ResolveNodes(IF patch.grant THEN patch ELSE Sent(TRUE), "refuse")
     /\ UNCHANGED <<up, age, flow, roleVars, sessionVars>>
  \/ /\ name = "admitted"
     /\ patches' = patches + 1 /\ ruled' = patches'
     /\ ResolveNodes(Sent(TRUE), "admit")
     /\ UNCHANGED <<up, age, flow, roleVars, sessionVars>>

Arrive == /\ card < Len(Cards)
          /\ card' = card + 1
          /\ UNCHANGED figure
          /\ Enter(Cards[card + 1])

Frame == Step /\ UNCHANGED <<figure, card>>

CardsNext == Arrive \/ Frame

\* Frames are drawn while the figure is on screen; nobody has to read on.
CardsSpec == CardsInit /\ [][CardsNext]_cardVars /\ WF_cardVars(Frame)

-----------------------------------------------------------------------------
(* Properties. *)

\* Sessions can run: every role is held by a host that is up, and has settled.
Works == /\ single # Nobody /\ singleLanding = 0 /\ up[single]
         /\ \E h \in Serving : up[h] /\ landing[h] = 0
         /\ placed /\ up[Initiator]

Shows(name) ==
  CASE name = "refused"  -> patch.phase = "refused"
    [] name = "granted"  -> patch.phase = "atNodes"
    [] name = "node"     -> patch.phase = "nodeRefused"
    [] name = "admitted" -> patch.phase = "activated" /\ \A h \in Hosts : code[h] = 2
    [] name \in {"hosts", "widen"} -> TRUE
    [] OTHER -> Works

\* However fast the cards before were passed, a reader who stays on a card sees
\* what the card says: the patch where it says it is, the role moved, the
\* sessions running again (chapters-authority.js:3-4).
CardsComeTrue == \A k \in 1..7 : card = k ~> card # k \/ Shows(Name)

\* A machine runs the new code only on the card that says so, though the patch
\* of an earlier card, and the nodes' verdict on it, may still be on their way.
NewCodeOnItsCard == figure = "rollout" /\ (\E h \in Hosts : code[h] = 2) => Name = "admitted"
===============================================================================
