---------------------------- MODULE MCNodeQueue ----------------------------
(* Instances of NodeQueue: who sends what under which policy.               *)
EXTENDS NodeQueue

CONSTANTS Ann, Bob

AnnAndBob == {Ann, Bob}

Request(len, policy) == [len |-> len, policy |-> policy]

\* Every policy meets another in the queue, and a frame longer than the budget.
EveryPolicy ==
    (Ann :> <<{Request(7, "drop_new")}, {Request(5, "block")}>>)
    @@ (Bob :> <<{Request(10, "drop_old")}, {Request(3, "block"), Request(3, "unbounded")}>>)

\* Two callers that block.
BothBlock == (Ann :> <<{Request(7, "block")}, {Request(1, "block")}>>)
             @@ (Bob :> <<{Request(5, "block")}, {Request(5, "block")}>>)

\* One that blocks beside one that does not.
BlockAndDropNew == (Ann :> <<{Request(7, "block")}, {Request(7, "block")}>>)
             @@ (Bob :> <<{Request(7, "drop_new")}, {Request(7, "drop_new")}>>)
=============================================================================
