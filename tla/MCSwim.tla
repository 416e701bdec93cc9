-------------------------------- MODULE MCSwim --------------------------------
(* Instances of Swim: three nodes, and what may go wrong.                    *)
EXTENDS Swim

Three == 1..3

\* Everyone starts from node 1.
Seed1 == [n \in Three |-> {1} \ {n}]

Two == {1, 2}

\* Nothing goes wrong, but for what each scenario makes go wrong.
Calm(members) ==
  [members |-> members, crash |-> {}, restart |-> 0, break |-> 0, stale |-> 0, late |-> 0, pause |-> 0]

\* One of three is gone for ever.
Gone == [Calm(Three) EXCEPT !.crash = {2}]

\* A connection between two of three breaks.
Cut   == [Calm(Three) EXCEPT !.break = 1]
CutAt == [Cut EXCEPT !.stale = 1]

\* One of two comes back; an ack is late, or the connection breaks, and a pause
\* outlasts the timers.
Back   == [Calm(Two) EXCEPT !.crash = {2}, !.restart = 1]
Late   == [Calm(Two) EXCEPT !.late = 1, !.pause = 1]
Paused == [Calm(Two) EXCEPT !.break = 1, !.stale = 1, !.pause = 1]

WhatGoesWrong == {Gone, CutAt, Back, Late, Paused}

OnlyCut == {Cut}
===============================================================================
