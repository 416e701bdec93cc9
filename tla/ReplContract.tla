---------------------------- MODULE ReplContract ----------------------------
(***************************************************************************)
(* What assets/march-repl.js promises a reader, without the download, the  *)
(* queue or the callbacks: inputs are answered one at a time in the order  *)
(* they were submitted, and the interpreter's session is what the answered *)
(* inputs (and the setup code of the example chips) made it.               *)
(***************************************************************************)
EXTENDS Naturals, Sequences

CONSTANTS Texts,      \* what a reader can submit: sequences of inputs
          Resets,     \* the inputs that forget every definition (":reset")
          SetupCode   \* the setup code of an error-demo chip

VARIABLES submitted,  \* every input submitted, oldest first
          finished,   \* every input answered, with its outcome
          session     \* the code the interpreter has evaluated since a reset

contractVars == <<submitted, finished, session>>

\* The ways an input is answered.
Outcomes == {"blank", "screen", "reset", "docs", "evaluated",
             "no interpreter", "no module"}

Init == /\ submitted = <<>>
        /\ finished = <<>>
        /\ session = <<>>

\* A text of one or more inputs arrives behind what was submitted before.
Submit == /\ \E text \in Texts : submitted' = submitted \o text
          /\ UNCHANGED <<finished, session>>

\* The oldest unanswered input is answered; only an evaluated input and a
\* reset touch the session.
Answer ==
  /\ Len(finished) < Len(submitted)
  /\ LET input == submitted[Len(finished) + 1]
     IN \E outcome \in Outcomes :
          /\ finished' = Append(finished, [input |-> input, outcome |-> outcome])
          /\ outcome = "reset" <=> input \in Resets
          /\ session' = CASE outcome = "evaluated" -> Append(session, input)
                          [] outcome = "reset"     -> <<>>
                          [] OTHER                 -> session
  /\ UNCHANGED submitted

\* A chip's setup code may be evaluated between any two answers.
Setup == /\ session' = Append(session, SetupCode)
         /\ UNCHANGED <<submitted, finished>>

Next == Submit \/ Answer \/ Setup

Spec == Init /\ [][Next]_contractVars
=============================================================================
