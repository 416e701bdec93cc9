---------------------------- MODULE ErrorPlayground ----------------------------
(***************************************************************************)
(* The error playground (assets/error-playground.js): examples are fetched *)
(* into an editor, and its text is checked by a compiler that is           *)
(* downloaded on the first check.                                          *)
(*                                                                         *)
(* A text is the example it came from, or what the reader typed. The       *)
(* waiting checks are identical (each reads the editor when it runs), so   *)
(* their number is kept. Status texts and colours are left out.            *)
(***************************************************************************)
EXTENDS Integers

CONSTANTS Examples, Options,  \* all examples; those the menu offers
          First,              \* the one selected when the page is opened
          Typed, NoText,      \* what the reader typed; the editor before anything
          MaxFetches,         \* bound: examples fetched
          MaxPresses          \* bound: checks waiting when a button asks for one

\* What is asked of the constants; the module of a run assumes it.
PlaygroundAssumption ==
  /\ First \in Options /\ Options \subseteq Examples
  /\ Typed \notin Examples /\ NoText \notin Examples \cup {Typed}
  /\ MaxFetches \in Nat \ {0} /\ MaxPresses \in Nat

Texts == Examples \cup {Typed, NoText}
Outputs == [kind : {"empty", "intro", "info"}, text : {NoText}]
             \cup [kind : {"report"}, text : Texts]
Fetches == [n : 1..MaxFetches, name : Examples, then : {"intro", "check"}]

VARIABLES
  select, editor, original, output,   \* the page
  compiler, script, waiting,          \* script: the one being downloaded
  fetches, asked,                     \* requests on their way; how many were made
  want,                               \* history: the example asked for last, if it is still due
  typed,                              \* history: has the reader typed since the last report?
  overtaken                           \* history: has an answer overtaken an older one?

compilerVars == <<compiler, script, waiting>>
vars == <<select, editor, original, output, compilerVars, fetches, asked, want, typed, overtaken>>

TypeOK ==
  /\ select \in Options
  /\ editor \in Texts /\ original \in Texts \ {Typed}
  /\ output \in Outputs
  /\ compiler \in {"none", "loading", "ready", "failed"}
  /\ script \in {"none", "stdlib", "compile"}
  /\ waiting \in 0..(MaxPresses + MaxFetches)
  /\ fetches \subseteq Fetches
  /\ asked \in 1..MaxFetches
  /\ want \in Examples \cup {NoText}
  /\ {typed, overtaken} \subseteq BOOLEAN

Says(kind) == [kind |-> kind, text |-> NoText]

\* The page opens with a request for its first example.
Init ==
  /\ select = First
  /\ editor = NoText /\ original = NoText
  /\ output = Says("empty")
  /\ compiler = "none" /\ script = "none" /\ waiting = 0
  /\ fetches = {[n |-> 1, name |-> First, then |-> "intro"]}
  /\ asked = 1
  /\ want = First
  /\ typed = FALSE /\ overtaken = FALSE

-----------------------------------------------------------------------------
(* check() through withCompiler(). *)

\* The compiler reports on the text, or it crashes or is too old to check.
Report(text) == /\ output' \in {[kind |-> "report", text |-> text], Says("info")}
                /\ typed' = FALSE

\* The text is the editor's, as the caller leaves it.
Check(text) ==
  \/ /\ compiler = "ready"
     /\ Report(text)
     /\ UNCHANGED compilerVars
  \/ /\ compiler = "failed"
     /\ output' = Says("info")
     /\ UNCHANGED <<compilerVars, typed>>
  \/ /\ compiler \in {"none", "loading"}
     /\ waiting' = waiting + 1
     /\ compiler' = "loading"
     /\ script' = IF compiler = "none" THEN "stdlib" ELSE script
     /\ UNCHANGED <<output, typed>>

\* done(): every waiting check runs.
Done == /\ compiler' = "ready" /\ script' = "none"
        /\ waiting' = 0
        /\ Report(editor)

ScriptLoads == /\ script # "none"
               /\ IF script = "stdlib"
                  THEN script' = "compile" /\ UNCHANGED <<compiler, waiting, output, typed>>
                  ELSE Done
               /\ UNCHANGED <<select, editor, original, fetches, asked, want, overtaken>>

FailsFor_Silent == UNCHANGED output \* mutant
FailsFor        == output' = Says("info")

ScriptFails == /\ script # "none"
               /\ compiler' = "failed" /\ script' = "none"
               /\ waiting' = 0
               /\ FailsFor
               /\ UNCHANGED <<select, editor, original, fetches, asked, want, typed, overtaken>>

-----------------------------------------------------------------------------
(* load() and the page's events. *)

Ask(name) == /\ asked < MaxFetches
             /\ asked' = asked + 1
             /\ fetches' = fetches \cup {[n |-> asked + 1, name |-> name, then |-> "check"]}
             /\ want' = name
             /\ UNCHANGED <<editor, original, output, compilerVars, typed, overtaken>>

\* The menu, whose change event needs a change; a "Try it" button anywhere.
Pick == \E name \in Options \ {select} : select' = name /\ Ask(name)
TryIt == \E name \in Examples :
  /\ select' = IF name \in Options THEN name ELSE select
  /\ Ask(name)

Loaded(name)             == editor' = name /\ original' = name

After_Nothing(f) == UNCHANGED <<output, compilerVars, typed>> \* mutant
After(f) == IF f.then = "check"
            THEN Check(f.name)
            ELSE output' = Says("intro") /\ UNCHANGED <<compilerVars, typed>>

Arrives == \E f \in fetches :
  /\ fetches' = fetches \ {f}
  /\ overtaken' = (overtaken \/ \E g \in fetches : g.n < f.n)
  /\ Loaded(f.name)
  /\ After(f)
  /\ UNCHANGED <<select, asked, want>>

FetchFails == \E f \in fetches :
  /\ fetches' = fetches \ {f}
  /\ output' = Says("info")
  /\ want' = IF f.n = asked THEN NoText ELSE want
  /\ UNCHANGED <<select, editor, original, compilerVars, asked, typed, overtaken>>

MayPress == compiler \in {"none", "loading"} => waiting < MaxPresses

PressCheck == /\ MayPress
              /\ Check(editor)
              /\ UNCHANGED <<select, editor, original, fetches, asked, want, overtaken>>

Revert == /\ MayPress
          /\ editor' = original
          /\ Check(editor')
          /\ UNCHANGED <<select, original, fetches, asked, want, overtaken>>

Type == /\ editor' = Typed
        /\ typed' = TRUE
        /\ want' = NoText
        /\ UNCHANGED <<select, original, output, compilerVars, fetches, asked, overtaken>>

Next == \/ Pick \/ TryIt \/ Arrives \/ FetchFails
        \/ PressCheck \/ Revert \/ Type
        \/ ScriptLoads \/ ScriptFails

Spec == Init /\ [][Next]_vars

\* The browser answers for a script it was given.
FairSpec == Spec /\ WF_vars(ScriptLoads \/ ScriptFails)

-----------------------------------------------------------------------------
(* Properties. *)

\* Somebody waits exactly while the compiler is on its way: no check is parked
\* behind a download that has ended, and none starts one for nobody.
WaitingIsServed == /\ waiting > 0 <=> compiler = "loading"
                   /\ script # "none" <=> compiler = "loading"

\* An example in the editor is the one Revert would bring back, whatever was
\* loaded, typed or reverted in between.
RevertsToShown == editor \in Examples => editor = original

\* A report on the page is about the text in the editor, unless the reader has
\* typed since: a new example never stands beside the report of the old one.
ReportIsOfEditor == output.kind = "report" => output.text = editor \/ typed

\* The button "loads that example" (10-11): once all answers are in, the example
\* asked for last is the one in the editor, unless it could not be loaded, the
\* reader typed, or an answer overtook an older one, which then came last.
ShowsTheOneAsked == fetches = {} /\ want # NoText /\ ~overtaken => editor = want

\* The page's parts agree, whatever is asked, in whatever order it is answered
\* and whatever fails.
PageOK == TypeOK /\ WaitingIsServed /\ RevertsToShown /\ ReportIsOfEditor /\ ShowsTheOneAsked

\* A check that waits for the compiler gets a report or a message.
ChecksAreAnswered == waiting > 0 ~> output.kind \in {"report", "info"}
===============================================================================
