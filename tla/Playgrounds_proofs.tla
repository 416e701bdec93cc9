--------------------------- MODULE Playgrounds_proofs ---------------------------
(***************************************************************************)
(* Theorems about the playgrounds (MCPlaygrounds composes them), for any   *)
(* examples, texts, caps and boards: PageOK, RunOK, HistoryOK,             *)
(* PastIsFrozen and GameOK.                                                *)
(*                                                                         *)
(* Each playground has an invariant of its own, on its own variables:      *)
(* AnswersDue for the error examples, RunsDue for the page around the      *)
(* game, Kept for its time travel, and the game's GameOK, which its steps  *)
(* keep as it stands.  The others leave them alone.                        *)
(***************************************************************************)
EXTENDS MCPlaygrounds, SumTheorems

-------------------------------------------------------------------------------
(* The error playground.                                                   *)

\* The request made last is on its way, or it was the last to be answered and
\* its example is in the editor, unless that can no longer be said.
LastAsked ==
  want # NoText /\ ~overtaken =>
    \/ \E f \in fetches : f.n = asked /\ f.name = want
    \/ fetches = {} /\ editor = want

\* Requests are numbered as they are made, and each can leave one check waiting.
Numbered ==
  /\ \A f \in fetches : f.n <= asked
  /\ \A f, g \in fetches : f.n = g.n => f = g
  /\ IsFiniteSet(fetches)
  /\ Cardinality(fetches) <= asked
  /\ waiting + Cardinality(fetches) <= MaxPresses + asked

\* Only a compiler that is there has reported.
ReportsAreReal == output.kind = "report" => compiler = "ready"

AnswersDue == Errors!PageOK /\ LastAsked /\ Numbered /\ ReportsAreReal

-------------------------------------------------------------------------------
(* The page around the game.                                               *)

\* Until a download has left a run behind, a run that waits is the newest, and
\* if none waits the newest is the one the download was started for.
NewestWaits ==
  ~left => /\ parked # Nothing => loading /\ parked = asks
           /\ loading /\ parked = Nothing => starter = asks

RunsDue == Page!RunOK /\ NewestWaits

-------------------------------------------------------------------------------
(* Time travel.                                                            *)

\* No recorded frame is newer than the last one played.
NoneAhead == \A i \in DOMAIN history : history[i].id <= last

Kept == Travel!HistoryOK /\ NoneAhead

-------------------------------------------------------------------------------
(* The error playground: checks.                                           *)

\* What PlaygroundsAssumption says of the error examples.
LEMMA ErrorConstants ==
  /\ First \in Options /\ Options \subseteq Examples
  /\ Typed \notin Examples /\ NoText \notin Examples /\ NoText # Typed
  /\ MaxFetches \in Nat \ {0} /\ MaxPresses \in Nat
BY PlaygroundsAssumption DEF Errors!PlaygroundAssumption

\* The types, apart from what a check changes.
PageTyped ==
  /\ select \in Options
  /\ editor \in Errors!Texts /\ original \in Errors!Texts \ {Typed}
  /\ fetches \subseteq Errors!Fetches
  /\ asked \in 1..MaxFetches
  /\ want \in Examples \cup {NoText}
  /\ overtaken \in BOOLEAN

\* What a check changes, and how a report stays true.
CheckTyped ==
  /\ output \in Errors!Outputs
  /\ compiler \in {"none", "loading", "ready", "failed"}
  /\ script \in {"none", "stdlib", "compile"}
  /\ waiting \in Nat
  /\ typed \in BOOLEAN
  /\ Errors!WaitingIsServed /\ Errors!ReportIsOfEditor /\ ReportsAreReal

\* The invariant in the parts the steps change together.
LEMMA ErrorParts ==
  AnswersDue <=> /\ PageTyped /\ CheckTyped /\ waiting <= MaxPresses + MaxFetches
                 /\ Errors!RevertsToShown /\ Errors!ShowsTheOneAsked /\ LastAsked /\ Numbered
<1>1. MaxFetches \in Nat /\ MaxPresses \in Nat
  BY ErrorConstants
<1> QED
  BY <1>1 DEF AnswersDue, Errors!PageOK, Errors!TypeOK, PageTyped, CheckTyped

\* The same of the state after a step.
LEMMA ErrorPartsAfter ==
  AnswersDue' <=> /\ PageTyped' /\ CheckTyped' /\ waiting' <= MaxPresses + MaxFetches
                  /\ Errors!RevertsToShown' /\ Errors!ShowsTheOneAsked' /\ LastAsked' /\ Numbered'
<1>1. MaxFetches \in Nat /\ MaxPresses \in Nat
  BY ErrorConstants
<1> QED
  BY <1>1 DEF AnswersDue, Errors!PageOK, Errors!TypeOK, PageTyped, CheckTyped

\* A report is on the text it was asked for.
LEMMA ReportFits ==
  ASSUME NEW t \in Errors!Texts, Errors!Report(t)
  PROVE  output' \in Errors!Outputs /\ (output'.kind = "report" => output'.text = t) /\ typed' = FALSE
BY DEF Errors!Report, Errors!Outputs, Errors!Says

\* check() on the text the editor is left with.
LEMMA CheckFits ==
  ASSUME CheckTyped, editor' \in Errors!Texts, Errors!Check(editor')
  PROVE  CheckTyped' /\ (waiting' = waiting \/ waiting' = waiting + 1) /\ (waiting' # waiting => compiler \in {"none", "loading"})
<1>1. CASE compiler = "ready" /\ Errors!Report(editor') /\ UNCHANGED Errors!compilerVars
  <2>1. output' \in Errors!Outputs /\ (output'.kind = "report" => output'.text = editor') /\ typed' = FALSE
    BY <1>1, ReportFits
  <2> QED
    BY <1>1, <2>1 DEF CheckTyped, Errors!compilerVars, Errors!WaitingIsServed, Errors!ReportIsOfEditor, ReportsAreReal
<1>2. CASE compiler = "failed" /\ output' = Errors!Says("info") /\ UNCHANGED <<Errors!compilerVars, typed>>
  <2>1. output' \in Errors!Outputs /\ output'.kind # "report"
    BY <1>2 DEF Errors!Outputs, Errors!Says
  <2> QED
    BY <1>2, <2>1 DEF CheckTyped, Errors!compilerVars, Errors!WaitingIsServed, Errors!ReportIsOfEditor, ReportsAreReal
<1>3. CASE /\ compiler \in {"none", "loading"} /\ waiting' = waiting + 1 /\ compiler' = "loading"
           /\ script' = IF compiler = "none" THEN "stdlib" ELSE script
           /\ UNCHANGED <<output, typed>>
  BY <1>3 DEF CheckTyped, Errors!WaitingIsServed, Errors!ReportIsOfEditor, ReportsAreReal
<1> QED
  BY <1>1, <1>2, <1>3 DEF Errors!Check

\* A press waits only where there is room for it.
LEMMA PressFits ==
  ASSUME AnswersDue, Errors!MayPress, editor' \in Errors!Texts, Errors!Check(editor'), UNCHANGED <<fetches, asked>>
  PROVE  CheckTyped' /\ waiting' <= MaxPresses + MaxFetches /\ Numbered'
<1>1. CheckTyped /\ PageTyped /\ Numbered /\ waiting <= MaxPresses + MaxFetches
  BY ErrorParts
<1>2. CheckTyped' /\ (waiting' = waiting \/ waiting' = waiting + 1) /\ (waiting' # waiting => compiler \in {"none", "loading"})
  BY <1>1, CheckFits
<1>3. waiting' # waiting => waiting' = waiting + 1 /\ waiting < MaxPresses
  BY <1>2 DEF Errors!MayPress
<1>4. waiting \in Nat /\ MaxPresses \in Nat /\ MaxFetches \in Nat /\ asked \in Nat
  BY <1>1, ErrorConstants DEF CheckTyped, PageTyped
<1>5. PICK n : n = Cardinality(fetches)
  OBVIOUS
<1>6. n \in Nat /\ n <= asked /\ waiting + n <= MaxPresses + asked
  BY <1>1, <1>5, FS_CardinalityType DEF Numbered
<1>7. waiting' + n <= MaxPresses + asked /\ waiting' <= MaxPresses + MaxFetches
  BY <1>1, <1>2, <1>3, <1>4, <1>6
<1> QED
  BY <1>1, <1>2, <1>5, <1>7 DEF Numbered

-------------------------------------------------------------------------------
(* The error playground: requests and answers.                             *)

\* A request that is made is the last one, whatever is still on its way.
LEMMA AskKeeps ==
  ASSUME AnswersDue, NEW name \in Examples, select' \in Options, Errors!Ask(name)
  PROVE  AnswersDue'
<1> DEFINE f == [n |-> asked + 1, name |-> name, then |-> "check"]
<1>1. /\ PageTyped /\ CheckTyped /\ waiting <= MaxPresses + MaxFetches
      /\ Errors!RevertsToShown /\ LastAsked /\ Numbered
  BY ErrorParts
<1>2. /\ asked < MaxFetches /\ asked' = asked + 1 /\ fetches' = fetches \cup {f} /\ want' = name
      /\ UNCHANGED <<editor, original, output, compiler, script, waiting, typed, overtaken>>
  BY DEF Errors!Ask, Errors!compilerVars
<1>3. MaxFetches \in Nat /\ MaxPresses \in Nat /\ asked \in 1..MaxFetches /\ name # NoText
  BY <1>1, ErrorConstants DEF PageTyped
<1>4. f \in Errors!Fetches /\ f.n = asked' /\ f.name = want'
  BY <1>2, <1>3 DEF Errors!Fetches
<1> HIDE DEF f
<1>5. f \notin fetches /\ \A g \in fetches : g.n # f.n
  <2>1. \A g \in fetches : g.n \in Nat /\ g.n <= asked
    BY <1>1 DEF PageTyped, Errors!Fetches, Numbered
  <2> QED
    BY <1>2, <1>3, <1>4, <2>1
<1>6. CheckTyped'
  BY <1>1, <1>2 DEF CheckTyped, Errors!WaitingIsServed, Errors!ReportIsOfEditor, ReportsAreReal
<1>7. PageTyped'
  BY <1>1, <1>2, <1>3, <1>4 DEF PageTyped
<1>8. Numbered'
  <2>1. Cardinality(fetches') = Cardinality(fetches) + 1 /\ Cardinality(fetches) \in Nat /\ IsFiniteSet(fetches')
    BY <1>1, <1>2, <1>5, FS_AddElement, FS_CardinalityType DEF Numbered
  <2>2. PICK n : n = Cardinality(fetches)
    OBVIOUS
  <2>3. n \in Nat /\ waiting \in Nat /\ n <= asked /\ waiting + n <= MaxPresses + asked
    BY <1>1, <2>1, <2>2 DEF Numbered, CheckTyped
  <2>4. n + 1 <= asked' /\ waiting' + (n + 1) <= MaxPresses + asked'
    BY <1>2, <1>3, <2>3
  <2>5. \A g \in fetches' : g.n <= asked'
    BY <1>1, <1>2, <1>3, <1>4 DEF Numbered, PageTyped, Errors!Fetches
  <2>6. \A g, h \in fetches' : g.n = h.n => g = h
    BY <1>1, <1>2, <1>5 DEF Numbered
  <2> QED
    BY <2>1, <2>2, <2>4, <2>5, <2>6 DEF Numbered
<1>9. LastAsked' /\ Errors!ShowsTheOneAsked' /\ Errors!RevertsToShown'
  BY <1>1, <1>2, <1>4 DEF LastAsked, Errors!ShowsTheOneAsked, Errors!RevertsToShown
<1> QED
  BY <1>1, <1>2, <1>6, <1>7, <1>8, <1>9, ErrorPartsAfter

\* A request leaves the ones on their way.
LEMMA FetchLeaves ==
  ASSUME PageTyped, CheckTyped, Numbered, NEW f \in fetches, fetches' = fetches \ {f}, asked' = asked,
         waiting' = waiting \/ waiting' = waiting + 1
  PROVE  Numbered' /\ waiting' <= MaxPresses + MaxFetches
<1>1. /\ Cardinality(fetches') = Cardinality(fetches) - 1 /\ Cardinality(fetches) \in Nat
      /\ IsFiniteSet(fetches') /\ Cardinality(fetches') \in Nat
  <2>1. /\ Cardinality(fetches \ {f}) = Cardinality(fetches) - 1 /\ Cardinality(fetches) \in Nat
        /\ IsFiniteSet(fetches \ {f})
    BY FS_RemoveElement, FS_CardinalityType DEF Numbered
  <2>2. Cardinality(fetches \ {f}) \in Nat
    BY <2>1, FS_CardinalityType
  <2> QED
    BY <2>1, <2>2
<1>2. PICK n, m : n = Cardinality(fetches) /\ m = Cardinality(fetches')
  OBVIOUS
<1>3. /\ n \in Nat /\ m \in Nat /\ m = n - 1 /\ waiting \in Nat /\ n <= asked /\ waiting + n <= MaxPresses + asked
      /\ asked \in 1..MaxFetches /\ MaxFetches \in Nat /\ MaxPresses \in Nat
  BY <1>1, <1>2, ErrorConstants DEF Numbered, CheckTyped, PageTyped
<1>4. m <= asked /\ waiting' + m <= MaxPresses + asked /\ waiting' <= MaxPresses + MaxFetches
  BY <1>3
<1> QED
  BY <1>1, <1>2, <1>4 DEF Numbered

\* An answer fills the editor; one that is not the last shows the overtaking.
LEMMA ArrivesKeeps ==
  ASSUME AnswersDue, Errors!Arrives
  PROVE  AnswersDue'
<1>1. /\ PageTyped /\ CheckTyped /\ waiting <= MaxPresses + MaxFetches
      /\ Errors!RevertsToShown /\ LastAsked /\ Numbered
  BY ErrorParts
<1>2. PICK f \in fetches :
        /\ fetches' = fetches \ {f}
        /\ overtaken' = (overtaken \/ \E g \in fetches : g.n < f.n)
        /\ editor' = f.name /\ original' = f.name
        /\ Errors!After(f)
        /\ UNCHANGED <<select, asked, want>>
  BY DEF Errors!Arrives, Errors!Loaded
<1>3. /\ f.name \in Examples /\ editor' \in Errors!Texts /\ f.name # Typed
  BY <1>1, <1>2, ErrorConstants DEF PageTyped, Errors!Fetches, Errors!Texts
<1>4. CheckTyped' /\ (waiting' = waiting \/ waiting' = waiting + 1)
  <2>1. CASE f.then = "check"
    <3>1. Errors!Check(editor')
      BY <1>2, <2>1 DEF Errors!After
    <3> QED
      BY <1>1, <1>3, <3>1, CheckFits
  <2>2. CASE f.then # "check"
    <3>1. output' = Errors!Says("intro") /\ UNCHANGED <<compiler, script, waiting, typed>>
      BY <1>2, <2>2 DEF Errors!After, Errors!compilerVars
    <3>2. output' \in Errors!Outputs /\ output'.kind # "report"
      BY <3>1 DEF Errors!Outputs, Errors!Says
    <3> QED
      BY <1>1, <3>1, <3>2 DEF CheckTyped, Errors!WaitingIsServed, Errors!ReportIsOfEditor, ReportsAreReal
  <2> QED
    BY <2>1, <2>2
<1>5. Numbered' /\ waiting' <= MaxPresses + MaxFetches
  BY <1>1, <1>2, <1>4, FetchLeaves
<1>6. overtaken' \in BOOLEAN
  BY <1>1, <1>2 DEF PageTyped
<1>7. PageTyped'
  BY <1>1, <1>2, <1>3, <1>6 DEF PageTyped
<1>8. LastAsked'
  <2> SUFFICES ASSUME want # NoText, ~overtaken'
               PROVE  (\E g \in fetches' : g.n = asked /\ g.name = want) \/ (fetches' = {} /\ editor' = want)
    BY <1>2 DEF LastAsked
  <2>1. ~overtaken /\ \A g \in fetches : ~(g.n < f.n)
    BY <1>1, <1>2 DEF PageTyped
  <2>2. PICK h \in fetches : h.n = asked /\ h.name = want
    BY <1>1, <1>2, <2>1 DEF LastAsked
  <2>3. CASE h = f
    <3>1. \A g \in fetches : g.n \in Nat /\ g.n <= asked /\ (g # f => g.n # asked)
      BY <1>1, <2>2, <2>3 DEF PageTyped, Errors!Fetches, Numbered
    <3>2. \A g \in fetches : g = f
      BY <1>1, <2>1, <2>2, <2>3, <3>1 DEF PageTyped
    <3> QED
      BY <1>2, <2>2, <2>3, <3>2
  <2>4. CASE h # f
    BY <1>2, <2>2, <2>4
  <2> QED
    BY <2>3, <2>4
<1>9. Errors!ShowsTheOneAsked' /\ Errors!RevertsToShown'
  BY <1>2, <1>8 DEF LastAsked, Errors!ShowsTheOneAsked, Errors!RevertsToShown
<1> QED
  BY <1>4, <1>5, <1>7, <1>8, <1>9, ErrorPartsAfter

\* A request that fails leaves the editor as it was.
LEMMA FetchFailsKeeps ==
  ASSUME AnswersDue, Errors!FetchFails
  PROVE  AnswersDue'
<1>1. /\ PageTyped /\ CheckTyped /\ waiting <= MaxPresses + MaxFetches
      /\ Errors!RevertsToShown /\ LastAsked /\ Numbered
  BY ErrorParts
<1>2. PICK f \in fetches :
        /\ fetches' = fetches \ {f}
        /\ output' = Errors!Says("info")
        /\ want' = IF f.n = asked THEN NoText ELSE want
        /\ UNCHANGED <<select, editor, original, compiler, script, waiting, asked, typed, overtaken>>
  BY DEF Errors!FetchFails, Errors!compilerVars
<1>3. output' \in Errors!Outputs /\ output'.kind # "report"
  BY <1>2 DEF Errors!Outputs, Errors!Says
<1>4. CheckTyped'
  BY <1>1, <1>2, <1>3 DEF CheckTyped, Errors!WaitingIsServed, Errors!ReportIsOfEditor, ReportsAreReal
<1>5. Numbered' /\ waiting' <= MaxPresses + MaxFetches
  BY <1>1, <1>2, FetchLeaves
<1>6. PageTyped'
  BY <1>1, <1>2 DEF PageTyped
<1>7. LastAsked'
  <2> SUFFICES ASSUME want' # NoText, ~overtaken
               PROVE  \E g \in fetches' : g.n = asked /\ g.name = want
    BY <1>2 DEF LastAsked
  <2>1. f.n # asked /\ want' = want
    BY <1>2
  <2>2. PICK h \in fetches : h.n = asked /\ h.name = want
    BY <1>1, <1>2, <2>1 DEF LastAsked
  <2> QED
    BY <1>2, <2>1, <2>2
<1>8. Errors!ShowsTheOneAsked' /\ Errors!RevertsToShown'
  BY <1>1, <1>2, <1>7 DEF LastAsked, Errors!ShowsTheOneAsked, Errors!RevertsToShown
<1> QED
  BY <1>4, <1>5, <1>6, <1>7, <1>8, ErrorPartsAfter

-------------------------------------------------------------------------------
(* The error playground: the reader and the compiler.                      *)

\* A check waits for the compiler or reports on the editor at once.
LEMMA PressKeeps ==
  ASSUME AnswersDue, Errors!PressCheck \/ Errors!Revert
  PROVE  AnswersDue'
<1>1. /\ PageTyped /\ CheckTyped /\ waiting <= MaxPresses + MaxFetches
      /\ Errors!RevertsToShown /\ LastAsked /\ Numbered
  BY ErrorParts
<1>2. /\ Errors!MayPress /\ editor' \in {editor, original} /\ Errors!Check(editor')
      /\ UNCHANGED <<select, original, fetches, asked, want, overtaken>>
  BY DEF Errors!PressCheck, Errors!Revert
<1>3. editor' \in Errors!Texts
  BY <1>1, <1>2 DEF PageTyped
<1>4. CheckTyped' /\ waiting' <= MaxPresses + MaxFetches /\ Numbered'
  BY <1>2, <1>3, PressFits
<1>5. PageTyped'
  BY <1>1, <1>2, <1>3 DEF PageTyped
<1>6. Errors!RevertsToShown' /\ (editor \in Examples => editor' = editor)
  BY <1>1, <1>2 DEF Errors!RevertsToShown
<1>7. LastAsked' /\ Errors!ShowsTheOneAsked'
  BY <1>1, <1>2, <1>6 DEF LastAsked, Errors!ShowsTheOneAsked, PageTyped
<1> QED
  BY <1>4, <1>5, <1>6, <1>7, ErrorPartsAfter

\* Typing changes the text and nothing else that is promised of it.
LEMMA TypeKeeps ==
  ASSUME AnswersDue, Errors!Type
  PROVE  AnswersDue'
<1>1. /\ PageTyped /\ CheckTyped /\ waiting <= MaxPresses + MaxFetches
      /\ Errors!RevertsToShown /\ LastAsked /\ Numbered
  BY ErrorParts
<1>2. /\ editor' = Typed /\ typed' = TRUE /\ want' = NoText
      /\ UNCHANGED <<select, original, output, compiler, script, waiting, fetches, asked, overtaken>>
  BY DEF Errors!Type, Errors!compilerVars
<1>3. PageTyped'
  BY <1>1, <1>2 DEF PageTyped, Errors!Texts
<1>4. CheckTyped'
  BY <1>1, <1>2 DEF CheckTyped, Errors!WaitingIsServed, Errors!ReportIsOfEditor, ReportsAreReal
<1>5. Numbered'
  BY <1>1, <1>2 DEF Numbered
<1>6. LastAsked' /\ Errors!ShowsTheOneAsked' /\ Errors!RevertsToShown'
  BY <1>2, ErrorConstants DEF LastAsked, Errors!ShowsTheOneAsked, Errors!RevertsToShown
<1> QED
  BY <1>1, <1>2, <1>3, <1>4, <1>5, <1>6, ErrorPartsAfter

\* A script that ends lets all waiting checks report, or tells them it failed.
LEMMA ScriptKeeps ==
  ASSUME AnswersDue, Errors!ScriptLoads \/ Errors!ScriptFails
  PROVE  AnswersDue'
<1>1. /\ PageTyped /\ CheckTyped /\ waiting <= MaxPresses + MaxFetches
      /\ Errors!RevertsToShown /\ LastAsked /\ Numbered
  BY ErrorParts
<1>2. script # "none" /\ UNCHANGED <<select, editor, original, fetches, asked, want, overtaken>>
  BY DEF Errors!ScriptLoads, Errors!ScriptFails
<1>3. CheckTyped' /\ (waiting' = waiting \/ waiting' = 0)
  <2>1. compiler = "loading"
    BY <1>1, <1>2 DEF CheckTyped, Errors!WaitingIsServed
  <2>2. CASE Errors!ScriptLoads /\ script = "stdlib"
    <3>1. script' = "compile" /\ UNCHANGED <<compiler, waiting, output, typed>>
      BY <2>2 DEF Errors!ScriptLoads
    <3> QED
      BY <1>1, <1>2, <2>1, <3>1 DEF CheckTyped, Errors!WaitingIsServed, Errors!ReportIsOfEditor, ReportsAreReal
  <2>3. CASE Errors!ScriptLoads /\ script # "stdlib"
    <3>1. compiler' = "ready" /\ script' = "none" /\ waiting' = 0 /\ Errors!Report(editor)
      BY <2>3 DEF Errors!ScriptLoads, Errors!Done
    <3>2. output' \in Errors!Outputs /\ (output'.kind = "report" => output'.text = editor) /\ typed' = FALSE
      BY <1>1, <3>1, ReportFits DEF PageTyped
    <3>3. Errors!WaitingIsServed' /\ waiting' \in Nat
      BY <3>1 DEF Errors!WaitingIsServed
    <3>4. Errors!ReportIsOfEditor' /\ ReportsAreReal'
      BY <1>2, <3>1, <3>2 DEF Errors!ReportIsOfEditor, ReportsAreReal
    <3> QED
      BY <3>1, <3>2, <3>3, <3>4 DEF CheckTyped
  <2>4. CASE Errors!ScriptFails
    <3>1. /\ compiler' = "failed" /\ script' = "none" /\ waiting' = 0 /\ output' = Errors!Says("info")
          /\ typed' = typed
      BY <2>4 DEF Errors!ScriptFails, Errors!FailsFor
    <3>2. output' \in Errors!Outputs /\ output'.kind # "report"
      BY <3>1 DEF Errors!Outputs, Errors!Says
    <3> QED
      BY <1>1, <3>1, <3>2 DEF CheckTyped, Errors!WaitingIsServed, Errors!ReportIsOfEditor, ReportsAreReal
  <2> QED
    BY <2>2, <2>3, <2>4
<1>4. PageTyped'
  BY <1>1, <1>2 DEF PageTyped
<1>5. Numbered' /\ waiting' <= MaxPresses + MaxFetches
  <2>1. PICK n : n = Cardinality(fetches)
    OBVIOUS
  <2>2. n \in Nat /\ waiting \in Nat /\ waiting + n <= MaxPresses + asked /\ n <= asked
    BY <1>1, <2>1, FS_CardinalityType DEF Numbered, CheckTyped
  <2>3. waiting' + n <= MaxPresses + asked /\ waiting' <= MaxPresses + MaxFetches
    BY <1>1, <1>3, <2>2, ErrorConstants DEF PageTyped
  <2> QED
    BY <1>1, <1>2, <2>1, <2>3 DEF Numbered
<1>6. LastAsked' /\ Errors!ShowsTheOneAsked' /\ Errors!RevertsToShown'
  BY <1>1, <1>2 DEF LastAsked, Errors!ShowsTheOneAsked, Errors!RevertsToShown
<1> QED
  BY <1>3, <1>4, <1>5, <1>6, ErrorPartsAfter

\* Every step of the error playground keeps the invariant.
LEMMA ErrorsKeep ==
  ASSUME AnswersDue, [Errors!Next]_errorVars
  PROVE  AnswersDue'
<1>1. CASE UNCHANGED errorVars
  <2>1. UNCHANGED <<select, editor, original, output, compiler, script, waiting, fetches, asked, want, typed, overtaken>>
    BY <1>1 DEF errorVars
  <2> QED
    BY <2>1 DEF AnswersDue, Errors!PageOK, Errors!TypeOK, Errors!WaitingIsServed, Errors!RevertsToShown,
                Errors!ReportIsOfEditor, Errors!ShowsTheOneAsked, LastAsked, Numbered, ReportsAreReal
<1>2. CASE Errors!Pick
  <2>1. PICK name \in Options : select' = name /\ Errors!Ask(name)
    BY <1>2 DEF Errors!Pick
  <2> QED
    BY <2>1, AskKeeps, ErrorConstants
<1>3. CASE Errors!TryIt
  <2>1. PICK name \in Examples : select' = (IF name \in Options THEN name ELSE select) /\ Errors!Ask(name)
    BY <1>3 DEF Errors!TryIt
  <2>2. select' \in Options
    BY <2>1, ErrorParts DEF PageTyped
  <2> QED
    BY <2>1, <2>2, AskKeeps
<1> QED
  BY <1>1, <1>2, <1>3, ArrivesKeeps, FetchFailsKeeps, PressKeeps, TypeKeeps, ScriptKeeps DEF Errors!Next

\* The page opens with one request, for the first example.
LEMMA ErrorsInit == Errors!Init => AnswersDue
<1> SUFFICES ASSUME Errors!Init PROVE AnswersDue
  OBVIOUS
<1> DEFINE f == [n |-> 1, name |-> First, then |-> "intro"]
<1>1. /\ select = First /\ editor = NoText /\ original = NoText /\ output = Errors!Says("empty")
      /\ compiler = "none" /\ script = "none" /\ waiting = 0 /\ fetches = {f} /\ asked = 1 /\ want = First
      /\ typed = FALSE /\ overtaken = FALSE
  BY DEF Errors!Init
<1>2. f \in Errors!Fetches /\ f.n = 1 /\ f.name = First
  BY ErrorConstants DEF Errors!Fetches
<1> HIDE DEF f
<1>3. PageTyped
  <2>1. NoText \in Errors!Texts \ {Typed} /\ 1 \in 1..MaxFetches
    BY ErrorConstants DEF Errors!Texts
  <2> QED
    BY <1>1, <1>2, <2>1, ErrorConstants DEF PageTyped
<1>4. CheckTyped
  <2>1. output \in Errors!Outputs /\ output.kind # "report"
    BY <1>1 DEF Errors!Outputs, Errors!Says
  <2>2. Errors!WaitingIsServed /\ waiting \in Nat
    BY <1>1 DEF Errors!WaitingIsServed
  <2>3. Errors!ReportIsOfEditor /\ ReportsAreReal
    BY <2>1 DEF Errors!ReportIsOfEditor, ReportsAreReal
  <2> QED
    BY <1>1, <2>1, <2>2, <2>3 DEF CheckTyped
<1>5. Numbered /\ waiting <= MaxPresses + MaxFetches
  <2>1. Cardinality(fetches) = 1 /\ IsFiniteSet(fetches)
    BY <1>1, FS_Singleton
  <2> QED
    BY <1>1, <1>2, <2>1, ErrorConstants DEF Numbered
<1>6. LastAsked /\ Errors!ShowsTheOneAsked /\ Errors!RevertsToShown
  BY <1>1, <1>2 DEF LastAsked, Errors!ShowsTheOneAsked, Errors!RevertsToShown
<1> QED
  BY <1>3, <1>4, <1>5, <1>6, ErrorParts

-------------------------------------------------------------------------------
(* The page around the game.                                               *)

RunTexts == Drafts \cup {Source, Nothing}

\* RunsDue, one fact to a variable.
LEMMA RunParts ==
  RunsDue <=> /\ text \in RunTexts /\ screen \in RunTexts /\ starter \in RunTexts /\ parked \in RunTexts
              /\ asks \in RunTexts /\ ran \in RunTexts
              /\ sourceDue \in BOOLEAN /\ staticDue \in BOOLEAN /\ loaded \in BOOLEAN /\ loading \in BOOLEAN
              /\ due \in BOOLEAN /\ late \in BOOLEAN /\ left \in BOOLEAN
              /\ tag \in {"none", "stdlib", "compile", "compile without stdlib"}
              /\ Page!LoaderOK /\ Page!ShowsLastRun /\ Page!NewestRuns /\ NewestWaits
BY DEF RunsDue, Page!RunOK, Page!TypeOK, RunTexts

\* The invariant of the state after a step, part by part.
LEMMA RunPartsAfter ==
  RunsDue' <=> /\ text' \in RunTexts /\ screen' \in RunTexts /\ starter' \in RunTexts /\ parked' \in RunTexts
               /\ asks' \in RunTexts /\ ran' \in RunTexts
               /\ sourceDue' \in BOOLEAN /\ staticDue' \in BOOLEAN /\ loaded' \in BOOLEAN /\ loading' \in BOOLEAN
               /\ due' \in BOOLEAN /\ late' \in BOOLEAN /\ left' \in BOOLEAN
               /\ tag' \in {"none", "stdlib", "compile", "compile without stdlib"}
               /\ Page!LoaderOK' /\ Page!ShowsLastRun' /\ Page!NewestRuns' /\ NewestWaits'
BY DEF RunsDue, Page!RunOK, Page!TypeOK, RunTexts

\* The marks for the game and for nothing are no texts of the reader.
LEMMA RunConstants == /\ Source \notin Drafts /\ Nothing \notin Drafts /\ Nothing # Source /\ Broken \subseteq Drafts
BY PlaygroundsAssumption DEF Page!RunAssumption

\* A text that is compiled is the one the frame shows, or it is broken and the
\* frame is as it was.
LEMMA CompileShows ==
  ASSUME NEW t \in RunTexts, t # Nothing, screen \in RunTexts, late \in BOOLEAN, Page!Compile(t)
  PROVE  /\ screen' \in RunTexts /\ ran' = t /\ late' \in BOOLEAN /\ Page!ShowsLastRun'
BY DEF Page!Compile, Page!Mounted, Page!ShowsLastRun

\* Two runs, one behind the other: the second is what the frame shows.
LEMMA CompileBothShows ==
  ASSUME NEW s \in RunTexts, NEW t \in RunTexts, t # Nothing, screen \in RunTexts, late \in BOOLEAN,
         Page!CompileBoth(s, t)
  PROVE  /\ screen' \in RunTexts /\ ran' = t /\ late' \in BOOLEAN /\ Page!ShowsLastRun'
BY DEF Page!CompileBoth, Page!Mounted, Page!ShowsLastRun

\* A press of Run runs, starts the download, or is parked behind it.
LEMMA RunPressKeeps ==
  ASSUME RunsDue, Page!Press
  PROVE  RunsDue'
<1> USE RunParts
<1>1. /\ text # Nothing /\ asks' = text /\ due' = ~loaded
      /\ text' = text /\ sourceDue' = sourceDue /\ staticDue' = staticDue /\ left' = left
  BY DEF Page!Press
<1>2. CASE loaded
  <2>1. Page!Compile(text) /\ UNCHANGED <<loaded, loading, tag, starter, parked>>
    BY <1>2 DEF Page!Press, Page!loaderVars
  <2>2. screen' \in RunTexts /\ ran' = text /\ late' \in BOOLEAN /\ Page!ShowsLastRun'
    BY <1>1, <2>1, CompileShows
  <2>3. Page!LoaderOK' /\ Page!NewestRuns' /\ NewestWaits'
    BY <1>1, <1>2, <2>1, <2>2 DEF Page!LoaderOK, Page!NewestRuns, NewestWaits
  <2> QED
    BY <1>1, <2>1, <2>2, <2>3, RunPartsAfter
<1>3. CASE ~loaded /\ loading
  <2>1. parked' = text /\ UNCHANGED <<screen, loaded, loading, tag, starter, ran, late>>
    BY <1>3 DEF Page!Press
  <2>2. Page!LoaderOK' /\ Page!NewestRuns' /\ NewestWaits' /\ Page!ShowsLastRun'
    BY <1>1, <1>3, <2>1 DEF Page!LoaderOK, Page!NewestRuns, NewestWaits, Page!ShowsLastRun
  <2> QED
    BY <1>1, <2>1, <2>2, RunPartsAfter
<1>4. CASE ~loaded /\ ~loading
  <2>1. loading' = TRUE /\ tag' = "stdlib" /\ starter' = text /\ UNCHANGED <<screen, loaded, parked, ran, late>>
    BY <1>4 DEF Page!Press
  <2>2. Page!LoaderOK' /\ Page!NewestRuns' /\ NewestWaits' /\ Page!ShowsLastRun'
    BY <1>1, <1>4, <2>1 DEF Page!LoaderOK, Page!NewestRuns, NewestWaits, Page!ShowsLastRun
  <2> QED
    BY <1>1, <2>1, <2>2, RunPartsAfter
<1> QED
  BY <1>2, <1>3, <1>4

\* A script that ends serves whoever waits for it, or forgets them.
LEMMA RunScriptKeeps ==
  ASSUME RunsDue, Page!ScriptEnds
  PROVE  RunsDue'
<1> USE RunParts
<1>1. CASE Page!StdlibEnds
  <2>1. /\ tag = "stdlib" /\ tag' \in {"compile", "compile without stdlib"}
        /\ UNCHANGED <<text, screen, sourceDue, staticDue, loaded, loading, starter, parked, asks, due, ran, late, left>>
    BY <1>1 DEF Page!StdlibEnds, Page!historyVars
  <2>2. Page!LoaderOK' /\ Page!NewestRuns' /\ NewestWaits' /\ Page!ShowsLastRun'
    BY <2>1 DEF Page!LoaderOK, Page!NewestRuns, NewestWaits, Page!ShowsLastRun
  <2> QED
    BY <2>1, <2>2, RunPartsAfter
<1>2. CASE Page!CompilerLoads
  <2>1. /\ tag \in {"compile", "compile without stdlib"}
        /\ loaded' = TRUE /\ loading' = FALSE /\ tag' = "none" /\ starter' = Nothing
        /\ due' = (due /\ ~Page!MayFlush /\ asks # starter)
        /\ UNCHANGED <<text, sourceDue, staticDue, asks>>
    BY <1>2 DEF Page!CompilerLoads
  <2>2. loading /\ starter # Nothing
    BY <2>1 DEF Page!LoaderOK
  <2>3. CASE Page!MayFlush
    <3>1. Page!CompileBoth(starter, parked) /\ parked' = Nothing /\ left' = left /\ parked # Nothing
      BY <1>2, <2>3 DEF Page!CompilerLoads, Page!MayFlush
    <3>2. screen' \in RunTexts /\ ran' = parked /\ late' \in BOOLEAN /\ Page!ShowsLastRun'
      BY <3>1, CompileBothShows
    <3>3. Page!LoaderOK' /\ Page!NewestRuns' /\ NewestWaits'
      BY <2>1, <3>1, <3>2 DEF Page!LoaderOK, Page!NewestRuns, NewestWaits
    <3>4. parked' \in RunTexts /\ due' \in BOOLEAN /\ starter' \in RunTexts
      BY <2>1, <3>1 DEF RunTexts
    <3> QED
      BY <2>1, <3>1, <3>2, <3>3, <3>4, RunPartsAfter
  <2>4. CASE ~Page!MayFlush
    <3>1. Page!Compile(starter) /\ left' = (left \/ parked # Nothing) /\ parked' = parked
      BY <1>2, <2>4 DEF Page!CompilerLoads
    <3>2. screen' \in RunTexts /\ ran' = starter /\ late' \in BOOLEAN /\ Page!ShowsLastRun'
      BY <2>2, <3>1, CompileShows
    <3>3. Page!LoaderOK' /\ Page!NewestRuns' /\ NewestWaits'
      BY <2>1, <2>2, <3>1, <3>2 DEF Page!LoaderOK, Page!NewestRuns, NewestWaits
    <3>4. left' \in BOOLEAN /\ due' \in BOOLEAN /\ starter' \in RunTexts
      BY <2>1, <3>1 DEF RunTexts
    <3> QED
      BY <2>1, <3>1, <3>2, <3>3, <3>4, RunPartsAfter
  <2> QED
    BY <2>3, <2>4
<1>3. CASE Page!CompilerFails
  <2>1. /\ tag \in {"compile", "compile without stdlib"}
        /\ loading' = FALSE /\ tag' = "none" /\ starter' = Nothing /\ due' = FALSE
        /\ left' = (left \/ parked # Nothing)
        /\ UNCHANGED <<text, screen, sourceDue, staticDue, loaded, parked, asks, ran, late>>
    BY <1>3 DEF Page!CompilerFails, Page!FailLoading
  <2>2. loading /\ ~loaded
    BY <2>1 DEF Page!LoaderOK
  <2>3. Page!LoaderOK' /\ Page!NewestRuns' /\ NewestWaits' /\ Page!ShowsLastRun'
    BY <2>1, <2>2 DEF Page!LoaderOK, Page!NewestRuns, NewestWaits, Page!ShowsLastRun
  <2>4. left' \in BOOLEAN /\ due' \in BOOLEAN /\ starter' \in RunTexts
    BY <2>1 DEF RunTexts
  <2> QED
    BY <2>1, <2>3, <2>4, RunPartsAfter
<1> QED
  BY <1>1, <1>2, <1>3 DEF Page!ScriptEnds

\* The two fetches and the reader.
LEMMA RunRestKeeps ==
  ASSUME RunsDue, Page!SourceComes \/ Page!GameComes \/ Page!FetchFails \/ Page!Type
  PROVE  RunsDue'
<1> USE RunParts
<1>1. /\ UNCHANGED <<loaded, loading, tag, starter, parked, asks, due, ran, left>>
      /\ sourceDue' \in BOOLEAN /\ staticDue' \in BOOLEAN /\ text' \in RunTexts
      /\ \/ screen' = screen /\ late' = late
         \/ screen' = Source /\ late' = TRUE
  BY DEF Page!SourceComes, Page!GameComes, Page!FetchFails, Page!Type, Page!loaderVars, Page!historyVars, RunTexts
<1>2. /\ Page!LoaderOK' /\ Page!NewestRuns' /\ NewestWaits'
      /\ Page!ShowsLastRun'
  <2>1. Page!LoaderOK' /\ Page!NewestRuns' /\ NewestWaits'
    BY <1>1 DEF Page!LoaderOK, Page!NewestRuns, NewestWaits
  <2>2. CASE screen' = screen /\ late' = late
    BY <1>1, <2>1, <2>2 DEF Page!ShowsLastRun
  <2>3. CASE screen' = Source /\ late' = TRUE
    BY <1>1, <2>1, <2>3 DEF Page!ShowsLastRun
  <2> QED
    BY <1>1, <2>2, <2>3
<1>3. screen' \in RunTexts /\ late' \in BOOLEAN
  BY <1>1 DEF RunTexts
<1> QED
  BY <1>1, <1>2, <1>3, RunPartsAfter

\* Every step of the page around the game keeps the invariant.
LEMMA RunsKeep ==
  ASSUME RunsDue, [Page!Next]_runVars
  PROVE  RunsDue'
<1>1. CASE UNCHANGED runVars
  <2>1. UNCHANGED <<text, screen, sourceDue, staticDue, loaded, loading, tag, starter, parked, asks, due, ran, late, left>>
    BY <1>1 DEF runVars
  <2> QED
    BY <2>1 DEF RunsDue, Page!RunOK, Page!TypeOK, Page!LoaderOK, Page!NewestRuns, NewestWaits, Page!ShowsLastRun
<1> QED
  BY <1>1, RunPressKeeps, RunScriptKeeps, RunRestKeeps DEF Page!Next, Page!ScriptEnds

\* The page opens with nothing pressed.
LEMMA RunsInit == Page!Init => RunsDue
<1> SUFFICES ASSUME Page!Init PROVE RunsDue
  OBVIOUS
<1>1. /\ text = Nothing /\ screen = Nothing /\ starter = Nothing /\ parked = Nothing /\ asks = Nothing /\ ran = Nothing
      /\ sourceDue = TRUE /\ staticDue = TRUE /\ loaded = FALSE /\ loading = FALSE /\ tag = "none"
      /\ due = FALSE /\ late = FALSE /\ left = FALSE
  BY DEF Page!Init
<1>2. Page!LoaderOK /\ Page!NewestRuns /\ NewestWaits /\ Page!ShowsLastRun
  BY <1>1 DEF Page!LoaderOK, Page!NewestRuns, NewestWaits, Page!ShowsLastRun
<1> QED
  BY <1>1, <1>2, RunParts DEF RunTexts

-------------------------------------------------------------------------------
(* Time travel.                                                            *)

\* A history of at least two frames, and at least one frame to play.
LEMMA TravelConstants == Cap \in Nat /\ Cap >= 2 /\ MaxFrames \in Nat /\ MaxFrames >= 1
BY PlaygroundsAssumption DEF Travel!TimeTravelAssumption

\* Kept, one fact to a variable.
TravelTyped ==
  /\ game \in Travel!Snapshots /\ last \in 1..MaxFrames
  /\ history \in Seq(Travel!Snapshots) /\ index \in 1..Len(history) /\ Len(history) <= Cap
  /\ following \in BOOLEAN /\ (following => index = Len(history))
  /\ pending \in 0..Cap /\ strayed \in BOOLEAN

Frames ==
  /\ Travel!OldestFirst /\ Travel!RecordsRunning /\ Travel!BranchesForward /\ NoneAhead

\* The invariant in the parts the steps change together.
LEMMA TravelParts == Kept <=> TravelTyped /\ Frames /\ Travel!ShownIsIndexed
<1>1. ASSUME history \in Seq(Travel!Snapshots)
      PROVE  /\ DOMAIN history = 1..Len(history) /\ Len(history) \in Nat
  BY <1>1
<1>2. ASSUME TravelTyped PROVE index \in 1..Cap
  <2>1. PICK n \in Nat : n = Len(history) /\ index \in 1..n /\ n <= Cap
    BY <1>2 DEF TravelTyped
  <2> QED
    BY <2>1, TravelConstants
<1> QED
  BY <1>1, <1>2 DEF Kept, TravelTyped, Frames, Travel!HistoryOK, Travel!TypeOK, Travel!InBounds

\* The same of the state after a step.
LEMMA TravelPartsAfter == Kept' <=> TravelTyped' /\ Frames' /\ Travel!ShownIsIndexed'
<1>1. ASSUME history' \in Seq(Travel!Snapshots)
      PROVE  /\ DOMAIN history' = 1..Len(history') /\ Len(history') \in Nat
  BY <1>1
<1>2. ASSUME TravelTyped' PROVE index' \in 1..Cap
  <2>1. PICK n \in Nat : n = Len(history') /\ index' \in 1..n /\ n <= Cap
    BY <1>2 DEF TravelTyped
  <2> QED
    BY <2>1, TravelConstants
<1> QED
  BY <1>1, <1>2 DEF Kept, TravelTyped, Frames, Travel!HistoryOK, Travel!TypeOK, Travel!InBounds

\* The board shows a recorded frame when it differs from it in the pause at most.
Shows(f, g) == f.id = g.id /\ f.from = g.from /\ f.over = g.over

\* Two frames look alike when they differ at most in the pause.
LEMMA ShowsIs ==
  ASSUME NEW f \in Travel!Snapshots, NEW g \in Travel!Snapshots
  PROVE  [f EXCEPT !.paused = FALSE] = [g EXCEPT !.paused = FALSE] <=> Shows(f, g)
<1> DEFINE a == [f EXCEPT !.paused = FALSE]
           b == [g EXCEPT !.paused = FALSE]
<1>1. /\ a.id = f.id /\ a.from = f.from /\ a.over = f.over /\ b.id = g.id /\ b.from = g.from /\ b.over = g.over
      /\ a.paused = FALSE /\ b.paused = FALSE /\ a \in Travel!Snapshots /\ b \in Travel!Snapshots
  BY DEF Travel!Snapshots
<1> HIDE DEF a, b
<1>2. (a.id = b.id /\ a.from = b.from /\ a.over = b.over /\ a.paused = b.paused) => a = b
  BY <1>1 DEF Travel!Snapshots
<1> QED
  BY <1>1, <1>2 DEF Shows, a, b

\* The history with a frame at its end, and at its cap without its first.
Shifted(h, g, f, d) ==
  /\ h \in Seq(Travel!Snapshots) /\ Len(h) = Len(g) + 1 - d
  /\ \A i \in 1..(Len(g) - d) : h[i] = g[i + d]
  /\ h[Len(g) + 1 - d] = f

\* A frame recorded in a full history shifts it by one, in any other by none.
LEMMA RecordedHas ==
  ASSUME NEW g \in Seq(Travel!Snapshots), Len(g) >= 1, Len(g) <= Cap, NEW f \in Travel!Snapshots,
         NEW h, h = IF Len(Append(g, f)) > Cap THEN Tail(Append(g, f)) ELSE Append(g, f)
  PROVE  \E d \in {0, 1} : Shifted(h, g, f, d) /\ (d = 1 <=> Len(g) = Cap)
<1> DEFINE n == Len(g)
<1>1. PICK a : a = Append(g, f)
  OBVIOUS
<1>2. /\ a \in Seq(Travel!Snapshots) /\ Len(a) = n + 1 /\ n \in Nat /\ a[n + 1] = f
      /\ \A i \in 1..n : a[i] = g[i]
  BY <1>1
<1>3. h = IF n + 1 > Cap THEN Tail(a) ELSE a
  BY <1>1, <1>2
<1>4. CASE n = Cap
  <2>1. h = Tail(a) /\ a # <<>>
    BY <1>2, <1>3, <1>4, TravelConstants
  <2>2. h \in Seq(Travel!Snapshots) /\ Len(h) = n /\ \A i \in 1..n : h[i] = a[i + 1]
    BY <1>2, <2>1
  <2>3. Shifted(h, g, f, 1)
    <3>1. \A i \in 1..(n - 1) : h[i] = g[i + 1]
      BY <1>2, <2>2
    <3>2. h[n] = f /\ n + 1 - 1 = n
      BY <1>2, <2>2
    <3> QED
      BY <2>2, <3>1, <3>2 DEF Shifted
  <2> QED
    BY <1>4, <2>3
<1>5. CASE n # Cap
  <2>1. h = a
    BY <1>2, <1>3, <1>5, TravelConstants
  <2>2. Shifted(h, g, f, 0)
    BY <1>2, <2>1 DEF Shifted
  <2> QED
    BY <1>5, <2>2
<1> QED
  BY <1>4, <1>5

\* The first n frames of a history are in order, and none is newer than l.
InOrder(g, n, l) ==
  /\ \A i \in 1..n : g[i].id \in Nat /\ g[i].id <= l
  /\ \A i, j \in 1..n : i < j => g[i].id < g[j].id

\* What the observer leaves of an ordered history: an ordered history. d is 1
\* when the cap costs it its first frame.
LEMMA OrderedAfter ==
  ASSUME NEW g, NEW h, NEW n \in Nat, NEW m \in Nat, NEW d \in {0, 1}, NEW l \in Nat,
         m = n + 1 - d, m >= 1, h[m].id = l + 1, InOrder(g, n, l),
         \A i \in 1..(m - 1) : i + d \in 1..n /\ h[i] = g[i + d]
  PROVE  InOrder(h, m, l + 1)
<1>0. /\ \A i \in 1..n : g[i].id \in Nat /\ g[i].id <= l
      /\ \A i, j \in 1..n : i < j => g[i].id < g[j].id
  BY DEF InOrder
<1>1. \A i \in 1..m : i = m \/ (i \in 1..(m - 1) /\ i + d \in 1..n /\ h[i] = g[i + d])
  OBVIOUS
<1>2. ASSUME NEW i \in 1..m PROVE h[i].id \in Nat /\ h[i].id <= l + 1
  <2>1. CASE i = m
    BY <2>1
  <2>2. CASE i \in 1..(m - 1) /\ i + d \in 1..n /\ h[i] = g[i + d]
    BY <1>0, <2>2
  <2> QED
    BY <1>1, <2>1, <2>2
<1>3. ASSUME NEW i \in 1..m, NEW j \in 1..m, i < j PROVE h[i].id < h[j].id
  <2>1. i + d \in 1..n /\ h[i] = g[i + d]
    BY <1>1, <1>3
  <2>2. g[i + d].id \in Nat /\ g[i + d].id <= l
    BY <1>0, <2>1
  <2>3. CASE j = m
    BY <2>1, <2>2, <2>3
  <2>4. CASE j \in 1..(m - 1) /\ j + d \in 1..n /\ h[j] = g[j + d]
    <3>1. i + d < j + d
      BY <1>3
    <3> QED
      BY <1>0, <2>1, <2>4, <3>1
  <2> QED
    BY <1>1, <2>3, <2>4
<1> QED
  BY <1>2, <1>3 DEF InOrder

\* And each frame of it still comes from the one before it.
LEMMA BranchesAfter ==
  ASSUME NEW g, NEW h, NEW n \in Nat, NEW m \in Nat, NEW d \in {0, 1},
         m = n + 1 - d, h[m].from = 0 \/ h[m].from = g[n].id,
         \A i \in 1..(m - 1) : i + d \in 1..n /\ h[i] = g[i + d],
         \A i \in 1..(n - 1) : g[i + 1].from = 0 \/ g[i + 1].from = g[i].id
  PROVE  \A i \in 1..(m - 1) : h[i + 1].from = 0 \/ h[i + 1].from = h[i].id
<1> SUFFICES ASSUME NEW i \in 1..(m - 1) PROVE h[i + 1].from = 0 \/ h[i + 1].from = h[i].id
  OBVIOUS
<1>1. h[i] = g[i + d] /\ i + d \in 1..n
  OBVIOUS
<1>2. CASE i = m - 1
  <2>1. i + d = n /\ i + 1 = m
    BY <1>2
  <2> QED
    BY <1>1, <2>1
<1>3. CASE i # m - 1
  <2>1. i + 1 \in 1..(m - 1) /\ (i + 1) + d = (i + d) + 1
    BY <1>3
  <2>2. h[i + 1] = g[(i + 1) + d] /\ (i + 1) + d \in 1..n
    BY <2>1
  <2>3. i + d \in 1..(n - 1)
    BY <1>1, <2>1, <2>2
  <2> QED
    BY <1>1, <2>1, <2>2, <2>3
<1> QED
  BY <1>2, <1>3

\* Kept without a set of two to be in.
LEMMA BranchesIs ==
  /\ Travel!BranchesForward <=>
       (~strayed => \A i \in 1..(Len(history) - 1) : history[i + 1].from = 0 \/ history[i + 1].from = history[i].id)
  /\ Travel!BranchesForward' <=>
       (~strayed' => \A i \in 1..(Len(history') - 1) : history'[i + 1].from = 0 \/ history'[i + 1].from = history'[i].id)
BY DEF Travel!BranchesForward

\* A frame is played: the observer of data-seq records it. The reader looks at
\* the last one, or has pressed P or R in the past.
LEMMA PlayedKeeps ==
  ASSUME Kept, NEW f \in Travel!Snapshots, f.id = last + 1, ~f.paused, f.from = 0 \/ f.from = game.id, Travel!Played(f),
         strayed' \in BOOLEAN, strayed => strayed', strayed' \/ following
  PROVE  Kept'
<1>1. TravelTyped /\ Frames /\ Travel!ShownIsIndexed
  BY TravelParts
<1>2. /\ last < MaxFrames /\ last' = last + 1 /\ game' = f
      /\ history' = IF Len(Append(history, f)) > Cap THEN Tail(Append(history, f)) ELSE Append(history, f)
      /\ index' = IF following THEN Len(history') ELSE index
      /\ following' = following /\ pending' = pending
  BY DEF Travel!Played, Travel!Recorded
<1>3. PICK n \in Nat : n = Len(history) /\ n >= 1 /\ n <= Cap /\ index \in 1..n /\ (following => index = n)
  BY <1>1 DEF TravelTyped
<1>4. history \in Seq(Travel!Snapshots) /\ DOMAIN history = 1..n
  BY <1>1, <1>3 DEF TravelTyped
<1>5. PICK d \in {0, 1} : Shifted(history', history, f, d) /\ (d = 1 <=> n = Cap)
  BY <1>2, <1>3, <1>4, RecordedHas
<1>6. PICK m \in Nat : m = Len(history') /\ m = n + 1 - d /\ m >= n /\ m <= Cap /\ m >= 1
  <2>1. Len(history') = n + 1 - d
    BY <1>3, <1>5 DEF Shifted
  <2>2. n + 1 - d \in Nat /\ n + 1 - d >= n /\ n + 1 - d <= Cap
    BY <1>3, <1>5, TravelConstants
  <2> QED
    BY <1>3, <2>1, <2>2
<1>7. history' \in Seq(Travel!Snapshots) /\ DOMAIN history' = 1..m
  BY <1>5, <1>6 DEF Shifted
<1>8. history'[m] = f
  BY <1>3, <1>5, <1>6 DEF Shifted
<1>9. \A i \in 1..(m - 1) : i + d \in 1..n /\ history'[i] = history[i + d]
  <2>1. m - 1 = n - d
    BY <1>6
  <2>2. \A i \in 1..(n - d) : history'[i] = history[i + d]
    BY <1>3, <1>5 DEF Shifted
  <2>3. \A i \in 1..(n - d) : i + d \in 1..n
    OBVIOUS
  <2> QED
    BY <2>1, <2>2, <2>3
<1>10. last \in Nat /\ last \in 1..MaxFrames
  BY <1>1, TravelConstants DEF TravelTyped
<1>11. TravelTyped'
  <2>1. last' \in 1..MaxFrames
    BY <1>2, <1>10, TravelConstants
  <2>2. index' \in 1..m /\ (following => index' = m)
    BY <1>2, <1>3, <1>6
  <2> QED
    BY <1>1, <1>2, <1>6, <1>7, <2>1, <2>2 DEF TravelTyped
<1>12. Travel!OldestFirst' /\ NoneAhead'
  <2>1. ASSUME NEW i \in 1..n PROVE history[i].id \in Nat
    <3>1. history[i] \in Travel!Snapshots
      BY <1>4
    <3> QED
      BY <3>1, TravelConstants DEF Travel!Snapshots
  <2>2. \A i \in 1..n : history[i].id <= last
    BY <1>1, <1>4 DEF Frames, NoneAhead
  <2>3. \A i, j \in 1..n : i < j => history[i].id < history[j].id
    BY <1>1, <1>4 DEF Frames, Travel!OldestFirst
  <2>4. /\ \A i \in 1..m : history'[i].id <= last + 1
        /\ \A i, j \in 1..m : i < j => history'[i].id < history'[j].id
    <3>1. PICK g, h, l : g = history /\ h = history' /\ l = last
      OBVIOUS
    <3>2. l \in Nat /\ h[m].id = l + 1 /\ \A i \in 1..(m - 1) : i + d \in 1..n /\ h[i] = g[i + d]
      BY <1>8, <1>9, <1>10, <3>1
    <3>3. InOrder(g, n, l)
      BY <2>1, <2>2, <2>3, <3>1 DEF InOrder
    <3>4. m = n + 1 - d /\ m >= 1
      BY <1>6
    <3>5. InOrder(h, m, l + 1)
      BY <3>2, <3>3, <3>4, OrderedAfter
    <3> QED
      BY <3>1, <3>5 DEF InOrder
  <2> QED
    BY <1>2, <1>7, <2>4 DEF Travel!OldestFirst, NoneAhead
<1>13. Travel!RecordsRunning'
  <2> SUFFICES ASSUME NEW i \in 1..m PROVE ~history'[i].paused
    BY <1>7 DEF Travel!RecordsRunning
  <2>1. i = m \/ i \in 1..(m - 1)
    BY <1>6
  <2> QED
    BY <1>1, <1>4, <1>8, <1>9, <2>1 DEF Frames, Travel!RecordsRunning
<1>14. ASSUME ~strayed'
       PROVE  following /\ ~strayed /\ index' = m /\ index = n
  BY <1>2, <1>3, <1>6, <1>14
<1>15. Travel!ShownIsIndexed'
  BY <1>2, <1>8, <1>14 DEF Travel!ShownIsIndexed
<1>16. Travel!BranchesForward'
  <2> SUFFICES ASSUME ~strayed'
               PROVE  \A i \in 1..(m - 1) : history'[i + 1].from = 0 \/ history'[i + 1].from = history'[i].id
    BY <1>6, BranchesIs
  <2>1. game.id = history[n].id
    <3>1. history[n] \in Travel!Snapshots /\ game \in Travel!Snapshots
      BY <1>1, <1>3, <1>4 DEF TravelTyped
    <3>2. Shows(game, history[n])
      BY <1>1, <1>14, <3>1, ShowsIs DEF Travel!ShownIsIndexed
    <3> QED
      BY <3>2 DEF Shows
  <2>2. \A i \in 1..(n - 1) : history[i + 1].from = 0 \/ history[i + 1].from = history[i].id
    BY <1>1, <1>3, <1>14, BranchesIs DEF Frames
  <2> QED
    BY <1>6, <1>8, <1>9, <2>1, <2>2, BranchesAfter, SMTT(30)
<1> QED
  BY <1>11, <1>12, <1>13, <1>15, <1>16, TravelPartsAfter DEF Frames

\* restart(): a new game, the only frame that comes from none.
LEMMA RestartKeeps == ASSUME Kept, Travel!Restart PROVE Kept'
<1> DEFINE f == Travel!Restarted
<1>1. TravelTyped
  BY TravelParts
<1>2. last \in Nat /\ last + 1 \in 1..MaxFrames /\ 0 \in 0..MaxFrames
  BY <1>1, TravelConstants DEF TravelTyped, Travel!Restart, Travel!Played
<1>3. f \in Travel!Snapshots /\ f.id = last + 1 /\ ~f.paused /\ f.from = 0
  BY <1>2 DEF Travel!Restarted, Travel!NewGame, Travel!Snapshots
<1>4. Travel!Played(f) /\ strayed' = (strayed \/ ~following)
  BY DEF Travel!Restart
<1>5. strayed' \in BOOLEAN /\ (strayed => strayed') /\ (strayed' \/ following)
  BY <1>1, <1>4 DEF TravelTyped
<1> HIDE DEF f
<1> QED
  BY <1>3, <1>4, <1>5, PlayedKeeps

\* with_state(): a frame from the one on the board, which is not paused, so the
\* reader is at the last one or has pressed P in the past.
LEMMA CommitKeeps == ASSUME Kept, Travel!Commit PROVE Kept'
<1>1. TravelTyped /\ Travel!ShownIsIndexed
  BY TravelParts
<1>2. PICK over1 \in BOOLEAN :
        Travel!Played([id |-> last + 1, from |-> game.id, over |-> over1, paused |-> game.paused])
  BY DEF Travel!Commit
<1>3. PICK f : f = [id |-> last + 1, from |-> game.id, over |-> over1, paused |-> game.paused]
  OBVIOUS
<1>4. ~game.paused /\ strayed' = strayed /\ last < MaxFrames
  BY <1>2 DEF Travel!Commit, Travel!Played
<1>5. last + 1 \in 1..MaxFrames
  BY <1>1, <1>4, TravelConstants DEF TravelTyped
<1>6. game.id \in 0..MaxFrames /\ game.paused = FALSE
  <2>1. game.id \in 1..MaxFrames /\ game.paused \in BOOLEAN
    BY <1>1 DEF TravelTyped, Travel!Snapshots
  <2> QED
    BY <1>4, <2>1, TravelConstants
<1>7. f \in Travel!Snapshots /\ f.id = last + 1 /\ ~f.paused /\ f.from = game.id
  BY <1>3, <1>5, <1>6 DEF Travel!Snapshots
<1>8. strayed' \in BOOLEAN /\ (strayed => strayed') /\ (strayed' \/ following)
  BY <1>1, <1>4 DEF TravelTyped, Travel!ShownIsIndexed
<1>9. Travel!Played(f)
  BY <1>2, <1>3
<1> QED
  BY <1>7, <1>8, <1>9, PlayedKeeps

\* The frames recorded, while none is.
LEMMA FramesStay ==
  ASSUME Frames, history' = history, last' = last, strayed => strayed'
  PROVE  Frames'
BY DEF Frames, Travel!OldestFirst, Travel!RecordsRunning, Travel!BranchesForward, NoneAhead

\* A frame written back.
LEMMA RestoreShows ==
  ASSUME NEW s \in Travel!Snapshots, NEW p \in BOOLEAN, NEW f, f = [s EXCEPT !.paused = p]
  PROVE  f \in Travel!Snapshots /\ Shows(f, s) /\ f.paused = p
BY DEF Travel!Snapshots, Shows

\* What the board shows, in the frame's attributes.
LEMMA ShownParts ==
  ASSUME TravelTyped
  PROVE  Travel!ShownIsIndexed <=> (~strayed => Shows(game, history[index]) /\ (~following => game.paused))
<1>1. history[index] \in Travel!Snapshots /\ game \in Travel!Snapshots
  BY DEF TravelTyped
<1> QED
  BY <1>1, ShowsIs DEF Travel!ShownIsIndexed

\* What the board shows after a step, with the types known.
LEMMA ShownPartsAfter ==
  ASSUME TravelTyped'
  PROVE  Travel!ShownIsIndexed' <=> (~strayed' => Shows(game', history'[index']) /\ (~following' => game'.paused))
<1>1. history'[index'] \in Travel!Snapshots /\ game' \in Travel!Snapshots
  BY DEF TravelTyped
<1> QED
  BY <1>1, ShowsIs DEF Travel!ShownIsIndexed

\* P, or the pause button: only in the past does it change what is recorded of the
\* reader.
LEMMA TogglePauseKeeps == ASSUME Kept, Travel!TogglePause PROVE Kept'
<1>1. TravelTyped /\ Frames /\ Travel!ShownIsIndexed
  BY TravelParts
<1>2. /\ strayed' = (strayed \/ ~following) /\ game' = [game EXCEPT !.paused = ~game.paused]
      /\ last' = last /\ history' = history /\ index' = index /\ following' = following /\ pending' = pending
  BY DEF Travel!TogglePause
<1>3. game \in Travel!Snapshots /\ game.paused \in BOOLEAN
  BY <1>1 DEF TravelTyped, Travel!Snapshots
<1>4. game' \in Travel!Snapshots /\ Shows(game', game)
  BY <1>2, <1>3, RestoreShows
<1>5. TravelTyped'
  BY <1>1, <1>2, <1>4 DEF TravelTyped
<1>6. Travel!ShownIsIndexed'
  BY <1>1, <1>2, <1>4, <1>5, ShownParts, ShownPartsAfter DEF Shows
<1>7. Frames'
  BY <1>1, <1>2, FramesStay
<1> QED
  BY <1>5, <1>6, <1>7, TravelPartsAfter

\* The bar moves to a recorded frame: the board shows it, paused but for the last.
LEMMA ScrubKeeps ==
  ASSUME Kept, NEW i \in Int, Travel!ScrubTo(i), last' = last, strayed' = strayed, pending' \in 0..Cap
  PROVE  Kept'
<1>1. TravelTyped /\ Frames
  BY TravelParts
<1>2. PICK n \in Nat : n = Len(history) /\ n >= 1 /\ n <= Cap
  BY <1>1 DEF TravelTyped
<1>3. index' \in 1..n
  BY <1>2 DEF Travel!ScrubTo, Travel!Within
<1>4. history' = history /\ following' = (index' = n)
  BY <1>2 DEF Travel!ScrubTo
<1>5. history[index'] \in Travel!Snapshots /\ ~history[index'].paused
  BY <1>1, <1>2, <1>3 DEF TravelTyped, Frames, Travel!RecordsRunning
<1>6. PICK s : s = history[index']
  OBVIOUS
<1>7. PICK p \in BOOLEAN : p = ~following' /\ game' = [s EXCEPT !.paused = p]
  BY <1>5, <1>6, <1>4 DEF Travel!ScrubTo, Travel!Restore, Travel!ScrubPauses, Travel!Snapshots
<1>8. game' \in Travel!Snapshots /\ Shows(game', s) /\ game'.paused = ~following'
  <2>1. PICK b : b = game'
    OBVIOUS
  <2>2. s \in Travel!Snapshots /\ b = [s EXCEPT !.paused = p]
    BY <1>5, <1>6, <1>7, <2>1
  <2>3. b \in Travel!Snapshots /\ Shows(b, s) /\ b.paused = p
    BY <2>2, RestoreShows
  <2> QED
    BY <1>7, <2>1, <2>3
<1>9. TravelTyped'
  BY <1>1, <1>2, <1>3, <1>4, <1>8 DEF TravelTyped
<1>10. Travel!ShownIsIndexed'
  BY <1>4, <1>6, <1>8, <1>9, ShownPartsAfter
<1>11. Frames'
  BY <1>1, <1>4, FramesStay
<1> QED
  BY <1>9, <1>10, <1>11, TravelPartsAfter

\* Stepping, and the animation frame of a drag.
LEMMA BarKeeps == ASSUME Kept, Travel!Back \/ Travel!Forward \/ Travel!AnimationFrame PROVE Kept'
<1>1. TravelTyped
  BY TravelParts
<1>2. index \in Int /\ pending \in 0..Cap /\ pending \in Int /\ 0 \in 0..Cap
  <2>1. PICK n \in Nat : index \in 1..n
    BY <1>1 DEF TravelTyped
  <2> QED
    BY <1>1, <2>1, TravelConstants DEF TravelTyped
<1>3. PICK i \in Int : Travel!ScrubTo(i) /\ pending' \in 0..Cap
  BY <1>2 DEF Travel!Back, Travel!Forward, Travel!AnimationFrame
<1>4. last' = last /\ strayed' = strayed
  BY DEF Travel!Back, Travel!Forward, Travel!AnimationFrame
<1> QED
  BY <1>3, <1>4, ScrubKeeps

\* Dragging schedules one position.
LEMMA SlideKeeps == ASSUME Kept, Travel!Slide PROVE Kept'
<1>1. TravelTyped /\ Frames /\ Travel!ShownIsIndexed
  BY TravelParts
<1>2. pending' \in 0..Cap
  <2>1. PICK n \in Nat : n = Len(history) /\ n <= Cap
    BY <1>1 DEF TravelTyped
  <2>2. pending' \in 1..n
    BY <1>1, <2>1 DEF Travel!Slide, TravelTyped
  <2> QED
    BY <2>1, <2>2, TravelConstants
<1>3. UNCHANGED <<game, last, history, index, following, strayed>>
  BY DEF Travel!Slide
<1>4. TravelTyped'
  BY <1>1, <1>2, <1>3 DEF TravelTyped
<1>5. Frames' /\ Travel!ShownIsIndexed'
  BY <1>1, <1>3, FramesStay DEF Travel!ShownIsIndexed
<1> QED
  BY <1>4, <1>5, TravelPartsAfter

\* Resuming keeps the frames up to the one shown, and plays on from it.
LEMMA ResumeKeeps == ASSUME Kept, Travel!Resume PROVE Kept'
<1>1. TravelTyped /\ Frames
  BY TravelParts
<1>2. PICK n \in Nat : n = Len(history) /\ n >= 1 /\ n <= Cap /\ index \in 1..n
  BY <1>1 DEF TravelTyped
<1>3. PICK m \in Nat : m = index /\ m >= 1 /\ m <= n
  BY <1>2
<1>4. /\ history' = SubSeq(history, 1, m) /\ following' = TRUE /\ game' = [history[m] EXCEPT !.paused = FALSE]
      /\ last' = last /\ index' = index /\ pending' = pending /\ strayed' = strayed
  BY <1>3 DEF Travel!Resume, Travel!Kept, Travel!Restore
<1>5. history \in Seq(Travel!Snapshots) /\ DOMAIN history = 1..n
  BY <1>1, <1>2 DEF TravelTyped
<1>6. /\ history' \in Seq(Travel!Snapshots) /\ Len(history') = m /\ DOMAIN history' = 1..m
      /\ \A i \in 1..m : history'[i] = history[i]
  BY <1>2, <1>3, <1>4, <1>5
<1>7. history[m] \in Travel!Snapshots /\ m \in 1..m
  BY <1>2, <1>3, <1>5
<1>8. game' \in Travel!Snapshots /\ Shows(game', history[m])
  BY <1>4, <1>7, RestoreShows
<1>9. TravelTyped'
  <2>1. index' \in 1..m /\ index' = m /\ m <= Cap
    BY <1>2, <1>3, <1>4, TravelConstants
  <2> QED
    BY <1>1, <1>4, <1>6, <1>8, <2>1 DEF TravelTyped
<1>10. Travel!ShownIsIndexed'
  BY <1>3, <1>4, <1>6, <1>7, <1>8, <1>9, ShownPartsAfter
<1>11. 1..m \subseteq 1..n /\ \A i \in 1..(m - 1) : i \in 1..m /\ i + 1 \in 1..m /\ i \in 1..(n - 1)
  BY <1>2, <1>3
<1>12. Frames'
  <2>1. Travel!OldestFirst' /\ Travel!RecordsRunning' /\ NoneAhead'
    BY <1>1, <1>4, <1>5, <1>6, <1>11 DEF Frames, Travel!OldestFirst, Travel!RecordsRunning, NoneAhead
  <2>2. Travel!BranchesForward'
    BY <1>1, <1>2, <1>4, <1>6, <1>11, BranchesIs DEF Frames
  <2> QED
    BY <2>1, <2>2 DEF Frames
<1> QED
  BY <1>9, <1>10, <1>12, TravelPartsAfter

\* Every step of the game and its history keeps the invariant.
LEMMA TravelKeeps == Kept /\ [Travel!Next]_travelVars => Kept'
<1> SUFFICES ASSUME Kept, [Travel!Next]_travelVars PROVE Kept'
  OBVIOUS
<1>1. CASE UNCHANGED travelVars
  <2>1. TravelTyped /\ Frames /\ Travel!ShownIsIndexed
    BY TravelParts
  <2>2. TravelTyped' /\ Travel!ShownIsIndexed'
    BY <1>1, <2>1 DEF travelVars, TravelTyped, Travel!ShownIsIndexed
  <2>3. Frames'
    BY <1>1, <2>1, FramesStay DEF travelVars
  <2> QED
    BY <2>2, <2>3, TravelPartsAfter
<1>2. CASE Travel!Ignored
  BY <1>1, <1>2 DEF Travel!Ignored, Travel!vars, travelVars
<1>3. CASE Travel!Next /\ ~Travel!Ignored
  BY <1>3, CommitKeeps, RestartKeeps, TogglePauseKeeps, BarKeeps, SlideKeeps, ResumeKeeps DEF Travel!Next
<1> QED
  BY <1>1, <1>2, <1>3

\* The history begins with the first frame.
LEMMA TravelInit == Travel!Init => Kept
<1> SUFFICES ASSUME Travel!Init PROVE Kept
  OBVIOUS
<1> DEFINE f == Travel!NewGame(1)
<1>1. f \in Travel!Snapshots /\ f.id = 1 /\ ~f.paused
  BY TravelConstants DEF Travel!NewGame, Travel!Snapshots
<1>2. game = f /\ last = 1 /\ history = <<f>> /\ index = 1 /\ following = TRUE /\ pending = 0 /\ strayed = FALSE
  BY DEF Travel!Init
<1> HIDE DEF f
<1>3. history \in Seq(Travel!Snapshots) /\ Len(history) = 1 /\ DOMAIN history = {1} /\ history[1] = f
  BY <1>1, <1>2
<1>4. TravelTyped
  <2>1. 1 \in 1..1 /\ 1 \in 1..MaxFrames /\ 1 <= Cap /\ 0 \in 0..Cap
    BY TravelConstants
  <2> QED
    BY <1>1, <1>2, <1>3, <2>1 DEF TravelTyped
<1>5. Frames
  <2>1. Travel!OldestFirst /\ Travel!RecordsRunning /\ NoneAhead
    BY <1>1, <1>2, <1>3 DEF Travel!OldestFirst, Travel!RecordsRunning, NoneAhead
  <2>2. Travel!BranchesForward
    BY <1>3 DEF Travel!BranchesForward
  <2> QED
    BY <2>1, <2>2 DEF Frames
<1>6. Travel!ShownIsIndexed
  BY <1>2, <1>3, <1>4, ShownParts DEF Shows
<1> QED
  BY <1>4, <1>5, <1>6, TravelParts

\* In the past the board is paused, so no frame is played there by the clock or a
\* key of the game; and whoever restarts there has strayed.
LEMMA FrozenStep ==
  ASSUME Kept, [Travel!Next]_travelVars, ~following, ~strayed'
  PROVE  last' = last
<1>1. TravelTyped /\ Travel!ShownIsIndexed
  BY TravelParts
<1>2. CASE Travel!Commit
  BY <1>1, <1>2 DEF Travel!Commit, Travel!ShownIsIndexed
<1>3. CASE Travel!Restart
  BY <1>3 DEF Travel!Restart
<1>4. CASE ~Travel!Commit /\ ~Travel!Restart
  BY <1>4 DEF Travel!Next, Travel!Ignored, Travel!TogglePause, Travel!Back, Travel!Forward, Travel!Slide,
       Travel!AnimationFrame, Travel!Resume, Travel!vars, travelVars
<1> QED
  BY <1>2, <1>3, <1>4

-------------------------------------------------------------------------------
(* The game: pieces.                                                       *)

\* What PlaygroundsAssumption says of the game.
LEMMA GameConstants ==
  /\ Width \in Nat /\ Width >= 4 /\ Height \in Nat /\ Height >= 3 /\ MaxLocked \in Nat
  /\ SpawnX \in Nat /\ SpawnX + 4 <= Width
  /\ Pieces \subseteq {"I", "O", "T", "S", "Z", "J", "L"}
BY PlaygroundsAssumption DEF Tetris!TetrisAssumption

Box == (0..3) \X (0..3)

FourApart(S) == \E a, b, c, d : S = {a, b, c, d} /\ a # b /\ a # c /\ a # d /\ b # c /\ b # d /\ c # d

\* Four different cells are four cells.
LEMMA FourOfThem ==
  ASSUME NEW S, FourApart(S)
  PROVE  IsFiniteSet(S) /\ Cardinality(S) = 4
<1> PICK a, b, c, d : S = {a, b, c, d} /\ a # b /\ a # c /\ a # d /\ b # c /\ b # d /\ c # d
  BY DEF FourApart
<1>1. IsFiniteSet({a}) /\ Cardinality({a}) = 1
  BY FS_Singleton
<1>2. IsFiniteSet({a} \cup {b}) /\ Cardinality({a} \cup {b}) = 2
  BY <1>1, FS_AddElement
<1>3. IsFiniteSet(({a} \cup {b}) \cup {c}) /\ Cardinality(({a} \cup {b}) \cup {c}) = 3
  BY <1>2, FS_AddElement
<1>4. IsFiniteSet((({a} \cup {b}) \cup {c}) \cup {d}) /\ Cardinality((({a} \cup {b}) \cup {c}) \cup {d}) = 4
  BY <1>3, FS_AddElement
<1>5. (({a} \cup {b}) \cup {c}) \cup {d} = S
  OBVIOUS
<1> QED
  BY <1>4, <1>5

\* A piece has four cells in the upper part of its box.
LEMMA ShapeIs ==
  ASSUME NEW p \in Pieces
  PROVE  /\ Tetris!Shape(p) \subseteq (0..3) \X (0..2)
         /\ IsFiniteSet(Tetris!Shape(p)) /\ Cardinality(Tetris!Shape(p)) = 4
<1> DEFINE Four(S) == \E a, b, c, d \in (0..3) \X (0..2) :
              S = {a, b, c, d} /\ a # b /\ a # c /\ a # d /\ b # c /\ b # d /\ c # d
<1>1. p \in {"I", "O", "T", "S", "Z", "J", "L"}
  BY GameConstants
<1>2. Four(Tetris!Shape(p))
  <2>1. CASE p = "I"
    <3>1. Tetris!Shape(p) = {<<0, 1>>, <<1, 1>>, <<2, 1>>, <<3, 1>>}
      BY <2>1 DEF Tetris!Shape
    <3> WITNESS <<0, 1>> \in (0..3) \X (0..2), <<1, 1>> \in (0..3) \X (0..2), <<2, 1>> \in (0..3) \X (0..2), <<3, 1>> \in (0..3) \X (0..2)
    <3> QED
      BY <3>1
  <2>2. CASE p = "O"
    <3>1. Tetris!Shape(p) = {<<1, 1>>, <<2, 1>>, <<1, 2>>, <<2, 2>>}
      BY <2>2 DEF Tetris!Shape
    <3> WITNESS <<1, 1>> \in (0..3) \X (0..2), <<2, 1>> \in (0..3) \X (0..2), <<1, 2>> \in (0..3) \X (0..2), <<2, 2>> \in (0..3) \X (0..2)
    <3> QED
      BY <3>1
  <2>3. CASE p = "T"
    <3>1. Tetris!Shape(p) = {<<1, 1>>, <<0, 2>>, <<1, 2>>, <<2, 2>>}
      BY <2>3 DEF Tetris!Shape
    <3> WITNESS <<1, 1>> \in (0..3) \X (0..2), <<0, 2>> \in (0..3) \X (0..2), <<1, 2>> \in (0..3) \X (0..2), <<2, 2>> \in (0..3) \X (0..2)
    <3> QED
      BY <3>1
  <2>4. CASE p = "S"
    <3>1. Tetris!Shape(p) = {<<1, 1>>, <<2, 1>>, <<0, 2>>, <<1, 2>>}
      BY <2>4 DEF Tetris!Shape
    <3> WITNESS <<1, 1>> \in (0..3) \X (0..2), <<2, 1>> \in (0..3) \X (0..2), <<0, 2>> \in (0..3) \X (0..2), <<1, 2>> \in (0..3) \X (0..2)
    <3> QED
      BY <3>1
  <2>5. CASE p = "Z"
    <3>1. Tetris!Shape(p) = {<<0, 1>>, <<1, 1>>, <<1, 2>>, <<2, 2>>}
      BY <2>5 DEF Tetris!Shape
    <3> WITNESS <<0, 1>> \in (0..3) \X (0..2), <<1, 1>> \in (0..3) \X (0..2), <<1, 2>> \in (0..3) \X (0..2), <<2, 2>> \in (0..3) \X (0..2)
    <3> QED
      BY <3>1
  <2>6. CASE p = "J"
    <3>1. Tetris!Shape(p) = {<<0, 1>>, <<0, 2>>, <<1, 2>>, <<2, 2>>}
      BY <2>6 DEF Tetris!Shape
    <3> WITNESS <<0, 1>> \in (0..3) \X (0..2), <<0, 2>> \in (0..3) \X (0..2), <<1, 2>> \in (0..3) \X (0..2), <<2, 2>> \in (0..3) \X (0..2)
    <3> QED
      BY <3>1
  <2>7. CASE p = "L"
    <3>1. Tetris!Shape(p) = {<<2, 1>>, <<0, 2>>, <<1, 2>>, <<2, 2>>}
      BY <2>7 DEF Tetris!Shape
    <3> WITNESS <<2, 1>> \in (0..3) \X (0..2), <<0, 2>> \in (0..3) \X (0..2), <<1, 2>> \in (0..3) \X (0..2), <<2, 2>> \in (0..3) \X (0..2)
    <3> QED
      BY <3>1
  <2> QED
    BY <1>1, <2>1, <2>2, <2>3, <2>4, <2>5, <2>6, <2>7
<1>3. PICK a, b, c, d \in (0..3) \X (0..2) :
        Tetris!Shape(p) = {a, b, c, d} /\ a # b /\ a # c /\ a # d /\ b # c /\ b # d /\ c # d
  BY <1>2
<1>5. Tetris!Shape(p) = {a, b, c, d}
  BY <1>3
<1>6. IsFiniteSet(Tetris!Shape(p)) /\ Cardinality(Tetris!Shape(p)) = 4
  <2>1. FourApart(Tetris!Shape(p))
    BY <1>3, Zenon DEF FourApart
  <2> QED
    BY <2>1, FourOfThem
<1>7. Tetris!Shape(p) \subseteq (0..3) \X (0..2)
  BY <1>5
<1> QED
  BY <1>6, <1>7

\* A turn keeps a cell in the box, and two cells apart.
LEMMA TurnIs ==
  ASSUME NEW n \in 0..3, NEW c \in Box
  PROVE  /\ Tetris!Turn(c, n) \in Box
         /\ \A d \in Box : Tetris!Turn(c, n) = Tetris!Turn(d, n) => c = d
<1>1. ASSUME NEW e \in Box
      PROVE  /\ e = <<e[1], e[2]>> /\ e[1] \in 0..3 /\ e[2] \in 0..3
             /\ Tetris!RotateCell(e) = <<3 - e[2], e[1]>> /\ Tetris!RotateCell(e) \in Box
  BY DEF Box, Tetris!RotateCell
<1>2. ASSUME NEW e \in Box, NEW d \in Box, Tetris!RotateCell(e) = Tetris!RotateCell(d) PROVE e = d
  BY <1>1, <1>2
<1>3. CASE n = 0
  BY <1>3 DEF Tetris!Turn
<1>4. CASE n = 1
  BY <1>1, <1>2, <1>4 DEF Tetris!Turn
<1>5. CASE n = 2
  BY <1>1, <1>2, <1>5 DEF Tetris!Turn
<1>6. CASE n = 3
  BY <1>1, <1>2, <1>6 DEF Tetris!Turn
<1> QED
  BY <1>3, <1>4, <1>5, <1>6

\* As many images as elements, if no two have the same.
LEMMA OneToOne ==
  ASSUME NEW S, IsFiniteSet(S), NEW f, f = [e \in S |-> f[e]], \A d, e \in S : f[d] = f[e] => d = e
  PROVE  IsFiniteSet({f[e] : e \in S}) /\ Cardinality({f[e] : e \in S}) = Cardinality(S)
<1> DEFINE T == {f[e] : e \in S}
<1>1. f \in [S -> T]
  OBVIOUS
<1>2. f \in Bijection(S, T)
  BY <1>1 DEF Bijection, Injection, Surjection, IsInjective
<1>3. ExistsBijection(S, T)
  BY <1>2 DEF ExistsBijection
<1> QED
  BY <1>3, FS_Bijection

\* A piece that is placed covers four cells, in a box of four by four.
LEMMA PlacedIs ==
  ASSUME NEW p \in Pieces, NEW r \in 0..3, NEW ox \in Int, NEW oy \in Int
  PROVE  /\ IsFiniteSet(Tetris!Placed(p, r, ox, oy)) /\ Cardinality(Tetris!Placed(p, r, ox, oy)) = 4
         /\ \A c \in Tetris!Placed(p, r, ox, oy) :
               c = <<c[1], c[2]>> /\ c[1] \in ox..(ox + 3) /\ c[2] \in oy..(oy + 3)
<1> DEFINE f == [c \in Tetris!Shape(p) |-> <<ox + Tetris!Turn(c, r)[1], oy + Tetris!Turn(c, r)[2]>>]
<1>1. IsFiniteSet(Tetris!Shape(p)) /\ Cardinality(Tetris!Shape(p)) = 4 /\ \A c \in Tetris!Shape(p) : c \in Box
  BY ShapeIs DEF Box
<1>2. \A c \in Tetris!Shape(p) : /\ Tetris!Turn(c, r) = <<Tetris!Turn(c, r)[1], Tetris!Turn(c, r)[2]>>
                                 /\ Tetris!Turn(c, r)[1] \in 0..3 /\ Tetris!Turn(c, r)[2] \in 0..3
  <2> TAKE c \in Tetris!Shape(p)
  <2>1. Tetris!Turn(c, r) \in Box
    BY <1>1, TurnIs
  <2> QED
    BY <2>1 DEF Box
<1>3. Tetris!Placed(p, r, ox, oy) = {f[c] : c \in Tetris!Shape(p)}
  BY DEF Tetris!Placed
<1>4. ASSUME NEW c \in Tetris!Shape(p), NEW d \in Tetris!Shape(p), f[c] = f[d] PROVE c = d
  <2>1. Tetris!Turn(c, r)[1] = Tetris!Turn(d, r)[1] /\ Tetris!Turn(c, r)[2] = Tetris!Turn(d, r)[2]
    BY <1>2, <1>4
  <2>2. Tetris!Turn(c, r) = Tetris!Turn(d, r)
    BY <1>2, <2>1, Zenon
  <2> QED
    BY <1>1, <2>2, TurnIs
<1>5. \A c \in {f[e] : e \in Tetris!Shape(p)} : c = <<c[1], c[2]>> /\ c[1] \in ox..(ox + 3) /\ c[2] \in oy..(oy + 3)
  BY <1>2
<1>6. f = [c \in Tetris!Shape(p) |-> f[c]]
  OBVIOUS
<1> HIDE DEF f
<1>7. IsFiniteSet({f[c] : c \in Tetris!Shape(p)}) /\ Cardinality({f[c] : c \in Tetris!Shape(p)}) = 4
  BY <1>1, <1>4, <1>6, OneToOne
<1> QED
  BY <1>3, <1>5, <1>7

-------------------------------------------------------------------------------
(* The game: full rows.                                                    *)

Below(F, r) == {row \in F : row > r}

\* A row that stays moves down by as many rows as went from below it, stays on
\* the board, and stays above those that were below it.
LEMMA BelowIs ==
  ASSUME NEW F \in SUBSET Tetris!Rows, NEW a \in Tetris!Rows
  PROVE  /\ IsFiniteSet(F) /\ Cardinality(F) \in Nat
         /\ Cardinality(Below(F, a)) \in Nat
         /\ a + Cardinality(Below(F, a)) \in Tetris!Rows
         /\ \A b \in Tetris!Rows \ F :
               a < b => a + Cardinality(Below(F, a)) < b + Cardinality(Below(F, b))
<1>0. Height \in Nat /\ Tetris!Rows = 0..(Height - 1)
  BY GameConstants DEF Tetris!Rows
<1>1. \A row \in Tetris!Rows : row \in Int /\ row >= 0 /\ row < Height
  BY <1>0
<1>2. IsFiniteSet(F) /\ Cardinality(F) \in Nat
  <2>1. IsFiniteSet(Tetris!Rows)
    BY <1>0, FS_Interval
  <2> QED
    BY <2>1, FS_Subset, FS_CardinalityType
<1>3. \A r : IsFiniteSet(Below(F, r)) /\ Cardinality(Below(F, r)) \in Nat
  BY <1>2, FS_Subset, FS_CardinalityType DEF Below
<1>4. Cardinality(Below(F, a)) <= Height - 1 - a
  <2>1. Below(F, a) \subseteq (a + 1)..(Height - 1)
    <3> SUFFICES ASSUME NEW row \in F, row > a PROVE row \in (a + 1)..(Height - 1)
      BY DEF Below
    <3>1. row \in Int /\ row < Height /\ a \in Int
      BY <1>1
    <3> QED
      BY <1>0, <3>1
  <2>2. IsFiniteSet((a + 1)..(Height - 1)) /\ Cardinality((a + 1)..(Height - 1)) = Height - 1 - a
    <3>1. a + 1 \in Int /\ Height - 1 \in Int /\ a < Height /\ a \in Int /\ Height \in Int
      BY <1>0, <1>1
    <3> QED
      BY <3>1, FS_Interval
  <2>3. Cardinality(Below(F, a)) <= Cardinality((a + 1)..(Height - 1))
    BY <2>1, <2>2, FS_Subset
  <2> QED
    BY <2>2, <2>3
<1>5. ASSUME NEW b \in Tetris!Rows \ F, a < b
      PROVE  a + Cardinality(Below(F, a)) < b + Cardinality(Below(F, b))
  <2> DEFINE M == {row \in F : row > a /\ row < b}
  <2>1. b \in Int /\ b >= 0 /\ b < Height
    BY <1>1
  <2>2. Below(F, a) = Below(F, b) \cup M /\ Below(F, b) \cap M = {}
    <3>1. \A row \in F : row > a <=> row > b \/ (row > a /\ row < b)
      <4> TAKE row \in F
      <4>1. row \in Int /\ row # b /\ a \in Int
        BY <1>1
      <4> QED
        BY <1>5, <2>1, <4>1
    <3>2. \A row \in F : ~(row > b /\ row < b)
      BY <1>1, <2>1
    <3> QED
      BY <3>1, <3>2 DEF Below
  <2>3. IsFiniteSet(M) /\ Cardinality(M) \in Nat /\ Cardinality(M) <= b - 1 - a
    <3>1. M \subseteq (a + 1)..(b - 1)
      <4> SUFFICES ASSUME NEW row \in F, row > a, row < b PROVE row \in (a + 1)..(b - 1)
        OBVIOUS
      <4>1. row \in Int /\ a \in Int
        BY <1>1
      <4> QED
        BY <2>1, <4>1
    <3>2. IsFiniteSet((a + 1)..(b - 1)) /\ Cardinality((a + 1)..(b - 1)) = b - 1 - a
      <4>1. a + 1 \in Int /\ b - 1 \in Int /\ a \in Int /\ b \in Int /\ a < b
        BY <1>1, <1>5, <2>1
      <4>2. /\ IsFiniteSet((a + 1)..(b - 1))
            /\ Cardinality((a + 1)..(b - 1)) = IF a + 1 > b - 1 THEN 0 ELSE (b - 1) - (a + 1) + 1
        BY <4>1, FS_Interval
      <4> QED
        BY <4>1, <4>2
    <3>3. IsFiniteSet(M) /\ Cardinality(M) <= Cardinality((a + 1)..(b - 1))
      BY <3>1, <3>2, FS_Subset
    <3>4. Cardinality(M) \in Nat
      BY <3>3, FS_CardinalityType
    <3> QED
      BY <3>2, <3>3, <3>4
  <2>4. Cardinality(Below(F, a)) = Cardinality(Below(F, b)) + Cardinality(M)
    <3>1. Cardinality(Below(F, b) \cup M) = Cardinality(Below(F, b)) + Cardinality(M) - Cardinality(Below(F, b) \cap M)
      BY <1>3, <2>3, FS_Union
    <3> HIDE DEF M
    <3>2. Cardinality(Below(F, b) \cap M) = 0
      BY <2>2, FS_EmptySet
    <3>3. Cardinality(Below(F, b)) \in Nat
      BY <1>3
    <3>4. Cardinality(Below(F, a)) = Cardinality(Below(F, b) \cup M)
      BY <2>2
    <3> QED
      BY <2>3, <3>1, <3>2, <3>3, <3>4
  <2> HIDE DEF M
  <2> QED
    BY <1>1, <1>3, <2>1, <2>3, <2>4
<1> QED
  BY <1>0, <1>1, <1>2, <1>3, <1>4, <1>5

\* Cells and rows are counted here as they are there.
LEMMA CellsCounted == \A S : Tetris!Cardinality(S) = Cardinality(S)
BY DEF Tetris!Cardinality, Cardinality

\* Of a board of cells, clearing takes the full rows and leaves none.
LEMMA ClearLinesIs ==
  ASSUME NEW b \in SUBSET (Tetris!Columns \X Tetris!Rows)
  PROVE  /\ Tetris!ClearLines(b) \subseteq Tetris!Columns \X Tetris!Rows
         /\ IsFiniteSet(b) /\ Cardinality(b) \in Nat
         /\ Cardinality(Tetris!ClearLines(b)) = Cardinality(b) - Width * Cardinality(Tetris!FullRows(b))
         /\ Tetris!FullRows(Tetris!ClearLines(b)) = {}
<1> DEFINE F == Tetris!FullRows(b)
           D == {d \in b : d[2] \notin F}
           G == {d \in b : d[2] \in F}
           To(r) == r + Cardinality(Below(F, r))
           f == [c \in D |-> <<c[1], To(c[2])>>]
<1>1. Tetris!Columns = 0..(Width - 1) /\ 0 \in Tetris!Columns
  BY GameConstants DEF Tetris!Columns
<1>2. /\ IsFiniteSet(Tetris!Columns) /\ Cardinality(Tetris!Columns) = Width
      /\ IsFiniteSet(Tetris!Rows)
  BY <1>1, GameConstants, FS_Interval DEF Tetris!Rows
<1>3. IsFiniteSet(b) /\ Cardinality(b) \in Nat
  BY <1>2, FS_Product, FS_Subset, FS_CardinalityType
<1>4. F \in SUBSET Tetris!Rows
  BY DEF Tetris!FullRows
<1>5. \A r \in Tetris!Rows : r \in F <=> \A col \in Tetris!Columns : <<col, r>> \in b
  BY DEF Tetris!FullRows, Tetris!RowFull
<1>6. \A c \in b : c = <<c[1], c[2]>> /\ c[1] \in Tetris!Columns /\ c[2] \in Tetris!Rows
  OBVIOUS
<1>7. \A r \in Tetris!Rows : To(r) \in Tetris!Rows /\ r \in Int
  BY <1>4, BelowIs DEF Tetris!Rows
<1>8. \A r, s \in Tetris!Rows \ F : To(r) = To(s) => r = s
  <2> SUFFICES ASSUME NEW r \in Tetris!Rows \ F, NEW s \in Tetris!Rows \ F, To(r) = To(s) PROVE r = s
    OBVIOUS
  <2>1. r < s => To(r) < To(s)
    BY <1>4, BelowIs
  <2>2. s < r => To(s) < To(r)
    BY <1>4, BelowIs
  <2>3. To(r) \in Int /\ To(s) \in Int /\ r \in Int /\ s \in Int
    BY <1>7
  <2> HIDE DEF To
  <2> QED
    BY <2>1, <2>2, <2>3
<1>9. Tetris!ClearLines(b) = {f[c] : c \in D}
  <2>1. Tetris!ClearLines(b) = {<<c[1], To(c[2])>> : c \in D}
    BY CellsCounted DEF Tetris!ClearLines, Below
  <2> HIDE DEF To, D
  <2> QED
    BY <2>1
<1> HIDE DEF F, To
<1>10. Tetris!ClearLines(b) \subseteq Tetris!Columns \X Tetris!Rows
  <2> SUFFICES ASSUME NEW c \in D PROVE f[c] \in Tetris!Columns \X Tetris!Rows
    BY <1>9
  <2>1. c[1] \in Tetris!Columns /\ To(c[2]) \in Tetris!Rows
    BY <1>6, <1>7
  <2> QED
    BY <2>1
<1>11. Cardinality(Tetris!ClearLines(b)) = Cardinality(D)
  <2>1. \A c, d \in D : f[c] = f[d] => c = d
    <3> SUFFICES ASSUME NEW c \in D, NEW d \in D, f[c] = f[d] PROVE c = d
      OBVIOUS
    <3>1. c[1] = d[1] /\ To(c[2]) = To(d[2])
      OBVIOUS
    <3>2. c[2] = d[2]
      BY <1>6, <1>8, <3>1
    <3> QED
      BY <1>6, <3>1, <3>2, Zenon
  <2>2. f = [c \in D |-> f[c]]
    OBVIOUS
  <2>3. IsFiniteSet(D)
    BY <1>3, FS_Subset
  <2> HIDE DEF f, D
  <2>4. Cardinality({f[c] : c \in D}) = Cardinality(D)
    BY <2>1, <2>2, <2>3, OneToOne
  <2> QED
    BY <1>9, <2>4
<1>12. Cardinality(G) = Width * Cardinality(F)
  <2>1. G = Tetris!Columns \X F
    BY <1>4, <1>5, <1>6
  <2>2. IsFiniteSet(F)
    BY <1>2, <1>4, FS_Subset
  <2>3. Cardinality(Tetris!Columns \X F) = Cardinality(Tetris!Columns) * Cardinality(F)
    BY <1>2, <2>2, FS_Product
  <2> HIDE DEF G
  <2> QED
    BY <1>2, <2>1, <2>3
<1>13. Cardinality(D) = Cardinality(b) - Cardinality(G)
  <2>1. b \cap G = G /\ D = b \ G
    OBVIOUS
  <2>2. Cardinality(b \ G) = Cardinality(b) - Cardinality(b \cap G)
    BY <1>3, FS_Difference
  <2> HIDE DEF D, G
  <2> QED
    BY <2>1, <2>2
<1>14. ASSUME NEW row \in Tetris!FullRows(Tetris!ClearLines(b)) PROVE FALSE
  <2>1. row \in Tetris!Rows /\ \A col \in Tetris!Columns : <<col, row>> \in Tetris!ClearLines(b)
    BY DEF Tetris!FullRows, Tetris!RowFull
  <2>2. \A col \in Tetris!Columns : \E c \in D : c[1] = col /\ To(c[2]) = row
    BY <1>9, <2>1
  <2>3. PICK c \in D : To(c[2]) = row
    BY <1>1, <2>2
  <2>4. c[2] \in Tetris!Rows \ F
    BY <1>6
  <2>5. ASSUME NEW col \in Tetris!Columns PROVE <<col, c[2]>> \in b
    <3>1. PICK d \in D : d[1] = col /\ To(d[2]) = row
      BY <2>2
    <3>2. d[2] = c[2]
      BY <1>6, <1>8, <2>3, <2>4, <3>1
    <3>3. d \in b /\ d = <<d[1], d[2]>>
      BY <1>6
    <3> QED
      BY <3>1, <3>2, <3>3, Zenon
  <2> QED
    BY <1>5, <2>4, <2>5
<1> HIDE DEF D, G, f
<1>15. Cardinality(Tetris!ClearLines(b)) = Cardinality(b) - Width * Cardinality(F)
  BY <1>11, <1>12, <1>13
<1> QED
  BY <1>3, <1>10, <1>14, <1>15 DEF F

-------------------------------------------------------------------------------
(* The game: the falling piece.                                            *)

\* A piece that collides with nothing is on the board and on free cells.
LEMMA FitsIs ==
  ASSUME NEW b, NEW p \in Pieces, NEW r \in 0..3, NEW ox \in Int, NEW oy \in Int,
         ~Tetris!Collides(b, p, r, ox, oy)
  PROVE  /\ Tetris!Placed(p, r, ox, oy) \subseteq Tetris!Columns \X Tetris!Rows
         /\ Tetris!Placed(p, r, ox, oy) \cap b = {}
         /\ ox \in -3..(Width - 1) /\ oy \in -3..(Height - 1)
<1>1. \A c \in Tetris!Placed(p, r, ox, oy) :
         /\ c[1] \in Tetris!Columns /\ c[2] \in Tetris!Rows /\ c \notin b
         /\ c = <<c[1], c[2]>> /\ c[1] \in ox..(ox + 3) /\ c[2] \in oy..(oy + 3)
  BY PlacedIs DEF Tetris!Collides, Tetris!InBounds
<1>2. PICK c \in Tetris!Placed(p, r, ox, oy) : TRUE
  <2>1. Cardinality(Tetris!Placed(p, r, ox, oy)) # 0
    BY PlacedIs
  <2> QED
    BY <2>1, FS_EmptySet
<1>3. ox \in -3..(Width - 1) /\ oy \in -3..(Height - 1)
  <2>1. c[1] \in ox..(ox + 3) /\ c[2] \in oy..(oy + 3) /\ c[1] \in 0..(Width - 1) /\ c[2] \in 0..(Height - 1)
    BY <1>1, <1>2 DEF Tetris!Columns, Tetris!Rows
  <2> QED
    BY <2>1, GameConstants
<1>4. Tetris!Placed(p, r, ox, oy) \subseteq Tetris!Columns \X Tetris!Rows
  BY <1>1
<1> QED
  BY <1>1, <1>3, <1>4

\* A new piece has room on an empty board.
LEMMA RoomAtTheTop ==
  ASSUME NEW p \in Pieces
  PROVE  ~Tetris!Collides({}, p, 0, SpawnX, 0)
<1> SUFFICES ASSUME NEW c \in Tetris!Placed(p, 0, SpawnX, 0) PROVE Tetris!InBounds(c)
  BY DEF Tetris!Collides
<1>1. PICK d \in Tetris!Shape(p) : c = <<SpawnX + d[1], 0 + d[2]>>
  BY DEF Tetris!Placed, Tetris!Turn
<1>2. d[1] \in 0..3 /\ d[2] \in 0..2
  BY ShapeIs
<1>3. SpawnX + d[1] \in 0..(Width - 1) /\ 0 + d[2] \in 0..(Height - 1)
  BY <1>2, GameConstants
<1> QED
  BY <1>1, <1>3 DEF Tetris!InBounds, Tetris!Columns, Tetris!Rows

\* Straight down, a piece comes to rest where it still fits.
LEMMA FallFromIs ==
  ASSUME NEW b, NEW p \in Pieces, NEW r \in 0..3, NEW ox \in Int, NEW oy \in Int,
         oy < Height, ~Tetris!Collides(b, p, r, ox, oy)
  PROVE  /\ Tetris!FallFrom(b, p, r, ox, oy) \in Int
         /\ ~Tetris!Collides(b, p, r, ox, Tetris!FallFrom(b, p, r, ox, oy))
<1> DEFINE Hits(row) == Tetris!Collides(b, p, r, ox, row)
           S == {row \in oy..Height : Hits(row + 1)}
           m == Tetris!FallFrom(b, p, r, ox, oy)
<1> USE GameConstants
<1>1. Height \in S
  <2>1. Hits(Height + 1)
    <3>1. Height + 1 \in Int /\ ~(Height + 1 \in -3..(Height - 1))
      OBVIOUS
    <3>2. ~Hits(Height + 1) => Height + 1 \in -3..(Height - 1)
      BY <3>1, FitsIs
    <3> QED
      BY <3>1, <3>2, Zenon
  <2> HIDE DEF Hits
  <2> QED
    BY <2>1
<1>2. m = (CHOOSE row \in S : \A other \in S : row <= other)
  BY DEF Tetris!FallFrom, Tetris!Min
<1> HIDE DEF m, Hits
<1>3. \E row \in S : \A other \in S : row <= other
  <2>1. IsFiniteSet(oy..Height)
    BY FS_Interval
  <2>2. IsFiniteSet(S) /\ S \subseteq Int
    BY <2>1, FS_Subset
  <2> HIDE DEF S
  <2> QED
    BY <1>1, <2>2, Least
<1>4. m \in S /\ \A other \in S : m <= other
  BY <1>2, <1>3
<1>5. m \in oy..Height /\ Hits(m + 1)
  BY <1>4
<1>6. ~Hits(m)
  <2>1. CASE m = oy
    BY <2>1 DEF Hits
  <2>2. CASE m # oy
    <3>1. m - 1 \in oy..Height /\ ~(m <= m - 1) /\ (m - 1) + 1 = m
      BY <1>5, <2>2
    <3>2. m - 1 \notin S
      BY <1>4, <3>1
    <3> QED
      BY <3>1, <3>2
  <2> QED
    BY <2>1, <2>2
<1> QED
  BY <1>5, <1>6 DEF m, Hits

-------------------------------------------------------------------------------
(* The game: its moves.                                                    *)

\* What GameOK says of the types of its variables.
LEMMA GameParts ==
  Tetris!GameOK =>
    /\ board \in SUBSET (Tetris!Columns \X Tetris!Rows) /\ piece \in Pieces /\ next \in Pieces
    /\ rot \in 0..3 /\ x \in Int /\ y \in Int /\ y < Height
    /\ score \in Nat /\ lines \in Nat /\ locked \in Nat /\ over \in BOOLEAN /\ paused \in BOOLEAN
BY GameConstants DEF Tetris!GameOK, Tetris!TypeOK

\* A step that leaves the falling piece where it fits, and the rest, keeps GameOK.
LEMMA MoveKeeps ==
  ASSUME Tetris!GameOK, Tetris!Playing, NEW r \in 0..3, NEW ox \in Int, NEW oy \in Int,
         Tetris!TryTo(r, ox, oy)
  PROVE  Tetris!GameOK'
<1>1. CASE Tetris!Collides(board, piece, r, ox, oy)
  BY <1>1 DEF Tetris!TryTo, Tetris!vars, Tetris!GameOK, Tetris!TypeOK, Tetris!FallingFits,
     Tetris!CellsAddUp, Tetris!ScoreOK
<1>2. CASE ~Tetris!Collides(board, piece, r, ox, oy)
  <2>1. /\ rot' = r /\ x' = ox /\ y' = oy
        /\ board' = board /\ piece' = piece /\ next' = next /\ score' = score /\ lines' = lines
        /\ over' = over /\ paused' = paused /\ locked' = locked
    BY <1>2 DEF Tetris!TryTo, Tetris!MoveTo
  <2>2. ox \in -3..(Width - 1) /\ oy \in -3..(Height - 1)
    BY <1>2, GameParts, FitsIs
  <2>3. Tetris!TypeOK'
    BY <2>1, <2>2 DEF Tetris!GameOK, Tetris!TypeOK
  <2>4. Tetris!FallingFits'
    BY <1>2, <2>1 DEF Tetris!FallingFits, Tetris!Playing
  <2>5. Tetris!CellsAddUp' /\ Tetris!ScoreOK'
    BY <2>1 DEF Tetris!GameOK, Tetris!CellsAddUp, Tetris!ScoreOK
  <2> QED
    BY <2>3, <2>4, <2>5 DEF Tetris!GameOK
<1> QED
  BY <1>1, <1>2

\* A new piece starts where the type invariant lets it be.
LEMMA TopIsInside == SpawnX \in -3..(Width - 1) /\ 0 \in -3..(Height - 1) /\ 0 \in 0..3 /\ 0 \in Nat
BY GameConstants

\* What locking adds to the score, for at most four rows.
LEMMA PointsAre ==
  ASSUME NEW n \in 0..4
  PROVE  Tetris!Points(n) \in Nat /\ 100 * n <= Tetris!Points(n) /\ Tetris!Points(n) <= 200 * n
BY DEF Tetris!Points

\* Four cells more, and the full rows are among the rows the piece came to.
LEMMA FilledIs ==
  ASSUME NEW b \in SUBSET (Tetris!Columns \X Tetris!Rows), Tetris!FullRows(b) = {},
         NEW p \in Pieces, NEW r \in 0..3, NEW ox \in Int, NEW oy \in Int,
         ~Tetris!Collides(b, p, r, ox, oy)
  PROVE  /\ b \cup Tetris!Placed(p, r, ox, oy) \in SUBSET (Tetris!Columns \X Tetris!Rows)
         /\ Cardinality(b \cup Tetris!Placed(p, r, ox, oy)) = Cardinality(b) + 4
         /\ Cardinality(Tetris!FullRows(b \cup Tetris!Placed(p, r, ox, oy))) \in 0..4
<1> DEFINE put == Tetris!Placed(p, r, ox, oy)
           F == Tetris!FullRows(b \cup put)
<1>1. /\ IsFiniteSet(put) /\ Cardinality(put) = 4
      /\ \A c \in put : c = <<c[1], c[2]>> /\ c[1] \in ox..(ox + 3) /\ c[2] \in oy..(oy + 3)
  BY PlacedIs
<1>2. put \subseteq Tetris!Columns \X Tetris!Rows /\ put \cap b = {}
  BY FitsIs
<1> HIDE DEF put
<1>3. IsFiniteSet(b) /\ Cardinality(b) \in Nat
  BY ClearLinesIs
<1>4. Cardinality(b \cup put) = Cardinality(b) + 4
  <2>1. Cardinality(b \cup put) = Cardinality(b) + Cardinality(put) - Cardinality(b \cap put)
    BY <1>1, <1>3, FS_Union
  <2>2. b \cap put = {}
    BY <1>2
  <2>3. Cardinality(b \cap put) = 0
    BY <2>2, FS_EmptySet
  <2> QED
    BY <1>1, <1>3, <2>1, <2>3
<1>5. F \subseteq oy..(oy + 3)
  <2> SUFFICES ASSUME NEW row \in F PROVE row \in oy..(oy + 3)
    OBVIOUS
  <2>1. row \in Tetris!Rows /\ \A col \in Tetris!Columns : <<col, row>> \in b \cup put
    BY DEF Tetris!FullRows, Tetris!RowFull
  <2>2. row \notin Tetris!FullRows(b)
    OBVIOUS
  <2>3. PICK col \in Tetris!Columns : <<col, row>> \notin b
    BY <2>1, <2>2 DEF Tetris!FullRows, Tetris!RowFull
  <2>4. <<col, row>> \in put
    BY <2>1, <2>3
  <2> QED
    BY <1>1, <2>4
<1>6. Cardinality(F) \in 0..4
  <2>1. oy \in Int /\ oy + 3 \in Int /\ ~(oy > oy + 3) /\ (oy + 3) - oy + 1 = 4
    OBVIOUS
  <2>2. IsFiniteSet(oy..(oy + 3)) /\ Cardinality(oy..(oy + 3)) = 4
    BY <2>1, FS_Interval
  <2> HIDE DEF F
  <2>3. IsFiniteSet(F) /\ Cardinality(F) <= Cardinality(oy..(oy + 3))
    BY <1>5, <2>2, FS_Subset
  <2>4. Cardinality(F) \in Nat
    BY <2>3, FS_CardinalityType
  <2> QED
    BY <2>2, <2>3, <2>4
<1> QED
  BY <1>2, <1>4, <1>6 DEF put, F

\* A piece locked where it fits: four cells, less the full rows, and their points.
LEMMA LockKeeps ==
  ASSUME Tetris!GameOK, NEW row \in Int, ~Tetris!Collides(board, piece, rot, x, row),
         Tetris!LockAndAdvance(row)
  PROVE  Tetris!GameOK'
<1> DEFINE full == board \cup Tetris!Placed(piece, rot, x, row)
           n == Cardinality(Tetris!FullRows(full))
<1>0. /\ board \in SUBSET (Tetris!Columns \X Tetris!Rows) /\ piece \in Pieces /\ next \in Pieces
      /\ rot \in 0..3 /\ x \in Int
      /\ score \in Nat /\ lines \in Nat /\ locked \in Nat /\ paused \in BOOLEAN
  BY GameParts
<1>1. /\ Cardinality(board) = 4 * locked - Width * lines /\ Tetris!FullRows(board) = {}
      /\ 100 * lines <= score /\ score <= 200 * lines
  BY CellsCounted DEF Tetris!GameOK, Tetris!CellsAddUp, Tetris!ScoreOK
<1>2. /\ full \in SUBSET (Tetris!Columns \X Tetris!Rows)
      /\ Cardinality(full) = Cardinality(board) + 4
      /\ n \in 0..4
  BY <1>0, <1>1, FilledIs
<1>3. /\ locked' = locked + 1 /\ board' = Tetris!ClearLines(full) /\ lines' = lines + n
      /\ score' = score + Tetris!Points(n) /\ paused' = paused
      /\ piece' = next /\ rot' = 0 /\ x' = SpawnX /\ y' = 0 /\ next' \in Pieces
      /\ over' = Tetris!Collides(board', next, 0, SpawnX, 0)
  BY CellsCounted DEF Tetris!LockAndAdvance, Tetris!Spawn
<1> HIDE DEF full
<1>4. /\ board' \subseteq Tetris!Columns \X Tetris!Rows
      /\ Cardinality(board') = Cardinality(full) - Width * n
      /\ Tetris!FullRows(board') = {}
  BY <1>2, <1>3, ClearLinesIs
<1>5. Tetris!Points(n) \in Nat /\ 100 * n <= Tetris!Points(n) /\ Tetris!Points(n) <= 200 * n /\ n \in Nat
  BY <1>2, PointsAre
<1> HIDE DEF n
<1>6. Tetris!TypeOK'
  <2>1. over' \in BOOLEAN
    BY <1>3 DEF Tetris!Collides
  <2>2. lines + n \in Nat /\ score + Tetris!Points(n) \in Nat /\ locked + 1 \in Nat
    BY <1>0, <1>5
  <2> QED
    BY <1>0, <1>3, <1>4, <2>1, <2>2, TopIsInside DEF Tetris!TypeOK
<1>7. Tetris!FallingFits'
  BY <1>3 DEF Tetris!FallingFits
<1>8. Tetris!CellsAddUp'
  <2>1. Width * (lines + n) = Width * lines + Width * n
    BY <1>0, <1>5, GameConstants
  <2>2. Width * lines \in Int /\ Width * n \in Int
    BY <1>0, <1>5, GameConstants
  <2>3. Cardinality(board') = 4 * locked' - Width * lines'
    BY <1>0, <1>1, <1>2, <1>3, <1>4, <2>1, <2>2
  <2> QED
    BY <1>4, <2>3, CellsCounted DEF Tetris!CellsAddUp
<1>9. Tetris!ScoreOK'
  BY <1>0, <1>1, <1>3, <1>5 DEF Tetris!ScoreOK
<1> QED
  BY <1>6, <1>7, <1>8, <1>9 DEF Tetris!GameOK

\* An empty board has no cells and no full rows.
LEMMA NothingAdded == Tetris!FullRows({}) = {} /\ Tetris!Cardinality({}) = 0
<1>1. 0 \in Tetris!Columns
  BY GameConstants DEF Tetris!Columns
<1>2. Tetris!FullRows({}) = {}
  BY <1>1 DEF Tetris!FullRows, Tetris!RowFull
<1>3. Tetris!Cardinality({}) = 0
  BY CellsCounted, FS_EmptySet
<1> QED
  BY <1>2, <1>3

\* A new game, however the one before it went.
LEMMA NewGameIs ==
  ASSUME board = {}, rot = 0, x = SpawnX, y = 0, piece \in Pieces, next \in Pieces,
         score = 0, lines = 0, locked = 0, over = FALSE, paused = FALSE
  PROVE  Tetris!GameOK
<1>1. Tetris!TypeOK
  BY TopIsInside DEF Tetris!TypeOK
<1>2. Tetris!FallingFits
  BY RoomAtTheTop DEF Tetris!FallingFits
<1>3. Tetris!CellsAddUp
  BY NothingAdded, GameConstants DEF Tetris!CellsAddUp
<1>4. Tetris!ScoreOK
  BY DEF Tetris!ScoreOK
<1> QED
  BY <1>1, <1>2, <1>3, <1>4 DEF Tetris!GameOK

\* And one that is begun.
LEMMA NewGameAfter ==
  ASSUME board' = {}, rot' = 0, x' = SpawnX, y' = 0, piece' \in Pieces, next' \in Pieces,
         score' = 0, lines' = 0, locked' = 0, over' = FALSE, paused' = FALSE
  PROVE  Tetris!GameOK'
<1>1. Tetris!TypeOK'
  BY TopIsInside DEF Tetris!TypeOK
<1>2. Tetris!FallingFits'
  BY RoomAtTheTop DEF Tetris!FallingFits
<1>3. Tetris!CellsAddUp'
  BY NothingAdded, GameConstants DEF Tetris!CellsAddUp
<1>4. Tetris!ScoreOK'
  BY DEF Tetris!ScoreOK
<1> QED
  BY <1>1, <1>2, <1>3, <1>4 DEF Tetris!GameOK

\* Every step of the game keeps it.
LEMMA GameKeeps == Tetris!GameOK /\ [Tetris!Next]_gameVars => Tetris!GameOK'
<1> SUFFICES ASSUME Tetris!GameOK, [Tetris!Next]_gameVars PROVE Tetris!GameOK'
  OBVIOUS
<1>0. /\ piece \in Pieces /\ rot \in 0..3 /\ x \in Int /\ y \in Int /\ y < Height
      /\ (rot + 1) % 4 \in 0..3
  BY GameParts
<1>1. Tetris!Playing => ~Tetris!Collides(board, piece, rot, x, y)
  BY DEF Tetris!GameOK, Tetris!FallingFits, Tetris!Playing
<1>2. CASE Tetris!Tick
  <2>1. CASE Tetris!Collides(board, piece, rot, x, y + 1)
    <3>1. Tetris!LockAndAdvance(y) /\ Tetris!Playing
      BY <1>2, <2>1 DEF Tetris!Tick, Tetris!Land
    <3> QED
      BY <1>0, <1>1, <3>1, LockKeeps
  <2>2. CASE ~Tetris!Collides(board, piece, rot, x, y + 1)
    <3>1. Tetris!Playing /\ Tetris!TryTo(rot, x, y + 1)
      BY <1>2, <2>2 DEF Tetris!Tick
    <3>2. y + 1 \in Int
      BY <1>0
    <3> QED
      BY <1>0, <3>1, <3>2, MoveKeeps
  <2> QED
    BY <2>1, <2>2
<1>3. CASE Tetris!TryMove
  <2>1. PICK d \in {<<-1, 0>>, <<1, 0>>, <<0, 1>>} : Tetris!TryTo(rot, x + d[1], y + d[2])
    BY <1>3 DEF Tetris!TryMove
  <2>2. Tetris!Playing /\ x + d[1] \in Int /\ y + d[2] \in Int
    BY <1>0, <1>3 DEF Tetris!TryMove
  <2> QED
    BY <1>0, <2>1, <2>2, MoveKeeps
<1>4. CASE Tetris!TryRotate
  <2>1. Tetris!Playing /\ Tetris!TryTo((rot + 1) % 4, x, y)
    BY <1>4 DEF Tetris!TryRotate
  <2> QED
    BY <1>0, <2>1, MoveKeeps
<1>5. CASE Tetris!HardDrop
  <2>1. Tetris!Playing /\ Tetris!LockAndAdvance(Tetris!FallFrom(board, piece, rot, x, y))
    BY <1>5 DEF Tetris!HardDrop
  <2>2. /\ Tetris!FallFrom(board, piece, rot, x, y) \in Int
        /\ ~Tetris!Collides(board, piece, rot, x, Tetris!FallFrom(board, piece, rot, x, y))
    BY <1>0, <1>1, <2>1, FallFromIs
  <2> QED
    BY <2>1, <2>2, LockKeeps
<1>6. CASE Tetris!TogglePause \/ UNCHANGED gameVars
  <2>1. /\ board' = board /\ piece' = piece /\ rot' = rot /\ x' = x /\ y' = y /\ next' = next
        /\ score' = score /\ lines' = lines /\ over' = over /\ locked' = locked /\ paused' \in BOOLEAN
    BY <1>6, GameParts DEF Tetris!TogglePause, gameVars
  <2> QED
    BY <2>1 DEF Tetris!GameOK, Tetris!TypeOK, Tetris!FallingFits, Tetris!CellsAddUp, Tetris!ScoreOK
<1>7. CASE Tetris!Restart
  <2>1. /\ board' = {} /\ rot' = 0 /\ x' = SpawnX /\ y' = 0 /\ piece' \in Pieces /\ next' \in Pieces
        /\ score' = 0 /\ lines' = 0 /\ locked' = 0 /\ over' = FALSE /\ paused' = FALSE
    BY <1>7 DEF Tetris!Restart, Tetris!NewGame, Tetris!Spawn
  <2> QED
    BY <2>1, NewGameAfter
<1> QED
  BY <1>2, <1>3, <1>4, <1>5, <1>6, <1>7 DEF Tetris!Next

\* A new game has GameOK.
LEMMA GameInit == Tetris!Init => Tetris!GameOK
BY NewGameIs DEF Tetris!Init

-------------------------------------------------------------------------------
(* The playgrounds together: one is on screen, the others wait.            *)

\* Every step is one of each playground's own, or leaves it alone.
LEMMA OneMoves ==
  [Next]_vars => /\ [Travel!Next]_travelVars /\ [Errors!Next]_errorVars
                 /\ [Page!Next]_runVars /\ [Tetris!Next]_gameVars
BY DEF Next, vars

\* Whatever is pressed, loaded or failed to load in the error playground: a check
\* that waits is served, a report is on the text in the editor, and the example
\* shown is the one asked for last.
THEOREM PageAlwaysOK == Spec => []PageOK
<1>1. Init => AnswersDue
  BY ErrorsInit DEF Init
<1>2. AnswersDue /\ [Next]_vars => AnswersDue'
  BY OneMoves, ErrorsKeep
<1>3. AnswersDue => PageOK
  BY DEF AnswersDue, PageOK
<1> QED
  BY <1>1, <1>2, <1>3, PTL DEF Spec

\* Whatever is pressed while the compiler downloads or fails to: a run of the
\* Tetris page is kept, started once, and for the press it was meant for.
THEOREM RunAlwaysOK == Spec => []RunOK
<1>1. Init => RunsDue
  BY RunsInit DEF Init
<1>2. RunsDue /\ [Next]_vars => RunsDue'
  BY OneMoves, RunsKeep
<1>3. RunsDue => RunOK
  BY DEF RunsDue, RunOK
<1> QED
  BY <1>1, <1>2, <1>3, PTL DEF Spec

\* However long the game is played, scrubbed and resumed, for any cap: the history
\* holds running frames in the order they were played, each from the one before
\* it, and the board shows the one the bar names.
THEOREM HistoryAlwaysOK == Spec => []HistoryOK
<1>1. Init => Kept
  BY TravelInit DEF Init
<1>2. Kept /\ [Next]_vars => Kept'
  BY OneMoves, TravelKeeps
<1>3. Kept => HistoryOK
  BY DEF Kept, HistoryOK
<1> QED
  BY <1>1, <1>2, <1>3, PTL DEF Spec

\* No frame is played while the reader looks at the past, until P or R has been
\* pressed in it.
THEOREM PastAlwaysFrozen == Spec => PastIsFrozen
<1>1. Init => Kept
  BY TravelInit DEF Init
<1>2. Kept /\ [Next]_vars => Kept'
  BY OneMoves, TravelKeeps
<1>3. Kept /\ [Next]_vars => [~following /\ ~strayed' => last' = last]_Travel!vars
  <2> SUFFICES ASSUME Kept, [Next]_vars, ~following, ~strayed' PROVE last' = last
    OBVIOUS
  <2> QED
    BY OneMoves, FrozenStep
<1> QED
  BY <1>1, <1>2, <1>3, PTL DEF Spec, PastIsFrozen, Travel!PastIsFrozen

\* However a game is played, on a board of any size and with any of the pieces:
\* the falling piece is on free cells of the board until the game is over, every
\* piece that was locked is there but for what went with full rows, and the score
\* is what those rows are worth.
THEOREM GameAlwaysOK == Spec => []GameOK
<1>1. Init => Tetris!GameOK
  BY GameInit DEF Init
<1>2. Tetris!GameOK /\ [Next]_vars => Tetris!GameOK'
  BY OneMoves, GameKeeps
<1>3. Tetris!GameOK => GameOK
  BY DEF GameOK
<1> QED
  BY <1>1, <1>2, <1>3, PTL DEF Spec
=================================================================================
