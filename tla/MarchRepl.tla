------------------------------ MODULE MarchRepl ------------------------------
(***************************************************************************)
(* The REPL of the landing page and the playground (assets/march-repl.js): *)
(* the lazy download of the interpreter bundle, the queue of inputs, and   *)
(* the on-demand download of standard-library modules.                     *)
(*                                                                         *)
(* The page is single-threaded, so an event handler runs to its end before *)
(* the next event.  A handler that loops (submit, _drain) or that runs one *)
(* callback after another (finish, fail) is a series of steps here, and    *)
(* the variables todo, draining and flush are what is left of its call     *)
(* stack; an event is only accepted when that stack is empty (AtRest).     *)
(***************************************************************************)
EXTENDS Integers, Sequences, FiniteSets

CONSTANTS Inputs,         \* the inputs a reader may submit
          Kind,           \* how _runNow classifies each input
          Texts,          \* the textarea contents a submit may split
          Files,          \* standard-library files
          Core,           \* those a session starts with: the index's "core" list
          Unavailable,    \* inputs naming a module that cannot run in a browser
          ModulesNeeded(_, _), \* files an input needs beyond those loaded
          SetupCode,      \* an error-demo chip's setup code
          NoInput,        \* _busy = false
          HistMax,        \* the cap on the input history (50 in the code)
          MaxInputs,      \* bound: inputs submitted in a behaviour
          MaxClicks       \* bound: loadThen chips clicked in a behaviour

Kinds == {"blank", "clear", "help", "reset", "lookup", "code"}

ASSUME KindAssumption == Kind \in [Inputs -> Kinds]
ASSUME TextsAssumption == Texts \subseteq (Seq(Inputs) \ {<<>>})
ASSUME NoInputAssumption == NoInput \notin Inputs
ASSUME CoreAssumption == Core \subseteq Files
ASSUME ModulesNeededAssumption ==
         \A c \in Inputs, m \in SUBSET Files : ModulesNeeded(c, m) \in Seq(Files)
\* marchModulesNeeded lists the input's files, dependencies first, without
\* those loaded already: loading the first leaves the rest of the list.
ASSUME ModulesInOrderAssumption ==
         \A c \in Inputs, m \in SUBSET Files :
           LET need == ModulesNeeded(c, m)
           IN need # <<>> => ModulesNeeded(c, m \cup {Head(need)}) = Tail(need)
ASSUME BoundsAssumption == /\ HistMax \in Nat \ {0}
                           /\ MaxInputs \in Nat
                           /\ MaxClicks \in Nat

Stages    == {"stdlib", "index", "march"}
Callbacks == {"noop", "input", "setup"}
Outcomes  == {"blank", "screen", "reset", "docs", "evaluated",
              "no interpreter", "no module"}
Answers   == [input : Inputs, outcome : Outcomes]
Code      == Inputs \cup {SetupCode}

VARIABLES
  loaded, loading,  \* _loaded, _loading
  loads,            \* bundle downloads under way: the script awaited, and cb
  index,            \* is window.marchModuleIndex there?
  pending,          \* _pending: the one callback parked during a download
  queue,            \* _queue
  running,          \* _busy, with the input its done callback belongs to
  fetch,            \* files the running input still waits for
  mods,             \* files the interpreter has, or will start with
  sources,          \* the files of Core whose text window.marchStdlib has
  session,          \* code evaluated since the last reset
  cmdHist, histIdx, \* _cmdHist (newest first), _histIdx
  todo,             \* inputs the current submit still has to _run
  draining,         \* the current handler is in _drain's loop
  flush,            \* finish or fail still has to run _pending
  submitted,        \* history: every input submitted
  finished,         \* history: every input answered, and how
  asked, answered   \* history: setup callbacks created, and called

bundleVars  == <<loaded, loading, loads, index>>
stdlibVars  == <<mods, sources>>
histVars    == <<cmdHist, histIdx>>
interpVars  == <<stdlibVars, session>>
stackVars   == <<todo, draining, flush>>
setupVars   == <<asked, answered>>
vars == <<bundleVars, pending, queue, running, fetch, interpVars, histVars,
          stackVars, submitted, finished, setupVars>>

TypeOK ==
  /\ loaded \in BOOLEAN
  /\ loading \in BOOLEAN
  /\ loads \subseteq [stage : Stages, cb : Callbacks]
  /\ index \in BOOLEAN
  /\ pending \in Callbacks \cup {"none"}
  /\ queue \in Seq(Inputs)
  /\ running \in Inputs \cup {NoInput}
  /\ fetch \in Seq(Files)
  /\ mods \subseteq Files
  /\ sources \subseteq Core
  /\ session \in Seq(Code)
  /\ cmdHist \in Seq(Inputs)
  /\ histIdx \in Int
  /\ todo \in Seq(Inputs)
  /\ draining \in BOOLEAN
  /\ flush \in BOOLEAN
  /\ submitted \in Seq(Inputs)
  /\ finished \in Seq(Answers)
  /\ asked \in Nat
  /\ answered \in Nat

Init ==
  /\ loaded = FALSE
  /\ loading = FALSE
  /\ loads = {}
  /\ index = FALSE
  /\ pending = "none"
  /\ queue = <<>>
  /\ running = NoInput
  /\ fetch = <<>>
  /\ mods = {}
  /\ sources = {}
  /\ session = <<>>
  /\ cmdHist = <<>>
  /\ histIdx = -1
  /\ todo = <<>>
  /\ draining = FALSE
  /\ flush = FALSE
  /\ submitted = <<>>
  /\ finished = <<>>
  /\ asked = 0
  /\ answered = 0

\* The page's single thread has nothing left to run.
AtRest == /\ todo = <<>>
          /\ ~draining
          /\ ~flush

-----------------------------------------------------------------------------
(* What an input's callback does once _loadBundle calls it. *)

\* done(): the input is answered, and _drain takes the next one.
Done(c, outcome) ==
  /\ finished' = Append(finished, [input |-> c, outcome |-> outcome])
  /\ running' = NoInput
  /\ draining' = TRUE

\* marchEvalLine(code), then done().
Evaluate(c) == /\ session' = Append(session, c)
               /\ Done(c, "evaluated")

\* What marchModulesNeeded says of an input.  It looks every module up in the
\* index; without one it finds none, neither a file to load nor a module that
\* cannot run here.
NamesUnavailable(c) == index /\ c \in Unavailable
ToLoad(c)           == IF index THEN ModulesNeeded(c, mods) ELSE <<>>

\* The callback _runNow gives _loadBundle: "Interpreter not available.",
\* documentation, a module that cannot run here, the evaluation, or a wait
\* for the modules the input is known to need.
Reply(c, available) ==
  \/ /\ \/ ~available /\ Done(c, "no interpreter")
        \/ available /\ Kind[c] = "lookup" /\ Done(c, "docs")
        \/ available /\ Kind[c] = "code" /\ NamesUnavailable(c) /\ Done(c, "no module")
     /\ UNCHANGED <<fetch, session>>
  \/ /\ available
     /\ Kind[c] = "code"
     /\ ~NamesUnavailable(c)
     /\ LET need == ToLoad(c)
        IN \/ /\ need = <<>>
              /\ Evaluate(c)
              /\ UNCHANGED fetch
           \/ /\ need # <<>>
              /\ fetch' = need
              /\ running' = c
              /\ draining' = FALSE
              /\ UNCHANGED <<finished, session>>

\* Any callback _loadBundle holds: a prefetch's, an input's, a chip's setup.
Call(cb, available) ==
  \/ /\ cb \in {"noop", "none"}
     /\ UNCHANGED <<finished, running, draining, fetch, session, answered>>
  \/ /\ cb = "input"
     /\ Reply(running, available)
     /\ UNCHANGED answered
  \/ /\ cb = "setup"
     /\ answered' = answered + 1
     /\ session' = IF available THEN Append(session, SetupCode) ELSE session
     /\ UNCHANGED <<finished, running, draining, fetch>>

-----------------------------------------------------------------------------
(* _loadBundle, when the bundle is not there yet. *)

\* While a download runs the callback goes into the single pending slot,
\* over whatever is there.
Park(cb) == /\ loading
            /\ pending' = cb
            /\ UNCHANGED <<loading, loads>>

Download_Unguarded(cb) == \* mutant: the _loading guard is gone
  /\ loading' = TRUE
  /\ loads' = loads \cup {[stage |-> "stdlib", cb |-> cb]}
  /\ UNCHANGED pending

Download(cb) == /\ ~loading
                /\ loading' = TRUE
                /\ loads' = loads \cup {[stage |-> "stdlib", cb |-> cb]}
                /\ UNCHANGED pending

LoadBundle(cb) == /\ Park(cb) \/ Download(cb)
                  /\ UNCHANGED <<loaded, index>>

-----------------------------------------------------------------------------
(* What the reader and the page do. *)

\* submit(), run() and reset(): a text becomes one or more inputs.
Submit(text) ==
  /\ AtRest
  /\ Len(submitted) + Len(text) <= MaxInputs
  /\ todo' = text
  /\ submitted' = submitted \o text
  /\ UNCHANGED <<bundleVars, pending, queue, running, fetch, interpVars,
                 histVars, draining, flush, finished, setupVars>>

\* A key and load() ask only while the bundle is neither there nor under way.
MayPrefetch_Loading == ~loaded \* mutant: also while a download runs
MayPrefetch == /\ ~loaded
               /\ ~loading

\* The window's load event, a key, or an example chip's load(): the bundle is
\* fetched early.  (A script in flight holds the window's load event back, so
\* that event finds no download to park behind.)
Prefetch ==
  /\ AtRest
  /\ MayPrefetch
  /\ LoadBundle("noop")
  /\ UNCHANGED <<queue, running, fetch, interpVars, histVars, stackVars,
                 submitted, finished, setupVars>>

\* loadThen(setup, code): setup goes through _loadBundle, not the queue.
LoadThen ==
  /\ AtRest
  /\ asked < MaxClicks
  /\ asked' = asked + 1
  /\ \/ /\ loaded
        /\ Call("setup", loaded)
        /\ UNCHANGED <<bundleVars, pending>>
     \/ /\ ~loaded
        /\ LoadBundle("setup")
        /\ UNCHANGED <<finished, running, draining, fetch, session, answered>>
  /\ UNCHANGED <<queue, stdlibVars, histVars, todo, flush, submitted>>

\* Math.min(_histIdx + 1, _cmdHist.length - 1)
OlderIndex_OffByOne == \* mutant
  IF histIdx + 1 < Len(cmdHist) THEN histIdx + 1 ELSE Len(cmdHist)
OlderIndex == IF histIdx + 1 < Len(cmdHist) THEN histIdx + 1
                                            ELSE Len(cmdHist) - 1

HistoryUp ==
  /\ AtRest
  /\ cmdHist # <<>>
  /\ histIdx' = OlderIndex
  /\ UNCHANGED <<bundleVars, pending, queue, running, fetch, interpVars,
                 cmdHist, stackVars, submitted, finished, setupVars>>

HistoryDown ==
  /\ AtRest
  /\ histIdx' = IF histIdx > 0 THEN histIdx - 1 ELSE -1
  /\ UNCHANGED <<bundleVars, pending, queue, running, fetch, interpVars,
                 cmdHist, stackVars, submitted, finished, setupVars>>

-----------------------------------------------------------------------------
(* The run queue. *)

\* _run pushes the input, and drains unless an input is in hand.
Push_Lifo(c)  == queue' = <<c>> \o queue      \* mutant
Push_Running(c) == queue' = Append(queue, running) \* mutant: the one in hand again
Push(c)       == queue' = Append(queue, c)

StartsDrain        == running = NoInput

\* _run(code) for the next input of a submit.
Run ==
  /\ ~draining
  /\ todo # <<>>
  /\ Push(Head(todo))
  /\ todo' = Tail(todo)
  /\ draining' = StartsDrain
  /\ UNCHANGED <<bundleVars, pending, running, fetch, interpVars, histVars,
                 flush, submitted, finished, setupVars>>

\* _drain finds the queue empty and returns.
DrainEnds ==
  /\ draining
  /\ queue = <<>>
  /\ draining' = FALSE
  /\ UNCHANGED <<bundleVars, pending, queue, running, fetch, interpVars,
                 histVars, todo, flush, submitted, finished, setupVars>>

\* _runNow keeps the input for the up and down keys, unless it repeats.
Remember(c) ==
  LET kept == IF cmdHist # <<>> /\ Head(cmdHist) = c THEN cmdHist
                                                     ELSE <<c>> \o cmdHist
  IN /\ cmdHist' = IF Len(kept) > HistMax THEN SubSeq(kept, 1, Len(kept) - 1)
                                          ELSE kept
     /\ histIdx' = -1

\* _runNow's inputs that finish synchronously.
RunBlank(c) == /\ Kind[c] = "blank"
               /\ Done(c, "blank")
               /\ UNCHANGED <<bundleVars, pending, fetch, interpVars, histVars,
                              setupVars>>

RunScreen(c) == /\ Kind[c] \in {"clear", "help"}
                /\ Remember(c)
                /\ Done(c, "screen")
                /\ UNCHANGED <<bundleVars, pending, fetch, interpVars,
                               setupVars>>

\* The files a session starts with: the index's core list, those of it whose
\* text is there.  (Without the index it is the prelude, which no list names.)
StartsWith(indexed, texts) == IF indexed THEN texts ELSE {}

\* marchResetSession, once the interpreter is there: the next session starts
\* over, with what there is by now.
ResetSession_ModulesOnly == \* mutant: the definitions survive
  /\ mods' = IF loaded THEN StartsWith(index, sources) ELSE mods
  /\ UNCHANGED <<sources, session>>
ResetSession ==
  /\ mods' = IF loaded THEN StartsWith(index, sources) ELSE mods
  /\ session' = IF loaded THEN <<>> ELSE session
  /\ UNCHANGED sources

RunReset(c) == /\ Kind[c] = "reset"
               /\ Remember(c)
               /\ ResetSession
               /\ Done(c, "reset")
               /\ UNCHANGED <<bundleVars, pending, fetch, setupVars>>

\* _runNow's inputs that need the interpreter.
RunCode(c) ==
  /\ Kind[c] \in {"lookup", "code"}
  /\ Remember(c)
  /\ \/ /\ loaded
        /\ Reply(c, loaded)
        /\ UNCHANGED <<bundleVars, pending>>
     \/ /\ ~loaded
        /\ LoadBundle("input")
        /\ running' = c
        /\ draining' = FALSE
        /\ UNCHANGED <<finished, fetch, session>>
  /\ UNCHANGED <<stdlibVars, setupVars>>

\* _drain takes the oldest input and runs it.
RunNow ==
  /\ draining
  /\ queue # <<>>
  /\ queue' = Tail(queue)
  /\ LET c == Head(queue)
     IN RunBlank(c) \/ RunScreen(c) \/ RunReset(c) \/ RunCode(c)
  /\ UNCHANGED <<todo, flush, submitted>>

-----------------------------------------------------------------------------
(* What the network answers. *)

\* The start-up library or the module index arrived or failed: either way the
\* next script is asked for, and "a failed stdlib or index load still leaves a
\* working interpreter, just with less of the stdlib" (march-repl.js:108-109).
\* What has arrived stays, so a second attempt may fill in what is missing.
NextScript(l, arrived) ==
  /\ AtRest
  /\ l.stage # "march"
  /\ loads' = (loads \ {l}) \cup
              {[l EXCEPT !.stage = IF l.stage = "stdlib" THEN "index" ELSE "march"]}
  /\ sources' = IF l.stage = "stdlib" /\ arrived THEN Core ELSE sources
  /\ index' = (index \/ (l.stage = "index" /\ arrived))
  /\ mods' = StartsWith(index', sources')
  /\ UNCHANGED <<loaded, loading, pending, queue, running, fetch, session,
                 histVars, stackVars, submitted, finished, setupVars>>

\* Both finish and fail go on to call the pending callback.
CallsPending_Finish(arrived) == arrived \* mutant: fail forgets it
CallsPending(arrived) == TRUE

\* march.js arrived (finish) or failed (fail): cb, then the pending callback.
BundleEnds(l, arrived) ==
  /\ AtRest
  /\ l.stage = "march"
  /\ loads' = loads \ {l}
  /\ loaded' = (loaded \/ arrived)
  /\ loading' = FALSE
  /\ flush' = CallsPending(arrived)
  /\ Call(l.cb, loaded \/ arrived)
  /\ UNCHANGED <<index, pending, queue, stdlibVars, histVars, todo, submitted, asked>>

TakePending == pending' = "none"

\* if (_pending) { f = _pending; _pending = null; f(); }
Flush ==
  /\ flush
  /\ ~draining
  /\ flush' = FALSE
  /\ TakePending
  /\ Call(pending, loaded)
  /\ UNCHANGED <<bundleVars, queue, stdlibVars, histVars, todo, submitted, asked>>

\* A file's script sets its text, which a later session starts with if it is a
\* core one that the start-up library did not bring.
Brought(file) == sources \cup ({file} \cap Core)

\* An on-demand file arrived and loads; after the last one the input is
\* evaluated.
ModuleLoaded ==
  /\ AtRest
  /\ fetch # <<>>
  /\ fetch' = Tail(fetch)
  /\ mods' = mods \cup {Head(fetch)}
  /\ sources' = Brought(Head(fetch))
  /\ \/ /\ Len(fetch) = 1
        /\ Evaluate(running)
     \/ /\ Len(fetch) > 1
        /\ UNCHANGED <<finished, running, draining, session>>
  /\ UNCHANGED <<bundleVars, pending, queue, histVars, todo, flush, submitted,
                 setupVars>>

\* cb(message): the input is answered with the message.
GiveUp_Evaluates == Evaluate(running) \* mutant: the error is not looked at
GiveUp == /\ Done(running, "no module")
          /\ UNCHANGED session

\* It could not be downloaded, or marchLoadModule refused it: nothing is
\* evaluated.
ModuleFailed ==
  /\ AtRest
  /\ fetch # <<>>
  /\ fetch' = <<>>
  /\ sources' \in {sources, Brought(Head(fetch))}
  /\ GiveUp
  /\ UNCHANGED <<bundleVars, pending, queue, mods, histVars, todo, flush,
                 submitted, setupVars>>

-----------------------------------------------------------------------------
HandlerStep   == Run \/ DrainEnds \/ RunNow \/ Flush
ScriptAnswers == \/ \E l \in loads, ok \in BOOLEAN : NextScript(l, ok) \/ BundleEnds(l, ok)
                 \/ ModuleLoaded
                 \/ ModuleFailed

Next == \/ \E text \in Texts : Submit(text)
        \/ Prefetch
        \/ LoadThen
        \/ HistoryUp
        \/ HistoryDown
        \/ HandlerStep
        \/ ScriptAnswers

Spec == Init /\ [][Next]_vars

\* A handler that has started runs to its end, and the browser reports every
\* script element's load or error.
FairSpec == Spec /\ WF_vars(HandlerStep) /\ WF_vars(ScriptAnswers)

-----------------------------------------------------------------------------
(* Properties. *)

\* The inputs answered so far, and the input in hand, if any.
Answered == [i \in DOMAIN finished |-> finished[i].input]
Current  == IF running = NoInput THEN <<>> ELSE <<running>>

\* "Inputs run strictly in order" (march-repl.js:308): what was answered, then
\* the input in hand, then the queue, then the rest of the handler's text, is
\* exactly what was submitted; nothing is dropped, repeated or overtaken.
StrictOrder == Answered \o Current \o queue \o todo = submitted

\* Where the callback of the input in hand is held: by a bundle download, in
\* the pending slot, or by a download of modules.
Holders == {h \in {"bundle", "pending", "modules"} :
              \/ h = "bundle" /\ \E l \in loads : l.cb = "input"
              \/ h = "pending" /\ pending = "input"
              \/ h = "modules" /\ fetch # <<>>}

\* It is held in one place at most, and nowhere when no input is in hand: a
\* second holder would answer one input twice and run the next beside it.
OneHolder == /\ \A g, h \in Holders : g = h
             /\ Holders # {} => running # NoInput

\* The input in hand always has its callback somewhere: "the run queue moves
\* on instead of hanging" (march-repl.js:102), and no input is "dropped by
\* _loadBundle's single pending slot" (march-repl.js:311).
InputHeld == running # NoInput => Holders # {}

\* As long as no chip has been clicked, nothing can take that from it.
InputHeldWithoutChips == asked = 0 => InputHeld

\* Every chip's setup code that has not been called is still held somewhere:
\* "Silently eval setup code, then load followup code into the textarea"
\* (march-repl.js:493), "chips that need prior state in scope".
SetupHeld ==
  asked = answered + Cardinality({l \in loads : l.cb = "setup"})
                   + (IF pending = "setup" THEN 1 ELSE 0)

\* As long as there is one chip's code and no input to keep, nothing can take
\* the slot from it: not the prefetch, which the page may ask for at any time.
SetupHeldWithoutInputs == asked <= 1 /\ submitted = <<>> => SetupHeld

\* The pending slot is enough for the page's prefetch beside inputs alone, or
\* beside one chip alone (and not, see InputHeld, for inputs and chips).
PendingIsEnough == InputHeldWithoutChips /\ SetupHeldWithoutInputs

\* _loading tells whether a download is under way, there is never a second
\* one, and none is started once the interpreter is there: march.js evaluated
\* twice would lose the session.
OneDownload == /\ \A k, l \in loads : k = l
               /\ loading <=> loads # {}
               /\ loaded => ~loading

\* No callback is called twice and no download made twice, however the queue, the
\* chips and the downloads interleave.
CallbacksOK == OneHolder /\ OneDownload

\* A callback is parked only while a download runs or the handler that will
\* call it is still running: otherwise nobody would ever call it.
PendingIsWatched == pending # "none" => loading \/ flush

\* The inputs a step has answered with an evaluation.
NewlyEvaluated == {finished'[i].input : i \in {j \in DOMAIN finished' \ DOMAIN finished :
                                                 finished'[j].outcome = "evaluated"}}

\* What evaluating c must find, when the interpreter has these files: every module
\* c needs is there, and c names none that cannot run here.
HasModules(c, has) == c \notin Unavailable /\ ModulesNeeded(c, has) = <<>>

\* Once the index has arrived, whatever else failed, an input is evaluated only
\* with every module it needs in the interpreter (march-repl.js:124-128): also
\* with those the start-up library should have brought, and although the list of
\* files was made before the downloads and is used after them.  (If the index
\* failed, an input is evaluated without its modules, and nobody is told.)
EvaluatesWithModules == [][index' => \A c \in NewlyEvaluated : HasModules(c, mods')]_vars

\* The up and down keys stay inside the capped history (an index past the end
\* would put "undefined" in the textarea), which never repeats an input in a
\* row, also when a queued input is remembered while the reader browses.
HistoryOK == /\ Len(cmdHist) <= HistMax
             /\ histIdx >= -1
             /\ histIdx < Len(cmdHist)
             /\ \A i \in 1..(Len(cmdHist) - 1) : cmdHist[i] # cmdHist[i + 1]

\* Inputs, outcomes and session are those of the sequential contract.
Contract == INSTANCE ReplContract
              WITH Resets <- {c \in Inputs : Kind[c] = "reset"}
ImplementsContract == Contract!Spec

\* On a page whose chips are never clicked, or that has none, every submitted
\* input is answered, whatever the network does.
EveryInputAnswered ==
  [](asked = 0) => \A n \in 1..MaxInputs : Len(submitted) >= n ~> Len(finished) >= n
=============================================================================
