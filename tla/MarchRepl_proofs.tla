-------------------------- MODULE MarchRepl_proofs --------------------------
(***************************************************************************)
(* Theorems about MarchRepl, for all inputs, texts, files and bounds.      *)
(*                                                                         *)
(* The invariant that carries them is IInv: the types, and the wiring of   *)
(* the callbacks.  A reply needs an input in hand, so that the callback of *)
(* an input is held somewhere only while that input is in hand, and in one *)
(* place, is what keeps even the types.  Slot adds what the pending slot   *)
(* holds, InHand what the input in hand waits for, and LogStep says what a *)
(* step answers: the contract's steps follow from it and StrictOrder.      *)
(***************************************************************************)
EXTENDS MarchRepl, SequenceTheorems, FiniteSetTheorems, TLAPS

HeldByBundle == \E l \in loads : l.cb = "input"

\* OneHolder without the set of holders; and _drain runs only with no input in
\* hand.
Wiring == /\ running = NoInput => pending # "input" /\ fetch = <<>> /\ ~HeldByBundle
          /\ pending = "input" => fetch = <<>> /\ ~HeldByBundle
          /\ fetch # <<>> => ~HeldByBundle
          /\ draining => running = NoInput
          /\ OneDownload
          /\ PendingIsWatched

IInv == TypeOK /\ Wiring

\* _runNow's history update keeps a sequence of inputs.
LEMMA RememberType ==
  ASSUME TypeOK, NEW c \in Inputs, Remember(c)
  PROVE  cmdHist' \in Seq(Inputs) /\ histIdx' \in Int
<1> DEFINE kept == IF cmdHist # <<>> /\ Head(cmdHist) = c THEN cmdHist
                                                         ELSE <<c>> \o cmdHist
<1>1. kept \in Seq(Inputs) /\ Len(kept) \in Nat
  <2>1. <<c>> \in Seq(Inputs)
    OBVIOUS
  <2>2. cmdHist \in Seq(Inputs)
    BY DEF TypeOK
  <2> QED
    BY <2>1, <2>2, ConcatProperties, LenProperties
<1>2. SubSeq(kept, 1, Len(kept) - 1) \in Seq(Inputs)
  <2>1. \A i \in 1..(Len(kept) - 1) : kept[i] \in Inputs
    BY <1>1, ElementOfSeq
  <2> HIDE DEF kept
  <2> QED
    BY <1>1, <2>1, SubSeqProperties
<1> QED
  BY <1>1, <1>2 DEF Remember

\* Done answers the input and empties the hand.
LEMMA DoneType ==
  ASSUME TypeOK, NEW c \in Inputs, NEW outcome \in Outcomes, Done(c, outcome)
  PROVE  /\ finished' \in Seq(Answers)
         /\ running' = NoInput
         /\ draining'
<1>1. [input |-> c, outcome |-> outcome] \in Answers
  BY DEF Answers
<1> QED
  BY <1>1 DEF Done, TypeOK

\* A reply either answers the input or starts waiting for modules.
LEMMA ReplyType ==
  ASSUME TypeOK, NEW c \in Inputs, NEW available \in BOOLEAN, Reply(c, available),
         fetch = <<>>
  PROVE  /\ finished' \in Seq(Answers)
         /\ session' \in Seq(Code)
         /\ fetch' \in Seq(Files)
         /\ \/ running' = NoInput /\ draining' = TRUE /\ fetch' = <<>>
            \/ running' = c /\ draining' = FALSE
<1>1. ToLoad(c) \in Seq(Files)
  <2>1. ModulesNeeded(c, mods) \in Seq(Files) /\ <<>> \in Seq(Files)
    BY ModulesNeededAssumption DEF TypeOK
  <2> QED
    BY <2>1 DEF ToLoad
<1>2. ASSUME NEW outcome \in Outcomes, Done(c, outcome), UNCHANGED <<fetch, session>>
      PROVE  /\ finished' \in Seq(Answers)
             /\ session' \in Seq(Code)
             /\ fetch' \in Seq(Files)
             /\ running' = NoInput /\ draining' = TRUE /\ fetch' = <<>>
  <2>1. /\ finished' \in Seq(Answers)
        /\ running' = NoInput /\ draining' = TRUE
    BY <1>2, DoneType DEF Done
  <2> QED
    BY <1>2, <2>1 DEF TypeOK
<1>3. ASSUME Evaluate(c), UNCHANGED fetch
      PROVE  /\ finished' \in Seq(Answers)
             /\ session' \in Seq(Code)
             /\ fetch' \in Seq(Files)
             /\ running' = NoInput /\ draining' = TRUE /\ fetch' = <<>>
  <2>1. "evaluated" \in Outcomes
    BY DEF Outcomes
  <2>2. /\ finished' \in Seq(Answers)
        /\ running' = NoInput /\ draining' = TRUE
    BY <1>3, <2>1, DoneType DEF Evaluate, Done
  <2>3. session' \in Seq(Code)
    BY <1>3 DEF Evaluate, TypeOK, Code
  <2> QED
    BY <1>3, <2>2, <2>3 DEF TypeOK
<1>4. {"no interpreter", "docs", "no module"} \subseteq Outcomes
  BY DEF Outcomes
<1> QED
  BY <1>1, <1>2, <1>3, <1>4 DEF Reply, TypeOK

\* What a callback leaves behind: the types, and only an input's callback
\* touches the hand, which it either empties or keeps to wait for modules.
CalledOK(cb) ==
  /\ finished' \in Seq(Answers)
  /\ session' \in Seq(Code)
  /\ fetch' \in Seq(Files)
  /\ answered' \in Nat
  /\ \/ /\ running' = running /\ draining' = draining /\ fetch' = fetch
        /\ cb # "input"
     \/ running' = NoInput /\ draining' = TRUE /\ fetch' = <<>> /\ cb = "input"
     \/ running' = running /\ draining' = FALSE /\ cb = "input"

\* A callback keeps the types, if an input is in hand when it is the input's.
LEMMA CallType ==
  ASSUME TypeOK, NEW cb \in Callbacks \cup {"none"}, NEW available \in BOOLEAN,
         cb = "input" => running \in Inputs /\ fetch = <<>>,
         Call(cb, available)
  PROVE  CalledOK(cb)
<1> USE DEF CalledOK
<1>1. CASE cb = "input"
  <2>1. Reply(running, available) /\ UNCHANGED answered
    BY <1>1 DEF Call
  <2>2. running \in Inputs /\ fetch = <<>>
    BY <1>1
  <2>3. /\ finished' \in Seq(Answers)
        /\ session' \in Seq(Code)
        /\ fetch' \in Seq(Files)
        /\ \/ running' = NoInput /\ draining' = TRUE /\ fetch' = <<>>
           \/ running' = running /\ draining' = FALSE
    BY <2>1, <2>2, ReplyType
  <2>4. answered' \in Nat
    BY <2>1 DEF TypeOK
  <2> QED
    BY <1>1, <2>3, <2>4
<1>2. CASE cb = "setup"
  <2>1. /\ session' \in {session, Append(session, SetupCode)}
        /\ answered' = answered + 1
        /\ UNCHANGED <<finished, running, draining, fetch>>
    BY <1>2 DEF Call
  <2>2. session' \in Seq(Code)
    <3>1. SetupCode \in Code
      BY DEF Code
    <3>2. session \in Seq(Code)
      BY DEF TypeOK
    <3> QED
      BY <2>1, <3>1, <3>2
  <2>3. answered' \in Nat
    BY <2>1 DEF TypeOK
  <2>4. /\ finished' \in Seq(Answers)
        /\ fetch' \in Seq(Files)
    BY <2>1 DEF TypeOK
  <2> QED
    BY <1>2, <2>1, <2>2, <2>3, <2>4, Zenon
<1>3. CASE cb \in {"noop", "none"}
  BY <1>3 DEF Call, TypeOK
<1> QED
  BY <1>1, <1>2, <1>3 DEF Callbacks

\* A session starts with files.
LEMMA StartsType ==
  ASSUME NEW indexed, NEW texts \in SUBSET Core PROVE StartsWith(indexed, texts) \subseteq Files
BY CoreAssumption DEF StartsWith

-----------------------------------------------------------------------------
\* A page that has just been loaded.
LEMMA InitIInv == Init => IInv
<1> SUFFICES ASSUME Init PROVE IInv
  OBVIOUS
<1>1. TypeOK
  <2>1. \A S : <<>> \in Seq(S)
    OBVIOUS
  <2>2. /\ queue \in Seq(Inputs)
        /\ fetch \in Seq(Files)
        /\ session \in Seq(Code)
        /\ cmdHist \in Seq(Inputs)
        /\ todo \in Seq(Inputs)
        /\ submitted \in Seq(Inputs)
        /\ finished \in Seq(Answers)
    BY <2>1 DEF Init
  <2>3. /\ loads \subseteq [stage : Stages, cb : Callbacks]
        /\ running \in Inputs \cup {NoInput}
        /\ mods \subseteq Files
        /\ sources \subseteq Core
        /\ index \in BOOLEAN
        /\ loaded \in BOOLEAN
        /\ loading \in BOOLEAN
        /\ draining \in BOOLEAN
        /\ flush \in BOOLEAN
        /\ pending \in Callbacks \cup {"none"}
    BY Zenon DEF Init
  <2>4. histIdx \in Int /\ asked \in Nat /\ answered \in Nat
    BY DEF Init
  <2> QED
    BY <2>2, <2>3, <2>4, Zenon DEF TypeOK
<1>2. Wiring
  BY DEF Init, Wiring, HeldByBundle, OneDownload, PendingIsWatched
<1> QED
  BY <1>1, <1>2 DEF IInv

\* A submit: the text is one of Texts, a sequence of inputs.
LEMMA SubmitIInv == ASSUME IInv, NEW text \in Texts, Submit(text) PROVE IInv'
<1> USE DEF Submit, bundleVars, interpVars, stdlibVars, histVars, setupVars
<1>1. text \in Seq(Inputs)
  BY TextsAssumption
<1>2. todo' \in Seq(Inputs) /\ submitted' \in Seq(Inputs)
  BY <1>1, ConcatProperties DEF IInv, TypeOK
<1>3. TypeOK'
  BY <1>2 DEF IInv, TypeOK
<1>4. Wiring'
  BY DEF IInv, Wiring, HeldByBundle, OneDownload, PendingIsWatched
<1> QED
  BY <1>3, <1>4 DEF IInv

\* _loadBundle with the bundle missing: the callback is parked over whatever
\* the slot holds, or a first download starts.
LEMMA LoadBundleIInv ==
  ASSUME IInv, ~loaded, NEW cb \in Callbacks, LoadBundle(cb),
         UNCHANGED <<fetch, flush>>,
         \/ cb # "input" /\ UNCHANGED <<running, draining>>
         \/ cb = "input" /\ running = NoInput /\ running' # NoInput /\ ~draining'
  PROVE  /\ Wiring'
         /\ loaded' \in BOOLEAN
         /\ index' \in BOOLEAN
         /\ loading' \in BOOLEAN
         /\ loads' \subseteq [stage : Stages, cb : Callbacks]
         /\ pending' \in Callbacks \cup {"none"}
<1> USE DEF IInv, Wiring, HeldByBundle, OneDownload, PendingIsWatched, LoadBundle
<1>1. CASE Park(cb)
  BY <1>1 DEF Park, TypeOK
<1>2. CASE Download(cb)
  <2>1. [stage |-> "stdlib", cb |-> cb] \in [stage : Stages, cb : Callbacks]
    BY DEF Stages
  <2>2. loads = {} /\ loads' = {[stage |-> "stdlib", cb |-> cb]} /\ loading'
    BY <1>2 DEF Download
  <2>3. UNCHANGED <<pending, loaded, index>>
    BY <1>2 DEF Download
  <2>4. HeldByBundle' <=> cb = "input"
    BY <2>2
  <2>5. \A k, l \in loads' : k = l
    BY <2>2
  <2>6. loads' # {}
    BY <2>2
  <2>7. loaded' \in BOOLEAN /\ index' \in BOOLEAN /\ loading' \in BOOLEAN /\ pending' \in Callbacks \cup {"none"}
        /\ loads' \subseteq [stage : Stages, cb : Callbacks]
    BY <2>1, <2>2, <2>3, <1>2 DEF TypeOK, Download
  <2>8. Wiring'
    <3> HIDE DEF HeldByBundle
    <3> QED
      BY <2>2, <2>3, <2>4, <2>5, <2>6 
  <2> QED
    BY <2>7, <2>8
<1> QED
  BY <1>1, <1>2

\* One lemma per action: it keeps the types and the wiring of the callbacks.
LEMMA PrefetchIInv == ASSUME IInv, Prefetch PROVE IInv'
<1>1. /\ ~loaded /\ LoadBundle("noop")
      /\ UNCHANGED <<queue, running, fetch, interpVars, histVars, stackVars,
                     submitted, finished, setupVars>>
  BY DEF Prefetch, MayPrefetch
<1>2. "noop" \in Callbacks /\ "noop" # "input"
  BY DEF Callbacks
<1>3. /\ Wiring'
      /\ loaded' \in BOOLEAN
      /\ index' \in BOOLEAN
      /\ loading' \in BOOLEAN
      /\ loads' \subseteq [stage : Stages, cb : Callbacks]
      /\ pending' \in Callbacks \cup {"none"}
  BY <1>1, <1>2, LoadBundleIInv DEF stackVars
<1>4. TypeOK'
  BY <1>1, <1>3 DEF IInv, TypeOK, interpVars, stdlibVars, histVars, stackVars, setupVars
<1> QED
  BY <1>3, <1>4 DEF IInv

LEMMA LoadThenIInv == ASSUME IInv, LoadThen PROVE IInv'
<1> USE DEF LoadThen
<1>1. /\ asked' \in Nat
      /\ UNCHANGED <<queue, mods, sources, histVars, todo, flush, submitted>>
  BY DEF IInv, TypeOK, stdlibVars
<1>2. "setup" \in Callbacks /\ "setup" # "input"
  BY DEF Callbacks
<1>3. CASE loaded
  <2>1. Call("setup", loaded) /\ UNCHANGED <<bundleVars, pending>>
    BY <1>3
  <2>2. CalledOK("setup")
    <3>1. TypeOK /\ loaded \in BOOLEAN
      BY DEF IInv, TypeOK
    <3>2. "setup" \in Callbacks \cup {"none"}
      BY DEF Callbacks
    <3> QED
      BY <1>2, <2>1, <3>1, <3>2, CallType, Zenon
  <2>3. UNCHANGED <<loaded, loading, loads, index, pending, queue, mods, sources, cmdHist,
                     histIdx, todo, flush, submitted>>
    BY <1>1, <2>1 DEF bundleVars, histVars
  <2>5. TypeOK'
    BY <1>1, <1>2, <2>2, <2>3 DEF IInv, TypeOK, CalledOK
  <2>4. Wiring'
    BY <1>2, <2>2, <2>3 DEF IInv, Wiring, HeldByBundle, OneDownload,
                            PendingIsWatched, CalledOK
  <2> QED
    BY <2>4, <2>5 DEF IInv
<1>4. CASE ~loaded
  <2>1. /\ LoadBundle("setup")
        /\ UNCHANGED <<finished, running, draining, fetch, session, answered>>
    BY <1>4
  <2>2. /\ Wiring'
        /\ loaded' \in BOOLEAN
        /\ index' \in BOOLEAN
        /\ loading' \in BOOLEAN
        /\ loads' \subseteq [stage : Stages, cb : Callbacks]
        /\ pending' \in Callbacks \cup {"none"}
    BY <1>1, <1>2, <1>4, <2>1, LoadBundleIInv
  <2>3. TypeOK'
    BY <1>1, <2>1, <2>2 DEF IInv, TypeOK, histVars
  <2> QED
    BY <2>2, <2>3 DEF IInv
<1> QED
  BY <1>3, <1>4

LEMMA BrowseIInv == ASSUME IInv, HistoryUp \/ HistoryDown PROVE IInv'
<1> USE DEF HistoryUp, HistoryDown, OlderIndex, bundleVars, interpVars, stdlibVars,
            stackVars, setupVars
<1>1. histIdx' \in Int
  <2>1. Len(cmdHist) \in Int /\ histIdx \in Int
    BY DEF IInv, TypeOK
  <2> QED
    BY <2>1
<1>2. UNCHANGED <<loaded, loading, loads, index, pending, queue, running, fetch, mods, sources,
        session, cmdHist, todo, draining, flush, submitted, finished, asked,
        answered>>
  OBVIOUS
<1>3. TypeOK'
  BY <1>1, <1>2 DEF IInv, TypeOK
<1>4. Wiring'
  BY <1>2 DEF IInv, Wiring, HeldByBundle, OneDownload, PendingIsWatched
<1> QED
  BY <1>3, <1>4 DEF IInv

LEMMA RunIInv == ASSUME IInv, Run PROVE IInv'
<1> USE DEF Run, Push, StartsDrain
<1>1. queue' \in Seq(Inputs) /\ todo' \in Seq(Inputs) /\ draining' \in BOOLEAN
  <2>1. queue \in Seq(Inputs) /\ todo \in Seq(Inputs) /\ todo # <<>>
    BY DEF IInv, TypeOK
  <2>2. Head(todo) \in Inputs /\ Tail(todo) \in Seq(Inputs)
    BY <2>1
  <2> QED
    BY <2>1, <2>2
<1>2. UNCHANGED <<loaded, loading, loads, index, pending, running, fetch, mods, sources, session,
        cmdHist, histIdx, flush, submitted, finished, asked, answered>>
  BY DEF bundleVars, interpVars, stdlibVars, histVars, setupVars
<1>3. TypeOK'
  BY <1>1, <1>2 DEF IInv, TypeOK
<1>4. draining' => running' = NoInput
  BY <1>2
<1>5. Wiring'
  BY <1>2, <1>4 DEF IInv, Wiring, HeldByBundle, OneDownload, PendingIsWatched
<1> QED
  BY <1>3, <1>5 DEF IInv

LEMMA DrainEndsIInv == ASSUME IInv, DrainEnds PROVE IInv'
<1>1. ~draining' /\ draining' \in BOOLEAN
  BY DEF DrainEnds
<1>2. UNCHANGED <<loaded, loading, loads, index, pending, queue, running, fetch, mods, sources,
        session, cmdHist, histIdx, todo, flush, submitted, finished, asked, answered>>
  BY DEF DrainEnds, bundleVars, interpVars, stdlibVars, histVars, setupVars
<1>3. TypeOK'
  BY <1>1, <1>2 DEF IInv, TypeOK
<1>4. Wiring'
  BY <1>1, <1>2 DEF IInv, Wiring, HeldByBundle, OneDownload, PendingIsWatched
<1> QED
  BY <1>3, <1>4 DEF IInv

\* The _drain loop takes an input with no other in hand.  If the input needs
\* the bundle and the bundle is missing, its callback goes to _loadBundle.
LEMMA RunNowIInv == ASSUME IInv, RunNow PROVE IInv'
<1> DEFINE c == Head(queue)
<1>1. /\ c \in Inputs
      /\ queue' \in Seq(Inputs)
  BY DEF RunNow, IInv, TypeOK
<1>2. /\ running = NoInput /\ pending # "input" /\ fetch = <<>> /\ ~HeldByBundle
      /\ TypeOK /\ loaded \in BOOLEAN
  BY DEF RunNow, IInv, Wiring, TypeOK
<1>3. UNCHANGED <<todo, flush, submitted>>
  BY DEF RunNow
<1> HIDE DEF c
<1>4. CASE RunBlank(c)
  <2>1. /\ finished' \in Seq(Answers) /\ running' = NoInput /\ draining' = TRUE
    <3>1. Done(c, "blank") /\ "blank" \in Outcomes
      BY <1>4 DEF RunBlank, Outcomes
    <3> QED
      BY <1>1, <1>2, <3>1, DoneType, Zenon DEF Done
  <2>2. UNCHANGED <<loaded, loading, loads, index, pending, fetch, mods, sources, session,
                    cmdHist, histIdx, asked, answered>>
    BY <1>4 DEF RunBlank, bundleVars, interpVars, stdlibVars, histVars, setupVars
  <2>3. TypeOK'
    BY <1>1, <1>3, <2>1, <2>2 DEF IInv, TypeOK
  <2>4. Wiring'
    BY <1>2, <1>3, <2>1, <2>2 DEF IInv, Wiring, HeldByBundle, OneDownload,
                                  PendingIsWatched
  <2> QED
    BY <2>3, <2>4 DEF IInv
<1>5. CASE RunScreen(c) \/ RunReset(c)
  <2>1. /\ finished' \in Seq(Answers) /\ running' = NoInput /\ draining' = TRUE
    <3>1. PICK outcome \in Outcomes : Done(c, outcome)
      BY <1>5, Zenon DEF RunScreen, RunReset, Outcomes
    <3> QED
      BY <1>1, <1>2, <3>1, DoneType, Zenon DEF Done
  <2>2. cmdHist' \in Seq(Inputs) /\ histIdx' \in Int
    BY <1>1, <1>2, <1>5, RememberType DEF RunScreen, RunReset
  <2>3. UNCHANGED <<loaded, loading, loads, index, pending, fetch, asked, answered>>
    BY <1>5 DEF RunScreen, RunReset, bundleVars, setupVars
  <2>4. mods' \subseteq Files /\ sources' \subseteq Core /\ session' \in Seq(Code)
    <3>1. /\ mods' \in {mods, StartsWith(index, sources)}
          /\ session' \in {session, <<>>} /\ sources' = sources
      BY <1>5 DEF RunScreen, RunReset, ResetSession, interpVars, stdlibVars
    <3>2. /\ mods \subseteq Files /\ sources \subseteq Core
          /\ session \in Seq(Code) /\ <<>> \in Seq(Code)
      BY <1>2 DEF IInv, TypeOK
    <3>3. StartsWith(index, sources) \subseteq Files
      BY <3>2, CoreAssumption DEF StartsWith
    <3> QED
      BY <3>1, <3>2, <3>3
  <2>5. TypeOK'
    BY <1>1, <1>3, <2>1, <2>2, <2>3, <2>4 DEF IInv, TypeOK
  <2>6. Wiring'
    BY <1>2, <1>3, <2>1, <2>3 DEF IInv, Wiring, HeldByBundle, OneDownload,
                                  PendingIsWatched
  <2> QED
    BY <2>5, <2>6 DEF IInv
<1>6. CASE RunCode(c)
  <2>1. cmdHist' \in Seq(Inputs) /\ histIdx' \in Int
    BY <1>1, <1>2, <1>6, RememberType DEF RunCode
  <2>2. UNCHANGED <<mods, sources, asked, answered>>
    BY <1>6 DEF RunCode, stdlibVars, setupVars
  <2>3. CASE loaded
    <3>1. Reply(c, loaded) /\ UNCHANGED <<loaded, loading, loads, index, pending>>
      BY <1>6, <2>3 DEF RunCode, bundleVars
    <3>2. /\ finished' \in Seq(Answers)
          /\ session' \in Seq(Code)
          /\ fetch' \in Seq(Files)
          /\ \/ running' = NoInput /\ draining' = TRUE /\ fetch' = <<>>
             \/ running' = c /\ draining' = FALSE
      BY <1>1, <1>2, <3>1, ReplyType
    <3>3. TypeOK'
      BY <1>1, <1>3, <2>1, <2>2, <3>1, <3>2 DEF IInv, TypeOK
    <3>4. Wiring'
      BY <1>1, <1>2, <1>3, <3>1, <3>2, NoInputAssumption
         DEF IInv, Wiring, HeldByBundle, OneDownload, PendingIsWatched
    <3> QED
      BY <3>3, <3>4 DEF IInv
  <2>4. CASE ~loaded
    <3>1. /\ LoadBundle("input") /\ running' = c /\ ~draining'
          /\ draining' \in BOOLEAN
          /\ UNCHANGED <<finished, fetch, session>>
      BY <1>6, <2>4 DEF RunCode
    <3>2. "input" \in Callbacks
      BY DEF Callbacks
    <3>3. running' # NoInput
      BY <1>1, <3>1, NoInputAssumption
    <3>4. /\ Wiring'
          /\ loaded' \in BOOLEAN
          /\ index' \in BOOLEAN
          /\ loading' \in BOOLEAN
          /\ loads' \subseteq [stage : Stages, cb : Callbacks]
          /\ pending' \in Callbacks \cup {"none"}
      BY <1>2, <1>3, <2>4, <3>1, <3>2, <3>3, LoadBundleIInv
    <3>5. TypeOK'
      BY <1>1, <1>3, <2>1, <2>2, <3>1, <3>4 DEF IInv, TypeOK
    <3> QED
      BY <3>4, <3>5 DEF IInv
  <2> QED
    BY <2>3, <2>4
<1> QED
  BY <1>4, <1>5, <1>6 DEF RunNow, c

LEMMA NextScriptIInv ==
  ASSUME IInv, NEW l \in loads, NEW arrived \in BOOLEAN, NextScript(l, arrived)
  PROVE  IInv'
<1> DEFINE l2 == [l EXCEPT !.stage = IF l.stage = "stdlib" THEN "index" ELSE "march"]
<1>1. l \in [stage : Stages, cb : Callbacks]
  BY DEF IInv, TypeOK
<1>2. l2 \in [stage : Stages, cb : Callbacks] /\ l2.cb = l.cb
  BY <1>1 DEF Stages
<1>3. loads = {l}
  BY DEF IInv, Wiring, OneDownload
<1> HIDE DEF l2
<1>4. loads' = {l2}
  <2>1. loads' = (loads \ {l}) \cup {l2}
    BY DEF NextScript, l2
  <2> QED
    BY <1>3, <2>1
<1>5. UNCHANGED <<loaded, loading, pending, queue, running, fetch, session,
        cmdHist, histIdx, todo, draining, flush, submitted, finished, asked, answered>>
  BY DEF NextScript, histVars, stackVars, setupVars
<1>8. mods' \subseteq Files /\ sources' \subseteq Core /\ index' \in BOOLEAN
  <2>1. sources' \subseteq Core /\ index' \in BOOLEAN
    BY DEF NextScript, IInv, TypeOK
  <2>2. mods' = StartsWith(index', sources')
    BY DEF NextScript
  <2> QED
    BY <2>1, <2>2, StartsType
<1>6. TypeOK'
  BY <1>2, <1>4, <1>5, <1>8 DEF IInv, TypeOK
<1>7. Wiring'
  BY <1>2, <1>3, <1>4, <1>5 DEF IInv, Wiring, HeldByBundle, OneDownload,
                                PendingIsWatched
<1> QED
  BY <1>6, <1>7 DEF IInv

\* Either way the only download is over: cb is called now, the parked callback
\* by Flush.
LEMMA BundleEndsIInv ==
  ASSUME IInv, NEW l \in loads, NEW arrived \in BOOLEAN, BundleEnds(l, arrived)
  PROVE  IInv'
<1>1. l.cb \in Callbacks /\ loads = {l} /\ l.cb \in Callbacks \cup {"none"}
  BY DEF IInv, TypeOK, Wiring, OneDownload
<1>2. l.cb = "input" => running \in Inputs /\ fetch = <<>>
  BY <1>1 DEF IInv, TypeOK, Wiring, HeldByBundle
<1>3. TypeOK /\ (loaded \/ arrived) \in BOOLEAN
  BY DEF IInv, TypeOK
<1>4. /\ Call(l.cb, loaded \/ arrived)
      /\ loads' = {} /\ loaded' \in BOOLEAN
      /\ loading' = FALSE /\ flush' = TRUE
      /\ ~draining
      /\ UNCHANGED <<index, pending, queue, mods, sources, cmdHist, histIdx, todo, submitted, asked>>
  BY <1>1 DEF BundleEnds, CallsPending, AtRest, histVars, stdlibVars
<1>5. CalledOK(l.cb)
  BY <1>1, <1>2, <1>3, <1>4, CallType, Zenon
<1>6. TypeOK'
  BY <1>3, <1>4, <1>5 DEF TypeOK, CalledOK
<1>7. Wiring'
  <2>1. ~HeldByBundle'
    BY <1>4 DEF HeldByBundle
  <2>2. l.cb = "input" => HeldByBundle
    BY <1>1 DEF HeldByBundle
  <2> QED
    BY <1>2, <1>4, <1>5, <2>1, <2>2, NoInputAssumption
       DEF IInv, Wiring, OneDownload, PendingIsWatched, CalledOK
<1> QED
  BY <1>6, <1>7 DEF IInv

LEMMA FlushIInv == ASSUME IInv, Flush PROVE IInv'
<1>1. pending \in Callbacks \cup {"none"} /\ TypeOK /\ loaded \in BOOLEAN
  BY DEF IInv, TypeOK
<1>2. pending = "input" => running \in Inputs /\ fetch = <<>> /\ ~HeldByBundle
  BY DEF IInv, TypeOK, Wiring
<1>3. /\ Call(pending, loaded)
      /\ pending' = "none" /\ flush' = FALSE /\ ~draining
      /\ UNCHANGED <<loaded, loading, loads, index, queue, mods, sources, cmdHist, histIdx, todo,
                     submitted, asked>>
  BY DEF Flush, TakePending, bundleVars, histVars, stdlibVars
<1>4. CalledOK(pending)
  BY <1>1, <1>2, <1>3, CallType, Zenon
<1>5. TypeOK'
  BY <1>1, <1>3, <1>4 DEF TypeOK, CalledOK
<1>6. Wiring'
  BY <1>2, <1>3, <1>4, NoInputAssumption
     DEF IInv, Wiring, HeldByBundle, OneDownload, PendingIsWatched, CalledOK
<1> QED
  BY <1>5, <1>6 DEF IInv

\* The files of the input in hand arrive one by one, or one of them does not.
LEMMA ModulesIInv == ASSUME IInv, ModuleLoaded \/ ModuleFailed PROVE IInv'
<1>1. /\ fetch # <<>> /\ fetch \in Seq(Files) /\ running \in Inputs /\ TypeOK
      /\ running # NoInput /\ pending # "input" /\ ~HeldByBundle /\ ~draining
  BY NoInputAssumption DEF ModuleLoaded, ModuleFailed, IInv, TypeOK, Wiring, AtRest
<1>2. UNCHANGED <<loaded, loading, loads, index, pending, queue, cmdHist, histIdx, todo,
                  flush, submitted, asked, answered>>
  BY DEF ModuleLoaded, ModuleFailed, bundleVars, histVars, setupVars
<1>3. /\ fetch' \in Seq(Files)
      /\ mods' \subseteq Files /\ sources' \subseteq Core
      /\ \/ Evaluate(running) /\ fetch' = <<>>
         \/ UNCHANGED <<finished, running, draining, session>>
         \/ Done(running, "no module") /\ UNCHANGED session /\ fetch' = <<>>
  <2>1. CASE ModuleLoaded
    <3>1. Head(fetch) \in Files /\ Tail(fetch) \in Seq(Files)
          /\ (Len(fetch) = 1 => Tail(fetch) = <<>>)
      <4>1. Head(fetch) \in Files /\ Tail(fetch) \in Seq(Files)
            /\ Len(Tail(fetch)) = Len(fetch) - 1 /\ Len(fetch) \in Nat
        BY <1>1, HeadTailProperties, LenProperties
      <4> QED
        BY <4>1, EmptySeq
    <3>2. /\ fetch' = Tail(fetch) /\ mods' = mods \cup {Head(fetch)}
          /\ sources' = Brought(Head(fetch))
      BY <2>1 DEF ModuleLoaded
    <3>3. fetch' \in Seq(Files) /\ mods' \subseteq Files /\ sources' \subseteq Core
      BY <1>1, <3>1, <3>2 DEF TypeOK, Brought
    <3>4. \/ Evaluate(running) /\ Len(fetch) = 1
          \/ UNCHANGED <<finished, running, draining, session>>
      BY <2>1 DEF ModuleLoaded
    <3> QED
      BY <3>1, <3>2, <3>3, <3>4
  <2>2. CASE ModuleFailed
    <3>1. /\ Done(running, "no module") /\ UNCHANGED session
          /\ fetch' = <<>> /\ mods' = mods
          /\ sources' \in {sources, Brought(Head(fetch))}
      BY <2>2 DEF ModuleFailed, GiveUp
    <3>2. mods \subseteq Files /\ sources \subseteq Core /\ <<>> \in Seq(Files)
      BY <1>1 DEF TypeOK
    <3>3. Brought(Head(fetch)) \subseteq Core
      BY <3>2 DEF Brought
    <3> QED
      BY <3>1, <3>2, <3>3
  <2> QED
    BY <2>1, <2>2
<1>4. CASE UNCHANGED <<finished, running, draining, session>>
  <2>1. TypeOK'
    BY <1>1, <1>2, <1>3, <1>4 DEF TypeOK
  <2>2. Wiring'
    BY <1>1, <1>2, <1>4 DEF IInv, Wiring, HeldByBundle, OneDownload, PendingIsWatched
  <2> QED
    BY <2>1, <2>2 DEF IInv
<1>5. ASSUME NEW outcome \in Outcomes, Done(running, outcome), fetch' = <<>>,
             session' \in Seq(Code)
      PROVE  IInv'
  <2>1. finished' \in Seq(Answers) /\ running' = NoInput /\ draining' = TRUE
    BY <1>1, <1>5, DoneType, Zenon DEF Done
  <2>2. TypeOK'
    BY <1>1, <1>2, <1>3, <1>5, <2>1 DEF TypeOK
  <2>3. Wiring'
    BY <1>1, <1>2, <1>5, <2>1 DEF IInv, Wiring, HeldByBundle, OneDownload,
                                  PendingIsWatched
  <2> QED
    BY <2>2, <2>3 DEF IInv
<1>6. CASE Evaluate(running) /\ fetch' = <<>>
  <2>1. session' \in Seq(Code)
    <3>1. session \in Seq(Code) /\ running \in Code
      BY <1>1 DEF TypeOK, Code
    <3> QED
      BY <1>6, <3>1 DEF Evaluate
  <2> QED
    BY <1>5, <1>6, <2>1 DEF Evaluate, Outcomes
<1>7. CASE Done(running, "no module") /\ UNCHANGED session /\ fetch' = <<>>
  BY <1>1, <1>5, <1>7 DEF Outcomes, TypeOK
<1> QED
  BY <1>3, <1>4, <1>6, <1>7

-----------------------------------------------------------------------------
\* Every step keeps types and wiring.
LEMMA NextIInv == IInv /\ [Next]_vars => IInv'
<1> SUFFICES ASSUME IInv, [Next]_vars PROVE IInv'
  OBVIOUS
<1>1. CASE Next
  BY <1>1, SubmitIInv, PrefetchIInv, LoadThenIInv, BrowseIInv, RunIInv,
     DrainEndsIInv, RunNowIInv, FlushIInv, NextScriptIInv, BundleEndsIInv,
     ModulesIInv DEF Next, HandlerStep, ScriptAnswers
<1>2. CASE UNCHANGED vars
  <2>1. UNCHANGED <<loaded, loading, loads, index, pending, queue, running, fetch, mods, sources,
          session, cmdHist, histIdx, todo, draining, flush, submitted, finished,
          asked, answered>>
    BY <1>2 DEF vars, bundleVars, interpVars, stdlibVars, histVars, stackVars, setupVars
  <2>2. TypeOK'
    BY <2>1 DEF IInv, TypeOK
  <2>3. Wiring'
    BY <2>1 DEF IInv, Wiring, HeldByBundle, OneDownload, PendingIsWatched
  <2> QED
    BY <2>2, <2>3 DEF IInv
<1> QED
  BY <1>1, <1>2

\* Types and wiring hold in every reachable state.
THEOREM SpecIInv == Spec => []IInv
BY InitIInv, NextIInv, PTL DEF Spec

\* Every variable of the REPL keeps its type, for any inputs, texts and modules.
THEOREM TypeCorrect == Spec => []TypeOK
BY SpecIInv, PTL DEF IInv

\* The callback of the input in hand has one holder at most, and none when no
\* input is in hand, chips or not: no input is answered twice.
THEOREM OneHolderAlways == Spec => []OneHolder
<1>1. Wiring => OneHolder
  BY DEF Wiring, OneHolder, Holders, HeldByBundle
<1> QED
  BY <1>1, SpecIInv, PTL DEF IInv

\* The bundle is never downloaded twice at once nor again once it is there,
\* and a parked callback always has somebody who will call it.
THEOREM OneDownloadAlways == Spec => [](OneDownload /\ PendingIsWatched)
<1>1. IInv => OneDownload /\ PendingIsWatched
  BY DEF IInv, Wiring
<1> QED
  BY <1>1, SpecIInv, PTL

\* No callback is called twice and no download made twice (march-repl.js:81-118,
\* 318-327), whatever chips are clicked and whatever fails.
THEOREM CallbacksAlways == Spec => []CallbacksOK
<1>1. OneHolder /\ OneDownload => CallbacksOK
  BY DEF CallbacksOK
<1> QED
  BY <1>1, OneHolderAlways, OneDownloadAlways, PTL

-----------------------------------------------------------------------------
(* The order of the inputs. *)

\* The answers name inputs.
LEMMA AnsweredType == TypeOK => Answered \in Seq(Inputs)
<1> SUFFICES ASSUME TypeOK PROVE Answered \in Seq(Inputs)
  OBVIOUS
<1>1. finished \in Seq(Answers)
  BY DEF TypeOK
<1>2. Len(finished) \in Nat /\ DOMAIN finished = 1..Len(finished)
  BY <1>1, LenProperties
<1>3. \A i \in 1..Len(finished) : finished[i].input \in Inputs
  <2> SUFFICES ASSUME NEW i \in 1..Len(finished) PROVE finished[i].input \in Inputs
    OBVIOUS
  <2>1. finished[i] \in Answers
    BY <1>1, ElementOfSeq
  <2> QED
    BY <2>1 DEF Answers
<1>4. Answered = [i \in 1..Len(finished) |-> finished[i].input]
  BY <1>2 DEF Answered
<1> QED
  BY <1>2, <1>3, <1>4

\* Answering an input appends it to what was answered.
LEMMA AnsweredGrows ==
  ASSUME TypeOK, NEW c \in Inputs, NEW outcome \in Outcomes, Done(c, outcome)
  PROVE  Answered' = Answered \o <<c>>
<1> DEFINE a == [input |-> c, outcome |-> outcome]
<1>1. finished \in Seq(Answers) /\ a \in Answers /\ a.input = c
  BY DEF TypeOK, Answers
<1>2. finished' = Append(finished, a)
  BY DEF Done
<1> HIDE DEF a
<1>3. /\ Len(finished) \in Nat
      /\ DOMAIN finished = 1..Len(finished)
      /\ DOMAIN finished' = 1..(Len(finished) + 1)
      /\ \A i \in 1..Len(finished) : finished'[i] = finished[i]
      /\ finished'[Len(finished) + 1] = a
  BY <1>1, <1>2
<1>4. Answered \in Seq(Inputs) /\ <<c>> \in Seq(Inputs) /\ Len(Answered) = Len(finished)
  <2>1. Answered \in Seq(Inputs)
    BY AnsweredType
  <2>2. DOMAIN Answered = 1..Len(finished)
    BY <1>3 DEF Answered
  <2> QED
    BY <1>3, <2>1, <2>2, LenProperties
<1>5. /\ Answered \o <<c>> \in Seq(Inputs)
      /\ Len(Answered \o <<c>>) = Len(finished) + 1
      /\ \A i \in 1..(Len(finished) + 1) :
           (Answered \o <<c>>)[i] = IF i <= Len(finished) THEN Answered[i] ELSE c
  BY <1>3, <1>4, ConcatProperties
<1>6. Answered' = [i \in 1..(Len(finished) + 1) |-> finished'[i].input]
  BY <1>3 DEF Answered
<1>7. \A i \in 1..(Len(finished) + 1) :
        finished'[i].input = IF i <= Len(finished) THEN Answered[i] ELSE c
  BY <1>1, <1>3 DEF Answered
<1>8. Answered \o <<c>> = [i \in 1..(Len(finished) + 1) |-> (Answered \o <<c>>)[i]]
  BY <1>5, LenProperties
<1> QED
  BY <1>5, <1>6, <1>7, <1>8

\* Moving the first element of a sequence to the end of the one before it.
LEMMA ShiftHead ==
  ASSUME NEW S, NEW a \in Seq(S), NEW q \in Seq(S), q # <<>>
  PROVE  a \o q = (a \o <<Head(q)>>) \o Tail(q)
<1>1. Head(q) \in S /\ Tail(q) \in Seq(S) /\ q = <<Head(q)>> \o Tail(q)
  <2>1. Head(q) \in S /\ Tail(q) \in Seq(S) /\ Len(Tail(q)) = Len(q) - 1
    BY HeadTailProperties
  <2>2. <<Head(q)>> \in Seq(S) /\ Len(<<Head(q)>>) = 1
    BY <2>1
  <2> DEFINE r == <<Head(q)>> \o Tail(q)
  <2>3. /\ r \in Seq(S) /\ Len(r) = Len(q)
        /\ \A i \in 1..Len(q) : r[i] = IF i <= 1 THEN <<Head(q)>>[i] ELSE Tail(q)[i - 1]
    BY <2>1, <2>2, ConcatProperties, LenProperties
  <2>4. \A i \in 1..Len(q) : r[i] = q[i]
    BY <2>1, <2>3, HeadTailProperties
  <2> QED
    BY <2>1, <2>3, <2>4, SeqEqual
<1>2. <<Head(q)>> \in Seq(S)
  BY <1>1
<1> QED
  BY <1>1, <1>2, ConcatAssociative

\* StrictOrder depends on the log, the hand, the queue and the handler's text.
LEMMA OrderKept ==
  ASSUME StrictOrder, UNCHANGED <<finished, running, queue, todo, submitted>>
  PROVE  StrictOrder'
BY DEF StrictOrder, Answered, Current

\* Answering the input in hand moves it from the hand to the log.
LEMMA OrderAnswered ==
  ASSUME TypeOK, StrictOrder, running \in Inputs,
         NEW outcome \in Outcomes, Done(running, outcome),
         UNCHANGED <<queue, todo, submitted>>
  PROVE  StrictOrder'
<1>1. Current = <<running>> /\ Current' = <<>>
  BY NoInputAssumption DEF Current, Done
<1>2. Answered' = Answered \o <<running>>
  BY AnsweredGrows
<1>3. Answered' \o Current' = Answered \o Current
  <2>1. Answered \o <<running>> \in Seq(Inputs)
    <3>1. Answered \in Seq(Inputs) /\ <<running>> \in Seq(Inputs)
      BY AnsweredType
    <3> QED
      BY <3>1, ConcatProperties
  <2> QED
    BY <1>1, <1>2, <2>1, ConcatEmptySeq
<1> QED
  BY <1>3 DEF StrictOrder

\* What a reply does to the log and the hand.
LEMMA ReplyEffect ==
  ASSUME NEW c, NEW available, Reply(c, available)
  PROVE  \/ \E outcome \in Outcomes : Done(c, outcome)
         \/ finished' = finished /\ running' = c
<1>1. {"no interpreter", "docs", "no module", "evaluated"} \subseteq Outcomes
  BY DEF Outcomes
<1> QED
  BY <1>1 DEF Reply, Evaluate

\* A callback answers the input in hand or nothing, so the order stays.
LEMMA CallOrder ==
  ASSUME TypeOK, StrictOrder, NEW cb, NEW available,
         cb = "input" => running \in Inputs,
         Call(cb, available), UNCHANGED <<queue, todo, submitted>>
  PROVE  StrictOrder'
<1>1. CASE UNCHANGED <<finished, running>>
  BY <1>1, OrderKept
<1>2. CASE cb = "input" /\ Reply(running, available)
  BY <1>2, ReplyEffect, OrderAnswered, OrderKept
<1> QED
  BY <1>1, <1>2 DEF Call

\* The drain loop takes the head of the queue: it is answered at once, or it
\* becomes the input in hand.
LEMMA RunNowOrder == ASSUME IInv, StrictOrder, RunNow PROVE StrictOrder'
<1> DEFINE c == Head(queue)
<1>1. /\ c \in Inputs /\ <<c>> \in Seq(Inputs) /\ queue # <<>> /\ queue \in Seq(Inputs)
      /\ queue' = Tail(queue) /\ Tail(queue) \in Seq(Inputs)
      /\ UNCHANGED <<todo, submitted>>
  BY DEF RunNow, IInv, TypeOK
<1>2. TypeOK /\ running = NoInput /\ Answered \in Seq(Inputs)
  BY AnsweredType DEF RunNow, IInv, Wiring
<1>3. Answered \o Current = Answered
  BY <1>2, ConcatEmptySeq DEF Current
<1>4. Answered \o queue = (Answered \o <<c>>) \o Tail(queue)
  BY <1>1, <1>2, ShiftHead
<1>5. \/ \E outcome \in Outcomes : Done(c, outcome)
      \/ finished' = finished /\ running' = c
  <2>1. {"blank", "screen", "reset"} \subseteq Outcomes
    BY DEF Outcomes
  <2>2. CASE RunBlank(c) \/ RunScreen(c) \/ RunReset(c)
    BY <2>1, <2>2 DEF RunBlank, RunScreen, RunReset
  <2>3. CASE RunCode(c)
    BY <2>3, ReplyEffect DEF RunCode
  <2> QED
    BY <2>2, <2>3 DEF RunNow
<1> HIDE DEF c
<1>6. Answered' \o Current' = Answered \o <<c>>
  <2>1. CASE \E outcome \in Outcomes : Done(c, outcome)
    <3>1. Answered' = Answered \o <<c>> /\ Current' = <<>>
      BY <1>1, <1>2, <2>1, AnsweredGrows DEF Done, Current
    <3>2. Answered \o <<c>> \in Seq(Inputs)
      BY <1>1, <1>2, ConcatProperties
    <3> QED
      BY <3>1, <3>2, ConcatEmptySeq
  <2>2. CASE finished' = finished /\ running' = c
    BY <1>1, <2>2, NoInputAssumption DEF Answered, Current
  <2> QED
    BY <1>5, <2>1, <2>2
<1> QED
  BY <1>1, <1>3, <1>4, <1>6 DEF StrictOrder

\* A submit adds the text to both sides; _run moves its head to the queue.
LEMMA SubmitOrder ==
  ASSUME IInv, StrictOrder, NEW text \in Texts, Submit(text) PROVE StrictOrder'
<1> DEFINE taken == Answered \o Current \o queue
<1>1. text \in Seq(Inputs) /\ todo = <<>> /\ todo' = text
      /\ submitted' = submitted \o text
  BY TextsAssumption DEF Submit, AtRest
<1>2. taken \in Seq(Inputs)
  <2>1. Answered \in Seq(Inputs) /\ Current \in Seq(Inputs) /\ queue \in Seq(Inputs)
    BY AnsweredType DEF IInv, TypeOK, Current
  <2> QED
    BY <2>1, ConcatProperties
<1>3. taken' = taken
  BY DEF Submit, Answered, Current
<1>4. submitted = taken
  BY <1>1, <1>2, ConcatEmptySeq DEF StrictOrder
<1> QED
  BY <1>1, <1>3, <1>4 DEF StrictOrder

\* Running a text puts its inputs behind those in the queue.
LEMMA RunOrder == ASSUME IInv, StrictOrder, Run PROVE StrictOrder'
<1> DEFINE taken == Answered \o Current
           h == Head(todo)
<1>1. /\ queue \in Seq(Inputs) /\ todo \in Seq(Inputs) /\ todo # <<>>
      /\ h \in Inputs /\ <<h>> \in Seq(Inputs) /\ Tail(todo) \in Seq(Inputs)
  BY DEF Run, IInv, TypeOK
<1>2. taken \in Seq(Inputs) /\ taken \o queue \in Seq(Inputs)
  <2>1. Answered \in Seq(Inputs) /\ Current \in Seq(Inputs)
    BY AnsweredType DEF IInv, TypeOK, Current
  <2> QED
    BY <1>1, <2>1, ConcatProperties
<1>3. /\ queue' = queue \o <<h>> /\ todo' = Tail(todo)
      /\ taken' = taken /\ submitted' = submitted
  <2>1. queue' = Append(queue, h) /\ todo' = Tail(todo)
        /\ finished' = finished /\ running' = running /\ submitted' = submitted
    BY DEF Run, Push
  <2>2. Append(queue, h) = queue \o <<h>>
    <3>1. /\ queue \o <<h>> \in Seq(Inputs)
          /\ Len(queue \o <<h>>) = Len(queue) + 1
          /\ \A i \in 1..(Len(queue) + 1) :
               (queue \o <<h>>)[i] = IF i <= Len(queue) THEN queue[i] ELSE h
      BY <1>1, ConcatProperties, LenProperties
    <3>2. /\ Append(queue, h) \in Seq(Inputs)
          /\ Len(Append(queue, h)) = Len(queue) + 1
          /\ \A i \in 1..(Len(queue) + 1) :
               Append(queue, h)[i] = IF i <= Len(queue) THEN queue[i] ELSE h
      BY <1>1
    <3> QED
      BY <3>1, <3>2, SeqEqual
  <2> QED
    BY <2>1, <2>2 DEF Answered, Current
<1> HIDE DEF h, taken
<1>4. (taken \o queue) \o todo = ((taken \o queue) \o <<h>>) \o Tail(todo)
  BY <1>1, <1>2, ShiftHead DEF h
<1>5. (taken \o queue) \o <<h>> = taken \o queue'
  BY <1>1, <1>2, <1>3, ConcatAssociative, SMTT(30)
<1> QED
  BY <1>3, <1>4, <1>5 DEF StrictOrder, taken

\* Every step keeps the order.
LEMMA NextOrder == IInv /\ StrictOrder /\ [Next]_vars => StrictOrder'
<1> SUFFICES ASSUME IInv, StrictOrder, [Next]_vars PROVE StrictOrder'
  OBVIOUS
<1>1. TypeOK /\ Wiring
  BY DEF IInv
<1>2. CASE \E text \in Texts : Submit(text)
  BY <1>2, SubmitOrder
<1>3. CASE Prefetch \/ HistoryUp \/ HistoryDown \/ DrainEnds \/ UNCHANGED vars
  BY <1>3, OrderKept DEF Prefetch, HistoryUp, HistoryDown, DrainEnds, vars, stackVars
<1>4. CASE LoadThen
  <2>1. finished' = finished /\ running' = running
    <3>1. CASE Call("setup", loaded)
      <4>1. "setup" # "input" /\ "setup" \notin {"noop", "none"}
        OBVIOUS
      <4> QED
        BY <3>1, <4>1 DEF Call
    <3>2. CASE UNCHANGED <<finished, running, draining, fetch, session, answered>>
      BY <3>2
    <3> QED
      BY <1>4, <3>1, <3>2, Zenon DEF LoadThen
  <2> QED
    BY <1>4, <2>1, OrderKept DEF LoadThen
<1>5. CASE Run
  BY <1>5, RunOrder
<1>6. CASE RunNow
  BY <1>6, RunNowOrder
<1>7. CASE Flush
  <2>1. pending = "input" => running \in Inputs
    BY <1>1 DEF Wiring, TypeOK
  <2> QED
    BY <1>1, <1>7, <2>1, CallOrder DEF Flush
<1>8. ASSUME NEW l \in loads, NEW arrived \in BOOLEAN, NextScript(l, arrived) PROVE StrictOrder'
  BY <1>8, OrderKept DEF NextScript, stackVars
<1>9. ASSUME NEW l \in loads, NEW arrived \in BOOLEAN, BundleEnds(l, arrived)
      PROVE  StrictOrder'
  <2>1. l.cb = "input" => running \in Inputs
    BY <1>1 DEF Wiring, HeldByBundle, TypeOK
  <2> QED
    BY <1>1, <1>9, <2>1, CallOrder DEF BundleEnds
<1>10. CASE ModuleLoaded \/ ModuleFailed
  <2>1. running \in Inputs
    BY <1>1, <1>10 DEF ModuleLoaded, ModuleFailed, Wiring, TypeOK
  <2>2. \/ UNCHANGED <<finished, running>>
        \/ \E outcome \in Outcomes : Done(running, outcome)
    BY <1>10 DEF ModuleLoaded, ModuleFailed, Evaluate, GiveUp, Outcomes
  <2>3. UNCHANGED <<queue, todo, submitted>>
    BY <1>10 DEF ModuleLoaded, ModuleFailed
  <2> QED
    BY <1>1, <2>1, <2>2, <2>3, OrderKept, OrderAnswered
<1> QED
  BY <1>2, <1>3, <1>4, <1>5, <1>6, <1>7, <1>8, <1>9, <1>10
     DEF Next, HandlerStep, ScriptAnswers

\* Nothing has been submitted yet.
LEMMA InitOrder == Init => StrictOrder
<1> SUFFICES ASSUME Init PROVE StrictOrder
  OBVIOUS
<1>1. Answered = <<>>
  BY DEF Init, Answered
<1>2. Current = <<>> /\ queue = <<>> /\ todo = <<>> /\ submitted = <<>>
  BY DEF Init, Current
<1> QED
  BY <1>1, <1>2 DEF StrictOrder

\* Inputs are answered strictly in the order they were submitted, each once:
\* the log, the hand, the queue and the handler's text make up what was
\* submitted, whatever downloads fail and whichever chips are clicked.
THEOREM StrictOrderAlways == Spec => []StrictOrder
<1>1. IInv /\ StrictOrder /\ [Next]_vars => StrictOrder'
  BY NextOrder
<1> QED
  BY InitOrder, SpecIInv, <1>1, PTL DEF Spec

-----------------------------------------------------------------------------
(* The input history. *)

\* Who moves the history and its index: a remembered input and the two keys.
LEMMA HistoryMoves ==
  ASSUME IInv, [Next]_vars
  PROVE  \/ UNCHANGED histVars
         \/ \E c \in Inputs : Remember(c)
         \/ HistoryUp
         \/ HistoryDown
<1>1. CASE RunNow
  <2>1. Head(queue) \in Inputs
    BY <1>1 DEF RunNow, IInv, TypeOK
  <2> QED
    BY <1>1, <2>1 DEF RunNow, RunBlank, RunScreen, RunReset, RunCode
<1>2. CASE \/ \E text \in Texts : Submit(text)
           \/ Prefetch \/ LoadThen \/ Run \/ DrainEnds \/ Flush
           \/ UNCHANGED vars
  BY <1>2 DEF Submit, Prefetch, LoadThen, Run, DrainEnds, Flush, vars
<1>3. CASE ScriptAnswers
  BY <1>3 DEF ScriptAnswers, NextScript, BundleEnds, ModuleLoaded, ModuleFailed
<1> QED
  BY <1>1, <1>2, <1>3 DEF Next, HandlerStep

\* Remembering an input puts it before a history it differs from, and the
\* oldest one falls off at the cap.
LEMMA RememberHistory ==
  ASSUME TypeOK, HistoryOK, NEW c \in Inputs, Remember(c)
  PROVE  HistoryOK'
<1> DEFINE kept == IF cmdHist # <<>> /\ Head(cmdHist) = c THEN cmdHist
                                                         ELSE <<c>> \o cmdHist
<1>1. cmdHist \in Seq(Inputs) /\ Len(cmdHist) \in Nat /\ HistMax \in Nat \ {0}
  BY BoundsAssumption DEF TypeOK
<1>2. /\ kept \in Seq(Inputs)
      /\ Len(kept) <= HistMax + 1
      /\ \A i \in 1..(Len(kept) - 1) : kept[i] # kept[i + 1]
  <2>1. CASE cmdHist # <<>> /\ Head(cmdHist) = c
    BY <1>1, <2>1 DEF HistoryOK
  <2>2. CASE ~(cmdHist # <<>> /\ Head(cmdHist) = c)
    <3>1. kept = <<c>> \o cmdHist /\ <<c>> \in Seq(Inputs) /\ Len(<<c>>) = 1
      BY <2>2
    <3> HIDE DEF kept
    <3>2. /\ kept \in Seq(Inputs) /\ Len(kept) = Len(cmdHist) + 1
          /\ \A i \in 1..(Len(cmdHist) + 1) :
               kept[i] = IF i <= 1 THEN <<c>>[i] ELSE cmdHist[i - 1]
      BY <1>1, <3>1, ConcatProperties
    <3>3. cmdHist # <<>> => cmdHist[1] # c
      BY <1>1, <2>2
    <3>4. ASSUME NEW i \in 1..(Len(kept) - 1) PROVE kept[i] # kept[i + 1]
      <4>1. CASE i = 1
        <5>1. cmdHist # <<>> /\ kept[1] = c /\ kept[2] = cmdHist[1]
          BY <1>1, <3>2, <4>1
        <5> QED
          BY <3>3, <4>1, <5>1
      <4>2. CASE i # 1
        <5>1. /\ kept[i] = cmdHist[i - 1] /\ kept[i + 1] = cmdHist[i]
              /\ i - 1 \in 1..(Len(cmdHist) - 1) /\ (i - 1) + 1 = i
          BY <1>1, <3>2, <4>2
        <5> QED
          BY <5>1 DEF HistoryOK
      <4> QED
        BY <4>1, <4>2
    <3>5. Len(kept) <= HistMax + 1
      BY <1>1, <3>2 DEF HistoryOK
    <3> QED
      BY <3>2, <3>4, <3>5
  <2> QED
    BY <2>1, <2>2
<1>3. /\ cmdHist' = IF Len(kept) > HistMax THEN SubSeq(kept, 1, Len(kept) - 1)
                                            ELSE kept
      /\ histIdx' = -1
  BY DEF Remember
<1> HIDE DEF kept
<1>4. CASE Len(kept) > HistMax
  <2>1. Len(kept) \in Nat /\ Len(kept) - 1 = HistMax
    BY <1>1, <1>2, <1>4
  <2>2. \A i \in 1..(Len(kept) - 1) : kept[i] \in Inputs
    BY <1>2, <2>1
  <2>3. /\ Len(cmdHist') = HistMax
        /\ \A i \in 1..HistMax : cmdHist'[i] = kept[i]
    BY <1>1, <1>2, <1>3, <1>4, <2>1, <2>2, SubSeqProperties
  <2> QED
    BY <1>1, <1>2, <1>3, <2>1, <2>3 DEF HistoryOK
<1>5. CASE ~(Len(kept) > HistMax)
  <2>1. Len(kept) \in Nat
    BY <1>2
  <2> QED
    BY <1>1, <1>2, <1>3, <1>5, <2>1 DEF HistoryOK
<1> QED
  BY <1>4, <1>5

\* The up and down keys never leave the capped history, which never repeats
\* an input in a row (march-repl.js:39-56, 338-340), whatever queued input is
\* remembered while the reader browses.
THEOREM HistoryAlways == Spec => []HistoryOK
<1>1. Init => HistoryOK
  BY BoundsAssumption DEF Init, HistoryOK
<1>2. IInv /\ HistoryOK /\ [Next]_vars => HistoryOK'
  <2> SUFFICES ASSUME IInv, HistoryOK, [Next]_vars PROVE HistoryOK'
    OBVIOUS
  <2>1. /\ TypeOK /\ cmdHist \in Seq(Inputs) /\ Len(cmdHist) \in Nat
        /\ histIdx \in Int
    BY DEF IInv, TypeOK
  <2>2. CASE UNCHANGED histVars
    BY <2>2 DEF HistoryOK, histVars
  <2>3. CASE \E c \in Inputs : Remember(c)
    BY <2>1, <2>3, RememberHistory
  <2>4. CASE HistoryUp
    <3>1. cmdHist' = cmdHist /\ cmdHist # <<>> /\ histIdx' = OlderIndex
      BY <2>4 DEF HistoryUp
    <3>2. Len(cmdHist) > 0
      BY <2>1, <3>1, EmptySeq
    <3>3. OlderIndex >= -1 /\ OlderIndex < Len(cmdHist)
      BY <2>1, <3>2 DEF OlderIndex, HistoryOK
    <3> QED
      BY <3>1, <3>3 DEF HistoryOK
  <2>5. CASE HistoryDown
    <3>1. cmdHist' = cmdHist /\ histIdx' = IF histIdx > 0 THEN histIdx - 1 ELSE -1
      BY <2>5 DEF HistoryDown
    <3> QED
      BY <2>1, <3>1 DEF HistoryOK
  <2> QED
    BY <2>2, <2>3, <2>4, <2>5, HistoryMoves
<1> QED
  BY <1>1, <1>2, SpecIInv, PTL DEF Spec

-----------------------------------------------------------------------------
(* The pending slot. *)

Flag(b) == IF b THEN 1 ELSE 0

SetupUnderWay == \E l \in loads : l.cb = "setup"

\* What the slot is enough for, without the set of holders: an input in hand is
\* held as long as no chip was clicked; a chip's code as long as there is one
\* chip and no input, and without inputs nothing is queued or in hand.
Slot ==
  /\ asked = 0 /\ running # NoInput => HeldByBundle \/ pending = "input" \/ fetch # <<>>
  /\ submitted = <<>> => running = NoInput /\ queue = <<>> /\ todo = <<>>
  /\ asked <= 1 /\ submitted = <<>>
       => asked = answered + Flag(SetupUnderWay) + Flag(pending = "setup")

\* What a callback does to the hand and to the setup codes called.
LEMMA CallEffect ==
  ASSUME NEW cb \in Callbacks \cup {"none"}, NEW available, Call(cb, available),
         running = NoInput => cb # "input", asked \in Nat, answered \in Nat
  PROVE  /\ answered' = answered + Flag(cb = "setup")
         /\ running' # NoInput =>
              \/ cb # "input" /\ UNCHANGED <<running, fetch>>
              \/ cb = "input" /\ running # NoInput /\ fetch' # <<>>
<1> USE DEF Flag, Callbacks
<1>1. CASE cb = "input"
  <2>1. Reply(running, available) /\ answered' = answered
    BY <1>1 DEF Call
  <2>2. running' # NoInput => fetch' # <<>>
    BY <2>1 DEF Reply, Done, Evaluate
  <2> QED
    BY <1>1, <2>1, <2>2
<1>2. CASE cb # "input"
  BY <1>2 DEF Call
<1> QED
  BY <1>1, <1>2

\* _loadBundle: the slot is only written over while a download runs, which no
\* prefetch does, and an input only with no other in hand.
LEMMA LoadBundleSlot ==
  ASSUME IInv, Slot, NEW cb \in Callbacks, LoadBundle(cb),
         UNCHANGED <<fetch, submitted, answered>>,
         \/ /\ cb = "noop" /\ ~loading
            /\ UNCHANGED <<asked, running, queue, todo>>
         \/ /\ cb = "setup" /\ asked' = asked + 1
            /\ UNCHANGED <<running, queue, todo>>
         \/ /\ cb = "input" /\ submitted # <<>>
            /\ UNCHANGED asked
  PROVE  Slot'
<1>1. TypeOK /\ OneDownload /\ asked \in Nat /\ answered \in Nat
  BY DEF IInv, Wiring, TypeOK
<1>2. CASE Park(cb)
  <2>1. pending' = cb /\ loads' = loads /\ loading
    BY <1>2 DEF Park
  <2>2. /\ (SetupUnderWay)' <=> SetupUnderWay
        /\ (HeldByBundle)' <=> HeldByBundle
    BY <2>1 DEF SetupUnderWay, HeldByBundle
  <2>3. CASE cb = "setup"
    BY <1>1, <2>1, <2>2, <2>3 DEF Slot, Flag, IInv, Wiring
  <2>4. CASE cb = "input"
    BY <1>1, <2>1, <2>4 DEF Slot
  <2> QED
    BY <2>1, <2>3, <2>4
<1>3. CASE Download(cb)
  <2>1. loads' = loads \cup {[stage |-> "stdlib", cb |-> cb]} /\ pending' = pending
    BY <1>3 DEF Download
  <2>2. loads = {} /\ loads' = {[stage |-> "stdlib", cb |-> cb]}
    BY <1>1, <1>3, <2>1 DEF OneDownload, Download
  <2>3. /\ (SetupUnderWay)' <=> cb = "setup"
        /\ (HeldByBundle)' <=> cb = "input"
        /\ ~SetupUnderWay /\ ~HeldByBundle
    BY <2>2 DEF SetupUnderWay, HeldByBundle
  <2> QED
    BY <1>1, <2>1, <2>3 DEF Slot, Flag, IInv, Wiring
<1> QED
  BY <1>2, <1>3 DEF LoadBundle

\* Every step keeps what is said of the one pending slot.
LEMMA NextSlot == ASSUME IInv, Slot, [Next]_vars PROVE Slot'
<1>1. TypeOK /\ Wiring /\ asked \in Nat /\ answered \in Nat /\ loaded \in BOOLEAN
  BY DEF IInv, TypeOK
<1>2. CASE \E text \in Texts : Submit(text)
  <2>1. PICK text \in Texts : Submit(text)
    BY <1>2
  <2>2. submitted \in Seq(Inputs) /\ text \in Seq(Inputs) /\ text # <<>>
    BY <1>1, TextsAssumption DEF TypeOK
  <2>3. submitted' # <<>>
    <3>1. submitted' = submitted \o text
      BY <2>1 DEF Submit
    <3> QED
      BY <2>2, <3>1
  <2>4. UNCHANGED <<loads, pending, running, fetch, asked>>
    BY <2>1 DEF Submit, bundleVars, setupVars
  <2> QED
    BY <2>3, <2>4 DEF Slot, HeldByBundle
<1>3. CASE HistoryUp \/ HistoryDown \/ DrainEnds \/ UNCHANGED vars
  <2>1. UNCHANGED <<loads, pending, running, fetch, asked, answered, submitted,
                    queue, todo>>
    BY <1>3 DEF HistoryUp, HistoryDown, DrainEnds, vars, bundleVars, setupVars, stackVars
  <2> QED
    BY <2>1 DEF Slot, HeldByBundle, SetupUnderWay
<1>4. CASE Prefetch
  <2>1. "noop" \in Callbacks
    BY DEF Callbacks
  <2> QED
    BY <1>4, <2>1, LoadBundleSlot DEF Prefetch, MayPrefetch, stackVars, setupVars
<1>5. CASE LoadThen
  <2>1. "setup" \in Callbacks
    BY DEF Callbacks
  <2>2. CASE LoadBundle("setup")
             /\ UNCHANGED <<finished, running, draining, fetch, session, answered>>
    BY <1>5, <2>1, <2>2, LoadBundleSlot DEF LoadThen
  <2>3. CASE Call("setup", loaded) /\ UNCHANGED <<bundleVars, pending>>
    <3>1. asked' = asked + 1 /\ UNCHANGED <<queue, todo, submitted, loads, pending>>
      BY <1>5, <2>3 DEF LoadThen, bundleVars
    <3>2. answered' = answered + 1 /\ UNCHANGED <<running, fetch>>
      <4>1. "setup" \notin {"noop", "none", "input"}
        OBVIOUS
      <4> QED
        BY <2>3, <4>1 DEF Call
    <3> QED
      BY <1>1, <3>1, <3>2 DEF Slot, SetupUnderWay, Flag
  <2> QED
    BY <1>5, <2>2, <2>3 DEF LoadThen
<1>6. CASE Run
  <2>1. todo # <<>> /\ UNCHANGED <<loads, pending, running, fetch, asked, submitted>>
    BY <1>6 DEF Run, bundleVars, setupVars
  <2> QED
    BY <2>1 DEF Slot, HeldByBundle
<1>7. CASE RunNow
  <2>1. queue # <<>> /\ submitted # <<>> /\ submitted' = submitted /\ draining
    BY <1>7 DEF RunNow, Slot
  <2>2. PICK c \in Inputs : RunBlank(c) \/ RunScreen(c) \/ RunReset(c) \/ RunCode(c)
    BY <1>7, <1>1 DEF RunNow, TypeOK
  <2>3. CASE RunBlank(c) \/ RunScreen(c) \/ RunReset(c)
    <3>1. running' = NoInput
      BY <2>3 DEF RunBlank, RunScreen, RunReset, Done
    <3> QED
      BY <2>1, <3>1 DEF Slot
  <2>4. CASE RunCode(c) /\ loaded
    <3>1. Reply(c, loaded)
      BY <2>4 DEF RunCode
    <3>2. running' # NoInput => fetch' # <<>>
      BY <3>1 DEF Reply, Done, Evaluate
    <3> QED
      BY <2>1, <3>2 DEF Slot
  <2>5. CASE RunCode(c) /\ ~loaded
    <3>1. LoadBundle("input") /\ UNCHANGED <<fetch, asked, answered>>
      BY <2>5 DEF RunCode, setupVars
    <3>2. "input" \in Callbacks
      BY DEF Callbacks
    <3> QED
      BY <2>1, <3>1, <3>2, LoadBundleSlot
  <2> QED
    BY <2>2, <2>3, <2>4, <2>5
<1>8. CASE Flush
  <2>1. /\ Call(pending, loaded) /\ pending' = "none"
        /\ UNCHANGED <<loads, queue, todo, submitted, asked>>
    BY <1>8 DEF Flush, TakePending, bundleVars
  <2>2. pending \in Callbacks \cup {"none"} /\ (running = NoInput => pending # "input")
    BY <1>1 DEF TypeOK, Wiring
  <2>3. /\ answered' = answered + Flag(pending = "setup")
        /\ running' # NoInput =>
             \/ pending # "input" /\ UNCHANGED <<running, fetch>>
             \/ pending = "input" /\ running # NoInput /\ fetch' # <<>>
    BY <1>1, <2>1, <2>2, CallEffect
  <2>4. (SetupUnderWay' <=> SetupUnderWay) /\ (HeldByBundle' <=> HeldByBundle)
    BY <2>1 DEF SetupUnderWay, HeldByBundle
  <2> QED
    BY <1>1, <2>1, <2>3, <2>4 DEF Slot, Flag
<1>9. ASSUME NEW l \in loads, NEW arrived \in BOOLEAN, NextScript(l, arrived) PROVE Slot'
  <2>1. /\ loads' = (loads \ {l}) \cup
             {[l EXCEPT !.stage = IF l.stage = "stdlib" THEN "index" ELSE "march"]}
        /\ UNCHANGED <<pending, running, fetch, asked, answered, submitted, queue, todo>>
    BY <1>9 DEF NextScript, stackVars, setupVars
  <2>2. loads = {l} /\ l \in [stage : Stages, cb : Callbacks]
    BY <1>1 DEF Wiring, OneDownload, TypeOK
  <2> DEFINE k == [l EXCEPT !.stage = IF l.stage = "stdlib" THEN "index" ELSE "march"]
  <2>3. k.cb = l.cb /\ loads' = {k}
    <3>1. k.cb = l.cb
      BY <2>2
    <3> HIDE DEF k
    <3>2. loads' = (loads \ {l}) \cup {k}
      BY <2>1 DEF k
    <3> QED
      BY <2>2, <3>1, <3>2
  <2> HIDE DEF k
  <2>4. (SetupUnderWay' <=> SetupUnderWay) /\ (HeldByBundle' <=> HeldByBundle)
    BY <2>2, <2>3 DEF SetupUnderWay, HeldByBundle
  <2> QED
    BY <2>1, <2>4 DEF Slot, Flag
<1>10. ASSUME NEW l \in loads, NEW arrived \in BOOLEAN, BundleEnds(l, arrived)
       PROVE  Slot'
  <2>1. /\ Call(l.cb, loaded \/ arrived) /\ loads' = loads \ {l}
        /\ UNCHANGED <<pending, queue, todo, submitted, asked>>
    BY <1>10 DEF BundleEnds
  <2>2. loads = {l} /\ l.cb \in Callbacks \cup {"none"}
        /\ (running = NoInput => l.cb # "input")
    BY <1>1 DEF Wiring, OneDownload, TypeOK, HeldByBundle
  <2>3. /\ answered' = answered + Flag(l.cb = "setup")
        /\ running' # NoInput =>
             \/ l.cb # "input" /\ UNCHANGED <<running, fetch>>
             \/ l.cb = "input" /\ running # NoInput /\ fetch' # <<>>
    BY <1>1, <2>1, <2>2, CallEffect
  <2>4. /\ ~SetupUnderWay' /\ ~HeldByBundle'
        /\ SetupUnderWay <=> l.cb = "setup"
        /\ HeldByBundle <=> l.cb = "input"
    BY <2>1, <2>2 DEF SetupUnderWay, HeldByBundle
  <2> QED
    BY <1>1, <2>1, <2>3, <2>4 DEF Slot, Flag
<1>11. CASE ModuleLoaded \/ ModuleFailed
  <2>1. /\ running # NoInput /\ submitted # <<>>
        /\ UNCHANGED <<loads, pending, queue, todo, submitted, asked, answered>>
    BY <1>11, <1>1 DEF ModuleLoaded, ModuleFailed, Wiring, Slot, bundleVars, setupVars
  <2>2. running' # NoInput => fetch' # <<>>
    <3>1. CASE ModuleFailed
      BY <3>1 DEF ModuleFailed, GiveUp, Done
    <3>2. CASE ModuleLoaded
      <4>1. fetch \in Seq(Files) /\ fetch # <<>> /\ fetch' = Tail(fetch)
        BY <3>2, <1>1 DEF ModuleLoaded, TypeOK
      <4>2. CASE Len(fetch) = 1
        BY <3>2, <4>1, <4>2 DEF ModuleLoaded, Evaluate, Done
      <4>3. CASE Len(fetch) > 1
        <5>1. /\ Tail(fetch) \in Seq(Files) /\ Len(fetch) \in Nat
              /\ Len(Tail(fetch)) = Len(fetch) - 1
          BY <4>1
        <5>2. Tail(fetch) # <<>>
          <6>1. Len(Tail(fetch)) # 0
            BY <4>3, <5>1
          <6>2. ASSUME NEW t \in Seq(Files), Len(t) # 0 PROVE t # <<>>
            BY <6>2, EmptySeq
          <6> QED
            BY <5>1, <6>1, <6>2, Zenon
        <5> QED
          BY <4>1, <5>2
      <4> QED
        BY <3>2, <4>2, <4>3 DEF ModuleLoaded
    <3> QED
      BY <1>11, <3>1, <3>2
  <2> QED
    BY <2>1, <2>2 DEF Slot
<1> QED
  BY <1>2, <1>3, <1>4, <1>5, <1>6, <1>7, <1>8, <1>9, <1>10, <1>11
     DEF Next, HandlerStep, ScriptAnswers

\* With one download at most, its callback is counted as one or none.
LEMMA SetupCount ==
  ASSUME OneDownload
  PROVE  Cardinality({l \in loads : l.cb = "setup"}) = Flag(SetupUnderWay)
<1> DEFINE held == {l \in loads : l.cb = "setup"}
<1>1. CASE SetupUnderWay
  <2>1. PICK l \in loads : l.cb = "setup"
    BY <1>1 DEF SetupUnderWay
  <2>2. held = {l}
    BY <2>1 DEF OneDownload
  <2> QED
    BY <1>1, <2>2, FS_Singleton DEF Flag
<1>2. CASE ~SetupUnderWay
  <2>1. held = {}
    BY <1>2 DEF SetupUnderWay
  <2> QED
    BY <1>2, <2>1, FS_EmptySet DEF Flag
<1> QED
  BY <1>1, <1>2

\* One pending slot (march-repl.js:84) is enough for the page's prefetch beside
\* inputs alone, or beside one chip alone, whatever the network does.
THEOREM PendingAlways == Spec => []PendingIsEnough
<1>1. Init => Slot
  BY DEF Init, Slot, SetupUnderWay, HeldByBundle, Flag
<1>2. IInv /\ Slot /\ [Next]_vars => Slot'
  BY NextSlot
<1>3. IInv /\ Slot => PendingIsEnough
  <2> SUFFICES ASSUME IInv, Slot PROVE PendingIsEnough
    OBVIOUS
  <2>1. InputHeldWithoutChips
    BY DEF Slot, InputHeldWithoutChips, InputHeld, Holders, HeldByBundle
  <2>2. Cardinality({l \in loads : l.cb = "setup"}) = Flag(SetupUnderWay)
    BY SetupCount DEF IInv, Wiring
  <2>3. SetupHeldWithoutInputs
    BY <2>2 DEF Slot, SetupHeldWithoutInputs, SetupHeld, Flag
  <2> QED
    BY <2>1, <2>3 DEF PendingIsEnough
<1> QED
  BY <1>1, <1>2, <1>3, SpecIInv, PTL DEF Spec

-----------------------------------------------------------------------------
(* What a step answers, and with which modules and session. *)

\* The input in hand needs the interpreter; the files it waits for are the ones
\* the index says it needs, also after some of them arrived; and without the
\* interpreter nothing has been evaluated.
InHand == /\ running # NoInput => Kind[running] \in {"lookup", "code"}
          /\ fetch # <<>> => /\ loaded /\ index /\ running \notin Unavailable
                           /\ ModulesNeeded(running, mods) = fetch
          /\ ~loaded => session = <<>>

\* A step that answers c: only an evaluation and a reset touch the session, and
\* an evaluation has every module if the index is there.
AnswersWith(c, outcome) ==
  /\ Done(c, outcome)
  /\ submitted' = submitted
  /\ outcome = "reset" <=> Kind[c] = "reset"
  /\ session' = IF outcome = "evaluated" THEN Append(session, c)
                ELSE IF outcome = "reset" THEN <<>> ELSE session
  /\ outcome = "evaluated" /\ index' => HasModules(c, mods')

\* A reply answers with what the interpreter allows, or waits for the files.
LEMMA ReplyAnswers ==
  ASSUME NEW c \in Inputs, NEW available \in BOOLEAN, Kind[c] \in {"lookup", "code"},
         Reply(c, available), UNCHANGED <<index, mods, submitted>>
  PROVE  \/ /\ \E outcome \in Outcomes : AnswersWith(c, outcome)
            /\ running' = NoInput /\ fetch' = fetch
            /\ session' # session => available
         \/ /\ UNCHANGED <<finished, session>>
            /\ running' = c /\ available
            /\ fetch' = ModulesNeeded(c, mods)
            /\ index /\ c \notin Unavailable
<1>1. {"no interpreter", "docs", "no module", "evaluated"} \subseteq Outcomes
  BY DEF Outcomes
<1>2. ASSUME NEW outcome \in {"no interpreter", "docs", "no module"},
             Done(c, outcome), UNCHANGED <<fetch, session>>
      PROVE  AnswersWith(c, outcome) /\ running' = NoInput
  BY <1>2 DEF AnswersWith, Done
<1>3. ASSUME Evaluate(c), ~NamesUnavailable(c), ToLoad(c) = <<>>
      PROVE  AnswersWith(c, "evaluated") /\ running' = NoInput
  <2>1. index' => HasModules(c, mods')
    BY <1>3 DEF NamesUnavailable, ToLoad, HasModules
  <2> QED
    BY <1>3, <2>1 DEF AnswersWith, Evaluate, Done
<1>4. \/ \E outcome \in {"no interpreter", "docs", "no module"} :
           Done(c, outcome) /\ UNCHANGED <<fetch, session>>
      \/ /\ Evaluate(c) /\ ~NamesUnavailable(c) /\ ToLoad(c) = <<>>
         /\ fetch' = fetch /\ available
      \/ /\ UNCHANGED <<finished, session>>
         /\ running' = c /\ available
         /\ fetch' = ToLoad(c) /\ ToLoad(c) # <<>> /\ ~NamesUnavailable(c)
  BY DEF Reply
<1>5. ToLoad(c) # <<>> /\ ~NamesUnavailable(c)
        => index /\ c \notin Unavailable /\ ToLoad(c) = ModulesNeeded(c, mods)
  BY DEF ToLoad, NamesUnavailable
<1> QED
  BY <1>1, <1>2, <1>3, <1>4, <1>5

\* What a callback answers, evaluates and leaves in hand.
LEMMA CallAnswers ==
  ASSUME IInv, InHand, NEW cb \in Callbacks \cup {"none"}, NEW available \in BOOLEAN,
         cb = "input" => running \in Inputs /\ fetch = <<>>,
         Call(cb, available), UNCHANGED <<index, mods, submitted>>
  PROVE  /\ session' # session => available
         /\ \/ /\ \E c \in Inputs, outcome \in Outcomes : AnswersWith(c, outcome)
               /\ running' = NoInput /\ fetch' = <<>>
            \/ /\ UNCHANGED <<finished, session>>
               /\ running' = running /\ available
               /\ fetch' = ModulesNeeded(running, mods)
               /\ index /\ running \notin Unavailable
            \/ /\ UNCHANGED <<finished, running, fetch>>
               /\ session' \in {session, Append(session, SetupCode)}
<1>1. CASE cb = "input"
  <2>1. Reply(running, available) /\ running \in Inputs /\ fetch = <<>>
    BY <1>1 DEF Call
  <2>2. Kind[running] \in {"lookup", "code"}
    BY <2>1, NoInputAssumption DEF InHand
  <2> QED
    BY <2>1, <2>2, ReplyAnswers
<1>2. CASE cb # "input"
  BY <1>2 DEF Call
<1> QED
  BY <1>1, <1>2

\* What a step adds to the log of inputs and to the log of answers.
LogStep ==
  \/ \E c \in Inputs, outcome \in Outcomes : AnswersWith(c, outcome)
  \/ /\ finished' = finished
     /\ \/ \E text \in Texts : submitted' = submitted \o text /\ session' = session
        \/ /\ submitted' = submitted
           /\ session' \in {session, Append(session, SetupCode)}

\* An input that runs at once adds one answer to the contract's log.
LEMMA RunNowLog == ASSUME IInv, InHand, RunNow PROVE LogStep /\ InHand'
<1>1. PICK c \in Inputs : RunBlank(c) \/ RunScreen(c) \/ RunReset(c) \/ RunCode(c)
  BY DEF RunNow, IInv, TypeOK
<1>2. submitted' = submitted /\ fetch = <<>> /\ loaded \in BOOLEAN
  BY DEF RunNow, IInv, Wiring, TypeOK
<1>3. {"blank", "screen", "reset"} \subseteq Outcomes
  BY DEF Outcomes
<1>4. CASE RunBlank(c)
  <2>1. /\ Kind[c] = "blank" /\ Done(c, "blank")
        /\ UNCHANGED <<loaded, index, mods, session, fetch>>
    BY <1>4 DEF RunBlank, bundleVars, interpVars, stdlibVars
  <2>2. AnswersWith(c, "blank") /\ running' = NoInput
    BY <1>2, <2>1 DEF AnswersWith, Done
  <2> QED
    BY <1>2, <1>3, <2>1, <2>2 DEF InHand, LogStep
<1>5. CASE RunScreen(c)
  <2>1. /\ Kind[c] \in {"clear", "help"} /\ Done(c, "screen")
        /\ UNCHANGED <<loaded, index, mods, session, fetch>>
    BY <1>5 DEF RunScreen, bundleVars, interpVars, stdlibVars
  <2>2. AnswersWith(c, "screen") /\ running' = NoInput
    BY <1>2, <2>1 DEF AnswersWith, Done
  <2> QED
    BY <1>2, <1>3, <2>1, <2>2 DEF InHand, LogStep
<1>6. CASE RunReset(c)
  <2>1. /\ Kind[c] = "reset" /\ Done(c, "reset") /\ session' = <<>>
        /\ UNCHANGED <<loaded, index, fetch>>
    BY <1>6 DEF RunReset, ResetSession, bundleVars, InHand
  <2>2. AnswersWith(c, "reset") /\ running' = NoInput
    BY <1>2, <2>1 DEF AnswersWith, Done
  <2> QED
    BY <1>2, <1>3, <2>1, <2>2 DEF InHand, LogStep
<1>7. CASE RunCode(c)
  <2>1. Kind[c] \in {"lookup", "code"} /\ mods' = mods
    BY <1>7 DEF RunCode, stdlibVars
  <2>2. CASE loaded
    <3>1. Reply(c, loaded) /\ UNCHANGED bundleVars
      BY <1>7, <2>2 DEF RunCode
    <3>2. \/ /\ \E outcome \in Outcomes : AnswersWith(c, outcome)
             /\ running' = NoInput /\ fetch' = fetch
          \/ /\ UNCHANGED <<finished, session>>
             /\ running' = c /\ fetch' = ModulesNeeded(c, mods)
             /\ index /\ c \notin Unavailable
      <4>1. UNCHANGED <<index, mods, submitted>>
        BY <1>2, <2>1, <3>1 DEF bundleVars
      <4> QED
        BY <1>2, <2>1, <3>1, <4>1, ReplyAnswers
    <3>3. loaded' = loaded /\ index' = index
      BY <3>1 DEF bundleVars
    <3> QED
      BY <1>2, <2>1, <2>2, <3>2, <3>3 DEF InHand, LogStep
  <2>3. CASE ~loaded
    BY <1>2, <1>7, <2>1, <2>3 DEF RunCode, InHand, LogStep, LoadBundle
  <2> QED
    BY <2>2, <2>3
<1> QED
  BY <1>1, <1>4, <1>5, <1>6, <1>7

\* An input whose modules have come, or not, is answered once.
LEMMA ModulesLog ==
  ASSUME IInv, InHand, ModuleLoaded \/ ModuleFailed PROVE LogStep /\ InHand'
<1>1. /\ fetch \in Seq(Files) /\ fetch # <<>> /\ running \in Inputs /\ loaded
      /\ mods \subseteq Files /\ ModulesNeeded(running, mods) = fetch
      /\ index /\ running \notin Unavailable
      /\ Kind[running] \in {"lookup", "code"}
      /\ UNCHANGED <<loaded, index, submitted>>
  BY DEF ModuleLoaded, ModuleFailed, IInv, TypeOK, Wiring, InHand, bundleVars
<1>2. CASE ModuleFailed
  <2>1. Done(running, "no module") /\ UNCHANGED session /\ fetch' = <<>>
    BY <1>2 DEF ModuleFailed, GiveUp
  <2>2. AnswersWith(running, "no module") /\ running' = NoInput
    BY <1>1, <2>1 DEF AnswersWith, Done
  <2> QED
    BY <1>1, <2>1, <2>2 DEF InHand, LogStep, Outcomes
<1>3. CASE ModuleLoaded
  <2>1. fetch' = Tail(fetch) /\ mods' = mods \cup {Head(fetch)}
    BY <1>3 DEF ModuleLoaded
  <2>2. ModulesNeeded(running, mods') = fetch'
    BY <1>1, <2>1, ModulesInOrderAssumption
  <2>3. CASE Evaluate(running) /\ Len(fetch) = 1
    <3>1. fetch' = <<>>
      BY <1>1, <2>1, <2>3
    <3>2. AnswersWith(running, "evaluated") /\ running' = NoInput
      BY <1>1, <2>2, <2>3, <3>1 DEF AnswersWith, Evaluate, Done, HasModules
    <3> QED
      BY <1>1, <3>1, <3>2 DEF InHand, LogStep, Outcomes
  <2>4. CASE UNCHANGED <<finished, running, draining, session>>
    BY <1>1, <2>2, <2>4 DEF InHand, LogStep
  <2> QED
    BY <1>3, <2>3, <2>4 DEF ModuleLoaded
<1> QED
  BY <1>2, <1>3

\* Every step is a step of the contract, or leaves its variables alone.
LEMMA NextLog == ASSUME IInv, InHand, [Next]_vars PROVE LogStep /\ InHand'
<1>1. TypeOK /\ Wiring /\ loaded \in BOOLEAN
  BY DEF IInv, TypeOK
<1>2. ASSUME NEW text \in Texts, Submit(text) PROVE LogStep /\ InHand'
  <2>1. /\ UNCHANGED <<loaded, index, running, fetch, mods, session, finished>>
        /\ submitted' = submitted \o text
    BY <1>2 DEF Submit, bundleVars, interpVars, stdlibVars
  <2>2. LogStep
    BY <2>1 DEF LogStep
  <2>3. InHand'
    BY <2>1 DEF InHand
  <2> QED
    BY <2>2, <2>3
<1>3. CASE HistoryUp \/ HistoryDown \/ Run \/ DrainEnds \/ UNCHANGED vars
  <2>1. UNCHANGED <<loaded, index, running, fetch, mods, session, finished, submitted>>
    BY <1>3 DEF HistoryUp, HistoryDown, Run, DrainEnds, vars, bundleVars, interpVars,
                stdlibVars
  <2> QED
    BY <2>1 DEF InHand, LogStep
<1>4. CASE Prefetch
  BY <1>4 DEF Prefetch, LoadBundle, stackVars, interpVars, stdlibVars, InHand, LogStep
<1>11. ASSUME NEW l \in loads, NEW arrived \in BOOLEAN, NextScript(l, arrived)
       PROVE  LogStep /\ InHand'
  <2>1. UNCHANGED <<loaded, running, fetch, session, submitted, finished>>
    BY <1>11 DEF NextScript
  <2>2. fetch = <<>>
    BY <1>1 DEF Wiring, OneDownload, InHand
  <2> QED
    BY <2>1, <2>2 DEF InHand, LogStep
<1>5. CASE LoadThen
  <2>1. UNCHANGED <<mods, submitted>>
    BY <1>5 DEF LoadThen, stdlibVars
  <2>2. CASE LoadBundle("setup")
             /\ UNCHANGED <<finished, running, draining, fetch, session, answered>>
    BY <2>1, <2>2 DEF LoadBundle, InHand, LogStep
  <2>3. CASE loaded /\ Call("setup", loaded) /\ UNCHANGED <<bundleVars, pending>>
    <3>1. "setup" \notin {"noop", "none", "input"}
      OBVIOUS
    <3>2. /\ UNCHANGED <<finished, running, fetch, loaded, index>>
          /\ session' = Append(session, SetupCode)
      BY <2>3, <3>1 DEF Call, bundleVars
    <3> QED
      BY <2>1, <2>3, <3>2 DEF InHand, LogStep
  <2> QED
    BY <1>5, <2>2, <2>3 DEF LoadThen
<1>6. CASE RunNow
  BY <1>6, RunNowLog
<1>7. CASE ModuleLoaded \/ ModuleFailed
  BY <1>7, ModulesLog
<1>8. ASSUME NEW cb \in Callbacks \cup {"none"},
             cb = "input" => running \in Inputs /\ fetch = <<>>,
             Call(cb, loaded'), UNCHANGED <<index, mods, submitted>>,
             loaded' \in BOOLEAN, loaded => loaded'
      PROVE  LogStep /\ InHand'
  <2>1. /\ session' # session => loaded'
        /\ \/ /\ \E c \in Inputs, outcome \in Outcomes : AnswersWith(c, outcome)
              /\ running' = NoInput /\ fetch' = <<>>
           \/ /\ UNCHANGED <<finished, session>>
              /\ running' = running /\ loaded'
              /\ fetch' = ModulesNeeded(running, mods)
              /\ index /\ running \notin Unavailable
           \/ /\ UNCHANGED <<finished, running, fetch>>
              /\ session' \in {session, Append(session, SetupCode)}
    BY <1>8, CallAnswers
  <2>2. LogStep
    BY <1>8, <2>1 DEF LogStep
  <2>3. InHand'
    BY <1>8, <2>1 DEF InHand
  <2> QED
    BY <2>2, <2>3
<1>9. CASE Flush
  <2>1. pending \in Callbacks \cup {"none"}
        /\ (pending = "input" => running \in Inputs /\ fetch = <<>>)
    BY <1>1 DEF TypeOK, Wiring
  <2> QED
    BY <1>1, <1>8, <1>9, <2>1 DEF Flush, bundleVars, stdlibVars
<1>10. ASSUME NEW l \in loads, NEW arrived \in BOOLEAN, BundleEnds(l, arrived)
       PROVE  LogStep /\ InHand'
  <2>1. l.cb \in Callbacks \cup {"none"}
        /\ (l.cb = "input" => running \in Inputs /\ fetch = <<>>)
    BY <1>1 DEF TypeOK, Wiring, HeldByBundle
  <2>2. /\ loaded' = (loaded \/ arrived)
        /\ Call(l.cb, loaded \/ arrived)
        /\ UNCHANGED <<index, mods, submitted>>
    BY <1>10 DEF BundleEnds, stdlibVars
  <2> QED
    BY <1>1, <1>8, <2>1, <2>2
<1> QED
  BY <1>2, <1>3, <1>4, <1>5, <1>6, <1>7, <1>9, <1>10, <1>11
     DEF Next, HandlerStep, ScriptAnswers

\* The input in hand waits for exactly the files the index says it needs, and nothing is
\* evaluated before the interpreter is there.
THEOREM SpecInHand == Spec => []InHand
<1>1. Init => InHand
  BY DEF Init, InHand
<1>2. IInv /\ InHand /\ [Next]_vars => InHand'
  BY NextLog
<1> QED
  BY <1>1, <1>2, SpecIInv, PTL DEF Spec

\* Once the index has arrived, an input is evaluated only with every module it
\* needs in the interpreter (march-repl.js:124-160), whether the start-up library
\* brought it or not, and although the list was made before the downloads.
THEOREM EvaluatesWithModulesAlways == Spec => EvaluatesWithModules
<1>1. IInv /\ InHand /\ [Next]_vars
        => [index' => \A c \in NewlyEvaluated : HasModules(c, mods')]_vars
  <2> SUFFICES ASSUME IInv, InHand, [Next]_vars, index',
                      NEW i \in DOMAIN finished' \ DOMAIN finished,
                      finished'[i].outcome = "evaluated"
               PROVE  HasModules(finished'[i].input, mods')
    BY DEF NewlyEvaluated
  <2>1. PICK c \in Inputs, outcome \in Outcomes : AnswersWith(c, outcome)
    BY NextLog DEF LogStep
  <2>2. finished \in Seq(Answers) /\ [input |-> c, outcome |-> outcome] \in Answers
    BY DEF IInv, TypeOK, Answers
  <2>3. finished'[i] = [input |-> c, outcome |-> outcome]
    BY <2>1, <2>2, AppendProperties, LenProperties DEF AnswersWith, Done
  <2> QED
    BY <2>1, <2>3 DEF AnswersWith, HasModules
<1> QED
  BY <1>1, SpecIInv, SpecInHand, PTL DEF Spec, EvaluatesWithModules

-----------------------------------------------------------------------------
(* The contract. *)

\* A sequence keeps its elements where they are when others follow it.
LEMMA Prefix ==
  ASSUME NEW S, NEW s \in Seq(S), NEW t \in Seq(S)
  PROVE  /\ s \o t \in Seq(S)
         /\ Len(s) <= Len(s \o t)
         /\ \A i \in 1..Len(s) : (s \o t)[i] = s[i]
BY ConcatProperties, LenProperties

\* By StrictOrder the input answered is the oldest one without an answer.
LEMMA AnswersOldest ==
  ASSUME IInv, IInv', StrictOrder', NEW c \in Inputs, NEW outcome \in Outcomes,
         AnswersWith(c, outcome)
  PROVE  Len(finished) < Len(submitted) /\ submitted[Len(finished) + 1] = c
<1> DEFINE log == Answered \o <<c>>
           n == Len(finished) + 1
<1>1. Answered' = log
  BY AnsweredGrows DEF AnswersWith, IInv
<1>2. Answered \in Seq(Inputs) /\ Len(Answered) = Len(finished) /\ Len(finished) \in Nat
  <2>1. finished \in Seq(Answers) /\ Answered \in Seq(Inputs)
    BY AnsweredType DEF IInv, TypeOK
  <2>2. DOMAIN Answered = DOMAIN finished
    BY DEF Answered
  <2> QED
    BY <2>1, <2>2, LenProperties
<1>3. log \in Seq(Inputs) /\ Len(log) = n /\ log[n] = c /\ n \in 1..Len(log)
  <2>1. <<c>> \in Seq(Inputs) /\ Len(<<c>>) = 1 /\ <<c>>[1] = c
    OBVIOUS
  <2>2. /\ log \in Seq(Inputs) /\ Len(log) = n
        /\ \A i \in 1..n :
             log[i] = IF i <= Len(Answered) THEN Answered[i] ELSE <<c>>[i - Len(Answered)]
    BY <1>2, <2>1, ConcatProperties
  <2> QED
    BY <1>2, <2>1, <2>2
<1> HIDE DEF log, n
<1>4. submitted = log \o Current' \o queue' \o todo'
  BY <1>1 DEF StrictOrder, AnswersWith
<1>5. Current' \in Seq(Inputs) /\ queue' \in Seq(Inputs) /\ todo' \in Seq(Inputs)
  BY DEF IInv, TypeOK, Current
<1>6. n <= Len(submitted) /\ submitted[n] = c
  <2>1. PICK s \in Seq(Inputs) : s = log \o Current'
    BY <1>3, <1>5, Prefix
  <2>2. PICK t \in Seq(Inputs) : t = s \o queue'
    BY <1>5, Prefix
  <2>3. Len(log) <= Len(s) /\ s[n] = c
    BY <1>3, <1>5, <2>1, Prefix
  <2>4. Len(s) <= Len(t) /\ t[n] = c
    <3>1. Len(s) <= Len(t) /\ \A i \in 1..Len(s) : t[i] = s[i]
      BY <1>5, <2>2, Prefix
    <3> QED
      BY <1>2, <1>3, <2>3, <3>1, LenProperties DEF n
  <2>5. submitted = t \o todo' /\ submitted \in Seq(Inputs)
    BY <1>4, <1>5, <2>1, <2>2, Prefix
  <2>6. Len(t) <= Len(submitted) /\ \A i \in 1..Len(t) : submitted[i] = t[i]
    BY <1>5, <2>5, Prefix
  <2> QED
    BY <1>2, <1>3, <2>3, <2>4, <2>5, <2>6, LenProperties DEF n
<1> QED
  BY <1>2, <1>6, LenProperties DEF n, IInv, TypeOK

\* Every step of the REPL is a step of the contract, or none: it submits, it
\* answers the oldest unanswered input with its effect on the session, or it
\* evaluates a chip's setup code.
LEMMA StepImplements ==
  ASSUME IInv, IInv', InHand, StrictOrder', [Next]_vars
  PROVE  [Contract!Next]_(Contract!contractVars)
<1>1. CASE \E c \in Inputs, outcome \in Outcomes : AnswersWith(c, outcome)
  <2>1. PICK c \in Inputs, outcome \in Outcomes : AnswersWith(c, outcome)
    BY <1>1
  <2>2. Len(finished) < Len(submitted) /\ submitted[Len(finished) + 1] = c
    BY <2>1, AnswersOldest
  <2>3. /\ finished' = Append(finished, [input |-> submitted[Len(finished) + 1],
                                         outcome |-> outcome])
        /\ submitted' = submitted
        /\ outcome = "reset" <=> submitted[Len(finished) + 1]
                                   \in {d \in Inputs : Kind[d] = "reset"}
        /\ session' = CASE outcome = "evaluated" ->
                             Append(session, submitted[Len(finished) + 1])
                        [] outcome = "reset" -> <<>>
                        [] OTHER -> session
    BY <2>1, <2>2 DEF AnswersWith, Done
  <2>4. outcome \in Contract!Outcomes
    BY DEF Outcomes, Contract!Outcomes
  <2>5. Contract!Answer
    BY <2>2, <2>3, <2>4 DEF Contract!Answer
  <2> QED
    BY <2>5 DEF Contract!Next
<1>2. CASE /\ finished' = finished
           /\ \E text \in Texts : submitted' = submitted \o text /\ session' = session
  BY <1>2 DEF Contract!Next, Contract!Submit
<1>3. CASE finished' = finished /\ submitted' = submitted
           /\ session' \in {session, Append(session, SetupCode)}
  BY <1>3 DEF Contract!Next, Contract!Setup, Contract!contractVars
<1> QED
  BY <1>1, <1>2, <1>3, NextLog DEF LogStep

\* The REPL with its download, pending slot, queue and on-demand modules does
\* what the sequential contract promises: inputs answered one at a time in
\* order, and a session made by exactly the answered inputs and the chips.
THEOREM RefinesContract == Spec => ImplementsContract
<1>1. Init => Contract!Init
  BY DEF Init, Contract!Init
<1>2. IInv /\ IInv' /\ InHand /\ StrictOrder' /\ [Next]_vars
        => [Contract!Next]_(Contract!contractVars)
  BY StepImplements
<1> QED
  BY <1>1, <1>2, SpecIInv, SpecInHand, StrictOrderAlways, PTL
     DEF Spec, ImplementsContract, Contract!Spec
=============================================================================
