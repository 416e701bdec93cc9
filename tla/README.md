# Models and proofs of march-language.github.io

The repository is the published site of the March language. What runs in it is
the JavaScript of its pages: a REPL around a downloaded interpreter, playgrounds
around a downloaded compiler, a scrolling explainer with simulations of a March
cluster, the runtime of compiled March programs; and the March standard library,
which the REPL loads on demand and which holds the real cluster: failure
detection, membership, the queues of a connection. This directory holds TLA+
models of that code, the configurations that TLC checks, and proofs that TLAPS
checks.

    tlc -workers 2 -config MarchRepl.cfg MCMarchRepl         # one run
    tlapm MarchRepl_proofs.tla                               # the proofs

`PROJECT.json` lists the components, the runs with the properties each checks, for
every definition the lines it models, for every property a mutation of the code
that breaks it, the hazards, and the theorems.

## 1. The system

A page is one browser thread: handlers, timers, animation frames and `load` or
`error` events of script elements run one at a time, in an order nobody
controls. What is hard there is what happens between two of them. The cluster
code of the standard library is March: actors with mailboxes, processes that
share a counter, nodes that fail and a network that loses what it carries.

| Part | State | Operations | Who it talks to |
|---|---|---|---|
| REPL (`assets/march-repl.js`) | download flags, one pending callback, run queue, on-demand modules, history | submit, load, loadThen, keys, reset | interpreter bundle `march.js`, stdlib files, the page's chips |
| Pages with a REPL (`playground.js`, `cookbook.js`, `index.html`) | whether the REPL exists yet, queued clicks | load chips, run buttons | REPL |
| Explainer story (`explainer/scroll.js`, `story.js`) | step under the trigger line, pending frame, failed | mountAll, apply, observeSteps | figures |
| Figures (`explainer/chapters*.js`) | current card, simulation, fade in progress, delayed events | setState, liveTransition, buildState | simulations, drawing |
| Simulations (`explainer/sim-*.js`) | hosts, sessions, slots, releases, patches, a heap | step, and the events the cards cause | figures |
| Error playground (`error-playground.js`) | compiler state, waiting checks, editor | load, check, revert | compiler bundle, example files |
| Tetris playground (`tetris-playground.js`) | compiler loader, editor, program in the frame; frame history, scrub position | run; scrub, resume | compiler bundle, the game in an iframe |
| Tetris program (`tetris/tetris-source.march.txt`) | board, falling piece, score | keys, clock, restore | the playground, through `#game-state` |
| March runtime (`tetris/march_runtime.mjs`, `march_dom.mjs`) | byte-view cache, tap and key buffers | string, integer and DOM builtins | compiled programs |
| Cluster node (`stdlib/cluster_node.js`, `swim_driver.js`, `swim.js`, `membership.js`) | the view of the members, probe, suspect timers, links, dials | tick, linked, link closed, dialed, control frames | other nodes, subscribers to member events |
| Peer queue (`stdlib/node_queue.js`) | bytes queued (shared), queue, line of blocked callers, credit | enqueue under four policies, drain, admit, credit, close | senders, the connection, the receiver |
| The rest of the standard library (`assets/stdlib/*.js`) | one March module per file, as a string | evaluated by the interpreter | REPL |

What must hold, part by part:

- **REPL**: inputs are answered once, in order, whatever fails to download and whatever
  else the reader clicks meanwhile; nothing is evaluated without the modules it needs;
  nothing hangs.
- **Story and figures**: the picture is the picture of the card the reader is on; a
  figure that fails leaves something to look at and fails once.
- **Cluster simulation**: no slot leaks or is held twice, no session outlives its
  hosts, the Ledger's seat moves by the rules of the page, all sessions end.
- **Mailbox, topology, heap simulations**: the rules their headers list.
- **Playgrounds**: what is checked or run is what is on screen; history and the game
  do not diverge; every press gets an answer.
- **Cluster node**: what a node believes of another only gives way to what outranks
  it; subscribers hear what the view says; a node that is gone is declared dead and
  one that runs does not stay suspected.
- **Peer queue**: the shared counter is exact, the window holds, a caller's answer is
  about its own frame, what is queued leaves.
- **Runtime**: a cache never answers for another string; integers wrap as 63 bits.

Generated or third-party code is left aside: `march.js`, `march_compile.js`,
`march_stdlib.js`, `march_stdlib_index.js`, `pagefind/`, the HTML of the documentation.
The compiled game, `tetris/tetris.mjs`, is the exception: it is what ships and runs, and
the rules in `Tetris` are mapped to its functions (see section 5). The repository has no tests; the headers of the
simulations name tests kept elsewhere.

## 2. Modules

| Module | Models | Role |
|---|---|---|
| `ReplContract` | what the REPL promises | abstract specification |
| `MarchRepl` | `assets/march-repl.js` | implements `ReplContract` |
| `MCMarchRepl` | | inputs, texts and files for TLC |
| `MarchRepl_proofs` | | theorems about `MarchRepl` |
| `NodeQueue` | `stdlib/node_queue.js` | senders, writer and receiver of one peer |
| `MCNodeQueue` | | who sends what under which policy |
| `NodeQueue_proofs` | | theorems about `NodeQueue` |
| `Membership` | `stdlib/membership.js` | the order of observations, and merge |
| `Swim` | `stdlib/cluster_node.js`, `swim_driver.js`, `swim.js` | nodes, links and faults, over `Membership` |
| `MCSwim` | | formed clusters and what goes wrong in them |
| `Swim_proofs` | | theorems about both |
| `SimCluster` | `explainer/sim-cluster.js` | hosts, sessions, Ledger seat |
| `SimCluster_proofs` | | theorems about `SimCluster` |
| `CanvasFigure` | `canvasFigure` of `explainer/chapters.js` | one figure |
| `StoryPage` | `explainer/scroll.js`, `story.js` | composes the story with `CanvasFigure` |
| `SimMailbox` | `explainer/sim-mailbox.js` | an actor, its mailbox, a deploy, a crash |
| `SimHeap` | `explainer/sim-heap.js` | a tree, its reference counts, the walks over it |
| `MCFigures` | | the mailbox, the heap, the story and a cluster of two hosts, one at a time (`atFigure`) |
| `Figures_proofs` | | theorems about the story, the mailbox and the heap |
| `SimTopology` | `explainer/sim-topology.js` | roles, sessions, a patch and its authority |
| `AuthorityCards` | `explainer/chapters-authority.js` | composes the cards of two figures with `SimTopology` |
| `MCTopology` | | the cards of either figure, or any events at all |
| `Topology_proofs` | | theorems about `SimTopology` and the cards |
| `TimeTravel` | `timeTravelScript` of `tetris-playground.js`, `tetris/tetris-source.march.txt` | frame history against the running game |
| `Tetris` | `tetris/tetris-source.march.txt` | the rules of the game |
| `TetrisRun` | `tetris-playground.js` | compiler loader, editor, program in the frame |
| `ErrorPlayground` | `error-playground.js` | examples, compiler download, checks |
| `MCPlaygrounds` | | the four above, one at a time (`at`) |
| `Playgrounds_proofs` | | theorems about the playgrounds |
| `SumTheorems` | | induction, sums and folds, for the other proofs |

`MCFigures` and `MCPlaygrounds` choose initially which part is looked at. The others
keep their initial state, of which one is picked, so that a run explores each part's
behaviours and not their product. What those modules ask of their constants
(`HeapAssumption`, ...) is assumed there.

### MarchRepl

The interpreter bundle is three scripts in a row, loaded on the first input.
`_loaded`, `_loading` and `_pending` are `loaded`, `loading` and `pending`; a
download under way is an element of `loads`: the script awaited, and whose
callback it carries ("input" for the input in hand, "setup" for a chip, "noop"
for a prefetch). `_busy` is `running`, which also says which input is in hand.

Each of the three may fail, and `NextScript` keeps what came of the first two: `sources`,
the core files whose text is there, and `index`, whether the module index is. Without
the start-up library a session starts empty (`StartsWith`), and core modules are loaded
on demand like the others, after which later sessions start with them (`Brought`).
Without the index `marchModulesNeeded` finds nothing (`ToLoad`, `NamesUnavailable`): it
names no file to load and no module that cannot run in a browser. What has arrived stays,
and is completed by a second attempt if march.js failed; once march.js is there the
first two are never asked for again.

A handler that loops or calls one callback after another is a series of steps.
What is left of its call stack is state: `todo` (the inputs a submitted
transcript has still to `_run`), `draining` (inside `_drain`'s loop), `flush`
(the bundle has answered and the pending callback is still to be called). Events
are accepted only when all three are empty (`AtRest`): the page has one thread.
So the interleavings are the browser's and no others.

| Actions | Code |
|---|---|
| `Submit`, `Run`, `DrainEnds` | `submit`, `_run`, `_drain` |
| `RunNow` with `RunBlank`, `RunScreen`, `RunReset`, `RunCode` | `_runNow`, one disjunct per kind of input |
| `LoadBundle` in `Prefetch`, `LoadThen`, `RunNow` | `_loadBundle` |
| `NextScript`, `BundleEnds`, `Flush` | `load` and `error` of the three scripts, `finish`, `fail` |
| `ModuleLoaded`, `ModuleFailed` | `_ensureModules` |
| `HistoryUp`, `HistoryDown` | the arrow keys |

The text of an input is abstracted to its kind and to the on-demand files it
needs (`ModulesNeeded`, a constant operator: the code's regular expressions and
dependency table). What the interpreter computes is not modelled: an answer is
an outcome ("evaluated", "docs", "no interpreter", "no module", ...), and the
session is the sequence of code evaluated since a reset. `submitted`, `finished`,
`asked` and `answered` are history variables; no guard reads them except for the
bounds.

`ReplContract` has no download and no queue: a text joins what was submitted, the
oldest unanswered input is answered, a chip's setup code may be evaluated.
`ImplementsContract` says every step of `MarchRepl` is one of these or a stutter.

### NodeQueue

The byte counter `queued` is the only thing senders and writer share, and nothing
guards it. So a call of `enqueue` is a series of steps of the sender (`pc`): charge
the counter and look at what it was (`Charge`, one atomic add), then go in, be
refused, or get in line and block. The writer is an actor: it takes one message
(`On...`, the handlers), and then, `turn` says, writes while it may and admits from
the line (`drain`, `admit_waiting`), reading the counter in one step and charging it
in the next. Senders act between any two of these.

| Actions | Code |
|---|---|
| `Charge`, `Admitted`, `Refused`, `Lines`, `Calls`, `Answered`, `TimesOut` | `enqueue` and its policies |
| `OnEnqueue`, `OnEnqueueEvicting`, `OnCredit`, `OnWaiting`, `OnWait`, `OnWithdraw`, `OnClose` | the writer's handlers |
| `Writes`, `SendsAway`, `LooksForRoom`, `AdmitsFromLine` | `drain`, `admit_waiting` |
| `Consumes` | `consumed` of the receiver, with the CREDIT frame back |
| `Breaks`, `OwnerCloses` | the network; `close`, `close_fd` |

A frame is its sender, its number and its length. `TakeEvicted` and `Configure` run before and beside the traffic and are left
out; a local queue, which has no receiver, is too. `log`, `oked` and `cutOff` are
history variables.

### Membership and Swim

`Membership` has the order in which one observation of a node outranks another: the
creation (which life of the process), then the incarnation, then the severity of
the status; and `Merge`, `Verdict` over it.

`Swim` has one action per entry of the pure core of `cluster_node.js`, for each node:
`TickMidPeriod` and `TickBoundary` (`core_tick` over `SwimDriver.step`: the events that
have come are folded in, at a period's end the unanswered probe is suspected, timers
run out, the node refutes what is said of itself, then gossip, member events, links
of the dead, dials), `DialSucceeds` (`core_dialed` and `core_linked` at both ends, with
the rule that keeps one of two pairs), `DialFails`, `LinkClosed`. The faults are the
environment's: `Breaks`, `Crashes`, `Restarts`, an ack that comes too late, and a pause of
the whole cluster that is longer than the suspect timers.

What is abstracted, and why nothing is lost:

- Time. A dial may come back at any time and a period may be as long as it likes. A
  timer of a node that is gone runs out in some later period; a timer of one that
  runs does so only if a pause is left, because gossip is faster than
  `suspect_timeout_ms` otherwise.
- Frames cross a link at once, or are lost with it; what has come waits in `pending`
  for the next tick, as in the code, so a late frame is a late tick. The two ends of
  a link are installed in one step.
- An answered probe leaves no trace, so only one that stays unanswered is kept. The
  relay of a ping through a helper is part of `Answers`.
- An event changes what is known of one member, so `pending` is kept by member: between
  two members the order does not matter. What a view outranks already is not kept
  (`News`): folding it in changes nothing, for a view only grows.
- The cluster has formed in `Init`; how one forms is a dial like any other.

Left out: certificates and revocations, the name registry, load samples, the actor
and the sockets around the core.

### SimCluster

One call of `step(dt)` is a series of actions in the code's order (`turn`): the
hosts' timers, the Ledger's seat, new load, the sessions one by one (`todo` is
the copy of the list the code walks). `Crash`, `Hang` and `Revive` (`kill` and
`revive`) come between two calls: the page draws one frame at a time.

Time is counted in ticks. A comparison of `s.t` with a stored moment is an age or
a countdown kept only while the code may read it (`age`, `upAge`, `moveIn`,
`left`), so the state space is finite and no moment in the model is absolute.
The session length drawn at random is a choice from `Lengths`. How much load
accumulates in a tick is a choice too: any number of sessions may start.
A session is a record in the function `sessions`; a finished one leaves the
domain, as it leaves `s.sessions`.

### CanvasFigure and StoryPage

A simulation is abstracted to the card whose picture it shows. `SetState` has the
three ways of `setState`: nothing for the current card; the card's event done to
the simulation on screen (`HappenLive`, only for the next card in page order,
which the figure may still refuse); a fresh picture, shown at once (`ShowNow`) or
after a fade (`FadeOver`, whose timer is in `timers` and fires as `FadeIn`).
`StoryPage` adds the reader, who moves the line at any moment; `schedule` and
`measure` with their pending flag; `apply` with its catch; `mountAll`. The
states a figure does not know (`broken`) are chosen once, initially.

### The smaller simulations

The three follow `SimCluster`'s convention: one call of `step(dt)` is a tick, a
stored moment is an age or a countdown, what the code draws at random is a
choice. Here one tick is one action `Step`, because nothing can come between the
parts of a call and no property looks between them.

- **SimMailbox**. `Step` lets up to `Burst` messages arrive and then takes one of
  the branches of `step` in the code's order of tests: `Down` (waiting for the
  restart), `Migrate`, `MeetMarker` (held, or the migration starts), `Handle`,
  `Idle`. `Deploy`, `ReleaseHold` and `Crash` are the functions the page may call
  between frames. `done` is a history: for each message handled since the last
  restart, the epoch it was sent under and the version that handled it.
- **SimTopology**. `Step` is the role's move, new sessions, their legs, the patch.
  The functions the page may call (`SomePlace`, `SomeStop`, `SomeStart`, `SomeSend`,
  `SomeVerdict`) come between ticks. `sendPatch` may be called while another patch is
  under way, which it overwrites; `ruled` remembers which patch the last verdict
  was about.
- **AuthorityCards** adds the reader's card of the topology or the rollout figure
  (`figure`, chosen once), whose scripts call the operations above, and restricts the
  events to the ones a card causes. Reading at any speed is any number of ticks,
  none included, between two cards; landing on a later card does the events of the
  cards before it with pauses between them, so it is one of these behaviours.
- **SimHeap**. Cells are numbered as in the code. `Preorder` is a recursive function
  over cells, as `CellCount` is one over depths: the provers know no powers. `Step` moves each cursor by any number of cells up to `MaxSpeed` (the
  frame rate decides); the place after the last cell is the cursor's end, and a
  parallel run visits the root when both ends are reached.

### The playgrounds

`TimeTravel` has the script's variables (`history`, `index`, `following`, the frame
scheduled by the slider) and the attributes of `#game-state` it shares with the game
(`game`). A snapshot is a number, the number of the frame it was played from, and
the attributes `data-over` and `data-paused`; what the pieces do is left out. The
mutation observer's callback belongs to the event that changed `data-seq`, so a
commit and its recording are one action (`Played`). `strayed` is a history
variable: has the reader pressed the game's P or R key while looking at the past?

`Tetris` has what `TimeTravel` leaves out: shapes and turns, collisions, lines that go,
points, the clock and the keys. The board is the set of its filled cells, since
colour is only painted, and the next piece is a choice.

`TetrisRun` is the page around both. A press of Run keeps its callback in the script
tag if it started the download (`starter`), in `pending` otherwise, which the next press
overwrites. A callback is modelled by the text it compiles. The two fetches may be
answered, or fail, at any time; the compiled game is mounted whenever it comes.
`asked`, `due`, `ran`, `late` and `left` are history variables.

`ErrorPlayground` has the requests for examples (`fetches`, answered or failed in
any order), the two scripts of the compiler, and the checks that
wait for it. A text is the example it came from or "typed". The waiting checks are
identical closures that read the editor when they run, so a number stands for
them. `want`, `typed` and `overtaken` are history variables.

## 3. Runs

All with the two TLC workers of the command above; `repl`, `cluster_safe`, `topology`,
`playgrounds` and `swim` take one to three minutes, the others less.

| Run | Instance | Question |
|---|---|---|
| `repl` | one input of each kind, three submitted in texts of one or two, three files of which one is core, two chip clicks, history of 2, fairness | safety and refinement under every outcome of every script; without a chip click, does every input get its answer? |
| `repl_input_lost` | the same | violated: finding 1 |
| `node_queue` | two senders, frames of 3 to 10 bytes under a budget of 8, every policy, a break and a close at any moment, fairness | is the counter exact, the window held, nothing that was accepted lost; does the queue empty? |
| `node_queue_answer` | two senders that block | violated: finding 3 |
| `node_queue_idle` | one sender that blocks, one that does not | violated: finding 4 |
| `swim` | five scenarios of two or three nodes, fairness | do views only grow, do subscribers hear what the view says, is a crash noticed? |
| `swim_suspicion` | three nodes, one connection breaks, fairness | violated: finding 5 |
| `cluster_safe` | 3 hosts, 2 for books, 1 Stock slot each, 2 Ledger slots, 3 sessions, any failures, one revival | slots, counters, seat, hung hosts |
| `figures` | a mailbox with six messages, a deploy and two crashes; trees of 3, 7, 15 cells, two runs; 4 cards, four moves, unknown states; 2 hosts, 2 sessions, two revivals; fairness | does each figure stay consistent and get where it should? |
| `story_hasty` | two moves, no unknown state | violated: finding 2 |
| `playgrounds` | a history of 3 and 6 frames; 3 examples, 3 requests, 2 presses; 3 texts, one of them wrong; a board 5 by 5, I and T pieces, 3 of them; fairness | are histories, reports, programs and boards sound; is every check and press answered, does every piece land? |
| `topology` | 3 serving hosts, 2 of them labelled; both figures read at any speed, or any events; fairness | sessions, when the role may move, what code may run; does each card come true? |

**Bounds.** *REPL*: the callback wiring involves at most the input in hand, one
queued behind it, one parked callback and one chip, so three inputs and two
clicks reach every combination of holders; the second click is what overwrites a
first click's setup code. A history of 2 (50 in the code) is full after two
inputs and is exceeded by the third. "AhoCorasick" needs a core file and two others, so a
download of modules can fail after the first, is one shorter when the start-up library
came, and differs before and after a reset. *Peer queue*: a budget of 8 makes a quarter 2, less
than any frame; 7 and 5 do not fit together, 5 and 3 do, 10 fits only into an empty
queue. With two senders there is always one that charges while the other, or the
writer, has looked and not yet acted. Requests are finite, so the system may
stop: these three runs, and no others, do not check for deadlock. *Cluster node*:
three nodes are one that fails, one that sees it, and one that only hears of it.
`Gone` has a member crash for ever, reported or silently; `CutAt` a connection break
and the redial meet one stale end; `Back` a crash and a restart of one of two; `Late`
and `Paused` an ack or a break, and a pause. Stale ends and pauses are bounded because
each costs an incarnation. `CrashIsNoticed` is about one crash: after two silent ones
the last survivor may keep a Suspect it was only told of, which is finding 5 again.
*Cluster*: with one Stock slot per host and two
Ledger slots, three sessions fill both, bounce and are refused. Two of three
hosts carry books, so the seat can move, be empty, and be taken back; a revival
of one host is what a takeover needs, and lengths 1 and 6 let a session end
before, or outlast, a failure, a takeover and the next failure, which is what it
takes for a session to give back a slot number that is no longer its own. The
notice time of 2 ticks separates "hung and unnoticed" from "suspected". Liveness is
asked of two hosts (run `figures`), both for books, which may fail four times.
*Story*: four cards give a next card, a far jump in each direction and one to
come back to; four moves allow a fade overtaken by a fade and by an event.
*Mailbox*: service, migration and restart of 2 ticks each can be interrupted in
the middle; six messages fit before, into and after a migration. *Topology*: two
labelled hosts make the role movable and, both down, vacant; three sessions go round
the Stocks and one Stock is the role's holder; of three patches one is overwritten
before and one after its verdict. Sessions and patches meet only in `up`, so a
behaviour with any events has the one or the other (the constraint `OneOfBoth`); one
with cards has both. *Heap*: the tree of 15 cells has inner cells below
both halves; the second run starts where the first was cut. *Time travel*: six
frames overflow a history of 3 (3000 in the code) and leave room to branch after
the overflow. *Tetris*: 5 columns are one more than the I piece, so it can be moved, be
turned against a wall and fill a row together with another; three pieces fill
several rows, or reach the top. *Tetris page*: presses are not bounded;
three texts, one of which does not compile, give the callback in the script tag, the
parked one and the editor each its own. *Error playground*: the request made when the page opens and two
more can be answered in all orders; two presses while a third check waits.
Deadlock checking is on outside the peer queue's runs: frames, ticks, keys and
clicks keep coming.

**Fairness.** *REPL*: weak fairness of `HandlerStep` (a handler that has started
runs to its end: it is code) and of `ScriptAnswers` (the browser fires `load` or
`error` for a script element it was given). Nothing is assumed of the reader.
*Peer queue*: weak fairness of the writer, of a sender inside a call, and of the
receiver: the scheduler runs what can run, and a connection that works delivers.
Nobody must call, time out or close. *Cluster node*: ticks come for ever, and since
the target of a period is drawn at random, each node that is Alive in the view is
probed again and again; a dial comes back, a broken connection whose host is not
silent is noticed. Faults are not fair. *Cluster*: weak fairness of `Step \/ StepOn`:
frames are drawn while the figure is
on screen. Failures and revivals are not fair; revivals are bounded, so a host
does not flap for ever, and `SeatIsFilled` assumes in its own text that some
books host stays fit. *Story*: weak fairness of mounting, measuring and timers,
each a callback the browser owes. *The other simulations*: weak fairness of `Step`,
frames drawn while the figure is on screen; in the mailbox also of `ReleaseHold`,
since the figure's party does let go (a card's script does it), and without it a
held deploy rightly never lands. Crashes, stops, patches and cards are not fair.
*Playgrounds*: weak fairness of the script's `load` or `error`, and of the game's clock.
`MCFigures` and `MCPlaygrounds` state each module's fairness for the part looked at.

### What is checked

An invariant that relates a component's bookkeeping is a conjunction of named
parts, each with its comment in the module.

*REPL.* `StrictOrder`: answered, in hand, queued, still to run: together exactly
what was submitted. `CallbacksOK`: at most one place will call the callback of the
input in hand (`OneHolder`), and there is never a second download (`OneDownload`).
`PendingIsEnough`: at least one place will, as long as no chip is clicked,
nor does a single chip lose its code to the page's prefetch.
`EvaluatesWithModules`: once the module index is there, an input is evaluated only with
every module it needs, also when the start-up library failed, and although the files are
listed before a chain of downloads and evaluated after it. `HistoryOK`: the arrow keys stay inside a capped history
that grows under them. `ImplementsContract`, `EveryInputAnswered`.

*Peer queue.* `Accounting`: on a live connection the counter is what is queued, on its
way, and charged by senders that have not decided; the totals of the two ends agree.
`WindowHeld`: what is written and not consumed stays in the budget, or is one frame
after less than a quarter of it. `QueueOK`: the two lines, of frames and of callers,
match, and nobody blocks without an answer to come. `OkIsKept`: what a caller was told
is accepted is somewhere until it is written or reported as evicted. `QueueDrains`.

*Cluster node.* `MembersOK`: no suspect timer outlives its suspicion, and the last event a
subscriber heard agrees with the view. `NothingIsTakenBack`: views only grow, and a death
that was reported is only followed by a rejoin. `CrashIsNoticed`.

*Cluster.* `SessionsOK`: slots against sessions, through crashes, restarts and moves of
the seat (`SlotsOwned`), and the counters on the page (`Conservation`).
`DetectorOK`: nobody is served by a dead host, nor for long by a hung one.
`ClusterOK`: the seat is held by a living host or about to be filled. `LedgerHandsOver`:
a session gives back no slot but its own, which is what the check in `release()` is
for, and a seat is taken over by rank, cancelling nothing. `EverySessionEnds`, `SeatIsFilled`.

*Story.* `SectionOK`: an image or a picture, one report, and the current card's picture for
a reader who waits for each fade. `NoFlicker`: what fades in is what the reader jumped
to last. `FollowsReader`.

*Mailbox.* `MailboxOK`: no message meets the wrong version (`HandledByItsCode`), the marker
parts old messages from new, the counters and the session being resumed survive a
crash, no message is lost without one. `DeployLands`.

*Topology.* `SessionsOK`: served by hosts that are up, none lost count of. `ChangesAreEarned`:
the role moves only from a host that has been down for the suspect time, and a host
changes its code only for a granted patch on which the nodes' verdict, and not the
verdict on an earlier patch, was "admit". *Cards.* `CardsComeTrue`: a reader who stays
on a card sees what it says, however quickly the cards before were passed.
`NewCodeOnItsCard`.

*Heap.* `WalkOK`: pre-order, no cell twice, the root of a parallel run last, counts equal
to references throughout, and in the end the figures the page quotes.

*Time travel.* `HistoryOK`: capped, in the order played, no restored frame in it, the bar
names one of its frames, the board shows that frame, and play branches forward from it.
`PastIsFrozen`. *Tetris.* `GameOK`: the falling piece is on free cells until the game is
over, the cells on the board are those of the pieces locked less the rows that went,
and the score is worth the rows. `PieceLocks`.

*Tetris page.* `RunOK`: a download is under way exactly while the page says so and has a
run to serve, and the frame shows the program asked for last. `PressAnswered`.

*Error playground.* `PageOK`: somebody waits exactly while the compiler is on its way,
Revert brings back what was loaded, the report is of what is in the editor, the
example shown is the one asked for. `ChecksAreAnswered`.

### Findings

1. **A chip can hang the REPL** (`repl_input_lost`, `InputHeld`). `_loadBundle` keeps
   one pending callback. Inputs queue so as not to overwrite it, but `loadThen`
   calls it beside the queue: a prefetch or a chip starts the download, an input
   is parked, a chip is clicked: the input's callback is gone, `_busy` stays true
   and all later inputs wait for ever. It contradicts march-repl.js:308-311. In the
   same slot a chip's own setup code is lost when the next chip or an input
   overwrites it (`SetupHeld` says it is not; march-repl.js:493-494).
2. **A figure can end on the wrong card** (`story_hasty`, `PictureIsCurrent`). A far
   jump changes the card at once and the simulation 170 ms later. Reaching the
   next card within the fade does its event to the old simulation, and the timer
   then installs the picture of the card before (chapters.js:3-5, 457).
3. **A blocked caller is told of another's timeout** (`node_queue_answer`,
   `NoConnectionMeansClosed`). `withdraw` takes the timed-out frame out of the line and
   answers the oldest caller, who may be another one: it is told `NoConnection` on a
   connection that works, and its frame is still sent. A caller that believes the
   answer and sends a shorter frame can then see that one go first.
4. **A frame can be left in line beside an empty queue** (`node_queue_idle`,
   `RoomIsTaken`). A sender that is refused takes its charge back without a message. If
   the writer looks for room while that charge stands, nothing makes it look again,
   and the blocked caller waits for its timeout.
5. **A suspicion of a running node may never end** (`swim_suspicion`, `SuspicionEnds`). A
   node that has only heard of a suspicion arms no timer and does not probe the
   suspect; if the nodes concerned settle the matter when they reconnect, neither has
   anything left to gossip.

Seen on the way, and contradicting no text: in the peer queue the writer reads the
counter and charges it in two accesses, so an admission from the line and a sender's
charge between them may put the queue over its budget by one frame. In the cluster
node, the first link to a restarted member is dropped again when the death of its
old life is announced; the redial repairs it.

Other properties hold under a condition that names where the code stops
promising them. Each condition is needed: TLC finds the property violated without it.
None of these violations is a run of its own.

- `HandledByItsCode`, `DeployLands` need that no crash takes the marker: the
  restarted actor runs the old code, senders assume the new one, and `deploy()`
  returns early for ever (sim-mailbox.js:38, 45-51). No page script calls `deploy()`.
- `EvaluatesWithModules` needs the module index. The failure of `march_stdlib_index.js` is
  passed over like its arrival (march-repl.js:115), `marchModulesNeeded` then lists
  nothing, and once march.js is there the index is never asked for again: inputs are
  evaluated without their modules. That such an interpreter works, "just with less of
  the stdlib", is intended (108-109); that it loads nothing on demand and says nothing of
  it is not what the comment on `_ensureModules` promises (124-128).
- `PastIsFrozen` and the parts `ShownIsIndexed`, `BranchesForward` of `HistoryOK` need that P
  and R are left alone in the past: `handle_key` looks at these keys before it looks at
  `data-paused` (tetris-source.march.txt:634-640), so R starts a game and P plays on
  behind the frame shown; tetris-playground.js:190-192 says that nothing can advance
  there. The pause button is hidden meanwhile, the keys are not.
- `PressAnswered` and `NewestRuns` need that no download ends with a run still parked: a
  failed download, or a compiler that came without the library, forgets the parked
  run, which then runs behind a later press (tetris-playground.js:34-60). `ShowsLastRun`
  needs that the compiled game does not come late: it is mounted whenever its fetch is
  answered, over the reader's own program (405).
- `ShowsTheOneAsked` needs that no answer overtakes an older one: requests are
  neither numbered nor cancelled, and the last answer wins (error-playground.js:102).
- `ServedByUpHosts` says nothing of the host that initiated a session: `stop()` looks
  for sessions served by a host (sim-topology.js:85), although lines 13-14 say "a
  host it runs on". The cards never stop the initiator. And a host that is down when
  a patch is activated keeps the old code when it returns.
- `LedgerSlotsOwned` is stated in one direction: a Ledger that has just moved hands
  out slots its predecessor's draining sessions still count on. The scripts of the
  cluster page never fail a host that has taken the seat over, so it shows only
  through the simulation's interface.

## 4. Proofs

Each proof module holds for any constants that satisfy the named assumptions of
the modules it is about (TLC evaluates those in the runs).

| Module | Theorem | Statement |
|---|---|---|
| `MarchRepl_proofs` | `TypeCorrect` | `Spec => []TypeOK` |
| | `CallbacksAlways`, `StrictOrderAlways`, `HistoryAlways`, `PendingAlways` | `Spec => []` of `CallbacksOK`, `StrictOrder`, `HistoryOK`, `PendingIsEnough` |
| | `EvaluatesWithModulesAlways` | the action property `EvaluatesWithModules` |
| | `RefinesContract` | `Spec => ImplementsContract`: the contract's initial state, and its steps or stutters |
| `NodeQueue_proofs` | `NodeQueueTypes` | `Spec => []TypeOK` |
| | `WindowAlwaysHeld`, `AccountingAlways`, `QueueAlwaysOK`, `OkAlwaysKept` | `Spec => []` of `WindowHeld`, `Accounting`, `QueueOK`, `OkIsKept` |
| `Swim_proofs` | `WinnerIsLeastUpperBound` | an observation is folded in as a least upper bound |
| | `MergesConverge` | views that merged the same views agree, whatever the order or the repetition |
| | `EventsRaise`, `PeriodsRaise` | each event, and all that the end of a period does, only raises what is known of a member |
| | `MembersAlwaysOK` | `Spec => []MembersOK` |
| | `NothingIsEverTakenBack` | the action property `NothingIsTakenBack` |
| `SimCluster_proofs` | `InvariantAlways` | `Spec => []IInv`, the inductive invariant |
| | `ClusterAlwaysOK`, `SessionsAlwaysOK`, `DetectorAlwaysOK` | `Spec => []` of `ClusterOK`, `SessionsOK`, `DetectorOK` |
| | `LedgerAlwaysHandsOver` | the action property `LedgerHandsOver` |
| `Figures_proofs` | `SectionAlwaysOK`, `MailboxAlwaysOK`, `WalkAlwaysOK` | `Spec => []` of `SectionOK`, `MailboxOK`, `WalkOK` |
| | `NeverFlickers` | the action property `NoFlicker` |
| `Playgrounds_proofs` | `HistoryAlwaysOK`, `PageAlwaysOK`, `RunAlwaysOK`, `GameAlwaysOK` | `Spec => []` of `HistoryOK`, `PageOK`, `RunOK`, `GameOK` |
| | `PastAlwaysFrozen` | the action property `PastIsFrozen` |
| `Topology_proofs` | `SessionsAlwaysOK`, `NewCodeAlwaysOnItsCard` | `PageSpec => []` of `SessionsOK`, `NewCodeOnItsCard` |
| | `ChangesAlwaysEarned` | the action property `ChangesAreEarned` |

Every safety property that a passing run checks is one of these theorems.

The modules are laid out alike: the invariant, one lemma per action or group of
actions that change the same variables, one that puts the steps together, and the
theorem, whose only temporal step is the last. Where a composition looks at one part at a
time (`MCFigures`, `MCPlaygrounds`), each part's invariant speaks of its own variables,
and the steps of the others leave those alone.

**REPL.** `TypeOK` is not inductive. A reply appends `running` to `finished`, and keeps the
type only if an input is in hand; who replies is a callback, so one has to know
that a callback "input" exists only while an input is in hand, and that there is
one. The inductive invariant is `IInv == TypeOK /\ Wiring`, where `Wiring` says:
no input in hand means no parked, downloading or module-waiting callback of an
input; each of the three excludes the others; `_drain` loops only with no input
in hand; one download at a time; a parked callback is watched. `CallbacksOK` follows from
`Wiring`. Three more invariants stand on it. `StrictOrder`: each action moves inputs between
`finished`, `running`, `queue` and `todo` without reordering, and the lemmas about
concatenation carry it. `Slot`: with no chip clicked the input in hand has a holder, and
with one chip and no input its setup code has not been overwritten, which is
`PendingIsEnough`. `InHand`: an input is in hand past the first line only if it needs the
interpreter; files are fetched for it only once the index is there; and the list of files
being fetched is still the list it would be given now; this is where `ModulesInOrderAssumption` is used, for the list is made once and the
modules come one by one. `LogStep` says what any step may do to the variables of the
contract, and the refinement is `LogStep` read as the contract's actions.

**Peer queue.** `WindowHeld` is not inductive: a frame is written because credit
covers it, and credit is what the receiver said some time ago. The invariant is
`IInv == TypeOK /\ InLine /\ CreditIsConsumed /\ WindowHeld`, where `CreditIsConsumed` says that
no credit applied, or still in the mailbox, is of more than was consumed, and
`InLine` that the writer is about to charge only while a frame is in line. `Accounting` speaks
of a counter and of sums over a queue, a mailbox and the calls under way; `Ledger` says
they are equal while the connection lives and the counter is never less after it, and each
lemma follows one frame from one sum into another. The part `LinesMatch` of `QueueOK` (the line of
callers is never longer than that of frames, and a caller without an answer is in it or
its message is on its way) is inductive over the types. `OkIsKept` needs `Keeping`:
each call is about a frame of its caller's own (`Named`); a frame told Ok, and one to be
withdrawn, are of a call that is over, and of two such calls (`Settled`), so no `withdraw` takes
out a frame that was told Ok; and the frames of callers in line are kept too (`Held`).

**Membership and Swim.** `Supersedes` is a total order, up to equality, on observations of
one node, so `Winner` is a maximum: idempotent, commutative and associative, with `Unknown`
at the bottom. Merging view by view inherits this, which is why gossip may arrive late,
twice or through anybody. `Raises(before, after)` says that an observation only gave way
to one that outranks it and that a timer sits on a member that is not Alive; each
transition of `swim.js` has it, and an induction over the events of a tick gives it to whole
ticks (`FoldedGrown`, `EndedGrown`). The invariant adds to the shapes what each node knows of
itself (`KnowsItself`: it is a member, without a timer, and hears gossip only) and of the others (`KnowsOf`):
subscribers have heard what the view says (`SameStory`), and after a death that was
reported only a rejoin is due.

**Cluster simulation.** `IInv == Placed /\ Held /\ OnTime /\ Conservation`. `Placed` has the types and
what the clocks rest on: a suspected host is silent, an empty seat has a day to be filled.
`Held` says that a session has its two slots exactly while it is served, and that each
slot taken is the slot of a session that says so. `OnTime` bounds the age of a hung host
between two calls of `step`. `Conservation` counts the sessions; it needs each step to end at most
the sessions it takes out of the domain. The action property comes from the same
lemmas: whoever gives back a slot owns it.

**Story and mailbox.** `SectionOK` needs to know what is still due: `Patient` (a figure without a
fade under way shows its card, to a reader who waited), `Unreported` (what failed has
reported once), `FadesInOrder` (of the timers only the newest may install its picture).
For the mailbox, `QueueShape` says where the marker is: messages of the first epoch, one
marker, messages of the second; `Phases` which of the actor's clocks may run; `Counted` that,
until a crash, what came is what was handled and what is in the queue.

**Heap.** The tree may have any depth. Two cells above a third are above one another
(`AboveIsChain`), so the subtrees of two children share nothing and, with the cell, are its
own (`UnderIs`). The pre-order of a subtree is a `Tour` of it: each of its cells once, a
parent before its children, the left subtree before the right child; this is an
induction from the leaves (`WalkTours`), for a tour of each half makes a tour of the whole
(`ToursJoin`). In the invariant `HeapKept`, then, each cursor is on a tour from its root
(`Routes`), what is visited is what the cursors passed (`Seen`), and copies and counters
follow from what is visited (`Counting`). `WalkOK` is read off at any point of the tours.

**Playgrounds.** What is asked is due: the last request for an example is on its way or was
the last answered (`LastAsked`); the requests are numbered, which bounds the checks that
wait (`Numbered`); a run that waits is the newest, until one was left behind (`NewestWaits`). For
the history only `NoneAhead` is missing: no recorded frame is newer than the game's last.
`GameOK` is inductive as it stands; what it takes is counting cells. A piece is four
different cells however it is turned (`PlacedIs`), at most four rows fill at once for a
piece is four rows high (`FilledIs`), and clearing moves the rows that stay without
putting one on another and without filling one (`BelowIs`, `ClearLinesIs`). The board is
asked to be three rows high and the spawn column four from the right, so that a piece
has room on an empty board.

**Topology.** `Kept` has four parts, on hosts, roles, sessions and the patch; they meet in
`up` and in the patch's verdict. `CardKept` says what each card of either figure has caused by
now, for `NewCodeOnItsCard`. That `RankSingle` and the round robin choose a host
of their pool rests on the finiteness of the pools.

**Induction.** The library's induction principles take a predicate as a parameter, which the
provers cannot instantiate. `SumTheorems` states two of them for a set instead
(`OnNaturals`, `OnFiniteSets`: a set that holds the first and, with each, the next,
holds all), from which follow the facts about sums and folds of the community modules,
and about functions defined from one prefix to the next, or over a tree, that the
proofs above use.

With TLC only: liveness under fairness and `CardsComeTrue`, which are beyond the prover as
is `ENABLED`.

## 5. Not modelled

Nearly all of the repository's lines are generated: `march.js` and `march_compile.js`
are some 72 000 minified lines of two OCaml programs whose sources are elsewhere. They
are modelled by the calls made to them, so the models cover a small share of the lines
and most of the logic that was written here. `tetris.mjs` is the compiled form of
`tetris-source.march.txt`. It is what the page runs until the reader compiles another
program, so `Tetris`, read from the source, is mapped to the compiled functions. They are
long: more than half of the mapped lines are of this one file, and the whole source is 669 lines. A share of mapped lines therefore says little about how much
of the site is modelled; section 1 and the components of `PROJECT.json` do.

Layout, wording and colour; the transcript as text; what March code computes.
`clear()` only empties the transcript. `cookbook.js` makes one REPL on first use.
The drawing modules are functions from a state to a picture. `observeSteps`'s
`stop()` is never called. No page script uses `sim-release.js`. The scripts of the cards
are data, and the runs let their events come in any order. The runtime's arithmetic
is on doubles up to 2^62, beyond TLC's integers, and its only state is a cache that
is emptied when full. The loader of the landing page (`index.html`) begins before
`MarchRepl` does; its one hazard is listed without a property. Of the standard library,
names, supervision, remote calls and sessions, which stand on the two modelled parts,
are not modelled. `PROJECT.json` has a note for each component.

What could come next: the name registry over `Membership`
(claims, tombstones and its anti-entropy, which is the part of the members' gossip that
*is* repeated); a session over two `NodeQueue`s; a contract for the cluster simulation, of
sessions and slots without hosts, for it to implement.
