----------------------------- MODULE NodeQueue -----------------------------
(***************************************************************************)
(* The outbound queue of one peer (src/assets/stdlib/node_queue.js, the    *)
(* module NodeQueue of the distributed standard library) with everything   *)
(* that acts on it: the senders that call enqueue, the writer actor that   *)
(* owns the connection, and the receiver that announces what it consumed.  *)
(*                                                                         *)
(* The byte counter is shared: a sender charges it before it asks anything *)
(* of the writer, the writer charges and discharges it in its own turn,    *)
(* and both act between the other's two accesses.  So a sender's call and  *)
(* a writer's turn are sequences of steps here: charge, then look; take a  *)
(* message, write while credit lasts, read the counter, charge it.         *)
(***************************************************************************)
EXTENDS Integers, Sequences, SequencesExt, FiniteSetsExt

CONSTANTS
    Senders,    \* the processes that call enqueue
    Requests,   \* bound: the calls of s, Requests[s][n] what its n-th may ask for
    Budget      \* the queue's budget, in bytes

Policies == {"drop_new", "drop_old", "block", "unbounded"}

ASSUME ConstantsAssumption ==
    /\ Requests \in [Senders -> Seq(SUBSET [len : Nat \ {0}, policy : Policies])]
    /\ Budget \in Nat /\ Budget >= 4
    /\ IsFiniteSet(Senders)

VARIABLES
    queued,     \* the shared counter "q": bytes charged and not yet written
    pc,         \* where each sender is in its call of enqueue
    call,       \* the call each sender is in, or was in last
    answer,     \* the reply to the Actor.call of a blocked sender
    mailbox,    \* the writer's messages, in the order they were sent
    turn,       \* where the writer is in its turn
    granted, sent, pending, waiting, waiters, evicted, dead, \* WriterState
    up,         \* the connection works
    wire,       \* frames written and not yet consumed
    consumed, announced, \* the receiver's counters "c" and "l"
    log,        \* history: the frames ever written, in order
    oked, cutOff \* history: frames whose caller was told Ok, NoConnection

sender   == <<pc, call, answer>>
writer   == <<granted, sent, pending, waiting, waiters, evicted, dead>>
receiver == <<consumed, announced>>
history  == <<log, oked, cutOff>>
vars == <<queued, sender, mailbox, turn, writer, up, wire, receiver, history>>

Frames == [from : Senders, n : Nat, len : Nat]

Messages == [kind : {"enqueue", "evicting", "waiting", "wait", "withdraw"}, frame : Frames]
            \union [kind : {"credit"}, total : Nat] \union [kind : {"close"}]

Bytes(frames) == SumFunction([i \in DOMAIN frames |-> frames[i].len])

\* Admission: the frame fits the budget, or goes into an empty queue alone.
Fits(had, len) == had + len <= Budget \/ had = 0

MayWrite_OnCredit == \* mutant: only what credit covers goes
    ~dead /\ pending # <<>> /\ sent + Head(pending).len <= granted

MayWrite_AnyCredit == \* mutant: the frame's own length is forgotten
    ~dead /\ pending # <<>> /\ (sent < granted \/ sent - (granted - Budget) < Budget \div 4)

\* may_write, of the head of the queue: credit covers it, or all that was
\* written may have been consumed without the receiver announcing it.
MayWrite ==
    /\ ~dead /\ pending # <<>>
    /\ \/ sent + Head(pending).len <= granted
       \/ sent - (granted - Budget) < Budget \div 4

Init ==
    /\ queued = 0
    /\ pc = [s \in Senders |-> "ready"]
    /\ call = [s \in Senders |-> [policy |-> "none", frame |-> [from |-> s, n |-> 0, len |-> 0]]]
    /\ answer = [s \in Senders |-> "none"]
    /\ mailbox = <<>> /\ turn = "idle"
    /\ granted = Budget /\ sent = 0 /\ dead = FALSE
    /\ pending = <<>> /\ waiting = <<>> /\ waiters = <<>> /\ evicted = <<>>
    /\ up = TRUE /\ wire = <<>>
    /\ consumed = 0 /\ announced = 0
    /\ log = <<>> /\ oked = {} /\ cutOff = {}

-----------------------------------------------------------------------------
(* The senders: enqueue(q, seq, frame, policy).                            *)

Send(kind, frame) == mailbox' = Append(mailbox, [kind |-> kind, frame |-> frame])

\* The call is over; f is told what.
Returns(s, f, what) ==
    /\ pc' = [pc EXCEPT ![s] = "ready"]
    /\ oked' = IF what = "Ok" THEN oked \union {f} ELSE oked
    /\ cutOff' = IF what = "NoConnection" THEN cutOff \union {f} ELSE cutOff
    /\ UNCHANGED log

\* Vault.incr charges the frame, and tells what the counter held before it.
Charge(s) ==
    /\ pc[s] = "ready"
    /\ \E n \in DOMAIN Requests[s] : \E r \in Requests[s][n] :
          /\ n = call[s].frame.n + 1
          /\ call' = [call EXCEPT ![s] = [policy |-> r.policy, frame |-> [from |-> s, n |-> n, len |-> r.len]]]
          /\ queued' = queued + r.len
          /\ pc' = [pc EXCEPT ![s] = IF Fits(queued, r.len) THEN "fits" ELSE "full"]
    /\ UNCHANGED <<answer, mailbox, turn, writer, up, wire, receiver, history>>

\* The frame fits, or its policy admits it anyway.
Admitted(s) ==
    LET c == call[s] IN
    /\ \/ pc[s] = "fits" /\ Send("enqueue", c.frame)
       \/ pc[s] = "full" /\ c.policy = "unbounded" /\ Send("enqueue", c.frame)
       \/ pc[s] = "full" /\ c.policy = "drop_old" /\ Send("evicting", c.frame)
    /\ Returns(s, c.frame, "Ok")
    /\ UNCHANGED <<queued, call, answer, turn, writer, up, wire, receiver>>

Refused_Charged(s) == \* mutant: the refused charge stays
    LET c == call[s] IN
    /\ pc[s] = "full"
    /\ \/ c.policy = "drop_new" /\ Returns(s, c.frame, "Backpressure")
       \/ c.policy = "block" /\ pc' = [pc EXCEPT ![s] = "refused"] /\ UNCHANGED history
    /\ UNCHANGED <<queued, call, answer, mailbox, turn, writer, up, wire, receiver>>

\* No room: the charge is taken back, and drop_new is refused.
Refused(s) ==
    LET c == call[s] IN
    /\ pc[s] = "full"
    /\ queued' = queued - c.frame.len
    /\ \/ c.policy = "drop_new" /\ Returns(s, c.frame, "Backpressure")
       \/ /\ c.policy = "block"
          /\ pc' = [pc EXCEPT ![s] = "refused"]
          /\ UNCHANGED history
    /\ UNCHANGED <<call, answer, mailbox, turn, writer, up, wire, receiver>>

\* A blocking sender puts its frame in the writer's line, then itself.
Lines(s) ==
    /\ pc[s] = "refused"
    /\ Send("waiting", call[s].frame)
    /\ pc' = [pc EXCEPT ![s] = "lined"]
    /\ UNCHANGED <<queued, call, answer, turn, writer, up, wire, receiver, history>>

Calls(s) ==
    /\ pc[s] = "lined"
    /\ Send("wait", call[s].frame)
    /\ pc' = [pc EXCEPT ![s] = "blocked"]
    /\ UNCHANGED <<queued, call, answer, turn, writer, up, wire, receiver, history>>

Answered(s) ==
    /\ pc[s] = "blocked" /\ answer[s] # "none"
    /\ Returns(s, call[s].frame, IF answer[s] = "yes" THEN "Ok" ELSE "NoConnection")
    /\ answer' = [answer EXCEPT ![s] = "none"]
    /\ UNCHANGED <<queued, call, mailbox, turn, writer, up, wire, receiver>>

\* The deadline passes first: the frame is withdrawn.
TimesOut(s) ==
    /\ pc[s] = "blocked" /\ answer[s] = "none"
    /\ Send("withdraw", call[s].frame)
    /\ Returns(s, call[s].frame, "Backpressure")
    /\ UNCHANGED <<queued, call, answer, turn, writer, up, wire, receiver>>

-----------------------------------------------------------------------------
(* The writer: one message at a time; after most of them it writes what it *)
(* may and admits from the line, before the next message.                  *)

\* Replies to the calls in `whom`; a caller that has given up hears nothing.
Reply(whom, what) ==
    answer' = [s \in Senders |->
        IF pc[s] = "blocked" /\ call[s].frame \in whom /\ answer[s] = "none"
        THEN what ELSE answer[s]]

Oldest(line) == IF line = <<>> THEN {} ELSE {Head(line)}
Rest(line) == IF line = <<>> THEN <<>> ELSE Tail(line)

Takes(kind) ==
    /\ turn = "idle" /\ mailbox # <<>> /\ Head(mailbox).kind = kind
    /\ mailbox' = Tail(mailbox)
    /\ UNCHANGED <<pc, call, up, wire, receiver, history>>

\* admit
OnEnqueue ==
    /\ Takes("enqueue")
    /\ IF dead THEN UNCHANGED <<pending, turn>>
               ELSE pending' = Append(pending, Head(mailbox).frame) /\ turn' = "serve"
    /\ UNCHANGED <<queued, answer, granted, sent, waiting, waiters, evicted, dead>>

OnEnqueueEvicting_Silent == \* mutant: what goes is not reported
    /\ Takes("evicting")
    /\ pending' = <<Head(mailbox).frame>>
    /\ queued' = queued - Bytes(pending)
    /\ turn' = "serve"
    /\ UNCHANGED <<answer, granted, sent, waiting, waiters, evicted, dead>>

\* admit_evicting: the oldest go until the new frame fits beside the rest.
OnEnqueueEvicting ==
    LET f == Head(mailbox).frame
        Enough(k) == \/ k = Len(pending)
                     \/ Bytes(SubSeq(pending, k + 1, Len(pending))) + f.len <= Budget
    IN
    /\ Takes("evicting")
    /\ \E k \in 0..Len(pending) :
          /\ Enough(k) /\ \A j \in 0..(k - 1) : ~Enough(j)
          /\ pending' = Append(SubSeq(pending, k + 1, Len(pending)), f)
          /\ evicted' = evicted \o SubSeq(pending, 1, k)
          /\ queued' = queued - Bytes(SubSeq(pending, 1, k))
    /\ turn' = "serve"
    /\ UNCHANGED <<answer, granted, sent, waiting, waiters, dead>>

\* grant: a total that is older than one already applied changes nothing.
OnCredit ==
    /\ Takes("credit")
    /\ LET g == Head(mailbox).total + Budget IN granted' = IF g > granted THEN g ELSE granted
    /\ turn' = "serve"
    /\ UNCHANGED <<queued, answer, sent, pending, waiting, waiters, evicted, dead>>

OnWaiting ==
    /\ Takes("waiting")
    /\ waiting' = Append(waiting, Head(mailbox).frame)
    /\ turn' = "serve"
    /\ UNCHANGED <<queued, answer, granted, sent, pending, waiters, evicted, dead>>

\* As many callers as frames in line: the frame of this one was admitted
\* before the caller came.
OnWait ==
    LET f == Head(mailbox).frame IN
    /\ Takes("wait")
    /\ \/ dead /\ Reply({f}, "no") /\ UNCHANGED <<waiters, turn>>
       \/ /\ ~dead /\ Len(waiters) >= Len(waiting)
          /\ Reply({f}, "yes") /\ UNCHANGED <<waiters, turn>>
       \/ /\ ~dead /\ Len(waiters) < Len(waiting)
          /\ waiters' = Append(waiters, f) /\ turn' = "serve"
          /\ UNCHANGED answer
    /\ UNCHANGED <<queued, granted, sent, pending, waiting, evicted, dead>>

\* withdraw: the frame leaves the line, and the oldest caller with it.
OnWithdraw ==
    LET f == Head(mailbox).frame IN
    /\ Takes("withdraw")
    /\ \/ f \notin Range(waiting) /\ UNCHANGED <<waiting, waiters, answer>>
       \/ /\ \E i \in DOMAIN waiting : waiting[i] = f /\ waiting' = RemoveAt(waiting, i)
          /\ waiters' = Rest(waiters)
          /\ Reply(Oldest(waiters), "no")
    /\ UNCHANGED <<queued, turn, granted, sent, pending, evicted, dead>>

\* Close, CloseFd: what was queued is let go.
OnClose ==
    /\ Takes("close")
    /\ dead' = TRUE /\ pending' = <<>> /\ turn' = "serve"
    /\ UNCHANGED <<queued, answer, granted, sent, waiting, waiters, evicted>>

\* drain: the head is written when it may be.  A write on a broken connection
\* fails, or the system takes it and nobody reads it.
Writes ==
    /\ turn = "serve" /\ MayWrite
    /\ LET f == Head(pending) IN
       \/ /\ pending' = Tail(pending) /\ sent' = sent + f.len
          /\ queued' = queued - f.len
          /\ wire' = IF up THEN Append(wire, f) ELSE wire
          /\ log' = Append(log, f)
          /\ UNCHANGED dead
       \/ /\ ~up /\ dead' = TRUE
          /\ UNCHANGED <<pending, sent, queued, wire, log>>
    /\ UNCHANGED <<sender, mailbox, turn, granted, waiting, waiters, evicted, up, receiver, oked, cutOff>>

\* admit_waiting on a dead connection: everyone in line is answered, no one kept.
SendsAway ==
    /\ turn = "serve" /\ dead
    /\ Reply(Range(waiters), "no")
    /\ waiting' = <<>> /\ waiters' = <<>> /\ turn' = "idle"
    /\ UNCHANGED <<queued, pc, call, mailbox, granted, sent, pending, evicted, dead, up, wire, receiver, history>>

\* admit_waiting reads the counter and then charges it: two accesses.
LooksForRoom ==
    /\ turn = "serve" /\ ~MayWrite /\ ~dead
    /\ turn' = IF waiting # <<>> /\ Fits(queued, Head(waiting).len) THEN "charge" ELSE "idle"
    /\ UNCHANGED <<queued, sender, mailbox, writer, up, wire, receiver, history>>

AdmitsFromLine_Uncharged == \* mutant: the writer forgets to charge
    /\ turn = "charge"
    /\ pending' = Append(pending, Head(waiting))
    /\ waiting' = Tail(waiting) /\ waiters' = Rest(waiters)
    /\ Reply(Oldest(waiters), "yes")
    /\ turn' = "serve"
    /\ UNCHANGED <<queued, pc, call, mailbox, granted, sent, evicted, dead, up, wire, receiver, history>>

AdmitsFromLine ==
    /\ turn = "charge"
    /\ queued' = queued + Head(waiting).len
    /\ pending' = Append(pending, Head(waiting))
    /\ waiting' = Tail(waiting)
    /\ waiters' = Rest(waiters)
    /\ Reply(Oldest(waiters), "yes")
    /\ turn' = "serve"
    /\ UNCHANGED <<pc, call, mailbox, granted, sent, evicted, dead, up, wire, receiver, history>>

-----------------------------------------------------------------------------
(* The receiver, and what happens to the connection.                       *)

\* consumed, and credit: a total is announced each time a quarter of the budget
\* is new, and this node's reader passes it to the writer.  (One step: a CREDIT
\* frame that travels longer is a frame consumed later, to this node.)
Consumes ==
    /\ up /\ wire # <<>>
    /\ wire' = Tail(wire)
    /\ consumed' = consumed + Head(wire).len
    /\ IF consumed' - announced >= Budget \div 4
       THEN /\ announced' = consumed'
            /\ mailbox' = Append(mailbox, [kind |-> "credit", total |-> consumed'])
       ELSE UNCHANGED <<announced, mailbox>>
    /\ UNCHANGED <<queued, sender, turn, writer, up, history>>

Breaks ==
    /\ up
    /\ up' = FALSE /\ wire' = <<>>
    /\ UNCHANGED <<queued, sender, mailbox, turn, writer, receiver, history>>

\* close, close_fd: the owner gives the connection up, whether it works or not.
OwnerCloses ==
    /\ ~dead /\ \A i \in DOMAIN mailbox : mailbox[i].kind # "close"
    /\ mailbox' = Append(mailbox, [kind |-> "close"])
    /\ UNCHANGED <<queued, sender, turn, writer, up, wire, receiver, history>>

WriterStep ==
    \/ OnEnqueue \/ OnEnqueueEvicting \/ OnCredit \/ OnWaiting \/ OnWait \/ OnWithdraw \/ OnClose
    \/ Writes \/ SendsAway \/ LooksForRoom \/ AdmitsFromLine

SenderStep(s) == Admitted(s) \/ Refused(s) \/ Lines(s) \/ Calls(s) \/ Answered(s)

Next ==
    \/ \E s \in Senders : Charge(s) \/ SenderStep(s) \/ TimesOut(s)
    \/ WriterStep
    \/ Consumes \/ Breaks \/ OwnerCloses

\* The scheduler runs every process that can run and the network delivers;
\* nobody has to call enqueue, to time out or to close.
Fairness ==
    /\ WF_vars(WriterStep)
    /\ \A s \in Senders : WF_vars(SenderStep(s))
    /\ WF_vars(Consumes)

Spec == Init /\ [][Next]_vars /\ Fairness

-----------------------------------------------------------------------------
(* Properties.                                                             *)

InMailbox(kinds) ==
    {mailbox[i].frame : i \in {j \in DOMAIN mailbox : mailbox[j].kind \in kinds}}

TypeOK ==
    /\ {granted, sent, consumed, announced} \subseteq Nat
    /\ {dead, up} \subseteq BOOLEAN
    /\ pc \in [Senders -> {"ready", "fits", "full", "refused", "lined", "blocked"}]
    /\ call \in [Senders -> [policy : Policies \union {"none"}, frame : Frames]]
    /\ answer \in [Senders -> {"none", "yes", "no"}]
    /\ mailbox \in Seq(Messages)
    /\ turn \in {"idle", "serve", "charge"}
    /\ {pending, waiting, waiters, evicted, wire, log} \subseteq Seq(Frames)
    /\ oked \subseteq Frames /\ cutOff \subseteq Frames

\* The bytes charged for the frames still on their way to the queue, and for
\* the calls that have charged and not yet decided.
MailCharges == [i \in DOMAIN mailbox |->
    IF mailbox[i].kind \in {"enqueue", "evicting"} THEN mailbox[i].frame.len ELSE 0]
CallCharges == [s \in Senders |-> IF pc[s] \in {"fits", "full"} THEN call[s].frame.len ELSE 0]

\* The counter that senders and writer change without a lock is exact: on a
\* live connection it is the bytes queued, on their way to the writer, and
\* charged by a sender that has not yet decided.  A charge taken twice, or
\* never taken back, would refuse or admit for good.  The two ends' totals
\* agree as well: what one wrote and the other has not consumed is under way.
Accounting ==
    /\ ~dead => queued = Bytes(pending) + SumFunction(MailCharges) + SumFunction(CallCharges)
    /\ up => sent - consumed = Bytes(wire)

\* Flow control: what was written and not consumed stays within the budget, or
\* is one frame after less than a quarter of it (a frame that credit alone
\* would never let go).
WindowHeld ==
    \/ sent - consumed <= Budget
    \/ log # <<>> /\ (sent - Last(log).len) - consumed < Budget \div 4

\* The line of callers is never longer than the line of frames, and a caller
\* that blocks and has no answer is in it, or its message is on its way: no
\* reply goes to the wrong place and leaves somebody without one.
LinesMatch ==
    /\ Len(waiters) <= Len(waiting)
    /\ \A s \in Senders : pc[s] = "blocked" /\ answer[s] = "none" =>
          call[s].frame \in Range(waiters) \union InMailbox({"wait"})

\* Every variable has its type; the counter is never negative, the writer is
\* about to charge a frame only while one is in line, and no blocked caller is
\* without one that will answer it.
QueueOK == TypeOK /\ queued \in Nat /\ (turn = "charge" => waiting # <<>>) /\ LinesMatch

\* A frame whose caller was told Ok is not lost while the connection lives: it
\* is on its way, in line, queued or written, or it is among the evicted
\* ones that take_evicted reports.
OkIsKept ==
    ~dead => oked \subseteq
        InMailbox({"enqueue", "evicting", "waiting"})
        \union UNION {Range(line) : line \in {waiting, pending, evicted, log}}

\* What is queued on a connection that works is written in the end: the credit
\* for it comes, although the receiver keeps up to a quarter of the budget to
\* itself and a frame may be longer than the budget.
QueueDrains == pending # <<>> ~> pending = <<>> \/ dead \/ ~up

\* node_queue.js:2 (the doc of enqueue): a blocked caller is told "NoConnection
\* when the queue is closed meanwhile".  It is told so when another caller
\* times out, too: withdraw answers the oldest caller in line, not the one
\* whose frame leaves it.
NoConnectionMeansClosed == cutOff # {} => dead

\* node_queue.js:2 (the doc of enqueue): BlockSender "waits for room".  A sender that
\* was refused takes its charge back without a word to the writer: one that
\* looked meanwhile leaves a frame in line beside an empty queue.
RoomIsTaken ==
    ~( /\ waiting # <<>> /\ ~dead /\ up /\ Fits(queued, Head(waiting).len)
       /\ turn = "idle" /\ mailbox = <<>> /\ wire = <<>>
       /\ pending = <<>> /\ \A s \in Senders : pc[s] \in {"ready", "blocked"} )
=============================================================================
