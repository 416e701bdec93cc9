-------------------------- MODULE NodeQueue_proofs --------------------------
(***************************************************************************)
(* Theorems about NodeQueue, for all senders, requests and budgets.        *)
(*                                                                         *)
(* The window holds because credit is never ahead of consumption: neither  *)
(* what the writer was granted nor any CREDIT still in its mailbox exceeds *)
(* what the receiver has consumed by now.                                  *)
(*                                                                         *)
(* The counter is exact because it is Charged: what is pending, what is in *)
(* the mailbox and what calls under way have charged (Ledger, with the     *)
(* totals of the two ends).  No caller loses its place because the lines   *)
(* of frames and of callers match (LinesMatch), and what was told Ok is    *)
(* somewhere (Keeping).                                                    *)
(***************************************************************************)
EXTENDS NodeQueue, SumTheorems

CreditIsConsumed ==
    /\ granted - Budget <= consumed
    /\ \A i \in DOMAIN mailbox : mailbox[i].kind = "credit" => mailbox[i].total <= consumed

InLine == turn = "charge" => waiting # <<>>

IInv == TypeOK /\ InLine /\ CreditIsConsumed /\ WindowHeld

\* A message appended keeps the mailbox well-formed, and its credits covered.
LEMMA SendKeeps ==
  ASSUME TypeOK, CreditIsConsumed,
         NEW m \in Messages, m.kind = "credit" => m.total <= consumed
  PROVE  LET box == Append(mailbox, m) IN
         /\ box \in Seq(Messages)
         /\ \A i \in DOMAIN box : box[i].kind = "credit" => box[i].total <= consumed
<1> DEFINE box == Append(mailbox, m)
<1>1. mailbox \in Seq(Messages)
  BY DEF TypeOK
<1>2. /\ box \in Seq(Messages) /\ DOMAIN box = 1..(Len(mailbox) + 1)
      /\ \A i \in 1..Len(mailbox) : box[i] = mailbox[i]
      /\ box[Len(mailbox) + 1] = m
  BY <1>1, AppendProperties
<1>3. DOMAIN mailbox = 1..Len(mailbox) /\ Len(mailbox) \in Nat
  BY <1>1, LenProperties
<1> QED
  BY <1>2, <1>3 DEF CreditIsConsumed

\* A message taken leaves a mailbox as good as before.
LEMMA TakeKeeps ==
  ASSUME TypeOK, CreditIsConsumed, mailbox # <<>>
  PROVE  /\ Head(mailbox) \in Messages
         /\ Head(mailbox).kind = "credit" => Head(mailbox).total <= consumed
         /\ Tail(mailbox) \in Seq(Messages)
         /\ \A i \in DOMAIN Tail(mailbox) :
               Tail(mailbox)[i].kind = "credit" => Tail(mailbox)[i].total <= consumed
<1>1. mailbox \in Seq(Messages)
  BY DEF TypeOK
<1>2. /\ Head(mailbox) \in Messages /\ Tail(mailbox) \in Seq(Messages)
      /\ Len(Tail(mailbox)) = Len(mailbox) - 1
      /\ \A i \in 1..Len(Tail(mailbox)) : Tail(mailbox)[i] = mailbox[i + 1]
  BY <1>1, HeadTailProperties
<1>3. Head(mailbox) = mailbox[1] /\ DOMAIN mailbox = 1..Len(mailbox) /\ Len(mailbox) \in Nat \ {0}
  BY <1>1, LenProperties, EmptySeq
<1>4. DOMAIN Tail(mailbox) = 1..Len(Tail(mailbox))
  BY <1>2, LenProperties
<1> QED
  BY <1>2, <1>3, <1>4 DEF CreditIsConsumed

\* The counters are numbers, as are the budget and its quarter.
LEMMA Numbers ==
  ASSUME TypeOK
  PROVE  /\ granted \in Nat /\ sent \in Nat /\ consumed \in Nat /\ announced \in Nat
         /\ Budget \in Nat /\ Budget \div 4 \in Int
BY ConstantsAssumption DEF TypeOK

\* A frame has a length.
LEMMA FrameLen == ASSUME NEW f \in Frames PROVE f.len \in Nat
BY DEF Frames

\* The first of a line is a frame, the others are a line.
LEMMA HeadFrame ==
  ASSUME NEW line \in Seq(Frames), line # <<>>
  PROVE  Head(line) \in Frames /\ Head(line).len \in Nat /\ Tail(line) \in Seq(Frames)
BY HeadTailProperties, FrameLen

\* So is the last.
LEMMA LastFrame ==
  ASSUME NEW line \in Seq(Frames), line # <<>> PROVE Last(line).len \in Nat
<1>1. Len(line) \in Nat \ {0} /\ DOMAIN line = 1..Len(line)
  BY LenProperties, EmptySeq
<1>2. line[Len(line)] \in Frames
  BY <1>1, ElementOfSeq
<1> QED
  BY <1>2, FrameLen DEF Last

\* The messages that carry a frame carry a frame.
LEMMA MessageFrame ==
  ASSUME NEW m \in Messages, m.kind \in {"enqueue", "evicting", "waiting", "wait", "withdraw"}
  PROVE  m.frame \in Frames
BY DEF Messages

\* An answer is yes or no.
LEMMA ReplyType ==
  ASSUME TypeOK, NEW whom, NEW what \in {"yes", "no"}, Reply(whom, what)
  PROVE  answer' \in [Senders -> {"none", "yes", "no"}]
BY DEF TypeOK, Reply

\* A connection that has just come up.
LEMMA InitIInv == Init => IInv
<1> SUFFICES ASSUME Init PROVE IInv
  OBVIOUS
<1>1. TypeOK
  <2>1. call \in [Senders -> [policy : Policies \union {"none"}, frame : Frames]]
    BY DEF Init, Frames
  <2>2. /\ pc \in [Senders -> {"ready", "fits", "full", "refused", "lined", "blocked"}]
        /\ answer \in [Senders -> {"none", "yes", "no"}]
    BY DEF Init
  <2>3. /\ {granted, sent, consumed, announced} \subseteq Nat
        /\ {dead, up} \subseteq BOOLEAN /\ turn \in {"idle", "serve", "charge"}
    <3>1. granted \in Nat /\ sent \in Nat /\ consumed \in Nat /\ announced \in Nat
      BY ConstantsAssumption DEF Init
    <3>2. {dead, up} \subseteq BOOLEAN
      BY Zenon DEF Init
    <3>3. turn \in {"idle", "serve", "charge"}
      BY DEF Init
    <3> QED
      BY <3>1, <3>2, <3>3
  <2>4. /\ mailbox \in Seq(Messages) /\ oked \subseteq Frames /\ cutOff \subseteq Frames
        /\ {pending, waiting, waiters, evicted, wire, log} \subseteq Seq(Frames)
    BY EmptySeq DEF Init
  <2> QED
    BY <2>1, <2>2, <2>3, <2>4 DEF TypeOK
<1>2. InLine /\ CreditIsConsumed /\ WindowHeld
  BY ConstantsAssumption DEF Init, InLine, CreditIsConsumed, WindowHeld
<1> QED
  BY <1>1, <1>2 DEF IInv

-----------------------------------------------------------------------------
(* The senders touch neither the writer nor the receiver: of the invariant,*)
(* only the types and the mailbox can be disturbed.                        *)

\* What a sender's steps leave alone.
LEMMA Aside ==
  ASSUME IInv, TypeOK', UNCHANGED <<turn, writer, wire, receiver, log>>,
         \A i \in DOMAIN mailbox' : mailbox'[i].kind = "credit" => mailbox'[i].total <= consumed
  PROVE  IInv'
BY DEF IInv, InLine, CreditIsConsumed, WindowHeld, writer, receiver

\* A call that returns leaves its caller ready, and the histories typed.
LEMMA ReturnsType ==
  ASSUME TypeOK, NEW s \in Senders, NEW f \in Frames, NEW what, Returns(s, f, what)
  PROVE  /\ pc' \in [Senders -> {"ready", "fits", "full", "refused", "lined", "blocked"}]
         /\ oked' \subseteq Frames /\ cutOff' \subseteq Frames /\ log' = log
BY DEF TypeOK, Returns

\* A call that charges the counter writes nothing.
LEMMA ChargeIInv == ASSUME IInv, NEW s \in Senders, Charge(s) PROVE IInv'
<1>1. PICK n \in DOMAIN Requests[s] : \E r \in Requests[s][n] :
         /\ call' = [call EXCEPT ![s] =
               [policy |-> r.policy, frame |-> [from |-> s, n |-> n, len |-> r.len]]]
         /\ queued' = queued + r.len
         /\ pc' = [pc EXCEPT ![s] = IF Fits(queued, r.len) THEN "fits" ELSE "full"]
  BY DEF Charge
<1>2. PICK r \in Requests[s][n] :
         /\ call' = [call EXCEPT ![s] =
               [policy |-> r.policy, frame |-> [from |-> s, n |-> n, len |-> r.len]]]
         /\ queued' = queued + r.len
         /\ pc' = [pc EXCEPT ![s] = IF Fits(queued, r.len) THEN "fits" ELSE "full"]
  BY <1>1
<1>3. r \in [len : Nat \ {0}, policy : Policies] /\ n \in Nat
  <2>1. Requests[s] \in Seq(SUBSET [len : Nat \ {0}, policy : Policies])
    BY ConstantsAssumption
  <2>2. /\ Requests[s][n] \in SUBSET [len : Nat \ {0}, policy : Policies]
        /\ DOMAIN Requests[s] = 1..Len(Requests[s]) /\ Len(Requests[s]) \in Nat
    BY <2>1, LenProperties, ElementOfSeq
  <2> QED
    BY <2>2
<1>4. [policy |-> r.policy, frame |-> [from |-> s, n |-> n, len |-> r.len]]
         \in [policy : Policies \union {"none"}, frame : Frames]
  BY <1>3 DEF Frames
<1>5. UNCHANGED <<answer, mailbox, turn, writer, up, wire, receiver, history>>
  BY DEF Charge
<1>6. TypeOK'
  BY <1>2, <1>3, <1>4, <1>5 DEF IInv, TypeOK, writer, receiver, history
<1> QED
  BY <1>5, <1>6, Aside DEF IInv, CreditIsConsumed, history

\* A call has its policy and its frame.
LEMMA CallType ==
  ASSUME TypeOK, NEW s \in Senders
  PROVE  call[s] \in [policy : Policies \union {"none"}, frame : Frames] /\ call[s].frame \in Frames
BY DEF TypeOK

\* A sender's message about its call.
LEMMA SendIInv ==
  ASSUME IInv, NEW s \in Senders,
         NEW kind \in {"enqueue", "evicting", "waiting", "wait", "withdraw"}, Send(kind, call[s].frame)
  PROVE  /\ mailbox' \in Seq(Messages)
         /\ \A i \in DOMAIN mailbox' : mailbox'[i].kind = "credit" => mailbox'[i].total <= consumed
<1>1. call[s].frame \in Frames
  BY CallType DEF IInv
<1>2. [kind |-> kind, frame |-> call[s].frame] \in Messages
  BY <1>1 DEF Messages
<1> QED
  BY <1>2, SendKeeps DEF IInv, Send

\* No step of a sender writes, and none sends a credit.
LEMMA SenderIInv ==
  ASSUME IInv, NEW s \in Senders, SenderStep(s) \/ TimesOut(s) PROVE IInv'
<1>0. call[s].frame \in Frames
  BY CallType DEF IInv
<1>1. CASE Admitted(s)
  <2>1. Returns(s, call[s].frame, "Ok") /\ UNCHANGED <<queued, call, answer, turn, writer, up, wire, receiver>>
    BY <1>1 DEF Admitted
  <2>2. Send("enqueue", call[s].frame) \/ Send("evicting", call[s].frame)
    BY <1>1 DEF Admitted
  <2>3. /\ mailbox' \in Seq(Messages)
        /\ \A i \in DOMAIN mailbox' : mailbox'[i].kind = "credit" => mailbox'[i].total <= consumed
    BY <2>2, SendIInv
  <2>4. TypeOK' /\ log' = log
    BY <1>0, <2>1, <2>3, ReturnsType DEF IInv, TypeOK, writer, receiver
  <2> QED
    BY <2>1, <2>3, <2>4, Aside
<1>2. CASE Refused(s)
  <2>1. UNCHANGED <<call, answer, mailbox, turn, writer, up, wire, receiver>>
    BY <1>2 DEF Refused
  <2>2. /\ pc' \in [Senders -> {"ready", "fits", "full", "refused", "lined", "blocked"}]
        /\ oked' \subseteq Frames /\ cutOff' \subseteq Frames /\ log' = log
    <3>1. CASE Returns(s, call[s].frame, "Backpressure")
      BY <1>0, <3>1, ReturnsType DEF IInv
    <3>2. CASE pc' = [pc EXCEPT ![s] = "refused"] /\ UNCHANGED history
      BY <3>2 DEF IInv, TypeOK, history
    <3> QED
      BY <1>2, <3>1, <3>2 DEF Refused
  <2>4. TypeOK'
    BY <2>1, <2>2 DEF IInv, TypeOK, writer, receiver
  <2> QED
    BY <2>1, <2>2, <2>4, Aside DEF IInv, CreditIsConsumed
<1>3. CASE Lines(s) \/ Calls(s)
  <2>1. UNCHANGED <<queued, call, answer, turn, writer, up, wire, receiver, history>>
    BY <1>3 DEF Lines, Calls
  <2>2. /\ mailbox' \in Seq(Messages)
        /\ \A i \in DOMAIN mailbox' : mailbox'[i].kind = "credit" => mailbox'[i].total <= consumed
    BY <1>3, SendIInv DEF Lines, Calls
  <2>3. pc' \in [Senders -> {"ready", "fits", "full", "refused", "lined", "blocked"}]
    BY <1>3 DEF Lines, Calls, IInv, TypeOK
  <2>4. TypeOK'
    BY <2>1, <2>2, <2>3 DEF IInv, TypeOK, writer, receiver, history
  <2> QED
    BY <2>1, <2>2, <2>4, Aside DEF history
<1>4. CASE Answered(s)
  <2>1. /\ UNCHANGED <<queued, call, mailbox, turn, writer, up, wire, receiver>>
        /\ answer' = [answer EXCEPT ![s] = "none"]
        /\ Returns(s, call[s].frame, IF answer[s] = "yes" THEN "Ok" ELSE "NoConnection")
    BY <1>4 DEF Answered
  <2>2. TypeOK' /\ log' = log
    BY <1>0, <2>1, ReturnsType DEF IInv, TypeOK, writer, receiver
  <2> QED
    BY <2>1, <2>2, Aside DEF IInv, CreditIsConsumed
<1>5. CASE TimesOut(s)
  <2>1. /\ UNCHANGED <<queued, call, answer, turn, writer, up, wire, receiver>>
        /\ Returns(s, call[s].frame, "Backpressure")
    BY <1>5 DEF TimesOut
  <2>2. /\ mailbox' \in Seq(Messages)
        /\ \A i \in DOMAIN mailbox' : mailbox'[i].kind = "credit" => mailbox'[i].total <= consumed
    BY <1>5, SendIInv DEF TimesOut
  <2>3. TypeOK' /\ log' = log
    BY <1>0, <2>1, <2>2, ReturnsType DEF IInv, TypeOK, writer, receiver
  <2> QED
    BY <2>1, <2>2, <2>3, Aside
<1> QED
  BY <1>1, <1>2, <1>3, <1>4, <1>5 DEF SenderStep

-----------------------------------------------------------------------------
(* The writer takes a message: nothing is written, and a grant is within   *)
(* what was consumed.                                                      *)

\* What the writer knows of the message it takes.
LEMMA TakesFacts ==
  ASSUME IInv, NEW kind, Takes(kind)
  PROVE  /\ turn = "idle" /\ Head(mailbox) \in Messages /\ Head(mailbox).kind = kind
         /\ mailbox' \in Seq(Messages)
         /\ \A i \in DOMAIN mailbox' : mailbox'[i].kind = "credit" => mailbox'[i].total <= consumed
         /\ kind = "credit" => Head(mailbox).total \in Nat /\ Head(mailbox).total <= consumed
         /\ kind \in {"enqueue", "evicting", "waiting", "wait", "withdraw"} => Head(mailbox).frame \in Frames
         /\ UNCHANGED <<pc, call, up, wire, receiver, history>>
<1>1. /\ turn = "idle" /\ mailbox # <<>> /\ Head(mailbox).kind = kind /\ mailbox' = Tail(mailbox)
      /\ UNCHANGED <<pc, call, up, wire, receiver, history>>
  BY DEF Takes
<1>2. /\ Head(mailbox) \in Messages
      /\ Head(mailbox).kind = "credit" => Head(mailbox).total <= consumed
      /\ mailbox' \in Seq(Messages)
      /\ \A i \in DOMAIN mailbox' : mailbox'[i].kind = "credit" => mailbox'[i].total <= consumed
  BY <1>1, TakeKeeps DEF IInv
<1>3. kind = "credit" => Head(mailbox).total \in Nat
  BY <1>1, <1>2 DEF Messages
<1> QED
  BY <1>1, <1>2, <1>3, MessageFrame

\* A turn that begins: what is left to show is the types of what it changed.
LEMMA Begun ==
  ASSUME IInv, NEW kind, Takes(kind), TypeOK', UNCHANGED <<granted, sent>>, turn' \in {"idle", "serve"}
  PROVE  IInv'
<1>1. UNCHANGED <<consumed, log>>
  BY TakesFacts DEF receiver, history
<1>2. \A i \in DOMAIN mailbox' : mailbox'[i].kind = "credit" => mailbox'[i].total <= consumed
  BY TakesFacts
<1> QED
  BY <1>1, <1>2 DEF IInv, InLine, CreditIsConsumed, WindowHeld

\* Lines stay lines of frames, whatever is put in or taken out.
LEMMA AppendType ==
  ASSUME NEW line \in Seq(Frames), NEW f \in Frames PROVE Append(line, f) \in Seq(Frames)
BY AppendProperties

LEMMA RestType ==
  ASSUME NEW line \in Seq(Frames) PROVE Rest(line) \in Seq(Frames)
BY HeadTailProperties, EmptySeq DEF Rest

LEMMA RemoveAtType ==
  ASSUME NEW line \in Seq(Frames), NEW i \in DOMAIN line PROVE RemoveAt(line, i) \in Seq(Frames)
<1>1. DOMAIN line = 1..Len(line) /\ Len(line) \in Nat
  BY LenProperties
<1>2. \A j \in 1..Len(line) : line[j] \in Frames
  BY <1>1, ElementOfSeq
<1>3. SubSeq(line, 1, i - 1) \in Seq(Frames) /\ SubSeq(line, i + 1, Len(line)) \in Seq(Frames)
  BY <1>1, <1>2, SubSeqProperties
<1> QED
  BY <1>3, ConcatProperties DEF RemoveAt

\* One lemma per handler of the writer: it keeps the window.
LEMMA OnEnqueueIInv == ASSUME IInv, OnEnqueue PROVE IInv'
<1>1. Takes("enqueue") /\ UNCHANGED <<answer, granted, sent, waiting, waiters, evicted, dead>>
  BY DEF OnEnqueue
<1>2. /\ turn = "idle" /\ mailbox' \in Seq(Messages) /\ Head(mailbox).frame \in Frames
      /\ UNCHANGED <<pc, call, up, wire, receiver, history>>
  BY <1>1, TakesFacts
<1>3. pending' \in Seq(Frames) /\ turn' \in {"idle", "serve"}
  <2>1. Append(pending, Head(mailbox).frame) \in Seq(Frames)
    BY <1>2, AppendType DEF IInv, TypeOK
  <2> QED
    BY <1>2, <2>1 DEF OnEnqueue, IInv, TypeOK
<1>4. TypeOK'
  BY <1>1, <1>2, <1>3 DEF IInv, TypeOK, receiver, history
<1> QED
  BY <1>1, <1>3, <1>4, Begun

LEMMA OnEnqueueEvictingIInv == ASSUME IInv, OnEnqueueEvicting PROVE IInv'
<1>1. /\ Takes("evicting") /\ turn' = "serve"
      /\ UNCHANGED <<answer, granted, sent, waiting, waiters, dead>>
  BY DEF OnEnqueueEvicting
<1>2. /\ mailbox' \in Seq(Messages) /\ Head(mailbox).frame \in Frames
      /\ UNCHANGED <<pc, call, up, wire, receiver, history>>
  BY <1>1, TakesFacts
<1>3. PICK k \in 0..Len(pending) :
        /\ pending' = Append(SubSeq(pending, k + 1, Len(pending)), Head(mailbox).frame)
        /\ evicted' = evicted \o SubSeq(pending, 1, k)
  BY DEF OnEnqueueEvicting
<1>4. pending \in Seq(Frames) /\ evicted \in Seq(Frames) /\ Len(pending) \in Nat
  BY LenProperties DEF IInv, TypeOK
<1>5. SubSeq(pending, k + 1, Len(pending)) \in Seq(Frames) /\ SubSeq(pending, 1, k) \in Seq(Frames)
  <2>1. \A j \in 1..Len(pending) : pending[j] \in Frames
    BY <1>4, ElementOfSeq
  <2> QED
    BY <1>4, <2>1, SubSeqProperties
<1>6. pending' \in Seq(Frames) /\ evicted' \in Seq(Frames)
  BY <1>2, <1>3, <1>4, <1>5, AppendType, ConcatProperties
<1>7. TypeOK'
  BY <1>1, <1>2, <1>6 DEF IInv, TypeOK, receiver, history
<1> QED
  BY <1>1, <1>7, Begun

LEMMA OnCreditIInv == ASSUME IInv, OnCredit PROVE IInv'
<1> DEFINE g == Head(mailbox).total + Budget
<1>1. /\ Takes("credit") /\ turn' = "serve" /\ granted' = IF g > granted THEN g ELSE granted
      /\ UNCHANGED <<answer, sent, pending, waiting, waiters, evicted, dead>>
  BY DEF OnCredit
<1>2. /\ mailbox' \in Seq(Messages) /\ Head(mailbox).total \in Nat /\ Head(mailbox).total <= consumed
      /\ \A i \in DOMAIN mailbox' : mailbox'[i].kind = "credit" => mailbox'[i].total <= consumed
      /\ UNCHANGED <<pc, call, up, wire, receiver, history>>
  BY <1>1, TakesFacts
<1>3. granted' \in Nat /\ granted' - Budget <= consumed
  <2>1. g \in Nat /\ g - Budget <= consumed
    BY <1>2, Numbers DEF IInv
  <2>2. granted \in Nat /\ granted - Budget <= consumed
    BY Numbers DEF IInv, CreditIsConsumed
  <2> HIDE DEF g
  <2> QED
    BY <1>1, <2>1, <2>2
<1>4. TypeOK'
  BY <1>1, <1>2, <1>3 DEF IInv, TypeOK, receiver, history
<1>5. consumed' = consumed /\ log' = log
  BY <1>2 DEF receiver, history
<1> QED
  BY <1>1, <1>2, <1>3, <1>4, <1>5 DEF IInv, InLine, CreditIsConsumed, WindowHeld

LEMMA LineIInv == ASSUME IInv, OnWaiting \/ OnWait \/ OnWithdraw \/ OnClose PROVE IInv'
<1>1. CASE OnWaiting
  <2>1. /\ Takes("waiting") /\ turn' = "serve" /\ waiting' = Append(waiting, Head(mailbox).frame)
        /\ UNCHANGED <<answer, granted, sent, pending, waiters, evicted, dead>>
    BY <1>1 DEF OnWaiting
  <2>2. /\ mailbox' \in Seq(Messages) /\ Head(mailbox).frame \in Frames
        /\ UNCHANGED <<pc, call, up, wire, receiver, history>>
    BY <2>1, TakesFacts
  <2>3. waiting' \in Seq(Frames)
    BY <2>1, <2>2, AppendType DEF IInv, TypeOK
  <2>4. TypeOK'
    BY <2>1, <2>2, <2>3 DEF IInv, TypeOK, receiver, history
  <2> QED
    BY <2>1, <2>4, Begun
<1>2. CASE OnWait
  <2>1. Takes("wait") /\ UNCHANGED <<granted, sent, pending, waiting, evicted, dead>>
    BY <1>2 DEF OnWait
  <2>2. /\ turn = "idle" /\ mailbox' \in Seq(Messages) /\ Head(mailbox).frame \in Frames
        /\ UNCHANGED <<pc, call, up, wire, receiver, history>>
    BY <2>1, TakesFacts
  <2>3. Append(waiters, Head(mailbox).frame) \in Seq(Frames)
    BY <2>2, AppendType DEF IInv, TypeOK
  <2>4. waiters' \in Seq(Frames) /\ turn' \in {"idle", "serve"}
    BY <1>2, <2>2, <2>3 DEF OnWait, IInv, TypeOK
  <2>5. answer' \in [Senders -> {"none", "yes", "no"}]
    BY <1>2, ReplyType DEF OnWait, IInv, TypeOK
  <2>6. TypeOK'
    BY <2>1, <2>2, <2>4, <2>5 DEF IInv, TypeOK, receiver, history
  <2> QED
    BY <2>1, <2>4, <2>6, Begun
<1>3. CASE OnWithdraw
  <2>1. Takes("withdraw") /\ UNCHANGED <<turn, granted, sent, pending, evicted, dead>>
    BY <1>3 DEF OnWithdraw
  <2>2. /\ turn = "idle" /\ mailbox' \in Seq(Messages)
        /\ UNCHANGED <<pc, call, up, wire, receiver, history>>
    BY <2>1, TakesFacts
  <2>3. waiting' \in Seq(Frames)
    BY <1>3, RemoveAtType DEF OnWithdraw, IInv, TypeOK
  <2>4. waiters' \in Seq(Frames)
    BY <1>3, RestType DEF OnWithdraw, IInv, TypeOK
  <2>5. answer' \in [Senders -> {"none", "yes", "no"}]
    BY <1>3, ReplyType DEF OnWithdraw, IInv, TypeOK
  <2>6. TypeOK'
    BY <2>1, <2>2, <2>3, <2>4, <2>5 DEF IInv, TypeOK, receiver, history
  <2> QED
    BY <2>1, <2>2, <2>6, Begun
<1>4. CASE OnClose
  <2>1. /\ Takes("close") /\ dead' = TRUE /\ pending' = <<>> /\ turn' = "serve"
        /\ UNCHANGED <<answer, granted, sent, waiting, waiters, evicted>>
    BY <1>4 DEF OnClose
  <2>2. /\ mailbox' \in Seq(Messages)
        /\ UNCHANGED <<pc, call, up, wire, receiver, history>>
    BY <2>1, TakesFacts
  <2>3. pending' \in Seq(Frames)
    BY <2>1, EmptySeq
  <2>4. TypeOK'
    BY <2>1, <2>2, <2>3 DEF IInv, TypeOK, receiver, history
  <2> QED
    BY <2>1, <2>4, Begun
<1> QED
  BY <1>1, <1>2, <1>3, <1>4

-----------------------------------------------------------------------------
(* The writer's own steps, and the connection's.                           *)

\* What was put behind a line is its last.
LEMMA LastOfAppend ==
  ASSUME NEW line \in Seq(Frames), NEW f \in Frames
  PROVE  Append(line, f) # <<>> /\ Last(Append(line, f)) = f
<1>1. /\ Append(line, f) \in Seq(Frames) /\ Len(Append(line, f)) = Len(line) + 1
      /\ Append(line, f)[Len(line) + 1] = f /\ Len(line) \in Nat
  BY AppendProperties, LenProperties
<1> QED
  BY <1>1, EmptySeq DEF Last

\* What lets a frame go: either credit covers it, or all but less than a quarter
\* of the budget has been consumed.
LEMMA WritesIInv == ASSUME IInv, Writes PROVE IInv'
<1> DEFINE f == Head(pending)
<1>1. /\ turn = "serve" /\ MayWrite
      /\ UNCHANGED <<sender, mailbox, turn, granted, waiting, waiters, evicted, up, receiver, oked, cutOff>>
  BY DEF Writes
<1>2. f \in Frames /\ Tail(pending) \in Seq(Frames) /\ f.len \in Nat
  <2>1. pending # <<>> /\ pending \in Seq(Frames)
    BY <1>1 DEF MayWrite, IInv, TypeOK
  <2> QED
    BY <2>1, HeadFrame
<1>3. CASE /\ pending' = Tail(pending) /\ sent' = sent + f.len
           /\ wire' = (IF up THEN Append(wire, f) ELSE wire)
           /\ log' = Append(log, f) /\ UNCHANGED dead
  <2>1. wire' \in Seq(Frames) /\ log' \in Seq(Frames)
    BY <1>2, <1>3, AppendType DEF IInv, TypeOK
  <2>2. sent' \in Nat
    <3>1. sent \in Nat
      BY Numbers DEF IInv
    <3>2. sent' = sent + f.len /\ f.len \in Nat
      BY <1>2, <1>3
    <3> HIDE DEF f
    <3> QED
      BY <3>1, <3>2
  <2>3. TypeOK'
    BY <1>1, <1>2, <1>3, <2>1, <2>2 DEF IInv, TypeOK, sender, receiver
  <2>4. log' # <<>> /\ Last(log').len = f.len
    BY <1>2, <1>3, LastOfAppend DEF IInv, TypeOK
  <2>5. sent + f.len <= granted \/ sent - (granted - Budget) < Budget \div 4
    BY <1>1 DEF MayWrite
  <2>6. granted - Budget <= consumed /\ consumed' = consumed
    BY <1>1 DEF IInv, CreditIsConsumed, receiver
  <2>7. WindowHeld'
    <3>1. /\ sent \in Nat /\ granted \in Nat /\ consumed \in Nat /\ Budget \in Nat
          /\ Budget \div 4 \in Int
      BY ConstantsAssumption DEF IInv, TypeOK
    <3>2. CASE sent + f.len <= granted
      BY <1>2, <1>3, <2>6, <3>1, <3>2 DEF WindowHeld
    <3>3. CASE sent - (granted - Budget) < Budget \div 4
      <4>1. (sent' - Last(log').len) - consumed' = sent - consumed
        BY <1>2, <1>3, <2>4, <2>6, <3>1
      <4>2. sent - consumed < Budget \div 4
        BY <2>6, <3>1, <3>3
      <4> QED
        BY <2>4, <4>1, <4>2 DEF WindowHeld
    <3> QED
      BY <2>5, <3>2, <3>3
  <2> QED
    BY <1>1, <2>3, <2>6, <2>7 DEF IInv, InLine, CreditIsConsumed
<1>4. CASE dead' = TRUE /\ UNCHANGED <<pending, sent, queued, wire, log>>
  <2>1. TypeOK'
    BY <1>1, <1>4 DEF IInv, TypeOK, sender, receiver
  <2> QED
    BY <1>1, <1>4, <2>1 DEF IInv, InLine, CreditIsConsumed, WindowHeld, receiver
<1> QED
  BY <1>3, <1>4 DEF Writes

\* Admitting from the line writes nothing.
LEMMA ServeIInv == ASSUME IInv, SendsAway \/ LooksForRoom \/ AdmitsFromLine PROVE IInv'
<1>1. CASE SendsAway
  <2>1. /\ waiting' = <<>> /\ waiters' = <<>> /\ turn' = "idle"
        /\ UNCHANGED <<pc, call, mailbox, granted, sent, pending, evicted, dead, up, wire, receiver, history>>
    BY <1>1 DEF SendsAway
  <2>2. answer' \in [Senders -> {"none", "yes", "no"}]
    BY <1>1, ReplyType DEF SendsAway, IInv
  <2>3. waiting' \in Seq(Frames) /\ waiters' \in Seq(Frames)
    BY <2>1, EmptySeq
  <2>4. TypeOK'
    BY <2>1, <2>2, <2>3 DEF IInv, TypeOK, receiver, history
  <2> QED
    BY <2>1, <2>4 DEF IInv, InLine, CreditIsConsumed, WindowHeld, receiver, history
<1>2. CASE LooksForRoom
  <2>1. /\ turn' \in {"idle", "serve", "charge"} /\ (turn' = "charge" => waiting # <<>>)
        /\ UNCHANGED <<sender, mailbox, writer, up, wire, receiver, history>>
    BY <1>2 DEF LooksForRoom
  <2>2. TypeOK'
    BY <2>1 DEF IInv, TypeOK, sender, writer, receiver, history
  <2> QED
    BY <2>1, <2>2 DEF IInv, InLine, CreditIsConsumed, WindowHeld, writer, receiver, history
<1>3. CASE AdmitsFromLine
  <2>1. /\ turn = "charge" /\ turn' = "serve" /\ pending' = Append(pending, Head(waiting))
        /\ waiting' = Tail(waiting) /\ waiters' = Rest(waiters)
        /\ UNCHANGED <<pc, call, mailbox, granted, sent, evicted, dead, up, wire, receiver, history>>
    BY <1>3 DEF AdmitsFromLine
  <2>2. answer' \in [Senders -> {"none", "yes", "no"}]
    BY <1>3, ReplyType DEF AdmitsFromLine, IInv
  <2>3. Head(waiting) \in Frames /\ waiting' \in Seq(Frames)
    BY <2>1, HeadTailProperties DEF IInv, InLine, TypeOK
  <2>4. pending' \in Seq(Frames) /\ waiters' \in Seq(Frames)
    BY <2>1, <2>3, AppendType, RestType DEF IInv, TypeOK
  <2>5. TypeOK'
    BY <2>1, <2>2, <2>3, <2>4 DEF IInv, TypeOK, receiver, history
  <2> QED
    BY <2>1, <2>5 DEF IInv, InLine, CreditIsConsumed, WindowHeld, receiver, history
<1> QED
  BY <1>1, <1>2, <1>3

\* More consumed is less under way.
LEMMA LessUnderWay ==
  ASSUME NEW out \in Nat, NEW c \in Nat, NEW d \in Nat, NEW b \in Nat, c <= d, out - c <= b
  PROVE  out - d <= b
OBVIOUS

\* The same of the bound on what was under way before the last frame.
LEMMA StillLessUnderWay ==
  ASSUME NEW out \in Int, NEW c \in Nat, NEW d \in Nat, NEW b \in Int, c <= d, out - c < b
  PROVE  out - d < b
OBVIOUS

\* Consumption only widens the window; what is announced is what was consumed.
LEMMA ConsumesIInv == ASSUME IInv, Consumes PROVE IInv'
<1>1. /\ wire # <<>> /\ wire' = Tail(wire) /\ consumed' = consumed + Head(wire).len
      /\ UNCHANGED <<queued, sender, turn, writer, up, history>>
  BY DEF Consumes
<1>2. Head(wire).len \in Nat /\ wire' \in Seq(Frames)
  BY <1>1, HeadFrame DEF IInv, TypeOK
<1>3. consumed' \in Nat /\ consumed <= consumed'
  <2>1. consumed \in Nat
    BY Numbers DEF IInv
  <2> QED
    BY <1>1, <1>2, <2>1
<1>4. /\ announced' \in Nat /\ mailbox' \in Seq(Messages)
      /\ \A i \in DOMAIN mailbox' : mailbox'[i].kind = "credit" => mailbox'[i].total <= consumed'
  <2>1. CASE announced' = consumed' /\ mailbox' = Append(mailbox, [kind |-> "credit", total |-> consumed'])
    <3>1. [kind |-> "credit", total |-> consumed'] \in Messages
      BY <1>3 DEF Messages
    <3>2. /\ mailbox \in Seq(Messages) /\ DOMAIN mailbox = 1..Len(mailbox) /\ Len(mailbox) \in Nat
          /\ consumed \in Nat
      BY LenProperties DEF IInv, TypeOK
    <3>3. /\ mailbox' \in Seq(Messages) /\ DOMAIN mailbox' = 1..(Len(mailbox) + 1)
          /\ \A i \in 1..Len(mailbox) : mailbox'[i] = mailbox[i]
          /\ mailbox'[Len(mailbox) + 1] = [kind |-> "credit", total |-> consumed']
      BY <2>1, <3>1, <3>2, AppendProperties, LenProperties
    <3>4. \A i \in 1..Len(mailbox) : mailbox[i].kind = "credit" =>
             mailbox[i].total \in Nat /\ mailbox[i].total <= consumed
      BY <3>2, ElementOfSeq DEF IInv, CreditIsConsumed, Messages
    <3> QED
      BY <1>3, <2>1, <3>2, <3>3, <3>4
  <2>2. CASE UNCHANGED <<announced, mailbox>>
    <3>1. \A i \in DOMAIN mailbox : mailbox[i].kind = "credit" => mailbox[i].total \in Nat
      <4>1. mailbox \in Seq(Messages) /\ DOMAIN mailbox = 1..Len(mailbox)
        BY LenProperties DEF IInv, TypeOK
      <4>2. \A i \in DOMAIN mailbox : mailbox[i] \in Messages
        BY <4>1, ElementOfSeq
      <4> QED
        BY <4>2 DEF Messages
    <3> QED
      BY <1>3, <2>2, <3>1 DEF IInv, CreditIsConsumed, TypeOK
  <2> QED
    BY <2>1, <2>2 DEF Consumes
<1>5. TypeOK'
  BY <1>1, <1>2, <1>3, <1>4 DEF IInv, TypeOK, sender, writer, history
<1>6. CreditIsConsumed' /\ InLine'
  <2>1. granted' = granted /\ turn' = turn /\ waiting' = waiting
    BY <1>1 DEF writer
  <2>2. granted \in Nat /\ Budget \in Nat /\ consumed \in Nat /\ granted - Budget <= consumed
    BY Numbers DEF IInv, CreditIsConsumed
  <2>3. granted' - Budget <= consumed'
    BY <1>3, <2>1, <2>2
  <2> QED
    BY <1>4, <2>1, <2>3 DEF IInv, CreditIsConsumed, InLine
<1>7. WindowHeld'
  <2>1. CASE sent - consumed <= Budget
    <3>1. sent \in Nat /\ consumed \in Nat /\ Budget \in Nat
      BY Numbers DEF IInv
    <3>2. sent' = sent
      BY <1>1 DEF writer
    <3>3. sent' - consumed' <= Budget
      BY <1>3, <2>1, <3>1, <3>2, LessUnderWay
    <3> QED
      BY <3>3 DEF WindowHeld
  <2>2. CASE log # <<>> /\ (sent - Last(log).len) - consumed < Budget \div 4
    <3>1. Last(log).len \in Nat
      BY <2>2, LastFrame DEF IInv, TypeOK
    <3>2. sent' = sent /\ log' = log
      BY <1>1 DEF writer, history
    <3>3. (sent - Last(log).len) - consumed' < Budget \div 4
      <4>1. sent \in Nat /\ consumed \in Nat /\ Budget \div 4 \in Int
        BY Numbers DEF IInv
      <4>2. sent - Last(log).len \in Int
        BY <3>1, <4>1
      <4> QED
        BY <1>3, <2>2, <4>1, <4>2, StillLessUnderWay
    <3> QED
      BY <2>2, <3>2, <3>3 DEF WindowHeld
  <2> QED
    BY <2>1, <2>2 DEF IInv, WindowHeld
<1> QED
  BY <1>5, <1>6, <1>7 DEF IInv

\* A connection that ends writes nothing.
LEMMA ConnectionIInv == ASSUME IInv, Breaks \/ OwnerCloses PROVE IInv'
<1>1. CASE Breaks
  <2>1. up' = FALSE /\ wire' = <<>> /\ UNCHANGED <<sender, mailbox, turn, writer, receiver, history>>
    BY <1>1 DEF Breaks
  <2>2. TypeOK'
    BY <2>1, EmptySeq DEF IInv, TypeOK, sender, writer, receiver, history
  <2> QED
    BY <2>1, <2>2 DEF IInv, InLine, CreditIsConsumed, WindowHeld, writer, receiver, history
<1>2. CASE OwnerCloses
  <2>1. /\ mailbox' = Append(mailbox, [kind |-> "close"])
        /\ UNCHANGED <<sender, turn, writer, up, wire, receiver, history>>
    BY <1>2 DEF OwnerCloses
  <2>2. /\ mailbox' \in Seq(Messages)
        /\ \A i \in DOMAIN mailbox' : mailbox'[i].kind = "credit" => mailbox'[i].total <= consumed
    <3>1. [kind |-> "close"] \in Messages /\ [kind |-> "close"].kind # "credit"
      BY DEF Messages
    <3> QED
      BY <2>1, <3>1, SendKeeps DEF IInv
  <2>3. TypeOK'
    BY <2>1, <2>2 DEF IInv, TypeOK, sender, writer, receiver, history
  <2> QED
    BY <2>1, <2>2, <2>3, Aside DEF history
<1> QED
  BY <1>1, <1>2

\* Every step keeps types and window.
LEMMA NextIInv == IInv /\ [Next]_vars => IInv'
<1> SUFFICES ASSUME IInv, [Next]_vars PROVE IInv'
  OBVIOUS
<1>1. ASSUME NEW s \in Senders, Charge(s) \/ SenderStep(s) \/ TimesOut(s) PROVE IInv'
  BY <1>1, ChargeIInv, SenderIInv
<1>2. CASE WriterStep
  BY <1>2, OnEnqueueIInv, OnEnqueueEvictingIInv, OnCreditIInv, LineIInv, WritesIInv, ServeIInv DEF WriterStep
<1>3. CASE Consumes \/ Breaks \/ OwnerCloses
  BY <1>3, ConsumesIInv, ConnectionIInv
<1>4. CASE UNCHANGED vars
  BY <1>4 DEF vars, sender, writer, receiver, history, IInv, TypeOK, InLine, CreditIsConsumed, WindowHeld
<1> QED
  BY <1>1, <1>2, <1>3, <1>4 DEF Next

\* Every variable keeps its type, whatever is sent, refused, withdrawn or lost.
THEOREM NodeQueueTypes == Spec => []TypeOK
<1>1. IInv => TypeOK
  BY DEF IInv
<1> QED
  BY InitIInv, NextIInv, <1>1, PTL DEF Spec

\* Flow control: whatever the senders ask and whenever the receiver announces,
\* no more than a budget is in flight, or one frame after less than a quarter
\* of it (NodeQueue.may_write, drain and consumed).
THEOREM WindowAlwaysHeld == Spec => []WindowHeld
<1>1. IInv => WindowHeld
  BY DEF IInv
<1> QED
  BY InitIInv, NextIInv, <1>1, PTL DEF Spec

-----------------------------------------------------------------------------
(* The shared counter.  On a dead connection it may keep what was charged  *)
(* for frames that are let go, so it is bounded below there, and exact     *)
(* while the connection lives.                                             *)

MailSum == SumFunction(MailCharges)
CallSum == SumFunction(CallCharges)
Charged == Bytes(pending) + MailSum + CallSum

Ledger ==
    /\ queued \in Int /\ queued >= Charged
    /\ ~dead => queued = Charged
    /\ up => sent - consumed = Bytes(wire)

Lengths == [f \in Frames |-> f.len]

ChargeOf(m) == IF m.kind \in {"enqueue", "evicting"} THEN m.frame.len ELSE 0
Charges == [m \in Messages |-> ChargeOf(m)]

ChargeBy(s) == IF pc[s] \in {"fits", "full"} THEN call[s].frame.len ELSE 0

\* Frames weigh their length.
LEMMA LengthsType == Lengths \in [Frames -> Int] /\ Lengths \in [Frames -> Nat]
BY FrameLen DEF Lengths

\* Messages weigh what they carry of the counter.
LEMMA ChargesType == Charges \in [Messages -> Int] /\ Charges \in [Messages -> Nat]
<1>1. ASSUME NEW m \in Messages PROVE ChargeOf(m) \in Nat
  <2>1. m.kind \in {"enqueue", "evicting"} => m.frame.len \in Nat
    BY MessageFrame, FrameLen
  <2> QED
    BY <2>1 DEF ChargeOf
<1> QED
  BY <1>1 DEF Charges

\* The bytes of a line are its weight.
LEMMA BytesWeigh == ASSUME NEW line \in Seq(Frames) PROVE Bytes(line) = Weight(Lengths, line)
<1>1. DOMAIN line = 1..Len(line) /\ \A i \in 1..Len(line) : line[i] \in Frames
  BY LenProperties, ElementOfSeq
<1>2. [i \in DOMAIN line |-> line[i].len] = Weigh(Lengths, line)
  BY <1>1 DEF Weigh, Lengths
<1> QED
  BY <1>2 DEF Bytes, Weight

\* So they are a number, and add up as weights do.
LEMMA BytesType == ASSUME NEW line \in Seq(Frames) PROVE Bytes(line) \in Nat
BY BytesWeigh, LengthsType, WeightType

LEMMA BytesNone == Bytes(<<>>) = 0
BY BytesWeigh, WeightEmpty, EmptySeq

LEMMA BytesAppend ==
  ASSUME NEW line \in Seq(Frames), NEW f \in Frames
  PROVE  Bytes(Append(line, f)) = Bytes(line) + f.len
<1>1. Append(line, f) \in Seq(Frames) /\ Lengths[f] = f.len
  BY AppendProperties DEF Lengths
<1> QED
  BY <1>1, BytesWeigh, LengthsType, WeightAppend

LEMMA BytesTail ==
  ASSUME NEW line \in Seq(Frames), line # <<>>
  PROVE  Bytes(line) = Head(line).len + Bytes(Tail(line))
<1>1. Tail(line) \in Seq(Frames) /\ Head(line) \in Frames
  BY HeadTailProperties
<1>2. Lengths[Head(line)] = Head(line).len
  BY <1>1 DEF Lengths
<1> QED
  BY <1>1, <1>2, BytesWeigh, LengthsType, WeightTail

LEMMA BytesSplit ==
  ASSUME NEW line \in Seq(Frames), NEW k \in 0..Len(line)
  PROVE  /\ SubSeq(line, 1, k) \in Seq(Frames) /\ SubSeq(line, k + 1, Len(line)) \in Seq(Frames)
         /\ Bytes(line) = Bytes(SubSeq(line, 1, k)) + Bytes(SubSeq(line, k + 1, Len(line)))
<1>1. /\ SubSeq(line, 1, k) \in Seq(Frames) /\ SubSeq(line, k + 1, Len(line)) \in Seq(Frames)
      /\ Weight(Lengths, line)
           = Weight(Lengths, SubSeq(line, 1, k)) + Weight(Lengths, SubSeq(line, k + 1, Len(line)))
  BY LengthsType, WeightSplit
<1> QED
  BY <1>1, BytesWeigh

\* The bytes in the mailbox are its weight.
LEMMA MailWeigh == ASSUME TypeOK PROVE MailSum = Weight(Charges, mailbox)
<1>1. DOMAIN mailbox = 1..Len(mailbox) /\ \A i \in 1..Len(mailbox) : mailbox[i] \in Messages
  BY LenProperties, ElementOfSeq DEF TypeOK
<1>2. MailCharges = Weigh(Charges, mailbox)
  BY <1>1 DEF MailCharges, Weigh, Charges, ChargeOf
<1> QED
  BY <1>2 DEF MailSum, Weight

\* So they are a number.
LEMMA MailType == ASSUME TypeOK PROVE MailSum \in Nat
<1>1. mailbox \in Seq(Messages) /\ Nat \in {Nat, Int}
  BY DEF TypeOK
<1>2. Weight(Charges, mailbox) \in Nat
  BY <1>1, ChargesType, WeightType
<1> QED
  BY <1>2, MailWeigh

\* They change with the mailbox only.
LEMMA MailSame == ASSUME UNCHANGED mailbox PROVE MailSum' = MailSum
BY DEF MailSum, MailCharges

\* A message sent adds its charge.
LEMMA MailSent ==
  ASSUME TypeOK, TypeOK', NEW m \in Messages, mailbox' = Append(mailbox, m)
  PROVE  MailSum' = MailSum + ChargeOf(m)
<1>1. MailSum' = Weight(Charges, mailbox')
  <2>1. DOMAIN mailbox' = 1..Len(mailbox') /\ \A i \in 1..Len(mailbox') : mailbox'[i] \in Messages
    BY LenProperties, ElementOfSeq DEF TypeOK
  <2>2. MailCharges' = Weigh(Charges, mailbox')
    BY <2>1 DEF MailCharges, Weigh, Charges, ChargeOf
  <2> QED
    BY <2>2 DEF MailSum, Weight
<1>2. Weight(Charges, Append(mailbox, m)) = Weight(Charges, mailbox) + Charges[m]
  <2>1. mailbox \in Seq(Messages)
    BY DEF TypeOK
  <2> QED
    BY <2>1, ChargesType, WeightAppend
<1>3. Charges[m] = ChargeOf(m)
  BY DEF Charges
<1> QED
  BY <1>1, <1>2, <1>3, MailWeigh

\* A message taken takes its charge along.
LEMMA MailTaken ==
  ASSUME TypeOK, TypeOK', mailbox # <<>>, mailbox' = Tail(mailbox)
  PROVE  MailSum = ChargeOf(Head(mailbox)) + MailSum'
<1>1. MailSum' = Weight(Charges, mailbox')
  <2>1. DOMAIN mailbox' = 1..Len(mailbox') /\ \A i \in 1..Len(mailbox') : mailbox'[i] \in Messages
    BY LenProperties, ElementOfSeq DEF TypeOK
  <2>2. MailCharges' = Weigh(Charges, mailbox')
    BY <2>1 DEF MailCharges, Weigh, Charges, ChargeOf
  <2> QED
    BY <2>2 DEF MailSum, Weight
<1>2. Weight(Charges, mailbox) = Charges[Head(mailbox)] + Weight(Charges, Tail(mailbox))
  BY ChargesType, WeightTail DEF TypeOK
<1>3. Charges[Head(mailbox)] = ChargeOf(Head(mailbox))
  <2>1. Head(mailbox) \in Messages
    BY HeadTailProperties DEF TypeOK
  <2> QED
    BY <2>1 DEF Charges
<1> QED
  BY <1>1, <1>2, <1>3, MailWeigh

\* What a call has charged is a number.
LEMMA ChargeByType == ASSUME TypeOK, NEW s \in Senders PROVE ChargeBy(s) \in Nat
BY CallType, FrameLen DEF ChargeBy

\* So is what all calls have.
LEMMA CallSumType == ASSUME TypeOK PROVE CallSum \in Nat
<1>1. DOMAIN CallCharges = Senders /\ \A s \in Senders : CallCharges[s] = ChargeBy(s)
  BY DEF CallCharges, ChargeBy
<1>2. \A s \in Senders : CallCharges[s] \in Nat
  BY <1>1, ChargeByType
<1> QED
  BY <1>1, <1>2, SumType, ConstantsAssumption DEF CallSum, SumFunction

\* It changes with the calls only.
LEMMA CallsSame == ASSUME UNCHANGED <<pc, call>> PROVE CallSum' = CallSum
BY DEF CallSum, CallCharges

\* One caller's step changes the sum by what that caller charges.
LEMMA CallChanged ==
  ASSUME TypeOK, TypeOK', NEW s \in Senders,
         \A t \in Senders \ {s} : pc'[t] = pc[t] /\ call'[t] = call[t]
  PROVE  CallSum' = CallSum - ChargeBy(s) + ChargeBy(s)'
<1> DEFINE w == CallCharges
           v == CallCharges'
<1>1. DOMAIN w = Senders /\ DOMAIN v = Senders
      /\ \A t \in Senders : w[t] = ChargeBy(t) /\ v[t] = ChargeBy(t)'
  BY DEF CallCharges, ChargeBy
<1>2. \A t \in Senders : w[t] \in Int
  BY <1>1, ChargeByType
<1>3. v[s] \in Int
  <2>1. call'[s].frame \in Frames
    BY DEF TypeOK
  <2> QED
    BY <1>1, <2>1, FrameLen DEF ChargeBy
<1>4. \A t \in Senders \ {s} : v[t] = w[t]
  BY <1>1 DEF ChargeBy
<1>5. CallSum = SumFunctionOnSet(w, Senders) /\ CallSum' = SumFunctionOnSet(v, Senders)
  BY <1>1 DEF CallSum, SumFunction
<1>6. w[s] = ChargeBy(s) /\ v[s] = ChargeBy(s)'
  BY <1>1
<1> HIDE DEF w, v
<1>7. SumFunctionOnSet(v, Senders) = SumFunctionOnSet(w, Senders) - w[s] + v[s]
  BY <1>2, <1>3, <1>4, ConstantsAssumption, SumChange
<1> QED
  BY <1>5, <1>6, <1>7

\* All the sums of the ledger are numbers.
LEMMA Sums ==
  ASSUME TypeOK
  PROVE  /\ Bytes(pending) \in Nat /\ Bytes(wire) \in Nat /\ MailSum \in Nat /\ CallSum \in Nat
         /\ sent \in Nat /\ consumed \in Nat
BY BytesType, MailType, CallSumType DEF TypeOK

\* Neither the writer's frames nor the wire: charges only change hands.
LEMMA LedgerAside ==
  ASSUME TypeOK, Ledger, UNCHANGED <<pending, dead, up, wire, sent, consumed>>,
         NEW d \in Int, queued' = queued + d, MailSum' + CallSum' = MailSum + CallSum + d,
         MailSum' \in Int, CallSum' \in Int
  PROVE  Ledger'
<1>1. Bytes(pending)' = Bytes(pending) /\ Bytes(wire)' = Bytes(wire)
  BY DEF Bytes
<1>2. Charged' = Charged + d /\ Charged \in Int
  BY <1>1, Sums DEF Charged
<1> QED
  BY <1>1, <1>2 DEF Ledger

\* What a caller's message charges.
LEMMA ChargeOfSent ==
  ASSUME NEW kind, NEW f
  PROVE  ChargeOf([kind |-> kind, frame |-> f]) = IF kind \in {"enqueue", "evicting"} THEN f.len ELSE 0
BY DEF ChargeOf

\* A caller's frame, in any of the messages a caller sends.
LEMMA CallFrameMessage ==
  ASSUME TypeOK, NEW s \in Senders, NEW kind \in {"enqueue", "evicting", "waiting", "wait", "withdraw"}
  PROVE  [kind |-> kind, frame |-> call[s].frame] \in Messages
BY CallType DEF Messages

\* A message sent adds its frame to the bytes in the mailbox, if it carries one.
LEMMA SendCharges ==
  ASSUME TypeOK, TypeOK', NEW s \in Senders,
         NEW kind \in {"enqueue", "evicting", "waiting", "wait", "withdraw"}, Send(kind, call[s].frame)
  PROVE  MailSum' = MailSum + IF kind \in {"enqueue", "evicting"} THEN call[s].frame.len ELSE 0
<1>1. [kind |-> kind, frame |-> call[s].frame] \in Messages
  BY CallFrameMessage
<1>2. MailSum' = MailSum + ChargeOf([kind |-> kind, frame |-> call[s].frame])
  BY <1>1, MailSent DEF Send
<1> QED
  BY <1>2, ChargeOfSent

\* A call that moves on, or ends.
LEMMA PcMoves ==
  ASSUME TypeOK, TypeOK', NEW s \in Senders, NEW where \in {"ready", "refused", "lined", "blocked"},
         pc' = [pc EXCEPT ![s] = where], call' = call
  PROVE  CallSum' = CallSum - ChargeBy(s)
<1>1. ChargeBy(s)' = 0
  BY DEF TypeOK, ChargeBy
<1>2. CallSum' = CallSum - ChargeBy(s) + ChargeBy(s)'
  <2>1. \A t \in Senders \ {s} : pc'[t] = pc[t] /\ call'[t] = call[t]
    BY DEF TypeOK
  <2> QED
    BY <2>1, CallChanged
<1> QED
  BY <1>1, <1>2, ChargeByType, Sums

\* A call that charges the counter has charged it.
LEMMA ChargeLedger == ASSUME TypeOK, TypeOK', Ledger, NEW s \in Senders, Charge(s) PROVE Ledger'
<1>1. PICK n \in DOMAIN Requests[s] : \E r \in Requests[s][n] :
         /\ call' = [call EXCEPT ![s] =
               [policy |-> r.policy, frame |-> [from |-> s, n |-> n, len |-> r.len]]]
         /\ queued' = queued + r.len
         /\ pc' = [pc EXCEPT ![s] = IF Fits(queued, r.len) THEN "fits" ELSE "full"]
  BY DEF Charge
<1>2. PICK r \in Requests[s][n] :
         /\ call' = [call EXCEPT ![s] =
               [policy |-> r.policy, frame |-> [from |-> s, n |-> n, len |-> r.len]]]
         /\ queued' = queued + r.len
         /\ pc' = [pc EXCEPT ![s] = IF Fits(queued, r.len) THEN "fits" ELSE "full"]
  BY <1>1
<1>3. /\ pc[s] = "ready"
      /\ UNCHANGED <<answer, mailbox, turn, writer, up, wire, receiver, history>>
  BY DEF Charge
<1>4. pc'[s] \in {"fits", "full"} /\ call'[s].frame.len = r.len
  BY <1>2 DEF TypeOK
<1>5. r.len \in Nat
  <2>1. call'[s].frame \in Frames
    BY DEF TypeOK
  <2> QED
    BY <1>4, <2>1, FrameLen
<1>6. ChargeBy(s) = 0 /\ ChargeBy(s)' = r.len
  BY <1>3, <1>4 DEF ChargeBy
<1>7. CallSum' = CallSum - ChargeBy(s) + ChargeBy(s)'
  <2>1. \A t \in Senders \ {s} : pc'[t] = pc[t] /\ call'[t] = call[t]
    BY <1>2 DEF TypeOK
  <2> QED
    BY <2>1, CallChanged
<1>8. MailSum' = MailSum
  BY <1>3, MailSame
<1>9. UNCHANGED <<pending, dead, up, wire, sent, consumed>>
  BY <1>3 DEF writer, receiver
<1>10. MailSum' + CallSum' = MailSum + CallSum + r.len /\ MailSum' \in Int /\ CallSum' \in Int
  BY <1>5, <1>6, <1>7, <1>8, Sums
<1>11. queued' = queued + r.len /\ r.len \in Int
  BY <1>2, <1>5
<1> QED
  BY <1>9, <1>10, <1>11, LedgerAside

\* What a call has charged goes into the mailbox with its frame, or is taken back.
LEMMA SenderLedger ==
  ASSUME TypeOK, TypeOK', Ledger, NEW s \in Senders, SenderStep(s) \/ TimesOut(s) PROVE Ledger'
<1> DEFINE len == call[s].frame.len
<1>0. len \in Nat /\ queued \in Int
  BY CallType, FrameLen DEF Ledger
<1>1. CASE Admitted(s)
  <2>1. /\ pc[s] \in {"fits", "full"} /\ pc' = [pc EXCEPT ![s] = "ready"]
        /\ UNCHANGED <<queued, call, answer, turn, writer, up, wire, receiver>>
    BY <1>1 DEF Admitted, Returns
  <2>2. MailSum' = MailSum + len
    <3>1. CASE Send("enqueue", call[s].frame)
      BY <3>1, SendCharges
    <3>2. CASE Send("evicting", call[s].frame)
      BY <3>2, SendCharges
    <3> QED
      BY <1>1, <3>1, <3>2 DEF Admitted
  <2>3. CallSum' = CallSum - len
    <3>1. ChargeBy(s) = len
      BY <2>1 DEF ChargeBy
    <3>2. CallSum' = CallSum - ChargeBy(s)
      BY <2>1, PcMoves
    <3> QED
      BY <3>1, <3>2
  <2>4. UNCHANGED <<pending, dead, up, wire, sent, consumed>>
    BY <2>1 DEF writer, receiver
  <2> HIDE DEF len
  <2>5. /\ MailSum' + CallSum' = MailSum + CallSum + 0 /\ MailSum' \in Int /\ CallSum' \in Int
        /\ queued' = queued + 0
    BY <1>0, <2>1, <2>2, <2>3, Sums
  <2> QED
    BY <2>4, <2>5, LedgerAside
<1>2. CASE Refused(s)
  <2>1. /\ pc[s] = "full" /\ queued' = queued - len
        /\ UNCHANGED <<call, answer, mailbox, turn, writer, up, wire, receiver>>
    BY <1>2 DEF Refused
  <2>2. pc' = [pc EXCEPT ![s] = "ready"] \/ pc' = [pc EXCEPT ![s] = "refused"]
    BY <1>2 DEF Refused, Returns
  <2>3. CallSum' = CallSum - len
    <3>1. ChargeBy(s) = len
      BY <2>1 DEF ChargeBy
    <3>2. CallSum' = CallSum - ChargeBy(s)
      <4>1. CASE pc' = [pc EXCEPT ![s] = "ready"]
        BY <2>1, <4>1, PcMoves
      <4>2. CASE pc' = [pc EXCEPT ![s] = "refused"]
        BY <2>1, <4>2, PcMoves
      <4> QED
        BY <2>2, <4>1, <4>2
    <3> QED
      BY <3>1, <3>2
  <2>4. MailSum' = MailSum
    BY <2>1, MailSame
  <2>5. UNCHANGED <<pending, dead, up, wire, sent, consumed>>
    BY <2>1 DEF writer, receiver
  <2> HIDE DEF len
  <2>6. /\ MailSum' + CallSum' = MailSum + CallSum + (0 - len) /\ MailSum' \in Int /\ CallSum' \in Int
        /\ queued' = queued + (0 - len) /\ 0 - len \in Int
    BY <1>0, <2>1, <2>3, <2>4, Sums
  <2> QED
    BY <2>5, <2>6, LedgerAside
<1>3. CASE Lines(s) \/ Calls(s) \/ Answered(s) \/ TimesOut(s)
  <2>1. /\ pc[s] \in {"refused", "lined", "blocked"}
        /\ UNCHANGED <<queued, call, turn, writer, up, wire, receiver>>
    BY <1>3 DEF Lines, Calls, Answered, TimesOut
  <2>2. MailSum' = MailSum
    <3>1. CASE Lines(s)
      <4>1. MailSum' = MailSum + 0
        BY <3>1, SendCharges DEF Lines
      <4> QED
        BY <4>1, Sums
    <3>2. CASE Calls(s)
      <4>1. MailSum' = MailSum + 0
        BY <3>2, SendCharges DEF Calls
      <4> QED
        BY <4>1, Sums
    <3>3. CASE Answered(s)
      BY <3>3, MailSame DEF Answered
    <3>4. CASE TimesOut(s)
      <4>1. MailSum' = MailSum + 0
        BY <3>4, SendCharges DEF TimesOut
      <4> QED
        BY <4>1, Sums
    <3> QED
      BY <1>3, <3>1, <3>2, <3>3, <3>4
  <2>3. CallSum' = CallSum
    <3>1. ChargeBy(s) = 0
      BY <2>1 DEF ChargeBy
    <3>2. \E where \in {"ready", "lined", "blocked"} : pc' = [pc EXCEPT ![s] = where]
      BY <1>3 DEF Lines, Calls, Answered, TimesOut, Returns
    <3>3. CallSum' = CallSum - ChargeBy(s)
      BY <2>1, <3>2, PcMoves
    <3> QED
      BY <3>1, <3>3, Sums
  <2>4. UNCHANGED <<pending, dead, up, wire, sent, consumed>>
    BY <2>1 DEF writer, receiver
  <2>5. /\ MailSum' + CallSum' = MailSum + CallSum + 0 /\ MailSum' \in Int /\ CallSum' \in Int
        /\ queued' = queued + 0
    BY <1>0, <2>1, <2>2, <2>3, Sums
  <2> QED
    BY <2>4, <2>5, LedgerAside
<1> QED
  BY <1>1, <1>2, <1>3 DEF SenderStep

\* A message taken hands its bytes to the handler.
LEMMA TakesCharge ==
  ASSUME TypeOK, TypeOK', NEW kind, Takes(kind)
  PROVE  /\ MailSum = ChargeOf(Head(mailbox)) + MailSum' /\ CallSum' = CallSum
         /\ UNCHANGED <<up, wire, consumed>>
         /\ Head(mailbox) \in Messages /\ Head(mailbox).kind = kind
         /\ ChargeOf(Head(mailbox)) \in Nat /\ MailSum' \in Int
<1>1. /\ mailbox # <<>> /\ Head(mailbox).kind = kind /\ mailbox' = Tail(mailbox)
      /\ UNCHANGED <<pc, call, up, wire, receiver, history>>
  BY DEF Takes
<1>2. MailSum = ChargeOf(Head(mailbox)) + MailSum'
  BY <1>1, MailTaken
<1>3. CallSum' = CallSum
  BY <1>1, CallsSame
<1>4. Head(mailbox) \in Messages
  BY <1>1, HeadTailProperties DEF TypeOK
<1>5. ChargeOf(Head(mailbox)) \in Nat
  BY <1>4, ChargesType DEF Charges
<1>6. MailSum' \in Int
  <2>1. MailCharges' = Weigh(Charges, mailbox')
    <3>1. DOMAIN mailbox' = 1..Len(mailbox') /\ \A i \in 1..Len(mailbox') : mailbox'[i] \in Messages
      BY LenProperties, ElementOfSeq DEF TypeOK
    <3> QED
      BY <3>1 DEF MailCharges, Weigh, Charges, ChargeOf
  <2>2. mailbox' \in Seq(Messages) /\ Int \in {Nat, Int}
    BY DEF TypeOK
  <2>3. Weight(Charges, mailbox') \in Int
    BY <2>2, ChargesType, WeightType
  <2> QED
    BY <2>1, <2>3 DEF MailSum, Weight
<1> QED
  BY <1>1, <1>2, <1>3, <1>4, <1>5, <1>6 DEF receiver

\* Messages that charge nothing.
LEMMA FreeMessage ==
  ASSUME TypeOK, TypeOK', Ledger, NEW kind \in {"credit", "waiting", "wait", "withdraw"}, Takes(kind),
         UNCHANGED <<queued, pending, sent, dead>>
  PROVE  Ledger'
<1>1. /\ MailSum = ChargeOf(Head(mailbox)) + MailSum' /\ CallSum' = CallSum
      /\ UNCHANGED <<up, wire, consumed>>
      /\ Head(mailbox).kind = kind
  BY TakesCharge
<1>2. ChargeOf(Head(mailbox)) = 0
  BY <1>1 DEF ChargeOf
<1>3. MailSum' \in Int
  BY TakesCharge
<1>4. MailSum' + CallSum' = MailSum + CallSum + 0 /\ CallSum' \in Int /\ queued' = queued + 0
  BY <1>1, <1>2, <1>3, Sums DEF Ledger
<1> QED
  BY <1>1, <1>3, <1>4, LedgerAside

\* They join the queue, and the counter stays.
LEMMA OnEnqueueLedger == ASSUME TypeOK, TypeOK', Ledger, OnEnqueue PROVE Ledger'
<1> DEFINE f == Head(mailbox).frame
<1>1. /\ Takes("enqueue") /\ UNCHANGED <<queued, sent, dead>>
      /\ IF dead THEN pending' = pending ELSE pending' = Append(pending, f)
  BY DEF OnEnqueue
<1>2. /\ MailSum = ChargeOf(Head(mailbox)) + MailSum' /\ CallSum' = CallSum
      /\ UNCHANGED <<up, wire, consumed>>
      /\ Head(mailbox) \in Messages /\ Head(mailbox).kind = "enqueue" /\ MailSum' \in Int
  BY <1>1, TakesCharge
<1>3. f \in Frames
  BY <1>2, MessageFrame
<1>4. ChargeOf(Head(mailbox)) = f.len
  BY <1>2 DEF ChargeOf
<1>5. Bytes(wire)' = Bytes(wire)
  BY <1>2 DEF Bytes
<1>6. f.len \in Nat
  BY <1>3, FrameLen
<1>7. CASE dead
  <2>1. Bytes(pending)' = Bytes(pending)
    BY <1>1, <1>7 DEF Bytes
  <2> HIDE DEF f
  <2>2. Charged' \in Int /\ Charged' <= Charged
    BY <1>2, <1>4, <1>6, <2>1, Sums DEF Charged
  <2>3. Charged \in Int
    BY Sums DEF Charged
  <2> QED
    BY <1>1, <1>2, <1>5, <1>7, <2>2, <2>3 DEF Ledger
<1>8. CASE ~dead
  <2>1. Bytes(pending)' = Bytes(pending) + f.len
    <3>1. pending' = Append(pending, f)
      BY <1>1, <1>8
    <3>2. Bytes(Append(pending, f)) = Bytes(pending) + f.len
      BY <1>3, BytesAppend DEF TypeOK
    <3> QED
      BY <3>1, <3>2 DEF Bytes
  <2> HIDE DEF f
  <2>2. Charged' = Charged
    BY <1>2, <1>4, <1>6, <2>1, Sums DEF Charged
  <2> QED
    BY <1>1, <1>2, <1>5, <1>8, <2>2 DEF Ledger
<1> QED
  BY <1>7, <1>8

\* Of a sum of five, one goes and the others change places.
LEMMA OutAndIn ==
  ASSUME NEW gone \in Nat, NEW kept \in Nat, NEW new \in Nat, NEW mail \in Int, NEW calls \in Nat
  PROVE  /\ (gone + kept) + (new + mail) + calls \in Int
         /\ (kept + new) + mail + calls = ((gone + kept) + (new + mail) + calls) - gone
OBVIOUS

\* What is evicted leaves both.
LEMMA EvictingLedger == ASSUME TypeOK, TypeOK', Ledger, OnEnqueueEvicting PROVE Ledger'
<1> DEFINE f == Head(mailbox).frame
<1>1. Takes("evicting") /\ UNCHANGED <<sent, dead>>
  BY DEF OnEnqueueEvicting
<1>2. PICK k \in 0..Len(pending) :
        /\ pending' = Append(SubSeq(pending, k + 1, Len(pending)), f)
        /\ queued' = queued - Bytes(SubSeq(pending, 1, k))
  BY DEF OnEnqueueEvicting
<1>3. /\ MailSum = ChargeOf(Head(mailbox)) + MailSum' /\ CallSum' = CallSum
      /\ UNCHANGED <<up, wire, consumed>>
      /\ Head(mailbox) \in Messages /\ Head(mailbox).kind = "evicting" /\ MailSum' \in Int
  BY <1>1, TakesCharge
<1>4. f \in Frames
  BY <1>3, MessageFrame
<1>5. ChargeOf(Head(mailbox)) = f.len
  BY <1>3 DEF ChargeOf
<1>6. f.len \in Nat
  BY <1>4, FrameLen
<1>7. PICK gone : gone = SubSeq(pending, 1, k)
  OBVIOUS
<1>8. PICK kept : kept = SubSeq(pending, k + 1, Len(pending))
  OBVIOUS
<1>9. gone \in Seq(Frames) /\ kept \in Seq(Frames) /\ Bytes(pending) = Bytes(gone) + Bytes(kept)
  BY <1>7, <1>8, BytesSplit DEF TypeOK
<1>10. Bytes(pending)' = Bytes(kept) + f.len
  <2>1. pending' = Append(kept, f)
    BY <1>2, <1>8
  <2>2. Bytes(Append(kept, f)) = Bytes(kept) + f.len
    BY <1>4, <1>9, BytesAppend
  <2> QED
    BY <2>1, <2>2 DEF Bytes
<1>11. queued' = queued - Bytes(gone)
  BY <1>2, <1>7
<1>12. Bytes(gone) \in Nat /\ Bytes(kept) \in Nat
  BY <1>9, BytesType
<1>13. Bytes(wire)' = Bytes(wire)
  BY <1>3 DEF Bytes
<1> HIDE DEF f
<1>14. Charged' = Charged - Bytes(gone) /\ Charged \in Int
  <2>1. Bytes(pending) = Bytes(gone) + Bytes(kept) /\ MailSum = f.len + MailSum' /\ CallSum' = CallSum
    BY <1>3, <1>5, <1>9
  <2>2. MailSum \in Nat /\ CallSum \in Nat /\ MailSum' \in Int
    BY <1>3, Sums
  <2>3. f.len \in Nat /\ Bytes(pending)' = Bytes(kept) + f.len
    BY <1>6, <1>10
  <2>4. /\ Charged = (Bytes(gone) + Bytes(kept)) + (f.len + MailSum') + CallSum
        /\ Charged' = (Bytes(kept) + f.len) + MailSum' + CallSum
    BY <2>1, <2>3 DEF Charged
  <2> QED
    BY <1>12, <2>2, <2>3, <2>4, OutAndIn, SMTT(60)
<1> QED
  BY <1>1, <1>3, <1>11, <1>12, <1>13, <1>14 DEF Ledger

\* A connection closed drops its queue, and the counter never shows less than is left.
LEMMA OnCloseLedger == ASSUME TypeOK, TypeOK', Ledger, OnClose PROVE Ledger'
<1>1. Takes("close") /\ dead' = TRUE /\ pending' = <<>> /\ UNCHANGED <<queued, sent>>
  BY DEF OnClose
<1>2. /\ MailSum = ChargeOf(Head(mailbox)) + MailSum' /\ CallSum' = CallSum
      /\ UNCHANGED <<up, wire, consumed>> /\ ChargeOf(Head(mailbox)) \in Nat /\ MailSum' \in Int
  BY <1>1, TakesCharge
<1>3. Bytes(pending)' = 0
  BY <1>1, BytesNone DEF Bytes
<1>4. Bytes(wire)' = Bytes(wire)
  BY <1>2 DEF Bytes
<1>5. Charged' \in Int /\ Charged' <= Charged /\ Charged \in Int
  BY <1>2, <1>3, Sums DEF Charged
<1> QED
  BY <1>1, <1>2, <1>4, <1>5 DEF Ledger

\* A frame written leaves the counter as it leaves the queue.
LEMMA WritesLedger == ASSUME TypeOK, TypeOK', Ledger, Writes PROVE Ledger'
<1> DEFINE f == Head(pending)
<1>1. /\ pending # <<>>
      /\ UNCHANGED <<sender, mailbox, turn, granted, waiting, waiters, evicted, up, receiver, oked, cutOff>>
  BY DEF Writes, MayWrite
<1>2. MailSum' = MailSum /\ CallSum' = CallSum
  BY <1>1, MailSame, CallsSame DEF sender
<1>3. f \in Frames /\ f.len \in Nat /\ Bytes(pending) = f.len + Bytes(Tail(pending)) /\ Bytes(Tail(pending)) \in Nat
  BY <1>1, HeadFrame, BytesTail, BytesType DEF TypeOK
<1>4. CASE /\ pending' = Tail(pending) /\ sent' = sent + f.len /\ queued' = queued - f.len
           /\ wire' = (IF up THEN Append(wire, f) ELSE wire) /\ dead' = dead
  <2>1. Bytes(pending)' = Bytes(Tail(pending))
    BY <1>4 DEF Bytes
  <2>2. up => Bytes(wire)' = Bytes(wire) + f.len
    <3>1. up => wire' = Append(wire, f)
      BY <1>4
    <3>2. Bytes(Append(wire, f)) = Bytes(wire) + f.len
      BY <1>3, BytesAppend DEF TypeOK
    <3> QED
      BY <3>1, <3>2 DEF Bytes
  <2>3. up' = up /\ consumed' = consumed /\ dead' = dead /\ queued' = queued - f.len /\ sent' = sent + f.len
    BY <1>1, <1>4 DEF receiver
  <2> HIDE DEF f
  <2>4. Charged' = Charged - f.len /\ Charged \in Int
    BY <1>2, <1>3, <2>1, Sums DEF Charged
  <2>5. queued' \in Int /\ queued' >= Charged' /\ (~dead' => queued' = Charged')
    BY <1>3, <2>3, <2>4 DEF Ledger
  <2>6. up' => sent' - consumed' = Bytes(wire)'
    BY <1>3, <2>2, <2>3, Sums DEF Ledger
  <2> QED
    BY <2>5, <2>6 DEF Ledger
<1>5. CASE ~up /\ dead' = TRUE /\ UNCHANGED <<pending, sent, queued, wire, log>>
  <2>1. Charged' = Charged
    BY <1>2, <1>5 DEF Charged, Bytes
  <2> QED
    BY <1>1, <1>5, <2>1 DEF Ledger
<1> QED
  BY <1>4, <1>5 DEF Writes

\* A frame from the line is charged as it joins the queue.
LEMMA ServeLedger ==
  ASSUME TypeOK, TypeOK', InLine, Ledger, SendsAway \/ LooksForRoom \/ AdmitsFromLine PROVE Ledger'
<1>1. CASE SendsAway \/ LooksForRoom
  <2>1. UNCHANGED <<queued, pc, call, mailbox, pending, dead, up, wire, sent, consumed>>
    BY <1>1 DEF SendsAway, LooksForRoom, sender, writer, receiver
  <2>2. MailSum' = MailSum /\ CallSum' = CallSum
    BY <2>1, MailSame, CallsSame
  <2>3. /\ MailSum' + CallSum' = MailSum + CallSum + 0 /\ MailSum' \in Int /\ CallSum' \in Int
        /\ queued' = queued + 0
    BY <2>1, <2>2, Sums DEF Ledger
  <2> QED
    BY <2>1, <2>3, LedgerAside
<1>2. CASE AdmitsFromLine
  <2> DEFINE f == Head(waiting)
  <2>1. /\ turn = "charge" /\ queued' = queued + f.len /\ pending' = Append(pending, f)
        /\ UNCHANGED <<pc, call, mailbox, granted, sent, evicted, dead, up, wire, receiver, history>>
    BY <1>2 DEF AdmitsFromLine
  <2>2. MailSum' = MailSum /\ CallSum' = CallSum
    BY <2>1, MailSame, CallsSame
  <2>3. f \in Frames /\ f.len \in Nat
    BY <2>1, HeadFrame DEF TypeOK, InLine
  <2>4. Bytes(pending)' = Bytes(pending) + f.len
    <3>1. Bytes(Append(pending, f)) = Bytes(pending) + f.len
      BY <2>3, BytesAppend DEF TypeOK
    <3> QED
      BY <2>1, <3>1 DEF Bytes
  <2>5. Bytes(wire)' = Bytes(wire) /\ consumed' = consumed
    BY <2>1 DEF Bytes, receiver
  <2> HIDE DEF f
  <2>6. Charged' = Charged + f.len /\ Charged \in Int
    BY <2>2, <2>3, <2>4, Sums DEF Charged
  <2> QED
    BY <2>1, <2>3, <2>5, <2>6 DEF Ledger
<1> QED
  BY <1>1, <1>2

\* The two ends agree on what is on the wire, until it breaks.
LEMMA ConnectionLedger ==
  ASSUME TypeOK, TypeOK', Ledger, Consumes \/ Breaks \/ OwnerCloses PROVE Ledger'
<1>1. CASE Consumes
  <2>1. /\ up /\ wire # <<>> /\ wire' = Tail(wire) /\ consumed' = consumed + Head(wire).len
        /\ UNCHANGED <<queued, sender, turn, writer, up, history>>
    BY <1>1 DEF Consumes
  <2>2. Bytes(wire) = Head(wire).len + Bytes(Tail(wire)) /\ Head(wire).len \in Nat
    BY <2>1, BytesTail, HeadFrame DEF TypeOK
  <2>3. Bytes(wire)' = Bytes(Tail(wire))
    BY <2>1 DEF Bytes
  <2>4. MailSum' = MailSum
    <3>1. CASE mailbox' = Append(mailbox, [kind |-> "credit", total |-> consumed'])
      <4>1. [kind |-> "credit", total |-> consumed'] \in Messages
        BY DEF TypeOK, Messages
      <4>2. ChargeOf([kind |-> "credit", total |-> consumed']) = 0
        BY DEF ChargeOf
      <4> QED
        BY <3>1, <4>1, <4>2, MailSent, Sums
    <3>2. CASE mailbox' = mailbox
      BY <3>2, MailSame
    <3> QED
      BY <1>1, <3>1, <3>2 DEF Consumes
  <2>5. CallSum' = CallSum /\ Bytes(pending)' = Bytes(pending) /\ UNCHANGED <<queued, dead, up, sent>>
    BY <2>1, CallsSame DEF Bytes, sender, writer
  <2>6. Charged' = Charged
    BY <2>4, <2>5 DEF Charged
  <2>7. Bytes(Tail(wire)) \in Nat
    BY <2>1, BytesType, HeadFrame DEF TypeOK
  <2>8. sent' - consumed' = Bytes(wire)'
    <3>1. PICK h : h = Head(wire).len
      OBVIOUS
    <3>2. h \in Nat /\ consumed' = consumed + h /\ Bytes(wire) = h + Bytes(Tail(wire))
      BY <2>1, <2>2, <3>1
    <3>3. sent - consumed = Bytes(wire) /\ sent \in Nat /\ consumed \in Nat /\ sent' = sent
      BY <2>1, <2>5, Sums DEF Ledger
    <3>4. ASSUME NEW a \in Nat, NEW b \in Nat, NEW c \in Nat, NEW d \in Nat, a - b = c + d
          PROVE  a - (b + c) = d
      BY <3>4
    <3>5. sent - (consumed + h) = Bytes(Tail(wire))
      BY <2>7, <3>2, <3>3, <3>4
    <3> QED
      BY <2>3, <3>2, <3>3, <3>5
  <2> QED
    BY <2>5, <2>6, <2>8 DEF Ledger
<1>2. CASE Breaks
  <2>1. up' = FALSE /\ UNCHANGED <<queued, sender, mailbox, turn, writer, receiver, history>>
    BY <1>2 DEF Breaks
  <2>2. MailSum' = MailSum /\ CallSum' = CallSum /\ Bytes(pending)' = Bytes(pending)
    BY <2>1, MailSame, CallsSame DEF Bytes, sender, writer
  <2>3. Charged' = Charged
    BY <2>2 DEF Charged
  <2> QED
    BY <2>1, <2>3 DEF Ledger, writer
<1>3. CASE OwnerCloses
  <2>1. /\ mailbox' = Append(mailbox, [kind |-> "close"])
        /\ UNCHANGED <<queued, sender, turn, writer, up, wire, receiver, history>>
    BY <1>3 DEF OwnerCloses
  <2>2. MailSum' = MailSum
    <3>1. [kind |-> "close"] \in Messages
      BY DEF Messages
    <3>2. ChargeOf([kind |-> "close"]) = 0
      BY DEF ChargeOf
    <3> QED
      BY <2>1, <3>1, <3>2, MailSent, Sums
  <2>3. CallSum' = CallSum /\ UNCHANGED <<pending, dead, up, wire, sent, consumed>>
    BY <2>1, CallsSame DEF sender, writer, receiver
  <2>4. /\ MailSum' + CallSum' = MailSum + CallSum + 0 /\ MailSum' \in Int /\ CallSum' \in Int
        /\ queued' = queued + 0
    BY <2>1, <2>2, <2>3, Sums DEF Ledger
  <2> QED
    BY <2>3, <2>4, LedgerAside
<1> QED
  BY <1>1, <1>2, <1>3

\* Nothing is queued yet.
LEMMA InitLedger == Init => Ledger
<1> SUFFICES ASSUME Init PROVE Ledger
  OBVIOUS
<1>1. Bytes(pending) = 0 /\ Bytes(wire) = 0
  BY BytesNone DEF Init
<1>2. MailSum = 0
  <2>1. DOMAIN MailCharges = {}
    BY DEF Init, MailCharges
  <2> QED
    BY <2>1, SumEmpty DEF MailSum, SumFunction
<1>3. CallSum = 0
  <2>1. DOMAIN CallCharges = Senders /\ \A s \in Senders : CallCharges[s] = 0
    BY DEF Init, CallCharges
  <2> DEFINE none == [s \in Senders |-> 0]
  <2>2. CallCharges = none
    BY DEF Init, CallCharges
  <2>3. CallSum \in Nat
    BY InitIInv, CallSumType DEF IInv
  <2> QED
    BY <2>1, <2>3, SumZero, ConstantsAssumption DEF CallSum, SumFunction
<1> QED
  BY <1>1, <1>2, <1>3 DEF Init, Ledger, Charged

\* Every step keeps the ledger.
LEMMA NextLedger == IInv /\ IInv' /\ Ledger /\ [Next]_vars => Ledger'
<1> SUFFICES ASSUME IInv, IInv', Ledger, [Next]_vars PROVE Ledger'
  OBVIOUS
<1>0. TypeOK /\ TypeOK' /\ InLine
  BY DEF IInv
<1>1. ASSUME NEW s \in Senders, Charge(s) \/ SenderStep(s) \/ TimesOut(s) PROVE Ledger'
  BY <1>0, <1>1, ChargeLedger, SenderLedger
<1>2. CASE OnCredit \/ OnWaiting \/ OnWait \/ OnWithdraw
  <2>1. UNCHANGED <<queued, pending, sent, dead>>
    BY <1>2 DEF OnCredit, OnWaiting, OnWait, OnWithdraw
  <2>2. \E kind \in {"credit", "waiting", "wait", "withdraw"} : Takes(kind)
    BY <1>2 DEF OnCredit, OnWaiting, OnWait, OnWithdraw
  <2> QED
    BY <1>0, <2>1, <2>2, FreeMessage
<1>3. CASE WriterStep
  BY <1>0, <1>2, <1>3, OnEnqueueLedger, EvictingLedger, OnCloseLedger, WritesLedger, ServeLedger DEF WriterStep
<1>4. CASE Consumes \/ Breaks \/ OwnerCloses
  BY <1>0, <1>4, ConnectionLedger
<1>5. CASE UNCHANGED vars
  <2>1. UNCHANGED <<queued, pc, call, mailbox, pending, dead, up, wire, sent, consumed>>
    BY <1>5 DEF vars, sender, writer, receiver
  <2> QED
    BY <2>1 DEF Ledger, Charged, MailSum, CallSum, MailCharges, CallCharges, Bytes
<1> QED
  BY <1>1, <1>3, <1>4, <1>5 DEF Next

\* The counter that senders and writer share without a lock is exact while the
\* connection lives, and the two ends' totals agree (enqueue, drain, evict,
\* admit_waiting and consumed in NodeQueue).
THEOREM AccountingAlways == Spec => []Accounting
<1>1. IInv /\ Ledger => Accounting
  BY DEF Ledger, Charged, MailSum, CallSum, Accounting
<1> QED
  BY InitIInv, NextIInv, InitLedger, NextLedger, <1>1, PTL DEF Spec

-----------------------------------------------------------------------------
(* The lines, as sets: what a sequence gains and loses.                    *)

\* What is in a line, by its places.
LEMMA RangeIs ==
  ASSUME NEW S, NEW line \in Seq(S)
  PROVE  /\ Range(line) = {line[i] : i \in 1..Len(line)} /\ Len(line) \in Nat
         /\ \A i \in 1..Len(line) : line[i] \in Range(line)
<1>1. DOMAIN line = 1..Len(line) /\ Len(line) \in Nat
  BY LenProperties
<1> QED
  BY <1>1 DEF Range

\* One more in line.
LEMMA RangeAppend ==
  ASSUME NEW S, NEW line \in Seq(S), NEW e \in S PROVE Range(Append(line, e)) = Range(line) \union {e}
<1>1. PICK more : more = Append(line, e)
  OBVIOUS
<1>2. /\ more \in Seq(S) /\ Len(more) = Len(line) + 1
      /\ \A i \in 1..Len(line) : more[i] = line[i]
      /\ more[Len(line) + 1] = e
  BY <1>1, AppendProperties
<1>3. /\ DOMAIN more = 1..(Len(line) + 1)
      /\ DOMAIN line = 1..Len(line) /\ Len(line) \in Nat
  BY <1>2, LenProperties
<1> QED
  BY <1>1, <1>2, <1>3 DEF Range

\* The first, and the others.
LEMMA RangeTail ==
  ASSUME NEW S, NEW line \in Seq(S), line # <<>>
  PROVE  Range(line) = {Head(line)} \union Range(Tail(line))
<1>1. PICK less : less = Tail(line)
  OBVIOUS
<1>2. /\ less \in Seq(S) /\ Len(less) = Len(line) - 1
      /\ \A i \in 1..Len(less) : less[i] = line[i + 1]
  BY <1>1, HeadTailProperties
<1>3. /\ DOMAIN less = 1..(Len(line) - 1)
      /\ DOMAIN line = 1..Len(line) /\ Len(line) \in Nat \ {0} /\ Head(line) = line[1]
  BY <1>2, LenProperties, EmptySeq
<1>4. ASSUME NEW i \in 1..Len(line), i # 1 PROVE i - 1 \in 1..(Len(line) - 1) /\ less[i - 1] = line[i]
  <2>1. i - 1 \in 1..(Len(line) - 1) /\ (i - 1) + 1 = i
    BY <1>3, <1>4
  <2> QED
    BY <1>2, <2>1
<1>5. Range(less) \subseteq Range(line) /\ Head(line) \in Range(line)
  <2>1. ASSUME NEW i \in 1..(Len(line) - 1) PROVE i + 1 \in 1..Len(line) /\ less[i] = line[i + 1]
    BY <1>2, <1>3
  <2>2. 1 \in 1..Len(line)
    BY <1>3
  <2> QED
    BY <1>3, <2>1, <2>2 DEF Range
<1>6. Range(line) \subseteq {Head(line)} \union Range(less)
  BY <1>3, <1>4 DEF Range
<1> QED
  BY <1>1, <1>5, <1>6

\* The oldest, and the rest.
LEMMA RestIs ==
  ASSUME NEW S, NEW line \in Seq(S)
  PROVE  Range(line) = Oldest(line) \union Range(Rest(line))
<1>1. CASE line = <<>>
  <2>1. Oldest(line) = {} /\ Rest(line) = line
    BY <1>1 DEF Oldest, Rest
  <2> QED
    BY <2>1
<1>2. CASE line # <<>>
  BY <1>2, RangeTail DEF Oldest, Rest
<1> QED
  BY <1>1, <1>2

\* A line is its two halves.
LEMMA RangeSplit ==
  ASSUME NEW S, NEW line \in Seq(S), NEW k \in 0..Len(line)
  PROVE  Range(line) = Range(SubSeq(line, 1, k)) \union Range(SubSeq(line, k + 1, Len(line)))
<1>1. Len(line) \in Nat /\ \A i \in 1..Len(line) : line[i] \in S
  BY LenProperties, ElementOfSeq
<1>2. SubSeq(line, 1, k) \in Seq(S) /\ SubSeq(line, k + 1, Len(line)) \in Seq(S)
  BY <1>1, SubSeqProperties
<1>3. SubSeq(line, 1, k) \o SubSeq(line, k + 1, Len(line)) = line
  <2>1. 1 \in 1..(Len(line) + 1) /\ k \in (1 - 1)..Len(line) /\ Len(line) \in k..Len(line)
    BY <1>1
  <2>2. SubSeq(line, 1, k) \o SubSeq(line, k + 1, Len(line)) = SubSeq(line, 1, Len(line))
    BY <2>1, ConcatAdjacentSubSeq
  <2> QED
    BY <2>2, SubSeqFull
<1> QED
  BY <1>2, <1>3, RangeConcatenation, ZenonT(40)

\* One element leaves the line, and at most that one.
LEMMA RemoveAtIs ==
  ASSUME NEW S, NEW line \in Seq(S), NEW i \in 1..Len(line)
  PROVE  /\ Range(line) \subseteq {line[i]} \union Range(RemoveAt(line, i))
         /\ RemoveAt(line, i) \in Seq(S) /\ Len(RemoveAt(line, i)) = Len(line) - 1
<1> DEFINE a == SubSeq(line, 1, i - 1)
           b == SubSeq(line, i + 1, Len(line))
<1>1. Len(line) \in Nat /\ \A j \in 1..Len(line) : line[j] \in S
  BY LenProperties, ElementOfSeq
<1>2. /\ a \in Seq(S) /\ Len(a) = i - 1 /\ \A j \in 1..(i - 1) : a[j] = line[j]
  <2>1. 1 \in Int /\ i - 1 \in Int /\ \A j \in 1..(i - 1) : line[j] \in S
    BY <1>1
  <2>2. /\ a \in Seq(S) /\ Len(a) = IF 1 <= i - 1 THEN (i - 1) - 1 + 1 ELSE 0
        /\ \A j \in 1..((i - 1) - 1 + 1) : a[j] = line[1 + j - 1]
    BY <2>1, SubSeqProperties
  <2> HIDE DEF a
  <2> QED
    BY <1>1, <2>2
<1>3. /\ b \in Seq(S) /\ Len(b) = Len(line) - i /\ \A j \in (i + 1)..Len(line) : b[j - i] = line[j]
  <2>1. i + 1 \in Int /\ Len(line) \in Int /\ \A j \in (i + 1)..Len(line) : line[j] \in S
    BY <1>1
  <2>2. /\ b \in Seq(S) /\ Len(b) = IF i + 1 <= Len(line) THEN Len(line) - (i + 1) + 1 ELSE 0
        /\ \A j \in 1..(Len(line) - (i + 1) + 1) : b[j] = line[(i + 1) + j - 1]
    BY <2>1, SubSeqProperties
  <2> HIDE DEF b
  <2>3. Len(b) = Len(line) - i
    BY <1>1, <2>2
  <2>4. ASSUME NEW j \in (i + 1)..Len(line) PROVE b[j - i] = line[j]
    <3>1. j - i \in 1..(Len(line) - (i + 1) + 1) /\ (i + 1) + (j - i) - 1 = j
      BY <1>1
    <3> QED
      BY <2>2, <3>1
  <2> QED
    BY <2>2, <2>3, <2>4
<1>4. RemoveAt(line, i) = a \o b
  BY DEF RemoveAt
<1> HIDE DEF a, b
<1>5. a \o b \in Seq(S) /\ Len(a \o b) = Len(a) + Len(b) /\ Range(a \o b) = Range(a) \union Range(b)
  BY <1>2, <1>3, ConcatProperties, RangeConcatenation, ZenonT(40)
<1>6. ASSUME NEW j \in 1..Len(line), j # i PROVE line[j] \in Range(a) \union Range(b)
  <2>1. CASE j < i
    <3>1. j \in 1..(i - 1) /\ DOMAIN a = 1..(i - 1)
      BY <1>1, <1>2, <2>1, LenProperties
    <3> QED
      BY <1>2, <3>1 DEF Range
  <2>2. CASE i < j
    <3>1. j \in (i + 1)..Len(line) /\ j - i \in 1..(Len(line) - i) /\ DOMAIN b = 1..(Len(line) - i)
      BY <1>1, <1>3, <2>2, LenProperties
    <3> QED
      BY <1>3, <3>1 DEF Range
  <2> QED
    BY <1>1, <1>6, <2>1, <2>2
<1>7. Range(line) \subseteq {line[i]} \union Range(a \o b)
  <2>1. DOMAIN line = 1..Len(line)
    BY LenProperties
  <2> QED
    BY <1>5, <1>6, <2>1 DEF Range
<1>8. Len(a \o b) = Len(line) - 1
  BY <1>1, <1>2, <1>3, <1>5
<1> QED
  BY <1>4, <1>5, <1>7, <1>8

\* A message more names its frame, if it is of the kinds looked for.
LEMMA MailGrows ==
  ASSUME TypeOK, NEW m \in Messages, mailbox' = Append(mailbox, m), NEW kinds
  PROVE  InMailbox(kinds)' = InMailbox(kinds) \union (IF m.kind \in kinds THEN {m.frame} ELSE {})
<1>1. /\ Len(mailbox) \in Nat /\ DOMAIN mailbox = 1..Len(mailbox)
      /\ DOMAIN mailbox' = 1..(Len(mailbox) + 1)
      /\ \A i \in 1..Len(mailbox) : mailbox'[i] = mailbox[i]
      /\ mailbox'[Len(mailbox) + 1] = m
  BY AppendProperties, LenProperties DEF TypeOK
<1> QED
  BY <1>1 DEF InMailbox

\* A message taken was named.
LEMMA MailShrinks ==
  ASSUME TypeOK, mailbox # <<>>, mailbox' = Tail(mailbox), NEW kinds
  PROVE  InMailbox(kinds)
           = InMailbox(kinds)' \union (IF Head(mailbox).kind \in kinds THEN {Head(mailbox).frame} ELSE {})
<1>1. /\ Len(mailbox) \in Nat \ {0} /\ DOMAIN mailbox = 1..Len(mailbox) /\ Head(mailbox) = mailbox[1]
      /\ DOMAIN mailbox' = 1..(Len(mailbox) - 1)
      /\ \A i \in 1..(Len(mailbox) - 1) : mailbox'[i] = mailbox[i + 1]
  BY HeadTailProperties, LenProperties, EmptySeq DEF TypeOK
<1>2. ASSUME NEW i \in 1..Len(mailbox), i # 1
      PROVE  i - 1 \in 1..(Len(mailbox) - 1) /\ mailbox'[i - 1] = mailbox[i]
  <2>1. i - 1 \in 1..(Len(mailbox) - 1) /\ (i - 1) + 1 = i
    BY <1>1, <1>2
  <2> QED
    BY <1>1, <2>1
<1> DEFINE here == IF Head(mailbox).kind \in kinds THEN {Head(mailbox).frame} ELSE {}
<1>3. InMailbox(kinds)' \subseteq InMailbox(kinds)
  BY <1>1 DEF InMailbox
<1>4. here \subseteq InMailbox(kinds)
  BY <1>1 DEF InMailbox
<1>5. InMailbox(kinds) \subseteq InMailbox(kinds)' \union here
  <2> SUFFICES ASSUME NEW i \in DOMAIN mailbox, mailbox[i].kind \in kinds
               PROVE  mailbox[i].frame \in InMailbox(kinds)' \union here
    BY DEF InMailbox
  <2>1. CASE i = 1
    BY <1>1, <2>1
  <2>2. CASE i # 1
    BY <1>1, <1>2, <2>2 DEF InMailbox
  <2> QED
    BY <2>1, <2>2
<1> QED
  BY <1>3, <1>4, <1>5

\* The same mail names the same frames.
LEMMA MailStays == ASSUME UNCHANGED mailbox, NEW kinds PROVE InMailbox(kinds)' = InMailbox(kinds)
BY DEF InMailbox

\* A caller's message names its frame.
LEMMA SendGrows ==
  ASSUME TypeOK, NEW s \in Senders, NEW kinds,
         NEW kind \in {"enqueue", "evicting", "waiting", "wait", "withdraw"}, Send(kind, call[s].frame)
  PROVE  InMailbox(kinds)' = InMailbox(kinds) \union (IF kind \in kinds THEN {call[s].frame} ELSE {})
<1>1. PICK m : m = [kind |-> kind, frame |-> call[s].frame]
  OBVIOUS
<1>2. m \in Messages /\ m.kind = kind /\ m.frame = call[s].frame
  BY <1>1, CallFrameMessage
<1>3. mailbox' = Append(mailbox, m)
  BY <1>1 DEF Send
<1> QED
  BY <1>2, <1>3, MailGrows

\* A message of another kind.
LEMMA SendOther ==
  ASSUME TypeOK, NEW s \in Senders, NEW kinds,
         NEW kind \in {"enqueue", "evicting", "waiting", "wait", "withdraw"} \ kinds, Send(kind, call[s].frame)
  PROVE  InMailbox(kinds)' = InMailbox(kinds)
<1>1. InMailbox(kinds)' = InMailbox(kinds) \union (IF kind \in kinds THEN {call[s].frame} ELSE {})
  BY SendGrows
<1> QED
  BY <1>1

-----------------------------------------------------------------------------
(* No blocked caller is forgotten.  Every step that takes a caller out of  *)
(* line answers it, and the line of frames is the longer one.              *)

\* The message a writer's turn begins with.
LEMMA TakesLine ==
  ASSUME TypeOK, NEW kind, Takes(kind), NEW kinds
  PROVE  /\ Head(mailbox).kind = kind /\ turn = "idle" /\ UNCHANGED <<pc, call>>
         /\ Head(mailbox) \in Messages
         /\ InMailbox(kinds)
              = InMailbox(kinds)' \union (IF kind \in kinds THEN {Head(mailbox).frame} ELSE {})
<1>1. /\ mailbox # <<>> /\ Head(mailbox).kind = kind /\ mailbox' = Tail(mailbox)
      /\ turn = "idle" /\ UNCHANGED <<pc, call>>
  BY DEF Takes
<1> QED
  BY <1>1, MailShrinks, HeadTailProperties DEF TypeOK

\* A message of another kind.
LEMMA TakesOther ==
  ASSUME TypeOK, NEW kind, Takes(kind), NEW kinds, kind \notin kinds
  PROVE  InMailbox(kinds) = InMailbox(kinds)' /\ UNCHANGED <<pc, call>>
<1>1. InMailbox(kinds)
        = InMailbox(kinds)' \union (IF kind \in kinds THEN {Head(mailbox).frame} ELSE {})
  BY TakesLine
<1>2. UNCHANGED <<pc, call>>
  BY DEF Takes
<1> QED
  BY <1>1, <1>2

\* Who is still without an answer was not the one answered.
LEMMA ReplyAnswers ==
  ASSUME TypeOK, NEW whom, NEW what, what \in {"yes", "no"}, Reply(whom, what), NEW s \in Senders, pc[s] = "blocked",
         answer'[s] = "none"
  PROVE  answer[s] = "none" /\ call[s].frame \notin whom
BY DEF Reply, TypeOK

\* The steps of a sender keep the two lines matched.
LEMMA SenderLines ==
  ASSUME TypeOK, LinesMatch, NEW s \in Senders, Charge(s) \/ SenderStep(s) \/ TimesOut(s)
  PROVE  LinesMatch'
<1>1. UNCHANGED <<waiters, waiting>>
  BY DEF Charge, SenderStep, Admitted, Refused, Lines, Calls, Answered, TimesOut, writer
<1>2. /\ \A t \in Senders \ {s} : pc'[t] = pc[t] /\ call'[t] = call[t] /\ answer'[t] = answer[t]
      /\ pc'[s] = "blocked" => Calls(s)
  <2>1. CASE Charge(s)
    BY <2>1 DEF Charge, TypeOK
  <2>2. CASE Admitted(s)
    BY <2>2 DEF Admitted, Returns, TypeOK
  <2>3. CASE Refused(s)
    BY <2>3 DEF Refused, Returns, TypeOK
  <2>4. CASE Lines(s)
    BY <2>4 DEF Lines, TypeOK
  <2>5. CASE Calls(s)
    BY <2>5 DEF Calls, TypeOK
  <2>6. CASE Answered(s)
    BY <2>6 DEF Answered, Returns, TypeOK
  <2>7. CASE TimesOut(s)
    BY <2>7 DEF TimesOut, Returns, TypeOK
  <2> QED
    BY <2>1, <2>2, <2>3, <2>4, <2>5, <2>6, <2>7 DEF SenderStep
<1>3. InMailbox({"wait"}) \subseteq InMailbox({"wait"})'
  <2>1. CASE mailbox' = mailbox
    BY <2>1, MailStays
  <2>2. CASE \E kind \in {"enqueue", "evicting", "waiting", "wait", "withdraw"} : Send(kind, call[s].frame)
    BY <2>2, SendGrows
  <2> QED
    BY <2>1, <2>2 DEF Charge, SenderStep, Admitted, Refused, Lines, Calls, Answered, TimesOut
<1>4. Calls(s) => call'[s].frame \in InMailbox({"wait"})'
  <2> SUFFICES ASSUME Calls(s) PROVE call'[s].frame \in InMailbox({"wait"})'
    OBVIOUS
  <2>1. Send("wait", call[s].frame) /\ call' = call
    BY DEF Calls
  <2> QED
    BY <2>1, SendGrows
<1>5. ASSUME NEW t \in Senders, pc'[t] = "blocked", answer'[t] = "none"
      PROVE  call'[t].frame \in Range(waiters') \union InMailbox({"wait"})'
  BY <1>1, <1>2, <1>3, <1>4, <1>5 DEF LinesMatch
<1>6. Len(waiters') <= Len(waiting')
  BY <1>1 DEF LinesMatch
<1> QED
  BY <1>5, <1>6 DEF LinesMatch

\* What a step of the writer must show: the callers it leaves unanswered were
\* so before, and are still in line.
LEMMA WriterLines ==
  ASSUME UNCHANGED <<pc, call>>, Len(waiters') <= Len(waiting'),
         NEW lost,
         Range(waiters) \union InMailbox({"wait"})
            \subseteq lost \union Range(waiters') \union InMailbox({"wait"})',
         \A s \in Senders : pc[s] = "blocked" /\ answer'[s] = "none" =>
            answer[s] = "none" /\ call[s].frame \notin lost,
         LinesMatch
  PROVE  LinesMatch'
BY DEF LinesMatch

\* So do the handlers of the writer,
LEMMA TurnLines ==
  ASSUME TypeOK, LinesMatch,
         OnEnqueue \/ OnEnqueueEvicting \/ OnCredit \/ OnWaiting \/ OnWait \/ OnWithdraw \/ OnClose
  PROVE  LinesMatch'
<1>0. waiting \in Seq(Frames) /\ waiters \in Seq(Frames) /\ Len(waiting) \in Nat /\ Len(waiters) \in Nat
      /\ Len(waiters) <= Len(waiting)
  BY LenProperties DEF TypeOK, LinesMatch
<1>1. CASE OnEnqueue \/ OnEnqueueEvicting \/ OnCredit \/ OnClose
  <2>1. /\ UNCHANGED <<answer, waiting, waiters>>
        /\ \E kind \in {"enqueue", "evicting", "credit", "close"} : Takes(kind)
    BY <1>1 DEF OnEnqueue, OnEnqueueEvicting, OnCredit, OnClose
  <2>2. InMailbox({"wait"}) = InMailbox({"wait"})' /\ UNCHANGED <<pc, call>>
    BY <2>1, TakesOther
  <2> QED
    BY <2>1, <2>2 DEF LinesMatch
<1>2. CASE OnWaiting
  <2>1. Takes("waiting") /\ waiting' = Append(waiting, Head(mailbox).frame) /\ UNCHANGED <<answer, waiters>>
    BY <1>2 DEF OnWaiting
  <2>2. InMailbox({"wait"}) = InMailbox({"wait"})' /\ UNCHANGED <<pc, call>> /\ Head(mailbox).frame \in Frames
    <3>1. InMailbox({"wait"}) = InMailbox({"wait"})' /\ UNCHANGED <<pc, call>>
      BY <2>1, TakesOther
    <3>2. Head(mailbox).frame \in Frames
      BY <2>1, TakesLine, MessageFrame
    <3> QED
      BY <3>1, <3>2
  <2>3. Len(waiting') = Len(waiting) + 1
    BY <1>0, <2>1, <2>2, AppendProperties
  <2>4. Len(waiters') <= Len(waiting')
    BY <1>0, <2>1, <2>3
  <2> QED
    BY <2>1, <2>2, <2>4 DEF LinesMatch
<1>3. CASE OnWait
  <2> DEFINE f == Head(mailbox).frame
  <2>1. Takes("wait") /\ UNCHANGED waiting
    BY <1>3 DEF OnWait
  <2>2. InMailbox({"wait"}) = InMailbox({"wait"})' \union {f} /\ UNCHANGED <<pc, call>> /\ f \in Frames
    BY <2>1, TakesLine, MessageFrame
  <2>3. CASE \E what \in {"yes", "no"} : Reply({f}, what) /\ UNCHANGED waiters
    <3>1. \A s \in Senders : pc[s] = "blocked" /\ answer'[s] = "none" =>
             answer[s] = "none" /\ call[s].frame \notin {f}
      BY <2>3, ReplyAnswers
    <3>2. Range(waiters) \union InMailbox({"wait"})
             \subseteq {f} \union Range(waiters') \union InMailbox({"wait"})'
      BY <2>2, <2>3
    <3>3. Len(waiters') <= Len(waiting')
      BY <1>0, <2>1, <2>3
    <3> QED
      BY <2>2, <3>1, <3>2, <3>3, WriterLines
  <2>4. CASE Len(waiters) < Len(waiting) /\ waiters' = Append(waiters, f) /\ UNCHANGED answer
    <3>1. Range(waiters') = Range(waiters) \union {f} /\ Len(waiters') = Len(waiters) + 1
      BY <1>0, <2>2, <2>4, RangeAppend, AppendProperties
    <3>2. Len(waiters') <= Len(waiting')
      BY <1>0, <2>1, <2>4, <3>1
    <3> QED
      BY <2>2, <2>4, <3>1, <3>2 DEF LinesMatch
  <2> QED
    BY <1>3, <2>3, <2>4 DEF OnWait
<1>4. CASE OnWithdraw
  <2>1. Takes("withdraw")
    BY <1>4 DEF OnWithdraw
  <2>2. InMailbox({"wait"}) = InMailbox({"wait"})' /\ UNCHANGED <<pc, call>>
    BY <2>1, TakesOther
  <2>3. CASE UNCHANGED <<waiting, waiters, answer>>
    BY <2>2, <2>3 DEF LinesMatch
  <2>4. CASE /\ \E i \in DOMAIN waiting : waiting' = RemoveAt(waiting, i)
             /\ waiters' = Rest(waiters)
             /\ Reply(Oldest(waiters), "no")
    <3>1. \A s \in Senders : pc[s] = "blocked" /\ answer'[s] = "none" =>
             answer[s] = "none" /\ call[s].frame \notin Oldest(waiters)
      BY <2>4, ReplyAnswers
    <3>2. Range(waiters) = Oldest(waiters) \union Range(waiters')
      BY <1>0, <2>4, RestIs
    <3>3. Len(waiting') = Len(waiting) - 1 /\ Len(waiting) # 0
      <4>1. PICK i \in 1..Len(waiting) : waiting' = RemoveAt(waiting, i)
        BY <1>0, <2>4, LenProperties
      <4> QED
        BY <1>0, <4>1, RemoveAtIs
    <3>4. Len(waiters') <= Len(waiting')
      <4>1. CASE waiters = <<>>
        BY <1>0, <2>4, <3>3, <4>1 DEF Rest
      <4>2. CASE waiters # <<>>
        <5>1. waiters' = Tail(waiters)
          BY <2>4, <4>2 DEF Rest
        <5>2. Len(Tail(waiters)) = Len(waiters) - 1
          BY <1>0, <4>2, HeadTailProperties
        <5> QED
          BY <1>0, <3>3, <5>1, <5>2
      <4> QED
        BY <4>1, <4>2
    <3> QED
      BY <2>2, <3>1, <3>2, <3>4, WriterLines
  <2> QED
    BY <1>4, <2>3, <2>4 DEF OnWithdraw
<1> QED
  BY <1>1, <1>2, <1>3, <1>4

\* the steps in which it serves its lines,
LEMMA ServeLines ==
  ASSUME TypeOK, InLine, LinesMatch, Writes \/ SendsAway \/ LooksForRoom \/ AdmitsFromLine
  PROVE  LinesMatch'
<1>0. waiting \in Seq(Frames) /\ waiters \in Seq(Frames) /\ Len(waiting) \in Nat /\ Len(waiters) \in Nat
      /\ Len(waiters) <= Len(waiting)
  BY LenProperties DEF TypeOK, LinesMatch
<1>1. CASE Writes \/ LooksForRoom
  <2>1. UNCHANGED <<pc, call, answer, mailbox, waiting, waiters>>
    BY <1>1 DEF Writes, LooksForRoom, sender, writer
  <2> QED
    BY <2>1, MailStays DEF LinesMatch
<1>2. CASE SendsAway
  <2>1. /\ waiting' = <<>> /\ waiters' = <<>> /\ Reply(Range(waiters), "no")
        /\ UNCHANGED <<pc, call, mailbox>>
    BY <1>2 DEF SendsAway
  <2>2. \A s \in Senders : pc[s] = "blocked" /\ answer'[s] = "none" =>
           answer[s] = "none" /\ call[s].frame \notin Range(waiters)
    BY <2>1, ReplyAnswers
  <2>3. InMailbox({"wait"})' = InMailbox({"wait"})
    BY <2>1, MailStays
  <2>4. Range(waiters) \union InMailbox({"wait"})
           \subseteq Range(waiters) \union Range(waiters') \union InMailbox({"wait"})'
    BY <2>3
  <2>5. Len(waiters') <= Len(waiting')
    BY <2>1, EmptySeq
  <2> QED
    BY <2>1, <2>2, <2>4, <2>5, WriterLines
<1>3. CASE AdmitsFromLine
  <2>1. /\ turn = "charge" /\ waiting' = Tail(waiting) /\ waiters' = Rest(waiters)
        /\ Reply(Oldest(waiters), "yes") /\ UNCHANGED <<pc, call, mailbox>>
    BY <1>3 DEF AdmitsFromLine
  <2>2. \A s \in Senders : pc[s] = "blocked" /\ answer'[s] = "none" =>
           answer[s] = "none" /\ call[s].frame \notin Oldest(waiters)
    BY <2>1, ReplyAnswers
  <2>3. InMailbox({"wait"})' = InMailbox({"wait"})
    BY <2>1, MailStays
  <2>4. Range(waiters) = Oldest(waiters) \union Range(waiters')
    BY <1>0, <2>1, RestIs
  <2>5. Len(waiters') <= Len(waiting')
    <3>1. Len(waiting') = Len(waiting) - 1 /\ Len(waiting) # 0
      BY <1>0, <2>1, HeadTailProperties, EmptySeq DEF InLine
    <3>2. CASE waiters = <<>>
      BY <1>0, <2>1, <3>1, <3>2 DEF Rest
    <3>3. CASE waiters # <<>>
      <4>1. waiters' = Tail(waiters)
        BY <2>1, <3>3 DEF Rest
      <4>2. Len(Tail(waiters)) = Len(waiters) - 1
        BY <1>0, <3>3, HeadTailProperties
      <4> QED
        BY <1>0, <3>1, <4>1, <4>2
    <3> QED
      BY <3>2, <3>3
  <2> QED
    BY <2>1, <2>2, <2>3, <2>4, <2>5, WriterLines
<1> QED
  BY <1>1, <1>2, <1>3

\* and the connection that ends.
LEMMA ConnectionLines ==
  ASSUME TypeOK, TypeOK', LinesMatch, Consumes \/ Breaks \/ OwnerCloses PROVE LinesMatch'
<1>1. UNCHANGED <<pc, call, answer, waiting, waiters>>
  BY DEF Consumes, Breaks, OwnerCloses, sender, writer
<1>2. InMailbox({"wait"}) \subseteq InMailbox({"wait"})'
  <2>1. CASE mailbox' = mailbox
    BY <2>1, MailStays
  <2>2. CASE \E m \in Messages : mailbox' = Append(mailbox, m)
    BY <2>2, MailGrows
  <2>3. [kind |-> "close"] \in Messages /\ [kind |-> "credit", total |-> consumed'] \in Messages
    BY DEF Messages, TypeOK
  <2> QED
    BY <2>1, <2>2, <2>3 DEF Consumes, Breaks, OwnerCloses
<1> QED
  BY <1>1, <1>2 DEF LinesMatch

\* Every step keeps the lines matched.
LEMMA NextLines == IInv /\ IInv' /\ LinesMatch /\ [Next]_vars => LinesMatch'
<1> SUFFICES ASSUME IInv, IInv', LinesMatch, [Next]_vars PROVE LinesMatch'
  OBVIOUS
<1>0. TypeOK /\ TypeOK' /\ InLine
  BY DEF IInv
<1>1. ASSUME NEW s \in Senders, Charge(s) \/ SenderStep(s) \/ TimesOut(s) PROVE LinesMatch'
  BY <1>0, <1>1, SenderLines
<1>2. CASE WriterStep
  BY <1>0, <1>2, TurnLines, ServeLines DEF WriterStep
<1>3. CASE Consumes \/ Breaks \/ OwnerCloses
  BY <1>0, <1>3, ConnectionLines
<1>4. CASE UNCHANGED vars
  BY <1>4 DEF vars, sender, writer, LinesMatch, InMailbox
<1> QED
  BY <1>1, <1>2, <1>3, <1>4 DEF Next

\* No blocked caller is left without a place in line, or a message on its way
\* there, and the counter never goes below zero (wait, withdraw, admit_waiting).
THEOREM QueueAlwaysOK == Spec => []QueueOK
<1>1. Init => LinesMatch
  BY EmptySeq DEF Init, LinesMatch
<1>2. IInv /\ Ledger /\ LinesMatch => QueueOK
  <2> SUFFICES ASSUME IInv, Ledger, LinesMatch PROVE QueueOK
    OBVIOUS
  <2>1. TypeOK /\ InLine
    BY DEF IInv
  <2>2. queued \in Nat
    <3>1. Charged \in Nat
      BY <2>1, Sums DEF Charged
    <3> QED
      BY <3>1 DEF Ledger
  <2> QED
    BY <2>1, <2>2 DEF QueueOK, InLine
<1> QED
  BY InitIInv, NextIInv, InitLedger, NextLedger, NextLines, <1>1, <1>2, PTL DEF Spec

-----------------------------------------------------------------------------
(* A frame whose caller was told Ok is kept.  The answer a caller gets may *)
(* have been another's, so that what is shown is more: from the moment a   *)
(* caller lines up, its own frame is kept until it is withdrawn, which     *)
(* only its own time-out asks for.                                         *)

Kept == InMailbox({"enqueue", "evicting", "waiting"})
        \union Range(waiting) \union Range(pending) \union Range(evicted) \union Range(log)

\* The call f belongs to is over.
Past(f) == \/ f.n < call[f.from].frame.n
           \/ f.n = call[f.from].frame.n /\ pc[f.from] = "ready"

Named == \A s \in Senders : call[s].frame.from = s

Settled == /\ \A f \in oked : Past(f)
           /\ \A f \in InMailbox({"withdraw"}) : Past(f) /\ f \notin oked

InLineFrames == {call[s].frame : s \in {t \in Senders : pc[t] \in {"lined", "blocked"}}}

Held == ~dead => oked \union InLineFrames \subseteq Kept

Keeping == Named /\ Settled /\ Held

\* What the mailbox names are frames.
LEMMA FramesInMail ==
  ASSUME TypeOK, NEW kinds, kinds \subseteq {"enqueue", "evicting", "waiting", "wait", "withdraw"}
  PROVE  InMailbox(kinds) \subseteq Frames
<1>1. \A i \in DOMAIN mailbox : mailbox[i] \in Messages
  BY ElementOfSeq, LenProperties DEF TypeOK
<1> QED
  BY <1>1, MessageFrame DEF InMailbox

\* What is past stays past.
LEMMA PastStays ==
  ASSUME TypeOK, TypeOK', NEW s \in Senders, Charge(s) \/ SenderStep(s) \/ TimesOut(s),
         NEW f \in Frames, Past(f)
  PROVE  Past(f)'
<1>0. f.from \in Senders /\ f.n \in Nat /\ call[s].frame.n \in Nat
  BY CallType DEF Frames
<1>1. CASE f.from = s
  <2>1. CASE Charge(s)
    <3>1. PICK n \in DOMAIN Requests[s] : \E r \in Requests[s][n] :
             /\ n = call[s].frame.n + 1
             /\ call' = [call EXCEPT ![s] =
                   [policy |-> r.policy, frame |-> [from |-> s, n |-> n, len |-> r.len]]]
      BY <2>1 DEF Charge
    <3>2. call'[s].frame.n = n /\ n = call[s].frame.n + 1
      BY <3>1 DEF TypeOK
    <3> QED
      BY <1>0, <1>1, <3>2 DEF Past
  <2>2. CASE SenderStep(s) \/ TimesOut(s)
    <3>1. call' = call /\ pc[s] # "ready"
      BY <2>2 DEF SenderStep, Admitted, Refused, Lines, Calls, Answered, TimesOut
    <3> QED
      BY <1>1, <3>1 DEF Past
  <2> QED
    BY <2>1, <2>2
<1>2. CASE f.from # s
  <2>1. pc'[f.from] = pc[f.from] /\ call'[f.from] = call[f.from]
    BY <1>0, <1>2 DEF Charge, SenderStep, Admitted, Refused, Lines, Calls, Answered, TimesOut, Returns, TypeOK
  <2> QED
    BY <2>1 DEF Past
<1> QED
  BY <1>1, <1>2

\* Every call is about a frame of the caller's own.
LEMMA NamedStays ==
  ASSUME TypeOK, Named, NEW s \in Senders, Charge(s) \/ SenderStep(s) \/ TimesOut(s) PROVE Named'
<1>1. CASE Charge(s)
  <2>1. call'[s].frame.from = s /\ \A t \in Senders \ {s} : call'[t] = call[t]
    BY <1>1 DEF Charge, TypeOK
  <2> QED
    BY <2>1 DEF Named
<1>2. CASE SenderStep(s) \/ TimesOut(s)
  BY <1>2 DEF Named, SenderStep, Admitted, Refused, Lines, Calls, Answered, TimesOut
<1> QED
  BY <1>1, <1>2

\* The frame of a call that is not over is not past.
LEMMA NotPast ==
  ASSUME TypeOK, Named, NEW s \in Senders, pc[s] # "ready" PROVE ~Past(call[s].frame)
<1>1. call[s].frame.from = s /\ call[s].frame.n \in Nat
  BY CallType DEF Named, Frames
<1> QED
  BY <1>1 DEF Past

\* A call that just ended is past.
LEMMA NowPast ==
  ASSUME TypeOK, TypeOK', Named, NEW s \in Senders, call' = call, pc'[s] = "ready",
         NEW f, f = call[s].frame
  PROVE  Past(f)'
<1>1. f.from = s
  BY DEF Named
<1>2. call'[f.from].frame.n = f.n
  BY <1>1
<1> QED
  BY <1>1, <1>2 DEF Past

\* What a sender's step does to the lines, the mailbox and its own call.
LEMMA SenderSettles ==
  ASSUME TypeOK, TypeOK', Named, Settled, NEW s \in Senders, Charge(s) \/ SenderStep(s) \/ TimesOut(s)
  PROVE  Settled'
<1>f. PICK f : f = call[s].frame
  OBVIOUS
<1>0. f \in Frames /\ oked \subseteq Frames
  BY <1>f, CallType DEF TypeOK
<1>1. \A g \in oked \union InMailbox({"withdraw"}) : Past(g)'
  <2>1. \A g \in oked \union InMailbox({"withdraw"}) : g \in Frames /\ Past(g)
    BY <1>0, FramesInMail DEF Settled
  <2> QED
    BY <2>1, PastStays
<1>2. CASE Charge(s) \/ Refused(s)
  <2>1. mailbox' = mailbox /\ oked' = oked
    BY <1>2 DEF Charge, Refused, Returns, history
  <2> QED
    BY <1>1, <2>1, MailStays DEF Settled
<1>3. CASE Lines(s) \/ Calls(s)
  <2>1. \E kind \in {"waiting", "wait"} : Send(kind, f)
    BY <1>3, <1>f DEF Lines, Calls
  <2>2. InMailbox({"withdraw"})' = InMailbox({"withdraw"})
    BY <1>f, <2>1, SendOther
  <2>3. oked' = oked
    BY <1>3 DEF Lines, Calls, history
  <2> QED
    BY <1>1, <2>2, <2>3 DEF Settled
<1>4. CASE Admitted(s) \/ Answered(s)
  <2>1. pc[s] # "ready" /\ pc'[s] = "ready" /\ call' = call /\ oked' \subseteq oked \union {f}
    BY <1>4, <1>f DEF Admitted, Answered, Returns, TypeOK
  <2>2. InMailbox({"withdraw"})' = InMailbox({"withdraw"})
    <3>1. CASE Admitted(s)
      <4>1. \E kind \in {"enqueue", "evicting"} : Send(kind, f)
        BY <1>f, <3>1 DEF Admitted
      <4> QED
        BY <1>f, <4>1, SendOther
    <3>2. CASE Answered(s)
      BY <3>2, MailStays DEF Answered
    <3> QED
      BY <1>4, <3>1, <3>2
  <2>3. Past(f)'
    BY <1>f, <2>1, NowPast
  <2>4. f \notin InMailbox({"withdraw"})
    BY <1>f, <2>1, NotPast DEF Settled
  <2> QED
    BY <1>1, <2>1, <2>2, <2>3, <2>4 DEF Settled
<1>5. CASE TimesOut(s)
  <2>1. /\ pc[s] # "ready" /\ pc'[s] = "ready" /\ call' = call /\ oked' = oked
        /\ Send("withdraw", f)
    BY <1>5, <1>f DEF TimesOut, Returns, TypeOK
  <2>2. InMailbox({"withdraw"})' = InMailbox({"withdraw"}) \union {f}
    BY <1>f, <2>1, SendGrows
  <2>3. Past(f)'
    BY <1>f, <2>1, NowPast
  <2>4. f \notin oked
    BY <1>f, <2>1, NotPast DEF Settled
  <2> QED
    BY <1>1, <2>1, <2>2, <2>3, <2>4 DEF Settled
<1> QED
  BY <1>2, <1>3, <1>4, <1>5 DEF SenderStep

\* The steps of a sender keep what it was told is kept.
LEMMA SenderHolds ==
  ASSUME TypeOK, TypeOK', Held, NEW s \in Senders, Charge(s) \/ SenderStep(s) \/ TimesOut(s)
  PROVE  Held'
<1> DEFINE f == call[s].frame
           kinds == {"enqueue", "evicting", "waiting"}
<1>1. UNCHANGED <<dead, waiting, pending, evicted, log>>
  BY DEF Charge, SenderStep, Admitted, Refused, Lines, Calls, Answered, TimesOut, Returns, writer, history
<1>2. InMailbox(kinds) \subseteq InMailbox(kinds)'
  <2>1. CASE mailbox' = mailbox
    BY <2>1, MailStays
  <2>2. CASE \E kind \in {"enqueue", "evicting", "waiting", "wait", "withdraw"} : Send(kind, f)
    BY <2>2, SendGrows
  <2> QED
    BY <2>1, <2>2 DEF Charge, SenderStep, Admitted, Refused, Lines, Calls, Answered, TimesOut
<1>3. Kept \subseteq Kept'
  BY <1>1, <1>2 DEF Kept
<1>4. \A t \in Senders \ {s} : pc'[t] = pc[t] /\ call'[t] = call[t]
  BY DEF Charge, SenderStep, Admitted, Refused, Lines, Calls, Answered, TimesOut, Returns, TypeOK
<1>5. ASSUME ~dead, pc'[s] \in {"lined", "blocked"} PROVE call'[s].frame \in Kept'
  <2>1. Lines(s) \/ Calls(s)
    BY <1>5 DEF Charge, SenderStep, Admitted, Refused, Answered, TimesOut, Returns, TypeOK
  <2>2. call' = call
    BY <2>1 DEF Lines, Calls
  <2>3. CASE Lines(s)
    <3>1. f \in InMailbox(kinds)'
      <4>1. Send("waiting", f)
        BY <2>3 DEF Lines
      <4> QED
        BY <4>1, SendGrows
    <3> QED
      BY <2>2, <3>1 DEF Kept
  <2>4. CASE Calls(s)
    <3>1. f \in InLineFrames
      BY <2>4 DEF Calls, InLineFrames
    <3> QED
      BY <1>3, <1>5, <2>2, <3>1 DEF Held
  <2> QED
    BY <2>1, <2>3, <2>4
<1>6. ASSUME ~dead, NEW g \in oked' PROVE g \in Kept'
  <2>1. CASE g \in oked
    BY <1>3, <1>6, <2>1 DEF Held
  <2>2. CASE g \notin oked
    <3>1. g = f /\ (Admitted(s) \/ Answered(s))
      BY <1>6, <2>2 DEF Charge, SenderStep, Admitted, Refused, Lines, Calls, Answered, TimesOut, Returns, history
    <3>2. CASE Admitted(s)
      <4>1. \E kind \in {"enqueue", "evicting"} : Send(kind, f)
        BY <3>2 DEF Admitted
      <4>2. f \in InMailbox(kinds)'
        BY <4>1, SendGrows
      <4> QED
        BY <3>1, <4>2 DEF Kept
    <3>3. CASE Answered(s)
      <4>1. f \in InLineFrames
        BY <3>3 DEF Answered, InLineFrames
      <4> QED
        BY <1>3, <1>6, <3>1, <4>1 DEF Held
    <3> QED
      BY <3>1, <3>2, <3>3
  <2> QED
    BY <2>1, <2>2
<1>7. ASSUME ~dead, NEW t \in Senders, pc'[t] \in {"lined", "blocked"} PROVE call'[t].frame \in Kept'
  <2>1. CASE t = s
    BY <1>5, <1>7, <2>1
  <2>2. CASE t # s
    <3>1. call'[t].frame \in InLineFrames
      BY <1>4, <1>7, <2>2 DEF InLineFrames
    <3> QED
      BY <1>3, <1>7, <3>1 DEF Held
  <2> QED
    BY <2>1, <2>2
<1> QED
  BY <1>1, <1>6, <1>7 DEF Held, InLineFrames

\* A step that is not a sender's: what it must not lose.
LEMMA OthersKeep ==
  ASSUME TypeOK, Keeping, UNCHANGED <<pc, call, oked>>,
         InMailbox({"withdraw"})' \subseteq InMailbox({"withdraw"}),
         ~dead' => ~dead /\ oked \union InLineFrames \subseteq Kept'
  PROVE  Keeping'
<1>1. Named'
  BY DEF Keeping, Named
<1>2. Settled'
  BY DEF Keeping, Settled, Past
<1>3. InLineFrames' = InLineFrames
  BY DEF InLineFrames
<1>4. Held'
  BY <1>3 DEF Held
<1> QED
  BY <1>1, <1>2, <1>4 DEF Keeping

Carrying == {"enqueue", "evicting", "waiting"}

\* The frames of a live connection go from one place to the next.
LEMMA KeptIs ==
  Kept = InMailbox(Carrying) \union Range(waiting) \union Range(pending) \union Range(evicted) \union Range(log)
BY DEF Kept, Carrying

\* On a live connection, what was told Ok or waits in line is kept.
LEMMA HeldNow ==
  ASSUME Keeping, ~dead PROVE oked \union InLineFrames \subseteq Kept
BY DEF Keeping, Held

\* A turn that begins loses no withdrawal, and no frame but that of its message.
LEMMA TurnKeeps ==
  ASSUME TypeOK, NEW kind, Takes(kind)
  PROVE  /\ UNCHANGED <<pc, call, oked, log>>
         /\ InMailbox({"withdraw"})' \subseteq InMailbox({"withdraw"})
         /\ InMailbox(Carrying)
              = InMailbox(Carrying)' \union (IF kind \in Carrying THEN {Head(mailbox).frame} ELSE {})
         /\ kind \in Carrying => Head(mailbox).frame \in Frames
<1>1. UNCHANGED <<pc, call, oked, log>>
  BY DEF Takes, history
<1>2. InMailbox({"withdraw"})' \subseteq InMailbox({"withdraw"})
  BY TakesLine
<1>3. InMailbox(Carrying)
        = InMailbox(Carrying)' \union (IF kind \in Carrying THEN {Head(mailbox).frame} ELSE {})
  BY TakesLine
<1>4. kind \in Carrying => Head(mailbox).frame \in Frames
  BY TakesLine, MessageFrame DEF Carrying
<1> QED
  BY <1>1, <1>2, <1>3, <1>4

\* Another message than those that carry a frame to keep.
LEMMA TurnKeepsMail ==
  ASSUME TypeOK, NEW kind, Takes(kind), kind \notin Carrying
  PROVE  InMailbox(Carrying) = InMailbox(Carrying)'
BY TurnKeeps

\* The handlers lose no frame that is kept,
LEMMA TurnsKeep ==
  ASSUME TypeOK, Keeping,
         OnEnqueue \/ OnEnqueueEvicting \/ OnCredit \/ OnWaiting \/ OnWait \/ OnWithdraw \/ OnClose
  PROVE  Keeping'
<1>0. waiting \in Seq(Frames) /\ pending \in Seq(Frames) /\ evicted \in Seq(Frames)
  BY DEF TypeOK
<1>1. PICK f : f = Head(mailbox).frame
  OBVIOUS
<1>2. CASE OnEnqueue
  <2>1. Takes("enqueue") /\ UNCHANGED <<waiting, evicted, dead>> /\ (~dead => pending' = Append(pending, f))
    BY <1>1, <1>2 DEF OnEnqueue
  <2>2. InMailbox(Carrying) = InMailbox(Carrying)' \union {f} /\ f \in Frames
    BY <1>1, <2>1, TurnKeeps DEF Carrying
  <2>3. UNCHANGED <<pc, call, oked, log>> /\ InMailbox({"withdraw"})' \subseteq InMailbox({"withdraw"})
    BY <2>1, TurnKeeps
  <2>4. ~dead => Range(pending') = Range(pending) \union {f}
    <3>1. Range(Append(pending, f)) = Range(pending) \union {f}
      BY <1>0, <2>2, RangeAppend
    <3> QED
      BY <2>1, <3>1
  <2>5. ~dead => Kept \subseteq Kept'
    BY <2>1, <2>2, <2>3, <2>4, KeptIs DEF Kept, Carrying
  <2> QED
    BY <2>1, <2>3, <2>5, HeldNow, OthersKeep
<1>3. CASE OnEnqueueEvicting
  <2>1. Takes("evicting") /\ UNCHANGED <<waiting, dead>>
    BY <1>3 DEF OnEnqueueEvicting
  <2>2. PICK k \in 0..Len(pending) :
          /\ pending' = Append(SubSeq(pending, k + 1, Len(pending)), f)
          /\ evicted' = evicted \o SubSeq(pending, 1, k)
    BY <1>1, <1>3 DEF OnEnqueueEvicting
  <2>3. InMailbox(Carrying) = InMailbox(Carrying)' \union {f} /\ f \in Frames
    BY <1>1, <2>1, TurnKeeps DEF Carrying
  <2>4. UNCHANGED <<pc, call, oked, log>> /\ InMailbox({"withdraw"})' \subseteq InMailbox({"withdraw"})
    BY <2>1, TurnKeeps
  <2>5. PICK gone : gone = SubSeq(pending, 1, k)
    OBVIOUS
  <2>6. PICK left : left = SubSeq(pending, k + 1, Len(pending))
    OBVIOUS
  <2>7. gone \in Seq(Frames) /\ left \in Seq(Frames)
    BY <1>0, <2>5, <2>6, BytesSplit
  <2>8. Range(pending) = Range(gone) \union Range(left)
    BY <1>0, <2>5, <2>6, RangeSplit
  <2>9. Range(pending') = Range(left) \union {f}
    <3>1. Range(Append(left, f)) = Range(left) \union {f}
      BY <2>3, <2>7, RangeAppend
    <3> QED
      BY <2>2, <2>6, <3>1
  <2>10. Range(evicted') = Range(evicted) \union Range(gone)
    <3>1. Range(evicted \o gone) = Range(evicted) \union Range(gone)
      BY <1>0, <2>7, RangeConcatenation
    <3> QED
      BY <2>2, <2>5, <3>1
  <2>11. Kept \subseteq Kept'
    BY <2>1, <2>3, <2>4, <2>8, <2>9, <2>10 DEF Kept, Carrying
  <2> QED
    BY <2>1, <2>4, <2>11, HeldNow, OthersKeep
<1>4. CASE OnCredit \/ OnWait
  <2>1. /\ \E kind \in {"credit", "wait"} : Takes(kind)
        /\ UNCHANGED <<waiting, pending, evicted, dead>>
    BY <1>4 DEF OnCredit, OnWait
  <2>2. InMailbox(Carrying) = InMailbox(Carrying)'
    BY <2>1, TurnKeepsMail DEF Carrying
  <2>3. UNCHANGED <<pc, call, oked, log>> /\ InMailbox({"withdraw"})' \subseteq InMailbox({"withdraw"})
    BY <2>1, TurnKeeps
  <2>4. Kept \subseteq Kept'
    BY <2>1, <2>2, <2>3 DEF Kept, Carrying
  <2> QED
    BY <2>1, <2>3, <2>4, HeldNow, OthersKeep
<1>5. CASE OnWaiting
  <2>1. Takes("waiting") /\ UNCHANGED <<pending, evicted, dead>> /\ waiting' = Append(waiting, f)
    BY <1>1, <1>5 DEF OnWaiting
  <2>2. InMailbox(Carrying) = InMailbox(Carrying)' \union {f} /\ f \in Frames
    BY <1>1, <2>1, TurnKeeps DEF Carrying
  <2>3. UNCHANGED <<pc, call, oked, log>> /\ InMailbox({"withdraw"})' \subseteq InMailbox({"withdraw"})
    BY <2>1, TurnKeeps
  <2>4. Range(waiting') = Range(waiting) \union {f}
    BY <1>0, <2>1, <2>2, RangeAppend
  <2>5. Kept \subseteq Kept'
    BY <2>1, <2>2, <2>3, <2>4 DEF Kept, Carrying
  <2> QED
    BY <2>1, <2>3, <2>5, HeldNow, OthersKeep
<1>6. CASE OnWithdraw
  <2>1. Takes("withdraw") /\ UNCHANGED <<pending, evicted, dead>>
    BY <1>6 DEF OnWithdraw
  <2>2. InMailbox(Carrying) = InMailbox(Carrying)'
    BY <2>1, TurnKeepsMail DEF Carrying
  <2>3. UNCHANGED <<pc, call, oked, log>> /\ InMailbox({"withdraw"})' \subseteq InMailbox({"withdraw"})
    BY <2>1, TurnKeeps
  <2>4. f \in InMailbox({"withdraw"})
    <3>1. InMailbox({"withdraw"})
            = InMailbox({"withdraw"})' \union (IF "withdraw" \in {"withdraw"} THEN {Head(mailbox).frame} ELSE {})
      BY <2>1, TakesLine
    <3> QED
      BY <1>1, <3>1
  <2>5. f \notin oked /\ Past(f)
    BY <2>4 DEF Keeping, Settled
  <2>6. f \notin InLineFrames
    BY <2>5, NotPast DEF InLineFrames, Keeping
  <2>7. Range(waiting) \subseteq {f} \union Range(waiting')
    <3>1. CASE waiting' = waiting
      BY <3>1
    <3>2. CASE \E i \in DOMAIN waiting : waiting[i] = f /\ waiting' = RemoveAt(waiting, i)
      <4>1. PICK i \in 1..Len(waiting) : waiting[i] = f /\ waiting' = RemoveAt(waiting, i)
        BY <1>0, <3>2, LenProperties
      <4> QED
        BY <1>0, <4>1, RemoveAtIs
    <3> QED
      BY <1>1, <1>6, <3>1, <3>2 DEF OnWithdraw
  <2>8. Kept \subseteq Kept' \union {f}
    BY <2>1, <2>2, <2>3, <2>7 DEF Kept, Carrying
  <2>9. ~dead => oked \union InLineFrames \subseteq Kept'
    BY <2>5, <2>6, <2>8, HeldNow
  <2> QED
    BY <2>1, <2>3, <2>9, OthersKeep
<1>7. CASE OnClose
  <2>1. Takes("close") /\ dead' = TRUE
    BY <1>7 DEF OnClose
  <2>2. UNCHANGED <<pc, call, oked>> /\ InMailbox({"withdraw"})' \subseteq InMailbox({"withdraw"})
    BY <2>1, TurnKeeps
  <2> QED
    BY <2>1, <2>2, OthersKeep
<1> QED
  BY <1>2, <1>3, <1>4, <1>5, <1>6, <1>7

\* nor do the steps in which the writer serves its lines,
LEMMA ServesKeep ==
  ASSUME TypeOK, InLine, Keeping, Writes \/ SendsAway \/ LooksForRoom \/ AdmitsFromLine
  PROVE  Keeping'
<1>0. /\ waiting \in Seq(Frames) /\ pending \in Seq(Frames) /\ log \in Seq(Frames)
      /\ UNCHANGED <<pc, call, mailbox, oked>>
  BY DEF TypeOK, Writes, SendsAway, LooksForRoom, AdmitsFromLine, sender, history
<1>1. InMailbox({"withdraw"})' = InMailbox({"withdraw"}) /\ InMailbox(Carrying)' = InMailbox(Carrying)
  BY <1>0, MailStays
<1>2. CASE Writes
  <2>1. PICK f : f = Head(pending)
    OBVIOUS
  <2>2. pending # <<>> /\ UNCHANGED <<waiting, evicted>>
    BY <1>2 DEF Writes, MayWrite
  <2>3. CASE pending' = Tail(pending) /\ log' = Append(log, f) /\ dead' = dead
    <3>1. Range(pending) = {f} \union Range(pending') /\ f \in Frames
      BY <1>0, <2>1, <2>2, <2>3, RangeTail, HeadTailProperties
    <3>2. Range(log') = Range(log) \union {f}
      BY <1>0, <2>3, <3>1, RangeAppend
    <3>3. Kept \subseteq Kept'
      BY <1>1, <2>2, <3>1, <3>2 DEF Kept, Carrying
    <3> QED
      BY <1>0, <1>1, <2>3, <3>3, HeldNow, OthersKeep
  <2>4. CASE dead' = TRUE
    BY <1>0, <1>1, <2>4, OthersKeep
  <2> QED
    BY <1>2, <2>1, <2>3, <2>4 DEF Writes
<1>3. CASE SendsAway
  <2>1. dead /\ dead' = dead
    BY <1>3 DEF SendsAway
  <2> QED
    BY <1>0, <1>1, <2>1, OthersKeep
<1>4. CASE LooksForRoom
  <2>1. UNCHANGED <<waiting, pending, evicted, log, dead>>
    BY <1>4 DEF LooksForRoom, writer, history
  <2>2. Kept \subseteq Kept'
    BY <1>1, <2>1 DEF Kept, Carrying
  <2> QED
    BY <1>0, <1>1, <2>1, <2>2, HeldNow, OthersKeep
<1>5. CASE AdmitsFromLine
  <2>1. PICK f : f = Head(waiting)
    OBVIOUS
  <2>2. /\ waiting # <<>> /\ waiting' = Tail(waiting) /\ pending' = Append(pending, f)
        /\ UNCHANGED <<evicted, dead, log>>
    BY <1>5, <2>1 DEF AdmitsFromLine, InLine, history
  <2>3. Range(waiting) = {f} \union Range(waiting') /\ f \in Frames
    BY <1>0, <2>1, <2>2, RangeTail, HeadTailProperties
  <2>4. Range(pending') = Range(pending) \union {f}
    BY <1>0, <2>2, <2>3, RangeAppend
  <2>5. Kept \subseteq Kept'
    BY <1>1, <2>2, <2>3, <2>4 DEF Kept, Carrying
  <2> QED
    BY <1>0, <1>1, <2>2, <2>5, HeldNow, OthersKeep
<1> QED
  BY <1>2, <1>3, <1>4, <1>5

\* nor the connection, until it ends.
LEMMA ConnectionKeeps ==
  ASSUME TypeOK, TypeOK', Keeping, Consumes \/ Breaks \/ OwnerCloses PROVE Keeping'
<1>1. UNCHANGED <<pc, call, waiting, pending, evicted, log, dead, oked>>
  BY DEF Consumes, Breaks, OwnerCloses, sender, writer, history
<1>2. InMailbox({"withdraw"})' = InMailbox({"withdraw"}) /\ InMailbox(Carrying)' = InMailbox(Carrying)
  <2>1. CASE mailbox' = mailbox
    BY <2>1, MailStays
  <2>2. ASSUME NEW m \in Messages, m.kind \in {"credit", "close"}, mailbox' = Append(mailbox, m)
        PROVE  InMailbox({"withdraw"})' = InMailbox({"withdraw"}) /\ InMailbox(Carrying)' = InMailbox(Carrying)
    <3>1. m.kind \notin {"withdraw"} /\ m.kind \notin Carrying
      BY <2>2 DEF Carrying
    <3>2. ASSUME NEW kinds, m.kind \notin kinds PROVE InMailbox(kinds)' = InMailbox(kinds)
      <4>1. InMailbox(kinds)' = InMailbox(kinds) \union (IF m.kind \in kinds THEN {m.frame} ELSE {})
        BY <2>2, MailGrows
      <4> QED
        BY <3>2, <4>1
    <3> QED
      BY <3>1, <3>2
  <2>3. /\ [kind |-> "close"] \in Messages /\ [kind |-> "close"].kind = "close"
        /\ [kind |-> "credit", total |-> consumed'] \in Messages
        /\ [kind |-> "credit", total |-> consumed'].kind = "credit"
    BY DEF Messages, TypeOK
  <2> QED
    BY <2>1, <2>2, <2>3 DEF Consumes, Breaks, OwnerCloses
<1>3. Kept \subseteq Kept'
  BY <1>1, <1>2 DEF Kept, Carrying
<1> QED
  BY <1>1, <1>2, <1>3, HeldNow, OthersKeep

\* Every step keeps what is kept.
LEMMA NextKeeping == IInv /\ IInv' /\ Keeping /\ [Next]_vars => Keeping'
<1> SUFFICES ASSUME IInv, IInv', Keeping, [Next]_vars PROVE Keeping'
  OBVIOUS
<1>0. TypeOK /\ TypeOK' /\ InLine
  BY DEF IInv
<1>1. ASSUME NEW s \in Senders, Charge(s) \/ SenderStep(s) \/ TimesOut(s) PROVE Keeping'
  BY <1>0, <1>1, NamedStays, SenderSettles, SenderHolds DEF Keeping
<1>2. CASE WriterStep
  BY <1>0, <1>2, TurnsKeep, ServesKeep DEF WriterStep
<1>3. CASE Consumes \/ Breaks \/ OwnerCloses
  BY <1>0, <1>3, ConnectionKeeps
<1>4. CASE UNCHANGED vars
  <2>1. UNCHANGED <<pc, call, mailbox, waiting, pending, evicted, log, dead, oked>>
    BY <1>4 DEF vars, sender, writer, history
  <2>2. Kept' = Kept /\ InMailbox({"withdraw"})' = InMailbox({"withdraw"})
    BY <2>1 DEF Kept, InMailbox
  <2> QED
    BY <1>0, <2>1, <2>2, HeldNow, OthersKeep
<1> QED
  BY <1>1, <1>2, <1>3, <1>4 DEF Next

\* A frame whose caller was told Ok is not lost while the connection lives, even
\* though the answer may have been meant for another (enqueue, admit_evicting,
\* withdraw, admit_waiting and drain).
THEOREM OkAlwaysKept == Spec => []OkIsKept
<1>1. Init => Keeping
  BY DEF Init, Keeping, Named, Settled, Held, InLineFrames, InMailbox
<1>2. Keeping => OkIsKept
  <2> SUFFICES ASSUME Keeping, ~dead PROVE oked \subseteq InMailbox({"enqueue", "evicting", "waiting"})
        \union UNION {Range(line) : line \in {waiting, pending, evicted, log}}
    BY DEF OkIsKept
  <2>1. oked \subseteq Kept
    BY HeldNow
  <2> QED
    BY <2>1 DEF Kept
<1> QED
  BY InitIInv, NextIInv, NextKeeping, <1>1, <1>2, PTL DEF Spec
=============================================================================
