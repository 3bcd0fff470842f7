-------------------------- MODULE HttpTools_proofs --------------------------
(***************************************************************************)
(* Theorems about HttpTools, for every number of requests and every value   *)
(* of the other constants.                                                  *)
(***************************************************************************)
EXTENDS HttpTools, TLAPS

\* The fields of the messages that send() reads.
LEMMA MessageFields ==
    ASSUME NEW m \in Messages
    PROVE  /\ m.kind = "start" => /\ m.length \in Nat \cup {Chunked}
                                  /\ m.close \in BOOLEAN /\ m.valid \in BOOLEAN
           /\ m.kind # "start" => m.size \in Nat /\ m.more \in BOOLEAN
  <1>1. CASE m \in StartMessages
    <2>1. m.kind = "start" /\ m.length \in Lengths \cup {Chunked}
          /\ m.close \in BOOLEAN /\ m.valid \in IF BadHeaders THEN BOOLEAN ELSE {TRUE}
      BY <1>1 DEF StartMessages
    <2>2. m.valid \in BOOLEAN
      BY <2>1
    <2> QED BY <2>1, <2>2, ConstantsAssumption
  <1>2. CASE m \in BodyMessages
    BY <1>2, ConstantsAssumption DEF BodyMessages
  <1>3. CASE m = CannedStart
    BY <1>3 DEF CannedStart
  <1>4. CASE m = CannedBody
    BY <1>4 DEF CannedBody
  <1> QED BY <1>1, <1>2, <1>3, <1>4 DEF Messages

\* Whatever a task may send is a message, and only live tasks send.
LEMMA OffersAreMessages ==
    ASSUME NEW r \in Requests
    PROVE  Offers(r) \subseteq Messages /\ (Offers(r) # {} => task[r] \in Live)
  BY DEF Offers, Messages, Live

\* send() keeps every variable in its type, for any message.
LEMMA TransmitTypeOK ==
    ASSUME TypeOK, NEW r \in Requests, NEW m \in Messages, Transmit(r, m)
    PROVE  /\ ConnTypeOK' /\ QueueTypeOK' /\ InTypeOK' /\ WakeTypeOK'
           /\ OutTypeOK' /\ CycleTypeOK'
  <1> DEFINE T == Live \cup {"none", "queued", "queued503", "done"}
  <1>0. Advanced(r) \in [Requests -> T]
    BY DEF TypeOK, CycleTypeOK, Advanced, After, Live
  <1>1. CASE SendStart(r, m)
    <2>1. ConnTypeOK' /\ QueueTypeOK' /\ InTypeOK' /\ WakeTypeOK'
      BY <1>1 DEF SendStart, TypeOK, ConnTypeOK, QueueTypeOK, InTypeOK, WakeTypeOK,
                  Write, restVars, queueVars, wakeVars
    <2>2. OutTypeOK'
      BY <1>1, MessageFields DEF SendStart, TypeOK, OutTypeOK
    <2>3. CycleTypeOK'
      BY <1>0, <1>1, MessageFields DEF SendStart, TypeOK, CycleTypeOK
    <2> QED BY <2>1, <2>2, <2>3
  <1>2. ASSUME Accepts(r, m) PROVE Remaining(r, m) \in Nat /\ m.size \in Nat
    BY <1>2, MessageFields DEF Accepts, Remaining, TypeOK, OutTypeOK
  <1>3. ASSUME Accepts(r, m), WriteBody(r, m)
        PROVE  /\ expected' \in [Requests -> Nat] /\ written' \in [Requests -> Nat]
               /\ writePaused' \in BOOLEAN
    <2>1. expected' \in [Requests -> Nat]
      BY <1>2, <1>3 DEF WriteBody, TypeOK, OutTypeOK
    <2>2. written[r] + m.size \in Nat /\ written[r] \in Nat
      BY <1>2, <1>3 DEF TypeOK, OutTypeOK
    <2>3. written' \in [Requests -> Nat]
      BY <1>3, <2>2 DEF WriteBody, TypeOK, OutTypeOK
    <2>4. writePaused' \in BOOLEAN
      BY <1>3 DEF WriteBody, Write, TypeOK, ConnTypeOK
    <2> QED BY <2>1, <2>3, <2>4
  <1>4. CASE SendPart(r, m)
    BY <1>0, <1>3, <1>4
       DEF SendPart, TypeOK, ConnTypeOK, QueueTypeOK, InTypeOK, WakeTypeOK, OutTypeOK,
           CycleTypeOK, restVars, queueVars, inVars, wakeVars
  <1>5. CASE SendLast(r, m)
    <2>1. OutTypeOK' /\ InTypeOK' /\ WakeTypeOK'
      BY <1>3, <1>5 DEF SendLast, SetEvent, TypeOK, InTypeOK, WakeTypeOK, OutTypeOK, inVars
    <2>2. ConnTypeOK'
      BY <1>3, <1>5
         DEF SendLast, OnResponseComplete, ResumeReading, AfterLast, Closed, TypeOK,
             ConnTypeOK, restVars
    <2>3. pipeline # <<>> => Head(pipeline) \in Requests /\ Tail(pipeline) \in Seq(Requests)
      BY DEF TypeOK, QueueTypeOK
    <2>4. QueueTypeOK'
      <3>1. OnResponseComplete(r, transport') /\ cycle' = cycle
        BY <1>5 DEF SendLast
      <3>2. totalRequests' \in Nat
        BY <3>1 DEF OnResponseComplete, CountRequest, TypeOK, QueueTypeOK
      <3>3. timer' \in BOOLEAN
        BY <3>1 DEF OnResponseComplete, UnsetKeepAlive, TypeOK, QueueTypeOK
      <3>4. pipeline' \in Seq(Requests)
        BY <2>3, <3>1 DEF OnResponseComplete, HasNext, TypeOK, QueueTypeOK
      <3> QED BY <3>1, <3>2, <3>3, <3>4 DEF TypeOK, QueueTypeOK
    <2>5. CycleTypeOK'
      BY <1>0, <1>5, <2>3
         DEF SendLast, OnResponseComplete, StartTask, HasNext, TypeOK, CycleTypeOK, Live
    <2> QED BY <2>1, <2>2, <2>4, <2>5
  <1>6. CASE SendWithoutEffect(r, m)
    BY <1>0, <1>6
       DEF SendWithoutEffect, TypeOK, ConnTypeOK, QueueTypeOK, InTypeOK, WakeTypeOK,
           OutTypeOK, CycleTypeOK, connVars, restVars, queueVars, inVars, wakeVars, outVars
  <1> QED BY <1>1, <1>4, <1>5, <1>6 DEF Transmit

-----------------------------------------------------------------------------
(* Type correctness                                                         *)

\* The initial state is in the types.
LEMMA TypeOKInit == Init => TypeOK
  <1> SUFFICES ASSUME Init PROVE TypeOK
    OBVIOUS
  <1> USE DEF Init, All
  <1>1. ConnTypeOK
    BY DEF ConnTypeOK
  <1>2. QueueTypeOK
    <2>1. cycle \in 0 .. NumRequests
      BY ConstantsAssumption
    <2>2. pipeline \in Seq(Requests)
      OBVIOUS
    <2> QED BY <2>1, <2>2 DEF QueueTypeOK
  <1>3. InTypeOK /\ WakeTypeOK
    BY DEF InTypeOK, WakeTypeOK
  <1>4. OutTypeOK
    BY DEF OutTypeOK
  <1>5. SendTypeOK
    BY DEF SendTypeOK
  <1>6. CycleTypeOK
    BY DEF CycleTypeOK
  <1> QED BY <1>1, <1>2, <1>3, <1>4, <1>5, <1>6 DEF TypeOK

\* Setting message_event keeps the types.
LEMMA SetEventTypeOK ==
    ASSUME WakeTypeOK, NEW r, SetEvent(r)
    PROVE  WakeTypeOK'
  <1>1. event' \in [Requests -> BOOLEAN]
    BY DEF WakeTypeOK, SetEvent
  <1>2. receiving' \in [Requests -> {"no", "waiting", "woken"}]
    BY DEF WakeTypeOK, SetEvent
  <1> QED BY <1>1, <1>2 DEF WakeTypeOK

\* The parser's callbacks keep the types,
LEMMA ParserTypeOK == TypeOK /\ ParserStep => TypeOK'
  <1> SUFFICES ASSUME TypeOK, ParserStep PROVE TypeOK'
    OBVIOUS
  <1> USE DEF TypeOK, ConnTypeOK, QueueTypeOK, InTypeOK, WakeTypeOK, OutTypeOK,
              SendTypeOK, CycleTypeOK
  <1>1. CASE DataReceived
    BY <1>1 DEF DataReceived, UnsetKeepAlive, restVars, inVars, wakeVars, outVars, sendVars
  <1>2. CASE FeedDone
    BY <1>2 DEF FeedDone, queueVars, inVars, wakeVars, outVars, sendVars
  <1>3. CASE OnMessageBegin
    BY <1>3 DEF OnMessageBegin, queueVars, inVars, wakeVars, outVars, sendVars
  <1>6. CASE OnMessageComplete
    <2>1. moreBody' \in [Requests -> BOOLEAN]
      BY <1>6 DEF OnMessageComplete, EndOfBody
    <2>2. WakeTypeOK'
      BY <1>6, SetEventTypeOK DEF OnMessageComplete, EndOfBody, wakeVars
    <2> QED BY <1>6, <2>1, <2>2
            DEF OnMessageComplete, queueVars, outVars, sendVars
  <1>7. CASE ParseError
    BY <1>7 DEF ParseError, Closed, Write, queueVars, inVars, wakeVars, outVars, sendVars
  <1>8. CASE UpgradeToWebSocket
    BY <1>8 DEF UpgradeToWebSocket, queueVars, inVars, wakeVars, outVars, sendVars
  <1>5. CASE OnBody
    <2>a. ASSUME NEW f \in [Requests -> Nat]
          PROVE  [f EXCEPT ![cycle] = @ + 1] \in [Requests -> Nat]
      <3>1. CASE cycle \in Requests
        <4>1. f[cycle] + 1 \in Nat
          BY <3>1
        <4> QED BY <4>1
      <3>2. CASE cycle \notin Requests
        BY <3>2
      <3> QED BY <3>1, <3>2
    <2>1. body' \in [Requests -> Nat] /\ received' \in [Requests -> Nat]
      BY <1>5, <2>a DEF OnBody
    <2>2. WakeTypeOK'
      BY <1>5, SetEventTypeOK DEF OnBody
    <2>3. readPaused' \in BOOLEAN
      BY <1>5 DEF OnBody
    <2> QED BY <1>5, <2>1, <2>2, <2>3 DEF OnBody, restVars, queueVars, outVars, sendVars
  <1>4. ASSUME NEW over \in BOOLEAN, NEW ka \in BOOLEAN, OnHeadersComplete(over, ka)
        PROVE  TypeOK'
    <2>0. cycle + 1 \in Requests
      BY <1>4, ConstantsAssumption DEF OnHeadersComplete, Requests
    <2> DEFINE r == cycle + 1
    <2>1. ConnTypeOK'
      BY <1>4 DEF OnHeadersComplete, restVars
    <2>2. QueueTypeOK'
      <3>1. cycle' \in 0 .. NumRequests
        BY <1>4, <2>0, ConstantsAssumption DEF OnHeadersComplete, Requests
      <3>2. pipeline' \in Seq(Requests)
        <4>1. Append(pipeline, cycle + 1) \in Seq(Requests)
          BY <2>0
        <4> QED BY <1>4, <4>1 DEF OnHeadersComplete, Enqueued
      <3> QED BY <1>4, <3>1, <3>2 DEF OnHeadersComplete
    <2>3. InTypeOK'
      BY <1>4, <2>0 DEF OnHeadersComplete
    <2>4. CycleTypeOK' /\ WakeTypeOK' /\ OutTypeOK'
      BY <1>4, <2>0 DEF OnHeadersComplete, Live, wakeVars, outVars
    <2>5. SendTypeOK'
      BY <1>4 DEF OnHeadersComplete, sendVars
    <2> QED BY <2>1, <2>2, <2>3, <2>4, <2>5
  <1> QED BY <1>1, <1>2, <1>3, <1>4, <1>5, <1>6, <1>7, <1>8 DEF ParserStep

\* so does every step of an application,
LEMMA AppTypeOK ==
    ASSUME TypeOK, NEW r \in Requests, AppStep(r)
    PROVE  TypeOK'
  <1> USE DEF TypeOK
  <1>1. ASSUME TakeBody(r) PROVE /\ given' \in [Requests -> Nat]
                                 /\ body' \in [Requests -> Nat]
                                 /\ gotEnd' \in [Requests -> BOOLEAN]
    BY <1>1 DEF TakeBody, InTypeOK
  <1>2. ASSUME Continue100(r) PROVE /\ waiting100' \in [Requests -> BOOLEAN]
                                    /\ writePaused' \in BOOLEAN
    BY <1>2 DEF Continue100, Write, InTypeOK, ConnTypeOK
  <1>3. CASE ReceiveReturns(r)
    <2>1. InTypeOK'
      BY <1>1, <1>2, <1>3 DEF ReceiveReturns, InTypeOK
    <2>2. ConnTypeOK'
      BY <1>2, <1>3 DEF ReceiveReturns, ResumeReading, ConnTypeOK, restVars
    <2>3. WakeTypeOK'
      BY <1>3 DEF ReceiveReturns, ClearEvent, WakeTypeOK
    <2> QED BY <1>3, <2>1, <2>2, <2>3
            DEF ReceiveReturns, QueueTypeOK, OutTypeOK, SendTypeOK, CycleTypeOK,
                queueVars, outVars, sendVars
  <1>4. CASE ReceiveWaits(r)
    <2>1. InTypeOK'
      BY <1>2, <1>4 DEF ReceiveWaits, InTypeOK
    <2>2. ConnTypeOK' /\ WakeTypeOK'
      BY <1>2, <1>4 DEF ReceiveWaits, ResumeReading, ConnTypeOK, WakeTypeOK, restVars
    <2> QED BY <1>4, <2>1, <2>2
            DEF ReceiveWaits, QueueTypeOK, OutTypeOK, SendTypeOK, CycleTypeOK,
                queueVars, outVars, sendVars
  <1>5. CASE ReceiveWakes(r)
    <2>1. InTypeOK'
      BY <1>1, <1>5 DEF ReceiveWakes, InTypeOK
    <2>2. WakeTypeOK'
      BY <1>5 DEF ReceiveWakes, ClearEvent, WakeTypeOK
    <2> QED BY <1>5, <2>1, <2>2
            DEF ReceiveWakes, ConnTypeOK, QueueTypeOK, OutTypeOK, SendTypeOK,
                CycleTypeOK, connVars, restVars, queueVars, outVars, sendVars
  <1>6. ASSUME NEW m \in Messages, Send(r, m) PROVE TypeOK'
    BY <1>6, TransmitTypeOK DEF Send, SendTypeOK, sendVars
  <1>7. ASSUME NEW m \in Messages, SendWaits(r, m) PROVE TypeOK'
    <2>1. SendTypeOK'
      BY <1>7 DEF SendWaits, SendTypeOK
    <2> QED BY <1>7, <2>1
            DEF SendWaits, ConnTypeOK, QueueTypeOK, InTypeOK, WakeTypeOK, OutTypeOK,
                CycleTypeOK, connVars, restVars, queueVars, inVars, wakeVars, outVars
  <1>8. CASE SendWakes(r)
    <2>1. pending[r] \in Messages /\ Transmit(r, pending[r])
      BY <1>8 DEF SendWakes, SendTypeOK
    <2>2. SendTypeOK'
      BY <1>8 DEF SendWakes, SendTypeOK
    <2> QED BY <2>1, <2>2, TransmitTypeOK
  <1>9. ASSUME NEW e, NEW c, AppEnds(r, e, c) PROVE TypeOK'
    <2>1. SendTypeOK' /\ WakeTypeOK'
      BY <1>9 DEF AppEnds, EndCalls, SendTypeOK, WakeTypeOK
    <2>2. ConnTypeOK' /\ CycleTypeOK'
      BY <1>9 DEF AppEnds, Closed, ConnTypeOK, CycleTypeOK, restVars, Live
    <2> QED BY <1>9, <2>1, <2>2
            DEF AppEnds, QueueTypeOK, InTypeOK, OutTypeOK, queueVars, inVars, outVars
  <1> QED BY <1>3, <1>4, <1>5, <1>6, <1>7, <1>8, <1>9
          DEF AppStep, AppReturns, AppReturnsValue, AppRaises

\* every callback of the transport and of a timer,
LEMMA TransportTypeOK == TypeOK /\ TransportStep => TypeOK'
  <1> SUFFICES ASSUME TypeOK, TransportStep PROVE TypeOK'
    OBVIOUS
  <1> USE DEF TypeOK
  <1>1. CASE KeepAliveTimeout
    BY <1>1 DEF KeepAliveTimeout, Closed, ConnTypeOK, QueueTypeOK, InTypeOK, WakeTypeOK,
                OutTypeOK, SendTypeOK, CycleTypeOK, restVars, inVars, wakeVars, outVars,
                sendVars
  <1>2. CASE EofReceived
    BY <1>2 DEF EofReceived, ConnTypeOK, QueueTypeOK, InTypeOK, WakeTypeOK, OutTypeOK,
                SendTypeOK, CycleTypeOK, restVars, queueVars, inVars, wakeVars, outVars,
                sendVars
  <1>3. ASSUME NEW failed \in BOOLEAN, ConnectionLost(failed) PROVE TypeOK'
    <2>1. ConnTypeOK'
      BY <1>3 DEF ConnectionLost, ResumeWritingEffect, ConnTypeOK
    <2>2. QueueTypeOK'
      <3>1. timer' \in BOOLEAN
        BY <1>3 DEF ConnectionLost, QueueTypeOK
      <3> QED BY <1>3, <3>1 DEF ConnectionLost, QueueTypeOK
    <2>3. SendTypeOK'
      BY <1>3 DEF ConnectionLost, ResumeWritingEffect, SendTypeOK
    <2>4. WakeTypeOK'
      BY <1>3, SetEventTypeOK DEF ConnectionLost, WakeTypeOK, wakeVars
    <2>5. disconnected' \in [Requests -> BOOLEAN]
      BY <1>3 DEF ConnectionLost, CycleTypeOK
    <2> QED BY <1>3, <2>1, <2>2, <2>3, <2>4, <2>5
            DEF ConnectionLost, InTypeOK, OutTypeOK, CycleTypeOK, inVars, outVars
  <1>4. CASE UpgradedConnectionLost
    BY <1>4 DEF UpgradedConnectionLost, ConnTypeOK, QueueTypeOK, InTypeOK, WakeTypeOK,
                OutTypeOK, SendTypeOK, CycleTypeOK, restVars, queueVars, inVars,
                wakeVars, outVars, sendVars
  <1>5. CASE ResumeWriting
    <2>1. SendTypeOK'
      BY <1>5 DEF ResumeWriting, ResumeWritingEffect, SendTypeOK
    <2> QED BY <1>5, <2>1
            DEF ResumeWriting, ResumeWritingEffect, ConnTypeOK, QueueTypeOK, InTypeOK,
                WakeTypeOK, OutTypeOK, CycleTypeOK, restVars, queueVars, inVars,
                wakeVars, outVars
  <1>6. CASE Shutdown
    BY <1>6 DEF Shutdown, Closed, ConnTypeOK, QueueTypeOK, InTypeOK, WakeTypeOK,
                OutTypeOK, SendTypeOK, CycleTypeOK, queueVars, inVars, wakeVars,
                outVars, sendVars
  <1> QED BY <1>1, <1>2, <1>3, <1>4, <1>5, <1>6 DEF TransportStep

\* nothing at all,
LEMMA StutterTypeOK == TypeOK /\ UNCHANGED vars => TypeOK'
  BY DEF TypeOK, ConnTypeOK, QueueTypeOK, InTypeOK, WakeTypeOK, OutTypeOK, SendTypeOK,
         CycleTypeOK, vars, connVars, restVars, queueVars, inVars, wakeVars, outVars,
         sendVars

\* and every step.
LEMMA StepTypeOK == TypeOK /\ [Next]_vars => TypeOK'
  BY ParserTypeOK, AppTypeOK, TransportTypeOK, StutterTypeOK DEF Next

\* Every variable of the connection keeps its type, for every number of
\* requests and whatever the application and the peer do.
THEOREM TypeCorrect == Spec => []TypeOK
  BY TypeOKInit, StepTypeOK, PTL DEF Spec

-----------------------------------------------------------------------------
(* The inductive invariant                                                  *)

Order == QueueInv /\ TurnInv /\ CloseInv /\ CloseEndsPipeline /\ KeepAliveOnlyWhenIdle

\* The order holds before the first request.
LEMMA OrderInit == Init => Order
  <1> SUFFICES ASSUME Init PROVE Order
    OBVIOUS
  <1>1. Len(pipeline) = 0 /\ Active = 0
    <2>1. pipeline = <<>>
      BY DEF Init
    <2>2. cycle = 0
      BY DEF Init
    <2>3. Len(pipeline) = 0
      BY <2>1
    <2> QED BY <2>2, <2>3 DEF Active
  <1> USE DEF Init, All
  <1>2. QueueInv
    BY <1>1 DEF QueueInv
  <1>3. TurnInv
    BY <1>1 DEF TurnInv, Requests
  <1>4. CloseInv /\ CloseEndsPipeline /\ KeepAliveOnlyWhenIdle
    BY DEF CloseInv, CloseEndsPipeline, KeepAliveOnlyWhenIdle
  <1> QED BY <1>2, <1>3, <1>4 DEF Order

\* Tasks that only run on or end, responses begun by live tasks.
Quiet ==
    /\ UNCHANGED <<cycle, pipeline, complete>>
    /\ transport' = "open" => transport = "open"
    /\ timer' => timer
    /\ inFeed' => transport' = "open" /\ ~timer'
    /\ \A r \in Requests :
          /\ \/ task'[r] = task[r]
             \/ task[r] \in Live /\ task'[r] \in Live \cup {"done"}
          /\ started[r] => started'[r]
          /\ started'[r] => started[r] \/ task[r] \in Live
          /\ complete[r] => keepAlive'[r] = keepAlive[r]
          /\ sending'[r] # "no" => task'[r] \in Live

\* A quiet step keeps the order.
LEMMA QuietStep ==
    ASSUME TypeOK, Order, Quiet
    PROVE  Order'
  <1>0. Active' = Active /\ Active \in Int /\ cycle \in Nat
    BY DEF Quiet, Active, TypeOK, QueueTypeOK
  <1>1. QueueInv'
    BY <1>0 DEF Quiet, Order, QueueInv
  <1>2. TurnInv'
    <2>1. \A r \in Requests : task[r] \in Live => ~(r > Active)
      BY <1>0 DEF Order, TurnInv, Requests, Live
    <2>2. ASSUME NEW r \in Requests
          PROVE  /\ r < Active' => complete'[r]
                 /\ r > Active' => ~started'[r]
                 /\ complete'[r] => started'[r]
                 /\ r <= Active' => task'[r] \in Live \cup {"done"}
                 /\ r > Active' /\ r <= cycle' => task'[r] \in {"queued", "queued503"}
                 /\ r > cycle' => task'[r] = "none"
                 /\ sending'[r] # "no" => task'[r] \in Live
      BY <1>0, <2>1 DEF Quiet, Order, TurnInv, Live, Requests
    <2> QED BY <1>0, <2>2 DEF Quiet, Order, TurnInv
  <1>3. CloseInv' /\ CloseEndsPipeline'
    BY DEF Quiet, Order, CloseInv, CloseEndsPipeline, Live
  <1>4. KeepAliveOnlyWhenIdle'
    BY DEF Quiet, Order, KeepAliveOnlyWhenIdle
  <1> QED BY <1>1, <1>2, <1>3, <1>4 DEF Order

\* The parser is quiet but for a head;
LEMMA ParserQuiet ==
    ASSUME TypeOK, Order, ParserStep,
           ~ \E over, ka \in BOOLEAN : OnHeadersComplete(over, ka)
    PROVE  Quiet
  <1> USE DEF Quiet, Order, QueueInv, TurnInv
  <1>1. CASE DataReceived
    BY <1>1 DEF DataReceived, UnsetKeepAlive, outVars, sendVars
  <1>2. CASE FeedDone
    BY <1>2 DEF FeedDone, queueVars, outVars, sendVars
  <1>3. CASE OnMessageBegin
    BY <1>3 DEF OnMessageBegin, queueVars, outVars, sendVars
  <1>4. CASE OnBody
    BY <1>4 DEF OnBody, restVars, queueVars, outVars, sendVars
  <1>5. CASE OnMessageComplete
    BY <1>5 DEF OnMessageComplete, queueVars, outVars, sendVars
  <1>6. CASE ParseError
    BY <1>6 DEF ParseError, Closed, queueVars, outVars, sendVars
  <1>7. CASE UpgradeToWebSocket
    BY <1>7 DEF UpgradeToWebSocket, queueVars, outVars, sendVars
  <1> QED BY <1>1, <1>2, <1>3, <1>4, <1>5, <1>6, <1>7 DEF ParserStep

\* the transport and the timers are quiet,
LEMMA TransportQuiet ==
    ASSUME TypeOK, Order, TransportStep
    PROVE  Quiet
  <1> USE DEF Quiet, Order, QueueInv, TurnInv
  <1>1. CASE KeepAliveTimeout
    BY <1>1 DEF KeepAliveTimeout, Closed, restVars, outVars, sendVars
  <1>2. CASE EofReceived
    BY <1>2 DEF EofReceived, restVars, queueVars, outVars, sendVars
  <1>3. ASSUME NEW failed \in BOOLEAN, ConnectionLost(failed) PROVE Quiet
    <2>1. \A r \in Requests : sending'[r] # "no" => sending[r] # "no"
      BY <1>3 DEF ConnectionLost, ResumeWritingEffect, TypeOK, SendTypeOK
    <2> QED BY <1>3, <2>1 DEF ConnectionLost, outVars
  <1>4. CASE UpgradedConnectionLost
    BY <1>4 DEF UpgradedConnectionLost, restVars, queueVars, outVars, sendVars
  <1>5. CASE ResumeWriting
    <2>1. \A r \in Requests : sending'[r] # "no" => sending[r] # "no"
      BY <1>5 DEF ResumeWriting, ResumeWritingEffect, TypeOK, SendTypeOK
    <2> QED BY <1>5, <2>1 DEF ResumeWriting, restVars, queueVars, outVars
  <1>6. CASE Shutdown
    <2>1. ASSUME NEW r \in Requests, complete[r] PROVE keepAlive'[r] = keepAlive[r]
      BY <1>6, <2>1 DEF Shutdown, Unoccupied, TypeOK, CycleTypeOK
    <2> QED BY <1>6, <2>1 DEF Shutdown, Closed, restVars, queueVars, outVars, sendVars
  <1> QED BY <1>1, <1>2, <1>3, <1>4, <1>5, <1>6 DEF TransportStep

\* and every message but the last of a response.
LEMMA TransmitQuiet ==
    ASSUME TypeOK, Order, NEW r \in Requests, NEW m \in Messages, task[r] \in Live,
           ~inFeed, sending'[r] = "no",
           \A q \in Requests : q # r => sending'[q] = sending[q],
           SendStart(r, m) \/ SendPart(r, m) \/ SendWithoutEffect(r, m)
    PROVE  Quiet
  <1> USE DEF Quiet, Order, QueueInv, TurnInv
  <1>1. /\ \A q \in Requests : q # r => task'[q] = task[q]
        /\ task'[r] \in Live \cup {"done"}
    BY DEF SendStart, SendPart, SendWithoutEffect, Advanced, After, TypeOK, CycleTypeOK,
           Live
  <1>2. CASE SendStart(r, m)
    <2>1. \A q \in Requests : complete[q] => keepAlive'[q] = keepAlive[q]
      BY <1>2 DEF SendStart, TypeOK, CycleTypeOK
    <2>2. \A q \in Requests : /\ started[q] => started'[q]
                              /\ started'[q] => started[q] \/ q = r
      BY <1>2 DEF SendStart, TypeOK, OutTypeOK
    <2> QED BY <1>1, <1>2, <2>1, <2>2 DEF SendStart, restVars, queueVars
  <1>3. CASE SendPart(r, m)
    BY <1>1, <1>3 DEF SendPart, restVars, queueVars
  <1>4. CASE SendWithoutEffect(r, m)
    BY <1>1, <1>4 DEF SendWithoutEffect, connVars, restVars, queueVars, outVars
  <1> QED BY <1>2, <1>3, <1>4

\* A new request head: started at once, or queued behind the one in progress.
LEMMA HeadersOrder ==
    ASSUME TypeOK, Order, NEW over \in BOOLEAN, NEW ka \in BOOLEAN,
           OnHeadersComplete(over, ka)
    PROVE  Order'
  <1> DEFINE n == cycle + 1
  <1>1. /\ cycle \in Nat /\ n \in Requests /\ cycle' = n /\ inFeed
        /\ transport = "open" /\ transport' = "open" /\ ~timer /\ timer' = timer
        /\ Len(pipeline) \in Nat /\ Len(pipeline) <= cycle /\ inFeed' = inFeed
        /\ UNCHANGED <<complete, started, sending>>
    BY ConstantsAssumption
       DEF OnHeadersComplete, Order, QueueInv, TypeOK, QueueTypeOK, Requests, outVars,
           sendVars
  <1>2. Active \in Nat /\ Active <= cycle /\ Active = cycle - Len(pipeline)
    BY <1>1 DEF Active
  <1>3. \A r \in Requests : r <= cycle => keepAlive'[r] = keepAlive[r]
    BY <1>1 DEF OnHeadersComplete, TypeOK, CycleTypeOK, Requests
  <1>4. ~complete[n] /\ ~started[n] /\ sending[n] = "no"
    <2>1. n > Active /\ n > cycle
      BY <1>1, <1>2
    <2> QED BY <1>1, <2>1 DEF Order, TurnInv, Live, TypeOK, SendTypeOK
  <1>5. \A r \in Requests : r # n => task'[r] = task[r]
    BY <1>1 DEF OnHeadersComplete, TypeOK, CycleTypeOK
  <1>6. \A r \in Requests : complete[r] => r <= Active
    BY <1>1, <1>2 DEF Order, TurnInv, Requests
  <1>7. CloseInv'
    BY <1>1, <1>2, <1>3, <1>6 DEF Order, CloseInv, Requests
  <1>8. KeepAliveOnlyWhenIdle'
    BY <1>1 DEF KeepAliveOnlyWhenIdle
  <1>9. CASE Unoccupied
    <2>1. Active = cycle
      <3>1. CASE cycle = 0
        BY <3>1, <1>1, <1>2
      <3>2. CASE cycle # 0 /\ complete[cycle]
        BY <3>2, <1>1, <1>2, <1>6, ConstantsAssumption DEF TypeOK, QueueTypeOK, Requests
      <3> QED BY <1>9, <3>1, <3>2 DEF Unoccupied
    <2>2. pipeline = <<>> /\ pipeline' = <<>>
      BY <1>1, <1>2, <1>9, <2>1 DEF OnHeadersComplete, TypeOK, QueueTypeOK
    <2>3. Active' = n
      BY <1>1, <2>2 DEF Active
    <2>4. task'[n] \in Live
      BY <1>1, <1>9 DEF OnHeadersComplete, Live, TypeOK, CycleTypeOK
    <2>5. QueueInv'
      BY <1>1, <2>2, <2>3 DEF QueueInv
    <2>6. \A r \in Requests : r <= cycle => complete[r]
      BY <1>1, <1>9, <2>1 DEF Unoccupied, Order, TurnInv, Requests
    <2>7. TurnInv'
      <3>1. ASSUME NEW r \in Requests
            PROVE  /\ r < n => complete[r]
                   /\ r > n => ~started[r]
                   /\ complete[r] => started[r]
                   /\ r <= n => task'[r] \in Live \cup {"done"}
                   /\ r > n => task'[r] = "none"
                   /\ sending[r] # "no" => task'[r] \in Live
        <4>1. r \in Nat
          BY DEF Requests
        <4> QED BY <1>1, <1>2, <1>4, <1>5, <2>1, <2>4, <2>6, <4>1 DEF Order, TurnInv
      <3>2. \A r \in Requests : ~(r > n /\ r <= n)
        BY <1>1 DEF Requests
      <3> QED BY <1>1, <2>2, <2>3, <3>1, <3>2 DEF TurnInv
    <2>8. CloseEndsPipeline'
      BY <1>1, <1>5, <1>7 DEF CloseEndsPipeline, CloseInv
    <2> QED BY <1>7, <1>8, <2>5, <2>7, <2>8 DEF Order
  <1>10. CASE ~Unoccupied
    <2>1. /\ pipeline' = Append(pipeline, n)
          /\ task'[n] \in {"queued", "queued503"} /\ task'[n] \notin Live
      BY <1>1, <1>10 DEF OnHeadersComplete, Enqueued, TypeOK, CycleTypeOK, Live
    <2>2. Len(pipeline') = Len(pipeline) + 1
      BY <2>1 DEF TypeOK, QueueTypeOK
    <2>3. Active' = Active
      BY <1>1, <1>2, <2>2 DEF Active
    <2>4. QueueInv'
      <3>1. cycle > 0
        BY <1>1, <1>10 DEF Unoccupied
      <3>2. \A i \in 1 .. Len(pipeline') : pipeline'[i] = Active + i
        BY <1>1, <1>2, <2>1, <2>2 DEF Order, QueueInv, TypeOK, QueueTypeOK
      <3> QED BY <1>1, <1>2, <2>2, <2>3, <3>1, <3>2 DEF Order, QueueInv
    <2>5. TurnInv'
      <3>1. ~complete[Active]
        <4>1. CASE pipeline = <<>>
          BY <1>1, <1>2, <1>10, <4>1 DEF Unoccupied
        <4>2. CASE pipeline # <<>>
          BY <1>1, <4>2 DEF Order, TurnInv
        <4> QED BY <4>1, <4>2
      <3>2. ASSUME NEW r \in Requests
            PROVE  /\ r < Active => complete[r]
                   /\ r > Active => ~started[r]
                   /\ complete[r] => started[r]
                   /\ r <= Active => task'[r] \in Live \cup {"done"}
                   /\ r > Active /\ r <= n => task'[r] \in {"queued", "queued503"}
                   /\ r > n => task'[r] = "none"
                   /\ sending[r] # "no" => task'[r] \in Live
        <4>1. r \in Nat
          BY DEF Requests
        <4> QED BY <1>1, <1>2, <1>4, <1>5, <2>1, <4>1 DEF Order, TurnInv
      <3> QED BY <1>1, <2>3, <3>1, <3>2 DEF TurnInv
    <2>6. CloseEndsPipeline'
      BY <1>1, <1>5, <1>7 DEF CloseEndsPipeline, CloseInv
    <2> QED BY <1>7, <1>8, <2>4, <2>5, <2>6 DEF Order
  <1> QED BY <1>9, <1>10

\* A live task's last body message: the turn passes on, or the connection goes
\* idle, or it closes.
Last(r, m) ==
    /\ task[r] \in Live /\ ~inFeed
    /\ sending'[r] = "no" /\ \A q \in Requests : q # r => sending'[q] = sending[q]
    /\ SendLast(r, m)

\* The last message of a response gives the turn to the next in the queue.
LEMMA LastOrder ==
    ASSUME TypeOK, Order, NEW r \in Requests, NEW m \in Messages, Last(r, m)
    PROVE  Order'
  <1>0. /\ task[r] \in Live /\ ~inFeed /\ sending'[r] = "no" /\ SendLast(r, m)
        /\ \A q \in Requests : q # r => sending'[q] = sending[q]
    BY DEF Last
  <1>1. /\ cycle \in Nat /\ cycle' = cycle /\ inFeed' = FALSE
        /\ started[r] /\ ~complete[r] /\ UNCHANGED <<started, keepAlive>>
        /\ Len(pipeline) \in Nat /\ Len(pipeline) <= cycle
    BY <1>0 DEF SendLast, Accepts, restVars, Order, QueueInv, TypeOK, QueueTypeOK
  <1>2. Active \in Nat /\ Active <= cycle /\ Active = cycle - Len(pipeline)
    BY <1>1 DEF Active
  <1>3. r = Active /\ r \in Nat
    BY <1>0, <1>1, <1>2 DEF Order, TurnInv, Requests
  <1>4. \A q \in Requests : complete'[q] <=> complete[q] \/ q = r
    BY <1>0, <1>1 DEF SendLast, TypeOK, OutTypeOK
  <1>5. /\ transport' = IF keepAlive[r] THEN transport ELSE Closed(transport)
        /\ OnResponseComplete(r, transport')
    BY <1>0 DEF SendLast, AfterLast
  <1>6. transport' = "open" => transport = "open" /\ keepAlive[r]
    BY <1>5 DEF Closed, TypeOK, CycleTypeOK
  <1>7. CloseInv'
    BY <1>1, <1>4, <1>6 DEF Order, CloseInv
  <1>8. Advanced(r) = [task EXCEPT ![r] = After(r)] /\ After(r) \in Live \cup {"done"}
    BY <1>0 DEF Advanced, After, Live
  <1>9. \A q \in Requests : task[q] \in Live => q <= r
    BY <1>1, <1>2, <1>3 DEF Order, TurnInv, Requests, Live
  <1>10. CASE transport' = "open" /\ HasNext
    <2>1. /\ pipeline # <<>> /\ pipeline' = Tail(pipeline) /\ timer' = FALSE
          /\ task' = [Advanced(r) EXCEPT ![Head(pipeline)] = StartTask(@)]
      BY <1>5, <1>10 DEF OnResponseComplete, IsClosing, HasNext, UnsetKeepAlive
    <2>2. /\ Len(pipeline) > 0 /\ Len(pipeline') = Len(pipeline) - 1
          /\ \A i \in 1 .. Len(pipeline') : pipeline'[i] = pipeline[i + 1]
          /\ Head(pipeline) = pipeline[1] /\ Head(pipeline) \in Requests
      BY <2>1 DEF TypeOK, QueueTypeOK
    <2>3. Head(pipeline) = r + 1
      BY <2>2, <1>3 DEF Order, QueueInv
    <2>4. Active' = r + 1 /\ r + 1 \in Requests
      BY <1>1, <1>2, <1>3, <2>2, <2>3 DEF Active
    <2>5. QueueInv'
      <3>1. \A i \in 1 .. Len(pipeline') : pipeline'[i] = r + 1 + i
        BY <1>1, <1>3, <2>2 DEF Order, QueueInv
      <3> QED BY <1>1, <1>3, <2>2, <2>4, <3>1 DEF QueueInv
    <2>6. /\ task'[r] = After(r) /\ task'[r + 1] \in Live
          /\ \A q \in Requests : q # r /\ q # r + 1 => task'[q] = task[q]
      BY <1>3, <1>8, <2>1, <2>3, <2>4 DEF StartTask, Live, TypeOK, CycleTypeOK
    <2>7. r + 1 <= cycle
      BY <1>1, <1>2, <1>3, <2>2
    <2>8. TurnInv'
      <3>1. ASSUME NEW q \in Requests
            PROVE  /\ q < r + 1 => complete'[q]
                   /\ q > r + 1 => ~started[q]
                   /\ complete'[q] => started[q]
                   /\ q <= r + 1 => task'[q] \in Live \cup {"done"}
                   /\ q > r + 1 /\ q <= cycle => task'[q] \in {"queued", "queued503"}
                   /\ q > cycle => task'[q] = "none"
                   /\ sending'[q] # "no" => task'[q] \in Live
        <4>1. q \in Nat
          BY DEF Requests
        <4> QED BY <1>0, <1>1, <1>2, <1>3, <1>4, <1>8, <2>6, <2>7, <4>1 DEF Order, TurnInv
      <3>2. ~complete'[r + 1]
        BY <1>1, <1>2, <1>3, <1>4, <2>4 DEF Order, TurnInv
      <3> QED BY <1>1, <2>4, <3>1, <3>2 DEF TurnInv
    <2>9. CloseEndsPipeline'
      BY <1>7, <1>10 DEF CloseEndsPipeline, CloseInv
    <2>10. KeepAliveOnlyWhenIdle'
      BY <2>1 DEF KeepAliveOnlyWhenIdle
    <2> QED BY <1>7, <2>5, <2>8, <2>9, <2>10 DEF Order
  <1>11. CASE ~(transport' = "open" /\ HasNext)
    <2>1. /\ pipeline' = pipeline /\ task' = Advanced(r)
          /\ timer' => timer \/ (transport' = "open" /\ pipeline = <<>>)
      BY <1>5, <1>11 DEF OnResponseComplete, IsClosing, HasNext
    <2>2. Active' = Active
      BY <1>1, <1>2, <2>1 DEF Active
    <2>3. QueueInv'
      BY <1>1, <2>1, <2>2 DEF Order, QueueInv
    <2>4. /\ task'[r] = After(r)
          /\ \A q \in Requests : q # r => task'[q] = task[q]
      BY <2>1, <1>8 DEF TypeOK, CycleTypeOK
    <2>5. TurnInv'
      <3>1. ASSUME NEW q \in Requests
            PROVE  /\ q < r => complete'[q]
                   /\ q > r => ~started[q]
                   /\ complete'[q] => started[q]
                   /\ q <= r => task'[q] \in Live \cup {"done"}
                   /\ q > r /\ q <= cycle => task'[q] \in {"queued", "queued503"}
                   /\ q > cycle => task'[q] = "none"
                   /\ sending'[q] # "no" => task'[q] \in Live
        <4>1. q \in Nat
          BY DEF Requests
        <4> QED BY <1>0, <1>1, <1>2, <1>3, <1>4, <1>8, <2>4, <4>1 DEF Order, TurnInv
      <3>2. transport' = "open" => pipeline' = <<>>
        BY <1>11, <2>1 DEF HasNext
      <3> QED BY <1>1, <1>3, <2>2, <3>1, <3>2 DEF TurnInv
    <2>6. CloseEndsPipeline'
      <3>1. ASSUME NEW p \in Requests, NEW q \in Requests,
                   p < q, complete'[p], ~keepAlive[p]
            PROVE  task'[q] \notin Live
        <4>1. CASE p = r
          BY <1>3, <1>9, <2>4, <3>1, <4>1 DEF Requests
        <4>2. CASE p # r
          BY <1>0, <1>4, <1>9, <2>4, <3>1, <4>2 DEF Order, CloseEndsPipeline, Live
        <4> QED BY <4>1, <4>2
      <3> QED BY <1>1, <3>1 DEF CloseEndsPipeline
    <2>7. KeepAliveOnlyWhenIdle'
      <3>1. CASE timer
        BY <1>1, <1>4, <2>1, <3>1, ConstantsAssumption
           DEF Order, KeepAliveOnlyWhenIdle, TypeOK, QueueTypeOK, Requests
      <3>2. CASE ~timer /\ timer'
        <4>1. pipeline = <<>> /\ r = cycle
          BY <1>1, <1>2, <1>3, <2>1, <3>2
        <4>2. \A q \in Requests : q <= cycle => complete'[q]
          BY <1>1, <1>2, <1>3, <1>4, <4>1 DEF Order, TurnInv, Requests
        <4>3. 1 .. cycle \subseteq Requests
          BY ConstantsAssumption DEF Requests, TypeOK, QueueTypeOK
        <4> QED BY <1>1, <2>1, <4>1, <4>2, <4>3 DEF KeepAliveOnlyWhenIdle
      <3> QED BY <3>1, <3>2 DEF KeepAliveOnlyWhenIdle
    <2> QED BY <1>7, <2>3, <2>5, <2>6, <2>7 DEF Order
  <1> QED BY <1>10, <1>11

\* send() from after the drain to its end.
LEMMA TransmitKinds ==
    ASSUME TypeOK, Order, NEW r \in Requests, NEW m \in Messages, task[r] \in Live,
           ~inFeed, sending'[r] = "no",
           \A q \in Requests : q # r => sending'[q] = sending[q],
           Transmit(r, m)
    PROVE  Quiet \/ Last(r, m)
  BY TransmitQuiet DEF Transmit, Last

\* An application's step is quiet, or sends the last message.
LEMMA AppKinds ==
    ASSUME TypeOK, Order, NEW r \in Requests, AppStep(r)
    PROVE  Quiet \/ \E m \in Messages : Last(r, m)
  <1>1. CASE ReceiveReturns(r) \/ ReceiveWaits(r) \/ ReceiveWakes(r)
    BY <1>1 DEF Quiet, ReceiveReturns, ReceiveWaits, ReceiveWakes, Order, TurnInv,
                restVars, connVars, queueVars, outVars, sendVars
  <1>2. ASSUME NEW m \in Messages, Send(r, m) PROVE Quiet \/ Last(r, m)
    <2>1. /\ task[r] \in Live /\ ~inFeed /\ sending' = sending /\ sending[r] = "no"
          /\ Transmit(r, m)
      BY <1>2 DEF Send, Offers, Live, sendVars
    <2> QED BY <2>1, TransmitKinds
  <1>3. ASSUME NEW m \in Messages, SendWaits(r, m) PROVE Quiet
    <2>1. task[r] \in Live
      BY <1>3 DEF SendWaits, Offers, Live
    <2>2. \A q \in Requests : sending'[q] # "no" => q = r \/ sending[q] # "no"
      BY <1>3 DEF SendWaits, TypeOK, SendTypeOK
    <2> QED BY <1>3, <2>1, <2>2 DEF Quiet, SendWaits, Order, QueueInv, TurnInv,
                                    connVars, restVars, queueVars, outVars
  <1>4. CASE SendWakes(r)
    <2>1. task[r] \in Live /\ pending[r] \in Messages
      BY <1>4 DEF SendWakes, Order, TurnInv, TypeOK, SendTypeOK
    <2>2. sending'[r] = "no" /\ \A q \in Requests : q # r => sending'[q] = sending[q]
      BY <1>4 DEF SendWakes, TypeOK, SendTypeOK
    <2> QED BY <1>4, <2>1, <2>2, TransmitKinds DEF SendWakes
  <1>5. ASSUME NEW error \in BOOLEAN, NEW close \in BOOLEAN, AppEnds(r, error, close)
        PROVE  Quiet
    <2>1. /\ task[r] \in Live /\ task'[r] \in Live \cup {"done"}
          /\ \A q \in Requests : q # r => task'[q] = task[q]
      BY <1>5 DEF AppEnds, Live, TypeOK, CycleTypeOK
    <2>2. \A q \in Requests : sending'[q] # "no" => q # r /\ sending[q] # "no"
      BY <1>5 DEF AppEnds, EndCalls, TypeOK, SendTypeOK
    <2>3. (transport' = "open" => transport = "open") /\ inFeed' = FALSE
      BY <1>5 DEF AppEnds, Closed, restVars
    <2> QED BY <1>5, <2>1, <2>2, <2>3 DEF Quiet, AppEnds, Order, TurnInv, queueVars,
                                          outVars
  <1>6. CASE AppReturns(r) \/ AppReturnsValue(r) \/ AppRaises(r)
    BY <1>5, <1>6 DEF AppReturns, AppReturnsValue, AppRaises, TypeOK, OutTypeOK,
                      CycleTypeOK
  <1> QED BY <1>1, <1>2, <1>3, <1>4, <1>6 DEF AppStep

\* As far as the order of the requests is concerned a step is quiet, or a new
\* head, or the end of a response.
LEMMA StepKinds ==
    ASSUME TypeOK, Order, [Next]_vars
    PROVE  \/ Quiet
           \/ \E over, ka \in BOOLEAN : OnHeadersComplete(over, ka)
           \/ \E r \in Requests, m \in Messages : Last(r, m)
  <1>1. CASE ParserStep
    BY <1>1, ParserQuiet
  <1>2. CASE \E r \in Requests : AppStep(r)
    BY <1>2, AppKinds
  <1>3. CASE TransportStep
    BY <1>3, TransportQuiet
  <1>4. CASE UNCHANGED vars
    BY <1>4 DEF Quiet, Order, QueueInv, TurnInv, vars, connVars, restVars, queueVars,
                outVars, sendVars
  <1> QED BY <1>1, <1>2, <1>3, <1>4 DEF Next

\* Every step keeps the order.
LEMMA StepOrder == TypeOK /\ Order /\ [Next]_vars => Order'
  BY StepKinds, QuietStep, HeadersOrder, LastOrder

\* The queue is the requests after the active one, in order; all before it are
\* answered, all after it untouched; an open connection was never told to close.
THEOREM Inductive == Spec => []Inv
  <1>1. TypeOK /\ Order <=> Inv
    BY DEF Order, Inv
  <1>2. Init => TypeOK /\ Order
    BY TypeOKInit, OrderInit
  <1>3. TypeOK /\ Order /\ [Next]_vars => TypeOK' /\ Order'
    BY StepTypeOK, StepOrder
  <1>4. Spec => [](TypeOK /\ Order)
    BY <1>2, <1>3, PTL DEF Spec
  <1> QED BY <1>1, <1>4, PTL

-----------------------------------------------------------------------------
(* What follows from it                                                     *)

\* The order gives ResponsesInOrder.
LEMMA OrderGivesTurns == TypeOK /\ Order => ResponsesInOrder
  <1> SUFFICES ASSUME TypeOK, Order, NEW q \in Requests, NEW r \in Requests,
                      q < r, started[r]
               PROVE  complete[q]
    BY DEF ResponsesInOrder
  <1>1. Active \in Int /\ q \in Int /\ r \in Int
    BY DEF Active, TypeOK, QueueTypeOK, Requests
  <1> QED BY <1>1 DEF Order, TurnInv

\* Pipelined responses go out in the order of their requests, each begun only
\* when every one before it is complete.
THEOREM InOrder == Spec => []ResponsesInOrder
  BY Inductive, OrderGivesTurns, PTL DEF Inv, Order

\* Nothing queued behind a response that closes its connection is ever begun.
THEOREM ClosingEndsPipeline == Spec => []CloseEndsPipeline
  BY Inductive, PTL DEF Inv

\* The keep-alive timer is armed only while no request is unanswered.
THEOREM TimerOnlyWhenIdle == Spec => []KeepAliveOnlyWhenIdle
  BY Inductive, PTL DEF Inv

-----------------------------------------------------------------------------
(* Who starts a queued request                                              *)

\* A queued request starts in its turn in every step.
LEMMA StepStartsInTurn == TypeOK /\ Order /\ [Next]_vars => StartsInTurnStep
  <1> SUFFICES ASSUME TypeOK, Order, [Next]_vars, NEW r \in Requests,
                      task[r] \in {"queued", "queued503"}, task'[r] \in Live
               PROVE  /\ r = Head(pipeline) /\ r > 1
                      /\ ~complete[r - 1] /\ complete'[r - 1]
                      /\ transport' = "open"
    BY DEF StartsInTurnStep
  <1>1. cycle \in Nat /\ Len(pipeline) \in Nat /\ Active \in Int /\ r \in Nat \ {0}
    BY DEF TypeOK, QueueTypeOK, Active, Requests
  <1>2. CASE Quiet
    BY <1>2 DEF Quiet, Live
  <1>3. ASSUME NEW over \in BOOLEAN, NEW ka \in BOOLEAN, OnHeadersComplete(over, ka)
        PROVE  FALSE
    <2>1. r <= cycle
      BY <1>1 DEF Order, TurnInv
    <2>2. task'[r] = task[r]
      BY <1>1, <1>3, <2>1 DEF OnHeadersComplete, TypeOK, CycleTypeOK
    <2> QED BY <2>2 DEF Live
  <1>4. ASSUME NEW q \in Requests, NEW m \in Messages, Last(q, m)
        PROVE  /\ r = Head(pipeline) /\ r > 1
               /\ ~complete[r - 1] /\ complete'[r - 1]
               /\ transport' = "open"
    <2>1. /\ SendLast(q, m) /\ task[q] \in Live /\ ~complete[q] /\ complete'[q]
          /\ q \in Nat \ {0}
      BY <1>4 DEF Last, SendLast, Accepts, TypeOK, OutTypeOK, Requests
    <2>2. started[q]
      BY <2>1 DEF SendLast, Accepts
    <2>3. q = Active
      BY <1>1, <2>1, <2>2 DEF Order, TurnInv
    <2>4. Advanced(q)[r] = task[r]
      BY <2>1 DEF Advanced, Live, TypeOK, CycleTypeOK
    <2>5. task' # Advanced(q)
      BY <2>4 DEF Live
    <2>6. OnResponseComplete(q, transport')
      BY <2>1 DEF SendLast
    <2>7. /\ transport' = "open" /\ pipeline # <<>>
          /\ task' = [Advanced(q) EXCEPT ![Head(pipeline)] = StartTask(@)]
      BY <2>5, <2>6 DEF OnResponseComplete, IsClosing, HasNext
    <2>8. r = Head(pipeline)
      BY <2>4, <2>7 DEF Advanced, Live, TypeOK, CycleTypeOK
    <2>9. Len(pipeline) > 0 /\ Head(pipeline) = pipeline[1]
      BY <2>7 DEF TypeOK, QueueTypeOK
    <2>10. r = q + 1
      BY <1>1, <2>3, <2>8, <2>9 DEF Order, QueueInv
    <2>11. r > 1 /\ r - 1 = q
      BY <2>1, <2>10
    <2> QED BY <2>1, <2>7, <2>8, <2>11
  <1> QED BY <1>2, <1>3, <1>4, StepKinds

\* A queued request is started only by the response before it, in the step that
\* completes it, first come first served, and only on an open connection.
THEOREM QueueStartsInTurn == Spec => StartsInTurn
  <1>1. TypeOK /\ Order <=> Inv
    BY DEF Order, Inv
  <1>2. Inv /\ [Next]_vars => [StartsInTurnStep]_vars
    BY <1>1, StepStartsInTurn
  <1>3. Spec => [][StartsInTurnStep]_vars
    BY <1>2, Inductive, PTL DEF Spec
  <1> QED BY <1>3 DEF StartsInTurn
=============================================================================
