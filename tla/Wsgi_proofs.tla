------------------------------ MODULE Wsgi_proofs ------------------------------
(***************************************************************************)
(* Theorems about Wsgi, for every number of body parts and of messages.     *)
(***************************************************************************)
EXTENDS Wsgi, TLAPS

-----------------------------------------------------------------------------
(* Facts about the queue                                                    *)

\* What the counters of a well-typed state are.
LEMMA Counters ==
    ASSUME WsgiTypeOK
    PROVE  /\ InHand \in {0, 1} /\ produced \in Nat /\ sent \in Nat /\ NotTaken \in Int
           /\ sets \in Nat /\ parts \in Nat /\ Len(sendQueue) \in Nat
  BY WsgiAssumption DEF WsgiTypeOK, NotTaken, InHand

\* What the thread appends becomes the last message not taken.
LEMMA AppendKeepsOrder ==
    ASSUME InOrder, Appends, ~Terminated, ~Terminated', call' # "returned",
           UNCHANGED <<sent, sender>>, WsgiTypeOK'
    PROVE  InOrder'
  <1> USE DEF InOrder
  <1>1. sendQueue' = Append(sendQueue, produced + 1) /\ produced' = produced + 1
    BY DEF Appends
  <1>2. /\ NotTaken \in Nat /\ InHand' = InHand /\ sent' = sent
        /\ InHand \in Nat /\ sent \in Nat /\ produced \in Nat
    BY Counters DEF InHand
  <1>3. NotTaken' = NotTaken + 1 /\ sent + InHand + (NotTaken + 1) = produced + 1
    BY <1>1, <1>2 DEF NotTaken
  <1>4. /\ Len(sendQueue) = NotTaken /\ Len(sendQueue') = NotTaken + 1
        /\ \A i \in 1 .. NotTaken : sendQueue'[i] = sendQueue[i]
        /\ sendQueue'[NotTaken + 1] = produced + 1
    BY <1>1, <1>2 DEF WsgiTypeOK
  <1>5. ASSUME NEW i \in 1 .. Len(sendQueue')
        PROVE  sendQueue'[i] = IF i <= NotTaken' THEN sent' + InHand' + i ELSE 0
    <2>1. CASE i = NotTaken + 1
      <3>1. sendQueue'[i] = sent + InHand + i
        BY <1>3, <1>4, <2>1
      <3> QED BY <1>2, <1>3, <2>1, <3>1
    <2>2. CASE i # NotTaken + 1
      <3>1. i \in 1 .. NotTaken /\ i \in 1 .. Len(sendQueue)
        BY <1>2, <1>4, <2>2
      <3> QED BY <1>2, <1>3, <1>4, <3>1
    <2> QED BY <2>1, <2>2
  <1> QED BY <1>2, <1>3, <1>4, <1>5

\* Order depends on the queue, the counts and who holds a message only.
LEMMA OrderKept ==
    ASSUME InOrder, WsgiTypeOK', UNCHANGED <<sendQueue, sent, produced>>,
           InHand' = InHand, Terminated' = Terminated,
           call' = "returned" => sent = produced
    PROVE  InOrder'
  BY DEF InOrder, NotTaken

-----------------------------------------------------------------------------
(* Type correctness and the stages                                          *)

\* The invariant holds when the call begins.
LEMMA WsgiInit == Init => WsgiInv
  <1> SUFFICES ASSUME Init PROVE WsgiInv
    OBVIOUS
  <1>1. WsgiTypeOK
    <2>1. sendQueue \in Seq(0 .. MaxMessages) /\ 0 \in 0 .. MaxMessages /\ 0 \in 0 .. MaxParts
      BY WsgiAssumption DEF Init
    <2>2. /\ call = "receiving" /\ parts = 0 /\ thread = "idle" /\ sender = "none"
          /\ produced = 0 /\ sent = 0 /\ sets = 0
          /\ responseStarted = FALSE /\ excInfo = FALSE /\ sendEvent = FALSE
      BY DEF Init
    <2>3. sent \in 0 .. produced
      BY <2>2
    <2>4. {responseStarted, excInfo, sendEvent} \subseteq BOOLEAN
      BY <2>2, Zenon
    <2> QED BY <2>1, <2>2, <2>3, <2>4 DEF WsgiTypeOK
  <1>2. NotTaken = 0 /\ InHand = 0
    <2>1. sender = "none" /\ produced = 0 /\ sent = 0
      BY DEF Init
    <2>2. InHand = 0
      BY <2>1 DEF InHand
    <2> QED BY <2>1, <2>2 DEF NotTaken
  <1>3. ~Terminated /\ Len(sendQueue) = 0
    BY DEF Init, Terminated, Over
  <1> QED BY <1>1, <1>2, <1>3 DEF Init, WsgiInv, InOrder, NoLostWakeup, StagesInv, Over

\* Every step keeps the types,
LEMMA TypeStep == WsgiInv /\ [Next]_vars => WsgiTypeOK'
  <1> SUFFICES ASSUME WsgiInv, [Next]_vars PROVE WsgiTypeOK'
    OBVIOUS
  <1> USE DEF WsgiTypeOK, SetEvent
  <1>0. WsgiTypeOK /\ StagesInv
    BY DEF WsgiInv, InOrder
  <1>1. ASSUME NEW last \in BOOLEAN, ReceivePart(last) PROVE WsgiTypeOK'
    <2>1. parts' \in 0 .. MaxParts
      BY <1>0, <1>1, WsgiAssumption DEF ReceivePart
    <2> QED BY <1>0, <1>1, <2>1 DEF ReceivePart, eventVars
  <1>2. CASE RunSet
    BY <1>0, <1>2, WsgiAssumption DEF RunSet, callVars, threadVars
  <1>3. CASE SenderTakes
    <2>1. Tail(sendQueue) \in Seq(0 .. MaxMessages)
      BY <1>0, <1>3 DEF SenderTakes
    <2> QED BY <1>0, <1>3, <2>1 DEF SenderTakes, callVars, threadVars, eventVars
  <1>4. CASE SenderFindsNothing \/ SenderWaits \/ SenderWakes
    BY <1>0, <1>4 DEF SenderFindsNothing, SenderWaits, SenderWakes, callVars, threadVars,
                      eventVars
  <1>5. CASE SendEnds
    <2>1. sent' \in 0 .. produced
      <3>1. NotTaken >= 0 /\ InHand = 1
        BY <1>5 DEF SendEnds, InHand, WsgiInv, InOrder
      <3> QED BY <1>0, <1>5, <3>1, Counters DEF SendEnds, NotTaken
    <2> QED BY <1>0, <1>5, <2>1 DEF SendEnds, callVars, threadVars, eventVars
  <1>6. CASE WsgiOver
    <2>1. Append(sendQueue, 0) \in Seq(0 .. MaxMessages)
      BY <1>0, WsgiAssumption
    <2> QED BY <1>0, <1>6, <2>1 DEF WsgiOver, threadVars
  <1>7. CASE CallEnds
    BY <1>0, <1>7 DEF CallEnds, threadVars, eventVars
  <1>8. CASE ExecutorStarts \/ AppRaises
    BY <1>0, <1>8 DEF ExecutorStarts, AppRaises, callVars, eventVars
  <1>9. ASSUME Appends
        PROVE  /\ produced' \in 0 .. MaxMessages /\ produced' = produced + 1
               /\ sendQueue' \in Seq(0 .. MaxMessages)
    <2>1. produced + 1 \in 0 .. MaxMessages
      BY <1>0, <1>9, WsgiAssumption DEF Appends
    <2> QED BY <1>0, <1>9, <2>1 DEF Appends
  <1>10. CASE StartResponse
    <2>1. CASE UNCHANGED <<thread, produced, sendQueue>>
      BY <1>0, <1>10, <2>1 DEF StartResponse, callVars, eventVars
    <2>2. CASE Appends
      BY <1>0, <1>9, <1>10, <2>2, Counters DEF StartResponse, callVars, eventVars
    <2> QED BY <1>10, <2>1, <2>2 DEF StartResponse
  <1>11. CASE YieldChunk
    BY <1>0, <1>9, <1>11, Counters DEF YieldChunk, callVars, eventVars
  <1>12. CASE ThreadWakes
    <2>1. sets' \in 0 .. MaxMessages
      BY <1>0, <1>12, WsgiAssumption DEF ThreadWakes, StagesInv
    <2> QED BY <1>0, <1>12, <2>1 DEF ThreadWakes, callVars
  <1>13. CASE UNCHANGED vars
    BY <1>0, <1>13 DEF vars, callVars, threadVars, eventVars
  <1> QED BY <1>1, <1>2, <1>3, <1>4, <1>5, <1>6, <1>7, <1>8, <1>10, <1>11, <1>12, <1>13
          DEF Next

\* the stages of call, thread and sender together,
LEMMA StagesStep == WsgiInv /\ [Next]_vars => StagesInv'
  <1> SUFFICES ASSUME WsgiInv, [Next]_vars PROVE StagesInv'
    OBVIOUS
  <1>0. StagesInv /\ WsgiTypeOK /\ InOrder
    BY DEF WsgiInv, InOrder
  <1>a. sets \in Nat /\ produced \in Nat /\ sent \in Nat
    BY <1>0, Counters
  <1> USE DEF StagesInv, Over, SetEvent
  <1>1. ASSUME NEW last \in BOOLEAN, ReceivePart(last) PROVE StagesInv'
    BY <1>0, <1>1 DEF ReceivePart, eventVars
  <1>2. CASE RunSet
    BY <1>0, <1>a, <1>2 DEF RunSet, callVars, threadVars
  <1>3. CASE SenderTakes
    <2>1. ASSUME Head(sendQueue) = 0 PROVE Terminated /\ sent = produced
      <3>1. sendQueue[1] = 0 /\ 1 \in 1 .. Len(sendQueue)
        BY <1>0, <1>3, <2>1 DEF SenderTakes, WsgiTypeOK
      <3>2. NotTaken \in Nat /\ InHand = 0
        BY <1>0, <1>3, Counters DEF SenderTakes, InOrder, InHand
      <3>3. NotTaken = 0
        <4>1. 1 <= NotTaken => sent + InHand + 1 = 0
          BY <1>0, <3>1 DEF InOrder
        <4> QED BY <1>a, <3>2, <4>1
      <3> QED BY <1>0, <1>a, <3>1, <3>2, <3>3, Counters DEF InOrder, NotTaken
    <2> QED BY <1>0, <1>3, <2>1 DEF SenderTakes, Terminated, callVars, threadVars, eventVars
  <1>4. CASE SenderFindsNothing
    <2>1. ~Terminated
      BY <1>0, <1>4, Counters DEF SenderFindsNothing, InOrder, Terminated
    <2> QED BY <1>0, <1>4, <2>1 DEF SenderFindsNothing, Terminated, callVars, threadVars, eventVars
  <1>5. CASE SenderWaits \/ SenderWakes
    BY <1>0, <1>5 DEF SenderWaits, SenderWakes, callVars, threadVars
  <1>6. CASE SendEnds
    BY <1>0, <1>6 DEF SendEnds, callVars, threadVars, eventVars
  <1>7. CASE WsgiOver
    BY <1>0, <1>7 DEF WsgiOver, LoopFree, threadVars
  <1>8. CASE CallEnds
    BY <1>0, <1>8 DEF CallEnds, threadVars, eventVars
  <1>9. CASE ExecutorStarts \/ AppRaises
    BY <1>0, <1>9 DEF ExecutorStarts, AppRaises, callVars, eventVars
  <1>10. CASE StartResponse
    BY <1>0, <1>a, <1>10 DEF StartResponse, Appends, callVars, eventVars
  <1>11. CASE YieldChunk
    BY <1>0, <1>a, <1>11 DEF YieldChunk, Appends, callVars, eventVars
  <1>12. CASE ThreadWakes
    BY <1>0, <1>a, <1>12 DEF ThreadWakes, callVars
  <1>13. CASE UNCHANGED vars
    BY <1>0, <1>13 DEF vars, callVars, threadVars, eventVars
  <1> QED BY <1>1, <1>2, <1>3, <1>4, <1>5, <1>6, <1>7, <1>8, <1>9, <1>10, <1>11, <1>12,
             <1>13 DEF Next

-----------------------------------------------------------------------------
(* Order and wakeups                                                        *)

\* the messages in their order, none twice,
LEMMA OrderStep == WsgiInv /\ [Next]_vars => InOrder'
  <1> SUFFICES ASSUME WsgiInv, [Next]_vars PROVE InOrder'
    OBVIOUS
  <1>0. WsgiTypeOK /\ WsgiTypeOK' /\ InOrder /\ StagesInv
    BY TypeStep DEF WsgiInv, InOrder
  <1>a. /\ InHand \in {0, 1} /\ produced \in Nat /\ sent \in Nat /\ NotTaken \in Nat
        /\ Len(sendQueue) \in Nat
    BY <1>0, Counters DEF InOrder
  <1> USE DEF SetEvent
  <1>1. ASSUME NEW last \in BOOLEAN, ReceivePart(last) PROVE InOrder'
    BY <1>0, <1>1, OrderKept DEF ReceivePart, eventVars, InHand, Terminated, Over, StagesInv
  <1>2. CASE RunSet
    BY <1>0, <1>2, OrderKept DEF RunSet, callVars, threadVars, InHand, Terminated, InOrder
  <1>3. CASE SenderTakes
    <2>1. /\ sendQueue # <<>> /\ sendQueue' = Tail(sendQueue) /\ InHand = 0
          /\ UNCHANGED <<call, produced, sent>>
          /\ sender = "ready" /\ sender' = IF Head(sendQueue) = 0 THEN "done" ELSE "sending"
      BY <1>3 DEF SenderTakes, callVars, threadVars, InHand
    <2>2. /\ Len(sendQueue) >= 1 /\ Len(sendQueue') = Len(sendQueue) - 1
          /\ Head(sendQueue) = sendQueue[1]
          /\ \A i \in 1 .. Len(sendQueue') : sendQueue'[i] = sendQueue[i + 1]
      BY <1>0, <2>1 DEF WsgiTypeOK
    <2>3. sendQueue[1] = IF 1 <= NotTaken THEN sent + 1 ELSE 0
      BY <1>0, <1>a, <2>1, <2>2 DEF InOrder
    <2>4. CASE NotTaken = 0
      <3>1. Terminated /\ sender' = "done" /\ InHand' = 0 /\ NotTaken' = 0 /\ Len(sendQueue') = 0
        <4>1. sender' = "done" /\ Terminated
          BY <1>0, <1>a, <2>1, <2>2, <2>3, <2>4 DEF InOrder
        <4>2. InHand' = 0
          BY <4>1 DEF InHand
        <4>3. NotTaken' = NotTaken
          BY <2>1, <4>2 DEF NotTaken
        <4>4. Len(sendQueue) = 1
          BY <1>0, <2>4, <4>1 DEF InOrder
        <4> QED BY <2>2, <2>4, <4>1, <4>2, <4>3, <4>4
      <3>2. ~Terminated' /\ call' # "returned"
        <4>1. call # "returned"
          BY <1>0, <2>1 DEF StagesInv
        <4> QED BY <2>1, <3>1, <4>1 DEF Terminated
      <3> QED BY <1>0, <3>1, <3>2 DEF InOrder
    <2>5. CASE NotTaken # 0
      <3>1. sender' = "sending" /\ InHand' = 1
        <4>1. sender' = "sending"
          BY <1>a, <2>1, <2>2, <2>3, <2>5
        <4> QED BY <4>1 DEF InHand
      <3>2. NotTaken' = NotTaken - 1 /\ (Terminated' <=> Terminated)
        BY <1>a, <2>1, <3>1 DEF NotTaken, Terminated
      <3>3. Len(sendQueue') = NotTaken' + (IF Terminated' THEN 1 ELSE 0)
        BY <1>0, <1>a, <2>2, <3>2 DEF InOrder
      <3>4. ASSUME NEW i \in 1 .. Len(sendQueue')
            PROVE  sendQueue'[i] = IF i <= NotTaken' THEN sent' + InHand' + i ELSE 0
        <4>1. i + 1 \in 1 .. Len(sendQueue) /\ sendQueue'[i] = sendQueue[i + 1]
          BY <1>a, <2>2
        <4>2. sendQueue[i + 1] = IF i + 1 <= NotTaken THEN sent + InHand + (i + 1) ELSE 0
          BY <1>0, <4>1 DEF InOrder
        <4> QED BY <1>a, <2>1, <3>1, <3>2, <4>1, <4>2
      <3>5. call' # "returned"
        BY <1>0, <2>1 DEF StagesInv
      <3> QED BY <1>0, <1>a, <2>5, <3>2, <3>3, <3>4, <3>5 DEF InOrder
    <2> QED BY <2>4, <2>5
  <1>4. CASE SenderFindsNothing \/ SenderWaits \/ SenderWakes
    BY <1>0, <1>4, OrderKept DEF SenderFindsNothing, SenderWaits, SenderWakes, callVars,
       threadVars, eventVars, InHand, Terminated, InOrder
  <1>5. CASE SendEnds
    <2>1. /\ sender = "sending" /\ UNCHANGED <<call, produced, sendQueue>>
          /\ \/ sender' = "ready" /\ sent' = sent + 1
             \/ sender' = "failed" /\ sent' = sent
      BY <1>5 DEF SendEnds, callVars, threadVars
    <2>2. InHand = 1 /\ sent' + InHand' = sent + InHand /\ sent' + InHand' \in Nat
      BY <1>a, <2>1 DEF InHand
    <2>3. NotTaken' = NotTaken /\ (Terminated' <=> Terminated) /\ call' # "returned"
      BY <1>0, <2>1, <2>2 DEF NotTaken, Terminated, StagesInv
    <2> QED BY <1>0, <1>a, <2>1, <2>2, <2>3 DEF InOrder
  <1>6. CASE WsgiOver
    <2>1. /\ sendQueue' = Append(sendQueue, 0) /\ UNCHANGED <<produced, sent>>
          /\ call = "waiting" /\ call' = "ending" /\ sender # "done" /\ sender' # "done"
          /\ InHand' = InHand
      BY <1>0, <1>6 DEF WsgiOver, threadVars, StagesInv, Over, InHand
    <2>2. NotTaken' = NotTaken /\ ~Terminated /\ Terminated'
      BY <2>1 DEF NotTaken, Terminated, Over
    <2>3. /\ Len(sendQueue') = Len(sendQueue) + 1 /\ sendQueue'[Len(sendQueue) + 1] = 0
          /\ \A i \in 1 .. Len(sendQueue) : sendQueue'[i] = sendQueue[i]
      BY <1>0, <2>1 DEF WsgiTypeOK
    <2>4. Len(sendQueue) = NotTaken
      BY <1>0, <1>a, <2>2 DEF InOrder
    <2>5. ASSUME NEW i \in 1 .. Len(sendQueue')
          PROVE  sendQueue'[i] = IF i <= NotTaken' THEN sent' + InHand' + i ELSE 0
      <3>1. CASE i = NotTaken + 1
        BY <1>a, <2>2, <2>3, <2>4, <3>1
      <3>2. CASE i # NotTaken + 1
        <4>1. i \in 1 .. Len(sendQueue)
          BY <1>a, <2>3, <2>4, <3>2
        <4>2. sendQueue[i] = IF i <= NotTaken THEN sent + InHand + i ELSE 0
          BY <1>0, <4>1 DEF InOrder
        <4> QED BY <1>a, <2>1, <2>2, <2>3, <4>1, <4>2
      <3> QED BY <3>1, <3>2
    <2> QED BY <1>0, <1>a, <2>1, <2>2, <2>3, <2>4, <2>5 DEF InOrder
  <1>7. CASE CallEnds
    <2>1. /\ UNCHANGED <<sendQueue, sent, produced, sender>>
          /\ call = "ending" /\ call' \in {"raised", "returned"}
          /\ call' = "returned" => sender = "done"
      BY <1>7 DEF CallEnds, threadVars
    <2>2. InHand' = InHand /\ (Terminated' <=> Terminated)
      BY <2>1 DEF InHand, Terminated, Over
    <2> QED BY <1>0, <2>1, <2>2, OrderKept DEF StagesInv
  <1>8. CASE ExecutorStarts \/ AppRaises
    BY <1>0, <1>8, OrderKept DEF ExecutorStarts, AppRaises, callVars, eventVars, InHand,
       Terminated, InOrder
  <1>9. ASSUME Appends, thread = "running", UNCHANGED <<call, sent, sender>> PROVE InOrder'
    <2>1. call \notin Over
      BY <1>0, <1>9 DEF StagesInv
    <2> QED BY <1>0, <1>9, <2>1, AppendKeepsOrder DEF Terminated, Over
  <1>10. CASE StartResponse
    <2>1. CASE UNCHANGED <<thread, produced, sendQueue>>
      BY <1>0, <1>10, <2>1, OrderKept DEF StartResponse, callVars, eventVars, InHand,
         Terminated, InOrder
    <2>2. CASE Appends
      BY <1>9, <1>10, <2>2 DEF StartResponse, callVars
    <2> QED BY <1>10, <2>1, <2>2 DEF StartResponse
  <1>11. CASE YieldChunk
    BY <1>9, <1>11 DEF YieldChunk, callVars
  <1>12. CASE ThreadWakes
    BY <1>0, <1>12, OrderKept DEF ThreadWakes, callVars, InHand, Terminated, InOrder
  <1>13. CASE UNCHANGED vars
    BY <1>0, <1>13, OrderKept DEF vars, callVars, threadVars, eventVars, InHand, Terminated,
       InOrder
  <1> QED BY <1>1, <1>2, <1>3, <1>4, <1>5, <1>6, <1>7, <1>8, <1>10, <1>11, <1>12, <1>13
          DEF Next

\* and a wake-up on its way to a sender that is about to wait.
LEMMA WakeupStep == WsgiInv /\ [Next]_vars => NoLostWakeup'
  <1> SUFFICES ASSUME WsgiInv, [Next]_vars PROVE NoLostWakeup'
    OBVIOUS
  <1>0. NoLostWakeup /\ StagesInv /\ sets \in Nat
    BY Counters DEF WsgiInv, InOrder
  <1> USE DEF NoLostWakeup, SetEvent
  <1>1. ASSUME NEW last \in BOOLEAN, ReceivePart(last) PROVE NoLostWakeup'
    BY <1>0, <1>1 DEF ReceivePart, eventVars, StagesInv
  <1>2. CASE RunSet
    BY <1>0, <1>2 DEF RunSet, LoopFree, callVars, threadVars
  <1>3. CASE SenderTakes \/ SenderFindsNothing
    BY <1>0, <1>3 DEF SenderTakes, SenderFindsNothing, threadVars, eventVars
  <1>4. CASE SenderWaits \/ SenderWakes
    BY <1>0, <1>4 DEF SenderWaits, SenderWakes, threadVars
  <1>5. CASE SendEnds
    BY <1>0, <1>5 DEF SendEnds
  <1>6. CASE WsgiOver
    BY <1>0, <1>6 DEF WsgiOver, LoopFree, threadVars
  <1>7. CASE CallEnds
    BY <1>0, <1>7 DEF CallEnds, threadVars, eventVars
  <1>8. CASE ExecutorStarts \/ AppRaises
    BY <1>0, <1>8 DEF ExecutorStarts, AppRaises, eventVars
  <1>9. CASE StartResponse
    BY <1>0, <1>9 DEF StartResponse, eventVars
  <1>10. CASE YieldChunk
    BY <1>10 DEF YieldChunk
  <1>11. CASE ThreadWakes
    BY <1>0, <1>11 DEF ThreadWakes
  <1>12. CASE UNCHANGED vars
    BY <1>0, <1>12 DEF vars, callVars, threadVars, eventVars
  <1> QED BY <1>1, <1>2, <1>3, <1>4, <1>5, <1>6, <1>7, <1>8, <1>9, <1>10, <1>11, <1>12
          DEF Next

-----------------------------------------------------------------------------
(* The theorems                                                             *)

\* The call, its thread and its sender keep in step whatever the application,
\* the loop and the server's send() do.
THEOREM WsgiInductive == Spec => []WsgiInv
  <1>1. WsgiInv /\ [Next]_vars => WsgiInv'
    BY OrderStep, WakeupStep, StagesStep DEF WsgiInv
  <1> QED BY WsgiInit, <1>1, PTL DEF Spec

\* What the thread appends is sent in its order, nothing twice and nothing left
\* out, and a call that returns has sent everything.
THEOREM SentInOrder == Spec => []InOrder
  <1>1. WsgiInv => InOrder
    BY DEF WsgiInv
  <1> QED BY <1>1, WsgiInductive, PTL

\* sender() never waits for a message that is in the queue with nobody left to
\* wake it.
THEOREM SenderIsWoken == Spec => []NoLostWakeup
  <1>1. WsgiInv => NoLostWakeup
    BY DEF WsgiInv
  <1> QED BY <1>1, WsgiInductive, PTL
=============================================================================
