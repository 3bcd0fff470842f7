-------------------------- MODULE HttpTools_channels --------------------------
(***************************************************************************)
(* Theorems about the two channels of HttpTools, receive() and send(): no   *)
(* lost wake-up, bodies delivered in full, pauses that have an owner, exact *)
(* framing.  For every number of requests and every bound.                  *)
(***************************************************************************)
EXTENDS HttpTools_proofs

\* Only send() touches what is written, and what it wrote stays true.
LEMMA FrameInit == Init => FrameInv
  BY DEF Init, FrameInv, All

\* A message adds to what was written what it takes from what is owed.
LEMMA FrameTransmit ==
    ASSUME TypeOK, Order, FrameInv, NEW q \in Requests, NEW m \in Messages, Transmit(q, m)
    PROVE  FrameInv'
  <1> SUFFICES ASSUME NEW r \in Requests \ HeadRequests
               PROVE  /\ ~started'[r] => written'[r] = 0 /\ ~headSent'[r]
                      /\ headSent'[r] /\ framing'[r] # Chunked =>
                            /\ written'[r] + expected'[r] = framing'[r]
                            /\ complete'[r] => expected'[r] = 0
    BY DEF FrameInv
  <1> USE DEF TypeOK, OutTypeOK
  <1>1. CASE SendStart(q, m)
    <2>1. /\ written'[r] = written[r] /\ complete'[r] = complete[r]
          /\ q # r => /\ started'[r] = started[r] /\ headSent'[r] = headSent[r]
                      /\ framing'[r] = framing[r] /\ expected'[r] = expected[r]
      BY <1>1 DEF SendStart
    <2>2. ASSUME q = r
          PROVE  /\ ~started[r] /\ started'[r]
                 /\ headSent'[r] => /\ framing'[r] = m.length
                                    /\ m.length # Chunked => expected'[r] = m.length
      BY <1>1, <2>2 DEF SendStart
    <2>3. ~started[r] => ~complete[r]
      BY DEF Order, TurnInv
    <2> QED BY <1>1, <2>1, <2>2, <2>3, MessageFields DEF SendStart, FrameInv
  <1>2. ASSUME Accepts(q, m), WriteBody(q, m), q = r, framing[r] # Chunked
        PROVE  /\ expected'[r] = expected[r] - m.size /\ written'[r] = written[r] + m.size
               /\ Remaining(r, m) = expected[r] - m.size
               /\ m.size \in Nat /\ started[r] /\ ~complete[r]
    BY <1>2, MessageFields DEF Accepts, WriteBody, Remaining
  <1>3. CASE SendPart(q, m)
    BY <1>2, <1>3 DEF SendPart, FrameInv, Accepts, WriteBody
  <1>4. CASE SendLast(q, m)
    BY <1>2, <1>4 DEF SendLast, Short, FrameInv, Accepts, WriteBody
  <1>5. CASE SendWithoutEffect(q, m)
    BY <1>5 DEF SendWithoutEffect, FrameInv, outVars
  <1> QED BY <1>1, <1>3, <1>4, <1>5 DEF Transmit

\* Every other step leaves what was sent alone.
LEMMA OnlySendWrites ==
    ASSUME TypeOK, [Next]_vars
    PROVE  \/ UNCHANGED outVars
           \/ \E q \in Requests, m \in Messages : Transmit(q, m)
  <1>1. CASE ParserStep
    BY <1>1 DEF ParserStep, DataReceived, FeedDone, OnMessageBegin, OnHeadersComplete,
                OnBody, OnMessageComplete, ParseError, UpgradeToWebSocket
  <1>2. ASSUME NEW q \in Requests, AppStep(q)
        PROVE  UNCHANGED outVars \/ \E m \in Messages : Transmit(q, m)
    BY <1>2 DEF AppStep, ReceiveReturns, ReceiveWaits, ReceiveWakes, Send, SendWaits,
                SendWakes, AppReturns, AppReturnsValue, AppRaises, AppEnds, TypeOK,
                SendTypeOK
  <1>3. CASE TransportStep
    BY <1>3 DEF TransportStep, KeepAliveTimeout, EofReceived, ConnectionLost,
                UpgradedConnectionLost, ResumeWriting, Shutdown
  <1>4. CASE UNCHANGED vars
    BY <1>4 DEF vars
  <1> QED BY <1>1, <1>2, <1>3, <1>4 DEF Next

\* Every step keeps the framing,
LEMMA FrameStep == TypeOK /\ Order /\ FrameInv /\ [Next]_vars => FrameInv'
  <1>1. ASSUME FrameInv, UNCHANGED outVars PROVE FrameInv'
    BY <1>1 DEF FrameInv, outVars
  <1> QED BY <1>1, OnlySendWrites, FrameTransmit

\* and the framing gives FramingExact once the response is complete.
LEMMA FrameGivesExact == TypeOK /\ FrameInv => FramingExact
  BY DEF TypeOK, OutTypeOK, FrameInv, FramingExact

\* A complete response carries exactly the bytes its head declared, an
\* incomplete one never more.
THEOREM Framing == Spec => []FramingExact
  BY FrameInit, FrameStep, FrameGivesExact, TypeCorrect, Inductive, PTL
     DEF Spec, Inv, Order

-----------------------------------------------------------------------------
(* drain()                                                                  *)

\* Who waits in drain() waits for a pause, and a lost connection leaves no pause:
\* between them these two are DrainInv.
PausedWaits == \A r \in Requests : sending[r] = "waiting" => writePaused
LossResumes == transport = "lost" /\ ~upgraded => ~writePaused

LEMMA DrainParts == DrainInv <=> PausedWaits /\ LossResumes
  BY DEF DrainInv, NoLostDrain, PausedWaits, LossResumes

\* A write may fill the transport's buffer, never empty it, and only that of an open
\* connection of this protocol.
LEMMA TransmitWrites ==
    ASSUME TypeOK, NEW q \in Requests, NEW m \in Messages, Transmit(q, m)
    PROVE  /\ writePaused => writePaused'
           /\ LossResumes => LossResumes'
  BY DEF Transmit, SendStart, SendPart, SendLast, WriteBody, SendWithoutEffect, Write,
         connVars, restVars, OnResponseComplete, AfterLast, Closed, LossResumes, TypeOK

\* Only resume_writing and a lost connection end a pause, and they wake everyone.
LEMMA DrainStep == TypeOK /\ DrainInv /\ [Next]_vars => DrainInv'
  <1> SUFFICES ASSUME TypeOK, PausedWaits, LossResumes, [Next]_vars
               PROVE  PausedWaits' /\ LossResumes'
    BY DrainParts, PTL
  <1>1. CASE ParserStep
    <2>1. sending' = sending /\ (writePaused => writePaused')
      <3>1. OnBody => UNCHANGED <<sending, writePaused>>
        BY DEF OnBody, sendVars
      <3>3. OnMessageComplete => UNCHANGED <<sending, writePaused>>
        BY DEF OnMessageComplete, sendVars
      <3>2. ASSUME NEW over \in BOOLEAN, NEW ka \in BOOLEAN, OnHeadersComplete(over, ka)
            PROVE  UNCHANGED <<sending, writePaused>>
        BY <3>2 DEF OnHeadersComplete, sendVars
      <3> QED BY <1>1, <3>1, <3>2, <3>3
              DEF ParserStep, DataReceived, FeedDone, OnMessageBegin, ParseError,
                  UpgradeToWebSocket, Write, sendVars
    <2>2. LossResumes'
      <3>1. ASSUME OnBody \/ OnMessageComplete \/ DataReceived \/ FeedDone \/ OnMessageBegin
            PROVE  UNCHANGED <<transport, upgraded, writePaused>>
        BY <3>1 DEF OnBody, OnMessageComplete, DataReceived, FeedDone, OnMessageBegin,
                    restVars, connVars
      <3>2. ASSUME NEW over \in BOOLEAN, NEW ka \in BOOLEAN, OnHeadersComplete(over, ka)
            PROVE  UNCHANGED <<transport, upgraded, writePaused>>
        BY <3>2 DEF OnHeadersComplete
      <3>3. CASE ParseError
        BY <3>3 DEF ParseError, Write, Closed, LossResumes, TypeOK
      <3>4. CASE UpgradeToWebSocket
        BY <3>4 DEF UpgradeToWebSocket, LossResumes
      <3> QED BY <1>1, <3>1, <3>2, <3>3, <3>4 DEF ParserStep, LossResumes
    <2> QED BY <2>1, <2>2 DEF PausedWaits
  <1>2. ASSUME NEW q \in Requests, AppStep(q) PROVE PausedWaits' /\ LossResumes'
    <2> USE DEF PausedWaits
    <2>1. CASE ReceiveReturns(q) \/ ReceiveWaits(q) \/ ReceiveWakes(q)
      BY <2>1 DEF ReceiveReturns, ReceiveWaits, ReceiveWakes, Continue100, Write,
                  sendVars, connVars, restVars, LossResumes
    <2>2. ASSUME NEW m \in Messages, Send(q, m) PROVE PausedWaits' /\ LossResumes'
      BY <2>2, TransmitWrites DEF Send, sendVars
    <2>3. ASSUME NEW m \in Messages, SendWaits(q, m) PROVE PausedWaits' /\ LossResumes'
      BY <2>3 DEF SendWaits, connVars, restVars, LossResumes
    <2>4. CASE SendWakes(q)
      BY <2>4, TransmitWrites DEF SendWakes, TypeOK, SendTypeOK
    <2>5. CASE AppReturns(q) \/ AppReturnsValue(q) \/ AppRaises(q)
      BY <2>5 DEF AppReturns, AppReturnsValue, AppRaises, AppEnds, EndCalls, TypeOK,
                  SendTypeOK, Closed, restVars, LossResumes
    <2> QED BY <1>2, <2>1, <2>2, <2>3, <2>4, <2>5 DEF AppStep
  <1>3. CASE TransportStep
    <2>1. PausedWaits'
      BY <1>3 DEF TransportStep, KeepAliveTimeout, EofReceived, ConnectionLost,
                  UpgradedConnectionLost, ResumeWriting, ResumeWritingEffect, Shutdown,
                  sendVars, PausedWaits
    <2>2. LossResumes'
      BY <1>3 DEF TransportStep, KeepAliveTimeout, EofReceived, ConnectionLost,
                  UpgradedConnectionLost, ResumeWriting, ResumeWritingEffect, Shutdown,
                  restVars, LossResumes, Closed, TypeOK
    <2> QED BY <2>1, <2>2
  <1>4. CASE UNCHANGED vars
    BY <1>4 DEF vars, connVars, restVars, sendVars, PausedWaits, LossResumes
  <1> QED BY <1>1, <1>2, <1>3, <1>4 DEF Next

THEOREM Draining == Spec => []DrainInv
  <1>1. Init => DrainInv
    BY DEF Init, DrainInv, NoLostDrain, All
  <1> QED BY <1>1, DrainStep, TypeCorrect, PTL DEF Spec

\* A send() waits in drain() only while the write buffer is above its mark and the
\* connection stands: resume_writing and a lost connection wake every one of them.
\* Only an upgrade hands its connection, and the loss of it, to another protocol.
THEOREM DrainsWake == Spec => []NoLostDrain
  BY Draining, PTL DEF DrainInv

-----------------------------------------------------------------------------
(* receive()                                                                *)

\* ReceiveInv for one request.
Channel(r) ==
    /\ r > cycle => moreBody[r]
    /\ r <= cycle /\ moreBody[r] /\ ~complete[r] => r = cycle /\ parser = "body"
    /\ ~event[r] /\ ~complete[r] /\ ~disconnected[r]
          => body[r] = 0 /\ (moreBody[r] \/ gotEnd[r])
    /\ receiving[r] # "no" => task[r] = "running"
    /\ receiving[r] = "waiting" =>
          /\ ~event[r] /\ ~complete[r] /\ ~disconnected[r] /\ body[r] = 0
          /\ moreBody[r] \/ gotEnd[r]
    /\ ~complete[r] => given[r] + body[r] = received[r]
    /\ gotEnd[r] => ~moreBody[r] /\ given[r] + body[r] = received[r] /\ body[r] = 0
    /\ gotEnd[r] /\ (event[r] \/ receiving[r] = "woken") => complete[r] \/ disconnected[r]

ParserInBody == parser = "body" => cycle > 0 /\ moreBody[cycle]

\* ReceiveInv speaks of each request's channel by itself, in both states.
LEMMA ReceiveIsChannels ==
    /\ ReceiveInv <=> ParserInBody /\ \A r \in Requests : Channel(r)
    /\ ReceiveInv' <=> ParserInBody' /\ \A r \in Requests : Channel(r)'
  BY DEF ReceiveInv, ParserInBody, Channel, NoLostWakeup, BodyDelivery

\* It holds before the first byte.
LEMMA ReceiveInit == Init => ReceiveInv
  BY DEF Init, All, ReceiveInv, NoLostWakeup, BodyDelivery, Requests

\* A step that leaves the channel of request r alone.
LEMMA ChannelStays ==
    ASSUME TypeOK, NEW r \in Requests, Channel(r), UNCHANGED <<cycle, parser>>,
           moreBody'[r] = moreBody[r], complete'[r] = complete[r], event'[r] = event[r],
           disconnected'[r] = disconnected[r], body'[r] = body[r], given'[r] = given[r],
           received'[r] = received[r], gotEnd'[r] = gotEnd[r],
           receiving'[r] = receiving[r],
           receiving[r] # "no" => task'[r] = "running"
    PROVE  Channel(r)'
  BY DEF Channel

\* The parser's callbacks keep it: data and the end of a body set the event.
LEMMA ParserReceives ==
    ASSUME TypeOK, Order, ReceiveInv, ParserStep
    PROVE  ReceiveInv'
  <1>0. ParserInBody /\ \A r \in Requests : Channel(r)
    BY ReceiveIsChannels
  <1> SUFFICES ParserInBody' /\ \A r \in Requests : Channel(r)'
    BY ReceiveIsChannels
  <1>1. CASE DataReceived \/ FeedDone \/ ParseError
    <2>1. UNCHANGED <<cycle, parser, inVars, wakeVars, complete, disconnected, task>>
      BY <1>1 DEF DataReceived, FeedDone, ParseError, outVars, queueVars
    <2> QED BY <1>0, <2>1 DEF ParserInBody, Channel, inVars, wakeVars
  <1>2. CASE OnMessageBegin \/ UpgradeToWebSocket
    <2>1. /\ UNCHANGED <<cycle, inVars, wakeVars, complete, disconnected, task>>
          /\ parser # "body" /\ parser' # "body"
      BY <1>2 DEF OnMessageBegin, UpgradeToWebSocket, outVars, queueVars
    <2> QED BY <1>0, <2>1 DEF ParserInBody, Channel, inVars, wakeVars
  <1>3. ASSUME NEW over \in BOOLEAN, NEW ka \in BOOLEAN, OnHeadersComplete(over, ka)
        PROVE  ParserInBody' /\ \A r \in Requests : Channel(r)'
    <2>1. /\ parser = "head" /\ parser' = "body" /\ cycle' = cycle + 1
          /\ cycle \in Nat /\ cycle + 1 \in Requests
          /\ UNCHANGED <<body, moreBody, received, given, gotEnd, complete, disconnected>>
          /\ UNCHANGED wakeVars
      BY <1>3, ConstantsAssumption DEF OnHeadersComplete, outVars, TypeOK, QueueTypeOK,
         Requests
    <2>2. \A r \in Requests : r # cycle + 1 => task'[r] = task[r]
      BY <1>3 DEF OnHeadersComplete, TypeOK, CycleTypeOK
    <2>3. task[cycle + 1] = "none"
      BY <2>1 DEF Order, TurnInv
    <2> QED BY <1>0, <2>1, <2>2, <2>3 DEF ParserInBody, Channel, wakeVars, Requests
  <1>4. CASE OnBody
    <2>1. /\ parser = "body" /\ cycle \in Requests /\ ~complete[cycle]
          /\ UNCHANGED <<cycle, parser, moreBody, given, gotEnd, complete, disconnected,
                         task>>
      BY <1>0, <1>4, ConstantsAssumption
         DEF OnBody, ParserInBody, outVars, queueVars, restVars, TypeOK, QueueTypeOK,
             Requests
    <2>2. /\ body'[cycle] = body[cycle] + 1 /\ received'[cycle] = received[cycle] + 1
          /\ event'[cycle]
          /\ receiving'[cycle] = IF receiving[cycle] = "waiting" THEN "woken"
                                 ELSE receiving[cycle]
      BY <1>4, <2>1 DEF OnBody, SetEvent, TypeOK, InTypeOK, WakeTypeOK
    <2>3. \A r \in Requests : r # cycle =>
             /\ body'[r] = body[r] /\ received'[r] = received[r]
             /\ event'[r] = event[r] /\ receiving'[r] = receiving[r]
      BY <1>4 DEF OnBody, SetEvent, TypeOK, InTypeOK, WakeTypeOK
    <2>4. Channel(cycle)'
      BY <1>0, <2>1, <2>2 DEF Channel, ParserInBody, TypeOK, InTypeOK
    <2>5. ASSUME NEW r \in Requests, r # cycle PROVE Channel(r)'
      BY <1>0, <2>1, <2>3, <2>5, ChannelStays DEF Channel
    <2> QED BY <1>0, <2>1, <2>4, <2>5 DEF ParserInBody
  <1>5. CASE OnMessageComplete
    <2>1. /\ parser = "body" /\ parser' = "idle" /\ cycle \in Requests
          /\ UNCHANGED <<cycle, body, received, given, gotEnd, complete, disconnected,
                         task>>
      BY <1>0, <1>5, ConstantsAssumption
         DEF OnMessageComplete, ParserInBody, outVars, queueVars, TypeOK, QueueTypeOK,
             Requests
    <2>2. CASE complete[cycle] /\ UNCHANGED <<moreBody, wakeVars>>
      BY <1>0, <2>1, <2>2 DEF Channel, ParserInBody, wakeVars
    <2>3. CASE ~complete[cycle] /\ EndOfBody(cycle)
      <3>1. /\ ~moreBody'[cycle] /\ event'[cycle]
            /\ receiving'[cycle] = IF receiving[cycle] = "waiting" THEN "woken"
                                   ELSE receiving[cycle]
        BY <2>1, <2>3 DEF EndOfBody, SetEvent, TypeOK, InTypeOK, WakeTypeOK
      <3>2. \A r \in Requests : r # cycle =>
               /\ moreBody'[r] = moreBody[r]
               /\ event'[r] = event[r] /\ receiving'[r] = receiving[r]
        BY <2>3 DEF EndOfBody, SetEvent, TypeOK, InTypeOK, WakeTypeOK
      <3>3. Channel(cycle)'
        BY <1>0, <2>1, <2>3, <3>1
           DEF Channel, ParserInBody, TypeOK, InTypeOK, WakeTypeOK, Requests
      <3>4. ASSUME NEW r \in Requests, r # cycle PROVE Channel(r)'
        BY <1>0, <2>1, <3>2, <3>4 DEF Channel
      <3> QED BY <2>1, <3>3, <3>4 DEF ParserInBody
    <2> QED BY <1>5, <2>2, <2>3 DEF OnMessageComplete
  <1> QED BY <1>1, <1>2, <1>3, <1>4, <1>5 DEF ParserStep

\* receive() keeps it: the event is cleared only when nothing is left unread.
LEMMA ReceiverReceives ==
    ASSUME TypeOK, ReceiveInv, NEW q \in Requests,
           ReceiveReturns(q) \/ ReceiveWaits(q) \/ ReceiveWakes(q)
    PROVE  ReceiveInv'
  <1>0. ParserInBody /\ \A r \in Requests : Channel(r)
    BY ReceiveIsChannels
  <1>1. UNCHANGED <<cycle, parser, moreBody, received, complete, disconnected, task>>
    BY DEF ReceiveReturns, ReceiveWaits, ReceiveWakes, restVars, queueVars, outVars,
           connVars
  <1>2. \A r \in Requests : r # q =>
           /\ body'[r] = body[r] /\ given'[r] = given[r] /\ gotEnd'[r] = gotEnd[r]
           /\ event'[r] = event[r] /\ receiving'[r] = receiving[r]
    BY DEF ReceiveReturns, ReceiveWaits, ReceiveWakes, TakeBody, ClearEvent, TypeOK,
           InTypeOK, WakeTypeOK
  <1>3. ASSUME TakeBody(q)
        PROVE  /\ given'[q] = given[q] + body[q] /\ body'[q] = 0
               /\ gotEnd'[q] <=> gotEnd[q] \/ ~moreBody[q]
    BY <1>3 DEF TakeBody, TypeOK, InTypeOK
  <1>4. ClearEvent(q) => ~event'[q]
    BY DEF ClearEvent, TypeOK, WakeTypeOK
  <1>5. Channel(q)'
    <2>1. CASE ReceiveReturns(q)
      BY <1>0, <1>1, <1>3, <1>4, <2>1 DEF ReceiveReturns, Channel, TypeOK, InTypeOK
    <2>2. CASE ReceiveWaits(q)
      <3>1. receiving'[q] = "waiting"
        BY <2>2 DEF ReceiveWaits, TypeOK, WakeTypeOK
      <3> QED BY <1>0, <1>1, <2>2, <3>1 DEF ReceiveWaits, Channel
    <2>3. CASE ReceiveWakes(q)
      <3>1. receiving'[q] = "no"
        BY <2>3 DEF ReceiveWakes, TypeOK, WakeTypeOK
      <3> QED BY <1>0, <1>1, <1>3, <1>4, <2>3, <3>1 DEF ReceiveWakes, Channel, TypeOK, InTypeOK
    <2> QED BY <2>1, <2>2, <2>3
  <1>6. ASSUME NEW r \in Requests, r # q PROVE Channel(r)'
    BY <1>0, <1>1, <1>2, <1>6 DEF Channel
  <1> QED BY <1>0, <1>1, <1>5, <1>6, ReceiveIsChannels DEF ParserInBody

\* send() keeps it: a complete response sets the event and ends the reading.
LEMMA TransmitReceives ==
    ASSUME TypeOK, Order, ReceiveInv, NEW q \in Requests, NEW m \in Messages,
           Transmit(q, m)
    PROVE  ReceiveInv'
  <1>0. ParserInBody /\ \A r \in Requests : Channel(r)
    BY ReceiveIsChannels
  <1>1. \A r \in Requests : receiving[r] # "no" => Advanced(q)[r] = "running"
    BY <1>0 DEF Channel, Advanced, After, TypeOK, CycleTypeOK
  <1>2. CASE ~SendLast(q, m)
    <2>1. /\ UNCHANGED <<cycle, parser, body, moreBody, received, given, gotEnd,
                         complete, disconnected>>
          /\ UNCHANGED wakeVars /\ task' = Advanced(q)
      <3>1. SendStart(q, m) \/ SendPart(q, m) \/ SendWithoutEffect(q, m)
        BY <1>2 DEF Transmit
      <3> QED BY <3>1 DEF SendStart, SendPart, SendWithoutEffect, connVars, restVars,
                          queueVars, inVars, outVars
    <2>2. ASSUME NEW r \in Requests PROVE Channel(r)'
      BY <1>0, <1>1, <2>1, ChannelStays DEF wakeVars
    <2> QED BY <1>0, <2>1, <2>2, ReceiveIsChannels DEF ParserInBody
  <1>3. CASE SendLast(q, m)
    <2>1. /\ UNCHANGED <<cycle, parser, body, moreBody, received, given, gotEnd,
                         disconnected>>
          /\ OnResponseComplete(q, transport') /\ SetEvent(q)
      BY <1>3 DEF SendLast, restVars, inVars
    <2>2. /\ complete'[q] /\ event'[q]
          /\ receiving'[q] = IF receiving[q] = "waiting" THEN "woken" ELSE receiving[q]
      BY <1>3 DEF SendLast, SetEvent, TypeOK, OutTypeOK, WakeTypeOK
    <2>3. \A r \in Requests : r # q =>
             /\ complete'[r] = complete[r]
             /\ event'[r] = event[r] /\ receiving'[r] = receiving[r]
      BY <1>3 DEF SendLast, SetEvent, TypeOK, OutTypeOK, WakeTypeOK
    <2>4. ASSUME NEW r \in Requests, receiving[r] # "no" PROVE task'[r] = "running"
      <3>1. task[r] = "running"
        BY <1>0, <2>4 DEF Channel
      <3>2. pipeline # <<>> => /\ Head(pipeline) \in Requests
                               /\ task[Head(pipeline)] \in {"queued", "queued503"}
        <4>1. ASSUME pipeline # <<>>
              PROVE  /\ Head(pipeline) = pipeline[1] /\ 1 \in 1 .. Len(pipeline)
                     /\ Head(pipeline) \in Requests /\ Len(pipeline) \in Nat
          BY <4>1 DEF TypeOK, QueueTypeOK
        <4>2. pipeline # <<>> => Head(pipeline) = Active + 1 /\ Active + 1 <= cycle
          BY <4>1 DEF Order, QueueInv, Active, TypeOK, QueueTypeOK
        <4> QED BY <4>1, <4>2 DEF Order, TurnInv, Active, TypeOK, QueueTypeOK
      <3>3. Advanced(q)[r] = "running" /\ Advanced(q) \in [Requests -> Live \cup {"none", "queued", "queued503", "done"}]
        BY <1>1, <2>4 DEF Advanced, After, Live, TypeOK, CycleTypeOK
      <3>4. CASE task' = Advanced(q)
        BY <3>3, <3>4
      <3>5. CASE pipeline # <<>> /\ task' = [Advanced(q) EXCEPT ![Head(pipeline)] = StartTask(@)]
        <4>1. r # Head(pipeline)
          BY <3>1, <3>2, <3>5
        <4> QED BY <3>3, <3>5, <4>1
      <3> QED BY <2>1, <3>4, <3>5 DEF OnResponseComplete, HasNext
    <2>5. Channel(q)'
      BY <1>0, <2>1, <2>2, <2>4 DEF Channel, TypeOK, InTypeOK, WakeTypeOK
    <2>6. ASSUME NEW r \in Requests, r # q PROVE Channel(r)'
      BY <1>0, <2>1, <2>3, <2>4, <2>6, ChannelStays
    <2> QED BY <1>0, <2>1, <2>5, <2>6, ReceiveIsChannels DEF ParserInBody
  <1> QED BY <1>2, <1>3

\* So every step of an application keeps it,
LEMMA AppReceives ==
    ASSUME TypeOK, Order, ReceiveInv, NEW q \in Requests, AppStep(q)
    PROVE  ReceiveInv'
  <1>1. CASE ReceiveReturns(q) \/ ReceiveWaits(q) \/ ReceiveWakes(q)
    BY <1>1, ReceiverReceives
  <1>2. ASSUME NEW m \in Messages, Transmit(q, m) PROVE ReceiveInv'
    BY <1>2, TransmitReceives
  <1>3. ASSUME NEW m \in Messages, SendWaits(q, m) PROVE ReceiveInv'
    <2>1. UNCHANGED <<cycle, parser, inVars, wakeVars, complete, disconnected, task>>
      BY <1>3 DEF SendWaits, connVars, restVars, queueVars, outVars
    <2> QED BY <2>1 DEF ReceiveInv, NoLostWakeup, BodyDelivery, inVars, wakeVars
  <1>4. CASE AppReturns(q) \/ AppReturnsValue(q) \/ AppRaises(q)
    <2>0. ParserInBody /\ \A r \in Requests : Channel(r)
      BY ReceiveIsChannels
    <2>1. /\ UNCHANGED <<cycle, parser, body, moreBody, received, given, gotEnd,
                         event, complete, disconnected>>
          /\ receiving' = [receiving EXCEPT ![q] = "no"]
          /\ \A r \in Requests : r # q => task'[r] = task[r]
      BY <1>4 DEF AppReturns, AppReturnsValue, AppRaises, AppEnds, EndCalls, restVars,
                  queueVars, inVars, outVars, TypeOK, CycleTypeOK
    <2>2. receiving'[q] = "no" /\ \A r \in Requests : r # q => receiving'[r] = receiving[r]
      BY <2>1 DEF TypeOK, WakeTypeOK
    <2>3. \A r \in Requests : Channel(r)'
      BY <2>0, <2>1, <2>2 DEF Channel
    <2> QED BY <2>0, <2>1, <2>3, ReceiveIsChannels DEF ParserInBody
  <1> QED BY <1>1, <1>2, <1>3, <1>4 DEF AppStep, Send, SendWakes, TypeOK, SendTypeOK

\* every callback of the transport and of a timer,
LEMMA TransportReceives ==
    ASSUME TypeOK, ReceiveInv, TransportStep
    PROVE  ReceiveInv'
  <1>1. CASE \/ KeepAliveTimeout \/ EofReceived \/ UpgradedConnectionLost
             \/ ResumeWriting \/ Shutdown
    <2>1. UNCHANGED <<cycle, parser, inVars, wakeVars, complete, disconnected, task>>
      BY <1>1 DEF KeepAliveTimeout, EofReceived, UpgradedConnectionLost, ResumeWriting,
                  Shutdown, restVars, queueVars, outVars
    <2> QED BY <2>1 DEF ReceiveInv, NoLostWakeup, BodyDelivery, inVars, wakeVars
  <1>2. ASSUME NEW failed \in BOOLEAN, ConnectionLost(failed) PROVE ReceiveInv'
    <2>0. ParserInBody /\ \A r \in Requests : Channel(r)
      BY ReceiveIsChannels
    <2>1. UNCHANGED <<cycle, parser, inVars, complete, task>>
      BY <1>2 DEF ConnectionLost, outVars
    <2>2. CASE UNCHANGED <<disconnected, wakeVars>>
      BY <2>1, <2>2 DEF ReceiveInv, NoLostWakeup, BodyDelivery, inVars, wakeVars
    <2>3. CASE /\ cycle # 0 /\ SetEvent(cycle)
               /\ disconnected' = [disconnected EXCEPT ![cycle] = @ \/ ~complete[cycle]]
      <3>1. cycle \in Requests
        BY <2>3, ConstantsAssumption DEF TypeOK, QueueTypeOK, Requests
      <3>2. /\ disconnected'[cycle] <=> disconnected[cycle] \/ ~complete[cycle]
            /\ event'[cycle]
            /\ receiving'[cycle] = IF receiving[cycle] = "waiting" THEN "woken"
                                   ELSE receiving[cycle]
        BY <2>3, <3>1 DEF SetEvent, TypeOK, CycleTypeOK, WakeTypeOK
      <3>3. \A r \in Requests : r # cycle =>
               /\ disconnected'[r] = disconnected[r]
               /\ event'[r] = event[r] /\ receiving'[r] = receiving[r]
        BY <2>3 DEF SetEvent, TypeOK, CycleTypeOK, WakeTypeOK
      <3>4. Channel(cycle)'
        BY <2>0, <2>1, <3>1, <3>2 DEF Channel, inVars, TypeOK, WakeTypeOK
      <3>5. ASSUME NEW r \in Requests, r # cycle PROVE Channel(r)'
        BY <2>0, <2>1, <3>3, <3>5, ChannelStays DEF Channel, inVars
      <3> QED BY <2>0, <2>1, <3>4, <3>5, ReceiveIsChannels DEF ParserInBody, inVars
    <2> QED BY <1>2, <2>2, <2>3 DEF ConnectionLost
  <1> QED BY <1>1, <1>2 DEF TransportStep

\* and every step.
LEMMA ReceiveStep == TypeOK /\ Order /\ ReceiveInv /\ [Next]_vars => ReceiveInv'
  <1>1. ReceiveInv /\ UNCHANGED vars => ReceiveInv'
    BY DEF ReceiveInv, NoLostWakeup, BodyDelivery, vars, connVars, restVars, queueVars,
           inVars, wakeVars, outVars
  <1> QED BY <1>1, ParserReceives, AppReceives, TransportReceives DEF Next

\* In every state the receive channel is as ReceiveInv says (httptools_impl.py:313-347,
\* 548-585): only the request being parsed lacks body, and whatever is unread is told.
THEOREM Receiving == Spec => []ReceiveInv
  BY ReceiveInit, ReceiveStep, TypeCorrect, Inductive, PTL DEF Spec, Inv, Order

\* A receive() left waiting has nothing to report.
THEOREM NobodyMissesTheEvent == Spec => []NoLostWakeup
  BY Receiving, PTL DEF ReceiveInv

\* Every body unit is handed over once, and the end of the body once.
THEOREM BodiesDelivered == Spec => []BodyDelivery
  BY Receiving, PTL DEF ReceiveInv

-----------------------------------------------------------------------------
(* Who is at work, and who resumes a paused transport                       *)

\* TaskInv for one request.
Work(r) ==
    /\ disconnected[r] => transport = "lost"
    /\ sending[r] # "no" => pending[r] \in Offers(r)
    /\ task[r] = "canned" => ~started[r]
    /\ task[r] = "cannedBody" /\ ~disconnected[r] =>
           started[r] /\ ~complete[r] /\ framing[r] = 1 /\ expected[r] = 1
    /\ transport = "open" /\ r <= Active => complete[r] \/ task[r] \in Live

PauseInv == PauseHasOwner /\ (readPaused /\ transport = "open" => cycle > 0)

\* TaskInv speaks of each request's task by itself, and of the pause.
LEMMA TaskIsWork ==
    /\ TaskInv <=> PauseInv /\ \A r \in Requests : Work(r)
    /\ TaskInv' <=> PauseInv' /\ \A r \in Requests : Work(r)'
  BY DEF TaskInv, PauseInv, Work

\* It holds before the first byte.
LEMMA TaskInit == Init => TaskInv
  BY DEF Init, All, TaskInv, PauseHasOwner, Requests, Active, Live

\* A pause that begins or lasts in a step only has to name who reads on.
LEMMA PauseStep ==
    ASSUME TypeOK', Order', \A r \in Requests : Work(r)',
           readPaused' /\ transport' = "open" =>
               /\ cycle' > 0 /\ ~complete'[Active']
               /\ \A r \in Requests : receiving'[r] = "waiting" => gotEnd'[r]
    PROVE  PauseInv'
  <1>1. cycle' > 0 => Active' \in Requests
    BY ConstantsAssumption DEF Order, QueueInv, Active, TypeOK, QueueTypeOK, Requests
  <1>2. Active' \in Requests /\ transport' = "open" /\ ~complete'[Active']
          => task'[Active'] \in Live
    BY DEF Work, Requests
  <1> QED BY <1>1, <1>2 DEF PauseInv, PauseHasOwner

\* What a task may send depends on the task only.
LEMMA OffersStay ==
    ASSUME NEW r \in Requests, task'[r] = task[r] PROVE Offers(r)' = Offers(r)
  BY DEF Offers

\* A step that leaves the work of request r alone, or ends its connection.
LEMMA WorkStays ==
    ASSUME TypeOK, NEW r \in Requests, Work(r), Active' = Active,
           task'[r] = task[r], started'[r] = started[r], complete'[r] = complete[r],
           framing'[r] = framing[r], expected'[r] = expected[r],
           disconnected'[r] => disconnected[r] \/ transport' = "lost",
           disconnected[r] => disconnected'[r],
           transport = "lost" => transport' = "lost",
           transport' = "open" => transport = "open",
           sending'[r] # "no" => sending[r] # "no" /\ pending'[r] = pending[r]
    PROVE  Work(r)'
  <1>1. sending'[r] # "no" => pending'[r] \in Offers(r)'
    BY OffersStay DEF Work
  <1> QED BY <1>1 DEF Work

\* A receive() that waits has had its whole body, unless it is being parsed.
LEMMA WaitingHasBody ==
    ASSUME TypeOK, ReceiveInv, Order, NEW r \in Requests, receiving[r] = "waiting",
           parser # "body" \/ r # cycle
    PROVE  gotEnd[r]
  <1>1. Channel(r)
    BY ReceiveIsChannels
  <1>2. task[r] = "running" /\ ~complete[r]
    BY <1>1 DEF Channel
  <1>3. r <= cycle
    BY <1>2 DEF Order, TurnInv, Requests, TypeOK, QueueTypeOK
  <1> QED BY <1>1, <1>3 DEF Channel

\* The active request changes with the queue only.
LEMMA ActiveStays ==
    ASSUME UNCHANGED <<cycle, pipeline>> PROVE Active' = Active
  BY DEF Active

\* The parser's callbacks keep it: who gets the turn is given a task.
LEMMA ParserWorks ==
    ASSUME TypeOK, Order, ReceiveInv, TaskInv, TypeOK', Order', ParserStep
    PROVE  TaskInv'
  <1>0. PauseInv /\ \A r \in Requests : Work(r)
    BY TaskIsWork
  <1>1. ASSUME /\ UNCHANGED <<cycle, pipeline, task, started, complete, framing,
                              expected, disconnected, sending, pending>>
               /\ transport' \in {transport, Closed(transport)}
        PROVE  \A r \in Requests : Work(r)'
    <2>1. (transport' = "open" => transport = "open")
          /\ (transport = "lost" => transport' = "lost")
      BY <1>1 DEF Closed
    <2> QED BY <1>0, <1>1, <2>1, WorkStays, ActiveStays
  <1>2. CASE DataReceived \/ FeedDone \/ OnMessageBegin \/ ParseError \/ UpgradeToWebSocket
    <2>1. /\ UNCHANGED <<cycle, pipeline, task, started, complete, framing, expected,
                         disconnected, sending, pending>>
          /\ UNCHANGED <<readPaused, gotEnd, receiving>>
          /\ transport' \in {transport, Closed(transport)}
      BY <1>2 DEF DataReceived, FeedDone, OnMessageBegin, ParseError, UpgradeToWebSocket,
                  queueVars, inVars, wakeVars, outVars, sendVars
    <2>2. transport' = "open" => transport = "open"
      BY <2>1 DEF Closed
    <2>3. PauseInv'
      BY <1>0, <2>1, <2>2, ActiveStays DEF PauseInv, PauseHasOwner
    <2> QED BY <1>1, <2>1, <2>3, TaskIsWork
  <1>3. CASE OnMessageComplete
    <2>1. /\ UNCHANGED <<cycle, pipeline, task, started, complete, framing, expected,
                         disconnected, sending, pending>>
          /\ UNCHANGED <<readPaused, gotEnd, transport>>
      BY <1>3 DEF OnMessageComplete, queueVars, outVars, sendVars
    <2>2. \A r \in Requests : receiving'[r] = "waiting" => receiving[r] = "waiting"
      BY <1>3 DEF OnMessageComplete, EndOfBody, SetEvent, wakeVars, TypeOK, WakeTypeOK
    <2>3. PauseInv'
      BY <1>0, <2>1, <2>2, ActiveStays DEF PauseInv, PauseHasOwner
    <2> QED BY <1>1, <2>1, <2>3, TaskIsWork
  <1>4. CASE OnBody
    <2>1. /\ UNCHANGED <<cycle, pipeline, task, started, complete, framing, expected,
                         disconnected, sending, pending>>
          /\ UNCHANGED <<gotEnd, transport>>
          /\ ~complete[cycle] /\ SetEvent(cycle)
      BY <1>4 DEF OnBody, queueVars, outVars, sendVars
    <2>2. cycle > 0 /\ cycle \in Requests
      BY <1>4, ConstantsAssumption DEF OnBody, ReceiveInv, TypeOK, QueueTypeOK, Requests
    <2>3. ~complete[Active] /\ Active' = Active
      <3>1. CASE pipeline = <<>>
        BY <2>1, <3>1 DEF Active, TypeOK, QueueTypeOK
      <3>2. CASE pipeline # <<>>
        BY <1>4, <2>1, <3>2 DEF Order, QueueInv, TurnInv, OnBody, Active
      <3> QED BY <3>1, <3>2
    <2>4. ASSUME NEW r \in Requests, receiving'[r] = "waiting" PROVE gotEnd[r]
      <3>1. receiving[r] = "waiting" /\ r # cycle
        BY <2>1, <2>2, <2>4 DEF SetEvent, TypeOK, WakeTypeOK
      <3> QED BY <3>1, WaitingHasBody
    <2>5. PauseInv'
      BY <1>1, <2>1, <2>2, <2>3, <2>4, PauseStep
    <2> QED BY <1>1, <2>1, <2>5, TaskIsWork
  <1>5. ASSUME NEW over \in BOOLEAN, NEW ka \in BOOLEAN, OnHeadersComplete(over, ka)
        PROVE  TaskInv'
    <2> DEFINE n == cycle + 1
    <2>1. /\ parser = "head" /\ cycle' = n /\ cycle \in Nat /\ n \in Requests
          /\ Len(pipeline) \in Nat /\ Len(pipeline) <= cycle /\ n \in Nat
          /\ UNCHANGED <<transport, started, complete, framing, expected, disconnected,
                         sending, pending>>
          /\ UNCHANGED <<gotEnd, receiving>>
      BY <1>5, ConstantsAssumption
         DEF OnHeadersComplete, outVars, sendVars, wakeVars, TypeOK, QueueTypeOK,
             Requests, Order, QueueInv
    <2>2. task[n] = "none" /\ sending[n] = "no" /\ receiving[n] = "no" /\ ~started[n]
      <3>1. n > cycle /\ n > Active
        BY <2>1 DEF Active
      <3>2. task[n] = "none" /\ ~started[n]
        BY <2>1, <3>1 DEF Order, TurnInv
      <3>3. Channel(n)
        BY <2>1, ReceiveIsChannels
      <3> QED BY <2>1, <3>2, <3>3 DEF Channel, Order, TurnInv, Live
    <2>3. \A r \in Requests : r # n => task'[r] = task[r]
      BY <1>5 DEF OnHeadersComplete, TypeOK, CycleTypeOK
    <2>4. ASSUME NEW r \in Requests, receiving'[r] = "waiting" PROVE gotEnd'[r]
      BY <2>1, <2>4, WaitingHasBody
    <2>5. CASE Unoccupied
      <3>1. task'[n] \in {"canned", "running"} /\ UNCHANGED <<readPaused, pipeline>>
        BY <1>5, <2>1, <2>5 DEF OnHeadersComplete, TypeOK, CycleTypeOK
      <3>2. Active' = Active + 1 /\ Active \in Nat /\ Active <= cycle
        BY <2>1, <3>1 DEF Active
      <3>3. CASE cycle = 0
        <4>1. ASSUME NEW r \in Requests PROVE Work(r)'
          <5>1. CASE r = n
            BY <2>1, <2>2, <3>1, <5>1, <1>0 DEF Work, Live
          <5>2. CASE r # n
            <6>1. ~(r <= Active')
              BY <2>1, <3>2, <3>3, <5>2 DEF Requests
            <6> QED BY <1>0, <2>1, <2>3, <5>2, <6>1, OffersStay DEF Work
          <5> QED BY <5>1, <5>2
        <4>2. ~(readPaused' /\ transport' = "open")
          BY <1>0, <2>1, <3>1, <3>3 DEF PauseInv
        <4> QED BY <4>1, <4>2, PauseStep, TaskIsWork
      <3>4. CASE cycle # 0
        <4>1. complete[cycle] /\ cycle \in Requests
          BY <2>5, <3>4, ConstantsAssumption DEF Unoccupied, TypeOK, QueueTypeOK, Requests
        <4>2. cycle = Active
          BY <2>1, <3>2, <4>1 DEF Order, TurnInv
        <4>3. ASSUME NEW r \in Requests PROVE Work(r)'
          <5>1. CASE r = n
            BY <2>1, <2>2, <3>1, <5>1, <1>0 DEF Work, Live
          <5>2. CASE r # n
            <6>1. r <= Active' => r <= Active
              BY <2>1, <3>2, <4>2, <5>2 DEF Requests
            <6> QED BY <1>0, <2>1, <2>3, <5>2, <6>1, OffersStay DEF Work
          <5> QED BY <5>1, <5>2
        <4>4. ~(readPaused' /\ transport' = "open")
          BY <1>0, <2>1, <3>1, <4>1, <4>2 DEF PauseInv, PauseHasOwner
        <4> QED BY <4>3, <4>4, PauseStep, TaskIsWork
      <3> QED BY <3>3, <3>4
    <2>6. CASE ~Unoccupied
      <3>1. pipeline' = Append(pipeline, n) /\ task'[n] \in {"queued", "queued503"}
        BY <1>5, <2>1, <2>6 DEF OnHeadersComplete, Enqueued, TypeOK, CycleTypeOK
      <3>2. Active' = Active /\ Active <= cycle /\ Active \in Nat
        BY <2>1, <3>1 DEF Active, TypeOK, QueueTypeOK
      <3>3. ASSUME NEW r \in Requests PROVE Work(r)'
        <4>1. CASE r = n
          BY <2>1, <2>2, <3>1, <3>2, <4>1, <1>0 DEF Work
        <4>2. CASE r # n
          BY <1>0, <2>1, <2>3, <3>2, <4>2, OffersStay DEF Work
        <4> QED BY <4>1, <4>2
      <3>4. ~complete[Active]
        <4>1. CASE pipeline = <<>>
          BY <2>1, <2>6, <4>1 DEF Unoccupied, Active
        <4>2. CASE pipeline # <<>>
          BY <1>5, <4>2 DEF Order, QueueInv, TurnInv, OnHeadersComplete
        <4> QED BY <4>1, <4>2
      <3> QED BY <2>1, <2>4, <3>2, <3>3, <3>4, PauseStep, TaskIsWork
    <2> QED BY <2>5, <2>6
  <1> QED BY <1>2, <1>3, <1>4, <1>5 DEF ParserStep

\* What an own task, and the two canned ones, may send.
LEMMA OffersAre ==
    ASSUME NEW r \in Requests
    PROVE  /\ task[r] = "canned" => Offers(r) = {CannedStart} /\ After(r) = "cannedBody"
           /\ task[r] = "cannedBody" => Offers(r) = {CannedBody} /\ After(r) = "done"
           /\ task[r] \notin {"canned", "cannedBody"} => After(r) = task[r]
           /\ Offers(r) # {} => task[r] \in Live
  BY DEF Offers, After, Live

\* The canned body fits: sending it completes the response or finds it gone.
LEMMA CannedBodyFits ==
    ASSUME TypeOK, NEW q \in Requests, Work(q), task[q] = "cannedBody", ~disconnected[q],
           Transmit(q, CannedBody)
    PROVE  SendLast(q, CannedBody)
  <1>1. /\ CannedBody.kind = "body" /\ CannedBody.size = 1 /\ ~CannedBody.more
        /\ started[q] /\ ~complete[q] /\ framing[q] = 1 /\ expected[q] = 1
    BY DEF CannedBody, Work
  <1>2. Remaining(q, CannedBody) = 0
    BY <1>1 DEF Remaining, Chunked
  <1>3. Accepts(q, CannedBody) /\ ~Short(q, CannedBody)
    BY <1>1, <1>2 DEF Accepts, Short
  <1> QED BY <1>1, <1>3 DEF Transmit, SendStart, SendPart, SendWithoutEffect

\* send() keeps it: the next task starts before the turn is passed on.
LEMMA TransmitWorks ==
    ASSUME TypeOK, Order, TaskInv, TypeOK', Order', NEW q \in Requests,
           NEW m \in Offers(q), Transmit(q, m),
           sending'[q] = "no",
           \A r \in Requests : r # q => sending'[r] = sending[r] /\ pending'[r] = pending[r]
    PROVE  TaskInv'
  <1>0. PauseInv /\ \A r \in Requests : Work(r)
    BY TaskIsWork
  <1>m. m \in Messages /\ task[q] \in Live
    BY OffersAreMessages
  <1>1. Advanced(q)[q] = After(q) /\ \A r \in Requests : r # q => Advanced(q)[r] = task[r]
    BY DEF Advanced, TypeOK, CycleTypeOK
  <1>2. CASE ~SendLast(q, m)
    <2>1. SendStart(q, m) \/ SendPart(q, m) \/ SendWithoutEffect(q, m)
      BY <1>2 DEF Transmit
    <2>2. /\ UNCHANGED <<cycle, pipeline, transport, readPaused, complete, disconnected,
                         receiving, gotEnd>>
          /\ task' = Advanced(q) /\ Active' = Active
      BY <2>1 DEF SendStart, SendPart, SendWithoutEffect, connVars, queueVars, inVars,
                  wakeVars, outVars, Active
    <2>3. \A r \in Requests : r # q => /\ started'[r] = started[r]
                                       /\ framing'[r] = framing[r]
                                       /\ expected'[r] = expected[r]
      BY <2>1 DEF SendStart, SendPart, SendWithoutEffect, WriteBody, outVars, TypeOK,
                  OutTypeOK
    <2>4. ASSUME NEW r \in Requests, r # q PROVE Work(r)'
      BY <1>0, <1>1, <2>2, <2>3, <2>4, OffersStay DEF Work
    <2>5. task[q] = "cannedBody" => disconnected[q]
      BY <1>0, <1>2, CannedBodyFits, OffersAre
    <2>6. ASSUME task[q] = "canned", ~disconnected[q]
          PROVE  started'[q] /\ ~complete[q] /\ framing'[q] = 1 /\ expected'[q] = 1
      <3>1. m = CannedStart /\ ~started[q] /\ ~complete[q]
        BY <1>0, <2>6, OffersAre DEF Work, Order, TurnInv
      <3>2. SendStart(q, m) /\ m.valid /\ m.length = 1 /\ m.length # Chunked
        BY <2>1, <2>6, <3>1 DEF CannedStart, SendPart, Accepts, SendWithoutEffect, Chunked
      <3> QED BY <3>1, <3>2 DEF SendStart, TypeOK, OutTypeOK
    <2>7. Work(q)'
      BY <1>0, <1>1, <1>m, <2>2, <2>5, <2>6, OffersAre DEF Work, Live
    <2>8. task[q] \in Live => task'[q] \in Live \/ disconnected[q]
      BY <1>1, <2>2, <2>5, OffersAre DEF Live
    <2>9. PauseInv'
      BY <1>0, <2>2, <2>4, <2>7, PauseStep DEF PauseInv, PauseHasOwner
    <2> QED BY <2>4, <2>7, <2>9, TaskIsWork
  <1>3. CASE SendLast(q, m)
    <2>1. /\ UNCHANGED <<cycle, started, framing, disconnected, gotEnd>>
          /\ OnResponseComplete(q, transport') /\ transport' = AfterLast(q)
          /\ complete'[q] /\ ~disconnected[q]
          /\ \A r \in Requests : r # q => complete'[r] = complete[r]
                                          /\ expected'[r] = expected[r]
      BY <1>3 DEF SendLast, WriteBody, Accepts, inVars, TypeOK, OutTypeOK
    <2>2. /\ transport' = "open" => transport = "open"
          /\ transport = "lost" => transport' = "lost"
      BY <2>1 DEF AfterLast, Closed
    <2>3. readPaused' /\ transport' = "open" => FALSE
      BY <2>1 DEF OnResponseComplete, IsClosing, ResumeReading
    <2>4. \A r \in Requests : r # q => \/ task'[r] = task[r]
                                       \/ /\ sending[r] = "no" /\ ~started[r]
                                          /\ task'[r] \in {"canned", "running"}
      <3>1. CASE task' = Advanced(q)
        BY <1>1, <3>1
      <3>2. CASE /\ pipeline # <<>>
                 /\ task' = [Advanced(q) EXCEPT ![Head(pipeline)] = StartTask(@)]
        <4>1. /\ Head(pipeline) = pipeline[1] /\ 1 \in 1 .. Len(pipeline)
              /\ Len(pipeline) \in Nat
          BY <3>2 DEF TypeOK, QueueTypeOK
        <4>2. Head(pipeline) = Active + 1 /\ Active + 1 <= cycle
          BY <4>1 DEF Order, QueueInv, Active, TypeOK, QueueTypeOK
        <4>3. ASSUME NEW r \in Requests, r = Head(pipeline)
              PROVE  sending[r] = "no" /\ ~started[r]
          BY <4>2, <4>3 DEF Order, TurnInv, Live, Active, TypeOK, QueueTypeOK
        <4>4. \A r \in Requests : r # Head(pipeline) => task'[r] = Advanced(q)[r]
          BY <3>2, <1>1 DEF Advanced, TypeOK, CycleTypeOK
        <4>5. \A r \in Requests : r = Head(pipeline) => task'[r] \in {"canned", "running"}
          BY <3>2, <1>1 DEF Advanced, TypeOK, CycleTypeOK, StartTask
        <4> QED BY <1>1, <4>3, <4>4, <4>5
      <3> QED BY <2>1, <3>1, <3>2 DEF OnResponseComplete, HasNext
    <2>5. ASSUME NEW r \in Requests, r # q PROVE Work(r)'
      <3>1. sending'[r] # "no" => pending'[r] \in Offers(r)'
        <4>1. sending'[r] # "no" => task'[r] = task[r] /\ pending[r] \in Offers(r)
          BY <1>0, <2>4, <2>5 DEF Work
        <4> QED BY <2>5, <4>1, OffersStay
      <3>2. transport' = "open" /\ r <= Active' => complete'[r] \/ task'[r] \in Live
        <4>1. CASE transport' = "open" /\ r <= Active'
          <5>1. task'[r] # task[r] => task'[r] \in Live
            BY <2>4, <2>5 DEF Live
          <5>2. r <= Active \/ (r = Active + 1 /\ Active' = Active + 1)
            <6>1. CASE pipeline' = pipeline
              BY <2>1, <4>1, <6>1 DEF Active
            <6>2. CASE pipeline # <<>> /\ pipeline' = Tail(pipeline)
              <7>1. Len(pipeline') = Len(pipeline) - 1 /\ Len(pipeline) \in Nat
                BY <6>2 DEF TypeOK, QueueTypeOK
              <7>2. cycle \in Int /\ r \in Int /\ cycle' = cycle
                BY <2>1, ConstantsAssumption DEF TypeOK, QueueTypeOK, Requests
              <7>3. Active' = Active + 1 /\ Active \in Int
                BY <7>1, <7>2 DEF Active
              <7> QED BY <4>1, <7>2, <7>3
            <6> QED BY <2>1, <6>1, <6>2 DEF OnResponseComplete, HasNext
          <5>3. CASE r <= Active
            BY <1>0, <2>1, <2>2, <2>5, <4>1, <5>1, <5>3 DEF Work
          <5>4. CASE r = Active + 1 /\ Active' = Active + 1
            <6>1. pipeline # <<>> /\ task' = [Advanced(q) EXCEPT ![Head(pipeline)] = StartTask(@)]
              BY <2>1, <5>4 DEF OnResponseComplete, HasNext, Active, TypeOK, QueueTypeOK
            <6>2. Head(pipeline) = r
              BY <5>4, <6>1 DEF Order, QueueInv, TypeOK, QueueTypeOK
            <6>3. task'[r] \in Live
              BY <6>1, <6>2, <1>1 DEF Advanced, TypeOK, CycleTypeOK, StartTask, Live
            <6> QED BY <6>3
          <5> QED BY <5>2, <5>3, <5>4
        <4> QED BY <4>1
      <3>3. task'[r] = task[r] \/ (task'[r] \in {"canned", "running"} /\ ~started[r])
        BY <2>4, <2>5
      <3> QED BY <1>0, <2>1, <2>2, <2>5, <3>1, <3>2, <3>3 DEF Work
    <2>6. task'[q] = After(q)
      <3>1. CASE task' = Advanced(q)
        BY <1>1, <3>1
      <3>2. CASE /\ pipeline # <<>>
                 /\ task' = [Advanced(q) EXCEPT ![Head(pipeline)] = StartTask(@)]
        <4>1. /\ Head(pipeline) = pipeline[1] /\ 1 \in 1 .. Len(pipeline)
              /\ Len(pipeline) \in Nat
          BY <3>2 DEF TypeOK, QueueTypeOK
        <4>2. Head(pipeline) = Active + 1 /\ Active + 1 <= cycle
          BY <4>1 DEF Order, QueueInv, Active, TypeOK, QueueTypeOK
        <4>3. q # Head(pipeline)
          BY <1>m, <4>2 DEF Order, TurnInv, Live, Active, TypeOK, QueueTypeOK
        <4> QED BY <1>1, <3>2, <4>3 DEF Advanced, TypeOK, CycleTypeOK
      <3> QED BY <2>1, <3>1, <3>2 DEF OnResponseComplete, HasNext
    <2>7. Work(q)'
      <3>1. started[q] /\ task[q] # "canned"
        BY <1>0, <1>3 DEF SendLast, Accepts, Work
      <3>2. task'[q] \notin {"canned", "cannedBody"}
        BY <2>6, <3>1, OffersAre, <1>m DEF Live
      <3> QED BY <1>0, <2>1, <2>2, <3>2 DEF Work
    <2>8. PauseInv'
      BY <2>3, <2>5, <2>7, PauseStep
    <2> QED BY <2>5, <2>7, <2>8, TaskIsWork
  <1> QED BY <1>2, <1>3

\* An application that ends leaves a message that uvicorn sends itself, or a closed
\* transport, or its answer is complete.
LEMMA AppEndsWorks ==
    ASSUME TypeOK, Order, TaskInv, TypeOK', Order', NEW q \in Requests,
           AppReturns(q) \/ AppReturnsValue(q) \/ AppRaises(q)
    PROVE  TaskInv'
  <1>0. PauseInv /\ \A r \in Requests : Work(r)
    BY TaskIsWork
  <1>1. /\ UNCHANGED <<cycle, pipeline, readPaused, started, complete, framing, expected,
                       disconnected, gotEnd>>
        /\ transport' = "open" => transport = "open"
        /\ transport = "lost" => transport' = "lost"
        /\ EndCalls(q)
        /\ \A r \in Requests : r # q => task'[r] = task[r]
    BY DEF AppReturns, AppReturnsValue, AppRaises, AppEnds, Closed, queueVars, inVars,
           outVars, TypeOK, CycleTypeOK
  <1>2. /\ sending'[q] = "no" /\ receiving'[q] = "no"
        /\ \A r \in Requests : r # q => /\ sending'[r] = sending[r]
                                        /\ pending'[r] = pending[r]
                                        /\ receiving'[r] = receiving[r]
    BY <1>1 DEF EndCalls, TypeOK, SendTypeOK, WakeTypeOK
  <1>3. \/ task'[q] = "canned" /\ ~started[q]
        \/ /\ task'[q] = "done"
           /\ transport' = "open" => complete[q] \/ disconnected[q]
    BY DEF AppReturns, AppReturnsValue, AppRaises, AppEnds, Closed, TypeOK, CycleTypeOK
  <1>4. Active' = Active
    BY <1>1 DEF Active
  <1>5. ASSUME NEW r \in Requests, r # q PROVE Work(r)'
    BY <1>0, <1>1, <1>2, <1>4, <1>5, WorkStays
  <1>6. Work(q)'
    BY <1>0, <1>1, <1>2, <1>3, <1>4 DEF Work, Live
  <1>7. PauseInv'
    BY <1>0, <1>1, <1>2, <1>4, <1>5, <1>6, PauseStep DEF PauseInv, PauseHasOwner
  <1> QED BY <1>5, <1>6, <1>7, TaskIsWork

\* So every step of an application keeps it,
LEMMA AppWorks ==
    ASSUME TypeOK, Order, TaskInv, TypeOK', Order', NEW q \in Requests, AppStep(q)
    PROVE  TaskInv'
  <1>0. PauseInv /\ \A r \in Requests : Work(r)
    BY TaskIsWork
  <1>1. CASE ReceiveReturns(q) \/ ReceiveWaits(q) \/ ReceiveWakes(q)
    <2>1. /\ UNCHANGED <<cycle, pipeline, transport, task, started, complete, framing,
                         expected, disconnected, sending, pending>>
      BY <1>1 DEF ReceiveReturns, ReceiveWaits, ReceiveWakes, connVars, queueVars,
                  outVars, sendVars
    <2>2. Active' = Active
      BY <2>1 DEF Active
    <2>3. \A r \in Requests : Work(r)'
      BY <1>0, <2>1, <2>2, WorkStays
    <2>4. CASE UNCHANGED readPaused /\ ~ReceiveWaits(q)
      <3>1. \A r \in Requests : /\ receiving'[r] = "waiting" => receiving[r] = "waiting"
                                /\ gotEnd[r] => gotEnd'[r]
        BY <1>1, <2>4 DEF ReceiveReturns, ReceiveWakes, TakeBody, TypeOK, WakeTypeOK,
                          InTypeOK
      <3>2. PauseInv'
        BY <1>0, <2>1, <2>2, <2>4, <3>1 DEF PauseInv, PauseHasOwner
      <3> QED BY <2>3, <3>2, TaskIsWork
    <2>5. CASE ~readPaused'
      <3>1. PauseInv'
        BY <2>5 DEF PauseInv, PauseHasOwner
      <3> QED BY <2>3, <3>1, TaskIsWork
    <2>6. (UNCHANGED readPaused /\ ~ReceiveWaits(q)) \/ ~readPaused'
      BY <1>1 DEF ReceiveReturns, ReceiveWaits, ReceiveWakes, ResumeReading, connVars
    <2> QED BY <2>4, <2>5, <2>6
  <1>2. ASSUME NEW m \in Messages, Send(q, m) PROVE TaskInv'
    <2>1. /\ sending[q] = "no" /\ m \in Offers(q) /\ Transmit(q, m)
          /\ UNCHANGED <<sending, pending>>
      BY <1>2 DEF Send, sendVars
    <2> QED BY <2>1, TransmitWorks
  <1>3. ASSUME NEW m \in Messages, SendWaits(q, m) PROVE TaskInv'
    <2>1. /\ UNCHANGED <<cycle, pipeline, transport, readPaused, task, started, complete,
                         framing, expected, disconnected, receiving, gotEnd>>
          /\ m \in Offers(q)
      BY <1>3 DEF SendWaits, connVars, queueVars, inVars, wakeVars, outVars
    <2>2. /\ pending'[q] = m
          /\ \A r \in Requests : r # q => /\ sending'[r] = sending[r]
                                          /\ pending'[r] = pending[r]
      BY <1>3 DEF SendWaits, TypeOK, SendTypeOK
    <2>3. Active' = Active
      BY <2>1 DEF Active
    <2>4. ASSUME NEW r \in Requests, r # q PROVE Work(r)'
      BY <1>0, <2>1, <2>2, <2>3, <2>4, WorkStays
    <2>5. Work(q)'
      BY <1>0, <2>1, <2>2, <2>3, OffersStay DEF Work
    <2>6. PauseInv'
      BY <1>0, <2>1, <2>3 DEF PauseInv, PauseHasOwner
    <2> QED BY <2>4, <2>5, <2>6, TaskIsWork
  <1>4. CASE SendWakes(q)
    <2>1. pending[q] \in Offers(q) /\ Transmit(q, pending[q])
      BY <1>0, <1>4 DEF SendWakes, Work
    <2>2. /\ sending'[q] = "no"
          /\ \A r \in Requests : r # q => /\ sending'[r] = sending[r]
                                          /\ pending'[r] = pending[r]
      BY <1>4 DEF SendWakes, TypeOK, SendTypeOK
    <2> QED BY <2>1, <2>2, TransmitWorks
  <1>5. CASE AppReturns(q) \/ AppReturnsValue(q) \/ AppRaises(q)
    BY <1>5, AppEndsWorks
  <1> QED BY <1>1, <1>2, <1>3, <1>4, <1>5 DEF AppStep

\* every callback of the transport and of a timer,
LEMMA TransportWorks ==
    ASSUME TypeOK, Order, TaskInv, TypeOK', Order', TransportStep
    PROVE  TaskInv'
  <1>0. PauseInv /\ \A r \in Requests : Work(r)
    BY TaskIsWork
  <1>1. /\ UNCHANGED <<cycle, pipeline, readPaused, task, started, complete, framing,
                       expected, gotEnd, pending>>
        /\ transport' = "open" => transport = "open"
        /\ transport = "lost" => transport' = "lost"
    <2>1. CASE \/ KeepAliveTimeout \/ EofReceived \/ UpgradedConnectionLost
               \/ ResumeWriting \/ Shutdown
      BY <2>1 DEF KeepAliveTimeout, EofReceived, UpgradedConnectionLost, ResumeWriting,
                  Shutdown, Closed, queueVars, inVars, outVars, sendVars
    <2>2. ASSUME NEW failed \in BOOLEAN, ConnectionLost(failed)
          PROVE  /\ UNCHANGED <<cycle, pipeline, readPaused, task, started, complete,
                                framing, expected, gotEnd, pending>>
                 /\ transport' = "lost"
      BY <2>2 DEF ConnectionLost, inVars, outVars
    <2> QED BY <2>1, <2>2 DEF TransportStep
  <1>2. ASSUME NEW r \in Requests
        PROVE  /\ disconnected'[r] => disconnected[r] \/ transport' = "lost"
               /\ disconnected[r] => disconnected'[r]
               /\ sending'[r] # "no" => sending[r] # "no"
               /\ receiving'[r] = "waiting" => receiving[r] = "waiting"
    <2>1. CASE \/ KeepAliveTimeout \/ EofReceived \/ UpgradedConnectionLost \/ Shutdown
      BY <2>1 DEF KeepAliveTimeout, EofReceived, UpgradedConnectionLost, Shutdown,
                  wakeVars, sendVars
    <2>2. CASE ResumeWriting
      BY <2>2 DEF ResumeWriting, ResumeWritingEffect, wakeVars, TypeOK, SendTypeOK
    <2>3. ASSUME NEW failed \in BOOLEAN, ConnectionLost(failed)
          PROVE  /\ transport' = "lost"
                 /\ disconnected[r] => disconnected'[r]
                 /\ sending'[r] # "no" => sending[r] # "no"
                 /\ receiving'[r] = "waiting" => receiving[r] = "waiting"
      BY <2>3 DEF ConnectionLost, ResumeWritingEffect, SetEvent, wakeVars, TypeOK,
                  SendTypeOK, WakeTypeOK, CycleTypeOK
    <2> QED BY <2>1, <2>2, <2>3 DEF TransportStep
  <1>3. Active' = Active
    BY <1>1 DEF Active
  <1>4. \A r \in Requests : Work(r)'
    BY <1>0, <1>1, <1>2, <1>3, WorkStays
  <1>5. PauseInv'
    BY <1>0, <1>1, <1>2, <1>3, <1>4, PauseStep DEF PauseInv, PauseHasOwner
  <1> QED BY <1>4, <1>5, TaskIsWork

\* and every step.
LEMMA TaskStep ==
    TypeOK /\ Order /\ ReceiveInv /\ TaskInv /\ [Next]_vars => TaskInv'
  <1>1. TaskInv /\ UNCHANGED vars => TaskInv'
    <2> SUFFICES ASSUME TaskInv, UNCHANGED vars PROVE TaskInv'
      OBVIOUS
    <2>1. \A r \in Requests : Offers(r)' = Offers(r)
      BY OffersStay DEF vars
    <2> QED BY <2>1 DEF TaskInv, PauseHasOwner, Active, vars, connVars, restVars,
                        queueVars, inVars, wakeVars, outVars, sendVars
  <1> QED BY <1>1, StepTypeOK, StepOrder, ParserWorks, AppWorks, TransportWorks DEF Next

\* In every state whoever has the turn on an open connection is still at work, and the
\* messages that uvicorn sends itself fit (httptools_impl.py:327-347, 420-475).
THEOREM Working == Spec => []TaskInv
  BY TaskInit, TaskStep, TypeCorrect, Inductive, Receiving, PTL DEF Spec, Inv, Order

\* A paused open transport has an unanswered request whose task is at work, and
\* no application waits on it for the rest of a body.
THEOREM PausesAreOwned == Spec => []PauseHasOwner
  BY Working, PTL DEF TaskInv

\* Everything that receive() and send() rely on, as one inductive invariant.
THEOREM Channels == Spec => []ChannelInv
  BY FrameInit, FrameStep, TypeCorrect, Inductive, Receiving, Working, Draining, PTL
     DEF Spec, Inv, Order, ChannelInv
=============================================================================
