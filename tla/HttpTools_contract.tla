--------------------------- MODULE HttpTools_contract ---------------------------
(***************************************************************************)
(* Theorems about what HttpTools promises to the server that lists it:      *)
(* every response is counted once, shutdown() always closes in the end, and *)
(* every step is one that HttpConnection allows.                            *)
(***************************************************************************)
EXTENDS HttpTools_channels, FiniteSetTheorems

\* The requests with a complete response, and those whose response closes.
Done == {r \in Requests : complete[r]}
Marked == {r \in 1 .. cycle : ~keepAlive[r]}

\* The answered requests can be counted.
LEMMA DoneIsFinite == IsFiniteSet(Requests) /\ IsFiniteSet(Done)
  <1>1. IsFiniteSet(Requests)
    BY FS_Interval, ConstantsAssumption DEF Requests
  <1>2. Done \subseteq Requests
    BY DEF Done
  <1> QED BY <1>1, <1>2, FS_Subset

\* The answered requests are the first ones, up to the active one.
LEMMA Answered ==
    ASSUME TypeOK, Order
    PROVE  /\ Cardinality(Done) \in Nat /\ Cardinality(Done) <= cycle
           /\ \A r \in Requests : complete[r] <=> r <= Cardinality(Done)
           /\ Cardinality(Done) \in {Active, Active - 1}
           /\ Cardinality(Done) = cycle <=> Unoccupied
  <1>1. /\ cycle \in Nat /\ Active \in Nat /\ Active <= cycle
        /\ Len(pipeline) \in Nat /\ Active = cycle - Len(pipeline)
        /\ cycle > 0 => Active \in Requests
    BY ConstantsAssumption DEF TypeOK, QueueTypeOK, Order, QueueInv, Active, Requests
  <1>2. PICK k \in Nat : /\ Done = 1 .. k /\ k <= cycle /\ k \in {Active, Active - 1}
                         /\ k = Active => Active = 0 \/ complete[Active]
    <2>a. \A r \in Requests :
             /\ r \in Nat \ {0}
             /\ complete[r] => r <= Active
             /\ r < Active => complete[r]
      BY <1>1 DEF Order, TurnInv, Requests
    <2>b. \A r \in Nat \ {0} : r <= Active => r \in Requests
      BY <1>1, ConstantsAssumption DEF Requests, TypeOK, QueueTypeOK
    <2>1. CASE cycle = 0
      <3>1. Done = 1 .. 0
        BY <1>1, <2>1 DEF Done, Order, TurnInv, Requests
      <3> QED BY <1>1, <2>1, <3>1
    <2>2. CASE cycle > 0 /\ complete[Active]
      <3>1. Done = 1 .. Active
        <4>1. ASSUME NEW r \in Requests PROVE complete[r] <=> r <= Active
          <5>1. r \in Nat /\ Active \in Nat /\ (complete[r] => r <= Active)
                /\ (r < Active => complete[r])
            BY <1>1, <2>a
          <5>2. CASE r = Active
            BY <2>2, <5>1, <5>2
          <5>3. CASE r # Active
            BY <5>1, <5>3
          <5> QED BY <5>2, <5>3
        <4>2. ASSUME NEW r PROVE r \in Done <=> r \in 1 .. (Active)
          BY <1>1, <2>a, <2>b, <4>1 DEF Done
        <4> QED BY <4>2
      <3> QED BY <1>1, <2>2, <3>1
    <2>3. CASE cycle > 0 /\ ~complete[Active]
      <3>1. Done = 1 .. (Active - 1)
        <4>1. ASSUME NEW r \in Requests PROVE complete[r] <=> r <= Active - 1
          <5>1. r \in Nat /\ Active \in Nat /\ (complete[r] => r <= Active)
                /\ (r < Active => complete[r])
            BY <1>1, <2>a
          <5>2. CASE r = Active
            BY <2>3, <5>1, <5>2
          <5>3. CASE r # Active
            BY <5>1, <5>3
          <5> QED BY <5>2, <5>3
        <4>2. ASSUME NEW r PROVE r \in Done <=> r \in 1 .. (Active - 1)
          BY <1>1, <2>a, <2>b, <4>1 DEF Done
        <4> QED BY <4>2
      <3>2. Active - 1 \in Nat /\ Active - 1 <= cycle /\ Active - 1 # Active
        BY <1>1, <2>3 DEF Requests
      <3> QED BY <3>1, <3>2
    <2> QED BY <1>1, <2>1, <2>2, <2>3
  <1>3. Cardinality(Done) = k
    <2>1. Cardinality(1 .. k) = k
      BY FS_Interval
    <2> QED BY <1>2, <2>1
  <1>4. \A r \in Requests : complete[r] <=> r <= k
    BY <1>2 DEF Done, Requests
  <1>5. k = cycle <=> Unoccupied
    <2>1. CASE cycle = 0
      BY <1>1, <1>2, <2>1 DEF Unoccupied
    <2>2. CASE cycle # 0
      <3>1. cycle \in Requests
        BY <1>1, <2>2, ConstantsAssumption DEF TypeOK, QueueTypeOK, Requests
      <3> QED BY <1>1, <1>2, <1>4, <2>2, <3>1 DEF Unoccupied
    <2> QED BY <2>1, <2>2
  <1> QED BY <1>2, <1>3, <1>4, <1>5

\* Only the last message of a body completes a response.
LEMMA OnlyLastCompletes ==
    ASSUME TypeOK, [Next]_vars
    PROVE  \/ UNCHANGED <<complete, totalRequests>>
           \/ \E q \in Requests, m \in Messages : SendLast(q, m)
  <1>1. CASE ParserStep
    BY <1>1 DEF ParserStep, DataReceived, FeedDone, OnMessageBegin, OnHeadersComplete,
                OnBody, OnMessageComplete, ParseError, UpgradeToWebSocket, outVars,
                queueVars
  <1>2. ASSUME NEW q \in Requests, NEW m \in Messages, Transmit(q, m), ~SendLast(q, m)
        PROVE  UNCHANGED <<complete, totalRequests>>
    BY <1>2 DEF Transmit, SendStart, SendPart, SendWithoutEffect, outVars, queueVars
  <1>3. ASSUME NEW q \in Requests, AppStep(q)
        PROVE  \/ UNCHANGED <<complete, totalRequests>>
               \/ \E m \in Messages : Transmit(q, m)
    <2>1. CASE ReceiveReturns(q) \/ ReceiveWaits(q) \/ ReceiveWakes(q)
      BY <2>1 DEF ReceiveReturns, ReceiveWaits, ReceiveWakes, outVars, queueVars
    <2>2. CASE AppReturns(q) \/ AppReturnsValue(q) \/ AppRaises(q)
      BY <2>2 DEF AppReturns, AppReturnsValue, AppRaises, AppEnds, outVars, queueVars
    <2>3. CASE \E m \in Messages : Send(q, m) \/ SendWaits(q, m)
      BY <2>3 DEF Send, SendWaits, outVars, queueVars
    <2>4. CASE SendWakes(q)
      BY <2>4 DEF SendWakes, TypeOK, SendTypeOK
    <2> QED BY <1>3, <2>1, <2>2, <2>3, <2>4 DEF AppStep
  <1>4. CASE TransportStep
    BY <1>4 DEF TransportStep, KeepAliveTimeout, EofReceived, ConnectionLost,
                UpgradedConnectionLost, ResumeWriting, Shutdown, outVars, queueVars
  <1>5. CASE UNCHANGED vars
    BY <1>5 DEF vars, outVars, queueVars
  <1> QED BY <1>1, <1>2, <1>3, <1>4, <1>5 DEF Next

\* The last message of a response makes one more.
LEMMA LastAddsOne ==
    ASSUME TypeOK, NEW q \in Requests, NEW m \in Messages, SendLast(q, m)
    PROVE  /\ Done' = Done \cup {q} /\ q \notin Done
           /\ Cardinality(Done') = Cardinality(Done) + 1
  <1>1. ~complete[q] /\ complete' = [complete EXCEPT ![q] = TRUE]
    BY DEF SendLast, Accepts
  <1>2. Done' = Done \cup {q} /\ q \notin Done
    BY <1>1 DEF Done, TypeOK, OutTypeOK
  <1> QED BY <1>2, DoneIsFinite, FS_AddElement

\* Every step counts the responses that it completes, one by one.
LEMMA CountStep == TypeOK /\ CountedOnce /\ [Next]_vars => CountedOnce'
  <1>1. /\ CountedOnce <=> totalRequests = Cardinality(Done)
        /\ CountedOnce' <=> totalRequests' = Cardinality(Done')
    BY DEF CountedOnce, Done
  <1> SUFFICES ASSUME TypeOK, CountedOnce, [Next]_vars PROVE CountedOnce'
    OBVIOUS
  <1>2. CASE UNCHANGED <<complete, totalRequests>>
    BY <1>2 DEF CountedOnce
  <1>3. ASSUME NEW q \in Requests, NEW m \in Messages, SendLast(q, m) PROVE CountedOnce'
    BY <1>1, <1>3, LastAddsOne DEF SendLast, OnResponseComplete, CountRequest
  <1> QED BY <1>2, <1>3, OnlyLastCompletes

\* limit_max_requests counts every complete response once.
THEOREM Counting == Spec => []CountedOnce
  <1>1. ASSUME Init PROVE CountedOnce
    <2>1. {r \in Requests : complete[r]} = {} /\ totalRequests = 0
      BY <1>1 DEF Init, All
    <2> QED BY <2>1, FS_EmptySet DEF CountedOnce
  <1> QED BY <1>1, CountStep, TypeCorrect, PTL DEF Spec

-----------------------------------------------------------------------------
(* shutdown()                                                               *)

\* A step that neither answers nor forgets a marked request.
LEMMA DrainStays ==
    ASSUME TypeOK, DrainWillClose, UNCHANGED <<complete, cycle>>, draining' = draining,
           transport' = "open" => transport = "open",
           \A r \in Requests : ~keepAlive[r] => ~keepAlive'[r]
    PROVE  DrainWillClose'
  <1>1. 1 .. cycle \subseteq Requests
    BY ConstantsAssumption DEF TypeOK, QueueTypeOK, Requests
  <1> QED BY <1>1 DEF DrainWillClose

\* send() keeps a marked response marked, and closes behind it.
LEMMA TransmitDrains ==
    ASSUME TypeOK, DrainWillClose, NEW q \in Requests, NEW m \in Messages, Transmit(q, m)
    PROVE  DrainWillClose'
  <1>1. CASE SendStart(q, m) \/ SendPart(q, m) \/ SendWithoutEffect(q, m)
    <2>1. UNCHANGED <<complete, cycle, draining, transport>>
      BY <1>1 DEF SendStart, SendPart, SendWithoutEffect, queueVars, connVars, restVars,
                  outVars
    <2>2. \A r \in Requests : ~keepAlive[r] => ~keepAlive'[r]
      BY <1>1 DEF SendStart, SendPart, SendWithoutEffect, TypeOK, CycleTypeOK
    <2> QED BY <2>1, <2>2, DrainStays
  <1>2. CASE SendLast(q, m)
    <2>1. /\ UNCHANGED <<cycle, keepAlive, draining>>
          /\ complete' = [complete EXCEPT ![q] = TRUE]
          /\ transport' = IF keepAlive[q] THEN transport ELSE Closed(transport)
      BY <1>2 DEF SendLast, restVars, AfterLast
    <2> SUFFICES ASSUME draining', transport' = "open"
                 PROVE  \E r \in 1 .. cycle : ~complete'[r] /\ ~keepAlive[r]
      BY <2>1 DEF DrainWillClose
    <2>2. transport = "open" /\ keepAlive[q]
      BY <2>1 DEF Closed
    <2>3. PICK r \in 1 .. cycle : ~complete[r] /\ ~keepAlive[r]
      BY <2>1, <2>2 DEF DrainWillClose
    <2>4. r \in Requests /\ r # q
      BY <2>2, <2>3, ConstantsAssumption DEF TypeOK, QueueTypeOK, Requests
    <2>5. complete'[r] = complete[r]
      BY <2>1, <2>4 DEF TypeOK, OutTypeOK
    <2> QED BY <2>3, <2>5
  <1> QED BY <1>1, <1>2 DEF Transmit

\* Every step keeps a connection that was told to stop on its way to the close.
LEMMA DrainWillCloseStep == TypeOK /\ Order /\ DrainWillClose /\ [Next]_vars => DrainWillClose'
  <1> SUFFICES ASSUME TypeOK, Order, DrainWillClose, [Next]_vars PROVE DrainWillClose'
    OBVIOUS
  <1>1. CASE \/ DataReceived \/ FeedDone \/ OnMessageBegin \/ OnBody \/ OnMessageComplete
             \/ ParseError \/ UpgradeToWebSocket
    <2>1. UNCHANGED <<complete, cycle, draining, keepAlive>>
      BY <1>1 DEF DataReceived, FeedDone, OnMessageBegin, OnBody, OnMessageComplete,
                  ParseError, UpgradeToWebSocket, queueVars, restVars, outVars
    <2>2. transport' = "open" => transport = "open"
      BY <1>1 DEF DataReceived, FeedDone, OnMessageBegin, OnBody, OnMessageComplete,
                  ParseError, UpgradeToWebSocket, Closed
    <2> QED BY <2>1, <2>2, DrainStays
  <1>2. ASSUME NEW over \in BOOLEAN, NEW ka \in BOOLEAN, OnHeadersComplete(over, ka)
        PROVE  DrainWillClose'
    <2>1. /\ UNCHANGED <<complete, draining, transport>> /\ cycle' = cycle + 1
          /\ cycle \in Nat /\ cycle + 1 \in Requests
          /\ keepAlive' = [keepAlive EXCEPT ![cycle + 1] = ka]
      BY <1>2, ConstantsAssumption
         DEF OnHeadersComplete, outVars, TypeOK, QueueTypeOK, Requests
    <2>2. \A r \in 1 .. cycle : r \in 1 .. cycle' /\ keepAlive'[r] = keepAlive[r]
      BY <2>1 DEF TypeOK, CycleTypeOK, Requests
    <2> QED BY <2>1, <2>2 DEF DrainWillClose
  <1>3. ASSUME NEW q \in Requests, AppStep(q) PROVE DrainWillClose'
    <2>1. CASE \/ ReceiveReturns(q) \/ ReceiveWaits(q) \/ ReceiveWakes(q)
               \/ \E m \in Messages : SendWaits(q, m)
      <3>1. UNCHANGED <<complete, cycle, draining, keepAlive, transport>>
        BY <2>1 DEF ReceiveReturns, ReceiveWaits, ReceiveWakes, SendWaits, connVars,
                    queueVars, restVars, outVars
      <3> QED BY <3>1, DrainStays
    <2>2. CASE AppReturns(q) \/ AppReturnsValue(q) \/ AppRaises(q)
      <3>1. UNCHANGED <<complete, cycle, draining, keepAlive>>
        BY <2>2 DEF AppReturns, AppReturnsValue, AppRaises, AppEnds, queueVars,
                    restVars, outVars
      <3>2. transport' = "open" => transport = "open"
        BY <2>2 DEF AppReturns, AppReturnsValue, AppRaises, AppEnds, Closed
      <3> QED BY <3>1, <3>2, DrainStays
    <2>3. ASSUME NEW m \in Messages, Send(q, m) PROVE DrainWillClose'
      BY <2>3, TransmitDrains DEF Send
    <2>4. CASE SendWakes(q)
      BY <2>4, TransmitDrains DEF SendWakes, TypeOK, SendTypeOK
    <2> QED BY <1>3, <2>1, <2>2, <2>3, <2>4 DEF AppStep
  <1>4. CASE \/ KeepAliveTimeout \/ EofReceived \/ UpgradedConnectionLost \/ ResumeWriting
             \/ \E failed \in BOOLEAN : ConnectionLost(failed)
    <2>1. UNCHANGED <<complete, cycle, draining, keepAlive>>
      BY <1>4 DEF KeepAliveTimeout, EofReceived, UpgradedConnectionLost, ResumeWriting,
                  ConnectionLost, queueVars, restVars, outVars
    <2>2. transport' = "open" => transport = "open"
      BY <1>4 DEF KeepAliveTimeout, EofReceived, UpgradedConnectionLost, ResumeWriting,
                  ConnectionLost, Closed
    <2> QED BY <2>1, <2>2, DrainStays
  <1>5. CASE Shutdown
    <2>1. UNCHANGED <<complete, cycle>>
      BY <1>5 DEF Shutdown, queueVars, outVars
    <2>2. CASE Unoccupied
      <3>1. transport' # "open"
        BY <1>5, <2>2 DEF Shutdown, Closed
      <3> QED BY <3>1 DEF DrainWillClose
    <2>3. CASE ~Unoccupied
      <3>1. cycle \in 1 .. cycle /\ cycle \in Requests
        BY <2>3, ConstantsAssumption DEF Unoccupied, TypeOK, QueueTypeOK, Requests
      <3>2. ~complete[cycle] /\ ~keepAlive'[cycle]
        BY <1>5, <2>3, <3>1 DEF Shutdown, Unoccupied, TypeOK, CycleTypeOK
      <3> QED BY <2>1, <3>1, <3>2 DEF DrainWillClose
    <2> QED BY <2>2, <2>3
  <1>6. CASE UNCHANGED vars
    BY <1>6 DEF vars, connVars, restVars, queueVars, outVars, DrainWillClose
  <1> QED BY <1>1, <1>2, <1>3, <1>4, <1>5, <1>6 DEF Next, ParserStep, TransportStep

\* A connection told to shut down and still open has an unanswered request
\* whose response will close it.
THEOREM DrainingCloses == Spec => []DrainWillClose
  <1>1. Init => DrainWillClose
    BY DEF Init, DrainWillClose
  <1> QED BY <1>1, DrainWillCloseStep, TypeCorrect, Inductive, PTL DEF Spec, Inv, Order

-----------------------------------------------------------------------------
(* The refinement of HttpConnection                                         *)

\* The refinement mapping of ImplementsConnection, with its sets named.
HVars == <<transport, cycle, Cardinality(Done), Marked, Tasks>>

\* The variables of the contract, seen from here.
LEMMA Mapped == (Connection!hvars = HVars) /\ (Connection!hvars' = HVars')
  BY DEF Connection!hvars, HVars, Done, Marked

\* The initial states map to initial states of the contract.
LEMMA ConnectionInit == Init => Connection!HInit
  <1> SUFFICES ASSUME Init PROVE Connection!HInit
    OBVIOUS
  <1>1. {r \in Requests : complete[r]} = {} /\ {r \in 1 .. cycle : ~keepAlive[r]} = {}
    BY DEF Init, All
  <1>2. Tasks = {}
    BY DEF Init, All, Tasks, Live
  <1> QED BY <1>1, <1>2, FS_EmptySet DEF Init, Connection!HInit

\* No connection of HttpToolsProtocol is adrift, so one that is shut is closed.
LEMMA NeverAdrift ==
    ASSUME TypeOK
    PROVE  transport # "adrift" /\ Connection!Shut(transport) = Closed(transport)
  BY DEF TypeOK, ConnTypeOK, Connection!Shut, Closed

\* Steps that HttpConnection does not see.
LEMMA Unseen ==
    ASSUME TypeOK, UNCHANGED <<transport, cycle, complete, keepAlive>>,
           \A r \in Requests : task[r] \in Live <=> task'[r] \in Live
    PROVE  UNCHANGED Connection!hvars
  <1>1. Done' = Done /\ Marked' = Marked /\ Tasks' = Tasks
    BY DEF Done, Marked, Tasks
  <1> QED BY <1>1, Mapped DEF HVars

\* Steps that only close or lose the transport.
LEMMA Closes ==
    ASSUME TypeOK, UNCHANGED <<cycle, complete, keepAlive, task>>,
           transport' \in {transport, Closed(transport), "lost"}
    PROVE  Connection!HNext \/ UNCHANGED Connection!hvars
  <1>1. Done' = Done /\ Marked' = Marked /\ Tasks' = Tasks
    BY DEF Done, Marked, Tasks
  <1>2. CASE transport' = transport
    BY <1>1, <1>2, Mapped DEF HVars
  <1>3. CASE transport' = Closed(transport)
    <2>1. Connection!Close
      BY <1>1, <1>3, NeverAdrift DEF Connection!Close, Done, Marked
    <2> QED BY <2>1 DEF Connection!HNext
  <1>4. CASE transport' = "lost"
    <2>1. Connection!Lose
      BY <1>1, <1>4 DEF Connection!Lose, Done, Marked
    <2> QED BY <2>1 DEF Connection!HNext
  <1> QED BY <1>2, <1>3, <1>4

\* The head of a request is its acceptance,
LEMMA HeadIsAccept ==
    ASSUME TypeOK, Order, NEW over \in BOOLEAN, NEW ka \in BOOLEAN,
           OnHeadersComplete(over, ka)
    PROVE  Connection!Accept
  <1> DEFINE n == cycle + 1
  <1>1. /\ transport = "open" /\ transport' = transport /\ cycle' = n /\ cycle < NumRequests
        /\ cycle \in Nat /\ n \in Requests /\ complete' = complete
        /\ keepAlive' = [keepAlive EXCEPT ![n] = ka]
    BY ConstantsAssumption
       DEF OnHeadersComplete, Order, QueueInv, TypeOK, QueueTypeOK, Requests, outVars
  <1>2. Done' = Done
    BY <1>1 DEF Done
  <1>3. Marked' = IF ka THEN Marked ELSE Marked \cup {n}
    <2>1. keepAlive'[n] = ka /\ \A r \in Requests : r # n => keepAlive'[r] = keepAlive[r]
      BY <1>1 DEF TypeOK, CycleTypeOK
    <2>2. 1 .. n = (1 .. cycle) \cup {n} /\ n \notin 1 .. cycle /\ 1 .. cycle \subseteq Requests
      BY <1>1, ConstantsAssumption DEF Requests
    <2> QED BY <1>1, <2>1, <2>2 DEF Marked
  <1>4. task[n] = "none"
    BY <1>1 DEF Order, TurnInv
  <1>5. Tasks' = IF Unoccupied THEN Tasks \cup {n} ELSE Tasks
    <2>1. \A r \in Requests : r # n => task'[r] = task[r]
      BY DEF OnHeadersComplete, TypeOK, CycleTypeOK
    <2>2. task'[n] \in Live <=> Unoccupied
      BY <1>1 DEF OnHeadersComplete, TypeOK, CycleTypeOK, Live
    <2> QED BY <1>1, <1>4, <2>1, <2>2 DEF Tasks, Live
  <1> QED BY <1>1, <1>2, <1>3, <1>5, Answered DEF Connection!Accept, Done, Marked

\* shutdown() is the drain,
LEMMA ShutdownIsDrain ==
    ASSUME TypeOK, Order, Shutdown
    PROVE  Connection!Drain
  <1>1. UNCHANGED <<cycle, complete, task>>
    BY DEF Shutdown, queueVars, outVars
  <1>2. Done' = Done /\ Tasks' = Tasks
    BY <1>1 DEF Done, Tasks
  <1>3. CASE Unoccupied
    <2>1. Marked' = Marked /\ transport' = Closed(transport)
      BY <1>1, <1>3 DEF Shutdown, Marked
    <2> QED BY <1>1, <1>2, <1>3, <2>1, Answered, NeverAdrift
            DEF Connection!Drain, Done, Marked
  <1>4. CASE ~Unoccupied
    <2>1. cycle \in Requests /\ cycle \in 1 .. cycle /\ 1 .. cycle \subseteq Requests
      BY <1>4, ConstantsAssumption DEF Unoccupied, TypeOK, QueueTypeOK, Requests
    <2>2. ~keepAlive'[cycle] /\ \A r \in Requests : r # cycle => keepAlive'[r] = keepAlive[r]
      BY <1>4, <2>1 DEF Shutdown, TypeOK, CycleTypeOK
    <2>3. Marked' = Marked \cup {cycle} /\ transport' = transport
      BY <1>1, <1>4, <2>1, <2>2 DEF Marked, Shutdown
    <2> QED BY <1>1, <1>2, <1>4, <2>3, Answered, NeverAdrift DEF Connection!Drain, Done, Marked
  <1> QED BY <1>3, <1>4

\* The task of an unanswered request is the one of the active request.
LEMMA UnansweredIsNext ==
    ASSUME TypeOK, Order, NEW q \in Requests, task[q] \in Live, ~complete[q]
    PROVE  q = Cardinality(Done) + 1 /\ q = Active /\ q \in 1 .. cycle
  <1>1. Cardinality(Done) \in Nat /\ Active \in Int /\ q \in Nat \ {0} /\ cycle \in Nat
    BY Answered DEF Active, TypeOK, QueueTypeOK, Requests
  <1>2. q = Active
    BY <1>1 DEF Order, TurnInv, Live
  <1>3. q <= cycle
    BY <1>1 DEF Order, TurnInv, Live
  <1>4. ~(q <= Cardinality(Done))
    BY Answered
  <1> QED BY <1>1, <1>2, <1>3, <1>4, Answered

\* a response that says "connection: close" marks its request,
LEMMA StartIsMark ==
    ASSUME TypeOK, Order, NEW q \in Requests, NEW m \in Messages, task[q] \in Live,
           task[q] # "cannedBody", SendStart(q, m)
    PROVE  Connection!HNext \/ UNCHANGED Connection!hvars
  <1>1. /\ UNCHANGED <<transport, cycle, complete>>
        /\ task' = Advanced(q) /\ ~started[q]
        /\ keepAlive' = [keepAlive EXCEPT ![q] = @ /\ ~m.close]
    BY DEF SendStart, queueVars
  <1>2. q = Cardinality(Done) + 1 /\ q \in 1 .. cycle
    BY <1>1, UnansweredIsNext DEF Order, TurnInv
  <1>3. \A r \in Requests : task[r] \in Live <=> task'[r] \in Live
    BY <1>1 DEF Advanced, After, Live, TypeOK, CycleTypeOK
  <1>4. Tasks' = Tasks /\ Done' = Done
    BY <1>1, <1>3 DEF Tasks, Done
  <1>5. CASE keepAlive' = keepAlive
    BY <1>1, <1>3, <1>5, Unseen
  <1>6. CASE keepAlive' # keepAlive
    <2>1. /\ ~keepAlive'[q] /\ \A r \in Requests : r # q => keepAlive'[r] = keepAlive[r]
      BY <1>1, <1>6 DEF TypeOK, CycleTypeOK
    <2>2. 1 .. cycle \subseteq Requests
      BY ConstantsAssumption DEF TypeOK, QueueTypeOK, Requests
    <2>3. Marked' = Marked \cup {q}
      BY <1>1, <1>2, <2>1, <2>2 DEF Marked
    <2>4. q \in Tasks
      BY DEF Tasks
    <2>5. Connection!Mark
      BY <1>1, <1>2, <1>4, <2>3, <2>4 DEF Connection!Mark, Done, Marked
    <2> QED BY <2>5 DEF Connection!HNext
  <1> QED BY <1>5, <1>6

\* the last message of a response is the answer,
LEMMA LastIsAnswer ==
    ASSUME TypeOK, Order, NEW q \in Requests, NEW m \in Messages, task[q] \in Live,
           SendLast(q, m)
    PROVE  Connection!Answer
  <1>1. /\ UNCHANGED <<cycle, keepAlive>> /\ started[q] /\ ~complete[q]
        /\ transport' = IF keepAlive[q] THEN transport ELSE Closed(transport)
        /\ OnResponseComplete(q, transport')
    BY DEF SendLast, Accepts, AfterLast
  <1>2. q = Cardinality(Done) + 1 /\ q = Active /\ q \in 1 .. cycle
    BY <1>1, UnansweredIsNext
  <1>3. Cardinality(Done') = q
    BY <1>2, LastAddsOne
  <1>4. Marked' = Marked /\ (q \in Marked <=> ~keepAlive[q])
    BY <1>1, <1>2 DEF Marked
  <1>5. /\ Advanced(q)[q] = After(q) /\ After(q) \in Live \cup {"done"}
        /\ \A r \in Requests : r # q => Advanced(q)[r] = task[r]
        /\ Advanced(q) \in [Requests -> Live \cup {"none", "queued", "queued503", "done"}]
    BY DEF Advanced, After, TypeOK, CycleTypeOK, Live
  <1> DEFINE stays == IF After(q) \in Live THEN {q} ELSE {}
             next == IF transport' = "open" /\ q < cycle THEN {q + 1} ELSE {}
  <1>6. cycle \in Nat /\ Len(pipeline) \in Nat /\ (pipeline # <<>> <=> q < cycle)
    BY <1>2 DEF TypeOK, QueueTypeOK, Active
  <1>7. Tasks' = (Tasks \ {q}) \cup stays \cup next
    <2>1. CASE transport' = "open" /\ q < cycle
      <3>1. task' = [Advanced(q) EXCEPT ![Head(pipeline)] = StartTask(@)]
        BY <1>1, <1>6, <2>1 DEF OnResponseComplete, HasNext, IsClosing
      <3>2. Head(pipeline) = q + 1 /\ q + 1 \in Requests
        <4>1. Head(pipeline) = pipeline[1] /\ 1 \in 1 .. Len(pipeline)
              /\ Head(pipeline) \in Requests
          BY <1>6, <2>1 DEF TypeOK, QueueTypeOK
        <4> QED BY <1>2, <4>1 DEF Order, QueueInv
      <3>3. /\ task'[q + 1] \in Live /\ task'[q] = After(q)
            /\ \A r \in Requests : r # q /\ r # q + 1 => task'[r] = task[r]
        BY <1>5, <3>1, <3>2 DEF StartTask, Live, Requests
      <3> QED BY <1>5, <2>1, <3>2, <3>3 DEF Tasks
    <2>2. CASE ~(transport' = "open" /\ q < cycle)
      <3>1. task' = Advanced(q)
        BY <1>1, <1>6, <2>2 DEF OnResponseComplete, HasNext, IsClosing
      <3> QED BY <1>5, <2>2, <3>1 DEF Tasks
    <2> QED BY <2>1, <2>2
  <1>8. q \in Tasks /\ stays \in SUBSET {q}
    BY DEF Tasks
  <1> HIDE DEF stays
  <1>9. \E s \in SUBSET {q} : Tasks' = (Tasks \ {q}) \cup s \cup next
    BY <1>7, <1>8
  <1> QED BY <1>1, <1>2, <1>3, <1>4, <1>8, <1>9, NeverAdrift
          DEF Connection!Answer, Done, Marked

\* A task that is over, with its answer or with the connection.
LEMMA OverIsTaskEnds ==
    ASSUME TypeOK, Order, NEW q \in Requests, task[q] \in Live,
           task' = [task EXCEPT ![q] = "done"], UNCHANGED <<cycle, complete, keepAlive>>,
           transport' \in {transport, Closed(transport)},
           ~complete[q] => transport' # "open"
    PROVE  Connection!HNext
  <1>1. Tasks' = Tasks \ {q} /\ q \in Tasks
    BY DEF Tasks, TypeOK, CycleTypeOK, Live
  <1>2. Done' = Done /\ Marked' = Marked
    BY DEF Done, Marked
  <1>3. q > Cardinality(Done) => ~complete[q]
    BY Answered DEF Requests
  <1>4. Connection!TaskEnds(q)
    BY <1>1, <1>2, <1>3 DEF Connection!TaskEnds, Connection!Shut, Closed, Done, Marked
  <1> QED BY <1>4 DEF Connection!HNext, Requests

\* any other message is a step of the contract or none,
LEMMA TransmitMaps ==
    ASSUME TypeOK, Order, TaskInv, NEW q \in Requests, NEW m \in Offers(q), Transmit(q, m)
    PROVE  Connection!HNext \/ UNCHANGED Connection!hvars
  <1>1. m \in Messages /\ task[q] \in Live /\ Work(q)
    BY OffersAreMessages, TaskIsWork
  <1>2. CASE SendLast(q, m)
    BY <1>1, <1>2, LastIsAnswer DEF Connection!HNext
  <1>3. CASE task[q] = "cannedBody" /\ ~SendLast(q, m)
    <2>1. disconnected[q]
      BY <1>1, <1>3, CannedBodyFits, OffersAre
    <2>2. SendWithoutEffect(q, m) /\ transport = "lost"
      BY <1>1, <1>3, <2>1 DEF Transmit, SendStart, SendPart, Accepts, Work
    <2>3. task' = [task EXCEPT ![q] = "done"]
      BY <1>3, <2>2, OffersAre DEF SendWithoutEffect, Advanced
    <2>4. UNCHANGED <<cycle, complete, keepAlive, transport>>
      BY <2>2 DEF SendWithoutEffect, queueVars, outVars, connVars
    <2> QED BY <1>1, <2>2, <2>3, <2>4, OverIsTaskEnds
  <1>4. CASE task[q] # "cannedBody" /\ SendStart(q, m)
    BY <1>1, <1>4, StartIsMark
  <1>5. CASE task[q] # "cannedBody" /\ (SendPart(q, m) \/ SendWithoutEffect(q, m))
    <2>1. UNCHANGED <<cycle, complete, keepAlive, transport>> /\ task' = Advanced(q)
      BY <1>5 DEF SendPart, SendWithoutEffect, queueVars, outVars, connVars
    <2>2. \A r \in Requests : task[r] \in Live <=> task'[r] \in Live
      BY <1>5, <2>1 DEF Advanced, After, Live, TypeOK, CycleTypeOK
    <2> QED BY <2>1, <2>2, Unseen
  <1> QED BY <1>2, <1>3, <1>4, <1>5 DEF Transmit

\* so is every step of an application,
LEMMA AppMaps ==
    ASSUME TypeOK, Order, TaskInv, NEW q \in Requests, AppStep(q)
    PROVE  Connection!HNext \/ UNCHANGED Connection!hvars
  <1>0. Work(q)
    BY TaskIsWork
  <1>1. CASE \/ ReceiveReturns(q) \/ ReceiveWaits(q) \/ ReceiveWakes(q)
             \/ \E m \in Messages : SendWaits(q, m)
    <2>1. UNCHANGED <<complete, cycle, task, keepAlive, transport>>
      BY <1>1 DEF ReceiveReturns, ReceiveWaits, ReceiveWakes, SendWaits, connVars,
                  queueVars, outVars
    <2> QED BY <2>1, Unseen
  <1>2. ASSUME NEW m \in Messages, Send(q, m)
        PROVE  Connection!HNext \/ UNCHANGED Connection!hvars
    BY <1>2, TransmitMaps DEF Send
  <1>3. CASE SendWakes(q)
    BY <1>0, <1>3, TransmitMaps DEF SendWakes, Work
  <1>4. CASE AppReturns(q) \/ AppReturnsValue(q) \/ AppRaises(q)
    <2>1. UNCHANGED <<complete, cycle, keepAlive>> /\ task[q] = "running"
      BY <1>4 DEF AppReturns, AppReturnsValue, AppRaises, AppEnds, queueVars, outVars
    <2>2. \/ /\ task' = [task EXCEPT ![q] = "canned"] /\ transport' = transport
          \/ /\ task' = [task EXCEPT ![q] = "done"]
             /\ transport' \in {transport, Closed(transport)}
             /\ complete[q] \/ disconnected[q] \/ transport' = Closed(transport)
      BY <1>4 DEF AppReturns, AppReturnsValue, AppRaises, AppEnds
    <2>3. CASE task' = [task EXCEPT ![q] = "canned"] /\ transport' = transport
      <3>1. \A r \in Requests : task[r] \in Live <=> task'[r] \in Live
        BY <2>1, <2>3 DEF Live, TypeOK, CycleTypeOK
      <3> QED BY <2>1, <2>3, <3>1, Unseen
    <2>4. CASE /\ task' = [task EXCEPT ![q] = "done"]
               /\ transport' \in {transport, Closed(transport)}
               /\ complete[q] \/ disconnected[q] \/ transport' = Closed(transport)
      <3>1. ~complete[q] => transport' # "open"
        BY <1>0, <2>4 DEF Closed, Work
      <3> QED BY <2>1, <2>4, <3>1, OverIsTaskEnds DEF Live
    <2> QED BY <2>2, <2>3, <2>4
  <1> QED BY <1>1, <1>2, <1>3, <1>4 DEF AppStep

\* and every step of the connection.
LEMMA StepMaps ==
    ASSUME TypeOK, Order, TaskInv, [Next]_vars
    PROVE  Connection!HNext \/ UNCHANGED Connection!hvars
  <1>1. CASE \/ DataReceived \/ FeedDone \/ OnMessageBegin \/ OnBody \/ OnMessageComplete
             \/ ParseError \/ UpgradeToWebSocket
    <2>1. UNCHANGED <<complete, cycle, task, keepAlive>>
      BY <1>1 DEF DataReceived, FeedDone, OnMessageBegin, OnBody, OnMessageComplete,
                  ParseError, UpgradeToWebSocket, queueVars, outVars
    <2>2. transport' \in {transport, Closed(transport)}
      BY <1>1 DEF DataReceived, FeedDone, OnMessageBegin, OnBody, OnMessageComplete,
                  ParseError, UpgradeToWebSocket
    <2> QED BY <2>1, <2>2, Closes
  <1>2. ASSUME NEW over \in BOOLEAN, NEW ka \in BOOLEAN, OnHeadersComplete(over, ka)
        PROVE  Connection!HNext
    BY <1>2, HeadIsAccept DEF Connection!HNext
  <1>3. CASE \/ KeepAliveTimeout \/ EofReceived \/ UpgradedConnectionLost \/ ResumeWriting
             \/ \E failed \in BOOLEAN : ConnectionLost(failed)
    <2>1. UNCHANGED <<complete, cycle, task, keepAlive>>
      BY <1>3 DEF KeepAliveTimeout, EofReceived, UpgradedConnectionLost, ResumeWriting,
                  ConnectionLost, queueVars, outVars
    <2>2. transport' \in {transport, Closed(transport), "lost"}
      BY <1>3 DEF KeepAliveTimeout, EofReceived, UpgradedConnectionLost, ResumeWriting,
                  ConnectionLost, Closed
    <2> QED BY <2>1, <2>2, Closes
  <1>4. CASE Shutdown
    BY <1>4, ShutdownIsDrain DEF Connection!HNext
  <1>5. CASE UNCHANGED vars
    <2>1. UNCHANGED <<transport, cycle, complete, keepAlive, task>>
      BY <1>5 DEF vars, connVars, queueVars, outVars
    <2> QED BY <2>1, Unseen
  <1> QED BY <1>1, <1>2, <1>3, <1>4, <1>5, AppMaps DEF Next, ParserStep, TransportStep

\* Whatever the client, the application and the transport do, the server sees
\* a connection that keeps HttpConnection's contract.
THEOREM Implementation == Spec => ImplementsConnection
  <1>1. TypeOK /\ Order /\ TaskInv /\ [Next]_vars => [Connection!HNext]_(Connection!hvars)
    BY StepMaps
  <1>2. Spec => Connection!HSpec
    BY <1>1, ConnectionInit, TypeCorrect, Inductive, Working, PTL
       DEF Spec, Inv, Order, Connection!HSpec
  <1> QED BY <1>2 DEF ImplementsConnection
=============================================================================
