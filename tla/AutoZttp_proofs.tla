---------------------------- MODULE AutoZttp_proofs ----------------------------
(***************************************************************************)
(* Proofs about Http1, Http2 and the choice between them, for every number   *)
(* of requests and every value of the limits.  One lemma per action shows    *)
(* that it keeps Http1Inv, or Http2Inv, part by part; for Http1 another says *)
(* what the action is to the contract of HttpConnection.  The lemmas are     *)
(* about the instances H1 and H2 of AutoZttp, whose variables they share.    *)
(***************************************************************************)
EXTENDS AutoZttp, FiniteSetTheorems, TLAPS

USE HttpCyclesAssumption, AutoZttpAssumption
    DEF H1!Requests, H1!Live, H1!sideVars, H1!flowVars, H1!libVars, H1!inVars,
        H1!wakeVars, H1!outVars, H1!Unoccupied, H1!Abandoned, H1!ClosesAfter

\* What send() of the newest cycle, from after its drain, has in common with
\* Send and SendWakes: nobody else is at work, and nobody waits in drain().
Sends(r, m) ==
    /\ ~inFeed /\ r = cycle /\ ~complete[r] /\ H1!Offers(r, m)
    /\ sending' = [sending EXCEPT ![r] = "no"]
    /\ UNCHANGED <<H1!sideVars, cycle, keepAlive, disconnected, H1!inVars>>

-----------------------------------------------------------------------------
(* Http1, action by action.                                                 *)

\* DataReceived: a chunk arrives.
LEMMA Http1DataReceived ==
    ASSUME H1!Http1Inv, H1!DataReceived
    PROVE  H1!Http1Inv'
  <1> USE DEF H1!Http1Inv, H1!Http1TypeOK, H1!DataReceived, H1!ConnTypeOK,
              H1!FlowTypeOK, H1!LibTypeOK, H1!CycleTypeOK, H1!TaskTypeOK
  <1>1. H1!ConnTypeOK' /\ H1!FlowTypeOK' /\ H1!LibTypeOK'
    <2>1. H1!ConnTypeOK'
      OBVIOUS
    <2>2. H1!FlowTypeOK'
      OBVIOUS
    <2>3. H1!LibTypeOK'
      OBVIOUS
    <2> QED BY <2>1, <2>2, <2>3
  <1>2. H1!CycleTypeOK' /\ H1!TaskTypeOK'
    OBVIOUS
  <1>3. H1!CyclesInv' /\ H1!CountInv'
    BY DEF H1!CyclesInv, H1!CountInv
  <1>4. H1!ExchangeInv' /\ H1!FeedInv'
    BY DEF H1!ExchangeInv, H1!FeedInv
  <1>5. H1!ReadingIsOwned' /\ H1!HeldHasTurn'
    BY DEF H1!ReadingIsOwned, H1!HeldHasTurn
  <1>6. H1!TimerBetweenRequests' /\ H1!DrainWillClose' /\ H1!NoLostWakeup'
    BY DEF H1!TimerBetweenRequests, H1!DrainWillClose, H1!NoLostWakeup
  <1> QED BY <1>1, <1>2, <1>3, <1>4, <1>5, <1>6

\* FeedDone: the events of the chunk are handled.
LEMMA Http1FeedDone ==
    ASSUME H1!Http1Inv, H1!FeedDone
    PROVE  H1!Http1Inv'
  <1> USE DEF H1!Http1Inv, H1!Http1TypeOK, H1!FeedDone, H1!ConnTypeOK, H1!FlowTypeOK,
              H1!LibTypeOK, H1!CycleTypeOK, H1!TaskTypeOK
  <1>1. H1!ConnTypeOK' /\ H1!FlowTypeOK' /\ H1!LibTypeOK'
    <2>1. H1!ConnTypeOK'
      OBVIOUS
    <2>2. H1!FlowTypeOK'
      OBVIOUS
    <2>3. H1!LibTypeOK'
      OBVIOUS
    <2> QED BY <2>1, <2>2, <2>3
  <1>2. H1!CycleTypeOK' /\ H1!TaskTypeOK'
    OBVIOUS
  <1>3. H1!CyclesInv' /\ H1!CountInv'
    BY DEF H1!CyclesInv, H1!CountInv
  <1>4. H1!ExchangeInv' /\ H1!FeedInv'
    BY DEF H1!ExchangeInv, H1!FeedInv
  <1>5. H1!ReadingIsOwned' /\ H1!HeldHasTurn'
    BY DEF H1!ReadingIsOwned, H1!HeldHasTurn, H1!ExchangeInv, H1!FeedInv
  <1>6. H1!TimerBetweenRequests' /\ H1!DrainWillClose' /\ H1!NoLostWakeup'
    BY DEF H1!TimerBetweenRequests, H1!DrainWillClose, H1!NoLostWakeup
  <1> QED BY <1>1, <1>2, <1>3, <1>4, <1>5, <1>6

\* FeedPaused: h11 pauses behind a request that is being answered.
LEMMA Http1FeedPaused ==
    ASSUME H1!Http1Inv, H1!FeedPaused
    PROVE  H1!Http1Inv'
  <1> USE DEF H1!Http1Inv, H1!Http1TypeOK, H1!FeedPaused, H1!PauseReading,
              H1!ConnTypeOK, H1!FlowTypeOK, H1!LibTypeOK, H1!CycleTypeOK,
              H1!TaskTypeOK
  <1>1. H1!ConnTypeOK' /\ H1!FlowTypeOK' /\ H1!LibTypeOK'
    <2>1. H1!ConnTypeOK'
      OBVIOUS
    <2>2. H1!FlowTypeOK'
      OBVIOUS
    <2>3. H1!LibTypeOK'
      OBVIOUS
    <2> QED BY <2>1, <2>2, <2>3
  <1>2. H1!CycleTypeOK' /\ H1!TaskTypeOK'
    OBVIOUS
  <1>3. H1!CyclesInv' /\ H1!CountInv'
    BY DEF H1!CyclesInv, H1!CountInv
  <1>4. H1!ExchangeInv' /\ H1!FeedInv'
    BY DEF H1!ExchangeInv, H1!FeedInv
  <1>5. H1!ReadingIsOwned' /\ H1!HeldHasTurn'
    BY DEF H1!ReadingIsOwned, H1!HeldHasTurn, H1!ExchangeInv, H1!FeedInv,
           H1!CyclesInv, H1!NoLostWakeup, H1!CountInv
  <1>6. H1!TimerBetweenRequests' /\ H1!DrainWillClose' /\ H1!NoLostWakeup'
    BY DEF H1!TimerBetweenRequests, H1!DrainWillClose, H1!NoLostWakeup
  <1> QED BY <1>1, <1>2, <1>3, <1>4, <1>5, <1>6

\* HandleRequest(over, ka, expects): a new cycle; the one before it is complete.
LEMMA Http1HandleRequest ==
    ASSUME H1!Http1Inv, NEW over \in BOOLEAN, NEW ka \in BOOLEAN, NEW expects \in
           BOOLEAN, H1!HandleRequest(over, ka, expects)
    PROVE  H1!Http1Inv'
  <1> USE DEF H1!Http1Inv, H1!Http1TypeOK, H1!HandleRequest, H1!StartCycle,
              H1!ConnTypeOK, H1!FlowTypeOK, H1!LibTypeOK, H1!CycleTypeOK,
              H1!TaskTypeOK
  <1>1. H1!ConnTypeOK' /\ H1!FlowTypeOK' /\ H1!LibTypeOK'
    <2>1. H1!ConnTypeOK'
      OBVIOUS
    <2>2. H1!FlowTypeOK'
      OBVIOUS
    <2>3. H1!LibTypeOK'
      OBVIOUS
    <2> QED BY <2>1, <2>2, <2>3
  <1>2. H1!CycleTypeOK' /\ H1!TaskTypeOK'
    OBVIOUS
  <1>3. H1!CyclesInv' /\ H1!CountInv'
    <2>1. H1!CyclesInv'
      BY DEF H1!CyclesInv, H1!CountInv, H1!ExchangeInv, H1!FeedInv
    <2>2. H1!CountInv'
      BY DEF H1!CyclesInv, H1!CountInv, H1!ExchangeInv, H1!FeedInv
    <2> QED BY <2>1, <2>2
  <1>4. H1!ExchangeInv' /\ H1!FeedInv'
    BY DEF H1!ExchangeInv, H1!FeedInv, H1!CyclesInv
  <1>5. H1!ReadingIsOwned' /\ H1!HeldHasTurn'
    BY DEF H1!ReadingIsOwned, H1!HeldHasTurn, H1!ExchangeInv, H1!FeedInv, H1!CyclesInv
  <1>6. H1!TimerBetweenRequests' /\ H1!DrainWillClose' /\ H1!NoLostWakeup'
    BY DEF H1!TimerBetweenRequests, H1!DrainWillClose, H1!NoLostWakeup,
           H1!ExchangeInv, H1!FeedInv
  <1> QED BY <1>1, <1>2, <1>3, <1>4, <1>5, <1>6

\* UpgradeToWebSocket: the transport goes to the websocket protocol.
LEMMA Http1UpgradeToWebSocket ==
    ASSUME H1!Http1Inv, H1!UpgradeToWebSocket
    PROVE  H1!Http1Inv'
  <1> USE DEF H1!Http1Inv, H1!Http1TypeOK, H1!UpgradeToWebSocket, H1!ConnTypeOK,
              H1!FlowTypeOK, H1!LibTypeOK, H1!CycleTypeOK, H1!TaskTypeOK
  <1>1. H1!ConnTypeOK' /\ H1!FlowTypeOK' /\ H1!LibTypeOK'
    OBVIOUS
  <1>2. H1!CycleTypeOK' /\ H1!TaskTypeOK'
    OBVIOUS
  <1>3. H1!CyclesInv' /\ H1!CountInv'
    BY DEF H1!CyclesInv, H1!CountInv
  <1>4. H1!ExchangeInv' /\ H1!FeedInv'
    BY DEF H1!ExchangeInv, H1!FeedInv
  <1>5. H1!ReadingIsOwned' /\ H1!HeldHasTurn'
    BY DEF H1!ReadingIsOwned, H1!HeldHasTurn
  <1>6. H1!TimerBetweenRequests' /\ H1!DrainWillClose' /\ H1!NoLostWakeup'
    BY DEF H1!TimerBetweenRequests, H1!DrainWillClose, H1!NoLostWakeup
  <1> QED BY <1>1, <1>2, <1>3, <1>4, <1>5, <1>6

\* HandleData: whoever waits for the body gets its event, so the pause hurts nobody.
LEMMA Http1HandleData ==
    ASSUME H1!Http1Inv, H1!HandleData
    PROVE  H1!Http1Inv'
  <1> USE DEF H1!Http1Inv, H1!Http1TypeOK, H1!HandleData, H1!PauseReading,
              H1!SetEvent, H1!Drops, H1!ConnTypeOK, H1!FlowTypeOK, H1!LibTypeOK,
              H1!CycleTypeOK, H1!TaskTypeOK
  <1>1. H1!ConnTypeOK' /\ H1!FlowTypeOK' /\ H1!LibTypeOK'
    <2>1. H1!ConnTypeOK'
      OBVIOUS
    <2>2. H1!FlowTypeOK'
      OBVIOUS
    <2>3. H1!LibTypeOK'
      OBVIOUS
    <2> QED BY <2>1, <2>2, <2>3
  <1>2. H1!CycleTypeOK' /\ H1!TaskTypeOK'
    <2>1. transport = "open" /\ ~upgraded /\ cycle \in H1!Requests
      BY DEF H1!ExchangeInv, H1!FeedInv, H1!CountInv
    <2>2. H1!CycleTypeOK'
      BY <2>1
    <2>3. H1!TaskTypeOK'
      OBVIOUS
    <2> QED BY <2>2, <2>3
  <1>3. H1!CyclesInv' /\ H1!CountInv'
    BY DEF H1!CyclesInv, H1!CountInv
  <1>4. H1!ExchangeInv' /\ H1!FeedInv'
    BY DEF H1!ExchangeInv, H1!FeedInv
  <1>5. H1!ReadingIsOwned'
    <2>1. /\ transport = "open" /\ ~upgraded /\ cycle \in H1!Requests
          /\ H1!Abandoned \/ (~complete[cycle] /\ task[cycle] \in H1!Live)
      BY DEF H1!ExchangeInv, H1!FeedInv, H1!CountInv
    <2>2. reading' = ~readPaused'
      BY <2>1 DEF H1!ReadingIsOwned
    <2>3. ASSUME NEW q \in H1!Requests,
                 receiving'[q] = "waiting", ~event'[q], moreBody'[q]
          PROVE  q # cycle /\ receiving[q] = "waiting" /\ ~event[q]
      BY <2>1, <2>3
    <2>4. ASSUME NEW q \in H1!Requests, receiving[q] = "waiting", ~event[q]
          PROVE  q = cycle
      <3>1. ~complete[q] /\ task[q] = "running"
        BY <2>4 DEF H1!NoLostWakeup, H1!CyclesInv
      <3>2. ~(q < cycle) /\ ~(q > cycle)
        BY <3>1 DEF H1!CyclesInv
      <3> QED BY <2>1, <3>2
    <2> QED BY <2>1, <2>2, <2>3, <2>4 DEF H1!ReadingIsOwned
  <1>8. H1!HeldHasTurn'
    BY DEF H1!HeldHasTurn
  <1>6. H1!TimerBetweenRequests' /\ H1!DrainWillClose' /\ H1!NoLostWakeup'
    BY DEF H1!TimerBetweenRequests, H1!DrainWillClose, H1!NoLostWakeup
  <1> QED BY <1>1, <1>2, <1>3, <1>4, <1>5, <1>6, <1>8

\* HandleEndOfMessage: the end of a request, answered already or not.
LEMMA Http1HandleEndOfMessage ==
    ASSUME H1!Http1Inv, H1!HandleEndOfMessage
    PROVE  H1!Http1Inv'
  <1> USE DEF H1!Http1Inv, H1!Http1TypeOK, H1!HandleEndOfMessage, H1!EndOfRequest,
              H1!Theirs, H1!Drops, H1!SetEvent, H1!Closed, H1!ConnTypeOK, H1!FlowTypeOK,
              H1!LibTypeOK, H1!CycleTypeOK, H1!TaskTypeOK
  <1>1. H1!ConnTypeOK' /\ H1!FlowTypeOK' /\ H1!LibTypeOK'
    <2>1. H1!ConnTypeOK'
      OBVIOUS
    <2>2. H1!FlowTypeOK'
      OBVIOUS
    <2>3. H1!LibTypeOK'
      OBVIOUS
    <2> QED BY <2>1, <2>2, <2>3
  <1>2. H1!CycleTypeOK' /\ H1!TaskTypeOK'
    OBVIOUS
  <1>a. /\ transport = "open" /\ ~upgraded /\ cycle \in H1!Requests
        /\ ~complete[cycle] => ~H1!Drops
        /\ complete[cycle] => H1!Abandoned \/ (H1!Drops /\ ours = "done")
        /\ H1!Abandoned => ours \in {"response", "error"}
    BY DEF H1!ExchangeInv, H1!FeedInv, H1!CountInv
  <1>b. /\ UNCHANGED <<task, started, complete, disconnected, sending, receiving,
                       body, cycle, totalRequests, upgraded, listed>>
        /\ transport' \in {"open", "closing"}
    BY <1>a
  <1>3. H1!CyclesInv' /\ H1!CountInv'
    <2>1. CASE complete[cycle]
      <3>1. /\ moreBody' = moreBody \/ moreBody' = [moreBody EXCEPT ![cycle] = FALSE]
            /\ event' = event \/ event' = [event EXCEPT ![cycle] = TRUE]
        BY <1>a, <2>1
      <3> HIDE DEF H1!HandleEndOfMessage
      <3> QED BY <1>a, <1>b, <2>1, <3>1 DEF H1!CyclesInv, H1!CountInv
    <2>2. CASE ~complete[cycle]
      <3>1. /\ moreBody' = [moreBody EXCEPT ![cycle] = FALSE]
            /\ event' = [event EXCEPT ![cycle] = TRUE]
        BY <1>a, <2>2
      <3> HIDE DEF H1!HandleEndOfMessage
      <3> QED BY <1>a, <1>b, <2>2, <3>1 DEF H1!CyclesInv, H1!CountInv
    <2> QED BY <2>1, <2>2
  <1>c. /\ moreBody'[cycle] \in {moreBody[cycle], FALSE}
        /\ \A q \in H1!Requests : q # cycle => moreBody'[q] = moreBody[q]
        /\ \A q \in H1!Requests : event[q] => event'[q]
        /\ ~complete[cycle] => ~moreBody'[cycle]
    BY <1>a
  <1>d. UNCHANGED <<readPaused, told, timer, held, wireKeep, keepAlive, disconnected,
                    writePaused>>
    OBVIOUS
  <1>e. \/ /\ ~H1!Drops
           /\ theirs' \in {"done", "mustClose"} /\ inFeed' = (theirs' = "done")
           /\ theirs' = "mustClose" => ~wireKeep \/ ours = "error"
           /\ ~moreBody'[cycle]
           /\ UNCHANGED <<ours, reading, transport>>
        \/ /\ H1!Drops /\ ours = "done" /\ ours' = "idle" /\ theirs' = "idle"
           /\ reading' \in {reading, TRUE}
           /\ UNCHANGED <<inFeed, transport>>
        \/ transport' = "closing" /\ ~inFeed' /\ UNCHANGED reading
    BY <1>a, <1>c
  <1>f. theirs = "body"
    OBVIOUS
  <1> HIDE DEF H1!HandleEndOfMessage, H1!EndOfRequest
  <1>4. H1!ExchangeInv' /\ H1!FeedInv'
    <2>1. H1!FeedInv'
      BY <1>a, <1>b, <1>e DEF H1!FeedInv
    <2>2. CASE H1!Abandoned
      BY <1>a, <1>b, <1>c, <1>d, <1>e, <1>f, <2>1, <2>2 DEF H1!ExchangeInv
    <2>3. CASE complete[cycle] /\ ~H1!Abandoned
      BY <1>a, <1>b, <1>c, <1>d, <1>e, <1>f, <2>1, <2>3 DEF H1!ExchangeInv
    <2>4. CASE ~complete[cycle]
      BY <1>a, <1>b, <1>c, <1>d, <1>e, <1>f, <2>1, <2>4 DEF H1!ExchangeInv
    <2> QED BY <2>1, <2>2, <2>3, <2>4
  <1>5. H1!ReadingIsOwned' /\ H1!HeldHasTurn'
    <2>1. H1!HeldHasTurn'
      BY <1>a, <1>b, <1>d, <1>e, <1>f DEF H1!HeldHasTurn, H1!ExchangeInv, H1!CountInv
    <2>2. CASE reading
      BY <1>a, <1>b, <1>c, <1>d, <1>e, <2>1, <2>2 DEF H1!ReadingIsOwned
    <2>3. CASE ~reading
      BY <1>a, <1>b, <1>c, <1>d, <1>e, <2>1, <2>3 DEF H1!ReadingIsOwned
    <2> QED BY <2>1, <2>2, <2>3
  <1>6. H1!TimerBetweenRequests' /\ H1!DrainWillClose' /\ H1!NoLostWakeup'
    <2>1. H1!TimerBetweenRequests' /\ H1!DrainWillClose'
      BY <1>a, <1>b, <1>d DEF H1!TimerBetweenRequests, H1!DrainWillClose
    <2>2. H1!NoLostWakeup'
      BY <1>a, <1>b, <1>c, <1>d DEF H1!NoLostWakeup
    <2> QED BY <2>1, <2>2
  <1> QED BY <1>1, <1>2, <1>3, <1>4, <1>5, <1>6

\* ParseError: the transport closes.
LEMMA Http1ParseError ==
    ASSUME H1!Http1Inv, H1!ParseError
    PROVE  H1!Http1Inv'
  <1> USE DEF H1!Http1Inv, H1!Http1TypeOK, H1!ParseError, H1!Write, H1!Closed,
              H1!ConnTypeOK, H1!FlowTypeOK, H1!LibTypeOK, H1!CycleTypeOK,
              H1!TaskTypeOK
  <1>1. H1!ConnTypeOK' /\ H1!FlowTypeOK' /\ H1!LibTypeOK'
    OBVIOUS
  <1>2. H1!CycleTypeOK' /\ H1!TaskTypeOK'
    OBVIOUS
  <1>3. H1!CyclesInv' /\ H1!CountInv'
    BY DEF H1!CyclesInv, H1!CountInv
  <1>4. H1!ExchangeInv' /\ H1!FeedInv'
    BY DEF H1!ExchangeInv, H1!FeedInv
  <1>5. H1!ReadingIsOwned' /\ H1!HeldHasTurn'
    BY DEF H1!ReadingIsOwned, H1!HeldHasTurn
  <1>6. H1!TimerBetweenRequests' /\ H1!DrainWillClose' /\ H1!NoLostWakeup'
    BY DEF H1!TimerBetweenRequests, H1!DrainWillClose, H1!NoLostWakeup
  <1> QED BY <1>1, <1>2, <1>3, <1>4, <1>5, <1>6

\* ReceiveReturns(r): receive() has something to return at once.
LEMMA Http1ReceiveReturns ==
    ASSUME H1!Http1Inv, NEW r \in H1!Requests, H1!ReceiveReturns(r)
    PROVE  H1!Http1Inv'
  <1> USE DEF H1!Http1Inv, H1!Http1TypeOK, H1!ReceiveReturns, H1!Continue100,
              H1!ResumeReading, H1!Write, H1!ConnTypeOK, H1!FlowTypeOK, H1!LibTypeOK,
              H1!CycleTypeOK, H1!TaskTypeOK
  <1>1. H1!ConnTypeOK' /\ H1!FlowTypeOK' /\ H1!LibTypeOK'
    <2>1. H1!ConnTypeOK'
      OBVIOUS
    <2>2. H1!FlowTypeOK'
      OBVIOUS
    <2>3. H1!LibTypeOK'
      OBVIOUS
    <2> QED BY <2>1, <2>2, <2>3
  <1>2. H1!CycleTypeOK' /\ H1!TaskTypeOK'
    <2>1. \/ UNCHANGED <<event, body>>
          \/ /\ event' = [event EXCEPT ![r] = FALSE]
             /\ body' = [body EXCEPT ![r] = 0]
      OBVIOUS
    <2>2. body' \in [H1!Requests -> Nat]
      BY <2>1
    <2>3. event' \in [H1!Requests -> BOOLEAN]
      BY <2>1
    <2>4. waiting100' \in BOOLEAN
      OBVIOUS
    <2>5. H1!CycleTypeOK'
      BY <2>2, <2>3, <2>4
    <2> QED BY <2>5
  <1>3. H1!CyclesInv' /\ H1!CountInv'
    BY DEF H1!CyclesInv, H1!CountInv
  <1>4. H1!ExchangeInv' /\ H1!FeedInv'
    BY DEF H1!ExchangeInv, H1!FeedInv
  <1>5. H1!ReadingIsOwned' /\ H1!HeldHasTurn'
    BY DEF H1!ReadingIsOwned, H1!HeldHasTurn
  <1>6. H1!TimerBetweenRequests' /\ H1!DrainWillClose' /\ H1!NoLostWakeup'
    BY DEF H1!TimerBetweenRequests, H1!DrainWillClose, H1!NoLostWakeup
  <1> QED BY <1>1, <1>2, <1>3, <1>4, <1>5, <1>6

\* ReceiveWaits(r): receive() resumes reading before it waits.
LEMMA Http1ReceiveWaits ==
    ASSUME H1!Http1Inv, NEW r \in H1!Requests, H1!ReceiveWaits(r)
    PROVE  H1!Http1Inv'
  <1> USE DEF H1!Http1Inv, H1!Http1TypeOK, H1!ReceiveWaits, H1!Continue100,
              H1!ResumeReading, H1!Write, H1!ConnTypeOK, H1!FlowTypeOK, H1!LibTypeOK,
              H1!CycleTypeOK, H1!TaskTypeOK
  <1>1. H1!ConnTypeOK' /\ H1!FlowTypeOK' /\ H1!LibTypeOK'
    <2>1. H1!ConnTypeOK'
      OBVIOUS
    <2>2. H1!FlowTypeOK'
      OBVIOUS
    <2>3. H1!LibTypeOK'
      OBVIOUS
    <2> QED BY <2>1, <2>2, <2>3
  <1>2. H1!CycleTypeOK' /\ H1!TaskTypeOK'
    OBVIOUS
  <1>3. H1!CyclesInv' /\ H1!CountInv'
    BY DEF H1!CyclesInv, H1!CountInv
  <1>4. H1!ExchangeInv' /\ H1!FeedInv'
    BY DEF H1!ExchangeInv, H1!FeedInv
  <1>5. H1!ReadingIsOwned' /\ H1!HeldHasTurn'
    BY DEF H1!ReadingIsOwned, H1!HeldHasTurn
  <1>6. H1!TimerBetweenRequests' /\ H1!DrainWillClose' /\ H1!NoLostWakeup'
    BY DEF H1!TimerBetweenRequests, H1!DrainWillClose, H1!NoLostWakeup,
           H1!ExchangeInv, H1!FeedInv, H1!CyclesInv
  <1> QED BY <1>1, <1>2, <1>3, <1>4, <1>5, <1>6

\* ReceiveWakes(r): receive() takes what was set for it.
LEMMA Http1ReceiveWakes ==
    ASSUME H1!Http1Inv, NEW r \in H1!Requests, H1!ReceiveWakes(r)
    PROVE  H1!Http1Inv'
  <1> USE DEF H1!Http1Inv, H1!Http1TypeOK, H1!ReceiveWakes, H1!ConnTypeOK,
              H1!FlowTypeOK, H1!LibTypeOK, H1!CycleTypeOK, H1!TaskTypeOK
  <1>1. H1!ConnTypeOK' /\ H1!FlowTypeOK' /\ H1!LibTypeOK'
    OBVIOUS
  <1>2. H1!CycleTypeOK' /\ H1!TaskTypeOK'
    OBVIOUS
  <1>3. H1!CyclesInv' /\ H1!CountInv'
    BY DEF H1!CyclesInv, H1!CountInv
  <1>4. H1!ExchangeInv' /\ H1!FeedInv'
    BY DEF H1!ExchangeInv, H1!FeedInv
  <1>5. H1!ReadingIsOwned' /\ H1!HeldHasTurn'
    BY DEF H1!ReadingIsOwned, H1!HeldHasTurn
  <1>6. H1!TimerBetweenRequests' /\ H1!DrainWillClose' /\ H1!NoLostWakeup'
    BY DEF H1!TimerBetweenRequests, H1!DrainWillClose, H1!NoLostWakeup
  <1> QED BY <1>1, <1>2, <1>3, <1>4, <1>5, <1>6

\* SendStart: a response is begun: its headers may end keep-alive.
LEMMA Http1SendStart ==
    ASSUME H1!Http1Inv, NEW r \in H1!Requests, NEW closes \in BOOLEAN,
           H1!SendStart(r, closes), Sends(r, "start"), ~disconnected[r]
    PROVE  H1!Http1Inv'
  <1> USE DEF H1!Http1Inv, H1!Http1TypeOK, H1!SendStart, H1!Theirs, H1!Advanced,
              H1!Write, H1!Offers, Sends, H1!ConnTypeOK, H1!FlowTypeOK, H1!LibTypeOK,
              H1!CycleTypeOK, H1!TaskTypeOK
  <1>1. H1!ConnTypeOK' /\ H1!FlowTypeOK' /\ H1!LibTypeOK'
    <2>1. H1!ConnTypeOK'
      OBVIOUS
    <2>2. H1!FlowTypeOK'
      OBVIOUS
    <2>3. H1!LibTypeOK'
      OBVIOUS
    <2> QED BY <2>1, <2>2, <2>3
  <1>2. H1!CycleTypeOK' /\ H1!TaskTypeOK'
    OBVIOUS
  <1>3. H1!CyclesInv' /\ H1!CountInv'
    BY DEF H1!CyclesInv, H1!CountInv
  <1>a. task[cycle] \in H1!Live => task'[cycle] \in H1!Live
    OBVIOUS
  <1>4. H1!ExchangeInv' /\ H1!FeedInv'
    <2>1. H1!ExchangeInv'
      BY <1>a DEF H1!ExchangeInv
    <2>2. H1!FeedInv'
      BY DEF H1!FeedInv
    <2> QED BY <2>1, <2>2
  <1>5. H1!ReadingIsOwned' /\ H1!HeldHasTurn'
    <2>1. H1!ReadingIsOwned'
      BY <1>a DEF H1!ReadingIsOwned
    <2>2. H1!HeldHasTurn'
      BY <1>a DEF H1!HeldHasTurn
    <2> QED BY <2>1, <2>2
  <1>6. H1!TimerBetweenRequests' /\ H1!DrainWillClose' /\ H1!NoLostWakeup'
    <2>1. H1!TimerBetweenRequests'
      BY DEF H1!TimerBetweenRequests
    <2>2. H1!DrainWillClose'
      BY <1>a DEF H1!DrainWillClose
    <2>3. H1!NoLostWakeup'
      BY DEF H1!NoLostWakeup
    <2> QED BY <2>1, <2>2, <2>3
  <1> QED BY <1>1, <1>2, <1>3, <1>4, <1>5, <1>6

\* SendPart: a part of the body.
LEMMA Http1SendPart ==
    ASSUME H1!Http1Inv, NEW r \in H1!Requests, H1!SendPart(r), Sends(r, "part"),
           ~disconnected[r]
    PROVE  H1!Http1Inv'
  <1> USE DEF H1!Http1Inv, H1!Http1TypeOK, H1!SendPart, H1!Write, H1!Offers, Sends,
              H1!ConnTypeOK, H1!FlowTypeOK, H1!LibTypeOK, H1!CycleTypeOK,
              H1!TaskTypeOK
  <1>1. H1!ConnTypeOK' /\ H1!FlowTypeOK' /\ H1!LibTypeOK'
    <2>1. H1!ConnTypeOK'
      OBVIOUS
    <2>2. H1!FlowTypeOK'
      OBVIOUS
    <2>3. H1!LibTypeOK'
      OBVIOUS
    <2> QED BY <2>1, <2>2, <2>3
  <1>2. H1!CycleTypeOK' /\ H1!TaskTypeOK'
    OBVIOUS
  <1>3. H1!CyclesInv' /\ H1!CountInv'
    BY DEF H1!CyclesInv, H1!CountInv
  <1>4. H1!ExchangeInv' /\ H1!FeedInv'
    BY DEF H1!ExchangeInv, H1!FeedInv
  <1>5. H1!ReadingIsOwned' /\ H1!HeldHasTurn'
    BY DEF H1!ReadingIsOwned, H1!HeldHasTurn
  <1>6. H1!TimerBetweenRequests' /\ H1!DrainWillClose' /\ H1!NoLostWakeup'
    BY DEF H1!TimerBetweenRequests, H1!DrainWillClose, H1!NoLostWakeup
  <1> QED BY <1>1, <1>2, <1>3, <1>4, <1>5, <1>6

\* SendLast: the response is complete, and what was held back has its turn.
LEMMA Http1SendLast ==
    ASSUME H1!Http1Inv, NEW r \in H1!Requests, H1!SendLast(r), Sends(r, "last"),
           ~disconnected[r]
    PROVE  H1!Http1Inv'
  <1> USE DEF H1!Http1Inv, H1!Http1TypeOK, H1!SendLast, H1!SetEvent, H1!Closed,
              H1!NextExchange, H1!ResumeReading, H1!Advanced, H1!Write, H1!Offers,
              Sends, H1!ConnTypeOK, H1!FlowTypeOK, H1!LibTypeOK, H1!CycleTypeOK,
              H1!TaskTypeOK
  <1>1. H1!ConnTypeOK' /\ H1!FlowTypeOK' /\ H1!LibTypeOK'
    <2>1. transport' \in {"open", "closing", "lost"} /\ totalRequests' \in Nat
      OBVIOUS
    <2>2. timer' \in BOOLEAN /\ inFeed' \in BOOLEAN
      OBVIOUS
    <2>3. H1!ConnTypeOK'
      BY <2>1, <2>2
    <2>4. H1!FlowTypeOK'
      OBVIOUS
    <2>5. H1!LibTypeOK'
      OBVIOUS
    <2> QED BY <2>3, <2>4, <2>5
  <1>2. H1!CycleTypeOK' /\ H1!TaskTypeOK'
    OBVIOUS
  <1>3. H1!CyclesInv' /\ H1!CountInv'
    BY DEF H1!CyclesInv, H1!CountInv
  <1>4. H1!ExchangeInv' /\ H1!FeedInv'
    <2>1. H1!ExchangeInv'
      BY DEF H1!ExchangeInv, H1!CountInv
    <2>2. H1!FeedInv'
      BY DEF H1!FeedInv
    <2> QED BY <2>1, <2>2
  <1>5. H1!ReadingIsOwned' /\ H1!HeldHasTurn'
    BY DEF H1!ReadingIsOwned, H1!HeldHasTurn, H1!ExchangeInv, H1!FeedInv
  <1>6. H1!TimerBetweenRequests' /\ H1!DrainWillClose' /\ H1!NoLostWakeup'
    BY DEF H1!TimerBetweenRequests, H1!DrainWillClose, H1!NoLostWakeup
  <1> QED BY <1>1, <1>2, <1>3, <1>4, <1>5, <1>6

\* SendFails: the response may be complete for the cycle and not for the library.
LEMMA Http1SendFails ==
    ASSUME H1!Http1Inv, NEW r \in H1!Requests, NEW m \in H1!Messages,
           H1!SendFails(r, m), Sends(r, m), ~disconnected[r]
    PROVE  H1!Http1Inv'
  <1> USE DEF H1!Http1Inv, H1!Http1TypeOK, H1!SendFails, H1!EndRefused, H1!Theirs,
              H1!SetEvent,
              H1!Offers, Sends, H1!ConnTypeOK, H1!FlowTypeOK, H1!LibTypeOK,
              H1!CycleTypeOK, H1!TaskTypeOK
  <1>1. H1!ConnTypeOK' /\ H1!FlowTypeOK' /\ H1!LibTypeOK'
    OBVIOUS
  <1>a. /\ ours' \in {ours, "error"} /\ r = cycle /\ ~complete[r]
        /\ task[r] \in H1!Live /\ ~(r < cycle) /\ ~(r > cycle)
        /\ \/ UNCHANGED <<complete, event>>
           \/ /\ complete' = [complete EXCEPT ![r] = TRUE] /\ started[r]
              /\ event' = [event EXCEPT ![r] = TRUE]
              /\ ours' \in {"response", "error"} \/ transport # "open"
    BY DEF H1!ExchangeInv, H1!FeedInv
  <1>b. transport = "open" =>
           /\ UNCHANGED task /\ task[r] = "running"
           /\ ~upgraded /\ ~H1!Abandoned
    BY DEF H1!ExchangeInv, H1!FeedInv
  <1>2. H1!CycleTypeOK' /\ H1!TaskTypeOK'
    <2>1. started' \in [H1!Requests -> BOOLEAN] /\ waiting100' \in BOOLEAN
      OBVIOUS
    <2>2. H1!TaskTypeOK'
      OBVIOUS
    <2>3. /\ complete' \in [H1!Requests -> BOOLEAN]
          /\ event' \in [H1!Requests -> BOOLEAN]
      <3> HIDE DEF H1!SendFails, Sends
      <3> QED BY <1>a
    <2>4. H1!CycleTypeOK'
      BY <2>1, <2>3
    <2> QED BY <2>2, <2>4
  <1>3. H1!CyclesInv' /\ H1!CountInv'
    BY <1>a DEF H1!CyclesInv, H1!CountInv
  <1>c. /\ UNCHANGED <<transport, held, wireKeep, inFeed, reading, readPaused, told,
                       timer, totalRequests, cycle, keepAlive, moreBody, upgraded,
                       listed>>
        /\ theirs' \in {theirs, "mustClose"}
        /\ theirs' # theirs => theirs = "done" /\ ours' = "error"
        /\ started'[r] = (started[r] \/ m = "start")
        /\ complete' = complete => started'[r] \/ ours' = ours
    OBVIOUS
  <1> HIDE DEF H1!SendFails, Sends
  <1>4. H1!ExchangeInv' /\ H1!FeedInv'
    <2>1. H1!FeedInv'
      BY <1>a, <1>b, <1>c DEF H1!FeedInv
    <2>2. CASE transport # "open"
      BY <1>c, <2>1, <2>2 DEF H1!ExchangeInv
    <2>3. CASE transport = "open" /\ complete' = complete
      BY <1>a, <1>b, <1>c, <2>1, <2>3 DEF H1!ExchangeInv
    <2>4. CASE transport = "open" /\ complete' # complete
      BY <1>a, <1>b, <1>c, <2>1, <2>4 DEF H1!ExchangeInv, H1!CountInv
    <2> QED BY <2>1, <2>2, <2>3, <2>4
  <1>5. H1!ReadingIsOwned' /\ H1!HeldHasTurn'
    <2>1. receiving' = receiving /\ \A q \in H1!Requests : event[q] => event'[q]
      BY <1>a DEF H1!SendFails
    <2> QED BY <1>a, <1>b, <1>c, <2>1 DEF H1!ReadingIsOwned, H1!HeldHasTurn, H1!CountInv
  <1>6. H1!TimerBetweenRequests' /\ H1!DrainWillClose' /\ H1!NoLostWakeup'
    <2>1. H1!TimerBetweenRequests'
      BY <1>a, <1>c DEF H1!TimerBetweenRequests
    <2>2. H1!DrainWillClose'
      BY <1>a, <1>b, <1>c DEF H1!DrainWillClose, H1!CountInv
    <2>3. H1!NoLostWakeup'
      BY <1>a DEF H1!NoLostWakeup, H1!CyclesInv, H1!SendFails, Sends
    <2> QED BY <2>1, <2>2, <2>3
  <1> QED BY <1>1, <1>2, <1>3, <1>4, <1>5, <1>6

\* SendNothing: nothing is sent to a connection that is lost.
LEMMA Http1SendNothing ==
    ASSUME H1!Http1Inv, NEW r \in H1!Requests, NEW m \in H1!Messages,
           H1!SendNothing(r), Sends(r, m), disconnected[r]
    PROVE  H1!Http1Inv'
  <1> USE DEF H1!Http1Inv, H1!Http1TypeOK, H1!SendNothing, H1!Advanced, H1!Offers,
              Sends, H1!ConnTypeOK, H1!FlowTypeOK, H1!LibTypeOK, H1!CycleTypeOK,
              H1!TaskTypeOK
  <1>1. H1!ConnTypeOK' /\ H1!FlowTypeOK' /\ H1!LibTypeOK'
    OBVIOUS
  <1>2. H1!CycleTypeOK' /\ H1!TaskTypeOK'
    OBVIOUS
  <1>3. H1!CyclesInv' /\ H1!CountInv'
    BY DEF H1!CyclesInv, H1!CountInv
  <1>4. H1!ExchangeInv' /\ H1!FeedInv'
    BY DEF H1!ExchangeInv, H1!FeedInv, H1!CyclesInv
  <1>5. H1!ReadingIsOwned' /\ H1!HeldHasTurn'
    BY DEF H1!ReadingIsOwned, H1!HeldHasTurn, H1!ExchangeInv, H1!FeedInv, H1!CyclesInv
  <1>6. H1!TimerBetweenRequests' /\ H1!DrainWillClose' /\ H1!NoLostWakeup'
    BY DEF H1!TimerBetweenRequests, H1!DrainWillClose, H1!NoLostWakeup,
           H1!ExchangeInv, H1!FeedInv, H1!CyclesInv
  <1> QED BY <1>1, <1>2, <1>3, <1>4, <1>5, <1>6

\* SendWaits(r): send() waits in drain().
LEMMA Http1SendWaits ==
    ASSUME H1!Http1Inv, NEW r \in H1!Requests, H1!SendWaits(r)
    PROVE  H1!Http1Inv'
  <1> USE DEF H1!Http1Inv, H1!Http1TypeOK, H1!SendWaits, H1!ConnTypeOK, H1!FlowTypeOK,
              H1!LibTypeOK, H1!CycleTypeOK, H1!TaskTypeOK
  <1>1. H1!ConnTypeOK' /\ H1!FlowTypeOK' /\ H1!LibTypeOK'
    OBVIOUS
  <1>2. H1!CycleTypeOK' /\ H1!TaskTypeOK'
    OBVIOUS
  <1>3. H1!CyclesInv' /\ H1!CountInv'
    BY DEF H1!CyclesInv, H1!CountInv
  <1>4. H1!ExchangeInv' /\ H1!FeedInv'
    BY DEF H1!ExchangeInv, H1!FeedInv
  <1>5. H1!ReadingIsOwned' /\ H1!HeldHasTurn'
    BY DEF H1!ReadingIsOwned, H1!HeldHasTurn
  <1>6. H1!TimerBetweenRequests' /\ H1!DrainWillClose' /\ H1!NoLostWakeup'
    BY DEF H1!TimerBetweenRequests, H1!DrainWillClose, H1!NoLostWakeup,
           H1!CyclesInv
  <1> QED BY <1>1, <1>2, <1>3, <1>4, <1>5, <1>6

\* AppRaises(r): an application that raises leaves a response to be written or closes.
LEMMA Http1AppRaises ==
    ASSUME H1!Http1Inv, NEW r \in H1!Requests, H1!AppRaises(r)
    PROVE  H1!Http1Inv'
  <1> USE DEF H1!Http1Inv, H1!Http1TypeOK, H1!AppRaises, H1!AppEnds, H1!Closed,
              H1!ConnTypeOK, H1!FlowTypeOK, H1!LibTypeOK, H1!CycleTypeOK,
              H1!TaskTypeOK
  <1>1. H1!ConnTypeOK' /\ H1!FlowTypeOK' /\ H1!LibTypeOK'
    OBVIOUS
  <1>2. H1!CycleTypeOK' /\ H1!TaskTypeOK'
    OBVIOUS
  <1>3. H1!CyclesInv' /\ H1!CountInv'
    BY DEF H1!CyclesInv, H1!CountInv
  <1>4. H1!ExchangeInv' /\ H1!FeedInv'
    BY DEF H1!ExchangeInv, H1!FeedInv
  <1>5. H1!ReadingIsOwned' /\ H1!HeldHasTurn'
    BY DEF H1!ReadingIsOwned, H1!HeldHasTurn
  <1>6. H1!TimerBetweenRequests' /\ H1!DrainWillClose' /\ H1!NoLostWakeup'
    BY DEF H1!TimerBetweenRequests, H1!DrainWillClose, H1!NoLostWakeup
  <1> QED BY <1>1, <1>2, <1>3, <1>4, <1>5, <1>6

\* AppReturnsValue(r): so does one that returns a value.
LEMMA Http1AppReturnsValue ==
    ASSUME H1!Http1Inv, NEW r \in H1!Requests, H1!AppReturnsValue(r)
    PROVE  H1!Http1Inv'
  <1> USE DEF H1!Http1Inv, H1!Http1TypeOK, H1!AppReturnsValue, H1!AppEnds, H1!Closed,
              H1!ConnTypeOK, H1!FlowTypeOK, H1!LibTypeOK, H1!CycleTypeOK,
              H1!TaskTypeOK
  <1>1. H1!ConnTypeOK' /\ H1!FlowTypeOK' /\ H1!LibTypeOK'
    OBVIOUS
  <1>2. H1!CycleTypeOK' /\ H1!TaskTypeOK'
    OBVIOUS
  <1>3. H1!CyclesInv' /\ H1!CountInv'
    BY DEF H1!CyclesInv, H1!CountInv
  <1>4. H1!ExchangeInv' /\ H1!FeedInv'
    BY DEF H1!ExchangeInv, H1!FeedInv
  <1>5. H1!ReadingIsOwned' /\ H1!HeldHasTurn'
    BY DEF H1!ReadingIsOwned, H1!HeldHasTurn
  <1>6. H1!TimerBetweenRequests' /\ H1!DrainWillClose' /\ H1!NoLostWakeup'
    BY DEF H1!TimerBetweenRequests, H1!DrainWillClose, H1!NoLostWakeup
  <1> QED BY <1>1, <1>2, <1>3, <1>4, <1>5, <1>6

\* AppReturns(r): and one that returns.
LEMMA Http1AppReturns ==
    ASSUME H1!Http1Inv, NEW r \in H1!Requests, H1!AppReturns(r)
    PROVE  H1!Http1Inv'
  <1> USE DEF H1!Http1Inv, H1!Http1TypeOK, H1!AppReturns, H1!AppEnds, H1!Closed,
              H1!ConnTypeOK, H1!FlowTypeOK, H1!LibTypeOK, H1!CycleTypeOK,
              H1!TaskTypeOK
  <1>1. H1!ConnTypeOK' /\ H1!FlowTypeOK' /\ H1!LibTypeOK'
    OBVIOUS
  <1>2. H1!CycleTypeOK' /\ H1!TaskTypeOK'
    OBVIOUS
  <1>3. H1!CyclesInv' /\ H1!CountInv'
    BY DEF H1!CyclesInv, H1!CountInv
  <1>4. H1!ExchangeInv' /\ H1!FeedInv'
    BY DEF H1!ExchangeInv, H1!FeedInv, H1!CyclesInv
  <1>5. H1!ReadingIsOwned' /\ H1!HeldHasTurn'
    BY DEF H1!ReadingIsOwned, H1!HeldHasTurn, H1!ExchangeInv, H1!FeedInv, H1!CyclesInv
  <1>6. H1!TimerBetweenRequests' /\ H1!DrainWillClose' /\ H1!NoLostWakeup'
    BY DEF H1!TimerBetweenRequests, H1!DrainWillClose, H1!NoLostWakeup,
           H1!ExchangeInv, H1!FeedInv, H1!CyclesInv
  <1> QED BY <1>1, <1>2, <1>3, <1>4, <1>5, <1>6

\* KeepAliveTimeout: the timer runs between requests, when the library may close.
LEMMA Http1KeepAliveTimeout ==
    ASSUME H1!Http1Inv, H1!KeepAliveTimeout
    PROVE  H1!Http1Inv'
  <1> USE DEF H1!Http1Inv, H1!Http1TypeOK, H1!KeepAliveTimeout, H1!MayClose,
              H1!ConnTypeOK, H1!FlowTypeOK, H1!LibTypeOK, H1!CycleTypeOK,
              H1!TaskTypeOK
  <1>1. H1!ConnTypeOK' /\ H1!FlowTypeOK' /\ H1!LibTypeOK'
    <2>1. H1!ConnTypeOK'
      OBVIOUS
    <2>2. H1!FlowTypeOK'
      OBVIOUS
    <2>3. H1!LibTypeOK'
      OBVIOUS
    <2> QED BY <2>1, <2>2, <2>3
  <1>2. H1!CycleTypeOK' /\ H1!TaskTypeOK'
    OBVIOUS
  <1>3. H1!CyclesInv' /\ H1!CountInv'
    BY DEF H1!CyclesInv, H1!CountInv
  <1>4. H1!ExchangeInv' /\ H1!FeedInv'
    <2>1. transport = "open" /\ ~upgraded => H1!MayClose \/ H1!Abandoned
      BY DEF H1!ExchangeInv, H1!TimerBetweenRequests
    <2>2. H1!ExchangeInv'
      BY <2>1 DEF H1!ExchangeInv
    <2>3. H1!FeedInv'
      BY DEF H1!FeedInv
    <2> QED BY <2>2, <2>3
  <1>5. H1!ReadingIsOwned' /\ H1!HeldHasTurn'
    BY DEF H1!ReadingIsOwned, H1!HeldHasTurn
  <1>6. H1!TimerBetweenRequests' /\ H1!DrainWillClose' /\ H1!NoLostWakeup'
    BY DEF H1!TimerBetweenRequests, H1!DrainWillClose, H1!NoLostWakeup
  <1> QED BY <1>1, <1>2, <1>3, <1>4, <1>5, <1>6

\* EofReceived: the peer half-closes.
LEMMA Http1EofReceived ==
    ASSUME H1!Http1Inv, H1!EofReceived
    PROVE  H1!Http1Inv'
  <1> USE DEF H1!Http1Inv, H1!Http1TypeOK, H1!EofReceived, H1!ConnTypeOK,
              H1!FlowTypeOK, H1!LibTypeOK, H1!CycleTypeOK, H1!TaskTypeOK
  <1>1. H1!ConnTypeOK' /\ H1!FlowTypeOK' /\ H1!LibTypeOK'
    OBVIOUS
  <1>2. H1!CycleTypeOK' /\ H1!TaskTypeOK'
    OBVIOUS
  <1>3. H1!CyclesInv' /\ H1!CountInv'
    BY DEF H1!CyclesInv, H1!CountInv
  <1>4. H1!ExchangeInv' /\ H1!FeedInv'
    BY DEF H1!ExchangeInv, H1!FeedInv
  <1>5. H1!ReadingIsOwned' /\ H1!HeldHasTurn'
    BY DEF H1!ReadingIsOwned, H1!HeldHasTurn
  <1>6. H1!TimerBetweenRequests' /\ H1!DrainWillClose' /\ H1!NoLostWakeup'
    BY DEF H1!TimerBetweenRequests, H1!DrainWillClose, H1!NoLostWakeup
  <1> QED BY <1>1, <1>2, <1>3, <1>4, <1>5, <1>6

\* ConnectionLost(failed): the newest cycle is told, and everyone in drain().
LEMMA Http1ConnectionLost ==
    ASSUME H1!Http1Inv, NEW failed \in BOOLEAN, H1!ConnectionLost(failed)
    PROVE  H1!Http1Inv'
  <1> USE DEF H1!Http1Inv, H1!Http1TypeOK, H1!ConnectionLost, H1!MayClose,
              H1!WakeSenders, H1!ConnTypeOK, H1!FlowTypeOK, H1!LibTypeOK,
              H1!CycleTypeOK, H1!TaskTypeOK
  <1>1. H1!ConnTypeOK' /\ H1!FlowTypeOK' /\ H1!LibTypeOK'
    OBVIOUS
  <1>2. H1!CycleTypeOK' /\ H1!TaskTypeOK'
    OBVIOUS
  <1>3. H1!CyclesInv' /\ H1!CountInv'
    BY DEF H1!CyclesInv, H1!CountInv
  <1>4. H1!ExchangeInv' /\ H1!FeedInv'
    BY DEF H1!ExchangeInv, H1!FeedInv
  <1>5. H1!ReadingIsOwned' /\ H1!HeldHasTurn'
    BY DEF H1!ReadingIsOwned, H1!HeldHasTurn
  <1>6. H1!TimerBetweenRequests' /\ H1!DrainWillClose' /\ H1!NoLostWakeup'
    BY DEF H1!TimerBetweenRequests, H1!DrainWillClose, H1!NoLostWakeup
  <1> QED BY <1>1, <1>2, <1>3, <1>4, <1>5, <1>6

\* UpgradedConnectionLost: the websocket protocol is told.
LEMMA Http1UpgradedConnectionLost ==
    ASSUME H1!Http1Inv, H1!UpgradedConnectionLost
    PROVE  H1!Http1Inv'
  <1> USE DEF H1!Http1Inv, H1!Http1TypeOK, H1!UpgradedConnectionLost, H1!ConnTypeOK,
              H1!FlowTypeOK, H1!LibTypeOK, H1!CycleTypeOK, H1!TaskTypeOK
  <1>1. H1!ConnTypeOK' /\ H1!FlowTypeOK' /\ H1!LibTypeOK'
    OBVIOUS
  <1>2. H1!CycleTypeOK' /\ H1!TaskTypeOK'
    OBVIOUS
  <1>3. H1!CyclesInv' /\ H1!CountInv'
    BY DEF H1!CyclesInv, H1!CountInv, H1!FeedInv
  <1>4. H1!ExchangeInv' /\ H1!FeedInv'
    BY DEF H1!ExchangeInv, H1!FeedInv
  <1>5. H1!ReadingIsOwned' /\ H1!HeldHasTurn'
    BY DEF H1!ReadingIsOwned, H1!HeldHasTurn
  <1>6. H1!TimerBetweenRequests' /\ H1!DrainWillClose' /\ H1!NoLostWakeup'
    BY DEF H1!TimerBetweenRequests, H1!DrainWillClose, H1!NoLostWakeup,
           H1!CyclesInv, H1!FeedInv
  <1> QED BY <1>1, <1>2, <1>3, <1>4, <1>5, <1>6

\* ResumeWriting: everyone in drain() is woken.
LEMMA Http1ResumeWriting ==
    ASSUME H1!Http1Inv, H1!ResumeWriting
    PROVE  H1!Http1Inv'
  <1> USE DEF H1!Http1Inv, H1!Http1TypeOK, H1!ResumeWriting, H1!WakeSenders,
              H1!ConnTypeOK, H1!FlowTypeOK, H1!LibTypeOK, H1!CycleTypeOK,
              H1!TaskTypeOK
  <1>1. H1!ConnTypeOK' /\ H1!FlowTypeOK' /\ H1!LibTypeOK'
    <2>1. H1!ConnTypeOK'
      OBVIOUS
    <2>2. H1!FlowTypeOK'
      OBVIOUS
    <2>3. H1!LibTypeOK'
      OBVIOUS
    <2> QED BY <2>1, <2>2, <2>3
  <1>2. H1!CycleTypeOK' /\ H1!TaskTypeOK'
    OBVIOUS
  <1>3. H1!CyclesInv' /\ H1!CountInv'
    BY DEF H1!CyclesInv, H1!CountInv
  <1>4. H1!ExchangeInv' /\ H1!FeedInv'
    BY DEF H1!ExchangeInv, H1!FeedInv
  <1>5. H1!ReadingIsOwned' /\ H1!HeldHasTurn'
    BY DEF H1!ReadingIsOwned, H1!HeldHasTurn
  <1>6. H1!TimerBetweenRequests' /\ H1!DrainWillClose' /\ H1!NoLostWakeup'
    BY DEF H1!TimerBetweenRequests, H1!DrainWillClose, H1!NoLostWakeup
  <1> QED BY <1>1, <1>2, <1>3, <1>4, <1>5, <1>6

\* Shutdown: an idle connection closes; a busy one is left to its response.
LEMMA Http1Shutdown ==
    ASSUME H1!Http1Inv, H1!Shutdown
    PROVE  H1!Http1Inv'
  <1> USE DEF H1!Http1Inv, H1!Http1TypeOK, H1!Shutdown, H1!MayClose, H1!Closed,
              H1!ConnTypeOK, H1!FlowTypeOK, H1!LibTypeOK, H1!CycleTypeOK,
              H1!TaskTypeOK
  <1>1. H1!ConnTypeOK' /\ H1!FlowTypeOK' /\ H1!LibTypeOK'
    OBVIOUS
  <1>2. H1!CycleTypeOK' /\ H1!TaskTypeOK'
    OBVIOUS
  <1>3. H1!CyclesInv' /\ H1!CountInv'
    BY DEF H1!CyclesInv, H1!CountInv
  <1>4. H1!ExchangeInv' /\ H1!FeedInv'
    BY DEF H1!ExchangeInv, H1!FeedInv
  <1>5. H1!ReadingIsOwned' /\ H1!HeldHasTurn'
    BY DEF H1!ReadingIsOwned, H1!HeldHasTurn
  <1>6. H1!TimerBetweenRequests' /\ H1!DrainWillClose' /\ H1!NoLostWakeup'
    BY DEF H1!TimerBetweenRequests, H1!DrainWillClose, H1!NoLostWakeup,
           H1!ExchangeInv, H1!FeedInv
  <1> QED BY <1>1, <1>2, <1>3, <1>4, <1>5, <1>6

\* A send() that goes on, from its drain or past it, is the newest cycle's.
LEMMA Http1Transmits ==
    ASSUME H1!Http1Inv, NEW r \in H1!Requests, NEW m \in H1!Messages,
           H1!Send(r, m) \/ H1!SendWakes(r, m)
    PROVE  Sends(r, m) /\ H1!Transmit(r, m)
  <1> USE DEF H1!Http1Inv, H1!Http1TypeOK, H1!TaskTypeOK, H1!Transmit, Sends
  <1>1. CASE H1!Send(r, m)
    BY <1>1 DEF H1!Send
  <1>2. CASE H1!SendWakes(r, m)
    BY <1>2 DEF H1!SendWakes, H1!CyclesInv
  <1> QED BY <1>1, <1>2

\* The initial state of the connection.
LEMMA Http1Init == H1!Init => H1!Http1Inv
  <1> SUFFICES ASSUME H1!Init PROVE H1!Http1Inv
    OBVIOUS
  <1> USE DEF H1!Init, H1!All
  <1>1. H1!Http1TypeOK
    <2>1. H1!ConnTypeOK
      BY DEF H1!ConnTypeOK
    <2>2. H1!FlowTypeOK
      BY DEF H1!FlowTypeOK
    <2>3. H1!LibTypeOK
      BY DEF H1!LibTypeOK
    <2>4. H1!CycleTypeOK
      <3>1. \A b \in BOOLEAN : H1!All(b) \in [H1!Requests -> BOOLEAN]
        OBVIOUS
      <3>2. H1!All(0) \in [H1!Requests -> Nat]
        OBVIOUS
      <3>3. cycle \in 0 .. NumRequests
        OBVIOUS
      <3> HIDE DEF H1!All
      <3> QED BY <3>1, <3>2, <3>3 DEF H1!CycleTypeOK
    <2>5. H1!TaskTypeOK
      BY DEF H1!TaskTypeOK
    <2> QED BY <2>1, <2>2, <2>3, <2>4, <2>5 DEF H1!Http1TypeOK
  <1>2. H1!CyclesInv /\ H1!CountInv
    BY DEF H1!CyclesInv, H1!CountInv
  <1>3. H1!ExchangeInv /\ H1!FeedInv
    BY DEF H1!ExchangeInv, H1!FeedInv
  <1>4. H1!ReadingIsOwned /\ H1!HeldHasTurn
    BY DEF H1!ReadingIsOwned, H1!HeldHasTurn
  <1>5. H1!TimerBetweenRequests /\ H1!DrainWillClose /\ H1!NoLostWakeup
    BY DEF H1!TimerBetweenRequests, H1!DrainWillClose, H1!NoLostWakeup
  <1> QED BY <1>1, <1>2, <1>3, <1>4, <1>5 DEF H1!Http1Inv

-----------------------------------------------------------------------------
(* Http1 implements the contract: what each step is to HttpConnection.         *)

\* Where no response is completed and no cycle made, the phase moves with the
\* transport.
LEMMA PhaseMoves ==
    ASSUME transport \in {"open", "closing", "lost"},
           UNCHANGED <<complete, cycle, totalRequests>> \/ transport # "open"
    PROVE  /\ transport' = transport => H1!Phase' = H1!Phase
           /\ transport' = H1!Closed(transport) => H1!Phase' = H1!Connection!Shut(H1!Phase)
  <1>1. CASE transport = "open"
    <2>1. H1!Abandoned' = H1!Abandoned
      BY <1>1
    <2> HIDE DEF H1!Abandoned
    <2> QED BY <1>1, <2>1 DEF H1!Phase, H1!Closed, H1!Connection!Shut
  <1>2. CASE transport # "open"
    <2> HIDE DEF H1!Abandoned
    <2> QED BY <1>2 DEF H1!Phase, H1!Closed, H1!Connection!Shut
  <1> QED BY <1>1, <1>2

\* Between a request and its answer the contract sees nothing of the feed, of
\* receive() and of drain().
LEMMA Http1Stutters ==
    ASSUME NEW r \in H1!Requests,
           \/ H1!DataReceived \/ H1!FeedDone \/ H1!FeedPaused \/ H1!HandleData
           \/ H1!UpgradeToWebSocket \/ H1!ReceiveReturns(r)
           \/ H1!ReceiveWaits(r) \/ H1!ReceiveWakes(r) \/ H1!SendWaits(r)
           \/ H1!ResumeWriting \/ (Sends(r, "part") /\ H1!SendPart(r))
    PROVE  UNCHANGED H1!Connection!hvars
  <1>1. UNCHANGED <<transport, cycle, totalRequests, wireKeep, keepAlive, task,
                  complete>>
    <2>1. CASE H1!DataReceived \/ H1!FeedDone \/ H1!FeedPaused
      BY <2>1 DEF H1!DataReceived, H1!FeedDone, H1!FeedPaused
    <2>2. CASE H1!HandleData \/ H1!UpgradeToWebSocket
      BY <2>2 DEF H1!HandleData, H1!UpgradeToWebSocket
    <2>3. CASE H1!ReceiveReturns(r) \/ H1!ReceiveWaits(r) \/ H1!ReceiveWakes(r)
      BY <2>3 DEF H1!ReceiveReturns, H1!ReceiveWaits, H1!ReceiveWakes
    <2>4. CASE H1!SendWaits(r) \/ H1!ResumeWriting
      BY <2>4 DEF H1!SendWaits, H1!ResumeWriting
    <2>5. CASE Sends(r, "part") /\ H1!SendPart(r)
      BY <2>5 DEF Sends, H1!SendPart
    <2> QED BY <2>1, <2>2, <2>3, <2>4, <2>5
  <1> QED BY <1>1 DEF H1!Connection!hvars, H1!Tasks, H1!Phase

\* HandleRequest: a request is accepted when all before it are answered.
LEMMA Http1Accepts ==
    ASSUME H1!Http1Inv, NEW over \in BOOLEAN, NEW ka \in BOOLEAN, NEW expects \in BOOLEAN, H1!HandleRequest(over, ka, expects)
    PROVE  H1!Connection!Accept
  <1> USE DEF H1!Http1Inv, H1!Http1TypeOK, H1!CycleTypeOK, H1!ConnTypeOK, H1!LibTypeOK
  <1>1. transport = "open" /\ ~upgraded /\ totalRequests = cycle /\ wireKeep /\ keepAlive /\ cycle' = cycle + 1
    BY DEF H1!HandleRequest, H1!StartCycle, H1!FeedInv, H1!CountInv, H1!ExchangeInv
  <1>2. H1!Tasks' = H1!Tasks \cup {cycle + 1}
    BY <1>1 DEF H1!HandleRequest, H1!StartCycle, H1!Tasks, H1!TaskTypeOK
  <1>3. H1!Phase = "open" /\ H1!Phase' = "open"
    BY <1>1 DEF H1!Phase, H1!CyclesInv, H1!HandleRequest, H1!StartCycle
  <1> QED BY <1>1, <1>2, <1>3 DEF H1!HandleRequest, H1!StartCycle, H1!Connection!Accept

\* SendStart: a response whose headers end keep-alive is marked as the last one.
LEMMA Http1Marks ==
    ASSUME H1!Http1Inv, NEW r \in H1!Requests, NEW closes \in BOOLEAN,
           H1!SendStart(r, closes), Sends(r, "start"), ~disconnected[r]
    PROVE  H1!Connection!Mark \/ UNCHANGED H1!Connection!hvars
  <1> USE DEF H1!Http1Inv, H1!Http1TypeOK, H1!CycleTypeOK, H1!ConnTypeOK, H1!LibTypeOK, H1!TaskTypeOK, H1!SendStart, Sends
  <1>1. H1!Tasks' = H1!Tasks /\ cycle \in H1!Tasks
    BY DEF H1!Tasks, H1!Advanced, H1!Offers
  <1>2. totalRequests + 1 = cycle
    BY DEF H1!CountInv
  <1>3. UNCHANGED H1!Phase
    BY DEF H1!Phase
  <1> QED BY <1>1, <1>2, <1>3 DEF H1!Connection!Mark, H1!Connection!hvars

\* SendLast: the one request in progress is answered.
LEMMA Http1Answers ==
    ASSUME H1!Http1Inv, NEW r \in H1!Requests, H1!SendLast(r), Sends(r, "last"), ~disconnected[r]
    PROVE  H1!Connection!Answer
  <1> USE DEF H1!Http1Inv, H1!Http1TypeOK, H1!CycleTypeOK, H1!ConnTypeOK, H1!LibTypeOK, H1!TaskTypeOK, H1!SendLast, Sends
  <1>1. totalRequests + 1 = cycle /\ cycle = r /\ cycle \in H1!Tasks
    BY DEF H1!CountInv, H1!Tasks, H1!Offers
  <1>2. PICK stays \in SUBSET {r} : H1!Tasks' = (H1!Tasks \ {r}) \cup stays
    <2>1. \A q \in H1!Requests : q # r => task'[q] = task[q]
      BY DEF H1!Advanced
    <2>2. CASE task'[r] \in H1!Live
      <3>1. H1!Tasks' = (H1!Tasks \ {r}) \cup {r}
        BY <2>1, <2>2 DEF H1!Tasks
      <3> QED BY <3>1
    <2>3. CASE task'[r] \notin H1!Live
      <3>1. H1!Tasks' = (H1!Tasks \ {r}) \cup {}
        BY <2>1, <2>3 DEF H1!Tasks
      <3> QED BY <3>1
    <2> QED BY <2>2, <2>3
  <1>a. H1!Phase = transport /\ H1!Phase' = transport' /\ transport # "adrift"
    BY <1>1 DEF H1!Phase
  <1>3. transport' = IF H1!ClosesAfter THEN H1!Connection!Shut(transport) ELSE transport
    BY DEF H1!Connection!Shut, H1!Closed
  <1>4. UNCHANGED <<wireKeep, keepAlive, cycle>> /\ totalRequests' = cycle
    BY <1>1
  <1>5. r \in (IF wireKeep /\ keepAlive THEN {} ELSE {cycle}) <=> H1!ClosesAfter
    BY <1>1
  <1>6. /\ r = totalRequests + 1 /\ r \in H1!Tasks /\ ~(r < cycle) /\ totalRequests' = r
        /\ UNCHANGED <<cycle, IF wireKeep /\ keepAlive THEN {} ELSE {cycle}>>
    BY <1>1, <1>4
  <1>7. H1!Tasks' = (H1!Tasks \ {r}) \cup stays \cup
                     (IF transport' = "open" /\ r < cycle THEN {r + 1} ELSE {})
    BY <1>2, <1>6
  <1> HIDE DEF H1!SendLast, Sends, H1!ClosesAfter, H1!Unoccupied, H1!Abandoned
  <1> QED BY <1>a, <1>2, <1>3, <1>5, <1>6, <1>7 DEF H1!Connection!Answer

\* The end of a task by itself.
LEMMA TasksShrink ==
    ASSUME H1!Http1Inv, NEW r \in H1!Requests, NEW s \in H1!Live \cup {"none", "done"},
           task[r] \in H1!Live, task' = [task EXCEPT ![r] = s]
    PROVE  r \in H1!Tasks /\ H1!Tasks' = IF s \in H1!Live THEN H1!Tasks ELSE H1!Tasks \ {r}
  <1> USE DEF H1!Http1Inv, H1!Http1TypeOK, H1!TaskTypeOK, H1!Tasks
  <1>1. CASE s \in H1!Live
    <2>1. H1!Tasks' = H1!Tasks
      BY <1>1
    <2> QED BY <2>1
  <1>2. CASE s \notin H1!Live
    <2>1. H1!Tasks' = H1!Tasks \ {r}
      BY <1>2
    <2> QED BY <2>1
  <1> QED BY <1>1, <1>2

\* An application that ends may close the transport with its task.
LEMMA Http1TaskEnds ==
    ASSUME H1!Http1Inv, NEW r \in H1!Requests, NEW s \in H1!Live \cup {"none", "done"},
           task[r] \in H1!Live, task' = [task EXCEPT ![r] = s],
           transport' \in {transport, H1!Closed(transport)},
           s \in H1!Live => UNCHANGED transport,
           s \notin H1!Live => r <= totalRequests \/ transport' # "open" \/ H1!Abandoned,
           UNCHANGED complete \/ transport # "open",
           UNCHANGED <<cycle, totalRequests, wireKeep, keepAlive>>
    PROVE  H1!Connection!TaskEnds(r) \/ UNCHANGED H1!Connection!hvars
  <1>1. r \in H1!Tasks /\ H1!Tasks' = IF s \in H1!Live THEN H1!Tasks ELSE H1!Tasks \ {r}
    BY TasksShrink
  <1>2. H1!Phase' \in {H1!Phase, H1!Connection!Shut(H1!Phase)}
    BY PhaseMoves DEF H1!Http1Inv, H1!Http1TypeOK, H1!ConnTypeOK
  <1>a. transport' = transport => H1!Phase' = H1!Phase
    BY PhaseMoves DEF H1!Http1Inv, H1!Http1TypeOK, H1!ConnTypeOK
  <1>b. s \notin H1!Live => r <= totalRequests \/ H1!Phase' # "open"
    BY DEF H1!Phase, H1!Closed
  <1> HIDE DEF H1!Abandoned, H1!Unoccupied
  <1>3. CASE s \in H1!Live
    BY <1>1, <1>3, <1>a DEF H1!Connection!hvars
  <1>4. CASE s \notin H1!Live
    BY <1>1, <1>2, <1>b, <1>4 DEF H1!Connection!TaskEnds, H1!Http1Inv, H1!Http1TypeOK, H1!ConnTypeOK
  <1> QED BY <1>3, <1>4

\* The application of a request ends: AppRaises, AppReturnsValue, AppReturns.
LEMMA Http1AppEnds ==
    ASSUME H1!Http1Inv, NEW r \in H1!Requests,
           H1!AppRaises(r) \/ H1!AppReturnsValue(r) \/ H1!AppReturns(r)
    PROVE  H1!Connection!TaskEnds(r) \/ UNCHANGED H1!Connection!hvars
  <1> USE DEF H1!Http1Inv, H1!Http1TypeOK, H1!ConnTypeOK, H1!CycleTypeOK, H1!TaskTypeOK
  <1>1. task[r] = "running" /\ UNCHANGED <<cycle, totalRequests, wireKeep, keepAlive, complete>>
    BY DEF H1!AppRaises, H1!AppReturnsValue, H1!AppReturns, H1!AppEnds
  <1>2. complete[r] => r <= totalRequests \/ H1!Abandoned
    BY <1>1 DEF H1!CyclesInv, H1!CountInv
  <1>3. disconnected[r] => transport = "lost"
    BY DEF H1!CyclesInv
  <1>4. PICK s \in {"canned", "done"} :
          /\ task' = [task EXCEPT ![r] = s]
          /\ transport' \in {transport, H1!Closed(transport)}
          /\ s = "canned" => UNCHANGED transport
          /\ s = "done" => r <= totalRequests \/ transport' # "open" \/ H1!Abandoned
    <2>1. CASE H1!AppRaises(r)
      BY <2>1 DEF H1!AppRaises, H1!AppEnds, H1!Closed
    <2>2. CASE H1!AppReturnsValue(r)
      BY <2>2 DEF H1!AppReturnsValue, H1!AppEnds, H1!Closed
    <2>3. CASE H1!AppReturns(r)
      BY <1>2, <1>3, <2>3 DEF H1!AppReturns, H1!AppEnds, H1!Closed
    <2> QED BY <2>1, <2>2, <2>3
  <1> QED BY <1>1, <1>4, Http1TaskEnds

\* A message that raises, or that nobody gets, may end its task; or it is the end
\* of the response, and the library refuses it.
LEMMA Http1SendEnds ==
    ASSUME H1!Http1Inv, NEW r \in H1!Requests, NEW m \in H1!Messages, Sends(r, m),
           H1!SendFails(r, m) \/ (H1!SendNothing(r) /\ disconnected[r])
    PROVE  \/ H1!Connection!TaskEnds(r) \/ H1!Connection!Abandon
           \/ UNCHANGED H1!Connection!hvars
  <1> USE DEF H1!Http1Inv, H1!Http1TypeOK, H1!ConnTypeOK, H1!CycleTypeOK, H1!TaskTypeOK
  <1>1. /\ task[r] \in H1!Live
        /\ UNCHANGED <<cycle, totalRequests, wireKeep, keepAlive, transport>>
    BY DEF Sends, H1!Offers, H1!SendFails, H1!SendNothing
  <1>2. CASE H1!SendFails(r, m) /\ transport = "open"
    <2>1. UNCHANGED task /\ ~upgraded /\ ~H1!Abandoned /\ r = cycle /\ ~complete[r]
      BY <1>2 DEF Sends, H1!Offers, H1!SendFails, H1!ExchangeInv, H1!FeedInv
    <2>2. UNCHANGED H1!Tasks /\ totalRequests + 1 = r /\ r \in H1!Tasks
      BY <1>1, <2>1 DEF H1!Tasks, H1!CountInv
    <2>3. complete' \in {complete, [complete EXCEPT ![r] = TRUE]}
      BY <1>2 DEF H1!SendFails, H1!EndRefused
    <2>4. H1!Phase = "open" /\ H1!Phase' \in {"open", "adrift"}
      BY <1>1, <1>2, <2>1, <2>3 DEF H1!Phase
    <2> HIDE DEF H1!Abandoned, H1!Unoccupied
    <2> QED BY <1>1, <2>1, <2>2, <2>4 DEF H1!Connection!Abandon, H1!Connection!hvars
  <1>3. CASE H1!SendFails(r, m) /\ transport # "open"
    <2>a. task = [task EXCEPT ![r] = task[r]]
      OBVIOUS
    <2>1. PICK s \in H1!Live \cup {"done"} : task' = [task EXCEPT ![r] = s]
      BY <1>1, <1>3, <2>a DEF H1!SendFails
    <2> QED BY <1>1, <1>3, <2>1, Http1TaskEnds
  <1>4. CASE H1!SendNothing(r) /\ disconnected[r]
    <2>1. PICK s \in H1!Live \cup {"done"} : task' = [task EXCEPT ![r] = s]
      BY <1>1, <1>4 DEF H1!SendNothing, H1!Advanced
    <2>2. UNCHANGED complete /\ transport = "lost"
      BY <1>4 DEF H1!SendNothing, H1!CyclesInv
    <2> QED BY <1>1, <2>1, <2>2, Http1TaskEnds
  <1> QED BY <1>2, <1>3, <1>4

\* What closes a connection under its tasks, or leaves it as it is.
LEMMA Http1Closes ==
    ASSUME \/ H1!ParseError \/ H1!KeepAliveTimeout \/ H1!EofReceived
           \/ H1!HandleEndOfMessage,
           H1!Http1Inv
    PROVE  H1!Connection!Close \/ UNCHANGED H1!Connection!hvars
  <1>1. UNCHANGED <<cycle, totalRequests, wireKeep, keepAlive, task, complete>>
    BY DEF H1!ParseError, H1!KeepAliveTimeout, H1!EofReceived, H1!HandleEndOfMessage
  <1>2. transport' \in {transport, H1!Closed(transport)}
    BY DEF H1!ParseError, H1!KeepAliveTimeout, H1!EofReceived, H1!HandleEndOfMessage,
           H1!EndOfRequest, H1!Closed
  <1>3. H1!Phase' \in {H1!Phase, H1!Connection!Shut(H1!Phase)}
    BY <1>1, <1>2, PhaseMoves DEF H1!Http1Inv, H1!Http1TypeOK, H1!ConnTypeOK
  <1> QED BY <1>1, <1>3 DEF H1!Connection!Close, H1!Connection!hvars, H1!Tasks

\* connection_lost, of this protocol or of the one it gave its transport to.
LEMMA Http1Loses ==
    ASSUME NEW failed \in BOOLEAN,
           H1!ConnectionLost(failed) \/ H1!UpgradedConnectionLost
    PROVE  H1!Connection!Lose
  <1>1. transport' = "lost"
    BY DEF H1!ConnectionLost, H1!UpgradedConnectionLost
  <1>2. UNCHANGED <<cycle, totalRequests, wireKeep, keepAlive, task>>
    BY DEF H1!ConnectionLost, H1!UpgradedConnectionLost
  <1> QED BY <1>1, <1>2 DEF H1!Connection!Lose, H1!Tasks, H1!Phase

\* Shutdown: an idle connection closes, and a busy one marks its newest request.
LEMMA Http1Drains ==
    ASSUME H1!Http1Inv, H1!Shutdown
    PROVE  H1!Connection!Drain \/ H1!Connection!Close \/ UNCHANGED H1!Connection!hvars
  <1> USE DEF H1!Http1Inv, H1!Http1TypeOK, H1!CycleTypeOK, H1!ConnTypeOK, H1!LibTypeOK, H1!Shutdown
  <1>1. H1!Tasks' = H1!Tasks
    BY DEF H1!Tasks
  <1>2. CASE H1!Unoccupied
    <2>1. /\ transport' \in {transport, H1!Closed(transport)}
          /\ UNCHANGED <<complete, cycle, totalRequests, wireKeep, keepAlive>>
      BY <1>2
    <2>2. H1!Phase' \in {H1!Phase, H1!Connection!Shut(H1!Phase)}
      BY <2>1, PhaseMoves
    <2> QED BY <1>1, <2>1, <2>2 DEF H1!Connection!Close, H1!Connection!hvars
  <1>3. CASE ~H1!Unoccupied
    <2>1. UNCHANGED H1!Phase /\ H1!Phase = transport
      BY <1>3 DEF H1!Phase
    <2> QED BY <1>1, <1>3, <2>1 DEF H1!Connection!Drain, H1!CountInv
  <1> QED BY <1>2, <1>3

\* What a step of the connection is, action by action.
LEMMA Http1Cases ==
    ASSUME H1!Http1Inv, H1!Next
    PROVE  /\ H1!Http1Inv'
           /\ H1!Connection!HNext \/ UNCHANGED H1!Connection!hvars
  <1> DEFINE Kept == /\ H1!Http1Inv'
                     /\ H1!Connection!HNext \/ UNCHANGED H1!Connection!hvars
  <1> USE DEF H1!Connection!HNext
  <1>0. 1 \in H1!Requests
    OBVIOUS
  <1>1. CASE H1!DataReceived \/ H1!FeedDone \/ H1!FeedPaused
    <2>1. H1!Http1Inv'
      BY <1>1, Http1DataReceived, Http1FeedDone, Http1FeedPaused
    <2> QED BY <1>0, <1>1, <2>1, Http1Stutters
  <1>2. ASSUME NEW over \in BOOLEAN, NEW ka \in BOOLEAN, NEW expects \in BOOLEAN,
               H1!HandleRequest(over, ka, expects)
        PROVE  Kept
    BY <1>2, Http1HandleRequest, Http1Accepts
  <1>3. CASE H1!HandleData \/ H1!UpgradeToWebSocket
    <2>1. H1!Http1Inv'
      BY <1>3, Http1HandleData, Http1UpgradeToWebSocket
    <2> QED BY <1>0, <1>3, <2>1, Http1Stutters
  <1>4. CASE \/ H1!ParseError \/ H1!KeepAliveTimeout \/ H1!EofReceived
             \/ H1!HandleEndOfMessage
    BY <1>4, Http1ParseError, Http1KeepAliveTimeout, Http1EofReceived,
       Http1HandleEndOfMessage, Http1Closes
  <1>5. ASSUME NEW r \in H1!Requests,
               H1!ReceiveReturns(r) \/ H1!ReceiveWaits(r) \/ H1!ReceiveWakes(r) \/ H1!SendWaits(r)
        PROVE  Kept
    <2>1. H1!Http1Inv'
      BY <1>5, Http1ReceiveReturns, Http1ReceiveWaits, Http1ReceiveWakes, Http1SendWaits
    <2> QED BY <1>5, <2>1, Http1Stutters
  <1>6. ASSUME NEW r \in H1!Requests, NEW m \in H1!Messages,
               H1!Send(r, m) \/ H1!SendWakes(r, m)
        PROVE  Kept
    <2>1. Sends(r, m) /\ H1!Transmit(r, m)
      BY <1>6, Http1Transmits
    <2>2. CASE disconnected[r]
      <3>1. H1!SendNothing(r)
        BY <2>1, <2>2 DEF H1!Transmit
      <3> QED BY <2>1, <2>2, <3>1, Http1SendNothing, Http1SendEnds
    <2>3. CASE ~disconnected[r]
      <3>1. CASE m = "start" /\ \E closes \in BOOLEAN : H1!SendStart(r, closes)
        <4>1. PICK closes \in BOOLEAN : H1!SendStart(r, closes)
          BY <3>1
        <4>2. Sends(r, "start")
          BY <2>1, <3>1
        <4> QED BY <2>3, <4>1, <4>2, Http1SendStart, Http1Marks
      <3>2. CASE m = "part" /\ H1!SendPart(r)
        <4>1. Sends(r, "part")
          BY <2>1, <3>2
        <4>2. H1!Http1Inv'
          BY <2>3, <3>2, <4>1, Http1SendPart
        <4> QED BY <3>2, <4>1, <4>2, Http1Stutters
      <3>3. CASE m = "last" /\ H1!SendLast(r)
        <4>1. Sends(r, "last")
          BY <2>1, <3>3
        <4> QED BY <2>3, <3>3, <4>1, Http1SendLast, Http1Answers
      <3>4. CASE H1!SendFails(r, m)
        BY <2>1, <2>3, <3>4, Http1SendFails, Http1SendEnds
      <3> QED BY <2>1, <2>3, <3>1, <3>2, <3>3, <3>4 DEF H1!Transmit
    <2> QED BY <2>2, <2>3
  <1>7. ASSUME NEW r \in H1!Requests,
               H1!AppRaises(r) \/ H1!AppReturnsValue(r) \/ H1!AppReturns(r)
        PROVE  Kept
    <2>1. H1!Http1Inv'
      BY <1>7, Http1AppRaises, Http1AppReturnsValue, Http1AppReturns
    <2> QED BY <1>7, <2>1, Http1AppEnds
  <1>8. ASSUME NEW failed \in BOOLEAN,
               H1!ConnectionLost(failed) \/ H1!UpgradedConnectionLost
        PROVE  Kept
    BY <1>8, Http1ConnectionLost, Http1UpgradedConnectionLost, Http1Loses
  <1>9. CASE H1!ResumeWriting
    <2>1. H1!Http1Inv'
      BY <1>9, Http1ResumeWriting
    <2> QED BY <1>0, <1>9, <2>1, Http1Stutters
  <1>10. CASE H1!Shutdown
    BY <1>10, Http1Shutdown, Http1Drains
  <1>11. CASE H1!EventStep
    BY <1>1, <1>2, <1>3, <1>4, <1>11 DEF H1!EventStep
  <1>12. ASSUME NEW r \in H1!Requests, H1!AppStep(r)
         PROVE  Kept
    <2>1. \/ H1!ReceiveReturns(r) \/ H1!ReceiveWaits(r) \/ H1!ReceiveWakes(r) \/ H1!SendWaits(r)
          \/ \E m \in H1!Messages : H1!Send(r, m) \/ H1!SendWakes(r, m)
          \/ H1!AppRaises(r) \/ H1!AppReturnsValue(r) \/ H1!AppReturns(r)
      BY <1>12 DEF H1!AppStep
    <2> QED BY <2>1, <1>5, <1>6, <1>7
  <1>13. CASE H1!TransportStep
    BY <1>4, <1>8, <1>9, <1>10, <1>13 DEF H1!TransportStep
  <1> QED BY <1>11, <1>12, <1>13 DEF H1!Next

\* The invariant is inductive, and every step is one of HttpConnection.
LEMMA Http1Step ==
    ASSUME H1!Http1Inv, [H1!Next]_(H1!vars)
    PROVE  /\ H1!Http1Inv'
           /\ H1!Connection!HNext \/ UNCHANGED H1!Connection!hvars
  <1>1. CASE H1!Next
    BY <1>1, Http1Cases
  <1>2. CASE UNCHANGED H1!vars
    <2>1. UNCHANGED H1!Connection!hvars
      BY <1>2 DEF H1!vars, H1!Connection!hvars, H1!Tasks, H1!Phase
    <2>2. UNCHANGED H1!Http1Inv
      BY <1>2 DEF H1!vars, H1!Http1Inv, H1!Http1TypeOK, H1!ConnTypeOK, H1!FlowTypeOK,
         H1!LibTypeOK, H1!CycleTypeOK, H1!TaskTypeOK, H1!CyclesInv, H1!CountInv,
         H1!ExchangeInv, H1!FeedInv, H1!ReadingIsOwned, H1!HeldHasTurn,
         H1!TimerBetweenRequests, H1!DrainWillClose, H1!NoLostWakeup
    <2> QED BY <2>1, <2>2
  <1> QED BY <1>1, <1>2

\* The initial state is the contract's.
LEMMA Http1StartsConnection == H1!Init => H1!Connection!HInit
  <1> SUFFICES ASSUME H1!Init PROVE H1!Connection!HInit
    OBVIOUS
  <1>1. H1!Tasks = {}
    BY DEF H1!Init, H1!Tasks, H1!All
  <1> QED BY <1>1 DEF H1!Init, H1!Connection!HInit, H1!Phase

-----------------------------------------------------------------------------
(* Http2.                                                                   *)

USE DEF H2!Requests, H2!Live, H2!connVars, H2!flowVars, H2!inVars, H2!wakeVars,
        H2!outVars, H2!Answered

\* What send() of a stream, from after its drain, does whatever it sends.
Streams(s, m) ==
    /\ ~inFeed /\ H2!Offers(s, m) /\ sending' = [sending EXCEPT ![s] = "no"]
    /\ task' = [task EXCEPT ![s] = CASE @ = "canned" -> "cannedBody"
                                     [] @ = "cannedBody" -> "done"
                                     [] OTHER -> @]
    /\ UNCHANGED <<listed, inFeed, heard, told, cycle, H2!inVars, receiving,
                   disconnected>>

\* The streams that limit_max_requests has counted.
Ended == {s \in H2!Requests : H2!Answered(s) \/ task[s] = "done"}

\* Nobody ends, and nobody is counted.
LEMMA CountStays ==
    ASSUME H2!CountedOnce, Ended' = Ended, UNCHANGED totalRequests
    PROVE  H2!CountedOnce'
  BY DEF H2!CountedOnce, Ended

\* One stream more ends and is counted.
LEMMA CountGrows ==
    ASSUME H2!CountedOnce, NEW s \in H2!Requests,
           s \notin Ended, Ended' = Ended \cup {s}, totalRequests' = totalRequests + 1
    PROVE  H2!CountedOnce'
  <1>1. Ended \subseteq 1 .. NumRequests
    BY DEF Ended
  <1>2. IsFiniteSet(1 .. NumRequests)
    BY FS_Interval
  <1>3. IsFiniteSet(Ended)
    BY <1>1, <1>2, FS_Subset
  <1>4. Cardinality(Ended \cup {s}) = Cardinality(Ended) + 1
    BY <1>3, FS_AddElement
  <1>5. /\ H2!CountedOnce <=> totalRequests = H2!Cardinality(Ended)
        /\ H2!CountedOnce' <=> totalRequests' = H2!Cardinality(Ended')
    BY DEF H2!CountedOnce, Ended
  <1>6. \A S : H2!Cardinality(S) = Cardinality(S)
    BY DEF Cardinality, H2!Cardinality
  <1> QED BY <1>4, <1>5, <1>6

\* DataReceived: a chunk arrives and stops the timer.
LEMMA Http2DataReceived ==
    ASSUME H2!Http2Inv, H2!DataReceived
    PROVE  H2!Http2Inv'
  <1> USE DEF H2!Http2Inv, H2!Http2TypeOK, H2!DataReceived, H2!ConnTypeOK,
              H2!CycleTypeOK, H2!TaskTypeOK
  <1>1. H2!ConnTypeOK'
    OBVIOUS
  <1>2. H2!CycleTypeOK' /\ H2!TaskTypeOK'
    OBVIOUS
  <1>3. H2!StreamsInv'
    BY DEF H2!StreamsInv
  <1>4. H2!CountedOnce'
    <2>1. Ended' = Ended /\ UNCHANGED totalRequests
      BY DEF Ended
    <2> QED BY <2>1, CountStays
  <1>5. H2!IdleIsTimed' /\ H2!NoStreamLeftOpen'
    BY DEF H2!IdleIsTimed, H2!NoStreamLeftOpen
  <1>6. H2!NoLostWakeup'
    BY DEF H2!NoLostWakeup
  <1> QED BY <1>1, <1>2, <1>3, <1>4, <1>5, <1>6

\* FeedDone: the events are handled, and an idle connection is timed again.
LEMMA Http2FeedDone ==
    ASSUME H2!Http2Inv, H2!FeedDone
    PROVE  H2!Http2Inv'
  <1> USE DEF H2!Http2Inv, H2!Http2TypeOK, H2!FeedDone, H2!Write, H2!ConnTypeOK,
              H2!CycleTypeOK, H2!TaskTypeOK
  <1>1. H2!ConnTypeOK'
    OBVIOUS
  <1>2. H2!CycleTypeOK' /\ H2!TaskTypeOK'
    OBVIOUS
  <1>3. H2!StreamsInv'
    BY DEF H2!StreamsInv
  <1>4. H2!CountedOnce'
    <2>1. Ended' = Ended /\ UNCHANGED totalRequests
      BY DEF Ended
    <2> QED BY <2>1, CountStays
  <1>5. H2!IdleIsTimed' /\ H2!NoStreamLeftOpen'
    BY DEF H2!IdleIsTimed, H2!NoStreamLeftOpen
  <1>6. H2!NoLostWakeup'
    BY DEF H2!NoLostWakeup
  <1> QED BY <1>1, <1>2, <1>3, <1>4, <1>5, <1>6

\* FeedFails: the transport closes.
LEMMA Http2FeedFails ==
    ASSUME H2!Http2Inv, H2!FeedFails
    PROVE  H2!Http2Inv'
  <1> USE DEF H2!Http2Inv, H2!Http2TypeOK, H2!FeedFails, H2!Write, H2!Closed,
              H2!ConnTypeOK, H2!CycleTypeOK, H2!TaskTypeOK
  <1>1. H2!ConnTypeOK'
    OBVIOUS
  <1>2. H2!CycleTypeOK' /\ H2!TaskTypeOK'
    OBVIOUS
  <1>3. H2!StreamsInv'
    BY DEF H2!StreamsInv
  <1>4. H2!CountedOnce'
    <2>1. Ended' = Ended /\ UNCHANGED totalRequests
      BY DEF Ended
    <2> QED BY <2>1, CountStays
  <1>5. H2!IdleIsTimed' /\ H2!NoStreamLeftOpen'
    BY DEF H2!IdleIsTimed, H2!NoStreamLeftOpen
  <1>6. H2!NoLostWakeup'
    BY DEF H2!NoLostWakeup
  <1> QED BY <1>1, <1>2, <1>3, <1>4, <1>5, <1>6

\* HandleRequest(over): a stream in progress, with its task.
LEMMA Http2HandleRequest ==
    ASSUME H2!Http2Inv, NEW over \in BOOLEAN, H2!HandleRequest(over)
    PROVE  H2!Http2Inv'
  <1> USE DEF H2!Http2Inv, H2!Http2TypeOK, H2!HandleRequest, H2!ConnTypeOK,
              H2!CycleTypeOK, H2!TaskTypeOK
  <1>1. H2!ConnTypeOK'
    OBVIOUS
  <1>2. H2!CycleTypeOK' /\ H2!TaskTypeOK'
    OBVIOUS
  <1>3. H2!StreamsInv'
    BY DEF H2!StreamsInv
  <1>4. H2!CountedOnce'
    <2>1. Ended' = Ended /\ UNCHANGED totalRequests
      BY DEF Ended, H2!StreamsInv
    <2> QED BY <2>1, CountStays
  <1>5. H2!IdleIsTimed' /\ H2!NoStreamLeftOpen'
    BY DEF H2!IdleIsTimed, H2!NoStreamLeftOpen
  <1>6. H2!NoLostWakeup'
    BY DEF H2!NoLostWakeup
  <1> QED BY <1>1, <1>2, <1>3, <1>4, <1>5, <1>6

\* HandleData(s): a frame for a stream in progress sets its event.
LEMMA Http2HandleData ==
    ASSUME H2!Http2Inv, NEW s \in H2!Requests, H2!HandleData(s)
    PROVE  H2!Http2Inv'
  <1> USE DEF H2!Http2Inv, H2!Http2TypeOK, H2!HandleData, H2!ConnTypeOK,
              H2!CycleTypeOK, H2!TaskTypeOK
  <1>1. H2!ConnTypeOK'
    OBVIOUS
  <1>2. H2!CycleTypeOK' /\ H2!TaskTypeOK'
    OBVIOUS
  <1>3. H2!StreamsInv'
    BY DEF H2!StreamsInv
  <1>4. H2!CountedOnce'
    <2>1. Ended' = Ended /\ UNCHANGED totalRequests
      BY DEF Ended
    <2> QED BY <2>1, CountStays
  <1>5. H2!IdleIsTimed' /\ H2!NoStreamLeftOpen'
    BY DEF H2!IdleIsTimed, H2!NoStreamLeftOpen
  <1>6. H2!NoLostWakeup'
    BY DEF H2!NoLostWakeup
  <1> QED BY <1>1, <1>2, <1>3, <1>4, <1>5, <1>6

\* HandleEndOfMessage(s): so does the end of its request.
LEMMA Http2HandleEndOfMessage ==
    ASSUME H2!Http2Inv, NEW s \in H2!Requests, H2!HandleEndOfMessage(s)
    PROVE  H2!Http2Inv'
  <1> USE DEF H2!Http2Inv, H2!Http2TypeOK, H2!HandleEndOfMessage, H2!ConnTypeOK,
              H2!CycleTypeOK, H2!TaskTypeOK
  <1>1. H2!ConnTypeOK'
    OBVIOUS
  <1>2. H2!CycleTypeOK' /\ H2!TaskTypeOK'
    OBVIOUS
  <1>3. H2!StreamsInv'
    BY DEF H2!StreamsInv
  <1>4. H2!CountedOnce'
    <2>1. Ended' = Ended /\ UNCHANGED totalRequests
      BY DEF Ended
    <2> QED BY <2>1, CountStays
  <1>5. H2!IdleIsTimed' /\ H2!NoStreamLeftOpen'
    BY DEF H2!IdleIsTimed, H2!NoStreamLeftOpen
  <1>6. H2!NoLostWakeup'
    BY DEF H2!NoLostWakeup
  <1> QED BY <1>1, <1>2, <1>3, <1>4, <1>5, <1>6

\* HandleRstStream(s): a stream is reset, and its connection may become idle.
LEMMA Http2HandleRstStream ==
    ASSUME H2!Http2Inv, NEW s \in H2!Requests, H2!HandleRstStream(s)
    PROVE  H2!Http2Inv'
  <1> USE DEF H2!Http2Inv, H2!Http2TypeOK, H2!HandleRstStream, H2!OnStreamClosed,
              H2!ConnTypeOK, H2!CycleTypeOK, H2!TaskTypeOK
  <1>1. H2!ConnTypeOK'
    OBVIOUS
  <1>2. H2!CycleTypeOK' /\ H2!TaskTypeOK'
    OBVIOUS
  <1>3. H2!StreamsInv'
    BY DEF H2!StreamsInv
  <1>4. H2!CountedOnce'
    <2>1. Ended' = Ended /\ UNCHANGED totalRequests
      BY DEF Ended, H2!StreamsInv
    <2> QED BY <2>1, CountStays
  <1>5. H2!IdleIsTimed' /\ H2!NoStreamLeftOpen'
    BY DEF H2!IdleIsTimed, H2!NoStreamLeftOpen
  <1>6. H2!NoLostWakeup'
    BY DEF H2!NoLostWakeup
  <1> QED BY <1>1, <1>2, <1>3, <1>4, <1>5, <1>6

\* HandleGoAway: the client drains the connection.
LEMMA Http2HandleGoAway ==
    ASSUME H2!Http2Inv, H2!HandleGoAway
    PROVE  H2!Http2Inv'
  <1> USE DEF H2!Http2Inv, H2!Http2TypeOK, H2!HandleGoAway, H2!Closed, H2!ConnTypeOK,
              H2!CycleTypeOK, H2!TaskTypeOK
  <1>1. H2!ConnTypeOK'
    OBVIOUS
  <1>2. H2!CycleTypeOK' /\ H2!TaskTypeOK'
    OBVIOUS
  <1>3. H2!StreamsInv'
    BY DEF H2!StreamsInv
  <1>4. H2!CountedOnce'
    <2>1. Ended' = Ended /\ UNCHANGED totalRequests
      BY DEF Ended
    <2> QED BY <2>1, CountStays
  <1>5. H2!IdleIsTimed' /\ H2!NoStreamLeftOpen'
    BY DEF H2!IdleIsTimed, H2!NoStreamLeftOpen
  <1>6. H2!NoLostWakeup'
    BY DEF H2!NoLostWakeup
  <1> QED BY <1>1, <1>2, <1>3, <1>4, <1>5, <1>6

\* ReceiveReturns(s): receive() has something to return at once.
LEMMA Http2ReceiveReturns ==
    ASSUME H2!Http2Inv, NEW s \in H2!Requests, H2!ReceiveReturns(s)
    PROVE  H2!Http2Inv'
  <1> USE DEF H2!Http2Inv, H2!Http2TypeOK, H2!ReceiveReturns, H2!TakeBody,
              H2!ConnTypeOK, H2!CycleTypeOK, H2!TaskTypeOK
  <1>1. H2!ConnTypeOK'
    OBVIOUS
  <1>2. H2!CycleTypeOK' /\ H2!TaskTypeOK'
    OBVIOUS
  <1>3. H2!StreamsInv'
    BY DEF H2!StreamsInv
  <1>4. H2!CountedOnce'
    <2>1. Ended' = Ended /\ UNCHANGED totalRequests
      BY DEF Ended
    <2> QED BY <2>1, CountStays
  <1>5. H2!IdleIsTimed' /\ H2!NoStreamLeftOpen'
    BY DEF H2!IdleIsTimed, H2!NoStreamLeftOpen
  <1>6. H2!NoLostWakeup'
    BY DEF H2!NoLostWakeup
  <1> QED BY <1>1, <1>2, <1>3, <1>4, <1>5, <1>6

\* ReceiveWaits(s): receive() waits for its event.
LEMMA Http2ReceiveWaits ==
    ASSUME H2!Http2Inv, NEW s \in H2!Requests, H2!ReceiveWaits(s)
    PROVE  H2!Http2Inv'
  <1> USE DEF H2!Http2Inv, H2!Http2TypeOK, H2!ReceiveWaits, H2!ConnTypeOK,
              H2!CycleTypeOK, H2!TaskTypeOK
  <1>1. H2!ConnTypeOK'
    OBVIOUS
  <1>2. H2!CycleTypeOK' /\ H2!TaskTypeOK'
    OBVIOUS
  <1>3. H2!StreamsInv'
    BY DEF H2!StreamsInv
  <1>4. H2!CountedOnce'
    <2>1. Ended' = Ended /\ UNCHANGED totalRequests
      BY DEF Ended
    <2> QED BY <2>1, CountStays
  <1>5. H2!IdleIsTimed' /\ H2!NoStreamLeftOpen'
    BY DEF H2!IdleIsTimed, H2!NoStreamLeftOpen
  <1>6. H2!NoLostWakeup'
    BY DEF H2!NoLostWakeup, H2!StreamsInv
  <1> QED BY <1>1, <1>2, <1>3, <1>4, <1>5, <1>6

\* ReceiveWakes(s): receive() takes what was set for it.
LEMMA Http2ReceiveWakes ==
    ASSUME H2!Http2Inv, NEW s \in H2!Requests, H2!ReceiveWakes(s)
    PROVE  H2!Http2Inv'
  <1> USE DEF H2!Http2Inv, H2!Http2TypeOK, H2!ReceiveWakes, H2!TakeBody,
              H2!ConnTypeOK, H2!CycleTypeOK, H2!TaskTypeOK
  <1>1. H2!ConnTypeOK'
    OBVIOUS
  <1>2. H2!CycleTypeOK' /\ H2!TaskTypeOK'
    OBVIOUS
  <1>3. H2!StreamsInv'
    BY DEF H2!StreamsInv
  <1>4. H2!CountedOnce'
    <2>1. Ended' = Ended /\ UNCHANGED totalRequests
      BY DEF Ended
    <2> QED BY <2>1, CountStays
  <1>5. H2!IdleIsTimed' /\ H2!NoStreamLeftOpen'
    BY DEF H2!IdleIsTimed, H2!NoStreamLeftOpen
  <1>6. H2!NoLostWakeup'
    BY DEF H2!NoLostWakeup
  <1> QED BY <1>1, <1>2, <1>3, <1>4, <1>5, <1>6

\* SendStart(s): a response is begun.
LEMMA Http2SendStart ==
    ASSUME H2!Http2Inv, NEW s \in H2!Requests, H2!SendStart(s), Streams(s, "start"),
           ~disconnected[s]
    PROVE  H2!Http2Inv'
  <1> USE DEF H2!Http2Inv, H2!Http2TypeOK, H2!SendStart, H2!Write, H2!Offers, Streams,
              H2!ConnTypeOK, H2!CycleTypeOK, H2!TaskTypeOK
  <1>1. H2!ConnTypeOK'
    OBVIOUS
  <1>2. H2!CycleTypeOK' /\ H2!TaskTypeOK'
    OBVIOUS
  <1>3. H2!StreamsInv'
    BY DEF H2!StreamsInv
  <1>4. H2!CountedOnce'
    <2>1. Ended' = Ended /\ UNCHANGED totalRequests
      BY DEF Ended
    <2> QED BY <2>1, CountStays
  <1>5. H2!IdleIsTimed' /\ H2!NoStreamLeftOpen'
    BY DEF H2!IdleIsTimed, H2!NoStreamLeftOpen
  <1>6. H2!NoLostWakeup'
    BY DEF H2!NoLostWakeup
  <1> QED BY <1>1, <1>2, <1>3, <1>4, <1>5, <1>6

\* SendLast(s): a stream is answered, counted and forgotten.
LEMMA Http2SendLast ==
    ASSUME H2!Http2Inv, NEW s \in H2!Requests, H2!SendLast(s), Streams(s, "last"),
           ~disconnected[s]
    PROVE  H2!Http2Inv'
  <1> USE DEF H2!Http2Inv, H2!Http2TypeOK, H2!SendLast, H2!OnResponseComplete,
              H2!OnStreamClosed, H2!Write, H2!Offers, Streams, H2!ConnTypeOK,
              H2!CycleTypeOK, H2!TaskTypeOK
  <1>1. H2!ConnTypeOK'
    <2>1. transport' \in {"open", "closing", "lost"} /\ timer' \in BOOLEAN
      OBVIOUS
    <2>2. totalRequests' \in Nat
      OBVIOUS
    <2>3. writePaused' \in BOOLEAN
      OBVIOUS
    <2> QED BY <2>1, <2>2, <2>3
  <1>2. H2!CycleTypeOK' /\ H2!TaskTypeOK'
    OBVIOUS
  <1>3. H2!StreamsInv'
    BY DEF H2!StreamsInv
  <1>4. H2!CountedOnce'
    <2>1. s \notin Ended /\ Ended' = Ended \cup {s}
      BY DEF Ended, H2!StreamsInv
    <2>2. totalRequests' = totalRequests + 1
      OBVIOUS
    <2> QED BY <2>1, <2>2, CountGrows
  <1>5. H2!IdleIsTimed' /\ H2!NoStreamLeftOpen'
    BY DEF H2!IdleIsTimed, H2!NoStreamLeftOpen
  <1>6. H2!NoLostWakeup'
    BY DEF H2!NoLostWakeup
  <1> QED BY <1>1, <1>2, <1>3, <1>4, <1>5, <1>6

\* EndRefused(s): the end of a stream is refused, with the response taken for complete.
LEMMA Http2EndRefused ==
    ASSUME H2!Http2Inv, NEW s \in H2!Requests, H2!EndRefused(s), Streams(s, "last"),
           ~disconnected[s]
    PROVE  H2!Http2Inv'
  <1> USE DEF H2!Http2Inv, H2!Http2TypeOK, H2!EndRefused, H2!Offers, Streams,
              H2!ConnTypeOK, H2!CycleTypeOK, H2!TaskTypeOK
  <1>1. H2!ConnTypeOK'
    OBVIOUS
  <1>2. H2!CycleTypeOK' /\ H2!TaskTypeOK'
    OBVIOUS
  <1>3. H2!StreamsInv'
    BY DEF H2!StreamsInv
  <1>4. H2!CountedOnce'
    <2>1. Ended' = Ended /\ UNCHANGED totalRequests
      BY DEF Ended
    <2> QED BY <2>1, CountStays
  <1>5. H2!IdleIsTimed' /\ H2!NoStreamLeftOpen'
    BY DEF H2!IdleIsTimed, H2!NoStreamLeftOpen
  <1>6. H2!NoLostWakeup'
    BY DEF H2!NoLostWakeup
  <1> QED BY <1>1, <1>2, <1>3, <1>4, <1>5, <1>6

\* SendOther(s, m): a part of the body, or a message that raises.
LEMMA Http2SendOther ==
    ASSUME H2!Http2Inv, NEW s \in H2!Requests, NEW m \in H2!Messages,
           H2!SendOther(s, m), Streams(s, m), ~disconnected[s]
    PROVE  H2!Http2Inv'
  <1> USE DEF H2!Http2Inv, H2!Http2TypeOK, H2!SendOther, H2!Write, H2!Offers, Streams,
              H2!ConnTypeOK, H2!CycleTypeOK, H2!TaskTypeOK
  <1>1. H2!ConnTypeOK'
    OBVIOUS
  <1>2. H2!CycleTypeOK' /\ H2!TaskTypeOK'
    OBVIOUS
  <1>3. H2!StreamsInv'
    BY DEF H2!StreamsInv
  <1>4. H2!CountedOnce'
    <2>1. Ended' = Ended /\ UNCHANGED totalRequests
      BY DEF Ended
    <2> QED BY <2>1, CountStays
  <1>5. H2!IdleIsTimed' /\ H2!NoStreamLeftOpen'
    BY DEF H2!IdleIsTimed, H2!NoStreamLeftOpen
  <1>6. H2!NoLostWakeup'
    BY DEF H2!NoLostWakeup
  <1> QED BY <1>1, <1>2, <1>3, <1>4, <1>5, <1>6

\* SendNothing(s, m): a disconnected stream ends with its canned response.
LEMMA Http2SendNothing ==
    ASSUME H2!Http2Inv, NEW s \in H2!Requests, NEW m \in H2!Messages,
           H2!SendNothing(s, m), Streams(s, m), disconnected[s]
    PROVE  H2!Http2Inv'
  <1> USE DEF H2!Http2Inv, H2!Http2TypeOK, H2!SendNothing, H2!OnResponseComplete,
              H2!OnStreamClosed, H2!Offers, Streams, H2!ConnTypeOK, H2!CycleTypeOK,
              H2!TaskTypeOK
  <1>1. H2!ConnTypeOK'
    <2>1. transport' \in {"open", "closing", "lost"} /\ timer' \in BOOLEAN
      OBVIOUS
    <2>2. totalRequests' \in Nat
      OBVIOUS
    <2>3. writePaused' \in BOOLEAN
      OBVIOUS
    <2> QED BY <2>1, <2>2, <2>3
  <1>2. H2!CycleTypeOK' /\ H2!TaskTypeOK'
    OBVIOUS
  <1>3. H2!StreamsInv'
    BY DEF H2!StreamsInv
  <1>4. H2!CountedOnce'
    <2>1. CASE task[s] = "cannedBody"
      <3>1. s \notin Ended /\ Ended' = Ended \cup {s}
        BY <2>1 DEF Ended, H2!StreamsInv
      <3>2. totalRequests' = totalRequests + 1
        BY <2>1
      <3> QED BY <3>1, <3>2, CountGrows
    <2>2. CASE task[s] # "cannedBody"
      <3>1. Ended' = Ended /\ UNCHANGED totalRequests
        BY <2>2 DEF Ended
      <3> QED BY <3>1, CountStays
    <2> QED BY <2>1, <2>2
  <1>5. H2!IdleIsTimed' /\ H2!NoStreamLeftOpen'
    BY DEF H2!IdleIsTimed, H2!NoStreamLeftOpen, H2!StreamsInv
  <1>6. H2!NoLostWakeup'
    BY DEF H2!NoLostWakeup
  <1> QED BY <1>1, <1>2, <1>3, <1>4, <1>5, <1>6

\* SendWaits(s): send() waits in drain().
LEMMA Http2SendWaits ==
    ASSUME H2!Http2Inv, NEW s \in H2!Requests, H2!SendWaits(s)
    PROVE  H2!Http2Inv'
  <1> USE DEF H2!Http2Inv, H2!Http2TypeOK, H2!SendWaits, H2!ConnTypeOK,
              H2!CycleTypeOK, H2!TaskTypeOK
  <1>1. H2!ConnTypeOK'
    OBVIOUS
  <1>2. H2!CycleTypeOK' /\ H2!TaskTypeOK'
    OBVIOUS
  <1>3. H2!StreamsInv'
    BY DEF H2!StreamsInv
  <1>4. H2!CountedOnce'
    <2>1. Ended' = Ended /\ UNCHANGED totalRequests
      BY DEF Ended
    <2> QED BY <2>1, CountStays
  <1>5. H2!IdleIsTimed' /\ H2!NoStreamLeftOpen'
    BY DEF H2!IdleIsTimed, H2!NoStreamLeftOpen
  <1>6. H2!NoLostWakeup'
    BY DEF H2!NoLostWakeup, H2!StreamsInv
  <1> QED BY <1>1, <1>2, <1>3, <1>4, <1>5, <1>6

\* AppEnds(s, "500"): an application that ends without an answer goes on to the 500.
LEMMA Http2AppGets500 ==
    ASSUME H2!Http2Inv, NEW s \in H2!Requests, H2!AppEnds(s, "500"), ~started[s]
    PROVE  H2!Http2Inv'
  <1> USE DEF H2!Http2Inv, H2!Http2TypeOK, H2!AppEnds, H2!ConnTypeOK, H2!CycleTypeOK,
              H2!TaskTypeOK
  <1>1. H2!ConnTypeOK'
    OBVIOUS
  <1>2. H2!CycleTypeOK' /\ H2!TaskTypeOK'
    OBVIOUS
  <1>3. H2!StreamsInv'
    BY DEF H2!StreamsInv
  <1>4. H2!CountedOnce'
    <2>1. Ended' = Ended /\ UNCHANGED totalRequests
      BY DEF Ended
    <2> QED BY <2>1, CountStays
  <1>5. H2!IdleIsTimed' /\ H2!NoStreamLeftOpen'
    BY DEF H2!IdleIsTimed, H2!NoStreamLeftOpen
  <1>6. H2!NoLostWakeup'
    BY DEF H2!NoLostWakeup
  <1> QED BY <1>1, <1>2, <1>3, <1>4, <1>5, <1>6

\* AppEnds(s, "abort"): one that ends in the middle of it resets its stream.
LEMMA Http2AppAborts ==
    ASSUME H2!Http2Inv, NEW s \in H2!Requests, H2!AppEnds(s, "abort")
    PROVE  H2!Http2Inv'
  <1> USE DEF H2!Http2Inv, H2!Http2TypeOK, H2!AppEnds, H2!Abandon, H2!AbortStream,
              H2!OnTaskEnd, H2!OnResponseComplete, H2!OnStreamClosed, H2!Write,
              H2!ConnTypeOK, H2!CycleTypeOK, H2!TaskTypeOK
  <1>1. H2!ConnTypeOK'
    <2>1. transport' \in {"open", "closing", "lost"} /\ timer' \in BOOLEAN
      OBVIOUS
    <2>2. totalRequests' \in Nat
      OBVIOUS
    <2>3. writePaused' \in BOOLEAN
      OBVIOUS
    <2> QED BY <2>1, <2>2, <2>3
  <1>2. H2!CycleTypeOK' /\ H2!TaskTypeOK'
    OBVIOUS
  <1>3. H2!StreamsInv'
    <2>1. UNCHANGED <<listed, inFeed, heard, told, cycle, body, event, started, complete>>
      OBVIOUS
    <2>2. /\ task' = [task EXCEPT ![s] = "done"]
          /\ receiving' = [receiving EXCEPT ![s] = "no"]
      OBVIOUS
    <2>3. IF H2!Answered(s) THEN UNCHANGED <<cycles, transport>> ELSE cycles' = cycles \ {s}
      OBVIOUS
    <2>4. /\ transport' = "open" => transport = "open"
          /\ transport' = "open" /\ told /\ ~H2!Answered(s) => cycles' # {}
      OBVIOUS
    <2>5. IF transport = "open"
            THEN /\ wire' = [wire EXCEPT ![s] = "reset"]
                 /\ disconnected' = [disconnected EXCEPT ![s] = TRUE]
            ELSE UNCHANGED <<wire, disconnected>>
      OBVIOUS
    <2>6. task[s] = "running"
      OBVIOUS
    <2>7. transport' = "lost" => ~writePaused'
      BY DEF H2!StreamsInv
    <2> HIDE DEF H2!AppEnds
    <2> QED BY <2>1, <2>2, <2>3, <2>4, <2>5, <2>6, <2>7 DEF H2!StreamsInv
  <1>4. H2!CountedOnce'
    <2>1. CASE ~H2!Answered(s)
      <3>1. s \notin Ended /\ Ended' = Ended \cup {s}
        BY <2>1 DEF Ended
      <3>2. totalRequests' = totalRequests + 1
        BY <2>1
      <3> QED BY <3>1, <3>2, CountGrows
    <2>2. CASE H2!Answered(s)
      <3>1. Ended' = Ended /\ UNCHANGED totalRequests
        BY <2>2 DEF Ended
      <3> QED BY <3>1, CountStays
    <2> QED BY <2>1, <2>2
  <1>5. H2!IdleIsTimed' /\ H2!NoStreamLeftOpen'
    BY DEF H2!IdleIsTimed, H2!NoStreamLeftOpen
  <1>6. H2!NoLostWakeup'
    BY DEF H2!NoLostWakeup
  <1> QED BY <1>1, <1>2, <1>3, <1>4, <1>5, <1>6

\* AppEnds(s, "end"): and one whose stream is over leaves it as it is.
LEMMA Http2AppEnds ==
    ASSUME H2!Http2Inv, NEW s \in H2!Requests, H2!AppEnds(s, "end"),
           disconnected[s] \/ complete[s]
    PROVE  H2!Http2Inv'
  <1> USE DEF H2!Http2Inv, H2!Http2TypeOK, H2!AppEnds, H2!OnTaskEnd,
              H2!OnResponseComplete, H2!OnStreamClosed, H2!ConnTypeOK, H2!CycleTypeOK,
              H2!TaskTypeOK
  <1>1. H2!ConnTypeOK'
    <2>1. transport' \in {"open", "closing", "lost"} /\ timer' \in BOOLEAN
      OBVIOUS
    <2>2. totalRequests' \in Nat
      OBVIOUS
    <2>3. writePaused' \in BOOLEAN
      OBVIOUS
    <2> QED BY <2>1, <2>2, <2>3
  <1>2. H2!CycleTypeOK' /\ H2!TaskTypeOK'
    OBVIOUS
  <1>3. H2!StreamsInv'
    BY DEF H2!StreamsInv
  <1>4. H2!CountedOnce'
    <2>1. CASE ~H2!Answered(s)
      <3>1. s \notin Ended /\ Ended' = Ended \cup {s}
        BY <2>1 DEF Ended
      <3>2. totalRequests' = totalRequests + 1
        BY <2>1
      <3> QED BY <3>1, <3>2, CountGrows
    <2>2. CASE H2!Answered(s)
      <3>1. Ended' = Ended /\ UNCHANGED totalRequests
        BY <2>2 DEF Ended
      <3> QED BY <3>1, CountStays
    <2> QED BY <2>1, <2>2
  <1>5. H2!IdleIsTimed' /\ H2!NoStreamLeftOpen'
    BY DEF H2!IdleIsTimed, H2!NoStreamLeftOpen, H2!StreamsInv
  <1>6. H2!NoLostWakeup'
    BY DEF H2!NoLostWakeup
  <1> QED BY <1>1, <1>2, <1>3, <1>4, <1>5, <1>6

\* KeepAliveTimeout: the timer closes the transport.
LEMMA Http2KeepAliveTimeout ==
    ASSUME H2!Http2Inv, H2!KeepAliveTimeout
    PROVE  H2!Http2Inv'
  <1> USE DEF H2!Http2Inv, H2!Http2TypeOK, H2!KeepAliveTimeout, H2!Closed,
              H2!ConnTypeOK, H2!CycleTypeOK, H2!TaskTypeOK
  <1>1. H2!ConnTypeOK'
    OBVIOUS
  <1>2. H2!CycleTypeOK' /\ H2!TaskTypeOK'
    OBVIOUS
  <1>3. H2!StreamsInv'
    BY DEF H2!StreamsInv
  <1>4. H2!CountedOnce'
    <2>1. Ended' = Ended /\ UNCHANGED totalRequests
      BY DEF Ended
    <2> QED BY <2>1, CountStays
  <1>5. H2!IdleIsTimed' /\ H2!NoStreamLeftOpen'
    BY DEF H2!IdleIsTimed, H2!NoStreamLeftOpen
  <1>6. H2!NoLostWakeup'
    BY DEF H2!NoLostWakeup
  <1> QED BY <1>1, <1>2, <1>3, <1>4, <1>5, <1>6

\* TransportEnds: the transport dies, or the peer half-closes.
LEMMA Http2TransportEnds ==
    ASSUME H2!Http2Inv, H2!TransportEnds
    PROVE  H2!Http2Inv'
  <1> USE DEF H2!Http2Inv, H2!Http2TypeOK, H2!TransportEnds, H2!ConnTypeOK,
              H2!CycleTypeOK, H2!TaskTypeOK
  <1>1. H2!ConnTypeOK'
    OBVIOUS
  <1>2. H2!CycleTypeOK' /\ H2!TaskTypeOK'
    OBVIOUS
  <1>3. H2!StreamsInv'
    BY DEF H2!StreamsInv
  <1>4. H2!CountedOnce'
    <2>1. Ended' = Ended /\ UNCHANGED totalRequests
      BY DEF Ended
    <2> QED BY <2>1, CountStays
  <1>5. H2!IdleIsTimed' /\ H2!NoStreamLeftOpen'
    BY DEF H2!IdleIsTimed, H2!NoStreamLeftOpen
  <1>6. H2!NoLostWakeup'
    BY DEF H2!NoLostWakeup
  <1> QED BY <1>1, <1>2, <1>3, <1>4, <1>5, <1>6

\* ConnectionLost: every stream in progress is told, and everyone in drain().
LEMMA Http2ConnectionLost ==
    ASSUME H2!Http2Inv, H2!ConnectionLost
    PROVE  H2!Http2Inv'
  <1> USE DEF H2!Http2Inv, H2!Http2TypeOK, H2!ConnectionLost, H2!WakeSenders,
              H2!ConnTypeOK, H2!CycleTypeOK, H2!TaskTypeOK
  <1>1. H2!ConnTypeOK'
    OBVIOUS
  <1>2. H2!CycleTypeOK' /\ H2!TaskTypeOK'
    OBVIOUS
  <1>3. H2!StreamsInv'
    BY DEF H2!StreamsInv
  <1>4. H2!CountedOnce'
    <2>1. Ended' = Ended /\ UNCHANGED totalRequests
      BY DEF Ended
    <2> QED BY <2>1, CountStays
  <1>5. H2!IdleIsTimed' /\ H2!NoStreamLeftOpen'
    BY DEF H2!IdleIsTimed, H2!NoStreamLeftOpen
  <1>6. H2!NoLostWakeup'
    BY DEF H2!NoLostWakeup
  <1> QED BY <1>1, <1>2, <1>3, <1>4, <1>5, <1>6

\* ResumeWriting: everyone in drain() is woken.
LEMMA Http2ResumeWriting ==
    ASSUME H2!Http2Inv, H2!ResumeWriting
    PROVE  H2!Http2Inv'
  <1> USE DEF H2!Http2Inv, H2!Http2TypeOK, H2!ResumeWriting, H2!WakeSenders,
              H2!ConnTypeOK, H2!CycleTypeOK, H2!TaskTypeOK
  <1>1. H2!ConnTypeOK'
    OBVIOUS
  <1>2. H2!CycleTypeOK' /\ H2!TaskTypeOK'
    OBVIOUS
  <1>3. H2!StreamsInv'
    BY DEF H2!StreamsInv
  <1>4. H2!CountedOnce'
    <2>1. Ended' = Ended /\ UNCHANGED totalRequests
      BY DEF Ended
    <2> QED BY <2>1, CountStays
  <1>5. H2!IdleIsTimed' /\ H2!NoStreamLeftOpen'
    BY DEF H2!IdleIsTimed, H2!NoStreamLeftOpen
  <1>6. H2!NoLostWakeup'
    BY DEF H2!NoLostWakeup
  <1> QED BY <1>1, <1>2, <1>3, <1>4, <1>5, <1>6

\* Shutdown: an idle connection closes; a busy one waits for its streams.
LEMMA Http2Shutdown ==
    ASSUME H2!Http2Inv, H2!Shutdown
    PROVE  H2!Http2Inv'
  <1> USE DEF H2!Http2Inv, H2!Http2TypeOK, H2!Shutdown, H2!Closed, H2!ConnTypeOK,
              H2!CycleTypeOK, H2!TaskTypeOK
  <1>1. H2!ConnTypeOK'
    OBVIOUS
  <1>2. H2!CycleTypeOK' /\ H2!TaskTypeOK'
    OBVIOUS
  <1>3. H2!StreamsInv'
    BY DEF H2!StreamsInv
  <1>4. H2!CountedOnce'
    <2>1. Ended' = Ended /\ UNCHANGED totalRequests
      BY DEF Ended
    <2> QED BY <2>1, CountStays
  <1>5. H2!IdleIsTimed' /\ H2!NoStreamLeftOpen'
    BY DEF H2!IdleIsTimed, H2!NoStreamLeftOpen
  <1>6. H2!NoLostWakeup'
    BY DEF H2!NoLostWakeup
  <1> QED BY <1>1, <1>2, <1>3, <1>4, <1>5, <1>6

\* A send() that goes on, from its drain or past it.
LEMMA Http2Transmits ==
    ASSUME H2!Http2Inv, NEW s \in H2!Requests, NEW m \in H2!Messages,
           H2!Send(s, m) \/ H2!SendWakes(s, m)
    PROVE  /\ Streams(s, m)
           /\ IF disconnected[s]
                THEN H2!SendNothing(s, m)
                ELSE \/ m = "start" /\ H2!SendStart(s)
                     \/ m = "last" /\ (H2!SendLast(s) \/ H2!EndRefused(s))
                     \/ H2!SendOther(s, m)
  <1> USE DEF H2!Http2Inv, H2!Http2TypeOK, H2!TaskTypeOK, H2!Transmit, Streams
  <1>1. CASE H2!Send(s, m)
    BY <1>1 DEF H2!Send
  <1>2. CASE H2!SendWakes(s, m)
    BY <1>2 DEF H2!SendWakes
  <1> QED BY <1>1, <1>2

\* The initial state of the connection.
LEMMA Http2Init == H2!Init => H2!Http2Inv
  <1> SUFFICES ASSUME H2!Init PROVE H2!Http2Inv
    OBVIOUS
  <1> USE DEF H2!Init, H2!All
  <1>1. H2!ConnTypeOK
    BY DEF H2!ConnTypeOK
  <1>2. H2!CycleTypeOK
    <2>1. \A b \in BOOLEAN : H2!All(b) \in [H2!Requests -> BOOLEAN]
      OBVIOUS
    <2>2. H2!All(0) \in [H2!Requests -> Nat]
      OBVIOUS
    <2>3. H2!All("open") \in [H2!Requests -> {"open", "ended", "reset"}]
      OBVIOUS
    <2>4. cycle \in 0 .. NumRequests
      OBVIOUS
    <2> HIDE DEF H2!All
    <2> QED BY <2>1, <2>2, <2>3, <2>4 DEF H2!CycleTypeOK
  <1>3. H2!TaskTypeOK
    BY DEF H2!TaskTypeOK
  <1>4. H2!StreamsInv
    BY DEF H2!StreamsInv
  <1>5. H2!CountedOnce
    <2>1. {s \in H2!Requests : H2!Answered(s) \/ task[s] = "done"} = {} /\ totalRequests = 0
      OBVIOUS
    <2>2. H2!Cardinality({}) = 0
      BY FS_EmptySet DEF Cardinality, H2!Cardinality
    <2> QED BY <2>1, <2>2 DEF H2!CountedOnce
  <1>6. H2!IdleIsTimed /\ H2!NoLostWakeup /\ H2!NoStreamLeftOpen
    BY DEF H2!IdleIsTimed, H2!NoLostWakeup, H2!NoStreamLeftOpen
  <1> QED BY <1>1, <1>2, <1>3, <1>4, <1>5, <1>6 DEF H2!Http2Inv, H2!Http2TypeOK

\* A message of a stream, whichever it is.
LEMMA Http2Sends ==
    ASSUME H2!Http2Inv, NEW s \in H2!Requests, NEW m \in H2!Messages,
           H2!Send(s, m) \/ H2!SendWakes(s, m)
    PROVE  H2!Http2Inv'
  <1>1. CASE disconnected[s]
    BY <1>1, Http2Transmits, Http2SendNothing
  <1>2. CASE ~disconnected[s] /\ m = "start" /\ H2!SendStart(s)
    <2>1. Streams(s, "start")
      BY <1>2, Http2Transmits
    <2> QED BY <1>2, <2>1, Http2SendStart
  <1>3. CASE ~disconnected[s] /\ m = "last" /\ H2!SendLast(s)
    <2>1. Streams(s, "last")
      BY <1>3, Http2Transmits
    <2> QED BY <1>3, <2>1, Http2SendLast
  <1>4. CASE ~disconnected[s] /\ m = "last" /\ H2!EndRefused(s)
    <2>1. Streams(s, "last")
      BY <1>4, Http2Transmits
    <2> QED BY <1>4, <2>1, Http2EndRefused
  <1>5. CASE ~disconnected[s] /\ H2!SendOther(s, m)
    BY <1>5, Http2Transmits, Http2SendOther
  <1> QED BY <1>1, <1>2, <1>3, <1>4, <1>5, Http2Transmits

\* The end of an application, whichever way: with the 500 response to write
\* only if it began none of its own.
LEMMA Http2TaskEnds ==
    ASSUME H2!Http2Inv, NEW s \in H2!Requests,
           H2!AppRaises(s) \/ H2!AppReturnsValue(s) \/ H2!AppReturns(s)
    PROVE  H2!Http2Inv'
  <1>1. \/ H2!AppEnds(s, "abort")
        \/ H2!AppEnds(s, "500") /\ ~started[s]
        \/ H2!AppEnds(s, "end") /\ (disconnected[s] \/ complete[s])
    BY DEF H2!AppRaises, H2!AppReturnsValue, H2!AppReturns
  <1> QED BY <1>1, Http2AppAborts, Http2AppGets500, Http2AppEnds

\* The invariant is inductive.
LEMMA Http2Step ==
    ASSUME H2!Http2Inv, [H2!Next]_(H2!vars)
    PROVE  H2!Http2Inv'
  <1>1. CASE H2!FrameStep
    <2>1. CASE H2!DataReceived \/ H2!FeedDone \/ H2!FeedFails \/ H2!HandleGoAway
      BY <2>1, Http2DataReceived, Http2FeedDone, Http2FeedFails, Http2HandleGoAway
    <2>2. ASSUME NEW over \in BOOLEAN, H2!HandleRequest(over)
          PROVE  H2!Http2Inv'
      BY <2>2, Http2HandleRequest
    <2>3. ASSUME NEW s \in H2!Requests,
                 H2!HandleData(s) \/ H2!HandleEndOfMessage(s) \/ H2!HandleRstStream(s)
          PROVE  H2!Http2Inv'
      BY <2>3, Http2HandleData, Http2HandleEndOfMessage, Http2HandleRstStream
    <2> QED BY <1>1, <2>1, <2>2, <2>3 DEF H2!FrameStep
  <1>2. ASSUME NEW s \in H2!Requests, H2!AppStep(s)
        PROVE  H2!Http2Inv'
    <2>1. CASE H2!ReceiveReturns(s) \/ H2!ReceiveWaits(s) \/ H2!ReceiveWakes(s)
      BY <2>1, Http2ReceiveReturns, Http2ReceiveWaits, Http2ReceiveWakes
    <2>2. CASE \E m \in H2!Messages : H2!Send(s, m) \/ H2!SendWakes(s, m)
      BY <2>2, Http2Sends
    <2>3. CASE H2!SendWaits(s)
      BY <2>3, Http2SendWaits
    <2>4. CASE H2!AppRaises(s) \/ H2!AppReturnsValue(s) \/ H2!AppReturns(s)
      BY <2>4, Http2TaskEnds
    <2> QED BY <1>2, <2>1, <2>2, <2>3, <2>4 DEF H2!AppStep
  <1>3. CASE H2!TransportStep
    BY <1>3, Http2KeepAliveTimeout, Http2TransportEnds, Http2ConnectionLost,
       Http2ResumeWriting, Http2Shutdown DEF H2!TransportStep
  <1>4. CASE UNCHANGED H2!vars
    BY <1>4 DEF H2!vars, H2!Http2Inv, H2!Http2TypeOK, H2!ConnTypeOK, H2!CycleTypeOK,
       H2!TaskTypeOK, H2!StreamsInv, H2!CountedOnce, H2!IdleIsTimed, H2!NoLostWakeup,
       H2!NoStreamLeftOpen
  <1> QED BY <1>1, <1>2, <1>3, <1>4 DEF H2!Next

-----------------------------------------------------------------------------
(* Http1 and Http2 by themselves.                                           *)

\* One HTTP/1.1 connection that leaves pipelined requests in its parser keeps
\* the reading side, the timer, what is held back and the drain in order.
THEOREM Http1Safe == H1!Spec => []H1!Http1Inv
  <1>1. H1!Init => H1!Http1Inv
    BY Http1Init
  <1>2. H1!Http1Inv /\ [H1!Next]_(H1!vars) => H1!Http1Inv'
    BY Http1Step
  <1> QED BY <1>1, <1>2, PTL DEF H1!Spec

\* Http1 implements the connection that the Server relies on: from any state it
\* reaches, every step is a step of HttpConnection or changes nothing that the
\* Server or the client can see.
THEOREM Http1ImplementsConnection == H1!Spec => H1!Connection!HSpec
  <1>1. H1!Init => H1!Connection!HInit
    BY Http1StartsConnection
  <1>2. H1!Http1Inv /\ [H1!Next]_(H1!vars)
          => [H1!Connection!HNext]_(H1!Connection!hvars)
    BY Http1Step
  <1> QED BY <1>1, <1>2, Http1Safe, PTL DEF H1!Spec, H1!Connection!HSpec

\* What the contract promises is kept by every connection that keeps to it: no
\* request is worked at ahead of its turn, the oldest has somebody at work, and
\* nothing that was marked as the last leaves the connection open.
THEOREM PromisesKept == H1!Connection!HSpec => []H1!Connection!HPromises
  <1> USE DEF H1!Connection!HTypeOK
  <1>1. H1!Connection!HInit => H1!Connection!HPromises
    BY DEF H1!Connection!HInit, H1!Connection!HPromises
  <1>2. H1!Connection!HPromises /\ [H1!Connection!HNext]_(H1!Connection!hvars)
          => H1!Connection!HPromises'
    <2> SUFFICES ASSUME H1!Connection!HPromises,
                        [H1!Connection!HNext]_(H1!Connection!hvars)
                 PROVE  H1!Connection!HPromises'
      OBVIOUS
    <2> USE DEF H1!Connection!HPromises, H1!Connection!Shut
    <2>1. CASE H1!Connection!Accept
      BY <2>1 DEF H1!Connection!Accept
    <2>2. CASE H1!Connection!Mark
      BY <2>2 DEF H1!Connection!Mark
    <2>3. CASE H1!Connection!Answer
      BY <2>3 DEF H1!Connection!Answer
    <2>4. CASE H1!Connection!Drain
      BY <2>4 DEF H1!Connection!Drain
    <2>5. CASE H1!Connection!Close \/ H1!Connection!Lose
      BY <2>5 DEF H1!Connection!Close, H1!Connection!Lose
    <2>6. ASSUME NEW r \in 1 .. NumRequests, H1!Connection!TaskEnds(r)
          PROVE  H1!Connection!HPromises'
      BY <2>6 DEF H1!Connection!TaskEnds
    <2>7. CASE UNCHANGED H1!Connection!hvars
      BY <2>7 DEF H1!Connection!hvars
    <2>8. CASE H1!Connection!Abandon
      BY <2>8 DEF H1!Connection!Abandon
    <2> QED BY <2>1, <2>2, <2>3, <2>4, <2>5, <2>6, <2>7, <2>8 DEF H1!Connection!HNext
  <1> QED BY <1>1, <1>2, PTL DEF H1!Connection!HSpec

\* So Http1 keeps the contract's promises.
COROLLARY Http1Promises == H1!Spec => []H1!Connection!HPromises
  BY Http1ImplementsConnection, PromisesKept, PTL

\* One HTTP/2 connection ends, counts, times and wakes its streams as it should.
THEOREM Http2Safe == H2!Spec => []H2!Http2Inv
  <1>1. H2!Init => H2!Http2Inv
    BY Http2Init
  <1>2. H2!Http2Inv /\ [H2!Next]_(H2!vars) => H2!Http2Inv'
    BY Http2Step
  <1> QED BY <1>1, <1>2, PTL DEF H2!Spec

-----------------------------------------------------------------------------
(* The choice of the protocol, and the one that was chosen.                 *)

\* The protocol that the transport starts with.
LEMMA AutoInit == Init => AutoInv
  <1> SUFFICES ASSUME Init PROVE AutoInv
    OBVIOUS
  <1>1. H1!Http1Inv
    BY Http1Init DEF Init
  <1>2. H2!Http2Inv
    <2>1. H2!Init
      BY DEF Init, H1!Init, H2!Init, All, Requests, H1!All, H2!All
    <2> QED BY <2>1, Http2Init
  <1>3. ~inFeed /\ ~upgraded /\ ~writePaused /\ cycle = 0
    BY DEF Init, H1!Init
  <1>4. /\ mode \in {"sniffing", "h1", "h2"} /\ timeoutTask = (mode = "sniffing")
    BY DEF Init
  <1> QED BY <1>1, <1>2, <1>3, <1>4 DEF AutoInv, SniffingInv

\* The transport closes, or is lost, before a protocol was chosen.
LEMMA SniffingCloses ==
    ASSUME H1!Http1Inv, H2!Http2Inv, transport' # "open",
           transport' \in {"closing", "lost"}, transport = "lost" => transport' = "lost",
           listed' \in BOOLEAN, told' \in BOOLEAN, ~inFeed,
           ~writePaused, cycle = 0,
           UNCHANGED <<inFeed, only1, only2, rest>>
    PROVE  H1!Http1Inv' /\ H2!Http2Inv'
  <1> USE DEF only1, only2, rest
  <1>1. H1!Http1Inv'
    <2> USE DEF H1!Http1Inv
    <2>1. H1!Http1TypeOK'
      BY DEF H1!Http1TypeOK, H1!ConnTypeOK, H1!FlowTypeOK, H1!LibTypeOK,
         H1!CycleTypeOK, H1!TaskTypeOK
    <2>2. H1!CyclesInv' /\ H1!CountInv' /\ H1!NoLostWakeup'
      BY DEF H1!CyclesInv, H1!CountInv, H1!NoLostWakeup
    <2>3. H1!ExchangeInv' /\ H1!FeedInv' /\ H1!ReadingIsOwned'
      BY DEF H1!ExchangeInv, H1!FeedInv, H1!ReadingIsOwned
    <2>4. H1!HeldHasTurn' /\ H1!TimerBetweenRequests' /\ H1!DrainWillClose'
      BY DEF H1!HeldHasTurn, H1!TimerBetweenRequests, H1!DrainWillClose
    <2> QED BY <2>1, <2>2, <2>3, <2>4
  <1>2. H2!Http2Inv'
    <2> USE DEF H2!Http2Inv
    <2>1. H2!Http2TypeOK'
      BY DEF H2!Http2TypeOK, H2!ConnTypeOK, H2!CycleTypeOK, H2!TaskTypeOK
    <2>2. H2!StreamsInv'
      BY DEF H2!StreamsInv
    <2>3. H2!CountedOnce' /\ H2!NoLostWakeup'
      BY DEF H2!CountedOnce, H2!NoLostWakeup, H2!StreamsInv
    <2>4. H2!IdleIsTimed' /\ H2!NoStreamLeftOpen'
      BY DEF H2!IdleIsTimed, H2!NoStreamLeftOpen
    <2> QED BY <2>1, <2>2, <2>3, <2>4
  <1> QED BY <1>1, <1>2

\* Switch: the new protocol is on the list, not under the old one's timer, and
\* handles the bytes that decided.
LEMMA AutoSwitch == ASSUME AutoInv, Switch PROVE AutoInv'
  <1> USE DEF only1, only2, rest
  <1>1. H1!Http1Inv /\ H2!Http2Inv /\ transport = "open" /\ ~upgraded
    BY DEF AutoInv, SniffingInv, Switch
  <1>2. mode' = "h1" => H1!Http1Inv'
    <2> SUFFICES ASSUME mode' = "h1" PROVE H1!Http1Inv'
      OBVIOUS
    <2> USE DEF H1!Http1Inv, Switch
    <2>1. H1!Http1TypeOK'
      BY <1>1 DEF H1!Http1TypeOK, H1!ConnTypeOK, H1!FlowTypeOK, H1!LibTypeOK,
         H1!CycleTypeOK, H1!TaskTypeOK
    <2>2. H1!CyclesInv' /\ H1!CountInv' /\ H1!NoLostWakeup'
      BY <1>1 DEF H1!CyclesInv, H1!CountInv, H1!NoLostWakeup
    <2>3. H1!ExchangeInv' /\ H1!FeedInv' /\ H1!ReadingIsOwned'
      BY <1>1 DEF H1!ExchangeInv, H1!FeedInv, H1!ReadingIsOwned
    <2>4. H1!HeldHasTurn' /\ H1!TimerBetweenRequests' /\ H1!DrainWillClose'
      BY <1>1 DEF H1!HeldHasTurn, H1!TimerBetweenRequests, H1!DrainWillClose
    <2> QED BY <2>1, <2>2, <2>3, <2>4
  <1>3. mode' = "h2" => H2!Http2Inv'
    <2> SUFFICES ASSUME mode' = "h2" PROVE H2!Http2Inv'
      OBVIOUS
    <2> USE DEF H2!Http2Inv, Switch
    <2>1. H2!Http2TypeOK'
      BY <1>1 DEF H2!Http2TypeOK, H2!ConnTypeOK, H2!CycleTypeOK, H2!TaskTypeOK
    <2>2. H2!StreamsInv'
      BY <1>1 DEF H2!StreamsInv
    <2>3. H2!CountedOnce' /\ H2!NoLostWakeup'
      BY <1>1 DEF H2!CountedOnce, H2!NoLostWakeup
    <2>4. H2!IdleIsTimed' /\ H2!NoStreamLeftOpen'
      BY <1>1 DEF H2!IdleIsTimed, H2!NoStreamLeftOpen
    <2> QED BY <2>1, <2>2, <2>3, <2>4
  <1>4. mode' \in {"h1", "h2"} /\ timeoutTask' = FALSE
    BY DEF Switch
  <1> QED BY <1>2, <1>3, <1>4 DEF AutoInv, SniffingInv

\* The steps of the sniffing period that close the transport.
LEMMA AutoSniffs ==
    ASSUME AutoInv,
           SniffTimeout \/ SniffLost \/ \E byServer \in BOOLEAN : SniffEnds(byServer)
    PROVE  AutoInv'
  <1>1. mode = "sniffing" /\ UNCHANGED mode
    BY DEF AutoInv, SniffTimeout, SniffLost, SniffEnds
  <1>2. H1!Http1Inv /\ H2!Http2Inv /\ ~inFeed /\ ~upgraded
        /\ ~writePaused /\ cycle = 0
    BY <1>1 DEF AutoInv, SniffingInv
  <1>3. /\ transport' \in {"closing", "lost"}
        /\ transport = "lost" => transport' = "lost"
        /\ UNCHANGED <<inFeed, only1, only2, rest>>
        /\ timeoutTask' \in BOOLEAN
        /\ listed' \in BOOLEAN /\ told' \in BOOLEAN
    <2>1. /\ listed \in BOOLEAN /\ told \in BOOLEAN /\ timeoutTask \in BOOLEAN
          /\ transport \in {"open", "closing", "lost"}
      BY <1>2 DEF AutoInv, H1!Http1Inv, H1!Http1TypeOK, H1!ConnTypeOK
    <2>2. CASE SniffTimeout
      BY <2>1, <2>2 DEF SniffTimeout, Closed
    <2>3. CASE SniffLost
      BY <2>1, <2>3 DEF SniffLost
    <2>4. CASE \E byServer \in BOOLEAN : SniffEnds(byServer)
      BY <2>1, <2>4 DEF SniffEnds
    <2> QED BY <2>2, <2>3, <2>4
  <1>4. H1!Http1Inv' /\ H2!Http2Inv'
    BY <1>2, <1>3, SniffingCloses
  <1>5. ~inFeed' /\ ~upgraded' /\ ~writePaused' /\ cycle' = 0
    BY <1>2, <1>3 DEF only1, rest
  <1> QED BY <1>1, <1>3, <1>4, <1>5 DEF AutoInv, SniffingInv

\* Every step keeps the invariant.
LEMMA AutoStep == AutoInv /\ [Next]_vars => AutoInv'
  <1> SUFFICES ASSUME AutoInv, [Next]_vars PROVE AutoInv'
    OBVIOUS
  <1>1. CASE Switch
    BY <1>1, AutoSwitch
  <1>2. CASE SniffTimeout \/ SniffLost \/ \E byServer \in BOOLEAN : SniffEnds(byServer)
    BY <1>2, AutoSniffs
  <1>3. CASE Serve1
    <2>1. H1!Http1Inv'
      BY <1>3, Http1Step DEF Serve1, AutoInv
    <2> QED BY <1>3, <2>1 DEF Serve1, AutoInv, SniffingInv
  <1>4. CASE Serve2
    <2>1. H2!Http2Inv'
      BY <1>4, Http2Step DEF Serve2, AutoInv
    <2> QED BY <1>4, <2>1 DEF Serve2, AutoInv, SniffingInv
  <1>5. CASE UNCHANGED vars
    <2>1. UNCHANGED <<H1!vars, H2!vars, mode, timeoutTask>>
      BY <1>5 DEF vars, only1, only2, rest, H1!vars, H2!vars
    <2>2. H1!Http1Inv => H1!Http1Inv'
      BY <2>1, Http1Step
    <2>3. H2!Http2Inv => H2!Http2Inv'
      BY <2>1, Http2Step
    <2>4. UNCHANGED <<inFeed, upgraded, transport, mode, timeoutTask, writePaused, cycle>>
      BY <1>5 DEF vars, only1, rest
    <2> QED BY <2>2, <2>3, <2>4 DEF AutoInv, SniffingInv
  <1> QED BY <1>1, <1>2, <1>3, <1>4, <1>5 DEF Next

\* Whatever protocol serves the connection, its invariant holds from the hand-
\* over on, and both protocols' initial states are there to be handed to.
THEOREM AutoInductive == Spec => []AutoInv
  BY AutoInit, AutoStep, PTL DEF Spec

\* Across the hand-over the connection stays on the list that shutdown() goes
\* through, and is under the sniffing timer exactly until its first bytes.
THEOREM HandsOver == Spec => []HandOver
  <1>1. AutoInv => HandOver
    BY DEF AutoInv, SniffingInv, HandOver, H1!Http1Inv, H2!Http2Inv, H1!FeedInv,
       H2!StreamsInv
  <1> QED BY <1>1, AutoInductive, PTL

\* Reading is paused only for a request that somebody still answers, and never
\* under a receive() that waits for its body; what was held back has its turn.
THEOREM ReadingOwned == Spec => []ReadingIsOwned
  <1>1. AutoInv => ReadingIsOwned
    BY DEF AutoInv, ReadingIsOwned, H1!Http1Inv
  <1> QED BY <1>1, AutoInductive, PTL

\* The keep-alive timer cuts no HTTP/1.1 response short, and no HTTP/2 connection
\* is idle without it.
THEOREM TimedInPauses == Spec => []TimerInPauses
  <1>1. AutoInv => TimerInPauses
    BY DEF AutoInv, TimerInPauses, H1!Http1Inv, H2!Http2Inv
  <1> QED BY <1>1, AutoInductive, PTL

\* A connection told to shut down and still open has somebody left who closes it.
THEOREM Drains == Spec => []DrainWillClose
  <1>1. H2!Http2Inv => H2!DrainWillClose
    BY DEF H2!Http2Inv, H2!Http2TypeOK, H2!CycleTypeOK, H2!StreamsInv, H2!DrainWillClose
  <1>2. AutoInv => DrainWillClose
    BY <1>1 DEF AutoInv, DrainWillClose, H1!Http1Inv
  <1> QED BY <1>2, AutoInductive, PTL

\* No receive() or send() waits for what has happened already.
THEOREM NothingSleepsOn == Spec => []NoLostWakeup
  <1>1. AutoInv => NoLostWakeup
    BY DEF AutoInv, NoLostWakeup, H1!Http1Inv, H2!Http2Inv
  <1> QED BY <1>1, AutoInductive, PTL

\* limit_max_requests counts every HTTP/2 stream once, however it ends, and no
\* application leaves one half-written.
THEOREM StreamsCounted == Spec => []StreamsEndOnce
  <1>1. AutoInv => StreamsEndOnce
    BY DEF AutoInv, StreamsEndOnce, H2!Http2Inv
  <1> QED BY <1>1, AutoInductive, PTL

\* What the transport sees of HTTP/1.1, chosen at the start or by sniffing, is
\* what HttpConnection promises.
THEOREM KeptByEveryMode == Spec => KeepsContract
  <1>1. AutoInv /\ [Next]_vars =>
          [mode = "h1" => H1!Connection!HNext \/ UNCHANGED H1!Connection!hvars]_vars
    <2> SUFFICES ASSUME AutoInv, [Next]_vars, mode = "h1"
                 PROVE  H1!Connection!HNext \/ UNCHANGED H1!Connection!hvars
      OBVIOUS
    <2>1. CASE Serve1
      BY <2>1, Http1Step DEF Serve1, AutoInv
    <2>2. CASE UNCHANGED vars
      <3>1. UNCHANGED H1!vars
        BY <2>2 DEF vars, only1, rest, H1!vars
      <3> QED BY <3>1, Http1Step DEF AutoInv
    <2>3. ~Switch /\ ~SniffTimeout /\ ~SniffLost /\ ~Serve2
      BY DEF AutoInv, Switch, SniffTimeout, SniffLost, Serve2
    <2>4. \A byServer \in BOOLEAN : ~SniffEnds(byServer)
      BY DEF SniffEnds
    <2> QED BY <2>1, <2>2, <2>3, <2>4 DEF Next
  <1> QED BY <1>1, AutoInductive, PTL DEF Spec, KeepsContract
================================================================================
