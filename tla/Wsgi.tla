-------------------------------- MODULE Wsgi --------------------------------
(***************************************************************************)
(* One call of WSGIResponder: the request body is read, the WSGI application *)
(* runs in a thread of the executor and appends to send_queue, the task      *)
(* sender() sends what it finds there.  The thread wakes the event loop by   *)
(* call_soon_threadsafe(send_event.set); `sets` counts the calls that the    *)
(* loop has not run yet.  The loop's own steps never interleave, the         *)
(* thread's steps come between any two of them.                              *)
(***************************************************************************)
EXTENDS Integers, Sequences

CONSTANTS
    MaxParts,            \* bound: messages of the request body
    MaxMessages          \* bound: messages the application's thread appends

ASSUME WsgiAssumption == MaxParts \in Nat /\ MaxMessages \in Nat \ {0}

VARIABLES
    call,                \* "receiving", "waiting", "ending", "returned" or "raised"
    parts,               \* messages of the body received
    thread,              \* "idle", "queued", "running", "appended", "last", "returned", "raised"
    responseStarted, excInfo,
    produced,            \* messages appended, numbered from 1
    sendQueue,           \* their numbers; 0 is the None that ends it
    sendEvent, sets,
    sender,              \* "none", "ready", "empty", "waiting", "woken", "sending", "done", "failed"
    sent

callVars   == <<call, parts>>
threadVars == <<thread, responseStarted, excInfo, produced>>
eventVars  == <<sendEvent, sets>>
vars == <<callVars, threadVars, sendQueue, eventVars, sender, sent>>

Init ==
    /\ call = "receiving" /\ parts = 0
    /\ thread = "idle" /\ responseStarted = FALSE /\ excInfo = FALSE /\ produced = 0
    /\ sendQueue = <<>> /\ sendEvent = FALSE /\ sets = 0
    /\ sender = "none" /\ sent = 0

WsgiTypeOK ==
    /\ call \in {"receiving", "waiting", "ending", "returned", "raised"}
    /\ parts \in 0 .. MaxParts
    /\ thread \in {"idle", "queued", "running", "appended", "last", "returned", "raised"}
    /\ {responseStarted, excInfo, sendEvent} \subseteq BOOLEAN
    /\ produced \in 0 .. MaxMessages /\ sent \in 0 .. produced
    /\ sendQueue \in Seq(0 .. MaxMessages) /\ sets \in 0 .. MaxMessages
    /\ sender \in {"none", "ready", "empty", "waiting", "woken", "sending", "done", "failed"}

-----------------------------------------------------------------------------
(* The event loop.  Nothing else of it runs between sender()'s look at the   *)
(* queue and its wait.                                                       *)

LoopFree == sender # "empty"

\* Event.set()
SetEvent ==
    /\ sendEvent' = TRUE
    /\ sender' = IF sender = "waiting" THEN "woken" ELSE sender

\* More of the body.  A disconnection carries neither body nor more_body: it
\* reads as the end of it (last).
ReceivePart(last) ==
    /\ call = "receiving"
    /\ IF last
       THEN call' = "waiting" /\ thread' = "queued" /\ sender' = "ready" /\ UNCHANGED parts
       ELSE /\ parts < MaxParts
            /\ parts' = parts + 1
            /\ UNCHANGED <<call, thread, sender>>
    /\ UNCHANGED <<responseStarted, excInfo, produced, sendQueue, eventVars, sent>>

RunSet ==
    /\ LoopFree /\ sets > 0
    /\ sets' = sets - 1
    /\ SetEvent
    /\ UNCHANGED <<callVars, threadVars, sendQueue, sent>>

TakesNewest ==                                                  \* mutant
    /\ sender = "ready" /\ sendQueue # <<>>
    /\ sendQueue' = SubSeq(sendQueue, 1, Len(sendQueue) - 1)
    /\ sender' = IF sendQueue[Len(sendQueue)] = 0 THEN "done" ELSE "sending"
    /\ UNCHANGED <<callVars, threadVars, eventVars, sent>>
SenderTakes ==
    /\ sender = "ready" /\ sendQueue # <<>>
    /\ sendQueue' = Tail(sendQueue)
    /\ sender' = IF Head(sendQueue) = 0 THEN "done" ELSE "sending"
    /\ UNCHANGED <<callVars, threadVars, eventVars, sent>>

SenderFindsNothing ==
    /\ sender = "ready" /\ sendQueue = <<>>
    /\ sender' = "empty"
    /\ UNCHANGED <<callVars, threadVars, sendQueue, eventVars, sent>>

\* send_event.wait() returns at once when the event is set; clear() follows.
SenderWaits ==
    /\ sender = "empty"
    /\ sendEvent' = FALSE
    /\ sender' = IF sendEvent THEN "ready" ELSE "waiting"
    /\ UNCHANGED <<callVars, threadVars, sendQueue, sets, sent>>

SenderWakes ==
    /\ sender = "woken"
    /\ sendEvent' = FALSE
    /\ sender' = "ready"
    /\ UNCHANGED <<callVars, threadVars, sendQueue, sets, sent>>

\* The server's send() returns, or raises (a message out of turn).
SendEnds ==
    /\ LoopFree /\ sender = "sending"
    /\ \/ sender' = "ready" /\ sent' = sent + 1
       \/ sender' = "failed" /\ UNCHANGED sent
    /\ UNCHANGED <<callVars, threadVars, sendQueue, eventVars>>

\* wait_for(wsgi) is over: the None is appended and sender() told.
EndsUnsaid ==                                                   \* mutant
    /\ LoopFree /\ call = "waiting" /\ thread \in {"returned", "raised"}
    /\ call' = "ending"
    /\ sendQueue' = Append(sendQueue, 0)
    /\ UNCHANGED <<parts, threadVars, eventVars, sender, sent>>
WsgiOver ==
    /\ LoopFree /\ call = "waiting" /\ thread \in {"returned", "raised"}
    /\ call' = "ending"
    /\ sendQueue' = Append(sendQueue, 0)
    /\ SetEvent
    /\ UNCHANGED <<parts, threadVars, sets, sent>>

\* wait_for(sender) is over: an error of the sender, of the application or of
\* start_response() is raised into run_asgi.
CallEnds ==
    /\ call = "ending" /\ sender \in {"done", "failed"}
    /\ call' = IF sender = "failed" \/ thread = "raised" \/ excInfo
               THEN "raised" ELSE "returned"
    /\ UNCHANGED <<parts, threadVars, sendQueue, eventVars, sender, sent>>

-----------------------------------------------------------------------------
(* The thread                                                               *)

ExecutorStarts ==
    /\ thread = "queued"
    /\ thread' = "running"
    /\ UNCHANGED <<callVars, responseStarted, excInfo, produced, sendQueue,
                   eventVars, sender, sent>>

Appends ==
    /\ produced < MaxMessages
    /\ produced' = produced + 1
    /\ sendQueue' = Append(sendQueue, produced')

\* start_response(): the last exc_info counts, the first call appends, unless its
\* status or a header does not convert: that raises into the application, with
\* response_started set and nothing appended.
StartResponse ==
    /\ thread = "running"
    /\ excInfo' \in BOOLEAN
    /\ responseStarted' = TRUE
    /\ \/ ~responseStarted /\ Appends /\ thread' = "appended"
       \/ UNCHANGED <<thread, produced, sendQueue>>
    /\ UNCHANGED <<callVars, eventVars, sender, sent>>

\* A chunk of the body, or the empty one when the application is exhausted.
YieldChunk ==
    /\ thread = "running"
    /\ Appends
    /\ thread' \in {"appended", "last"}
    /\ UNCHANGED <<callVars, responseStarted, excInfo, eventVars, sender, sent>>

\* call_soon_threadsafe(self.send_event.set), after the append.
ThreadWakes ==
    /\ thread \in {"appended", "last"}
    /\ sets' = sets + 1
    /\ thread' = IF thread = "last" THEN "returned" ELSE "running"
    /\ UNCHANGED <<callVars, responseStarted, excInfo, produced, sendQueue,
                   sendEvent, sender, sent>>

AppRaises ==
    /\ thread = "running"
    /\ thread' = "raised"
    /\ UNCHANGED <<callVars, responseStarted, excInfo, produced, sendQueue,
                   eventVars, sender, sent>>

-----------------------------------------------------------------------------
Next ==
    \/ ReceivePart(TRUE) \/ ReceivePart(FALSE) \/ RunSet
    \/ SenderTakes \/ SenderFindsNothing \/ SenderWaits \/ SenderWakes
    \/ SendEnds \/ WsgiOver \/ CallEnds
    \/ ExecutorStarts \/ StartResponse \/ YieldChunk \/ ThreadWakes \/ AppRaises

\* The loop runs what is ready, the thread gets on with its own code; the WSGI
\* application may stop between two chunks for ever.  That the server's send()
\* ends is assumed: it may wait in drain() for as long as a client reads nothing.
Fairness ==
    /\ WF_vars(RunSet) /\ WF_vars(SenderTakes) /\ WF_vars(SenderFindsNothing)
    /\ WF_vars(SenderWaits) /\ WF_vars(SenderWakes) /\ WF_vars(SendEnds)
    /\ WF_vars(WsgiOver) /\ WF_vars(CallEnds) /\ WF_vars(ThreadWakes)
Spec == Init /\ [][Next]_vars /\ Fairness

-----------------------------------------------------------------------------
(* Properties                                                               *)

InHand == IF sender \in {"sending", "failed"} THEN 1 ELSE 0
NotTaken == produced - (sent + InHand)
Over == {"ending", "returned", "raised"}
Terminated == call \in Over /\ sender # "done"

\* What the thread appended and sender() has not taken is in the queue, once and
\* in its order, with the None at its end when the application is over; a call
\* that returns has sent everything (wsgi.py:137-155, 174, 184, 192).
InOrder ==
    /\ WsgiTypeOK
    /\ call = "returned" => sent = produced
    /\ NotTaken >= 0 /\ Len(sendQueue) = NotTaken + (IF Terminated THEN 1 ELSE 0)
    /\ \A i \in 1 .. Len(sendQueue) :
          sendQueue[i] = IF i <= NotTaken THEN sent + InHand + i ELSE 0

\* sender() never waits, nor is about to, for messages that are in the queue
\* already: the thread has yet to say so, or the loop has yet to run what it said
\* (wsgi.py:139-141, 154-155, 174-175).
NoLostWakeup ==
    sender \in {"empty", "waiting"} /\ sendQueue # <<>> =>
        sets > 0 \/ thread \in {"appended", "last"}

\* The inductive invariant behind both: the call, the thread and sender() go
\* through their stages together.
StagesInv ==
    /\ call = "receiving" <=> thread = "idle"
    /\ call = "receiving" <=> sender = "none"
    /\ call \in Over => thread \in {"returned", "raised"}
    /\ call \in {"returned", "raised"} => sender \in {"done", "failed"}
    /\ sender = "done" => call \in Over /\ sent = produced
    /\ sender = "waiting" => ~sendEvent
    /\ sets + (IF thread \in {"appended", "last"} THEN 1 ELSE 0) <= produced
    /\ call \in Over => sender \notin {"waiting", "empty"}

\* Nothing the thread appends is lost, repeated or overtaken on its way to the
\* server, and sender() sleeps only with nothing to send or a wake-up to come,
\* whatever stage the call, its thread and sender() are in (wsgi.py:103-193).
\* The three parts together are inductive.
WsgiInv == InOrder /\ NoLostWakeup /\ StagesInv

\* What the thread appends is sent, also while the application is still at work
\* on the rest; and a call whose thread is over ends, provided that no send()
\* waits for ever on a client that reads nothing (wsgi.py:134-155, 177-193).
Delivered ==
    /\ \A k \in 1 .. MaxMessages : produced >= k ~> sent >= k \/ sender = "failed"
    /\ thread \in {"returned", "raised"} ~> call \in {"returned", "raised"}
=============================================================================
