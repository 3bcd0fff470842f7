------------------------------ MODULE HttpTools ------------------------------
(***************************************************************************)
(* One HTTP/1.1 connection served by HttpToolsProtocol: the protocol        *)
(* object, its FlowControl, its keep-alive timer, the queue of pipelined    *)
(* requests, and one RequestResponseCycle with its ASGI task per request.   *)
(*                                                                          *)
(* Everything runs on one event loop, so a callback or a stretch of a task  *)
(* between two awaits is one action.  data_received is the exception: the   *)
(* C parser calls back any number of times while it eats one chunk, so      *)
(* inFeed marks the time it runs and only parser callbacks happen then.     *)
(*                                                                          *)
(* Requests are numbered in the order their heads are parsed.  Payload is   *)
(* counted, not stored: one on_body call adds one unit to cycle.body.       *)
(* keep_alive starts FALSE both for HTTP/1.0 and for a request that carries *)
(* "connection: close" (whose response header clears it, line 510, before   *)
(* anything reads it).                                                      *)
(***************************************************************************)
EXTENDS Integers, Sequences, FiniteSets

CONSTANTS
    NumRequests,         \* bound: requests the client sends on the connection
    MaxBody,             \* bound: on_body calls per request
    HighWater,           \* HIGH_WATER_LIMIT, in on_body units
    Lengths,             \* Content-Length values an application may declare
    Sizes,               \* sizes of the body messages an application sends
    HeadRequests,        \* requests whose method is HEAD
    ExpectRequests,      \* requests with "expect: 100-continue"
    LimitConcurrency,    \* config.limit_concurrency
    WebSockets,          \* config.ws_protocol_class is not None
    ListenForDisconnect, \* applications call receive() after the body's end
    BadHeaders,          \* applications send headers that do not validate
    SlowPeer             \* the peer reads slowly: the write buffer fills up

Requests == 1 .. NumRequests

ASSUME ConstantsAssumption ==
    /\ NumRequests \in Nat \ {0}
    /\ MaxBody \in Nat /\ HighWater \in Nat
    /\ Lengths \subseteq Nat /\ Sizes \subseteq Nat
    /\ HeadRequests \subseteq Requests /\ ExpectRequests \subseteq Requests
    /\ LimitConcurrency \in Nat \ {0}
    /\ WebSockets \in BOOLEAN /\ ListenForDisconnect \in BOOLEAN
    /\ BadHeaders \in BOOLEAN /\ SlowPeer \in BOOLEAN

VARIABLES
    \* transport, FlowControl and parser
    transport,       \* "open", "closing" (close() called) or "lost" (reported)
    readPaused, writePaused,
    inFeed,          \* parser.feed_data is on the stack
    parser,          \* "idle", "head" or "body" of a message
    upgraded,        \* transport.set_protocol gave the transport away
    listed,          \* the protocol is in server_state.connections
    draining,        \* the server has called shutdown()
    \* protocol
    cycle,           \* self.cycle: the newest request, 0 for None
    pipeline,        \* self.pipeline, next to be started first
    timer,           \* the keep-alive timer is armed
    totalRequests,   \* server_state.total_requests
    \* one RequestResponseCycle per request
    disconnected, keepAlive, waiting100, body, moreBody, event,
    started, headSent, complete, framing, expected,
    \* the cycle's ASGI task
    task, receiving, sending, pending,
    \* what went over each side, for the properties
    received, given, gotEnd, written

restVars  == <<inFeed, parser, upgraded, listed, draining>>
connVars  == <<transport, readPaused, writePaused, restVars>>
queueVars == <<cycle, pipeline, timer, totalRequests>>
inVars    == <<waiting100, body, moreBody, received, given, gotEnd>>
wakeVars  == <<event, receiving>>
outVars   == <<started, headSent, complete, framing, expected, written>>
sendVars  == <<sending, pending>>
vars == <<connVars, queueVars, inVars, wakeVars, outVars, sendVars,
          disconnected, keepAlive, task>>

-----------------------------------------------------------------------------
(* Messages an application gives to send().  "valid" is FALSE for a start   *)
(* message with a header that HEADER_RE or HEADER_VALUE_RE rejects; length  *)
(* and close are then what the headers before that one say (none: 0).       *)

Chunked == -1
NoMessage == [kind |-> "none"]
StartMessages == [kind : {"start"}, length : Lengths \cup {Chunked},
                  close : BOOLEAN, valid : IF BadHeaders THEN BOOLEAN ELSE {TRUE}]
BodyMessages == [kind : {"body"}, size : Sizes, more : BOOLEAN]

\* The two messages of send_500_response, and of service_unavailable.
CannedStart == [kind |-> "start", length |-> 1, close |-> TRUE, valid |-> TRUE]
CannedBody == [kind |-> "body", size |-> 1, more |-> FALSE]

Messages == StartMessages \cup BodyMessages \cup {CannedStart, CannedBody}

Live == {"running", "canned", "cannedBody"}
Tasks == {r \in Requests : task[r] \in Live}     \* this connection's self.tasks
Queued == {r \in Requests : task[r] \in {"queued", "queued503"}}

ConnTypeOK ==
    /\ transport \in {"open", "closing", "lost"}
    /\ readPaused \in BOOLEAN /\ writePaused \in BOOLEAN
    /\ inFeed \in BOOLEAN /\ parser \in {"idle", "head", "body"}
    /\ upgraded \in BOOLEAN /\ listed \in BOOLEAN /\ draining \in BOOLEAN

QueueTypeOK ==
    /\ cycle \in 0 .. NumRequests /\ pipeline \in Seq(Requests)
    /\ timer \in BOOLEAN /\ totalRequests \in Nat

InTypeOK ==
    /\ waiting100 \in [Requests -> BOOLEAN] /\ moreBody \in [Requests -> BOOLEAN]
    /\ body \in [Requests -> Nat] /\ received \in [Requests -> Nat]
    /\ given \in [Requests -> Nat] /\ gotEnd \in [Requests -> BOOLEAN]

WakeTypeOK ==
    /\ event \in [Requests -> BOOLEAN]
    /\ receiving \in [Requests -> {"no", "waiting", "woken"}]

OutTypeOK ==
    /\ started \in [Requests -> BOOLEAN] /\ headSent \in [Requests -> BOOLEAN]
    /\ complete \in [Requests -> BOOLEAN]
    /\ framing \in [Requests -> Nat \cup {Chunked}]
    /\ expected \in [Requests -> Nat] /\ written \in [Requests -> Nat]

SendTypeOK ==
    /\ sending \in [Requests -> {"no", "waiting", "woken"}]
    /\ pending \in [Requests -> Messages \cup {NoMessage}]
    /\ \A r \in Requests : sending[r] # "no" => pending[r] \in Messages

CycleTypeOK ==
    /\ disconnected \in [Requests -> BOOLEAN] /\ keepAlive \in [Requests -> BOOLEAN]
    /\ task \in [Requests -> Live \cup {"none", "queued", "queued503", "done"}]

TypeOK == /\ ConnTypeOK /\ QueueTypeOK /\ InTypeOK /\ WakeTypeOK
          /\ OutTypeOK /\ SendTypeOK /\ CycleTypeOK

All(v) == [r \in Requests |-> v]

\* connection_made: listed, no cycle, nothing armed, flow control open.
Init ==
    /\ transport = "open" /\ readPaused = FALSE /\ writePaused = FALSE
    /\ inFeed = FALSE /\ parser = "idle" /\ upgraded = FALSE
    /\ listed = TRUE /\ draining = FALSE
    /\ cycle = 0 /\ pipeline = <<>> /\ timer = FALSE /\ totalRequests = 0
    /\ disconnected = All(FALSE) /\ keepAlive = All(TRUE)
    /\ waiting100 = All(FALSE) /\ body = All(0) /\ moreBody = All(TRUE)
    /\ event = All(FALSE) /\ started = All(FALSE) /\ headSent = All(FALSE)
    /\ complete = All(FALSE) /\ framing = All(0) /\ expected = All(0)
    /\ task = All("none") /\ receiving = All("no")
    /\ sending = All("no") /\ pending = All(NoMessage)
    /\ received = All(0) /\ given = All(0) /\ gotEnd = All(FALSE)
    /\ written = All(0)

-----------------------------------------------------------------------------
(* Helpers shared by the actions                                            *)

\* transport.close(): idempotent.
Closed(t) == IF t = "open" THEN "closing" ELSE t

\* self.transport.is_closing()
ForgetsClosing(t) == t = "lost"                                 \* mutant
IsClosing(t) == t # "open"

\* transport.write() of something: a slow peer may leave the write buffer above
\* its high-water mark, and the transport calls pause_writing() on the spot: on
\* its new protocol after an upgrade, and not at all once closed.
Write ==
    \/ UNCHANGED writePaused
    \/ /\ SlowPeer /\ transport = "open" /\ ~upgraded /\ ~writePaused
       /\ writePaused' = TRUE

\* self.flow.resume_reading()
LeavesPaused == UNCHANGED readPaused                            \* mutant
ResumeReading == readPaused' = FALSE

\* self._unset_keepalive_if_required()
LeavesTimer == UNCHANGED timer                                  \* mutant
UnsetKeepAlive == timer' = FALSE

\* message_event.set() on request r's cycle wakes its waiting receive().
SetEvent(r) ==
    /\ event' = [event EXCEPT ![r] = TRUE]
    /\ receiving' = [receiving EXCEPT ![r] = IF @ = "waiting" THEN "woken" ELSE @]

ClearEvent(r) == event' = [event EXCEPT ![r] = FALSE]

\* FlowControl.resume_writing: wakes every send() waiting in drain().
IgnoresLoss ==                                                  \* mutant
    IF transport' = "lost"
      THEN UNCHANGED <<writePaused, sending>>
      ELSE /\ writePaused' = FALSE
           /\ sending' = [r \in Requests |->
                            IF sending[r] = "waiting" THEN "woken" ELSE sending[r]]
ResumeWritingEffect ==
    /\ writePaused' = FALSE
    /\ sending' = [r \in Requests |->
                     IF sending[r] = "waiting" THEN "woken" ELSE sending[r]]

\* self.pipeline.appendleft(...): pop() takes the oldest
JumpsQueue(r) == <<r>> \o pipeline                              \* mutant
Enqueued(r) == Append(pipeline, r)

\* if self.pipeline: ...
ForgetsNext == FALSE                                            \* mutant
HasNext == pipeline # <<>>

\* create_task for a queued request; queued503 is service_unavailable's.
StartTask(t) == IF t = "queued503" THEN "canned" ELSE "running"

\* existing_cycle is None or existing_cycle.response_complete
QueueIsEmpty == pipeline = <<>>                                 \* mutant
Unoccupied == cycle = 0 \/ (cycle # 0 /\ complete[cycle])

-----------------------------------------------------------------------------
(* data_received and the callbacks of the parser                            *)

DataReceived ==
    /\ transport = "open" /\ ~readPaused /\ ~inFeed /\ ~upgraded
    /\ inFeed' = TRUE
    /\ UnsetKeepAlive
    /\ UNCHANGED <<transport, readPaused, writePaused, parser, upgraded, listed,
                   draining, cycle, pipeline, totalRequests, inVars, wakeVars,
                   outVars, sendVars, disconnected, keepAlive, task>>

\* feed_data returns: the chunk is used up, or ends inside a message.
FeedDone ==
    /\ inFeed
    /\ inFeed' = FALSE
    /\ UNCHANGED <<transport, readPaused, writePaused, parser, upgraded, listed,
                   draining, queueVars, inVars, wakeVars, outVars, sendVars,
                   disconnected, keepAlive, task>>

OnMessageBegin ==
    /\ inFeed /\ parser = "idle" /\ cycle < NumRequests
    /\ parser' = "head"
    /\ UNCHANGED <<transport, readPaused, writePaused, inFeed, upgraded, listed,
                   draining, queueVars, inVars, wakeVars, outVars, sendVars,
                   disconnected, keepAlive, task>>

\* "over" is the outcome of the limit_concurrency test.  Other connections
\* count too, so it may be TRUE below this connection's own limit.
OnHeadersComplete(over, ka) ==
    LET r == cycle + 1
    IN  /\ inFeed /\ parser = "head" /\ cycle < NumRequests
        /\ Cardinality(Tasks) >= LimitConcurrency => over
        /\ parser' = "body"
        /\ cycle' = r
        /\ keepAlive' = [keepAlive EXCEPT ![r] = ka]
        /\ waiting100' = [waiting100 EXCEPT ![r] = r \in ExpectRequests]
        /\ \/ /\ Unoccupied
              /\ task' = [task EXCEPT ![r] = IF over THEN "canned" ELSE "running"]
              /\ UNCHANGED <<readPaused, pipeline>>
           \/ /\ ~Unoccupied
              /\ task' = [task EXCEPT ![r] = IF over THEN "queued503" ELSE "queued"]
              /\ readPaused' = TRUE
              /\ pipeline' = Enqueued(r)
        /\ UNCHANGED <<transport, writePaused, inFeed, upgraded, listed,
                       draining, timer, totalRequests, body, moreBody, received,
                       given, gotEnd, wakeVars, outVars, sendVars,
                       disconnected>>

\* Body of the newest request; dropped once its response is complete.
OnBody ==
    /\ inFeed /\ parser = "body" /\ ~complete[cycle]
    /\ received[cycle] < MaxBody
    /\ body' = [body EXCEPT ![cycle] = @ + 1]
    /\ received' = [received EXCEPT ![cycle] = @ + 1]
    /\ readPaused' = IF body[cycle] + 1 > HighWater THEN TRUE ELSE readPaused
    /\ SetEvent(cycle)
    /\ UNCHANGED <<transport, writePaused, restVars, queueVars, waiting100,
                   moreBody, given, gotEnd, outVars, sendVars, disconnected,
                   keepAlive, task>>

EndOfBodyUnsaid(r) ==                                           \* mutant
    /\ moreBody' = [moreBody EXCEPT ![r] = FALSE]
    /\ UNCHANGED wakeVars
EndOfBody(r) ==
    /\ moreBody' = [moreBody EXCEPT ![r] = FALSE]
    /\ SetEvent(r)

OnMessageComplete ==
    /\ inFeed /\ parser = "body"
    /\ parser' = "idle"
    /\ \/ /\ complete[cycle]
          /\ UNCHANGED <<moreBody, wakeVars>>
       \/ /\ ~complete[cycle]
          /\ EndOfBody(cycle)
    /\ UNCHANGED <<transport, readPaused, writePaused, inFeed, upgraded, listed,
                   draining, queueVars, waiting100, body, received, given,
                   gotEnd, outVars, sendVars, disconnected, keepAlive, task>>

\* HttpParserError: send_400_response writes and closes, whoever is responding.
ParseError ==
    /\ inFeed
    /\ inFeed' = FALSE
    /\ transport' = Closed(transport)
    /\ Write
    /\ UNCHANGED <<readPaused, parser, upgraded, listed, draining, queueVars,
                   inVars, wakeVars, outVars, sendVars, disconnected, keepAlive,
                   task>>

\* HttpParserUpgrade with a websocket protocol configured: no cycle is made
\* (on_headers_complete returns early) and the transport changes hands.
UpgradeToWebSocket ==
    /\ inFeed /\ parser = "head" /\ WebSockets
    /\ inFeed' = FALSE
    /\ parser' = "idle"
    /\ upgraded' = TRUE
    /\ listed' = FALSE
    /\ UNCHANGED <<transport, readPaused, writePaused, draining, queueVars,
                   inVars, wakeVars, outVars, sendVars, disconnected, keepAlive,
                   task>>

-----------------------------------------------------------------------------
(* The ASGI receive channel                                                 *)

TakeBodyTwice(r) ==                                             \* mutant
    /\ given' = [given EXCEPT ![r] = @ + body[r]]
    /\ gotEnd' = [gotEnd EXCEPT ![r] = @ \/ ~moreBody[r]]
    /\ UNCHANGED body

\* receive() hands over what is buffered.
TakeBody(r) ==
    /\ given' = [given EXCEPT ![r] = @ + body[r]]
    /\ body' = [body EXCEPT ![r] = 0]
    /\ gotEnd' = [gotEnd EXCEPT ![r] = @ \/ ~moreBody[r]]

\* The 100 Continue is written by the first receive() on an open transport.
Continue100(r) ==
    IF waiting100[r] /\ transport = "open"
      THEN waiting100' = [waiting100 EXCEPT ![r] = FALSE] /\ Write
      ELSE UNCHANGED <<waiting100, writePaused>>

\* receive() that returns at once: a disconnect, or message_event already set.
ReceiveReturns(r) ==
    /\ ~inFeed /\ task[r] = "running" /\ receiving[r] = "no"
    /\ gotEnd[r] => ListenForDisconnect
    /\ Continue100(r)
    /\ \/ /\ disconnected[r] \/ complete[r]
          /\ UNCHANGED <<readPaused, event, body, given, gotEnd>>
       \/ /\ ~disconnected[r] /\ ~complete[r] /\ event[r]
          /\ ResumeReading
          /\ ClearEvent(r)
          /\ TakeBody(r)
    /\ UNCHANGED <<transport, restVars, queueVars, moreBody, received,
                   receiving, outVars, sendVars, disconnected, keepAlive, task>>

\* receive() that awaits message_event.wait().
ReceiveWaits(r) ==
    /\ ~inFeed /\ task[r] = "running" /\ receiving[r] = "no"
    /\ gotEnd[r] => ListenForDisconnect
    /\ ~disconnected[r] /\ ~complete[r] /\ ~event[r]
    /\ Continue100(r)
    /\ ResumeReading
    /\ receiving' = [receiving EXCEPT ![r] = "waiting"]
    /\ UNCHANGED <<transport, restVars, queueVars, body, moreBody, received,
                   given, gotEnd, event, outVars, sendVars, disconnected,
                   keepAlive, task>>

\* The awaited event was set: clear it, then look at what happened.
ReceiveWakes(r) ==
    /\ ~inFeed /\ receiving[r] = "woken"
    /\ receiving' = [receiving EXCEPT ![r] = "no"]
    /\ ClearEvent(r)
    /\ \/ /\ disconnected[r] \/ complete[r]
          /\ UNCHANGED <<body, given, gotEnd>>
       \/ /\ ~disconnected[r] /\ ~complete[r]
          /\ TakeBody(r)
    /\ UNCHANGED <<connVars, queueVars, waiting100, moreBody, received, outVars,
                   sendVars, disconnected, keepAlive, task>>

-----------------------------------------------------------------------------
(* The ASGI send channel                                                    *)

\* What the code running in r's task sends next, and the task's state after.
Offers(r) ==
    CASE task[r] = "running"    -> StartMessages \cup BodyMessages
      [] task[r] = "canned"     -> {CannedStart}
      [] task[r] = "cannedBody" -> {CannedBody}
      [] OTHER                  -> {}

After(r) ==
    CASE task[r] = "canned"     -> "cannedBody"
      [] task[r] = "cannedBody" -> "done"
      [] OTHER                  -> task[r]

Advanced(r) == [task EXCEPT ![r] = After(r)]

\* The status line and headers.  response_started is set before the headers
\* are looked at, and what each of them says is kept: a bad one raises with
\* nothing written.
SendStart(r, m) ==
    /\ ~disconnected[r] /\ ~started[r] /\ m.kind = "start"
    /\ started' = [started EXCEPT ![r] = TRUE]
    /\ waiting100' = [waiting100 EXCEPT ![r] = FALSE]
    /\ headSent' = [headSent EXCEPT ![r] = m.valid]
    /\ keepAlive' = [keepAlive EXCEPT ![r] = @ /\ ~m.close]
    /\ framing' = [framing EXCEPT ![r] = m.length]
    /\ expected' = [expected EXCEPT ![r] = IF m.length # Chunked THEN m.length ELSE @]
    /\ IF m.valid THEN Write ELSE UNCHANGED writePaused
    /\ task' = Advanced(r)
    /\ UNCHANGED <<transport, readPaused, restVars, queueVars, body, moreBody,
                   received, given, gotEnd, wakeVars, complete, written,
                   disconnected>>

\* expected_content_length once a body message of m.size is taken.
Remaining(r, m) ==
    IF r \in HeadRequests THEN 0
    ELSE IF framing[r] = Chunked THEN expected[r] ELSE expected[r] - m.size

\* expected_content_length != 0 after the last body message
NeverShort(r, m) == FALSE                                       \* mutant
Short(r, m) == Remaining(r, m) # 0

Accepts(r, m) ==
    /\ ~disconnected[r] /\ started[r] /\ ~complete[r] /\ m.kind = "body"
    /\ Remaining(r, m) >= 0

WriteBody(r, m) ==
    /\ expected' = [expected EXCEPT ![r] = Remaining(r, m)]
    /\ written' = [written EXCEPT
                     ![r] = IF r \in HeadRequests \/ framing[r] = Chunked
                            THEN @ ELSE @ + m.size]
    /\ IF r \in HeadRequests THEN UNCHANGED writePaused ELSE Write

\* A part of the body; with more_body FALSE and bytes still owed, send()
\* raises after it wrote them and the response stays incomplete.
SendPart(r, m) ==
    /\ Accepts(r, m)
    /\ m.more \/ Short(r, m)
    /\ WriteBody(r, m)
    /\ task' = Advanced(r)
    /\ UNCHANGED <<transport, readPaused, restVars, queueVars, inVars, wakeVars,
                   started, headSent, complete, framing, disconnected,
                   keepAlive>>

\* server_state.total_requests += 1, before the is_closing() test
CountsOpenOnly(t) ==                                            \* mutant
    totalRequests' = IF IsClosing(t) THEN totalRequests ELSE totalRequests + 1
CountRequest(t) == totalRequests' = totalRequests + 1

\* on_response_complete, called with the transport in state t.
OnResponseComplete(r, t) ==
    /\ CountRequest(t)
    /\ \/ /\ IsClosing(t)
          /\ task' = Advanced(r)
          /\ UNCHANGED <<readPaused, pipeline, timer>>
       \/ /\ ~IsClosing(t) /\ HasNext
          /\ task' = [Advanced(r) EXCEPT ![Head(pipeline)] = StartTask(@)]
          /\ pipeline' = Tail(pipeline)
          /\ ResumeReading
          /\ UnsetKeepAlive
       \/ /\ ~IsClosing(t) /\ ~HasNext
          /\ task' = Advanced(r)
          /\ timer' = TRUE
          /\ ResumeReading
          /\ UNCHANGED pipeline

\* if not self.keep_alive: self.transport.close()
StaysOpen(r) == transport                                       \* mutant
AfterLast(r) == IF keepAlive[r] THEN transport ELSE Closed(transport)

\* The last body message: the response is complete.
SendLast(r, m) ==
    /\ Accepts(r, m) /\ ~m.more /\ ~Short(r, m)
    /\ WriteBody(r, m)
    /\ complete' = [complete EXCEPT ![r] = TRUE]
    /\ SetEvent(r)
    /\ transport' = AfterLast(r)
    /\ OnResponseComplete(r, transport')
    /\ UNCHANGED <<restVars, cycle, inVars, started, headSent, framing,
                   disconnected, keepAlive>>

\* send() returns without effect on a disconnected cycle, and raises into the
\* application when the message is out of sequence or too long.
SendWithoutEffect(r, m) ==
    /\ \/ disconnected[r]
       \/ ~started[r] /\ m.kind # "start"
       \/ started[r] /\ ~Accepts(r, m)
    /\ task' = Advanced(r)
    /\ UNCHANGED <<connVars, queueVars, inVars, wakeVars, outVars, disconnected,
                   keepAlive>>

\* send() from after the drain to its end.
Transmit(r, m) ==
    SendStart(r, m) \/ SendPart(r, m) \/ SendLast(r, m) \/ SendWithoutEffect(r, m)

Send(r, m) ==
    /\ ~inFeed /\ sending[r] = "no" /\ m \in Offers(r)
    /\ ~writePaused \/ disconnected[r]
    /\ Transmit(r, m)
    /\ UNCHANGED sendVars

\* The write buffer is full: await flow.drain().
SendWaits(r, m) ==
    /\ ~inFeed /\ sending[r] = "no" /\ m \in Offers(r)
    /\ writePaused /\ ~disconnected[r]
    /\ sending' = [sending EXCEPT ![r] = "waiting"]
    /\ pending' = [pending EXCEPT ![r] = m]
    /\ UNCHANGED <<connVars, queueVars, inVars, wakeVars, outVars, disconnected,
                   keepAlive, task>>

SendWakes(r) ==
    /\ ~inFeed /\ sending[r] = "woken"
    /\ sending' = [sending EXCEPT ![r] = "no"]
    /\ pending' = [pending EXCEPT ![r] = NoMessage]
    /\ Transmit(r, pending[r])

-----------------------------------------------------------------------------
(* The end of the application: run_asgi                                     *)

\* The application's own calls end with it.
EndCalls(r) ==
    /\ sending' = [sending EXCEPT ![r] = "no"]
    /\ pending' = [pending EXCEPT ![r] = NoMessage]
    /\ receiving' = [receiving EXCEPT ![r] = "no"]

\* run_asgi sends the 500 itself when nothing was started.
AppEnds(r, error500, close) ==
    /\ ~inFeed /\ task[r] = "running"
    /\ EndCalls(r)
    /\ task' = [task EXCEPT ![r] = IF error500 THEN "canned" ELSE "done"]
    /\ transport' = IF close THEN Closed(transport) ELSE transport
    /\ UNCHANGED <<readPaused, writePaused, restVars, queueVars, inVars, event,
                   outVars, disconnected, keepAlive>>

AppReturns(r) ==
    /\ sending[r] = "no"
    /\ AppEnds(r, ~started[r] /\ ~disconnected[r],
                  started[r] /\ ~complete[r] /\ ~disconnected[r])

\* A value other than None: logged, and the transport is closed.
AppReturnsValue(r) == sending[r] = "no" /\ AppEnds(r, FALSE, TRUE)

\* An exception, or cancellation by the server's shutdown timeout.
AppRaises(r) == AppEnds(r, ~started[r], started[r])

-----------------------------------------------------------------------------
(* Timer, transport and server                                              *)

KeepAliveTimeout ==
    /\ timer /\ ~inFeed
    /\ timer' = FALSE
    /\ transport' = Closed(transport)
    /\ UNCHANGED <<readPaused, writePaused, restVars, cycle, pipeline,
                   totalRequests, inVars, wakeVars, outVars, sendVars,
                   disconnected, keepAlive, task>>

\* The peer half-closes: eof_received returns None and asyncio closes.
EofReceived ==
    /\ transport = "open" /\ ~inFeed /\ ~readPaused /\ ~upgraded
    /\ transport' = "closing"
    /\ UNCHANGED <<readPaused, writePaused, restVars, queueVars, inVars,
                   wakeVars, outVars, sendVars, disconnected, keepAlive, task>>

\* connection_lost.  Without an error it follows a close(); with one it can
\* come at any time and leaves the timer to find the transport closing.
ConnectionLost(failed) ==
    /\ transport # "lost" /\ ~inFeed /\ ~upgraded
    /\ failed \/ transport = "closing"
    /\ transport' = "lost"
    /\ listed' = FALSE
    /\ timer' = (timer /\ failed)
    /\ ResumeWritingEffect
    /\ \/ /\ cycle = 0
          /\ UNCHANGED <<disconnected, wakeVars>>
       \/ /\ cycle # 0
          /\ disconnected' = [disconnected EXCEPT ![cycle] = @ \/ ~complete[cycle]]
          /\ SetEvent(cycle)
    /\ UNCHANGED <<readPaused, inFeed, parser, upgraded, draining, cycle,
                   pipeline, totalRequests, inVars, outVars, pending, keepAlive,
                   task>>

\* After an upgrade the transport reports to the websocket protocol.
UpgradedConnectionLost ==
    /\ transport # "lost" /\ upgraded /\ ~inFeed
    /\ transport' = "lost"
    /\ UNCHANGED <<readPaused, writePaused, restVars, queueVars, inVars,
                   wakeVars, outVars, sendVars, disconnected, keepAlive, task>>

ResumeWriting ==
    /\ transport # "lost" /\ ~inFeed /\ ~upgraded /\ writePaused
    /\ UNCHANGED transport /\ ResumeWritingEffect
    /\ UNCHANGED <<readPaused, restVars, queueVars, inVars, wakeVars,
                   outVars, pending, disconnected, keepAlive, task>>

\* Server.shutdown calls shutdown() once on every connection it lists.
Shutdown ==
    /\ listed /\ ~draining /\ ~inFeed
    /\ draining' = TRUE
    /\ IF Unoccupied
         THEN transport' = Closed(transport) /\ UNCHANGED keepAlive
         ELSE keepAlive' = [keepAlive EXCEPT ![cycle] = FALSE] /\ UNCHANGED transport
    /\ UNCHANGED <<readPaused, writePaused, inFeed, parser, upgraded, listed,
                   queueVars, inVars, wakeVars, outVars, sendVars, disconnected,
                   task>>

-----------------------------------------------------------------------------
ParserStep ==
    \/ DataReceived \/ FeedDone \/ OnMessageBegin
    \/ \E over, ka \in BOOLEAN : OnHeadersComplete(over, ka)
    \/ OnBody \/ OnMessageComplete \/ ParseError \/ UpgradeToWebSocket

AppStep(r) ==
    \/ ReceiveReturns(r) \/ ReceiveWaits(r) \/ ReceiveWakes(r)
    \/ \E m \in Messages : Send(r, m) \/ SendWaits(r, m)
    \/ SendWakes(r)
    \/ AppReturns(r) \/ AppReturnsValue(r) \/ AppRaises(r)

TransportStep ==
    \/ KeepAliveTimeout \/ EofReceived
    \/ \E failed \in BOOLEAN : ConnectionLost(failed)
    \/ UpgradedConnectionLost \/ ResumeWriting \/ Shutdown

Next == ParserStep \/ (\E r \in Requests : AppStep(r)) \/ TransportStep

Spec == Init /\ [][Next]_vars

-----------------------------------------------------------------------------
(* Fairness.  The event loop runs what is ready; a client that began a      *)
(* message finishes it and keeps reading; an application that waits for     *)
(* nothing returns in the end.  Nothing is assumed of an application that   *)
(* waits in receive(), nor of a client between messages.                    *)

\* A client inside a message sends the rest of it (keep-alive or not).
ClientFinishes ==
    \/ \E over \in BOOLEAN : OnHeadersComplete(over, TRUE)
    \/ OnMessageComplete

\* A task goes on when its wait is over, and ends when it waits for nothing.
TaskProceeds(r) ==
    \/ ReceiveWakes(r)
    \/ task[r] # "running" /\ \E m \in {CannedStart, CannedBody} :
                                  Send(r, m) \/ SendWaits(r, m)
    \/ receiving[r] = "no" /\ AppReturns(r)

Fairness ==
    /\ WF_vars(FeedDone)
    /\ SF_vars(parser # "idle" /\ DataReceived)
    /\ SF_vars(ClientFinishes)
    /\ SF_vars(ResumeWriting)
    /\ \A r \in Requests : SF_vars(TaskProceeds(r)) /\ SF_vars(SendWakes(r))

FairSpec == Spec /\ Fairness

-----------------------------------------------------------------------------
(* Safety                                                                   *)

\* The request whose turn it is: all before it were taken off the queue.
Active == cycle - Len(pipeline)

\* Responses go out one at a time, in the order of the requests, although
\* several tasks may be alive (one that answered can go on running) and a
\* queued cycle is already self.cycle (httptools_impl.py:277-297, 339-343).
ResponsesInOrder ==
    \A q, r \in Requests : q < r /\ started[r] => complete[q]

\* After a response that closes the connection no pipelined request is begun,
\* whoever cleared keep_alive: HTTP/1.0, a header or shutdown (553-557, 331).
CloseEndsPipeline ==
    \A q, r \in Requests :
        q < r /\ complete[q] /\ ~keepAlive[q] => task[r] \notin Live

\* A receive() left waiting has nothing to report: whatever ends the wait
\* (data, end of body, completion, disconnection) sets the event after
\* changing what receive() looks at (116-126, 313-325, 553-554, 563-577).
NoLostWakeup ==
    \A r \in Requests : receiving[r] = "waiting" =>
        /\ ~event[r] /\ ~complete[r] /\ ~disconnected[r] /\ body[r] = 0
        /\ moreBody[r] \/ gotEnd[r]

\* Whoever pauses the transport leaves somebody to resume it: a paused transport
\* has an unanswered request whose task lives, and no application waits on it
\* for the rest of a body (297, 318, 333-337, 569).
PauseHasOwner ==
    readPaused /\ transport = "open" =>
        /\ task[Active] \in Live /\ ~complete[Active]
        /\ \A r \in Requests : receiving[r] = "waiting" => gotEnd[r]

\* The keep-alive timer never runs while a request is being answered or waits
\* in the queue, so it cannot cut a response short (170-171, 334-347).
KeepAliveOnlyWhenIdle ==
    timer => pipeline = <<>> /\ \A r \in 1 .. cycle : complete[r]

\* limit_max_requests counts every completed response exactly once, also the
\* one that closes its connection or outlives it (329-332, 545).
CountedOnce ==
    totalRequests = Cardinality({r \in Requests : complete[r]})

\* Body units reach the application once and in full, the message with
\* more_body FALSE is the last to carry any, and it is reported once: then only
\* a completed response or a disconnection ends a receive() (313-325, 570-576).
BodyDelivery ==
    \A r \in Requests :
        /\ ~complete[r] => given[r] + body[r] = received[r]
        /\ gotEnd[r] => ~moreBody[r] /\ given[r] + body[r] = received[r] /\ body[r] = 0
        /\ gotEnd[r] /\ (event[r] \/ receiving[r] = "woken")
               => complete[r] \/ disconnected[r]

\* A complete response with a Content-Length carries exactly that many bytes;
\* an incomplete one never more (541-553).
FramingExact ==
    \A r \in Requests \ HeadRequests :
        headSent[r] /\ framing[r] # Chunked =>
            IF complete[r] THEN written[r] = framing[r]
                           ELSE written[r] <= framing[r]

\* After shutdown() a connection still open has an unanswered request whose
\* response will close it, whatever was parsed since (349-356, 553-556).
DrainWillClose ==
    draining /\ transport = "open" =>
        \E r \in 1 .. cycle : ~complete[r] /\ ~keepAlive[r]

\* A send() waits in drain() only while the write buffer is above its mark and
\* there is a peer to empty it: resume_writing and a lost connection wake everyone
\* who waits, and there may be several (flow_control.py:18-19, 36-39,
\* httptools_impl.py:127-128).  Nobody tells the tasks left behind by an upgrade.
NoLostDrain ==
    \A r \in Requests :
        sending[r] = "waiting" => writePaused /\ (transport = "lost" => upgraded)

-----------------------------------------------------------------------------
(* The inductive invariant behind the safety properties: the queue holds the *)
(* requests after Active in order, Active alone is between the answered and  *)
(* the untouched ones, and an open transport was never told to close.        *)

QueueInv ==
    /\ Len(pipeline) <= cycle
    /\ cycle > 0 => Active >= 1
    /\ \A i \in 1 .. Len(pipeline) : pipeline[i] = Active + i
    /\ inFeed => transport = "open" /\ ~timer

TurnInv ==
    /\ \A r \in Requests :
          /\ r < Active => complete[r]
          /\ r > Active => ~started[r]
          /\ complete[r] => started[r]
          /\ r <= Active => task[r] \in Live \cup {"done"}
          /\ r > Active /\ r <= cycle => task[r] \in {"queued", "queued503"}
          /\ r > cycle => task[r] = "none"
          /\ sending[r] # "no" => task[r] \in Live
    /\ transport = "open" /\ pipeline # <<>> => ~complete[Active]

CloseInv ==
    transport = "open" => \A r \in Requests : complete[r] => keepAlive[r]

Inv == /\ TypeOK /\ QueueInv /\ TurnInv /\ CloseInv
       /\ CloseEndsPipeline /\ KeepAliveOnlyWhenIdle

\* The receive channel: only the newest request can lack a part of its body,
\* while it is being parsed; and message_event tells of whatever is unread.
ReceiveInv ==
    /\ parser = "body" => cycle > 0 /\ moreBody[cycle]
    /\ \A r \in Requests :
          /\ r > cycle => moreBody[r]
          /\ r <= cycle /\ moreBody[r] /\ ~complete[r] => r = cycle /\ parser = "body"
          /\ ~event[r] /\ ~complete[r] /\ ~disconnected[r]
                => body[r] = 0 /\ (moreBody[r] \/ gotEnd[r])
          /\ receiving[r] # "no" => task[r] = "running"
    /\ NoLostWakeup /\ BodyDelivery

\* The tasks: whoever has the turn on an open connection is still at work, and
\* the two messages that uvicorn sends itself always fit.
TaskInv ==
    /\ \A r \in Requests :
          /\ disconnected[r] => transport = "lost"
          /\ sending[r] # "no" => pending[r] \in Offers(r)
          /\ task[r] = "canned" => ~started[r]
          /\ task[r] = "cannedBody" /\ ~disconnected[r] =>
                 started[r] /\ ~complete[r] /\ framing[r] = 1 /\ expected[r] = 1
          /\ transport = "open" /\ r <= Active => complete[r] \/ task[r] \in Live
    /\ readPaused /\ transport = "open" => cycle > 0
    /\ PauseHasOwner

\* The framing: what was written and what is owed make up what was declared.
FrameInv ==
    \A r \in Requests \ HeadRequests :
        /\ ~started[r] => written[r] = 0 /\ ~headSent[r]
        /\ headSent[r] /\ framing[r] # Chunked =>
              written[r] + expected[r] = framing[r] /\ (complete[r] => expected[r] = 0)

\* A lost connection leaves no pause behind (httptools_impl.py:127-128).
DrainInv == NoLostDrain /\ (transport = "lost" /\ ~upgraded => ~writePaused)

\* The channels between the application and the connection: the body on its way in
\* (ReceiveInv), the tasks (TaskInv), the framing on the way out (FrameInv) and
\* drain() (httptools_impl.py:313-347, 420-585, flow_control.py:16-39).
ChannelInv == ReceiveInv /\ TaskInv /\ FrameInv /\ DrainInv

-----------------------------------------------------------------------------
(* Action and liveness properties                                           *)

StartsInTurnStep ==
    \A r \in Requests :
        task[r] \in {"queued", "queued503"} /\ task'[r] \in Live =>
            /\ r = Head(pipeline) /\ r > 1
            /\ ~complete[r - 1] /\ complete'[r - 1]
            /\ transport' = "open"

\* A queued request is started only in the step that completes the response
\* before it, first come first served, and never on a closing transport
\* (329-347).
StartsInTurn == [][StartsInTurnStep]_vars

\* A pipelined request is taken up in the end, unless its connection closes.
QueuedIsServed ==
    \A r \in Requests \ {1} :                   \* the first is never queued
        (r \in Queued) ~> (r \notin Queued \/ transport # "open")

\* A connection told to shut down closes once its requests are answered.
DrainCloses == draining ~> transport # "open"

-----------------------------------------------------------------------------
(* HttpTools implements the connection the Server relies on.                *)

Connection == INSTANCE HttpConnection WITH
    phase <- transport,
    accepted <- cycle,
    answered <- Cardinality({r \in Requests : complete[r]}),
    last <- {r \in 1 .. cycle : ~keepAlive[r]},
    tasks <- Tasks

\* Every step of the protocol, its tasks and its transport is a step that
\* HttpConnection allows, or invisible to the server and the client.
ImplementsConnection == Connection!HSpec
=============================================================================
