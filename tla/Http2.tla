-------------------------------- MODULE Http2 --------------------------------
(***************************************************************************)
(* One HTTP/2 connection served by ZttpH2Protocol: many streams, each with  *)
(* its RequestResponseCycle and ASGI task, over one transport, one write    *)
(* side and one keep-alive timer.                                           *)
(*                                                                          *)
(* Streams are numbered in the order in which their requests arrive.  A     *)
(* callback, or a stretch of a task between two awaits, is one action;      *)
(* data_received handles any number of events of one chunk, and inFeed is   *)
(* TRUE while it does.  Whether a body message fits the declared length,    *)
(* and whether zttp accepts the headers, are choices.  Reading is never     *)
(* paused: zttp's windows are below HIGH_WATER_LIMIT (line 172).            *)
(***************************************************************************)
EXTENDS HttpCycles

VARIABLES
    transport,           \* "open", "closing" (close() called) or "lost" (reported)
    listed,              \* the protocol is in server_state.connections
    inFeed,              \* data_received is handling events
    heard,               \* data_received was called
    told,                \* shutdown_requested
    timer,               \* the keep-alive timer is armed
    writePaused,         \* flow.write_paused
    totalRequests,       \* server_state.total_requests
    cycle,               \* streams opened so far
    cycles,              \* self.cycles: the streams in progress
    \* one RequestResponseCycle per stream
    disconnected, started, complete, body, moreBody, event,
    wire,                \* the sending half: "open", "ended" or "reset"
    \* the cycle's ASGI task
    task, receiving, sending

connVars == <<transport, listed, inFeed, heard, told>>
flowVars == <<timer, writePaused, totalRequests>>
inVars   == <<body, moreBody>>
wakeVars == <<event, receiving>>
outVars  == <<started, complete, wire>>
vars == <<connVars, flowVars, cycle, cycles, inVars, wakeVars, outVars,
          disconnected, task, sending>>

Tasks == {s \in Requests : task[s] \in Live}

ConnTypeOK ==
    /\ transport \in {"open", "closing", "lost"}
    /\ listed \in BOOLEAN /\ inFeed \in BOOLEAN /\ heard \in BOOLEAN
    /\ told \in BOOLEAN /\ timer \in BOOLEAN /\ writePaused \in BOOLEAN
    /\ totalRequests \in Nat
CycleTypeOK ==
    /\ cycle \in 0 .. NumRequests /\ cycles \subseteq Requests
    /\ disconnected \in [Requests -> BOOLEAN] /\ started \in [Requests -> BOOLEAN]
    /\ complete \in [Requests -> BOOLEAN] /\ moreBody \in [Requests -> BOOLEAN]
    /\ event \in [Requests -> BOOLEAN] /\ body \in [Requests -> Nat]
    /\ wire \in [Requests -> {"open", "ended", "reset"}]
TaskTypeOK ==
    /\ task \in [Requests -> Live \cup {"none", "done"}]
    /\ receiving \in [Requests -> {"no", "waiting"}]
    /\ sending \in [Requests -> {"no", "waiting", "woken"}]
Http2TypeOK == ConnTypeOK /\ CycleTypeOK /\ TaskTypeOK

\* connection_made: listed; the preface and SETTINGS are written; no timer.
Init ==
    /\ transport = "open" /\ listed = TRUE /\ inFeed = FALSE /\ heard = FALSE
    /\ told = FALSE /\ timer = FALSE /\ writePaused = FALSE
    /\ totalRequests = 0 /\ cycle = 0 /\ cycles = {}
    /\ disconnected = All(FALSE) /\ started = All(FALSE) /\ complete = All(FALSE)
    /\ body = All(0) /\ moreBody = All(TRUE) /\ event = All(FALSE)
    /\ wire = All("open") /\ task = All("none")
    /\ receiving = All("no") /\ sending = All("no")

-----------------------------------------------------------------------------
(* Helpers                                                                  *)

\* transport.write(): a slow peer may make it call pause_writing() at once.
Write == UNCHANGED writePaused \/ (transport = "open" /\ writePaused' = TRUE)

\* on_stream_closed, once the stream left self.cycles: left is what remains.
OnStreamClosed(left) ==
    \/ /\ transport # "open" /\ UNCHANGED <<transport, timer>>
    \/ /\ transport = "open" /\ left # {}
       /\ timer' = FALSE /\ UNCHANGED transport
    \/ /\ transport = "open" /\ left = {} /\ told
       /\ timer' = FALSE /\ transport' = "closing"
    \/ /\ transport = "open" /\ left = {} /\ ~told
       /\ timer' = TRUE /\ UNCHANGED transport

\* on_response_complete: counted, forgotten, and the connection looked at.
OnResponseComplete(s) ==
    /\ totalRequests' = totalRequests + 1
    /\ cycles' = cycles \ {s}
    /\ OnStreamClosed(cycles \ {s})

\* "self.on_response = lambda ..." after END_STREAM: only an unanswered stream is
\* reported by the end of its task.
Answered(s) == wire[s] = "ended"

OnTaskEnd(s) ==
    \/ /\ Answered(s)
       /\ UNCHANGED <<totalRequests, cycles, transport, timer>>
    \/ /\ ~Answered(s)
       /\ OnResponseComplete(s)

\* abort_stream resets this stream only.
AbortStream(s) ==
    \/ /\ transport # "open" /\ UNCHANGED <<wire, disconnected, writePaused>>
    \/ /\ transport = "open"
       /\ wire' = [wire EXCEPT ![s] = "reset"]
       /\ disconnected' = [disconnected EXCEPT ![s] = TRUE]
       /\ Write

-----------------------------------------------------------------------------
(* data_received: one chunk, any number of events                           *)

DataReceived ==
    /\ transport = "open" /\ ~inFeed
    /\ inFeed' = TRUE /\ heard' = TRUE /\ timer' = FALSE
    /\ UNCHANGED <<transport, listed, told, writePaused, totalRequests, cycle,
                   cycles, inVars, wakeVars, outVars, disconnected, task, sending>>

\* The events are handled: flush, and re-arm the timer of an idle connection.
NeverRearms ==                                                  \* mutant
    /\ inFeed /\ inFeed' = FALSE /\ Write
    /\ UNCHANGED <<transport, listed, heard, told, timer, totalRequests, cycle,
                   cycles, inVars, wakeVars, outVars, disconnected, task, sending>>
FeedDone ==
    /\ inFeed
    /\ inFeed' = FALSE
    /\ timer' = (timer \/ (cycles = {} /\ transport = "open"))
    /\ Write
    /\ UNCHANGED <<transport, listed, heard, told, totalRequests, cycle, cycles,
                   inVars, wakeVars, outVars, disconnected, task, sending>>

\* RemoteProtocolError: the events before it were handled; flush and close.
FeedFails ==
    /\ inFeed
    /\ inFeed' = FALSE
    /\ transport' = Closed(transport)
    /\ Write
    /\ UNCHANGED <<listed, heard, told, timer, totalRequests, cycle, cycles,
                   inVars, wakeVars, outVars, disconnected, task, sending>>

\* handle_request.  "over" is the outcome of the limit_concurrency test, which
\* counts other connections too; a connection told to stop refuses as well.
HandleRequest(over) ==
    LET s == cycle + 1
    IN  /\ inFeed /\ cycle < NumRequests
        /\ Cardinality(Tasks) >= LimitConcurrency => over
        /\ cycle' = s
        /\ cycles' = cycles \cup {s}
        /\ task' = [task EXCEPT ![s] = IF told \/ over THEN "canned" ELSE "running"]
        /\ UNCHANGED <<connVars, flowVars, inVars, wakeVars, outVars,
                       disconnected, sending>>

\* DATA for a stream in progress; frames for any other are dropped.
HandleData(s) ==
    /\ inFeed /\ s \in cycles /\ ~complete[s] /\ moreBody[s] /\ body[s] < MaxBody
    /\ body' = [body EXCEPT ![s] = @ + 1]
    /\ event' = [event EXCEPT ![s] = TRUE]
    /\ UNCHANGED <<connVars, flowVars, cycle, cycles, moreBody, receiving,
                   outVars, disconnected, task, sending>>

HandleEndOfMessage(s) ==
    /\ inFeed /\ s \in cycles /\ ~complete[s] /\ moreBody[s]
    /\ moreBody' = [moreBody EXCEPT ![s] = FALSE]
    /\ event' = [event EXCEPT ![s] = TRUE]
    /\ UNCHANGED <<connVars, flowVars, cycle, cycles, body, receiving, outVars,
                   disconnected, task, sending>>

\* RST_STREAM: the stream is forgotten and its application told, unless it took
\* its response to be complete.
ResetUnsaid(s) ==                                               \* mutant
    /\ inFeed /\ s \in cycles
    /\ cycles' = cycles \ {s}
    /\ disconnected' = [disconnected EXCEPT ![s] = @ \/ ~complete[s]]
    /\ wire' = [wire EXCEPT ![s] = "reset"]
    /\ OnStreamClosed(cycles \ {s})
    /\ UNCHANGED <<listed, inFeed, heard, told, writePaused, totalRequests,
                   cycle, inVars, wakeVars, started, complete, task, sending>>
HandleRstStream(s) ==
    /\ inFeed /\ s \in cycles
    /\ cycles' = cycles \ {s}
    /\ disconnected' = [disconnected EXCEPT ![s] = @ \/ ~complete[s]]
    /\ event' = [event EXCEPT ![s] = @ \/ ~complete[s]]
    /\ wire' = [wire EXCEPT ![s] = "reset"]
    /\ OnStreamClosed(cycles \ {s})
    /\ UNCHANGED <<listed, inFeed, heard, told, writePaused, totalRequests,
                   cycle, inVars, receiving, started, complete, task, sending>>

\* GOAWAY from the client drains like shutdown().
HandleGoAway ==
    /\ inFeed
    /\ told' = TRUE
    /\ transport' = IF cycles = {} THEN Closed(transport) ELSE transport
    /\ UNCHANGED <<listed, inFeed, heard, flowVars, cycle, cycles, inVars,
                   wakeVars, outVars, disconnected, task, sending>>

-----------------------------------------------------------------------------
(* receive() and send()                                                     *)

\* The body is handed over, unless there is only a disconnect to report.
TakeBody(s) ==
    body' = IF disconnected[s] \/ complete[s] THEN body
                                              ELSE [body EXCEPT ![s] = 0]

\* message_event is set already: receive() does not suspend.
ReceiveReturns(s) ==
    /\ ~inFeed /\ task[s] = "running" /\ receiving[s] = "no"
    /\ ~disconnected[s] /\ ~complete[s] /\ event[s]
    /\ event' = [event EXCEPT ![s] = FALSE]
    /\ TakeBody(s)
    /\ UNCHANGED <<connVars, flowVars, cycle, cycles, moreBody, receiving,
                   outVars, disconnected, task, sending>>

ReceiveWaits(s) ==
    /\ ~inFeed /\ task[s] = "running" /\ receiving[s] = "no"
    /\ ~disconnected[s] /\ ~complete[s] /\ ~event[s]
    /\ receiving' = [receiving EXCEPT ![s] = "waiting"]
    /\ UNCHANGED <<connVars, flowVars, cycle, cycles, inVars, event, outVars,
                   disconnected, task, sending>>

ReceiveWakes(s) ==
    /\ ~inFeed /\ receiving[s] = "waiting" /\ event[s]
    /\ receiving' = [receiving EXCEPT ![s] = "no"]
    /\ event' = [event EXCEPT ![s] = FALSE]
    /\ TakeBody(s)
    /\ UNCHANGED <<connVars, flowVars, cycle, cycles, moreBody, outVars,
                   disconnected, task, sending>>

\* What the code in s's task may send next: an application anything, the
\* canned 500 and 503 responses their two messages.
Offers(s, m) == \/ task[s] = "running"
                \/ task[s] = "canned" /\ m = "start"
                \/ task[s] = "cannedBody" /\ m = "last"

\* http.response.start: response_started is set before zttp may refuse.
SendStart(s) ==
    /\ ~started[s]
    /\ started' = [started EXCEPT ![s] = TRUE]
    /\ Write
    /\ UNCHANGED <<complete, wire, event, totalRequests, cycles, transport, timer>>

\* The last http.response.body that fits: END_STREAM, and the stream is over.
SendLast(s) ==
    /\ started[s] /\ ~complete[s]
    /\ complete' = [complete EXCEPT ![s] = TRUE]
    /\ event' = [event EXCEPT ![s] = TRUE]
    /\ wire' = [wire EXCEPT ![s] = "ended"]
    /\ OnResponseComplete(s)
    /\ Write
    /\ UNCHANGED started

\* end_message() of a stream whose head zttp refused: it raises with
\* response_complete set, and the stream is neither ended nor reported.
EndRefused(s) ==
    /\ task[s] = "running" /\ started[s] /\ ~complete[s]
    /\ complete' = [complete EXCEPT ![s] = TRUE]
    /\ event' = [event EXCEPT ![s] = TRUE]
    /\ UNCHANGED <<started, wire, writePaused, totalRequests, cycles, transport, timer>>

\* A part of the body, or a message that raises: sent too early or too late,
\* or longer or shorter than the declared length.
SendOther(s, m) ==
    /\ task[s] = "running" /\ (m = "start" => started[s])
    /\ \/ m = "part" /\ started[s] /\ ~complete[s] /\ Write
       \/ UNCHANGED writePaused
    /\ UNCHANGED <<outVars, event, totalRequests, cycles, transport, timer>>

\* Nothing reaches a disconnected stream; a canned response ends all the same.
SendNothing(s, m) ==
    /\ IF task[s] = "cannedBody"
         THEN OnResponseComplete(s)
         ELSE UNCHANGED <<totalRequests, cycles, transport, timer>>
    /\ UNCHANGED <<outVars, event, writePaused>>

\* send() from after its drain; a canned response goes on, or ends its task.
Transmit(s, m) ==
    /\ IF disconnected[s]
         THEN SendNothing(s, m)
         ELSE \/ m = "start" /\ SendStart(s)
              \/ m = "last" /\ (SendLast(s) \/ EndRefused(s))
              \/ SendOther(s, m)
    /\ task' = [task EXCEPT ![s] = CASE @ = "canned" -> "cannedBody"
                                     [] @ = "cannedBody" -> "done"
                                     [] OTHER -> @]
    /\ UNCHANGED <<listed, inFeed, heard, told, cycle, inVars, receiving,
                   disconnected>>

Send(s, m) ==
    /\ ~inFeed /\ sending[s] = "no" /\ Offers(s, m)
    /\ ~writePaused \/ disconnected[s]
    /\ Transmit(s, m)
    /\ UNCHANGED sending

\* await flow.drain(): the write buffer is full.
SendWaits(s) ==
    /\ ~inFeed /\ sending[s] = "no" /\ task[s] \in Live
    /\ writePaused /\ ~disconnected[s]
    /\ sending' = [sending EXCEPT ![s] = "waiting"]
    /\ UNCHANGED <<connVars, flowVars, cycle, cycles, inVars, wakeVars, outVars,
                   disconnected, task>>

SendWakes(s, m) ==
    /\ ~inFeed /\ sending[s] = "woken" /\ Offers(s, m)
    /\ sending' = [sending EXCEPT ![s] = "no"]
    /\ Transmit(s, m)

-----------------------------------------------------------------------------
(* The end of the application: run_asgi                                     *)

\* The task is over: an unfinished stream is reset, the cycle reported.
LeavesStream(s) == UNCHANGED <<wire, disconnected, writePaused>> /\ OnTaskEnd(s)
                                                                \* mutant
Abandon(s) == AbortStream(s) /\ OnTaskEnd(s)

\* The application is over, and its own calls with it: "500" goes on to
\* send_500_response, "abort" resets the stream, "end" leaves it as it is.
AppEnds(s, how) ==
    /\ ~inFeed /\ task[s] = "running"
    /\ receiving' = [receiving EXCEPT ![s] = "no"]
    /\ sending' = [sending EXCEPT ![s] = "no"]
    /\ task' = [task EXCEPT ![s] = IF how = "500" THEN "canned" ELSE "done"]
    /\ CASE how = "500" -> UNCHANGED <<wire, disconnected, writePaused,
                                       totalRequests, cycles, transport, timer>>
         [] how = "abort" -> Abandon(s)
         [] how = "end" -> /\ OnTaskEnd(s)
                           /\ UNCHANGED <<wire, disconnected, writePaused>>
    /\ UNCHANGED <<listed, inFeed, heard, told, cycle, inVars, event, started,
                   complete>>

\* An exception, or cancellation by the server's shutdown timeout.
AppRaises(s) == AppEnds(s, IF started[s] THEN "abort" ELSE "500")

\* A value other than None.
AppReturnsValue(s) == sending[s] = "no" /\ AppEnds(s, "abort")

AppReturns(s) ==
    /\ sending[s] = "no"
    /\ AppEnds(s, CASE disconnected[s] \/ complete[s] -> "end"
                    [] ~disconnected[s] /\ ~started[s] -> "500"
                    [] OTHER -> "abort")

-----------------------------------------------------------------------------
(* Timer, transport and server                                              *)

KeepAliveTimeout ==
    /\ timer /\ ~inFeed
    /\ timer' = FALSE
    /\ transport' = Closed(transport)
    /\ UNCHANGED <<listed, inFeed, heard, told, writePaused, totalRequests,
                   cycle, cycles, inVars, wakeVars, outVars, disconnected, task,
                   sending>>

\* The transport dies, or is told to close by an end of file; then it reports.
TransportEnds ==
    /\ transport = "open" /\ ~inFeed
    /\ transport' = "closing"
    /\ UNCHANGED <<listed, inFeed, heard, told, flowVars, cycle, cycles, inVars,
                   wakeVars, outVars, disconnected, task, sending>>

\* FlowControl.resume_writing wakes every send() waiting in drain().
WakeSenders ==
    /\ writePaused' = FALSE
    /\ sending' = [s \in Requests |->
                     IF sending[s] = "waiting" THEN "woken" ELSE sending[s]]

ConnectionLost ==
    /\ transport = "closing" /\ ~inFeed
    /\ transport' = "lost"
    /\ listed' = FALSE
    /\ disconnected' = [s \in Requests |-> disconnected[s] \/
                                           (s \in cycles /\ ~complete[s])]
    /\ event' = [s \in Requests |-> event[s] \/ s \in cycles]
    /\ WakeSenders
    /\ timer' = FALSE
    /\ UNCHANGED <<inFeed, heard, told, totalRequests, cycle, cycles, inVars,
                   receiving, outVars, task>>

ResumeWriting ==
    /\ writePaused /\ transport # "lost" /\ ~inFeed
    /\ WakeSenders
    /\ UNCHANGED <<connVars, timer, totalRequests, cycle, cycles, inVars,
                   wakeVars, outVars, disconnected, task>>

\* Server.shutdown calls shutdown() on every connection it lists; after a
\* GOAWAY it changes nothing.
Shutdown ==
    /\ listed /\ ~told /\ ~inFeed
    /\ told' = TRUE
    /\ transport' = IF cycles = {} THEN Closed(transport) ELSE transport
    /\ UNCHANGED <<listed, inFeed, heard, flowVars, cycle, cycles, inVars,
                   wakeVars, outVars, disconnected, task, sending>>

-----------------------------------------------------------------------------
FrameStep ==
    \/ DataReceived \/ FeedDone \/ FeedFails
    \/ \E over \in BOOLEAN : HandleRequest(over)
    \/ \E s \in Requests :
          HandleData(s) \/ HandleEndOfMessage(s) \/ HandleRstStream(s)
    \/ HandleGoAway

AppStep(s) ==
    \/ ReceiveReturns(s) \/ ReceiveWaits(s) \/ ReceiveWakes(s)
    \/ \E m \in Messages : Send(s, m) \/ SendWakes(s, m)
    \/ SendWaits(s)
    \/ AppRaises(s) \/ AppReturnsValue(s) \/ AppReturns(s)

TransportStep ==
    KeepAliveTimeout \/ TransportEnds \/ ConnectionLost \/ ResumeWriting \/ Shutdown

Next == FrameStep \/ (\E s \in Requests : AppStep(s)) \/ TransportStep

Spec == Init /\ [][Next]_vars

-----------------------------------------------------------------------------
(* Safety                                                                   *)

\* limit_max_requests counts a stream once, whichever of its last message and
\* the end of its task comes first, reset or not (275-278, 405-407, 499-504).
CountedOnce ==
    totalRequests = Cardinality({s \in Requests : Answered(s) \/ task[s] = "done"})

\* A connection told to stop (shutdown() or GOAWAY) stays open only while a
\* stream is in progress, in whatever order the streams end (185-188, 290-293).
DrainWillClose ==
    told /\ transport = "open" => \E s \in cycles : task[s] \in Live

\* An idle connection that was heard once has its keep-alive timer running,
\* also after frames that concern no stream (140-146, 290-296).
IdleIsTimed ==
    transport = "open" /\ heard /\ ~inFeed /\ cycles = {} => timer

\* Whatever receive() waits for sets its event and whatever drain() waits for
\* wakes every stream's send(): resets and a lost connection included
\* (107-112, 176-182, 261-263, 317-327, 499-500).
NoLostWakeup ==
    \A s \in Requests :
        /\ receiving[s] = "waiting" /\ ~event[s] =>
              ~complete[s] /\ ~disconnected[s] /\ body[s] = 0
        /\ sending[s] = "waiting" => writePaused /\ transport # "lost"

\* An application that ended leaves no half-written stream on an open
\* connection: its client got END_STREAM or RST_STREAM (380-415); except by an
\* application that let go the error of a refused end (499-501).
NoStreamLeftOpen ==
    \A s \in Requests :
        transport = "open" /\ task[s] = "done" /\ wire[s] = "open" => complete[s]

\* The inductive invariant behind them.  A stream in progress was not ended
\* and has a task at work; told to stop, the connection is open for one of them;
\* a stream is disconnected by its reset or with the whole connection.
StreamsInv ==
    /\ told /\ transport = "open" => cycles # {}
    /\ transport = "open" => listed
    /\ transport = "lost" => ~writePaused
    /\ \A s \in Requests :
          /\ s > cycle => /\ task[s] = "none" /\ s \notin cycles
                          /\ ~event[s] /\ ~started[s] /\ ~complete[s] /\ ~disconnected[s]
          /\ s \in cycles => task[s] \in Live /\ ~Answered(s)
          /\ Answered(s) => complete[s]
          /\ complete[s] => started[s]
          /\ task[s] \in {"canned", "cannedBody"} => ~complete[s]
          /\ receiving[s] # "no" => task[s] = "running"
          /\ disconnected[s] /\ transport = "open" => wire[s] = "reset"
          /\ ~event[s] /\ ~complete[s] /\ ~disconnected[s] => body[s] = 0

\* The parts together are inductive.
Http2Inv ==
    /\ Http2TypeOK /\ StreamsInv /\ CountedOnce /\ IdleIsTimed /\ NoLostWakeup
    /\ NoStreamLeftOpen

\* docs/server-behavior.md:65: the keep-alive period runs "Between requests":
\* it is not running while a stream is in progress.
TimerBetweenRequests ==
    timer /\ transport = "open" /\ ~inFeed => cycles = {}
=============================================================================
