-------------------------------- MODULE Http1 --------------------------------
(***************************************************************************)
(* One HTTP/1.1 connection served by the protocols that leave pipelined      *)
(* requests in their parser: H11Protocol (impl = "h11") and ZttpProtocol     *)
(* (impl = "zttp").  A new request is handled only after the response to the *)
(* one before it, so every cycle but the newest is complete, though its      *)
(* task may still run.                                                       *)
(*                                                                          *)
(* ours and theirs are the states of the two sides of the library's          *)
(* connection object.  Of h11 they are exactly its state machine's, as the   *)
(* code drives it; zttp's are taken to be the same, and what it does with a  *)
(* message that does not fit them is left open.  handle_events handles any   *)
(* number of events of one chunk; inFeed is TRUE while it does, called from  *)
(* data_received or from on_response_complete.  An exception of send() goes  *)
(* to the application, which may let it out or catch it and go on.  The      *)
(* headers of the configuration are taken to be ones the library accepts.    *)
(***************************************************************************)
EXTENDS HttpCycles

CONSTANTS
    HighWater,           \* HIGH_WATER_LIMIT, in chunks
    WebSockets           \* a websocket protocol is configured

VARIABLES
    impl,                \* the protocol class
    transport,           \* "open", "closing" (close() called) or "lost" (reported)
    reading,             \* the transport reads
    listed,              \* the protocol is in server_state.connections
    upgraded,            \* transport.set_protocol gave the transport away
    inFeed, told,        \* events are handled; shutdown() was called
    readPaused, writePaused, timer, totalRequests,
    \* the library's connection object
    ours, theirs,
    held,                \* it holds bytes that follow the request
    wireKeep,            \* neither side's headers ended keep-alive
    \* cycles: the newest, and one of everything per request
    cycle,
    keepAlive,           \* the newest cycle's keep_alive
    waiting100,          \* the newest cycle's waiting_for_100_continue
    disconnected, started, complete, body, moreBody, event,
    task, receiving, sending

sideVars == <<impl, listed, upgraded, told>>
flowVars == <<reading, readPaused>>
libVars  == <<ours, theirs, held, wireKeep>>
inVars   == <<body, moreBody>>
wakeVars == <<event, receiving>>
outVars  == <<started, complete>>
vars == <<sideVars, transport, inFeed, flowVars, writePaused, timer,
          totalRequests, libVars, cycle, keepAlive, waiting100, disconnected,
          inVars, wakeVars, outVars, task, sending>>

Tasks == {r \in Requests : task[r] \in Live}

ConnTypeOK ==
    /\ impl \in {"h11", "zttp"} /\ transport \in {"open", "closing", "lost"}
    /\ listed \in BOOLEAN /\ upgraded \in BOOLEAN /\ inFeed \in BOOLEAN
    /\ told \in BOOLEAN /\ timer \in BOOLEAN /\ totalRequests \in Nat
FlowTypeOK ==
    reading \in BOOLEAN /\ readPaused \in BOOLEAN /\ writePaused \in BOOLEAN
LibTypeOK ==
    /\ ours \in {"idle", "response", "body", "done", "mustClose", "closed", "error"}
    /\ theirs \in {"idle", "body", "done", "mustClose", "error"}
    /\ held \in BOOLEAN /\ wireKeep \in BOOLEAN
CycleTypeOK ==
    /\ cycle \in 0 .. NumRequests /\ keepAlive \in BOOLEAN /\ waiting100 \in BOOLEAN
    /\ disconnected \in [Requests -> BOOLEAN] /\ started \in [Requests -> BOOLEAN]
    /\ complete \in [Requests -> BOOLEAN] /\ moreBody \in [Requests -> BOOLEAN]
    /\ event \in [Requests -> BOOLEAN] /\ body \in [Requests -> Nat]
TaskTypeOK ==
    /\ task \in [Requests -> Live \cup {"none", "done"}]
    /\ receiving \in [Requests -> {"no", "waiting"}]
    /\ sending \in [Requests -> {"no", "waiting", "woken"}]
Http1TypeOK == ConnTypeOK /\ FlowTypeOK /\ LibTypeOK /\ CycleTypeOK /\ TaskTypeOK

\* connection_made.
Init ==
    /\ impl \in {"h11", "zttp"}
    /\ transport = "open" /\ reading = TRUE /\ listed = TRUE /\ upgraded = FALSE
    /\ inFeed = FALSE /\ told = FALSE /\ readPaused = FALSE /\ writePaused = FALSE
    /\ timer = FALSE /\ totalRequests = 0
    /\ ours = "idle" /\ theirs = "idle" /\ held = FALSE /\ wireKeep = TRUE
    /\ cycle = 0 /\ keepAlive = TRUE /\ waiting100 = FALSE
    /\ disconnected = All(FALSE) /\ started = All(FALSE) /\ complete = All(FALSE)
    /\ body = All(0) /\ moreBody = All(TRUE) /\ event = All(FALSE)
    /\ task = All("none") /\ receiving = All("no") /\ sending = All("no")

-----------------------------------------------------------------------------
(* Helpers                                                                  *)

\* transport.write(): a slow peer may make it call pause_writing() at once.
Write == \/ UNCHANGED writePaused
         \/ transport = "open" /\ ~upgraded /\ writePaused' = TRUE

\* FlowControl.pause_reading and resume_reading: the transport follows.
PauseReading == readPaused' = TRUE /\ reading' = (reading /\ readPaused)
ResumeReading == readPaused' = FALSE /\ reading' = (reading \/ readPaused)

SetEvent(r) == event' = [event EXCEPT ![r] = TRUE]

\* self.cycle is None or self.cycle.response_complete
Unoccupied == cycle = 0 \/ (cycle # 0 /\ complete[cycle])

\* The cycle takes its response for complete, but the library refused its end:
\* nothing was counted, no timer is armed and nobody is to close (h11_impl.py:512).
Abandoned == Unoccupied /\ totalRequests # cycle

\* h11: an exchange that ends keep-alive, or our error, leaves the peer's DONE
\* side in MUST_CLOSE.
Theirs(state, keep) ==
    IF impl = "h11" /\ state = "done" /\ ~keep THEN "mustClose" ELSE state

\* The rest of a request whose response is complete is dropped.
Drops == IF impl = "h11" THEN ours = "done" ELSE complete[cycle]

-----------------------------------------------------------------------------
(* data_received and handle_events                                          *)

DataReceived ==
    /\ transport = "open" /\ reading /\ ~inFeed /\ ~upgraded
    /\ inFeed' = TRUE
    /\ timer' = FALSE
    /\ held' = (held \/ theirs = "done")
    /\ UNCHANGED <<sideVars, transport, flowVars, writePaused, totalRequests,
                   ours, theirs, wireKeep, cycle, keepAlive, waiting100,
                   disconnected, inVars, wakeVars, outVars, task, sending>>

\* NEED_DATA.  zttp says so too of bytes after a request still being answered.
FeedDone ==
    /\ inFeed
    /\ impl = "h11" => theirs # "mustClose" /\ ~held
    /\ inFeed' = FALSE
    /\ held' \in IF impl = "zttp" /\ theirs = "done" THEN {held, TRUE} ELSE {FALSE}
    /\ UNCHANGED <<sideVars, transport, flowVars, writePaused, timer,
                   totalRequests, ours, theirs, wireKeep, cycle, keepAlive,
                   waiting100, disconnected, inVars, wakeVars, outVars, task,
                   sending>>

\* h11.PAUSED: a pipelined request waits for the response before it.
FeedPaused ==
    /\ inFeed /\ impl = "h11" /\ theirs = "done"
    /\ inFeed' = FALSE /\ held' = TRUE
    /\ PauseReading
    /\ UNCHANGED <<sideVars, transport, writePaused, timer, totalRequests, ours,
                   theirs, wireKeep, cycle, keepAlive, waiting100, disconnected,
                   inVars, wakeVars, outVars, task, sending>>

\* A new RequestResponseCycle and its task: the application's, or the 503.
StartCycle(over, expects) ==
    /\ cycle' = cycle + 1
    /\ keepAlive' = TRUE /\ waiting100' = expects
    /\ task' = [task EXCEPT ![cycle'] = IF over THEN "canned" ELSE "running"]

\* A request head.  ka: neither version nor headers end keep-alive; "over" is
\* the limit_concurrency test, which counts other connections too.
HandleRequest(over, ka, expects) ==
    /\ inFeed /\ theirs = "idle" /\ cycle < NumRequests
    /\ Cardinality(Tasks) >= LimitConcurrency => over
    /\ timer' = FALSE
    /\ theirs' = "body" /\ ours' = "response" /\ wireKeep' = ka
    /\ StartCycle(over, expects)
    /\ UNCHANGED <<sideVars, transport, inFeed, flowVars, writePaused,
                   totalRequests, held, disconnected, inVars, wakeVars,
                   outVars, sending>>

\* handle_websocket_upgrade: the transport changes hands before a cycle is
\* made, and before the keep-alive timer is unset.
UpgradeToWebSocket ==
    /\ inFeed /\ theirs = "idle" /\ WebSockets
    /\ inFeed' = FALSE
    /\ upgraded' = TRUE /\ listed' = FALSE
    /\ ours' = "response" /\ theirs' = "body"
    /\ UNCHANGED <<impl, told, transport, flowVars, writePaused, timer,
                   totalRequests, held, wireKeep, cycle, keepAlive, waiting100,
                   disconnected, inVars, wakeVars, outVars, task, sending>>

HandleData ==
    /\ inFeed /\ theirs = "body" /\ ~Drops /\ body[cycle] < MaxBody
    /\ body' = [body EXCEPT ![cycle] = @ + 1]
    /\ IF body[cycle] + 1 > HighWater THEN PauseReading ELSE UNCHANGED flowVars
    /\ SetEvent(cycle)
    /\ UNCHANGED <<sideVars, transport, inFeed, writePaused, timer,
                   totalRequests, libVars, cycle, keepAlive, waiting100,
                   disconnected, moreBody, receiving, outVars, task, sending>>

\* The end of the request: h11 stops there when the client must close; after
\* an early response the next request may follow, unless the library did not get
\* all of it: then start_next_cycle raises and the event loop closes.
EndOfRequest ==
    \/ /\ ~Drops
       /\ theirs' = Theirs("done", wireKeep /\ ours # "error")
       /\ inFeed' = (theirs' = "done")
       /\ moreBody' = [moreBody EXCEPT ![cycle] = FALSE]
       /\ SetEvent(cycle)
       /\ UNCHANGED <<ours, reading, transport>>
    \/ /\ Drops /\ ours = "done"
       /\ ours' = "idle" /\ theirs' = "idle"
       /\ IF impl = "h11"
            THEN reading' = TRUE /\ UNCHANGED <<moreBody, event>>
            ELSE /\ moreBody' = [moreBody EXCEPT ![cycle] = FALSE]
                 /\ SetEvent(cycle)
                 /\ UNCHANGED reading
       /\ UNCHANGED <<inFeed, transport>>
    \/ /\ Drops /\ ours # "done"
       /\ theirs' = "done" /\ inFeed' = FALSE
       /\ moreBody' = [moreBody EXCEPT ![cycle] = FALSE]
       /\ SetEvent(cycle)
       /\ transport' = Closed(transport)
       /\ UNCHANGED <<ours, reading>>

HandleEndOfMessage ==
    /\ inFeed /\ theirs = "body"
    /\ EndOfRequest
    /\ UNCHANGED <<sideVars, readPaused, writePaused, timer,
                   totalRequests, held, wireKeep, cycle, keepAlive, waiting100,
                   disconnected, body, receiving, outVars, task, sending>>

\* RemoteProtocolError.  A 400 is written unless a response was begun: then h11
\* refuses it, data_received raises and the event loop closes the transport.
ParseError ==
    /\ inFeed
    /\ inFeed' = FALSE
    /\ theirs' = "error"
    /\ ours' = IF ours \in {"idle", "response"} THEN "mustClose" ELSE "error"
    /\ transport' = Closed(transport)
    /\ Write
    /\ UNCHANGED <<sideVars, flowVars, timer, totalRequests, held, wireKeep,
                   cycle, keepAlive, waiting100, disconnected, inVars, wakeVars,
                   outVars, task, sending>>

-----------------------------------------------------------------------------
(* receive()                                                                *)

\* The 100 Continue is written by the first receive() on an open transport.
Continue100(r) ==
    IF r = cycle /\ waiting100 /\ transport = "open"
      THEN waiting100' = FALSE /\ Write
      ELSE UNCHANGED <<waiting100, writePaused>>

ReceiveReturns(r) ==
    /\ ~inFeed /\ task[r] = "running" /\ receiving[r] = "no"
    /\ Continue100(r)
    /\ \/ /\ disconnected[r] \/ complete[r]
          /\ UNCHANGED <<flowVars, event, body>>
       \/ /\ ~disconnected[r] /\ ~complete[r] /\ event[r]
          /\ ResumeReading
          /\ event' = [event EXCEPT ![r] = FALSE]
          /\ body' = [body EXCEPT ![r] = 0]
    /\ UNCHANGED <<sideVars, transport, inFeed, timer, totalRequests, libVars,
                   cycle, keepAlive, disconnected, moreBody, receiving, outVars,
                   task, sending>>

ReceiveWaits(r) ==
    /\ ~inFeed /\ task[r] = "running" /\ receiving[r] = "no"
    /\ ~disconnected[r] /\ ~complete[r] /\ ~event[r]
    /\ Continue100(r)
    /\ ResumeReading
    /\ receiving' = [receiving EXCEPT ![r] = "waiting"]
    /\ UNCHANGED <<sideVars, transport, inFeed, timer, totalRequests, libVars,
                   cycle, keepAlive, disconnected, inVars, event, outVars, task,
                   sending>>

ReceiveWakes(r) ==
    /\ ~inFeed /\ receiving[r] = "waiting" /\ event[r]
    /\ receiving' = [receiving EXCEPT ![r] = "no"]
    /\ event' = [event EXCEPT ![r] = FALSE]
    /\ body' = IF disconnected[r] \/ complete[r] THEN body
                                                 ELSE [body EXCEPT ![r] = 0]
    /\ UNCHANGED <<sideVars, transport, inFeed, flowVars, writePaused, timer,
                   totalRequests, libVars, cycle, keepAlive, waiting100,
                   disconnected, moreBody, outVars, task, sending>>

-----------------------------------------------------------------------------
(* send().  Only the newest cycle can take a message; one sent after its     *)
(* response is complete raises and changes nothing, so it has no action.     *)

Offers(r, m) == \/ task[r] = "running"
                \/ task[r] = "canned" /\ m = "start"
                \/ task[r] = "cannedBody" /\ m = "last"

Advanced(r) == [task EXCEPT ![r] = CASE @ = "canned" -> "cannedBody"
                                     [] @ = "cannedBody" -> "done"
                                     [] OTHER -> @]

\* http.response.start.  closes: its headers end keep-alive.
SendStart(r, closes) ==
    /\ ~started[r] /\ ours = "response"
    /\ task[r] = "canned" => closes
    /\ started' = [started EXCEPT ![r] = TRUE]
    /\ waiting100' = FALSE
    /\ ours' = "body"
    /\ wireKeep' = (wireKeep /\ ~closes)
    /\ theirs' = Theirs(theirs, wireKeep')
    /\ Write
    /\ task' = Advanced(r)
    /\ UNCHANGED <<transport, inFeed, flowVars, timer, totalRequests, held,
                   receiving, complete, event>>

SendPart(r) ==
    /\ started[r] /\ ~complete[r] /\ ours = "body"
    /\ Write
    /\ UNCHANGED <<transport, inFeed, flowVars, timer, totalRequests, libVars,
                   receiving, outVars, waiting100, event, task>>

\* on_response_complete on an open transport: the timer, and what the parser
\* held back; the next request is not looked for before this one's end.
ForgetsHeld ==                                                  \* mutant
    /\ timer' = TRUE
    /\ UNCHANGED flowVars
    /\ ours' = IF theirs = "done" THEN "idle" ELSE "done"
    /\ theirs' = IF theirs = "done" THEN "idle" ELSE theirs
    /\ UNCHANGED <<inFeed, held>>
NextExchange ==
    /\ timer' = TRUE
    /\ ResumeReading
    /\ \/ /\ theirs = "done"
          /\ ours' = "idle" /\ theirs' = "idle"
          /\ inFeed' = held /\ held' = FALSE
       \/ /\ theirs # "done"
          /\ ours' = "done"
          /\ UNCHANGED <<theirs, inFeed, held>>

\* self.conn.our_state is h11.MUST_CLOSE or not self.keep_alive
IgnoresShutdown == ~wireKeep                                    \* mutant
ClosesAfter == ~wireKeep \/ ~keepAlive

\* The last http.response.body, of the right size.
SendLast(r) ==
    /\ started[r] /\ ~complete[r] /\ ours = "body"
    /\ complete' = [complete EXCEPT ![r] = TRUE]
    /\ SetEvent(r)
    /\ totalRequests' = totalRequests + 1
    /\ transport' = IF ClosesAfter THEN Closed(transport) ELSE transport
    /\ \/ transport' = "open" /\ NextExchange
       \/ /\ transport' # "open"
          /\ ours' = "closed"
          /\ UNCHANGED <<theirs, timer, flowVars, inFeed, held>>
    /\ Write
    /\ task' = Advanced(r)
    /\ UNCHANGED <<wireKeep, receiving, started, waiting100>>

\* The library refuses the end of the response when the cycle takes it for
\* complete already: h11 a body too short, zttp whatever follows a failed start.
EndRefused(r) ==
    /\ started[r]
    /\ IF impl = "h11" THEN ours = "body" /\ ours' = "error"
                       ELSE ours # "body" /\ ours' \in {ours, "error"}
    /\ complete' = [complete EXCEPT ![r] = TRUE]
    /\ SetEvent(r)

\* A message of the wrong type, which changes nothing, or one that does not fit:
\* the exception is raised to whoever called send(), and nobody closes.  A start
\* that fails has set response_started already.
SendFails(r, m) ==
    /\ task[r] = "running" \/ ours # (IF m = "start" THEN "response" ELSE "body")
    /\ started' = [started EXCEPT ![r] = @ \/ m = "start"]
    /\ waiting100' = (waiting100 /\ m # "start")
    /\ \/ m = "last" /\ EndRefused(r)
       \/ /\ ours' \in {ours} \cup IF started[r] <=> m # "start" THEN {"error"} ELSE {}
          /\ UNCHANGED <<complete, event>>
    /\ theirs' = Theirs(theirs, ours' # "error")
    /\ task' = IF task[r] = "running" THEN task ELSE [task EXCEPT ![r] = "done"]
    /\ UNCHANGED <<transport, held, wireKeep, inFeed, flowVars, writePaused, timer,
                   totalRequests, receiving>>

\* A disconnected cycle swallows it.
SendNothing(r) ==
    /\ task' = Advanced(r)
    /\ UNCHANGED <<transport, inFeed, flowVars, writePaused, timer,
                   totalRequests, libVars, receiving, outVars, waiting100, event>>

\* send() from after its drain.
Transmit(r, m) ==
    /\ IF disconnected[r]
         THEN SendNothing(r)
         ELSE \/ m = "start" /\ \E closes \in BOOLEAN : SendStart(r, closes)
              \/ m = "part" /\ SendPart(r)
              \/ m = "last" /\ SendLast(r)
              \/ SendFails(r, m)
    /\ UNCHANGED <<sideVars, cycle, keepAlive, disconnected, inVars>>

Send(r, m) ==
    /\ ~inFeed /\ r = cycle /\ ~complete[r] /\ sending[r] = "no" /\ Offers(r, m)
    /\ ~writePaused \/ disconnected[r]
    /\ Transmit(r, m)
    /\ UNCHANGED sending

\* await flow.drain(): the write buffer is full.
SendWaits(r) ==
    /\ ~inFeed /\ r = cycle /\ ~complete[r] /\ sending[r] = "no" /\ task[r] \in Live
    /\ writePaused /\ ~disconnected[r]
    /\ sending' = [sending EXCEPT ![r] = "waiting"]
    /\ UNCHANGED <<sideVars, transport, inFeed, flowVars, writePaused, timer,
                   totalRequests, libVars, cycle, keepAlive, waiting100,
                   disconnected, inVars, wakeVars, outVars, task>>

SendWakes(r, m) ==
    /\ ~inFeed /\ sending[r] = "woken" /\ Offers(r, m)
    /\ sending' = [sending EXCEPT ![r] = "no"]
    /\ Transmit(r, m)

-----------------------------------------------------------------------------
(* The end of the application: run_asgi                                     *)

AppEnds(r, error500, close) ==
    /\ ~inFeed /\ task[r] = "running"
    /\ receiving' = [receiving EXCEPT ![r] = "no"]
    /\ sending' = [sending EXCEPT ![r] = "no"]
    /\ task' = [task EXCEPT ![r] = IF error500 THEN "canned" ELSE "done"]
    /\ transport' = IF close THEN Closed(transport) ELSE transport
    /\ UNCHANGED <<sideVars, inFeed, flowVars, writePaused, timer, totalRequests,
                   libVars, cycle, keepAlive, waiting100, disconnected, inVars,
                   event, outVars>>

\* An exception, or cancellation by the server's shutdown timeout.
AppRaises(r) == AppEnds(r, ~started[r], started[r])

AppReturnsValue(r) == sending[r] = "no" /\ AppEnds(r, FALSE, TRUE)

LeavesOpen(r) ==                                                \* mutant
    /\ sending[r] = "no"
    /\ AppEnds(r, ~started[r] /\ ~disconnected[r], FALSE)
AppReturns(r) ==
    /\ sending[r] = "no"
    /\ AppEnds(r, ~started[r] /\ ~disconnected[r],
                  started[r] /\ ~complete[r] /\ ~disconnected[r])

-----------------------------------------------------------------------------
(* Timer, transport and server                                              *)

\* conn.send(ConnectionClosed()): h11 refuses it inside an exchange.
MayClose == impl = "zttp" \/ ours \in {"idle", "done", "mustClose", "closed"}

KeepAliveTimeout ==
    /\ timer /\ ~inFeed
    /\ timer' = FALSE
    /\ \/ /\ transport = "open" /\ MayClose
          /\ transport' = "closing" /\ ours' = "closed"
       \/ /\ transport = "open" /\ ~MayClose
          /\ ours' = "error" /\ UNCHANGED transport
       \/ transport # "open" /\ UNCHANGED <<transport, ours>>
    /\ UNCHANGED <<sideVars, inFeed, flowVars, writePaused, totalRequests,
                   theirs, held, wireKeep, cycle, keepAlive, waiting100,
                   disconnected, inVars, wakeVars, outVars, task, sending>>

\* The peer half-closes: eof_received returns None and asyncio closes.
EofReceived ==
    /\ transport = "open" /\ ~inFeed /\ reading /\ ~upgraded
    /\ transport' = "closing"
    /\ UNCHANGED <<sideVars, inFeed, flowVars, writePaused, timer, totalRequests,
                   libVars, cycle, keepAlive, waiting100, disconnected, inVars,
                   wakeVars, outVars, task, sending>>

\* FlowControl.resume_writing wakes the send() waiting in drain().
WakeSenders ==
    /\ writePaused' = FALSE
    /\ sending' = [r \in Requests |->
                     IF sending[r] = "waiting" THEN "woken" ELSE sending[r]]

\* connection_lost: without an error after a close(), with one at any time.
\* The newest cycle alone is told.
ConnectionLost(failed) ==
    /\ transport # "lost" /\ ~inFeed /\ ~upgraded
    /\ failed \/ transport = "closing"
    /\ transport' = "lost" /\ listed' = FALSE
    /\ timer' = (timer /\ failed)
    /\ ours' = IF MayClose THEN "closed" ELSE "error"
    /\ WakeSenders
    /\ disconnected' = [r \in Requests |-> disconnected[r] \/
                                           (r = cycle /\ ~complete[r])]
    /\ event' = [r \in Requests |-> event[r] \/ r = cycle]
    /\ UNCHANGED <<impl, upgraded, told, inFeed, flowVars, totalRequests, theirs,
                   held, wireKeep, cycle, keepAlive, waiting100, inVars,
                   receiving, outVars, task>>

\* After an upgrade the transport reports to the websocket protocol.
UpgradedConnectionLost ==
    /\ transport # "lost" /\ upgraded /\ ~inFeed
    /\ transport' = "lost"
    /\ UNCHANGED <<sideVars, inFeed, flowVars, writePaused, timer, totalRequests,
                   libVars, cycle, keepAlive, waiting100, disconnected, inVars,
                   wakeVars, outVars, task, sending>>

ResumeWriting ==
    /\ writePaused /\ transport # "lost" /\ ~inFeed /\ ~upgraded
    /\ WakeSenders
    /\ UNCHANGED <<sideVars, transport, inFeed, flowVars, timer, totalRequests,
                   libVars, cycle, keepAlive, waiting100, disconnected, inVars,
                   wakeVars, outVars, task>>

\* Server.shutdown calls shutdown() once on every connection it lists; h11's
\* raises in the ERROR state, before the transport is closed.
Shutdown ==
    /\ listed /\ ~told /\ ~inFeed
    /\ told' = TRUE
    /\ \/ /\ Unoccupied /\ MayClose
          /\ transport' = Closed(transport) /\ ours' = "closed"
          /\ UNCHANGED keepAlive
       \/ /\ Unoccupied /\ ~MayClose
          /\ UNCHANGED <<transport, ours, keepAlive>>
       \/ /\ ~Unoccupied
          /\ keepAlive' = FALSE /\ UNCHANGED <<transport, ours>>
    /\ UNCHANGED <<impl, listed, upgraded, inFeed, flowVars, writePaused, timer,
                   totalRequests, theirs, held, wireKeep, cycle, waiting100,
                   disconnected, inVars, wakeVars, outVars, task, sending>>

-----------------------------------------------------------------------------
EventStep ==
    \/ DataReceived \/ FeedDone \/ FeedPaused
    \/ \E over, ka, expects \in BOOLEAN : HandleRequest(over, ka, expects)
    \/ HandleData \/ HandleEndOfMessage \/ ParseError \/ UpgradeToWebSocket

AppStep(r) ==
    \/ ReceiveReturns(r) \/ ReceiveWaits(r) \/ ReceiveWakes(r)
    \/ \E m \in Messages : Send(r, m) \/ SendWakes(r, m)
    \/ SendWaits(r)
    \/ AppRaises(r) \/ AppReturnsValue(r) \/ AppReturns(r)

TransportStep ==
    \/ KeepAliveTimeout \/ EofReceived
    \/ \E failed \in BOOLEAN : ConnectionLost(failed)
    \/ UpgradedConnectionLost \/ ResumeWriting \/ Shutdown

Next == EventStep \/ (\E r \in Requests : AppStep(r)) \/ TransportStep

Spec == Init /\ [][Next]_vars

-----------------------------------------------------------------------------
(* Safety                                                                   *)

\* Reading and its pause: the transport agrees with FlowControl although one
\* branch bypasses it (h11_impl.py:277), a receive() never waits for body on a
\* paused transport, and whoever paused it is yet to be answered (196, 272, 536),
\* unless the library refused the end of that answer.
ReadingIsOwned ==
    transport = "open" /\ ~upgraded =>
        /\ reading = ~readPaused
        /\ readPaused /\ ~Abandoned => ~complete[cycle] /\ task[cycle] \in Live
        /\ \A r \in Requests : receiving[r] = "waiting" /\ ~event[r] /\ moreBody[r] => reading

\* What the parser held back behind a request is looked at when the response
\* is complete, and not before its turn (h11_impl.py:336-339); never, if the library
\* refused the end of the response.
HeldHasTurn ==
    held /\ transport = "open" /\ ~upgraded /\ ~inFeed /\ ~Abandoned =>
        cycle # 0 /\ ~complete[cycle] /\ task[cycle] \in Live

\* The keep-alive timer runs only between requests, pipelined ones included
\* (240, 329-331; zttp_impl.py:184, 272-274).
TimerBetweenRequests == timer /\ ~upgraded => Unoccupied

\* A connection told to shut down stays open only for the response that will
\* close it (341-350, 521-525), or because the library refused the end of one,
\* where h11's shutdown() raises, and an earlier one has done all it will do.
DrainWillClose ==
    told /\ transport = "open" /\ ~upgraded /\ ~Abandoned =>
        ~Unoccupied /\ ClosesAfter /\ task[cycle] \in Live

\* Whatever receive() and drain() wait for wakes them, the loss of the connection
\* included (114-127, 267-281, 513).
NoLostWakeup ==
    \A r \in Requests :
        /\ receiving[r] = "waiting" /\ ~event[r] =>
              ~complete[r] /\ ~disconnected[r] /\ body[r] = 0
        /\ sending[r] = "waiting" => writePaused /\ transport # "lost"

-----------------------------------------------------------------------------
(* The inductive invariant behind them.                                     *)

\* Cycles are made one after the other: all before the newest are complete, and
\* it alone may be about to send.  A lost connection disconnects it, and nothing
\* else does.
CyclesInv ==
    \A r \in Requests :
        /\ r > cycle => /\ task[r] = "none" /\ moreBody[r] /\ ~event[r]
                        /\ ~started[r] /\ ~complete[r] /\ ~disconnected[r]
        /\ r < cycle => complete[r]
        /\ sending[r] # "no" => r = cycle /\ ~complete[r] /\ task[r] \in Live
        /\ receiving[r] # "no" => task[r] = "running"
        /\ disconnected[r] => transport = "lost"
        /\ r = cycle /\ ~complete[r] /\ transport = "lost" => disconnected[r]
        /\ ~event[r] /\ ~complete[r] /\ ~disconnected[r] => body[r] = 0

\* Every response but the newest is counted, and that one only if it is complete.
CountInv ==
    /\ totalRequests <= cycle /\ cycle <= totalRequests + 1
    /\ ~Unoccupied => totalRequests + 1 = cycle

\* On an open transport the library is between two exchanges, or reads the rest
\* of a request that was answered early, or is in the exchange of the newest
\* cycle, whose task is at work; and no answered request had ended keep-alive.
\* What it was not told in full it takes for unfinished: no exchange follows.
ExchangeInv ==
    transport = "open" /\ ~upgraded =>
        /\ Abandoned => ours \in {"response", "error"} /\ theirs # "idle"
        /\ Unoccupied /\ ~Abandoned =>
              /\ wireKeep /\ keepAlive
              /\ \/ ours = "idle" /\ theirs = "idle"
                 \/ ours = "done" /\ theirs = "body" /\ cycle # 0
        /\ ~Unoccupied =>
              /\ task[cycle] \in Live
              /\ task[cycle] = "canned" => ~started[cycle]
              /\ task[cycle] = "cannedBody" => started[cycle] /\ ours = "body"
              /\ IF started[cycle] THEN ours \in {"response", "body", "error"}
                                   ELSE ours = "response"
              /\ \/ theirs = "body"
                 \/ theirs = "done" /\ ~moreBody[cycle]
                 \/ /\ theirs = "mustClose" /\ ~moreBody[cycle]
                    /\ ~wireKeep \/ ours = "error"
        /\ held => theirs \in {"done", "mustClose"}

\* Events are handled on an open transport only, and a transport that went to
\* the websocket protocol has no response to write.
FeedInv ==
    /\ inFeed => transport = "open" /\ ~upgraded
    /\ upgraded => Unoccupied
    /\ transport = "open" => upgraded \/ listed

\* The parts together are inductive.
Http1Inv ==
    /\ Http1TypeOK /\ CyclesInv /\ CountInv /\ ExchangeInv /\ FeedInv
    /\ ReadingIsOwned /\ HeldHasTurn /\ TimerBetweenRequests /\ DrainWillClose
    /\ NoLostWakeup

-----------------------------------------------------------------------------
(* Http1 implements the connection the Server relies on.                    *)

Phase == IF Abandoned /\ transport = "open" THEN "adrift" ELSE transport

Connection == INSTANCE HttpConnection WITH
    phase <- Phase,
    accepted <- cycle,
    answered <- totalRequests,
    last <- IF wireKeep /\ keepAlive THEN {} ELSE {cycle},
    tasks <- Tasks
=============================================================================
