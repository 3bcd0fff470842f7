# uvicorn in TLA+

Specifications of uvicorn's control: what its protocols, its server, its
lifespan handling, its WSGI adapter and its process supervisor do in every
order of events, as TLA+ modules checked by TLC on small instances and proved
safe by TLAPS for every size. File names and line numbers refer to this
repository; `PROJECT.json` maps every definition to the lines it stands for.

## 1. The system

uvicorn runs an ASGI application behind asyncio. Within one process everything
runs on one event loop, so concurrency is the interleaving of *callbacks* (the
transport's and the timers') with *tasks* that stop at each `await`. Signals and
the supervisor's processes are the only truly concurrent actors.

| Component | State it keeps | Operations | Talks to |
|---|---|---|---|
| HTTP/1.1, httptools (`protocols/http/httptools_impl.py`, `flow_control.py`) | transport, flow control flags, `cycle`, `pipeline`, keep-alive timer; per request a `RequestResponseCycle` and its task | parser callbacks, `receive`, `send`, `run_asgi`, `shutdown`, timeout, connection callbacks | the application (send/receive), `ServerState` (connections, tasks, count), WebSocket protocols (upgrade) |
| HTTP/1.1, h11 and zttp (`h11_impl.py`, `zttp_impl.py`) | the same, with the library's state machine; pipelined bytes stay in the parser | the same | the same |
| Version detection (`auto_zttp_impl.py`) | the first bytes, a timer | sniff, ALPN, hand the transport over | the two zttp protocols |
| HTTP/2, zttp (`zttp_h2_impl.py`) | one connection, many streams with a cycle each, one flow control | events per stream, resets, drain, close after the last | the same |
| WebSockets (`websockets_sansio_impl.py`, `wsproto_impl.py`, `websockets_impl.py`) | handshake and close state, queue, ping timers, read pause | handshake, messages, close from either side, `shutdown` | the application, `ServerState` |
| Server (`server.py`) | `started`, `should_exit`, `force_exit`, captured signals, `ServerState` | `startup`, `main_loop`/`on_tick`, `shutdown`, `handle_exit` | lifespan, every protocol's `shutdown()` |
| Lifespan (`lifespan/on.py`, `off.py`) | a queue, two events, four flags, the application's task | `startup`, `shutdown`, `main`, `send`, `receive` | the application, the server |
| Process supervisor (`supervisors/multiprocess.py`) | workers, signal queue, `should_exit`; a pipe per worker | signals, scaling, rolling restart, health checks | workers (pipe, SIGTERM, SIGKILL, exit codes) |
| Reload supervisors (`supervisors/*reload.py`) | file times, the child process | detect a change, restart | the child process |
| WSGI middleware (`middleware/wsgi.py`) | send queue and event between a thread and the loop | `start_response`, `sender`, `receive` of the body | a thread pool |
| Proxy headers (`middleware/proxy_headers.py`) | the trusted set | one pure function per request | the application |
| Configuration, command line, loops, Gunicorn workers, helpers | options | start-up only | everything |

**What is hard.** Pipelining (a callback replaces `self.cycle` while an older
task still answers); state read after an `await` that four other parties may
have changed; reading and writing paused in one callback and resumed in five;
a timer against the next request; `shutdown()` against all of these; the two
sets a shutdown waits for, one after the other; an application that ignores the
lifespan protocol; signals between any two steps; workers that hang, fail or
answer late while a restart is under way.

**What makes each component correct.**

* *HTTP/1.1*: responses complete, one at a time and in request order; nothing
  started behind a response that closes; body delivered once and in full; no
  `receive()` or `send()` left waiting without a reason; no pause left behind;
  exact framing; every response counted once; a drained connection closes.
* *Server and lifespan*: requests only within the lifespan; whatever started is
  shut down; a shutdown waits for connections and tasks, and ends.
* *Supervisor*: no process lost or left over; a rolling restart retires no
  worker before its replacement serves; a startup failure is not retried for
  ever; SIGTERM stops; a hung worker is killed.
* *HTTP/2*: a stream ends and counts once however it ends; the last closes a
  draining connection; an idle connection is under its timer. *Version
  detection*: a connection is always in the list a shutdown goes through.
* *WebSockets*: nothing follows `websocket.disconnect`; nobody holds reading or
  writing up who cannot let go; pings go on; a closing handshake ends with or
  without the peer. *WSGI*: every message of the thread is sent, in order, also
  while the thread is at work on the next, and the call ends.

## 2. Modules

```
HttpConnection  <--implemented by--  HttpTools
      ^    ^-------implemented by--  Http1  <--.
      |                                        +-- INSTANCE --  AutoZttp
      | keeps to (per connection)    Http2  <--'     (all three EXTEND HttpCycles)
   Server  --EXTENDS-->  Lifespan
WebSocket               (after an upgrade, its own listing in the Server)
Wsgi                    (an ASGI application behind any of the HTTP protocols)
Multiprocess            (a worker is a Server seen from its parent)

proofs:  HttpTools  <--  HttpTools_proofs  <--  HttpTools_channels  <--  HttpTools_contract
         Server, Lifespan  <--  Server_proofs          Wsgi  <--  Wsgi_proofs
         WebSocket  <--  WebSocket_proofs              Multiprocess  <--  Multiprocess_proofs
         Http1, Http2, AutoZttp, HttpConnection  <--  AutoZttp_proofs
```

The HTTP modules use the same names for the same things: `transport` is "open",
"closing" (`close()` called) or "lost" (reported); `cycle` numbers the newest
request; a cycle's fields are functions over requests; a task is "running" (the
application), "canned" and "cannedBody" (the two messages of
`send_500_response` or `service_unavailable`) or "done".

### HttpTools: one connection

`HttpTools.tla` is `HttpToolsProtocol`, `FlowControl` and `RequestResponseCycle`.

* Requests are numbered in the order in which their heads are parsed; a request
  stands for its cycle and its task, so `self.cycle` is a number, `pipeline` a
  sequence of numbers, and a cycle's fields are functions over requests.
* One action per callback and per stretch of a task between two awaits.
  `data_received` is several: the parser calls back any number of times in one
  chunk, so `inFeed` is TRUE from `DataReceived` to `FeedDone`, and only parser
  callbacks are enabled meanwhile. `receive()` is `ReceiveReturns`,
  `ReceiveWaits`, `ReceiveWakes`; `send()` is `Send`, `SendWaits`, `SendWakes`,
  which share `Transmit` (start, part, last part, without effect).
* The application is arbitrary: any messages in any order, receive and send in
  parallel (two tasks of its own), return, return a value, raise, be cancelled,
  at any await. `send_500_response` and `service_unavailable` are the task
  states "canned" and "cannedBody", whose messages go through the same `Send`.
* The environment: the client's bytes (`OnMessageBegin` ... `ParseError`), half
  close, loss with or without an error, a slow peer (`Write` may call
  `pause_writing()`), the timer, and `Shutdown` once.
* Data is reduced to what the control depends on. A body is a count of `on_body`
  calls; a response is a declared length (or chunked), sizes, "connection:
  close" and whether its headers are valid; the outcome of the concurrency test
  is a choice that must be TRUE at this connection's own limit.

A start with an invalid header keeps what the headers before it said
(`SendStart`), although nothing is sent.

Left out: header normalisation and default headers, the scope, the URL, logging,
`root_path`; a `send()` from a child task that outlives the application, whose
completed response is not counted (`on_response = lambda: None`, line 446);
cancellation of `service_unavailable`'s own task while it waits in
`drain()`; the WebSocket handshake request that `handle_websocket_upgrade`
rebuilds (the transport changes hands in one step).

### HttpConnection: the contract

What the server and the client may rely on, whichever protocol class serves:
requests are accepted, answered strictly in order by one task each, a request
may be marked as the last, and answering it closes; a task that ends without an
answer leaves no open connection; `shutdown()` closes an idle connection and
marks the newest request of a busy one. One thing breaks the contract's
promises, and it is part of it: a connection is *adrift* (`Abandon`) when the
library refused the end of a response that uvicorn takes for complete. It is
open, neither answered nor about to close, until somebody closes it; only h11
and zttp have it. `HttpTools!ImplementsConnection` is the
refinement: `phase <- transport`, `accepted <- cycle`, `answered` the number of
complete responses, `last` the parsed requests without keep-alive, `tasks` the
live ones. `Http1` implements the same module (`AutoZttp!KeepsContract`).

### Http1: h11 and zttp

`Http1.tla` is `H11Protocol` and `ZttpProtocol`, which differ from httptools in
one thing: they handle a pipelined request only after the response before it.
So every cycle but the newest is complete, and what came too early is held in
the parser (`held`) behind a pause (h11, `FeedPaused`) or without one (zttp).
`ours` and `theirs` are the states of the library's connection object; h11's
machine is external and modelled as the code drives it ("mustClose" when
keep-alive ended, "error" when it refuses an event, `MayClose` when it takes
ConnectionClosed); zttp's is taken to be the same, and what it does with a
message that does not fit is a choice. `inFeed` is TRUE from `DataReceived`, or
from a completed response that finds held bytes (`NextExchange`), to the end of
`handle_events`. `SendFails` covers every message that raises, with what was set
before the exception. It closes nothing: the exception goes to the application,
which may catch it and go on, or end (`AppReturns`, `AppRaises`). `EndRefused`
is the case that matters: `response_complete` is set before the library refuses
the end of the response (`h11_impl.py:512-514`), so an application that catches
that leaves a connection `Abandoned`: idle for `shutdown()` and the timer,
unfinished for the library. Bytes held behind it stay held and its pause stays;
`ReadingIsOwned`, `HeldHasTurn` and `DrainWillClose` except it, and
section 6 says what it costs. zttp's end after a failed start
is the same. A `send()` after a complete response raises and changes nothing, so
it has no action.

Left out: header formatting and lengths (choices), the scope, logging. One
application task per request sends one message at a time.

### Http2 and AutoZttp

`Http2.tla` is `ZttpH2Protocol`: `cycles` are the streams in progress, `wire` is
what the client was told of each ("open", "ended" by END_STREAM, "reset"), one
timer and one write side serve all. Frames come in any order in a chunk
(`FrameStep`), and several streams' tasks interleave with them. Reading is never
paused: zttp's windows are smaller than HIGH_WATER_LIMIT
(`zttp_h2_impl.py:172`). GOAWAY and `shutdown()` are one flag, `told`.
A stream whose refused end the application swallows (`EndRefused`) stays open for
the client, and its task's end counts it (`Answered`, `OnTaskEnd`).
Left out: flow-control windows and body data beyond a count.

`AutoZttp.tla` is `AutoZttpProtocol`: `mode` is "sniffing", "h1" or "h2". It
INSTANCEs both protocols over one set of variables and takes their steps after
`Switch`; over TLS (ALPN) and with `http="h11"` a connection starts in its mode.

### WebSocket

`WebSocket.tla` is `WebSocketsSansIOProtocol` and `WSProtocol`, told apart by
`impl` where they differ (`SansioHandshake`/`WsprotoHandshake`,
`SansioClose`/`WsprotoClose`, what they do with pongs after a close). `conn` is
the state of the library's object, "rejecting" only in wsproto; `queue` the ASGI
events for the application; `closeTimer`, `pingTimer`, `pongTimer` and `pending`
the timers and the ping in flight; `sending` an application in
`writable.wait()`; `gone` remembers that the application was given a disconnect.
wsproto goes on handling the events of a chunk behind the peer's close frame
(`Parses`, `PeerCloses`); a message found there is queued as "late", behind the
disconnect. The upgrade request is the first chunk.

Assumed: a client sends no frames before the 101; a message is complete or
absent (fragments are not counted); `ws_ping_interval` is set; an application
calls `send()` from one task and sends one last body of a denial response.

### Wsgi

`Wsgi.tla` is one call of `WSGIResponder`. The loop's steps do not interleave
with each other, the thread's come between any two of them, and in particular
between `sender`'s look at the queue ("empty") and its wait. `sets` are the
`call_soon_threadsafe(send_event.set)` calls that the loop has not run yet.
A `start_response` that raises on its second call leaves `response_started`
without a message. The native middleware is used when `a2wsgi` is not installed. Left out: the
environ, cancellation of the call, more calls than the pool has threads.

### Lifespan

`LifespanOn` and `LifespanOff`: `caller` is where the server stands between
`startup()` and `shutdown()`, `app` the task that runs `main()`. The
application takes events, sends any message at any time (the assertions of
`send()` decide what has an effect), returns or raises. A waiter goes on in a
later step than the one that sets its event.

### Server

`Server.serve()` with its `Lifespan` and with connections reduced to the
contract. `stage` is where the coroutine stands: `startup`, `binding`,
`listening`, `ticking`, `settling` (the 0.1 s sleep in `shutdown`),
`connections`, `tasks`, `closing` (`wait_closed`), `waited`, `lifespan`; it ends
"done", "exited" (`sys.exit` after a startup failure; "bindFailed" while it shuts
the lifespan down) or "crashed" (an exception that nobody handles). The
latter is `BindRaises`, an `OSError` of a socket that is not a host and port, or
a `Sweep` over the connections in which the `shutdown()` of one adrift raises:
those behind it are not told, and nothing is waited for. A WebSocket connection
in the state of finding 2 of section 6 is adrift in the same sense.
`handle_exit` runs between any two. A connection is accepted (by asyncio), then
made (`connection_made`), which with TLS takes as long as the client likes.
`config` holds the settings and never changes.

Left out: default headers and their clock, `callback_notify`, re-raising the
captured signals after `serve()`. A response that marks
itself as the last is folded into the marking of its request. Without TLS a
handshake is taken to be shorter than the sleep of 0.1 s.

### Multiprocess

The supervisor's thread is `pc`, one action for what it does between two
blocking calls: `should_exit.wait`, `poll`, `sleep`, `join`. A worker goes
`spawned`, `starting` (pong thread and `Server` exist), `serving`, and ends as
`exited` when it has served and as `aborted` when it has not, whatever its exit
code (so `Served` is exact); it may be `stuck` meanwhile: none of its Python code runs. Pings and pongs are
queues, so a late pong answers a later ping. `deaf` is the outcome of the race
in `Process.server`, which the pong thread and the main thread both fill in
lazily. There is no clock: a poll with no answer may time out, a deadline may
pass at any turn of `wait_until_ready`. `Renew` resets the record of a process
object that is dropped, so that its number can be used again.

Left out: Windows' SIGBREAK (as SIGTERM), signals without a handler, the socket.

## 3. Runs

Each run answers one question; every property is broken by at least one mutant
of a definition (`PROJECT.json`, "mutants").

| Run | Instance | What it shows |
|---|---|---|
| `http_pipeline` | 3 requests, no bodies, upgrades, timer, shutdown, limit 2 | order of responses, starts in turn, closing ends the pipeline, the timer, the count, a drained connection will close; the contract |
| `http_body` | 2 requests, 2 body units, high-water mark 1, 100-continue, applications that listen for a disconnection | the receive channel: no lost wakeup, no reader behind a pause, no pause without an owner, exact delivery and one end of body |
| `http_framing` | 2 requests (one HEAD), lengths 0 and 2 and chunked, sizes 0 to 2, bad headers, slow peer | exact framing; no `send()` left in `drain()` |
| `http_live` | 2 requests, 1 body unit, high-water mark 0 | a queued request is taken up; a draining connection closes |
| `server_safety` | 2 connections of 1 request, 2 signals, any lifespan application in 3 modes; timeout, limit 2 or TLS | what brackets the lifespan, what a shutdown waits for, the verdicts of the lifespan |
| `server_live` | 1 connection of 2 requests, 2 signals, Python before and from 3.12, timeout with TLS | a shutdown ends: by timeout, by force, or by itself; a gone application releases the server; the contract is kept |
| `mp_pool` | 1 to 2 workers, 2 signals, 2 pings in a pipe | who owns processes, rolling restart, startup failure, SIGTERM, hung workers |
| `http_zttp` | h11, zttp and HTTP/2 connections of 2 requests or streams, 1 body unit, high-water mark 0, upgrades, limit 2 | the hand-over, who owns a pause and what was held back, the timers, the drain, wakeups, one count per stream, the contract |
| `websocket` | both classes, 2 messages, with and without `ws_ping_timeout` | the disconnect is last, no one held up, the keep-alive loop, closing ends |
| `wsgi` | a body of up to 2 messages, 3 messages of the thread | what the thread appends is sent once, in order and in time; no wake-up is lost; the call ends; the inductive invariant `WsgiInv` |
| `h2_timer`, `ws_shutdown` | as `http_zttp` and `websocket` | the findings of section 6 |

**Why the bounds are enough.** The pipeline needs three requests: one being
answered, one at the head of the queue, one behind it; a fourth adds another of
the last kind, and the proofs of section 5 hold for any number. Two body units
pass a high-water mark of 1 and leave one to come after a resume. Lengths 0 and
2 with sizes 0 to 2 give exact, short, long and empty messages. Two connections
show one waiting for the other; two signals are needed for a forced exit; one
connection is enough for the liveness of a shutdown because connections do not
affect each other there. Two workers and one in hand are all a restart handles
at a time; two pings in a pipe make a late pong. In `http_zttp` the second request
is the one held back behind the first, or the second stream; one body unit
passes a high-water mark of 0. Two WebSocket messages put one behind another,
and one behind a close. Three messages of a WSGI thread are a start, a body and
the end; one may be sent while another waits and the third is appended.
`CHECK_DEADLOCK FALSE` is set
throughout because the systems do stop: a closed connection, an exited server.

**Fairness.** *HttpTools*: the loop runs what is ready (weak fairness of
`FeedDone`); a client that began a message finishes it and keeps reading, and
applications that wait for nothing return (strong, since reading may be paused
and resumed in between). Nothing is assumed of a client between messages or of an
application waiting in `receive()`. *Server*: the loop resumes `serve()`, timers
expire, an application asked to shut down ends (the code puts no bound on that);
plain handshakes end. `GracefulShutdownEnds` assumes besides, in the property,
that requests are answered and closed transports reported lost; the timeout and
the forced exit are shown without. *Multiprocess*: the thread runs, deadlines
pass, a worker told to terminate does unless it is stuck: so a worker whose
graceful shutdown is unbounded, or whose lifespan application is silent, is
assumed away. Nothing makes a stuck worker recover. *WebSocket*: a chunk of bytes ends (weak, `FeedDone`) and the
close timer of 10 s, once armed, fires although chunks keep coming (strong,
`CloseTimeout`: the loop runs due timers between two chunks); nothing is assumed
of the peer. *Wsgi*: the loop runs what is ready and the thread gets from its
append to the wake-up; the application may stop between two chunks for ever. The
server's `send()` is assumed to end, which it does not on a client that reads
nothing: `Delivered` is about the other clients.

## 4. Properties worth reading first

* `ResponsesInOrder`, `StartsInTurn`, `CloseEndsPipeline`: `self.cycle` is the
  newest request, not the one being answered, and all three depend on
  `response_complete` of a cycle that is being replaced.
* `PauseHasOwner`, `AutoZttp!ReadingIsOwned`: pausing and resuming are spread over five
  places, and a mistake is a connection that hangs.
* `DrainWillClose`: requests parsed after `shutdown()` have `keep_alive` again;
  the marked one before them must still close.
* `QuietWhenWaited`, `GracefulShutdownEnds`: two sets waited for in turn.
* `StreamsEndOnce`, `TimerInPauses` (AutoZttp): streams end in any order inside
  and outside a chunk, and one counter and one timer depend on all of them.
* `ClosingEnds`, `NoLostWakeup` (WebSocket): the peer's close frame is behind the
  pause that an untaken message put on the transport.
* `NoLostWakeup` and `InOrder` (both in `WsgiInv`), `Delivered` (Wsgi): the event is cleared after a wait
  that another message may have ended.
* `RetiredIsReplaced`, `FailedIsNotRestarted`: pongs answer older pings, and yet a
  worker is retired only after its replacement has served.

## 5. What is proved

Everything below holds for every value of the constants. The only assumptions
are those the modules state of them (`ConstantsAssumption`, `HttpCyclesAssumption`,
`ServerAssumption`, `MultiprocessAssumption` and their like: numbers are natural
numbers, there is room for the first workers); TLC evaluates them in the runs.
Each proof has one case per action. TLC checked each inductive invariant on its
component's configuration before it was proved; the runs of section 3 keep the
readable properties, which the theorems derive from it. `CloseEndsPipeline`,
`HPromises` and the inductive invariants other than `WsgiInv` are in no run's
list: to check one there too, add it under INVARIANTS.

**HttpTools, the order** (`HttpTools_proofs`). The order of responses is not
inductive by itself: that the next response starts only after the last is
complete depends on *which* request the queue's head is. `Inv` says so. With
`Active == cycle - Len(pipeline)`, the queue is exactly the requests after
`Active`, in order (`QueueInv`); all before `Active` are answered, all after it
are untouched and not running, and `Active` is unanswered whenever something is
queued on an open transport (`TurnInv`); a transport still open was never told
to close by a completed response (`CloseInv`). A step of the parser extends the
queue or starts at once; only `SendLast` moves `Active`, by one. `InOrder`,
`ClosingEndsPipeline`, `TimerOnlyWhenIdle` and the action property
`QueueStartsInTurn` follow.

**HttpTools, the channels** (`HttpTools_channels`). `ChannelInv` has a part for
each way in or out of a request. `ReceiveInv`: only the newest request can lack
a part of its body, and only while its body is parsed; an event that is not set
means that nothing is unread. From it `NobodyMissesTheEvent` and
`BodiesDelivered`. `TaskInv`: on an open connection every unanswered request up
to `Active` has a task at work, whose own two messages fit what it declared.
From it `PausesAreOwned`: a paused transport has an owner because `Active` does,
and the owner is not waiting for what is behind the pause. `FrameInv`:
`written + expected = framing` while a response with a length is in progress;
from it `Framing`. `DrainInv`: a lost connection that was not upgraded has no
pause left, because `connection_lost` resumes writing, and whoever waits in
`drain()` waits for a pause (`Draining`); from the two `DrainsWake`, of a lost
connection too.

**HttpTools, the contract** (`HttpTools_contract`). `Counting` is about the
cardinality of the answered requests, which `SendLast` adds one to.
`DrainingCloses`: the marked request is the one that `shutdown()` found or one
before it, and only its own completion removes it. `Implementation`,
`Spec => ImplementsConnection`: a head maps to `Accept`, `Shutdown` to `Drain`,
a "connection: close" to `Mark`, `SendLast` to `Answer`, an end of the task, of
the transport or an upgrade to their counterparts, and everything else to
nothing. Its two hard facts come from the invariants: the responses complete in
order (`Inv`), and a task ends unanswered only on a transport that closes
(`TaskInv`).

**Http1** (`AutoZttp_proofs`). The properties are about the newest cycle, and
hold because it is the only one still to be answered (`CyclesInv`) and because
the library's state says which of its messages are due (`ExchangeInv`): on an
open transport a connection is abandoned, with the library in the middle of a
response or in its error state, or the library is between two exchanges, or reads the rest of a
request that was answered early, or is in the exchange of the newest cycle,
whose task is at work; and no answered request had ended keep-alive. `CountInv`
relates the count of responses to `cycle`, `FeedInv` says that events are
handled only on an open transport that is the protocol's own. With these,
`ReadingIsOwned`, `HeldHasTurn`, `TimerBetweenRequests`, `DrainWillClose` and
`NoLostWakeup` are inductive together (`Http1Inv`). The hard cases are
`NextExchange`, where a completed response lets the held bytes in, and
`HandleEndOfMessage` after an early response.

`Http1ImplementsConnection` is the refinement: each action has a lemma that says
what it is to `HttpConnection` (`Http1Accepts`, `Http1Marks`, `Http1Answers`,
`Http1Drains`, ..., `Http1Stutters`). A head maps to an `Accept` that starts at
once because `totalRequests = cycle` then, which is `CountInv`. `PromisesKept`
is about the contract itself: while the connection is open the oldest
unanswered request has a task at work, nobody works ahead of it, and an
answered last request has closed it (`HPromises`); a connection adrift keeps none
of this, and `NeverAdrift` says that the httptools protocol has no such
connection.

**Http2** (`AutoZttp_proofs`). `StreamsInv`: a stream in progress was not
answered and has a task at work; a connection told to stop is open for one of
them, which is `DrainWillClose`; a stream is disconnected by its own reset or
with the whole connection. `CountedOnce` is about a cardinality: the last
message, a canned response that nobody gets and the end of a task each add one
stream to the ended ones, and `OnTaskEnd` looks at whether the stream was
`Answered`, not at `complete`, so that none is added twice or never
(`CountStays`, `CountGrows`).

**AutoZttp** (`AutoZttp_proofs`). While the first bytes are awaited both
protocols' invariants hold, since only the transport, its listing and `told`
change (`SniffingInv`); `Switch` hands one of them over, and from then on a step
is a step of the chosen protocol, whose lemmas apply to the instance. Since the
timer of the sniffing period is off after `Switch`, it closes no transport that
is another's (`HandsOver`). `ReadingOwned`, `TimedInPauses`, `Drains`,
`NothingSleepsOn`, `StreamsCounted` and `KeptByEveryMode`, the contract of an
HTTP/1.1 connection however it was chosen, follow.

**Server and Lifespan** (`Server_proofs`). `ServerInv` ties the stage of
`serve()` to where the lifespan stands (`StageInv`: between `startup()` and
`shutdown()` exactly in the stages that serve), to what the waits have
established (`QuietInv`: whoever was waited for does not come back, since no
socket listens), and to the connections (`ContractInv`). `Bracketed`,
`ShutDownAtTheEnd`, `Quiet` and `Told` follow. `ShutDownAtTheEnd` has the
exceptions the code has: a forced exit, a bind that raises, and a connection
adrift whose `shutdown()` raises (`Excepted`); `SweepExcepted` shows there is no
other. `Verdicts` is proved of the server
with its lifespan, `LifespanAlone` of the lifespan with any caller. `ContractKept`
shows that the server's copy of a connection does nothing that `HttpConnection`
does not allow. It does not show that the copy has every behaviour a protocol
has: that its actions are the contract's, one by one, is for a reader to compare. The proof showed that `RequestsWithinLifespan` had left TLS out: a
handshake that outlives the waits brings its task after the lifespan's
shutdown. The property says so now, and the run has a setting with TLS.

**Wsgi** (`Wsgi_proofs`). `SentInOrder`: what was sent, what `sender()` has in
hand and what is queued is what the thread appended, in order. `SenderIsWoken`:
whenever messages are queued and `sender()` waits or is about to, the event is
set, a `call_soon_threadsafe` is on its way, or the thread has yet to make it
(`StagesInv` counts them).

**WebSocket** (`WebSocket_proofs`), both classes at once. `HandshakeInv` relates
the handshake's flags, the library's state and the transport;
`NothingAfterDisconnect` says that once a disconnect is queued no message can be
read any more, except a "late" one of wsproto, in the chunk of the peer's close
frame; that is what makes `DisconnectLast` inductive. `NobodyIsStuck` and
`KeepaliveGoesOn` rest on the first.

**Multiprocess** (`Multiprocess_proofs`). `SupervisorInv`: a process is in hand
exactly in a restart and while one is retired (`LoopInv`); what
`handle_signals` works through is the front of the queue, so each signal is
removed once (`SignalsInv`); an answer that says the startup is over comes from
a worker that served, and a process in hand is told to terminate by SIGTTOU only
(`AnswersInv`). That a number is free for a new process is the pigeonhole
principle (`PoolRoom`). `WorkersAreOwned`, `RestartRollsOver` and the action
property `FailureIsNotRepeated` follow.

**Only model-checked.** Liveness (`QueuedIsServed`, `DrainCloses`,
`ShutdownIsBounded`, `GracefulShutdownEnds`, `GoneAppReleases`, `ClosingEnds`,
`Delivered`, `StopsWhenItShould`, `HungIsKilled`): fairness means ENABLED, which is
beyond the prover. Every invariant and every action property of the runs is
proved. That the models' bounded counters (requests, messages, pings) stand for
the code's unbounded ones is an abstraction, not a theorem.

## 6. Findings

Sentences of the documentation that the code does not keep, each with a run that
ends in a counterexample:

1. `h2_timer`: a RST_STREAM that ends the last stream arms the keep-alive timer
   in the middle of `data_received` (`zttp_h2_impl.py:294`). A HEADERS frame in
   the same chunk opens a stream, and `handle_request` does not cancel the timer
   as the HTTP/1.1 protocols do: a request that is slower than the timeout loses
   its connection. `docs/server-behavior.md:65`: "Between requests".
2. `ws_shutdown`: an application has sent `websocket.http.response.start` and not
   its last body; `shutdown()` sends a close frame that wsproto refuses
   (`wsproto_impl.py:216`). The transport stays open, and the exception leaves
   the loop over the connections in `Server.shutdown`.
   `docs/server-behavior.md:115`: "connections are properly finalized".

**Known disagreements**, which the models contain and the properties above are
stated around:

* httptools: the keep-alive timer is cancelled by any data and armed only by a
  completed response; the tail of a body that comes after the response leaves
  the connection without a timer (`httptools_impl.py:171`).
* httptools: `connection_lost` wakes the newest request only; with a pipelined
  request queued, the one being served waits in `receive()` for a disconnect
  that never comes (line 123).
* httptools: `response_started` is set before the headers are validated; an
  invalid header ends the connection with nothing sent, not with a 500 (475).
* httptools: reading is resumed while requests are queued (337, 569, against
  `docs/server-behavior.md:123`); an upgrade is taken while an earlier response
  is written (254); more tasks than `limit_concurrency` run when queued requests
  start (268).
* h11, zttp: an upgrade pipelined behind a request leaves the timer of that
  request armed, which closes the WebSocket connection (`h11_impl.py:220`,
  `zttp_impl.py:170`).
* h11: a response shorter than its Content-Length is taken for complete
  (`h11_impl.py:512`) before h11 refuses its end (514). When the application
  catches that, the connection stays open under no timer (as with zttp after a
  failed start), and what was pipelined behind the response is never looked at.
  `shutdown()` takes the connection for idle, its ConnectionClosed raises in h11's
  ERROR state (347) and `transport.close()` is not reached
  (`docs/server-behavior.md:112`: "Close any connections that are not currently
  waiting on an HTTP response"). The exception leaves `Server.shutdown`: the other
  connections are not told, nothing is waited for and the lifespan is not shut
  down (`Excepted`). HTTP/2: such a stream gets neither END_STREAM nor
  RST_STREAM (`zttp_h2_impl.py:499`).
* httptools: a `send()` that waits in `drain()` when another request upgrades the
  connection is not woken by its loss, which the WebSocket protocol hears of.
* wsproto: frames behind the peer's close frame in one chunk are still handled, so
  a `websocket.receive` may follow `websocket.disconnect`
  (`wsproto_impl.py:178-192`).
* websockets-sansio: an untaken message pauses reading, so the pong behind it is
  not read and `keepalive_timeout` fails a healthy connection; the frames that
  come before a protocol error in one chunk are dropped
  (`websockets_sansio_impl.py:196, 306, 362`).
* WSGI: an `http.disconnect` during an upload reads as the end of the body
  (`wsgi.py:131`).
* Server: an `OSError` while binding the sockets of a supervisor, a file descriptor
  or a UNIX socket (`server.py:149-177`) is handled by nobody; only the host and
  port branch (181-192) shuts the lifespan down and exits with code 3
  (`docs/release-notes.md:74`: "Exit with the dedicated code 3 on any startup
  failure: app loading, socket bind and lifespan startup errors").
* Server: tasks are looked at once, and a TLS handshake under way may bring one
  afterwards (`server.py:321`); a connection made during the first sleep of
  `shutdown()` is never told (291); a CTRL+C during a shutdown that
  `limit_max_requests` began does not force it (353); from Python 3.12 a forced
  shutdown still waits in `wait_closed()` (328).
* Supervisor: a stuck worker that is told to terminate is joined without a bound
  and never killed (`multiprocess.py:193`; `docs/deployment/index.md:77`).

## 7. Not modelled

* `websockets_impl.py`: its control is that of the legacy `WebSocketServerProtocol`
  of the websockets library, which it subclasses.
* The reload supervisors: one thread that polls the file system and replaces one
  process. Proxy headers: a stateless parse of one request's headers.
* Configuration, command line, importer, logging (nothing changes while serving);
  loops, Gunicorn workers and small middleware (adapters).

## 8. What is left

All modules of section 2 are modelled, their runs pass, and what the prover can
reach is proved. Worth adding when the code changes there: the legacy
`websockets_impl.py` (with a model of the library class it subclasses), the
reload supervisors next to Multiprocess, and clocks, where a property needs one
deadline to be before another.
