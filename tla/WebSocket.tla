------------------------------ MODULE WebSocket ------------------------------
(***************************************************************************)
(* One WebSocket connection after the upgrade: WebSocketsSansIOProtocol      *)
(* (impl = "sansio") or WSProtocol (impl = "wsproto"), its ASGI task, its    *)
(* queue of ASGI events and its timers.                                      *)
(*                                                                          *)
(* conn is the state of the library's connection object: "connecting" until  *)
(* the handshake is answered, "rejecting" while wsproto writes a denial, then *)
(* "open", "closing" (our close frame is out) or "closed".  A chunk of bytes *)
(* is any number of events, and inFeed is TRUE while they are handled.  A    *)
(* message is complete or absent; clients send nothing before the 101.       *)
(***************************************************************************)
EXTENDS Naturals, Sequences, SequencesExt

CONSTANTS
    MaxMessages,         \* bound: messages from the client
    Impls                \* protocol classes considered

ASSUME WebSocketAssumption ==
    MaxMessages \in Nat /\ Impls \subseteq {"sansio", "wsproto"}

VARIABLES
    impl, pingTimeout,   \* the class; config.ws_ping_timeout is not None
    transport,           \* "open", "closing" or "lost"
    listed, told, inFeed,
    conn,                \* the library's connection object
    handshakeComplete,   \* set by every answer to the handshake but a 500
    closeSent, disconnected,
    responding,          \* initial_response or response_started
    closeTimer,          \* close_timer: "none", "armed" or "fired" (not None)
    pingTimer, pongTimer, pending,
    readPaused, writable,
    queue, messages,
    task, sending,
    gone                 \* the application was given a websocket.disconnect

connVars  == <<impl, pingTimeout, listed>>
closeVars == <<transport, conn, handshakeComplete, closeSent, responding, closeTimer>>
aliveVars == <<pingTimer, pongTimer, pending>>
appVars   == <<task, sending, gone>>
vars == <<connVars, told, inFeed, disconnected, closeVars, aliveVars, readPaused,
          writable, queue, messages, appVars>>

\* The ASGI events.  "late" is a websocket.receive too: that of a frame which the
\* peer sent behind its own close frame.
Events == {"connect", "receive", "late", "disconnect"}
Messages == {"accept", "send", "close", "start", "body", "end"}

\* The upgrade request is given to data_received right after connection_made.
Init ==
    /\ impl \in Impls /\ pingTimeout \in BOOLEAN
    /\ transport = "open" /\ listed = TRUE /\ told = FALSE /\ inFeed = TRUE
    /\ conn = "connecting" /\ handshakeComplete = FALSE /\ closeSent = FALSE
    /\ disconnected = FALSE /\ responding = FALSE /\ closeTimer = "none"
    /\ pingTimer = FALSE /\ pongTimer = FALSE /\ pending = FALSE
    /\ readPaused = FALSE /\ writable = TRUE
    /\ queue = <<>> /\ messages = 0
    /\ task = "none" /\ sending = "no" /\ gone = FALSE

WsTypeOK ==
    /\ impl \in Impls /\ transport \in {"open", "closing", "lost"}
    /\ {pingTimeout, listed, told, inFeed, handshakeComplete, closeSent,
        disconnected, responding, pingTimer, pongTimer, pending, readPaused,
        writable, gone} \subseteq BOOLEAN
    /\ conn \in {"connecting", "rejecting", "open", "closing", "closed"}
    /\ closeTimer \in {"none", "armed", "fired"}
    /\ queue \in Seq(Events) /\ messages \in 0 .. MaxMessages
    /\ task \in {"none", "running", "done"} /\ sending \in {"no", "waiting", "woken"}

-----------------------------------------------------------------------------
(* Helpers                                                                  *)

\* transport.close(): idempotent.
Closed(t) == IF t = "open" THEN "closing" ELSE t

\* transport.write(): a slow peer may make it call pause_writing() at once.
Write == UNCHANGED writable \/ (transport = "open" /\ writable' = FALSE)

Put(e) == queue' = Append(queue, e)

\* The handshake was answered, and a 500 has nothing to add.
Answered == responding \/ handshakeComplete

StopKeepalive == pingTimer' = FALSE /\ pongTimer' = FALSE /\ pending' = FALSE

-----------------------------------------------------------------------------
(* data_received and the handlers of its events                             *)

\* handle_connect: the task is created.
HandleConnect ==
    /\ inFeed /\ conn = "connecting" /\ task = "none"
    /\ Put("connect")
    /\ task' = "running"
    /\ UNCHANGED <<connVars, told, inFeed, disconnected, closeVars, aliveVars,
                   readPaused, writable, messages, sending, gone>>

\* A bad handshake: sansio answers and counts as closed, wsproto sends the
\* library's rejection; both close.
RefuseHandshake ==
    /\ inFeed /\ conn = "connecting" /\ task = "none"
    /\ inFeed' = FALSE
    /\ conn' = "closed"
    /\ handshakeComplete' = (impl = "sansio")
    /\ closeSent' = (impl = "sansio")
    /\ transport' = Closed(transport)
    /\ UNCHANGED <<connVars, told, disconnected, responding, closeTimer,
                   aliveVars, readPaused, writable, queue, messages, appVars>>

DataReceived ==
    /\ transport = "open" /\ ~readPaused /\ ~inFeed /\ conn \in {"open", "closing"}
    /\ inFeed' = TRUE
    /\ UNCHANGED <<connVars, told, disconnected, closeVars, aliveVars,
                   readPaused, writable, queue, messages, appVars>>

\* The chunk is used up; pings were answered on the way.
FeedDone ==
    /\ inFeed /\ (task = "none" => conn # "connecting")
    /\ inFeed' = FALSE
    /\ Write
    /\ UNCHANGED <<connVars, told, disconnected, closeVars, aliveVars,
                   readPaused, queue, messages, appVars>>

\* The library goes on with the chunk.  websockets drops what follows the peer's
\* close frame; wsproto hands it out to the end of the chunk.
Parses == inFeed /\ (conn \in {"open", "closing"} \/ (impl = "wsproto" /\ conn = "closed"))

\* A complete message: queued, and reading paused, unless the application is
\* past websocket.close.
MessageEvent == IF conn = "closed" THEN "late" ELSE "receive"

QueuesAnyway ==                                                 \* mutant
    /\ Parses /\ messages < MaxMessages
    /\ messages' = messages + 1
    /\ Put(MessageEvent)
    /\ readPaused' = TRUE
    /\ UNCHANGED <<connVars, told, inFeed, disconnected, closeVars, aliveVars,
                   writable, appVars>>
HandleMessage ==
    /\ Parses /\ messages < MaxMessages
    /\ messages' = messages + 1
    /\ \/ ~closeSent /\ Put(MessageEvent) /\ readPaused' = TRUE
       \/ closeSent /\ UNCHANGED <<queue, readPaused>>
    /\ UNCHANGED <<connVars, told, inFeed, disconnected, closeVars, aliveVars,
                   writable, appVars>>

\* Frames that break the protocol, bad UTF-8 or a message over ws_max_size:
\* the library's close frame goes out and the transport is closed, unless it
\* closes already.
HandleBadMessage ==
    /\ Parses
    /\ IF impl = "wsproto" THEN ~closeSent ELSE transport = "open"
    /\ Put("disconnect")
    /\ closeSent' = TRUE
    /\ conn' = IF transport = "open" THEN "closing" ELSE conn
    /\ transport' = Closed(transport)
    /\ Write
    /\ UNCHANGED <<connVars, told, inFeed, disconnected, handshakeComplete,
                   responding, closeTimer, aliveVars, readPaused, messages,
                   appVars>>

\* The pong of the ping in flight: the next ping is scheduled.  wsproto looks
\* at no pong after its close frame.
PongEndsKeepalive ==                                            \* mutant
    /\ Parses /\ pending
    /\ pending' = FALSE /\ pongTimer' = FALSE
    /\ UNCHANGED <<connVars, told, inFeed, disconnected, closeVars, pingTimer,
                   readPaused, writable, queue, messages, appVars>>
HandlePong ==
    /\ Parses /\ pending
    /\ impl = "wsproto" => ~closeSent
    /\ pending' = FALSE /\ pongTimer' = FALSE
    /\ pingTimer' = (pingTimer \/ pongTimer)
    /\ UNCHANGED <<connVars, told, inFeed, disconnected, closeVars, readPaused,
                   writable, queue, messages, appVars>>

\* The peer's close frame: the answer to ours, or the first (which is echoed).
\* wsproto makes one up, the last of its chunk, when the frames break the protocol.
\* Bound: a second one is the last of its chunk too.
PeerCloses ==
    \/ conn' = "closed" /\ inFeed' = (impl = "wsproto" /\ conn # "closed")
    \/ impl = "wsproto" /\ UNCHANGED conn /\ inFeed' = FALSE

EchoUnnoticed ==                                                \* mutant
    /\ Parses /\ PeerCloses
    /\ \/ /\ closeSent
          /\ closeTimer' = "none"
          /\ UNCHANGED <<transport, queue, writable>>
       \/ /\ ~closeSent
          /\ Put("disconnect")
          /\ transport' = Closed(transport)
          /\ IF conn' = conn THEN UNCHANGED writable ELSE Write
          /\ UNCHANGED closeTimer
    /\ UNCHANGED <<connVars, told, disconnected, handshakeComplete, closeSent,
                   responding, aliveVars, readPaused, messages, appVars>>
HandleClose ==
    /\ Parses /\ PeerCloses
    /\ \/ /\ closeSent
          /\ closeTimer' = "none"
          /\ transport' = IF closeTimer # "none" THEN Closed(transport) ELSE transport
          /\ UNCHANGED <<queue, writable>>
       \/ /\ ~closeSent
          /\ Put("disconnect")
          /\ transport' = Closed(transport)
          /\ IF conn' = conn THEN UNCHANGED writable ELSE Write
          /\ UNCHANGED closeTimer
    /\ UNCHANGED <<connVars, told, disconnected, handshakeComplete, closeSent,
                   responding, aliveVars, readPaused, messages, appVars>>

-----------------------------------------------------------------------------
(* receive() and send(), called by the application in a task of its own     *)

\* receive() returns the head of the queue; the last one resumes reading.
Receive ==
    /\ task = "running" /\ ~inFeed /\ queue # <<>>
    /\ queue' = Tail(queue)
    /\ readPaused' = (readPaused /\ Tail(queue) # <<>>)
    /\ gone' = (gone \/ Head(queue) = "disconnect")
    /\ UNCHANGED <<connVars, told, inFeed, disconnected, closeVars, aliveVars,
                   writable, messages, task, sending>>

\* send() awaits writable; a wake-up lets it pass whatever writable is by then.
SendWaits ==
    /\ task = "running" /\ ~inFeed /\ sending = "no" /\ ~writable
    /\ sending' = "waiting"
    /\ UNCHANGED <<connVars, told, inFeed, disconnected, closeVars, aliveVars,
                   readPaused, writable, queue, messages, task, gone>>

SendPasses ==
    /\ task = "running" /\ ~inFeed
    /\ sending = "woken" \/ (sending = "no" /\ writable)
    /\ sending' = "no"
    /\ UNCHANGED <<connVars, told, inFeed, disconnected, messages, task, gone>>

Unsent == UNCHANGED <<closeVars, aliveVars, readPaused, writable, queue>>

\* ClientDisconnected, or a RuntimeError for a message out of turn.
SendRaises ==
    /\ SendPasses
    /\ disconnected \/ closeSent
    /\ Unsent

\* sansio, handshake: nothing but the flags tells what was answered.
SansioHandshake(m) ==
    /\ impl = "sansio" /\ SendPasses /\ ~disconnected
    /\ ~handshakeComplete /\ ~responding
    /\ \/ /\ m = "accept" /\ transport = "open"
          /\ handshakeComplete' = TRUE /\ conn' = "open" /\ pingTimer' = TRUE
          /\ Write
          /\ UNCHANGED <<transport, closeSent, responding, closeTimer, pongTimer,
                         pending, readPaused, queue>>
       \/ m = "accept" /\ transport # "open" /\ Unsent
       \/ /\ m = "close"
          /\ Put("disconnect")
          /\ closeSent' = TRUE /\ handshakeComplete' = TRUE /\ conn' = "closed"
          /\ transport' = Closed(transport)
          /\ Write
          /\ UNCHANGED <<responding, closeTimer, aliveVars, readPaused>>
       \/ /\ m = "start"
          /\ responding' = TRUE
          /\ UNCHANGED <<transport, conn, handshakeComplete, closeSent, closeTimer,
                         aliveVars, readPaused, writable, queue>>

\* wsproto, handshake: the flags are set before the library is asked, which
\* refuses a bad accept, and everything once a 500 went out.
WsprotoHandshake(m) ==
    /\ impl = "wsproto" /\ SendPasses /\ ~disconnected
    /\ ~handshakeComplete
    /\ \/ /\ m = "accept" /\ transport = "open"
          /\ handshakeComplete' = TRUE
          /\ \/ conn' = "open" /\ pingTimer' = TRUE /\ Write
             \/ UNCHANGED <<conn, pingTimer, writable>>
          /\ UNCHANGED <<transport, closeSent, responding, closeTimer, pongTimer,
                         pending, readPaused, queue>>
       \/ m = "accept" /\ transport # "open" /\ Unsent
       \/ /\ m = "close"
          /\ Put("disconnect")
          /\ closeSent' = TRUE /\ handshakeComplete' = TRUE /\ conn' = "closed"
          /\ transport' = Closed(transport)
          /\ Write
          /\ UNCHANGED <<responding, closeTimer, aliveVars, readPaused>>
       \/ /\ m = "start"
          /\ handshakeComplete' = TRUE
          /\ responding' = (conn = "connecting")
          /\ conn' = IF conn = "connecting" THEN "rejecting" ELSE conn
          /\ Write
          /\ UNCHANGED <<transport, closeSent, closeTimer, aliveVars, readPaused,
                         queue>>

\* websocket.send: it raises in the library unless the connection is open.
SendMessage ==
    /\ SendPasses /\ ~disconnected
    /\ handshakeComplete /\ ~closeSent /\ ~responding
    /\ IF conn = "open" THEN Write ELSE UNCHANGED writable
    /\ UNCHANGED <<closeVars, aliveVars, readPaused, queue>>

\* websocket.close after the accept.  Reading resumes, for the peer's answer
\* must come through, and a timer bounds the wait for it.
CloseStaysPaused ==                                             \* mutant
    /\ impl = "sansio" /\ SendPasses /\ ~disconnected
    /\ handshakeComplete /\ ~closeSent /\ ~responding /\ transport = "open"
    /\ Put("disconnect")
    /\ conn' = "closing" /\ closeSent' = TRUE
    /\ closeTimer' = "armed"
    /\ Write
    /\ UNCHANGED <<transport, handshakeComplete, responding, aliveVars, readPaused>>
SansioClose ==
    /\ impl = "sansio" /\ SendPasses /\ ~disconnected
    /\ handshakeComplete /\ ~closeSent /\ ~responding
    /\ \/ /\ transport = "open"
          /\ Put("disconnect")
          /\ conn' = "closing" /\ closeSent' = TRUE
          /\ readPaused' = FALSE
          /\ closeTimer' = "armed"
          /\ Write
       \/ /\ transport # "open"
          /\ UNCHANGED <<queue, conn, closeSent, readPaused, closeTimer, writable>>
    /\ UNCHANGED <<transport, handshakeComplete, responding, aliveVars>>

WsprotoClose ==
    /\ impl = "wsproto" /\ SendPasses /\ ~disconnected
    /\ handshakeComplete /\ ~closeSent /\ ~responding
    /\ closeSent' = TRUE
    /\ Put("disconnect")
    /\ conn' = IF conn = "open" THEN "closing" ELSE conn
    /\ IF conn = "open" /\ transport = "open"
       THEN readPaused' = FALSE /\ closeTimer' = "armed" /\ Write
       ELSE UNCHANGED <<readPaused, closeTimer, writable>>
    /\ UNCHANGED <<transport, handshakeComplete, responding, aliveVars>>

\* websocket.http.response.body: sansio buffers until the last one, wsproto
\* writes each.  Bound: one last body.
SendBody(last) ==
    /\ SendPasses /\ ~disconnected
    /\ responding /\ ~closeSent
    /\ IF last
       THEN /\ Put("disconnect")
            /\ closeSent' = TRUE /\ conn' = "closed"
            /\ transport' = Closed(transport)
            /\ Write
       ELSE /\ IF impl = "wsproto" THEN Write ELSE UNCHANGED writable
            /\ UNCHANGED <<queue, closeSent, conn, transport>>
    /\ UNCHANGED <<handshakeComplete, responding, closeTimer, aliveVars, readPaused>>

\* run_asgi ends: a 500 if nothing was answered (wsproto's library refuses a
\* second one), and the transport is closed unless a closing handshake is on.
AppEnds ==
    /\ task = "running" /\ ~inFeed /\ sending = "no"
    /\ task' = "done"
    /\ conn' = IF Answered THEN conn ELSE "closed"
    /\ transport' = IF closeTimer = "none" THEN Closed(transport) ELSE transport
    /\ UNCHANGED <<connVars, told, inFeed, disconnected, handshakeComplete,
                   closeSent, responding, closeTimer, aliveVars, readPaused,
                   writable, queue, messages, sending, gone>>

-----------------------------------------------------------------------------
(* Timers, the server and the transport                                     *)

\* A ping goes out; its deadline is armed, or the next ping.
SendKeepalivePing ==
    /\ pingTimer /\ ~inFeed
    /\ IF closeSent \/ transport # "open"
       THEN pingTimer' = FALSE /\ UNCHANGED <<pending, pongTimer, writable>>
       ELSE /\ pending' = TRUE
            /\ pongTimer' = pingTimeout
            /\ pingTimer' = ~pingTimeout
            /\ Write
    /\ UNCHANGED <<connVars, told, inFeed, disconnected, closeVars, readPaused,
                   queue, messages, appVars>>

\* No pong in time: the connection fails, and the peer's answer is not awaited.
KeepaliveTimeout ==
    /\ pongTimer /\ ~inFeed
    /\ pongTimer' = FALSE /\ pending' = FALSE
    /\ IF closeSent \/ transport # "open"
       THEN UNCHANGED <<conn, closeSent, transport, writable>>
       ELSE /\ conn' = "closing" /\ closeSent' = TRUE
            /\ transport' = Closed(transport)
            /\ Write
    /\ UNCHANGED <<connVars, told, inFeed, disconnected, handshakeComplete,
                   responding, closeTimer, pingTimer, readPaused, queue, messages,
                   appVars>>

\* close_timeout: transport.close() is the callback, close_timer stays set.
CloseTimeout ==
    /\ closeTimer = "armed" /\ ~inFeed
    /\ closeTimer' = "fired"
    /\ transport' = Closed(transport)
    /\ UNCHANGED <<connVars, told, inFeed, disconnected, conn, handshakeComplete,
                   closeSent, responding, aliveVars, readPaused, writable, queue,
                   messages, appVars>>

\* shutdown(), called for every listed connection.  The library raises when it
\* has to close what is not open, and then the transport stays as it is.
Shutdown ==
    /\ listed /\ ~told /\ ~inFeed
    /\ told' = TRUE
    /\ StopKeepalive
    /\ \/ /\ closeSent
          /\ closeTimer' = "none"
          /\ transport' = Closed(transport)
          /\ UNCHANGED <<conn, queue, writable>>
       \/ /\ ~closeSent /\ handshakeComplete
          /\ Put("disconnect")
          /\ IF conn = "open"
             THEN conn' = "closing" /\ transport' = Closed(transport) /\ Write
             ELSE UNCHANGED <<conn, transport, writable>>
          /\ UNCHANGED closeTimer
       \/ /\ ~closeSent /\ ~handshakeComplete
          /\ conn' = IF responding THEN conn ELSE "closed"
          /\ transport' = Closed(transport)
          /\ Write
          /\ UNCHANGED <<queue, closeTimer>>
    /\ UNCHANGED <<connVars, inFeed, disconnected, handshakeComplete, closeSent,
                   responding, readPaused, messages, appVars>>

Wake == sending' = IF sending = "waiting" THEN "woken" ELSE sending

ConnectionLost ==
    /\ transport = "closing" /\ listed /\ ~inFeed
    /\ transport' = "lost" /\ listed' = FALSE
    /\ StopKeepalive
    /\ Put("disconnect")
    /\ handshakeComplete' = TRUE /\ disconnected' = TRUE
    /\ writable' = TRUE /\ Wake
    /\ closeTimer' = "none"
    /\ UNCHANGED <<impl, pingTimeout, told, inFeed, conn, closeSent, responding,
                   readPaused, messages, task, gone>>

\* eof_received() lets the transport close itself, as an error does.
TransportEnds ==
    /\ transport = "open" /\ ~inFeed
    /\ transport' = "closing"
    /\ UNCHANGED <<connVars, told, inFeed, disconnected, conn, handshakeComplete,
                   closeSent, responding, closeTimer, aliveVars, readPaused,
                   writable, queue, messages, appVars>>

ResumeWriting ==
    /\ ~writable /\ transport # "lost" /\ ~inFeed
    /\ writable' = TRUE /\ Wake
    /\ UNCHANGED <<connVars, told, inFeed, disconnected, closeVars, aliveVars,
                   readPaused, queue, messages, task, gone>>

-----------------------------------------------------------------------------
Next ==
    \/ HandleConnect \/ RefuseHandshake \/ DataReceived \/ FeedDone
    \/ HandleMessage \/ HandleBadMessage \/ HandlePong \/ HandleClose
    \/ Receive \/ SendWaits \/ SendRaises \/ SendMessage
    \/ \E m \in Messages : SansioHandshake(m) \/ WsprotoHandshake(m)
    \/ SansioClose \/ WsprotoClose \/ SendBody(FALSE) \/ SendBody(TRUE) \/ AppEnds
    \/ SendKeepalivePing \/ KeepaliveTimeout \/ CloseTimeout
    \/ Shutdown \/ ConnectionLost \/ TransportEnds \/ ResumeWriting

\* Timers that are due run between two chunks; a chunk is finite.
Fairness == WF_vars(FeedDone) /\ SF_vars(CloseTimeout)
Spec == Init /\ [][Next]_vars /\ Fairness

-----------------------------------------------------------------------------
(* Properties                                                               *)

\* websocket.disconnect is the end of what receive() gives: no message is
\* queued behind one, and none is left once the application was given it
\* (what arrives in the closing handshake is dropped).  The one exception is wsproto's:
\* what a peer sends behind its own close frame, in one chunk with it, is queued
\* behind the disconnect (wsproto_impl.py:178-192, 266-284).
DisconnectIsLast ==
    /\ WsTypeOK
    /\ \A i, j \in DOMAIN queue :
           i < j /\ queue[i] = "disconnect" => queue[j] \in {"disconnect", "late"}
    /\ gone => "receive" \notin ToSet(queue)

\* Whoever holds the connection up is still there to let go: reading is paused
\* only for a message the application has not taken, and never while the
\* peer's answer to our close frame is awaited; no send() waits for a
\* transport that is lost.
NoLostWakeup ==
    /\ readPaused /\ transport = "open" /\ task = "running" =>
           queue # <<>> /\ ~closeSent
    /\ sending = "waiting" => ~writable /\ transport # "lost"

\* As long as an accepted connection is open the keep-alive loop goes on: the
\* next ping or the deadline of the last one is scheduled, never both, never
\* neither, and a deadline is that of a ping in flight.
KeepaliveRuns ==
    conn = "open" /\ transport = "open" /\ ~told =>
        /\ pingTimer # pongTimer
        /\ pongTimer => pending

\* The inductive invariant behind these: what the handshake's flags, the
\* library's state and the transport say of each other, and that nothing is read
\* once the application has its disconnect in the queue.
HandshakeInv ==
    /\ task = "none" /\ conn = "connecting" =>
           /\ inFeed /\ queue = <<>> /\ transport = "open" /\ sending = "no"
           /\ ~closeSent /\ ~handshakeComplete /\ ~responding /\ ~gone
    /\ conn \in {"connecting", "rejecting"} =>
           ~pingTimer /\ ~pongTimer /\ ~pending /\ ~readPaused
    /\ conn \in {"open", "closing"} \/ closeTimer # "none" => handshakeComplete
    /\ conn = "closed" /\ inFeed => handshakeComplete
    /\ transport = "open" /\ ~handshakeComplete => conn = "connecting"
    /\ transport = "open" /\ closeSent => handshakeComplete /\ conn # "open"
    /\ transport = "open" /\ conn \in {"closing", "closed"} => closeSent
    /\ transport = "lost" => writable

NothingAfterDisconnect ==
    gone \/ "disconnect" \in ToSet(queue) =>
        \/ closeSent \/ (~inFeed /\ transport # "open")
        \/ handshakeComplete /\ conn \notin {"open", "closing"}

\* The inductive invariant: handshake, library and transport agree, nothing is queued
\* behind a disconnect, and the pings and the waits have someone to end them
\* (websockets_sansio_impl.py:141-340, wsproto_impl.py:206-333).
WsInv == /\ HandshakeInv /\ NothingAfterDisconnect
         /\ DisconnectIsLast /\ NoLostWakeup /\ KeepaliveRuns

\* A closing handshake ends, with or without the peer, and so does the
\* connection of an application that returned.
ClosingEnds == conn = "closing" \/ task = "done" ~> transport # "open"

\* "Uvicorn handles process shutdown gracefully, ensuring that connections are
\* properly finalized" (docs/server-behavior.md): a connection that was told to
\* shut down is closing.
ShutdownCloses == told => transport # "open"
=============================================================================
