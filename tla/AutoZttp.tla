------------------------------ MODULE AutoZttp ------------------------------
(***************************************************************************)
(* Which protocol serves a connection: AutoZttpProtocol, and behind it Http1 *)
(* and Http2.  On cleartext the first bytes are compared with the HTTP/2     *)
(* preface, under a timer and in the server's list; over TLS ALPN has        *)
(* decided when the connection is made; with http="h11" there is no choice.  *)
(* The variables are those of the two protocols: a connection uses one set   *)
(* from its hand-over on, and leaves the other's alone.                      *)
(***************************************************************************)
EXTENDS HttpCycles

CONSTANTS HighWater, WebSockets

ASSUME AutoZttpAssumption == HighWater \in Nat /\ WebSockets \in BOOLEAN

VARIABLES
    mode,                \* "sniffing", "h1" or "h2"
    timeoutTask,         \* the timer of the sniffing period is armed
    \* of both protocols
    transport, listed, inFeed, told, timer, writePaused, totalRequests, cycle,
    disconnected, started, complete, body, moreBody, event, task, receiving,
    sending,
    \* of Http1
    impl, reading, readPaused, upgraded, ours, theirs, held, wireKeep,
    keepAlive, waiting100,
    \* of Http2
    heard, cycles, wire

H1 == INSTANCE Http1
H2 == INSTANCE Http2

only1 == <<impl, reading, readPaused, upgraded, ours, theirs, held, wireKeep,
           keepAlive, waiting100>>
only2 == <<heard, cycles, wire>>
rest == <<timer, writePaused, totalRequests, cycle, disconnected, started,
          complete, body, moreBody, event, task, receiving, sending>>
vars == <<mode, timeoutTask, transport, listed, inFeed, told, rest, only1, only2>>

\* connection_made of the protocol that the transport starts with.
Init ==
    /\ H1!Init
    /\ heard = FALSE /\ cycles = {} /\ wire = All("open")
    /\ IF impl = "h11" THEN mode = "h1" ELSE mode \in {"sniffing", "h1", "h2"}
    /\ timeoutTask = (mode = "sniffing")

-----------------------------------------------------------------------------
(* AutoZttpProtocol, while the transport is its own                         *)

\* data_received, with bytes enough to decide: off the list and the timer, and
\* on with the new protocol, which is listed and gets the bytes at once.
KeepsTimeout ==                                                 \* mutant
    /\ mode = "sniffing" /\ transport = "open"
    /\ mode' \in {"h1", "h2"}
    /\ listed' = TRUE /\ inFeed' = TRUE
    /\ heard' = (mode' = "h2")
    /\ UNCHANGED <<timeoutTask, only1, cycles, wire, transport, told, rest>>
Switch ==
    /\ mode = "sniffing" /\ transport = "open"
    /\ mode' \in {"h1", "h2"}
    /\ timeoutTask' = FALSE
    /\ listed' = TRUE /\ inFeed' = TRUE
    /\ heard' = (mode' = "h2")
    /\ UNCHANGED <<only1, cycles, wire, transport, told, rest>>

\* The timer's call of transport.close(), whoever serves the transport by then.
SniffTimeout ==
    /\ timeoutTask /\ ~inFeed
    /\ timeoutTask' = FALSE
    /\ transport' = Closed(transport)
    /\ UNCHANGED <<mode, only1, only2, listed, inFeed, told, rest>>

\* shutdown(), or the end of the peer's bytes.
SniffEnds(byServer) ==
    /\ mode = "sniffing" /\ transport = "open"
    /\ told' = byServer
    /\ transport' = "closing"
    /\ UNCHANGED <<mode, timeoutTask, only1, only2, listed, inFeed, rest>>

SniffLost ==
    /\ mode = "sniffing" /\ transport # "lost"
    /\ transport' = "lost" /\ listed' = FALSE
    /\ timeoutTask' = FALSE
    /\ UNCHANGED <<mode, only1, only2, inFeed, told, rest>>

-----------------------------------------------------------------------------
\* The protocol that was chosen, and its tasks.
Serve1 == mode = "h1" /\ H1!Next /\ UNCHANGED <<mode, timeoutTask, only2>>
Serve2 == mode = "h2" /\ H2!Next /\ UNCHANGED <<mode, timeoutTask, only1>>

Next == \/ Switch \/ SniffTimeout \/ SniffLost
        \/ \E byServer \in BOOLEAN : SniffEnds(byServer)
        \/ Serve1 \/ Serve2

Spec == Init /\ [][Next]_vars

-----------------------------------------------------------------------------
(* Safety                                                                   *)

\* Across the hand-over a connection is always in the list that shutdown goes
\* through, and under a timer until its first bytes, which is not left to close
\* the transport under the protocol chosen (auto_zttp_impl.py:53-54, 72-76).
HandOver ==
    /\ mode # "h2" => H1!Http1TypeOK
    /\ mode = "h2" => H2!Http2TypeOK
    /\ transport = "open" => /\ upgraded \/ listed
                             /\ timeoutTask <=> mode = "sniffing"

\* Of HTTP/1.1: who pauses reading resumes it, and what was held back while a
\* response was written is taken up when its turn comes.
ReadingIsOwned == mode = "h1" => H1!ReadingIsOwned /\ H1!HeldHasTurn

\* The keep-alive timer is armed in the pauses of an HTTP/1.1 connection only,
\* so it cuts no response short, and in every pause of an HTTP/2 connection.
TimerInPauses == /\ mode = "h1" => H1!TimerBetweenRequests
                 /\ mode = "h2" => H2!IdleIsTimed

\* What shutdown() leaves open will close: somebody still has to finish, and
\* whoever finishes closes it.
DrainWillClose == /\ mode = "h1" => H1!DrainWillClose
                  /\ mode = "h2" => H2!DrainWillClose

\* No receive() or send() waits for what has already happened, and no send() on a
\* transport that is lost.
NoLostWakeup == /\ mode = "h1" => H1!NoLostWakeup
                /\ mode = "h2" => H2!NoLostWakeup

\* Of HTTP/2: a stream counts once towards limit_max_requests however it ends,
\* and it does end when its application has.
StreamsEndOnce == mode = "h2" => H2!CountedOnce /\ H2!NoStreamLeftOpen

\* The inductive invariant behind them: nothing but the transport changes while
\* the first bytes are awaited, and each protocol keeps its own invariant.
SniffingInv ==
    mode = "sniffing" =>
        /\ H1!Http1Inv /\ H2!Http2Inv
        /\ ~inFeed /\ ~upgraded /\ ~writePaused /\ cycle = 0
        /\ transport = "open" => timeoutTask

AutoInv ==
    /\ mode \in {"sniffing", "h1", "h2"} /\ timeoutTask \in BOOLEAN
    /\ mode # "sniffing" => ~timeoutTask
    /\ SniffingInv
    /\ mode = "h1" => H1!Http1Inv
    /\ mode = "h2" => H2!Http2Inv

\* Http1!ImplementsConnection: every step that Http1 takes is a step of
\* HttpConnection, from the state that Init gives it.
KeepsContract ==
    [][mode = "h1" =>
          H1!Connection!HNext \/ UNCHANGED H1!Connection!hvars]_vars
=============================================================================
