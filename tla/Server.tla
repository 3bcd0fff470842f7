-------------------------------- MODULE Server --------------------------------
(***************************************************************************)
(* Server.serve(): startup, the tick loop, and the graceful shutdown, with  *)
(* the signals that steer it, the lifespan protocol it brackets its work    *)
(* with (Lifespan), and the connections and tasks it shares with the        *)
(* protocols through ServerState.                                           *)
(*                                                                          *)
(* A connection is reduced to the contract of HttpConnection (which         *)
(* HttpTools implements, and ConnectionsKeepContract checks here): requests *)
(* accepted and answered, the requests marked as last, the live tasks.      *)
(* asyncio tells the protocol of a connection it accepted only later:       *)
(* "handshake" is the time between (a loop iteration, or with TLS the whole *)
(* handshake).  A connection adrift is one whose shutdown() may raise: of    *)
(* HTTP as HttpConnection has it, or a WebSocket whose library refuses its   *)
(* close frame.                                                             *)
(*                                                                          *)
(* stage is where the coroutine of serve() stands; what it does between two *)
(* awaits is one action.  handle_exit runs between any two steps.           *)
(***************************************************************************)
EXTENDS Lifespan

CONSTANTS
    Conns,              \* bound: connections that clients open
    NumRequests,        \* bound: requests per connection
    MaxSignals,         \* bound: signals received
    Configs             \* settings to consider, see Settings

\* limit: limit_max_requests with its jitter, 0 for None
\* timeout: timeout_graceful_shutdown is not None
\* tls: handshakes last as long as they like
\* waits: asyncio's wait_closed() waits for connections (Python 3.12)
Settings == [limit : Nat, timeout : BOOLEAN, tls : BOOLEAN, waits : BOOLEAN]

ASSUME ServerAssumption ==
    /\ NumRequests \in Nat \ {0} /\ MaxSignals \in Nat
    /\ Configs \subseteq Settings

VARIABLES
    config,             \* the settings, fixed from the start
    stage,              \* where serve() stands
    started, shouldExit, forceExit,
    captured,           \* length of _captured_signals
    listening,          \* asyncio's servers accept
    timedOut,           \* the graceful timeout has expired
    told,               \* connections whose shutdown() was called
    phase, accepted, answered, last, tasks,     \* the connections
    totalRequests       \* server_state.total_requests

flagVars == <<config, started, shouldExit, forceExit, captured>>
connVars == <<phase, accepted, answered, last, tasks, totalRequests>>
serverVars == <<stage, flagVars, listening, timedOut, told, connVars>>
vars == <<serverVars, lifespanVars>>

Signals == {"SIGINT", "SIGTERM"}
Waits == {"connections", "tasks", "closing"}    \* inside _wait_tasks_to_complete
Ended == {"done", "exited", "crashed"}          \* crashed: an exception left serve()
Stages == {"new", "startup", "binding", "bindFailed", "listening", "ticking",
           "settling", "waited", "lifespan"} \cup Waits \cup Ended

Requests == 1 .. NumRequests
Listed == {c \in Conns : phase[c] \in {"open", "adrift", "closing"}}
                                                        \* server_state.connections
LiveTasks == {x \in Conns \X Requests : x[2] \in tasks[x[1]]}   \* server_state.tasks
Attached == {c \in Conns : phase[c] = "handshake"} \cup Listed

ServerTypeOK ==
    /\ LifespanTypeOK
    /\ config \in Configs /\ stage \in Stages
    /\ started \in BOOLEAN /\ shouldExit \in BOOLEAN /\ forceExit \in BOOLEAN
    /\ captured \in 0 .. MaxSignals
    /\ listening \in BOOLEAN /\ timedOut \in BOOLEAN /\ told \subseteq Conns
    /\ phase \in [Conns -> {"none", "handshake", "open", "adrift", "closing", "lost"}]
    /\ accepted \in [Conns -> 0 .. NumRequests]
    /\ answered \in [Conns -> 0 .. NumRequests]
    /\ last \in [Conns -> SUBSET Requests] /\ tasks \in [Conns -> SUBSET Requests]
    /\ totalRequests \in Nat

Init ==
    /\ LifespanInit /\ config \in Configs
    /\ stage = "new" /\ started = FALSE /\ shouldExit = FALSE /\ forceExit = FALSE
    /\ captured = 0 /\ listening = FALSE /\ timedOut = FALSE /\ told = {}
    /\ phase = [c \in Conns |-> "none"] /\ totalRequests = 0
    /\ accepted = [c \in Conns |-> 0] /\ answered = [c \in Conns |-> 0]
    /\ last = [c \in Conns |-> {}] /\ tasks = [c \in Conns |-> {}]

-----------------------------------------------------------------------------
(* Connections, as HttpConnection has them                                  *)

Shut(p) == IF p \in {"open", "adrift"} THEN "closing" ELSE p

\* What shutdown() does to connection c: close it, or close it after the
\* newest request.
Idle(c) == answered[c] = accepted[c] \/ phase[c] = "adrift"
LeavesIdle(c) == phase[c]                                       \* mutant
ClosesAll(c) == Shut(phase[c])                                  \* mutant
Drained(c) == IF Idle(c) THEN Shut(phase[c]) ELSE phase[c]
ForgetsMark(c) == last[c]                                       \* mutant
DrainedLast(c) == IF Idle(c) THEN last[c] ELSE last[c] \cup {accepted[c]}

ConnectionAccepted(c) ==
    /\ listening /\ phase[c] = "none"
    /\ phase' = [phase EXCEPT ![c] = "handshake"]
    /\ UNCHANGED <<accepted, answered, last, tasks, totalRequests>>

ConnectionMade(c) ==
    /\ phase[c] = "handshake"
    /\ phase' = [phase EXCEPT ![c] = "open"]
    /\ UNCHANGED <<accepted, answered, last, tasks, totalRequests>>

HandshakeFails(c) ==
    /\ phase[c] = "handshake" /\ config.tls
    /\ phase' = [phase EXCEPT ![c] = "lost"]
    /\ UNCHANGED <<accepted, answered, last, tasks, totalRequests>>

\* A request head, whose response may have to close the connection.
RequestAccepted(c) ==
    /\ phase[c] = "open" /\ accepted[c] < NumRequests
    /\ accepted' = [accepted EXCEPT ![c] = @ + 1]
    /\ \E marked \in SUBSET {accepted'[c]} :
          last' = [last EXCEPT ![c] = @ \cup marked]
    /\ tasks' = [tasks EXCEPT ![c] = IF Idle(c) THEN @ \cup {accepted'[c]} ELSE @]
    /\ UNCHANGED <<phase, answered, totalRequests>>

\* The response is complete; its task may go on, as a background task.
Answer(c, stays) ==
    LET r == answered[c] + 1 IN
    /\ r \in tasks[c] /\ phase[c] # "adrift"
    /\ answered' = [answered EXCEPT ![c] = r]
    /\ phase' = [phase EXCEPT ![c] = IF r \in last[c] THEN Shut(@) ELSE @]
    /\ tasks' = [tasks EXCEPT
                   ![c] = (IF stays THEN @ ELSE @ \ {r}) \cup
                          (IF phase'[c] = "open" /\ r < accepted[c] THEN {r + 1}
                                                                    ELSE {})]
    /\ totalRequests' = totalRequests + 1
    /\ UNCHANGED <<accepted, last>>

\* The library refuses the end of the response, and the application goes on.  So
\* it is with a denial response that is begun: shutdown() of either raises.
ConnectionAdrift(c) ==
    /\ phase[c] = "open" /\ answered[c] + 1 \in tasks[c]
    /\ phase' = [phase EXCEPT ![c] = "adrift"]
    /\ UNCHANGED <<accepted, answered, last, tasks, totalRequests>>

\* A task that ends unanswered closes its connection, unless that is adrift.
TaskEnds(c, r) ==
    /\ r \in tasks[c]
    /\ tasks' = [tasks EXCEPT ![c] = @ \ {r}]
    /\ \/ /\ r > answered[c]
          /\ phase' = [phase EXCEPT ![c] = Shut(@)]
       \/ /\ r <= answered[c] \/ phase[c] = "adrift"
          /\ UNCHANGED phase
    /\ UNCHANGED <<accepted, answered, last, totalRequests>>

\* The keep-alive timeout, the client's end of file, a bad request.
ConnectionCloses(c) ==
    /\ phase[c] \in {"open", "adrift"}
    /\ phase' = [phase EXCEPT ![c] = "closing"]
    /\ UNCHANGED <<accepted, answered, last, tasks, totalRequests>>

ConnectionLost(c) ==
    /\ phase[c] \in {"open", "adrift", "closing"}
    /\ phase' = [phase EXCEPT ![c] = "lost"]
    /\ UNCHANGED <<accepted, answered, last, tasks, totalRequests>>

ConnectionStep(c) ==
    /\ \/ ConnectionAccepted(c) \/ ConnectionMade(c) \/ HandshakeFails(c)
       \/ RequestAccepted(c) \/ ConnectionAdrift(c)
       \/ ConnectionCloses(c) \/ ConnectionLost(c)
       \/ \E stays \in BOOLEAN : Answer(c, stays)
       \/ \E r \in Requests : TaskEnds(c, r)
    /\ stage \notin Ended
    /\ UNCHANGED <<stage, flagVars, listening, timedOut, told, lifespanVars>>

-----------------------------------------------------------------------------
(* startup()                                                                *)

ServeStarts ==
    /\ stage = "new"
    /\ StartupCalled
    /\ stage' = IF mode = "off" THEN "binding" ELSE "startup"
    /\ UNCHANGED <<flagVars, listening, timedOut, told, connVars>>

\* The application's verdict on its startup; sys.exit(STARTUP_FAILURE).
ServesAnyway(refused) == "binding"                              \* mutant
AfterStartup(refused) == IF refused THEN "exited" ELSE "binding"
LifespanStarted ==
    /\ stage = "startup"
    /\ StartupReturns
    /\ stage' = AfterStartup(lifespanExit')
    /\ UNCHANGED <<flagVars, listening, timedOut, told, connVars>>

\* create_server listens before its coroutine returns.
Bind ==
    /\ stage = "binding"
    /\ stage' = "listening"
    /\ listening' = TRUE
    /\ UNCHANGED <<flagVars, timedOut, told, connVars, lifespanVars>>

\* OSError of a host and port: the started application is shut down before sys.exit.
BindFails ==
    /\ stage = "binding"
    /\ ShutdownCalled
    /\ stage' = IF caller' = "stopped" THEN "exited" ELSE "bindFailed"
    /\ UNCHANGED <<flagVars, listening, timedOut, told, connVars>>

BindFailed ==
    /\ stage = "bindFailed"
    /\ ShutdownReturns
    /\ stage' = "exited"
    /\ UNCHANGED <<flagVars, listening, timedOut, told, connVars>>

\* The sockets of a supervisor, one after the other, a file descriptor and a Unix
\* socket (with its chmod) are bound without a handler.
BindRaises ==
    /\ stage \in {"binding", "listening"}
    /\ stage' = "crashed"
    /\ UNCHANGED <<flagVars, listening, timedOut, told, connVars, lifespanVars>>

-----------------------------------------------------------------------------
(* main_loop() and shutdown()                                               *)

\* on_tick: a signal, or limit_max_requests
ExitDue == \/ shouldExit
           \/ config.limit # 0 /\ totalRequests >= config.limit

\* shutdown() up to its first await: stop listening, tell the connections.
Tell(set, next) ==
    /\ stage' = next
    /\ listening' = FALSE
    /\ told' = set
    /\ phase' = [c \in Conns |-> IF c \in set THEN Drained(c) ELSE phase[c]]
    /\ last' = [c \in Conns |-> IF c \in set THEN DrainedLast(c) ELSE last[c]]
    /\ UNCHANGED <<accepted, answered, tasks, totalRequests>>

\* The shutdown() of a connection adrift may raise: the others in the set's order
\* behind it are not told, and neither is the application.
Sweep ==
    \/ Tell(Listed, "settling")
    \/ \E c \in Listed : /\ phase[c] = "adrift"
                         /\ \E set \in SUBSET (Listed \ {c}) : Tell(set, "crashed")

\* startup() returns and the first tick follows, without an await between.
Started ==
    /\ stage = "listening"
    /\ started' = TRUE
    /\ IF ExitDue
         THEN Sweep
         ELSE stage' = "ticking" /\ UNCHANGED <<listening, told, connVars>>
    /\ UNCHANGED <<config, shouldExit, forceExit, captured, timedOut, lifespanVars>>

\* A tick that finds a reason to exit (the others change nothing).
Tick ==
    /\ stage = "ticking" /\ ExitDue
    /\ Sweep
    /\ UNCHANGED <<flagVars, timedOut, lifespanVars>>

\* sleep(0.1): without TLS every connection accepted so far is made by then.
Settled ==
    /\ stage = "settling"
    /\ ~config.tls => \A c \in Conns : phase[c] # "handshake"
    /\ stage' = "connections"
    /\ UNCHANGED <<flagVars, listening, timedOut, told, connVars, lifespanVars>>

\* while self.server_state.connections and not self.force_exit, and the same
\* for the tasks; one after the other without an await when both are over.
ForcedOut == forceExit
OnlyConnections == TRUE                                         \* mutant
TasksDone == LiveTasks = {} \/ ForcedOut

ConnectionsGone ==
    /\ stage = "connections"
    /\ Listed = {} \/ ForcedOut
    /\ stage' = IF TasksDone THEN "closing" ELSE "tasks"
    /\ UNCHANGED <<flagVars, listening, timedOut, told, connVars, lifespanVars>>

TasksGone ==
    /\ stage = "tasks" /\ TasksDone
    /\ stage' = "closing"
    /\ UNCHANGED <<flagVars, listening, timedOut, told, connVars, lifespanVars>>

WaitClosed ==
    /\ stage = "closing"
    /\ config.waits => Attached = {}
    /\ stage' = "waited"
    /\ UNCHANGED <<flagVars, listening, timedOut, told, connVars, lifespanVars>>

\* if not self.force_exit: await self.lifespan.shutdown()
NeverAsks == stage' = "done" /\ UNCHANGED lifespanVars          \* mutant
LifespanShutdown ==
    IF forceExit
      THEN stage' = "done" /\ UNCHANGED lifespanVars
      ELSE /\ ShutdownCalled
           /\ stage' = IF caller' = "stopped" THEN "done" ELSE "lifespan"

WaitOver ==
    /\ stage = "waited"
    /\ LifespanShutdown
    /\ UNCHANGED <<flagVars, listening, timedOut, told, connVars>>

\* The waits that timeout_graceful_shutdown bounds.
OnlyFirst == {"connections"}                                    \* mutant
Bounded == Waits

\* wait_for gives up: the tasks are cancelled (each ends in a TaskEnds of its
\* own, if it lets itself be cancelled) and nobody waits for them.
GracefulTimeoutExpires ==
    /\ config.timeout /\ stage \in Bounded
    /\ timedOut' = TRUE
    /\ LifespanShutdown
    /\ UNCHANGED <<flagVars, listening, told, connVars>>

LifespanStopped ==
    /\ stage = "lifespan"
    /\ ShutdownReturns
    /\ stage' = "done"
    /\ UNCHANGED <<flagVars, listening, timedOut, told, connVars>>

\* handle_exit
HandleExit(sig) ==
    /\ stage \notin Ended /\ captured < MaxSignals
    /\ captured' = captured + 1
    /\ IF shouldExit /\ sig = "SIGINT"
         THEN forceExit' = TRUE /\ UNCHANGED shouldExit
         ELSE shouldExit' = TRUE /\ UNCHANGED forceExit
    /\ UNCHANGED <<config, stage, started, listening, timedOut, told, connVars,
                   lifespanVars>>

-----------------------------------------------------------------------------
ServeStep ==
    \/ ServeStarts \/ LifespanStarted \/ Bind \/ BindFails \/ BindFailed \/ BindRaises
    \/ Started \/ Tick \/ Settled \/ ConnectionsGone \/ TasksGone \/ WaitClosed \/ WaitOver
    \/ LifespanStopped

Next ==
    \/ ServeStep
    \/ GracefulTimeoutExpires
    \/ \E sig \in Signals : HandleExit(sig)
    \/ \E c \in Conns : ConnectionStep(c)
    \/ LifespanAppStep /\ stage \notin Ended /\ UNCHANGED serverVars

Spec == Init /\ [][Next]_vars

\* The event loop runs serve() and its timers; an application asked to shut
\* down ends in the end.  Nothing is assumed of requests or clients.
AppHeedsShutdown ==
    stage = "lifespan" /\ AppEndsLifespan("returned") /\ UNCHANGED serverVars
LoopFairness ==
    /\ WF_vars(ServeStep) /\ WF_vars(GracefulTimeoutExpires)
    /\ WF_vars(AppHeedsShutdown)
    /\ \A c \in Conns :
          WF_vars(~config.tls /\ phase[c] = "handshake" /\ ConnectionStep(c))

\* Besides: a connection that was closed is reported lost.
LostFairness == \A c \in Conns :
    WF_vars(ConnectionStep(c) /\ phase[c] = "closing" /\ phase'[c] = "lost")

\* Besides: requests are answered and their tasks end.
ConnectionFairness ==
    \A c \in Conns :
        /\ WF_vars(ConnectionStep(c) /\ answered'[c] > answered[c])
        /\ \A r \in Requests : WF_vars(ConnectionStep(c) /\ answered[c] >= r /\
                                       r \in tasks[c] /\ r \notin tasks'[c])

-----------------------------------------------------------------------------
(* Properties                                                               *)

\* Requests are served only inside the application's lifespan: never before
\* its startup succeeded, nor once its shutdown was asked for, except by a
\* forced or timed out shutdown, or behind a TLS handshake that outlives the
\* wait for the connections (server.py:105-118, 295-311).
RequestsWithinLifespan ==
    /\ ServerTypeOK
    /\ LiveTasks # {} =>
        \/ caller = "started" /\ ~lifespanExit
        \/ /\ caller \in {"stopping", "stopped"}
           /\ timedOut \/ forceExit \/ config.tls

\* Every application that started up is shut down before the process ends, also
\* when a host and port cannot be bound or a signal comes during the startup.  Only a
\* forced exit skips it (server.py:106-109, 181-192, 309-311), and an exception that
\* nobody handles: of the other ways to bind (149-177) before the server has started,
\* and of the shutdown() of a connection adrift (291-292) from then on.
Excepted == stage = "crashed" /\ (started => \E c \in Listed : phase[c] = "adrift")
StartedIsShutDown ==
    stage \in Ended => caller = "stopped" \/ lifespanExit \/ forceExit \/ Excepted

\* A graceful shutdown waits for the connections and then for the tasks, and
\* neither can come back while it waits for the other, where no TLS handshake
\* is under way (server.py:313-329).
QuietWhenWaited ==
    /\ stage \in {"waited", "lifespan"} /\ ~timedOut /\ ~forceExit
    /\ ~config.tls
    =>
        Listed = {} /\ LiveTasks = {}

\* A connection told to shut down and still open, and not adrift, has an unanswered
\* request whose response closes it (server.py:291-292).
ToldWillClose ==
    \A c \in told : phase[c] = "open" =>
        \E r \in (answered[c] + 1) .. accepted[c] : r \in last[c]

-----------------------------------------------------------------------------
(* The inductive invariant behind the safety properties                     *)

Unconnected == {"new", "startup", "binding", "bindFailed", "exited"}
Serving == {"binding", "listening", "ticking", "settling", "waited", "crashed"} \cup Waits
Stopped == {"settling", "waited", "lifespan", "done"} \cup Waits

\* Where serve() stands and what it asked of the application go together.
StageInv ==
    /\ stage = "new" <=> caller = "new"
    /\ stage = "startup" <=> caller = "starting"
    /\ stage \in {"bindFailed", "lifespan"} <=> caller = "stopping"
    /\ stage \in Serving => caller = "started" /\ ~lifespanExit
    /\ stage = "done" => caller = "stopped" \/ (forceExit /\ ~lifespanExit)
    /\ stage = "exited" => caller = "stopped" \/ lifespanExit
    /\ started => stage \notin Unconnected \cup {"listening"}
    /\ stage = "crashed" => Excepted

\* Nobody is connected before the sockets listen, and whoever a shutdown has
\* waited for does not come back.
QuietInv ==
    /\ listening => stage \in {"listening", "ticking", "crashed"}
    /\ stage \in Unconnected => \A c \in Conns : phase[c] = "none" /\ tasks[c] = {}
    /\ ~config.tls /\ stage \in Stopped \ {"settling"} =>
           /\ \A c \in Conns : phase[c] # "handshake"
           /\ ~timedOut /\ ~forceExit =>
                /\ stage # "connections" => Listed = {}
                /\ stage \notin {"connections", "tasks"} => LiveTasks = {}

\* Requests are answered in order, after they came; only connections that were
\* made have tasks or are told to shut down.
ContractInv ==
    /\ \A c \in Conns : answered[c] <= accepted[c] /\ tasks[c] \subseteq 1 .. accepted[c]
    /\ \A c \in told : phase[c] \notin {"none", "handshake"}
    /\ \A c \in Conns : phase[c] \in {"none", "handshake"} => tasks[c] = {}

\* The inductive invariant: where serve() stands agrees with its lifespan, with what
\* its waits have established and with what it told the connections
\* (server.py:88-118, 281-329).
ServerInv == ServerTypeOK /\ LifespanInv /\ StageInv /\ QuietInv /\ ContractInv /\ ToldWillClose

-----------------------------------------------------------------------------

\* A shutdown can be cut short: with a graceful timeout it ends although
\* requests and connections are stuck, and a second interrupt ends the wait for
\* requests whatever they do, where wait_closed() returns at once
\* (server.py:296-307, 315-326, 351-356).
Winding == {"settling", "waited"} \cup Waits
ShutdownIsBounded ==
    /\ (config.timeout /\ stage = "settling") ~> (stage = "done")
    /\ (forceExit /\ stage \in Winding /\ ~config.waits) ~> (stage = "done")

\* Without a timeout a shutdown that told every connection ends when the
\* requests being served are answered and closed transports are reported lost,
\* although idle clients stay connected and new requests are still read, if no
\* connection goes adrift (server.py:281-311).
AllTold == \A c \in Attached : c \in told
GracefulShutdownEnds ==
    LostFairness /\ ConnectionFairness /\ [](\A c \in Conns : phase[c] # "adrift") =>
        ((stage = "settling" /\ AllTold) ~> (stage = "done"))

\* The connections the server is composed with keep to HttpConnection.
Conn(c) == INSTANCE HttpConnection WITH
    phase <- IF phase[c] \in {"none", "handshake"} THEN "open" ELSE phase[c],
    accepted <- accepted[c], answered <- answered[c], last <- last[c],
    tasks <- tasks[c]
ConnectionsKeepContract ==
    /\ \A c \in Conns : Conn(c)!HInit
    /\ [][\A c \in Conns : [Conn(c)!HNext]_(Conn(c)!hvars)]_vars
=============================================================================
