------------------------------- MODULE Lifespan -------------------------------
(***************************************************************************)
(* The ASGI lifespan protocol (LifespanOn, LifespanOff): the server's two   *)
(* calls startup() and shutdown(), the task that runs the application's     *)
(* lifespan scope, and the queue and the two events between them.           *)
(*                                                                          *)
(* The application is arbitrary: it takes events, sends messages in any     *)
(* order, returns or raises at any time.  A message that an assertion of    *)
(* send() refuses changes nothing (the application may catch the            *)
(* AssertionError or die of it, AppRaises).  A caller that waits on an      *)
(* event goes on in a later step than the one that sets it: the application *)
(* may act in between.                                                      *)
(***************************************************************************)
EXTENDS Sequences, FiniteSets, Integers

CONSTANT Modes              \* values of config.lifespan to consider

ASSUME ModesAssumption == Modes \subseteq {"on", "auto", "off"}

VARIABLES
    mode,                   \* config.lifespan, fixed from the start
    caller,                 \* where the server stands with its two calls
    app,                    \* the task that runs main()
    queue,                  \* receive_queue
    startupEvent, shutdownEvent,
    errorOccurred, startupFailed, shutdownFailed,
    lifespanExit,           \* LifespanOn.should_exit
    taken, said             \* events the application took, messages accepted

lifespanVars == <<mode, caller, app, queue, startupEvent, shutdownEvent,
                  errorOccurred, startupFailed, shutdownFailed, lifespanExit,
                  taken, said>>

Events == {"startup", "shutdown"}
Sent == {"startup.complete", "startup.failed", "shutdown.complete", "shutdown.failed"}

LifespanTypeOK ==
    /\ mode \in {"on", "auto", "off"}
    /\ caller \in {"new", "starting", "started", "stopping", "stopped"}
    /\ app \in {"none", "running", "returned", "raised"}
    /\ queue \in Seq(Events) /\ taken \in Seq(Events) /\ said \subseteq Sent
    /\ startupEvent \in BOOLEAN /\ shutdownEvent \in BOOLEAN
    /\ errorOccurred \in BOOLEAN /\ startupFailed \in BOOLEAN
    /\ shutdownFailed \in BOOLEAN /\ lifespanExit \in BOOLEAN

LifespanInit ==
    /\ mode \in Modes
    /\ caller = "new" /\ app = "none" /\ queue = <<>> /\ taken = <<>> /\ said = {}
    /\ startupEvent = FALSE /\ shutdownEvent = FALSE
    /\ errorOccurred = FALSE /\ startupFailed = FALSE /\ shutdownFailed = FALSE
    /\ lifespanExit = FALSE

-----------------------------------------------------------------------------
(* The server's side                                                        *)

\* startup() up to its wait: the task is created, the event is queued.
StartupCalled ==
    /\ caller = "new"
    /\ \/ /\ mode = "off"
          /\ caller' = "started"
          /\ UNCHANGED <<app, queue>>
       \/ /\ mode # "off"
          /\ caller' = "starting"
          /\ app' = "running"
          /\ queue' = Append(queue, "startup")
    /\ UNCHANGED <<mode, startupEvent, shutdownEvent, errorOccurred,
                   startupFailed, shutdownFailed, lifespanExit, taken, said>>

\* startup_failed or (error_occurred and config.lifespan == "on")
StartupRefused == startupFailed \/ (errorOccurred /\ mode = "on")

StartupReturns ==
    /\ caller = "starting" /\ startupEvent
    /\ caller' = "started"
    /\ lifespanExit' = (lifespanExit \/ StartupRefused)
    /\ UNCHANGED <<mode, app, queue, startupEvent, shutdownEvent, errorOccurred,
                   startupFailed, shutdownFailed, taken, said>>

\* shutdown() up to its wait; it returns at once when the application raised.
NobodyToAsk == errorOccurred

ShutdownCalled ==
    /\ caller = "started"
    /\ \/ /\ mode = "off" \/ NobodyToAsk
          /\ caller' = "stopped"
          /\ UNCHANGED queue
       \/ /\ mode # "off" /\ ~NobodyToAsk
          /\ caller' = "stopping"
          /\ queue' = Append(queue, "shutdown")
    /\ UNCHANGED <<mode, app, startupEvent, shutdownEvent, errorOccurred,
                   startupFailed, shutdownFailed, lifespanExit, taken, said>>

ShutdownReturns ==
    /\ caller = "stopping" /\ shutdownEvent
    /\ caller' = "stopped"
    /\ lifespanExit' = (lifespanExit \/ shutdownFailed
                                     \/ (errorOccurred /\ mode = "on"))
    /\ UNCHANGED <<mode, app, queue, startupEvent, shutdownEvent, errorOccurred,
                   startupFailed, shutdownFailed, taken, said>>

-----------------------------------------------------------------------------
(* The application's side                                                   *)

AppTakes ==
    /\ app = "running" /\ queue # <<>>
    /\ taken' = Append(taken, Head(queue))
    /\ queue' = Tail(queue)
    /\ UNCHANGED <<mode, caller, app, startupEvent, shutdownEvent,
                   errorOccurred, startupFailed, shutdownFailed, lifespanExit,
                   said>>

\* The assertions of send().
ChecksOwnEvent(m) ==                                            \* mutant
    IF m \in {"startup.complete", "startup.failed"} THEN TRUE ELSE ~shutdownEvent
Allowed(m) ==
    /\ ~shutdownEvent
    /\ startupEvent <=> m \in {"shutdown.complete", "shutdown.failed"}

AppSends(m) ==
    /\ app = "running" /\ Allowed(m)
    /\ said' = said \cup {m}
    /\ startupEvent' = TRUE
    /\ shutdownEvent' = (m \in {"shutdown.complete", "shutdown.failed"})
    /\ startupFailed' = (startupFailed \/ m = "startup.failed")
    /\ shutdownFailed' = (shutdownFailed \/ m = "shutdown.failed")
    /\ UNCHANGED <<mode, caller, app, queue, errorOccurred, lifespanExit,
                   taken>>

\* main()'s finally: release whoever waits, now or later.
ReleasesStartup == startupEvent' = TRUE /\ UNCHANGED shutdownEvent    \* mutant
ReleaseBoth == startupEvent' = TRUE /\ shutdownEvent' = TRUE

AppEndsLifespan(how) ==
    /\ app = "running"
    /\ app' = how
    /\ errorOccurred' = (errorOccurred \/ how = "raised")
    /\ ReleaseBoth
    /\ UNCHANGED <<mode, caller, queue, startupFailed, shutdownFailed,
                   lifespanExit, taken, said>>

LifespanAppStep ==
    \/ AppTakes
    \/ \E m \in Sent : AppSends(m)
    \/ AppEndsLifespan("returned") \/ AppEndsLifespan("raised")

-----------------------------------------------------------------------------
LifespanNext == \/ StartupCalled \/ StartupReturns
                \/ ShutdownCalled \/ ShutdownReturns
                \/ LifespanAppStep

LifespanSpec == LifespanInit /\ [][LifespanNext]_lifespanVars

-----------------------------------------------------------------------------
(* Properties                                                               *)

\* The server goes on to serve exactly when the application did not fail its
\* startup: it refuses after startup.failed in every mode, after an exception
\* in mode "on" only, and otherwise the application said it is complete, or
\* returned, or raised in mode "auto" (lifespan/on.py:56-62, 87-100).
StartupVerdict ==
    caller = "started" /\ mode # "off" =>
        /\ startupFailed => lifespanExit
        /\ lifespanExit => startupFailed \/ (app = "raised" /\ mode = "on")
        /\ \/ lifespanExit \/ "startup.complete" \in said \/ app = "returned"
           \/ app = "raised" /\ mode = "auto"

\* An application gives one verdict for each phase, whatever it tries to send
\* and in whatever order (lifespan/on.py:110-134).
OneVerdict ==
    /\ ~({"startup.complete", "startup.failed"} \subseteq said)
    /\ ~({"shutdown.complete", "shutdown.failed"} \subseteq said)

\* shutdown() returns without the application having answered only when its
\* task is over: an application that started is asked and waited for
\* (lifespan/on.py:64-76).
ShutdownAnswered ==
    caller = "stopped" /\ app = "running" =>
        said \cap {"shutdown.complete", "shutdown.failed"} # {}

\* What the server concludes from the lifespan protocol and what the
\* application said agree, in every mode.
LifespanVerdicts == StartupVerdict /\ OneVerdict /\ ShutdownAnswered

\* The inductive invariant behind the verdicts: each event, once set, has a
\* message or the end of the application to show for it.
EventsInv ==
    /\ ~startupEvent => said = {} /\ ~shutdownEvent
    /\ app = "none" => ~startupEvent
    /\ ~shutdownEvent => /\ app \in {"none", "running"}
                         /\ said \cap {"shutdown.complete", "shutdown.failed"} = {}
    /\ app = "running" /\ startupEvent =>
           said \cap {"startup.complete", "startup.failed"} # {}
    /\ app = "running" /\ shutdownEvent =>
           said \cap {"shutdown.complete", "shutdown.failed"} # {}
    /\ startupFailed <=> "startup.failed" \in said
    /\ errorOccurred <=> app = "raised"
    /\ app = "none" <=> caller = "new" \/ mode = "off"
    /\ caller \in {"new", "starting"} => ~lifespanExit
    /\ caller \notin {"new", "starting"} /\ mode # "off" => startupEvent

\* The inductive invariant of the lifespan: events and verdicts (on.py:36-137).
LifespanInv == EventsInv /\ LifespanVerdicts

\* The server never waits for an application that is gone, whether it returned
\* early, ignored the protocol or raised, before or after the server began to
\* wait (lifespan/on.py:56, 70, 98-100).
Waiting == caller \in {"starting", "stopping"}
GoneAppReleases == (Waiting /\ app \in {"returned", "raised"}) ~> ~Waiting
=============================================================================
