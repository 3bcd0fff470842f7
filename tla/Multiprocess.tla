----------------------------- MODULE Multiprocess -----------------------------
(***************************************************************************)
(* The supervisor of worker processes: its loop of signals and health       *)
(* checks, the rolling restart, and the workers at the other end of their   *)
(* pipes.                                                                   *)
(*                                                                          *)
(* The supervisor is one thread; pc is where it stands, and one action is   *)
(* what it does between two calls that block (wait, poll, sleep, join).     *)
(* Signal handlers only append to signal_queue, at any time.  A worker runs *)
(* on its own: it starts up, serves, ends, or gets stuck (no Python code of *)
(* it runs: no signal handler and no answer to a ping).  Nothing has a      *)
(* clock: a poll may time out whenever nothing was answered.                *)
(*                                                                          *)
(* A number in Procs stands for a Process object and its process; the       *)
(* number of one that has ended and is not held any more is used again.     *)
(***************************************************************************)
EXTENDS Integers, FiniteSets, Sequences, SequencesExt

CONSTANTS
    Workers,            \* config.workers
    MaxWorkers,         \* bound: workers after SIGTTIN
    MaxSignals,         \* bound: signals received
    MaxPending          \* bound: pings and pongs in a pipe

ASSUME MultiprocessAssumption ==
    /\ Workers \in Nat \ {0} /\ MaxWorkers \in Nat /\ Workers <= MaxWorkers
    /\ MaxSignals \in Nat /\ MaxPending \in Nat \ {0}

\* All workers and one more in hand.
Procs == 1 .. MaxWorkers + 1

VARIABLES
    \* the supervisor
    pc, shouldExit, signalQueue,
    batch,              \* what handle_signals has yet to handle
    processes, processesNum,
    idx,                \* index of the loop over processes
    held,               \* a process in hand that is not in processes
    received,           \* signals received so far
    \* each worker
    life,               \* "free", "spawned", "starting", "serving"; ended: "exited"
                        \* after it served, "aborted" before
    failed,             \* its exit code is STARTUP_FAILURE
    stuck,
    told,               \* SIGTERM was sent to it
    deaf,               \* its pong thread reads another Server than main runs
    pings, pongs        \* its pipe, both ways

loopVars == <<pc, batch, idx, held>>
poolVars == <<processes, processesNum>>
signalVars == <<shouldExit, signalQueue, received>>
pipeVars == <<pings, pongs>>
workerVars == <<life, failed, stuck, told, deaf, pipeVars>>
vars == <<loopVars, poolVars, signalVars, workerVars>>

Nobody == 0
Signals == {"TERM", "HUP", "TTIN", "TTOU"}
Alive(p) == life[p] \in {"spawned", "starting", "serving"}
Pool == ToSet(processes)
Lives == {"free", "spawned", "starting", "serving", "exited", "aborted"}

\* It serves, or did before it ended, in whatever way.
Served(p) == life[p] \in {"serving", "exited"}

\* The process of p is over.
Ended(p) == IF Served(p) THEN "exited" ELSE "aborted"

Restarting == {"readying", "polling"}           \* wait_until_ready
Stopping == {"terminating", "joining", "stopped"}
Pcs == Restarting \cup Stopping \cup
       {"new", "waiting", "signals", "restart", "discarding", "retiringOld",
        "replacing", "retiring", "health", "checking", "reaping"}

MultiprocessTypeOK ==
    /\ pc \in Pcs /\ shouldExit \in BOOLEAN /\ idx \in 1 .. MaxWorkers + 1
    /\ signalQueue \in Seq(Signals) /\ batch \in Seq(Signals)
    /\ processes \in Seq(Procs) /\ processesNum \in 1 .. MaxWorkers
    /\ pc # "new" => Len(processes) = processesNum
    /\ held \in Procs \cup {Nobody} /\ received \in 0 .. MaxSignals
    /\ life \in [Procs -> Lives]
    /\ failed \in [Procs -> BOOLEAN] /\ stuck \in [Procs -> BOOLEAN]
    /\ told \in [Procs -> BOOLEAN] /\ deaf \in [Procs -> BOOLEAN]
    /\ pings \in [Procs -> 0 .. MaxPending]
    /\ pongs \in [Procs -> Seq(BOOLEAN)]

None == [p \in Procs |-> FALSE]

Init ==
    /\ pc = "new" /\ shouldExit = FALSE /\ signalQueue = <<>> /\ received = 0
    /\ batch = <<>> /\ processes = <<>> /\ processesNum = Workers
    /\ idx = 1 /\ held = Nobody
    /\ life = [p \in Procs |-> "free"] /\ failed = None /\ stuck = None
    /\ told = None /\ deaf = None
    /\ pings = [p \in Procs |-> 0] /\ pongs = [p \in Procs |-> <<>>]

-----------------------------------------------------------------------------
(* Processes                                                                *)

\* Process objects to be made: not in hand, and not running.
Free == {p \in Procs : ~Alive(p) /\ p \notin Pool /\ p # held}

New == CHOOSE p \in Free : TRUE

\* Process(config, sockets) and start() for each p of fresh, with a new pipe;
\* the objects of dropped are let go.
Renew(fresh, dropped) ==
    LET ps == fresh \cup dropped IN
    /\ life' = [p \in Procs |-> IF p \in fresh THEN "spawned"
                               ELSE IF p \in dropped /\ ~Alive(p) THEN "free"
                               ELSE life[p]]
    /\ failed' = [p \in Procs |-> failed[p] /\ p \notin ps]
    /\ stuck' = [p \in Procs |-> stuck[p] /\ p \notin ps]
    /\ told' = [p \in Procs |-> told[p] /\ p \notin ps]
    /\ deaf' = [p \in Procs |-> deaf[p] /\ p \notin ps]
    /\ pings' = [p \in Procs |-> IF p \in ps THEN 0 ELSE pings[p]]
    /\ pongs' = [p \in Procs |-> IF p \in ps THEN <<>> ELSE pongs[p]]

\* parent_conn.close(), child_conn.close()
ClosePipes(ps) ==
    /\ pings' = [p \in Procs |-> IF p \in ps THEN 0 ELSE pings[p]]
    /\ pongs' = [p \in Procs |-> IF p \in ps THEN <<>> ELSE pongs[p]]

\* terminate(): SIGTERM, unless it has an exit code.
Terminate(ps) ==
    LET running == {p \in ps : Alive(p)} IN
    /\ told' = [p \in Procs |-> told[p] \/ p \in running]
    /\ ClosePipes(running)
    /\ UNCHANGED <<life, failed, stuck, deaf>>

\* kill(): nothing happens to a process that has ended.
Kill(p) ==
    /\ life' = [life EXCEPT ![p] = Ended(p)]
    /\ stuck' = [stuck EXCEPT ![p] = FALSE]
    /\ ClosePipes({p})
    /\ UNCHANGED <<failed, told, deaf>>

\* join() returns.
DoesNotJoin(p) == TRUE                                          \* mutant
Joined(p) == ~Alive(p)

\* _healthcheck up to its poll
Ping(p) ==
    /\ pings[p] + Len(pongs[p]) < MaxPending
    /\ pings' = [pings EXCEPT ![p] = @ + 1]
    /\ UNCHANGED <<life, failed, stuck, told, deaf, pongs>>

\* poll() and recv(): the oldest answer in the pipe, whichever ping it is for.
Answered(p) ==
    /\ pongs[p] # <<>>
    /\ pongs' = [pongs EXCEPT ![p] = Tail(@)]
    /\ UNCHANGED <<life, failed, stuck, told, deaf, pings>>

-----------------------------------------------------------------------------
(* A worker                                                                 *)

\* target(): the pong thread and the main thread both make the Server the
\* first time they look for it.  When a ping is there already, the thread may
\* see none, and store its own after the main thread took another to run.
\* That matters for is_ready() only, so it is left out where only ping() asks.
WorkerStarts(p) ==
    /\ life[p] = "spawned"
    /\ life' = [life EXCEPT ![p] = "starting"]
    /\ \E race \in BOOLEAN :
          /\ race => pings[p] > 0 /\ p = held
          /\ deaf' = [deaf EXCEPT ![p] = race]
    /\ UNCHANGED <<failed, stuck, told, pipeVars>>

WorkerServes(p) ==
    /\ life[p] = "starting" /\ ~stuck[p]
    /\ life' = [life EXCEPT ![p] = "serving"]
    /\ UNCHANGED <<failed, stuck, told, deaf, pipeVars>>

\* pong()
Pong(p) ==
    /\ life[p] \in {"starting", "serving"} /\ ~stuck[p] /\ pings[p] > 0
    /\ pings' = [pings EXCEPT ![p] = @ - 1]
    /\ pongs' = [pongs EXCEPT ![p] = Append(@, life[p] = "serving" /\ ~deaf[p])]
    /\ UNCHANGED <<life, failed, stuck, told, deaf>>

\* sys.exit(STARTUP_FAILURE)
WorkerFails(p) ==
    /\ life[p] = "starting" /\ ~stuck[p]
    /\ life' = [life EXCEPT ![p] = Ended(p)]
    /\ failed' = [failed EXCEPT ![p] = TRUE]
    /\ pings' = [pings EXCEPT ![p] = 0]
    /\ UNCHANGED <<stuck, told, deaf, pongs>>

\* Any other end: a crash, limit_max_requests, SIGTERM heeded.
WorkerExits(p) ==
    /\ Alive(p) /\ ~stuck[p]
    /\ life' = [life EXCEPT ![p] = Ended(p)]
    /\ pings' = [pings EXCEPT ![p] = 0]
    /\ UNCHANGED <<failed, stuck, told, deaf, pongs>>

WorkerSticks(p) ==
    /\ life[p] \in {"starting", "serving"} /\ ~stuck[p]
    /\ stuck' = [stuck EXCEPT ![p] = TRUE]
    /\ UNCHANGED <<life, failed, told, deaf, pipeVars>>

WorkerRecovers(p) ==
    /\ stuck[p]
    /\ stuck' = [stuck EXCEPT ![p] = FALSE]
    /\ UNCHANGED <<life, failed, told, deaf, pipeVars>>

WorkerStep(p) ==
    /\ \/ WorkerStarts(p) \/ WorkerServes(p) \/ Pong(p) \/ WorkerFails(p)
       \/ WorkerExits(p) \/ WorkerSticks(p) \/ WorkerRecovers(p)
    /\ UNCHANGED <<loopVars, poolVars, signalVars>>

-----------------------------------------------------------------------------
(* run() and handle_signals()                                               *)

InitProcesses ==
    /\ pc = "new"
    /\ processes' = [i \in 1 .. processesNum |-> i]
    /\ Renew(1 .. processesNum, {})
    /\ pc' = "waiting"
    /\ UNCHANGED <<batch, idx, held, processesNum, signalVars>>

\* should_exit.wait(0.5), then tuple(self.signal_queue)
LoopTurns ==
    /\ pc = "waiting"
    /\ IF shouldExit THEN pc' = "terminating" /\ UNCHANGED batch
                     ELSE pc' = "signals" /\ batch' = signalQueue
    /\ UNCHANGED <<idx, held, poolVars, signalVars, workerVars>>

\* self.signal_queue.remove(sig): what came since the snapshot stays.
ClearsQueue(sig) == <<>>                                        \* mutant
Dequeued(sig) == RemoveFirst(signalQueue, sig)

TakeSignal(sig) ==
    /\ pc = "signals" /\ batch # <<>> /\ Head(batch) = sig
    /\ batch' = Tail(batch)
    /\ signalQueue' = Dequeued(sig)
    /\ UNCHANGED received

HandleTerm ==
    /\ TakeSignal("TERM")
    /\ shouldExit' = TRUE
    /\ UNCHANGED <<pc, idx, held, poolVars, workerVars>>

HandleHup ==
    /\ TakeSignal("HUP")
    /\ pc' = "restart" /\ idx' = 1
    /\ UNCHANGED <<shouldExit, held, poolVars, workerVars>>

HandleTtin ==
    /\ TakeSignal("TTIN")
    /\ processesNum' = processesNum + 1
    /\ processes' = Append(processes, New)
    /\ Renew({New}, {})
    /\ UNCHANGED <<pc, idx, held, shouldExit>>

LastWorker == processesNum <= 1

\* The last worker is popped, told to terminate and joined.
HandleTtou ==
    /\ TakeSignal("TTOU")
    /\ IF LastWorker
         THEN UNCHANGED <<pc, held, poolVars, workerVars>>
         ELSE /\ processesNum' = processesNum - 1
              /\ held' = Last(processes) /\ processes' = Front(processes)
              /\ Terminate({held'})
              /\ pc' = "retiring"
    /\ UNCHANGED <<idx, shouldExit>>

Retired ==
    /\ pc = "retiring" /\ Joined(held)
    /\ pc' = "signals" /\ held' = Nobody
    /\ Renew({}, {held})
    /\ UNCHANGED <<batch, idx, poolVars, signalVars>>

SignalsHandled ==
    /\ pc = "signals" /\ batch = <<>>
    /\ IF shouldExit THEN pc' = "waiting" /\ UNCHANGED idx
                     ELSE pc' = "health" /\ idx' = 1
    /\ UNCHANGED <<batch, held, poolVars, signalVars, workerVars>>

-----------------------------------------------------------------------------
(* restart_all(), with wait_until_ready()                                   *)

RestartNext ==
    /\ pc = "restart"
    /\ \/ /\ idx > Len(processes) \/ shouldExit
          /\ pc' = "signals" /\ idx' = 1
          /\ UNCHANGED <<held, workerVars>>
       \/ /\ idx <= Len(processes) /\ ~shouldExit
          /\ pc' = "readying" /\ UNCHANGED idx
          /\ held' = New
          /\ Renew({New}, {})
    /\ UNCHANGED <<batch, poolVars, signalVars>>

ReadyPing ==
    /\ pc = "readying" /\ ~shouldExit /\ Alive(held)
    /\ Ping(held)
    /\ pc' = "polling"
    /\ UNCHANGED <<batch, idx, held, poolVars, signalVars>>

\* is_ready(): only an answer that says the startup is over will do.
AnyAnswer(started) == TRUE                                      \* mutant
IsReady(started) == started

\* Not ready, or no answer in a second: sleep and try again.
NotReadyYet ==
    /\ pc = "polling"
    /\ \/ /\ pongs[held] # <<>> /\ ~IsReady(Head(pongs[held]))
          /\ Answered(held)
       \/ pongs[held] = <<>> /\ UNCHANGED workerVars
    /\ pc' = "readying"
    /\ UNCHANGED <<batch, idx, held, poolVars, signalVars>>

\* Ready: the old worker is told to terminate, and joined.
Ready ==
    /\ pc = "polling"
    /\ pongs[held] # <<>> /\ IsReady(Head(pongs[held]))
    /\ Answered(held)
    /\ pc' = "retiringOld"
    /\ UNCHANGED <<batch, idx, held, poolVars, signalVars>>

RetireOld ==
    /\ pc = "retiringOld"
    /\ Terminate({processes[idx]})
    /\ pc' = "replacing"
    /\ UNCHANGED <<batch, idx, held, poolVars, signalVars>>

Replaced ==
    /\ pc = "replacing" /\ Joined(processes[idx])
    /\ processes' = [processes EXCEPT ![idx] = held]
    /\ held' = Nobody /\ idx' = idx + 1 /\ pc' = "restart"
    /\ Renew({}, {processes[idx]})
    /\ UNCHANGED <<batch, processesNum, signalVars>>

\* Shutdown, exit of the new worker, or the deadline: the restart is given up.
Deadline ==
    /\ pc = "readying"
    /\ Kill(held)
    /\ pc' = "discarding"
    /\ UNCHANGED <<batch, idx, held, poolVars, signalVars>>

Discarded ==
    /\ pc = "discarding" /\ Joined(held)
    /\ pc' = "signals" /\ held' = Nobody /\ idx' = 1
    /\ Renew({}, {held})
    /\ UNCHANGED <<batch, poolVars, signalVars>>

-----------------------------------------------------------------------------
(* keep_subprocess_alive()                                                  *)

HealthOver ==
    /\ pc = "health" /\ idx > Len(processes)
    /\ pc' = "waiting" /\ idx' = 1
    /\ UNCHANGED <<batch, held, poolVars, signalVars, workerVars>>

HealthPing ==
    /\ pc = "health" /\ idx <= Len(processes) /\ Alive(processes[idx])
    /\ Ping(processes[idx])
    /\ pc' = "checking"
    /\ UNCHANGED <<batch, idx, held, poolVars, signalVars>>

\* ping(): any answer counts, also a late one.
Healthy ==
    /\ pc = "checking"
    /\ Answered(processes[idx])
    /\ pc' = "health" /\ idx' = idx + 1
    /\ UNCHANGED <<batch, held, poolVars, signalVars>>

\* Gone, or no answer in time: kill() and join().
LeavesStuck(p) == UNCHANGED workerVars                          \* mutant
KillHung(p) == Kill(p)

Unhealthy ==
    /\ \/ pc = "checking" /\ pongs[processes[idx]] = <<>>
       \/ pc = "health" /\ idx <= Len(processes) /\ ~Alive(processes[idx])
    /\ KillHung(processes[idx])
    /\ pc' = "reaping"
    /\ UNCHANGED <<batch, idx, held, poolVars, signalVars>>

\* exitcode == STARTUP_FAILURE
IgnoresExitCode(p) == FALSE                                     \* mutant
FailedToStart(p) == failed[p]

Reaped ==
    /\ pc = "reaping" /\ Joined(processes[idx])
    /\ IF FailedToStart(processes[idx]) \/ shouldExit
         THEN /\ shouldExit' = TRUE
              /\ pc' = "waiting" /\ idx' = 1
              /\ UNCHANGED <<processes, workerVars>>
         ELSE /\ processes' = [processes EXCEPT ![idx] = New]
              /\ Renew({New}, {processes[idx]})
              /\ idx' = idx + 1 /\ pc' = "health"
              /\ UNCHANGED shouldExit
    /\ UNCHANGED <<batch, held, processesNum, signalQueue, received>>

-----------------------------------------------------------------------------
(* The end of run(), and signals                                            *)

TerminateAll ==
    /\ pc = "terminating"
    /\ Terminate(Pool)
    /\ pc' = "joining"
    /\ UNCHANGED <<batch, idx, held, poolVars, signalVars>>

JoinAll ==
    /\ pc = "joining" /\ \A p \in Pool : Joined(p)
    /\ pc' = "stopped"
    /\ UNCHANGED <<batch, idx, held, poolVars, signalVars, workerVars>>

\* A handler appends to signal_queue.  (MaxWorkers bounds SIGTTIN; what comes
\* after the loop is never looked at.)
SignalArrives(sig) ==
    /\ pc \notin Stopping /\ received < MaxSignals
    /\ sig = "TTIN" => processesNum + Len(signalQueue) < MaxWorkers
    /\ signalQueue' = Append(signalQueue, sig)
    /\ received' = received + 1
    /\ UNCHANGED <<loopVars, poolVars, shouldExit, workerVars>>

SupervisorStep ==
    \/ InitProcesses \/ LoopTurns \/ HandleTerm \/ HandleHup \/ HandleTtin
    \/ HandleTtou \/ Retired \/ SignalsHandled
    \/ RestartNext \/ ReadyPing \/ NotReadyYet \/ Ready \/ RetireOld \/ Replaced \/ Deadline
    \/ Discarded
    \/ HealthOver \/ HealthPing \/ Healthy \/ Unhealthy \/ Reaped
    \/ TerminateAll \/ JoinAll

Next == \/ SupervisorStep
        \/ \E p \in Procs : WorkerStep(p)
        \/ \E sig \in Signals : SignalArrives(sig)

Spec == Init /\ [][Next]_vars

-----------------------------------------------------------------------------
(* The supervisor's thread runs and its timers expire; a worker told to      *)
(* terminate does, as long as it is not stuck.                               *)

Fairness ==
    /\ WF_vars(SupervisorStep) /\ SF_vars(Deadline)
    /\ \A p \in Procs : SF_vars(told[p] /\ WorkerStep(p) /\ ~Alive(p)')

FairSpec == Spec /\ Fairness

-----------------------------------------------------------------------------
(* Properties                                                               *)

\* Every running worker is in the pool, once, or the one process in hand; none
\* is left behind by a restart, SIGTTOU, a health check or the end
\* (multiprocess.py:165-194, 207-208, 222-223, 280-282).
PoolOwnsWorkers ==
    /\ MultiprocessTypeOK
    /\ \A p \in Procs : Alive(p) => p \in Pool \/ p = held
    /\ IsInjective(processes) /\ held \notin Pool
    /\ pc = "stopped" => \A p \in Procs : ~Alive(p)

\* A rolling restart takes no worker of the pool out of service before its
\* replacement has served: late answers to earlier pings cannot mislead it
\* (multiprocess.py:38-55, 85-96, 182-194).
RetiredIsReplaced ==
    pc \notin Stopping =>
        \A i \in DOMAIN processes : told[processes[i]] =>
            pc = "replacing" /\ i = idx /\ Served(held)

\* A worker that failed to start is never just started again: only a restart
\* with a replacement that has served takes its place, else the supervisor
\* stops (multiprocess.py:182-190, 225-231).
FailedIsNotRestarted ==
    [][\A i \in DOMAIN processes \cap DOMAIN processes' :
           processes'[i] # processes[i] /\ failed[processes[i]] =>
               Served(processes[i])']_vars

\* A worker that was told to terminate and is stuck: join() waits for it.
JoinsStuck == \E q \in Procs : told[q] /\ stuck[q]

\* A SIGTERM among other signals, at any time of a restart or a health check,
\* stops the supervisor, unless it waits for a stuck worker it told to terminate
\* (multiprocess.py:203-208, 241-257).
StopsWhenItShould ==
    (\E i \in DOMAIN signalQueue : signalQueue[i] = "TERM") ~>
        (pc = "stopped" \/ JoinsStuck)

\* A stuck worker of the pool is killed, with the same exception, although the
\* answers to earlier pings are taken for the present (multiprocess.py:218-223).
HungIsKilled ==
    \A p \in Procs : (p \in Pool /\ stuck[p]) ~> (~stuck[p] \/ JoinsStuck)

-----------------------------------------------------------------------------
(* Why they hold: what is true of every state, and is kept by every step.    *)

Holding == Restarting \cup {"discarding", "retiringOld", "replacing", "retiring"}
AtAWorker == Restarting \cup {"retiringOld", "replacing", "checking", "reaping"}

\* A process is in hand in a restart and while one is retired, and the loops
\* over the pool stand at one of its workers.
LoopInv ==
    /\ pc = "new" => processes = <<>>
    /\ held # Nobody <=> pc \in Holding
    /\ pc \in AtAWorker => idx \in DOMAIN processes

\* What is handled is the front of the queue; there is room for SIGTTIN's worker.
SignalsInv ==
    /\ Len(batch) <= Len(signalQueue)
    /\ \A i \in DOMAIN batch : batch[i] = signalQueue[i]
    /\ \A i \in DOMAIN signalQueue :
          signalQueue[i] = "TTIN" => processesNum + i <= MaxWorkers

\* An answer that says the startup is over comes from who serves or did; a process
\* in hand is told to terminate by SIGTTOU only.
AnswersInv ==
    /\ \A p \in Procs : TRUE \in ToSet(pongs[p]) => Served(p)
    /\ \A p \in Procs : failed[p] => life[p] = "aborted"
    /\ pc \in {"retiringOld", "replacing"} => Served(held)
    /\ held # Nobody /\ told[held] => pc = "retiring"

\* The inductive invariant: who is in the pool and in hand, what the loop stands at,
\* the signals it handles and the answers it has (multiprocess.py:85-96, 142-282).
SupervisorInv ==
    /\ PoolOwnsWorkers /\ RetiredIsReplaced
    /\ LoopInv /\ SignalsInv /\ AnswersInv
=============================================================================
