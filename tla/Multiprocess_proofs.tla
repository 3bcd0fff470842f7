-------------------------- MODULE Multiprocess_proofs --------------------------
(***************************************************************************)
(* Why the supervisor of Multiprocess loses no process, retires none before *)
(* its replacement has served, and does not just restart one that failed to *)
(* start, for any number of workers and signals.  The proofs treat apart    *)
(* what happens to the workers (WorkersOK and Effect, one lemma per         *)
(* operation on them), to the queue of signals, and to the pool.            *)
(***************************************************************************)
EXTENDS Multiprocess, FiniteSetTheorems, TLAPS

-----------------------------------------------------------------------------
(* The queue of signals, and the room in the pool                            *)

\* list.remove() of a signal that is the oldest takes that one.
LEMMA Dequeue ==
    ASSUME signalQueue \in Seq(Signals), signalQueue # <<>>,
           NEW sig, sig = Head(signalQueue)
    PROVE  Dequeued(sig) = Tail(signalQueue)
<1>1. 1 \in 1 .. Len(signalQueue) /\ signalQueue[1] = sig
  OBVIOUS
<1>2. SelectInSeq(signalQueue, LAMBDA v : v = sig) = 1
  <2> DEFINE I == {i \in 1 .. Len(signalQueue) : signalQueue[i] = sig}
  <2>1. 1 \in I /\ \A i \in I : 1 <= i
    BY <1>1
  <2>2. Min(I) = 1
    BY <2>1 DEF Min
  <2>3. QED
    BY <2>1, <2>2 DEF SelectInSeq
<1>3. Dequeued(sig) = RemoveAt(signalQueue, 1)
  BY <1>1, <1>2 DEF Dequeued, RemoveFirst
<1>4. QED
  BY <1>3 DEF RemoveAt

SignalTypes ==
    /\ shouldExit \in BOOLEAN /\ signalQueue \in Seq(Signals)
    /\ batch \in Seq(Signals) /\ received \in 0 .. MaxSignals
    /\ processesNum \in 1 .. MaxWorkers

\* A signal that is handled is the oldest, and its worker fits if it is SIGTTIN.
LEMMA SignalTaken ==
    ASSUME SignalTypes, SignalsInv, NEW sig \in Signals, TakeSignal(sig),
           shouldExit' \in BOOLEAN,
           processesNum' \in Nat \ {0},
           processesNum' <= processesNum
              \/ (processesNum' = processesNum + 1 /\ sig = "TTIN")
    PROVE  SignalTypes' /\ SignalsInv' /\ (sig = "TTIN" => processesNum < MaxWorkers)
<1>1. /\ pc = "signals" /\ batch # <<>> /\ Head(batch) = sig
      /\ batch' = Tail(batch) /\ received' = received
      /\ signalQueue' = Dequeued(sig)
  BY DEF TakeSignal
<1>2. /\ signalQueue \in Seq(Signals) /\ batch \in Seq(Signals)
      /\ Len(batch) <= Len(signalQueue)
      /\ processesNum \in 1 .. MaxWorkers
      /\ \A i \in DOMAIN batch : batch[i] = signalQueue[i]
      /\ \A i \in DOMAIN signalQueue :
            signalQueue[i] = "TTIN" => processesNum + i <= MaxWorkers
  BY DEF SignalTypes, SignalsInv
<1>3. signalQueue # <<>> /\ Head(signalQueue) = sig /\ 1 \in DOMAIN signalQueue
      /\ signalQueue[1] = sig
  BY <1>1, <1>2
<1>4. signalQueue' = Tail(signalQueue)
  BY <1>1, <1>2, <1>3, Dequeue
<1>5. /\ signalQueue' \in Seq(Signals) /\ batch' \in Seq(Signals)
      /\ Len(signalQueue') = Len(signalQueue) - 1
      /\ Len(batch') = Len(batch) - 1
      /\ \A i \in 1 .. Len(signalQueue) - 1 : signalQueue'[i] = signalQueue[i + 1]
      /\ \A i \in 1 .. Len(batch) - 1 : batch'[i] = batch[i + 1]
  BY <1>1, <1>2, <1>3, <1>4
<1>6. sig = "TTIN" => processesNum + 1 <= MaxWorkers
  BY <1>2, <1>3
<1>7. MaxWorkers \in Nat
  BY MultiprocessAssumption
<1>8. processesNum' \in 1 .. MaxWorkers /\ processesNum' <= processesNum + 1
      /\ processesNum' \in Nat /\ processesNum \in Nat
  BY <1>2, <1>6, <1>7
<1>9. SignalTypes'
  BY <1>1, <1>5, <1>8 DEF SignalTypes
<1>10. ASSUME NEW i \in DOMAIN batch'
       PROVE  batch'[i] = signalQueue'[i]
  <2>1. i \in 1 .. Len(batch) - 1 /\ i \in 1 .. Len(signalQueue) - 1
        /\ i + 1 \in DOMAIN batch
    BY <1>2, <1>5
  <2>2. QED
    BY <1>2, <1>5, <2>1
<1>11. ASSUME NEW i \in DOMAIN signalQueue', signalQueue'[i] = "TTIN"
       PROVE  processesNum' + i <= MaxWorkers
  <2>1. i \in 1 .. Len(signalQueue) - 1 /\ i + 1 \in DOMAIN signalQueue
    BY <1>2, <1>5
  <2>2. processesNum + (i + 1) <= MaxWorkers
    BY <1>2, <1>5, <1>11, <2>1
  <2>3. QED
    BY <1>7, <1>8, <2>1, <2>2
<1>12. SignalsInv'
  BY <1>2, <1>5, <1>10, <1>11 DEF SignalsInv
<1>13. QED
  BY <1>2, <1>6, <1>7, <1>9, <1>12

\* A signal that arrives goes behind what is being handled.
LEMMA SignalComes ==
    ASSUME SignalTypes, SignalsInv, NEW sig \in Signals, SignalArrives(sig)
    PROVE  SignalTypes' /\ SignalsInv'
<1>1. /\ signalQueue' = Append(signalQueue, sig) /\ received' = received + 1
      /\ received < MaxSignals /\ shouldExit' = shouldExit
      /\ batch' = batch /\ processesNum' = processesNum
      /\ sig = "TTIN" => processesNum + Len(signalQueue) < MaxWorkers
  BY DEF SignalArrives, loopVars, poolVars
<1>2. /\ signalQueue \in Seq(Signals) /\ batch \in Seq(Signals)
      /\ processesNum \in 1 .. MaxWorkers /\ received \in 0 .. MaxSignals
      /\ shouldExit \in BOOLEAN
  BY DEF SignalTypes
<1>3. MaxWorkers \in Nat /\ MaxSignals \in Nat
  BY MultiprocessAssumption
<1>4. SignalTypes'
  BY <1>1, <1>2, <1>3 DEF SignalTypes
<1>5. /\ Len(signalQueue') = Len(signalQueue) + 1
      /\ \A i \in 1 .. Len(signalQueue) : signalQueue'[i] = signalQueue[i]
      /\ signalQueue'[Len(signalQueue) + 1] = sig
      /\ signalQueue' \in Seq(Signals)
  BY <1>1, <1>2
<1>6. QED
  <2>1. Len(batch') <= Len(signalQueue')
    BY <1>1, <1>2, <1>5 DEF SignalsInv
  <2>2. \A i \in DOMAIN batch' : batch'[i] = signalQueue'[i]
    BY <1>1, <1>2, <1>5 DEF SignalsInv
  <2>3. ASSUME NEW i \in DOMAIN signalQueue', signalQueue'[i] = "TTIN"
        PROVE  processesNum' + i <= MaxWorkers
    <3>1. CASE i \in 1 .. Len(signalQueue)
      BY <1>1, <1>2, <1>5, <2>3, <3>1 DEF SignalsInv
    <3>2. CASE i = Len(signalQueue) + 1
      BY <1>1, <1>2, <1>3, <1>5, <2>3, <3>2
    <3>3. QED
      BY <1>2, <1>5, <3>1, <3>2
  <2>4. QED
    BY <1>4, <2>1, <2>2, <2>3 DEF SignalsInv

\* The queue is left alone, and the snapshot with it or taken anew.
LEMMA SignalsLeft ==
    ASSUME SignalTypes, SignalsInv, UNCHANGED <<signalQueue, received, processesNum>>,
           shouldExit' \in BOOLEAN, batch' = batch \/ batch' = signalQueue
    PROVE  SignalTypes' /\ SignalsInv'
  BY DEF SignalTypes, SignalsInv

\* A pool that is not larger than it may be leaves a number for a new process.
LEMMA PoolRoom ==
    ASSUME processes \in Seq(Procs), Len(processes) <= MaxWorkers
    PROVE  \E p \in Procs : p \notin Pool
<1>1. MaxWorkers \in Nat
  BY MultiprocessAssumption
<1>2. SUFFICES ASSUME \A p \in Procs : p \in Pool
               PROVE  FALSE
  OBVIOUS
<1>3. processes \in [1 .. Len(processes) -> Procs] /\ Len(processes) \in Nat
  OBVIOUS
<1>4. \A p \in Procs : \E i \in 1 .. Len(processes) : processes[i] = p
  BY <1>2, <1>3 DEF Pool, ToSet
<1>5. processes \in Surjection(1 .. Len(processes), Procs)
  BY <1>3, <1>4 DEF Surjection
<1>6. Cardinality(Procs) <= Len(processes)
  BY <1>3, <1>5, FS_SurjCardinalityBound DEF ExistsSurjection
<1>7. Cardinality(Procs) = MaxWorkers + 1
  BY <1>1, FS_Interval DEF Procs
<1>8. QED
  BY <1>1, <1>3, <1>6, <1>7

-----------------------------------------------------------------------------
(* The workers                                                              *)

WorkerTypes ==
    /\ life \in [Procs -> Lives]
    /\ failed \in [Procs -> BOOLEAN] /\ stuck \in [Procs -> BOOLEAN]
    /\ told \in [Procs -> BOOLEAN] /\ deaf \in [Procs -> BOOLEAN]
    /\ pings \in [Procs -> 0 .. MaxPending]
    /\ pongs \in [Procs -> Seq(BOOLEAN)]

AnswersAreTrue ==
    /\ \A p \in Procs : TRUE \in ToSet(pongs[p]) => Served(p)
    /\ \A p \in Procs : failed[p] => life[p] = "aborted"

\* What a step that starts fresh, lets go of dropped and tells toldOf to
\* terminate may do to the workers, and no more.
Effect(fresh, dropped, toldOf) ==
    /\ \A p \in Procs \ fresh : Alive(p)' => Alive(p)
    /\ \A p \in Procs \ (fresh \cup dropped) :
          /\ Served(p) => Served(p)'
          /\ told'[p] => told[p] \/ p \in toldOf
    /\ \A p \in Procs \cap (fresh \cup dropped) : ~told'[p]

\* An empty pipe is one, and says nothing.
LEMMA EmptyPipe == 0 \in 0 .. MaxPending /\ <<>> \in Seq(BOOLEAN) /\ ToSet(<<>>) = {}
  BY MultiprocessAssumption DEF ToSet

\* New processes, with a new pipe.
LEMMA Renewing ==
    ASSUME WorkerTypes, AnswersAreTrue, NEW fresh, NEW dropped, Renew(fresh, dropped)
    PROVE  WorkerTypes' /\ AnswersAreTrue' /\ Effect(fresh, dropped, {})
<1>1. WorkerTypes'
  <2>1. life' \in [Procs -> Lives]
    BY DEF WorkerTypes, Renew, Lives
  <2>2. /\ failed' \in [Procs -> BOOLEAN] /\ stuck' \in [Procs -> BOOLEAN]
        /\ told' \in [Procs -> BOOLEAN] /\ deaf' \in [Procs -> BOOLEAN]
    BY Zenon DEF WorkerTypes, Renew
  <2>3. pings' \in [Procs -> 0 .. MaxPending] /\ pongs' \in [Procs -> Seq(BOOLEAN)]
    BY EmptyPipe DEF WorkerTypes, Renew
  <2>4. QED
    BY <2>1, <2>2, <2>3 DEF WorkerTypes
<1>2. \A p \in Procs \cap (fresh \cup dropped) :
         ~failed'[p] /\ ~told'[p] /\ pongs'[p] = <<>>
  BY Zenon DEF Renew
<1>3. \A p \in Procs \ (fresh \cup dropped) :
         /\ failed'[p] = (failed[p] /\ TRUE) /\ told'[p] = (told[p] /\ TRUE)
         /\ life'[p] = life[p] /\ pongs'[p] = pongs[p]
  BY Zenon DEF Renew
<1>4. \A p \in Procs \ fresh : Alive(p)' => Alive(p)
  BY DEF Renew, Alive
<1>5. \A p \in Procs \ (fresh \cup dropped) :
          (Served(p) => Served(p)') /\ (told'[p] => told[p])
  BY <1>3 DEF Served
<1>6. AnswersAreTrue'
  <2>1. \A p \in Procs : TRUE \in ToSet(pongs'[p]) => Served(p)'
    BY <1>2, <1>3, <1>5, EmptyPipe DEF AnswersAreTrue
  <2>2. \A p \in Procs : failed'[p] => life'[p] = "aborted"
    BY <1>2, <1>3 DEF AnswersAreTrue
  <2>3. QED
    BY <2>1, <2>2 DEF AnswersAreTrue
<1>7. QED
  BY <1>1, <1>2, <1>4, <1>5, <1>6 DEF Effect

\* SIGTERM to some of them.
LEMMA Terminating ==
    ASSUME WorkerTypes, AnswersAreTrue, NEW ps, Terminate(ps)
    PROVE  WorkerTypes' /\ AnswersAreTrue' /\ Effect({}, {}, ps)
<1>1. UNCHANGED <<life, failed, stuck, deaf>>
  BY DEF Terminate
<1>2. WorkerTypes'
  <2>1. told' \in [Procs -> BOOLEAN]
    BY DEF WorkerTypes, Terminate
  <2>2. pings' \in [Procs -> 0 .. MaxPending] /\ pongs' \in [Procs -> Seq(BOOLEAN)]
    BY EmptyPipe DEF WorkerTypes, Terminate, ClosePipes
  <2>3. QED
    BY <1>1, <2>1, <2>2 DEF WorkerTypes
<1>3. \A p \in Procs : pongs'[p] = pongs[p] \/ pongs'[p] = <<>>
  BY DEF Terminate, ClosePipes
<1>4. \A p \in Procs : told'[p] => told[p] \/ p \in ps
  BY DEF Terminate
<1>5. \A p \in Procs : (Served(p) => Served(p)') /\ (Alive(p)' => Alive(p))
  BY <1>1 DEF Served, Alive
<1>6. AnswersAreTrue'
  BY <1>1, <1>3, <1>5, EmptyPipe DEF AnswersAreTrue
<1>7. QED
  BY <1>2, <1>4, <1>5, <1>6 DEF Effect

\* A process that is killed is in no pool's way any more.
LEMMA Killing ==
    ASSUME WorkerTypes, AnswersAreTrue, NEW p \in Procs, Kill(p)
    PROVE  WorkerTypes' /\ AnswersAreTrue' /\ Effect({}, {}, {})
<1>1. UNCHANGED <<failed, told, deaf>>
  BY DEF Kill
<1>2. life' = [life EXCEPT ![p] = Ended(p)] /\ Ended(p) \in {"exited", "aborted"}
  BY DEF Kill, Ended
<1>3. WorkerTypes'
  <2>1. stuck' \in [Procs -> BOOLEAN]
        /\ life' \in [Procs -> Lives]
    BY <1>2 DEF WorkerTypes, Kill, Lives
  <2>2. pings' \in [Procs -> 0 .. MaxPending] /\ pongs' \in [Procs -> Seq(BOOLEAN)]
    BY EmptyPipe DEF WorkerTypes, Kill, ClosePipes
  <2>3. QED
    BY <1>1, <2>1, <2>2 DEF WorkerTypes
<1>4. \A q \in Procs : pongs'[q] = pongs[q] \/ pongs'[q] = <<>>
  BY DEF Kill, ClosePipes
<1>5. \A q \in Procs : (Served(q) => Served(q)') /\ (Alive(q)' => Alive(q))
  BY <1>1, <1>2 DEF Served, Ended, Alive, WorkerTypes
<1>6. AnswersAreTrue'
  <2>1. \A q \in Procs : TRUE \in ToSet(pongs'[q]) => Served(q)'
    BY <1>4, <1>5, EmptyPipe DEF AnswersAreTrue
  <2>2. \A q \in Procs : failed'[q] => life'[q] = "aborted"
    BY <1>1, <1>2 DEF AnswersAreTrue, WorkerTypes, Ended, Served
  <2>3. QED
    BY <2>1, <2>2 DEF AnswersAreTrue
<1>7. QED
  BY <1>1, <1>3, <1>5, <1>6 DEF Effect

\* Nothing happens to the workers but, perhaps, that an answer is taken or a
\* ping is sent.
LEMMA Asking ==
    ASSUME WorkerTypes, AnswersAreTrue, NEW p \in Procs,
           UNCHANGED workerVars \/ Ping(p) \/ Answered(p)
    PROVE  WorkerTypes' /\ AnswersAreTrue' /\ Effect({}, {}, {})
<1>1. UNCHANGED <<life, failed, stuck, told, deaf>>
  BY DEF workerVars, Ping, Answered
<1>2. pings' \in [Procs -> 0 .. MaxPending]
  <2>1. CASE Ping(p)
    <3>1. pings[p] \in Nat /\ Len(pongs[p]) \in Nat /\ MaxPending \in Nat
          /\ pings[p] + Len(pongs[p]) < MaxPending
      BY <2>1, MultiprocessAssumption DEF Ping, WorkerTypes
    <3>2. pings[p] + 1 \in 0 .. MaxPending
      BY <3>1
    <3>3. QED
      BY <2>1, <3>2 DEF Ping, WorkerTypes
  <2>2. CASE UNCHANGED workerVars \/ Answered(p)
    BY <2>2 DEF WorkerTypes, workerVars, pipeVars, Answered
  <2>3. QED
    BY <2>1, <2>2
<1>3. /\ pongs' \in [Procs -> Seq(BOOLEAN)]
      /\ \A q \in Procs : ToSet(pongs'[q]) \subseteq ToSet(pongs[q])
  <2>1. CASE Answered(p)
    <3>1. pongs[p] # <<>> /\ pongs' = [pongs EXCEPT ![p] = Tail(@)]
          /\ pongs \in [Procs -> Seq(BOOLEAN)]
      BY <2>1 DEF Answered, WorkerTypes
    <3>2. Tail(pongs[p]) \in Seq(BOOLEAN)
          /\ ToSet(Tail(pongs[p])) \subseteq ToSet(pongs[p])
      <4>1. pongs[p] \in Seq(BOOLEAN)
        BY <3>1
      <4>2. /\ Tail(pongs[p]) \in Seq(BOOLEAN)
            /\ DOMAIN Tail(pongs[p]) = 1 .. Len(pongs[p]) - 1
            /\ \A i \in 1 .. Len(pongs[p]) - 1 : Tail(pongs[p])[i] = pongs[p][i + 1]
        BY <3>1, <4>1
      <4>3. \A i \in 1 .. Len(pongs[p]) - 1 : i + 1 \in DOMAIN pongs[p]
        BY <4>1
      <4>4. QED
        BY <4>2, <4>3 DEF ToSet
    <3>3. QED
      BY <3>1, <3>2
  <2>2. CASE UNCHANGED workerVars \/ Ping(p)
    BY <2>2 DEF WorkerTypes, workerVars, pipeVars, Ping
  <2>3. QED
    BY <2>1, <2>2
<1>4. \A q \in Procs : (Served(q) => Served(q)') /\ (Alive(q)' => Alive(q))
  BY <1>1 DEF Served, Alive
<1>5. WorkerTypes'
  BY <1>1, <1>2, <1>3 DEF WorkerTypes
<1>6. AnswersAreTrue'
  BY <1>1, <1>3, <1>4 DEF AnswersAreTrue
<1>7. QED
  BY <1>1, <1>4, <1>5, <1>6 DEF Effect
\* Nothing happens to the workers.
LEMMA Leaving ==
    ASSUME WorkerTypes, AnswersAreTrue, UNCHANGED workerVars
    PROVE  WorkerTypes' /\ AnswersAreTrue' /\ Effect({}, {}, {})
<1>1. 1 \in Procs
  BY MultiprocessAssumption DEF Procs
<1>2. QED
  BY <1>1, Asking

\* What a worker does by itself: only one that serves says that it does.
LEMMA Working ==
    ASSUME WorkerTypes, AnswersAreTrue, NEW p \in Procs, WorkerStep(p)
    PROVE  WorkerTypes' /\ AnswersAreTrue' /\ Effect({}, {}, {})
<1>1. told' = told
  BY DEF WorkerStep, WorkerStarts, WorkerServes, Pong, WorkerFails, WorkerExits,
         WorkerSticks, WorkerRecovers
<1>2. WorkerTypes' /\ AnswersAreTrue' /\ (\A q \in Procs : Served(q) => Served(q)')
      /\ (\A q \in Procs : Alive(q)' => Alive(q))
  <2>0. \A q \in Procs \ {p} : life'[q] = life[q] /\ failed'[q] = failed[q]
    BY DEF WorkerTypes, WorkerStep, WorkerStarts, WorkerServes, Pong, WorkerFails,
           WorkerExits, WorkerSticks, WorkerRecovers
  <2>1. CASE WorkerStarts(p)
    <3>1. life[p] = "spawned" /\ life' = [life EXCEPT ![p] = "starting"]
          /\ UNCHANGED <<failed, stuck, told, pings, pongs>>
      BY <2>1 DEF WorkerStarts, pipeVars
    <3>2. deaf' \in [Procs -> BOOLEAN]
      BY <2>1 DEF WorkerStarts, WorkerTypes
    <3>3. WorkerTypes'
      BY <3>1, <3>2 DEF WorkerTypes, Lives
    <3>4. ~Served(p) /\ ~failed[p] /\ Alive(p)
      BY <3>1 DEF Served, AnswersAreTrue, Alive
    <3>5. QED
      BY <2>0, <3>1, <3>3, <3>4 DEF AnswersAreTrue, Served, Alive
  <2>2. CASE WorkerServes(p)
    <3>1. life[p] = "starting" /\ life' = [life EXCEPT ![p] = "serving"]
          /\ UNCHANGED <<failed, stuck, told, deaf, pings, pongs>>
      BY <2>2 DEF WorkerServes, pipeVars
    <3>2. WorkerTypes'
      BY <3>1 DEF WorkerTypes, Lives
    <3>3. life'[p] = "serving" /\ ~failed[p] /\ Alive(p)
      BY <3>1 DEF AnswersAreTrue, Alive, WorkerTypes
    <3>4. QED
      BY <2>0, <3>1, <3>2, <3>3 DEF AnswersAreTrue, Served, Alive
  <2>3. CASE Pong(p)
    <3>1. /\ UNCHANGED <<life, failed, stuck, told, deaf>>
          /\ pings[p] > 0 /\ pings' = [pings EXCEPT ![p] = @ - 1]
          /\ life[p] \in {"starting", "serving"}
      BY <2>3 DEF Pong
    <3> DEFINE answer == life[p] = "serving" /\ ~deaf[p]
    <3>2. pongs' = [pongs EXCEPT ![p] = Append(@, answer)] /\ answer \in BOOLEAN
      BY <2>3 DEF Pong
    <3>3. pings' \in [Procs -> 0 .. MaxPending]
      <4>1. pings[p] \in 0 .. MaxPending /\ MaxPending \in Nat
        BY MultiprocessAssumption DEF WorkerTypes
      <4>2. pings[p] - 1 \in 0 .. MaxPending
        BY <3>1, <4>1
      <4>3. QED
        BY <3>1, <4>2 DEF WorkerTypes
    <3> HIDE DEF answer
    <3>4. pongs' \in [Procs -> Seq(BOOLEAN)]
      BY <3>2 DEF WorkerTypes
    <3>5. \A q \in Procs \ {p} : pongs'[q] = pongs[q]
      BY <3>2 DEF WorkerTypes
    <3>6. \A b \in ToSet(pongs'[p]) : b \in ToSet(pongs[p]) \/ b = answer
      <4>1. pongs[p] \in Seq(BOOLEAN) /\ pongs'[p] = Append(pongs[p], answer)
        BY <3>2 DEF WorkerTypes
      <4>2. /\ DOMAIN Append(pongs[p], answer) = 1 .. Len(pongs[p]) + 1
            /\ \A i \in 1 .. Len(pongs[p]) :
                  Append(pongs[p], answer)[i] = pongs[p][i] /\ i \in DOMAIN pongs[p]
            /\ Append(pongs[p], answer)[Len(pongs[p]) + 1] = answer
            /\ Len(pongs[p]) \in Nat
        BY <3>2, <4>1
      <4>3. ASSUME NEW i \in 1 .. Len(pongs[p]) + 1
            PROVE  Append(pongs[p], answer)[i] \in ToSet(pongs[p])
                   \/ Append(pongs[p], answer)[i] = answer
        <5>1. i \in 1 .. Len(pongs[p]) \/ i = Len(pongs[p]) + 1
          BY <4>2, <4>3
        <5>2. QED
          BY <4>2, <5>1 DEF ToSet
      <4>4. QED
        BY <4>1, <4>2, <4>3 DEF ToSet
    <3>7. answer => Served(p)
      BY DEF answer, Served, AnswersAreTrue
    <3>8. \A q \in Procs : TRUE \in ToSet(pongs'[q]) => Served(q)
      <4>1. TRUE \in ToSet(pongs'[p]) => Served(p)
        BY Zenon, <3>6, <3>7 DEF AnswersAreTrue
      <4>2. QED
        BY <3>5, <4>1 DEF AnswersAreTrue
    <3>9. WorkerTypes'
      BY <3>1, <3>3, <3>4 DEF WorkerTypes
    <3>10. QED
      BY <3>1, <3>8, <3>9 DEF AnswersAreTrue, Served, Alive
  <2>4. CASE WorkerFails(p)
    <3>1. life[p] = "starting" /\ life' = [life EXCEPT ![p] = "aborted"]
          /\ failed' = [failed EXCEPT ![p] = TRUE]
          /\ pings' = [pings EXCEPT ![p] = 0]
          /\ UNCHANGED <<stuck, told, deaf, pongs>>
      BY <2>4 DEF WorkerFails, Ended, Served
    <3>2. WorkerTypes'
      BY <3>1, EmptyPipe DEF WorkerTypes, Lives
    <3>3. ~Served(p) /\ life'[p] = "aborted" /\ Alive(p)
      BY <3>1 DEF Served, Alive, WorkerTypes
    <3>4. QED
      BY <2>0, <3>1, <3>2, <3>3 DEF AnswersAreTrue, Served, Alive
  <2>5. CASE WorkerExits(p)
    <3>1. Alive(p) /\ life' = [life EXCEPT ![p] = Ended(p)]
          /\ pings' = [pings EXCEPT ![p] = 0]
          /\ UNCHANGED <<failed, stuck, told, deaf, pongs>>
      BY <2>5 DEF WorkerExits
    <3>2. WorkerTypes'
      BY <3>1, EmptyPipe DEF WorkerTypes, Lives, Ended
    <3>3. (Served(p) => Served(p)') /\ ~Alive(p)' /\ ~failed[p]
      BY <3>1 DEF AnswersAreTrue, Alive, Served, Ended, WorkerTypes
    <3>4. QED
      BY <2>0, <3>1, <3>2, <3>3 DEF AnswersAreTrue, Served, Alive
  <2>6. CASE WorkerSticks(p) \/ WorkerRecovers(p)
    <3>1. UNCHANGED <<life, failed, told, deaf, pings, pongs>>
      BY <2>6 DEF WorkerSticks, WorkerRecovers, pipeVars
    <3>2. stuck' \in [Procs -> BOOLEAN]
      BY <2>6 DEF WorkerTypes, WorkerSticks, WorkerRecovers
    <3>3. WorkerTypes'
      BY <3>1, <3>2 DEF WorkerTypes
    <3>4. QED
      BY <3>1, <3>3 DEF AnswersAreTrue, Served, Alive
  <2>7. QED
    BY <2>1, <2>2, <2>3, <2>4, <2>5, <2>6 DEF WorkerStep
<1>3. QED
  BY <1>1, <1>2 DEF Effect
-----------------------------------------------------------------------------
(* The pool                                                                 *)

PoolTypes ==
    /\ pc \in Pcs /\ idx \in 1 .. MaxWorkers + 1
    /\ processes \in Seq(Procs) /\ processesNum \in 1 .. MaxWorkers
    /\ pc # "new" => Len(processes) = processesNum
    /\ held \in Procs \cup {Nobody}

Owned ==
    /\ \A p \in Procs : Alive(p) => p \in Pool \/ p = held
    /\ IsInjective(processes) /\ held \notin Pool
    /\ pc = "stopped" => \A p \in Procs : ~Alive(p)

HeldInv ==
    /\ pc \in {"retiringOld", "replacing"} => Served(held)
    /\ held # Nobody /\ told[held] => pc = "retiring"

PoolInv == PoolTypes /\ Owned /\ LoopInv /\ RetiredIsReplaced /\ HeldInv

Parts == /\ SignalTypes /\ SignalsInv
         /\ WorkerTypes /\ AnswersAreTrue
         /\ PoolInv

\* The invariant is the conjunction of the three parts, in this state
LEMMA InParts == SupervisorInv <=> Parts
  BY DEF SupervisorInv, Parts, PoolOwnsWorkers, MultiprocessTypeOK, SignalTypes,
         WorkerTypes, AnswersAreTrue, AnswersInv, PoolInv, PoolTypes, Owned, HeldInv

\* and in the next.
LEMMA InPartsNext == SupervisorInv' <=> Parts'
  BY DEF SupervisorInv, Parts, PoolOwnsWorkers, MultiprocessTypeOK, SignalTypes,
         WorkerTypes, AnswersAreTrue, AnswersInv, PoolInv, PoolTypes, Owned, HeldInv

\* A step that leaves the pool and the process in hand alone, and tells no
\* worker to terminate but for a replacement that is at hand or at the end.
LEMMA PoolLeft ==
    ASSUME PoolInv, WorkerTypes, WorkerTypes', NEW toldOf, Effect({}, {}, toldOf),
           UNCHANGED <<held, poolVars>>,
           pc' \in Pcs, idx' \in 1 .. MaxWorkers + 1,
           pc' = "new" <=> pc = "new",
           pc' \in Holding <=> pc \in Holding,
           pc' \in AtAWorker => idx' \in DOMAIN processes,
           pc' \in {"retiringOld", "replacing"} => Served(held),
           pc' = "stopped" => \A p \in Procs : ~Alive(p),
           pc = "retiring" => pc' = "retiring",
           toldOf \subseteq Pool,
           \/ pc' \in Stopping
           \/ /\ pc \notin Stopping /\ toldOf = {}
              /\ pc = "replacing" => pc' = "replacing" /\ idx' = idx
           \/ /\ pc = "retiringOld" /\ pc' = "replacing" /\ idx' = idx
              /\ toldOf = {processes[idx]}
    PROVE  PoolInv'
<1>1. UNCHANGED <<held, processes, processesNum>> /\ Pool' = Pool
  BY DEF poolVars, Pool
<1>2. /\ \A p \in Procs : Alive(p)' => Alive(p)
      /\ \A p \in Procs : Served(p) => Served(p)'
      /\ \A p \in Procs : told'[p] => told[p] \/ p \in toldOf
  BY DEF Effect
<1>3. /\ processes \in Seq(Procs) /\ held \in Procs \cup {Nobody}
      /\ \A i \in DOMAIN processes : processes[i] \in Procs
      /\ Nobody \notin Procs
  <2>1. processes \in Seq(Procs) /\ held \in Procs \cup {Nobody}
    BY DEF PoolInv, PoolTypes
  <2>2. Nobody \notin Procs
    BY MultiprocessAssumption DEF Nobody, Procs
  <2>3. QED
    BY <2>1, <2>2
<1>4. PoolTypes'
  BY <1>1 DEF PoolInv, PoolTypes
<1>5. Owned'
  BY <1>1, <1>2 DEF PoolInv, Owned, IsInjective
<1>6. LoopInv'
  BY <1>1 DEF PoolInv, LoopInv
<1>7. held # Nobody <=> pc \in Holding
  BY DEF PoolInv, LoopInv
<1>8. RetiredIsReplaced'
  <2>1. SUFFICES ASSUME pc' \notin Stopping, NEW i \in DOMAIN processes, told'[processes[i]]
                 PROVE  pc' = "replacing" /\ i = idx' /\ Served(held)'
    BY <1>1 DEF RetiredIsReplaced, Served
  <2>2. told[processes[i]] \/ processes[i] \in toldOf
    BY <1>2, <1>3, <2>1
  <2>3. CASE told[processes[i]]
    <3>1. pc \notin Stopping
      BY <2>1 DEF Stopping
    <3>2. pc = "replacing" /\ i = idx /\ Served(held)
      BY <2>3, <3>1 DEF PoolInv, RetiredIsReplaced
    <3>3. held \in Procs
      BY <1>3, <1>7, <3>2 DEF Holding
    <3>4. QED
      BY <1>2, <2>1, <3>2, <3>3
  <2>4. CASE processes[i] \in toldOf
    <3>1. pc = "retiringOld" /\ pc' = "replacing" /\ idx' = idx
          /\ processes[i] = processes[idx]
      BY <2>1, <2>4
    <3>2. idx \in DOMAIN processes /\ held # Nobody /\ Served(held)
      BY <3>1 DEF PoolInv, LoopInv, HeldInv, Holding, AtAWorker
    <3>3. i = idx
      BY <3>1, <3>2 DEF PoolInv, Owned, IsInjective
    <3>4. QED
      BY <1>2, <1>3, <3>1, <3>2, <3>3
  <2>5. QED
    BY <2>2, <2>3, <2>4
<1>9. HeldInv'
  <2>1. pc' \in {"retiringOld", "replacing"} => Served(held)'
    <3>1. pc' \in {"retiringOld", "replacing"} => held \in Procs
      BY <1>3, <1>7 DEF Holding
    <3>2. QED
      BY <1>2, <3>1
  <2>2. held # Nobody /\ told'[held] => pc' = "retiring"
    BY <1>2, <1>3 DEF PoolInv, Owned, HeldInv
  <2>3. QED
    BY <1>1, <2>1, <2>2 DEF HeldInv, Served
<1>10. QED
  BY <1>4, <1>5, <1>6, <1>8, <1>9 DEF PoolInv
\* What the steps need of the numbers: the pool is no larger than it may be, its
\* members are processes, and Nobody is none.
LEMMA Numbers ==
    ASSUME Parts
    PROVE  /\ 1 \in 1 .. MaxWorkers + 1 /\ MaxWorkers \in Nat
           /\ \A i \in DOMAIN processes :
                 i + 1 \in 1 .. MaxWorkers + 1 /\ processes[i] \in Procs
                 /\ processes[i] \in Pool
           /\ DOMAIN processes = 1 .. Len(processes)
           /\ Len(processes) \in Nat /\ Len(processes) <= MaxWorkers
           /\ Pool \subseteq Procs /\ Nobody \notin Procs
           /\ held # Nobody => held \in Procs
           /\ idx \in Nat \ {0}
<1>1. /\ processes \in Seq(Procs) /\ MaxWorkers \in Nat
      /\ idx \in 1 .. MaxWorkers + 1 /\ processesNum \in 1 .. MaxWorkers
      /\ pc # "new" => Len(processes) = processesNum
      /\ pc = "new" => processes = <<>>
      /\ held \in Procs \cup {Nobody}
  BY MultiprocessAssumption DEF Parts, PoolInv, PoolTypes, LoopInv
<1>2. Len(processes) <= MaxWorkers /\ Len(processes) \in Nat
  BY <1>1
<1>3. DOMAIN processes = 1 .. Len(processes)
      /\ \A i \in DOMAIN processes : processes[i] \in Procs /\ processes[i] \in Pool
  BY <1>1 DEF Pool, ToSet
<1>4. ASSUME NEW i \in DOMAIN processes
      PROVE  i + 1 \in 1 .. MaxWorkers + 1
  <2>1. i \in Nat /\ i >= 1 /\ i <= Len(processes)
    BY <1>2, <1>3
  <2>2. QED
    BY <1>1, <1>2, <2>1
<1>5. Nobody \notin Procs
  BY <1>1 DEF Nobody, Procs
<1>6. Pool \subseteq Procs
  BY <1>1 DEF Pool, ToSet
<1>7. 1 \in 1 .. MaxWorkers + 1 /\ idx \in Nat \ {0}
  BY <1>1
<1>8. QED
  BY <1>1, <1>2, <1>3, <1>4, <1>5, <1>6, <1>7

\* A step that leaves pool and signals alone, by its effect on the workers.
LEMMA OnlyTheLoopMoves ==
    ASSUME Parts, NEW toldOf, WorkerTypes', AnswersAreTrue', Effect({}, {}, toldOf),
           UNCHANGED <<held, poolVars, signalQueue, received>>,
           shouldExit' \in BOOLEAN, batch' = batch \/ batch' = signalQueue,
           pc' \in Pcs, idx' \in 1 .. MaxWorkers + 1,
           pc' = "new" <=> pc = "new",
           pc' \in Holding <=> pc \in Holding,
           pc' \in AtAWorker => idx' \in DOMAIN processes,
           pc' \in {"retiringOld", "replacing"} => Served(held),
           pc' = "stopped" => \A p \in Procs : ~Alive(p),
           pc = "retiring" => pc' = "retiring",
           toldOf \subseteq Pool,
           \/ pc' \in Stopping
           \/ /\ pc \notin Stopping /\ toldOf = {}
              /\ pc = "replacing" => pc' = "replacing" /\ idx' = idx
           \/ /\ pc = "retiringOld" /\ pc' = "replacing" /\ idx' = idx
              /\ toldOf = {processes[idx]}
    PROVE  Parts'
<1>1. SignalTypes /\ SignalsInv /\ WorkerTypes /\ PoolInv
  BY DEF Parts
<1>2. UNCHANGED <<signalQueue, received, processesNum>>
  BY DEF poolVars
<1>3. SignalTypes' /\ SignalsInv'
  BY <1>1, <1>2, SignalsLeft
<1>4. PoolInv'
  BY <1>1, PoolLeft
<1>5. QED
  BY <1>3, <1>4 DEF Parts

\* wait() returns, and the snapshot of the queue is taken.
LEMMA StepLoopTurns == ASSUME Parts, LoopTurns PROVE Parts'
<1>1. UNCHANGED <<held, poolVars, signalQueue, received, shouldExit, workerVars, idx>>
  BY DEF LoopTurns, signalVars
<1>2. WorkerTypes' /\ AnswersAreTrue' /\ Effect({}, {}, {})
  BY <1>1, Leaving DEF Parts
<1>3. shouldExit' \in BOOLEAN /\ idx' \in 1 .. MaxWorkers + 1
  BY <1>1 DEF Parts, SignalTypes, PoolInv, PoolTypes
<1>4. pc = "waiting" /\ pc' \in {"terminating", "signals"}
      /\ (batch' = batch \/ batch' = signalQueue)
  BY DEF LoopTurns
<1>5. QED
  BY <1>1, <1>2, <1>3, <1>4, OnlyTheLoopMoves DEF Pcs, Holding, AtAWorker, Restarting, Stopping
\* The snapshot is handled: a health check, or the end of the turn.
LEMMA StepSignalsHandled == ASSUME Parts, SignalsHandled PROVE Parts'
<1>1. /\ UNCHANGED <<held, poolVars, signalQueue, received, shouldExit, workerVars, batch>>
      /\ pc = "signals" /\ pc' \in {"waiting", "health"} /\ (idx' = idx \/ idx' = 1)
  BY DEF SignalsHandled, signalVars
<1>2. WorkerTypes' /\ AnswersAreTrue' /\ Effect({}, {}, {})
  BY <1>1, Leaving DEF Parts
<1>3. shouldExit' \in BOOLEAN /\ idx' \in 1 .. MaxWorkers + 1
  BY <1>1, Numbers DEF Parts, SignalTypes, PoolInv, PoolTypes
<1>4. QED
  BY <1>1, <1>2, <1>3, OnlyTheLoopMoves DEF Pcs, Holding, AtAWorker, Restarting, Stopping

\* A ping to the new worker of a restart.
LEMMA StepReadyPing == ASSUME Parts, ReadyPing PROVE Parts'
<1>1. /\ UNCHANGED <<held, poolVars, signalQueue, received, shouldExit, batch, idx>>
      /\ pc = "readying" /\ pc' = "polling" /\ Ping(held)
  BY DEF ReadyPing, signalVars
<1>2. held \in Procs /\ idx \in DOMAIN processes
  BY <1>1, Numbers DEF Parts, PoolInv, LoopInv, Holding, AtAWorker, Restarting
<1>3. WorkerTypes' /\ AnswersAreTrue' /\ Effect({}, {}, {})
  BY <1>1, <1>2, Asking DEF Parts
<1>4. shouldExit' \in BOOLEAN /\ idx' \in 1 .. MaxWorkers + 1
  BY <1>1 DEF Parts, SignalTypes, PoolInv, PoolTypes
<1>5. QED
  BY <1>1, <1>2, <1>3, <1>4, OnlyTheLoopMoves
     DEF Pcs, Holding, AtAWorker, Restarting, Stopping

\* It is not ready yet.
LEMMA StepNotReadyYet == ASSUME Parts, NotReadyYet PROVE Parts'
<1>1. /\ UNCHANGED <<held, poolVars, signalQueue, received, shouldExit, batch, idx>>
      /\ pc = "polling" /\ pc' = "readying" /\ (Answered(held) \/ UNCHANGED workerVars)
  BY DEF NotReadyYet, signalVars
<1>2. held \in Procs /\ idx \in DOMAIN processes
  BY <1>1, Numbers DEF Parts, PoolInv, LoopInv, Holding, AtAWorker, Restarting
<1>3. WorkerTypes' /\ AnswersAreTrue' /\ Effect({}, {}, {})
  BY <1>1, <1>2, Asking DEF Parts
<1>4. shouldExit' \in BOOLEAN /\ idx' \in 1 .. MaxWorkers + 1
  BY <1>1 DEF Parts, SignalTypes, PoolInv, PoolTypes
<1>5. QED
  BY <1>1, <1>2, <1>3, <1>4, OnlyTheLoopMoves
     DEF Pcs, Holding, AtAWorker, Restarting, Stopping

\* It is ready: its answer says that its startup is over, so it has served.
LEMMA StepReady == ASSUME Parts, Ready PROVE Parts'
<1>1. /\ UNCHANGED <<held, poolVars, signalQueue, received, shouldExit, batch, idx>>
      /\ pc = "polling" /\ pc' = "retiringOld" /\ Answered(held)
      /\ pongs[held] # <<>> /\ Head(pongs[held])
  BY DEF Ready, IsReady, signalVars
<1>2. held \in Procs /\ idx \in DOMAIN processes
  BY <1>1, Numbers DEF Parts, PoolInv, LoopInv, Holding, AtAWorker, Restarting
<1>3. WorkerTypes' /\ AnswersAreTrue' /\ Effect({}, {}, {})
  BY <1>1, <1>2, Asking DEF Parts
<1>4. shouldExit' \in BOOLEAN /\ idx' \in 1 .. MaxWorkers + 1
  BY <1>1 DEF Parts, SignalTypes, PoolInv, PoolTypes
<1>5. Served(held)
  <2>1. pongs[held] \in Seq(BOOLEAN)
    BY <1>2 DEF Parts, WorkerTypes
  <2>2. 1 \in DOMAIN pongs[held] /\ Head(pongs[held]) = pongs[held][1]
        /\ pongs[held][1] \in BOOLEAN
    <3>1. pongs[held] # <<>>
      BY DEF Ready
    <3>2. QED
      BY <2>1, <3>1
  <2>3. Head(pongs[held]) = TRUE
    BY Zenon, <1>1, <2>2
  <2>4. TRUE \in ToSet(pongs[held])
    BY <2>2, <2>3 DEF ToSet
  <2>5. QED
    BY <1>2, <2>4 DEF Parts, AnswersAreTrue
<1>6. /\ UNCHANGED <<held, poolVars, signalQueue, received, shouldExit, batch, idx>>
      /\ pc = "polling" /\ pc' = "retiringOld"
  BY <1>1
<1>7. QED
  BY <1>6, <1>2, <1>3, <1>4, <1>5, OnlyTheLoopMoves
     DEF Pcs, Holding, AtAWorker, Restarting, Stopping

\* The old worker is told to terminate.
LEMMA StepRetireOld == ASSUME Parts, RetireOld PROVE Parts'
<1>1. /\ UNCHANGED <<held, poolVars, signalQueue, received, shouldExit, batch, idx>>
      /\ pc = "retiringOld" /\ pc' = "replacing" /\ Terminate({processes[idx]})
  BY DEF RetireOld, signalVars
<1>2. idx \in DOMAIN processes /\ {processes[idx]} \subseteq Pool
  BY <1>1, Numbers DEF Parts, PoolInv, LoopInv, AtAWorker
<1>3. WorkerTypes' /\ AnswersAreTrue' /\ Effect({}, {}, {processes[idx]})
  BY <1>1, Terminating DEF Parts
<1>4. shouldExit' \in BOOLEAN /\ idx' \in 1 .. MaxWorkers + 1
  BY <1>1 DEF Parts, SignalTypes, PoolInv, PoolTypes
<1>5. Served(held)
  BY <1>1 DEF Parts, PoolInv, HeldInv
<1>6. QED
  BY <1>1, <1>2, <1>3, <1>4, <1>5, OnlyTheLoopMoves
     DEF Pcs, Holding, AtAWorker, Restarting, Stopping

\* The restart is given up.
LEMMA StepDeadline == ASSUME Parts, Deadline PROVE Parts'
<1>1. /\ UNCHANGED <<held, poolVars, signalQueue, received, shouldExit, batch, idx>>
      /\ pc = "readying" /\ pc' = "discarding" /\ Kill(held)
  BY DEF Deadline, signalVars
<1>2. held \in Procs
  BY <1>1, Numbers DEF Parts, PoolInv, LoopInv, Holding, Restarting
<1>3. WorkerTypes' /\ AnswersAreTrue' /\ Effect({}, {}, {})
  BY <1>1, <1>2, Killing DEF Parts
<1>4. shouldExit' \in BOOLEAN /\ idx' \in 1 .. MaxWorkers + 1
  BY <1>1 DEF Parts, SignalTypes, PoolInv, PoolTypes
<1>5. QED
  BY <1>1, <1>3, <1>4, OnlyTheLoopMoves DEF Pcs, Holding, AtAWorker, Restarting, Stopping

\* The health check has seen every worker.
LEMMA StepHealthOver == ASSUME Parts, HealthOver PROVE Parts'
<1>1. /\ UNCHANGED <<held, poolVars, signalQueue, received, shouldExit, batch, workerVars>>
      /\ pc = "health" /\ pc' = "waiting" /\ idx' = 1
  BY DEF HealthOver, signalVars
<1>2. WorkerTypes' /\ AnswersAreTrue' /\ Effect({}, {}, {})
  BY <1>1, Leaving DEF Parts
<1>3. shouldExit' \in BOOLEAN /\ idx' \in 1 .. MaxWorkers + 1
  BY <1>1, Numbers DEF Parts, SignalTypes
<1>4. QED
  BY <1>1, <1>2, <1>3, OnlyTheLoopMoves DEF Pcs, Holding, AtAWorker, Restarting, Stopping

\* A worker of the pool is asked.
LEMMA StepHealthPing == ASSUME Parts, HealthPing PROVE Parts'
<1>1. /\ UNCHANGED <<held, poolVars, signalQueue, received, shouldExit, batch, idx>>
      /\ pc = "health" /\ pc' = "checking" /\ idx <= Len(processes)
      /\ Ping(processes[idx])
  BY DEF HealthPing, signalVars
<1>2. idx \in DOMAIN processes /\ processes[idx] \in Procs
  BY <1>1, Numbers
<1>3. WorkerTypes' /\ AnswersAreTrue' /\ Effect({}, {}, {})
  BY <1>1, <1>2, Asking DEF Parts
<1>4. shouldExit' \in BOOLEAN /\ idx' \in 1 .. MaxWorkers + 1
  BY <1>1 DEF Parts, SignalTypes, PoolInv, PoolTypes
<1>5. QED
  BY <1>1, <1>2, <1>3, <1>4, OnlyTheLoopMoves
     DEF Pcs, Holding, AtAWorker, Restarting, Stopping

\* It has answered.
LEMMA StepHealthy == ASSUME Parts, Healthy PROVE Parts'
<1>1. /\ UNCHANGED <<held, poolVars, signalQueue, received, shouldExit, batch>>
      /\ pc = "checking" /\ pc' = "health" /\ idx' = idx + 1
      /\ Answered(processes[idx])
  BY DEF Healthy, signalVars
<1>2. idx \in DOMAIN processes /\ processes[idx] \in Procs /\ idx' \in 1 .. MaxWorkers + 1
  BY <1>1, Numbers DEF Parts, PoolInv, LoopInv, AtAWorker
<1>3. WorkerTypes' /\ AnswersAreTrue' /\ Effect({}, {}, {})
  BY <1>1, <1>2, Asking DEF Parts
<1>4. shouldExit' \in BOOLEAN
  BY <1>1 DEF Parts, SignalTypes
<1>5. QED
  BY <1>1, <1>2, <1>3, <1>4, OnlyTheLoopMoves
     DEF Pcs, Holding, AtAWorker, Restarting, Stopping

\* It is gone, or has not.
LEMMA StepUnhealthy == ASSUME Parts, Unhealthy PROVE Parts'
<1>1. /\ UNCHANGED <<held, poolVars, signalQueue, received, shouldExit, batch, idx>>
      /\ pc = "checking" \/ (pc = "health" /\ idx <= Len(processes))
      /\ pc' = "reaping" /\ Kill(processes[idx])
  BY DEF Unhealthy, KillHung, signalVars
<1>2. idx \in DOMAIN processes /\ processes[idx] \in Procs
  BY <1>1, Numbers DEF Parts, PoolInv, LoopInv, AtAWorker
<1>3. WorkerTypes' /\ AnswersAreTrue' /\ Effect({}, {}, {})
  BY <1>1, <1>2, Killing DEF Parts
<1>4. shouldExit' \in BOOLEAN /\ idx' \in 1 .. MaxWorkers + 1
  BY <1>1 DEF Parts, SignalTypes, PoolInv, PoolTypes
<1>5. QED
  BY <1>1, <1>2, <1>3, <1>4, OnlyTheLoopMoves
     DEF Pcs, Holding, AtAWorker, Restarting, Stopping

\* The end: every worker is told to terminate, and joined.
LEMMA StepTerminateAll == ASSUME Parts, TerminateAll PROVE Parts'
<1>1. /\ UNCHANGED <<held, poolVars, signalQueue, received, shouldExit, batch, idx>>
      /\ pc = "terminating" /\ pc' = "joining" /\ Terminate(Pool)
  BY DEF TerminateAll, signalVars
<1>2. WorkerTypes' /\ AnswersAreTrue' /\ Effect({}, {}, Pool)
  BY <1>1, Terminating DEF Parts
<1>3. shouldExit' \in BOOLEAN /\ idx' \in 1 .. MaxWorkers + 1
  BY <1>1 DEF Parts, SignalTypes, PoolInv, PoolTypes
<1>4. QED
  BY <1>1, <1>2, <1>3, OnlyTheLoopMoves DEF Pcs, Holding, AtAWorker, Restarting, Stopping

\* Every worker has ended: no process is left running.
LEMMA StepJoinAll == ASSUME Parts, JoinAll PROVE Parts'
<1>1. /\ UNCHANGED <<held, poolVars, signalQueue, received, shouldExit, batch, idx, workerVars>>
      /\ pc = "joining" /\ pc' = "stopped" /\ \A p \in Pool : ~Alive(p)
  BY DEF JoinAll, Joined, signalVars
<1>2. WorkerTypes' /\ AnswersAreTrue' /\ Effect({}, {}, {})
  BY <1>1, Leaving DEF Parts
<1>3. shouldExit' \in BOOLEAN /\ idx' \in 1 .. MaxWorkers + 1
  BY <1>1 DEF Parts, SignalTypes, PoolInv, PoolTypes
<1>4. \A p \in Procs : ~Alive(p)
  BY <1>1, Numbers DEF Parts, PoolInv, Owned, LoopInv, Holding, Restarting
<1>5. QED
  BY <1>1, <1>2, <1>3, <1>4, OnlyTheLoopMoves
     DEF Pcs, Holding, AtAWorker, Restarting, Stopping
\* SIGTERM and SIGHUP change what the loop does next, and nothing of the pool.
LEMMA StepHandleTermHup == ASSUME Parts, HandleTerm \/ HandleHup PROVE Parts'
<1>1. PICK sig \in Signals :
         /\ TakeSignal(sig) /\ shouldExit' \in BOOLEAN
         /\ pc = "signals" /\ pc' \in {"signals", "restart"} /\ (idx' = idx \/ idx' = 1)
         /\ UNCHANGED <<held, poolVars, workerVars>>
  BY DEF HandleTerm, HandleHup, Signals, TakeSignal, Parts, SignalTypes
<1>2. processesNum' = processesNum /\ processesNum \in 1 .. MaxWorkers
      /\ processesNum' \in Nat \ {0} /\ processesNum' <= processesNum
  BY <1>1, Numbers DEF poolVars, Parts, SignalTypes
<1>3. SignalTypes' /\ SignalsInv'
  BY <1>1, <1>2, SignalTaken DEF Parts
<1>4. WorkerTypes' /\ AnswersAreTrue' /\ Effect({}, {}, {})
  BY <1>1, Leaving DEF Parts
<1>5. idx' \in 1 .. MaxWorkers + 1
  BY <1>1, Numbers DEF Parts, PoolInv, PoolTypes
<1>6. PoolInv'
  BY <1>1, <1>4, <1>5, PoolLeft
     DEF Parts, Pcs, Holding, AtAWorker, Restarting, Stopping
<1>7. QED
  BY <1>3, <1>4, <1>6 DEF Parts

\* What workers do, and signals that arrive, change nothing of the loop.
LEMMA StepWorker == ASSUME Parts, NEW p \in Procs, WorkerStep(p) PROVE Parts'
<1>1. UNCHANGED <<pc, batch, idx, held, poolVars, shouldExit, signalQueue, received>>
  BY DEF WorkerStep, loopVars, signalVars
<1>2. WorkerTypes' /\ AnswersAreTrue' /\ Effect({}, {}, {})
  BY Working DEF Parts
<1>3. SignalTypes' /\ SignalsInv'
  BY <1>1, SignalsLeft DEF Parts, SignalTypes, poolVars
<1>4. PoolInv'
  <2>1. CASE pc \in Stopping
    <3>1. pc' = "stopped" => \A q \in Procs : ~Alive(q)
      BY <1>1 DEF Parts, PoolInv, Owned
    <3>2. QED
      BY <1>1, <1>2, <2>1, <3>1, PoolLeft
         DEF Parts, PoolInv, PoolTypes, LoopInv, HeldInv, Stopping
  <2>2. CASE pc \notin Stopping
    BY <1>1, <1>2, <2>2, PoolLeft
       DEF Parts, PoolInv, PoolTypes, LoopInv, HeldInv, Stopping
  <2>3. QED
    BY <2>1, <2>2
<1>5. QED
  BY <1>2, <1>3, <1>4 DEF Parts

\* A signal that arrives only makes the queue longer.
LEMMA StepSignalArrives == ASSUME Parts, NEW sig \in Signals, SignalArrives(sig) PROVE Parts'
<1>1. UNCHANGED <<pc, batch, idx, held, poolVars, workerVars>>
  BY DEF SignalArrives, loopVars
<1>2. SignalTypes' /\ SignalsInv'
  BY SignalComes DEF Parts
<1>3. WorkerTypes' /\ AnswersAreTrue' /\ Effect({}, {}, {})
  BY <1>1, Leaving DEF Parts
<1>4. pc \notin Stopping
  BY DEF SignalArrives
<1>5. PoolInv'
  BY <1>1, <1>3, <1>4, PoolLeft
     DEF Parts, PoolInv, PoolTypes, LoopInv, HeldInv, Stopping
<1>6. QED
  BY <1>2, <1>3, <1>5 DEF Parts

-----------------------------------------------------------------------------
(* Steps that change who is in the pool or in hand                          *)

\* Nothing is in hand and no worker of the pool was told to terminate, whenever
\* the loop is not in a restart or at the end.
LEMMA NothingInHand ==
    ASSUME Parts, pc \notin Stopping, pc \notin Holding
    PROVE  /\ held = Nobody
           /\ \A p \in Pool : ~told[p]
           /\ \A p \in Procs : Alive(p) => p \in Pool
<1>1. held = Nobody
  BY DEF Parts, PoolInv, LoopInv
<1>2. \A p \in Pool : ~told[p]
  BY DEF Parts, PoolInv, RetiredIsReplaced, Holding, Pool, ToSet
<1>3. QED
  BY <1>1, <1>2, Numbers DEF Parts, PoolInv, Owned

\* New is a process that is not in the pool, not in hand and does not run.
LEMMA NewIsFree ==
    ASSUME Parts, held = Nobody, Len(processes) <= MaxWorkers
    PROVE  New \in Procs /\ New \notin Pool /\ ~Alive(New)
<1>1. PICK p \in Procs : p \notin Pool
  BY PoolRoom DEF Parts, PoolInv, PoolTypes
<1>2. ~Alive(p) /\ p # held
  BY <1>1, Numbers DEF Parts, PoolInv, Owned
<1>3. p \in Free
  BY <1>1, <1>2 DEF Free
<1>4. New \in Free
  BY <1>3 DEF New
<1>5. QED
  BY <1>4 DEF Free

\* A worker is put where another one was.
LEMMA Replacing ==
    ASSUME Parts, NEW i \in DOMAIN processes, NEW q \in Procs, q \notin Pool,
           processes' = [processes EXCEPT ![i] = q]
    PROVE  /\ processes' \in Seq(Procs) /\ Len(processes') = Len(processes)
           /\ DOMAIN processes' = DOMAIN processes
           /\ IsInjective(processes')
           /\ Pool' = (Pool \ {processes[i]}) \cup {q}
<1>1. processes \in Seq(Procs) /\ IsInjective(processes)
  BY DEF Parts, PoolInv, PoolTypes, Owned
<1>2. processes' \in Seq(Procs) /\ Len(processes') = Len(processes)
      /\ DOMAIN processes' = DOMAIN processes
  BY <1>1
<1>3. \A j \in DOMAIN processes : processes'[j] = IF j = i THEN q ELSE processes[j]
  BY <1>1
<1>4. \A j \in DOMAIN processes : processes[j] \in Pool
  BY DEF Pool, ToSet
<1>5. IsInjective(processes')
  BY <1>1, <1>2, <1>3, <1>4 DEF IsInjective
<1>6. Pool' = (Pool \ {processes[i]}) \cup {q}
  <2>1. ASSUME NEW p \in Pool' PROVE p \in (Pool \ {processes[i]}) \cup {q}
    BY <1>1, <1>2, <1>3, <2>1 DEF Pool, ToSet, IsInjective
  <2>2. ASSUME NEW p \in (Pool \ {processes[i]}) \cup {q} PROVE p \in Pool'
    <3>1. CASE p = q
      BY <1>2, <1>3, <3>1 DEF Pool, ToSet
    <3>2. CASE p \in Pool \ {processes[i]}
      <4>1. PICK j \in DOMAIN processes : p = processes[j]
        BY <3>2 DEF Pool, ToSet
      <4>2. j # i
        BY <3>2, <4>1
      <4>3. QED
        BY <1>2, <1>3, <4>1, <4>2 DEF Pool, ToSet
    <3>3. QED
      BY <2>2, <3>1, <3>2
  <2>3. QED
    BY <2>1, <2>2
<1>7. QED
  BY <1>2, <1>5, <1>6
\* run() makes the first workers.
LEMMA StepInitProcesses == ASSUME Parts, InitProcesses PROVE Parts'
<1> DEFINE first == 1 .. processesNum
<1>1. /\ pc = "new" /\ pc' = "waiting" /\ processes' = [i \in first |-> i]
      /\ Renew(first, {})
      /\ UNCHANGED <<batch, idx, held, processesNum, shouldExit, signalQueue, received>>
  BY DEF InitProcesses, signalVars
<1>2. /\ processes = <<>> /\ held = Nobody /\ processesNum \in 1 .. MaxWorkers
      /\ MaxWorkers \in Nat /\ Nobody \notin Procs
      /\ idx \in 1 .. MaxWorkers + 1 /\ shouldExit \in BOOLEAN
  BY <1>1, Numbers
     DEF Parts, PoolInv, LoopInv, PoolTypes, SignalTypes, Holding, Restarting
<1>3. first \subseteq Procs
  BY <1>2 DEF Procs
<1>4. WorkerTypes' /\ AnswersAreTrue' /\ Effect(first, {}, {})
  BY <1>1, Renewing DEF Parts
<1>5. SignalTypes' /\ SignalsInv'
  BY <1>1, <1>2, SignalsLeft DEF Parts
<1>6. /\ processes' \in Seq(Procs) /\ Len(processes') = processesNum
      /\ DOMAIN processes' = first
      /\ \A i \in first : processes'[i] = i
  BY <1>1, <1>2, <1>3
<1>7. Pool' = first /\ IsInjective(processes')
  BY <1>6 DEF Pool, ToSet, IsInjective
<1>8. \A p \in Procs : ~Alive(p)
  BY <1>2 DEF Parts, PoolInv, Owned, Pool, ToSet
<1>9. PoolTypes'
  BY <1>1, <1>2, <1>6 DEF PoolTypes, Pcs
<1>10. Owned'
  BY <1>1, <1>2, <1>3, <1>4, <1>7, <1>8 DEF Owned, Effect
<1>11. LoopInv'
  BY <1>1, <1>2 DEF LoopInv, Holding, AtAWorker, Restarting
<1>12. RetiredIsReplaced'
  BY <1>3, <1>4, <1>6 DEF RetiredIsReplaced, Effect
<1>13. HeldInv'
  BY <1>1, <1>2 DEF HeldInv
<1>14. QED
  BY <1>4, <1>5, <1>9, <1>10, <1>11, <1>12, <1>13 DEF Parts, PoolInv

\* SIGTTIN: one more worker.
LEMMA StepHandleTtin == ASSUME Parts, HandleTtin PROVE Parts'
<1>1. /\ TakeSignal("TTIN") /\ pc = "signals" /\ pc' = pc
      /\ processesNum' = processesNum + 1
      /\ processes' = Append(processes, New) /\ Renew({New}, {})
      /\ UNCHANGED <<idx, held, shouldExit>>
  BY DEF HandleTtin, TakeSignal
<1>2. shouldExit' \in BOOLEAN /\ processesNum \in 1 .. MaxWorkers /\ MaxWorkers \in Nat
      /\ idx \in 1 .. MaxWorkers + 1 /\ Len(processes) = processesNum
      /\ processes \in Seq(Procs) /\ IsInjective(processes)
  BY <1>1, MultiprocessAssumption DEF Parts, SignalTypes, PoolInv, PoolTypes, Owned
<1>3. processesNum' \in Nat \ {0} /\ "TTIN" \in Signals
  BY <1>1, <1>2 DEF Signals
<1>4. SignalTypes' /\ SignalsInv' /\ processesNum < MaxWorkers
  BY <1>1, <1>2, <1>3, SignalTaken DEF Parts
<1>5. /\ held = Nobody /\ \A p \in Pool : ~told[p]
      /\ \A p \in Procs : Alive(p) => p \in Pool
  BY <1>1, NothingInHand DEF Stopping, Holding, Restarting
<1>6. New \in Procs /\ New \notin Pool
  BY <1>2, <1>5, NewIsFree, Numbers
<1>7. WorkerTypes' /\ AnswersAreTrue' /\ Effect({New}, {}, {})
  BY <1>1, Renewing DEF Parts
<1>8. /\ processes' \in Seq(Procs) /\ Len(processes') = processesNum + 1
      /\ DOMAIN processes' = 1 .. Len(processes) + 1
      /\ DOMAIN processes = 1 .. Len(processes)
      /\ \A i \in 1 .. Len(processes) : processes'[i] = processes[i]
      /\ processes'[Len(processes) + 1] = New
  BY <1>1, <1>2, <1>6
<1>9. \A j \in DOMAIN processes : processes[j] \in Pool
  BY DEF Pool, ToSet
<1>10. \A i \in DOMAIN processes' : i \in 1 .. Len(processes) \/ i = Len(processes) + 1
  BY <1>2, <1>8
<1>11. IsInjective(processes')
  <2>1. ASSUME NEW i \in DOMAIN processes', NEW j \in DOMAIN processes',
               processes'[i] = processes'[j]
        PROVE  i = j
    BY <1>2, <1>6, <1>8, <1>9, <1>10, <2>1 DEF IsInjective
  <2>2. QED
    BY <2>1 DEF IsInjective
<1>12. Pool' = Pool \cup {New}
  <2>1. ASSUME NEW i \in DOMAIN processes' PROVE processes'[i] \in Pool \cup {New}
    BY <1>8, <1>9, <1>10
  <2>2. ASSUME NEW p \in Pool PROVE p \in Pool'
    <3>1. PICK i \in DOMAIN processes : p = processes[i]
      BY DEF Pool, ToSet
    <3>2. i \in DOMAIN processes' /\ processes'[i] = p
      BY <1>2, <1>8, <3>1
    <3>3. QED
      BY <3>2 DEF Pool, ToSet
  <2>3. New \in Pool'
    <3>1. Len(processes) + 1 \in DOMAIN processes'
      BY <1>2, <1>8
    <3>2. QED
      BY <1>8, <3>1 DEF Pool, ToSet
  <2>4. QED
    BY <2>1, <2>2, <2>3 DEF Pool, ToSet
<1>13. Pool \subseteq Procs /\ Nobody \notin Procs
  BY Numbers
<1>14. PoolTypes'
  BY <1>1, <1>2, <1>4, <1>5, <1>8 DEF PoolTypes, Pcs
<1>15. Owned'
  BY <1>1, <1>5, <1>6, <1>7, <1>11, <1>12, <1>13 DEF Owned, Effect
<1>16. LoopInv'
  BY <1>1, <1>5 DEF LoopInv, Holding, AtAWorker, Restarting
<1>17. RetiredIsReplaced'
  <2>1. \A p \in Pool' : ~told'[p]
    BY <1>5, <1>6, <1>7, <1>12, <1>13 DEF Effect
  <2>2. QED
    BY <2>1 DEF RetiredIsReplaced, Pool, ToSet
<1>18. HeldInv'
  BY <1>1, <1>5 DEF HeldInv
<1>19. QED
  BY <1>4, <1>7, <1>14, <1>15, <1>16, <1>17, <1>18 DEF Parts, PoolInv
\* SIGTTOU: the last worker is taken out of the pool, unless it is the only one.
LEMMA StepHandleTtou == ASSUME Parts, HandleTtou PROVE Parts'
<1>1. TakeSignal("TTOU") /\ pc = "signals" /\ UNCHANGED <<idx, shouldExit>>
  BY DEF HandleTtou, TakeSignal
<1>2. shouldExit' \in BOOLEAN /\ processesNum \in 1 .. MaxWorkers /\ MaxWorkers \in Nat
      /\ idx \in 1 .. MaxWorkers + 1 /\ Len(processes) = processesNum
      /\ processes \in Seq(Procs) /\ IsInjective(processes) /\ "TTOU" \in Signals
  BY <1>1, MultiprocessAssumption
     DEF Parts, SignalTypes, PoolInv, PoolTypes, Owned, Signals
<1>3. /\ held = Nobody /\ \A p \in Pool : ~told[p]
      /\ \A p \in Procs : Alive(p) => p \in Pool
  BY <1>1, NothingInHand DEF Stopping, Holding, Restarting
<1>4. CASE LastWorker
  <2>1. UNCHANGED <<pc, held, poolVars, workerVars>>
    BY <1>4 DEF HandleTtou
  <2>2. processesNum' = processesNum /\ processesNum' \in Nat \ {0}
        /\ processesNum' <= processesNum
    BY <1>2, <2>1 DEF poolVars
  <2>3. SignalTypes' /\ SignalsInv'
    BY <1>1, <1>2, <2>2, SignalTaken DEF Parts
  <2>4. WorkerTypes' /\ AnswersAreTrue' /\ Effect({}, {}, {})
    BY <2>1, Leaving DEF Parts
  <2>5. PoolInv'
    BY <1>1, <1>2, <2>1, <2>4, PoolLeft
       DEF Parts, Pcs, Holding, AtAWorker, Restarting, Stopping
  <2>6. QED
    BY <2>3, <2>4, <2>5 DEF Parts
<1>5. CASE ~LastWorker
  <2>1. /\ processesNum' = processesNum - 1 /\ pc' = "retiring"
        /\ held' = Last(processes) /\ processes' = Front(processes)
        /\ Terminate({held'})
    BY <1>5 DEF HandleTtou
  <2>2. processesNum > 1
    BY <1>2, <1>5 DEF LastWorker
  <2>3. processesNum' \in Nat \ {0} /\ processesNum' <= processesNum
        /\ processesNum' \in 1 .. MaxWorkers
    BY <1>2, <2>1, <2>2
  <2>4. SignalTypes' /\ SignalsInv'
    BY <1>1, <1>2, <2>3, SignalTaken DEF Parts
  <2>5. WorkerTypes' /\ AnswersAreTrue' /\ Effect({}, {}, {held'})
    BY <2>1, Terminating DEF Parts
  <2> DEFINE n == Len(processes)
  <2>6. /\ n \in Nat /\ n > 1 /\ held' = processes[n]
        /\ processes' \in Seq(Procs) /\ Len(processes') = n - 1
        /\ DOMAIN processes' = 1 .. n - 1 /\ DOMAIN processes = 1 .. n
        /\ \A i \in 1 .. n - 1 : processes'[i] = processes[i]
    BY <1>2, <2>1, <2>2 DEF Last, Front
  <2>7. n \in DOMAIN processes /\ \A i \in DOMAIN processes' : i \in DOMAIN processes /\ i # n
    BY <2>6
  <2>8. IsInjective(processes') /\ \A i \in DOMAIN processes' : processes'[i] # held'
    BY <1>2, <2>6, <2>7 DEF IsInjective
  <2>9. held' \notin Pool'
    BY <2>8 DEF Pool, ToSet
  <2>10. \A p \in Pool : p \in Pool' \/ p = held'
    <3>1. ASSUME NEW i \in DOMAIN processes PROVE processes[i] \in Pool' \/ processes[i] = held'
      <4>1. i = n \/ i \in DOMAIN processes'
        BY <2>6
      <4>2. QED
        BY <2>6, <4>1 DEF Pool, ToSet
    <3>2. QED
      BY <3>1 DEF Pool, ToSet
  <2>11. \A i \in DOMAIN processes' : processes'[i] \in Pool /\ processes'[i] \in Procs
    BY <2>6, <2>7, Numbers
  <2>12. held' \in Procs /\ Nobody \notin Procs
    BY <2>6, <2>7, Numbers
  <2>13. PoolTypes'
    BY <1>1, <1>2, <2>1, <2>3, <2>6, <2>12 DEF PoolTypes, Pcs
  <2>14. Owned'
    BY <1>3, <2>1, <2>5, <2>8, <2>9, <2>10 DEF Owned, Effect
  <2>15. LoopInv'
    BY <2>1, <2>12 DEF LoopInv, Holding, AtAWorker, Restarting
  <2>16. RetiredIsReplaced'
    BY <1>3, <2>5, <2>8, <2>11 DEF RetiredIsReplaced, Effect
  <2>17. HeldInv'
    BY <2>1 DEF HeldInv
  <2>18. QED
    BY <2>4, <2>5, <2>13, <2>14, <2>15, <2>16, <2>17 DEF Parts, PoolInv
<1>6. QED
  BY <1>4, <1>5

\* The process in hand has ended and is let go.
LEMMA StepRetiredDiscarded == ASSUME Parts, Retired \/ Discarded PROVE Parts'
<1>1. /\ pc \in {"retiring", "discarding"} /\ pc' = "signals" /\ held' = Nobody
      /\ ~Alive(held) /\ Renew({}, {held}) /\ (idx' = idx \/ idx' = 1)
      /\ UNCHANGED <<batch, poolVars, shouldExit, signalQueue, received>>
  BY DEF Retired, Discarded, Joined, signalVars
<1>2. held \in Procs /\ held \notin Pool
  BY <1>1, Numbers DEF Parts, PoolInv, LoopInv, Owned, Holding
<1>3. WorkerTypes' /\ AnswersAreTrue' /\ Effect({}, {held}, {})
  BY <1>1, Renewing DEF Parts
<1>4. shouldExit' \in BOOLEAN /\ idx' \in 1 .. MaxWorkers + 1
  BY <1>1, Numbers DEF Parts, SignalTypes, PoolInv, PoolTypes
<1>5. SignalTypes' /\ SignalsInv'
  BY <1>1, <1>4, SignalsLeft DEF Parts, poolVars
<1>6. UNCHANGED <<processes, processesNum>> /\ Pool' = Pool
  BY <1>1 DEF poolVars, Pool
<1>7. PoolTypes'
  BY <1>1, <1>4, <1>6 DEF Parts, PoolInv, PoolTypes, Pcs
<1>8. Owned'
  BY <1>1, <1>2, <1>3, <1>6, Numbers DEF Parts, PoolInv, Owned, Effect
<1>9. LoopInv'
  BY <1>1 DEF LoopInv, Holding, AtAWorker, Restarting
<1>10. \A i \in DOMAIN processes : ~told'[processes[i]]
  <2>1. \A i \in DOMAIN processes : ~told[processes[i]]
    BY <1>1 DEF Parts, PoolInv, RetiredIsReplaced, Stopping
  <2>2. QED
    BY <1>2, <1>3, <2>1, Numbers DEF Effect
<1>11. RetiredIsReplaced' /\ HeldInv'
  BY <1>1, <1>6, <1>10 DEF RetiredIsReplaced, HeldInv
<1>12. QED
  BY <1>3, <1>5, <1>7, <1>8, <1>9, <1>11 DEF Parts, PoolInv

\* The restart goes on with the next worker, or is over.
LEMMA StepRestartNext == ASSUME Parts, RestartNext PROVE Parts'
<1>1. pc = "restart" /\ UNCHANGED <<batch, poolVars, shouldExit, signalQueue, received>>
  BY DEF RestartNext, signalVars
<1>2. shouldExit' \in BOOLEAN /\ idx \in 1 .. MaxWorkers + 1
  BY <1>1 DEF Parts, SignalTypes, PoolInv, PoolTypes
<1>3. CASE pc' = "signals" /\ idx' = 1 /\ UNCHANGED <<held, workerVars>>
  <2>1. WorkerTypes' /\ AnswersAreTrue' /\ Effect({}, {}, {})
    BY <1>3, Leaving DEF Parts
  <2>2. QED
    BY <1>1, <1>2, <1>3, <2>1, Numbers, OnlyTheLoopMoves
       DEF Pcs, Holding, AtAWorker, Restarting, Stopping
<1>4. CASE /\ idx <= Len(processes) /\ pc' = "readying" /\ idx' = idx
           /\ held' = New /\ Renew({New}, {})
  <2>1. /\ held = Nobody /\ \A p \in Pool : ~told[p]
        /\ \A p \in Procs : Alive(p) => p \in Pool
    BY <1>1, NothingInHand DEF Stopping, Holding, Restarting
  <2>2. New \in Procs /\ New \notin Pool
    BY <2>1, NewIsFree, Numbers
  <2>3. WorkerTypes' /\ AnswersAreTrue' /\ Effect({New}, {}, {})
    BY <1>4, Renewing DEF Parts
  <2>4. SignalTypes' /\ SignalsInv'
    BY <1>1, <1>2, SignalsLeft DEF Parts, poolVars
  <2>5. UNCHANGED <<processes, processesNum>> /\ Pool' = Pool
    BY <1>1 DEF poolVars, Pool
  <2>6. PoolTypes'
    BY <1>1, <1>4, <2>2, <2>5 DEF Parts, PoolInv, PoolTypes, Pcs, Restarting
  <2>7. Owned'
    BY <1>4, <2>1, <2>2, <2>3, <2>5 DEF Parts, PoolInv, Owned, Effect
  <2>8. LoopInv'
    BY <1>4, <2>2, <2>5, Numbers DEF LoopInv, Holding, AtAWorker, Restarting
  <2>9. \A i \in DOMAIN processes : ~told'[processes[i]]
    BY <2>1, <2>2, <2>3, Numbers DEF Effect
  <2>10. RetiredIsReplaced'
    BY <2>5, <2>9 DEF RetiredIsReplaced
  <2>11. HeldInv'
    BY <1>4, <2>2, <2>3 DEF HeldInv, Effect
  <2>12. QED
    BY <2>3, <2>4, <2>6, <2>7, <2>8, <2>10, <2>11 DEF Parts, PoolInv
<1>5. QED
  BY <1>1, <1>3, <1>4 DEF RestartNext
\* The old worker has ended, and the new one takes its place.
LEMMA StepReplaced == ASSUME Parts, Replaced PROVE Parts'
<1>1. /\ pc = "replacing" /\ pc' = "restart" /\ ~Alive(processes[idx])
      /\ processes' = [processes EXCEPT ![idx] = held]
      /\ held' = Nobody /\ idx' = idx + 1 /\ Renew({}, {processes[idx]})
      /\ UNCHANGED <<batch, processesNum, shouldExit, signalQueue, received>>
  BY DEF Replaced, Joined, signalVars
<1>2. held \in Procs /\ held \notin Pool /\ idx \in DOMAIN processes
      /\ idx' \in 1 .. MaxWorkers + 1 /\ shouldExit' \in BOOLEAN
  BY <1>1, Numbers DEF Parts, SignalTypes, PoolInv, LoopInv, Owned, Holding, AtAWorker
<1> DEFINE old == processes[idx]
<1>3. old \in Procs /\ old \in Pool
  BY <1>2, Numbers
<1>4. /\ processes' \in Seq(Procs) /\ Len(processes') = Len(processes)
      /\ DOMAIN processes' = DOMAIN processes /\ IsInjective(processes')
      /\ Pool' = (Pool \ {old}) \cup {held}
  BY <1>1, <1>2, Replacing
<1>5. WorkerTypes' /\ AnswersAreTrue' /\ Effect({}, {old}, {})
  BY <1>1, Renewing DEF Parts
<1>6. SignalTypes' /\ SignalsInv'
  BY <1>1, <1>2, SignalsLeft DEF Parts
<1>7. PoolTypes'
  BY <1>1, <1>2, <1>4 DEF Parts, PoolInv, PoolTypes, Pcs
<1>8. Owned'
  <2>1. \A p \in Procs : Alive(p)' => p \in Pool'
    BY <1>1, <1>4, <1>5 DEF Parts, PoolInv, Owned, Effect
  <2>2. Nobody \notin Pool'
    BY <1>2, <1>4, Numbers
  <2>3. QED
    BY <1>1, <1>4, <2>1, <2>2 DEF Owned
<1>9. LoopInv'
  BY <1>1 DEF LoopInv, Holding, AtAWorker, Restarting
<1>10. RetiredIsReplaced'
  <2>1. \A i \in DOMAIN processes : told[processes[i]] => i = idx
    BY <1>1 DEF Parts, PoolInv, RetiredIsReplaced, Stopping
  <2>2. ~told[held]
    BY <1>1, <1>2, Numbers DEF Parts, PoolInv, HeldInv
  <2>3. ASSUME NEW p \in Pool' PROVE ~told'[p]
    <3>1. CASE p = held
      BY <1>2, <1>3, <1>5, <2>2, <3>1 DEF Effect
    <3>2. CASE p \in Pool \ {old}
      <4>1. PICK i \in DOMAIN processes : p = processes[i] /\ i # idx
        BY <3>2 DEF Pool, ToSet
      <4>2. ~told[p] /\ p \in Procs /\ p # old
        BY <2>1, <3>2, <4>1, Numbers
      <4>3. QED
        BY <1>5, <4>2 DEF Effect
    <3>3. QED
      BY <1>4, <2>3, <3>1, <3>2
  <2>4. QED
    BY <2>3 DEF RetiredIsReplaced, Pool, ToSet
<1>11. HeldInv'
  BY <1>1 DEF HeldInv
<1>12. QED
  BY <1>5, <1>6, <1>7, <1>8, <1>9, <1>10, <1>11 DEF Parts, PoolInv

\* A worker that was killed or gone is replaced, or the supervisor stops.
LEMMA StepReaped == ASSUME Parts, Reaped PROVE Parts'
<1>1. /\ pc = "reaping" /\ UNCHANGED <<batch, held, processesNum, signalQueue, received>>
      /\ ~Alive(processes[idx])
  BY DEF Reaped, Joined
<1>2. /\ held = Nobody /\ \A p \in Pool : ~told[p]
      /\ \A p \in Procs : Alive(p) => p \in Pool
  BY <1>1, NothingInHand DEF Stopping, Holding, Restarting
<1>3. idx \in DOMAIN processes /\ shouldExit \in BOOLEAN
  BY <1>1 DEF Parts, SignalTypes, PoolInv, LoopInv, AtAWorker
<1>4. CASE /\ shouldExit' = TRUE /\ pc' = "waiting" /\ idx' = 1
           /\ UNCHANGED <<processes, workerVars>>
  <2>1. WorkerTypes' /\ AnswersAreTrue' /\ Effect({}, {}, {})
    BY <1>4, Leaving DEF Parts
  <2>2. UNCHANGED <<held, poolVars, signalQueue, received>> /\ shouldExit' \in BOOLEAN
    BY <1>1, <1>4 DEF poolVars
  <2>3. QED
    BY <1>1, <1>4, <2>1, <2>2, Numbers, OnlyTheLoopMoves
       DEF Pcs, Holding, AtAWorker, Restarting, Stopping
<1>5. CASE /\ processes' = [processes EXCEPT ![idx] = New]
           /\ Renew({New}, {processes[idx]})
           /\ idx' = idx + 1 /\ pc' = "health" /\ UNCHANGED shouldExit
  <2> DEFINE old == processes[idx]
  <2>1. old \in Procs /\ old \in Pool /\ idx' \in 1 .. MaxWorkers + 1
    BY <1>3, <1>5, Numbers
  <2>2. New \in Procs /\ New \notin Pool
    BY <1>2, NewIsFree, Numbers
  <2>3. /\ processes' \in Seq(Procs) /\ Len(processes') = Len(processes)
        /\ DOMAIN processes' = DOMAIN processes /\ IsInjective(processes')
        /\ Pool' = (Pool \ {old}) \cup {New}
    BY <1>3, <1>5, <2>2, Replacing
  <2>4. WorkerTypes' /\ AnswersAreTrue' /\ Effect({New}, {old}, {})
    BY <1>5, Renewing DEF Parts
  <2>5. SignalTypes' /\ SignalsInv'
    BY <1>1, <1>3, <1>5, SignalsLeft DEF Parts
  <2>6. PoolTypes'
    BY <1>1, <1>2, <1>5, <2>1, <2>3 DEF Parts, PoolInv, PoolTypes, Pcs
  <2>7. Owned'
    <3>1. \A p \in Procs : Alive(p)' => p \in Pool'
      BY <1>1, <1>2, <2>3, <2>4 DEF Effect
    <3>2. Nobody \notin Pool'
      BY <2>2, <2>3, Numbers
    <3>3. QED
      BY <1>1, <1>2, <1>5, <2>3, <3>1, <3>2 DEF Owned
  <2>8. LoopInv'
    BY <1>1, <1>2, <1>5 DEF LoopInv, Holding, AtAWorker, Restarting
  <2>9. \A p \in Pool' : ~told'[p]
    BY <1>2, <2>1, <2>2, <2>3, <2>4, Numbers DEF Effect
  <2>10. RetiredIsReplaced'
    BY <2>9 DEF RetiredIsReplaced, Pool, ToSet
  <2>11. HeldInv'
    BY <1>1, <1>2, <1>5 DEF HeldInv
  <2>12. QED
    BY <2>4, <2>5, <2>6, <2>7, <2>8, <2>10, <2>11 DEF Parts, PoolInv
<1>6. QED
  BY <1>4, <1>5 DEF Reaped

-----------------------------------------------------------------------------
(* The theorems                                                             *)

\* The three parts hold before the first process is made,
LEMMA PartsInit == Init => Parts
<1> SUFFICES ASSUME Init PROVE Parts
  OBVIOUS
<1>1. /\ pc = "new" /\ shouldExit = FALSE /\ signalQueue = <<>> /\ received = 0
      /\ batch = <<>> /\ processes = <<>> /\ processesNum = Workers
      /\ idx = 1 /\ held = Nobody
      /\ Workers \in 1 .. MaxWorkers /\ 0 \in 0 .. MaxSignals
      /\ 1 \in 1 .. MaxWorkers + 1
  BY MultiprocessAssumption DEF Init
<1>2. life = [p \in Procs |-> "free"] /\ failed = None /\ stuck = None
      /\ told = None /\ deaf = None
      /\ pings = [p \in Procs |-> 0] /\ pongs = [p \in Procs |-> <<>>]
  BY DEF Init
<1>3. SignalTypes /\ SignalsInv
  <2>1. <<>> \in Seq(Signals) /\ Len(<<>>) = 0 /\ DOMAIN <<>> = {}
    OBVIOUS
  <2>2. SignalTypes
    BY <1>1, <2>1 DEF SignalTypes
  <2>3. SignalsInv
    BY <1>1, <2>1 DEF SignalsInv
  <2>4. QED
    BY <2>2, <2>3
<1>4. WorkerTypes
  <2>1. None \in [Procs -> BOOLEAN]
    BY Zenon DEF None
  <2>2. pings \in [Procs -> 0 .. MaxPending] /\ pongs \in [Procs -> Seq(BOOLEAN)]
    BY <1>2, EmptyPipe
  <2>3. QED
    BY <1>2, <2>1, <2>2 DEF WorkerTypes, Lives
<1>5. AnswersAreTrue
  BY <1>2, EmptyPipe DEF AnswersAreTrue, None
<1>6. PoolInv
  <2>1. PoolTypes
    BY <1>1 DEF PoolTypes, Pcs
  <2>2. Owned
    BY <1>1, <1>2 DEF Owned, Alive, IsInjective, Pool, ToSet
  <2>3. LoopInv /\ RetiredIsReplaced /\ HeldInv
    BY <1>1 DEF LoopInv, RetiredIsReplaced, HeldInv, Holding, AtAWorker, Restarting
  <2>4. QED
    BY <2>1, <2>2, <2>3 DEF PoolInv
<1>7. QED
  BY <1>3, <1>4, <1>5, <1>6 DEF Parts

\* when nothing happens,
LEMMA PartsStutter == ASSUME Parts, UNCHANGED vars PROVE Parts'
<1>1. UNCHANGED <<pc, batch, idx, held, poolVars, shouldExit, signalQueue, received, workerVars>>
  BY DEF vars, loopVars, signalVars
<1>2. WorkerTypes' /\ AnswersAreTrue' /\ Effect({}, {}, {})
  BY <1>1, Leaving DEF Parts
<1>3. SignalTypes' /\ SignalsInv'
  BY <1>1, SignalsLeft DEF Parts, SignalTypes, poolVars
<1>4. PoolInv'
  <2>1. CASE pc \in Stopping
    <3>1. pc' = "stopped" => \A q \in Procs : ~Alive(q)
      BY <1>1 DEF Parts, PoolInv, Owned
    <3>2. QED
      BY <1>1, <1>2, <2>1, <3>1, PoolLeft
         DEF Parts, PoolInv, PoolTypes, LoopInv, HeldInv, Stopping
  <2>2. CASE pc \notin Stopping
    BY <1>1, <1>2, <2>2, PoolLeft
       DEF Parts, PoolInv, PoolTypes, LoopInv, HeldInv, Stopping
  <2>3. QED
    BY <2>1, <2>2
<1>5. QED
  BY <1>2, <1>3, <1>4 DEF Parts

\* and after every step.
LEMMA PartsStep == ASSUME Parts, [Next]_vars PROVE Parts'
<1>1. CASE SupervisorStep
  BY <1>1, StepInitProcesses, StepLoopTurns, StepHandleTermHup, StepHandleTtin,
     StepHandleTtou, StepRetiredDiscarded, StepSignalsHandled, StepRestartNext,
     StepReadyPing, StepNotReadyYet, StepReady, StepRetireOld, StepReplaced,
     StepDeadline, StepHealthOver, StepHealthPing, StepHealthy, StepUnhealthy,
     StepReaped, StepTerminateAll, StepJoinAll
     DEF SupervisorStep
<1>2. CASE \E p \in Procs : WorkerStep(p)
  BY <1>2, StepWorker
<1>3. CASE \E sig \in Signals : SignalArrives(sig)
  BY <1>3, StepSignalArrives
<1>4. CASE UNCHANGED vars
  BY <1>4, PartsStutter
<1>5. QED
  BY <1>1, <1>2, <1>3, <1>4 DEF Next

\* In every state the supervisor's invariant holds, for any number of workers,
\* signals and pings.
THEOREM SupervisorInductive == Spec => []SupervisorInv
<1>1. Init => SupervisorInv
  BY PartsInit, InParts
<1>2. SupervisorInv /\ [Next]_vars => SupervisorInv'
  BY PartsStep, InParts, InPartsNext
<1>3. QED
  BY <1>1, <1>2, PTL DEF Spec

\* Every running worker is in the pool, once, or the one process in hand, and
\* none runs when the supervisor has stopped (multiprocess.py:165-194, 207-208,
\* 222-223, 280-282).
THEOREM WorkersAreOwned == Spec => []PoolOwnsWorkers
<1>1. SupervisorInv => PoolOwnsWorkers
  BY DEF SupervisorInv
<1>2. QED
  BY <1>1, SupervisorInductive, PTL

\* A rolling restart retires no worker before its replacement has served
\* (multiprocess.py:38-55, 85-96, 182-194).
THEOREM RestartRollsOver == Spec => []RetiredIsReplaced
<1>1. SupervisorInv => RetiredIsReplaced
  BY DEF SupervisorInv
<1>2. QED
  BY <1>1, SupervisorInductive, PTL

\* A worker that failed to start is not just started again: what replaces it
\* came to serve (multiprocess.py:182-190, 225-231).
THEOREM FailureIsNotRepeated == Spec => FailedIsNotRestarted
<1> DEFINE Kept ==
      \A i \in DOMAIN processes \cap DOMAIN processes' :
         processes'[i] # processes[i] /\ failed[processes[i]] => Served(processes[i])'
<1>1. SupervisorInv /\ [Next]_vars => [Kept]_vars
  <2> SUFFICES ASSUME SupervisorInv, [Next]_vars,
                      NEW i \in DOMAIN processes \cap DOMAIN processes',
                      processes'[i] # processes[i], failed[processes[i]]
               PROVE  Served(processes[i])'
    BY Zenon
  <2>1. Parts
    BY InParts
  <2>2. CASE Replaced
    <3>1. /\ pc = "replacing" /\ processes' = [processes EXCEPT ![idx] = held]
          /\ Renew({}, {processes[idx]})
      BY <2>2 DEF Replaced
    <3>2. held \in Procs /\ held \notin Pool /\ Served(held)
      BY <2>1, <3>1, Numbers DEF Parts, PoolInv, LoopInv, Owned, HeldInv, Holding
    <3>3. i = idx /\ processes'[i] = held /\ processes[idx] \in Pool
      BY <2>1, <3>1, Numbers
    <3>4. Effect({}, {processes[idx]}, {})
      BY <2>1, <3>1, Renewing DEF Parts
    <3>5. PICK new \in Procs : new = held
      BY <3>2
    <3>6. Served(new)'
      BY <3>2, <3>3, <3>4, <3>5 DEF Effect
    <3>7. QED
      BY <3>3, <3>5, <3>6 DEF Served
  <2>3. CASE Reaped
    <3>1. ~failed[processes[idx]] \/ UNCHANGED processes
      BY <2>3 DEF Reaped, FailedToStart
    <3>2. processes' = [processes EXCEPT ![idx] = New] \/ UNCHANGED processes
      BY <2>3 DEF Reaped
    <3>3. i # idx
      BY <3>1
    <3>4. QED
      BY <3>2, <3>3
  <2>4. CASE InitProcesses
    BY <2>1, <2>4 DEF InitProcesses, Parts, PoolInv, LoopInv
  <2>5. CASE HandleTtin
    BY <2>1, <2>5 DEF HandleTtin, Parts, PoolInv, PoolTypes
  <2>6. CASE HandleTtou
    BY <2>1, <2>6 DEF HandleTtou, poolVars, Front, Parts, PoolInv, PoolTypes
  <2>7. CASE LoopTurns \/ HandleTerm \/ HandleHup \/ Retired \/ SignalsHandled
    BY <2>7 DEF LoopTurns, HandleTerm, HandleHup, Retired, SignalsHandled, poolVars
  <2>8. CASE RestartNext \/ ReadyPing \/ NotReadyYet \/ Ready \/ RetireOld
             \/ Deadline \/ Discarded
    BY <2>8 DEF RestartNext, ReadyPing, NotReadyYet, Ready, RetireOld, Deadline,
                Discarded, poolVars
  <2>9. CASE HealthOver \/ HealthPing \/ Healthy \/ Unhealthy \/ TerminateAll \/ JoinAll
    BY <2>9 DEF HealthOver, HealthPing, Healthy, Unhealthy, TerminateAll, JoinAll, poolVars
  <2>10. CASE \E p \in Procs : WorkerStep(p)
    BY <2>10 DEF WorkerStep, poolVars
  <2>11. CASE \E sig \in Signals : SignalArrives(sig)
    BY <2>11 DEF SignalArrives, poolVars
  <2>12. CASE UNCHANGED vars
    BY <2>12 DEF vars, poolVars
  <2>13. QED
    BY <2>2, <2>3, <2>4, <2>5, <2>6, <2>7, <2>8, <2>9, <2>10, <2>11, <2>12
       DEF Next, SupervisorStep
<1>2. QED
  BY <1>1, SupervisorInductive, PTL DEF Spec, FailedIsNotRestarted
==============================================================================
