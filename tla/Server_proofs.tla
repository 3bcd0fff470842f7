----------------------------- MODULE Server_proofs -----------------------------
(***************************************************************************)
(* Theorems about Lifespan and Server, for every set of connections, every  *)
(* number of requests and signals and every setting.                        *)
(***************************************************************************)
EXTENDS Server, TLAPS

-----------------------------------------------------------------------------
(* The lifespan protocol                                                    *)

\* The lifespan starts in its types,
LEMMA LifespanTypeInit == LifespanInit => LifespanTypeOK
  <1> SUFFICES ASSUME LifespanInit PROVE LifespanTypeOK
    OBVIOUS
  <1>1. mode \in {"on", "auto", "off"}
    BY ModesAssumption DEF LifespanInit
  <1>2. queue \in Seq(Events) /\ taken \in Seq(Events) /\ said \subseteq Sent
    BY DEF LifespanInit
  <1> QED BY <1>1, <1>2 DEF LifespanInit, LifespanTypeOK

\* and its steps keep them.
LEMMA LifespanTypeStep ==
    LifespanTypeOK /\ [LifespanNext]_lifespanVars => LifespanTypeOK'
  <1> SUFFICES ASSUME LifespanTypeOK, [LifespanNext]_lifespanVars
               PROVE  LifespanTypeOK'
    OBVIOUS
  <1> USE DEF LifespanTypeOK
  <1>1. CASE StartupCalled \/ ShutdownCalled
    <2>1. Append(queue, "startup") \in Seq(Events) /\ Append(queue, "shutdown") \in Seq(Events)
      BY DEF Events
    <2> QED BY <1>1, <2>1 DEF StartupCalled, ShutdownCalled
  <1>2. CASE StartupReturns \/ ShutdownReturns
    BY <1>2 DEF StartupReturns, ShutdownReturns, StartupRefused
  <1>3. CASE AppTakes
    <2>1. Head(queue) \in Events /\ Tail(queue) \in Seq(Events)
      BY <1>3 DEF AppTakes
    <2>2. Append(taken, Head(queue)) \in Seq(Events)
      BY <2>1
    <2> QED BY <1>3, <2>1, <2>2 DEF AppTakes
  <1>4. ASSUME NEW m \in Sent, AppSends(m) PROVE LifespanTypeOK'
    BY <1>4 DEF AppSends
  <1>5. CASE AppEndsLifespan("returned") \/ AppEndsLifespan("raised")
    BY <1>5 DEF AppEndsLifespan, ReleaseBoth
  <1>6. CASE UNCHANGED lifespanVars
    BY <1>6 DEF lifespanVars
  <1> QED BY <1>1, <1>2, <1>3, <1>4, <1>5, <1>6 DEF LifespanNext, LifespanAppStep

\* Before startup() no event is set and nothing is concluded.
LEMMA LifespanInvInit == LifespanInit => LifespanInv
  BY DEF LifespanInit, LifespanInv, EventsInv, LifespanVerdicts, StartupVerdict,
         OneVerdict, ShutdownAnswered

\* The events are set by those who set them, and startup() comes first.
LEMMA EventsStep ==
    LifespanTypeOK /\ EventsInv /\ [LifespanNext]_lifespanVars => EventsInv'
  <1> SUFFICES ASSUME LifespanTypeOK, EventsInv, [LifespanNext]_lifespanVars
               PROVE  EventsInv'
    OBVIOUS
  <1> USE DEF LifespanTypeOK, EventsInv
  <1>1. CASE StartupCalled
    BY <1>1 DEF StartupCalled
  <1>2. CASE StartupReturns
    BY <1>2 DEF StartupReturns, StartupRefused
  <1>3. CASE ShutdownCalled
    BY <1>3 DEF ShutdownCalled
  <1>4. CASE ShutdownReturns
    BY <1>4 DEF ShutdownReturns
  <1>5. CASE AppTakes
    BY <1>5 DEF AppTakes
  <1>6. ASSUME NEW m \in Sent, AppSends(m) PROVE EventsInv'
    BY <1>6 DEF AppSends, Allowed, Sent
  <1>7. ASSUME NEW how \in {"returned", "raised"}, AppEndsLifespan(how) PROVE EventsInv'
    BY <1>7 DEF AppEndsLifespan, ReleaseBoth
  <1>8. CASE UNCHANGED lifespanVars
    BY <1>8 DEF lifespanVars
  <1> QED BY <1>1, <1>2, <1>3, <1>4, <1>5, <1>6, <1>7, <1>8
          DEF LifespanNext, LifespanAppStep

\* What startup() and shutdown() conclude is what the application said.
LEMMA VerdictsStep ==
    LifespanTypeOK /\ LifespanInv /\ [LifespanNext]_lifespanVars => LifespanVerdicts'
  <1> SUFFICES ASSUME LifespanTypeOK, LifespanInv, [LifespanNext]_lifespanVars
               PROVE  LifespanVerdicts'
    OBVIOUS
  <1> USE DEF LifespanTypeOK, LifespanInv, EventsInv, LifespanVerdicts, StartupVerdict,
              OneVerdict, ShutdownAnswered
  <1>1. CASE StartupCalled
    BY <1>1 DEF StartupCalled
  <1>2. CASE StartupReturns
    BY <1>2 DEF StartupReturns, StartupRefused
  <1>3. CASE ShutdownCalled
    BY <1>3 DEF ShutdownCalled, NobodyToAsk
  <1>4. CASE ShutdownReturns
    BY <1>4 DEF ShutdownReturns
  <1>5. CASE AppTakes
    BY <1>5 DEF AppTakes
  <1>6. ASSUME NEW m \in Sent, AppSends(m) PROVE LifespanVerdicts'
    BY <1>6 DEF AppSends, Allowed, Sent
  <1>7. ASSUME NEW how \in {"returned", "raised"}, AppEndsLifespan(how)
        PROVE  LifespanVerdicts'
    BY <1>7 DEF AppEndsLifespan, ReleaseBoth
  <1>8. CASE UNCHANGED lifespanVars
    BY <1>8 DEF lifespanVars
  <1> QED BY <1>1, <1>2, <1>3, <1>4, <1>5, <1>6, <1>7, <1>8
          DEF LifespanNext, LifespanAppStep

\* So every step keeps the lifespan's invariant.
LEMMA LifespanInvStep ==
    LifespanTypeOK /\ LifespanInv /\ [LifespanNext]_lifespanVars => LifespanInv'
  BY EventsStep, VerdictsStep DEF LifespanInv

\* Whatever an application does with the lifespan protocol, what the server
\* concludes agrees with what the application said.
THEOREM LifespanAlone == LifespanSpec => []LifespanVerdicts
  BY LifespanTypeInit, LifespanTypeStep, LifespanInvInit, LifespanInvStep, PTL
     DEF LifespanSpec, LifespanInv

-----------------------------------------------------------------------------
(* The server: type correctness                                             *)

\* Every step of the server is a step of the lifespan protocol, or leaves it.
LEMMA ServerLifespan == [Next]_vars => [LifespanNext]_lifespanVars
  <1> SUFFICES ASSUME [Next]_vars PROVE [LifespanNext]_lifespanVars
    OBVIOUS
  <1> USE DEF LifespanNext
  <1>1. CASE ServeStep
    BY <1>1 DEF ServeStep, ServeStarts, LifespanStarted, Bind, BindFails, BindFailed, BindRaises,
                Started, Tick, Settled, ConnectionsGone, TasksGone, WaitClosed, WaitOver,
                LifespanShutdown, LifespanStopped
  <1>2. CASE GracefulTimeoutExpires
    BY <1>2 DEF GracefulTimeoutExpires, LifespanShutdown
  <1>3. CASE \E sig \in Signals : HandleExit(sig)
    BY <1>3 DEF HandleExit
  <1>4. CASE \E c \in Conns : ConnectionStep(c)
    BY <1>4 DEF ConnectionStep
  <1>5. CASE UNCHANGED vars
    BY <1>5 DEF vars
  <1> QED BY <1>1, <1>2, <1>3, <1>4, <1>5 DEF Next

\* The server starts in its types.
LEMMA ServerTypeInit == Init => ServerTypeOK
  <1> SUFFICES ASSUME Init PROVE ServerTypeOK
    OBVIOUS
  <1>1. captured \in 0 .. MaxSignals /\ 0 \in 0 .. NumRequests
    BY ServerAssumption DEF Init
  <1> QED BY <1>1, LifespanTypeInit DEF Init, ServerTypeOK, Stages

\* The connections' part of the type.
ConnTypeOK ==
    /\ phase \in [Conns -> {"none", "handshake", "open", "adrift", "closing", "lost"}]
    /\ accepted \in [Conns -> 0 .. NumRequests]
    /\ answered \in [Conns -> 0 .. NumRequests]
    /\ last \in [Conns -> SUBSET Requests] /\ tasks \in [Conns -> SUBSET Requests]
    /\ totalRequests \in Nat

\* A connection's steps keep the types,
LEMMA ConnectionTypeOK ==
    ASSUME ServerTypeOK, NEW c \in Conns, ConnectionStep(c)
    PROVE  ConnTypeOK'
  <1> USE DEF ServerTypeOK, ConnTypeOK
  <1>1. CASE \/ ConnectionAccepted(c) \/ ConnectionMade(c) \/ HandshakeFails(c)
             \/ ConnectionAdrift(c) \/ ConnectionCloses(c) \/ ConnectionLost(c)
    BY <1>1 DEF ConnectionAccepted, ConnectionMade, HandshakeFails, ConnectionAdrift, ConnectionCloses,
                ConnectionLost
  <1>2. CASE RequestAccepted(c)
    <2>1. accepted[c] + 1 \in Requests /\ accepted[c] + 1 \in 0 .. NumRequests
      BY <1>2, ServerAssumption DEF RequestAccepted, Requests
    <2>2. accepted' = [accepted EXCEPT ![c] = accepted[c] + 1]
          /\ accepted'[c] = accepted[c] + 1
      BY <1>2 DEF RequestAccepted
    <2>3. PICK marked \in SUBSET {accepted[c] + 1} :
              last' = [last EXCEPT ![c] = last[c] \cup marked]
      BY <1>2, <2>2 DEF RequestAccepted
    <2>4. last' \in [Conns -> SUBSET Requests]
      <3>1. last[c] \cup marked \in SUBSET Requests
        BY <2>1
      <3> QED BY <2>3, <3>1
    <2>5. tasks' \in [Conns -> SUBSET Requests]
      <3>1. tasks[c] \cup {accepted[c] + 1} \in SUBSET Requests /\ tasks[c] \in SUBSET Requests
        BY <2>1
      <3> QED BY <1>2, <2>2, <3>1 DEF RequestAccepted
    <2> QED BY <1>2, <2>1, <2>2, <2>4, <2>5 DEF RequestAccepted
  <1>3. ASSUME NEW stays \in BOOLEAN, Answer(c, stays) PROVE ConnTypeOK'
    <2> DEFINE r == answered[c] + 1
    <2>1. r \in Requests /\ r \in 0 .. NumRequests
      BY <1>3 DEF Answer, Requests
    <2>2. answered' \in [Conns -> 0 .. NumRequests]
      BY <1>3, <2>1 DEF Answer
    <2>3. phase' \in [Conns -> {"none", "handshake", "open", "adrift", "closing", "lost"}]
      BY <1>3 DEF Answer, Shut
    <2>4. r < accepted[c] => r + 1 \in Requests
      BY <2>1, ServerAssumption DEF Requests
    <2>5. tasks' \in [Conns -> SUBSET Requests]
      <3>1. (IF stays THEN tasks[c] ELSE tasks[c] \ {r}) \cup
               (IF phase'[c] = "open" /\ r < accepted[c] THEN {r + 1} ELSE {})
            \in SUBSET Requests
        BY <2>4
      <3> QED BY <1>3, <3>1 DEF Answer
    <2>6. UNCHANGED <<accepted, last>> /\ totalRequests' = totalRequests + 1
      BY <1>3 DEF Answer
    <2> QED BY <2>2, <2>3, <2>5, <2>6
  <1>4. ASSUME NEW r \in Requests, TaskEnds(c, r) PROVE ConnTypeOK'
    BY <1>4 DEF TaskEnds, Shut
  <1> QED BY <1>1, <1>2, <1>3, <1>4 DEF ConnectionStep

\* A sweep tells listed connections, all of them unless one that is adrift raises.
LEMMA SweepTells ==
    ASSUME Sweep
    PROVE  \E set \in SUBSET Listed, next \in {"settling", "crashed"} :
               /\ Tell(set, next)
               /\ next = "crashed" => \E c \in Listed \ set : phase[c] = "adrift"
  <1>1. CASE Tell(Listed, "settling")
    BY <1>1
  <1>2. ASSUME NEW c \in Listed, phase[c] = "adrift", NEW set \in SUBSET (Listed \ {c}),
               Tell(set, "crashed")
        PROVE  set \in SUBSET Listed /\ c \in Listed \ set
    BY <1>2
  <1> QED BY <1>1, <1>2 DEF Sweep

\* so does shutdown() of every listed connection,
LEMMA SweepTypeOK ==
    ASSUME ServerTypeOK, ContractInv, Sweep
    PROVE  ConnTypeOK' /\ stage' \in Stages /\ listening' \in BOOLEAN /\ told' \subseteq Conns
  <1>0. PICK set \in SUBSET Listed, next \in {"settling", "crashed"} : Tell(set, next)
    BY SweepTells
  <1>1. ASSUME NEW c \in Conns
        PROVE  /\ Drained(c) \in {"none", "handshake", "open", "adrift", "closing", "lost"}
               /\ DrainedLast(c) \in SUBSET Requests
    <2>1. ~Idle(c) => accepted[c] \in Requests
      BY ServerAssumption DEF Idle, ContractInv, ServerTypeOK, Requests
    <2> QED BY <2>1 DEF Drained, DrainedLast, Shut, ServerTypeOK
  <1>2. phase' \in [Conns -> {"none", "handshake", "open", "adrift", "closing", "lost"}]
    BY <1>0, <1>1 DEF Tell, ServerTypeOK
  <1>3. last' \in [Conns -> SUBSET Requests]
    BY <1>0, <1>1 DEF Tell, ServerTypeOK
  <1>4. told' \subseteq Conns
    BY <1>0 DEF Tell, Listed
  <1> QED BY <1>0, <1>2, <1>3, <1>4 DEF Tell, ServerTypeOK, ConnTypeOK, Stages, Ended

\* and every step.
LEMMA ServerTypeStep == ServerTypeOK /\ ContractInv /\ [Next]_vars => ServerTypeOK'
  <1> SUFFICES ASSUME ServerTypeOK, ContractInv, [Next]_vars PROVE ServerTypeOK'
    OBVIOUS
  <1> USE DEF ServerTypeOK, ConnTypeOK
  <1>0. LifespanTypeOK'
    BY ServerLifespan, LifespanTypeStep
  <1>1. CASE \/ ServeStarts \/ LifespanStarted \/ Bind \/ BindFails \/ BindFailed \/ BindRaises
             \/ Settled \/ ConnectionsGone \/ TasksGone \/ WaitClosed \/ LifespanStopped
    <2>1. stage' \in Stages
      BY <1>1 DEF Stages, Waits, Ended, ServeStarts, LifespanStarted, AfterStartup, Bind,
                  BindFails, BindFailed, BindRaises, Settled, ConnectionsGone, TasksGone, WaitClosed,
                  LifespanStopped
    <2>2. listening' \in BOOLEAN /\ UNCHANGED <<flagVars, timedOut, told, connVars>>
      BY <1>1 DEF ServeStarts, LifespanStarted, Bind, BindFails, BindFailed, BindRaises, Settled,
                  ConnectionsGone, TasksGone, WaitClosed, LifespanStopped
    <2> QED BY <1>0, <2>1, <2>2 DEF flagVars, connVars
  <1>2. CASE Started \/ Tick
    <2>1. CASE Sweep
      <3>1. /\ started' \in BOOLEAN
            /\ UNCHANGED <<config, shouldExit, forceExit, captured, timedOut>>
        BY <1>2 DEF Started, Tick, flagVars
      <3> QED BY <1>0, <2>1, <3>1, SweepTypeOK
    <2>2. CASE ~Sweep
      BY <1>0, <1>2, <2>2 DEF Started, Tick, Stages, connVars
    <2> QED BY <2>1, <2>2
  <1>3. CASE WaitOver \/ GracefulTimeoutExpires
    <2>1. stage' \in Stages /\ timedOut' \in BOOLEAN
          /\ UNCHANGED <<flagVars, listening, told, connVars>>
      BY <1>3 DEF WaitOver, GracefulTimeoutExpires, LifespanShutdown, Stages, Waits, Ended
    <2> QED BY <1>0, <2>1 DEF flagVars, connVars
  <1>4. ASSUME NEW sig \in Signals, HandleExit(sig) PROVE ServerTypeOK'
    <2>1. captured' \in 0 .. MaxSignals
      BY <1>4, ServerAssumption DEF HandleExit
    <2>2. shouldExit' \in BOOLEAN /\ forceExit' \in BOOLEAN
      BY <1>4 DEF HandleExit
    <2>3. UNCHANGED <<config, stage, started, listening, timedOut, told, connVars>>
      BY <1>4 DEF HandleExit
    <2> QED BY <1>0, <2>1, <2>2, <2>3 DEF connVars
  <1>5. ASSUME NEW c \in Conns, ConnectionStep(c) PROVE ServerTypeOK'
    BY <1>0, <1>5, ConnectionTypeOK DEF ConnectionStep, flagVars
  <1>6. CASE UNCHANGED serverVars
    BY <1>0, <1>6 DEF serverVars, flagVars, connVars
  <1>7. CASE UNCHANGED vars
    BY <1>6, <1>7 DEF vars
  <1> QED BY <1>1, <1>2, <1>3, <1>4, <1>5, <1>6, <1>7 DEF Next, ServeStep

-----------------------------------------------------------------------------
(* The connections                                                          *)

\* Everything but connections and sweeps leaves the connections alone.
LEMMA ConnectionsStay ==
    ASSUME [Next]_vars
    PROVE  \/ UNCHANGED <<told, connVars>>
           \/ Sweep
           \/ UNCHANGED told /\ \E c \in Conns : ConnectionStep(c)
  BY DEF Next, ServeStep, ServeStarts, LifespanStarted, Bind, BindFails, BindFailed, BindRaises,
         Started, Tick, Settled, ConnectionsGone, TasksGone, WaitClosed, WaitOver,
         LifespanStopped, GracefulTimeoutExpires, HandleExit, ConnectionStep, vars,
         serverVars

\* No connection was told anything yet.
LEMMA ContractInit == Init => ContractInv /\ ToldWillClose
  BY DEF Init, ContractInv, ToldWillClose

\* Every step keeps each connection's requests accepted, then answered, in order.
LEMMA ContractStep == ServerTypeOK /\ ContractInv /\ [Next]_vars => ContractInv'
  <1> SUFFICES ASSUME ServerTypeOK, ContractInv, [Next]_vars PROVE ContractInv'
    OBVIOUS
  <1> USE DEF ContractInv
  <1>1. CASE UNCHANGED <<told, connVars>> \/ Sweep
    <2>1. CASE UNCHANGED <<told, connVars>>
      BY <2>1 DEF connVars
    <2>2. CASE Sweep
      <3>0. PICK set \in SUBSET Listed, next \in {"settling", "crashed"} : Tell(set, next)
        BY <2>2, SweepTells
      <3>1. \A c \in told' : phase'[c] \notin {"none", "handshake"}
        BY <3>0 DEF Tell, Listed, Drained, Shut, ServerTypeOK
      <3>2. \A c \in Conns : phase'[c] \in {"none", "handshake"} =>
                phase[c] \in {"none", "handshake"}
        BY <3>0 DEF Tell, Drained, Shut, ServerTypeOK
      <3> QED BY <3>0, <3>1, <3>2 DEF Tell
    <2> QED BY <1>1, <2>1, <2>2
  <1>2. ASSUME UNCHANGED told, NEW c \in Conns, ConnectionStep(c) PROVE ContractInv'
    <2>0. /\ answered[c] \in Nat /\ accepted[c] \in Nat /\ answered[c] <= accepted[c]
          /\ tasks[c] \subseteq 1 .. accepted[c] /\ tasks[c] \subseteq Requests
      BY ServerAssumption DEF ServerTypeOK
    <2>t. /\ \A d \in told' : phase'[d] \notin {"none", "handshake"}
          /\ \A d \in Conns : phase'[d] \in {"none", "handshake"} => tasks'[d] = {}
      <3>1. ASSUME NEW stays \in BOOLEAN, Answer(c, stays)
            PROVE  /\ phase' = [phase EXCEPT ![c] = IF answered[c] + 1 \in last[c]
                                                      THEN Shut(@) ELSE @]
                   /\ tasks[c] # {} /\ \A d \in Conns : d # c => tasks'[d] = tasks[d]
        BY <3>1 DEF Answer, ServerTypeOK
      <3>2. ASSUME NEW r \in Requests, TaskEnds(c, r)
            PROVE  /\ phase' \in {phase, [phase EXCEPT ![c] = Shut(@)]}
                   /\ tasks[c] # {} /\ \A d \in Conns : d # c => tasks'[d] = tasks[d]
        BY <3>2 DEF TaskEnds, ServerTypeOK
      <3>3. \A d \in Conns : phase[d] \notin {"none", "handshake"} =>
                phase'[d] \notin {"none", "handshake"}
        BY <1>2, <3>1, <3>2 DEF ConnectionStep, ConnectionAccepted, ConnectionMade,
               HandshakeFails, ConnectionAdrift, ConnectionCloses, ConnectionLost, RequestAccepted, Shut,
               ServerTypeOK
      <3>4. ASSUME NEW d \in Conns, tasks[d] = {}, tasks'[d] # {} PROVE phase[d] = "open"
        BY <1>2, <3>1, <3>2, <3>4 DEF ConnectionStep, ConnectionAccepted, ConnectionMade,
               HandshakeFails, ConnectionAdrift, ConnectionCloses, ConnectionLost, RequestAccepted,
               ServerTypeOK
      <3>5. \A d \in Conns : phase'[d] \in {"none", "handshake"} => tasks'[d] = {}
        BY <3>3, <3>4
      <3> QED BY <1>2, <3>3, <3>5 DEF ServerTypeOK
    <2>1. CASE \/ ConnectionAccepted(c) \/ ConnectionMade(c) \/ HandshakeFails(c)
               \/ ConnectionAdrift(c) \/ ConnectionCloses(c) \/ ConnectionLost(c)
      BY <2>1, <2>t DEF ConnectionAccepted, ConnectionMade, HandshakeFails, ConnectionAdrift, ConnectionCloses,
                  ConnectionLost
    <2>2. CASE RequestAccepted(c)
      <3>1. /\ accepted'[c] = accepted[c] + 1
            /\ tasks'[c] \subseteq tasks[c] \cup {accepted[c] + 1}
            /\ UNCHANGED answered
            /\ \A d \in Conns : d # c => accepted'[d] = accepted[d] /\ tasks'[d] = tasks[d]
        BY <2>2 DEF RequestAccepted, ServerTypeOK
      <3>2. tasks'[c] \subseteq 1 .. accepted'[c] /\ answered'[c] <= accepted'[c]
        BY <2>0, <3>1
      <3> QED BY <2>t, <3>1, <3>2
    <2>3. ASSUME NEW stays \in BOOLEAN, Answer(c, stays) PROVE ContractInv'
      <3>1. /\ answered'[c] = answered[c] + 1 /\ answered[c] + 1 \in tasks[c]
            /\ UNCHANGED accepted
            /\ \A d \in Conns : d # c => answered'[d] = answered[d] /\ tasks'[d] = tasks[d]
            /\ tasks'[c] \subseteq tasks[c] \cup
                  (IF answered[c] + 1 < accepted[c] THEN {answered[c] + 2} ELSE {})
        BY <2>0, <2>3 DEF Answer, ServerTypeOK
      <3>2. tasks'[c] \subseteq 1 .. accepted[c] /\ answered'[c] <= accepted[c]
        BY <2>0, <3>1
      <3> QED BY <2>t, <3>1, <3>2
    <2>4. ASSUME NEW r \in Requests, TaskEnds(c, r) PROVE ContractInv'
      BY <2>4, <2>t DEF TaskEnds, ServerTypeOK
    <2> QED BY <1>2, <2>1, <2>2, <2>3, <2>4 DEF ConnectionStep
  <1> QED BY <1>1, <1>2, ConnectionsStay

\* A connection that was told to stop keeps its mark until it closes.
LEMMA ToldStep ==
    ServerTypeOK /\ ContractInv /\ ToldWillClose /\ [Next]_vars => ToldWillClose'
  <1> SUFFICES ASSUME ServerTypeOK, ContractInv, ToldWillClose, [Next]_vars
               PROVE  ToldWillClose'
    OBVIOUS
  <1>1. CASE UNCHANGED <<told, connVars>>
    BY <1>1 DEF connVars, ToldWillClose
  <1>2. CASE Sweep
    <2>0. PICK set \in SUBSET Listed, next \in {"settling", "crashed"} : Tell(set, next)
      BY <1>2, SweepTells
    <2> SUFFICES ASSUME NEW c \in set, phase'[c] = "open"
                 PROVE  \E r \in (answered[c] + 1) .. accepted[c] : r \in last'[c]
      BY <2>0 DEF Tell, ToldWillClose
    <2>1. c \in Conns /\ phase'[c] = Drained(c) /\ last'[c] = DrainedLast(c)
      BY <2>0 DEF Tell, Listed
    <2>2. ~Idle(c)
      BY <2>1 DEF Drained, Shut
    <2>3. accepted[c] \in (answered[c] + 1) .. accepted[c]
      BY <2>1, <2>2, ServerAssumption DEF Idle, ContractInv, ServerTypeOK
    <2> QED BY <2>1, <2>2, <2>3 DEF DrainedLast
  <1>3. ASSUME UNCHANGED told, NEW c \in Conns, ConnectionStep(c) PROVE ToldWillClose'
    <2>0. answered[c] \in Nat /\ accepted[c] \in Nat /\ answered[c] <= accepted[c]
      BY ServerAssumption DEF ServerTypeOK, ContractInv
    <2>1. ASSUME NEW d \in told, phase'[d] = "open", d # c
          PROVE  \E r \in (answered'[d] + 1) .. accepted'[d] : r \in last'[d]
      <3>1. /\ phase'[d] = phase[d] /\ answered'[d] = answered[d]
            /\ accepted'[d] = accepted[d] /\ last'[d] = last[d]
        BY <1>3, <2>1 DEF ConnectionStep, ConnectionAccepted, ConnectionMade,
               HandshakeFails, RequestAccepted, ConnectionAdrift, ConnectionCloses, ConnectionLost, Answer,
               TaskEnds, ServerTypeOK
      <3> QED BY <2>1, <3>1 DEF ToldWillClose
    <2>2. ASSUME c \in told, phase'[c] = "open", phase[c] = "open"
          PROVE  \E r \in (answered'[c] + 1) .. accepted'[c] : r \in last'[c]
      <3>1. PICK r \in (answered[c] + 1) .. accepted[c] : r \in last[c]
        BY <2>2 DEF ToldWillClose
      <3>2. CASE \/ ConnectionAccepted(c) \/ ConnectionMade(c) \/ HandshakeFails(c)
                 \/ ConnectionAdrift(c) \/ ConnectionCloses(c) \/ ConnectionLost(c)
                 \/ \E q \in Requests : TaskEnds(c, q)
        BY <3>1, <3>2 DEF ConnectionAccepted, ConnectionMade, HandshakeFails,
                          ConnectionAdrift, ConnectionCloses, ConnectionLost, TaskEnds
      <3>3. CASE RequestAccepted(c)
        <4>1. /\ accepted'[c] = accepted[c] + 1 /\ answered' = answered
              /\ last[c] \subseteq last'[c]
          BY <3>3 DEF RequestAccepted, ServerTypeOK
        <4>2. r \in (answered'[c] + 1) .. accepted'[c]
          BY <2>0, <4>1
        <4> QED BY <3>1, <4>1, <4>2
      <3>4. ASSUME NEW stays \in BOOLEAN, Answer(c, stays)
            PROVE  \E s \in (answered'[c] + 1) .. accepted'[c] : s \in last'[c]
        <4>1. /\ answered'[c] = answered[c] + 1 /\ UNCHANGED <<accepted, last>>
              /\ phase'[c] = IF answered[c] + 1 \in last[c] THEN Shut(phase[c]) ELSE phase[c]
          BY <3>4 DEF Answer, ServerTypeOK
        <4>2. r # answered[c] + 1
          BY <2>2, <3>1, <4>1 DEF Shut
        <4>3. r \in (answered'[c] + 1) .. accepted'[c]
          BY <2>0, <4>1, <4>2
        <4> QED BY <3>1, <4>1, <4>3
      <3> QED BY <1>3, <3>2, <3>3, <3>4 DEF ConnectionStep
    <2>3. c \in told /\ phase'[c] = "open" => phase[c] = "open"
      <3>1. c \in told => phase[c] \notin {"none", "handshake"}
        BY DEF ContractInv
      <3>2. ASSUME NEW stays \in BOOLEAN, Answer(c, stays)
            PROVE  phase'[c] \in {phase[c], Shut(phase[c])}
        BY <3>2 DEF Answer, ServerTypeOK
      <3>3. ASSUME NEW r \in Requests, TaskEnds(c, r)
            PROVE  phase'[c] \in {phase[c], Shut(phase[c])}
        BY <3>3 DEF TaskEnds, ServerTypeOK
      <3> QED BY <1>3, <3>1, <3>2, <3>3 DEF ConnectionStep, ConnectionAccepted,
                 ConnectionMade, HandshakeFails, ConnectionAdrift, ConnectionCloses, ConnectionLost,
                 RequestAccepted, Shut, ServerTypeOK
    <2> QED BY <1>3, <2>1, <2>2, <2>3 DEF ToldWillClose
  <1> QED BY <1>1, <1>2, <1>3, ConnectionsStay
-----------------------------------------------------------------------------
(* What serve() asked of the application, and whom its shutdown waited for  *)

\* serve() starts before its lifespan does.
LEMMA StageInit == Init => StageInv /\ QuietInv
  BY DEF Init, LifespanInit, StageInv, QuietInv, Unconnected, Serving, Stopped, Waits

\* An application's step, and a call that is waiting, change neither what was
\* asked nor the verdict.
LEMMA AppKeepsAsked == LifespanAppStep => UNCHANGED <<caller, lifespanExit>>
  BY DEF LifespanAppStep, AppTakes, AppSends, AppEndsLifespan

\* When the waits are over the lifespan is asked to shut down, unless forced.
LEMMA ShutdownAsks ==
    ASSUME ServerTypeOK, StageInv, LifespanShutdown, stage \in {"waited"} \cup Waits,
           UNCHANGED <<started, forceExit>>
    PROVE  StageInv'
  <1> USE DEF Unconnected, Excepted
  <1>1. caller = "started" /\ ~lifespanExit
    BY DEF StageInv, Serving
  <1>2. CASE forceExit
    BY <1>1, <1>2 DEF StageInv, LifespanShutdown, Serving, Waits, lifespanVars, ServerTypeOK
  <1>3. CASE ~forceExit
    BY <1>1, <1>3 DEF StageInv, LifespanShutdown, Serving, Waits, ShutdownCalled
  <1> QED BY <1>2, <1>3

\* A sweep ends in the shutdown's sleep, or in the exception of a connection adrift.
LEMMA SweepExcepted ==
    ASSUME ServerTypeOK, Sweep
    PROVE  \/ stage' = "settling"
           \/ stage' = "crashed" /\ \E c \in Listed' : phase'[c] = "adrift"
  <1>1. PICK set \in SUBSET Listed, next \in {"settling", "crashed"} :
               /\ Tell(set, next)
               /\ next = "crashed" => \E c \in Listed \ set : phase[c] = "adrift"
    BY SweepTells
  <1>2. ASSUME NEW c \in Listed \ set, phase[c] = "adrift"
        PROVE  c \in Listed' /\ phase'[c] = "adrift"
    BY <1>1, <1>2 DEF Tell, Listed
  <1> QED BY <1>1, <1>2 DEF Tell

\* Every step keeps the stage of serve() and that of its lifespan together.
LEMMA StageStep == ServerTypeOK /\ EventsInv /\ StageInv /\ [Next]_vars => StageInv'
  <1> SUFFICES ASSUME ServerTypeOK, EventsInv, StageInv, [Next]_vars PROVE StageInv'
    OBVIOUS
  <1> USE DEF StageInv, Serving, Waits, Unconnected, Excepted
  <1>1. CASE ServeStarts
    BY <1>1 DEF ServeStarts, StartupCalled, ServerTypeOK, EventsInv, flagVars
  <1>2. CASE LifespanStarted
    BY <1>2 DEF LifespanStarted, StartupReturns, AfterStartup, flagVars
  <1>3. CASE Bind
    BY <1>3 DEF Bind, lifespanVars, flagVars
  <1>4. CASE BindFails
    BY <1>4 DEF BindFails, ShutdownCalled, flagVars
  <1>5. CASE BindFailed
    BY <1>5 DEF BindFailed, ShutdownReturns, flagVars
  <1>6. CASE Started
    <2>1. CASE Sweep
      BY <1>6, <2>1, SweepExcepted DEF Started, lifespanVars
    <2>2. CASE ~ExitDue
      BY <1>6, <2>2 DEF Started, lifespanVars
    <2> QED BY <1>6, <2>1, <2>2 DEF Started
  <1>7. CASE Tick
    BY <1>7, SweepExcepted DEF Tick, lifespanVars, flagVars
  <1>8. CASE Settled \/ ConnectionsGone \/ TasksGone \/ WaitClosed
    BY <1>8 DEF Settled, ConnectionsGone, TasksGone, WaitClosed, lifespanVars
  <1>9. CASE WaitOver
    BY <1>9, ShutdownAsks DEF WaitOver, flagVars
  <1>10. CASE GracefulTimeoutExpires
    BY <1>10, ShutdownAsks DEF GracefulTimeoutExpires, Bounded, flagVars
  <1>11. CASE LifespanStopped
    BY <1>11 DEF LifespanStopped, ShutdownReturns
  <1>12. ASSUME NEW sig \in Signals, HandleExit(sig) PROVE StageInv'
    BY <1>12 DEF HandleExit, lifespanVars, Ended
  <1>13. ASSUME NEW c \in Conns, ConnectionStep(c) PROVE StageInv'
    BY <1>13 DEF ConnectionStep, lifespanVars, flagVars, Ended
  <1>14. CASE LifespanAppStep /\ UNCHANGED serverVars
    BY <1>14, AppKeepsAsked DEF serverVars, flagVars, connVars, Listed
  <1>15. CASE UNCHANGED vars
    BY <1>15 DEF vars, serverVars, lifespanVars, flagVars, connVars, Listed
  <1>16. CASE BindRaises
    BY <1>16 DEF BindRaises, lifespanVars, flagVars
  <1> QED BY <1>1, <1>2, <1>3, <1>4, <1>5, <1>6, <1>7, <1>8, <1>9, <1>10, <1>11, <1>12,
             <1>13, <1>14, <1>15, <1>16 DEF Next, ServeStep

\* A connection's step brings nobody back whom a shutdown has waited for.
LEMMA NobodyComesBack ==
    ASSUME ServerTypeOK, NEW c \in Conns, ConnectionStep(c)
    PROVE  /\ ~listening /\ (\A d \in Conns : phase[d] # "handshake") =>
                  /\ \A d \in Conns : phase'[d] # "handshake"
                  /\ Listed = {} => Listed' = {}
                  /\ Listed = {} /\ LiveTasks = {} => LiveTasks' = {}
           /\ ~listening /\ (\A d \in Conns : phase[d] = "none" /\ tasks[d] = {}) =>
                  \A d \in Conns : phase'[d] = "none" /\ tasks'[d] = {}
  <1> USE DEF ServerTypeOK
  <1>1. ASSUME NEW d \in Conns, d # c PROVE phase'[d] = phase[d] /\ tasks'[d] = tasks[d]
    BY <1>1 DEF ConnectionStep, ConnectionAccepted, ConnectionMade, HandshakeFails,
           RequestAccepted, ConnectionAdrift, ConnectionCloses, ConnectionLost, Answer, TaskEnds
  <1>2. ASSUME ~listening, phase[c] # "handshake"
        PROVE  /\ phase[c] = "none" => phase'[c] = "none"
               /\ phase[c] = "lost" => phase'[c] = "lost"
               /\ phase'[c] # "handshake"
               /\ phase[c] # "open" /\ tasks[c] = {} => tasks'[c] = {}
    <2>1. CASE \/ ConnectionAccepted(c) \/ ConnectionMade(c) \/ HandshakeFails(c)
               \/ ConnectionAdrift(c) \/ ConnectionCloses(c) \/ ConnectionLost(c) \/ RequestAccepted(c)
      BY <1>2, <2>1 DEF ConnectionAccepted, ConnectionMade, HandshakeFails,
             RequestAccepted, ConnectionAdrift, ConnectionCloses, ConnectionLost
    <2>2. ASSUME NEW stays \in BOOLEAN, Answer(c, stays)
          PROVE  tasks[c] # {} /\ phase'[c] \in {phase[c], Shut(phase[c])}
      BY <2>2 DEF Answer
    <2>3. ASSUME NEW r \in Requests, TaskEnds(c, r)
          PROVE  tasks[c] # {} /\ phase'[c] \in {phase[c], Shut(phase[c])}
      BY <2>3 DEF TaskEnds
    <2> QED BY <1>2, <2>1, <2>2, <2>3 DEF ConnectionStep, Shut
  <1>3. ASSUME ~listening, \A d \in Conns : phase[d] # "handshake"
        PROVE  /\ \A d \in Conns : phase'[d] # "handshake"
               /\ Listed = {} => Listed' = {}
               /\ Listed = {} /\ LiveTasks = {} => LiveTasks' = {}
    <2>1. \A d \in Conns : phase'[d] # "handshake"
      BY <1>1, <1>2, <1>3
    <2>2. ASSUME Listed = {} PROVE Listed' = {}
      <3>1. \A d \in Conns : phase[d] \in {"none", "lost"}
        BY <1>3, <2>2 DEF Listed
      <3>2. \A d \in Conns : phase'[d] \in {"none", "lost"}
        BY <1>1, <1>2, <1>3, <3>1
      <3> QED BY <3>2 DEF Listed
    <2>3. ASSUME Listed = {}, LiveTasks = {} PROVE LiveTasks' = {}
      <3>1. \A d \in Conns : phase[d] # "open" /\ tasks[d] = {}
        <4>1. ASSUME NEW d \in Conns, NEW r \in tasks[d] PROVE FALSE
          <5>1. r \in Requests /\ <<d, r>> \in Conns \X Requests
            OBVIOUS
          <5>2. <<d, r>> \in LiveTasks
            BY <5>1 DEF LiveTasks
          <5> QED BY <2>3, <5>2
        <4> QED BY <2>3, <4>1 DEF Listed
      <3>2. \A d \in Conns : tasks'[d] = {}
        BY <1>1, <1>2, <1>3, <3>1
      <3> QED BY <3>2 DEF LiveTasks
    <2> QED BY <2>1, <2>2, <2>3
  <1>4. ASSUME ~listening, \A d \in Conns : phase[d] = "none" /\ tasks[d] = {}
        PROVE  \A d \in Conns : phase'[d] = "none" /\ tasks'[d] = {}
    BY <1>1, <1>2, <1>4
  <1> QED BY <1>3, <1>4

\* Every step keeps what the waits of a shutdown have established.
LEMMA QuietStep == ServerTypeOK /\ StageInv /\ QuietInv /\ [Next]_vars => QuietInv'
  <1> SUFFICES ASSUME ServerTypeOK, StageInv, QuietInv, [Next]_vars PROVE QuietInv'
    OBVIOUS
  <1> USE DEF QuietInv, Unconnected, Stopped, Waits
  <1>1. CASE ServeStarts \/ LifespanStarted \/ Bind
    BY <1>1 DEF ServeStarts, LifespanStarted, AfterStartup, Bind, connVars
  <1>2. CASE BindFails \/ BindFailed \/ BindRaises
    BY <1>2 DEF BindFails, BindFailed, BindRaises, connVars
  <1>3. CASE Started \/ Tick
    BY <1>3 DEF Started, Tick, Sweep, Tell
  <1>4. CASE Settled
    BY <1>4 DEF Settled, connVars, flagVars
  <1>5. CASE ConnectionsGone
    BY <1>5 DEF ConnectionsGone, connVars, flagVars, TasksDone, ForcedOut, Listed, LiveTasks
  <1>6. CASE TasksGone
    BY <1>6 DEF TasksGone, connVars, flagVars, TasksDone, ForcedOut, Listed, LiveTasks
  <1>7. CASE WaitClosed
    BY <1>7 DEF WaitClosed, connVars, flagVars, Listed, LiveTasks
  <1>8. CASE WaitOver \/ LifespanStopped
    BY <1>8 DEF WaitOver, LifespanShutdown, LifespanStopped, connVars, flagVars, Listed, LiveTasks
  <1>9. CASE GracefulTimeoutExpires
    BY <1>9 DEF GracefulTimeoutExpires, Bounded, LifespanShutdown, connVars, flagVars
  <1>10. ASSUME NEW sig \in Signals, HandleExit(sig) PROVE QuietInv'
    BY <1>10 DEF HandleExit, connVars, Listed, LiveTasks
  <1>11. ASSUME NEW c \in Conns, ConnectionStep(c) PROVE QuietInv'
    <2>1. UNCHANGED <<stage, config, listening, timedOut, forceExit>>
      BY <1>11 DEF ConnectionStep, flagVars
    <2> QED BY <1>11, <2>1, NobodyComesBack
  <1>12. CASE UNCHANGED serverVars
    BY <1>12 DEF serverVars, flagVars, connVars, Listed, LiveTasks
  <1>13. CASE UNCHANGED vars
    BY <1>12, <1>13 DEF vars
  <1> QED BY <1>1, <1>2, <1>3, <1>4, <1>5, <1>6, <1>7, <1>8, <1>9, <1>10, <1>11, <1>12,
             <1>13 DEF Next, ServeStep

-----------------------------------------------------------------------------
(* The theorems                                                             *)

\* serve() and its lifespan, shutdown and connections keep in step whatever the
\* clients, the application and the signals do.
THEOREM ServerInductive == Spec => []ServerInv
  <1>1. Init => ServerInv
    BY ServerTypeInit, LifespanInvInit, StageInit, ContractInit DEF Init, ServerInv
  <1>2. ServerInv /\ [Next]_vars => ServerInv'
    <2>1. ServerInv /\ [Next]_vars => ServerTypeOK' /\ StageInv' /\ QuietInv'
      BY ServerTypeStep, StageStep, QuietStep DEF ServerInv, LifespanInv
    <2>2. ServerInv /\ [Next]_vars => ContractInv' /\ ToldWillClose'
      BY ContractStep, ToldStep DEF ServerInv
    <2>3. ServerInv /\ [Next]_vars => LifespanInv'
      BY ServerLifespan, LifespanInvStep DEF ServerInv, ServerTypeOK
    <2> QED BY <2>1, <2>2, <2>3 DEF ServerInv
  <1> QED BY <1>1, <1>2, PTL DEF Spec

\* Requests are served only inside the application's lifespan.
THEOREM Bracketed == Spec => []RequestsWithinLifespan
  <1>1. ServerInv => RequestsWithinLifespan
    <2> SUFFICES ASSUME ServerInv PROVE RequestsWithinLifespan
      OBVIOUS
    <2> USE DEF ServerInv
    <2>1. ASSUME LiveTasks # {}
          PROVE  \/ caller = "started" /\ ~lifespanExit
                 \/ caller \in {"stopping", "stopped"} /\ (timedOut \/ forceExit \/ config.tls)
      <3>1. stage \notin Unconnected
        BY <2>1 DEF QuietInv, LiveTasks
      <3>2. CASE stage \in Serving
        BY <3>2 DEF StageInv
      <3>3. CASE stage \in {"lifespan", "done"}
        <4>1. timedOut \/ forceExit \/ config.tls
          BY <2>1, <3>3 DEF QuietInv, Stopped, Waits, ServerTypeOK
        <4>2. caller \in {"started", "stopping", "stopped"} /\ (caller = "started" => ~lifespanExit)
          BY <3>3 DEF StageInv, Serving, ServerTypeOK, LifespanTypeOK
        <4> QED BY <4>1, <4>2
      <3> QED BY <3>1, <3>2, <3>3 DEF ServerTypeOK, Stages, Unconnected, Serving, Ended
    <2> QED BY <2>1 DEF RequestsWithinLifespan
  <1> QED BY <1>1, ServerInductive, PTL

\* Every application that started up is shut down before the process ends, unless a
\* second interrupt forced the exit, or an exception ended serve(): while it bound
\* sockets without a handler, or of the shutdown() of a connection adrift.
THEOREM ShutDownAtTheEnd == Spec => []StartedIsShutDown
  <1>1. ServerInv => StartedIsShutDown
    BY DEF ServerInv, StageInv, StartedIsShutDown, Ended
  <1> QED BY <1>1, ServerInductive, PTL

\* A graceful shutdown that was not cut short leaves no connection and no task.
THEOREM Quiet == Spec => []QuietWhenWaited
  <1>1. ServerInv => QuietWhenWaited
    BY DEF ServerInv, QuietInv, QuietWhenWaited, Stopped, Waits
  <1> QED BY <1>1, ServerInductive, PTL

\* A connection told to shut down has a request whose response will close it.
THEOREM Told == Spec => []ToldWillClose
  <1>1. ServerInv => ToldWillClose
    BY DEF ServerInv
  <1> QED BY <1>1, ServerInductive, PTL

\* Inside the server too, what it concludes from the lifespan protocol agrees
\* with what the application said.
THEOREM Verdicts == Spec => []LifespanVerdicts
  <1>1. ServerInv => LifespanVerdicts
    BY DEF ServerInv, LifespanInv
  <1> QED BY <1>1, ServerInductive, PTL
-----------------------------------------------------------------------------
(* The connections keep to HttpConnection                                   *)

\* A connection's step leaves the other connections alone,
LEMMA OthersUntouched ==
    ASSUME ServerTypeOK, NEW c \in Conns, ConnectionStep(c), NEW d \in Conns, d # c
    PROVE  UNCHANGED Conn(d)!hvars
  <1> USE DEF ServerTypeOK
  <1>1. phase'[d] = phase[d] /\ accepted'[d] = accepted[d] /\ last'[d] = last[d]
    BY DEF ConnectionStep, ConnectionAccepted, ConnectionMade, HandshakeFails,
           RequestAccepted, ConnectionAdrift, ConnectionCloses, ConnectionLost, Answer, TaskEnds
  <1>2. answered'[d] = answered[d] /\ tasks'[d] = tasks[d]
    BY DEF ConnectionStep, ConnectionAccepted, ConnectionMade, HandshakeFails,
           RequestAccepted, ConnectionAdrift, ConnectionCloses, ConnectionLost, Answer, TaskEnds
  <1> QED BY <1>1, <1>2 DEF Conn!hvars

\* is a step of its contract or none,
LEMMA ConnectionKeepsContract ==
    ASSUME ServerTypeOK, ContractInv, NEW c \in Conns, ConnectionStep(c)
    PROVE  [Conn(c)!HNext]_(Conn(c)!hvars)
  <1> USE DEF ServerTypeOK
  <1>0. phase[c] \in {"none", "handshake"} => tasks[c] = {}
    BY DEF ContractInv
  <1>1. CASE ConnectionAccepted(c) \/ ConnectionMade(c)
    BY <1>1 DEF ConnectionAccepted, ConnectionMade, Conn!hvars
  <1>2. CASE HandshakeFails(c) \/ ConnectionLost(c)
    BY <1>2 DEF HandshakeFails, ConnectionLost, Conn!HNext, Conn!Lose
  <1>3. CASE ConnectionCloses(c)
    BY <1>3 DEF ConnectionCloses, Conn!HNext, Conn!Close, Conn!Shut
  <1>4. CASE RequestAccepted(c)
    <2>1. PICK marked \in SUBSET {accepted[c] + 1} :
              last' = [last EXCEPT ![c] = last[c] \cup marked]
      BY <1>4 DEF RequestAccepted
    <2>2. last'[c] \in {last[c], last[c] \cup {accepted[c] + 1}}
      BY <2>1
    <2>3. /\ phase[c] = "open" /\ phase'[c] = "open" /\ accepted[c] < NumRequests
          /\ accepted'[c] = accepted[c] + 1 /\ answered'[c] = answered[c]
          /\ tasks'[c] = IF answered[c] = accepted[c] THEN tasks[c] \cup {accepted[c] + 1}
                                                      ELSE tasks[c]
      BY <1>4 DEF RequestAccepted, Idle
    <2>4. Conn(c)!Accept
      BY <2>2, <2>3 DEF Conn!Accept
    <2> QED BY <2>4 DEF Conn!HNext
  <1>5. ASSUME NEW stays \in BOOLEAN, Answer(c, stays) PROVE [Conn(c)!HNext]_(Conn(c)!hvars)
    <2> DEFINE r == answered[c] + 1
    <2>1. /\ r \in tasks[c] /\ phase[c] # "adrift" /\ answered'[c] = r
          /\ phase'[c] = IF r \in last[c] THEN Shut(phase[c]) ELSE phase[c]
          /\ accepted'[c] = accepted[c] /\ last'[c] = last[c]
      BY <1>5 DEF Answer
    <2>2. tasks'[c] = (IF stays THEN tasks[c] ELSE tasks[c] \ {r}) \cup
                      (IF phase'[c] = "open" /\ r < accepted[c] THEN {r + 1} ELSE {})
      BY <1>5 DEF Answer
    <2>3. \E kept \in SUBSET {r} :
              tasks'[c] = (tasks[c] \ {r}) \cup kept \cup
                          (IF phase'[c] = "open" /\ r < accepted[c] THEN {r + 1} ELSE {})
      <3>1. CASE stays
        <4>1. tasks[c] = (tasks[c] \ {r}) \cup {r}
          BY <2>1
        <4> QED BY <2>2, <3>1, <4>1
      <3>2. CASE ~stays
        <4>1. tasks[c] \ {r} = (tasks[c] \ {r}) \cup {}
          OBVIOUS
        <4> QED BY <2>2, <3>2, <4>1
      <3> QED BY <3>1, <3>2
    <2>4. phase[c] \notin {"none", "handshake"} /\ phase'[c] \notin {"none", "handshake"}
      BY <1>0, <2>1 DEF Shut
    <2>5. Conn(c)!Answer
      BY <2>1, <2>3, <2>4 DEF Conn!Answer, Conn!Shut, Shut
    <2> QED BY <2>5 DEF Conn!HNext
  <1>6. ASSUME NEW r \in Requests, TaskEnds(c, r) PROVE [Conn(c)!HNext]_(Conn(c)!hvars)
    <2>1. /\ r \in tasks[c] /\ tasks'[c] = tasks[c] \ {r}
          /\ \/ r > answered[c] /\ phase'[c] = Shut(phase[c])
             \/ (r <= answered[c] \/ phase[c] = "adrift") /\ phase'[c] = phase[c]
          /\ accepted'[c] = accepted[c] /\ answered'[c] = answered[c] /\ last'[c] = last[c]
      BY <1>6 DEF TaskEnds
    <2>2. phase[c] \notin {"none", "handshake"} /\ phase'[c] \notin {"none", "handshake"}
      BY <1>0, <2>1 DEF Shut
    <2>3. r > answered[c] => phase'[c] # "open"
      <3>1. answered[c] \in Nat /\ r \in Nat
        BY ServerAssumption DEF Requests
      <3> QED BY <2>1, <3>1 DEF Shut
    <2>4. Conn(c)!TaskEnds(r)
      BY <2>1, <2>2, <2>3 DEF Conn!TaskEnds, Conn!Shut, Shut
    <2> QED BY <2>4 DEF Conn!HNext, Requests
  <1>7. CASE ConnectionAdrift(c)
    BY <1>7 DEF ConnectionAdrift, Conn!HNext, Conn!Abandon
  <1> QED BY <1>1, <1>2, <1>3, <1>4, <1>5, <1>6, <1>7 DEF ConnectionStep

\* and so is shutdown() for each of them.
LEMMA SweepKeepsContract ==
    ASSUME ServerTypeOK, Sweep, NEW c \in Conns
    PROVE  [Conn(c)!HNext]_(Conn(c)!hvars)
  <1> USE DEF ServerTypeOK
  <1>0. PICK set \in SUBSET Listed, next \in {"settling", "crashed"} : Tell(set, next)
    BY SweepTells
  <1>1. CASE c \in set
    <2>1. /\ phase'[c] = Drained(c) /\ last'[c] = DrainedLast(c)
          /\ phase[c] \in {"open", "adrift", "closing"}
          /\ UNCHANGED <<accepted, answered, tasks>>
      BY <1>0, <1>1 DEF Tell, Listed
    <2>2. CASE phase[c] = "adrift"
      <3>1. Conn(c)!Close
        BY <2>1, <2>2 DEF Drained, DrainedLast, Idle, Shut, Conn!Close, Conn!Shut
      <3> QED BY <3>1 DEF Conn!HNext
    <2>3. CASE phase[c] # "adrift"
      <3>1. Conn(c)!Drain
        BY <2>1, <2>3 DEF Drained, DrainedLast, Idle, Shut, Conn!Drain, Conn!Shut
      <3> QED BY <3>1 DEF Conn!HNext
    <2> QED BY <2>2, <2>3
  <1>2. CASE c \notin set
    BY <1>0, <1>2 DEF Tell, Conn!hvars
  <1> QED BY <1>1, <1>2

\* Inside the server, each connection behaves as the abstract connection does
\* that the HTTP/1.1 protocol is shown to implement.
THEOREM ContractKept == Spec => ConnectionsKeepContract
  <1>1. Init => \A c \in Conns : Conn(c)!HInit
    BY DEF Init, Conn!HInit
  <1>2. ASSUME ServerInv, [Next]_vars, NEW c \in Conns
        PROVE  [Conn(c)!HNext]_(Conn(c)!hvars)
    <2>1. CASE UNCHANGED <<told, connVars>>
      BY <2>1 DEF connVars, Conn!hvars
    <2>2. CASE Sweep
      BY <1>2, <2>2, SweepKeepsContract DEF ServerInv
    <2>3. ASSUME NEW d \in Conns, ConnectionStep(d)
          PROVE  [Conn(c)!HNext]_(Conn(c)!hvars)
      BY <1>2, <2>3, OthersUntouched, ConnectionKeepsContract DEF ServerInv
    <2> QED BY <1>2, <2>1, <2>2, <2>3, ConnectionsStay
  <1>3. ServerInv /\ [Next]_vars => [\A c \in Conns : [Conn(c)!HNext]_(Conn(c)!hvars)]_vars
    BY <1>2
  <1> QED BY <1>1, <1>3, ServerInductive, PTL DEF Spec, ConnectionsKeepContract
=============================================================================
