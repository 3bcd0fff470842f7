--------------------------- MODULE HttpConnection ---------------------------
(***************************************************************************)
(* What a connection promises to the Server that lists it and to the client *)
(* at its other end, whichever HTTP/1.1 protocol class serves it.  Requests *)
(* are accepted, answered strictly in order by one task each, and a request *)
(* may be marked as the last one to be answered: by its own head, by its    *)
(* response, or by shutdown().  Answering a marked request closes.  Nothing *)
(* is promised of a connection adrift: its library refused the end of a      *)
(* response that the request's cycle takes for complete, so no one else will *)
(* answer, and shutdown() may raise.                                         *)
(***************************************************************************)
EXTENDS Naturals

CONSTANT NumRequests        \* bound: requests on the connection

VARIABLES
    phase,      \* "open", "adrift", "closing" or "lost" (connection_lost called)
    accepted,   \* requests whose head was parsed
    answered,   \* requests with a complete response
    last,       \* accepted requests whose response closes the connection
    tasks       \* requests with a live task in server_state.tasks

hvars == <<phase, accepted, answered, last, tasks>>

HTypeOK ==
    /\ phase \in {"open", "adrift", "closing", "lost"}
    /\ accepted \in 0 .. NumRequests
    /\ answered \in 0 .. accepted
    /\ last \subseteq 1 .. accepted
    /\ tasks \subseteq 1 .. accepted

HInit == phase = "open" /\ accepted = 0 /\ answered = 0 /\ last = {} /\ tasks = {}

Shut(p) == IF p \in {"open", "adrift"} THEN "closing" ELSE p

\* A request head: its task starts at once when nothing is unanswered.
Accept ==
    /\ phase = "open" /\ accepted < NumRequests
    /\ accepted' = accepted + 1
    /\ last' \in {last, last \cup {accepted + 1}}
    /\ tasks' = IF answered = accepted THEN tasks \cup {accepted + 1} ELSE tasks
    /\ UNCHANGED <<phase, answered>>

\* The response being sent says that it is the last one.
Mark ==
    /\ answered + 1 \in tasks
    /\ last' = last \cup {answered + 1}
    /\ UNCHANGED <<phase, accepted, answered, tasks>>

\* The oldest unanswered request gets its complete response.  Its task may
\* end with it or stay; the next one is started if the connection is open.
Answer ==
    LET r == answered + 1 IN
    /\ r \in tasks /\ phase # "adrift"
    /\ answered' = r
    /\ phase' = IF r \in last THEN Shut(phase) ELSE phase
    /\ \E stays \in SUBSET {r} :
          tasks' = (tasks \ {r}) \cup stays \cup
                      (IF phase' = "open" /\ r < accepted THEN {r + 1} ELSE {})
    /\ UNCHANGED <<accepted, last>>

\* The library refuses the end of the response, and the application goes on.
Abandon ==
    /\ phase = "open" /\ answered + 1 \in tasks
    /\ phase' = "adrift"
    /\ UNCHANGED <<accepted, answered, last, tasks>>

\* A task that ends without an answer leaves no connection open behind it that
\* is not adrift.
TaskEnds(r) ==
    /\ r \in tasks
    /\ tasks' = tasks \ {r}
    /\ phase' \in {phase, Shut(phase)}
    /\ r > answered => phase' # "open"
    /\ UNCHANGED <<accepted, answered, last>>

\* shutdown(): idle connections close, busy ones after the newest request.
Drain ==
    /\ phase # "adrift"
    /\ IF answered = accepted
         THEN phase' = Shut(phase) /\ UNCHANGED last
         ELSE last' = last \cup {accepted} /\ UNCHANGED phase
    /\ UNCHANGED <<accepted, answered, tasks>>

\* Keep-alive timeout, bad request, end of file; then connection_lost.
Close == phase' = Shut(phase) /\ UNCHANGED <<accepted, answered, last, tasks>>
Lose == phase' = "lost" /\ UNCHANGED <<accepted, answered, last, tasks>>

HNext == \/ Accept \/ Mark \/ Answer \/ Abandon \/ Drain \/ Close \/ Lose
         \/ \E r \in 1 .. NumRequests : TaskEnds(r)

HSpec == HInit /\ [][HNext]_hvars

\* What it promises in every state: an answered last request has closed the
\* connection, and while it is open the oldest unanswered request is at work
\* and nobody works ahead of it.
HPromises ==
    /\ HTypeOK
    /\ \A r \in last : r <= answered => phase # "open"
    /\ phase = "open" => /\ answered < accepted => answered + 1 \in tasks
                         /\ \A r \in tasks : r <= answered + 1
=============================================================================
