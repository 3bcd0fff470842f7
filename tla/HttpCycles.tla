------------------------------ MODULE HttpCycles ------------------------------
(***************************************************************************)
(* What Http1, Http2 and AutoZttp share: the bounds, and the vocabulary of   *)
(* a RequestResponseCycle and its task.                                      *)
(***************************************************************************)
EXTENDS Naturals, FiniteSets

CONSTANTS
    NumRequests,         \* bound: requests, or streams, of the connection
    MaxBody,             \* bound: chunks, or DATA frames, of a body
    LimitConcurrency     \* config.limit_concurrency

ASSUME HttpCyclesAssumption ==
    /\ NumRequests \in Nat \ {0} /\ MaxBody \in Nat
    /\ LimitConcurrency \in Nat \ {0}

Requests == 1 .. NumRequests
All(v) == [r \in Requests |-> v]

\* What an application may send.
Messages == {"start", "part", "last"}

\* A task that is not over: the application, or the first or the second message
\* of a 500 or 503 response.
Live == {"running", "canned", "cannedBody"}

\* transport.close(): idempotent.
Closed(t) == IF t = "open" THEN "closing" ELSE t
=============================================================================
