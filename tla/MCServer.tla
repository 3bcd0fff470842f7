------------------------------ MODULE MCServer ------------------------------
(***************************************************************************)
(* Server with one or two connections of a few requests; the .cfg files     *)
(* give the bounds, the sets of settings are here.  Connections are         *)
(* interchangeable (safety runs only).                                      *)
(***************************************************************************)
EXTENDS Server, TLC

Plain == [limit |-> 0, timeout |-> FALSE, tls |-> FALSE, waits |-> FALSE]

\* With and without a timeout or TLS; a limit that the second response reaches.
SafetyConfigs == {[Plain EXCEPT !.timeout = TRUE], [Plain EXCEPT !.limit = 2],
                  [Plain EXCEPT !.tls = TRUE]}

\* Python before and from 3.12, and the most that a timeout has to cut short.
LiveConfigs == {Plain, [Plain EXCEPT !.waits = TRUE],
                [Plain EXCEPT !.timeout = TRUE, !.tls = TRUE, !.waits = TRUE]}

\* The application's lifespan beside the timeout, and nothing of it otherwise.
LiveInit == Init /\ (mode = "on" <=> config.timeout)
LiveSpec == LiveInit /\ [][Next]_vars /\ LoopFairness

Symmetric == Permutations(Conns)
=============================================================================
