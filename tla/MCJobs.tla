------------------------------- MODULE MCJobs -------------------------------
\* Instances of Jobs for TLC: runs over at most three clients, one of them paused.
EXTENDS Jobs

CONSTANTS c1, c2, c3, strict, lax, single, series, parallel

OfRun ==
    [r \in Runs |-> CASE r \in {strict, lax} -> <<c1, c2>>
                      [] r = single -> <<c1>>
                      [] r = series -> <<c2, c1>>
                      [] r = parallel -> <<c1, c3>>]
KindOf ==
    [r \in Runs |-> CASE r \in {strict, lax} -> "multi"
                      [] r = single -> "single"
                      [] r \in {series, parallel} -> "ws"]

\* A sequential run with abort_on_error against a single-client job; the web
\* sockets of a sequential and of a concurrent run; a sequential run with the faults
\* in pairs.
All ==
    {[runs |-> {strict, single}, unseen |-> {}, linkFails |-> FALSE,
      storeFails |-> {}, crashes |-> FALSE],
     [runs |-> {series}, unseen |-> {c1, c2}, linkFails |-> FALSE,
      storeFails |-> {}, crashes |-> FALSE],
     [runs |-> {parallel}, unseen |-> {c1}, linkFails |-> FALSE,
      storeFails |-> {}, crashes |-> FALSE],
     [runs |-> {lax}, unseen |-> {c2}, linkFails |-> TRUE,
      storeFails |-> {"save"}, crashes |-> FALSE],
     [runs |-> {lax}, unseen |-> {}, linkFails |-> TRUE,
      storeFails |-> {}, crashes |-> TRUE],
     [runs |-> {lax}, unseen |-> {c2}, linkFails |-> FALSE,
      storeFails |-> {"create", "save"}, crashes |-> TRUE]}

\* One command of one client, with nothing failing.
Alone == {[runs |-> {single}, unseen |-> {}, linkFails |-> FALSE, storeFails |-> {}, crashes |-> FALSE]}
=============================================================================
