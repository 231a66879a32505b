-------------------------- MODULE MCClientTunnels --------------------------
\* Instances of ClientTunnels for TLC: a pinned remote with both protocols, a
\* plain one, routed ones with an auto-close deadline, with an idle timeout and
\* with both, and a pinned routed one.
EXTENDS ClientTunnels

CONSTANTS dual, plain, auto, quiet, timed, routed, w1, w2

OfRemote == [r \in Remotes |-> IF r = dual THEN {"tcp", "udp"} ELSE {"tcp"}]

Of(remotes, workers, forces, tunnels, gens, conns) ==
    [remotes |-> remotes, workers |-> workers, forces |-> forces, tunnels |-> tunnels,
     gens |-> gens, conns |-> conns, caddyFails |-> FALSE, socketsFail |-> FALSE, overlap |-> FALSE]

\* API requests at a time, with and without force.
Requests == Of({dual, plain}, {w1, w2}, BOOLEAN, 2, 1, 1)

\* The timers of a routed tunnel against API requests.
Timers ==
    {Of({auto}, {w1}, {TRUE}, 2, 1, 1), Of({quiet}, {w1}, {TRUE}, 2, 1, 1),
     Of({timed}, {w1}, {TRUE}, 1, 1, 1)}

\* Two tunnels over a reconnect; one, with connections and deletes without force.
Reconnects == {Of({dual, plain}, {w1}, {}, 4, 2, 0), Of({dual}, {w1}, BOOLEAN, 3, 2, 1)}

\* A reconnect between API requests, with a failing Caddy; failing sockets.
Overlapping ==
    [Of({routed}, {w1}, {TRUE}, 2, 2, 1) EXCEPT !.caddyFails = TRUE, !.overlap = TRUE]
Failing == [Of({dual}, {w1}, BOOLEAN, 2, 1, 1) EXCEPT !.socketsFail = TRUE]

All == {Requests, Overlapping, Failing} \cup Timers \cup Reconnects
=============================================================================
