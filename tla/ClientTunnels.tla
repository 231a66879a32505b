--------------------------- MODULE ClientTunnels ---------------------------
(***************************************************************************)
(* The tunnels of one client: the API's create and delete requests, the    *)
(* auto-close and idle-timeout goroutines of each tunnel, the release and  *)
(* re-establishment of tunnels when the agent reconnects, the listeners of *)
(* a tunnel and their connections, its internal proxy and its route in     *)
(* Caddy (server/clients/client_service.go, server/clients/clienttunnel,   *)
(* server/api_handler_clients.go).                                         *)
(*                                                                         *)
(* Tunnel objects are numbered in the order they are allocated: a number   *)
(* stands for a pointer and for the tunnel's id.  A remote stands for a    *)
(* destination with its protocol, ACL and, if it is pinned, local port.    *)
(* Every created tunnel gets a random subdomain, so a route is named by    *)
(* the tunnel it was added for.                                            *)
(***************************************************************************)
EXTENDS Integers, FiniteSets

CONSTANTS
    Remotes,
    Protocols,    \* the sub-protocols of each remote
    Pinned,       \* remotes with a local port of their own; the others get a free one
    Routed,       \* remotes created with an internal proxy and a subdomain
    AutoClose,    \* remotes with an auto-close deadline
    IdleTimeout,  \* remotes with an idle timeout
    Workers,      \* goroutines of API requests
    None,
    MaxTunnels, MaxConns, MaxGen,  \* bounds
    Deployments   \* the deployments considered

\* remotes: the remotes asked for; workers: the API requests at a time; forces:
\* the values of the force parameter in delete requests; tunnels, gens: bounds on
\* the tunnels and the agent's connections; conns: bound on the connections through
\* a tunnel; caddyFails: Caddy may answer with an error, too late or not at all;
\* socketsFail: accepting or receiving may fail; overlap: API requests may overlap
\* a reconnect.
Deployment ==
    [remotes : SUBSET Remotes, workers : SUBSET Workers, forces : SUBSET BOOLEAN,
     tunnels : 1..MaxTunnels, gens : 1..MaxGen, conns : 0..MaxConns,
     caddyFails : BOOLEAN, socketsFail : BOOLEAN, overlap : BOOLEAN]

ASSUME ConstantsAssumption ==
    /\ Protocols \in [Remotes -> {{"tcp"}, {"udp"}, {"tcp", "udp"}}]
    /\ Pinned \subseteq Remotes /\ Routed \subseteq Remotes
    /\ AutoClose \subseteq Remotes /\ IdleTimeout \subseteq Remotes
    /\ MaxTunnels \in Nat /\ MaxConns \in Nat /\ MaxGen \in Nat
    /\ None \notin Remotes \cup Workers \cup Nat
    /\ Deployments \subseteq Deployment

VARIABLES
    deployment,
    gen,      \* the connection the client object holds
    ended,    \* connections whose context is canceled
    tun,      \* tunnel objects
    late,     \* tunnels whose auto-close deadline has passed
    list,     \* client.Tunnels
    routes,   \* tunnels whose subdomain has a route in Caddy
    opLock,   \* tunnelOpLocks of this client
    pc,
    arg,      \* per goroutine: the tunnel or remote in hand, force, the error so far
    old,      \* what a reconnect captured: remote and subdomain of the old tunnels
    todo,     \* remotes it has still to start
    rel,      \* tunnels it has still to release
    panicked, \* a goroutine called a nil function
    torn      \* tunnels whose TCP half refused to stop after CanTerminate had passed

vars == <<deployment, gen, ended, tun, late, list, routes, opLock, pc, arg, old, todo, rel, panicked, torn>>

Overlap == deployment.overlap
CaddyFails == deployment.caddyFails
SocketsFail == deployment.socketsFail

TunnelIds == 1..MaxTunnels
Auto(t) == <<"auto", t>>
Idle(t) == <<"idle", t>>
Reconnect == <<"reconnect", 0>>
Goroutines == {Auto(t) : t \in TunnelIds} \cup {Idle(t) : t \in TunnelIds}
Starters == Workers \cup {Reconnect}
Procs == Starters \cup Goroutines

NoArg == [tunnel |-> None, remote |-> None, url |-> FALSE,
          force |-> TRUE, asked |-> FALSE, err |-> FALSE]
NoTunnel == [remote |-> None, gen |-> 0, tcp |-> "none", udp |-> "none", proxy |-> "none",
             url |-> FALSE, conns |-> 0, stopFn |-> FALSE]

Allocated == {t \in TunnelIds : tun[t].remote # None}

Init ==
    /\ deployment \in Deployments
    /\ gen = 1 /\ ended = {}
    /\ tun = [t \in TunnelIds |-> NoTunnel]
    /\ late = {} /\ list = {}
    /\ routes = {}
    /\ opLock = None
    /\ pc = [p \in Procs |-> "idle"]
    /\ arg = [p \in Procs |-> NoArg]
    /\ old = {} /\ todo = {} /\ rel = {} /\ panicked = FALSE /\ torn = {}

reconnecting == <<old, todo, rel>>
Goto(p, next) == pc' = [pc EXCEPT ![p] = next]

\* The goroutine returns; a request releases tunnelOpLocks.
Finish(p) ==
    /\ Goto(p, "idle")
    /\ arg' = [arg EXCEPT ![p] = NoArg]
    /\ opLock' = IF p \in Workers THEN None ELSE opLock
    /\ old' = IF p = Reconnect THEN {} ELSE old
    /\ todo' = IF p = Reconnect THEN {} ELSE todo
    /\ rel' = rel
-----------------------------------------------------------------------------
(* Contexts, listeners and the connections through a tunnel. *)

\* The context of a tunnel: that of its connection, with its auto-close deadline.
CtxDone(t) == tun[t].gen \in ended \/ t \in late

\* The handler of a connection returns and cancels the context it gave the client.
ContextEnds(g) ==
    /\ g \in 1..gen \ ended
    /\ ended' = ended \cup {g}
    /\ UNCHANGED <<gen, tun, late, list, routes, opLock, pc, arg, reconnecting, panicked, torn, deployment>>

DeadlinePasses(t) ==
    /\ t \in Allocated /\ tun[t].remote \in AutoClose /\ ~CtxDone(t)
    /\ late' = late \cup {t}
    /\ UNCHANGED <<gen, ended, tun, list, routes, opLock, pc, arg, reconnecting, panicked, torn, deployment>>

\* Mutant of ListenerCloses: listen watches the context it was derived from,
\* which stopFn does not cancel.
ClosesOnContext(t) ==
    /\ tun[t].tcp \in {"open", "closing"} /\ CtxDone(t)
    /\ tun' = [tun EXCEPT ![t].tcp = "closed"]
    /\ UNCHANGED <<gen, ended, late, list, routes, opLock, pc, arg, reconnecting, panicked, torn, deployment>>

\* tunnelTCP.listen closes its listener when its context is done; stopFn cancels it.
ListenerCloses(t) ==
    /\ tun[t].tcp = "closing" \/ (tun[t].tcp \in {"open", "deaf"} /\ CtxDone(t))
    /\ tun' = [tun EXCEPT ![t].tcp = "closed"]
    /\ UNCHANGED <<gen, ended, late, list, routes, opLock, pc, arg, reconnecting, panicked, torn, deployment>>

\* Until then it accepts connections ...
Accept(t) ==
    /\ tun[t].tcp \in {"open", "closing"} /\ tun[t].conns < deployment.conns
    /\ tun' = [tun EXCEPT ![t].conns = @ + 1]
    /\ UNCHANGED <<gen, ended, late, list, routes, opLock, pc, arg, reconnecting, panicked, torn, deployment>>

\* ... or gives up on an error, its port still bound.
AcceptFails(t) ==
    /\ SocketsFail /\ tun[t].tcp = "open"
    /\ tun' = [tun EXCEPT ![t].tcp = "deaf"]
    /\ UNCHANGED <<gen, ended, late, list, routes, opLock, pc, arg, reconnecting, panicked, torn, deployment>>

\* A connection ends by itself, or because the context is done.
ConnectionCloses(t) ==
    /\ tun[t].conns > 0
    /\ tun' = [tun EXCEPT ![t].conns = @ - 1]
    /\ UNCHANGED <<gen, ended, late, list, routes, opLock, pc, arg, reconnecting, panicked, torn, deployment>>

\* tunnelUDP.runInbound closes its socket when the context is done, the socket
\* fails or the agent's end of the channel is gone.
InboundEnds(t) ==
    /\ tun[t].udp = "open" /\ (CtxDone(t) \/ SocketsFail)
    /\ tun' = [tun EXCEPT ![t].udp = "closed"]
    /\ UNCHANGED <<gen, ended, late, list, routes, opLock, pc, arg, reconnecting, panicked, torn, deployment>>
-----------------------------------------------------------------------------
(* StartTunnel, for a create request or for a reconnect. *)

TunnelsTo(r) == {t \in list : tun[t].remote = r}

\* Remote.Equals compares local ports too: a free port just taken matches none.
FindTunnelByRemote(r) == IF r \in Pinned THEN TunnelsTo(r) ELSE {}

\* Mutant of PutTunnel: the duplicate checks happen before the lock is taken.
PutUnchecked(w, r) ==
    /\ pc[w] = "idle" /\ opLock = None
    /\ Overlap \/ pc[Reconnect] = "idle"
    /\ opLock' = w
    /\ arg' = [arg EXCEPT ![w].remote = r, ![w].url = r \in Routed]
    /\ Goto(w, "begin")
    /\ UNCHANGED <<gen, ended, tun, late, list, routes, reconnecting, panicked, torn, deployment>>

\* handlePutClientTunnel under the lock, once its duplicate checks have passed.
PutTunnel(w, r) ==
    /\ pc[w] = "idle" /\ opLock = None
    /\ Overlap \/ pc[Reconnect] = "idle"
    /\ TunnelsTo(r) = {}
    /\ opLock' = w
    /\ arg' = [arg EXCEPT ![w].remote = r, ![w].url = r \in Routed]
    /\ Goto(w, "begin")
    /\ UNCHANGED <<gen, ended, tun, late, list, routes, reconnecting, panicked, torn, deployment>>

\* Mutant of NextTunnel: the first tunnel ends the loop.
NextDropsRest ==
    /\ pc[Reconnect] = "next"
    /\ \E r \in todo : arg' = [arg EXCEPT ![Reconnect].remote = r, ![Reconnect].url = FALSE]
    /\ todo' = {}
    /\ Goto(Reconnect, "begin")
    /\ UNCHANGED <<gen, ended, tun, late, list, routes, opLock, old, rel, panicked, torn, deployment>>

\* The next remote in a reconnect's startClientTunnels; sanitizeAgentRemotes has
\* cleared the subdomain of all of them.
NextTunnel ==
    /\ pc[Reconnect] = "next"
    /\ \E r \in todo :
         /\ arg' = [arg EXCEPT ![Reconnect].remote = r, ![Reconnect].url = FALSE]
         /\ todo' = todo \ {r}
    /\ Goto(Reconnect, "begin")
    /\ UNCHANGED <<gen, ended, tun, late, list, routes, opLock, old, rel, panicked, torn, deployment>>

\* What a starter does after one tunnel: a request answers, a reconnect goes on.
StartedOne(p) ==
    IF p = Reconnect
    THEN /\ Goto(p, "next")
         /\ arg' = [arg EXCEPT ![p] = NoArg]
         /\ UNCHANGED <<opLock, reconnecting>>
    ELSE Finish(p)

TunnelExists(p) ==
    /\ pc[p] = "begin" /\ FindTunnelByRemote(arg[p].remote) # {}
    /\ StartedOne(p)
    /\ UNCHANGED <<gen, ended, tun, late, list, routes, panicked, torn, deployment>>

\* The tunnel's context is derived from the client's of this moment; the
\* deadline counts from here.
BeginTunnel(p) ==
    LET t == Cardinality(Allocated) + 1 IN
    /\ pc[p] = "begin" /\ FindTunnelByRemote(arg[p].remote) = {}
    /\ t <= deployment.tunnels
    /\ tun' = [tun EXCEPT ![t].remote = arg[p].remote, ![t].url = arg[p].url, ![t].gen = gen]
    /\ arg' = [arg EXCEPT ![p].tunnel = t]
    /\ Goto(p, "start")
    /\ UNCHANGED <<gen, ended, late, list, routes, opLock, reconnecting, panicked, torn, deployment>>

\* What is bound to the local port: the proxy if there is one, which leaves
\* the tunnel behind it a free port.
Listening(t) == tun[t].tcp \in {"open", "closing"} \/ tun[t].udp = "open"
Bound(t) ==
    IF tun[t].remote \in Routed THEN tun[t].proxy = "up" ELSE Listening(t) \/ tun[t].tcp = "deaf"
PortFree(r) == r \in Pinned => \A t \in Allocated : tun[t].remote = r => ~Bound(t)

\* Tunnel.Start binds every protocol; InternalTunnelProxy.Start follows.
Start(p) ==
    LET t == arg[p].tunnel
        r == tun[t].remote
        bound(proto) == IF proto \in Protocols[r] THEN "open" ELSE "none"
    IN
    /\ pc[p] = "start" /\ PortFree(r)
    /\ tun' = [tun EXCEPT ![t].tcp = bound("tcp"), ![t].udp = bound("udp"),
                          ![t].stopFn = "tcp" \in Protocols[r],
                          ![t].proxy = IF r \in Routed THEN "up" ELSE "none"]
    /\ Goto(p, IF tun[t].url THEN "route" ELSE "spawn")
    /\ UNCHANGED <<gen, ended, late, list, routes, opLock, arg, reconnecting, panicked, torn, deployment>>

\* No port is free, a port is taken, or the agent refuses the UDP channel: what
\* was bound is released again, and the error ends the request or the reconnect.
StartFails(p) ==
    /\ pc[p] \in {"begin", "start"}
    /\ Finish(p)
    /\ UNCHANGED <<gen, ended, tun, late, list, routes, panicked, torn, deployment>>

\* startCaddyDownstreamProxy, in the tunnel's context.
AddRoute(p) ==
    LET t == arg[p].tunnel IN
    /\ pc[p] = "route" /\ ~CtxDone(t)
    /\ routes' = routes \cup {t}
    /\ Goto(p, "spawn")
    /\ UNCHANGED <<gen, ended, tun, late, list, opLock, arg, reconnecting, panicked, torn, deployment>>

\* The proxy is stopped; the tunnel behind it is not, and a route that Caddy has
\* added without its answer arriving stays.
AddRouteFails(p) ==
    LET t == arg[p].tunnel IN
    /\ pc[p] = "route"
    /\ \/ CtxDone(t) /\ UNCHANGED routes
       \/ CaddyFails /\ routes' \in {routes, routes \cup {t}}
    /\ tun' = [tun EXCEPT ![t].proxy = "stopped"]
    /\ Finish(p)
    /\ UNCHANGED <<gen, ended, late, list, panicked, torn, deployment>>

\* The goroutines of the tunnel start before it is listed.
Spawn(p) ==
    LET t == arg[p].tunnel IN
    /\ pc[p] = "spawn"
    /\ pc' = [q \in Procs |->
                CASE q = p -> "list"
                  [] q = Auto(t) /\ tun[t].remote \in AutoClose -> "waiting"
                  [] q = Idle(t) /\ tun[t].remote \in IdleTimeout -> "timer"
                  [] OTHER -> pc[q]]
    /\ UNCHANGED <<gen, ended, tun, late, list, routes, opLock, arg, reconnecting, panicked, torn, deployment>>

AddTunnel(p) ==
    /\ pc[p] = "list"
    /\ list' = list \cup {arg[p].tunnel}
    /\ StartedOne(p)
    /\ UNCHANGED <<gen, ended, tun, late, routes, panicked, torn, deployment>>
-----------------------------------------------------------------------------
(* Terminate, and what its three callers do after it. *)

\* Mutant of DeleteTunnel: MultiProtocolTunnel runs straight through its protocols.
DeleteStraight(w, t, force) ==
    /\ pc[w] = "idle" /\ opLock = None /\ t \in list
    /\ Overlap \/ pc[Reconnect] = "idle"
    /\ opLock' = w
    /\ arg' = [arg EXCEPT ![w].tunnel = t, ![w].force = force]
    /\ Goto(w, "terminate")
    /\ UNCHANGED <<gen, ended, tun, late, list, routes, reconnecting, panicked, torn, deployment>>

\* handleDeleteClientTunnel under the lock; MultiProtocolTunnel asks every
\* protocol before it stops any of them.
DeleteTunnel(w, t, force) ==
    /\ pc[w] = "idle" /\ opLock = None /\ t \in list
    /\ Overlap \/ pc[Reconnect] = "idle"
    /\ opLock' = w
    /\ arg' = [arg EXCEPT ![w].tunnel = t, ![w].force = force]
    /\ Goto(w, IF Protocols[tun[t].remote] = {"tcp", "udp"} THEN "ask" ELSE "terminate")
    /\ UNCHANGED <<gen, ended, tun, late, list, routes, reconnecting, panicked, torn, deployment>>

\* tunnelTCP.CanTerminate; a UDP tunnel always can.
CanTerminate(t, force) == force \/ tun[t].conns = 0

Ask(p) ==
    /\ pc[p] = "ask"
    /\ IF CanTerminate(arg[p].tunnel, arg[p].force)
       THEN /\ Goto(p, "terminate")
            /\ arg' = [arg EXCEPT ![p].asked = TRUE]
            /\ UNCHANGED <<opLock, reconnecting>>
       ELSE Finish(p)
    /\ UNCHANGED <<gen, ended, tun, late, list, routes, panicked, torn, deployment>>

\* tunnelTCP.Terminate: its checks ...
TerminateTCP(p) ==
    LET t == arg[p].tunnel
        can == CanTerminate(t, arg[p].force)
    IN
    /\ pc[p] = "terminate"
    /\ arg' = [arg EXCEPT ![p].err = "tcp" \in Protocols[tun[t].remote] /\ ~can]
    /\ Goto(p, IF can /\ tun[t].stopFn THEN "stop" ELSE "udp")
    /\ UNCHANGED <<gen, ended, tun, late, list, routes, opLock, reconnecting, panicked, torn, deployment>>

\* ... the call of stopFn, nil if another call has reset it since ...
StopFn(p) ==
    LET t == arg[p].tunnel IN
    /\ pc[p] = "stop"
    /\ panicked' = (panicked \/ ~tun[t].stopFn)
    /\ tun' = [tun EXCEPT ![t].tcp = CASE @ = "open" -> "closing"
                                       [] @ = "deaf" -> "closed"
                                       [] OTHER -> @]
    /\ Goto(p, "wait")
    /\ UNCHANGED <<gen, ended, late, list, routes, opLock, arg, reconnecting, torn, deployment>>

\* ... and its reset once the accepting loop and the connections are gone.
Stopped(p) ==
    LET t == arg[p].tunnel IN
    /\ pc[p] = "wait" /\ tun[t].tcp = "closed" /\ tun[t].conns = 0
    /\ tun' = [tun EXCEPT ![t].stopFn = FALSE]
    /\ Goto(p, "udp")
    /\ UNCHANGED <<gen, ended, late, list, routes, opLock, arg, reconnecting, panicked, torn, deployment>>

\* tunnelUDP.Terminate closes whatever the TCP half answered; its error is returned.
TerminateUDP(p) ==
    LET t == arg[p].tunnel IN
    /\ pc[p] = "udp"
    /\ tun' = [tun EXCEPT ![t].udp = IF @ = "open" THEN "closed" ELSE @]
    /\ torn' = IF arg[p].err /\ arg[p].asked THEN torn \cup {t} ELSE torn
    /\ IF arg[p].err
       THEN Finish(p)
       ELSE /\ Goto(p, IF p \in Goroutines THEN "owns" ELSE "proxy")
            /\ UNCHANGED <<arg, opLock, reconnecting>>
    /\ UNCHANGED <<gen, ended, late, list, routes, panicked, deployment>>

\* cleanupAfterAutoClose skips a tunnel the client does not own.
CheckOwned(p) ==
    /\ pc[p] = "owns"
    /\ IF arg[p].tunnel \in list
       THEN Goto(p, "proxy") /\ UNCHANGED <<arg, opLock, reconnecting>>
       ELSE Finish(p)
    /\ UNCHANGED <<gen, ended, tun, late, list, routes, panicked, torn, deployment>>

\* InternalTunnelProxy.Stop closes the listener whatever its context.
StopProxy(p) ==
    LET t == arg[p].tunnel IN
    /\ pc[p] = "proxy"
    /\ tun' = [tun EXCEPT ![t].proxy = IF @ = "up" THEN "stopped" ELSE @]
    /\ Goto(p, IF tun[t].proxy # "none" /\ tun[t].url THEN "unroute" ELSE "unlist")
    /\ UNCHANGED <<gen, ended, late, list, routes, opLock, arg, reconnecting, panicked, torn, deployment>>

\* removeCaddyDownstreamProxy, in the client's context of this moment; its
\* error is ignored.
RemoveRoute(p) ==
    /\ pc[p] = "unroute"
    /\ \/ gen \notin ended /\ routes' = routes \ {arg[p].tunnel}
       \/ (gen \in ended \/ CaddyFails) /\ UNCHANGED routes
    /\ Goto(p, "unlist")
    /\ UNCHANGED <<gen, ended, tun, late, list, opLock, arg, reconnecting, panicked, torn, deployment>>

\* RemoveTunnelByID; releaseTunnelsForReconnect leaves the list alone.
RemoveTunnel(p) ==
    /\ pc[p] = "unlist"
    /\ IF p = Reconnect
       THEN /\ Goto(p, "release")
            /\ arg' = [arg EXCEPT ![p] = NoArg]
            /\ UNCHANGED <<list, opLock, reconnecting>>
       ELSE list' = list \ {arg[p].tunnel} /\ Finish(p)
    /\ UNCHANGED <<gen, ended, tun, late, routes, panicked, torn, deployment>>
-----------------------------------------------------------------------------
(* The goroutines of a tunnel. *)

\* cleanupOnAutoCloseDeadlineExceeded: there is nothing to do when the
\* connection went before the deadline.
AutoCloses(t) ==
    LET p == Auto(t) IN
    /\ pc[p] = "waiting" /\ CtxDone(t)
    /\ arg' = [arg EXCEPT ![p].tunnel = IF t \in late THEN t ELSE None]
    /\ Goto(p, IF t \in late THEN "owns" ELSE "idle")
    /\ UNCHANGED <<gen, ended, tun, late, list, routes, opLock, reconnecting, panicked, torn, deployment>>

\* terminateTunnelOnIdleTimeout: the timer fires and nothing was active.
IdleFires(t) ==
    LET p == Idle(t) IN
    /\ pc[p] = "timer" /\ tun[t].conns = 0
    /\ arg' = [arg EXCEPT ![p].tunnel = t]
    /\ Goto(p, "terminate")
    /\ UNCHANGED <<gen, ended, tun, late, list, routes, opLock, reconnecting, panicked, torn, deployment>>

IdleEnds(t) ==
    /\ pc[Idle(t)] = "timer" /\ CtxDone(t)
    /\ Goto(Idle(t), "idle")
    /\ UNCHANGED <<gen, ended, tun, late, list, routes, opLock, arg, reconnecting, panicked, torn, deployment>>
-----------------------------------------------------------------------------
(* StartClient for a known client, under startLocks. *)

\* getTunnelsToReestablish, for an agent that asks for no tunnels of its own,
\* and excludeNotAllowedTunnels; then releaseTunnelsForReconnect takes the list.
ReconnectBegins ==
    /\ pc[Reconnect] = "idle" /\ gen < deployment.gens
    /\ Overlap \/ opLock = None
    /\ \E allowed \in SUBSET list :
         old' = {[remote |-> tun[t].remote, url |-> tun[t].url] : t \in allowed}
    /\ todo' = {o.remote : o \in old'}
    /\ Goto(Reconnect, "capture")
    /\ UNCHANGED <<gen, ended, tun, late, list, routes, opLock, arg, rel, panicked, torn, deployment>>

ReleaseBegins ==
    /\ pc[Reconnect] = "capture"
    /\ rel' = list
    /\ Goto(Reconnect, "release")
    /\ UNCHANGED <<gen, ended, tun, late, list, routes, opLock, arg, old, todo, panicked, torn, deployment>>

Release(t) ==
    /\ pc[Reconnect] = "release" /\ t \in rel
    /\ rel' = rel \ {t}
    /\ arg' = [arg EXCEPT ![Reconnect].tunnel = t]
    /\ Goto(Reconnect, "terminate")
    /\ UNCHANGED <<gen, ended, tun, late, list, routes, opLock, old, todo, panicked, torn, deployment>>

\* NewClientFromConnRequest: connection, context and an empty list at once.
TakeOver ==
    /\ pc[Reconnect] = "release" /\ rel = {}
    /\ gen' = gen + 1 /\ list' = {}
    /\ Goto(Reconnect, "next")
    /\ UNCHANGED <<ended, tun, late, routes, opLock, arg, reconnecting, panicked, torn, deployment>>

ReconnectDone ==
    /\ pc[Reconnect] = "next" /\ todo = {}
    /\ Finish(Reconnect)
    /\ UNCHANGED <<gen, ended, tun, late, list, routes, panicked, torn, deployment>>
-----------------------------------------------------------------------------
Traffic(t) ==
    \/ DeadlinePasses(t) \/ ListenerCloses(t) \/ Accept(t) \/ AcceptFails(t)
    \/ ConnectionCloses(t) \/ InboundEnds(t)

StartTunnel(p) ==
    \/ TunnelExists(p) \/ BeginTunnel(p) \/ Start(p) \/ StartFails(p)
    \/ AddRoute(p) \/ AddRouteFails(p) \/ Spawn(p) \/ AddTunnel(p)

TerminateTunnel(p) ==
    \/ Ask(p) \/ TerminateTCP(p) \/ StopFn(p) \/ Stopped(p) \/ TerminateUDP(p)
    \/ CheckOwned(p) \/ StopProxy(p) \/ RemoveRoute(p) \/ RemoveTunnel(p)

StartClient ==
    \/ ReconnectBegins \/ ReleaseBegins \/ \E t \in TunnelIds : Release(t)
    \/ TakeOver \/ NextTunnel \/ ReconnectDone

Next ==
    \/ \E g \in 1..MaxGen : ContextEnds(g)
    \/ \E t \in TunnelIds : Traffic(t) \/ AutoCloses(t) \/ IdleFires(t) \/ IdleEnds(t)
    \/ \E w \in deployment.workers, r \in deployment.remotes : PutTunnel(w, r)
    \/ \E w \in deployment.workers, t \in TunnelIds, force \in deployment.forces :
         DeleteTunnel(w, t, force)
    \/ \E p \in Starters : StartTunnel(p)
    \/ \E p \in Procs : TerminateTunnel(p)
    \/ StartClient

Spec == Init /\ [][Next]_vars

\* A request's goroutine runs until it answers; a canceled listener closes, and
\* so do its connections.
Fairness ==
    /\ \A w \in Workers : WF_vars(StartTunnel(w)) /\ WF_vars(TerminateTunnel(w))
    /\ \A t \in TunnelIds :
         /\ WF_vars(ListenerCloses(t))
         /\ WF_vars(tun[t].tcp = "closed" /\ ConnectionCloses(t))
         /\ WF_vars(AutoCloses(t)) /\ WF_vars(TerminateTunnel(Auto(t)))

FairSpec == Spec /\ Fairness
-----------------------------------------------------------------------------
TunnelType ==
    [remote : Remotes \cup {None}, gen : 0..MaxGen, url : BOOLEAN,
     tcp : {"none", "open", "deaf", "closing", "closed"}, udp : {"none", "open", "closed"},
     proxy : {"none", "up", "stopped"}, conns : 0..MaxConns, stopFn : BOOLEAN]
Labels == {"idle", "begin", "start", "route", "spawn", "list", "ask", "terminate", "stop",
           "wait", "udp", "owns", "proxy", "unroute", "unlist", "waiting", "timer",
           "capture", "release", "next"}

\* The values the tunnel state ranges over.
TypeOK ==
    /\ deployment \in Deployments
    /\ gen \in 1..MaxGen /\ ended \subseteq 1..gen
    /\ tun \in [TunnelIds -> TunnelType]
    /\ late \subseteq TunnelIds /\ list \subseteq Allocated /\ routes \subseteq TunnelIds
    /\ opLock \in Workers \cup {None}
    /\ pc \in [Procs -> Labels]
    /\ arg \in [Procs -> [tunnel : TunnelIds \cup {None}, remote : Remotes \cup {None},
                          url : BOOLEAN, force : BOOLEAN, asked : BOOLEAN, err : BOOLEAN]]
    /\ old \subseteq [remote : Remotes, url : BOOLEAN]
    /\ todo \subseteq Remotes /\ rel \subseteq TunnelIds /\ panicked \in BOOLEAN /\ torn \subseteq TunnelIds

InHand(t) == \E p \in Procs : arg[p].tunnel = t

\* The list of a client's tunnels, their listeners and their routes agree, all of
\* their types.
\* No two listed tunnels lead to the same remote while requests and reconnects
\* take turns: the duplicate checks of handlePutClientTunnel and the append in
\* StartTunnel are one critical section.
\* As long as Caddy answers, in time and without an error:
\* A tunnel that still listens in a live context is listed, so that it can be
\* found and deleted, or some goroutine is busy with it: no path through
\* StartTunnel and Terminate leaves a listener behind.
\* While the connection of a tunnel lasts, its route in Caddy does not outlive
\* the tunnel: every way to end one removes the route first.
TunnelsListed ==
    /\ TypeOK
    /\ ~Overlap => \A t, u \in list : tun[t].remote = tun[u].remote => t = u
    /\ ~CaddyFails => \A t \in Allocated : Listening(t) /\ ~CtxDone(t) => t \in list \/ InHand(t)
    /\ ~CaddyFails => \A t \in routes : tun[t].gen \notin ended => t \in list \/ InHand(t)

\* What a delete leaves of a tunnel, as long as no socket fails. A listed tunnel
\* nobody is busy with has both of its protocols, or neither, or its TCP half
\* alone after that has refused a delete without force that CanTerminate had let
\* pass: a connection accepted in between is the only way to lose one half, in
\* spite of "stops every protocol, or none of them" (tunnel.go:58).
\* tunnelTCP.Terminate never calls the stopFn another call has reset, where only
\* API requests, one at a time, and a reconnect between them terminate tunnels;
\* the goroutine of an idle timeout can do so next to a request.
TerminateWhole ==
    /\ ~SocketsFail => \A t \in list :
          Protocols[tun[t].remote] = {"tcp", "udp"} /\ ~InHand(t) /\ ~CtxDone(t)
              => \/ tun[t].tcp = "open" <=> tun[t].udp = "open"
                 \/ tun[t].tcp = "open" /\ t \in torn
    /\ ~Overlap /\ deployment.remotes \cap IdleTimeout = {} => ~panicked

\* When a reconnect completes, each tunnel without a subdomain it captured is
\* listed again, on the new connection, and listens as long as its context lasts
\* and its sockets do not fail.
TunnelsSurvive ==
    [][pc[Reconnect] = "next" /\ todo = {} /\ pc'[Reconnect] = "idle" =>
         \A o \in old : ~o.url => \E t \in list :
             /\ tun[t].remote = o.remote /\ ~tun[t].url /\ tun[t].gen = gen
             /\ Listening(t) \/ CtxDone(t) \/ SocketsFail]_vars

\* Every create and delete request answers and releases tunnelOpLocks, also one
\* that waits for the connections of a listener.
RequestsFinish == opLock # None ~> opLock = None

=============================================================================
