---------------------------- MODULE TunnelOrders ----------------------------
(* What becomes of an ordered tunnel: the query of a create request, read option  *)
(* by option into a remote, the questions to the agent, the duplicate checks, the  *)
(* ports it gets with or without a proxy in front of it, and what is left of it    *)
(* when the agent connects again, also after a restart of the server.             *)
(*   mem.tunnels  the client's tunnels, db.tunnels what is saved of them;          *)
(*   mem.policy   the destinations the agent's tunnel_allowed setting admits;      *)
(*   mem.lock     the request that holds the client's lock on tunnel operations.   *)
EXTENDS Service

LOCAL INSTANCE SequencesExt
LOCAL INSTANCE FiniteSetsExt

(* ---- a remote ------------------------------------------------------------------------- *)
(* The text is cut at its colons; a part is a port, a host, or neither, as is the  *)
(* last one with a protocol behind it that there is not.                          *)
TakePart(p, r) ==
    CASE p.kind = "port" -> IF r.rport = "" THEN [r EXCEPT !.rport = p.text] ELSE [r EXCEPT !.lport = p.text]
      [] p.kind # "port" /\ (p.kind = "junk" \/ r.rport = "") -> [r EXCEPT !.ok = FALSE]
      [] OTHER -> IF r.rhost = "" THEN [r EXCEPT !.rhost = p.text] ELSE [r EXCEPT !.lhost = p.text]

NewRemote(parts) ==
    LET r == FoldRight(TakePart, parts, [ok |-> TRUE, lhost |-> "", lport |-> "", rhost |-> "", rport |-> ""])
    IN  [r EXCEPT !.ok = @ /\ Len(parts) \in 1..4,
                  !.lhost = IF @ = "" /\ r.lport # "" THEN "0.0.0.0" ELSE @,
                  !.rhost = IF @ = "" THEN "127.0.0.1" ELSE @]

IsLocalSpecified(r) == r.lhost # "" /\ r.lport # ""
Destination(r) == <<r.rhost, r.rport>>
RemoteText(r) == <<r.lhost, r.lport, r.rhost, r.rport, r.protocol, r.acl>>
IsProtocol(a, b) == a = b \/ (a = "tcp+udp" /\ b \in {"tcp", "udp"}) \/ (b = "tcp+udp" /\ a \in {"tcp", "udp"})

(* ---- the query of a create request ------------------------------------------------------ *)
SchemeSupportsHTTPProxy(scheme) == scheme \in {"http", "https", "vnc", "rdp"}
HTTPProxy(q) == q.http_proxy = "true"

setTunnelProxyOptionsForRemote(q) ==
    /\ q.http_proxy # "junk"
    /\ HTTPProxy(q) => /\ setup.proxy
                       /\ q.scheme # "" => SchemeSupportsHTTPProxy(q.scheme)
                       /\ IsProtocol(q.protocol, "tcp")
    /\ q.host_header # "" => HTTPProxy(q)
    /\ q.skip_tls_verify # "junk" /\ (q.skip_tls_verify = "true" => HTTPProxy(q))

checkInsecureHTTPTunnelAllowed(q) == q.scheme # "http" \/ HTTPProxy(q) \/ q.allow_insecure_http

(* The credential of the body, if it has one, else that of the query.             *)
tunnelAuthFromBody(q) == IF q.body.json /\ (q.body.user # "" \/ q.body.password # "") THEN q.body ELSE q.auth
setAuthOptionsForRemote(q) ==
    LET a == tunnelAuthFromBody(q)
    IN  q.body.decodes /\ ((a.user # "" \/ a.password # "") => HTTPProxy(q) /\ a.user # "" /\ a.password # "")

(* Durations are counted in units of ten seconds and wrap at DurationWidth bits,   *)
(* far above the largest timeout, as those of the code do at 64.                   *)
DurationWidth == 17
Minute == 6
Wrapped(d) == ((d + 2^(DurationWidth - 1)) % 2^DurationWidth) - 2^(DurationWidth - 1)
idleTimeoutDefault == 5 * Minute
idleTimeoutMax == 7 * 24 * 60 * Minute

(* What is no number is refused like a negative one.                              *)
ResolveIdleTunnelTimeoutValue(minutes, skip) ==
    CASE skip -> [ok |-> minutes = <<>>, d |-> 0]
      [] ~skip /\ minutes = <<>> -> [ok |-> TRUE, d |-> idleTimeoutDefault]
      [] OTHER -> LET d == Wrapped(minutes[1] * Minute) IN [ok |-> 0 <= d /\ d <= idleTimeoutMax, d |-> d]

tunnelAutoCloseMax == 31 * 24 * 60 * Minute
ResolveTunnelAutoCloseValue(auto) == [ok |-> auto = <<>> \/ (0 <= auto[1] /\ auto[1] <= tunnelAutoCloseMax), d |-> IF auto = <<>> THEN 0 ELSE auto[1]]

setAutoCloseIdleOptionsForRemote(q) ==
    ResolveIdleTunnelTimeoutValue(q.idle_timeout_minutes, q.skip_idle_timeout).ok /\ ResolveTunnelAutoCloseValue(q.auto_close).ok

Readable(q) ==
    /\ NewRemote(q.parts).ok /\ q.scheme # "too long"
    /\ setTunnelProxyOptionsForRemote(q) /\ checkInsecureHTTPTunnelAllowed(q)
    /\ setAuthOptionsForRemote(q) /\ setAutoCloseIdleOptionsForRemote(q) /\ q.acl # "junk"

Ordered(q, caddy) ==
    NewRemote(q.parts) @@
    [protocol |-> q.protocol, random |-> FALSE, scheme |-> q.scheme, acl |-> q.acl, proxy |-> HTTPProxy(q), header |-> q.host_header,
     skip |-> q.skip_tls_verify = "true", url |-> HTTPProxy(q) /\ caddy, auth |-> tunnelAuthFromBody(q).user, owner |-> q.user,
     idle |-> ResolveIdleTunnelTimeoutValue(q.idle_timeout_minutes, q.skip_idle_timeout).d \div Minute,
     autoClose |-> ResolveTunnelAutoCloseValue(q.auto_close).d, inner |-> ""]

(* ---- the ports of a tunnel ---------------------------------------------------------------- *)
Ports == {"1", "2", "3"}
Carried(protocol) == IF protocol = "tcp+udp" THEN {"tcp", "udp"} ELSE {protocol}
(* What a tunnel listens on: behind a proxy, which speaks TCP only, its inner port. *)
BoundBy(t) == IF t.inner = "" THEN Carried(t.protocol) \X {t.lport} ELSE (Carried(t.protocol) \X {t.inner}) \cup {<<"tcp", t.lport>>}
FreePorts(protocol) == {port \in Ports : \A i \in DOMAIN mem.tunnels : (Carried(protocol) \X {port}) \cap BoundBy(mem.tunnels[i]) = {}}

(* The inner tunnel gets a port of its own; the proxy takes the place of the       *)
(* remote, which is why its port is reserved first.                               *)
startTunnelWithProxy(r) == {[r EXCEPT !.inner = port] : port \in FreePorts(r.protocol) \ {r.lport}}
startRegularTunnel(r) == {r}

startClientTunnels(r) ==
    LET local == IF IsLocalSpecified(r) THEN {r} ELSE {[r EXCEPT !.lhost = "0.0.0.0", !.lport = port, !.random = TRUE] : port \in FreePorts(r.protocol)}
    IN  UNION {IF l.proxy /\ setup.proxy THEN startTunnelWithProxy(l) ELSE startRegularTunnel(l) : l \in {l \in local : l.lport \in FreePorts(r.protocol)}}

Listed(r) == \E i \in DOMAIN mem.tunnels : RemoteText(mem.tunnels[i]) = RemoteText(r)

(* ---- a create request --------------------------------------------------------------------- *)
OrdersAt(r, pc) == Serves("orders") /\ reqs[r].pc = pc
NoLock == "none"
ReturnUnlocked(r) == Return(r) /\ mem' = [mem EXCEPT !.lock = NoLock]

TunnelOrdersInit(deployments) ==
    /\ Started(deployments)
    /\ mem = [tunnels |-> <<>>, lock |-> NoLock, policy |-> setup.policy, connected |-> FALSE]
    /\ db = [tunnels |-> <<>>]
    /\ ghost = [agent |-> <<>>, orders |-> {}, last |-> <<>>, unsaved |-> FALSE]

handlePutClientTunnel(r) ==
    /\ Arrives("orders", r, "put")
    /\ \E q \in setup.queries :
         Becomes(r, IF mem.connected /\ ~setup.paused /\ Readable(q) THEN [pc |-> "allowed", q |-> q, remote |-> Ordered(q, setup.caddy)] ELSE Idle)
    /\ UNCHANGED <<db, mem, ghost>>

(* An agent that does not know the question admits everything.                    *)
DestinationAllowed(r) == ~setup.asks \/ Destination(r) \in mem.policy
AskAllowed(r) ==
    /\ OrdersAt(r, "allowed")
    /\ IF mem.connected /\ DestinationAllowed(reqs[r].remote) THEN Goto(r, "lock") ELSE Return(r)
    /\ Quiet /\ UNCHANGED <<db, mem, ghost>>

(* Mutant of ToPort: protocols are compared as they are.                            *)
ToPortExactly(r) ==
    \E i \in DOMAIN mem.tunnels :
       LET t == mem.tunnels[i]
       IN  Destination(t) = Destination(r) /\ t.protocol = r.protocol /\ t.acl = r.acl

(* A tunnel to the same port for one of its protocols.                             *)
ToPort(r) ==
    \E i \in DOMAIN mem.tunnels :
       LET t == mem.tunnels[i]
       IN  Destination(t) = Destination(r) /\ IsProtocol(t.protocol, r.protocol) /\ t.acl = r.acl
LockTunnelOps(r) ==
    /\ OrdersAt(r, "lock") /\ mem.lock = NoLock
    /\ LET remote == reqs[r].remote
       IN  IF Listed(remote) \/ ToPort(remote) THEN Return(r) /\ UNCHANGED mem
           ELSE /\ Goto(r, IF reqs[r].q.check_port /\ IsProtocol(remote.protocol, "tcp") THEN "check" ELSE "start")
                /\ mem' = [mem EXCEPT !.lock = r]
    /\ Quiet /\ UNCHANGED <<db, ghost>>

checkRemotePort(r) ==
    /\ OrdersAt(r, "check")
    /\ \E open \in BOOLEAN :
         IF open /\ mem.connected THEN Goto(r, "start") /\ UNCHANGED mem ELSE ReturnUnlocked(r)
    /\ Quiet /\ UNCHANGED <<db, ghost>>

StartOrdered(r) ==
    /\ OrdersAt(r, "start")
    /\ IF startClientTunnels(reqs[r].remote) = {} \/ ~mem.connected THEN ReturnUnlocked(r) /\ UNCHANGED ghost
       ELSE \E t \in startClientTunnels(reqs[r].remote) :
              /\ mem' = [mem EXCEPT !.tunnels = Append(@, t)]
              /\ ghost' = [ghost EXCEPT !.orders = @ \cup {t}]
              /\ Goto(r, "save")
    /\ Quiet /\ UNCHANGED db

SaveClient(r) ==
    /\ OrdersAt(r, "save")
    /\ db' = [tunnels |-> mem.tunnels] /\ ghost' = [ghost EXCEPT !.unsaved = FALSE]
    /\ ReturnUnlocked(r)
    /\ Quiet

(* The answer is an error, the tunnel is there.                                   *)
SaveClientFails(r) ==
    /\ OrdersAt(r, "save") /\ Fault("orders", "disk")
    /\ ghost' = [ghost EXCEPT !.unsaved = TRUE]
    /\ ReturnUnlocked(r)
    /\ UNCHANGED db

(* A port that is taken meanwhile: the tunnel does not start.                      *)
StartOrderedFails(r) ==
    /\ OrdersAt(r, "start") /\ Fault("orders", "bind")
    /\ ReturnUnlocked(r)
    /\ UNCHANGED <<db, ghost>>

(* ---- the agent connects again --------------------------------------------------------------- *)
(* The agent's remotes are found again among the old tunnels, those with a local   *)
(* port first; each takes the first old one that fits and is not taken.            *)
TakesFirst(acc, fitting) == IF fitting = {} THEN [acc EXCEPT !.ok = FALSE] ELSE [acc EXCEPT !.taken = @ \cup {Min(fitting)}]

getTunnelsToReestablish(old, new) ==
    LET left(acc) == DOMAIN old \ acc.taken
        pinned(acc, n) == IF ~IsLocalSpecified(n) THEN acc
                          ELSE TakesFirst(acc, {i \in left(acc) : RemoteText(n) = RemoteText(old[i])})
        free(acc, n) == IF IsLocalSpecified(n) THEN acc
                        ELSE TakesFirst(acc, {i \in left(acc) : old[i].random /\ Destination(n) = Destination(old[i]) /\ n.acl = old[i].acl})
        found == FoldLeft(free, FoldLeft(pinned, [ok |-> TRUE, taken |-> {}], new), new)
        again(i) == IF old[i].random THEN [old[i] EXCEPT !.lhost = "", !.lport = "", !.inner = ""] ELSE [old[i] EXCEPT !.inner = ""]
    IN  IF Len(new) > Len(old) \/ ~found.ok THEN <<>>
        ELSE [j \in 1..Cardinality(left(found)) |-> again(SetToSortSeq(left(found), <)[j])]

excludeNotAllowedTunnels(old) == IF setup.asks THEN SelectSeq(old, DestinationAllowed) ELSE old

(* Meant for what an agent asks for, but the old tunnels pass through it too.      *)
sanitizeAgentRemotes(remotes) == [i \in DOMAIN remotes |-> [remotes[i] EXCEPT !.url = FALSE, !.skip = FALSE, !.auth = "", !.owner = ""]]

Connecting(r) == reqs[r].pc \in {"filter", "tunnels"}

(* StartClient, which is serialized for a client: the list is read, and the agent   *)
(* is asked about every old tunnel of it.                                          *)
StartClient(r) ==
    /\ \A s \in Reqs : ~Connecting(s)
    /\ Arrives("orders", r, "connect")
    /\ \E new \in setup.agents :
         Becomes(r, [pc |-> "filter", old |-> getTunnelsToReestablish(mem.tunnels, new), new |-> new, was |-> mem.tunnels, same |-> ghost.agent = <<new>>])
    /\ UNCHANGED <<db, mem, ghost>>

(* Then the old tunnels are released, those ordered meanwhile too, and the list     *)
(* starts anew.                                                                    *)
releaseTunnelsForReconnect(r) ==
    /\ OrdersAt(r, "filter")
    /\ Becomes(r, [pc |-> "tunnels", todo |-> sanitizeAgentRemotes(reqs[r].new \o excludeNotAllowedTunnels(reqs[r].old))] @@ Restrict(reqs[r], {"new", "was", "same"}))
    /\ mem' = [mem EXCEPT !.tunnels = <<>>, !.connected = TRUE]
    /\ ghost' = [ghost EXCEPT !.agent = <<>>]
    /\ Quiet /\ UNCHANGED db

(* The agent does not answer about an old tunnel: it is refused, with the list and  *)
(* what listens as they were.                                                      *)
ExcludeFails(r) ==
    /\ OrdersAt(r, "filter") /\ setup.asks /\ reqs[r].old # <<>>
    /\ Fault("orders", "drop")
    /\ Return(r)
    /\ UNCHANGED <<db, mem, ghost>>

StartNext(r) ==
    /\ OrdersAt(r, "tunnels") /\ reqs[r].todo # <<>>
    /\ LET starts == startClientTunnels(Head(reqs[r].todo))
       IN  IF starts = {} \/ ~mem.connected THEN mem' = [mem EXCEPT !.connected = FALSE] /\ Return(r)
           ELSE /\ \E t \in starts : mem' = [mem EXCEPT !.tunnels = Append(@, t)]
                /\ reqs' = [reqs EXCEPT ![r].todo = Tail(@)]
    /\ Quiet /\ UNCHANGED <<db, ghost>>

Connected(r) ==
    /\ OrdersAt(r, "tunnels") /\ reqs[r].todo = <<>>
    /\ db' = [tunnels |-> mem.tunnels]
    /\ ghost' = [ghost EXCEPT !.agent = <<reqs[r].new>>, !.last = <<[old |-> reqs[r].was, list |-> mem.tunnels, same |-> reqs[r].same]>>, !.unsaved = FALSE]
    /\ Return(r)
    /\ Quiet /\ UNCHANGED mem

(* The row or a tunnel's port fails: the agent is refused, and what was started of *)
(* its tunnels stays in the list until it comes again.                             *)
ConnectFails(r) ==
    /\ OrdersAt(r, "tunnels") /\ Fault("orders", IF reqs[r].todo = <<>> THEN "disk" ELSE "bind")
    /\ mem' = [mem EXCEPT !.connected = FALSE]
    /\ Return(r)
    /\ UNCHANGED <<db, ghost>>

ConnectionDrops ==
    /\ Fault("orders", "drop") /\ mem.connected
    /\ mem' = [mem EXCEPT !.connected = FALSE]
    /\ UNCHANGED <<db, reqs, ghost>>

(* The server is started again: the client comes back from its row.               *)
OrdersRestart ==
    /\ Fault("orders", "restart")
    /\ mem' = [mem EXCEPT !.tunnels = db.tunnels, !.lock = NoLock, !.connected = FALSE]
    /\ reqs' = [r \in Reqs |-> Idle]
    /\ UNCHANGED <<db, ghost>>

TunnelOrdersNext ==
    \/ \E r \in Reqs : \/ handlePutClientTunnel(r) \/ AskAllowed(r) \/ LockTunnelOps(r) \/ checkRemotePort(r)
                       \/ StartOrdered(r) \/ StartOrderedFails(r) \/ SaveClient(r) \/ SaveClientFails(r)
                       \/ StartClient(r) \/ releaseTunnelsForReconnect(r) \/ ExcludeFails(r) \/ StartNext(r) \/ Connected(r) \/ ConnectFails(r)
    \/ ConnectionDrops \/ OrdersRestart

(* What of a tunnel a reconnect brings back. Its credential, skip_tls_verify, URL   *)
(* and owner are not among it: sanitizeAgentRemotes drops them.                     *)
Lasting(t) == [to |-> Destination(t), protocol |-> t.protocol, acl |-> t.acl, random |-> t.random, port |-> IF t.random THEN "" ELSE t.lport,
               scheme |-> t.scheme, proxy |-> t.proxy, header |-> t.header, idle |-> t.idle, autoClose |-> t.autoClose]
Copies(list, t) == Cardinality({i \in DOMAIN list : Lasting(list[i]) = Lasting(t)})
MixesProtocols(list) ==
    \E i, j \in DOMAIN list : /\ list[i].random /\ list[j].random /\ list[i].protocol # list[j].protocol
                              /\ Destination(list[i]) = Destination(list[j]) /\ list[i].acl = list[j].acl

(* getTunnelsToReestablish: an agent that connects with the remotes it had before   *)
(* gets every tunnel again that was listed when it came and that its policy still    *)
(* admits, with its destination, protocol, ACL, pinned port, scheme, proxy, host     *)
(* header and timeouts, unless two random-port tunnels of the list differ in nothing *)
(* but the protocol, which the search does not look at. It does not get the basic    *)
(* auth credential, skip_tls_verify, the URL and the owner of a tunnel ordered       *)
(* through the API: the old tunnels pass through sanitizeAgentRemotes with the       *)
(* agent's own (client_service.go:406), although client_service.go:1226 says that    *)
(* this takes nothing away and operator-runbook.md:379 that the server re-establishes *)
(* the tunnels with no operator action. A tunnel ordered while the agent is asked    *)
(* about the old ones is released and not started again.                             *)
(* handlePutClientTunnel: what is saved of the tunnels is what is listed as soon as  *)
(* nobody is at work, if it could be saved; no two ordered tunnels of one connection *)
(* lead to the same port; no port is given twice; and an option that only a proxy    *)
(* honours is not accepted without one.                                              *)
TunnelsAsOrdered ==
    Serves("orders") =>
        /\ \A l \in Range(ghost.last) :
             (l.same /\ ~MixesProtocols(l.old)) =>
                 \A i \in DOMAIN l.old : DestinationAllowed(l.old[i]) => Copies(l.list, l.old[i]) >= Copies(l.old, l.old[i])
        /\ (mem.connected /\ ~ghost.unsaved /\ \A r \in Reqs : reqs[r] = Idle) => db.tunnels = mem.tunnels
        /\ \A i, j \in DOMAIN mem.tunnels :
             LET a == mem.tunnels[i]
                 b == mem.tunnels[j]
             IN  i # j => /\ BoundBy(a) \cap BoundBy(b) = {}
                          /\ (a.owner # "" /\ b.owner # "" /\ Destination(a) = Destination(b) /\ a.acl = b.acl) => ~IsProtocol(a.protocol, b.protocol)
        /\ \A t \in ghost.orders : (t.auth # "" \/ t.header # "" \/ t.skip \/ t.url) => t.proxy /\ t.inner # "" /\ t.protocol # "udp"
=============================================================================
