--------------------------- MODULE PortDistributor ---------------------------
(***************************************************************************)
(* The server's distributor of local ports for tunnels                     *)
(* (server/ports/port_distributor.go) and the goroutines that use it: each *)
(* caller refreshes the pools, is handed a random port or pins one,        *)
(* possibly binds a listener on it, and closes that listener later.        *)
(*                                                                         *)
(* ListBusyPorts runs outside the mutex, everything else of an operation   *)
(* inside it, so a refresh is two steps: take the snapshot, then commit.   *)
(***************************************************************************)
EXTENDS FiniteSets, Naturals

CONSTANTS
    Callers,       \* the goroutines (startClientTunnels, StartTunnel)
    AllowedPorts,  \* the ports of server.used_ports minus excluded_ports
    NoPort,        \* "no port", for callers that have none
    Deployments    \* the deployments considered

Sub == {"tcp", "udp"}
Protocols == Sub \cup {"tcp+udp"}

\* requests: the protocols tunnels ask for; overlapping: two refreshes may be in
\* flight at the same time; pinning: tunnels pin local ports; others: other
\* programs bind allowed ports for these.
Deployment == [requests : (SUBSET Protocols) \ {{}}, overlapping : BOOLEAN,
               pinning : BOOLEAN, others : SUBSET Sub]

ASSUME ConstantsAssumption ==
    /\ NoPort \notin AllowedPorts
    /\ Deployments \subseteq Deployment

VARIABLES
    deployment, \* the one the server runs in
    ready,    \* the keys of portsPools: sub-protocols refreshed at least once
    pools,    \* portsPools
    reserved, \* the one reserved set, shared by both sub-protocols
    foreign,  \* ports bound by other programs, per sub-protocol
    stage,    \* where each caller is
    op,       \* the operation a refreshing caller is in
    todo,     \* the sub-protocols it has still to refresh
    snap,     \* the busy ports it has listed
    request,  \* the protocol of its tunnel
    port,     \* the port it was handed or pins
    bound     \* the sub-protocols its tunnel listens on

distributor == <<ready, pools, reserved>>
call == <<op, todo, snap>>
lease == <<request, port, bound>>
vars == <<deployment, ready, pools, reserved, foreign, stage, op, todo, snap, request, port,
          bound>>

Requests == deployment.requests

Stages == {"idle", "refreshing", "listed", "checked", "pending", "open"}
-----------------------------------------------------------------------------
SubProtocols(p) == IF p = "tcp+udp" THEN Sub ELSE {p}

\* Refresh and GetRandomPort both visit tcp before udp.
First(S) == IF "tcp" \in S THEN "tcp" ELSE "udp"

\* The callers that have, or are about to bind, a listener on their port.
Holders == {c \in Callers : stage[c] \in {"pending", "open"}}

ListBusyPorts(s) ==
    foreign[s] \cup {port[c] : c \in {x \in Callers : s \in bound[x]}}

IsPortBusy(p, n) == \E s \in SubProtocols(p) : n \notin pools[s]

Without(p, n) == [s \in Sub |-> IF s \in SubProtocols(p) THEN pools[s] \ {n} ELSE pools[s]]
-----------------------------------------------------------------------------
Init ==
    /\ deployment \in Deployments
    /\ ready = {}
    /\ pools = [s \in Sub |-> {}]
    /\ reserved = {}
    /\ foreign = [s \in Sub |-> {}]
    /\ stage = [c \in Callers |-> "idle"]
    /\ op = [c \in Callers |-> "Refresh"]
    /\ todo = [c \in Callers |-> {}]
    /\ snap = [c \in Callers |-> {}]
    /\ request = [c \in Callers |-> CHOOSE p \in Requests : TRUE]
    /\ port = [c \in Callers |-> NoPort]
    /\ bound = [c \in Callers |-> {}]

Refresh(c) ==
    /\ stage[c] = "idle"
    /\ stage' = [stage EXCEPT ![c] = "refreshing"]
    /\ op' = [op EXCEPT ![c] = "Refresh"]
    /\ todo' = [todo EXCEPT ![c] = Sub]
    /\ UNCHANGED <<deployment, distributor, foreign, snap, lease>>

\* GetRandomPort first refreshes the sub-pools that do not exist yet.
GetRandomPort(c, p) ==
    /\ stage[c] = "idle"
    /\ stage' = [stage EXCEPT ![c] = "refreshing"]
    /\ op' = [op EXCEPT ![c] = "GetRandomPort"]
    /\ todo' = [todo EXCEPT ![c] = SubProtocols(p)]
    /\ request' = [request EXCEPT ![c] = p]
    /\ UNCHANGED <<deployment, distributor, foreign, snap, port, bound>>

SkipReadyPool(c) ==
    LET s == First(todo[c]) IN
    /\ stage[c] = "refreshing" /\ op[c] = "GetRandomPort" /\ todo[c] # {}
    /\ s \in ready
    /\ todo' = [todo EXCEPT ![c] = @ \ {s}]
    /\ UNCHANGED <<deployment, distributor, foreign, stage, op, snap, lease>>

NeedsRefresh(c) ==
    /\ stage[c] = "refreshing" /\ todo[c] # {}
    /\ op[c] = "GetRandomPort" => First(todo[c]) \notin ready

RefreshList(c) ==
    /\ NeedsRefresh(c)
    /\ deployment.overlapping \/ \A d \in Callers : stage[d] # "listed"
    /\ snap' = [snap EXCEPT ![c] = ListBusyPorts(First(todo[c]))]
    /\ stage' = [stage EXCEPT ![c] = "listed"]
    /\ UNCHANGED <<deployment, distributor, foreign, op, todo, lease>>

\* ListBusyPorts returns an error: so does the operation.
RefreshFails(c) ==
    /\ NeedsRefresh(c)
    /\ stage' = [stage EXCEPT ![c] = "idle"]
    /\ todo' = [todo EXCEPT ![c] = {}]
    /\ UNCHANGED <<deployment, distributor, foreign, op, snap, lease>>

\* Mutant: the rebuilt pool keeps the reserved ports.
RefreshCommitOffersReserved(c) ==
    LET s == First(todo[c]) IN
    /\ stage[c] = "listed"
    /\ reserved' = reserved \ snap[c]
    /\ pools' = [pools EXCEPT ![s] = AllowedPorts \ snap[c]]
    /\ ready' = ready \cup {s}
    /\ todo' = [todo EXCEPT ![c] = @ \ {s}]
    /\ snap' = [snap EXCEPT ![c] = {}]
    /\ stage' = [stage EXCEPT ![c] =
                   IF op[c] = "Refresh" /\ todo[c] = {s} THEN "idle" ELSE "refreshing"]
    /\ UNCHANGED <<deployment, foreign, op, lease>>

RefreshCommit(c) ==
    LET s == First(todo[c]) IN
    /\ stage[c] = "listed"
    /\ reserved' = reserved \ snap[c]
    /\ pools' = [pools EXCEPT ![s] = (AllowedPorts \ snap[c]) \ reserved']
    /\ ready' = ready \cup {s}
    /\ todo' = [todo EXCEPT ![c] = @ \ {s}]
    /\ snap' = [snap EXCEPT ![c] = {}]
    /\ stage' = [stage EXCEPT ![c] =
                   IF op[c] = "Refresh" /\ todo[c] = {s} THEN "idle" ELSE "refreshing"]
    /\ UNCHANGED <<deployment, foreign, op, lease>>

Candidates(p) == {n \in AllowedPorts : \A s \in SubProtocols(p) : n \in pools[s]}

\* Mutant: the port handed out is not recorded as reserved.
HandOutUnreserved(c, n) ==
    /\ stage[c] = "refreshing" /\ op[c] = "GetRandomPort" /\ todo[c] = {}
    /\ n \in Candidates(request[c])
    /\ pools' = Without(request[c], n)
    /\ port' = [port EXCEPT ![c] = n]
    /\ stage' = [stage EXCEPT ![c] = "pending"]
    /\ UNCHANGED <<deployment, ready, reserved, foreign, call, request, bound>>

\* The critical section of GetRandomPort.
HandOut(c, n) ==
    /\ stage[c] = "refreshing" /\ op[c] = "GetRandomPort" /\ todo[c] = {}
    /\ n \in Candidates(request[c])
    /\ pools' = Without(request[c], n)
    /\ reserved' = reserved \cup {n}
    /\ port' = [port EXCEPT ![c] = n]
    /\ stage' = [stage EXCEPT ![c] = "pending"]
    /\ UNCHANGED <<deployment, ready, foreign, call, request, bound>>

NoPortsAvailable(c) ==
    /\ stage[c] = "refreshing" /\ op[c] = "GetRandomPort" /\ todo[c] = {}
    /\ Candidates(request[c]) = {}
    /\ stage' = [stage EXCEPT ![c] = "idle"]
    /\ UNCHANGED <<deployment, distributor, foreign, call, lease>>

\* checkLocalPort for a tunnel with a pinned local port.
CheckLocalPort(c, p, n) ==
    /\ deployment.pinning
    /\ stage[c] = "idle" /\ SubProtocols(p) \subseteq ready
    /\ ~IsPortBusy(p, n)
    /\ request' = [request EXCEPT ![c] = p]
    /\ port' = [port EXCEPT ![c] = n]
    /\ stage' = [stage EXCEPT ![c] = "checked"]
    /\ UNCHANGED <<deployment, distributor, foreign, call, bound>>

\* The internal proxy reserves the port it is about to bind ...
Reserve(c) ==
    /\ stage[c] = "checked"
    /\ pools' = Without(request[c], port[c])
    /\ reserved' = reserved \cup {port[c]}
    /\ stage' = [stage EXCEPT ![c] = "pending"]
    /\ UNCHANGED <<deployment, ready, foreign, call, lease>>

\* ... a regular tunnel binds its pinned port without reserving it.
PinWithoutReserve(c) ==
    /\ stage[c] = "checked"
    /\ stage' = [stage EXCEPT ![c] = "pending"]
    /\ UNCHANGED <<deployment, distributor, foreign, call, lease>>
-----------------------------------------------------------------------------
\* The caller's listener; tcp+udp binds tcp first and rolls it back if udp fails.
BindNext(c) == First(SubProtocols(request[c]) \ bound[c])

Bind(c) ==
    /\ stage[c] = "pending"
    /\ port[c] \notin ListBusyPorts(BindNext(c))
    /\ bound' = [bound EXCEPT ![c] = @ \cup {BindNext(c)}]
    /\ stage' = [stage EXCEPT ![c] =
                   IF bound'[c] = SubProtocols(request[c]) THEN "open" ELSE "pending"]
    /\ UNCHANGED <<deployment, distributor, foreign, call, request, port>>

BindFails(c) ==
    /\ stage[c] = "pending"
    /\ port[c] \in ListBusyPorts(BindNext(c))
    /\ bound' = [bound EXCEPT ![c] = {}]
    /\ port' = [port EXCEPT ![c] = NoPort]
    /\ stage' = [stage EXCEPT ![c] = "idle"]
    /\ UNCHANGED <<deployment, distributor, foreign, call, request>>

\* The caller errors out between being handed the port and binding it.
Abandon(c) ==
    /\ stage[c] = "pending" /\ bound[c] = {}
    /\ port' = [port EXCEPT ![c] = NoPort]
    /\ stage' = [stage EXCEPT ![c] = "idle"]
    /\ UNCHANGED <<deployment, distributor, foreign, call, request, bound>>

Close(c) ==
    /\ stage[c] = "open"
    /\ bound' = [bound EXCEPT ![c] = {}]
    /\ port' = [port EXCEPT ![c] = NoPort]
    /\ stage' = [stage EXCEPT ![c] = "idle"]
    /\ UNCHANGED <<deployment, distributor, foreign, call, request>>

OtherBind(s, n) ==
    /\ s \in deployment.others
    /\ n \notin ListBusyPorts(s)
    /\ foreign' = [foreign EXCEPT ![s] = @ \cup {n}]
    /\ UNCHANGED <<deployment, distributor, stage, call, lease>>

OtherClose(s, n) ==
    /\ n \in foreign[s]
    /\ foreign' = [foreign EXCEPT ![s] = @ \ {n}]
    /\ UNCHANGED <<deployment, distributor, stage, call, lease>>
-----------------------------------------------------------------------------
Step(c) ==
    \/ SkipReadyPool(c) \/ RefreshList(c) \/ RefreshFails(c) \/ RefreshCommit(c)
    \/ NoPortsAvailable(c)
    \/ \E n \in AllowedPorts : HandOut(c, n)
    \/ Reserve(c) \/ PinWithoutReserve(c)
    \/ Bind(c) \/ BindFails(c) \/ Abandon(c)

Next ==
    \/ \E c \in Callers : Refresh(c) \/ Step(c) \/ Close(c)
    \/ \E c \in Callers, p \in Requests : GetRandomPort(c, p)
    \/ \E c \in Callers, p \in Requests, n \in AllowedPorts : CheckLocalPort(c, p, n)
    \/ \E s \in Sub, n \in AllowedPorts : OtherBind(s, n) \/ OtherClose(s, n)

Spec == Init /\ [][Next]_vars
-----------------------------------------------------------------------------
(* Properties *)

TypeOK ==
    /\ deployment \in Deployments
    /\ ready \in SUBSET Sub
    /\ pools \in [Sub -> SUBSET AllowedPorts]
    /\ reserved \in SUBSET AllowedPorts
    /\ foreign \in [Sub -> SUBSET AllowedPorts]
    /\ stage \in [Callers -> Stages]
    /\ op \in [Callers -> {"Refresh", "GetRandomPort"}]
    /\ todo \in [Callers -> SUBSET Sub]
    /\ snap \in [Callers -> SUBSET AllowedPorts]
    /\ request \in [Callers -> Requests]
    /\ port \in [Callers -> AllowedPorts \cup {NoPort}]
    /\ bound \in [Callers -> SUBSET Sub]

\* Only a caller that holds or pins a port has listeners, and then it has a port.
HasPort ==
    \A c \in Callers :
        /\ stage[c] \in {"checked", "pending", "open"} => port[c] \in AllowedPorts
        /\ bound[c] # {} => stage[c] \in {"pending", "open"}

\* Deployments in which the hand-out is exclusive: tunnels of one protocol, random
\* ports only, no other program on the allowed ports, and agents that connect one
\* at a time, so that no busy list is stale when it is applied.
Alone ==
    /\ \E p \in Protocols : Requests = {p}
    /\ ~deployment.overlapping /\ ~deployment.pinning /\ deployment.others = {}
SerialDeployment == Alone /\ \E s \in Sub : Requests = {s}

\* Two callers never hold the same port for the same sub-protocol, whether they
\* have bound it or not: GetRandomPort's "two concurrent callers can never be
\* handed the same local port" (port_distributor.go:62-67).
ExclusiveHandOut ==
    Alone => \A c, d \in Holders :
        c # d /\ SubProtocols(request[c]) \cap SubProtocols(request[d]) # {}
            => port[c] # port[d]

\* A reserved port is in no pool it could be handed out from, for deployments
\* whose tunnels all use one sub-protocol: refresh and GetRandomPort update the
\* pool and the reserved set under one lock (port_distributor.go:186-200).
ReservedOutOfPool ==
    \A s \in Sub : Requests = {s} => pools[s] \cap reserved = {}

\* Why the hand-out is exclusive there. Between a listing and its commit the pool
\* does not grow, so a port the listing saw bound is neither in the pool nor handed
\* out again before the commit drops its reservation; and a port bound after the
\* listing is still reserved when the commit rebuilds the pool.
LeaseInv ==
    \A s \in Requests :
        /\ pools[s] \cap reserved = {}
        /\ \A t \in Sub : foreign[t] = {}
        /\ \A c \in Callers :
            /\ stage[c] # "checked"
            /\ \A t \in Sub : t \in bound[c] <=> t = s /\ stage[c] = "open"
            /\ stage[c] = "pending" => port[c] \in reserved
            /\ c \in Holders => port[c] \in AllowedPorts /\ port[c] \notin pools[s]
            /\ stage[c] = "listed" => todo[c] # {}
            /\ stage[c] = "listed" /\ First(todo[c]) # s => snap[c] = {}
        /\ \A c \in Callers : stage[c] = "listed" /\ First(todo[c]) = s =>
            /\ snap[c] \cap pools[s] = {}
            /\ \A d \in Callers :
                /\ stage[d] = "pending" => port[d] \notin snap[c]
                /\ stage[d] = "open" => port[d] \in snap[c] \cup reserved
        /\ \A c, d \in Callers : stage[c] = "listed" /\ stage[d] = "listed" => c = d
        /\ \A c, d \in Holders : c # d => port[c] # port[d]

\* The callers' view of the component: the port each of them has leased, where
\* leases are promised.
Leased == [c \in Callers |-> IF Alone /\ c \in Holders THEN port[c] ELSE NoPort]

Lease == INSTANCE PortLease WITH leased <- Leased

\* The distributor implements exclusive leases: hand-out, bind, failure and close
\* in any order never give a held port away (port_distributor.go:46-203).
ImplementsLease == Lease!Spec

=============================================================================
