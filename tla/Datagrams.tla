----------------------------- MODULE Datagrams -----------------------------
(* A UDP tunnel: the server's socket and the two goroutines that carry datagrams  *)
(* to and from the agent, the table of peers that may be answered, the access     *)
(* list, and the agent, which keeps one socket to the target for every peer.      *)
(* A datagram is the peer it came from and a number; the target answers each on   *)
(* the socket it came by. mem.up and mem.down are the SSH channel.                *)
EXTENDS Service

(* ---- access lists ------------------------------------------------------------------- *)
(* An entry is an address or a range of addresses, or text that is neither.       *)
parseIPNet(e) == IF e.kind = "text" \/ e.ip = 0 THEN <<>> ELSE <<e.ips>>

ParseTunnelACL(entries) ==
    LET nets == {parseIPNet(entries[i]) : i \in DOMAIN entries}
    IN  [ok |-> <<>> \notin nets, acl |-> UNION {Range(n) : n \in nets}]

CheckAccess(acl, ip) == acl = {} \/ \E n \in acl : ip \in n

(* The agent's tunnel_allowed setting: ranges, ports or both.                     *)
ParseTunnelAllowed(e) ==
    IF e.parts > 2 \/ (e.host = "text" /\ e.parts = 2) \/ (e.host = "" /\ e.port = "") \/ e.port = "text" THEN <<>>
    ELSE <<[nets |-> IF e.host = "net" THEN {e.ips} ELSE {}, port |-> e.port]>>

TunnelIsAllowed(allowed, remote) ==
    \/ allowed = <<>>
    \/ remote.resolves /\ \A ip \in remote.ips : \E i \in DOMAIN allowed :
           /\ \A j \in 1..i : ParseTunnelAllowed(allowed[j]) # <<>>
           /\ LET a == ParseTunnelAllowed(allowed[i])[1]
              IN  CheckAccess(a.nets, ip) /\ a.port \in {"", remote.port}

(* ---- the table of peers --------------------------------------------------------------- *)
Silent(seen) == {p \in DOMAIN seen : mem.now - seen[p] > setup.udpPeerTTL}

(* Room in a full table: the silent go, else one that was heard of least recently. *)
evictLocked(seen) ==
    LET kept == Restrict(seen, DOMAIN seen \ Silent(seen))
    IN  IF Cardinality(DOMAIN kept) < setup.maxTrackedUDPPeers THEN {kept}
        ELSE {Without(kept, p) : p \in {q \in DOMAIN kept : \A s \in DOMAIN kept : kept[q] <= kept[s]}}

Roomy(seen, p) ==
    IF p \notin DOMAIN seen /\ Cardinality(DOMAIN seen) >= setup.maxTrackedUDPPeers THEN evictLocked(seen) ELSE {seen}

rememberOnce(seen, p) == {s @@ (p :> mem.now) : s \in Roomy(seen, p)}

remember(seen, p) == {(p :> mem.now) @@ s : s \in Roomy(seen, p)}

known(seen, p) == p \in DOMAIN seen \ Silent(seen)
Forgotten(seen, p) == Restrict(seen, DOMAIN seen \ (Silent(seen) \cap {p}))

(* ---- the tunnel starts --------------------------------------------------------------- *)
(* Start opens the channel, which the agent's connectStreams accepts or not, and   *)
(* binds the socket.                                                              *)
NoDatagram == [from |-> 0, n |-> 0]
connectStreams == TunnelIsAllowed(setup.allowed, setup.remote)

DatagramsInit(deployments) ==
    /\ Started(deployments)
    /\ db = [acl |-> setup.acl]
    /\ LET up == connectStreams
       IN  mem = [now |-> 0, sent |-> 0, acl |-> ParseTunnelACL(setup.acl).acl, cancelled |-> FALSE, open |-> up, bound |-> up,
                  inbound |-> [pc |-> IF up THEN "read" ELSE "done", d |-> NoDatagram],
                  outbound |-> [pc |-> IF up THEN "decode" ELSE "done", d |-> NoDatagram],
                  seen |-> <<>>, up |-> <<>>, down |-> <<>>,
                  handle |-> [pc |-> IF up THEN "decode" ELSE "done", d |-> NoDatagram],
                  conns |-> <<>>, closing |-> {}, answers |-> {}, active |-> <<>>]
    /\ ghost = [last |-> <<>>, written |-> {}, dropped |-> {}, late |-> 0, narrowed |-> 0]

Counts(kind) ==
    /\ Serves("datagrams")
    /\ kind \in DOMAIN setup.sends /\ budget.sent[kind] < setup.sends[kind]
    /\ budget' = [budget EXCEPT !.sent[kind] = @ + 1]
    /\ UNCHANGED setup

(* ---- the server's goroutines ------------------------------------------------------------ *)
(* A goroutine that begins its loop anew ends if the tunnel was cancelled.        *)
Loops(pc) == [pc |-> IF mem.cancelled THEN "done" ELSE pc, d |-> NoDatagram]

(* The datagrams of the peers come in the order setup.comes.                      *)
(* runInbound: a datagram arrives at the socket and passes the access list; then   *)
(* its sender is remembered and it goes to the agent.                             *)
runInbound ==
    /\ Serves("datagrams") /\ mem.sent < Len(setup.comes)
    /\ mem.inbound.pc = "read" /\ mem.bound
    /\ LET d == [from |-> setup.comes[mem.sent + 1], n |-> mem.sent + 1]
       IN  mem' = [mem EXCEPT !.sent = @ + 1, !.inbound = IF CheckAccess(mem.acl, d.from) THEN [pc |-> "encode", d |-> d] ELSE Loops("read")]
    /\ Quiet /\ UNCHANGED <<db, reqs, ghost>>

Encode ==
    /\ Serves("datagrams") /\ mem.inbound.pc = "encode"
    /\ LET d == mem.inbound.d
       IN  /\ \E seen \in remember(mem.seen, d.from) :
                mem' = IF mem.open THEN [mem EXCEPT !.seen = seen, !.down = Append(@, d), !.inbound = Loops("read")]
                       ELSE [mem EXCEPT !.seen = seen, !.inbound = [pc |-> "done", d |-> NoDatagram]]
           /\ ghost' = [ghost EXCEPT !.last = (d.from :> mem.now) @@ @]
    /\ Quiet /\ UNCHANGED <<db, reqs>>

(* The loop ends when the tunnel was cancelled, and on an error of the socket that  *)
(* is no timeout: then the tunnel stays listed and its channel open.              *)
InboundEnds ==
    /\ Serves("datagrams") /\ mem.inbound.pc = "read"
    /\ (mem.cancelled /\ Quiet) \/ Fault("datagrams", "socket")
    /\ mem' = [mem EXCEPT !.inbound.pc = "done"]
    /\ UNCHANGED <<db, reqs, ghost>>

(* The deferred calls run in reverse: done is closed before the socket.           *)
SocketCloses ==
    /\ Serves("datagrams") /\ mem.inbound.pc = "done" /\ mem.bound
    /\ mem' = [mem EXCEPT !.bound = FALSE]
    /\ Quiet /\ UNCHANGED <<db, reqs, ghost>>

(* runOutbound: an answer from the agent is dropped unless its peer is known and   *)
(* still admitted, and is then written to the socket.                             *)
runOutbound ==
    /\ Serves("datagrams") /\ mem.outbound.pc = "decode" /\ mem.up # <<>>
    /\ LET d == Head(mem.up)
           goes == known(mem.seen, d.to) /\ CheckAccess(mem.acl, d.to)
           others == {q \in DOMAIN ghost.last \ {d.to} : ghost.last[q] >= ghost.last[d.to]}
       IN  /\ mem' = [mem EXCEPT !.up = Tail(@), !.seen = Forgotten(@, d.to),
                                 !.outbound = IF goes THEN [pc |-> "write", d |-> d] ELSE Loops("decode")]
           /\ ghost' = IF goes THEN ghost
                       ELSE [ghost EXCEPT !.dropped = @ \cup {[to |-> d.to, silent |-> mem.now - ghost.last[d.to], others |-> Cardinality(others),
                                                               admitted |-> CheckAccess(mem.acl, d.to)]}]
    /\ Quiet /\ UNCHANGED <<db, reqs>>

WriteToUDP ==
    /\ Serves("datagrams") /\ mem.outbound.pc = "write"
    /\ mem' = [mem EXCEPT !.outbound = IF mem.bound THEN Loops("decode") ELSE [pc |-> "done", d |-> NoDatagram]]
    /\ ghost' = IF ~ mem.bound THEN ghost
                ELSE [ghost EXCEPT !.written = @ \cup {mem.outbound.d},
                                   !.late = @ + IF CheckAccess(mem.acl, mem.outbound.d.to) THEN 0 ELSE 1]
    /\ Quiet /\ UNCHANGED <<db, reqs>>

WriteFails ==
    /\ Fault("datagrams", "socket") /\ mem.outbound.pc = "write" /\ mem.bound
    /\ mem' = [mem EXCEPT !.outbound = [pc |-> "done", d |-> NoDatagram]]
    /\ UNCHANGED <<db, reqs, ghost>>

OutboundEnds ==
    /\ Serves("datagrams") /\ mem.outbound.pc = "decode"
    /\ ~ mem.open /\ (mem.cancelled \/ mem.up = <<>>)
    /\ mem' = [mem EXCEPT !.outbound.pc = "done"]
    /\ Quiet /\ UNCHANGED <<db, reqs, ghost>>

(* Once cancelled, the channel is closed, which wakes runOutbound.                *)
ChannelCloses ==
    /\ Serves("datagrams") /\ mem.cancelled /\ mem.open
    /\ mem' = [mem EXCEPT !.open = FALSE]
    /\ Quiet /\ UNCHANGED <<db, reqs, ghost>>

ConnectionGone ==
    /\ Fault("datagrams", "connection")
    /\ ~ mem.cancelled
    /\ mem' = [mem EXCEPT !.cancelled = TRUE, !.open = FALSE, !.up = <<>>, !.down = <<>>]
    /\ UNCHANGED <<db, reqs, ghost>>

(* ---- requests ------------------------------------------------------------------------------ *)
TerminateUDP(r) ==
    /\ Arrives("datagrams", r, "terminate")
    /\ mem' = [mem EXCEPT !.cancelled = TRUE]
    /\ Becomes(r, [pc |-> "terminate"])
    /\ UNCHANGED <<db, ghost>>

TerminateReturns(r) ==
    /\ Serves("datagrams") /\ reqs[r].pc = "terminate"
    /\ mem.inbound.pc = "done" /\ ~ mem.open
    /\ Return(r)
    /\ Quiet /\ UNCHANGED <<db, mem, ghost>>

(* The text is taken over before it is parsed, and stays when it is refused.      *)
SetTunnelACL(entries) ==
    /\ db' = [db EXCEPT !.acl = entries]
    /\ LET parsed == ParseTunnelACL(entries)
           lost == \E p \in setup.peers : CheckAccess(mem.acl, p) /\ ~ CheckAccess(parsed.acl, p)
       IN  IF ~ parsed.ok THEN UNCHANGED <<mem, ghost>>
           ELSE /\ mem' = [mem EXCEPT !.acl = parsed.acl]
                /\ ghost' = IF lost THEN [ghost EXCEPT !.narrowed = @ + 1] ELSE ghost

handlePutClientTunnelACL(r) ==
    /\ Arrives("datagrams", r, "acl")
    /\ \E entries \in setup.acls : SetTunnelACL(entries)
    /\ UNCHANGED reqs

(* ---- the agent -------------------------------------------------------------------------------- *)
(* Handle: the socket of the peer is looked up, or made together with the          *)
(* goroutine that receives from it; then the datagram is written.                 *)
getConn ==
    /\ Serves("datagrams") /\ mem.handle.pc = "decode" /\ mem.down # <<>>
    /\ LET d == Head(mem.down)
       IN  mem' = [mem EXCEPT !.down = Tail(@), !.handle = [pc |-> "write", d |-> d],
                              !.conns = IF d.from \in DOMAIN @ THEN @ ELSE @ @@ (d.from :> d.n),
                              !.active = IF d.from \in DOMAIN mem.conns THEN @ ELSE (d.from :> mem.now) @@ @]
    /\ Quiet /\ UNCHANGED <<db, reqs, ghost>>

(* A socket that its goroutine has closed meanwhile cannot be written to: Handle    *)
(* then returns and the channel closes. The target may answer what it gets.       *)
HandleWrites ==
    /\ Serves("datagrams") /\ mem.handle.pc = "write"
    /\ LET d == mem.handle.d
           active == (d.from :> mem.now) @@ mem.active
       IN  mem' = IF d.from \in DOMAIN mem.conns
                  THEN [mem EXCEPT !.active = active, !.handle = [pc |-> "decode", d |-> NoDatagram],
                                   !.answers = @ \cup {[to |-> d.from, conn |-> mem.conns[d.from], of |-> d]}]
                  ELSE [mem EXCEPT !.active = active, !.handle = [pc |-> "done", d |-> NoDatagram], !.open = FALSE]
    /\ Quiet /\ UNCHANGED <<db, reqs, ghost>>

HandleEnds ==
    /\ Serves("datagrams") /\ mem.handle.pc = "decode" /\ ~ mem.open /\ mem.down = <<>>
    /\ mem' = [mem EXCEPT !.handle.pc = "done"]
    /\ Quiet /\ UNCHANGED <<db, reqs, ghost>>

(* receive: an answer goes back under the address the socket was made for.        *)
receive(p) ==
    /\ Serves("datagrams") /\ p \in DOMAIN mem.conns \ mem.closing
    /\ \E a \in mem.answers :
        /\ a.conn = mem.conns[p]
        /\ mem' = [mem EXCEPT !.answers = @ \ {a}, !.active = (p :> mem.now) @@ @,
                              !.up = IF mem.open THEN Append(@, [to |-> p, of |-> a.of]) ELSE @,
                              !.closing = IF mem.open THEN @ ELSE @ \cup {p}]
    /\ Quiet /\ UNCHANGED <<db, reqs, ghost>>

isActive(p) == p \notin DOMAIN mem.active \/ mem.now - mem.active[p] < setup.activeConnectionTimeout

(* receive ends when the peer was idle for too long, or the target's host reports   *)
(* that nobody listens.                                                           *)
ReceiveEnds(p) ==
    /\ Serves("datagrams") /\ p \in DOMAIN mem.conns \ mem.closing
    /\ (~ isActive(p) /\ Quiet) \/ Fault("datagrams", "target")
    /\ mem' = [mem EXCEPT !.closing = @ \cup {p}]
    /\ UNCHANGED <<db, reqs, ghost>>

close(p) ==
    /\ Serves("datagrams") /\ p \in mem.closing
    /\ mem' = [mem EXCEPT !.closing = @ \ {p}, !.conns = Without(@, p), !.active = Without(@, p),
                          !.answers = {a \in @ : a.conn # mem.conns[p]}]
    /\ Quiet /\ UNCHANGED <<db, reqs, ghost>>

TimePasses ==
    /\ Counts("tick")
    /\ mem' = [mem EXCEPT !.now = @ + 1]
    /\ UNCHANGED <<db, reqs, ghost>>

Peers == 1..3

DatagramsNext ==
    \/ runInbound \/ Encode \/ InboundEnds \/ SocketCloses \/ runOutbound \/ WriteToUDP \/ WriteFails \/ OutboundEnds \/ ChannelCloses \/ ConnectionGone
    \/ getConn \/ HandleWrites \/ HandleEnds \/ TimePasses
    \/ \E p \in Peers : receive(p) \/ ReceiveEnds(p) \/ close(p)
    \/ \E r \in Reqs : TerminateUDP(r) \/ TerminateReturns(r) \/ handlePutClientTunnelACL(r)

(* An answer goes to the peer whose datagram it answers, although the agent's      *)
(* sockets come and go (client/udp.go: one that arrives as its socket closes is    *)
(* lost there), and runOutbound drops one only with a cause: the peer was silent for *)
(* longer than udpPeerTTL, as many others as the table holds were heard of since,  *)
(* or it is no longer admitted. A narrowed access list stops the answers too: at   *)
(* most the one being written still leaves. The table keeps its bound.             *)
DatagramsReturn ==
    Serves("datagrams") =>
    /\ \A d \in ghost.written : d.to = d.of.from
    /\ \A x \in ghost.dropped : x.silent > setup.udpPeerTTL \/ x.others >= setup.maxTrackedUDPPeers \/ ~ x.admitted
    /\ ghost.late <= ghost.narrowed
    /\ Cardinality(DOMAIN mem.seen) <= setup.maxTrackedUDPPeers
=============================================================================
