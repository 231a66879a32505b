------------------------------- MODULE Agent -------------------------------
(* The agent's side of its connection to the server (client/client.go): the     *)
(* connection loop with its sweep over transports and servers, the connection   *)
(* request, the poller that switches back to the preferred server, the          *)
(* keep-alive loop, and the three reporters that share the loop's connection:   *)
(* pending updates, measurements and external addresses.                        *)
(*                                                                              *)
(* The network is the environment: what a dial meets, when a connection breaks  *)
(* or falls silent, and answers of the server other than success are faults.    *)
(* MaxFaults of them happen, so that the liveness properties say what the agent *)
(* does once the world is quiet again.                                          *)
EXTENDS Integers, Sequences, SequencesExt, FiniteSets

CONSTANTS
    Conns,        \* SSH connections of the agent
    Deployments,  \* configurations and environments to start from
    MaxFaults,    \* how often the environment misbehaves
    MaxVersion,   \* how often the updates status and the addresses change
    MaxLoops      \* cap on the refresh loops that are counted

None == "none"

(* What a dial of one candidate meets; "otherkey" is a host with another key.   *)
Worlds == {"up", "otherkey", "down", "refusing", "silent"}

(* The configuration of the agent. transports: an explicit list ("direct" or    *)
(* a proxy); servers: the main server, then the fallback servers, "onion" being *)
(* a hidden service; maxRetry: -1 for no limit. pin: the server's fingerprint   *)
(* is configured. faults: what the environment may do. late: a request may      *)
(* still be handled after its connection is gone.                               *)
Deployment == [transports: Seq(STRING), proxy: STRING, servers: Seq(STRING),
               maxRetry: Int, switchback: BOOLEAN, keepAlive: BOOLEAN,
               pin: BOOLEAN, requirePin: BOOLEAN,
               reports: SUBSET {"updates", "monitor", "addresses"}, late: BOOLEAN, start: SUBSET Worlds,
               faults: SUBSET (Worlds \cup {"reset", "quiet", "already", "refused", "garbled", "stall", "identity"})]

ASSUME DeploymentsAssumption == Deployments \subseteq Deployment

VARIABLES
    deployment,
    world,      \* what a dial of each candidate meets now
    faults,     \* faults so far
    conns,      \* per connection: its candidate and what became of it
    loop,       \* the connection loop
    swept,      \* candidates that failed in the current sweep
    channel,    \* switchbackChan, of capacity one
    poller,     \* handleServerSwitchBack, one per connection to another server
    sshConn,    \* c.sshConnection
    ka,         \* keepAliveLoop
    watchdog,   \* last state written for the service manager
    updates,    \* client/updates: connection, status, a send under way
    monitor,    \* client/monitoring: connection and refresh loops
    fetcher,    \* client/ip_addresses: connection, last addresses sent, loops
    address,    \* the external addresses the agent has now
    server      \* what the server was told

agentVars == <<deployment, world, faults, conns, loop, swept, channel, poller, sshConn, ka, watchdog, updates, monitor, fetcher, address, server>>
network == <<world, faults>>
reporters == <<updates, monitor, fetcher, address, server>>

-----------------------------------------------------------------------------
(* The chain and the candidates                                                *)

(* An explicit list wins, else the configured proxy, else a direct dial.        *)
NewClient(d) ==
    IF d.transports # <<>> THEN d.transports
    ELSE IF d.proxy # "" THEN <<d.proxy>> ELSE <<"direct">>

IsDirect(t) == t = "direct"
isOnionAddress(s) == s = "onion"

(* Without a pin the host key is taken on trust, unless a pin is required.      *)
verifyServer(w) == IF deployment.pin THEN w # "otherkey" ELSE ~deployment.requirePin

(* A chain is accepted only if nothing follows a direct entry.                  *)
BuildChain(specs) == \A i \in DOMAIN specs : IsDirect(specs[i]) => i = Len(specs)

sweepServerMajor(d) ==
    LET chain == NewClient(d)
        at(j) == [i \in DOMAIN chain |-> [t |-> i, s |-> d.servers[j]]]
        usable(c) == ~(IsDirect(chain[c.t]) /\ isOnionAddress(c.s))
    IN SelectSeq(FlattenSeq([j \in DOMAIN d.servers |-> at(j)]), usable)

(* Every server over the first transport, then every server over the second.    *)
sweepOf(d) ==
    LET chain == NewClient(d)
        over(i) == [j \in DOMAIN d.servers |-> [t |-> i, s |-> d.servers[j]]]
        usable(c) == ~(IsDirect(chain[c.t]) /\ isOnionAddress(c.s))
    IN SelectSeq(FlattenSeq([i \in DOMAIN chain |-> over(i)]), usable)
Sweeps == [d \in Deployments |-> sweepOf(d)]
candidates == Sweeps[deployment]

(* Watchdog.Ping writes the state file and notifies the service manager.        *)
Ping(state) == watchdog' = state

Open(k) == conns[k].st = "open"
Gone(k) == conns[k].st \in {"closed", "reset"}

(* A connection nobody holds any more can stand for a later one.                *)
Unused(k) ==
    /\ Gone(k) /\ ~conns[k].caps
    /\ k \notin {loop.conn, sshConn, ka.conn}
    /\ channel # <<k>>
    /\ poller[k].pc = "none"
    /\ \A p \in Conns : poller[p].new # k
Fresh == CHOOSE k \in Conns : Unused(k)
CanDial == \E k \in Conns : Unused(k)

(* conn.Close() of a connection that may be gone already.                       *)
Closed(cs, k) == IF k = None \/ cs[k].st = "reset" THEN cs ELSE [cs EXCEPT ![k].st = "closed"]

Init ==
    /\ deployment \in Deployments
    /\ BuildChain(NewClient(deployment))
    /\ world \in [DOMAIN candidates -> deployment.start]
    /\ faults = 0
    /\ conns = [k \in Conns |-> [cand |-> 0, st |-> "closed", caps |-> FALSE]]
    /\ loop = [pc |-> "top", at |-> 0, conn |-> None, err |-> None, tries |-> 0, attempt |-> 0]
    /\ swept = {}
    /\ channel = <<>>
    /\ poller = [k \in Conns |-> [pc |-> "none", new |-> None, done |-> FALSE]]
    /\ sshConn = None
    /\ ka = [pc |-> "sleep", conn |-> None]
    /\ watchdog = "initialized"
    /\ updates = [conn |-> None, status |-> 0, sending |-> FALSE]
    /\ monitor = [conn |-> None, owned |-> FALSE, orphans |-> 0]
    /\ fetcher = [conn |-> None, current |-> 0, loops |-> 0, fetched |-> 0]
    /\ address = 1
    /\ server = [updates |-> 0, address |-> 0, measured |-> FALSE]

-----------------------------------------------------------------------------
(* connectionLoop                                                              *)

(* handleConnectionError: the limit is compared before the attempt is counted,  *)
(* and a timeout of the server starts the count again.                          *)
handleConnectionError ==
    /\ loop.pc = "top" /\ loop.err # None
    /\ IF deployment.maxRetry >= 0 /\ loop.attempt >= deployment.maxRetry
       THEN /\ loop' = [loop EXCEPT !.pc = "finished"]
            /\ UNCHANGED watchdog
       ELSE /\ loop' = [loop EXCEPT !.err = None,
                                    !.attempt = IF loop.err = "timeout" THEN 0
                                                ELSE IF deployment.maxRetry < 0 THEN 0 ELSE @ + 1]
            /\ Ping("reconnecting")
    /\ UNCHANGED <<deployment, network, conns, swept, channel, poller, sshConn, ka, reporters>>

(* The connection made to switch back is there: it is used as the primary one.  *)
TakeSwitchback ==
    /\ loop.pc = "top" /\ loop.err = None /\ channel # <<>>
    /\ loop' = [loop EXCEPT !.pc = "request", !.conn = Head(channel), !.at = 1, !.tries = 1]
    /\ channel' = <<>>
    /\ swept' = {}
    /\ UNCHANGED <<deployment, network, conns, poller, sshConn, ka, watchdog, reporters>>

(* connectToMainOrFallback begins a sweep.                                      *)
connectToMainOrFallback ==
    /\ loop.pc = "top" /\ loop.err = None /\ channel = <<>>
    /\ loop' = IF candidates = <<>> THEN [loop EXCEPT !.err = "other"]
               ELSE [loop EXCEPT !.pc = "dial", !.at = 1]
    /\ swept' = {}
    /\ UNCHANGED <<deployment, network, conns, channel, poller, sshConn, ka, watchdog, reporters>>

(* A failure of the path moves on to the next candidate, and after the last one *)
(* the sweep has failed.                                                        *)
transportFailure ==
    /\ swept' = swept \cup {candidates[loop.at]}
    /\ loop' = IF loop.at < Len(candidates) THEN [loop EXCEPT !.pc = "dial", !.at = @ + 1, !.conn = None]
               ELSE [loop EXCEPT !.pc = "top", !.err = "other", !.conn = None]

(* A refusal of the credential ends the sweep.                                  *)
errEndpointRefused ==
    /\ loop' = [loop EXCEPT !.pc = "top", !.err = "other", !.conn = None]
    /\ UNCHANGED swept

(* connect: dialling is bounded by dialTimeout.                                 *)
connect ==
    /\ loop.pc = "dial"
    /\ IF world[loop.at] = "down"
       THEN transportFailure /\ UNCHANGED conns
       ELSE /\ CanDial
            /\ conns' = [conns EXCEPT ![Fresh] = [cand |-> loop.at, st |-> "shaking", caps |-> FALSE]]
            /\ loop' = [loop EXCEPT !.pc = "handshake", !.conn = Fresh]
            /\ UNCHANGED swept
    /\ UNCHANGED <<deployment, network, channel, poller, sshConn, ka, watchdog, reporters>>

(* The SSH handshake has no deadline: with a silent peer it does not return.    *)
NewClientConn ==
    /\ loop.pc = "handshake" /\ world[loop.at] # "silent"
    /\ CASE world[loop.at] \in {"up", "otherkey"} /\ verifyServer(world[loop.at]) ->
              /\ conns' = [conns EXCEPT ![loop.conn].st = "open"]
              /\ loop' = [loop EXCEPT !.pc = "request", !.tries = 1]
              /\ poller' = IF loop.at # 1 /\ deployment.switchback
                           THEN [poller EXCEPT ![loop.conn] = [pc |-> "timer", new |-> None, done |-> FALSE]]
                           ELSE poller
              /\ UNCHANGED swept
         [] world[loop.at] = "refusing" ->
              conns' = Closed(conns, loop.conn) /\ errEndpointRefused /\ UNCHANGED poller
         [] OTHER ->
              conns' = Closed(conns, loop.conn) /\ transportFailure /\ UNCHANGED poller
    /\ UNCHANGED <<deployment, network, channel, sshConn, ka, watchdog, reporters>>

(* The loop goes round again with an error; the poller's context is cancelled.  *)
RequestFailed(err, cs) ==
    /\ loop' = [loop EXCEPT !.pc = "top", !.conn = None, !.err = err]
    /\ poller' = [poller EXCEPT ![loop.conn].done = TRUE]
    /\ conns' = cs

Fault(f) == f \in deployment.faults /\ faults < MaxFaults /\ faults' = faults + 1

Registered == [conns EXCEPT ![loop.conn].caps = (deployment.reports # {})]

(* sendConnectionRequest answered with success: the server has registered the   *)
(* agent and sends its capabilities on the same connection.                     *)
sendConnectionRequest ==
    /\ loop.pc = "request" /\ Open(loop.conn)
    /\ loop' = [loop EXCEPT !.pc = "handover"]
    /\ conns' = Registered
    /\ Ping("connected")
    /\ UNCHANGED <<deployment, network, swept, channel, poller, sshConn, ka, reporters>>

(* The request cannot be put together without the system's id or host name.     *)
connectionRequest ==
    /\ loop.pc = "request"
    /\ Fault("identity") /\ RequestFailed("other", conns)
    /\ UNCHANGED <<deployment, world, swept, channel, sshConn, ka, watchdog, reporters>>

(* The agent closes the connection only when it is told that the client is      *)
(* already connected, or when there was no answer: a refusal, and a success     *)
(* whose payload cannot be decoded, leave it open.                              *)
RequestRefused ==
    /\ loop.pc = "request" /\ Open(loop.conn)
    /\ \/ Fault("already") /\ RequestFailed("other", Closed(conns, loop.conn))
       \/ Fault("refused") /\ RequestFailed("other", conns)
       \/ Fault("garbled") /\ RequestFailed("other", Registered)
    /\ UNCHANGED <<deployment, world, swept, channel, sshConn, ka, watchdog, reporters>>

RequestBreaks ==
    /\ loop.pc = "request" /\ Gone(loop.conn)
    /\ RequestFailed("other", Closed(conns, loop.conn))
    /\ UNCHANGED <<deployment, network, swept, channel, sshConn, ka, watchdog, reporters>>

(* A request that timed out is sent again, three times in all.                  *)
DefaultMaxRetryAttempts == 3
WithRetry == loop.tries < DefaultMaxRetryAttempts

(* No answer in time: the server stalls, or the connection is silent.           *)
SendRequestWithTimeout ==
    /\ loop.pc = "request"
    /\ \/ conns[loop.conn].st = "silent" /\ UNCHANGED faults
       \/ Open(loop.conn) /\ Fault("stall")
    /\ IF WithRetry
       THEN loop' = [loop EXCEPT !.tries = @ + 1] /\ UNCHANGED <<conns, poller>>
       ELSE RequestFailed("timeout", Closed(conns, loop.conn))
    /\ UNCHANGED <<deployment, world, swept, channel, sshConn, ka, watchdog, reporters>>

-----------------------------------------------------------------------------
(* The reporters                                                               *)

updatesSetConnQuietly(k) == updates' = [updates EXCEPT !.conn = k]
updatesSetConn(k) == updates' = [updates EXCEPT !.conn = k, !.sending = "updates" \in deployment.reports]
fetcherSetConn(k) == fetcher' = IF "addresses" \in deployment.reports THEN [fetcher EXCEPT !.conn = k] ELSE fetcher
monitorSetConn(k) == monitor' = [monitor EXCEPT !.conn = k]

(* monitor.Stop calls the stop function of the loop started last.               *)
monitorStopNothing == monitor' = [monitor EXCEPT !.conn = None]
monitorStop == monitor' = [monitor EXCEPT !.conn = None, !.owned = FALSE]

(* monitor.Start overwrites the stop function of a loop that still runs.        *)
monitorStart ==
    monitor' = IF "monitor" \notin deployment.reports THEN monitor
               ELSE [monitor EXCEPT !.owned = TRUE,
                                    !.orphans = IF monitor.owned /\ @ < MaxLoops THEN @ + 1 ELSE @]

(* fetcher.Start adds a refresh loop; none is ever stopped.                     *)
fetcherStart ==
    fetcher' = IF "addresses" \notin deployment.reports THEN fetcher
               ELSE [fetcher EXCEPT !.loops = IF @ < MaxLoops THEN @ + 1 ELSE @]

(* The connection is handed to the client and to the reporters, the back-off    *)
(* starts again.                                                                *)
setConn ==
    /\ loop.pc = "handover"
    /\ loop' = [loop EXCEPT !.pc = "wait", !.attempt = 0]
    /\ sshConn' = loop.conn
    /\ updatesSetConn(loop.conn) /\ fetcherSetConn(loop.conn) /\ monitorSetConn(loop.conn)
    /\ UNCHANGED <<deployment, network, conns, swept, channel, poller, ka, watchdog, address, server>>

(* Connection.Wait has returned. A connection that was closed here or by the    *)
(* peer leaves no error; one that was reset does.                               *)
Disconnected ==
    /\ loop.pc = "wait" /\ Gone(loop.conn)
    /\ loop' = [loop EXCEPT !.pc = "top", !.conn = None,
                            !.err = IF conns[loop.conn].st = "reset" THEN "other" ELSE None]
    /\ sshConn' = None
    /\ monitorStop
    /\ updates' = [updates EXCEPT !.conn = None]
    /\ fetcher' = [fetcher EXCEPT !.conn = None]
    /\ poller' = [poller EXCEPT ![loop.conn].done = TRUE]
    /\ UNCHANGED <<deployment, network, conns, swept, channel, ka, watchdog, address, server>>

(* A request put_capabilities is handled by the connection's own goroutine, and *)
(* what was received before the connection went is handled after it.            *)
handlePutCapabilitiesRequest(k) ==
    /\ conns[k].caps /\ (Gone(k) => deployment.late \/ loop.conn = k)
    /\ conns' = [conns EXCEPT ![k].caps = FALSE]
    /\ monitorStart /\ fetcherStart
    /\ UNCHANGED <<deployment, network, loop, swept, channel, poller, sshConn, ka, watchdog, updates, address, server>>

(* The goroutine of a connection that is gone ends without the request.         *)
CapabilitiesLost(k) ==
    /\ conns[k].caps /\ Gone(k) /\ loop.conn # k
    /\ conns' = [conns EXCEPT ![k].caps = FALSE]
    /\ UNCHANGED <<deployment, network, loop, swept, channel, poller, sshConn, ka, watchdog, reporters>>

(* refreshStatus: by the interval or because the server asks for it.            *)
refreshStatus ==
    /\ "updates" \in deployment.reports /\ updates.status < MaxVersion
    /\ updates' = [updates EXCEPT !.status = @ + 1, !.sending = TRUE]
    /\ UNCHANGED <<deployment, network, conns, loop, swept, channel, poller, sshConn, ka, watchdog, monitor, fetcher, address, server>>

(* A request without a reply arrives only on a connection that still works; on  *)
(* a silent one sending succeeds all the same.                                  *)
Arrives(k) == k # None /\ Open(k)
Sends(k) == k # None /\ ~Gone(k)

sendUpdates ==
    /\ updates.sending
    /\ updates' = [updates EXCEPT !.sending = FALSE]
    /\ server' = IF Arrives(updates.conn) THEN [server EXCEPT !.updates = updates.status] ELSE server
    /\ UNCHANGED <<deployment, network, conns, loop, swept, channel, poller, sshConn, ka, watchdog, monitor, fetcher, address>>

(* A refresh loop measures, and sends what it measured if there is a connection. *)
refreshMeasurement == monitor.owned \/ monitor.orphans > 0

sendMeasurement ==
    /\ refreshMeasurement
    /\ Arrives(monitor.conn) /\ ~server.measured
    /\ server' = [server EXCEPT !.measured = TRUE]
    /\ UNCHANGED <<deployment, network, conns, loop, swept, channel, poller, sshConn, ka, watchdog, updates, monitor, fetcher, address>>

(* sendIPAddresses looks the addresses up without the lock ...                  *)
fetchIPs ==
    /\ fetcher.loops > 0 /\ fetcher.fetched = 0 /\ fetcher.conn # None
    /\ fetcher.current # address
    /\ fetcher' = [fetcher EXCEPT !.fetched = address]
    /\ UNCHANGED <<deployment, network, conns, loop, swept, channel, poller, sshConn, ka, watchdog, updates, monitor, address, server>>

(* ... and reads the connection again, with the lock, before it sends them.     *)
sendIPAddresses ==
    /\ fetcher.fetched # 0
    /\ fetcher' = [fetcher EXCEPT !.fetched = 0,
                                  !.current = IF Sends(fetcher.conn) THEN fetcher.fetched ELSE @]
    /\ server' = IF Arrives(fetcher.conn) /\ fetcher.fetched # fetcher.current
                 THEN [server EXCEPT !.address = fetcher.fetched] ELSE server
    /\ UNCHANGED <<deployment, network, conns, loop, swept, channel, poller, sshConn, ka, watchdog, updates, monitor, address>>

AddressChanges ==
    /\ "addresses" \in deployment.reports /\ address < MaxVersion
    /\ address' = address + 1
    /\ UNCHANGED <<deployment, network, conns, loop, swept, channel, poller, sshConn, ka, watchdog, updates, monitor, fetcher, server>>

-----------------------------------------------------------------------------
(* handleServerSwitchBack                                                      *)

(* The timer fires and the preferred candidate is dialled, unless the context   *)
(* of this poller is cancelled.                                                 *)
SwitchbackTimer(k) ==
    /\ poller[k].pc = "timer" /\ ~poller[k].done
    /\ world[1] # "down" /\ CanDial
    /\ conns' = [conns EXCEPT ![Fresh] = [cand |-> 1, st |-> "shaking", caps |-> FALSE]]
    /\ poller' = [poller EXCEPT ![k].pc = "handshake", ![k].new = Fresh]
    /\ UNCHANGED <<deployment, network, loop, swept, channel, sshConn, ka, watchdog, reporters>>

(* The handshake takes no notice of the context.                                *)
SwitchbackHandshake(k) ==
    /\ poller[k].pc = "handshake" /\ world[1] # "silent"
    /\ IF world[1] \in {"up", "otherkey"} /\ verifyServer(world[1])
       THEN /\ conns' = [conns EXCEPT ![poller[k].new].st = "open"]
            /\ poller' = [poller EXCEPT ![k].pc = "handing"]
       ELSE /\ conns' = Closed(conns, poller[k].new)
            /\ poller' = [poller EXCEPT ![k].pc = "timer", ![k].new = None]
    /\ UNCHANGED <<deployment, network, loop, swept, channel, sshConn, ka, watchdog, reporters>>

(* switchbackChan <- conn waits while another connection is in the channel.     *)
SwitchbackHands(k) ==
    /\ poller[k].pc = "handing" /\ channel = <<>>
    /\ channel' = <<poller[k].new>>
    /\ poller' = [poller EXCEPT ![k].pc = "closing", ![k].new = None]
    /\ UNCHANGED <<deployment, network, conns, loop, swept, sshConn, ka, watchdog, reporters>>

SwitchbackCloses(k) ==
    /\ poller[k].pc = "closing"
    /\ conns' = Closed(conns, k)
    /\ poller' = [poller EXCEPT ![k].pc = "none"]
    /\ UNCHANGED <<deployment, network, loop, swept, channel, sshConn, ka, watchdog, reporters>>

SwitchbackEnds(k) ==
    /\ poller[k].pc = "timer" /\ poller[k].done
    /\ poller' = [poller EXCEPT ![k].pc = "none"]
    /\ UNCHANGED <<deployment, network, conns, loop, swept, channel, sshConn, ka, watchdog, reporters>>

-----------------------------------------------------------------------------
(* keepAliveLoop: reads the connection once and pings it with retries.         *)

KeepAlivePings ==
    /\ deployment.keepAlive /\ ka.pc = "sleep" /\ sshConn # None
    /\ ka' = [pc |-> "ping", conn |-> sshConn]
    /\ UNCHANGED <<deployment, network, conns, loop, swept, channel, poller, sshConn, watchdog, reporters>>

KeepAliveAnswered ==
    /\ ka.pc = "ping" /\ Open(ka.conn)
    /\ ka' = [pc |-> "sleep", conn |-> None]
    /\ Ping("connected")
    /\ UNCHANGED <<deployment, network, conns, loop, swept, channel, poller, sshConn, reporters>>

KeepAliveFailsQuietly ==
    /\ ka.pc = "ping"
    /\ \/ ~Open(ka.conn) /\ UNCHANGED faults
       \/ Open(ka.conn) /\ Fault("stall")
    /\ ka' = [pc |-> "sleep", conn |-> None]
    /\ UNCHANGED <<deployment, world, conns, loop, swept, channel, poller, sshConn, watchdog, reporters>>

KeepAliveFails ==
    /\ ka.pc = "ping"
    /\ \/ ~Open(ka.conn) /\ UNCHANGED faults
       \/ Open(ka.conn) /\ Fault("stall")
    /\ ka' = [pc |-> "sleep", conn |-> None]
    /\ conns' = Closed(conns, ka.conn)
    /\ UNCHANGED <<deployment, world, loop, swept, channel, poller, sshConn, watchdog, reporters>>

-----------------------------------------------------------------------------
(* The environment                                                             *)

WorldChanges ==
    /\ \E i \in DOMAIN world, w \in Worlds :
          /\ w # world[i] /\ Fault(w)
          /\ world' = [world EXCEPT ![i] = w]
    /\ UNCHANGED <<deployment, conns, loop, swept, channel, poller, sshConn, ka, watchdog, reporters>>

(* A connection is reset, or its peer is gone and nothing tells the agent.      *)
ConnectionBreaks(k) ==
    /\ Open(k)
    /\ \/ Fault("reset") /\ conns' = [conns EXCEPT ![k].st = "reset"]
       \/ Fault("quiet") /\ conns' = [conns EXCEPT ![k].st = "silent"]
    /\ UNCHANGED <<deployment, world, loop, swept, channel, poller, sshConn, ka, watchdog, reporters>>

(* The server closes a connection on which no request arrives in time.          *)
ServerGivesUp(k) ==
    /\ channel = <<k>> /\ Open(k) /\ loop.pc = "wait" /\ ~Gone(loop.conn)
    /\ conns' = [conns EXCEPT ![k].st = "closed"]
    /\ UNCHANGED <<deployment, network, loop, swept, channel, poller, sshConn, ka, watchdog, reporters>>

-----------------------------------------------------------------------------
LoopStep ==
    \/ handleConnectionError \/ TakeSwitchback \/ connectToMainOrFallback \/ connect \/ NewClientConn
    \/ sendConnectionRequest \/ RequestBreaks \/ SendRequestWithTimeout \/ setConn \/ Disconnected
SwitchbackStep(k) ==
    \/ SwitchbackTimer(k) \/ SwitchbackHandshake(k) \/ SwitchbackHands(k) \/ SwitchbackCloses(k) \/ SwitchbackEnds(k)
KeepAliveStep == KeepAlivePings \/ KeepAliveAnswered \/ KeepAliveFails
FetchStep == fetchIPs \/ sendIPAddresses

(* An agent that gave up, or that waits on its connection, need do nothing.     *)
Rests == loop.pc \in {"finished", "wait"} /\ UNCHANGED agentVars

Next ==
    \/ LoopStep \/ connectionRequest \/ RequestRefused \/ KeepAliveStep \/ FetchStep
    \/ \E k \in Conns : SwitchbackStep(k) \/ ConnectionBreaks(k) \/ ServerGivesUp(k)
                         \/ handlePutCapabilitiesRequest(k) \/ CapabilitiesLost(k)
    \/ refreshStatus \/ sendUpdates \/ sendMeasurement \/ AddressChanges
    \/ WorldChanges \/ Rests

Spec == Init /\ [][Next]_agentVars

(* Goroutines run, timers fire and the server answers an open connection; the   *)
(* environment owes nothing.                                                    *)
FairSpec ==
    /\ Spec
    /\ WF_agentVars(LoopStep)
    /\ WF_agentVars(KeepAliveStep)
    /\ \A k \in Conns : WF_agentVars(SwitchbackStep(k)) /\ WF_agentVars(handlePutCapabilitiesRequest(k) \/ CapabilitiesLost(k))
    /\ WF_agentVars(FetchStep)
    /\ WF_agentVars(sendUpdates)

-----------------------------------------------------------------------------
(* Properties                                                                  *)

TypeOK ==
    /\ deployment \in Deployments
    /\ world \in [DOMAIN candidates -> Worlds]
    /\ conns \in [Conns -> [cand: 0..Len(candidates), st: {"shaking", "open", "silent", "closed", "reset"}, caps: BOOLEAN]]
    /\ loop \in [pc: {"top", "dial", "handshake", "request", "handover", "wait", "finished"},
                 at: 0..Len(candidates), conn: Conns \cup {None}, err: {None, "timeout", "other"},
                 tries: 0..DefaultMaxRetryAttempts, attempt: Nat]
    /\ channel \in {<<>>} \cup {<<k>> : k \in Conns}
    /\ poller \in [Conns -> [pc: {"none", "timer", "handshake", "handing", "closing"},
                            new: Conns \cup {None}, done: BOOLEAN]]
    /\ sshConn \in {None, loop.conn}
    /\ updates.conn \in {None, sshConn} /\ fetcher.conn \in {None, sshConn} /\ monitor.conn \in {None, sshConn}

(* docs/anonymous-transport.md, candidates: whenever a sweep ends in a           *)
(* connection over some transport, every server was tried and failed over every  *)
(* earlier transport in that same sweep. A refusal is no failure.                *)
PrivacyFirst ==
    loop.pc = "request" /\ conns[loop.conn].cand = loop.at /\ loop.at # 1 =>
        LET t == candidates[loop.at].t
        IN \A i \in 1..(t - 1) : \A j \in DOMAIN deployment.servers :
              [t |-> i, s |-> deployment.servers[j]] \in swept

(* What runs beside a connection follows it. monitor.Start, Stop: as long as no   *)
(* request outlives its connection and the reply to new_connection can be         *)
(* decoded, one measuring loop at most runs, and none while the agent is not      *)
(* connected. Fetcher.current, "the last set of addresses  *)
(* the server was successfully told about": true while connections do not fall    *)
(* silent.                                                                        *)
ReportersFollow ==
    /\ TypeOK
    /\ ~deployment.late /\ "garbled" \notin deployment.faults => monitor.orphans = 0 /\ (monitor.owned => loop.pc \in {"handover", "wait"})
    /\ "quiet" \notin deployment.faults => fetcher.current = server.address

Reachable == \E i \in DOMAIN world : world[i] = "up" /\ verifyServer("up")
Stuck == \E i \in DOMAIN world : world[i] \in {"silent", "refusing"}

(* connectionLoop: an agent without a limit is connected again and again for as  *)
(* long as some candidate answers and none stalls or refuses, however its        *)
(* connections were lost; with keep-alives that includes silent peers. With      *)
(* max_retry_count it stops when every dial fails and its connections are gone,   *)
(* although timeouts restart the count.                                          *)
Reconnects ==
    /\ deployment.maxRetry < 0 /\ (deployment.keepAlive \/ "quiet" \notin deployment.faults) /\ ([]<>(Reachable /\ ~Stuck))
        => []<>(loop.pc = "wait" /\ Open(loop.conn))
    /\ deployment.maxRetry >= 0 /\ <>[](\A i \in DOMAIN world : world[i] = "down")
                                /\ <>[](\A k \in Conns : ~Open(k))
        => <>(loop.pc = "finished")

(* updates.SetConn: the server has the latest updates status again and again,    *)
(* although the status may be read while there is no connection.                 *)
UpdatesReachServer ==
    "updates" \in deployment.reports /\ (deployment.keepAlive \/ "quiet" \notin deployment.faults)
        => []<>(server.updates = updates.status \/ loop.pc = "finished")

(* docs/anonymous-transport.md: "while connected to any other, so a transient    *)
(* Tor or VPN outage heals itself".                                              *)
SwitchesBack ==
    deployment.switchback /\ <>[](world # <<>> /\ world[1] = "up" /\ ~Stuck)
        => <>[](loop.pc = "wait" /\ conns[loop.conn].cand = 1)
=============================================================================
