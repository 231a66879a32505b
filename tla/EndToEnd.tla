------------------------------ MODULE EndToEnd ------------------------------
(* The agent's SSH server for end-to-end encrypted forwards: the host key it       *)
(* creates on its first start, also when two agents share a data directory or one  *)
(* of them ends between two steps, the logins of operators, whose keys are read    *)
(* from a file at every attempt, and the forwards to destinations that             *)
(* tunnel_allowed admits.                                                          *)
(*   db.key      the host key file: not there, begun, or a key;                    *)
(*   mem.agent   the processes, mem.bound the one that holds the listen address.   *)
EXTENDS Datagrams

NoKeyFile == 0
TornKey == 1
Processes == {1, 2}
Fresh == [pc |-> "read", key |-> 0, cancelled |-> FALSE]

EndToEndInit(deployments) ==
    /\ Started(deployments)
    /\ db = [key |-> setup.key, private |-> setup.private, authorized |-> setup.authorized]
    /\ mem = [agent |-> [a \in Processes |-> IF a <= setup.agents THEN Fresh ELSE [Fresh EXCEPT !.pc = "none"]], bound |-> 0, keys |-> 3]
    /\ ghost = [shown |-> {}]

OnE2E == Serves("end to end")
AtE2E(a, pc) == OnE2E /\ mem.agent[a].pc = pc
E2EGoes(a, pc) == mem' = [mem EXCEPT !.agent[a].pc = pc]
E2EStep == Quiet /\ UNCHANGED <<reqs, ghost>>

(* ---- start ----------------------------------------------------------------------------- *)
checkPrivate == db.private

(* A failure leaves the agent running without this server.                        *)
LoadOrCreateHostKey(a) ==
    /\ AtE2E(a, "read")
    /\ mem' = IF db.key = NoKeyFile THEN [mem EXCEPT !.agent[a].pc = "create"]
              ELSE IF checkPrivate /\ db.key # TornKey THEN [mem EXCEPT !.agent[a] = [@ EXCEPT !.pc = "keys", !.key = db.key]]
              ELSE [mem EXCEPT !.agent[a].pc = "off"]
    /\ UNCHANGED db /\ E2EStep

openHostKeyTruncating(a) ==
    /\ AtE2E(a, "create")
    /\ E2EGoes(a, "write") /\ db' = [db EXCEPT !.key = TornKey, !.private = TRUE]
    /\ E2EStep
(* The file is opened only if it is still not there, and then filled.             *)
openHostKey(a) ==
    /\ AtE2E(a, "create")
    /\ IF db.key = NoKeyFile THEN E2EGoes(a, "write") /\ db' = [db EXCEPT !.key = TornKey, !.private = TRUE]
       ELSE E2EGoes(a, "off") /\ UNCHANGED db
    /\ E2EStep
createHostKey(a) ==
    /\ AtE2E(a, "write")
    /\ mem' = [mem EXCEPT !.agent[a] = [@ EXCEPT !.pc = "keys", !.key = mem.keys], !.keys = @ + 1]
    /\ db' = [db EXCEPT !.key = mem.keys]
    /\ E2EStep
WriteKeyFails(a) ==
    /\ AtE2E(a, "write") /\ Fault("end to end", "disk")
    /\ E2EGoes(a, "off") /\ UNCHANGED <<db, reqs, ghost>>

readAuthorizedKeys == IF setup.readable THEN db.authorized ELSE {}
New(a) ==
    /\ AtE2E(a, "keys")
    /\ E2EGoes(a, IF setup.readable THEN "listen" ELSE "off")
    /\ UNCHANGED db /\ E2EStep

StartE2E(a) ==
    /\ AtE2E(a, "listen")
    /\ mem' = IF mem.bound = 0 THEN [mem EXCEPT !.agent[a].pc = "up", !.bound = a] ELSE [mem EXCEPT !.agent[a].pc = "off"]
    /\ UNCHANGED db /\ E2EStep

(* ---- stop and crash ---------------------------------------------------------------------- *)
Cancel(a) ==
    /\ OnE2E /\ setup.stops /\ mem.agent[a].pc # "none" /\ ~mem.agent[a].cancelled
    /\ mem' = [mem EXCEPT !.agent[a].cancelled = TRUE]
    /\ UNCHANGED db /\ E2EStep
(* The listener is closed, and with it the accept loop ends.                      *)
ListenerCloses(a) ==
    /\ AtE2E(a, "up") /\ mem.agent[a].cancelled
    /\ mem' = [mem EXCEPT !.agent[a].pc = "off", !.bound = 0]
    /\ UNCHANGED db /\ E2EStep
AgentCrashes(a) ==
    /\ OnE2E /\ mem.agent[a].pc \notin {"none", "read"} /\ Fault("end to end", "crash")
    /\ mem' = [mem EXCEPT !.agent[a] = Fresh, !.bound = IF @ = a THEN 0 ELSE @]
    /\ reqs' = [r \in Reqs |-> IF reqs[r] # Idle /\ reqs[r].by = a THEN Idle ELSE reqs[r]]
    /\ UNCHANGED <<db, ghost>>

(* ---- the operator ------------------------------------------------------------------------- *)
(* --e2e-fingerprint: another process, which reads the key and creates none.      *)
Fingerprint(r) ==
    /\ Arrives("end to end", r, "fingerprint")
    /\ db.key \notin {NoKeyFile, TornKey}
    /\ ghost' = [ghost EXCEPT !.shown = @ \cup {db.key}]
    /\ UNCHANGED <<db, mem, reqs>>
EditAuthorizedKeys(r, keys) ==
    /\ Arrives("end to end", r, "edit") /\ keys # db.authorized
    /\ db' = [db EXCEPT !.authorized = keys]
    /\ reqs' = [s \in Reqs |-> IF reqs[s] # Idle /\ reqs[s].pc = "handshake" THEN [reqs[s] EXCEPT !.may = @ \/ reqs[s].key \in keys] ELSE reqs[s]]
    /\ UNCHANGED <<mem, ghost>>

acceptLoop(r, a, key) ==
    /\ Arrives("end to end", r, "connect")
    /\ mem.agent[a].pc = "up"
    /\ Becomes(r, [pc |-> "handshake", by |-> a, key |-> key, may |-> key \in db.authorized, gone |-> FALSE, to |-> 0])
    /\ UNCHANGED <<db, mem, ghost>>

OfE2E(r, pc) == OnE2E /\ reqs[r] # Idle /\ reqs[r].pc = pc
SessionStep == Quiet /\ UNCHANGED <<db, mem>>

(* The operator's client sees the host key before it offers its own.              *)
checkPublicKey(r) ==
    /\ OfE2E(r, "handshake")
    /\ ghost' = [ghost EXCEPT !.shown = @ \cup {mem.agent[reqs[r].by].key}]
    /\ IF reqs[r].key \in readAuthorizedKeys THEN Goto(r, "open") ELSE Return(r)
    /\ SessionStep
HandshakeFails(r) ==
    /\ OfE2E(r, "handshake")
    /\ Return(r) /\ UNCHANGED ghost /\ SessionStep

(* The operator leaves, or the goroutine that waits for the context closes the    *)
(* session, in which a forward may still be under way.                            *)
handleConn(r) ==
    /\ OnE2E /\ reqs[r] # Idle /\ reqs[r].pc # "handshake" /\ ~reqs[r].gone
    /\ IF reqs[r].pc = "open" THEN Return(r) ELSE reqs' = [reqs EXCEPT ![r].gone = TRUE]
    /\ UNCHANGED ghost /\ SessionStep

(* ---- forwards ------------------------------------------------------------------------------ *)
Allowed(d) == TunnelIsAllowed(setup.allowed, d)
Forwardable(d) == d.parses /\ d.number # 0 /\ d.number <= 65535 /\ Allowed(d)

handleDirectTCPIP(r, d) ==
    /\ OfE2E(r, "open") /\ Forwardable(setup.dests[d])
    /\ reqs' = [reqs EXCEPT ![r] = [@ EXCEPT !.pc = "dial", !.to = d]]
    /\ UNCHANGED ghost /\ SessionStep

DialTimeout(r) ==
    /\ OfE2E(r, "dial")
    /\ \/ Goto(r, "accept")
       \/ IF reqs[r].gone THEN Return(r) ELSE Goto(r, "open")
    /\ UNCHANGED ghost /\ SessionStep
(* Where the session is gone, the connection to the destination is closed.        *)
AcceptChannel(r) ==
    /\ OfE2E(r, "accept")
    /\ IF reqs[r].gone THEN Return(r) ELSE Goto(r, "pipe")
    /\ UNCHANGED ghost /\ SessionStep
PipeEnds(r) ==
    /\ OfE2E(r, "pipe")
    /\ IF reqs[r].gone THEN Return(r) ELSE Goto(r, "open")
    /\ UNCHANGED ghost /\ SessionStep

EndToEndNext ==
    \/ \E a \in Processes : LoadOrCreateHostKey(a) \/ openHostKey(a) \/ createHostKey(a) \/ WriteKeyFails(a) \/ New(a) \/ StartE2E(a)
                            \/ Cancel(a) \/ ListenerCloses(a) \/ AgentCrashes(a)
    \/ \E r \in Reqs : \/ Fingerprint(r) \/ checkPublicKey(r) \/ HandshakeFails(r) \/ handleConn(r) \/ DialTimeout(r) \/ AcceptChannel(r) \/ PipeEnds(r)
                       \/ \E keys \in SUBSET {"op1", "op2"} : EditAuthorizedKeys(r, keys)
                       \/ \E a \in Processes, key \in {"op1", "op2"} : acceptLoop(r, a, key)
                       \/ \E d \in 1..4 : handleDirectTCPIP(r, d)

(* An operator pins the host key once: whatever a fingerprint command or a        *)
(* session has shown is the key in the file and of every later session, also when *)
(* two agents start at once on one directory or one ends while it writes. A login *)
(* succeeds only with a key that was in the file since the connection came, so a  *)
(* removed key opens nothing new. A destination is connected only where           *)
(* tunnel_allowed admits it, with its port as a number from 1 to 65535. And when  *)
(* agents that were told to stop have nothing left to do, no session and no       *)
(* forward is open and the address is free again.                                 *)
EndToEndHolds ==
    OnE2E =>
        /\ ghost.shown \subseteq {db.key}
        /\ \A r \in Reqs : reqs[r] # Idle /\ reqs[r].pc # "handshake" => reqs[r].may
        /\ \A r \in Reqs : reqs[r] # Idle /\ reqs[r].pc \in {"accept", "pipe"} =>
              Allowed(setup.dests[reqs[r].to]) /\ setup.dests[reqs[r].to].number \in 1..65535
        /\ (~ENABLED EndToEndNext /\ \A a \in Processes : mem.agent[a].cancelled \/ mem.agent[a].pc = "none") =>
              mem.bound = 0 /\ \A r \in Reqs : reqs[r] = Idle
=============================================================================
