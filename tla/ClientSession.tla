--------------------------- MODULE ClientSession ---------------------------
(***************************************************************************)
(* The lifecycle of agent sessions on the server: handleWebsocket and      *)
(* handleSSHRequests (server/client_listener.go), StartClient, Terminate   *)
(* and the deletions (server/clients/client_service.go), the repository    *)
(* with its map in memory and its table in SQLite (server/clients/cr.go,   *)
(* sqlite.go, init.go), the status check (server/client_status_check.go)   *)
(* and the purge of obsolete clients.                                      *)
(*                                                                         *)
(* A Client is a heap object shared by pointer.  An object is named after  *)
(* the connection whose StartClient allocates it, or after its client id   *)
(* when it was loaded from the table at boot, so that two objects with one *)
(* id are told apart exactly as pointers are.                              *)
(***************************************************************************)
EXTENDS Integers, Sequences, FiniteSets

CONSTANTS
    Conns,       \* SSH connections, each used once
    Ids,         \* client ids
    IdOf,        \* the client id a connection claims
    AuthOf,      \* the credential it authenticated with
    Sessions,    \* session ids of agent processes
    Workers,     \* goroutines of the API, the status check and the purge
    None,
    MaxClock,    \* bound on the clock
    MaxInbox,    \* bound on the requests queued on a connection
    Deployments  \* the deployments considered

AllOps == {"again", "update", "status", "timeout", "force", "offline", "acl",
           "purge", "crash", "fail"}

\* conns: the connections made; sessionOf: the session id the process behind a
\* connection resends on every reconnect, None for one that sends none; stored:
\* the ids the table may hold at boot; keep: keep_disconnected_clients, or None
\* when nothing is purged; multiuse: auth_multiuse_creds; ops: the optional
\* operations that happen.
Deployment ==
    [conns : SUBSET Conns, sessionOf : [Conns -> Sessions \cup {None}],
     stored : SUBSET Ids, keep : Nat \cup {None}, multiuse : BOOLEAN,
     ops : SUBSET AllOps]

ASSUME ConstantsAssumption ==
    /\ IdOf \in [Conns -> Ids]
    /\ Conns \cap Ids = {} /\ Conns \cap Workers = {}
    /\ \A k \in Conns : <<"req", k>> \notin Conns \cup Workers
    /\ None \notin Conns \cup Ids \cup Workers \cup Sessions \cup Nat
    /\ None \notin {AuthOf[k] : k \in Conns}
    /\ None \notin [at : Nat \cup {None}, auth : {AuthOf[k] : k \in Conns}]
    /\ MaxClock \in Nat /\ MaxInbox \in Nat
    /\ Deployments \subseteq Deployment

VARIABLES
    deployment, \* the one the server runs in
    link,   \* per connection: "none", "up", "half" (agent gone), "down"
    inbox,  \* requests queued for handleSSHRequests, oldest first
    pc,     \* where each goroutine is
    tgt,    \* the Client object it holds
    pinged, \* the connection a status check is pinging
    doomed, \* the ids a purge has still to remove from memory
    lock,   \* startLocks: the connection holding the lock of a client id
    obj,    \* Client objects: DisconnectedAt, Connection, SessionID, ClientAuthID
    mem,    \* clientState: id -> object
    store,  \* the clients table: id -> row
    clock

repo == <<mem, store>>
vars == <<deployment, link, inbox, pc, tgt, pinged, doomed, lock, obj, mem, store, clock>>

SessionOf == deployment.sessionOf
Keep == deployment.keep
Multiuse == deployment.multiuse
Ops == deployment.ops

Objects == Conns \cup Ids
Auths == {AuthOf[k] : k \in Conns}
Req(k) == <<"req", k>>
Handlers == {Req(k) : k \in Conns}
Procs == Conns \cup Handlers \cup Workers
Requests == {"ping", "again", "update"}

Object(at, conn, session, auth) ==
    [at |-> at, conn |-> conn, session |-> session, auth |-> auth]
Row(o) == [at |-> obj[o].at, auth |-> obj[o].auth]
NoObject == Object(0, None, None, None)

IdOfObject(o) == IF o \in Conns THEN IdOf[o] ELSE o
-----------------------------------------------------------------------------
IsConnected(o) == obj[o].at = None

\* Client.Obsolete, and the same comparison in the queries of sqlite.go.
Expired(at) == at # None /\ Keep # None /\ at + Keep < clock
Obsolete(o) == Expired(obj[o].at)

GetByID(i) == IF mem[i] = None \/ Obsolete(mem[i]) THEN None ELSE mem[i]
GetActiveByID(i) == IF mem[i] = None \/ ~IsConnected(mem[i]) THEN None ELSE mem[i]
GetAllActiveClients == {o \in Objects : \E i \in Ids : mem[i] = o /\ IsConnected(o)}
GetAllClients == {o \in Objects : \E i \in Ids : mem[i] = o /\ ~Obsolete(o)}

isClientAuthIDInUse(auth, i) ==
    \E o \in GetAllClients : obj[o].auth = auth /\ IdOfObject(o) # i

SetDisconnectedAt(o, at) == obj' = [obj EXCEPT ![o].at = at]

\* LoadInitialClients: rows of connected clients are stamped with the current
\* time, in the table too; obsolete rows are not loaded.
Stamp(row) == IF row = None THEN None ELSE IF row.at = None THEN [row EXCEPT !.at = clock] ELSE row
Loaded(row) == row # None /\ ~Expired(row.at)
LoadInitialClients(rows) ==
    /\ store' = [i \in Ids |-> IF Loaded(rows[i]) THEN Stamp(rows[i]) ELSE rows[i]]
    /\ mem' = [i \in Ids |-> IF Loaded(rows[i]) THEN i ELSE None]
    /\ obj' = [o \in Objects |->
                 IF o \in Ids /\ Loaded(rows[o])
                 THEN Object(Stamp(rows[o]).at, None, None, rows[o].auth)
                 ELSE NoObject]

\* The server boots on a table that may hold disconnected clients.
Init ==
    /\ deployment \in Deployments
    /\ clock = 0
    /\ store \in [Ids -> {None} \cup [at : {0}, auth : Auths]]
    /\ \A i \in Ids : store[i] # None => i \in deployment.stored
    /\ mem = [i \in Ids |-> IF store[i] = None THEN None ELSE i]
    /\ obj = [o \in Objects |->
                IF o \in Ids /\ store[o] # None
                THEN Object(0, None, None, store[o].auth) ELSE NoObject]
    /\ link = [k \in Conns |-> "none"]
    /\ inbox = [k \in Conns |-> <<>>]
    /\ pc = [p \in Procs |-> IF p \in Conns THEN "new" ELSE "idle"]
    /\ tgt = [p \in Procs |-> None]
    /\ pinged = [w \in Workers |-> None]
    /\ doomed = [w \in Workers |-> {}]
    /\ lock = [i \in Ids |-> None]
-----------------------------------------------------------------------------
(* The network and the agent. *)

\* One agent process: it resends its session id.
SameProcess(j, k) == SessionOf[k] # None /\ SessionOf[j] = SessionOf[k]

\* acceptSSHConnection and receiveClientConnectionRequest: the handshake is
\* done and new_connection received.  An agent process has one connection open
\* at a time; what the server still holds of an earlier one may be "half".
Connect(k) ==
    /\ pc[k] = "new" /\ k \in deployment.conns
    /\ \A j \in Conns : SameProcess(j, k) => link[j] # "up"
    /\ link' = [link EXCEPT ![k] = "up"]
    /\ pc' = [pc EXCEPT ![k] = "start"]
    /\ UNCHANGED <<inbox, tgt, pinged, doomed, lock, obj, repo, clock, deployment>>

\* The agent's end goes away; the server learns of it now or later.
AgentLeaves(k) ==
    /\ link[k] = "up"
    /\ link' = [link EXCEPT ![k] = "half"]
    /\ UNCHANGED <<inbox, pc, tgt, pinged, doomed, lock, obj, repo, clock, deployment>>

ServerNotices(k) ==
    /\ link[k] = "half"
    /\ link' = [link EXCEPT ![k] = "down"]
    /\ UNCHANGED <<inbox, pc, tgt, pinged, doomed, lock, obj, repo, clock, deployment>>

\* An agent repeats new_connection when the reply to it is late
\* (comm.WithRetry in client.sendConnectionRequest), pings and reports once
\* it has the reply.
Send(k, m) ==
    /\ link[k] = "up" /\ Len(inbox[k]) < MaxInbox
    /\ \/ m = "ping" /\ pc[k] = "serving"
       \/ m = "update" /\ pc[k] = "serving" /\ "update" \in Ops
       \/ m = "again" /\ pc[k] \notin {"serving", "refused"} /\ "again" \in Ops
    /\ inbox' = [inbox EXCEPT ![k] = Append(@, m)]
    /\ UNCHANGED <<link, pc, tgt, pinged, doomed, lock, obj, repo, clock, deployment>>

\* Time matters where clients expire.
Tick ==
    /\ clock < MaxClock /\ Keep # None
    /\ clock' = clock + 1
    /\ UNCHANGED <<link, inbox, pc, tgt, pinged, doomed, lock, obj, repo, deployment>>
-----------------------------------------------------------------------------
(* StartClient, under the lock of the client id. *)

Starting(p) == p \in Conns /\ lock[IdOf[p]] = p

Unlock(k) == lock' = [lock EXCEPT ![IdOf[k]] = None]

\* Mutant: a client connected under another session id is not refused.
RefusedByCredential(k) ==
    LET o == GetByID(IdOf[k]) IN
    /\ o # None
    /\ ~Multiuse /\ obj[o].auth # None /\ obj[o].auth # AuthOf[k]

\* An agent that sends no session id resumes nothing.
sessionReUsed(o, k) == SessionOf[k] # None /\ obj[o].session = SessionOf[k]

\* The connection is refused: an error reply, and the handler returns without
\* closing the connection.
Refused(k) ==
    LET o == GetByID(IdOf[k]) IN
    /\ o # None
    /\ \/ IsConnected(o) /\ ~sessionReUsed(o, k)
       \/ ~Multiuse /\ obj[o].auth # None /\ obj[o].auth # AuthOf[k]

Refuse(k) ==
    /\ pc[k] = "start" /\ lock[IdOf[k]] = None
    /\ Refused(k)
    /\ pc' = [pc EXCEPT ![k] = "refused"]
    /\ UNCHANGED <<link, inbox, tgt, pinged, doomed, lock, obj, repo, clock, deployment>>

\* Mutant: a reconnect allocates a new object instead of reusing the existing one.
LookupForgets(k) ==
    /\ pc[k] = "start" /\ lock[IdOf[k]] = None
    /\ ~Refused(k)
    /\ lock' = [lock EXCEPT ![IdOf[k]] = k]
    /\ tgt' = [tgt EXCEPT ![k] = None]
    /\ pc' = [pc EXCEPT ![k] = "register"]
    /\ UNCHANGED <<link, inbox, pinged, doomed, obj, repo, clock, deployment>>

Lookup(k) ==
    LET o == GetByID(IdOf[k]) IN
    /\ pc[k] = "start" /\ lock[IdOf[k]] = None
    /\ ~Refused(k)
    /\ lock' = [lock EXCEPT ![IdOf[k]] = k]
    /\ tgt' = [tgt EXCEPT ![k] = o]
    /\ pc' = [pc EXCEPT ![k] = "register"]
    /\ UNCHANGED <<link, inbox, pinged, doomed, obj, repo, clock, deployment>>

\* excludeNotAllowedTunnels asks the agent about each stored tunnel.
FilterFails(k) ==
    /\ pc[k] = "register" /\ tgt[k] # None /\ link[k] # "up"
    /\ pc' = [pc EXCEPT ![k] = "refused"]
    /\ Unlock(k)
    /\ UNCHANGED <<link, inbox, tgt, pinged, doomed, obj, repo, clock, deployment>>

AuthInUse(k) == ~Multiuse /\ isClientAuthIDInUse(AuthOf[k], IdOf[k])

RefuseAuth(k) ==
    /\ pc[k] = "register" /\ AuthInUse(k)
    /\ pc' = [pc EXCEPT ![k] = "refused"]
    /\ Unlock(k)
    /\ UNCHANGED <<link, inbox, tgt, pinged, doomed, obj, repo, clock, deployment>>

\* NewClientFromConnRequest and SetConnected: the existing object is
\* overwritten in place, a new one is named after the connection.  The tunnels
\* are opened next.
Register(k) ==
    LET o == IF tgt[k] = None THEN k ELSE tgt[k] IN
    /\ pc[k] = "register" /\ ~AuthInUse(k)
    /\ obj' = [obj EXCEPT ![o] = Object(None, k, SessionOf[k], AuthOf[k])]
    /\ tgt' = [tgt EXCEPT ![k] = o]
    /\ pc' = [pc EXCEPT ![k] = "save"]
    /\ UNCHANGED <<link, inbox, pinged, doomed, lock, repo, clock, deployment>>

\* Mutant: an early return that keeps the lock.
OpenFailsLocked(k) ==
    /\ pc[k] = "save" /\ Starting(k) /\ "fail" \in Ops
    /\ pc' = [pc EXCEPT ![k] = "refused"]
    /\ UNCHANGED <<link, inbox, tgt, pinged, doomed, lock, obj, repo, clock, deployment>>

\* startClientTunnels fails; what Register wrote stays.
OpenFails(k) ==
    /\ pc[k] = "save" /\ Starting(k) /\ "fail" \in Ops
    /\ pc' = [pc EXCEPT ![k] = "refused"]
    /\ Unlock(k)
    /\ UNCHANGED <<link, inbox, tgt, pinged, doomed, obj, repo, clock, deployment>>
-----------------------------------------------------------------------------
(* ClientRepository.Save and Delete: the table first, then the map. *)

\* What a goroutine does when Save or Delete returns.
Return(p) ==
    /\ pc' = [pc EXCEPT ![p] = CASE Starting(p) -> "serving"
                                 [] p \in Conns /\ ~Starting(p) -> "done"
                                 [] OTHER -> "idle"]
    /\ IF Starting(p)
       THEN Unlock(p) /\ UNCHANGED tgt
       ELSE tgt' = [tgt EXCEPT ![p] = None] /\ UNCHANGED lock

SaveStore(p) ==
    /\ pc[p] = "save"
    /\ store' = [store EXCEPT ![IdOfObject(tgt[p])] = Row(tgt[p])]
    /\ pc' = [pc EXCEPT ![p] = "cache"]
    /\ UNCHANGED <<link, inbox, tgt, pinged, doomed, lock, obj, mem, clock, deployment>>

\* SQLite returns an error; the map is left alone.
StoreFails(p) ==
    /\ pc[p] \in {"save", "delete"} /\ "fail" \in Ops
    /\ IF Starting(p)
       THEN Unlock(p) /\ pc' = [pc EXCEPT ![p] = "refused"] /\ UNCHANGED tgt
       ELSE Return(p)
    /\ UNCHANGED <<link, inbox, pinged, doomed, obj, repo, clock, deployment>>

SaveMem(p) ==
    /\ pc[p] = "cache"
    /\ mem' = [mem EXCEPT ![IdOfObject(tgt[p])] = tgt[p]]
    /\ Return(p)
    /\ UNCHANGED <<link, inbox, pinged, doomed, obj, store, clock, deployment>>

DeleteStore(p) ==
    /\ pc[p] = "delete"
    /\ store' = [store EXCEPT ![IdOfObject(tgt[p])] = None]
    /\ pc' = [pc EXCEPT ![p] = "remove"]
    /\ UNCHANGED <<link, inbox, tgt, pinged, doomed, lock, obj, mem, clock, deployment>>

RemoveMem(p) ==
    /\ pc[p] = "remove"
    /\ mem' = [mem EXCEPT ![IdOfObject(tgt[p])] = None]
    /\ Return(p)
    /\ UNCHANGED <<link, inbox, pinged, doomed, obj, store, clock, deployment>>
-----------------------------------------------------------------------------
(* handleWebsocket after sshConn.Wait: reap only if this connection is still *)
(* the client's current one.                                                 *)

WaitReturns(k) ==
    /\ pc[k] = "serving" /\ link[k] = "down"
    /\ pc' = [pc EXCEPT ![k] = IF obj[tgt[k]].conn = k THEN "terminate" ELSE "done"]
    /\ UNCHANGED <<link, inbox, tgt, pinged, doomed, lock, obj, repo, clock, deployment>>

\* Terminate, called by the handler of a connection or, after a repeated
\* new_connection, by its request handler.
Terminate(p) ==
    /\ pc[p] = "terminate"
    /\ IF Keep = 0
       THEN pc' = [pc EXCEPT ![p] = "delete"] /\ UNCHANGED obj
       ELSE pc' = [pc EXCEPT ![p] = "exists"] /\ SetDisconnectedAt(tgt[p], clock)
    /\ UNCHANGED <<link, inbox, tgt, pinged, doomed, lock, repo, clock, deployment>>

\* "Do not save if client doesn't exist in repo - it was force deleted".
CheckExists(p) ==
    /\ pc[p] = "exists"
    /\ IF GetByID(IdOfObject(tgt[p])) = None
       THEN Return(p)
       ELSE pc' = [pc EXCEPT ![p] = "save"] /\ UNCHANGED <<tgt, lock>>
    /\ UNCHANGED <<link, inbox, pinged, doomed, obj, repo, clock, deployment>>
-----------------------------------------------------------------------------
(* handleSSHRequests: it runs from the end of StartClient, looks the client  *)
(* up by id, and also works off what was queued before the connection went.  *)

Receive(k, m) ==
    /\ pc[k] \in {"serving", "terminate", "exists", "save", "cache", "delete", "remove", "done"}
    /\ ~Starting(k) /\ pc[Req(k)] = "idle"
    /\ inbox[k] # <<>> /\ Head(inbox[k]) = m
    /\ inbox' = [inbox EXCEPT ![k] = Tail(@)]

\* SetLastHeartbeat clears DisconnectedAt.
HandlePing(k) ==
    LET o == GetByID(IdOf[k]) IN
    /\ Receive(k, "ping")
    /\ IF o = None THEN UNCHANGED obj ELSE SetDisconnectedAt(o, None)
    /\ UNCHANGED <<link, pc, tgt, pinged, doomed, lock, repo, clock, deployment>>

HandleNewConnection(k) ==
    LET o == GetActiveByID(IdOf[k]) IN
    /\ Receive(k, "again")
    /\ tgt' = [tgt EXCEPT ![Req(k)] = o]
    /\ pc' = [pc EXCEPT ![Req(k)] = IF o = None THEN "idle" ELSE "terminate"]
    /\ UNCHANGED <<link, pinged, doomed, lock, obj, repo, clock, deployment>>

\* SetUpdatesStatus and SetIPAddresses.
HandleUpdate(k) ==
    LET o == GetByID(IdOf[k]) IN
    /\ Receive(k, "update")
    /\ tgt' = [tgt EXCEPT ![Req(k)] = o]
    /\ pc' = [pc EXCEPT ![Req(k)] = IF o = None THEN "idle" ELSE "save"]
    /\ UNCHANGED <<link, pinged, doomed, lock, obj, repo, clock, deployment>>
-----------------------------------------------------------------------------
(* The status check: getDueClients, then PingClients. *)

Hold(w, o, next) ==
    /\ pc[w] = "idle"
    /\ tgt' = [tgt EXCEPT ![w] = o]
    /\ pc' = [pc EXCEPT ![w] = next]

GetDueClient(w, o) ==
    /\ "status" \in Ops
    /\ o \in GetAllActiveClients
    /\ Hold(w, o, "due")
    /\ UNCHANGED <<link, inbox, pinged, doomed, lock, obj, repo, clock, deployment>>

Ping(w) ==
    /\ pc[w] = "due"
    /\ pinged' = [pinged EXCEPT ![w] = obj[tgt[w]].conn]
    /\ pc' = [pc EXCEPT ![w] = "pinging"]
    /\ UNCHANGED <<link, inbox, tgt, doomed, lock, obj, repo, clock, deployment>>

PingAnswered(w) ==
    /\ pc[w] = "pinging" /\ pinged[w] # None /\ link[pinged[w]] = "up"
    /\ pc' = [pc EXCEPT ![w] = "alive"]
    /\ UNCHANGED <<link, inbox, tgt, pinged, doomed, lock, obj, repo, clock, deployment>>

\* SetHeartbeatNow.
MarkAlive(w) ==
    /\ pc[w] = "alive"
    /\ SetDisconnectedAt(tgt[w], None)
    /\ pc' = [pc EXCEPT ![w] = "idle"]
    /\ tgt' = [tgt EXCEPT ![w] = None]
    /\ pinged' = [pinged EXCEPT ![w] = None]
    /\ UNCHANGED <<link, inbox, doomed, lock, repo, clock, deployment>>

\* Mutant: a failed ping closes the connection only.
PingFailsUnmarked(w) ==
    /\ pc[w] = "pinging"
    /\ pinged[w] = None \/ link[pinged[w]] # "up" \/ "timeout" \in Ops
    /\ pc' = [pc EXCEPT ![w] = "closing"]
    /\ UNCHANGED <<link, inbox, tgt, pinged, doomed, lock, obj, repo, clock, deployment>>

\* The connection is gone, or the agent answers later than the timeout.
PingFails(w) ==
    /\ pc[w] = "pinging"
    /\ pinged[w] = None \/ link[pinged[w]] # "up" \/ "timeout" \in Ops
    /\ SetDisconnectedAt(tgt[w], clock)
    /\ pc' = [pc EXCEPT ![w] = "closing"]
    /\ UNCHANGED <<link, inbox, tgt, pinged, doomed, lock, repo, clock, deployment>>

\* Client.Close closes the connection the client has now.
CloseUnresponsive(w) ==
    LET k == obj[tgt[w]].conn IN
    /\ pc[w] = "closing"
    /\ link' = [j \in Conns |-> IF j = k THEN "down" ELSE link[j]]
    /\ pc' = [pc EXCEPT ![w] = "idle"]
    /\ tgt' = [tgt EXCEPT ![w] = None]
    /\ pinged' = [pinged EXCEPT ![w] = None]
    /\ UNCHANGED <<inbox, doomed, lock, obj, repo, clock, deployment>>
-----------------------------------------------------------------------------
(* The API. *)

\* ForceDelete, for each client of a deleted credential.
ForceDelete(w, o) ==
    /\ "force" \in Ops
    /\ o \in GetAllClients
    /\ Hold(w, o, "delete")
    /\ link' = [j \in Conns |-> IF IsConnected(o) /\ j = obj[o].conn THEN "down" ELSE link[j]]
    /\ UNCHANGED <<inbox, pinged, doomed, lock, obj, repo, clock, deployment>>

DeleteOffline(w, i) ==
    LET o == GetByID(i) IN
    /\ "offline" \in Ops
    /\ o # None /\ ~IsConnected(o)
    /\ Hold(w, o, "delete")
    /\ UNCHANGED <<link, inbox, pinged, doomed, lock, obj, repo, clock, deployment>>

SetACL(w, i) ==
    LET o == GetByID(i) IN
    /\ "acl" \in Ops
    /\ o # None
    /\ Hold(w, o, "save")
    /\ UNCHANGED <<link, inbox, pinged, doomed, lock, obj, repo, clock, deployment>>
-----------------------------------------------------------------------------
(* DeleteObsolete: the table, then the objects found obsolete, by their id. *)

PurgeStore(w) ==
    /\ "purge" \in Ops /\ pc[w] = "idle"
    /\ store' = [i \in Ids |-> IF store[i] # None /\ Expired(store[i].at) THEN None ELSE store[i]]
    /\ pc' = [pc EXCEPT ![w] = "query"]
    /\ UNCHANGED <<link, inbox, tgt, pinged, doomed, lock, obj, mem, clock, deployment>>

PurgeQuery(w) ==
    /\ pc[w] = "query"
    /\ doomed' = [doomed EXCEPT ![w] = {i \in Ids : mem[i] # None /\ Obsolete(mem[i])}]
    /\ pc' = [pc EXCEPT ![w] = "purge"]
    /\ UNCHANGED <<link, inbox, tgt, pinged, lock, obj, repo, clock, deployment>>

PurgeRemove(w, i) ==
    /\ pc[w] = "purge" /\ i \in doomed[w]
    /\ mem' = [mem EXCEPT ![i] = None]
    /\ doomed' = [doomed EXCEPT ![w] = @ \ {i}]
    /\ UNCHANGED <<link, inbox, pc, tgt, pinged, lock, obj, store, clock, deployment>>

PurgeDone(w) ==
    /\ pc[w] = "purge" /\ doomed[w] = {}
    /\ pc' = [pc EXCEPT ![w] = "idle"]
    /\ UNCHANGED <<link, inbox, tgt, pinged, doomed, lock, obj, repo, clock, deployment>>
-----------------------------------------------------------------------------
\* The server is killed and started again: only the table survives.
Crash ==
    /\ "crash" \in Ops
    /\ LoadInitialClients(store)
    /\ link' = [k \in Conns |-> IF link[k] = "none" THEN "none" ELSE "down"]
    /\ inbox' = [k \in Conns |-> <<>>]
    /\ pc' = [p \in Procs |-> IF p \notin Conns THEN "idle" ELSE
                                IF pc[p] = "new" THEN "new" ELSE "done"]
    /\ tgt' = [p \in Procs |-> None]
    /\ pinged' = [w \in Workers |-> None]
    /\ doomed' = [w \in Workers |-> {}]
    /\ lock' = [i \in Ids |-> None]
    /\ UNCHANGED <<clock, deployment>>
-----------------------------------------------------------------------------
Network(k) ==
    \/ Connect(k) \/ AgentLeaves(k) \/ ServerNotices(k)
    \/ \E m \in Requests : Send(k, m)

StartClient(k) ==
    \/ Refuse(k) \/ Lookup(k) \/ FilterFails(k)
    \/ RefuseAuth(k) \/ Register(k) \/ OpenFails(k)

Save(p) == SaveStore(p) \/ StoreFails(p) \/ SaveMem(p)
Delete(p) == DeleteStore(p) \/ RemoveMem(p)

Serve(k) ==
    \/ WaitReturns(k)
    \/ HandlePing(k) \/ HandleNewConnection(k) \/ HandleUpdate(k)

Check(w) ==
    \/ Ping(w) \/ PingAnswered(w) \/ MarkAlive(w)
    \/ PingFails(w) \/ CloseUnresponsive(w)

API(w) ==
    \/ \E o \in Objects : ForceDelete(w, o)
    \/ \E i \in Ids : DeleteOffline(w, i) \/ SetACL(w, i)

Purge(w) ==
    \/ PurgeStore(w) \/ PurgeQuery(w) \/ PurgeDone(w)
    \/ \E i \in Ids : PurgeRemove(w, i)

Next ==
    \/ \E k \in Conns : Network(k) \/ StartClient(k) \/ Serve(k)
    \/ \E p \in Procs : Save(p) \/ Delete(p) \/ Terminate(p) \/ CheckExists(p)
    \/ \E w \in Workers : Check(w) \/ API(w) \/ Purge(w)
    \/ \E w \in Workers, o \in Objects : GetDueClient(w, o)
    \/ Tick \/ Crash

Spec == Init /\ [][Next]_vars

\* Goroutines run on; the status check visits every active client in every
\* round; an agent that stays connected pings again and again.
Fairness ==
    /\ \A k \in Conns : /\ WF_vars(StartClient(k)) /\ WF_vars(WaitReturns(k))
                         /\ WF_vars(HandlePing(k)) /\ WF_vars(HandleNewConnection(k))
                         /\ WF_vars(HandleUpdate(k)) /\ WF_vars(Send(k, "ping"))
    /\ \A p \in Procs : WF_vars(Save(p) \/ Delete(p) \/ Terminate(p) \/ CheckExists(p))
    /\ \A w \in Workers : WF_vars(Check(w))
    /\ \A w \in Workers, o \in Objects : SF_vars(GetDueClient(w, o))

FairSpec == Spec /\ Fairness
-----------------------------------------------------------------------------
(* Properties. *)

\* The variables hold what the Go types allow: objects, rows and connections
\* of the right kind, and goroutines at a statement of their own code.
TypeOK ==
    /\ deployment \in Deployments
    /\ link \in [Conns -> {"none", "up", "half", "down"}]
    /\ inbox \in [Conns -> Seq(Requests)]
    /\ pc \in [Procs -> {"new", "idle", "start", "register", "save", "cache",
                        "delete", "remove", "serving", "terminate", "exists", "refused", "done",
                        "due", "pinging", "alive", "closing", "query", "purge"}]
    /\ tgt \in [Procs -> Objects \cup {None}]
    /\ pinged \in [Workers -> Conns \cup {None}]
    /\ doomed \in [Workers -> SUBSET Ids]
    /\ lock \in [Ids -> Conns \cup {None}]
    /\ obj \in [Objects -> [at : 0..MaxClock \cup {None}, conn : Conns \cup {None},
                            session : Sessions \cup {None}, auth : Auths \cup {None}]]
    /\ mem \in [Ids -> Objects \cup {None}]
    /\ store \in [Ids -> {None} \cup [at : 0..MaxClock \cup {None}, auth : Auths]]
    /\ clock \in 0..MaxClock

\* The deployment the proofs are about: every connection comes from an agent
\* process of its own, nothing deletes clients, and saves, tunnels and the
\* server itself may fail.
SerialSessions ==
    /\ \A j, k \in Conns : SameProcess(j, k) => j = k
    /\ Keep = None
    /\ Ops \subseteq {"fail", "crash", "acl", "update"}

Live(k) == pc[k] = "serving" /\ link[k] = "up"

\* startLocks: "Two connections racing the same clientID would otherwise both read
\* "not connected" and both register".  Among agent processes that each connect
\* once, as a restarted or a copied agent does, no two live connections serve one
\* client id, whatever saves fail, whenever the server restarts, and also where a
\* client is deleted as it disconnects (keep_disconnected_clients 0).  In each of
\* the cases left out two can be live: a deletion or a purge that checked the client
\* before another connection registered it, a client that expires while it is being
\* saved, one the status check set aside, a repeated new_connection, and the late
\* teardown of a connection that its own process has resumed.
OneLiveSession ==
    (/\ \A j, k \in Conns : SameProcess(j, k) => j = k
     /\ Ops \subseteq {"fail", "crash", "acl", "update"}
     /\ Keep = None \/ (Keep = 0 /\ Ops \subseteq {"fail", "crash"}))
        => \A j, k \in Conns : Live(j) /\ Live(k) /\ IdOf[j] = IdOf[k] => j = k

\* StartClient's lock is never left behind: every early return, and a failure of
\* any later step, gives it back, so that the agent can try again.
LockOwner ==
    \A i \in Ids : lock[i] # None =>
        IdOf[lock[i]] = i /\ pc[lock[i]] \in {"register", "save", "cache"}

\* Client.Close relies on it: a client shown as connected has a connection, also
\* after a restart (LoadInitialClients stamps the restored ones).
ConnectedHasConnection ==
    SerialSessions => \A o \in GetAllActiveClients : obj[o].conn # None

\* The client of a live session is the one the repository finds under its id:
\* its own object, with its own connection, shown as connected, and in the table
\* with its own credential, so that a restart does not forget it.
LiveIsCurrent ==
    SerialSessions => \A k \in Conns : Live(k) =>
        LET i == IdOf[k] IN
        /\ mem[i] = tgt[k]
        /\ obj[mem[i]].conn = k /\ IsConnected(mem[i])
        /\ store[i] # None /\ store[i].auth = AuthOf[k]

Lasting == Keep = None /\ Ops \cap {"force", "offline", "purge"} = {}

\* What is shown follows what is. A client whose connection is gone does not stay
\* shown as connected. Where nothing deletes clients, a client that stays connected
\* is shown as connected, whatever late teardown or failed ping of an earlier
\* connection marked it disconnected.
StatusFollows ==
    /\ \A i \in Ids :
          LET Stale == "status" \in Ops /\ mem[i] # None /\ IsConnected(mem[i])
                       /\ (obj[mem[i]].conn = None \/ link[obj[mem[i]].conn] # "up")
          IN  Stale ~> ~Stale
    /\ \A k \in Conns :
          Lasting /\ Live(k) ~> (~Live(k) \/ (mem[IdOf[k]] # None /\ IsConnected(mem[IdOf[k]])))
-----------------------------------------------------------------------------
Holding(p) == ~Starting(p) /\ pc[p] \in {"terminate", "exists", "save", "cache"}
Serving(k) == pc[k] \in {"serving", "terminate"}

\* Only the operations of this deployment are under way or queued.
PcOK ==
    \A p \in Procs : pc[p] \in
        IF p \in Conns
        THEN {"new", "start", "register", "save", "cache", "serving", "terminate",
              "exists", "refused", "done"}
        ELSE {"idle", "save", "cache"}
InboxOK == \A k \in Conns : inbox[k] \in Seq({"ping", "update"})

\* A queued request finds its client, and the client has had a connection.
QueueOK ==
    \A k \in Conns : inbox[k] # <<>> =>
        mem[IdOf[k]] # None /\ obj[mem[IdOf[k]]].conn # None

\* StartClient has looked the client up under the lock, and what it found is
\* still what the map holds.
RegisterOK ==
    \A k \in Conns : pc[k] = "register" => Starting(k) /\ tgt[k] = mem[IdOf[k]]

\* From then on the object is its own; no other object has taken the id.
StartOK ==
    \A k \in Conns : Starting(k) /\ pc[k] \in {"save", "cache"} =>
        /\ tgt[k] # None /\ IdOfObject(tgt[k]) = IdOf[k]
        /\ obj[tgt[k]].conn = k /\ IsConnected(tgt[k])
        /\ mem[IdOf[k]] \in {None, tgt[k]}
        /\ pc[k] = "cache" => store[IdOf[k]] # None /\ store[IdOf[k]].auth = AuthOf[k]

\* StartClient and a serving connection exclude each other.
AloneOK ==
    \A j, k \in Conns : Starting(k) /\ IdOf[j] = IdOf[k] => ~Serving(j)

\* Every other goroutine that holds an object holds the one in the map.
HoldOK ==
    \A p \in Procs : Holding(p) => tgt[p] # None /\ mem[IdOfObject(tgt[p])] = tgt[p]

ServeOK ==
    \A k \in Conns : Serving(k) =>
        /\ tgt[k] # None /\ mem[IdOf[k]] = tgt[k]
        /\ obj[tgt[k]].conn = k /\ IsConnected(tgt[k])
        /\ store[IdOf[k]] # None /\ store[IdOf[k]].auth = AuthOf[k]

\* An object carries the session and the credential of its connection.
ObjectOK ==
    \A o \in Objects :
        /\ obj[o].conn = None => obj[o].session = None
        /\ obj[o].conn # None =>
              /\ obj[o].session = SessionOf[obj[o].conn]
              /\ obj[o].auth = AuthOf[obj[o].conn]
              /\ pc[obj[o].conn] \notin {"new", "start"}

MemOK ==
    \A i \in Ids : mem[i] # None =>
        /\ IdOfObject(mem[i]) = i /\ obj[mem[i]].auth # None
        /\ IsConnected(mem[i]) => obj[mem[i]].conn # None

\* What StartClient under startLocks, the teardown and the saves of the other
\* goroutines keep together: LiveIsCurrent, OneLiveSession and
\* ConnectedHasConnection follow from it in the serial deployments.
SessionInv ==
    /\ PcOK /\ InboxOK /\ QueueOK /\ LockOwner /\ RegisterOK /\ StartOK
    /\ AloneOK /\ HoldOK /\ ServeOK /\ ObjectOK /\ MemOK

\* In a serial deployment StartClient, the teardown, the request handlers, SetACL,
\* failing saves and restarts never undo one another.
SerialInv == SerialSessions => SessionInv
=============================================================================
