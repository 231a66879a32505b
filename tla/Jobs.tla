-------------------------------- MODULE Jobs --------------------------------
(***************************************************************************)
(* Remote commands: single-client jobs, multi-client jobs started by       *)
(* request or over a web socket, concurrent or one client after the other, *)
(* the agent that runs and observes the command, and the way of its result *)
(* back into the jobs table, the web socket and the channel the sequential *)
(* loop waits on (server/api_helper_jobs.go, server/api_helper_commands.go,*)
(* server/api_handler_commands.go, server/client_listener.go,              *)
(* client/command.go, server/api/jobs/jobs.go, share/ws).                  *)
(*                                                                         *)
(* A run is one request; <<r, i>> is the job of its i-th target, with a    *)
(* job id of its own.                                                      *)
(***************************************************************************)
EXTENDS Integers, Sequences

CONSTANTS
    Clients,
    Runs,
    Targets,      \* per run: its ordered clients
    Kind,         \* per run: "single", "multi" (REST, schedule) or "ws"
    Concurrent,   \* runs with execute_concurrently
    AbortOnErr,   \* runs with abort_on_error
    Paused,       \* clients beyond the licensed number
    Deployments   \* the deployments considered

\* runs: the requests made; unseen: the clients that have not connected since the
\* server started; linkFails: connections may break; storeFails: writes of the
\* jobs table that may fail; crashes: the server may restart.
Deployment ==
    [runs : SUBSET Runs, unseen : SUBSET Clients, linkFails : BOOLEAN,
     storeFails : SUBSET {"create", "save"}, crashes : BOOLEAN]

ASSUME ConstantsAssumption ==
    /\ Targets \in [Runs -> Seq(Clients) \ {<<>>}]
    /\ Kind \in [Runs -> {"single", "multi", "ws"}]
    /\ \A r \in Runs : Kind[r] = "single" => Len(Targets[r]) = 1 /\ r \notin Concurrent
    /\ Concurrent \subseteq Runs /\ AbortOnErr \subseteq Runs /\ Paused \subseteq Clients
    /\ Deployments \subseteq Deployment

VARIABLES
    deployment,
    link,   \* per client: the connection its object holds
    exec,   \* per run: where its loop is
    pos,    \* per run: the target the loop is at
    call,   \* per job: where createAndRunJob is
    err,    \* per job: the error createAndRunJob has met
    cmd,    \* per job: the command on the agent
    msg,    \* per job: the result on its way
    res,    \* per job: the status the agent reports
    row,    \* per job: its status in the jobs table
    chan,   \* per run: the contents of its done channel
    reg,    \* runs whose channel is in jobsDoneChannel
    ui,     \* per run: its web socket
    left    \* per run: writesBeforeClose

vars == <<deployment, link, exec, pos, call, err, cmd, msg, res, row, chan, reg, ui, left>>
StoreFails == deployment.storeFails

agent == <<cmd, msg, res>>
socket == <<ui, left>>

Jobs == UNION {{<<r, i>> : i \in 1..Len(Targets[r])} : r \in Runs}
Client(j) == Targets[j[1]][j[2]]
Current(r) == <<r, pos[r]>>
Sequential == Runs \ Concurrent
Reported == {"successful", "failed", "unknown"}

Init ==
    /\ deployment \in Deployments
    /\ link = [c \in Clients |-> IF c \in deployment.unseen THEN "none" ELSE "up"]
    /\ exec = [r \in Runs |-> "idle"] /\ pos = [r \in Runs |-> 1]
    /\ call = [j \in Jobs |-> "idle"] /\ err = [j \in Jobs |-> "none"]
    /\ cmd = [j \in Jobs |-> "none"] /\ msg = [j \in Jobs |-> "none"]
    /\ res = [j \in Jobs |-> "none"] /\ row = [j \in Jobs |-> "none"]
    /\ chan = [r \in Runs |-> <<>>] /\ reg = {}
    /\ ui = [r \in Runs |-> "none"] /\ left = [r \in Runs |-> 0]

\* ConcurrentWebSocket: a final message counts towards closing it.
WriteJSON(r) ==
    /\ left' = [left EXCEPT ![r] = IF ui[r] = "none" THEN @ ELSE @ - 1]
    /\ ui' = [ui EXCEPT ![r] = IF @ = "open" /\ left[r] = 1 THEN "closed" ELSE @]

\* A result is shown on the web socket registered for its run: the handler of the
\* socket takes it out of uiJobWebSockets when it returns.
ShowResult(r) == IF exec[r] = "ended" THEN UNCHANGED socket ELSE WriteJSON(r)

Loop(r, label) == exec' = [exec EXCEPT ![r] = label]
-----------------------------------------------------------------------------
(* The loop over the targets of a run. *)

Begin(r) ==
    /\ exec[r] = "idle" /\ r \in deployment.runs
    /\ Loop(r, "next")
    /\ reg' = IF Kind[r] # "single" /\ r \in Sequential THEN reg \cup {r} ELSE reg
    /\ ui' = [ui EXCEPT ![r] = IF Kind[r] = "ws" THEN "open" ELSE "none"]
    /\ left' = [left EXCEPT ![r] = IF Kind[r] = "ws" THEN Len(Targets[r]) ELSE 0]
    /\ UNCHANGED <<link, pos, call, err, agent, row, chan, deployment>>

\* A concurrent run starts a goroutine per target and goes on.
Dispatch(r) ==
    /\ exec[r] = "next" /\ pos[r] <= Len(Targets[r])
    /\ call' = [call EXCEPT ![Current(r)] = "send"]
    /\ IF r \in Concurrent
       THEN pos' = [pos EXCEPT ![r] = @ + 1] /\ UNCHANGED exec
       ELSE Loop(r, "calling") /\ UNCHANGED pos
    /\ UNCHANGED <<link, err, agent, row, chan, reg, socket, deployment>>

NextTarget(r) ==
    /\ pos' = [pos EXCEPT ![r] = @ + 1]
    /\ Loop(r, "next")
    /\ UNCHANGED <<reg, ui>>

Abort(r) ==
    /\ Loop(r, "ended")
    /\ reg' = reg \ {r}
    /\ ui' = [ui EXCEPT ![r] = IF @ = "open" THEN "closed" ELSE @]
    /\ UNCHANGED pos

\* Mutant of Returned: the result is not waited for.
ReturnedNoWait(r) ==
    LET e == err[Current(r)] IN
    /\ exec[r] = "calling" /\ call[Current(r)] = "done"
    /\ CASE Kind[r] = "single" -> Loop(r, "ended") /\ UNCHANGED <<pos, reg, ui>>
         [] Kind[r] # "single" ->
              IF r \in AbortOnErr /\ e \notin {"none", "offline"} THEN Abort(r) ELSE NextTarget(r)
    /\ UNCHANGED <<link, call, err, agent, row, chan, left, deployment>>

\* createAndRunJob has returned to a sequential loop.
Returned(r) ==
    LET e == err[Current(r)] IN
    /\ exec[r] = "calling" /\ call[Current(r)] = "done"
    /\ CASE Kind[r] = "single" -> Loop(r, "ended") /\ UNCHANGED <<pos, reg, ui>>
         [] Kind[r] # "single" /\ e = "none" -> Loop(r, "wait") /\ UNCHANGED <<pos, reg, ui>>
         [] Kind[r] # "single" /\ e # "none" ->
              IF r \in AbortOnErr /\ e # "offline" THEN Abort(r) ELSE NextTarget(r)
    /\ UNCHANGED <<link, call, err, agent, row, chan, left, deployment>>

\* Whatever result the channel holds first ends the wait.
Receive(r) ==
    /\ exec[r] = "wait" /\ chan[r] # <<>>
    /\ chan' = [chan EXCEPT ![r] = Tail(@)]
    /\ IF r \in AbortOnErr /\ Head(chan[r]) = "failed" THEN Abort(r) ELSE NextTarget(r)
    /\ UNCHANGED <<link, call, err, agent, row, left, deployment>>

\* After the last target the handler of a web socket reads from it, and so
\* stays until it is closed.
LoopEnds(r) ==
    /\ exec[r] = "next" /\ pos[r] > Len(Targets[r])
    /\ IF Kind[r] = "ws"
       THEN Loop(r, "reading") /\ UNCHANGED reg
       ELSE Loop(r, "ended") /\ reg' = reg \ {r}
    /\ UNCHANGED <<link, pos, call, err, agent, row, chan, socket, deployment>>

ReadEnds(r) ==
    /\ exec[r] = "reading" /\ ui[r] = "closed"
    /\ Loop(r, "ended")
    /\ reg' = reg \ {r}
    /\ UNCHANGED <<link, pos, call, err, agent, row, chan, socket, deployment>>

UserCloses(r) ==
    /\ ui[r] = "open"
    /\ ui' = [ui EXCEPT ![r] = "closed"]
    /\ UNCHANGED <<link, exec, pos, call, err, agent, row, chan, reg, left, deployment>>
-----------------------------------------------------------------------------
(* createAndRunJob and handleExecuteCommand. *)

\* Mutant of Fails: the error is only stored.
FailsSilently(j, e) ==
    /\ call' = [call EXCEPT ![j] = "create"]
    /\ err' = [err EXCEPT ![j] = e]
    /\ UNCHANGED <<link, exec, pos, agent, row, chan, reg, socket, deployment>>

\* The request failed: the error is shown on the web socket before it is stored.
Fails(j, e) ==
    /\ call' = [call EXCEPT ![j] = "create"]
    /\ err' = [err EXCEPT ![j] = e]
    /\ WriteJSON(j[1])
    /\ UNCHANGED <<link, exec, pos, agent, row, chan, reg, deployment>>

Send(j) ==
    /\ call[j] = "send" /\ Client(j) \notin Paused /\ link[Client(j)] = "up"
    /\ call' = [call EXCEPT ![j] = "asked"]
    /\ UNCHANGED <<link, exec, pos, err, agent, row, chan, reg, socket, deployment>>

\* A client restored from storage has no connection; one that has gone away
\* still has its closed one.
CannotSend(j) ==
    /\ call[j] = "send"
    /\ \/ Client(j) \in Paused /\ Fails(j, "failed")
       \/ Client(j) \notin Paused /\ link[Client(j)] = "none" /\ Fails(j, "offline")
       \/ Client(j) \notin Paused /\ link[Client(j)] = "down" /\ Fails(j, "failed")

SendFails(j) == call[j] = "broken" /\ Fails(j, "failed")

\* HandleRunCmdRequest answers with an error ...
AgentRefuses(j) ==
    /\ call[j] = "asked" /\ cmd[j] = "none"
    /\ Fails(j, "failed")

\* ... or starts the command ...
AgentStarts(j) ==
    /\ call[j] = "asked" /\ cmd[j] = "none"
    /\ cmd' = [cmd EXCEPT ![j] = "running"]
    /\ UNCHANGED <<link, exec, pos, call, err, msg, res, row, chan, reg, socket, deployment>>

\* ... and answers with its pid.
Replied(j) ==
    /\ call[j] = "asked" /\ cmd[j] # "none"
    /\ call' = [call EXCEPT ![j] = "create"]
    /\ UNCHANGED <<link, exec, pos, err, agent, row, chan, reg, socket, deployment>>

\* A failed single-client job is not stored; an insert that fails is logged only.
CreateJob(j) ==
    /\ call[j] = "create"
    /\ call' = [call EXCEPT ![j] = "done"]
    /\ IF err[j] # "none" /\ Kind[j[1]] = "single"
       THEN UNCHANGED row
       ELSE \/ row' = [row EXCEPT ![j] = CASE @ # "none" -> @
                                           [] @ = "none" /\ err[j] = "none" -> "running"
                                           [] @ = "none" /\ err[j] # "none" -> "failed"]
            \/ "create" \in StoreFails /\ UNCHANGED row
    /\ UNCHANGED <<link, exec, pos, err, agent, chan, reg, socket, deployment>>
-----------------------------------------------------------------------------
(* The agent's observer, and the result's way back. *)

\* The command ends, or its timeout passes: the result goes out on the
\* connection of this moment, or nowhere.
Observe(j, status) ==
    /\ cmd[j] = "running"
    /\ cmd' = [cmd EXCEPT ![j] = "observed"]
    /\ res' = [res EXCEPT ![j] = status]
    /\ msg' = [msg EXCEPT ![j] = IF link[Client(j)] = "up" THEN "sent" ELSE "gone"]
    /\ UNCHANGED <<link, exec, pos, call, err, row, chan, reg, socket, deployment>>

\* Mutant of saveCmdResult: a result of a run that has ended is refused.
saveWhileRunning(j) ==
    /\ msg[j] = "sent"
    /\ \/ exec[j[1]] = "ended" /\ UNCHANGED <<row, socket>> /\ msg' = [msg EXCEPT ![j] = "gone"]
       \/ row[j] = "none" /\ UNCHANGED <<row, socket>> /\ msg' = [msg EXCEPT ![j] = "refused"]
       \/ /\ exec[j[1]] # "ended" /\ row[j] # "none"
          /\ ShowResult(j[1])
          /\ row' = [row EXCEPT ![j] = res[j]] /\ msg' = [msg EXCEPT ![j] = "saved"]
    /\ UNCHANGED <<link, exec, pos, call, err, cmd, res, chan, reg, deployment>>

\* A result without a row is refused; the web socket is served before the table.
saveCmdResult(j) ==
    /\ msg[j] = "sent"
    /\ \/ row[j] = "none" /\ UNCHANGED <<row, socket>> /\ msg' = [msg EXCEPT ![j] = "refused"]
       \/ /\ row[j] # "none"
          /\ ShowResult(j[1])
          /\ \/ row' = [row EXCEPT ![j] = res[j]] /\ msg' = [msg EXCEPT ![j] = "saved"]
             \/ "save" \in StoreFails /\ UNCHANGED row /\ msg' = [msg EXCEPT ![j] = "gone"]
       \/ "save" \in StoreFails /\ UNCHANGED <<row, socket>> /\ msg' = [msg EXCEPT ![j] = "gone"]
    /\ UNCHANGED <<link, exec, pos, call, err, cmd, res, chan, reg, deployment>>

\* The buffer of the channel of a run.
Capacity(r) == Len(Targets[r])

\* Mutant of Deliver: the channel is not buffered.
DeliverUnbuffered(j) ==
    LET r == j[1] IN
    /\ msg[j] = "saved"
    /\ msg' = [msg EXCEPT ![j] = "gone"]
    /\ chan' = IF r \in reg /\ exec[r] = "wait" THEN [chan EXCEPT ![r] = Append(@, res[j])] ELSE chan
    /\ UNCHANGED <<link, exec, pos, call, err, cmd, res, row, reg, socket, deployment>>

\* The non-blocking send into the channel of the run.
Deliver(j) ==
    LET r == j[1] IN
    /\ msg[j] = "saved"
    /\ msg' = [msg EXCEPT ![j] = "gone"]
    /\ chan' = IF r \in reg /\ Len(chan[r]) < Capacity(r)
               THEN [chan EXCEPT ![r] = Append(@, res[j])]
               ELSE chan
    /\ UNCHANGED <<link, exec, pos, call, err, cmd, res, row, reg, socket, deployment>>
-----------------------------------------------------------------------------
(* Connections and the server process. *)

Connect(c) ==
    /\ link[c] # "up"
    /\ link' = [link EXCEPT ![c] = "up"]
    /\ UNCHANGED <<exec, pos, call, err, agent, row, chan, reg, socket, deployment>>

\* Requests without an answer fail, results on their way are lost.
LinkDown(c) ==
    /\ deployment.linkFails /\ link[c] = "up"
    /\ link' = [link EXCEPT ![c] = "down"]
    /\ call' = [j \in Jobs |-> IF Client(j) = c /\ call[j] = "asked" THEN "broken" ELSE call[j]]
    /\ msg' = [j \in Jobs |-> IF Client(j) = c /\ msg[j] = "sent" THEN "gone" ELSE msg[j]]
    /\ UNCHANGED <<exec, pos, err, cmd, res, row, chan, reg, socket, deployment>>

\* The server restarts: loops, channels and sockets are gone, and no client
\* has a connection.
Crash ==
    /\ deployment.crashes
    /\ link' = [c \in Clients |-> "none"]
    /\ exec' = [r \in Runs |-> IF exec[r] = "idle" THEN "idle" ELSE "ended"]
    /\ call' = [j \in Jobs |-> IF call[j] = "idle" THEN "idle" ELSE "done"]
    /\ msg' = [j \in Jobs |-> IF msg[j] \in {"none", "refused"} THEN msg[j] ELSE "gone"]
    /\ chan' = [r \in Runs |-> <<>>] /\ reg' = {}
    /\ ui' = [r \in Runs |-> IF ui[r] = "open" THEN "closed" ELSE ui[r]]
    /\ UNCHANGED <<pos, err, cmd, res, row, left, deployment>>
-----------------------------------------------------------------------------
RunLoop(r) ==
    Dispatch(r) \/ Returned(r) \/ Receive(r) \/ LoopEnds(r) \/ ReadEnds(r)

createAndRunJob(j) == Send(j) \/ CannotSend(j) \/ SendFails(j) \/ Replied(j) \/ CreateJob(j)

HandleRunCmdRequest(j) ==
    AgentRefuses(j) \/ AgentStarts(j) \/ \E s \in Reported : Observe(j, s)

handleCmdResult(j) == saveCmdResult(j) \/ Deliver(j)

Next ==
    \/ \E r \in Runs : Begin(r) \/ RunLoop(r) \/ UserCloses(r)
    \/ \E j \in Jobs : createAndRunJob(j) \/ HandleRunCmdRequest(j) \/ handleCmdResult(j)
    \/ \E c \in Clients : Connect(c) \/ LinkDown(c)
    \/ Crash

Spec == Init /\ [][Next]_vars

\* Goroutines run; the agent answers a request and observes a command no longer
\* than its timeout.
Fairness ==
    /\ \A r \in Runs : WF_vars(RunLoop(r))
    /\ \A j \in Jobs : /\ WF_vars(createAndRunJob(j)) /\ WF_vars(HandleRunCmdRequest(j))
                       /\ WF_vars(handleCmdResult(j))

FairSpec == Spec /\ Fairness
-----------------------------------------------------------------------------
Statuses == Reported \cup {"running"}

JobTypeOK ==
    /\ deployment \in Deployments
    /\ link \in [Clients -> {"none", "up", "down"}]
    /\ call \in [Jobs -> {"idle", "send", "asked", "broken", "create", "done"}]
    /\ err \in [Jobs -> {"none", "failed", "offline"}]
    /\ cmd \in [Jobs -> {"none", "running", "observed"}]
    /\ msg \in [Jobs -> {"none", "sent", "refused", "saved", "gone"}]
    /\ res \in [Jobs -> Reported \cup {"none"}]
    /\ row \in [Jobs -> Statuses \cup {"none"}]

LoopTypeOK ==
    /\ exec \in [Runs -> {"idle", "next", "calling", "wait", "reading", "ended"}]
    /\ pos \in [Runs -> Nat] /\ \A r \in Runs : pos[r] \in 1..Len(Targets[r]) + 1
    /\ chan \in [Runs -> Seq(Reported)] /\ \A r \in Runs : Len(chan[r]) <= Len(Targets[r])
    /\ reg \subseteq Runs
    /\ ui \in [Runs -> {"none", "open", "closed"}] /\ left \in [Runs -> Int]

\* The values the jobs' state ranges over.
TypeOK == JobTypeOK /\ LoopTypeOK

\* Connections, the table and the server hold.
Reliable == ~deployment.linkFails /\ StoreFails = {} /\ ~deployment.crashes

\* In a sequential run one host finishes before the next starts: when a target
\* is dispatched, no earlier target's command is still being observed. With
\* abort_on_error the first failure stops the rest: no target after a failed one
\* is ever dispatched, except that a client without a connection is passed over.
\* A reply that is lost after the agent has started the command is left out: the
\* loop takes it for a failure and goes on.
InSeries ==
    Reliable => \A r \in Sequential : \A i, k \in 1..Len(Targets[r]) :
        i < k /\ call[<<r, k>>] # "idle" =>
            /\ cmd[<<r, i>>] # "running"
            /\ r \in AbortOnErr => row[<<r, i>>] # "failed" \/ err[<<r, i>>] = "offline"

\* A final message has been or is being written for the job.
Final(j) == row[j] \in Reported \/ (call[j] = "create" /\ err[j] # "none")

\* A web socket is closed by its count neither too early nor too late: when it has
\* counted down, every target has its final message, and while its handler runs
\* it has counted down once every target has. Results that come after the user
\* has left or the run was aborted are stored without it. Connections, table and
\* server hold; with a lost reply a target can be counted twice.
SocketCountsFinals ==
    Reliable => \A r \in Runs : Kind[r] = "ws" /\ exec[r] # "idle" =>
        LET over == \A i \in 1..Len(Targets[r]) : Final(<<r, i>>) IN
        /\ left[r] <= 0 => over
        /\ exec[r] # "ended" /\ over => left[r] <= 0

\* No result is lost on its way, but for one that comes before its row. The
\* channel of a run has room for every result that is about to be sent into it,
\* late ones of earlier targets included, also with lost connections, failing
\* statements and restarts. Where those hold, a command that has been started is
\* in the table once its request has returned, and a result that was not refused
\* is in the table when it has been handled. A result is refused only if the
\* command ended before createAndRunJob stored the job.
ResultsStored ==
    /\ TypeOK
    /\ \A j \in Jobs : msg[j] = "saved" /\ j[1] \in reg => Len(chan[j[1]]) < Capacity(j[1])
    /\ Reliable => \A j \in Jobs :
          /\ cmd[j] # "none" /\ call[j] = "done" => row[j] # "none"
          /\ msg[j] = "gone" => row[j] = res[j]
          /\ msg[j] = "refused" /\ call[j] = "done" => row[j] = "running"

\* Every run comes to its end where connections, table and server hold, unless a
\* result of it was refused for want of its row: the loop then waits for ever
\* (api_helper_jobs.go:298), and nothing else makes it.
RunsEnd ==
    \A r \in Runs : Reliable /\ exec[r] # "idle" ~>
        exec[r] = "ended" \/ \E i \in 1..Len(Targets[r]) : msg[<<r, i>>] = "refused"

\* What saveCmdResult says of itself: the server creates a job row before
\* dispatching it, so that only a result of a job the client was not given is
\* refused (client_listener.go:780-783).
GivenAccepted == \A j \in Jobs : msg[j] # "refused"
=============================================================================
