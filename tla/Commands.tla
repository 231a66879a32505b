------------------------------ MODULE Commands ------------------------------
(* Who may run what where: the entry points that start a command or a script on  *)
(* one client, on several by request or web socket, or from a schedule, with the *)
(* checks each makes on its way, the jobs tables they fill and those who read     *)
(* and clean these. Jobs models how the started commands then run.                *)
(*                                                                              *)
(* An order names its entry point via, its user, its targets p, the command, or   *)
(* the base64 text of a script, the interpreter and the timeout. mem.running maps *)
(* a run to the clients its loop has not reached; a job is older the further left *)
(* it is in db.jobs.                                                             *)
EXTENDS Service, ClientGroups
LOCAL INSTANCE SequencesExt

(* ---- what an order says --------------------------------------------------------- *)
IsScript(o) == o.script # "no"

(* The text of a script: base64 that is malformed does not decode, and a line end  *)
(* alone decodes to nothing.                                                      *)
DecodesTo(o) == CASE o.script = "no" -> o.command [] o.script = "blank" -> "" [] OTHER -> "text"

ValidateInterpreter(o) == o.interpreter \in {"", "cmd", "powershell"} \/ IsScript(o)

enrichScriptInput(o) == o.script \notin {"missing", "malformed"}

(* The timeout of the configuration takes the place of none.                      *)
TimeoutOf(o) == IF o.timeout <= 0 THEN setup.runRemoteCmdTimeoutSec ELSE o.timeout

(* The manager's test of a schedule before it stores one.                         *)
validateSchedule(o) == /\ ValidateInterpreter(o) /\ o.timeout >= 0
               /\ IF IsScript(o) THEN enrichScriptInput(o) ELSE o.command # ""

executionPermission(o) == IF IsScript(o) THEN "scripts" ELSE "commands"

checkExecutionPermission(u, o) == setup.grouped => executionPermission(o) \in db.users[u].permissions

permissionsMiddleware(o) == o.user \in DOMAIN db.users /\ checkExecutionPermission(o.user, o)

MayUseAll(o, clients, groups) == CheckClientsAccess(mem.clients, clients, db.users[o.user], groups)

(* ---- state ------------------------------------------------------------------------- *)
CommandsInit(deployments) ==
    /\ Started(deployments)
    /\ db = [users |-> setup.users, groups |-> setup.groups, multi |-> <<>>, jobs |-> <<>>, audit |-> {}]
    /\ mem = [clients |-> setup.clients, running |-> <<>>, cleanup |-> "idle"]
    /\ ghost = [orders |-> 0, started |-> {}, answers |-> {}, broke |-> {}, gone |-> {}, cut |-> {}]

CommandAt(r, pc) == Serves("commands") /\ reqs[r].pc = pc
Continues(r, pc) == Goto(r, pc) /\ Quiet

Answered(r, status) == ghost.answers \cup {[id |-> reqs[r].id, via |-> reqs[r].o.via, status |-> status, clients |-> Range(reqs[r].clients)]}
Replies(r, status) == ghost' = [ghost EXCEPT !.answers = Answered(r, status)] /\ Return(r)
RepliesQuietly(r, status) == Replies(r, status) /\ Quiet /\ UNCHANGED <<db, mem>>
Breaks(r, status) == ghost' = [ghost EXCEPT !.answers = Answered(r, status), !.broke = @ \cup {reqs[r].id}] /\ Return(r) /\ UNCHANGED <<db, mem>>

(* ---- the entry points --------------------------------------------------------------- *)
(* The middleware of the route lets those with the permission pass; a schedule has  *)
(* no route. What the user may use now is remembered for the properties.           *)
OrderArrives(r) ==
    /\ Serves("commands")
    /\ \E o \in setup.orders :
        /\ Arrives("commands", r, o.via)
        /\ o.via = "schedule" => validateSchedule(o)
        /\ LET lawful == IF permissionsMiddleware(o) THEN getNonObsoleteClientsByUser(mem.clients, db.users[o.user], db.groups) ELSE {}
           IN  IF o.via # "schedule" /\ ~ permissionsMiddleware(o) THEN UNCHANGED <<reqs, ghost>>
               ELSE /\ Becomes(r, [pc |-> CASE o.via = "single" -> "access" [] o.via = "multi" -> "validate" [] OTHER -> "order",
                                   o |-> o, id |-> ghost.orders + 1, lawful |-> lawful, clients |-> <<>>])
                    /\ ghost' = [ghost EXCEPT !.orders = @ + 1]
    /\ UNCHANGED <<db, mem>>

(* POST /clients/{id}/commands and /scripts: access to the client first, ...        *)
MayAccess(o, groups) == o.user \in DOMAIN db.users /\ CheckClientAccess(mem.clients, o.p.ids[1][1], db.users[o.user], groups)

SingleAccess(r) ==
    /\ CommandAt(r, "access")
    /\ LET o == reqs[r].o
       IN  IF MayAccess(o, db.groups) THEN Continues(r, "single") /\ UNCHANGED <<db, mem, ghost>>
           ELSE RepliesQuietly(r, 403)

(* ... then the order itself; a client that is not connected or paused is not found. *)
handleExecuteCommand(r) ==
    /\ CommandAt(r, "single")
    /\ LET o == reqs[r].o
           c == o.p.ids[1][1]
       IN  IF ~ enrichScriptInput(o) \/ DecodesTo(o) = "" \/ ~ ValidateInterpreter(o) THEN RepliesQuietly(r, 400)
           ELSE IF c \notin DOMAIN mem.clients \/ ~ mem.clients[c].connected \/ mem.clients[c].paused THEN RepliesQuietly(r, 404)
           ELSE /\ Becomes(r, [reqs[r] EXCEPT !.pc = "sent", !.clients = <<c>>])
                /\ Quiet /\ UNCHANGED <<db, mem, ghost>>

StartOf(q, c) == [id |-> q.id, client |-> c, lawful |-> q.lawful, timeout |-> TimeoutOf(q.o)]

SingleStarts(r) ==
    /\ CommandAt(r, "sent")
    /\ ghost' = [ghost EXCEPT !.started = @ \cup {StartOf(reqs[r], reqs[r].clients[1])}]
    /\ Continues(r, "create") /\ UNCHANGED <<db, mem>>

Audited(r) == db.audit \cup {<<reqs[r].id, c>> : c \in Range(reqs[r].clients)}

(* A refusal of the client is recorded like a start.                              *)
SingleRefused(r) ==
    /\ Fault("commands", "refused") /\ CommandAt(r, "sent")
    /\ db' = [db EXCEPT !.audit = Audited(r)]
    /\ Replies(r, 409) /\ UNCHANGED mem

(* The connection breaks before the request reaches the agent, or before its answer *)
(* comes back from an agent that has started the command.                         *)
SingleLost(r) ==
    /\ Fault("commands", "connection") /\ CommandAt(r, "sent")
    /\ \E begun \in SUBSET {StartOf(reqs[r], reqs[r].clients[1])} :
          ghost' = [ghost EXCEPT !.answers = Answered(r, 500), !.broke = @ \cup {reqs[r].id}, !.started = @ \cup begun]
    /\ Return(r) /\ UNCHANGED <<db, mem>>

JobOf(id, multi, by, c) == [id |-> <<id, c>>, multi |-> multi, by |-> by, client |-> c]

handlePostCommand(r) ==
    /\ CommandAt(r, "create")
    /\ db' = [db EXCEPT !.jobs = Append(@, JobOf(reqs[r].id, 0, reqs[r].o.user, reqs[r].clients[1])), !.audit = Audited(r)]
    /\ Replies(r, 200) /\ Quiet /\ UNCHANGED mem

(* The command runs, and neither the table nor the audit log knows it.            *)
SingleNotStored(r) == Fault("commands", "create") /\ CommandAt(r, "create") /\ Breaks(r, 500)

(* POST /commands tests the command before its targets.                           *)
handlePostMultiClientCommand(r) ==
    /\ CommandAt(r, "validate")
    /\ IF reqs[r].o.command # "" /\ ValidateInterpreter(reqs[r].o) THEN Continues(r, "order") /\ UNCHANGED <<db, mem, ghost>>
       ELSE RepliesQuietly(r, 400)

(* The targets are resolved; then a script is decoded, and the web socket tests     *)
(* what is left of the command. A schedule's targets are resolved when it runs.     *)
ResolveTargets(r) ==
    /\ CommandAt(r, "order")
    /\ \E o \in {reqs[r].o} : \E known \in {
            CASE o.via # "schedule" -> getOrderedClientsWithValidation(mem.clients, db.groups, o.p)
              [] o.via = "schedule" /\ o.p.tags # <<>> -> [status |-> 200, clients |-> getOrderedClientsByTag(mem.clients, o.p.tags[1])]
              [] OTHER -> getOrderedClients(mem.clients, db.groups, Named(o.p.ids), Named(o.p.groups))} :
       LET sound == CASE o.via \in {"multi", "multi-script"} -> enrichScriptInput(o)
                      [] o.via = "ws" -> enrichScriptInput(o) /\ DecodesTo(o) # "" /\ ValidateInterpreter(o)
                      [] o.via = "schedule" -> known.clients # <<>>
       IN  IF known.status # 200 THEN RepliesQuietly(r, known.status)
           ELSE IF ~ sound \/ o.user \notin DOMAIN db.users THEN RepliesQuietly(r, 400)
           ELSE /\ Becomes(r, [reqs[r] EXCEPT !.pc = IF o.via = "schedule" THEN "start" ELSE "groups", !.clients = known.clients])
                /\ Quiet /\ UNCHANGED <<db, mem, ghost>>

(* The handlers check the access to the clients, the web socket's for the last time. *)
AfterGroups(r, groups, status) ==
    LET q == reqs[r]
        answers == IF status = 200 THEN ghost.answers ELSE Answered(r, status)
    IN  IF q.o.user \in DOMAIN db.users /\ MayUseAll(q.o, Range(q.clients), groups)
        THEN /\ db' = IF q.o.via = "ws" THEN [db EXCEPT !.audit = Audited(r)] ELSE db
             /\ Goto(r, IF q.o.via = "ws" THEN "save" ELSE "start")
             /\ ghost' = [ghost EXCEPT !.answers = answers, !.broke = IF status = 200 THEN @ ELSE @ \cup {q.id}] /\ UNCHANGED mem
        ELSE /\ ghost' = [ghost EXCEPT !.answers = Answered(r, 403), !.broke = IF status = 200 THEN @ ELSE @ \cup {q.id}] /\ Return(r) /\ UNCHANGED <<db, mem>>

handleCommandsExecutionWS(r) == CommandAt(r, "groups") /\ AfterGroups(r, db.groups, 200) /\ Quiet

(* Groups that cannot be read end most requests; the middleware of a client, POST    *)
(* /scripts and the web socket answer with the error and go on without groups.      *)
GroupsUnreadable(r) ==
    /\ Fault("commands", "groups")
    /\ LET q == reqs[r]
       IN \/ CommandAt(r, "order") /\ Named(q.o.p.groups) # <<>> /\ Breaks(r, 500)
          \/ CommandAt(r, "start") /\ Breaks(r, 500)
          \/ CommandAt(r, "groups") /\ (IF q.o.via = "multi" THEN Breaks(r, 500) ELSE AfterGroups(r, <<>>, 500))
          \/ /\ CommandAt(r, "access")
             /\ IF MayAccess(q.o, <<>>) THEN Goto(r, "single") ELSE Return(r)
             /\ ghost' = [ghost EXCEPT !.answers = Answered(r, 500), !.broke = @ \cup {q.id}] /\ UNCHANGED <<db, mem>>

checkMultiJobAccessAny(o, clients) == TRUE

checkMultiJobAccess(o, clients) ==
    o.user \in DOMAIN db.users /\ checkExecutionPermission(o.user, o) /\ MayUseAll(o, clients, db.groups)

Authorizes(r) ==
    /\ CommandAt(r, "start")
    /\ IF checkMultiJobAccess(reqs[r].o, Range(reqs[r].clients)) THEN Continues(r, "save") /\ UNCHANGED <<db, mem, ghost>>
       ELSE RepliesQuietly(r, 403)

SaveMultiJob(r) ==
    LET q == reqs[r] IN
    /\ CommandAt(r, "save")
    /\ db' = [db EXCEPT !.multi = @ @@ (q.id :> q.o.user), !.audit = IF q.o.via \in {"multi", "multi-script"} THEN Audited(r) ELSE @]
    /\ mem' = [mem EXCEPT !.running = @ @@ (q.id :> [q |-> q, rest |-> q.clients])]
    /\ Replies(r, 200) /\ Quiet

NotSaved(r) == Fault("commands", "save") /\ CommandAt(r, "save") /\ Breaks(r, 500)

(* The loop of a run reaches its next client and stores its job; a write that fails  *)
(* is only logged, and a start or a result that failed may end the run.              *)
RunReaches(id) ==
    /\ Serves("commands") /\ id \in DOMAIN mem.running
    /\ \E aborts \in BOOLEAN, stored \in BOOLEAN :
        LET run == mem.running[id]
            c == Head(run.rest)
        IN  /\ IF stored THEN Quiet ELSE Fault("commands", "create")
            /\ mem' = [mem EXCEPT !.running = IF aborts \/ Len(run.rest) = 1 THEN Without(@, id) ELSE [@ EXCEPT ![id].rest = Tail(@)]]
            /\ db' = IF stored THEN [db EXCEPT !.jobs = Append(@, JobOf(id, id, run.q.o.user, c))] ELSE db
            /\ ghost' = [ghost EXCEPT !.started = @ \cup {StartOf(run.q, c)}]
    /\ UNCHANGED reqs

(* ---- rights are taken away ------------------------------------------------------------ *)
Revokes(r) ==
    /\ Arrives("commands", r, "revoke")
    /\ \/ \E u \in DOMAIN db.users : db' = [db EXCEPT !.users = Without(@, u)] /\ UNCHANGED mem
       \/ \E u \in DOMAIN db.users : db' = [db EXCEPT !.users[u].permissions = {}] /\ UNCHANGED mem
       \/ \E g \in DOMAIN db.groups : db' = [db EXCEPT !.groups[g].allowed = {}] /\ UNCHANGED mem
       \/ \E c \in DOMAIN mem.clients : mem' = [mem EXCEPT !.clients[c].allowed = {}] /\ UNCHANGED db
    /\ UNCHANGED <<reqs, ghost>>

(* ---- the cleanup task, one statement a step -------------------------------------------- *)
Surplus == {i \in DOMAIN db.jobs : i <= Len(db.jobs) - setup.maxJobs}
KeepJobs(gone) == SelectSeq(db.jobs, LAMBDA j : j \notin gone)

CleanupMulti(r) ==
    /\ Arrives("commands", r, "cleanup") /\ mem.cleanup = "idle"
    /\ LET gone == {db.jobs[i].multi : i \in Surplus}
       IN  /\ db' = [db EXCEPT !.multi = Restrict(@, DOMAIN @ \ gone)]
           /\ ghost' = [ghost EXCEPT !.gone = @ \cup gone, !.cut = @ \cup (gone \cap DOMAIN mem.running)]
    /\ mem' = [mem EXCEPT !.cleanup = "jobs"]
    /\ UNCHANGED reqs

CleanupTheirJobs ==
    /\ Serves("commands") /\ mem.cleanup = "jobs"
    /\ db' = [db EXCEPT !.jobs = KeepJobs({j \in Range(@) : j.multi # 0 /\ \E i \in Surplus : db.jobs[i].multi = j.multi})]
    /\ mem' = [mem EXCEPT !.cleanup = "rest"]
    /\ Quiet /\ UNCHANGED <<reqs, ghost>>

CleanupJobsMultiJobs ==
    /\ Serves("commands") /\ mem.cleanup = "rest"
    /\ db' = [db EXCEPT !.jobs = KeepJobs({db.jobs[i] : i \in {k \in Surplus : db.jobs[k].multi = 0}})]
    /\ mem' = [mem EXCEPT !.cleanup = "idle"]
    /\ Quiet /\ UNCHANGED <<reqs, ghost>>

CleanupFails ==
    /\ Fault("commands", "cleanup") /\ mem.cleanup # "idle"
    /\ mem' = [mem EXCEPT !.cleanup = "idle"]
    /\ ghost' = [ghost EXCEPT !.broke = @ \cup {0}]
    /\ UNCHANGED <<db, reqs>>

(* ---- those who read ---------------------------------------------------------------------- *)
Owns(u, id) == db.users[u].admin \/ db.multi[id] = u

handleGetMultiClientCommands(u) == {id \in DOMAIN db.multi : db.users[u].admin \/ db.multi[id] = u}

GetMultiJob(id) == SelectSeq(db.jobs, LAMBDA j : j.multi = id)

handleGetMultiClientCommand(u, id) ==
    IF id \notin DOMAIN db.multi THEN 404 ELSE IF Owns(u, id) THEN 200 ELSE 403

handleGetMultiClientCommandJobs(u, id) ==
    IF handleGetMultiClientCommand(u, id) = 200 THEN Range(GetMultiJob(id)) ELSE {}

handleGetCommands(c) == {j \in Range(db.jobs) : j.client = c}
handleGetCommand(c, id) == \E j \in Range(db.jobs) : j.id = id /\ j.client = c

CommandsNext ==
    \/ \E r \in Reqs :
        \/ OrderArrives(r) \/ SingleAccess(r) \/ handleExecuteCommand(r) \/ SingleStarts(r) \/ SingleRefused(r) \/ SingleLost(r)
        \/ handlePostCommand(r) \/ SingleNotStored(r) \/ handlePostMultiClientCommand(r) \/ ResolveTargets(r)
        \/ handleCommandsExecutionWS(r) \/ GroupsUnreadable(r) \/ Authorizes(r) \/ SaveMultiJob(r) \/ NotSaved(r)
        \/ Revokes(r) \/ CleanupMulti(r)
    \/ \E id \in 1..2 : RunReaches(id)
    \/ CleanupTheirJobs \/ CleanupJobsMultiJobs \/ CleanupFails

(* A command reaches only clients its user might use, with the permission for it,    *)
(* when the order came, and with a timeout, whatever is revoked meanwhile and        *)
(* although a schedule passes no route (StartMultiClientJob, wrapClientAccess-       *)
(* Middleware). An order that is accepted is in the audit log for each of its         *)
(* clients, a schedule's apart, and its owner finds it until it is cleaned up; one    *)
(* that is refused starts nothing unless a read or a write of its own failed. A right  *)
(* taken away between the arrival and the start is not waited for. What the list      *)
(* of runs shows can be opened, and a cleanup leaves no job of a run it has removed,  *)
(* unless the run was still at work (CleanupJobsMultiJobs).                           *)
OrdersAccounted ==
    Serves("commands") =>
        /\ \A s \in ghost.started : s.client \in s.lawful /\ s.timeout > 0
        /\ \A a \in ghost.answers :
              IF a.status = 200
              THEN /\ a.via # "schedule" => \A c \in a.clients : <<a.id, c>> \in db.audit
                   /\ a.via # "single" => a.id \in DOMAIN db.multi \cup ghost.gone
              ELSE a.id \in ghost.broke \/ ~ \E s \in ghost.started : s.id = a.id
        /\ \A u \in DOMAIN db.users, id \in 1..2 :
              /\ handleGetMultiClientCommand(u, id) = 200 <=> id \in handleGetMultiClientCommands(u)
              /\ \A j \in handleGetMultiClientCommandJobs(u, id) : handleGetCommand(j.client, j.id) /\ j \in handleGetCommands(j.client)
        /\ mem.cleanup = "idle" /\ 0 \notin ghost.broke =>
              \A j \in Range(db.jobs) : j.multi = 0 \/ j.multi \in DOMAIN db.multi \cup ghost.cut
=============================================================================
