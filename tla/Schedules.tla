----------------------------- MODULE Schedules -----------------------------
(***************************************************************************)
(* Recurring jobs: the table of schedules, the in-process cron that fires  *)
(* them, the API requests that change both, and the runs they start.       *)
(*                                                                         *)
(* A request of the API is a goroutine of its own: it checks that the      *)
(* schedule exists, changes the table and then the cron, each of the two   *)
(* under its own lock and nothing around both.  The cron knows an entry by *)
(* a number; CronImplementation.mapping keeps the number of each schedule. *)
(* A firing entry runs Manager.run in a goroutine, which reads the table,  *)
(* counts the unfinished jobs unless runs may overlap, and starts a job    *)
(* for several clients; a job has a row only after the agent has answered. *)
(***************************************************************************)
EXTENDS Naturals, FiniteSets, Functions

CONSTANTS
    Ids,           \* ids of schedules; an id is a fresh UUID and never reused
    Specs,         \* cron expressions
    Handlers,      \* goroutines serving API requests
    Runs,          \* runs that can be under way at the same time
    Deployments    \* the deployments considered

\* ids, specs, overlaps: what requests ask for; handlers, runs: how many there
\* are at a time; targets: number of clients of every schedule; concurrent:
\* execute_concurrently; maxEntries: bound on the cron entries added since the
\* start; storeFails: statements that may fail; crashes: the server may restart.
Deployment ==
    [ids : SUBSET Ids, specs : SUBSET Specs, overlaps : SUBSET BOOLEAN,
     handlers : SUBSET Handlers, runs : SUBSET Runs, targets : Nat \ {0},
     concurrent : BOOLEAN, maxEntries : Nat, storeFails : SUBSET {"insert", "delete", "job"},
     crashes : BOOLEAN]

ASSUME DeploymentsAssumption == Deployments \subseteq Deployment

\* The table of schedules is finite.
ASSUME IdsAssumption == IsFiniteSet(Ids)

VARIABLES
    deployment,
    row,        \* [Ids -> the row of table schedules]
    entries,    \* the entries of the cron
    mapping,    \* [Ids -> number of the entry, 0 for none]
    last,       \* number of the last entry added
    req,        \* [Handlers -> the request and its next step]
    run,        \* [Runs -> the goroutine of Manager.run and of the job]
    job,        \* [Runs -> [Clients -> state of the job of a target]]
    tbl,        \* [Runs -> the targets with a row in table jobs]
    multi,      \* [Runs -> TRUE if there is a row in table multi_jobs]
    seen        \* history: [Runs -> the commands on record when the run was fired]

vars == <<deployment, row, entries, mapping, last, req, run, job, tbl, multi, seen>>

Concurrent == deployment.concurrent
StoreFails == deployment.storeFails

cron == <<entries, mapping, last>>
jobs == <<run, job, tbl, multi>>

Clients == 1 .. deployment.targets

Stored(id) == row[id].st = "stored"

Idle == [op |-> "idle"]

\* A run is under way: a command is on its way or running, or the loop will
\* come to one.  A command whose result is overdue holds up nothing but the
\* loop itself.
UnderWay(r) ==
    /\ run[r].at = "exec"
    /\ \/ \E i \in Clients : job[r][i] \in {"sent", "running"}
       \/ /\ \E i \in Clients : job[r][i] = "none"
          /\ \A i \in Clients : job[r][i] # "overdue"

Nothing == [i \in Clients |-> "none"]

Init ==
    /\ deployment \in Deployments
    /\ row = [id \in Ids |-> [st |-> "none"]]
    /\ entries = {}
    /\ mapping = [id \in Ids |-> 0]
    /\ last = 0
    /\ req = [h \in Handlers |-> Idle]
    /\ run = [r \in Runs |-> [at |-> "idle"]]
    /\ job = [r \in Runs |-> Nothing]
    /\ tbl = [r \in Runs |-> {}]
    /\ multi = [r \in Runs |-> FALSE]
    /\ seen = [r \in Runs |-> {}]

-----------------------------------------------------------------------------
(***************************************************************************)
(* API requests.                                                           *)
(***************************************************************************)
Accept(h, op, id) ==
    /\ req[h].op = "idle"
    /\ last < deployment.maxEntries
    /\ \E spec \in deployment.specs, over \in deployment.overlaps :
          req' = [req EXCEPT ![h] = [op |-> op, id |-> id, spec |-> spec, over |-> over]]
    /\ UNCHANGED <<row, cron, jobs, seen, deployment>>

\* POST /schedules, validated; the id is new.
handlePostSchedules(h, id) ==
    /\ row[id].st = "none"
    /\ \A g \in Handlers : req[g].op = "insert" => req[g].id # id
    /\ Accept(h, "insert", id)

\* PUT /schedules/{id}: the schedule was found.
handleUpdateSchedule(h, id) == Stored(id) /\ Accept(h, "update", id)

\* DELETE /schedules/{id}: the schedule was found.
handleDeleteSchedule(h, id) ==
    /\ Stored(id) /\ req[h].op = "idle"
    /\ req' = [req EXCEPT ![h] = [op |-> "delete", id |-> id]]
    /\ UNCHANGED <<row, cron, jobs, seen, deployment>>

Goto(h, op) == req' = [req EXCEPT ![h].op = op]

Ends(h) == req' = [req EXCEPT ![h] = Idle]

Asked(h) == [st |-> "stored", spec |-> req[h].spec, over |-> req[h].over]

Insert(h) ==
    /\ req[h].op = "insert"
    /\ row' = [row EXCEPT ![req[h].id] = Asked(h)]
    /\ Goto(h, "add")
    /\ UNCHANGED <<cron, jobs, seen, deployment>>

\* The statement touches the row if it is still there.
Update(h) ==
    /\ req[h].op = "update"
    /\ row' = [row EXCEPT ![req[h].id] = IF @.st = "stored" THEN Asked(h) ELSE @]
    /\ Goto(h, "remove")
    /\ UNCHANGED <<cron, jobs, seen, deployment>>

Remove(h) ==
    /\ req[h].op \in {"remove", "unmap"}
    /\ entries' = {e \in entries : e.n # mapping[req[h].id]}
    /\ mapping' = [mapping EXCEPT ![req[h].id] = 0]
    /\ IF req[h].op = "remove" THEN Goto(h, "add") ELSE Ends(h)
    /\ UNCHANGED <<row, last, jobs, seen, deployment>>

AddUnmapped(h) ==
    /\ req[h].op = "add"
    /\ last' = last + 1
    /\ entries' = entries \union {[n |-> last', id |-> req[h].id, spec |-> req[h].spec]}
    /\ UNCHANGED mapping
    /\ Ends(h)
    /\ UNCHANGED <<row, jobs, seen, deployment>>

Add(h) ==
    /\ req[h].op = "add"
    /\ last' = last + 1
    /\ entries' = entries \union {[n |-> last', id |-> req[h].id, spec |-> req[h].spec]}
    /\ mapping' = [mapping EXCEPT ![req[h].id] = last']
    /\ Ends(h)
    /\ UNCHANGED <<row, jobs, seen, deployment>>

\* Nothing to delete is an error, and the request ends there.
DeleteRow(h) ==
    /\ req[h].op = "delete"
    /\ IF Stored(req[h].id)
         THEN /\ row' = [row EXCEPT ![req[h].id] = [st |-> "gone"]]
              /\ Goto(h, "jobs")
         ELSE Ends(h) /\ UNCHANGED row
    /\ UNCHANGED <<cron, jobs, seen, deployment>>

RunsOf(id) == {r \in Runs : "id" \in DOMAIN run[r] /\ run[r].id = id}

DeleteJobs(h) ==
    /\ req[h].op = "jobs"
    /\ tbl' = [r \in Runs |-> IF r \in RunsOf(req[h].id) /\ multi[r] THEN {} ELSE tbl[r]]
    /\ Goto(h, "multi")
    /\ UNCHANGED <<row, cron, run, job, multi, seen, deployment>>

DeleteMulti(h) ==
    /\ req[h].op = "multi"
    /\ multi' = [r \in Runs |-> multi[r] /\ r \notin RunsOf(req[h].id)]
    /\ Goto(h, "unmap")
    /\ UNCHANGED <<row, cron, run, job, tbl, seen, deployment>>

\* A statement fails and the request answers with the error.
StatementFails(h) ==
    /\ \/ "insert" \in StoreFails /\ req[h].op \in {"insert", "update"}
       \/ "delete" \in StoreFails /\ req[h].op \in {"delete", "jobs", "multi"}
    /\ Ends(h)
    /\ UNCHANGED <<row, cron, jobs, seen, deployment>>

-----------------------------------------------------------------------------
(***************************************************************************)
(* Runs.                                                                   *)
(***************************************************************************)
At(r, at) == run' = [run EXCEPT ![r].at = at]

\* Mutant: the timeout is left out.
InProgressUnlimited(id) ==
    {x \in Runs \X Clients : /\ x[1] \in RunsOf(id) /\ multi[x[1]] /\ x[2] \in tbl[x[1]]
                             /\ job[x[1]][x[2]] \in {"running", "overdue"}}

\* The unfinished jobs of a schedule that are not older than their timeout.
CountJobsInProgress(id) ==
    {x \in Runs \X Clients : /\ x[1] \in RunsOf(id) /\ multi[x[1]] /\ x[2] \in tbl[x[1]]
                             /\ job[x[1]][x[2]] = "running"}

\* The cron starts a goroutine for an entry whose time has come.
Fire(e, r) ==
    /\ run[r].at = "idle"
    /\ run' = [run EXCEPT ![r] = [at |-> "get", id |-> e.id, over |-> FALSE]]
    /\ job' = [job EXCEPT ![r] = Nothing]
    /\ tbl' = [tbl EXCEPT ![r] = {}]
    /\ multi' = [multi EXCEPT ![r] = FALSE]
    /\ seen' = [s \in Runs |-> IF s = r THEN CountJobsInProgress(e.id) \ ({r} \X Clients)
                               ELSE seen[s] \ ({r} \X Clients)]
    /\ UNCHANGED <<row, cron, req, deployment>>

Get(r) ==
    /\ run[r].at = "get"
    /\ IF Stored(run[r].id)
         THEN run' = [run EXCEPT ![r].over = row[run[r].id].over,
                                 ![r].at = IF row[run[r].id].over THEN "start" ELSE "count"]
         ELSE At(r, "idle")
    /\ UNCHANGED <<row, cron, req, job, tbl, multi, seen, deployment>>

\* Mutant: one job in progress is not enough to skip the run.
CountMany(r) ==
    /\ run[r].at = "count"
    /\ IF Cardinality(CountJobsInProgress(run[r].id)) > 1 THEN At(r, "idle") ELSE At(r, "start")
    /\ UNCHANGED <<row, cron, req, job, tbl, multi, seen, deployment>>

Count(r) ==
    /\ run[r].at = "count"
    /\ IF CountJobsInProgress(run[r].id) # {} THEN At(r, "idle") ELSE At(r, "start")
    /\ UNCHANGED <<row, cron, req, job, tbl, multi, seen, deployment>>

StartMultiClientJob(r) ==
    /\ run[r].at = "start"
    /\ At(r, "exec")
    /\ multi' = [multi EXCEPT ![r] = TRUE]
    /\ UNCHANGED <<row, cron, req, job, tbl, seen, deployment>>

\* No clients are left, the creator may not run it any more, or the save of
\* the job fails.
CannotStart(r) ==
    /\ run[r].at = "start"
    /\ At(r, "idle")
    /\ UNCHANGED <<row, cron, req, job, tbl, multi, seen, deployment>>

Finished(s) == s \in {"done", "skipped"}

Dispatch(r, i) ==
    /\ run[r].at = "exec" /\ job[r][i] = "none"
    /\ Concurrent \/ \A j \in 1 .. (i - 1) : Finished(job[r][j])
    /\ job' = [job EXCEPT ![r][i] = "sent"]
    /\ UNCHANGED <<row, cron, req, run, tbl, multi, seen, deployment>>

\* The agent has answered; the row is written, unless the insert fails.
Replied(r, i) ==
    /\ run[r].at = "exec" /\ job[r][i] = "sent"
    /\ job' = [job EXCEPT ![r][i] = "running"]
    /\ \/ tbl' = [tbl EXCEPT ![r] = @ \union {i}]
       \/ "job" \in StoreFails /\ UNCHANGED tbl
    /\ UNCHANGED <<row, cron, req, run, multi, seen, deployment>>

\* What a failure of target i leaves of a run one after the other: all of it,
\* or nothing when the schedule says abort_on_error.
Leaves(r, i, state, abort) ==
    job' = [job EXCEPT ![r] = [j \in Clients |->
              IF j = i THEN state
              ELSE IF abort /\ ~ Concurrent /\ @[j] = "none" THEN "skipped" ELSE @[j]]]

\* The request fails; the job is stored as failed.
SendFails(r, i) ==
    /\ run[r].at = "exec" /\ job[r][i] = "sent"
    /\ \E abort \in BOOLEAN : Leaves(r, i, "done", abort)
    /\ tbl' = [tbl EXCEPT ![r] = @ \union {i}]
    /\ UNCHANGED <<row, cron, req, run, multi, seen, deployment>>

Result(r, i) ==
    /\ run[r].at = "exec" /\ job[r][i] = "running"
    /\ \E abort \in BOOLEAN : Leaves(r, i, "done", abort)
    /\ UNCHANGED <<row, cron, req, run, tbl, multi, seen, deployment>>

\* The result has not come within the timeout of the job.
TimesOut(r, i) ==
    /\ run[r].at = "exec" /\ job[r][i] = "running"
    /\ job' = [job EXCEPT ![r][i] = "overdue"]
    /\ UNCHANGED <<row, cron, req, run, tbl, multi, seen, deployment>>

RunEnds(r) ==
    /\ run[r].at = "exec" /\ ~ UnderWay(r)
    /\ At(r, "idle")
    /\ UNCHANGED <<row, cron, req, job, tbl, multi, seen, deployment>>

-----------------------------------------------------------------------------
(***************************************************************************)
(* Restart: schedule.New adds an entry for every row; goroutines are gone, *)
(* unfinished rows of jobs stay.                                           *)
(***************************************************************************)
New ==
    LET ids == {id \in Ids : Stored(id)}
    IN  /\ \E n \in Bijection(ids, 1 .. Cardinality(ids)) :
             /\ mapping' = [id \in Ids |-> IF id \in ids THEN n[id] ELSE 0]
             /\ entries' = {[n |-> n[id], id |-> id, spec |-> row[id].spec] : id \in ids}
        /\ last' = Cardinality(ids)

Crash ==
    /\ deployment.crashes
    /\ New
    /\ req' = [h \in Handlers |-> Idle]
    /\ run' = [r \in Runs |-> IF run[r].at = "exec" THEN run[r] ELSE [run[r] EXCEPT !.at = "idle"]]
    /\ job' = [r \in Runs |-> [i \in Clients |->
                 IF run[r].at = "exec" /\ job[r][i] \in {"none", "sent"} THEN "skipped" ELSE job[r][i]]]
    /\ UNCHANGED <<row, tbl, multi, seen, deployment>>

-----------------------------------------------------------------------------
Accepts(h) ==
    \E id \in deployment.ids : \/ handlePostSchedules(h, id)
                               \/ handleUpdateSchedule(h, id)
                               \/ handleDeleteSchedule(h, id)

Proceeds(h) ==
    \/ Insert(h) \/ Update(h) \/ Remove(h) \/ Add(h)
    \/ DeleteRow(h) \/ DeleteJobs(h) \/ DeleteMulti(h) \/ StatementFails(h)

RunStep(r) ==
    \/ Get(r) \/ Count(r) \/ StartMultiClientJob(r) \/ CannotStart(r) \/ RunEnds(r)
    \/ \E i \in Clients : \/ Dispatch(r, i) \/ Replied(r, i) \/ SendFails(r, i)
                          \/ Result(r, i) \/ TimesOut(r, i)

Fires(id) == \E e \in entries, r \in deployment.runs : e.id = id /\ Fire(e, r)

Next ==
    \/ \E h \in deployment.handlers : Accepts(h) \/ Proceeds(h)
    \/ \E id \in Ids : Fires(id)
    \/ \E r \in Runs : RunStep(r)
    \/ Crash

Spec == Init /\ [][Next]_vars

\* Goroutines go on, and the time of a cron expression comes again and again.
Fairness ==
    /\ \A h \in Handlers : WF_vars(Proceeds(h))
    /\ \A r \in Runs : WF_vars(RunStep(r))
    /\ \A id \in Ids : SF_vars(Fires(id))

FairSpec == Spec /\ Fairness

-----------------------------------------------------------------------------
(***************************************************************************)
(* Properties.                                                             *)
(***************************************************************************)
Row == [st : {"none", "gone"}] \union [st : {"stored"}, spec : Specs, over : BOOLEAN]

Entry == [n : Nat \ {0}, id : Ids, spec : Specs]

Request ==
    [op : {"idle"}]
    \union [op : {"insert", "add", "update", "remove"}, id : Ids, spec : Specs, over : BOOLEAN]
    \union [op : {"delete", "jobs", "multi", "unmap"}, id : Ids]

RunState ==
    [at : {"idle"}]
    \union [at : {"idle", "get", "count", "start", "exec"}, id : Ids, over : BOOLEAN]

JobState == {"none", "sent", "running", "overdue", "done", "skipped"}

CronTypeOK ==
    /\ deployment \in Deployments
    /\ row \in [Ids -> Row]
    /\ entries \subseteq Entry
    /\ last \in Nat
    /\ \A e \in entries : e.n <= last
    /\ \A e, f \in entries : e.n = f.n => e = f
    /\ mapping \in [Ids -> 0 .. last]
    /\ req \in [Handlers -> Request]

RunTypeOK ==
    /\ run \in [Runs -> RunState]
    /\ job \in [Runs -> [Clients -> JobState]]
    /\ tbl \in [Runs -> SUBSET Clients]
    /\ \A r \in Runs : \A i \in tbl[r] : job[r][i] \in {"running", "overdue", "done"}
    /\ multi \in [Runs -> BOOLEAN]
    /\ seen \in [Runs -> SUBSET (Runs \X Clients)]

\* Rows, cron entries, requests and runs keep their shape: entry numbers are
\* given once, and a row of a job belongs to a job that was answered.
TypeOK == CronTypeOK /\ RunTypeOK

\* Requests come one at a time.
OneRequest == \A g, h \in deployment.handlers : g = h

\* A stored schedule is never forgotten: unless a request is just about to add
\* its entry, it has one, and it is the one a later update or delete finds.
\* Creates, updates and deletes may interleave, fail and be cut off by a
\* restart (Manager.Create, Update, Delete, New). When requests come one at a
\* time and none is under way, the cron has no other entries, each with the
\* stored cron expression; a delete that fails half-way is left out.
EntriesMatchRows ==
    /\ TypeOK
    /\ \A id \in Ids :
          Stored(id) => \/ \E h \in Handlers : req[h].op = "add" /\ req[h].id = id
                        \/ \E e \in entries : e.id = id /\ e.n = mapping[id]
    /\ OneRequest /\ "delete" \notin StoreFails /\ (\A h \in Handlers : req[h].op = "idle") =>
          /\ \A e \in entries : Stored(e.id) /\ e.spec = row[e.id].spec
          /\ \A e, f \in entries : e.id = f.id => e = f

\* A command of a schedule without overlaps holds up the next run for as long
\* as it runs: if its row was on record when the minute came, and it has neither
\* finished nor outlived its timeout since, the run of that minute does not start
\* (Manager.run), whatever other runs, requests, failures and restarts do in
\* between. Nothing more is promised: a command that its agent has not answered
\* for, or whose row could not be written, and the pause between two targets of
\* a run hold up nothing, so that runs can overlap there, although the API
\* documents overlaps as "Whether to start another schedule execution when
\* previous is still in progress" (Schedule.yaml:66-70).
HeldUp(r) ==
    run[r].at = "start" /\ run'[r].at = "exec" /\ ~ run[r].over =>
       seen[r] \cap CountJobsInProgress(run[r].id) = {}

RunningHoldsNext == [][\A r \in Runs : HeldUp(r)]_vars

\* A job whose result never comes does not silence its schedule: a schedule
\* that stays stored gets past the overlap check again and again
\* (SQLiteProvider.CountJobsInProgress).
KeepsRunning ==
    \A id \in Ids : ~deployment.crashes /\ <>[]Stored(id) => []<>(\E r \in RunsOf(id) : run[r].at = "start")
=============================================================================
