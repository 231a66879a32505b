-------------------------- MODULE SchedulesProofs ---------------------------
(***************************************************************************)
(* Proofs about Schedules. Rows and cron entries stay in step              *)
(* (EntriesMatchRows), and a command on record holds up the next run of    *)
(* its schedule (RunningHoldsNext), for any number of schedules, handlers, *)
(* runs and targets. First the requests and a restart, then the runs.      *)
(***************************************************************************)
EXTENDS Schedules, FiniteSetTheorems, TLAPS

(***************************************************************************)
(* The part of the inductive invariant about the table and the cron.       *)
(***************************************************************************)
Deleting == {"jobs", "multi", "unmap"}

\* The id of a request to insert is fresh; a request past its first statement
\* has found its row, and a delete past it has left none. What the cron and the
\* runs know of was once stored.
RequestsFit ==
    /\ \A h \in Handlers : req[h].op # "idle" => h \in deployment.handlers
    /\ \A h \in Handlers : req[h].op = "insert" => row[req[h].id].st = "none"
    /\ \A g, h \in Handlers : req[g].op = "insert" /\ req[h].op = "insert" /\ req[g].id = req[h].id => g = h
    /\ \A h \in Handlers : req[h].op \notin {"idle", "insert"} => row[req[h].id].st # "none"
    /\ \A h \in Handlers : req[h].op \in Deleting => row[req[h].id].st = "gone"
    /\ \A e \in entries : row[e.id].st # "none"

\* The number kept for a schedule is that of an entry of this schedule, or of
\* none; a stored schedule has its entry or a request about to add it.
Mapped ==
    /\ \A e \in entries, id \in Ids : e.n = mapping[id] => e.id = id
    /\ \A id \in Ids :
          Stored(id) => \/ \E h \in Handlers : req[h].op = "add" /\ req[h].id = id
                        \/ \E e \in entries : e.id = id /\ e.n = mapping[id]

\* One request at a time: every entry is the one kept, and it matches its row
\* unless the request is between the table and the cron.
InStep ==
    OneRequest /\ "delete" \notin StoreFails =>
        /\ \A e \in entries :
              /\ e.n = mapping[e.id]
              /\ \/ Stored(e.id) /\ e.spec = row[e.id].spec
                 \/ \E h \in Handlers : req[h].op \in Deleting \union {"remove"} /\ req[h].id = e.id
        /\ \A h \in Handlers :
              /\ req[h].op \in {"update", "delete"} => Stored(req[h].id)
              /\ req[h].op \in {"remove", "add"} => Stored(req[h].id) /\ req[h].spec = row[req[h].id].spec
              /\ req[h].op = "add" => \A e \in entries : e.id # req[h].id

CronInv == CronTypeOK /\ RequestsFit /\ Mapped /\ InStep

-----------------------------------------------------------------------------
\* The deployment has the parts the actions use.
LEMMA DeploymentFacts ==
    ASSUME deployment \in Deployments
    PROVE  /\ deployment.ids \subseteq Ids /\ deployment.specs \subseteq Specs
           /\ deployment.overlaps \subseteq BOOLEAN
           /\ deployment.handlers \subseteq Handlers /\ deployment.runs \subseteq Runs
           /\ deployment.targets \in Nat \ {0}
  BY Zenon, DeploymentsAssumption DEF Deployment

\* Steps of runs leave the table and the cron alone.
LEMMA CronUnchanged ==
    ASSUME CronInv, UNCHANGED <<deployment, row, entries, mapping, last, req>>
    PROVE  CronInv'
<1>1. CronTypeOK'
  BY Zenon DEF CronInv, CronTypeOK
<1>2. RequestsFit' /\ Mapped' /\ InStep'
  BY DEF CronInv, RequestsFit, Mapped, InStep, Stored, OneRequest, StoreFails
<1> QED BY Zenon, <1>1, <1>2 DEF CronInv

\* A request is accepted.
LEMMA AcceptStep ==
    ASSUME CronInv, NEW h \in deployment.handlers, Accepts(h)
    PROVE  CronInv'
<1>0. CronTypeOK /\ RequestsFit /\ Mapped /\ InStep /\ h \in Handlers
  BY Zenon, DeploymentFacts DEF CronInv, CronTypeOK
<1>1. PICK id \in Ids : \/ handlePostSchedules(h, id) \/ handleUpdateSchedule(h, id)
                       \/ handleDeleteSchedule(h, id)
  BY Zenon, <1>0, DeploymentFacts DEF Accepts, CronTypeOK
<1>2. PICK q \in Request :
        /\ q.op # "idle" /\ q.id = id
        /\ req[h].op = "idle" /\ req' = [req EXCEPT ![h] = q]
        /\ UNCHANGED <<row, cron, deployment>>
        /\ \/ q.op = "insert" /\ row[id].st = "none" /\ \A g \in Handlers : req[g].op = "insert" => req[g].id # id
           \/ q.op \in {"update", "delete"} /\ Stored(id)
  <2>1. CASE handleDeleteSchedule(h, id)
    <3>1. [op |-> "delete", id |-> id] \in Request
      BY Zenon DEF Request
    <3> QED BY Zenon, <2>1, <3>1 DEF handleDeleteSchedule
  <2>2. CASE handlePostSchedules(h, id) \/ handleUpdateSchedule(h, id)
    <3>1. PICK spec \in deployment.specs, over \in deployment.overlaps, op \in {"insert", "update"} :
            /\ req[h].op = "idle"
            /\ req' = [req EXCEPT ![h] = [op |-> op, id |-> id, spec |-> spec, over |-> over]]
            /\ UNCHANGED <<row, cron, deployment>>
            /\ \/ op = "insert" /\ row[id].st = "none" /\ \A g \in Handlers : req[g].op = "insert" => req[g].id # id
               \/ op = "update" /\ Stored(id)
      BY Zenon, <2>2 DEF handlePostSchedules, handleUpdateSchedule, Accept
    <3>2. [op |-> op, id |-> id, spec |-> spec, over |-> over] \in Request
      BY Zenon, <1>0, <3>1, DeploymentFacts DEF CronTypeOK, Request
    <3> QED BY Zenon, <3>1, <3>2
  <2> QED BY Zenon, <1>1, <2>1, <2>2
<1>3. /\ req'[h] = q /\ \A g \in Handlers : g # h => req'[g] = req[g]
      /\ UNCHANGED <<row, entries, mapping, last, deployment>>
  BY Zenon, <1>0, <1>2 DEF CronTypeOK, cron
<1>4. CronTypeOK'
  BY Zenon, <1>0, <1>2, <1>3 DEF CronTypeOK
<1>5. RequestsFit'
  BY <1>0, <1>2, <1>3 DEF RequestsFit, Stored, Deleting
<1>6. Mapped'
  BY <1>0, <1>2, <1>3 DEF Mapped, Stored
<1>7. InStep'
  BY <1>0, <1>2, <1>3 DEF InStep, Stored, Deleting, OneRequest, StoreFails
<1> QED BY Zenon, <1>4, <1>5, <1>6, <1>7 DEF CronInv

\* A request that ends leaves everything else as it is.
LEMMA EndsStep ==
    ASSUME CronInv, NEW h \in Handlers, Ends(h), req[h].op # "add",
           req[h].op \in Deleting \union {"remove"} => "delete" \in StoreFails,
           UNCHANGED <<deployment, row, entries, mapping, last>>
    PROVE  CronInv'
<1>0. CronTypeOK /\ RequestsFit /\ Mapped /\ InStep
  BY Zenon DEF CronInv
<1>1. /\ req'[h] = Idle /\ \A g \in Handlers : g # h => req'[g] = req[g]
      /\ Idle \in Request /\ Idle.op = "idle"
  BY Zenon, <1>0 DEF CronTypeOK, Ends, Idle, Request
<1>2. CronTypeOK'
  BY Zenon, <1>0, <1>1 DEF CronTypeOK, Ends
<1>3. RequestsFit' /\ Mapped'
  BY <1>0, <1>1 DEF RequestsFit, Mapped, Stored, Deleting
<1>4. InStep'
  BY <1>0, <1>1 DEF InStep, Stored, Deleting, OneRequest, StoreFails
<1> QED BY Zenon, <1>2, <1>3, <1>4 DEF CronInv

\* What a request asks to store is a row.
LEMMA AskedFacts ==
    ASSUME CronTypeOK, NEW h \in Handlers, req[h].op \in {"insert", "add", "update", "remove"}
    PROVE  /\ req[h].id \in Ids /\ req[h].spec \in Specs
           /\ Asked(h) \in Row /\ Asked(h).st = "stored" /\ Asked(h).spec = req[h].spec
  BY Zenon DEF CronTypeOK, Request, Row, Asked

\* A request goes on to its next step with what it asked for.
LEMMA GotoFacts ==
    ASSUME CronTypeOK, NEW h \in Handlers, NEW op, Goto(h, op),
           \/ req[h].op \in {"insert", "add", "update", "remove"} /\ op \in {"insert", "add", "update", "remove"}
           \/ req[h].op \in {"delete", "jobs", "multi", "unmap"} /\ op \in {"delete", "jobs", "multi", "unmap"}
    PROVE  /\ req' \in [Handlers -> Request]
           /\ req'[h].op = op /\ req'[h].id = req[h].id /\ req[h].id \in Ids
           /\ (req[h].op \in {"insert", "add", "update", "remove"} => req'[h].spec = req[h].spec)
           /\ \A g \in Handlers : g # h => req'[g] = req[g]
<1>1. /\ req' = [req EXCEPT ![h] = [req[h] EXCEPT !.op = op]]
      /\ req \in [Handlers -> Request]
  BY Zenon DEF Goto, CronTypeOK
<1>2. [req[h] EXCEPT !.op = op] \in Request
  <2>1. CASE req[h].op \in {"insert", "add", "update", "remove"}
    <3>1. req[h] \in [op : {"insert", "add", "update", "remove"}, id : Ids, spec : Specs, over : BOOLEAN]
      BY Zenon, <1>1, <2>1 DEF Request
    <3> QED BY Zenon, <2>1, <3>1 DEF Request
  <2>2. CASE req[h].op \in {"delete", "jobs", "multi", "unmap"}
    <3>1. req[h] \in [op : {"delete", "jobs", "multi", "unmap"}, id : Ids]
      BY Zenon, <1>1, <2>2 DEF Request
    <3> QED BY Zenon, <2>2, <3>1 DEF Request
  <2> QED BY Zenon, <2>1, <2>2
<1>3. /\ req'[h] = [req[h] EXCEPT !.op = op]
      /\ \A g \in Handlers : g # h => req'[g] = req[g]
  BY Zenon, <1>1
<1>4. req[h] \in Request
  BY Zenon, <1>1
<1>5. /\ req'[h].op = op /\ req'[h].id = req[h].id /\ req[h].id \in Ids
      /\ (req[h].op \in {"insert", "add", "update", "remove"} => req'[h].spec = req[h].spec)
  BY Zenon, <1>3, <1>4 DEF Request
<1> QED BY Zenon, <1>1, <1>2, <1>3, <1>5

\* The insertion of a schedule's row.
LEMMA InsertStep ==
    ASSUME CronInv, NEW h \in deployment.handlers, Insert(h)
    PROVE  CronInv'
<1>0. CronTypeOK /\ RequestsFit /\ Mapped /\ InStep /\ h \in Handlers
  BY Zenon, DeploymentFacts DEF CronInv, CronTypeOK
<1> DEFINE id == req[h].id
<1>1. /\ req[h].op = "insert" /\ UNCHANGED <<entries, mapping, last, deployment>>
      /\ row' = [row EXCEPT ![id] = Asked(h)] /\ Goto(h, "add")
  BY Zenon DEF Insert, cron
<1>2. /\ id \in Ids /\ req[h].spec \in Specs
      /\ Asked(h) \in Row /\ Asked(h).st = "stored" /\ Asked(h).spec = req[h].spec
  BY Zenon, <1>0, <1>1, AskedFacts
<1>3. /\ req' \in [Handlers -> Request]
      /\ req'[h].op = "add" /\ req'[h].id = id /\ req'[h].spec = req[h].spec
      /\ \A g \in Handlers : g # h => req'[g] = req[g]
  BY Zenon, <1>0, <1>1, GotoFacts
<1>4. /\ row'[id] = Asked(h) /\ \A i \in Ids : i # id => row'[i] = row[i]
      /\ row[id].st = "none"
  BY Zenon, <1>0, <1>1, <1>2 DEF CronTypeOK, RequestsFit
<1>t. \A e \in entries : e.id \in Ids
  BY Zenon, <1>0 DEF CronTypeOK, Entry
<1>q. \A g \in Handlers : req[g].op # "idle" => req[g].id \in Ids
  BY Zenon, <1>0 DEF CronTypeOK, Request
<1>5. CronTypeOK'
  BY ZenonT(60), <1>0, <1>1, <1>2, <1>3 DEF CronTypeOK
<1>6. RequestsFit'
  BY <1>0, <1>1, <1>2, <1>3, <1>4, <1>t, <1>q DEF RequestsFit, Deleting
<1>7. Mapped'
  BY SMTT(60), <1>0, <1>1, <1>2, <1>3, <1>4 DEF Mapped, Stored
<1>8. InStep'
  BY SMTT(60), <1>0, <1>1, <1>2, <1>3, <1>4, <1>t, <1>q DEF InStep, RequestsFit, Stored, Deleting, OneRequest, StoreFails
<1> QED BY Zenon, <1>5, <1>6, <1>7, <1>8 DEF CronInv

\* The update of a schedule's row.
LEMMA UpdateStep ==
    ASSUME CronInv, NEW h \in deployment.handlers, Update(h)
    PROVE  CronInv'
<1>0. CronTypeOK /\ RequestsFit /\ Mapped /\ InStep /\ h \in Handlers
  BY Zenon, DeploymentFacts DEF CronInv, CronTypeOK
<1> DEFINE id == req[h].id
<1>1. /\ req[h].op = "update" /\ UNCHANGED <<entries, mapping, last, deployment>>
      /\ row' = [row EXCEPT ![id] = IF @.st = "stored" THEN Asked(h) ELSE @] /\ Goto(h, "remove")
  BY Zenon DEF Update, cron
<1>2. /\ id \in Ids /\ req[h].spec \in Specs
      /\ Asked(h) \in Row /\ Asked(h).st = "stored" /\ Asked(h).spec = req[h].spec
  BY Zenon, <1>0, <1>1, AskedFacts
<1>3. /\ req' \in [Handlers -> Request]
      /\ req'[h].op = "remove" /\ req'[h].id = id /\ req'[h].spec = req[h].spec
      /\ \A g \in Handlers : g # h => req'[g] = req[g]
  BY Zenon, <1>0, <1>1, GotoFacts
<1>4. /\ row'[id] = (IF row[id].st = "stored" THEN Asked(h) ELSE row[id])
      /\ \A i \in Ids : i # id => row'[i] = row[i]
      /\ \A i \in Ids : row'[i].st = row[i].st
  BY Zenon, <1>0, <1>1, <1>2 DEF CronTypeOK
<1>t. \A e \in entries : e.id \in Ids
  BY Zenon, <1>0 DEF CronTypeOK, Entry
<1>q. \A g \in Handlers : req[g].op # "idle" => req[g].id \in Ids
  BY Zenon, <1>0 DEF CronTypeOK, Request
<1>5. CronTypeOK'
  BY ZenonT(60), <1>0, <1>1, <1>2, <1>3 DEF CronTypeOK
<1>6. RequestsFit'
  <2>1. \A g \in Handlers : /\ req'[g].op = req[g].op \/ (g = h /\ req'[g].op = "remove")
                            /\ req[g].op # "idle" => req'[g].id = req[g].id /\ row'[req[g].id].st = row[req[g].id].st
                            /\ req[g].op = "idle" => req'[g].op = "idle"
    BY Zenon, <1>0, <1>1, <1>3, <1>4, <1>q
  <2>2. \A e \in entries : row'[e.id].st = row[e.id].st
    BY Zenon, <1>4, <1>t
  <2>3. UNCHANGED <<entries, deployment>> /\ "remove" \notin Deleting \union {"insert", "idle"}
        /\ "idle" \notin Deleting
    BY ZenonT(60), <1>1 DEF Deleting
  <2> QED BY SMTT(60), <1>0, <1>1, <2>1, <2>2, <2>3 DEF RequestsFit
<1>7. Mapped'
  BY <1>0, <1>1, <1>2, <1>3, <1>4 DEF Mapped, Stored
<1>8. ASSUME OneRequest, "delete" \notin StoreFails
      PROVE  /\ \A e \in entries :
                  /\ e.n = mapping[e.id]
                  /\ e.id # id => row'[e.id].st = "stored" /\ e.spec = row'[e.id].spec
             /\ row'[id].st = "stored" /\ row'[id].spec = req'[h].spec
             /\ \A g \in Handlers : g # h => req'[g].op = "idle"
  <2>1. \A g \in Handlers : g # h => req[g].op = "idle"
    BY Zenon, <1>0, <1>8 DEF RequestsFit, OneRequest
  <2>2. row[id].st = "stored"
    BY Zenon, <1>0, <1>1, <1>8 DEF InStep, Stored
  <2>3. \A e \in entries : e.n = mapping[e.id] /\ row[e.id].st = "stored" /\ e.spec = row[e.id].spec
    BY ZenonT(60), <1>0, <1>1, <1>8, <2>1 DEF InStep, Stored, Deleting
  <2> QED BY ZenonT(60), <1>2, <1>3, <1>4, <1>t, <2>1, <2>2, <2>3
<1>9. InStep'
  BY SMTT(60), <1>0, <1>1, <1>3, <1>8 DEF InStep, Stored, OneRequest, StoreFails
<1> QED BY Zenon, <1>5, <1>6, <1>7, <1>9 DEF CronInv

\* Only the entry of the schedule itself goes; a stored schedule gets a new one
\* from the same request.
LEMMA RemoveStep ==
    ASSUME CronInv, NEW h \in deployment.handlers, Remove(h)
    PROVE  CronInv'
<1>0. CronTypeOK /\ RequestsFit /\ Mapped /\ InStep /\ h \in Handlers
  BY Zenon, DeploymentFacts DEF CronInv, CronTypeOK
<1> DEFINE id == req[h].id
<1>1. /\ req[h].op \in {"remove", "unmap"} /\ UNCHANGED <<row, last, deployment>>
      /\ entries' = {e \in entries : e.n # mapping[id]}
      /\ mapping' = [mapping EXCEPT ![id] = 0]
      /\ IF req[h].op = "remove" THEN Goto(h, "add") ELSE Ends(h)
  BY Zenon DEF Remove
<1>q. \A g \in Handlers : req[g].op # "idle" => req[g].id \in Ids
  BY Zenon, <1>0 DEF CronTypeOK, Request
<1>2. id \in Ids
  BY Zenon, <1>0, <1>1, <1>q
<1>3. /\ req' \in [Handlers -> Request]
      /\ \A g \in Handlers : g # h => req'[g] = req[g]
      /\ req[h].op = "remove" => req'[h].op = "add" /\ req'[h].id = id /\ req'[h].spec = req[h].spec
      /\ req[h].op = "unmap" => req'[h].op = "idle"
  <2>1. CASE req[h].op = "remove"
    BY Zenon, <1>0, <1>1, <2>1, GotoFacts
  <2>2. CASE req[h].op = "unmap"
    BY <1>0, <1>1, <2>2 DEF Ends, Idle, Request, CronTypeOK
  <2> QED BY Zenon, <1>1, <2>1, <2>2
<1>4. /\ mapping'[id] = 0 /\ \A i \in Ids : i # id => mapping'[i] = mapping[i]
  BY Zenon, <1>0, <1>1, <1>2 DEF CronTypeOK
<1>t. \A e \in entries : e.id \in Ids /\ e.n \in Nat \ {0}
  BY Zenon, <1>0 DEF CronTypeOK, Entry
<1>5. CronTypeOK'
  BY SMTT(60), <1>0, <1>1, <1>2, <1>3 DEF CronTypeOK
<1>6. RequestsFit'
  BY SMTT(60), <1>0, <1>1, <1>2, <1>3, <1>t, <1>q DEF RequestsFit, Deleting
<1>7. Mapped'
  BY SMTT(60), <1>0, <1>1, <1>2, <1>3, <1>4, <1>t DEF Mapped, RequestsFit, Deleting, Stored
<1>8. InStep'
  BY SMTT(60), <1>0, <1>1, <1>2, <1>3, <1>4, <1>t, <1>q DEF InStep, RequestsFit, Stored, Deleting, OneRequest, StoreFails
<1> QED BY Zenon, <1>5, <1>6, <1>7, <1>8 DEF CronInv

\* The registration of a stored schedule with the cron.
LEMMA AddStep ==
    ASSUME CronInv, NEW h \in deployment.handlers, Add(h)
    PROVE  CronInv'
<1>0. CronTypeOK /\ RequestsFit /\ Mapped /\ InStep /\ h \in Handlers
  BY Zenon, DeploymentFacts DEF CronInv, CronTypeOK
<1> DEFINE id == req[h].id
           new == [n |-> last + 1, id |-> req[h].id, spec |-> req[h].spec]
<1>1. /\ req[h].op = "add" /\ UNCHANGED <<row, deployment>>
      /\ last' = last + 1
      /\ entries' = entries \union {new}
      /\ mapping' = [mapping EXCEPT ![id] = last + 1]
      /\ Ends(h)
  BY Zenon DEF Add
<1>2. id \in Ids /\ req[h].spec \in Specs
  BY Zenon, <1>0, <1>1, AskedFacts
<1>3. /\ req' \in [Handlers -> Request]
      /\ \A g \in Handlers : g # h => req'[g] = req[g]
      /\ req'[h].op = "idle"
  BY Zenon, <1>0, <1>1 DEF Ends, Idle, Request, CronTypeOK
<1>4. /\ mapping'[id] = last + 1 /\ \A i \in Ids : i # id => mapping'[i] = mapping[i]
      /\ \A i \in Ids : mapping[i] \in 0 .. last
      /\ last \in Nat
  BY Zenon, <1>0, <1>1, <1>2 DEF CronTypeOK
<1>t. \A e \in entries : e.id \in Ids /\ e.n \in Nat /\ e.n <= last
  BY Zenon, <1>0 DEF CronTypeOK, Entry
<1>n. new \in Entry /\ new.n = last + 1 /\ new.id = id /\ new.spec = req[h].spec
  BY <1>2, <1>4 DEF Entry
<1>q. \A g \in Handlers : req[g].op # "idle" => req[g].id \in Ids
  BY Zenon, <1>0 DEF CronTypeOK, Request
<1> HIDE DEF new
<1>5. CronTypeOK'
  <2>1. entries' \subseteq Entry /\ last' \in Nat
    BY <1>0, <1>1, <1>4, <1>n DEF CronTypeOK
  <2>2. \A e \in entries' : e.n <= last'
    BY <1>1, <1>4, <1>t, <1>n
  <2>3. \A e, f \in entries' : e.n = f.n => e = f
    BY <1>0, <1>1, <1>4, <1>t, <1>n DEF CronTypeOK
  <2>4. mapping' \in [Ids -> 0 .. last']
    BY SMTT(60), <1>0, <1>1, <1>2, <1>4 DEF CronTypeOK
  <2> QED BY Zenon, <1>0, <1>1, <1>3, <2>1, <2>2, <2>3, <2>4 DEF CronTypeOK
<1>6. RequestsFit'
  BY SMTT(60), <1>0, <1>1, <1>2, <1>3, <1>t, <1>n, <1>q DEF RequestsFit, Deleting
<1>7. Mapped'
  BY SMTT(60), <1>0, <1>1, <1>2, <1>3, <1>4, <1>t, <1>n DEF Mapped, Stored
<1>8. InStep'
  BY <1>0, <1>1, <1>2, <1>3, <1>4, <1>t, <1>n, <1>q DEF InStep, RequestsFit, Stored, Deleting, OneRequest, StoreFails
<1> QED BY Zenon, <1>5, <1>6, <1>7, <1>8 DEF CronInv

\* The deletion of a schedule's row.
LEMMA DeleteRowStep ==
    ASSUME CronInv, NEW h \in deployment.handlers, DeleteRow(h)
    PROVE  CronInv'
<1>0. CronTypeOK /\ RequestsFit /\ Mapped /\ InStep /\ h \in Handlers
  BY Zenon, DeploymentFacts DEF CronInv, CronTypeOK
<1> DEFINE id == req[h].id
<1>1. req[h].op = "delete" /\ UNCHANGED <<entries, mapping, last, deployment>>
  BY Zenon DEF DeleteRow, cron
<1>2. CASE ~Stored(id)
  BY Zenon, <1>0, <1>1, <1>2, EndsStep DEF DeleteRow, Deleting
<1>3. CASE Stored(id)
  <2>1. row' = [row EXCEPT ![id] = [st |-> "gone"]] /\ Goto(h, "jobs")
    BY Zenon, <1>3 DEF DeleteRow
  <2>2. /\ req' \in [Handlers -> Request]
        /\ req'[h].op = "jobs" /\ req'[h].id = id /\ id \in Ids
        /\ \A g \in Handlers : g # h => req'[g] = req[g]
    BY Zenon, <1>0, <1>1, <2>1, GotoFacts
  <2>3. /\ row'[id].st = "gone" /\ \A i \in Ids : i # id => row'[i] = row[i]
        /\ row[id].st = "stored" /\ [st |-> "gone"] \in Row
    BY Zenon, <1>0, <1>3, <2>1, <2>2 DEF CronTypeOK, Stored, Row
  <2>t. \A e \in entries : e.id \in Ids
    BY Zenon, <1>0 DEF CronTypeOK, Entry
  <2>q. \A g \in Handlers : req[g].op # "idle" => req[g].id \in Ids
    BY Zenon, <1>0 DEF CronTypeOK, Request
  <2>5. CronTypeOK'
    BY ZenonT(60), <1>0, <1>1, <2>1, <2>2, <2>3 DEF CronTypeOK
  <2>6. RequestsFit'
    BY <1>0, <1>1, <2>2, <2>3, <2>t, <2>q DEF RequestsFit, Deleting
  <2>7. Mapped'
    BY SMTT(60), <1>0, <1>1, <2>2, <2>3 DEF Mapped, Stored
  <2>8. InStep'
    BY <1>0, <1>1, <2>2, <2>3, <2>t, <2>q DEF InStep, RequestsFit, Stored, Deleting, OneRequest, StoreFails
  <2> QED BY Zenon, <2>5, <2>6, <2>7, <2>8 DEF CronInv
<1> QED BY Zenon, <1>2, <1>3

\* The jobs of a deleted schedule are deleted; the entry comes last.
LEMMA DeleteJobsStep ==
    ASSUME CronInv, NEW h \in deployment.handlers, DeleteJobs(h) \/ DeleteMulti(h)
    PROVE  CronInv'
<1>0. CronTypeOK /\ RequestsFit /\ Mapped /\ InStep /\ h \in Handlers
  BY Zenon, DeploymentFacts DEF CronInv, CronTypeOK
<1>1. /\ req[h].op \in {"jobs", "multi"} /\ UNCHANGED <<row, entries, mapping, last, deployment>>
      /\ Goto(h, "multi") \/ Goto(h, "unmap")
  BY Zenon DEF DeleteJobs, DeleteMulti, cron
<1>2. /\ req' \in [Handlers -> Request]
      /\ req'[h].op \in {"multi", "unmap"} /\ req'[h].id = req[h].id
      /\ \A g \in Handlers : g # h => req'[g] = req[g]
  <2>1. CASE Goto(h, "multi")
    BY Zenon, <1>0, <1>1, <2>1, GotoFacts
  <2>2. CASE Goto(h, "unmap")
    BY Zenon, <1>0, <1>1, <2>2, GotoFacts
  <2> QED BY Zenon, <1>1, <2>1, <2>2
<1>3. CronTypeOK'
  BY Zenon, <1>0, <1>1, <1>2 DEF CronTypeOK
<1>4. RequestsFit'
  BY <1>0, <1>1, <1>2 DEF RequestsFit, Deleting
<1>5. Mapped'
  BY SMTT(60), <1>0, <1>1, <1>2 DEF Mapped, Stored
<1>6. InStep'
  BY <1>0, <1>1, <1>2 DEF InStep, Stored, Deleting, OneRequest, StoreFails
<1> QED BY Zenon, <1>3, <1>4, <1>5, <1>6 DEF CronInv

\* A restart adds one entry for every stored schedule.
LEMMA CrashStep ==
    ASSUME CronInv, Crash
    PROVE  CronInv'
<1>0. CronTypeOK /\ RequestsFit /\ Mapped /\ InStep
  BY Zenon DEF CronInv
<1> DEFINE ids == {id \in Ids : Stored(id)}
           card == Cardinality(ids)
<1>1. /\ UNCHANGED <<row, deployment>> /\ last' = card
      /\ req' = [h \in Handlers |-> Idle]
  BY Zenon DEF Crash, New
<1>2. PICK n \in Bijection(ids, 1 .. card) :
        /\ mapping' = [id \in Ids |-> IF id \in ids THEN n[id] ELSE 0]
        /\ entries' = {[n |-> n[id], id |-> id, spec |-> row[id].spec] : id \in ids}
  BY Zenon DEF Crash, New
<1>3. card \in Nat
  BY Zenon, IdsAssumption, FS_Subset, FS_CardinalityType
<1>4. /\ n \in [ids -> 1 .. card]
      /\ \A a, b \in ids : n[a] = n[b] => a = b
  BY Zenon, <1>2 DEF Bijection, Injection, IsInjective
<1> HIDE DEF card
<1>5. \A id \in ids : n[id] \in Nat \ {0} /\ n[id] <= card /\ row[id].spec \in Specs /\ id \in Ids /\ Stored(id)
  BY SMTT(60), <1>0, <1>3, <1>4 DEF CronTypeOK, Stored, Row
<1>6. \A e \in entries' : /\ e.id \in ids /\ e.n = n[e.id] /\ e.spec = row[e.id].spec
                          /\ e = [n |-> n[e.id], id |-> e.id, spec |-> row[e.id].spec]
  BY <1>2
<1>7. \A h \in Handlers : req'[h].op = "idle" /\ req'[h] \in Request
  BY Zenon, <1>1 DEF Idle, Request
<1>8. ASSUME NEW id \in ids
      PROVE  mapping'[id] = n[id] /\ \E e \in entries' : e.id = id /\ e.n = n[id]
  <2>1. [n |-> n[id], id |-> id, spec |-> row[id].spec] \in entries'
    BY Zenon, <1>2
  <2> QED BY Zenon, <1>2, <1>5, <2>1
<1>9. \A id \in Ids : id \notin ids => mapping'[id] = 0
  BY Zenon, <1>2
<1>10. CronTypeOK'
  <2>1. entries' \subseteq Entry
    BY <1>2, <1>5 DEF Entry
  <2>2. \A e \in entries' : e.n <= last'
    BY Zenon, <1>1, <1>5, <1>6
  <2>3. \A e, f \in entries' : e.n = f.n => e = f
    BY <1>4, <1>6
  <2>4. mapping' \in [Ids -> 0 .. last']
    BY <1>1, <1>2, <1>3, <1>5
  <2>5. req' \in [Handlers -> Request]
    BY Zenon, <1>1, <1>7
  <2> QED BY Zenon, <1>0, <1>1, <1>3, <2>1, <2>2, <2>3, <2>4, <2>5 DEF CronTypeOK
<1>11. RequestsFit'
  BY Zenon, <1>1, <1>5, <1>6, <1>7 DEF RequestsFit, Stored, Deleting
<1>12. Mapped'
  <2>1. \A e \in entries', id \in Ids : e.n = mapping'[id] => e.id = id
    BY <1>4, <1>5, <1>6, <1>8, <1>9
  <2>2. \A id \in Ids : Stored(id)' => id \in ids
    BY Zenon, <1>1 DEF Stored
  <2> QED BY ZenonT(60), <2>1, <2>2, <1>8 DEF Mapped
<1>13. InStep'
  BY <1>1, <1>5, <1>6, <1>7, <1>8 DEF InStep, Stored, Deleting
<1> QED BY Zenon, <1>10, <1>11, <1>12, <1>13 DEF CronInv

-----------------------------------------------------------------------------
(* The runs. *)

\* States of a command that its agent has answered for.
Answered == {"running", "overdue", "done"}

OnRecord(s, i) == multi[s] /\ i \in tbl[s] /\ job[s][i] = "running"

\* The commands a run has found on record belong to runs of its schedule that
\* have started theirs, and none of them is running on record any more once the
\* run has counted.
Found(r, x) ==
    /\ run[x[1]].at \in {"idle", "exec"} /\ job[x[1]][x[2]] \in Answered
    /\ run[r].at # "idle" => x[1] \in RunsOf(run[r].id)
    /\ run[r].at = "start" /\ ~run[r].over => ~OnRecord(x[1], x[2])

Records ==
    /\ \A r \in Runs : run[r].at \in {"get", "count", "start"} => tbl[r] = {}
    /\ \A r \in Runs : \A x \in seen[r] : Found(r, x)

ScheduleInv == CronInv /\ RunTypeOK /\ Records

-----------------------------------------------------------------------------
\* A run that is not idle is one of a schedule.
LEMMA RunFacts ==
    ASSUME RunTypeOK, NEW r \in Runs
    PROVE  /\ run[r] \in RunState /\ job[r] \in [Clients -> JobState]
           /\ run[r].at # "idle" => "id" \in DOMAIN run[r] /\ run[r].id \in Ids /\ run[r].over \in BOOLEAN
  BY Zenon DEF RunTypeOK, RunState

\* What a run has found on record are commands of runs.
LEMMA SeenFacts ==
    ASSUME RunTypeOK, NEW r \in Runs, NEW x \in seen[r]
    PROVE  x[1] \in Runs /\ x[2] \in Clients /\ x = <<x[1], x[2]>>
  BY DEF RunTypeOK

\* Requests leave runs and jobs alone.
LEMMA RunsUnchanged ==
    ASSUME RunTypeOK, Records, UNCHANGED <<deployment, run, job, tbl, multi, seen>>
    PROVE  RunTypeOK' /\ Records'
<1>1. RunTypeOK' /\ Clients' = Clients
  BY Zenon DEF RunTypeOK, Clients
<1>2. Records'
  BY Zenon DEF Records, Found, RunsOf, OnRecord
<1> QED BY Zenon, <1>1, <1>2

\* A run keeps its schedule while it goes on, commands do not start again, and a
\* run comes to its start by counting.
LEMMA RecordsKept ==
    ASSUME RunTypeOK, Records, UNCHANGED seen,
           \A s \in Runs : /\ run[s].at \in {"idle", "exec"} => run'[s].at \in {"idle", "exec"}
                           /\ run'[s].at # "idle" => run[s].at # "idle"
                           /\ run'[s].at \in {"get", "count", "start"} => tbl'[s] \subseteq tbl[s]
                           /\ "id" \in DOMAIN run[s] => "id" \in DOMAIN run'[s] /\ run'[s].id = run[s].id,
           \A s \in Runs : \A i \in Clients :
              run[s].at \in {"idle", "exec"} /\ job[s][i] \in Answered =>
                 job'[s][i] \in Answered /\ (OnRecord(s, i)' => OnRecord(s, i)),
           \A s \in Runs : run'[s].at = "start" /\ ~run'[s].over =>
              \/ run[s].at = "start" /\ ~run[s].over
              \/ run[s].at # "idle" /\ CountJobsInProgress(run[s].id) = {}
    PROVE  Records'
<1>0. ASSUME NEW r \in Runs, run'[r].at \in {"get", "count", "start"}
      PROVE  tbl'[r] = {}
  <2>1. run[r].at \in {"get", "count", "start"}
    BY Zenon, <1>0, RunFacts DEF RunState
  <2> QED BY Zenon, <1>0, <2>1 DEF Records
<1> SUFFICES ASSUME NEW r \in Runs, NEW x \in seen[r]
             PROVE  Found(r, x)'
  BY Zenon, <1>0 DEF Records
<1>1. x[1] \in Runs /\ x[2] \in Clients /\ x = <<x[1], x[2]>>
  BY Zenon, SeenFacts
<1>2. /\ run[x[1]].at \in {"idle", "exec"} /\ job[x[1]][x[2]] \in Answered
      /\ run[r].at # "idle" => x[1] \in RunsOf(run[r].id)
      /\ run[r].at = "start" /\ ~run[r].over => ~OnRecord(x[1], x[2])
  BY Zenon DEF Records, Found
<1>3. /\ run'[x[1]].at \in {"idle", "exec"} /\ job'[x[1]][x[2]] \in Answered
      /\ OnRecord(x[1], x[2])' => OnRecord(x[1], x[2])
  BY Zenon, <1>1, <1>2
<1>4. run'[r].at # "idle" => "id" \in DOMAIN run'[x[1]] /\ run'[x[1]].id = run'[r].id
  BY Zenon, <1>1, <1>2, RunFacts DEF RunsOf
<1>5. ASSUME run'[r].at = "start", ~run'[r].over, OnRecord(x[1], x[2]) PROVE FALSE
  <2>1. CASE run[r].at = "start" /\ ~run[r].over
    BY Zenon, <1>2, <1>5, <2>1
  <2>2. CASE run[r].at # "idle" /\ CountJobsInProgress(run[r].id) = {}
    <3>1. <<x[1], x[2]>> \in Runs \X Clients
      BY Zenon, <1>1
    <3>2. x \in CountJobsInProgress(run[r].id)
      BY Zenon, <1>1, <1>2, <1>5, <2>2, <3>1 DEF CountJobsInProgress, OnRecord
    <3> QED BY Zenon, <2>2, <3>2
  <2> QED BY Zenon, <1>5, <2>1, <2>2
<1> QED BY Zenon, <1>1, <1>3, <1>4, <1>5 DEF Found, RunsOf, Answered

\* Jobs and the row of the multi-client job are deleted.
LEMMA DeletedRuns ==
    ASSUME RunTypeOK, Records, NEW h \in deployment.handlers, DeleteJobs(h) \/ DeleteMulti(h)
    PROVE  RunTypeOK' /\ Records'
<1>2. UNCHANGED <<deployment, row, run, job, seen>> /\ Clients' = Clients
  BY Zenon DEF DeleteJobs, DeleteMulti, Clients
<1>3. \A r \in Runs : tbl'[r] \subseteq tbl[r] /\ multi'[r] \in BOOLEAN /\ (multi'[r] => multi[r])
  BY ZenonT(60) DEF DeleteJobs, DeleteMulti, RunTypeOK
<1>4. RunTypeOK'
  <2>1. tbl' \in [Runs -> SUBSET Clients] /\ multi' \in [Runs -> BOOLEAN]
    BY Zenon DEF DeleteJobs, DeleteMulti, RunTypeOK
  <2> QED BY Zenon, <1>2, <1>3, <2>1 DEF RunTypeOK
<1>5. \A s \in Runs : \A i \in Clients : OnRecord(s, i)' => OnRecord(s, i)
  BY Zenon, <1>2, <1>3 DEF OnRecord
<1>6. Records'
  BY Zenon, <1>2, <1>3, <1>5, RecordsKept
<1> QED BY Zenon, <1>4, <1>6

-----------------------------------------------------------------------------
\* What an entry starts finds the commands on record; nothing is on record of the
\* run itself.
LEMMA FireStep ==
    ASSUME ScheduleInv, NEW e \in entries, NEW r \in Runs, Fire(e, r)
    PROVE  RunTypeOK' /\ Records'
<1>0. CronTypeOK /\ RunTypeOK /\ Records
  BY Zenon DEF ScheduleInv, CronInv
<1>1. e.id \in Ids
  BY Zenon, <1>0 DEF CronTypeOK, Entry
<1>2. /\ UNCHANGED <<deployment, row>> /\ Clients' = Clients
      /\ run' = [run EXCEPT ![r] = [at |-> "get", id |-> e.id, over |-> FALSE]]
      /\ job' = [job EXCEPT ![r] = Nothing]
      /\ tbl' = [tbl EXCEPT ![r] = {}]
      /\ multi' = [multi EXCEPT ![r] = FALSE]
      /\ seen' = [s \in Runs |-> IF s = r THEN CountJobsInProgress(e.id) \ ({r} \X Clients)
                               ELSE seen[s] \ ({r} \X Clients)]
  BY Zenon DEF Fire, Clients
<1>3. RunTypeOK'
  <2>1. [at |-> "get", id |-> e.id, over |-> FALSE] \in RunState /\ Nothing \in [Clients -> JobState]
    BY Zenon, <1>1 DEF RunState, Nothing, JobState
  <2>2. seen' \in [Runs -> SUBSET (Runs \X Clients)]
    BY ZenonT(60), <1>0, <1>2 DEF RunTypeOK, CountJobsInProgress
  <2> QED BY Zenon, <1>0, <1>2, <2>1, <2>2 DEF RunTypeOK
<1>4. /\ run'[r].at = "get" /\ run'[r].id = e.id
      /\ tbl'[r] = {}
      /\ \A s \in Runs : s # r => /\ run'[s] = run[s] /\ job'[s] = job[s]
                                   /\ tbl'[s] = tbl[s] /\ multi'[s] = multi[s]
  BY Zenon, <1>0, <1>2 DEF RunTypeOK
<1>5. ASSUME NEW q \in Runs, NEW x \in seen'[q]
      PROVE  Found(q, x)'
  <2>1. x[1] \in Runs /\ x[2] \in Clients /\ x = <<x[1], x[2]>>
    <3>1. x \in Runs \X Clients
      BY Zenon, <1>2, <1>3, <1>5 DEF RunTypeOK
    <3> QED BY <3>1
  <2>2. x[1] # r
    <3>1. x \notin {r} \X Clients
      BY Zenon, <1>2, <1>5
    <3> QED BY Zenon, <2>1, <3>1
  <2>3. CASE q = r
    <3>1. /\ x[1] \in RunsOf(e.id) /\ multi[x[1]] /\ x[2] \in tbl[x[1]]
          /\ job[x[1]][x[2]] = "running"
      BY Zenon, <1>2, <1>5, <2>3 DEF CountJobsInProgress
    <3>2. run[x[1]].at \in {"idle", "exec"}
      BY Zenon, <1>0, <2>1, <3>1, RunFacts DEF Records, RunState
    <3> QED BY Zenon, <1>4, <2>1, <2>2, <2>3, <3>1, <3>2 DEF Found, RunsOf, Answered
  <2>4. CASE q # r
    <3>1. x \in seen[q]
      BY Zenon, <1>2, <1>5, <2>4
    <3>2. Found(q, x)
      BY Zenon, <1>0, <3>1 DEF Records
    <3>3. /\ run'[x[1]] = run[x[1]] /\ job'[x[1]] = job[x[1]] /\ run'[q] = run[q]
          /\ tbl'[x[1]] = tbl[x[1]] /\ multi'[x[1]] = multi[x[1]]
      BY Zenon, <1>4, <2>1, <2>2, <2>4
    <3> QED BY ZenonT(60), <2>1, <3>2, <3>3 DEF Found, RunsOf, OnRecord, Answered
  <2> QED BY Zenon, <2>3, <2>4
<1>6. Records'
  BY Zenon, <1>0, <1>4, <1>5 DEF Records
<1> QED BY Zenon, <1>3, <1>6

\* The steps of Manager.run before the job, and its end: the other runs stay as
\* they are. With no overlap allowed, Count has seen that nothing is on record.
LEMMA ManagerStep ==
    ASSUME ScheduleInv, NEW r \in Runs,
           Get(r) \/ Count(r) \/ StartMultiClientJob(r) \/ CannotStart(r) \/ RunEnds(r)
    PROVE  RunTypeOK' /\ Records'
<1>0. CronTypeOK /\ RunTypeOK /\ Records
  BY Zenon DEF ScheduleInv, CronInv
<1>1. /\ run[r].at # "idle" /\ run[r] \in RunState /\ run[r].id \in Ids /\ run[r].over \in BOOLEAN
      /\ "id" \in DOMAIN run[r]
  BY Zenon, <1>0, RunFacts DEF Get, Count, StartMultiClientJob, CannotStart, RunEnds
<1>2. PICK at \in {"idle", "count", "start", "exec"}, over \in BOOLEAN :
        /\ run' = [run EXCEPT ![r] = [at |-> at, id |-> run[r].id, over |-> over]]
        /\ \/ at = "idle" /\ UNCHANGED multi
           \/ run[r].at = "get" /\ at \in {"count", "start"} /\ (at = "start" => over) /\ UNCHANGED multi
           \/ /\ run[r].at = "count" /\ at = "start" /\ over = run[r].over /\ UNCHANGED multi
              /\ CountJobsInProgress(run[r].id) = {}
           \/ run[r].at = "start" /\ at = "exec" /\ multi' = [multi EXCEPT ![r] = TRUE]
  <2>1. ASSUME NEW a \in {"idle", "start", "exec"}, At(r, a)
        PROVE  run' = [run EXCEPT ![r] = [at |-> a, id |-> run[r].id, over |-> run[r].over]]
    <3>1. run[r] \in [at : {"idle", "get", "count", "start", "exec"}, id : Ids, over : BOOLEAN]
      BY Zenon, <1>1 DEF RunState
    <3>2. [run[r] EXCEPT !.at = a] = [at |-> a, id |-> run[r].id, over |-> run[r].over]
      BY <3>1
    <3> QED BY Zenon, <1>0, <2>1, <3>2 DEF At, RunTypeOK
  <2>2. CASE Get(r)
    <3>1. CASE Stored(run[r].id)
      <4>1. row[run[r].id].over \in BOOLEAN
        BY ZenonT(60), <1>0, <1>1, <3>1 DEF CronTypeOK, Row, Stored
      <4> DEFINE a == IF row[run[r].id].over THEN "start" ELSE "count"
      <4>2. run' = [run EXCEPT ![r] = [at |-> a, id |-> run[r].id, over |-> row[run[r].id].over]]
        BY <1>0, <1>1, <2>2, <3>1, <4>1 DEF Get, RunTypeOK, RunState
      <4> QED BY Zenon, <2>2, <4>1, <4>2 DEF Get
    <3> QED BY Zenon, <1>1, <2>1, <2>2, <3>1 DEF Get
  <2>3. CASE Count(r)
    BY Zenon, <1>1, <2>1, <2>3 DEF Count
  <2>4. CASE StartMultiClientJob(r)
    BY Zenon, <1>1, <2>1, <2>4 DEF StartMultiClientJob
  <2>5. CASE CannotStart(r) \/ RunEnds(r)
    BY Zenon, <1>1, <2>1, <2>5 DEF CannotStart, RunEnds
  <2> QED BY Zenon, <2>2, <2>3, <2>4, <2>5
<1>3. /\ UNCHANGED <<deployment, row, job, tbl, seen>> /\ Clients' = Clients
      /\ \A s \in Runs : s # r => run'[s] = run[s] /\ multi'[s] = multi[s]
      /\ multi' \in [Runs -> BOOLEAN] /\ (at = "exec" => multi'[r])
      /\ run'[r] = [at |-> at, id |-> run[r].id, over |-> over]
  BY Zenon, <1>0, <1>2 DEF Get, Count, StartMultiClientJob, CannotStart, RunEnds, RunTypeOK, Clients
<1>4. RunTypeOK'
  <2>1. [at |-> at, id |-> run[r].id, over |-> over] \in RunState
    BY Zenon, <1>1 DEF RunState
  <2> QED BY Zenon, <1>0, <1>2, <1>3, <2>1 DEF RunTypeOK
<1>5. \A s \in Runs : /\ run[s].at \in {"idle", "exec"} => run'[s].at \in {"idle", "exec"}
                      /\ run'[s].at # "idle" => run[s].at # "idle"
                      /\ "id" \in DOMAIN run[s] => "id" \in DOMAIN run'[s] /\ run'[s].id = run[s].id
  <2>1. /\ run[r].at \in {"idle", "exec"} => run'[r].at \in {"idle", "exec"}
        /\ run[r].at # "idle" /\ "id" \in DOMAIN run'[r] /\ run'[r].id = run[r].id
    BY <1>1, <1>2, <1>3
  <2> QED BY Zenon, <1>3, <2>1
<1>6. ASSUME NEW s \in Runs, NEW i \in Clients, run[s].at \in {"idle", "exec"}, OnRecord(s, i)'
      PROVE  OnRecord(s, i)
  BY Zenon, <1>2, <1>3, <1>6 DEF OnRecord
<1>7. \A s \in Runs : run'[s].at = "start" /\ ~run'[s].over =>
        \/ run[s].at = "start" /\ ~run[s].over
        \/ run[s].at # "idle" /\ CountJobsInProgress(run[s].id) = {}
  <2>1. run'[r].at = at /\ run'[r].over = over
    BY <1>3
  <2>2. run'[r].at = "start" /\ ~run'[r].over => CountJobsInProgress(run[r].id) = {}
    BY Zenon, <1>2, <2>1
  <2> QED BY Zenon, <1>1, <1>3, <2>2
<1>8. Records'
  BY ZenonT(60), <1>0, <1>3, <1>5, <1>6, <1>7, RecordsKept
<1> QED BY Zenon, <1>4, <1>8

\* The steps of a job: only a command that is not answered for yet comes to run.
LEMMA TargetStep ==
    ASSUME RunTypeOK, Records, NEW r \in Runs, NEW i \in Clients,
           \/ Dispatch(r, i) \/ Replied(r, i) \/ SendFails(r, i) \/ Result(r, i) \/ TimesOut(r, i)
    PROVE  RunTypeOK' /\ Records'
<1>1. /\ run[r].at = "exec" /\ UNCHANGED <<deployment, row, run, multi, seen>> /\ Clients' = Clients
      /\ \A s \in Runs : s # r => job'[s] = job[s] /\ tbl'[s] = tbl[s]
  BY Zenon DEF Dispatch, Replied, SendFails, Result, TimesOut, Leaves, Clients, RunTypeOK
<1>2. /\ tbl' \in [Runs -> SUBSET Clients] /\ job' \in [Runs -> [Clients -> JobState]]
      /\ \A j \in Clients : j # i => \/ job'[r][j] = job[r][j]
                                      \/ (job[r][j] = "none" /\ job'[r][j] = "skipped")
      /\ \/ job[r][i] = "none" /\ job'[r][i] = "sent" /\ tbl'[r] = tbl[r]
         \/ /\ job[r][i] = "sent" /\ job'[r][i] = "running"
            /\ tbl'[r] = tbl[r] \union {i} \/ ("job" \in StoreFails /\ tbl'[r] = tbl[r])
         \/ job[r][i] = "sent" /\ job'[r][i] = "done" /\ tbl'[r] = tbl[r] \union {i}
         \/ job[r][i] = "running" /\ job'[r][i] \in {"done", "overdue"} /\ tbl'[r] = tbl[r]
  <2>1. /\ tbl' = tbl \/ tbl' = [tbl EXCEPT ![r] = @ \union {i}] => tbl' \in [Runs -> SUBSET Clients]
        /\ tbl' = [tbl EXCEPT ![r] = @ \union {i}] => tbl'[r] = tbl[r] \union {i}
        /\ job[r] \in [Clients -> JobState]
    BY DEF RunTypeOK
  <2>2. ASSUME NEW x \in JobState, job' = [job EXCEPT ![r][i] = x]
        PROVE  /\ job' \in [Runs -> [Clients -> JobState]] /\ job'[r][i] = x
               /\ \A j \in Clients : j # i => job'[r][j] = job[r][j]
    BY Zenon, <2>2 DEF RunTypeOK
  <2>3. ASSUME NEW abort \in BOOLEAN, Leaves(r, i, "done", abort)
        PROVE  /\ job' \in [Runs -> [Clients -> JobState]] /\ job'[r][i] = "done"
               /\ \A j \in Clients : j # i => \/ job'[r][j] = job[r][j]
                                               \/ (job[r][j] = "none" /\ job'[r][j] = "skipped")
    BY <2>3 DEF RunTypeOK, Leaves, JobState
  <2>4. CASE Dispatch(r, i)
    BY Zenon, <2>1, <2>2, <2>4 DEF Dispatch, JobState
  <2>5. CASE Replied(r, i)
    BY Zenon, <2>1, <2>2, <2>5 DEF Replied, JobState
  <2>6. CASE SendFails(r, i)
    BY Zenon, <2>1, <2>3, <2>6 DEF SendFails, JobState
  <2>7. CASE Result(r, i)
    BY Zenon, <2>1, <2>3, <2>7 DEF Result, JobState
  <2>8. CASE TimesOut(r, i)
    BY Zenon, <2>1, <2>2, <2>8 DEF TimesOut, JobState
  <2> QED BY ZenonT(60), <2>4, <2>5, <2>6, <2>7, <2>8
<1>3. RunTypeOK'
  <2>1. \A j \in tbl[r] : j \in Clients /\ job[r][j] \in {"running", "overdue", "done"}
    BY Zenon DEF RunTypeOK
  <2>2. ASSUME NEW j \in tbl'[r], j # i
        PROVE  job'[r][j] \in {"running", "overdue", "done"}
    BY <1>2, <2>1, <2>2
  <2>3. ASSUME i \in tbl'[r]
        PROVE  job'[r][i] \in {"running", "overdue", "done"}
    BY <1>2, <2>1, <2>3
  <2>4. \A j \in tbl'[r] : job'[r][j] \in {"running", "overdue", "done"}
    BY Zenon, <2>2, <2>3
  <2> QED BY ZenonT(60), <1>1, <1>2, <2>4 DEF RunTypeOK
<1>4. ASSUME NEW s \in Runs, NEW j \in Clients, job[s][j] \in Answered
      PROVE  job'[s][j] \in Answered /\ (OnRecord(s, j)' => OnRecord(s, j))
  <2>1. CASE s # r
    BY Zenon, <1>1, <1>4, <2>1 DEF OnRecord, Answered
  <2>2. CASE s = r /\ j # i
    BY <1>1, <1>2, <1>4, <2>2 DEF OnRecord, Answered
  <2>3. CASE s = r /\ j = i
    BY <1>1, <1>2, <1>4, <2>3 DEF OnRecord, Answered
  <2> QED BY Zenon, <2>1, <2>2, <2>3
<1>5. \A s \in Runs : run'[s].at \in {"get", "count", "start"} => tbl'[s] \subseteq tbl[s]
  BY Zenon, <1>1
<1>6. Records'
  BY ZenonT(60), <1>1, <1>4, <1>5, RecordsKept
<1> QED BY Zenon, <1>3, <1>6

\* A restart takes up nothing that was not answered for, and starts nothing again.
LEMMA CrashRuns ==
    ASSUME RunTypeOK, Records, Crash
    PROVE  RunTypeOK' /\ Records'
<1>1. /\ UNCHANGED <<deployment, row, tbl, multi, seen>> /\ Clients' = Clients
      /\ run' = [r \in Runs |-> IF run[r].at = "exec" THEN run[r] ELSE [run[r] EXCEPT !.at = "idle"]]
      /\ job' = [r \in Runs |-> [i \in Clients |->
                 IF run[r].at = "exec" /\ job[r][i] \in {"none", "sent"} THEN "skipped" ELSE job[r][i]]]
  BY Zenon DEF Crash, Clients
<1>2. ASSUME NEW r \in Runs
      PROVE  /\ run'[r] \in RunState
             /\ run'[r].at = (IF run[r].at = "exec" THEN "exec" ELSE "idle")
             /\ "id" \in DOMAIN run[r] => "id" \in DOMAIN run'[r] /\ run'[r].id = run[r].id
  <2>1. CASE run[r].at = "exec"
    BY Zenon, <1>1, <2>1 DEF RunTypeOK
  <2>2. CASE run[r].at # "exec"
    BY ZenonT(60), <1>1, <2>2 DEF RunTypeOK, RunState
  <2> QED BY Zenon, <2>1, <2>2
<1>3. /\ run' \in [Runs -> RunState] /\ job' \in [Runs -> [Clients -> JobState]]
      /\ \A r \in Runs : \A i \in tbl[r] : job'[r][i] = job[r][i]
  BY ZenonT(60), <1>1, <1>2 DEF RunTypeOK, JobState
<1>4. RunTypeOK'
  BY Zenon, <1>1, <1>3 DEF RunTypeOK
<1>5. ASSUME NEW s \in Runs, NEW j \in Clients, job[s][j] \in Answered
      PROVE  job'[s][j] \in Answered /\ (OnRecord(s, j)' => OnRecord(s, j))
  BY ZenonT(60), <1>1, <1>5 DEF OnRecord, Answered
<1>6. \A s \in Runs : run'[s].at \in {"idle", "exec"} /\ (run'[s].at # "idle" => run[s].at # "idle")
  BY Zenon, <1>2
<1>7. Records'
  BY ZenonT(60), <1>1, <1>2, <1>5, <1>6, RecordsKept
<1> QED BY Zenon, <1>4, <1>7

-----------------------------------------------------------------------------
\* A fresh server satisfies the invariant.
LEMMA InitHolds == Init => ScheduleInv
<1> SUFFICES ASSUME Init PROVE ScheduleInv
  OBVIOUS
<1>1. CronTypeOK
  BY DEF Init, CronTypeOK, Row, Entry, Request, Idle
<1>2. RequestsFit /\ Mapped /\ InStep
  BY Zenon DEF Init, RequestsFit, Mapped, InStep, Stored, Idle, Deleting
<1>3. RunTypeOK
  BY Zenon DEF Init, RunTypeOK, RunState, Nothing, JobState
<1>4. Records
  BY Zenon DEF Init, Records
<1> QED BY Zenon, <1>1, <1>2, <1>3, <1>4 DEF ScheduleInv, CronInv

\* Every step keeps the invariant.
LEMMA StepKeeps == ScheduleInv /\ [Next]_vars => ScheduleInv'
<1> SUFFICES ASSUME ScheduleInv, [Next]_vars PROVE ScheduleInv'
  OBVIOUS
<1>0. CronInv /\ RunTypeOK /\ Records /\ CronTypeOK /\ RequestsFit
  BY Zenon DEF ScheduleInv, CronInv
<1>1. ASSUME NEW h \in deployment.handlers, Accepts(h)
      PROVE  ScheduleInv'
  <2>1. CronInv'
    BY Zenon, <1>0, <1>1, AcceptStep
  <2>2. UNCHANGED <<deployment, run, job, tbl, multi, seen, row>>
    BY Zenon, <1>1 DEF Accepts, handlePostSchedules, handleUpdateSchedule, handleDeleteSchedule, Accept, jobs
  <2>3. RunTypeOK' /\ Records'
    BY Zenon, <1>0, <2>2, RunsUnchanged
  <2> QED BY Zenon, <2>1, <2>3 DEF ScheduleInv
<1>2. ASSUME NEW h \in deployment.handlers, Proceeds(h)
      PROVE  ScheduleInv'
  <2>h. h \in Handlers /\ (req[h].op # "idle" => req[h].id \in Ids) /\ row \in [Ids -> Row]
    BY Zenon, <1>0, DeploymentFacts DEF CronTypeOK, Request
  <2>1. CASE Insert(h)
    <3>1. CronInv'
      BY Zenon, <1>0, <2>1, InsertStep
    <3>2. /\ UNCHANGED <<deployment, run, job, tbl, multi, seen>>
          /\ \A id \in Ids : row'[id] = row[id] \/ (row[id].st = "none" /\ row'[id].st = "stored")
      BY Zenon, <1>0, <2>1, <2>h DEF Insert, jobs, Asked, RequestsFit
    <3>3. RunTypeOK' /\ Records'
      BY Zenon, <1>0, <3>2, RunsUnchanged
    <3> QED BY Zenon, <3>1, <3>3 DEF ScheduleInv
  <2>2. CASE Update(h)
    <3>1. CronInv'
      BY Zenon, <1>0, <2>2, UpdateStep
    <3>2. /\ UNCHANGED <<deployment, run, job, tbl, multi, seen>>
          /\ \A id \in Ids : row'[id].st = row[id].st
      BY Zenon, <2>2, <2>h DEF Update, jobs, Asked
    <3>3. RunTypeOK' /\ Records'
      BY Zenon, <1>0, <3>2, RunsUnchanged
    <3> QED BY Zenon, <3>1, <3>3 DEF ScheduleInv
  <2>3. CASE Remove(h) \/ Add(h)
    <3>1. CronInv'
      BY ZenonT(60), <1>0, <2>3, RemoveStep, AddStep
    <3>2. UNCHANGED <<deployment, run, job, tbl, multi, seen, row>>
      BY ZenonT(60), <2>3 DEF Remove, Add, jobs
    <3>3. RunTypeOK' /\ Records'
      BY Zenon, <1>0, <3>2, RunsUnchanged
    <3> QED BY Zenon, <3>1, <3>3 DEF ScheduleInv
  <2>4. CASE DeleteRow(h)
    <3>1. CronInv'
      BY Zenon, <1>0, <2>4, DeleteRowStep
    <3>2. /\ UNCHANGED <<deployment, run, job, tbl, multi, seen>>
          /\ \A id \in Ids : row'[id] = row[id] \/ row'[id].st = "gone"
      BY <2>4, <2>h DEF DeleteRow, jobs
    <3>3. RunTypeOK' /\ Records'
      BY Zenon, <1>0, <3>2, RunsUnchanged
    <3> QED BY Zenon, <3>1, <3>3 DEF ScheduleInv
  <2>5. CASE DeleteJobs(h) \/ DeleteMulti(h)
    BY Zenon, <1>0, <2>5, DeleteJobsStep, DeletedRuns DEF ScheduleInv
  <2>6. CASE StatementFails(h)
    <3>1. /\ UNCHANGED <<deployment, run, job, tbl, multi, seen, row, entries, mapping, last>>
          /\ Ends(h) /\ req[h].op # "add"
          /\ req[h].op \in Deleting \union {"remove"} => "delete" \in StoreFails
      BY Zenon, <2>6 DEF StatementFails, jobs, cron, Deleting
    <3>2. CronInv'
      BY Zenon, <1>0, <2>h, <3>1, EndsStep
    <3>3. RunTypeOK' /\ Records'
      BY Zenon, <1>0, <3>1, RunsUnchanged
    <3> QED BY Zenon, <3>2, <3>3 DEF ScheduleInv
  <2> QED BY Zenon, <1>2, <2>1, <2>2, <2>3, <2>4, <2>5, <2>6 DEF Proceeds
<1>3. ASSUME NEW id \in Ids, Fires(id)
      PROVE  ScheduleInv'
  <2>1. PICK e \in entries, r \in Runs : Fire(e, r)
    BY Zenon, <1>0, <1>3, DeploymentFacts DEF Fires, CronTypeOK
  <2>2. CronInv'
    BY Zenon, <1>0, <2>1, CronUnchanged DEF Fire, cron
  <2> QED BY Zenon, <2>1, <2>2, FireStep DEF ScheduleInv
<1>4. ASSUME NEW r \in Runs, RunStep(r)
      PROVE  ScheduleInv'
  <2>1. UNCHANGED <<deployment, row, entries, mapping, last, req>>
    BY Zenon, <1>4 DEF RunStep, Get, Count, StartMultiClientJob, CannotStart, RunEnds,
       Dispatch, Replied, SendFails, Result, TimesOut, cron
  <2>2. CronInv'
    BY Zenon, <1>0, <2>1, CronUnchanged
  <2>3. RunTypeOK' /\ Records'
    BY Zenon, <1>0, <1>4, ManagerStep, TargetStep DEF RunStep
  <2> QED BY Zenon, <2>2, <2>3 DEF ScheduleInv
<1>5. CASE Crash
  BY Zenon, <1>0, <1>5, CrashStep, CrashRuns DEF ScheduleInv
<1>6. CASE UNCHANGED vars
  <2>1. CronInv'
    BY Zenon, <1>0, <1>6, CronUnchanged DEF vars
  <2>2. RunTypeOK' /\ Records'
    BY Zenon, <1>0, <1>6, RunsUnchanged DEF vars
  <2> QED BY Zenon, <2>1, <2>2 DEF ScheduleInv
<1> QED BY Zenon, <1>1, <1>2, <1>3, <1>4, <1>5, <1>6 DEF Next

\* The table and the cron keep in step with any number of schedules, requests,
\* failing statements and restarts (Manager.Create, Update, Delete and New):
\* no stored schedule is ever without the entry that fires it, and with one
\* request at a time the cron holds nothing else.
THEOREM EntriesMatchRowsAlways == Spec => []EntriesMatchRows
<1>1. ScheduleInv => EntriesMatchRows
  <2> SUFFICES ASSUME ScheduleInv PROVE EntriesMatchRows
    OBVIOUS
  <2>1. TypeOK /\ Mapped /\ InStep
    BY Zenon DEF ScheduleInv, CronInv, TypeOK
  <2>2. \A e, f \in entries : e.n = f.n => e = f
    BY Zenon, <2>1 DEF TypeOK, CronTypeOK
  <2>3. ASSUME OneRequest, "delete" \notin StoreFails, \A h \in Handlers : req[h].op = "idle"
        PROVE  /\ \A e \in entries : Stored(e.id) /\ e.spec = row[e.id].spec
               /\ \A e, f \in entries : e.id = f.id => e = f
    BY <2>1, <2>2, <2>3 DEF InStep, Deleting
  <2> QED BY Zenon, <2>1, <2>3 DEF EntriesMatchRows, Mapped
<1> QED BY <1>1, InitHolds, StepKeeps, PTL DEF Spec

\* A command on record holds up the next run of its schedule until it finishes or
\* outlives its timeout (Manager.run and CountJobsInProgress), for any number of
\* schedules, runs and targets, whatever fails, and also while requests change the
\* schedules and the server restarts.
THEOREM RunningHoldsNextAlways == Spec => RunningHoldsNext
<1>1. ASSUME ScheduleInv, NEW r \in Runs, run[r].at = "start", ~run[r].over,
             NEW x \in seen[r], x \in CountJobsInProgress(run[r].id)
      PROVE  FALSE
  <2>1. Found(r, x)
    BY Zenon, <1>1 DEF ScheduleInv, Records
  <2> QED BY Zenon, <1>1, <2>1 DEF Found, OnRecord, CountJobsInProgress
<1>2. ScheduleInv /\ [Next]_vars => [\A r \in Runs : HeldUp(r)]_vars
  BY Zenon, <1>1 DEF HeldUp
<1> QED BY <1>2, InitHolds, StepKeeps, PTL DEF Spec, RunningHoldsNext
=============================================================================
