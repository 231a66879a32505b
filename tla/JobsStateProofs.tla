-------------------------- MODULE JobsStateProofs --------------------------
(***************************************************************************)
(* Proofs about Jobs, first part: the inductive invariant; the values of   *)
(* the state and the room in the channel of a run, also with lost          *)
(* connections, failing statements and restarts; what each conjunct of the *)
(* rest asks of a step.                                                    *)
(***************************************************************************)
EXTENDS Jobs, FiniteSetTheorems, TLAPS

(***************************************************************************)
(* The part of the inductive invariant that holds in every deployment.     *)
(***************************************************************************)
Indexes(r) == 1..Len(Targets[r])

\* The loop is at a target while it waits for one; a result follows a command
\* that was observed.
AtTarget == \A r \in Runs : exec[r] \in {"calling", "wait"} => pos[r] <= Len(Targets[r])
Observed ==
    \A j \in Jobs : /\ cmd[j] = "observed" <=> msg[j] # "none"
                    /\ cmd[j] = "observed" => res[j] \in Reported

Base == JobTypeOK /\ LoopTypeOK /\ AtTarget /\ Observed

\* Every result in the channel of a run is that of another target.
Delivered(r) == {i \in Indexes(r) : msg[<<r, i>>] = "gone"}
Room == \A r \in Runs : Len(chan[r]) <= Cardinality(Delivered(r))

(***************************************************************************)
(* The part of the inductive invariant for table and connections that hold.*)
(***************************************************************************)
\* The phases of a job where table and connections hold: request, answer, row;
\* the result follows the row or is refused.
JobOK(j) ==
    \/ /\ call[j] \in {"idle", "send"}
       /\ err[j] = "none" /\ cmd[j] = "none" /\ row[j] = "none"
    \/ /\ call[j] = "asked" /\ link[Client(j)] = "up"
       /\ err[j] = "none" /\ row[j] = "none" /\ msg[j] \in {"none", "sent", "refused"}
    \/ /\ call[j] = "create" /\ link[Client(j)] = "up" /\ cmd[j] # "none"
       /\ err[j] = "none" /\ row[j] = "none" /\ msg[j] \in {"none", "sent", "refused"}
    \/ call[j] = "create" /\ err[j] # "none" /\ cmd[j] = "none" /\ row[j] = "none"
    \/ /\ call[j] = "done" /\ err[j] # "none" /\ cmd[j] = "none"
       /\ row[j] = IF Kind[j[1]] = "single" THEN "none" ELSE "failed"
    \/ /\ call[j] = "done" /\ link[Client(j)] = "up"
       /\ err[j] = "none" /\ cmd[j] = "running" /\ row[j] = "running"
    \/ /\ call[j] = "done" /\ err[j] = "none" /\ cmd[j] = "observed"
       /\ row[j] = IF msg[j] \in {"sent", "refused"} THEN "running" ELSE res[j]

Phases ==
    /\ \A c \in Clients : link[c] # "down"
    /\ \A j \in Jobs : JobOK(j)

\* Nothing is dispatched ahead of the loop.
Ahead ==
    \A r \in Runs :
       /\ exec[r] = "idle" => pos[r] = 1
       /\ \A i \in Indexes(r) :
             i > pos[r] \/ (i = pos[r] /\ exec[r] \in {"idle", "next"}) => call[<<r, i>>] = "idle"

\* writesBeforeClose is the number of targets without a final message, or more
\* once the handler has returned.
Unfinished(r) == {i \in Indexes(r) : ~Final(<<r, i>>)}
Counted ==
    \A r \in Runs : Kind[r] = "ws" /\ exec[r] # "idle" =>
        /\ ui[r] # "none" /\ left[r] >= Cardinality(Unfinished(r))
        /\ exec[r] # "ended" => left[r] = Cardinality(Unfinished(r))

\* A target the loop has left is over, and did not fail if that is to abort
\* the run; the channel holds the current target's result or nothing.
Over(j) == call[j] = "done" /\ (err[j] # "none" \/ msg[j] = "gone")
InOrder(r) ==
    /\ \A i \in Indexes(r) : i < pos[r] =>
          /\ Over(<<r, i>>)
          /\ r \in AbortOnErr => row[<<r, i>>] # "failed" \/ err[<<r, i>>] = "offline"
    /\ Kind[r] = "single" => pos[r] = 1
    /\ exec[r] = "wait" => Kind[r] # "single" /\ call[Current(r)] = "done" /\ err[Current(r)] = "none"
    /\ Kind[r] # "single" =>
          /\ exec[r] \in {"next", "calling", "wait"} => r \in reg
          /\ exec[r] \in {"idle", "next"} => chan[r] = <<>>
          /\ exec[r] \in {"calling", "wait"} =>
                chan[r] = IF msg[Current(r)] = "gone" THEN <<res[Current(r)]>> ELSE <<>>
Serial == \A r \in Sequential : InOrder(r)

Steady == Phases /\ Ahead /\ Counted /\ Serial

JobsInv == Base /\ Room /\ (Reliable => Steady)

-----------------------------------------------------------------------------
\* Jobs are pairs of a run and an index.
LEMMA JobFacts ==
    /\ \A r \in Runs : Len(Targets[r]) \in Nat \ {0}
    /\ \A r \in Runs : \A i \in Indexes(r) : <<r, i>> \in Jobs /\ Client(<<r, i>>) \in Clients
    /\ \A j \in Jobs : j[1] \in Runs /\ j[2] \in Indexes(j[1]) /\ j = <<j[1], j[2]>> /\ Client(j) \in Clients
<1>1. \A r \in Runs : Targets[r] \in Seq(Clients) /\ Len(Targets[r]) \in Nat \ {0}
  BY ConstantsAssumption
<1>2. \A r \in Runs : \A i \in Indexes(r) : <<r, i>> \in Jobs /\ Client(<<r, i>>) \in Clients
  BY <1>1 DEF Jobs, Indexes, Client
<1>3. \A j \in Jobs : j[1] \in Runs /\ j[2] \in Indexes(j[1]) /\ j = <<j[1], j[2]>>
  BY DEF Jobs, Indexes
<1> QED BY Zenon, <1>1, <1>2, <1>3

\* The loop is at one of its targets.
LEMMA CurrentFacts ==
    ASSUME LoopTypeOK, NEW r \in Runs, pos[r] <= Len(Targets[r])
    PROVE  Current(r) \in Jobs /\ pos[r] \in Indexes(r) /\ Current(r)[1] = r /\ Current(r)[2] = pos[r]
<1>1. pos[r] \in Indexes(r)
  BY JobFacts DEF LoopTypeOK, Indexes
<1> QED BY Zenon, <1>1, JobFacts DEF Current

\* The loop goes on to the next target, or past the last one.
LEMMA PosMoves ==
    ASSUME LoopTypeOK, NEW r \in Runs, pos[r] <= Len(Targets[r]), pos' = [pos EXCEPT ![r] = @ + 1]
    PROVE  /\ pos' \in [Runs -> Nat] /\ \A s \in Runs : pos'[s] \in 1..Len(Targets[s]) + 1
           /\ pos'[r] = pos[r] + 1 /\ \A s \in Runs : s # r => pos'[s] = pos[s]
<1>1. pos \in [Runs -> Nat] /\ Len(Targets[r]) \in Nat /\ \A s \in Runs : pos[s] \in 1..Len(Targets[s]) + 1
  BY Zenon, JobFacts DEF LoopTypeOK
<1>2. pos'[r] = pos[r] + 1 /\ pos'[r] \in 1..Len(Targets[r]) + 1
  BY <1>1
<1> QED BY <1>1, <1>2

\* The loop leaves a target, waits for its result or ends.
LEMMA LoopMoves ==
    ASSUME LoopTypeOK, AtTarget, NEW r \in Runs, exec[r] \in {"calling", "wait"},
           \/ NextTarget(r)
           \/ Abort(r)
           \/ UNCHANGED <<pos, reg, ui>> /\ (Loop(r, "wait") \/ Loop(r, "ended")),
           chan' \in [Runs -> Seq(Reported)], \A s \in Runs : Len(chan'[s]) <= Len(chan[s]),
           UNCHANGED left
    PROVE  LoopTypeOK' /\ AtTarget'
<1>0. Len(Targets[r]) \in Nat \ {0} /\ pos[r] \in Nat /\ pos[r] <= Len(Targets[r])
      /\ \A s \in Runs : Len(chan'[s]) <= Len(Targets[s])
  BY JobFacts DEF LoopTypeOK, AtTarget
<1>1. CASE NextTarget(r)
  <2>1. pos' \in [Runs -> Nat] /\ \A s \in Runs : pos'[s] \in 1..Len(Targets[s]) + 1
    BY Zenon, <1>0, <1>1, PosMoves DEF NextTarget
  <2> QED BY Zenon, <1>0, <1>1, <2>1 DEF NextTarget, Loop, LoopTypeOK, AtTarget
<1>2. CASE Abort(r)
  BY Zenon, <1>0, <1>2 DEF Abort, Loop, LoopTypeOK, AtTarget
<1>3. CASE UNCHANGED <<pos, reg, ui>> /\ Loop(r, "wait")
  BY Zenon, <1>0, <1>3 DEF Loop, LoopTypeOK, AtTarget
<1>4. CASE UNCHANGED <<pos, reg, ui>> /\ Loop(r, "ended")
  BY Zenon, <1>0, <1>4 DEF Loop, LoopTypeOK, AtTarget
<1> QED BY Zenon, <1>1, <1>2, <1>3, <1>4

\* The values stay in their sets, steps of the loop.
LEMMA LoopTyped ==
    ASSUME JobTypeOK, LoopTypeOK, AtTarget, Observed, NEW r \in Runs, Begin(r) \/ RunLoop(r) \/ UserCloses(r)
    PROVE  JobTypeOK' /\ LoopTypeOK' /\ AtTarget' /\ Observed'
<1>0. Len(Targets[r]) \in Nat \ {0} /\ pos[r] \in Nat
      /\ \A s \in Runs : chan[s] \in Seq(Reported)
  BY Zenon, JobFacts DEF LoopTypeOK
<1>1. Observed'
  BY Zenon DEF Begin, RunLoop, Dispatch, Returned, Receive, LoopEnds, ReadEnds, UserCloses, Observed, agent
<1>2. JobTypeOK'
  <2>1. CASE Dispatch(r)
    BY Zenon, <2>1, CurrentFacts DEF Dispatch, JobTypeOK, agent
  <2>2. CASE ~Dispatch(r)
    <3>1. UNCHANGED <<deployment, link, call, err, cmd, msg, res, row>>
      BY Zenon, <2>2 DEF Begin, RunLoop, Returned, Receive, LoopEnds, ReadEnds, UserCloses, agent
    <3> QED BY Zenon, <3>1 DEF JobTypeOK
  <2> QED BY Zenon, <2>1, <2>2
<1>3. LoopTypeOK' /\ AtTarget'
  <2>1. CASE Begin(r)
    BY <1>0, <2>1 DEF Begin, Loop, LoopTypeOK, AtTarget
  <2>2. CASE Dispatch(r)
    <3>1. CASE r \in Concurrent
      <4>1. /\ pos' \in [Runs -> Nat] /\ \A s \in Runs : pos'[s] \in 1..Len(Targets[s]) + 1
            /\ \A s \in Runs : s # r => pos'[s] = pos[s]
        BY Zenon, <1>0, <2>2, <3>1, PosMoves DEF Dispatch
      <4> QED BY Zenon, <2>2, <3>1, <4>1 DEF Dispatch, LoopTypeOK, AtTarget, socket
    <3>2. CASE r \notin Concurrent
      BY Zenon, <1>0, <2>2, <3>2 DEF Dispatch, Loop, LoopTypeOK, AtTarget, socket
    <3> QED BY Zenon, <3>1, <3>2
  <2>3. CASE Returned(r)
    <3>1. chan' \in [Runs -> Seq(Reported)] /\ \A s \in Runs : Len(chan'[s]) <= Len(chan[s])
      BY <1>0, <2>3 DEF Returned, LoopTypeOK
    <3>2. \/ NextTarget(r)
          \/ Abort(r)
          \/ UNCHANGED <<pos, reg, ui>> /\ (Loop(r, "wait") \/ Loop(r, "ended"))
      BY Zenon, <2>3, ConstantsAssumption DEF Returned
    <3>3. exec[r] \in {"calling", "wait"} /\ UNCHANGED left
      BY Zenon, <2>3 DEF Returned
    <3> QED BY Zenon, <3>1, <3>2, <3>3, LoopMoves
  <2>4. CASE Receive(r)
    <3>1. chan' \in [Runs -> Seq(Reported)] /\ \A s \in Runs : Len(chan'[s]) <= Len(chan[s])
      BY <1>0, <2>4 DEF Receive, LoopTypeOK
    <3>2. exec[r] \in {"calling", "wait"} /\ UNCHANGED left /\ (NextTarget(r) \/ Abort(r))
      BY Zenon, <2>4 DEF Receive
    <3> QED BY Zenon, <3>1, <3>2, LoopMoves
  <2>5. CASE LoopEnds(r) \/ ReadEnds(r)
    <3>1. /\ Loop(r, "reading") \/ Loop(r, "ended")
          /\ reg' = reg \/ reg' = reg \ {r}
          /\ UNCHANGED <<pos, chan, ui, left>>
      BY Zenon, <2>5 DEF LoopEnds, ReadEnds, socket
    <3> QED BY Zenon, <3>1 DEF Loop, LoopTypeOK, AtTarget
  <2>6. CASE UserCloses(r)
    BY Zenon, <2>6 DEF UserCloses, LoopTypeOK, AtTarget
  <2> QED BY Zenon, <2>1, <2>2, <2>3, <2>4, <2>5, <2>6 DEF RunLoop
<1> QED BY Zenon, <1>1, <1>2, <1>3

\* The values stay in their sets, steps of a job.
LEMMA JobTyped ==
    ASSUME JobTypeOK, LoopTypeOK, AtTarget, Observed, NEW j \in Jobs,
           createAndRunJob(j) \/ HandleRunCmdRequest(j) \/ handleCmdResult(j)
    PROVE  JobTypeOK' /\ LoopTypeOK' /\ AtTarget' /\ Observed'
<1>0. j[1] \in Runs /\ left[j[1]] \in Int /\ chan[j[1]] \in Seq(Reported)
  BY Zenon, JobFacts DEF LoopTypeOK
<1>w. WriteJSON(j[1]) => left' \in [Runs -> Int] /\ ui' \in [Runs -> {"none", "open", "closed"}]
  BY <1>0 DEF WriteJSON, LoopTypeOK
<1>u. UNCHANGED socket => left' \in [Runs -> Int] /\ ui' \in [Runs -> {"none", "open", "closed"}]
  BY Zenon DEF socket, LoopTypeOK
<1>1. ASSUME NEW e \in {"failed", "offline"}, Fails(j, e)
      PROVE  JobTypeOK' /\ LoopTypeOK' /\ AtTarget' /\ Observed'
  BY Zenon, <1>1, <1>w DEF Fails, JobTypeOK, LoopTypeOK, AtTarget, Observed, agent
<1>2. CASE Send(j) \/ Replied(j)
  <2>1. \E x \in {"asked", "create"} : call' = [call EXCEPT ![j] = x]
    BY Zenon, <1>2 DEF Send, Replied
  <2>2. UNCHANGED <<link, exec, pos, err, agent, row, chan, reg, socket, deployment>>
    BY Zenon, <1>2 DEF Send, Replied
  <2> QED BY <2>1, <2>2 DEF JobTypeOK, LoopTypeOK, AtTarget, Observed, agent, socket
<1>3. CASE CreateJob(j)
  <2>1. row' \in [Jobs -> Statuses \cup {"none"}]
    <3>1. \A x \in {"running", "failed", row[j]} :
            row' = [row EXCEPT ![j] = x] => row' \in [Jobs -> Statuses \cup {"none"}]
      BY DEF JobTypeOK, Statuses, Reported
    <3>2. row \in [Jobs -> Statuses \cup {"none"}]
      BY Zenon DEF JobTypeOK
    <3> QED BY Zenon, <1>3, <3>1, <3>2 DEF CreateJob
  <2> QED BY Zenon, <1>3, <2>1 DEF CreateJob, JobTypeOK, LoopTypeOK, AtTarget, Observed, agent, socket
<1>4. CASE AgentStarts(j)
  BY <1>4 DEF AgentStarts, JobTypeOK, LoopTypeOK, AtTarget, Observed, socket
<1>5. ASSUME NEW s \in Reported, Observe(j, s)
      PROVE  JobTypeOK' /\ LoopTypeOK' /\ AtTarget' /\ Observed'
  BY <1>5 DEF Observe, JobTypeOK, LoopTypeOK, AtTarget, Observed, socket
<1>6. CASE saveCmdResult(j)
  <2>1. row' \in [Jobs -> Statuses \cup {"none"}]
    BY <1>6 DEF saveCmdResult, JobTypeOK, Statuses
  <2>2. left' \in [Runs -> Int] /\ ui' \in [Runs -> {"none", "open", "closed"}]
    BY Zenon, <1>6, <1>w, <1>u DEF saveCmdResult, ShowResult
  <2>3. msg[j] = "sent" /\ \E m \in {"saved", "refused", "gone"} : msg' = [msg EXCEPT ![j] = m]
    BY Zenon, <1>6 DEF saveCmdResult
  <2>4. LoopTypeOK' /\ AtTarget'
    BY Zenon, <1>6, <2>2 DEF saveCmdResult, LoopTypeOK, AtTarget
  <2>5. JobTypeOK' /\ Observed'
    BY <1>6, <2>1, <2>3 DEF saveCmdResult, JobTypeOK, Observed
  <2> QED BY Zenon, <2>4, <2>5
<1>7. CASE Deliver(j)
  <2>1. JobTypeOK' /\ Observed'
    BY <1>7 DEF Deliver, JobTypeOK, Observed
  <2>2. LoopTypeOK' /\ AtTarget'
    <3>0. msg[j] = "saved"
      BY Zenon, <1>7 DEF Deliver
    <3>1. res[j] \in Reported
      BY Zenon, <3>0 DEF Observed
    <3>2. chan' \in [Runs -> Seq(Reported)] /\ \A s \in Runs : Len(chan'[s]) <= Len(Targets[s])
      BY <1>0, <1>7, <3>1, JobFacts DEF Deliver, Capacity, LoopTypeOK
    <3> QED BY Zenon, <1>7, <3>2 DEF Deliver, LoopTypeOK, AtTarget, socket
  <2> QED BY Zenon, <2>1, <2>2
<1> QED BY Zenon, <1>1, <1>2, <1>3, <1>4, <1>5, <1>6, <1>7 DEF createAndRunJob, HandleRunCmdRequest,
       handleCmdResult, CannotSend, SendFails, AgentRefuses

\* The values stay in their sets, connections and restarts.
LEMMA LinkTyped ==
    ASSUME JobTypeOK, LoopTypeOK, AtTarget, Observed,
           (\E c \in Clients : Connect(c) \/ LinkDown(c)) \/ Crash
    PROVE  JobTypeOK' /\ LoopTypeOK' /\ AtTarget' /\ Observed'
<1>1. ASSUME NEW c \in Clients, Connect(c)
      PROVE  JobTypeOK' /\ LoopTypeOK' /\ AtTarget' /\ Observed'
  BY Zenon, <1>1 DEF Connect, JobTypeOK, LoopTypeOK, AtTarget, Observed, agent, socket
<1>2. ASSUME NEW c \in Clients, LinkDown(c)
      PROVE  JobTypeOK' /\ LoopTypeOK' /\ AtTarget' /\ Observed'
  BY Zenon, <1>2 DEF LinkDown, JobTypeOK, LoopTypeOK, AtTarget, Observed, socket
<1>3. CASE Crash
  BY <1>3, JobFacts DEF Crash, JobTypeOK, LoopTypeOK, AtTarget, Observed
<1> QED BY Zenon, <1>1, <1>2, <1>3

-----------------------------------------------------------------------------
\* The targets whose result is delivered are finitely many.
LEMMA DeliveredFacts ==
    ASSUME NEW r \in Runs
    PROVE  /\ IsFiniteSet(Indexes(r)) /\ Cardinality(Indexes(r)) = Len(Targets[r])
           /\ \A S : S \subseteq Indexes(r) => IsFiniteSet(S) /\ Cardinality(S) \in Nat
<1>1. Len(Targets[r]) \in Nat \ {0}
  BY Zenon, JobFacts
<1>2. IsFiniteSet(1..Len(Targets[r])) /\ Cardinality(1..Len(Targets[r])) = Len(Targets[r])
  <2> DEFINE n == Len(Targets[r])
  <2>1. n \in Nat \ {0}
    BY Zenon, <1>1
  <2> HIDE DEF n
  <2>2. IsFiniteSet(1..n) /\ Cardinality(1..n) = IF 1 > n THEN 0 ELSE n - 1 + 1
    BY <2>1, FS_Interval
  <2>3. IsFiniteSet(1..n) /\ Cardinality(1..n) = n
    BY <2>1, <2>2
  <2> QED BY Zenon, <2>3 DEF n
<1>3. ASSUME NEW S, S \subseteq Indexes(r)
      PROVE  IsFiniteSet(S) /\ Cardinality(S) \in Nat
  BY Zenon, <1>2, <1>3, FS_Subset, FS_CardinalityType DEF Indexes
<1> QED BY Zenon, <1>2, <1>3 DEF Indexes

\* Results handled without being delivered, and results received, leave room.
LEMMA RoomKept ==
    ASSUME Room, chan \in [Runs -> Seq(Reported)], chan' \in [Runs -> Seq(Reported)],
           \A r \in Runs : Len(chan'[r]) <= Len(chan[r]),
           \A j \in Jobs : msg[j] = "gone" => msg'[j] = "gone"
    PROVE  Room'
<1>1. ASSUME NEW r \in Runs PROVE Len(chan'[r]) <= Cardinality({i \in Indexes(r) : msg'[<<r, i>>] = "gone"})
  <2> DEFINE S == {i \in Indexes(r) : msg[<<r, i>>] = "gone"}
             T == {i \in Indexes(r) : msg'[<<r, i>>] = "gone"}
  <2>1. S \subseteq T /\ T \subseteq Indexes(r)
    BY Zenon, JobFacts
  <2>2. Cardinality(S) <= Cardinality(T) /\ Cardinality(S) \in Nat /\ Cardinality(T) \in Nat
    BY Zenon, <2>1, DeliveredFacts, FS_Subset
  <2>3. Len(chan[r]) <= Cardinality(S)
    BY Zenon DEF Room, Delivered
  <2> QED BY <2>2, <2>3
<1> QED BY Zenon, <1>1 DEF Room, Delivered

\* A delivered result takes the place its target had.
LEMMA DeliverRoom ==
    ASSUME Room, JobTypeOK, LoopTypeOK, NEW j \in Jobs, Deliver(j)
    PROVE  Room'
<1>1. ASSUME NEW r \in Runs PROVE Len(chan'[r]) <= Cardinality({i \in Indexes(r) : msg'[<<r, i>>] = "gone"})
  <2> DEFINE S == {i \in Indexes(r) : msg[<<r, i>>] = "gone"}
             T == {i \in Indexes(r) : msg'[<<r, i>>] = "gone"}
  <2>1. S \subseteq Indexes(r) /\ Len(chan[r]) <= Cardinality(S) /\ chan[r] \in Seq(Reported)
    BY Zenon DEF Room, Delivered, LoopTypeOK
  <2>2. /\ msg[j] = "saved" /\ msg' = [msg EXCEPT ![j] = "gone"]
        /\ chan' = chan \/ chan' = [chan EXCEPT ![j[1]] = Append(@, res[j])]
    BY Zenon DEF Deliver
  <2>3. CASE r = j[1]
    <3>0. /\ j[2] \in Indexes(r) /\ j = <<r, j[2]>>
          /\ \A i \in Indexes(r) : msg'[<<r, i>>] = IF i = j[2] THEN "gone" ELSE msg[<<r, i>>]
      BY <2>2, <2>3, JobFacts DEF JobTypeOK
    <3>1. T = S \cup {j[2]} /\ j[2] \notin S
      BY <2>2, <3>0
    <3>2. Cardinality(T) = Cardinality(S) + 1
      BY Zenon, <2>1, <3>1, DeliveredFacts, FS_AddElement
    <3>3. Len(chan'[r]) <= Len(chan[r]) + 1
      BY <2>1, <2>2, <2>3 DEF LoopTypeOK
    <3>4. Cardinality(S) \in Nat
      BY Zenon, <2>1, DeliveredFacts
    <3>5. Len(chan[r]) \in Nat /\ Len(chan'[r]) \in Nat
      BY <2>1, <2>2, <2>3 DEF LoopTypeOK
    <3> QED BY <2>1, <3>2, <3>3, <3>4, <3>5
  <2>4. CASE r # j[1]
    <3>1. T = S
      BY <2>2, <2>4, JobFacts DEF JobTypeOK
    <3> QED BY Zenon, <2>1, <2>2, <2>4, <3>1 DEF LoopTypeOK
  <2> QED BY Zenon, <2>3, <2>4
<1> QED BY Zenon, <1>1 DEF Room, Delivered

\* The channel has room for a result that is about to be sent.
LEMMA HasRoom ==
    ASSUME Room, LoopTypeOK, NEW j \in Jobs, msg[j] = "saved"
    PROVE  Len(chan[j[1]]) < Capacity(j[1])
<1> DEFINE r == j[1]
           S == {i \in Indexes(r) : msg[<<r, i>>] = "gone"}
<1>1. r \in Runs /\ j[2] \in Indexes(r) /\ j = <<r, j[2]>>
  BY Zenon, JobFacts
<1>2. S \subseteq Indexes(r) \ {j[2]}
  BY Zenon, <1>1
<1>3. Cardinality(Indexes(r) \ {j[2]}) = Len(Targets[r]) - 1
  BY <1>1, DeliveredFacts, FS_RemoveElement
<1>4. Cardinality(S) <= Cardinality(Indexes(r) \ {j[2]})
  BY Zenon, <1>1, <1>2, DeliveredFacts, FS_Subset
<1>5. Len(chan[r]) <= Cardinality(S) /\ Len(chan[r]) \in Nat /\ Len(Targets[r]) \in Nat /\ Cardinality(S) \in Nat
  <2>1. S \subseteq Indexes(r) /\ chan[r] \in Seq(Reported)
    BY Zenon, <1>1 DEF LoopTypeOK
  <2>2. Cardinality(S) \in Nat
    BY Zenon, <1>1, <2>1, DeliveredFacts
  <2>3. Len(Targets[r]) \in Nat /\ Len(chan[r]) \in Nat
    BY <1>1, <2>1, JobFacts
  <2> QED BY Zenon, <1>1, <2>2, <2>3 DEF Room, Delivered
<1> QED BY <1>3, <1>4, <1>5 DEF Capacity

\* Deliver alone adds to a channel, and a result that is gone stays gone.
LEMMA RoomStep ==
    ASSUME Base, Room, Base', Next
    PROVE  Room'
<1>0. Room /\ JobTypeOK /\ LoopTypeOK /\ chan' \in [Runs -> Seq(Reported)]
  BY Zenon DEF Base, LoopTypeOK
<1>1. ASSUME NEW j \in Jobs, Deliver(j) PROVE Room'
  BY Zenon, <1>0, <1>1, DeliverRoom
<1>2. CASE \E r \in Runs : Begin(r) \/ RunLoop(r) \/ UserCloses(r)
  <2>1. PICK r \in Runs : Begin(r) \/ RunLoop(r) \/ UserCloses(r)
    BY Zenon, <1>2
  <2>2. msg' = msg /\ (chan' = chan \/ (chan[r] # <<>> /\ chan' = [chan EXCEPT ![r] = Tail(@)]))
    BY Zenon, <2>1 DEF Begin, RunLoop, Dispatch, Returned, Receive, LoopEnds, ReadEnds, UserCloses, agent
  <2>3. ASSUME NEW s \in Runs PROVE Len(chan'[s]) <= Len(chan[s])
    <3>1. chan[s] \in Seq(Reported) /\ chan \in [Runs -> Seq(Reported)]
      BY Zenon, <1>0 DEF LoopTypeOK
    <3>2. chan'[s] = chan[s] \/ (chan[s] # <<>> /\ chan'[s] = Tail(chan[s]))
      BY Zenon, <2>2, <3>1
    <3> QED BY <3>1, <3>2
  <2> QED BY Zenon, <1>0, <2>2, <2>3, RoomKept DEF LoopTypeOK
<1>3. ASSUME NEW j \in Jobs, ~Deliver(j), createAndRunJob(j) \/ HandleRunCmdRequest(j) \/ handleCmdResult(j)
      PROVE  Room'
  <2>1. /\ chan' = chan
        /\ msg' = msg \/ \E x : msg[j] # "gone" /\ msg' = [msg EXCEPT ![j] = x]
    <3>1. CASE createAndRunJob(j) \/ AgentRefuses(j) \/ AgentStarts(j)
      BY Zenon, <3>1 DEF createAndRunJob, Send, CannotSend, SendFails, Replied, CreateJob, Fails, AgentRefuses, AgentStarts, agent
    <3>2. CASE saveCmdResult(j)
      BY Zenon, <3>2 DEF saveCmdResult
    <3>3. ASSUME NEW s \in Reported, Observe(j, s)
          PROVE  chan' = chan /\ msg[j] # "gone" /\ \E x : msg' = [msg EXCEPT ![j] = x]
      <4>1. cmd[j] = "running" /\ chan' = chan /\ \E x : msg' = [msg EXCEPT ![j] = x]
        BY Zenon, <3>3 DEF Observe
      <4> QED BY Zenon, <4>1 DEF Base, Observed
    <3> QED BY Zenon, <1>3, <3>1, <3>2, <3>3 DEF HandleRunCmdRequest, handleCmdResult
  <2>2. \A k \in Jobs : msg[k] = "gone" => msg'[k] = "gone"
    BY <1>0, <2>1 DEF JobTypeOK
  <2>3. \A s \in Runs : Len(chan'[s]) <= Len(chan[s])
    BY <1>0, <2>1 DEF LoopTypeOK
  <2> QED BY Zenon, <1>0, <2>2, <2>3, RoomKept DEF LoopTypeOK
<1>4. CASE Crash \/ \E c \in Clients : Connect(c) \/ LinkDown(c)
  <2>1. \A k \in Jobs : msg[k] = "gone" => msg'[k] = "gone"
    BY Zenon, <1>4 DEF Crash, Connect, LinkDown, agent
  <2>2. \A s \in Runs : chan'[s] \in {chan[s], <<>>}
    BY Zenon, <1>4 DEF Crash, Connect, LinkDown
  <2>3. \A s \in Runs : Len(chan'[s]) <= Len(chan[s])
    BY <1>0, <2>2 DEF LoopTypeOK
  <2> QED BY Zenon, <1>0, <2>1, <2>3, RoomKept DEF LoopTypeOK
<1> QED BY Zenon, <1>1, <1>2, <1>3, <1>4 DEF Next, handleCmdResult

\* The values stay in their sets.
LEMMA BaseStep ==
    ASSUME Base, Next
    PROVE  Base'
  BY Zenon, LoopTyped, JobTyped, LinkTyped DEF Base, Next

-----------------------------------------------------------------------------
\* The other jobs are left alone.
Same(j) ==
    \A k \in Jobs : k # j => /\ call'[k] = call[k] /\ err'[k] = err[k] /\ cmd'[k] = cmd[k]
                             /\ msg'[k] = msg[k] /\ res'[k] = res[k] /\ row'[k] = row[k]

\* A step of a job keeps the phases if the job itself fits.
LEMMA PhasesKept ==
    ASSUME Phases, NEW j \in Jobs, Same(j), UNCHANGED link, JobOK(j)'
    PROVE  Phases'
  BY DEF Phases, Same, JobOK

\* A step of a dispatched job that is not over is one of the current target of a
\* sequential run, or of a run without a loop.
LEMMA OrderKept ==
    ASSUME LoopTypeOK, AtTarget, Ahead, Serial, NEW j \in Jobs, Same(j), UNCHANGED <<exec, pos, reg>>,
           call[j] # "idle", call'[j] # "idle", ~Over(j),
           call[j] = "done" => call'[j] = "done" /\ err'[j] = err[j],
           \/ chan' = chan /\ msg'[j] # "gone" /\ msg[j] # "gone"
           \/ /\ msg[j] # "gone" /\ msg'[j] = "gone" /\ res'[j] = res[j]
              /\ chan' = IF j[1] \in reg /\ Len(chan[j[1]]) < Capacity(j[1])
                         THEN [chan EXCEPT ![j[1]] = Append(@, res[j])] ELSE chan
    PROVE  Ahead' /\ Serial'
<1>1. j[1] \in Runs /\ j[2] \in Indexes(j[1]) /\ j = <<j[1], j[2]>> /\ Len(Targets[j[1]]) \in Nat \ {0}
      /\ \A r \in Runs : Indexes(r) \subseteq Nat /\ pos[r] \in Nat
  BY SMTT(60), JobFacts DEF LoopTypeOK, Indexes
<1>2. Ahead'
  <2>1. ASSUME NEW r \in Runs, NEW i \in Indexes(r),
               i > pos[r] \/ (i = pos[r] /\ exec[r] \in {"idle", "next"})
        PROVE  call'[<<r, i>>] = "idle"
    <3>1. call[<<r, i>>] = "idle" /\ <<r, i>> \in Jobs
      BY Zenon, <2>1, JobFacts DEF Ahead
    <3> QED BY Zenon, <3>1 DEF Same
  <2> QED BY ZenonT(60), <2>1 DEF Ahead
<1>3. ASSUME NEW r \in Sequential PROVE InOrder(r)'
  <2>0. r \in Runs /\ InOrder(r)
    BY Zenon DEF Serial, Sequential
  <2>1. \A i \in Indexes(r) : i < pos[r] =>
          /\ call'[<<r, i>>] = "done" /\ (err'[<<r, i>>] # "none" \/ msg'[<<r, i>>] = "gone")
          /\ r \in AbortOnErr => row'[<<r, i>>] # "failed" \/ err'[<<r, i>>] = "offline"
    BY <2>0, JobFacts DEF InOrder, Over, Same
  <2>2. CASE r # j[1]
    <3>1. chan'[r] = chan[r]
      BY Zenon, <1>1, <2>0, <2>2 DEF LoopTypeOK
    <3>2. exec[r] \in {"calling", "wait"} =>
            /\ msg'[Current(r)] = msg[Current(r)] /\ res'[Current(r)] = res[Current(r)]
            /\ call'[Current(r)] = call[Current(r)] /\ err'[Current(r)] = err[Current(r)]
      BY ZenonT(60), <2>0, <2>2, CurrentFacts DEF AtTarget, Same
    <3> QED BY <2>0, <2>1, <3>1, <3>2 DEF InOrder, Over, Current
  <2>3. CASE r = j[1]
    <3>1. ~(j[2] < pos[r]) /\ ~(j[2] > pos[r]) /\ exec[r] \notin {"idle", "next"}
      BY <1>1, <2>0, <2>3 DEF InOrder, Ahead
    <3>2. j = Current(r)
      BY <1>1, <2>0, <2>3, <3>1 DEF Current
    <3>3. exec[r] \in {"calling", "wait"} /\ Kind[r] # "single" =>
            chan'[r] = IF msg'[j] = "gone" THEN <<res'[j]>> ELSE <<>>
      <4> SUFFICES ASSUME exec[r] \in {"calling", "wait"}, Kind[r] # "single"
                   PROVE  chan'[r] = IF msg'[j] = "gone" THEN <<res'[j]>> ELSE <<>>
        OBVIOUS
      <4>1. chan[r] = <<>> /\ r \in reg
        BY Zenon, <2>0, <3>2 DEF InOrder
      <4>2. Len(chan[r]) < Capacity(r) /\ Append(<<>>, res[j]) = <<res[j]>>
        BY <1>1, <2>3, <4>1 DEF Capacity
      <4> QED BY ZenonT(60), <2>0, <2>3, <4>1, <4>2 DEF LoopTypeOK
    <3> QED BY ZenonT(60), <2>0, <2>1, <3>1, <3>2, <3>3 DEF InOrder, Over, Current
  <2> QED BY Zenon, <2>2, <2>3
<1> QED BY Zenon, <1>2, <1>3 DEF Serial, Sequential

-----------------------------------------------------------------------------
\* The final messages stay as they are.
LEMMA CountKept ==
    ASSUME Counted, UNCHANGED left,
           \A k \in Jobs : Kind[k[1]] = "ws" =>
              ((row'[k] \in Reported \/ (call'[k] = "create" /\ err'[k] # "none")) <=> Final(k)),
           \A r \in Runs : /\ ui[r] # "none" => ui'[r] # "none"
                           /\ exec'[r] # "idle" => exec[r] # "idle"
                           /\ exec'[r] # "ended" => exec[r] # "ended"
    PROVE  Counted'
<1>1. ASSUME NEW r \in Runs, Kind[r] = "ws"
      PROVE  {i \in Indexes(r) : ~(row'[<<r, i>>] \in Reported \/ (call'[<<r, i>>] = "create" /\ err'[<<r, i>>] # "none"))}
                = {i \in Indexes(r) : ~Final(<<r, i>>)}
  BY Zenon, <1>1, JobFacts
<1> QED BY Zenon, <1>1 DEF Counted, Unfinished, Final

\* A job gets its final message as the web socket counts it, or after the
\* handler of the web socket has returned.
LEMMA CountWrites ==
    ASSUME LoopTypeOK, Counted, NEW j \in Jobs, UNCHANGED exec, Same(j), ~Final(j),
           WriteJSON(j[1]) \/ (UNCHANGED <<ui, left>> /\ exec[j[1]] = "ended"),
           row'[j] \in Reported \/ (call'[j] = "create" /\ err'[j] # "none")
    PROVE  Counted'
<1> DEFINE Done(k) == row'[k] \in Reported \/ (call'[k] = "create" /\ err'[k] # "none")
           S(r) == {i \in Indexes(r) : ~Final(<<r, i>>)}
           T(r) == {i \in Indexes(r) : ~Done(<<r, i>>)}
<1>0. j[1] \in Runs /\ j[2] \in Indexes(j[1]) /\ j = <<j[1], j[2]>>
  BY Zenon, JobFacts
<1>1. \A k \in Jobs : k # j => (Done(k) <=> Final(k))
  BY Zenon DEF Same, Final
<1>2. ASSUME NEW r \in Runs, Kind[r] = "ws", exec'[r] # "idle"
      PROVE  /\ ui'[r] # "none" /\ left'[r] >= Cardinality(T(r))
             /\ exec'[r] # "ended" => left'[r] = Cardinality(T(r))
  <2>1. /\ ui[r] # "none" /\ left[r] >= Cardinality(S(r))
        /\ exec[r] # "ended" => left[r] = Cardinality(S(r))
    BY Zenon, <1>2 DEF Counted, Unfinished
  <2>2. CASE r = j[1]
    <3>1. T(r) = S(r) \ {j[2]} /\ j[2] \in S(r)
      <4>1. \A i \in Indexes(r) : i # j[2] => <<r, i>> \in Jobs /\ <<r, i>> # j
        BY Zenon, <1>0, JobFacts
      <4> QED BY <1>0, <1>1, <2>2, <4>1
    <3>2. S(r) \subseteq Indexes(r)
      OBVIOUS
    <3>3. IsFiniteSet(S(r)) /\ Cardinality(S(r)) \in Nat
      BY Zenon, <3>2, DeliveredFacts
    <3>4. Cardinality(T(r)) = Cardinality(S(r)) - 1
      <4>1. ASSUME NEW A, NEW x \in A, IsFiniteSet(A) PROVE Cardinality(A \ {x}) = Cardinality(A) - 1
        BY Zenon, <4>1, FS_RemoveElement
      <4> HIDE DEF S, T
      <4> QED BY Zenon, <3>1, <3>3, <4>1
    <3>5. /\ ui'[r] # "none" /\ exec'[r] = exec[r]
          /\ left'[r] = left[r] - 1 \/ (left'[r] = left[r] /\ exec[r] = "ended")
      BY Zenon, <2>1, <2>2 DEF WriteJSON, LoopTypeOK
    <3>6. left[r] \in Int
      BY Zenon DEF LoopTypeOK
    <3> HIDE DEF S, T
    <3> QED BY <2>1, <3>3, <3>4, <3>5, <3>6
  <2>3. CASE r # j[1]
    <3>1. T(r) = S(r)
      <4>1. \A i \in Indexes(r) : <<r, i>> \in Jobs /\ <<r, i>> # j
        BY Zenon, <1>0, <2>3, JobFacts
      <4> QED BY Zenon, <1>1, <4>1
    <3>2. left'[r] = left[r] /\ ui'[r] = ui[r]
      BY Zenon, <2>3 DEF WriteJSON, LoopTypeOK
    <3> QED BY ZenonT(60), <2>1, <3>1, <3>2
  <2> QED BY Zenon, <2>2, <2>3
<1> QED BY Zenon, <1>2 DEF Counted, Unfinished, Final

\* A step of the loop of one run leaves the order of the others alone.
LEMMA OthersInOrder ==
    ASSUME LoopTypeOK, AtTarget, Serial, NEW r \in Runs, UNCHANGED <<err, msg, res, row>>,
           \A s \in Runs : s # r => /\ exec'[s] = exec[s] /\ pos'[s] = pos[s] /\ chan'[s] = chan[s]
                                    /\ s \in reg' <=> s \in reg,
           \A j \in Jobs : j[1] # r => call'[j] = call[j],
           r \in Sequential => InOrder(r)'
    PROVE  Serial'
<1>1. ASSUME NEW s \in Sequential, s # r PROVE InOrder(s)'
  <2>0. s \in Runs /\ InOrder(s)
    BY Zenon DEF Serial, Sequential
  <2>1. \A i \in Indexes(s) : call'[<<s, i>>] = call[<<s, i>>]
    BY Zenon, <1>1, <2>0, JobFacts
  <2>2. exec[s] = "wait" => pos[s] \in Indexes(s)
    BY ZenonT(60), <2>0, CurrentFacts DEF AtTarget
  <2>3. /\ exec'[s] = exec[s] /\ pos'[s] = pos[s] /\ chan'[s] = chan[s] /\ (s \in reg' <=> s \in reg)
        /\ err' = err /\ msg' = msg /\ res' = res /\ row' = row
    BY ZenonT(60), <1>1, <2>0
  <2> QED BY <2>0, <2>1, <2>2, <2>3 DEF InOrder, Over, Current
<1> QED BY ZenonT(60), <1>1 DEF Serial, Sequential

\* A loop does not go back, and dispatches only the target it is at.
LEMMA AheadKept ==
    ASSUME LoopTypeOK, Ahead, NEW r \in Runs, exec'[r] # "idle", pos'[r] \in {pos[r], pos[r] + 1},
           pos'[r] = pos[r] /\ exec'[r] = "next" => exec[r] \in {"idle", "next"} /\ call' = call,
           \A s \in Runs : s # r => exec'[s] = exec[s] /\ pos'[s] = pos[s],
           \A j \in Jobs : j # Current(r) => call'[j] = call[j]
    PROVE  Ahead'
<1>1. \A s \in Runs : pos[s] \in Nat /\ Indexes(s) \subseteq Nat
  BY DEF LoopTypeOK, Indexes
<1>2. ASSUME NEW s \in Runs, NEW i \in Indexes(s), i > pos'[s] \/ (i = pos'[s] /\ exec'[s] \in {"idle", "next"})
      PROVE  call'[<<s, i>>] = "idle"
  <2>0. <<s, i>> \in Jobs
    BY Zenon, JobFacts
  <2>1. CASE s # r
    <3>1. call[<<s, i>>] = "idle"
      BY Zenon, <1>2, <2>1 DEF Ahead
    <3> QED BY Zenon, <2>0, <2>1, <3>1 DEF Current
  <2>2. CASE s = r /\ pos'[r] = pos[r] + 1
    <3>1. i > pos[r]
      BY <1>1, <1>2, <2>2
    <3> QED BY <1>1, <2>0, <2>2, <3>1 DEF Ahead, Current
  <2>3. CASE s = r /\ pos'[r] = pos[r]
    BY <1>1, <1>2, <2>0, <2>3 DEF Ahead, Current
  <2> QED BY Zenon, <2>1, <2>2, <2>3
<1> QED BY <1>2 DEF Ahead
=============================================================================
