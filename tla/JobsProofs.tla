----------------------------- MODULE JobsProofs -----------------------------
(***************************************************************************)
(* Proofs about Jobs, second part, and the theorems: results are stored    *)
(* and never find the channel of their run full (ResultsStored), targets   *)
(* of a sequential run follow each other (InSeries), and a web socket      *)
(* counts final messages (SocketCountsFinals), for any clients, runs and   *)
(* targets.                                                                *)
(***************************************************************************)
EXTENDS JobsStateProofs

-----------------------------------------------------------------------------
\* What a step of a job has to show.
LEMMA JobKeeps ==
    ASSUME Base, Steady, NEW j \in Jobs, Same(j), UNCHANGED <<exec, pos, reg, link>>, JobOK(j)',
           call[j] # "idle", call'[j] # "idle", ~Over(j),
           call[j] = "done" => call'[j] = "done" /\ err'[j] = err[j],
           \/ chan' = chan /\ msg'[j] # "gone" /\ msg[j] # "gone"
           \/ /\ msg[j] # "gone" /\ msg'[j] = "gone" /\ res'[j] = res[j]
              /\ chan' = IF j[1] \in reg /\ Len(chan[j[1]]) < Capacity(j[1])
                         THEN [chan EXCEPT ![j[1]] = Append(@, res[j])] ELSE chan,
           \/ /\ UNCHANGED socket
              /\ Kind[j[1]] = "ws" =>
                    ((row'[j] \in Reported \/ (call'[j] = "create" /\ err'[j] # "none")) <=> Final(j))
           \/ /\ WriteJSON(j[1]) \/ (UNCHANGED socket /\ exec[j[1]] = "ended")
              /\ ~Final(j) /\ (row'[j] \in Reported \/ (call'[j] = "create" /\ err'[j] # "none"))
    PROVE  Steady'
<1>1. Phases'
  BY Zenon, PhasesKept DEF Steady
<1>2. Ahead' /\ Serial'
  BY Zenon, OrderKept DEF Base, Steady
<1>3. Counted'
  <2>1. CASE /\ WriteJSON(j[1]) \/ (UNCHANGED socket /\ exec[j[1]] = "ended")
             /\ ~Final(j) /\ (row'[j] \in Reported \/ (call'[j] = "create" /\ err'[j] # "none"))
    BY Zenon, <2>1, CountWrites DEF Base, Steady, socket
  <2>2. CASE /\ UNCHANGED socket
             /\ Kind[j[1]] = "ws" =>
                   ((row'[j] \in Reported \/ (call'[j] = "create" /\ err'[j] # "none")) <=> Final(j))
    <3>1. \A k \in Jobs : Kind[k[1]] = "ws" =>
            ((row'[k] \in Reported \/ (call'[k] = "create" /\ err'[k] # "none")) <=> Final(k))
      BY <2>2 DEF Same, Final
    <3> QED BY Zenon, <2>2, <3>1, CountKept DEF Steady, socket
  <2> QED BY Zenon, <2>1, <2>2
<1> QED BY Zenon, <1>1, <1>2, <1>3 DEF Steady

\* The phases of a job in the terms of its next state.
LEMMA JobStep ==
    ASSUME Base, Reliable, Steady, NEW j \in Jobs,
           createAndRunJob(j) \/ HandleRunCmdRequest(j) \/ handleCmdResult(j)
    PROVE  Steady'
<1>0. /\ JobOK(j) /\ link[Client(j)] \in {"none", "up"} /\ Client(j) \in Clients
      /\ cmd[j] = "observed" <=> msg[j] # "none"
      /\ res[j] \in Reported \cup {"none"} /\ (cmd[j] = "observed" => res[j] \in Reported)
  BY JobFacts DEF Base, Steady, Phases, Observed, JobTypeOK
<1>1. ASSUME NEW e \in {"failed", "offline"}, Fails(j, e), call[j] \in {"send", "asked"}, cmd[j] = "none"
      PROVE  Steady'
  <2>1. /\ Same(j) /\ UNCHANGED <<exec, pos, reg, link, chan>> /\ WriteJSON(j[1])
        /\ call'[j] = "create" /\ err'[j] = e /\ UNCHANGED <<cmd, msg, res, row>>
    BY <1>1 DEF Fails, Same, agent, Base, JobTypeOK
  <2>2. JobOK(j)' /\ ~Final(j) /\ ~Over(j) /\ msg[j] = "none"
    BY ZenonT(60), <1>0, <1>1, <2>1 DEF JobOK, Final, Over, Reported
  <2> QED BY Zenon, <1>1, <2>1, <2>2, JobKeeps
<1>2. CASE Send(j) \/ Replied(j) \/ AgentStarts(j)
  <2>1. /\ Same(j) /\ UNCHANGED <<exec, pos, reg, link, chan, socket, err, msg, res, row>>
        /\ \/ call[j] = "send" /\ call'[j] = "asked" /\ cmd'[j] = cmd[j] /\ link[Client(j)] = "up"
           \/ call[j] = "asked" /\ call'[j] = "create" /\ cmd'[j] = cmd[j] /\ cmd[j] # "none"
           \/ call[j] = "asked" /\ call'[j] = "asked" /\ cmd'[j] = "running"
    BY <1>2 DEF Send, Replied, AgentStarts, Same, agent, Base, JobTypeOK
  <2>2. /\ JobOK(j)' /\ ~Over(j) /\ msg[j] # "gone" /\ msg'[j] # "gone" /\ chan' = chan /\ UNCHANGED socket
        /\ (row'[j] \in Reported \/ (call'[j] = "create" /\ err'[j] # "none")) <=> Final(j)
    BY Zenon, <1>0, <2>1 DEF JobOK, Final, Over
  <2> QED BY Zenon, <2>1, <2>2, JobKeeps
<1>3. CASE CreateJob(j)
  <2>1. /\ Same(j) /\ UNCHANGED <<exec, pos, reg, link, chan, socket, err, cmd, msg, res>>
        /\ call[j] = "create" /\ call'[j] = "done"
        /\ row'[j] = IF err[j] # "none" /\ Kind[j[1]] = "single" THEN row[j]
                     ELSE CASE row[j] # "none" -> row[j]
                            [] row[j] = "none" /\ err[j] = "none" -> "running"
                            [] row[j] = "none" /\ err[j] # "none" -> "failed"
    BY <1>3 DEF CreateJob, Same, agent, Base, JobTypeOK, Reliable
  <2>2. row[j] = "none" /\ msg[j] # "gone"
    BY Zenon, <1>0, <2>1 DEF JobOK
  <2>3. JobOK(j)' /\ ~Over(j)
    <3>1. row'[j] = IF err[j] = "none" THEN "running" ELSE IF Kind[j[1]] = "single" THEN "none" ELSE "failed"
      BY Zenon, <2>1, <2>2
    <3>2. cmd[j] \in {"none", "running", "observed"}
      BY Zenon DEF Base, JobTypeOK
    <3> QED BY ZenonT(60), <1>0, <2>1, <2>2, <3>1, <3>2 DEF JobOK, Over
  <2>4. Kind[j[1]] = "ws" => ((row'[j] \in Reported \/ (call'[j] = "create" /\ err'[j] # "none")) <=> Final(j))
    BY Zenon, <2>1, <2>2 DEF Final, Reported
  <2> QED BY ZenonT(60), <2>1, <2>2, <2>3, <2>4, JobKeeps
<1>4. ASSUME NEW s \in Reported, Observe(j, s)
      PROVE  Steady'
  <2>1. /\ Same(j) /\ UNCHANGED <<exec, pos, reg, link, chan, socket, err, call, row>>
        /\ cmd[j] = "running"
        /\ cmd'[j] = "observed" /\ res'[j] = s /\ msg'[j] = IF link[Client(j)] = "up" THEN "sent" ELSE "gone"
    BY <1>4 DEF Observe, Same, Base, JobTypeOK
  <2>2. /\ call[j] \in {"asked", "create", "done"} /\ err[j] = "none" /\ link[Client(j)] = "up" /\ msg[j] = "none"
        /\ row[j] = IF call[j] = "done" THEN "running" ELSE "none"
    BY Zenon, <1>0, <2>1 DEF JobOK
  <2>3. /\ JobOK(j)' /\ ~Over(j) /\ msg'[j] = "sent" /\ UNCHANGED socket /\ chan' = chan
        /\ (row'[j] \in Reported \/ (call'[j] = "create" /\ err'[j] # "none")) <=> Final(j)
    BY ZenonT(60), <2>1, <2>2 DEF JobOK, Over, Final
  <2> QED BY Zenon, <2>1, <2>2, <2>3, JobKeeps
<1>5. CASE saveCmdResult(j)
  <2>0. /\ msg[j] = "sent" /\ cmd[j] = "observed" /\ err[j] = "none" /\ res[j] \in Reported
        /\ call[j] \in {"asked", "create", "done"} /\ row[j] = IF call[j] = "done" THEN "running" ELSE "none"
    BY Zenon, <1>0, <1>5 DEF saveCmdResult, JobOK
  <2>1. Same(j) /\ UNCHANGED <<exec, pos, reg, link, chan, err, call, cmd, res>>
    BY <1>5 DEF saveCmdResult, Same, Base, JobTypeOK
  <2>2. CASE call[j] = "done"
    <3>1. row'[j] = res[j] /\ msg'[j] = "saved" /\ (WriteJSON(j[1]) \/ (UNCHANGED socket /\ exec[j[1]] = "ended"))
      BY Zenon, <1>5, <2>0, <2>2 DEF saveCmdResult, ShowResult, Base, JobTypeOK, Reliable
    <3>2. JobOK(j)' /\ ~Over(j) /\ ~Final(j)
      BY ZenonT(60), <2>0, <2>1, <2>2, <3>1 DEF JobOK, Over, Final, Reported
    <3> QED BY Zenon, <2>0, <2>1, <2>2, <3>1, <3>2, JobKeeps
  <2>3. CASE call[j] # "done"
    <3>1. row'[j] = row[j] /\ msg'[j] = "refused" /\ UNCHANGED socket
      BY Zenon, <1>5, <2>0, <2>3 DEF saveCmdResult, Base, JobTypeOK, Reliable
    <3>2. /\ JobOK(j)' /\ ~Over(j)
          /\ (row'[j] \in Reported \/ (call'[j] = "create" /\ err'[j] # "none")) <=> Final(j)
      BY ZenonT(60), <1>0, <2>0, <2>1, <2>3, <3>1 DEF JobOK, Over, Final
    <3> QED BY Zenon, <2>0, <2>1, <2>3, <3>1, <3>2, JobKeeps
  <2> QED BY Zenon, <2>2, <2>3
<1>6. CASE Deliver(j)
  <2>0. msg[j] = "saved" /\ cmd[j] = "observed" /\ call[j] = "done" /\ err[j] = "none" /\ row[j] = res[j]
    BY Zenon, <1>0, <1>6 DEF Deliver, JobOK
  <2>1. /\ Same(j) /\ UNCHANGED <<exec, pos, reg, link, socket, err, call, cmd, res, row>> /\ msg'[j] = "gone"
        /\ chan' = IF j[1] \in reg /\ Len(chan[j[1]]) < Capacity(j[1])
                   THEN [chan EXCEPT ![j[1]] = Append(@, res[j])] ELSE chan
    BY <1>6 DEF Deliver, Same, Base, JobTypeOK
  <2>2. /\ JobOK(j)' /\ ~Over(j) /\ UNCHANGED socket
        /\ (row'[j] \in Reported \/ (call'[j] = "create" /\ err'[j] # "none")) <=> Final(j)
    BY Zenon, <2>0, <2>1 DEF JobOK, Over, Final
  <2> QED BY Zenon, <2>0, <2>1, <2>2, JobKeeps
<1>7. SendFails(j) => FALSE
  BY Zenon, <1>0 DEF SendFails, JobOK
<1>8. CannotSend(j) \/ AgentRefuses(j) =>
        call[j] \in {"send", "asked"} /\ cmd[j] = "none" /\ \E e \in {"failed", "offline"} : Fails(j, e)
  BY Zenon, <1>0 DEF CannotSend, AgentRefuses, JobOK
<1> QED BY ZenonT(60), <1>1, <1>2, <1>3, <1>4, <1>5, <1>6, <1>7, <1>8 DEF createAndRunJob, HandleRunCmdRequest, handleCmdResult

-----------------------------------------------------------------------------
\* What a step of the loop has to show that dispatches no target.
LEMMA LoopKeeps ==
    ASSUME Base, Steady, NEW r \in Runs, UNCHANGED <<link, call, err, cmd, msg, res, row, left>>,
           exec[r] \notin {"idle", "ended"}, exec'[r] # "idle", pos'[r] \in {pos[r], pos[r] + 1},
           pos'[r] = pos[r] /\ exec'[r] = "next" => exec[r] = "next",
           \A s \in Runs : ui[s] # "none" => ui'[s] # "none",
           \A s \in Runs : s # r => /\ exec'[s] = exec[s] /\ pos'[s] = pos[s] /\ chan'[s] = chan[s]
                                    /\ s \in reg' <=> s \in reg,
           r \in Sequential => InOrder(r)'
    PROVE  Steady'
<1>1. Phases'
  BY DEF Steady, Phases, JobOK
<1>2. Ahead'
  BY Zenon, AheadKept DEF Base, Steady
<1>3. Serial'
  BY Zenon, OthersInOrder DEF Base, Steady
<1>4. Counted'
  BY Zenon, CountKept DEF Steady, Final
<1> QED BY ZenonT(60), <1>1, <1>2, <1>3, <1>4 DEF Steady

\* A loop begins.
LEMMA BeginStep ==
    ASSUME Base, Steady, NEW r \in Runs, Begin(r)
    PROVE  Steady'
<1>0. /\ exec[r] = "idle" /\ exec' = [exec EXCEPT ![r] = "next"]
      /\ UNCHANGED <<link, pos, call, err, cmd, msg, res, row, chan>>
      /\ \A s \in Runs : s # r => exec'[s] = exec[s] /\ (s \in reg' <=> s \in reg) /\ ui'[s] = ui[s] /\ left'[s] = left[s]
      /\ exec'[r] = "next" /\ (Kind[r] # "single" /\ r \in Sequential => r \in reg')
      /\ Kind[r] = "ws" => ui'[r] = "open" /\ left'[r] = Len(Targets[r])
  BY Zenon DEF Begin, Loop, agent, Base, LoopTypeOK
<1>1. pos[r] = 1 /\ \A i \in Indexes(r) : call[<<r, i>>] = "idle" /\ ~(i < 1)
  BY <1>0, JobFacts DEF Steady, Ahead, Indexes
<1>2. Phases'
  BY <1>0 DEF Steady, Phases, JobOK
<1>3. Ahead'
  BY Zenon, <1>0, AheadKept DEF Base, Steady
<1>4. Serial'
  <2>1. r \in Sequential => InOrder(r)'
    BY Zenon, <1>0, <1>1 DEF InOrder, Steady, Serial
  <2> QED BY Zenon, <1>0, <2>1, OthersInOrder DEF Base, Steady
<1>5. Counted'
  <2>1. ASSUME NEW s \in Runs, Kind[s] = "ws", exec'[s] # "idle"
        PROVE  /\ ui'[s] # "none" /\ left'[s] >= Cardinality({i \in Indexes(s) : ~Final(<<s, i>>)})
               /\ exec'[s] # "ended" => left'[s] = Cardinality({i \in Indexes(s) : ~Final(<<s, i>>)})
    <3>1. CASE s # r
      BY Zenon, <1>0, <2>1, <3>1 DEF Steady, Counted, Unfinished
    <3>2. CASE s = r
      <4>1. \A i \in Indexes(r) : ~Final(<<r, i>>)
        <5>1. ASSUME NEW i \in Indexes(r) PROVE row[<<r, i>>] = "none" /\ call[<<r, i>>] = "idle"
          BY Zenon, <1>1, JobFacts DEF Steady, Phases, JobOK
        <5> QED BY Zenon, <5>1 DEF Final, Reported
      <4>2. {i \in Indexes(s) : ~Final(<<s, i>>)} = Indexes(s)
        BY ZenonT(60), <3>2, <4>1
      <4>3. left'[s] = Cardinality({i \in Indexes(s) : ~Final(<<s, i>>)}) /\ ui'[s] # "none"
        BY Zenon, <1>0, <2>1, <3>2, <4>2, DeliveredFacts
      <4>4. left'[s] \in Nat
        BY Zenon, <1>0, <2>1, <3>2, JobFacts
      <4>5. \A n \in Nat : n >= n
        OBVIOUS
      <4> QED BY Zenon, <4>3, <4>4, <4>5
    <3> QED BY Zenon, <3>1, <3>2
  <2> QED BY ZenonT(60), <1>0, <2>1 DEF Counted, Unfinished, Final
<1> QED BY Zenon, <1>2, <1>3, <1>4, <1>5 DEF Steady

\* A target is dispatched.
LEMMA DispatchStep ==
    ASSUME Base, Steady, NEW r \in Runs, Dispatch(r)
    PROVE  Steady'
<1>0. /\ exec[r] = "next" /\ pos[r] <= Len(Targets[r]) /\ call' = [call EXCEPT ![Current(r)] = "send"]
      /\ UNCHANGED <<link, err, cmd, msg, res, row, chan, reg, ui, left>>
      /\ \A s \in Runs : s # r => exec'[s] = exec[s] /\ pos'[s] = pos[s]
      /\ \/ pos'[r] = pos[r] + 1 /\ exec'[r] = "next" /\ r \notin Sequential
         \/ pos'[r] = pos[r] /\ exec'[r] = "calling" /\ r \in Sequential
  BY Zenon DEF Dispatch, Loop, agent, socket, Base, LoopTypeOK, Sequential
<1>1. Current(r) \in Jobs /\ pos[r] \in Indexes(r) /\ Current(r)[1] = r /\ Current(r) = <<r, pos[r]>>
  BY Zenon, <1>0, CurrentFacts DEF Base, Current
<1>2. /\ call[Current(r)] = "idle" /\ call'[Current(r)] = "send"
      /\ \A j \in Jobs : j # Current(r) => call'[j] = call[j]
  BY <1>0, <1>1 DEF Steady, Ahead, Base, JobTypeOK
<1>3. Phases'
  <2>1. \A j \in Jobs : JobOK(j)'
    BY <1>0, <1>1, <1>2 DEF Steady, Phases, JobOK
  <2> QED BY ZenonT(60), <1>0, <2>1 DEF Steady, Phases
<1>4. Ahead'
  <2>1. /\ ~(pos'[r] = pos[r] /\ exec'[r] = "next")
        /\ exec'[r] # "idle" /\ pos'[r] \in {pos[r], pos[r] + 1}
    BY <1>0 DEF Base, LoopTypeOK
  <2>2. LoopTypeOK /\ Ahead
    BY Zenon DEF Base, Steady
  <2> QED BY ZenonT(60), <1>0, <1>2, <2>1, <2>2, AheadKept
<1>5. Serial'
  <2>1. ASSUME r \in Sequential PROVE InOrder(r)'
    <3>1. InOrder(r) /\ pos'[r] = pos[r] /\ exec'[r] = "calling" /\ pos[r] \in Nat /\ Indexes(r) \subseteq Nat
      BY <1>0, <2>1 DEF Steady, Serial, Base, LoopTypeOK, Indexes
    <3>2. \A i \in Indexes(r) : i < pos[r] => call'[<<r, i>>] = call[<<r, i>>]
      BY <1>1, <1>2, <3>1, JobFacts
    <3>3. msg[Current(r)] = "none"
      BY Zenon, <1>1, <1>2 DEF Steady, Phases, JobOK, Base, Observed
    <3> QED BY <1>0, <1>1, <3>1, <3>2, <3>3 DEF InOrder, Over, Current
  <2>2. \A j \in Jobs : j[1] # r => call'[j] = call[j]
    BY Zenon, <1>1, <1>2
  <2> QED BY ZenonT(60), <1>0, <2>1, <2>2, OthersInOrder DEF Base, Steady
<1>6. Counted'
  <2>1. \A k \in Jobs : (row'[k] \in Reported \/ (call'[k] = "create" /\ err'[k] # "none")) <=> Final(k)
    BY Zenon, <1>0, <1>2 DEF Final
  <2> QED BY Zenon, <1>0, <2>1, CountKept DEF Steady
<1> QED BY Zenon, <1>3, <1>4, <1>5, <1>6 DEF Steady

\* A loop that is over stays in order.
LEMMA OverInOrder ==
    ASSUME NEW r \in Sequential, Serial, UNCHANGED <<call, err, msg, row>>,
           pos'[r] = pos[r], exec'[r] \in {"reading", "ended"}
    PROVE  InOrder(r)'
<1>1. \A i \in Indexes(r) : i < pos'[r] =>
         /\ call'[<<r, i>>] = "done" /\ (err'[<<r, i>>] # "none" \/ msg'[<<r, i>>] = "gone")
         /\ r \in AbortOnErr => row'[<<r, i>>] # "failed" \/ err'[<<r, i>>] = "offline"
  BY Zenon DEF Serial, InOrder, Over
<1>2. Kind[r] = "single" => pos'[r] = 1
  BY Zenon DEF Serial, InOrder
<1>3. exec'[r] \notin {"idle", "next", "calling", "wait"}
  OBVIOUS
<1> QED BY Zenon, <1>1, <1>2, <1>3 DEF InOrder, Over

\* createAndRunJob has returned: the loop waits for the result, goes on or ends.
LEMMA ReturnedStep ==
    ASSUME Base, Steady, NEW r \in Runs, Returned(r)
    PROVE  Steady'
<1>0. /\ exec[r] = "calling" /\ call[Current(r)] = "done" /\ pos[r] <= Len(Targets[r])
      /\ UNCHANGED <<link, call, err, cmd, msg, res, row, chan, left>>
      /\ exec \in [Runs -> {"idle", "next", "calling", "wait", "reading", "ended"}] /\ pos \in [Runs -> Nat]
      /\ reg \subseteq Runs /\ ui \in [Runs -> {"none", "open", "closed"}] /\ Indexes(r) \subseteq Nat
  BY DEF Returned, agent, Base, LoopTypeOK, AtTarget, Indexes
<1>1. Current(r) \in Jobs /\ pos[r] \in Indexes(r) /\ Current(r) = <<r, pos[r]>>
  BY Zenon, <1>0, CurrentFacts DEF Base, Current
<1>2. err[Current(r)] # "none" => msg[Current(r)] = "none"
  BY Zenon, <1>0, <1>1 DEF Steady, Phases, JobOK, Base, Observed
<1>3. CASE (Loop(r, "wait") \/ Loop(r, "ended")) /\ UNCHANGED <<pos, reg, ui>>
           /\ (Loop(r, "wait") => Kind[r] # "single" /\ err[Current(r)] = "none")
  <2>1. exec'[r] \in {"wait", "ended"} /\ \A s \in Runs : s # r => exec'[s] = exec[s]
    BY Zenon, <1>0, <1>3 DEF Loop
  <2>2. exec'[r] = "wait" => Kind[r] # "single" /\ err[Current(r)] = "none"
    BY ZenonT(60), <1>0, <1>3 DEF Loop
  <2>3. r \in Sequential => InOrder(r)'
    BY SMTT(60), <1>0, <1>3, <2>1, <2>2 DEF Steady, Serial, InOrder, Over, Current
  <2> QED BY Zenon, <1>0, <1>3, <2>1, <2>3, LoopKeeps
<1>4. CASE Abort(r)
  <2>1. /\ exec'[r] = "ended" /\ pos' = pos
        /\ \A s \in Runs : s # r => exec'[s] = exec[s] /\ (s \in reg' <=> s \in reg)
        /\ \A s \in Runs : ui[s] # "none" => ui'[s] # "none"
    BY Zenon, <1>0, <1>4 DEF Abort, Loop
  <2>2. r \in Sequential => InOrder(r)'
    BY ZenonT(60), <1>0, <2>1, OverInOrder DEF Steady
  <2> QED BY Zenon, <1>0, <2>1, <2>2, LoopKeeps
<1>5. CASE NextTarget(r) /\ Kind[r] # "single" /\ err[Current(r)] # "none"
           /\ (r \in AbortOnErr => err[Current(r)] = "offline")
  <2>1. /\ exec'[r] = "next" /\ pos'[r] = pos[r] + 1 /\ UNCHANGED <<reg, ui>>
        /\ \A s \in Runs : s # r => exec'[s] = exec[s] /\ pos'[s] = pos[s]
    BY Zenon, <1>0, <1>5 DEF NextTarget, Loop
  <2>2. ASSUME r \in Sequential PROVE InOrder(r)'
    <3>1. InOrder(r) /\ \A i \in Indexes(r) : i < pos'[r] => i < pos[r] \/ i = pos[r]
      <4>1. pos[r] \in Nat /\ pos'[r] = pos[r] + 1 /\ Indexes(r) \subseteq Nat
        BY Zenon, <1>0, <2>1
      <4>2. \A i \in Nat : i < pos[r] + 1 => i < pos[r] \/ i = pos[r]
        BY <4>1
      <4>3. InOrder(r)
        BY Zenon, <2>2 DEF Steady, Serial
      <4> QED BY Zenon, <4>1, <4>2, <4>3
    <3>2. \A i \in Indexes(r) : i < pos'[r] =>
             /\ Over(<<r, i>>)
             /\ r \in AbortOnErr => row[<<r, i>>] # "failed" \/ err[<<r, i>>] = "offline"
      BY Zenon, <1>0, <1>1, <1>5, <3>1 DEF InOrder, Over
    <3>3. chan[r] = <<>> /\ r \in reg
      BY Zenon, <1>0, <1>2, <1>5, <3>1 DEF InOrder
    <3> QED BY Zenon, <1>0, <1>5, <2>1, <3>2, <3>3 DEF InOrder, Over
  <2>3. pos'[r] # pos[r]
    BY <1>0, <2>1
  <2> QED BY Zenon, <1>0, <2>1, <2>2, <2>3, LoopKeeps
<1> QED
  <2>1. \/ Loop(r, "ended") /\ Kind[r] = "single" /\ UNCHANGED <<pos, reg, ui>>
        \/ Loop(r, "wait") /\ Kind[r] # "single" /\ err[Current(r)] = "none" /\ UNCHANGED <<pos, reg, ui>>
        \/ Abort(r)
        \/ NextTarget(r) /\ Kind[r] # "single" /\ err[Current(r)] # "none"
           /\ (r \in AbortOnErr => err[Current(r)] = "offline")
    BY Zenon, ConstantsAssumption DEF Returned
  <2>2. ~(Loop(r, "ended") /\ Loop(r, "wait"))
    BY Zenon, <1>0 DEF Loop
  <2> QED BY Zenon, <1>3, <1>4, <1>5, <2>1, <2>2

\* The loop takes the result of the target it is at, and leaves it.
LEMMA ReceiveStep ==
    ASSUME Base, Steady, NEW r \in Runs, Receive(r)
    PROVE  Steady'
<1>0. /\ exec[r] = "wait" /\ pos[r] <= Len(Targets[r]) /\ chan[r] # <<>>
      /\ UNCHANGED <<link, call, err, cmd, msg, res, row, left>>
      /\ chan'[r] = Tail(chan[r]) /\ \A s \in Runs : s # r => chan'[s] = chan[s]
      /\ exec \in [Runs -> {"idle", "next", "calling", "wait", "reading", "ended"}] /\ pos \in [Runs -> Nat]
      /\ reg \subseteq Runs /\ ui \in [Runs -> {"none", "open", "closed"}] /\ Indexes(r) \subseteq Nat
  BY DEF Receive, agent, Base, LoopTypeOK, AtTarget, Indexes
<1>1. Current(r) \in Jobs /\ pos[r] \in Indexes(r) /\ Current(r) = <<r, pos[r]>>
  BY Zenon, <1>0, CurrentFacts DEF Base, Current
<1>2. CASE Abort(r)
  <2>1. /\ exec'[r] = "ended" /\ pos' = pos
        /\ \A s \in Runs : s # r => exec'[s] = exec[s] /\ (s \in reg' <=> s \in reg)
        /\ \A s \in Runs : ui[s] # "none" => ui'[s] # "none"
    BY Zenon, <1>0, <1>2 DEF Abort, Loop
  <2>2. r \in Sequential => InOrder(r)'
    BY Zenon, <1>0, <2>1, OverInOrder DEF Steady
  <2> QED BY Zenon, <1>0, <2>1, <2>2, LoopKeeps
<1>3. CASE NextTarget(r) /\ (r \in AbortOnErr => Head(chan[r]) # "failed")
  <2>1. /\ exec'[r] = "next" /\ pos'[r] = pos[r] + 1 /\ UNCHANGED <<reg, ui>>
        /\ \A s \in Runs : s # r => exec'[s] = exec[s] /\ pos'[s] = pos[s]
    BY Zenon, <1>0, <1>3 DEF NextTarget, Loop
  <2>2. ASSUME r \in Sequential PROVE InOrder(r)'
    <3>1. InOrder(r) /\ \A i \in Indexes(r) : i < pos'[r] => i < pos[r] \/ i = pos[r]
      <4>1. pos[r] \in Nat /\ pos'[r] = pos[r] + 1 /\ Indexes(r) \subseteq Nat
        BY Zenon, <1>0, <2>1
      <4>2. \A i \in Nat : i < pos[r] + 1 => i < pos[r] \/ i = pos[r]
        BY <4>1
      <4>3. InOrder(r)
        BY Zenon, <2>2 DEF Steady, Serial
      <4> QED BY Zenon, <4>1, <4>2, <4>3
    <3>2. /\ msg[Current(r)] = "gone" /\ chan[r] = <<res[Current(r)]>> /\ r \in reg /\ Kind[r] # "single"
          /\ call[Current(r)] = "done" /\ err[Current(r)] = "none"
      BY ZenonT(60), <1>0, <3>1 DEF InOrder
    <3>3. Head(chan[r]) = res[Current(r)] /\ chan'[r] = <<>>
      BY SMTT(60), <1>0, <3>2
    <3>4. row[Current(r)] = res[Current(r)]
      BY Zenon, <1>1, <3>2 DEF Steady, Phases, JobOK, Base, Observed
    <3>5. \A i \in Indexes(r) : i < pos'[r] =>
             /\ Over(<<r, i>>)
             /\ r \in AbortOnErr => row[<<r, i>>] # "failed" \/ err[<<r, i>>] = "offline"
      BY ZenonT(60), <1>1, <1>3, <3>1, <3>2, <3>3, <3>4 DEF InOrder, Over
    <3> QED BY ZenonT(60), <1>0, <2>1, <3>2, <3>3, <3>5 DEF InOrder, Over
  <2>3. pos'[r] # pos[r]
    BY SMTT(60), <1>0, <2>1
  <2> QED BY ZenonT(60), <1>0, <2>1, <2>2, <2>3, LoopKeeps
<1> QED BY Zenon, <1>2, <1>3 DEF Receive

\* The loop ends, the socket is closed.
LEMMA EndSteps ==
    ASSUME Base, Steady, NEW r \in Runs, LoopEnds(r) \/ ReadEnds(r)
    PROVE  Steady'
<1>1. /\ exec[r] \in {"next", "reading"}
      /\ UNCHANGED <<link, pos, call, err, cmd, msg, res, row, chan, ui, left>>
      /\ Loop(r, "reading") \/ Loop(r, "ended")
      /\ reg' = reg \/ reg' = reg \ {r}
  BY Zenon DEF LoopEnds, ReadEnds, agent, socket
<1>2. exec'[r] \in {"reading", "ended"} /\ \A s \in Runs : s # r => exec'[s] = exec[s] /\ (s \in reg' <=> s \in reg)
  BY Zenon, <1>1 DEF Loop, Base, LoopTypeOK
<1>3. r \in Sequential => InOrder(r)'
  BY Zenon, <1>1, <1>2, OverInOrder DEF Steady
<1> QED BY Zenon, <1>1, <1>2, <1>3, LoopKeeps

\* A step outside the loops and the jobs.
LEMMA Unmoved ==
    ASSUME Ahead, Serial, UNCHANGED <<exec, pos, call, err, msg, res, row, chan, reg>>
    PROVE  Ahead' /\ Serial'
<1>1. Ahead'
  BY Zenon DEF Ahead
<1>2. ASSUME NEW r \in Sequential PROVE InOrder(r)'
  BY ZenonT(60) DEF Serial, InOrder, Over, Current
<1> QED BY Zenon, <1>1, <1>2 DEF Serial

\* The user leaves the web socket.
LEMMA ClosesStep ==
    ASSUME Base, Steady, NEW r \in Runs, UserCloses(r)
    PROVE  Steady'
<1>1. /\ UNCHANGED <<link, exec, pos, call, err, cmd, msg, res, row, chan, reg, left>>
      /\ \A s \in Runs : ui[s] # "none" => ui'[s] # "none"
  BY Zenon DEF UserCloses, agent, Base, LoopTypeOK
<1>2. Phases' /\ Ahead' /\ Serial'
  <2>1. Phases'
    BY SMTT(60), <1>1 DEF Steady, Phases, JobOK
  <2> QED BY Zenon, <1>1, <2>1, Unmoved DEF Steady
<1>3. Counted'
  BY Zenon, <1>1, CountKept DEF Steady, Final
<1> QED BY Zenon, <1>2, <1>3 DEF Steady

\* A client connects.
LEMMA ConnectStep ==
    ASSUME Base, Steady, NEW c \in Clients, Connect(c)
    PROVE  Steady'
<1>1. /\ UNCHANGED <<exec, pos, call, err, cmd, msg, res, row, chan, reg, ui, left>>
      /\ \A d \in Clients : link'[d] \in {link[d], "up"}
  BY ZenonT(60) DEF Connect, agent, socket, Base, JobTypeOK
<1>2. Phases'
  <2>1. \A j \in Jobs : JobOK(j)'
    BY SMTT(60), <1>1, JobFacts DEF Steady, Phases, JobOK
  <2> QED BY Zenon, <1>1, <2>1 DEF Steady, Phases
<1>3. Ahead' /\ Serial'
  BY Zenon, <1>1, Unmoved DEF Steady
<1>4. Counted'
  BY Zenon, <1>1, CountKept DEF Steady, Final
<1> QED BY Zenon, <1>2, <1>3, <1>4 DEF Steady

-----------------------------------------------------------------------------
\* The invariant holds initially.
LEMMA InitHolds == Init => JobsInv
<1> SUFFICES ASSUME Init PROVE JobsInv
  OBVIOUS
<1>0. \A r \in Runs : Len(Targets[r]) \in Nat \ {0}
  BY Zenon, JobFacts
<1>1. JobTypeOK
  BY Zenon, ConstantsAssumption DEF Init, JobTypeOK
<1>2. LoopTypeOK /\ AtTarget /\ Observed
  BY <1>0 DEF Init, LoopTypeOK, AtTarget, Observed
<1>3. Room
  <2>1. ASSUME NEW r \in Runs PROVE Len(chan[r]) <= Cardinality({i \in Indexes(r) : msg[<<r, i>>] = "gone"})
    <3>1. Len(chan[r]) = 0
      BY Zenon DEF Init
    <3>2. {i \in Indexes(r) : msg[<<r, i>>] = "gone"} \subseteq Indexes(r)
      OBVIOUS
    <3>3. Cardinality({i \in Indexes(r) : msg[<<r, i>>] = "gone"}) \in Nat
      BY Zenon, <3>2, DeliveredFacts
    <3> QED BY <3>1, <3>3
  <2> QED BY Zenon, <2>1 DEF Room, Delivered
<1>4. Phases
  BY Zenon DEF Init, Phases, JobOK
<1>5. Ahead /\ Counted
  BY Zenon, JobFacts DEF Init, Ahead, Counted
<1>6. Serial
  <2>1. ASSUME NEW r \in Sequential PROVE InOrder(r)
    <3>1. r \in Runs /\ exec[r] = "idle" /\ pos[r] = 1 /\ chan[r] = <<>>
      BY Zenon DEF Init, Sequential
    <3>2. \A i \in Indexes(r) : ~(i < pos[r])
      BY <3>1 DEF Indexes
    <3> QED BY Zenon, <3>1, <3>2 DEF InOrder
  <2> QED BY Zenon, <2>1 DEF Serial
<1> QED BY Zenon, <1>1, <1>2, <1>3, <1>4, <1>5, <1>6 DEF JobsInv, Base, Steady

\* Every step keeps the invariant.
LEMMA StepKeeps == JobsInv /\ [Next]_vars => JobsInv'
<1> SUFFICES ASSUME JobsInv, [Next]_vars PROVE JobsInv'
  OBVIOUS
<1>1. CASE Next
  <2>1. Base'
    BY Zenon, <1>1, BaseStep DEF JobsInv
  <2>2. Room'
    BY Zenon, <1>1, <2>1, RoomStep DEF JobsInv
  <2>3. ASSUME Reliable' PROVE Steady'
    <3>1. deployment' = deployment
      BY ZenonT(60), <1>1 DEF Next, Begin, RunLoop, Dispatch, Returned, Receive, LoopEnds, ReadEnds, UserCloses,
         createAndRunJob, Send, CannotSend, SendFails, Replied, CreateJob, Fails, HandleRunCmdRequest,
         AgentRefuses, AgentStarts, Observe, handleCmdResult, saveCmdResult, Deliver, Connect, LinkDown, Crash
    <3>2. Reliable /\ Steady /\ Base
      BY Zenon, <2>3, <3>1 DEF Reliable, StoreFails, JobsInv
    <3>3. ~Crash /\ \A c \in Clients : ~LinkDown(c)
      BY Zenon, <3>2 DEF Reliable, Crash, LinkDown
    <3> QED BY ZenonT(60), <1>1, <3>2, <3>3, BeginStep, DispatchStep, ReturnedStep, ReceiveStep, EndSteps, ClosesStep,
               JobStep, ConnectStep DEF Next, RunLoop
  <2> QED BY Zenon, <2>1, <2>2, <2>3 DEF JobsInv
<1>2. CASE UNCHANGED vars
  <2>1. Base' /\ Room'
    BY SMTT(60), <1>2 DEF vars, JobsInv, Base, JobTypeOK, LoopTypeOK, AtTarget, Observed, Room, Delivered
  <2>2. ASSUME Reliable' PROVE Phases' /\ Ahead' /\ Serial' /\ Counted'
    <3>1. Steady /\ UNCHANGED <<link, exec, pos, call, err, cmd, msg, res, row, chan, reg, ui, left>>
      BY ZenonT(60), <1>2, <2>2 DEF vars, JobsInv, Reliable, StoreFails
    <3>2. Phases'
      BY <3>1 DEF Steady, Phases, JobOK
    <3>3. Ahead' /\ Serial'
      BY Zenon, <3>1, Unmoved DEF Steady
    <3>4. Counted'
      BY Zenon, <3>1, CountKept DEF Steady, Final
    <3> QED BY Zenon, <3>2, <3>3, <3>4
  <2> QED BY ZenonT(60), <2>1, <2>2 DEF JobsInv, Steady
<1> QED BY Zenon, <1>1, <1>2 DEF vars

\* The invariant always holds.
LEMMA JobsInvariant == Spec => []JobsInv
  BY InitHolds, StepKeeps, PTL DEF Spec

-----------------------------------------------------------------------------
\* In a sequential run one target is over before the next is dispatched, and
\* with abort_on_error none is dispatched after a failure (the sequential loops
\* of executeMultiClientJob and handleCommandsExecutionWS), whatever the runs and
\* their targets, where connections and table hold.
THEOREM InSeriesAlways == Spec => []InSeries
<1>1. JobsInv => InSeries
  <2> SUFFICES ASSUME JobsInv, Reliable, NEW r \in Sequential, NEW i \in Indexes(r), NEW k \in Indexes(r),
                      i < k, call[<<r, k>>] # "idle"
               PROVE  /\ cmd[<<r, i>>] # "running"
                      /\ r \in AbortOnErr => row[<<r, i>>] # "failed" \/ err[<<r, i>>] = "offline"
    BY Zenon DEF InSeries, Indexes
  <2>1. r \in Runs /\ InOrder(r) /\ <<r, i>> \in Jobs /\ pos[r] \in Nat /\ i \in Nat /\ k \in Nat
    BY JobFacts DEF JobsInv, Base, LoopTypeOK, Steady, Serial, Sequential, Indexes
  <2>2. ~(k > pos[r])
    BY Zenon, <2>1 DEF JobsInv, Steady, Ahead
  <2>3. i < pos[r]
    BY <2>1, <2>2
  <2>4. JobOK(<<r, i>>) /\ (cmd[<<r, i>>] = "observed" <=> msg[<<r, i>>] # "none")
    BY Zenon, <2>1 DEF JobsInv, Steady, Phases, Base, Observed
  <2>5. Over(<<r, i>>) /\ (r \in AbortOnErr => row[<<r, i>>] # "failed" \/ err[<<r, i>>] = "offline")
    BY Zenon, <2>1, <2>3 DEF InOrder
  <2>6. cmd[<<r, i>>] # "running"
    BY Zenon, <2>4, <2>5 DEF JobOK, Over
  <2> QED BY Zenon, <2>5, <2>6
<1> QED BY <1>1, JobsInvariant, PTL

\* The non-blocking send of handleCmdResult never finds the buffer of the run
\* full, also with lost connections and restarts. Where connections, table and
\* server hold, a started command has its row, and a result is in it once it has
\* been handled, unless it came before the row and was refused.
THEOREM ResultsStoredAlways == Spec => []ResultsStored
<1>1. JobsInv => ResultsStored
  <2> SUFFICES ASSUME JobsInv PROVE ResultsStored
    OBVIOUS
  <2>1. TypeOK
    BY Zenon DEF JobsInv, Base, TypeOK
  <2>2. \A j \in Jobs : msg[j] = "saved" /\ j[1] \in reg => Len(chan[j[1]]) < Capacity(j[1])
    BY Zenon, HasRoom DEF JobsInv, Base
  <2>3. ASSUME Reliable, NEW j \in Jobs
        PROVE  /\ cmd[j] # "none" /\ call[j] = "done" => row[j] # "none"
               /\ msg[j] = "gone" => row[j] = res[j]
               /\ msg[j] = "refused" /\ call[j] = "done" => row[j] = "running"
    <3>1. JobOK(j) /\ (cmd[j] = "observed" => res[j] \in Reported) /\ (cmd[j] = "observed" <=> msg[j] # "none")
      BY ZenonT(60), <2>3 DEF JobsInv, Steady, Phases, Base, Observed
    <3> QED BY ZenonT(60), <3>1 DEF JobOK, Reported
  <2> QED BY Zenon, <2>1, <2>2, <2>3 DEF ResultsStored
<1> QED BY <1>1, JobsInvariant, PTL

\* Where connections, table and server hold, writesBeforeClose of a run's web
\* socket reaches zero only when every target has its final message, an error or
\* a stored result, and as long as the handler of the socket runs it does so then.
THEOREM SocketCountsFinalsAlways == Spec => []SocketCountsFinals
<1>1. JobsInv => SocketCountsFinals
  <2> SUFFICES ASSUME JobsInv, Reliable, NEW r \in Runs, Kind[r] = "ws", exec[r] # "idle"
               PROVE  LET over == \A i \in Indexes(r) : Final(<<r, i>>) IN
                      /\ left[r] <= 0 => over
                      /\ exec[r] # "ended" /\ over => left[r] <= 0
    BY Zenon DEF SocketCountsFinals, Indexes
  <2> DEFINE S == {i \in Indexes(r) : ~Final(<<r, i>>)}
  <2>1. /\ left[r] >= Cardinality(S) /\ (exec[r] # "ended" => left[r] = Cardinality(S))
        /\ S \subseteq Indexes(r) /\ left[r] \in Int
    BY Zenon DEF JobsInv, Steady, Counted, Unfinished, Base, LoopTypeOK
  <2>2. IsFiniteSet(S) /\ Cardinality(S) \in Nat
    BY Zenon, <2>1, DeliveredFacts
  <2>3. Cardinality(S) = 0 <=> S = {}
    BY Zenon, <2>2, FS_EmptySet
  <2>4. S = {} <=> \A i \in Indexes(r) : Final(<<r, i>>)
    OBVIOUS
  <2> HIDE DEF S
  <2> QED BY SMTT(60), <2>1, <2>2, <2>3, <2>4
<1> QED BY <1>1, JobsInvariant, PTL
=============================================================================
