------------------------ MODULE ClientSessionProofs ------------------------
(***************************************************************************)
(* In the serial deployment of ClientSession (every connection from an     *)
(* agent process of its own, no deletion), for any number of connections,  *)
(* client ids and workers: the client of a live session is the one the     *)
(* repository finds, no two live sessions share a client id, StartClient's *)
(* lock is never left behind and a client shown as connected has a         *)
(* connection.  The strengthening is SessionInv.                           *)
(***************************************************************************)
EXTENDS ClientSessionStartProofs

\* A failing save of StartClient gives the lock back.
LEMMA StoreFailsStartingStep ==
    ASSUME SerialSessions, TypeOK, SessionInv, NEW p \in Procs, StoreFails(p), Starting(p)
    PROVE  TypeOK' /\ SessionInv'
<1>0. /\ PcOK /\ InboxOK /\ QueueOK /\ LockOwner /\ RegisterOK /\ StartOK
      /\ AloneOK /\ HoldOK /\ ServeOK /\ ObjectOK /\ MemOK
  BY Zenon DEF SessionInv
<1>d. deployment' = deployment /\ SessionOf' = SessionOf
  BY Zenon DEF StoreFails, SessionOf
<1>t. /\ \A n \in Ids : lock[n] \in Conns \cup {None} /\ mem[n] \in Objects \cup {None}
      /\ \A x \in Procs : tgt[x] \in Objects \cup {None}
      /\ \A o \in Objects : obj[o].conn \in Conns \cup {None}
  BY Zenon DEF TypeOK
<1>1. /\ pc[p] = "save"
      /\ UNCHANGED <<inbox, obj, store, mem>>
  BY Zenon, <1>0 DEF StoreFails, PcOK, repo
<1>2. p \in Conns /\ lock[IdOf[p]] = p /\ tgt[p] \in Objects /\ IdOfObject(tgt[p]) = IdOf[p]
  BY Zenon, <1>0, <1>t, <1>1 DEF StartOK, Starting
<1>3. /\ pc'[p] = "refused" /\ (\A y \in Procs : y # p => pc'[y] = pc[y])
      /\ lock'[IdOf[p]] = None /\ (\A y \in Ids : y # IdOf[p] => lock'[y] = lock[y])
      /\ tgt' = tgt
  BY ProcFacts DEF StoreFails, Unlock, Starting, TypeOK
<1>4. TypeOK'
  BY ZenonT(60), <1>d, <1>2 DEF StoreFails, Unlock, TypeOK, repo
<1>5. /\ InboxOK' /\ QueueOK'
  BY Zenon, <1>0, <1>1 DEF InboxOK, QueueOK
<1>6. /\ MemOK' /\ PcOK' /\ LockOwner'
  BY <1>0, <1>1, <1>2, <1>3, ProcFacts, <1>t DEF MemOK, IsConnected, PcOK, LockOwner
<1>7. /\ RegisterOK' /\ AloneOK' /\ StartOK' /\ HoldOK'
  BY ProcFacts, <1>0, <1>1, <1>3 DEF RegisterOK, Starting, AloneOK, Serving,
     StartOK, IsConnected, HoldOK, Holding
<1>8. ServeOK'
  BY ProcFacts, <1>0, <1>1, <1>3 DEF ServeOK, Serving, IsConnected
<1>9. ObjectOK'
  BY <1>d, ProcFacts, <1>0, <1>t, <1>1, <1>2, <1>3 DEF ObjectOK
<1> QED BY Zenon, <1>4, <1>5, <1>6, <1>7, <1>8, <1>9 DEF SessionInv

\* A failing save elsewhere changes nothing.
LEMMA StoreFailsHoldingStep ==
    ASSUME SerialSessions, TypeOK, SessionInv, NEW p \in Procs, StoreFails(p), ~Starting(p)
    PROVE  TypeOK' /\ SessionInv'
<1>0. /\ PcOK /\ InboxOK /\ QueueOK /\ LockOwner /\ RegisterOK /\ StartOK
      /\ AloneOK /\ HoldOK /\ ServeOK /\ ObjectOK /\ MemOK
  BY Zenon DEF SessionInv
<1>d. deployment' = deployment /\ SessionOf' = SessionOf
  BY Zenon DEF StoreFails, SessionOf
<1>t. /\ \A n \in Ids : lock[n] \in Conns \cup {None} /\ mem[n] \in Objects \cup {None}
      /\ \A x \in Procs : tgt[x] \in Objects \cup {None}
      /\ \A o \in Objects : obj[o].conn \in Conns \cup {None}
  BY Zenon DEF TypeOK
<1>1. /\ pc[p] = "save"
      /\ UNCHANGED <<inbox, obj, store, mem>>
  BY Zenon, <1>0 DEF StoreFails, PcOK, repo
<1>2. tgt[p] \in Objects /\ mem[IdOfObject(tgt[p])] = tgt[p]
  BY Zenon, <1>0, <1>t, <1>1 DEF HoldOK, Holding
<1>3. /\ pc' = [pc EXCEPT ![p] = IF p \in Conns THEN "done" ELSE "idle"]
      /\ tgt' = [tgt EXCEPT ![p] = None] /\ lock' = lock
  BY Zenon DEF StoreFails, Return
<1>4. /\ pc'[p] \in {"done", "idle"} /\ (pc'[p] = "done" <=> p \in Conns)
      /\ \A y \in Procs : y # p => pc'[y] = pc[y]
      /\ tgt'[p] = None /\ (\A y \in Procs : y # p => tgt'[y] = tgt[y])
      /\ lock' = lock
  BY Zenon, <1>3 DEF TypeOK
<1>5. TypeOK'
  BY Zenon, <1>d, <1>3 DEF StoreFails, TypeOK, repo
<1>6. /\ InboxOK' /\ QueueOK'
  BY Zenon, <1>0, <1>1 DEF InboxOK, QueueOK
<1>7. /\ PcOK' /\ MemOK' /\ ObjectOK'
  BY <1>d, <1>0, <1>3, <1>1 DEF PcOK, MemOK, IsConnected, ObjectOK
<1>8. /\ RegisterOK' /\ AloneOK' /\ LockOwner' /\ StartOK'
  BY <1>0, <1>1, <1>3, <1>t DEF RegisterOK, Starting, AloneOK, Serving, LockOwner,
     StartOK, IsConnected
<1>9. /\ ServeOK' /\ HoldOK'
  BY <1>0, <1>1, <1>3, <1>4 DEF ServeOK, Serving, IsConnected, HoldOK, Starting,
     Holding
<1> QED BY Zenon, <1>5, <1>6, <1>7, <1>8, <1>9 DEF SessionInv

\* The starting connection becomes the one that serves its client id.
LEMMA SaveMemStartingStep ==
    ASSUME SerialSessions, TypeOK, SessionInv, NEW p \in Procs, SaveMem(p), Starting(p)
    PROVE  TypeOK' /\ SessionInv'
<1>0. /\ PcOK /\ InboxOK /\ QueueOK /\ LockOwner /\ RegisterOK /\ StartOK
      /\ AloneOK /\ HoldOK /\ ServeOK /\ ObjectOK /\ MemOK
  BY Zenon DEF SessionInv
<1>d. deployment' = deployment /\ SessionOf' = SessionOf
  BY Zenon DEF SaveMem, SessionOf
<1>t. /\ \A n \in Ids : lock[n] \in Conns \cup {None} /\ mem[n] \in Objects \cup {None}
      /\ \A x \in Procs : tgt[x] \in Objects \cup {None}
      /\ \A o \in Objects : obj[o].conn \in Conns \cup {None}
  BY Zenon DEF TypeOK
<1>1. /\ pc[p] = "cache"
      /\ UNCHANGED <<inbox, obj, store>>
  BY Zenon DEF SaveMem
<1>2. p \in Conns /\ lock[IdOf[p]] = p /\ tgt[p] \in Objects /\ IdOfObject(tgt[p]) = IdOf[p]
  BY Zenon, <1>0, <1>t, <1>1 DEF StartOK, Starting
<1>3. /\ pc'[p] = "serving" /\ (\A y \in Procs : y # p => pc'[y] = pc[y])
      /\ lock'[IdOf[p]] = None /\ (\A y \in Ids : y # IdOf[p] => lock'[y] = lock[y])
      /\ tgt' = tgt
  BY ProcFacts DEF SaveMem, Return, Unlock, Starting, TypeOK
<1>4. TypeOK'
  BY <1>d, Zenon DEF SaveMem, Return, Unlock, TypeOK
<1>5. /\ mem'[IdOfObject(tgt[p])] = tgt[p]
      /\ \A i \in Ids : i # IdOfObject(tgt[p]) => mem'[i] = mem[i]
  BY ZenonT(60), ProcFacts, <1>2 DEF SaveMem, TypeOK
<1>6. \A x \in Conns : x # p /\ (Starting(x) \/ Serving(x)) => IdOf[x] # IdOf[p]
  BY Zenon, <1>0 DEF AloneOK, Starting
<1>7. \A x \in Procs : tgt[x] # None /\ Holding(x) /\ IdOfObject(tgt[x]) = IdOf[p] => tgt[x] = tgt[p]
  BY SMTT(60), <1>0, <1>1, <1>2 DEF HoldOK, StartOK
<1>8. /\ InboxOK' /\ PcOK' /\ LockOwner' /\ AloneOK'
      /\ ObjectOK'
  BY <1>d, <1>0, <1>1, <1>2, <1>3, ProcFacts, <1>t DEF InboxOK, PcOK, LockOwner,
     AloneOK, Starting, Serving, ObjectOK
<1>9. QueueOK'
  BY SMTT(60), ProcFacts, <1>0, <1>1, <1>5 DEF QueueOK, StartOK, Starting
<1>10. /\ RegisterOK' /\ StartOK'
  BY ProcFacts, <1>0, <1>2, <1>3, <1>5, <1>1 DEF RegisterOK, Starting, StartOK,
     IsConnected
<1>11. ServeOK'
  BY ProcFacts, <1>0, <1>1, <1>3, <1>5 DEF ServeOK, StartOK, Starting, Serving,
     IsConnected
<1>12. MemOK'
  BY ProcFacts, <1>0, <1>t, <1>1, <1>5 DEF MemOK, StartOK, ObjectOK, Starting,
     IsConnected
<1>13. HoldOK'
  BY ProcFacts, <1>0, <1>t, <1>2, <1>3, <1>5, <1>7 DEF HoldOK, Starting, Holding
<1> QED BY Zenon, <1>4, <1>8, <1>9, <1>10, <1>11, <1>12, <1>13 DEF SessionInv

\* Every other save writes back the object already in the map.
LEMMA SaveMemHoldingStep ==
    ASSUME SerialSessions, TypeOK, SessionInv, NEW p \in Procs, SaveMem(p), ~Starting(p)
    PROVE  TypeOK' /\ SessionInv'
<1>0. /\ PcOK /\ InboxOK /\ QueueOK /\ LockOwner /\ RegisterOK /\ StartOK
      /\ AloneOK /\ HoldOK /\ ServeOK /\ ObjectOK /\ MemOK
  BY Zenon DEF SessionInv
<1>d. deployment' = deployment /\ SessionOf' = SessionOf
  BY Zenon DEF SaveMem, SessionOf
<1>t. /\ \A n \in Ids : lock[n] \in Conns \cup {None} /\ mem[n] \in Objects \cup {None}
      /\ \A x \in Procs : tgt[x] \in Objects \cup {None}
      /\ \A o \in Objects : obj[o].conn \in Conns \cup {None}
  BY Zenon DEF TypeOK
<1>1. /\ pc[p] = "cache"
      /\ UNCHANGED <<inbox, obj, store>>
  BY Zenon DEF SaveMem
<1>2. tgt[p] \in Objects /\ mem[IdOfObject(tgt[p])] = tgt[p]
  BY Zenon, <1>0, <1>t, <1>1 DEF HoldOK, Holding
<1>3. /\ pc' = [pc EXCEPT ![p] = IF p \in Conns THEN "done" ELSE "idle"]
      /\ tgt' = [tgt EXCEPT ![p] = None] /\ lock' = lock
  BY Zenon DEF SaveMem, Return
<1>4. /\ pc'[p] \in {"done", "idle"} /\ (pc'[p] = "done" <=> p \in Conns)
      /\ \A y \in Procs : y # p => pc'[y] = pc[y]
      /\ tgt'[p] = None /\ (\A y \in Procs : y # p => tgt'[y] = tgt[y])
      /\ lock' = lock /\ mem' = mem
  BY ZenonT(60), <1>2, <1>3 DEF SaveMem, TypeOK
<1>5. TypeOK'
  BY Zenon, <1>d, <1>3 DEF SaveMem, TypeOK
<1>6. /\ InboxOK' /\ PcOK' /\ ObjectOK'
  BY <1>d, <1>0, <1>1, <1>3 DEF InboxOK, PcOK, ObjectOK
<1>7. /\ QueueOK' /\ MemOK'
  BY Zenon, <1>0, <1>1, <1>4 DEF QueueOK, MemOK, IsConnected
<1>8. /\ AloneOK' /\ HoldOK' /\ LockOwner' /\ RegisterOK'
  BY <1>0, <1>3, <1>4, <1>t, ProcFacts DEF AloneOK, Starting, Serving, HoldOK,
     Holding, LockOwner, RegisterOK
<1>9. StartOK'
  BY ProcFacts, <1>0, <1>1, <1>4 DEF StartOK, Starting, IsConnected
<1>10. ServeOK'
  BY ProcFacts, <1>0, <1>1, <1>4 DEF ServeOK, Serving, IsConnected
<1> QED BY Zenon, <1>5, <1>6, <1>7, <1>8, <1>9, <1>10 DEF SessionInv

\* The connection that is torn down is still its client's.
LEMMA WaitReturnsStep ==
    ASSUME SerialSessions, TypeOK, SessionInv, NEW k \in Conns, WaitReturns(k)
    PROVE  TypeOK' /\ SessionInv'
<1>0. /\ PcOK /\ InboxOK /\ QueueOK /\ LockOwner /\ RegisterOK /\ StartOK
      /\ AloneOK /\ HoldOK /\ ServeOK /\ ObjectOK /\ MemOK
  BY Zenon DEF SessionInv
<1>d. deployment' = deployment /\ SessionOf' = SessionOf
  BY Zenon DEF WaitReturns, SessionOf
<1>t. /\ \A n \in Ids : lock[n] \in Conns \cup {None} /\ mem[n] \in Objects \cup {None}
      /\ \A x \in Procs : tgt[x] \in Objects \cup {None}
      /\ \A o \in Objects : obj[o].conn \in Conns \cup {None}
  BY Zenon DEF TypeOK
<1>1. TypeOK'
  BY <1>d, Zenon DEF WaitReturns, TypeOK, repo
<1>2. /\ pc[k] = "serving"
      /\ UNCHANGED <<inbox, tgt, lock, obj, mem, store>>
  BY Zenon DEF WaitReturns, repo
<1>3. obj[tgt[k]].conn = k
  BY Zenon, <1>0, <1>2 DEF ServeOK, Serving
<1>4. pc'[k] = "terminate" /\ (\A y \in Procs : y # k => pc'[y] = pc[y])
  BY Zenon, ProcFacts, <1>3 DEF WaitReturns, TypeOK
<1>5. ~Starting(k)
  BY Zenon, <1>0, <1>2 DEF AloneOK, Serving
<1>6. /\ InboxOK' /\ QueueOK' /\ PcOK' /\ MemOK'
      /\ RegisterOK'
  BY Zenon, <1>0, <1>2, <1>4, ProcFacts DEF InboxOK, QueueOK, PcOK, MemOK, IsConnected,
     RegisterOK, Starting
<1>7. /\ LockOwner' /\ ObjectOK'
  BY <1>d, ProcFacts, <1>0, <1>t, <1>2, <1>4 DEF LockOwner, ObjectOK
<1>8. StartOK'
  BY ProcFacts, <1>0, <1>2, <1>4 DEF StartOK, Starting, IsConnected
<1>9. /\ AloneOK' /\ ServeOK' /\ HoldOK'
  BY ProcFacts, <1>0, <1>2, <1>4 DEF AloneOK, Starting, Serving, ServeOK,
     IsConnected, HoldOK, MemOK, Holding
<1> QED BY Zenon, <1>1, <1>6, <1>7, <1>8, <1>9 DEF SessionInv

\* Only the client's own connection marks it disconnected.
LEMMA TerminateStep ==
    ASSUME SerialSessions, TypeOK, SessionInv, NEW p \in Procs, Terminate(p)
    PROVE  TypeOK' /\ SessionInv'
<1>0. /\ PcOK /\ InboxOK /\ QueueOK /\ LockOwner /\ RegisterOK /\ StartOK
      /\ AloneOK /\ HoldOK /\ ServeOK /\ ObjectOK /\ MemOK
  BY Zenon DEF SessionInv
<1>d. deployment' = deployment /\ SessionOf' = SessionOf
  BY Zenon DEF Terminate, SessionOf
<1>t. /\ \A n \in Ids : lock[n] \in Conns \cup {None} /\ mem[n] \in Objects \cup {None}
      /\ \A x \in Procs : tgt[x] \in Objects \cup {None}
      /\ \A o \in Objects : obj[o].conn \in Conns \cup {None}
  BY Zenon DEF TypeOK
<1>1. pc[p] = "terminate" /\ p \in Conns
  BY Zenon, <1>0 DEF Terminate, PcOK
<1>2. tgt[p] \in Objects /\ obj[tgt[p]].conn = p /\ mem[IdOf[p]] = tgt[p] /\ ~Starting(p)
  BY Zenon, <1>0, <1>t, <1>1 DEF ServeOK, Serving, AloneOK
<1>3. Keep # 0 /\ clock # None /\ clock \in 0..MaxClock
  BY ConstantsAssumption DEF SerialSessions, TypeOK
<1>4. obj' = [obj EXCEPT ![tgt[p]].at = clock]
  BY Zenon, <1>3 DEF Terminate, SetDisconnectedAt
<1>5. /\ \A x \in Objects : obj'[x].conn = obj[x].conn /\ obj'[x].session = obj[x].session
                                /\ obj'[x].auth = obj[x].auth
      /\ \A x \in Objects : x # tgt[p] => obj'[x].at = obj[x].at
      /\ obj'[tgt[p]].at = clock
  BY <1>2, <1>4 DEF TypeOK
<1>6. obj' \in [Objects -> [at : 0..MaxClock \cup {None}, conn : Conns \cup {None},
                           session : Sessions \cup {None}, auth : Auths \cup {None}]]
  BY Zenon, <1>2, <1>4, AtTyped DEF TypeOK
<1>7. TypeOK'
  BY Zenon, <1>d, <1>3, <1>6 DEF Terminate, TypeOK, repo
<1>8. /\ pc'[p] = "exists" /\ (\A y \in Procs : y # p => pc'[y] = pc[y])
      /\ UNCHANGED <<inbox, tgt, lock, mem, store>>
  BY Zenon, <1>3 DEF Terminate, TypeOK, repo
<1>9. \A x \in Conns : x # p /\ Serving(x) => tgt[x] # tgt[p]
  BY ZenonT(60), <1>0, <1>2 DEF ServeOK
<1>10. \A x \in Conns : Starting(x) /\ pc[x] \in {"save", "cache"} => tgt[x] # tgt[p]
  BY <1>0, <1>2 DEF StartOK
<1>11. mem[IdOfObject(tgt[p])] = tgt[p]
  BY Zenon, ProcFacts, <1>0, <1>1, <1>2 DEF MemOK
<1>12. /\ InboxOK' /\ PcOK' /\ QueueOK' /\ HoldOK'
       /\ AloneOK'
  BY <1>0, <1>8, <1>1, <1>4, ProcFacts DEF InboxOK, PcOK, QueueOK, HoldOK,
     Starting, Holding, AloneOK, Serving
<1>13. LockOwner'
  BY ZenonT(60), ProcFacts, <1>0, <1>t, <1>1, <1>8, <1>10 DEF LockOwner
<1>14. ObjectOK'
  BY <1>d, ProcFacts, <1>0, <1>t, <1>4, <1>8, <1>9 DEF ObjectOK
<1>15. MemOK'
  BY ProcFacts, <1>0, <1>1, <1>2, <1>4, <1>8 DEF MemOK, IsConnected
<1>16. ServeOK'
  BY ProcFacts, <1>0, <1>1, <1>4, <1>8 DEF ServeOK, Serving, IsConnected
<1>17. StartOK'
  BY ProcFacts, <1>0, <1>2, <1>4, <1>8 DEF StartOK, Starting, IsConnected
<1>18. RegisterOK'
  BY Zenon, ProcFacts, <1>0, <1>3, <1>6, <1>8, <1>9, <1>11 DEF RegisterOK, Starting
<1> QED BY Zenon, <1>7, <1>12, <1>13, <1>14, <1>15, <1>16, <1>17, <1>18 DEF SessionInv

\* Without deletions the client is still there.
LEMMA CheckExistsStep ==
    ASSUME SerialSessions, TypeOK, SessionInv, NEW p \in Procs, CheckExists(p)
    PROVE  TypeOK' /\ SessionInv'
<1>0. /\ PcOK /\ InboxOK /\ QueueOK /\ LockOwner /\ RegisterOK /\ StartOK
      /\ AloneOK /\ HoldOK /\ ServeOK /\ ObjectOK /\ MemOK
  BY Zenon DEF SessionInv
<1>d. deployment' = deployment /\ SessionOf' = SessionOf
  BY Zenon DEF CheckExists, SessionOf
<1>t. /\ \A n \in Ids : lock[n] \in Conns \cup {None} /\ mem[n] \in Objects \cup {None}
      /\ \A x \in Procs : tgt[x] \in Objects \cup {None}
      /\ \A o \in Objects : obj[o].conn \in Conns \cup {None}
  BY Zenon DEF TypeOK
<1>1. pc[p] = "exists" /\ p \in Conns
  BY ZenonT(60), <1>0 DEF CheckExists, PcOK
<1>2. ~Starting(p)
  BY ProcFacts, <1>0, <1>1 DEF LockOwner, Starting
<1>3. tgt[p] \in Objects /\ mem[IdOfObject(tgt[p])] = tgt[p]
  BY Zenon, <1>0, <1>t, <1>1, <1>2 DEF HoldOK, Holding
<1>4. pc' = [pc EXCEPT ![p] = "save"] /\ UNCHANGED <<tgt, lock>>
  BY Zenon, ProcFacts, <1>3, FoundIsCached DEF CheckExists
<1>5. TypeOK'
  BY Zenon, <1>d, <1>4 DEF CheckExists, TypeOK, repo
<1>6. /\ pc'[p] = "save" /\ (\A y \in Procs : y # p => pc'[y] = pc[y])
      /\ UNCHANGED <<inbox, tgt, lock, obj, mem, store>>
  BY Zenon, <1>4 DEF CheckExists, TypeOK, repo
<1>7. /\ PcOK' /\ InboxOK' /\ QueueOK' /\ MemOK'
      /\ RegisterOK'
  BY ZenonT(60), <1>0, <1>6, ProcFacts DEF PcOK, InboxOK, QueueOK, MemOK, IsConnected,
     RegisterOK, Starting
<1>8. /\ LockOwner' /\ ObjectOK' /\ HoldOK' /\ AloneOK'
  BY ZenonT(60), <1>d, ProcFacts, <1>0, <1>t, <1>6, <1>1 DEF LockOwner, ObjectOK, HoldOK, Starting,
     Holding, AloneOK, Serving
<1>9. /\ ServeOK' /\ StartOK'
  BY ProcFacts, <1>0, <1>6, <1>2 DEF ServeOK, Serving, IsConnected, StartOK,
     Starting
<1> QED BY Zenon, <1>5, <1>7, <1>8, <1>9 DEF SessionInv

\* A ping marks the object in the map connected, which has had a connection.
LEMMA HandlePingStep ==
    ASSUME SerialSessions, TypeOK, SessionInv, NEW k \in Conns, HandlePing(k)
    PROVE  TypeOK' /\ SessionInv'
<1>0. /\ PcOK /\ InboxOK /\ QueueOK /\ LockOwner /\ RegisterOK /\ StartOK
      /\ AloneOK /\ HoldOK /\ ServeOK /\ ObjectOK /\ MemOK
  BY Zenon DEF SessionInv
<1>d. deployment' = deployment /\ SessionOf' = SessionOf
  BY Zenon DEF HandlePing, SessionOf
<1>t. /\ \A n \in Ids : lock[n] \in Conns \cup {None} /\ mem[n] \in Objects \cup {None}
      /\ \A x \in Procs : tgt[x] \in Objects \cup {None}
      /\ \A o \in Objects : obj[o].conn \in Conns \cup {None}
  BY Zenon DEF TypeOK
<1>1. inbox[k] # <<>> /\ UNCHANGED <<pc, tgt, lock, mem, store>>
  BY Zenon DEF HandlePing, Receive, repo
<1>2. inbox' = [inbox EXCEPT ![k] = Tail(inbox[k])]
  BY Zenon DEF HandlePing, Receive
<1>3. \A S : inbox[k] \in Seq(S) => Tail(inbox[k]) \in Seq(S)
  BY <1>1
<1>4. inbox'[k] = Tail(inbox[k]) /\ (\A y \in Conns : y # k => inbox'[y] = inbox[y])
  BY Zenon, <1>2 DEF TypeOK
<1>5. inbox' \in [Conns -> Seq(Requests)]
  BY Zenon, <1>2, <1>3 DEF TypeOK
<1>6. mem[IdOf[k]] \in Objects /\ obj[mem[IdOf[k]]].conn # None
  BY Zenon, ProcFacts, <1>0, <1>t, <1>1 DEF QueueOK
<1>7. obj' = [obj EXCEPT ![mem[IdOf[k]]].at = None]
  BY Zenon, ProcFacts, <1>6, FoundIsCached DEF HandlePing, SetDisconnectedAt
<1>8. obj' \in [Objects -> [at : 0..MaxClock \cup {None}, conn : Conns \cup {None},
                           session : Sessions \cup {None}, auth : Auths \cup {None}]]
  BY Zenon, <1>6, <1>7, AtTyped DEF TypeOK
<1>9. TypeOK'
  BY ZenonT(60), <1>d, <1>5, <1>8 DEF HandlePing, TypeOK, repo
<1>10. /\ \A x \in Objects : obj'[x].conn = obj[x].conn /\ obj'[x].session = obj[x].session
                                 /\ obj'[x].auth = obj[x].auth
       /\ \A x \in Objects : x # mem[IdOf[k]] => obj'[x].at = obj[x].at
       /\ obj'[mem[IdOf[k]]].at = None
  BY <1>6, <1>7 DEF TypeOK
<1>11. /\ PcOK' /\ LockOwner' /\ RegisterOK' /\ InboxOK'
       /\ AloneOK'
  BY <1>0, <1>1, <1>2 DEF PcOK, LockOwner, RegisterOK, Starting, InboxOK, AloneOK,
     Serving
<1>12. /\ HoldOK' /\ QueueOK'
  BY <1>0, <1>1, <1>2, <1>7 DEF HoldOK, Starting, Holding, QueueOK
<1>13. MemOK'
  BY ZenonT(60), <1>0, <1>t, <1>1, <1>6, <1>10 DEF MemOK, IsConnected
<1>14. StartOK'
  BY ZenonT(60), ProcFacts, <1>0, <1>t, <1>1, <1>10 DEF StartOK, Starting, IsConnected
<1>15. ServeOK'
  BY ZenonT(60), ProcFacts, <1>0, <1>t, <1>1, <1>10 DEF ServeOK, Serving, IsConnected
<1>16. ObjectOK'
  BY <1>d, <1>0, <1>1, <1>10 DEF ObjectOK
<1> QED BY Zenon, <1>9, <1>11, <1>12, <1>13, <1>14, <1>15, <1>16 DEF SessionInv

\* A report holds the object in the map.
LEMMA HandleUpdateStep ==
    ASSUME SerialSessions, TypeOK, SessionInv, NEW k \in Conns, HandleUpdate(k)
    PROVE  TypeOK' /\ SessionInv'
<1>0. /\ PcOK /\ InboxOK /\ QueueOK /\ LockOwner /\ RegisterOK /\ StartOK
      /\ AloneOK /\ HoldOK /\ ServeOK /\ ObjectOK /\ MemOK
  BY Zenon DEF SessionInv
<1>d. deployment' = deployment /\ SessionOf' = SessionOf
  BY Zenon DEF HandleUpdate, SessionOf
<1>t. /\ \A n \in Ids : lock[n] \in Conns \cup {None} /\ mem[n] \in Objects \cup {None}
      /\ \A x \in Procs : tgt[x] \in Objects \cup {None}
      /\ \A o \in Objects : obj[o].conn \in Conns \cup {None}
  BY Zenon DEF TypeOK
<1>1. inbox[k] # <<>> /\ UNCHANGED <<lock, obj, mem, store>>
  BY Zenon DEF HandleUpdate, Receive, repo
<1>2. inbox' = [inbox EXCEPT ![k] = Tail(inbox[k])]
  BY Zenon DEF HandleUpdate, Receive
<1>3. \A S : inbox[k] \in Seq(S) => Tail(inbox[k]) \in Seq(S)
  BY <1>1
<1>4. inbox'[k] = Tail(inbox[k]) /\ (\A y \in Conns : y # k => inbox'[y] = inbox[y])
  BY Zenon, <1>2 DEF TypeOK
<1>5. inbox' \in [Conns -> Seq(Requests)]
  BY Zenon, <1>2, <1>3 DEF TypeOK
<1>6. mem[IdOf[k]] \in Objects
  BY ZenonT(60), ProcFacts, <1>0, <1>t, <1>1 DEF QueueOK
<1>7. /\ pc'[Req(k)] = "save" /\ (\A y \in Procs : y # Req(k) => pc'[y] = pc[y])
      /\ tgt'[Req(k)] = mem[IdOf[k]] /\ (\A y \in Procs : y # Req(k) => tgt'[y] = tgt[y])
  BY ProcFacts, <1>6, FoundIsCached DEF HandleUpdate, TypeOK
<1>8. TypeOK'
  BY ZenonT(60), <1>d, ProcFacts, <1>5, FoundIsCached DEF HandleUpdate, TypeOK, repo
<1>9a. PcOK' /\ MemOK' /\ RegisterOK'
  BY <1>0, <1>7, <1>1, ProcFacts DEF PcOK, MemOK, IsConnected, RegisterOK, Starting
<1>9b. InboxOK' /\ QueueOK'
  BY <1>0, <1>7, <1>1, <1>2, <1>4, ProcFacts DEF InboxOK, QueueOK
<1>9. /\ PcOK' /\ MemOK' /\ InboxOK' /\ QueueOK'
      /\ RegisterOK'
  BY Zenon, <1>9a, <1>9b
<1>10. /\ LockOwner' /\ ObjectOK'
  BY ZenonT(60), <1>d, ProcFacts, <1>0, <1>t, <1>1, <1>7 DEF LockOwner, ObjectOK
<1>11. /\ StartOK' /\ AloneOK' /\ ServeOK' /\ HoldOK'
  BY ProcFacts, <1>0, <1>1, <1>7, <1>6 DEF StartOK, Starting, IsConnected,
     AloneOK, Serving, ServeOK, HoldOK, MemOK, Holding
<1> QED BY Zenon, <1>8, <1>9, <1>10, <1>11 DEF SessionInv

\* The API holds the object in the map.
LEMMA SetACLStep ==
    ASSUME SerialSessions, TypeOK, SessionInv, NEW w \in Workers, NEW i \in Ids, SetACL(w, i)
    PROVE  TypeOK' /\ SessionInv'
<1>0. /\ PcOK /\ InboxOK /\ QueueOK /\ LockOwner /\ RegisterOK /\ StartOK
      /\ AloneOK /\ HoldOK /\ ServeOK /\ ObjectOK /\ MemOK
  BY Zenon DEF SessionInv
<1>d. deployment' = deployment /\ SessionOf' = SessionOf
  BY Zenon DEF SetACL, SessionOf
<1>t. /\ \A n \in Ids : lock[n] \in Conns \cup {None} /\ mem[n] \in Objects \cup {None}
      /\ \A x \in Procs : tgt[x] \in Objects \cup {None}
      /\ \A o \in Objects : obj[o].conn \in Conns \cup {None}
  BY Zenon DEF TypeOK
<1>1. /\ mem[i] \in Objects
      /\ pc'[w] = "save" /\ (\A y \in Procs : y # w => pc'[y] = pc[y])
      /\ tgt'[w] = mem[i] /\ (\A y \in Procs : y # w => tgt'[y] = tgt[y])
      /\ UNCHANGED <<inbox, lock, obj, mem, store>>
  BY ZenonT(60), ProcFacts, FoundIsCached DEF SetACL, Hold, TypeOK, repo
<1>2. TypeOK'
  BY ZenonT(60), <1>d, <1>1 DEF SetACL, Hold, TypeOK
<1>3. /\ PcOK' /\ InboxOK' /\ QueueOK' /\ MemOK'
      /\ RegisterOK'
  BY ZenonT(60), <1>0, <1>1, ProcFacts DEF PcOK, InboxOK, QueueOK, MemOK, IsConnected,
     RegisterOK, Starting
<1>4. /\ LockOwner' /\ ObjectOK'
  BY SMTT(60), <1>d, ProcFacts, <1>0, <1>t, <1>1 DEF LockOwner, ObjectOK
<1>5. StartOK'
  BY ZenonT(60), ProcFacts, <1>0, <1>1 DEF StartOK, Starting, IsConnected
<1>6. /\ AloneOK' /\ ServeOK' /\ HoldOK'
  BY ProcFacts, <1>0, <1>1 DEF AloneOK, Starting, Serving, ServeOK, IsConnected,
     HoldOK, MemOK, Holding
<1> QED BY Zenon, <1>2, <1>3, <1>4, <1>5, <1>6 DEF SessionInv

\* Time changes nothing the invariant speaks of.
LEMMA TickStep ==
    ASSUME SerialSessions, TypeOK, SessionInv, Tick
    PROVE  TypeOK' /\ SessionInv'
<1>0. /\ PcOK /\ InboxOK /\ QueueOK /\ LockOwner /\ RegisterOK /\ StartOK
      /\ AloneOK /\ HoldOK /\ ServeOK /\ ObjectOK /\ MemOK
  BY Zenon DEF SessionInv
<1>d. deployment' = deployment /\ SessionOf' = SessionOf
  BY ZenonT(60) DEF Tick, SessionOf
<1>1. TypeOK'
  BY <1>d, ConstantsAssumption DEF Tick, TypeOK, repo
<1>2. UNCHANGED <<pc, inbox, tgt, lock, obj, mem, store>>
  BY Zenon DEF Tick, repo
<1>3. /\ PcOK' /\ InboxOK' /\ QueueOK' /\ LockOwner'
      /\ ObjectOK'
  BY ZenonT(60), <1>d, <1>0, <1>2 DEF PcOK, InboxOK, QueueOK, LockOwner, ObjectOK
<1>4. /\ RegisterOK' /\ MemOK' /\ StartOK' /\ AloneOK'
      /\ HoldOK' /\ ServeOK'
  BY <1>0, <1>2 DEF RegisterOK, Starting, MemOK, IsConnected, StartOK, AloneOK,
     Serving, HoldOK, Holding, ServeOK
<1> QED BY Zenon, <1>1, <1>3, <1>4 DEF SessionInv

\* After a restart every object comes from the table and is disconnected.
LEMMA CrashStep ==
    ASSUME SerialSessions, TypeOK, SessionInv, Crash
    PROVE  TypeOK' /\ SessionInv'
<1>0. /\ PcOK /\ InboxOK /\ QueueOK /\ LockOwner /\ RegisterOK /\ StartOK
      /\ AloneOK /\ HoldOK /\ ServeOK /\ ObjectOK /\ MemOK
  BY Zenon DEF SessionInv
<1>d. deployment' = deployment /\ SessionOf' = SessionOf
  BY Zenon DEF Crash, SessionOf
<1>1. \A i \in Ids : store[i] # None => store[i] \in [at : 0..MaxClock \cup {None}, auth : Auths]
  BY Zenon DEF TypeOK
<1>2. \A i \in Ids : store[i] # None =>
        Stamp(store[i]) \in [at : 0..MaxClock, auth : Auths]
  BY Zenon, Stamped DEF TypeOK
<1>3. \A i \in Ids : Loaded(store[i]) <=> store[i] # None
  BY Zenon DEF Loaded, Expired, SerialSessions
<1>4. obj' = [o \in Objects |-> IF o \in Ids /\ store[o] # None
                               THEN Object(Stamp(store[o]).at, None, None, store[o].auth)
                               ELSE NoObject]
  BY Zenon, <1>3 DEF Crash, LoadInitialClients
<1>5. store' \in [Ids -> {None} \cup [at : 0..MaxClock \cup {None}, auth : Auths]]
  BY Zenon, <1>2, <1>3 DEF Crash, LoadInitialClients
<1>6. \A o \in Objects : obj'[o].conn = None /\ obj'[o].session = None
  BY ZenonT(60), <1>4 DEF Object, NoObject
<1>7. \A i \in Ids : store[i] # None =>
        obj'[i].auth # None /\ obj'[i].at # None
  BY ProcFacts, <1>1, <1>2, <1>4, ConstantsAssumption DEF Object
<1>8. obj' \in [Objects -> [at : 0..MaxClock \cup {None}, conn : Conns \cup {None},
                           session : Sessions \cup {None}, auth : Auths \cup {None}]]
  BY <1>1, <1>2, <1>4, ConstantsAssumption DEF Object, NoObject
<1>9. \A i \in Ids : mem'[i] # None => mem'[i] = i /\ store[i] # None
  BY Zenon, <1>3 DEF Crash, LoadInitialClients
<1>10. /\ \A i \in Ids : lock'[i] = None
       /\ \A k \in Conns : inbox'[k] = <<>> /\ pc'[k] \in {"new", "done"}
       /\ \A x \in Procs : tgt'[x] = None /\ (x \notin Conns => pc'[x] = "idle")
  BY ZenonT(60), ProcFacts DEF Crash
<1>11. TypeOK'
  BY <1>d, ProcFacts, <1>5, <1>8 DEF Crash, LoadInitialClients, TypeOK
<1>12. /\ InboxOK' /\ PcOK' /\ QueueOK' /\ LockOwner'
       /\ RegisterOK'
  BY SMTT(60), <1>10 DEF Crash, InboxOK, PcOK, QueueOK, LockOwner, RegisterOK
<1>13. /\ StartOK' /\ ObjectOK' /\ AloneOK' /\ HoldOK'
       /\ ServeOK' /\ MemOK'
  BY ZenonT(60), <1>10, <1>6, <1>7, <1>9, ConstantsAssumption DEF StartOK, ObjectOK, AloneOK,
     Serving, HoldOK, Holding, ServeOK, MemOK, IsConnected, IdOfObject
<1> QED BY Zenon, <1>11, <1>12, <1>13 DEF SessionInv

\* The other operations do not happen in this deployment.
LEMMA NotSerial ==
    ASSUME SerialSessions, TypeOK, SessionInv
    PROVE  /\ \A k \in Conns : ~HandleNewConnection(k)
           /\ \A p \in Procs : ~Delete(p)
           /\ \A w \in Workers : ~Check(w) /\ ~Purge(w)
           /\ \A w \in Workers, o \in Objects : ~GetDueClient(w, o) /\ ~ForceDelete(w, o)
           /\ \A w \in Workers, i \in Ids : ~DeleteOffline(w, i)
<1> USE ProcFacts
<1>1. \A k \in Conns : inbox[k] # <<>> => Head(inbox[k]) \in {"ping", "update"}
  BY DEF SessionInv, InboxOK
<1>2. \A p \in Procs : pc[p] \notin {"delete", "remove", "due", "pinging", "alive", "closing",
                                     "query", "purge"}
  BY Zenon DEF SessionInv, PcOK
<1>3. \A k \in Conns : ~HandleNewConnection(k)
  BY Zenon, <1>1 DEF HandleNewConnection, Receive
<1>4. \A p \in Procs : ~Delete(p)
  BY Zenon, <1>2 DEF Delete, DeleteStore, RemoveMem
<1>5. \A w \in Workers : ~Check(w)
  BY Zenon, <1>2 DEF Check, Ping, PingAnswered, MarkAlive, PingFails, CloseUnresponsive
<1>6. \A w \in Workers : ~Purge(w)
  BY Zenon, <1>2 DEF Purge, PurgeStore, PurgeQuery, PurgeDone, PurgeRemove, SerialSessions
<1>7. \A w \in Workers, o \in Objects : ~GetDueClient(w, o) /\ ~ForceDelete(w, o)
  BY Zenon DEF GetDueClient, ForceDelete, SerialSessions
<1>8. \A w \in Workers, i \in Ids : ~DeleteOffline(w, i)
  BY Zenon DEF DeleteOffline, SerialSessions
<1> QED BY Zenon, <1>3, <1>4, <1>5, <1>6, <1>7, <1>8

\* Every step of the serial deployment keeps the invariant.
LEMMA SerialStep ==
    ASSUME SerialSessions, TypeOK, SessionInv, [Next]_vars
    PROVE  TypeOK' /\ SessionInv'
<1>1. ASSUME NEW k \in Conns, Network(k)
      PROVE  TypeOK' /\ SessionInv'
  BY Zenon, <1>1, ConnectStep, LinkDownStep, SendStep DEF Network
<1>2. ASSUME NEW k \in Conns, StartClient(k)
      PROVE  TypeOK' /\ SessionInv'
  BY Zenon, <1>2, RefuseStep, LookupStep, GiveUpStep, RegisterStep, OpenFailsStep DEF StartClient
<1>3. ASSUME NEW k \in Conns, Serve(k)
      PROVE  TypeOK' /\ SessionInv'
  BY Zenon, <1>3, WaitReturnsStep, HandlePingStep, HandleUpdateStep, NotSerial DEF Serve
<1>4. ASSUME NEW p \in Procs, Save(p) \/ Delete(p) \/ Terminate(p) \/ CheckExists(p)
      PROVE  TypeOK' /\ SessionInv'
  <2>1. CASE SaveStore(p)
    BY Zenon, <2>1, SaveStoreStartingStep, SaveStoreHoldingStep
  <2>2. CASE StoreFails(p)
    BY Zenon, <2>2, StoreFailsStartingStep, StoreFailsHoldingStep
  <2>3. CASE SaveMem(p)
    BY Zenon, <2>3, SaveMemStartingStep, SaveMemHoldingStep
  <2> QED BY Zenon, <1>4, <2>1, <2>2, <2>3, TerminateStep, CheckExistsStep, NotSerial DEF Save
<1>5. ASSUME NEW w \in Workers, Check(w) \/ API(w) \/ Purge(w)
      PROVE  TypeOK' /\ SessionInv'
  BY Zenon, <1>5, SetACLStep, NotSerial DEF API
<1>6. CASE Tick \/ Crash
  BY Zenon, <1>6, TickStep, CrashStep
<1>7. CASE UNCHANGED vars
  <2>1. TypeOK'
    BY ZenonT(60), <1>7 DEF vars, TypeOK
  <2>2. /\ PcOK' /\ InboxOK' /\ QueueOK' /\ LockOwner' /\ RegisterOK' /\ StartOK'
        /\ AloneOK' /\ HoldOK'
    BY ZenonT(60), <1>7 DEF vars, SessionInv, PcOK, InboxOK, QueueOK, LockOwner, RegisterOK, StartOK,
                AloneOK, HoldOK, Starting, Serving, Holding, IsConnected
  <2>3. ServeOK' /\ ObjectOK' /\ MemOK'
    BY Zenon, <1>7 DEF vars, SessionInv, ServeOK, ObjectOK, MemOK, Serving, IsConnected, SessionOf
  <2> QED BY Zenon, <2>1, <2>2, <2>3 DEF SessionInv
<1> QED BY Zenon, <1>1, <1>2, <1>3, <1>4, <1>5, <1>6, <1>7, NotSerial DEF Next

\* No step changes the deployment.
LEMMA SameDeployment ==
    ASSUME [Next]_vars
    PROVE  deployment' = deployment
BY ZenonT(60) DEF Next, vars, Network, StartClient, Serve, Save, Delete, Check, API, Purge,
   Connect, AgentLeaves, ServerNotices, Send, Tick, Crash, Refuse, Lookup, FilterFails,
   RefuseAuth, Register, OpenFails, SaveStore, StoreFails, SaveMem, DeleteStore, RemoveMem,
   Terminate, CheckExists, WaitReturns, HandlePing, HandleNewConnection, HandleUpdate,
   GetDueClient, Ping, PingAnswered, MarkAlive, PingFails, CloseUnresponsive,
   ForceDelete, DeleteOffline, SetACL, PurgeStore, PurgeQuery, PurgeDone, PurgeRemove

\* The types and the session invariant hold in every behaviour of a serial
\* deployment: of StartClient under startLocks, handleWebsocket's teardown, the
\* request handlers, SetACL, failing saves and restarts.
LEMMA SerialBehaviours == Spec => [](SerialSessions => TypeOK /\ SessionInv)
<1>1. (SerialSessions => TypeOK /\ SessionInv) /\ [Next]_vars
        => (SerialSessions => TypeOK /\ SessionInv)'
  <2>1. [Next]_vars => (SerialSessions' <=> SerialSessions)
    BY Zenon, SameDeployment DEF SerialSessions, SameProcess, SessionOf, Keep, Ops
  <2> QED BY Zenon, <2>1, SerialStep
<1> QED BY InitInv, <1>1, PTL DEF Spec

\* The session invariant holds in every behaviour of every serial deployment.
THEOREM SerialInvariant == Spec => []SerialInv
<1>1. (SerialSessions => TypeOK /\ SessionInv) => SerialInv
  BY Zenon DEF SerialInv
<1> QED BY SerialBehaviours, <1>1, PTL

\* The client of a live session is the one the repository finds under its id, with
\* its own connection and shown as connected, and it is in the table with its own
\* credential: StartClient, the teardown and the saves of other goroutines never
\* undo one another when each agent process connects once.
THEOREM LiveIsCurrentAlways == Spec => []LiveIsCurrent
<1>1. (SerialSessions => TypeOK /\ SessionInv) => LiveIsCurrent
  BY ZenonT(60), ProcFacts DEF SessionInv, ServeOK, Serving, LiveIsCurrent, Live
<1> QED BY SerialBehaviours, <1>1, PTL

\* startLocks together with the already-connected check lets at most one live
\* connection serve a client id, where disconnected clients are kept and nothing
\* deletes them.
THEOREM OneLiveSessionAlways == Spec => [](Keep = None => OneLiveSession)
<1>1. (SerialSessions => TypeOK /\ SessionInv) => (Keep = None => OneLiveSession)
  <2>1. SUFFICES ASSUME SerialSessions, SessionInv
                 PROVE  \A j, k \in Conns : Live(j) /\ Live(k) /\ IdOf[j] = IdOf[k] => j = k
    BY Zenon DEF OneLiveSession, SerialSessions
  <2> QED BY <2>1, ProcFacts DEF SessionInv, ServeOK, Serving, Live
<1> QED BY SerialBehaviours, <1>1, PTL

\* A client shown as connected has a connection to close, also after a restart:
\* what Client.Close relies on.
THEOREM ConnectedHasConnectionAlways == Spec => []ConnectedHasConnection
<1>1. (SerialSessions => TypeOK /\ SessionInv) => ConnectedHasConnection
  BY Zenon, ProcFacts DEF SessionInv, MemOK, ConnectedHasConnection, GetAllActiveClients
<1> QED BY SerialBehaviours, <1>1, PTL
=============================================================================
