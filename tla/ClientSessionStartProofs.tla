---------------------- MODULE ClientSessionStartProofs ----------------------
(***************************************************************************)
(* Steps of ClientSession that keep its inductive invariant SessionInv in  *)
(* the serial deployment: the initial state, the network, StartClient and  *)
(* the first step of a save.  ClientSessionProofs does the other steps and *)
(* has the theorems.                                                       *)
(***************************************************************************)
EXTENDS ClientSession, TLAPS

\* The kinds of goroutine are disjoint, and every connection and every client
\* object has a client id and a credential.
LEMMA ProcFacts ==
    /\ Conns \subseteq Procs /\ Workers \subseteq Procs
    /\ \A k \in Conns : Req(k) \in Procs /\ Req(k) \notin Conns /\ Req(k) \notin Workers
    /\ \A w \in Workers : w \notin Conns
    /\ Conns \subseteq Objects /\ Ids \subseteq Objects
    /\ None \notin Conns /\ None \notin Ids /\ None \notin Objects
    /\ \A k \in Conns : IdOf[k] \in Ids
    /\ \A o \in Objects : IdOfObject(o) \in Ids
    /\ \A k \in Conns : IdOfObject(k) = IdOf[k]
    /\ None \notin Auths /\ None \notin Sessions
    /\ \A k \in Conns : AuthOf[k] \in Auths
BY Zenon, ConstantsAssumption DEF Procs, Handlers, Req, Objects, IdOfObject, Auths

\* Every connection has the session id of its agent process, or none.
LEMMA SessionTyped ==
    ASSUME deployment \in Deployments
    PROVE  \A k \in Conns : SessionOf[k] \in Sessions \cup {None}
BY Zenon, ConstantsAssumption DEF Deployment, SessionOf

\* A server that has just loaded its clients, none of them connected, satisfies
\* the invariant.
LEMMA InitInv == Init => TypeOK /\ SessionInv
<1> SUFFICES ASSUME Init PROVE TypeOK /\ SessionInv
  OBVIOUS
<1> USE ProcFacts, ConstantsAssumption
<1>0. /\ \A o \in Objects : obj[o].conn = None /\ obj[o].session = None
      /\ \A i \in Ids : mem[i] # None => mem[i] = i /\ store[i] # None
                                          /\ obj[i] = Object(0, None, None, store[i].auth)
  BY Zenon DEF Init, Object, NoObject
<1>1. TypeOK
  <2>1. obj \in [Objects -> [at : 0..MaxClock \cup {None}, conn : Conns \cup {None},
                            session : Sessions \cup {None}, auth : Auths \cup {None}]]
    BY DEF Init, Object, NoObject
  <2>2. store \in [Ids -> {None} \cup [at : 0..MaxClock \cup {None}, auth : Auths]]
    BY DEF Init
  <2>3. inbox \in [Conns -> Seq(Requests)]
    BY DEF Init
  <2>4. /\ link \in [Conns -> {"none", "up", "half", "down"}]
        /\ tgt \in [Procs -> Objects \cup {None}]
        /\ pinged \in [Workers -> Conns \cup {None}]
        /\ doomed \in [Workers -> SUBSET Ids]
        /\ lock \in [Ids -> Conns \cup {None}]
        /\ mem \in [Ids -> Objects \cup {None}]
        /\ clock \in 0..MaxClock /\ deployment \in Deployments
    BY DEF Init
  <2>5. pc \in [Procs -> {"new", "idle"}]
    BY Zenon DEF Init
  <2> QED BY <2>1, <2>2, <2>3, <2>4, <2>5 DEF TypeOK
<1>2. PcOK /\ InboxOK /\ QueueOK
  BY DEF Init, PcOK, InboxOK, QueueOK
<1>3. LockOwner /\ RegisterOK /\ StartOK /\ AloneOK
  BY Zenon DEF Init, LockOwner, RegisterOK, StartOK, AloneOK, Starting
<1>4. HoldOK /\ ServeOK
  BY Zenon DEF Init, HoldOK, ServeOK, Holding, Serving
<1>5. ObjectOK /\ MemOK
  BY <1>0 DEF Init, ObjectOK, MemOK, Object, IsConnected, IdOfObject
<1> QED BY Zenon, <1>1, <1>2, <1>3, <1>4, <1>5 DEF SessionInv

\* Writing DisconnectedAt keeps an object an object.
LEMMA AtTyped ==
    ASSUME NEW At, NEW C, NEW S, NEW A, NEW v \in At, NEW o \in Objects,
           NEW f \in [Objects -> [at : At, conn : C, session : S, auth : A]]
    PROVE  [f EXCEPT ![o].at = v] \in [Objects -> [at : At, conn : C, session : S, auth : A]]
<1>1. f[o] \in [at : At, conn : C, session : S, auth : A]
  OBVIOUS
<1>2. [f[o] EXCEPT !.at = v] \in [at : At, conn : C, session : S, auth : A]
  BY Zenon, <1>1
<1> QED BY Zenon, <1>2

\* LoadInitialClients stamps the rows of connected clients.
LEMMA Stamped ==
    ASSUME NEW A, NEW r \in [at : 0..MaxClock \cup {None}, auth : A],
           clock \in 0..MaxClock, r # None
    PROVE  Stamp(r) \in [at : 0..MaxClock, auth : A]
<1>1. CASE r.at = None
  <2>1. [r EXCEPT !.at = clock] \in [at : 0..MaxClock, auth : A]
    OBVIOUS
  <2> QED BY Zenon, <1>1, <2>1 DEF Stamp
<1>2. CASE r.at # None
  <2>1. r.at \in 0..MaxClock /\ r.auth \in A /\ r = [at |-> r.at, auth |-> r.auth]
    BY Zenon, <1>2
  <2>2. r \in [at : 0..MaxClock, auth : A]
    BY Zenon, <2>1
  <2> QED BY Zenon, <1>2, <2>2 DEF Stamp
<1> QED BY Zenon, <1>1, <1>2

\* Nothing is obsolete when keep_disconnected_clients is not set.
LEMMA FoundIsCached ==
    ASSUME SerialSessions, NEW i \in Ids
    PROVE  GetByID(i) = mem[i]
BY Zenon DEF SerialSessions, GetByID, Obsolete, Expired

\* A new connection is not yet anyone's.
LEMMA ConnectStep ==
    ASSUME SerialSessions, TypeOK, SessionInv, NEW k \in Conns, Connect(k)
    PROVE  TypeOK' /\ SessionInv'
<1>0. /\ PcOK /\ InboxOK /\ QueueOK /\ LockOwner /\ RegisterOK /\ StartOK
      /\ AloneOK /\ HoldOK /\ ServeOK /\ ObjectOK /\ MemOK
  BY Zenon DEF SessionInv
<1>d. deployment' = deployment /\ SessionOf' = SessionOf
  BY Zenon DEF Connect, SessionOf
<1>t. /\ \A n \in Ids : lock[n] \in Conns \cup {None} /\ mem[n] \in Objects \cup {None}
      /\ \A x \in Procs : tgt[x] \in Objects \cup {None}
      /\ \A o \in Objects : obj[o].conn \in Conns \cup {None}
  BY Zenon DEF TypeOK
<1>1. TypeOK'
  BY <1>d, Zenon DEF Connect, TypeOK, repo
<1>2. /\ pc[k] = "new"
      /\ pc'[k] = "start" /\ (\A y \in Procs : y # k => pc'[y] = pc[y])
      /\ UNCHANGED <<inbox, tgt, lock, obj, mem, store>>
  BY Zenon, ProcFacts DEF Connect, TypeOK, repo
<1>3. /\ PcOK' /\ InboxOK' /\ QueueOK' /\ MemOK'
      /\ HoldOK'
  BY Zenon, <1>0, <1>2 DEF PcOK, InboxOK, QueueOK, MemOK, IsConnected, HoldOK, Starting,
     Holding
<1>4. /\ RegisterOK' /\ LockOwner' /\ ObjectOK'
  BY <1>d, ProcFacts, <1>0, <1>2, <1>t DEF RegisterOK, Starting, LockOwner, ObjectOK
<1>5. StartOK'
  BY ProcFacts, <1>0, <1>2 DEF StartOK, Starting, IsConnected
<1>6. /\ AloneOK' /\ ServeOK'
  BY ZenonT(60), ProcFacts, <1>0, <1>2 DEF AloneOK, Starting, Serving, ServeOK, IsConnected
<1> QED BY Zenon, <1>1, <1>3, <1>4, <1>5, <1>6 DEF SessionInv

\* The fate of a link changes nothing the invariant speaks of.
LEMMA LinkDownStep ==
    ASSUME SerialSessions, TypeOK, SessionInv, NEW k \in Conns, AgentLeaves(k) \/ ServerNotices(k)
    PROVE  TypeOK' /\ SessionInv'
<1>0. /\ PcOK /\ InboxOK /\ QueueOK /\ LockOwner /\ RegisterOK /\ StartOK
      /\ AloneOK /\ HoldOK /\ ServeOK /\ ObjectOK /\ MemOK
  BY Zenon DEF SessionInv
<1>d. deployment' = deployment /\ SessionOf' = SessionOf
  BY Zenon DEF AgentLeaves, ServerNotices, SessionOf
<1>1. TypeOK'
  BY <1>d, Zenon DEF AgentLeaves, ServerNotices, TypeOK, repo
<1>2. UNCHANGED <<pc, inbox, tgt, lock, obj, mem, store>>
  BY Zenon DEF AgentLeaves, ServerNotices, repo
<1>3. /\ PcOK' /\ InboxOK' /\ QueueOK' /\ LockOwner'
      /\ ObjectOK'
  BY Zenon, <1>d, <1>0, <1>2 DEF PcOK, InboxOK, QueueOK, LockOwner, ObjectOK
<1>4. /\ RegisterOK' /\ MemOK' /\ StartOK'
  BY Zenon, <1>0, <1>2 DEF RegisterOK, Starting, MemOK, IsConnected, StartOK
<1>5. /\ AloneOK' /\ HoldOK' /\ ServeOK'
  BY ZenonT(60), <1>0, <1>2 DEF AloneOK, Starting, Serving, HoldOK, Holding, ServeOK,
     IsConnected
<1> QED BY Zenon, <1>1, <1>3, <1>4, <1>5 DEF SessionInv

\* A request is queued on a serving connection only, whose client is in the map.
LEMMA SendStep ==
    ASSUME SerialSessions, TypeOK, SessionInv, NEW k \in Conns, NEW m \in Requests, Send(k, m)
    PROVE  TypeOK' /\ SessionInv'
<1>0. /\ PcOK /\ InboxOK /\ QueueOK /\ LockOwner /\ RegisterOK /\ StartOK
      /\ AloneOK /\ HoldOK /\ ServeOK /\ ObjectOK /\ MemOK
  BY Zenon DEF SessionInv
<1>d. deployment' = deployment /\ SessionOf' = SessionOf
  BY Zenon DEF Send, SessionOf
<1>1. TypeOK'
  BY <1>d DEF Send, TypeOK, repo
<1>2. /\ pc[k] = "serving"
      /\ UNCHANGED <<pc, tgt, lock, obj, mem, store>>
  BY Zenon DEF Send, repo, SerialSessions
<1>3. m \in {"ping", "update"}
  BY Zenon DEF Send, SerialSessions
<1>4. /\ inbox'[k] = Append(inbox[k], m)
      /\ \A y \in Conns : y # k => inbox'[y] = inbox[y]
  BY Zenon DEF Send, TypeOK
<1>5. inbox'[k] \in Seq({"ping", "update"})
  BY <1>0, <1>3, <1>4 DEF InboxOK
<1>6. /\ PcOK' /\ LockOwner' /\ ObjectOK' /\ RegisterOK'
      /\ MemOK'
  BY Zenon, <1>d, <1>0, <1>2 DEF PcOK, LockOwner, ObjectOK, RegisterOK, Starting, MemOK,
     IsConnected
<1>7. /\ InboxOK' /\ StartOK' /\ AloneOK'
  BY Zenon, <1>0, <1>4, <1>5, <1>2 DEF InboxOK, StartOK, Starting, IsConnected,
     AloneOK, Serving
<1>8. /\ HoldOK' /\ ServeOK' /\ QueueOK'
  BY <1>0, <1>2, ProcFacts, <1>4 DEF HoldOK, Starting, Holding, ServeOK, Serving,
     IsConnected, QueueOK
<1> QED BY Zenon, <1>1, <1>6, <1>7, <1>8 DEF SessionInv

\* A refused connection touches nothing.
LEMMA RefuseStep ==
    ASSUME SerialSessions, TypeOK, SessionInv, NEW k \in Conns, Refuse(k)
    PROVE  TypeOK' /\ SessionInv'
<1>0. /\ PcOK /\ InboxOK /\ QueueOK /\ LockOwner /\ RegisterOK /\ StartOK
      /\ AloneOK /\ HoldOK /\ ServeOK /\ ObjectOK /\ MemOK
  BY Zenon DEF SessionInv
<1>d. deployment' = deployment /\ SessionOf' = SessionOf
  BY Zenon DEF Refuse, SessionOf
<1>t. /\ \A n \in Ids : lock[n] \in Conns \cup {None} /\ mem[n] \in Objects \cup {None}
      /\ \A x \in Procs : tgt[x] \in Objects \cup {None}
      /\ \A o \in Objects : obj[o].conn \in Conns \cup {None}
  BY Zenon DEF TypeOK
<1>1. TypeOK'
  BY <1>d, Zenon DEF Refuse, TypeOK, repo
<1>2. /\ pc[k] = "start"
      /\ pc'[k] = "refused" /\ (\A y \in Procs : y # k => pc'[y] = pc[y])
      /\ UNCHANGED <<inbox, tgt, lock, obj, mem, store>>
  BY ZenonT(60), ProcFacts DEF Refuse, TypeOK, repo
<1>3. /\ PcOK' /\ InboxOK' /\ QueueOK' /\ MemOK'
      /\ HoldOK'
  BY Zenon, <1>0, <1>2 DEF PcOK, InboxOK, QueueOK, MemOK, IsConnected, HoldOK, Starting,
     Holding
<1>4. /\ RegisterOK' /\ LockOwner' /\ ObjectOK'
  BY <1>d, ProcFacts, <1>0, <1>2, <1>t DEF RegisterOK, Starting, LockOwner, ObjectOK
<1>5. /\ StartOK' /\ AloneOK' /\ ServeOK'
  BY ProcFacts, <1>0, <1>2 DEF StartOK, Starting, IsConnected, AloneOK, Serving,
     ServeOK
<1> QED BY Zenon, <1>1, <1>3, <1>4, <1>5 DEF SessionInv

\* A connected client of another session is refused, so whoever gets the lock finds
\* nobody serving the client id.
LEMMA LookupStep ==
    ASSUME SerialSessions, TypeOK, SessionInv, NEW k \in Conns, Lookup(k)
    PROVE  TypeOK' /\ SessionInv'
<1>0. /\ PcOK /\ InboxOK /\ QueueOK /\ LockOwner /\ RegisterOK /\ StartOK
      /\ AloneOK /\ HoldOK /\ ServeOK /\ ObjectOK /\ MemOK
  BY Zenon DEF SessionInv
<1>d. deployment' = deployment /\ SessionOf' = SessionOf
  BY Zenon DEF Lookup, SessionOf
<1>t. /\ \A n \in Ids : lock[n] \in Conns \cup {None} /\ mem[n] \in Objects \cup {None}
      /\ \A x \in Procs : tgt[x] \in Objects \cup {None}
      /\ \A o \in Objects : obj[o].conn \in Conns \cup {None}
  BY Zenon DEF TypeOK
<1>1. TypeOK'
  BY <1>d, ProcFacts, FoundIsCached DEF Lookup, TypeOK, repo
<1>2. /\ pc[k] = "start"
      /\ lock[IdOf[k]] = None
      /\ pc'[k] = "register" /\ (\A y \in Procs : y # k => pc'[y] = pc[y])
      /\ lock'[IdOf[k]] = k /\ (\A y \in Ids : y # IdOf[k] => lock'[y] = lock[y])
      /\ tgt'[k] = mem[IdOf[k]] /\ (\A y \in Procs : y # k => tgt'[y] = tgt[y])
      /\ UNCHANGED <<inbox, obj, mem, store>>
  BY ProcFacts, FoundIsCached DEF Lookup, TypeOK, repo
<1>3. mem[IdOf[k]] # None => ~sessionReUsed(mem[IdOf[k]], k)
  BY ProcFacts, <1>0, <1>t, <1>2 DEF SerialSessions, SameProcess, sessionReUsed, ObjectOK
<1>4. mem[IdOf[k]] # None => ~IsConnected(mem[IdOf[k]])
  BY Zenon, ProcFacts, <1>3, FoundIsCached DEF Lookup, Refused
<1>5. \A j \in Conns : IdOf[j] = IdOf[k] => ~Serving(j)
  BY <1>0, <1>4 DEF ServeOK
<1>6. /\ PcOK' /\ InboxOK' /\ QueueOK' /\ MemOK'
      /\ RegisterOK'
  BY SMTT(60), <1>0, <1>2, ProcFacts DEF PcOK, InboxOK, QueueOK, MemOK, IsConnected,
     RegisterOK, Starting
<1>7. /\ LockOwner' /\ ObjectOK'
  BY <1>d, ProcFacts, <1>0, <1>t, <1>2 DEF LockOwner, ObjectOK
<1>8. StartOK'
  BY ProcFacts, <1>0, <1>2 DEF StartOK, Starting, IsConnected
<1>9. /\ HoldOK' /\ ServeOK' /\ AloneOK'
  BY ProcFacts, <1>0, <1>2, <1>5 DEF HoldOK, Starting, Holding, ServeOK, Serving,
     IsConnected, AloneOK
<1> QED BY Zenon, <1>1, <1>6, <1>7, <1>8, <1>9 DEF SessionInv

\* Refusals after the lookup give the lock back.
LEMMA GiveUpStep ==
    ASSUME SerialSessions, TypeOK, SessionInv, NEW k \in Conns, FilterFails(k) \/ RefuseAuth(k)
    PROVE  TypeOK' /\ SessionInv'
<1>0. /\ PcOK /\ InboxOK /\ QueueOK /\ LockOwner /\ RegisterOK /\ StartOK
      /\ AloneOK /\ HoldOK /\ ServeOK /\ ObjectOK /\ MemOK
  BY Zenon DEF SessionInv
<1>d. deployment' = deployment /\ SessionOf' = SessionOf
  BY Zenon DEF FilterFails, RefuseAuth, SessionOf
<1>t. /\ \A n \in Ids : lock[n] \in Conns \cup {None} /\ mem[n] \in Objects \cup {None}
      /\ \A x \in Procs : tgt[x] \in Objects \cup {None}
      /\ \A o \in Objects : obj[o].conn \in Conns \cup {None}
  BY Zenon DEF TypeOK
<1>1. /\ pc[k] = "register" /\ pc' = [pc EXCEPT ![k] = "refused"]
      /\ lock' = [lock EXCEPT ![IdOf[k]] = None]
      /\ UNCHANGED <<link, inbox, tgt, pinged, doomed, obj, mem, store, clock>>
  BY Zenon DEF FilterFails, RefuseAuth, Unlock, repo
<1>2. TypeOK'
  BY Zenon, <1>d, <1>1 DEF TypeOK
<1>3. /\ pc[k] = "register"
      /\ pc'[k] = "refused" /\ (\A y \in Procs : y # k => pc'[y] = pc[y])
      /\ lock'[IdOf[k]] = None /\ (\A y \in Ids : y # IdOf[k] => lock'[y] = lock[y])
      /\ UNCHANGED <<inbox, tgt, obj, mem, store>>
  BY Zenon, ProcFacts, <1>1 DEF TypeOK
<1>4. /\ PcOK' /\ InboxOK' /\ QueueOK'
  BY <1>0, <1>1 DEF PcOK, InboxOK, QueueOK
<1>5. /\ ObjectOK' /\ MemOK'
  BY SMTT(60), <1>d, <1>0, <1>1 DEF ObjectOK, MemOK, IsConnected
<1>6. /\ ServeOK' /\ RegisterOK' /\ LockOwner'
  BY SMTT(60), <1>0, <1>1, ProcFacts, <1>3, <1>t DEF ServeOK, Serving, IsConnected,
     RegisterOK, Starting, LockOwner
<1>7. HoldOK'
  BY <1>0, <1>1 DEF HoldOK, RegisterOK, Starting, Holding
<1>8. /\ StartOK' /\ AloneOK'
  BY ProcFacts, <1>0, <1>1 DEF StartOK, Starting, IsConnected, AloneOK, Serving
<1> QED BY Zenon, <1>2, <1>4, <1>5, <1>6, <1>7, <1>8 DEF SessionInv

\* The object becomes the new connection's; under the lock nobody serves it.
LEMMA RegisterStep ==
    ASSUME SerialSessions, TypeOK, SessionInv, NEW k \in Conns, Register(k)
    PROVE  TypeOK' /\ SessionInv'
<1>0. /\ PcOK /\ InboxOK /\ QueueOK /\ LockOwner /\ RegisterOK /\ StartOK
      /\ AloneOK /\ HoldOK /\ ServeOK /\ ObjectOK /\ MemOK
  BY Zenon DEF SessionInv
<1>d. deployment' = deployment /\ SessionOf' = SessionOf
  BY Zenon DEF Register, SessionOf
<1>t. /\ \A n \in Ids : lock[n] \in Conns \cup {None} /\ mem[n] \in Objects \cup {None}
      /\ \A x \in Procs : tgt[x] \in Objects \cup {None}
      /\ \A o \in Objects : obj[o].conn \in Conns \cup {None}
  BY Zenon DEF TypeOK
<1>1. TypeOK'
  BY Zenon, <1>d, ProcFacts, SessionTyped DEF Register, Object, TypeOK, repo
<1>2. lock[IdOf[k]] = k /\ tgt[k] = mem[IdOf[k]] /\ pc[k] = "register"
  BY Zenon, <1>0 DEF Register, RegisterOK, Starting
<1>3. PICK o \in Objects :
        /\ o = IF tgt[k] = None THEN k ELSE tgt[k]
        /\ obj' = [obj EXCEPT ![o] = Object(None, k, SessionOf[k], AuthOf[k])]
        /\ tgt' = [tgt EXCEPT ![k] = o]
  BY Zenon, ProcFacts DEF Register, TypeOK
<1>4. IdOfObject(o) = IdOf[k] /\ mem[IdOf[k]] \in {None, o}
  BY ZenonT(60), ProcFacts, <1>0, <1>2, <1>3 DEF MemOK
<1>5. /\ pc'[k] = "save" /\ (\A y \in Procs : y # k => pc'[y] = pc[y])
      /\ tgt'[k] = o /\ (\A y \in Procs : y # k => tgt'[y] = tgt[y])
      /\ UNCHANGED <<inbox, lock, mem, store>>
  BY ProcFacts, <1>3 DEF Register, TypeOK, repo
<1>6. /\ obj'[o].at = None /\ obj'[o].conn = k
      /\ obj'[o].session = SessionOf[k] /\ obj'[o].auth = AuthOf[k]
      /\ \A x \in Objects : x # o => obj'[x] = obj[x]
  BY Zenon, <1>3 DEF Object, TypeOK
<1>7. \A x \in Conns : x # k /\ (Starting(x) \/ Serving(x)) => IdOf[x] # IdOf[k]
  BY Zenon, <1>0, <1>2 DEF AloneOK, Starting
<1>8. \A x \in Conns : x # k /\ (Serving(x) \/ (Starting(x) /\ pc[x] \in {"save", "cache"})) =>
        tgt[x] # None /\ tgt[x] # o
  BY SMTT(60), ProcFacts, <1>0, <1>4, <1>7 DEF ServeOK, StartOK, MemOK
<1>9. \A x \in Conns : Serving(x)' =>
        Serving(x) /\ tgt'[x] = tgt[x] /\ obj'[tgt'[x]] = obj[tgt[x]]
  BY SMTT(60), ProcFacts, <1>t, <1>5, <1>6, <1>8 DEF Serving
<1>10. /\ PcOK' /\ InboxOK' /\ HoldOK'
  BY ZenonT(60), <1>0, <1>5, <1>2 DEF PcOK, InboxOK, HoldOK, Starting, Holding
<1>11a. AloneOK'
  BY Zenon, ProcFacts, <1>0, <1>5 DEF AloneOK, Starting, Serving
<1>11b. QueueOK'
  BY SMTT(60), ProcFacts, <1>0, <1>4, <1>5, <1>t, <1>6 DEF QueueOK
<1>11. AloneOK' /\ QueueOK'
  BY ZenonT(60), <1>11a, <1>11b
<1>12. MemOK'
  BY SMTT(60), ProcFacts, <1>0, <1>t, <1>5, <1>6 DEF MemOK, IsConnected
<1>13a. ObjectOK'
  BY <1>d, ProcFacts, <1>0, <1>t, <1>5, <1>6 DEF ObjectOK
<1>13b. LockOwner'
  BY ProcFacts, <1>0, <1>t, <1>2, <1>5 DEF LockOwner, Starting
<1>13. /\ ObjectOK' /\ LockOwner'
  BY Zenon, <1>13a, <1>13b
<1>14. StartOK'
  <2>1. ASSUME NEW x \in Conns, x # k, Starting(x), pc[x] \in {"save", "cache"}
        PROVE  tgt'[x] = tgt[x] /\ obj'[tgt'[x]] = obj[tgt[x]]
    BY ProcFacts, <1>t, <1>5, <1>6, <1>8, <2>1
  <2>2. \A x \in Conns : Starting(x)' <=> Starting(x)
    BY Zenon, <1>5 DEF Starting
  <2>3. \A x \in Conns : x # k => pc'[x] = pc[x]
    BY Zenon, <1>5, ProcFacts
  <2>4. ASSUME NEW x \in Conns, x # k, Starting(x)', pc'[x] \in {"save", "cache"}
        PROVE  /\ tgt'[x] # None /\ IdOfObject(tgt'[x]) = IdOf[x]
               /\ obj'[tgt'[x]].conn = x /\ obj'[tgt'[x]].at = None
               /\ mem'[IdOf[x]] \in {None, tgt'[x]}
               /\ pc'[x] = "cache" => store'[IdOf[x]] # None /\ store'[IdOf[x]].auth = AuthOf[x]
    BY SMTT(60), <1>0, <1>5, <2>1, <2>2, <2>3, <2>4 DEF StartOK, IsConnected
  <2>5. /\ tgt'[k] # None /\ IdOfObject(tgt'[k]) = IdOf[k]
        /\ obj'[tgt'[k]].conn = k /\ obj'[tgt'[k]].at = None
        /\ mem'[IdOf[k]] \in {None, tgt'[k]} /\ pc'[k] = "save"
    BY ZenonT(60), ProcFacts, <1>4, <1>5, <1>6
  <2> QED BY Zenon, <2>4, <2>5 DEF StartOK, IsConnected
<1>15. RegisterOK'
  BY ZenonT(60), ProcFacts, <1>0, <1>2, <1>5 DEF RegisterOK, Starting, LockOwner
<1>16. ServeOK'
  BY <1>0, <1>5, <1>9 DEF ServeOK, IsConnected
<1> QED BY Zenon, <1>1, <1>10, <1>11, <1>12, <1>13, <1>14, <1>15, <1>16 DEF SessionInv

\* A failing tunnel leaves a registered object behind, which nobody serves.
LEMMA OpenFailsStep ==
    ASSUME SerialSessions, TypeOK, SessionInv, NEW k \in Conns, OpenFails(k)
    PROVE  TypeOK' /\ SessionInv'
<1>0. /\ PcOK /\ InboxOK /\ QueueOK /\ LockOwner /\ RegisterOK /\ StartOK
      /\ AloneOK /\ HoldOK /\ ServeOK /\ ObjectOK /\ MemOK
  BY Zenon DEF SessionInv
<1>d. deployment' = deployment /\ SessionOf' = SessionOf
  BY Zenon DEF OpenFails, SessionOf
<1>t. /\ \A n \in Ids : lock[n] \in Conns \cup {None} /\ mem[n] \in Objects \cup {None}
      /\ \A x \in Procs : tgt[x] \in Objects \cup {None}
      /\ \A o \in Objects : obj[o].conn \in Conns \cup {None}
  BY Zenon DEF TypeOK
<1>1. TypeOK'
  BY <1>d, Zenon DEF OpenFails, Unlock, TypeOK, repo
<1>2. /\ pc[k] = "save"
      /\ lock[IdOf[k]] = k
      /\ pc'[k] = "refused" /\ (\A y \in Procs : y # k => pc'[y] = pc[y])
      /\ lock'[IdOf[k]] = None /\ (\A y \in Ids : y # IdOf[k] => lock'[y] = lock[y])
      /\ UNCHANGED <<inbox, tgt, obj, mem, store>>
  BY ZenonT(60), ProcFacts DEF OpenFails, Unlock, TypeOK, repo, Starting
<1>3. /\ PcOK' /\ InboxOK' /\ QueueOK' /\ MemOK'
      /\ RegisterOK'
  BY <1>0, <1>2, ProcFacts DEF PcOK, InboxOK, QueueOK, MemOK, IsConnected,
     RegisterOK, Starting
<1>4a. LockOwner'
  BY ProcFacts, <1>0, <1>t, <1>2 DEF LockOwner
<1>4b. ObjectOK'
  BY <1>d, ProcFacts, <1>0, <1>t, <1>2 DEF ObjectOK
<1>4. /\ LockOwner' /\ ObjectOK'
  BY ZenonT(60), <1>4a, <1>4b
<1>5. /\ StartOK' /\ AloneOK' /\ HoldOK' /\ ServeOK'
  BY SMTT(60), ProcFacts, <1>0, <1>2 DEF StartOK, Starting, IsConnected, AloneOK, Serving,
     HoldOK, Holding, ServeOK
<1> QED BY Zenon, <1>1, <1>3, <1>4, <1>5 DEF SessionInv

\* The row of a starting client carries the credential of its connection.
LEMMA SaveStoreStartingStep ==
    ASSUME SerialSessions, TypeOK, SessionInv, NEW p \in Procs, SaveStore(p), Starting(p)
    PROVE  TypeOK' /\ SessionInv'
<1>0. /\ PcOK /\ InboxOK /\ QueueOK /\ LockOwner /\ RegisterOK /\ StartOK
      /\ AloneOK /\ HoldOK /\ ServeOK /\ ObjectOK /\ MemOK
  BY Zenon DEF SessionInv
<1>d. deployment' = deployment /\ SessionOf' = SessionOf
  BY Zenon DEF SaveStore, SessionOf
<1>t. /\ \A n \in Ids : lock[n] \in Conns \cup {None} /\ mem[n] \in Objects \cup {None}
      /\ \A x \in Procs : tgt[x] \in Objects \cup {None}
      /\ \A o \in Objects : obj[o].conn \in Conns \cup {None}
  BY Zenon DEF TypeOK
<1>1. /\ pc[p] = "save"
      /\ pc'[p] = "cache" /\ (\A y \in Procs : y # p => pc'[y] = pc[y])
      /\ UNCHANGED <<inbox, tgt, lock, obj, mem>>
  BY Zenon DEF SaveStore, TypeOK
<1>2. p \in Conns /\ tgt[p] \in Objects /\ IdOfObject(tgt[p]) = IdOf[p] /\ obj[tgt[p]].conn = p
  BY Zenon, <1>0, <1>t, <1>1 DEF StartOK, Starting
<1>3. obj[tgt[p]].auth = AuthOf[p]
  BY Zenon, ProcFacts, <1>0, <1>2 DEF ObjectOK
<1>4. obj[tgt[p]].auth \in Auths
  BY Zenon, ProcFacts, <1>2, <1>3
<1>5. Row(tgt[p]) \in [at : 0..MaxClock \cup {None}, auth : Auths] /\ Row(tgt[p]).auth = obj[tgt[p]].auth
  BY Zenon, <1>2, <1>4 DEF TypeOK, Row
<1>6. Row(tgt[p]) # None
  BY <1>5, ConstantsAssumption DEF Auths
<1>7. TypeOK'
  BY Zenon, <1>d, <1>5 DEF SaveStore, TypeOK
<1>8. /\ store'[IdOfObject(tgt[p])] = Row(tgt[p])
      /\ \A i \in Ids : i # IdOfObject(tgt[p]) => store'[i] = store[i]
  BY Zenon, ProcFacts, <1>2 DEF SaveStore, TypeOK
<1>9. /\ PcOK' /\ InboxOK' /\ QueueOK' /\ MemOK'
      /\ HoldOK'
  BY ZenonT(60), <1>0, <1>1 DEF PcOK, InboxOK, QueueOK, MemOK, IsConnected, HoldOK, Starting,
     Holding
<1>10. /\ RegisterOK' /\ LockOwner' /\ ObjectOK' /\ AloneOK'
  BY ZenonT(60), <1>d, ProcFacts, <1>0, <1>1, <1>t DEF RegisterOK, Starting, LockOwner, ObjectOK,
     AloneOK, Serving
<1>11. StartOK'
  BY ProcFacts, <1>0, <1>t, <1>1, <1>3, <1>5, <1>6, <1>8 DEF StartOK, Starting,
     IsConnected
<1>12. ServeOK'
  BY ProcFacts, <1>0, <1>1, <1>2, <1>3, <1>4, <1>5, <1>6, <1>8 DEF ServeOK,
     StartOK, LockOwner, MemOK, Starting, Holding, Serving, IsConnected
<1> QED BY Zenon, <1>7, <1>9, <1>10, <1>11, <1>12 DEF SessionInv

\* Every other save writes the row of the object in the map.
LEMMA SaveStoreHoldingStep ==
    ASSUME SerialSessions, TypeOK, SessionInv, NEW p \in Procs, SaveStore(p), ~Starting(p)
    PROVE  TypeOK' /\ SessionInv'
<1>0. /\ PcOK /\ InboxOK /\ QueueOK /\ LockOwner /\ RegisterOK /\ StartOK
      /\ AloneOK /\ HoldOK /\ ServeOK /\ ObjectOK /\ MemOK
  BY Zenon DEF SessionInv
<1>d. deployment' = deployment /\ SessionOf' = SessionOf
  BY Zenon DEF SaveStore, SessionOf
<1>t. /\ \A n \in Ids : lock[n] \in Conns \cup {None} /\ mem[n] \in Objects \cup {None}
      /\ \A x \in Procs : tgt[x] \in Objects \cup {None}
      /\ \A o \in Objects : obj[o].conn \in Conns \cup {None}
  BY Zenon DEF TypeOK
<1>1. /\ pc[p] = "save"
      /\ pc'[p] = "cache" /\ (\A y \in Procs : y # p => pc'[y] = pc[y])
      /\ UNCHANGED <<inbox, tgt, lock, obj, mem>>
  BY Zenon DEF SaveStore, TypeOK
<1>2. tgt[p] \in Objects /\ mem[IdOfObject(tgt[p])] = tgt[p]
  BY Zenon, <1>0, <1>t, <1>1 DEF HoldOK, Holding
<1>3. obj[tgt[p]].auth # None /\ (obj[tgt[p]].conn # None => obj[tgt[p]].auth = AuthOf[obj[tgt[p]].conn])
  BY Zenon, ProcFacts, <1>0, <1>2 DEF MemOK, ObjectOK
<1>4. obj[tgt[p]].auth \in Auths
  BY Zenon, <1>2, <1>3 DEF TypeOK
<1>5. Row(tgt[p]) \in [at : 0..MaxClock \cup {None}, auth : Auths] /\ Row(tgt[p]).auth = obj[tgt[p]].auth
  BY ZenonT(60), <1>2, <1>4 DEF TypeOK, Row
<1>6. Row(tgt[p]) # None
  BY <1>5, ConstantsAssumption DEF Auths
<1>7. TypeOK'
  BY Zenon, <1>d, <1>5 DEF SaveStore, TypeOK
<1>8. /\ store'[IdOfObject(tgt[p])] = Row(tgt[p])
      /\ \A i \in Ids : i # IdOfObject(tgt[p]) => store'[i] = store[i]
  BY Zenon, ProcFacts, <1>2 DEF SaveStore, TypeOK
<1>9. /\ PcOK' /\ InboxOK' /\ QueueOK' /\ MemOK'
      /\ HoldOK'
  BY ZenonT(60), <1>0, <1>1 DEF PcOK, InboxOK, QueueOK, MemOK, IsConnected, HoldOK, Starting,
     Holding
<1>10. /\ RegisterOK' /\ LockOwner' /\ ObjectOK'
  BY <1>d, ProcFacts, <1>0, <1>1, <1>t DEF RegisterOK, Starting, LockOwner, ObjectOK
<1>11. AloneOK'
  BY ZenonT(60), ProcFacts, <1>0, <1>1 DEF AloneOK, Starting, Serving
<1>12. ServeOK'
  BY ProcFacts, <1>0, <1>1, <1>2, <1>3, <1>5, <1>6, <1>8 DEF ServeOK, Serving,
     IsConnected
<1>13. StartOK'
  BY ProcFacts, <1>0, <1>t, <1>1, <1>2, <1>3, <1>5, <1>6, <1>8 DEF StartOK,
     Starting, IsConnected
<1> QED BY Zenon, <1>7, <1>9, <1>10, <1>11, <1>12, <1>13 DEF SessionInv
=============================================================================
