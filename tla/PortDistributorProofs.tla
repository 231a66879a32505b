------------------------ MODULE PortDistributorProofs ------------------------
(***************************************************************************)
(* Proofs about the port distributor for every set of callers and ports.   *)
(***************************************************************************)
EXTENDS PortDistributor, TLAPS

\* The sub-protocols of a protocol are tcp, udp or both.
LEMMA SubProtocolsType ==
    ASSUME NEW p \in Protocols PROVE SubProtocols(p) \in SUBSET Sub
BY Zenon DEF SubProtocols, Protocols, Sub

\* The next sub-protocol to visit is always tcp or udp.
LEMMA FirstType == ASSUME NEW S PROVE First(S) \in Sub
BY Zenon DEF First, Sub

\* Listing sockets only ever finds allowed ports.
LEMMA ListBusyPortsType ==
    ASSUME TypeOK, HasPort, NEW s \in Sub
    PROVE  ListBusyPorts(s) \in SUBSET AllowedPorts
BY Zenon DEF TypeOK, HasPort, ListBusyPorts

\* The deployment stays the same, and so do the protocols asked for.
LEMMA SameDeployment ==
    ASSUME [Next]_vars
    PROVE  deployment' = deployment /\ Requests' = Requests
<1>1. deployment' = deployment
  BY DEF Next, Step, vars, Refresh, GetRandomPort, SkipReadyPool, RefreshList,
     RefreshFails, RefreshCommit, HandOut, NoPortsAvailable, CheckLocalPort, Reserve,
     PinWithoutReserve, Bind, BindFails, Abandon, Close, OtherBind, OtherClose
<1> QED BY Zenon, <1>1 DEF Requests

\* A deployment asks for at least one of the three protocols.
LEMMA RequestsType ==
    ASSUME deployment \in Deployments
    PROVE  Requests \in SUBSET Protocols /\ Requests # {}
<1>1. deployment \in Deployment
  BY Zenon, ConstantsAssumption
<1> QED BY Zenon, <1>1 DEF Deployment, Requests

\* The actions keep the types, in every deployment.
LEMMA TypeStep ==
    ASSUME TypeOK, HasPort, [Next]_vars
    PROVE  TypeOK' /\ HasPort'
<1>0. deployment' = deployment /\ Requests' = Requests
  BY Zenon, SameDeployment
<1> USE ConstantsAssumption, <1>0 DEF TypeOK, HasPort, distributor, call, lease
<1>1. ASSUME NEW c \in Callers, Refresh(c) PROVE TypeOK' /\ HasPort'
  BY Zenon, <1>1 DEF Refresh, Stages
<1>2. ASSUME NEW c \in Callers, NEW p \in Requests, GetRandomPort(c, p)
      PROVE  TypeOK' /\ HasPort'
  <2>1. SubProtocols(p) \in SUBSET Sub
    BY Zenon, RequestsType, SubProtocolsType
  <2> QED BY Zenon, <1>2, <2>1 DEF GetRandomPort, Stages
<1>3. ASSUME NEW c \in Callers, SkipReadyPool(c) PROVE TypeOK' /\ HasPort'
  BY Zenon, <1>3 DEF SkipReadyPool
<1>4. ASSUME NEW c \in Callers, RefreshList(c) PROVE TypeOK' /\ HasPort'
  <2>1. ListBusyPorts(First(todo[c])) \in SUBSET AllowedPorts
    BY Zenon, FirstType, ListBusyPortsType
  <2> QED BY Zenon, <1>4, <2>1 DEF RefreshList, NeedsRefresh, Stages
<1>5. ASSUME NEW c \in Callers, RefreshFails(c) PROVE TypeOK' /\ HasPort'
  BY Zenon, <1>5 DEF RefreshFails, NeedsRefresh, Stages
<1>6. ASSUME NEW c \in Callers, RefreshCommit(c) PROVE TypeOK' /\ HasPort'
  BY Zenon, <1>6, FirstType DEF RefreshCommit, Stages
<1>7. ASSUME NEW c \in Callers, NEW n \in AllowedPorts, HandOut(c, n)
      PROVE  TypeOK' /\ HasPort'
  BY Zenon, <1>7 DEF HandOut, Without, Stages
<1>8. ASSUME NEW c \in Callers, NoPortsAvailable(c) PROVE TypeOK' /\ HasPort'
  BY Zenon, <1>8 DEF NoPortsAvailable, Stages
<1>9. ASSUME NEW c \in Callers, NEW p \in Requests, NEW n \in AllowedPorts,
             CheckLocalPort(c, p, n)
      PROVE  TypeOK' /\ HasPort'
  BY Zenon, <1>9 DEF CheckLocalPort, Stages
<1>10. ASSUME NEW c \in Callers, Reserve(c) PROVE TypeOK' /\ HasPort'
  BY Zenon, <1>10 DEF Reserve, Without, Stages
<1>11. ASSUME NEW c \in Callers, PinWithoutReserve(c) PROVE TypeOK' /\ HasPort'
  BY Zenon, <1>11 DEF PinWithoutReserve, Stages
<1>12. ASSUME NEW c \in Callers, Bind(c) PROVE TypeOK' /\ HasPort'
  <2>1. BindNext(c) \in Sub
    BY Zenon, FirstType DEF BindNext
  <2> QED BY Zenon, <1>12, <2>1 DEF Bind, Stages
<1>13. ASSUME NEW c \in Callers, BindFails(c) PROVE TypeOK' /\ HasPort'
  BY Zenon, <1>13 DEF BindFails, Stages
<1>14. ASSUME NEW c \in Callers, Abandon(c) PROVE TypeOK' /\ HasPort'
  BY Zenon, <1>14 DEF Abandon, Stages
<1>15. ASSUME NEW c \in Callers, Close(c) PROVE TypeOK' /\ HasPort'
  BY Zenon, <1>15 DEF Close, Stages
<1>16. ASSUME NEW s \in Sub, NEW n \in AllowedPorts, OtherBind(s, n)
       PROVE  TypeOK' /\ HasPort'
  BY Zenon, <1>16 DEF OtherBind
<1>17. ASSUME NEW s \in Sub, NEW n \in AllowedPorts, OtherClose(s, n)
       PROVE  TypeOK' /\ HasPort'
  BY Zenon, <1>17 DEF OtherClose
<1>18. CASE UNCHANGED vars
  BY Zenon, <1>18 DEF vars
<1> QED
  BY Zenon, <1>1, <1>2, <1>3, <1>4, <1>5, <1>6, <1>7, <1>8, <1>9, <1>10, <1>11, <1>12,
     <1>13, <1>14, <1>15, <1>16, <1>17, <1>18 DEF Next, Step

\* Type correctness of the distributor's state, and that every listener belongs to
\* a caller that holds a port (port_distributor.go:13-24).
THEOREM TypeCorrect == Spec => [](TypeOK /\ HasPort)
<1>1. Init => TypeOK /\ HasPort
  <2>1. Init => Requests # {}
    BY Zenon, RequestsType DEF Init
  <2> QED BY <2>1, ConstantsAssumption DEF Init, TypeOK, HasPort, Stages
<1>2. TypeOK /\ HasPort /\ [Next]_vars => TypeOK' /\ HasPort'
  BY Zenon, TypeStep
<1> QED BY <1>1, <1>2, PTL DEF Spec
-----------------------------------------------------------------------------
\* Whatever overlaps, pins or binds besides, a reserved port is in no pool it
\* could be handed out from when all tunnels use one sub-protocol: GetRandomPort,
\* Reserve and the commit of a refresh change both sets under one lock
\* (port_distributor.go:68-97, 111-119, 192-200).
THEOREM ReservedOutOfPoolAlways == Spec => []ReservedOutOfPool
<1>1. Init => ReservedOutOfPool
  BY Zenon DEF Init, ReservedOutOfPool
<1>2. TypeOK /\ ReservedOutOfPool /\ [Next]_vars => ReservedOutOfPool'
  <2> SUFFICES ASSUME TypeOK, ReservedOutOfPool, [Next]_vars,
                      NEW s \in Sub, Requests = {s}
               PROVE  (pools[s] \cap reserved = {})'
    BY Zenon, SameDeployment DEF ReservedOutOfPool
  <2>0. pools[s] \cap reserved = {} /\ SubProtocols(s) = {s}
    BY Zenon DEF ReservedOutOfPool, SubProtocols, Sub
  <2>1. ASSUME NEW c \in Callers, RefreshCommit(c) PROVE (pools[s] \cap reserved = {})'
    BY Zenon, <2>0, <2>1, FirstType DEF RefreshCommit, TypeOK
  <2>2. ASSUME NEW c \in Callers, NEW n \in AllowedPorts, HandOut(c, n)
        PROVE  (pools[s] \cap reserved = {})'
    BY Zenon, <2>0, <2>2 DEF HandOut, Without, TypeOK
  <2>3. ASSUME NEW c \in Callers, Reserve(c) PROVE (pools[s] \cap reserved = {})'
    BY Zenon, <2>0, <2>3 DEF Reserve, Without, TypeOK
  <2>4. CASE UNCHANGED <<pools, reserved>>
    BY Zenon, <2>0, <2>4
  <2> QED
    BY ZenonT(60), <2>1, <2>2, <2>3, <2>4
    DEF Next, Step, vars, distributor, call, lease, Refresh, GetRandomPort, SkipReadyPool,
        RefreshList, RefreshFails, NoPortsAvailable, CheckLocalPort,
        PinWithoutReserve, Bind, BindFails, Abandon, Close, OtherBind, OtherClose
<1> QED BY <1>1, <1>2, TypeCorrect, PTL DEF Spec
-----------------------------------------------------------------------------
\* In the serial deployment a step preserves LeaseInv. One step per action that
\* can disturb it; the others leave the pools, the ports and the listings alone.
LEMMA LeaseStep ==
    ASSUME SerialDeployment, TypeOK, HasPort, LeaseInv, [Next]_vars
    PROVE  LeaseInv'
<1>0. PICK s \in Sub : Requests = {s}
  BY Zenon DEF SerialDeployment
<1>1. /\ SubProtocols(s) = {s} /\ Requests' = Requests
      /\ ~deployment.overlapping /\ ~deployment.pinning /\ deployment.others = {}
  BY Zenon, SameDeployment DEF SerialDeployment, Alone, SubProtocols, Sub
<1>2. \A c \in Callers : request[c] = s
  BY Zenon, <1>0 DEF TypeOK
<1> USE <1>0, <1>1, <1>2, ConstantsAssumption DEF TypeOK, HasPort, LeaseInv, Holders
<1>3. ASSUME NEW c \in Callers, Refresh(c) PROVE LeaseInv'
  BY <1>3 DEF Refresh, distributor, lease, First, Sub
<1>4. ASSUME NEW c \in Callers, NEW p \in Requests, GetRandomPort(c, p)
      PROVE  LeaseInv'
  BY <1>4 DEF GetRandomPort, distributor, First
<1>5. ASSUME NEW c \in Callers, SkipReadyPool(c) PROVE LeaseInv'
  BY <1>5 DEF SkipReadyPool, distributor, lease, First
<1>6. ASSUME NEW c \in Callers, RefreshList(c) PROVE LeaseInv'
  <2>1. \A t \in Sub : ListBusyPorts(t) =
            IF t = s THEN {port[d] : d \in {x \in Callers : stage[x] = "open"}} ELSE {}
    BY DEF ListBusyPorts
  <2> QED
    BY <1>6, <2>1, FirstType DEF RefreshList, NeedsRefresh, distributor, lease
<1>7. ASSUME NEW c \in Callers, RefreshFails(c) PROVE LeaseInv'
  BY <1>7 DEF RefreshFails, NeedsRefresh, distributor, lease, First
<1>8. ASSUME NEW c \in Callers, RefreshCommit(c) PROVE LeaseInv'
  BY <1>8, FirstType DEF RefreshCommit, lease
<1>9. ASSUME NEW c \in Callers, NEW n \in AllowedPorts, HandOut(c, n)
      PROVE  LeaseInv'
  BY <1>9 DEF HandOut, Without, Candidates, call, First
<1>10. ASSUME NEW c \in Callers, NoPortsAvailable(c) PROVE LeaseInv'
  BY SMTT(60), <1>10 DEF NoPortsAvailable, distributor, call, lease, First
<1>11. ASSUME NEW c \in Callers, Bind(c) PROVE LeaseInv'
  <2>1. BindNext(c) = s
    BY <1>11 DEF Bind, BindNext, First, Sub
  <2>2. bound[c] = {}
    BY Zenon, <1>11 DEF Bind
  <2>3. stage' = [stage EXCEPT ![c] = "open"]
    <3>1. bound'[c] = {s} /\ SubProtocols(request[c]) = {s}
      BY SMTT(60), <1>11, <2>1, <2>2 DEF Bind
    <3> QED BY Zenon, <1>11, <3>1 DEF Bind
  <2> QED BY SMTT(60), <1>11, <2>1, <2>3 DEF Bind, distributor, call
<1>12. ASSUME NEW c \in Callers, BindFails(c) PROVE LeaseInv'
  BY <1>12 DEF BindFails, distributor, call
<1>13. ASSUME NEW c \in Callers, Abandon(c) PROVE LeaseInv'
  BY SMTT(60), <1>13 DEF Abandon, distributor, call, First
<1>14. ASSUME NEW c \in Callers, Close(c) PROVE LeaseInv'
  BY SMTT(60), <1>14 DEF Close, distributor, call
<1>15. CASE UNCHANGED vars
  BY SMTT(60), <1>15 DEF vars, First
<1>16. /\ \A c \in Callers : ~Reserve(c) /\ ~PinWithoutReserve(c)
       /\ \A c \in Callers, p \in Requests, n \in AllowedPorts : ~CheckLocalPort(c, p, n)
       /\ \A t \in Sub, n \in AllowedPorts : ~OtherBind(t, n) /\ ~OtherClose(t, n)
  BY Zenon DEF Reserve, PinWithoutReserve, CheckLocalPort, OtherBind, OtherClose
<1> HIDE <1>0, <1>1, <1>2 DEF TypeOK, HasPort, LeaseInv, Holders
<1> QED
  BY Zenon, <1>3, <1>4, <1>5, <1>6, <1>7, <1>8, <1>9, <1>10, <1>11, <1>12, <1>13, <1>14, <1>15,
     <1>16 DEF Next, Step

\* In the serial deployment LeaseInv always holds.
LEMMA LeaseInvariant ==
    Spec /\ SerialDeployment => [](SerialDeployment /\ LeaseInv)
<1>1. Init /\ SerialDeployment => LeaseInv
  BY DEF Init, LeaseInv, Holders
<1>2. TypeOK /\ HasPort /\ SerialDeployment /\ LeaseInv /\ [Next]_vars => LeaseInv'
  BY Zenon, LeaseStep
<1>3. SerialDeployment /\ [Next]_vars => SerialDeployment'
  BY Zenon, SameDeployment DEF SerialDeployment, Alone
<1> QED BY <1>1, <1>2, <1>3, TypeCorrect, PTL DEF Spec

\* "Two concurrent callers can never be handed the same local port"
\* (port_distributor.go:62-67): true for any number of callers and ports when
\* agents connect one at a time, tunnels use one sub-protocol and random ports,
\* and nothing else binds the allowed ports.
THEOREM ExclusiveWhenSerial ==
    Spec /\ SerialDeployment => []ExclusiveHandOut
<1>1. SerialDeployment /\ LeaseInv => ExclusiveHandOut
  BY Zenon DEF LeaseInv, ExclusiveHandOut, SerialDeployment
<1> QED BY <1>1, LeaseInvariant, PTL

\* In the serial deployment every step of the distributor and its callers is a
\* step of the abstract lease or leaves every lease as it is.
LEMMA LeaseRefinementStep ==
    ASSUME SerialDeployment, TypeOK, HasPort, LeaseInv, [Next]_vars
    PROVE  [Lease!Next]_Leased
<1>0. PICK s \in Sub : Requests = {s}
  BY Zenon DEF SerialDeployment
<1>a. Alone /\ Alone'
  BY Zenon, SameDeployment DEF SerialDeployment, Alone
<1> USE ConstantsAssumption, <1>a DEF TypeOK, HasPort, Holders
<1>1. ASSUME NEW c \in Callers, NEW n \in AllowedPorts, HandOut(c, n)
      PROVE  Lease!Acquire(c, n)
  <2>1. request[c] = s /\ SubProtocols(s) = {s}
    BY Zenon, <1>0 DEF SubProtocols, Sub
  <2>2. \A d \in Callers : Leased[d] # n
    BY <1>0, <1>1, <2>1 DEF HandOut, Candidates, Leased, LeaseInv
  <2>3. Leased[c] = NoPort /\ Leased' = [Leased EXCEPT ![c] = n]
    BY Zenon, <1>1 DEF HandOut, Leased
  <2> QED BY Zenon, <2>2, <2>3 DEF Lease!Acquire
<1>2. ASSUME NEW c \in Callers, BindFails(c) \/ Abandon(c) \/ Close(c)
      PROVE  Lease!Release(c)
  BY Zenon, <1>2 DEF BindFails, Abandon, Close, Leased, Lease!Release
<1>3. ASSUME NEW c \in Callers,
             \/ Refresh(c) \/ SkipReadyPool(c) \/ RefreshList(c)
             \/ RefreshFails(c) \/ RefreshCommit(c) \/ NoPortsAvailable(c)
             \/ \E p \in Requests : GetRandomPort(c, p)
      PROVE  Leased' = Leased
  BY <1>3 DEF Refresh, SkipReadyPool, RefreshList, RefreshFails, NeedsRefresh,
     RefreshCommit, NoPortsAvailable, GetRandomPort, Leased, lease
<1>4. ASSUME NEW c \in Callers, Bind(c) PROVE Leased' = Leased
  BY Zenon, <1>4 DEF Bind, Leased
<1>5. CASE UNCHANGED vars
  BY Zenon, <1>5 DEF vars, Leased
<1>6. /\ \A c \in Callers : ~Reserve(c) /\ ~PinWithoutReserve(c)
      /\ \A c \in Callers, p \in Requests, n \in AllowedPorts : ~CheckLocalPort(c, p, n)
      /\ \A t \in Sub, n \in AllowedPorts : ~OtherBind(t, n) /\ ~OtherClose(t, n)
  BY Zenon, <1>0 DEF Reserve, PinWithoutReserve, CheckLocalPort, OtherBind, OtherClose,
     Alone, LeaseInv
<1> HIDE DEF TypeOK, HasPort, Holders
<1> QED
  BY Zenon, <1>1, <1>2, <1>3, <1>4, <1>5, <1>6 DEF Next, Step, Lease!Next

\* The distributor implements exclusive leases in the serial deployment.
THEOREM LeaseRefinement ==
    Spec /\ SerialDeployment => ImplementsLease
<1>1. Init => Lease!Init
  BY Zenon DEF Init, Lease!Init, Leased, Holders
<1>2. SerialDeployment /\ TypeOK /\ HasPort /\ LeaseInv /\ [Next]_vars
        => [Lease!Next]_Leased
  BY Zenon, LeaseRefinementStep
<1> QED
  BY <1>1, <1>2, TypeCorrect, LeaseInvariant, PTL DEF Spec, ImplementsLease, Lease!Spec
=============================================================================
