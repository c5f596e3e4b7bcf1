--------------------------- MODULE EndpointProofs ---------------------------
(***************************************************************************)
(* Proofs about Endpoint, for every set of domains and addresses and every *)
(* number of edits, assignments and faults.                                *)
(***************************************************************************)
EXTENDS Endpoint, TLAPS

\* The parts of the type invariant the steps of the reconcile use.
LEMMA Constants ==
    /\ Absent \notin Domain \cup Address /\ None \notin Domain \cup Address
    /\ Hostname \notin Domain \cup Address
    /\ Absent # None /\ None # Hostname /\ Hostname # Absent
    /\ MaxListens \in Nat /\ MaxAssigns \in Nat /\ MaxFaults \in Nat
BY EndpointAssumption

\* The slice of an address has the types of a slice.
LEMMA SliceType ==
    ASSUME NEW a \in Address
    PROVE  SliceOf(a) \in [address : Address \cup {Absent, None},
                           family : {"IPv4", "IPv6", "none"}]
<1>1. Family[a] \in {"IPv4", "IPv6"}
  BY EndpointAssumption
<1> QED BY <1>1 DEF SliceOf

\* The invariants hold at first.
LEMMA InitInv == Init => TypeOK /\ ReadInv /\ HostInv
<1> SUFFICES ASSUME Init PROVE TypeOK /\ ReadInv /\ HostInv
  OBVIOUS
<1> USE Constants
<1>1. /\ pc = "idle" /\ mem = [host |-> None, ip |-> None]
      /\ listens = 0 /\ assigns = 0 /\ faults = 0 /\ deployed = FALSE
      /\ gateway \in Domain
  BY DEF Init, NoMemory
<1>b. 0 \in 0 .. MaxListens /\ 0 \in 0 .. MaxAssigns /\ 0 \in 0 .. MaxFaults
  OBVIOUS
<1>2. CASE /\ infra = None /\ cluster = None /\ service = Absent
           /\ routes = [r \in Route |-> NoRoute]
           /\ servers = {} /\ advertised = None /\ slice = NoSlice /\ endpoints = Absent
  <2>1. TypeOK
    <3>1. routes \in [Route -> [host : Domain \cup {Absent}, accepted : BOOLEAN]]
      BY <1>2 DEF NoRoute
    <3>2. slice \in [address : Address \cup {Absent, None}, family : {"IPv4", "IPv6", "none"}]
      BY <1>2 DEF NoSlice
    <3> QED BY <1>1, <1>2, <1>b, <3>1, <3>2 DEF TypeOK
  <2>2. ReadInv /\ HostInv
    BY <1>1, <1>2 DEF ReadInv, HostInv, RoutesServeTheCluster
  <2> QED BY <2>1, <2>2
<1>3. CASE /\ infra = gateway /\ cluster = gateway /\ service \in Address
           /\ routes = [r \in Route |-> [host |-> gateway, accepted |-> TRUE]]
           /\ servers = {"old"} /\ advertised = service
           /\ slice = SliceOf(service) /\ endpoints = service
  <2>1. slice \in [address : Address \cup {Absent, None}, family : {"IPv4", "IPv6", "none"}]
    BY <1>3, SliceType
  <2>2. TypeOK
    <3>1. routes \in [Route -> [host : Domain \cup {Absent}, accepted : BOOLEAN]]
      BY <1>1, <1>3
    <3> QED BY <1>1, <1>3, <1>b, <2>1, <3>1 DEF TypeOK
  <2>3. ReadInv /\ HostInv
    BY <1>1, <1>3 DEF ReadInv, HostInv, RoutesServeTheCluster
  <2> QED BY <2>2, <2>3
<1> QED BY <1>2, <1>3 DEF Init

\* Every step keeps the types and what a reconcile has read.
LEMMA TypeStep == TypeOK /\ ReadInv /\ HostInv /\ [Next]_vars => TypeOK' /\ ReadInv'
<1> SUFFICES ASSUME TypeOK, ReadInv, HostInv, [Next]_vars PROVE TypeOK' /\ ReadInv'
  OBVIOUS
<1> USE Constants
<1>a. NoMemory \in [host : Domain \cup {None}, ip : Address \cup {None, Hostname}]
  BY DEF NoMemory
<1>1. CASE Start
  BY <1>1 DEF Start, TypeOK, ReadInv, NoMemory, names, addresses, bounds
<1>2. CASE ReconcileApiServerService
  BY <1>2, <1>a DEF ReconcileApiServerService, reconcileService, Return, TypeOK, ReadInv, names, bounds
<1>3. CASE SyncControlPlaneEndpoint
  BY <1>3, <1>a DEF SyncControlPlaneEndpoint, Return, Continue, TypeOK, ReadInv, addresses, bounds
<1>r. "apiServer" \in Route /\ "konnectivity" \in Route
  BY DEF Route
<1>4. CASE ReconcileTLSRoutes
  <2>1. PICK r \in Route : /\ pc = r
                           /\ routes' = [routes EXCEPT ![r].host = mem.host]
                           /\ Return \/ (pc' \in {"konnectivity", "deployments"} /\ mem' = mem)
                           /\ UNCHANGED <<gateway, infra, cluster, addresses, bounds>>
    <3>1. CASE applyAndCheckTLSRoute("apiServer", "konnectivity")
      <4>1. /\ pc = "apiServer"
            /\ routes' = [routes EXCEPT !["apiServer"].host = mem.host]
            /\ Return \/ (pc' \in {"konnectivity", "deployments"} /\ mem' = mem)
            /\ UNCHANGED <<gateway, infra, cluster, addresses, bounds>>
        BY <3>1 DEF applyAndCheckTLSRoute, Continue
      <4> QED BY <4>1, <1>r, Zenon
    <3>2. CASE applyAndCheckTLSRoute("konnectivity", "deployments")
      <4>1. /\ pc = "konnectivity"
            /\ routes' = [routes EXCEPT !["konnectivity"].host = mem.host]
            /\ Return \/ (pc' \in {"konnectivity", "deployments"} /\ mem' = mem)
            /\ UNCHANGED <<gateway, infra, cluster, addresses, bounds>>
        BY <3>2 DEF applyAndCheckTLSRoute, Continue
      <4> QED BY <4>1, <1>r, Zenon
    <3> QED BY <1>4, <3>1, <3>2 DEF ReconcileTLSRoutes
  <2>2. mem.host \in Domain
    BY <2>1 DEF HostInv, TypeOK, Route
  <2>3. routes' \in [Route -> [host : Domain \cup {Absent}, accepted : BOOLEAN]]
    BY <2>1, <2>2 DEF TypeOK
  <2>4. mem.ip # None
    BY <2>1 DEF ReadInv, Route
  <2> QED BY <2>1, <2>3, <2>4, <1>a DEF Return, TypeOK, ReadInv, addresses, bounds
<1>5. CASE ReconcileApiServerDeployments
  BY <1>5, <1>a DEF ReconcileApiServerDeployments, Return, Continue, TypeOK, ReadInv, names, bounds
<1>6. CASE applyEndpointSlice
  BY <1>6, <1>a, SliceType DEF applyEndpointSlice, Return, Continue, TypeOK, ReadInv, names, bounds
<1>7. CASE applyEndpoints
  BY <1>7, <1>a DEF applyEndpoints, Return, TypeOK, ReadInv, names, bounds
<1>8. CASE StepFails
  BY <1>8, <1>a DEF StepFails, Return, TypeOK, ReadInv, names, addresses
<1>9. CASE EditGateway
  BY <1>9 DEF EditGateway, TypeOK, ReadInv, addresses
<1>10. CASE CopyEndpoint
  BY <1>10 DEF CopyEndpoint, TypeOK, ReadInv, addresses, bounds
<1>11. CASE AssignAddress
  BY <1>11 DEF AssignAddress, TypeOK, ReadInv, names
<1>12. CASE StartServer
  BY <1>12 DEF StartServer, TypeOK, ReadInv, names, bounds
<1>13. CASE PublishOldAddress
  <2>1. advertised \in Address
    BY <1>13 DEF PublishOldAddress, TypeOK, ReadInv
  <2> QED BY <1>13, <2>1, SliceType DEF PublishOldAddress, TypeOK, ReadInv, names, bounds
<1>14. CASE StopOldServer
  BY <1>14 DEF StopOldServer, TypeOK, ReadInv, names, bounds
<1>15. CASE \E r \in Route : AcceptRoute(r)
  <2>1. PICK r \in Route :
           \E b \in BOOLEAN : routes' = [routes EXCEPT ![r].accepted = b]
    <3>1. PICK r \in Route :
             routes' = [routes EXCEPT ![r].accepted = (routes[r].host = gateway)]
      BY <1>15 DEF AcceptRoute
    <3>2. (routes[r].host = gateway) \in BOOLEAN
      OBVIOUS
    <3> QED BY <3>1, <3>2, Zenon
  <2>2. routes' \in [Route -> [host : Domain \cup {Absent}, accepted : BOOLEAN]]
    BY <2>1 DEF TypeOK
  <2> QED BY <1>15, <2>2 DEF AcceptRoute, TypeOK, ReadInv, addresses, bounds
<1>16. CASE UNCHANGED vars
  BY <1>16 DEF vars, TypeOK, ReadInv
<1> QED
  BY <1>1, <1>2, <1>3, <1>4, <1>5, <1>6, <1>7, <1>8, <1>9, <1>10, <1>11, <1>12, <1>13,
     <1>14, <1>15, <1>16 DEF Next, Reconcile

\* Every step keeps the host a reconcile has read that of the Cluster, or none.
LEMMA HostStep == TypeOK /\ HostInv /\ [Next]_vars => HostInv'
<1> SUFFICES ASSUME TypeOK, HostInv, [Next]_vars PROVE HostInv'
  OBVIOUS
<1> USE Constants
<1>1. CASE Start
  BY <1>1 DEF Start, HostInv, RoutesServeTheCluster, NoMemory, names, TypeOK
<1>2. CASE ReconcileApiServerService
  BY <1>2 DEF ReconcileApiServerService, reconcileService, Return, NoMemory, HostInv, RoutesServeTheCluster, names, TypeOK
<1>3. CASE SyncControlPlaneEndpoint
  BY <1>3 DEF SyncControlPlaneEndpoint, Return, Continue, NoMemory, HostInv, RoutesServeTheCluster,
        TypeOK
<1>4. CASE ReconcileTLSRoutes
  <2>1. PICK r \in Route : /\ pc = r
                           /\ routes' = [routes EXCEPT ![r].host = mem.host]
                           /\ Return \/ mem' = mem
                           /\ UNCHANGED cluster
    BY <1>4 DEF ReconcileTLSRoutes, applyAndCheckTLSRoute, Continue, Route
  <2>2. mem.host = cluster /\ cluster # None
    BY <2>1 DEF HostInv, Route
  <2>3. \A q \in Route : routes'[q] # NoRoute => routes'[q].host = cluster
    BY <2>1, <2>2 DEF HostInv, RoutesServeTheCluster, TypeOK
  <2>4. mem'.host \in {None, cluster}
    BY <2>1, <2>2 DEF Return, NoMemory
  <2>5. pc' \in {"apiServer", "konnectivity"} => mem'.host # None
    BY <1>4, <2>2 DEF ReconcileTLSRoutes, applyAndCheckTLSRoute, Continue, Return
  <2> QED BY <2>1, <2>2, <2>3, <2>4, <2>5 DEF HostInv, RoutesServeTheCluster
<1>5. CASE ReconcileApiServerDeployments
  BY <1>5 DEF ReconcileApiServerDeployments, Return, Continue, NoMemory, HostInv,
        RoutesServeTheCluster, names
<1>6. CASE applyEndpointSlice
  BY <1>6 DEF applyEndpointSlice, Return, Continue, NoMemory, HostInv, RoutesServeTheCluster, names
<1>7. CASE applyEndpoints
  BY <1>7 DEF applyEndpoints, Return, NoMemory, HostInv, RoutesServeTheCluster, names
<1>8. CASE StepFails
  BY <1>8 DEF StepFails, Return, NoMemory, HostInv, RoutesServeTheCluster, names
<1>9. CASE CopyEndpoint
  BY <1>9 DEF CopyEndpoint, HostInv, RoutesServeTheCluster
<1>10. CASE \E r \in Route : AcceptRoute(r)
  <2>1. PICK r \in Route : /\ routes[r] # NoRoute
                           /\ routes' = [routes EXCEPT ![r].accepted = (routes[r].host = gateway)]
                           /\ UNCHANGED <<cluster, pc, mem>>
    BY <1>10 DEF AcceptRoute
  <2>2. \A q \in Route : /\ routes'[q].host = routes[q].host
                          /\ routes'[q] # NoRoute => routes[q] # NoRoute
    BY <2>1 DEF TypeOK
  <2> QED BY <2>1, <2>2 DEF HostInv, RoutesServeTheCluster
<1>11. CASE EditGateway \/ AssignAddress \/ StartServer \/ PublishOldAddress \/ StopOldServer
  BY <1>11 DEF EditGateway, AssignAddress, StartServer, PublishOldAddress, StopOldServer, HostInv,
        RoutesServeTheCluster, names
<1>12. CASE UNCHANGED vars
  BY <1>12 DEF vars, HostInv, RoutesServeTheCluster
<1> QED
  BY <1>1, <1>2, <1>3, <1>4, <1>5, <1>6, <1>7, <1>8, <1>9, <1>10, <1>11, <1>12
  DEF Next, Reconcile

\* The invariants hold together in every reachable state.
LEMMA EndpointInvariant == Spec => [](TypeOK /\ ReadInv /\ HostInv)
<1>1. TypeOK /\ ReadInv /\ HostInv /\ [Next]_vars => (TypeOK /\ ReadInv /\ HostInv)'
  BY TypeStep, HostStep
<1> QED BY <1>1, InitInv, PTL DEF Spec

\* Every reachable state is well typed: an address is written to the workload
\* cluster only once the load balancer has an IP, and no route has an empty host.
THEOREM TypeCorrect == Spec => []TypeOK
BY EndpointInvariant, PTL

\* The routes ask for the host the Cluster has, whatever happens to the Gateway.
THEOREM RoutesAlwaysServeTheCluster == Spec => []RoutesServeTheCluster
<1>1. HostInv => RoutesServeTheCluster
  BY DEF HostInv
<1> QED BY <1>1, EndpointInvariant, PTL

=============================================================================
