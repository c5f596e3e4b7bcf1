------------------------------ MODULE Endpoint ------------------------------
(***************************************************************************)
(* How clients find the API server.                                        *)
(*                                                                         *)
(* The host name comes from the wildcard listener of the Gateway: the      *)
(* controller writes it to the infrastructure cluster, Cluster API copies  *)
(* it to the Cluster, and only then do the TLS routes of the API server    *)
(* and of konnectivity get it.  The address comes from the load balancer   *)
(* of the API server Service: the phase "kubernetes service" writes it to  *)
(* the EndpointSlice and the Endpoints inside the workload cluster, which  *)
(* API servers deployed by earlier versions of the operator maintain too,  *)
(* and empty when they shut down.                                          *)
(*                                                                         *)
(* A domain stands for the host name derived from it.  The phases between  *)
(* the routes and the deployments are modelled elsewhere; here they may    *)
(* end a reconcile.                                                        *)
(***************************************************************************)
EXTENDS Integers

CONSTANTS
    Domain,      \* wildcard domains the Gateway may have a listener for
    Address,     \* addresses the load balancer may get
    Family,      \* the IP family of each address
    Absent,      \* an object that does not exist
    None,        \* a field that is not set
    Hostname,    \* a load balancer that has a host name and no IP
    MaxListens,  \* bound on the edits of the Gateway
    MaxAssigns,  \* bound on the assignments of the load balancer
    MaxFaults    \* bound on failing calls and crashes

ASSUME EndpointAssumption ==
    /\ {Absent, None, Hostname} \cap (Domain \cup Address) = {}
    /\ Absent # None /\ None # Hostname /\ Hostname # Absent
    /\ Family \in [Address -> {"IPv4", "IPv6"}]
    /\ MaxListens \in Nat /\ MaxAssigns \in Nat /\ MaxFaults \in Nat

VARIABLES
    gateway,    \* the domain of the Gateway's TLS wildcard listener
    infra,      \* the host in the infrastructure cluster
    cluster,    \* the host in the Cluster
    service,    \* the first ingress of the API server Service
    routes,     \* the TLS routes: their host, and whether the Gateway accepted them
    servers,    \* the running API servers, by the operator that deployed them
    deployed,   \* this operator has applied its Deployment
    advertised, \* the address the old API servers were started with
    slice,      \* the EndpointSlice: its address and its family
    endpoints,  \* the address in the Endpoints
    pc, mem,    \* the reconcile's phase, and what it has read
    listens, assigns, faults

vars == <<gateway, infra, cluster, service, routes, servers, deployed,
          advertised, slice, endpoints, pc, mem, listens, assigns, faults>>
names == <<gateway, infra, cluster, routes>>
addresses == <<service, servers, deployed, advertised, slice, endpoints>>
bounds == <<listens, assigns, faults>>

Route == {"apiServer", "konnectivity"}
NoRoute == [host |-> Absent, accepted |-> FALSE]
NoSlice == [address |-> Absent, family |-> "none"]
SliceOf(a) == [address |-> a, family |-> Family[a]]
NoMemory == [host |-> None, ip |-> None]

TypeOK ==
    /\ gateway \in Domain \cup {None} /\ infra \in Domain \cup {None}
    /\ cluster \in Domain \cup {None}
    /\ service \in Address \cup {Absent, None, Hostname}
    /\ routes \in [Route -> [host : Domain \cup {Absent}, accepted : BOOLEAN]]
    /\ servers \subseteq {"old", "new"} /\ deployed \in BOOLEAN
    /\ advertised \in Address \cup {None}
    /\ slice \in [address : Address \cup {Absent, None}, family : {"IPv4", "IPv6", "none"}]
    /\ endpoints \in Address \cup {Absent, None}
    /\ pc \in {"idle", "service", "sync", "apiServer", "konnectivity",
               "deployments", "slice", "endpoints"}
    /\ mem \in [host : Domain \cup {None}, ip : Address \cup {None, Hostname}]
    /\ listens \in 0 .. MaxListens /\ assigns \in 0 .. MaxAssigns
    /\ faults \in 0 .. MaxFaults

\* A new control plane; or one an earlier version of the operator has deployed.
Init ==
    /\ pc = "idle" /\ mem = NoMemory
    /\ listens = 0 /\ assigns = 0 /\ faults = 0 /\ deployed = FALSE
    /\ gateway \in Domain
    /\ \/ /\ infra = None /\ cluster = None /\ service = Absent
          /\ routes = [r \in Route |-> NoRoute]
          /\ servers = {} /\ advertised = None /\ slice = NoSlice /\ endpoints = Absent
       \/ /\ infra = gateway /\ cluster = gateway /\ service \in Address
          /\ routes = [r \in Route |-> [host |-> gateway, accepted |-> TRUE]]
          /\ servers = {"old"} /\ advertised = service
          /\ slice = SliceOf(service) /\ endpoints = service

-----------------------------------------------------------------------------
(* The reconcile.                                                          *)

Start ==
    /\ pc = "idle"
    /\ pc' = "service" /\ mem' = [NoMemory EXCEPT !.host = cluster]
    /\ UNCHANGED <<names, addresses, bounds>>

\* The phase is not ready or fails: the reconcile ends, and another follows.
Return == pc' = "idle" /\ mem' = NoMemory

Continue(phase) == pc' = phase /\ UNCHANGED mem

\* The Service is applied, what it is assigned is kept.
reconcileService == service' = IF service = Absent THEN None ELSE service

\* The headless konnectivity Service is ready at once.  The load balancer is
\* when it has an ingress, be it one without an IP.
ReconcileApiServerService ==
    /\ pc = "service"
    /\ reconcileService
    /\ IF service' = None THEN Return
       ELSE pc' = "sync" /\ mem' = [mem EXCEPT !.ip = service]
    /\ UNCHANGED <<names, servers, deployed, advertised, slice, endpoints, bounds>>

\* Mutant: the phase is done once the endpoint is published.
SyncControlPlaneEndpointUnconfirmed ==
    /\ pc = "sync"
    /\ IF gateway = None THEN Return /\ UNCHANGED infra
       ELSE infra' = gateway /\ Continue("apiServer")
    /\ UNCHANGED <<gateway, cluster, routes, addresses, bounds>>

\* The endpoint is published, and the phase waits until the Cluster, as it was
\* read when the reconcile started, has the same one.
SyncControlPlaneEndpoint ==
    /\ pc = "sync"
    /\ IF gateway = None THEN Return /\ UNCHANGED infra
       ELSE /\ infra' = gateway
            /\ IF mem.host = gateway THEN Continue("apiServer") ELSE Return
    /\ UNCHANGED <<gateway, cluster, routes, addresses, bounds>>

\* Mutant: the route gets the host of the listener the Gateway has by now.
applyAndCheckTLSRouteListener(r, next) ==
    /\ pc = r
    /\ routes' = [routes EXCEPT ![r].host = IF gateway = None THEN mem.host ELSE gateway]
    /\ IF routes[r].accepted THEN Continue(next) ELSE Return
    /\ UNCHANGED <<gateway, infra, cluster, addresses, bounds>>

\* A route is applied; what its status says may be about the route before.
applyAndCheckTLSRoute(r, next) ==
    /\ pc = r
    /\ routes' = [routes EXCEPT ![r].host = mem.host]
    /\ IF routes[r].accepted THEN Continue(next) ELSE Return
    /\ UNCHANGED <<gateway, infra, cluster, addresses, bounds>>

ReconcileTLSRoutes ==
    \/ applyAndCheckTLSRoute("apiServer", "konnectivity")
    \/ applyAndCheckTLSRoute("konnectivity", "deployments")

\* The Deployment is ready with one available replica, old or new.
ReconcileApiServerDeployments ==
    /\ pc = "deployments"
    /\ deployed' = TRUE
    /\ IF servers = {} THEN Return ELSE Continue("slice")
    /\ UNCHANGED <<names, service, servers, advertised, slice, endpoints, bounds>>

\* Without an IP the phase waits.  The API server refuses another family for
\* an EndpointSlice that exists.
applyEndpointSlice ==
    /\ pc = "slice"
    /\ IF mem.ip = Hostname THEN Return /\ UNCHANGED slice
       ELSE IF slice.family \notin {Family[mem.ip], "none"} THEN Return /\ UNCHANGED slice
       ELSE slice' = SliceOf(mem.ip) /\ Continue("endpoints")
    /\ UNCHANGED <<names, service, servers, deployed, advertised, endpoints, bounds>>

\* Mutant: the endpoint list nobody should read any more is left alone.
applyEndpointsNot ==
    /\ pc = "endpoints"
    /\ Return
    /\ UNCHANGED <<names, addresses, bounds>>

applyEndpoints ==
    /\ pc = "endpoints"
    /\ endpoints' = mem.ip
    /\ Return
    /\ UNCHANGED <<names, service, servers, deployed, advertised, slice, bounds>>

\* A call fails, a phase modelled elsewhere is not ready, or the operator
\* restarts.
StepFails ==
    /\ pc # "idle" /\ faults < MaxFaults
    /\ faults' = faults + 1
    /\ Return
    /\ UNCHANGED <<names, addresses, listens, assigns>>

-----------------------------------------------------------------------------
(* Users, Cluster API, the Gateway and the management cluster.             *)

\* The wildcard listener is removed, or renamed.
EditGateway ==
    /\ listens < MaxListens
    /\ listens' = listens + 1
    /\ gateway' \in (Domain \cup {None}) \ {gateway}
    /\ UNCHANGED <<infra, cluster, routes, addresses, pc, mem, assigns, faults>>

\* Cluster API copies the endpoint once; a Cluster that has one keeps it.
CopyEndpoint ==
    /\ cluster = None /\ infra # None
    /\ cluster' = infra
    /\ UNCHANGED <<gateway, infra, routes, addresses, pc, mem, bounds>>

\* The Gateway looks at a route again.
AcceptRoute(r) ==
    /\ routes[r] # NoRoute
    /\ routes[r].accepted # (routes[r].host = gateway)
    /\ routes' = [routes EXCEPT ![r].accepted = (routes[r].host = gateway)]
    /\ UNCHANGED <<gateway, infra, cluster, addresses, pc, mem, bounds>>

\* The load balancer is assigned, or gets another address.
AssignAddress ==
    /\ service # Absent
    /\ assigns < MaxAssigns \/ service = None
    /\ assigns' = IF service = None THEN assigns ELSE assigns + 1
    /\ service' \in (Address \cup {Hostname}) \ {service}
    /\ UNCHANGED <<names, servers, deployed, advertised, slice, endpoints, pc, mem,
                   listens, faults>>

\* The Deployment surges: new servers come before old ones go.
StartServer ==
    /\ deployed /\ "new" \notin servers
    /\ servers' = servers \cup {"new"}
    /\ UNCHANGED <<names, service, deployed, advertised, slice, endpoints, pc, mem, bounds>>

\* The lease reconciler of an old server publishes the address it advertises.
PublishOldAddress ==
    /\ "old" \in servers
    /\ slice' = SliceOf(advertised) /\ endpoints' = advertised
    /\ UNCHANGED <<names, service, servers, deployed, advertised, pc, mem, bounds>>

\* The lease reconciler of an old server takes the address away with it.
StopOldServer ==
    /\ servers = {"old", "new"}
    /\ servers' = {"new"}
    /\ slice' = [slice EXCEPT !.address = None] /\ endpoints' = None
    /\ UNCHANGED <<names, service, deployed, advertised, pc, mem, bounds>>

-----------------------------------------------------------------------------
Reconcile ==
    \/ Start \/ ReconcileApiServerService \/ SyncControlPlaneEndpoint
    \/ ReconcileTLSRoutes \/ ReconcileApiServerDeployments
    \/ applyEndpointSlice \/ applyEndpoints

Next ==
    \/ Reconcile \/ StepFails
    \/ EditGateway \/ CopyEndpoint \/ AssignAddress \/ StartServer
    \/ PublishOldAddress \/ StopOldServer
    \/ \E r \in Route : AcceptRoute(r)

Spec == Init /\ [][Next]_vars

\* Every reconcile requeues, and everybody else looks at changes eventually.
FairSpec ==
    /\ Spec
    /\ WF_vars(Reconcile)
    /\ WF_vars(CopyEndpoint) /\ WF_vars(service = None /\ AssignAddress)
    /\ WF_vars(StartServer) /\ WF_vars(StopOldServer)
    /\ \A r \in Route : WF_vars(AcceptRoute(r))

-----------------------------------------------------------------------------
(* Properties.                                                             *)

\* A route never asks for a host the Cluster does not have, nor for none: not
\* before the endpoint is known, not after the Gateway was renamed, and not from
\* a Cluster that was read too early.  Certificates and kubeconfigs have the
\* Cluster's host.
RoutesServeTheCluster ==
    \A r \in Route : routes[r] # NoRoute => routes[r].host = cluster /\ cluster # None

\* Whenever the load balancer keeps an IP of the family the EndpointSlice has,
\* and the Gateway the domain the Cluster got, the workload cluster ends up with
\* that address in both objects, however late the old API servers empty them,
\* and both routes are accepted.
EndpointsFollowService ==
    <>[](/\ service \in Address /\ slice.family \in {Family[service], "none"}
         /\ gateway # None /\ cluster \in {None, gateway})
      => <>[](/\ slice.address = service /\ endpoints = service
              /\ \A r \in Route : routes[r] = [host |-> gateway, accepted |-> TRUE])

-----------------------------------------------------------------------------
(* Inductive strengthening, used by the proofs.                            *)

\* What a reconcile has read by the time it needs it, and what the old servers
\* have to publish.
ReadInv ==
    /\ pc \notin {"idle", "service"} => mem.ip # None
    /\ pc = "endpoints" => mem.ip # Hostname
    /\ "old" \in servers => advertised # None

\* The Cluster never changes its host: what a reconcile read of it is none or
\* still true, and it is not none once the endpoint was confirmed.
HostInv ==
    /\ mem.host \in {None, cluster}
    /\ pc \in {"apiServer", "konnectivity"} => mem.host # None
    /\ RoutesServeTheCluster

=============================================================================
