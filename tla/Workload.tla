------------------------------ MODULE Workload ------------------------------
(***************************************************************************)
(* The last phase of a reconcile: what the controller sets up inside the   *)
(* workload cluster (pkg/reconcilers/workload).  Seven phases, each with a *)
(* condition of its own, apply RBAC, the configuration that lets nodes     *)
(* join, and the add-ons kube-proxy, CoreDNS and konnectivity.  The add-on *)
(* workloads carry a network policy and a disruption budget as dependents, *)
(* which the generic reconcilers (pkg/reconcilers/reconciler.go) keep and  *)
(* the garbage collector removes once their owner is gone.                 *)
(*                                                                         *)
(* One step is one object, or one dependent of it, as every call may fail  *)
(* or be the last before a crash.  What a run finds is in mem until the    *)
(* patch at its end writes it to the stored conditions.                    *)
(*                                                                         *)
(* Simplifications: the accounts, roles and bindings of one group are one  *)
(* object; a run begins with the stored conditions (ControlPlane has the   *)
(* lagging cache); a run that gets no client for the workload cluster      *)
(* changes nothing; the Service of CoreDNS, with its given address, is     *)
(* ready when applied; objects are changed by nobody else.                 *)
(***************************************************************************)
EXTENDS Integers, Sequences, FiniteSetsExt

CONSTANTS
    Replicas,   \* spec.coreDNS.replicas and spec.konnectivityClient.replicas
    MaxNodes,   \* bound: nodes that join
    MaxEdits,   \* bound: kube-proxy switched, Cilium installed, new releases
    MaxFaults   \* bound: failed calls, crashes, lost pods and lost nodes

ASSUME ConstantsAssumption ==
    /\ Replicas \in Nat \ {0} /\ MaxNodes \in Nat \ {0}
    /\ MaxEdits \in Nat /\ MaxFaults \in Nat

-----------------------------------------------------------------------------
(* The phases and their objects, in the order they are reconciled.          *)

nodePhases ==
    << <<"RBAC", "bootstrapRBAC">>, <<"RBAC", "configRBAC">>,
       <<"clusterInfo", "clusterInfo">>,
       <<"kubeadmConfig", "kubeadmConfig">>,
       <<"kubeletConfig", "kubeletConfig">> >>

kubeProxyPhases ==
    << <<"kubeProxy", "kubeProxyConfig">>, <<"kubeProxy", "kubeProxyRBAC">>,
       <<"kubeProxy", "kubeProxyDaemonSet">> >>

coreDNSPhases ==
    << <<"coreDNS", "coreDNSRBAC">>, <<"coreDNS", "coreDNSConfig">>,
       <<"coreDNS", "coreDNSDeployment">>, <<"coreDNS", "coreDNSService">> >>

konnectivityPhases ==
    << <<"konnectivity", "konnectivityRBAC">>,
       <<"konnectivity", "konnectivityDeployment">> >>

\* Mutant: CoreDNS, which waits for a node, before what lets a node join.
workloadPhasesDNSFirst ==
    coreDNSPhases \o nodePhases \o kubeProxyPhases \o konnectivityPhases

workloadPhases ==
    nodePhases \o kubeProxyPhases \o coreDNSPhases \o konnectivityPhases

Step == 1 .. Len(workloadPhases)

Phase == {workloadPhases[i][1] : i \in Step}

Object == {workloadPhases[i][2] : i \in Step}

ObjectsOf(p) == {workloadPhases[i][2] : i \in {j \in Step : workloadPhases[j][1] = p}}

Deployments == {"coreDNSDeployment", "konnectivityDeployment"}

Workloads == Deployments \cup {"kubeProxyDaemonSet"}

\* The groups of roles and bindings generated for nodes and their bootstrap:
\* those of the tokens, and those of the configuration and the administrators.
RBACResources == {"bootstrapRBAC", "configRBAC"}

\* Groups with bindings that are deleted when they cannot be changed.
Bindings == RBACResources \cup {"konnectivityRBAC"}

\* What kubeadm needs to let a node join.
Bootstrap == UNION {ObjectsOf(p) : p \in {"RBAC", "clusterInfo", "kubeadmConfig", "kubeletConfig"}}

\* What the pods of a workload need, and what its checksums are made of.
Mounts(w) ==
    CASE w = "kubeProxyDaemonSet"     -> {"kubeProxyConfig"}
      [] w = "coreDNSDeployment"      -> {"coreDNSConfig"}
      [] w = "konnectivityDeployment" -> {}

Dependent == {"networkPolicy", "ciliumPolicy", "budget"}

VARIABLES
    kubeProxy,  \* spec.kubeProxy is enabled
    cilium,     \* the workload cluster serves Cilium's API group
    nodes,      \* number of nodes
    object,     \* each object: absent, applied, or applied by a former release
                \* with fields that cannot be changed
    replicas,   \* spec.replicas of each Deployment
    status,     \* status of each workload: none (all zero), pending (pods that
                \* are not available), available
    dependent,  \* each dependent of a workload: absent, owned by the workload,
                \* or dangling, its owner being deleted
    condition,  \* the stored conditions
    pc,         \* the step of the run in flight; 0: none
    stage,      \* what of the step comes next
    run,        \* what the run read: kube-proxy's switch, Cilium's API group
    ready,      \* the applied workload was ready
    mem,        \* the conditions the run worked on
    dirty,      \* phases worked on with no result stored since
    edits, faults

specVars  == <<kubeProxy, cilium>>
worldVars == <<nodes, object, replicas, status, dependent>>
runVars   == <<pc, stage, run, ready, mem>>
vars      == <<specVars, worldVars, condition, runVars, dirty, edits, faults>>

Stages == {"object", "policy", "cilium", "budget", "patch"}

Conditions == [Phase -> {"Absent", "True", "False"}]

TypeOK ==
    /\ kubeProxy \in BOOLEAN /\ cilium \in BOOLEAN /\ nodes \in 0 .. MaxNodes
    /\ object \in [Object -> {"absent", "applied", "outdated"}]
    /\ replicas \in [Deployments -> 1 .. Replicas]
    /\ status \in [Workloads -> {"none", "pending", "available"}]
    /\ dependent \in [Dependent -> [Workloads -> {"absent", "owned", "dangling"}]]
    /\ condition \in Conditions /\ mem \in Conditions
    /\ pc \in 0 .. Len(workloadPhases) /\ stage \in Stages
    /\ run \in [kubeProxy : BOOLEAN, cilium : BOOLEAN]
    /\ ready \in BOOLEAN /\ dirty \subseteq Phase
    /\ edits \in 0 .. MaxEdits /\ faults \in 0 .. MaxFaults

Init ==
    /\ kubeProxy \in BOOLEAN /\ cilium = FALSE /\ nodes = 0
    /\ object = [o \in Object |-> "absent"]
    /\ replicas = [w \in Deployments |-> 1]
    /\ status = [w \in Workloads |-> "none"]
    /\ dependent = [d \in Dependent |-> [w \in Workloads |-> "absent"]]
    /\ condition = [p \in Phase |-> "Absent"] /\ mem = condition
    /\ pc = 0 /\ stage = "object" /\ ready = FALSE
    /\ run = [kubeProxy |-> FALSE, cilium |-> FALSE]
    /\ dirty = {} /\ edits = 0 /\ faults = 0

-----------------------------------------------------------------------------
(* A run over the phases.                                                   *)

phase == workloadPhases[pc][1]

current == workloadPhases[pc][2]

\* The controller's requeue begins a run; it reads the specification, and
\* asks the workload cluster for its API groups.
BeginRun ==
    /\ pc = 0
    /\ pc' = 1
    /\ run' = [kubeProxy |-> kubeProxy, cilium |-> cilium]
    /\ UNCHANGED <<specVars, worldVars, condition, stage, ready, mem, dirty, edits, faults>>

\* This run removes kube-proxy.
Deleting == phase = "kubeProxy" /\ ~run.kubeProxy

AtObject(S) == pc > 0 /\ stage = "object" /\ current \in S

\* The step is done: the next one follows, and a phase without further steps
\* is ready.
Proceed ==
    LET more == pc < Len(workloadPhases)
        last == ~more \/ workloadPhases[pc + 1][1] # phase
    IN  /\ mem' = IF last THEN [mem EXCEPT ![phase] = "True"] ELSE mem
        /\ pc' = IF more THEN pc + 1 ELSE pc
        /\ stage' = IF more THEN "object" ELSE "patch"
        /\ ready' = FALSE
        /\ UNCHANGED run

\* The phase failed or is not ready: the run ends.
Stop ==
    /\ mem' = [mem EXCEPT ![phase] = "False"]
    /\ stage' = "patch" /\ ready' = FALSE
    /\ UNCHANGED <<pc, run>>

Touch == dirty' = dirty \cup {phase}

\* Deleted in the background: the dependents of a workload remain at first.
Remove(o) ==
    /\ object' = [object EXCEPT ![o] = "absent"]
    /\ status' = [w \in Workloads |-> IF w = o THEN "none" ELSE status[w]]
    /\ dependent' = [d \in Dependent |-> [w \in Workloads |->
            IF w = o /\ dependent[d][w] = "owned" THEN "dangling" ELSE dependent[d][w]]]

ApplyObject ==
    /\ AtObject(Object \ Workloads) /\ ~Deleting
    /\ current \in Bindings => object[current] # "outdated"
    /\ object' = [object EXCEPT ![current] = "applied"]
    /\ Proceed /\ Touch
    /\ UNCHANGED <<specVars, nodes, replicas, status, dependent, condition, edits, faults>>

\* A binding or a workload that cannot be changed is deleted; a later run
\* creates it.
RecreateObject ==
    /\ AtObject(Bindings \cup Workloads) /\ ~Deleting
    /\ object[current] = "outdated"
    /\ Remove(current)
    /\ Stop /\ Touch
    /\ UNCHANGED <<specVars, nodes, replicas, condition, edits, faults>>

\* What of a disabled kube-proxy is there is deleted; nothing is waited for.
DeleteObject ==
    /\ AtObject(Object) /\ Deleting
    /\ Remove(current)
    /\ Proceed /\ Touch
    /\ UNCHANGED <<specVars, nodes, replicas, condition, edits, faults>>

Mounted(w) == \A o \in Mounts(w) : object[o] # "absent"

\* Mutant: no Deployment without nodes.
replicaCountOfNodes == Min({nodes, Replicas})

\* One pod per node at most, but one where there is no node yet.
replicaCount == Min({Max({1, nodes}), Replicas})

\* A DaemonSet is ready when as many pods are available as are desired, zero
\* of zero included; a Deployment with one available replica.
readinessCheck(w) ==
    status[w] = "available" \/ (w \notin Deployments /\ status[w] = "none")

\* The answer to the apply carries the status the workload had.
ApplyWorkload ==
    /\ AtObject(Workloads) /\ ~Deleting
    /\ object[current] # "outdated" /\ Mounted(current)
    /\ object' = [object EXCEPT ![current] = "applied"]
    /\ replicas' = [w \in Deployments |-> IF w = current THEN replicaCount ELSE replicas[w]]
    /\ ready' = readinessCheck(current)
    /\ stage' = "policy"
    /\ Touch
    /\ UNCHANGED <<specVars, nodes, status, dependent, condition, pc, run, mem, edits, faults>>

\* A workload that is not ready ends the run; a Deployment that is gets its
\* disruption budget.
AfterPolicies ==
    \/ ~ready /\ Stop
    \/ ready /\ current \notin Deployments /\ Proceed
    \/ ready /\ current \in Deployments /\ stage' = "budget" /\ UNCHANGED <<pc, run, ready, mem>>

SetDependent(d, value) == dependent' = [dependent EXCEPT ![d][current] = value]

reconcileKubernetesNetworkPolicy ==
    /\ pc > 0 /\ stage = "policy" /\ ~run.cilium
    /\ SetDependent("networkPolicy", "owned")
    /\ AfterPolicies
    /\ UNCHANGED <<specVars, nodes, object, replicas, status, condition, dirty, edits, faults>>

\* Mutant: the Kubernetes policy stays beside that of Cilium.
KeepNetworkPolicy ==
    /\ pc > 0 /\ stage = "policy" /\ run.cilium
    /\ stage' = "cilium"
    /\ UNCHANGED <<specVars, worldVars, condition, pc, run, ready, mem, dirty, edits, faults>>

\* With Cilium the Kubernetes policy goes first.
DeleteNetworkPolicy ==
    /\ pc > 0 /\ stage = "policy" /\ run.cilium
    /\ SetDependent("networkPolicy", "absent")
    /\ stage' = "cilium"
    /\ UNCHANGED <<specVars, nodes, object, replicas, status, condition, pc, run, ready, mem,
                   dirty, edits, faults>>

reconcileCiliumNetworkPolicy ==
    /\ pc > 0 /\ stage = "cilium"
    /\ SetDependent("ciliumPolicy", "owned")
    /\ AfterPolicies
    /\ UNCHANGED <<specVars, nodes, object, replicas, status, condition, dirty, edits, faults>>

\* No budget for a single replica: it would forbid every eviction.
reconcilePodDisruptionBudget ==
    /\ pc > 0 /\ stage = "budget"
    /\ SetDependent("budget", IF replicas[current] > 1 THEN "owned" ELSE "absent")
    /\ Proceed
    /\ UNCHANGED <<specVars, nodes, object, replicas, status, condition, dirty, edits, faults>>

Fault == faults < MaxFaults /\ faults' = faults + 1

Missing == AtObject(Workloads) /\ ~Deleting /\ ~Mounted(current)

\* A call fails, or the checksums need an object that is not there.
Fail ==
    /\ pc > 0 /\ stage # "patch"
    /\ IF Missing THEN UNCHANGED faults ELSE Fault
    /\ Stop /\ Touch
    /\ UNCHANGED <<specVars, worldVars, condition, edits>>

EndRun ==
    /\ pc' = 0 /\ stage' = "object" /\ ready' = FALSE
    /\ run' = [kubeProxy |-> FALSE, cilium |-> FALSE]

\* The deferred patch; the phases the run reached are as it says.
Patch ==
    /\ stage = "patch"
    /\ condition' = mem
    /\ dirty' = dirty \ {workloadPhases[i][1] : i \in 1 .. pc}
    /\ EndRun
    /\ UNCHANGED <<specVars, worldVars, mem, edits, faults>>

\* The process stops, or the patch fails: what the run found is lost.
Abandon ==
    /\ pc > 0 /\ Fault
    /\ mem' = condition
    /\ EndRun
    /\ UNCHANGED <<specVars, worldVars, condition, dirty, edits>>

Controller ==
    \/ BeginRun \/ ApplyObject \/ RecreateObject \/ DeleteObject \/ ApplyWorkload
    \/ reconcileKubernetesNetworkPolicy \/ DeleteNetworkPolicy \/ reconcileCiliumNetworkPolicy
    \/ reconcilePodDisruptionBudget \/ Patch

-----------------------------------------------------------------------------
(* The workload cluster and its users.                                      *)

\* The garbage collector.
CollectGarbage(d, w) ==
    /\ dependent[d][w] = "dangling"
    /\ dependent' = [dependent EXCEPT ![d][w] = "absent"]
    /\ UNCHANGED <<specVars, nodes, object, replicas, status, condition, runVars, dirty, edits, faults>>

\* A machine joins by kubeadm; the DaemonSet wants a pod on it.
NodeJoins ==
    /\ nodes < MaxNodes
    /\ \A o \in Bootstrap : object[o] # "absent"
    /\ nodes' = nodes + 1
    /\ status' = [w \in Workloads |->
            IF w \notin Deployments /\ object[w] # "absent" THEN "pending" ELSE status[w]]
    /\ UNCHANGED <<specVars, object, replicas, dependent, condition, runVars, dirty, edits, faults>>

\* The last node takes the pods of all workloads with it.
NodeLeaves ==
    /\ nodes > 0 /\ Fault
    /\ nodes' = nodes - 1
    /\ status' = IF nodes = 1
                 THEN [w \in Workloads |-> IF w \in Deployments /\ object[w] # "absent"
                                           THEN "pending" ELSE "none"]
                 ELSE status
    /\ UNCHANGED <<specVars, object, replicas, dependent, condition, runVars, dirty, edits>>

\* The controllers of Deployments and DaemonSets see a new workload.
SyncStatus(w) ==
    /\ object[w] # "absent" /\ status[w] = "none"
    /\ w \notin Deployments => nodes > 0
    /\ status' = [status EXCEPT ![w] = "pending"]
    /\ UNCHANGED <<specVars, nodes, object, replicas, dependent, condition, runVars, dirty, edits, faults>>

BecomeAvailable(w) ==
    /\ status[w] = "pending" /\ nodes > 0 /\ Mounted(w)
    /\ status' = [status EXCEPT ![w] = "available"]
    /\ UNCHANGED <<specVars, nodes, object, replicas, dependent, condition, runVars, dirty, edits, faults>>

LosePods(w) ==
    /\ status[w] = "available" /\ Fault
    /\ status' = [status EXCEPT ![w] = "pending"]
    /\ UNCHANGED <<specVars, nodes, object, replicas, dependent, condition, runVars, dirty, edits>>

Edit == edits < MaxEdits /\ edits' = edits + 1

SwitchKubeProxy ==
    /\ Edit /\ kubeProxy' = ~kubeProxy
    /\ UNCHANGED <<cilium, worldVars, condition, runVars, dirty, faults>>

InstallCilium ==
    /\ Edit /\ ~cilium /\ cilium' = TRUE
    /\ UNCHANGED <<kubeProxy, worldVars, condition, runVars, dirty, faults>>

\* A controller that wants other fields of an object that cannot be changed.
NewRelease(o) ==
    /\ Edit /\ pc = 0 /\ object[o] = "applied"
    /\ object' = [object EXCEPT ![o] = "outdated"]
    /\ UNCHANGED <<specVars, nodes, replicas, status, dependent, condition, runVars, dirty, faults>>

Next ==
    \/ Controller \/ Fail \/ Abandon
    \/ \E d \in Dependent, w \in Workloads : CollectGarbage(d, w)
    \/ NodeJoins \/ NodeLeaves
    \/ \E w \in Workloads : SyncStatus(w) \/ BecomeAvailable(w) \/ LosePods(w)
    \/ SwitchKubeProxy \/ InstallCilium
    \/ \E o \in Bindings \cup Workloads : NewRelease(o)

Fairness ==
    /\ WF_vars(Controller \/ (Missing /\ Fail))
    /\ WF_vars(NodeJoins)
    /\ \A d \in Dependent, w \in Workloads : WF_vars(CollectGarbage(d, w))
    /\ \A w \in Workloads : WF_vars(SyncStatus(w)) /\ WF_vars(BecomeAvailable(w))

Spec == Init /\ [][Next]_vars /\ Fairness

-----------------------------------------------------------------------------
(* Properties.                                                              *)

Policies(w) == {d \in {"networkPolicy", "ciliumPolicy"} : dependent[d][w] = "owned"}

\* A workload with the dependents the reconcilers keep for it.
Accompanied(w) ==
    /\ \E d \in Dependent : Policies(w) = {d}
    /\ w \in Deployments => (dependent["budget"][w] = "owned" <=> replicas[w] > 1)

Present(p) ==
    /\ \A o \in ObjectsOf(p) : object[o] # "absent"
    /\ \A w \in ObjectsOf(p) \cap Workloads : Accompanied(w)

Gone(p) ==
    /\ \A o \in ObjectsOf(p) : object[o] = "absent"
    /\ \A w \in ObjectsOf(p) \cap Workloads : Policies(w) = {}

\* A phase whose stored condition is True, and which no run without a stored
\* result has touched since, has all its objects in the workload cluster;
\* every workload of it has exactly one network policy, of the one kind or
\* the other, and a disruption budget exactly when it has several replicas.
\* Of kube-proxy there may also be nothing at all, but no part of it.
ReportedComplete ==
    \A p \in Phase \ dirty :
        condition[p] = "True" => Present(p) \/ (p = "kubeProxy" /\ Gone(p))

AsSpecified ==
    /\ \A p \in Phase : condition[p] = "True"
    /\ \A p \in Phase \ {"kubeProxy"} : Present(p)
    /\ IF kubeProxy THEN Present("kubeProxy") ELSE Gone("kubeProxy")
    /\ \A w \in Deployments : replicas[w] = replicaCount
    /\ cilium => \A w \in Workloads : dependent["networkPolicy"][w] = "absent"
    /\ \A d \in Dependent, w \in Workloads : dependent[d][w] # "dangling"

\* From an empty cluster, through failures, pods and nodes that are lost,
\* switches of kube-proxy, a late Cilium and objects that must be re-created,
\* nodes join and every phase ends ready, with kube-proxy as specified,
\* replicas for the nodes there are and one kind of network policy; although
\* CoreDNS and konnectivity wait for a node, a node waits for the phases
\* before them, and a phase that is not ready holds up those behind it.
EventuallySetUp == <>[]AsSpecified

-----------------------------------------------------------------------------
(* Inductive strengthenings, used by the proofs.                            *)

\* What a run that got past step i left there.
Done(i) ==
    LET o == workloadPhases[i][2]
    IN  IF workloadPhases[i][1] = "kubeProxy" /\ ~run.kubeProxy
        THEN object[o] = "absent" /\ (o \in Workloads => Policies(o) = {})
        ELSE object[o] # "absent" /\ (o \in Workloads => Accompanied(o))

\* The steps a run has behind it are done, what it says of the phases it did
\* not reach is what was stored, and it ends with a phase that is not ready
\* or with all steps done.
RunInv ==
    /\ \A i \in Step : i < pc => Done(i)
    /\ \A p \in Phase \ {workloadPhases[i][1] : i \in 1 .. pc} : mem[p] = condition[p]
    /\ stage = "patch" =>
           pc > 0 /\ (mem[phase] = "False" \/ (pc = Len(workloadPhases) /\ Done(pc)))
    /\ pc = 0 => stage = "object"

\* A run amid the dependents of a workload has applied it; before the policy
\* of Cilium the other one is gone, and before the budget there is one policy.
\* A policy of Cilium is only there where this run, too, knows of Cilium.
PolicyInv ==
    /\ stage \in {"policy", "cilium", "budget"} =>
           /\ pc > 0 /\ current \in Workloads /\ ~Deleting
           /\ object[current] # "absent" /\ phase \in dirty
    /\ stage = "cilium" => run.cilium /\ dependent["networkPolicy"][current] = "absent"
    /\ stage = "budget" =>
           current \in Deployments /\ \E d \in Dependent : Policies(current) = {d}
    /\ run.cilium => cilium
    /\ \A w \in Workloads :
           dependent["ciliumPolicy"][w] = "owned" => cilium /\ (pc > 0 => run.cilium)

=============================================================================
