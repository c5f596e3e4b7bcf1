--------------------------- MODULE WorkloadProofs ---------------------------
(***************************************************************************)
(* Proofs about Workload: the types of its variables, and that a phase     *)
(* whose stored condition is True is complete.  The argument follows a run *)
(* over its steps: each leaves its own object and dependents done and      *)
(* touches no other's, so that whatever the patch at the end stores as     *)
(* True was done by this run or is as it was stored before.                *)
(***************************************************************************)
EXTENDS Workload, TLAPS

-----------------------------------------------------------------------------
(* The steps of a run.                                                      *)

\* The steps, one by one.
LEMMA Steps ==
    /\ Len(workloadPhases) = 14
    /\ workloadPhases[1] = <<"RBAC", "bootstrapRBAC">>
    /\ workloadPhases[2] = <<"RBAC", "configRBAC">>
    /\ workloadPhases[3] = <<"clusterInfo", "clusterInfo">>
    /\ workloadPhases[4] = <<"kubeadmConfig", "kubeadmConfig">>
    /\ workloadPhases[5] = <<"kubeletConfig", "kubeletConfig">>
    /\ workloadPhases[6] = <<"kubeProxy", "kubeProxyConfig">>
    /\ workloadPhases[7] = <<"kubeProxy", "kubeProxyRBAC">>
    /\ workloadPhases[8] = <<"kubeProxy", "kubeProxyDaemonSet">>
    /\ workloadPhases[9] = <<"coreDNS", "coreDNSRBAC">>
    /\ workloadPhases[10] = <<"coreDNS", "coreDNSConfig">>
    /\ workloadPhases[11] = <<"coreDNS", "coreDNSDeployment">>
    /\ workloadPhases[12] = <<"coreDNS", "coreDNSService">>
    /\ workloadPhases[13] = <<"konnectivity", "konnectivityRBAC">>
    /\ workloadPhases[14] = <<"konnectivity", "konnectivityDeployment">>
  BY DEF workloadPhases, nodePhases, kubeProxyPhases, coreDNSPhases, konnectivityPhases

\* No two steps are about the same object.
LEMMA StepsDistinct ==
    ASSUME NEW i \in Step, NEW j \in Step, workloadPhases[i][2] = workloadPhases[j][2]
    PROVE  i = j
<1>1. i \in 1 .. 14 /\ j \in 1 .. 14
  BY Steps DEF Step
<1> QED
  BY <1>1, Steps

\* The steps of a phase follow one another.
LEMMA StepsContiguous ==
    ASSUME NEW i \in Step, NEW j \in Step, NEW k \in Step, i <= j, j <= k,
           workloadPhases[i][1] = workloadPhases[k][1]
    PROVE  workloadPhases[j][1] = workloadPhases[i][1]
<1>1. i \in 1 .. 14 /\ j \in 1 .. 14 /\ k \in 1 .. 14
  BY Steps DEF Step
<1> QED
  BY <1>1, Steps

\* There are 14 steps; the workloads and the groups of bindings are among the
\* objects of the steps.
LEMMA StepObjects ==
    /\ Step = 1 .. 14 /\ Len(workloadPhases) = 14
    /\ \A i \in Step : workloadPhases[i][1] \in Phase /\ workloadPhases[i][2] \in Object
    /\ Workloads \subseteq Object /\ Bindings \subseteq Object
    /\ Deployments \subseteq Workloads
<1>1. Step = 1 .. 14
  BY Steps DEF Step
<1>2. \A i \in Step : workloadPhases[i][1] \in Phase /\ workloadPhases[i][2] \in Object
  BY DEF Phase, Object
<1>3. /\ workloadPhases[8][2] = "kubeProxyDaemonSet"
      /\ workloadPhases[11][2] = "coreDNSDeployment"
      /\ workloadPhases[14][2] = "konnectivityDeployment"
      /\ workloadPhases[1][2] = "bootstrapRBAC" /\ workloadPhases[2][2] = "configRBAC"
      /\ workloadPhases[13][2] = "konnectivityRBAC"
  BY Steps
<1>4. {1, 2, 8, 11, 13, 14} \subseteq Step
  BY <1>1
<1>5. /\ "kubeProxyDaemonSet" \in Object /\ "coreDNSDeployment" \in Object
      /\ "konnectivityDeployment" \in Object /\ "bootstrapRBAC" \in Object
      /\ "configRBAC" \in Object /\ "konnectivityRBAC" \in Object
  BY <1>2, <1>3, <1>4
<1> QED
  BY <1>1, <1>2, <1>5, Steps DEF Workloads, Deployments, Bindings, RBACResources

-----------------------------------------------------------------------------
(* Types.                                                                   *)

\* The replicas of a Deployment are at least one and at most the configured.
LEMMA ReplicaCount ==
    ASSUME TypeOK
    PROVE  replicaCount \in 1 .. Replicas
<1>1. nodes \in Nat /\ Replicas \in Nat \ {0}
  BY ConstantsAssumption DEF TypeOK
<1> DEFINE m == Max({1, nodes})
<1>2. m \in {1, nodes} /\ m >= 1
  <2>1. \E x \in {1, nodes} : \A y \in {1, nodes} : x >= y
    BY <1>1
  <2> QED
    BY <1>1, <2>1 DEF Max
<1>3. m \in Nat /\ m >= 1
  BY <1>1, <1>2
<1> HIDE DEF m
<1>4. Min({m, Replicas}) \in {m, Replicas} /\ Min({m, Replicas}) <= Replicas
  <2>1. \E x \in {m, Replicas} : \A y \in {m, Replicas} : x =< y
    BY <1>1, <1>3
  <2> QED
    BY <1>1, <1>3, <2>1 DEF Min
<1>5. replicaCount = Min({m, Replicas})
  BY DEF replicaCount, m
<1> QED
  BY <1>1, <1>3, <1>4, <1>5

\* A step in flight is one of the steps, of one of the phases.
LEMMA AtStep ==
    ASSUME TypeOK, pc > 0
    PROVE  pc \in Step /\ phase \in Phase /\ current \in Object
  BY StepObjects DEF TypeOK, phase, current

\* The ways a run goes on keep the types of its own state.
LEMMA RunTypes ==
    ASSUME TypeOK, pc > 0, Proceed \/ Stop
    PROVE  /\ mem' \in Conditions /\ pc' \in 0 .. Len(workloadPhases) /\ stage' \in Stages
           /\ ready' \in BOOLEAN /\ run' \in [kubeProxy : BOOLEAN, cilium : BOOLEAN]
<1>1. pc \in Step /\ phase \in Phase /\ mem \in Conditions
  BY AtStep DEF TypeOK
<1>2. run' = run /\ ready' = FALSE
  BY DEF Proceed, Stop
<1>3. run' \in [kubeProxy : BOOLEAN, cilium : BOOLEAN] /\ ready' \in BOOLEAN
  BY <1>2 DEF TypeOK
<1>4. mem' \in {mem, [mem EXCEPT ![phase] = "True"], [mem EXCEPT ![phase] = "False"]}
  BY Zenon DEF Proceed, Stop
<1>5. mem' \in Conditions
  BY <1>1, <1>4 DEF Conditions
<1>6. pc' \in {pc, pc + 1} /\ pc' <= Len(workloadPhases) /\ stage' \in Stages
  BY <1>1, StepObjects DEF Proceed, Stop, Stages
<1>7. pc' \in 0 .. Len(workloadPhases)
  BY <1>1, <1>6, StepObjects
<1> QED
  BY <1>3, <1>5, <1>6, <1>7

\* The same for the step behind the policies of a workload.
LEMMA AfterPoliciesTypes ==
    ASSUME TypeOK, pc > 0, AfterPolicies
    PROVE  /\ mem' \in Conditions /\ pc' \in 0 .. Len(workloadPhases) /\ stage' \in Stages
           /\ ready' \in BOOLEAN /\ run' \in [kubeProxy : BOOLEAN, cilium : BOOLEAN]
<1>1. CASE Proceed \/ Stop
  BY <1>1, RunTypes
<1>2. CASE stage' = "budget" /\ UNCHANGED <<pc, run, ready, mem>>
  BY <1>2 DEF TypeOK, Stages
<1> QED
  BY <1>1, <1>2 DEF AfterPolicies

\* Removing an object, and setting a dependent, keep the types.
LEMMA ObjectTypes ==
    ASSUME TypeOK, NEW o \in Object
    PROVE  /\ Remove(o) => /\ object' \in [Object -> {"absent", "applied", "outdated"}]
                           /\ status' \in [Workloads -> {"none", "pending", "available"}]
                           /\ dependent' \in [Dependent -> [Workloads -> {"absent", "owned", "dangling"}]]
           /\ \A d \in Dependent, w \in Workloads, v \in {"absent", "owned"} :
                  dependent' = [dependent EXCEPT ![d][w] = v] =>
                  dependent' \in [Dependent -> [Workloads -> {"absent", "owned", "dangling"}]]
<1>1. ASSUME Remove(o)
      PROVE  /\ object' \in [Object -> {"absent", "applied", "outdated"}]
             /\ status' \in [Workloads -> {"none", "pending", "available"}]
  BY <1>1 DEF TypeOK, Remove
<1>2. ASSUME Remove(o)
      PROVE  dependent' \in [Dependent -> [Workloads -> {"absent", "owned", "dangling"}]]
  BY <1>2 DEF TypeOK, Remove
<1>3. ASSUME NEW d \in Dependent, NEW w \in Workloads, NEW v \in {"absent", "owned"},
             dependent' = [dependent EXCEPT ![d][w] = v]
      PROVE  dependent' \in [Dependent -> [Workloads -> {"absent", "owned", "dangling"}]]
  BY <1>3 DEF TypeOK
<1> QED
  BY <1>1, <1>2, <1>3

\* What is left of a run that ended.
LEMMA EndedTypes ==
    ASSUME EndRun
    PROVE  run' \in [kubeProxy : BOOLEAN, cilium : BOOLEAN] /\ ready' \in BOOLEAN
<1>1. run' = [kubeProxy |-> FALSE, cilium |-> FALSE] /\ ready' = FALSE
  BY DEF EndRun
<1>2. [kubeProxy |-> FALSE, cilium |-> FALSE] \in [kubeProxy : BOOLEAN, cilium : BOOLEAN]
  OBVIOUS
<1> QED
  BY <1>1, <1>2

\* Every step keeps the types.
LEMMA TypeStep ==
    ASSUME TypeOK, PolicyInv, [Next]_vars
    PROVE  TypeOK'
<1> USE DEF specVars, worldVars, runVars
<1>1. CASE BeginRun
  BY <1>1, StepObjects DEF TypeOK, BeginRun
<1>2. CASE ApplyObject
  <2>1. pc > 0 /\ Proceed
    BY <1>2 DEF ApplyObject, AtObject
  <2>2. object' \in [Object -> {"absent", "applied", "outdated"}] /\ dirty' \subseteq Phase
    BY <1>2, <2>1, AtStep DEF ApplyObject, Touch, TypeOK
  <2> QED
    BY <1>2, <2>1, <2>2, RunTypes DEF ApplyObject, TypeOK
<1>3. CASE RecreateObject \/ DeleteObject
  <2>1. pc > 0 /\ (Proceed \/ Stop) /\ Remove(current)
    BY <1>3 DEF RecreateObject, DeleteObject, AtObject
  <2>2. dirty' \subseteq Phase
    BY <1>3, <2>1, AtStep DEF RecreateObject, DeleteObject, Touch, TypeOK
  <2>3. /\ object' \in [Object -> {"absent", "applied", "outdated"}]
        /\ status' \in [Workloads -> {"none", "pending", "available"}]
        /\ dependent' \in [Dependent -> [Workloads -> {"absent", "owned", "dangling"}]]
    BY <2>1, AtStep, ObjectTypes
  <2>4. UNCHANGED <<specVars, nodes, replicas, condition, edits, faults>>
    BY <1>3 DEF RecreateObject, DeleteObject
  <2> QED
    BY <2>1, <2>2, <2>3, <2>4, RunTypes DEF TypeOK
<1>4. CASE ApplyWorkload
  <2>1. pc > 0
    BY <1>4 DEF ApplyWorkload, AtObject
  <2>2. object' \in [Object -> {"absent", "applied", "outdated"}] /\ dirty' \subseteq Phase
    BY <1>4, <2>1, AtStep DEF ApplyWorkload, Touch, TypeOK
  <2>3. replicas' \in [Deployments -> 1 .. Replicas]
    BY <1>4, ReplicaCount DEF ApplyWorkload, TypeOK
  <2>4. ready' \in BOOLEAN
    BY <1>4 DEF ApplyWorkload, readinessCheck
  <2> QED
    BY <1>4, <2>2, <2>3, <2>4 DEF ApplyWorkload, TypeOK, Stages
<1>5. CASE reconcileKubernetesNetworkPolicy
  <2>1. pc > 0 /\ AfterPolicies /\ current \in Workloads
    BY <1>5 DEF reconcileKubernetesNetworkPolicy, PolicyInv
  <2>2. dependent' \in [Dependent -> [Workloads -> {"absent", "owned", "dangling"}]]
    BY <1>5, <2>1, AtStep, ObjectTypes DEF reconcileKubernetesNetworkPolicy, SetDependent, Dependent
  <2> QED
    BY <1>5, <2>1, <2>2, AfterPoliciesTypes DEF reconcileKubernetesNetworkPolicy, TypeOK
<1>6. CASE DeleteNetworkPolicy
  <2>1. pc > 0 /\ current \in Workloads
    BY <1>6 DEF DeleteNetworkPolicy, PolicyInv
  <2>2. dependent' \in [Dependent -> [Workloads -> {"absent", "owned", "dangling"}]]
    BY <1>6, <2>1, AtStep, ObjectTypes DEF DeleteNetworkPolicy, SetDependent, Dependent
  <2> QED
    BY <1>6, <2>2 DEF DeleteNetworkPolicy, TypeOK, Stages
<1>7. CASE reconcileCiliumNetworkPolicy
  <2>1. pc > 0 /\ AfterPolicies /\ current \in Workloads
    BY <1>7 DEF reconcileCiliumNetworkPolicy, PolicyInv
  <2>2. dependent' \in [Dependent -> [Workloads -> {"absent", "owned", "dangling"}]]
    BY <1>7, <2>1, AtStep, ObjectTypes DEF reconcileCiliumNetworkPolicy, SetDependent, Dependent
  <2> QED
    BY <1>7, <2>1, <2>2, AfterPoliciesTypes DEF reconcileCiliumNetworkPolicy, TypeOK
<1>8. CASE reconcilePodDisruptionBudget
  <2>1. pc > 0 /\ Proceed /\ current \in Workloads
    BY <1>8 DEF reconcilePodDisruptionBudget, PolicyInv
  <2>2. dependent' \in [Dependent -> [Workloads -> {"absent", "owned", "dangling"}]]
    BY <1>8, <2>1, AtStep, ObjectTypes DEF reconcilePodDisruptionBudget, SetDependent, Dependent
  <2> QED
    BY <1>8, <2>1, <2>2, RunTypes DEF reconcilePodDisruptionBudget, TypeOK
<1>9. CASE Patch
  <2>1. run' \in [kubeProxy : BOOLEAN, cilium : BOOLEAN] /\ ready' \in BOOLEAN
    BY <1>9, EndedTypes DEF Patch
  <2> QED
    BY <1>9, <2>1, StepObjects DEF Patch, EndRun, TypeOK, Stages
<1>10. CASE Fail
  <2>1. pc > 0 /\ Stop /\ dirty' \subseteq Phase
    BY <1>10, AtStep DEF Fail, Touch, TypeOK
  <2>2. faults' \in 0 .. MaxFaults
    BY <1>10, ConstantsAssumption DEF Fail, Fault, TypeOK
  <2> QED
    BY <1>10, <2>1, <2>2, RunTypes DEF Fail, TypeOK
<1>11. CASE Abandon
  <2>1. run' \in [kubeProxy : BOOLEAN, cilium : BOOLEAN] /\ ready' \in BOOLEAN
    BY <1>11, EndedTypes DEF Abandon
  <2> QED
    BY <1>11, <2>1, ConstantsAssumption, StepObjects
       DEF Abandon, Fault, EndRun, TypeOK, Stages
<1>12. ASSUME NEW d \in Dependent, NEW w \in Workloads, CollectGarbage(d, w)
       PROVE  TypeOK'
  BY <1>12 DEF CollectGarbage, TypeOK
<1>13. CASE NodeJoins
  BY <1>13, ConstantsAssumption DEF NodeJoins, TypeOK
<1>14. CASE NodeLeaves
  BY <1>14, ConstantsAssumption DEF NodeLeaves, Fault, TypeOK
<1>15. ASSUME NEW w \in Workloads, SyncStatus(w) \/ BecomeAvailable(w) \/ LosePods(w)
       PROVE  TypeOK'
  BY <1>15, ConstantsAssumption DEF SyncStatus, BecomeAvailable, LosePods, Fault, TypeOK
<1>16. CASE SwitchKubeProxy
  <2>1. kubeProxy' \in BOOLEAN
    BY <1>16 DEF SwitchKubeProxy
  <2> QED
    BY <1>16, <2>1, ConstantsAssumption DEF SwitchKubeProxy, Edit, TypeOK
<1>17. CASE InstallCilium
  BY <1>17, ConstantsAssumption DEF InstallCilium, Edit, TypeOK
<1>18. ASSUME NEW o \in Bindings \cup Workloads, NewRelease(o)
       PROVE  TypeOK'
  BY <1>18, ConstantsAssumption, StepObjects DEF NewRelease, Edit, TypeOK
<1>19. CASE UNCHANGED vars
  BY <1>19 DEF vars, TypeOK
<1> QED
  BY <1>1, <1>2, <1>3, <1>4, <1>5, <1>6, <1>7, <1>8, <1>9, <1>10, <1>11, <1>12, <1>13,
     <1>14, <1>15, <1>16, <1>17, <1>18, <1>19 DEF Next, Controller

-----------------------------------------------------------------------------
(* What a step leaves alone.                                                *)

\* An object that is there with its dependents, and one that is gone.
Complete(o) == object[o] # "absent" /\ (o \in Workloads => Accompanied(o))
Void(o)     == object[o] = "absent" /\ (o \in Workloads => Policies(o) = {})

\* The step leaves an object there or not there, with what it owns.
Kept(o) ==
    /\ (object'[o] = "absent") <=> (object[o] = "absent")
    /\ o \in Workloads => \A d \in Dependent :
           (dependent'[d][o] = "owned") <=> (dependent[d][o] = "owned")
    /\ o \in Deployments => replicas'[o] = replicas[o]

\* An object that is kept remains complete, or gone.
LEMMA KeptObject ==
    ASSUME NEW o \in Object, Kept(o)
    PROVE  /\ o \in Workloads => Policies(o)' = Policies(o)
           /\ Complete(o)' <=> Complete(o)
           /\ Void(o)' <=> Void(o)
<1>1. ASSUME o \in Workloads
      PROVE  Policies(o)' = Policies(o)
  BY <1>1 DEF Kept, Policies, Dependent
<1>2. ASSUME o \in Workloads
      PROVE  Accompanied(o)' <=> Accompanied(o)
  BY <1>1, <1>2 DEF Kept, Accompanied, Dependent
<1> QED
  BY <1>1, <1>2 DEF Kept, Complete, Void

\* What a step left is done stays so while its object is kept.
LEMMA KeptStep ==
    ASSUME NEW i \in Step, Kept(workloadPhases[i][2]), UNCHANGED run
    PROVE  Done(i)' <=> Done(i)
<1> DEFINE o == workloadPhases[i][2]
<1>1. Done(i) <=> IF workloadPhases[i][1] = "kubeProxy" /\ ~run.kubeProxy
                  THEN Void(o) ELSE Complete(o)
  BY DEF Done, Void, Complete
<1>2. Done(i)' <=> IF workloadPhases[i][1] = "kubeProxy" /\ ~run.kubeProxy
                   THEN Void(o)' ELSE Complete(o)'
  BY DEF Done, Void, Complete
<1>3. (Complete(o)' <=> Complete(o)) /\ (Void(o)' <=> Void(o))
  BY KeptObject, StepObjects
<1> QED
  BY <1>1, <1>2, <1>3

\* Everything of a phase is there, or nothing, when that is so of its objects.
LEMMA PhaseComplete ==
    ASSUME NEW p
    PROVE  /\ Present(p) <=> \A o \in ObjectsOf(p) : Complete(o)
           /\ Gone(p) <=> \A o \in ObjectsOf(p) : Void(o)
           /\ Present(p)' <=> \A o \in ObjectsOf(p) : Complete(o)'
           /\ Gone(p)' <=> \A o \in ObjectsOf(p) : Void(o)'
  BY DEF Present, Gone, Complete, Void

\* A phase whose objects are all kept is still as its condition says.
LEMMA KeptPhase ==
    ASSUME NEW p \in Phase, \A o \in ObjectsOf(p) : Kept(o),
           Present(p) \/ (p = "kubeProxy" /\ Gone(p))
    PROVE  Present(p)' \/ (p = "kubeProxy" /\ Gone(p)')
<1>1. ObjectsOf(p) \subseteq Object
  BY DEF ObjectsOf, Object
<1> QED
  BY <1>1, KeptObject, PhaseComplete

\* A step that keeps all objects and stores nothing leaves the report true.
LEMMA KeptReport ==
    ASSUME ReportedComplete, \A o \in Object : Kept(o), UNCHANGED <<condition, dirty>>
    PROVE  ReportedComplete'
<1> SUFFICES ASSUME NEW p \in Phase \ dirty', condition'[p] = "True"
             PROVE  Present(p)' \/ (p = "kubeProxy" /\ Gone(p)')
  BY DEF ReportedComplete
<1>1. Present(p) \/ (p = "kubeProxy" /\ Gone(p))
  BY DEF ReportedComplete
<1>2. \A o \in ObjectsOf(p) : Kept(o)
  BY DEF ObjectsOf, Object
<1> QED
  BY <1>1, <1>2, KeptPhase

-----------------------------------------------------------------------------
(* The steps of a run keep its invariant.                                   *)

\* A step about one object keeps those of the other phases, so that what is
\* reported of them remains true.
LEMMA ReportedAtStep ==
    ASSUME TypeOK, ReportedComplete, NEW c \in Step,
           \A o \in Object \ {workloadPhases[c][2]} : Kept(o),
           condition' = condition, dirty' = dirty \cup {workloadPhases[c][1]}
    PROVE  ReportedComplete'
<1> SUFFICES ASSUME NEW p \in Phase \ dirty', condition'[p] = "True"
             PROVE  Present(p)' \/ (p = "kubeProxy" /\ Gone(p)')
  BY DEF ReportedComplete
<1>1. p \in Phase \ dirty /\ condition[p] = "True" /\ p # workloadPhases[c][1]
  OBVIOUS
<1>2. Present(p) \/ (p = "kubeProxy" /\ Gone(p))
  BY <1>1 DEF ReportedComplete
<1>3. ASSUME NEW o \in ObjectsOf(p)
      PROVE  Kept(o)
  <2>1. PICK j \in Step : workloadPhases[j][1] = p /\ o = workloadPhases[j][2]
    BY <1>3 DEF ObjectsOf
  <2>2. o \in Object /\ o # workloadPhases[c][2]
    BY <1>1, <2>1, StepsDistinct, StepObjects
  <2> QED
    BY <2>2
<1> QED
  BY <1>1, <1>2, <1>3, KeptPhase

\* The run goes on behind a step that is done, ends at it, or stays with it.
LEMMA RunAtStep ==
    ASSUME TypeOK, RunInv, NEW c \in Step, pc = c,
           \A o \in Object \ {workloadPhases[c][2]} : Kept(o),
           condition' = condition,
           \/ Stop
           \/ Proceed /\ Done(c)'
           \/ stage' \in {"policy", "cilium", "budget"} /\ UNCHANGED <<pc, run, mem>>
    PROVE  RunInv'
<1>1. run' = run
  BY DEF Stop, Proceed
<1>2. pc' \in {c, c + 1} /\ pc' \in Nat /\ c \in 1 .. 14
  BY StepObjects DEF Stop, Proceed
<1>3. phase = workloadPhases[c][1] /\ phase \in Phase
  BY StepObjects DEF phase
<1>4. ASSUME NEW i \in Step, i < c
      PROVE  Done(i)'
  <2>1. workloadPhases[i][2] \in Object \ {workloadPhases[c][2]}
    BY <1>2, <1>4, StepObjects, StepsDistinct
  <2> QED
    BY <1>1, <1>4, <2>1, KeptStep DEF RunInv
<1>5. ASSUME NEW i \in Step, i < pc'
      PROVE  Done(i)'
  <2>1. CASE i < c
    BY <2>1, <1>4
  <2>2. CASE ~(i < c)
    <3>1. i = c /\ pc' = c + 1
      BY <1>2, <1>5, <2>2, StepObjects
    <3>2. Proceed /\ Done(c)'
      BY <1>2, <3>1 DEF Stop
    <3> QED
      BY <3>1, <3>2
  <2> QED
    BY <2>1, <2>2
<1>6. ASSUME NEW p \in Phase \ {workloadPhases[i][1] : i \in 1 .. pc'}
      PROVE  mem'[p] = condition'[p]
  <2>1. p \in Phase \ {workloadPhases[i][1] : i \in 1 .. pc} /\ p # phase
    BY <1>2, <1>3, <1>6
  <2>2. mem' \in {mem, [mem EXCEPT ![phase] = "True"], [mem EXCEPT ![phase] = "False"]}
    BY Zenon DEF Proceed, Stop
  <2>3. mem'[p] = mem[p]
    BY <2>1, <2>2 DEF TypeOK, Conditions
  <2> QED
    BY <2>1, <2>3 DEF RunInv
<1>7. ASSUME stage' = "patch"
      PROVE  /\ pc' > 0
             /\ \/ mem'[phase'] = "False"
                \/ pc' = Len(workloadPhases) /\ Done(pc)'
  <2>1. CASE Stop
    <3>1. mem' = [mem EXCEPT ![phase] = "False"] /\ pc' = pc /\ phase' = phase
      BY <2>1 DEF Stop, phase
    <3> QED
      BY <1>2, <1>3, <3>1 DEF TypeOK, Conditions
  <2>2. CASE Proceed /\ Done(c)'
    <3>1. pc' = c /\ c = Len(workloadPhases)
      BY <1>2, <1>7, <2>2, StepObjects DEF Proceed
    <3>2. Done(pc)' <=> Done(c)'
      BY <3>1 DEF Done
    <3> QED
      BY <1>2, <2>2, <3>1, <3>2
  <2> QED
    BY <1>7, <2>1, <2>2
<1>8. pc' > 0
  BY <1>2
<1> QED
  BY <1>5, <1>6, <1>7, <1>8 DEF RunInv

\* Removing an object keeps the others, and leaves of this one nothing.
LEMMA RemoveKeeps ==
    ASSUME TypeOK, NEW o \in Object, Remove(o), replicas' = replicas
    PROVE  /\ \A x \in Object \ {o} : Kept(x)
           /\ Void(o)'
           /\ \A w \in Workloads : dependent'["ciliumPolicy"][w] = "owned" =>
                  dependent["ciliumPolicy"][w] = "owned"
<1>1. ASSUME NEW x \in Object \ {o}
      PROVE  Kept(x)
  BY <1>1 DEF TypeOK, Remove, Kept
<1>2. object'[o] = "absent"
  BY DEF TypeOK, Remove
<1>3. ASSUME NEW d \in Dependent, NEW w \in Workloads, dependent'[d][w] = "owned"
      PROVE  w # o /\ dependent[d][w] = "owned"
  BY <1>3 DEF TypeOK, Remove
<1>4. ASSUME o \in Workloads
      PROVE  Policies(o)' = {}
  BY <1>3, <1>4 DEF Policies, Dependent
<1> QED
  BY <1>1, <1>2, <1>3, <1>4 DEF Void, Dependent

\* Setting a dependent of one workload keeps all other objects.
LEMMA SetKeeps ==
    ASSUME NEW w \in Workloads, UNCHANGED <<object, replicas>>,
           \A e \in Dependent, x \in Workloads \ {w} : dependent'[e][x] = dependent[e][x]
    PROVE  \A x \in Object \ {w} : Kept(x)
  BY DEF Kept

\* A step that ends the work on an object keeps the invariant of the policies,
\* when it brings a policy of Cilium only where the run knows of Cilium.
LEMMA PolicyAfterStep ==
    ASSUME TypeOK, PolicyInv, pc > 0, Stop \/ Proceed, cilium' = cilium,
           \A w \in Workloads : dependent'["ciliumPolicy"][w] = "owned" =>
               dependent["ciliumPolicy"][w] = "owned" \/ run.cilium
    PROVE  PolicyInv'
<1>1. run' = run /\ stage' \in {"object", "patch"}
  BY DEF Stop, Proceed
<1>2. \A w \in Workloads : dependent'["ciliumPolicy"][w] = "owned" => cilium' /\ run'.cilium
  BY <1>1 DEF PolicyInv
<1> QED
  BY <1>1, <1>2 DEF PolicyInv

\* A workload with one policy, in terms of its two kinds.
LEMMA OnePolicy ==
    ASSUME NEW w,
           \/ dependent'["networkPolicy"][w] = "owned" /\ dependent'["ciliumPolicy"][w] # "owned"
           \/ dependent'["networkPolicy"][w] # "owned" /\ dependent'["ciliumPolicy"][w] = "owned"
    PROVE  \E d \in Dependent : Policies(w)' = {d}
<1>1. CASE dependent'["networkPolicy"][w] = "owned" /\ dependent'["ciliumPolicy"][w] # "owned"
  BY <1>1 DEF Policies, Dependent
<1>2. CASE dependent'["networkPolicy"][w] # "owned" /\ dependent'["ciliumPolicy"][w] = "owned"
  BY <1>2 DEF Policies, Dependent
<1> QED
  BY <1>1, <1>2

\* An applied object keeps the others, and the step is done.
LEMMA ApplyObjectStep ==
    ASSUME TypeOK, RunInv, PolicyInv, ReportedComplete, ApplyObject
    PROVE  RunInv' /\ PolicyInv' /\ ReportedComplete'
<1>1. PICK c \in Step : c = pc
  BY AtStep DEF ApplyObject, AtObject
<1>2. /\ current = workloadPhases[c][2] /\ phase = workloadPhases[c][1]
      /\ current \in Object \ Workloads
  BY <1>1 DEF current, phase, ApplyObject, AtObject
<1>3. \A o \in Object \ {workloadPhases[c][2]} : Kept(o)
  BY <1>2 DEF ApplyObject, TypeOK, Kept
<1>4. object'[current] # "absent"
  BY <1>2 DEF ApplyObject, TypeOK
<1>5. Done(c)'
  BY <1>1, <1>2, <1>4 DEF Done, ApplyObject, Deleting, Proceed
<1>6. RunInv'
  BY <1>1, <1>3, <1>5, RunAtStep DEF ApplyObject
<1>7. ReportedComplete'
  BY <1>2, <1>3, ReportedAtStep DEF ApplyObject, Touch
<1>8. PolicyInv'
  BY PolicyAfterStep DEF ApplyObject, AtObject, specVars
<1> QED
  BY <1>6, <1>7, <1>8

\* An object that is deleted to be created again ends the run.
LEMMA RecreateObjectStep ==
    ASSUME TypeOK, RunInv, PolicyInv, ReportedComplete, RecreateObject
    PROVE  RunInv' /\ PolicyInv' /\ ReportedComplete'
<1>1. PICK c \in Step : c = pc
  BY AtStep DEF RecreateObject, AtObject
<1>2. /\ current = workloadPhases[c][2] /\ phase = workloadPhases[c][1]
      /\ current \in Object /\ pc > 0
  BY <1>1, AtStep DEF current, phase, RecreateObject, AtObject
<1>3. /\ \A o \in Object \ {workloadPhases[c][2]} : Kept(o)
      /\ \A w \in Workloads : dependent'["ciliumPolicy"][w] = "owned" =>
             dependent["ciliumPolicy"][w] = "owned"
  BY <1>2, RemoveKeeps DEF RecreateObject
<1>4. RunInv'
  BY <1>1, <1>3, RunAtStep DEF RecreateObject
<1>5. ReportedComplete'
  BY <1>2, <1>3, ReportedAtStep DEF RecreateObject, Touch
<1>6. PolicyInv'
  BY <1>2, <1>3, PolicyAfterStep DEF RecreateObject, specVars
<1> QED
  BY <1>4, <1>5, <1>6

\* A deleted object of kube-proxy is gone, and the step is done.
LEMMA DeleteObjectStep ==
    ASSUME TypeOK, RunInv, PolicyInv, ReportedComplete, DeleteObject
    PROVE  RunInv' /\ PolicyInv' /\ ReportedComplete'
<1>1. PICK c \in Step : c = pc
  BY AtStep DEF DeleteObject, AtObject
<1>2. /\ current = workloadPhases[c][2] /\ phase = workloadPhases[c][1]
      /\ current \in Object /\ pc > 0
  BY <1>1, AtStep DEF current, phase, DeleteObject, AtObject
<1>3. /\ \A o \in Object \ {workloadPhases[c][2]} : Kept(o)
      /\ \A w \in Workloads : dependent'["ciliumPolicy"][w] = "owned" =>
             dependent["ciliumPolicy"][w] = "owned"
  BY <1>2, RemoveKeeps DEF DeleteObject
<1>4. ASSUME NEW o \in Object, o = current
      PROVE  Void(o)'
  BY <1>4, RemoveKeeps DEF DeleteObject
<1>5. Done(c)'
  BY <1>2, <1>4, StepObjects DEF Done, Void, DeleteObject, Deleting, Proceed
<1>6. RunInv'
  BY <1>1, <1>3, <1>5, RunAtStep DEF DeleteObject
<1>7. ReportedComplete'
  BY <1>2, <1>3, ReportedAtStep DEF DeleteObject, Touch
<1>8. PolicyInv'
  BY <1>2, <1>3, PolicyAfterStep DEF DeleteObject, specVars
<1> QED
  BY <1>6, <1>7, <1>8

\* A call that fails ends the run with its phase not ready.
LEMMA FailStep ==
    ASSUME TypeOK, RunInv, PolicyInv, ReportedComplete, Fail
    PROVE  RunInv' /\ PolicyInv' /\ ReportedComplete'
<1>1. PICK c \in Step : c = pc
  BY AtStep DEF Fail
<1>2. phase = workloadPhases[c][1]
  BY <1>1 DEF phase
<1>3. \A o \in Object : Kept(o)
  BY DEF Fail, Kept, worldVars
<1>4. RunInv'
  BY <1>1, <1>3, RunAtStep DEF Fail
<1>5. ReportedComplete'
  BY <1>2, <1>3, ReportedAtStep DEF Fail, Touch
<1>6. PolicyInv'
  BY PolicyAfterStep DEF Fail, specVars, worldVars
<1> QED
  BY <1>4, <1>5, <1>6

\* An applied workload has the run go on to its policies.
LEMMA ApplyWorkloadStep ==
    ASSUME TypeOK, RunInv, PolicyInv, ReportedComplete, ApplyWorkload
    PROVE  RunInv' /\ PolicyInv' /\ ReportedComplete'
<1>1. PICK c \in Step : c = pc
  BY AtStep DEF ApplyWorkload, AtObject
<1>2. /\ current = workloadPhases[c][2] /\ phase = workloadPhases[c][1]
      /\ current \in Object /\ current \in Workloads /\ pc > 0
  BY <1>1, AtStep DEF current, phase, ApplyWorkload, AtObject
<1>3. \A o \in Object \ {workloadPhases[c][2]} : Kept(o)
  BY <1>2, StepObjects DEF ApplyWorkload, TypeOK, Kept
<1>4. RunInv'
  BY <1>1, <1>3, RunAtStep DEF ApplyWorkload
<1>5. ReportedComplete'
  BY <1>2, <1>3, ReportedAtStep DEF ApplyWorkload, Touch
<1>6. PolicyInv'
  <2>1. current' = current /\ phase' = phase /\ (Deleting' <=> Deleting)
    BY DEF ApplyWorkload, current, phase, Deleting
  <2>2. object'[current] # "absent" /\ phase \in dirty'
    BY <1>2 DEF ApplyWorkload, TypeOK, Touch
  <2>3. stage' = "policy" /\ pc' > 0 /\ ~Deleting /\ UNCHANGED <<cilium, pc, run, dependent>>
    BY <1>2 DEF ApplyWorkload, specVars
  <2> QED
    BY <1>2, <2>1, <2>2, <2>3 DEF PolicyInv
<1> QED
  BY <1>4, <1>5, <1>6

\* Behind the policies of a workload it has exactly one.
LEMMA AfterPoliciesStep ==
    ASSUME TypeOK, RunInv, PolicyInv, ReportedComplete, NEW c \in Step, c = pc,
           NEW w \in Workloads, w = current,
           stage \in {"policy", "cilium"}, AfterPolicies,
           UNCHANGED <<cilium, object, replicas, condition, dirty>>,
           \A o \in Object \ {w} : Kept(o),
           \E d \in Dependent : Policies(w)' = {d},
           \A x \in Workloads : dependent'["ciliumPolicy"][x] = "owned" =>
               dependent["ciliumPolicy"][x] = "owned" \/ run.cilium
    PROVE  RunInv' /\ PolicyInv' /\ ReportedComplete'
<1>1. w = workloadPhases[c][2] /\ phase = workloadPhases[c][1]
  BY DEF current, phase
<1>2. object[w] # "absent" /\ phase \in dirty /\ ~Deleting /\ pc > 0
  BY DEF PolicyInv
<1>3. ReportedComplete'
  <2>1. dirty' = dirty \cup {workloadPhases[c][1]}
    BY <1>1, <1>2
  <2> QED
    BY <1>1, <2>1, ReportedAtStep
<1>4. CASE ~ready /\ Stop
  BY <1>1, <1>2, <1>3, <1>4, RunAtStep, PolicyAfterStep
<1>5. CASE ready /\ current \notin Deployments /\ Proceed
  <2>1. Accompanied(w)'
    BY <1>5 DEF Accompanied
  <2>2. Done(c)'
    BY <1>1, <1>2, <1>5, <2>1 DEF Done, Deleting, Proceed
  <2> QED
    BY <1>1, <1>2, <1>3, <1>5, <2>2, RunAtStep, PolicyAfterStep
<1>6. CASE /\ ready /\ current \in Deployments /\ stage' = "budget"
           /\ UNCHANGED <<pc, run, ready, mem>>
  <2>1. RunInv'
    BY <1>1, <1>6, RunAtStep
  <2>2. current' = w /\ phase' = phase /\ (Deleting' <=> Deleting)
    BY <1>6 DEF current, phase, Deleting
  <2>3. Policies(current)' = Policies(w)'
    BY <2>2 DEF Policies
  <2>4. \A x \in Workloads : dependent'["ciliumPolicy"][x] = "owned" => cilium /\ run.cilium
    BY <1>2 DEF PolicyInv
  <2>5. PolicyInv'
    BY <1>2, <1>6, <2>2, <2>3, <2>4 DEF PolicyInv
  <2> QED
    BY <1>3, <2>1, <2>5
<1> QED
  BY <1>4, <1>5, <1>6 DEF AfterPolicies

\* A run without Cilium finds no policy of Cilium beside the one it keeps.
LEMMA KubernetesPolicyStep ==
    ASSUME TypeOK, RunInv, PolicyInv, ReportedComplete, reconcileKubernetesNetworkPolicy
    PROVE  RunInv' /\ PolicyInv' /\ ReportedComplete'
<1>1. PICK c \in Step : c = pc
  BY AtStep DEF reconcileKubernetesNetworkPolicy
<1>2. PICK w \in Workloads : w = current
  BY DEF reconcileKubernetesNetworkPolicy, PolicyInv
<1>3. dependent' = [dependent EXCEPT !["networkPolicy"][w] = "owned"]
  BY <1>2 DEF reconcileKubernetesNetworkPolicy, SetDependent
<1>4. UNCHANGED <<cilium, object, replicas, condition, dirty>>
  BY DEF reconcileKubernetesNetworkPolicy, specVars
<1>5. "networkPolicy" \in Dependent /\ "ciliumPolicy" \in Dependent
  BY DEF Dependent
<1>6. /\ \A o \in Object \ {w} : Kept(o)
      /\ dependent'["networkPolicy"][w] = "owned"
      /\ \A x \in Workloads : dependent'["ciliumPolicy"][x] = dependent["ciliumPolicy"][x]
  <2>1. \A e \in Dependent, x \in Workloads :
            (e # "networkPolicy" \/ x # w) => dependent'[e][x] = dependent[e][x]
    BY <1>3, <1>5 DEF TypeOK
  <2>2. dependent'["networkPolicy"][w] = "owned"
    BY <1>3, <1>5 DEF TypeOK
  <2>3. \A o \in Object \ {w} : Kept(o)
    BY <1>4, <2>1, SetKeeps
  <2> QED
    BY <1>5, <2>1, <2>2, <2>3
<1>7. dependent["ciliumPolicy"][w] # "owned"
  BY DEF PolicyInv, reconcileKubernetesNetworkPolicy
<1>8. \E d \in Dependent : Policies(w)' = {d}
  BY <1>6, <1>7, OnePolicy
<1> QED
  BY <1>1, <1>2, <1>4, <1>6, <1>8, AfterPoliciesStep DEF reconcileKubernetesNetworkPolicy

\* With Cilium the other policy goes first.
LEMMA DeletePolicyStep ==
    ASSUME TypeOK, RunInv, PolicyInv, ReportedComplete, DeleteNetworkPolicy
    PROVE  RunInv' /\ PolicyInv' /\ ReportedComplete'
<1>1. PICK c \in Step : c = pc
  BY AtStep DEF DeleteNetworkPolicy
<1>2. PICK w \in Workloads : w = current
  BY DEF DeleteNetworkPolicy, PolicyInv
<1>3. dependent' = [dependent EXCEPT !["networkPolicy"][w] = "absent"]
  BY <1>2 DEF DeleteNetworkPolicy, SetDependent
<1>4. UNCHANGED <<cilium, object, replicas, condition, dirty, pc, run, mem>>
  BY DEF DeleteNetworkPolicy, specVars
<1>5. "networkPolicy" \in Dependent /\ "ciliumPolicy" \in Dependent
  BY DEF Dependent
<1>6. /\ \A o \in Object \ {w} : Kept(o)
      /\ dependent'["networkPolicy"][w] = "absent"
      /\ \A x \in Workloads : dependent'["ciliumPolicy"][x] = dependent["ciliumPolicy"][x]
  <2>1. \A e \in Dependent, x \in Workloads :
            (e # "networkPolicy" \/ x # w) => dependent'[e][x] = dependent[e][x]
    BY <1>3, <1>5 DEF TypeOK
  <2>2. dependent'["networkPolicy"][w] = "absent"
    BY <1>3, <1>5 DEF TypeOK
  <2>3. \A o \in Object \ {w} : Kept(o)
    BY <1>4, <2>1, SetKeeps
  <2> QED
    BY <1>5, <2>1, <2>2, <2>3
<1>7. w = workloadPhases[c][2] /\ phase = workloadPhases[c][1]
  BY <1>1, <1>2 DEF current, phase
<1>8. object[w] # "absent" /\ phase \in dirty /\ ~Deleting /\ pc > 0 /\ run.cilium
  BY <1>2 DEF DeleteNetworkPolicy, PolicyInv
<1>9. RunInv'
  BY <1>1, <1>4, <1>6, <1>7, RunAtStep DEF DeleteNetworkPolicy
<1>10. ReportedComplete'
  <2>1. dirty' = dirty \cup {workloadPhases[c][1]}
    BY <1>4, <1>7, <1>8
  <2> QED
    BY <1>4, <1>6, <1>7, <2>1, ReportedAtStep
<1>11. PolicyInv'
  <2>1. current' = w /\ phase' = phase /\ (Deleting' <=> Deleting)
    BY <1>2, <1>4 DEF current, phase, Deleting
  <2>2. stage' = "cilium"
    BY DEF DeleteNetworkPolicy
  <2> QED
    BY <1>4, <1>6, <1>8, <2>1, <2>2 DEF PolicyInv
<1> QED
  BY <1>9, <1>10, <1>11

\* The policy of Cilium takes the place of the one that is gone.
LEMMA CiliumPolicyStep ==
    ASSUME TypeOK, RunInv, PolicyInv, ReportedComplete, reconcileCiliumNetworkPolicy
    PROVE  RunInv' /\ PolicyInv' /\ ReportedComplete'
<1>1. PICK c \in Step : c = pc
  BY AtStep DEF reconcileCiliumNetworkPolicy
<1>2. PICK w \in Workloads : w = current
  BY DEF reconcileCiliumNetworkPolicy, PolicyInv
<1>3. dependent' = [dependent EXCEPT !["ciliumPolicy"][w] = "owned"]
  BY <1>2 DEF reconcileCiliumNetworkPolicy, SetDependent
<1>4. UNCHANGED <<cilium, object, replicas, condition, dirty>>
  BY DEF reconcileCiliumNetworkPolicy, specVars
<1>5. "networkPolicy" \in Dependent /\ "ciliumPolicy" \in Dependent
  BY DEF Dependent
<1>6. /\ \A o \in Object \ {w} : Kept(o)
      /\ dependent'["ciliumPolicy"][w] = "owned"
      /\ dependent'["networkPolicy"][w] = dependent["networkPolicy"][w]
      /\ \A x \in Workloads \ {w} :
             dependent'["ciliumPolicy"][x] = dependent["ciliumPolicy"][x]
  <2>1. \A e \in Dependent, x \in Workloads :
            (e # "ciliumPolicy" \/ x # w) => dependent'[e][x] = dependent[e][x]
    BY <1>3, <1>5 DEF TypeOK
  <2>2. dependent'["ciliumPolicy"][w] = "owned"
    BY <1>3, <1>5 DEF TypeOK
  <2>3. \A o \in Object \ {w} : Kept(o)
    BY <1>4, <2>1, SetKeeps
  <2> QED
    BY <1>5, <2>1, <2>2, <2>3
<1>7. dependent["networkPolicy"][w] # "owned" /\ run.cilium
  BY <1>2 DEF PolicyInv, reconcileCiliumNetworkPolicy
<1>8. \E d \in Dependent : Policies(w)' = {d}
  BY <1>6, <1>7, OnePolicy
<1> QED
  BY <1>1, <1>2, <1>4, <1>6, <1>7, <1>8, AfterPoliciesStep DEF reconcileCiliumNetworkPolicy

\* The budget completes a Deployment.
LEMMA BudgetStep ==
    ASSUME TypeOK, RunInv, PolicyInv, ReportedComplete, reconcilePodDisruptionBudget
    PROVE  RunInv' /\ PolicyInv' /\ ReportedComplete'
<1>1. PICK c \in Step : c = pc
  BY AtStep DEF reconcilePodDisruptionBudget
<1>2. PICK w \in Workloads : w = current
  BY DEF reconcilePodDisruptionBudget, PolicyInv
<1>3. dependent' = [dependent EXCEPT !["budget"][w] =
                        IF replicas[w] > 1 THEN "owned" ELSE "absent"]
  BY <1>2 DEF reconcilePodDisruptionBudget, SetDependent
<1>4. UNCHANGED <<cilium, object, replicas, condition, dirty>> /\ Proceed
  BY DEF reconcilePodDisruptionBudget, specVars
<1>5. "networkPolicy" \in Dependent /\ "ciliumPolicy" \in Dependent /\ "budget" \in Dependent
  BY DEF Dependent
<1>6. /\ \A o \in Object \ {w} : Kept(o)
      /\ dependent'["budget"][w] = IF replicas[w] > 1 THEN "owned" ELSE "absent"
      /\ \A e \in Dependent \ {"budget"}, x \in Workloads : dependent'[e][x] = dependent[e][x]
  <2>1. \A e \in Dependent, x \in Workloads :
            (e # "budget" \/ x # w) => dependent'[e][x] = dependent[e][x]
    BY <1>3, <1>5 DEF TypeOK
  <2>2. dependent'["budget"][w] = IF replicas[w] > 1 THEN "owned" ELSE "absent"
    BY <1>3, <1>5 DEF TypeOK
  <2>3. \A o \in Object \ {w} : Kept(o)
    BY <1>4, <2>1, SetKeeps
  <2> QED
    BY <1>5, <2>1, <2>2, <2>3
<1>7. w = workloadPhases[c][2] /\ phase = workloadPhases[c][1]
  BY <1>1, <1>2 DEF current, phase
<1>8. /\ object[w] # "absent" /\ phase \in dirty /\ ~Deleting /\ pc > 0
      /\ \E d \in Dependent : Policies(w) = {d}
  BY <1>2 DEF reconcilePodDisruptionBudget, PolicyInv
<1>9. Policies(w)' = Policies(w)
  BY <1>5, <1>6 DEF Policies
<1>10. Accompanied(w)'
  BY <1>4, <1>6, <1>8, <1>9 DEF Accompanied
<1>11. Done(c)'
  BY <1>4, <1>7, <1>8, <1>10 DEF Done, Deleting, Proceed
<1>12. RunInv'
  BY <1>1, <1>4, <1>6, <1>7, <1>11, RunAtStep
<1>13. ReportedComplete'
  <2>1. dirty' = dirty \cup {workloadPhases[c][1]}
    BY <1>4, <1>7, <1>8
  <2> QED
    BY <1>4, <1>6, <1>7, <2>1, ReportedAtStep
<1>14. PolicyInv'
  BY <1>4, <1>5, <1>6, <1>8, PolicyAfterStep
<1> QED
  BY <1>12, <1>13, <1>14

-----------------------------------------------------------------------------
(* The beginning and the end of a run, and the steps of the cluster.        *)

\* A run begins with nothing behind it.
LEMMA BeginRunStep ==
    ASSUME TypeOK, RunInv, PolicyInv, ReportedComplete, BeginRun
    PROVE  RunInv' /\ PolicyInv' /\ ReportedComplete'
<1>1. stage' = "object" /\ pc' = 1 /\ pc = 0 /\ run'.cilium = cilium /\ cilium' = cilium
  BY DEF BeginRun, RunInv, specVars
<1>2. UNCHANGED <<object, replicas, dependent, condition, mem, dirty>>
  BY DEF BeginRun, worldVars
<1>3. \A i \in Step : ~(i < pc')
  BY <1>1, StepObjects
<1>4. \A p \in Phase : mem[p] = condition[p]
  BY <1>1 DEF RunInv
<1>5. RunInv'
  BY <1>1, <1>2, <1>3, <1>4 DEF RunInv
<1>6. PolicyInv'
  BY <1>1, <1>2 DEF PolicyInv
<1>7. \A o \in Object : Kept(o)
  BY <1>2 DEF Kept
<1>8. ReportedComplete'
  BY <1>2, <1>7, KeptReport
<1> QED
  BY <1>5, <1>6, <1>8

\* What the patch stores as True the run has done, or it is as before.
LEMMA PatchStep ==
    ASSUME TypeOK, RunInv, PolicyInv, ReportedComplete, Patch
    PROVE  RunInv' /\ PolicyInv' /\ ReportedComplete'
<1>1. /\ pc > 0 /\ pc \in Step
      /\ \/ mem[phase] = "False"
         \/ pc = Len(workloadPhases) /\ Done(pc)
  BY AtStep DEF Patch, RunInv
<1>2. /\ pc' = 0 /\ stage' = "object" /\ run'.cilium = FALSE
      /\ condition' = mem /\ mem' = mem /\ cilium' = cilium
      /\ UNCHANGED <<object, replicas, dependent>>
      /\ dirty' = dirty \ {workloadPhases[i][1] : i \in 1 .. pc}
  BY DEF Patch, EndRun, specVars, worldVars
<1>3. RunInv'
  BY <1>2, StepObjects DEF RunInv
<1>4. PolicyInv'
  BY <1>2 DEF PolicyInv
<1>5. \A o \in Object : Kept(o)
  BY <1>2 DEF Kept
<1>6. ASSUME NEW p \in Phase \ dirty', condition'[p] = "True"
      PROVE  Present(p) \/ (p = "kubeProxy" /\ Gone(p))
  <2>1. CASE p \notin {workloadPhases[i][1] : i \in 1 .. pc}
    <3>1. condition[p] = "True" /\ p \notin dirty
      BY <1>2, <1>6, <2>1 DEF RunInv
    <3> QED
      BY <1>6, <3>1 DEF ReportedComplete
  <2>2. CASE p \in {workloadPhases[i][1] : i \in 1 .. pc}
    <3>1. PICK i \in 1 .. pc : workloadPhases[i][1] = p
      BY <2>2
    <3>2. i \in Step
      BY <1>1, <3>1, StepObjects
    <3>3. ASSUME NEW k \in Step, workloadPhases[k][1] = p
          PROVE  Done(k)
      <4>1. CASE mem[phase] = "False"
        <5>1. p # workloadPhases[pc][1]
          BY <1>2, <1>6, <4>1 DEF phase
        <5>2. k < pc
          BY <1>1, <3>1, <3>2, <3>3, <5>1, StepsContiguous, StepObjects
        <5> QED
          BY <3>3, <5>2 DEF RunInv
      <4>2. CASE pc = Len(workloadPhases) /\ Done(pc)
        <5>1. k < pc \/ k = pc
          BY <3>3, <4>2, StepObjects
        <5> QED
          BY <3>3, <4>2, <5>1 DEF RunInv
      <4> QED
        BY <1>1, <4>1, <4>2
    <3>4. CASE p = "kubeProxy" /\ ~run.kubeProxy
      <4>1. \A o \in ObjectsOf(p) : Void(o)
        BY <3>3, <3>4 DEF ObjectsOf, Done, Void
      <4> QED
        BY <3>4, <4>1, PhaseComplete
    <3>5. CASE ~(p = "kubeProxy" /\ ~run.kubeProxy)
      <4>1. \A o \in ObjectsOf(p) : Complete(o)
        BY <3>3, <3>5 DEF ObjectsOf, Done, Complete
      <4> QED
        BY <4>1, PhaseComplete
    <3> QED
      BY <3>4, <3>5
  <2> QED
    BY <2>1, <2>2
<1>7. ReportedComplete'
  <2> SUFFICES ASSUME NEW p \in Phase \ dirty', condition'[p] = "True"
               PROVE  Present(p)' \/ (p = "kubeProxy" /\ Gone(p)')
    BY DEF ReportedComplete
  <2>1. \A o \in ObjectsOf(p) : Kept(o)
    BY <1>5 DEF ObjectsOf, Object
  <2> QED
    BY <1>6, <2>1, KeptPhase
<1> QED
  BY <1>3, <1>4, <1>7

\* A run that is lost leaves its phases marked.
LEMMA AbandonStep ==
    ASSUME TypeOK, RunInv, PolicyInv, ReportedComplete, Abandon
    PROVE  RunInv' /\ PolicyInv' /\ ReportedComplete'
<1>1. /\ pc' = 0 /\ stage' = "object" /\ run'.cilium = FALSE
      /\ mem' = condition /\ cilium' = cilium
      /\ UNCHANGED <<object, replicas, dependent, condition, dirty>>
  BY DEF Abandon, EndRun, specVars, worldVars
<1>2. RunInv'
  BY <1>1, StepObjects DEF RunInv
<1>3. PolicyInv'
  BY <1>1 DEF PolicyInv
<1>4. \A o \in Object : Kept(o)
  BY <1>1 DEF Kept
<1> QED
  BY <1>1, <1>2, <1>3, <1>4, KeptReport

\* A step of the cluster or of a user: it leaves the run alone, keeps what is
\* there and what is owned, and never takes Cilium away.
Outside ==
    /\ \A o \in Object : Kept(o)
    /\ UNCHANGED <<condition, pc, stage, run, mem, dirty>>
    /\ cilium => cilium'
    /\ \A w \in Workloads : dependent["networkPolicy"][w] = "absent" =>
           dependent'["networkPolicy"][w] = "absent"

\* Such a step keeps the invariants of the run.
LEMMA OutsideStep ==
    ASSUME TypeOK, RunInv, PolicyInv, ReportedComplete, Outside
    PROVE  RunInv' /\ PolicyInv' /\ ReportedComplete'
<1>1. UNCHANGED <<condition, pc, stage, run, mem, dirty>> /\ \A o \in Object : Kept(o)
  BY DEF Outside
<1>2. current' = current /\ phase' = phase /\ (Deleting' <=> Deleting)
  BY <1>1 DEF current, phase, Deleting
<1>3. \A i \in Step : Done(i)' <=> Done(i)
  BY <1>1, KeptStep, StepObjects
<1>4. stage = "patch" => (Done(pc)' <=> Done(pc))
  <2>1. ASSUME NEW c \in Step, c = pc
        PROVE  Done(pc)' <=> Done(pc)
    <3>1. (Done(pc)' <=> Done(c)') /\ (Done(pc) <=> Done(c))
      BY <1>1, <2>1 DEF Done
    <3> QED
      BY <1>3, <2>1, <3>1
  <2> QED
    BY <2>1, AtStep DEF RunInv
<1>5. RunInv'
  BY <1>1, <1>2, <1>3, <1>4 DEF RunInv
<1>6. \A w \in Workloads :
          (dependent'["ciliumPolicy"][w] = "owned") <=> (dependent["ciliumPolicy"][w] = "owned")
  BY <1>1, StepObjects DEF Kept, Dependent
<1>7. ASSUME stage \in {"policy", "cilium", "budget"}
      PROVE  /\ pc > 0 /\ current \in Workloads /\ object'[current] # "absent"
             /\ Policies(current)' = Policies(current)
  <2>1. pc > 0 /\ current \in Workloads /\ object[current] # "absent"
    BY <1>7 DEF PolicyInv
  <2>2. PICK w \in Workloads : w = current
    BY <2>1
  <2>3. Policies(w)' = Policies(w) /\ object'[w] # "absent"
    BY <1>1, <2>1, <2>2, KeptObject, StepObjects DEF Kept
  <2>4. Policies(current)' = Policies(w)'
    BY <1>2, <2>2 DEF Policies
  <2> QED
    BY <2>1, <2>2, <2>3, <2>4
<1>8. PolicyInv'
  BY <1>1, <1>2, <1>6, <1>7 DEF PolicyInv, Outside
<1>9. ReportedComplete'
  BY <1>1, KeptReport
<1> QED
  BY <1>5, <1>8, <1>9

\* Every step of Next is one of the run or one outside it.
LEMMA InvStep ==
    ASSUME TypeOK, RunInv, PolicyInv, ReportedComplete, [Next]_vars
    PROVE  RunInv' /\ PolicyInv' /\ ReportedComplete'
<1> USE DEF specVars, worldVars, runVars
<1>1. CASE Controller
  BY <1>1, BeginRunStep, ApplyObjectStep, RecreateObjectStep, DeleteObjectStep,
     ApplyWorkloadStep, KubernetesPolicyStep, DeletePolicyStep, CiliumPolicyStep,
     BudgetStep, PatchStep DEF Controller
<1>2. CASE Fail \/ Abandon
  BY <1>2, FailStep, AbandonStep
<1>3. ASSUME NEW d \in Dependent, NEW v \in Workloads, CollectGarbage(d, v)
      PROVE  Outside
  <2>1. \A e \in Dependent, w \in Workloads :
            \/ dependent'[e][w] = dependent[e][w]
            \/ dependent[e][w] = "dangling" /\ dependent'[e][w] = "absent"
    BY <1>3 DEF CollectGarbage, TypeOK
  <2>2. UNCHANGED <<object, replicas, cilium, condition, pc, stage, run, mem, dirty>>
    BY <1>3 DEF CollectGarbage
  <2> QED
    BY <2>1, <2>2 DEF Outside, Kept, Dependent
<1>4. CASE NodeJoins \/ NodeLeaves \/ SwitchKubeProxy
  <2>1. UNCHANGED <<object, replicas, dependent, cilium, condition, pc, stage, run, mem, dirty>>
    BY <1>4 DEF NodeJoins, NodeLeaves, SwitchKubeProxy
  <2>2. Outside
    BY <2>1 DEF Outside, Kept
  <2> QED
    BY <2>2, OutsideStep
<1>5. ASSUME NEW w \in Workloads, SyncStatus(w) \/ BecomeAvailable(w) \/ LosePods(w)
      PROVE  Outside
  <2>1. UNCHANGED <<object, replicas, dependent, cilium, condition, pc, stage, run, mem, dirty>>
    BY <1>5 DEF SyncStatus, BecomeAvailable, LosePods
  <2> QED
    BY <2>1 DEF Outside, Kept
<1>6. CASE InstallCilium
  <2>1. UNCHANGED <<object, replicas, dependent, condition, pc, stage, run, mem, dirty>> /\ cilium'
    BY <1>6 DEF InstallCilium
  <2>2. Outside
    BY <2>1 DEF Outside, Kept
  <2> QED
    BY <2>2, OutsideStep
<1>7. ASSUME NEW o \in Bindings \cup Workloads, NewRelease(o)
      PROVE  Outside
  <2>1. /\ object' = [object EXCEPT ![o] = "outdated"] /\ object[o] = "applied"
        /\ UNCHANGED <<replicas, dependent, cilium, condition, pc, stage, run, mem, dirty>>
    BY <1>7 DEF NewRelease
  <2>2. \A x \in Object : (object'[x] = "absent") <=> (object[x] = "absent")
    BY <2>1 DEF TypeOK
  <2> QED
    BY <2>1, <2>2 DEF Outside, Kept
<1>8. CASE UNCHANGED vars
  <2>1. UNCHANGED <<object, replicas, dependent, cilium, condition, pc, stage, run, mem, dirty>>
    BY <1>8 DEF vars
  <2>2. Outside
    BY <2>1 DEF Outside, Kept
  <2> QED
    BY <2>2, OutsideStep
<1> QED
  BY <1>1, <1>2, <1>3, <1>4, <1>5, <1>6, <1>7, <1>8, OutsideStep DEF Next

-----------------------------------------------------------------------------
(* Theorems.                                                                *)

\* Nothing is there, and no run in flight, at first.
LEMMA InvInit ==
    ASSUME Init
    PROVE  TypeOK /\ RunInv /\ PolicyInv /\ ReportedComplete
<1>1. run \in [kubeProxy : BOOLEAN, cilium : BOOLEAN] /\ ready \in BOOLEAN /\ run.cilium = FALSE
  BY DEF Init
<1>2. kubeProxy \in BOOLEAN /\ cilium \in BOOLEAN
  BY DEF Init
<1>3. TypeOK
  BY <1>1, <1>2, ConstantsAssumption, StepObjects DEF Init, TypeOK, Conditions, Stages
<1>4. RunInv
  BY StepObjects DEF Init, RunInv
<1>5. PolicyInv
  BY <1>1 DEF Init, PolicyInv, Dependent
<1>6. ReportedComplete
  BY DEF Init, ReportedComplete
<1> QED
  BY <1>3, <1>4, <1>5, <1>6

\* All of it holds together in every reachable state.
LEMMA Inductive == Spec => [](TypeOK /\ RunInv /\ PolicyInv /\ ReportedComplete)
<1>1. Init => TypeOK /\ RunInv /\ PolicyInv /\ ReportedComplete
  BY InvInit
<1>2. (TypeOK /\ RunInv /\ PolicyInv /\ ReportedComplete) /\ [Next]_vars =>
          (TypeOK /\ RunInv /\ PolicyInv /\ ReportedComplete)'
  BY TypeStep, InvStep
<1> QED
  BY <1>1, <1>2, PTL DEF Spec

\* The variables of the workload phases keep their types.
THEOREM TypeCorrect == Spec => []TypeOK
  BY Inductive, PTL

\* For any number of nodes, replicas, switches, releases and failures, and
\* wherever a run fails or is lost: a phase that is reported ready and was not
\* touched by a run without a stored result is complete.
THEOREM AlwaysReportedComplete == Spec => []ReportedComplete
  BY Inductive, PTL

=============================================================================
