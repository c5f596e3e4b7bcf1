------------------------- MODULE ControlPlaneProofs -------------------------
(***************************************************************************)
(* Theorems about ControlPlane for any number of phases, edits, pauses and *)
(* faults.                                                                 *)
(*                                                                         *)
(* VersionInv follows a generation from the stored object through the      *)
(* cache and the reconcile's copy into the deployments: each of the four   *)
(* lags behind the one before it.  FinalizerInv says what a copy of the    *)
(* object proves about the stored object it was once read from.            *)
(* SummaryInv follows the conditions from the stored object through the    *)
(* phases, which fill them in order, back into the patch.                  *)
(*                                                                         *)
(* The last part shows that ControlPlane implements UpgradeContract.       *)
(***************************************************************************)
EXTENDS ControlPlaneRefinement, TLAPS

-----------------------------------------------------------------------------
(* Type correctness.                                                       *)

\* The steps of the deployments phase are steps, in this order, and every
\* step has a condition.
LEMMA StepFacts ==
  /\ Step \subseteq Nat
  /\ firstPhase \in Step /\ apiServer \in Step /\ controllerManager \in Step
  /\ scheduler \in Step /\ workloadResources \in Step /\ adminKubeconfig \in Step
  /\ workloadResources \in Conditions
  /\ apiServer .. scheduler = {apiServer, controllerManager, scheduler}
  /\ controllerManager = apiServer + 1 /\ scheduler = apiServer + 2
  /\ \A n \in Step : condition(n) \in Conditions
  /\ \A n \in Step : n # workloadResources => n + 1 \in Step
<1>1. /\ Step \subseteq Nat
      /\ firstPhase \in Step /\ apiServer \in Step /\ controllerManager \in Step
      /\ scheduler \in Step /\ workloadResources \in Step /\ adminKubeconfig \in Step
      /\ \A n \in Step : n # workloadResources => n + 1 \in Step
  BY ConstantsAssumption
  DEF Step, firstPhase, apiServer, controllerManager, scheduler, workloadResources,
      adminKubeconfig
<1>2. /\ apiServer .. scheduler = {apiServer, controllerManager, scheduler}
      /\ controllerManager = apiServer + 1 /\ scheduler = apiServer + 2
  BY ConstantsAssumption DEF apiServer, controllerManager, scheduler
<1>3. \A n \in Step : condition(n) \in Conditions
  BY DEF Conditions
<1>4. condition(workloadResources) = workloadResources
  BY ConstantsAssumption DEF condition, apiServer, scheduler, workloadResources
<1> QED BY <1>1, <1>2, <1>3, <1>4

\* A new object, and an object whose condition was set, is an object.
LEMMA ObjectFacts ==
  /\ NewObject \in Object
  /\ \A o \in Object, n \in Step, s \in Status :
       /\ SetCondition(o, n, s) \in Object
       /\ SetCondition(o, n, s).generation = o.generation
       /\ SetCondition(o, n, s).version = o.version
       /\ SetCondition(o, n, s).deleting = o.deleting
       /\ SetCondition(o, n, s).finalizer = o.finalizer
<1>1. NewObject \in Object
  BY ConstantsAssumption DEF NewObject, Object, Status, Summary, Generation
<1>2. ASSUME NEW o \in Object, NEW n \in Step, NEW s \in Status
      PROVE  /\ SetCondition(o, n, s) \in Object
             /\ SetCondition(o, n, s).generation = o.generation
             /\ SetCondition(o, n, s).version = o.version
             /\ SetCondition(o, n, s).deleting = o.deleting
             /\ SetCondition(o, n, s).finalizer = o.finalizer
  <2>1. condition(n) \in Conditions
    BY StepFacts
  <2>2. [o.conds EXCEPT ![condition(n)] = s] \in [Conditions -> Status]
    BY <2>1 DEF Object
  <2> QED BY <2>2 DEF SetCondition, Object
<1> QED BY <1>1, <1>2

\* A missing load balancer IP shows like a failing step that wrote nothing.
LEMMA LoadBalancerFails == LoadBalancerIPNotReady => StepFails
  BY DEF LoadBalancerIPNotReady, StepFails, NotReady, worldVars

\* The summary of an object's conditions is a summary.
LEMMA SummaryType == \A o \in Object : SummaryCondition(o) \in Summary
  BY DEF SummaryCondition, Summary, Object, Applicable

\* Leaving the phases keeps the copy an object and goes to the patch.
LEMMA LeaveType ==
  ASSUME NEW o \in Object, LeavePhases(o)
  PROVE  /\ mem' \in Object /\ pc' = "patchConditions"
         /\ mem'.generation = o.generation /\ mem'.version = o.version
         /\ mem'.deleting = o.deleting /\ mem'.finalizer = o.finalizer
  BY DEF LeavePhases, Goto, Object

\* A reconcile that returns leaves typed variables behind.
LEMMA ReturnType ==
  ASSUME TypeOK, NEW r \in BOOLEAN, Return(r)
  PROVE  /\ queued' \in BOOLEAN /\ pc' = "idle" /\ step' \in Step
         /\ waiting' \in BOOLEAN /\ done' \subseteq Step
         /\ base' = NewObject /\ mem' = NewObject
         /\ base' \in Object /\ mem' \in Object
  BY StepFacts, ObjectFacts DEF Return, Goto, TypeOK

\* Every step keeps the variables in their types.
LEMMA TypeStep == TypeOK /\ [Next]_vars => TypeOK'
<1> SUFFICES ASSUME TypeOK, [Next]_vars PROVE TypeOK'
  OBVIOUS
<1> USE StepFacts, ObjectFacts
<1>1. CASE BeginReconcile
  BY <1>1 DEF BeginReconcile, TypeOK, Goto, Places, worldVars
<1>2. CASE GetOwnerCluster
  <2>1. CASE Return(FALSE) \/ Return(TRUE)
    BY <1>2, <2>1, ReturnType DEF GetOwnerCluster, TypeOK, Places, worldVars
  <2>2. CASE Goto("pause") /\ UNCHANGED <<queued, step, waiting, done, base, mem>>
    BY <1>2, <2>2 DEF GetOwnerCluster, TypeOK, Goto, Places, worldVars
  <2> QED BY <1>2, <2>1, <2>2 DEF GetOwnerCluster
<1>3. CASE EnsurePausedCondition
  <2>1. PausedStatus \in Status
    BY DEF PausedStatus, Status
  <2>2. [hcp EXCEPT !.pausedCondition = PausedStatus] \in Object
    BY <2>1 DEF TypeOK, Object
  <2>3. hcp' \in Object
    BY <1>3, <2>2 DEF EnsurePausedCondition, TypeOK
  <2>4. CASE Return(TRUE)
    BY <1>3, <2>3, <2>4, ReturnType DEF EnsurePausedCondition, TypeOK, Places, worldVars
  <2>5. CASE /\ Goto(IF mem.deleting THEN "prepare" ELSE "finalizer")
             /\ UNCHANGED <<queued, step, waiting, done, base, mem>>
    BY <1>3, <2>3, <2>5 DEF EnsurePausedCondition, TypeOK, Goto, Places, worldVars
  <2> QED BY <1>3, <2>4, <2>5 DEF EnsurePausedCondition
<1>4. CASE EnsureFinalizer
  <2>1. [hcp EXCEPT !.finalizer = TRUE] \in Object
    BY DEF TypeOK, Object
  <2>2. hcp' \in Object
    <3>1. hcp' = hcp \/ hcp' = [hcp EXCEPT !.finalizer = TRUE]
      BY <1>4, Zenon DEF EnsureFinalizer
    <3> QED BY <2>1, <3>1 DEF TypeOK
  <2>3. CASE Return(~hcp.exists \/ hcp.deleting)
    <3>1. (~hcp.exists \/ hcp.deleting) \in BOOLEAN
      OBVIOUS
    <3> QED BY <1>4, <2>2, <2>3, <3>1, ReturnType DEF EnsureFinalizer, TypeOK, Places, worldVars
  <2>4. CASE Goto("prepare") /\ UNCHANGED <<hcp, queued, step, waiting, done, base, mem>>
    BY <1>4, <2>4 DEF EnsureFinalizer, TypeOK, Goto, Places, worldVars
  <2> QED BY <1>4, <2>3, <2>4 DEF EnsureFinalizer
<1>5. CASE reconcileDelete
  <2>1. mem' \in Object
    BY <1>5 DEF reconcileDelete, TypeOK, Object
  <2> QED BY <1>5, <2>1 DEF reconcileDelete, TypeOK, Goto, Places, worldVars, objVars
<1>6. CASE PreparePhases
  <2>1. SetCondition(mem, workloadResources, "False") \in Object
    BY DEF TypeOK, Status
  <2>2. mem' \in Object /\ pc' \in Places
    BY <1>6, <2>1, LeaveType DEF PreparePhases, TypeOK, Goto, Places
  <2>3. faults' \in 0 .. MaxFaults
    BY <1>6, ConstantsAssumption DEF PreparePhases, TypeOK, Fault
  <2> QED BY <1>6, <2>2, <2>3 DEF PreparePhases, TypeOK, worldVars, objVars
<1>7. ASSUME NEW n \in Step, ReconcilePhase(n) PROVE TypeOK'
  <2>1. SetCondition(mem, n, "True") \in Object /\ SetCondition(mem, n, "False") \in Object
    BY DEF TypeOK, Status
  <2>2. [SetCondition(mem, n, "True") EXCEPT !.statusReady = TRUE] \in Object
    BY <2>1 DEF Object
  <2>3. applied' \in [Step -> Generation] /\ up' \subseteq Step
    <3>1. mem.generation \in Generation
      BY DEF TypeOK, Object
    <3> QED BY <1>7, <3>1 DEF ReconcilePhase, Apply, TypeOK
  <2>4. mem' \in Object /\ pc' \in Places /\ step' \in Step /\ done' \subseteq Step
    <3>1. CASE NotReady(n)
      BY <2>1, <3>1, LeaveType DEF NotReady, TypeOK, Places
    <3>2. ASSUME NEW o \in Object, Succeed(n, o)
          PROVE  mem' \in Object /\ pc' \in Places /\ step' \in Step /\ done' \subseteq Step
      BY <3>2, LeaveType DEF Succeed, TypeOK, Places
    <3> QED BY <1>7, <2>1, <2>2, <3>1, <3>2 DEF ReconcilePhase
  <2> QED BY <1>7, <2>3, <2>4 DEF ReconcilePhase, TypeOK, objVars
<1>8. CASE reconcileAPIServerDeployment
  <2>1. SetCondition(mem, apiServer, "False") \in Object /\ mem.generation \in Generation
    BY DEF TypeOK, Status, Object
  <2>2. applied' \in [Step -> Generation] /\ up' \subseteq Step
    BY <1>8, <2>1 DEF reconcileAPIServerDeployment, Apply, TypeOK
  <2>3. mem' \in Object /\ pc' \in Places /\ step' \in Step /\ done' \subseteq Step
    <3>1. CASE NotReady(apiServer)
      BY <2>1, <3>1, LeaveType DEF NotReady, TypeOK, Places
    <3>2. CASE Succeed(apiServer, mem)
      BY <3>2, LeaveType DEF Succeed, TypeOK, Places
    <3> QED BY <1>8, <3>1, <3>2 DEF reconcileAPIServerDeployment
  <2> QED BY <1>8, <2>2, <2>3 DEF reconcileAPIServerDeployment, TypeOK, objVars
<1>9. CASE reconcileControllerManagerDeployment
  <2>1. mem.generation \in Generation
    BY DEF TypeOK, Object
  <2>2. applied' \in [Step -> Generation] /\ up' \subseteq Step
    BY <1>9, <2>1 DEF reconcileControllerManagerDeployment, Apply, TypeOK
  <2> QED BY <1>9, <2>2 DEF reconcileControllerManagerDeployment, TypeOK, objVars, Goto, Places
<1>10. CASE reconcileSchedulerDeployment
  <2> DEFINE o == DeploymentsReady(mem)
  <2>1. /\ SetCondition(mem, scheduler, "False") \in Object /\ mem.generation \in Generation
        /\ SetCondition(mem, scheduler, "True") \in Object
    BY DEF TypeOK, Status, Object
  <2>2. o \in Object
    BY <2>1 DEF Object, DeploymentsReady
  <2>3. applied' \in [Step -> Generation] /\ up' \subseteq Step
    BY <1>10, <2>1 DEF reconcileSchedulerDeployment, Apply, TypeOK
  <2>4. mem' \in Object /\ pc' \in Places /\ step' \in Step /\ done' \subseteq Step
    <3> HIDE DEF o
    <3>1. CASE NotReady(scheduler)
      BY <2>1, <3>1, LeaveType DEF NotReady, TypeOK, Places
    <3>2. CASE Succeed(scheduler, o)
      BY <2>2, <3>2, LeaveType DEF Succeed, TypeOK, Places
    <3> QED BY <1>10, <3>1, <3>2 DEF reconcileSchedulerDeployment, o
  <2> QED BY <1>10, <2>3, <2>4 DEF reconcileSchedulerDeployment, TypeOK, objVars
<1>11. CASE StepFails
  <2>1. SetCondition(mem, step, "False") \in Object /\ mem.generation \in Generation
    BY DEF TypeOK, Status, Object
  <2>2. mem' \in Object /\ pc' \in Places
    BY <1>11, <2>1, LeaveType DEF StepFails, Places
  <2>3. applied' \in [Step -> Generation] /\ faults' \in 0 .. MaxFaults
    BY <1>11, <2>1, ConstantsAssumption DEF StepFails, TypeOK, Fault
  <2> QED BY <1>11, <2>2, <2>3 DEF StepFails, TypeOK, objVars
<1>12. CASE patch
  <2> DEFINE merged == [c \in Conditions |-> IF mem.conds[c] # base.conds[c]
                                             THEN mem.conds[c] ELSE hcp.conds[c]]
             ready == SummaryCondition(mem)
             shown == IF ready # base.ready THEN ready ELSE hcp.ready
  <2>1. ready \in Summary
    BY SummaryType DEF TypeOK
  <2>2. merged \in [Conditions -> Status] /\ shown \in Summary
    BY <2>1 DEF TypeOK, Object
  <2>3. [mem EXCEPT !.ready = ready] \in Object
    <3> HIDE DEF ready
    <3> QED BY <2>1 DEF TypeOK, Object
  <2>4. [hcp EXCEPT !.conds = merged, !.ready = shown] \in Object
    <3> HIDE DEF merged, shown
    <3> QED BY <2>2 DEF TypeOK, Object
  <2>5. mem' \in Object
    BY <1>12, <2>3 DEF patch
  <2>6. hcp' \in Object
    BY <1>12, <2>4 DEF patch, TypeOK
  <2> QED BY <1>12, <2>5, <2>6 DEF patch, TypeOK, Goto, Places, worldVars
<1>13. CASE PatchObject
  <2>1. hcp' \in Object
    <3>1. [hcp EXCEPT !.finalizer = FALSE, !.exists = ~hcp.deleting] \in Object
      BY DEF TypeOK, Object
    <3>2. hcp' = hcp \/ hcp' = [hcp EXCEPT !.finalizer = FALSE, !.exists = ~hcp.deleting]
      BY <1>13, Zenon DEF PatchObject
    <3> QED BY <3>1, <3>2 DEF TypeOK
  <2> QED BY <1>13, <2>1 DEF PatchObject, TypeOK, Goto, Places, worldVars
<1>14. CASE PatchStatus
  <2>1. hcp' \in Object
    <3> DEFINE i == IF mem.initialized # base.initialized THEN mem.initialized
                                                          ELSE hcp.initialized
               r == IF mem.statusReady # base.statusReady THEN mem.statusReady
                                                          ELSE hcp.statusReady
               v == IF mem.version # base.version THEN mem.version ELSE hcp.version
               g == IF mem.observed # base.observed THEN mem.observed ELSE hcp.observed
               o == [hcp EXCEPT !.initialized = i, !.statusReady = r, !.version = v,
                                !.observed = g]
    <3>1. i \in BOOLEAN /\ r \in BOOLEAN /\ v \in Generation /\ g \in Generation
      BY DEF TypeOK, Object
    <3>2. o \in Object
      <4> HIDE DEF i, r, v, g
      <4> QED BY <3>1 DEF TypeOK, Object
    <3>3. hcp' = hcp \/ hcp' = o
      BY <1>14, Zenon DEF PatchStatus
    <3> QED BY <3>2, <3>3 DEF TypeOK
  <2>2. (~mem.deleting) \in BOOLEAN /\ Return(~mem.deleting)
    BY <1>14 DEF PatchStatus
  <2> QED BY <1>14, <2>1, <2>2, ReturnType DEF PatchStatus, TypeOK, Places, worldVars
<1>15. CASE LoseReconcile
  <2>1. faults' \in 0 .. MaxFaults
    BY <1>15, ConstantsAssumption DEF LoseReconcile, TypeOK, Fault
  <2> QED BY <1>15, <2>1, ReturnType DEF LoseReconcile, TypeOK, Places, worldVars
<1>16. CASE SyncCache
  BY <1>16 DEF SyncCache, TypeOK, ctrlVars, worldVars
<1>17. CASE SetOwnerReference \/ UpdateSpec \/ Delete
  <2>1. [hcp EXCEPT !.owned = TRUE] \in Object
    BY DEF TypeOK, Object
  <2>2. [hcp EXCEPT !.deleting = TRUE, !.exists = hcp.finalizer] \in Object
    BY DEF TypeOK, Object
  <2>3. ASSUME hcp.generation <= MaxEdits
        PROVE  [hcp EXCEPT !.generation = hcp.generation + 1] \in Object
    <3>1. hcp.generation + 1 \in Generation
      BY <2>3, ConstantsAssumption DEF TypeOK, Object, Generation
    <3> QED BY <3>1 DEF TypeOK, Object
  <2>4. hcp' \in Object
    BY <1>17, <2>1, <2>2, <2>3 DEF SetOwnerReference, UpdateSpec, Delete
  <2> QED BY <1>17, <2>4
      DEF SetOwnerReference, UpdateSpec, Delete, TypeOK, ctrlVars, worldVars
<1>18. CASE PauseCluster
  BY <1>18, ConstantsAssumption DEF PauseCluster, TypeOK, ctrlVars, worldVars
<1>19. ASSUME NEW n \in Step, BecomeReady(n) \/ Degrade(n) PROVE TypeOK'
  <2>1. faults' \in 0 .. MaxFaults
    BY <1>19, ConstantsAssumption DEF BecomeReady, Degrade, Fault, TypeOK
  <2>2. up' \subseteq Step
    BY <1>19, Zenon DEF BecomeReady, Degrade, TypeOK
  <2> QED BY <1>19, <2>1, <2>2 DEF BecomeReady, Degrade, TypeOK, ctrlVars, objVars
<1>20. CASE UNCHANGED vars
  BY <1>20 DEF TypeOK, vars, ctrlVars, worldVars, objVars
<1> QED
  BY <1>1, <1>2, <1>3, <1>4, <1>5, <1>6, <1>7, <1>8, <1>9, <1>10, <1>11, <1>12, <1>13,
     <1>14, <1>15, <1>16, <1>17, <1>18, <1>19, <1>20, LoadBalancerFails DEF Next, Controller

\* Whatever is interleaved, every variable keeps its type; in particular the
\* conditions of an object are always those of the phases.
THEOREM TypeCorrect == Spec => []TypeOK
<1>1. Init => TypeOK
  <2> SUFFICES ASSUME Init PROVE TypeOK
    OBVIOUS
  <2>1. hcp \in Object /\ cache \in Object /\ base \in Object /\ mem \in Object
    BY ObjectFacts DEF Init
  <2>2. applied \in [Step -> Generation] /\ pauses \in 0 .. MaxPauses /\ faults \in 0 .. MaxFaults
    BY ConstantsAssumption DEF Init, Generation
  <2>3. step \in Step /\ done \subseteq Step /\ up \subseteq Step /\ pc \in Places
    BY StepFacts, Zenon DEF Init, Places
  <2> QED BY <2>1, <2>2, <2>3 DEF Init, TypeOK
<1> QED BY <1>1, TypeStep, PTL DEF Spec

-----------------------------------------------------------------------------
(* The order of upgrades.                                                  *)

\* Versions and generations are numbers, and what was applied is one.
LEMMA Numbers ==
  ASSUME TypeOK
  PROVE  /\ hcp.generation \in Nat /\ cache.generation \in Nat /\ mem.generation \in Nat
         /\ hcp.version \in Nat /\ cache.version \in Nat
         /\ base.version \in Nat /\ mem.version \in Nat
         /\ \A n \in Step : applied[n] \in Nat
<1>1. Generation \subseteq Nat
  BY ConstantsAssumption DEF Generation
<1> QED BY <1>1 DEF TypeOK, Object

\* A step that applies nothing, and writes no version but the reconcile's,
\* keeps VersionInv.
LEMMA VersionKept ==
  ASSUME TypeOK, TypeOK', VersionInv,
         applied' = applied, cache' = cache, hcp.generation <= hcp'.generation,
         hcp'.version = hcp.version \/ hcp'.version = mem.version,
         \/ UNCHANGED <<pc, step, base, mem>>
         \/ pc' = "idle" /\ step' = firstPhase /\ base' = NewObject /\ mem' = NewObject
            /\ pc # "idle"
         \/ /\ pc # "idle" /\ pc' # "idle" /\ step' = step /\ base' = base
            /\ mem'.generation = mem.generation /\ mem'.version = mem.version
            /\ pc = "prepare" \/ pc' # "phase"
            /\ pc' \in {"idle", "get", "pause", "finalizer", "prepare"} =>
                 pc \in {"idle", "get", "pause", "finalizer", "prepare"}
  PROVE  VersionInv'
<1> USE StepFacts, Numbers
<1>1. NewObject.version = 0
  BY DEF NewObject
<1>2. TypeOK' => /\ hcp'.generation \in Nat /\ cache'.generation \in Nat
                 /\ mem'.generation \in Nat
  <2>1. Generation \subseteq Nat
    BY ConstantsAssumption DEF Generation
  <2> QED BY <2>1 DEF TypeOK, Object
<1>3. /\ cache'.generation <= hcp'.generation
      /\ pc' # "idle" => mem'.generation <= cache'.generation
  BY <1>2 DEF VersionInv
<1>4. pc' \in {"idle", "get", "pause", "finalizer", "prepare"} => step' = firstPhase
  BY DEF VersionInv
<1>5. \A n \in Step :
        applied'[n] <= (IF pc' = "idle" THEN cache'.generation ELSE mem'.generation)
  BY DEF VersionInv
<1>6. /\ pc' = "phase" /\ step' \in {controllerManager, scheduler} =>
           applied'[apiServer] = mem'.generation
      /\ pc' = "phase" /\ step' = scheduler =>
           applied'[controllerManager] = mem'.generation
  <2>1. firstPhase \notin {controllerManager, scheduler}
    BY ConstantsAssumption DEF firstPhase, controllerManager, scheduler
  <2> QED BY <2>1 DEF VersionInv
<1>7. NoVersionAhead'
  BY DEF VersionInv, NoVersionAhead
<1>8. \A n \in apiServer .. scheduler :
        /\ hcp'.version <= applied'[n] /\ cache'.version <= applied'[n]
        /\ base'.version <= applied'[n] /\ mem'.version <= applied'[n]
  <2> SUFFICES ASSUME NEW n \in apiServer .. scheduler
               PROVE  /\ hcp'.version <= applied'[n] /\ cache'.version <= applied'[n]
                      /\ base'.version <= applied'[n] /\ mem'.version <= applied'[n]
    OBVIOUS
  <2>1. applied[n] \in Nat
    OBVIOUS
  <2> QED BY <1>1, <2>1 DEF VersionInv
<1>9. mem'.version = base'.version \/ mem'.version = mem'.generation
  BY DEF VersionInv
<1> QED BY <1>3, <1>4, <1>5, <1>6, <1>7, <1>8, <1>9 DEF VersionInv

\* A step of the phases that applies its objects, or fails to, keeps
\* VersionInv: it never applies less than what is there, and the version is
\* noted only when the scheduler, the last of the three, was applied.
LEMMA VersionApply ==
  ASSUME TypeOK, TypeOK', VersionInv, pc = "phase",
         applied' \in {applied, [applied EXCEPT ![step] = mem.generation]},
         UNCHANGED <<hcp, cache, base>>, mem'.generation = mem.generation,
         \/ mem'.version = mem.version
         \/ step = scheduler /\ mem'.version = mem.generation
            /\ applied'[scheduler] = mem.generation,
         \/ pc' = "patchConditions"
         \/ pc' = "phase" /\ step' = step + 1 /\ applied'[step] = mem.generation
  PROVE  VersionInv'
<1> USE StepFacts, Numbers
<1>1. step \in Step /\ applied \in [Step -> Generation]
  BY DEF TypeOK
<1>2. \A n \in Step : /\ applied'[n] \in Nat /\ applied[n] <= applied'[n]
                      /\ applied'[n] <= mem.generation
                      /\ n # step => applied'[n] = applied[n]
                      /\ applied'[n] = applied[n] \/ applied'[n] = mem.generation
  BY <1>1 DEF VersionInv
<1>3. /\ pc' = "phase" /\ step' \in {controllerManager, scheduler} =>
           applied'[apiServer] = mem'.generation
      /\ pc' = "phase" /\ step' = scheduler =>
           applied'[controllerManager] = mem'.generation
  <2>1. CASE step' = controllerManager /\ pc' = "phase"
    <3>1. step = apiServer
      BY <1>1, <2>1
    <3> QED BY <2>1, <3>1
  <2>2. CASE step' = scheduler /\ pc' = "phase"
    <3>1. step = controllerManager
      BY <1>1, <2>2
    <3>2. applied[apiServer] = mem.generation
      BY <3>1 DEF VersionInv
    <3> QED BY <1>2, <2>2, <3>1, <3>2
  <2> QED BY <2>1, <2>2
<1>4. NoVersionAhead'
  <2>1. CASE step \in {controllerManager, scheduler}
    <3>1. applied[apiServer] = mem.generation
      BY <2>1 DEF VersionInv
    <3> QED BY <1>2, <3>1 DEF NoVersionAhead
  <2>2. CASE step \notin {controllerManager, scheduler}
    BY <1>2, <2>2 DEF VersionInv, NoVersionAhead
  <2> QED BY <2>1, <2>2
<1>5. \A n \in apiServer .. scheduler :
        /\ hcp'.version <= applied'[n] /\ cache'.version <= applied'[n]
        /\ base'.version <= applied'[n] /\ mem'.version <= applied'[n]
  <2> SUFFICES ASSUME NEW n \in apiServer .. scheduler
               PROVE  /\ hcp'.version <= applied'[n] /\ cache'.version <= applied'[n]
                      /\ base'.version <= applied'[n] /\ mem'.version <= applied'[n]
    OBVIOUS
  <2>1. n \in Step /\ applied[n] \in Nat /\ applied'[n] \in Nat /\ applied[n] <= applied'[n]
    BY <1>2
  <2>2. /\ hcp.version <= applied'[n] /\ cache.version <= applied'[n]
        /\ base.version <= applied'[n] /\ mem.version <= applied'[n]
    BY <2>1 DEF VersionInv
  <2>3. CASE mem'.version = mem.version
    BY <2>2, <2>3
  <2>4. CASE step = scheduler /\ mem'.version = mem.generation
             /\ applied'[scheduler] = mem.generation
    <3>1. applied'[n] = mem.generation
      BY <1>2, <2>4 DEF VersionInv
    <3> QED BY <2>2, <2>4, <3>1
  <2> QED BY <2>3, <2>4
<1>6. \A n \in Step : applied'[n] <= mem'.generation
  BY <1>2
<1>7. mem'.version = base'.version \/ mem'.version = mem'.generation
  BY DEF VersionInv
<1> QED BY <1>3, <1>4, <1>5, <1>6, <1>7 DEF VersionInv

\* What a step of the phases leaves in the copy.
LEMMA ClosedStep ==
  ASSUME NEW n \in Step, NEW o \in Object, pc = "phase"
  PROVE  /\ Succeed(n, o) =>
              /\ mem'.generation = o.generation /\ mem'.version = o.version
              /\ mem'.deleting = o.deleting /\ mem'.finalizer = o.finalizer
              /\ \/ pc' = "patchConditions"
                 \/ pc' = "phase" /\ step' = n + 1
         /\ mem \in Object /\ NotReady(n) =>
              /\ mem'.generation = mem.generation /\ mem'.version = mem.version
              /\ mem'.deleting = mem.deleting /\ mem'.finalizer = mem.finalizer
              /\ pc' = "patchConditions"
<1>1. ASSUME Succeed(n, o)
      PROVE  /\ mem'.generation = o.generation /\ mem'.version = o.version
             /\ mem'.deleting = o.deleting /\ mem'.finalizer = o.finalizer
             /\ \/ pc' = "patchConditions"
                \/ pc' = "phase" /\ step' = n + 1
  <2>1. CASE n = workloadResources
    <3>1. LeavePhases(o)
      BY <1>1, <2>1 DEF Succeed
    <3> QED BY <3>1, LeaveType
  <2>2. CASE n # workloadResources
    BY <1>1, <2>2 DEF Succeed
  <2> QED BY <2>1, <2>2
<1>2. ASSUME mem \in Object, NotReady(n)
      PROVE  /\ mem'.generation = mem.generation /\ mem'.version = mem.version
             /\ mem'.deleting = mem.deleting /\ mem'.finalizer = mem.finalizer
             /\ pc' = "patchConditions"
  <2>1. LeavePhases(SetCondition(mem, n, "False"))
    BY <1>2 DEF NotReady
  <2>2. /\ SetCondition(mem, n, "False") \in Object
        /\ SetCondition(mem, n, "False").generation = mem.generation
        /\ SetCondition(mem, n, "False").version = mem.version
        /\ SetCondition(mem, n, "False").deleting = mem.deleting
        /\ SetCondition(mem, n, "False").finalizer = mem.finalizer
    BY <1>2, ObjectFacts DEF Status
  <2> QED BY <2>1, <2>2, LeaveType
<1> QED BY <1>1, <1>2

\* VersionInv is preserved by every step.
LEMMA VersionStep == TypeOK /\ TypeOK' /\ VersionInv /\ [Next]_vars => VersionInv'
<1> SUFFICES ASSUME TypeOK, TypeOK', VersionInv, [Next]_vars PROVE VersionInv'
  OBVIOUS
<1>h. hcp \in Object /\ mem \in Object /\ hcp.generation \in Nat
  BY Numbers DEF TypeOK
<1>1. CASE BeginReconcile
  <2>1. \A n \in Step : applied[n] <= cache.generation
    BY <1>1 DEF BeginReconcile, VersionInv
  <2>2. /\ pc' = "get" /\ step' = firstPhase /\ mem' = cache /\ base' = cache
        /\ UNCHANGED <<hcp, cache, applied>>
    BY <1>1 DEF BeginReconcile, VersionInv, Goto, worldVars
  <2>3. cache.generation <= cache.generation
    BY Numbers
  <2> QED BY <2>1, <2>2, <2>3, StepFacts DEF VersionInv, NoVersionAhead
<1>2. CASE GetOwnerCluster
  <2>1. /\ UNCHANGED <<hcp, cache, applied>>
        /\ \/ pc' = "idle" /\ step' = firstPhase /\ base' = NewObject /\ mem' = NewObject
           \/ pc' = "pause" /\ UNCHANGED <<step, base, mem>>
        /\ pc = "get"
    BY <1>2 DEF GetOwnerCluster, Return, Goto, worldVars
  <2> QED BY <1>h, <2>1, VersionKept
<1>3. CASE EnsurePausedCondition
  <2>1. /\ UNCHANGED <<cache, applied>> /\ pc = "pause"
        /\ \/ pc' = "idle" /\ step' = firstPhase /\ base' = NewObject /\ mem' = NewObject
           \/ pc' \in {"prepare", "finalizer"} /\ UNCHANGED <<step, base, mem>>
    BY <1>3 DEF EnsurePausedCondition, Return, Goto, worldVars
  <2>2. hcp'.generation = hcp.generation /\ hcp'.version = hcp.version
    BY <1>3, <1>h DEF EnsurePausedCondition, Object
  <2> QED BY <1>h, <2>1, <2>2, VersionKept
<1>4. CASE EnsureFinalizer
  <2>1. /\ UNCHANGED <<cache, applied>> /\ pc = "finalizer"
        /\ \/ pc' = "idle" /\ step' = firstPhase /\ base' = NewObject /\ mem' = NewObject
           \/ pc' = "prepare" /\ UNCHANGED <<step, base, mem>>
    BY <1>4 DEF EnsureFinalizer, Return, Goto, worldVars
  <2>2. hcp' = hcp \/ hcp' = [hcp EXCEPT !.finalizer = TRUE]
    BY <1>4, Zenon DEF EnsureFinalizer
  <2>3. hcp'.generation = hcp.generation /\ hcp'.version = hcp.version
    BY <2>2, <1>h DEF Object
  <2> QED BY <1>h, <2>1, <2>3, VersionKept
<1>5. CASE reconcileDelete
  <2>1. /\ UNCHANGED <<hcp, cache, applied, step, base>> /\ pc = "prepare"
        /\ pc' = "patchConditions"
    BY <1>5 DEF reconcileDelete, Goto, worldVars, objVars
  <2>2. mem'.generation = mem.generation /\ mem'.version = mem.version
    BY <1>5, <1>h DEF reconcileDelete, Object
  <2> QED BY <1>h, <2>1, <2>2, VersionKept
<1>6. CASE PreparePhases
  <2>1. /\ UNCHANGED <<hcp, cache, applied, step, base>> /\ pc = "prepare"
    BY <1>6 DEF PreparePhases, worldVars, objVars
  <2>2. SetCondition(mem, workloadResources, "False") \in Object
    BY <1>h, StepFacts, ObjectFacts DEF Status
  <2>3. /\ mem'.generation = mem.generation /\ mem'.version = mem.version
        /\ pc' \in {"patchConditions", "phase"}
    <3>1. CASE Goto("phase") /\ mem' = mem
      BY <3>1 DEF Goto
    <3>2. CASE LeavePhases(SetCondition(mem, workloadResources, "False"))
      BY <1>h, <2>2, <3>2, LeaveType, StepFacts, ObjectFacts DEF Status
    <3>3. CASE LeavePhases(mem)
      BY <1>h, <3>3, LeaveType
    <3> QED BY <1>6, <3>1, <3>2, <3>3 DEF PreparePhases
  <2> QED BY <1>h, <2>1, <2>3, VersionKept
<1>7. ASSUME NEW n \in Step, ReconcilePhase(n) PROVE VersionInv'
  <2>1. /\ pc = "phase" /\ step = n /\ UNCHANGED <<hcp, cache, base>>
        /\ applied' = [applied EXCEPT ![n] = mem.generation]
    BY <1>7 DEF ReconcilePhase, Apply, objVars
  <2>2. /\ SetCondition(mem, n, "True") \in Object /\ SetCondition(mem, n, "False") \in Object
        /\ SetCondition(mem, n, "True").generation = mem.generation
        /\ SetCondition(mem, n, "True").version = mem.version
        /\ SetCondition(mem, n, "False").generation = mem.generation
        /\ SetCondition(mem, n, "False").version = mem.version
    BY <1>h, ObjectFacts DEF Status
  <2>3. applied'[n] = mem.generation
    BY <2>1 DEF TypeOK
  <2>4. /\ mem'.generation = mem.generation /\ mem'.version = mem.version
        /\ \/ pc' = "patchConditions"
           \/ pc' = "phase" /\ step' = n + 1
    <3>1. CASE NotReady(n)
      BY <1>h, <2>1, <3>1, ClosedStep
    <3>2. ASSUME NEW o \in Object, o.generation = mem.generation, o.version = mem.version,
                 Succeed(n, o)
          PROVE  /\ mem'.generation = mem.generation /\ mem'.version = mem.version
                 /\ \/ pc' = "patchConditions"
                    \/ pc' = "phase" /\ step' = n + 1
      BY <2>1, <3>2, ClosedStep
    <3> DEFINE o == [SetCondition(mem, n, "True") EXCEPT !.statusReady = TRUE]
    <3>3. o \in Object /\ o.generation = mem.generation /\ o.version = mem.version
      BY <2>2 DEF Object
    <3>4. NotReady(n) \/ Succeed(n, o) \/ Succeed(n, SetCondition(mem, n, "True"))
      BY <1>7 DEF ReconcilePhase
    <3> HIDE DEF o
    <3> QED BY <2>2, <3>1, <3>2, <3>3, <3>4
  <2> QED BY <2>1, <2>3, <2>4, VersionApply
<1>8. CASE reconcileAPIServerDeployment
  <2>1. /\ pc = "phase" /\ step = apiServer /\ UNCHANGED <<hcp, cache, base>>
        /\ applied' = [applied EXCEPT ![apiServer] = mem.generation]
    BY <1>8 DEF reconcileAPIServerDeployment, Apply, objVars
  <2>2. /\ SetCondition(mem, apiServer, "False") \in Object
        /\ SetCondition(mem, apiServer, "False").generation = mem.generation
        /\ SetCondition(mem, apiServer, "False").version = mem.version
    BY <1>h, ObjectFacts, StepFacts DEF Status
  <2>3. applied'[apiServer] = mem.generation
    BY <2>1, StepFacts DEF TypeOK
  <2>4. /\ mem'.generation = mem.generation /\ mem'.version = mem.version
        /\ \/ pc' = "patchConditions"
           \/ pc' = "phase" /\ step' = apiServer + 1
    <3>1. CASE NotReady(apiServer)
      BY <1>h, <2>1, <3>1, ClosedStep, StepFacts
    <3>2. CASE Succeed(apiServer, mem)
      BY <1>h, <2>1, <3>2, ClosedStep, StepFacts
    <3> QED BY <1>8, <3>1, <3>2 DEF reconcileAPIServerDeployment
  <2> QED BY <2>1, <2>3, <2>4, VersionApply
<1>9. CASE reconcileControllerManagerDeployment
  <2>1. /\ pc = "phase" /\ step = controllerManager /\ UNCHANGED <<hcp, cache, base, mem>>
        /\ applied' = [applied EXCEPT ![controllerManager] = mem.generation]
        /\ pc' = "phase" /\ step' = scheduler
    BY <1>9 DEF reconcileControllerManagerDeployment, Apply, Goto, objVars
  <2>2. applied'[controllerManager] = mem.generation
    BY <2>1, StepFacts DEF TypeOK
  <2>3. step' = step + 1
    BY <2>1, StepFacts
  <2> QED BY <2>1, <2>2, <2>3, VersionApply
<1>10. CASE reconcileSchedulerDeployment
  <2> DEFINE o == DeploymentsReady(mem)
  <2>1. /\ pc = "phase" /\ step = scheduler /\ UNCHANGED <<hcp, cache, base>>
        /\ applied' = [applied EXCEPT ![scheduler] = mem.generation]
    BY <1>10 DEF reconcileSchedulerDeployment, Apply, objVars
  <2>2. /\ SetCondition(mem, scheduler, "False") \in Object
        /\ SetCondition(mem, scheduler, "True") \in Object
        /\ SetCondition(mem, scheduler, "False").generation = mem.generation
        /\ SetCondition(mem, scheduler, "False").version = mem.version
        /\ SetCondition(mem, scheduler, "True").generation = mem.generation
        /\ mem.generation \in Generation
    BY <1>h, ObjectFacts, StepFacts DEF Status, Object
  <2>3. applied'[scheduler] = mem.generation
    BY <2>1, StepFacts DEF TypeOK
  <2>4. /\ mem'.generation = mem.generation
        /\ mem'.version = mem.version \/ mem'.version = mem.generation
        /\ \/ pc' = "patchConditions"
           \/ pc' = "phase" /\ step' = scheduler + 1
    <3>1. CASE NotReady(scheduler)
      BY <1>h, <2>1, <3>1, ClosedStep, StepFacts
    <3>2. o \in Object /\ o.generation = mem.generation /\ o.version = mem.generation
      BY <2>2 DEF Object, DeploymentsReady
    <3>3. NotReady(scheduler) \/ Succeed(scheduler, o)
      BY <1>10 DEF reconcileSchedulerDeployment
    <3> HIDE DEF o
    <3>4. CASE Succeed(scheduler, o)
      BY <2>1, <3>2, <3>4, ClosedStep, StepFacts
    <3> QED BY <3>1, <3>3, <3>4
  <2> QED BY <2>1, <2>3, <2>4, VersionApply
<1>11. CASE StepFails
  <2>1. /\ pc = "phase" /\ UNCHANGED <<hcp, cache, base>> /\ step \in Step
        /\ applied' \in {applied, [applied EXCEPT ![step] = mem.generation]}
        /\ LeavePhases(SetCondition(mem, step, "False"))
    BY <1>11 DEF StepFails, objVars, TypeOK
  <2>2. /\ SetCondition(mem, step, "False") \in Object
        /\ SetCondition(mem, step, "False").generation = mem.generation
        /\ SetCondition(mem, step, "False").version = mem.version
    BY <1>h, <2>1, ObjectFacts DEF Status
  <2>3. /\ mem'.generation = mem.generation /\ mem'.version = mem.version
        /\ pc' = "patchConditions"
    BY <2>1, <2>2, LeaveType
  <2> QED BY <2>1, <2>3, VersionApply
<1>12. CASE patch
  <2>1. /\ UNCHANGED <<cache, applied, step, base>> /\ pc = "patchConditions"
        /\ pc' = "patchObject"
    BY <1>12 DEF patch, Goto, worldVars
  <2>2. mem'.generation = mem.generation /\ mem'.version = mem.version
    BY <1>12, <1>h DEF patch, Object
  <2>3. hcp'.generation = hcp.generation /\ hcp'.version = hcp.version
    BY <1>12, <1>h DEF patch, Object
  <2> QED BY <1>h, <2>1, <2>2, <2>3, VersionKept
<1>13. CASE PatchObject
  <2>1. /\ UNCHANGED <<cache, applied, step, base, mem>> /\ pc = "patchObject"
        /\ pc' = "patchStatus"
    BY <1>13 DEF PatchObject, Goto, worldVars
  <2>2. hcp' = hcp \/ hcp' = [hcp EXCEPT !.finalizer = FALSE, !.exists = ~hcp.deleting]
    BY <1>13, Zenon DEF PatchObject
  <2>3. hcp'.generation = hcp.generation /\ hcp'.version = hcp.version
    BY <1>h, <2>2 DEF Object
  <2> QED BY <1>h, <2>1, <2>3, VersionKept
<1>14. CASE PatchStatus
  <2>1. /\ UNCHANGED <<cache, applied>> /\ pc = "patchStatus" /\ pc' = "idle"
        /\ step' = firstPhase /\ base' = NewObject /\ mem' = NewObject
    BY <1>14 DEF PatchStatus, Return, Goto, worldVars
  <2>2. /\ hcp'.generation = hcp.generation
        /\ hcp'.version = hcp.version \/ hcp'.version = mem.version
    BY <1>14, <1>h DEF PatchStatus, Object
  <2> QED BY <1>h, <2>1, <2>2, VersionKept
<1>15. CASE LoseReconcile
  <2>1. /\ UNCHANGED <<hcp, cache, applied>> /\ pc # "idle" /\ pc' = "idle"
        /\ step' = firstPhase /\ base' = NewObject /\ mem' = NewObject
    BY <1>15 DEF LoseReconcile, Return, Goto, worldVars
  <2> QED BY <1>h, <2>1, VersionKept
<1>16. CASE SyncCache
  <2>1. cache' = hcp /\ UNCHANGED <<hcp, pc, step, base, mem, applied>>
    BY <1>16 DEF SyncCache, ctrlVars, worldVars
  <2>2. cache.generation <= hcp.generation
    BY DEF VersionInv
  <2>3. /\ pc # "idle" => mem.generation <= hcp.generation
        /\ \A n \in Step :
             applied[n] <= (IF pc = "idle" THEN hcp.generation ELSE mem.generation)
    BY <2>2, Numbers DEF VersionInv
  <2> QED BY <1>h, <2>1, <2>3, StepFacts DEF VersionInv, NoVersionAhead
<1>17. CASE SetOwnerReference \/ UpdateSpec \/ Delete
  <2>1. UNCHANGED <<cache, pc, step, base, mem, applied>>
    BY <1>17 DEF SetOwnerReference, UpdateSpec, Delete, ctrlVars, worldVars
  <2>2. hcp.generation <= hcp'.generation /\ hcp'.version = hcp.version
    <3>1. CASE SetOwnerReference \/ Delete
      <4>1. \/ hcp' = [hcp EXCEPT !.owned = TRUE]
            \/ hcp' = [hcp EXCEPT !.deleting = TRUE, !.exists = hcp.finalizer]
        BY <3>1, Zenon DEF SetOwnerReference, Delete
      <4>2. CASE hcp' = [hcp EXCEPT !.owned = TRUE]
        BY <1>h, <4>2 DEF Object
      <4>3. CASE hcp' = [hcp EXCEPT !.deleting = TRUE, !.exists = hcp.finalizer]
        BY <1>h, <4>3 DEF Object
      <4> QED BY <4>1, <4>2, <4>3
    <3>2. CASE UpdateSpec
      BY <1>h, <3>2 DEF UpdateSpec, Object
    <3> QED BY <1>17, <3>1, <3>2
  <2> QED BY <2>1, <2>2, VersionKept
<1>18. CASE PauseCluster
  <2>1. UNCHANGED <<hcp, cache, pc, step, base, mem, applied>>
    BY <1>18 DEF PauseCluster, ctrlVars, worldVars
  <2> QED BY <1>h, <2>1, VersionKept
<1>19. ASSUME NEW n \in Step, BecomeReady(n) \/ Degrade(n) PROVE VersionInv'
  <2>1. UNCHANGED <<hcp, cache, pc, step, base, mem, applied>>
    BY <1>19 DEF BecomeReady, Degrade, ctrlVars, objVars
  <2> QED BY <1>h, <2>1, VersionKept
<1>20. CASE UNCHANGED vars
  <2>1. UNCHANGED <<hcp, cache, pc, step, base, mem, applied>>
    BY <1>20 DEF vars, ctrlVars, worldVars, objVars
  <2> QED BY <1>h, <2>1, VersionKept
<1> QED
  BY <1>1, <1>2, <1>3, <1>4, <1>5, <1>6, <1>7, <1>8, <1>9, <1>10, <1>11, <1>12, <1>13,
     <1>14, <1>15, <1>16, <1>17, <1>18, <1>19, <1>20, LoadBalancerFails DEF Next, Controller

\* VersionInv holds in every reachable state.
LEMMA VersionHolds == Spec => []VersionInv
<1>1. Init => VersionInv
  <2> SUFFICES ASSUME Init PROVE VersionInv
    OBVIOUS
  <2>1. /\ NewObject.generation = 1 /\ NewObject.version = 0
    BY DEF NewObject
  <2>2. \A n \in Step : applied[n] = 0
    BY DEF Init
  <2> QED BY <2>1, <2>2, StepFacts DEF Init, VersionInv, NoVersionAhead
<1>2. TypeOK /\ TypeOK' /\ VersionInv /\ [Next]_vars => VersionInv'
  BY VersionStep
<1> QED BY <1>1, <1>2, TypeCorrect, PTL DEF Spec

\* However specifications are edited and reconciles fail, start from an old
\* copy or are cut short, ReconcileApiServerDeployments never gives the
\* controller manager or the scheduler a newer version than the API server.
THEOREM UpgradeOrder == Spec => []NoVersionAhead
<1>1. VersionInv => NoVersionAhead
  BY DEF VersionInv
<1> QED BY <1>1, VersionHolds, PTL

\* The version in the status was applied to all three deployments.
THEOREM ReportedVersion == Spec => []ReportedVersionApplied
<1>1. VersionInv => ReportedVersionApplied
  BY DEF VersionInv, ReportedVersionApplied
<1> QED BY <1>1, VersionHolds, PTL

-----------------------------------------------------------------------------
(* The finalizer.                                                          *)

\* A step that neither deletes the stored object nor touches its finalizer,
\* and does not enter the phases unseen, keeps FinalizerInv.
LEMMA FinalizerKept ==
  ASSUME FinalizerInv,
         hcp'.exists = hcp.exists, hcp'.deleting = hcp.deleting,
         hcp'.finalizer = hcp.finalizer, cache' = cache,
         \/ UNCHANGED <<pc, base, mem>>
         \/ pc' = "idle" /\ base' = NewObject /\ mem' = NewObject
         \/ /\ base' = base
            /\ mem'.deleting = mem.deleting /\ mem'.finalizer = mem.finalizer
            /\ pc' = "prepare" => mem.deleting \/ base.finalizer
            /\ pc' = "phase" => pc = "phase" \/ (pc = "prepare" /\ ~mem.deleting)
  PROVE  FinalizerInv'
<1>1. ~NewObject.deleting /\ ~NewObject.finalizer
  BY DEF NewObject
<1>2. CASE UNCHANGED <<pc, base, mem>>
  BY <1>2 DEF FinalizerInv
<1>3. CASE pc' = "idle" /\ base' = NewObject /\ mem' = NewObject
  BY <1>1, <1>3 DEF FinalizerInv
<1>4. CASE /\ base' = base
           /\ mem'.deleting = mem.deleting /\ mem'.finalizer = mem.finalizer
           /\ pc' = "prepare" => mem.deleting \/ base.finalizer
           /\ pc' = "phase" => pc = "phase" \/ (pc = "prepare" /\ ~mem.deleting)
  BY <1>4 DEF FinalizerInv
<1> QED BY <1>2, <1>3, <1>4

\* FinalizerInv is preserved by every step.
LEMMA FinalizerStep == TypeOK /\ FinalizerInv /\ [Next]_vars => FinalizerInv'
<1> SUFFICES ASSUME TypeOK, FinalizerInv, [Next]_vars PROVE FinalizerInv'
  OBVIOUS
<1>h. hcp \in Object /\ mem \in Object
  BY DEF TypeOK
<1>1. CASE BeginReconcile
  <2>1. /\ pc' = "get" /\ mem' = cache /\ base' = cache /\ UNCHANGED <<hcp, cache>>
    BY <1>1 DEF BeginReconcile, Goto
  <2> QED BY <2>1 DEF FinalizerInv
<1>2. CASE GetOwnerCluster
  <2>1. /\ UNCHANGED <<hcp, cache>>
        /\ \/ pc' = "idle" /\ base' = NewObject /\ mem' = NewObject
           \/ pc' = "pause" /\ UNCHANGED <<base, mem>>
    BY <1>2 DEF GetOwnerCluster, Return, Goto
  <2> QED BY <2>1, FinalizerKept
<1>3. CASE EnsurePausedCondition
  <2>1. /\ cache' = cache
        /\ \/ pc' = "idle" /\ base' = NewObject /\ mem' = NewObject
           \/ /\ pc' = (IF mem.deleting THEN "prepare" ELSE "finalizer")
              /\ UNCHANGED <<base, mem>>
    BY <1>3 DEF EnsurePausedCondition, Return, Goto
  <2>2. /\ hcp'.exists = hcp.exists /\ hcp'.deleting = hcp.deleting
        /\ hcp'.finalizer = hcp.finalizer
    BY <1>3, <1>h DEF EnsurePausedCondition, Object
  <2> QED BY <2>1, <2>2, FinalizerKept
<1>4. CASE EnsureFinalizer
  <2>1. CASE mem.finalizer
    <3>1. pc' = "prepare" /\ UNCHANGED <<hcp, cache, base, mem>>
      BY <1>4, <2>1 DEF EnsureFinalizer, Goto
    <3>2. base.finalizer
      BY <2>1 DEF FinalizerInv
    <3> QED BY <3>1, <3>2, FinalizerKept
  <2>2. CASE ~mem.finalizer
    <3>1. pc' = "idle" /\ base' = NewObject /\ mem' = NewObject /\ cache' = cache
      BY <1>4, <2>2 DEF EnsureFinalizer, Return, Goto
    <3>2. hcp' = hcp \/ hcp' = [hcp EXCEPT !.finalizer = TRUE]
      BY <1>4, Zenon DEF EnsureFinalizer
    <3>3. CASE hcp' = hcp
      BY <3>1, <3>3, FinalizerKept
    <3>4. CASE hcp' = [hcp EXCEPT !.finalizer = TRUE]
      <4>1. hcp'.exists = hcp.exists /\ hcp'.deleting = hcp.deleting /\ hcp'.finalizer
        BY <1>h, <3>4 DEF Object
      <4>2. ~NewObject.deleting /\ ~NewObject.finalizer
        BY DEF NewObject
      <4> QED BY <3>1, <4>1, <4>2 DEF FinalizerInv
    <3> QED BY <3>2, <3>3, <3>4
  <2> QED BY <2>1, <2>2
<1>5. CASE reconcileDelete
  <2>1. /\ UNCHANGED <<hcp, cache, base>> /\ mem.deleting /\ pc' = "patchConditions"
    BY <1>5 DEF reconcileDelete, Goto, objVars
  <2>2. mem'.deleting = mem.deleting /\ ~mem'.finalizer
    BY <1>5, <1>h DEF reconcileDelete, Object
  <2> QED BY <2>1, <2>2 DEF FinalizerInv
<1>6. CASE PreparePhases
  <2>1. /\ UNCHANGED <<hcp, cache, base>> /\ pc = "prepare" /\ ~mem.deleting
    BY <1>6 DEF PreparePhases, objVars
  <2>2. SetCondition(mem, workloadResources, "False") \in Object
    BY <1>h, StepFacts, ObjectFacts DEF Status
  <2>3. /\ mem'.deleting = mem.deleting /\ mem'.finalizer = mem.finalizer
        /\ pc' \in {"patchConditions", "phase"}
    <3>1. CASE Goto("phase") /\ mem' = mem
      BY <3>1 DEF Goto
    <3>2. CASE LeavePhases(SetCondition(mem, workloadResources, "False"))
      BY <1>h, <2>2, <3>2, LeaveType, StepFacts, ObjectFacts DEF Status
    <3>3. CASE LeavePhases(mem)
      BY <1>h, <3>3, LeaveType
    <3> QED BY <1>6, <3>1, <3>2, <3>3 DEF PreparePhases
  <2> QED BY <2>1, <2>3, FinalizerKept
<1>7. ASSUME NEW n \in Step, ReconcilePhase(n) PROVE FinalizerInv'
  <2>1. pc = "phase" /\ UNCHANGED <<hcp, cache, base>>
    BY <1>7 DEF ReconcilePhase, objVars
  <2>2. /\ SetCondition(mem, n, "True") \in Object
        /\ SetCondition(mem, n, "True").deleting = mem.deleting
        /\ SetCondition(mem, n, "True").finalizer = mem.finalizer
    BY <1>h, ObjectFacts DEF Status
  <2> DEFINE o == [SetCondition(mem, n, "True") EXCEPT !.statusReady = TRUE]
  <2>3. o \in Object /\ o.deleting = mem.deleting /\ o.finalizer = mem.finalizer
    BY <2>2 DEF Object
  <2>4. NotReady(n) \/ Succeed(n, o) \/ Succeed(n, SetCondition(mem, n, "True"))
    BY <1>7 DEF ReconcilePhase
  <2> HIDE DEF o
  <2>5. mem'.deleting = mem.deleting /\ mem'.finalizer = mem.finalizer
    BY <1>h, <2>1, <2>2, <2>3, <2>4, ClosedStep
  <2>6. pc' \in {"patchConditions", "phase"}
    BY <1>h, <2>1, <2>2, <2>3, <2>4, ClosedStep
  <2> QED BY <2>1, <2>5, <2>6, FinalizerKept
<1>8. CASE reconcileAPIServerDeployment
  <2>1. pc = "phase" /\ UNCHANGED <<hcp, cache, base>>
    BY <1>8 DEF reconcileAPIServerDeployment, objVars
  <2>2. NotReady(apiServer) \/ Succeed(apiServer, mem)
    BY <1>8 DEF reconcileAPIServerDeployment
  <2>3. /\ mem'.deleting = mem.deleting /\ mem'.finalizer = mem.finalizer
        /\ pc' \in {"patchConditions", "phase"}
    BY <1>h, <2>1, <2>2, ClosedStep, StepFacts
  <2> QED BY <2>1, <2>3, FinalizerKept
<1>9. CASE reconcileControllerManagerDeployment
  <2>1. pc = "phase" /\ UNCHANGED <<hcp, cache, base, mem>> /\ pc' = "phase"
    BY <1>9 DEF reconcileControllerManagerDeployment, Goto, objVars
  <2> QED BY <2>1, FinalizerKept
<1>10. CASE reconcileSchedulerDeployment
  <2> DEFINE o == DeploymentsReady(mem)
  <2>1. pc = "phase" /\ UNCHANGED <<hcp, cache, base>>
    BY <1>10 DEF reconcileSchedulerDeployment, objVars
  <2>2. /\ SetCondition(mem, scheduler, "True") \in Object
        /\ SetCondition(mem, scheduler, "True").deleting = mem.deleting
        /\ SetCondition(mem, scheduler, "True").finalizer = mem.finalizer
        /\ mem.generation \in Generation
    BY <1>h, ObjectFacts, StepFacts DEF Status, Object
  <2>3. o \in Object /\ o.deleting = mem.deleting /\ o.finalizer = mem.finalizer
    BY <2>2 DEF Object, DeploymentsReady
  <2>4. NotReady(scheduler) \/ Succeed(scheduler, o)
    BY <1>10 DEF reconcileSchedulerDeployment
  <2> HIDE DEF o
  <2>5. /\ mem'.deleting = mem.deleting /\ mem'.finalizer = mem.finalizer
        /\ pc' \in {"patchConditions", "phase"}
    BY <1>h, <2>1, <2>3, <2>4, ClosedStep, StepFacts
  <2> QED BY <2>1, <2>5, FinalizerKept
<1>11. CASE StepFails
  <2>1. /\ pc = "phase" /\ UNCHANGED <<hcp, cache, base>> /\ step \in Step
        /\ LeavePhases(SetCondition(mem, step, "False"))
    BY <1>11 DEF StepFails, objVars, TypeOK
  <2>2. /\ SetCondition(mem, step, "False") \in Object
        /\ SetCondition(mem, step, "False").deleting = mem.deleting
        /\ SetCondition(mem, step, "False").finalizer = mem.finalizer
    BY <1>h, <2>1, ObjectFacts DEF Status
  <2>3. /\ mem'.deleting = mem.deleting /\ mem'.finalizer = mem.finalizer
        /\ pc' = "patchConditions"
    BY <2>1, <2>2, LeaveType
  <2> QED BY <2>1, <2>3, FinalizerKept
<1>12. CASE patch
  <2>1. cache' = cache /\ base' = base /\ pc' = "patchObject"
    BY <1>12 DEF patch, Goto
  <2>2. mem'.deleting = mem.deleting /\ mem'.finalizer = mem.finalizer
    BY <1>12, <1>h DEF patch, Object
  <2>3. /\ hcp'.exists = hcp.exists /\ hcp'.deleting = hcp.deleting
        /\ hcp'.finalizer = hcp.finalizer
    BY <1>12, <1>h DEF patch, Object
  <2> QED BY <2>1, <2>2, <2>3, FinalizerKept
<1>13. CASE PatchObject
  <2>1. UNCHANGED <<cache, base, mem>> /\ pc' = "patchStatus"
    BY <1>13 DEF PatchObject, Goto
  <2>2. CASE hcp.exists /\ base.finalizer /\ ~mem.finalizer
    <3>1. hcp' = [hcp EXCEPT !.finalizer = FALSE, !.exists = ~hcp.deleting]
      BY <1>13, <2>2 DEF PatchObject
    <3>2. ~hcp'.finalizer /\ hcp'.exists = ~hcp.deleting /\ hcp'.deleting = hcp.deleting
      BY <1>h, <3>1 DEF Object
    <3>3. base.deleting /\ cache.deleting /\ hcp.deleting
      BY <2>2 DEF FinalizerInv
    <3> QED BY <2>1, <3>2, <3>3 DEF FinalizerInv
  <2>3. CASE ~(hcp.exists /\ base.finalizer /\ ~mem.finalizer)
    <3>1. hcp' = hcp
      BY <1>13, <2>3, Zenon DEF PatchObject
    <3> QED BY <2>1, <3>1, FinalizerKept
  <2> QED BY <2>2, <2>3
<1>14. CASE PatchStatus
  <2>1. cache' = cache /\ pc' = "idle" /\ base' = NewObject /\ mem' = NewObject
    BY <1>14 DEF PatchStatus, Return, Goto
  <2>2. /\ hcp'.exists = hcp.exists /\ hcp'.deleting = hcp.deleting
        /\ hcp'.finalizer = hcp.finalizer
    BY <1>14, <1>h DEF PatchStatus, Object
  <2> QED BY <2>1, <2>2, FinalizerKept
<1>15. CASE LoseReconcile
  <2>1. UNCHANGED <<hcp, cache>> /\ pc' = "idle" /\ base' = NewObject /\ mem' = NewObject
    BY <1>15 DEF LoseReconcile, Return, Goto
  <2> QED BY <2>1, FinalizerKept
<1>16. CASE SyncCache
  <2>1. cache' = hcp /\ UNCHANGED <<hcp, pc, base, mem>>
    BY <1>16 DEF SyncCache, ctrlVars
  <2> QED BY <2>1 DEF FinalizerInv
<1>17. CASE SetOwnerReference \/ UpdateSpec
  <2>1. UNCHANGED <<cache, pc, base, mem>>
    BY <1>17 DEF SetOwnerReference, UpdateSpec, ctrlVars
  <2>2. /\ hcp'.exists = hcp.exists /\ hcp'.deleting = hcp.deleting
        /\ hcp'.finalizer = hcp.finalizer
    <3>1. CASE SetOwnerReference
      BY <1>h, <3>1 DEF SetOwnerReference, Object
    <3>2. CASE UpdateSpec
      BY <1>h, <3>2 DEF UpdateSpec, Object
    <3> QED BY <1>17, <3>1, <3>2
  <2> QED BY <2>1, <2>2, FinalizerKept
<1>18. CASE Delete
  <2>1. UNCHANGED <<cache, pc, base, mem>>
    BY <1>18 DEF Delete, ctrlVars
  <2>2. hcp' = [hcp EXCEPT !.deleting = TRUE, !.exists = hcp.finalizer]
    BY <1>18, Zenon DEF Delete
  <2>3. hcp'.deleting /\ hcp'.exists = hcp.finalizer /\ hcp'.finalizer = hcp.finalizer
    BY <1>h, <2>2 DEF Object
  <2> QED BY <2>1, <2>3 DEF FinalizerInv
<1>19. CASE PauseCluster
  <2>1. UNCHANGED <<hcp, cache, pc, base, mem>>
    BY <1>19 DEF PauseCluster, ctrlVars
  <2> QED BY <2>1, FinalizerKept
<1>20. ASSUME NEW n \in Step, BecomeReady(n) \/ Degrade(n) PROVE FinalizerInv'
  <2>1. UNCHANGED <<hcp, cache, pc, base, mem>>
    BY <1>20 DEF BecomeReady, Degrade, ctrlVars, objVars
  <2> QED BY <2>1, FinalizerKept
<1>21. CASE UNCHANGED vars
  <2>1. UNCHANGED <<hcp, cache, pc, base, mem>>
    BY <1>21 DEF vars, ctrlVars, objVars
  <2> QED BY <2>1, FinalizerKept
<1> QED
  BY <1>1, <1>2, <1>3, <1>4, <1>5, <1>6, <1>7, <1>8, <1>9, <1>10, <1>11, <1>12, <1>13,
     <1>14, <1>15, <1>16, <1>17, <1>18, <1>19, <1>20, <1>21, LoadBalancerFails DEF Next, Controller

\* Objects are applied by the steps of the phases alone.
LEMMA AppliesInPhase == [Next]_vars => (applied' # applied => pc = "phase")
<1> SUFFICES ASSUME [Next]_vars, pc # "phase" PROVE applied' = applied
  OBVIOUS
<1>1. CASE Controller
  <2>1. CASE BeginReconcile \/ GetOwnerCluster \/ EnsurePausedCondition \/ EnsureFinalizer
    BY <2>1 DEF BeginReconcile, GetOwnerCluster, EnsurePausedCondition, EnsureFinalizer,
                worldVars
  <2>2. CASE reconcileDelete \/ PreparePhases
    BY <2>2 DEF reconcileDelete, PreparePhases, worldVars
  <2>3. CASE patch \/ PatchObject \/ PatchStatus
    BY <2>3 DEF patch, PatchObject, PatchStatus, worldVars
  <2> QED
    BY <1>1, <2>1, <2>2, <2>3
    DEF Controller, ReconcilePhase, reconcileAPIServerDeployment,
        reconcileControllerManagerDeployment, reconcileSchedulerDeployment
<1>2. CASE LoseReconcile \/ SyncCache \/ SetOwnerReference \/ UpdateSpec
           \/ PauseCluster \/ Delete
  BY <1>2 DEF LoseReconcile, SyncCache, SetOwnerReference, UpdateSpec, PauseCluster, Delete,
              worldVars
<1>3. ASSUME NEW n \in Step, BecomeReady(n) \/ Degrade(n) PROVE applied' = applied
  BY <1>3 DEF BecomeReady, Degrade
<1>4. CASE UNCHANGED vars
  BY <1>4 DEF vars, worldVars
<1>5. ~StepFails
  BY DEF StepFails
<1> QED BY <1>1, <1>2, <1>3, <1>4, <1>5, LoadBalancerFails DEF Next

\* Whatever a reconcile in flight has read, as long as it applies objects the
\* HostedControlPlane it applies them for is there: only the reconcile that
\* saw the deletion removes the finalizer.
THEOREM NothingForDeleted == Spec => NoObjectsForDeleted
<1>1. Init => FinalizerInv
  BY DEF Init, FinalizerInv, NewObject
<1>2. TypeOK /\ FinalizerInv /\ [Next]_vars => FinalizerInv'
  BY FinalizerStep
<1>3. FinalizerInv /\ [Next]_vars => [applied' # applied => hcp.exists]_vars
  BY AppliesInPhase DEF FinalizerInv
<1> QED BY <1>1, <1>2, <1>3, TypeCorrect, PTL DEF Spec, NoObjectsForDeleted

-----------------------------------------------------------------------------
(* The Ready summary.                                                      *)

\* Every step but the last has an applicable condition; the conditions of the
\* steps before a step are smaller.
LEMMA ApplicableFacts ==
  /\ Applicable \subseteq Step /\ Applicable \subseteq Conditions
  /\ scheduler \in Applicable
  /\ \A c \in Applicable : c < workloadResources /\ c # apiServer /\ c # controllerManager
  /\ \A n \in Step : n # workloadResources => condition(n) \in Applicable
  /\ \A n \in Step : n \notin {apiServer, controllerManager} => condition(n) = n
  /\ workloadResources \notin Applicable
  /\ \A n \in Step : ~(n < firstPhase) /\ n <= workloadResources
<1>1. /\ \A n \in {apiServer, controllerManager, scheduler} : condition(n) = scheduler
      /\ \A n \in Step : n \notin {apiServer, controllerManager, scheduler} => condition(n) = n
  BY StepFacts DEF condition
<1>2. /\ scheduler # workloadResources /\ apiServer # workloadResources
      /\ controllerManager # workloadResources
      /\ scheduler # apiServer /\ scheduler # controllerManager
  BY ConstantsAssumption DEF scheduler, workloadResources, apiServer, controllerManager
<1>3. \A n \in Step : ~(n < firstPhase) /\ n <= workloadResources /\ n \in Nat
  BY ConstantsAssumption DEF Step, firstPhase, workloadResources
<1>4. ASSUME NEW c \in Conditions
      PROVE  c \in Step /\ c # apiServer /\ c # controllerManager
  <2>1. PICK n \in Step : c = condition(n)
    BY Zenon DEF Conditions
  <2>2. CASE n \in {apiServer, controllerManager, scheduler}
    <3>1. c = scheduler
      BY <1>1, <2>1, <2>2, Zenon
    <3>2. scheduler \in Step
      BY StepFacts, Zenon
    <3> QED BY <1>2, <3>1, <3>2, Zenon
  <2>3. CASE n \notin {apiServer, controllerManager, scheduler}
    <3>1. c = n
      BY <1>1, <2>1, <2>3, Zenon
    <3> QED BY <2>3, <3>1, Zenon
  <2> QED BY <2>2, <2>3, Zenon
<1>5. ASSUME NEW n \in Step, n # workloadResources PROVE condition(n) \in Applicable
  <2>1. condition(n) \in Conditions
    BY StepFacts, Zenon
  <2>2. condition(n) # workloadResources
    BY <1>1, <1>2, <1>5, Zenon
  <2> QED BY <2>1, <2>2, Zenon DEF Applicable
<1>6. \A n \in Step : n \notin {apiServer, controllerManager} => condition(n) = n
  BY <1>1, Zenon
<1>7. workloadResources \in Nat
  BY StepFacts, Zenon
<1>8. \A c \in Applicable : c < workloadResources
  BY <1>3, <1>4, <1>7 DEF Applicable
<1>9. scheduler \in Applicable
  <2>1. scheduler \in Step /\ condition(scheduler) = scheduler
    BY <1>1, StepFacts, Zenon
  <2> QED BY <1>2, <1>5, <2>1, Zenon
<1>10. /\ Applicable \subseteq Conditions /\ workloadResources \notin Applicable
  BY DEF Applicable
<1> QED BY <1>3, <1>4, <1>5, <1>6, <1>8, <1>9, <1>10, Zenon

\* A set condition changes no other condition and not the summary.
LEMMA ConditionSet ==
  ASSUME NEW o \in Object, NEW n \in Step, NEW s \in Status
  PROVE  /\ SetCondition(o, n, s).ready = o.ready
         /\ \A c \in Conditions : SetCondition(o, n, s).conds[c] =
               IF c = condition(n) THEN s ELSE o.conds[c]
  BY DEF SetCondition, Object

\* What leaving the phases and succeeding leave in the copy.
LEMMA LeaveFields ==
  ASSUME NEW o \in Object
  PROVE  /\ LeavePhases(o) => /\ pc' = "patchConditions"
                             /\ mem'.conds = o.conds /\ mem'.ready = o.ready
         /\ \A n \in Step : Succeed(n, o) =>
              /\ mem'.conds = o.conds /\ mem'.ready = o.ready /\ done' = done \cup {n}
              /\ IF n = workloadResources THEN pc' = "patchConditions"
                                          ELSE pc' = pc /\ step' = n + 1
<1>1. LeavePhases(o) => pc' = "patchConditions" /\ mem'.conds = o.conds /\ mem'.ready = o.ready
  BY DEF LeavePhases, Goto, Object
<1> QED BY <1>1 DEF Succeed

\* The invariant in the next state.
LEMMA SummaryNext ==
  ASSUME ~misread' =>
           /\ Coherent(hcp')
           /\ IsReady(hcp') <=> AllTrue(hcp')
           /\ pc' \notin {"idle", "patchObject", "patchStatus"} =>
                /\ base'.conds = hcp'.conds /\ base'.ready = hcp'.ready
                /\ mem'.ready = hcp'.ready
                /\ \A c \in Applicable : mem'.conds[c] = "Absent" => hcp'.conds[c] = "Absent"
           /\ pc' \in {"get", "pause", "finalizer", "prepare"} => mem'.conds = hcp'.conds
           /\ pc' = "phase" =>
                /\ \A c \in Applicable : c < step' => mem'.conds[c] = "True"
                /\ \A n \in Step : n < step' =>
                     n \in done' \/ (n = controllerManager /\ step' = scheduler /\ waiting')
           /\ pc' = "patchConditions" =>
                /\ Coherent(mem')
                /\ AllTrue(mem') => AllTrue(hcp') \/ Step \ {workloadResources} \subseteq done'
  PROVE  SummaryInv'
  BY DEF SummaryInv, Coherent, AllTrue, IsReady

\* AllTrue, Coherent and IsReady look at nothing but conditions and summary.
LEMMA SameConditions ==
  ASSUME NEW o, NEW p, \A c \in Applicable : o.conds[c] = p.conds[c]
  PROVE  AllTrue(o) = AllTrue(p) /\ Coherent(o) = Coherent(p)
<1>1. AllTrue(o) <=> AllTrue(p)
  BY DEF AllTrue
<1>2. Coherent(o) <=> Coherent(p)
  BY <1>1 DEF Coherent
<1>3. AllTrue(o) \in BOOLEAN /\ AllTrue(p) \in BOOLEAN
  BY DEF AllTrue
<1>4. Coherent(o) \in BOOLEAN /\ Coherent(p) \in BOOLEAN
  BY DEF Coherent
<1> QED BY <1>1, <1>2, <1>3, <1>4

\* A step that leaves the stored conditions alone, and is none of the phases.
LEMMA SummaryKept ==
  ASSUME SummaryInv, misread' = misread,
         hcp'.conds = hcp.conds, hcp'.ready = hcp.ready,
         \/ UNCHANGED <<pc, step, waiting, done, base, mem>>
         \/ pc' \in {"idle", "patchObject", "patchStatus"}
         \/ /\ pc \in {"get", "pause", "finalizer", "prepare"}
            /\ pc' \in {"get", "pause", "finalizer", "prepare"}
            /\ UNCHANGED <<base, mem>>
  PROVE  SummaryInv'
<1>1. AllTrue(hcp') = AllTrue(hcp) /\ Coherent(hcp') = Coherent(hcp)
      /\ IsReady(hcp') = IsReady(hcp)
  BY SameConditions DEF IsReady
<1>2. CASE UNCHANGED <<pc, step, waiting, done, base, mem>>
  BY <1>1, <1>2, SummaryNext DEF SummaryInv
<1>3. CASE pc' \in {"idle", "patchObject", "patchStatus"}
  BY <1>1, <1>3, SummaryNext DEF SummaryInv
<1>4. CASE /\ pc \in {"get", "pause", "finalizer", "prepare"}
           /\ pc' \in {"get", "pause", "finalizer", "prepare"}
           /\ UNCHANGED <<base, mem>>
  BY <1>1, <1>4, SummaryNext DEF SummaryInv
<1> QED BY <1>2, <1>3, <1>4

\* The reconcile gives up before the phases: the applicable conditions are the
\* stored ones.
LEMMA SummaryUnprepared ==
  ASSUME SummaryInv, pc = "prepare", pc' = "patchConditions",
         UNCHANGED <<hcp, base, misread>>, mem'.ready = mem.ready,
         \A c \in Applicable : mem'.conds[c] = mem.conds[c]
  PROVE  SummaryInv'
<1> SUFFICES ASSUME ~misread PROVE SummaryInv'
  BY SummaryNext
<1>1. /\ Coherent(hcp) /\ (IsReady(hcp) <=> AllTrue(hcp))
      /\ base.conds = hcp.conds /\ base.ready = hcp.ready /\ mem.ready = hcp.ready
      /\ mem.conds = hcp.conds
  BY DEF SummaryInv
<1>2. AllTrue(mem') = AllTrue(hcp) /\ Coherent(mem') = Coherent(hcp)
  BY <1>1, SameConditions
<1> QED BY <1>1, <1>2, SummaryNext

\* A step of the phases is not ready or fails: its condition is false, and only
\* the last step's condition is not applicable.
LEMMA SummaryFails ==
  ASSUME TypeOK, SummaryInv, pc = "phase", pc' = "patchConditions",
         UNCHANGED <<hcp, base, misread, done>>, mem'.ready = mem.ready,
         \A c \in Conditions :
            mem'.conds[c] = IF c = condition(step) THEN "False" ELSE mem.conds[c]
  PROVE  SummaryInv'
<1> SUFFICES ASSUME ~misread PROVE SummaryInv'
  BY SummaryNext
<1>1. /\ Coherent(hcp) /\ (IsReady(hcp) <=> AllTrue(hcp))
      /\ base.conds = hcp.conds /\ base.ready = hcp.ready /\ mem.ready = hcp.ready
      /\ \A c \in Applicable : mem.conds[c] = "Absent" => hcp.conds[c] = "Absent"
      /\ \A c \in Applicable : c < step => mem.conds[c] = "True"
      /\ \A n \in Step : n < step =>
            n \in done \/ (n = controllerManager /\ step = scheduler /\ waiting)
  BY DEF SummaryInv
<1>2. \A c \in Applicable : mem'.conds[c] = "Absent" => hcp.conds[c] = "Absent"
  BY <1>1, ApplicableFacts
<1>3. /\ Coherent(mem')
      /\ AllTrue(mem') => AllTrue(hcp) \/ Step \ {workloadResources} \subseteq done
  <2>1. CASE step = workloadResources
    <3>1. \A c \in Applicable : c # condition(step)
      BY <2>1, ApplicableFacts, StepFacts
    <3>2. AllTrue(mem')
      BY <1>1, <2>1, <3>1, ApplicableFacts DEF AllTrue
    <3>3. \A n \in Step \ {workloadResources} : n < step
      BY <2>1, ApplicableFacts, StepFacts
    <3>4. step # scheduler
      BY <2>1, ApplicableFacts
    <3>5. Step \ {workloadResources} \subseteq done
      BY <1>1, <3>3, <3>4
    <3> QED BY <3>2, <3>5 DEF Coherent
  <2>2. CASE step # workloadResources
    <3>1. condition(step) \in Applicable /\ condition(step) \in Conditions
      BY <2>2, ApplicableFacts, StepFacts DEF TypeOK
    <3>2. mem'.conds[condition(step)] = "False"
      BY <3>1
    <3> QED BY <3>1, <3>2 DEF Coherent, AllTrue
  <2> QED BY <2>1, <2>2
<1> QED BY <1>1, <1>2, <1>3, SummaryNext

\* A step of the phases succeeds: its condition, if it is the last step of its
\* phase, is true.
LEMMA SummarySucceeds ==
  ASSUME TypeOK, SummaryInv, pc = "phase",
         UNCHANGED <<hcp, base, misread>>, mem'.ready = mem.ready,
         \/ /\ step \in {apiServer, controllerManager}
            /\ mem'.conds = mem.conds
         \/ /\ step \notin {apiServer, controllerManager}
            /\ \A c \in Conditions :
                 mem'.conds[c] = IF c = step THEN "True" ELSE mem.conds[c],
         \/ done' = done \cup {step}
         \/ done' = done /\ step = controllerManager /\ waiting',
         step = scheduler => ~waiting,
         IF step = workloadResources THEN pc' = "patchConditions"
                                     ELSE pc' = "phase" /\ step' = step + 1
  PROVE  SummaryInv'
<1> SUFFICES ASSUME ~misread PROVE SummaryInv'
  BY SummaryNext
<1>1. /\ Coherent(hcp) /\ (IsReady(hcp) <=> AllTrue(hcp))
      /\ base.conds = hcp.conds /\ base.ready = hcp.ready /\ mem.ready = hcp.ready
      /\ \A c \in Applicable : mem.conds[c] = "Absent" => hcp.conds[c] = "Absent"
      /\ \A c \in Applicable : c < step => mem.conds[c] = "True"
      /\ \A n \in Step : n < step =>
            n \in done \/ (n = controllerManager /\ step = scheduler /\ waiting)
  BY DEF SummaryInv
<1>2. step \in Step /\ step \in Nat
  BY StepFacts DEF TypeOK
<1>3. \A c \in Applicable : mem'.conds[c] = "Absent" => hcp.conds[c] = "Absent"
  BY <1>1, ApplicableFacts
<1>4. \A c \in Applicable : c < step + 1 => mem'.conds[c] = "True"
  <2> SUFFICES ASSUME NEW c \in Applicable, c < step + 1 PROVE mem'.conds[c] = "True"
    OBVIOUS
  <2>1. c \in Nat /\ c \in Conditions /\ c \notin {apiServer, controllerManager}
    BY ApplicableFacts, StepFacts
  <2>2. c < step \/ c = step
    BY <1>2, <2>1
  <2> QED BY <1>1, <2>1, <2>2
<1>5. \A n \in Step : n < step + 1 =>
        n \in done' \/ (n = controllerManager /\ step + 1 = scheduler /\ waiting')
  <2> SUFFICES ASSUME NEW n \in Step, n < step + 1
               PROVE  n \in done' \/ (n = controllerManager /\ step + 1 = scheduler /\ waiting')
    OBVIOUS
  <2>1. n < step \/ n = step
    BY <1>2, StepFacts
  <2>2. CASE n < step
    BY <1>1, <2>2
  <2>3. CASE n = step
    BY <2>3, StepFacts
  <2> QED BY <2>1, <2>2, <2>3
<1>6. CASE step = workloadResources
  <2>1. AllTrue(mem')
    BY <1>2, <1>4, <1>6, ApplicableFacts, StepFacts DEF AllTrue
  <2>2. \A n \in Step \ {workloadResources} : n < step
    BY <1>6, ApplicableFacts, StepFacts
  <2>3. step # scheduler
    BY <1>6, ApplicableFacts
  <2>4. Step \ {workloadResources} \subseteq done'
    BY <1>1, <2>2, <2>3
  <2>5. Coherent(mem')
    BY <2>1 DEF Coherent
  <2> QED BY <1>1, <1>3, <1>6, <2>4, <2>5, SummaryNext
<1>7. CASE step # workloadResources
  BY <1>1, <1>3, <1>4, <1>5, <1>7, SummaryNext
<1> QED BY <1>6, <1>7

\* What the deferred patch writes: without outdated reads all conditions of the
\* reconcile and their summary, unless the object is gone.
LEMMA PatchWrites ==
  ASSUME TypeOK, SummaryInv, ~misread, patch, hcp.exists
  PROVE  /\ \A c \in Conditions : hcp'.conds[c] = mem.conds[c]
         /\ hcp'.ready = SummaryCondition(mem)
<1>1. base.conds = hcp.conds /\ base.ready = hcp.ready
  BY DEF SummaryInv, patch
<1>2. ~Conflict
  BY <1>1 DEF Conflict
<1> DEFINE ready == SummaryCondition(mem)
           merged == [c \in Conditions |-> IF mem.conds[c] # base.conds[c]
                                           THEN mem.conds[c] ELSE hcp.conds[c]]
           shown == IF ready # base.ready THEN ready ELSE hcp.ready
<1>3. hcp' = [hcp EXCEPT !.conds = merged, !.ready = shown]
  BY <1>2 DEF patch
<1>4. shown = ready
  BY <1>1
<1>5. \A c \in Conditions : merged[c] = mem.conds[c]
  BY <1>1
<1> HIDE DEF ready, merged, shown
<1>6. hcp'.conds = merged /\ hcp'.ready = shown
  BY <1>3 DEF TypeOK, Object
<1> QED BY <1>4, <1>5, <1>6 DEF ready

\* The summary of coherent conditions is Ready exactly when all are true, if
\* that held of the stored ones.
LEMMA SummaryOfCoherent ==
  ASSUME TypeOK, SummaryInv, ~misread, pc = "patchConditions",
         NEW o, o.ready = SummaryCondition(mem),
         \A c \in Conditions : o.conds[c] = mem.conds[c]
  PROVE  /\ Coherent(o) /\ (IsReady(o) <=> AllTrue(o))
         /\ AllTrue(o) <=> AllTrue(mem)
<1>1. /\ Coherent(mem) /\ (IsReady(hcp) <=> AllTrue(hcp)) /\ mem.ready = hcp.ready
      /\ \A c \in Applicable : mem.conds[c] = "Absent" => hcp.conds[c] = "Absent"
  BY DEF SummaryInv
<1>2. AllTrue(o) = AllTrue(mem) /\ Coherent(o) = Coherent(mem)
  BY ApplicableFacts, SameConditions
<1>3. CASE \A c \in Applicable : mem.conds[c] = "Absent"
  <2>1. o.ready = hcp.ready
    BY <1>1, <1>3 DEF SummaryCondition
  <2>2. ~AllTrue(hcp) /\ ~AllTrue(mem)
    BY <1>1, <1>3, ApplicableFacts DEF AllTrue
  <2> QED BY <1>1, <1>2, <2>1, <2>2 DEF IsReady
<1>4. CASE ~(\A c \in Applicable : mem.conds[c] = "Absent")
  <2>1. o.ready = [present |-> TRUE, issues |-> {c \in Applicable : mem.conds[c] = "False"}]
    BY <1>4 DEF SummaryCondition
  <2>2. IsReady(o) <=> ~\E c \in Applicable : mem.conds[c] = "False"
    BY <2>1 DEF IsReady
  <2>3. AllTrue(mem) <=> ~\E c \in Applicable : mem.conds[c] = "False"
    BY <1>1, <1>4 DEF Coherent, AllTrue
  <2> QED BY <1>1, <1>2, <2>2, <2>3
<1> QED BY <1>3, <1>4

\* SummaryInv is preserved by every step.
LEMMA SummaryStep == TypeOK /\ VersionInv /\ SummaryInv /\ [Next]_vars => SummaryInv'
<1> SUFFICES ASSUME TypeOK, VersionInv, SummaryInv, [Next]_vars PROVE SummaryInv'
  OBVIOUS
<1>h. hcp \in Object /\ mem \in Object /\ step \in Step
  BY DEF TypeOK
<1>1. CASE BeginReconcile
  <2> SUFFICES ASSUME ~misread' PROVE SummaryInv'
    BY SummaryNext
  <2>1. /\ ~misread /\ cache.conds = hcp.conds /\ cache.ready = hcp.ready
        /\ hcp' = hcp /\ base' = cache /\ mem' = cache /\ pc' = "get"
    BY <1>1, Zenon DEF BeginReconcile, Goto
  <2> QED BY <2>1, SummaryNext DEF SummaryInv
<1>2. CASE GetOwnerCluster
  <2>1. UNCHANGED <<hcp, misread>>
        /\ (pc' = "idle" \/ (pc = "get" /\ pc' = "pause" /\ UNCHANGED <<base, mem>>))
    BY <1>2 DEF GetOwnerCluster, Return, Goto
  <2> QED BY <2>1, SummaryKept
<1>3. CASE EnsurePausedCondition
  <2>1. misread' = misread /\ hcp'.conds = hcp.conds /\ hcp'.ready = hcp.ready
    BY <1>3, <1>h DEF EnsurePausedCondition, Object
  <2>2. \/ pc' = "idle"
        \/ pc = "pause" /\ pc' \in {"prepare", "finalizer"} /\ UNCHANGED <<base, mem>>
    BY <1>3 DEF EnsurePausedCondition, Return, Goto
  <2> QED BY <2>1, <2>2, SummaryKept
<1>4. CASE EnsureFinalizer
  <2>1. misread' = misread /\ hcp'.conds = hcp.conds /\ hcp'.ready = hcp.ready
    <3>1. hcp' = hcp \/ hcp' = [hcp EXCEPT !.finalizer = TRUE]
      BY <1>4, Zenon DEF EnsureFinalizer
    <3> QED BY <1>4, <1>h, <3>1 DEF EnsureFinalizer, Object
  <2>2. \/ pc' = "idle"
        \/ pc = "finalizer" /\ pc' = "prepare" /\ UNCHANGED <<base, mem>>
    BY <1>4 DEF EnsureFinalizer, Return, Goto
  <2> QED BY <2>1, <2>2, SummaryKept
<1>5. CASE reconcileDelete
  <2>1. /\ pc = "prepare" /\ pc' = "patchConditions" /\ UNCHANGED <<hcp, base, misread>>
    BY <1>5 DEF reconcileDelete, Goto, objVars
  <2>2. mem'.conds = mem.conds /\ mem'.ready = mem.ready
    BY <1>5, <1>h DEF reconcileDelete, Object
  <2> QED BY <2>1, <2>2, SummaryUnprepared
<1>6. CASE PreparePhases
  <2>1. pc = "prepare" /\ UNCHANGED <<hcp, base, misread>>
    BY <1>6 DEF PreparePhases, objVars
  <2>2. CASE Goto("phase") /\ UNCHANGED mem
    <3>1. step' = firstPhase /\ pc' = "phase"
      BY <1>6, <2>1, <2>2 DEF PreparePhases, Goto, VersionInv
    <3>2. \A n \in Step : ~(n < step')
      BY <3>1, ApplicableFacts
    <3>3. \A c \in Applicable : ~(c < step')
      BY <3>2, ApplicableFacts
    <3> QED BY <2>1, <2>2, <3>1, <3>2, <3>3, SummaryNext DEF SummaryInv
  <2>3. CASE LeavePhases(SetCondition(mem, workloadResources, "False"))
    <3> DEFINE o == SetCondition(mem, workloadResources, "False")
    <3>1. o \in Object /\ o.ready = mem.ready
      BY <1>h, StepFacts, ObjectFacts, ConditionSet DEF Status
    <3>2. \A c \in Applicable : o.conds[c] = mem.conds[c]
      <4>1. condition(workloadResources) = workloadResources
        BY ApplicableFacts, StepFacts
      <4>2. workloadResources \in Step /\ "False" \in Status
        BY StepFacts DEF Status
      <4>3. \A c \in Conditions : o.conds[c] = IF c = condition(workloadResources)
                                              THEN "False" ELSE mem.conds[c]
        BY <1>h, <4>2, ConditionSet
      <4>4. Applicable \subseteq Conditions /\ workloadResources \notin Applicable
        BY ApplicableFacts
      <4> HIDE DEF o
      <4> QED BY <4>1, <4>3, <4>4
    <3> HIDE DEF o
    <3>3. pc' = "patchConditions" /\ mem'.conds = o.conds /\ mem'.ready = o.ready
      BY <2>3, <3>1, LeaveFields DEF o
    <3> QED BY <2>1, <3>1, <3>2, <3>3, SummaryUnprepared
  <2>4. CASE LeavePhases(mem)
    BY <1>h, <2>1, <2>4, LeaveFields, SummaryUnprepared
  <2> QED BY <1>6, <2>2, <2>3, <2>4 DEF PreparePhases
<1>a. ASSUME pc = "phase", UNCHANGED <<hcp, base, misread, done>>,
             LeavePhases(SetCondition(mem, step, "False"))
      PROVE  SummaryInv'
  <2> DEFINE o == SetCondition(mem, step, "False")
  <2>1. /\ o \in Object /\ o.ready = mem.ready
        /\ \A c \in Conditions : o.conds[c] = IF c = condition(step) THEN "False" ELSE mem.conds[c]
    BY <1>h, ObjectFacts, ConditionSet DEF Status
  <2> HIDE DEF o
  <2>2. pc' = "patchConditions" /\ mem'.conds = o.conds /\ mem'.ready = o.ready
    BY <1>a, <2>1, LeaveFields DEF o
  <2> QED BY <1>a, <2>1, <2>2, SummaryFails
<1>b. ASSUME pc = "phase", UNCHANGED <<hcp, base, misread>>, NotReady(step)
      PROVE  SummaryInv'
  BY <1>a, <1>b DEF NotReady
<1>7. ASSUME NEW n \in Step, ReconcilePhase(n) PROVE SummaryInv'
  <2>1. /\ pc = "phase" /\ step = n /\ n \notin {apiServer, controllerManager, scheduler}
        /\ UNCHANGED <<hcp, base, misread>>
    BY <1>7 DEF ReconcilePhase, objVars
  <2> DEFINE t == SetCondition(mem, n, "True")
             u == [t EXCEPT !.statusReady = TRUE]
  <2>2. /\ t \in Object /\ t.ready = mem.ready
        /\ \A c \in Conditions : t.conds[c] = IF c = n THEN "True" ELSE mem.conds[c]
    <3>1. condition(n) = n /\ "True" \in Status
      BY <2>1, ApplicableFacts DEF Status
    <3>2. t \in Object
      BY <1>h, <3>1, ObjectFacts
    <3>3. /\ t.ready = mem.ready
          /\ \A c \in Conditions :
                t.conds[c] = IF c = condition(n) THEN "True" ELSE mem.conds[c]
      BY <1>h, <3>1, ConditionSet
    <3> HIDE DEF t
    <3> QED BY <3>1, <3>2, <3>3
  <2>3. u \in Object /\ u.ready = t.ready /\ u.conds = t.conds
    <3> HIDE DEF t
    <3> QED BY <2>2 DEF Object
  <2>4. NotReady(n) \/ Succeed(n, u) \/ Succeed(n, t)
    BY <1>7 DEF ReconcilePhase
  <2> HIDE DEF t, u
  <2>5. CASE NotReady(n)
    BY <1>b, <2>1, <2>5
  <2>6. CASE Succeed(n, u) \/ Succeed(n, t)
    <3>1. /\ mem'.conds = t.conds /\ mem'.ready = t.ready /\ done' = done \cup {n}
          /\ IF n = workloadResources THEN pc' = "patchConditions"
                                      ELSE pc' = pc /\ step' = n + 1
      BY <2>2, <2>3, <2>6, LeaveFields
    <3> QED BY <2>1, <2>2, <3>1, SummarySucceeds
  <2> QED BY <2>4, <2>5, <2>6
<1>8. CASE reconcileAPIServerDeployment
  <2>1. pc = "phase" /\ step = apiServer /\ UNCHANGED <<hcp, base, misread>>
    BY <1>8 DEF reconcileAPIServerDeployment, objVars
  <2>2. NotReady(apiServer) \/ Succeed(apiServer, mem)
    BY <1>8 DEF reconcileAPIServerDeployment
  <2>3. CASE NotReady(apiServer)
    BY <1>b, <2>1, <2>3
  <2>4. CASE Succeed(apiServer, mem)
    <3>1. apiServer # workloadResources /\ apiServer # scheduler
      BY ConstantsAssumption DEF apiServer, workloadResources, scheduler
    <3>2. /\ mem'.conds = mem.conds /\ mem'.ready = mem.ready /\ done' = done \cup {apiServer}
          /\ pc' = pc /\ step' = apiServer + 1
      BY <1>h, <2>1, <2>4, <3>1, LeaveFields
    <3> QED BY <2>1, <3>1, <3>2, SummarySucceeds
  <2> QED BY <2>2, <2>3, <2>4
<1>9. CASE reconcileControllerManagerDeployment
  <2>1. /\ pc = "phase" /\ step = controllerManager /\ UNCHANGED <<hcp, base, mem, misread>>
        /\ pc' = "phase" /\ step' = scheduler
        /\ done' = done \cup {step} \/ (done' = done /\ waiting')
    BY <1>9 DEF reconcileControllerManagerDeployment, objVars, Goto
  <2>2. scheduler = controllerManager + 1 /\ controllerManager # workloadResources
        /\ controllerManager # scheduler
    BY ConstantsAssumption DEF controllerManager, workloadResources, scheduler
  <2> QED BY <2>1, <2>2, SummarySucceeds
<1>10. CASE reconcileSchedulerDeployment
  <2>1. pc = "phase" /\ step = scheduler /\ UNCHANGED <<hcp, base, misread>>
    BY <1>10 DEF reconcileSchedulerDeployment, objVars
  <2> DEFINE t == SetCondition(mem, scheduler, "True")
             u == DeploymentsReady(mem)
  <2>2. NotReady(scheduler) \/ (Succeed(scheduler, u) /\ ~waiting)
    BY <1>10 DEF reconcileSchedulerDeployment
  <2>3. /\ t \in Object /\ t.ready = mem.ready
        /\ \A c \in Conditions : t.conds[c] = IF c = scheduler THEN "True" ELSE mem.conds[c]
    <3>1. condition(scheduler) = scheduler
      BY ApplicableFacts, StepFacts
    <3>2. scheduler \in Step /\ "True" \in Status
      BY StepFacts DEF Status
    <3>3. t \in Object
      BY <1>h, <3>2, ObjectFacts
    <3>4. /\ t.ready = mem.ready
          /\ \A c \in Conditions :
                t.conds[c] = IF c = condition(scheduler) THEN "True" ELSE mem.conds[c]
      BY <1>h, <3>2, ConditionSet
    <3> HIDE DEF t
    <3> QED BY <3>1, <3>3, <3>4
  <2>4. u \in Object /\ u.ready = t.ready /\ u.conds = t.conds
    <3>1. u = [t EXCEPT !.version = mem.generation, !.initialized = TRUE]
      BY DEF DeploymentsReady
    <3>2. mem.generation \in Generation
      BY <1>h DEF Object
    <3> HIDE DEF t, u
    <3> QED BY <2>3, <3>1, <3>2 DEF Object
  <2> HIDE DEF t, u
  <2>5. CASE NotReady(scheduler)
    BY <1>b, <2>1, <2>5
  <2>6. CASE Succeed(scheduler, u) /\ ~waiting
    <3>1. scheduler # workloadResources /\ scheduler \notin {apiServer, controllerManager}
      BY ConstantsAssumption DEF apiServer, controllerManager, workloadResources, scheduler
    <3>2. /\ mem'.conds = t.conds /\ mem'.ready = t.ready /\ done' = done \cup {scheduler}
          /\ pc' = pc /\ step' = scheduler + 1
      BY <1>h, <2>1, <2>4, <2>6, <3>1, LeaveFields
    <3> QED BY <2>1, <2>3, <2>6, <3>1, <3>2, SummarySucceeds
  <2> QED BY <2>2, <2>5, <2>6
<1>11. CASE StepFails
  <2>1. /\ pc = "phase" /\ UNCHANGED <<hcp, base, misread, done>>
        /\ LeavePhases(SetCondition(mem, step, "False"))
    BY <1>11 DEF StepFails, objVars
  <2> QED BY <1>a, <2>1
<1>12. CASE patch
  <2>1. pc = "patchConditions" /\ pc' = "patchObject" /\ UNCHANGED misread
    BY <1>12 DEF patch, Goto
  <2>2. CASE ~hcp.exists
    <3>1. hcp' = hcp
      BY <1>12, <2>2 DEF patch
    <3> QED BY <2>1, <3>1, SummaryKept
  <2>3. CASE hcp.exists
    <3> SUFFICES ASSUME ~misread PROVE SummaryInv'
      BY <2>1, SummaryNext
    <3>1. Coherent(hcp') /\ (IsReady(hcp') <=> AllTrue(hcp'))
      BY <1>12, <2>1, <2>3, PatchWrites, SummaryOfCoherent
    <3> QED BY <2>1, <3>1, SummaryNext
  <2> QED BY <2>2, <2>3
<1>13. CASE PatchObject
  <2>1. pc' = "patchStatus" /\ UNCHANGED misread
    BY <1>13 DEF PatchObject, Goto
  <2>2. hcp'.conds = hcp.conds /\ hcp'.ready = hcp.ready
    <3>1. hcp' = hcp \/ hcp' = [hcp EXCEPT !.finalizer = FALSE, !.exists = ~hcp.deleting]
      BY <1>13, Zenon DEF PatchObject
    <3> QED BY <1>h, <3>1 DEF Object
  <2> QED BY <2>1, <2>2, SummaryKept
<1>14. CASE PatchStatus
  <2>1. pc' = "idle" /\ UNCHANGED misread
    BY <1>14 DEF PatchStatus, Return, Goto
  <2>2. hcp'.conds = hcp.conds /\ hcp'.ready = hcp.ready
    BY <1>14, <1>h DEF PatchStatus, Object
  <2> QED BY <2>1, <2>2, SummaryKept
<1>15. CASE LoseReconcile
  BY <1>15, SummaryKept DEF LoseReconcile, Return, Goto
<1>16. CASE SetOwnerReference \/ UpdateSpec \/ Delete
  <2>1. UNCHANGED <<pc, step, waiting, done, base, mem, misread>>
    BY <1>16 DEF SetOwnerReference, UpdateSpec, Delete, ctrlVars
  <2>2. hcp'.conds = hcp.conds /\ hcp'.ready = hcp.ready
    <3>1. CASE SetOwnerReference
      BY <1>h, <3>1 DEF SetOwnerReference, Object
    <3>2. CASE UpdateSpec
      BY <1>h, <3>2 DEF UpdateSpec, Object
    <3>3. CASE Delete
      BY <1>h, <3>3 DEF Delete, Object
    <3> QED BY <1>16, <3>1, <3>2, <3>3
  <2> QED BY <2>1, <2>2, SummaryKept
<1>17. CASE SyncCache \/ PauseCluster \/ UNCHANGED vars
  BY <1>17, SummaryKept DEF SyncCache, PauseCluster, vars, ctrlVars, objVars
<1>18. ASSUME NEW n \in Step, BecomeReady(n) \/ Degrade(n) PROVE SummaryInv'
  BY <1>18, SummaryKept DEF BecomeReady, Degrade, ctrlVars, objVars
<1> QED
  BY <1>1, <1>2, <1>3, <1>4, <1>5, <1>6, <1>7, <1>8, <1>9, <1>10, <1>11, <1>12, <1>13,
     <1>14, <1>15, <1>16, <1>17, <1>18, LoadBalancerFails DEF Next, Controller

\* SummaryInv holds in every reachable state.
LEMMA SummaryHolds == Spec => []SummaryInv
<1>1. Init => SummaryInv
  <2> SUFFICES ASSUME Init PROVE SummaryInv
    OBVIOUS
  <2>1. /\ \A c \in Conditions : hcp.conds[c] = "Absent"
        /\ ~hcp.ready.present /\ pc = "idle"
    BY DEF Init, NewObject
  <2>2. Coherent(hcp) /\ ~IsReady(hcp) /\ ~AllTrue(hcp)
    BY <2>1, ApplicableFacts DEF Coherent, IsReady, AllTrue
  <2> QED BY <2>1, <2>2 DEF SummaryInv
<1> QED BY <1>1, SummaryStep, TypeCorrect, VersionHolds, PTL DEF Spec

\* The Ready condition agrees with the conditions it summarises after every
\* error, lost patch and skipped phase, as long as no reconcile started from
\* outdated conditions.
THEOREM SummaryAlwaysAgrees == Spec => []SummaryAgrees
<1>1. SummaryInv => SummaryAgrees
  BY DEF SummaryInv, SummaryAgrees, AllTrue
<1> QED BY <1>1, SummaryHolds, PTL

\* The stored summary is written by the patch of the conditions alone.
LEMMA ReadyChangesInPatch ==
  ASSUME TypeOK, [Next]_vars, ~patch
  PROVE  hcp'.ready = hcp.ready
<1>h. hcp \in Object
  BY DEF TypeOK
<1>1. CASE BeginReconcile \/ GetOwnerCluster \/ LoseReconcile \/ SyncCache \/ PauseCluster
           \/ UNCHANGED vars
  BY <1>1 DEF BeginReconcile, GetOwnerCluster, LoseReconcile, SyncCache, PauseCluster,
              vars, objVars
<1>2. CASE reconcileDelete \/ PreparePhases \/ StepFails
  BY <1>2 DEF reconcileDelete, PreparePhases, StepFails, objVars
<1>3. CASE \/ \E n \in Step : ReconcilePhase(n) \/ BecomeReady(n) \/ Degrade(n)
           \/ reconcileAPIServerDeployment \/ reconcileControllerManagerDeployment
           \/ reconcileSchedulerDeployment
  BY <1>3 DEF ReconcilePhase, BecomeReady, Degrade, reconcileAPIServerDeployment,
              reconcileControllerManagerDeployment, reconcileSchedulerDeployment, objVars
<1>4. CASE EnsurePausedCondition
  BY <1>4, <1>h DEF EnsurePausedCondition, Object
<1>5. CASE EnsureFinalizer
  <2>1. hcp' = hcp \/ hcp' = [hcp EXCEPT !.finalizer = TRUE]
    BY <1>5, Zenon DEF EnsureFinalizer
  <2> QED BY <1>h, <2>1 DEF Object
<1>6. CASE PatchObject
  <2>1. hcp' = hcp \/ hcp' = [hcp EXCEPT !.finalizer = FALSE, !.exists = ~hcp.deleting]
    BY <1>6, Zenon DEF PatchObject
  <2> QED BY <1>h, <2>1 DEF Object
<1>7. CASE PatchStatus
  BY <1>7, <1>h DEF PatchStatus, Object
<1>8. CASE SetOwnerReference
  BY <1>8, <1>h DEF SetOwnerReference, Object
<1>9. CASE UpdateSpec
  BY <1>9, <1>h DEF UpdateSpec, Object
<1>10. CASE Delete
  BY <1>10, <1>h DEF Delete, Object
<1> QED
  BY <1>1, <1>2, <1>3, <1>4, <1>5, <1>6, <1>7, <1>8, <1>9, <1>10, LoadBalancerFails DEF Next, Controller

\* The object turns Ready only by the patch of a reconcile that found every
\* step of the management cluster ready itself, one after the other.
THEOREM ReadyAfterFullRun == Spec => BecomesReadyAfterFullRun
<1>1. TypeOK /\ SummaryInv /\ [Next]_vars =>
        [~misread /\ ~IsReady(hcp) /\ IsReady(hcp') =>
           Step \ {workloadResources} \subseteq done]_vars
  <2> SUFFICES ASSUME TypeOK, SummaryInv, [Next]_vars, ~misread, ~IsReady(hcp), IsReady(hcp')
               PROVE  Step \ {workloadResources} \subseteq done
    OBVIOUS
  <2>1. patch
    BY ReadyChangesInPatch DEF IsReady
  <2>2. pc = "patchConditions" /\ hcp.exists
    BY <2>1 DEF patch
  <2>3. AllTrue(mem)
    BY <2>1, <2>2, PatchWrites, SummaryOfCoherent
  <2> QED BY <2>2, <2>3 DEF SummaryInv
<1> QED BY <1>1, SummaryHolds, TypeCorrect, PTL DEF Spec, BecomesReadyAfterFullRun

-----------------------------------------------------------------------------
(* The refinement of UpgradeContract.                                      *)

\* What a step does to the part of the state the contract sees.
SameObject  == /\ hcp'.generation = hcp.generation /\ hcp'.version = hcp.version
               /\ hcp'.exists = hcp.exists
SeesNothing == SameObject /\ applied' = applied
SeesApply   == /\ pc = "phase" /\ hcp' = hcp
               /\ applied' \in {applied, [applied EXCEPT ![step] = mem.generation]}
SeesEdit    == /\ hcp.exists /\ hcp'.exists /\ applied' = applied
               /\ hcp'.generation = hcp.generation + 1 /\ hcp'.version = hcp.version
SeesReport  == /\ hcp.exists /\ hcp'.exists /\ applied' = applied /\ pc = "patchStatus"
               /\ hcp'.generation = hcp.generation
               /\ hcp'.version = mem.version /\ mem.version # base.version
SeesRemoval == /\ applied' = applied /\ ~hcp'.exists
               /\ hcp'.generation = hcp.generation /\ hcp'.version = hcp.version

-----------------------------------------------------------------------------
\* A step of the phases applies its own objects, with the generation the
\* reconcile read, and leaves the stored object alone.
LEMMA PhaseSees ==
  ASSUME TypeOK,
         \/ \E n \in Step : ReconcilePhase(n)
         \/ reconcileAPIServerDeployment \/ reconcileControllerManagerDeployment
         \/ reconcileSchedulerDeployment \/ StepFails
  PROVE  SeesApply
<1>1. ASSUME NEW n \in Step, ReconcilePhase(n) PROVE SeesApply
  BY <1>1 DEF ReconcilePhase, Apply, objVars, SeesApply
<1>2. CASE \/ reconcileAPIServerDeployment \/ reconcileControllerManagerDeployment
           \/ reconcileSchedulerDeployment
  BY <1>2 DEF reconcileAPIServerDeployment, reconcileControllerManagerDeployment,
              reconcileSchedulerDeployment, Apply, objVars, SeesApply
<1>3. CASE StepFails
  BY <1>3 DEF StepFails, objVars, SeesApply
<1> QED BY <1>1, <1>2, <1>3

\* Every step is one of the five kinds.
LEMMA EveryStepSees ==
  ASSUME TypeOK, [Next]_vars
  PROVE  SeesNothing \/ SeesApply \/ SeesEdit \/ SeesReport \/ SeesRemoval
<1>h. hcp \in Object /\ hcp.exists \in BOOLEAN /\ hcp.finalizer \in BOOLEAN
  BY DEF TypeOK, Object
<1>1. CASE BeginReconcile \/ GetOwnerCluster \/ LoseReconcile \/ SyncCache \/ PauseCluster
  BY <1>1 DEF BeginReconcile, GetOwnerCluster, LoseReconcile, SyncCache, PauseCluster,
              worldVars, SeesNothing, SameObject
<1>2. CASE reconcileDelete \/ PreparePhases
  BY <1>2 DEF reconcileDelete, PreparePhases, worldVars, objVars, SeesNothing, SameObject
<1>3. CASE EnsurePausedCondition
  BY <1>3, <1>h DEF EnsurePausedCondition, worldVars, SeesNothing, SameObject, Object
<1>4. CASE EnsureFinalizer
  <2>1. hcp' = hcp \/ hcp' = [hcp EXCEPT !.finalizer = TRUE]
    BY <1>4, Zenon DEF EnsureFinalizer
  <2>2. applied' = applied
    BY <1>4 DEF EnsureFinalizer, worldVars
  <2> QED BY <1>h, <2>1, <2>2 DEF SeesNothing, SameObject, Object
<1>5. CASE \/ \E n \in Step : ReconcilePhase(n)
           \/ reconcileAPIServerDeployment \/ reconcileControllerManagerDeployment
           \/ reconcileSchedulerDeployment \/ StepFails
  BY <1>5, PhaseSees
<1>6. CASE patch
  BY <1>6, <1>h DEF patch, worldVars, SeesNothing, SameObject, Object
<1>7. CASE PatchObject
  <2>1. hcp' = hcp \/ hcp' = [hcp EXCEPT !.finalizer = FALSE, !.exists = ~hcp.deleting]
    BY <1>7, Zenon DEF PatchObject
  <2>2. applied' = applied /\ (hcp' # hcp => hcp.exists)
    BY <1>7 DEF PatchObject, worldVars
  <2>3. CASE hcp' = hcp
    BY <2>2, <2>3 DEF SeesNothing, SameObject
  <2>4. CASE hcp' = [hcp EXCEPT !.finalizer = FALSE, !.exists = ~hcp.deleting] /\ hcp' # hcp
    <3>1. /\ hcp'.generation = hcp.generation /\ hcp'.version = hcp.version
          /\ hcp'.exists = ~hcp.deleting
      BY <1>h, <2>4 DEF Object
    <3> QED BY <1>h, <2>2, <2>4, <3>1 DEF SeesNothing, SameObject, SeesRemoval
  <2> QED BY <2>1, <2>3, <2>4
<1>8. CASE PatchStatus
  <2>1. applied' = applied /\ pc = "patchStatus"
    BY <1>8 DEF PatchStatus, worldVars
  <2>2. /\ hcp'.generation = hcp.generation /\ hcp'.exists = hcp.exists
        /\ \/ hcp'.version = hcp.version
           \/ hcp.exists /\ hcp'.version = mem.version /\ mem.version # base.version
    BY <1>8, <1>h DEF PatchStatus, Object
  <2> QED BY <2>1, <2>2 DEF SeesNothing, SameObject, SeesReport
<1>9. CASE SetOwnerReference
  BY <1>9, <1>h DEF SetOwnerReference, worldVars, SeesNothing, SameObject, Object
<1>10. CASE UpdateSpec
  BY <1>10, <1>h DEF UpdateSpec, worldVars, SeesEdit, Object
<1>11. CASE Delete
  <2>1. hcp' = [hcp EXCEPT !.deleting = TRUE, !.exists = hcp.finalizer] /\ hcp.exists
    BY <1>11, Zenon DEF Delete
  <2>2. /\ hcp'.generation = hcp.generation /\ hcp'.version = hcp.version
        /\ hcp'.exists = hcp.finalizer /\ applied' = applied
    BY <1>11, <1>h, <2>1 DEF Object, Delete, worldVars
  <2> QED BY <1>h, <2>1, <2>2 DEF SeesNothing, SameObject, SeesRemoval
<1>12. ASSUME NEW n \in Step, BecomeReady(n) \/ Degrade(n) PROVE SeesNothing
  BY <1>12 DEF BecomeReady, Degrade, objVars, SeesNothing, SameObject
<1>13. CASE UNCHANGED vars
  BY <1>13 DEF vars, objVars, worldVars, SeesNothing, SameObject
<1> QED
  BY <1>1, <1>2, <1>3, <1>4, <1>5, <1>6, <1>7, <1>8, <1>9, <1>10, <1>11, <1>12, <1>13,
     LoadBalancerFails
  DEF Next, Controller

-----------------------------------------------------------------------------
\* Each kind of step is a step of the contract, or none.
LEMMA Simulation ==
  TypeOK /\ TypeOK' /\ VersionInv /\ FinalizerInv /\ [Next]_vars
    => [Contract!Next]_(Contract!vars)
<1> SUFFICES ASSUME TypeOK, TypeOK', VersionInv, FinalizerInv, [Next]_vars
             PROVE  [Contract!Next]_(Contract!vars)
  OBVIOUS
<1>f. /\ apiServer \in Step /\ controllerManager \in Step /\ scheduler \in Step
      /\ apiServer \notin Followers /\ Followers \subseteq Step
      /\ Followers \subseteq apiServer .. scheduler /\ apiServer \in apiServer .. scheduler
  BY StepFacts DEF Followers
<1>n. /\ hcp.generation \in Nat /\ mem.generation \in Nat /\ cache.generation \in Nat
      /\ hcp.version \in Nat /\ mem.version \in Nat
      /\ \A n \in Step : applied[n] \in Nat
      /\ applied \in [Step -> Generation] /\ step \in Step
  BY Numbers DEF TypeOK
<1>1. CASE SeesNothing
  BY <1>1 DEF SeesNothing, SameObject, Contract!vars
<1>2. CASE SeesEdit
  <2>1. Contract!RaiseVersion
    BY <1>2 DEF SeesEdit, Contract!RaiseVersion
  <2> QED BY <2>1 DEF Contract!Next
<1>3. CASE SeesRemoval
  <2>1. Contract!Remove
    BY <1>3 DEF SeesRemoval, Contract!Remove
  <2> QED BY <2>1 DEF Contract!Next
<1>4. CASE SeesReport
  <2>1. pc # "idle" /\ mem.version = mem.generation
    BY <1>4 DEF SeesReport, VersionInv
  <2>2. /\ mem.version <= applied[apiServer]
        /\ \A n \in Followers : mem.version <= applied[n]
    BY <1>f DEF VersionInv
  <2>3. hcp.version <= mem.version
    <3>1. hcp.version <= applied[apiServer] /\ applied[apiServer] <= mem.generation
      BY <1>f, <2>1 DEF VersionInv
    <3> QED BY <1>f, <1>n, <2>1, <3>1
  <2>4. hcp'.version \in hcp.version .. applied[apiServer]
    BY <1>4, <1>f, <1>n, <2>2, <2>3 DEF SeesReport
  <2>5. \A n \in Followers : hcp'.version <= [f \in Followers |-> applied[f]][n]
    BY <1>4, <2>2 DEF SeesReport
  <2>6. Contract!Report
    BY <1>4, <2>4, <2>5 DEF SeesReport, Contract!Report
  <2> QED BY <2>6 DEF Contract!Next
<1>5. CASE SeesApply
  <2>1. /\ pc = "phase" /\ hcp' = hcp /\ hcp.exists
        /\ applied' \in {applied, [applied EXCEPT ![step] = mem.generation]}
    BY <1>5 DEF SeesApply, FinalizerInv
  <2>2. applied[step] <= mem.generation /\ mem.generation <= hcp.generation
    BY <1>n, <2>1 DEF VersionInv
  <2>3. CASE applied' = applied
    BY <2>1, <2>3 DEF Contract!vars
  <2>4. CASE applied' = [applied EXCEPT ![step] = mem.generation]
    <3>1. \A n \in Step : applied'[n] = IF n = step THEN mem.generation ELSE applied[n]
      BY <1>n, <2>4
    <3>2. CASE step = apiServer
      <4>1. applied'[apiServer] \in applied[apiServer] .. hcp.generation
        BY <1>f, <1>n, <2>2, <3>1, <3>2
      <4>2. [n \in Followers |-> applied'[n]] = [n \in Followers |-> applied[n]]
        BY <1>f, <3>1, <3>2
      <4>3. Contract!DeployServer
        BY <2>1, <4>1, <4>2 DEF Contract!DeployServer
      <4> QED BY <4>3 DEF Contract!Next
    <3>3. CASE step \in Followers
      <4>1. applied'[apiServer] = applied[apiServer]
        BY <1>f, <3>1, <3>3
      <4>2. applied[apiServer] = mem.generation
        BY <2>1, <3>3 DEF VersionInv, Followers
      <4>3. mem.generation \in applied[step] .. applied[apiServer]
        BY <1>f, <1>n, <2>2, <4>2
      <4>4. [n \in Followers |-> applied'[n]]
              = [[n \in Followers |-> applied[n]] EXCEPT ![step] = mem.generation]
        BY <1>f, <3>1, <3>3
      <4>5. [n \in Followers |-> applied[n]][step] = applied[step]
        BY <3>3
      <4>6. \E v \in [n \in Followers |-> applied[n]][step] .. applied[apiServer] :
              [n \in Followers |-> applied'[n]]
                = [[n \in Followers |-> applied[n]] EXCEPT ![step] = v]
        <5>1. mem.generation \in
                [n \in Followers |-> applied[n]][step] .. applied[apiServer]
          BY <4>3, <4>5
        <5> QED BY <4>4, <5>1, Zenon
      <4>7. \E f \in Followers : Contract!DeployFollower(f)
        BY <2>1, <3>3, <4>1, <4>6, Zenon DEF Contract!DeployFollower
      <4> QED BY <4>7, Zenon DEF Contract!Next
    <3>4. CASE step # apiServer /\ step \notin Followers
      <4>1. applied'[apiServer] = applied[apiServer]
        BY <1>f, <3>1, <3>4
      <4>2. [n \in Followers |-> applied'[n]] = [n \in Followers |-> applied[n]]
        BY <1>f, <3>1, <3>4
      <4> QED BY <2>1, <4>1, <4>2 DEF Contract!vars
    <3> QED BY <3>2, <3>3, <3>4
  <2> QED BY <2>1, <2>3, <2>4
<1> QED BY <1>1, <1>2, <1>3, <1>4, <1>5, EveryStepSees

\* The initial states map to the contract's.
LEMMA SimulationInit == Init => Contract!Init
<1> SUFFICES ASSUME Init PROVE Contract!Init
  OBVIOUS
<1>1. NewObject.generation = 1 /\ NewObject.version = 0 /\ NewObject.exists
  BY DEF NewObject
<1>2. \A n \in Step : applied[n] = 0
  BY DEF Init
<1>3. apiServer \in Step /\ Followers \subseteq Step
  BY StepFacts DEF Followers
<1>4. [n \in Followers |-> applied[n]] = [f \in Followers |-> 0]
  BY <1>2, <1>3
<1>5. hcp = NewObject
  BY DEF Init
<1> QED BY <1>1, <1>2, <1>3, <1>4, <1>5 DEF Contract!Init

\* The controller keeps the upgrade contract, whatever its reconciles read,
\* lose or leave half done.
THEOREM Refinement == Spec => KeepsUpgradeContract
<1>1. Init => FinalizerInv
  BY DEF Init, FinalizerInv, NewObject
<1>2. TypeOK /\ FinalizerInv /\ [Next]_vars => FinalizerInv'
  BY FinalizerStep
<1>3. Spec => []FinalizerInv
  BY <1>1, <1>2, TypeCorrect, PTL DEF Spec
<1> QED
  BY <1>3, TypeCorrect, VersionHolds, Simulation, SimulationInit, PTL
  DEF Spec, KeepsUpgradeContract, Contract!Spec

=============================================================================
