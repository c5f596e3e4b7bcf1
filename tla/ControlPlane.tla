---------------------------- MODULE ControlPlane ----------------------------
(***************************************************************************)
(* The life of one HostedControlPlane under its controller                 *)
(* (pkg/hostedcontrolplane/controller.go): the work queue, the pause and   *)
(* finalizer handling, the ordered phases of reconcileNormal with their    *)
(* conditions, the deferred patch, deletion, and the phase that deploys    *)
(* the API server, the controller manager and the scheduler.               *)
(*                                                                         *)
(* A reconcile works on a copy (mem) of the object in the informer cache;  *)
(* it never runs twice at a time for one object.  Each phase applies its   *)
(* objects to the management or the workload cluster, where they become    *)
(* ready, or stop being ready, at any time.  The deferred patch is made of *)
(* three writes: the conditions, the metadata and the rest of the status;  *)
(* each writes only what the reconcile changed.                            *)
(*                                                                         *)
(* Simplifications: the Cluster exists and is read fresh; every edit of    *)
(* the specification raises the Kubernetes version, so that a generation   *)
(* stands for a version (the webhook refuses a lower one); the controller  *)
(* runs without a reconcile filter; the work of a phase is one step; a     *)
(* condition is its status, its reason and message are left out (those of  *)
(* Ready are the conditions it names).                                     *)
(***************************************************************************)
EXTENDS Integers

CONSTANTS
    Early,      \* number of phases before the apiserver deployments (8)
    Instant,    \* those of them that wait for nothing: the CA bundles (2) and
                \* the internal kubeconfigs (8)
    MaxEdits,   \* bound: edits of the specification
    MaxPauses,  \* bound: changes of the Cluster's paused field
    MaxFaults   \* bound: errors, crashes and objects that stop being ready

ASSUME ConstantsAssumption ==
    /\ Early \in Nat \ {0} /\ Instant \subseteq 1 .. Early
    /\ MaxEdits \in Nat /\ MaxPauses \in Nat /\ MaxFaults \in Nat

-----------------------------------------------------------------------------
(* The phases, in their order.  The early ones, 1 .. Early, are the CA      *)
(* certificates, the CA bundles, the API server's Service, the control     *)
(* plane endpoint, the TLS routes, the certificates, etcd and the internal *)
(* kubeconfigs.  The apiserver deployments phase has three steps and one   *)
(* condition, which is kept under its last step.                           *)

firstPhase          == 1
apiServer           == Early + 1
controllerManager   == Early + 2
scheduler           == Early + 3
kubernetesService   == Early + 4
adminKubeconfig     == Early + 5
caRotation          == Early + 6
workloadResources   == Early + 7

Step == firstPhase .. workloadResources

\* Steps that wait for nothing once they have written their objects.
Immediate == Instant \cup {kubernetesService, adminKubeconfig, caRotation}

\* The step under which the condition of a step is kept.
condition(n) == IF n \in apiServer .. scheduler THEN scheduler ELSE n

Conditions == {condition(n) : n \in Step}

\* Conditions the Ready summary covers: not those starting with "Workload".
Applicable == Conditions \ {workloadResources}

VARIABLES
    hcp,      \* the HostedControlPlane in the API server
    cache,    \* the informer's copy
    queued,   \* the object is in the work queue, or a timer will put it there
    paused,   \* spec.paused of the Cluster
    pc,       \* where the reconcile in flight is
    step,     \* the next step of the phases
    waiting,  \* the controller manager was not ready in this reconcile
    done,     \* the steps this reconcile found ready
    base,     \* the object as read
    mem,      \* the copy worked on
    applied,  \* the generation each step's objects were applied with; 0: none
    up,       \* the steps whose objects are ready
    misread,  \* some reconcile started from outdated conditions
    pauses, faults

objVars   == <<hcp, cache, queued>>
ctrlVars  == <<pc, step, waiting, done, base, mem>>
worldVars == <<applied, up>>
vars      == <<objVars, ctrlVars, worldVars, paused, misread, pauses, faults>>

Status == {"Absent", "True", "False"}

\* The Ready condition: absent, or the conditions it reports as issues.
Summary == [present : BOOLEAN, issues : SUBSET Conditions]

Generation == 0 .. MaxEdits + 1

Object ==
    [exists : BOOLEAN, owned : BOOLEAN, deleting : BOOLEAN, finalizer : BOOLEAN,
     generation : Generation, pausedCondition : Status,
     conds : [Conditions -> Status], ready : Summary, initialized : BOOLEAN,
     statusReady : BOOLEAN, version : Generation, observed : Generation]

NewObject ==
    [exists |-> TRUE, owned |-> FALSE, deleting |-> FALSE, finalizer |-> FALSE,
     generation |-> 1, pausedCondition |-> "Absent",
     conds |-> [c \in Conditions |-> "Absent"],
     ready |-> [present |-> FALSE, issues |-> {}], initialized |-> FALSE,
     statusReady |-> FALSE, version |-> 0, observed |-> 0]

Places == {"idle", "get", "pause", "finalizer", "prepare", "phase",
           "patchConditions", "patchObject", "patchStatus"}

TypeOK ==
    /\ hcp \in Object /\ cache \in Object /\ base \in Object /\ mem \in Object
    /\ queued \in BOOLEAN /\ paused \in BOOLEAN
    /\ waiting \in BOOLEAN /\ misread \in BOOLEAN
    /\ pc \in Places
    /\ step \in Step /\ done \subseteq Step
    /\ applied \in [Step -> Generation] /\ up \subseteq Step
    /\ pauses \in 0 .. MaxPauses /\ faults \in 0 .. MaxFaults

IsReady(o) == o.ready.present /\ o.ready.issues = {}

Init ==
    /\ hcp = NewObject /\ cache = NewObject /\ queued = TRUE
    /\ paused = FALSE
    /\ pc = "idle" /\ step = firstPhase /\ waiting = FALSE /\ done = {}
    /\ base = NewObject /\ mem = NewObject
    /\ applied = [n \in Step |-> 0] /\ up = {}
    /\ misread = FALSE /\ pauses = 0 /\ faults = 0

-----------------------------------------------------------------------------
Fault == faults < MaxFaults /\ faults' = faults + 1

Goto(place) == pc' = place

\* The reconcile returns; the queue may hold the object already.
Return(requeue) ==
    /\ Goto("idle")
    /\ queued' = (queued \/ requeue)
    /\ step' = firstPhase /\ waiting' = FALSE /\ done' = {}
    /\ base' = NewObject /\ mem' = NewObject

\* The worker takes the object from the queue and reads it from the cache.
BeginReconcile ==
    /\ pc = "idle" /\ queued
    /\ queued' = FALSE
    /\ base' = cache /\ mem' = cache
    /\ Goto("get")
    /\ misread' = (misread \/ cache.conds # hcp.conds \/ cache.ready # hcp.ready)
    /\ UNCHANGED <<hcp, cache, step, waiting, done, worldVars, paused, pauses, faults>>

\* A missing object ends the work, a missing owner Cluster postpones it.
GetOwnerCluster ==
    /\ pc = "get"
    /\ \/ ~mem.exists /\ Return(FALSE)
       \/ mem.exists /\ ~mem.owned /\ Return(TRUE)
       \/ mem.exists /\ mem.owned /\ Goto("pause")
          /\ UNCHANGED <<queued, step, waiting, done, base, mem>>
    /\ UNCHANGED <<hcp, cache, worldVars, paused, misread, pauses, faults>>

PausedStatus == IF paused THEN "True" ELSE "False"

\* The Paused condition is brought up to date at once; a change of it, like
\* a pause, ends the reconcile.
EnsurePausedCondition ==
    /\ pc = "pause"
    /\ IF mem.pausedCondition # PausedStatus
       THEN /\ hcp' = IF hcp.exists THEN [hcp EXCEPT !.pausedCondition = PausedStatus]
                                    ELSE hcp
            /\ Return(TRUE)
       ELSE /\ IF paused THEN Return(TRUE)
               ELSE /\ Goto(IF mem.deleting THEN "prepare" ELSE "finalizer")
                    /\ UNCHANGED <<queued, step, waiting, done, base, mem>>
            /\ UNCHANGED hcp
    /\ UNCHANGED <<cache, worldVars, paused, misread, pauses, faults>>

\* Mutant: the finalizer is not awaited.
EnsureFinalizerSkipped ==
    /\ pc = "finalizer"
    /\ Goto("prepare")
    /\ UNCHANGED <<hcp, queued, step, waiting, done, base, mem>>
    /\ UNCHANGED <<cache, worldVars, paused, misread, pauses, faults>>

\* Adding the finalizer ends the reconcile without a requeue: the event of
\* the write itself brings the object back.
EnsureFinalizer ==
    /\ pc = "finalizer"
    /\ IF mem.finalizer
       THEN /\ Goto("prepare")
            /\ UNCHANGED <<hcp, queued, step, waiting, done, base, mem>>
       ELSE /\ hcp' = IF hcp.exists /\ ~hcp.deleting THEN [hcp EXCEPT !.finalizer = TRUE]
                                                     ELSE hcp
            /\ Return(~hcp.exists \/ hcp.deleting)
    /\ UNCHANGED <<cache, worldVars, paused, misread, pauses, faults>>

\* Mutant: the finalizer is removed only from a Ready object.
reconcileDeleteWhenReady ==
    /\ pc = "prepare" /\ mem.deleting
    /\ mem' = [mem EXCEPT !.finalizer = ~IsReady(mem), !.observed = mem.generation]
    /\ Goto("patchConditions")
    /\ UNCHANGED <<objVars, step, waiting, done, base, worldVars, paused, misread,
                   pauses, faults>>

\* The object is being deleted: the garbage collector removes what it owns.
reconcileDelete ==
    /\ pc = "prepare" /\ mem.deleting
    /\ mem' = [mem EXCEPT !.finalizer = FALSE, !.observed = mem.generation]
    /\ Goto("patchConditions")
    /\ UNCHANGED <<objVars, step, waiting, done, base, worldVars, paused, misread,
                   pauses, faults>>

\* Mutant: a phase that is not ready has an unknown condition.
SetConditionUnknown(o, n, status) ==
    [o EXCEPT !.conds[condition(n)] = IF status = "False" THEN "Unknown" ELSE status]

\* The condition of step n's phase is set.
SetCondition(o, n, status) == [o EXCEPT !.conds[condition(n)] = status]

\* The reconcile leaves the phases; the deferred patch notes the generation.
LeavePhases(o) ==
    /\ mem' = [o EXCEPT !.observed = o.generation]
    /\ Goto("patchConditions")

\* The networks were parsed and the clients created, or not: broken networks
\* are reported in the last phase's condition, missing clients nowhere.
PreparePhases ==
    /\ pc = "prepare" /\ ~mem.deleting
    /\ \/ Goto("phase") /\ UNCHANGED <<mem, faults>>
       \/ Fault /\ LeavePhases(SetCondition(mem, workloadResources, "False"))
       \/ Fault /\ LeavePhases(mem)
    /\ UNCHANGED <<objVars, step, waiting, done, base, worldVars, paused, misread, pauses>>

\* The objects of a step are applied.
Apply(n) ==
    /\ applied' = [applied EXCEPT ![n] = mem.generation]
    /\ up' = IF n \in Immediate THEN up \cup {n} ELSE up

\* The step succeeded with o: the next one, or the end of the phases.
Succeed(n, o) ==
    /\ done' = done \cup {n}
    /\ IF n = workloadResources
       THEN LeavePhases(o) /\ UNCHANGED step
       ELSE mem' = o /\ step' = n + 1 /\ UNCHANGED pc

\* Mutant: the condition of a phase that is not ready is not set.
NotReadySilent(n) ==
    /\ LeavePhases(mem)
    /\ UNCHANGED <<step, done>>

\* The step is not ready: its condition says so and nothing after it runs.
NotReady(n) ==
    /\ LeavePhases(SetCondition(mem, n, "False"))
    /\ UNCHANGED <<step, done>>

\* A phase of one step; the admin kubeconfig also declares readiness.
ReconcilePhase(n) ==
    /\ pc = "phase" /\ step = n
    /\ n \notin {apiServer, controllerManager, scheduler}
    /\ Apply(n)
    /\ IF n \in up'
       THEN Succeed(n, IF n = adminKubeconfig
                       THEN [SetCondition(mem, n, "True") EXCEPT !.statusReady = TRUE]
                       ELSE SetCondition(mem, n, "True"))
       ELSE NotReady(n)
    /\ UNCHANGED <<objVars, waiting, base, paused, misread, pauses, faults>>

\* Mutant: an API server that is available is left as it is.
reconcileAPIServerDeploymentOnce ==
    /\ pc = "phase" /\ step = apiServer
    /\ IF apiServer \in up
       THEN Succeed(apiServer, mem) /\ UNCHANGED worldVars
       ELSE Apply(apiServer) /\ NotReady(apiServer)
    /\ UNCHANGED <<objVars, waiting, base, paused, misread, pauses, faults>>

\* Mutant: the version is reported as soon as the API server is available.
reconcileAPIServerDeploymentReports ==
    /\ pc = "phase" /\ step = apiServer
    /\ Apply(apiServer)
    /\ IF apiServer \in up
       THEN Succeed(apiServer, [mem EXCEPT !.version = mem.generation])
       ELSE NotReady(apiServer)
    /\ UNCHANGED <<objVars, waiting, base, paused, misread, pauses, faults>>

\* The API server comes first: nothing else is deployed before a replica of
\* it is available.
reconcileAPIServerDeployment ==
    /\ pc = "phase" /\ step = apiServer
    /\ Apply(apiServer)
    /\ IF apiServer \in up THEN Succeed(apiServer, mem) ELSE NotReady(apiServer)
    /\ UNCHANGED <<objVars, waiting, base, paused, misread, pauses, faults>>

\* A controller manager that is not ready does not keep the scheduler back.
reconcileControllerManagerDeployment ==
    /\ pc = "phase" /\ step = controllerManager
    /\ Apply(controllerManager)
    /\ waiting' = (controllerManager \notin up)
    /\ Goto("phase") /\ step' = scheduler
    /\ done' = IF waiting' THEN done ELSE done \cup {controllerManager}
    /\ UNCHANGED <<objVars, base, mem, paused, misread, pauses, faults>>

\* All three are ready: the version is reported and the control plane counts
\* as initialized.
DeploymentsReady(o) ==
    [SetCondition(o, scheduler, "True") EXCEPT !.version = o.generation,
                                               !.initialized = TRUE]

\* The scheduler ends the phase, for a waiting controller manager as well.
reconcileSchedulerDeployment ==
    /\ pc = "phase" /\ step = scheduler
    /\ Apply(scheduler)
    /\ IF scheduler \in up /\ ~waiting
       THEN Succeed(scheduler, DeploymentsReady(mem))
       ELSE NotReady(scheduler)
    /\ UNCHANGED <<objVars, waiting, base, paused, misread, pauses, faults>>

\* A step returns an error, before or after its objects were applied.
StepFails ==
    /\ pc = "phase"
    /\ Fault
    /\ applied' \in {applied, [applied EXCEPT ![step] = mem.generation]}
    /\ LeavePhases(SetCondition(mem, step, "False"))
    /\ UNCHANGED <<objVars, step, waiting, done, base, up, paused, misread, pauses>>

\* The workload cluster's Service is not pointed anywhere while the load
\* balancer has a host name and no IP: nothing is written.
LoadBalancerIPNotReady ==
    /\ pc = "phase" /\ step = kubernetesService
    /\ Fault
    /\ NotReady(kubernetesService)
    /\ UNCHANGED <<objVars, waiting, base, worldVars, paused, misread, pauses>>

-----------------------------------------------------------------------------
(* The deferred patch.                                                     *)

\* Mutant: only the deployments and what follows them are summarised.
SummaryConditionLate(o) ==
    IF \A c \in Applicable : o.conds[c] = "Absent" THEN o.ready
    ELSE [present |-> TRUE,
          issues |-> {c \in Applicable : c >= scheduler /\ o.conds[c] = "False"}]

\* The summary of the applicable conditions an object has.
SummaryCondition(o) ==
    IF \A c \in Applicable : o.conds[c] = "Absent" THEN o.ready
    ELSE [present |-> TRUE, issues |-> {c \in Applicable : o.conds[c] = "False"}]

\* The patch owns the summary and what it covers and overwrites them.  Any
\* other condition that was changed by both sides makes the write fail.
Conflict ==
    /\ mem.conds[workloadResources] # base.conds[workloadResources]
    /\ hcp.conds[workloadResources] # base.conds[workloadResources]
    /\ hcp.conds[workloadResources] # mem.conds[workloadResources]

\* The conditions are patched onto the stored ones where they changed.
patch ==
    /\ pc = "patchConditions"
    /\ LET ready == SummaryCondition(mem)
       IN /\ mem' = [mem EXCEPT !.ready = ready]
          /\ hcp' = IF ~hcp.exists \/ Conflict THEN hcp ELSE
                [hcp EXCEPT
                   !.conds = [c \in Conditions |-> IF mem.conds[c] # base.conds[c]
                                                   THEN mem.conds[c] ELSE @[c]],
                   !.ready = IF ready # base.ready THEN ready ELSE @]
    /\ Goto("patchObject")
    /\ UNCHANGED <<cache, queued, step, waiting, done, base, worldVars, paused,
                   misread, pauses, faults>>

\* The metadata: a removed finalizer lets a deleted object go.
PatchObject ==
    /\ pc = "patchObject"
    /\ hcp' = IF hcp.exists /\ base.finalizer /\ ~mem.finalizer
              THEN [hcp EXCEPT !.finalizer = FALSE, !.exists = ~hcp.deleting]
              ELSE hcp
    /\ Goto("patchStatus")
    /\ UNCHANGED <<cache, queued, step, waiting, done, base, mem, worldVars, paused,
                   misread, pauses, faults>>

\* The rest of the status; only a deletion is not requeued.
PatchStatus ==
    /\ pc = "patchStatus"
    /\ hcp' = IF ~hcp.exists THEN hcp ELSE
          [hcp EXCEPT
             !.initialized = IF mem.initialized # base.initialized THEN mem.initialized ELSE @,
             !.statusReady = IF mem.statusReady # base.statusReady THEN mem.statusReady ELSE @,
             !.version = IF mem.version # base.version THEN mem.version ELSE @,
             !.observed = IF mem.observed # base.observed THEN mem.observed ELSE @]
    /\ Return(~mem.deleting)
    /\ UNCHANGED <<cache, worldVars, paused, misread, pauses, faults>>

\* A call outside the phases fails, or the controller stops.  An error is
\* retried; a controller that starts again queues every object.
LoseReconcile ==
    /\ pc # "idle"
    /\ Fault
    /\ Return(TRUE)
    /\ UNCHANGED <<hcp, cache, worldVars, paused, misread, pauses>>

-----------------------------------------------------------------------------
(* The environment.                                                        *)

\* Mutant: only changes of the generation queue the object.
SyncCacheGenerationOnly ==
    /\ cache # hcp
    /\ cache' = hcp /\ queued' = (queued \/ cache.generation # hcp.generation)
    /\ UNCHANGED <<hcp, ctrlVars, worldVars, paused, misread, pauses, faults>>

\* The informer delivers the stored object; every event queues it.
SyncCache ==
    /\ cache # hcp
    /\ cache' = hcp /\ queued' = TRUE
    /\ UNCHANGED <<hcp, ctrlVars, worldVars, paused, misread, pauses, faults>>

\* The Cluster controller adopts the object.
SetOwnerReference ==
    /\ hcp.exists /\ ~hcp.deleting /\ ~hcp.owned
    /\ hcp' = [hcp EXCEPT !.owned = TRUE]
    /\ UNCHANGED <<cache, queued, ctrlVars, worldVars, paused, misread, pauses, faults>>

UpdateSpec ==
    /\ hcp.exists /\ ~hcp.deleting /\ hcp.generation <= MaxEdits
    /\ hcp' = [hcp EXCEPT !.generation = @ + 1]
    /\ UNCHANGED <<cache, queued, ctrlVars, worldVars, paused, misread, pauses, faults>>

\* The Cluster's paused field changes; its event queues the object.
PauseCluster ==
    /\ pauses < MaxPauses
    /\ pauses' = pauses + 1
    /\ paused' = ~paused /\ queued' = TRUE
    /\ UNCHANGED <<hcp, cache, ctrlVars, worldVars, misread, faults>>

\* Without a finalizer a deleted object is gone at once.
Delete ==
    /\ hcp.exists /\ ~hcp.deleting
    /\ hcp' = [hcp EXCEPT !.deleting = TRUE, !.exists = hcp.finalizer]
    /\ UNCHANGED <<cache, queued, ctrlVars, worldVars, paused, misread, pauses, faults>>

\* Other controllers make the objects of a step ready.
BecomeReady(n) ==
    /\ applied[n] # 0 /\ n \notin up
    /\ up' = up \cup {n}
    /\ UNCHANGED <<objVars, ctrlVars, applied, paused, misread, pauses, faults>>

\* The objects of a step stop being ready: pods or certificates are lost, an
\* old API server empties the kubernetes endpoints on shutdown.
Degrade(n) ==
    /\ n \in up
    /\ Fault
    /\ up' = up \ {n}
    /\ UNCHANGED <<objVars, ctrlVars, applied, paused, misread, pauses>>

-----------------------------------------------------------------------------
Controller ==
    \/ BeginReconcile \/ GetOwnerCluster \/ EnsurePausedCondition
    \/ EnsureFinalizer \/ reconcileDelete \/ PreparePhases
    \/ \E n \in Step : ReconcilePhase(n)
    \/ reconcileAPIServerDeployment \/ reconcileControllerManagerDeployment
    \/ reconcileSchedulerDeployment
    \/ patch \/ PatchObject \/ PatchStatus

Next ==
    \/ Controller \/ StepFails \/ LoadBalancerIPNotReady \/ LoseReconcile
    \/ SyncCache \/ SetOwnerReference \/ UpdateSpec \/ PauseCluster \/ Delete
    \/ \E n \in Step : BecomeReady(n) \/ Degrade(n)

Spec == Init /\ [][Next]_vars

\* Workers take queued objects, the informer catches up, the Cluster
\* controller adopts the object and applied objects become ready.
FairSpec ==
    /\ Spec
    /\ WF_vars(Controller) /\ WF_vars(SyncCache) /\ WF_vars(SetOwnerReference)
    /\ \A n \in Step : WF_vars(BecomeReady(n))

-----------------------------------------------------------------------------
(* Properties.                                                             *)

\* The Ready condition never contradicts the conditions it summarises: not
\* after errors, lost patches or phases that were skipped.  (A reconcile that
\* starts from outdated conditions may leave such a contradiction until the
\* next one, as the patch writes only what it changed.)
SummaryAgrees ==
    ~misread /\ IsReady(hcp) => \A c \in Applicable : hcp.conds[c] = "True"

\* The object turns Ready only by a reconcile that found every phase of the
\* management cluster ready, one after the other, in this very run.
BecomesReadyAfterFullRun ==
    [][~misread /\ ~IsReady(hcp) /\ IsReady(hcp') =>
         Step \ {workloadResources} \subseteq done]_vars

\* Across upgrades, errors, crashes and outdated reads, the controller manager
\* and the scheduler are never given a newer version than the API server.
NoVersionAhead ==
    /\ applied[controllerManager] <= applied[apiServer]
    /\ applied[scheduler] <= applied[apiServer]

\* The reported version was applied to all three deployments.
ReportedVersionApplied ==
    \A n \in apiServer .. scheduler : hcp.version <= applied[n]

\* Nothing is created for an object that is gone: what is owned by it would
\* never be seen by its controller again.
NoObjectsForDeleted == [][applied' # applied => hcp.exists]_vars

\* A deletion completes, whatever the reconcile in flight was doing, unless
\* the Cluster is paused.
DeletionCompletes == hcp.deleting ~> (~hcp.exists \/ paused)

Settled ==
    /\ hcp.generation = hcp.observed /\ hcp.generation = hcp.version
    /\ IsReady(hcp) /\ hcp.initialized /\ hcp.statusReady
    /\ \A c \in Conditions : hcp.conds[c] = "True"
    /\ \A n \in Step : n \in up /\ applied[n] = hcp.generation

\* An object that is neither deleted nor paused reaches its specification and
\* reports so: no event is lost between pause, finalizer and phases.
Converges == <>[](hcp.exists /\ ~hcp.deleting /\ ~paused) => <>[]Settled

-----------------------------------------------------------------------------
(* Inductive strengthenings, used by the proofs.                           *)

\* No step has objects newer than what the reconcile in flight read, or the
\* next one will read; between the deployments all is of one generation; a
\* version the reconcile changed is the one it read from the specification.
VersionInv ==
    /\ cache.generation <= hcp.generation
    /\ pc # "idle" => mem.generation <= cache.generation
    /\ pc \in {"idle", "get", "pause", "finalizer", "prepare"} => step = firstPhase
    /\ \A n \in Step :
         applied[n] <= (IF pc = "idle" THEN cache.generation ELSE mem.generation)
    /\ pc = "phase" /\ step \in {controllerManager, scheduler} =>
         applied[apiServer] = mem.generation
    /\ pc = "phase" /\ step = scheduler =>
         applied[controllerManager] = mem.generation
    /\ NoVersionAhead
    /\ \A n \in apiServer .. scheduler :
         /\ hcp.version <= applied[n] /\ cache.version <= applied[n]
         /\ base.version <= applied[n] /\ mem.version <= applied[n]
    /\ mem.version = base.version \/ mem.version = mem.generation

\* A copy that shows the finalizer and no deletion proves that the object is
\* still there, for only a reconcile that saw the deletion lets it go.
FinalizerInv ==
    /\ ~hcp.exists => hcp.deleting
    /\ cache.deleting => hcp.deleting
    /\ base.deleting => cache.deleting
    /\ mem.deleting = base.deleting
    /\ mem.finalizer => base.finalizer
    /\ base.finalizer /\ ~mem.finalizer => base.deleting
    /\ cache.finalizer /\ ~cache.deleting => hcp.exists /\ hcp.finalizer
    /\ base.finalizer /\ ~base.deleting => hcp.exists /\ hcp.finalizer
    /\ pc = "prepare" /\ ~mem.deleting => base.finalizer
    /\ pc = "phase" => ~mem.deleting /\ base.finalizer

\* All applicable conditions of an object are true.
AllTrue(o) == \A c \in Applicable : o.conds[c] = "True"

\* Conditions as a reconcile leaves them: one is false, or none was ever set,
\* or all are true.  While the phases run only a beginning of them may be true.
Coherent(o) ==
    \/ \E c \in Applicable : o.conds[c] = "False"
    \/ \A c \in Applicable : o.conds[c] = "Absent"
    \/ AllTrue(o)

\* Without outdated reads the reconcile in flight knows the stored conditions,
\* has found every step before the current one ready, and leaves the phases
\* with coherent conditions.
SummaryInv ==
    ~misread =>
      /\ Coherent(hcp)
      /\ IsReady(hcp) <=> AllTrue(hcp)
      /\ pc \notin {"idle", "patchObject", "patchStatus"} =>
           /\ base.conds = hcp.conds /\ base.ready = hcp.ready /\ mem.ready = hcp.ready
           /\ \A c \in Applicable : mem.conds[c] = "Absent" => hcp.conds[c] = "Absent"
      /\ pc \in {"get", "pause", "finalizer", "prepare"} => mem.conds = hcp.conds
      /\ pc = "phase" =>
           /\ \A c \in Applicable : c < step => mem.conds[c] = "True"
           /\ \A n \in Step : n < step =>
                n \in done \/ (n = controllerManager /\ step = scheduler /\ waiting)
      /\ pc = "patchConditions" =>
           /\ Coherent(mem)
           /\ AllTrue(mem) => AllTrue(hcp) \/ Step \ {workloadResources} \subseteq done

=============================================================================
