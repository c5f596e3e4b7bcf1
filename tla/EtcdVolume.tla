----------------------------- MODULE EtcdVolume -----------------------------
(***************************************************************************)
(* The data volumes of a hosted etcd cluster: how the etcd reconciler      *)
(* (pkg/reconcilers/etcd_cluster/reconciler.go) measures their usage,      *)
(* decides their size, grows the claims, re-creates the StatefulSet and    *)
(* disarms NOSPACE alarms, while users edit the HostedControlPlane through *)
(* the admission webhook, members run and fill up, and calls fail.         *)
(*                                                                         *)
(* One reconcile is a sequence of steps (pc).  Everything outside the      *)
(* controller may happen between any two of them.  The controller works on *)
(* a copy (mem) of the object it read from the informer cache (base); only *)
(* the deferred patch at the end writes the status, and it writes only the *)
(* fields that differ from what was read.                                  *)
(*                                                                         *)
(* Simplifications: sizes and usage are counted in one unit, small enough  *)
(* for the constants of the code to be whole numbers of it and for the     *)
(* rounding of the quota not to matter; the database file is the only      *)
(* content of a volume; a claim's request is its capacity; the orphaning   *)
(* delete of the StatefulSet takes effect at once; labels, network         *)
(* policies and disruption budgets are left out.                           *)
(***************************************************************************)
EXTENDS Integers

CONSTANTS
    Member,      \* the members of the etcd cluster, one pod and claim each
    Increment,   \* etcdServerStorageIncrement (1Gi)
    Buffer,      \* etcdServerStorageBuffer (500Mi)
    FixedSizes,  \* the sizes users ask for when autoGrow is off
    UsedLevels,  \* bound: the amounts of data a member may come to store
    MaxFaults,   \* bound: failing calls, crashes and pod losses
    MaxEdits     \* bound: accepted edits of the specification

ASSUME ConstantsAssumption ==
    /\ Increment \in Nat \ {0}
    /\ Buffer \in Nat \ {0}
    /\ FixedSizes \subseteq Nat \ {0}
    /\ UsedLevels \subseteq Nat /\ 0 \in UsedLevels
    /\ MaxFaults \in Nat
    /\ MaxEdits \in Nat

VARIABLES
    hcp,         \* the HostedControlPlane stored in the API server
    cache,       \* the informer's copy of it, possibly outdated
    pc,          \* the next step of the reconcile in flight
    base,        \* the object as this reconcile read it (patch helper)
    mem,         \* the copy this reconcile works on
    pending,     \* members whose listed claim has not been examined yet
    pvc,         \* storage each claim requests; 0: there is no claim
    sts,         \* volume size the StatefulSet was applied with; 0: absent
    available,   \* StatefulSet status: AvailableReplicas >= 1
    pod,         \* volume size each running member was started with; 0: down
    used,        \* bytes stored on each member's volume
    alarm,       \* members with a NOSPACE alarm
    faults,      \* failures so far
    edits        \* accepted edits so far

hcpVars   == <<hcp, cache, edits>>
ctrlVars  == <<pc, base, mem, pending>>
kubeVars  == <<pvc, sts, available, pod>>
etcdVars  == <<used, alarm>>
vars      == <<hcpVars, ctrlVars, kubeVars, etcdVars, faults>>

Steps == {"services", "usage", "size", "pvc", "sts", "maintenance", "health",
          "patch"}

\* spec.etcd.autoGrow, spec.etcd.volumeSize (0: unset),
\* status.etcdVolumeSize and status.etcdVolumeUsage.
Object == [autoGrow : BOOLEAN, volumeSize : Nat, size : Nat, usage : Nat]

NoObject == [autoGrow |-> TRUE, volumeSize |-> 0, size |-> 0, usage |-> 0]

TypeOK ==
    /\ hcp \in Object /\ cache \in Object /\ base \in Object /\ mem \in Object
    /\ pc \in Steps \cup {"idle"}
    /\ pending \subseteq Member
    /\ pvc \in [Member -> Nat]
    /\ sts \in Nat
    /\ available \in BOOLEAN
    /\ pod \in [Member -> Nat]
    /\ used \in [Member -> Nat]
    /\ alarm \subseteq Member
    /\ faults \in 0 .. MaxFaults
    /\ edits \in 0 .. MaxEdits

-----------------------------------------------------------------------------
(* The decisions of the code.                                              *)

\* quota-backend-bytes: 90% of the volume size, in integer arithmetic.
storageQuota(size) == (size * 90) \div 100

\* Mutant: the usage itself is compared with the buffer.
getETCDVolumeSizeNoSub(o) ==
    IF o.autoGrow
    THEN IF o.usage >= Buffer THEN o.size + Increment ELSE o.size
    ELSE o.volumeSize

\* The size the next reconcile wants, from what it knows.
getETCDVolumeSize(o) ==
    IF o.autoGrow
    THEN IF o.size - o.usage < Buffer THEN o.size + Increment ELSE o.size
    ELSE o.volumeSize

\* Admission of a new object: exactly one of autoGrow and volumeSize.
ValidateCreate(autoGrow, volumeSize) == autoGrow <=> volumeSize = 0

\* Admission of an edit, against the stored object.
ValidateUpdate(old, autoGrow, volumeSize) ==
    /\ ValidateCreate(autoGrow, volumeSize)
    /\ ~autoGrow =>
         /\ old.autoGrow => volumeSize >= old.size
         /\ volumeSize >= old.volumeSize

\* Room in the volume, as etcdIsHealthy computes it.
HasHeadroom(o) == o.size - o.usage >= Buffer

-----------------------------------------------------------------------------
(* Initial states: the object has just been created; nothing else exists.  *)

Init ==
    /\ \E autoGrow \in BOOLEAN, volumeSize \in FixedSizes \cup {0} :
          /\ ValidateCreate(autoGrow, volumeSize)
          /\ hcp = [NoObject EXCEPT !.autoGrow = autoGrow,
                                    !.volumeSize = volumeSize]
    /\ cache = hcp
    /\ pc = "idle" /\ base = NoObject /\ mem = NoObject /\ pending = {}
    /\ pvc = [m \in Member |-> 0]
    /\ sts = 0
    /\ available = FALSE
    /\ pod = [m \in Member |-> 0]
    /\ used = [m \in Member |-> 0]
    /\ alarm = {}
    /\ faults = 0 /\ edits = 0

-----------------------------------------------------------------------------
(* The reconcile.                                                          *)

Goto(step) == pc' = step

Fault == faults < MaxFaults /\ faults' = faults + 1

\* A step that returns without changing anything outside the controller.
Quiet == UNCHANGED <<hcpVars, kubeVars, etcdVars>>

\* Reconcile reads the object through the manager's cached client.
BeginReconcile ==
    /\ pc = "idle"
    /\ mem' = cache /\ base' = cache
    /\ Goto("services")
    /\ UNCHANGED <<pending, faults>> /\ Quiet

\* Both Services were applied and are ready.
ReconcileServices ==
    /\ pc = "services"
    /\ Goto("usage")
    /\ UNCHANGED <<base, mem, pending, faults>> /\ Quiet

\* A step returns early with an error or "not ready" and without effect: a
\* Service, the pod list, a claim, the etcd client, the StatefulSet, a
\* member's status or the alarm list.  The deferred patch still runs.
StepFails ==
    /\ pc \in Steps \ {"size", "patch"}
    /\ Fault
    /\ Goto("patch")
    /\ pending' = {}
    /\ UNCHANGED <<base, mem>> /\ Quiet

Scheduled == {m \in Member : pod[m] # 0}

\* The largest usage among the pods that have statistics; zero for the rest.
GetMaxEtcdVolumeUsage(members) ==
    LET usages == {used[m] : m \in members} \cup {0}
    IN {u \in usages : \A v \in usages : v <= u}

\* Mutant: "no statistics" is recorded as -1.
reconcileETCDSpaceUsageSentinel ==
    /\ pc = "usage"
    /\ Fault
    /\ Goto("size")
    /\ mem' = [mem EXCEPT !.usage = -1]
    /\ UNCHANGED <<base, pending>> /\ Quiet

\* The usage of the scheduled pods: the statistics of some nodes cannot be
\* read (failed), some pods have no volume statistics yet and count as zero
\* without an error (missing).
reconcileETCDSpaceUsage ==
    /\ pc = "usage"
    /\ \E failed \in SUBSET Scheduled : \E missing \in SUBSET (Scheduled \ failed) :
         \E fsUsage \in GetMaxEtcdVolumeUsage(Scheduled \ (failed \cup missing)) :
            /\ IF failed \cup missing = {} THEN UNCHANGED faults ELSE Fault
            /\ IF failed # {} /\ fsUsage = 0
               THEN Goto("patch") /\ UNCHANGED mem
               ELSE /\ Goto("size")
                    /\ mem' = [mem EXCEPT !.usage =
                         IF failed # {} /\ @ > fsUsage THEN @ ELSE fsUsage]
    /\ UNCHANGED <<base, pending>> /\ Quiet

\* The size is decided, then the claims are listed.
DecideSize ==
    /\ pc = "size"
    /\ mem' = [mem EXCEPT !.size = getETCDVolumeSize(mem)]
    /\ \/ Goto("pvc") /\ pending' = {m \in Member : pvc[m] # 0}
          /\ UNCHANGED faults
       \/ Fault /\ Goto("patch") /\ UNCHANGED pending
    /\ UNCHANGED base /\ Quiet

\* One iteration of reconcilePVCSizes: a claim that asks for less grows.
reconcilePVCSize(m) ==
    /\ pc = "pvc" /\ m \in pending
    /\ pvc' = [pvc EXCEPT ![m] = IF @ < mem.size THEN mem.size ELSE @]
    /\ pending' = pending \ {m}
    /\ UNCHANGED <<pc, base, mem, sts, available, pod, faults>>
    /\ UNCHANGED <<hcpVars, etcdVars>>

\* Mutant: the StatefulSet is applied before all claims were examined.
CreateEtcdClientEarly ==
    /\ pc = "pvc"
    /\ Goto("sts") /\ pending' = {}
    /\ UNCHANGED <<base, mem, faults>> /\ Quiet

\* All claims are examined and the etcd client could be created.
CreateEtcdClient ==
    /\ pc = "pvc" /\ pending = {}
    /\ Goto("sts")
    /\ UNCHANGED <<base, mem, pending, faults>> /\ Quiet

\* Mutant: a changed claim template is ignored while replicas are available.
reconcileStatefulSetIgnoring ==
    /\ pc = "sts"
    /\ \/ /\ sts = 0
          /\ sts' = mem.size /\ available' = FALSE /\ Goto("patch")
       \/ /\ sts # 0
          /\ Goto(IF available THEN "maintenance" ELSE "patch")
          /\ UNCHANGED <<sts, available>>
    /\ UNCHANGED <<base, mem, pending, pvc, pod, faults>>
    /\ UNCHANGED <<hcpVars, etcdVars>>

\* The StatefulSet is applied.  A new one has no available replica yet.  A
\* changed volume claim template is immutable: the set is deleted, its pods
\* and claims are orphaned, and a later reconcile creates it again.
reconcileStatefulSet ==
    /\ pc = "sts"
    /\ \/ /\ sts = 0
          /\ sts' = mem.size /\ available' = FALSE /\ Goto("patch")
       \/ /\ sts # 0 /\ sts # mem.size
          /\ sts' = 0 /\ available' = FALSE /\ Goto("patch")
       \/ /\ sts # 0 /\ sts = mem.size
          /\ Goto(IF available THEN "maintenance" ELSE "patch")
          /\ UNCHANGED <<sts, available>>
    /\ UNCHANGED <<base, mem, pending, pvc, pod, faults>>
    /\ UNCHANGED <<hcpVars, etcdVars>>

\* Every scheduled member answered; defragmentation may have freed space.
reconcileETCDMaintenance ==
    /\ pc = "maintenance"
    /\ Goto("health")
    /\ UNCHANGED <<base, mem, pending, faults>> /\ Quiet

\* With headroom the NOSPACE alarms are disarmed one by one; a failing call
\* leaves the remaining ones armed.  Without headroom nothing is changed.
etcdIsHealthy ==
    /\ pc = "health"
    /\ Goto("patch")
    /\ IF HasHeadroom(mem)
       THEN \/ alarm' = {} /\ UNCHANGED faults
            \/ \E failing \in SUBSET alarm \ {{}} : Fault /\ alarm' = failing
       ELSE UNCHANGED <<alarm, faults>>
    /\ UNCHANGED <<base, mem, pending, used, hcpVars, kubeVars>>

\* The deferred patch writes the status fields this reconcile changed.
Patched(o) ==
    [o EXCEPT !.size = IF mem.size # base.size THEN mem.size ELSE @,
              !.usage = IF mem.usage # base.usage THEN mem.usage ELSE @]

EndReconcile == pc' = "idle" /\ mem' = NoObject /\ base' = NoObject
                /\ pending' = {}

patch ==
    /\ pc = "patch"
    /\ hcp' = Patched(hcp)
    /\ EndReconcile
    /\ UNCHANGED <<cache, edits, faults, kubeVars, etcdVars>>

\* The patch fails, or the controller stops: what mem holds is lost, what
\* was done to claims, StatefulSet and alarms is not.
LoseReconcile ==
    /\ pc # "idle"
    /\ Fault
    /\ EndReconcile
    /\ Quiet

-----------------------------------------------------------------------------
(* The environment.                                                        *)

\* An edit of the specification passes the webhook.
UpdateSpec ==
    /\ edits < MaxEdits
    /\ edits' = edits + 1
    /\ \E autoGrow \in BOOLEAN, volumeSize \in FixedSizes \cup {0} :
         /\ ValidateUpdate(hcp, autoGrow, volumeSize)
         /\ hcp' = [hcp EXCEPT !.autoGrow = autoGrow,
                               !.volumeSize = volumeSize]
    /\ UNCHANGED <<cache, ctrlVars, kubeVars, etcdVars, faults>>

SyncCache ==
    /\ cache # hcp
    /\ cache' = hcp
    /\ UNCHANGED <<hcp, edits, ctrlVars, kubeVars, etcdVars, faults>>

\* The StatefulSet controller starts a member, or replaces one that runs an
\* older revision; a member without a claim gets one from the template.
StartMember(m) ==
    /\ sts # 0 /\ pod[m] # sts
    /\ pod' = [pod EXCEPT ![m] = sts]
    /\ pvc' = [pvc EXCEPT ![m] = IF @ = 0 THEN sts ELSE @]
    /\ UNCHANGED <<sts, available, hcpVars, ctrlVars, etcdVars, faults>>

StopMember(m) ==
    /\ pod[m] # 0
    /\ Fault
    /\ pod' = [pod EXCEPT ![m] = 0]
    /\ UNCHANGED <<pvc, sts, available, hcpVars, ctrlVars, etcdVars>>

SyncStatefulSetStatus ==
    /\ sts # 0
    /\ available # (\E m \in Member : pod[m] # 0)
    /\ available' = ~available
    /\ UNCHANGED <<pvc, sts, pod, hcpVars, ctrlVars, etcdVars, faults>>

\* A write that fits the member's quota; any alarm makes etcd refuse writes.
Write(m) ==
    /\ pod[m] # 0 /\ alarm = {}
    /\ \E u \in UsedLevels :
         /\ used[m] < u /\ u <= storageQuota(pod[m])
         /\ used' = [used EXCEPT ![m] = u]
    /\ UNCHANGED <<alarm, faults, hcpVars, ctrlVars, kubeVars>>

\* No further write fits the quota: the next one raises the member's alarm.
RaiseAlarm(m) ==
    /\ pod[m] # 0 /\ m \notin alarm
    /\ \E u \in UsedLevels : used[m] < u
    /\ \A u \in UsedLevels : used[m] < u => u > storageQuota(pod[m])
    /\ alarm' = alarm \cup {m}
    /\ UNCHANGED <<used, faults, hcpVars, ctrlVars, kubeVars>>

\* Compaction and defragmentation give space back.
Compact(m) ==
    /\ \E u \in UsedLevels :
         /\ u < used[m]
         /\ used' = [used EXCEPT ![m] = u]
    /\ UNCHANGED <<alarm, faults, hcpVars, ctrlVars, kubeVars>>

-----------------------------------------------------------------------------
Controller ==
    \/ BeginReconcile \/ ReconcileServices \/ reconcileETCDSpaceUsage
    \/ DecideSize \/ CreateEtcdClient \/ reconcileStatefulSet
    \/ reconcileETCDMaintenance \/ etcdIsHealthy \/ patch
    \/ \E m \in Member : reconcilePVCSize(m)

Failure == StepFails \/ LoseReconcile \/ \E m \in Member : StopMember(m)

Environment ==
    \/ UpdateSpec \/ SyncCache \/ SyncStatefulSetStatus
    \/ \E m \in Member : StartMember(m) \/ Write(m) \/ RaiseAlarm(m) \/ Compact(m)

Next == Controller \/ Failure \/ Environment

Spec == Init /\ [][Next]_vars

\* The workqueue re-runs a reconcile after every return (RequeueAfter or the
\* error backoff), informers and the StatefulSet controller keep working.
Fairness ==
    /\ WF_vars(Controller)
    /\ WF_vars(SyncCache)
    /\ WF_vars(SyncStatefulSetStatus)
    /\ \A m \in Member : WF_vars(StartMember(m))

FairSpec == Spec /\ Fairness

-----------------------------------------------------------------------------
(* Properties.                                                             *)

\* What a member stores never exceeds the storage its claim requests: the
\* quota a member is started with always fits a claim that was grown first,
\* however growth, re-creation of the StatefulSet, failures and edits mix.
DataFitsClaim == \A m \in Member : used[m] <= pvc[m]

\* A size is justified by what a member may store (at most one increment
\* past the last size that lacked the buffer) or by what a user asked for.
Justified(s) ==
    \/ \E u \in UsedLevels : s < u + Buffer + Increment
    \/ \E f \in FixedSizes : s <= f

\* Auto-growth does not run away: lost patches, outdated reads and repeated
\* reconciles never request more than the usage or a user justifies.
NoRunawayGrowth ==
    /\ Justified(hcp.size)
    /\ \A m \in Member : Justified(pvc[m])

\* An alarm is disarmed only once the size it was judged by has reached the
\* StatefulSet and every existing claim.
DisarmOnlyAfterResize ==
    [][alarm' \subseteq alarm /\ alarm' # alarm =>
         /\ sts = mem.size
         /\ \A m \in Member : pvc[m] # 0 => pvc[m] >= mem.size]_vars

Writable(m) == m \notin alarm /\ pod[m] # 0 /\ used[m] < storageQuota(pod[m])

\* With autoGrow a member that ran out of space can write again eventually,
\* unless the user fixes the size instead.
FullMemberRecovers ==
    \A m \in Member :
        (hcp.autoGrow /\ m \in alarm) ~> (Writable(m) \/ ~hcp.autoGrow)

-----------------------------------------------------------------------------
(* Inductive strengthenings, used by the proofs.                           *)

\* Every claim that exists is at least as large as size.
ClaimsReach(size) == \A m \in Member : pvc[m] # 0 => pvc[m] >= size

\* A claim covers the StatefulSet's template, its member's revision and its
\* data; claims already examined cover the size about to be applied as long
\* as no StatefulSet exists that could still create smaller ones.
VolumeInv ==
    /\ \A m \in Member : pod[m] <= pvc[m] /\ used[m] <= pvc[m]
    /\ sts # 0 => ClaimsReach(sts)
    /\ pc \in {"pvc", "sts"} /\ sts = 0 =>
         \A m \in Member \ pending : pvc[m] # 0 => pvc[m] >= mem.size
    /\ pc = "sts" => pending = {}
    /\ \A m \in pending : pvc[m] # 0
    /\ pc \in {"maintenance", "health"} => sts # 0 /\ sts = mem.size

\* A copy of the object whose size and usage are justified.
Sound(o) ==
    /\ o.volumeSize \in FixedSizes \cup {0}
    /\ Justified(o.size)
    /\ \E u \in UsedLevels : o.usage <= u

GrowthInv ==
    /\ Sound(hcp) /\ Sound(cache) /\ Sound(base) /\ Sound(mem)
    /\ Justified(sts)
    /\ \A m \in Member : used[m] \in UsedLevels /\ Justified(pvc[m])

=============================================================================
