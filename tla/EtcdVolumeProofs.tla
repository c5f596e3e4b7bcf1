-------------------------- MODULE EtcdVolumeProofs --------------------------
(***************************************************************************)
(* Theorems about EtcdVolume for every set of members, every buffer and    *)
(* increment, every set of sizes and any number of faults and edits.       *)
(*                                                                         *)
(* Two inductive invariants carry the argument.  VolumeInv orders the      *)
(* three things that must grow together: a claim is never smaller than     *)
(* the StatefulSet's template, than the size its member was started with,  *)
(* or than the data stored on it.  GrowthInv tracks every copy of the      *)
(* object (stored, cached, read, worked on) through outdated reads and     *)
(* lost patches.                                                           *)
(***************************************************************************)
EXTENDS EtcdVolume, TLAPS

-----------------------------------------------------------------------------
(* Type correctness.                                                       *)

\* The quota handed to etcd never exceeds the volume size it is computed
\* from (buildEtcdArgs).
LEMMA QuotaFits == \A s \in Nat : storageQuota(s) \in Nat /\ storageQuota(s) <= s
  BY DEF storageQuota

\* The size decided by getETCDVolumeSize is a size.
LEMMA SizeType == \A o \in Object : getETCDVolumeSize(o) \in Nat
  BY ConstantsAssumption DEF Object, getETCDVolumeSize

\* Every state the reconciler, the users and the members reach is well
\* typed: in particular no size or usage becomes negative.
THEOREM TypeCorrect == Spec => []TypeOK
<1>1. Init => TypeOK
  <2> SUFFICES ASSUME Init PROVE TypeOK
    OBVIOUS
  <2>1. NoObject \in Object
    BY DEF NoObject, Object
  <2>2. hcp \in Object
    BY ConstantsAssumption DEF Init, NoObject, Object
  <2>3. faults \in 0 .. MaxFaults /\ edits \in 0 .. MaxEdits
    BY ConstantsAssumption DEF Init
  <2>4. pvc \in [Member -> Nat] /\ pod \in [Member -> Nat] /\ used \in [Member -> Nat]
        /\ sts \in Nat
    BY DEF Init
  <2> QED
    BY <2>1, <2>2, <2>3, <2>4 DEF Init, TypeOK
<1>2. TypeOK /\ [Next]_vars => TypeOK'
  <2> SUFFICES ASSUME TypeOK, [Next]_vars PROVE TypeOK'
    OBVIOUS
  <2> USE ConstantsAssumption DEF TypeOK, Goto, Quiet, Fault, EndReconcile,
        hcpVars, ctrlVars, kubeVars, etcdVars, Steps
  <2>0. NoObject \in Object
    BY DEF NoObject, Object
  <2>1. CASE BeginReconcile
    BY <2>1 DEF BeginReconcile
  <2>2. CASE ReconcileServices
    BY <2>2 DEF ReconcileServices
  <2>3. CASE reconcileETCDSpaceUsage
    <3>1. PICK failed \in SUBSET Scheduled :
            \E missing \in SUBSET (Scheduled \ failed) :
              \E fsUsage \in GetMaxEtcdVolumeUsage(Scheduled \ (failed \cup missing)) :
                 /\ IF failed \cup missing = {} THEN UNCHANGED faults ELSE Fault
                 /\ IF failed # {} /\ fsUsage = 0
                    THEN Goto("patch") /\ UNCHANGED mem
                    ELSE /\ Goto("size")
                         /\ mem' = [mem EXCEPT !.usage =
                              IF failed # {} /\ @ > fsUsage THEN @ ELSE fsUsage]
      BY <2>3 DEF reconcileETCDSpaceUsage
    <3>2. mem' \in Object /\ faults' \in 0 .. MaxFaults /\ pc' \in Steps \cup {"idle"}
      BY <3>1 DEF Object, Scheduled, GetMaxEtcdVolumeUsage
    <3> QED BY <2>3, <3>2 DEF reconcileETCDSpaceUsage
  <2>4. CASE DecideSize
    <3>1. mem' \in Object
      BY <2>4, SizeType DEF DecideSize, Object
    <3> QED BY <2>4, <3>1 DEF DecideSize
  <2>5. CASE CreateEtcdClient
    BY <2>5 DEF CreateEtcdClient
  <2>6. CASE reconcileStatefulSet
    BY <2>6 DEF reconcileStatefulSet, Object
  <2>7. CASE reconcileETCDMaintenance
    BY <2>7 DEF reconcileETCDMaintenance
  <2>8. CASE etcdIsHealthy
    BY <2>8 DEF etcdIsHealthy
  <2>9. CASE patch
    <3>1. hcp' \in Object
      BY <2>9 DEF patch, Patched, Object
    <3> QED BY <2>0, <2>9, <3>1 DEF patch
  <2>10. ASSUME NEW m \in Member, reconcilePVCSize(m) PROVE TypeOK'
    BY <2>10 DEF reconcilePVCSize, Object
  <2>11. CASE StepFails
    BY <2>11 DEF StepFails
  <2>12. CASE LoseReconcile
    BY <2>12, <2>0 DEF LoseReconcile
  <2>13. ASSUME NEW m \in Member, StopMember(m) PROVE TypeOK'
    BY <2>13 DEF StopMember
  <2>14. CASE UpdateSpec
    <3>1. hcp' \in Object
      <4>1. PICK autoGrow \in BOOLEAN, volumeSize \in FixedSizes \cup {0} :
              hcp' = [hcp EXCEPT !.autoGrow = autoGrow, !.volumeSize = volumeSize]
        BY <2>14 DEF UpdateSpec
      <4> QED BY <4>1 DEF Object
    <3> QED BY <2>14, <3>1 DEF UpdateSpec
  <2>15. CASE SyncCache
    BY <2>15 DEF SyncCache
  <2>16. CASE SyncStatefulSetStatus
    BY <2>16 DEF SyncStatefulSetStatus
  <2>17. ASSUME NEW m \in Member, StartMember(m) PROVE TypeOK'
    BY <2>17 DEF StartMember
  <2>18. ASSUME NEW m \in Member, Write(m) \/ RaiseAlarm(m) \/ Compact(m)
         PROVE TypeOK'
    BY <2>18 DEF Write, RaiseAlarm, Compact
  <2>19. CASE UNCHANGED vars
    BY <2>19 DEF vars
  <2> QED
    BY <2>1, <2>2, <2>3, <2>4, <2>5, <2>6, <2>7, <2>8, <2>9, <2>10, <2>11,
       <2>12, <2>13, <2>14, <2>15, <2>16, <2>17, <2>18, <2>19
    DEF Next, Controller, Failure, Environment
<1> QED
  BY <1>1, <1>2, PTL DEF Spec

-----------------------------------------------------------------------------
(* Volumes.                                                                *)

\* The steps that touch neither claims, pods, data nor the StatefulSet and
\* do not enter a step of the reconcile that VolumeInv speaks about.
LEMMA QuietStep ==
  ASSUME VolumeInv, UNCHANGED <<pvc, sts, pod, used>>, pending' \subseteq pending,
         pc' \in {"idle", "services", "usage", "size", "patch"}
  PROVE  VolumeInv'
  BY DEF VolumeInv, ClaimsReach

\* VolumeInv is preserved by every step of the controller, of the
\* environment and by every failure.
LEMMA VolumeStep == TypeOK /\ VolumeInv /\ [Next]_vars => VolumeInv'
<1> SUFFICES ASSUME TypeOK, VolumeInv, [Next]_vars PROVE VolumeInv'
  OBVIOUS
<1> USE DEF Goto, Quiet, hcpVars, ctrlVars, kubeVars, etcdVars
<1>1. CASE BeginReconcile
  BY <1>1, QuietStep DEF BeginReconcile
<1>2. CASE ReconcileServices
  BY <1>2, QuietStep DEF ReconcileServices
<1>3. CASE reconcileETCDSpaceUsage
  <2>1. pc' \in {"size", "patch"}
    BY <1>3 DEF reconcileETCDSpaceUsage
  <2> QED BY <1>3, <2>1, QuietStep DEF reconcileETCDSpaceUsage
<1>4. CASE DecideSize
  <2>1. CASE pc' = "patch"
    BY <1>4, <2>1, QuietStep DEF DecideSize
  <2>2. CASE pc' = "pvc" /\ pending' = {m \in Member : pvc[m] # 0}
    BY <1>4, <2>2 DEF DecideSize, VolumeInv, ClaimsReach
  <2> QED BY <1>4, <2>1, <2>2 DEF DecideSize
<1>5. CASE CreateEtcdClient
  BY <1>5 DEF CreateEtcdClient, VolumeInv, ClaimsReach
<1>6. CASE reconcileStatefulSet
  BY <1>6 DEF reconcileStatefulSet, VolumeInv, ClaimsReach, TypeOK
<1>7. CASE reconcileETCDMaintenance
  BY <1>7 DEF reconcileETCDMaintenance, VolumeInv, ClaimsReach
<1>8. CASE etcdIsHealthy
  BY <1>8, QuietStep DEF etcdIsHealthy
<1>9. CASE patch
  BY <1>9, QuietStep DEF patch, EndReconcile
<1>10. ASSUME NEW m \in Member, reconcilePVCSize(m) PROVE VolumeInv'
  <2>1. mem.size \in Nat
    BY DEF TypeOK, Object
  <2>2. \A n \in Member : pvc'[n] >= pvc[n] /\ pvc'[n] \in Nat
    BY <1>10, <2>1 DEF reconcilePVCSize, TypeOK
  <2>3. \A n \in Member : pvc[n] = 0 => pvc'[n] = 0
    BY <1>10 DEF reconcilePVCSize, VolumeInv, TypeOK
  <2>4. pvc'[m] >= mem.size
    BY <1>10, <2>1 DEF reconcilePVCSize, TypeOK
  <2>5. \A n \in pending' : pvc'[n] # 0
    BY <1>10, <2>2 DEF reconcilePVCSize, VolumeInv, TypeOK
  <2>6. \A n \in Member : pod[n] <= pvc'[n] /\ used[n] <= pvc'[n]
    BY <2>2 DEF VolumeInv, TypeOK
  <2>7. sts = 0 => \A n \in Member \ pending' : pvc'[n] # 0 => pvc'[n] >= mem.size
    BY <1>10, <2>1, <2>2, <2>3, <2>4 DEF reconcilePVCSize, VolumeInv, TypeOK
  <2>8. sts # 0 => ClaimsReach(sts)'
    BY <1>10, <2>2, <2>3 DEF reconcilePVCSize, VolumeInv, ClaimsReach, TypeOK
  <2> QED BY <1>10, <2>5, <2>6, <2>7, <2>8 DEF reconcilePVCSize, VolumeInv
<1>11. CASE StepFails
  BY <1>11, QuietStep DEF StepFails
<1>12. CASE LoseReconcile
  BY <1>12, QuietStep DEF LoseReconcile, EndReconcile
<1>13. ASSUME NEW m \in Member, StopMember(m) PROVE VolumeInv'
  BY <1>13 DEF StopMember, VolumeInv, ClaimsReach, TypeOK
<1>14. CASE UpdateSpec
  BY <1>14 DEF UpdateSpec, VolumeInv, ClaimsReach
<1>15. CASE SyncCache
  BY <1>15 DEF SyncCache, VolumeInv, ClaimsReach
<1>16. CASE SyncStatefulSetStatus
  BY <1>16 DEF SyncStatefulSetStatus, VolumeInv, ClaimsReach
<1>17. ASSUME NEW m \in Member, StartMember(m) PROVE VolumeInv'
  BY <1>17 DEF StartMember, VolumeInv, ClaimsReach, TypeOK
<1>18. ASSUME NEW m \in Member, Write(m) PROVE VolumeInv'
  <2>1. PICK u \in UsedLevels : u <= storageQuota(pod[m])
                                /\ used' = [used EXCEPT ![m] = u]
    BY <1>18 DEF Write
  <2>2. u <= pvc[m]
    BY <2>1, QuotaFits, ConstantsAssumption DEF VolumeInv, TypeOK
  <2> QED BY <1>18, <2>1, <2>2 DEF Write, VolumeInv, ClaimsReach, TypeOK
<1>19. ASSUME NEW m \in Member, Compact(m) PROVE VolumeInv'
  <2>1. PICK u \in UsedLevels : u < used[m] /\ used' = [used EXCEPT ![m] = u]
    BY <1>19 DEF Compact
  <2>2. u <= pvc[m]
    BY <2>1, ConstantsAssumption DEF VolumeInv, TypeOK
  <2> QED BY <1>19, <2>1, <2>2 DEF Compact, VolumeInv, ClaimsReach, TypeOK
<1>20. ASSUME NEW m \in Member, RaiseAlarm(m) PROVE VolumeInv'
  BY <1>20 DEF RaiseAlarm, VolumeInv, ClaimsReach
<1>21. CASE UNCHANGED vars
  BY <1>21 DEF vars, VolumeInv, ClaimsReach
<1> QED
  BY <1>1, <1>2, <1>3, <1>4, <1>5, <1>6, <1>7, <1>8, <1>9, <1>10, <1>11,
     <1>12, <1>13, <1>14, <1>15, <1>16, <1>17, <1>18, <1>19, <1>20, <1>21
  DEF Next, Controller, Failure, Environment

\* The initial state satisfies VolumeInv, so it always holds.
LEMMA VolumeInvariant == Spec => []VolumeInv
<1>1. Init => VolumeInv
  BY DEF Init, VolumeInv, ClaimsReach
<1> QED
  BY <1>1, VolumeStep, TypeCorrect, PTL DEF Spec

\* What a member stores never exceeds the storage its claim requests,
\* whatever the order of growth, re-creation, edits, crashes and restarts.
THEOREM DataAlwaysFits == Spec => []DataFitsClaim
<1>1. VolumeInv => DataFitsClaim
  BY DEF VolumeInv, DataFitsClaim
<1> QED
  BY <1>1, VolumeInvariant, PTL

\* A NOSPACE alarm is only disarmed when the size it was judged by has
\* reached the StatefulSet and all claims.
THEOREM DisarmAfterResize == Spec => DisarmOnlyAfterResize
<1>1. TypeOK /\ VolumeInv /\ [Next]_vars =>
        [alarm' \subseteq alarm /\ alarm' # alarm =>
           /\ sts = mem.size
           /\ \A m \in Member : pvc[m] # 0 => pvc[m] >= mem.size]_vars
  <2> SUFFICES ASSUME VolumeInv, [Next]_vars, alarm' \subseteq alarm, alarm' # alarm
               PROVE  /\ sts = mem.size
                      /\ \A m \in Member : pvc[m] # 0 => pvc[m] >= mem.size
    OBVIOUS
  <2>1. etcdIsHealthy
    BY DEF Next, Controller, Failure, Environment, BeginReconcile,
       ReconcileServices, reconcileETCDSpaceUsage, DecideSize, CreateEtcdClient,
       reconcileStatefulSet, reconcileETCDMaintenance, patch, reconcilePVCSize,
       StepFails, LoseReconcile, StopMember, UpdateSpec, SyncCache,
       SyncStatefulSetStatus, StartMember, Write, RaiseAlarm, Compact,
       Quiet, etcdVars, vars
  <2> QED BY <2>1 DEF etcdIsHealthy, VolumeInv, ClaimsReach
<1> QED
  BY <1>1, TypeCorrect, VolumeInvariant, PTL DEF Spec, DisarmOnlyAfterResize

-----------------------------------------------------------------------------
(* Growth.                                                                 *)

\* Nothing, and any size users may ask for, is justified.
LEMMA AskedIsJustified == \A s \in FixedSizes \cup {0} : Justified(s)
  BY ConstantsAssumption DEF Justified

\* One decision of getETCDVolumeSize leads from a sound copy of the object
\* to a justified size, however outdated that copy is.
LEMMA DecisionIsJustified ==
  ASSUME NEW o \in Object, Sound(o)
  PROVE  Justified(getETCDVolumeSize(o))
<1>1. CASE ~o.autoGrow
  BY <1>1, AskedIsJustified DEF Sound, getETCDVolumeSize
<1>2. CASE o.autoGrow /\ o.size - o.usage >= Buffer
  BY <1>2, ConstantsAssumption DEF Sound, getETCDVolumeSize, Object
<1>3. CASE o.autoGrow /\ o.size - o.usage < Buffer
  <2>1. PICK u \in UsedLevels : o.usage <= u
    BY DEF Sound
  <2>2. o.size + Increment < u + Buffer + Increment
    BY <1>3, <2>1, ConstantsAssumption DEF Object
  <2> QED BY <1>3, <2>2 DEF getETCDVolumeSize, Justified
<1> QED
  BY <1>1, <1>2, <1>3, ConstantsAssumption DEF Object

\* Steps that leave all copies, claims, data and the StatefulSet alone, or
\* replace the controller's copies by a sound one.
LEMMA CopyStep ==
  ASSUME GrowthInv, UNCHANGED <<pvc, sts, used>>,
         Sound(hcp'), Sound(cache'), Sound(base'), Sound(mem')
  PROVE  GrowthInv'
  BY DEF GrowthInv, Justified, Sound

\* The values a reconcile starts and ends with are sound.
LEMMA NoObjectSound == Sound(NoObject)
  BY AskedIsJustified, ConstantsAssumption DEF Sound, NoObject

\* GrowthInv is preserved by every step.
LEMMA GrowthStep == TypeOK /\ GrowthInv /\ [Next]_vars => GrowthInv'
<1> SUFFICES ASSUME TypeOK, GrowthInv, [Next]_vars PROVE GrowthInv'
  OBVIOUS
<1> USE DEF Quiet, hcpVars, ctrlVars, kubeVars, etcdVars
<1>0. Sound(hcp) /\ Sound(cache) /\ Sound(base) /\ Sound(mem)
  BY DEF GrowthInv
<1>1. CASE BeginReconcile
  BY <1>0, <1>1, CopyStep DEF BeginReconcile
<1>2. CASE ReconcileServices \/ CreateEtcdClient \/ reconcileETCDMaintenance
           \/ etcdIsHealthy \/ StepFails \/ SyncStatefulSetStatus
  BY <1>0, <1>2, CopyStep DEF ReconcileServices, CreateEtcdClient,
     reconcileETCDMaintenance, etcdIsHealthy, StepFails, SyncStatefulSetStatus
<1>3. CASE reconcileETCDSpaceUsage
  <2>1. PICK failed \in SUBSET Scheduled :
          \E missing \in SUBSET (Scheduled \ failed) :
            \E fsUsage \in GetMaxEtcdVolumeUsage(Scheduled \ (failed \cup missing)) :
              \/ UNCHANGED mem
              \/ mem' = [mem EXCEPT !.usage =
                           IF failed # {} /\ @ > fsUsage THEN @ ELSE fsUsage]
    BY <1>3 DEF reconcileETCDSpaceUsage
  <2>2. PICK fsUsage \in UsedLevels :
              \/ UNCHANGED mem
              \/ mem' = [mem EXCEPT !.usage =
                           IF failed # {} /\ @ > fsUsage THEN @ ELSE fsUsage]
    BY <2>1, ConstantsAssumption DEF GrowthInv, Scheduled, GetMaxEtcdVolumeUsage
  <2>3. CASE UNCHANGED mem
    BY <1>0, <1>3, <2>3, CopyStep DEF reconcileETCDSpaceUsage
  <2>4. CASE mem' = [mem EXCEPT !.usage =
                           IF failed # {} /\ @ > fsUsage THEN @ ELSE fsUsage]
    <3>1. /\ mem'.size = mem.size /\ mem'.volumeSize = mem.volumeSize
          /\ mem'.usage = mem.usage \/ mem'.usage = fsUsage
      BY <2>4 DEF TypeOK, Object
    <3>2. Sound(mem')
      BY <1>0, <3>1, ConstantsAssumption DEF Sound
    <3> QED BY <1>0, <1>3, <3>2, CopyStep DEF reconcileETCDSpaceUsage
  <2> QED BY <2>2, <2>3, <2>4
<1>4. CASE DecideSize
  <2>1. /\ mem'.size = getETCDVolumeSize(mem)
        /\ mem'.volumeSize = mem.volumeSize /\ mem'.usage = mem.usage
    BY <1>4 DEF DecideSize, TypeOK, Object
  <2>2. Justified(getETCDVolumeSize(mem))
    BY <1>0, DecisionIsJustified DEF TypeOK
  <2>3. Sound(mem')
    BY <1>0, <2>1, <2>2 DEF Sound
  <2> QED BY <1>0, <1>4, <2>3, CopyStep DEF DecideSize
<1>5. CASE reconcileStatefulSet
  <2>1. Justified(0) /\ Justified(mem.size)
    BY <1>0, AskedIsJustified DEF Sound
  <2>2. sts' \in {0, sts, mem.size}
    BY <1>5 DEF reconcileStatefulSet
  <2>3. Justified(sts)'
    BY <2>1, <2>2 DEF GrowthInv, Justified
  <2> QED BY <1>5, <2>3 DEF reconcileStatefulSet, GrowthInv, Sound, Justified
<1>6. CASE patch
  <2>1. /\ hcp'.size \in {hcp.size, mem.size} /\ hcp'.usage \in {hcp.usage, mem.usage}
        /\ hcp'.volumeSize = hcp.volumeSize
    BY <1>6 DEF patch, Patched, TypeOK, Object
  <2>2. Sound(hcp')
    BY <1>0, <2>1 DEF Sound
  <2> QED BY <1>0, <1>6, <2>2, NoObjectSound, CopyStep DEF patch, EndReconcile
<1>7. CASE LoseReconcile
  BY <1>0, <1>7, NoObjectSound, CopyStep DEF LoseReconcile, EndReconcile
<1>8. ASSUME NEW m \in Member, reconcilePVCSize(m) PROVE GrowthInv'
  <2>1. \A n \in Member : pvc'[n] \in {pvc[n], mem.size}
    BY <1>8 DEF reconcilePVCSize, TypeOK
  <2>2. \A n \in Member : Justified(pvc'[n])
    BY <1>0, <2>1 DEF GrowthInv, Sound
  <2> QED BY <1>8, <2>2 DEF reconcilePVCSize, GrowthInv, Sound, Justified
<1>9. ASSUME NEW m \in Member, StartMember(m) PROVE GrowthInv'
  <2>1. \A n \in Member : pvc'[n] \in {pvc[n], sts}
    BY <1>9 DEF StartMember, TypeOK
  <2>2. \A n \in Member : Justified(pvc'[n])
    BY <2>1 DEF GrowthInv
  <2> QED BY <1>9, <2>2 DEF StartMember, GrowthInv, Sound, Justified
<1>10. CASE UpdateSpec
  <2>1. PICK autoGrow \in BOOLEAN, volumeSize \in FixedSizes \cup {0} :
          hcp' = [hcp EXCEPT !.autoGrow = autoGrow, !.volumeSize = volumeSize]
    BY <1>10 DEF UpdateSpec
  <2>2. hcp'.size = hcp.size /\ hcp'.usage = hcp.usage /\ hcp'.volumeSize = volumeSize
    BY <2>1 DEF TypeOK, Object
  <2>3. Sound(hcp')
    BY <1>0, <2>2 DEF Sound
  <2> QED BY <1>0, <1>10, <2>3, CopyStep DEF UpdateSpec
<1>11. CASE SyncCache
  BY <1>0, <1>11, CopyStep DEF SyncCache
<1>12. ASSUME NEW m \in Member, Write(m) \/ Compact(m) PROVE GrowthInv'
  <2>1. \A n \in Member : used'[n] \in UsedLevels
    BY <1>12 DEF Write, Compact, GrowthInv, TypeOK
  <2> QED BY <1>12, <2>1 DEF Write, Compact, GrowthInv, Sound, Justified
<1>13. ASSUME NEW m \in Member, RaiseAlarm(m) \/ StopMember(m) PROVE GrowthInv'
  BY <1>0, <1>13, CopyStep DEF RaiseAlarm, StopMember
<1>14. CASE UNCHANGED vars
  BY <1>0, <1>14, CopyStep DEF vars
<1> QED
  BY <1>1, <1>2, <1>3, <1>4, <1>5, <1>6, <1>7, <1>8, <1>9, <1>10, <1>11,
     <1>12, <1>13, <1>14
  DEF Next, Controller, Failure, Environment

\* Auto-growth never requests more storage than the data or a user
\* justifies, through outdated reads, lost patches and crashes.
THEOREM GrowthIsBounded == Spec => []NoRunawayGrowth
<1>1. Init => GrowthInv
  <2> SUFFICES ASSUME Init PROVE GrowthInv
    OBVIOUS
  <2>1. PICK autoGrow \in BOOLEAN, volumeSize \in FixedSizes \cup {0} :
          hcp = [NoObject EXCEPT !.autoGrow = autoGrow, !.volumeSize = volumeSize]
    BY DEF Init
  <2>2. hcp.size = 0 /\ hcp.usage = 0 /\ hcp.volumeSize = volumeSize
    BY <2>1 DEF NoObject
  <2>3. Sound(hcp)
    BY <2>2, AskedIsJustified, ConstantsAssumption DEF Sound
  <2> QED
    BY <2>3, NoObjectSound, AskedIsJustified, ConstantsAssumption DEF Init, GrowthInv
<1>2. GrowthInv => NoRunawayGrowth
  BY DEF GrowthInv, NoRunawayGrowth, Sound
<1> QED
  BY <1>1, <1>2, GrowthStep, TypeCorrect, PTL DEF Spec

=============================================================================
