------------------------ MODULE EtcdMaintenanceProofs ------------------------
(***************************************************************************)
(* Theorems about EtcdMaintenance for any schedule, cooldown, watchdog     *)
(* interval, number of chunks and readings, and any bounds on time, faults *)
(* and edits.                                                              *)
(***************************************************************************)
EXTENDS EtcdMaintenance, FiniteSetTheorems, TLAPS

-----------------------------------------------------------------------------
(* Constants and arithmetic.                                               *)

\* The constants are numbers, the intervals positive ones.
LEMMA ConstantsNat ==
  /\ Period \in Nat \ {0} /\ Cooldown \in Nat \ {0} /\ Interval \in Nat \ {0}
  /\ Chunks \in Nat /\ MaxTime \in Nat \ {0} /\ MaxFaults \in Nat /\ MaxEdits \in Nat
  BY ConstantsAssumption, Zenon

\* A counter below its bound can be raised.
LEMMA CounterStep ==
  ASSUME NEW b \in Nat, NEW n \in 0 .. b, n < b
  PROVE  n + 1 \in 0 .. b
  OBVIOUS

\* The next run of the schedule is strictly later.
LEMMA NextRunLater ==
  ASSUME NEW t \in Nat
  PROVE  NextRun(t) \in Nat /\ t < NextRun(t)
<1>1. t \div Period \in Nat /\ t < (t \div Period + 1) * Period
  BY ConstantsNat
<1>2. ASSUME NEW q \in Nat PROVE (q + 1) * Period \in Nat
  BY ConstantsNat
<1> QED BY <1>1, <1>2 DEF NextRun

\* The quota of a time is a number that grows with it.
LEMMA QuotaMonotone ==
  ASSUME NEW d \in Nat \ {0}, NEW s \in Nat, NEW t \in Nat, s <= t
  PROVE  Quota(s, d) \in Nat /\ Quota(s, d) <= Quota(t, d)
<1>1. ASSUME NEW u \in Nat, u # 0 PROVE (u - 1) \div d \in Nat
  BY <1>1
<1>2. s # 0 => (s - 1) \div d <= (t - 1) \div d
  OBVIOUS
<1> QED BY <1>1, <1>2 DEF Quota, Never

\* After d further ticks the quota has room for one more.
LEMMA QuotaGrows ==
  ASSUME NEW d \in Nat \ {0}, NEW s \in Nat, NEW t \in Nat \ {0},
         s = 0 \/ s + d <= t
  PROVE  Quota(s, d) + 1 <= Quota(t, d)
<1>1. CASE s = 0
  <2>1. (t - 1) \div d \in Nat
    OBVIOUS
  <2> QED BY <1>1, <2>1 DEF Quota, Never
<1>2. CASE s # 0
  <2>1. (s - 1) \div d \in Nat /\ (s - 1) \div d + 1 <= (t - 1) \div d
    BY <1>2
  <2> QED BY <1>2, <2>1 DEF Quota, Never
<1> QED BY <1>1, <1>2

\* A run of the schedule passed since: the quota has room for one more.
LEMMA QuotaGrowsBySchedule ==
  ASSUME NEW s \in Nat, NEW t \in Nat \ {0}, s = 0 \/ NextRun(s) < t
  PROVE  Quota(s, Period) + 1 <= Quota(t, Period)
<1>1. CASE s = 0
  BY <1>1, QuotaGrows, ConstantsNat
<1>2. CASE s # 0
  <2> DEFINE q == s \div Period
  <2>1. q \in Nat /\ (q + 1) * Period <= t - 1
    BY <1>2, ConstantsNat DEF NextRun
  <2>2. (s - 1) \div Period \in Nat /\ (s - 1) \div Period <= q
    BY <1>2, ConstantsNat
  <2>3. ASSUME NEW p \in Nat, NEW u \in Nat, (p + 1) * Period <= u
        PROVE  u \div Period \in Nat /\ p + 1 <= u \div Period
    BY <2>3, ConstantsNat
  <2> HIDE DEF q
  <2>4. (t - 1) \div Period \in Nat /\ q + 1 <= (t - 1) \div Period
    BY <2>1, <2>3
  <2> QED BY <1>2, <2>1, <2>2, <2>4 DEF Quota, Never
<1> QED BY <1>1, <1>2

-----------------------------------------------------------------------------
(* Type correctness.                                                       *)

\* The copy of an idle worker has the type of an object.
LEMMA NoObjectType == NoObject \in Object
  BY ConstantsNat DEF NoObject, Object, Never, Time

\* Noting a backup or an attempt keeps an object's type.
LEMMA NotedTypes ==
  ASSUME NEW o \in Object, now \in 1 .. MaxTime
  PROVE  /\ [o EXCEPT !.lastBackup = now, !.nextBackup = NextRun(now)] \in Object
         /\ [o EXCEPT !.lastAttempt = now, !.lastDefrag = now] \in Object
         /\ [o EXCEPT !.lastAttempt = now] \in Object
         /\ [o EXCEPT !.backup = ~@] \in Object
<1>1. now \in Time /\ now \in Nat
  BY ConstantsNat DEF Time
<1>2. NextRun(now) \in Nat
  BY <1>1, NextRunLater
<1>3. (~o.backup) \in BOOLEAN
  OBVIOUS
<1> QED BY <1>1, <1>2, <1>3 DEF Object

Field == {"backup", "lastBackup", "nextBackup", "lastAttempt", "lastDefrag"}

\* What a patch writes, field by field.
LEMMA PatchedFields ==
  ASSUME NEW o \in Object, mem \in Object, base \in Object
  PROVE  /\ Patched(o) \in Object
         /\ \A f \in Field : Patched(o)[f] = IF mem[f] # base[f] THEN mem[f] ELSE o[f]
<1>1. DOMAIN o = Field
  BY DEF Object, Field
<1>2. \A f \in Field : Patched(o)[f] = IF mem[f] # base[f] THEN mem[f] ELSE o[f]
  BY <1>1 DEF Patched
<1>3. Patched(o) = [backup      |-> Patched(o)["backup"],
                    lastBackup  |-> Patched(o)["lastBackup"],
                    nextBackup  |-> Patched(o)["nextBackup"],
                    lastAttempt |-> Patched(o)["lastAttempt"],
                    lastDefrag  |-> Patched(o)["lastDefrag"]]
  BY <1>1 DEF Patched, Field
<1>4. /\ Patched(o)["backup"] \in BOOLEAN /\ Patched(o)["lastBackup"] \in Time
      /\ Patched(o)["nextBackup"] \in Nat /\ Patched(o)["lastAttempt"] \in Time
      /\ Patched(o)["lastDefrag"] \in Time
  BY <1>2 DEF Object, Field
<1>5. Patched(o) \in Object
  BY <1>3, <1>4 DEF Object
<1> QED BY <1>2, <1>5

\* The counters are numbers; a fault, with or without a missed reconcile,
\* keeps them so.
LEMMA CounterTypes ==
  ASSUME TypeOK
  PROVE  /\ missed \in Nat /\ faults \in Nat /\ edits \in Nat
         /\ UNCHANGED <<missed, faults>> => missed' \in 0 .. faults' /\ faults' \in 0 .. MaxFaults
         /\ Fault /\ missed' \in {missed, missed + 1}
              => missed' \in 0 .. faults' /\ faults' \in 0 .. MaxFaults
<1>1. faults \in 0 .. MaxFaults /\ missed \in 0 .. faults /\ edits \in 0 .. MaxEdits
  BY DEF TypeOK
<1>2. missed \in Nat /\ faults \in Nat /\ edits \in Nat /\ missed <= faults
  BY <1>1, ConstantsNat
<1>3. Fault => faults' \in 0 .. MaxFaults /\ faults' = faults + 1
  BY <1>1, ConstantsNat, CounterStep DEF Fault
<1>4. ASSUME NEW m \in {missed, missed + 1} PROVE m \in 0 .. (faults + 1)
  BY <1>2
<1> QED BY <1>1, <1>2, <1>3, <1>4

\* No stream: the watchdog's variables have their types.
LEMMA NoStreamTypes ==
  ASSUME NoStream
  PROVE  /\ timer' \in 0 .. Interval /\ silent' \in 0 .. Interval
         /\ chunks' \in 0 .. Chunks /\ hung' \in BOOLEAN /\ cancelled' \in BOOLEAN
<1>1. 0 \in 0 .. Interval /\ 0 \in 0 .. Chunks
  BY ConstantsNat
<1>2. hung' \in BOOLEAN /\ cancelled' \in BOOLEAN
  BY Zenon DEF NoStream
<1> QED BY <1>1, <1>2 DEF NoStream

ObjTypes    == {hcp, cache, base, mem} \subseteq Object /\ edits \in 0 .. MaxEdits
StreamTypes == /\ timer \in 0 .. Interval /\ silent \in 0 .. Interval
               /\ chunks \in 0 .. Chunks /\ hung \in BOOLEAN /\ cancelled \in BOOLEAN
WorldTypes  == alarms \in BOOLEAN /\ stored \subseteq Time /\ defrags \subseteq Time
CountTypes  == missed \in 0 .. faults /\ faults \in 0 .. MaxFaults

\* The type invariant by groups of variables.
LEMMA TypeGroups ==
  TypeOK <=> /\ now \in 1 .. MaxTime /\ pc \in Steps \cup {"idle"}
             /\ ObjTypes /\ StreamTypes /\ WorldTypes /\ CountTypes
  BY DEF TypeOK, ObjTypes, StreamTypes, WorldTypes, CountTypes

\* Every step keeps the variables in their types.
LEMMA TypeStep == TypeOK /\ [Next]_vars => TypeOK'
<1> SUFFICES ASSUME TypeOK, [Next]_vars PROVE TypeOK'
  OBVIOUS
<1> DEFINE PcTypes == pc \in Steps \cup {"idle"}
           NowType == now \in 1 .. MaxTime
<1>0. NowType /\ PcTypes /\ ObjTypes /\ StreamTypes /\ WorldTypes /\ CountTypes
  BY TypeGroups
<1>a. UNCHANGED objVars /\ UNCHANGED <<base, mem>> => ObjTypes'
  BY <1>0 DEF objVars, ObjTypes
<1>b. UNCHANGED streamVars => StreamTypes'
  BY <1>0 DEF streamVars, StreamTypes
<1>c. UNCHANGED worldVars => WorldTypes'
  BY <1>0 DEF worldVars, WorldTypes
<1>d. UNCHANGED <<missed, faults>> => CountTypes'
  BY <1>0 DEF CountTypes
<1>e. Fault /\ missed' \in {missed, missed + 1} => CountTypes'
  BY CounterTypes DEF CountTypes
<1>f. NoStream => StreamTypes'
  BY NoStreamTypes DEF StreamTypes
<1>g. /\ UNCHANGED now => NowType'
      /\ UNCHANGED pc => PcTypes'
      /\ \A s \in Steps : Goto(s) => PcTypes'
  BY <1>0 DEF Goto
<1>h. UNCHANGED objVars /\ EndReconcile => ObjTypes' /\ PcTypes'
  BY <1>0, NoObjectType DEF objVars, EndReconcile, ObjTypes
<1>i. NowType' /\ PcTypes' /\ ObjTypes' /\ StreamTypes' /\ WorldTypes' /\ CountTypes'
        => TypeOK'
  BY DEF TypeOK, ObjTypes, StreamTypes, WorldTypes, CountTypes
<1> HIDE DEF PcTypes, NowType
<1>1. CASE BeginReconcile
  <2>1. ObjTypes'
    BY <1>0, <1>1 DEF BeginReconcile, objVars, ObjTypes
  <2>2. CountTypes'
    BY <1>1, <1>d, <1>e DEF BeginReconcile
  <2> QED BY <1>1, <2>1, <2>2, <1>b, <1>c, <1>g, <1>i DEF BeginReconcile, Steps
<1>2. CASE reconcileETCDMaintenance
  BY <1>2, <1>a, <1>b, <1>c, <1>d, <1>g, <1>i DEF reconcileETCDMaintenance, Steps
<1>3. CASE reconcileETCDDefragmentation
  <2>1. mem' \in Object
    <3>1. \/ mem' = mem
          \/ mem' = [mem EXCEPT !.lastAttempt = now, !.lastDefrag = now]
          \/ mem' = [mem EXCEPT !.lastAttempt = now]
      BY <1>3, Zenon DEF reconcileETCDDefragmentation
    <3> QED BY <1>0, <3>1, NotedTypes DEF ObjTypes, NowType
  <2>2. ObjTypes'
    BY <1>0, <1>3, <2>1 DEF reconcileETCDDefragmentation, objVars, ObjTypes
  <2>3. PcTypes'
    BY <1>3, <1>g DEF reconcileETCDDefragmentation, Steps
  <2>4. CountTypes'
    BY <1>3, <1>d, <1>e DEF reconcileETCDDefragmentation
  <2>5. WorldTypes'
    <3>1. now \in Time
      BY <1>0, ConstantsNat DEF NowType, Time
    <3> QED BY <1>0, <1>3, <3>1 DEF reconcileETCDDefragmentation, WorldTypes
  <2> QED BY <1>3, <2>2, <2>3, <2>4, <2>5, <1>b, <1>g, <1>i DEF reconcileETCDDefragmentation
<1>4. CASE etcdIsHealthy
  BY <1>4, <1>a, <1>b, <1>c, <1>d, <1>g, <1>i DEF etcdIsHealthy, Steps
<1>5. CASE StartBackup
  BY <1>5, <1>a, <1>c, <1>d, <1>f, <1>g, <1>i DEF StartBackup, Steps
<1>6. CASE OpenSnapshotStream
  <2>1. StreamTypes'
    BY <1>0, <1>6, ConstantsNat DEF OpenSnapshotStream, StreamTypes
  <2> QED BY <1>6, <2>1, <1>a, <1>c, <1>d, <1>g, <1>i DEF OpenSnapshotStream, Steps
<1>7. CASE UploadProgress
  <2>1. StreamTypes'
    BY <1>0, <1>7, ConstantsNat DEF UploadProgress, StreamTypes
  <2> QED BY <1>7, <2>1, <1>a, <1>c, <1>d, <1>g, <1>i DEF UploadProgress, ctrlVars
<1>8. CASE FinishBackup
  <2>1. ObjTypes'
    BY <1>0, <1>8, NotedTypes DEF FinishBackup, objVars, ObjTypes, NowType
  <2>2. WorldTypes'
    <3>1. now \in Time
      BY <1>0, ConstantsNat DEF NowType, Time
    <3> QED BY <1>0, <1>8, <3>1 DEF FinishBackup, WorldTypes
  <2> QED BY <1>8, <2>1, <2>2, <1>d, <1>f, <1>g, <1>i DEF FinishBackup, Steps
<1>9. CASE WatchdogFires
  <2>1. StreamTypes'
    BY <1>0, <1>9 DEF WatchdogFires, StreamTypes
  <2> QED BY <1>9, <2>1, <1>a, <1>c, <1>d, <1>g, <1>i DEF WatchdogFires, ctrlVars
<1>10. CASE BackupStalled
  <2>1. CountTypes'
    BY <1>10, <1>d, <1>e DEF BackupStalled
  <2>2. WorldTypes'
    <3>1. now \in Time
      BY <1>0, ConstantsNat DEF NowType, Time
    <3> QED BY <1>0, <1>10, <3>1 DEF BackupStalled, WorldTypes
  <2> QED BY <1>10, <2>1, <2>2, <1>a, <1>f, <1>g, <1>i DEF BackupStalled, Steps
<1>11. CASE patch
  <2>1. hcp' \in Object
    BY <1>0, <1>11, PatchedFields DEF patch, ObjTypes
  <2>2. ObjTypes' /\ PcTypes'
    BY <1>0, <1>11, <2>1, NoObjectType DEF patch, EndReconcile, ObjTypes, PcTypes
  <2> QED BY <1>11, <2>2, <1>b, <1>c, <1>d, <1>g, <1>i DEF patch
<1>12. CASE CallFails \/ NewS3ClientFails \/ UploadFails
  BY <1>12, <1>a, <1>c, <1>e, <1>f, <1>g, <1>i
  DEF CallFails, NewS3ClientFails, UploadFails, Abort, Steps
<1>13. CASE LoseReconcile
  BY <1>13, <1>c, <1>e, <1>f, <1>g, <1>h, <1>i DEF LoseReconcile
<1>14. CASE Tick
  <2>1. NowType'
    BY <1>0, <1>14, ConstantsNat DEF Tick, NowType
  <2>2. StreamTypes'
    BY <1>0, <1>14, ConstantsNat DEF Tick, StreamTypes
  <2> QED BY <1>14, <2>1, <2>2, <1>a, <1>c, <1>d, <1>g, <1>i DEF Tick, ctrlVars
<1>15. CASE StreamHangs
  <2>1. StreamTypes'
    BY <1>0, <1>15 DEF StreamHangs, StreamTypes
  <2> QED BY <1>15, <2>1, <1>a, <1>c, <1>e, <1>g, <1>i DEF StreamHangs, ctrlVars
<1>16. CASE AlarmChanges
  <2>1. WorldTypes'
    BY <1>0, <1>16, Zenon DEF AlarmChanges, WorldTypes
  <2> QED BY <1>16, <2>1, <1>a, <1>b, <1>e, <1>g, <1>i DEF AlarmChanges, ctrlVars
<1>17. CASE UpdateSpec
  <2>1. hcp' \in Object
    BY <1>0, <1>17, NotedTypes DEF UpdateSpec, ObjTypes, NowType
  <2>2. edits' \in 0 .. MaxEdits
    BY <1>0, <1>17, ConstantsNat, CounterStep DEF UpdateSpec, ObjTypes
  <2>3. ObjTypes'
    BY <1>0, <1>17, <2>1, <2>2 DEF UpdateSpec, ctrlVars, ObjTypes
  <2> QED BY <1>17, <2>3, <1>b, <1>c, <1>d, <1>g, <1>i DEF UpdateSpec, ctrlVars
<1>18. CASE SyncCache
  <2>1. ObjTypes'
    BY <1>0, <1>18 DEF SyncCache, ctrlVars, ObjTypes
  <2> QED BY <1>18, <2>1, <1>b, <1>c, <1>d, <1>g, <1>i DEF SyncCache, ctrlVars
<1>19. CASE UNCHANGED vars
  BY <1>19, <1>a, <1>b, <1>c, <1>d, <1>g, <1>i DEF vars, ctrlVars
<1> QED
  BY <1>1, <1>2, <1>3, <1>4, <1>5, <1>6, <1>7, <1>8, <1>9, <1>10, <1>11, <1>12, <1>13,
     <1>14, <1>15, <1>16, <1>17, <1>18, <1>19
  DEF Next, Controller

\* The initial states have their types.
LEMMA TypeInit == Init => TypeOK
<1> SUFFICES ASSUME Init PROVE TypeOK
  OBVIOUS
<1>1. hcp \in Object
  <2>1. PICK b \in BOOLEAN : hcp = [NoObject EXCEPT !.backup = b]
    BY Zenon DEF Init
  <2> QED BY <2>1, NoObjectType DEF Object
<1>2. ObjTypes
  BY <1>1, NoObjectType, ConstantsNat DEF Init, ObjTypes
<1>3. StreamTypes /\ WorldTypes /\ CountTypes
  <2>1. alarms \in BOOLEAN /\ hung \in BOOLEAN /\ cancelled \in BOOLEAN
    BY Zenon DEF Init
  <2>2. 0 \in 0 .. Interval /\ 0 \in 0 .. Chunks /\ 0 \in 0 .. MaxFaults /\ 0 \in 0 .. 0
    BY ConstantsNat
  <2> QED BY <2>1, <2>2 DEF Init, StreamTypes, WorldTypes, CountTypes
<1>4. now \in 1 .. MaxTime
  BY ConstantsNat DEF Init
<1> QED BY <1>2, <1>3, <1>4, TypeGroups DEF Init

\* The variables keep their types; missed never exceeds the faults.
THEOREM TypeCorrect == Spec => []TypeOK
  BY TypeInit, TypeStep, PTL DEF Spec

-----------------------------------------------------------------------------
(* The watchdog.                                                           *)

\* The timer is reset only where the stream made progress.
LEMMA WatchdogStep == TypeOK /\ WatchdogInv /\ [Next]_vars => WatchdogInv'
<1> SUFFICES ASSUME TypeOK, WatchdogInv, [Next]_vars PROVE WatchdogInv'
  OBVIOUS
<1>0. timer \in Nat /\ silent \in Nat /\ timer <= silent /\ timer <= Interval
  BY ConstantsNat DEF TypeOK, WatchdogInv
<1>1. CASE timer' = 0 /\ silent' = 0
  BY <1>1 DEF WatchdogInv
<1>2. CASE UNCHANGED <<timer, silent>>
  BY <1>0, <1>2 DEF WatchdogInv
<1>3. CASE Tick
  <2>1. CASE Streaming
    BY <1>0, <1>3, <2>1, ConstantsNat DEF Tick, WatchdogInv
  <2>2. CASE ~Streaming
    BY <1>0, <1>3, <2>2 DEF Tick, WatchdogInv
  <2> QED BY <2>1, <2>2
<1>4. Next => Tick \/ UNCHANGED <<timer, silent>> \/ (timer' = 0 /\ silent' = 0)
  BY DEF Next, Controller, BeginReconcile, reconcileETCDMaintenance,
         reconcileETCDDefragmentation, etcdIsHealthy, StartBackup, OpenSnapshotStream,
         UploadProgress, FinishBackup, WatchdogFires, BackupStalled, patch, CallFails,
         NewS3ClientFails, UploadFails, Abort, LoseReconcile, StreamHangs, AlarmChanges,
         UpdateSpec, SyncCache, NoStream, streamVars
<1> QED BY <1>1, <1>2, <1>3, <1>4 DEF vars, streamVars

\* The timer has not begun to run.
LEMMA WatchdogInit == Init => WatchdogInv
  BY DEF Init, WatchdogInv

\* A backup is cancelled only after a whole interval without progress, however
\* the watchdog's resets interleave with the stream.
THEOREM NeverFalseStall == Spec => NoFalseStall
<1>1. TypeOK /\ WatchdogInv /\ [Next]_vars
        => [~cancelled /\ cancelled' => silent >= Interval]_vars
  <2> SUFFICES ASSUME TypeOK, WatchdogInv, Next, ~cancelled, cancelled'
               PROVE  silent >= Interval
    OBVIOUS
  <2>1. Next => WatchdogFires \/ UNCHANGED cancelled \/ cancelled' = FALSE
    BY DEF Next, Controller, BeginReconcile, reconcileETCDMaintenance,
           reconcileETCDDefragmentation, etcdIsHealthy, StartBackup, OpenSnapshotStream,
           UploadProgress, FinishBackup, BackupStalled, patch, CallFails,
           NewS3ClientFails, UploadFails, Abort, LoseReconcile, Tick, StreamHangs,
           AlarmChanges, UpdateSpec, SyncCache, NoStream, streamVars
  <2>2. WatchdogFires
    BY <2>1, Zenon
  <2>3. timer \in Nat /\ silent \in Nat /\ timer <= silent /\ timer >= Interval
    BY <2>2, ConstantsNat DEF WatchdogFires, TypeOK, WatchdogInv
  <2> QED BY <2>3, ConstantsNat
<1> QED BY <1>1, TypeInit, TypeStep, WatchdogInit, WatchdogStep, PTL DEF Spec, NoFalseStall

-----------------------------------------------------------------------------
(* What a step does to the copies of the object.                           *)

\* A step that leaves all copies alone: time may pass, the reconcile may go
\* on, and a stalled backup may turn out to be stored.
Quiet ==
    /\ UNCHANGED <<hcp, cache, base, mem, defrags>>
    /\ pc' = "idle" <=> pc = "idle"
    /\ pc' \in {"maintenance", "defrag"} => pc \in {"maintenance", "defrag"}
    /\ pc = "patch" => pc' = "patch"
    /\ Streaming' => Streaming \/ BackupDue(mem)
    /\ now' \in {now, now + 1}
    /\ \/ UNCHANGED <<stored, missed>>
       \/ stored' = stored \cup {now} /\ missed' = missed + 1

\* Every step writes timestamps, or is quiet.
LEMMA StepKinds ==
  ASSUME TypeOK, [Next]_vars
  PROVE  \/ BeginReconcile \/ reconcileETCDDefragmentation \/ FinishBackup
         \/ patch \/ LoseReconcile \/ UpdateSpec \/ SyncCache \/ Quiet
<1>1. CASE reconcileETCDMaintenance \/ etcdIsHealthy
  BY <1>1 DEF reconcileETCDMaintenance, etcdIsHealthy, Goto, Quiet, Streaming, objVars, worldVars
<1>2. CASE StartBackup
  BY <1>2 DEF StartBackup, Goto, Quiet, Streaming, objVars, worldVars
<1>3. CASE OpenSnapshotStream \/ UploadProgress \/ WatchdogFires
  BY <1>3 DEF OpenSnapshotStream, UploadProgress, WatchdogFires, Goto, Quiet, Streaming,
              objVars, worldVars, ctrlVars
<1>4. CASE BackupStalled
  BY <1>4 DEF BackupStalled, Goto, Quiet, Streaming, objVars
<1>5. CASE CallFails \/ NewS3ClientFails \/ UploadFails
  BY <1>5 DEF CallFails, NewS3ClientFails, UploadFails, Abort, Goto, Quiet, Streaming,
              objVars, worldVars
<1>6. CASE Tick
  BY <1>6 DEF Tick, Quiet, Streaming, objVars, worldVars, ctrlVars
<1>7. CASE StreamHangs \/ AlarmChanges
  BY <1>7 DEF StreamHangs, AlarmChanges, Quiet, Streaming, objVars, worldVars, ctrlVars
<1>8. CASE UNCHANGED vars
  BY <1>8 DEF vars, Quiet, Streaming, objVars, worldVars, ctrlVars
<1> QED
  BY <1>1, <1>2, <1>3, <1>4, <1>5, <1>6, <1>7, <1>8 DEF Next, Controller

\* The timestamps after a backup, and what the other steps write.
LEMMA FinishedFields ==
  ASSUME TypeOK, FinishBackup
  PROVE  /\ mem'.lastBackup = now /\ mem'.nextBackup = NextRun(now)
         /\ mem'.lastAttempt = mem.lastAttempt
         /\ UNCHANGED <<hcp, cache, base>>
  BY DEF FinishBackup, TypeOK, Object, objVars

\* A defragmentation notes its attempt, and only after the cooldown.
LEMMA DefragmentedFields ==
  ASSUME TypeOK, reconcileETCDDefragmentation
  PROVE  /\ mem'.lastBackup = mem.lastBackup /\ mem'.nextBackup = mem.nextBackup
         /\ \/ UNCHANGED <<mem, defrags>>
            \/ /\ ~CoolingDown(mem)
               /\ mem'.lastAttempt = now /\ defrags' = defrags \cup {now}
         /\ UNCHANGED <<hcp, cache, base>>
<1>1. mem \in Object
  BY DEF TypeOK
<1>2. CASE UNCHANGED <<mem, defrags>>
  BY <1>2 DEF reconcileETCDDefragmentation, objVars
<1>3. CASE ~UNCHANGED <<mem, defrags>>
  <2>1. /\ ~CoolingDown(mem) /\ defrags' = defrags \cup {now}
        /\ \/ mem' = [mem EXCEPT !.lastAttempt = now, !.lastDefrag = now]
           \/ mem' = [mem EXCEPT !.lastAttempt = now]
    BY <1>3, Zenon DEF reconcileETCDDefragmentation
  <2>2. mem'.lastBackup = mem.lastBackup /\ mem'.nextBackup = mem.nextBackup
        /\ mem'.lastAttempt = now
    BY <1>1, <2>1 DEF Object
  <2> QED BY <2>1, <2>2 DEF reconcileETCDDefragmentation, objVars
<1> QED BY <1>2, <1>3

\* An edit leaves the timestamps alone.
LEMMA UpdatedFields ==
  ASSUME TypeOK, UpdateSpec
  PROVE  /\ hcp'.lastBackup = hcp.lastBackup /\ hcp'.nextBackup = hcp.nextBackup
         /\ hcp'.lastAttempt = hcp.lastAttempt
         /\ UNCHANGED <<cache, base, mem, pc>>
  BY DEF UpdateSpec, TypeOK, Object, ctrlVars

\* A patch writes the fields that were changed since they were read.
LEMMA WrittenFields ==
  ASSUME TypeOK, patch
  PROVE  /\ \A f \in Field : hcp'[f] = IF mem[f] # base[f] THEN mem[f] ELSE hcp[f]
         /\ mem' = NoObject /\ base' = NoObject /\ pc' = "idle" /\ UNCHANGED cache
  BY PatchedFields DEF patch, EndReconcile, TypeOK

\* The copy of an idle worker has no timestamps.
LEMMA NoFields ==
  NoObject.lastBackup = Never /\ NoObject.nextBackup = Never /\ NoObject.lastAttempt = Never
  BY DEF NoObject

-----------------------------------------------------------------------------
(* The backups.                                                            *)

\* No step makes a copy name a backup that is not stored.
LEMMA BackupStep == TypeOK /\ BackupInv /\ [Next]_vars => BackupInv'
<1> SUFFICES ASSUME TypeOK, BackupInv, [Next]_vars PROVE BackupInv'
  OBVIOUS
<1> DEFINE Ok(o)    == o.lastBackup = Never \/ o.lastBackup \in stored
           OkNow(o) == o.lastBackup = Never \/ o.lastBackup \in stored'
<1>0. Ok(hcp) /\ Ok(cache) /\ Ok(base) /\ Ok(mem)
  BY DEF BackupInv, Copies
<1>a. OkNow(hcp') /\ OkNow(cache') /\ OkNow(base') /\ OkNow(mem') => BackupInv'
  BY DEF BackupInv, Copies
<1>b. OkNow(NoObject)
  BY NoFields
<1>c. stored \subseteq stored'
  BY StepKinds DEF BeginReconcile, reconcileETCDDefragmentation, FinishBackup, patch,
     LoseReconcile, UpdateSpec, SyncCache, Quiet, worldVars
<1>1. CASE BeginReconcile
  BY <1>0, <1>1, <1>a, <1>c DEF BeginReconcile, objVars
<1>2. CASE reconcileETCDDefragmentation
  BY <1>0, <1>2, <1>a, <1>c, DefragmentedFields
<1>3. CASE FinishBackup
  <2>1. mem'.lastBackup \in stored'
    BY <1>3, FinishedFields DEF FinishBackup
  <2> QED BY <1>0, <1>3, <2>1, <1>a, <1>c, FinishedFields
<1>4. CASE patch
  <2>1. hcp'.lastBackup \in {mem.lastBackup, hcp.lastBackup}
    BY <1>4, WrittenFields DEF Field
  <2> QED BY <1>0, <1>4, <2>1, <1>a, <1>b, <1>c, WrittenFields
<1>5. CASE LoseReconcile
  BY <1>0, <1>5, <1>a, <1>b, <1>c DEF LoseReconcile, EndReconcile, objVars
<1>6. CASE UpdateSpec
  BY <1>0, <1>6, <1>a, <1>c, UpdatedFields
<1>7. CASE SyncCache
  BY <1>0, <1>7, <1>a, <1>c DEF SyncCache, ctrlVars
<1>8. CASE Quiet
  BY <1>0, <1>8, <1>a, <1>c DEF Quiet
<1> QED BY <1>1, <1>2, <1>3, <1>4, <1>5, <1>6, <1>7, <1>8, StepKinds

\* A new object names no backup.
LEMMA InitFields ==
  ASSUME Init
  PROVE  \A o \in Copies : /\ o.lastBackup = Never /\ o.nextBackup = Never
                          /\ o.lastAttempt = Never
<1>1. PICK b \in BOOLEAN : hcp = [NoObject EXCEPT !.backup = b]
  BY Zenon DEF Init
<1>2. hcp.lastBackup = Never /\ hcp.nextBackup = Never /\ hcp.lastAttempt = Never
  BY <1>1 DEF NoObject
<1>3. cache = hcp /\ base = NoObject /\ mem = NoObject
  BY DEF Init
<1> QED BY <1>2, <1>3, NoFields DEF Copies

\* A backup the status names is in the bucket, whatever failed, stalled or was
\* read outdated on the way.
THEOREM RecordedBackupAlwaysExists == Spec => []RecordedBackupExists
<1>1. Init => BackupInv
  BY InitFields DEF BackupInv
<1>2. BackupInv => RecordedBackupExists
  BY DEF BackupInv, RecordedBackupExists, Copies
<1> QED BY <1>1, <1>2, TypeInit, TypeStep, BackupStep, PTL DEF Spec

-----------------------------------------------------------------------------
(* The schedule.                                                           *)

\* A backup that was due moves the next run.
LEMMA DueMovesNextRun ==
  ASSUME TypeOK, NEW o \in Object, BackupDue(o), o.nextBackup = ScheduledAfter(o.lastBackup)
  PROVE  now # o.lastBackup /\ NextRun(now) # o.nextBackup /\ now # Never
<1>1. now \in Nat /\ now > 0 /\ o.lastBackup \in Nat
  BY ConstantsNat DEF TypeOK, Object, Time
<1>2. /\ NextRun(now) \in Nat /\ now < NextRun(now)
      /\ NextRun(o.lastBackup) \in Nat /\ o.lastBackup < NextRun(o.lastBackup)
  BY <1>1, NextRunLater
<1> QED BY <1>1, <1>2 DEF BackupDue, ScheduledAfter, Never

\* A backup that is due stays so.
LEMMA DueStays ==
  ASSUME TypeOK, BackupDue(mem), UNCHANGED mem, now' \in {now, now + 1}
  PROVE  BackupDue(mem)'
<1>1. now \in Nat /\ mem.lastBackup \in Nat
  BY ConstantsNat DEF TypeOK, Object, Time
<1>2. NextRun(mem.lastBackup) \in Nat
  BY <1>1, NextRunLater
<1>3. NextRun(mem'.lastBackup) = NextRun(mem.lastBackup)
  OBVIOUS
<1>4. BackupDue(mem)' <=> mem'.lastBackup = Never \/ NextRun(mem'.lastBackup) < now'
  BY DEF BackupDue, NextRun
<1> QED BY <1>1, <1>2, <1>3, <1>4 DEF BackupDue

\* No step separates the next run from the backup it belongs to.
LEMMA ScheduleStep == TypeOK /\ ScheduleInv /\ [Next]_vars => ScheduleInv'
<1> SUFFICES ASSUME TypeOK, ScheduleInv, [Next]_vars PROVE ScheduleInv'
  OBVIOUS
<1> DEFINE Ok(o) == o.nextBackup = ScheduledAfter(o.lastBackup)
<1>0. /\ Ok(hcp) /\ Ok(cache) /\ Ok(base) /\ Ok(mem)
      /\ pc # "patch" => mem.lastBackup = base.lastBackup
      /\ Streaming => BackupDue(mem)
      /\ mem.lastBackup # base.lastBackup => mem.nextBackup # base.nextBackup
  BY DEF ScheduleInv, Copies
<1>a. /\ Ok(hcp') /\ Ok(cache') /\ Ok(base') /\ Ok(mem')
      /\ pc' # "patch" => mem'.lastBackup = base'.lastBackup
      /\ Streaming' => BackupDue(mem)'
      /\ mem'.lastBackup # base'.lastBackup => mem'.nextBackup # base'.nextBackup
      => ScheduleInv'
  BY DEF ScheduleInv, Copies, ScheduledAfter, NextRun
<1>b. Ok(NoObject)
  BY NoFields DEF ScheduledAfter
<1> HIDE DEF Ok
<1>1. CASE BeginReconcile
  BY <1>0, <1>1, <1>a DEF BeginReconcile, objVars, Goto, Streaming
<1>2. CASE reconcileETCDDefragmentation
  <2>1. Ok(mem')
    BY <1>0, <1>2, DefragmentedFields DEF Ok
  <2>2. pc = "defrag" /\ pc' \in {"health", "patch"}
    BY <1>2 DEF reconcileETCDDefragmentation, Goto
  <2> QED BY <1>0, <1>2, <1>a, <2>1, <2>2, DefragmentedFields DEF Streaming
<1>3. CASE FinishBackup
  <2>1. pc = "upload" /\ pc' = "patch" /\ BackupDue(mem) /\ mem \in Object
    BY <1>0, <1>3 DEF FinishBackup, Goto, Streaming, TypeOK
  <2>2. now # mem.lastBackup /\ NextRun(now) # mem.nextBackup /\ now # Never
    BY <1>0, <2>1, DueMovesNextRun DEF Ok
  <2>3. Ok(mem')
    BY <1>3, <2>2, FinishedFields DEF Ok, ScheduledAfter
  <2>4. mem.lastBackup = base.lastBackup /\ mem.nextBackup = base.nextBackup
    BY <1>0, <2>1 DEF Ok
  <2> QED BY <1>0, <1>3, <1>a, <2>1, <2>2, <2>3, <2>4, FinishedFields DEF Streaming
<1>4. CASE patch
  <2>1. \/ hcp'.lastBackup = hcp.lastBackup /\ hcp'.nextBackup = hcp.nextBackup
        \/ hcp'.lastBackup = mem.lastBackup /\ hcp'.nextBackup = mem.nextBackup
    BY <1>0, <1>4, WrittenFields DEF Field, Ok
  <2>2. Ok(hcp')
    BY <1>0, <2>1 DEF Ok
  <2> QED BY <1>0, <1>4, <1>a, <1>b, <2>2, WrittenFields DEF Streaming
<1>5. CASE LoseReconcile
  BY <1>0, <1>5, <1>a, <1>b DEF LoseReconcile, EndReconcile, objVars, Streaming
<1>6. CASE UpdateSpec
  <2>1. Ok(hcp')
    BY <1>0, <1>6, UpdatedFields DEF Ok
  <2>2. Streaming' => BackupDue(mem)'
    BY <1>0, <1>6, DueStays, UpdatedFields DEF UpdateSpec, Streaming
  <2> QED BY <1>0, <1>6, <1>a, <2>1, <2>2, UpdatedFields
<1>7. CASE SyncCache
  <2>1. Streaming' => BackupDue(mem)'
    BY <1>0, <1>7, DueStays DEF SyncCache, ctrlVars, Streaming
  <2> QED BY <1>0, <1>7, <1>a, <2>1 DEF SyncCache, ctrlVars
<1>8. CASE Quiet
  <2>1. Streaming' => BackupDue(mem)'
    BY <1>0, <1>8, DueStays DEF Quiet
  <2> QED BY <1>0, <1>8, <1>a, <2>1 DEF Quiet
<1> QED BY <1>1, <1>2, <1>3, <1>4, <1>5, <1>6, <1>7, <1>8, StepKinds

\* No copy shows a backup at first.
LEMMA ScheduleInit == Init => ScheduleInv
<1> SUFFICES ASSUME Init PROVE ScheduleInv
  OBVIOUS
<1>1. mem = base /\ pc = "idle"
  BY DEF Init
<1> QED BY <1>1, InitFields DEF ScheduleInv, ScheduledAfter, Streaming

\* The next run in the status is that of the last backup in the status: the
\* patch, which writes only changed fields, never writes one without the other.
THEOREM NextRunAlwaysMatches == Spec => []NextRunMatchesLastBackup
<1>1. ScheduleInv => NextRunMatchesLastBackup
  BY DEF ScheduleInv, NextRunMatchesLastBackup, Copies, ScheduledAfter
<1> QED BY <1>1, TypeInit, TypeStep, ScheduleInit, ScheduleStep, PTL DEF Spec

-----------------------------------------------------------------------------
(* The rate limits.                                                        *)

Stamp == {"lastBackup", "lastAttempt"}

\* Timestamps and their quotas are numbers.
LEMMA StampTypes ==
  ASSUME NEW o \in Object, NEW f \in Stamp, NEW d \in Nat \ {0}
  PROVE  o[f] \in Nat /\ Quota(o[f], d) \in Nat
<1>1. o[f] \in Nat
  BY ConstantsNat DEF Object, Stamp, Time
<1> QED BY <1>1, QuotaMonotone

\* What the accounts say in the next state.
LEMMA QuotaNext ==
  ASSUME NEW n, NEW f, NEW d,
         NEW s \in {0, 1}, NEW c \in {0, 1},
         s = 0 <=> mem'[f] = base'[f],
         c = 0 <=> mem'[f] = base'[f] /\ ~(pc' = "idle" /\ cache' # hcp'),
         hcp'[f] <= now', cache'[f] <= now', base'[f] <= now', mem'[f] <= now',
         n <= Quota(hcp'[f], d) + missed' + s,
         n <= Quota(cache'[f], d) + missed' + c,
         pc' # "idle" => n <= Quota(mem'[f], d) + missed' + 0,
         pc' = "idle" => mem' = base'
  PROVE  QuotaInv(n, f, d)'
<1>1. s = IF mem'[f] # base'[f] THEN 1 ELSE 0
  OBVIOUS
<1>2. c = IF mem'[f] # base'[f] \/ (pc' = "idle" /\ cache' # hcp') THEN 1 ELSE 0
  OBVIOUS
<1> QED BY <1>1, <1>2 DEF QuotaInv, Copies, Quota, Never

\* What they say in this state, spelled out.
LEMMA QuotaParts ==
  ASSUME TypeOK, NEW n \in Nat, NEW f \in Stamp, NEW d \in Nat \ {0}, QuotaInv(n, f, d)
  PROVE  /\ \A o \in Copies : o \in Object /\ o[f] \in Nat /\ Quota(o[f], d) \in Nat
         /\ hcp[f] <= now /\ cache[f] <= now /\ base[f] <= now /\ mem[f] <= now
         /\ n <= Quota(hcp[f], d) + missed + 1 /\ n <= Quota(cache[f], d) + missed + 1
         /\ mem[f] = base[f] => n <= Quota(hcp[f], d) + missed
         /\ mem[f] = base[f] /\ (pc # "idle" \/ cache = hcp) => n <= Quota(cache[f], d) + missed
         /\ pc # "idle" => n <= Quota(mem[f], d) + missed
         /\ pc = "idle" => mem = base
         /\ now \in Nat /\ now > 0 /\ missed \in Nat
<1>1. \A o \in Copies : o \in Object
  BY DEF Copies, TypeOK
<1>2. \A o \in Copies : o[f] \in Nat /\ Quota(o[f], d) \in Nat
  BY <1>1, StampTypes
<1>3. now \in Nat /\ now > 0 /\ missed \in Nat
  BY ConstantsNat, CounterTypes DEF TypeOK
<1>4. hcp \in Copies /\ cache \in Copies /\ base \in Copies /\ mem \in Copies
  BY DEF Copies
<1>5. hcp[f] <= now /\ cache[f] <= now /\ base[f] <= now /\ mem[f] <= now
  BY <1>4 DEF QuotaInv
<1>6. /\ n <= Quota(hcp[f], d) + missed + 1
      /\ mem[f] = base[f] => n <= Quota(hcp[f], d) + missed
  BY <1>2, <1>3, <1>4 DEF QuotaInv
<1>7. /\ n <= Quota(cache[f], d) + missed + 1
      /\ mem[f] = base[f] /\ (pc # "idle" \/ cache = hcp) => n <= Quota(cache[f], d) + missed
  BY <1>2, <1>3, <1>4 DEF QuotaInv
<1>8. /\ pc # "idle" => n <= Quota(mem[f], d) + missed
      /\ pc = "idle" => mem = base
  BY <1>2, <1>3, <1>4 DEF QuotaInv
<1> QED BY <1>1, <1>2, <1>3, <1>5, <1>6, <1>7, <1>8

\* A step that leaves the timestamp alone in all copies; if it adds a run it
\* counts as missed.
LEMMA QuotaKept ==
  ASSUME TypeOK, NEW f \in Stamp, NEW d \in Nat \ {0},
         NEW n \in Nat, NEW m \in Nat, QuotaInv(n, f, d),
         UNCHANGED <<hcp, cache, base>>, mem'[f] = mem[f],
         pc' = "idle" <=> pc = "idle", pc = "idle" => UNCHANGED mem,
         now' \in {now, now + 1},
         \/ m = n /\ missed' = missed
         \/ m <= n + 1 /\ missed' = missed + 1
  PROVE  QuotaInv(m, f, d)'
<1>0. hcp \in Copies /\ cache \in Copies /\ base \in Copies /\ mem \in Copies
  BY DEF Copies
<1> DEFINE h == Quota(hcp[f], d)
           k == Quota(cache[f], d)
           w == Quota(mem[f], d)
           s == IF mem'[f] = base'[f] THEN 0 ELSE 1
           c == IF mem'[f] = base'[f] /\ ~(pc' = "idle" /\ cache' # hcp') THEN 0 ELSE 1
<1>1. h \in Nat /\ k \in Nat /\ w \in Nat /\ missed \in Nat /\ now \in Nat
  BY <1>0, QuotaParts
<1>2. /\ n <= h + missed + s /\ n <= k + missed + c
      /\ pc # "idle" => n <= w + missed
  BY <1>0, <1>1, QuotaParts
<1>3. Quota(hcp'[f], d) = h /\ Quota(cache'[f], d) = k /\ Quota(mem'[f], d) = w
  OBVIOUS
<1>4. s \in {0, 1} /\ c \in {0, 1}
  OBVIOUS
<1>5. /\ s = 0 <=> mem'[f] = base'[f]
      /\ c = 0 <=> mem'[f] = base'[f] /\ ~(pc' = "idle" /\ cache' # hcp')
  OBVIOUS
<1>6. hcp'[f] <= now' /\ cache'[f] <= now' /\ base'[f] <= now' /\ mem'[f] <= now'
  BY <1>0, <1>1, QuotaParts
<1> HIDE DEF h, k, w, s, c
<1>7. /\ m <= Quota(hcp'[f], d) + missed' + s
      /\ m <= Quota(cache'[f], d) + missed' + c
      /\ pc' # "idle" => m <= Quota(mem'[f], d) + missed' + 0
  BY <1>1, <1>2, <1>3, <1>4
<1>8. pc' = "idle" => mem' = base'
  BY QuotaParts
<1> QED BY <1>4, <1>5, <1>6, <1>7, <1>8, QuotaNext

\* The run is done and its time noted in the working copy, after the quota of
\* that copy had grown.
LEMMA QuotaNoted ==
  ASSUME TypeOK, NEW f \in Stamp, NEW d \in Nat \ {0},
         NEW n \in Nat, NEW m \in Nat, QuotaInv(n, f, d), m <= n + 1,
         pc # "idle", pc' # "idle", mem[f] = base[f], mem'[f] = now, mem[f] # now,
         Quota(mem[f], d) + 1 <= Quota(now, d),
         UNCHANGED <<hcp, cache, base, missed, now>>
  PROVE  QuotaInv(m, f, d)'
<1>0. hcp \in Copies /\ cache \in Copies /\ base \in Copies /\ mem \in Copies
  BY DEF Copies
<1>1. /\ Quota(hcp[f], d) \in Nat /\ Quota(cache[f], d) \in Nat /\ Quota(mem[f], d) \in Nat
      /\ missed \in Nat /\ now \in Nat
  BY <1>0, QuotaParts
<1>2. Quota(now, d) \in Nat
  BY <1>1, QuotaMonotone
<1>3. /\ n <= Quota(hcp[f], d) + missed /\ n <= Quota(cache[f], d) + missed
      /\ n <= Quota(mem[f], d) + missed
  BY QuotaParts
<1>4. /\ m <= Quota(hcp'[f], d) + missed' + 1 /\ m <= Quota(cache'[f], d) + missed' + 1
      /\ m <= Quota(mem'[f], d) + missed' + 0
  BY <1>1, <1>2, <1>3
<1>5. hcp'[f] <= now' /\ cache'[f] <= now' /\ base'[f] <= now' /\ mem'[f] <= now'
  BY <1>0, <1>1, QuotaParts
<1>6. mem'[f] # base'[f]
  OBVIOUS
<1> QED BY <1>4, <1>5, <1>6, QuotaNext

\* The steps that move the timestamp from one copy to another.
LEMMA QuotaMoved ==
  ASSUME TypeOK, NEW f \in Stamp, NEW d \in Nat \ {0}, NEW n \in Nat, QuotaInv(n, f, d),
         BeginReconcile \/ patch \/ LoseReconcile \/ UpdateSpec \/ SyncCache
  PROVE  QuotaInv(n, f, d)'
<1>0. hcp \in Copies /\ cache \in Copies /\ base \in Copies /\ mem \in Copies
  BY DEF Copies
<1> DEFINE h == Quota(hcp[f], d)
           k == Quota(cache[f], d)
           w == Quota(mem[f], d)
<1>1. h \in Nat /\ k \in Nat /\ w \in Nat /\ missed \in Nat /\ now \in Nat /\ 0 <= now
  BY <1>0, QuotaParts
<1>2. /\ n <= h + missed + 1 /\ n <= k + missed + 1
      /\ mem[f] = base[f] => n <= h + missed
      /\ mem[f] = base[f] /\ (pc # "idle" \/ cache = hcp) => n <= k + missed
      /\ pc # "idle" => n <= w + missed
      /\ pc = "idle" => mem = base
  BY QuotaParts
<1>3. hcp[f] <= now /\ cache[f] <= now /\ base[f] <= now /\ mem[f] <= now
  BY QuotaParts
<1>4. NoObject[f] = 0
  BY NoFields DEF Stamp, Never
<1> HIDE DEF h, k, w
<1>5. CASE BeginReconcile
  <2>1. /\ pc = "idle" /\ pc' = "maintenance" /\ mem' = cache /\ base' = cache
        /\ UNCHANGED <<hcp, cache, now>>
        /\ \/ cache = hcp /\ missed' = missed
           \/ missed' = missed + 1
    BY <1>5 DEF BeginReconcile, Goto, objVars
  <2>2. n <= k + missed' /\ n <= h + missed'
    BY <1>1, <1>2, <2>1
  <2>3. missed' \in Nat
    BY <1>1, <2>1
  <2>4. /\ n <= Quota(hcp'[f], d) + missed' + 0 /\ n <= Quota(cache'[f], d) + missed' + 0
        /\ n <= Quota(mem'[f], d) + missed' + 0
    BY <1>1, <2>1, <2>2, <2>3 DEF h, k
  <2> QED BY <1>3, <2>1, <2>4, QuotaNext
<1>6. CASE patch
  <2>1. /\ pc = "patch" /\ pc' = "idle" /\ mem' = NoObject /\ base' = NoObject
        /\ UNCHANGED <<cache, now, missed>>
        /\ hcp'[f] = IF mem[f] # base[f] THEN mem[f] ELSE hcp[f]
    BY <1>6, WrittenFields DEF patch, Field, Stamp
  <2>2. n <= Quota(hcp'[f], d) + missed' + 0 /\ hcp'[f] <= now'
    BY <1>1, <1>2, <1>3, <2>1 DEF h, w
  <2>3. n <= Quota(cache'[f], d) + missed' + 1
    BY <1>2, <2>1 DEF k
  <2>4. cache' = hcp' => n <= Quota(cache'[f], d) + missed' + 0
    BY <2>2
  <2> DEFINE c == IF cache' # hcp' THEN 1 ELSE 0
  <2>5. c \in {0, 1} /\ (c = 0 <=> cache' = hcp') /\ n <= Quota(cache'[f], d) + missed' + c
    BY <2>3, <2>4
  <2> HIDE DEF c
  <2> QED BY <1>1, <1>3, <1>4, <2>1, <2>2, <2>5, QuotaNext
<1>7. CASE LoseReconcile
  <2>1. /\ pc # "idle" /\ pc' = "idle" /\ mem' = NoObject /\ base' = NoObject
        /\ UNCHANGED <<hcp, cache, now>>
        /\ missed' = IF mem = base THEN missed ELSE missed + 1
    BY <1>7 DEF LoseReconcile, EndReconcile, objVars
  <2>2. n <= h + missed' /\ n <= k + missed' /\ missed' \in Nat
    BY <1>1, <1>2, <2>1
  <2>3. /\ n <= Quota(hcp'[f], d) + missed' + 0 /\ n <= Quota(cache'[f], d) + missed' + 0
        /\ n <= Quota(cache'[f], d) + missed' + 1
    BY <1>1, <2>1, <2>2 DEF h, k
  <2> DEFINE c == IF cache' # hcp' THEN 1 ELSE 0
  <2>4. c \in {0, 1} /\ (c = 0 <=> cache' = hcp') /\ n <= Quota(cache'[f], d) + missed' + c
    BY <2>3
  <2> HIDE DEF c
  <2> QED BY <1>1, <1>3, <1>4, <2>1, <2>3, <2>4, QuotaNext
<1>8. CASE UpdateSpec \/ SyncCache
  <2>1. /\ UNCHANGED <<pc, mem, base, now, missed>> /\ hcp'[f] = hcp[f]
        /\ cache'[f] = cache[f] \/ (cache' = hcp' /\ cache'[f] = hcp[f])
        /\ cache'[f] <= now
    BY <1>3, <1>8, UpdatedFields DEF UpdateSpec, SyncCache, ctrlVars, Stamp
  <2> DEFINE s == IF mem[f] = base[f] THEN 0 ELSE 1
             c == IF mem[f] = base[f] /\ ~(pc = "idle" /\ cache' # hcp') THEN 0 ELSE 1
  <2>2. n <= h + missed + s
    BY <1>1, <1>2
  <2>3. n <= Quota(cache'[f], d) + missed + c
    <3>1. CASE cache' = hcp'
      <4>1. Quota(cache'[f], d) = h
        BY <2>1, <3>1 DEF h
      <4> QED BY <1>1, <1>2, <3>1, <4>1
    <3>2. CASE cache' # hcp'
      <4>1. Quota(cache'[f], d) = k
        BY <2>1, <3>2 DEF k
      <4> QED BY <1>1, <1>2, <3>2, <4>1
    <3> QED BY <3>1, <3>2
  <2>4. /\ s \in {0, 1} /\ c \in {0, 1}
        /\ s = 0 <=> mem'[f] = base'[f]
        /\ c = 0 <=> mem'[f] = base'[f] /\ ~(pc' = "idle" /\ cache' # hcp')
    BY <2>1
  <2> HIDE DEF s, c
  <2>5. /\ n <= Quota(hcp'[f], d) + missed' + s
        /\ n <= Quota(cache'[f], d) + missed' + c
        /\ pc' # "idle" => n <= Quota(mem'[f], d) + missed' + 0
    BY <1>1, <1>2, <2>1, <2>2, <2>3 DEF h, w
  <2>6. /\ hcp'[f] <= now' /\ cache'[f] <= now' /\ base'[f] <= now' /\ mem'[f] <= now'
        /\ pc' = "idle" => mem' = base'
    BY <1>2, <1>3, <2>1
  <2> QED BY <2>4, <2>5, <2>6, QuotaNext
<1> QED BY <1>5, <1>6, <1>7, <1>8

\* A set of times can be counted, and a further time counts at most once.
LEMMA TimesCounted ==
  ASSUME NEW S \in SUBSET Time, NEW t
  PROVE  Cardinality(S) \in Nat /\ Cardinality(S \cup {t}) \in Nat
         /\ Cardinality(S \cup {t}) <= Cardinality(S) + 1
<1>1. IsFiniteSet(Time)
  BY ConstantsNat, FS_Interval DEF Time
<1>2. IsFiniteSet(S)
  BY <1>1, FS_Subset
<1>3. /\ IsFiniteSet(S \cup {t})
      /\ Cardinality(S \cup {t}) = IF t \in S THEN Cardinality(S) ELSE Cardinality(S) + 1
  BY <1>2, FS_AddElement
<1>4. Cardinality(S) \in Nat /\ Cardinality(S \cup {t}) \in Nat
  BY <1>2, <1>3, FS_CardinalityType
<1> QED BY <1>3, <1>4

\* Every step keeps the accounts of the backups and of the defragmentations.
LEMMA RateStep == TypeOK /\ ScheduleInv /\ RateInv /\ [Next]_vars => RateInv'
<1> SUFFICES ASSUME TypeOK, ScheduleInv, RateInv, [Next]_vars PROVE RateInv'
  OBVIOUS
<1> DEFINE n == Cardinality(stored)
           m == Cardinality(defrags)
<1>0. /\ QuotaInv(n, "lastBackup", Period) /\ QuotaInv(m, "lastAttempt", Cooldown)
      /\ pc \in {"maintenance", "defrag"} => mem.lastAttempt = base.lastAttempt
  BY DEF RateInv
<1>a. stored \in SUBSET Time /\ defrags \in SUBSET Time
  BY DEF TypeOK
<1>b. n \in Nat /\ m \in Nat
  BY <1>a, TimesCounted
<1>c. "lastBackup" \in Stamp /\ "lastAttempt" \in Stamp
  BY DEF Stamp
<1>d. now \in Nat /\ now # 0 /\ missed \in Nat /\ mem \in Object
      /\ mem.lastBackup \in Nat /\ mem.lastAttempt \in Nat
  BY ConstantsNat, CounterTypes DEF TypeOK, Object, Time
<1>1. CASE BeginReconcile \/ patch \/ LoseReconcile \/ UpdateSpec \/ SyncCache
  <2>1. UNCHANGED <<stored, defrags>>
    BY <1>1 DEF BeginReconcile, patch, LoseReconcile, UpdateSpec, SyncCache, worldVars
  <2>2. pc' \in {"maintenance", "defrag"} => mem'.lastAttempt = base'.lastAttempt
    BY <1>0, <1>1 DEF BeginReconcile, patch, LoseReconcile, UpdateSpec, SyncCache,
       EndReconcile, ctrlVars
  <2> HIDE DEF n, m
  <2>3. QuotaInv(n, "lastBackup", Period)' /\ QuotaInv(m, "lastAttempt", Cooldown)'
    BY <1>0, <1>1, <1>b, <1>c, <2>1, ConstantsNat, QuotaMoved DEF QuotaInv, Quota, Copies, n, m
  <2> QED BY <2>2, <2>3 DEF RateInv, n, m
<1>2. CASE reconcileETCDDefragmentation
  <2>1. pc = "defrag" /\ pc' # "idle" /\ pc' \notin {"maintenance", "defrag"}
        /\ UNCHANGED <<stored, missed, now>>
    BY <1>2 DEF reconcileETCDDefragmentation, Goto
  <2>2. QuotaInv(n, "lastBackup", Period)'
    <3> HIDE DEF n
    <3>1. mem'["lastBackup"] = mem["lastBackup"] /\ UNCHANGED <<hcp, cache, base>>
      BY <1>2, DefragmentedFields
    <3>2. ASSUME NEW q \in Nat, QuotaInv(q, "lastBackup", Period)
          PROVE  QuotaInv(q, "lastBackup", Period)'
      BY <1>c, <2>1, <3>1, <3>2, ConstantsNat, QuotaKept
    <3> QED BY <1>0, <1>b, <2>1, <3>2 DEF QuotaInv, Quota, Copies, n
  <2>3. QuotaInv(m, "lastAttempt", Cooldown)'
    <3>1. UNCHANGED <<hcp, cache, base>>
      BY <1>2, DefragmentedFields
    <3>2. CASE UNCHANGED <<mem, defrags>>
      <4> HIDE DEF m
      <4>1. ASSUME NEW q \in Nat, QuotaInv(q, "lastAttempt", Cooldown)
            PROVE  QuotaInv(q, "lastAttempt", Cooldown)'
        BY <1>c, <2>1, <3>1, <3>2, <4>1, ConstantsNat, QuotaKept
      <4> QED BY <1>0, <1>b, <3>2, <4>1 DEF QuotaInv, Quota, Copies, m
    <3>3. CASE ~UNCHANGED <<mem, defrags>>
      <4>1. /\ ~CoolingDown(mem) /\ mem'["lastAttempt"] = now
            /\ defrags' = defrags \cup {now}
        BY <1>2, <3>3, DefragmentedFields
      <4>2. mem.lastAttempt = 0 \/ mem.lastAttempt + Cooldown <= now
        BY <1>d, <4>1, ConstantsNat DEF CoolingDown, Never
      <4>3. Quota(mem.lastAttempt, Cooldown) + 1 <= Quota(now, Cooldown)
        BY <1>d, <4>2, ConstantsNat, QuotaGrows
      <4>4. mem.lastAttempt # now
        BY <1>d, <4>2, ConstantsNat
      <4>5. m' \in Nat /\ m' <= m + 1
        BY <1>a, <4>1, TimesCounted
      <4> HIDE DEF m
      <4>6. ASSUME NEW q \in Nat, q <= m + 1 PROVE QuotaInv(q, "lastAttempt", Cooldown)'
        BY <1>0, <1>b, <1>c, <2>1, <3>1, <4>1, <4>3, <4>4, <4>6, ConstantsNat, QuotaNoted
      <4> QED BY <4>5, <4>6 DEF QuotaInv, Quota, Copies, m
    <3> QED BY <3>2, <3>3
  <2> QED BY <2>1, <2>2, <2>3 DEF RateInv
<1>3. CASE FinishBackup
  <2>1. pc = "upload" /\ pc' = "patch" /\ UNCHANGED <<defrags, missed, now>>
        /\ stored' = stored \cup {now}
    BY <1>3 DEF FinishBackup, Goto
  <2>2. QuotaInv(m, "lastAttempt", Cooldown)'
    <3> HIDE DEF m
    <3>1. mem'["lastAttempt"] = mem["lastAttempt"] /\ UNCHANGED <<hcp, cache, base>>
      BY <1>3, FinishedFields
    <3>2. ASSUME NEW q \in Nat, QuotaInv(q, "lastAttempt", Cooldown)
          PROVE  QuotaInv(q, "lastAttempt", Cooldown)'
      BY <1>c, <2>1, <3>1, <3>2, ConstantsNat, QuotaKept
    <3> QED BY <1>0, <1>b, <2>1, <3>2 DEF QuotaInv, Quota, Copies, m
  <2>3. QuotaInv(n, "lastBackup", Period)'
    <3>1. UNCHANGED <<hcp, cache, base>> /\ mem'["lastBackup"] = now
      BY <1>3, FinishedFields
    <3>2. BackupDue(mem) /\ mem.lastBackup = base.lastBackup
      BY <2>1 DEF ScheduleInv, Streaming
    <3>3. mem.lastBackup = 0 \/ NextRun(mem.lastBackup) < now
      BY <3>2 DEF BackupDue, Never
    <3>4. Quota(mem.lastBackup, Period) + 1 <= Quota(now, Period)
      BY <1>d, <3>3, QuotaGrowsBySchedule
    <3>5. mem.lastBackup # now
      BY <1>d, <3>3, NextRunLater
    <3>6. n' \in Nat /\ n' <= n + 1
      BY <1>a, <2>1, TimesCounted
    <3> HIDE DEF n
    <3>7. ASSUME NEW q \in Nat, q <= n + 1 PROVE QuotaInv(q, "lastBackup", Period)'
      BY <1>0, <1>b, <1>c, <2>1, <3>1, <3>2, <3>4, <3>5, <3>7, ConstantsNat, QuotaNoted
    <3> QED BY <3>6, <3>7 DEF QuotaInv, Quota, Copies, n
  <2> QED BY <2>1, <2>2, <2>3 DEF RateInv
<1>4. CASE Quiet
  <2>1. /\ UNCHANGED <<hcp, cache, base, mem, defrags>> /\ now' \in {now, now + 1}
        /\ pc' = "idle" <=> pc = "idle"
    BY <1>4 DEF Quiet
  <2>2. pc' \in {"maintenance", "defrag"} => mem'.lastAttempt = base'.lastAttempt
    BY <1>0, <1>4 DEF Quiet
  <2>3. missed' \in {missed, missed + 1}
    BY <1>4 DEF Quiet
  <2>4. ASSUME NEW f \in Stamp, NEW d \in Nat \ {0}, NEW p \in Nat, NEW q \in Nat,
               QuotaInv(p, f, d),
               \/ q = p /\ missed' = missed
               \/ q <= p + 1 /\ missed' = missed + 1
        PROVE  QuotaInv(q, f, d)'
    BY <2>1, <2>4, QuotaKept
  <2>5. /\ n' \in Nat
        /\ \/ n' = n /\ missed' = missed
           \/ n' <= n + 1 /\ missed' = missed + 1
    <3>1. CASE UNCHANGED <<stored, missed>>
      <4>1. n' = n
        BY <3>1
      <4> QED BY <1>b, <3>1, <4>1, Zenon
    <3>2. CASE stored' = stored \cup {now} /\ missed' = missed + 1
      BY <1>a, <3>2, TimesCounted
    <3> QED BY <1>4, <3>1, <3>2 DEF Quiet
  <2>6. m' = m
    BY <2>1
  <2> HIDE DEF n, m
  <2>7. QuotaInv(n, "lastBackup", Period)'
    <3>1. ASSUME NEW q \in Nat,
                 \/ q = n /\ missed' = missed
                 \/ q <= n + 1 /\ missed' = missed + 1
          PROVE  QuotaInv(q, "lastBackup", Period)'
      BY <1>0, <1>b, <1>c, <2>4, <3>1, ConstantsNat
    <3> QED BY <2>5, <3>1 DEF QuotaInv, Quota, Copies, n
  <2>8. QuotaInv(m, "lastAttempt", Cooldown)'
    <3>1. ASSUME NEW q \in Nat, q = m PROVE QuotaInv(q, "lastAttempt", Cooldown)'
      <4>1. \/ q = m /\ missed' = missed
            \/ q <= m + 1 /\ missed' = missed + 1
        BY <1>b, <2>3, <3>1
      <4> QED BY <1>0, <1>b, <1>c, <2>4, <4>1, ConstantsNat
    <3> QED BY <1>b, <2>6, <3>1 DEF QuotaInv, Quota, Copies, m
  <2> QED BY <2>2, <2>7, <2>8 DEF RateInv, n, m
<1> QED BY <1>1, <1>2, <1>3, <1>4, StepKinds

\* Nothing has run at first.
LEMMA RateInit == Init => RateInv
<1> SUFFICES ASSUME Init PROVE RateInv
  OBVIOUS
<1>1. /\ \A o \in Copies : o["lastBackup"] = 0 /\ o["lastAttempt"] = 0
      /\ Quota(0, Period) = 0 /\ Quota(0, Cooldown) = 0
  BY InitFields DEF Quota, Never
<1>2. hcp \in Copies /\ cache \in Copies /\ base \in Copies /\ mem \in Copies
  BY DEF Copies
<1>3. /\ now = 1 /\ missed = 0 /\ pc = "idle" /\ mem = base /\ cache = hcp
      /\ Cardinality(stored) = 0 /\ Cardinality(defrags) = 0
  BY FS_EmptySet DEF Init
<1>4. QuotaInv(0, "lastBackup", Period) /\ QuotaInv(0, "lastAttempt", Cooldown)
  BY <1>1, <1>2, <1>3 DEF QuotaInv
<1> QED BY <1>3, <1>4 DEF RateInv

\* The accounts bound what happened so far.
LEMMA QuotaBounds ==
  ASSUME TypeOK, NEW f \in Stamp, NEW d \in Nat \ {0}, NEW n \in Nat, QuotaInv(n, f, d)
  PROVE  n <= 1 + (now - 1) \div d + missed
<1>0. hcp \in Copies /\ mem \in Copies
  BY DEF Copies
<1>1. PICK o \in {hcp, mem} : n <= Quota(o[f], d) + missed
  BY QuotaParts
<1>2. o[f] \in Nat /\ Quota(o[f], d) \in Nat /\ o[f] <= now /\ now \in Nat \ {0}
      /\ missed \in Nat
  BY <1>0, QuotaParts
<1>3. Quota(o[f], d) <= Quota(now, d)
  BY <1>2, QuotaMonotone
<1>4. Quota(now, d) = 1 + (now - 1) \div d /\ Quota(now, d) \in Nat
  BY <1>2, QuotaMonotone DEF Quota, Never
<1> QED BY <1>1, <1>2, <1>3, <1>4

\* At most one backup per run of the schedule and one defragmentation per
\* cooldown, plus one for each reconcile whose timestamps were lost or read
\* outdated: errors in later steps repeat neither.
THEOREM AlwaysRateLimited == Spec => []RateLimited
<1>1. TypeOK /\ RateInv => RateLimited
  <2> SUFFICES ASSUME TypeOK, RateInv PROVE RateLimited
    OBVIOUS
  <2>1. Cardinality(stored) \in Nat /\ Cardinality(defrags) \in Nat
    BY TimesCounted DEF TypeOK
  <2>2. /\ QuotaInv(Cardinality(stored), "lastBackup", Period)
        /\ QuotaInv(Cardinality(defrags), "lastAttempt", Cooldown)
    BY DEF RateInv
  <2> QED BY <2>1, <2>2, QuotaBounds, ConstantsNat DEF RateLimited, Stamp
<1> QED BY <1>1, TypeInit, TypeStep, ScheduleInit, ScheduleStep, RateInit, RateStep, PTL
        DEF Spec

=============================================================================
