--------------------------- MODULE EtcdMaintenance ---------------------------
(***************************************************************************)
(* Defragmentation and backup of a hosted etcd cluster                     *)
(* (reconcileETCDMaintenance, etcdIsHealthy and reconcileETCDBackup of     *)
(* pkg/reconcilers/etcd_cluster/reconciler.go).                            *)
(*                                                                         *)
(* Both are rate limited by timestamps in the status of the                *)
(* HostedControlPlane.  A reconcile reads them from the informer cache,    *)
(* which may be outdated, and writes them back in one deferred patch at    *)
(* its end, which may be lost.  A backup streams a snapshot to S3 under a  *)
(* watchdog that cancels it when there is no progress.                     *)
(*                                                                         *)
(* Simplifications: time advances in ticks; the cron schedule fires at the *)
(* multiples of Period; what the reconcile does before (EtcdVolume) and    *)
(* after these steps may only fail.                                        *)
(***************************************************************************)
EXTENDS Integers, FiniteSets

CONSTANTS
    Period,     \* ticks between two runs of the backup schedule
    Cooldown,   \* etcdDefragmentationCooldown (1h)
    Interval,   \* watchdogInterval (1min)
    Chunks,     \* parts of a snapshot whose upload reports progress
    Readings,   \* etcd status responses: [dbSize, dbSizeInUse]
    MaxTime,    \* bound: the clock stops here
    MaxFaults,  \* bound: failures, stalls and outdated reads
    MaxEdits    \* bound: changes of spec.etcd.backup

ASSUME ConstantsAssumption ==
    /\ Period \in Nat \ {0} /\ Cooldown \in Nat \ {0}
    /\ Interval \in Nat \ {0} /\ Chunks \in Nat
    /\ Readings \subseteq [dbSize : Nat, dbSizeInUse : Nat]
    /\ MaxTime \in Nat \ {0} /\ MaxFaults \in Nat /\ MaxEdits \in Nat

Never == 0      \* the zero time; the clock starts at 1

VARIABLES
    now,        \* the clock
    hcp,        \* the stored object: spec.etcd.backup and the timestamps
    cache,      \* the informer's copy
    pc,         \* next step of the reconcile in flight
    base, mem,  \* the object as read, and the copy worked on
    alarms,     \* alarms no autoGrow or headroom excuses (CORRUPT, ...)
    timer,      \* ticks since the watchdog was last reset
    silent,     \* ticks since the stream last made progress
    hung,       \* the stream makes no progress any more
    cancelled,  \* the watchdog has cancelled the backup's context
    chunks,     \* parts still to be uploaded
    stored,     \* completion times of the snapshots in the bucket
    defrags,    \* times at which a defragmentation was started
    missed,     \* reconciles whose timestamps were lost or read outdated
    faults, edits

objVars    == <<hcp, cache, edits>>
ctrlVars   == <<pc, base, mem>>
streamVars == <<timer, silent, hung, cancelled, chunks>>
worldVars  == <<alarms, stored, defrags>>
vars       == <<now, objVars, ctrlVars, streamVars, worldVars, missed, faults>>

Time   == 0 .. MaxTime
Steps  == {"maintenance", "defrag", "health", "backup", "open", "upload", "patch"}
Object == [backup : BOOLEAN, lastBackup : Time, nextBackup : Nat,
           lastAttempt : Time, lastDefrag : Time]

NoObject == [backup |-> FALSE, lastBackup |-> Never, nextBackup |-> Never,
             lastAttempt |-> Never, lastDefrag |-> Never]

TypeOK ==
    /\ now \in 1 .. MaxTime
    /\ {hcp, cache, base, mem} \subseteq Object
    /\ pc \in Steps \cup {"idle"}
    /\ alarms \in BOOLEAN /\ hung \in BOOLEAN /\ cancelled \in BOOLEAN
    /\ timer \in 0 .. Interval /\ silent \in 0 .. Interval /\ chunks \in 0 .. Chunks
    /\ stored \subseteq Time /\ defrags \subseteq Time
    /\ missed \in 0 .. faults /\ faults \in 0 .. MaxFaults /\ edits \in 0 .. MaxEdits

-----------------------------------------------------------------------------
(* The decisions of the code.                                              *)

\* cron.Schedule.Next: the first run strictly after t.
NextRun(t) == (t \div Period + 1) * Period

\* Mutant: the zero time is not treated as "no backup yet".
BackupDueNoZero(o) == o.lastBackup # Never /\ NextRun(o.lastBackup) < now

\* There is no backup yet, or a run of the schedule has passed since.
BackupDue(o) == o.lastBackup = Never \/ NextRun(o.lastBackup) < now

CoolingDown(o) == o.lastAttempt # Never /\ now - o.lastAttempt < Cooldown

\* More than 20% of the database file is free.
Fragmented(s) ==
    /\ s.dbSize # 0 /\ s.dbSizeInUse <= s.dbSize
    /\ (s.dbSize - s.dbSizeInUse) * 100 > 20 * s.dbSize

-----------------------------------------------------------------------------
Init ==
    /\ now = 1
    /\ \E backup \in BOOLEAN : hcp = [NoObject EXCEPT !.backup = backup]
    /\ cache = hcp
    /\ pc = "idle" /\ base = NoObject /\ mem = NoObject
    /\ alarms = FALSE
    /\ timer = 0 /\ silent = 0 /\ hung = FALSE /\ cancelled = FALSE /\ chunks = 0
    /\ stored = {} /\ defrags = {}
    /\ missed = 0 /\ faults = 0 /\ edits = 0

Goto(step) == pc' = step

Fault == faults < MaxFaults /\ faults' = faults + 1

NoStream == timer' = 0 /\ silent' = 0 /\ hung' = FALSE /\ cancelled' = FALSE
            /\ chunks' = 0

\* A reconcile starts from the cached object.
BeginReconcile ==
    /\ pc = "idle"
    /\ mem' = cache /\ base' = cache
    /\ Goto("maintenance")
    /\ IF cache = hcp THEN UNCHANGED <<missed, faults>>
                      ELSE Fault /\ missed' = missed + 1
    /\ UNCHANGED <<now, objVars, streamVars, worldVars>>

\* GetStatuses: every scheduled member answered.
reconcileETCDMaintenance ==
    /\ pc = "maintenance"
    /\ Goto("defrag")
    /\ UNCHANGED <<now, objVars, base, mem, streamVars, worldVars, missed, faults>>

\* Mutant: the attempt is noted only after a successful call.
reconcileETCDDefragmentationLate ==
    /\ pc = "defrag"
    /\ \E statuses \in SUBSET Readings :
         IF CoolingDown(mem) \/ ~\E s \in statuses : Fragmented(s)
         THEN Goto("health") /\ UNCHANGED <<mem, defrags, faults>>
         ELSE /\ defrags' = defrags \cup {now}
              /\ \/ /\ mem' = [mem EXCEPT !.lastAttempt = now, !.lastDefrag = now]
                    /\ Goto("health") /\ UNCHANGED faults
                 \/ Fault /\ Goto("patch") /\ UNCHANGED mem
    /\ UNCHANGED <<now, objVars, base, streamVars, alarms, stored, missed>>

\* One fragmented member is enough to defragment all of them.  The attempt
\* is noted before the call, so that a failing one counts as well.
reconcileETCDDefragmentation ==
    /\ pc = "defrag"
    /\ \E statuses \in SUBSET Readings :
         IF CoolingDown(mem) \/ ~\E s \in statuses : Fragmented(s)
         THEN Goto("health") /\ UNCHANGED <<mem, defrags, faults>>
         ELSE /\ defrags' = defrags \cup {now}
              /\ \/ /\ mem' = [mem EXCEPT !.lastAttempt = now, !.lastDefrag = now]
                    /\ Goto("health") /\ UNCHANGED faults
                 \/ /\ mem' = [mem EXCEPT !.lastAttempt = now]
                    /\ Fault /\ Goto("patch")
    /\ UNCHANGED <<now, objVars, base, streamVars, alarms, stored, missed>>

\* Active alarms end the reconcile of etcd with an error.
etcdIsHealthy ==
    /\ pc = "health"
    /\ Goto(IF alarms THEN "patch" ELSE "backup")
    /\ UNCHANGED <<now, objVars, base, mem, streamVars, worldVars, missed, faults>>

\* The backup is configured and due: the watchdog is started.
StartBackup ==
    /\ pc = "backup"
    /\ Goto(IF mem.backup /\ BackupDue(mem) THEN "open" ELSE "patch")
    /\ NoStream
    /\ UNCHANGED <<now, objVars, base, mem, worldVars, missed, faults>>

Streaming == pc \in {"open", "upload"}

\* Mutant: the backup is noted when its stream is open.
OpenSnapshotStreamNoting ==
    /\ pc = "open" /\ ~hung /\ ~cancelled
    /\ Goto("upload")
    /\ timer' = 0 /\ silent' = 0 /\ chunks' = Chunks
    /\ mem' = [mem EXCEPT !.lastBackup = now, !.nextBackup = NextRun(now)]
    /\ UNCHANGED <<hung, cancelled>>
    /\ UNCHANGED <<now, objVars, base, worldVars, missed, faults>>

\* The stream is open: the watchdog is reset and the upload starts.
OpenSnapshotStream ==
    /\ pc = "open" /\ ~hung /\ ~cancelled
    /\ Goto("upload")
    /\ timer' = 0 /\ silent' = 0 /\ chunks' = Chunks
    /\ UNCHANGED <<hung, cancelled>>
    /\ UNCHANGED <<now, objVars, base, mem, worldVars, missed, faults>>

\* Mutant: progress does not reset the watchdog.
UploadProgressNoReset ==
    /\ pc = "upload" /\ chunks > 0 /\ ~hung /\ ~cancelled
    /\ chunks' = chunks - 1
    /\ silent' = 0
    /\ UNCHANGED <<timer, hung, cancelled>>
    /\ UNCHANGED <<now, objVars, ctrlVars, worldVars, missed, faults>>

\* Mutant: the reader reports progress past the end of the snapshot.
UploadProgressPastEnd ==
    /\ pc = "upload" /\ ~hung /\ ~cancelled
    /\ chunks' = chunks - 1
    /\ timer' = 0 /\ silent' = 0
    /\ UNCHANGED <<hung, cancelled>>
    /\ UNCHANGED <<now, objVars, ctrlVars, worldVars, missed, faults>>

\* The progress reader resets the watchdog.
UploadProgress ==
    /\ pc = "upload" /\ chunks > 0 /\ ~hung /\ ~cancelled
    /\ chunks' = chunks - 1
    /\ timer' = 0 /\ silent' = 0
    /\ UNCHANGED <<hung, cancelled>>
    /\ UNCHANGED <<now, objVars, ctrlVars, worldVars, missed, faults>>

\* Mutant: the next run is computed from the previous backup.
FinishBackupOldNext ==
    /\ pc = "upload" /\ chunks = 0 /\ ~cancelled
    /\ stored' = stored \cup {now}
    /\ mem' = [mem EXCEPT !.lastBackup = now, !.nextBackup = NextRun(mem.lastBackup)]
    /\ Goto("patch")
    /\ NoStream
    /\ UNCHANGED <<now, objVars, base, alarms, defrags, missed, faults>>

\* The upload succeeded; only now the timestamps are set.
FinishBackup ==
    /\ pc = "upload" /\ chunks = 0 /\ ~cancelled
    /\ stored' = stored \cup {now}
    /\ mem' = [mem EXCEPT !.lastBackup = now, !.nextBackup = NextRun(now)]
    /\ Goto("patch")
    /\ NoStream
    /\ UNCHANGED <<now, objVars, base, alarms, defrags, missed, faults>>

\* Mutant: the stream is opened with a context the watchdog cannot cancel.
WatchdogFiresUploadOnly ==
    /\ Streaming /\ timer >= Interval /\ ~cancelled
    /\ cancelled' = (pc = "upload")
    /\ UNCHANGED <<timer, silent, hung, chunks>>
    /\ UNCHANGED <<now, objVars, ctrlVars, worldVars, missed, faults>>

\* The watchdog's timer runs out and cancels the context.
WatchdogFires ==
    /\ Streaming /\ timer >= Interval /\ ~cancelled
    /\ cancelled' = TRUE
    /\ UNCHANGED <<timer, silent, hung, chunks>>
    /\ UNCHANGED <<now, objVars, ctrlVars, worldVars, missed, faults>>

\* The cancelled call returns errETCDBackupStalled.  S3 may have stored a
\* complete snapshot all the same; then nobody notes it.
BackupStalled ==
    /\ Streaming /\ cancelled
    /\ Goto("patch")
    /\ NoStream
    /\ \/ UNCHANGED <<stored, missed, faults>>
       \/ /\ pc = "upload" /\ chunks = 0
          /\ Fault /\ missed' = missed + 1
          /\ stored' = stored \cup {now}
    /\ UNCHANGED <<now, objVars, base, mem, alarms, defrags>>

\* A step returns an error and ends the etcd phase.
Abort ==
    /\ Fault
    /\ Goto("patch")
    /\ NoStream
    /\ UNCHANGED <<now, objVars, base, mem, worldVars, missed>>

\* A member is unreachable, also after the client's retries.
CallFails == pc \in {"maintenance", "defrag", "health", "open"} /\ Abort

\* The S3 client cannot be created, for want of credentials or a bucket.
NewS3ClientFails == pc = "backup" /\ mem.backup /\ Abort

\* The upload fails.
UploadFails == pc = "upload" /\ Abort

\* The deferred patch, also after an error: every timestamp this reconcile
\* changed is written.
Patched(o) == [f \in DOMAIN o |-> IF mem[f] # base[f] THEN mem[f] ELSE o[f]]

EndReconcile == pc' = "idle" /\ mem' = NoObject /\ base' = NoObject

patch ==
    /\ pc = "patch"
    /\ hcp' = Patched(hcp)
    /\ EndReconcile
    /\ UNCHANGED <<now, cache, edits, streamVars, worldVars, missed, faults>>

\* The controller stops or its patch fails.
LoseReconcile ==
    /\ pc # "idle"
    /\ Fault
    /\ missed' = IF mem = base THEN missed ELSE missed + 1
    /\ EndReconcile
    /\ NoStream
    /\ UNCHANGED <<now, objVars, worldVars>>

-----------------------------------------------------------------------------
(* The environment.                                                        *)

\* Time passes.  A stream that does not hang makes progress, and an expired
\* watchdog fires, before another Interval is over.
Tick ==
    /\ now' = IF now < MaxTime THEN now + 1 ELSE now
    /\ IF Streaming
       THEN /\ timer < Interval /\ (hung \/ silent + 1 < Interval)
            /\ timer' = timer + 1
            /\ silent' = IF silent < Interval THEN silent + 1 ELSE silent
       ELSE now < MaxTime /\ UNCHANGED <<timer, silent>>
    /\ UNCHANGED <<hung, cancelled, chunks>>
    /\ UNCHANGED <<objVars, ctrlVars, worldVars, missed, faults>>

StreamHangs ==
    /\ Streaming /\ ~hung
    /\ Fault
    /\ hung' = TRUE
    /\ UNCHANGED <<timer, silent, cancelled, chunks>>
    /\ UNCHANGED <<now, objVars, ctrlVars, worldVars, missed>>

AlarmChanges ==
    /\ Fault
    /\ alarms' = ~alarms
    /\ UNCHANGED <<now, objVars, ctrlVars, streamVars, stored, defrags, missed>>

UpdateSpec ==
    /\ edits < MaxEdits
    /\ edits' = edits + 1
    /\ hcp' = [hcp EXCEPT !.backup = ~@]
    /\ UNCHANGED <<now, cache, ctrlVars, streamVars, worldVars, missed, faults>>

SyncCache ==
    /\ cache # hcp
    /\ cache' = hcp
    /\ UNCHANGED <<now, hcp, edits, ctrlVars, streamVars, worldVars, missed, faults>>

-----------------------------------------------------------------------------
Controller ==
    \/ BeginReconcile \/ reconcileETCDMaintenance \/ reconcileETCDDefragmentation
    \/ etcdIsHealthy \/ StartBackup \/ OpenSnapshotStream \/ UploadProgress
    \/ FinishBackup \/ WatchdogFires \/ BackupStalled \/ patch

Next ==
    \/ Controller \/ CallFails \/ NewS3ClientFails \/ UploadFails \/ LoseReconcile
    \/ Tick \/ StreamHangs \/ AlarmChanges \/ UpdateSpec \/ SyncCache

Spec == Init /\ [][Next]_vars

\* The workqueue runs reconciles for ever, a stream that does not hang goes
\* on, time passes while a stream is open and the informer catches up.
FairSpec == Spec /\ WF_vars(Controller) /\ WF_vars(SyncCache)
                 /\ WF_vars(Streaming /\ Tick)

-----------------------------------------------------------------------------
(* Properties.                                                             *)

\* A recorded backup is in the bucket: status.etcdLastBackupTime never names
\* a snapshot whose upload failed, stalled or was cut off by a crash.
RecordedBackupExists == hcp.lastBackup = Never \/ hcp.lastBackup \in stored

\* The next run shown in the status belongs to the last backup shown there,
\* although the patch writes changed fields one by one onto an object other
\* reconciles may have changed.
NextRunMatchesLastBackup ==
    hcp.lastBackup # Never => hcp.nextBackup = NextRun(hcp.lastBackup)

\* One backup per run of the schedule and one defragmentation attempt per
\* cooldown, except where timestamps were lost or read outdated: an error in
\* a later step never repeats them.
RateLimited ==
    /\ Cardinality(stored) <= 1 + (now - 1) \div Period + missed
    /\ Cardinality(defrags) <= 1 + (now - 1) \div Cooldown + missed

\* The watchdog only cancels backups that made no progress for an Interval.
NoFalseStall == [][~cancelled /\ cancelled' => silent >= Interval]_vars

\* A backup never blocks the worker: the stream may hang before or after it
\* was opened, the reconcile ends.
BackupTerminates == Streaming ~> pc = "idle"

\* A configured backup is taken unless alarms keep the cluster unhealthy.
FirstBackupHappens == <>[](hcp.backup /\ ~alarms) => <>(stored # {})

-----------------------------------------------------------------------------
(* Inductive strengthenings, used by the proofs: what holds of every copy  *)
(* of the object and of the reconcile in flight.                           *)

Copies == {hcp, cache, base, mem}

BackupInv == \A o \in Copies : o.lastBackup = Never \/ o.lastBackup \in stored

\* The next run a copy should show.
ScheduledAfter(t) == IF t = Never THEN Never ELSE NextRun(t)

\* Every copy shows the next run of its own last backup.  Only the last step
\* notes a backup, only after one was due, and it then changes both fields.
ScheduleInv ==
    /\ \A o \in Copies : o.nextBackup = ScheduledAfter(o.lastBackup)
    /\ pc # "patch" => mem.lastBackup = base.lastBackup
    /\ Streaming => BackupDue(mem)
    /\ mem.lastBackup # base.lastBackup => mem.nextBackup # base.nextBackup

\* The watchdog's timer never runs ahead of the stream's silence.
WatchdogInv == timer <= silent

\* How often something may happen up to t, if at most once in every d ticks.
Quota(t, d) == IF t = Never THEN 0 ELSE 1 + (t - 1) \div d

\* The n runs of what timestamp f limits to one in d ticks are accounted for
\* by every copy of f and the missed reconciles; one more may be on its way
\* from the reconcile in flight to the object, or from there to the cache.
QuotaInv(n, f, d) ==
    LET Within(o, slack) == n <= Quota(o[f], d) + missed + slack
        noted == mem[f] # base[f]
    IN /\ \A o \in Copies : o[f] <= now
       /\ Within(hcp, IF noted THEN 1 ELSE 0)
       /\ Within(cache, IF noted \/ (pc = "idle" /\ cache # hcp) THEN 1 ELSE 0)
       /\ pc # "idle" => Within(mem, 0)
       /\ pc = "idle" => mem = base

RateInv ==
    /\ QuotaInv(Cardinality(stored), "lastBackup", Period)
    /\ QuotaInv(Cardinality(defrags), "lastAttempt", Cooldown)
    /\ pc \in {"maintenance", "defrag"} => mem.lastAttempt = base.lastAttempt

=============================================================================
