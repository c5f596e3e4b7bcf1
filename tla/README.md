# Verification of cluster-api-provider-hosted-control-plane

TLA+ models of the HostedControlPlane controller, TLC runs over small instances
of them, and TLAPS proofs for instances of any size. Paths are relative to the
repository; line ranges per definition are in `PROJECT.json` under `map`.

## The system

The provider is a Cluster API control-plane provider written in Go. A user
creates a `HostedControlPlane`; the controller deploys etcd, an API server, a
controller manager and a scheduler for it as pods of the management cluster, and
add-ons into the workload cluster.

**Controller** (`pkg/hostedcontrolplane/controller.go`). State: the stored
object, its copy in the informer cache, the work queue. One reconcile per object
at a time. It reads the cached object, waits for the owner Cluster, brings the
Paused condition up to date, adds the finalizer (returning without a requeue:
the write's own event brings the object back), then runs 13 phases in order, each
with a condition:

1. CA certificates
2. CA bundles
3. API server Service
4. control plane endpoint
5. TLS routes
6. certificates
7. etcd cluster
8. internal kubeconfigs
9. API server deployments
10. kubernetes service
11. admin kubeconfig
12. CA rotation annotation
13. workload cluster resources

A phase that fails or is not ready ends the run; conditions of
later phases keep what an earlier run said. Everything is done to a copy; a
deferred patch writes what the run changed in three calls: the conditions (with
the Ready summary), the metadata, the rest of the status. Deletion only removes
the finalizer; owner references let the garbage collector do the rest.

**etcd cluster** (`pkg/reconcilers/etcd_cluster`). State: claims, StatefulSet,
members with quota, data and alarms; in the status the volume size and usage,
and the times of backups and defragmentations. A run measures the usage (node
statistics), decides the size, grows the claims, applies the StatefulSet (whose
claim template is immutable, so a new size deletes and orphans, and a later run
creates it again), defragments at most once per cooldown, disarms NOSPACE alarms
when there is headroom, and streams a due backup to S3 under a watchdog.

**API server resources** (`pkg/reconcilers/apiserverresources`). Three
deployments in order; a deployment is ready with one available replica. When all
three are, the version is reported and the control plane counts as initialized.
Before them the controller generates what the API server mounts: the audit Secret
(policy, webhook targets with their tokens) and the authentication ConfigMap (with
the management cluster's root CA). A checksum of everything a pod mounts is an
annotation of its template (`pkg/operator/util/checksum.go`), so that a changed
object rolls the pods.

**Certificates, kubeconfigs, CA rotation** (`pkg/reconcilers/certificates`,
`kubeconfig`, `node_rotation`). cert-manager Certificates under three CAs, a
bundle of the current and the previous CA certificate, kubeconfigs from the leaf
Secrets, and a rollout time on MachineDeployments and an annotation on
MachinePools that roll the nodes when the CA is renewed.

**Workload resources** (`pkg/reconcilers/workload`). State: RBAC, ConfigMaps and
add-ons in the workload cluster, and one Workload condition for each of seven
sub-phases: RBAC, cluster-info, kubeadm-config, kubelet-config, kube-proxy
(removed when disabled), CoreDNS, konnectivity. A sub-phase that is not ready ends
the run. Deployments get as many replicas as there are nodes, but one at least
and the configured number at most; each workload has a network policy, of
Cilium's kind where that is installed, and with several replicas a disruption
budget, all owned by the workload.

**Endpoint and routes** (`pkg/reconcilers/infrastructure_cluster`, `tlsroutes`,
`workload/kubernetesservice`). The host name is derived from the Gateway's wildcard
listener, published in the infrastructure cluster, copied by Cluster API to the
Cluster, and only then used for two TLS routes. The address of the load balancer
is written to the EndpointSlice and the Endpoints of the workload cluster, which
API servers deployed by earlier versions of the operator maintain as well.

**Generic reconcilers** (`pkg/reconcilers/reconciler.go`): server-side apply,
re-creation on immutable changes, readiness, network policies, disruption budgets;
for the StatefulSet of etcd also the migration of its labels and its selector when
another version of the operator wants other labels.

**Watch mappings** (`controller.go` 180-350): owned objects queue their owner, the
Cluster its control plane, the Secret of a Certificate the Certificate's owner,
any other Secret or ConfigMap the first control plane of the namespace that mounts
it. **Admission webhook** (`api/v1alpha1/webhook`).

### What is hard here

Nothing runs twice at a time for one object, so the difficulty is elsewhere:

* *outdated reads*: a run starts from a cache that lags behind its own last patch;
* *lost patches*: claims, alarms, snapshots and deployments are changed before
  the status records it, and the patch may fail or the process stop in between;
* *partial patches*: only changed fields are written, onto an object that users,
  the Cluster controller and the webhook's answers have changed meanwhile;
* *order across runs*: growth, re-creation, restart and disarming, or an upgrade
  of three deployments, take several runs with failures between them;
* *conditions that outlive the run which set them*, and a summary over them;
* *waiting in a circle*: add-ons wait for nodes, nodes for what earlier sub-phases
  apply, and one sub-phase that is not ready holds up the rest;
* *events as the only wake-up* after the finalizer was added, and events that
  wake somebody else, or nobody, when a mounted object changes;
* *mixtures*: a checksum over objects that are read one by one while they are
  written, two objects for one address, pods of two templates;
* *other writers*: old API servers that empty the endpoints, Cluster API that copies
  a host once, a set that cannot adopt pods with the wrong labels;
* *time*: schedule, cooldown, and a watchdog that races the upload it guards.

`PROJECT.json` lists each of these as a hazard at its line with the properties
that would catch it.

## Modules

| Module | Models | State and actions |
| --- | --- | --- |
| `EtcdVolume` | volume size, growth, quota, NOSPACE alarms, webhook rules for sizes | `hcp`/`cache`/`base`/`mem` are the stored object, the informer's copy, the object as read and the copy worked on; `pc` is the place in `ReconcileEtcdCluster`; one action per step of it, one per claim in the loop over claims |
| `EtcdVolumeProofs` | – | theorems about `EtcdVolume` |
| `EtcdMaintenance` | defragmentation, health check, backup, watchdog | the same four copies, holding the timestamps; a clock; the stream (`timer`, `silent`, `hung`, `cancelled`, `chunks`); the snapshots in the bucket |
| `MCEtcdMaintenance` | – | the status responses tried |
| `EtcdMaintenanceProofs` | – | theorems about `EtcdMaintenance` |
| `ControlPlane` | controller, queue, pause, finalizer, phases, conditions, patch, deletion, the three deployments | the same four copies; `applied` and `up` say with which version the objects of each step were applied and whether they are ready; `step` is the next phase |
| `ControlPlaneProofs` | – | theorems about `ControlPlane`, and the proof of the refinement |
| `Certificates` | CA certificates, issuers, bundles, leaf certificates, kubeconfigs, node rotation; cert-manager; the clock | `requested`/`issuers`/`ready`/`cert` are the Certificate and Issuer objects and what cert-manager made of them; `bundle`, `kubeconfig`, `rollout` what the reconcile derives; `pc`/`todo` the phase and what is left of its loop; one action per phase, or per element of a loop |
| `MCCertificates` | – | which CA signs which certificate |
| `CertificatesProofs` | – | theorems about `Certificates` |
| `Workload` | the workload cluster's resources: seven sub-phases, re-creation of what cannot be changed, policies and budgets, removal of kube-proxy, nodes that join | `object`/`replicas`/`status`/`dependent` are the workload cluster; `pc` counts the steps of all sub-phases, one per object, `stage` says what of a workload comes next (the object, its policies, its budget); `mem`/`condition` the conditions in the run and the stored ones |
| `WorkloadProofs` | – | theorems about `Workload` |
| `UpgradeContract` | the abstract specification: what the controller promises about versions | the wanted, deployed and reported versions; the API server moves first, followers never past it, the report never past any of them |
| `ControlPlaneRefinement` | – | the refinement mapping from `ControlPlane` to `UpgradeContract` |
| `StatefulSetLabels` | labels and selector of the etcd StatefulSet through upgrades of the operator | `wanted` are the running version's labels, `sts` the set, `pod` its pods with the labels they were created with; a reconcile reads and decides (`GetStatefulSet`), then applies or deletes (`ApplyStatefulSet`); the StatefulSet controller adopts, creates, rolls |
| `MCStatefulSetLabels` | – | label sets that change keys |
| `StatefulSetLabelsProofs` | – | theorems about `StatefulSetLabels` |
| `ConfigRollout` | watch mappings, queue and timers of the control planes of a namespace, the generated audit Secret and authentication ConfigMap, checksums, the pods' contents | `store` is what others write; `secret`/`authn` what the controller generates; `template`/`pod` the Deployment's template and what its pod was started with; `pc`/`mem` each worker's place and what it has read; one action per object read |
| `MCConfigRollout` | – | who mounts what, and the webhook targets |
| `ConfigRolloutProofs` | – | theorems about `ConfigRollout` |
| `Endpoint` | the load balancer Service, the control plane endpoint, the TLS routes, the kubernetes endpoints, old API servers | `gateway`/`infra`/`cluster`/`routes` carry the host, `service`/`slice`/`endpoints` the address; `pc`/`mem` are the phase and what the reconcile has read; one action per object written |
| `MCEndpoint` | – | the families of the addresses |
| `EndpointProofs` | – | theorems about `Endpoint` |

`EtcdVolume` and `EtcdMaintenance` are the inside of one phase of `ControlPlane`
(etcd), which there is an ordinary phase that applies its objects and waits for
them; `Certificates` is the inside of six others, `Endpoint` of four (Service,
endpoint, routes, kubernetes service), `ConfigRollout` of the deployment of the API
server, `StatefulSetLabels` of the step of `EtcdVolume` that applies the
StatefulSet, `Workload` of the last phase. They share the shape of the reconcile (read from the cache, work on a copy,
patch what changed) and no variable: sizes never depend on timestamps, and the
only coupling, an error that ends the phase, is a failing step in each of them.
`Certificates` needs no copies of the object, as nothing it does depends on the
status.

The refinement mapping takes a generation for a version, as every edit in
`ControlPlane` raises it; `applied` of the three deployments for `server` and
`follower`, and an object that does not exist for `gone`. `UpgradeContract` has no
queue, cache, phase or patch, and is not mapped to lines: it says what users may
rely on, that templates follow the order of the version skew policy of Kubernetes.
(It is about applied templates. A deployment is ready with one available replica, old
or new, so old pods of the API server may still run beside a newer scheduler.)

A certificate in `Certificates` is its `notBefore`, that of its issuer's
certificate and the key of the kubernetes CA its chain leads to. This is enough
to decide whether a chain verifies: every level is valid at the moment, and some
certificate of the bundle has the key of the chain. Secret and status of a
Certificate change together, and durations stay as they are.

External code is modelled by how this repository uses it and marked `external`
in the map: the StatefulSet controller (`StartMember`), etcd's quota
(`Write`, `RaiseAlarm`), the informer (`SyncCache`), the Cluster controller
(`SetOwnerReference`), other controllers that make objects ready or unready, and
cert-manager (`BecomeReady`, `Issue`), which issues once the issuer is ready,
renews from half of the life on, keeps the key where the code asks for it, and
puts the issuer's certificate as `ca.crt` beside the one it issued. The StatefulSet
controller of `StatefulSetLabels` adopts a pod of its name whose labels match,
cannot create one whose name is taken, and rolls one pod at a time; its status lags.
The kubelet of `ConfigRollout` starts a pod when every object and every key its
mounted volumes name exists. In `Endpoint`, Cluster API copies the endpoint to a
Cluster that has none and never again, the gateway controller accepts a route whose
host its listener has, and the lease reconciler of an old API server writes its
advertised address, and empties both objects when it stops.

Definitions whose comment begins with *Mutant* are plausible bugs. They are no
part of any specification; with one of them in place of the definition it
follows the named property fails.

## Runs

Every run takes its module's own specification; a cfg only gives constants
values.

| Run | Module, cfg | Checks | Shows |
| --- | --- | --- | --- |
| `volume` | `EtcdVolume`, `EtcdVolume.cfg` | `TypeOK`, `DataFitsClaim`, `NoRunawayGrowth`, `DisarmOnlyAfterResize`, `FullMemberRecovers` | with a fault and an edit anywhere, data never outgrows a claim, growth is justified by usage or a user, alarms are disarmed only when claims and StatefulSet have the size, and a full member of an auto-growing volume becomes writable again |
| `volume_large` | `EtcdVolume`, `EtcdVolumeLarge.cfg` | `FullMemberRecovers` | **violated**, see findings |
| `maintenance` | `MCEtcdMaintenance`, `EtcdMaintenance.cfg` | `TypeOK`, `RecordedBackupExists`, `NextRunMatchesLastBackup`, `RateLimited`, `NoFalseStall`, `BackupTerminates`, `FirstBackupHappens` | a recorded backup is in the bucket; only lost or outdated timestamps repeat a backup or a defragmentation; the watchdog cancels only what stands still, and a hanging stream never keeps the worker; a configured backup is taken |
| `control_plane` | `ControlPlaneRefinement`, `ControlPlane.cfg` | `TypeOK`, `SummaryAgrees`, `NoVersionAhead`, `ReportedVersionApplied`, `BecomesReadyAfterFullRun`, `NoObjectsForDeleted`, `KeepsUpgradeContract` | with an upgrade, a deletion and two faults anywhere, Ready, versions and finalizer stay consistent; `ControlPlane` implements `UpgradeContract`: outdated reads, lost patches and crashes never move a version back, a follower ahead, or the report ahead of a deployment |
| `control_plane_liveness` | `ControlPlane`, `ControlPlaneLiveness.cfg` | `DeletionCompletes`, `Converges` | across a pause and its end and a fault, every object is deleted or reaches its specification |
| `certificates` | `MCCertificates`, `Certificates.cfg` | `TypeOK`, `LeavesTrusted`, `KubeconfigsWork`, `NodesRotatedInTime`, `EventuallyComplete` | the chain from the self-signed issuer to the node groups is completed and orphans go; with the default durations, through renewals of all three levels at any moment of a reconcile, and a failure, every chain verifies against the bundle but for the gap these durations leave, kubeconfigs work, no node group stays on an expired CA |
| `workload` | `Workload`, `Workload.cfg` | `TypeOK`, `ReportedComplete`, `EventuallySetUp` | with an edit and a fault anywhere, a sub-phase stored as ready is complete: no object missing, one policy per workload, budgets that fit the replicas, kube-proxy there or gone; from an empty cluster the nodes join and everything is set up and stays so |
| `labels` | `MCStatefulSetLabels`, `StatefulSetLabels.cfg` | `TypeOK`, `MembersKept`, `ReadyMeansWanted`, `SelectorConverges` | through a change of the label keys, a growth and two faults anywhere, no running member is given up, ready means the wanted labels, and the migration ends |
| `config` | `MCConfigRollout`, `ConfigRollout.cfg` | `TypeOK`, `ConfigReachesPods`, `RolloutsEnd` | a control plane with one additional mount, whose Secrets wake a sibling instead of it, or nobody, and whose audit webhook is switched on and off while its tokens are rotated or deleted: pods get the last contents, and the template comes to rest |
| `config_audit_log` | `MCConfigRollout`, `ConfigRolloutAuditLog.cfg` | `ConfigReachesPods` | **violated**, see findings |
| `config_mounts` | `MCConfigRollout`, `ConfigRolloutMounts.cfg` | `RolloutsEnd` | **violated** with two additional mounts, see findings |
| `endpoint` | `MCEndpoint`, `Endpoint.cfg` | `TypeOK`, `RoutesServeTheCluster`, `EndpointsFollowService` | routes only ever ask for the Cluster's host; address and routes settle, however late the old API servers stop |

The largest run (`control_plane`) has about 5.5 million distinct states.

### Bounds, and why they are enough

* Sizes count units of 4Mi, of which the constants of the code are whole numbers:
  `Increment = 256` is 1Gi, `Buffer = 125` is 500Mi. Rounding the quota down is less
  than a unit, which decides nothing at these levels. `UsedLevels` of `volume`
  are the quotas of one and two increments and an amount that needs a third, so
  that a volume grows twice and its member is full in between. Of several members, whose claims differ when the
  loop over them is cut short, the run has one: the safety properties
  are proved for any number, and recovery is a matter of each member. `volume_large` has
  the quotas of one to five increments and no faults.
* `MaxFaults` counts failing calls, crashes and lost pods, at any place. One or
  two reach every partial failure and its retry; `MaxEdits = 1` puts an edit, or
  an upgrade, between any two steps. The proofs drop all these bounds.
* `Early = 1` ordinary phase stands for the eight before the deployments: they
  all behave alike, so one is enough for "earlier phase failed, later conditions
  are old". The proofs hold for any number of them.
* `Period = 3`, `Cooldown = 2`, `Interval = 2` and `MaxTime = 5` let a second run
  of the schedule and two cooldowns pass. The clock stops at `MaxTime`; only the
  watchdog goes on, which is all that `BackupTerminates` needs.
* `Certificates`: a tick is 12 hours, and the durations are the defaults, 4 ticks
  for root and intermediate and 2 for a leaf. With `Sync = 1` and `Delay = 0` renewals
  fall on different moments on each level, and `RootGap` is 1. `MaxTime = 6` is beyond
  the second renewal of the root and its first expiry, so that a certificate that was
  kept too long shows. One intermediate with one leaf, one internal and one admin
  kubeconfig, one group of each kind and one orphan are one of each case the code
  tells apart. A late cert-manager (`Delay > 0`) needs longer durations and is
  left to the proof.
* `Workload`: `Replicas = MaxNodes = 2` tells no node, one and several apart, so
  that replicas and budgets come and go. One edit puts a switch of kube-proxy, the
  arrival of Cilium or the re-creation of any object at any place next to a fault.
* `StatefulSetLabels`: three label sets with a common key have changes that add,
  drop and exchange a key. Three members show that only one is down. After one
  upgrade every state of a set that is migrated, re-created by a growth or stripped of
  a pod occurs; a second one may never end (see the notes below) and is left to the proof of
  `MembersKept`.
* `ConfigRollout`: one control plane in full and a sibling that an event may wake
  instead: control planes share only the objects others write, so a second one in full
  adds interleavings of independent steps. With the two targets of a webhook, two writes
  put a second rotation behind a first one the reconcile has only read in part, and
  two edits switch the audit section on and off. Contents are numbered by writes.
  One additional mount has one order; two, in `config_mounts`, are the smallest number
  that has several.
* `Endpoint`: two domains, two addresses of one family and one of the other; two edits of the Gateway (a rename and
  its way back, or a listener that is removed and restored), two more assignments of
  the load balancer and one fault.
* In the liveness run of `ControlPlane` versions do not change; `MaxPauses = 2`
  is a pause and its end.

Deadlock is checked except in `ControlPlane`, where a deleted object leaves
nothing to do.

### Fairness

* `WF(Controller)`: every return of `Reconcile` but two requeues, with
  `RequeueAfter` or as an error with backoff, and a worker is free. The two that
  do not are the deletion and the added finalizer; in `ControlPlane` the queue is
  explicit, so that this is a result of the model and not of the fairness.
* `WF(SyncCache)`: informers deliver the latest object eventually.
* `WF(StartMember)`, `WF(SyncStatefulSetStatus)`, `WF(BecomeReady)`,
  `WF(SetOwnerReference)`: the StatefulSet controller, the deployment and other
  controllers and the Cluster controller keep working.
* `WF(BecomeReady)` and `WF(Issue)` of `Certificates`: cert-manager keeps working.
* In `Workload`, `WF(Controller)` includes the failure that is certain when a
  mounted ConfigMap is missing; `WF(NodeJoins)`: machines try to join until they
  succeed; `WF(SyncStatus)`, `WF(BecomeAvailable)`, `WF(CollectGarbage)`: the
  controllers of the workload cluster keep working, and pods become available
  where there is a node. A node on which kube-proxy never becomes available is
  outside of that, and would hold up CoreDNS and konnectivity.
* In `StatefulSetLabels` and `Endpoint`, `WF(Reconcile)` includes the start of the
  next reconcile: every way these phases end requeues. The StatefulSet controller,
  kubelet, gateway and Cluster controllers, and the one that assigns a *first*
  address to a load balancer, keep working; later changes of the address or of the
  Gateway have no fairness, nor has the publishing of old API servers.
* In `ConfigRollout` each worker, timer and kubelet is fair for each control plane;
  the watches are not assumed to work: without `RequeueAfter` the property fails.
* `WF(Streaming /\ Tick)`: time passes while a stream is open.

Faults, edits, writes by clients and compaction have no fairness; faults are
bounded, as a system in which every patch is lost cannot converge.

### The exception in `SummaryAgrees` and `BecomesReadyAfterFullRun`

The patch writes a condition when it differs from what the run *read*. A run that
started from outdated conditions can therefore leave Ready beside a stored False
condition it had read as True, until the next run. Both properties exclude
histories in which a run began with outdated conditions (`misread`); lost
patches, errors, crashes and skipped phases are included.

### The exception in `ReportedComplete`

A stored condition outlives the run that set it. `dirty` holds the sub-phases a
run has worked on without a result stored since: the run is in flight, its
process stopped, or its patch failed. Those are excluded, as the condition is
then older than the objects; sub-phases that a run did not reach are not.

### The premises of `ConfigReachesPods` and `EndpointsFollowService`

A reconcile that misses an object fails, so `ConfigReachesPods` is about control
planes whose Secrets, ConfigMaps and tokens exist from some time on. A Gateway that
is renamed after Cluster API copied the host leaves the phase "control plane
endpoint" waiting for ever, and a load balancer with a host name the phase
"kubernetes service": `EndpointsFollowService` is about a load balancer that keeps
an IP, of the family the EndpointSlice has, and a Gateway whose domain is the
Cluster's, or can still become it. What
happened before that is arbitrary.

### The timing in `Certificates`

Safety over time needs that somebody acts in time. `Tick` is held back so that
cert-manager renews at most `Delay` after half of the life, and that at any time
some complete reconcile began at most `Sync` ago: reconciles repeat every minute,
or after 10 seconds when something is not ready, and durations are hours.
The root and the leaves must then outlive their own renewal by these delays
(`RootAssumption`, `LeafAssumption`): a reconcile that fails for longer than half a
life is outside of that. Nothing is assumed of how the durations of root and
intermediates compare, as the webhook only asks that the root lives at least as long.

What that costs is in the property. `LeavesTrusted` demands that a chain of the
kubernetes CA always verifies, and lets one of an intermediate outlive its anchor by
`RootGap` and its intermediate by `IntermediateGap`, which are zero where the durations
overlap enough. With the defaults (`hostedcontrolplane_types.go` 83-97, root and
intermediate of 48h, "The root CA must have a duration greater than or equal to the
intermediate CA") `RootGap` is `2 * Delay + Sync`, and the bound is reached: a root is
issued at 1; at 3 the intermediate is renewed just before the root, and so by the
root of 1; at 5, when the intermediate is due again, a reconcile completes before it
is renewed and leaves the root of 1 as the only certificate in the bundle; at 6
that one has expired and the leaves of the intermediate have no anchor, until the next
reconcile. The comment on the key that is kept says "leaf certificates issued by the
previous key must stay valid" (`certificates/reconciler.go` 272-274). With reconciles
every minute the gap is a matter of minutes, and of hours when they fail for hours.
Nothing compares `caCertificateDuration` with the duration of the leaves, which
`IntermediateGap` is about.

## Findings

1. **A volume of 5Gi does not grow any more** (`volume_large`). It grows when
   less than 500Mi are free, but etcd stops at 90% of the volume. A tenth of 5Gi
   is 512Mi, so there the quota comes first: the alarm is raised, the next
   run sees enough headroom and disarms it, the next write raises it again. The trace
   grows the volume by increments of 1Gi and ends at 1280 units with 1152 in use.
   The API type promises that "AutoGrow will increase the volume size
   automatically when it is near full."
2. **An audit section without a webhook stops the roll-out** (`config_audit_log`).
   The webhook is optional and the arguments handle its absence, but the volume
   names the webhook's key in any case, and the Secret does not have it.
3. **Two additional mounts roll the API servers without end** (`config_mounts`). The
   volumes and volume mounts made of `spec.deployment.apiServer.mounts` are the keys and
   the values of a Go map (`apiserverresources.go` 569-605), so the applied template
   lists them in another order every time; the change of the Deployment, and that of
   its status, queue the next reconcile. The webhook targets and the OIDC providers are
   sorted for this reason ("sort oidc providers" is a bug fix in `CHANGELOG.md` 54, and
   `TestReconcileAuthenticationConfig_StableOIDCProviderOrder` expects 50 reconciles to
   produce the same).

### Notes

What else came up while modelling; the properties above leave room for it, and no
run is about it.

* *Recorded size.* The webhook compares a new fixed size with the stored status
  while a run that has grown the claims has not written it yet. The next run lowers
  `status.etcdVolumeSize`, although the webhook says "volume size cannot be
  decreased". Claims never shrink.
* *Labels, pods left behind.* "wait until the existing statefulset is ready before
  changing the selector" (`reconciler.go` 1059) counts pods from before the template
  was changed, so the next reconcile deletes the set at once. The new set does not
  match the pods that were not rolled yet; they run on unmanaged and block the names
  of new ones. The set itself converges and the members stay up. If a growth of the
  volume re-created the set in the middle, no pod may match it; it is then never
  available, and the next change of labels waits for that for ever. This is why
  `SelectorConverges` is checked for one change.
* *Labels, changed values.* The error "statefulset: cannot change pod template label
  values" is unreachable, which `NeverRefused` proves: merging keeps the existing
  values, and so the existing selector always fits. The old labels stay and the set
  is reported ready; `ReadyMeansWanted` holds for label sets that agree on the values
  of common keys (`ValuesAgree`), as the ones of the run do, and is proved for those.
* *Endpoints.* They are written during the roll-out, not "right after" it
  (`controller.go` 785), as readiness is one available replica, old or new. An old
  server that stops later empties them until the next reconcile.
* *IP families.* The address type of an EndpointSlice is immutable, so a load
  balancer that changes its family is not followed once no old API server is left
  that would replace the slice; the premise of `EndpointsFollowService` excludes it.

## Proofs

Everything is proved from `ConstantsAssumption` of the module (`EndpointAssumption`
in `Endpoint`, `ConfigRolloutAssumption` in `ConfigRollout`), that is for any set of
members, sizes, usages, phases and bounds; `LeavesAlwaysTrusted`,
`KubeconfigsAlwaysWork` and `NodesAlwaysRotated` also from `RootAssumption`, the first
two from `LeafAssumption`, and
`ReadyAlwaysWanted` from `ValuesAgree`. Each inductive invariant is a definition at
the end of the component's module, so that TLC can check it on the instance of the
component's run.

`EtcdVolumeProofs`
* `TypeCorrect`: `Spec => []TypeOK`. With it, no size is negative and the usage
  stays a natural number.
* `DataAlwaysFits`: `Spec => []DataFitsClaim`, by `VolumeInv`. The data of a
  member is bounded by the quota of the size its *pod* was started with, the pod
  by the StatefulSet's size at that time, and the StatefulSet by the claims.
  `VolumeInv` carries this chain, and needs the state of the loop over the claims:
  those already examined cover the size about to be applied. That holds only
  while there is no StatefulSet, as an existing one may create a smaller claim
  behind the loop; but then it is deleted, not applied.
* `DisarmAfterResize`: the action property, by the last conjunct of `VolumeInv`
  (past the StatefulSet step it exists with the size in memory).
* `GrowthIsBounded`: `Spec => []NoRunawayGrowth`, by `GrowthInv`: every copy of
  the object, however old, has a justified size and a usage some member had, so
  each decision from any of them is justified again.

`ControlPlaneProofs`
* `TypeCorrect`: `Spec => []TypeOK`.
* `UpgradeOrder` and `ReportedVersion`: by `VersionInv`. `NoVersionAhead` is not
  inductive: a run that started from an old copy could apply an old API server
  below a newer scheduler. `VersionInv` says that no step has objects newer than
  the copy in use, as copies are read from a cache that only moves forward, by a
  controller that runs one reconcile at a time; and that between the deployments
  those before are of the run's own version.
* `NothingForDeleted`: the action property, by `FinalizerInv`: a copy with the
  finalizer and without a deletion proves that the stored object exists with its
  finalizer, as only a run that read the deletion removes it.
* `SummaryAlwaysAgrees` and `ReadyAfterFullRun`: by `SummaryInv`. Ready is computed
  from the copy the reconcile worked on, and written by a patch of the changed
  conditions only, so it agrees with what is stored afterwards only if the copy
  began as what was stored (`~misread`), and if a reconcile that stops half-way
  leaves a condition that is false. `Coherent` says this of every set of
  conditions a reconcile leaves: one is false, or none is set, or all are true;
  while the phases run, those before the current one are true and were found ready
  by this run.
* `Refinement`: `Spec => KeepsUpgradeContract`. Initial states map to an initial
  state and every step to a step of the contract or a stutter, given `TypeOK`,
  `VersionInv` and `FinalizerInv`: the steps that deploy need that what is deployed
  is not older than what is there, the one that reports that all three deployments
  have the version, and all of them that the object exists.

`EtcdMaintenanceProofs`
* `TypeCorrect`: `Spec => []TypeOK`.
* `NeverFalseStall`: the action property, by `WatchdogInv`: the timer never shows
  more than the silence of the stream, as every chunk resets it.
* `RecordedBackupAlwaysExists`: by `BackupInv`: the same for every copy of the
  object, since the patch takes the timestamp from one of them.
* `NextRunAlwaysMatches`: by `ScheduleInv`. The patch writes the fields that differ
  from what was read, one by one, so the two timestamps stay together only because a
  backup that changes the first always changes the second: it was due, so the next
  run lies behind the one that was stored.
* `AlwaysRateLimited`: by `RateInv`, one `QuotaInv` for each of the two timestamps.
  What has run is bounded by what each copy of the timestamp allows, plus the
  reconciles that were lost or read outdated, plus at most one that is on its way
  from the worker to the object or from the object to the cache.

`CertificatesProofs`
* `TypeCorrect`: `Spec => []TypeOK`.
* `LeavesAlwaysTrusted`, `KubeconfigsAlwaysWork`, `NodesAlwaysRotated`: by
  `CertificatesInv` (`CertificatesHold`). The three properties only speak of the
  moment, and say nothing of how much longer a certificate will do. The invariant
  gives everything an age. `IssuedInv`: what is in a Secret is at most
  `Age(duration)` old, and was signed by something that was at most that old
  then; all keys are the one of the kubernetes CA. `BundleInv`, `KubeconfigInv`
  and `RolloutInv`: what was handed out was within its age when the last complete
  reconcile began, and, for the elements of a loop that are done, when the
  reconcile in flight began; so the end of a reconcile may move `synced` forward.
  `PhaseInv` bounds the time since. Adding these ages up gives the gaps of
  `LeavesTrusted`; the kubeconfigs need the leaf's and the root's own life to be
  longer than their ages, and the nodes the root's only. Time does pass over a rotation
  that stopped half-way, up to `Sync` since the last complete reconcile began. Only
  the `current` entry of a bundle is needed for that: as long as the key is kept,
  the previous certificate is a second anchor of the same key.

`WorkloadProofs`
* `TypeCorrect`: `Spec => []TypeOK`, with `PolicyInv`, as a step about dependents is
  always about a workload.
* `AlwaysReportedComplete`: by `RunInv` and `PolicyInv`. `ReportedComplete` speaks of
  stored conditions, which change only at the end of a run, so `RunInv` follows the
  run: every step behind it is done (`Done`), phases it has not reached are as
  stored, and it ends with a phase that is not ready or behind the last step. No two
  steps share an object and the steps of a phase follow one another
  (`StepsDistinct`, `StepsContiguous`), so a phase the patch stores as ready is done
  as a whole. `PolicyInv` gives the one policy: before Cilium's is written the other
  one is gone, and a run that does not know of Cilium finds none of its policies.

`StatefulSetLabelsProofs`
* `TypeCorrect`: `Spec => []TypeOK`.
* `SelectorAlwaysInTemplate`: by `SelectorInv`, which adds the same for what a
  reconcile is about to apply: it may be interrupted, or another version may start,
  between decision and apply, and the decision was taken over a set that selected
  its own pods. The template is the selector's labels overwritten by the chosen ones,
  so this is about versions that change the value of a label; for those TLC has no run,
  as the other properties do not hold of them.
* `NeverRefused`: from `SelectorInv`, the existing selector is part of the existing
  template and so of the merged labels; the refusal is unreachable.
* `MembersAlwaysKept`: for any finite set of members, by counting: re-creation
  leaves all pods, a roll needs all others up, and each loss has its fault.
* `ReadyAlwaysWanted`: by `WantedInv`, which adds that a reconcile about to apply has
  the wanted labels in its plan: an upgrade in between starts a new reconcile.

`ConfigRolloutProofs`
* `TypeCorrect`, and two facts behind `ConfigReachesPods` that hold for all constants:
  `NoneForgotten` (every control plane is queued, timed or being reconciled, so a
  change no watch tells of is found by a later reconcile) and `ChecksumAlwaysCovers`
  (the checksum is about exactly the volumes of the template it ends up in, although
  the audit section may be edited while the volumes are read). All are by one
  induction over a predicate for each worker (`Worker`), which a step of another
  worker leaves alone. `WorkerInv` is needed as the volumes to read are only set when
  the reconcile comes to the checksum: until then nothing may have been read, or a
  failed reconcile would leave its reads to the next one.

`EndpointProofs`
* `TypeCorrect`: by `ReadInv`: past the Service a reconcile has an address, past the
  EndpointSlice an IP, so neither object is ever given an unset field.
* `RoutesAlwaysServeTheCluster`: by `HostInv`: the host a reconcile has read is none
  or still the Cluster's, and not none once the endpoint was confirmed.

Every invariant and every safety action property of the runs is proved, and so is the
refinement. Only model-checked is liveness (`FullMemberRecovers`, `BackupTerminates`,
`FirstBackupHappens`, `DeletionCompletes`, `Converges`, `EventuallyComplete`,
`EventuallySetUp`, `SelectorConverges`, `ConfigReachesPods`, `RolloutsEnd`,
`EndpointsFollowService`), as the prover has no rules for fairness and ENABLED. No
module uses RECURSIVE operators.

## Not modelled

* Formats: manifests, arguments, container options, policies, names, logs,
  traces, events, generated code. They carry no control.
* The reconcile filter, process start and flags.
* In `ControlPlane`: a Cluster that disappears or is read outdated; edits that
  keep the version; reasons and messages of conditions.
* In the etcd modules: labels, disruption budgets and network policies; the time
  an orphaning delete takes; content of a volume other than the database file.
* In `Certificates`: subjects, DNS names and usages; a change of durations; a
  Secret that is deleted by hand; how pods pick up a renewed Secret (see
  `ConfigRollout`).
* In `Workload`: the lagging cache (see `ControlPlane`); a failure between the
  accounts, roles and bindings of one group; objects that somebody else changes;
  a Cilium that is removed again; zero replicas.
* In `StatefulSetLabels`: policies and budgets of the set; the time an orphaning
  delete takes; a set or pods that somebody else changes.
* In `ConfigRollout`: an object whose old content comes back, or two that swap
  theirs, which the checksum cannot tell apart; targets of a webhook with the same
  URL, whose order the sort leaves open; several
  replicas of an API server; the reload of mounted files by a running server.
* In `Endpoint`: several wildcard listeners, ports, a Gateway that is deleted; the
  phases in between (they may end a reconcile).
* Network policy targets (`pkg/util/networkpolicy/target.go`): a translation of
  targets into policy rules without state. That one policy of the right kind exists
  is in `Workload`; which connections it allows is not.
* The re-creation of a Secret with another type: no caller changes the type.

## Plan

Done: `EtcdVolume`, `EtcdMaintenance`, `ControlPlane` with `UpgradeContract`,
`Certificates`, `Workload`, `StatefulSetLabels`, `ConfigRollout`, `Endpoint`, with the
proofs above: every invariant, every safety action property and the refinement.

What could be added:

1. The safety part of more of the liveness properties, for all constants: in
   `ControlPlane` that an object with work to do is queued (`NeverForgotten` is this
   for `ConfigRollout`).
2. An abstract specification of certificate trust, with `Certificates` as its
   implementation, as `UpgradeContract` is for versions.
