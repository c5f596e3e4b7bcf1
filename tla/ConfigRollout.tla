--------------------------- MODULE ConfigRollout ---------------------------
(***************************************************************************)
(* How a changed Secret or ConfigMap reaches the API server pods.          *)
(*                                                                         *)
(* The API server Deployment mounts objects others write: the user's       *)
(* mounts, the certificate Secrets, and two objects the controller         *)
(* generates, the audit Secret (from the audit section of the              *)
(* specification and the tokens of its webhook targets) and the            *)
(* authentication ConfigMap (from the management cluster's root CA).  (A   *)
(* third, the egress selector configuration, has always the same content   *)
(* and is left out.)  The pod template lists the volumes and carries a     *)
(* checksum of all of them, so that a change rolls the pods.               *)
(*                                                                         *)
(* A write reaches the controller through the watch mappings of            *)
(* controller.go, which know some of the objects and at most one of the    *)
(* control planes that use one, and through the periodic requeue.  Several *)
(* control planes of one namespace are reconciled concurrently, each by    *)
(* one worker at a time, which reads the objects one by one.  They share   *)
(* nothing but those objects and the mapping of an event to one of them,   *)
(* so a sibling whose own reconcile is of no interest takes part in the    *)
(* mappings only.                                                          *)
(*                                                                         *)
(* Every write stores a content never seen before: an object whose old     *)
(* content comes back, or two objects that swap theirs, are not modelled.  *)
(* The tokens of one audit section are read in one step.                   *)
(***************************************************************************)
EXTENDS Integers, Sequences, FiniteSets

CONSTANTS
    Plane,      \* HostedControlPlanes of one namespace
    Sibling,    \* others of that namespace, which an event may wake instead
    Secret,     \* the Secrets written by users and cert-manager
    ConfigMap,  \* the ConfigMaps written by users and the management cluster
    RootCA,     \* the ConfigMap kube-root-ca.crt
    Mounts,     \* the objects users mount into each API server of the namespace
    Issued,     \* the Secrets owned by a Certificate, with the owning plane
    Url,        \* the webhook targets of each plane: token Secret -> URL
    Audits,     \* the kinds of audit section users write
    MaxWrites,  \* bound on the writes to Secrets and ConfigMaps
    MaxEdits,   \* bound on the edits of audit sections
    MaxFaults   \* bound on API errors, lost events, lost pods and crashes

Source == Secret \cup ConfigMap

ASSUME ConfigRolloutAssumption ==
    /\ RootCA \in ConfigMap /\ Secret \cap ConfigMap = {}
    /\ Plane \cap Sibling = {}
    /\ Mounts \in [Plane \cup Sibling -> SUBSET Source]
    /\ DOMAIN Issued \subseteq Secret
    /\ \A s \in DOMAIN Issued : Issued[s] \in Plane \cup Sibling
    /\ DOMAIN Url = Plane
    /\ \A p \in Plane : DOMAIN Url[p] \subseteq Secret /\ DOMAIN Url[p] # {}
    /\ Audits \subseteq {"none", "log", "webhook"} /\ "none" \in Audits
    /\ {MaxWrites, MaxEdits, MaxFaults} \subseteq Nat

VARIABLES
    store,     \* the content of each Secret and ConfigMap; 0: it does not exist
    audit,     \* the audit section of each specification
    queue,     \* the control planes in the work queue
    timer,     \* the control planes with a pending RequeueAfter
    pc, mem,   \* each worker's step, and what it has read so far
    secret,    \* the audit Secret generated for each plane
    authn,     \* the root CA in each generated authentication ConfigMap; 0: none
    template,  \* the pod template of each API server Deployment
    pod,       \* what each API server pod was started with
    writes, edits, faults

vars == <<store, audit, queue, timer, pc, mem, secret, authn, template, pod,
          writes, edits, faults>>
worker == <<queue, timer, pc, mem>>
generated == <<secret, authn>>
counters == <<writes, edits, faults>>

NoSecret == [audit |-> "none"]
NoTemplate == [audit |-> "unset"]
NoPod == [template |-> NoTemplate, content |-> {}]
NoMemory == [audit |-> "none", todo |-> {}, seen |-> {}]

\* What others write for the API server of plane p: the user's mounts and the
\* Secrets of the plane's own Certificates.
Sources(p) == Mounts[p] \cup {s \in DOMAIN Issued : Issued[s] = p}

\* The objects the pod template of plane p mounts: the two generated ones have
\* names of their own.
Volumes(p, section) ==
    Sources(p) \cup {"authentication"} \cup (IF section = "none" THEN {} ELSE {"audit"})

\* The sequences that have every element of a finite set once.
Orders(set) ==
    {o \in [1 .. Cardinality(set) -> set] : \A i, j \in DOMAIN o : i # j => o[i] # o[j]}

IsSecret(v) == v = "audit" \/ v \in Secret

(***************************************************************************)
(* Watch mappings.                                                         *)
(***************************************************************************)

\* A Secret of a Certificate queues the Certificate's owner and nobody else;
\* any other object queues one control plane that mounts it, whichever the
\* list of the cache has first.
secretToHostedControlPlane(s) ==
    LET users == {p \in Plane \cup Sibling : s \in Mounts[p]}
    IN  IF s \in DOMAIN Issued THEN {{Issued[s]}}
        ELSE IF users = {} THEN {{}}
        ELSE {{p} : p \in users}

\* Users, cert-manager and the management cluster write an object (the new
\* content has never been stored before) or delete it; the event is mapped, or
\* lost when the mapping's own List or Get fails.
WriteSource(s) ==
    /\ writes < MaxWrites
    /\ writes' = writes + 1
    /\ \/ store' = [store EXCEPT ![s] = writes + 2]
       \/ store[s] # 0 /\ store' = [store EXCEPT ![s] = 0]
    /\ \/ \E planes \in secretToHostedControlPlane(s) :
             queue' = queue \cup (planes \cap Plane) /\ UNCHANGED faults
       \/ faults < MaxFaults /\ faults' = faults + 1 /\ UNCHANGED queue
    /\ UNCHANGED <<audit, timer, pc, mem, generated, template, pod, edits>>

\* A user edits the audit section; the controller watches its own objects.
EditAudit(p, section) ==
    /\ edits < MaxEdits /\ section # audit[p]
    /\ edits' = edits + 1
    /\ audit' = [audit EXCEPT ![p] = section]
    /\ queue' = queue \cup {p}
    /\ UNCHANGED <<store, timer, pc, mem, generated, template, pod, writes, faults>>

(***************************************************************************)
(* One reconcile of the API server Deployment.                             *)
(***************************************************************************)

Start(p) ==
    /\ p \in queue /\ pc[p] = "idle"
    /\ queue' = queue \ {p}
    /\ pc' = [pc EXCEPT ![p] = "audit"]
    /\ mem' = [mem EXCEPT ![p] = [NoMemory EXCEPT !.audit = audit[p]]]
    /\ UNCHANGED <<store, audit, timer, generated, template, pod, counters>>

\* Mutant: what the failed reconcile has read is still there for the next one.
FailKeepsMemory(p) ==
    /\ pc' = [pc EXCEPT ![p] = "idle"]
    /\ queue' = queue \cup {p}
    /\ UNCHANGED <<store, audit, timer, mem, generated, template, pod>>

\* The plane's reconcile ends with an error: it is queued again with a back-off.
Fail(p) ==
    /\ pc' = [pc EXCEPT ![p] = "idle"]
    /\ mem' = [mem EXCEPT ![p] = NoMemory]
    /\ queue' = queue \cup {p}
    /\ UNCHANGED <<store, audit, timer, generated, template, pod>>

\* Mutant: the targets are written in the order of the Go map.
generateNginxConfigUnsorted(p) ==
    {[i \in DOMAIN order |-> <<order[i], store[order[i]]>>] : order \in Orders(DOMAIN Url[p])}

\* The webhook targets with their tokens, sorted by URL.
generateNginxConfig(p) ==
    {[i \in DOMAIN order |-> <<order[i], store[order[i]]>>] :
        order \in {o \in Orders(DOMAIN Url[p]) :
                      \A i, j \in DOMAIN o : i < j => Url[p][o[i]] <= Url[p][o[j]]}}

Policy == <<<<"policy", 1>>>>  \* the audit policy, which is not edited here

\* The contents the audit Secret may get for an audit section; none when a
\* token is missing.
AuditSecrets(p, section) ==
    CASE section = "none"    -> {NoSecret}
      [] section = "log"     -> {[audit |-> "log", data |-> Policy]}
      [] section = "webhook" ->
            IF \E t \in DOMAIN Url[p] : store[t] = 0 THEN {}
            ELSE {[audit |-> "webhook", data |-> Policy \o q] : q \in generateNginxConfig(p)}

\* The audit Secret is applied, or deleted.  A change of an owned object queues
\* the plane again.
reconcileSecret(p, content) ==
    /\ secret' = [secret EXCEPT ![p] = content]
    /\ queue' = IF content = secret[p] THEN queue ELSE queue \cup {p}

\* The authentication ConfigMap is applied.
reconcileConfigmap(p, rootCA) ==
    /\ authn' = [authn EXCEPT ![p] = rootCA]
    /\ queue' = IF rootCA = authn[p] THEN queue ELSE queue \cup {p}

\* The Secret is written, or deleted when there is no audit section any more.
reconcileAuditConfig(p) ==
    /\ pc[p] = "audit"
    /\ \/ \E content \in AuditSecrets(p, mem[p].audit) :
             /\ reconcileSecret(p, content)
             /\ pc' = [pc EXCEPT ![p] = "authn"]
             /\ UNCHANGED <<store, audit, timer, mem, authn, template, pod>>
       \/ AuditSecrets(p, mem[p].audit) = {} /\ Fail(p)
    /\ UNCHANGED counters

reconcileAuthenticationConfig(p) ==
    /\ pc[p] = "authn"
    /\ IF store[RootCA] = 0 THEN Fail(p)
       ELSE /\ reconcileConfigmap(p, store[RootCA])
            /\ pc' = [pc EXCEPT ![p] = "checksum"]
            /\ mem' = [mem EXCEPT ![p].todo = Volumes(p, mem[p].audit)]
            /\ UNCHANGED <<store, audit, timer, secret, template, pod>>
    /\ UNCHANGED counters

\* What a volume of plane p holds, key by key.
Content(p, v) ==
    CASE v = "audit"          -> secret[p].data
      [] v = "authentication" -> <<<<"config", authn[p]>>>>
      [] OTHER                -> <<<<"data", store[v]>>>>

Missing(p, v) ==
    CASE v = "audit"          -> secret[p] = NoSecret
      [] v = "authentication" -> authn[p] = 0
      [] OTHER                -> store[v] = 0

\* The checksum reads one object at a time, the Secrets before the ConfigMaps.
ReadVolume(p, v) ==
    /\ pc[p] = "checksum" /\ v \in mem[p].todo
    /\ IsSecret(v) \/ \A w \in mem[p].todo : ~IsSecret(w)
    /\ IF Missing(p, v) THEN Fail(p)
       ELSE /\ mem' = [mem EXCEPT ![p].todo = @ \ {v},
                                  ![p].seen = @ \cup {<<v, Content(p, v)>>}]
            /\ UNCHANGED <<store, audit, queue, timer, pc, generated, template, pod>>
    /\ UNCHANGED counters

\* A checksum is taken over the contents alone, in any order: it tells apart
\* how often each content was read, not from which object.
calculateChecksum(entries) ==
    [c \in {entry[2] : entry \in entries} |->
        Cardinality({entry \in entries : entry[2] = c})]

\* Mutant: the ConfigMaps have no checksum.
SetChecksumAnnotationsSecrets(seen) ==
    [secrets |-> calculateChecksum({entry \in seen : IsSecret(entry[1])}),
     configmaps |-> {}]

SetChecksumAnnotations(seen) ==
    [secrets |-> calculateChecksum({entry \in seen : IsSecret(entry[1])}),
     configmaps |-> calculateChecksum({entry \in seen : ~IsSecret(entry[1])})]

\* The user's mounts as volumes of the pod and as mounts of the container: the
\* keys and the values of a Go map, each in any order.
extractAdditionalVolumesAndMounts(p) == Orders(Mounts[p]) \X Orders(Mounts[p])

\* The Deployment is applied; the API server keeps the order of its lists.  The
\* other phases of the reconcile follow.  Every way a reconcile ends without
\* an error asks for another one, 10 seconds later while something is not ready,
\* a minute later otherwise.
ApplyDeployment(p) ==
    /\ pc[p] = "checksum" /\ mem[p].todo = {}
    /\ \E additional \in extractAdditionalVolumesAndMounts(p) :
          template' = [template EXCEPT ![p] =
                         [audit |-> mem[p].audit, additional |-> additional,
                          sum |-> SetChecksumAnnotations(mem[p].seen)]]
    /\ queue' = IF template'[p] = template[p] THEN queue ELSE queue \cup {p}
    /\ pc' = [pc EXCEPT ![p] = "idle"]
    /\ mem' = [mem EXCEPT ![p] = NoMemory]
    /\ timer' = timer \cup {p}
    /\ UNCHANGED <<store, audit, generated, pod, counters>>

RequeueAfter(p) ==
    /\ p \in timer
    /\ timer' = timer \ {p}
    /\ queue' = queue \cup {p}
    /\ UNCHANGED <<store, audit, pc, mem, generated, template, pod, counters>>

\* Any call of the reconcile fails.
APIError(p) ==
    /\ pc[p] # "idle" /\ faults < MaxFaults
    /\ faults' = faults + 1
    /\ Fail(p)
    /\ UNCHANGED <<writes, edits>>

\* The operator stops; its successor lists every object and queues them all.
Restart ==
    /\ faults < MaxFaults
    /\ faults' = faults + 1
    /\ queue' = Plane /\ timer' = {}
    /\ pc' = [p \in Plane |-> "idle"] /\ mem' = [p \in Plane |-> NoMemory]
    /\ UNCHANGED <<store, audit, generated, template, pod, writes, edits>>

(***************************************************************************)
(* The Deployment controller and the kubelet.                              *)
(***************************************************************************)

\* The keys of the audit Secret that the audit volumes of a template name: the
\* volume of the API server names the policy and the webhook target whatever
\* the audit section says; the one of the mirroring sidecar, which there is for
\* several targets, names the nginx configuration.  (The second volume is part
\* of every template with an audit section, but without the sidecar no container
\* mounts it, and the kubelet then does not set it up.)
auditVolumeKeys(p, section) ==
    {"policy", "target"} \cup
    (IF section = "webhook" /\ Cardinality(DOMAIN Url[p]) > 1 THEN {"nginx"} ELSE {})

\* The keys the audit Secret has.
auditSecretKeys(p) ==
    CASE secret[p].audit = "none"    -> {}
      [] secret[p].audit = "log"     -> {"policy"}
      [] secret[p].audit = "webhook" ->
            {"policy", "target"} \cup
            (IF Cardinality(DOMAIN Url[p]) > 1 THEN {"nginx"} ELSE {})

\* The kubelet starts a pod once every object and every named key exists.
Mountable(p) ==
    /\ \A v \in Volumes(p, template[p].audit) : ~Missing(p, v)
    /\ template[p].audit # "none" => auditVolumeKeys(p, template[p].audit) \subseteq auditSecretKeys(p)

\* A rollout surges: the old pod stays until the new one runs.  The Deployment's
\* status changes with it, and the controller watches that.
StartPod(p) ==
    /\ pod[p].template # template[p] /\ Mountable(p)
    /\ pod' = [pod EXCEPT ![p] =
                 [template |-> template[p],
                  content  |-> {<<v, Content(p, v)>> : v \in Volumes(p, template[p].audit)}]]
    /\ queue' = queue \cup {p}
    /\ UNCHANGED <<store, audit, timer, pc, mem, generated, template, counters>>

LosePod(p) ==
    /\ pod[p] # NoPod /\ faults < MaxFaults
    /\ faults' = faults + 1
    /\ pod' = [pod EXCEPT ![p] = NoPod]
    /\ queue' = queue \cup {p}
    /\ UNCHANGED <<store, audit, timer, pc, mem, generated, template, writes, edits>>

Init ==
    /\ store = [s \in Source |-> 1] /\ audit = [p \in Plane |-> "none"]
    /\ queue = Plane /\ timer = {}
    /\ pc = [p \in Plane |-> "idle"] /\ mem = [p \in Plane |-> NoMemory]
    /\ secret = [p \in Plane |-> NoSecret] /\ authn = [p \in Plane |-> 0]
    /\ template = [p \in Plane |-> NoTemplate] /\ pod = [p \in Plane |-> NoPod]
    /\ writes = 0 /\ edits = 0 /\ faults = 0

Next ==
    \/ \E s \in Source : WriteSource(s)
    \/ \E p \in Plane :
          \/ \E section \in Audits : EditAudit(p, section)
          \/ Start(p) \/ reconcileAuditConfig(p) \/ reconcileAuthenticationConfig(p)
          \/ \E v \in Volumes(p, "webhook") : ReadVolume(p, v)
          \/ ApplyDeployment(p) \/ RequeueAfter(p) \/ APIError(p)
          \/ StartPod(p) \/ LosePod(p)
    \/ Restart

Spec == Init /\ [][Next]_vars

\* Workers take what is queued and finish what they take, timers fire, and the
\* kubelet starts the pods it can start.
Fairness ==
    \A p \in Plane :
       /\ WF_vars(Start(p)) /\ WF_vars(reconcileAuditConfig(p))
       /\ WF_vars(reconcileAuthenticationConfig(p))
       /\ WF_vars(\E v \in Volumes(p, "webhook") : ReadVolume(p, v))
       /\ WF_vars(ApplyDeployment(p)) /\ WF_vars(RequeueAfter(p))
       /\ WF_vars(StartPod(p))

FairSpec == Spec /\ Fairness

(***************************************************************************)
(* Properties.                                                             *)
(***************************************************************************)

TypeOK ==
    /\ store \in [Source -> 0 .. MaxWrites + 1] /\ audit \in [Plane -> Audits]
    /\ queue \subseteq Plane /\ timer \subseteq Plane
    /\ pc \in [Plane -> {"idle", "audit", "authn", "checksum"}]
    /\ \A p \in Plane :
          /\ mem[p].audit \in Audits /\ mem[p].todo \subseteq Volumes(p, mem[p].audit)
          /\ {entry[1] : entry \in mem[p].seen} \subseteq Volumes(p, mem[p].audit) \ mem[p].todo
          /\ pc[p] = "idle" => mem[p] = NoMemory
    /\ authn \in [Plane -> 0 .. MaxWrites + 1]
    /\ {writes, edits, faults} \subseteq Nat

\* What the API server of plane p should be running with: computed from what
\* users, cert-manager and the management cluster wrote last.
Wanted(p) ==
    {<<s, Content(p, s)>> : s \in Sources(p)} \cup
    {<<"authentication", <<<<"config", store[RootCA]>>>>>>} \cup
    {<<"audit", content.data>> : content \in AuditSecrets(p, audit[p]) \ {NoSecret}}

\* Everything the reconcile of plane p reads exists.
Complete(p) ==
    /\ \A s \in Sources(p) \cup {RootCA} : store[s] # 0
    /\ audit[p] = "webhook" => \A t \in DOMAIN Url[p] : store[t] # 0

\* Once the objects an API server depends on exist and are left alone, its pod
\* ends up running with their last content and the last audit section: also for
\* a write no watch maps to this control plane (a webhook token, the root CA, a
\* Secret that another control plane mounts as well), one made between the
\* checksum and the apply, or one whose event was lost.
ConfigReachesPods ==
    \A p \in Plane :
       <>[]Complete(p)
         => <>[](pod[p].template.audit = audit[p] /\ pod[p].content = Wanted(p))

\* Reconciles go on for ever, rollouts do not: once nothing is written any more
\* the template stays as it is, although the targets of the audit webhook come
\* out of a Go map in another order every time.  (So do the user's mounts, which
\* are not sorted: it fails with two of them.)
RolloutsEnd == <>[][UNCHANGED template]_vars

(***************************************************************************)
(* What the proofs are about besides TypeOK, and their inductive           *)
(* strengthening: a worker that has not come to the checksum has read no   *)
(* volume.                                                                 *)
(***************************************************************************)

\* No failed call, crash or lost event leaves a control plane that is neither
\* queued nor waiting for its timer nor being reconciled: a change nobody is
\* told of is found by the next reconcile, and there is always a next one.
NeverForgotten == \A p \in Plane : p \in queue \cup timer \/ pc[p] # "idle"

\* The audit section is read when the reconcile begins, the volumes one after
\* the other, and users edit the section meanwhile: the checksum is nevertheless
\* about all volumes, and only those, that the template it ends up in mounts.
ChecksumCoversVolumes ==
    \A p \in Plane : pc[p] = "checksum" =>
        {entry[1] : entry \in mem[p].seen} = Volumes(p, mem[p].audit) \ mem[p].todo

WorkerInv ==
    /\ mem = [p \in Plane |-> mem[p]]
    /\ \A p \in Plane :
          /\ mem[p] = [audit |-> mem[p].audit, todo |-> mem[p].todo, seen |-> mem[p].seen]
          /\ pc[p] # "checksum" => mem[p].todo = {} /\ mem[p].seen = {}

=============================================================================
