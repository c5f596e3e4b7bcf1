---------------------------- MODULE Certificates ----------------------------
(***************************************************************************)
(* The certificates of a control plane over time: the CA certificates,     *)
(* bundles and leaf certificates of pkg/reconcilers/certificates, the      *)
(* kubeconfigs made of them (pkg/reconcilers/kubeconfig) and the rotation  *)
(* of the nodes (pkg/reconcilers/node_rotation), while cert-manager issues *)
(* and renews at its own pace and reconciles fail anywhere.                *)
(*                                                                         *)
(* The kubernetes CA is self-signed and signs the intermediate CAs; both   *)
(* sign leaf certificates.  The ca.crt of a CA's Secret, from which its    *)
(* bundle is made, is the certificate of its issuer.  A leaf carries the   *)
(* intermediate that signed it, so that a chain is anchored in a bundle by *)
(* a valid kubernetes CA certificate of the right key.                     *)
(*                                                                         *)
(* Timing: cert-manager renews a certificate at most Delay ticks after     *)
(* half of its life, and at any time some complete reconcile started at    *)
(* most Sync ticks ago.  Simplifications: Secret and status of a           *)
(* Certificate change together; durations do not change; the phases        *)
(* between those modelled may only fail.                                   *)
(***************************************************************************)
EXTENDS Integers

CONSTANTS
    Intermediate,   \* the CAs signed by the kubernetes CA: etcd, front-proxy
    Leaf,           \* the certificates of createCertificateSpecs
    LeafIssuer,     \* the CA that signs each of them
    InternalUser,   \* leaves that go into the internal kubeconfigs
    Admin,          \* the leaf of the admin kubeconfig
    MachineDeployment, MachinePool,   \* the node groups
    Orphan,         \* certificates an older controller has left behind
    RootDuration, CADuration, LeafDuration,
    Delay, Sync,    \* the timing, in ticks
    MaxTime,        \* bound: the clock stops here
    MaxFaults       \* bound: failing calls and crashes

kubernetes == "kubernetes"
selfSigned == "self-signed"

CA     == {kubernetes} \cup Intermediate
Cert   == CA \cup Leaf
User   == InternalUser \cup {Admin}
Group  == MachineDeployment \cup MachinePool
Issuer == {selfSigned} \cup CA

\* Renewal is due when 50% of the duration are left (certificateRenewBefore).
RenewAfter(duration) == duration - (duration * 50) \div 100

ASSUME ConstantsAssumption ==
    /\ kubernetes \notin Intermediate /\ selfSigned \notin Intermediate
    /\ CA \cap Leaf = {} /\ Orphan \cap Cert = {}
    /\ LeafIssuer \in [Leaf -> CA]
    /\ User \subseteq {l \in Leaf : LeafIssuer[l] = kubernetes}
    /\ InternalUser # {} /\ MachineDeployment \cap MachinePool = {}
    /\ {RootDuration, CADuration, LeafDuration} \subseteq Nat
    /\ Delay \in Nat /\ Sync \in Nat /\ MaxTime \in Nat \ {0} /\ MaxFaults \in Nat

\* What is left of a kubernetes CA certificate, or of a leaf, when it is due
\* outlasts the renewal and the next complete reconcile.  How the durations
\* compare with each other is left open: the webhook demands no more than
\* RootDuration >= CADuration, and by default the two are equal.
ASSUME RootAssumption == RootDuration >= RenewAfter(RootDuration) + Delay + Sync
ASSUME LeafAssumption == LeafDuration >= RenewAfter(LeafDuration) + Delay + Sync

VARIABLES
    now,         \* the clock
    requested,   \* the Certificate objects
    issuers,     \* the Issuer objects
    ready,       \* those of them that are ready
    cert,        \* what the Secret of each Certificate holds
    bundle,      \* the bundle Secret of each CA
    kubeconfig,  \* the kubeconfig Secret of each user
    rollout,     \* the CA certificate each node group was last rolled for
    pc, todo,    \* the reconcile in flight: its phase, what is left of a loop
    after,       \* the CA certificate this reconcile rolls the nodes for
    started,     \* when this reconcile started
    synced,      \* when the last complete reconcile started
    faults       \* failures so far

certVars == <<requested, issuers, ready, cert>>
outVars  == <<bundle, kubeconfig, rollout>>
ctrlVars == <<pc, todo, after, started, synced>>
vars     == <<now, certVars, outVars, ctrlVars, faults>>

Time  == 0 .. MaxTime
Never == 0

\* A certificate: its notBefore, that of its issuer's certificate, and the
\* kubernetes CA key its chain leads to, named by the time it was made.
Certificate == [notBefore : Time, issuer : Time, key : Time]
NoCertificate == [notBefore |-> Never, issuer |-> Never, key |-> Never]

\* A kubernetes CA certificate in a bundle.
Anchor == [notBefore : Time, key : Time]
NoAnchor == [notBefore |-> Never, key |-> Never]

Bundle == [current : Anchor, old : Anchor]
NoBundle == [current |-> NoAnchor, old |-> NoAnchor]

Kubeconfig == [client : Certificate, ca : Bundle]
NoKubeconfig == [client |-> NoCertificate, ca |-> NoBundle]

Phases == {"idle", "caCertificates", "caBundles", "certificates", "internalKubeconfig",
           "adminKubeconfig", "caRotation", "rotating"}

TypeOK ==
    /\ now \in Time \ {Never}
    /\ requested \subseteq Cert \cup Orphan
    /\ issuers \subseteq Issuer /\ ready \subseteq issuers
    /\ cert \in [Cert -> Certificate]
    /\ bundle \in [CA -> Bundle]
    /\ kubeconfig \in [User -> Kubeconfig]
    /\ rollout \in [Group -> Time]
    /\ pc \in Phases /\ todo \subseteq CA \cup User \cup Group
    /\ after \in Time /\ started \in Time /\ synced \in Time
    /\ faults \in 0 .. MaxFaults

Duration(c) ==
    IF c = kubernetes THEN RootDuration
    ELSE IF c \in Intermediate THEN CADuration ELSE LeafDuration

IssuerOf(c) ==
    IF c = kubernetes THEN selfSigned
    ELSE IF c \in Intermediate THEN kubernetes ELSE LeafIssuer[c]

Exists(x) == x.notBefore # Never

Valid(notBefore, duration) == notBefore # Never /\ now <= notBefore + duration

IsCertificateReady(c) == Valid(cert[c].notBefore, Duration(c))

Init ==
    /\ now = 1
    /\ requested \in SUBSET Orphan
    /\ issuers = {} /\ ready = {}
    /\ cert = [c \in Cert |-> NoCertificate]
    /\ bundle = [c \in CA |-> NoBundle]
    /\ kubeconfig = [u \in User |-> NoKubeconfig]
    /\ rollout = [g \in Group |-> Never]
    /\ pc = "idle" /\ todo = {} /\ after = Never /\ started = now /\ synced = now
    /\ faults = 0

-----------------------------------------------------------------------------
(* The reconcile.                                                          *)

Goto(phase, loop) == pc' = phase /\ todo' = loop

\* The reconcile ends early: an error, or something is not ready.
Return == Goto("idle", {}) /\ after' = Never /\ UNCHANGED <<started, synced>>

Fault == faults < MaxFaults /\ faults' = faults + 1

BeginReconcile ==
    /\ pc = "idle"
    /\ Goto("caCertificates", {})
    /\ started' = now
    /\ UNCHANGED <<now, certVars, outVars, after, synced, faults>>

\* Mutant: the issuers are applied once all CA certificates are ready.
ReconcileCACertificatesTogether ==
    /\ pc = "caCertificates"
    /\ requested' = IF selfSigned \in ready THEN requested \cup CA ELSE requested
    /\ issuers' = issuers \cup {selfSigned}
                  \cup (IF \A c \in CA : IsCertificateReady(c) THEN CA ELSE {})
    /\ IF \A c \in CA : IsCertificateReady(c) /\ c \in ready
       THEN Goto("caBundles", CA) /\ UNCHANGED <<after, started, synced>>
       ELSE Return
    /\ UNCHANGED <<now, ready, cert, outVars, faults>>

\* Without the self-signed issuer nothing is requested.  A CA that is not
\* ready does not keep the others back; its issuer is applied when it is.
ReconcileCACertificates ==
    /\ pc = "caCertificates"
    /\ IF selfSigned \in ready
       THEN /\ requested' = requested \cup CA
            /\ issuers' = issuers \cup {c \in CA : IsCertificateReady(c)}
       ELSE issuers' = issuers \cup {selfSigned} /\ UNCHANGED requested
    /\ IF selfSigned \in ready /\ \A c \in CA : IsCertificateReady(c) /\ c \in ready
       THEN Goto("caBundles", CA) /\ UNCHANGED <<after, started, synced>>
       ELSE Return
    /\ UNCHANGED <<now, ready, cert, outVars, faults>>

\* The kubernetes CA comes first in caDefinitions.
NextCA(c) == c \in todo /\ (kubernetes \in todo => c = kubernetes)

\* The ca.crt of a CA's Secret.
CACert(c) == [notBefore |-> cert[c].issuer, key |-> cert[c].key]

\* The loop goes on, or the next phase begins.
Advance(x, phase, loop) ==
    /\ IF todo = {x} THEN Goto(phase, loop) ELSE Goto(pc, todo \ {x})
    /\ UNCHANGED <<after, started, synced>>

\* The bundle holds the CA certificate and the one before.
reconcileCABundle(c) ==
    /\ pc = "caBundles" /\ NextCA(c)
    /\ bundle' = IF bundle[c].current = CACert(c) THEN bundle
                 ELSE [bundle EXCEPT ![c] = [current |-> CACert(c), old |-> @.current]]
    /\ Advance(c, "certificates", {})
    /\ UNCHANGED <<now, certVars, kubeconfig, rollout, faults>>

\* All leaf certificates are requested, those nobody wants are deleted.
ReconcileCertificates ==
    /\ pc = "certificates"
    /\ requested' = (requested \cup Leaf) \ Orphan
    /\ IF \A l \in Leaf : IsCertificateReady(l)
       THEN Goto("internalKubeconfig", InternalUser) /\ UNCHANGED <<after, started, synced>>
       ELSE Return
    /\ UNCHANGED <<now, issuers, ready, cert, outVars, faults>>

\* Mutant: a kubeconfig is written only once.
reconcileKubeconfigOnce(u) ==
    kubeconfig' = IF Exists(kubeconfig[u].client) THEN kubeconfig
                  ELSE [kubeconfig EXCEPT ![u] = [client |-> cert[u], ca |-> bundle[kubernetes]]]

\* A kubeconfig is made of the user's certificate and the bundle.
reconcileKubeconfig(u) ==
    kubeconfig' = [kubeconfig EXCEPT ![u] = [client |-> cert[u], ca |-> bundle[kubernetes]]]

ReconcileInternalKubeconfigs(u) ==
    /\ pc = "internalKubeconfig" /\ u \in todo
    /\ reconcileKubeconfig(u)
    /\ Advance(u, "adminKubeconfig", {})
    /\ UNCHANGED <<now, certVars, bundle, rollout, faults>>

ReconcileAdminKubeconfig ==
    /\ pc = "adminKubeconfig"
    /\ reconcileKubeconfig(Admin)
    /\ Goto("caRotation", {})
    /\ UNCHANGED <<now, certVars, bundle, rollout, after, started, synced, faults>>

\* Mutant: the end of the CA certificate is taken for its beginning.
ReconcileCARotationNotAfter ==
    /\ pc = "caRotation"
    /\ after' = cert[kubernetes].notBefore + RootDuration
    /\ Goto("rotating", Group)
    /\ UNCHANGED <<now, certVars, outVars, started, synced, faults>>

\* The nodes are rolled for the CA certificate of this moment.
ReconcileCARotation ==
    /\ pc = "caRotation"
    /\ after' = cert[kubernetes].notBefore
    /\ Goto("rotating", Group)
    /\ UNCHANGED <<now, certVars, outVars, started, synced, faults>>

\* MachineDeployments come before MachinePools.
NextGroup(g) == g \in todo /\ (g \in MachinePool => todo \cap MachineDeployment = {})

\* Mutant: a group that was rolled once is skipped.
RotateOnce(g) ==
    /\ pc = "rotating" /\ NextGroup(g)
    /\ rollout' = IF rollout[g] # Never THEN rollout ELSE [rollout EXCEPT ![g] = after]
    /\ Goto(pc, todo \ {g})
    /\ UNCHANGED <<now, certVars, bundle, kubeconfig, after, started, synced, faults>>

\* The rollout time of a MachineDeployment, the annotation of a MachinePool.
Rotate(g) ==
    /\ pc = "rotating" /\ NextGroup(g)
    /\ rollout' = [rollout EXCEPT ![g] = after]
    /\ Goto(pc, todo \ {g})
    /\ UNCHANGED <<now, certVars, bundle, kubeconfig, after, started, synced, faults>>

\* The reconcile is complete; it is repeated after a minute.
EndReconcile ==
    /\ pc = "rotating" /\ todo = {}
    /\ Goto("idle", {}) /\ after' = Never
    /\ synced' = started
    /\ UNCHANGED <<now, certVars, outVars, started, faults>>

\* A call fails, in one of these phases or in one between them, or the
\* controller stops.
Fail ==
    /\ pc # "idle"
    /\ Fault /\ Return
    /\ UNCHANGED <<now, certVars, outVars>>

\* The loop over the CAs is cut short: some are requested, and those that
\* are ready have an issuer, but for the one at which the loop stopped.
FailCACertificates ==
    /\ pc = "caCertificates" /\ selfSigned \in ready
    /\ Fault /\ Return
    /\ \E cas \in SUBSET CA : \E last \in CA :
         /\ kubernetes \in cas
         /\ last = kubernetes => cas = {kubernetes}
         /\ requested' = requested \cup cas
         /\ issuers' = issuers \cup {c \in cas \ {last} : IsCertificateReady(c)}
    /\ UNCHANGED <<now, ready, cert, outVars>>

\* Some leaf certificates are requested, or all and some orphans deleted.
FailCertificates ==
    /\ pc = "certificates"
    /\ Fault /\ Return
    /\ \/ \E applied \in SUBSET Leaf : requested' = requested \cup applied
       \/ \E deleted \in SUBSET Orphan : requested' = (requested \cup Leaf) \ deleted
    /\ UNCHANGED <<now, issuers, ready, cert, outVars>>

-----------------------------------------------------------------------------
(* cert-manager.                                                           *)

BecomeReady(i) ==
    /\ i \in issuers \ ready
    /\ ready' = ready \cup {i}
    /\ UNCHANGED <<now, requested, issuers, cert, outVars, ctrlVars, faults>>

\* Mutant: the key is rotated with every renewal.
stablePrivateKeyRotated(c) == now

\* A renewal keeps the private key.
stablePrivateKey(c) == IF Exists(cert[c]) THEN cert[c].key ELSE now

Due(c) == cert[c].notBefore + RenewAfter(Duration(c))

Issue(c) ==
    /\ c \in requested /\ IssuerOf(c) \in ready
    /\ Exists(cert[c]) => now >= Due(c)
    /\ cert' = [cert EXCEPT ![c] =
         IF c = kubernetes
         THEN [notBefore |-> now, issuer |-> now, key |-> stablePrivateKey(c)]
         ELSE [notBefore |-> now, issuer |-> cert[IssuerOf(c)].notBefore,
               key |-> cert[IssuerOf(c)].key]]
    /\ UNCHANGED <<now, requested, issuers, ready, outVars, ctrlVars, faults>>

\* Time passes unless cert-manager or the controller would be late.
Tick ==
    /\ now < MaxTime
    /\ now < synced + Sync
    /\ \A c \in Cert : Exists(cert[c]) => now < Due(c) + Delay
    /\ now' = now + 1
    /\ UNCHANGED <<certVars, outVars, ctrlVars, faults>>

-----------------------------------------------------------------------------
Controller ==
    \/ BeginReconcile \/ ReconcileCACertificates \/ ReconcileCertificates
    \/ ReconcileAdminKubeconfig \/ ReconcileCARotation \/ EndReconcile
    \/ \E c \in CA : reconcileCABundle(c)
    \/ \E u \in InternalUser : ReconcileInternalKubeconfigs(u)
    \/ \E g \in Group : Rotate(g)

CertManager == \E i \in Issuer : BecomeReady(i)

Failure == Fail \/ FailCACertificates \/ FailCertificates

Next == Controller \/ Failure \/ CertManager \/ (\E c \in Cert : Issue(c)) \/ Tick

Spec == Init /\ [][Next]_vars

\* The work queue repeats reconciles for ever, cert-manager keeps
\* working.
FairSpec ==
    /\ Spec
    /\ WF_vars(Controller) /\ WF_vars(CertManager)
    /\ \A c \in Cert : WF_vars(Issue(c))

-----------------------------------------------------------------------------
(* Properties.                                                             *)

Late(age, duration) == IF age > duration THEN age - duration ELSE 0

\* How long after its end an intermediate, or a kubernetes CA certificate, may
\* still be the one that leaves of an intermediate depend on: not at all when
\* the durations overlap enough.  The default, two days for both CAs, leaves a
\* RootGap of two delays and a reconcile.
IntermediateGap == Late(RenewAfter(CADuration) + RenewAfter(LeafDuration) + 2 * Delay, CADuration)
RootGap ==
    Late(RenewAfter(RootDuration) + RenewAfter(CADuration) + 2 * Delay + Sync, RootDuration)

Anchored(key, b, gap) ==
    \E a \in {b.current, b.old} : a.key = key /\ Valid(a.notBefore, RootDuration + gap)

\* The chain of certificate x, issued by CA c, holds against bundle b.
Trusted(x, c, b) ==
    /\ Valid(x.notBefore, LeafDuration)
    /\ IF c = kubernetes THEN Anchored(x.key, b, 0)
       ELSE Valid(x.issuer, CADuration + IntermediateGap) /\ Anchored(x.key, b, RootGap)

\* Whoever holds the bundle of a CA can verify every certificate that CA has
\* issued, through renewals of all three levels at any time between two
\* reconciles: those of the kubernetes CA always, those of an intermediate CA
\* except for the gap the durations leave.
LeavesTrusted ==
    \A l \in Leaf : Exists(cert[l]) /\ Exists(bundle[LeafIssuer[l]].current) =>
        Trusted(cert[l], LeafIssuer[l], bundle[LeafIssuer[l]])

\* A kubeconfig that was handed out works: the API server accepts its client
\* certificate, and it accepts whatever the kubernetes CA has issued to the
\* API server, although both were renewed after it was written.
KubeconfigsWork ==
    \A u \in User : Exists(kubeconfig[u].client) =>
        /\ Trusted(kubeconfig[u].client, kubernetes, bundle[kubernetes])
        /\ \A l \in Leaf : Exists(cert[l]) /\ LeafIssuer[l] = kubernetes =>
              Trusted(cert[l], kubernetes, kubeconfig[u].ca)

\* No node group is left on a CA certificate that has expired, also when a
\* rotation stops half-way, time passes and the CA is renewed before the next
\* one: a complete rotation within half of the CA's life is enough.
NodesRotatedInTime ==
    \A g \in Group : rollout[g] # Never => Valid(rollout[g], RootDuration)

\* From nothing, the CAs, issuers, certificates, kubeconfigs and node groups
\* all come into being, though each waits for the one before, and orphaned
\* certificates go.
Complete ==
    /\ requested = Cert
    /\ \A c \in Cert : Exists(cert[c])
    /\ \A u \in User : Exists(kubeconfig[u].client)
    /\ \A g \in Group : rollout[g] # Never

EventuallyComplete == <>[]Complete

-----------------------------------------------------------------------------
(* Inductive strengthenings, used by the proofs.                           *)

\* The age up to which a certificate is still the one in its Secret.
Age(duration) == RenewAfter(duration) + Delay

\* The age up to which the ca.crt in the Secret of a CA is still used.
AnchorAge(c) ==
    IF c = kubernetes THEN Age(RootDuration) ELSE Age(RootDuration) + Age(CADuration)

\* Everything leads to the one key of the kubernetes CA; no certificate is
\* older than its age, and none was older when it signed another one.
IssuedInv ==
    /\ \A c \in CA : c \in issuers => Exists(cert[c])
    /\ \A c \in Cert : Exists(cert[c]) =>
         /\ Exists(cert[kubernetes]) /\ cert[c].key = cert[kubernetes].key
         /\ now <= cert[c].notBefore + Age(Duration(c))
         /\ cert[c].issuer # Never
         /\ c = kubernetes => cert[c].issuer = cert[c].notBefore
         /\ c # kubernetes =>
              cert[c].notBefore <= cert[c].issuer + Age(Duration(IssuerOf(c)))

\* Where a reconcile is and what it has found.
PhaseInv ==
    /\ synced <= now /\ now <= synced + Sync
    /\ pc # "idle" => synced <= started /\ started <= now
    /\ pc \notin {"idle", "caCertificates"} => \A c \in CA : Exists(cert[c])
    /\ pc \notin {"idle", "caCertificates", "caBundles", "certificates"} =>
         \A l \in Leaf : Exists(cert[l])
    /\ pc = "rotating" => after # Never /\ started <= after + Age(RootDuration)

\* An anchor, not older at time t than age.
AnchorAt(a, t, age) ==
    Exists(a) /\ a.key = cert[kubernetes].key /\ t <= a.notBefore + age

\* The CAs, users and groups the reconcile in flight is done with.
BundleDone(c) == pc \notin {"idle", "caCertificates"} /\ (pc = "caBundles" => c \notin todo)
UserDone(u) ==
    \/ pc \in {"caRotation", "rotating"}
    \/ pc = "adminKubeconfig" /\ u \in InternalUser
    \/ pc = "internalKubeconfig" /\ u \in InternalUser \ todo
GroupDone(g) == pc = "rotating" /\ g \notin todo

\* Whatever is handed out was current when the last complete reconcile
\* started, or later; once renewed by the reconcile in flight, when that
\* one started.
BundleInv ==
    \A c \in CA :
      /\ Exists(bundle[c].current) =>
           /\ Exists(cert[kubernetes])
           /\ AnchorAt(bundle[c].current, synced, AnchorAge(c))
      /\ BundleDone(c) => AnchorAt(bundle[c].current, started, AnchorAge(c))

WrittenAt(k, t) ==
    /\ AnchorAt(k.ca.current, t, Age(RootDuration))
    /\ k.client.key = cert[kubernetes].key
    /\ Exists(k.client) /\ t <= k.client.notBefore + Age(LeafDuration)

KubeconfigInv ==
    \A u \in User :
      /\ Exists(kubeconfig[u].client) =>
           /\ Exists(bundle[kubernetes].current)
           /\ WrittenAt(kubeconfig[u], synced)
      /\ UserDone(u) => WrittenAt(kubeconfig[u], started)

RolloutInv ==
    \A g \in Group :
      /\ rollout[g] # Never => synced <= rollout[g] + Age(RootDuration)
      /\ GroupDone(g) => rollout[g] # Never /\ started <= rollout[g] + Age(RootDuration)

CertificatesInv == IssuedInv /\ PhaseInv /\ BundleInv /\ KubeconfigInv /\ RolloutInv

=============================================================================
