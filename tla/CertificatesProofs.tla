------------------------- MODULE CertificatesProofs -------------------------
(***************************************************************************)
(* Theorems about Certificates for any set of CAs, certificates, users and *)
(* node groups and any durations: half of the kubernetes CA's and half of  *)
(* a leaf's are to outlast a renewal and a reconcile (RootAssumption,      *)
(* LeafAssumption), but nothing is asked of one duration relative to       *)
(* another.  The default durations are among them.                         *)
(*                                                                         *)
(* CertificatesInv bounds the age of every copy of a certificate.  What is *)
(* in a Secret is no older than its renewal allows.  What a reconcile has  *)
(* copied from there was current at some time since that reconcile         *)
(* started, and everything handed out was copied by the last complete      *)
(* reconcile or a later one.  Along a chain the bounds add up to less than *)
(* the life of the certificate it hangs on, or exceed it by the gap.       *)
(***************************************************************************)
EXTENDS Certificates, TLAPS

\* Renewal takes place after a natural number of ticks.
LEMMA RenewType == \A d \in Nat : RenewAfter(d) \in Nat
  BY DEF RenewAfter

\* The ages are natural numbers.
LEMMA AgeType ==
  /\ Age(RootDuration) \in Nat /\ Age(CADuration) \in Nat /\ Age(LeafDuration) \in Nat
  /\ \A c \in CA : AnchorAge(c) \in Nat
  BY RenewType, ConstantsAssumption DEF Age, AnchorAge

\* A certificate has one of three durations.
LEMMA DurationType ==
  \A c \in Cert : /\ Duration(c) \in {RootDuration, CADuration, LeafDuration}
                  /\ Duration(c) \in Nat /\ Age(Duration(c)) \in Nat
                  /\ RenewAfter(Duration(c)) \in Nat
  <1>1. \A c \in Cert : Duration(c) \in {RootDuration, CADuration, LeafDuration}
    BY DEF Duration
  <1> QED BY <1>1, AgeType, RenewType, ConstantsAssumption

\* Every certificate but that of the kubernetes CA has a CA as its issuer.
LEMMA IssuerType == \A c \in Cert : c # kubernetes => IssuerOf(c) \in CA
  BY ConstantsAssumption DEF Cert, CA, IssuerOf

\* The records that stand for absent Secrets are well typed.
LEMMA NoneType ==
  /\ NoCertificate \in Certificate /\ NoAnchor \in Anchor
  /\ NoBundle \in Bundle /\ NoKubeconfig \in Kubeconfig
  BY ConstantsAssumption
  DEF NoCertificate, Certificate, NoAnchor, Anchor, NoBundle, Bundle, NoKubeconfig,
      Kubeconfig, Time, Never

-----------------------------------------------------------------------------
(* Type correctness.                                                       *)

\* TypeOK is preserved by every step.
LEMMA TypeStep == TypeOK /\ [Next]_vars => TypeOK'
<1> SUFFICES ASSUME TypeOK, [Next]_vars PROVE TypeOK'
  OBVIOUS
<1> USE ConstantsAssumption
<1> USE DEF TypeOK, Goto, Return, Fault, certVars, outVars, ctrlVars, Phases, Time,
      Never
<1>1. CASE BeginReconcile
  BY <1>1 DEF BeginReconcile
<1>2. CASE ReconcileCACertificates
  BY <1>2 DEF ReconcileCACertificates, Issuer, Cert
<1>3. ASSUME NEW c \in CA, reconcileCABundle(c) PROVE TypeOK'
  <2>1. CACert(c) \in Anchor
    BY DEF CACert, Anchor, Certificate, Cert
  <2>2. bundle' \in [CA -> Bundle]
    BY <1>3, <2>1 DEF reconcileCABundle, Bundle
  <2> QED BY <1>3, <2>2 DEF reconcileCABundle, Advance
<1>4. CASE ReconcileCertificates
  BY <1>4 DEF ReconcileCertificates, Cert, User
<1>5. ASSUME NEW u \in User, reconcileKubeconfig(u) PROVE kubeconfig' \in [User -> Kubeconfig]
  <2>1. cert[u] \in Certificate /\ bundle[kubernetes] \in Bundle
    BY DEF Cert, CA
  <2> QED BY <1>5, <2>1 DEF reconcileKubeconfig, Kubeconfig
<1>6. ASSUME NEW u \in InternalUser, ReconcileInternalKubeconfigs(u) PROVE TypeOK'
  BY <1>5, <1>6 DEF ReconcileInternalKubeconfigs, Advance, User
<1>7. CASE ReconcileAdminKubeconfig
  BY <1>5, <1>7 DEF ReconcileAdminKubeconfig, User
<1>8. CASE ReconcileCARotation
  BY <1>8 DEF ReconcileCARotation, Certificate, Cert, CA
<1>9. ASSUME NEW g \in Group, Rotate(g) PROVE TypeOK'
  BY <1>9 DEF Rotate
<1>10. CASE EndReconcile
  BY <1>10 DEF EndReconcile
<1>11. CASE Fail
  BY <1>11 DEF Fail
<1>12. CASE FailCACertificates
  BY <1>12 DEF FailCACertificates, Issuer, Cert
<1>13. CASE FailCertificates
  BY <1>13 DEF FailCertificates, Cert
<1>14. ASSUME NEW i \in Issuer, BecomeReady(i) PROVE TypeOK'
  BY <1>14 DEF BecomeReady
<1>15. ASSUME NEW c \in Cert, Issue(c) PROVE TypeOK'
  <2>1. now \in Time /\ stablePrivateKey(c) \in Time
    BY DEF stablePrivateKey, Certificate
  <2>2. c # kubernetes => cert[IssuerOf(c)] \in Certificate
    BY IssuerType DEF Cert
  <2>3. cert' \in [Cert -> Certificate]
    BY <1>15, <2>1, <2>2 DEF Issue, Certificate
  <2> QED BY <1>15, <2>3 DEF Issue
<1>16. CASE Tick
  BY <1>16 DEF Tick
<1>17. CASE UNCHANGED vars
  BY <1>17 DEF vars
<1> QED
  BY <1>1, <1>2, <1>3, <1>4, <1>6, <1>7, <1>8, <1>9, <1>10, <1>11, <1>12, <1>13,
     <1>14, <1>15, <1>16, <1>17
  DEF Next, Controller, Failure, CertManager

\* All states are well typed: in particular no rollout time or kubeconfig is
\* made from anything but a certificate.
THEOREM TypeCorrect == Spec => []TypeOK
<1>1. Init => TypeOK
  BY NoneType, ConstantsAssumption DEF Init, TypeOK, Time, Never, Phases
<1> QED
  BY <1>1, TypeStep, PTL DEF Spec

-----------------------------------------------------------------------------
(* Ages.                                                                   *)

\* Values the provers need as numbers.
LEMMA Numbers ==
  ASSUME TypeOK
  PROVE  /\ now \in Nat /\ started \in Nat /\ synced \in Nat /\ after \in Nat
         /\ \A c \in Cert : cert[c].notBefore \in Nat /\ cert[c].issuer \in Nat
         /\ \A c \in CA : bundle[c].current.notBefore \in Nat
         /\ \A u \in User : kubeconfig[u].client.notBefore \in Nat
                            /\ kubeconfig[u].ca.current.notBefore \in Nat
         /\ \A g \in Group : rollout[g] \in Nat
  BY ConstantsAssumption DEF TypeOK, Time, Certificate, Bundle, Anchor, Kubeconfig, Never

\* A step that leaves the Secrets of the certificates, the time and what was
\* handed out alone, and does not enter a later phase.
LEMMA QuietStep ==
  ASSUME CertificatesInv, UNCHANGED <<now, cert, bundle, kubeconfig, rollout, synced>>,
         pc' = "idle",
         \A c \in CA : c \in issuers' => Exists(cert[c])
  PROVE  CertificatesInv'
  BY DEF CertificatesInv, IssuedInv, PhaseInv, BundleInv, KubeconfigInv, RolloutInv,
         AnchorAt, WrittenAt, BundleDone, UserDone, GroupDone, Exists

\* CertificatesInv is preserved by every step.
LEMMA CertificatesStep == TypeOK /\ CertificatesInv /\ [Next]_vars => CertificatesInv'
<1> SUFFICES ASSUME TypeOK, CertificatesInv, [Next]_vars PROVE CertificatesInv'
  OBVIOUS
<1> USE DEF Goto, certVars, outVars, ctrlVars
<1>t. TypeOK'
  BY TypeStep
<1>n. \A c \in CA : c \in Cert
  BY DEF Cert
<1>k. kubernetes \in CA
  BY DEF CA
<1>1. CASE BeginReconcile
  BY <1>1, Numbers DEF BeginReconcile, CertificatesInv, IssuedInv, PhaseInv, BundleInv,
     KubeconfigInv, RolloutInv, AnchorAt, WrittenAt, BundleDone, UserDone, GroupDone, Exists
<1>2. CASE ReconcileCACertificates
  <2>1. UNCHANGED <<now, cert, bundle, kubeconfig, rollout, started, synced>>
    BY <1>2 DEF ReconcileCACertificates, Return
  <2>2. \A c \in CA : c \in issuers' => Exists(cert[c])
    BY <1>2, ConstantsAssumption
    DEF ReconcileCACertificates, CertificatesInv, IssuedInv, IsCertificateReady, Valid,
        Exists, CA, kubernetes, selfSigned
  <2>3. CASE pc' = "idle"
    BY <2>1, <2>2, <2>3, QuietStep
  <2>4. CASE pc' # "idle"
    <3>1. /\ pc' = "caBundles" /\ todo' = CA
          /\ \A c \in CA : IsCertificateReady(c)
      BY <1>2, <2>4 DEF ReconcileCACertificates, Return
    <3>2. \A c \in CA : Exists(cert[c])
      BY <3>1 DEF IsCertificateReady, Valid, Exists
    <3> QED
      BY <1>2, <2>1, <2>2, <3>1, <3>2
      DEF ReconcileCACertificates, CertificatesInv, IssuedInv, PhaseInv, BundleInv,
          KubeconfigInv, RolloutInv, AnchorAt, WrittenAt, BundleDone, UserDone, GroupDone,
          Exists
  <2> QED BY <2>3, <2>4
<1>3. ASSUME NEW c \in CA, reconcileCABundle(c) PROVE CertificatesInv'
  <2>1. /\ pc = "caBundles" /\ c \in todo
        /\ UNCHANGED <<now, issuers, cert, kubeconfig, rollout, synced, started, after>>
    BY <1>3 DEF reconcileCABundle, NextCA, Advance
  <2>2. /\ Exists(cert[c]) /\ Exists(cert[kubernetes])
        /\ cert[c].key = cert[kubernetes].key
        /\ cert[c].issuer # Never
    BY <2>1, <1>n, <1>k DEF CertificatesInv, IssuedInv, PhaseInv
  <2>3. now <= cert[c].issuer + AnchorAge(c)
    <3>1. c = kubernetes => now <= cert[c].issuer + Age(RootDuration)
      BY <2>2, <1>n DEF CertificatesInv, IssuedInv, Duration
    <3>2. CASE c # kubernetes
      <4>1. c \in Intermediate
        BY <3>2 DEF CA
      <4>2. now <= cert[c].notBefore + Age(CADuration)
        BY <2>2, <3>2, <4>1, <1>n DEF CertificatesInv, IssuedInv, Duration
      <4>3. cert[c].notBefore <= cert[c].issuer + Age(RootDuration)
        BY <2>2, <3>2, <4>1, <1>n DEF CertificatesInv, IssuedInv, Duration, IssuerOf
      <4> QED
        BY <3>2, <4>2, <4>3, <1>n, Numbers, AgeType DEF AnchorAge
    <3> QED BY <3>1, <3>2 DEF AnchorAge
  <2>4. bundle'[c].current = CACert(c)
    BY <1>3 DEF reconcileCABundle, TypeOK, Bundle
  <2>5. \A d \in CA : d # c => bundle'[d] = bundle[d]
    BY <1>3 DEF reconcileCABundle, TypeOK
  <2>6. synced <= now /\ started <= now
    BY <2>1 DEF CertificatesInv, PhaseInv
  <2>7. /\ AnchorAt(bundle'[c].current, synced, AnchorAge(c))
        /\ AnchorAt(bundle'[c].current, started, AnchorAge(c))
    BY <2>2, <2>3, <2>4, <2>6, <1>n, Numbers, AgeType DEF AnchorAt, CACert, Exists
  <2>8. /\ pc' \in {"caBundles", "certificates"}
        /\ pc' = "caBundles" => todo' = todo \ {c}
        /\ pc' = "certificates" => todo = {c}
    BY <1>3, <2>1 DEF reconcileCABundle, Advance
  <2>9. BundleInv'
    <3> SUFFICES ASSUME NEW d \in CA
                 PROVE  /\ Exists(bundle'[d].current) =>
                             /\ Exists(cert[kubernetes])
                             /\ AnchorAt(bundle'[d].current, synced, AnchorAge(d))
                        /\ BundleDone(d)' => AnchorAt(bundle'[d].current, started, AnchorAge(d))
      BY <2>1 DEF BundleInv, AnchorAt, Exists
    <3>1. CASE d = c
      BY <2>2, <2>7, <3>1
    <3>2. CASE d # c
      <4>1. BundleDone(d)' => BundleDone(d)
        BY <2>1, <2>8, <3>2 DEF BundleDone
      <4> QED BY <2>2, <2>5, <3>2, <4>1 DEF CertificatesInv, BundleInv
    <3> QED BY <3>1, <3>2
  <2>10. KubeconfigInv'
    <3>1. Exists(bundle[kubernetes].current) => Exists(bundle'[kubernetes].current)
      BY <2>5, <2>7, <1>k DEF AnchorAt
    <3> QED
      BY <2>1, <2>8, <3>1
      DEF CertificatesInv, KubeconfigInv, WrittenAt, AnchorAt, UserDone, Exists
  <2> QED
    BY <2>1, <2>8, <2>9, <2>10
    DEF CertificatesInv, IssuedInv, PhaseInv, RolloutInv, GroupDone, Exists
<1>4. CASE ReconcileCertificates
  <2>1. UNCHANGED <<now, issuers, cert, bundle, kubeconfig, rollout, started, synced>>
    BY <1>4 DEF ReconcileCertificates, Return
  <2>3. CASE pc' = "idle"
    BY <2>1, <2>3, QuietStep DEF CertificatesInv, IssuedInv
  <2>4. CASE pc' # "idle"
    <3>1. /\ pc = "certificates" /\ pc' = "internalKubeconfig" /\ todo' = InternalUser
          /\ \A l \in Leaf : Exists(cert[l])
      BY <1>4, <2>4 DEF ReconcileCertificates, Return, IsCertificateReady, Valid, Exists
    <3> QED
      BY <2>1, <3>1
      DEF CertificatesInv, IssuedInv, PhaseInv, BundleInv,
          KubeconfigInv, RolloutInv, AnchorAt, WrittenAt, BundleDone, UserDone, GroupDone,
          Exists
  <2> QED BY <2>3, <2>4
<1>5. ASSUME NEW u \in User, reconcileKubeconfig(u), UNCHANGED <<cert, bundle>>,
             pc \in {"internalKubeconfig", "adminKubeconfig"}
      PROVE  /\ Exists(bundle[kubernetes].current)
             /\ WrittenAt(kubeconfig'[u], synced) /\ WrittenAt(kubeconfig'[u], started)
             /\ \A v \in User : v # u => kubeconfig'[v] = kubeconfig[v]
  <2>1. kubeconfig'[u] = [client |-> cert[u], ca |-> bundle[kubernetes]]
    BY <1>5 DEF reconcileKubeconfig, TypeOK
  <2>2. \A v \in User : v # u => kubeconfig'[v] = kubeconfig[v]
    BY <1>5 DEF reconcileKubeconfig, TypeOK
  <2>3. u \in Leaf /\ u \in Cert
    BY ConstantsAssumption DEF Cert
  <2>4. Exists(cert[u]) /\ cert[u].key = cert[kubernetes].key
    BY <1>5, <2>3 DEF CertificatesInv, PhaseInv, IssuedInv
  <2>5. Duration(u) = LeafDuration
    BY <2>3, ConstantsAssumption DEF Duration, CA
  <2>6. now <= cert[u].notBefore + Age(LeafDuration)
    BY <2>3, <2>4, <2>5 DEF CertificatesInv, IssuedInv
  <2>7. synced <= now /\ started <= now
    BY <1>5 DEF CertificatesInv, PhaseInv
  <2>8. /\ Exists(bundle[kubernetes].current)
        /\ AnchorAt(bundle[kubernetes].current, synced, Age(RootDuration))
        /\ AnchorAt(bundle[kubernetes].current, started, Age(RootDuration))
    BY <1>5, <1>k DEF CertificatesInv, BundleInv, BundleDone, AnchorAt, AnchorAge
  <2>9. synced <= cert[u].notBefore + Age(LeafDuration)
        /\ started <= cert[u].notBefore + Age(LeafDuration)
    BY <2>3, <2>6, <2>7, Numbers, AgeType
  <2> QED
    BY <2>1, <2>2, <2>4, <2>8, <2>9 DEF WrittenAt, AnchorAt, Exists
<1>6. ASSUME NEW u \in InternalUser, ReconcileInternalKubeconfigs(u) PROVE CertificatesInv'
  <2>1. /\ pc = "internalKubeconfig" /\ u \in todo /\ reconcileKubeconfig(u)
        /\ UNCHANGED <<now, issuers, cert, bundle, rollout, synced, started, after>>
        /\ pc' \in {"internalKubeconfig", "adminKubeconfig"}
        /\ pc' = "internalKubeconfig" => todo' = todo \ {u}
        /\ pc' = "adminKubeconfig" => todo = {u}
    BY <1>6 DEF ReconcileInternalKubeconfigs, Advance
  <2>2. /\ Exists(bundle[kubernetes].current)
        /\ WrittenAt(kubeconfig'[u], synced) /\ WrittenAt(kubeconfig'[u], started)
        /\ \A v \in User : v # u => kubeconfig'[v] = kubeconfig[v]
    BY <1>5, <2>1 DEF User
  <2>3. KubeconfigInv'
    <3> SUFFICES ASSUME NEW v \in User
                 PROVE  /\ Exists(kubeconfig'[v].client) => WrittenAt(kubeconfig'[v], synced)
                        /\ UserDone(v)' => WrittenAt(kubeconfig'[v], started)
      BY <2>1, <2>2 DEF KubeconfigInv, WrittenAt, AnchorAt, Exists
    <3>1. CASE v = u
      BY <2>2, <3>1
    <3>2. CASE v # u
      <4>1. UserDone(v)' => UserDone(v)
        BY <2>1, <3>2 DEF UserDone
      <4> QED BY <2>2, <3>2, <4>1 DEF CertificatesInv, KubeconfigInv
    <3> QED BY <3>1, <3>2
  <2> QED
    BY <2>1, <2>3
    DEF CertificatesInv, IssuedInv, PhaseInv, BundleInv, BundleDone, AnchorAt, RolloutInv,
        GroupDone, Exists
<1>7. CASE ReconcileAdminKubeconfig
  <2>1. /\ pc = "adminKubeconfig" /\ pc' = "caRotation" /\ reconcileKubeconfig(Admin)
        /\ UNCHANGED <<now, issuers, cert, bundle, rollout, synced, started, after>>
    BY <1>7 DEF ReconcileAdminKubeconfig
  <2>2. /\ Exists(bundle[kubernetes].current)
        /\ WrittenAt(kubeconfig'[Admin], synced) /\ WrittenAt(kubeconfig'[Admin], started)
        /\ \A v \in User : v # Admin => kubeconfig'[v] = kubeconfig[v]
    BY <1>5, <2>1 DEF User
  <2>3. KubeconfigInv'
    <3> SUFFICES ASSUME NEW v \in User
                 PROVE  /\ Exists(kubeconfig'[v].client) => WrittenAt(kubeconfig'[v], synced)
                        /\ WrittenAt(kubeconfig'[v], started)
      BY <2>1, <2>2 DEF KubeconfigInv, WrittenAt, AnchorAt, Exists
    <3>1. CASE v = Admin
      BY <2>2, <3>1
    <3>2. CASE v # Admin
      <4>1. UserDone(v)
        BY <2>1, <3>2 DEF UserDone, User
      <4> QED BY <2>2, <3>2, <4>1 DEF CertificatesInv, KubeconfigInv
    <3> QED BY <3>1, <3>2
  <2> QED
    BY <2>1, <2>3
    DEF CertificatesInv, IssuedInv, PhaseInv, BundleInv, BundleDone, AnchorAt, RolloutInv,
        GroupDone, Exists
<1>8. CASE ReconcileCARotation
  <2>1. /\ pc = "caRotation" /\ pc' = "rotating" /\ todo' = Group
        /\ after' = cert[kubernetes].notBefore
        /\ UNCHANGED <<now, issuers, cert, bundle, kubeconfig, rollout, synced, started>>
    BY <1>8 DEF ReconcileCARotation
  <2>2. Exists(cert[kubernetes]) /\ started <= now
        /\ now <= cert[kubernetes].notBefore + Age(RootDuration)
    BY <2>1, <1>k, <1>n DEF CertificatesInv, IssuedInv, PhaseInv, Duration
  <2>3. after' # Never /\ started <= after' + Age(RootDuration)
    BY <2>1, <2>2, <1>k, <1>n, Numbers, AgeType DEF Exists
  <2> QED
    BY <2>1, <2>3
    DEF CertificatesInv, IssuedInv, PhaseInv, BundleInv, BundleDone, KubeconfigInv,
        UserDone, WrittenAt, AnchorAt, RolloutInv, GroupDone, Exists
<1>9. ASSUME NEW g \in Group, Rotate(g) PROVE CertificatesInv'
  <2>1. /\ pc = "rotating" /\ pc' = "rotating" /\ todo' = todo \ {g}
        /\ rollout' = [rollout EXCEPT ![g] = after]
        /\ UNCHANGED <<now, issuers, cert, bundle, kubeconfig, after, synced, started>>
    BY <1>9 DEF Rotate
  <2>2. /\ after # Never /\ started <= after + Age(RootDuration)
        /\ synced <= started
    BY <2>1 DEF CertificatesInv, PhaseInv
  <2>3. synced <= after + Age(RootDuration)
    BY <2>2, Numbers, AgeType
  <2>4. RolloutInv'
    <3> SUFFICES ASSUME NEW h \in Group
                 PROVE  /\ rollout'[h] # Never => synced <= rollout'[h] + Age(RootDuration)
                        /\ GroupDone(h)' =>
                             rollout'[h] # Never /\ started <= rollout'[h] + Age(RootDuration)
      BY <2>1 DEF RolloutInv
    <3>1. CASE h = g
      BY <2>1, <2>2, <2>3, <3>1 DEF TypeOK
    <3>2. CASE h # g
      <4>1. rollout'[h] = rollout[h] /\ (GroupDone(h)' => GroupDone(h))
        BY <2>1, <3>2 DEF TypeOK, GroupDone
      <4> QED BY <4>1 DEF CertificatesInv, RolloutInv
    <3> QED BY <3>1, <3>2
  <2> QED
    BY <2>1, <2>4
    DEF CertificatesInv, IssuedInv, PhaseInv, BundleInv, BundleDone, KubeconfigInv,
        UserDone, WrittenAt, AnchorAt, Exists
<1>10. CASE EndReconcile
  <2>1. /\ pc = "rotating" /\ todo = {} /\ pc' = "idle" /\ synced' = started
        /\ UNCHANGED <<now, issuers, cert, bundle, kubeconfig, rollout, started>>
    BY <1>10 DEF EndReconcile
  <2>2. PhaseInv'
    BY <2>1, Numbers, ConstantsAssumption DEF CertificatesInv, PhaseInv
  <2>3. (\A c \in CA : BundleDone(c)) /\ (\A u \in User : UserDone(u))
        /\ (\A g \in Group : GroupDone(g))
    BY <2>1 DEF BundleDone, UserDone, GroupDone
  <2> QED
    BY <2>1, <2>2, <2>3
    DEF CertificatesInv, IssuedInv, BundleInv, BundleDone, KubeconfigInv,
        UserDone, WrittenAt, AnchorAt, RolloutInv, GroupDone, Exists
<1>11. CASE Fail
  BY <1>11, QuietStep DEF Fail, Return, CertificatesInv, IssuedInv
<1>12. CASE FailCACertificates
  <2>1. \A c \in CA : c \in issuers' => Exists(cert[c])
    BY <1>12 DEF FailCACertificates, CertificatesInv, IssuedInv, IsCertificateReady, Valid,
       Exists
  <2> QED BY <1>12, <2>1, QuietStep DEF FailCACertificates, Return
<1>13. CASE FailCertificates
  BY <1>13, QuietStep DEF FailCertificates, Return, CertificatesInv, IssuedInv
<1>14. ASSUME NEW i \in Issuer, BecomeReady(i) PROVE CertificatesInv'
  BY <1>14 DEF BecomeReady, CertificatesInv, IssuedInv, PhaseInv, BundleInv,
     KubeconfigInv, RolloutInv, AnchorAt, WrittenAt, BundleDone, UserDone, GroupDone, Exists
<1>15. ASSUME NEW c \in Cert, Issue(c) PROVE CertificatesInv'
  <2>1. UNCHANGED <<now, issuers, bundle, kubeconfig, rollout, pc, todo, after, started,
                    synced>>
    BY <1>15 DEF Issue
  <2>2. \A d \in Cert : d # c => cert'[d] = cert[d]
    BY <1>15 DEF Issue, TypeOK
  <2>3. cert'[c].notBefore = now /\ Exists(cert'[c])
    BY <1>15 DEF Issue, TypeOK, Exists, Time, Never
  <2>4. \A d \in Cert : Exists(cert[d]) => Exists(cert'[d])
    BY <2>2, <2>3
  <2>5. Exists(cert[kubernetes]) => cert'[kubernetes].key = cert[kubernetes].key
    <3>1. CASE c = kubernetes
      BY <1>15, <3>1 DEF Issue, TypeOK, stablePrivateKey
    <3>2. CASE c # kubernetes
      BY <3>2, <2>2, <1>k, <1>n
    <3> QED BY <3>1, <3>2
  <2>6. now <= cert'[c].notBefore + Age(Duration(c))
    BY <2>3, Numbers, DurationType
  <2>7. CASE c = kubernetes
    <3>1. cert'[c].issuer = now /\ now # Never
      BY <1>15, <2>7 DEF Issue, TypeOK, Time, Never
    <3>2. IssuedInv'
      <4> SUFFICES ASSUME NEW d \in Cert, Exists(cert'[d])
                   PROVE  /\ Exists(cert'[kubernetes]) /\ cert'[d].key = cert'[kubernetes].key
                          /\ now <= cert'[d].notBefore + Age(Duration(d))
                          /\ cert'[d].issuer # Never
                          /\ d = kubernetes => cert'[d].issuer = cert'[d].notBefore
                          /\ d # kubernetes =>
                               cert'[d].notBefore <= cert'[d].issuer + Age(Duration(IssuerOf(d)))
        BY <2>1, <2>4, <1>n DEF IssuedInv, CertificatesInv, Exists, Duration, IssuerOf
      <4>1. CASE d = c
        BY <2>3, <2>6, <2>7, <3>1, <4>1
      <4>2. CASE d # c
        BY <2>2, <2>3, <2>5, <2>7, <4>2 DEF CertificatesInv, IssuedInv
      <4> QED BY <4>1, <4>2
    <3> QED
      BY <2>1, <2>4, <2>5, <3>2, <1>k, <1>n
      DEF CertificatesInv, PhaseInv, BundleInv, BundleDone, KubeconfigInv,
          UserDone, WrittenAt, AnchorAt, RolloutInv, GroupDone, Exists, Cert
  <2>8. CASE c # kubernetes
    <3>0. DEFINE i == IssuerOf(c)
    <3>1. i \in CA /\ i \in Cert /\ Exists(cert[i])
      BY <1>15, <2>8, IssuerType, <1>n DEF Issue, TypeOK, CertificatesInv, IssuedInv
    <3>2. cert'[c].issuer = cert[i].notBefore /\ cert'[c].key = cert[i].key
      BY <1>15, <2>8 DEF Issue, TypeOK
    <3>3. /\ Exists(cert[kubernetes]) /\ cert[i].key = cert[kubernetes].key
          /\ now <= cert[i].notBefore + Age(Duration(i))
      BY <3>1 DEF CertificatesInv, IssuedInv
    <3>4. IssuedInv'
      <4> SUFFICES ASSUME NEW d \in Cert, Exists(cert'[d])
                   PROVE  /\ Exists(cert'[kubernetes]) /\ cert'[d].key = cert'[kubernetes].key
                          /\ now <= cert'[d].notBefore + Age(Duration(d))
                          /\ cert'[d].issuer # Never
                          /\ d = kubernetes => cert'[d].issuer = cert'[d].notBefore
                          /\ d # kubernetes =>
                               cert'[d].notBefore <= cert'[d].issuer + Age(Duration(IssuerOf(d)))
        BY <2>1, <2>4, <1>n DEF IssuedInv, CertificatesInv, Exists, Duration, IssuerOf
      <4>1. CASE d = c
        BY <2>2, <2>3, <2>6, <2>8, <3>1, <3>2, <3>3, <4>1, <1>k, <1>n DEF Exists
      <4>2. CASE d # c
        BY <2>2, <2>8, <4>2, <1>k, <1>n DEF CertificatesInv, IssuedInv
      <4> QED BY <4>1, <4>2
    <3> QED
      BY <2>1, <2>4, <2>5, <3>4, <1>k, <1>n
      DEF CertificatesInv, PhaseInv, BundleInv, BundleDone, KubeconfigInv,
          UserDone, WrittenAt, AnchorAt, RolloutInv, GroupDone, Exists, Cert
  <2> QED BY <2>7, <2>8
<1>16. CASE Tick
  <2>1. /\ now' = now + 1 /\ now < synced + Sync
        /\ UNCHANGED <<issuers, cert, bundle, kubeconfig, rollout, pc, todo, after, started,
                       synced>>
    BY <1>16 DEF Tick
  <2>2. \A c \in Cert : Exists(cert[c]) => now + 1 <= cert[c].notBefore + Age(Duration(c))
    BY <1>16, Numbers, DurationType, ConstantsAssumption DEF Tick, Due, Age
  <2>3. PhaseInv'
    BY <2>1, Numbers, ConstantsAssumption DEF CertificatesInv, PhaseInv, Exists
  <2>4. IssuedInv'
    BY <2>1, <2>2 DEF CertificatesInv, IssuedInv, Exists, Duration, IssuerOf
  <2> QED
    BY <2>1, <2>3, <2>4
    DEF CertificatesInv, BundleInv, BundleDone, KubeconfigInv,
        UserDone, WrittenAt, AnchorAt, RolloutInv, GroupDone, Exists
<1>17. CASE UNCHANGED vars
  BY <1>17 DEF vars, CertificatesInv, IssuedInv, PhaseInv, BundleInv,
     KubeconfigInv, RolloutInv, AnchorAt, WrittenAt, BundleDone, UserDone, GroupDone, Exists
<1> QED
  BY <1>1, <1>2, <1>3, <1>4, <1>6, <1>7, <1>8, <1>9, <1>10, <1>11, <1>12, <1>13,
     <1>14, <1>15, <1>16, <1>17
  DEF Next, Controller, Failure, CertManager

\* CertificatesInv holds in every reachable state.
LEMMA CertificatesHold == Spec => [](TypeOK /\ CertificatesInv)
<1>1. Init => CertificatesInv
  BY ConstantsAssumption
  DEF Init, CertificatesInv, IssuedInv, PhaseInv, BundleInv, KubeconfigInv, RolloutInv,
      BundleDone, UserDone, GroupDone, Exists, NoCertificate, NoBundle, NoAnchor,
      NoKubeconfig, Never, Cert
<1> QED
  BY <1>1, CertificatesStep, TypeCorrect, PTL DEF Spec

-----------------------------------------------------------------------------
(* What is handed out can be used.                                         *)

\* A gap is a natural number that makes up for the age.
LEMMA LateBound ==
  \A a, d \in Nat : Late(a, d) \in Nat /\ a <= d + Late(a, d)
  BY DEF Late

\* The gap that the durations leave behind the bundle of CA c.
GapOf(c) == IF c = kubernetes THEN 0 ELSE RootGap

\* The gaps cover the ages of a chain.
LEMMA GapBounds ==
  /\ RootGap \in Nat /\ IntermediateGap \in Nat
  /\ Age(CADuration) + Age(LeafDuration) <= CADuration + IntermediateGap
  /\ \A c \in CA : AnchorAge(c) + Sync <= RootDuration + GapOf(c)
<1>1. /\ RenewAfter(RootDuration) \in Nat /\ RenewAfter(CADuration) \in Nat
      /\ RenewAfter(LeafDuration) \in Nat
  BY RenewType, ConstantsAssumption
<1> DEFINE needed == RenewAfter(RootDuration) + RenewAfter(CADuration) + 2 * Delay + Sync
           used == RenewAfter(CADuration) + RenewAfter(LeafDuration) + 2 * Delay
<1>2. needed \in Nat /\ used \in Nat
  BY <1>1, ConstantsAssumption
<1>3. RootGap \in Nat /\ needed <= RootDuration + RootGap
  BY <1>2, LateBound, ConstantsAssumption DEF RootGap
<1>4. IntermediateGap \in Nat /\ used <= CADuration + IntermediateGap
  BY <1>2, LateBound, ConstantsAssumption DEF IntermediateGap
<1>5. Age(CADuration) + Age(LeafDuration) = used
  BY <1>1, ConstantsAssumption DEF Age
<1>6. Age(RootDuration) + Age(CADuration) + Sync = needed
  BY <1>1, ConstantsAssumption DEF Age
<1>7. Age(RootDuration) + Sync <= RootDuration
  BY <1>1, RootAssumption, ConstantsAssumption DEF Age
<1> QED
  BY <1>3, <1>4, <1>5, <1>6, <1>7, AgeType, ConstantsAssumption DEF AnchorAge, GapOf

\* An anchor that was young enough when the last complete reconcile started
\* is valid now, but for the gap.
LEMMA AnchorValid ==
  ASSUME TypeOK, CertificatesInv, NEW c \in CA, NEW a \in Anchor,
         AnchorAt(a, synced, AnchorAge(c))
  PROVE  a.key = cert[kubernetes].key /\ Valid(a.notBefore, RootDuration + GapOf(c))
<1>1. AnchorAge(c) + Sync <= RootDuration + GapOf(c) /\ GapOf(c) \in Nat
  BY GapBounds DEF GapOf
<1>2. synced <= a.notBefore + AnchorAge(c) /\ now <= synced + Sync
  BY DEF AnchorAt, CertificatesInv, PhaseInv
<1>3. a.notBefore \in Nat
  BY DEF Anchor, Time
<1>4. now <= a.notBefore + (RootDuration + GapOf(c))
  BY <1>1, <1>2, <1>3, Numbers, AgeType, ConstantsAssumption
<1> QED
  BY <1>4 DEF AnchorAt, Valid, Exists

\* A bundle anchors what leads to the key of the kubernetes CA.
LEMMA BundleAnchors ==
  ASSUME TypeOK, CertificatesInv, NEW c \in CA, Exists(bundle[c].current)
  PROVE  Anchored(cert[kubernetes].key, bundle[c], GapOf(c))
<1>1. bundle[c].current \in Anchor
  BY DEF TypeOK, Bundle
<1>2. AnchorAt(bundle[c].current, synced, AnchorAge(c))
  BY DEF CertificatesInv, BundleInv
<1> QED
  BY <1>1, <1>2, AnchorValid DEF Anchored

\* The certificate in the Secret of a leaf is valid, and so is, but for the
\* gap, the intermediate it carries.
LEMMA LeafValid ==
  ASSUME TypeOK, CertificatesInv, NEW l \in Leaf, Exists(cert[l])
  PROVE  /\ Valid(cert[l].notBefore, LeafDuration)
         /\ LeafIssuer[l] # kubernetes => Valid(cert[l].issuer, CADuration + IntermediateGap)
         /\ cert[l].key = cert[kubernetes].key
<1>1. l \in Cert /\ l # kubernetes /\ l \notin Intermediate
  BY ConstantsAssumption DEF Cert, CA
<1>2. /\ now <= cert[l].notBefore + Age(LeafDuration)
      /\ cert[l].key = cert[kubernetes].key /\ cert[l].issuer # Never
      /\ cert[l].notBefore <= cert[l].issuer + Age(Duration(LeafIssuer[l]))
  BY <1>1 DEF CertificatesInv, IssuedInv, Duration, IssuerOf
<1>3. Age(LeafDuration) <= LeafDuration
  BY LeafAssumption, ConstantsAssumption, RenewType DEF Age
<1>4. Valid(cert[l].notBefore, LeafDuration)
  BY <1>1, <1>2, <1>3, Numbers, AgeType, ConstantsAssumption DEF Valid, Exists
<1>5. ASSUME LeafIssuer[l] # kubernetes
      PROVE  Valid(cert[l].issuer, CADuration + IntermediateGap)
  <2>1. Duration(LeafIssuer[l]) = CADuration
    BY <1>5, ConstantsAssumption DEF CA, Duration
  <2>2. now <= cert[l].issuer + (CADuration + IntermediateGap)
    BY <1>1, <1>2, <2>1, GapBounds, Numbers, AgeType, ConstantsAssumption
  <2> QED
    BY <1>2, <2>2 DEF Valid
<1> QED
  BY <1>2, <1>4, <1>5

\* Whoever holds the bundle of a CA can verify all its certificates at any
\* time: without exception for those of the kubernetes CA, and for those of an
\* intermediate CA whenever the durations leave no gap; otherwise the gap
\* bounds for how long verification fails.
THEOREM LeavesAlwaysTrusted == Spec => []LeavesTrusted
<1>1. TypeOK /\ CertificatesInv => LeavesTrusted
  <2> SUFFICES ASSUME TypeOK, CertificatesInv, NEW l \in Leaf, Exists(cert[l]),
                      Exists(bundle[LeafIssuer[l]].current)
               PROVE  Trusted(cert[l], LeafIssuer[l], bundle[LeafIssuer[l]])
    BY DEF LeavesTrusted
  <2>1. LeafIssuer[l] \in CA
    BY ConstantsAssumption
  <2>2. Anchored(cert[l].key, bundle[LeafIssuer[l]], GapOf(LeafIssuer[l]))
    BY <2>1, LeafValid, BundleAnchors
  <2> QED
    BY <2>2, LeafValid DEF Trusted, GapOf
<1> QED
  BY <1>1, CertificatesHold, PTL

\* A kubeconfig works at any time after it was written, on both sides of
\* the connection, however long the intermediate CAs live.
THEOREM KubeconfigsAlwaysWork == Spec => []KubeconfigsWork
<1>1. TypeOK /\ CertificatesInv => KubeconfigsWork
  <2> SUFFICES ASSUME TypeOK, CertificatesInv, NEW u \in User,
                      Exists(kubeconfig[u].client)
               PROVE  /\ Trusted(kubeconfig[u].client, kubernetes, bundle[kubernetes])
                      /\ \A l \in Leaf : Exists(cert[l]) /\ LeafIssuer[l] = kubernetes =>
                            Trusted(cert[l], kubernetes, kubeconfig[u].ca)
    BY DEF KubeconfigsWork
  <2>1. Exists(bundle[kubernetes].current) /\ WrittenAt(kubeconfig[u], synced)
    BY DEF CertificatesInv, KubeconfigInv
  <2>2. /\ kubernetes \in CA /\ AnchorAge(kubernetes) = Age(RootDuration)
        /\ GapOf(kubernetes) = 0
    BY DEF CA, AnchorAge, GapOf
  <2>3. Anchored(cert[kubernetes].key, bundle[kubernetes], 0)
    BY <2>1, <2>2, BundleAnchors
  <2>4. Valid(kubeconfig[u].client.notBefore, LeafDuration)
    <3>1. synced <= kubeconfig[u].client.notBefore + Age(LeafDuration)
          /\ now <= synced + Sync
      BY <2>1 DEF WrittenAt, CertificatesInv, PhaseInv
    <3>2. Age(LeafDuration) + Sync <= LeafDuration
      BY LeafAssumption, ConstantsAssumption, RenewType DEF Age
    <3> QED
      BY <3>1, <3>2, Numbers, AgeType, ConstantsAssumption DEF Valid, Exists
  <2>5. Anchored(cert[kubernetes].key, kubeconfig[u].ca, 0)
    <3>1. kubeconfig[u].ca.current \in Anchor
      BY DEF TypeOK, Kubeconfig, Bundle
    <3>2. AnchorAt(kubeconfig[u].ca.current, synced, AnchorAge(kubernetes))
      BY <2>1, <2>2 DEF WrittenAt
    <3> QED BY <2>2, <3>1, <3>2, AnchorValid DEF Anchored
  <2>6. kubeconfig[u].client.key = cert[kubernetes].key
    BY <2>1 DEF WrittenAt
  <2> QED
    BY <2>3, <2>4, <2>5, <2>6, LeafValid DEF Trusted
<1> QED
  BY <1>1, CertificatesHold, PTL

\* No node group stays on an expired CA certificate, if only half of the
\* kubernetes CA's life outlasts its renewal and the time to the next complete
\* rotation (RootAssumption).
THEOREM NodesAlwaysRotated == Spec => []NodesRotatedInTime
<1>1. TypeOK /\ CertificatesInv => NodesRotatedInTime
  <2> SUFFICES ASSUME TypeOK, CertificatesInv, NEW g \in Group, rollout[g] # Never
               PROVE  Valid(rollout[g], RootDuration)
    BY DEF NodesRotatedInTime
  <2>1. synced <= rollout[g] + Age(RootDuration) /\ now <= synced + Sync
    BY DEF CertificatesInv, RolloutInv, PhaseInv
  <2>2. Age(RootDuration) + Sync <= RootDuration
    BY RootAssumption, ConstantsAssumption, RenewType DEF Age
  <2> QED
    BY <2>1, <2>2, Numbers, AgeType, ConstantsAssumption DEF Valid
<1> QED
  BY <1>1, CertificatesHold, PTL

=============================================================================
