-------------------------- MODULE StatefulSetLabels --------------------------
(***************************************************************************)
(* How the labels and the selector of the etcd StatefulSet follow the      *)
(* labels the operator wants (reconcileStatefulset in                      *)
(* pkg/reconcilers/reconciler.go).                                         *)
(*                                                                         *)
(* A selector is immutable, so the code migrates in steps: it gives the    *)
(* pods the old and the new labels together, then applies the new          *)
(* selector, deletes the set that refuses it, leaving its pods running,    *)
(* and creates it anew in a later reconcile.  A new set adopts the pods    *)
(* its selector matches; a pod it does not match blocks the name of a new  *)
(* one.  The labels change when another version of the operator starts.    *)
(*                                                                         *)
(* A label is a pair <<key, value>>.  Simplifications: the template is its *)
(* labels; a volume that grows makes the API server refuse the set as      *)
(* well, its size is left out (see EtcdVolume); the orphaning delete takes *)
(* effect at once; network policies and disruption budgets are left out    *)
(* (see Workload).                                                         *)
(***************************************************************************)
EXTENDS Integers, FiniteSets

CONSTANTS
    Member,       \* the pods of the set, by ordinal
    Labelings,    \* the label sets the versions of the operator want
    MaxUpgrades,  \* bound: starts of another version
    MaxGrowths,   \* bound: changes of the volume's size
    MaxFaults     \* bound: failing calls and lost pods

ASSUME ConstantsAssumption ==
    /\ IsFiniteSet(Member)
    /\ \A l \in Labelings : IsFiniteSet(l)
    /\ MaxUpgrades \in Nat /\ MaxGrowths \in Nat /\ MaxFaults \in Nat

VARIABLES
    wanted,    \* GetControlPlaneLabels of the running version
    sts,       \* the StatefulSet
    pod,       \* its pods
    resize,    \* the wanted claim template differs from the set's
    pc,        \* where the reconcile is
    plan,      \* the selector and the labels it is about to apply
    reported,  \* what the last reconcile of the set returned
    upgrades, growths, faults

bounds == <<upgrades, growths, faults>>
vars   == <<wanted, sts, pod, resize, pc, plan, reported, bounds>>

Label    == UNION Labelings
NoLabels == {}

Set == [exists : BOOLEAN, selector : SUBSET Label, template : SUBSET Label,
        available : BOOLEAN]
Pod == [up : BOOLEAN, labels : SUBSET Label, owned : BOOLEAN, ready : BOOLEAN]

\* A selector and a template to apply, or the refusal to do so.
Plan == [selector : SUBSET Label, labels : SUBSET Label, refused : BOOLEAN]

NoSet  == [exists |-> FALSE, selector |-> NoLabels, template |-> NoLabels,
           available |-> FALSE]
NoPod  == [up |-> FALSE, labels |-> NoLabels, owned |-> FALSE, ready |-> FALSE]
NoPlan == [selector |-> NoLabels, labels |-> NoLabels, refused |-> FALSE]

TypeOK ==
    /\ wanted \in Labelings
    /\ sts \in Set /\ pod \in [Member -> Pod]
    /\ resize \in BOOLEAN
    /\ pc \in {"idle", "apply"} /\ plan \in Plan
    /\ reported \in {"nothing", "ready", "not ready", "error"}
    /\ upgrades \in 0 .. MaxUpgrades /\ growths \in 0 .. MaxGrowths
    /\ faults \in 0 .. MaxFaults

\* A version of the operator has deployed etcd.
Init ==
    /\ wanted \in Labelings
    /\ sts = [exists |-> TRUE, selector |-> wanted, template |-> wanted,
              available |-> TRUE]
    /\ pod = [m \in Member |-> [up |-> TRUE, labels |-> wanted, owned |-> TRUE,
                                ready |-> TRUE]]
    /\ resize = FALSE
    /\ pc = "idle" /\ plan = NoPlan /\ reported = "nothing"
    /\ upgrades = 0 /\ growths = 0 /\ faults = 0

-----------------------------------------------------------------------------
(* The decision.                                                           *)

\* Assign(labels, existing): on the same key the existing value wins.
Assign(labels, existing) ==
    existing \cup {l \in labels : \A e \in existing : e[1] # l[1]}

\* Mutant: the labels stay as they are while the selector does.
ChooseLabelsKept(set) ==
    LET both == Assign(wanted, set.template)
    IN CASE ~set.exists \/ wanted \subseteq set.template ->
              [selector |-> wanted, labels |-> wanted, refused |-> FALSE]
         [] set.exists /\ ~(wanted \subseteq set.template) /\ set.selector \subseteq both ->
              [selector |-> set.selector, labels |-> set.template, refused |-> FALSE]
         [] OTHER -> NoPlan

\* What to apply over the set that was read: the wanted selector once the
\* template has the wanted labels, before that the old selector and both
\* labels together, and nothing if labels would change their values.
ChooseLabels(set) ==
    LET both == Assign(wanted, set.template)
        new  == [selector |-> wanted, labels |-> wanted, refused |-> FALSE]
    IN IF ~set.exists \/ wanted \subseteq set.template THEN new
       ELSE IF set.selector \subseteq both
            THEN [selector |-> set.selector, labels |-> both, refused |-> FALSE]
            ELSE [new EXCEPT !.refused = Cardinality(wanted) = Cardinality(set.template)]

\* The labels of the pods: those of the selector, overwritten by the chosen
\* ones.
TemplateLabels(p) == Assign(p.selector, p.labels)

-----------------------------------------------------------------------------
(* The reconcile.                                                          *)

Fault == faults < MaxFaults /\ faults' = faults + 1

Return(result) == pc' = "idle" /\ plan' = NoPlan /\ reported' = result

\* The existing set is read and the labels are chosen; a changed selector
\* waits until the set is ready.
GetStatefulSet ==
    /\ pc = "idle"
    /\ LET p == ChooseLabels(sts)
       IN IF p.refused THEN Return("error")
          ELSE IF sts.exists /\ sts.selector # p.selector /\ ~sts.available
               THEN Return("not ready")
               ELSE pc' = "apply" /\ plan' = p /\ UNCHANGED reported
    /\ UNCHANGED <<wanted, sts, pod, resize, bounds>>

\* Mutant: only the pods the set owns outlive it.
OrphanedOwned ==
    [m \in {n \in Member : pod[n].owned} |-> [pod[m] EXCEPT !.owned = FALSE]]

\* The pods after the set was deleted with the orphaning policy.
Orphaned == [m \in Member |-> [pod[m] EXCEPT !.owned = FALSE]]

\* Mutant: the pods are deleted with the set.
ApplyStatefulSetBackground ==
    /\ pc = "apply"
    /\ IF ~sts.exists
       THEN /\ sts' = [exists |-> TRUE, selector |-> plan.selector,
                       template |-> TemplateLabels(plan), available |-> FALSE]
            /\ resize' = FALSE
            /\ Return("not ready") /\ UNCHANGED pod
       ELSE IF sts.selector # plan.selector \/ resize
            THEN /\ sts' = NoSet /\ pod' = [m \in Member |-> NoPod]
                 /\ Return("not ready") /\ UNCHANGED resize
            ELSE /\ sts' = [sts EXCEPT !.template = TemplateLabels(plan)]
                 /\ Return(IF sts.available THEN "ready" ELSE "not ready")
                 /\ UNCHANGED <<pod, resize>>
    /\ UNCHANGED <<wanted, bounds>>

\* Mutant: a set that refuses the changes is left alone.
ApplyStatefulSetGivesUp ==
    /\ pc = "apply"
    /\ IF ~sts.exists
       THEN /\ sts' = [exists |-> TRUE, selector |-> plan.selector,
                       template |-> TemplateLabels(plan), available |-> FALSE]
            /\ resize' = FALSE
            /\ Return("not ready")
       ELSE IF sts.selector # plan.selector \/ resize
            THEN Return("not ready") /\ UNCHANGED <<sts, resize>>
            ELSE /\ sts' = [sts EXCEPT !.template = TemplateLabels(plan)]
                 /\ Return(IF sts.available THEN "ready" ELSE "not ready")
                 /\ UNCHANGED resize
    /\ UNCHANGED <<wanted, pod, bounds>>

\* The set is created or changed.  The API server refuses another selector
\* or claim template; the set is then deleted, its pods are not.
ApplyStatefulSet ==
    /\ pc = "apply"
    /\ IF ~sts.exists
       THEN /\ sts' = [exists |-> TRUE, selector |-> plan.selector,
                       template |-> TemplateLabels(plan), available |-> FALSE]
            /\ resize' = FALSE
            /\ Return("not ready") /\ UNCHANGED pod
       ELSE IF sts.selector # plan.selector \/ resize
            THEN /\ sts' = NoSet /\ pod' = Orphaned
                 /\ Return("not ready") /\ UNCHANGED resize
            ELSE /\ sts' = [sts EXCEPT !.template = TemplateLabels(plan)]
                 /\ Return(IF sts.available THEN "ready" ELSE "not ready")
                 /\ UNCHANGED <<pod, resize>>
    /\ UNCHANGED <<wanted, bounds>>

\* A call fails, the deletion of a refused set included, or the operator
\* restarts.
StepFails ==
    /\ pc = "apply"
    /\ Fault
    /\ Return("error")
    /\ UNCHANGED <<wanted, sts, pod, resize, upgrades, growths>>

\* Another version of the operator starts.
UpgradeOperator ==
    /\ upgrades < MaxUpgrades
    /\ upgrades' = upgrades + 1
    /\ wanted' \in Labelings \ {wanted}
    /\ Return("nothing")
    /\ UNCHANGED <<sts, pod, resize, growths, faults>>

\* The decided size of the volumes changes.
GrowVolume ==
    /\ growths < MaxGrowths
    /\ growths' = growths + 1
    /\ resize' = TRUE
    /\ UNCHANGED <<wanted, sts, pod, pc, plan, reported, upgrades, faults>>

-----------------------------------------------------------------------------
(* The StatefulSet controller of the management cluster.                   *)

Matches(m) == sts.selector \subseteq pod[m].labels

\* The set takes over a pod of its name that its selector matches.
AdoptPod(m) ==
    /\ sts.exists /\ pod[m].up /\ ~pod[m].owned /\ Matches(m)
    /\ pod' = [pod EXCEPT ![m].owned = TRUE]
    /\ UNCHANGED <<wanted, sts, resize, pc, plan, reported, bounds>>

\* Pods are created in parallel; a name that is taken cannot be.
CreatePod(m) ==
    /\ sts.exists /\ ~pod[m].up
    /\ pod' = [pod EXCEPT ![m] = [up |-> TRUE, labels |-> sts.template,
                                  owned |-> TRUE, ready |-> FALSE]]
    /\ UNCHANGED <<wanted, sts, resize, pc, plan, reported, bounds>>

\* The rolling update, with one pod unavailable at a time.
RollPod(m) ==
    /\ sts.exists /\ pod[m].up /\ pod[m].owned /\ pod[m].labels # sts.template
    /\ \A n \in Member \ {m} : pod[n].up /\ pod[n].owned /\ pod[n].ready
    /\ pod' = [pod EXCEPT ![m] = NoPod]
    /\ UNCHANGED <<wanted, sts, resize, pc, plan, reported, bounds>>

BecomeReady(m) ==
    /\ pod[m].up /\ ~pod[m].ready
    /\ pod' = [pod EXCEPT ![m].ready = TRUE]
    /\ UNCHANGED <<wanted, sts, resize, pc, plan, reported, bounds>>

LosePod(m) ==
    /\ pod[m].up
    /\ Fault
    /\ pod' = [pod EXCEPT ![m] = NoPod]
    /\ UNCHANGED <<wanted, sts, resize, pc, plan, reported, upgrades, growths>>

\* The status counts the set's own pods, and lags behind them.
UpdateStatus ==
    /\ sts.exists
    /\ sts' = [sts EXCEPT !.available = \E m \in Member : pod[m].owned /\ pod[m].ready]
    /\ sts' # sts
    /\ UNCHANGED <<wanted, pod, resize, pc, plan, reported, bounds>>

-----------------------------------------------------------------------------
Reconcile == GetStatefulSet \/ ApplyStatefulSet

PodStep(m) == AdoptPod(m) \/ CreatePod(m) \/ RollPod(m) \/ BecomeReady(m)

Next ==
    \/ Reconcile \/ StepFails \/ UpgradeOperator \/ GrowVolume
    \/ UpdateStatus
    \/ \E m \in Member : PodStep(m) \/ LosePod(m)

Spec == Init /\ [][Next]_vars

\* Every reconcile requeues, and the cluster's controllers make progress.
FairSpec ==
    /\ Spec
    /\ WF_vars(Reconcile) /\ WF_vars(UpdateStatus)
    /\ \A m \in Member : WF_vars(PodStep(m))

-----------------------------------------------------------------------------
(* Properties.                                                             *)

\* Deleting and re-creating the set costs no running member: apart from lost
\* pods only the one being rolled is down.
MembersKept == Cardinality({m \in Member : ~pod[m].up}) <= 1 + faults

\* A set that is reported ready has the wanted labels, whatever migration it
\* is in and whichever version began it: Services and pod lists use the wanted
\* labels from the start.
ReadyMeansWanted == reported = "ready" => wanted \subseteq sts.template

\* One change of the labels, with a growth of the volumes, failing calls and
\* lost pods on the way, ends with the wanted selector and template.  (After
\* two it need not: a set whose pods still have the first labels adopts none of
\* them, is never available, and a changed selector waits for that.)
SelectorConverges ==
    <>[](sts.exists /\ sts.selector = wanted /\ sts.template = wanted)

-----------------------------------------------------------------------------
(* Inductive strengthenings, used by the proofs: what a reconcile is about *)
(* to apply selects its own pods, and has the wanted labels.               *)

\* A set selects the pods it creates.  This is in question where a version
\* changes the value of a label: the chosen labels overwrite the selector's.
SelectorInTemplate == sts.exists => sts.selector \subseteq sts.template

SelectorInv ==
    /\ SelectorInTemplate
    /\ plan.selector \subseteq plan.labels

\* The versions of the operator agree on the value of every key: they add and
\* drop labels but never change one.
ValuesAgree == \A l, k \in Label : l[1] = k[1] => l = k

WantedInv ==
    /\ ReadyMeansWanted
    /\ pc = "apply" => wanted \subseteq plan.labels

=============================================================================
