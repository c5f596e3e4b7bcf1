----------------------- MODULE StatefulSetLabelsProofs -----------------------
(***************************************************************************)
(* Theorems about StatefulSetLabels for any number of pods, any labels and *)
(* any number of upgrades, growths and faults.                             *)
(***************************************************************************)
EXTENDS StatefulSetLabels, FiniteSetTheorems, TLAPS

\* The bounds are numbers.
LEMMA BoundsNat == MaxUpgrades \in Nat /\ MaxGrowths \in Nat /\ MaxFaults \in Nat
  BY ConstantsAssumption, Zenon

\* A counter below its bound can be raised.
LEMMA CounterStep ==
  ASSUME NEW b \in Nat, NEW n \in 0 .. b, n < b
  PROVE  n + 1 \in 0 .. b
  OBVIOUS

\* The counters are typed, and the number of faults stays so.
LEMMA CounterTypes ==
  ASSUME TypeOK
  PROVE  /\ upgrades \in 0 .. MaxUpgrades /\ growths \in 0 .. MaxGrowths
         /\ faults \in 0 .. MaxFaults
         /\ Fault => faults' \in 0 .. MaxFaults
<1>1. /\ upgrades \in 0 .. MaxUpgrades /\ growths \in 0 .. MaxGrowths
      /\ faults \in 0 .. MaxFaults
  BY DEF TypeOK
<1>2. Fault => faults' \in 0 .. MaxFaults
  BY <1>1, BoundsNat, CounterStep DEF Fault
<1> QED BY <1>1, <1>2

-----------------------------------------------------------------------------
(* The chosen labels.                                                      *)

\* Assign keeps all existing labels and adds only labels of its arguments.
LEMMA AssignFacts ==
  ASSUME NEW l, NEW e
  PROVE  e \subseteq Assign(l, e) /\ Assign(l, e) \subseteq e \cup l
  BY DEF Assign

\* The template has all chosen labels, and the selector's where they agree.
LEMMA TemplateFacts ==
  ASSUME NEW p \in Plan
  PROVE  /\ TemplateLabels(p) \in SUBSET Label /\ p.labels \subseteq TemplateLabels(p)
         /\ p.selector \subseteq p.labels => p.selector \subseteq TemplateLabels(p)
<1>1. p.selector \in SUBSET Label /\ p.labels \in SUBSET Label
  BY DEF Plan
<1> QED BY <1>1, AssignFacts DEF TemplateLabels

\* What is chosen is a plan; over a set that selects its pods it is never a
\* refusal, and selects its pods as well.
LEMMA ChooseFacts ==
  ASSUME NEW s \in Set, wanted \in Labelings
  PROVE  /\ ChooseLabels(s) \in Plan
         /\ (s.exists => s.selector \subseteq s.template) =>
               /\ ~ChooseLabels(s).refused
               /\ ChooseLabels(s).selector \subseteq ChooseLabels(s).labels
<1> DEFINE both == Assign(wanted, s.template)
           new  == [selector |-> wanted, labels |-> wanted, refused |-> FALSE]
           old  == [selector |-> s.selector, labels |-> both, refused |-> FALSE]
           bad  == [new EXCEPT !.refused = Cardinality(wanted) = Cardinality(s.template)]
<1>1. wanted \in SUBSET Label /\ s.selector \in SUBSET Label /\ s.template \in SUBSET Label
  BY DEF Label, Set
<1>2. s.template \subseteq both /\ both \in SUBSET Label
  BY <1>1, AssignFacts
<1>3. /\ new \in Plan /\ old \in Plan
      /\ new.selector = wanted /\ new.labels = wanted /\ ~new.refused
      /\ old.selector = s.selector /\ old.labels = both /\ ~old.refused
  BY <1>1, <1>2 DEF Plan
<1>4. bad \in Plan
  <2>1. (Cardinality(wanted) = Cardinality(s.template)) \in BOOLEAN
    OBVIOUS
  <2> QED BY <1>3, <2>1 DEF Plan
<1>5. ChooseLabels(s) = IF ~s.exists \/ wanted \subseteq s.template THEN new
                        ELSE IF s.selector \subseteq both THEN old ELSE bad
  BY DEF ChooseLabels
<1> HIDE DEF new, old, bad, both
<1>6. CASE ~s.exists \/ wanted \subseteq s.template
  BY <1>3, <1>5, <1>6
<1>7. CASE /\ ~(~s.exists \/ wanted \subseteq s.template)
           /\ s.selector \subseteq both
  BY <1>3, <1>5, <1>7
<1>8. CASE /\ ~(~s.exists \/ wanted \subseteq s.template)
           /\ ~(s.selector \subseteq both)
  <2>1. ~(s.selector \subseteq s.template) /\ s.exists
    BY <1>2, <1>8
  <2> QED BY <1>4, <1>5, <1>8, <2>1
<1> QED BY <1>6, <1>7, <1>8

-----------------------------------------------------------------------------
(* Type correctness.                                                       *)

\* What stands for no set, no pod and no plan has its type.
LEMMA NoneTypes == NoSet \in Set /\ NoPod \in Pod /\ NoPlan \in Plan
  BY DEF NoSet, NoPod, NoPlan, NoLabels, Set, Pod, Plan

\* A reconcile that returns leaves typed variables behind.
LEMMA ReturnType ==
  ASSUME NEW r \in {"nothing", "ready", "not ready", "error"}, Return(r)
  PROVE  /\ pc' = "idle" /\ plan' = NoPlan /\ plan' \in Plan
         /\ reported' \in {"nothing", "ready", "not ready", "error"}
  BY NoneTypes DEF Return

\* Every step keeps the variables in their types.
LEMMA TypeStep == TypeOK /\ [Next]_vars => TypeOK'
<1> SUFFICES ASSUME TypeOK, [Next]_vars PROVE TypeOK'
  OBVIOUS
<1> USE NoneTypes
<1>1. CASE GetStatefulSet
  <2>1. ChooseLabels(sts) \in Plan
    BY ChooseFacts DEF TypeOK
  <2>2. /\ pc' \in {"idle", "apply"} /\ plan' \in Plan
        /\ reported' \in {"nothing", "ready", "not ready", "error"}
    BY <1>1, <2>1, ReturnType DEF GetStatefulSet, TypeOK
  <2> QED BY <1>1, <2>2 DEF GetStatefulSet, TypeOK, bounds
<1>2. CASE ApplyStatefulSet
  <2>1. /\ [exists |-> TRUE, selector |-> plan.selector, template |-> TemplateLabels(plan),
            available |-> FALSE] \in Set
        /\ [sts EXCEPT !.template = TemplateLabels(plan)] \in Set
    BY TemplateFacts DEF TypeOK, Plan, Set
  <2>2. Orphaned \in [Member -> Pod]
    BY DEF Orphaned, TypeOK, Pod
  <2>3. /\ pc' \in {"idle", "apply"} /\ plan' \in Plan
        /\ reported' \in {"nothing", "ready", "not ready", "error"}
    BY <1>2, ReturnType DEF ApplyStatefulSet
  <2>4. sts' \in Set /\ pod' \in [Member -> Pod] /\ resize' \in BOOLEAN
    BY <1>2, <2>1, <2>2 DEF ApplyStatefulSet, TypeOK
  <2> QED BY <1>2, <2>3, <2>4 DEF ApplyStatefulSet, TypeOK, bounds
<1>3. CASE StepFails
  <2>1. /\ pc' = "idle" /\ plan' \in Plan
        /\ reported' \in {"nothing", "ready", "not ready", "error"}
    BY <1>3, ReturnType DEF StepFails
  <2>2. faults' \in 0 .. MaxFaults
    BY <1>3, CounterTypes DEF StepFails
  <2> QED BY <1>3, <2>1, <2>2 DEF StepFails, TypeOK
<1>4. CASE UpgradeOperator
  <2>1. /\ pc' = "idle" /\ plan' \in Plan
        /\ reported' \in {"nothing", "ready", "not ready", "error"}
    BY <1>4, ReturnType DEF UpgradeOperator
  <2>2. upgrades' \in 0 .. MaxUpgrades
    BY <1>4, BoundsNat, CounterTypes, CounterStep DEF UpgradeOperator
  <2> QED BY <1>4, <2>1, <2>2 DEF UpgradeOperator, TypeOK
<1>5. CASE GrowVolume
  <2>1. growths' \in 0 .. MaxGrowths
    BY <1>5, BoundsNat, CounterTypes, CounterStep DEF GrowVolume
  <2> QED BY <1>5, <2>1 DEF GrowVolume, TypeOK
<1>6. CASE UpdateStatus
  <2>1. (\E m \in Member : pod[m].owned /\ pod[m].ready) \in BOOLEAN
    OBVIOUS
  <2>2. sts' \in Set
    BY <1>6, <2>1 DEF UpdateStatus, TypeOK, Set
  <2> QED BY <1>6, <2>2 DEF UpdateStatus, TypeOK, bounds
<1>7. ASSUME NEW m \in Member, AdoptPod(m) PROVE TypeOK'
  <2>1. pod' \in [Member -> Pod]
    BY <1>7 DEF AdoptPod, TypeOK, Pod
  <2> QED BY <1>7, <2>1 DEF AdoptPod, TypeOK, bounds
<1>8. ASSUME NEW m \in Member, CreatePod(m) PROVE TypeOK'
  <2>1. [up |-> TRUE, labels |-> sts.template, owned |-> TRUE, ready |-> FALSE] \in Pod
    BY DEF TypeOK, Set, Pod
  <2>2. pod' \in [Member -> Pod]
    BY <1>8, <2>1 DEF CreatePod, TypeOK
  <2> QED BY <1>8, <2>2 DEF CreatePod, TypeOK, bounds
<1>9. ASSUME NEW m \in Member, RollPod(m) PROVE TypeOK'
  BY <1>9 DEF RollPod, TypeOK, bounds
<1>10. ASSUME NEW m \in Member, BecomeReady(m) PROVE TypeOK'
  <2>1. pod' \in [Member -> Pod]
    BY <1>10 DEF BecomeReady, TypeOK, Pod
  <2> QED BY <1>10, <2>1 DEF BecomeReady, TypeOK, bounds
<1>11. ASSUME NEW m \in Member, LosePod(m) PROVE TypeOK'
  <2>1. faults' \in 0 .. MaxFaults
    BY <1>11, CounterTypes DEF LosePod
  <2> QED BY <1>11, <2>1 DEF LosePod, TypeOK
<1>12. CASE UNCHANGED vars
  BY <1>12 DEF vars, bounds, TypeOK
<1> QED
  BY <1>1, <1>2, <1>3, <1>4, <1>5, <1>6, <1>7, <1>8, <1>9, <1>10, <1>11, <1>12
  DEF Next, Reconcile, PodStep

\* The initial states have their types.
LEMMA TypeInit == Init => TypeOK
<1> SUFFICES ASSUME Init PROVE TypeOK
  OBVIOUS
<1>1. wanted \in SUBSET Label
  BY DEF Init, Label
<1>2. sts \in Set /\ pod \in [Member -> Pod]
  BY <1>1 DEF Init, Set, Pod
<1>3. 0 \in 0 .. MaxUpgrades /\ 0 \in 0 .. MaxGrowths /\ 0 \in 0 .. MaxFaults
  BY BoundsNat
<1> QED BY <1>2, <1>3, NoneTypes DEF Init, TypeOK

\* The variables keep their types.
THEOREM TypeCorrect == Spec => []TypeOK
  BY TypeInit, TypeStep, PTL DEF Spec

-----------------------------------------------------------------------------
(* The selector.                                                           *)

\* A step keeps the selectors, of the set and of the plan, within the labels
\* they go with.
LEMMA SelectorStep == TypeOK /\ SelectorInv /\ [Next]_vars => SelectorInv'
<1> SUFFICES ASSUME TypeOK, SelectorInv, [Next]_vars PROVE SelectorInv'
  OBVIOUS
<1>0. NoPlan.selector \subseteq NoPlan.labels /\ ~NoSet.exists
  BY DEF NoPlan, NoSet
<1>1. CASE GetStatefulSet
  <2>1. ChooseLabels(sts).selector \subseteq ChooseLabels(sts).labels
    BY ChooseFacts DEF TypeOK, SelectorInv, SelectorInTemplate
  <2>2. plan' = NoPlan \/ plan' = ChooseLabels(sts)
    BY <1>1 DEF GetStatefulSet, Return
  <2> QED BY <1>0, <1>1, <2>1, <2>2 DEF GetStatefulSet, SelectorInv, SelectorInTemplate
<1>2. CASE ApplyStatefulSet
  <2>0. plan.selector \subseteq TemplateLabels(plan)
    BY TemplateFacts DEF TypeOK, SelectorInv
  <2>1. plan' = NoPlan
    BY <1>2 DEF ApplyStatefulSet, Return
  <2>2. CASE ~sts.exists
    <3>1. sts' = [exists |-> TRUE, selector |-> plan.selector,
                  template |-> TemplateLabels(plan), available |-> FALSE]
      BY <1>2, <2>2 DEF ApplyStatefulSet
    <3> QED BY <1>0, <2>0, <2>1, <3>1 DEF SelectorInv, SelectorInTemplate
  <2>3. CASE sts' = NoSet
    BY <1>0, <2>1, <2>3 DEF SelectorInv, SelectorInTemplate
  <2>4. CASE sts.exists /\ sts.selector = plan.selector /\ ~resize
    <3>1. sts' = [sts EXCEPT !.template = TemplateLabels(plan)]
      BY <1>2, <2>4 DEF ApplyStatefulSet
    <3> QED BY <1>0, <2>0, <2>1, <2>4, <3>1 DEF SelectorInv, SelectorInTemplate, TypeOK, Set
  <2> QED BY <1>2, <2>2, <2>3, <2>4 DEF ApplyStatefulSet, TypeOK
<1>3. CASE StepFails \/ UpgradeOperator
  BY <1>0, <1>3 DEF StepFails, UpgradeOperator, Return, SelectorInv, SelectorInTemplate
<1>4. CASE UpdateStatus
  BY <1>4 DEF UpdateStatus, SelectorInv, SelectorInTemplate, TypeOK, Set
<1>5. CASE UNCHANGED <<sts, plan>>
  BY <1>5 DEF SelectorInv, SelectorInTemplate
<1>6. GrowVolume \/ UNCHANGED vars => UNCHANGED <<sts, plan>>
  BY DEF GrowVolume, vars
<1>7. \A m \in Member : PodStep(m) \/ LosePod(m) => UNCHANGED <<sts, plan>>
  BY DEF PodStep, AdoptPod, CreatePod, RollPod, BecomeReady, LosePod
<1> QED BY <1>1, <1>2, <1>3, <1>4, <1>5, <1>6, <1>7 DEF Next, Reconcile

\* The first set selects its pods.
LEMMA SelectorInit == Init => SelectorInv
  BY DEF Init, SelectorInv, SelectorInTemplate, NoPlan, NoLabels

\* However the labels change, their values included, and wherever a migration
\* stops, a set selects the pods it creates: the labels that are merged over
\* the selector's in the template never take the value of one of them away.
THEOREM SelectorAlwaysInTemplate == Spec => []SelectorInTemplate
<1>1. SelectorInv => SelectorInTemplate
  BY DEF SelectorInv
<1> QED BY TypeInit, TypeStep, SelectorInit, SelectorStep, <1>1, PTL DEF Spec

\* The refusal to change the values of labels is never reached: the merged
\* labels keep the existing values and always satisfy the existing selector.
THEOREM NeverRefused == Spec => [](~ChooseLabels(sts).refused)
<1>1. TypeOK /\ SelectorInv => ~ChooseLabels(sts).refused
  <2> SUFFICES ASSUME TypeOK, SelectorInv PROVE ~ChooseLabels(sts).refused
    OBVIOUS
  <2>1. sts \in Set /\ wanted \in Labelings
    BY DEF TypeOK
  <2>2. sts.exists => sts.selector \subseteq sts.template
    BY DEF SelectorInv, SelectorInTemplate
  <2> QED BY <2>1, <2>2, ChooseFacts
<1> QED BY TypeInit, TypeStep, SelectorInit, SelectorStep, <1>1, PTL DEF Spec

-----------------------------------------------------------------------------
(* The wanted labels.                                                      *)

\* If no label changes its value, what is chosen has all wanted labels.
LEMMA ChosenWanted ==
  ASSUME ValuesAgree, NEW s \in Set, wanted \in Labelings
  PROVE  wanted \subseteq ChooseLabels(s).labels
<1> DEFINE both == Assign(wanted, s.template)
           new  == [selector |-> wanted, labels |-> wanted, refused |-> FALSE]
           old  == [selector |-> s.selector, labels |-> both, refused |-> FALSE]
           bad  == [new EXCEPT !.refused = Cardinality(wanted) = Cardinality(s.template)]
<1>1. wanted \in SUBSET Label /\ s.template \in SUBSET Label
  BY DEF Label, Set
<1>2. wanted \subseteq both
  BY <1>1 DEF Assign, ValuesAgree
<1>3. new.labels = wanted /\ old.labels = both /\ bad.labels = wanted
  OBVIOUS
<1>4. ChooseLabels(s) = new \/ ChooseLabels(s) = old \/ ChooseLabels(s) = bad
  BY DEF ChooseLabels
<1> HIDE DEF new, old, bad, both
<1> QED BY <1>2, <1>3, <1>4

\* A step keeps the wanted labels in what is reported ready and in what is
\* about to be applied.
LEMMA WantedStep ==
  ASSUME ValuesAgree
  PROVE  TypeOK /\ WantedInv /\ [Next]_vars => WantedInv'
<1> SUFFICES ASSUME TypeOK, WantedInv, [Next]_vars PROVE WantedInv'
  OBVIOUS
<1>1. CASE GetStatefulSet
  <2>1. UNCHANGED <<wanted, sts>> /\ wanted \subseteq ChooseLabels(sts).labels
    BY <1>1, ChosenWanted DEF GetStatefulSet, TypeOK
  <2>2. \/ pc' = "idle" /\ reported' \in {"error", "not ready"}
        \/ plan' = ChooseLabels(sts) /\ UNCHANGED reported
    BY <1>1 DEF GetStatefulSet, Return
  <2> QED BY <2>1, <2>2 DEF WantedInv, ReadyMeansWanted
<1>2. CASE ApplyStatefulSet
  <2>1. pc = "apply" /\ pc' = "idle" /\ UNCHANGED wanted
    BY <1>2 DEF ApplyStatefulSet, Return
  <2>2. CASE sts.exists /\ sts.selector = plan.selector /\ ~resize
    <3>1. sts' = [sts EXCEPT !.template = TemplateLabels(plan)]
      BY <1>2, <2>2 DEF ApplyStatefulSet
    <3>2. plan.labels \subseteq sts'.template
      BY <3>1, TemplateFacts DEF TypeOK, Set
    <3> QED BY <2>1, <3>2 DEF WantedInv, ReadyMeansWanted
  <2>3. CASE ~(sts.exists /\ sts.selector = plan.selector /\ ~resize)
    <3>1. reported' = "not ready"
      BY <1>2, <2>3 DEF ApplyStatefulSet, Return
    <3> QED BY <2>1, <3>1 DEF WantedInv, ReadyMeansWanted
  <2> QED BY <2>2, <2>3
<1>3. CASE StepFails \/ UpgradeOperator
  BY <1>3 DEF StepFails, UpgradeOperator, Return, WantedInv, ReadyMeansWanted
<1>4. CASE UpdateStatus
  <2>1. sts'.template = sts.template
    BY <1>4 DEF UpdateStatus, TypeOK, Set
  <2> QED BY <1>4, <2>1 DEF UpdateStatus, WantedInv, ReadyMeansWanted
<1>5. CASE UNCHANGED <<wanted, sts, pc, plan, reported>>
  BY <1>5 DEF WantedInv, ReadyMeansWanted
<1>6. GrowVolume \/ UNCHANGED vars => UNCHANGED <<wanted, sts, pc, plan, reported>>
  BY DEF GrowVolume, vars
<1>7. \A m \in Member : PodStep(m) \/ LosePod(m)
                        => UNCHANGED <<wanted, sts, pc, plan, reported>>
  BY DEF PodStep, AdoptPod, CreatePod, RollPod, BecomeReady, LosePod
<1> QED BY <1>1, <1>2, <1>3, <1>4, <1>5, <1>6, <1>7 DEF Next, Reconcile

\* As long as no version of the operator changes the value of a label, a set
\* reported ready has the wanted labels, whatever migration was begun.
THEOREM ReadyAlwaysWanted ==
  ASSUME ValuesAgree
  PROVE  Spec => []ReadyMeansWanted
<1>1. Init => WantedInv
  BY DEF Init, WantedInv, ReadyMeansWanted
<1>2. TypeOK /\ WantedInv /\ [Next]_vars => WantedInv'
  BY WantedStep
<1>3. WantedInv => ReadyMeansWanted
  BY DEF WantedInv
<1> QED BY <1>1, <1>2, <1>3, TypeInit, TypeStep, PTL DEF Spec

-----------------------------------------------------------------------------
(* The members.                                                            *)

Down == {m \in Member : ~pod[m].up}

\* The members that are down can be counted.
LEMMA DownFinite == IsFiniteSet(Down) /\ Cardinality(Down) \in Nat
<1>1. IsFiniteSet(Down)
  BY ConstantsAssumption, FS_Subset DEF Down
<1> QED BY <1>1, FS_CardinalityType

\* A step takes no member down but the one it rolls or the one that is lost.
LEMMA MembersStep == TypeOK /\ MembersKept /\ [Next]_vars => MembersKept'
<1> SUFFICES ASSUME TypeOK, MembersKept, [Next]_vars PROVE MembersKept'
  OBVIOUS
<1>0. /\ Cardinality(Down) <= 1 + faults /\ faults \in Nat
      /\ Cardinality(Down') <= 1 + faults' => MembersKept'
  <2>1. faults \in Nat
    BY BoundsNat, CounterTypes
  <2> QED BY <2>1, Zenon DEF MembersKept, Down
<1>1. ASSUME Down' \subseteq Down, faults' \in {faults, faults + 1} PROVE MembersKept'
  <2>1. Cardinality(Down') <= Cardinality(Down) /\ Cardinality(Down') \in Nat
    <3>1. IsFiniteSet(Down')
      BY <1>1, DownFinite, FS_Subset
    <3> QED BY <1>1, <3>1, DownFinite, FS_Subset, FS_CardinalityType
  <2> QED BY <1>0, <1>1, <2>1, DownFinite
<1>2. ASSUME UNCHANGED pod, faults' \in {faults, faults + 1} PROVE MembersKept'
  BY <1>1, <1>2 DEF Down
<1>3. CASE GetStatefulSet \/ StepFails \/ UpgradeOperator \/ GrowVolume \/ UpdateStatus
           \/ UNCHANGED vars
  BY <1>2, <1>3
  DEF GetStatefulSet, StepFails, Fault, UpgradeOperator, GrowVolume, UpdateStatus, vars, bounds
<1>4. CASE ApplyStatefulSet
  <2>1. \A m \in Member : Orphaned[m].up = pod[m].up
    BY DEF Orphaned, TypeOK, Pod
  <2>2. pod' = pod \/ pod' = Orphaned
    BY <1>4 DEF ApplyStatefulSet
  <2>3. Down' \subseteq Down
    BY <2>1, <2>2 DEF Down
  <2> QED BY <1>1, <1>4, <2>3 DEF ApplyStatefulSet, bounds
<1>5. ASSUME NEW m \in Member, AdoptPod(m) \/ CreatePod(m) \/ BecomeReady(m) PROVE MembersKept'
  <2>1. \A n \in Member : pod[n].up => pod'[n].up
    BY <1>5 DEF AdoptPod, CreatePod, BecomeReady, TypeOK, Pod
  <2>2. Down' \subseteq Down
    BY <2>1 DEF Down
  <2> QED BY <1>1, <1>5, <2>2 DEF AdoptPod, CreatePod, BecomeReady, bounds
<1>6. ASSUME NEW m \in Member, RollPod(m) PROVE MembersKept'
  <2>1. \A n \in Member \ {m} : pod'[n].up
    BY <1>6 DEF RollPod, TypeOK
  <2>2. Down' \subseteq {m}
    BY <2>1 DEF Down
  <2>3. IsFiniteSet({m}) /\ Cardinality({m}) = 1
    BY FS_Singleton
  <2>4. Cardinality(Down') <= 1 /\ Cardinality(Down') \in Nat
    <3>1. IsFiniteSet(Down') /\ Cardinality(Down') <= Cardinality({m})
      BY <2>2, <2>3, FS_Subset
    <3> QED BY <2>3, <3>1, FS_CardinalityType
  <2>5. faults' = faults
    BY <1>6 DEF RollPod, bounds
  <2> QED BY <1>0, <2>4, <2>5
<1>7. ASSUME NEW m \in Member, LosePod(m) PROVE MembersKept'
  <2>1. \A n \in Member \ {m} : pod'[n] = pod[n]
    BY <1>7 DEF LosePod, TypeOK
  <2>2. ~pod'[m].up /\ m \notin Down
    BY <1>7 DEF LosePod, TypeOK, NoPod, Down
  <2>3. Down' = Down \cup {m}
    BY <2>1, <2>2 DEF Down
  <2>4. Cardinality(Down') = Cardinality(Down) + 1
    BY <2>2, <2>3, DownFinite, FS_AddElement
  <2>5. faults' = faults + 1
    BY <1>7 DEF LosePod, Fault
  <2> QED BY <1>0, <2>4, <2>5, DownFinite
<1> QED BY <1>3, <1>4, <1>5, <1>6, <1>7 DEF Next, Reconcile, PodStep

\* No member is down at first.
LEMMA MembersInit == Init => MembersKept
<1> SUFFICES ASSUME Init PROVE MembersKept
  OBVIOUS
<1>1. Down = {}
  BY DEF Init, Down
<1>2. Cardinality(Down) = 0
  BY <1>1, FS_EmptySet
<1> QED BY <1>2 DEF MembersKept, Down, Init

\* Re-creating the set never takes a running member down.
THEOREM MembersAlwaysKept == Spec => []MembersKept
  BY TypeInit, TypeStep, MembersInit, MembersStep, PTL DEF Spec

=============================================================================
