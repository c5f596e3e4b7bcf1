------------------------ MODULE ConfigRolloutProofs ------------------------
(***************************************************************************)
(* Theorems about ConfigRollout for any control planes, mounts, targets,   *)
(* writes, edits and faults.  A worker's memory is that of a reconcile at  *)
(* the step the worker is at, whatever the other workers and the writers   *)
(* do; and every way a reconcile ends leaves its plane queued or timed.    *)
(***************************************************************************)
EXTENDS ConfigRollout, TLAPS

-----------------------------------------------------------------------------
(* The workers.                                                            *)

\* The part of the invariants that is about the worker of plane p.
Worker(p) ==
    /\ pc[p] \in {"idle", "audit", "authn", "checksum"}
    /\ mem[p] = [audit |-> mem[p].audit, todo |-> mem[p].todo, seen |-> mem[p].seen]
    /\ mem[p].audit \in Audits /\ mem[p].todo \subseteq Volumes(p, mem[p].audit)
    /\ {entry[1] : entry \in mem[p].seen} \subseteq Volumes(p, mem[p].audit) \ mem[p].todo
    /\ pc[p] = "idle" => mem[p] = NoMemory
    /\ pc[p] # "checksum" => mem[p].todo = {} /\ mem[p].seen = {}
    /\ pc[p] = "checksum" =>
           {entry[1] : entry \in mem[p].seen} = Volumes(p, mem[p].audit) \ mem[p].todo

\* The rest of the type invariant.
Shared ==
    /\ store \in [Source -> 0 .. MaxWrites + 1] /\ audit \in [Plane -> Audits]
    /\ queue \subseteq Plane /\ timer \subseteq Plane
    /\ authn \in [Plane -> 0 .. MaxWrites + 1]
    /\ writes \in Nat /\ edits \in Nat /\ faults \in Nat
    /\ pc = [p \in Plane |-> pc[p]] /\ mem = [p \in Plane |-> mem[p]]

\* The invariants, taken apart.
LEMMA Parts ==
    /\ TypeOK /\ WorkerInv /\ ChecksumCoversVolumes <=> Shared /\ \A p \in Plane : Worker(p)
    /\ TypeOK' /\ WorkerInv' /\ ChecksumCoversVolumes'
           <=> Shared' /\ \A p \in Plane : Worker(p)'
<1>1. TypeOK /\ WorkerInv /\ ChecksumCoversVolumes <=> Shared /\ \A p \in Plane : Worker(p)
  BY DEF TypeOK, WorkerInv, ChecksumCoversVolumes, Shared, Worker
<1>2. TypeOK' /\ WorkerInv' /\ ChecksumCoversVolumes'
          <=> Shared' /\ \A p \in Plane : Worker(p)'
  BY DEF TypeOK, WorkerInv, ChecksumCoversVolumes, Shared, Worker
<1> QED
  BY <1>1, <1>2

\* A worker that a step does not move is as it was.
LEMMA WorkerKept ==
    ASSUME NEW p \in Plane, Worker(p), pc'[p] = pc[p], mem'[p] = mem[p]
    PROVE  Worker(p)'
  BY DEF Worker

\* A worker without a reconcile.
LEMMA WorkerIdle ==
    ASSUME NEW p \in Plane, pc'[p] = "idle", mem'[p] = NoMemory
    PROVE  Worker(p)'
  BY ConfigRolloutAssumption DEF Worker, NoMemory

\* A step of one plane's worker does nothing to the others'.
LEMMA OneMoves ==
    ASSUME NEW p \in Plane, Shared, \A q \in Plane : Worker(q),
           NEW c, NEW m, pc' = [pc EXCEPT ![p] = c], mem' = [mem EXCEPT ![p] = m],
           pc'[p] = c /\ mem'[p] = m => Worker(p)'
    PROVE  /\ \A q \in Plane : Worker(q)'
           /\ pc' = [q \in Plane |-> pc'[q]] /\ mem' = [q \in Plane |-> mem'[q]]
           /\ pc'[p] = c /\ \A q \in Plane \ {p} : pc'[q] = pc[q]
<1>1. pc = [q \in Plane |-> pc[q]] /\ mem = [q \in Plane |-> mem[q]]
  BY DEF Shared
<1>2. pc'[p] = c /\ mem'[p] = m
  BY <1>1
<1>3. \A q \in Plane \ {p} : pc'[q] = pc[q] /\ mem'[q] = mem[q]
  BY <1>1
<1>4. pc' = [q \in Plane |-> pc'[q]]
  BY <1>1
<1>5. mem' = [q \in Plane |-> mem'[q]]
  BY <1>1
<1> QED
  BY <1>2, <1>3, <1>4, <1>5, WorkerKept

\* A reconcile that failed.
LEMMA FailStep ==
    ASSUME NEW p \in Plane, Shared, \A q \in Plane : Worker(q), NeverForgotten, Fail(p)
    PROVE  /\ \A q \in Plane : Worker(q)'
           /\ pc' = [q \in Plane |-> pc'[q]] /\ mem' = [q \in Plane |-> mem'[q]]
           /\ NeverForgotten'
<1>1. pc' = [pc EXCEPT ![p] = "idle"] /\ mem' = [mem EXCEPT ![p] = NoMemory]
  BY DEF Fail
<1>2. /\ \A q \in Plane : Worker(q)'
      /\ pc' = [q \in Plane |-> pc'[q]] /\ mem' = [q \in Plane |-> mem'[q]]
      /\ \A q \in Plane \ {p} : pc'[q] = pc[q]
  BY <1>1, OneMoves, WorkerIdle
<1> QED
  BY <1>2 DEF Fail, NeverForgotten

-----------------------------------------------------------------------------
(* The steps.                                                              *)

\* Steps that leave the workers alone and queue planes.
LEMMA WorkersAlone ==
    ASSUME Shared, \A q \in Plane : Worker(q), NeverForgotten,
           UNCHANGED <<pc, mem>>, queue \cup timer \subseteq queue' \cup timer'
    PROVE  /\ \A q \in Plane : Worker(q)'
           /\ pc' = [q \in Plane |-> pc'[q]] /\ mem' = [q \in Plane |-> mem'[q]]
           /\ NeverForgotten'
<1>1. \A q \in Plane : Worker(q)'
  BY WorkerKept
<1> QED
  BY <1>1 DEF Shared, NeverForgotten

\* A write stores a content that was never seen, or deletes the object.
LEMMA WriteSourceStep ==
    ASSUME Shared, \A q \in Plane : Worker(q), NeverForgotten,
           NEW s \in Source, WriteSource(s)
    PROVE  Shared' /\ (\A q \in Plane : Worker(q)') /\ NeverForgotten'
<1>1. store' \in [Source -> 0 .. MaxWrites + 1]
  BY ConfigRolloutAssumption DEF WriteSource, Shared
<1>2. queue' \subseteq Plane /\ queue \subseteq queue' /\ faults' \in Nat /\ writes' \in Nat
  BY DEF WriteSource, Shared
<1>3. UNCHANGED <<audit, timer, pc, mem, authn, edits>>
  BY DEF WriteSource, generated
<1> QED
  BY <1>1, <1>2, <1>3, WorkersAlone DEF Shared

\* The steps of users, timers and the kubelet.
LEMMA OtherSteps ==
    ASSUME Shared, \A q \in Plane : Worker(q), NeverForgotten, NEW p \in Plane,
           \/ \E section \in Audits : EditAudit(p, section)
           \/ RequeueAfter(p) \/ StartPod(p) \/ LosePod(p)
    PROVE  Shared' /\ (\A q \in Plane : Worker(q)') /\ NeverForgotten'
<1>1. UNCHANGED <<store, pc, mem, authn, writes>>
  BY DEF EditAudit, RequeueAfter, StartPod, LosePod, generated, counters
<1>2. audit' \in [Plane -> Audits]
  BY DEF EditAudit, RequeueAfter, StartPod, LosePod, Shared
<1>3. /\ queue' \subseteq Plane /\ timer' \subseteq Plane
      /\ queue \cup timer \subseteq queue' \cup timer'
  BY DEF EditAudit, RequeueAfter, StartPod, LosePod, Shared
<1>4. edits' \in Nat /\ faults' \in Nat
  BY DEF EditAudit, RequeueAfter, StartPod, LosePod, Shared, counters
<1> QED
  BY <1>1, <1>2, <1>3, <1>4, WorkersAlone DEF Shared

\* A worker takes a plane from the queue and has it in hand.
LEMMA StartStep ==
    ASSUME Shared, \A q \in Plane : Worker(q), NeverForgotten, NEW p \in Plane, Start(p)
    PROVE  Shared' /\ (\A q \in Plane : Worker(q)') /\ NeverForgotten'
<1> DEFINE m == [NoMemory EXCEPT !.audit = audit[p]]
<1>1. m = [audit |-> audit[p], todo |-> {}, seen |-> {}] /\ audit[p] \in Audits
  <2>1. audit[p] \in Audits
    BY DEF Shared
  <2>2. m = [audit |-> audit[p], todo |-> {}, seen |-> {}]
    BY DEF NoMemory
  <2> QED
    BY <2>1, <2>2
<1>2. pc' = [pc EXCEPT ![p] = "audit"] /\ mem' = [mem EXCEPT ![p] = m]
  BY DEF Start
<1> HIDE DEF m
<1>3. pc'[p] = "audit" /\ mem'[p] = m => Worker(p)'
  BY <1>1 DEF Worker
<1>4. /\ \A q \in Plane : Worker(q)'
      /\ pc' = [q \in Plane |-> pc'[q]] /\ mem' = [q \in Plane |-> mem'[q]]
      /\ pc'[p] = "audit" /\ \A q \in Plane \ {p} : pc'[q] = pc[q]
  BY <1>2, <1>3, OneMoves
<1>5. Shared'
  BY <1>4 DEF Start, Shared, generated, counters
<1>6. NeverForgotten'
  BY <1>4 DEF Start, NeverForgotten
<1> QED
  BY <1>4, <1>5, <1>6

\* The audit Secret is written, or a token is missing.
LEMMA AuditStep ==
    ASSUME Shared, \A q \in Plane : Worker(q), NeverForgotten, NEW p \in Plane,
           reconcileAuditConfig(p)
    PROVE  Shared' /\ (\A q \in Plane : Worker(q)') /\ NeverForgotten'
<1>1. CASE Fail(p)
  BY <1>1, FailStep DEF Shared, Fail, reconcileAuditConfig, generated, counters
<1>2. ASSUME NEW content, reconcileSecret(p, content), pc' = [pc EXCEPT ![p] = "authn"],
             UNCHANGED <<store, audit, timer, mem, authn, template, pod>>
      PROVE  Shared' /\ (\A q \in Plane : Worker(q)') /\ NeverForgotten'
  <2>1. pc[p] = "audit" /\ UNCHANGED counters
    BY DEF reconcileAuditConfig
  <2>2. mem' = [mem EXCEPT ![p] = mem[p]]
    BY <1>2 DEF Shared
  <2>3. pc'[p] = "authn" /\ mem'[p] = mem[p] => Worker(p)'
    BY <2>1 DEF Worker
  <2>4. /\ \A q \in Plane : Worker(q)'
        /\ pc' = [q \in Plane |-> pc'[q]] /\ mem' = [q \in Plane |-> mem'[q]]
        /\ pc'[p] = "authn" /\ \A q \in Plane \ {p} : pc'[q] = pc[q]
    BY <1>2, <2>2, <2>3, OneMoves
  <2>5. queue \subseteq queue' /\ queue' \subseteq Plane
    BY <1>2 DEF reconcileSecret, Shared
  <2> QED
    BY <1>2, <2>1, <2>4, <2>5 DEF Shared, NeverForgotten, counters
<1> QED
  BY <1>1, <1>2 DEF reconcileAuditConfig

\* The volumes to read are those of the section the reconcile began with.
LEMMA AuthenticationStep ==
    ASSUME Shared, \A q \in Plane : Worker(q), NeverForgotten, NEW p \in Plane,
           reconcileAuthenticationConfig(p)
    PROVE  Shared' /\ (\A q \in Plane : Worker(q)') /\ NeverForgotten'
<1>1. CASE Fail(p)
  BY <1>1, FailStep DEF Shared, Fail, reconcileAuthenticationConfig, generated, counters
<1>2. CASE ~Fail(p)
  <2>1. /\ pc[p] = "authn" /\ UNCHANGED counters /\ reconcileConfigmap(p, store[RootCA])
        /\ pc' = [pc EXCEPT ![p] = "checksum"]
        /\ mem' = [mem EXCEPT ![p].todo = Volumes(p, mem[p].audit)]
        /\ UNCHANGED <<store, audit, timer>>
    BY <1>2 DEF reconcileAuthenticationConfig
  <2> DEFINE m == [audit |-> mem[p].audit, todo |-> Volumes(p, mem[p].audit), seen |-> {}]
  <2>2. /\ mem[p] = [audit |-> mem[p].audit, todo |-> {}, seen |-> {}]
        /\ mem[p].audit \in Audits
    BY <2>1 DEF Worker
  <2>3. mem' = [mem EXCEPT ![p] = m]
    <3>1. [mem[p] EXCEPT !.todo = Volumes(p, mem[p].audit)] = m
      BY <2>2
    <3>2. mem' = [mem EXCEPT ![p] = [mem[p] EXCEPT !.todo = Volumes(p, mem[p].audit)]]
      BY <2>1
    <3> QED
      BY <3>1, <3>2, Zenon
  <2>4. pc'[p] = "checksum" /\ mem'[p] = m => Worker(p)'
    BY <2>2 DEF Worker
  <2> HIDE DEF m
  <2>5. /\ \A q \in Plane : Worker(q)'
        /\ pc' = [q \in Plane |-> pc'[q]] /\ mem' = [q \in Plane |-> mem'[q]]
        /\ pc'[p] = "checksum" /\ \A q \in Plane \ {p} : pc'[q] = pc[q]
    BY <2>1, <2>3, <2>4, OneMoves
  <2>6. queue \subseteq queue' /\ queue' \subseteq Plane
    BY <2>1 DEF reconcileConfigmap, Shared
  <2>7. authn' \in [Plane -> 0 .. MaxWrites + 1]
    BY <2>1, ConfigRolloutAssumption DEF reconcileConfigmap, Shared, Source
  <2> QED
    BY <2>1, <2>5, <2>6, <2>7 DEF Shared, NeverForgotten, counters
<1> QED
  BY <1>1, <1>2

\* A volume that was read is among those seen and no longer to be read.
LEMMA ReadStep ==
    ASSUME Shared, \A q \in Plane : Worker(q), NeverForgotten, NEW p \in Plane,
           NEW v \in Volumes(p, "webhook"), ReadVolume(p, v)
    PROVE  Shared' /\ (\A q \in Plane : Worker(q)') /\ NeverForgotten'
<1>1. CASE Fail(p)
  BY <1>1, FailStep DEF Shared, Fail, ReadVolume, generated, counters
<1>2. CASE ~Fail(p)
  <2> DEFINE e == <<v, Content(p, v)>>
             m == [audit |-> mem[p].audit, todo |-> mem[p].todo \ {v},
                   seen |-> mem[p].seen \cup {e}]
  <2>1. /\ pc[p] = "checksum" /\ v \in mem[p].todo /\ UNCHANGED counters
        /\ mem' = [mem EXCEPT ![p].todo = @ \ {v}, ![p].seen = @ \cup {e}]
        /\ UNCHANGED <<store, audit, queue, timer, pc, generated>>
    BY <1>2 DEF ReadVolume
  <2>2. /\ mem[p] = [audit |-> mem[p].audit, todo |-> mem[p].todo, seen |-> mem[p].seen]
        /\ mem[p].audit \in Audits /\ mem[p].todo \subseteq Volumes(p, mem[p].audit)
        /\ {entry[1] : entry \in mem[p].seen} = Volumes(p, mem[p].audit) \ mem[p].todo
    BY <2>1 DEF Worker
  <2>3. e[1] = v
    OBVIOUS
  <2> HIDE DEF e
  <2>4. mem' = [mem EXCEPT ![p] = m]
    <3> DEFINE r == mem[p]
               x == mem[p].todo \ {v}
               y == mem[p].seen \cup {e}
    <3>1. r = [audit |-> mem[p].audit, todo |-> mem[p].todo, seen |-> mem[p].seen]
      BY <2>2
    <3>2. mem' = [mem EXCEPT ![p] = [r EXCEPT !.todo = x, !.seen = y]]
      BY <2>1 DEF Shared
    <3>3. m = [audit |-> mem[p].audit, todo |-> x, seen |-> y]
      OBVIOUS
    <3> HIDE DEF r, x, y
    <3>4. [r EXCEPT !.todo = x, !.seen = y] = [audit |-> mem[p].audit, todo |-> x, seen |-> y]
      <4> DEFINE q == [r EXCEPT !.todo = x]
      <4>1. q = [audit |-> mem[p].audit, todo |-> x, seen |-> mem[p].seen]
        BY <3>1
      <4>2. [r EXCEPT !.todo = x, !.seen = y] = [q EXCEPT !.seen = y]
        BY Zenon
      <4> HIDE DEF q
      <4>3. [q EXCEPT !.seen = y] = [audit |-> mem[p].audit, todo |-> x, seen |-> y]
        BY <4>1
      <4> QED
        BY <4>2, <4>3
    <3> QED
      BY <3>2, <3>3, <3>4, Zenon
  <2>5. pc' = [pc EXCEPT ![p] = "checksum"]
    BY <2>1 DEF Shared
  <2>6. {entry[1] : entry \in mem[p].seen \cup {e}}
          = Volumes(p, mem[p].audit) \ (mem[p].todo \ {v})
    BY <2>1, <2>2, <2>3
  <2>7. pc'[p] = "checksum" /\ mem'[p] = m => Worker(p)'
    BY <2>2, <2>6 DEF Worker
  <2> HIDE DEF m
  <2>8. /\ \A q \in Plane : Worker(q)'
        /\ pc' = [q \in Plane |-> pc'[q]] /\ mem' = [q \in Plane |-> mem'[q]]
    BY <2>4, <2>5, <2>7, OneMoves
  <2> QED
    BY <2>1, <2>8 DEF Shared, NeverForgotten, counters, generated
<1> QED
  BY <1>1, <1>2

\* A reconcile that ends well leaves its timer behind.
LEMMA ApplyStep ==
    ASSUME Shared, \A q \in Plane : Worker(q), NeverForgotten, NEW p \in Plane,
           ApplyDeployment(p)
    PROVE  Shared' /\ (\A q \in Plane : Worker(q)') /\ NeverForgotten'
<1>1. pc' = [pc EXCEPT ![p] = "idle"] /\ mem' = [mem EXCEPT ![p] = NoMemory]
  BY DEF ApplyDeployment
<1>2. /\ \A q \in Plane : Worker(q)'
      /\ pc' = [q \in Plane |-> pc'[q]] /\ mem' = [q \in Plane |-> mem'[q]]
      /\ \A q \in Plane \ {p} : pc'[q] = pc[q]
  BY <1>1, OneMoves, WorkerIdle
<1>3. timer' = timer \cup {p} /\ queue \subseteq queue' /\ queue' \subseteq Plane
  BY DEF ApplyDeployment, Shared
<1>4. UNCHANGED <<store, audit, authn, writes, edits, faults>>
  BY DEF ApplyDeployment, generated, counters
<1> QED
  BY <1>2, <1>3, <1>4 DEF Shared, NeverForgotten

\* An error ends a reconcile, and a restart all of them.
LEMMA FaultSteps ==
    ASSUME Shared, \A q \in Plane : Worker(q), NeverForgotten,
           Restart \/ \E p \in Plane : APIError(p)
    PROVE  Shared' /\ (\A q \in Plane : Worker(q)') /\ NeverForgotten'
<1>1. ASSUME NEW p \in Plane, APIError(p)
      PROVE  Shared' /\ (\A q \in Plane : Worker(q)') /\ NeverForgotten'
  <2>1. Fail(p) /\ faults' \in Nat /\ UNCHANGED <<writes, edits>>
    BY <1>1 DEF APIError, Shared
  <2>2. /\ \A q \in Plane : Worker(q)'
        /\ pc' = [q \in Plane |-> pc'[q]] /\ mem' = [q \in Plane |-> mem'[q]]
        /\ NeverForgotten'
    BY <2>1, FailStep
  <2>3. UNCHANGED <<store, audit, timer, authn>> /\ queue' = queue \cup {p}
    BY <2>1 DEF Fail, generated
  <2> QED
    BY <2>1, <2>2, <2>3 DEF Shared
<1>2. CASE Restart
  <2>1. \A q \in Plane : Worker(q)'
    BY <1>2, WorkerIdle DEF Restart
  <2> QED
    BY <1>2, <2>1 DEF Restart, Shared, NeverForgotten, generated
<1> QED
  BY <1>1, <1>2

-----------------------------------------------------------------------------
(* Theorems.                                                               *)

\* The invariants hold at first, and every step keeps them.
LEMMA Inductive ==
    Spec => [](TypeOK /\ WorkerInv /\ ChecksumCoversVolumes /\ NeverForgotten)
<1> DEFINE Inv == TypeOK /\ WorkerInv /\ ChecksumCoversVolumes /\ NeverForgotten
<1>1. Init => Inv
  <2> SUFFICES ASSUME Init PROVE Inv
    OBVIOUS
  <2>1. Shared
    BY ConfigRolloutAssumption DEF Init, Shared
  <2>2. ASSUME NEW p \in Plane PROVE Worker(p)
    BY ConfigRolloutAssumption DEF Init, Worker, NoMemory
  <2>3. NeverForgotten
    BY DEF Init, NeverForgotten
  <2> QED
    BY <2>1, <2>2, <2>3, Parts
<1>2. Inv /\ [Next]_vars => Inv'
  <2> SUFFICES ASSUME Inv, [Next]_vars PROVE Inv'
    OBVIOUS
  <2>1. Shared /\ (\A q \in Plane : Worker(q)) /\ NeverForgotten
    BY Parts
  <2>2. CASE UNCHANGED vars
    BY <2>2 DEF vars, TypeOK, WorkerInv, ChecksumCoversVolumes, NeverForgotten
  <2>3. CASE Next
    <3>1. Shared' /\ (\A q \in Plane : Worker(q)') /\ NeverForgotten'
      BY <2>1, <2>3, WriteSourceStep, OtherSteps, StartStep, AuditStep, AuthenticationStep,
         ReadStep, ApplyStep, FaultSteps DEF Next
    <3> QED
      BY <3>1, Parts
  <2> QED
    BY <2>2, <2>3
<1> QED
  BY <1>1, <1>2, PTL DEF Spec

\* The state of the objects and of the workers keeps its types.
THEOREM TypeCorrect == Spec => []TypeOK
  BY Inductive, PTL

\* For any number of planes, faults and lost events, no plane is ever left
\* without a reconcile to come.
THEOREM NoneForgotten == Spec => []NeverForgotten
  BY Inductive, PTL

\* However users edit the audit section and write the objects while they are
\* read, a checksum is about the volumes of the template it belongs to.
THEOREM ChecksumAlwaysCovers == Spec => []ChecksumCoversVolumes
  BY Inductive, PTL

=============================================================================
