-------------------------- MODULE ControllerProofs --------------------------
(***************************************************************************)
(* Proofs about Controller, for every fleet, every set of bounds and every *)
(* engine: its invariants, and that it keeps the promise of the ownership  *)
(* registry.                                                               *)
(***************************************************************************)
EXTENDS Controller, FiniteSetTheorems, TLAPS

USE DEF ScaleActionSet, NoAction

-----------------------------------------------------------------------------
(* Types *)

\* The status of a VM the controller has just met is a status.
LEMMA FreshTyped ==
  /\ FreshStatus \in Statuses
  /\ \A c \in Classes : [FreshStatus EXCEPT !.class = c] \in Statuses
<1>1. FreshStatus \in Statuses
  BY BoundsAssumption, ControllerAssumption DEF FreshStatus, Statuses, Classes
<1>2. \A s \in Statuses, c \in Classes : [s EXCEPT !.class = c] \in Statuses
  BY DEF Statuses
<1> QED
  BY <1>1, <1>2

\* The update a successful manual request makes leaves a status of the same class.
LEMMA ManualUpdate ==
  ASSUME NEW s \in Statuses, NEW n \in 0 .. MaxPool, NEW b \in BOOLEAN
  PROVE  /\ [s EXCEPT !.thread_count = n, !.sticky = b] \in Statuses
         /\ [s EXCEPT !.thread_count = n, !.sticky = b].class = s.class
  BY DEF Statuses

\* What the registry says about a VM is a class.
LEMMA ClassificationTyped == \A own, v : classification(own, v) \in Classes
  BY DEF classification, Classes

-----------------------------------------------------------------------------
\* The invariant holds before the daemon is first started.
LEMMA InitInv == Init => Inv
<1> SUFFICES ASSUME Init PROVE Inv
  OBVIOUS
<1> USE DEF Init
<1>1. EmptyOwnership \in Registries
  BY DEF EmptyOwnership, Registries
<1>2. TypeOK
  <2>1. plan \in [VMs -> ScaleActionSet]
    BY DEF NoPlan
  <2>2. status \in [VMs -> Statuses]
    BY FreshTyped
  <2>3. hot \in BOOLEAN
    OBVIOUS
  <2> QED
    BY <1>1, <2>1, <2>2, <2>3 DEF TypeOK
<1>3. OwnershipAgrees /\ ScaledAreManaged /\ RegistryInv
  BY DEF OwnershipAgrees, ScaledAreManaged, RegistryInv, EmptyOwnership
<1>4. PlanInv
  BY DEF PlanInv, Planned, NoPlan
<1>5. NeverOvershoots
  BY DEF NeverOvershoots, MaxOf
<1>6. CapHolds
  BY FS_EmptySet, ControllerAssumption DEF CapHolds
<1> QED
  BY <1>2, <1>3, <1>4, <1>5, <1>6 DEF Inv

-----------------------------------------------------------------------------
(* The steps that read the world: discovery, refresh, evaluation *)

\* Starting loads the file, so registry and file agree.
LEMMA StartInv == Inv /\ Start => Inv'
<1> SUFFICES ASSUME Inv, Start PROVE Inv'
  OBVIOUS
<1> USE DEF Inv, Start, tick_vars, history
<1>1. TypeOK'
  BY DEF TypeOK
<1>2. OwnershipAgrees' /\ RegistryInv'
  BY DEF OwnershipAgrees, RegistryInv
<1>3. ScaledAreManaged' /\ NeverOvershoots' /\ CapHolds'
  BY DEF ScaledAreManaged, NeverOvershoots, CapHolds
<1>4. PlanInv'
  BY DEF PlanInv, Planned, Shrinks
<1> QED
  BY <1>1, <1>2, <1>3, <1>4

\* A VM that discovery brings in takes over its class from the registry.
LEMMA SyncInv == ASSUME Inv, NEW found \in SUBSET VMs, Sync(found) PROVE Inv'
<1> USE DEF Inv, Sync, tick_vars, history
<1>1. \A v \in VMs : Adopted(v) \in Statuses /\ Adopted(v).class = classification(ownership, v)
  BY FreshTyped, ClassificationTyped DEF Adopted, FreshStatus
<1>2. TypeOK'
  BY <1>1, FreshTyped DEF TypeOK
<1>3. OwnershipAgrees'
  BY <1>1 DEF OwnershipAgrees, TypeOK
<1>4. RegistryInv'
  BY DEF RegistryInv
<1>5. ScaledAreManaged' /\ NeverOvershoots' /\ CapHolds'
  BY DEF ScaledAreManaged, NeverOvershoots, CapHolds
<1>6. PlanInv'
  BY DEF PlanInv, Planned, NoPlan
<1> QED
  BY <1>2, <1>3, <1>4, <1>5, <1>6

\* A watch event only asks for a discovery.
LEMMA WatchEventInv == Inv /\ WatchEvent => Inv'
<1> SUFFICES ASSUME Inv, WatchEvent PROVE Inv'
  OBVIOUS
<1> USE DEF Inv, WatchEvent, tick_vars, history
<1>1. TypeOK'
  BY DEF TypeOK
<1>2. OwnershipAgrees' /\ RegistryInv'
  BY DEF OwnershipAgrees, RegistryInv
<1>3. ScaledAreManaged' /\ NeverOvershoots' /\ CapHolds'
  BY DEF ScaledAreManaged, NeverOvershoots, CapHolds
<1>4. PlanInv'
  BY DEF PlanInv, Planned, Shrinks
<1> QED
  BY <1>1, <1>2, <1>3, <1>4

\* A refresh classifies what has no class, and leaves every other class alone.
LEMMA RefreshInv ==
  ASSUME Inv, NEW failed \in SUBSET instances, NEW h \in BOOLEAN, Refresh(failed, h)
  PROVE  Inv'
<1> USE DEF Inv, Refresh
<1>1. \A v \in VMs :
        /\ Refreshed(v) \in Statuses
        /\ Refreshed(v).class # "none"
        /\ status[v].class # "none" => Refreshed(v).class = status[v].class
  <2> TAKE v \in VMs
  <2>1. /\ Classified(v) \in Classes
        /\ Classified(v) # "none"
        /\ status[v].class # "none" => Classified(v) = status[v].class
    BY DEF TypeOK, Statuses, Classes, Classified
  <2>2. status[v] \in Statuses /\ pool[v] \in 0 .. MaxPool /\ VcpuCount[v] \in 0 .. MaxPool
    BY ControllerAssumption, BoundsAssumption DEF TypeOK
  <2>3. Refreshed(v) \in Statuses
    BY <2>1, <2>2 DEF Refreshed, Statuses
  <2>4. Refreshed(v).class = Classified(v)
    BY <2>2 DEF Statuses, Refreshed
  <2> QED
    BY <2>1, <2>3, <2>4
<1>2. TypeOK'
  <2>1. status' \in [VMs -> Statuses]
    BY <1>1, FreshTyped DEF TypeOK
  <2>2. hot' \in BOOLEAN
    OBVIOUS
  <2> QED
    BY <2>1, <2>2 DEF TypeOK
<1>3. OwnershipAgrees'
  <2>1. \A v \in instances' : /\ v \in VMs /\ v \in instances
                              /\ status'[v] = Refreshed(v)
    BY DEF TypeOK
  <2>2. \A v \in instances' : classification(ownership, v) \in {"none", status'[v].class}
    BY <1>1, <2>1 DEF OwnershipAgrees
  <2> QED
    BY <2>2 DEF OwnershipAgrees
<1>4. RegistryInv'
  <2>1. \A v \in instances' : status'[v].class # "none"
    BY <1>1 DEF TypeOK
  <2>2. \A v \in VMs \ instances' : status'[v] = FreshStatus
    OBVIOUS
  <2> QED
    BY <2>1, <2>2 DEF RegistryInv
<1>5. ScaledAreManaged' /\ NeverOvershoots'
  BY DEF ScaledAreManaged, NeverOvershoots, MaxOf
<1>6. CapHolds'
  BY FS_EmptySet, ControllerAssumption DEF CapHolds
<1>7. PlanInv'
  BY DEF PlanInv, Planned, NoPlan
<1> QED
  BY <1>2, <1>3, <1>4, <1>5, <1>6, <1>7

-----------------------------------------------------------------------------
(* The steps that write the registry *)

\* Recording classifications cannot contradict the registry; it leaves the
\* file behind exactly when a save follows.
LEMMA PersistInv == Inv /\ Persist => Inv'
<1> SUFFICES ASSUME Inv, Persist PROVE Inv'
  OBVIOUS
<1> USE DEF Inv, Persist, tick_vars, history
<1> DEFINE class == [v \in VMs |-> status[v].class]
<1>1. \A v \in instances : /\ v \in VMs
                            /\ class[v] = status[v].class
                            /\ class[v] \in {"managed", "unmanaged"}
                            /\ classification(ownership, v) \in {"none", class[v]}
  BY DEF TypeOK, RegistryInv, OwnershipAgrees, Statuses, Classes
<1>2. /\ ownership' \in Registries
      /\ ownership'.managed_vms \cap ownership'.unmanaged_vms = {}
      /\ ownership.managed_vms \subseteq ownership'.managed_vms
      /\ ownership.unmanaged_vms \subseteq ownership'.unmanaged_vms
      /\ \A v \in instances : classification(ownership', v) = class[v]
  <2>1. ownership' = Recorded(ownership, instances, class)
    OBVIOUS
  <2>2. /\ ownership \in Registries /\ instances \in SUBSET VMs
        /\ ownership.managed_vms \cap ownership.unmanaged_vms = {}
    BY DEF TypeOK, OwnershipAgrees
  <2> HIDE DEF class
  <2>3. /\ ownership' \in Registries
        /\ ownership'.managed_vms \cap ownership'.unmanaged_vms = {}
        /\ ownership.managed_vms \subseteq ownership'.managed_vms
        /\ ownership.unmanaged_vms \subseteq ownership'.unmanaged_vms
        /\ \A v \in instances :
             /\ class[v] \in {"managed", "unmanaged"}
             /\ classification(ownership, v) \in {"none", class[v]}
             => classification(ownership', v) = class[v]
    BY <2>1, <2>2 DEF Registries, Recorded, classification
  <2> QED
    BY <1>1, <2>3
<1> HIDE DEF class
<1>3. ownership = disk
  BY DEF RegistryInv
<1>4. TypeOK'
  BY <1>2 DEF TypeOK
<1>5. OwnershipAgrees'
  BY <1>1, <1>2, <1>3 DEF OwnershipAgrees
<1>6. RegistryInv'
  BY <1>1, <1>2, <1>3 DEF RegistryInv
<1>7. ScaledAreManaged' /\ NeverOvershoots' /\ CapHolds'
  BY DEF ScaledAreManaged, NeverOvershoots, CapHolds
<1>8. PlanInv'
  BY DEF PlanInv, Planned, Shrinks, NoPlan
<1> QED
  BY <1>4, <1>5, <1>6, <1>7, <1>8

\* Saving only adds to the file, so no VM scaled before loses its entry.
LEMMA SaveInv == Inv /\ Save => Inv'
<1> SUFFICES ASSUME Inv, Save PROVE Inv'
  OBVIOUS
<1> USE DEF Inv, Save, tick_vars, history
<1>1. TypeOK'
  BY DEF TypeOK
<1>2. OwnershipAgrees' /\ RegistryInv'
  BY DEF OwnershipAgrees, RegistryInv
<1>3. ScaledAreManaged'
  BY DEF ScaledAreManaged, OwnershipAgrees
<1>4. NeverOvershoots' /\ CapHolds'
  BY DEF NeverOvershoots, CapHolds
<1>5. PlanInv'
  BY DEF PlanInv, Planned, Shrinks
<1> QED
  BY <1>1, <1>2, <1>3, <1>4, <1>5

\* Dying loses the memory and nothing else.
LEMMA ExitInv == Inv /\ Exit => Inv'
<1> SUFFICES ASSUME Inv, Exit PROVE Inv'
  OBVIOUS
<1> USE DEF Inv, Exit
<1>1. EmptyOwnership \in Registries
  BY DEF EmptyOwnership, Registries
<1>2. TypeOK'
  <2>1. plan' \in [VMs -> ScaleActionSet]
    BY DEF NoPlan
  <2>2. hot' \in BOOLEAN
    OBVIOUS
  <2>3. status' \in [VMs -> Statuses]
    BY FreshTyped
  <2> QED
    BY <1>1, <2>1, <2>2, <2>3 DEF TypeOK
<1>3. OwnershipAgrees' /\ ScaledAreManaged' /\ RegistryInv'
  BY DEF OwnershipAgrees, ScaledAreManaged, RegistryInv, EmptyOwnership
<1>4. NeverOvershoots'
  BY DEF NeverOvershoots, MaxOf
<1>5. CapHolds'
  BY FS_EmptySet, ControllerAssumption DEF CapHolds
<1>6. PlanInv'
  BY DEF PlanInv, Planned, NoPlan
<1> QED
  BY <1>2, <1>3, <1>4, <1>5, <1>6

-----------------------------------------------------------------------------
(* The steps of the plan *)

\* A plan starts before anything is resized, so it may hold anything.
LEMMA EvaluateInv == ASSUME Inv, NEW d \in Decisions, EvaluateFleet(d) PROVE Inv'
<1> USE DEF Inv, EvaluateFleet, history
<1>1. TypeOK'
  <2>1. plan' \in [VMs -> ScaleActionSet]
    BY DEF Decisions
  <2> QED
    BY <2>1 DEF TypeOK
<1>2. OwnershipAgrees' /\ RegistryInv'
  BY DEF OwnershipAgrees, RegistryInv
<1>3. ScaledAreManaged' /\ NeverOvershoots' /\ CapHolds'
  BY DEF ScaledAreManaged, NeverOvershoots, CapHolds
<1>4. PlanInv'
  BY DEF PlanInv
<1> QED
  BY <1>1, <1>2, <1>3, <1>4

\* Taking an entry off the plan leaves the rest of the plan as it was.
LEMMA AttemptPlan ==
  ASSUME Inv, NEW v \in VMs, Attempt(v)
  PROVE  /\ plan' \in [VMs -> ScaleActionSet]
         /\ Planned' = Planned \ {v}
         /\ \A w \in Planned' : plan'[w] = plan[w]
         /\ v \in Planned
         /\ plan[v].target \in 1 .. MaxPool
<1> USE DEF Inv, Attempt, TypeOK
<1>1. plan' \in [VMs -> ScaleActionSet]
  OBVIOUS
<1>2. Planned' = Planned \ {v}
  BY DEF Planned
<1>3. \A w \in Planned' : plan'[w] = plan[w]
  BY DEF Planned
<1>4. v \in Planned
  BY DEF NextInPlan
<1>5. plan[v].target \in 1 .. MaxPool
  BY <1>4 DEF Planned
<1> QED
  BY <1>1, <1>2, <1>3, <1>4, <1>5

\* A decision that no guard blocks is for a tracked VM on disk as managed.
LEMMA GoesManaged ==
  ASSUME Inv, NEW v \in VMs, pc = "apply", Goes(v)
  PROVE  v \in instances /\ v \in disk.managed_vms
<1> USE DEF Inv
<1>1. status[v].class = "managed"
  BY DEF Goes, BlockedReason, TypeOK, Statuses, Classes
<1>2. v \in instances
  BY <1>1 DEF RegistryInv, FreshStatus
<1>3. classification(disk, v) = "managed"
  BY <1>1, <1>2 DEF RegistryInv
<1> QED
  BY <1>2, <1>3 DEF classification

\* A skipped entry changes nothing but the plan.
LEMMA SkippedInv == ASSUME Inv, NEW v \in VMs, ApplySkipped(v) PROVE Inv'
<1> USE DEF Inv, ApplySkipped
<1>1. Attempt(v)
  OBVIOUS
<1>2. TypeOK'
  BY <1>1, AttemptPlan DEF TypeOK, Attempt
<1>3. OwnershipAgrees' /\ RegistryInv'
  BY DEF OwnershipAgrees, RegistryInv, Attempt
<1>4. ScaledAreManaged' /\ NeverOvershoots' /\ CapHolds'
  BY DEF ScaledAreManaged, NeverOvershoots, CapHolds, Attempt
<1>5. PlanInv'
  BY <1>1, AttemptPlan DEF PlanInv, Attempt, Shrinks
<1> QED
  BY <1>2, <1>3, <1>4, <1>5

\* A dry run starts a cooldown and is counted; no pool is touched.
LEMMA DryRunInv == ASSUME Inv, NEW v \in VMs, ApplyDryRun(v) PROVE Inv'
<1> USE DEF Inv, ApplyDryRun
<1>1. Attempt(v) /\ Goes(v)
  OBVIOUS
<1>2. /\ status' \in [VMs -> Statuses]
      /\ \A w \in VMs : /\ status'[w].class = status[w].class
                        /\ status'[w].thread_count = status[w].thread_count
      /\ \A w \in VMs \ {v} : status'[w] = status[w]
  BY ControllerAssumption DEF TypeOK, Statuses
<1>3. TypeOK'
  BY <1>1, <1>2, AttemptPlan DEF TypeOK, Attempt
<1>4. OwnershipAgrees'
  BY <1>2 DEF OwnershipAgrees, Attempt, TypeOK
<1>5. RegistryInv'
  BY <1>1, <1>2, GoesManaged DEF RegistryInv, Attempt, TypeOK
<1>6. ScaledAreManaged' /\ NeverOvershoots'
  BY DEF ScaledAreManaged, NeverOvershoots, Attempt
<1>7. CapHolds'
  BY ControllerAssumption DEF CapHolds, Goes, CapReached, TypeOK
<1>8. PlanInv'
  BY <1>1, <1>2, AttemptPlan DEF PlanInv, Attempt, Shrinks, Planned
<1> QED
  BY <1>3, <1>4, <1>5, <1>6, <1>7, <1>8

\* A successful actuation is of a VM on disk as managed.  If it grows the pool,
\* nothing left in the plan shrinks one; if it shrinks the pool, nothing in the
\* tick has grown one.
LEMMA SuccessInv == ASSUME Inv, NEW v \in VMs, ApplySuccess(v) PROVE Inv'
<1> USE DEF Inv, ApplySuccess
<1>1. Attempt(v) /\ Goes(v) /\ pc = "apply" /\ NextInPlan(v) /\ ~DryRunMode
  BY DEF Attempt, Actuates
<1>2. /\ status' \in [VMs -> Statuses]
      /\ \A w \in VMs : status'[w].class = status[w].class
      /\ \A w \in VMs \ {v} : status'[w] = status[w]
  <2>1. plan[v].target \in 0 .. MaxPool /\ CooldownSpan \in 0 .. CooldownSpan
    BY <1>1, AttemptPlan, ControllerAssumption
  <2>2. status \in [VMs -> Statuses]
    BY DEF TypeOK
  <2>3. status' = [status EXCEPT ![v] = [status[v] EXCEPT !.thread_count = plan[v].target,
                                                          !.cooldown = CooldownSpan]]
    BY <2>2 DEF Statuses
  <2>4. [status[v] EXCEPT !.thread_count = plan[v].target, !.cooldown = CooldownSpan] \in Statuses
    BY <2>1, <2>2 DEF Statuses
  <2>5. status' \in [VMs -> Statuses] /\ \A w \in VMs \ {v} : status'[w] = status[w]
    BY <2>2, <2>3, <2>4
  <2>6. status'[v].class = status[v].class
    BY <2>2, <2>3 DEF Statuses
  <2> QED
    BY <2>5, <2>6
<1>3. pool' \in [VMs -> 0 .. MaxPool]
  BY <1>1, AttemptPlan DEF TypeOK, Reached
<1>4. plan[v].target \in Int /\ status[v].thread_count \in Int
  BY <1>1, AttemptPlan DEF TypeOK, Statuses
<1>5. TypeOK'
  BY <1>1, <1>2, <1>3, <1>4, AttemptPlan DEF TypeOK, Attempt, MaxOf
<1>6. OwnershipAgrees'
  BY <1>2 DEF OwnershipAgrees, Attempt, TypeOK
<1>7. RegistryInv'
  BY <1>1, <1>2, GoesManaged DEF RegistryInv, Attempt, TypeOK
<1>8. ScaledAreManaged'
  BY <1>1, GoesManaged DEF ScaledAreManaged, Attempt
<1>9. NeverOvershoots'
  BY <1>1, <1>4 DEF NeverOvershoots, PlanInv, MaxOf, NextInPlan, Shrinks, TypeOK
<1>10. CapHolds'
  <2>1. IsFiniteSet(resized)
    BY ControllerAssumption, FS_Subset DEF TypeOK
  <2>2. v \notin resized
    BY <1>1, AttemptPlan DEF PlanInv
  <2>3. Cardinality(resized') = Cardinality(resized) + 1
    BY <2>1, <2>2, FS_AddElement
  <2>4. Cardinality(resized) \in Nat
    BY <2>1, FS_CardinalityType
  <2> QED
    BY <1>1, <2>3, <2>4, ControllerAssumption DEF CapHolds, Goes, CapReached, TypeOK
<1>11. PlanInv'
  <2>1. \A w \in Planned' : Shrinks(w)' <=> Shrinks(w)
    BY <1>1, <1>2, AttemptPlan DEF Shrinks, Planned
  <2>2. resized' \cap Planned' = {}
    BY <1>1, AttemptPlan DEF PlanInv
  <2>3. delta' > 0 => \A w \in Planned' : ~Shrinks(w)
    BY <1>1, <1>4, AttemptPlan DEF PlanInv, NextInPlan, Shrinks, TypeOK
  <2> QED
    BY <2>1, <2>2, <2>3 DEF PlanInv, Attempt
<1> QED
  BY <1>5, <1>6, <1>7, <1>8, <1>9, <1>10, <1>11

\* A failed actuation may have touched the pool, of a VM on disk as managed.
LEMMA FailedInv == ASSUME Inv, NEW v \in VMs, ApplyFailed(v) PROVE Inv'
<1> USE DEF Inv, ApplyFailed
<1>1. Attempt(v) /\ Goes(v) /\ pc = "apply" /\ ~DryRunMode
  BY DEF Attempt, Actuates
<1>2. /\ scaled' \in {scaled, scaled \cup {v}}
      /\ resized' \in {resized, resized \cup {v}}
      /\ pool' \in [VMs -> 0 .. MaxPool]
  BY DEF PartWay, TypeOK
<1>3. TypeOK'
  BY <1>1, <1>2, AttemptPlan DEF TypeOK, Attempt
<1>4. OwnershipAgrees' /\ RegistryInv'
  BY DEF OwnershipAgrees, RegistryInv, Attempt
<1>5. ScaledAreManaged'
  BY <1>1, <1>2, GoesManaged DEF ScaledAreManaged, Attempt
<1>6. NeverOvershoots'
  BY <1>1 DEF NeverOvershoots
<1>7. CapHolds'
  <2>1. IsFiniteSet(resized) /\ IsFiniteSet(resized')
    BY <1>3, ControllerAssumption, FS_Subset DEF TypeOK
  <2>2. Cardinality(resized) <= Cardinality(resized')
    BY <1>2, <2>1, FS_Subset
  <2>3. Cardinality(resized) \in Nat /\ Cardinality(resized') \in Nat
    BY <2>1, FS_CardinalityType
  <2> QED
    BY <2>2, <2>3 DEF CapHolds, TypeOK
<1>8. PlanInv'
  BY <1>1, <1>2, AttemptPlan DEF PlanInv, Attempt, Shrinks
<1> QED
  BY <1>3, <1>4, <1>5, <1>6, <1>7, <1>8

\* The tick ends when its plan is empty.
LEMMA EndTickInv == Inv /\ EndTick => Inv'
<1> SUFFICES ASSUME Inv, EndTick PROVE Inv'
  OBVIOUS
<1> USE DEF Inv, EndTick, tick_vars, history
<1>1. TypeOK'
  BY DEF TypeOK
<1>2. OwnershipAgrees' /\ RegistryInv'
  BY DEF OwnershipAgrees, RegistryInv
<1>3. ScaledAreManaged' /\ NeverOvershoots' /\ CapHolds'
  BY DEF ScaledAreManaged, NeverOvershoots, CapHolds
<1>4. plan = NoPlan
  BY DEF Planned, NoPlan, TypeOK
<1>5. PlanInv'
  BY <1>4 DEF PlanInv, Planned, Shrinks, NoPlan
<1> QED
  BY <1>1, <1>2, <1>3, <1>5

-----------------------------------------------------------------------------
(* Operators and the world *)

\* A manual request changes sizes and stickiness, never a class.
LEMMA ManualInv ==
  ASSUME Inv, NEW asked \in SUBSET instances, NEW done \in SUBSET asked,
         NEW threads \in 1 .. MaxPool, NEW sticky \in BOOLEAN,
         ManualSet(asked, done, threads, sticky)
  PROVE  Inv'
<1> USE DEF Inv, ManualSet, tick_vars, history
<1>1. /\ status' \in [VMs -> Statuses]
      /\ \A w \in VMs : status'[w].class = status[w].class
      /\ \A w \in VMs \ instances : status'[w] = status[w]
  <2> DEFINE set(w) == [status[w] EXCEPT !.thread_count = threads, !.sticky = sticky]
  <2>1. \A w \in VMs : status[w] \in Statuses
    BY DEF TypeOK
  <2>2. status' = [w \in VMs |-> IF w \in done THEN set(w) ELSE status[w]]
    OBVIOUS
  <2>3. done \subseteq instances
    OBVIOUS
  <2> HIDE DEF ManualSet, Inv
  <2>4. ASSUME NEW w \in VMs PROVE set(w) \in Statuses /\ set(w).class = status[w].class
    <3>1. status[w] \in Statuses /\ threads \in 0 .. MaxPool
      BY <2>1, BoundsAssumption
    <3> QED
      BY <3>1, ManualUpdate, Zenon
  <2> HIDE DEF set
  <2> QED
    BY <2>1, <2>2, <2>3, <2>4
<1>2. pool' \in [VMs -> 0 .. MaxPool]
  <2> DEFINE called == {w \in asked \cap Running : threads <= status[w].vcpu_count}
  <2>1. PICK after \in [called -> 1 .. MaxPool] :
          pool' = [w \in VMs |-> IF w \in called THEN after[w] ELSE pool[w]]
    OBVIOUS
  <2>2. pool \in [VMs -> 0 .. MaxPool]
    BY DEF TypeOK
  <2> HIDE DEF called, ManualSet, Inv
  <2>3. \A w \in called : after[w] \in 0 .. MaxPool
    BY <2>1, BoundsAssumption
  <2> QED
    BY <2>1, <2>2, <2>3
<1>3. TypeOK'
  BY <1>1, <1>2 DEF TypeOK
<1>4. OwnershipAgrees' /\ RegistryInv'
  BY <1>1 DEF OwnershipAgrees, RegistryInv, TypeOK
<1>5. ScaledAreManaged' /\ NeverOvershoots' /\ CapHolds'
  BY DEF ScaledAreManaged, NeverOvershoots, CapHolds
<1>6. PlanInv'
  BY DEF PlanInv, Planned, NoPlan
<1> QED
  BY <1>3, <1>4, <1>5, <1>6

\* Time runs cooldowns down.
LEMMA TimePassesInv == Inv /\ TimePasses => Inv'
<1> SUFFICES ASSUME Inv, TimePasses PROVE Inv'
  OBVIOUS
<1> USE DEF Inv, TimePasses, tick_vars, history
<1>1. /\ status' \in [VMs -> Statuses]
      /\ \A w \in VMs : status'[w].class = status[w].class
  BY ControllerAssumption DEF TypeOK, Statuses
<1>2. \A w \in VMs \ instances : status'[w] = FreshStatus
  BY DEF RegistryInv, FreshStatus
<1>3. TypeOK'
  BY <1>1 DEF TypeOK
<1>4. OwnershipAgrees' /\ RegistryInv'
  BY <1>1, <1>2 DEF OwnershipAgrees, RegistryInv, TypeOK
<1>5. ScaledAreManaged' /\ NeverOvershoots' /\ CapHolds'
  BY DEF ScaledAreManaged, NeverOvershoots, CapHolds
<1>6. PlanInv'
  BY DEF PlanInv, Planned, NoPlan
<1> QED
  BY <1>3, <1>4, <1>5, <1>6

\* VMs come and go and are resized without the daemon's knowledge.
LEMMA WorldInv ==
  ASSUME Inv, NEW v \in VMs, VmStops(v) \/ VmStarts(v) \/ VmResized(v)
  PROVE  Inv'
<1> USE DEF Inv, VmStops, VmStarts, VmResized, tick_vars, history
<1>1. pool' \in [VMs -> 0 .. MaxPool]
  BY BoundsAssumption DEF TypeOK
<1>2. TypeOK'
  BY <1>1 DEF TypeOK
<1>3. OwnershipAgrees' /\ RegistryInv'
  BY DEF OwnershipAgrees, RegistryInv
<1>4. ScaledAreManaged' /\ NeverOvershoots' /\ CapHolds'
  BY DEF ScaledAreManaged, NeverOvershoots, CapHolds
<1>5. PlanInv'
  BY DEF PlanInv, Planned, Shrinks
<1> QED
  BY <1>2, <1>3, <1>4, <1>5

-----------------------------------------------------------------------------
\* Every step preserves the invariant.
LEMMA NextInv == Inv /\ [Next]_vars => Inv'
<1> SUFFICES ASSUME Inv, [Next]_vars PROVE Inv'
  OBVIOUS
<1>1. CASE Daemon
  <2>1. CASE Discovery
    BY <2>1, SyncInv DEF Discovery, Running
  <2>2. CASE BeginTick
    BY <2>2, RefreshInv DEF BeginTick
  <2>3. CASE Evaluation
    BY <2>3, EvaluateInv DEF Evaluation
  <2>4. CASE Apply
    BY <2>4, SkippedInv, DryRunInv, SuccessInv, FailedInv DEF Apply
  <2> QED
    BY <1>1, <2>1, <2>2, <2>3, <2>4, StartInv, PersistInv, SaveInv, EndTickInv DEF Daemon
<1>2. CASE Environment
  <2>1. CASE SetThreadCount
    <3>1. PICK v \in instances, threads \in 1 .. MaxPool, sticky \in BOOLEAN :
            \E done \in SUBSET {v} : ManualSet({v}, done, threads, sticky)
      BY <2>1 DEF SetThreadCount
    <3> QED
      BY <3>1, ManualInv
  <2>2. CASE SetAllThreadCounts
    BY <2>2, ManualInv DEF SetAllThreadCounts
  <2>3. CASE \E v \in VMs : VmStops(v) \/ VmStarts(v) \/ VmResized(v)
    BY <2>3, WorldInv
  <2> QED
    BY <1>2, <2>1, <2>2, <2>3, WatchEventInv, ExitInv, TimePassesInv DEF Environment
<1>3. CASE UNCHANGED vars
  <2> USE <1>3 DEF Inv, vars, tick_vars, history
  <2>1. TypeOK'
    BY DEF TypeOK
  <2>2. OwnershipAgrees' /\ RegistryInv'
    BY DEF OwnershipAgrees, RegistryInv
  <2>3. ScaledAreManaged' /\ NeverOvershoots' /\ CapHolds'
    BY DEF ScaledAreManaged, NeverOvershoots, CapHolds
  <2>4. PlanInv'
    BY DEF PlanInv, Planned, Shrinks
  <2> QED
    BY <2>1, <2>2, <2>3, <2>4
<1> QED
  BY <1>1, <1>2, <1>3 DEF Next

\* The inductive invariant holds in every reachable state of the daemon, its
\* restarts included.
THEOREM Invariance == Spec => []Inv
  BY InitInv, NextInv, PTL DEF Spec

\* The variables keep their types.
THEOREM TypeCorrect == Spec => []TypeOK
<1>1. Inv => TypeOK
  BY DEF Inv
<1> QED
  BY <1>1, Invariance, PTL

\* persist_new_classifications never meets a contradiction, so it never ends
\* the daemon.
THEOREM OwnershipNeverConflicts == Spec => []OwnershipAgrees
<1>1. Inv => OwnershipAgrees
  BY DEF Inv
<1> QED
  BY <1>1, Invariance, PTL

\* No tick lets the fleet grow before it has shrunk what it means to shrink.
THEOREM TicksNeverOvershoot == Spec => []NeverOvershoots
<1>1. Inv => NeverOvershoots
  BY DEF Inv
<1> QED
  BY <1>1, Invariance, PTL

\* The cap on adjustments is kept, whatever the fleet and the plan.
THEOREM CapIsKept == Spec => []CapHolds
<1>1. Inv => CapHolds
  BY DEF Inv
<1> QED
  BY <1>1, Invariance, PTL

\* Outside its memory the daemon does two things: it adds VMs without a class
\* to the file, and it scales VMs the file holds as managed.
LEMMA PromiseStep ==
  ASSUME Inv, [Next]_vars
  PROVE  [Promise!Next]_(Promise!promised)
<1> USE DEF Promise!Next, Promise!promised
<1>1. CASE Save
  <2> DEFINE mine == ownership.managed_vms \ disk.managed_vms
             theirs == ownership.unmanaged_vms \ disk.unmanaged_vms
  <2>1. mine \in SUBSET VMs /\ theirs \in SUBSET VMs
    BY DEF Inv, TypeOK, Registries
  <2>2. Promise!Classify(mine, theirs)
    BY <1>1 DEF Save, history, Inv, OwnershipAgrees, Promise!Classify
  <2> QED
    BY <2>1, <2>2
<1>2. ASSUME NEW v \in VMs, ApplySuccess(v) PROVE Promise!Scale(v)
  <2>1. pc = "apply" /\ Goes(v) /\ disk' = disk
    BY <1>2 DEF ApplySuccess, Attempt, Actuates
  <2> QED
    BY <1>2, <2>1, GoesManaged DEF ApplySuccess, Promise!Scale
<1>3. ASSUME NEW v \in VMs, ApplyFailed(v) PROVE Promise!Scale(v) \/ UNCHANGED Promise!promised
  <2>1. pc = "apply" /\ Goes(v) /\ disk' = disk /\ scaled' \in {scaled, scaled \cup {v}}
    BY <1>3 DEF ApplyFailed, Attempt, Actuates
  <2> QED
    BY <2>1, GoesManaged DEF Promise!Scale
<1>4. CASE UNCHANGED <<disk, scaled>>
  BY <1>4
<1>5. Save \/ (\E v \in VMs : ApplySuccess(v) \/ ApplyFailed(v)) \/ UNCHANGED <<disk, scaled>>
  <2>1. ASSUME NEW v \in VMs, ApplySkipped(v) \/ ApplyDryRun(v) PROVE UNCHANGED <<disk, scaled>>
    BY <2>1 DEF ApplySkipped, ApplyDryRun, Attempt
  <2>2. CASE Daemon
    BY <2>1, <2>2 DEF Daemon, Start, Discovery, Sync, BeginTick, Refresh, Persist, Evaluation,
                      EvaluateFleet, Apply, EndTick, history
  <2>3. CASE Environment
    BY <2>3 DEF Environment, WatchEvent, SetThreadCount, SetAllThreadCounts, ManualSet, Exit,
                TimePasses, VmStops, VmStarts, VmResized, history
  <2>4. CASE UNCHANGED vars
    BY <2>4 DEF vars, history
  <2> QED
    BY <2>2, <2>3, <2>4 DEF Next
<1> QED
  BY <1>1, <1>2, <1>3, <1>4, <1>5

\* The control loop implements the promise of the ownership registry: classes
\* are for good, and only VMs on disk as managed are ever scaled.
THEOREM PromiseKept == Spec => KeepsPromise
<1>1. Init => Promise!Init
  BY DEF Init, EmptyOwnership, Promise!Init
<1> QED
  BY <1>1, PromiseStep, Invariance, PTL DEF Spec, KeepsPromise, Promise!Spec

\* A VM the control loop ever touched is on disk as managed.
THEOREM ScaledVmsAreManaged == Spec => []ScaledAreManaged
<1>1. Inv => ScaledAreManaged
  BY DEF Inv
<1> QED
  BY <1>1, Invariance, PTL
=============================================================================
