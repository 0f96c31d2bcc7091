----------------------------- MODULE Controller -----------------------------
(***************************************************************************)
(* The daemon's control loop (src/controller.rs, src/daemon.rs,            *)
(* src/state.rs) over a fleet of VMs, with any scaling engine.             *)
(*                                                                         *)
(* The daemon serves one event at a time: a poll (tick, then discovery), a *)
(* watched directory changing (discovery) or a D-Bus request.  A poll is   *)
(* several steps here, because VMs stop, start and are resized, backend    *)
(* calls fail and the process dies in the middle of it:                    *)
(*                                                                         *)
(*   idle -> persist [-> save] -> evaluate -> apply ... -> sync -> idle    *)
(*                                                                         *)
(* pc = "down" is the daemon not running; only `disk` outlives it.         *)
(*                                                                         *)
(* An operator named Slip... is a plausible mistake in the definition      *)
(* below it, kept to show that a property notices it.                      *)
(***************************************************************************)
EXTENDS ScaleActions, Resizing, FiniteSets

CONSTANTS
  VMs,
  VcpuCount,      \* [VMs -> 1 .. MaxPool]: guest vCPUs the backend reports
  ManagedPools,   \* initial pool sizes the backend leaves to the controller
  AdjustCap,      \* max_instances_adjusted_per_poll, 0 means no limit
  CooldownSpan,   \* cooldown_secs, in units of time
  FleetAware,     \* the engine overrides evaluate_fleet and sees sticky VMs too
  DryRunMode,     \* dry_run
  MaxExits        \* bound: how often the daemon dies

ASSUME ControllerAssumption ==
  /\ IsFiniteSet(VMs)
  /\ VcpuCount \in [VMs -> 1 .. MaxPool]
  /\ ManagedPools \subseteq 1 .. MaxPool
  /\ AdjustCap \in Nat
  /\ CooldownSpan \in Nat
  /\ FleetAware \in BOOLEAN
  /\ DryRunMode \in BOOLEAN
  /\ MaxExits \in Nat

VARIABLES
  \* the hypervisor's side
  pool,       \* [VMs -> 0 .. MaxPool]: workers of the VM's process, 0: not running
  \* the daemon's memory
  pc,
  instances,  \* the tracked VMs
  status,     \* [VMs -> Status], FreshStatus when not tracked
  ownership,  \* vm_ownership: the registry loaded at start
  hot,        \* a CPU ceiling is configured and the host's use has reached it
  plan,       \* [VMs -> ScaleActionSet]: decisions not attempted yet
  adjusted,   \* VMs adjusted in this tick
  \* the file below /run
  disk,       \* the saved registry
  \* history, read by the properties only
  exits,      \* how often the daemon has died
  scaled,     \* VMs whose pool the control loop has ever changed
  resized,    \* VMs whose pool the current tick has changed
  delta,      \* workers the current tick has added to the fleet so far
  peak        \* the largest delta the current tick has seen

tick_vars == <<hot, plan, adjusted>>
history == <<exits, scaled, resized, delta, peak>>
vars == <<pool, pc, instances, status, ownership, tick_vars, disk, history>>

-----------------------------------------------------------------------------
(* VmOwnership *)

EmptyOwnership == [managed_vms |-> {}, unmanaged_vms |-> {}]

classification(own, v) ==
  IF v \in own.managed_vms THEN "managed"
  ELSE IF v \in own.unmanaged_vms THEN "unmanaged"
  ELSE "none"

SlipManagedOnly(own, fleet, class) ==
  [own EXCEPT !.managed_vms = @ \cup {v \in fleet : class[v] = "managed"}]

\* persist_new_classifications: every classified VM of the fleet the registry
\* does not hold yet is recorded in it
Recorded(own, fleet, class) ==
  LET new == {v \in fleet : class[v] # "none" /\ classification(own, v) = "none"}
  IN  [managed_vms   |-> own.managed_vms \cup {v \in new : class[v] = "managed"},
       unmanaged_vms |-> own.unmanaged_vms \cup {v \in new : class[v] = "unmanaged"}]

-----------------------------------------------------------------------------
(* InstanceStatus, as far as control reads it *)

\* cooldown is the time left until cooldown_until, 0 once it is reached or unset
FreshStatus == [thread_count |-> 0, vcpu_count |-> 0, class |-> "none",
                sticky |-> FALSE, cooldown |-> 0]

SlipForgetsRegistry(v) == FreshStatus

\* An instance sync_instances has just inserted
Adopted(v) == [FreshStatus EXCEPT !.class = classification(ownership, v)]

\* apply_thread_pool_snapshot: the first snapshot classifies the VM
Classified(v) ==
  IF status[v].class # "none" THEN status[v].class
  ELSE IF pool[v] \in ManagedPools THEN "managed" ELSE "unmanaged"

\* The size is the process's own.  A QEMU that has no metrics command reports the
\* size its client remembers; a pool resized right after the refresh (VmResized)
\* is as far from what the controller knows as that.
Refreshed(v) ==
  [status[v] EXCEPT !.thread_count = pool[v],
                    !.vcpu_count = VcpuCount[v],
                    !.class = Classified(v)]

Running == {v \in VMs : pool[v] > 0}
NoPlan == [v \in VMs |-> NoAction]

-----------------------------------------------------------------------------
Init ==
  /\ pool \in [VMs -> 0 .. MaxPool]
  /\ pc = "down"
  /\ instances = {}
  /\ status = [v \in VMs |-> FreshStatus]
  /\ ownership = EmptyOwnership
  /\ hot = FALSE
  /\ plan = NoPlan
  /\ adjusted = 0
  /\ disk = EmptyOwnership
  /\ exits = 0
  /\ scaled = {}
  /\ resized = {}
  /\ delta = 0
  /\ peak = 0

\* Controller::new loads the registry; the initial discovery follows.
Start ==
  /\ pc = "down"
  /\ pc' = "sync"
  /\ ownership' = disk
  /\ UNCHANGED <<pool, instances, status, tick_vars, disk, history>>

\* sync_instances(discover_all()): any running VM may be missing from the
\* discovery, when its backend could not be asked.  A tracked VM keeps its
\* record and its client, whatever became of the process meanwhile.
Sync(found) ==
  /\ pc = "sync"
  /\ pc' = "idle"
  /\ instances' = found
  /\ status' = [v \in VMs |-> IF v \notin found THEN FreshStatus
                              ELSE IF v \in instances THEN status[v]
                              ELSE Adopted(v)]
  /\ UNCHANGED <<pool, ownership, tick_vars, disk, history>>

\* The inotify arm of the select loop
WatchEvent ==
  /\ pc = "idle"
  /\ pc' = "sync"
  /\ UNCHANGED <<pool, instances, status, ownership, tick_vars, disk, history>>

\* tick: the host CPU sample, then every VM refreshed; a VM whose refresh
\* fails is dropped with its status and its engine state.  A stopped VM fails,
\* and so may any other.
Refresh(failed, host_hot) ==
  /\ pc = "idle"
  /\ pc' = "persist"
  /\ instances \ Running \subseteq failed
  /\ instances' = instances \ failed
  /\ status' = [v \in VMs |-> IF v \in instances \ failed THEN Refreshed(v) ELSE FreshStatus]
  /\ hot' = host_hot
  /\ adjusted' = 0
  /\ resized' = {}
  /\ delta' = 0
  /\ peak' = 0
  /\ UNCHANGED <<pool, ownership, plan, disk, exits, scaled>>

SlipSaveLater ==
  /\ pc = "persist"
  /\ pc' = "evaluate"
  /\ ownership' = Recorded(ownership, instances, [v \in VMs |-> status[v].class])
  /\ UNCHANGED <<pool, instances, status, tick_vars, disk, history>>

\* persist_new_classifications, up to the save.  Its two error returns (a
\* changed classification, a VM recorded twice) are what OwnershipAgrees
\* rules out.
Persist ==
  /\ pc = "persist"
  /\ ownership' = Recorded(ownership, instances, [v \in VMs |-> status[v].class])
  /\ pc' = IF ownership' = ownership THEN "evaluate" ELSE "save"
  /\ UNCHANGED <<pool, instances, status, tick_vars, disk, history>>

\* VmStateStore::save: the temporary file is renamed over the registry
Save ==
  /\ pc = "save"
  /\ pc' = "evaluate"
  /\ disk' = ownership
  /\ UNCHANGED <<pool, instances, status, ownership, tick_vars, history>>

SlipTornFile ==
  /\ pc = "save"
  /\ exits < MaxExits
  /\ exits' = exits + 1
  /\ pc' = "down"
  /\ instances' = {}
  /\ status' = [v \in VMs |-> FreshStatus]
  /\ disk' = EmptyOwnership
  /\ ownership' = EmptyOwnership
  /\ plan' = NoPlan
  /\ adjusted' = 0
  /\ resized' = {}
  /\ delta' = 0
  /\ peak' = 0
  /\ UNCHANGED <<pool, hot, scaled>>

\* The process dies, is stopped, or an error (a failed save, a broken watch)
\* ends run(); it is started again
Exit ==
  /\ pc # "down"
  /\ exits < MaxExits
  /\ exits' = exits + 1
  /\ pc' = "down"
  /\ instances' = {}
  /\ status' = [v \in VMs |-> FreshStatus]
  /\ ownership' = EmptyOwnership
  /\ hot' = FALSE
  /\ plan' = NoPlan
  /\ adjusted' = 0
  /\ resized' = {}
  /\ delta' = 0
  /\ peak' = 0
  /\ UNCHANGED <<pool, disk, scaled>>

\* evaluate_fleet: the default one does not ask about sticky VMs
Evaluated == {v \in instances : FleetAware \/ ~status[v].sticky}

Decisions == {d \in [VMs -> ScaleActionSet] : \A v \in VMs \ Evaluated : d[v] = NoAction}

\* A decision without a target, or for the size the pool already has, is not
\* planned.

EvaluateFleet(decisions) ==
  /\ pc = "evaluate"
  /\ pc' = "apply"
  /\ plan' = [v \in VMs |-> IF decisions[v].target = status[v].thread_count
                              THEN NoAction ELSE decisions[v]]
  /\ UNCHANGED <<pool, instances, status, ownership, hot, adjusted, disk, history>>

SlipAnyOrder(v) == plan[v] # NoAction

\* The plan is sorted: whatever shrinks a pool goes before whatever grows one.
\* Among equals the order is that of a hash map.
Planned == {v \in VMs : plan[v] # NoAction}
Shrinks(v) == plan[v].target < status[v].thread_count
NextInPlan(v) ==
  /\ v \in Planned
  /\ Shrinks(v) \/ \A w \in Planned : ~Shrinks(w)

SlipOneTooMany == AdjustCap > 0 /\ adjusted > AdjustCap
CapReached == AdjustCap > 0 /\ adjusted >= AdjustCap

\* The guards of apply_engine_decision, in their order
BlockedReason(v) ==
  LET action == plan[v]
      s      == status[v]
  IN  CASE s.sticky -> "ManualOverride"
        [] ~s.sticky /\ s.class # "managed" -> "UnmanagedVm"
        [] ~s.sticky /\ s.class = "managed" ->
             IF action.target < MinThreadCount THEN "TargetBelowMinimum"
             ELSE IF action.target > MaxThreadCount THEN "TargetExceedsMaximum"
             ELSE IF action.target > s.vcpu_count THEN "TargetExceedsVcpuCount"
             ELSE IF action.kind \in {"up", "down"} /\ s.cooldown > 0 THEN "Cooldown"
             ELSE IF /\ action.target > s.thread_count
                     /\ action.kind = "up" /\ hot THEN "HostCpuCeiling"
             ELSE "none"

Attempt(v) ==
  /\ pc = "apply"
  /\ NextInPlan(v)
  /\ plan' = [plan EXCEPT ![v] = NoAction]
  /\ UNCHANGED <<pc, instances, ownership, hot, disk, exits>>

\* The entry is skipped: the cap is reached, or a guard blocks it
ApplySkipped(v) ==
  /\ Attempt(v)
  /\ CapReached \/ BlockedReason(v) # "none"
  /\ UNCHANGED <<pool, status, adjusted, scaled, resized, delta, peak>>

Goes(v) == ~CapReached /\ BlockedReason(v) = "none"

Actuates(v) == Goes(v) /\ ~DryRunMode

SlipExtendsCooldown(v) ==
  /\ Attempt(v)
  /\ Goes(v)
  /\ DryRunMode
  /\ status' = [status EXCEPT ![v].cooldown = @ + CooldownSpan]
  /\ adjusted' = adjusted + 1
  /\ UNCHANGED <<pool, scaled, resized, delta, peak>>

\* A dry run does what a success does but for the call: the cooldown starts anew
\* and the VM counts as adjusted
ApplyDryRun(v) ==
  /\ Attempt(v)
  /\ Goes(v)
  /\ DryRunMode
  /\ status' = [status EXCEPT ![v].cooldown = CooldownSpan]
  /\ adjusted' = adjusted + 1
  /\ UNCHANGED <<pool, scaled, resized, delta, peak>>

\* What set_thread_count(target) may leave behind, on success and on failure.
\* The client's own idea of the pool is the size last refreshed, unless a
\* manual call failed since: then it knows how far that call came.
Reached(v, target) ==
  {n \in 1 .. MaxPool : n \in {target, Landed(pool[v], status[v].thread_count, target)}}
PartWay(v, target) ==
  {n \in 0 .. MaxPool :
     \/ n = pool[v]
     \/ /\ n > 0 /\ pool[v] > 0
        /\ \E landed \in Reached(v, target) : n \in OnTheWay(pool[v], landed)}

MaxOf(a, b) == IF a >= b THEN a ELSE b

\* set_thread_count succeeded
ApplySuccess(v) ==
  /\ Attempt(v)
  /\ Actuates(v)
  /\ v \in Running
  /\ \E n \in Reached(v, plan[v].target) : pool' = [pool EXCEPT ![v] = n]
  /\ status' = [status EXCEPT ![v].thread_count = plan[v].target,
                              ![v].cooldown = CooldownSpan]
  /\ adjusted' = adjusted + 1
  /\ scaled' = scaled \cup {v}
  /\ resized' = resized \cup {v}
  /\ delta' = delta + plan[v].target - status[v].thread_count
  /\ peak' = MaxOf(peak, delta')

\* set_thread_count failed: nothing is counted, and no cooldown starts
ApplyFailed(v) ==
  /\ Attempt(v)
  /\ Actuates(v)
  /\ \E n \in PartWay(v, plan[v].target) :
       /\ pool' = [pool EXCEPT ![v] = n]
       /\ scaled' = IF n = pool[v] THEN scaled ELSE scaled \cup {v}
       /\ resized' = IF n = pool[v] THEN resized ELSE resized \cup {v}
  /\ UNCHANGED <<status, adjusted, delta, peak>>

\* The tick is over; the poll goes on with a discovery
EndTick ==
  /\ pc = "apply"
  /\ Planned = {}
  /\ pc' = "sync"
  /\ UNCHANGED <<pool, instances, status, ownership, tick_vars, disk, history>>

-----------------------------------------------------------------------------
(* D-Bus requests that change state, served between polls *)

\* handle_set_thread_count for the VMs of `asked`.  An impossible count is
\* refused; the calls for the VMs of `done` succeed, the others fail part-way
ManualSet(asked, done, threads, sticky) ==
  LET called == {v \in asked \cap Running : threads <= status[v].vcpu_count}
  IN  /\ pc = "idle"
      /\ done \subseteq called
      /\ \E after \in [called -> 1 .. MaxPool] :
           /\ \A v \in called : after[v] \in IF v \in done THEN Reached(v, threads)
                                                       ELSE PartWay(v, threads)
           /\ pool' = [v \in VMs |-> IF v \in called THEN after[v] ELSE pool[v]]
      /\ status' = [v \in VMs |->
                      IF v \in done
                        THEN [status[v] EXCEPT !.thread_count = threads, !.sticky = sticky]
                        ELSE status[v]]
      /\ UNCHANGED <<pc, instances, ownership, tick_vars, disk, history>>

SetThreadCount ==
  \E v \in instances, threads \in 1 .. MaxPool, sticky \in BOOLEAN :
    \E done \in SUBSET {v} : ManualSet({v}, done, threads, sticky)

\* Every tracked VM is attempted; successes stand whatever else fails
SetAllThreadCounts ==
  \E done \in SUBSET instances, threads \in 1 .. MaxPool, sticky \in BOOLEAN :
    ManualSet(instances, done, threads, sticky)

-----------------------------------------------------------------------------
(* The world around the daemon *)

\* The code keeps cooldown_until and compares it with the clock; here what is
\* left of it shrinks as the clock advances
TimePasses ==
  /\ pc = "idle"
  /\ \E v \in VMs : status[v].cooldown > 0
  /\ status' = [v \in VMs |-> [status[v] EXCEPT !.cooldown = IF @ > 0 THEN @ - 1 ELSE 0]]
  /\ UNCHANGED <<pool, pc, instances, ownership, tick_vars, disk, history>>

VmStops(v) ==
  /\ pool[v] > 0
  /\ pool' = [pool EXCEPT ![v] = 0]
  /\ UNCHANGED <<pc, instances, status, ownership, tick_vars, disk, history>>

VmStarts(v) ==
  /\ pool[v] = 0
  /\ \E n \in 1 .. MaxPool : pool' = [pool EXCEPT ![v] = n]
  /\ UNCHANGED <<pc, instances, status, ownership, tick_vars, disk, history>>

\* The pool is resized behind the daemon's back
VmResized(v) ==
  /\ pool[v] > 0
  /\ \E n \in 1 .. MaxPool \ {pool[v]} : pool' = [pool EXCEPT ![v] = n]
  /\ UNCHANGED <<pc, instances, status, ownership, tick_vars, disk, history>>

-----------------------------------------------------------------------------
Discovery == \E found \in SUBSET Running : Sync(found)
BeginTick == \E failed \in SUBSET instances, h \in BOOLEAN : Refresh(failed, h)
Evaluation == \E d \in Decisions : EvaluateFleet(d)
Apply == \E v \in VMs :
           ApplySkipped(v) \/ ApplyDryRun(v) \/ ApplySuccess(v) \/ ApplyFailed(v)

Daemon ==
  \/ Start \/ Discovery \/ BeginTick \/ Persist \/ Save \/ Evaluation
  \/ Apply \/ EndTick

Environment ==
  \/ WatchEvent \/ SetThreadCount \/ SetAllThreadCounts \/ Exit \/ TimePasses
  \/ \E v \in VMs : VmStops(v) \/ VmStarts(v) \/ VmResized(v)

Next == Daemon \/ Environment

Spec == Init /\ [][Next]_vars

\* The poll timer, and systemd's restart, keep coming; select! picks among the
\* ready events at random, so no stream of watch events or requests starves
\* the timer for ever.
FairSpec == Spec /\ WF_vars(Daemon) /\ SF_vars(BeginTick)

-----------------------------------------------------------------------------
Classes == {"none", "managed", "unmanaged"}
Registries == [managed_vms : SUBSET VMs, unmanaged_vms : SUBSET VMs]
Statuses ==
  [thread_count : 0 .. MaxPool, vcpu_count : 0 .. MaxPool, class : Classes,
   sticky : BOOLEAN, cooldown : 0 .. CooldownSpan]

\* Every variable holds a value of its type; a cooldown never outlasts the
\* configured span, however often reverts, which no cooldown holds up, and dry
\* runs set it again.
TypeOK ==
  /\ pool \in [VMs -> 0 .. MaxPool]
  /\ pc \in {"down", "idle", "persist", "save", "evaluate", "apply", "sync"}
  /\ instances \subseteq VMs
  /\ status \in [VMs -> Statuses]
  /\ ownership \in Registries
  /\ hot \in BOOLEAN
  /\ plan \in [VMs -> ScaleActionSet]
  /\ adjusted \in Nat
  /\ disk \in Registries
  /\ exits \in Nat
  /\ scaled \subseteq VMs
  /\ resized \subseteq VMs
  /\ delta \in Int
  /\ peak \in Int

\* The registry never contradicts itself, what a tracked VM was classified as
\* or, once the daemon has read it, the file.  So the error returns of
\* persist_new_classifications, record and validate, each of which would end
\* the daemon, are unreachable: a VM whose pool was resized, or that came back
\* after a restart of the daemon or a failed refresh, is not classified anew.
OwnershipAgrees ==
  /\ \A own \in {disk, ownership} : own.managed_vms \cap own.unmanaged_vms = {}
  /\ pc # "down" => /\ disk.managed_vms \subseteq ownership.managed_vms
                    /\ disk.unmanaged_vms \subseteq ownership.unmanaged_vms
  /\ \A v \in instances : classification(ownership, v) \in {"none", status[v].class}

\* A VM whose pool the control loop ever changed, successfully or part-way, is
\* on disk as managed, even if the daemon died around the save.
ScaledAreManaged == scaled \subseteq disk.managed_vms

\* A tick gives workers back before it takes new ones: by the sizes it knows,
\* the fleet is at no moment of the tick larger than both what it was before
\* and what it is now.
NeverOvershoots == peak = MaxOf(0, delta)

\* Successful adjustments, each of which is a resized pool outside dry runs,
\* stay within max_instances_adjusted_per_poll.
CapHolds ==
  /\ AdjustCap > 0 => adjusted <= AdjustCap
  /\ ~DryRunMode => adjusted <= Cardinality(resized)

\* The control loop implements the promise of the ownership registry.
Promise ==
  INSTANCE OwnershipPromise WITH managed   <- disk.managed_vms,
                                 unmanaged <- disk.unmanaged_vms
KeepsPromise == Promise!Spec

\* A VM that stays tracked is at last on record for good.
TrackedIsClassified ==
  \A v \in VMs : <>[](v \in instances) => <>[](classification(disk, v) # "none")

-----------------------------------------------------------------------------
(* The inductive invariant of the proofs *)

\* Between a save and the next new classification the file is the registry, and
\* from the evaluation on every tracked VM is in it.
RegistryInv ==
  /\ pc = "down" => instances = {} /\ ownership = EmptyOwnership
  /\ pc \notin {"down", "save"} => ownership = disk
  /\ pc = "persist" => \A v \in instances : status[v].class # "none"
  /\ pc \in {"save", "evaluate", "apply"} =>
       \A v \in instances : /\ status[v].class # "none"
                            /\ classification(ownership, v) = status[v].class
  /\ \A v \in VMs \ instances : status[v] = FreshStatus

\* A plan exists during the apply step only, its VMs are not resized yet, and
\* once the fleet has grown nothing in it shrinks a pool.
PlanInv ==
  /\ pc # "apply" => plan = NoPlan
  /\ pc \in {"persist", "save", "evaluate"} => resized = {} /\ delta = 0
  /\ resized \cap Planned = {}
  /\ delta > 0 => \A v \in Planned : ~Shrinks(v)

Inv ==
  /\ TypeOK
  /\ OwnershipAgrees
  /\ ScaledAreManaged
  /\ NeverOvershoots
  /\ CapHolds
  /\ RegistryInv
  /\ PlanInv
=============================================================================
