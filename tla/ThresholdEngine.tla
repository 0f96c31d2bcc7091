--------------------------- MODULE ThresholdEngine ---------------------------
(***************************************************************************)
(* The threshold engine's life with one VM: the controller evaluates it    *)
(* once per poll and reports what became of the action it returned.  VMs   *)
(* do not share engine state, so one VM says everything about the engine.  *)
(*                                                                         *)
(* The environment is the rest of the daemon: the action may be applied,   *)
(* dry-run, or come to nothing (blocked by a guard, refused by the         *)
(* backend, skipped by the per-poll cap), the pool may be resized by an    *)
(* operator or from outside between polls, and the VM may be dropped and   *)
(* found again.                                                            *)
(***************************************************************************)
EXTENDS ThresholdPolicy

CONSTANTS
  Utils,    \* utilisations a refresh may report, in percent
  Rates     \* IOPS a window may have measured

ASSUME EngineAssumption ==
  /\ Utils \subseteq 0 .. 100
  /\ Rates \subseteq Nat
  /\ 0 \in Rates

VARIABLES
  state,         \* the engine's InstanceState
  thread_count,  \* the pool size the controller's status reports
  proposal,      \* the action evaluate returned, until its outcome
  \* History, read by the properties only
  restore,       \* pool size before the last accepted scale-up or -down
  since_revert,  \* evaluations of the policy since the last failed scale-up
  low_run,       \* latest run of consecutive shrinkable evaluations
  last_util      \* utilisation the last evaluation saw

history == <<restore, since_revert, low_run, last_util>>
vars == <<state, thread_count, proposal, history>>

\* History counters stop here: no wait the policy imposes is longer.
HistoryCap == U32Max + 1
Count(n) == Lesser(n + 1, HistoryCap)

Init ==
  /\ state = FreshState
  /\ thread_count \in 1 .. MaxPool
  /\ proposal = NoAction
  /\ restore = thread_count
  /\ since_revert = HistoryCap
  /\ low_run = 0
  /\ last_util = 0

Evaluate(o) ==
  /\ proposal = NoAction
  /\ state' = EvaluatedState(state, o)
  /\ proposal' = EvaluatedAction(state, o)
  /\ last_util' = o.util
  /\ UNCHANGED <<thread_count, restore>>
  /\ IF Validating(state)
       THEN /\ since_revert' = IF /\ proposal'.kind = "revert"
                                   /\ state.pending_validation.action = "up"
                                 THEN 0 ELSE since_revert
            /\ UNCHANGED low_run
       ELSE /\ since_revert' = Count(since_revert)
            /\ low_run' = IF scale_down_target(o.util, o.thread_count) < o.thread_count
                            THEN Count(low_run) ELSE 0

Observations ==
  [util : Utils, throttled : BOOLEAN, rate : Rates, thread_count : {thread_count}]

Poll == \E o \in Observations : Evaluate(o)

\* The controller's hard limits stand between a proposal and the backend.
Accept(pool) ==
  /\ proposal # NoAction
  /\ proposal.target \in MinThreadCount .. MaxThreadCount
  /\ state' = AppliedState(state, proposal, thread_count)
  /\ thread_count' = pool
  /\ proposal' = NoAction
  /\ IF proposal.kind \in {"up", "down"}
       THEN restore' = thread_count /\ low_run' = 0
       ELSE UNCHANGED <<restore, low_run>>
  /\ UNCHANGED <<since_revert, last_util>>

Applied == Accept(proposal.target)   \* AppliedOutcome::Success
DryRun  == Accept(thread_count)      \* AppliedOutcome::DryRun

\* Blocked, Failed, or never attempted
NotApplied ==
  /\ proposal # NoAction
  /\ proposal' = NoAction
  /\ UNCHANGED <<state, thread_count, history>>

\* A manual or external resize, seen by the next refresh
Resized ==
  /\ proposal = NoAction
  /\ thread_count' \in 1 .. MaxPool
  /\ UNCHANGED <<state, proposal, history>>

\* on_instance_removed followed by on_instance_added
Readded ==
  /\ proposal = NoAction
  /\ state' = FreshState
  /\ thread_count' \in 1 .. MaxPool
  /\ restore' = thread_count'
  /\ since_revert' = HistoryCap
  /\ low_run' = 0
  /\ UNCHANGED <<proposal, last_util>>

Next == Poll \/ Applied \/ DryRun \/ NotApplied \/ Resized \/ Readded

Spec == Init /\ [][Next]_vars

\* The daemon's interval timer keeps polling, and every action it proposes is
\* settled within the same tick.  A VM that keeps being dropped and found
\* again never has its action judged: the liveness properties say so.
FairSpec == Spec /\ WF_vars(Poll) /\ WF_vars(Applied \/ DryRun \/ NotApplied)

-----------------------------------------------------------------------------
(* Properties *)

HoldStates ==
  {NoHold} \cup [phase : {"grace", "recovery"}, polls_remaining : U32]

PendingStates ==
  [action : {"none", "up", "down"}, baseline_thread_count : U32,
   baseline_iops : Nat, polls_remaining : U32]

InstanceStates ==
  [low_util_polls : U32, pending_validation : PendingStates,
   baseline_window_started : BOOLEAN, current_baseline_iops : Nat,
   post_revert_up_hold : HoldStates,
   consecutive_failed_ups : U32, consecutive_failed_downs : U32]

\* Every counter of InstanceState stays a u32 (saturation and the wrapping
\* low-utilisation counter included) and every proposal names a real pool.
TypeOK ==
  /\ state \in InstanceStates
  /\ thread_count \in 1 .. MaxPool
  /\ proposal \in ScaleActionSet
  /\ restore \in 1 .. MaxPool
  /\ since_revert \in 0 .. HistoryCap
  /\ low_run \in 0 .. HistoryCap
  /\ last_util \in 0 .. 100

\* While an applied action is being measured there is no post-revert hold
\* counting down and no scale-down evidence building up: the measurement, the
\* hold and the sustain run never overlap, whichever order reverts, downs
\* during a hold and re-added VMs come in.
MeasuringExcludesHold ==
  Validating(state) =>
    /\ state.post_revert_up_hold = NoHold
    /\ state.low_util_polls = 0
    /\ proposal = NoAction

\* Evaluations a failed scale-up keeps the next one waiting, grace and
\* recovery together, after f consecutive failures.
HoldPolls(f) ==
  backoff_polls(SaturatingAdd(PostRevertUpGrace, PostRevertUpRecovery),
                f - 1, PostRevertUpBackoffMax)

\* What is left of a hold and what has been waited always add up to the
\* backed-off hold, through every step of grace and recovery and however many
\* outcomes, resizes and re-added VMs come in between; once a hold has run out
\* it has been waited out in full.
HoldAccounting ==
  LET hold == state.post_revert_up_hold
      owed == HoldPolls(state.consecutive_failed_ups)
  IN  /\ hold.phase = "grace" =>
           since_revert + hold.polls_remaining + PostRevertUpRecovery = owed
      /\ hold.phase = "recovery" =>
           /\ hold.polls_remaining > 0
           /\ since_revert + hold.polls_remaining = owed + 1
      /\ hold.phase = "none" /\ state.consecutive_failed_ups > 0 =>
           since_revert > owed

\* A scale-up is not proposed again until the whole backed-off hold has gone
\* by, counted in evaluations of this VM, however grace and recovery split it
\* and however many failures came before (an applied scale-down lifts it).
UpWaitsOutHold ==
  proposal.kind = "up" /\ state.consecutive_failed_ups > 0
    => since_revert > HoldPolls(state.consecutive_failed_ups)

\* A scale-down is proposed only at the end of an unbroken run of shrinkable
\* evaluations as long as the backed-off sustain time, all of them after the
\* last applied action: evidence is never used twice.
DownIsSustained ==
  proposal.kind = "down" =>
    low_run >= scale_down_sustain_polls(state.consecutive_failed_downs)

\* README: the hold "doubles with each consecutive failed scale-up, up to
\* post_revert_up_backoff_max_secs", the sustain time is "doubled once per
\* consecutive failure, up to scale_down_backoff_max_secs", and a zero cap
\* disables the backoff.  The saturating u32 arithmetic, and taking the
\* recovery time out of the hold to get the grace time, compute just that for
\* every failure count the counters can hold.
Doubled(base, n, cap) ==
  IF cap = 0 THEN base ELSE Lesser(base * 2 ^ n, Greater(base, cap))

BackoffDoubles ==
  /\ state.post_revert_up_hold.phase = "grace" /\ since_revert = 0 =>
       state.post_revert_up_hold.polls_remaining + PostRevertUpRecovery =
         Doubled(SaturatingAdd(PostRevertUpGrace, PostRevertUpRecovery),
                 state.consecutive_failed_ups - 1, PostRevertUpBackoffMax)
  /\ proposal.kind = "down" =>
       low_run >= Doubled(ScaleDownSustain, state.consecutive_failed_downs,
                          ScaleDownBackoffMax)

\* A revert asks for the pool size that was in place just before the action
\* being judged, even when the pool was resized by hand in between.
RevertRestores ==
  /\ proposal.kind = "revert" => proposal.target = restore
  /\ Validating(state) => state.pending_validation.baseline_thread_count = restore

\* Shrinking never recreates saturation: the load seen when a scale-down is
\* proposed fits the smaller pool at the scale-up threshold, and the step
\* limit and the minimum are respected.
DownCarriesLoad ==
  proposal.kind = "down" =>
    /\ last_util * thread_count <= ScaleUpThreshold * proposal.target
    /\ proposal.target >= MinThreadCount
    /\ MaxScaleDownStep > 0 => thread_count - proposal.target <= MaxScaleDownStep

\* A failed scale-up keeps the pool from growing for the promised hold, not
\* for ever: every hold ends, and every applied action is judged.
EveryHoldEnds ==
  /\ state.post_revert_up_hold # NoHold ~> state.post_revert_up_hold = NoHold
  /\ Validating(state) ~> ~Validating(state)

\* The inductive invariant behind the safety properties.
Inv ==
  /\ TypeOK
  /\ MeasuringExcludesHold
  /\ HoldAccounting
  /\ RevertRestores
  /\ DownIsSustained
  /\ state.low_util_polls <= low_run
  /\ proposal.kind = "up" => state.post_revert_up_hold = NoHold
=============================================================================
