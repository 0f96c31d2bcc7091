--------------------------- MODULE ThresholdPolicy ---------------------------
(***************************************************************************)
(* The threshold engine's per-VM policy (src/engines/threshold.rs) as      *)
(* operators: the poll arithmetic, the InstanceState record, and what      *)
(* evaluate() and on_applied() make of it.  The modules that give this     *)
(* state a life of its own extend this one.                                *)
(*                                                                         *)
(* An operator named Slip... is a plausible mistake in the definition      *)
(* below it, kept to show that a property notices it.                      *)
(*                                                                         *)
(* Percentages are integers (95 stands for 0.95) and comparisons are       *)
(* cross-multiplied, so no rounding is modelled.  An I/O rate is an        *)
(* observation: every evaluation reads exactly one window (validation,     *)
(* recovery or baseline), so one number per evaluation is all it needs.    *)
(***************************************************************************)
EXTENDS ScaleActions

CONSTANTS
  U32Max,                         \* u32::MAX (a smaller width in the models)
  ScaleUpThreshold,               \* percent of one worker, (0, 100]
  ScaleUpMinGain,                 \* percent, 0 disables validation of ups
  ScaleDownRevertDrop,            \* percent, 0 disables validation of downs
  MaxScaleDownStep,               \* 0 means no limit
  BlockScaleUpWhenThrottled,
  \* ThresholdPolls: every duration, in polls
  ScaleDownSustain, ScaleValidationDelay, ScaleValidationDelayPerThread,
  PostRevertUpGrace, PostRevertUpRecovery,
  PostRevertUpBackoffMax, ScaleDownBackoffMax

U32 == 0 .. U32Max

ASSUME PolicyAssumption ==
  /\ U32Max \in Nat \ {0}
  /\ MaxPool <= U32Max
  /\ ScaleUpThreshold \in 1 .. 100
  /\ ScaleUpMinGain \in 0 .. 100
  /\ ScaleDownRevertDrop \in 0 .. 100
  /\ MaxScaleDownStep \in U32
  /\ BlockScaleUpWhenThrottled \in BOOLEAN
  /\ ScaleDownSustain \in U32
  /\ ScaleValidationDelay \in U32
  /\ ScaleValidationDelayPerThread \in U32
  /\ PostRevertUpGrace \in U32
  /\ PostRevertUpRecovery \in U32
  /\ PostRevertUpBackoffMax \in U32
  /\ ScaleDownBackoffMax \in U32

-----------------------------------------------------------------------------
(* u32 arithmetic *)

Lesser(a, b)  == IF a <= b THEN a ELSE b
Greater(a, b) == IF a >= b THEN a ELSE b

SlipUnchecked(a, b) == a + b
SaturatingAdd(a, b) == Lesser(a + b, U32Max)
SaturatingSub(a, b) == Greater(a - b, 0)
SaturatingMul(a, b) == Lesser(a * b, U32Max)
SaturatingPow2(n)   == IF 2 ^ n \in 1 .. U32Max THEN 2 ^ n ELSE U32Max

(* `x += 1` wraps in a release build *)
WrappingInc(x) == IF x = U32Max THEN 0 ELSE x + 1

-----------------------------------------------------------------------------
(* Poll counts *)

SlipDoublesOnceMore(base, doublings, max) ==
  IF max = 0
    THEN base
    ELSE Lesser(SaturatingMul(base, SaturatingPow2(doublings + 1)), Greater(max, base))

\* base doubled `doublings` times, capped at max but never below base
backoff_polls(base, doublings, max) ==
  IF max = 0
    THEN base
    ELSE Lesser(SaturatingMul(base, SaturatingPow2(doublings)), Greater(max, base))

post_revert_up_grace_polls(failures) ==
  SaturatingSub(
    backoff_polls(SaturatingAdd(PostRevertUpGrace, PostRevertUpRecovery),
                  SaturatingSub(failures, 1), PostRevertUpBackoffMax),
    PostRevertUpRecovery)

scale_down_sustain_polls(failures) ==
  backoff_polls(ScaleDownSustain, failures, ScaleDownBackoffMax)

validation_sample_polls(target) ==
  SaturatingAdd(ScaleValidationDelay,
                SaturatingMul(ScaleValidationDelayPerThread, target))

-----------------------------------------------------------------------------
(* The smallest pool that keeps the average at the threshold *)

SlipRoundsDown(util, thread_count) ==
  Lesser(Greater((util * thread_count) \div ScaleUpThreshold, 1), U32Max)

\* ceil(util * threads / threshold), clamped to 1 .. u32::MAX
RequiredThreads(util, thread_count) ==
  Lesser(Greater((util * thread_count + ScaleUpThreshold - 1) \div ScaleUpThreshold, 1),
         U32Max)

scale_down_target(util, thread_count) ==
  LET target == Greater(RequiredThreads(util, thread_count), MinThreadCount)
      floor  == Greater(SaturatingSub(thread_count, MaxScaleDownStep), MinThreadCount)
  IN  IF target >= thread_count   THEN thread_count
      ELSE IF MaxScaleDownStep = 0 THEN target
      ELSE Greater(target, floor)

-----------------------------------------------------------------------------
(* InstanceState *)

\* pending_validation = None
NoPending == [action |-> "none", baseline_thread_count |-> 0,
              baseline_iops |-> 0, polls_remaining |-> 0]

\* post_revert_up_hold = None
NoHold == [phase |-> "none", polls_remaining |-> 0]
Grace(n) == [phase |-> "grace", polls_remaining |-> n]
Recovery(n) == [phase |-> "recovery", polls_remaining |-> n]

\* InstanceState::new.  A measurement window is kept as the one thing later
\* evaluations tell apart: whether it has been started.
FreshState ==
  [low_util_polls           |-> 0,
   pending_validation       |-> NoPending,
   baseline_window_started  |-> FALSE,
   current_baseline_iops    |-> 0,
   post_revert_up_hold      |-> NoHold,
   consecutive_failed_ups   |-> 0,
   consecutive_failed_downs |-> 0]

Validating(s) == s.pending_validation.action # "none"

(***************************************************************************)
(* evaluate() on an observation o: util (percent per worker),              *)
(* thread_count, throttled (new cgroup throttling) and rate (IOPS over the *)
(* window this evaluation reads).                                          *)
(***************************************************************************)

\* validation_revert_target() is Some
ValidationFails(pending, o) ==
  /\ pending.baseline_iops > 0
  /\ \/ /\ pending.action = "up"
        /\ ScaleUpMinGain > 0
        /\ o.rate * 100 < pending.baseline_iops * (100 + ScaleUpMinGain)
     \/ /\ pending.action = "down"
        /\ o.util > ScaleUpThreshold
        /\ ScaleDownRevertDrop > 0
        /\ o.rate * 100 < pending.baseline_iops * (100 - ScaleDownRevertDrop)

\* reset_baseline_window
WithFreshWindow(s) ==
  [s EXCEPT !.baseline_window_started = TRUE, !.current_baseline_iops = 0]

\* A validation that still needs samples
Settled(s) == [s EXCEPT !.pending_validation.polls_remaining = @ - 1]

\* A validated action that is kept
Kept(s) ==
  LET t == [WithFreshWindow(s) EXCEPT !.pending_validation = NoPending]
  IN  IF s.pending_validation.action = "up"
        THEN [t EXCEPT !.consecutive_failed_ups = 0]
        ELSE [t EXCEPT !.consecutive_failed_downs = 0]

\* A validated action that failed; a failed up begins the post-revert hold
Failed(s) ==
  LET t   == [WithFreshWindow(s) EXCEPT !.pending_validation = NoPending]
      ups == SaturatingAdd(s.consecutive_failed_ups, 1)
  IN  IF s.pending_validation.action = "up"
        THEN [t EXCEPT !.consecutive_failed_ups = ups,
                       !.baseline_window_started = FALSE,
                       !.post_revert_up_hold = Grace(post_revert_up_grace_polls(ups))]
        ELSE [t EXCEPT !.consecutive_failed_downs = SaturatingAdd(@, 1)]

SlipRecoveryEndsEarly(hold) ==
  \/ hold.phase = "grace" /\ (hold.polls_remaining > 0 \/ PostRevertUpRecovery > 0)
  \/ hold.phase = "recovery" /\ hold.polls_remaining > 2

\* advance_post_revert_up_hold: does the hold block this evaluation, and
\* what is left of it
HoldBlocks(hold) ==
  \/ hold.phase = "grace" /\ (hold.polls_remaining > 0 \/ PostRevertUpRecovery > 0)
  \/ hold.phase = "recovery" /\ hold.polls_remaining > 1

SlipGraceStuck(hold) == IF hold.phase = "grace" THEN hold ELSE NoHold

AdvancedHold(hold) ==
  CASE hold.phase = "grace" /\ hold.polls_remaining > 0 -> Grace(hold.polls_remaining - 1)
    [] hold.phase = "grace" /\ hold.polls_remaining = 0 /\ PostRevertUpRecovery > 0
         -> Recovery(PostRevertUpRecovery)
    [] hold.phase = "recovery" /\ hold.polls_remaining > 1 -> Recovery(hold.polls_remaining - 1)
    [] OTHER -> NoHold

\* The baseline rate after the hold advanced and refresh_baseline_rate ran: a
\* window that starts at this very sample measures nothing.
RefreshedBaseline(s, o) ==
  LET hold == s.post_revert_up_hold
  IN  CASE hold.phase = "recovery" -> o.rate
        [] hold.phase = "grace" -> IF HoldBlocks(hold) THEN s.current_baseline_iops ELSE 0
        [] hold.phase = "none" -> IF s.baseline_window_started THEN o.rate ELSE 0

Observed(s, o) ==
  [s EXCEPT
    !.post_revert_up_hold = AdvancedHold(@),
    !.current_baseline_iops = RefreshedBaseline(s, o),
    !.baseline_window_started = @ \/ ~HoldBlocks(s.post_revert_up_hold),
    !.low_util_polls = IF scale_down_target(o.util, o.thread_count) < o.thread_count
                         THEN WrappingInc(@) ELSE 0]

WantsUp(s, o) ==
  /\ ~HoldBlocks(s.post_revert_up_hold)
  /\ o.thread_count < MaxThreadCount
  /\ o.util > ScaleUpThreshold

SlipOnePollEarly(s, o) ==
  LET down == scale_down_target(o.util, o.thread_count)
  IN  IF WantsUp(s, o) THEN Up(o.thread_count + 1)
      ELSE IF /\ down < o.thread_count
              /\ Observed(s, o).low_util_polls + 1
                   >= scale_down_sustain_polls(s.consecutive_failed_downs)
             THEN Down(down)
      ELSE NoAction

PolicyAction(s, o) ==
  LET down == scale_down_target(o.util, o.thread_count)
  IN  CASE WantsUp(s, o) /\ BlockScaleUpWhenThrottled /\ o.throttled -> NoAction
        [] WantsUp(s, o) /\ ~(BlockScaleUpWhenThrottled /\ o.throttled)
             -> Up(o.thread_count + 1)
        [] /\ ~WantsUp(s, o)
           /\ down < o.thread_count
           /\ Observed(s, o).low_util_polls
                >= scale_down_sustain_polls(s.consecutive_failed_downs)
             -> Down(down)
        [] OTHER -> NoAction

\* evaluate(): the state it leaves behind and the action it returns
EvaluatedState(s, o) ==
  LET pending == s.pending_validation
  IN  CASE Validating(s) /\ pending.polls_remaining > 0 -> Settled(s)
        [] Validating(s) /\ pending.polls_remaining = 0 /\ ValidationFails(pending, o)
             -> Failed(s)
        [] Validating(s) /\ pending.polls_remaining = 0 /\ ~ValidationFails(pending, o)
             -> Kept(s)
        [] ~Validating(s) -> Observed(s, o)

EvaluatedAction(s, o) ==
  LET pending == s.pending_validation
  IN  CASE /\ Validating(s) /\ pending.polls_remaining = 0
           /\ ValidationFails(pending, o) -> Revert(pending.baseline_thread_count)
        [] ~Validating(s) -> PolicyAction(s, o)
        [] OTHER -> NoAction

(***************************************************************************)
(* on_applied() for an accepted action (success or dry run).  Blocked,     *)
(* failed and reverted actions leave the state alone.                      *)
(***************************************************************************)
SlipHoldSurvivesDown(s, action) ==
  IF action.kind = "up"
    THEN [s EXCEPT !.consecutive_failed_downs = 0, !.low_util_polls = 0]
    ELSE [s EXCEPT !.consecutive_failed_ups = 0, !.low_util_polls = 0]

ResetAfterApplied(s, action) ==
  IF action.kind = "up"
    THEN [s EXCEPT !.consecutive_failed_downs = 0, !.low_util_polls = 0]
    ELSE [s EXCEPT !.post_revert_up_hold = NoHold,
                   !.consecutive_failed_ups = 0, !.low_util_polls = 0]

NeedsValidation(action) ==
  \/ action.kind = "up" /\ ScaleUpMinGain > 0
  \/ action.kind = "down" /\ ScaleDownRevertDrop > 0

SlipBaselineIsTarget(s, action, previous_thread_count) ==
  IF action.kind \in {"up", "down"}
    THEN [ResetAfterApplied(s, action) EXCEPT !.pending_validation =
            [action |-> action.kind, baseline_thread_count |-> action.target,
             baseline_iops |-> s.current_baseline_iops,
             polls_remaining |-> validation_sample_polls(action.target)]]
    ELSE s

AppliedState(s, action, previous_thread_count) ==
  LET t == ResetAfterApplied(s, action)
  IN  CASE action.kind \notin {"up", "down"} -> s
        [] action.kind \in {"up", "down"} /\ NeedsValidation(action)
             -> [t EXCEPT !.pending_validation =
                   [action |-> action.kind,
                    baseline_thread_count |-> previous_thread_count,
                    baseline_iops |-> s.current_baseline_iops,
                    polls_remaining |-> validation_sample_polls(action.target)]]
        [] action.kind \in {"up", "down"} /\ ~NeedsValidation(action) -> WithFreshWindow(t)
=============================================================================
