------------------------ MODULE ThresholdEngineProofs ------------------------
(***************************************************************************)
(* Proofs about ThresholdEngine, for every configuration and every width   *)
(* of u32.                                                                 *)
(***************************************************************************)
EXTENDS ThresholdEngine, FiniteSetTheorems, TLAPS

\* The configured bounds are naturals within u32.
LEMMA PoolBounds ==
  /\ MinThreadCount \in U32 \ {0} /\ MaxThreadCount \in U32 /\ MaxPool \in U32 \ {0}
  /\ MinThreadCount <= MaxThreadCount /\ MaxThreadCount <= MaxPool
  BY BoundsAssumption, PolicyAssumption DEF U32

USE DEF U32, Lesser, Greater, SaturatingAdd, SaturatingSub

\* A product of naturals is at least its factor.
LEMMA MulAtLeast == \A a \in Nat, b \in Nat \ {0} : a * b \in Nat /\ a <= a * b
  BY SMT

\* A backed-off poll count is a u32 and never less than its base.
LEMMA BackoffBounds ==
  ASSUME NEW base \in U32, NEW doublings, NEW max \in U32
  PROVE  /\ backoff_polls(base, doublings, max) \in U32
         /\ base <= backoff_polls(base, doublings, max)
<1> DEFINE p == SaturatingPow2(doublings)
<1>1. p \in 1 .. U32Max
  BY PolicyAssumption DEF SaturatingPow2
<1>2. SaturatingMul(base, p) \in U32 /\ base <= SaturatingMul(base, p)
  <2> HIDE DEF p
  <2>1. base * p \in Nat /\ base <= base * p
    BY <1>1, MulAtLeast, PolicyAssumption
  <2> QED
    BY <2>1, <1>1, PolicyAssumption DEF SaturatingMul
<1> QED
  BY <1>2, PolicyAssumption DEF backoff_polls

\* A power of two counts the subsets of an interval, so it is a positive number.
LEMMA PowerPositive ==
  ASSUME NEW n \in Nat
  PROVE  2 ^ n \in Nat \ {0}
<1> DEFINE S == 1 .. n
           P == SUBSET S
<1>1. IsFiniteSet(S) /\ Cardinality(S) = n
  BY FS_Interval
<1>2. IsFiniteSet(P) /\ Cardinality(P) = 2 ^ n
  BY <1>1, FS_SUBSET
<1>3. P # {}
  OBVIOUS
<1> HIDE DEF S, P
<1>4. Cardinality(P) \in Nat /\ Cardinality(P) # 0
  BY <1>2, <1>3, FS_CardinalityType, FS_EmptySet
<1> QED
  BY <1>2, <1>4

\* Saturating in u32 at the power, at the product and at the cap gives what
\* doubling without bounds and capping once at the end would.
LEMMA BackoffIsDoubling ==
  ASSUME NEW base \in U32, NEW n \in Nat, NEW max \in U32
  PROVE  backoff_polls(base, n, max) = Doubled(base, n, max)
<1> DEFINE p == 2 ^ n
           q == SaturatingPow2(n)
           c == Greater(max, base)
<1>1. p \in Nat \ {0}
  BY PowerPositive
<1>2. q = IF p <= U32Max THEN p ELSE U32Max
  BY <1>1, PolicyAssumption DEF SaturatingPow2
<1>3. c \in U32 /\ c = Greater(base, max)
  BY PolicyAssumption
<1>4. /\ backoff_polls(base, n, max) =
           IF max = 0 THEN base ELSE Lesser(Lesser(base * q, U32Max), c)
      /\ Doubled(base, n, max) = IF max = 0 THEN base ELSE Lesser(base * p, c)
  BY <1>3 DEF backoff_polls, Doubled, SaturatingMul
<1> HIDE DEF p, q, c
<1>5. CASE p <= U32Max
  <2>1. base * p \in Nat
    BY <1>1, MulAtLeast
  <2> DEFINE m == base * p
  <2>2. q = p
    BY <1>2, <1>5
  <2> HIDE DEF m
  <2>3. Lesser(Lesser(m, U32Max), c) = Lesser(m, c)
    BY <1>3, <2>1, PolicyAssumption DEF m
  <2> QED
    BY <1>4, <2>2, <2>3 DEF m
<1>6. CASE p > U32Max
  <2>1. CASE base = 0
    <3>1. base * q = 0 /\ base * p = 0
      BY <1>1, <1>2, <2>1, PolicyAssumption
    <3> QED
      BY <1>3, <1>4, <3>1, PolicyAssumption
  <2>2. CASE base # 0
    <3>1. q = U32Max /\ q \in Nat \ {0} /\ base \in Nat \ {0}
      BY <1>1, <1>2, <1>6, <2>2, PolicyAssumption
    <3>2. base * q \in Nat /\ q <= base * q /\ base * p \in Nat /\ p <= base * p
      <4>1. q * base = base * q /\ p * base = base * p
        BY <1>1, <3>1
      <4> QED
        BY <1>1, <3>1, <4>1, MulAtLeast
    <3> DEFINE m == base * p
               k == base * q
    <3>3. m \in Nat /\ k \in Nat /\ U32Max <= k /\ p <= m
      BY <3>1, <3>2
    <3> HIDE DEF m, k
    <3>4. Lesser(Lesser(k, U32Max), c) = c /\ Lesser(m, c) = c
      BY <1>1, <1>3, <1>6, <3>3, PolicyAssumption
    <3> QED
      BY <1>4, <3>4 DEF m, k
  <2> QED
    BY <2>1, <2>2
<1> QED
  BY <1>1, <1>5, <1>6, PolicyAssumption

\* Ceiling division, as RequiredThreads writes it, rounds up.
LEMMA CeilDiv ==
  ASSUME NEW a \in Nat, NEW t \in 1 .. 100
  PROVE  /\ (a + t - 1) \div t \in Nat
         /\ a <= t * ((a + t - 1) \div t)
  OBVIOUS

\* Multiplication by a natural is monotone.
LEMMA MulMono == \A t \in Nat, a \in Nat, b \in Nat : a <= b => t * a <= t * b
  BY SMT

\* A scale-down target that is smaller than the pool keeps the load at or
\* below the threshold, the minimum and the step limit.
LEMMA ScaleDownTarget ==
  ASSUME NEW util \in 0 .. 100, NEW n \in 1 .. MaxPool
  PROVE  LET target == scale_down_target(util, n)
         IN  /\ target \in 1 .. n
             /\ target < n =>
                  /\ util * n <= ScaleUpThreshold * target
                  /\ target >= MinThreadCount
                  /\ MaxScaleDownStep > 0 => n - target <= MaxScaleDownStep
<1> DEFINE required == (util * n + ScaleUpThreshold - 1) \div ScaleUpThreshold
           target == scale_down_target(util, n)
<1>1. util * n \in Nat
  BY PoolBounds, EngineAssumption
<1>2. required \in Nat /\ util * n <= ScaleUpThreshold * required
  BY <1>1, CeilDiv, PolicyAssumption
<1>3. /\ target \in 1 .. n
      /\ target < n => /\ target >= required
                       /\ target >= MinThreadCount
                       /\ MaxScaleDownStep > 0 => n - target <= MaxScaleDownStep
  <2> HIDE DEF required
  <2>1. RequiredThreads(util, n) = Lesser(Greater(required, 1), U32Max)
    BY DEF RequiredThreads, required
  <2> QED
    BY <1>2, <2>1, PolicyAssumption, PoolBounds, EngineAssumption DEF scale_down_target
<1>4. target < n => ScaleUpThreshold * required <= ScaleUpThreshold * target
  <2> HIDE DEF required, target
  <2> QED
    BY <1>2, <1>3, MulMono, PolicyAssumption, PoolBounds, EngineAssumption
<1>5. target < n => util * n <= ScaleUpThreshold * target
  <2>1. ScaleUpThreshold * required \in Int /\ ScaleUpThreshold * target \in Int
    BY <1>2, <1>3, PolicyAssumption, PoolBounds, EngineAssumption
  <2> HIDE DEF required, target
  <2> QED
    BY <1>1, <1>2, <1>4, <2>1
<1> QED
  BY <1>3, <1>5

-----------------------------------------------------------------------------

\* A hold is a u32 at least as long as grace and recovery together.
LEMMA HoldPollsBounds ==
  ASSUME NEW f
  PROVE  HoldPolls(f) \in U32 /\ PostRevertUpRecovery <= HoldPolls(f)
<1>1. SaturatingAdd(PostRevertUpGrace, PostRevertUpRecovery) \in U32
  BY PolicyAssumption
<1> QED
  BY <1>1, BackoffBounds, PolicyAssumption DEF HoldPolls

\* The grace time is the hold without its recovery time.
LEMMA GracePolls ==
  ASSUME NEW f \in U32 \ {0}
  PROVE  /\ post_revert_up_grace_polls(f) \in U32
         /\ post_revert_up_grace_polls(f) + PostRevertUpRecovery = HoldPolls(f)
<1>1. SaturatingSub(f, 1) = f - 1
  BY PolicyAssumption
<1>2. post_revert_up_grace_polls(f) = SaturatingSub(HoldPolls(f), PostRevertUpRecovery)
  BY <1>1 DEF post_revert_up_grace_polls, HoldPolls
<1> QED
  BY <1>2, HoldPollsBounds, PolicyAssumption

\* A validation lasts a u32 number of polls.
LEMMA ValidationPolls ==
  ASSUME NEW n \in U32
  PROVE  validation_sample_polls(n) \in U32
<1>1. ScaleValidationDelayPerThread * n \in Nat
  BY PolicyAssumption
<1> QED
  BY <1>1, PolicyAssumption DEF validation_sample_polls, SaturatingMul

\* The sustain time is a u32.
LEMMA SustainPolls ==
  ASSUME NEW f \in U32
  PROVE  scale_down_sustain_polls(f) \in U32
  BY BackoffBounds, PolicyAssumption DEF scale_down_sustain_polls

-----------------------------------------------------------------------------

USE DEF ScaleActionSet, NoAction, Up, Down, Revert, NoPending, NoHold, Grace, Recovery,
        Validating, HistoryCap, Count

\* A VM the engine has just met satisfies the invariant.
LEMMA InitInv == Init => Inv
  BY PolicyAssumption, PoolBounds, EngineAssumption
  DEF Init, Inv, TypeOK, InstanceStates, PendingStates, HoldStates, FreshState,
      MeasuringExcludesHold, HoldAccounting, RevertRestores, DownIsSustained

\* Every observation is of the pool as it is.
LEMMA ObservationTyped ==
  ASSUME NEW o \in Observations
  PROVE  /\ o.util \in 0 .. 100 /\ o.throttled \in BOOLEAN /\ o.rate \in Nat
         /\ o.thread_count = thread_count
  BY PoolBounds, EngineAssumption DEF Observations

\* Waiting for samples preserves the invariant.
LEMMA SettledInv ==
  ASSUME Inv, NEW o \in Observations, Evaluate(o),
         Validating(state), state.pending_validation.polls_remaining > 0
  PROVE  Inv'
<1>1. /\ state' = Settled(state)
      /\ proposal' = NoAction
  BY DEF Evaluate, EvaluatedState, EvaluatedAction, Inv, TypeOK, InstanceStates, PendingStates
<1>2. UNCHANGED <<thread_count, restore, since_revert, low_run>> /\ last_util' \in 0 .. 100
  BY <1>1, ObservationTyped DEF Evaluate
<1>3. state' \in InstanceStates
  BY <1>1, PolicyAssumption DEF Settled, Inv, TypeOK, InstanceStates, PendingStates
<1> QED
  BY <1>1, <1>2, <1>3
  DEF Settled, Inv, TypeOK, InstanceStates, PendingStates, MeasuringExcludesHold,
      HoldAccounting, RevertRestores, DownIsSustained

\* Keeping a validated action preserves the invariant.
LEMMA KeptInv ==
  ASSUME Inv, NEW o \in Observations, Evaluate(o),
         Validating(state), state.pending_validation.polls_remaining = 0,
         ~ValidationFails(state.pending_validation, o)
  PROVE  Inv'
<1>1. /\ state' = Kept(state)
      /\ proposal' = NoAction
  BY DEF Evaluate, EvaluatedState, EvaluatedAction
<1>2. UNCHANGED <<thread_count, restore, since_revert, low_run>> /\ last_util' \in 0 .. 100
  BY <1>1, ObservationTyped DEF Evaluate
<1>3. state' \in InstanceStates
  <2> DEFINE fresh == WithFreshWindow(state)
  <2>1. NoPending \in PendingStates /\ 0 \in U32
    BY PolicyAssumption DEF PendingStates
  <2>2. fresh \in InstanceStates
    BY DEF WithFreshWindow, Inv, TypeOK, InstanceStates
  <2>3. \/ state' = [fresh EXCEPT !.pending_validation = NoPending, !.consecutive_failed_ups = 0]
        \/ state' = [fresh EXCEPT !.pending_validation = NoPending, !.consecutive_failed_downs = 0]
    BY <1>1 DEF Kept
  <2> HIDE DEF fresh, NoPending
  <2> QED
    BY <2>1, <2>2, <2>3 DEF InstanceStates
<1> QED
  BY <1>1, <1>2, <1>3
  DEF Kept, WithFreshWindow, Inv, TypeOK, InstanceStates, PendingStates,
      MeasuringExcludesHold, HoldAccounting, RevertRestores, DownIsSustained

\* Failing a validated action preserves the invariant: a failed scale-up owes
\* the whole hold.
LEMMA FailedInv ==
  ASSUME Inv, NEW o \in Observations, Evaluate(o),
         Validating(state), state.pending_validation.polls_remaining = 0,
         ValidationFails(state.pending_validation, o)
  PROVE  Inv'
<1> DEFINE pending == state.pending_validation
<1>1. /\ state' = Failed(state)
      /\ proposal' = Revert(restore)
  BY DEF Evaluate, EvaluatedState, EvaluatedAction, Inv, RevertRestores
<1>2. /\ UNCHANGED <<thread_count, restore, low_run>>
      /\ last_util' \in 0 .. 100
      /\ since_revert' = IF pending.action = "up" THEN 0 ELSE since_revert
  BY <1>1, ObservationTyped DEF Evaluate
<1>3. CASE pending.action = "up"
  <2> DEFINE ups == SaturatingAdd(state.consecutive_failed_ups, 1)
  <2>1. ups \in U32 \ {0}
    BY PolicyAssumption DEF Inv, TypeOK, InstanceStates
  <2>2. state' \in InstanceStates
    <3> DEFINE hold == Grace(post_revert_up_grace_polls(ups))
    <3>1. hold \in HoldStates
      BY <2>1, GracePolls DEF HoldStates
    <3>2. NoPending \in PendingStates
      BY PolicyAssumption DEF PendingStates
    <3>3. state' = [WithFreshWindow(state) EXCEPT
                      !.pending_validation = NoPending, !.consecutive_failed_ups = ups,
                      !.baseline_window_started = FALSE, !.post_revert_up_hold = hold]
      BY <1>1, <1>3 DEF Failed
    <3> HIDE DEF hold, ups, NoPending
    <3> QED
      BY <2>1, <3>1, <3>2, <3>3 DEF WithFreshWindow, Inv, TypeOK, InstanceStates
  <2>3. /\ state'.consecutive_failed_ups = ups
        /\ state'.post_revert_up_hold = Grace(post_revert_up_grace_polls(ups))
        /\ state'.pending_validation = NoPending
        /\ state'.low_util_polls = state.low_util_polls
    BY <1>1, <1>3 DEF Failed, WithFreshWindow, Inv, TypeOK, InstanceStates, PendingStates
  <2> HIDE DEF ups
  <2>4. HoldAccounting'
    BY <1>2, <1>3, <2>1, <2>3, GracePolls, PolicyAssumption DEF HoldAccounting
  <2> QED
    BY <1>1, <1>2, <1>3, <2>2, <2>3, <2>4, PolicyAssumption
    DEF Inv, TypeOK, MeasuringExcludesHold, RevertRestores, DownIsSustained
<1>4. CASE pending.action # "up"
  <2>1. state' \in InstanceStates
    <3> DEFINE downs == SaturatingAdd(state.consecutive_failed_downs, 1)
    <3>1. downs \in U32
      BY PolicyAssumption DEF Inv, TypeOK, InstanceStates
    <3>2. NoPending \in PendingStates
      BY PolicyAssumption DEF PendingStates
    <3>3. state' = [WithFreshWindow(state) EXCEPT
                      !.pending_validation = NoPending, !.consecutive_failed_downs = downs]
      BY <1>1, <1>4 DEF Failed, WithFreshWindow, Inv, TypeOK, InstanceStates
    <3> HIDE DEF downs, NoPending
    <3> QED
      BY <3>1, <3>2, <3>3 DEF WithFreshWindow, Inv, TypeOK, InstanceStates
  <2>2. /\ state'.consecutive_failed_ups = state.consecutive_failed_ups
        /\ state'.post_revert_up_hold = state.post_revert_up_hold
        /\ state'.pending_validation = NoPending
        /\ state'.low_util_polls = state.low_util_polls
    BY <1>1, <1>4 DEF Failed, WithFreshWindow, Inv, TypeOK, InstanceStates, PendingStates
  <2> QED
    BY <1>1, <1>2, <1>4, <2>1, <2>2
    DEF Inv, TypeOK, MeasuringExcludesHold, HoldAccounting, RevertRestores, DownIsSustained
<1> QED
  BY <1>3, <1>4

\* An evaluation of the policy preserves the invariant: it pays one poll of
\* the hold, or proposes a scale-up once the hold is paid.
LEMMA ObservedInv ==
  ASSUME Inv, NEW o \in Observations, Evaluate(o), ~Validating(state)
  PROVE  Inv'
<1> DEFINE hold == state.post_revert_up_hold
           down == scale_down_target(o.util, thread_count)
<1>1. /\ state' = Observed(state, o)
      /\ proposal' = PolicyAction(state, o)
      /\ UNCHANGED <<thread_count, restore>>
      /\ last_util' = o.util
      /\ since_revert' = Count(since_revert)
      /\ low_run' = IF down < thread_count THEN Count(low_run) ELSE 0
  BY ObservationTyped DEF Evaluate, EvaluatedState, EvaluatedAction
<1>2. /\ state'.post_revert_up_hold = AdvancedHold(hold)
      /\ state'.current_baseline_iops = RefreshedBaseline(state, o)
      /\ state'.pending_validation = state.pending_validation
      /\ state'.consecutive_failed_ups = state.consecutive_failed_ups
      /\ state'.consecutive_failed_downs = state.consecutive_failed_downs
      /\ state'.low_util_polls = IF down < thread_count
                                   THEN WrappingInc(state.low_util_polls) ELSE 0
  BY <1>1, ObservationTyped DEF Observed, Inv, TypeOK, InstanceStates
<1>3. AdvancedHold(hold) \in HoldStates
  BY PolicyAssumption DEF AdvancedHold, Inv, TypeOK, InstanceStates, HoldStates
<1>4. RefreshedBaseline(state, o) \in Nat
  BY ObservationTyped, PolicyAssumption
  DEF RefreshedBaseline, Inv, TypeOK, InstanceStates, HoldStates
<1>5. state' \in InstanceStates
  <2> DEFINE low == IF down < thread_count THEN WrappingInc(state.low_util_polls) ELSE 0
             started == state.baseline_window_started \/ ~HoldBlocks(hold)
             advanced == AdvancedHold(hold)
             baseline == RefreshedBaseline(state, o)
  <2>1. low \in U32
    BY PolicyAssumption DEF WrappingInc, Inv, TypeOK, InstanceStates
  <2>2. started \in BOOLEAN
    BY DEF HoldBlocks
  <2>3. state' = [state EXCEPT !.post_revert_up_hold = advanced,
                              !.current_baseline_iops = baseline,
                              !.baseline_window_started = started,
                              !.low_util_polls = low]
    BY <1>1, ObservationTyped DEF Observed
  <2>4. advanced \in HoldStates /\ baseline \in Nat
    BY <1>3, <1>4
  <2> HIDE DEF low, started, advanced, baseline
  <2> QED
    BY <2>1, <2>2, <2>3, <2>4 DEF Inv, TypeOK, InstanceStates
<1>6. down \in 1 .. thread_count
  BY ScaleDownTarget, ObservationTyped DEF Inv, TypeOK
<1>7. /\ proposal' \in ScaleActionSet
      /\ proposal'.kind # "revert"
      /\ proposal'.kind = "up" => ~HoldBlocks(hold)
      /\ proposal'.kind = "down" =>
           /\ down < thread_count
           /\ state'.low_util_polls >= scale_down_sustain_polls(state.consecutive_failed_downs)
  BY <1>1, <1>6, ObservationTyped, PolicyAssumption, PoolBounds, EngineAssumption
  DEF PolicyAction, WantsUp, Inv, TypeOK
<1>8. ~HoldBlocks(hold) => AdvancedHold(hold) = NoHold
  BY PolicyAssumption DEF HoldBlocks, AdvancedHold, Inv, TypeOK, InstanceStates, HoldStates
<1>9. HoldAccounting'
  <2> DEFINE owed == HoldPolls(state.consecutive_failed_ups)
             advanced == AdvancedHold(hold)
  <2>1. owed \in U32 /\ owed' = owed
    BY <1>2, HoldPollsBounds DEF HoldPolls
  <2>2. since_revert \in 0 .. U32Max + 1 /\ hold \in HoldStates
    BY DEF Inv, TypeOK, InstanceStates
  <2>3. /\ hold.phase = "grace" =>
             since_revert + hold.polls_remaining + PostRevertUpRecovery = owed
        /\ hold.phase = "recovery" =>
             hold.polls_remaining > 0 /\ since_revert + hold.polls_remaining = owed + 1
        /\ hold.phase = "none" /\ state.consecutive_failed_ups > 0 => since_revert > owed
    BY DEF Inv, HoldAccounting
  <2> HIDE DEF owed
  <2>4. /\ advanced.phase = "grace" =>
             since_revert' + advanced.polls_remaining + PostRevertUpRecovery = owed
        /\ advanced.phase = "recovery" =>
             advanced.polls_remaining > 0 /\ since_revert' + advanced.polls_remaining = owed + 1
        /\ advanced.phase = "none" /\ state.consecutive_failed_ups > 0 => since_revert' > owed
    <3>1. CASE hold.phase = "grace"
      BY <1>1, <2>1, <2>2, <2>3, <3>1, PolicyAssumption DEF AdvancedHold, HoldStates
    <3>2. CASE hold.phase = "recovery"
      BY <1>1, <2>1, <2>2, <2>3, <3>2, PolicyAssumption DEF AdvancedHold, HoldStates
    <3>3. CASE hold.phase = "none"
      BY <1>1, <2>1, <2>2, <2>3, <3>3, PolicyAssumption DEF AdvancedHold, HoldStates
    <3> QED
      BY <2>2, <3>1, <3>2, <3>3 DEF HoldStates
  <2> QED
    BY <1>2, <2>1, <2>4 DEF HoldAccounting, owed
<1>10. state'.low_util_polls <= low_run'
  BY <1>1, <1>2, PolicyAssumption DEF WrappingInc, Inv, TypeOK, InstanceStates
<1>11. DownIsSustained'
  BY <1>1, <1>2, <1>5, <1>7, <1>10, SustainPolls
  DEF DownIsSustained, Inv, TypeOK, InstanceStates
<1>12. MeasuringExcludesHold' /\ RevertRestores'
  BY <1>1, <1>2, <1>7 DEF MeasuringExcludesHold, RevertRestores
<1> QED
  BY <1>1, <1>2, <1>5, <1>7, <1>8, <1>9, <1>10, <1>11, <1>12, ObservationTyped, PolicyAssumption
  DEF Inv, TypeOK

\* evaluate() preserves the invariant.
LEMMA EvaluateInv ==
  ASSUME Inv, NEW o \in Observations, Evaluate(o)
  PROVE  Inv'
<1>1. state.pending_validation.polls_remaining \in Nat
  BY PolicyAssumption DEF Inv, TypeOK, InstanceStates, PendingStates
<1>2. \/ ~Validating(state)
      \/ Validating(state) /\ state.pending_validation.polls_remaining > 0
      \/ Validating(state) /\ state.pending_validation.polls_remaining = 0
  BY <1>1
<1> QED
  BY <1>2, ObservedInv, SettledInv, KeptInv, FailedInv

\* on_applied() for an accepted action preserves the invariant.
LEMMA AcceptInv ==
  ASSUME Inv, NEW pool \in 1 .. MaxPool, Accept(pool)
  PROVE  Inv'
<1>1. /\ proposal.kind \in {"up", "down", "revert"}
      /\ proposal.target \in U32
      /\ ~Validating(state)
  BY PolicyAssumption, PoolBounds DEF Accept, Inv, TypeOK, MeasuringExcludesHold
<1>2. /\ proposal' = NoAction
      /\ thread_count' = pool
      /\ UNCHANGED <<since_revert, last_util>>
  BY DEF Accept
<1>3. CASE proposal.kind = "revert"
  <2>1. state' = state /\ UNCHANGED <<restore, low_run>>
    BY <1>3 DEF Accept, AppliedState
  <2> QED
    BY <1>1, <1>2, <2>1, PoolBounds, EngineAssumption
    DEF Inv, TypeOK, MeasuringExcludesHold, HoldAccounting, RevertRestores, DownIsSustained
<1>4. CASE proposal.kind \in {"up", "down"}
  <2> DEFINE reset == ResetAfterApplied(state, proposal)
             pending == [action |-> proposal.kind, baseline_thread_count |-> thread_count,
                         baseline_iops |-> state.current_baseline_iops,
                         polls_remaining |-> validation_sample_polls(proposal.target)]
  <2>1. restore' = thread_count /\ low_run' = 0
    BY <1>4 DEF Accept
  <2>2. /\ reset \in InstanceStates
        /\ reset.post_revert_up_hold = NoHold
        /\ reset.low_util_polls = 0
        /\ reset.pending_validation = state.pending_validation
        /\ \/ reset.consecutive_failed_ups = state.consecutive_failed_ups
              /\ state.post_revert_up_hold = NoHold
           \/ reset.consecutive_failed_ups = 0
    <3>1. NoHold \in HoldStates /\ 0 \in U32 /\ state \in InstanceStates
      BY PolicyAssumption DEF HoldStates, Inv, TypeOK
    <3>2. CASE proposal.kind = "up"
      <4>1. state.post_revert_up_hold = NoHold
        BY <3>2 DEF Inv
      <4> HIDE DEF NoHold
      <4> QED
        BY <3>1, <3>2, <4>1 DEF ResetAfterApplied, InstanceStates
    <3>3. CASE proposal.kind = "down"
      <4> HIDE DEF NoHold
      <4> QED
        BY <3>1, <3>3 DEF ResetAfterApplied, InstanceStates
    <3> QED
      BY <1>4, <3>2, <3>3
  <2>3. pending \in PendingStates
    BY <1>1, <1>4, ValidationPolls, PolicyAssumption, PoolBounds, EngineAssumption
    DEF Inv, TypeOK, InstanceStates, PendingStates
  <2>4. state' = [reset EXCEPT !.pending_validation = pending] \/ state' = WithFreshWindow(reset)
    BY <1>4 DEF Accept, AppliedState
  <2> HIDE DEF reset, pending
  <2>5. /\ state' \in InstanceStates
        /\ state'.post_revert_up_hold = NoHold
        /\ state'.low_util_polls = 0
        /\ state'.consecutive_failed_ups = reset.consecutive_failed_ups
        /\ state'.pending_validation \in {pending, reset.pending_validation}
    <3> HIDE DEF NoHold
    <3>1. CASE state' = [reset EXCEPT !.pending_validation = pending]
      BY <2>2, <2>3, <3>1 DEF InstanceStates
    <3>2. CASE state' = WithFreshWindow(reset)
      BY <2>2, <3>2 DEF WithFreshWindow, InstanceStates
    <3> QED
      BY <2>4, <3>1, <3>2
  <2>6. HoldAccounting'
    BY <1>2, <2>2, <2>5 DEF HoldAccounting, Inv, TypeOK, InstanceStates
  <2>7. RevertRestores'
    BY <1>1, <1>2, <2>1, <2>2, <2>5 DEF RevertRestores, pending
  <2> QED
    BY <1>1, <1>2, <2>1, <2>5, <2>6, <2>7, PolicyAssumption, PoolBounds, EngineAssumption
    DEF Inv, TypeOK, MeasuringExcludesHold, DownIsSustained
<1> QED
  BY <1>1, <1>3, <1>4

\* Every step preserves the invariant.
LEMMA NextInv == Inv /\ [Next]_vars => Inv'
<1> SUFFICES ASSUME Inv, [Next]_vars PROVE Inv'
  OBVIOUS
<1>1. CASE Poll
  BY <1>1, EvaluateInv DEF Poll
<1>2. CASE Applied
  <2>1. proposal.target \in 1 .. MaxPool
    BY <1>2, PolicyAssumption, PoolBounds, EngineAssumption DEF Applied, Accept
  <2> QED
    BY <1>2, <2>1, AcceptInv DEF Applied
<1>3. CASE DryRun
  BY <1>3, AcceptInv DEF DryRun, Inv, TypeOK
<1>4. CASE NotApplied
  BY <1>4, PoolBounds, EngineAssumption
  DEF NotApplied, history, Inv, TypeOK, MeasuringExcludesHold, HoldAccounting, RevertRestores,
      DownIsSustained
<1>5. CASE Resized
  BY <1>5
  DEF Resized, history, Inv, TypeOK, MeasuringExcludesHold, HoldAccounting, RevertRestores,
      DownIsSustained
<1>6. CASE Readded
  BY <1>6, PolicyAssumption, PoolBounds, EngineAssumption
  DEF Readded, FreshState, Inv, TypeOK, InstanceStates, PendingStates, HoldStates,
      MeasuringExcludesHold, HoldAccounting, RevertRestores, DownIsSustained
<1>7. CASE UNCHANGED vars
  BY <1>7
  DEF vars, history, Inv, TypeOK, MeasuringExcludesHold, HoldAccounting, RevertRestores,
      DownIsSustained
<1> QED
  BY <1>1, <1>2, <1>3, <1>4, <1>5, <1>6, <1>7 DEF Next

\* The inductive invariant holds in every reachable state of the engine.
THEOREM Invariance == Spec => []Inv
  BY InitInv, NextInv, PTL DEF Spec

\* A paid hold is a waited-out hold.
LEMMA InvUpWaits == Inv => UpWaitsOutHold
  BY DEF Inv, HoldAccounting, UpWaitsOutHold

\* Every step preserves that a proposed scale-down carries the load.
LEMMA NextDownCarriesLoad ==
  Inv /\ DownCarriesLoad /\ [Next]_vars => DownCarriesLoad'
<1> SUFFICES ASSUME Inv, DownCarriesLoad, [Next]_vars PROVE DownCarriesLoad'
  OBVIOUS
<1>1. ASSUME NEW o \in Observations, Evaluate(o)
      PROVE  DownCarriesLoad'
  <2> DEFINE down == scale_down_target(o.util, thread_count)
  <2>1. last_util' = o.util /\ thread_count' = thread_count /\ o.thread_count = thread_count
    BY <1>1, ObservationTyped DEF Evaluate
  <2>2. proposal'.kind = "down" => proposal' = Down(down) /\ down < thread_count
    BY <1>1, <2>1
    DEF Evaluate, EvaluatedAction, PolicyAction, WantsUp
  <2>3. o.util \in 0 .. 100 /\ thread_count \in 1 .. MaxPool
    BY <1>1, ObservationTyped DEF Inv, TypeOK
  <2> HIDE DEF down
  <2>4. down < thread_count =>
          /\ o.util * thread_count <= ScaleUpThreshold * down
          /\ down >= MinThreadCount
          /\ MaxScaleDownStep > 0 => thread_count - down <= MaxScaleDownStep
    BY <2>3, ScaleDownTarget DEF down
  <2> QED
    BY <2>1, <2>2, <2>4 DEF DownCarriesLoad
<1>2. CASE proposal' = NoAction
  BY <1>2 DEF DownCarriesLoad
<1>3. CASE UNCHANGED vars
  BY <1>3 DEF DownCarriesLoad, vars, history
<1> QED
  BY <1>1, <1>2, <1>3
  DEF Next, Poll, Applied, DryRun, Accept, NotApplied, Resized, Readded

\* Every counter stays within its u32, whatever the configured durations, the
\* width of u32 and the sequence of outcomes.
THEOREM TypeCorrect == Spec => []TypeOK
  BY Invariance, PTL DEF Inv

\* Measuring an applied action, holding after a reverted scale-up and
\* collecting scale-down evidence never overlap.
THEOREM MeasuringIsExclusive == Spec => []MeasuringExcludesHold
  BY Invariance, PTL DEF Inv

\* Polls waited since a reverted scale-up and polls still to wait add up to the
\* backed-off hold at every moment.
THEOREM HoldsAddUp == Spec => []HoldAccounting
  BY Invariance, PTL DEF Inv

\* After a failed scale-up the next one waits out the whole backed-off hold.
THEOREM HoldIsWaitedOut == Spec => []UpWaitsOutHold
  BY Invariance, InvUpWaits, PTL DEF Inv

\* A scale-down is backed by an unbroken, unused run of evidence.
THEOREM DownsAreSustained == Spec => []DownIsSustained
  BY Invariance, PTL DEF Inv

\* A revert asks for the pool size the judged action replaced.
THEOREM RevertsRestore == Spec => []RevertRestores
  BY Invariance, PTL DEF Inv

\* The load seen when a scale-down is proposed fits the smaller pool at the
\* scale-up threshold.
THEOREM DownsCarryTheLoad == Spec => []DownCarriesLoad
<1>1. Init => DownCarriesLoad
  BY DEF Init, DownCarriesLoad
<1> QED
  BY <1>1, NextDownCarriesLoad, Invariance, PTL DEF Spec

\* Only a failed scale-up begins a hold, and the count of failures goes back to
\* zero only when no hold is left.
HoldIsEarned ==
  state.post_revert_up_hold # NoHold => state.consecutive_failed_ups > 0

\* Every step preserves that a hold was earned by a failure.
LEMMA NextHoldIsEarned ==
  Inv /\ HoldIsEarned /\ [Next]_vars => HoldIsEarned'
<1> SUFFICES ASSUME Inv, HoldIsEarned, [Next]_vars PROVE HoldIsEarned'
  OBVIOUS
<1> DEFINE hold == state.post_revert_up_hold
           ups == state.consecutive_failed_ups
<1>1. state \in InstanceStates /\ hold \in HoldStates /\ ups \in U32
  BY DEF Inv, TypeOK, InstanceStates
<1>2. ASSUME NEW o \in Observations, Evaluate(o)
      PROVE  HoldIsEarned'
  <2>1. state' = EvaluatedState(state, o)
    BY <1>2 DEF Evaluate
  <2>2. CASE Validating(state)
    <3>1. hold = NoHold
      BY <2>2 DEF Inv, MeasuringExcludesHold
    <3>2. state' \in {Settled(state), Kept(state), Failed(state)}
      <4>1. state.pending_validation.polls_remaining \in Nat
        BY <1>1, PolicyAssumption DEF InstanceStates, PendingStates
      <4> QED
        BY <2>1, <2>2, <4>1 DEF EvaluatedState
    <3>3. CASE state' = Settled(state)
      BY <1>1, <3>1, <3>3 DEF Settled, HoldIsEarned, InstanceStates, PendingStates
    <3>4. CASE state' = Kept(state)
      BY <1>1, <3>1, <3>4 DEF Kept, WithFreshWindow, HoldIsEarned, InstanceStates
    <3>5. CASE state' = Failed(state)
      <4>1. CASE state.pending_validation.action = "up"
        <5>1. state'.consecutive_failed_ups = SaturatingAdd(ups, 1)
          BY <1>1, <3>5, <4>1 DEF Failed, WithFreshWindow, InstanceStates
        <5> QED
          BY <1>1, <5>1, PolicyAssumption DEF HoldIsEarned
      <4>2. CASE state.pending_validation.action # "up"
        BY <1>1, <3>1, <3>5, <4>2 DEF Failed, WithFreshWindow, HoldIsEarned, InstanceStates
      <4> QED
        BY <4>1, <4>2
    <3> QED
      BY <3>2, <3>3, <3>4, <3>5
  <2>3. CASE ~Validating(state)
    <3>1. state' = Observed(state, o)
      BY <2>1, <2>3 DEF EvaluatedState
    <3>2. /\ state'.post_revert_up_hold = AdvancedHold(hold)
          /\ state'.consecutive_failed_ups = ups
      BY <1>1, <3>1 DEF Observed, InstanceStates
    <3>3. hold = NoHold => AdvancedHold(hold) = NoHold
      BY DEF AdvancedHold
    <3> QED
      BY <3>2, <3>3 DEF HoldIsEarned
  <2> QED
    BY <2>2, <2>3
<1>3. ASSUME NEW pool, Accept(pool)
      PROVE  HoldIsEarned'
  <2>1. /\ state' = AppliedState(state, proposal, thread_count)
        /\ proposal.kind \in {"up", "down", "revert"}
    BY <1>3, PoolBounds, PolicyAssumption DEF Accept, Inv, TypeOK
  <2>2. CASE proposal.kind = "revert"
    BY <2>1, <2>2 DEF AppliedState, HoldIsEarned
  <2>3. CASE proposal.kind \in {"up", "down"}
    <3> DEFINE reset == ResetAfterApplied(state, proposal)
    <3>1. reset.post_revert_up_hold = NoHold
      BY <1>1, <2>3 DEF ResetAfterApplied, InstanceStates, Inv
    <3> QED
      BY <1>1, <2>1, <2>3, <3>1
      DEF AppliedState, ResetAfterApplied, WithFreshWindow, HoldIsEarned, InstanceStates
  <2> QED
    BY <2>1, <2>2, <2>3
<1>4. CASE NotApplied \/ Resized \/ UNCHANGED vars
  BY <1>4 DEF NotApplied, Resized, vars, history, HoldIsEarned
<1>5. CASE Readded
  BY <1>5 DEF Readded, FreshState, HoldIsEarned
<1> QED
  BY <1>2, <1>3, <1>4, <1>5 DEF Next, Poll, Applied, DryRun

\* The hold after a reverted scale-up and the sustain time of a scale-down are
\* the configured times doubled once per consecutive failure and capped, for
\* every failure count, every configuration and every width of u32: neither
\* saturation nor the split of the hold into grace and recovery changes them.
THEOREM HoldsDouble == Spec => []BackoffDoubles
<1>1. Init => HoldIsEarned
  BY DEF Init, FreshState, HoldIsEarned
<1>2. Inv /\ HoldIsEarned => BackoffDoubles
  <2> SUFFICES ASSUME Inv, HoldIsEarned PROVE BackoffDoubles
    OBVIOUS
  <2> DEFINE ups == state.consecutive_failed_ups
             downs == state.consecutive_failed_downs
             total == SaturatingAdd(PostRevertUpGrace, PostRevertUpRecovery)
  <2>1. ups \in Nat /\ downs \in Nat /\ total \in U32
    BY PolicyAssumption DEF Inv, TypeOK, InstanceStates
  <2> HIDE DEF total
  <2>2. ups > 0 => HoldPolls(ups) = Doubled(total, ups - 1, PostRevertUpBackoffMax)
    <3> SUFFICES ASSUME ups > 0
                 PROVE  HoldPolls(ups) = Doubled(total, ups - 1, PostRevertUpBackoffMax)
      OBVIOUS
    <3>1. ups - 1 \in Nat
      BY <2>1
    <3>2. HoldPolls(ups) = backoff_polls(total, ups - 1, PostRevertUpBackoffMax)
      BY DEF HoldPolls, total
    <3> QED
      BY <2>1, <3>1, <3>2, BackoffIsDoubling, PolicyAssumption
  <2>3. scale_down_sustain_polls(downs) = Doubled(ScaleDownSustain, downs, ScaleDownBackoffMax)
    BY <2>1, BackoffIsDoubling, PolicyAssumption DEF scale_down_sustain_polls
  <2>4. state.post_revert_up_hold.phase = "grace" /\ since_revert = 0 =>
          state.post_revert_up_hold.polls_remaining + PostRevertUpRecovery
            = Doubled(total, ups - 1, PostRevertUpBackoffMax)
    <3> SUFFICES ASSUME state.post_revert_up_hold.phase = "grace", since_revert = 0
                 PROVE  state.post_revert_up_hold.polls_remaining + PostRevertUpRecovery
                          = HoldPolls(ups)
      BY <2>2 DEF HoldIsEarned
    <3> QED
      BY PolicyAssumption DEF Inv, HoldAccounting, TypeOK, InstanceStates, HoldStates
  <2> QED
    BY <2>3, <2>4 DEF BackoffDoubles, Inv, DownIsSustained, total
<1> QED
  BY <1>1, <1>2, NextHoldIsEarned, Invariance, PTL DEF Spec
=============================================================================
