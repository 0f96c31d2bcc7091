--------------------------- MODULE MCThresholdGain ---------------------------
(***************************************************************************)
(* The threshold engine with two more history variables: the I/O rate the  *)
(* VM had when a scale-up was applied, and the verdict of its validation.  *)
(***************************************************************************)
EXTENDS MCThresholdEngine

VARIABLES
  last_rate,    \* rate the last evaluation measured
  rate_before,  \* rate when the scale-up being validated was applied
  verdict       \* the last verdict on a scale-up

gain_vars == <<vars, last_rate, rate_before, verdict>>

GainInit ==
  /\ Init
  /\ last_rate = 0
  /\ rate_before = 0
  /\ verdict = [kept |-> FALSE, retry |-> FALSE, before |-> 0, observed |-> 0]

GainPoll ==
  \E o \in Observations :
    /\ Evaluate(o)
    /\ last_rate' = o.rate
    /\ verdict' = IF state.pending_validation.action = "up" /\ ~Validating(state')
                    THEN [kept     |-> proposal'.kind # "revert",
                          retry    |-> state.consecutive_failed_ups > 0,
                          before   |-> rate_before,
                          observed |-> o.rate]
                    ELSE verdict
    /\ UNCHANGED rate_before

GainApplied ==
  /\ Applied
  /\ rate_before' = IF proposal.kind = "up" THEN last_rate ELSE rate_before
  /\ UNCHANGED <<last_rate, verdict>>

GainSpec == GainInit /\ [][GainPoll \/ GainApplied]_gain_vars

\* README: "A scale-up is reverted unless IOPS gained at least
\* scale_up_min_gain_percent", and the post-revert hold ends with "a fresh IOPS
\* baseline for the next attempt".  With post_revert_up_recovery_secs = 0 the
\* evaluation that ends the hold starts the baseline window and proposes the
\* next scale-up with a baseline of 0, which validation_revert_target keeps
\* whatever the VM's rate did; the kept action also clears the backoff.
RetriedUpsGained ==
  verdict.kept /\ verdict.retry
    => verdict.observed * 100 >= verdict.before * (100 + ScaleUpMinGain)
=============================================================================
