---------------------------- MODULE MCLostRevert -----------------------------
(***************************************************************************)
(* The threshold engine with one more history variable: what became of a   *)
(* revert that the controller did not get to, for instance because         *)
(* max_instances_adjusted_per_poll was used up by other VMs.               *)
(***************************************************************************)
EXTENDS MCThresholdEngine

VARIABLE revert    \* "none", "skipped", or "dropped": the next evaluation
                   \* does not ask for that size either

RevertInit == Init /\ revert = "none"

RevertPoll ==
  /\ Poll
  /\ revert' = IF revert # "skipped" THEN revert
               ELSE IF proposal'.target = restore THEN "none" ELSE "dropped"

RevertApplied == Applied /\ UNCHANGED revert

RevertSkipped ==
  /\ NotApplied
  /\ revert' = IF proposal.kind = "revert" THEN "skipped" ELSE revert

RevertSpec == RevertInit /\ [][RevertPoll \/ RevertApplied \/ RevertSkipped]_<<vars, revert>>

\* README: "A scale-up is reverted unless IOPS gained at least
\* scale_up_min_gain_percent", and a VM the cap leaves out of a poll is
\* "reconsidered on the next poll".  evaluate takes the pending validation out
\* of its state before it returns the revert, so the next poll knows nothing of
\* it: the pool stays at the size that failed its validation.
SkippedRevertsReturn == revert # "dropped"
=============================================================================
