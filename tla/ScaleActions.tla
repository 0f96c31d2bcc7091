---------------------------- MODULE ScaleActions ----------------------------
(***************************************************************************)
(* What the controller and its engine tell each other: ScaleAction and the *)
(* thread-count bounds both of them read (src/engines/mod.rs).             *)
(***************************************************************************)
EXTENDS Integers

CONSTANTS
  MinThreadCount, MaxThreadCount,  \* the configured hard limits
  MaxPool                          \* the largest pool anybody creates

ASSUME BoundsAssumption ==
  /\ MinThreadCount \in Nat \ {0}
  /\ MaxThreadCount \in Nat
  /\ MinThreadCount <= MaxThreadCount
  /\ MaxPool \in Nat
  /\ MaxThreadCount <= MaxPool

\* ScaleAction; target() is None for NoAction only
NoAction  == [kind |-> "none", target |-> 0]
Up(n)     == [kind |-> "up", target |-> n]
Down(n)   == [kind |-> "down", target |-> n]
Revert(n) == [kind |-> "revert", target |-> n]

ScaleActionSet == {NoAction} \cup [kind : {"up", "down", "revert"}, target : 1 .. MaxPool]
=============================================================================
