-------------------------- MODULE OwnershipPromise --------------------------
(***************************************************************************)
(* What the ownership registry promises to operators, over any number of   *)
(* daemon restarts: a VM is classified once and for all, and automatic     *)
(* scaling touches a VM only after it is on record as managed              *)
(* (src/state.rs, src/README.md: vm_state_path).                           *)
(***************************************************************************)
CONSTANT VMs

VARIABLES
  managed, unmanaged,  \* the classifications on record
  scaled               \* VMs automatic scaling has touched

promised == <<managed, unmanaged, scaled>>

Init ==
  /\ managed = {}
  /\ unmanaged = {}
  /\ scaled = {}

\* A poll puts all the VMs it has met for the first time on record together
Classify(mine, theirs) ==
  /\ (mine \cup theirs) \cap (managed \cup unmanaged) = {}
  /\ mine \cap theirs = {}
  /\ managed' = managed \cup mine
  /\ unmanaged' = unmanaged \cup theirs
  /\ UNCHANGED scaled

Scale(v) ==
  /\ v \in managed
  /\ scaled' = scaled \cup {v}
  /\ UNCHANGED <<managed, unmanaged>>

Next ==
  \/ \E mine, theirs \in SUBSET VMs : Classify(mine, theirs)
  \/ \E v \in VMs : Scale(v)

Spec == Init /\ [][Next]_promised
=============================================================================
