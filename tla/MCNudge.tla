------------------------------ MODULE MCNudge -------------------------------
(* One VM and an operator who presses + on it; nobody else resizes anything  *)
(* and the daemon serves every call.                                         *)
EXTENDS Dashboard

VARIABLE pressed    \* how often + was pressed

NudgeInit == Init /\ fleet = [v \in VMs |-> 2] /\ pressed = 0

NudgeNext ==
  \/ Nudge(1) /\ pressed' = pressed + 1
  \/ /\ Sampler \/ Draw \/ Paint \/ (\E r \in requests : Serve(r)) \/ MoveFocus(1)
     /\ UNCHANGED pressed

NudgeSpec == NudgeInit /\ [][NudgeNext]_<<vars, pressed>>

\* "+" asks the daemon to add one thread to the focused VM, and pressing it
\* three times adds three: once every call is served, the pool has grown by as
\* many threads as there were presses.
PressesAddUp == requests = {} => \A v \in VMs : fleet[v] = 2 + pressed
=============================================================================
