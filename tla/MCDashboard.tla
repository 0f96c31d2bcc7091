---------------------------- MODULE MCDashboard -----------------------------
(* Dashboard on a small fleet, whose VMs are at first unknown, just found or  *)
(* below the largest pool; events take them to every other size.             *)
EXTENDS Dashboard

MCInit == Init /\ \A v \in VMs : fleet[v] < MaxPool

MCSpec == MCInit /\ [][Next]_vars /\ Fairness
=============================================================================
