------------------------------ MODULE MCPinned ------------------------------
(***************************************************************************)
(* Controller with the operators' own record of which VMs they pinned with *)
(* sticky = true, for the life of the daemon.                              *)
(***************************************************************************)
EXTENDS Controller

CONSTANT a

VARIABLE pinned  \* VMs pinned by a call that succeeded, and not released since

MCVcpuCount == [v \in VMs |-> 2]

PinnedInit == Init /\ pinned = {}

\* A manual call that succeeded moves the VMs in or out of the record
Pin ==
  \E v \in instances, threads \in 1 .. MaxPool, sticky \in BOOLEAN :
    /\ ManualSet({v}, {v}, threads, sticky)
    /\ pinned' = IF sticky THEN pinned \cup {v} ELSE pinned \ {v}

PinnedNext ==
  \/ Pin
  \/ Daemon /\ UNCHANGED pinned
  \/ WatchEvent /\ UNCHANGED pinned
  \/ Exit /\ pinned' = {}

PinnedSpec == PinnedInit /\ [][PinnedNext]_<<vars, pinned>>

\* "Setting sticky=true suppresses automatic scaling for each successful VM
\* until a later debug call clears it", restarts of the daemon excepted: the
\* tick resizes no pinned VM.
PinnedIsLeftAlone == pc = "apply" => resized \cap pinned = {}
=============================================================================
