----------------------------- MODULE Dashboard ------------------------------
(***************************************************************************)
(* The operator's terminal dashboard (src/bin/iothread-tui.rs): a sampler  *)
(* task that polls the daemon's GetSnapshot, a UI task that reads keys and *)
(* draws, and the SetThreadCount calls the UI spawns and forgets.  The     *)
(* tasks share the roster behind locks and a few atomics, so each step     *)
(* here is what one lock or one atomic access makes indivisible:           *)
(*                                                                         *)
(*   sampler:  sleep -> asked -> clear | note -> append -> drop -> update  *)
(*   UI:       wait (keys, drawing) -> paint -> wait                       *)
(*                                                                         *)
(* VM ids are numbers, so the roster, which the code keeps sorted by id,   *)
(* is a set.  Plotted samples, colours and what only changes how a frame   *)
(* looks (the choice of panes, columns and scales) are left out.           *)
(*                                                                         *)
(* The daemon tracks a VM from its discovery on and reads its pool size at *)
(* the next refresh; until then GetSnapshot reports the size 0.            *)
(*                                                                         *)
(* An operator named Slip... is a plausible mistake in the definition      *)
(* below it, kept to show that a property notices it.                      *)
(***************************************************************************)
EXTENDS Integers, Sequences, FiniteSets

CONSTANTS
  NumVms,             \* VM ids are 1 .. NumVms
  MaxPool,            \* largest pool the daemon accepts
  Selected,           \* VMs the --select filter lets through
  MissingStreakDrop,  \* MISSING_STREAK_DROP
  DaemonLostStreak,   \* DAEMON_LOST_STREAK
  MaxHistory,         \* MAX_HISTORY
  MaxEvents           \* bound: keys pressed, changes of the fleet, outages and recoveries

VMs == 1 .. NumVms

ASSUME DashboardAssumption ==
  /\ {NumVms, MaxPool, MissingStreakDrop, DaemonLostStreak, MaxHistory} \subseteq Nat \ {0}
  /\ Selected \subseteq VMs
  /\ MaxEvents \in Nat

VARIABLES
  \* the daemon, as its D-Bus interface shows it
  up,          \* a call reaches the daemon and is answered
  fleet,       \* [VMs -> Reports]: the pool sizes GetSnapshot reports
  \* the sampler task
  spc,
  payload,     \* the snapshot being folded in
  todo,        \* roster entries not updated from it yet
  missing,     \* missing_streak
  \* Shared
  roster,      \* the ids of `vms`
  vm,          \* [VMs -> VmState]
  paused,
  failed,      \* daemon_failed_streak, counted up to DaemonLostStreak
  error,       \* daemon_last_error is set
  \* the UI task
  upc,
  ui,          \* UiState
  lost,        \* the last drawn frame has the daemon-lost overlay
  requests,    \* spawned SetThreadCount calls the daemon has not answered
  \* bounds and history
  events,      \* how many events have happened
  chosen,      \* the VM the operator last navigated to, or opened a prompt on
  omitted      \* applied snapshots in a row without the VM, up to the drop

daemon_vars == <<up, fleet>>
sampler_vars == <<spc, payload, todo, missing, omitted>>
shared_vars == <<roster, vm, failed, error>>
vars == <<daemon_vars, sampler_vars, shared_vars, paused, upc, ui, lost, requests, events, chosen>>

-----------------------------------------------------------------------------
(* Data *)

NoVm == 0
Total == NumVms + 1         \* Focus::Total

\* A VM that is not in a snapshot, and the None of last_thread_count; a VM in a
\* snapshot has size 0 until the daemon has refreshed it
None == -1
Sizes == 0 .. MaxPool
Reports == Sizes \cup {None}
Nothing == [v \in VMs |-> None]

\* VmState::new: the LatestStatus and last_thread_count of a new row
FreshVm == [thread_count |-> 0, last |-> None, annots |-> <<>>]

\* InputPrompt: what the buffer parses to, -1 when it does not
NoPrompt == [kind |-> "none", vm |-> NoVm, sticky |-> FALSE, buffer |-> 0]
Buffers == -1 .. MaxPool

FreshUi == [focused |-> NoVm, sticky_mode |-> FALSE, show_help |-> FALSE,
            show_aggregate |-> FALSE, prompt |-> NoPrompt, picker |-> FALSE]

Wanted == {v \in Selected : payload[v] # None}

\* Roster positions count from 0
Position(v) == IF v \in roster THEN Cardinality({w \in roster : w < v}) ELSE 0
At(i) == CHOOSE v \in roster : Position(v) = i

SlipByPosition(u) == IF u.focused \in VMs /\ roster # {}
                       THEN At((u.focused - 1) % Cardinality(roster)) ELSE u.focused
\* Focus is keyed by VM id
FocusedVm(u) == u.focused

AtMost(a, b) == IF a <= b THEN a ELSE b

-----------------------------------------------------------------------------
\* main: the daemon answered the initial probe, nothing is tracked yet
Init ==
  /\ up = TRUE
  /\ fleet \in [VMs -> Reports]
  /\ spc = "sleep"
  /\ payload = Nothing
  /\ todo = {}
  /\ missing = [v \in VMs |-> 0]
  /\ roster = {}
  /\ vm = [v \in VMs |-> FreshVm]
  /\ paused = FALSE
  /\ failed = 0
  /\ error = FALSE
  /\ upc = "wait"
  /\ ui = FreshUi
  /\ lost = FALSE
  /\ requests = {}
  /\ events = 0
  /\ chosen = NoVm
  /\ omitted = [v \in VMs |-> MissingStreakDrop + 1]

-----------------------------------------------------------------------------
(* The sampler *)

Sampling(from, to) ==
  /\ spc = from
  /\ spc' = to
  /\ UNCHANGED <<daemon_vars, paused, upc, ui, lost, requests, events, chosen>>

\* The pause flag is read before the call, not after it
Wake ==
  /\ Sampling("sleep", "asked")
  /\ ~paused
  /\ UNCHANGED <<payload, todo, missing, omitted, shared_vars>>

SlipStreakSurvives ==
  /\ Sampling("asked", "append")
  /\ up
  /\ payload' = fleet
  /\ omitted' = [v \in VMs |-> IF fleet[v] # None THEN 0
                               ELSE AtMost(omitted[v] + 1, MissingStreakDrop + 1)]
  /\ UNCHANGED <<todo, missing, shared_vars>>

\* poll_daemon succeeded: the streak ends before the error text goes
Answered ==
  /\ Sampling("asked", IF failed > 0 THEN "clear" ELSE "append")
  /\ up
  /\ payload' = fleet
  /\ omitted' = [v \in VMs |-> IF fleet[v] # None THEN 0
                               ELSE AtMost(omitted[v] + 1, MissingStreakDrop + 1)]
  /\ failed' = 0
  /\ UNCHANGED <<todo, missing, roster, vm, error>>

ClearError ==
  /\ Sampling("clear", "append")
  /\ error' = FALSE
  /\ UNCHANGED <<payload, todo, missing, omitted, roster, vm, failed>>

\* poll_daemon failed: nothing is reconciled
Unanswered ==
  /\ Sampling("asked", "note")
  /\ ~up
  /\ failed' = AtMost(failed + 1, DaemonLostStreak)
  /\ UNCHANGED <<payload, todo, missing, omitted, roster, vm, error>>

SlipNoText ==
  /\ Sampling("note", "sleep")
  /\ UNCHANGED <<payload, todo, missing, omitted, shared_vars>>

NoteError ==
  /\ Sampling("note", "sleep")
  /\ error' = TRUE
  /\ UNCHANGED <<payload, todo, missing, omitted, roster, vm, failed>>

\* reconcile_with_snapshot, phases 1 and 2: VMs not tracked yet are added,
\* without any figures
Append_ ==
  /\ Sampling("append", "drop")
  /\ roster' = roster \cup Wanted
  /\ vm' = [v \in VMs |-> IF v \in Wanted \ roster THEN FreshVm ELSE vm[v]]
  /\ UNCHANGED <<payload, todo, missing, omitted, failed, error>>

SlipNeverForgiven(v) == IF v \in roster \ Wanted THEN missing[v] + 1 ELSE missing[v]

\* missing_streak after a snapshot: a VM that is there starts anew
Streak(v) == IF v \in roster \ Wanted THEN missing[v] + 1 ELSE 0

\* phase 3: a VM is dropped once its streak has passed the limit
Drop ==
  LET gone == {v \in roster : Streak(v) > MissingStreakDrop}
      left == (roster \ gone) \cap Wanted
  IN  /\ Sampling("drop", IF left = {} THEN "sleep" ELSE "update")
      /\ roster' = roster \ gone
      /\ missing' = [v \in VMs |-> IF v \in gone THEN 0 ELSE Streak(v)]
      /\ vm' = [v \in VMs |-> IF v \in gone THEN FreshVm ELSE vm[v]]
      /\ todo' = left
      /\ payload' = IF left = {} THEN Nothing ELSE payload
      /\ UNCHANGED <<omitted, failed, error>>

SlipUnbounded(annots, a) == Append(annots, a)

\* A ring of MAX_HISTORY entries
Pushed(annots, a) ==
  LET longer == Append(annots, a)
  IN  IF Len(longer) > MaxHistory THEN Tail(longer) ELSE longer

SlipFirstSeen(v) ==
  LET n == payload[v] IN
  [thread_count |-> n,
   last |-> IF vm[v].last = None THEN n ELSE vm[v].last,
   annots |-> IF vm[v].last \in {None, n} THEN vm[v].annots
              ELSE Pushed(vm[v].annots, [old_n |-> vm[v].last, new_n |-> n])]

\* snapshot_to_status, and an annotation when the thread count has changed,
\* from or to the 0 of a VM the daemon has not refreshed too
Updated(v) ==
  LET n == payload[v] IN
  [thread_count |-> n,
   last |-> n,
   annots |-> IF vm[v].last \in {None, n} THEN vm[v].annots
              ELSE Pushed(vm[v].annots, [old_n |-> vm[v].last, new_n |-> n])]

\* One VM after the other, each under its own lock; the loop then sleeps
Update ==
  LET v    == CHOOSE v \in todo : \A w \in todo : v <= w
      left == todo \ {v}
  IN  /\ Sampling("update", IF left = {} THEN "sleep" ELSE "update")
      /\ vm' = [vm EXCEPT ![v] = Updated(v)]
      /\ todo' = left
      /\ payload' = IF left = {} THEN Nothing ELSE payload
      /\ UNCHANGED <<missing, omitted, roster, failed, error>>

Sampler == Wake \/ Answered \/ ClearError \/ Unanswered \/ NoteError
             \/ Append_ \/ Drop \/ Update

-----------------------------------------------------------------------------
(* Keys.  handle_key goes to the help overlay, the prompt or the column     *)
(* picker while one is open, and to the hotkeys otherwise.                 *)

Event == events < MaxEvents /\ events' = events + 1

Key ==
  /\ upc = "wait"
  /\ Event
  /\ UNCHANGED <<daemon_vars, sampler_vars, roster, failed, error, upc, lost>>

OnScreen(u) ==
  /\ Key
  /\ ui' = u
  /\ UNCHANGED <<vm, paused, requests, chosen>>

DismissHelp == ui.show_help /\ OnScreen([ui EXCEPT !.show_help = FALSE])

AtPrompt == ~ui.show_help /\ ui.prompt.kind # "none"
AtPicker == ~ui.show_help /\ ui.prompt.kind = "none" /\ ui.picker
AtHotkeys == ~ui.show_help /\ ui.prompt.kind = "none" /\ ~ui.picker

\* request_set_thread_count: a task of its own makes the call
Spawn(v, threads, sticky) ==
  requests' = requests \cup {[nr |-> events, vm |-> v, threads |-> threads,
                              sticky |-> sticky, chosen |-> chosen]}

\* handle_input_prompt_key and commit_input_prompt
PromptCancel == AtPrompt /\ OnScreen([ui EXCEPT !.prompt = NoPrompt])
PromptType == AtPrompt /\ \E b \in Buffers : OnScreen([ui EXCEPT !.prompt.buffer = b])
PromptSticky ==
  /\ AtPrompt /\ ui.prompt.kind = "threads"
  /\ OnScreen([ui EXCEPT !.prompt.sticky = ~ui.prompt.sticky])

\* A refresh period or a limit of the y axis, 0 clearing the latter
CommitSetting ==
  /\ AtPrompt /\ ui.prompt.kind = "setting" /\ ui.prompt.buffer >= 0
  /\ OnScreen([ui EXCEPT !.prompt = NoPrompt])

CommitThreads ==
  /\ AtPrompt /\ ui.prompt.kind = "threads" /\ ui.prompt.buffer > 0
  /\ Key
  /\ ui' = [ui EXCEPT !.prompt = NoPrompt]
  /\ Spawn(ui.prompt.vm, ui.prompt.buffer, ui.prompt.sticky)
  /\ UNCHANGED <<vm, paused, chosen>>

Prompting == PromptCancel \/ PromptType \/ PromptSticky
               \/ CommitSetting \/ CommitThreads

\* handle_column_picker_key takes every key until it closes the picker
PickerClose == AtPicker /\ OnScreen([ui EXCEPT !.picker = FALSE])

-----------------------------------------------------------------------------
(* Hotkeys *)

\* q, or Esc with nothing left to undo.  The sampler is aborted; a call that
\* was spawned may or may not have left the process.
Quit ==
  /\ upc = "wait"
  /\ AtHotkeys
  /\ Event
  /\ upc' = "gone"
  /\ spc' = "gone"
  /\ UNCHANGED <<daemon_vars, payload, todo, missing, omitted, shared_vars, paused,
                 ui, lost, requests, chosen>>

\* Esc undoes one mode at a time
Escape ==
  /\ AtHotkeys
  /\ ui.focused # NoVm \/ ui.sticky_mode
  /\ OnScreen(IF ui.focused # NoVm THEN [ui EXCEPT !.focused = NoVm]
              ELSE [ui EXCEPT !.sticky_mode = FALSE])

OpenHelp == AtHotkeys /\ OnScreen([ui EXCEPT !.show_help = TRUE])
OpenSetting ==
  AtHotkeys /\ OnScreen([ui EXCEPT !.prompt = [NoPrompt EXCEPT !.kind = "setting"]])
OpenPicker == AtHotkeys /\ OnScreen([ui EXCEPT !.picker = TRUE])
ToggleStickyMode == AtHotkeys /\ OnScreen([ui EXCEPT !.sticky_mode = ~ui.sticky_mode])

\* toggle_aggregate drops a focus on the line that is no longer drawn
ToggleAggregate ==
  /\ AtHotkeys
  /\ OnScreen([ui EXCEPT !.show_aggregate = ~ui.show_aggregate,
                         !.focused = IF ui.show_aggregate /\ ui.focused = Total
                                       THEN NoVm ELSE ui.focused])

\* toggle_pause: the sampler sees it at its next turn
TogglePause ==
  /\ AtHotkeys
  /\ Key
  /\ paused' = ~paused
  /\ UNCHANGED <<ui, vm, requests, chosen>>

\* reset_autoscale forgets samples and annotations, not the last thread count
ResetAutoscale ==
  /\ AtHotkeys
  /\ Key
  /\ vm' = [v \in VMs |-> [vm[v] EXCEPT !.annots = <<>>]]
  /\ UNCHANGED <<ui, paused, requests, chosen>>

\* move_focus: the cursor wraps over the roster, and over Total while the
\* aggregate line is drawn.  Without a focus, or with one on a VM that is
\* gone, it starts from the first row.
NextFocus(d) ==
  LET n     == Cardinality(roster)
      slots == IF ui.show_aggregate /\ n >= 2 THEN n + 1 ELSE n
      cur   == IF ui.focused = Total THEN n ELSE Position(ui.focused)
      next  == (cur + d) % slots
  IN  IF n = 0 THEN NoVm ELSE IF next = n THEN Total ELSE At(next)

MoveFocus(d) ==
  /\ AtHotkeys
  /\ Key
  /\ ui' = [ui EXCEPT !.focused = NextFocus(d)]
  /\ chosen' = NextFocus(d)
  /\ UNCHANGED <<vm, paused, requests>>

\* nudge_thread_count counts from the size the last snapshot reported, 0 for a
\* VM that has just been added to the roster
Nudge(d) ==
  LET v == FocusedVm(ui)
  IN  /\ AtHotkeys
      /\ v \in roster
      /\ vm[v].thread_count + d >= 1
      /\ Key
      /\ Spawn(v, vm[v].thread_count + d, ui.sticky_mode)
      /\ UNCHANGED <<ui, vm, paused, chosen>>

\* open_set_threads_prompt keeps the VM it was opened on
OpenSetThreads ==
  LET v == FocusedVm(ui)
  IN  /\ AtHotkeys
      /\ v \in roster
      /\ OnScreen([ui EXCEPT !.prompt = [kind |-> "threads", vm |-> v,
                                         sticky |-> ui.sticky_mode,
                                         buffer |-> vm[v].thread_count]])

Hotkeys ==
  \/ Quit \/ Escape \/ OpenHelp \/ OpenSetting \/ OpenPicker
  \/ ToggleStickyMode \/ ToggleAggregate \/ TogglePause \/ ResetAutoscale
  \/ OpenSetThreads
  \/ \E d \in {-1, 1} : MoveFocus(d) \/ Nudge(d)

-----------------------------------------------------------------------------
(* Drawing *)

\* A frame is drawn after every key, and when the redraw timer fires or no key
\* came within the reader's 100 ms; nothing a key handler reads depends on it.
\* snapshot_shared reads the failure streak, ...
Draw ==
  /\ upc = "wait"
  /\ upc' = IF failed >= DaemonLostStreak THEN "paint" ELSE "wait"
  /\ lost' = (lost /\ failed >= DaemonLostStreak)
  /\ UNCHANGED <<daemon_vars, sampler_vars, shared_vars, paused, ui, requests, events, chosen>>

\* ... then the error text, without which draw_frame paints no overlay
Paint ==
  /\ upc = "paint"
  /\ upc' = "wait"
  /\ lost' = error
  /\ UNCHANGED <<daemon_vars, sampler_vars, shared_vars, paused, ui, requests, events, chosen>>

-----------------------------------------------------------------------------
(* The daemon and the world.  SetThreadCount is served for a VM that has    *)
(* been refreshed, whose number of vCPUs is therefore known, and a size it *)
(* allows; anything may refuse it.  Spawned calls are not ordered.         *)

Serve(r) ==
  /\ up
  /\ fleet[r.vm] > 0
  /\ r.threads <= MaxPool
  /\ fleet' = [fleet EXCEPT ![r.vm] = r.threads]
  /\ requests' = requests \ {r}
  /\ UNCHANGED <<up, sampler_vars, shared_vars, paused, upc, ui, lost, events, chosen>>

Refuse(r) ==
  /\ requests' = requests \ {r}
  /\ UNCHANGED <<daemon_vars, sampler_vars, shared_vars, paused, upc, ui, lost, events, chosen>>

\* The control loop discovers a VM, refreshes it, scales it, or forgets it; one
\* that is forgotten and found again between two samples is back at 0
FleetChanges ==
  /\ Event
  /\ \E v \in VMs, n \in Reports : n # fleet[v] /\ fleet' = [fleet EXCEPT ![v] = n]
  /\ UNCHANGED <<up, sampler_vars, shared_vars, paused, upc, ui, lost, requests, chosen>>

DaemonChanges ==
  /\ Event
  /\ up' = ~up
  /\ UNCHANGED <<fleet, sampler_vars, shared_vars, paused, upc, ui, lost, requests, chosen>>

Answering == \E r \in requests : Serve(r) \/ Refuse(r)
World == Answering \/ FleetChanges \/ DaemonChanges

Next == Sampler \/ DismissHelp \/ Prompting \/ PickerClose \/ Hotkeys \/ Draw \/ Paint \/ World

Spec == Init /\ [][Next]_vars

\* The runtime runs both tasks, and calls on the bus end.  Nobody has to press
\* a key, and nothing has to happen to the fleet.
Fairness == WF_vars(Sampler) /\ WF_vars(Draw) /\ WF_vars(Paint) /\ WF_vars(Answering)

FairSpec == Spec /\ Fairness

-----------------------------------------------------------------------------
(* Properties *)

Focuses == VMs \cup {NoVm, Total}
Annotations == [old_n : Sizes, new_n : Sizes]

\* The types of all state, the bound on the plotted history included: the ring
\* of annotations never outgrows MAX_HISTORY.
TypeOK ==
  /\ up \in BOOLEAN /\ paused \in BOOLEAN /\ error \in BOOLEAN
  /\ fleet \in [VMs -> Reports] /\ payload \in [VMs -> Reports]
  /\ spc \in {"sleep", "asked", "clear", "note", "append", "drop", "update", "gone"}
  /\ upc \in {"wait", "paint", "gone"}
  /\ todo \subseteq roster /\ roster \subseteq Selected
  /\ missing \in [VMs -> 0 .. MissingStreakDrop]
  /\ failed \in 0 .. DaemonLostStreak
  /\ \A v \in VMs : /\ vm[v].thread_count \in Sizes
                    /\ vm[v].last \in Reports
                    /\ \A i \in DOMAIN vm[v].annots : vm[v].annots[i] \in Annotations
                    /\ Len(vm[v].annots) <= MaxHistory
  /\ ui.focused \in Focuses /\ chosen \in Focuses
  /\ \A r \in requests : r.threads >= 1 /\ r.vm \in VMs

\* Between two samples the roster is exactly the selected VMs that one of the
\* last MISSING_STREAK_DROP + 1 answered snapshots reported, at whatever size: a
\* VM that flaps keeps its history, and one that is gone for good disappears, on
\* the omission after the MISSING_STREAK_DROP ones that are allowed (the drop
\* compares with >).  Failed polls and pauses do not count against a VM: a
\* failed poll never reaches reconcile_with_snapshot, so the rows of a daemon
\* that stays down stay.  Two comments of the code say otherwise; README.md
\* quotes them.
RosterIsRecent ==
  spc = "sleep" => roster = {v \in Selected : omitted[v] <= MissingStreakDrop}

\* The transitions drawn on a VM's line are a chain: each starts at the size
\* the one before it ended at, and the last one ends at the size the dashboard
\* knows, through rows that are dropped and come back, the ring's limit and the
\* z key.  Changes that happened while polls failed or the sampler was paused
\* are one transition.  The sizes are the reported ones: a VM that the daemon
\* found, or lost and found again, without having refreshed it is drawn going
\* from or to 0 although nobody scaled it.
TransitionsChain ==
  \A v \in VMs :
    LET a == vm[v].annots
    IN  /\ \A i \in DOMAIN a : i < Len(a) => a[i].new_n = a[i + 1].old_n
        /\ a # <<>> => a[Len(a)].new_n = vm[v].thread_count
        /\ \A i \in DOMAIN a : a[i].old_n # a[i].new_n

\* A roster that is re-sorted or shrinks under the cursor or behind an open
\* prompt never retargets a request: it is for the VM the operator last
\* navigated to.
NeverRetargets == \A r \in requests : r.vm = r.chosen

\* What a frame shows as the VM's size, if it has a row
Shown(v) == IF v \in roster THEN vm[v].thread_count ELSE None

Watching == upc # "gone" /\ ~paused

\* A dashboard that is neither paused nor left shows in the end what the daemon
\* reports, without the daemon-lost overlay, once the daemon stays reachable.
ScreenCatchesUp ==
  <>[](Watching /\ up) =>
    <>[](~lost /\ \A v \in Selected : Shown(v) = fleet[v])

\* A daemon that stays unreachable is in the end announced by the overlay.
OutageIsShown == <>[](Watching /\ ~up) => <>[]lost
=============================================================================
