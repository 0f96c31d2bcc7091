# A TLA+ model of io-thread-controller

The daemon watches the virtual machines of a host, and grows and shrinks the
pool of I/O worker threads of each one as its load changes. The modules in this
directory model its decision engine, its control loop with the ownership
registry, the discovery of VMs, the D-Bus service, the QEMU client that carries
resizes out, and the operator's terminal dashboard. TLC checks them on small
instances; TLAPS proves every safety property they are checked for, for every
fleet and every configuration.

    tlc -workers 2 -config MCController.cfg MCController
    tlapm ControllerProofs.tla

`PROJECT.json` lists the runs, the source lines behind every definition, the
hazards and which property covers each.

## 1. The system

| Part | Source | State | Operations |
|---|---|---|---|
| Threshold engine | `engines/threshold.rs` | per VM: low-utilisation count, pending validation, baseline window, post-revert hold, failure counts | `evaluate`, `on_applied`, added, removed |
| Engine interface | `engines/mod.rs` | none | `ScaleAction`, `evaluate_fleet` |
| Controller | `controller.rs` | tracked instances, ownership registry, host CPU sample | `sync_instances`, `tick`, D-Bus requests |
| Ownership registry | `state.rs` | one JSON file | `load`, `record`, `save` |
| Instance | `instance.rs` | pool size, vCPUs, class, sticky, cooldown, samples | `refresh_state` |
| Daemon loop | `daemon.rs` | poll timer, inotify stream, request channel | one event at a time |
| D-Bus service | `dbus.rs` | one-slot channel | method calls with a 30 s timeout |
| QEMU client | `backends/qemu/client.rs`, `helpers.rs`, `libvirt.rs` | cached topology | `set_thread_count`, snapshot, named-IOThread verbs |
| Discovery | `backends/mod.rs`, `backends/qemu/mod.rs`, `libvirt.rs` | libvirt connection, peer-PID cache | `discover_all` |
| Dashboard | `bin/iothread-tui.rs` | roster of VMs with status and history, missing and failure streaks, focus, prompts | sampler task, keys, drawing, spawned `SetThreadCount` calls |
| Configuration | `config.rs` | none | validation, seconds to polls |
| Output | status lines, `rolling.rs`, `per_vm_log.rs` | windows of samples, files | formatting |

**How they interact.** `daemon::run` is one `select!` loop. A poll runs
`Controller::tick` and then a discovery; an inotify event runs a discovery; a
D-Bus request is served in between. A tick refreshes every VM through its
client, writes new classifications to the registry, asks the engine for
decisions, sorts them (shrinking first) and applies them one by one, reporting
each outcome to the engine. A resize is a series of QMP commands to a QEMU that
others may talk to as well. Every D-Bus method call is a task of its own that
talks to the loop through a channel with room for one request. The dashboard is
another process, one of the callers; inside it a sampler and a UI task share
state behind locks.

**What is hard.** The control loop is single-threaded, but the world is not: VMs
stop, start and are resized between any two awaits; refreshes, resizes and
single QMP commands fail, some after having taken effect; processes die and
their PIDs return while discovery looks at their sockets; callers give up on
requests that are served later; the daemon dies anywhere and reads back only the
registry; the engine's counters, holds and validations must stay consistent over
long sequences of applied, blocked and lost actions.

**What makes each part correct.**
- Engine: waits at least as long as configured before it acts again; a revert
  restores what was there; a smaller pool can carry the load; no wait is endless.
- Controller: scales only VMs that are, and stay, classified as managed; never
  contradicts the registry; respects cap and bounds; frees workers before it
  takes more.
- Registry: what was written stays, whatever dies.
- Discovery: reports only processes that serve the socket; finds every VM that
  can be reached, and forgets the others; does not use up the sockets' backlogs.
- D-Bus service: calls take effect in the order in which they were made; what a
  caller is told is true; every call ends.
- QEMU client: does not delete an IOThread that, as far as it can know, serves a
  queue; ends every call, with the pool at the target or on the way to it.
- Dashboard: shows what the daemon reports, or that it is lost; sends requests
  to the VM the operator chose.

## 2. The modules

| Module | What it is |
|---|---|
| `ScaleActions` | the engine's decisions and the pool bounds, shared |
| `ThresholdPolicy` | the engine's arithmetic and state transitions as operators |
| `ThresholdEngine` | the engine for one VM as a state machine |
| `ThresholdEngineProofs` | its theorems |
| `Resizing` | what a caller of `set_thread_count` may count on |
| `Controller` | daemon loop, tick, registry file and manual verbs over a fleet |
| `OwnershipPromise` | abstract specification of the registry |
| `ControllerProofs` | the theorems about `Controller`, refinement included |
| `QemuPool` | the QEMU client, one QMP command per step |
| `QemuPoolProofs` | its theorems |
| `DbusService` | method calls, the channel, timeouts and the control task's side of each verb |
| `DbusServiceProofs` | its theorems |
| `Discovery` | the control-socket walk with its cache, libvirt's inventory, `sync_instances` |
| `DiscoveryProofs` | its theorems |
| `Dashboard` | the terminal UI, one lock or atomic access per step |
| `DashboardProofs` | its theorems |
| `MCThresholdEngine`, `MCController`, `MCQemuPool`, `MCDbusService`, `MCDiscovery`, `MCDashboard` | instances for TLC |
| `MCThresholdGain`, `MCLostRevert`, `MCPinned`, `MCNudge` | statements of the documentation with the history they need |

`Resizing` ties the layers together: `Controller` assumes its `Landed` and
`OnTheWay` of every backend call, and `QemuPool` is checked to provide them
(`EndsAsPromised`), and proved to (`PromiseKept` in `QemuPoolProofs`).

An operator named `Slip...` is a plausible mistake in the definition below it.
No specification uses one; putting it in the place of that definition must
violate the property it is listed with, which shows that the property bites.

### ThresholdEngine

`state` is the engine's `InstanceState`. `Poll` is one `evaluate` on an observed
utilisation and I/O rate. A proposal is then settled by `Applied`, `DryRun` or
`NotApplied` (blocked, failed or skipped). `Resized` is a pool changed by
anybody else, `Readded` a VM dropped and found again. `restore`, `since_revert`,
`low_run` and `last_util` are history: properties read them, actions do not.

The code compares I/O rates with a stored baseline; the model keeps a small
number for the rate over the window being measured, and makes the same
comparisons on it. Utilisation is an integer percentage. Counters are `u32`:
`U32Max` is the width's limit, saturating operations saturate and the one
unchecked increment wraps, as in a release build.

### Controller

The engine is arbitrary: `EvaluateFleet` takes any decision for any VM it may be
asked about (`FleetAware` decides whether pinned VMs are among them), so what is
shown here holds for every engine. A tick is cut at every point where the world
can interfere:

    idle -> persist [-> save] -> evaluate -> apply, once per decision -> sync -> idle

`pool` is the truth at the hypervisor, `status[v].thread_count` what the daemon
believes. `Refresh` drops the VMs whose snapshot fails, with everything known
about them; `Sync` takes any subset of the running VMs as found (`Discovery` has
the details). `ApplySkipped`, `ApplyDryRun`, `ApplySuccess` and `ApplyFailed`
are the four outcomes of `apply_engine_decision`, with its guards in order in
`BlockedReason`. `Exit` is a crash, a signal or an error that ends `run`; only
`disk` and the pools survive it. The save is one step, because the code writes a
temporary file and renames it. `SetThreadCount` and `SetAllThreadCounts` are the
manual verbs as the fleet sees them; they resize pools in a dry run too, which
only keeps the engine's decisions from being carried out. The code compares
`cooldown_until` with the clock; the model keeps the time that is left, and
`TimePasses` shortens it between events (a cooldown that ends inside a tick is
the next tick's case). `Refreshed` takes the pool's size as reported; a QEMU
without metrics reports its cached size, which to a tick looks like a pool
resized after the refresh (`VmResized`).

### DbusService

`call[c]` is one method call in progress: `idle -> sending -> waiting -> idle`.
`Issue` starts it, `Accept` is `tx.send(..).await` getting room (tokio serves
senders in order), `Timeout` the 30 s that start only after that, and it leaves
the request where it is. On the other side `Receive` takes a request between
polls, `SetOne` and `FailOne` are `handle_set_thread_count` VM by VM, and
`Reply` is a send that is lost when the caller is gone. `BeginPoll` and
`EndPoll` stand for everything else the control task does. `Exit` closes the
channel and every reply at any point; `Start` is the next `run`. The verbs are
set one, set all, read (`GetStats`, `GetSnapshot`) and named (add, remove and
remap an IOThread). The last kind always fails: `Instance::new` boxes a client
that is boxed already, and the boxed client has only the trait's default methods,
which answer `NotSupported`. `serving` is a set, although the code serves one
request at a time, so that a mistake which spawned the handler can be expressed.

### Discovery

`walk` is `discover_via_control_socket`, a helper for backends that are found by
a socket; in this tree only its own tests call it, and QEMU is found through
libvirt. It is cut at every system call: `Stat` the
socket file, `Check` the cached peer against inode and start time, `Dial` the
socket for the peer's credentials, `Stamp` its start time into the cache,
`EndWalk` prunes. `lib` is `QemuBackend::discover`: the connection is opened once
and kept, `"dead"` after libvirtd ended. It follows the walk instead of running
beside it: the two share no state, so their steps commute. `Sync` is
`sync_instances`, which keeps the instance of a VM that is tracked already.

The world (`Spawn`, `Die`, `Bind`, `Unlink`, `Backlog`, `DirectoryChanges`,
`DomainChanges`, `LibvirtdChanges`) and failing calls (`SocketFault`,
`DomainFault`, `RefreshFault`) come between any two of these. Three things are
assumed of the world: a freed inode number is not given to the next socket (as
on tmpfs, where the sockets live); a process that goes on living unlinks a socket
it stops serving; and a PID is not reused between two consecutive system calls.
Without the first two the cache could be right about file and process and wrong
about who listens; the code has no defence against that.

### QemuPool

`objects` and `mapping` are QEMU's, `iothreads` is the client's cached topology.
Each of the five QMP commands of a resize is a step that is refused, done, or
done with its reply lost. Commands QEMU has a reason to refuse (an identifier
that exists, an object that does not) are refused without limit; otherwise
`MaxFaults` bounds the failures. `Dropped` lets the client die at any step.
`Meddle` is another user of the monitor, or the guest restarted. `metrics` is
whether QEMU knows `x-query-prometheus-metrics`, without which the client works
from an empty cache. Identifiers are numbers with a sort key, since the code
sorts `iot10` before `iot2`. `blind` is history: it records that queues were
mapped without the client's knowledge while a call had an IOThread to delete.
That happens in two ways. A `MapUp` takes effect, its reply is lost, and the
`Rollback` that follows deletes the IOThread the queues are on; or somebody else
maps queues between the command that adds or unmaps an IOThread and the one that
deletes it. `EveryQueueServed` excepts these two and nothing else.

### Dashboard

The sampler goes `sleep -> asked -> clear | note -> append -> drop -> update`:
it reads the pause flag, asks the daemon, notes success or failure in two
separate accesses (streak, then text), and folds a snapshot in phase by phase;
each VM is updated under its own lock. `fleet` is what `GetSnapshot` reports:
`None` for a VM that is not tracked, and 0 for one that is tracked and has not
been refreshed, since `sync_instances` inserts it before its size is read. A VM
of size 0 has its row like any other, and going from or to 0 draws an
annotation. The UI task handles one key at a time:
help, prompt and column picker take the keys while they are open
(`AtPrompt`, `AtPicker`, `AtHotkeys`). The prompts for the refresh period and for
the limit of the y axis are one kind (`"setting"`), as neither value matters
here; the column picker is open or closed. Drawing reads the failure streak and
the error text in two steps (`Draw`, `Paint`). `requests` are the calls spawned
and forgotten; the daemon serves or refuses them in any order. `FleetChanges`
and `DaemonChanges` are the daemon's side. `chosen` (where the operator last
navigated to) and `omitted` (snapshots in a row without the VM) are history.

## 3. What is checked

| Run | Question | Bounds |
|---|---|---|
| `engine` | Does the engine wait, back off, revert and size as configured, and does every hold end? | pools to 4, four utilisations, three rates, `U32Max` 7 so that saturation and wrapping happen; fairness |
| `controller` | Are only managed VMs scaled, through crashes and failures; does a tick free workers before it takes more; is the registry's promise implemented? | 2 VMs, pools to 3, no cap, one crash |
| `controller_dry_run` | Does a dry run keep to the cap and start cooldowns as configured, and is a tracked VM classified on disk at last? | 2 VMs, pools to 2, cap 1, cooldown 1, one crash; fairness |
| `dbus` | Do calls take effect in order, tell the truth and end? | 2 callers, 3 calls, 2 VMs, channel of 1, one exit; fairness |
| `discovery` | Is every reported PID right, and do inventory, cache and connections settle? | 2 sockets, 2 PIDs, 1 domain, 3 events; fairness |
| `qemu` | Is every queue served, and does every call end as promised? | 4 identifiers, 3 queues, 2 faults, 1 change from outside; fairness |
| `dashboard` | Does the roster remember the right VMs, do requests go where the operator pointed, does the screen follow the daemon? | 2 VMs, pools to 2, drop after 1 miss, lost after 2 failures, 2 annotations, 4 events, pools below the largest at first; fairness |
| `engine_gain`, `lost_revert`, `controller_cap`, `pinned`, `nudge` | statements of the documentation that the code does not keep | as small as shows it |

**Why the bounds suffice.** Two VMs are what ordering and the cap need (one
shrinks, one grows; one is over the limit). Pools up to 3 have room for a resize
that fails in the middle. One crash at any step, with the file as all that
remains, is the general case: a second one starts from the same kind of state.
The theorems of section 4 drop the bounds. Two faults in `QemuPool` are a failed
mapping and its failed rollback, the longest chain one step of a resize has;
three queues over up to four workers spread evenly and unevenly. Three calls of
two callers in `DbusService` fill the channel with one request in service, one
queued and one waiting for room, and let one caller time out and try again.
Three events in `Discovery` are what a wrong answer from the cache takes: the
server dies, its PID returns, and the socket is bound by another. In `Dashboard`
a VM goes, returns and is resized while a prompt is open on it within four
events; polls are not counted, so streaks run to their limits.

**Properties of the engine.** `MeasuringExcludesHold`: measurement, hold and
sustain run never overlap. `HoldAccounting` and `UpWaitsOutHold`: a retried
scale-up comes after every poll of the backed-off hold. `DownIsSustained`: a
scale-down needs an unbroken run of evidence, never used twice.
`BackoffDoubles`: the saturating arithmetic is the doubling the documentation
describes. `RevertRestores`: a revert names the size from before the judged
action. `DownCarriesLoad`: the smaller pool fits the load. `EveryHoldEnds`.

**Properties of the control loop.** `OwnershipAgrees`: registry, file and
tracked VMs never contradict each other, so the error returns that would end the
daemon are unreachable. `ScaledAreManaged`: a VM the loop ever touched is on
disk as managed. `KeepsPromise`: `Controller` implements `OwnershipPromise`.
`NeverOvershoots`: by the sizes the tick knows. `CapHolds`,
`TrackedIsClassified`.

**Properties of the D-Bus service.** `RetryWins`: a request that timed out and
is served late never undoes the retry, since both go through the one channel.
`ToldIsTrue`: a success means the VM has the size and the pin, and the failures
`SetAllThreadCounts` counts are all there were. `EveryCallEnds`: even the wait
for the channel, on which no timer runs.

**Properties of discovery.** `ReportsServers`: each PID reported served the
socket during the pass, whatever was reused. `CacheIsPruned`,
`InventoryConverges` (one unreachable socket does not hide the others) and
`BacklogIsSpared` (no more connections once the cache is warm): what holds for
good when the world has settled.

**Properties of the client.** `EveryQueueServed`: no queue is on a deleted
IOThread, the two exceptions of section 2 apart. `EndsAsPromised`,
`SuccessSpreads`, `OneFaultIsClean`, `CallsEnd`.

**Properties of the dashboard.** `RosterIsRecent`: the roster is exactly the VMs
reported lately, flapping, failed polls and pauses included.
`TransitionsChain`: the changes of size drawn join up. `NeverRetargets`: a roster
that changes under the cursor or a prompt does not redirect a request.
`ScreenCatchesUp`, `OutageIsShown`.

### Where the code and its documentation disagree

- **`pinned`.** `README.md` says `sticky=true` suppresses automatic scaling
  "until a later debug call clears it", a restart excepted. The pin is part of
  the instance, and one failed refresh or one discovery that missed the VM (a
  busy control socket is enough) replaces the instance.
- **`engine_gain`.** A scale-up "is reverted unless IOPS gained at least
  `scale_up_min_gain_percent`". With `post_revert_up_recovery_secs` at 0 a
  retried scale-up has a baseline of 0 and is always kept.
- **`lost_revert`.** A VM the cap leaves out is "reconsidered on the next poll".
  The engine has forgotten the pending validation by the time it proposes a
  revert; a revert that the cap skips, a guard blocks or the backend fails is
  not proposed again, and the pool stays at the size that failed.
- **`controller_cap`.** `max_instances_adjusted_per_poll` is "Most VMs resized
  per poll". A resize that fails half-way is not counted.
- **`nudge`.** `+` adds a thread. It asks for one more than the size of the last
  sample, so presses between two samples are lost, and on a VM whose first
  sample is being folded in the size is still 0 and `+` shrinks the pool to 1.
- **`RosterIsRecent`** of run `dashboard` holds, and two comments of
  `iothread-tui.rs` disagree with it. Lines 393-396: "Drop a vm after this many
  consecutive snapshots that omit it"; the code compares with `>` (line 553) and
  drops on the one after. Lines 680-683: "if it stays down long enough,
  `reconcile_with_snapshot` will time the tracked instances out on its "missing
  streak" counter"; a failed poll never reaches `reconcile_with_snapshot`, and the
  rows of a daemon that is down stay, under the overlay.
- **`TransitionsChain`**, likewise. Lines 182-185 call an annotation "every
  actuation". A VM first reported with size 0 is drawn going from 0 to its size,
  and one that is lost and found again within a poll going to 0 and back, although
  nobody scaled either.

Seen while reading, without a run because nothing here depends on them: the
README documents the dashboard key `A`, which `handle_key` does not have; its `r`
prompt is documented in milliseconds and takes seconds; the named-IOThread verbs are
documented and always answer `NotSupported` (see `DbusService`); an `include` is
resolved relative to the working directory, not to the including file.

### Fairness

- `ThresholdEngine`: the interval timer keeps polling, and each proposal is
  settled within its tick.
- `Controller`: weak fairness of the daemon's own steps, restart included (the
  service file says `Restart=on-failure`; a daemon the operator stops for good
  is not covered). Strong fairness of starting a tick: watch events and
  requests may disable it again and again, and `select!` picks a ready branch
  at random, so none starves the timer for ever.
- `DbusService`: backend calls and polls end, and room in the channel is used.
  Strong fairness of `Receive`, for the same reason as above. None of the 30 s
  timer: calls must end without it.
- `Discovery`: polls go on, and each pass's system calls return.
- `QemuPool`: a QMP command is answered. libvirt fails pending commands when
  the guest goes away.
- `Dashboard`: the runtime runs sampler and UI task, and calls on the bus end.

No fairness is assumed of VMs, operators, failures or successes.

## 4. What is proved

The proofs assume only the named `ASSUME`s of the constants: what configuration
validation enforces, and finiteness of the fleet. TLC evaluates each of them.

**Engine** (`ThresholdEngineProofs`): `TypeCorrect`, `MeasuringIsExclusive`,
`HoldsAddUp`, `HoldIsWaitedOut`, `DownsAreSustained`, `RevertsRestore`,
`DownsCarryTheLoad`, `HoldsDouble`. All follow from the inductive `Inv`. `UpWaitsOutHold` is not
inductive by itself, as it speaks of the poll that proposes only;
`HoldAccounting` says of every intermediate state that the polls waited and the
polls left add up to the hold owed. Likewise `DownIsSustained` needs
`low_util_polls <= low_run` (the wrapping counter can only be behind), and
`RevertRestores` needs the baseline of the pending validation. `DownCarriesLoad`
follows from the step alone, by a lemma about the ceiling division.
`HoldsDouble` (`BackoffDoubles`) needs one more invariant, `HoldIsEarned`: while a
hold lasts the count of failed scale-ups is not zero, so the exponent is a
natural number. The rest is `BackoffIsDoubling`: saturating at the power, at the
product and at the cap equals doubling without bounds and capping once. That
`2^n` is positive for every `n` comes without induction from the library's
theorem about power sets.

**Control loop** (`ControllerProofs`): `TypeCorrect`,
`OwnershipNeverConflicts`, `ScaledVmsAreManaged`, `TicksNeverOvershoot`,
`CapIsKept` and the refinement `PromiseKept`. The strengthening
has two parts. `RegistryInv`: outside a save the registry is the file, and from
the save on every tracked VM has its class in it; so whatever the apply step
touches is on disk. `PlanInv`: the VMs still in the plan are not resized yet,
and once the tick has grown the fleet nothing in the plan shrinks a pool; so
the peak is at an end. `PromiseKept` maps the file to the promise's two sets;
each step is a `Classify`, a `Scale` or a stutter.

**D-Bus service** (`DbusServiceProofs`): `TypeCorrect`,
`LateRequestsNeverWin` (`RetryWins`) and `SuccessIsTrue` (`ToldIsTrue`), for any
number of callers and any capacity of the channel. `InOrder` says that the
numbers of the calls on their way increase from the request in service through
the channel to the senders, and that what was last set was asked for no later
than any of them; so setting a size never goes back. `TruthInv` adds that a
request is served with no poll in between (`Alone`), that it is the one its
caller waits for or was given up on (`Matches`), and that the VMs done with and
not reached are no more than the failures counted (`Accounted`); an empty
`todo` then gives the claim.

**QEMU client** (`QemuPoolProofs`): `TypeCorrect`, `QueuesServed`,
`PromiseKept`, `QueuesSpread`, `OneFaultLeavesNothing`, for any number of queues
and identifiers, any order in which identifiers sort (the topology is sorted by
name, so `10` comes before `2`) and any number of faults and foreign changes.
The properties speak of ended calls, so `Core` says where a call in progress
stands. `Place`: what the loop head has established. `Served`: no queue is on an
object that is about to go, unless `blind` (`QueuesServed` has the same two
exceptions as the property). `Counted`: how many objects there are, compared with
what the call found. `Spread`: which mapping the last command set. `Clean`:
which objects the client does not know of. The lemmas below it are about the
data: a smaller cache leaves a free identifier (pigeonhole), inserting in order
keeps identifiers distinct, and round robin gives any two workers loads that
differ by at most one (`RoundRobinSpreads`, by matching the queues of one with
those of the other).

**Discovery** (`DiscoveryProofs`): `TypeCorrect` and `ServersReported`
(`ReportsServers`), for any sockets, processes and number of events. The
property follows what was found; the invariant follows what the walk is about to
trust. `Peers`: a cached peer with the socket's inode is the process that bound
it. `Vouched`: a peer that `Check` would take from the cache was serving when
the identity was read. `Dialled`: a peer connected to is on record, and if the
file is still the same, it will be remembered under its own start time. All rest
on inode numbers and start times that are not given out twice; `Drift` is what
any step of the world then leaves true, so one lemma covers them all. The three
assumptions on the world named in section 2 are part of the model, and the
theorem holds under them.

**Dashboard** (`DashboardProofs`): `TypeCorrect`, `RosterKeptRecent`,
`HistoryChains`, `RequestsKeepTheirTarget`, for any fleet, history length and
limits of the streaks. `NeverRetargets` needs `Sound`: cursor
and prompt are on the VM the operator chose, whatever happens to the roster.
`RosterIsRecent` needs `Streaks`: the count kept per VM is the number of
snapshots it was missing from, and one behind while a snapshot is folded in;
and `Worklist`: what is left to update is in the snapshot and in the roster.
`TransitionsChain` needs that the last size seen, once there is one, is the size
shown, and that dropping the oldest event leaves a chain; sizes are compared as
reported, 0 included.

**Only model-checked.** Liveness (`EveryHoldEnds`, `TrackedIsClassified`,
`EveryCallEnds`, `CallsEnd`, `CacheIsPruned`, `InventoryConverges`,
`BacklogIsSpared`, `ScreenCatchesUp`, `OutageIsShown`): reasoning from fairness
is out of the prover's reach. The runs that expect a violation are
counterexamples and need no proof.

## 5. What is not modelled

- Configuration: sequential start-up code. What its validation guarantees is in
  the `ASSUME`s.
- Rolling metrics, and the sampling of CPU, PSI, cgroups and block statistics:
  arithmetic on readings, whose results are the engine's inputs.
- The QEMU client's named-IOThread methods: nothing reaches them (see
  `DbusService`).
- Parsing of metrics, XML and JSON; status lines; log files; the dashboard's
  plots, panes, columns, scales, colours and layout; the set-up of inotify; packaging. No control state
  depends on them.
- Time is discrete, and only cooldowns measure it. Poll counts stand for the
  engine's durations, as in the code after start-up.

## 6. Plan

Done: all modules above, and a theorem for every invariant and every action
property the runs check, the refinement of the ownership promise included. Next:

1. `QemuPool` as an implementation of `Resizing` step by step: an abstract
   specification of one call whose pool moves towards the target, refined by
   the client, in place of the statement about ended calls.
2. The safety part of the liveness properties: what one undisturbed pass of
   `Discovery`, or one undisturbed sample of `Dashboard`, establishes.
