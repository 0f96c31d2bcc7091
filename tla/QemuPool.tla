------------------------------ MODULE QemuPool ------------------------------
(***************************************************************************)
(* One VM's IOThread pool as the QEMU client resizes it                    *)
(* (src/backends/qemu/client.rs, helpers.rs, libvirt.rs).                  *)
(*                                                                         *)
(* set_thread_count is a loop of QMP commands, each a step of its own:     *)
(*                                                                         *)
(*   grow by one:    add -> map_up [-> rollback, when the mapping fails]   *)
(*   shrink by one:  map_down -> del                                       *)
(*                                                                         *)
(* Between two commands the daemon may die and anybody else may use the    *)
(* monitor.  A command may be refused, or take effect and have its reply   *)
(* lost; libvirt reports both as an error.  Whether QEMU lets go of an     *)
(* object that still serves queues is left open: it may.                   *)
(*                                                                         *)
(* The controller serves a VM's calls one at a time, so there is one call. *)
(* An operator named Slip... is a plausible mistake in the definition      *)
(* below it, kept to show that a property notices it.                      *)
(***************************************************************************)
EXTENDS Resizing, FiniteSets, Sequences

CONSTANTS
  MaxId,        \* bound: the managed identifiers are iot0 .. iot<MaxId>
  Key,          \* [Ids -> Nat]: where an identifier sorts ("iot10" < "iot2")
  VqCount,      \* command virtqueues of the virtio-scsi device
  MaxTarget,    \* bound: the largest worker count asked for
  MaxFaults,    \* bound: commands that go wrong
  MaxMeddling   \* bound: how often somebody else changes the topology

Ids == 0 .. MaxId
Vqs == 0 .. VqCount - 1

ASSUME QemuAssumption ==
  /\ MaxId \in Nat
  /\ Key \in [Ids -> Nat]
  /\ \A i, j \in Ids : Key[i] = Key[j] => i = j
  /\ VqCount \in Nat \ {0}
  /\ MaxTarget \in 1 .. MaxId
  /\ MaxFaults \in Nat
  /\ MaxMeddling \in Nat

VARIABLES
  \* QEMU
  objects,    \* the managed IOThread objects that exist
  mapping,    \* [Vqs -> Ids]: the IOThread serving each queue
  metrics,    \* it has x-query-prometheus-metrics; never changes
  \* the client
  iothreads,  \* the cached topology, sorted
  ready,      \* a snapshot has succeeded: the controller makes calls
  pc,
  target,     \* the call's argument
  id,         \* the object being added or removed
  result,     \* of the last call
  \* history and bounds, read by the properties and guards only
  call,       \* what the last call started from and met
  faults,     \* commands that went wrong
  meddling,   \* changes made by somebody else
  blind       \* queues have been mapped, unknown to the client, while a call had an
              \* IOThread of its own to delete: it may have deleted one that serves

qemu == <<objects, mapping>>
client == <<iothreads, ready>>
vars == <<qemu, metrics, client, pc, target, id, result, call, faults, meddling, blind>>

-----------------------------------------------------------------------------
(* Identifier and mapping helpers *)

Elements(s) == {s[k] : k \in 1 .. Len(s)}

\* What a snapshot of the topology caches: the identifiers, sorted
Sorted(S) ==
  {s \in [1 .. Cardinality(S) -> S] : \A j, k \in 1 .. Cardinality(S) :
                                         j < k => Key[s[j]] < Key[s[k]]}

SlipNextAfterLast(s) == IF s = <<>> THEN 0 ELSE s[Len(s)] + 1

\* next_qemu_iothread_id
NextId(s) == CHOOSE i \in Ids \ Elements(s) : \A j \in Ids \ Elements(s) : i <= j

\* push and sort
Inserted(s, i) ==
  LET before == Cardinality({k \in 1 .. Len(s) : Key[s[k]] < Key[i]})
  IN  [k \in 1 .. Len(s) + 1 |-> IF k <= before THEN s[k]
                                 ELSE IF k = before + 1 THEN i ELSE s[k - 1]]

SlipSkipsLast(s) == [q \in Vqs |-> IF Len(s) = 1 THEN s[1] ELSE s[(q % (Len(s) - 1)) + 1]]

\* round_robin_vq_mapping
RoundRobin(s) == [q \in Vqs |-> s[(q % Len(s)) + 1]]

SlipKeepsDoomed(s) == s
Remaining(s) == SubSeq(s, 1, Len(s) - 1)

-----------------------------------------------------------------------------
NoCall == [from |-> 0, knew |-> 0, strays |-> {}, failures |-> 0, lost |-> FALSE,
           meddled |-> FALSE]

Init ==
  /\ objects \in (SUBSET Ids) \ {{}}
  /\ mapping \in [Vqs -> objects]
  /\ metrics \in BOOLEAN
  /\ iothreads = <<>>
  /\ ready = FALSE
  /\ pc = "idle"
  /\ target = 0
  /\ id = 0
  /\ result = "none"
  /\ call = NoCall
  /\ faults = 0
  /\ meddling = 0
  /\ blind = FALSE

\* get_thread_pool_snapshot: a successful one replaces the cache; where the
\* metrics command is missing it leaves it alone.
Snapshot ==
  /\ pc = "idle"
  /\ ready' = TRUE
  /\ IF metrics
       THEN objects # {} /\ \E s \in Sorted(objects) : iothreads' = s
       ELSE UNCHANGED iothreads
  /\ result' = "none"
  /\ call' = NoCall
  /\ UNCHANGED <<metrics, qemu, pc, target, id, faults, meddling, blind>>

\* The client is gone with its instance: the daemon died, in the middle of a
\* call or not, or a failed snapshot made the controller drop the VM.  The
\* VM's next client starts with an empty cache.
Dropped ==
  /\ iothreads' = <<>>
  /\ ready' = FALSE
  /\ pc' = "idle"
  /\ result' = "none"
  /\ call' = NoCall
  /\ UNCHANGED <<metrics, qemu, target, id, faults, meddling, blind>>

-----------------------------------------------------------------------------
(* set_thread_count *)

\* The head of its loops, for a cache s
Continue(s, n) ==
  /\ pc' = CASE Len(s) < n -> "add" [] Len(s) > n -> "map_down" [] Len(s) = n -> "idle"
  /\ result' = IF Len(s) = n THEN "ok" ELSE "none"

Fail == pc' = "idle" /\ result' = "err"

set_thread_count(n) ==
  /\ pc = "idle"
  /\ ready
  /\ target' = n
  /\ Continue(iothreads, n)
  /\ call' = [NoCall EXCEPT !.from = Cardinality(objects), !.knew = Len(iothreads),
                            !.strays = objects \ Elements(iothreads)]
  /\ UNCHANGED <<metrics, qemu, client, id, faults, meddling, blind>>

\* A QMP command's outcome: refused, done, or done with the reply lost.  One
\* that QEMU has no reason to refuse goes wrong MaxFaults times at most.  A
\* call's failures are counted up to two.
Command(acceptable, outcome) ==
  /\ outcome # "refused" => acceptable
  /\ IF outcome = "done" \/ ~acceptable
       THEN UNCHANGED faults
       ELSE faults < MaxFaults /\ faults' = faults + 1
  /\ call' = [call EXCEPT !.failures = IF outcome = "done" \/ @ = 2 THEN @ ELSE @ + 1,
                          !.lost = @ \/ outcome = "lost"]

Outcomes == {"done", "refused", "lost"}

\* scale_up: object-add
AddIoThread(outcome) ==
  /\ pc = "add"
  /\ id' = NextId(iothreads)
  /\ Command(id' \notin objects, outcome)
  /\ objects' = IF outcome = "refused" THEN objects ELSE objects \cup {id'}
  /\ IF outcome = "done" THEN pc' = "map_up" /\ UNCHANGED result ELSE Fail
  /\ UNCHANGED <<metrics, mapping, client, target, meddling, blind>>

SlipForgetsRollback(outcome) ==
  /\ pc = "map_up"
  /\ LET new_set == Inserted(iothreads, id)
     IN  /\ Command(metrics /\ Elements(new_set) \subseteq objects, outcome)
         /\ mapping' = IF outcome = "refused" THEN mapping ELSE RoundRobin(new_set)
         /\ IF outcome = "done" THEN iothreads' = new_set /\ Continue(new_set, target)
                                ELSE Fail /\ UNCHANGED iothreads
  /\ blind' = (blind \/ outcome = "lost")
  /\ UNCHANGED <<metrics, objects, ready, target, id, meddling>>

SlipForgetsCache(outcome) ==
  /\ pc = "map_up"
  /\ Command(metrics /\ Elements(Inserted(iothreads, id)) \subseteq objects, outcome)
  /\ mapping' = IF outcome = "refused" THEN mapping ELSE RoundRobin(Inserted(iothreads, id))
  /\ IF outcome = "done" THEN pc' = "idle" /\ result' = "ok"
                         ELSE pc' = "rollback" /\ UNCHANGED result
  /\ blind' = (blind \/ outcome = "lost")
  /\ UNCHANGED <<metrics, objects, client, target, id, meddling>>

\* scale_up: the new mapping.  Without metrics the client knows no device and
\* no queues, and its own checks refuse the command.
MapUp(outcome) ==
  /\ pc = "map_up"
  /\ LET new_set == Inserted(iothreads, id)
     IN  /\ Command(metrics /\ Elements(new_set) \subseteq objects, outcome)
         /\ mapping' = IF outcome = "refused" THEN mapping ELSE RoundRobin(new_set)
         /\ IF outcome = "done"
              THEN iothreads' = new_set /\ Continue(new_set, target)
              ELSE pc' = "rollback" /\ UNCHANGED <<iothreads, result>>
  /\ blind' = (blind \/ outcome = "lost")
  /\ UNCHANGED <<metrics, objects, ready, target, id, meddling>>

\* scale_up: object-del of the new object after a failed mapping; its own
\* failure is only logged
Rollback(outcome) ==
  /\ pc = "rollback"
  /\ Command(id \in objects, outcome)
  /\ objects' = IF outcome = "refused" THEN objects ELSE objects \ {id}
  /\ Fail
  /\ UNCHANGED <<metrics, mapping, client, target, id, meddling, blind>>

\* scale_down: the mapping without the last IOThread
MapDown(outcome) ==
  /\ pc = "map_down"
  /\ Len(iothreads) > 1
  /\ id' = iothreads[Len(iothreads)]
  /\ LET remaining == Remaining(iothreads)
     IN  /\ Command(Elements(remaining) \subseteq objects, outcome)
         /\ mapping' = IF outcome = "refused" THEN mapping ELSE RoundRobin(remaining)
  /\ IF outcome = "done" THEN pc' = "del" /\ UNCHANGED result ELSE Fail
  /\ UNCHANGED <<metrics, objects, client, target, meddling, blind>>

SlipRetriesAtOnce(outcome) ==
  /\ pc = "del"
  /\ Command(id \in objects, outcome)
  /\ objects' = IF outcome = "refused" THEN objects ELSE objects \ {id}
  /\ IF outcome = "done"
       THEN iothreads' = Remaining(iothreads) /\ Continue(iothreads', target)
       ELSE UNCHANGED <<iothreads, pc, result>>
  /\ UNCHANGED <<metrics, mapping, ready, target, id, meddling, blind>>

\* scale_down: object-del
DelIoThread(outcome) ==
  /\ pc = "del"
  /\ Command(id \in objects, outcome)
  /\ objects' = IF outcome = "refused" THEN objects ELSE objects \ {id}
  /\ IF outcome = "done"
       THEN iothreads' = Remaining(iothreads) /\ Continue(iothreads', target)
       ELSE Fail /\ UNCHANGED iothreads
  /\ UNCHANGED <<metrics, mapping, ready, target, id, meddling, blind>>

-----------------------------------------------------------------------------
(* Somebody else at the monitor, or the guest restarted under the same UUID *)

Meddle ==
  /\ meddling < MaxMeddling
  /\ meddling' = meddling + 1
  /\ blind' = (blind \/ pc \in {"map_up", "rollback", "del"})
  /\ \E S \in (SUBSET Ids) \ {{}} :
       /\ objects' = S
       /\ \/ mapping' = mapping /\ \A q \in Vqs : mapping[q] \in S
          \/ \E s \in Sorted(S) : mapping' = RoundRobin(s)
  /\ call' = [call EXCEPT !.from = @ + Cardinality(objects') - Cardinality(objects),
                          !.meddled = TRUE]
  /\ UNCHANGED <<metrics, client, pc, target, id, result, faults>>

-----------------------------------------------------------------------------
Step == \E o \in Outcomes :
          AddIoThread(o) \/ MapUp(o) \/ Rollback(o) \/ MapDown(o) \/ DelIoThread(o)

Next ==
  \/ Snapshot
  \/ Dropped
  \/ \E n \in 1 .. MaxTarget : set_thread_count(n)
  \/ Step
  \/ Meddle

Spec == Init /\ [][Next]_vars

\* A command is answered, one way or the other
FairSpec == Spec /\ WF_vars(Step)

-----------------------------------------------------------------------------
\* Every variable holds a value of its type.
TypeOK ==
  /\ objects \subseteq Ids
  /\ mapping \in [Vqs -> Ids]
  /\ metrics \in BOOLEAN
  /\ iothreads \in Seq(Ids)
  /\ ready \in BOOLEAN
  /\ pc \in {"idle", "add", "map_up", "rollback", "map_down", "del"}
  /\ target \in 0 .. MaxTarget
  /\ id \in Ids
  /\ result \in {"none", "ok", "err"}
  /\ call \in [from : Int, knew : Nat, strays : SUBSET Ids, failures : Nat,
               lost : BOOLEAN, meddled : BOOLEAN]
  /\ faults \in Nat
  /\ meddling \in Nat
  /\ blind \in BOOLEAN

\* No queue is left without its IOThread: the client deletes an object only when
\* no queue is mapped to it, at every step of every call, through refused
\* commands, lost replies, failed rollbacks, clients that died half-way and what
\* others do between calls.  There are two exceptions, which `blind` records: a
\* scale_up whose mapping took effect and whose reply was lost rolls back and
\* deletes the IOThread the queues are now on, and somebody else may map queues
\* to an IOThread between the commands that add or unmap it and that delete it.
EveryQueueServed == ~blind => \A q \in Vqs : mapping[q] \in objects

\* A call delivers what the controller counts on (Resizing): success moves the
\* pool by just the difference between the target and what the client knew,
\* and failure leaves it on the way there.  What others add or remove
\* meanwhile is added to either.
EndsAsPromised ==
  LET landed == Landed(call.from, call.knew, target)
  IN  /\ result = "ok" => Cardinality(objects) = landed /\ Len(iothreads) = target
      /\ result = "err" => Cardinality(objects) \in OnTheWay(call.from, landed)

\* A successful resize spreads the queues over exactly the workers the client
\* knows, as evenly as their number allows.
Load(i) == Cardinality({q \in Vqs : mapping[q] = i})
SuccessSpreads ==
  result = "ok" /\ call.knew # target /\ ~call.meddled =>
    /\ \A q \in Vqs : mapping[q] \in Elements(iothreads)
    /\ \A i, j \in Elements(iothreads) : Load(i) <= Load(j) + 1

\* A call that fails on a single refused command leaves no object behind that
\* the client does not know of: the rollback of a half-done scale-up removes
\* what it added, and a half-done scale-down keeps what it did not remove.
OneFaultIsClean ==
  result = "err" /\ call.failures = 1 /\ ~call.lost /\ ~call.meddled =>
    objects \ Elements(iothreads) \subseteq call.strays

\* set_thread_count returns, whatever its commands do.
CallsEnd == pc # "idle" ~> pc = "idle"
=============================================================================
