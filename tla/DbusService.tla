---------------------------- MODULE DbusService -----------------------------
(***************************************************************************)
(* The daemon's D-Bus verbs (src/dbus.rs, and handle_dbus_request of       *)
(* src/controller.rs).  Each method call runs as a task of its own: it     *)
(* sends a request through a one-slot channel, waiting for as long as that *)
(* takes, and then waits at most DBUS_REQUEST_TIMEOUT for the reply.  The  *)
(* control task takes requests between its polls and serves them to the    *)
(* end, one at a time, also when the caller has given up meanwhile.        *)
(*                                                                         *)
(*   a call:  idle -> sending -> waiting -> idle                           *)
(*                                                                         *)
(* An operator named Slip... is a plausible mistake in the definition      *)
(* below it, kept to show that a property notices it.                      *)
(***************************************************************************)
EXTENDS Integers, Sequences, FiniteSets

CONSTANTS
  Callers,      \* method calls that can be in progress at the same time
  NumVms,       \* VM ids are 1 .. NumVms
  Vcpus,        \* guest vCPUs, the largest size a request may ask for
  Verbs,        \* the calls that are made: [kind, vm, threads, sticky]
  ChannelSize,  \* capacity of the request channel, 1 in daemon.rs
  MaxCalls,     \* bound: calls made, by all callers together
  MaxExits      \* bound: how often the daemon ends

VMs == 1 .. NumVms
Kinds == {"set", "all", "read", "named"}

ASSUME DbusAssumption ==
  /\ IsFiniteSet(Callers)
  /\ {NumVms, Vcpus, MaxCalls, MaxExits} \subseteq Nat
  /\ ChannelSize \in Nat \ {0}
  /\ Verbs \subseteq [kind : Kinds, vm : Nat, threads : Nat, sticky : BOOLEAN]

VARIABLES
  up,         \* the daemon runs and owns the bus name
  call,       \* [Callers -> Call]: each caller's current call, or how its last ended
  senders,    \* callers waiting for room in the channel, in their order
  channel,    \* requests sent and not taken
  busy,       \* the control task is in a poll or a discovery
  serving,    \* requests being served, with the VMs still to do
  instances,  \* the tracked VMs
  status,     \* [VMs -> [thread_count, sticky]]
  exits,      \* how often the daemon has ended
  issued,     \* bound: calls made so far, which numbers them
  latest      \* history: the number of the call that last set a size

vars == <<up, call, senders, channel, busy, serving, instances, status, exits, issued, latest>>

Untouched == [thread_count |-> 1, sticky |-> FALSE]
NoVerb == [kind |-> "read", vm |-> 0, threads |-> 0, sticky |-> FALSE]
NoCall == [phase |-> "idle", verb |-> NoVerb, nr |-> 0, outcome |-> "none", failures |-> 0]

Init ==
  /\ up = TRUE
  /\ call = [c \in Callers |-> NoCall]
  /\ senders = <<>> /\ channel = <<>>
  /\ busy = FALSE
  /\ serving = {}
  /\ instances \in SUBSET VMs
  /\ status = [v \in VMs |-> Untouched]
  /\ exits = 0
  /\ issued = 0 /\ latest = 0

-----------------------------------------------------------------------------
(* The method calls *)

\* A method of Service begins: it builds the request with its reply channel
Issue(c, verb) ==
  /\ up
  /\ call[c].phase = "idle"
  /\ issued < MaxCalls
  /\ issued' = issued + 1
  /\ call' = [call EXCEPT ![c] = [phase |-> "sending", verb |-> verb, nr |-> issued + 1,
                                  outcome |-> "none", failures |-> 0]]
  /\ senders' = Append(senders, c)
  /\ UNCHANGED <<up, channel, busy, serving, instances, status, exits, latest>>

SlipOneMore == Len(channel) <= ChannelSize
HasRoom == Len(channel) < ChannelSize

\* tx.send(..).await: senders get room in the order in which they came
Accept ==
  /\ senders # <<>>
  /\ HasRoom
  /\ LET c == Head(senders)
     IN  /\ channel' = Append(channel, [caller |-> c, nr |-> call[c].nr, verb |-> call[c].verb])
         /\ call' = [call EXCEPT ![c].phase = "waiting"]
  /\ senders' = Tail(senders)
  /\ UNCHANGED <<up, busy, serving, instances, status, exits, issued, latest>>

Ended(outcome, failures) == [NoCall EXCEPT !.outcome = outcome, !.failures = failures]

\* await_with_timeout gives up; the request stays where it is
Timeout(c) ==
  /\ call[c].phase = "waiting"
  /\ call' = [call EXCEPT ![c] = Ended("timeout", 0)]
  /\ UNCHANGED <<up, senders, channel, busy, serving, instances, status, exits, issued, latest>>

-----------------------------------------------------------------------------
(* The control task *)

\* The VMs a request will be applied to, the unknown one included
Targets(verb) == CASE verb.kind = "set" -> {verb.vm}
                   [] verb.kind = "all" -> instances
                   [] OTHER -> {}

SlipSpawns ==
  /\ up /\ ~busy
  /\ channel # <<>>
  /\ LET r == Head(channel)
     IN  serving' = serving \cup {[request |-> r, todo |-> Targets(r.verb), failed |-> 0]}
  /\ channel' = Tail(channel)
  /\ UNCHANGED <<up, call, senders, busy, instances, status, exits, issued, latest>>

\* The D-Bus arm of the select loop; the handler is awaited before the next turn
Receive ==
  /\ up /\ ~busy
  /\ serving = {}
  /\ channel # <<>>
  /\ LET r == Head(channel)
     IN  serving' = {[request |-> r, todo |-> Targets(r.verb), failed |-> 0]}
  /\ channel' = Tail(channel)
  /\ UNCHANGED <<up, call, senders, busy, instances, status, exits, issued, latest>>

NextTarget(s) == CHOOSE v \in s.todo : \A w \in s.todo : v <= w

Possible(verb, v) == v \in instances /\ verb.threads \in 1 .. Vcpus

\* handle_set_thread_count for the next VM, in id order, succeeds
SetOne(s) ==
  LET v == NextTarget(s)
      verb == s.request.verb
  IN  /\ s.todo # {}
      /\ Possible(verb, v)
      /\ status' = [status EXCEPT ![v] = [thread_count |-> verb.threads, sticky |-> verb.sticky]]
      /\ latest' = s.request.nr
      /\ serving' = (serving \ {s}) \cup {[s EXCEPT !.todo = s.todo \ {v}]}
      /\ UNCHANGED <<up, call, senders, channel, busy, instances, exits, issued>>

SlipSwallowsError(s) ==
  /\ s.todo # {}
  /\ serving' = (serving \ {s}) \cup {[s EXCEPT !.todo = s.todo \ {NextTarget(s)}]}
  /\ UNCHANGED <<up, call, senders, channel, busy, instances, status, exits, issued, latest>>

\* ... is refused (an unknown VM, no threads, too many) or fails in the backend;
\* the status keeps the old size and pin
FailOne(s) ==
  /\ s.todo # {}
  /\ serving' = (serving \ {s}) \cup {[s EXCEPT !.todo = s.todo \ {NextTarget(s)},
                                                !.failed = s.failed + 1]}
  /\ UNCHANGED <<up, call, senders, channel, busy, instances, status, exits, issued, latest>>

\* SetThreadCount reports its failure as an error, SetAllThreadCounts how many
\* there were.  The verbs for named IOThreads always fail: an unknown VM, a
\* mapping that does not parse, or the default method that the boxed client
\* answers them with.
Result(s) ==
  LET kind == s.request.verb.kind
  IN  IF kind = "named" \/ (kind = "set" /\ s.failed > 0) THEN "refused" ELSE "ok"

Finish(s) ==
  /\ s.todo = {}
  /\ serving' = serving \ {s}
  /\ UNCHANGED <<up, senders, channel, busy, instances, status, exits, issued, latest>>

SlipInsists(s) ==
  LET c == s.request.caller
  IN  /\ Finish(s)
      /\ call[c].phase = "waiting" /\ call[c].nr = s.request.nr
      /\ call' = [call EXCEPT ![c] = Ended(Result(s), s.failed)]

\* reply.send: without effect when the caller has timed out
Reply(s) ==
  LET c == s.request.caller
  IN  /\ Finish(s)
      /\ call' = IF call[c].phase = "waiting" /\ call[c].nr = s.request.nr
                   THEN [call EXCEPT ![c] = Ended(Result(s), s.failed)]
                   ELSE call

\* A poll or a discovery: sizes of VMs that are not pinned change, VMs come
\* (with a fresh status) and go
BeginPoll ==
  /\ up /\ ~busy /\ serving = {}
  /\ busy' = TRUE
  /\ UNCHANGED <<up, call, senders, channel, serving, instances, status, exits, issued, latest>>

EndPoll ==
  /\ busy
  /\ busy' = FALSE
  /\ instances' \in SUBSET VMs
  /\ status' = [v \in VMs |-> IF v \in instances \cap instances' THEN status[v] ELSE Untouched]
  /\ UNCHANGED <<up, call, senders, channel, serving, exits, issued, latest>>

EndPollScaled ==
  /\ busy
  /\ busy' = FALSE
  /\ \E v \in instances, n \in 1 .. Vcpus :
       ~status[v].sticky /\ status' = [status EXCEPT ![v].thread_count = n]
  /\ UNCHANGED <<up, call, senders, channel, serving, instances, exits, issued, latest>>

\* The daemon ends at any point: the channel and the replies are closed, and
\* every call in progress fails
Exit ==
  /\ up
  /\ exits < MaxExits
  /\ exits' = exits + 1
  /\ up' = FALSE
  /\ call' = [c \in Callers |-> IF call[c].phase = "idle" THEN call[c]
                                ELSE Ended("closed", 0)]
  /\ senders' = <<>> /\ channel' = <<>>
  /\ busy' = FALSE
  /\ serving' = {}
  /\ instances' = {}
  /\ status' = [v \in VMs |-> Untouched]
  /\ UNCHANGED <<issued, latest>>

\* run: the initial discovery, then the channel and the bus name
Start ==
  /\ ~up
  /\ up' = TRUE
  /\ instances' \in SUBSET VMs
  /\ UNCHANGED <<call, senders, channel, busy, serving, status, exits, issued, latest>>

-----------------------------------------------------------------------------
Calling == \E c \in Callers : (\E verb \in Verbs : Issue(c, verb)) \/ Timeout(c)
Handling == \E s \in serving : SetOne(s) \/ FailOne(s) \/ Reply(s)
Ending == EndPoll \/ EndPollScaled

Next == Calling \/ Accept \/ Receive \/ Handling \/ BeginPoll \/ Ending \/ Exit \/ Start

Spec == Init /\ [][Next]_vars

\* Backend calls and polls end.  The select loop picks among its ready arms at
\* random, so that an arm ready again and again is taken in the end.  Nothing is
\* assumed of the timer: calls must end without it.
FairSpec == Spec /\ WF_vars(Accept) /\ SF_vars(Receive) /\ WF_vars(Handling) /\ WF_vars(Ending)

-----------------------------------------------------------------------------
(* Properties *)

Numbered == [caller : Callers, nr : 1 .. MaxCalls, verb : Verbs]

\* The types of all state, the capacity of the channel included, and that no
\* call waits for a place it already has.
TypeOK ==
  /\ up \in BOOLEAN /\ busy \in BOOLEAN
  /\ \A c \in Callers : /\ call[c].phase \in {"idle", "sending", "waiting"}
                        /\ call[c].outcome \in {"none", "ok", "refused", "timeout", "closed"}
                        /\ call[c].nr \in 0 .. issued
  /\ issued \in 0 .. MaxCalls /\ latest \in 0 .. issued
  /\ \A i \in DOMAIN senders : call[senders[i]].phase = "sending"
  /\ \A i \in DOMAIN channel : channel[i] \in Numbered
  /\ Len(channel) <= ChannelSize
  /\ \A s \in serving : s.request \in Numbered /\ s.todo \subseteq Nat /\ s.failed \in Nat
  /\ instances \subseteq VMs
  /\ status \in [VMs -> [thread_count : Nat, sticky : BOOLEAN]]

\* A caller that timed out and tries again gets the last word: calls take effect
\* in the order in which they were made, so a request that is served late never
\* undoes the retry, nor what somebody else asked for after it.
RetryWins == [][latest' >= latest]_vars

Has(v, verb) == v \in instances /\ status[v] = [thread_count |-> verb.threads, sticky |-> verb.sticky]

\* What a caller is told is true when it is told: after a success the VM has the
\* size and the pin that were asked for, and SetAllThreadCounts has reached all
\* tracked VMs but as many as it reports failures.
ToldIsTrue ==
  [][\A c \in Callers :
       (call[c].phase = "waiting" /\ call'[c].outcome = "ok") =>
         LET verb == call[c].verb
         IN  /\ verb.kind = "set" => Has(verb.vm, verb)
             /\ verb.kind = "all" =>
                  Cardinality({v \in VMs : Has(v, verb)}) >=
                    Cardinality(instances) - call'[c].failures]_vars

\* Every call ends, also one that waits for room in the channel, where no
\* timeout applies, and also when calls before it were given up.
EveryCallEnds == \A c \in Callers : call[c].phase # "idle" ~> call[c].phase = "idle"
=============================================================================
