------------------------- MODULE DbusServiceProofs --------------------------
(***************************************************************************)
(* Theorems about DbusService.  Calls are numbered as they are made.  The  *)
(* invariant says that the numbers still on their way increase from the    *)
(* request in service through the channel to the callers waiting for room, *)
(* and that no size set so far was asked for by a later call than these.   *)
(* What callers are told rests on a second part: a request is served with  *)
(* nothing in between, and each VM it is done with either has what was     *)
(* asked for or is counted as a failure.                                   *)
(***************************************************************************)
EXTENDS DbusService, FiniteSetTheorems, TLAPS

Calls == [phase : {"idle", "sending", "waiting"},
          verb : [kind : Kinds, vm : Nat, threads : Nat, sticky : BOOLEAN],
          nr : Nat,
          outcome : {"none", "ok", "refused", "timeout", "closed"},
          failures : Nat]

\* The shape of the state.  A call in progress has a number and a verb.
Shape ==
  /\ call \in [Callers -> Calls]
  /\ senders \in Seq(Callers)
  /\ channel \in Seq(Numbered)
  /\ serving \subseteq [request : Numbered, todo : SUBSET Nat, failed : Nat]
  /\ issued \in 0 .. MaxCalls
  /\ latest \in 0 .. issued
  /\ \A c \in Callers : call[c].nr <= issued
  /\ Len(channel) <= ChannelSize
  /\ \A i \in DOMAIN senders : LET k == call[senders[i]]
                               IN  k.phase = "sending" /\ k.nr >= 1 /\ k.verb \in Verbs

Fleet ==
  /\ instances \subseteq VMs
  /\ status \in [VMs -> [thread_count : Nat, sticky : BOOLEAN]]

Flags == up \in BOOLEAN /\ busy \in BOOLEAN

\* One request is in service; what has been set was asked for no later, and
\* what is on its way was asked for later
ServingFirst ==
  /\ \A s, t \in serving : s = t
  /\ \A s \in serving : latest <= s.request.nr /\ s.request.nr <= issued
  /\ \A s \in serving : \A i \in DOMAIN channel : s.request.nr < channel[i].nr
  /\ \A s \in serving : \A i \in DOMAIN senders : s.request.nr < call[senders[i]].nr

ChannelNext ==
  /\ \A i \in DOMAIN channel : latest <= channel[i].nr /\ channel[i].nr <= issued
  /\ \A i, j \in DOMAIN channel : i < j => channel[i].nr < channel[j].nr
  /\ \A i \in DOMAIN channel : \A j \in DOMAIN senders : channel[i].nr < call[senders[j]].nr

SendersLast ==
  /\ \A i \in DOMAIN senders : latest <= call[senders[i]].nr
  /\ \A i, j \in DOMAIN senders : i < j => call[senders[i]].nr < call[senders[j]].nr

InOrder == ServingFirst /\ ChannelNext /\ SendersLast

\* Nothing else goes on while a request is served, and a call in progress has
\* no outcome
Alone ==
  /\ serving # {} => up /\ ~busy
  /\ \A c \in Callers : call[c].phase # "idle" => call[c].outcome = "none"

\* A request is the one its caller waits for, or one the caller gave up on
OwnRequest(r) ==
  call[r.caller].phase = "waiting" /\ call[r.caller].nr = r.nr => call[r.caller].verb = r.verb

Matches ==
  /\ \A s \in serving : OwnRequest(s.request)
  /\ \A i \in DOMAIN channel : OwnRequest(channel[i])

\* VMs the handler is done with that do not have what was asked for
Unreached(s) == {v \in instances \ s.todo : ~Has(v, s.request.verb)}

Accounted(s) ==
  LET verb == s.request.verb
  IN  /\ verb.kind = "set" => /\ s.todo \subseteq {verb.vm}
                              /\ verb.vm \in s.todo \/ s.failed > 0 \/ Has(verb.vm, verb)
      /\ verb.kind = "all" => Cardinality(Unreached(s)) <= s.failed

Inv == Shape /\ Fleet /\ Flags /\ InOrder

TruthInv == Alone /\ Matches /\ \A s \in serving : Accounted(s)

\* Requests in the channel are numbered.
LEMMA ChannelNumbers == ASSUME Shape, NEW i \in DOMAIN channel PROVE channel[i].nr \in Nat
<1>1. channel[i] \in Numbered
  BY DEF Shape
<1> QED
  BY <1>1 DEF Numbered

\* Nothing is on its way at first.
LEMMA InitInv == Init => Inv
<1> SUFFICES ASSUME Init PROVE Inv
  OBVIOUS
<1>1. NoCall \in Calls /\ NoCall.nr = 0
  BY DEF NoCall, NoVerb, Calls, Kinds
<1>2. Shape
  BY <1>1, DbusAssumption DEF Init, Shape, Numbered
<1>3. Fleet
  BY DEF Init, Fleet, Untouched
<1>4. Flags
  BY DEF Init, Flags
<1>5. InOrder
  BY DEF Init, InOrder, ServingFirst, ChannelNext, SendersLast
<1> QED
  BY <1>2, <1>3, <1>4, <1>5 DEF Inv

\* A new call gets the largest number and the last place.
LEMMA IssueInv ==
  ASSUME Shape, InOrder, NEW c \in Callers, NEW verb \in Verbs, Issue(c, verb)
  PROVE  Shape' /\ InOrder'
<1> DEFINE k == [phase |-> "sending", verb |-> verb, nr |-> issued + 1,
                 outcome |-> "none", failures |-> 0]
<1>1. k \in Calls /\ issued + 1 \in 1 .. MaxCalls
  BY DbusAssumption DEF Shape, Issue, Calls
<1>2. /\ call' = [call EXCEPT ![c] = k]
      /\ senders' = Append(senders, c)
      /\ UNCHANGED <<channel, serving, latest>>
      /\ issued' = issued + 1
  BY DEF Issue
<1>3. \A i \in DOMAIN senders : call'[senders[i]] = call[senders[i]]
  BY <1>2 DEF Shape, Issue
<1>4. /\ DOMAIN senders' = DOMAIN senders \cup {Len(senders) + 1}
      /\ \A i \in DOMAIN senders : senders'[i] = senders[i] /\ i <= Len(senders)
      /\ senders'[Len(senders) + 1] = c
      /\ senders' \in Seq(Callers)
      /\ Len(senders) \in Nat
  BY <1>2 DEF Shape
<1>5. call'[c] = k
  BY <1>2 DEF Shape
<1> HIDE DEF k
<1>6. k.nr = issued + 1 /\ k.phase = "sending" /\ k.verb = verb
  BY DEF k
<1>7. Shape'
  <2>1. call' \in [Callers -> Calls] /\ \A d \in Callers : call'[d].nr <= issued'
    BY <1>1, <1>2, <1>5, <1>6 DEF Shape, Calls
  <2>2. \A i \in DOMAIN senders' : LET q == call'[senders'[i]]
                                   IN  q.phase = "sending" /\ q.nr >= 1 /\ q.verb \in Verbs
    BY <1>1, <1>3, <1>4, <1>5, <1>6 DEF Shape
  <2>3. issued' \in 0 .. MaxCalls /\ latest' \in 0 .. issued'
    BY <1>1, <1>2 DEF Shape
  <2> QED
    BY <1>2, <1>4, <2>1, <2>2, <2>3 DEF Shape
<1>8. InOrder'
  <2>1. \A i \in DOMAIN senders' : call'[senders'[i]].nr =
          IF i \in DOMAIN senders THEN call[senders[i]].nr ELSE issued + 1
    BY <1>3, <1>4, <1>5, <1>6
  <2>2. \A i \in DOMAIN senders : call[senders[i]].nr <= issued /\ call[senders[i]].nr \in Nat
    BY DEF Shape, Calls
  <2>3. \A s \in serving : s.request.nr \in Nat
    BY DEF Shape, Numbered
  <2>4. \A i \in DOMAIN channel : channel[i].nr \in Nat
    BY ChannelNumbers
  <2>5. issued \in Nat /\ latest \in Nat /\ latest <= issued
    BY DbusAssumption DEF Shape
  <2>6. ServingFirst'
    BY <1>2, <1>4, <2>1, <2>3, <2>5 DEF InOrder, ServingFirst
  <2>7. ChannelNext'
    BY <1>2, <1>4, <2>1, <2>4, <2>5 DEF InOrder, ChannelNext
  <2>8. SendersLast'
    BY <1>2, <1>4, <2>1, <2>2, <2>5 DEF InOrder, SendersLast
  <2> QED
    BY <2>6, <2>7, <2>8 DEF InOrder
<1> QED
  BY <1>7, <1>8

\* The first sender's request goes to the end of the channel.
LEMMA AcceptInv ==
  ASSUME Shape, InOrder, Accept
  PROVE  Shape' /\ InOrder'
<1> DEFINE c == Head(senders)
           r == [caller |-> c, nr |-> call[c].nr, verb |-> call[c].verb]
<1>1. /\ senders # <<>>
      /\ Len(channel) < ChannelSize
      /\ channel' = Append(channel, r)
      /\ call' = [call EXCEPT ![c].phase = "waiting"]
      /\ senders' = Tail(senders)
      /\ UNCHANGED <<serving, issued, latest>>
  BY DEF Accept, HasRoom
<1>2. /\ 1 \in DOMAIN senders
      /\ c = senders[1]
      /\ senders' \in Seq(Callers)
      /\ DOMAIN senders' = 1 .. (Len(senders) - 1)
      /\ \A i \in DOMAIN senders' : /\ senders'[i] = senders[i + 1]
                                    /\ i + 1 \in DOMAIN senders
                                    /\ 1 < i + 1
                                    /\ i \in Nat
  BY <1>1 DEF Shape
<1>3. c \in Callers /\ call[c] \in Calls
  BY <1>2 DEF Shape
<1>4. call[c].nr \in 1 .. MaxCalls /\ call[c].verb \in Verbs /\ call[c].nr <= issued
  BY <1>2, <1>3, DbusAssumption DEF Shape, Calls
<1>5. r \in Numbered /\ r.nr = call[c].nr
  BY <1>3, <1>4 DEF Numbered
<1>6. /\ call' \in [Callers -> Calls]
      /\ \A d \in Callers : call'[d].nr = call[d].nr /\ call'[d].verb = call[d].verb
      /\ \A d \in Callers : d # c => call'[d] = call[d]
  BY <1>1, <1>3 DEF Shape, Calls
<1>7. \A i \in DOMAIN senders' : senders'[i] # c
  BY <1>2, <1>3 DEF InOrder, SendersLast, Calls
<1> HIDE DEF r
<1>8. /\ channel' \in Seq(Numbered)
      /\ DOMAIN channel' = DOMAIN channel \cup {Len(channel) + 1}
      /\ \A i \in DOMAIN channel : channel'[i] = channel[i] /\ i <= Len(channel) /\ i \in Nat
      /\ channel'[Len(channel) + 1] = r
      /\ Len(channel) \in Nat
      /\ Len(channel') = Len(channel) + 1
  BY <1>1, <1>5 DEF Shape
<1> HIDE DEF c
<1>9. Shape'
  <2>1. Len(channel') <= ChannelSize'
    BY <1>1, <1>8, DbusAssumption
  <2>2. \A i \in DOMAIN senders' : LET k == call'[senders'[i]]
                                   IN  k.phase = "sending" /\ k.nr >= 1 /\ k.verb \in Verbs
    BY <1>2, <1>6, <1>7 DEF Shape
  <2>3. \A d \in Callers : call'[d].nr <= issued'
    BY <1>1, <1>6 DEF Shape
  <2> QED
    BY <1>1, <1>2, <1>6, <1>8, <2>1, <2>2, <2>3 DEF Shape
<1>10. InOrder'
  <2>1. \A i \in DOMAIN senders' : call'[senders'[i]].nr = call[senders[i + 1]].nr
    BY <1>2, <1>6 DEF Shape
  <2>2. \A i \in DOMAIN channel : channel[i].nr < r.nr
    BY <1>2, <1>5 DEF InOrder, ChannelNext
  <2>3. \A i \in DOMAIN senders' : r.nr < call'[senders'[i]].nr
    BY <1>2, <1>5, <2>1 DEF InOrder, SendersLast
  <2>4. latest <= r.nr /\ r.nr <= issued
    BY <1>2, <1>4, <1>5 DEF InOrder, SendersLast
  <2>5. \A s \in serving : s.request.nr < r.nr
    BY <1>2, <1>5 DEF InOrder, ServingFirst
  <2>6. \A i \in DOMAIN channel' : channel'[i].nr = IF i \in DOMAIN channel THEN channel[i].nr ELSE r.nr
    BY <1>8
  <2>7. ServingFirst'
    BY <1>1, <1>2, <2>1, <2>5, <2>6 DEF InOrder, ServingFirst
  <2>8. ChannelNext'
    BY <1>1, <1>2, <1>8, <2>1, <2>2, <2>3, <2>4, <2>6 DEF InOrder, ChannelNext
  <2>9. SendersLast'
    <3>1. \A i \in DOMAIN senders' : latest <= call'[senders'[i]].nr
      BY <1>2, <2>1 DEF InOrder, SendersLast
    <3>2. ASSUME NEW i \in DOMAIN senders', NEW j \in DOMAIN senders', i < j
          PROVE  call'[senders'[i]].nr < call'[senders'[j]].nr
      <4>1. i + 1 \in DOMAIN senders /\ j + 1 \in DOMAIN senders /\ i + 1 < j + 1
        BY <1>2, <3>2
      <4>2. call[senders[i + 1]].nr < call[senders[j + 1]].nr
        BY <4>1 DEF InOrder, SendersLast
      <4> QED
        BY <2>1, <4>2
    <3> QED
      BY <1>1, <3>1, <3>2 DEF SendersLast
  <2> QED
    BY <2>7, <2>8, <2>9 DEF InOrder
<1> QED
  BY <1>9, <1>10

\* The channel's first request enters service, behind which all numbers are
\* larger.
LEMMA ReceiveInv ==
  ASSUME Shape, Fleet, InOrder, Receive
  PROVE  Shape' /\ InOrder'
<1> DEFINE r == Head(channel)
           s == [request |-> r, todo |-> Targets(r.verb), failed |-> 0]
<1>1. /\ channel # <<>> /\ serving = {}
      /\ serving' = {s}
      /\ channel' = Tail(channel)
      /\ UNCHANGED <<call, senders, issued, latest>>
  BY DEF Receive
<1>2. /\ 1 \in DOMAIN channel
      /\ r = channel[1]
      /\ channel' \in Seq(Numbered)
      /\ Len(channel') <= ChannelSize
      /\ \A i \in DOMAIN channel' : /\ channel'[i] = channel[i + 1]
                                    /\ i + 1 \in DOMAIN channel
                                    /\ 1 < i + 1
                                    /\ i \in Nat
  BY <1>1, DbusAssumption DEF Shape
<1>3. r \in Numbered
  BY <1>2 DEF Shape
<1>4. Targets(r.verb) \in SUBSET Nat
  <2>1. r.verb \in Verbs
    BY <1>3 DEF Numbered
  <2>2. r.verb.vm \in Nat
    BY <2>1, DbusAssumption
  <2>3. instances \subseteq Nat
    BY DbusAssumption DEF Fleet, VMs
  <2> QED
    BY <2>2, <2>3 DEF Targets
<1>5. s \in [request : Numbered, todo : SUBSET Nat, failed : Nat] /\ s.request = r
  BY <1>3, <1>4
<1> HIDE DEF s, r
<1>6. Shape'
  BY <1>1, <1>2, <1>5 DEF Shape
<1>7. ServingFirst'
  BY <1>1, <1>2, <1>5 DEF InOrder, ServingFirst, ChannelNext
<1>8. ChannelNext'
  BY <1>1, <1>2 DEF InOrder, ChannelNext
<1>9. SendersLast'
  BY <1>1 DEF InOrder, SendersLast
<1> QED
  BY <1>6, <1>7, <1>8, <1>9 DEF InOrder

\* What is served moves on, or is done: the request stays the same.
LEMMA ServedInv ==
  ASSUME Shape, InOrder, NEW s \in serving, NEW t,
         t.request = s.request,
         t \in [request : Numbered, todo : SUBSET Nat, failed : Nat],
         serving' = (serving \ {s}) \cup {t},
         latest' = latest \/ latest' = s.request.nr,
         UNCHANGED <<call, senders, channel, issued>>
  PROVE  Shape' /\ InOrder' /\ latest' >= latest
<1>1. serving' = {t}
  BY DEF InOrder, ServingFirst
<1>2. s.request.nr \in 1 .. MaxCalls /\ latest <= s.request.nr /\ s.request.nr <= issued
  BY DEF Shape, InOrder, ServingFirst, Numbered
<1>3. latest \in Nat /\ latest' \in Nat /\ latest' >= latest /\ latest' <= s.request.nr
  BY <1>2, DbusAssumption DEF Shape
<1>4. Shape'
  BY <1>1, <1>2, <1>3 DEF Shape
<1>5. ServingFirst'
  BY <1>1, <1>2, <1>3 DEF InOrder, ServingFirst
<1>6. ChannelNext'
  <2>1. \A i \in DOMAIN channel : s.request.nr < channel[i].nr /\ channel[i].nr \in Nat
    BY ChannelNumbers DEF InOrder, ServingFirst
  <2> QED
    BY <1>2, <1>3, <2>1 DEF InOrder, ChannelNext
<1>7. SendersLast'
  <2>1. \A i \in DOMAIN senders : s.request.nr < call[senders[i]].nr /\ call[senders[i]].nr \in Nat
    BY DEF InOrder, ServingFirst, Shape, Calls
  <2> QED
    BY <1>2, <1>3, <2>1 DEF InOrder, SendersLast
<1> QED
  BY <1>3, <1>4, <1>5, <1>6, <1>7 DEF InOrder

\* A caller that gives up, or is told how its call ended, takes nothing out of
\* line: it was not waiting for room.
LEMMA CallEndsInv ==
  ASSUME Shape, InOrder, NEW c \in Callers, NEW k \in Calls,
         call[c].phase = "waiting", k.nr = 0,
         call' = [call EXCEPT ![c] = k],
         serving' \subseteq serving,
         UNCHANGED <<senders, channel, issued, latest>>
  PROVE  Shape' /\ InOrder'
<1>1. \A i \in DOMAIN senders : call'[senders[i]] = call[senders[i]]
  BY DEF Shape
<1>2. call' \in [Callers -> Calls] /\ \A d \in Callers : call'[d].nr <= issued
  BY DEF Shape
<1>3. Shape'
  BY <1>1, <1>2 DEF Shape
<1>4. ServingFirst'
  BY <1>1 DEF InOrder, ServingFirst
<1>5. ChannelNext'
  BY <1>1 DEF InOrder, ChannelNext
<1>6. SendersLast'
  BY <1>1 DEF InOrder, SendersLast
<1> QED
  BY <1>3, <1>4, <1>5, <1>6 DEF InOrder

\* Neither a poll nor a request that is done without a listener matters to them.
LEMMA IdleInv ==
  ASSUME Shape, InOrder, serving' \subseteq serving,
         UNCHANGED <<call, senders, channel, issued, latest>>
  PROVE  Shape' /\ InOrder'
<1>1. Shape'
  BY DEF Shape
<1>2. InOrder'
  BY DEF InOrder, ServingFirst, ChannelNext, SendersLast
<1> QED
  BY <1>1, <1>2

\* Outcomes are calls at rest.
LEMMA EndedType ==
  ASSUME NEW o \in {"none", "ok", "refused", "timeout", "closed"}, NEW n \in Nat
  PROVE  Ended(o, n) \in Calls /\ Ended(o, n).nr = 0
BY DEF Ended, NoCall, NoVerb, Calls, Kinds

\* The daemon's end leaves nothing on its way.
LEMMA ExitInv == ASSUME Shape, InOrder, Exit PROVE Shape' /\ InOrder'
<1>1. Ended("closed", 0) \in Calls /\ Ended("closed", 0).nr = 0
  BY EndedType
<1>2. /\ call' = [c \in Callers |-> IF call[c].phase = "idle" THEN call[c] ELSE Ended("closed", 0)]
      /\ senders' = <<>> /\ channel' = <<>> /\ serving' = {}
      /\ issued' = issued /\ latest' = latest
  BY DEF Exit
<1>3. call' \in [Callers -> Calls] /\ \A d \in Callers : call'[d].nr <= issued
  BY <1>1, <1>2, DbusAssumption DEF Shape
<1>4. Shape'
  BY <1>2, <1>3, DbusAssumption DEF Shape, Numbered
<1>5. InOrder'
  BY <1>2 DEF InOrder, ServingFirst, ChannelNext, SendersLast
<1> QED
  BY <1>4, <1>5

\* Sizes, pins and the tracked VMs keep their types.
LEMMA FleetStep == Fleet /\ [Next]_vars /\ Shape => Fleet'
<1> SUFFICES ASSUME Fleet, Shape, [Next]_vars PROVE Fleet'
  OBVIOUS
<1>1. CASE instances' = instances /\ status' = status
  BY <1>1 DEF Fleet
<1>2. ASSUME NEW s \in serving, SetOne(s) PROVE Fleet'
  <2>1. s.request.verb \in Verbs
    BY DEF Shape, Numbered
  <2>2. s.request.verb.threads \in Nat
    BY <2>1, DbusAssumption
  <2>3. s.request.verb.sticky \in BOOLEAN
    BY <2>1, DbusAssumption
  <2> DEFINE e == [thread_count |-> s.request.verb.threads, sticky |-> s.request.verb.sticky]
  <2>4. e \in [thread_count : Nat, sticky : BOOLEAN]
    BY <2>2, <2>3
  <2>5. status' = [status EXCEPT ![NextTarget(s)] = e] /\ instances' = instances
    BY <1>2 DEF SetOne
  <2> HIDE DEF e
  <2> QED
    BY <2>4, <2>5 DEF Fleet
<1>3. CASE EndPoll
  <2>1. Untouched \in [thread_count : Nat, sticky : BOOLEAN]
    BY DEF Untouched
  <2> QED
    BY <1>3, <2>1 DEF EndPoll, Fleet
<1>4. CASE EndPollScaled
  BY <1>4 DEF EndPollScaled, Fleet
<1>5. CASE Exit
  BY <1>5 DEF Exit, Fleet, Untouched
<1>6. CASE Start
  BY <1>6 DEF Start, Fleet
<1> QED
  BY <1>1, <1>2, <1>3, <1>4, <1>5, <1>6
     DEF Next, Calling, Handling, Ending, Issue, Timeout, Accept, Receive, FailOne, Reply, Finish,
         BeginPoll, vars

\* The two flags stay Boolean.
LEMMA FlagsStep == Flags /\ [Next]_vars => Flags'
  BY Zenon DEF Flags, Next, Calling, Handling, Ending, Issue, Timeout, Accept, Receive, SetOne, FailOne,
               Reply, Finish, BeginPoll, EndPoll, EndPollScaled, Exit, Start, vars

\* A request with fewer VMs to do and another count of failures is still one.
LEMMA CountedType ==
  ASSUME NEW s \in [request : Numbered, todo : SUBSET Nat, failed : Nat],
         NEW todo \in SUBSET Nat, NEW failed \in Nat
  PROVE  /\ [s EXCEPT !.todo = todo, !.failed = failed].request = s.request
         /\ [s EXCEPT !.todo = todo, !.failed = failed] \in
              [request : Numbered, todo : SUBSET Nat, failed : Nat]
OBVIOUS

\* Each step keeps the numbers in line, and sets sizes in their order.
LEMMA OrderStep ==
  ASSUME Shape, Fleet, InOrder, [Next]_vars
  PROVE  Shape' /\ InOrder' /\ latest' >= latest
<1>0. latest \in Nat
  BY DbusAssumption DEF Shape
<1>1. ASSUME NEW c \in Callers, NEW verb \in Verbs, Issue(c, verb)
      PROVE  Shape' /\ InOrder' /\ latest' = latest
  BY <1>1, IssueInv DEF Issue
<1>2. ASSUME NEW c \in Callers, Timeout(c)
      PROVE  Shape' /\ InOrder' /\ latest' = latest
  BY <1>2, EndedType, CallEndsInv DEF Timeout
<1>3. CASE Accept
  BY <1>0, <1>3, AcceptInv DEF Accept
<1>4. CASE Receive
  BY <1>0, <1>4, ReceiveInv DEF Receive
<1>5. ASSUME NEW s \in serving
      PROVE  /\ s \in [request : Numbered, todo : SUBSET Nat, failed : Nat]
             /\ s.request.caller \in Callers
  BY DEF Shape, Numbered
<1>6. ASSUME NEW s \in serving, SetOne(s)
      PROVE  Shape' /\ InOrder' /\ latest' >= latest
  <2> DEFINE t == [s EXCEPT !.todo = s.todo \ {NextTarget(s)}]
  <2>1. t.request = s.request /\ t \in [request : Numbered, todo : SUBSET Nat, failed : Nat]
    BY <1>5
  <2>2. /\ serving' = (serving \ {s}) \cup {t} /\ latest' = s.request.nr
        /\ UNCHANGED <<call, senders, channel, issued>>
    BY <1>6 DEF SetOne
  <2> HIDE DEF t
  <2> QED
    BY <2>1, <2>2, ServedInv
<1>7. ASSUME NEW s \in serving, FailOne(s)
      PROVE  Shape' /\ InOrder' /\ latest' >= latest
  <2> DEFINE t == [s EXCEPT !.todo = s.todo \ {NextTarget(s)}, !.failed = s.failed + 1]
  <2>1. t.request = s.request /\ t \in [request : Numbered, todo : SUBSET Nat, failed : Nat]
    <3>1. s \in [request : Numbered, todo : SUBSET Nat, failed : Nat]
      BY <1>5
    <3>2. s.failed + 1 \in Nat
      BY <3>1
    <3>3. s.request \in Numbered /\ s.todo \ {NextTarget(s)} \in SUBSET Nat
      BY <3>1
    <3> QED
      BY <3>1, <3>2, <3>3, CountedType
  <2>2. /\ serving' = (serving \ {s}) \cup {t} /\ latest' = latest
        /\ UNCHANGED <<call, senders, channel, issued>>
    BY <1>7 DEF FailOne
  <2> HIDE DEF t
  <2> QED
    BY <2>1, <2>2, ServedInv
<1>8. ASSUME NEW s \in serving, Reply(s)
      PROVE  Shape' /\ InOrder' /\ latest' = latest
  <2> DEFINE c == s.request.caller
  <2>1. serving' \subseteq serving /\ UNCHANGED <<senders, channel, issued, latest>>
    BY <1>8 DEF Reply, Finish
  <2>2. CASE call' = call
    BY <2>1, <2>2, IdleInv
  <2>3. CASE call[c].phase = "waiting" /\ call' = [call EXCEPT ![c] = Ended(Result(s), s.failed)]
    <3>1. Result(s) \in {"ok", "refused"} /\ s.failed \in Nat /\ c \in Callers
      BY <1>5 DEF Result
    <3>2. Ended(Result(s), s.failed) \in Calls /\ Ended(Result(s), s.failed).nr = 0
      BY <3>1, EndedType
    <3> QED
      BY <2>1, <2>3, <3>1, <3>2, CallEndsInv
  <2> QED
    <3>1. \/ call' = call
          \/ call[c].phase = "waiting" /\ call' = [call EXCEPT ![c] = Ended(Result(s), s.failed)]
      BY <1>8, Zenon DEF Reply
    <3> QED
      BY <2>2, <2>3, <3>1
<1>9. CASE BeginPoll \/ Ending \/ Start \/ UNCHANGED vars
  <2>1. UNCHANGED <<call, senders, channel, issued, latest, serving>>
    BY <1>9 DEF BeginPoll, Ending, EndPoll, EndPollScaled, Start, vars
  <2> QED
    BY <1>0, <2>1, IdleInv
<1>10. CASE Exit
  <2>1. latest' = latest
    BY <1>10 DEF Exit
  <2> QED
    BY <1>0, <1>10, <2>1, ExitInv
<1>11. latest' = latest => latest' >= latest
  BY <1>0
<1> QED
  BY <1>1, <1>2, <1>3, <1>4, <1>6, <1>7, <1>8, <1>9, <1>10, <1>11 DEF Next, Calling, Handling

-----------------------------------------------------------------------------
(* What a caller is told *)

\* A call in progress has no outcome, and a request is served alone.
LEMMA AloneStep == ASSUME Shape, Alone, [Next]_vars PROVE Alone'
<1>1. (serving # {} => up /\ ~busy)'
  <2>1. CASE serving' = {}
    BY <2>1
  <2>2. CASE serving' # {} /\ serving = {}
    <3>1. ~ \E s \in serving : TRUE
      BY <2>2
    <3>2. Receive
      BY <2>2, <3>1 DEF Next, Calling, Handling, Ending, Issue, Timeout, Accept, BeginPoll, EndPoll,
                        EndPollScaled, Exit, Start, vars
    <3> QED
      BY <3>2, Zenon DEF Receive
  <2>3. CASE serving' # {} /\ serving # {}
    <3>1. up /\ ~busy
      BY <2>3 DEF Alone
    <3>2. up' = up /\ busy' = busy
      BY <2>3, <3>1 DEF Next, Calling, Handling, Ending, Issue, Timeout, Accept, Receive, SetOne,
             FailOne, Reply, Finish, BeginPoll, EndPoll, EndPollScaled, Exit, Start, vars
    <3> QED
      BY <3>1, <3>2
  <2> QED
    BY <2>1, <2>2, <2>3
<1>2. ASSUME NEW c \in Callers, call'[c].phase # "idle" PROVE call'[c].outcome = "none"
  <2>1. CASE call' = call
    BY <1>2, <2>1 DEF Alone
  <2>2. ASSUME NEW d \in Callers, NEW verb \in Verbs, Issue(d, verb) PROVE call'[c].outcome = "none"
    BY <1>2, <2>2 DEF Issue, Alone, Shape
  <2>3. CASE Accept
    BY <1>2, <2>3 DEF Accept, Alone, Shape
  <2>4. ASSUME NEW d \in Callers, NEW o, NEW n, call' = [call EXCEPT ![d] = Ended(o, n)]
        PROVE  call'[c].outcome = "none"
    BY <1>2, <2>4 DEF Ended, NoCall, Alone, Shape
  <2>5. CASE Exit
    BY <1>2, <2>5 DEF Exit, Ended, NoCall
  <2>6. ASSUME NEW d \in Callers, Timeout(d) PROVE call'[c].outcome = "none"
    BY <2>4, <2>6 DEF Timeout
  <2>7. ASSUME NEW s \in serving, Reply(s) PROVE call'[c].outcome = "none"
    <3>1. s.request.caller \in Callers
      BY DEF Shape, Numbered
    <3> QED
      BY <2>1, <2>4, <2>7, <3>1 DEF Reply
  <2> QED
    BY <2>1, <2>2, <2>3, <2>5, <2>6, <2>7
       DEF Next, Calling, Handling, Ending, Receive, SetOne, FailOne, BeginPoll, EndPoll,
           EndPollScaled, Start, vars
<1> QED
  BY <1>1, <1>2 DEF Alone

\* A call that ends or begins has no request of its own number elsewhere.
LEMMA OwnRequestStep ==
  ASSUME Shape, NEW r \in Numbered, OwnRequest(r), r.nr <= issued, [Next]_vars,
         \A i \in DOMAIN senders : r.nr # call[senders[i]].nr
  PROVE  OwnRequest(r)'
<1> DEFINE c == r.caller
<1>0. c \in Callers
  BY DEF Numbered
<1>1. CASE call'[c] = call[c]
  BY <1>1 DEF OwnRequest
<1>2. CASE call'[c].phase # "waiting"
  BY <1>2 DEF OwnRequest
<1>3. CASE Accept /\ call'[c] # call[c]
  <2>1. c = senders[1] /\ 1 \in DOMAIN senders
    BY <1>0, <1>3 DEF Accept, Shape
  <2>2. call'[c].nr = call[c].nr
    BY <1>0, <1>3 DEF Accept, Shape, Calls
  <2> QED
    BY <2>1, <2>2 DEF OwnRequest
<1>4. ASSUME NEW d \in Callers, NEW k, k.phase # "waiting", call' = [call EXCEPT ![d] = k]
      PROVE  call'[c] = call[c] \/ call'[c].phase # "waiting"
  BY <1>0, <1>4 DEF Shape
<1>5. \A o, n : Ended(o, n).phase # "waiting"
  BY DEF Ended, NoCall
<1>6. ASSUME NEW d \in Callers, NEW verb \in Verbs, Issue(d, verb) PROVE OwnRequest(r)'
  BY <1>1, <1>2, <1>4, <1>6 DEF Issue
<1>7. ASSUME NEW d \in Callers, Timeout(d) PROVE OwnRequest(r)'
  BY <1>1, <1>2, <1>4, <1>5, <1>7 DEF Timeout
<1>8. ASSUME NEW s \in serving, Reply(s) PROVE OwnRequest(r)'
  <2>1. s.request.caller \in Callers
    BY DEF Shape, Numbered
  <2> QED
    BY <1>1, <1>2, <1>4, <1>5, <1>8, <2>1 DEF Reply
<1>9. CASE Exit
  BY <1>0, <1>1, <1>2, <1>5, <1>9 DEF Exit
<1> QED
  BY <1>1, <1>3, <1>6, <1>7, <1>8, <1>9
     DEF Next, Calling, Handling, Ending, Receive, SetOne, FailOne, BeginPoll, EndPoll,
         EndPollScaled, Start, vars

\* Requests keep belonging to the calls that made them.
LEMMA MatchesStep == ASSUME Shape, InOrder, Matches, [Next]_vars PROVE Matches'
<1>1. ASSUME NEW s \in serving PROVE OwnRequest(s.request)'
  <2>1. s.request \in Numbered /\ OwnRequest(s.request)
    BY DEF Shape, Matches
  <2>2. s.request.nr <= issued /\ \A i \in DOMAIN senders : s.request.nr # call[senders[i]].nr
    <3>1. \A i \in DOMAIN senders : s.request.nr < call[senders[i]].nr
      BY DEF InOrder, ServingFirst
    <3>2. s.request.nr \in Nat /\ \A i \in DOMAIN senders : call[senders[i]].nr \in Nat
      BY <2>1 DEF Shape, Numbered, Calls
    <3> QED
      BY <3>1, <3>2 DEF InOrder, ServingFirst
  <2> QED
    BY <2>1, <2>2, OwnRequestStep
<1>2. ASSUME NEW i \in DOMAIN channel, NEW r, r = channel[i] PROVE OwnRequest(r)'
  <2>1. r \in Numbered /\ OwnRequest(r)
    BY <1>2 DEF Shape, Matches
  <2>2. r.nr <= issued /\ \A j \in DOMAIN senders : r.nr # call[senders[j]].nr
    <3>1. \A j \in DOMAIN senders : r.nr < call[senders[j]].nr
      BY <1>2 DEF InOrder, ChannelNext
    <3>2. r.nr \in Nat
      BY <2>1 DEF Numbered
    <3>3. \A j \in DOMAIN senders : call[senders[j]].nr \in Nat
      BY DEF Shape, Calls
    <3> QED
      BY <1>2, <3>1, <3>2, <3>3 DEF InOrder, ChannelNext
  <2> QED
    BY <2>1, <2>2, OwnRequestStep
<1>3. ASSUME NEW t \in serving' PROVE OwnRequest(t.request)'
  <2>1. CASE Receive
    <3>1. channel # <<>> /\ t.request = Head(channel)
      BY <1>3, <2>1 DEF Receive
    <3>2. 1 \in DOMAIN channel /\ t.request = channel[1]
      BY <3>1 DEF Shape
    <3> QED
      BY <1>2, <3>2
  <2>2. ASSUME NEW s \in serving, SetOne(s) \/ FailOne(s) PROVE t \in serving \/ t.request = s.request
    <3>1. s \in [request : Numbered, todo : SUBSET Nat, failed : Nat]
      BY DEF Shape
    <3>2. CASE SetOne(s)
      BY <1>3, <3>1, <3>2 DEF SetOne
    <3>3. CASE FailOne(s)
      BY <1>3, <3>1, <3>3 DEF FailOne
    <3> QED
      BY <2>2, <3>2, <3>3
  <2>3. Receive \/ t \in serving \/ \E s \in serving : t.request = s.request
    BY <1>3, <2>2 DEF Next, Calling, Handling, Ending, Issue, Timeout, Accept, Reply, Finish,
                      BeginPoll, EndPoll, EndPollScaled, Exit, Start, vars
  <2>4. CASE \E s \in serving : t.request = s.request
    <3>1. PICK s \in serving : t.request = s.request
      BY <2>4
    <3>2. OwnRequest(s.request)'
      BY <1>1
    <3> QED
      BY <3>1, <3>2
  <2> QED
    BY <2>1, <2>3, <2>4
<1>4. ASSUME NEW i \in DOMAIN channel', NEW r, r = channel'[i] PROVE OwnRequest(r)'
  <2>1. CASE channel' = channel
    BY <1>2, <1>4, <2>1
  <2>2. CASE Accept
    <3>1. CASE i \in DOMAIN channel
      <4>1. r = channel[i]
        BY <1>4, <2>2, <3>1 DEF Accept, Shape
      <4> QED
        BY <1>2, <3>1, <4>1
    <3>2. CASE i \notin DOMAIN channel
      <4>1. i = Len(channel) + 1
        BY <1>4, <2>2, <3>2 DEF Accept, Shape
      <4>2. /\ r = [caller |-> Head(senders), nr |-> call[Head(senders)].nr,
                    verb |-> call[Head(senders)].verb]
            /\ Head(senders) \in Callers
        BY <1>4, <2>2, <4>1 DEF Accept, Shape
      <4>3. call'[Head(senders)].verb = call[Head(senders)].verb
        BY <2>2, <4>2 DEF Accept, Shape, Calls
      <4> QED
        BY <4>2, <4>3 DEF OwnRequest
    <3> QED
      BY <3>1, <3>2
  <2>3. CASE Receive
    <3>1. i + 1 \in DOMAIN channel /\ r = channel[i + 1]
      BY <1>4, <2>3 DEF Receive, Shape
    <3> QED
      BY <1>2, <3>1
  <2>4. CASE Exit
    BY <1>4, <2>4 DEF Exit
  <2> QED
    BY <2>1, <2>2, <2>3, <2>4
       DEF Next, Calling, Handling, Ending, Issue, Timeout, SetOne, FailOne, Reply, Finish, BeginPoll,
           EndPoll, EndPollScaled, Start, vars
<1>5. \A i \in DOMAIN channel' : OwnRequest(channel[i])'
  BY <1>4 DEF OwnRequest
<1> QED
  BY <1>3, <1>5 DEF Matches

\* The tracked VMs, and those among them not reached, are finitely many.
LEMMA FiniteFleet ==
  ASSUME Fleet, NEW S \in SUBSET instances
  PROVE  IsFiniteSet(S) /\ Cardinality(S) \in Nat
<1>1. IsFiniteSet(1 .. NumVms)
  BY DbusAssumption, FS_Interval
<1>2. S \in SUBSET (1 .. NumVms)
  BY DEF Fleet, VMs
<1>3. IsFiniteSet(S)
  BY <1>1, <1>2, FS_Subset
<1> QED
  BY <1>3, FS_CardinalityType

\* The request that enters service has everything left to do.
LEMMA ReceiveAccounted ==
  ASSUME Receive, NEW t \in serving' PROVE Accounted(t)'
<1> DEFINE r == Head(channel)
<1>1. t = [request |-> r, todo |-> Targets(r.verb), failed |-> 0] /\ UNCHANGED <<instances, status>>
  BY DEF Receive
<1>2. t.request = r /\ t.todo = Targets(r.verb) /\ t.failed = 0
  BY <1>1
<1> HIDE DEF r
<1>3. r.verb.kind = "set" => t.todo = {r.verb.vm}
  BY <1>2 DEF Targets
<1>4. r.verb.kind = "all" => Unreached(t)' = {}
  BY <1>1, <1>2 DEF Targets, Unreached
<1>5. r.verb.kind = "all" => Cardinality(Unreached(t)') = 0
  BY <1>4, FS_EmptySet
<1> QED
  BY <1>2, <1>3, <1>5 DEF Accounted

\* A VM that was resized is reached, and those reached before remain so.
LEMMA SetOneAccounted ==
  ASSUME Shape, Fleet, InOrder, NEW s \in serving, Accounted(s), SetOne(s), NEW t \in serving'
  PROVE  Accounted(t)'
<1> DEFINE v == NextTarget(s)
           verb == s.request.verb
<1>1. s \in [request : Numbered, todo : SUBSET Nat, failed : Nat]
  BY DEF Shape
<1>2. /\ s.todo # {} /\ v \in instances
      /\ status' = [status EXCEPT ![v] = [thread_count |-> verb.threads, sticky |-> verb.sticky]]
      /\ t = [s EXCEPT !.todo = s.todo \ {v}]
      /\ instances' = instances
  BY DEF SetOne, Possible, InOrder, ServingFirst
<1>3. t.request = s.request /\ t.todo = s.todo \ {v} /\ t.failed = s.failed
  BY <1>1, <1>2
<1>4. v \in VMs
  BY <1>2 DEF Fleet
<1>5. Has(v, verb)' /\ \A w \in VMs : Has(w, verb) => Has(w, verb)'
  BY <1>2, <1>4 DEF Has, Fleet
<1>6. ASSUME verb.kind = "set"
      PROVE  t.todo \subseteq {verb.vm} /\ Has(verb.vm, verb)'
  <2>1. s.todo = {verb.vm}
    BY <1>2, <1>6 DEF Accounted
  <2>2. verb.vm \in Nat
    BY <1>1, <2>1
  <2>3. v = verb.vm
    BY <2>1, <2>2 DEF NextTarget
  <2> QED
    BY <1>3, <1>5, <2>1, <2>3
<1>7. ASSUME verb.kind = "all" PROVE Cardinality(Unreached(t)') <= t.failed
  <2>1. Unreached(t)' \subseteq Unreached(s)
    BY <1>2, <1>3, <1>5 DEF Unreached, Fleet
  <2>2. Unreached(s) \in SUBSET instances
    BY DEF Unreached
  <2>3. IsFiniteSet(Unreached(s)) /\ Cardinality(Unreached(s)) \in Nat
    BY <2>2, FiniteFleet
  <2>4. IsFiniteSet(Unreached(t)') /\ Cardinality(Unreached(t)') <= Cardinality(Unreached(s))
    BY <2>1, <2>3, FS_Subset
  <2>5. Cardinality(Unreached(t)') \in Nat
    BY <2>4, FS_CardinalityType
  <2>6. Cardinality(Unreached(s)) <= s.failed /\ s.failed \in Nat
    BY <1>1, <1>7 DEF Accounted
  <2> QED
    BY <1>3, <2>3, <2>4, <2>5, <2>6
<1> QED
  BY <1>3, <1>6, <1>7 DEF Accounted

\* A VM that was refused is one more failure.
LEMMA FailOneAccounted ==
  ASSUME Shape, Fleet, InOrder, NEW s \in serving, Accounted(s), FailOne(s), NEW t \in serving'
  PROVE  Accounted(t)'
<1> DEFINE v == NextTarget(s)
           verb == s.request.verb
<1>1. s \in [request : Numbered, todo : SUBSET Nat, failed : Nat]
  BY DEF Shape
<1>2. /\ t = [s EXCEPT !.todo = s.todo \ {v}, !.failed = s.failed + 1]
      /\ instances' = instances /\ status' = status
  BY DEF FailOne, InOrder, ServingFirst
<1>3. s.failed + 1 \in Nat /\ s.failed \in Nat
  BY <1>1
<1>4. t.request = s.request /\ t.todo = s.todo \ {v} /\ t.failed = s.failed + 1
  BY <1>1, <1>2
<1>5. verb.kind = "set" => t.todo \subseteq {verb.vm} /\ t.failed > 0
  BY <1>3, <1>4 DEF Accounted
<1>6. ASSUME verb.kind = "all" PROVE Cardinality(Unreached(t)') <= t.failed
  <2>1. Unreached(t)' \subseteq Unreached(s) \cup {v}
    BY <1>2, <1>4 DEF Unreached, Has
  <2>2. Unreached(s) \in SUBSET instances
    BY DEF Unreached
  <2>3. IsFiniteSet(Unreached(s)) /\ Cardinality(Unreached(s)) \in Nat
    BY <2>2, FiniteFleet
  <2>4. /\ IsFiniteSet(Unreached(s) \cup {v})
        /\ Cardinality(Unreached(s) \cup {v}) \in Nat
        /\ Cardinality(Unreached(s) \cup {v}) <= Cardinality(Unreached(s)) + 1
    <3>1. /\ IsFiniteSet(Unreached(s) \cup {v})
          /\ \/ Cardinality(Unreached(s) \cup {v}) = Cardinality(Unreached(s))
             \/ Cardinality(Unreached(s) \cup {v}) = Cardinality(Unreached(s)) + 1
      BY <2>3, FS_AddElement, Zenon
    <3> QED
      BY <2>3, <3>1
  <2>5. IsFiniteSet(Unreached(t)') /\ Cardinality(Unreached(t)') <= Cardinality(Unreached(s) \cup {v})
    BY <2>1, <2>4, FS_Subset
  <2>6. Cardinality(Unreached(t)') \in Nat
    BY <2>5, FS_CardinalityType
  <2>7. Cardinality(Unreached(s)) <= s.failed
    BY <1>6 DEF Accounted
  <2> QED
    BY <1>3, <1>4, <2>3, <2>4, <2>5, <2>6, <2>7
<1> QED
  BY <1>4, <1>5, <1>6 DEF Accounted

\* While a request is served nobody else touches what it is about.
LEMMA AccountedStep ==
  ASSUME Shape, Fleet, InOrder, Alone, \A s \in serving : Accounted(s), [Next]_vars
  PROVE  \A t \in serving' : Accounted(t)'
<1> SUFFICES ASSUME NEW t \in serving' PROVE Accounted(t)'
  OBVIOUS
<1>1. CASE Receive
  BY <1>1, ReceiveAccounted
<1>2. ASSUME NEW s \in serving, SetOne(s) PROVE Accounted(t)'
  BY <1>2, SetOneAccounted
<1>3. ASSUME NEW s \in serving, FailOne(s) PROVE Accounted(t)'
  BY <1>3, FailOneAccounted
<1>4. CASE UNCHANGED <<instances, status>> /\ t \in serving
  BY <1>4 DEF Accounted, Unreached, Has
<1>5. CASE Ending
  BY <1>5 DEF Ending, EndPoll, EndPollScaled, Alone
<1>6. CASE Exit
  BY <1>6 DEF Exit
<1>7. CASE Start
  BY <1>7 DEF Start, Alone
<1> QED
  BY <1>1, <1>2, <1>3, <1>4, <1>5, <1>6, <1>7
     DEF Next, Calling, Handling, Issue, Timeout, Accept, Reply, Finish, BeginPoll, vars

\* Only the reply to a call reports its success.
LEMMA OkIsReply ==
  ASSUME Shape, Alone, [Next]_vars, NEW c \in Callers,
         call[c].phase = "waiting", call'[c].outcome = "ok"
  PROVE  \E s \in serving : /\ Reply(s)
                            /\ s.request.caller = c /\ call[c].nr = s.request.nr
                            /\ call'[c] = Ended(Result(s), s.failed)
<1>1. call'[c] # call[c]
  BY DEF Alone
<1>2. \A d \in Callers, verb \in Verbs : ~Issue(d, verb)
  BY <1>1 DEF Issue, Shape
<1>3. \A d \in Callers : ~Timeout(d)
  BY <1>1 DEF Timeout, Ended, NoCall, Shape
<1>4. ~Accept
  <2> SUFFICES ASSUME Accept PROVE FALSE
    OBVIOUS
  <2>1. call'[c].outcome = call[c].outcome
    BY DEF Accept, Shape, Calls
  <2> QED
    BY <2>1 DEF Alone
<1>5. ~Exit
  BY DEF Exit, Ended, NoCall
<1>6. PICK s \in serving : Reply(s)
  BY <1>1, <1>2, <1>3, <1>4, <1>5
     DEF Next, Calling, Handling, Ending, Receive, SetOne, FailOne, BeginPoll, EndPoll,
         EndPollScaled, Start, vars
<1>7. s.request.caller = c /\ call[c].nr = s.request.nr /\ call'[c] = Ended(Result(s), s.failed)
  BY <1>1, <1>6 DEF Reply, Shape
<1> QED
  BY <1>6, <1>7

\* A success is told with all VMs done.
LEMMA ToldStep ==
  ASSUME Shape, Fleet, Alone, Matches, \A s \in serving : Accounted(s), [Next]_vars,
         NEW c \in Callers, call[c].phase = "waiting", call'[c].outcome = "ok"
  PROVE  LET verb == call[c].verb
         IN  /\ verb.kind = "set" => Has(verb.vm, verb)
             /\ verb.kind = "all" =>
                  Cardinality({v \in VMs : Has(v, verb)}) >=
                    Cardinality(instances) - call'[c].failures
<1> DEFINE verb == call[c].verb
           H == {v \in VMs : Has(v, verb)}
<1>1. PICK s \in serving : /\ Reply(s)
                           /\ s.request.caller = c /\ call[c].nr = s.request.nr
                           /\ call'[c] = Ended(Result(s), s.failed)
  BY OkIsReply
<1>2. s.request.verb = verb /\ Accounted(s)
  BY <1>1 DEF Matches, OwnRequest
<1>3. s.todo = {} /\ s.failed \in Nat
  BY <1>1 DEF Reply, Finish, Shape
<1>4. Result(s) = "ok" /\ call'[c].failures = s.failed
  BY <1>1 DEF Ended, NoCall
<1>5. verb.kind = "set" => Has(verb.vm, verb)
  <2>1. verb.kind = "set" => ~(s.failed > 0)
    BY <1>2, <1>4 DEF Result
  <2> QED
    BY <1>2, <1>3, <2>1 DEF Accounted
<1>6. ASSUME verb.kind = "all" PROVE Cardinality(H) >= Cardinality(instances) - s.failed
  <2>1. Unreached(s) = instances \ H
    BY <1>2, <1>3 DEF Unreached, Fleet
  <2>2. Cardinality(instances \ H) <= s.failed
    BY <1>2, <1>6, <2>1 DEF Accounted
  <2> HIDE DEF H
  <2>3. /\ IsFiniteSet(instances) /\ Cardinality(instances) \in Nat
        /\ Cardinality(instances \cap H) \in Nat
        /\ Cardinality(instances \ H) \in Nat
    BY FiniteFleet
  <2>4. Cardinality(instances \ H) = Cardinality(instances) - Cardinality(instances \cap H)
    BY <2>3, FS_Difference
  <2>5. IsFiniteSet(H)
    <3>1. IsFiniteSet(1 .. NumVms)
      BY DbusAssumption, FS_Interval
    <3>2. H \in SUBSET (1 .. NumVms)
      BY DEF H, VMs
    <3> QED
      BY <3>1, <3>2, FS_Subset
  <2>6. Cardinality(instances \cap H) <= Cardinality(H) /\ Cardinality(H) \in Nat
    BY <2>5, FS_Subset, FS_CardinalityType
  <2> QED
    BY <1>3, <2>2, <2>3, <2>4, <2>6
<1> QED
  BY <1>4, <1>5, <1>6

-----------------------------------------------------------------------------
(* Theorems *)

\* The invariant holds throughout.
THEOREM Invariance == Spec => []Inv
<1>1. Inv /\ [Next]_vars => Inv'
  <2> SUFFICES ASSUME Inv, [Next]_vars PROVE Inv'
    OBVIOUS
  <2>1. Shape' /\ InOrder'
    BY OrderStep DEF Inv
  <2>2. Fleet'
    BY FleetStep DEF Inv
  <2>3. Flags'
    BY FlagsStep DEF Inv
  <2> QED
    BY <2>1, <2>2, <2>3 DEF Inv
<1> QED
  BY <1>1, InitInv, PTL DEF Spec

\* All state keeps its type for every number of callers, VMs and calls and
\* every capacity of the channel, which is never exceeded; a caller that waits
\* for room is in the phase that says so.
THEOREM TypeCorrect == Spec => []TypeOK
<1>1. Inv => TypeOK
  <2> SUFFICES ASSUME Inv PROVE TypeOK
    OBVIOUS
  <2>1. /\ \A c \in Callers : /\ call[c].phase \in {"idle", "sending", "waiting"}
                              /\ call[c].outcome \in {"none", "ok", "refused", "timeout", "closed"}
                              /\ call[c].nr \in 0 .. issued
        /\ issued \in 0 .. MaxCalls /\ latest \in 0 .. issued
    BY DbusAssumption DEF Inv, Shape, Calls
  <2>2. /\ \A i \in DOMAIN senders : call[senders[i]].phase = "sending"
        /\ \A i \in DOMAIN channel : channel[i] \in Numbered
        /\ Len(channel) <= ChannelSize
        /\ \A s \in serving : s.request \in Numbered /\ s.todo \subseteq Nat /\ s.failed \in Nat
    BY DEF Inv, Shape
  <2> QED
    BY <2>1, <2>2 DEF Inv, Fleet, Flags, TypeOK
<1> QED
  BY <1>1, Invariance, PTL

\* However many callers time out and try again, calls set sizes in the order in
\* which they were made: a request that the control task gets to late never
\* undoes a later one.
THEOREM LateRequestsNeverWin == Spec => RetryWins
<1>1. Inv /\ [Next]_vars => [latest' >= latest]_vars
  BY OrderStep DEF Inv
<1> QED
  BY <1>1, Invariance, PTL DEF Spec, RetryWins

\* What a caller is told is true for any number of callers and VMs: a size and
\* pin reported as set are set, and the failures that SetAllThreadCounts
\* reports are all there were.
THEOREM SuccessIsTrue == Spec => ToldIsTrue
<1>1. Init => TruthInv
  BY DEF Init, TruthInv, Alone, Matches, NoCall
<1>2. Inv /\ TruthInv /\ [Next]_vars => TruthInv'
  <2> SUFFICES ASSUME Inv, TruthInv, [Next]_vars PROVE TruthInv'
    OBVIOUS
  <2>1. Alone'
    BY AloneStep DEF Inv, TruthInv
  <2>2. Matches'
    BY MatchesStep DEF Inv, TruthInv
  <2>3. \A t \in serving' : Accounted(t)'
    BY AccountedStep DEF Inv, TruthInv
  <2> QED
    BY <2>1, <2>2, <2>3 DEF TruthInv
<1>3. Inv /\ TruthInv /\ [Next]_vars =>
        [\A c \in Callers :
           (call[c].phase = "waiting" /\ call'[c].outcome = "ok") =>
             LET verb == call[c].verb
             IN  /\ verb.kind = "set" => Has(verb.vm, verb)
                 /\ verb.kind = "all" =>
                      Cardinality({v \in VMs : Has(v, verb)}) >=
                        Cardinality(instances) - call'[c].failures]_vars
  BY ToldStep DEF Inv, TruthInv
<1> QED
  BY <1>1, <1>2, <1>3, Invariance, PTL DEF Spec, ToldIsTrue
=============================================================================
