--------------------------- MODULE QemuPoolProofs ---------------------------
(***************************************************************************)
(* Proofs about the QEMU client's resizing: every object is deleted with   *)
(* no queue on it, but for the two cases `blind` records, a call delivers  *)
(* what the controller counts on, and a successful one spreads the queues  *)
(* evenly.                                                                 *)
(*                                                                         *)
(* What the run checks is not inductive.  The properties speak of ended    *)
(* calls; Core says where a call in progress stands: what its loop head    *)
(* established (Place), that the object about to go serves no queue        *)
(* (Served), how many objects there are compared with what the call found  *)
(* (Counted), which mapping the last command set (Spread), and which       *)
(* objects the client does not know of (Clean).                            *)
(***************************************************************************)
EXTENDS QemuPool, FiniteSetTheorems, WellFoundedInduction, TLAPS

\* A set of naturals with an element has a smallest one.
LEMMA LeastElement ==
  ASSUME NEW S \in SUBSET Nat, S # {}
  PROVE  \E m \in S : \A k \in S : m <= k
<1>1. PICK m \in S : \A k \in S : ~ (<<k, m>> \in OpToRel(<, Nat))
  BY NatLessThanWellFounded, WFMin
<1>2. \A k \in S : ~ (k < m)
  BY <1>1 DEF OpToRel
<1> QED
  BY <1>2

\* A sequence shorter than the set of identifiers leaves one out.
LEMMA FreeId ==
  ASSUME NEW s \in Seq(Ids), Len(s) <= MaxId
  PROVE  Ids \ Elements(s) # {}
<1> SUFFICES ASSUME Ids \subseteq Elements(s) PROVE FALSE
  OBVIOUS
<1> DEFINE f == [i \in Ids |-> CHOOSE k \in 1 .. Len(s) : s[k] = i]
<1>1. \A i \in Ids : f[i] \in 1 .. Len(s) /\ s[f[i]] = i
  BY DEF Elements
<1>2. f \in [Ids -> 1 .. Len(s)]
  BY <1>1
<1>3. IsFiniteSet(Ids) /\ Cardinality(Ids) = MaxId + 1
  BY QemuAssumption, FS_Interval DEF Ids
<1>4. IsFiniteSet(1 .. Len(s)) /\ Cardinality(1 .. Len(s)) = Len(s)
  BY FS_Interval
<1> HIDE DEF f
<1>5. \E x, y \in Ids : x # y /\ f[x] = f[y]
  BY <1>2, <1>3, <1>4, QemuAssumption, FS_PigeonHole
<1> QED
  BY <1>1, <1>5

\* next_qemu_iothread_id returns an identifier the client does not know.
LEMMA NextIdIsNew ==
  ASSUME NEW s \in Seq(Ids), Len(s) <= MaxId
  PROVE  NextId(s) \in Ids /\ NextId(s) \notin Elements(s)
<1>1. \E i \in Ids \ Elements(s) : \A j \in Ids \ Elements(s) : i <= j
  <2>1. Ids \ Elements(s) \in SUBSET Nat /\ Ids \ Elements(s) # {}
    BY QemuAssumption, FreeId DEF Ids
  <2> QED
    BY <2>1, LeastElement
<1> QED
  BY <1>1 DEF NextId

\* No identifier twice
Distinct(s) == \A j, k \in 1 .. Len(s) : s[j] = s[k] => j = k

\* The place of a new identifier lies within the cache or at its end.
LEMMA InsertedPlace ==
  ASSUME NEW s \in Seq(Ids), NEW i \in Ids
  PROVE  Cardinality({k \in 1 .. Len(s) : Key[s[k]] < Key[i]}) \in 0 .. Len(s)
<1>1. IsFiniteSet(1 .. Len(s)) /\ Cardinality(1 .. Len(s)) = Len(s)
  <2> DEFINE n == Len(s)
  <2>1. n \in Nat
    OBVIOUS
  <2> HIDE DEF n
  <2>2. IsFiniteSet(1 .. n) /\ Cardinality(1 .. n) = n
    BY <2>1, FS_Interval
  <2> QED
    BY <2>2 DEF n
<1> DEFINE D == {k \in 1 .. Len(s) : Key[s[k]] < Key[i]}
<1>2. D \in SUBSET (1 .. Len(s)) /\ Len(s) \in Nat
  OBVIOUS
<1> HIDE DEF D
<1>3. IsFiniteSet(D) /\ Cardinality(D) <= Len(s)
  BY <1>1, <1>2, FS_Subset
<1>4. Cardinality(D) \in Nat
  BY <1>3, FS_CardinalityType
<1>5. Cardinality(D) \in 0 .. Len(s)
  BY <1>2, <1>3, <1>4
<1> QED
  BY <1>5 DEF D

\* A sequence with one identifier put in at any place.
LEMMA InsertedAt ==
  ASSUME NEW s \in Seq(Ids), NEW i \in Ids, NEW b \in 0 .. Len(s), NEW t,
         t = [k \in 1 .. Len(s) + 1 |-> IF k <= b THEN s[k]
                                        ELSE IF k = b + 1 THEN i ELSE s[k - 1]]
  PROVE  /\ t \in Seq(Ids)
         /\ Len(t) = Len(s) + 1
         /\ Elements(t) = Elements(s) \cup {i}
         /\ Distinct(s) /\ i \notin Elements(s) => Distinct(t)
<1>1. t \in Seq(Ids) /\ Len(t) = Len(s) + 1
  OBVIOUS
<1>2. /\ \A k \in 1 .. Len(s) + 1 :
           t[k] = IF k <= b THEN s[k] ELSE IF k = b + 1 THEN i ELSE s[k - 1]
      /\ Len(s) \in Nat
  OBVIOUS
<1>3. Elements(t) = Elements(s) \cup {i}
  <2>1. ASSUME NEW k \in 1 .. Len(s) PROVE s[k] \in Elements(t)
    <3>1. CASE k <= b
      BY <1>1, <1>2, <3>1 DEF Elements
    <3>2. CASE k > b
      <4>1. t[k + 1] = s[k] /\ k + 1 \in 1 .. Len(t)
        BY <1>1, <1>2, <3>2
      <4> QED
        BY <4>1 DEF Elements
    <3> QED
      BY <3>1, <3>2
  <2>2. i \in Elements(t)
    <3>1. t[b + 1] = i /\ b + 1 \in 1 .. Len(t)
      BY <1>1, <1>2
    <3> QED
      BY <3>1 DEF Elements
  <2>3. \A k \in 1 .. Len(t) : t[k] \in Elements(s) \cup {i}
    BY <1>1, <1>2 DEF Elements
  <2>4. Elements(s) \subseteq Elements(t)
    BY <2>1 DEF Elements
  <2>5. Elements(t) \subseteq Elements(s) \cup {i}
    BY <2>3 DEF Elements
  <2> QED
    BY <2>2, <2>4, <2>5
<1>4. ASSUME Distinct(s), i \notin Elements(s) PROVE Distinct(t)
  <2>1. \A k \in 1 .. Len(s) : s[k] # i
    BY <1>4 DEF Elements
  <2> QED
    BY <1>1, <1>2, <1>4, <2>1 DEF Distinct
<1> QED
  BY <1>1, <1>3, <1>4

\* push and sort: the cache holds the new identifier besides the old ones.
LEMMA InsertedAdds ==
  ASSUME NEW s \in Seq(Ids), NEW i \in Ids
  PROVE  /\ Inserted(s, i) \in Seq(Ids)
         /\ Len(Inserted(s, i)) = Len(s) + 1
         /\ Elements(Inserted(s, i)) = Elements(s) \cup {i}
         /\ Distinct(s) /\ i \notin Elements(s) => Distinct(Inserted(s, i))
<1> DEFINE b == Cardinality({k \in 1 .. Len(s) : Key[s[k]] < Key[i]})
<1>1. b \in 0 .. Len(s)
  BY InsertedPlace
<1>2. Inserted(s, i) = [k \in 1 .. Len(s) + 1 |-> IF k <= b THEN s[k]
                                                  ELSE IF k = b + 1 THEN i ELSE s[k - 1]]
  BY DEF Inserted
<1> DEFINE t == Inserted(s, i)
<1>3. t = [k \in 1 .. Len(s) + 1 |-> IF k <= b THEN s[k]
                                     ELSE IF k = b + 1 THEN i ELSE s[k - 1]]
  BY <1>2
<1> HIDE DEF b, t
<1>4. /\ t \in Seq(Ids) /\ Len(t) = Len(s) + 1 /\ Elements(t) = Elements(s) \cup {i}
      /\ Distinct(s) /\ i \notin Elements(s) => Distinct(t)
  BY <1>1, <1>3, InsertedAt
<1> QED
  BY <1>4 DEF t

\* pop: the cache without its last identifier.
LEMMA RemainingDrops ==
  ASSUME NEW s \in Seq(Ids), Len(s) > 1
  PROVE  /\ Remaining(s) \in Seq(Ids)
         /\ Len(Remaining(s)) = Len(s) - 1
         /\ Elements(s) = Elements(Remaining(s)) \cup {s[Len(s)]}
         /\ Distinct(s) => Distinct(Remaining(s)) /\ s[Len(s)] \notin Elements(Remaining(s))
<1> DEFINE t == Remaining(s)
<1>1. /\ t \in Seq(Ids) /\ Len(t) = Len(s) - 1 /\ Len(s) \in Nat
      /\ \A k \in 1 .. Len(s) - 1 : t[k] = s[k]
  BY DEF Remaining
<1> HIDE DEF t
<1>2. Elements(s) = Elements(t) \cup {s[Len(s)]}
  BY <1>1 DEF Elements
<1>3. Distinct(s) => Distinct(t) /\ s[Len(s)] \notin Elements(t)
  BY <1>1 DEF Distinct, Elements
<1> QED
  BY <1>1, <1>2, <1>3 DEF t

\* round_robin_vq_mapping maps every queue to a worker of the list.
LEMMA RoundRobinServes ==
  ASSUME NEW s \in Seq(Ids), Len(s) > 0
  PROVE  /\ RoundRobin(s) \in [Vqs -> Ids]
         /\ \A q \in Vqs : RoundRobin(s)[q] \in Elements(s)
<1>1. \A q \in Vqs : (q % Len(s)) + 1 \in 1 .. Len(s)
  BY QemuAssumption DEF Vqs
<1> QED
  BY <1>1 DEF RoundRobin, Elements

\* The residues of 0 .. v - 1 are spread evenly: no class has two members more
\* than another.
LEMMA ResiduesBalance ==
  ASSUME NEW n \in Nat \ {0}, NEW j \in 0 .. n - 1, NEW k \in 0 .. n - 1
  PROVE  Cardinality({q \in Vqs : q % n = j}) <= Cardinality({q \in Vqs : q % n = k}) + 1
<1> DEFINE A == {q \in Vqs : q % n = j}
           B == {q \in Vqs : q % n = k}
           f == [q \in A \ {j} |-> q - j - n + k]
<1>1. IsFiniteSet(Vqs) /\ Vqs \subseteq Nat
  BY QemuAssumption, FS_Interval DEF Vqs
<1>2. IsFiniteSet(A) /\ IsFiniteSet(B)
  BY <1>1, FS_Subset
<1>3. ASSUME NEW q \in A \ {j} PROVE f[q] \in B
  <2>1. q \in Nat /\ q % n = j /\ q # j /\ q <= VqCount - 1 /\ VqCount \in Nat
    BY <1>1, QemuAssumption DEF Vqs
  <2>2. q >= n
    <3>1. q < n => q % n = q
      BY <2>1
    <3> QED
      BY <2>1, <3>1
  <2> DEFINE d == q \div n
  <2>3. q = n * d + j /\ d \in Int
    BY <2>1
  <2> HIDE DEF d
  <2>4. d - 1 \in Nat
    BY <2>1, <2>2, <2>3
  <2>5. f[q] = n * (d - 1) + k
    BY <2>3
  <2>6. f[q] \in Nat /\ f[q] < q + 1
    BY <2>1, <2>3, <2>4, <2>5
  <2>7. f[q] % n = k
    BY <2>4, <2>5
  <2> HIDE DEF f
  <2> QED
    BY <2>1, <2>6, <2>7 DEF Vqs
<1>4. \A p, q \in A \ {j} : f[p] = f[q] => p = q
  BY <1>1
<1>5. f \in Injection(A \ {j}, B)
  BY <1>3, <1>4 DEF Injection, IsInjective
<1> HIDE DEF f, A, B
<1>6. Cardinality(A \ {j}) <= Cardinality(B)
  BY <1>2, <1>5, FS_Injection
<1>7. Cardinality(A \ {j}) = IF j \in A THEN Cardinality(A) - 1 ELSE Cardinality(A)
  BY <1>2, FS_RemoveElement
<1>8. Cardinality(A) \in Nat /\ Cardinality(B) \in Nat
  BY <1>2, FS_CardinalityType
<1>9. Cardinality(A) <= Cardinality(B) + 1
  BY <1>6, <1>7, <1>8
<1> QED
  BY <1>9 DEF A, B

\* Round-robin over distinct workers loads them evenly.
LEMMA RoundRobinSpreads ==
  ASSUME NEW s \in Seq(Ids), Len(s) > 0, Distinct(s), mapping = RoundRobin(s)
  PROVE  \A i, j \in Elements(s) : Load(i) <= Load(j) + 1
<1> DEFINE n == Len(s)
<1>1. n \in Nat \ {0}
  OBVIOUS
<1>2. ASSUME NEW k \in 1 .. n PROVE {q \in Vqs : mapping[q] = s[k]} = {q \in Vqs : q % n = k - 1}
  <2>1. ASSUME NEW q \in Vqs PROVE mapping[q] = s[k] <=> q % n = k - 1
    <3>1. q \in Nat
      BY QemuAssumption DEF Vqs
    <3>2. (q % n) + 1 \in 1 .. n /\ q % n \in Nat
      BY <1>1, <3>1
    <3>3. mapping[q] = s[(q % n) + 1]
      BY DEF RoundRobin
    <3>4. s[(q % n) + 1] = s[k] <=> (q % n) + 1 = k
      BY <3>2 DEF Distinct
    <3> QED
      BY <3>2, <3>3, <3>4
  <2> QED
    BY <2>1
<1>3. ASSUME NEW a \in 1 .. n, NEW b \in 1 .. n PROVE Load(s[a]) <= Load(s[b]) + 1
  <2>1. a - 1 \in 0 .. n - 1 /\ b - 1 \in 0 .. n - 1
    BY <1>1
  <2> HIDE DEF n
  <2>2. Cardinality({q \in Vqs : q % n = a - 1}) <= Cardinality({q \in Vqs : q % n = b - 1}) + 1
    BY <1>1, <2>1, ResiduesBalance
  <2> QED
    BY <1>2, <2>2 DEF Load
<1> QED
  BY <1>3 DEF Elements

-----------------------------------------------------------------------------
(* The invariant *)

Calls == [from : Int, knew : Nat, strays : SUBSET Ids, failures : Nat,
          lost : BOOLEAN, meddled : BOOLEAN]

\* The types the proofs need, flags apart; no identifier is cached twice
Shape ==
  /\ objects \subseteq Ids
  /\ mapping \in [Vqs -> Ids]
  /\ iothreads \in Seq(Ids) /\ Distinct(iothreads)
  /\ pc \in {"idle", "add", "map_up", "rollback", "map_down", "del"}
  /\ target \in 0 .. MaxTarget
  /\ id \in Ids
  /\ result \in {"none", "ok", "err"}
  /\ pc # "idle" => result = "none" /\ target > 0
  /\ call \in Calls
  /\ faults \in Nat /\ meddling \in Nat

Flags == metrics \in BOOLEAN /\ ready \in BOOLEAN /\ blind \in BOOLEAN

\* What the loop head, and the command before it, established
Place ==
  /\ pc \in {"add", "map_up", "rollback"} => Len(iothreads) < target
  /\ pc \in {"map_down", "del"} => Len(iothreads) > target
  /\ pc \in {"map_up", "rollback"} => id \notin Elements(iothreads)
  /\ pc = "del" => id = iothreads[Len(iothreads)]

\* The object about to be deleted, or just added, serves no queue
Idle == \A q \in Vqs : mapping[q] # id
Served ==
  ~blind => /\ \A q \in Vqs : mapping[q] \in objects
            /\ pc \in {"map_up", "rollback", "del"} => Idle

\* Objects are counted from what the call found: the client's loop is where
\* its cache says, plus one between adding an object and mapping to it
Ahead == IF pc \in {"map_up", "rollback"} THEN 1 ELSE 0
Counted ==
  LET now == Cardinality(objects)
  IN  /\ pc # "idle" => now = call.from + Len(iothreads) - call.knew + Ahead
      /\ pc \in {"add", "map_up", "rollback"} => call.knew <= Len(iothreads)
      /\ pc \in {"map_down", "del"} => Len(iothreads) <= call.knew
      /\ EndsAsPromised

\* Queues follow the cache while nobody meddles
Spread ==
  ~call.meddled =>
    /\ pc = "del" => mapping = RoundRobin(Remaining(iothreads))
    /\ result = "ok" /\ call.knew # target =>
         Len(iothreads) > 0 /\ mapping = RoundRobin(iothreads)

\* What the client does not know of was there before, but for the new object
Unknown == objects \ Elements(iothreads)
Clean ==
  /\ pc \notin {"idle", "rollback"} => call.failures = 0
  /\ pc = "rollback" => call.failures = 1
  /\ ~call.lost /\ ~call.meddled =>
       /\ pc \in {"add", "map_down", "del"} => Unknown \subseteq call.strays
       /\ pc \in {"map_up", "rollback"} => Unknown \subseteq call.strays \cup {id}
       /\ result = "err" /\ call.failures = 1 => Unknown \subseteq call.strays

Core == Shape /\ Place /\ Served /\ Counted /\ Spread /\ Clean

Inv == Core /\ Flags

\* What a command does to the call's record
CallStep(o) ==
  /\ call' \in Calls
  /\ call'.from = call.from /\ call'.knew = call.knew /\ call'.strays = call.strays
  /\ o = "done" => call'.failures = call.failures
  /\ o # "done" /\ call.failures \in {0, 1} => call'.failures = call.failures + 1

FlagStep(o) ==
  /\ call'.meddled <=> call.meddled
  /\ call'.lost <=> (call.lost \/ o = "lost")

\* The failures are counted, and a lost reply is remembered.
LEMMA CommandCall ==
  ASSUME call \in Calls, NEW o \in Outcomes,
         call' = [call EXCEPT !.failures = IF o = "done" \/ @ = 2 THEN @ ELSE @ + 1,
                              !.lost = @ \/ o = "lost"]
  PROVE  CallStep(o) /\ FlagStep(o)
<1> DEFINE n == IF o = "done" \/ call.failures = 2 THEN call.failures ELSE call.failures + 1
           l == call.lost \/ o = "lost"
<1>1. n \in Nat /\ (o = "done" => n = call.failures)
      /\ (o # "done" /\ call.failures \in {0, 1} => n = call.failures + 1)
  BY DEF Calls
<1>2. l \in BOOLEAN
  BY Zenon
<1>3. call' = [call EXCEPT !.failures = n, !.lost = l]
  BY Zenon
<1> HIDE DEF n, l
<1>4. /\ call' \in Calls
      /\ call'.from = call.from /\ call'.knew = call.knew /\ call'.strays = call.strays
      /\ call'.failures = n /\ call'.meddled = call.meddled /\ call'.lost = l
  BY <1>1, <1>2, <1>3 DEF Calls
<1>5. CallStep(o)
  BY <1>1, <1>4 DEF CallStep
<1>6. FlagStep(o)
  BY <1>4, Zenon DEF FlagStep, l
<1> QED
  BY <1>5, <1>6

\* The objects can be counted, one more and one less.
LEMMA ObjectCount ==
  ASSUME objects \subseteq Ids, NEW i \in Ids
  PROVE  /\ Cardinality(objects) \in Nat
         /\ i \notin objects => Cardinality(objects \cup {i}) = Cardinality(objects) + 1
         /\ i \in objects => Cardinality(objects \ {i}) = Cardinality(objects) - 1
<1>1. IsFiniteSet(objects)
  <2>1. IsFiniteSet(Ids)
    BY QemuAssumption, FS_Interval DEF Ids
  <2> QED
    BY <2>1, FS_Subset
<1> QED
  BY <1>1, FS_CardinalityType, FS_AddElement, FS_RemoveElement

\* A size between the two ends is on the way.
LEMMA Between ==
  ASSUME NEW a \in Int, NEW b \in Int, NEW c \in Int,
         (a <= c /\ c <= b) \/ (b <= c /\ c <= a)
  PROVE  c \in OnTheWay(a, b)
BY DEF OnTheWay

\* It stays on the way when everything shifts.
LEMMA Shifted ==
  ASSUME NEW a \in Int, NEW b \in Int, NEW c \in OnTheWay(a, b), NEW d \in Int
  PROVE  c + d \in OnTheWay(a + d, b + d)
BY DEF OnTheWay

\* Where the head of the loops goes.
LEMMA ContinueCases ==
  ASSUME NEW s \in Seq(Ids), NEW n \in Nat, Continue(s, n)
  PROVE  \/ Len(s) < n /\ pc' = "add" /\ result' = "none"
         \/ Len(s) > n /\ pc' = "map_down" /\ result' = "none"
         \/ Len(s) = n /\ pc' = "idle" /\ result' = "ok"
<1>1. Len(s) \in Nat
  OBVIOUS
<1> QED
  BY <1>1 DEF Continue

-----------------------------------------------------------------------------
(* The steps of a call *)

\* Adding an object disturbs no queue; the object is new to QEMU and the client.
LEMMA AddStep == ASSUME Core, NEW o \in Outcomes, AddIoThread(o) PROVE Core'
<1>1. /\ pc = "add" /\ id' = NextId(iothreads)
      /\ o # "refused" => id' \notin objects
      /\ objects' = IF o = "refused" THEN objects ELSE objects \cup {id'}
      /\ IF o = "done" THEN pc' = "map_up" /\ result' = result ELSE pc' = "idle" /\ result' = "err"
      /\ UNCHANGED <<mapping, iothreads, target, meddling, blind>>
      /\ faults' \in {faults, faults + 1}
  BY DEF AddIoThread, Command, Fail, client
<1>2. CallStep(o) /\ FlagStep(o)
  BY CommandCall DEF AddIoThread, Command, Core, Shape
<1>3. Len(iothreads) \in Nat /\ target \in Nat /\ Len(iothreads) < target /\ result = "none"
      /\ Len(iothreads) <= MaxId
  BY <1>1, QemuAssumption DEF Core, Shape, Place
<1>4. id' \in Ids /\ id' \notin Elements(iothreads)
  BY <1>1, <1>3, NextIdIsNew DEF Core, Shape
<1>5. Cardinality(objects) \in Nat /\ Cardinality(objects') =
        IF o = "refused" THEN Cardinality(objects) ELSE Cardinality(objects) + 1
  BY <1>1, <1>4, ObjectCount DEF Core, Shape
<1>6. Shape'
  BY <1>1, <1>2, <1>3, <1>4 DEF Core, Shape, CallStep
<1>7. Place'
  BY <1>1, <1>3, <1>4 DEF Place
<1>8. Served'
  BY <1>1, <1>4 DEF Core, Served, Idle
<1>9. Counted'
  <2>1. /\ call.from \in Int /\ call.knew \in Nat /\ call.knew <= Len(iothreads)
        /\ Cardinality(objects) = call.from + Len(iothreads) - call.knew
    BY <1>1 DEF Core, Shape, Calls, Counted, Ahead
  <2>2. Cardinality(objects') \in OnTheWay(call.from, call.from + target - call.knew)
    <3> DEFINE c == Cardinality(objects')
               b == call.from + target - call.knew
    <3>1. c \in Int /\ b \in Int /\ call.from <= c /\ c <= b
      BY <1>3, <1>5, <2>1
    <3> HIDE DEF c, b
    <3>2. c \in OnTheWay(call.from, b)
      BY <2>1, <3>1, Between
    <3> QED
      BY <3>2 DEF b, c
  <2>3. o = "done" => pc' = "map_up" /\ result' = "none"
    BY <1>1, <1>3
  <2>4. o # "done" => pc' = "idle" /\ result' = "err"
    BY <1>1
  <2>5. EndsAsPromised'
    BY <1>1, <1>2, <2>2, <2>3, <2>4 DEF EndsAsPromised, Landed, CallStep
  <2>6. CASE o = "done"
    BY <1>1, <1>2, <1>5, <2>1, <2>3, <2>5, <2>6 DEF Counted, Ahead, CallStep
  <2>7. CASE o # "done"
    BY <2>4, <2>5, <2>7 DEF Counted
  <2> QED
    BY <2>6, <2>7
<1>10. Spread'
  BY <1>1, <1>3 DEF Spread
<1>11. Clean'
  <2>1. call.failures = 0 /\ Unknown' \subseteq Unknown \cup {id'}
        /\ (~call.lost /\ ~call.meddled => Unknown \subseteq call.strays)
    BY <1>1 DEF Core, Clean, Unknown
  <2>2. o = "refused" => Unknown' = Unknown
    BY <1>1 DEF Unknown
  <2>3. CASE o = "done"
    BY <1>1, <1>2, <1>3, <2>1, <2>3 DEF Clean, CallStep, FlagStep
  <2>4. CASE o = "refused"
    BY <1>1, <1>2, <2>1, <2>2, <2>4 DEF Clean, CallStep, FlagStep
  <2>5. CASE o = "lost"
    BY <1>1, <1>2, <2>5 DEF Clean, FlagStep
  <2> QED
    BY <2>3, <2>4, <2>5 DEF Outcomes
<1> QED
  BY <1>6, <1>7, <1>8, <1>9, <1>10, <1>11 DEF Core

\* Only a mapping to objects that exist is accepted; after a failed one the new
\* object still serves nothing, unless the reply was lost.
LEMMA MapUpStep == ASSUME Core, NEW o \in Outcomes, MapUp(o) PROVE Core'
<1> DEFINE new == Inserted(iothreads, id)
<1>1. /\ pc = "map_up"
      /\ o # "refused" => Elements(new) \subseteq objects
      /\ mapping' = IF o = "refused" THEN mapping ELSE RoundRobin(new)
      /\ o = "done" => iothreads' = new /\ Continue(new, target)
      /\ o # "done" => pc' = "rollback" /\ iothreads' = iothreads /\ result' = result
      /\ UNCHANGED <<objects, target, id, meddling>>
      /\ faults' \in {faults, faults + 1}
  BY DEF MapUp, Command
<1>2. blind' <=> (blind \/ o = "lost")
  BY Zenon DEF MapUp
<1>3. CallStep(o) /\ FlagStep(o)
  BY CommandCall DEF MapUp, Command, Core, Shape
<1>4. /\ Len(iothreads) \in Nat /\ target \in Nat /\ Len(iothreads) < target /\ result = "none"
      /\ id \in Ids /\ id \notin Elements(iothreads) /\ iothreads \in Seq(Ids)
      /\ Distinct(iothreads)
  BY <1>1, QemuAssumption DEF Core, Shape, Place
<1>5. /\ new \in Seq(Ids) /\ Len(new) = Len(iothreads) + 1 /\ Distinct(new)
      /\ Elements(new) = Elements(iothreads) \cup {id}
  BY <1>4, InsertedAdds
<1>6. RoundRobin(new) \in [Vqs -> Ids] /\ \A q \in Vqs : RoundRobin(new)[q] \in Elements(new)
  BY <1>4, <1>5, RoundRobinServes
<1> HIDE DEF new
<1>7. o = "done" => \/ Len(new) < target /\ pc' = "add" /\ result' = "none"
                    \/ Len(new) = target /\ pc' = "idle" /\ result' = "ok"
  BY <1>1, <1>4, <1>5, ContinueCases
<1>8. Shape'
  BY <1>1, <1>3, <1>4, <1>5, <1>6, <1>7 DEF Core, Shape, CallStep
<1>9. Place'
  BY <1>1, <1>4, <1>5, <1>7 DEF Place
<1>10. Served'
  <2>1. CASE o = "done"
    BY <1>1, <1>6, <1>7, <2>1 DEF Served
  <2>2. CASE o = "refused"
    BY <1>1, <1>2, <2>2 DEF Core, Served, Idle
  <2>3. CASE o = "lost"
    BY <1>2, <2>3 DEF Served
  <2> QED
    BY <2>1, <2>2, <2>3 DEF Outcomes
<1>11. Counted'
  <2>1. /\ call.from \in Int /\ call.knew \in Nat /\ call.knew <= Len(iothreads)
        /\ Cardinality(objects) = call.from + Len(iothreads) - call.knew + 1
    BY <1>1 DEF Core, Shape, Calls, Counted, Ahead
  <2>2. CASE o # "done"
    BY <1>1, <1>3, <1>4, <2>1, <2>2 DEF Counted, Ahead, EndsAsPromised, CallStep
  <2>3. CASE o = "done" /\ pc' = "add"
    BY <1>1, <1>3, <1>4, <1>5, <1>7, <2>1, <2>3 DEF Counted, Ahead, EndsAsPromised, CallStep
  <2>4. CASE o = "done" /\ pc' = "idle"
    <3>1. result' = "ok" /\ Len(new) = target
      BY <1>7, <2>4
    <3> QED
      BY <1>1, <1>3, <1>4, <1>5, <2>1, <2>4, <3>1 DEF Counted, EndsAsPromised, Landed, CallStep
  <2> QED
    BY <1>7, <2>2, <2>3, <2>4
<1>12. Spread'
  BY <1>1, <1>4, <1>5, <1>7 DEF Spread
<1>13. Clean'
  <2>1. call.failures = 0
        /\ (~call.lost /\ ~call.meddled => Unknown \subseteq call.strays \cup {id})
    BY <1>1 DEF Core, Clean
  <2>2. CASE o = "done"
    <3>1. ~call.lost /\ ~call.meddled => Unknown' \subseteq call.strays
      BY <1>1, <1>5, <2>1, <2>2 DEF Unknown
    <3> QED
      BY <1>1, <1>3, <1>7, <2>1, <2>2, <3>1 DEF Clean, CallStep, FlagStep
  <2>3. CASE o # "done"
    <3>1. Unknown' = Unknown
      BY <1>1, <2>3 DEF Unknown
    <3> QED
      BY <1>1, <1>3, <1>4, <2>1, <2>3, <3>1 DEF Clean, CallStep, FlagStep
  <2> QED
    BY <2>2, <2>3
<1> QED
  BY <1>8, <1>9, <1>10, <1>11, <1>12, <1>13 DEF Core

\* Deleting the object a failed scale-up added disturbs no queue.
LEMMA RollbackStep == ASSUME Core, NEW o \in Outcomes, Rollback(o) PROVE Core'
<1>1. /\ pc = "rollback"
      /\ o # "refused" => id \in objects
      /\ objects' = IF o = "refused" THEN objects ELSE objects \ {id}
      /\ pc' = "idle" /\ result' = "err"
      /\ UNCHANGED <<mapping, iothreads, target, id, meddling, blind>>
      /\ faults' \in {faults, faults + 1}
  BY DEF Rollback, Command, Fail, client
<1>2. CallStep(o) /\ FlagStep(o)
  BY CommandCall DEF Rollback, Command, Core, Shape
<1>3. Len(iothreads) \in Nat /\ target \in Nat /\ Len(iothreads) < target /\ id \in Ids
  BY <1>1, QemuAssumption DEF Core, Shape, Place
<1>4. Cardinality(objects) \in Nat /\ Cardinality(objects') =
        IF o = "refused" THEN Cardinality(objects) ELSE Cardinality(objects) - 1
  BY <1>1, <1>3, ObjectCount DEF Core, Shape
<1>5. Shape'
  BY <1>1, <1>2 DEF Core, Shape, CallStep
<1>6. Place'
  BY <1>1 DEF Place
<1>7. Served'
  BY <1>1 DEF Core, Served, Idle
<1>8. Counted'
  <2>1. /\ call.from \in Int /\ call.knew \in Nat /\ call.knew <= Len(iothreads)
        /\ Cardinality(objects) = call.from + Len(iothreads) - call.knew + 1
    BY <1>1 DEF Core, Shape, Calls, Counted, Ahead
  <2>2. Cardinality(objects') \in OnTheWay(call.from, call.from + target - call.knew)
    <3> DEFINE c == Cardinality(objects')
               b == call.from + target - call.knew
    <3>1. c \in Int /\ b \in Int
      BY <1>3, <1>4, <2>1
    <3>2. call.from <= c
      BY <1>3, <1>4, <2>1
    <3>3. c <= b
      BY <1>3, <1>4, <2>1
    <3> HIDE DEF c, b
    <3>4. c \in OnTheWay(call.from, b)
      BY <2>1, <3>1, <3>2, <3>3, Between
    <3> QED
      BY <3>4 DEF b, c
  <2> QED
    BY <1>1, <1>2, <2>2 DEF Counted, EndsAsPromised, Landed, CallStep
<1>9. Spread'
  BY <1>1 DEF Spread
<1>10. Clean'
  <2>1. call.failures = 1
        /\ (~call.lost /\ ~call.meddled => Unknown \subseteq call.strays \cup {id})
    BY <1>1 DEF Core, Clean
  <2>2. CASE o = "done"
    <3>1. ~call.lost /\ ~call.meddled => Unknown' \subseteq call.strays
      BY <1>1, <2>1, <2>2 DEF Unknown
    <3> QED
      BY <1>1, <1>2, <2>1, <2>2, <3>1 DEF Clean, CallStep, FlagStep
  <2>3. CASE o # "done"
    BY <1>1, <1>2, <2>1, <2>3 DEF Clean, CallStep
  <2> QED
    BY <2>2, <2>3
<1> QED
  BY <1>5, <1>6, <1>7, <1>8, <1>9, <1>10 DEF Core

\* The mapping leaves the last worker without a queue before it is deleted.
LEMMA MapDownStep == ASSUME Core, NEW o \in Outcomes, MapDown(o) PROVE Core'
<1> DEFINE rest == Remaining(iothreads)
<1>1. /\ pc = "map_down" /\ Len(iothreads) > 1 /\ id' = iothreads[Len(iothreads)]
      /\ o # "refused" => Elements(rest) \subseteq objects
      /\ mapping' = IF o = "refused" THEN mapping ELSE RoundRobin(rest)
      /\ IF o = "done" THEN pc' = "del" /\ result' = result ELSE pc' = "idle" /\ result' = "err"
      /\ UNCHANGED <<objects, iothreads, target, meddling>>
      /\ faults' \in {faults, faults + 1}
  BY DEF MapDown, Command, Fail, client
<1>2. blind' = blind
  BY DEF MapDown
<1>3. CallStep(o) /\ FlagStep(o)
  BY CommandCall DEF MapDown, Command, Core, Shape
<1>4. /\ Len(iothreads) \in Nat /\ target \in Nat /\ Len(iothreads) > target /\ result = "none"
      /\ target > 0 /\ iothreads \in Seq(Ids) /\ Distinct(iothreads)
  BY <1>1, QemuAssumption DEF Core, Shape, Place
<1>5. /\ rest \in Seq(Ids) /\ Len(rest) = Len(iothreads) - 1
      /\ iothreads[Len(iothreads)] \notin Elements(rest)
  BY <1>1, <1>4, RemainingDrops
<1>6. RoundRobin(rest) \in [Vqs -> Ids] /\ \A q \in Vqs : RoundRobin(rest)[q] \in Elements(rest)
  BY <1>1, <1>4, <1>5, RoundRobinServes
<1>7. id' \in Ids
  BY <1>1, <1>4
<1>8. rest' = rest
  BY <1>1 DEF Remaining
<1>9. Cardinality(objects) \in Nat
  BY <1>7, ObjectCount DEF Core, Shape
<1>10. o = "done" => pc' = "del" /\ result' = "none"
  BY <1>1, <1>4
<1>11. o # "done" => pc' = "idle" /\ result' = "err"
  BY <1>1
<1> HIDE DEF rest
<1>12. Shape'
  BY <1>1, <1>3, <1>4, <1>6, <1>7 DEF Core, Shape, CallStep
<1>13. Place'
  BY <1>1, <1>4 DEF Place
<1>14. Served'
  <2>1. CASE o = "done"
    <3>1. \A q \in Vqs : mapping'[q] \in objects' /\ mapping'[q] # id'
      BY <1>1, <1>5, <1>6, <2>1
    <3> QED
      BY <3>1 DEF Served, Idle
  <2>2. CASE o = "refused"
    BY <1>1, <1>2, <2>2 DEF Core, Served
  <2>3. CASE o = "lost"
    BY <1>1, <1>6, <1>11, <2>3 DEF Served
  <2> QED
    BY <2>1, <2>2, <2>3 DEF Outcomes
<1>15. Counted'
  <2>1. /\ call.from \in Int /\ call.knew \in Nat /\ Len(iothreads) <= call.knew
        /\ Cardinality(objects) = call.from + Len(iothreads) - call.knew
    BY <1>1 DEF Core, Shape, Calls, Counted, Ahead
  <2>2. CASE o = "done"
    BY <1>1, <1>3, <1>10, <2>1, <2>2 DEF Counted, Ahead, EndsAsPromised, CallStep
  <2>3. CASE o # "done"
    <3> DEFINE c == Cardinality(objects)
               b == call.from + target - call.knew
    <3>1. c \in Int /\ b \in Int /\ b <= c /\ c <= call.from
      BY <1>4, <1>9, <2>1
    <3> HIDE DEF c, b
    <3>2. c \in OnTheWay(call.from, b)
      BY <2>1, <3>1, Between
    <3> USE DEF c, b
    <3> QED
      BY <1>1, <1>3, <1>11, <2>3, <3>2 DEF Counted, EndsAsPromised, Landed, CallStep
  <2> QED
    BY <2>2, <2>3
<1>16. Spread'
  BY <1>1, <1>8, <1>10, <1>11 DEF Spread, rest
<1>17. Clean'
  <2>1. call.failures = 0 /\ Unknown' = Unknown
        /\ (~call.lost /\ ~call.meddled => Unknown \subseteq call.strays)
    BY <1>1 DEF Core, Clean, Unknown
  <2>2. CASE o = "done"
    BY <1>3, <1>10, <2>1, <2>2 DEF Clean, CallStep, FlagStep
  <2>3. CASE o # "done"
    BY <1>3, <1>11, <2>1, <2>3 DEF Clean, CallStep, FlagStep
  <2> QED
    BY <2>2, <2>3
<1> QED
  BY <1>12, <1>13, <1>14, <1>15, <1>16, <1>17 DEF Core

\* The deleted worker serves nothing, and the cache follows QEMU.
LEMMA DelStep == ASSUME Core, NEW o \in Outcomes, DelIoThread(o) PROVE Core'
<1> DEFINE rest == Remaining(iothreads)
<1>1. /\ pc = "del"
      /\ o # "refused" => id \in objects
      /\ objects' = IF o = "refused" THEN objects ELSE objects \ {id}
      /\ o = "done" => iothreads' = rest /\ Continue(rest, target)
      /\ o # "done" => pc' = "idle" /\ result' = "err" /\ iothreads' = iothreads
      /\ UNCHANGED <<mapping, target, id, meddling, blind>>
      /\ faults' \in {faults, faults + 1}
  BY DEF DelIoThread, Command, Fail
<1>2. CallStep(o) /\ FlagStep(o)
  BY CommandCall DEF DelIoThread, Command, Core, Shape
<1>3. /\ Len(iothreads) \in Nat /\ target \in Nat /\ Len(iothreads) > target /\ target > 0
      /\ id \in Ids /\ iothreads \in Seq(Ids) /\ Distinct(iothreads)
      /\ id = iothreads[Len(iothreads)]
  BY <1>1, QemuAssumption DEF Core, Shape, Place
<1>4. /\ rest \in Seq(Ids) /\ Len(rest) = Len(iothreads) - 1 /\ Distinct(rest)
      /\ Elements(iothreads) = Elements(rest) \cup {id}
  BY <1>3, RemainingDrops
<1>5. Cardinality(objects) \in Nat /\ Cardinality(objects') =
        IF o = "refused" THEN Cardinality(objects) ELSE Cardinality(objects) - 1
  BY <1>1, <1>3, ObjectCount DEF Core, Shape
<1>6. ~call.meddled => mapping = RoundRobin(rest)
  BY <1>1 DEF Core, Spread
<1> HIDE DEF rest
<1>7. o = "done" => \/ Len(rest) > target /\ pc' = "map_down" /\ result' = "none"
                    \/ Len(rest) = target /\ pc' = "idle" /\ result' = "ok"
  BY <1>1, <1>3, <1>4, ContinueCases
<1>8. Shape'
  BY <1>1, <1>2, <1>3, <1>4, <1>7 DEF Core, Shape, CallStep
<1>9. Place'
  BY <1>1, <1>3, <1>4, <1>7 DEF Place
<1>10. Served'
  <2>1. ~blind => \A q \in Vqs : mapping[q] \in objects'
    BY <1>1 DEF Core, Served, Idle
  <2> QED
    BY <1>1, <1>7, <2>1 DEF Served
<1>11. Counted'
  <2>1. /\ call.from \in Int /\ call.knew \in Nat /\ Len(iothreads) <= call.knew
        /\ Cardinality(objects) = call.from + Len(iothreads) - call.knew
    BY <1>1 DEF Core, Shape, Calls, Counted, Ahead
  <2>2. CASE o # "done"
    <3> DEFINE c == Cardinality(objects')
               b == call.from + target - call.knew
    <3>1. c \in Int /\ b \in Int /\ b <= c /\ c <= call.from
      BY <1>3, <1>5, <2>1
    <3> HIDE DEF c, b
    <3>2. c \in OnTheWay(call.from, b)
      BY <2>1, <3>1, Between
    <3> USE DEF c, b
    <3> QED
      BY <1>1, <1>2, <2>2, <3>2 DEF Counted, EndsAsPromised, Landed, CallStep
  <2>3. CASE o = "done" /\ pc' = "map_down"
    <3>1. /\ result' = "none"
          /\ Cardinality(objects') = call.from + Len(iothreads') - call.knew
          /\ Len(iothreads') <= call.knew
      BY <1>1, <1>4, <1>5, <1>7, <2>1, <2>3
    <3>2. EndsAsPromised'
      BY <3>1 DEF EndsAsPromised
    <3>3. Ahead' = 0
      BY <2>3 DEF Ahead
    <3>4. Len(iothreads') \in Nat
      BY <1>1, <1>4, <2>3
    <3> QED
      BY <1>2, <2>1, <2>3, <3>1, <3>2, <3>3, <3>4 DEF Counted, CallStep
  <2>4. CASE o = "done" /\ pc' = "idle"
    <3>1. result' = "ok" /\ Len(rest) = target
      BY <1>7, <2>4
    <3> DEFINE c == Cardinality(objects)
               n == Len(iothreads)
    <3>2. /\ c \in Int /\ n \in Int /\ target \in Int /\ target = n - 1
          /\ c = call.from + n - call.knew /\ Cardinality(objects') = c - 1
      BY <1>3, <1>4, <1>5, <2>1, <2>4, <3>1
    <3> HIDE DEF c, n
    <3>3. Cardinality(objects') = Landed(call.from, call.knew, target)
      BY <2>1, <3>2 DEF Landed
    <3>4. EndsAsPromised'
      BY <1>1, <1>2, <2>4, <3>1, <3>3 DEF EndsAsPromised, CallStep
    <3> QED
      BY <2>4, <3>4 DEF Counted
  <2> QED
    BY <1>7, <2>2, <2>3, <2>4
<1>12. Spread'
  BY <1>1, <1>2, <1>3, <1>4, <1>6, <1>7 DEF Spread, FlagStep
<1>13. Clean'
  <2>1. call.failures = 0
        /\ (~call.lost /\ ~call.meddled => Unknown \subseteq call.strays)
    BY <1>1 DEF Core, Clean
  <2>2. CASE o = "done"
    <3>1. Unknown' \subseteq Unknown
      BY <1>1, <1>4, <2>2 DEF Unknown
    <3> QED
      BY <1>2, <1>7, <2>1, <2>2, <3>1 DEF Clean, CallStep, FlagStep
  <2>3. CASE o # "done"
    <3>1. Unknown' \subseteq Unknown
      BY <1>1, <2>3 DEF Unknown
    <3> QED
      BY <1>1, <1>2, <2>1, <2>3, <3>1 DEF Clean, CallStep, FlagStep
  <2> QED
    BY <2>2, <2>3
<1> QED
  BY <1>8, <1>9, <1>10, <1>11, <1>12, <1>13 DEF Core

-----------------------------------------------------------------------------
(* Between the commands *)

\* A set of identifiers can be counted.
LEMMA Countable ==
  ASSUME NEW S \in SUBSET Ids
  PROVE  Cardinality(S) \in Nat /\ (S # {} => Cardinality(S) > 0)
<1>1. IsFiniteSet(Ids)
  BY QemuAssumption, FS_Interval DEF Ids
<1>2. IsFiniteSet(S)
  BY <1>1, FS_Subset
<1>3. Cardinality(S) \in Nat
  BY <1>2, FS_CardinalityType
<1>4. Cardinality(S) = 0 <=> S = {}
  BY <1>2, FS_EmptySet
<1> QED
  BY <1>3, <1>4

\* A snapshot's cache holds every managed object, once.
LEMMA SortedHolds ==
  ASSUME NEW S \in SUBSET Ids, NEW s \in Sorted(S)
  PROVE  s \in Seq(Ids) /\ Distinct(s) /\ Len(s) = Cardinality(S) /\ Elements(s) \subseteq S
<1>1. Cardinality(S) \in Nat
  BY Countable
<1> DEFINE n == Cardinality(S)
<1>2. s \in [1 .. n -> S] /\ \A j, k \in 1 .. n : j < k => Key[s[j]] < Key[s[k]]
  BY DEF Sorted
<1>3. n \in Nat
  BY <1>1
<1> HIDE DEF n
<1>4. s \in Seq(Ids) /\ Len(s) = n
  BY <1>2, <1>3
<1>5. \A j \in 1 .. n : Key[s[j]] \in Nat
  BY <1>2, QemuAssumption
<1>6. Distinct(s)
  <2> SUFFICES ASSUME NEW j \in 1 .. n, NEW k \in 1 .. n, s[j] = s[k], j # k PROVE FALSE
    BY <1>4 DEF Distinct
  <2>1. j < k \/ k < j
    BY <1>3
  <2>2. Key[s[j]] < Key[s[k]] \/ Key[s[k]] < Key[s[j]]
    BY <1>2, <2>1
  <2> QED
    BY <1>5, <2>2
<1>7. Elements(s) \subseteq S
  BY <1>2, <1>4 DEF Elements
<1> QED
  BY <1>4, <1>6, <1>7 DEF n

\* The record of no call.
LEMMA NoCallType ==
  /\ NoCall \in Calls
  /\ NoCall.failures = 0 /\ NoCall.from = 0 /\ NoCall.knew = 0
BY DEF NoCall, Calls

\* A client between calls that has just been made, or has just looked.
LEMMA AtRest ==
  ASSUME Core, pc' = "idle", result' = "none", call' = NoCall,
         iothreads' \in Seq(Ids), Distinct(iothreads'),
         UNCHANGED <<objects, mapping, target, id, faults, meddling, blind>>
  PROVE  Core'
<1>1. Shape'
  BY NoCallType DEF Core, Shape
<1>2. Place'
  BY DEF Place
<1>3. Served'
  BY DEF Core, Served, Idle
<1>4. Counted'
  BY DEF Counted, EndsAsPromised
<1>5. Spread' /\ Clean'
  BY DEF Spread, Clean
<1> QED
  BY <1>1, <1>2, <1>3, <1>4, <1>5 DEF Core

\* get_thread_pool_snapshot replaces the cache as a whole.
LEMMA SnapshotStep == ASSUME Core, Snapshot PROVE Core'
<1>1. /\ pc' = "idle" /\ result' = "none" /\ call' = NoCall
      /\ UNCHANGED <<objects, mapping, target, id, faults, meddling, blind>>
      /\ iothreads' = iothreads \/ \E s \in Sorted(objects) : iothreads' = s
  BY DEF Snapshot, qemu
<1>2. iothreads' \in Seq(Ids) /\ Distinct(iothreads')
  BY <1>1, SortedHolds DEF Core, Shape
<1> QED
  BY <1>1, <1>2, AtRest

\* A new client knows nothing, whatever the old one was doing.
LEMMA DroppedStep == ASSUME Core, Dropped PROVE Core'
<1>1. /\ pc' = "idle" /\ result' = "none" /\ call' = NoCall /\ iothreads' = <<>>
      /\ UNCHANGED <<objects, mapping, target, id, faults, meddling, blind>>
  BY DEF Dropped, qemu
<1>2. iothreads' \in Seq(Ids) /\ Distinct(iothreads')
  BY <1>1 DEF Distinct
<1> QED
  BY <1>1, <1>2, AtRest

\* A call starts from what the client knows and counts from what there is.
LEMMA StartStep == ASSUME Core, NEW n \in 1 .. MaxTarget, set_thread_count(n) PROVE Core'
<1>1. /\ pc = "idle" /\ target' = n /\ Continue(iothreads, n)
      /\ UNCHANGED <<objects, mapping, iothreads, id, faults, meddling, blind>>
  BY DEF set_thread_count, qemu, client
<1>2. n \in Nat /\ n > 0 /\ n \in 0 .. MaxTarget /\ iothreads \in Seq(Ids)
      /\ Len(iothreads) \in Nat /\ objects \subseteq Ids
  BY QemuAssumption DEF Core, Shape
<1>3. Cardinality(objects) \in Nat
  BY <1>2, ObjectCount DEF Core, Shape
<1>4. /\ call' \in Calls
      /\ call'.from = Cardinality(objects) /\ call'.knew = Len(iothreads)
      /\ call'.strays = Unknown /\ call'.failures = 0
  <2>1. call' = [NoCall EXCEPT !.from = Cardinality(objects), !.knew = Len(iothreads),
                               !.strays = Unknown]
    BY DEF set_thread_count, Unknown
  <2>2. Unknown \subseteq Ids
    BY <1>2 DEF Unknown
  <2> DEFINE c == Cardinality(objects)
             k == Len(iothreads)
             u == Unknown
  <2>3. c \in Int /\ k \in Nat /\ u \in SUBSET Ids
    BY <1>2, <1>3, <2>2
  <2> HIDE DEF c, k, u
  <2>4. call' = [from |-> c, knew |-> k, strays |-> u, failures |-> 0, lost |-> FALSE,
                 meddled |-> FALSE]
    BY <2>1 DEF NoCall, c, k, u
  <2>5. call' \in Calls
    BY <2>3, <2>4 DEF Calls
  <2>6. call'.from = c /\ call'.knew = k /\ call'.strays = u /\ call'.failures = 0
    BY <2>4
  <2> QED
    BY <2>5, <2>6 DEF c, k, u
<1>5. \/ Len(iothreads) < n /\ pc' = "add" /\ result' = "none"
      \/ Len(iothreads) > n /\ pc' = "map_down" /\ result' = "none"
      \/ Len(iothreads) = n /\ pc' = "idle" /\ result' = "ok"
  BY <1>1, <1>2, ContinueCases
<1>6. Shape'
  BY <1>1, <1>2, <1>4, <1>5 DEF Core, Shape
<1>7. Place'
  BY <1>1, <1>2, <1>5 DEF Place
<1>8. Served'
  BY <1>1, <1>5 DEF Core, Served
<1>9. Counted'
  <2>1. EndsAsPromised'
    BY <1>1, <1>2, <1>3, <1>4, <1>5 DEF EndsAsPromised, Landed
  <2>2. Ahead' = 0
    BY <1>5 DEF Ahead
  <2> QED
    BY <1>1, <1>2, <1>3, <1>4, <1>5, <2>1, <2>2 DEF Counted
<1>10. Spread'
  BY <1>1, <1>4, <1>5 DEF Spread
<1>11. Clean'
  <2>1. Unknown' = Unknown
    BY <1>1 DEF Unknown
  <2> QED
    BY <1>4, <1>5, <2>1 DEF Clean
<1> QED
  BY <1>6, <1>7, <1>8, <1>9, <1>10, <1>11 DEF Core

\* What somebody else adds or removes shifts what the call counts from.
LEMMA MeddleStep == ASSUME Core, Meddle PROVE Core'
<1>1. /\ objects' \subseteq Ids /\ meddling' = meddling + 1
      /\ UNCHANGED <<iothreads, pc, target, id, result, faults>>
  BY DEF Meddle, client
<1>2. blind' <=> (blind \/ pc \in {"map_up", "rollback", "del"})
  BY Zenon DEF Meddle
<1>3. mapping' \in [Vqs -> Ids]
  <2>1. PICK S \in (SUBSET Ids) \ {{}} :
          \/ mapping' = mapping
          \/ \E s \in Sorted(S) : mapping' = RoundRobin(s)
    BY DEF Meddle
  <2>2. CASE mapping' = mapping
    BY <2>2 DEF Core, Shape
  <2>3. ASSUME NEW s \in Sorted(S), mapping' = RoundRobin(s) PROVE mapping' \in [Vqs -> Ids]
    <3>1. s \in Seq(Ids) /\ Len(s) = Cardinality(S) /\ Cardinality(S) > 0
      BY Countable, SortedHolds
    <3> QED
      BY <2>3, <3>1, RoundRobinServes
  <2> QED
    BY <2>1, <2>2, <2>3
<1>4. Cardinality(objects) \in Nat /\ Cardinality(objects') \in Nat
  BY <1>1, Countable DEF Core, Shape
<1>5. /\ call' \in Calls
      /\ call'.from = call.from + Cardinality(objects') - Cardinality(objects)
      /\ call'.knew = call.knew /\ call'.failures = call.failures /\ call'.meddled
  <2> DEFINE f == call.from + Cardinality(objects') - Cardinality(objects)
  <2>1. call' = [call EXCEPT !.from = f, !.meddled = TRUE]
    BY Zenon DEF Meddle
  <2>2. call \in Calls
    BY DEF Core, Shape
  <2>3. f \in Int
    BY <1>4, <2>2 DEF Calls
  <2> HIDE DEF f
  <2>4. /\ call' \in Calls /\ call'.from = f
        /\ call'.knew = call.knew /\ call'.failures = call.failures /\ call'.meddled
    BY <2>1, <2>2, <2>3 DEF Calls
  <2> QED
    BY <2>4 DEF f
<1>6. Shape'
  BY <1>1, <1>3, <1>5 DEF Core, Shape
<1>7. Place'
  BY <1>1 DEF Core, Place
<1>8. Served'
  <2>1. \A q \in Vqs : mapping'[q] \in objects'
    <3>1. PICK S \in (SUBSET Ids) \ {{}} :
            /\ objects' = S
            /\ \/ mapping' = mapping /\ \A q \in Vqs : mapping[q] \in S
               \/ \E s \in Sorted(S) : mapping' = RoundRobin(s)
      BY DEF Meddle
    <3>2. ASSUME NEW s \in Sorted(S) PROVE \A q \in Vqs : RoundRobin(s)[q] \in S
      <4>1. s \in Seq(Ids) /\ Len(s) = Cardinality(S) /\ Cardinality(S) > 0 /\ Elements(s) \subseteq S
        BY Countable, SortedHolds
      <4> QED
        BY <4>1, RoundRobinServes
    <3> QED
      BY <3>1, <3>2
  <2> QED
    BY <1>1, <1>2, <2>1 DEF Served
<1>9. Counted'
  <2>1. /\ call.from \in Int /\ call.knew \in Nat /\ Len(iothreads) \in Nat
        /\ target \in Int /\ Ahead \in Int /\ Ahead' = Ahead
    BY <1>1, QemuAssumption DEF Core, Shape, Calls, Ahead
  <2>2. EndsAsPromised'
    <3>1. result = "ok" => Cardinality(objects') = Landed(call'.from, call'.knew, target')
                           /\ Len(iothreads') = target'
      BY <1>1, <1>4, <1>5, <2>1 DEF Core, Counted, EndsAsPromised, Landed
    <3>2. ASSUME result = "err"
          PROVE  Cardinality(objects') \in
                   OnTheWay(call'.from, Landed(call'.from, call'.knew, target'))
      <4> DEFINE d == Cardinality(objects') - Cardinality(objects)
                 b == Landed(call.from, call.knew, target)
      <4>1. Cardinality(objects) \in OnTheWay(call.from, b)
        BY <3>2 DEF Core, Counted, EndsAsPromised
      <4>2. d \in Int /\ b \in Int
        BY <1>4, <2>1 DEF Landed
      <4>3. /\ Cardinality(objects') = Cardinality(objects) + d
            /\ call'.from = call.from + d
            /\ Landed(call'.from, call'.knew, target') = b + d
        BY <1>1, <1>4, <1>5, <2>1 DEF Landed
      <4> HIDE DEF d, b
      <4> QED
        BY <2>1, <4>1, <4>2, <4>3, Shifted
    <3> QED
      BY <1>1, <3>1, <3>2 DEF EndsAsPromised
  <2>3. ASSUME pc # "idle"
        PROVE  Cardinality(objects') = call'.from + Len(iothreads') - call'.knew + Ahead'
    <3>1. Cardinality(objects) = call.from + Len(iothreads) - call.knew + Ahead
      BY <2>3 DEF Core, Counted
    <3>2. Len(iothreads') = Len(iothreads)
      BY <1>1
    <3> DEFINE c == Cardinality(objects)
               d == Cardinality(objects')
               n == Len(iothreads)
               f == call.from
               k == call.knew
               a == Ahead
    <3>3. c \in Int /\ d \in Int /\ n \in Int /\ f \in Int /\ k \in Int /\ a \in Int
      BY <1>4, <2>1
    <3>4. c = f + n - k + a
      BY <3>1
    <3>5. call'.from = f + d - c /\ call'.knew = k /\ Len(iothreads') = n /\ Ahead' = a
      BY <1>5, <2>1, <3>2
    <3> HIDE DEF c, d, n, f, k, a
    <3>6. d = (f + d - c) + n - k + a
      BY <3>3, <3>4
    <3> QED
      BY <3>5, <3>6 DEF d
  <2>4. /\ pc \in {"add", "map_up", "rollback"} => call'.knew <= Len(iothreads')
        /\ pc \in {"map_down", "del"} => Len(iothreads') <= call'.knew
    BY <1>1, <1>5 DEF Core, Counted
  <2> QED
    BY <1>1, <2>2, <2>3, <2>4 DEF Counted
<1>10. Spread' /\ Clean'
  BY <1>1, <1>5 DEF Core, Spread, Clean
<1> QED
  BY <1>6, <1>7, <1>8, <1>9, <1>10 DEF Core

-----------------------------------------------------------------------------
(* The invariant holds *)

\* The flags stay flags.
LEMMA FlagsStep == ASSUME Flags, [Next]_vars PROVE Flags'
<1>1. CASE UNCHANGED vars
  BY <1>1, Zenon DEF Flags, vars, client
<1>2. CASE Snapshot
  BY <1>2, Zenon DEF Flags, Snapshot
<1>3. CASE Dropped
  BY <1>3, Zenon DEF Flags, Dropped
<1>4. ASSUME NEW n \in 1 .. MaxTarget, set_thread_count(n) PROVE Flags'
  BY <1>4, Zenon DEF Flags, set_thread_count, client
<1>5. ASSUME NEW o \in Outcomes, AddIoThread(o) PROVE Flags'
  BY <1>5, Zenon DEF Flags, AddIoThread, client
<1>6. ASSUME NEW o \in Outcomes, MapUp(o) PROVE Flags'
  BY <1>6, Zenon DEF Flags, MapUp
<1>7. ASSUME NEW o \in Outcomes, Rollback(o) PROVE Flags'
  BY <1>7, Zenon DEF Flags, Rollback, client
<1>8. ASSUME NEW o \in Outcomes, MapDown(o) PROVE Flags'
  BY <1>8, Zenon DEF Flags, MapDown, client
<1>9. ASSUME NEW o \in Outcomes, DelIoThread(o) PROVE Flags'
  BY <1>9, Zenon DEF Flags, DelIoThread
<1>10. CASE Meddle
  BY <1>10, Zenon DEF Flags, Meddle, client
<1> QED
  BY <1>1, <1>2, <1>3, <1>4, <1>5, <1>6, <1>7, <1>8, <1>9, <1>10 DEF Next, Step

\* A step that changes nothing keeps everything.
LEMMA Stutter == ASSUME Core, UNCHANGED vars PROVE Core'
<1>1. UNCHANGED <<objects, mapping, iothreads, pc, target, id, result, call, faults,
                  meddling, blind>>
  BY DEF vars, qemu, client
<1> QED
  BY <1>1 DEF Core, Shape, Place, Served, Idle, Counted, Ahead, EndsAsPromised, Spread, Clean,
              Unknown

\* Nothing has been done yet, and QEMU serves its queues.
LEMMA InitInv == Init => Core /\ Flags
<1> SUFFICES ASSUME Init PROVE Core /\ Flags
  OBVIOUS
<1>1. Flags
  BY Zenon DEF Init, Flags
<1>2. /\ objects \in (SUBSET Ids) \ {{}} /\ mapping \in [Vqs -> objects] /\ iothreads = <<>>
      /\ pc = "idle" /\ target = 0 /\ id = 0 /\ result = "none" /\ call = NoCall
      /\ faults = 0 /\ meddling = 0
  BY DEF Init
<1>3. Shape
  <2>1. 0 \in Ids /\ 0 \in 0 .. MaxTarget
    BY QemuAssumption DEF Ids
  <2>2. objects \subseteq Ids /\ mapping \in [Vqs -> Ids]
    BY <1>2
  <2> QED
    BY <1>2, <2>1, <2>2, NoCallType DEF Shape, Distinct
<1>4. Place /\ Served
  BY <1>2 DEF Place, Served
<1>5. Counted
  BY <1>2 DEF Counted, EndsAsPromised
<1>6. Spread /\ Clean
  BY <1>2 DEF Spread, Clean
<1> QED
  BY <1>1, <1>3, <1>4, <1>5, <1>6 DEF Core

\* Every action keeps the invariant.
LEMMA NextInv == ASSUME Core, [Next]_vars PROVE Core'
<1>1. ASSUME Step PROVE Core'
  BY <1>1, AddStep, MapUpStep, RollbackStep, MapDownStep, DelStep DEF Step
<1> QED
  BY <1>1, Stutter, SnapshotStep, DroppedStep, StartStep, MeddleStep DEF Next

\* The invariant holds in every state, for any number of identifiers, queues
\* and faults, and any order the identifiers may sort in.
THEOREM Invariance == Spec => []Inv
<1>1. Init => Inv
  BY InitInv DEF Inv
<1>2. Inv /\ [Next]_vars => Inv'
  BY NextInv, FlagsStep DEF Inv
<1> QED
  BY <1>1, <1>2, PTL DEF Spec

\* Every variable holds a value of its type, whatever the monitor answers.
THEOREM TypeCorrect == Spec => []TypeOK
<1>1. Inv => TypeOK
  BY DEF Inv, Core, Shape, Flags, TypeOK, Calls
<1> QED
  BY <1>1, Invariance, PTL

\* The client deletes no IOThread a queue is mapped to, wherever a command is
\* refused, a reply other than that of a growing call's mapping is lost or the
\* daemon dies, and whatever others do to the topology between calls.
THEOREM QueuesServed == Spec => []EveryQueueServed
<1>1. Inv => EveryQueueServed
  BY DEF Inv, Core, Served, EveryQueueServed
<1> QED
  BY <1>1, Invariance, PTL

\* set_thread_count keeps the promise the controller relies on: success moves
\* the pool by target - known, failure leaves it on the way there.
THEOREM PromiseKept == Spec => []EndsAsPromised
<1>1. Inv => EndsAsPromised
  BY DEF Inv, Core, Counted
<1> QED
  BY <1>1, Invariance, PTL

\* A successful resize spreads the queues evenly over the known workers, for
\* any number of queues and workers.
THEOREM QueuesSpread == Spec => []SuccessSpreads
<1>1. ASSUME Inv PROVE SuccessSpreads
  <2> SUFFICES ASSUME result = "ok", call.knew # target, ~call.meddled
               PROVE  /\ \A q \in Vqs : mapping[q] \in Elements(iothreads)
                      /\ \A i, j \in Elements(iothreads) : Load(i) <= Load(j) + 1
    BY DEF SuccessSpreads
  <2>1. /\ iothreads \in Seq(Ids) /\ Distinct(iothreads) /\ Len(iothreads) > 0
        /\ mapping = RoundRobin(iothreads)
    BY <1>1 DEF Inv, Core, Shape, Spread
  <2>2. \A q \in Vqs : mapping[q] \in Elements(iothreads)
    BY <2>1, RoundRobinServes
  <2>3. \A i, j \in Elements(iothreads) : Load(i) <= Load(j) + 1
    BY <2>1, RoundRobinSpreads
  <2> QED
    BY <2>2, <2>3
<1> QED
  BY <1>1, Invariance, PTL

\* A call that fails on one refused command leaves nothing behind: scale_up's
\* rollback removes what it added.
THEOREM OneFaultLeavesNothing == Spec => []OneFaultIsClean
<1>1. Inv => OneFaultIsClean
  BY DEF Inv, Core, Clean, Unknown, OneFaultIsClean
<1> QED
  BY <1>1, Invariance, PTL

=============================================================================
