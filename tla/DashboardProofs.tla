--------------------------- MODULE DashboardProofs --------------------------
(***************************************************************************)
(* Proofs about the dashboard's two tasks: a request goes to the VM the    *)
(* operator chose, the roster is what recent snapshots report, and the     *)
(* transitions on a line are a chain.                                      *)
(*                                                                         *)
(* The invariant adds to the properties what they rest on: the focus and   *)
(* an open prompt are on the chosen VM (Sound), the streak of a VM counts  *)
(* the snapshots without it, one behind while a snapshot is being folded   *)
(* in (Streaks), what is left to update is in the snapshot (Worklist), and *)
(* the size a line ends at is the last one seen (Chained).                 *)
(***************************************************************************)
EXTENDS Dashboard, FiniteSetTheorems, SequenceTheorems, WellFoundedInduction, TLAPS

-----------------------------------------------------------------------------
(* The invariant *)

VmStates == [thread_count : Sizes, last : Reports, annots : Seq(Annotations)]
Prompts == [kind : {"none", "threads", "setting"}, vm : VMs \cup {NoVm},
            sticky : BOOLEAN, buffer : Buffers]
UiStates == [focused : Focuses, sticky_mode : BOOLEAN, show_help : BOOLEAN,
             show_aggregate : BOOLEAN, prompt : Prompts, picker : BOOLEAN]

\* A UI state u that aims at the VM c the operator chose
Sound(u, c) ==
  /\ u \in UiStates
  /\ u.focused \in VMs => u.focused = c
  /\ u.prompt.kind = "threads" => u.prompt.vm \in VMs /\ u.prompt.vm = c

Screen == chosen \in Focuses /\ Sound(ui, chosen) /\ upc \in {"wait", "paint", "gone"}

\* A spawned call is for the VM that was chosen
Asked(r) == r.threads \in Nat /\ r.threads >= 1 /\ r.vm \in VMs /\ r.vm = r.chosen
Calls == \A r \in requests : Asked(r)

Daemon == fleet \in [VMs -> Reports]

Flags == up \in BOOLEAN /\ paused \in BOOLEAN /\ error \in BOOLEAN

Tables ==
  /\ payload \in [VMs -> Reports]
  /\ spc \in {"sleep", "asked", "clear", "note", "append", "drop", "update", "gone"}
  /\ roster \subseteq Selected
  /\ missing \in [VMs -> 0 .. MissingStreakDrop]
  /\ omitted \in [VMs -> 0 .. MissingStreakDrop + 1]
  /\ failed \in 0 .. DaemonLostStreak

\* What is left to update is in the roster and in the snapshot
Worklist ==
  /\ todo \subseteq roster
  /\ spc \notin {"update", "gone"} => todo = {}
  /\ spc = "update" => todo # {} /\ \A v \in todo : payload[v] # None

\* missing_streak counts the snapshots without the VM: exactly, once a snapshot
\* is folded in, and one behind while it is being folded in
Behind(v) == IF payload[v] # None THEN 0
             ELSE IF v \in roster THEN missing[v] + 1 ELSE MissingStreakDrop + 1
Streaks ==
  /\ spc \in {"sleep", "asked", "note", "update"} => \A v \in Selected :
       omitted[v] = IF v \in roster THEN missing[v] ELSE MissingStreakDrop + 1
  /\ spc \in {"clear", "append", "drop"} => \A v \in Selected : omitted[v] = Behind(v)
  /\ spc = "drop" => Wanted \subseteq roster

\* The annotations of a VM whose state is s are a chain up to its size
Chained(s) ==
  /\ s \in VmStates
  /\ s.last # None => s.thread_count = s.last
  /\ Len(s.annots) <= MaxHistory
  /\ \A i \in 1 .. Len(s.annots) : i < Len(s.annots) => s.annots[i].new_n = s.annots[i + 1].old_n
  /\ s.annots # <<>> => s.last # None /\ s.annots[Len(s.annots)].new_n = s.last
  /\ \A i \in 1 .. Len(s.annots) : s.annots[i].old_n # s.annots[i].new_n
History == DOMAIN vm = VMs /\ \A v \in VMs : Chained(vm[v])

Inv == Screen /\ Calls /\ Daemon /\ Tables /\ Worklist /\ Streaks /\ History

-----------------------------------------------------------------------------
(* The data *)

\* VM ids and the limits are numbers.
LEMMA Numbers ==
  /\ NumVms \in Nat /\ NumVms > 0 /\ MaxPool \in Nat /\ MaxPool > 0
  /\ MissingStreakDrop \in Nat /\ DaemonLostStreak \in Nat /\ MaxHistory \in Nat /\ MaxHistory > 0
  /\ None \notin Sizes /\ None \in Reports /\ Sizes \subseteq Reports
  /\ Sizes \subseteq Nat /\ 0 \in Sizes
  /\ VMs \subseteq Nat \ {0} /\ Total \notin VMs /\ NoVm \notin VMs /\ Selected \subseteq VMs
BY DashboardAssumption DEF VMs, Total, NoVm, None, Sizes, Reports

\* A set of VMs with an element has a smallest one.
LEMMA LeastVm ==
  ASSUME NEW S \in SUBSET VMs, S # {}
  PROVE  \E m \in S : \A k \in S : m <= k
<1>1. S \in SUBSET Nat
  BY Numbers
<1>2. PICK m \in S : \A k \in S : ~ (<<k, m>> \in OpToRel(<, Nat))
  BY <1>1, NatLessThanWellFounded, WFMin
<1>3. \A k \in S : ~ (k < m)
  BY <1>1, <1>2 DEF OpToRel
<1> QED
  BY <1>1, <1>3

\* Sets of VMs are finite.
LEMMA FiniteVms == ASSUME NEW S \in SUBSET VMs PROVE IsFiniteSet(S) /\ Cardinality(S) \in Nat
<1>1. IsFiniteSet(VMs)
  BY Numbers, FS_Interval DEF VMs
<1> QED
  BY <1>1, FS_Subset, FS_CardinalityType

\* Roster positions are numbered without gaps, so the cursor finds a VM at each.
LEMMA AtFinds ==
  ASSUME roster \subseteq VMs, NEW i \in 0 .. Cardinality(roster) - 1
  PROVE  At(i) \in roster
<1> DEFINE n == Cardinality(roster)
           below(v) == {w \in roster : w < v}
           pos == [v \in roster |-> Cardinality(below(v))]
<1>1. IsFiniteSet(roster) /\ n \in Nat
  BY FiniteVms
<1>2. \A v \in roster : pos[v] = Position(v)
  BY DEF Position
<1>3. \A v \in roster : IsFiniteSet(below(v)) /\ Cardinality(below(v)) \in Nat
  <2>1. \A v \in roster : below(v) \in SUBSET VMs
    OBVIOUS
  <2> QED
    BY <2>1, FiniteVms
<1>4. ASSUME NEW v \in roster, NEW w \in roster, v < w
      PROVE  pos[v] < pos[w]
  <2>1a. \A x \in roster : x \in Nat
    BY Numbers
  <2>1. below(v) \subseteq below(w) /\ v \in below(w) /\ v \notin below(v)
    BY <1>4, <2>1a
  <2>2. Cardinality(below(v)) < Cardinality(below(w))
    <3> HIDE DEF below
    <3>1. below(v) \subseteq below(w) /\ below(v) # below(w)
      BY <2>1
    <3> QED
      BY <1>3, <3>1, FS_Subset
  <2> QED
    BY <2>2
<1>5. ASSUME NEW v \in roster PROVE pos[v] \in 0 .. n - 1
  <2>1. below(v) \subseteq roster /\ v \notin below(v)
    BY Numbers
  <2> HIDE DEF below
  <2>2. below(v) # roster
    BY <2>1
  <2>3. Cardinality(below(v)) <= n /\ n # Cardinality(below(v))
    BY <1>1, <2>1, <2>2, FS_Subset
  <2>4. Cardinality(below(v)) \in Nat
    BY <1>3
  <2>5. Cardinality(below(v)) \in 0 .. n - 1
    <3> HIDE DEF n
    <3> QED
      BY <1>1, <2>3, <2>4
  <2> QED
    BY <2>5
<1> HIDE DEF pos, n
<1>6. \E v \in roster : pos[v] = i
  <2> SUFFICES ASSUME \A v \in roster : pos[v] # i PROVE FALSE
    OBVIOUS
  <2> DEFINE R == (0 .. n - 1) \ {i}
  <2>1. IsFiniteSet(0 .. n - 1) /\ Cardinality(0 .. n - 1) = n /\ i \in 0 .. n - 1
    BY <1>1, FS_Interval DEF n
  <2> DEFINE I == 0 .. n - 1
  <2>1a. IsFiniteSet(I) /\ Cardinality(I) = n /\ i \in I /\ R = I \ {i}
    BY <2>1
  <2> HIDE DEF I, R
  <2>2. IsFiniteSet(R) /\ Cardinality(R) = n - 1
    BY <2>1a, FS_RemoveElement
  <2>3. pos \in [roster -> R]
    <3>1. \A v \in roster : pos[v] \in R
      BY <1>5 DEF R
    <3> QED
      BY <3>1 DEF pos
  <2>4. Cardinality(R) < Cardinality(roster)
    BY <1>1, <2>2 DEF n
  <2>5. \E x, y \in roster : x # y /\ pos[x] = pos[y]
    BY <1>1, <2>2, <2>3, <2>4, FS_PigeonHole
  <2>6. \A x, y \in roster : x # y => x < y \/ y < x
    BY Numbers
  <2>7. \A x \in roster : pos[x] \in Int
    BY <1>1, <1>5
  <2> QED
    BY <1>4, <2>5, <2>6, <2>7
<1> QED
  BY <1>2, <1>6 DEF At

\* move_focus lands on a VM of the roster, on Total or nowhere.
LEMMA NextFocusIn == ASSUME roster \subseteq VMs, NEW d \in {-1, 1} PROVE NextFocus(d) \in Focuses
<1> DEFINE n == Cardinality(roster)
           slots == IF ui.show_aggregate /\ n >= 2 THEN n + 1 ELSE n
           cur == IF ui.focused = Total THEN n ELSE Position(ui.focused)
           next == (cur + d) % slots
<1>1. n \in Nat
  BY FiniteVms
<1>2. cur \in Int
  <2>1. Position(ui.focused) \in Int
    <3>1. {w \in roster : w < ui.focused} \in SUBSET VMs
      OBVIOUS
    <3>2. Cardinality({w \in roster : w < ui.focused}) \in Nat
      BY <3>1, FiniteVms
    <3> QED
      BY <3>2 DEF Position
  <2> QED
    BY <1>1, <2>1
<1>3. slots \in {n, n + 1}
  OBVIOUS
<1> HIDE DEF slots, cur
<1>4. n > 0 => next \in 0 .. n
  BY <1>1, <1>2, <1>3
<1>5. NextFocus(d) = IF n = 0 THEN NoVm ELSE IF next = n THEN Total ELSE At(next)
  BY DEF NextFocus, slots, cur
<1> HIDE DEF next
<1>6. ASSUME n # 0, next # n PROVE At(next) \in roster
  <2>1. next \in 0 .. n - 1
    BY <1>1, <1>4, <1>6
  <2> QED
    BY <2>1, AtFinds
<1> QED
  BY <1>5, <1>6 DEF Focuses

\* Pushing a change that starts at the known size keeps the chain, and the ring
\* its bound.
LEMMA PushedChain ==
  ASSUME NEW s, Chained(s), NEW n \in Sizes, s.last \notin {None, n},
         NEW a, a = Pushed(s.annots, [old_n |-> s.last, new_n |-> n])
  PROVE  /\ a \in Seq(Annotations) /\ Len(a) > 0 /\ Len(a) <= MaxHistory
         /\ \A i \in 1 .. Len(a) : i < Len(a) => a[i].new_n = a[i + 1].old_n
         /\ a[Len(a)].new_n = n
         /\ \A i \in 1 .. Len(a) : a[i].old_n # a[i].new_n
<1> DEFINE e == [old_n |-> s.last, new_n |-> n]
           c == s.annots
           b == Append(c, e)
<1>1. /\ c \in Seq(Annotations) /\ Len(c) <= MaxHistory /\ Len(c) \in Nat
      /\ \A i \in 1 .. Len(c) : i < Len(c) => c[i].new_n = c[i + 1].old_n
      /\ Len(c) > 0 => c[Len(c)].new_n = s.last
      /\ \A i \in 1 .. Len(c) : c[i].old_n # c[i].new_n
  BY DEF Chained, VmStates
<1>2. e \in Annotations /\ e.old_n = s.last /\ e.new_n = n /\ s.last # n
  BY DEF Chained, VmStates, Reports, Annotations
<1> HIDE DEF c, e
<1>3. /\ b \in Seq(Annotations) /\ Len(b) = Len(c) + 1 /\ b[Len(b)] = e
      /\ \A i \in 1 .. Len(c) : b[i] = c[i]
  BY <1>1, <1>2
<1> HIDE DEF b
<1>4. \A i \in 1 .. Len(b) : i < Len(b) => b[i].new_n = b[i + 1].old_n
  <2> SUFFICES ASSUME NEW i \in 1 .. Len(b), i < Len(b) PROVE b[i].new_n = b[i + 1].old_n
    OBVIOUS
  <2>1. CASE i < Len(c)
    BY <1>1, <1>3, <2>1
  <2>2. CASE i = Len(c)
    BY <1>1, <1>2, <1>3, <2>2
  <2> QED
    BY <1>1, <1>3, <2>1, <2>2
<1>5. \A i \in 1 .. Len(b) : b[i].old_n # b[i].new_n
  <2> SUFFICES ASSUME NEW i \in 1 .. Len(b) PROVE b[i].old_n # b[i].new_n
    OBVIOUS
  <2>1. CASE i <= Len(c)
    BY <1>1, <1>3, <2>1
  <2>2. CASE i = Len(b)
    BY <1>2, <1>3, <2>2
  <2> QED
    BY <1>1, <1>3, <2>1, <2>2
<1>6. a = IF Len(b) > MaxHistory THEN Tail(b) ELSE b
  BY DEF Pushed, b, c, e
<1>7. CASE Len(b) > MaxHistory
  <2>1. /\ a \in Seq(Annotations) /\ Len(a) = Len(b) - 1
        /\ \A i \in 1 .. Len(b) - 1 : a[i] = b[i + 1]
    <3>1. b # <<>> /\ Len(b) \in Nat
      BY <1>1, <1>3
    <3>2. a = Tail(b)
      BY <1>6, <1>7
    <3>3. /\ Tail(b) \in Seq(Annotations) /\ Len(Tail(b)) = Len(b) - 1
          /\ \A i \in 1 .. Len(Tail(b)) : Tail(b)[i] = b[i + 1]
      BY <1>3, <3>1, HeadTailProperties
    <3> QED
      BY <3>2, <3>3
  <2>2. Len(a) = MaxHistory /\ MaxHistory > 0 /\ Len(a) \in Nat
    BY <1>1, <1>3, <1>7, <2>1, Numbers
  <2>3. a[Len(a)] = e
    BY <1>3, <2>1, <2>2
  <2>4. \A i \in 1 .. Len(a) : i < Len(a) => a[i].new_n = a[i + 1].old_n
    <3> SUFFICES ASSUME NEW i \in 1 .. Len(a), i < Len(a) PROVE a[i].new_n = a[i + 1].old_n
      OBVIOUS
    <3>1. i + 1 \in 1 .. Len(b) /\ i + 1 < Len(b) /\ i \in 1 .. Len(b) - 1
          /\ i + 1 \in 1 .. Len(b) - 1
      BY <1>1, <1>3, <2>1, <2>2
    <3>2. a[i] = b[i + 1] /\ a[i + 1] = b[(i + 1) + 1]
      BY <2>1, <3>1
    <3> QED
      BY <1>4, <3>1, <3>2
  <2>5. \A i \in 1 .. Len(a) : a[i].old_n # a[i].new_n
    <3> SUFFICES ASSUME NEW i \in 1 .. Len(a) PROVE a[i].old_n # a[i].new_n
      OBVIOUS
    <3>1. i + 1 \in 1 .. Len(b) /\ i \in 1 .. Len(b) - 1
      BY <1>1, <1>3, <2>1, <2>2
    <3>2. a[i] = b[i + 1]
      BY <2>1, <3>1
    <3> QED
      BY <1>5, <3>1, <3>2
  <2> QED
    BY <1>2, <2>1, <2>2, <2>3, <2>4, <2>5
<1>8. CASE ~(Len(b) > MaxHistory)
  BY <1>1, <1>2, <1>3, <1>4, <1>5, <1>6, <1>8, Numbers
<1> QED
  BY <1>7, <1>8

\* snapshot_to_status keeps the chain.
LEMMA UpdatedChain ==
  ASSUME NEW v \in VMs, History, payload[v] \in Sizes
  PROVE  Chained(Updated(v))
<1> DEFINE s == vm[v]
           n == payload[v]
           a == IF s.last \in {None, n} THEN s.annots
                ELSE Pushed(s.annots, [old_n |-> s.last, new_n |-> n])
           u == Updated(v)
<1>1. Chained(s)
  BY DEF History
<1>2. u = [thread_count |-> n, last |-> n, annots |-> a]
  BY DEF Updated
<1>3. n \in Sizes /\ n \in Reports /\ n # None
  BY Numbers
<1>4. /\ a \in Seq(Annotations) /\ Len(a) <= MaxHistory
      /\ \A i \in 1 .. Len(a) : i < Len(a) => a[i].new_n = a[i + 1].old_n
      /\ a # <<>> => a[Len(a)].new_n = n
      /\ \A i \in 1 .. Len(a) : a[i].old_n # a[i].new_n
  <2>1. CASE s.last = n
    <3>1. a = s.annots
      BY <2>1
    <3> HIDE DEF s, n, a
    <3> QED
      BY <1>1, <2>1, <3>1 DEF Chained, VmStates
  <2>2. CASE s.last = None
    <3>1. a = s.annots
      BY <2>2
    <3> HIDE DEF s, n, a
    <3>2. s.annots = <<>>
      BY <1>1, <2>2 DEF Chained
    <3> QED
      BY <3>1, <3>2, Numbers
  <2>3. CASE s.last \notin {None, n}
    <3>1. a = Pushed(s.annots, [old_n |-> s.last, new_n |-> n])
      BY <2>3
    <3> HIDE DEF s, n, a
    <3>2. /\ a \in Seq(Annotations) /\ Len(a) <= MaxHistory
          /\ \A i \in 1 .. Len(a) : i < Len(a) => a[i].new_n = a[i + 1].old_n
          /\ a[Len(a)].new_n = n
          /\ \A i \in 1 .. Len(a) : a[i].old_n # a[i].new_n
      BY <1>1, <1>3, <2>3, <3>1, PushedChain
    <3> QED
      BY <3>2
  <2> QED
    BY <2>1, <2>2, <2>3
<1> HIDE DEF s, n, a, u
<1>5. u \in VmStates /\ u.thread_count = n /\ u.last = n /\ u.annots = a
  BY <1>2, <1>3, <1>4 DEF VmStates
<1>6. Chained(u)
  BY <1>3, <1>4, <1>5 DEF Chained
<1> QED
  BY <1>6 DEF u

\* A VM that has just been added has no history.
LEMMA FreshChain == Chained(FreshVm)
<1> DEFINE s == FreshVm
<1>1. s.thread_count = 0 /\ s.last = None /\ s.annots = <<>>
  BY DEF FreshVm
<1>2. s \in VmStates
  BY Numbers DEF FreshVm, VmStates
<1> HIDE DEF s
<1>3. Chained(s)
  BY <1>1, <1>2, Numbers DEF Chained
<1> QED
  BY <1>3 DEF s

-----------------------------------------------------------------------------
(* The sampler *)

\* What every step of the sampler leaves alone.
LEMMA SamplerFrame ==
  ASSUME Inv, UNCHANGED <<daemon_vars, upc, ui, requests, chosen>>
  PROVE  Screen' /\ Calls' /\ Daemon'
<1>1. UNCHANGED <<fleet, upc, ui, requests, chosen>>
  BY DEF daemon_vars
<1>2. Screen'
  BY <1>1 DEF Inv, Screen, Sound
<1>3. Calls'
  BY <1>1 DEF Inv, Calls, Asked
<1>4. Daemon'
  BY <1>1 DEF Inv, Daemon
<1> QED
  BY <1>2, <1>3, <1>4

\* The VMs' histories stay as they are.
LEMMA HistoryFrame == ASSUME History, vm' = vm PROVE History'
BY DEF History, Chained

\* A poll starts, fails or is noted without touching the roster.
LEMMA QuietStep ==
  ASSUME Inv, Wake \/ Unanswered \/ NoteError \/ ClearError
  PROVE  Inv'
<1>1. UNCHANGED <<daemon_vars, upc, ui, requests, chosen>>
  BY DEF Wake, Unanswered, NoteError, ClearError, Sampling
<1>2. UNCHANGED <<payload, todo, missing, omitted, roster, vm>>
  BY DEF Wake, Unanswered, NoteError, ClearError, shared_vars
<1>3. /\ spc \in {"sleep", "asked", "note", "clear"}
      /\ spc' \in {"sleep", "asked", "note", "append"}
      /\ spc = "clear" <=> spc' = "append"
  BY DEF Wake, Unanswered, NoteError, ClearError, Sampling
<1>4. failed' \in 0 .. DaemonLostStreak
  <2>1. failed \in 0 .. DaemonLostStreak /\ DaemonLostStreak \in Nat
    BY Numbers DEF Inv, Tables
  <2>2. failed' = failed \/ failed' = AtMost(failed + 1, DaemonLostStreak)
    BY DEF Wake, Unanswered, NoteError, ClearError, shared_vars
  <2> QED
    BY <2>1, <2>2 DEF AtMost
<1>5. Tables'
  BY <1>2, <1>3, <1>4 DEF Inv, Tables
<1>6. Worklist'
  BY <1>2, <1>3 DEF Inv, Worklist
<1>7. Streaks'
  BY <1>2, <1>3 DEF Inv, Streaks, Behind
<1>8. History'
  BY <1>2, HistoryFrame DEF Inv
<1> QED
  BY <1>1, <1>5, <1>6, <1>7, <1>8, SamplerFrame DEF Inv

\* An answered poll: each streak is one behind what the snapshot says.
LEMMA AnsweredStep == ASSUME Inv, Answered PROVE Inv'
<1>1. UNCHANGED <<daemon_vars, upc, ui, requests, chosen>>
  BY DEF Answered, Sampling
<1>2. /\ spc = "asked" /\ spc' \in {"clear", "append"} /\ payload' = fleet /\ failed' = 0
      /\ UNCHANGED <<todo, missing, roster, vm>>
      /\ omitted' = [v \in VMs |-> IF fleet[v] # None THEN 0
                                   ELSE AtMost(omitted[v] + 1, MissingStreakDrop + 1)]
  BY DEF Answered, Sampling
<1>3. /\ omitted \in [VMs -> 0 .. MissingStreakDrop + 1] /\ MissingStreakDrop \in Nat
      /\ missing \in [VMs -> 0 .. MissingStreakDrop] /\ Selected \subseteq VMs
      /\ DaemonLostStreak \in Nat /\ fleet \in [VMs -> Reports]
      /\ \A v \in Selected : omitted[v] = IF v \in roster THEN missing[v] ELSE MissingStreakDrop + 1
  BY <1>2, Numbers DEF Inv, Tables, Daemon, Streaks
<1>4. omitted' \in [VMs -> 0 .. MissingStreakDrop + 1]
  BY <1>2, <1>3 DEF AtMost
<1>5. Tables'
  BY <1>2, <1>3, <1>4 DEF Inv, Tables
<1>6. Worklist'
  BY <1>2 DEF Inv, Worklist
<1>7. Streaks'
  <2>1. ASSUME NEW v \in Selected PROVE omitted'[v] = Behind(v)'
    <3>1. omitted'[v] = IF fleet[v] # None THEN 0 ELSE AtMost(omitted[v] + 1, MissingStreakDrop + 1)
      BY <1>2, <1>3
    <3>2. v \in roster => missing[v] \in 0 .. MissingStreakDrop
      BY <1>3
    <3>3. AtMost(omitted[v] + 1, MissingStreakDrop + 1) =
            IF v \in roster THEN missing[v] + 1 ELSE MissingStreakDrop + 1
      BY <1>3, <3>2 DEF AtMost
    <3> QED
      BY <1>2, <3>1, <3>3 DEF Behind
  <2> QED
    BY <1>2, <2>1 DEF Streaks
<1>8. History'
  BY <1>2, HistoryFrame DEF Inv
<1> QED
  BY <1>1, <1>5, <1>6, <1>7, <1>8, SamplerFrame DEF Inv

\* phases 1 and 2 of reconcile_with_snapshot: a VM that is new to the roster
\* has no streak yet and no history.
LEMMA AppendStep == ASSUME Inv, Append_ PROVE Inv'
<1>1. UNCHANGED <<daemon_vars, upc, ui, requests, chosen>>
  BY DEF Append_, Sampling
<1>2. /\ spc = "append" /\ spc' = "drop" /\ roster' = roster \cup Wanted
      /\ vm' = [v \in VMs |-> IF v \in Wanted \ roster THEN FreshVm ELSE vm[v]]
      /\ UNCHANGED <<payload, todo, missing, omitted, failed>>
  BY DEF Append_, Sampling
<1>3. Wanted \subseteq Selected /\ Wanted' = Wanted
  BY <1>2 DEF Wanted
<1>4. Tables'
  BY <1>2, <1>3 DEF Inv, Tables
<1>5. Worklist'
  BY <1>2 DEF Inv, Worklist
<1>6. Streaks'
  <2>1. ASSUME NEW v \in Selected PROVE omitted'[v] = Behind(v)'
    <3>1. omitted[v] = Behind(v)
      BY <1>2 DEF Inv, Streaks
    <3>2. Behind(v)' = Behind(v)
      BY <1>2 DEF Behind, Wanted
    <3> QED
      BY <1>2, <3>1, <3>2
  <2> QED
    BY <1>2, <1>3, <2>1 DEF Streaks
<1>7. History'
  BY <1>2, FreshChain DEF Inv, History
<1> QED
  BY <1>1, <1>4, <1>5, <1>6, <1>7, SamplerFrame DEF Inv

\* phase 3: after it the streaks are exact, and who has exceeded the limit is
\* off the roster.
LEMMA DropStep == ASSUME Inv, Drop PROVE Inv'
<1> DEFINE gone == {v \in roster : Streak(v) > MissingStreakDrop}
           left == (roster \ gone) \cap Wanted
<1>1. UNCHANGED <<daemon_vars, upc, ui, requests, chosen>>
  BY DEF Drop, Sampling
<1>2. /\ spc = "drop" /\ spc' = (IF left = {} THEN "sleep" ELSE "update")
      /\ roster' = roster \ gone
      /\ missing' = [v \in VMs |-> IF v \in gone THEN 0 ELSE Streak(v)]
      /\ vm' = [v \in VMs |-> IF v \in gone THEN FreshVm ELSE vm[v]]
      /\ todo' = left /\ payload' = (IF left = {} THEN Nothing ELSE payload)
      /\ UNCHANGED <<omitted, failed>>
  BY DEF Drop, Sampling
<1>3. /\ missing \in [VMs -> 0 .. MissingStreakDrop] /\ MissingStreakDrop \in Nat
      /\ roster \subseteq Selected /\ Selected \subseteq VMs /\ payload \in [VMs -> Reports]
      /\ omitted \in [VMs -> 0 .. MissingStreakDrop + 1]
      /\ Wanted \subseteq roster /\ \A v \in Selected : omitted[v] = Behind(v)
  BY <1>2, Numbers DEF Inv, Tables, Streaks
<1>4. \A v \in VMs : Streak(v) \in 0 .. MissingStreakDrop + 1
  BY <1>3 DEF Streak
<1>5. Nothing \in [VMs -> Reports]
  BY Numbers DEF Nothing
<1>6. ASSUME NEW v \in VMs PROVE v \in gone <=> v \in roster /\ Streak(v) = MissingStreakDrop + 1
  BY <1>3, <1>4
<1>7. ASSUME NEW v \in Selected
      PROVE  /\ v \in roster => omitted[v] = Streak(v)
             /\ v \notin roster => omitted[v] = MissingStreakDrop + 1
  <2>1. v \in Wanted <=> payload[v] # None
    BY DEF Wanted
  <2> QED
    BY <1>3, <2>1 DEF Streak, Behind
<1>8. \A v \in left : v \in roster \ gone /\ payload[v] # None
  BY DEF Wanted
<1> HIDE DEF gone, left
<1>9. Tables'
  <2>1. missing' \in [VMs -> 0 .. MissingStreakDrop]
    <3>1. ASSUME NEW v \in VMs
          PROVE  (IF v \in gone THEN 0 ELSE Streak(v)) \in 0 .. MissingStreakDrop
      <4>1. CASE v \in roster
        BY <1>3, <1>4, <1>6, <4>1
      <4>2. CASE v \notin roster
        BY <1>3, <1>6, <4>2 DEF Streak
      <4> QED
        BY <4>1, <4>2
    <3> QED
      BY <1>2, <3>1
  <2>2. payload' \in [VMs -> Reports]
    BY <1>2, <1>3, <1>5
  <2> QED
    BY <1>2, <1>3, <2>1, <2>2 DEF Inv, Tables
<1>10. Worklist'
  BY <1>2, <1>8 DEF Worklist
<1>11. Streaks'
  <2>1. ASSUME NEW v \in Selected
        PROVE  omitted'[v] = IF v \in roster' THEN missing'[v] ELSE MissingStreakDrop + 1
    <3>1. v \in VMs /\ missing'[v] = IF v \in gone THEN 0 ELSE Streak(v)
      BY <1>2, <1>3
    <3>2. v \in roster' <=> v \in roster /\ v \notin gone
      BY <1>2
    <3> QED
      BY <1>2, <1>6, <1>7, <3>1, <3>2
  <2> QED
    BY <1>2, <2>1 DEF Streaks
<1>12. History'
  BY <1>2, FreshChain DEF Inv, History
<1> QED
  BY <1>1, <1>9, <1>10, <1>11, <1>12, SamplerFrame DEF Inv

\* The figures of one VM are brought up to date.
LEMMA UpdateStep == ASSUME Inv, Update PROVE Inv'
<1> DEFINE v == CHOOSE v \in todo : \A w \in todo : v <= w
           left == todo \ {v}
<1>1. UNCHANGED <<daemon_vars, upc, ui, requests, chosen>>
  BY DEF Update, Sampling
<1>2. /\ spc = "update" /\ spc' = (IF left = {} THEN "sleep" ELSE "update")
      /\ vm' = [vm EXCEPT ![v] = Updated(v)]
      /\ todo' = left /\ payload' = (IF left = {} THEN Nothing ELSE payload)
      /\ UNCHANGED <<missing, omitted, roster, failed>>
  BY DEF Update, Sampling
<1>3. /\ todo \subseteq roster /\ roster \subseteq VMs /\ todo # {} /\ payload \in [VMs -> Reports]
      /\ \A w \in todo : payload[w] # None
  BY <1>2, Numbers DEF Inv, Tables, Worklist
<1>4. v \in todo
  <2>1. todo \in SUBSET VMs
    BY <1>3
  <2> QED
    BY <1>3, <2>1, LeastVm
<1> HIDE DEF v
<1>5. v \in VMs /\ payload[v] \in Sizes
  BY <1>3, <1>4 DEF Reports
<1>6. Nothing \in [VMs -> Reports]
  BY Numbers DEF Nothing
<1>7. Tables'
  <2>1. payload' \in [VMs -> Reports]
    BY <1>2, <1>3, <1>6
  <2> QED
    BY <1>2, <2>1 DEF Inv, Tables
<1>8. Worklist'
  BY <1>2, <1>3 DEF Worklist
<1>9. Streaks'
  BY <1>2 DEF Inv, Streaks
<1>10. History'
  <2>1. Chained(Updated(v))
    BY <1>5, UpdatedChain DEF Inv
  <2>2. DOMAIN vm' = VMs /\ \A w \in VMs : vm'[w] = IF w = v THEN Updated(v) ELSE vm[w]
    BY <1>2 DEF Inv, History
  <2> HIDE <1>2
  <2>3. \A w \in VMs : Chained(vm'[w])
    BY <2>1, <2>2 DEF Inv, History
  <2> QED
    BY <2>2, <2>3 DEF History
<1> QED
  BY <1>1, <1>7, <1>8, <1>9, <1>10, SamplerFrame DEF Inv

\* Every step of the sampler keeps the invariant.
LEMMA SamplerStep == ASSUME Inv, Sampler PROVE Inv'
BY QuietStep, AnsweredStep, AppendStep, DropStep, UpdateStep DEF Sampler

-----------------------------------------------------------------------------
(* Keys *)

\* What every step but the sampler's leaves alone.
LEMMA TaskFrame ==
  ASSUME Inv, UNCHANGED <<payload, todo, missing, omitted, roster, failed>>,
         spc' \in {spc, "gone"}
  PROVE  Tables' /\ Worklist' /\ Streaks'
<1>1. Tables'
  BY DEF Inv, Tables
<1>2. Worklist'
  BY DEF Inv, Worklist
<1>3. Streaks'
  BY DEF Inv, Streaks, Behind, Wanted
<1> QED
  BY <1>1, <1>2, <1>3

\* What a key leaves alone.
LEMMA KeyFrame == ASSUME Inv, Key PROVE Tables' /\ Worklist' /\ Streaks' /\ Daemon' /\ upc' = upc
<1>1. UNCHANGED <<payload, todo, missing, omitted, roster, failed, spc, fleet, upc>>
  BY DEF Key, sampler_vars, daemon_vars
<1>2. Daemon'
  BY <1>1 DEF Inv, Daemon
<1> QED
  BY <1>1, <1>2, TaskFrame

\* A key that only changes the UI state.
LEMMA ScreenStep == ASSUME Inv, NEW u, OnScreen(u), Sound(u, chosen) PROVE Inv'
<1>1. Key /\ ui' = u /\ UNCHANGED <<vm, requests, chosen>>
  BY DEF OnScreen
<1>2. Screen'
  BY <1>1, KeyFrame DEF Inv, Screen
<1>3. Calls'
  BY <1>1 DEF Inv, Calls, Asked
<1>4. History'
  BY <1>1, HistoryFrame DEF Inv
<1> QED
  BY <1>1, <1>2, <1>3, <1>4, KeyFrame DEF Inv

\* Where a UI state that aims right may differ from another.
LEMMA SoundLike ==
  ASSUME NEW w, NEW c, Sound(w, c), NEW u \in UiStates,
         u.focused \in {w.focused, NoVm, Total},
         u.prompt.kind = "threads" => u.prompt.vm \in VMs /\ u.prompt.vm = c
  PROVE  Sound(u, c)
<1>1. u.focused \in VMs => u.focused = c
  BY Numbers DEF Sound
<1> QED
  BY <1>1 DEF Sound

\* Closing the help overlay uncovers what was there.
LEMMA HelpStep == ASSUME Inv, DismissHelp PROVE Inv'
<1> DEFINE u == [ui EXCEPT !.show_help = FALSE]
<1>1. ui \in UiStates /\ Sound(ui, chosen)
  BY DEF Inv, Screen, Sound
<1>2. u \in UiStates /\ u.focused = ui.focused /\ u.prompt = ui.prompt
  BY <1>1 DEF UiStates
<1>3. OnScreen(u)
  BY DEF DismissHelp
<1> HIDE DEF u
<1>4. Sound(u, chosen)
  BY <1>1, <1>2, SoundLike DEF Sound
<1> QED
  BY <1>3, <1>4, ScreenStep

\* A prompt that is closed leaves the rest of the screen alone.
LEMMA Closed ==
  ASSUME Sound(ui, chosen), NEW u \in UiStates, u.prompt = NoPrompt,
         u.focused = ui.focused
  PROVE  Sound(u, chosen)
<1>1. u.prompt.kind = "none"
  BY DEF NoPrompt
<1> QED
  BY <1>1, SoundLike DEF Sound

\* The closed prompt.
LEMMA NoPromptType == NoPrompt \in Prompts
BY Numbers DEF NoPrompt, Prompts, Buffers

\* handle_input_prompt_key: an open prompt keeps its VM until it is closed.
LEMMA PromptStep == ASSUME Inv, Prompting PROVE Inv'
<1>1. ui \in UiStates /\ Sound(ui, chosen) /\ chosen \in Focuses
  BY DEF Inv, Screen, Sound
<1>3. ASSUME NEW u, u = [ui EXCEPT !.prompt = NoPrompt] PROVE Sound(u, chosen)
  <2>1. /\ u \in UiStates /\ u.focused = ui.focused /\ u.prompt = NoPrompt
    BY <1>1, <1>3, NoPromptType DEF UiStates
  <2> QED
    BY <1>1, <2>1, Closed
<1>4. ASSUME NEW p \in Prompts, p.kind = ui.prompt.kind, p.vm = ui.prompt.vm,
             NEW u, u = [ui EXCEPT !.prompt = p]
      PROVE  Sound(u, chosen)
  <2>1. /\ u \in UiStates /\ u.focused = ui.focused /\ u.prompt = p
    BY <1>1, <1>4 DEF UiStates
  <2>2. u.prompt.kind = "threads" => u.prompt.vm \in VMs /\ u.prompt.vm = chosen
    BY <1>1, <1>4, <2>1 DEF Sound
  <2> QED
    BY <1>1, <2>1, <2>2, SoundLike
<1>5. CASE PromptCancel
  <2>1. OnScreen([ui EXCEPT !.prompt = NoPrompt])
    BY <1>5 DEF PromptCancel
  <2> QED
    BY <1>3, <2>1, ScreenStep
<1>6. CASE PromptType
  <2>1. PICK b \in Buffers : OnScreen([ui EXCEPT !.prompt.buffer = b])
    BY <1>6 DEF PromptType
  <2> DEFINE p == [ui.prompt EXCEPT !.buffer = b]
             u == [ui EXCEPT !.prompt = p]
  <2>2. ui.prompt \in Prompts
    BY <1>1 DEF UiStates
  <2>3. p \in Prompts /\ p.kind = ui.prompt.kind /\ p.vm = ui.prompt.vm
    BY <2>2 DEF Prompts
  <2>4. OnScreen(u)
    BY <2>1
  <2> HIDE DEF p
  <2>6. Sound(u, chosen)
    BY <1>4, <2>3
  <2> HIDE DEF u
  <2> QED
    BY <2>4, <2>6, ScreenStep
<1>7. CASE PromptSticky
  <2> DEFINE s == ~ui.prompt.sticky
             p == [ui.prompt EXCEPT !.sticky = s]
             u == [ui EXCEPT !.prompt = p]
  <2>1. OnScreen(u)
    BY <1>7 DEF PromptSticky
  <2>2. ui.prompt \in Prompts
    BY <1>1 DEF UiStates
  <2>3. s \in BOOLEAN
    BY Zenon
  <2> HIDE DEF s
  <2>4. p \in Prompts /\ p.kind = ui.prompt.kind /\ p.vm = ui.prompt.vm
    BY <2>2, <2>3 DEF Prompts
  <2> HIDE DEF p
  <2>6. Sound(u, chosen)
    BY <1>4, <2>4
  <2> HIDE DEF u
  <2> QED
    BY <2>1, <2>6, ScreenStep
<1>8. CASE CommitSetting
  <2>1. OnScreen([ui EXCEPT !.prompt = NoPrompt])
    BY <1>8 DEF CommitSetting
  <2> QED
    BY <1>3, <2>1, ScreenStep
<1>9. CASE CommitThreads
  <2> DEFINE r == [nr |-> events, vm |-> ui.prompt.vm, threads |-> ui.prompt.buffer,
                   sticky |-> ui.prompt.sticky, chosen |-> chosen]
  <2>1. /\ Key /\ ui' = [ui EXCEPT !.prompt = NoPrompt] /\ requests' = requests \cup {r}
        /\ UNCHANGED <<vm, chosen>> /\ ui.prompt.kind = "threads" /\ ui.prompt.buffer > 0
    BY <1>9 DEF CommitThreads, Spawn
  <2>2. ui.prompt.vm \in VMs /\ ui.prompt.vm = chosen /\ ui.prompt.buffer \in Nat
    BY <1>1, <2>1, Numbers DEF Sound, UiStates, Prompts, Buffers
  <2>3. r.threads = ui.prompt.buffer /\ r.vm = ui.prompt.vm /\ r.chosen = chosen
    OBVIOUS
  <2> HIDE DEF r
  <2>4. Asked(r)
    BY <2>1, <2>2, <2>3 DEF Asked
  <2>5. Calls'
    BY <2>1, <2>4 DEF Inv, Calls, Asked
  <2>6. Screen'
    BY <1>1, <1>3, <2>1, KeyFrame DEF Inv, Screen
  <2>7. History'
    BY <2>1, HistoryFrame DEF Inv
  <2> QED
    BY <2>1, <2>5, <2>6, <2>7, KeyFrame DEF Inv
<1> QED
  BY <1>5, <1>6, <1>7, <1>8, <1>9 DEF Prompting

\* handle_column_picker_key: closing the picker.
LEMMA PickStep == ASSUME Inv, PickerClose PROVE Inv'
<1> DEFINE u == [ui EXCEPT !.picker = FALSE]
<1>1. ui \in UiStates /\ Sound(ui, chosen)
  BY DEF Inv, Screen, Sound
<1>2. u \in UiStates /\ u.focused = ui.focused /\ u.prompt = ui.prompt
  BY <1>1 DEF UiStates
<1>3. OnScreen(u)
  BY DEF PickerClose
<1> HIDE DEF u
<1>4. Sound(u, chosen)
  BY <1>1, <1>2, SoundLike DEF Sound
<1> QED
  BY <1>3, <1>4, ScreenStep

\* The hotkeys that open or switch something: a focus is dropped, never moved,
\* and a prompt that is opened on a VM is on the chosen one.
LEMMA SwitchStep ==
  ASSUME Inv, Escape \/ OpenHelp \/ OpenSetting \/ OpenPicker \/ ToggleStickyMode
              \/ ToggleAggregate \/ OpenSetThreads
  PROVE  Inv'
<1>1. ui \in UiStates /\ Sound(ui, chosen) /\ roster \subseteq VMs
  BY Numbers DEF Inv, Screen, Sound, Tables
<1>2. ui.prompt.kind = "none"
  BY DEF Escape, OpenHelp, OpenSetting, OpenPicker, ToggleStickyMode, ToggleAggregate,
         OpenSetThreads, AtHotkeys
<1>3. ASSUME NEW u \in UiStates, OnScreen(u), u.focused \in {ui.focused, NoVm, Total},
             u.prompt.kind = "threads" => u.prompt.vm \in VMs /\ u.prompt.vm = chosen
      PROVE  Inv'
  <2>1. Sound(u, chosen)
    BY <1>1, <1>3, SoundLike
  <2> QED
    BY <1>3, <2>1, ScreenStep
<1>4. ASSUME NEW p \in Prompts, OnScreen([ui EXCEPT !.prompt = p]),
             p.kind = "threads" => p.vm \in VMs /\ p.vm = chosen
      PROVE  Inv'
  <2> DEFINE u == [ui EXCEPT !.prompt = p]
  <2>1. /\ u \in UiStates /\ u.focused = ui.focused /\ u.prompt = p
    BY <1>1 DEF UiStates
  <2>2. OnScreen(u)
    BY <1>4
  <2> HIDE DEF u
  <2> QED
    BY <1>3, <1>4, <2>1, <2>2
<1>5. CASE Escape
  <2>1. \/ OnScreen([ui EXCEPT !.focused = NoVm])
        \/ OnScreen([ui EXCEPT !.sticky_mode = FALSE])
    BY <1>5, Zenon DEF Escape
  <2>2. ASSUME NEW u, OnScreen(u),
               u = [ui EXCEPT !.focused = NoVm] \/ u = [ui EXCEPT !.sticky_mode = FALSE]
        PROVE  Inv'
    <3>1. /\ u \in UiStates /\ u.focused \in {ui.focused, NoVm} /\ u.prompt = ui.prompt
      BY <1>1, <2>2 DEF UiStates, Focuses
    <3>2. u.prompt.kind = "none"
      BY <1>2, <3>1
    <3> QED
      BY <1>3, <2>2, <3>1, <3>2
  <2> QED
    BY <2>1, <2>2
<1>6. CASE OpenHelp
  <2> DEFINE u == [ui EXCEPT !.show_help = TRUE]
  <2>1. /\ u \in UiStates /\ u.focused = ui.focused /\ u.prompt = ui.prompt
    BY <1>1 DEF UiStates
  <2>2. OnScreen(u)
    BY <1>6 DEF OpenHelp
  <2> HIDE DEF u
  <2>3. u.prompt.kind = "none"
    BY <1>2, <2>1
  <2> QED
    BY <1>3, <2>1, <2>2, <2>3
<1>7. CASE OpenSetting
  <2> DEFINE p == [NoPrompt EXCEPT !.kind = "setting"]
  <2>1. p \in Prompts /\ p.kind = "setting"
    BY NoPromptType DEF Prompts
  <2>2. OnScreen([ui EXCEPT !.prompt = p])
    BY <1>7 DEF OpenSetting
  <2> HIDE DEF p
  <2> QED
    BY <1>4, <2>1, <2>2
<1>8. CASE OpenPicker
  <2> DEFINE u == [ui EXCEPT !.picker = TRUE]
  <2>1. /\ u \in UiStates /\ u.focused = ui.focused /\ u.prompt = ui.prompt
    BY <1>1 DEF UiStates
  <2>2. OnScreen(u)
    BY <1>8 DEF OpenPicker
  <2> HIDE DEF u
  <2>3. u.prompt.kind = "none"
    BY <1>2, <2>1
  <2> QED
    BY <1>3, <2>1, <2>2, <2>3
<1>9. CASE ToggleStickyMode
  <2> DEFINE s == ~ui.sticky_mode
             u == [ui EXCEPT !.sticky_mode = s]
  <2>1. OnScreen(u)
    BY <1>9 DEF ToggleStickyMode
  <2>2. s \in BOOLEAN
    BY Zenon
  <2> HIDE DEF s
  <2>3. /\ u \in UiStates /\ u.focused = ui.focused /\ u.prompt = ui.prompt
    BY <1>1, <2>2 DEF UiStates
  <2> HIDE DEF u
  <2>4. u.prompt.kind = "none"
    BY <1>2, <2>3
  <2> QED
    BY <1>3, <2>1, <2>3, <2>4
<1>10. CASE ToggleAggregate
  <2> DEFINE s == ~ui.show_aggregate
             f == IF ui.show_aggregate /\ ui.focused = Total THEN NoVm ELSE ui.focused
             u == [ui EXCEPT !.show_aggregate = s, !.focused = f]
  <2>1. OnScreen(u)
    BY <1>10 DEF ToggleAggregate
  <2>2. s \in BOOLEAN
    BY Zenon
  <2>3. f \in {ui.focused, NoVm} /\ f \in Focuses
    BY <1>1 DEF UiStates, Focuses
  <2> HIDE DEF s, f
  <2>4. /\ u \in UiStates /\ u.focused = f /\ u.prompt = ui.prompt
    BY <1>1, <2>2, <2>3 DEF UiStates
  <2> HIDE DEF u
  <2>5. u.prompt.kind = "none"
    BY <1>2, <2>4
  <2> QED
    BY <1>3, <2>1, <2>3, <2>4, <2>5
<1>11. CASE OpenSetThreads
  <2> DEFINE p == [kind |-> "threads", vm |-> ui.focused, sticky |-> ui.sticky_mode,
                   buffer |-> vm[ui.focused].thread_count]
  <2>1. OnScreen([ui EXCEPT !.prompt = p]) /\ ui.focused \in roster
    BY <1>11 DEF OpenSetThreads, FocusedVm
  <2>2. ui.focused \in VMs /\ ui.focused = chosen
    BY <1>1, <2>1 DEF Sound
  <2>3. vm[ui.focused].thread_count \in Buffers
    <3>1. Chained(vm[ui.focused])
      BY <2>2 DEF Inv, History
    <3> QED
      BY <3>1, Numbers DEF Chained, VmStates, Sizes, Buffers
  <2>4. ui.sticky_mode \in BOOLEAN
    BY <1>1 DEF UiStates
  <2>5. p \in Prompts /\ p.vm = ui.focused
    BY <2>2, <2>3, <2>4 DEF Prompts
  <2> HIDE DEF p
  <2> QED
    BY <1>4, <2>1, <2>2, <2>5
<1> QED
  BY <1>5, <1>6, <1>7, <1>8, <1>9, <1>10, <1>11

\* q ends both tasks where they are.
LEMMA QuitStep == ASSUME Inv, Quit PROVE Inv'
<1>1. /\ upc' = "gone" /\ spc' = "gone"
      /\ UNCHANGED <<payload, todo, missing, omitted, roster, vm, failed, fleet, ui>>
      /\ UNCHANGED <<requests, chosen>>
  BY DEF Quit, daemon_vars, shared_vars
<1>2. Tables' /\ Worklist' /\ Streaks'
  BY <1>1, TaskFrame
<1>3. Screen'
  BY <1>1 DEF Inv, Screen, Sound
<1>4. Calls' /\ Daemon'
  BY <1>1 DEF Inv, Calls, Asked, Daemon
<1>5. History'
  BY <1>1, HistoryFrame DEF Inv
<1> QED
  BY <1>2, <1>3, <1>4, <1>5 DEF Inv

\* reset_autoscale and toggle_pause: a chain without links is a chain.
LEMMA ResetStep == ASSUME Inv, TogglePause \/ ResetAutoscale PROVE Inv'
<1>1. Key /\ UNCHANGED <<ui, requests, chosen>>
  BY DEF TogglePause, ResetAutoscale
<1>2. Screen'
  BY <1>1, KeyFrame DEF Inv, Screen, Sound
<1>3. Calls'
  BY <1>1 DEF Inv, Calls, Asked
<1>4. History'
  <2>1. CASE TogglePause
    BY <2>1, HistoryFrame DEF TogglePause, Inv
  <2>2. CASE ResetAutoscale
    <3>1. vm' = [v \in VMs |-> [vm[v] EXCEPT !.annots = <<>>]]
      BY <2>2 DEF ResetAutoscale
    <3>2. ASSUME NEW s, Chained(s), NEW t, t = [s EXCEPT !.annots = <<>>] PROVE Chained(t)
      <4>1. s \in VmStates /\ (s.last # None => s.thread_count = s.last)
        BY <3>2 DEF Chained
      <4> DEFINE e == <<>>
      <4>2. e \in Seq(Annotations) /\ Len(e) = 0
        OBVIOUS
      <4>3. t = [s EXCEPT !.annots = e]
        BY <3>2
      <4> HIDE DEF e
      <4>4. t \in VmStates /\ t.annots = e /\ (t.last # None => t.thread_count = t.last)
        BY <4>1, <4>2, <4>3 DEF VmStates
      <4>5. t.annots = <<>>
        BY <4>4 DEF e
      <4> QED
        BY <4>4, <4>5, Numbers DEF Chained
    <3>3. \A v \in VMs : Chained([vm[v] EXCEPT !.annots = <<>>])
      BY <3>2 DEF Inv, History
    <3> QED
      BY <3>1, <3>3 DEF History
  <2> QED
    BY <2>1, <2>2
<1> QED
  BY <1>1, <1>2, <1>3, <1>4, KeyFrame DEF Inv

\* move_focus: the VM that the cursor lands on is the one chosen.
LEMMA MoveStep == ASSUME Inv, NEW d \in {-1, 1}, MoveFocus(d) PROVE Inv'
<1> DEFINE f == NextFocus(d)
<1>1. /\ Key /\ ui' = [ui EXCEPT !.focused = f] /\ chosen' = f
      /\ UNCHANGED <<vm, requests>>
  BY DEF MoveFocus
<1>2. ui.prompt.kind = "none"
  BY DEF MoveFocus, AtHotkeys
<1>3. ui \in UiStates /\ Sound(ui, chosen) /\ roster \subseteq VMs
  BY Numbers DEF Inv, Screen, Sound, Tables
<1>4. f \in Focuses
  BY <1>3, NextFocusIn
<1> HIDE DEF f
<1>5. /\ ui' \in UiStates /\ ui'.focused = f /\ ui'.prompt = ui.prompt
  BY <1>1, <1>3, <1>4 DEF UiStates
<1>6. Sound(ui, chosen)'
  BY <1>1, <1>2, <1>3, <1>5 DEF Sound
<1>7. Screen'
  BY <1>1, <1>4, <1>6, KeyFrame DEF Inv, Screen
<1>8. Calls'
  BY <1>1 DEF Inv, Calls, Asked
<1>9. History'
  BY <1>1, HistoryFrame DEF Inv
<1> QED
  BY <1>1, <1>7, <1>8, <1>9, KeyFrame DEF Inv

\* nudge_thread_count asks for the focused VM, which is the one chosen.
LEMMA NudgeStep == ASSUME Inv, NEW d \in {-1, 1}, Nudge(d) PROVE Inv'
<1> DEFINE v == ui.focused
           r == [nr |-> events, vm |-> v, threads |-> vm[v].thread_count + d,
                 sticky |-> ui.sticky_mode, chosen |-> chosen]
<1>1. /\ Key /\ v \in roster /\ vm[v].thread_count + d >= 1 /\ requests' = requests \cup {r}
      /\ UNCHANGED <<ui, vm, chosen>>
  BY DEF Nudge, FocusedVm, Spawn
<1>2. v \in VMs /\ v = chosen
  BY <1>1, Numbers DEF Inv, Screen, Sound, Tables
<1>3. vm[v].thread_count \in Nat
  <2>1. Chained(vm[v])
    BY <1>2 DEF Inv, History
  <2> QED
    BY <2>1, Numbers DEF Chained, VmStates, Sizes
<1>4. r.threads = vm[v].thread_count + d /\ r.vm = v /\ r.chosen = chosen
  OBVIOUS
<1> HIDE DEF r, v
<1>5. Asked(r)
  BY <1>1, <1>2, <1>3, <1>4 DEF Asked
<1>6. Calls'
  BY <1>1, <1>5 DEF Inv, Calls, Asked
<1>7. Screen'
  BY <1>1, KeyFrame DEF Inv, Screen, Sound
<1>8. History'
  BY <1>1, HistoryFrame DEF Inv
<1> QED
  BY <1>1, <1>6, <1>7, <1>8, KeyFrame DEF Inv

\* Every hotkey keeps the invariant.
LEMMA HotkeyStep == ASSUME Inv, Hotkeys PROVE Inv'
BY SwitchStep, QuitStep, ResetStep, MoveStep, NudgeStep DEF Hotkeys

-----------------------------------------------------------------------------
(* Drawing and the world *)

\* Everything that neither samples nor reads a key.
LEMMA OutsideStep ==
  ASSUME Inv, UNCHANGED <<sampler_vars, roster, vm, failed, ui, chosen>>,
         Daemon', upc' \in {"wait", "paint", "gone"}, requests' \subseteq requests
  PROVE  Inv'
<1>1. UNCHANGED <<payload, todo, missing, omitted, spc>>
  BY DEF sampler_vars
<1>2. Tables' /\ Worklist' /\ Streaks'
  BY <1>1, TaskFrame
<1>3. Screen'
  BY DEF Inv, Screen, Sound
<1>4. Calls'
  BY DEF Inv, Calls, Asked
<1>5. History'
  BY HistoryFrame DEF Inv
<1> QED
  BY <1>2, <1>3, <1>4, <1>5 DEF Inv

\* Frames are drawn from the state and change none of it.
LEMMA DrawStep == ASSUME Inv, Draw \/ Paint PROVE Inv'
<1>1. /\ UNCHANGED <<daemon_vars, sampler_vars, shared_vars, ui, chosen, requests>>
      /\ upc' \in {"wait", "paint", "gone"}
  BY DEF Draw, Paint
<1>2. UNCHANGED <<fleet, roster, vm, failed>>
  BY <1>1 DEF daemon_vars, shared_vars
<1>3. Daemon'
  BY <1>2 DEF Inv, Daemon
<1> QED
  BY <1>1, <1>2, <1>3, OutsideStep

\* The daemon serves a call or refuses it, and its fleet changes.
LEMMA WorldStep == ASSUME Inv, World PROVE Inv'
<1>1. /\ UNCHANGED <<sampler_vars, shared_vars, ui, chosen, upc>>
      /\ requests' \subseteq requests
  BY DEF World, Answering, Serve, Refuse, FleetChanges, DaemonChanges
<1>2. UNCHANGED <<roster, vm, failed>>
  BY <1>1 DEF shared_vars
<1>3. upc' \in {"wait", "paint", "gone"}
  BY <1>1 DEF Inv, Screen
<1>4. fleet \in [VMs -> Reports]
  BY DEF Inv, Daemon
<1>5. ASSUME NEW r \in requests, Serve(r) PROVE Daemon'
  <2>1. fleet' = [fleet EXCEPT ![r.vm] = r.threads] /\ r.threads <= MaxPool
    BY <1>5 DEF Serve
  <2>2. r.threads \in Reports
    BY <2>1, Numbers DEF Inv, Calls, Asked, Sizes, Reports
  <2> QED
    BY <1>4, <2>1, <2>2 DEF Daemon
<1>6. ASSUME FleetChanges PROVE Daemon'
  <2>1. PICK v \in VMs, n \in Reports : fleet' = [fleet EXCEPT ![v] = n]
    BY <1>6 DEF FleetChanges
  <2> QED
    BY <1>4, <2>1 DEF Daemon
<1>7. ASSUME fleet' = fleet PROVE Daemon'
  BY <1>4, <1>7 DEF Daemon
<1>8. Daemon'
  <2>1. ASSUME NEW r \in requests, Refuse(r) PROVE fleet' = fleet
    BY <2>1 DEF Refuse, daemon_vars
  <2>2. ASSUME DaemonChanges PROVE fleet' = fleet
    BY <2>2 DEF DaemonChanges
  <2> QED
    BY <1>5, <1>6, <1>7, <2>1, <2>2 DEF World, Answering
<1> QED
  BY <1>1, <1>2, <1>3, <1>8, OutsideStep

-----------------------------------------------------------------------------
(* The invariant holds *)

\* The dashboard starts with an empty roster.
LEMMA InitInv == ASSUME Init PROVE Inv
<1>1. /\ fleet \in [VMs -> Reports] /\ spc = "sleep" /\ payload = Nothing /\ todo = {}
      /\ missing = [v \in VMs |-> 0] /\ roster = {} /\ vm = [v \in VMs |-> FreshVm] /\ failed = 0
      /\ upc = "wait" /\ ui = FreshUi /\ requests = {} /\ chosen = NoVm
      /\ omitted = [v \in VMs |-> MissingStreakDrop + 1]
  BY DEF Init
<1>2. Daemon /\ Calls
  BY <1>1 DEF Daemon, Calls
<1>3. Tables
  <2>1. Nothing \in [VMs -> Reports] /\ missing \in [VMs -> 0 .. MissingStreakDrop]
    BY <1>1, Numbers DEF Nothing
  <2>2. omitted \in [VMs -> 0 .. MissingStreakDrop + 1]
    BY <1>1, Numbers
  <2> QED
    BY <1>1, <2>1, <2>2, Numbers DEF Tables
<1>4. Worklist
  BY <1>1 DEF Worklist
<1>5. Streaks
  BY <1>1, Numbers DEF Streaks
<1>6. History
  BY <1>1, FreshChain DEF History
<1>7. Sound(FreshUi, NoVm)
  <2> DEFINE u == FreshUi
  <2>1. u \in UiStates
    BY NoPromptType DEF FreshUi, UiStates, Focuses
  <2>2. u.focused = NoVm /\ u.prompt.kind = "none"
    BY DEF FreshUi, NoPrompt
  <2> HIDE DEF u
  <2>3. Sound(u, NoVm)
    BY <2>1, <2>2 DEF Sound
  <2> QED
    BY <2>3 DEF u
<1>8. Screen
  BY <1>1, <1>7 DEF Screen, Focuses
<1> QED
  BY <1>2, <1>3, <1>4, <1>5, <1>6, <1>8 DEF Inv

\* Every task's every step keeps the invariant.
LEMMA NextInv == ASSUME Inv, [Next]_vars PROVE Inv'
<1>1. ASSUME UNCHANGED vars PROVE Inv'
  <2>1. UNCHANGED <<sampler_vars, daemon_vars, shared_vars, upc, ui, chosen, requests>>
    BY <1>1 DEF vars
  <2>2. UNCHANGED <<fleet, roster, vm, failed>>
    BY <2>1 DEF daemon_vars, shared_vars
  <2>3. Daemon' /\ upc' \in {"wait", "paint", "gone"} /\ requests' \subseteq requests
    BY <2>1, <2>2 DEF Inv, Daemon, Screen
  <2> QED
    BY <2>1, <2>2, <2>3, OutsideStep
<1> QED
  BY <1>1, SamplerStep, HelpStep, PromptStep, PickStep, HotkeyStep, DrawStep, WorldStep DEF Next

\* The invariant holds in every state, for any fleet, any limits and any keys.
THEOREM Invariance == Spec => []Inv
<1>1. Init => Inv
  BY InitInv
<1>2. Inv /\ [Next]_vars => Inv'
  BY NextInv
<1> QED
  BY <1>1, <1>2, PTL DEF Spec

\* Between two samples the roster is the selected VMs of the last
\* MISSING_STREAK_DROP + 1 answered snapshots.
THEOREM RosterKeptRecent == Spec => []RosterIsRecent
<1>1. ASSUME Inv PROVE RosterIsRecent
  <2> SUFFICES ASSUME spc = "sleep"
               PROVE  roster = {v \in Selected : omitted[v] <= MissingStreakDrop}
    BY DEF RosterIsRecent
  <2>1. /\ roster \subseteq Selected /\ Selected \subseteq VMs /\ MissingStreakDrop \in Nat
        /\ missing \in [VMs -> 0 .. MissingStreakDrop]
        /\ \A v \in Selected :
             omitted[v] = IF v \in roster THEN missing[v] ELSE MissingStreakDrop + 1
    BY <1>1, Numbers DEF Inv, Tables, Streaks
  <2>2. \A v \in Selected : v \in roster <=> omitted[v] <= MissingStreakDrop
    BY <2>1
  <2> QED
    BY <2>1, <2>2
<1> QED
  BY <1>1, Invariance, PTL

\* The transitions on a VM's line are a chain up to the size it is shown with,
\* those from and to the size 0 of a VM not refreshed yet included, however long
\* the dashboard runs and whatever MAX_HISTORY is.
THEOREM HistoryChains == Spec => []TransitionsChain
<1>1. ASSUME Inv PROVE TransitionsChain
  <2> SUFFICES ASSUME NEW v \in VMs, NEW a, a = vm[v].annots
               PROVE  /\ \A i \in DOMAIN a : i < Len(a) => a[i].new_n = a[i + 1].old_n
                      /\ a # <<>> => a[Len(a)].new_n = vm[v].thread_count
                      /\ \A i \in DOMAIN a : a[i].old_n # a[i].new_n
    BY DEF TransitionsChain
  <2>1. Chained(vm[v])
    BY <1>1 DEF Inv, History
  <2>2. a \in Seq(Annotations) /\ DOMAIN a = 1 .. Len(a)
    BY <2>1 DEF Chained, VmStates
  <2> QED
    BY <2>1, <2>2 DEF Chained
<1> QED
  BY <1>1, Invariance, PTL

\* A request is for the VM the operator last navigated to, whatever the sampler
\* did to the roster before the key or behind the prompt.
THEOREM RequestsKeepTheirTarget == Spec => []NeverRetargets
<1>1. Inv => NeverRetargets
  BY DEF Inv, Calls, Asked, NeverRetargets
<1> QED
  BY <1>1, Invariance, PTL

\* The flags stay flags.
LEMMA FlagsStep == ASSUME Flags, [Next]_vars PROVE Flags'
<1>1. CASE UNCHANGED vars
  BY <1>1, Zenon DEF Flags, vars, daemon_vars, shared_vars
<1>2. CASE Sampler
  BY <1>2, Zenon DEF Flags, Sampler, Wake, Answered, ClearError, Unanswered, NoteError, Append_,
     Drop, Update, Sampling, daemon_vars, shared_vars
<1>3. CASE DismissHelp \/ Prompting \/ PickerClose
  BY <1>3, Zenon DEF Flags, DismissHelp, Prompting, PromptCancel, PromptType, PromptSticky,
     CommitSetting, CommitThreads, PickerClose, OnScreen, Key, daemon_vars
<1>4. CASE Hotkeys
  BY <1>4, Zenon DEF Flags, Hotkeys, Quit, Escape, OpenHelp, OpenSetting, OpenPicker,
     ToggleStickyMode, ToggleAggregate, TogglePause, ResetAutoscale, OpenSetThreads,
     MoveFocus, Nudge, OnScreen, Key, daemon_vars, shared_vars
<1>5. CASE Draw \/ Paint
  BY <1>5, Zenon DEF Flags, Draw, Paint, daemon_vars, shared_vars
<1>6. CASE World
  BY <1>6, Zenon DEF Flags, World, Answering, Serve, Refuse, FleetChanges, DaemonChanges,
     daemon_vars, shared_vars
<1> QED
  BY <1>1, <1>2, <1>3, <1>4, <1>5, <1>6 DEF Next

\* Both tasks keep the types of what they share, the ring's bound included.
THEOREM TypeCorrect == Spec => []TypeOK
<1>1. Spec => []Flags
  <2>1. Init => Flags
    BY Zenon DEF Init, Flags
  <2>2. Flags /\ [Next]_vars => Flags'
    BY FlagsStep
  <2> QED
    BY <2>1, <2>2, PTL DEF Spec
<1>2. ASSUME Inv, Flags PROVE TypeOK
  <2>1. \A v \in VMs : /\ vm[v].thread_count \in Sizes
                       /\ vm[v].last \in Reports
                       /\ \A i \in DOMAIN vm[v].annots : vm[v].annots[i] \in Annotations
                       /\ Len(vm[v].annots) <= MaxHistory
    <3> SUFFICES ASSUME NEW v \in VMs, NEW s, s = vm[v]
                 PROVE  /\ s.thread_count \in Sizes /\ s.last \in Reports
                        /\ \A i \in DOMAIN s.annots : s.annots[i] \in Annotations
                        /\ Len(s.annots) <= MaxHistory
      OBVIOUS
    <3>1. Chained(s)
      BY <1>2 DEF Inv, History
    <3>2. s.annots \in Seq(Annotations)
      BY <3>1 DEF Chained, VmStates
    <3> QED
      BY <3>1, <3>2 DEF Chained, VmStates
  <2>2. ui.focused \in Focuses /\ chosen \in Focuses /\ upc \in {"wait", "paint", "gone"}
    BY <1>2 DEF Inv, Screen, Sound, UiStates
  <2>3. \A r \in requests : r.threads >= 1 /\ r.vm \in VMs
    BY <1>2 DEF Inv, Calls, Asked
  <2>4. /\ fleet \in [VMs -> Reports] /\ payload \in [VMs -> Reports]
        /\ spc \in {"sleep", "asked", "clear", "note", "append", "drop", "update", "gone"}
        /\ todo \subseteq roster /\ roster \subseteq Selected
        /\ missing \in [VMs -> 0 .. MissingStreakDrop]
        /\ failed \in 0 .. DaemonLostStreak
    BY <1>2 DEF Inv, Daemon, Tables, Worklist
  <2>5. up \in BOOLEAN /\ paused \in BOOLEAN /\ error \in BOOLEAN
    BY <1>2 DEF Flags
  <2> QED
    BY <2>1, <2>2, <2>3, <2>4, <2>5 DEF TypeOK
<1> QED
  BY <1>1, <1>2, Invariance, PTL
=============================================================================
