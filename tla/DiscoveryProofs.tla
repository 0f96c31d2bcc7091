--------------------------- MODULE DiscoveryProofs --------------------------
(***************************************************************************)
(* Proofs about discovery: it reports for a control socket only a process  *)
(* that served the socket during the pass, although sockets and processes  *)
(* change between any two system calls.                                    *)
(*                                                                         *)
(* The property follows what was found; the invariant follows what the     *)
(* walk is about to trust.  A cached peer with the socket's inode is the   *)
(* process that bound it (Peers), so when the identity is read its server  *)
(* is on record (Vouched).  A peer that was connected to is on record, and *)
(* if the file is still the same it is remembered under its own start time *)
(* (Dialled).  Both rest on numbers that are not given out twice: what the *)
(* daemon remembers is not newer than the clock, and the world hands out   *)
(* newer ones (Drift).                                                     *)
(***************************************************************************)
EXTENDS Discovery, TLAPS

-----------------------------------------------------------------------------
(* The invariant *)

\* The last inode number or start time given out
Clock == NumSockets + events

Files == [ino : Nat, pid : Nat, start : Nat]
Walks == [phase : {"idle", "next", "check", "dial", "stamp", "done"}, todo : SUBSET Sockets,
          at : Nat, ino : Nat, pid : Nat, found : [Ids -> Pids \cup {Absent}]]
Libs == [phase : {"idle", "open", "list", "probe", "done"}, todo : SUBSET Domains,
         found : SUBSET Domains]

\* The world: what it numbers is not newer than the clock (which no process needs
\* to be where there is no socket to serve)
Outer ==
  /\ proc \in [Pids -> Nat]
  /\ sock \in [Sockets -> Files]
  /\ busy \subseteq Sockets /\ active \subseteq Domains
  /\ events \in Nat
  /\ \A v \in Sockets, p \in Pids : proc[p] <= Clock
  /\ \A v \in Sockets : sock[v] # NoFile => sock[v].pid \in Pids /\ sock[v].ino <= Clock

\* The daemon, which remembers only what it has seen
Inner ==
  /\ cache \in [Sockets -> Files]
  /\ \A v \in Sockets : cache[v] # NoFile =>
       cache[v].pid \in Pids /\ cache[v].ino <= Clock /\ cache[v].start \in 1 .. Clock
  /\ walk \in Walks
  /\ walk.phase \in {"check", "dial", "stamp"} => walk.at \in walk.todo /\ walk.ino <= Clock
  /\ walk.phase = "stamp" => walk.pid \in Pids
  /\ walk.phase = "idle" => walk.found = NoneFound
  /\ behind \in [Sockets -> SUBSET Pids]

Rest ==
  /\ conn \in {"none", "live", "dead"}
  /\ lib \in Libs
  /\ tracked \in [Ids -> Pids \cup {Absent, HostPid}]

\* A cached peer whose inode is the socket's is the process that bound it
Peers ==
  \A v \in Sockets : cache[v] # NoFile /\ sock[v] # NoFile /\ cache[v].ino = sock[v].ino =>
                       cache[v] = sock[v]

\* The servers of a pass are on record
Noted == walk.phase # "idle" => \A v \in Sockets : Server(v) \subseteq behind[v]

\* A peer that Check would take from the cache served the socket when its
\* identity was read, and lives on since
Vouched ==
  walk.phase = "check" /\ StillThere(cache[walk.at], walk.ino) =>
    cache[walk.at].pid \in behind[walk.at]

\* Between Dial and Stamp, the peer served the socket; if the file is still the
\* one whose identity was read, it is the one that bound it
Dialled ==
  walk.phase = "stamp" =>
    /\ walk.pid \in behind[walk.at]
    /\ sock[walk.at] # NoFile /\ sock[walk.at].ino = walk.ino =>
         walk.pid = sock[walk.at].pid /\ proc[walk.pid] \in {0, sock[walk.at].start}

Inv == Outer /\ Inner /\ Rest /\ Peers /\ Noted /\ Vouched /\ Dialled /\ ReportsServers

-----------------------------------------------------------------------------
(* The walk's bookkeeping *)

\* A socket that does not exist is a file record like any other.
LEMMA NoFileType == NoFile \in Files
BY DEF NoFile, Files

\* A pass that identified nothing.
LEMMA NoneFoundType == NoneFound \in [Ids -> Pids \cup {Absent}]
BY DEF NoneFound

\* Moving on to the next entry leaves what was found alone.
LEMMA PassedWalk ==
  ASSUME NEW w \in Walks
  PROVE  Passed(w) \in Walks /\ Passed(w).phase = "next" /\ Passed(w).found = w.found
<1> DEFINE t == w.todo \ {w.at}
           u == Passed(w)
<1>1. t \in SUBSET Sockets
  BY DEF Walks
<1>2. u = [w EXCEPT !.phase = "next", !.todo = t, !.at = 0, !.ino = 0, !.pid = 0]
  BY DEF Passed
<1> HIDE DEF t, u
<1>3. u \in Walks /\ u.phase = "next" /\ u.found = w.found
  BY <1>1, <1>2 DEF Walks
<1> QED
  BY <1>3 DEF u

\* An identified socket is found with the PID, the others as before.
LEMMA IdentifiedWalk ==
  ASSUME NEW w \in Walks, w.at \in Sockets, NEW p \in Pids
  PROVE  /\ Identified(w, p) \in Walks /\ Identified(w, p).phase = "next"
         /\ Identified(w, p).found = [w.found EXCEPT ![w.at] = p]
<1> DEFINE u == Passed(w)
           f == [w.found EXCEPT ![w.at] = p]
           x == Identified(w, p)
<1>1. u \in Walks /\ u.phase = "next" /\ u.found = w.found
  BY PassedWalk
<1>2. f \in [Ids -> Pids \cup {Absent}]
  BY DEF Walks, Ids
<1>3. x = [u EXCEPT !.found = f]
  BY <1>1, Zenon DEF Identified
<1> HIDE DEF u, f, x
<1>4. x \in Walks /\ x.phase = "next" /\ x.found = f
  BY <1>1, <1>2, <1>3 DEF Walks
<1> QED
  BY <1>4 DEF f, x

\* The clock does not go back.
LEMMA ClockType == ASSUME Outer PROVE Clock \in Nat /\ \A v \in Sockets : v <= Clock /\ v > 0
BY DiscoveryAssumption DEF Outer, Clock, Sockets

-----------------------------------------------------------------------------
(* The steps of a walk *)

\* What a step of the walk leaves alone.
LEMMA WalkFrame ==
  ASSUME Inv, UNCHANGED <<world_vars, conn, lib, tracked>>
  PROVE  /\ Outer' /\ Rest' /\ Clock' = Clock
         /\ UNCHANGED <<proc, sock, busy, active, events>>
         /\ \A v \in Sockets : Server(v)' = Server(v)
<1>1. UNCHANGED <<proc, sock, busy, active, events, conn, lib, tracked>>
  BY DEF world_vars
<1>2. Clock' = Clock
  BY <1>1 DEF Clock
<1>3. Outer'
  BY <1>1, <1>2 DEF Inv, Outer
<1>4. Rest'
  BY <1>1 DEF Inv, Rest
<1>5. \A v \in Sockets : Server(v)' = Server(v)
  BY <1>1 DEF Server, Listening
<1> QED
  BY <1>1, <1>2, <1>3, <1>4, <1>5

\* Reading a file's identity: the socket's cached peer, if it is to be trusted,
\* serves it at this moment.
LEMMA StatStep == ASSUME Inv, Stat PROVE Inv'
<1>1. PICK v \in walk.todo :
        LET w == [walk EXCEPT !.at = v]
        IN  walk' = IF sock[v] = NoFile THEN Skipped(w)
                    ELSE [w EXCEPT !.phase = "check", !.ino = sock[v].ino]
  BY DEF Stat
<1>2. walk.phase = "next" /\ UNCHANGED <<world_vars, conn, lib, tracked, cache, behind>>
  BY DEF Stat, Walking
<1>3. /\ Outer' /\ Rest' /\ Clock' = Clock /\ UNCHANGED <<proc, sock>>
      /\ \A x \in Sockets : Server(x)' = Server(x)
  BY <1>2, WalkFrame
<1>4. /\ walk \in Walks /\ walk.todo \subseteq Sockets /\ v \in Sockets /\ v \in Nat
      /\ sock[v] \in Files
  BY DiscoveryAssumption DEF Inv, Outer, Inner, Walks, Sockets
<1> DEFINE w == [walk EXCEPT !.at = v]
<1>5. w \in Walks /\ w.found = walk.found /\ w.at = v /\ w.todo = walk.todo
  BY <1>4 DEF Walks
<1> HIDE DEF w
<1>6. CASE sock[v] = NoFile
  <2>1. walk' \in Walks /\ walk'.phase = "next" /\ walk'.found = walk.found
    BY <1>1, <1>5, <1>6, PassedWalk DEF w, Skipped
  <2>2. Inner'
    BY <1>2, <1>3, <2>1 DEF Inv, Inner
  <2>3. Peers' /\ Noted' /\ ReportsServers'
    BY <1>2, <1>3, <2>1 DEF Inv, Peers, Noted, ReportsServers
  <2>4. Vouched' /\ Dialled'
    BY <2>1 DEF Vouched, Dialled
  <2> QED
    BY <1>3, <2>2, <2>3, <2>4 DEF Inv
<1>7. CASE sock[v] # NoFile
  <2>1. walk' = [w EXCEPT !.phase = "check", !.ino = sock[v].ino]
    BY <1>1, <1>7 DEF w
  <2>2. sock[v].ino \in Nat /\ sock[v].ino <= Clock
    BY <1>4, <1>7 DEF Files, Inv, Outer
  <2>3. /\ walk' \in Walks /\ walk'.phase = "check" /\ walk'.found = walk.found
        /\ walk'.at = v /\ walk'.todo = walk.todo /\ walk'.ino = sock[v].ino
    BY <1>5, <2>1, <2>2 DEF Walks
  <2>4. Inner'
    BY <1>2, <1>3, <2>2, <2>3 DEF Inv, Inner
  <2>5. Peers' /\ Noted' /\ ReportsServers'
    BY <1>2, <1>3, <2>3 DEF Inv, Peers, Noted, ReportsServers
  <2>6. Dialled'
    BY <2>3 DEF Dialled
  <2>7. Vouched'
    <3> SUFFICES ASSUME StillThere(cache[walk.at], walk.ino)'
                 PROVE  (cache[walk.at].pid \in behind[walk.at])'
      BY DEF Vouched
    <3>1. cache[v] # NoFile /\ cache[v].ino = sock[v].ino /\ proc[cache[v].pid] = cache[v].start
      BY <1>2, <1>3, <2>3 DEF StillThere
    <3>2. cache[v] = sock[v]
      BY <1>4, <1>7, <3>1 DEF Inv, Peers
    <3>3. cache[v].pid \in Server(v)
      BY <1>7, <3>1, <3>2 DEF Server, Listening
    <3>4. cache[v].pid \in behind[v]
      BY <1>2, <1>4, <3>3 DEF Inv, Noted
    <3> QED
      BY <1>2, <2>3, <3>4
  <2> QED
    BY <1>3, <2>4, <2>5, <2>6, <2>7 DEF Inv
<1> QED
  BY <1>6, <1>7

\* What is found grows by a PID that is on record.
LEMMA FoundOne ==
  ASSUME ReportsServers, walk \in Walks, NEW v \in Sockets, NEW p \in behind[v],
         walk'.found = [walk.found EXCEPT ![v] = p], behind' = behind
  PROVE  ReportsServers'
<1>1. \A x \in Sockets : walk'.found[x] = IF x = v THEN p ELSE walk.found[x]
  BY DEF Walks, Ids
<1> QED
  BY <1>1 DEF ReportsServers

\* A peer taken from the cache served the socket during this pass.
LEMMA CheckStep == ASSUME Inv, Check PROVE Inv'
<1>1. walk.phase = "check" /\ UNCHANGED <<world_vars, conn, lib, tracked, cache, behind>>
  BY DEF Check, Walking
<1>2. /\ Outer' /\ Rest' /\ Clock' = Clock /\ UNCHANGED <<proc, sock>>
      /\ \A x \in Sockets : Server(x)' = Server(x)
  BY <1>1, WalkFrame
<1>3. /\ walk \in Walks /\ walk.todo \subseteq Sockets /\ walk.at \in walk.todo
      /\ walk.at \in Sockets /\ walk.ino <= Clock
  BY <1>1 DEF Inv, Inner, Walks
<1>4. CASE StillThere(cache[walk.at], walk.ino)
  <2>1. cache[walk.at].pid \in Pids /\ cache[walk.at].pid \in behind[walk.at]
    BY <1>1, <1>3, <1>4 DEF Inv, Inner, Vouched, StillThere
  <2>2. /\ walk' \in Walks /\ walk'.phase = "next"
        /\ walk'.found = [walk.found EXCEPT ![walk.at] = cache[walk.at].pid]
    BY <1>3, <1>4, <2>1, IdentifiedWalk DEF Check
  <2>3. Inner'
    BY <1>1, <1>2, <2>2 DEF Inv, Inner
  <2>4. Peers' /\ Noted'
    BY <1>1, <1>2, <2>2 DEF Inv, Peers, Noted
  <2>5. ReportsServers'
    BY <1>1, <1>3, <2>1, <2>2, FoundOne DEF Inv
  <2>6. Vouched' /\ Dialled'
    BY <2>2 DEF Vouched, Dialled
  <2> QED
    BY <1>2, <2>3, <2>4, <2>5, <2>6 DEF Inv
<1>5. CASE ~StillThere(cache[walk.at], walk.ino)
  <2>1. walk' = [walk EXCEPT !.phase = "dial"]
    BY <1>5 DEF Check
  <2>2. /\ walk' \in Walks /\ walk'.phase = "dial" /\ walk'.found = walk.found
        /\ walk'.at = walk.at /\ walk'.todo = walk.todo /\ walk'.ino = walk.ino
    BY <1>3, <2>1 DEF Walks
  <2>3. Inner'
    BY <1>1, <1>2, <1>3, <2>2 DEF Inv, Inner
  <2>4. Peers' /\ Noted' /\ ReportsServers'
    BY <1>1, <1>2, <2>2 DEF Inv, Peers, Noted, ReportsServers
  <2>5. Vouched' /\ Dialled'
    BY <2>2 DEF Vouched, Dialled
  <2> QED
    BY <1>2, <2>3, <2>4, <2>5 DEF Inv
<1> QED
  BY <1>4, <1>5

\* An entry that is skipped adds nothing to what was found.
LEMMA SkipStep ==
  ASSUME Inv, walk' = Skipped(walk), walk.phase # "idle",
         Outer', Rest', Clock <= Clock', UNCHANGED <<proc, sock, cache, behind>>
  PROVE  Inv'
<1>1. walk' \in Walks /\ walk'.phase = "next" /\ walk'.found = walk.found
  BY PassedWalk DEF Inv, Inner, Skipped
<1>2. \A x \in Sockets : Server(x)' = Server(x)
  BY DEF Server, Listening
<1>3. Clock \in Int /\ Clock' \in Int
  BY DiscoveryAssumption DEF Inv, Outer, Clock
<1>4. Inner'
  BY <1>1, <1>3 DEF Inv, Inner, Files
<1>5. Peers' /\ Noted' /\ ReportsServers'
  BY <1>1, <1>2 DEF Inv, Peers, Noted, ReportsServers
<1>6. Vouched' /\ Dialled'
  BY <1>1 DEF Vouched, Dialled
<1> QED
  BY <1>4, <1>5, <1>6 DEF Inv

\* The peer of a connection serves the socket at this moment.
LEMMA DialStep == ASSUME Inv, Dial PROVE Inv'
<1>1. walk.phase = "dial" /\ UNCHANGED <<world_vars, conn, lib, tracked, cache, behind>>
  BY DEF Dial, Walking
<1>2. /\ Outer' /\ Rest' /\ Clock' = Clock /\ UNCHANGED <<proc, sock>>
      /\ \A x \in Sockets : Server(x)' = Server(x)
  BY <1>1, WalkFrame
<1>3. /\ walk \in Walks /\ walk.todo \subseteq Sockets /\ walk.at \in walk.todo
      /\ walk.at \in Sockets /\ walk.ino <= Clock
  BY <1>1 DEF Inv, Inner, Walks
<1>4. CASE Listening(walk.at) /\ walk.at \notin busy
  <2>1. walk' = [walk EXCEPT !.phase = "stamp", !.pid = sock[walk.at].pid]
    BY <1>4 DEF Dial
  <2>2. /\ sock[walk.at].pid \in Pids /\ sock[walk.at].pid \in Nat
        /\ sock[walk.at].pid \in Server(walk.at)
        /\ proc[sock[walk.at].pid] = sock[walk.at].start
    BY <1>3, <1>4, DiscoveryAssumption DEF Inv, Outer, Listening, Server
  <2>3. sock[walk.at].pid \in behind[walk.at]
    BY <1>1, <1>3, <2>2 DEF Inv, Noted
  <2>4. /\ walk' \in Walks /\ walk'.phase = "stamp" /\ walk'.found = walk.found
        /\ walk'.at = walk.at /\ walk'.todo = walk.todo /\ walk'.ino = walk.ino
        /\ walk'.pid = sock[walk.at].pid
    BY <1>3, <2>1, <2>2 DEF Walks
  <2>5. Inner'
    BY <1>1, <1>2, <1>3, <2>2, <2>4 DEF Inv, Inner
  <2>6. Peers' /\ Noted' /\ ReportsServers'
    BY <1>1, <1>2, <2>4 DEF Inv, Peers, Noted, ReportsServers
  <2>7. Dialled'
    BY <1>1, <1>2, <2>2, <2>3, <2>4 DEF Dialled
  <2>8. Vouched'
    BY <2>4 DEF Vouched
  <2> QED
    BY <1>2, <2>5, <2>6, <2>7, <2>8 DEF Inv
<1>5. CASE ~(Listening(walk.at) /\ walk.at \notin busy)
  <2>1. walk' = Skipped(walk)
    BY <1>5 DEF Dial
  <2>2. Clock <= Clock'
    BY <1>2, ClockType DEF Inv
  <2> QED
    BY <1>1, <1>2, <2>1, <2>2, SkipStep
<1> QED
  BY <1>4, <1>5

\* A peer is remembered under the identity it has: no process took its PID
\* between the two system calls.
LEMMA StampStep == ASSUME Inv, Stamp PROVE Inv'
<1>1. walk.phase = "stamp" /\ UNCHANGED <<world_vars, conn, lib, tracked, behind>>
  BY DEF Stamp, Walking
<1>2. /\ Outer' /\ Rest' /\ Clock' = Clock /\ UNCHANGED <<proc, sock>>
      /\ \A x \in Sockets : Server(x)' = Server(x)
  BY <1>1, WalkFrame
<1>3. /\ walk \in Walks /\ walk.at \in Sockets /\ walk.ino <= Clock /\ walk.pid \in Pids
      /\ walk.ino \in Nat /\ walk.pid \in Nat /\ walk.pid \in behind[walk.at]
  BY <1>1 DEF Inv, Inner, Walks, Dialled
<1>4. /\ walk' \in Walks /\ walk'.phase = "next"
      /\ walk'.found = [walk.found EXCEPT ![walk.at] = walk.pid]
  BY <1>3, IdentifiedWalk DEF Stamp
<1> DEFINE start == proc[walk.pid]
           peer == [ino |-> walk.ino, pid |-> walk.pid, start |-> start]
<1>5. start \in Nat /\ start <= Clock
  BY <1>3 DEF Inv, Outer
<1>6. cache' = IF start = 0 THEN cache ELSE [cache EXCEPT ![walk.at] = peer]
  BY DEF Stamp
<1>7. peer \in Files /\ peer.ino = walk.ino /\ peer.pid = walk.pid /\ peer.start = start
  BY <1>3, <1>5 DEF Files
<1>8. start # 0 /\ sock[walk.at] # NoFile /\ sock[walk.at].ino = walk.ino => peer = sock[walk.at]
  <2> SUFFICES ASSUME start # 0, sock[walk.at] # NoFile, sock[walk.at].ino = walk.ino
               PROVE  peer = sock[walk.at]
    OBVIOUS
  <2>1. walk.pid = sock[walk.at].pid /\ start = sock[walk.at].start
    BY <1>1 DEF Inv, Dialled
  <2>2. sock[walk.at] \in Files
    BY <1>3 DEF Inv, Outer
  <2> QED
    BY <2>1, <2>2 DEF Files
<1> HIDE DEF start, peer
<1>9. \A v \in Sockets : cache'[v] = cache[v] \/ (v = walk.at /\ cache'[v] = peer /\ start # 0)
  BY <1>6 DEF Inv, Inner
<1>10. cache' \in [Sockets -> Files]
  BY <1>6, <1>7 DEF Inv, Inner
<1>11. Inner'
  <2>1. \A v \in Sockets : cache'[v] # NoFile =>
          cache'[v].pid \in Pids /\ cache'[v].ino <= Clock /\ cache'[v].start \in 1 .. Clock
    BY <1>3, <1>5, <1>7, <1>9 DEF Inv, Inner
  <2> QED
    BY <1>1, <1>2, <1>4, <1>10, <2>1 DEF Inv, Inner
<1>12. Peers'
  BY <1>2, <1>7, <1>8, <1>9 DEF Inv, Peers
<1>13. Noted'
  BY <1>1, <1>2, <1>4 DEF Inv, Noted
<1>14. ReportsServers'
  BY <1>1, <1>3, <1>4, FoundOne DEF Inv
<1>15. Vouched' /\ Dialled'
  BY <1>4 DEF Vouched, Dialled
<1> QED
  BY <1>2, <1>11, <1>12, <1>13, <1>14, <1>15 DEF Inv

\* Pruning only forgets.
LEMMA EndWalkStep == ASSUME Inv, EndWalk PROVE Inv'
<1>1. /\ walk.phase = "next" /\ UNCHANGED <<world_vars, conn, lib, tracked, behind>>
      /\ walk' = [walk EXCEPT !.phase = "done"] /\ cache' = Retained(walk.found)
  BY DEF EndWalk, Walking
<1>2. /\ Outer' /\ Rest' /\ Clock' = Clock /\ UNCHANGED <<proc, sock>>
      /\ \A x \in Sockets : Server(x)' = Server(x)
  BY <1>1, WalkFrame
<1>3. walk' \in Walks /\ walk'.phase = "done" /\ walk'.found = walk.found
  BY <1>1 DEF Inv, Inner, Walks
<1>4. \A v \in Sockets : cache'[v] = cache[v] \/ cache'[v] = NoFile
  BY <1>1 DEF Retained
<1>5. cache' \in [Sockets -> Files]
  <2>1. \A v \in Sockets : cache[v] \in Files
    BY DEF Inv, Inner
  <2> QED
    BY <1>1, <2>1, NoFileType DEF Retained
<1>6. Inner'
  BY <1>1, <1>2, <1>3, <1>4, <1>5 DEF Inv, Inner
<1>7. Peers'
  BY <1>2, <1>4 DEF Inv, Peers
<1>8. Noted' /\ ReportsServers'
  BY <1>1, <1>2, <1>3 DEF Inv, Noted, ReportsServers
<1>9. Vouched' /\ Dialled'
  BY <1>3 DEF Vouched, Dialled
<1> QED
  BY <1>2, <1>6, <1>7, <1>8, <1>9 DEF Inv

\* A pass begins with those on record that serve now.
LEMMA BeginStep == ASSUME Inv, BeginPass PROVE Inv'
<1>1. /\ walk.phase = "idle" /\ UNCHANGED <<world_vars, cache, conn, tracked>>
      /\ \/ walk' = [walk EXCEPT !.phase = "next", !.todo = Sockets]
         \/ walk' = [walk EXCEPT !.phase = "done"]
      /\ lib' = [lib EXCEPT !.phase = "open"]
      /\ behind' = [v \in Sockets |-> Server(v)]
  BY DEF BeginPass
<1>2. UNCHANGED <<proc, sock, busy, active, events>> /\ Clock' = Clock
  BY <1>1 DEF world_vars, Clock
<1>3. Outer'
  BY <1>2 DEF Inv, Outer
<1>4. lib' \in Libs
  BY <1>1 DEF Inv, Rest, Libs
<1>5. Rest'
  BY <1>1, <1>4 DEF Inv, Rest
<1>6. walk' \in Walks /\ walk'.phase \in {"next", "done"} /\ walk'.found = NoneFound
  BY <1>1 DEF Inv, Inner, Walks
<1>7. \A v \in Sockets : Server(v) \subseteq Pids /\ Server(v)' = Server(v)
  BY <1>2 DEF Inv, Outer, Server, Listening
<1>8. behind' \in [Sockets -> SUBSET Pids]
  BY <1>1, <1>7
<1>9. Inner'
  BY <1>1, <1>2, <1>6, <1>8 DEF Inv, Inner
<1>10. Peers' /\ Noted'
  BY <1>1, <1>2, <1>7 DEF Inv, Peers, Noted
<1>11. ReportsServers'
  BY <1>6 DEF ReportsServers, NoneFound, Ids
<1>12. Vouched' /\ Dialled'
  BY <1>6 DEF Vouched, Dialled
<1> QED
  BY <1>3, <1>5, <1>9, <1>10, <1>11, <1>12 DEF Inv

-----------------------------------------------------------------------------
(* The pass over libvirt, and the controller *)

\* Everything about the sockets but the clock stays as it is.
LEMMA SocketFrame ==
  ASSUME Inv, Outer', Clock <= Clock', Rest', UNCHANGED <<proc, sock, cache, walk, behind>>
  PROVE  Inv'
<1>1. Clock \in Int /\ Clock' \in Int
  BY DiscoveryAssumption DEF Inv, Outer, Clock
<1>2. Inner'
  BY <1>1 DEF Inv, Inner, Files, Walks
<1>3. Peers'
  BY DEF Inv, Peers
<1>4. Noted'
  BY DEF Inv, Noted, Server, Listening
<1>5. Vouched'
  BY DEF Inv, Vouched, StillThere
<1>6. Dialled'
  BY DEF Inv, Dialled
<1>7. ReportsServers'
  BY DEF Inv, ReportsServers
<1> QED
  BY <1>2, <1>3, <1>4, <1>5, <1>6, <1>7 DEF Inv

\* The pass over libvirt finds domains only.
LEMMA QueryStep == ASSUME Inv, Query PROVE Inv'
<1>1. UNCHANGED <<world_vars, cache, walk, tracked, behind>>
  BY DEF Query, OpenConn, ListDomains, Probe, EndQuery, Querying
<1>2. UNCHANGED <<proc, sock, busy, active, events>> /\ Clock' = Clock
  BY <1>1 DEF world_vars, Clock
<1>3. Outer'
  BY <1>2 DEF Inv, Outer
<1>4. lib \in Libs /\ active \subseteq Domains /\ conn \in {"none", "live", "dead"}
  BY DEF Inv, Outer, Rest
<1>5. conn' \in {"none", "live", "dead"} /\ lib' \in Libs
  <2>1. CASE OpenConn
    <3>1. /\ conn' \in {conn, "live"}
          /\ lib' = [lib EXCEPT !.phase = "done"] \/ lib' = [lib EXCEPT !.phase = "list"]
      BY <2>1 DEF OpenConn
    <3> QED
      BY <1>4, <3>1 DEF Libs
  <2>2. CASE ListDomains
    <3>1. /\ conn' = conn
          /\ \/ lib' = [lib EXCEPT !.phase = "probe", !.todo = active]
             \/ lib' = [lib EXCEPT !.phase = "done"]
      BY <2>2 DEF ListDomains
    <3> QED
      BY <1>4, <3>1 DEF Libs
  <2>3. CASE Probe
    <3>1. PICK d \in lib.todo :
            lib' = [lib EXCEPT !.todo = lib.todo \ {d},
                               !.found = IF conn = "live" /\ d \in active THEN lib.found \cup {d}
                                         ELSE lib.found]
      BY <2>3 DEF Probe
    <3> DEFINE t == lib.todo \ {d}
               f == IF conn = "live" /\ d \in active THEN lib.found \cup {d} ELSE lib.found
    <3>2. t \in SUBSET Domains /\ f \in SUBSET Domains
      BY <1>4 DEF Libs
    <3>3. lib' = [lib EXCEPT !.todo = t, !.found = f]
      BY <3>1
    <3> HIDE DEF t, f
    <3>4. lib' \in Libs
      BY <1>4, <3>2, <3>3 DEF Libs
    <3> QED
      BY <1>4, <2>3, <3>4 DEF Probe
  <2>4. CASE EndQuery
    BY <1>4, <2>4 DEF EndQuery, Libs
  <2> QED
    BY <2>1, <2>2, <2>3, <2>4 DEF Query
<1>6. Rest'
  BY <1>1, <1>5 DEF Inv, Rest
<1>7. Clock <= Clock'
  BY <1>2, ClockType DEF Inv
<1> QED
  BY <1>1, <1>2, <1>3, <1>6, <1>7, SocketFrame

\* sync_instances closes the pass.
LEMMA SyncStep == ASSUME Inv, Sync PROVE Inv'
<1>1. /\ UNCHANGED <<world_vars, cache, conn>> /\ walk' = IdleWalk /\ lib' = IdleLib
      /\ behind' = [v \in Sockets |-> {}]
      /\ tracked' = [x \in Ids |-> IF Discovered(x) # Absent /\ tracked[x] # Absent
                                     THEN tracked[x] ELSE Discovered(x)]
  BY DEF Sync
<1>2. UNCHANGED <<proc, sock, busy, active, events>> /\ Clock' = Clock
  BY <1>1 DEF world_vars, Clock
<1>3. Outer'
  BY <1>2 DEF Inv, Outer
<1>4. \A x \in Ids : /\ tracked[x] \in Pids \cup {Absent, HostPid}
                     /\ walk.found[x] \in Pids \cup {Absent}
  BY DEF Inv, Rest, Inner, Walks
<1>5. \A x \in Ids : Discovered(x) \in Pids \cup {Absent, HostPid}
  BY <1>4 DEF Discovered
<1>6. tracked' \in [Ids -> Pids \cup {Absent, HostPid}]
  BY <1>1, <1>4, <1>5
<1>7. lib' \in Libs
  BY <1>1 DEF IdleLib, Libs
<1>8. Rest'
  BY <1>1, <1>6, <1>7 DEF Inv, Rest
<1>9. walk' \in Walks /\ walk'.phase = "idle" /\ walk'.found = NoneFound
  BY <1>1, NoneFoundType DEF IdleWalk, Walks
<1>10. behind' \in [Sockets -> SUBSET Pids]
  BY <1>1
<1>11. Inner'
  BY <1>1, <1>2, <1>9, <1>10 DEF Inv, Inner
<1>12. Peers'
  BY <1>1, <1>2 DEF Inv, Peers
<1>13. ReportsServers'
  BY <1>9 DEF ReportsServers, NoneFound, Ids
<1>14. Noted' /\ Vouched' /\ Dialled'
  BY <1>9 DEF Noted, Vouched, Dialled
<1> QED
  BY <1>3, <1>8, <1>11, <1>12, <1>13, <1>14 DEF Inv

-----------------------------------------------------------------------------
(* The world *)

\* How processes and socket files change: a start time or an inode number that
\* is given out is new, and a PID in use by the walk is not reused
Drift ==
  /\ \A v \in Sockets : sock'[v] = sock[v] \/ sock'[v] = NoFile \/ sock'[v].ino = Fresh
  /\ \A p \in Pids : proc'[p] = proc[p] \/ proc'[p] = 0 \/ (proc'[p] = Fresh /\ p # walk.pid)

\* Whatever happens between two system calls, nothing the daemon trusts becomes
\* false, and who serves is put on record.
LEMMA DriftStep ==
  ASSUME Inv, events' = events + 1, Remember, UNCHANGED <<cache, walk>>,
         Outer', Rest', Drift
  PROVE  Inv'
<1>1. Clock \in Nat /\ Clock' = Clock + 1 /\ Fresh = Clock + 1
  BY DiscoveryAssumption DEF Inv, Outer, Clock, Fresh
<1>2. \A v \in Sockets : Server(v)' \subseteq Pids
  BY DEF Outer, Server, Listening
<1>3. walk.phase = "idle" => \A v \in Sockets : behind'[v] = {}
  BY DEF Remember
<1>4. walk.phase # "idle" => \A v \in Sockets : behind'[v] = behind[v] \cup Server(v)'
  BY DEF Remember
<1>5. behind' \in [Sockets -> SUBSET Pids]
  <2>1. \A v \in Sockets : behind[v] \subseteq Pids
    BY DEF Inv, Inner
  <2>2. behind' = [v \in Sockets |-> IF walk.phase = "idle" THEN {} ELSE behind[v] \cup Server(v)']
    BY DEF Remember
  <2> QED
    BY <1>2, <2>1, <2>2
<1>6. Inner'
  BY <1>1, <1>5 DEF Inv, Inner, Files, Walks
<1>7. Peers'
  <2> SUFFICES ASSUME NEW v \in Sockets, cache[v] # NoFile, sock'[v] # NoFile,
                      cache[v].ino = sock'[v].ino
               PROVE  cache[v] = sock'[v]
    BY DEF Peers
  <2>1. cache[v].ino <= Clock /\ cache[v].ino \in Nat
    BY DEF Inv, Inner, Files
  <2>2. sock'[v] = sock[v]
    BY <1>1, <2>1 DEF Drift
  <2> QED
    BY <2>2 DEF Inv, Peers
<1>8. Noted'
  BY <1>4 DEF Noted
<1>9. Vouched'
  <2> SUFFICES ASSUME walk.phase = "check", StillThere(cache[walk.at], walk.ino)'
               PROVE  cache[walk.at].pid \in behind'[walk.at]
    BY DEF Vouched
  <2> DEFINE peer == cache[walk.at]
  <2>1. walk.at \in Sockets
    BY DEF Inv, Inner, Walks
  <2>2. peer # NoFile /\ peer.ino = walk.ino /\ proc'[peer.pid] = peer.start
    BY DEF StillThere
  <2>3. peer.pid \in Pids /\ peer.start \in 1 .. Clock
    BY <2>1, <2>2 DEF Inv, Inner
  <2>4. proc[peer.pid] = peer.start
    BY <1>1, <2>2, <2>3 DEF Drift
  <2>5. peer.pid \in behind[walk.at]
    BY <2>2, <2>4 DEF Inv, Vouched, StillThere
  <2> QED
    BY <1>4, <2>1, <2>5
<1>10. Dialled'
  <2> SUFFICES ASSUME walk.phase = "stamp"
               PROVE  /\ walk.pid \in behind'[walk.at]
                      /\ sock'[walk.at] # NoFile /\ sock'[walk.at].ino = walk.ino =>
                           /\ walk.pid = sock'[walk.at].pid
                           /\ proc'[walk.pid] \in {0, sock'[walk.at].start}
    BY DEF Dialled
  <2>1. walk.at \in Sockets /\ walk.pid \in Pids /\ walk.ino <= Clock /\ walk.ino \in Nat
    BY DEF Inv, Inner, Walks
  <2>2. walk.pid \in behind'[walk.at]
    BY <1>4, <2>1 DEF Inv, Dialled
  <2>3. ASSUME sock'[walk.at] # NoFile, sock'[walk.at].ino = walk.ino
        PROVE  walk.pid = sock'[walk.at].pid /\ proc'[walk.pid] \in {0, sock'[walk.at].start}
    <3>1. sock'[walk.at] = sock[walk.at]
      BY <1>1, <2>1, <2>3 DEF Drift
    <3>2. proc'[walk.pid] = proc[walk.pid] \/ proc'[walk.pid] = 0
      BY <2>1 DEF Drift
    <3> QED
      BY <2>3, <3>1, <3>2 DEF Inv, Dialled
  <2> QED
    BY <2>2, <2>3
<1>11. ReportsServers'
  <2>1. CASE walk.phase = "idle"
    BY <2>1 DEF Inv, Inner, ReportsServers, NoneFound, Ids
  <2>2. CASE walk.phase # "idle"
    BY <1>4, <2>2 DEF Inv, ReportsServers
  <2> QED
    BY <2>1, <2>2
<1> QED
  BY <1>6, <1>7, <1>8, <1>9, <1>10, <1>11 DEF Inv

\* Time passes: what was not newer than the clock is not now.
LEMMA Later ==
  ASSUME Outer, events' = events + 1
  PROVE  /\ events' \in Nat /\ Clock \in Nat /\ Clock' = Clock + 1 /\ Fresh = Clock'
         /\ \A v \in Sockets, p \in Pids : proc[p] <= Clock'
         /\ \A v \in Sockets : sock[v] # NoFile => sock[v].pid \in Pids /\ sock[v].ino <= Clock'
<1>1. events' \in Nat /\ Clock \in Nat /\ Clock' = Clock + 1 /\ Fresh = Clock'
  BY DiscoveryAssumption DEF Outer, Clock, Fresh
<1> QED
  BY <1>1 DEF Outer, Files

\* Processes start and end, sockets are bound and unlinked.
LEMMA SocketWorldStep ==
  ASSUME Inv, Happens, Outside, SocketWorld, Remember
  PROVE  Inv'
<1>1. events' = events + 1 /\ UNCHANGED <<cache, walk, conn, lib, tracked>>
  BY DEF Happens, Outside
<1>2. Rest'
  BY <1>1 DEF Inv, Rest
<1>3. /\ events' \in Nat /\ Clock' = Clock + 1 /\ Clock \in Nat /\ Fresh = Clock'
      /\ \A v \in Sockets, p \in Pids : proc[p] <= Clock'
      /\ \A v \in Sockets : sock[v] # NoFile => sock[v].pid \in Pids /\ sock[v].ino <= Clock'
  BY <1>1, Later DEF Inv
<1>4. /\ proc \in [Pids -> Nat] /\ sock \in [Sockets -> Files] /\ busy \subseteq Sockets
      /\ active \subseteq Domains
  BY DEF Inv, Outer
<1>5. PICK p \in Pids, v \in Sockets :
        Spawn(p) \/ Die(p) \/ Bind(v, p) \/ Unlink(v) \/ Backlog(v) \/ DirectoryChanges
  BY DEF SocketWorld
<1>6. Outer' /\ Drift
  <2>1. CASE Spawn(p)
    <3>1. /\ walk.pid # p /\ proc' = [proc EXCEPT ![p] = Fresh]
          /\ UNCHANGED <<sock, busy, active>>
      BY <2>1 DEF Spawn
    <3>2. \A x \in Pids : proc'[x] = IF x = p THEN Fresh ELSE proc[x]
      BY <1>4, <3>1
    <3>3. proc' \in [Pids -> Nat]
      BY <1>3, <1>4, <3>1
    <3>4. Outer'
      BY <1>3, <1>4, <3>1, <3>2, <3>3 DEF Outer
    <3> QED
      BY <3>1, <3>2, <3>4 DEF Drift
  <2>2. CASE Die(p)
    <3>1. proc' = [proc EXCEPT ![p] = 0] /\ UNCHANGED <<sock, busy, active>>
      BY <2>2 DEF Die
    <3>2. \A x \in Pids : proc'[x] = IF x = p THEN 0 ELSE proc[x]
      BY <1>4, <3>1
    <3>3. proc' \in [Pids -> Nat]
      BY <1>4, <3>1
    <3>4. Outer'
      BY <1>3, <1>4, <3>1, <3>2, <3>3 DEF Outer
    <3> QED
      BY <3>1, <3>2, <3>4 DEF Drift
  <2>3. CASE Bind(v, p)
    <3> DEFINE file == [ino |-> Fresh, pid |-> p, start |-> proc[p]]
    <3>1. /\ sock' = [sock EXCEPT ![v] = file]
          /\ busy' = busy \ {v} /\ UNCHANGED <<proc, active>>
      BY <2>3 DEF Bind
    <3>2. file \in Files /\ file.ino = Fresh /\ file.pid = p
      BY <1>3, <1>4, DiscoveryAssumption DEF Files
    <3> HIDE DEF file
    <3>3. \A x \in Sockets : sock'[x] = IF x = v THEN file ELSE sock[x]
      BY <1>4, <3>1
    <3>4. sock' \in [Sockets -> Files]
      BY <1>4, <3>1, <3>2
    <3>5. Outer'
      BY <1>3, <1>4, <3>1, <3>2, <3>3, <3>4 DEF Outer
    <3> QED
      BY <3>1, <3>2, <3>3, <3>5 DEF Drift
  <2>4. CASE Unlink(v)
    <3>1. sock' = [sock EXCEPT ![v] = NoFile] /\ UNCHANGED <<proc, busy, active>>
      BY <2>4 DEF Unlink
    <3>2. \A x \in Sockets : sock'[x] = IF x = v THEN NoFile ELSE sock[x]
      BY <1>4, <3>1
    <3>3. sock' \in [Sockets -> Files]
      BY <1>4, <3>1, NoFileType
    <3>4. Outer'
      BY <1>3, <1>4, <3>1, <3>2, <3>3 DEF Outer
    <3> QED
      BY <3>1, <3>2, <3>4 DEF Drift
  <2>5. CASE Backlog(v) \/ DirectoryChanges
    <3>1. busy' \subseteq Sockets /\ UNCHANGED <<proc, sock, active>>
      BY <1>4, <2>5 DEF Backlog, DirectoryChanges
    <3>2. Outer'
      BY <1>3, <1>4, <3>1 DEF Outer
    <3> QED
      BY <3>1, <3>2 DEF Drift
  <2> QED
    BY <1>5, <2>1, <2>2, <2>3, <2>4, <2>5
<1> QED
  BY <1>1, <1>2, <1>6, DriftStep

\* Changes on libvirt's side leave processes and sockets alone.
LEMMA LibvirtWorldStep ==
  ASSUME Inv, Happens, Remember, UNCHANGED <<proc, sock, busy, cache, walk, lib, tracked>>,
         active' \subseteq Domains, conn' \in {"none", "live", "dead"}
  PROVE  Inv'
<1>1. events' = events + 1
  BY DEF Happens
<1>2. Rest'
  BY DEF Inv, Rest
<1>3. /\ events' \in Nat
      /\ \A v \in Sockets, p \in Pids : proc[p] <= Clock'
      /\ \A v \in Sockets : sock[v] # NoFile => sock[v].pid \in Pids /\ sock[v].ino <= Clock'
  BY <1>1, Later DEF Inv
<1>4. Outer'
  BY <1>3 DEF Inv, Outer
<1>5. Drift
  BY DEF Drift
<1> QED
  BY <1>1, <1>2, <1>4, <1>5, DriftStep

\* The world changes in one of its ways.
LEMMA WorldStep == ASSUME Inv, World \/ LibvirtdChanges PROVE Inv'
<1>1. active \subseteq Domains /\ conn \in {"none", "live", "dead"}
  BY DEF Inv, Outer, Rest
<1>2. ASSUME World, SocketWorld PROVE Inv'
  BY <1>2, SocketWorldStep DEF World
<1>3. ASSUME World, NEW d \in Domains, DomainChanges(d) PROVE Inv'
  <2>1. /\ Happens /\ Remember
        /\ UNCHANGED <<proc, sock, busy, cache, walk, lib, tracked, conn>>
        /\ active' \subseteq Domains
    BY <1>1, <1>3 DEF World, Outside, DomainChanges
  <2> QED
    BY <1>1, <2>1, LibvirtWorldStep
<1>4. ASSUME LibvirtdChanges PROVE Inv'
  <2>1. /\ Happens /\ Remember
        /\ UNCHANGED <<proc, sock, busy, cache, walk, lib, tracked, active>>
        /\ conn' \in {"none", "live", "dead"}
    BY <1>1, <1>4 DEF LibvirtdChanges
  <2> QED
    BY <1>1, <2>1, LibvirtWorldStep
<1> QED
  BY <1>2, <1>3, <1>4 DEF World

\* Calls that fail: an entry is skipped, a pass is given up, an instance is
\* dropped.
LEMMA FaultStep == ASSUME Inv, Faults PROVE Inv'
<1>1. /\ events' = events + 1
      /\ UNCHANGED <<proc, sock, busy, active, conn, behind, cache>>
  BY DEF Faults, SocketFault, DomainFault, RefreshFault, Happens, Unchanging
<1>2. /\ events' \in Nat /\ Clock \in Nat /\ Clock' = Clock + 1
      /\ \A v \in Sockets, p \in Pids : proc[p] <= Clock'
      /\ \A v \in Sockets : sock[v] # NoFile => sock[v].pid \in Pids /\ sock[v].ino <= Clock'
  BY <1>1, Later DEF Inv
<1>3. Outer' /\ Clock <= Clock'
  BY <1>1, <1>2 DEF Inv, Outer
<1>4. CASE SocketFault
  <2>1. Rest'
    BY <1>1, <1>4 DEF SocketFault, Inv, Rest
  <2>2. CASE walk.phase \in {"check", "dial"} /\ walk' = Skipped(walk)
    BY <1>1, <1>3, <2>1, <2>2, SkipStep
  <2>3. CASE walk.phase = "next" /\ walk' = [IdleWalk EXCEPT !.phase = "done"]
    <3>1. walk' \in Walks /\ walk'.phase = "done" /\ walk'.found = NoneFound
      BY <2>3, NoneFoundType DEF IdleWalk, Walks
    <3>2. Inner'
      BY <1>1, <1>2, <3>1 DEF Inv, Inner, Files
    <3>3. Peers' /\ Noted'
      BY <1>1, <2>3 DEF Inv, Peers, Noted, Server, Listening
    <3>4. ReportsServers'
      BY <3>1 DEF ReportsServers, NoneFound, Ids
    <3>5. Vouched' /\ Dialled'
      BY <3>1 DEF Vouched, Dialled
    <3> QED
      BY <1>3, <2>1, <3>2, <3>3, <3>4, <3>5 DEF Inv
  <2> QED
    BY <1>4, <2>2, <2>3 DEF SocketFault
<1>5. CASE DomainFault
  <2>1. PICK d \in lib.todo : lib' = [lib EXCEPT !.todo = lib.todo \ {d}]
    BY <1>5 DEF DomainFault
  <2>2. UNCHANGED <<walk, tracked>>
    BY <1>5 DEF DomainFault
  <2>3. lib' \in Libs
    BY <2>1 DEF Inv, Rest, Libs
  <2>4. Rest'
    BY <1>1, <2>2, <2>3 DEF Inv, Rest
  <2> QED
    BY <1>1, <1>3, <2>2, <2>4, SocketFrame
<1>6. CASE RefreshFault
  <2>1. PICK x \in Ids : tracked' = [tracked EXCEPT ![x] = Absent]
    BY <1>6 DEF RefreshFault
  <2>2. UNCHANGED <<walk, lib>>
    BY <1>6 DEF RefreshFault
  <2>3. Rest'
    BY <1>1, <2>1, <2>2 DEF Inv, Rest
  <2> QED
    BY <1>1, <1>3, <2>2, <2>3, SocketFrame
<1> QED
  BY <1>4, <1>5, <1>6 DEF Faults

-----------------------------------------------------------------------------
(* The invariant holds *)

\* At the start nothing is remembered or found.
LEMMA InitInv == ASSUME Init PROVE Inv
<1>1. Outer
  <2>1. \A v \in Sockets : v \in Nat /\ v > 0 /\ v <= NumSockets
    BY DiscoveryAssumption DEF Sockets
  <2>2. proc \in [Pids -> Nat] /\ \A p \in Pids : proc[p] <= 1
    BY DEF Init
  <2>3. sock \in [Sockets -> Files]
    BY <2>1 DEF Init, Files
  <2>4. \A v \in Sockets : sock[v].pid = 1 /\ sock[v].ino = v
    BY DEF Init
  <2>5. Clock = NumSockets /\ events \in Nat /\ busy \subseteq Sockets /\ active \subseteq Domains
    BY DiscoveryAssumption DEF Init, Clock
  <2>6. \A v \in Sockets, p \in Pids : proc[p] <= Clock
    BY <2>1, <2>2, <2>5, DiscoveryAssumption
  <2> QED
    BY <2>1, <2>2, <2>3, <2>4, <2>5, <2>6, DiscoveryAssumption DEF Outer
<1>2. walk \in Walks /\ walk.phase = "idle" /\ walk.found = NoneFound
  BY NoneFoundType DEF Init, IdleWalk, Walks
<1>3. Inner
  BY <1>2, NoFileType DEF Init, Inner
<1>4. Rest
  <2>1. lib \in Libs
    BY DEF Init, IdleLib, Libs
  <2>2. tracked \in [Ids -> Pids \cup {Absent, HostPid}]
    BY DEF Init, NoneFound
  <2> QED
    BY <2>1, <2>2 DEF Init, Rest
<1>5. Peers
  BY DEF Init, Peers
<1>6. Noted /\ Vouched /\ Dialled
  BY <1>2 DEF Noted, Vouched, Dialled
<1>7. ReportsServers
  BY <1>2 DEF ReportsServers, NoneFound, Ids
<1> QED
  BY <1>1, <1>3, <1>4, <1>5, <1>6, <1>7 DEF Inv

\* Every step of the daemon, the world and its faults keeps the invariant.
LEMMA NextInv == ASSUME Inv, [Next]_vars PROVE Inv'
<1>1. ASSUME Walk PROVE Inv'
  BY <1>1, StatStep, CheckStep, DialStep, StampStep, EndWalkStep DEF Walk
<1>2. ASSUME UNCHANGED vars PROVE Inv'
  <2>1. UNCHANGED <<proc, sock, busy, active, events, cache, walk, conn, lib, tracked, behind>>
    BY <1>2 DEF vars, world_vars
  <2>2. Clock' = Clock
    BY <2>1 DEF Clock
  <2>3. Outer' /\ Rest'
    BY <2>1, <2>2 DEF Inv, Outer, Rest
  <2>4. Clock <= Clock'
    BY <2>2, ClockType DEF Inv
  <2> QED
    BY <2>1, <2>3, <2>4, SocketFrame
<1> QED
  BY <1>1, <1>2, BeginStep, QueryStep, SyncStep, WorldStep, FaultStep DEF Next

\* The invariant holds in every state, for any number of sockets, processes,
\* domains and events.
THEOREM Invariance == Spec => []Inv
<1>1. Init => Inv
  BY InitInv
<1>2. Inv /\ [Next]_vars => Inv'
  BY NextInv
<1> QED
  BY <1>1, <1>2, PTL DEF Spec

\* Both passes and the controller keep the types of their state, whatever
\* changes between two of their system calls.
THEOREM TypeCorrect == Spec => []TypeOK
<1>1. Inv => TypeOK
  BY DEF Inv, Outer, Inner, Rest, Walks, Libs, TypeOK
<1> QED
  BY <1>1, Invariance, PTL

\* discover_via_control_socket reports for a socket only a process that served
\* it during the pass: the cached peer's inode and start time are enough to
\* tell it from a successor, a reused PID and a process that lost the socket.
THEOREM ServersReported == Spec => []ReportsServers
<1>1. Inv => ReportsServers
  BY DEF Inv
<1> QED
  BY <1>1, Invariance, PTL
=============================================================================
