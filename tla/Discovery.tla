----------------------------- MODULE Discovery ------------------------------
(***************************************************************************)
(* Backend discovery and what the controller makes of it: the walk over    *)
(* control sockets with its cache of peer processes (src/backends/mod.rs), *)
(* the libvirt inventory over one cached connection                        *)
(* (src/backends/qemu/mod.rs and libvirt.rs), run concurrently by          *)
(* discover_all, and sync_instances of src/controller.rs.                  *)
(*                                                                         *)
(*   walk:     idle -> next -> check -> dial -> stamp -> next .. -> done   *)
(*   libvirt:  idle -> open -> list -> probe .. -> done                    *)
(*                                                                         *)
(* Processes, socket files and libvirtd change between any two system      *)
(* calls.  Three things are assumed of them: a freed inode number is not   *)
(* given to the next socket (as on tmpfs), a process that goes on living   *)
(* unlinks a socket it stops serving, and a PID is not reused between two  *)
(* system calls that follow each other.                                    *)
(*                                                                         *)
(* An operator named Slip... is a plausible mistake in the definition      *)
(* below it, kept to show that a property notices it.                      *)
(***************************************************************************)
EXTENDS Integers, FiniteSets

CONSTANTS
  NumSockets,  \* VMs with a control socket are 1 .. NumSockets
  Domains,     \* VMs that libvirt runs
  Pids,        \* process ids
  MaxEvents    \* bound: changes of the world, failed calls included

Sockets == 1 .. NumSockets
Ids == Sockets \cup Domains

ASSUME DiscoveryAssumption ==
  /\ NumSockets \in Nat /\ MaxEvents \in Nat
  /\ IsFiniteSet(Domains) /\ Domains \cap Sockets = {}
  /\ Pids \subseteq Nat \ {0} /\ 1 \in Pids

VARIABLES
  \* the world
  proc,      \* [Pids -> start time], 0: no such process
  sock,      \* [Sockets -> socket file and the process that bound it]
  busy,      \* sockets whose backlog is full
  readable,  \* the socket directory can be read
  libvirtd,  \* libvirtd runs
  active,    \* domains it runs
  events,    \* how much has happened
  \* the daemon
  cache,     \* PEER_CACHE: [Sockets -> CachedPeer]
  walk,      \* the pass over the socket directory
  conn,      \* QemuBackend::conn: "none", "live", or "dead" once libvirtd ended
  lib,       \* the pass over libvirt
  tracked,   \* [Ids -> pid of the Instance, or Absent]
  behind     \* history: [Sockets -> pids that served it during this pass]

world_vars == <<proc, sock, busy, readable, libvirtd, active, events>>
vars == <<world_vars, cache, walk, conn, lib, tracked, behind>>

Absent == -1
HostPid == 0     \* a domain's process is not told apart from "unknown"
NoFile == [ino |-> 0, pid |-> 0, start |-> 0]
NoneFound == [x \in Ids |-> Absent]
IdleWalk == [phase |-> "idle", todo |-> {}, at |-> 0, ino |-> 0, pid |-> 0, found |-> NoneFound]
IdleLib == [phase |-> "idle", todo |-> {}, found |-> {}]

\* Somebody accepts connections on the socket
Listening(v) == sock[v] # NoFile /\ proc[sock[v].pid] = sock[v].start
Server(v) == IF Listening(v) THEN {sock[v].pid} ELSE {}

\* The daemon starts; one storage process serves every socket
Init ==
  /\ proc = [p \in Pids |-> IF p = 1 THEN 1 ELSE 0]
  /\ sock = [v \in Sockets |-> [ino |-> v, pid |-> 1, start |-> 1]]
  /\ busy = {}
  /\ readable = TRUE
  /\ libvirtd \in BOOLEAN
  /\ active = Domains
  /\ events = 0
  /\ cache = [v \in Sockets |-> NoFile]
  /\ walk = IdleWalk
  /\ conn = "none"
  /\ lib = IdleLib
  /\ tracked = NoneFound
  /\ behind = [v \in Sockets |-> {}]

-----------------------------------------------------------------------------
(* discover_via_control_socket *)

Walking(phase) ==
  /\ walk.phase = phase
  /\ UNCHANGED <<world_vars, conn, lib, tracked>>

\* discover_all starts both passes; a directory that cannot be read is an
\* empty inventory, and the cache stays
BeginPass ==
  /\ walk.phase = "idle" /\ lib.phase = "idle"
  /\ walk' = IF readable THEN [walk EXCEPT !.phase = "next", !.todo = Sockets]
             ELSE [walk EXCEPT !.phase = "done"]
  /\ lib' = [lib EXCEPT !.phase = "open"]
  /\ behind' = [v \in Sockets |-> Server(v)]
  /\ UNCHANGED <<world_vars, cache, conn, tracked>>

Passed(w) == [w EXCEPT !.phase = "next", !.todo = w.todo \ {w.at},
                       !.at = 0, !.ino = 0, !.pid = 0]
Identified(w, pid) == [Passed(w) EXCEPT !.found[w.at] = pid]
SlipGivesUp(w) == [Passed(w) EXCEPT !.todo = {}]
\* An entry that cannot be identified does not end the walk
Skipped(w) == Passed(w)

\* The next directory entry, in any order: the socket file's identity is read
Stat ==
  /\ Walking("next")
  /\ \E v \in walk.todo :
       LET w == [walk EXCEPT !.at = v]
       IN  walk' = IF sock[v] = NoFile THEN Skipped(w)
                   ELSE [w EXCEPT !.phase = "check", !.ino = sock[v].ino]
  /\ UNCHANGED <<cache, behind>>

SlipPidOnly(peer, ino) == peer # NoFile /\ peer.ino = ino /\ proc[peer.pid] # 0
\* The same file, and the process behind it is still the one seen then
StillThere(peer, ino) ==
  /\ peer # NoFile
  /\ peer.ino = ino
  /\ proc[peer.pid] = peer.start

Check ==
  /\ Walking("check")
  /\ walk' = IF StillThere(cache[walk.at], walk.ino) THEN Identified(walk, cache[walk.at].pid)
             ELSE [walk EXCEPT !.phase = "dial"]
  /\ UNCHANGED <<cache, behind>>

SlipUnwraps ==
  /\ Walking("dial")
  /\ walk' = [walk EXCEPT !.phase = "stamp",
                          !.pid = IF Listening(walk.at) THEN sock[walk.at].pid ELSE 0]
  /\ UNCHANGED <<cache, behind>>

\* control_socket_peer_pid: refused without a listener, EAGAIN when it is busy
Dial ==
  /\ Walking("dial")
  /\ walk' = IF Listening(walk.at) /\ walk.at \notin busy
               THEN [walk EXCEPT !.phase = "stamp", !.pid = sock[walk.at].pid]
               ELSE Skipped(walk)
  /\ UNCHANGED <<cache, behind>>

SlipNotRemembered ==
  /\ Walking("stamp")
  /\ walk' = Identified(walk, walk.pid)
  /\ UNCHANGED <<cache, behind>>

\* The peer is remembered, unless it is gone already; its PID is reported anyway
Stamp ==
  /\ Walking("stamp")
  /\ LET start == proc[walk.pid]
     IN  cache' = IF start = 0 THEN cache
                  ELSE [cache EXCEPT ![walk.at] =
                          [ino |-> walk.ino, pid |-> walk.pid, start |-> start]]
  /\ walk' = Identified(walk, walk.pid)
  /\ UNCHANGED behind

SlipKeepsAll(found) == cache
\* PEER_CACHE.retain: only sockets this pass identified
Retained(found) == [v \in Sockets |-> IF found[v] = Absent THEN NoFile ELSE cache[v]]

EndWalk ==
  /\ Walking("next")
  /\ walk.todo = {}
  /\ walk' = [walk EXCEPT !.phase = "done"]
  /\ cache' = Retained(walk.found)
  /\ UNCHANGED behind

Walk == Stat \/ Check \/ Dial \/ Stamp \/ EndWalk

-----------------------------------------------------------------------------
(* QemuBackend::discover.  The passes share no state and their steps commute, *)
(* so it is enough to let this one follow the other.                          *)

Querying(phase) ==
  /\ lib.phase = phase
  /\ walk.phase = "done"
  /\ UNCHANGED <<world_vars, cache, walk, tracked, behind>>

\* get_or_open_conn: a connection is kept for good, a failure is not
OpenConn ==
  /\ Querying("open")
  /\ conn' = IF conn = "none" /\ libvirtd THEN "live" ELSE conn
  /\ lib' = [lib EXCEPT !.phase = IF conn' = "none" THEN "done" ELSE "list"]

\* list_qemu_vms: any failure is an empty inventory
ListDomains ==
  /\ Querying("list")
  /\ lib' = IF conn = "live" THEN [lib EXCEPT !.phase = "probe", !.todo = active]
            ELSE [lib EXCEPT !.phase = "done"]
  /\ UNCHANGED conn

\* qemu_host_pid and qemu_max_vcpus: a domain that is gone is skipped
Probe ==
  /\ Querying("probe")
  /\ \E d \in lib.todo :
       lib' = [lib EXCEPT !.todo = lib.todo \ {d},
                          !.found = IF conn = "live" /\ d \in active THEN lib.found \cup {d}
                                    ELSE lib.found]
  /\ UNCHANGED conn

EndQuery ==
  /\ Querying("probe")
  /\ lib.todo = {}
  /\ lib' = [lib EXCEPT !.phase = "done"]
  /\ UNCHANGED conn

Query == OpenConn \/ ListDomains \/ Probe \/ EndQuery

-----------------------------------------------------------------------------
(* Controller::sync_instances: a VM that is tracked keeps its Instance *)

Discovered(x) == IF x \in lib.found THEN HostPid ELSE walk.found[x]

Sync ==
  /\ walk.phase = "done" /\ lib.phase = "done"
  /\ tracked' = [x \in Ids |-> IF Discovered(x) # Absent /\ tracked[x] # Absent
                                 THEN tracked[x] ELSE Discovered(x)]
  /\ walk' = IdleWalk /\ lib' = IdleLib
  /\ behind' = [v \in Sockets |-> {}]
  /\ UNCHANGED <<world_vars, cache, conn>>

-----------------------------------------------------------------------------
(* The world, and calls that fail *)

Happens == events < MaxEvents /\ events' = events + 1

Remember ==
  behind' = [v \in Sockets |-> IF walk.phase = "idle" THEN {} ELSE behind[v] \cup Server(v)']

Fresh == NumSockets + events + 1

Outside == UNCHANGED <<cache, walk, conn, lib, tracked>>

Spawn(p) ==
  /\ proc[p] = 0 /\ walk.pid # p
  /\ proc' = [proc EXCEPT ![p] = Fresh]
  /\ UNCHANGED <<sock, busy, readable, libvirtd, active>>

\* The socket files of a process outlive it
Die(p) ==
  /\ proc[p] # 0
  /\ proc' = [proc EXCEPT ![p] = 0]
  /\ UNCHANGED <<sock, busy, readable, libvirtd, active>>

\* A process takes a socket over, whether or not its last one is alive
Bind(v, p) ==
  /\ proc[p] # 0
  /\ sock' = [sock EXCEPT ![v] = [ino |-> Fresh, pid |-> p, start |-> proc[p]]]
  /\ busy' = busy \ {v}
  /\ UNCHANGED <<proc, readable, libvirtd, active>>

Unlink(v) ==
  /\ sock[v] # NoFile
  /\ sock' = [sock EXCEPT ![v] = NoFile]
  /\ UNCHANGED <<proc, busy, readable, libvirtd, active>>

Backlog(v) ==
  /\ busy' = IF v \in busy THEN busy \ {v} ELSE busy \cup {v}
  /\ UNCHANGED <<proc, sock, readable, libvirtd, active>>

DirectoryChanges ==
  /\ readable' = ~readable
  /\ UNCHANGED <<proc, sock, busy, libvirtd, active>>

DomainChanges(d) ==
  /\ active' = IF d \in active THEN active \ {d} ELSE active \cup {d}
  /\ UNCHANGED <<proc, sock, busy, readable, libvirtd>>

SocketWorld == \E p \in Pids, v \in Sockets :
  Spawn(p) \/ Die(p) \/ Bind(v, p) \/ Unlink(v) \/ Backlog(v) \/ DirectoryChanges

World == Happens /\ Outside /\ (SocketWorld \/ \E d \in Domains : DomainChanges(d)) /\ Remember

\* A connection does not survive libvirtd
LibvirtdChanges ==
  /\ Happens
  /\ libvirtd' = ~libvirtd
  /\ conn' = IF conn = "live" THEN "dead" ELSE conn
  /\ UNCHANGED <<proc, sock, busy, readable, active, cache, walk, lib, tracked>>
  /\ Remember

Unchanging == UNCHANGED <<proc, sock, busy, readable, libvirtd, active, conn, behind>>

\* metadata or connect fails for another reason, and the entry is skipped; or
\* next_entry does, which ends the walk with an error and spares the cache
SocketFault ==
  /\ Happens /\ Unchanging
  /\ \/ walk.phase \in {"check", "dial"} /\ walk' = Skipped(walk)
     \/ walk.phase = "next" /\ walk' = [IdleWalk EXCEPT !.phase = "done"]
  /\ UNCHANGED <<cache, lib, tracked>>

\* A domain's UUID, XML or vCPU count cannot be read (or there are no vCPUs)
DomainFault ==
  /\ Happens /\ Unchanging
  /\ \E d \in lib.todo : lib' = [lib EXCEPT !.todo = lib.todo \ {d}]
  /\ UNCHANGED <<cache, walk, tracked>>

\* tick drops an instance whose refresh failed, before the next pass
RefreshFault ==
  /\ Happens /\ Unchanging
  /\ walk.phase = "idle"
  /\ \E x \in Ids : tracked[x] # Absent /\ tracked' = [tracked EXCEPT ![x] = Absent]
  /\ UNCHANGED <<cache, walk, lib>>

Faults == SocketFault \/ DomainFault \/ RefreshFault

-----------------------------------------------------------------------------
Next == BeginPass \/ Walk \/ Query \/ Sync \/ World \/ LibvirtdChanges \/ Faults

Spec == Init /\ [][Next]_vars

\* Polls go on and their calls return; nothing has to happen in the world
FairSpec == Spec /\ WF_vars(BeginPass) /\ WF_vars(Walk) /\ WF_vars(Query) /\ WF_vars(Sync)

-----------------------------------------------------------------------------
(* Properties *)

\* The types of all state.
TypeOK ==
  /\ proc \in [Pids -> Nat]
  /\ \A v \in Sockets : sock[v] = NoFile \/ sock[v].pid \in Pids
  /\ \A v \in Sockets : cache[v] = NoFile \/ cache[v].pid \in Pids
  /\ busy \subseteq Sockets /\ active \subseteq Domains
  /\ walk.phase \in {"idle", "next", "check", "dial", "stamp", "done"}
  /\ walk.todo \subseteq Sockets
  /\ walk.phase \in {"check", "dial", "stamp"} => walk.at \in walk.todo
  /\ walk.phase = "stamp" => walk.pid \in Pids
  /\ lib.phase \in {"idle", "open", "list", "probe", "done"}
  /\ conn \in {"none", "live", "dead"}
  /\ tracked \in [Ids -> Pids \cup {Absent, HostPid}]

\* Every PID that discovery reports for a control socket served that socket at
\* some moment of the pass: neither a reused PID, nor a process that lives on
\* but lost the socket to another, nor one that died and left its file behind
\* is taken from the cache.
ReportsServers ==
  \A v \in Sockets : walk.found[v] # Absent => walk.found[v] \in behind[v]

\* The cache does not keep what is gone: once the world is quiet and the
\* directory readable, it remembers no process that does not serve its socket.
CacheIsPruned ==
  <>[]readable => <>[](\A v \in Sockets : cache[v] # NoFile =>
                         Listening(v) /\ cache[v].pid = sock[v].pid)

Reachable == {v \in Sockets : readable /\ Listening(v) /\ v \notin busy}

\* Once the world is quiet, every VM that can be reached is tracked and every
\* other is not, whatever sockets without a server, missed passes and failed
\* refreshes there were before, and libvirt's VMs are there unless libvirtd ended after
\* it was connected to.
InventoryConverges ==
  /\ <>[](busy = {}) => <>[](\A v \in Sockets : tracked[v] # Absent <=> v \in Reachable)
  /\ <>[](libvirtd /\ conn # "dead") => <>[](\A d \in Domains : tracked[d] # Absent <=> d \in active)

\* Once the world is quiet, no server is connected to any more, since backlogs
\* are small and a connection occupies a place until it is accepted.
BacklogIsSpared == <>[](walk.phase = "dial" => ~Listening(walk.at) \/ walk.at \in busy)
=============================================================================
