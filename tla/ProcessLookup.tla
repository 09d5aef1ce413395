--------------------------- MODULE ProcessLookup ----------------------------
(***************************************************************************)
(* Which process a connection belongs to: the enrichment thread of         *)
(* src/app.rs and the look-up it owns on Linux (enhanced.rs), which asks   *)
(* the eBPF socket tracker first and a snapshot of /proc (process.rs) when *)
(* that has no answer.  An answer is written once: names are permanent.    *)
(*                                                                         *)
(* Only the enrichment thread uses the look-up.  What it races with is the *)
(* host: processes start, exit and reuse process ids, open and close       *)
(* sockets and trigger the probes between any two of its steps.  Whether a *)
(* period (2 s, 5 s, 10 s, 30 s) has passed is a choice at every step that *)
(* asks.                                                                   *)
(***************************************************************************)
EXTENDS SocketTracker

CONSTANTS
  Conns,          \* the connections: [family, proto, laddr, lport, raddr, rport]
  Inbound,        \* those of Conns the remote side opens
  Style,          \* how the local process binds: "connected", "bound" or "unbound"
  Unknown,        \* "unknown", the name of a process whose comm was unreadable
  NoConn,         \* the thread is at no connection
  MaxSpawns       \* bound: processes started

ASSUME ProcessLookupAssumption ==
  /\ Inbound \subseteq Conns /\ NoConn \notin Conns
  /\ Style \in [Conns -> {"connected", "bound", "unbound"}]
  /\ Unknown \notin Nat /\ Unknown # ThreadName /\ Unknown # NoName
  /\ MaxSpawns \in Nat

(* An echo request has an identifier, here lport, and no remote port; only *)
(* TCP connections are accepted; a TCP client sends on a connected socket. *)
ASSUME ConnsAssumption ==
  /\ \A c \in Conns : /\ c.family \in {"v4", "v6"} /\ c.proto \in {"tcp", "udp", "icmp"}
                      /\ c.proto = "icmp" => c.rport = 0
                      /\ c.proto = "tcp" /\ c \notin Inbound => Style[c] = "connected"
  /\ \A c \in Inbound : c.proto = "tcp"

VARIABLES
  sockets,     \* external: the open sockets
  started,     \* external: how many processes were started
  pc,          \* the enrichment thread: "loop", "scan", "pass", "delete", "resolve"
  listed,      \* the process ids of /proc that build_inode_map has yet to read
  process_map, \* ProcessCache.lookup of process.rs: the snapshot of /proc
  pid_names,   \* LinuxProcessLookup.pid_names
  cache,       \* unified_cache.lookup of enhanced.rs
  todo,        \* the connections this pass has yet to visit
  cur,         \* the connection being looked up
  hit,         \* the eBPF entry found for it
  doomed,      \* keys_to_delete
  conn,        \* the connection table: what each connection is attributed to
  held,        \* history: the sockets processes used, and the name each had then
  named        \* history: the names each process id has had

hostVars == <<procs, clock, sockets, started, held, named>>
cacheVars == <<process_map, pid_names, cache>>
passVars == <<todo, cur, hit, doomed>>

vars == <<socket_map, hostVars, pc, listed, cacheVars, passVars, conn>>

Empty == [x \in {} |-> x]
Put(f, x, y) == [z \in DOMAIN f \cup {x} |-> IF z = x THEN y ELSE f[z]]
Answer(p, n) == [pid |-> p, name |-> n]

Attributed(c) == conn[c] # NoInfo

(* new_with_config: the first scan of /proc finds no process of interest,  *)
(* for all of them start later.                                            *)
Init ==
  /\ procs = [p \in Pids |-> NoName] /\ clock = 0
  /\ socket_map = Empty
  /\ sockets = {} /\ started = 0
  /\ pc = "loop" /\ listed = {}
  /\ process_map = Empty /\ pid_names = Empty /\ cache = Empty
  /\ todo = {} /\ cur = NoConn /\ hit = NoInfo /\ doomed = {}
  /\ conn = [c \in Conns |-> NoInfo]
  /\ held = {} /\ named = [p \in Pids |-> {}]

-----------------------------------------------------------------------------
(* The host.  A socket has the fields of a connection; an address that is  *)
(* not fixed is zero, and so is the port of an unconnected remote side.    *)
(* It is open for the process that has the process id and the name.        *)

Live(p) == procs[p] # NoName

Socket(c, laddr, raddr, rport) ==
  [family |-> c.family, proto |-> c.proto, laddr |-> laddr, lport |-> c.lport,
   raddr |-> raddr, rport |-> rport]

Exact(c) == Socket(c, c.laddr, c.raddr, c.rport)
Bound(c) == Socket(c, c.laddr, Zero(c.family), 0)
Wildcard(c) == Socket(c, Zero(c.family), Zero(c.family), 0)

(* The socket a local process sends on, or listens on.                     *)
Opens(c) ==
  CASE Style[c] = "connected" -> Exact(c)
    [] Style[c] = "bound"     -> Bound(c)
    [] Style[c] = "unbound"   -> Wildcard(c)

(* The sockets a connection's packets can be sent from or delivered to.    *)
Covers(s, c) == s \in {Exact(c), Bound(c), Wildcard(c)}

Spawn(p) ==
  /\ ~Live(p)
  /\ started < MaxSpawns
  /\ started' = started + 1
  /\ procs' = [procs EXCEPT ![p] = started + 1]
  /\ named' = [named EXCEPT ![p] = @ \cup {started + 1}]
  /\ UNCHANGED <<socket_map, clock, sockets, held, pc, conn>>
  /\ UNCHANGED listed /\ UNCHANGED cacheVars /\ UNCHANGED passVars

(* A process exits, and its sockets are closed.                            *)
Exit(p) ==
  /\ Live(p)
  /\ procs' = [procs EXCEPT ![p] = NoName]
  /\ sockets' = {s \in sockets : s.pid # p}
  /\ UNCHANGED <<socket_map, clock, started, held, named, pc, conn>>
  /\ UNCHANGED listed /\ UNCHANGED cacheVars /\ UNCHANGED passVars

(* Process p opens and uses a socket like s, or uses the one it has, and   *)
(* the probes of the operation write keys.  Every process here is a client *)
(* or a server with one socket, and those it accepts.                      *)
Mine(p) == {h \in held : h.pid = p /\ h.name = procs[p]}

Use(p, s, keys) ==
  LET mine == [pid |-> p, name |-> procs[p], sock |-> s]
  IN  /\ mine \in held => mine \in sockets
      /\ sockets' = sockets \cup {mine}
      /\ held' = held \cup {mine}
      /\ socket_map' = MapAfter(keys, p)
      /\ UNCHANGED <<procs, clock, started, named, pc, conn>>
      /\ UNCHANGED listed /\ UNCHANGED cacheVars /\ UNCHANGED passVars

(* The packet processors track a connection once a socket for it was used. *)
Tracked(c) == \E h \in held : Covers(h.sock, c)
Pending == {c \in Conns : Tracked(c) /\ ~Attributed(c)}

(* Bound: in one behaviour only connections that are alike.                *)
Alike(c) == \A h \in held : /\ h.sock.family = c.family
                            /\ (h.sock.proto = "tcp") = (c.proto = "tcp")

(* connect on a TCP socket, sendmsg on a UDP or ping socket.               *)
Send(p, c) ==
  /\ c \notin Inbound /\ Live(p) /\ Alike(c)
  /\ \A h \in Mine(p) : h.sock = Opens(c)
  /\ Use(p, Opens(c), SentKeys(Opens(c), Exact(c)))

(* listen: no probe.                                                       *)
Listen(p, c) ==
  /\ c \in Inbound /\ Live(p) /\ Alike(c) /\ Mine(p) = {}
  /\ Use(p, Opens(c), <<>>)

(* accept returns connection c, on a socket of its own.                    *)
Accept(p, c) ==
  /\ c \in Inbound
  /\ \E s \in sockets :
       /\ s.pid = p /\ s.sock = Opens(c)
       /\ Use(p, Exact(c), trace_tcp_accept(s.sock))

(* A process closes its sockets and lives on.                              *)
CloseSockets(p) ==
  /\ \E s \in sockets : s.pid = p
  /\ sockets' = {s \in sockets : s.pid # p}
  /\ UNCHANGED <<socket_map, procs, clock, started, held, named, pc, conn>>
  /\ UNCHANGED listed /\ UNCHANGED cacheVars /\ UNCHANGED passVars

Tick ==
  /\ clock < MaxTime
  /\ clock' = clock + 1
  /\ UNCHANGED <<socket_map, procs, sockets, started, held, named, pc, conn>>
  /\ UNCHANGED listed /\ UNCHANGED cacheVars /\ UNCHANGED passVars

(* A connection is removed, by the clean-up or by the user, and its next   *)
(* packet tracks it anew.  The entry being looked up is locked.            *)
Renew(c) ==
  /\ Attributed(c) /\ cur # c
  /\ conn' = [conn EXCEPT ![c] = NoInfo]
  /\ UNCHANGED <<socket_map, hostVars, pc, listed, cacheVars, passVars>>

-----------------------------------------------------------------------------
(* The enrichment thread: an iteration of its loop.                        *)

(* The connections cs are left of the pass; after the last one the thread  *)
(* sleeps for 250 ms.                                                      *)
GoOn(cs) ==
  /\ todo' = cs
  /\ pc' = IF cs = {} THEN "loop" ELSE "pass"

(* A pass looks the connections without an answer up; between the full     *)
(* passes, every 2 seconds, only those younger than 10 seconds.            *)
BeginPass(full) ==
  /\ \E young \in SUBSET Pending : GoOn(IF full THEN Pending ELSE young)

LoopPass(full) ==
  /\ pc = "loop"
  /\ BeginPass(full)
  /\ UNCHANGED <<socket_map, hostVars, listed, cacheVars, cur, hit, doomed, conn>>

(* More than 5 seconds after the last refresh: /proc is listed.            *)
LoopRefresh ==
  /\ pc = "loop"
  /\ pc' = "scan"
  /\ listed' = {p \in Pids : Live(p)}
  /\ UNCHANGED <<socket_map, hostVars, cacheVars, passVars, conn>>

(* parse_hex_address: each word is printed as a number of the host.        *)
parse_hex_address(addr) == IF LittleEndian THEN addr ELSE SwapBytes(addr)

ConnectionKey(s) ==
  Socket(s, parse_hex_address(s.laddr), parse_hex_address(s.raddr), s.rport)

(* build_process_map: the comm and the sockets of every process listed,    *)
(* which may have exited since, or whose process id may be another's by    *)
(* now; then the four files of /proc/net, which list no ping socket.  A    *)
(* socket that is opened or closed in between is left out.  Of several     *)
(* with the same addresses the last one read stays.                        *)
ProcessMaps ==
  LET mapped == {s \in sockets : s.pid \in listed /\ s.sock.proto \in {"tcp", "udp"}}
  IN  {m \in [{ConnectionKey(s.sock) : s \in mapped} -> {Answer(s.pid, s.name) : s \in mapped}] :
         \A k \in DOMAIN m :
           \E s \in mapped : ConnectionKey(s.sock) = k /\ Answer(s.pid, s.name) = m[k]}

(* refresh: the snapshot and the names are replaced, the cache is emptied. *)
InstallSnapshot(full) ==
  /\ pc = "scan"
  /\ process_map' \in ProcessMaps
  /\ pid_names' = [p \in listed |-> IF Live(p) THEN procs[p] ELSE Unknown]
  /\ cache' = Empty
  /\ listed' = {}
  /\ BeginPass(full)
  /\ UNCHANGED <<socket_map, hostVars, cur, hit, doomed, conn>>

(* refresh fails: the old snapshot stays, for another 5 seconds.           *)
RefreshFails(full) ==
  /\ pc = "scan"
  /\ listed' = {}
  /\ BeginPass(full)
  /\ UNCHANGED <<socket_map, hostVars, cacheVars, cur, hit, doomed, conn>>

-----------------------------------------------------------------------------
(* get_process_for_connection, for one connection of the pass.             *)

(* Faulty: the port of the wrong side.                                     *)
BugCandidates(c) ==
  {Bound(c), Socket(c, Zero(c.family), c.raddr, c.rport),
   [Wildcard(c) EXCEPT !.lport = c.rport]}

Candidates(c) == {Bound(c), Socket(c, Zero(c.family), c.raddr, c.rport), Wildcard(c)}

(* fallback_lookup: what the relaxed keys agree on.                        *)
fallback_lookup(c) ==
  LET found == {process_map[k] : k \in Candidates(c) \cap DOMAIN process_map}
  IN  IF c.proto \in {"tcp", "udp"} /\ Cardinality(found) = 1
      THEN CHOOSE a \in found : TRUE ELSE NoInfo

(* LinuxProcessLookup::get_process_for_connection                          *)
ProcfsLookup(c) ==
  IF Exact(c) \in DOMAIN process_map THEN process_map[Exact(c)] ELSE fallback_lookup(c)

(* The connection gets its answer, or none, and the pass goes on.          *)
Settle(c, answer) ==
  /\ conn' = [conn EXCEPT ![c] = answer]
  /\ GoOn(todo \ {c})
  /\ cur' = NoConn /\ hit' = NoInfo /\ doomed' = {}

(* The cache within 2 seconds of a refresh, then eBPF, then the snapshot.  *)
Lookup(c, cacheFresh, map) ==
  IF cacheFresh /\ c \in DOMAIN cache
  THEN Settle(c, cache[c]) /\ UNCHANGED <<process_map, pid_names, cache>>
  ELSE IF lookup(map, c) # NoInfo
  THEN /\ pc' = "resolve" /\ cur' = c /\ hit' = lookup(map, c) /\ doomed' = {}
       /\ UNCHANGED <<todo, conn, process_map, pid_names, cache>>
  ELSE LET answer == ProcfsLookup(c)
       IN  /\ Settle(c, answer)
           /\ cache' = IF answer = NoInfo THEN cache ELSE Put(cache, c, answer)
           /\ UNCHANGED <<process_map, pid_names>>

Visit(c) ==
  /\ pc = "pass" /\ c \in todo
  /\ \E cacheFresh \in BOOLEAN : Lookup(c, cacheFresh, socket_map)
  /\ UNCHANGED <<socket_map, hostVars, listed>>

(* maybe_cleanup_ebpf_map, 30 seconds after the last time: the keys of the *)
(* stale entries are collected, and deleted when all are known.  Then the  *)
(* look-up goes on.                                                        *)
VisitAndCollect(c) ==
  /\ pc = "pass" /\ c \in todo
  /\ pc' = "delete" /\ cur' = c
  /\ doomed' = StaleKeys
  /\ UNCHANGED <<socket_map, hostVars, listed, cacheVars, todo, hit, conn>>

DeleteStale ==
  /\ pc = "delete"
  /\ socket_map' = Without(socket_map, doomed)
  /\ \E cacheFresh \in BOOLEAN : Lookup(cur, cacheFresh, socket_map')
  /\ UNCHANGED <<hostVars, listed>>

(* get_process_name_by_pid: the scanned name, else /proc/<pid>/comm, which *)
(* is remembered.  A process that is gone leaves the name of the entry.    *)
Resolve ==
  /\ pc = "resolve"
  /\ LET p == hit.pid
         n == IF p \in DOMAIN pid_names THEN pid_names[p]
              ELSE IF Live(p) THEN procs[p] ELSE hit.comm
     IN  /\ pid_names' = IF p \in DOMAIN pid_names \/ ~Live(p) THEN pid_names
                         ELSE Put(pid_names, p, procs[p])
         /\ cache' = Put(cache, cur, Answer(p, n))
         /\ Settle(cur, Answer(p, n))
  /\ UNCHANGED <<socket_map, hostVars, listed, process_map>>

-----------------------------------------------------------------------------
Enrichment == \/ LoopRefresh
              \/ \E full \in BOOLEAN : \/ LoopPass(full) \/ InstallSnapshot(full)
                                      \/ RefreshFails(full)
              \/ \E c \in Conns : Visit(c) \/ VisitAndCollect(c)
              \/ DeleteStale \/ Resolve

Host == \/ \E p \in Pids : Spawn(p)
        \/ \E p \in Pids : Exit(p) \/ CloseSockets(p)
        \/ \E p \in Pids, c \in Conns : Send(p, c) \/ Listen(p, c) \/ Accept(p, c)
        \/ Tick

Next == \/ Host \/ Enrichment
        \/ \E c \in Conns : Renew(c)

Spec == Init /\ [][Next]_vars

-----------------------------------------------------------------------------
(* What the theorems of ProcessLookupProofs take for granted.              *)

(* The addresses of a connection are specified, as those of a packet are   *)
(* except before a host has one.  A process could otherwise bind the very  *)
(* zero address that the relaxed keys of fallback_lookup stand for.        *)
Specified == \A c \in Conns : c.laddr # Zero(c.family) /\ c.raddr # Zero(c.family)

Addrs(family) ==
  {Zero(family)} \cup {c.laddr : c \in {d \in Conns : d.family = family}}
                 \cup {c.raddr : c \in {d \in Conns : d.family = family}}

(* No address in use is another one with the bytes of its words reversed:  *)
(* fill_v6, and on a big-endian host fill_v4 and parse_hex_address,        *)
(* confuse the two.                                                        *)
NoMirrors ==
  \A family \in {"v4", "v6"} :
    \A a \in Addrs(family), b \in Addrs(family) : SwapBytes(a) = b => a = b

-----------------------------------------------------------------------------
(* Properties.                                                             *)

(* A connection is attributed only to a process that has had a socket its  *)
(* packets could be sent from or delivered to, whatever the caches, stale  *)
(* entries and reused process ids the answer passed through.               *)
AttributionEarned ==
  \A c \in Conns :
    Attributed(c) => \E h \in held : h.pid = conn[c].pid /\ Covers(h.sock, c)

(* The name beside the process id is the name that process used the socket *)
(* under, unless the process id was reused or its owner exited while /proc *)
(* was scanned.  A thread's name never is.                                 *)
NameTrue ==
  \A c \in Conns :
    Attributed(c) =>
      \/ \E h \in held : /\ h.pid = conn[c].pid /\ h.name = conn[c].name
                         /\ Covers(h.sock, c)
      \/ conn[c].name \in named[conn[c].pid] /\ Cardinality(named[conn[c].pid]) > 1
      \/ conn[c].name = Unknown

(* What the probes noted for an IPv4 client is found by a look-up for its  *)
(* connection as long as it is in the map: the two sides build the same    *)
(* bytes.  An older exact entry may hide a newer one without source.       *)
ClientFound ==
  LittleEndian =>
    \A h \in held, c \in Conns \ Inbound :
      c.family = "v4" /\ h.sock = Opens(c) =>
        \A i \in DOMAIN SentKeys(h.sock, Exact(c)) :
          LET k == SentKeys(h.sock, Exact(c))[i]
          IN  k \in DOMAIN socket_map =>
                lookup(socket_map, c) =
                  socket_map[IF UserKey(c, c.laddr) \in DOMAIN socket_map
                             THEN UserKey(c, c.laddr) ELSE k]

(* "Clean up stale entries from the map based on timestamp": an entry that *)
(* is younger than the threshold is not taken for stale.                   *)
FreshEntryKept ==
  \A k \in doomed \cap DOMAIN socket_map :
    pc = "delete" => socket_map[k].timestamp + StaleThreshold < clock
=============================================================================
