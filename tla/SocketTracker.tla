--------------------------- MODULE SocketTracker ----------------------------
(***************************************************************************)
(* The eBPF socket tracker: the kernel programs of                         *)
(* ebpf/programs/socket_tracker.bpf.c, which note for every socket         *)
(* operation which process performs it, and the user-space side of         *)
(* ebpf/maps_libbpf.rs and ebpf/tracker_libbpf.rs, which looks the notes   *)
(* up.  The two sides meet in the bytes of a conn_key.                     *)
(*                                                                         *)
(* An address is a sequence of words, a word a sequence of bytes, both in  *)
(* network order: one word for IPv4, several for IPv6.  Ports are numbers: *)
(* both sides keep them in host order.  A socket is a record of what its   *)
(* struct sock holds; the operations of the host's processes on sockets    *)
(* are external.  Process names are numbers, another one for every process *)
(* that starts.                                                            *)
(***************************************************************************)
EXTENDS Naturals, Sequences, FiniteSets

CONSTANTS
  Pids,            \* process ids
  ThreadName,      \* the comm of a thread that is not the leader
  NoName,          \* the name of a process id that is not in use
  NoInfo,          \* no entry
  Zero4, Zero6,    \* the unspecified addresses
  Junk4,           \* what an IPv6 socket has in its IPv4 source field
  LittleEndian,    \* the byte order of the host
  MaxEntries,      \* MAX_ENTRIES, the capacity of socket_map
  StaleThreshold,  \* stale_threshold_secs
  BootTime,        \* the wall clock's seconds since the epoch at boot
  Attached,        \* whether the programs could be loaded and attached
  MaxTime          \* bound: seconds since boot

ASSUME SocketTrackerAssumption ==
  /\ LittleEndian \in BOOLEAN /\ Attached \in BOOLEAN
  /\ MaxEntries \in Nat /\ StaleThreshold \in Nat /\ BootTime \in Nat /\ MaxTime \in Nat
  /\ NoName \notin Nat /\ ThreadName \notin Nat /\ NoName # ThreadName
  /\ NoInfo \notin [pid : Pids, comm : Nat, timestamp : Nat]

VARIABLES
  procs,       \* external: the name of the process that has a process id
  clock,       \* external: seconds since boot
  socket_map   \* the BPF hash map

-----------------------------------------------------------------------------
(* struct conn_key, and struct conn_info less the uid, which nobody uses.  *)

Zero(family) == IF family = "v4" THEN Zero4 ELSE Zero6

ConnKey(saddr, daddr, sport, dport, proto, family) ==
  [saddr |-> saddr, daddr |-> daddr, sport |-> sport, dport |-> dport,
   proto |-> proto, family |-> family]

(* Faulty: the comm of the thread at hand.                                 *)
BugGetProcessInfo(p) == [pid |-> p, comm |-> ThreadName, timestamp |-> clock]

(* The thread group leader's comm, and the monotonic clock.                *)
get_process_info(p) == [pid |-> p, comm |-> procs[p], timestamp |-> clock]

(* bpf_map_update_elem with BPF_ANY: overwrites, and fails on a full map.  *)
UpdateElem(map, key, info) ==
  IF key \in DOMAIN map \/ Cardinality(DOMAIN map) < MaxEntries
  THEN [k \in DOMAIN map \cup {key} |-> IF k = key THEN info ELSE map[k]]
  ELSE map

Without(map, keys) == [k \in DOMAIN map \ keys |-> map[k]]

-----------------------------------------------------------------------------
(* The keys the probes read from a socket sk, and from the destination to  *)
(* of a message: msg_name, which is the socket's own where it is NULL.     *)

(* skc_rcv_saddr and skc_daddr of any socket.                              *)
V4Source(sk) == IF sk.family = "v4" THEN sk.laddr ELSE Junk4
V4Dest(sk) == IF sk.family = "v4" THEN sk.raddr ELSE Zero4

(* kprobe/tcp_connect: called for IPv4 and for IPv6 sockets alike.         *)
trace_tcp_connect(sk) ==
  <<ConnKey(V4Source(sk), V4Dest(sk), sk.lport, sk.rport, "tcp", "v4")>>

(* kprobe/inet_csk_accept: sk is the listening socket.                     *)
trace_tcp_accept(sk) ==
  <<ConnKey(V4Source(sk), V4Dest(sk), sk.lport, sk.rport, "tcp", "v4")>>

(* kprobe/udp_sendmsg                                                      *)
trace_udp_sendmsg(sk, to) ==
  IF to.raddr = Zero4 THEN <<>>
  ELSE <<ConnKey(sk.laddr, to.raddr, sk.lport, to.rport, "udp", "v4")>>

(* kprobe/tcp_v6_connect: on entry, before the kernel fills the socket in. *)
trace_tcp_v6_connect == <<ConnKey(Zero6, Zero6, 0, 0, "tcp", "v6")>>

(* kprobe/udpv6_sendmsg: the message's destination is not looked at.       *)
trace_udp_v6_sendmsg(sk) ==
  <<ConnKey(sk.laddr, sk.raddr, sk.lport, sk.rport, "udp", "v6")>>

(* kprobe/ping_v4_sendmsg                                                  *)
trace_ping_v4_sendmsg(sk, to) ==
  IF to.raddr = Zero4 THEN <<>>
  ELSE <<ConnKey(sk.laddr, to.raddr, sk.lport, 0, "icmp", "v4")>>

(* kprobe/ping_v6_sendmsg                                                  *)
trace_ping_v6_sendmsg(sk, to) ==
  <<ConnKey(sk.laddr, to.raddr, sk.lport, 0, "icmp", "v6")>>

(* The keys the probes of a client's operation write: connect, or sendmsg. *)
SentKeys(sk, to) ==
  CASE sk.proto = "tcp" /\ sk.family = "v4"  -> trace_tcp_connect(sk)
    [] sk.proto = "tcp" /\ sk.family = "v6"  -> trace_tcp_v6_connect \o trace_tcp_connect(sk)
    [] sk.proto = "udp" /\ sk.family = "v4"  -> trace_udp_sendmsg(sk, to)
    [] sk.proto = "udp" /\ sk.family = "v6"  -> trace_udp_v6_sendmsg(sk)
    [] sk.proto = "icmp" /\ sk.family = "v4" -> trace_ping_v4_sendmsg(sk, to)
    [] sk.proto = "icmp" /\ sk.family = "v6" -> trace_ping_v6_sendmsg(sk, to)

(* The map after process p's operation wrote those keys, one or two.       *)
MapAfter(keys, p) ==
  LET Put(map, k) == UpdateElem(map, k, get_process_info(p))
  IN  IF ~Attached \/ keys = <<>> THEN socket_map
      ELSE IF Len(keys) = 1 THEN Put(socket_map, keys[1])
      ELSE Put(Put(socket_map, keys[1]), keys[2])

-----------------------------------------------------------------------------
(* The keys user space asks for.  A u32 built from the bytes of a word is  *)
(* stored in the host's byte order, so one of the two conversions restores *)
(* the bytes of the word and the other one reverses them.                  *)

SwapBytes(addr) ==
  [w \in DOMAIN addr |-> [b \in DOMAIN addr[w] |-> addr[w][Len(addr[w]) + 1 - b]]]

(* Faulty: IPv4 converted as IPv6 is.                                      *)
BugFillV4(addr) == IF LittleEndian THEN SwapBytes(addr) ELSE addr

(* from_le_bytes *)
fill_v4(addr) == IF LittleEndian THEN addr ELSE SwapBytes(addr)

(* from_be_bytes *)
fill_v6(addr) == IF LittleEndian THEN SwapBytes(addr) ELSE addr

Fill(family, addr) == IF family = "v4" THEN fill_v4(addr) ELSE fill_v6(addr)

(* new_v4, new_v6, new_icmp_v4 and new_icmp_v6: the key of connection c as *)
(* sent from the local address laddr.                                      *)
UserKey(c, laddr) ==
  ConnKey(Fill(c.family, laddr), Fill(c.family, c.raddr), c.lport,
          IF c.proto = "icmp" THEN 0 ELSE c.rport, c.proto, c.family)

(* MapReader::lookup_connection                                            *)
lookup_connection(map, key) == IF key \in DOMAIN map THEN map[key] ELSE NoInfo

(* lookup and lookup_icmp: the exact key, then the one with source zero,   *)
(* which TCP and UDP over IPv6 do not try.                                 *)
lookup(map, c) ==
  LET exact == lookup_connection(map, UserKey(c, c.laddr))
      zeroSource == lookup_connection(map, UserKey(c, Zero(c.family)))
  IN  IF exact # NoInfo THEN exact
      ELSE IF c.family = "v6" /\ c.proto # "icmp" THEN NoInfo ELSE zeroSource

(* The entries cleanup_stale_entries takes for stale: the wall clock, less *)
(* the entry's monotonic timestamp and not less than zero.                 *)
StaleKeys ==
  {k \in DOMAIN socket_map :
     LET now == BootTime + clock
         then == socket_map[k].timestamp
     IN  (IF now > then THEN now - then ELSE 0) > StaleThreshold}
=============================================================================
