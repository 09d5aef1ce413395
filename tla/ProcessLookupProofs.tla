------------------------ MODULE ProcessLookupProofs -------------------------
(***************************************************************************)
(* For every number of processes and connections, for maps and caches of   *)
(* any size and for hosts of either byte order: a connection is attributed *)
(* to a process that held a socket for it, under a name of that process.   *)
(***************************************************************************)
EXTENDS ProcessLookup, FiniteSetTheorems, SequenceTheorems, TLAPS

(* An answer is earned when its process held a socket for the connection   *)
(* and the name is one the process id has had, or unknown.                 *)
Earned(a, c) ==
  \E h \in held : /\ h.pid = a.pid /\ Covers(h.sock, c)
                  /\ a.name \in named[a.pid] \cup {Unknown}

(* The keys lookup asks the socket map for.                                *)
Tried(c) ==
  {UserKey(c, c.laddr)} \cup
    IF c.family = "v6" /\ c.proto # "icmp" THEN {} ELSE {UserKey(c, Zero(c.family))}

HostInv ==
  /\ started \in Nat /\ clock \in Nat
  /\ procs \in [Pids -> Nat \cup {NoName}]
  /\ named \in [Pids -> SUBSET Nat]
  /\ \A p \in Pids : named[p] \subseteq 1..started
  /\ \A p \in Pids : Live(p) => procs[p] \in named[p]
  /\ sockets \subseteq held
  /\ \A s \in sockets : s.pid \in Pids /\ Live(s.pid)
  /\ \A h \in held : /\ h.pid \in Pids /\ h.name \in named[h.pid]
                     /\ \E d \in Conns : Covers(h.sock, d)

(* An entry that a look-up for c would find is a note about a socket that  *)
(* covers c.                                                               *)
NotedBy(info, c) ==
  \E h \in held : h.pid = info.pid /\ h.name = info.comm /\ Covers(h.sock, c)

MapInv ==
  /\ \A k \in DOMAIN socket_map :
       socket_map[k] \in [pid : Pids, comm : Nat, timestamp : Nat]
  /\ \A c \in Conns : \A k \in Tried(c) \cap DOMAIN socket_map : NotedBy(socket_map[k], c)

(* The snapshot of /proc and the names hold what was read of processes.    *)
ScanInv ==
  /\ listed \subseteq Pids
  /\ \A k \in DOMAIN process_map :
       \E h \in held : ConnectionKey(h.sock) = k /\ process_map[k] = Answer(h.pid, h.name)
  /\ DOMAIN pid_names \subseteq Pids
  /\ \A p \in DOMAIN pid_names : pid_names[p] \in named[p] \cup {Unknown}

(* What the enrichment thread has in hand, and what it has answered.       *)
AnswerInv ==
  /\ todo \subseteq Conns
  /\ pc \in {"delete", "resolve"} => cur \in Conns
  /\ pc = "resolve" => NotedBy(hit, cur)
  /\ \A c \in DOMAIN cache : Earned(cache[c], c)
  /\ conn = [c \in Conns |-> conn[c]]
  /\ \A c \in Conns : Attributed(c) => Earned(conn[c], c)

-----------------------------------------------------------------------------
(* The keys of the two sides.                                              *)

(* A socket for d, field by field.                                         *)
LEMMA CoverFields ==
  ASSUME NEW s, NEW d \in Conns, Covers(s, d)
  PROVE  /\ s.family = d.family /\ s.proto = d.proto /\ s.lport = d.lport
         /\ \/ s = Exact(d) /\ s.laddr = d.laddr /\ s.raddr = d.raddr /\ s.rport = d.rport
            \/ s = Bound(d) /\ s.laddr = d.laddr /\ s.raddr = Zero(d.family) /\ s.rport = 0
            \/ s = Wildcard(d) /\ s.laddr = Zero(d.family) /\ s.raddr = Zero(d.family)
               /\ s.rport = 0
BY DEF Covers, Exact, Bound, Wildcard, Socket

(* A socket for d that agrees with c on what it fixes is one for c.        *)
LEMMA CoverSame ==
  ASSUME NEW s, NEW c \in Conns, NEW d \in Conns, Covers(s, d),
         c.family = d.family, c.proto = d.proto, c.lport = d.lport,
         \/ s = Exact(d) /\ c.laddr = d.laddr /\ c.raddr = d.raddr /\ c.rport = d.rport
         \/ s = Bound(d) /\ c.laddr = d.laddr
         \/ s = Wildcard(d)
  PROVE  Covers(s, c)
BY DEF Covers, Exact, Bound, Wildcard, Socket

LEMMA OpensCovers ==
  ASSUME NEW c \in Conns
  PROVE  Covers(Opens(c), c) /\ Covers(Exact(c), c)
BY ProcessLookupAssumption DEF Opens, Covers

(* The conversions keep two addresses in use apart.                        *)
LEMMA ConversionsInjective ==
  ASSUME NoMirrors, NEW c \in Conns, NEW a \in Addrs(c.family), NEW b \in Addrs(c.family)
  PROVE  /\ Fill(c.family, a) = b => a = b
         /\ parse_hex_address(a) = b => a = b
<1>1. c.family \in {"v4", "v6"}
  BY ConnsAssumption
<1>2. SwapBytes(a) = b => a = b
  BY <1>1 DEF NoMirrors
<1> QED BY <1>2 DEF Fill, fill_v4, fill_v6, parse_hex_address

LEMMA AddrsOf ==
  ASSUME NEW c \in Conns
  PROVE  c.laddr \in Addrs(c.family) /\ c.raddr \in Addrs(c.family)
         /\ Zero(c.family) \in Addrs(c.family)
BY DEF Addrs

(* A key that was tried for c has c's ports, and where its addresses are   *)
(* addresses in use they are c's, with or without the source.              *)
LEMMA TriedFields ==
  ASSUME NoMirrors, NEW c \in Conns, NEW k \in Tried(c)
  PROVE  /\ k.family = c.family /\ k.proto = c.proto /\ k.sport = c.lport
         /\ k.dport = IF c.proto = "icmp" THEN 0 ELSE c.rport
         /\ k.daddr \in Addrs(c.family) => k.daddr = c.raddr
         /\ k.saddr \in Addrs(c.family) => k.saddr \in {c.laddr, Zero(c.family)}
<1>1. PICK a \in {c.laddr, Zero(c.family)} : k = UserKey(c, a)
  BY DEF Tried
<1>2. k.daddr = Fill(c.family, c.raddr) /\ k.saddr = Fill(c.family, a)
  BY <1>1 DEF UserKey, ConnKey
<1>3. /\ k.daddr \in Addrs(c.family) => k.daddr = c.raddr
      /\ k.saddr \in Addrs(c.family) => k.saddr = a
  BY <1>2, AddrsOf, ConversionsInjective
<1> QED BY <1>1, <1>3 DEF UserKey, ConnKey

(* The probe of connect and accept: a key with the socket's destination.   *)
LEMMA ConnectCovers ==
  ASSUME Specified, NoMirrors, NEW c \in Conns, NEW d \in Conns, NEW s, Covers(s, d),
         d.proto = "tcp",
         ConnKey(V4Source(s), V4Dest(s), s.lport, s.rport, "tcp", "v4") \in Tried(c)
  PROVE  Covers(s, c) /\ Covers(Exact(d), c)
<1>1. /\ c.family = "v4" /\ c.proto = "tcp" /\ c.lport = s.lport /\ c.rport = s.rport
      /\ V4Dest(s) \in Addrs(c.family) => V4Dest(s) = c.raddr
      /\ V4Source(s) \in Addrs(c.family) => V4Source(s) \in {c.laddr, Zero(c.family)}
  BY TriedFields DEF ConnKey
<1>2. V4Dest(s) # Zero("v4")
  BY <1>1, AddrsOf DEF Specified
<1>3. s.family = "v4" /\ s.raddr # Zero("v4")
  BY <1>2 DEF V4Dest, Zero
<1>4. d.family = "v4" /\ s = Exact(d) /\ s.laddr = d.laddr /\ s.raddr = d.raddr
      /\ s.rport = d.rport /\ s.lport = d.lport
  BY <1>3, CoverFields
<1>5. c.raddr = d.raddr /\ c.laddr = d.laddr
  BY <1>1, <1>3, <1>4, AddrsOf DEF V4Dest, V4Source, Specified
<1> QED BY <1>1, <1>4, <1>5, CoverSame, OpensCovers

(* The probe of sendmsg: a key with the destination of the message.        *)
LEMMA SendmsgCovers ==
  ASSUME Specified, NoMirrors, NEW c \in Conns, NEW d \in Conns, NEW s, Covers(s, d),
         NEW rport, rport = IF d.proto = "icmp" THEN 0 ELSE d.rport,
         ConnKey(s.laddr, d.raddr, s.lport, rport, d.proto, d.family) \in Tried(c)
  PROVE  Covers(s, c)
<1>1. /\ c.family = d.family /\ c.proto = d.proto /\ c.lport = s.lport
      /\ rport = IF c.proto = "icmp" THEN 0 ELSE c.rport
      /\ d.raddr \in Addrs(c.family) => d.raddr = c.raddr
      /\ s.laddr \in Addrs(c.family) => s.laddr \in {c.laddr, Zero(c.family)}
  BY TriedFields DEF ConnKey
<1>2. c.rport = d.rport
  BY <1>1, ConnsAssumption
<1>3. d.raddr = c.raddr
  BY <1>1, AddrsOf
<1>4. s.laddr \in {c.laddr, Zero(c.family)}
  BY <1>1, AddrsOf, CoverFields
<1>5. CASE s = Wildcard(d)
  BY <1>5, <1>1, CoverFields, CoverSame
<1>6. CASE s # Wildcard(d)
  <2>1. s.laddr = d.laddr
    BY <1>6, CoverFields
  <2>2. c.laddr = d.laddr
    BY <1>1, <1>4, <2>1 DEF Specified
  <2> QED BY <1>1, <1>2, <1>3, <1>6, <2>2, CoverFields, CoverSame
<1> QED BY <1>5, <1>6

(* The probe of an IPv6 sendmsg: a key with the socket's destination.      *)
LEMMA Sendmsg6Covers ==
  ASSUME Specified, NoMirrors, NEW c \in Conns, NEW d \in Conns, NEW s, Covers(s, d),
         d.proto = "udp",
         ConnKey(s.laddr, s.raddr, s.lport, s.rport, "udp", d.family) \in Tried(c)
  PROVE  Covers(s, c)
<1>1. /\ c.family = d.family /\ c.proto = "udp" /\ c.lport = s.lport /\ c.rport = s.rport
      /\ s.raddr \in Addrs(c.family) => s.raddr = c.raddr
      /\ s.laddr \in Addrs(c.family) => s.laddr \in {c.laddr, Zero(c.family)}
  BY TriedFields DEF ConnKey
<1>2. s.raddr # Zero(d.family)
  BY <1>1, AddrsOf DEF Specified
<1>3. s = Exact(d) /\ s.laddr = d.laddr /\ s.raddr = d.raddr /\ s.rport = d.rport
      /\ s.lport = d.lport
  BY <1>2, CoverFields
<1>4. c.raddr = d.raddr /\ c.laddr = d.laddr
  BY <1>1, <1>3, AddrsOf DEF Specified
<1> QED BY <1>1, <1>3, <1>4, CoverSame

LEMMA PairOfKeys ==
  ASSUME NEW x, NEW y
  PROVE  <<x>> \o <<y>> = <<x, y>>
<1>1. <<x>> \in Seq({x, y}) /\ <<y>> \in Seq({x, y}) /\ <<x, y>> \in Seq({x, y})
  OBVIOUS
<1>2. /\ <<x>> \o <<y>> \in Seq({x, y}) /\ Len(<<x>> \o <<y>>) = 2
      /\ (<<x>> \o <<y>>)[1] = x /\ (<<x>> \o <<y>>)[2] = y
  BY <1>1, ConcatProperties
<1>3. Len(<<x, y>>) = 2 /\ <<x, y>>[1] = x /\ <<x, y>>[2] = y
  OBVIOUS
<1>4. Len(<<x>> \o <<y>>) = Len(<<x, y>>)
  BY <1>2, <1>3
<1>5. \A j \in 1..Len(<<x>> \o <<y>>) : (<<x>> \o <<y>>)[j] = <<x, y>>[j]
  BY <1>2, <1>3
<1> QED BY ONLY <1>1, <1>2, <1>4, <1>5, SeqEqual, Zenon

(* Whatever a probe of a client writes for its connection d, a look-up     *)
(* for another connection c finds it only if the socket covers c, too.     *)
LEMMA SentCovers ==
  ASSUME Specified, NoMirrors, NEW c \in Conns, NEW d \in Conns, NEW s, Covers(s, d),
         NEW i \in DOMAIN SentKeys(s, Exact(d)), SentKeys(s, Exact(d))[i] \in Tried(c)
  PROVE  Covers(s, c)
<1>f. /\ s.family = d.family /\ s.proto = d.proto
      /\ s.family \in {"v4", "v6"} /\ s.proto \in {"tcp", "udp", "icmp"}
  BY CoverFields, ConnsAssumption
<1>t. Exact(d).raddr = d.raddr /\ Exact(d).rport = d.rport
  BY DEF Exact, Socket
<1>1. CASE s.proto = "tcp" /\ s.family = "v4"
  <2>1. SentKeys(s, Exact(d))[i]
          = ConnKey(V4Source(s), V4Dest(s), s.lport, s.rport, "tcp", "v4")
    BY <1>1 DEF SentKeys, trace_tcp_connect
  <2> QED BY <2>1, <1>1, <1>f, ConnectCovers
<1>2. CASE s.proto = "tcp" /\ s.family = "v6"
  <2>1. SentKeys(s, Exact(d)) =
          <<ConnKey(Zero6, Zero6, 0, 0, "tcp", "v6"),
            ConnKey(V4Source(s), V4Dest(s), s.lport, s.rport, "tcp", "v4")>>
    <3>1. SentKeys(s, Exact(d)) = trace_tcp_v6_connect \o trace_tcp_connect(s)
      BY <1>2 DEF SentKeys
    <3> QED BY <3>1, PairOfKeys DEF trace_tcp_connect, trace_tcp_v6_connect
  <2>2. ConnKey(Zero6, Zero6, 0, 0, "tcp", "v6") \notin Tried(c)
    <3> SUFFICES ASSUME ConnKey(Zero6, Zero6, 0, 0, "tcp", "v6") \in Tried(c)
                 PROVE  FALSE
      OBVIOUS
    <3>1. c.family = "v6" /\ (Zero6 \in Addrs(c.family) => Zero6 = c.raddr)
      BY TriedFields DEF ConnKey
    <3> QED BY <3>1, AddrsOf DEF Specified, Zero
  <2>3. i \in {1, 2}
    BY <2>1
  <2> QED BY <2>1, <2>2, <2>3, <1>2, <1>f, ConnectCovers
<1>3. CASE s.proto = "udp" /\ s.family = "v4"
  <2>1. SentKeys(s, Exact(d))[i] = ConnKey(s.laddr, d.raddr, s.lport, d.rport, "udp", "v4")
    BY <1>3, <1>t DEF SentKeys, trace_udp_sendmsg
  <2> QED BY <2>1, <1>3, <1>f, SendmsgCovers
<1>4. CASE s.proto = "udp" /\ s.family = "v6"
  <2>1. SentKeys(s, Exact(d))[i] = ConnKey(s.laddr, s.raddr, s.lport, s.rport, "udp", "v6")
    BY <1>4 DEF SentKeys, trace_udp_v6_sendmsg
  <2> QED BY <2>1, <1>4, <1>f, Sendmsg6Covers
<1>5. CASE s.proto = "icmp"
  <2>1. SentKeys(s, Exact(d))[i] = ConnKey(s.laddr, d.raddr, s.lport, 0, "icmp", s.family)
    BY <1>5, <1>f, <1>t DEF SentKeys, trace_ping_v4_sendmsg, trace_ping_v6_sendmsg
  <2> QED BY <2>1, <1>5, <1>f, SendmsgCovers
<1> QED BY <1>f, <1>1, <1>2, <1>3, <1>4, <1>5

(* The snapshot's key of a socket is the socket itself, as far as the keys *)
(* asked for are concerned.                                                *)
LEMMA ScannedCovers ==
  ASSUME Specified, NoMirrors, NEW c \in Conns, NEW d \in Conns, NEW s, Covers(s, d),
         ConnectionKey(s) \in Candidates(c) \cup {Exact(c)}
  PROVE  Covers(s, c)
<1>1. ConnectionKey(s)
        = Socket(d, parse_hex_address(s.laddr), parse_hex_address(s.raddr), s.rport)
  BY CoverFields DEF ConnectionKey, Socket
<1>2. PICK la, ra, rp : /\ ConnectionKey(s) = Socket(c, la, ra, rp)
                        /\ \/ la = c.laddr /\ ra = c.raddr /\ rp = c.rport
                           \/ la = c.laddr /\ ra = Zero(c.family) /\ rp = 0
                           \/ la = Zero(c.family) /\ ra = c.raddr /\ rp = c.rport
                           \/ la = Zero(c.family) /\ ra = Zero(c.family) /\ rp = 0
  BY DEF Candidates, Exact, Bound, Wildcard
<1>3. /\ c.family = d.family /\ c.proto = d.proto /\ c.lport = d.lport
      /\ parse_hex_address(s.laddr) = la /\ parse_hex_address(s.raddr) = ra /\ s.rport = rp
  BY <1>1, <1>2 DEF Socket
<1>4. /\ s.laddr \in Addrs(c.family) /\ s.raddr \in Addrs(c.family)
      /\ la \in Addrs(c.family) /\ ra \in Addrs(c.family)
  BY <1>2, <1>3, CoverFields, AddrsOf
<1>5. s.laddr = la /\ s.raddr = ra
  BY <1>3, <1>4, ConversionsInjective
<1> QED BY <1>2, <1>3, <1>5, CoverFields, CoverSame DEF Specified

(* lookup answers from one of the keys it tries.                           *)
LEMMA LookupFinds ==
  ASSUME NEW map, NEW c, lookup(map, c) # NoInfo
  PROVE  \E k \in Tried(c) \cap DOMAIN map : lookup(map, c) = map[k]
BY DEF lookup, lookup_connection, Tried

(* As many keys as the probes of one operation write.                      *)
Few(keys) == \/ keys = <<>>
             \/ Len(keys) \in {1, 2} /\ DOMAIN keys = 1..Len(keys)

(* The map's entries after an operation are old ones or about p.           *)
LEMMA MapAfterEntries ==
  ASSUME NEW keys, Few(keys), NEW p,
         NEW k \in DOMAIN MapAfter(keys, p)
  PROVE  \/ k \in DOMAIN socket_map /\ MapAfter(keys, p)[k] = socket_map[k]
         \/ /\ \E i \in DOMAIN keys : k = keys[i]
            /\ MapAfter(keys, p)[k] = get_process_info(p)
<1>1. ASSUME NEW map, NEW key, NEW info, NEW x \in DOMAIN UpdateElem(map, key, info)
      PROVE  \/ x \in DOMAIN map /\ UpdateElem(map, key, info)[x] = map[x]
             \/ x = key /\ UpdateElem(map, key, info)[x] = info
  BY DEF UpdateElem
<1>2. CASE ~Attached \/ keys = <<>>
  BY <1>2 DEF MapAfter
<1>3. CASE Attached /\ keys # <<>> /\ Len(keys) = 1
  BY <1>1, <1>3 DEF MapAfter
<1>4. CASE Attached /\ keys # <<>> /\ Len(keys) = 2
  <2> DEFINE m == UpdateElem(socket_map, keys[1], get_process_info(p))
  <2>1. MapAfter(keys, p) = UpdateElem(m, keys[2], get_process_info(p))
    BY <1>4 DEF MapAfter
  <2>2. \/ k \in DOMAIN m /\ MapAfter(keys, p)[k] = m[k]
        \/ k = keys[2] /\ MapAfter(keys, p)[k] = get_process_info(p)
    BY <1>1, <2>1
  <2>3. k \in DOMAIN m => \/ k \in DOMAIN socket_map /\ m[k] = socket_map[k]
                          \/ k = keys[1] /\ m[k] = get_process_info(p)
    BY <1>1
  <2> QED BY <2>2, <2>3, <1>4 DEF Few
<1> QED BY <1>2, <1>3, <1>4 DEF Few

-----------------------------------------------------------------------------
(* The host's steps.                                                       *)

(* A use of a socket: the process is live, the socket covers a connection, *)
(* and the keys written lead to it only from connections it covers.        *)
UseOf(p, s, keys) ==
  /\ Use(p, s, keys) /\ Live(p)
  /\ \E d \in Conns : Covers(s, d)
  /\ Few(keys)
  /\ \A c \in Conns : \A i \in DOMAIN keys : keys[i] \in Tried(c) => Covers(s, c)

LEMMA KeysShape ==
  ASSUME NEW s, NEW d \in Conns, Covers(s, d)
  PROVE  Few(SentKeys(s, Exact(d))) /\ Few(trace_tcp_accept(s)) /\ Few(<<>>)
<1> USE DEF Few
<1>1. s.family \in {"v4", "v6"} /\ s.proto \in {"tcp", "udp", "icmp"}
  BY CoverFields, ConnsAssumption
<1>2. CASE s.proto = "tcp" /\ s.family = "v6"
  <2>1. SentKeys(s, Exact(d)) = trace_tcp_v6_connect \o trace_tcp_connect(s)
    BY <1>2 DEF SentKeys
  <2>2. \E x, y : SentKeys(s, Exact(d)) = <<x, y>>
    BY <2>1, PairOfKeys DEF trace_tcp_v6_connect, trace_tcp_connect
  <2> QED BY <2>2 DEF trace_tcp_accept
<1>3. CASE ~(s.proto = "tcp" /\ s.family = "v6")
  <2>1. \/ SentKeys(s, Exact(d)) = <<>>
        \/ \E k : SentKeys(s, Exact(d)) = <<k>>
    BY <1>1, <1>3 DEF SentKeys, trace_tcp_connect, trace_udp_sendmsg, trace_udp_v6_sendmsg,
                      trace_ping_v4_sendmsg, trace_ping_v6_sendmsg
  <2> QED BY <2>1 DEF trace_tcp_accept
<1> QED BY <1>2, <1>3

LEMMA UseFacts ==
  ASSUME Specified, NoMirrors, HostInv, NEW p \in Pids, NEW d \in Conns,
         Send(p, d) \/ Listen(p, d) \/ Accept(p, d)
  PROVE  \E s, keys : UseOf(p, s, keys)
<1>c. Covers(Opens(d), d) /\ Covers(Exact(d), d)
  BY OpensCovers
<1>1. CASE Send(p, d)
  <2>1. \A c \in Conns : \A i \in DOMAIN SentKeys(Opens(d), Exact(d)) :
          SentKeys(Opens(d), Exact(d))[i] \in Tried(c) => Covers(Opens(d), c)
    BY <1>c, SentCovers
  <2>2. UseOf(p, Opens(d), SentKeys(Opens(d), Exact(d)))
    BY <1>1, <1>c, <2>1, KeysShape DEF Send, UseOf
  <2> QED BY <2>2
<1>2. CASE Listen(p, d)
  <2>1. UseOf(p, Opens(d), <<>>)
    BY <1>2, <1>c, KeysShape DEF Listen, UseOf
  <2> QED BY <2>1
<1>3. CASE Accept(p, d)
  <2>1. d \in Inbound /\ d.proto = "tcp"
    BY <1>3, ConnsAssumption DEF Accept
  <2>2. Live(p) /\ Use(p, Exact(d), trace_tcp_accept(Opens(d)))
    BY <1>3 DEF Accept, HostInv
  <2>3. \A c \in Conns : \A i \in DOMAIN trace_tcp_accept(Opens(d)) :
          trace_tcp_accept(Opens(d))[i] \in Tried(c) => Covers(Exact(d), c)
    BY <1>c, <2>1, ConnectCovers DEF trace_tcp_accept
  <2>4. UseOf(p, Exact(d), trace_tcp_accept(Opens(d)))
    BY <2>2, <2>3, <1>c, KeysShape DEF UseOf
  <2> QED BY <2>4
<1> QED BY <1>1, <1>2, <1>3

(* A step of the host moves nothing of the enrichment thread's.            *)
LEMMA HostFrame ==
  Host => UNCHANGED <<pc, listed, cacheVars, passVars, conn>>
<1>1. (\E p \in Pids : Spawn(p) \/ Exit(p) \/ CloseSockets(p)) \/ Tick
        => UNCHANGED <<pc, listed, cacheVars, passVars, conn>>
  BY DEF Spawn, Exit, CloseSockets, Tick
<1>2. \A p, s, keys : Use(p, s, keys) => UNCHANGED <<pc, listed, cacheVars, passVars, conn>>
  BY DEF Use
<1>3. (\E p \in Pids, c \in Conns : Send(p, c) \/ Listen(p, c) \/ Accept(p, c))
        => UNCHANGED <<pc, listed, cacheVars, passVars, conn>>
  BY <1>2 DEF Send, Listen, Accept
<1> QED BY <1>1, <1>3 DEF Host

(* A step of the enrichment thread moves nothing of the host's.            *)
LEMMA EnrichmentFrame ==
  Enrichment => UNCHANGED hostVars
<1>1. LoopRefresh \/ (\E full \in BOOLEAN : LoopPass(full) \/ RefreshFails(full))
        => UNCHANGED hostVars
  BY DEF LoopRefresh, LoopPass, RefreshFails
<1>2. (\E full \in BOOLEAN : InstallSnapshot(full)) => UNCHANGED hostVars
  BY DEF InstallSnapshot
<1>3. DeleteStale \/ (\E c \in Conns : Visit(c) \/ VisitAndCollect(c)) => UNCHANGED hostVars
  BY DEF Visit, VisitAndCollect, DeleteStale
<1>4. Resolve => UNCHANGED hostVars
  BY DEF Resolve
<1> QED BY <1>1, <1>2, <1>3, <1>4 DEF Enrichment

LEMMA HostInit == Init => HostInv
BY DEF Init, HostInv, Live

LEMMA HostNext == Specified /\ NoMirrors /\ HostInv /\ [Next]_vars => HostInv'
<1> SUFFICES ASSUME Specified, NoMirrors, HostInv, [Next]_vars PROVE HostInv'
  OBVIOUS
<1>1. ASSUME NEW p \in Pids, Spawn(p) PROVE HostInv'
  <2>1. started' \in Nat /\ started' = started + 1 /\ clock' \in Nat
    BY <1>1 DEF Spawn, HostInv
  <2>2. /\ procs' \in [Pids -> Nat \cup {NoName}] /\ named' \in [Pids -> SUBSET Nat]
        /\ \A q \in Pids : named[q] \subseteq named'[q]
        /\ \A q \in Pids : named'[q] \subseteq 1..started'
    BY <1>1, <2>1 DEF Spawn, HostInv
  <2>3. \A q \in Pids : /\ Live(q)' => procs'[q] \in named'[q]
                        /\ Live(q) => Live(q)'
    BY <1>1, SocketTrackerAssumption DEF Spawn, HostInv, Live
  <2>4. sockets' = sockets /\ held' = held
    BY <1>1 DEF Spawn
  <2> QED BY <2>1, <2>2, <2>3, <2>4 DEF HostInv, Covers
<1>2. ASSUME NEW p \in Pids, Exit(p) \/ CloseSockets(p) PROVE HostInv'
  BY <1>2 DEF Exit, CloseSockets, HostInv, Live, Covers
<1>3. CASE Tick
  BY <1>3 DEF Tick, HostInv, Live, Covers
<1>4. ASSUME NEW p \in Pids, NEW c \in Conns, Send(p, c) \/ Listen(p, c) \/ Accept(p, c)
      PROVE  HostInv'
  <2>1. PICK s, keys : UseOf(p, s, keys)
    BY <1>4, UseFacts
  <2> DEFINE mine == [pid |-> p, name |-> procs[p], sock |-> s]
  <2>2. /\ sockets' = sockets \cup {mine} /\ held' = held \cup {mine}
        /\ UNCHANGED <<procs, clock, started, named>>
    BY <2>1 DEF UseOf, Use
  <2>3. /\ mine.pid \in Pids /\ Live(mine.pid) /\ mine.name \in named[mine.pid]
        /\ \E d \in Conns : Covers(mine.sock, d)
    BY <2>1 DEF UseOf, HostInv
  <2> QED BY <2>2, <2>3 DEF HostInv, Live, Covers
<1>5. CASE Enrichment \/ UNCHANGED vars \/ \E c \in Conns : Renew(c)
  <2>1. UNCHANGED hostVars
    BY <1>5, EnrichmentFrame DEF vars, Renew
  <2> QED BY <2>1 DEF hostVars, HostInv, Live, Covers
<1> QED BY <1>1, <1>2, <1>3, <1>4, <1>5 DEF Next, Host

(* What was held and named stays so: notes and answers stay earned.        *)
LEMMA HistoryGrows ==
  ASSUME Specified, NoMirrors, HostInv, [Next]_vars
  PROVE  held \subseteq held' /\ \A p \in Pids : named[p] \subseteq named'[p]
<1>1. ASSUME NEW p \in Pids, NEW c \in Conns, Send(p, c) \/ Listen(p, c) \/ Accept(p, c)
      PROVE  held \subseteq held' /\ named' = named
  BY <1>1 DEF Send, Listen, Accept, Use
<1>2. ASSUME NEW p \in Pids, Spawn(p)
      PROVE  held' = held /\ \A q \in Pids : named[q] \subseteq named'[q]
  BY <1>2 DEF Spawn, HostInv
<1>3. ASSUME NEW p \in Pids, Exit(p) \/ CloseSockets(p) \/ Tick
      PROVE  held' = held /\ named' = named
  BY <1>3 DEF Exit, CloseSockets, Tick
<1>4. CASE Tick \/ Enrichment \/ UNCHANGED vars \/ \E c \in Conns : Renew(c)
  BY <1>4, EnrichmentFrame DEF Tick, vars, Renew, hostVars
<1> QED BY <1>1, <1>2, <1>3, <1>4 DEF Next, Host

LEMMA EarnedStays ==
  ASSUME Specified, NoMirrors, HostInv, [Next]_vars
  PROVE  /\ \A a, c : Earned(a, c) => Earned(a, c)'
         /\ \A i, c : NotedBy(i, c) => NotedBy(i, c)'
BY HistoryGrows DEF HostInv, Earned, NotedBy, Covers

-----------------------------------------------------------------------------
(* The socket map.                                                         *)
LEMMA MapInit == Init => MapInv
BY DEF Init, MapInv, Empty

LEMMA MapNext == Specified /\ NoMirrors /\ HostInv /\ MapInv /\ [Next]_vars => MapInv'
<1> SUFFICES ASSUME Specified, NoMirrors, HostInv, MapInv, [Next]_vars PROVE MapInv'
  OBVIOUS
<1>t. \A c \in Conns : Tried(c)' = Tried(c)
  BY DEF Tried, UserKey, ConnKey, Fill, fill_v4, fill_v6
<1>1. ASSUME NEW p \in Pids, NEW d \in Conns, Send(p, d) \/ Listen(p, d) \/ Accept(p, d)
      PROVE  MapInv'
  <2>1. PICK s, keys : UseOf(p, s, keys)
    BY <1>1, UseFacts
  <2> DEFINE mine == [pid |-> p, name |-> procs[p], sock |-> s]
             info == get_process_info(p)
  <2>2. mine \in held' /\ socket_map' = MapAfter(keys, p)
    BY <2>1 DEF UseOf, Use
  <2>3. info \in [pid : Pids, comm : Nat, timestamp : Nat]
    BY <2>1 DEF UseOf, HostInv, Live, get_process_info
  <2>4. \A k \in DOMAIN socket_map' :
          \/ k \in DOMAIN socket_map /\ socket_map'[k] = socket_map[k]
          \/ (\E i \in DOMAIN keys : k = keys[i]) /\ socket_map'[k] = info
    <3>1. Few(keys)
      BY <2>1 DEF UseOf
    <3>2. \A k \in DOMAIN MapAfter(keys, p) :
            \/ k \in DOMAIN socket_map /\ MapAfter(keys, p)[k] = socket_map[k]
            \/ (\E i \in DOMAIN keys : k = keys[i]) /\ MapAfter(keys, p)[k] = info
      BY <3>1, MapAfterEntries
    <3> QED BY <3>2, <2>2
  <2>5. ASSUME NEW c \in Conns, NEW k \in Tried(c) \cap DOMAIN socket_map'
        PROVE  NotedBy(socket_map[k], c)'
    <3>1. CASE k \in DOMAIN socket_map /\ socket_map'[k] = socket_map[k]
      <4>1. NotedBy(socket_map[k], c)
        BY <3>1, <2>5 DEF MapInv
      <4>2. NotedBy(socket_map[k], c) => NotedBy(socket_map[k], c)'
        BY <3>1, HistoryGrows DEF NotedBy, Covers
      <4> QED BY <4>1, <4>2
    <3>2. CASE (\E i \in DOMAIN keys : k = keys[i]) /\ socket_map'[k] = info
      <4>1. Covers(s, c)
        BY <3>2, <2>1, <2>5 DEF UseOf
      <4>2. mine.pid = info.pid /\ mine.name = info.comm /\ mine.sock = s
        BY DEF get_process_info
      <4> HIDE DEF mine, info
      <4> QED BY <3>2, <4>1, <4>2, <2>2 DEF NotedBy, Covers
    <3> QED BY <2>4, <2>5, <3>1, <3>2
  <2>6. \A k \in DOMAIN socket_map' :
          socket_map'[k] \in [pid : Pids, comm : Nat, timestamp : Nat]
    <3> HIDE DEF info
    <3> QED BY <2>3, <2>4 DEF MapInv
  <2> QED BY <2>5, <2>6, <1>t DEF MapInv
<1>2. CASE ~ \E p \in Pids, c \in Conns : Send(p, c) \/ Listen(p, c) \/ Accept(p, c)
  <2>1. \A k \in DOMAIN socket_map' : k \in DOMAIN socket_map /\ socket_map'[k] = socket_map[k]
    BY <1>2 DEF Next, vars, Host, Spawn, Exit, CloseSockets, Tick, Renew, Enrichment,
         LoopRefresh, LoopPass, InstallSnapshot, RefreshFails, Visit, VisitAndCollect,
         DeleteStale, Resolve, Without
  <2>2. ASSUME NEW c \in Conns, NEW k \in Tried(c) \cap DOMAIN socket_map'
        PROVE  NotedBy(socket_map[k], c)'
    <3>1. NotedBy(socket_map[k], c) /\ socket_map'[k] = socket_map[k]
      BY <2>1, <2>2 DEF MapInv
    <3> QED BY <3>1, HistoryGrows DEF NotedBy, Covers
  <2>3. \A k \in DOMAIN socket_map' :
          socket_map'[k] \in [pid : Pids, comm : Nat, timestamp : Nat]
    BY <2>1 DEF MapInv
  <2> QED BY <2>2, <2>3, <1>t DEF MapInv
<1> QED BY <1>1, <1>2

-----------------------------------------------------------------------------
(* The snapshot of /proc and the names of processes.                       *)
LEMMA ScanInit == Init => ScanInv
BY DEF Init, ScanInv, Empty

LEMMA ScanNext ==
  ASSUME Specified, NoMirrors, HostInv, AnswerInv, ScanInv, [Next]_vars
  PROVE  ScanInv'
<1>g. held \subseteq held' /\ \A p \in Pids : named[p] \subseteq named'[p]
  BY HistoryGrows
<1>1. ASSUME NEW full \in BOOLEAN, InstallSnapshot(full) PROVE ScanInv'
  <2>f. held' = held /\ named' = named /\ listed' = {}
    BY <1>1 DEF InstallSnapshot, hostVars
  <2>1. \A k \in DOMAIN process_map' :
          \E h \in held : ConnectionKey(h.sock) = k /\ process_map'[k] = Answer(h.pid, h.name)
    <3>1. process_map' \in ProcessMaps
      BY <1>1 DEF InstallSnapshot
    <3>2. \A m \in ProcessMaps : \A k \in DOMAIN m :
            \E s \in sockets : ConnectionKey(s.sock) = k /\ Answer(s.pid, s.name) = m[k]
      BY DEF ProcessMaps
    <3> QED BY <3>1, <3>2 DEF HostInv
  <2>2. /\ DOMAIN pid_names' \subseteq Pids
        /\ \A p \in DOMAIN pid_names' : pid_names'[p] \in named[p] \cup {Unknown}
    BY <1>1 DEF InstallSnapshot, ScanInv, HostInv
  <2> QED BY <2>f, <2>1, <2>2 DEF ScanInv
<1>2. CASE Resolve
  <2>f. held' = held /\ named' = named /\ listed' = listed /\ process_map' = process_map
    BY <1>2 DEF Resolve, hostVars
  <2>1. /\ DOMAIN pid_names' \subseteq Pids
        /\ \A p \in DOMAIN pid_names' : pid_names'[p] \in named[p] \cup {Unknown}
    <3>1. CASE hit.pid \in DOMAIN pid_names \/ ~Live(hit.pid)
      BY <1>2, <3>1 DEF Resolve, ScanInv
    <3>2. CASE hit.pid \notin DOMAIN pid_names /\ Live(hit.pid)
      <4>1. pid_names' = Put(pid_names, hit.pid, procs[hit.pid])
        BY <1>2, <3>2 DEF Resolve
      <4>2. hit.pid \in Pids
        BY <1>2 DEF Resolve, AnswerInv, NotedBy, HostInv
      <4> QED BY <3>2, <4>1, <4>2 DEF Put, ScanInv, HostInv
    <3> QED BY <3>1, <3>2
  <2> QED BY <2>f, <2>1 DEF ScanInv
<1>3. CASE LoopRefresh \/ \E full \in BOOLEAN : RefreshFails(full)
  <2>1. listed' \subseteq Pids /\ process_map' = process_map /\ pid_names' = pid_names
        /\ held' = held /\ named' = named
    BY <1>3 DEF LoopRefresh, RefreshFails, cacheVars, hostVars
  <2> QED BY <2>1 DEF ScanInv
<1>4. CASE ~(Resolve \/ LoopRefresh
            \/ \E full \in BOOLEAN : InstallSnapshot(full) \/ RefreshFails(full))
  <2>1. listed' = listed /\ process_map' = process_map /\ pid_names' = pid_names
    BY <1>4, HostFrame DEF Next, vars, cacheVars, Enrichment, LoopPass, Visit, VisitAndCollect,
         DeleteStale, Lookup, Renew
  <2> QED BY <2>1, <1>g DEF ScanInv
<1> QED BY <1>1, <1>2, <1>3, <1>4

-----------------------------------------------------------------------------
(* The answers.                                                            *)

(* What the snapshot answers is earned.                                    *)
LEMMA ProcfsEarned ==
  ASSUME Specified, NoMirrors, HostInv, ScanInv, NEW c \in Conns,
         ProcfsLookup(c) # NoInfo
  PROVE  Earned(ProcfsLookup(c), c)
<1>1. ASSUME NEW k \in DOMAIN process_map, k \in Candidates(c) \cup {Exact(c)}
      PROVE  Earned(process_map[k], c)
  <2>1. PICK h \in held : ConnectionKey(h.sock) = k /\ process_map[k] = Answer(h.pid, h.name)
    BY DEF ScanInv
  <2>2. PICK d \in Conns : Covers(h.sock, d)
    BY DEF HostInv
  <2>3. Covers(h.sock, c)
    BY <1>1, <2>1, <2>2, ScannedCovers
  <2>4. process_map[k].pid = h.pid /\ process_map[k].name = h.name
    BY <2>1 DEF Answer
  <2> QED BY <2>3, <2>4 DEF Earned, HostInv
<1>2. CASE Exact(c) \in DOMAIN process_map
  BY <1>1, <1>2 DEF ProcfsLookup
<1>3. CASE Exact(c) \notin DOMAIN process_map
  <2> DEFINE found == {process_map[k] : k \in Candidates(c) \cap DOMAIN process_map}
  <2>1. ProcfsLookup(c) = IF c.proto \in {"tcp", "udp"} /\ Cardinality(found) = 1
                          THEN CHOOSE a \in found : TRUE ELSE NoInfo
    BY <1>3 DEF ProcfsLookup, fallback_lookup
  <2>2. Cardinality(found) = 1 /\ ProcfsLookup(c) = CHOOSE a \in found : TRUE
    BY <2>1
  <2>3. found # {}
    BY <2>2, FS_EmptySet
  <2>4. ProcfsLookup(c) \in found
    BY <2>2, <2>3
  <2> QED BY <2>4, <1>1
<1> QED BY <1>2, <1>3

(* The map, or what DeleteStale leaves of it.                              *)
PartOf(map) == \A k \in DOMAIN map : k \in DOMAIN socket_map /\ map[k] = socket_map[k]

(* What lookup finds in the map was noted about a socket for c.            *)
LEMMA FoundNoted ==
  ASSUME MapInv, NEW c \in Conns, NEW map, PartOf(map), lookup(map, c) # NoInfo
  PROVE  NotedBy(lookup(map, c), c)
<1>1. PICK k \in Tried(c) \cap DOMAIN map : lookup(map, c) = map[k]
  BY LookupFinds
<1>2. k \in DOMAIN socket_map /\ map[k] = socket_map[k]
  BY <1>1 DEF PartOf
<1> QED BY <1>1, <1>2 DEF MapInv

(* An earned answer, or none, leaves the table and the cache earned.       *)
LEMMA SettleEarned ==
  ASSUME AnswerInv, NEW c \in Conns, NEW a, a = NoInfo \/ Earned(a, c), Settle(c, a),
         UNCHANGED hostVars,
         cache' = cache \/ (Earned(a, c) /\ cache' = Put(cache, c, a))
  PROVE  AnswerInv'
<1>1. todo' \subseteq Conns /\ pc' \in {"loop", "pass"}
  BY DEF Settle, GoOn, AnswerInv
<1>2. \A b, d : Earned(b, d)' <=> Earned(b, d)
  BY DEF hostVars, Earned, Covers
<1>3. conn' = [d \in Conns |-> IF d = c THEN a ELSE conn[d]]
  BY DEF Settle, AnswerInv
<1>4. \A d \in Conns : conn'[d] # NoInfo => Earned(conn'[d], d)
  BY <1>3 DEF AnswerInv, Attributed
<1>5. \A d \in DOMAIN cache' : Earned(cache'[d], d)
  BY DEF Put, AnswerInv
<1>6. ASSUME NEW d \in Conns PROVE Attributed(d)' => Earned(conn[d], d)'
  <2>1. Earned(conn'[d], d) => Earned(conn[d], d)'
    BY DEF hostVars, Earned, Covers
  <2> QED BY <1>4, <2>1 DEF Attributed
<1>7. ASSUME NEW d \in DOMAIN cache' PROVE Earned(cache[d], d)'
  <2>1. Earned(cache'[d], d) => Earned(cache[d], d)'
    BY DEF hostVars, Earned, Covers
  <2> QED BY <1>5, <2>1
<1>8. conn' = [d \in Conns |-> conn'[d]]
  BY <1>3
<1> QED BY <1>1, <1>6, <1>7, <1>8 DEF AnswerInv

(* A look-up ends with an earned answer, none, or a note to be resolved.   *)
LEMMA LookupStep ==
  ASSUME Specified, NoMirrors, HostInv, MapInv, ScanInv, AnswerInv,
         NEW c \in Conns, NEW fresh \in BOOLEAN, NEW map, PartOf(map),
         Lookup(c, fresh, map), UNCHANGED hostVars
  PROVE  AnswerInv'
<1>1. CASE fresh /\ c \in DOMAIN cache
  <2> DEFINE a == cache[c]
  <2>1. Settle(c, a) /\ cache' = cache /\ Earned(a, c)
    BY <1>1 DEF Lookup, AnswerInv
  <2> HIDE DEF a
  <2> QED BY <2>1, SettleEarned
<1>2. CASE ~(fresh /\ c \in DOMAIN cache) /\ lookup(map, c) # NoInfo
  <2>1. /\ pc' = "resolve" /\ cur' = c /\ hit' = lookup(map, c)
        /\ todo' = todo /\ conn' = conn /\ cache' = cache
    BY <1>2 DEF Lookup
  <2>2. NotedBy(lookup(map, c), c)
    BY <1>2, FoundNoted
  <2>3. NotedBy(hit, cur)'
    BY <2>1, <2>2 DEF NotedBy, Covers, hostVars
  <2> QED BY <2>1, <2>3 DEF AnswerInv, Earned, Attributed, Covers, hostVars
<1>3. CASE ~(fresh /\ c \in DOMAIN cache) /\ lookup(map, c) = NoInfo
  <2> DEFINE a == ProcfsLookup(c)
  <2>1. /\ Settle(c, a)
        /\ cache' = IF a = NoInfo THEN cache ELSE Put(cache, c, a)
    BY <1>3 DEF Lookup
  <2>2. a = NoInfo \/ Earned(a, c)
    BY ProcfsEarned
  <2> HIDE DEF a
  <2>3. cache' = cache \/ (Earned(a, c) /\ cache' = Put(cache, c, a))
    BY <2>1, <2>2
  <2> QED BY <2>1, <2>2, <2>3, SettleEarned
<1> QED BY <1>1, <1>2, <1>3

(* The name a note resolves to is one its process id has had.              *)
LEMMA ResolveStep ==
  ASSUME HostInv, ScanInv, AnswerInv, Resolve
  PROVE  AnswerInv'
<1> DEFINE p == hit.pid
           n == IF p \in DOMAIN pid_names THEN pid_names[p]
                ELSE IF Live(p) THEN procs[p] ELSE hit.comm
           a == Answer(p, n)
<1>1. /\ cur \in Conns /\ Settle(cur, a) /\ cache' = Put(cache, cur, a)
      /\ UNCHANGED hostVars
  BY DEF Resolve, AnswerInv
<1>2. PICK h \in held : h.pid = p /\ h.name = hit.comm /\ Covers(h.sock, cur)
  BY DEF Resolve, AnswerInv, NotedBy
<1>3. n \in named[p] \cup {Unknown}
  BY <1>2 DEF HostInv, ScanInv
<1>4. a.pid = p /\ a.name = n
  BY DEF Answer
<1> HIDE DEF p, n, a
<1>5. Earned(a, cur)
  BY <1>2, <1>3, <1>4 DEF Earned
<1> QED BY <1>1, <1>5, SettleEarned

LEMMA AnswerInit == Init => AnswerInv
BY DEF Init, AnswerInv, Empty, Attributed

LEMMA AnswerNext ==
  ASSUME Specified, NoMirrors, HostInv, MapInv, ScanInv, AnswerInv, [Next]_vars
  PROVE  AnswerInv'
<1>1. ASSUME NEW c \in Conns, Visit(c) PROVE AnswerInv'
  <2>1. PICK fresh \in BOOLEAN : Lookup(c, fresh, socket_map)
    BY <1>1 DEF Visit
  <2>2. PartOf(socket_map) /\ UNCHANGED hostVars
    BY <1>1 DEF Visit, PartOf
  <2> QED BY <2>1, <2>2, LookupStep
<1>2. CASE DeleteStale
  <2> DEFINE map == Without(socket_map, doomed)
  <2>1. PICK fresh \in BOOLEAN : Lookup(cur, fresh, socket_map')
    BY <1>2 DEF DeleteStale
  <2>2. /\ socket_map' = map /\ PartOf(map) /\ cur \in Conns
        /\ UNCHANGED hostVars
    BY <1>2 DEF DeleteStale, Without, PartOf, AnswerInv
  <2>3. Lookup(cur, fresh, map)
    BY <2>1, <2>2
  <2> QED BY <2>2, <2>3, LookupStep
<1>3. CASE Resolve
  BY <1>3, ResolveStep
<1>4. ASSUME NEW c \in Conns, VisitAndCollect(c) PROVE AnswerInv'
  BY <1>4 DEF VisitAndCollect, AnswerInv, Earned, Attributed, Covers, hostVars, cacheVars
<1>5. ASSUME NEW full \in BOOLEAN,
             LoopPass(full) \/ InstallSnapshot(full) \/ RefreshFails(full)
      PROVE  AnswerInv'
  <2>1. /\ todo' \subseteq Conns /\ pc' \in {"loop", "pass"}
        /\ conn' = conn /\ cache' \in {cache, Empty} /\ UNCHANGED hostVars
    BY <1>5 DEF LoopPass, InstallSnapshot, RefreshFails, BeginPass, GoOn, Pending, cacheVars
  <2> QED BY <2>1 DEF AnswerInv, Earned, Attributed, Covers, hostVars, Empty
<1>6. CASE LoopRefresh
  BY <1>6 DEF LoopRefresh, AnswerInv, Earned, Attributed, Covers, hostVars, cacheVars, passVars
<1>7. ASSUME NEW c \in Conns, Renew(c) PROVE AnswerInv'
  BY <1>7 DEF Renew, AnswerInv, NotedBy, Earned, Attributed, Covers, hostVars, cacheVars,
              passVars
<1>8. CASE Host \/ UNCHANGED vars
  <2>1. UNCHANGED <<pc, cacheVars, passVars, conn>>
    BY <1>8, HostFrame DEF vars
  <2>2. /\ \A a, c : Earned(a, c) => Earned(a, c)'
        /\ \A i, c : NotedBy(i, c) => NotedBy(i, c)'
    BY EarnedStays
  <2>3. ASSUME NEW c \in Conns, Attributed(c)' PROVE Earned(conn[c], c)'
    <3>1. Earned(conn[c], c)
      BY <2>1, <2>3 DEF AnswerInv, Attributed
    <3> QED BY <3>1, <2>1, <2>2 DEF Earned
  <2>4. ASSUME NEW c \in DOMAIN cache' PROVE Earned(cache[c], c)'
    <3>1. Earned(cache[c], c) /\ cache' = cache
      BY <2>1, <2>4 DEF AnswerInv, cacheVars
    <3> QED BY <3>1, <2>2 DEF Earned
  <2>5. ASSUME pc' = "resolve" PROVE NotedBy(hit, cur)'
    <3>1. NotedBy(hit, cur) /\ hit' = hit /\ cur' = cur
      BY <2>1, <2>5 DEF AnswerInv, passVars
    <3> QED BY <3>1, <2>2 DEF NotedBy
  <2> QED BY <2>1, <2>3, <2>4, <2>5 DEF AnswerInv, cacheVars, passVars
<1> QED BY <1>1, <1>2, <1>3, <1>4, <1>5, <1>6, <1>7, <1>8 DEF Next, Enrichment

-----------------------------------------------------------------------------
Inv == HostInv /\ MapInv /\ ScanInv /\ AnswerInv

LEMMA Invariance == Specified /\ NoMirrors => (Spec => []Inv)
<1> SUFFICES ASSUME Specified, NoMirrors PROVE Spec => []Inv
  OBVIOUS
<1>1. Init => Inv
  BY HostInit, MapInit, ScanInit, AnswerInit DEF Inv
<1>2. Inv /\ [Next]_vars => Inv'
  BY HostNext, MapNext, ScanNext, AnswerNext DEF Inv
<1> QED BY <1>1, <1>2, PTL DEF Spec

(* However stale the caches and however reused the process ids: whoever a  *)
(* connection is attributed to held a socket for it.                       *)
THEOREM AttributionIsEarned == Specified /\ NoMirrors => (Spec => []AttributionEarned)
<1> SUFFICES ASSUME Specified, NoMirrors PROVE Spec => []AttributionEarned
  OBVIOUS
<1>1. Inv => AttributionEarned
  BY DEF Inv, AnswerInv, AttributionEarned, Earned
<1> QED BY <1>1, Invariance, PTL

(* The name beside the process id is the owner's, unless the process id    *)
(* had several.                                                            *)
THEOREM NamesAreTrue == Specified /\ NoMirrors => (Spec => []NameTrue)
<1> SUFFICES ASSUME Specified, NoMirrors PROVE Spec => []NameTrue
  OBVIOUS
<1>1. ASSUME Inv, NEW c \in Conns, Attributed(c)
      PROVE  \/ \E h \in held : /\ h.pid = conn[c].pid /\ h.name = conn[c].name
                                /\ Covers(h.sock, c)
             \/ conn[c].name \in named[conn[c].pid] /\ Cardinality(named[conn[c].pid]) > 1
             \/ conn[c].name = Unknown
  <2> DEFINE N == named[conn[c].pid]
  <2>1. PICK h \in held : /\ h.pid = conn[c].pid /\ Covers(h.sock, c)
                          /\ conn[c].name \in N \cup {Unknown}
    BY <1>1 DEF Inv, AnswerInv, Earned
  <2>2. h.pid \in Pids /\ h.name \in N /\ N \subseteq 1..started /\ started \in Nat
    BY <1>1, <2>1 DEF Inv, HostInv
  <2>3. IsFiniteSet(N)
    BY <2>2, FS_Interval, FS_Subset
  <2>4. ASSUME conn[c].name \in N, conn[c].name # h.name PROVE Cardinality(N) > 1
    <3> HIDE DEF N
    <3>1. Cardinality(N) \in Nat
      BY <2>3, FS_CardinalityType
    <3>2. Cardinality(N) # 0
      BY <2>2, <2>3, FS_EmptySet
    <3>3. Cardinality(N) # 1
      BY <2>2, <2>3, <2>4, FS_Singleton
    <3> QED BY <3>1, <3>2, <3>3
  <2> QED BY <2>1, <2>4
<1>2. Inv => NameTrue
  BY <1>1 DEF NameTrue
<1> QED BY <1>2, Invariance, PTL

(* On a little-endian host the probes of an IPv4 client write keys that    *)
(* the look-up of its connection asks for.                                 *)
LEMMA SentKeysTried ==
  ASSUME LittleEndian, NEW c \in Conns \ Inbound, c.family = "v4",
         NEW i \in DOMAIN SentKeys(Opens(c), Exact(c))
  PROVE  SentKeys(Opens(c), Exact(c))[i] \in {UserKey(c, c.laddr), UserKey(c, Zero("v4"))}
<1> DEFINE s == Opens(c)
<1>1. /\ s.family = "v4" /\ s.proto = c.proto /\ s.lport = c.lport
      /\ s.laddr \in {c.laddr, Zero("v4")}
      /\ c.proto = "tcp" => s = Exact(c)
  <2>1. c.proto = "tcp" => s = Exact(c)
    BY ConnsAssumption DEF Opens
  <2>2. Covers(s, c)
    BY OpensCovers
  <2> HIDE DEF s
  <2> QED BY <2>1, <2>2, CoverFields
<1>2. Exact(c).laddr = c.laddr /\ Exact(c).raddr = c.raddr /\ Exact(c).rport = c.rport
  BY DEF Exact, Socket
<1> HIDE DEF s
<1>3. \A a \in {c.laddr, Zero("v4")} :
        UserKey(c, a) = ConnKey(a, c.raddr, c.lport, IF c.proto = "icmp" THEN 0 ELSE c.rport,
                                c.proto, "v4")
  BY DEF UserKey, Fill, fill_v4
<1>4. CASE c.proto = "tcp"
  <2>1. SentKeys(s, Exact(c)) = <<ConnKey(c.laddr, c.raddr, c.lport, c.rport, "tcp", "v4")>>
    BY <1>1, <1>2, <1>4 DEF SentKeys, trace_tcp_connect, V4Source, V4Dest
  <2> QED BY <1>3, <1>4, <2>1 DEF s
<1>5. CASE c.proto = "udp"
  <2>1. SentKeys(s, Exact(c))[i] = ConnKey(s.laddr, c.raddr, c.lport, c.rport, "udp", "v4")
    BY <1>1, <1>2, <1>5 DEF SentKeys, trace_udp_sendmsg, s
  <2> QED BY <1>1, <1>3, <1>5, <2>1 DEF s
<1>6. CASE c.proto = "icmp"
  <2>1. SentKeys(s, Exact(c))[i] = ConnKey(s.laddr, c.raddr, c.lport, 0, "icmp", "v4")
    BY <1>1, <1>2, <1>6 DEF SentKeys, trace_ping_v4_sendmsg, s
  <2> QED BY <1>1, <1>3, <1>6, <2>1 DEF s
<1> QED BY <1>4, <1>5, <1>6, ConnsAssumption

(* The bytes the kernel side writes and the user side asks for agree, for  *)
(* every IPv4 client and whatever else is in the map.                      *)
THEOREM ClientsAreFound == Specified /\ NoMirrors => (Spec => []ClientFound)
<1> SUFFICES ASSUME Specified, NoMirrors PROVE Spec => []ClientFound
  OBVIOUS
<1>1. ASSUME Inv, LittleEndian, NEW c \in Conns \ Inbound, c.family = "v4",
             NEW i \in DOMAIN SentKeys(Opens(c), Exact(c)),
             NEW k, k = SentKeys(Opens(c), Exact(c))[i], k \in DOMAIN socket_map
      PROVE  lookup(socket_map, c) =
               socket_map[IF UserKey(c, c.laddr) \in DOMAIN socket_map
                          THEN UserKey(c, c.laddr) ELSE k]
  <2>1. \A x \in DOMAIN socket_map : socket_map[x] # NoInfo
    BY <1>1, SocketTrackerAssumption DEF Inv, MapInv
  <2>2. k \in {UserKey(c, c.laddr), UserKey(c, Zero(c.family))}
    BY <1>1, SentKeysTried
  <2> QED BY <1>1, <2>1, <2>2 DEF lookup, lookup_connection
<1>2. Inv => ClientFound
  BY <1>1 DEF ClientFound
<1> QED BY <1>2, Invariance, PTL

=============================================================================
