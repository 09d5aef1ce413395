------------------------- MODULE ConnectionTracker --------------------------
(***************************************************************************)
(* The live connection table of rustnet (ConnectionTracker in              *)
(* crates/rustnet-core/src/network/tracker.rs) under the threads that      *)
(* share it: the packet processors call ingest, the cleanup thread calls   *)
(* cleanup and the UI thread calls clear (module TrafficGraph has the      *)
(* graph thread, which reads the RTT tracker).  All of them take &self;    *)
(* the tables are DashMaps and two Mutexes, so an operation is a sequence  *)
(* of short atomic sections.  Each action below is one such section.       *)
(*                                                                         *)
(* A DashMap locks one shard at a time.  Operations on one entry are       *)
(* atomic; retain visits the entries one by one; len, which sums the       *)
(* shards, is read in one step.                                            *)
(*                                                                         *)
(* Data.  A packet is the 4-tuple key it was parsed to, the part of its    *)
(* kind that ingest looks at, and whether it ends its connection (RST,     *)
(* QUIC CONNECTION_CLOSE).  A connection is its own 4-tuple, its two       *)
(* timestamps, whether it has ended, and its initial RTT.                  *)
(***************************************************************************)
EXTENDS RttTracker, FiniteSets

CONSTANTS
  Threads,          \* the packet-processor threads
  Cids,             \* QUIC connection IDs
  Packets,          \* the packets that may arrive
  MaxConnections,   \* TrackerConfig.max_connections
  MaxHistoric,      \* TrackerConfig.max_historic
  MaxQuicMappings,  \* TrackerConfig.max_quic_mappings
  KeepHistoric,     \* TrackerConfig.keep_historic
  IdleTimeout,      \* get_timeout of a connection that is open
  ClosedTimeout,    \* get_timeout of a connection that has ended
  UsizeModulus,     \* 2^64 in the code
  NoConn, NoKey, NoCid,
  LastPacketTime, MaxTime, MaxClears   \* bounds of the model

Kinds == {"syn", "synack", "quic", "other"}

PacketType == [key : Keys, kind : Kinds, cid : Cids \cup {NoCid},
               closing : BOOLEAN]

Connection == [addr : Keys, created : Nat, last : Nat, closing : BOOLEAN,
               rtt : Nat \cup {NoTime}, epoch : Nat]

HistoricEntry == [key : Keys, conn : Connection, closed : Nat]

ASSUME TrackerAssumption ==
  /\ IsFiniteSet(Threads) /\ Threads # {}
  /\ Packets \subseteq PacketType
  /\ MaxConnections \in Nat
  /\ MaxHistoric \in Nat
  /\ MaxQuicMappings \in Nat \ {0}
  /\ KeepHistoric \in BOOLEAN
  /\ IdleTimeout \in Nat
  /\ ClosedTimeout \in Nat
  /\ UsizeModulus \in Nat \ {0}
  /\ NoConn \notin Connection
  /\ NoKey \notin Keys
  /\ NoCid \notin Cids
  /\ LastPacketTime \in Nat
  /\ MaxTime \in Nat
  /\ MaxClears \in Nat

VARIABLES
  now,       \* the clock
  conns,     \* connections: DashMap<String, Connection>
  historic,  \* historic: DashMap<String, Connection>
  rtt,       \* rtt: Mutex<RttTracker>
  quicMap,   \* quic_map: Mutex<HashMap<String, String>>
  pc,        \* per processor: the section of ingest_at it is about to run
  loc,       \* per processor: the locals of ingest_at while it runs
  cl,        \* the cleanup thread: its section and the locals of cleanup
  ui,        \* the UI thread: its section of clear and the keys left in it
  epoch,     \* history: how many calls of clear have started
  refused    \* history: the keys a packet of which was dropped at the full
             \* table, and which have had no connection since

tables == <<conns, historic, rtt, quicMap>>
vars == <<now, tables, pc, loc, cl, ui, epoch, refused>>

(* parsed, now, key and measured_rtt; NoLocals between two packets.        *)
Locals == [pkt : Packets, ts : Nat, key : Keys, rtt : Nat \cup {NoTime}]
NoLocals == [pkt |-> "none"]

Active == {k \in Keys : conns[k] # NoConn}
Mapped == {c \in Cids : quicMap[c] # NoKey}

-----------------------------------------------------------------------------
(* Connections (merge.rs, types.rs), as far as the table can tell.         *)

(* create_connection_from_packet; ingest_at then stores the measured RTT.  *)
CreateConnection(p, t, m) ==
  [addr |-> p.key, created |-> t, last |-> t, closing |-> p.closing,
   rtt |-> m, epoch |-> epoch]

(* merge_packet_into_connection; the initial RTT is set once.  Both ends   *)
(* of a connection (TcpState::Closed, connection_close) are absorbing.     *)
MergePacket(c, p, t, m) ==
  [c EXCEPT !.last    = t,
            !.closing = @ \/ p.closing,
            !.rtt     = IF @ = NoTime THEN m ELSE @]

GetTimeout(c) == IF c.closing THEN ClosedTimeout ELSE IdleTimeout

(* Faulty: only connections that have ended expire.                        *)
BugShouldCleanupEndedOnly(c, t) == c.closing /\ t - c.last > ClosedTimeout

(* should_cleanup; duration_since(..).unwrap_or_default() is zero when the *)
(* last activity lies after t.                                             *)
ShouldCleanup(c, t) == t > c.last /\ t - c.last > GetTimeout(c)

-----------------------------------------------------------------------------
(* ingest / ingest_at, one packet at a time per processor.                 *)

(* The section a packet goes to after the RTT section.                     *)
AfterRtt(p) == IF p.kind = "quic" THEN "quic" ELSE "contains"

IngestBegin(t, p) ==
  /\ pc[t] = "idle"
  /\ now <= LastPacketTime
  /\ loc' = [loc EXCEPT ![t] =
               [pkt |-> p, ts |-> now, key |-> p.key, rtt |-> NoTime]]
  /\ pc' = [pc EXCEPT ![t] =
              IF p.kind \in {"syn", "synack"} THEN "rtt" ELSE AfterRtt(p)]
  /\ UNCHANGED <<now, tables, cl, ui, epoch, refused>>

(* The rtt Mutex: a SYN is recorded, a SYN-ACK is matched with its SYN.    *)
IngestRtt(t) ==
  /\ pc[t] = "rtt"
  /\ LET p == loc[t].pkt IN
       /\ IF p.kind = "syn"
          THEN /\ rtt' = RecordSyn(rtt, p.key, now)
               /\ UNCHANGED loc
          ELSE /\ rtt' = RecordSynAck(rtt, p.key, now)
               /\ loc' = [loc EXCEPT ![t].rtt = MeasuredRtt(rtt, p.key, now)]
       /\ pc' = [pc EXCEPT ![t] = AfterRtt(p)]
  /\ UNCHANGED <<now, conns, historic, quicMap, cl, ui, epoch, refused>>

(* A new mapping; the whole map is dropped first when it is full.          *)
InsertMapping(m, c, k) ==
  IF Cardinality({d \in Cids : m[d] # NoKey}) >= MaxQuicMappings
  THEN [[d \in Cids |-> NoKey] EXCEPT ![c] = k]
  ELSE [m EXCEPT ![c] = k]

(* Faulty: the mapping is inserted without looking for an existing one.    *)
BugIngestQuicOverwrites(t) ==
  /\ pc[t] = "quic"
  /\ LET c == loc[t].pkt.cid IN
       quicMap' = IF c = NoCid THEN quicMap
                               ELSE InsertMapping(quicMap, c, loc[t].key)
  /\ pc' = [pc EXCEPT ![t] = "contains"]
  /\ UNCHANGED <<now, conns, historic, rtt, loc, cl, ui, epoch, refused>>

(* The quic_map Mutex: a known connection ID redirects the packet to the   *)
(* key of its connection, an unknown one is mapped to the packet's key.    *)
IngestQuic(t) ==
  /\ pc[t] = "quic"
  /\ LET c == loc[t].pkt.cid IN
       \/ /\ c = NoCid
          /\ UNCHANGED <<loc, quicMap>>
       \/ /\ c # NoCid /\ quicMap[c] # NoKey
          /\ loc' = [loc EXCEPT ![t].key = quicMap[c]]
          /\ UNCHANGED quicMap
       \/ /\ c # NoCid /\ quicMap[c] = NoKey
          /\ quicMap' = InsertMapping(quicMap, c, loc[t].key)
          /\ UNCHANGED loc
  /\ pc' = [pc EXCEPT ![t] = "contains"]
  /\ UNCHANGED <<now, conns, historic, rtt, cl, ui, epoch, refused>>

(* contains_key: a known connection skips the limit.                       *)
IngestContains(t) ==
  /\ pc[t] = "contains"
  /\ pc' = [pc EXCEPT ![t] = IF loc[t].key \in Active THEN "entry" ELSE "len"]
  /\ UNCHANGED <<now, tables, loc, cl, ui, epoch, refused>>

(* ingest_at returns.                                                      *)
IngestReturn(t) ==
  /\ pc' = [pc EXCEPT ![t] = "idle"]
  /\ loc' = [loc EXCEPT ![t] = NoLocals]

(* len() >= max_connections: the packet is dropped.                        *)
IngestDrop(t) ==
  /\ pc[t] = "len"
  /\ Cardinality(Active) >= MaxConnections
  /\ refused' = refused \cup {loc[t].key}
  /\ IngestReturn(t)
  /\ UNCHANGED <<now, tables, cl, ui, epoch>>

(* Faulty: the limit is not tested.                                        *)
BugIngestAdmitAlways(t) ==
  /\ pc[t] = "len"
  /\ pc' = [pc EXCEPT ![t] = "entry"]
  /\ UNCHANGED <<now, tables, loc, cl, ui, epoch, refused>>

IngestAdmit(t) ==
  /\ pc[t] = "len"
  /\ Cardinality(Active) < MaxConnections
  /\ pc' = [pc EXCEPT ![t] = "entry"]
  /\ UNCHANGED <<now, tables, loc, cl, ui, epoch, refused>>

(* entry(key).and_modify(..).or_insert_with(..), under the shard's lock.   *)
IngestEntry(t) ==
  /\ pc[t] = "entry"
  /\ LET l == loc[t] IN
       conns' = [conns EXCEPT ![l.key] =
                   IF @ = NoConn THEN CreateConnection(l.pkt, l.ts, l.rtt)
                                 ELSE MergePacket(@, l.pkt, l.ts, l.rtt)]
  /\ refused' = refused \ {loc[t].key}
  /\ IngestReturn(t)
  /\ UNCHANGED <<now, historic, rtt, quicMap, cl, ui, epoch>>

-----------------------------------------------------------------------------
(* cleanup, on its own thread.                                             *)

CleanupIdle == [pc |-> "idle", now |-> 0, visited |-> {}, removed |-> {},
                archive |-> {}, entries |-> {}]

CleanupBegin ==
  /\ cl.pc = "idle"
  /\ cl' = [CleanupIdle EXCEPT !.pc = "sweep", !.now = now]
  /\ UNCHANGED <<now, tables, pc, loc, ui, epoch, refused>>

(* retain's closure on one entry.                                          *)
CleanupVisit(k) ==
  /\ cl.pc = "sweep"
  /\ k \notin cl.visited
  /\ IF conns[k] # NoConn /\ ShouldCleanup(conns[k], cl.now)
     THEN /\ cl' = [cl EXCEPT
               !.visited = @ \cup {k},
               !.removed = @ \cup {k},
               !.archive = @ \cup {[key |-> k, conn |-> conns[k],
                                    closed |-> cl.now]}]
          /\ conns' = [conns EXCEPT ![k] = NoConn]
     ELSE /\ cl' = [cl EXCEPT !.visited = @ \cup {k}]
          /\ UNCHANGED conns
  /\ UNCHANGED <<now, historic, rtt, quicMap, pc, loc, ui, epoch, refused>>

(* Faulty: cleanup returns early when no history is kept.                  *)
BugCleanupSweptReturns ==
  /\ cl.pc = "sweep"
  /\ cl.visited = Keys
  /\ cl' = IF KeepHistoric THEN [cl EXCEPT !.pc = "archive"] ELSE CleanupIdle
  /\ UNCHANGED <<now, tables, pc, loc, ui, epoch, refused>>

CleanupSwept ==
  /\ cl.pc = "sweep"
  /\ cl.visited = Keys
  /\ cl' = [cl EXCEPT !.pc = IF KeepHistoric THEN "archive" ELSE "quic"]
  /\ UNCHANGED <<now, tables, pc, loc, ui, epoch, refused>>

(* The historic key is the connection key and created_at.                  *)
SameHistoricKey(g, h) == g.key = h.key /\ g.conn.created = h.conn.created

CleanupArchive(h) ==
  /\ cl.pc = "archive"
  /\ h \in cl.archive
  /\ historic' = {g \in historic : ~SameHistoricKey(g, h)} \cup {h}
  /\ cl' = [cl EXCEPT !.archive = @ \ {h}]
  /\ UNCHANGED <<now, conns, rtt, quicMap, pc, loc, ui, epoch, refused>>

(* The limit is exceeded: list the entries with their closing times.       *)
CleanupCollect ==
  /\ cl.pc = "archive"
  /\ cl.archive = {}
  /\ cl' = IF Cardinality(historic) > MaxHistoric
           THEN [cl EXCEPT !.pc = "evict", !.entries = historic]
           ELSE [cl EXCEPT !.pc = "quic"]
  /\ UNCHANGED <<now, tables, pc, loc, ui, epoch, refused>>

(* Faulty: one entry too few is evicted.                                   *)
BugToRemoveOneShort == Cardinality(historic) - MaxHistoric - 1

(* historic.len() - max_historic in usize, read after the list was built.  *)
ToRemove == (Cardinality(historic) - MaxHistoric) % UsizeModulus

(* Faulty: the list is sorted the wrong way round.                         *)
BugNewestFirst(V, entries, n) ==
  /\ IF n >= Cardinality(entries) THEN V = entries ELSE Cardinality(V) = n
  /\ \A v \in V, e \in entries \ V : v.closed >= e.closed

(* V is what entries.sort_by_key(closed).take(n) can pick.                 *)
OldestFirst(V, entries, n) ==
  /\ IF n >= Cardinality(entries) THEN V = entries ELSE Cardinality(V) = n
  /\ \A v \in V, e \in entries \ V : v.closed <= e.closed

CleanupEvict ==
  /\ cl.pc = "evict"
  /\ \E V \in SUBSET cl.entries :
       /\ OldestFirst(V, cl.entries, ToRemove)
       /\ historic' = historic \ V
  /\ cl' = [cl EXCEPT !.pc = "quic", !.entries = {}]
  /\ UNCHANGED <<now, conns, rtt, quicMap, pc, loc, ui, epoch, refused>>

(* The quic_map Mutex: drop the mappings to the keys removed above.        *)
CleanupQuic ==
  /\ cl.pc = "quic"
  /\ quicMap' = [c \in Cids |-> IF quicMap[c] \in cl.removed
                                THEN NoKey ELSE quicMap[c]]
  /\ cl' = CleanupIdle
  /\ UNCHANGED <<now, conns, historic, rtt, pc, loc, ui, epoch, refused>>

-----------------------------------------------------------------------------
(* clear, on the UI thread.  DashMap::clear empties one shard after the    *)
(* other, so connections and historic are cleared key by key.              *)

ClearIdle == [pc |-> "idle", left |-> {}]

ClearBegin ==
  /\ ui.pc = "idle"
  /\ epoch < MaxClears
  /\ epoch' = epoch + 1
  /\ ui' = [pc |-> "conns", left |-> Keys]
  /\ UNCHANGED <<now, tables, pc, loc, cl, refused>>

(* Faulty: an entry that a processor is about to update is skipped.        *)
BugClearConnectionSkipsBusy(k) ==
  /\ ui.pc = "conns"
  /\ k \in ui.left
  /\ conns' = IF \E t \in Threads : pc[t] = "entry" /\ loc[t].key = k
              THEN conns ELSE [conns EXCEPT ![k] = NoConn]
  /\ ui' = IF ui.left = {k} THEN [pc |-> "historic", left |-> Keys]
                            ELSE [ui EXCEPT !.left = @ \ {k}]
  /\ UNCHANGED <<now, historic, rtt, quicMap, pc, loc, cl, epoch, refused>>

ClearConnection(k) ==
  /\ ui.pc = "conns"
  /\ k \in ui.left
  /\ conns' = [conns EXCEPT ![k] = NoConn]
  /\ ui' = IF ui.left = {k} THEN [pc |-> "historic", left |-> Keys]
                            ELSE [ui EXCEPT !.left = @ \ {k}]
  /\ UNCHANGED <<now, historic, rtt, quicMap, pc, loc, cl, epoch, refused>>

ClearHistoric(k) ==
  /\ ui.pc = "historic"
  /\ k \in ui.left
  /\ historic' = {h \in historic : h.key # k}
  /\ ui' = IF ui.left = {k} THEN [pc |-> "rtt", left |-> {}]
                            ELSE [ui EXCEPT !.left = @ \ {k}]
  /\ UNCHANGED <<now, conns, rtt, quicMap, pc, loc, cl, epoch, refused>>

ClearRtt ==
  /\ ui.pc = "rtt"
  /\ rtt' = RttNew
  /\ ui' = [ui EXCEPT !.pc = "quic"]
  /\ UNCHANGED <<now, conns, historic, quicMap, pc, loc, cl, epoch, refused>>

(* Faulty: clear leaves the connection IDs as they are.                    *)
BugClearQuicForgotten ==
  /\ ui.pc = "quic"
  /\ ui' = ClearIdle
  /\ UNCHANGED <<now, tables, pc, loc, cl, epoch, refused>>

ClearQuic ==
  /\ ui.pc = "quic"
  /\ quicMap' = [c \in Cids |-> NoKey]
  /\ ui' = ClearIdle
  /\ UNCHANGED <<now, conns, historic, rtt, pc, loc, cl, epoch, refused>>

-----------------------------------------------------------------------------

Tick ==
  /\ now < MaxTime
  /\ now' = now + 1
  /\ UNCHANGED <<tables, pc, loc, cl, ui, epoch, refused>>

Init ==
  /\ now = 0
  /\ conns = [k \in Keys |-> NoConn]
  /\ historic = {}
  /\ rtt = RttNew
  /\ quicMap = [c \in Cids |-> NoKey]
  /\ pc = [t \in Threads |-> "idle"]
  /\ loc = [t \in Threads |-> NoLocals]
  /\ cl = CleanupIdle
  /\ ui = ClearIdle
  /\ epoch = 0
  /\ refused = {}

Ingest(t) ==
  \/ IngestRtt(t)
  \/ IngestQuic(t)
  \/ IngestContains(t)
  \/ IngestDrop(t)
  \/ IngestAdmit(t)
  \/ IngestEntry(t)

Cleanup ==
  \/ CleanupBegin
  \/ \E k \in Keys : CleanupVisit(k)
  \/ CleanupSwept
  \/ \E h \in cl.archive : CleanupArchive(h)
  \/ CleanupCollect
  \/ CleanupEvict
  \/ CleanupQuic

Clear ==
  \/ \E k \in ui.left : ClearConnection(k)
  \/ \E k \in ui.left : ClearHistoric(k)
  \/ ClearRtt
  \/ ClearQuic

Next ==
  \/ \E t \in Threads, p \in Packets : IngestBegin(t, p)
  \/ \E t \in Threads : Ingest(t)
  \/ Cleanup
  \/ ClearBegin
  \/ Clear
  \/ Tick

Spec == Init /\ [][Next]_vars

(* Every thread is an OS thread that loops until the program stops, so a   *)
(* call that has begun is finished and the 5 s cleanup loop runs again and *)
(* again.  No packet and no clear is ever due.                             *)
FairSpec ==
  /\ Spec
  /\ WF_vars(Tick)
  /\ WF_vars(Cleanup)
  /\ WF_vars(Clear)
  /\ \A t \in Threads : WF_vars(Ingest(t))

-----------------------------------------------------------------------------
(* Properties.                                                             *)

IngestPcs == {"idle", "rtt", "quic", "contains", "len", "entry"}
CleanupPcs == {"idle", "sweep", "archive", "evict", "quic"}
ClearPcs == {"idle", "conns", "historic", "rtt", "quic"}

(* The shape of the state; between two packets a processor keeps nothing.  *)
TypeOK ==
  /\ now \in Nat
  /\ conns \in [Keys -> Connection \cup {NoConn}]
  /\ historic \subseteq HistoricEntry
  /\ rtt \in RttState
  /\ quicMap \in [Cids -> Keys \cup {NoKey}]
  /\ pc \in [Threads -> IngestPcs]
  /\ loc \in [Threads -> Locals \cup {NoLocals}]
  /\ \A t \in Threads : (pc[t] = "idle") <=> (loc[t] = NoLocals)
  /\ cl \in [pc : CleanupPcs, now : Nat, visited : SUBSET Keys,
            removed : SUBSET Keys, archive : SUBSET HistoricEntry,
            entries : SUBSET HistoricEntry]
  /\ ui \in [pc : ClearPcs, left : SUBSET Keys]
  /\ epoch \in Nat
  /\ refused \subseteq Keys

(* The active table outgrows max_connections by at most one connection for *)
(* every processor but one: ingest_at tests contains_key and len and only  *)
(* then locks the entry, and cleanup may remove the entry in between.      *)
CapacityBound == Cardinality(Active) <= MaxConnections + Cardinality(Threads) - 1

(* max_quic_mappings bounds the map whatever the threads do.               *)
QuicMapBound == Cardinality(Mapped) <= MaxQuicMappings

(* A connection ID that is mapped keeps its key until the mapping is       *)
(* dropped: a migrated packet never steals the mapping of its connection.  *)
MappingStable ==
  [][\A c \in Mapped : quicMap'[c] \in {quicMap[c], NoKey}]_vars

(* Who will see to it that the mappings to k go, or are used again.        *)
Owned(k) ==
  \/ k \in Active
  \/ \E t \in Threads : pc[t] \in {"contains", "len", "entry"} /\ loc[t].key = k
  \/ cl.pc # "idle" /\ k \in cl.removed
  \/ k \in refused

(* A QUIC mapping leads to a connection that is there, or that a processor *)
(* is about to look for; or cleanup or clear, which have taken it, are not *)
(* done yet; or its packets were dropped at the full table.  Nothing else  *)
(* leaves a mapping behind that no cleanup will find.                      *)
MappingsOwned == ui.pc = "idle" => \A c \in Mapped : Owned(quicMap[c])

(* Once clear has been through the active table, whatever is in the table  *)
(* was created after clear was called, also by packets already in flight.  *)
ClearedTable ==
  ui.pc # "conns" => \A k \in Active : conns[k].epoch = epoch

(* Between two cleanups the archive respects max_historic (as long as no   *)
(* clear has run beside one of them).                                      *)
HistoricBound ==
  cl.pc = "idle" /\ epoch = 0 => Cardinality(historic) <= MaxHistoric

(* What of the tracker is what of ConnectionTable.                         *)
Leaving == IF KeepHistoric THEN cl.archive ELSE {}

Clearing ==
  IF ui.pc = "conns" THEN "live" ELSE IF ui.pc = "historic" THEN "kept" ELSE "nothing"

Table == INSTANCE ConnectionTable WITH
           LiveLimit <- MaxConnections + Cardinality(Threads) - 1,
           KeptLimit <- MaxHistoric,
           live <- conns,
           leaving <- Leaving,
           kept <- historic,
           clearing <- Clearing,
           cleared <- epoch > 0

(* Whatever ingest, cleanup and clear do to each other, the tracker is a   *)
(* table with an archive (ConnectionTable): a connection keeps its         *)
(* identity and leaves by a clear or when it was silent for its timeout,   *)
(* what has expired is archived just as it was, and the archive gives up   *)
(* the oldest and no more than are too many.                               *)
ImplementsTable == Table!Spec

(* When traffic stops, every connection eventually goes, and so does every *)
(* QUIC mapping but those of packets that were dropped at the full table:  *)
(* no interleaving leaves another entry that cleanup never takes.          *)
TableDrains == <>[](Active = {} /\ \A c \in Mapped : quicMap[c] \in refused)

=============================================================================
