# rustnet in TLA+

A verification project for rustnet, a terminal network monitor: the modules model
the threads and tables that turn captured packets into the list of connections, the
graph and the files the user sees; TLC checks them on small instances and TLAPS proves
every safety property of the passing runs, the two refinements among them, for every instance. Paths below are relative to the repository
(`core/` stands for `crates/rustnet-core/src/network/`). `PROJECT.json` maps every
definition to the lines it models and lists runs, mutants, hazards and theorems.

## 1. The system

`main.rs` builds an `App` (`src/app.rs`), which starts the capture thread, applies the
sandbox, and then starts the worker threads. All of them share the `App`'s tables.

| part | state | operations | used by |
|---|---|---|---|
| capture thread `pcap_tx` | batch, deadline, libpcap handle | read, time out, send a batch, copy libpcap's statistics, end | channel, `AppStats` |
| packet channel | at most `MAX_PACKET_QUEUE` batches | `try_send`, `recv_timeout`, disconnect | capture thread, processors |
| packet processors `pcap_rx_<i>` | the batch in hand | wait for the link type, receive, parse, `update_connection`, count | channel, `ConnectionTracker`, `AppStats` |
| `ConnectionTracker` (`core/tracker.rs`) | active table, archive (DashMaps), RTT tracker, QUIC map (Mutexes) | `ingest`, `cleanup`, `clear`, snapshots | processors, cleanup thread, UI, graph |
| connection merge (`core/merge.rs`) | one `Connection` | create, merge: TCP state, TCP analytics, DPI details | `ingest` under the shard's lock |
| RTT tracker (`core/types.rs`) | pending SYNs, recent samples | `record_syn`, `record_syn_ack`, `take_average_rtt` | `ingest`, graph thread |
| cleanup thread | last result | `cleanup` every 5 s, sidecar lines | tracker, sidecar file |
| snapshot provider | the next list | sweep both tables, publish | tracker, UI list |
| graph thread | previous counters | one sample a second | counters, RTT tracker, history |
| main / UI thread | UI state, filter | toggle, clear, quit; `stop` twice on the way out | everything |
| DNS resolver (`core/dns.rs`) | queue, cache | request, resolve, evict | provider, UI |
| eBPF programs (`socket_tracker.bpf.c`) | `socket_map` | note the process of a `connect`, `accept` or `sendmsg` | kernel; read by the look-up |
| process look-up (`rustnet-host`) | snapshot of /proc, name and answer caches | look up, refresh, clean the socket map up | enrichment thread |
| enrichment thread | times of the last refresh and full pass | give connections a process, once | look-up, tracker |
| parser, link layers, DPI (`core/parser.rs`, `core/dpi/`) | none, but for QUIC fragments kept in the connection | bytes to `ParsedPacket` | processors |
| startup, privileges, sandbox | process privileges | order of capture, eBPF, capability drop, Landlock, workers | main |
| filter, configuration, GeoIP, OUI, services | tables read at start | look up, match | UI, provider |

What is hard about it:

- *Concurrency without a global lock.* `ingest` is five separate critical sections
  (RTT, QUIC map, `contains_key`, `len`, `entry`); `cleanup` and `clear` visit the
  tables entry by entry; several processors, the cleanup thread, the provider and the
  UI run them at once.
- *Order.* Batches are handled in parallel, the capture misses segments, endpoints'
  segments cross, sequence numbers wrap.
- *Limits.* The channel, the connection table, the archive, the QUIC map and the
  sample history are bounded, each with its own rule for what happens when it is full.
- *Two sides of one table.* Kernel programs write the socket map and user space reads it
  by keys that have to agree byte for byte, while processes exit and their ids are reused.
- *Ends.* A capture that cannot be set up or fails, parser panics, `stop` from the UI
  and again from `Drop`, and threads nobody joins.

What makes each part correct: the pipeline accounts for every packet once and in order;
the tracker stays within its limits, never redirects a QUIC connection, forgets what was
cleared and drains when traffic stops; the TCP view never goes back nor claims a handshake
that is not complete; the analytics count no anomaly that did not happen; the graph
shows nothing twice; a QUIC name is found whatever the order of its pieces and then stays; a
connection is attributed to a process that has had its socket; the list shows what is in the tables and catches up with them; the
sidecar has the connections that were removed.

## 2. Modules

| module | models | state and actions |
|---|---|---|
| `RttTracker` | `RttTracker` of `core/types.rs` | operators on one record; each is one section of the `rtt` Mutex |
| `ConnectionTracker` | `core/tracker.rs`, and of `Connection` what the table looks at | the four tables; per processor the section of `ingest_at` it is in and its locals; the locals of `cleanup` and `clear`. One action per critical section: `IngestBegin, IngestRtt, IngestQuic, IngestContains, IngestDrop / IngestAdmit, IngestEntry`; `CleanupBegin ... CleanupQuic`; `ClearBegin ... ClearQuic` |
| `ConnectionTable` | what the tracker promises of connections: a bounded table and an archive | connections present, expired and archived; `Admit, Update, Expire, Keep, Evict, CallClear, ClearLive, ClearKept` |
| `MCConnectionTracker` | the packet sets of its runs | |
| `TcpObserver` | `update_tcp_state` | the observed state beside two RFC 793 endpoints on FIFO channels (external) |
| `TcpAnalytics` | `analyze_tcp_segment` | the analytics of one connection on wrapping numbers beside the two byte streams (external) |
| `PacketFeed` | what the pipeline promises: a queue in order that may lose packets | packets waiting, given, done, gone; `Read, GiveUp, Give, Finish` |
| `Pipeline` | capture thread, channel, processors, `start_workers`, `stop`, `Drop`, counters | one action per loop step of each thread; implements `PacketFeed` |
| `TrafficGraph` | graph thread, `TrafficHistory::add_sample`, `clear_all_connections` as far as they meet | counters, samples, RTT record |
| `Snapshot` | snapshot provider with its localhost filter, cleanup thread with its sidecar lines, historic toggle, clear, both calls of `stop` | tables as sets, the list, lines per connection |
| `DnsResolver` | `core/dns.rs` | cache, channel, what each caller, resolver thread and the cleanup thread hold; one action per operation on the cache or the channel: `Request, Send`; `ResolverLoop ... ResolverAnswer`; `CleanupWake ... CleanupRemove`; `Drop`. Of an entry its state and its age are kept, the name is not |
| `SocketTracker` | `ebpf/programs/socket_tracker.bpf.c`, `ebpf/maps_libbpf.rs`, `ebpf/tracker_libbpf.rs` | the socket map; one operator per kprobe program (the key it writes), the keys user space builds, the look-up, the stale entries |
| `ProcessLookup`, `MCProcessLookup` | `linux/enhanced.rs`, `linux/process.rs`, `fallback_lookup`, and the enrichment thread of `src/app.rs` | the caches and the thread's place in its pass; `LoopRefresh, LoopPass, InstallSnapshot, RefreshFails, Visit, VisitAndCollect, DeleteStale, Resolve`. The host (external) starts and ends processes and uses sockets between any two of them, which runs the probes |
| `QuicHandshake`, `MCQuicHandshake` | the datagram loop and the name extraction of `core/dpi/quic.rs`, `CryptoFrameReassembler`, `merge_quic_info`, `get_quic_timeout` | what is known of one QUIC connection; `Datagram` parses the packets of a datagram and merges the result, `RemoveConnection` |
| `*Proofs` | theorems about the module of that name; `TcpProofs` about `TcpObserver` and `TcpAnalytics` | |

`ConnectionTracker` and `TrafficGraph` extend `RttTracker`, `ProcessLookup` extends
`SocketTracker`. The others meet at a named step: `Pipeline`'s `HandlePacket` is one run of `ConnectionTracker`'s `ingest_at`, inside
whose `IngestEntry` `TcpObserver`, `TcpAnalytics` and `QuicHandshake` update the connection; `Snapshot`'s
`Create`, `CleanupVisit` and `ClearTable` are the tracker's insertion and removals.

Abstractions. A packet is its key, the part of its kind a guard looks at and whether
it ends its connection; in `Pipeline` it is its number in the order of reading. Time is a
natural number. `get_timeout` has two values, one for connections that have ended and one
for the others: the many protocol-dependent values of the code only differ in length. A DashMap's single-entry
operations are atomic, `iter`, `retain` and `clear` go entry by entry (the code locks a
shard at a time, which is coarser for entries that share a shard), `len` is one step.
`u64`/`usize` differences are saturating or wrap as in the code (`SaturatingSub`,
`ToRemove` with `UsizeModulus`), sequence numbers wrap at `Modulus`.
In `SocketTracker` an address is a sequence of words and a word a sequence of bytes, two where the
program has four, so that a conversion between byte orders is what it is in the code, a
reversal of the bytes of each word; ports are numbers, since both sides keep them in host
order. A process name is a number, a new one for every process. Whether a period has
passed (2, 5, 10, 30 s) is a choice wherever the code asks. In `QuicHandshake` byte `i` of the ClientHello is
the number `i`; of the ClientHello only where its server name and ALPN stand is kept, of a name
whether it is complete, partial or guessed from what looks like a host name (a choice, as
it depends on the bytes); decryption either succeeds or the packet is `unreadable`. A
short-header or malformed packet takes the rest of its datagram, as in the code.
The reassemblers of one datagram's packets share the guess, the name in a ClientHello passes `is_valid_hostname`, and the
CRYPTO frames of a server's Initial are not told apart from none. In `SocketTracker` a probe can always read the name of the process's
main thread; the fallback to the current thread's (`socket_tracker.bpf.c:82`) is left out. In `ConnectionTracker` each of
`cleanup`'s two readings of the archive's length is one step with what is done by it.
`Connection.rtt` and the analytics are only changed under the entry's lock and are
sequential there.

History variables (marked `history:` where they are declared) are never read by a guard
of the program's actions. `external:` variables are the environment.

## 3. Runs

All runs use two workers and finish in about two minutes at most.

| run | instance | checks |
|---|---|---|
| `tracker_races` | 2 processors, cleanup, 3 keys, 2 connection IDs, room for 1 connection and 1 mapping, time 0..1; fair | `CapacityBound`, `MappingStable`, `MappingsOwned`, `TableDrains` |
| `tracker_lifecycle` | 1 processor, cleanup with archive of 1, 1 clear, 2 keys, time 0..2, TCP handshake, QUIC connection that migrates and ends; fair | `ImplementsTable`, `HistoricBound`, `ClearedTable`, `TableDrains` |
| `tcp_observed` | opened by either side or by both at once, 2 data segments each, 4 segments in flight | `CloseObserved`, `NoEarlyEstablished`, `ObservedProgress` |
| `analytics_sound` | modulus 16, streams of 4 and 3 bytes, segments of up to 2, missed, resent, late, repeated | `RetransmitSound`, `OutOfOrderSound`, `FastRetransmitEarned` |
| `pipeline` | 2 processors, batches of 2, channel of 2, 3 packets, 1 kernel drop, 1 clear, setup succeeds or fails; fair | `ImplementsFeed`, `NotBlind`, `DropsReal`, `QueuedSurvives`, `PacketsDecided`, `StopEndsThreads` |
| `graph` | 1 processor, 2 packets, 1 handshake, window 1, pause 2, time 0..6, history of 2, 1 clear | `TypeOK`, `ShownOnce`, `OneStaleSample`, `SamplesConsumed` |
| `snapshot` | 1 connection, between loopback addresses or not, the localhost filter on, 1 clear, 2 toggles, 2 changes of `is_active`, quit at any time; fair | `ListSound`, `LoggedOnceSoFar`, `RemovedIsLogged`, `SweepAfterClear`, `ListCatchesUp` |
| `snapshot_sidecar_twice` | 1 connection | finds `SidecarOnce` violated |
| `dns` | 2 resolver threads, 2 addresses, 1 caller, cache of 1, channel of 1, all time-outs one tick; fair | `PendingHasWorker`, `CacheBound`, `RequestAnswered`, `DropEndsThreads` |
| `process` | 2 process ids (symmetric), 2 processes started, 7 connections (a server, and a client of every protocol and family), a socket map of 1 entry, time 0..1 | `AttributionEarned`, `NameTrue`, `ClientFound` |
| `process_cleanup` | the same, time 0..3 | finds `FreshEntryKept` violated |
| `quic` | a ClientHello of 7 bytes in 3 pieces, one of other boundaries, pieces cut off, packets of every kind, 3 closes, 2 packets a datagram, a buffer of 7 | `ReassemblyExact`, `HelloRead`, `CloseHastens`, `NameFinal` |

Why the bounds are enough. *Tracker*: the races are between two processors and cleanup
over one slot, and the third key is the one that arrives at the full table; connection IDs
interact only through the shared limit, which a limit of one already reaches. With room for one connection
`tracker_races` drops packets whose mapping has just been inserted; `tracker_lifecycle` has room for every key, and
its liveness is about cleanup and clear. The archive overflows
with two removals; a connection that has ended expires at time 1 and an idle one at time 2, so that the
two have different ages in it. *TCP*: two data segments per side give crossings before, during and
after the FINs; the channel bound never blocks a shorter run. *Analytics*: three
repetitions are what a fast retransmit needs. *Pipeline*: three packets make one full
batch and a partial one, or three partial batches, which overflow a channel of two.
*Graph*: three samples fill and overflow the history, two are the least that can show something twice. *Snapshot*: the sweeps treat connections
independently of each other, so one connection meets every interleaving; whether the filter applies to it is open. *DNS*: two
addresses and two threads give every race of the pending mark, and ages beyond the longest
time-out cannot be told apart; an address inserted between the choice of the victims and
their removal needs a third address, and that case is covered by `CacheBoundCorrect`, which is
proved for any number. *Process look-up*: two processes that start in either order under the same or
different ids give every reuse of an id and of a tuple; a map of one entry is full at once. `Alike`
keeps connections of one family, and of TCP or of the others, in one behaviour: keys of different
families or protocols differ in the map and in the snapshot, and share only the map's room. *QUIC*: three pieces, the
middle one with the name's start and the last one with its end, give a hole at the
start, in the middle and at the end; two packets are the least that are coalesced; the buffer
holds exactly the ClientHello, so that at the end a repeated piece is refused for want of room.

Fairness. rustnet's threads are OS threads in loops without a lock held across an
iteration, so the scheduler eventually runs each one that can go on: weak fairness per
thread in `Pipeline!FairSpec` and `Snapshot!FairSpec`, weak fairness of the cleanup loop, of
the rest of a begun `ingest` and `clear`, and of the clock in `ConnectionTracker!FairSpec`.
libpcap's read has a timeout, which makes `CaptureTimeout` and the deadline fair. In `DnsResolver!FairSpec` each resolver
thread goes on, which says that `lookup_addr` returns (the system's resolver has a time-out),
the cleanup thread wakes up, and a caller past the test of the cache sends. Nothing
forces packets, the user's clear, toggle or quit. `TableDrains` is checked with a clock that
outlives the last packet; its consequent is stable only because no packet comes later. It exempts the QUIC mappings
of keys of which a packet was dropped at the full table (`refused`): the code inserts the mapping before it tests the limit, and
nothing removes it until the map is full or the user clears. `MappingsOwned` says that this is the only
way a mapping is left behind. `ListCatchesUp` is about connections that the localhost filter, which is on by default, lets
through; a loopback connection is never listed.

Deadlock is checked except where the system may rest: the environment of `TcpObserver`
and `TcpAnalytics` has nothing more to send, and `TrafficGraph`'s clock reaches its bound.

Refinement. `Pipeline` instantiates `PacketFeed` with the packets of the unfinished batch
and the channel as `waiting`, those in the processors' hands as `given`, and its accounts of
handled and lost packets as `done` and `gone`. Every step of every thread is then a step of the
feed or leaves it alone: `ImplementsFeed`, checked by `pipeline` and proved.

`ConnectionTracker` instantiates `ConnectionTable` with the active table as `live`, the archive as `kept`, and
what `cleanup` has removed and not yet archived as `leaving` (nothing, if no history is kept). That a
connection keeps its identity and its end while packets are merged, leaves only by a clear or after its
timeout at a time that `cleanup` read, is archived just as it was and beside earlier ones of the same key,
and that the archive gives up the oldest and not more than are too many: all of this is
`ImplementsTable`, checked by `tracker_lifecycle` and proved.

Each property of a passing run has a mutant: a `Bug...` definition next to the
one it replaces, a plausible mistake in that code, under which TLC finds the property
violated in the same run.

## 4. Theorems

| theorem | statement | inductive argument |
|---|---|---|
| `ConnectionTrackerProofs!TypeCorrect` | `Spec => []TypeOK` | no run repeats it; with `SynsPast`: a pending SYN lies in the past, otherwise a measured RTT need not be a natural number |
| `...!CapacityCorrect` | `Spec => []CapacityBound`: at most `MaxConnections + Threads - 1` connections | `CapacityInv` counts the keys in the table together with those of the processors past the test (`Reserved`); only `IngestAdmit` adds to them, and when it does the table has room and at most the other processors are past the test |
| `...!QuicMapCorrect` | `Spec => []QuicMapBound`, which no run repeats: it bounds the mappings left without a connection | with finiteness of the mapped set |
| `...!MappingStableCorrect` | `Spec => MappingStable` | from the type invariant, action by action |
| `...!MappingsOwnedCorrect` | `Spec => []MappingsOwned` | inductive next to the type invariant: a processor hands a mapping to the table or to `refused`, `retain` to the rest of cleanup, and clear empties the map last |
| `...!ClearedTableCorrect` | `Spec => []ClearedTable` | while `clear` is in the active table, the keys it has passed hold only connections of this epoch |
| `...!HistoricCorrect` | `Spec /\ []HistoricFits => []HistoricBound` | `HistoricInv`: only cleanup's own section may exceed the limit, and its list of what to evict from is then the whole archive; `EvictStep`: taking the oldest that are too many leaves the limit |
| `...!ImplementsTableCorrect` | `Spec => ImplementsTable`: `ConnectionTracker` implements `ConnectionTable` | each action, under `TableInv`, maps to a step of the table or a stutter. `TableInv`: the times that processors and cleanup go by lie in the past, nothing expired is left when cleanup leaves the archive, and the list to evict from has the whole archive; `TableEvict`: what is chosen from a list that a clear has made stale is still the oldest of what is left. `CapacityInv` bounds the table |
| `TcpProofs!ProgressCorrect` | `Spec => ObservedProgress` | every arm of `update_tcp_state` raises the rank (`UpdateSuccessor`, `UpdateProgress`) |
| `...!NoEarlyEstablishedCorrect` | `Spec => []NoEarlyEstablished` | `WireInv`: only five kinds of segment are sent; `Handshake`: until the local endpoint is established only SYNs and SYN-ACKs are on the wire, so that no ACK is taken for the end of the handshake |
| `...!CloseObservedCorrect` | `Spec => []CloseObserved` | `Opened` over `Handshake`: what is shown for each state of the local endpoint (`ShownFor`); the shown state may be an ACK ahead, never behind |
| `...!RetransmitsSound`, `...!ReorderingsSound` | `NoWrap => (AnalyticsSpec => []RetransmitSound)`, `NoWrap => (AnalyticsSpec => []OutOfOrderSound)` | `Expectations`: what is expected next never exceeds what was sent or captured |
| `...!FastRetransmitsEarned` | `MaxOut < Modulus => (AnalyticsSpec => []FastRetransmitEarned)` | `AckAccount`: repeated acknowledgments pay for the fast retransmits and for the duplicates not yet spent on one; numbers may wrap |
| `PipelineProofs!ImplementsFeedCorrect` | `Spec => ImplementsFeed`: `Pipeline` implements `PacketFeed` | each action, under `FlowInv`, maps to a step of the feed or a stutter: what is sent, refused, received or lost at an exit is the oldest or the youngest part of what waits |
| `...!FlowCorrect` | `Spec => [](TypeOK /\ NothingVanishes /\ NothingTwice /\ HandedOutInOrder)`, which the refinement rests on | `FlowInv` adds that the batch, every queued batch, every hand and the channel as a whole are increasing: otherwise taking a head could leave a copy |
| `...!QueueBoundCorrect` | `Spec => []QueueBound`, which no run repeats | inductive next to `TypeOK` |
| `...!DropsRealCorrect` | `Spec => []DropsReal` | inductive next to `TypeOK`; what the full channel refuses enters both sides alike |
| `...!NotBlindCorrect` | `Spec => []NotBlind` | `StopInv`: `main` is past `stop` only with the flag set; a processor ends only on the flag or when the capture, which owns the sender, has ended |
| `...!QueuedSurvivesCorrect` | `Spec => QueuedSurvives` | `LossCauses`: what each step that loses packets takes; a processor that leaves after the capture's failure has found the channel empty |
| `TrafficGraphProofs!TypesCorrect` | `Spec => []TypeOK` | with `Clocks`: what is pending, recent or last averaged lies in the past |
| `...!ShownOnceCorrect` | `Spec => []ShownOnce` | `Unshown`: what is counted and not yet read is at most what is counted and not shown, because a clear only lowers the counters |
| `...!OneStaleSampleCorrect` | `Spec => []OneStaleSample` | `StaleInv`: after the history is emptied only the sample in the graph thread's hands can be stale |
| `...!SamplesConsumedCorrect` | `Window < Pause => (Spec => []SamplesConsumed)` | `ConsumedInv`: a round-trip time in the history is no younger than the last average, so it is out of the next window |
| `SnapshotProofs!ListIsSound` | `Spec => []ListSound` | `ListInv`: what is in the archive, in cleanup's hands or in the provider's was removed from the active table |
| `...!SweepsAfterClear` | `Spec => []SweepAfterClear` | `ClearInv`: what is cleared and still active is in what the clear has yet to visit, and a sweep that began later has not seen it |
| `...!RemovedAreLogged` | `Spec => []RemovedIsLogged` | `LogInv`: an expired connection without a line is in what cleanup has removed and not yet logged |
| `...!LoggedOnce` | `Spec => []LoggedOnceSoFar` | `OnceInv`: what waits to be logged has no line, and before `stop` only expired connections have one |
| `DnsResolverProofs!DnsTypeCorrect` | `Spec => []TypeOK` | inductive |
| `...!PendingHasWorkerCorrect` | `Spec => []PendingHasWorker` | inductive next to `TypeOK`: a thread that leaves a look-up overwrites the entry first, whoever marked it |
| `...!CacheBoundCorrect` | `Spec => CacheBound` | `EvictInv`: while a cleanup evicts, what is cached is at most the limit, the victims left to remove and what was inserted since it decided to evict |
| `ProcessLookupProofs!AttributionIsEarned`, `...!NamesAreTrue` | `Specified /\ NoMirrors => (Spec => []AttributionEarned)`, and the same of `NameTrue` | `MapInv`: an entry under a key that a look-up for a connection tries was noted for a process with a socket that covers it; `ScanInv`, `AnswerInv`: so were the snapshot's and the caches' answers; `HostInv` says what the processes have had |
| `...!ClientsAreFound` | `Specified /\ NoMirrors => (Spec => []ClientFound)` | both sides build the same bytes for an IPv4 client, and an entry found before it is an exact one |
| `QuicHandshakeProofs!QuicInvariant` | `Spec => []QuicInv` | `Knows`: the reassembler's books are exact (`Sound`) and, as long as the pieces that arrived fit the buffer, it holds exactly those, and a ClientHello read in full has its name; `KnowsDatagram` for the datagram by itself, `KnowsMerge` for merging it with what was known, whichever of the two halves was early |
| `...!ReassemblyIsExact` | `Spec => []ReassemblyExact` | `AddFragment` (an insertion, a refusal and the advance of the offset keep the books), `Contiguous` and `ContiguousData` (the walk in the order of offsets stops at the first gap) |
| `...!HelloIsRead` | `Spec => []HelloRead` | `Extract` over `Knows`: the data the extraction sees is the whole ClientHello |
| `...!CloseIsHeeded` | `Spec => []CloseHastens` | `Hastened`: close information is kept, or the state is past it |
| `...!NameIsFinal` | `Spec => NameFinal` | `MergeTlsFacts`, under `QuicInv` |

A row `...!` continues the module above it.

The assumptions are those of the modules (`RttAssumption`, `TrackerAssumption`,
`PipelineAssumption`, ...): finite, non-empty sets of threads, natural limits, special values outside the
sets they mark. TLC evaluates them in every run. The hypotheses of single theorems are these:

- `NoWrap`: the two streams end before their sequence numbers wrap. Past the wrap the code does
  count wrongly (section 5). `MaxOut < Modulus`: less than 2^32 bytes are sent, as an ACK of exactly
  that many bytes more has the same number.
- `HistoricFits`: the archive has fewer entries than a `usize` can count, which holds of a table in
  memory. It is a statement about the behaviour and not about the constants, because nothing
  in the code bounds the archive while a cleanup is filling it.
- `Window < Pause`: the graph thread sleeps for a second and then works, and the window of
  `take_average_rtt` is a second. With `Pause = Window` a sample can be averaged twice.
- `Specified`: no connection has an unspecified address. A process that binds to the zero
  address of a connection would otherwise match the relaxed keys of `fallback_lookup`.
- `NoMirrors`: no address in use is another one with the bytes of its words reversed.
  `fill_v6`, and on a big-endian host `fill_v4` and `parse_hex_address`, take the one for
  the other, and a look-up could then find a stranger's entry.
  `MCProcessLookup` assumes these two, so that TLC evaluates them in its runs.

The reassembler, the datagram loop and the merge are folds over sequences, so the theorems about
`QuicHandshake` need induction. The library's induction theorems take the induction formula as an
operator, which the provers cannot instantiate. `QuicHandshakeProofs` does without: its lemmas are
about sets, which can be instantiated. `Induct`, `Greatest`, `Prefix` and `FiniteInduct` are derived
from the well-foundedness of `<` (a set of numbers that holds 0 and the successor of each member is
`Nat`, as the rest would have a least element), `Fold` shows that the function
by which `FoldLeft` is defined exists, `Enumeration` that the order in which a `BTreeMap` is walked
exists, and then there is one lemma for each fold: `AdvanceFold`, `ExtendFold`, `FramesFold`,
`PacketsFold`.

Only model-checked: the liveness properties (`TableDrains`, `PacketsDecided`,
`StopEndsThreads`, `ListCatchesUp`, `RequestAnswered`, `DropEndsThreads`), since liveness under
fairness and ENABLED are outside the prover.

## 5. Disagreements met while modelling

Two have a run (findings of `PROJECT.json`). The others were found while the
properties were being written; the properties above are stated so that they hold.

| code | what it does | what is said |
|---|---|---|
| `core/tracker.rs:276` | `cleanup` archives connections after `clear` has emptied the archive | `:338` "Drop all active and historic connections" |
| `core/tracker.rs:290` | the archive's length is read again after the list was made; if a clear has shortened the archive below the limit, the difference wraps and more is evicted than needed, up to everything (a panic where overflow is checked); `Evict` of `ConnectionTable` allows it then and only then | `:279` "Enforce max_historic by evicting oldest-closed first" |
| `core/merge.rs:95` | sequence numbers are compared as integers; new data after a wrap counts as retransmitted | `USAGE.md:618` |
| `src/app.rs:905` | the kernel's drop count overwrites the count of packets the full channel refused | the figure is shown as "Packets Dropped" (`DropsReal` is the half that holds) |
| `src/app.rs:1982` (run) | `main` and `Drop` both call `stop`, each writes the whole last list to the sidecar | `:1974` "Write remaining active connections ... (connections that haven't been cleaned up yet)" |
| `core/tracker.rs:191` | two processors pass the test of the limit before either inserts | `:54` "New connections beyond this limit are dropped" (`CapacityBound` is what holds) |
| `core/tracker.rs:192` | a connection another thread has just inserted is treated as new at the full table and its packet dropped | `:190` "existing ones always get updated" |
| `core/tracker.rs:185` | the QUIC mapping of a packet that is then dropped at the limit stays, and no cleanup removes it (`MappingsOwned` and `TableDrains` are what holds) | `:359` "stay consistent" |
| `core/tracker.rs:301` | `cleanup` drops the mapping of a connection that was re-created after `retain` removed it | `:297` "pointing at removed connections" |
| `core/merge.rs:45` | `SynReceived` is left only on an ACK the local host sends; an accepted connection that ends first stays there | `:33` "according to RFC 793" |
| `core/merge.rs:58` | any incoming plain ACK takes `LastAck` to `Closed` | `:33` |
| `core/merge.rs:148` | segments with data count as duplicate ACKs | `:152` "RFC 2581" |
| `src/app.rs:671` | the channel's bound counts batches of up to 100 packets | `:143` "Maximum queued packets" |
| `src/app.rs:996` | a processor waiting for the link type does not look at `should_stop`; if the setup failed it never ends | `:1969` "Stop all threads gracefully" |
| `core/types.rs:1466` | `take_average_rtt` removes nothing; only the graph thread's pause keeps samples from being averaged twice (`SamplesConsumed`) | `:1463` "clearing consumed samples" |
| `core/types.rs:1445` | a SYN-ACK is matched with a SYN of any age unless another SYN came since | `:1419` "Maximum age for pending SYNs" |
| `core/types.rs:1180` | retransmissions are counted at once and packets per batch, so a sample can show a loss above 100 % | a percentage |
| `src/app.rs:1566` | a sample computed before a clear is added after it (`OneStaleSample` is what holds) | `:1931` "This clears: ... Traffic history" |
| `src/app.rs:1367` | the provider sweeps the tables one after the other; a connection moved in between is listed twice | `ARCHITECTURE.md:126` "consistent snapshots" |
| `src/app.rs:1387` | a sweep under way brings cleared connections back for one period (`SweepAfterClear` is what holds) | `:1928` "starting fresh" |
| `src/app.rs:1977` | the sidecar gets the last list, not the table: newer connections, those silent for 300 s and, with the localhost filter on, those between loopback addresses are missing | `:1974` |
| `core/dns.rs:148` | two threads can find the same address neither cached nor pending and both look it up | `:147` "Skip if already resolved or pending" |
| `core/dns.rs:220` | entries are evicted by when they were resolved, not by when they were used, pending ones included | `:3` "an LRU cache" |
| `linux/ebpf/maps_libbpf.rs:223` (run) | the age of an entry is the wall clock less a monotonic timestamp, so every clean-up takes every entry for stale | `:192` "based on timestamp" |
| `linux/ebpf/maps_libbpf.rs:80` | IPv6 words are built big-endian and the probe's are as in memory: on a little-endian host no IPv6 entry is found (`ClientFound` is about IPv4) | `:8` "matching the eBPF program structure" |
| `socket_tracker.bpf.c:209` | the probe of `tcp_v6_connect` runs before the kernel fills the socket in: its key is all zeros; the one of `tcp_connect` writes an IPv4 key for IPv6 sockets | the key is that of the connection |
| `linux/process.rs:132` | a process that exits during the scan is remembered as "unknown", which is preferred to the name the probe noted (`NameTrue` allows it) | `enhanced.rs:211` "For short-lived processes ... we fall back to the eBPF name" |
| `linux/process.rs:54` | a reused process id keeps the old process's name until the next scan (`NameTrue` allows it) | `:22` "resolving eBPF thread names to main process names" |
| `core/merge.rs:738` | a second CONNECTION_CLOSE takes a connection from `Closed` back to `Draining` (`CloseHastens` is what holds) | `:14` "States should only progress forward." |
| `core/merge.rs:641` | a re-extraction that finds ALPN and no name replaces a partial name (`NameFinal` allows it) | `:687` "Prefer complete SNI over partial, or any SNI over none" |
| `core/dpi/quic.rs:1218` | strategies 3 and 4 return partial names whatever `allow_partial` says | `:1174` "`false`: Only return complete SNI" |
| `core/dpi/quic.rs:1240` | the last strategy stores a partial name by `set_complete_tls_info` | `core/types.rs:986` "Whether we've successfully extracted complete TLS info" |
| `core/dpi/quic.rs:312` | of coalesced packets after the first, close information is dropped, and so is every reassembler but one | `:248` "Prefers more complete information" |
| `core/types.rs:1969` | `is_active` is 300 s | `:1967` says the last minute |

## 6. Not modelled

- *A panic outside the parser.* `catch_unwind` (`src/app.rs:1036`) covers the parse. A panic in `update_connection` (`:1042`)
  would end the processor with the rest of its batch; `Pipeline` has `update_connection` always return.
- *Bytes.* Parsing of headers, link layers and DPI payloads is stateless and over bytes; its
  results are the inputs of the modules here. QUIC decryption is out of TLC's reach.
- *Floating point.* The sliding windows of `RateTracker`, `smooth_rate` and the interface rates.
- *Other merges.* HTTP, TLS over TCP, DNS, SSH, FTP and MQTT details keep the first value of
  independent fields; there is no state between them to go wrong.
- *Startup, privileges, sandbox.* One thread's fixed sequence of system calls; what they grant
  is the kernel's. A model would restate the sequence.
- *User interface, filter, configuration.* One thread, layout and text. What it shares with the
  other threads (list, toggle, clear, quit) is modelled.
- *Other platforms' process look-ups, libpcap, data tables, packaging.* Calls into the system, or data.
- *The end of the enrichment thread.* It looks at `should_stop` once an iteration and nobody
  waits for it.
- *A reverse look-up that never returns.* Its thread is lost and its entry is pending until the
  cleanup thread removes it, which frees the address but not the thread.

Of the repository's C files, `socket_tracker.bpf.c` is hand-written and modelled program by
program; the three `vmlinux.h` under `crates/rustnet-host/resources/ebpf/` (some 150 000 lines) are kernel type
declarations generated from BTF, with nothing to model. The rest of the program is Rust.
