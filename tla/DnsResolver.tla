---------------------------- MODULE DnsResolver -----------------------------
(***************************************************************************)
(* The background reverse-DNS resolver (DnsResolver in                     *)
(* crates/rustnet-core/src/network/dns.rs): callers put addresses into an  *)
(* unbounded channel, resolver threads look them up and store the answers  *)
(* in a cache with two times to live, and a cleanup thread evicts.         *)
(*                                                                         *)
(* The cache is a DashMap: get, insert and remove of one entry are atomic, *)
(* retain and iter go through the entries one by one.  Nothing is held     *)
(* between a get and the insert that follows it.  Of an entry the state    *)
(* and the time since resolved_at are kept, the latter up to AgeCap: an    *)
(* older entry is as old as that to every test, and as a victim.           *)
(***************************************************************************)
EXTENDS Integers, Sequences, FiniteSets

CONSTANTS
  Ips,           \* the addresses that are neither loopback nor link-local
  Threads,       \* dns-resolver-<i>
  Callers,       \* the threads that call get_hostname
  CacheTtl, NegativeCacheTtl, PendingTimeout,   \* 300 s, 60 s and 30 s
  MaxCacheSize,
  NoEntry, NoIp,
  MaxQueue       \* bound: addresses in the channel

Longest(a, b) == IF a >= b THEN a ELSE b
AgeCap == Longest(CacheTtl, Longest(NegativeCacheTtl, PendingTimeout))

Entry == [state : {"pending", "resolved", "failed"}, age : 0..AgeCap]

ASSUME DnsAssumption ==
  /\ IsFiniteSet(Ips) /\ NoIp \notin Ips
  /\ CacheTtl \in Nat \ {0} /\ NegativeCacheTtl \in Nat \ {0} /\ PendingTimeout \in Nat \ {0}
  /\ MaxCacheSize \in Nat /\ MaxQueue \in Nat
  /\ NoEntry \notin Entry \cup (0..AgeCap)

VARIABLES
  cache,    \* cache: DashMap<IpAddr, CachedHostname>
  queue,    \* the channel of requests
  caller,   \* per caller: the address it is about to send, or NoIp
  thread,   \* per resolver thread: where it is, and the address it works on
  cleanup,  \* the cleanup thread: where it is, what is left to visit, the list of ages
  dropped,  \* should_stop, and the sender is gone: Drop of the DnsResolver
  grown     \* history: addresses inserted while cleanup evicts

vars == <<cache, queue, caller, thread, cleanup, dropped, grown>>

Cached == {ip \in Ips : cache[ip] # NoEntry}

Init ==
  /\ cache = [ip \in Ips |-> NoEntry]
  /\ queue = <<>>
  /\ caller = [c \in Callers |-> NoIp]
  /\ thread = [t \in Threads |-> [pc |-> "loop", ip |-> NoIp]]
  /\ cleanup = [pc |-> "sleep", todo |-> {}, ages |-> [ip \in Ips |-> NoEntry]]
  /\ dropped = FALSE
  /\ grown = {}

-----------------------------------------------------------------------------
(* What request_resolution, the resolver threads and retain ask of an      *)
(* entry.                                                                  *)

(* Faulty: an expired answer still counts.                                 *)
BugKnown(ip) == cache[ip] # NoEntry

(* Resolved or failed not too long ago, or being resolved.                 *)
Known(ip) ==
  /\ cache[ip] # NoEntry
  /\ \/ cache[ip].state = "pending"
     \/ cache[ip].state = "resolved" /\ cache[ip].age < CacheTtl
     \/ cache[ip].state = "failed" /\ cache[ip].age < NegativeCacheTtl

(* retain's closure: a pending entry goes after PendingTimeout.            *)
Retained(e) ==
  e.age < CASE e.state = "resolved" -> CacheTtl
            [] e.state = "failed" -> NegativeCacheTtl
            [] OTHER -> PendingTimeout

(* From the reading of the cache's length to the last removal.             *)
Evicting == cleanup.pc \in {"list", "remove"}

Insert(ip, s) ==
  /\ cache' = [cache EXCEPT ![ip] = [state |-> s, age |-> 0]]
  /\ grown' = IF ip \notin Cached /\ Evicting THEN grown \cup {ip} ELSE grown

-----------------------------------------------------------------------------
(* get_hostname: request_resolution, in which the answer of the cache is   *)
(* used in the next step (addresses outside Ips are turned away before     *)
(* it).  Reading the name afterwards changes nothing.                      *)

Request(c, ip) ==
  /\ ~dropped
  /\ caller[c] = NoIp
  /\ ~Known(ip)
  /\ caller' = [caller EXCEPT ![c] = ip]
  /\ UNCHANGED <<cache, queue, thread, cleanup, dropped, grown>>

Send(c) ==
  /\ caller[c] # NoIp
  /\ Len(queue) < MaxQueue
  /\ queue' = Append(queue, caller[c])
  /\ caller' = [caller EXCEPT ![c] = NoIp]
  /\ UNCHANGED <<cache, thread, cleanup, dropped, grown>>

-----------------------------------------------------------------------------
(* A resolver thread.                                                      *)

ResolverLoop(t) ==
  /\ thread[t].pc = "loop"
  /\ thread' = [thread EXCEPT ![t].pc = IF dropped THEN "ended" ELSE "recv"]
  /\ UNCHANGED <<cache, queue, caller, cleanup, dropped, grown>>

ResolverReceive(t) ==
  /\ thread[t].pc = "recv"
  /\ queue # <<>>
  /\ thread' = [thread EXCEPT ![t] = [pc |-> "check", ip |-> Head(queue)]]
  /\ queue' = Tail(queue)
  /\ UNCHANGED <<cache, caller, cleanup, dropped, grown>>

(* An empty channel: after a timeout the thread is back here by way of     *)
(* should_stop; the end of the channel, or the flag, ends it.              *)
ResolverIdle(t) ==
  /\ thread[t].pc = "recv"
  /\ queue = <<>>
  /\ dropped
  /\ thread' = [thread EXCEPT ![t].pc = "ended"]
  /\ UNCHANGED <<cache, queue, caller, cleanup, dropped, grown>>

(* "Skip if already resolved or pending".                                  *)
ResolverCheck(t) ==
  /\ thread[t].pc = "check"
  /\ thread' = [thread EXCEPT ![t] = IF Known(thread[t].ip)
                                     THEN [pc |-> "loop", ip |-> NoIp]
                                     ELSE [pc |-> "mark", ip |-> thread[t].ip]]
  /\ UNCHANGED <<cache, queue, caller, cleanup, dropped, grown>>

ResolverMark(t) ==
  /\ thread[t].pc = "mark"
  /\ Insert(thread[t].ip, "pending")
  /\ thread' = [thread EXCEPT ![t].pc = "lookup"]
  /\ UNCHANGED <<queue, caller, cleanup, dropped>>

(* Faulty: a failure is not stored.                                        *)
BugResolverAnswer(t) ==
  /\ thread[t].pc = "lookup"
  /\ Insert(thread[t].ip, "resolved") \/ UNCHANGED <<cache, grown>>
  /\ thread' = [thread EXCEPT ![t] = [pc |-> "loop", ip |-> NoIp]]
  /\ UNCHANGED <<queue, caller, cleanup, dropped>>

(* lookup_addr returns, whatever happened to the entry meanwhile.          *)
ResolverAnswer(t) ==
  /\ thread[t].pc = "lookup"
  /\ \E s \in {"resolved", "failed"} : Insert(thread[t].ip, s)
  /\ thread' = [thread EXCEPT ![t] = [pc |-> "loop", ip |-> NoIp]]
  /\ UNCHANGED <<queue, caller, cleanup, dropped>>

-----------------------------------------------------------------------------
(* The cleanup thread.                                                     *)

(* Faulty: the flag is not looked at.                                      *)
BugCleanupWake ==
  /\ cleanup.pc = "sleep"
  /\ cleanup' = [cleanup EXCEPT !.pc = "retain", !.todo = Ips]
  /\ UNCHANGED <<cache, queue, caller, thread, dropped, grown>>

(* 30 s have passed.                                                       *)
CleanupWake ==
  /\ cleanup.pc = "sleep"
  /\ cleanup' = IF dropped THEN [cleanup EXCEPT !.pc = "ended"]
                ELSE [cleanup EXCEPT !.pc = "retain", !.todo = Ips]
  /\ UNCHANGED <<cache, queue, caller, thread, dropped, grown>>

CleanupVisit(ip) ==
  /\ cleanup.pc = "retain" /\ ip \in cleanup.todo
  /\ cache' = IF ip \in Cached /\ ~Retained(cache[ip])
              THEN [cache EXCEPT ![ip] = NoEntry] ELSE cache
  /\ cleanup' = [cleanup EXCEPT !.todo = @ \ {ip}]
  /\ UNCHANGED <<queue, caller, thread, dropped, grown>>

(* The cache's length decides whether entries are listed for eviction.     *)
CleanupLen ==
  /\ cleanup.pc = "retain" /\ cleanup.todo = {}
  /\ cleanup' = IF Cardinality(Cached) > MaxCacheSize
                THEN [cleanup EXCEPT !.pc = "list", !.todo = Ips]
                ELSE [cleanup EXCEPT !.pc = "sleep"]
  /\ UNCHANGED <<cache, queue, caller, thread, dropped, grown>>

CleanupList(ip) ==
  /\ cleanup.pc = "list" /\ ip \in cleanup.todo
  /\ cleanup' = [cleanup EXCEPT !.todo = @ \ {ip},
                                !.ages[ip] = IF ip \in Cached THEN cache[ip].age ELSE NoEntry]
  /\ UNCHANGED <<cache, queue, caller, thread, dropped, grown>>

Listed == {ip \in Ips : cleanup.ages[ip] # NoEntry}

(* The length is read again; it cannot be smaller than it was listed.      *)
ToRemove == Cardinality(Cached) - MaxCacheSize

(* entries.sort_by_key(resolved_at).take(to_remove).                       *)
CleanupPlan ==
  /\ cleanup.pc = "list" /\ cleanup.todo = {}
  /\ \E V \in SUBSET Listed :
       /\ IF ToRemove >= Cardinality(Listed) THEN V = Listed
                                             ELSE Cardinality(V) = ToRemove
       /\ \A v \in V, w \in Listed \ V : cleanup.ages[v] >= cleanup.ages[w]
       /\ cleanup' = [pc |-> "remove", todo |-> V, ages |-> [ip \in Ips |-> NoEntry]]
  /\ UNCHANGED <<cache, queue, caller, thread, dropped, grown>>

(* Faulty: an address that is being looked up is spared.                   *)
BugCleanupRemove(ip) ==
  /\ cleanup.pc = "remove" /\ ip \in cleanup.todo
  /\ cache' = IF ip \in Cached /\ cache[ip].state # "pending"
              THEN [cache EXCEPT ![ip] = NoEntry] ELSE cache
  /\ cleanup' = [cleanup EXCEPT !.todo = @ \ {ip},
                                !.pc = IF cleanup.todo = {ip} THEN "sleep" ELSE "remove"]
  /\ grown' = IF cleanup.todo = {ip} THEN {} ELSE grown
  /\ UNCHANGED <<queue, caller, thread, dropped>>

CleanupRemove(ip) ==
  /\ cleanup.pc = "remove" /\ ip \in cleanup.todo
  /\ cache' = [cache EXCEPT ![ip] = NoEntry]
  /\ cleanup' = [cleanup EXCEPT !.todo = @ \ {ip},
                                !.pc = IF cleanup.todo = {ip} THEN "sleep" ELSE "remove"]
  /\ grown' = IF cleanup.todo = {ip} THEN {} ELSE grown
  /\ UNCHANGED <<queue, caller, thread, dropped>>

-----------------------------------------------------------------------------
(* The last Arc of the resolver goes, so no caller is left.                *)
Drop ==
  /\ ~dropped
  /\ \A c \in Callers : caller[c] = NoIp
  /\ dropped' = TRUE
  /\ UNCHANGED <<cache, queue, caller, thread, cleanup, grown>>

Older(a) == IF a < AgeCap THEN a + 1 ELSE a

(* Time passes.                                                            *)
Tick ==
  /\ cache' = [ip \in Ips |-> IF ip \in Cached THEN [cache[ip] EXCEPT !.age = Older(@)]
                                               ELSE NoEntry]
  /\ cleanup' = [cleanup EXCEPT !.ages =
                   [ip \in Ips |-> IF ip \in Listed THEN Older(@[ip]) ELSE NoEntry]]
  /\ UNCHANGED <<queue, caller, thread, dropped, grown>>

Resolver(t) ==
  \/ ResolverLoop(t) \/ ResolverReceive(t) \/ ResolverIdle(t)
  \/ ResolverCheck(t) \/ ResolverMark(t) \/ ResolverAnswer(t)

Cleanup ==
  \/ CleanupWake \/ CleanupLen \/ CleanupPlan
  \/ \E ip \in Ips : CleanupVisit(ip) \/ CleanupList(ip) \/ CleanupRemove(ip)

Next ==
  \/ \E c \in Callers : Send(c) \/ \E ip \in Ips : Request(c, ip)
  \/ \E t \in Threads : Resolver(t)
  \/ Cleanup
  \/ Drop
  \/ Tick

Spec == Init /\ [][Next]_vars

(* The threads run on, lookup_addr returns sooner or later, and a request  *)
(* that has begun is sent.  Time need not pass.                            *)
FairSpec ==
  /\ Spec
  /\ \A c \in Callers : WF_vars(Send(c))
  /\ \A t \in Threads : WF_vars(Resolver(t))
  /\ WF_vars(Cleanup)

-----------------------------------------------------------------------------
(* Properties.                                                             *)

ThreadPcs == {"loop", "recv", "check", "mark", "lookup", "ended"}
CleanupPcs == {"sleep", "retain", "list", "remove", "ended"}

(* Every variable has its type, and a thread has an address exactly while  *)
(* it works on one.                                                        *)
TypeOK ==
  /\ cache \in [Ips -> Entry \cup {NoEntry}]
  /\ queue \in Seq(Ips)
  /\ caller \in [Callers -> Ips \cup {NoIp}]
  /\ thread \in [Threads -> [pc : ThreadPcs, ip : Ips \cup {NoIp}]]
  /\ \A t \in Threads : thread[t].ip # NoIp <=> thread[t].pc \in {"check", "mark", "lookup"}
  /\ cleanup \in [pc : CleanupPcs, todo : SUBSET Ips, ages : [Ips -> 0..AgeCap \cup {NoEntry}]]
  /\ dropped \in BOOLEAN
  /\ grown \subseteq Ips

(* A pending entry, which keeps everybody from asking again, always has a  *)
(* thread that is looking its address up and will replace it.              *)
PendingHasWorker ==
  \A ip \in Cached :
    cache[ip].state = "pending" =>
      \E t \in Threads : thread[t].pc = "lookup" /\ thread[t].ip = ip

(* When a cleanup ends the cache exceeds max_cache_size only by addresses  *)
(* that were inserted since cleanup decided to evict.                      *)
CacheBound ==
  [][cleanup.pc # "sleep" /\ cleanup'.pc = "sleep" =>
       Cardinality(Cached') <= MaxCacheSize + Cardinality(grown)]_vars

(* An answer that has not expired.                                         *)
Answered(ip) ==
  /\ ip \in Cached
  /\ \/ cache[ip].state = "resolved" /\ cache[ip].age < CacheTtl
     \/ cache[ip].state = "failed" /\ cache[ip].age < NegativeCacheTtl

(* An address that was asked for gets a fresh answer, if the resolver      *)
(* lives on: expiry, eviction and other threads' answers cannot lose it.   *)
RequestAnswered ==
  \A ip \in Ips :
    (\E i \in DOMAIN queue : queue[i] = ip) ~> (dropped \/ Answered(ip))

(* "Stop the resolver": every thread ends once the resolver is dropped.    *)
DropEndsThreads ==
  dropped ~> (cleanup.pc = "ended" /\ \A t \in Threads : thread[t].pc = "ended")
=============================================================================
