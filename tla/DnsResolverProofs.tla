------------------------- MODULE DnsResolverProofs --------------------------
(***************************************************************************)
(* For every number of resolver threads, callers and addresses: the types  *)
(* of DnsResolver, that a pending entry always has its worker, and how far *)
(* the cache can exceed its limit after a cleanup.                         *)
(***************************************************************************)
EXTENDS DnsResolver, FiniteSetTheorems, TLAPS

Ages == 0..AgeCap

-----------------------------------------------------------------------------
(* Ages are natural numbers up to a cap that is at least one.              *)
LEMMA AgeFacts ==
  /\ AgeCap \in Nat \ {0}
  /\ 0 \in Ages
  /\ \A a \in Ages : Older(a) \in Ages
BY DnsAssumption DEF AgeCap, Longest, Ages, Older

(* A new entry, and an entry after a tick, are entries.                    *)
LEMMA EntryFacts ==
  /\ \A s \in {"pending", "resolved", "failed"} : [state |-> s, age |-> 0] \in Entry
  /\ \A e \in Entry : [e EXCEPT !.age = Older(@)] \in Entry
BY AgeFacts DEF Entry, Ages

ThreadState == [pc : ThreadPcs, ip : Ips \cup {NoIp}]
CleanupState == [pc : CleanupPcs, todo : SUBSET Ips, ages : [Ips -> Ages \cup {NoEntry}]]

(* Moving a thread on, with or without an address, keeps its record.       *)
LEMMA ThreadFacts ==
  ASSUME NEW f \in [Threads -> ThreadState], NEW t \in Threads
  PROVE  /\ \A p \in ThreadPcs : [f EXCEPT ![t].pc = p] \in [Threads -> ThreadState]
         /\ \A r \in ThreadState : [f EXCEPT ![t] = r] \in [Threads -> ThreadState]
BY DEF ThreadState

(* What cleanup and a tick do to the cleanup thread's record.              *)
LEMMA CleanupFacts ==
  ASSUME NEW c \in CleanupState
  PROVE  /\ \A p \in CleanupPcs : [c EXCEPT !.pc = p] \in CleanupState
         /\ \A T \in SUBSET Ips : [c EXCEPT !.todo = T] \in CleanupState
         /\ \A p \in CleanupPcs, T \in SUBSET Ips :
              [c EXCEPT !.pc = p, !.todo = T] \in CleanupState
         /\ \A A \in [Ips -> Ages \cup {NoEntry}] : [c EXCEPT !.ages = A] \in CleanupState
BY DEF CleanupState

-----------------------------------------------------------------------------
(* Type correctness.  The conjunct on addresses is the one that needs the  *)
(* steps of a resolver thread in turn.                                     *)
LEMMA TypeInit == Init => TypeOK
<1> SUFFICES ASSUME Init PROVE TypeOK
  OBVIOUS
<1>1. [ip \in Ips |-> NoEntry] \in [Ips -> Ages \cup {NoEntry}]
  OBVIOUS
<1>2. cleanup \in CleanupState
  BY <1>1 DEF Init, CleanupState, CleanupPcs
<1>3. thread \in [Threads -> ThreadState]
  BY DEF Init, ThreadState, ThreadPcs
<1>4. queue \in Seq(Ips)
  BY DEF Init
<1> QED BY <1>2, <1>3, <1>4 DEF Init, TypeOK, CleanupState, ThreadState, Ages

LEMMA TypeNext == TypeOK /\ [Next]_vars => TypeOK'
<1> SUFFICES ASSUME TypeOK, [Next]_vars PROVE TypeOK'
  OBVIOUS
<1>t. /\ cache \in [Ips -> Entry \cup {NoEntry}]
      /\ queue \in Seq(Ips)
      /\ caller \in [Callers -> Ips \cup {NoIp}]
      /\ thread \in [Threads -> ThreadState]
      /\ cleanup \in CleanupState
      /\ dropped \in BOOLEAN /\ grown \subseteq Ips
  BY DEF TypeOK, ThreadState, CleanupState, Ages
<1>w. \A t \in Threads : thread[t].ip # NoIp <=> thread[t].pc \in {"check", "mark", "lookup"}
  BY DEF TypeOK
<1>s. ASSUME /\ cache' \in [Ips -> Entry \cup {NoEntry}]
             /\ queue' \in Seq(Ips)
             /\ caller' \in [Callers -> Ips \cup {NoIp}]
             /\ thread' \in [Threads -> ThreadState]
             /\ \A t \in Threads :
                  thread'[t].ip # NoIp <=> thread'[t].pc \in {"check", "mark", "lookup"}
             /\ cleanup' \in CleanupState
             /\ dropped' \in BOOLEAN /\ grown' \subseteq Ips
      PROVE  TypeOK'
  BY <1>s DEF TypeOK, ThreadState, CleanupState, Ages
<1>i. ASSUME NEW ip \in Ips, NEW x \in {"pending", "resolved", "failed"}, Insert(ip, x)
      PROVE  cache' \in [Ips -> Entry \cup {NoEntry}] /\ grown' \subseteq Ips
  BY <1>t, <1>i, EntryFacts DEF Insert
<1>1. ASSUME NEW c \in Callers, NEW ip \in Ips, Request(c, ip) PROVE TypeOK'
  BY <1>1, <1>t, <1>w, <1>s DEF Request
<1>2. ASSUME NEW c \in Callers, Send(c) PROVE TypeOK'
  <2>1. caller[c] \in Ips
    BY <1>2, <1>t DEF Send
  <2>2. queue' \in Seq(Ips)
    BY <1>2, <2>1, <1>t DEF Send
  <2>3. caller' \in [Callers -> Ips \cup {NoIp}]
    BY <1>2, <1>t DEF Send
  <2> QED BY <1>2, <2>2, <2>3, <1>t, <1>w, <1>s DEF Send
<1>3. ASSUME NEW t \in Threads, ResolverLoop(t) \/ ResolverIdle(t) PROVE TypeOK'
  <2>1. PICK p \in {"ended", "recv"} : thread' = [thread EXCEPT ![t].pc = p]
    BY <1>3 DEF ResolverLoop, ResolverIdle
  <2>2. thread' \in [Threads -> ThreadState]
    BY <2>1, <1>t, ThreadFacts DEF ThreadPcs
  <2>3. thread[t].pc \in {"loop", "recv"}
    BY <1>3 DEF ResolverLoop, ResolverIdle
  <2>4. \A u \in Threads :
          thread'[u].ip # NoIp <=> thread'[u].pc \in {"check", "mark", "lookup"}
    BY <2>1, <2>3, <1>t, <1>w DEF ThreadState
  <2> QED BY <1>3, <2>2, <2>4, <1>t, <1>s DEF ResolverLoop, ResolverIdle
<1>4. ASSUME NEW t \in Threads, ResolverReceive(t) PROVE TypeOK'
  <2>1. Head(queue) \in Ips /\ Tail(queue) \in Seq(Ips)
    BY <1>4, <1>t DEF ResolverReceive
  <2>2. [pc |-> "check", ip |-> Head(queue)] \in ThreadState
    BY <2>1 DEF ThreadState, ThreadPcs
  <2>3. thread' = [thread EXCEPT ![t] = [pc |-> "check", ip |-> Head(queue)]]
    BY <1>4 DEF ResolverReceive
  <2>4. thread' \in [Threads -> ThreadState]
    BY <2>2, <2>3, <1>t, ThreadFacts
  <2>5. \A u \in Threads :
          thread'[u].ip # NoIp <=> thread'[u].pc \in {"check", "mark", "lookup"}
    BY <2>1, <2>3, <1>t, <1>w, DnsAssumption
  <2> QED BY <1>4, <2>1, <2>4, <2>5, <1>t, <1>s DEF ResolverReceive
<1>5. ASSUME NEW t \in Threads, ResolverCheck(t) PROVE TypeOK'
  <2>1. thread[t].ip \in Ips
    BY <1>5, <1>t, <1>w DEF ResolverCheck, ThreadState
  <2>2. PICK r \in {[pc |-> "loop", ip |-> NoIp], [pc |-> "mark", ip |-> thread[t].ip]} :
          thread' = [thread EXCEPT ![t] = r]
    BY <1>5 DEF ResolverCheck
  <2>3. r \in ThreadState /\ (r.ip # NoIp <=> r.pc \in {"check", "mark", "lookup"})
    BY <2>1, <2>2, DnsAssumption DEF ThreadState, ThreadPcs
  <2>4. thread' \in [Threads -> ThreadState]
    BY <2>2, <2>3, <1>t, ThreadFacts
  <2>5. \A u \in Threads :
          thread'[u].ip # NoIp <=> thread'[u].pc \in {"check", "mark", "lookup"}
    BY <2>2, <2>3, <1>t, <1>w
  <2> QED BY <1>5, <2>4, <2>5, <1>t, <1>s DEF ResolverCheck
<1>6. ASSUME NEW t \in Threads, ResolverMark(t) PROVE TypeOK'
  <2>1. thread[t].ip \in Ips
    BY <1>6, <1>t, <1>w DEF ResolverMark, ThreadState
  <2>2. thread' = [thread EXCEPT ![t].pc = "lookup"] /\ thread[t].pc = "mark"
    BY <1>6 DEF ResolverMark
  <2>3. thread' \in [Threads -> ThreadState]
    BY <2>2, <1>t, ThreadFacts DEF ThreadPcs
  <2>4. \A u \in Threads :
          thread'[u].ip # NoIp <=> thread'[u].pc \in {"check", "mark", "lookup"}
    BY <2>2, <1>t, <1>w DEF ThreadState
  <2>5. cache' \in [Ips -> Entry \cup {NoEntry}] /\ grown' \subseteq Ips
    BY <1>6, <2>1, <1>i DEF ResolverMark
  <2> QED BY <1>6, <2>3, <2>4, <2>5, <1>t, <1>s DEF ResolverMark
<1>7. ASSUME NEW t \in Threads, ResolverAnswer(t) PROVE TypeOK'
  <2>1. thread[t].ip \in Ips
    BY <1>7, <1>t, <1>w DEF ResolverAnswer, ThreadState
  <2>2. thread' = [thread EXCEPT ![t] = [pc |-> "loop", ip |-> NoIp]]
    BY <1>7 DEF ResolverAnswer
  <2>3. [pc |-> "loop", ip |-> NoIp] \in ThreadState
    BY DEF ThreadState, ThreadPcs
  <2>4. thread' \in [Threads -> ThreadState]
    BY <2>2, <2>3, <1>t, ThreadFacts
  <2>5. \A u \in Threads :
          thread'[u].ip # NoIp <=> thread'[u].pc \in {"check", "mark", "lookup"}
    BY <2>2, <1>t, <1>w
  <2>6. cache' \in [Ips -> Entry \cup {NoEntry}] /\ grown' \subseteq Ips
    BY <1>7, <2>1, <1>i DEF ResolverAnswer
  <2> QED BY <1>7, <2>4, <2>5, <2>6, <1>t, <1>s DEF ResolverAnswer
<1>8. ASSUME CleanupWake \/ CleanupLen PROVE TypeOK'
  <2>1. cleanup' \in CleanupState
    <3>1. \/ \E p \in {"ended", "sleep"} : cleanup' = [cleanup EXCEPT !.pc = p]
          \/ \E p \in {"retain", "list"} : cleanup' = [cleanup EXCEPT !.pc = p, !.todo = Ips]
      BY <1>8 DEF CleanupWake, CleanupLen
    <3>2. {"ended", "sleep", "retain", "list"} \subseteq CleanupPcs
      BY DEF CleanupPcs
    <3> QED BY <3>1, <3>2, <1>t DEF CleanupState
  <2>2. grown' \subseteq Ips
    BY <1>8, <1>t DEF CleanupWake, CleanupLen
  <2> QED BY <1>8, <2>1, <2>2, <1>t, <1>w, <1>s DEF CleanupWake, CleanupLen
<1>9. ASSUME NEW ip \in Ips, CleanupVisit(ip) \/ CleanupRemove(ip) PROVE TypeOK'
  <2>0. cleanup.todo \ {ip} \in SUBSET Ips
    BY <1>t DEF CleanupState
  <2>1. cleanup' \in CleanupState
    <3>1. CASE CleanupVisit(ip)
      BY <3>1, <2>0, <1>t, CleanupFacts DEF CleanupVisit
    <3>2. CASE CleanupRemove(ip)
      <4>1. PICK p \in {"sleep", "remove"} :
              cleanup' = [cleanup EXCEPT !.todo = @ \ {ip}, !.pc = p]
        BY <3>2 DEF CleanupRemove
      <4>2. p \in CleanupPcs
        BY <4>1 DEF CleanupPcs
      <4> QED BY <4>1, <4>2, <2>0, <1>t DEF CleanupState
    <3> QED BY <1>9, <3>1, <3>2
  <2>2. cache' \in [Ips -> Entry \cup {NoEntry}]
    BY <1>9, <1>t DEF CleanupVisit, CleanupRemove
  <2> QED BY <1>9, <2>1, <2>2, <1>t, <1>w, <1>s DEF CleanupVisit, CleanupRemove
<1>10. ASSUME NEW ip \in Ips, CleanupList(ip) PROVE TypeOK'
  <2>1. ip \in Cached => cache[ip].age \in Ages
    BY <1>t DEF Cached, Entry, Ages
  <2>0. cleanup.todo \ {ip} \in SUBSET Ips
    BY <1>t DEF CleanupState
  <2>2. cleanup' \in CleanupState
    <3>1. PICK x \in Ages \cup {NoEntry} :
            cleanup' = [cleanup EXCEPT !.todo = @ \ {ip}, !.ages[ip] = x]
      BY <1>10, <2>1 DEF CleanupList
    <3>2. [cleanup.ages EXCEPT ![ip] = x] \in [Ips -> Ages \cup {NoEntry}]
      BY <1>t DEF CleanupState
    <3> QED BY <3>1, <3>2, <2>0, <1>t DEF CleanupState
  <2> QED BY <1>10, <2>2, <1>t, <1>w, <1>s DEF CleanupList
<1>11. ASSUME CleanupPlan PROVE TypeOK'
  <2>1. PICK V \in SUBSET Listed :
          cleanup' = [pc |-> "remove", todo |-> V, ages |-> [ip \in Ips |-> NoEntry]]
    BY <1>11 DEF CleanupPlan
  <2>2. cleanup' \in CleanupState
    BY <2>1 DEF CleanupState, CleanupPcs, Listed
  <2> QED BY <1>11, <2>2, <1>t, <1>w, <1>s DEF CleanupPlan
<1>12. ASSUME Drop PROVE TypeOK'
  BY <1>12, <1>t, <1>w, <1>s DEF Drop
<1>13. ASSUME Tick PROVE TypeOK'
  <2>1. cache' \in [Ips -> Entry \cup {NoEntry}]
    BY <1>13, <1>t, EntryFacts DEF Tick, Cached
  <2> DEFINE A == [ip \in Ips |-> IF ip \in Listed THEN Older(cleanup.ages[ip]) ELSE NoEntry]
  <2>2. \A ip \in Listed : ip \in Ips /\ cleanup.ages[ip] \in Ages
    BY <1>t DEF Listed, CleanupState
  <2>3. A \in [Ips -> Ages \cup {NoEntry}]
    BY <2>2, AgeFacts
  <2>4. cleanup' = [cleanup EXCEPT !.ages = A]
    BY <1>13 DEF Tick
  <2>5. cleanup' \in CleanupState
    <3> HIDE DEF A
    <3> QED BY <2>3, <2>4, <1>t, CleanupFacts
  <2> QED BY <1>13, <2>1, <2>5, <1>t, <1>w, <1>s DEF Tick
<1>14. ASSUME UNCHANGED vars PROVE TypeOK'
  BY <1>14, <1>t, <1>w, <1>s DEF vars
<1> QED BY <1>1, <1>2, <1>3, <1>4, <1>5, <1>6, <1>7, <1>8, <1>9, <1>10, <1>11, <1>12,
           <1>13, <1>14 DEF Next, Resolver, Cleanup

(* DnsResolver's variables keep their types, and a resolver thread has an  *)
(* address exactly while it checks, marks or looks one up.                 *)
THEOREM DnsTypeCorrect == Spec => []TypeOK
BY TypeInit, TypeNext, PTL DEF Spec

-----------------------------------------------------------------------------
(* A pending entry has its worker.                                         *)

Working(ip) == \E t \in Threads : thread[t].pc = "lookup" /\ thread[t].ip = ip

LEMMA PendingNext == TypeOK /\ PendingHasWorker /\ [Next]_vars => PendingHasWorker'
<1> SUFFICES ASSUME TypeOK, PendingHasWorker, [Next]_vars,
                    NEW ip \in Ips, cache'[ip] # NoEntry, cache'[ip].state = "pending"
             PROVE  Working(ip)'
  BY DEF PendingHasWorker, Cached, Working
<1>t. cache \in [Ips -> Entry \cup {NoEntry}] /\ thread \in [Threads -> ThreadState]
  BY DEF TypeOK, ThreadState
<1>p. cache[ip] # NoEntry /\ cache[ip].state = "pending" => Working(ip)
  BY DEF PendingHasWorker, Cached, Working
(* A step that marks nothing and ends no look-up.                          *)
<1>k. ASSUME cache'[ip] = cache[ip],
             \A t \in Threads : thread[t].pc = "lookup" => thread'[t] = thread[t]
      PROVE  Working(ip)'
  BY <1>k, <1>p DEF Working
<1>1. ASSUME NEW c \in Callers, Send(c) \/ \E x \in Ips : Request(c, x) PROVE Working(ip)'
  BY <1>1, <1>k DEF Send, Request
<1>2. ASSUME NEW t \in Threads, ResolverLoop(t) \/ ResolverIdle(t) \/ ResolverReceive(t)
                                  \/ ResolverCheck(t)
      PROVE  Working(ip)'
  <2>1. cache' = cache /\ thread[t].pc # "lookup"
    BY <1>2 DEF ResolverLoop, ResolverIdle, ResolverReceive, ResolverCheck
  <2>2. \A u \in Threads : u # t => thread'[u] = thread[u]
    BY <1>2, <1>t DEF ResolverLoop, ResolverIdle, ResolverReceive, ResolverCheck
  <2> QED BY <2>1, <2>2, <1>k
<1>3. ASSUME NEW t \in Threads, ResolverMark(t) PROVE Working(ip)'
  <2>1. /\ thread' = [thread EXCEPT ![t].pc = "lookup"] /\ thread[t].pc = "mark"
        /\ cache' = [cache EXCEPT ![thread[t].ip] = [state |-> "pending", age |-> 0]]
    BY <1>3 DEF ResolverMark, Insert
  <2>2. CASE thread[t].ip = ip
    <3>1. thread'[t].pc = "lookup" /\ thread'[t].ip = ip
      BY <2>1, <2>2, <1>t DEF ThreadState
    <3> QED BY <3>1 DEF Working
  <2>3. CASE thread[t].ip # ip
    BY <2>1, <2>3, <1>t, <1>k
  <2> QED BY <2>2, <2>3
<1>4. ASSUME NEW t \in Threads, ResolverAnswer(t) PROVE Working(ip)'
  <2>1. PICK x \in {"resolved", "failed"} :
          cache' = [cache EXCEPT ![thread[t].ip] = [state |-> x, age |-> 0]]
    BY <1>4 DEF ResolverAnswer, Insert
  <2>2. thread[t].ip # ip
    BY <2>1, <1>t
  <2>3. cache'[ip] = cache[ip] /\ \A u \in Threads : u # t => thread'[u] = thread[u]
    BY <1>4, <2>1, <2>2, <1>t DEF ResolverAnswer
  <2>4. PICK u \in Threads : thread[u].pc = "lookup" /\ thread[u].ip = ip
    BY <2>3, <1>p DEF Working
  <2> QED BY <2>2, <2>3, <2>4 DEF Working
<1>5. ASSUME Cleanup PROVE Working(ip)'
  <2>1. thread' = thread
    BY <1>5 DEF Cleanup, CleanupWake, CleanupLen, CleanupPlan, CleanupVisit, CleanupList,
                CleanupRemove
  <2>2. cache'[ip] \in {cache[ip], NoEntry}
    BY <1>5, <1>t DEF Cleanup, CleanupWake, CleanupLen, CleanupPlan, CleanupVisit,
                      CleanupList, CleanupRemove
  <2> QED BY <2>1, <2>2, <1>k
<1>6. ASSUME Tick PROVE Working(ip)'
  <2>1. cache[ip] # NoEntry /\ cache'[ip].state = cache[ip].state
    BY <1>6, <1>t DEF Tick, Cached, Entry
  <2> QED BY <1>6, <2>1, <1>p DEF Tick, Working
<1>7. ASSUME Drop \/ UNCHANGED vars PROVE Working(ip)'
  BY <1>7, <1>k DEF Drop, vars
<1> QED BY <1>1, <1>2, <1>3, <1>4, <1>5, <1>6, <1>7 DEF Next, Resolver

(* A pending entry stops request_resolution and the other resolver threads *)
(* from looking its address up; there always is a thread that will replace *)
(* it, whatever expiry, eviction and racing threads do to the cache.       *)
THEOREM PendingHasWorkerCorrect == Spec => []PendingHasWorker
<1>1. Init => PendingHasWorker
  BY DEF Init, PendingHasWorker, Cached
<1> QED BY <1>1, TypeInit, TypeNext, PendingNext, PTL DEF Spec

-----------------------------------------------------------------------------
(* The bound on the cache.  While cleanup lists, every address that was    *)
(* not inserted since is still to be visited or on the list; while it      *)
(* removes, the addresses neither to be removed nor inserted since fit.    *)
EvictInv ==
  /\ cleanup.pc # "list" => Listed = {}
  /\ cleanup.pc = "list" => /\ Cached \ grown \subseteq cleanup.todo \cup Listed
                            /\ Listed \subseteq Cached
  /\ cleanup.pc = "remove" => Cardinality(Cached \ (cleanup.todo \cup grown)) <= MaxCacheSize

(* Sets of addresses are finite, and counted as one expects.               *)
LEMMA CountFacts ==
  /\ \A S \in SUBSET Ips : IsFiniteSet(S) /\ Cardinality(S) \in Nat
  /\ \A S, T \in SUBSET Ips : S \subseteq T =>
       /\ Cardinality(S) <= Cardinality(T)
       /\ Cardinality(T \ S) = Cardinality(T) - Cardinality(S)
  /\ \A S, T \in SUBSET Ips : Cardinality(S \cup T) <= Cardinality(S) + Cardinality(T)
<1>1. ASSUME NEW S \in SUBSET Ips PROVE IsFiniteSet(S) /\ Cardinality(S) \in Nat
  BY DnsAssumption, FS_Subset, FS_CardinalityType
<1>2. ASSUME NEW S \in SUBSET Ips, NEW T \in SUBSET Ips, S \subseteq T
      PROVE  /\ Cardinality(S) <= Cardinality(T)
             /\ Cardinality(T \ S) = Cardinality(T) - Cardinality(S)
  <2>1. T \cap S = S
    BY <1>2
  <2>2. Cardinality(T \ S) = Cardinality(T) - Cardinality(T \cap S)
    BY <1>1, FS_Difference
  <2>3. Cardinality(S) <= Cardinality(T)
    BY <1>1, <1>2, FS_Subset
  <2> QED BY <2>1, <2>2, <2>3
<1>3. ASSUME NEW S \in SUBSET Ips, NEW T \in SUBSET Ips
      PROVE  Cardinality(S \cup T) <= Cardinality(S) + Cardinality(T)
  <2>1. /\ Cardinality(S \cup T) = Cardinality(S) + Cardinality(T) - Cardinality(S \cap T)
    BY <1>1, FS_Union
  <2>2. S \cap T \in SUBSET Ips
    OBVIOUS
  <2>3. Cardinality(S \cap T) \in Nat /\ Cardinality(S) \in Nat /\ Cardinality(T) \in Nat
    BY <2>2, <1>1
  <2> QED BY <2>1, <2>3
<1> QED BY <1>1, <1>2, <1>3

(* An insertion counts as growth unless the address was cached already.    *)
LEMMA InsertFacts ==
  ASSUME TypeOK, NEW ip \in Ips, NEW s \in {"pending", "resolved", "failed"}, Insert(ip, s)
  PROVE  /\ Cached' = Cached \cup {ip}
         /\ Evicting => grown' = grown \cup (Cached' \ Cached)
<1>1. [state |-> s, age |-> 0] # NoEntry
  BY EntryFacts, DnsAssumption
<1>2. cache' = [cache EXCEPT ![ip] = [state |-> s, age |-> 0]] /\ DOMAIN cache = Ips
  BY DEF Insert, TypeOK
<1>3. Cached' = Cached \cup {ip}
  BY <1>1, <1>2 DEF Cached
<1> QED BY <1>3 DEF Insert

(* Only insertions happen beside the cleanup thread.                       *)
LEMMA EvictOthers ==
  ASSUME TypeOK, EvictInv, cleanup' = cleanup, Cached \subseteq Cached',
         Cached' \subseteq Ips, Evicting => grown' = grown \cup (Cached' \ Cached)
  PROVE  EvictInv'
<1>1. Listed' = Listed
  BY DEF Listed
<1>2. CASE cleanup.pc = "list"
  BY <1>1, <1>2 DEF EvictInv, Evicting
<1>3. CASE cleanup.pc = "remove"
  <2>1. grown' = grown \cup (Cached' \ Cached)
    BY <1>3 DEF Evicting
  <2>2. Cached' \ (cleanup'.todo \cup grown') = Cached \ (cleanup.todo \cup grown)
    BY <2>1
  <2> QED BY <1>1, <1>3, <2>2 DEF EvictInv
<1>4. CASE cleanup.pc \notin {"list", "remove"}
  BY <1>1, <1>4 DEF EvictInv
<1> QED BY <1>2, <1>3, <1>4

LEMMA EvictNext == TypeOK /\ EvictInv /\ [Next]_vars => EvictInv'
<1> SUFFICES ASSUME TypeOK, EvictInv, [Next]_vars PROVE EvictInv'
  OBVIOUS
<1>t. /\ cache \in [Ips -> Entry \cup {NoEntry}]
      /\ thread \in [Threads -> ThreadState]
      /\ cleanup \in CleanupState /\ grown \subseteq Ips
  BY DEF TypeOK, ThreadState, CleanupState, Ages
<1>c. Cached \subseteq Ips /\ Listed \subseteq Ips /\ cleanup.todo \subseteq Ips
  BY <1>t DEF Cached, Listed, CleanupState
<1>k. ASSUME UNCHANGED <<cache, cleanup, grown>> PROVE EvictInv'
  BY <1>k, <1>c, EvictOthers DEF Cached
<1>1. ASSUME NEW t \in Threads, ResolverMark(t) \/ ResolverAnswer(t) PROVE EvictInv'
  <2>1. thread[t].ip \in Ips
    BY <1>1 DEF ResolverMark, ResolverAnswer, TypeOK
  <2>2. PICK s \in {"pending", "resolved", "failed"} : Insert(thread[t].ip, s)
    BY <1>1 DEF ResolverMark, ResolverAnswer
  <2>3. /\ Cached' = Cached \cup {thread[t].ip}
        /\ Evicting => grown' = grown \cup (Cached' \ Cached)
    BY <2>1, <2>2, InsertFacts
  <2>4. cleanup' = cleanup
    BY <1>1 DEF ResolverMark, ResolverAnswer
  <2> QED BY <2>1, <2>3, <2>4, <1>c, EvictOthers
<1>2. ASSUME CleanupWake \/ CleanupLen PROVE EvictInv'
  <2>1. Cached' = Cached /\ grown' = grown /\ cleanup.pc \notin {"list", "remove"}
    BY <1>2 DEF CleanupWake, CleanupLen, Cached
  <2>2. Listed = {}
    BY <2>1 DEF EvictInv
  <2>3. /\ cleanup'.ages = cleanup.ages
        /\ cleanup'.pc \in {"ended", "sleep", "retain", "list"}
        /\ cleanup'.pc = "list" => cleanup'.todo = Ips
    BY <1>2, <1>t DEF CleanupWake, CleanupLen, CleanupState
  <2>4. Listed' = {}
    BY <2>2, <2>3 DEF Listed
  <2> QED BY <2>1, <2>3, <2>4, <1>c DEF EvictInv
<1>3. ASSUME NEW ip \in Ips, CleanupVisit(ip) PROVE EvictInv'
  <2>1. /\ cleanup.pc = "retain" /\ cleanup'.pc = "retain" /\ cleanup'.ages = cleanup.ages
    BY <1>3, <1>t DEF CleanupVisit, CleanupState
  <2>2. Listed' = Listed
    BY <2>1 DEF Listed
  <2> QED BY <2>1, <2>2 DEF EvictInv
<1>4. ASSUME NEW ip \in Ips, CleanupList(ip) PROVE EvictInv'
  <2>1. /\ cleanup.pc = "list" /\ cleanup'.pc = "list" /\ cleanup'.todo = cleanup.todo \ {ip}
        /\ cleanup'.ages = [cleanup.ages EXCEPT ![ip] = IF ip \in Cached THEN cache[ip].age
                                                                         ELSE NoEntry]
        /\ Cached' = Cached /\ grown' = grown
    BY <1>4, <1>t DEF CleanupList, CleanupState, Cached
  <2>2. cleanup.ages \in [Ips -> Ages \cup {NoEntry}]
    BY <1>t DEF CleanupState
  <2>3. ip \in Cached => cache[ip].age # NoEntry
    BY <1>t, DnsAssumption DEF Cached, Entry
  <2>4. Listed' = IF ip \in Cached THEN Listed \cup {ip} ELSE Listed \ {ip}
    BY <2>1, <2>2, <2>3 DEF Listed
  <2> QED BY <2>1, <2>4 DEF EvictInv
<1>5. ASSUME CleanupPlan PROVE EvictInv'
  <2>1. PICK V \in SUBSET Listed :
          /\ IF ToRemove >= Cardinality(Listed) THEN V = Listed
                                                ELSE Cardinality(V) = ToRemove
          /\ cleanup' = [pc |-> "remove", todo |-> V, ages |-> [ip \in Ips |-> NoEntry]]
    BY <1>5 DEF CleanupPlan
  <2>2. /\ Cached \ grown \subseteq Listed /\ Listed \subseteq Cached
        /\ Cached' = Cached /\ grown' = grown
    BY <1>5 DEF CleanupPlan, EvictInv, Cached
  <2>3. Listed' = {} /\ cleanup'.pc = "remove" /\ cleanup'.todo = V
    BY <2>1 DEF Listed
  <2>4. /\ Cached \ (V \cup grown) \in SUBSET Ips /\ Cached \ V \in SUBSET Ips
        /\ Cached \ (V \cup grown) \subseteq Cached \ V
        /\ V \in SUBSET Ips /\ V \subseteq Cached /\ Cached \in SUBSET Ips
    BY <2>2, <1>c
  <2>5. Cardinality(Cached \ (V \cup grown)) <= MaxCacheSize
    <3>1. CASE V = Listed
      <4>1. Cached \ (V \cup grown) = {}
        BY <3>1, <2>2
      <4> QED BY <4>1, FS_EmptySet, DnsAssumption
    <3>2. CASE Cardinality(V) = Cardinality(Cached) - MaxCacheSize
      <4>1. Cardinality(Cached \ V) = Cardinality(Cached) - Cardinality(V)
        BY <2>4, CountFacts
      <4>2. Cardinality(Cached \ (V \cup grown)) <= Cardinality(Cached \ V)
        BY <2>4, CountFacts
      <4>3. /\ Cardinality(Cached) \in Nat /\ Cardinality(Cached \ V) \in Nat
            /\ Cardinality(Cached \ (V \cup grown)) \in Nat /\ MaxCacheSize \in Nat
        BY <2>4, CountFacts, DnsAssumption
      <4> QED BY <4>1, <4>2, <4>3, <3>2
    <3> QED BY <2>1, <3>1, <3>2 DEF ToRemove
  <2> QED BY <2>2, <2>3, <2>5 DEF EvictInv
<1>6. ASSUME NEW ip \in Ips, CleanupRemove(ip) PROVE EvictInv'
  <2>1. /\ cleanup.pc = "remove" /\ cleanup'.pc \in {"sleep", "remove"}
        /\ cleanup'.todo = cleanup.todo \ {ip} /\ cleanup'.ages = cleanup.ages
        /\ cleanup'.pc = "remove" => grown' = grown
        /\ ip \in cleanup.todo
    BY <1>6, <1>t DEF CleanupRemove, CleanupState
  <2>2. Cached' = Cached \ {ip}
    BY <1>6, <1>t DEF CleanupRemove, Cached
  <2>3. Listed' = {}
    BY <2>1 DEF EvictInv, Listed
  <2>4. cleanup'.pc = "remove" =>
          Cached' \ (cleanup'.todo \cup grown') = Cached \ (cleanup.todo \cup grown)
    BY <2>1, <2>2
  <2> QED BY <2>1, <2>3, <2>4 DEF EvictInv
<1>7. ASSUME Tick PROVE EvictInv'
  <2>1. cleanup' = [cleanup EXCEPT !.ages =
          [ip \in Ips |-> IF ip \in Listed THEN Older(cleanup.ages[ip]) ELSE NoEntry]]
    BY <1>7 DEF Tick
  <2>2. \A ip \in Listed : Older(cleanup.ages[ip]) # NoEntry
    <3>1. \A ip \in Listed : cleanup.ages[ip] \in Ages
      BY <1>t DEF Listed, CleanupState
    <3> QED BY <3>1, AgeFacts, DnsAssumption DEF Ages
  <2>3. cleanup'.pc = cleanup.pc /\ cleanup'.todo = cleanup.todo
    BY <2>1, <1>t DEF CleanupState
  <2>4. \A ip \in Ips : cleanup'.ages[ip] = IF ip \in Listed THEN Older(cleanup.ages[ip])
                                                            ELSE NoEntry
    BY <2>1, <1>t DEF CleanupState
  <2>5. Listed' = Listed
    BY <2>2, <2>4, <1>c DEF Listed
  <2>6. Cached' = Cached
    <3>1. \A ip \in Cached : [cache[ip] EXCEPT !.age = Older(@)] # NoEntry
      BY <1>t, EntryFacts, DnsAssumption DEF Cached
    <3>2. \A ip \in Ips : cache'[ip] = IF ip \in Cached
                                      THEN [cache[ip] EXCEPT !.age = Older(@)]
                                      ELSE NoEntry
      BY <1>7 DEF Tick
    <3> QED BY <3>1, <3>2 DEF Cached
  <2>7. grown' = grown
    BY <1>7 DEF Tick
  <2> QED BY <2>3, <2>5, <2>6, <2>7 DEF EvictInv
<1>8. ASSUME \/ \E c \in Callers : Send(c) \/ \E ip \in Ips : Request(c, ip)
             \/ \E t \in Threads : \/ ResolverLoop(t) \/ ResolverReceive(t)
                                   \/ ResolverIdle(t) \/ ResolverCheck(t)
             \/ Drop
             \/ UNCHANGED vars
      PROVE  EvictInv'
  <2>1. UNCHANGED <<cache, cleanup, grown>>
    BY <1>8 DEF Send, Request, ResolverLoop, ResolverReceive, ResolverIdle, ResolverCheck,
                Drop, vars
  <2> QED BY <2>1, <1>k
<1> QED BY <1>1, <1>2, <1>3, <1>4, <1>5, <1>6, <1>7, <1>8 DEF Next, Resolver, Cleanup

(* A step that ends a cleanup pass leaves at most the limit and the growth.*)
LEMMA BoundStep ==
  ASSUME TypeOK, EvictInv, [Next]_vars, cleanup.pc # "sleep", cleanup'.pc = "sleep"
  PROVE  Cardinality(Cached') <= MaxCacheSize + Cardinality(grown)
<1>t. cleanup \in CleanupState /\ cache \in [Ips -> Entry \cup {NoEntry}]
  BY DEF TypeOK, CleanupState, Ages
<1>c. /\ Cached \in SUBSET Ips /\ grown \in SUBSET Ips /\ MaxCacheSize \in Nat
      /\ Cardinality(grown) \in Nat /\ Cardinality(Cached) \in Nat
  BY CountFacts, DnsAssumption DEF TypeOK, Cached
<1>1. CASE CleanupLen
  <2>1. Cardinality(Cached) <= MaxCacheSize /\ Cached' = Cached
    BY <1>1, <1>t, <1>c DEF CleanupLen, CleanupState, Cached
  <2> QED BY <2>1, <1>c
<1>2. ASSUME NEW ip \in Ips, CleanupRemove(ip)
      PROVE  Cardinality(Cached') <= MaxCacheSize + Cardinality(grown)
  <2>1. cleanup.todo = {ip} /\ cleanup.pc = "remove"
    BY <1>2, <1>t DEF CleanupRemove, CleanupState
  <2>2. Cached' = Cached \ {ip}
    BY <1>2, <1>t DEF CleanupRemove, Cached
  <2> DEFINE R == Cached \ (cleanup.todo \cup grown)
  <2>3. R \in SUBSET Ips /\ R \cup grown \in SUBSET Ips /\ Cached' \in SUBSET Ips
        /\ Cached' \subseteq R \cup grown
    BY <2>1, <2>2, <1>c
  <2>4. Cardinality(R) <= MaxCacheSize
    BY <2>1 DEF EvictInv
  <2> HIDE DEF R
  <2>5. /\ Cardinality(Cached') <= Cardinality(R \cup grown)
        /\ Cardinality(R \cup grown) <= Cardinality(R) + Cardinality(grown)
    BY <2>3, <1>c, CountFacts
  <2>6. /\ Cardinality(R) \in Nat /\ Cardinality(R \cup grown) \in Nat
        /\ Cardinality(Cached') \in Nat
    BY <2>3, CountFacts
  <2> QED BY <2>4, <2>5, <2>6, <1>c
<1>3. ASSUME NEW ip \in Ips, CleanupVisit(ip) \/ CleanupList(ip) PROVE FALSE
  BY <1>3, <1>t DEF CleanupVisit, CleanupList, CleanupState
<1>4. ASSUME CleanupWake \/ CleanupPlan \/ Tick PROVE FALSE
  BY <1>4, <1>t DEF CleanupWake, CleanupPlan, Tick, CleanupState
<1>5. ASSUME cleanup' = cleanup PROVE FALSE
  BY <1>5
<1>6. ASSUME NEW t \in Threads, Resolver(t) PROVE cleanup' = cleanup
  BY <1>6 DEF Resolver, ResolverLoop, ResolverReceive, ResolverIdle, ResolverCheck,
              ResolverMark, ResolverAnswer
<1>7. ASSUME \/ \E c \in Callers : Send(c) \/ \E ip \in Ips : Request(c, ip)
             \/ Drop \/ UNCHANGED vars
      PROVE  cleanup' = cleanup
  BY <1>7 DEF Send, Request, Drop, vars
<1> QED BY <1>1, <1>2, <1>3, <1>4, <1>5, <1>6, <1>7 DEF Next, Cleanup

(* When start_cache_cleanup_thread goes back to sleep the cache exceeds    *)
(* max_cache_size only by addresses that resolver threads inserted since   *)
(* it read the cache's length, for any number of addresses and threads.    *)
THEOREM CacheBoundCorrect == Spec => CacheBound
<1>1. Init => EvictInv
  BY DEF Init, EvictInv, Listed
<1>2. TypeOK /\ EvictInv /\ [Next]_vars =>
        [cleanup.pc # "sleep" /\ cleanup'.pc = "sleep" =>
           Cardinality(Cached') <= MaxCacheSize + Cardinality(grown)]_vars
  BY BoundStep
<1> QED BY <1>1, <1>2, TypeInit, TypeNext, EvictNext, PTL DEF Spec, CacheBound
=============================================================================
