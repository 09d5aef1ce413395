----------------------- MODULE ConnectionTrackerProofs ----------------------
(***************************************************************************)
(* Theorems about ConnectionTracker, for every set of threads, keys,       *)
(* connection IDs and packets and every value of the limits.               *)
(***************************************************************************)
EXTENDS ConnectionTracker, FiniteSetTheorems, TLAPS

(* A SYN waits in the estimator since an instant that has passed; without  *)
(* it the measured RTT need not be a natural number.                       *)
SynsPast == \A k \in Keys : rtt.pending[k] # NoTime => rtt.pending[k] <= now

TypeInv == TypeOK /\ SynsPast

-----------------------------------------------------------------------------
(* The operators of RttTracker keep its record well formed.                *)

LEMMA CleanupStaleType ==
  ASSUME NEW p \in [Keys -> Nat \cup {NoTime}], NEW n \in Nat
  PROVE  CleanupStale(p, n) \in [Keys -> Nat \cup {NoTime}]
BY DEF CleanupStale

LEMMA RecordSynType ==
  ASSUME NEW r \in RttState, NEW k \in Keys, NEW n \in Nat
  PROVE  /\ RecordSyn(r, k, n) \in RttState
         /\ \A j \in Keys : RecordSyn(r, k, n).pending[j]
                              \in {n, r.pending[j], NoTime}
<1>1. [r.pending EXCEPT ![k] = n] \in [Keys -> Nat \cup {NoTime}]
  BY DEF RttState
<1>2. CleanupStale([r.pending EXCEPT ![k] = n], n) \in [Keys -> Nat \cup {NoTime}]
  BY <1>1, CleanupStaleType
<1> QED
  BY <1>1, <1>2 DEF RecordSyn, RttState, CleanupStale

LEMMA RecordSynAckType ==
  ASSUME NEW r \in RttState, NEW k \in Keys, NEW n \in Nat,
         r.pending[k] # NoTime => r.pending[k] <= n
  PROVE  /\ RecordSynAck(r, k, n) \in RttState
         /\ MeasuredRtt(r, k, n) \in Nat \cup {NoTime}
         /\ \A j \in Keys : RecordSynAck(r, k, n).pending[j]
                              \in {r.pending[j], NoTime}
<1>1. CASE r.pending[k] = NoTime
  BY <1>1 DEF RecordSynAck, MeasuredRtt, RttState
<1>2. CASE r.pending[k] # NoTime
  <2>1. r.pending[k] \in Nat /\ n - r.pending[k] \in Nat
    BY <1>2 DEF RttState
  <2>2. [at |-> n, rtt |-> n - r.pending[k]] \in Sample
    BY <2>1 DEF Sample
  <2>3. r.recent \in Seq(Sample)
    BY DEF RttState
  <2>4. (IF Len(r.recent) >= MaxRecentRtts THEN Tail(r.recent) ELSE r.recent)
           \in Seq(Sample)
    <3>1. CASE Len(r.recent) >= MaxRecentRtts
      <4>1. r.recent # << >>
        BY <3>1, RttAssumption
      <4> QED
        BY <2>3, <3>1, <4>1
    <3>2. CASE ~(Len(r.recent) >= MaxRecentRtts)
      BY <2>3, <3>2
    <3> QED
      BY <3>1, <3>2
  <2>5. AddRttSample(r.recent, [at |-> n, rtt |-> n - r.pending[k]]) \in Seq(Sample)
    BY <2>2, <2>4 DEF AddRttSample
  <2> QED
    BY <1>2, <2>1, <2>5 DEF RecordSynAck, MeasuredRtt, RttState
<1> QED
  BY <1>1, <1>2

-----------------------------------------------------------------------------
(* Type correctness.                                                       *)

LEMMA LocalsNotNone == NoLocals \notin Locals
BY DEF NoLocals, Locals

LEMMA TypeInit == Init => TypeInv
<1> SUFFICES ASSUME Init PROVE TypeInv
  OBVIOUS
<1>1. rtt \in RttState
  BY DEF Init, RttNew, RttState
<1>2. SynsPast
  BY DEF Init, RttNew, SynsPast
<1>3. cl \in [pc : CleanupPcs, now : Nat, visited : SUBSET Keys,
            removed : SUBSET Keys, archive : SUBSET HistoricEntry,
            entries : SUBSET HistoricEntry]
  BY DEF Init, CleanupIdle, CleanupPcs
<1> QED
  BY <1>1, <1>2, <1>3 DEF Init, TypeInv, TypeOK, IngestPcs, ClearIdle, ClearPcs

LEMMA TypeNext == TypeInv /\ [Next]_vars => TypeInv'
<1> SUFFICES ASSUME TypeInv, [Next]_vars PROVE TypeInv'
  OBVIOUS
<1> USE DEF TypeInv, TypeOK, tables
<1>1. CASE UNCHANGED vars
  BY <1>1 DEF vars, SynsPast
<1>2. ASSUME NEW t \in Threads, NEW p \in Packets, IngestBegin(t, p) PROVE TypeInv'
  <2>1. p.key \in Keys
    BY TrackerAssumption DEF PacketType
  <2>2. [pkt |-> p, ts |-> now, key |-> p.key, rtt |-> NoTime] \in Locals
    BY <2>1 DEF Locals
  <2> QED
    BY <1>2, <2>2 DEF IngestBegin, AfterRtt, IngestPcs, SynsPast, Locals, NoLocals
<1>3. ASSUME NEW t \in Threads, IngestRtt(t) PROVE TypeInv'
  <2> DEFINE p == loc[t].pkt
  <2>1. loc[t] \in Locals /\ p \in Packets /\ p.key \in Keys
    BY <1>3, TrackerAssumption DEF IngestRtt, Locals, PacketType
  <2>2. CASE p.kind = "syn"
    <3>1. rtt' = RecordSyn(rtt, p.key, now) /\ UNCHANGED <<loc, now>>
      BY <1>3, <2>2 DEF IngestRtt
    <3>2. rtt' \in RttState /\ SynsPast'
      <4>1. /\ rtt' \in RttState
            /\ \A j \in Keys : rtt'.pending[j] \in {now, rtt.pending[j], NoTime}
        BY <2>1, <3>1, RecordSynType
      <4>2. \A j \in Keys : rtt'.pending[j] # NoTime => rtt'.pending[j] <= now
        BY <4>1 DEF SynsPast
      <4> QED
        BY <3>1, <4>1, <4>2 DEF SynsPast
    <3>3. pc' \in [Threads -> IngestPcs] /\ pc[t] # "idle" /\ pc'[t] # "idle"
          /\ \A u \in Threads \ {t} : pc'[u] = pc[u]
      BY <1>3 DEF IngestRtt, AfterRtt, IngestPcs
    <3>4. \A u \in Threads : (pc'[u] = "idle") <=> (loc'[u] = NoLocals)
      BY <3>1, <3>3
    <3> QED
      BY <1>3, <3>1, <3>2, <3>3, <3>4 DEF IngestRtt
  <2>3. CASE p.kind # "syn"
    <3>1. /\ rtt' = RecordSynAck(rtt, p.key, now)
          /\ loc' = [loc EXCEPT ![t].rtt = MeasuredRtt(rtt, p.key, now)]
          /\ UNCHANGED now
      BY <1>3, <2>3 DEF IngestRtt
    <3>2. /\ rtt' \in RttState
          /\ MeasuredRtt(rtt, p.key, now) \in Nat \cup {NoTime}
          /\ SynsPast'
      BY <2>1, <3>1, RecordSynAckType DEF SynsPast
    <3>3. /\ loc'[t] \in Locals
          /\ loc' \in [Threads -> Locals \cup {NoLocals}]
          /\ \A u \in Threads \ {t} : loc'[u] = loc[u]
      BY <2>1, <3>1, <3>2 DEF Locals
    <3>4. pc' \in [Threads -> IngestPcs] /\ pc[t] # "idle" /\ pc'[t] # "idle"
          /\ \A u \in Threads \ {t} : pc'[u] = pc[u]
      BY <1>3 DEF IngestRtt, AfterRtt, IngestPcs
    <3>5. \A u \in Threads : (pc'[u] = "idle") <=> (loc'[u] = NoLocals)
      BY <3>3, <3>4, LocalsNotNone
    <3> QED
      BY <1>3, <3>2, <3>3, <3>4, <3>5 DEF IngestRtt
  <2> QED
    BY <2>2, <2>3
<1>4. ASSUME NEW t \in Threads, IngestQuic(t) PROVE TypeInv'
  <2> DEFINE c == loc[t].pkt.cid
  <2>1. /\ loc[t] \in Locals /\ c \in Cids \cup {NoCid}
        /\ loc[t].key \in Keys
    BY <1>4, TrackerAssumption DEF IngestQuic, Locals, PacketType
  <2>2. /\ quicMap' \in [Cids -> Keys \cup {NoKey}]
        /\ loc'[t] \in Locals
        /\ loc' \in [Threads -> Locals \cup {NoLocals}]
        /\ \A u \in Threads \ {t} : loc'[u] = loc[u]
    BY <1>4, <2>1 DEF IngestQuic, InsertMapping, Locals
  <2>3. pc' \in [Threads -> IngestPcs] /\ pc[t] # "idle" /\ pc'[t] # "idle"
        /\ \A u \in Threads \ {t} : pc'[u] = pc[u]
    BY <1>4 DEF IngestQuic, IngestPcs
  <2>4. \A u \in Threads : (pc'[u] = "idle") <=> (loc'[u] = NoLocals)
    BY <2>2, <2>3, LocalsNotNone
  <2> QED
    BY <1>4, <2>2, <2>3, <2>4 DEF IngestQuic, SynsPast
<1>5. ASSUME NEW t \in Threads, IngestContains(t) PROVE TypeInv'
  BY <1>5 DEF IngestContains, IngestPcs, SynsPast
<1>6. ASSUME NEW t \in Threads, IngestDrop(t) PROVE TypeInv'
  <2>1. loc[t].key \in Keys
    BY <1>6 DEF IngestDrop, Locals
  <2> QED
    BY <1>6, <2>1 DEF IngestDrop, IngestReturn, IngestPcs, SynsPast
<1>7. ASSUME NEW t \in Threads, IngestAdmit(t) PROVE TypeInv'
  BY <1>7 DEF IngestAdmit, IngestPcs, SynsPast
<1>8. ASSUME NEW t \in Threads, IngestEntry(t) PROVE TypeInv'
  <2>1. loc[t] \in Locals /\ loc[t].pkt \in PacketType
    BY <1>8, TrackerAssumption DEF IngestEntry, Locals
  <2>2. /\ CreateConnection(loc[t].pkt, loc[t].ts, loc[t].rtt) \in Connection
        /\ \A c \in Connection :
             MergePacket(c, loc[t].pkt, loc[t].ts, loc[t].rtt) \in Connection
    BY <2>1 DEF CreateConnection, MergePacket, Connection, Locals, PacketType
  <2>3. conns' \in [Keys -> Connection \cup {NoConn}]
    BY <1>8, <2>1, <2>2 DEF IngestEntry, Locals
  <2> QED
    BY <1>8, <2>3 DEF IngestEntry, IngestReturn, IngestPcs, SynsPast
<1>9. CASE CleanupBegin
  BY <1>9 DEF CleanupBegin, CleanupIdle, CleanupPcs, SynsPast
<1>10. ASSUME NEW k \in Keys, CleanupVisit(k) PROVE TypeInv'
  <2>1. conns[k] # NoConn =>
          [key |-> k, conn |-> conns[k], closed |-> cl.now] \in HistoricEntry
    BY DEF HistoricEntry
  <2>2. cl' \in [pc : CleanupPcs, now : Nat, visited : SUBSET Keys,
                removed : SUBSET Keys, archive : SUBSET HistoricEntry,
                entries : SUBSET HistoricEntry]
    <3>1. CASE conns[k] # NoConn /\ ShouldCleanup(conns[k], cl.now)
      <4> DEFINE h == [key |-> k, conn |-> conns[k], closed |-> cl.now]
      <4>1. h \in HistoricEntry
        BY <2>1, <3>1
      <4>2. cl' = [cl EXCEPT !.visited = @ \cup {k}, !.removed = @ \cup {k},
                            !.archive = @ \cup {h}]
        BY <1>10, <3>1 DEF CleanupVisit
      <4> HIDE DEF h
      <4> QED
        BY <4>1, <4>2
    <3>2. CASE ~(conns[k] # NoConn /\ ShouldCleanup(conns[k], cl.now))
      BY <1>10, <3>2 DEF CleanupVisit
    <3> QED
      BY <3>1, <3>2
  <2>3. conns' \in [Keys -> Connection \cup {NoConn}]
    BY <1>10 DEF CleanupVisit
  <2> QED
    BY <1>10, <2>2, <2>3 DEF CleanupVisit, SynsPast
<1>11. CASE CleanupSwept
  BY <1>11 DEF CleanupSwept, CleanupPcs, SynsPast
<1>12. ASSUME NEW h \in cl.archive, CleanupArchive(h) PROVE TypeInv'
  BY <1>12 DEF CleanupArchive, SynsPast
<1>13. CASE CleanupCollect
  BY <1>13 DEF CleanupCollect, CleanupPcs, SynsPast
<1>14. CASE CleanupEvict
  BY <1>14 DEF CleanupEvict, CleanupPcs, SynsPast
<1>15. CASE CleanupQuic
  BY <1>15 DEF CleanupQuic, CleanupIdle, CleanupPcs, SynsPast
<1>16. CASE ClearBegin
  BY <1>16 DEF ClearBegin, ClearPcs, SynsPast
<1>17. ASSUME NEW k \in ui.left, ClearConnection(k) PROVE TypeInv'
  BY <1>17 DEF ClearConnection, ClearPcs, SynsPast
<1>18. ASSUME NEW k \in ui.left, ClearHistoric(k) PROVE TypeInv'
  BY <1>18 DEF ClearHistoric, ClearPcs, SynsPast
<1>19. CASE ClearRtt
  <2>1. rtt' \in RttState /\ SynsPast'
    BY <1>19 DEF ClearRtt, RttNew, RttState, SynsPast
  <2> QED
    BY <1>19, <2>1 DEF ClearRtt, ClearPcs
<1>20. CASE ClearQuic
  BY <1>20 DEF ClearQuic, ClearIdle, ClearPcs, SynsPast
<1>21. CASE Tick
  <2>1. SynsPast'
    BY <1>21 DEF Tick, SynsPast, RttState
  <2> QED
    BY <1>21, <2>1 DEF Tick
<1> QED
  BY <1>1, <1>2, <1>3, <1>4, <1>5, <1>6, <1>7, <1>8, <1>9, <1>10, <1>11,
     <1>12, <1>13, <1>14, <1>15, <1>16, <1>17, <1>18, <1>19, <1>20, <1>21
     DEF Next, Ingest, Cleanup, Clear

(* Every reachable state has the shape the code gives it: no table holds a *)
(* malformed entry, every measured RTT is a natural number, and a          *)
(* processor between two packets keeps nothing of the last one.            *)
THEOREM TypeCorrect == Spec => []TypeOK
<1>1. TypeInv => TypeOK
  BY DEF TypeInv
<1> QED
  BY TypeInit, TypeNext, <1>1, PTL DEF Spec

-----------------------------------------------------------------------------
(* The limit on the active table.                                          *)

(* The processors that are past the test of the limit.                     *)
Passed == {t \in Threads : pc[t] = "entry"}

(* The keys of the table and the ones that are about to be in it.          *)
Reserved == Active \cup {loc[t].key : t \in Passed}

(* CapacityBound is not inductive: it does not say how many processors are *)
(* past the test.  Counting their keys with the table's does.              *)
CapacityInv ==
  /\ IsFiniteSet(Reserved)
  /\ Cardinality(Reserved) <= MaxConnections + Cardinality(Threads) - 1

LEMMA ThreadsFinite ==
  IsFiniteSet(Threads) /\ Cardinality(Threads) \in Nat \ {0}
BY TrackerAssumption, FS_CardinalityType, FS_EmptySet

LEMMA CapacityInit == Init => CapacityInv
<1> SUFFICES ASSUME Init PROVE CapacityInv
  OBVIOUS
<1>1. Reserved = {}
  BY DEF Init, Reserved, Active, Passed
<1> QED
  BY <1>1, FS_EmptySet, ThreadsFinite, TrackerAssumption DEF CapacityInv

(* No step but IngestAdmit reserves a new key.                             *)
LEMMA ReservedShrinks ==
  ASSUME TypeInv, [Next]_vars, \A t \in Threads : ~IngestAdmit(t)
  PROVE  Reserved' \subseteq Reserved
<1> USE DEF TypeInv, TypeOK, tables, Reserved, Active, Passed
<1>1. CASE UNCHANGED vars
  BY <1>1 DEF vars
<1>2. ASSUME NEW t \in Threads, NEW p \in Packets, IngestBegin(t, p)
      PROVE  Reserved' \subseteq Reserved
  BY <1>2 DEF IngestBegin, AfterRtt
<1>3. ASSUME NEW t \in Threads, IngestRtt(t) PROVE Reserved' \subseteq Reserved
  BY <1>3 DEF IngestRtt, AfterRtt
<1>4. ASSUME NEW t \in Threads, IngestQuic(t) PROVE Reserved' \subseteq Reserved
  BY <1>4 DEF IngestQuic
<1>5. ASSUME NEW t \in Threads, IngestContains(t) PROVE Reserved' \subseteq Reserved
  BY <1>5 DEF IngestContains
<1>6. ASSUME NEW t \in Threads, IngestDrop(t) PROVE Reserved' \subseteq Reserved
  BY <1>6 DEF IngestDrop, IngestReturn
<1>7. ASSUME NEW t \in Threads, IngestEntry(t) PROVE Reserved' \subseteq Reserved
  <2>1. Active' \subseteq Active \cup {loc[t].key}
    BY <1>7 DEF IngestEntry
  <2>2. \A u \in Passed' : u \in Passed /\ loc'[u] = loc[u]
    BY <1>7 DEF IngestEntry, IngestReturn
  <2> QED
    BY <1>7, <2>1, <2>2 DEF IngestEntry
<1>8. CASE CleanupBegin \/ CleanupSwept \/ CleanupCollect \/ CleanupEvict
           \/ CleanupQuic \/ \E h \in cl.archive : CleanupArchive(h)
  BY <1>8 DEF CleanupBegin, CleanupSwept, CleanupCollect, CleanupEvict,
              CleanupQuic, CleanupArchive
<1>9. ASSUME NEW k \in Keys, CleanupVisit(k) PROVE Reserved' \subseteq Reserved
  BY <1>9 DEF CleanupVisit
<1>10. CASE ClearBegin \/ ClearRtt \/ ClearQuic
            \/ \E k \in ui.left : ClearHistoric(k)
  BY <1>10 DEF ClearBegin, ClearRtt, ClearQuic, ClearHistoric
<1>11. ASSUME NEW k \in ui.left, ClearConnection(k)
       PROVE  Reserved' \subseteq Reserved
  BY <1>11 DEF ClearConnection
<1>12. CASE Tick
  BY <1>12 DEF Tick
<1> QED
  BY <1>1, <1>2, <1>3, <1>4, <1>5, <1>6, <1>7, <1>8, <1>9, <1>10, <1>11, <1>12
     DEF Next, Ingest, Cleanup, Clear

LEMMA CapacityNext == TypeInv /\ CapacityInv /\ [Next]_vars => CapacityInv'
<1> SUFFICES ASSUME TypeInv, CapacityInv, [Next]_vars PROVE CapacityInv'
  OBVIOUS
<1>1. CASE \A t \in Threads : ~IngestAdmit(t)
  <2>1. Reserved' \subseteq Reserved
    BY <1>1, ReservedShrinks
  <2> QED
    BY <2>1, FS_Subset, FS_CardinalityType, ThreadsFinite, TrackerAssumption
       DEF CapacityInv
<1>2. ASSUME NEW t \in Threads, IngestAdmit(t) PROVE CapacityInv'
  <2> DEFINE K == {loc[u].key : u \in Threads}
  <2>1. Active' = Active /\ loc' = loc /\ Cardinality(Active) < MaxConnections
    BY <1>2 DEF IngestAdmit, Active, tables
  <2>2. IsFiniteSet(Active)
    BY FS_Subset DEF CapacityInv, Reserved
  <2>3. IsFiniteSet(K) /\ Cardinality(K) <= Cardinality(Threads)
    <3> DEFINE f == [u \in Threads |-> loc[u].key]
    <3>1. f \in Surjection(Threads, K)
      BY DEF Surjection
    <3> QED
      BY <3>1, FS_Surjection, ThreadsFinite DEF ExistsSurjection
  <2>4. /\ IsFiniteSet(Active \cup K)
        /\ Cardinality(Active \cup K) <= Cardinality(Active) + Cardinality(K)
    <3>1. /\ IsFiniteSet(Active \cup K) /\ IsFiniteSet(Active \cap K)
          /\ Cardinality(Active \cup K) =
               Cardinality(Active) + Cardinality(K) - Cardinality(Active \cap K)
      BY <2>2, <2>3, FS_Union, FS_Intersection
    <3> QED
      BY <2>2, <2>3, <3>1, FS_CardinalityType
  <2>5. Reserved' \subseteq Active \cup K
    BY <2>1 DEF Reserved, Passed
  <2>6. IsFiniteSet(Reserved') /\ Cardinality(Reserved') <= Cardinality(Active \cup K)
    BY <2>4, <2>5, FS_Subset
  <2> QED
    BY <2>1, <2>2, <2>3, <2>4, <2>6, FS_CardinalityType, ThreadsFinite,
       TrackerAssumption DEF CapacityInv
<1> QED
  BY <1>1, <1>2

(* The keys of the table are among those that are counted.                 *)
LEMMA CapacityHolds == CapacityInv => CapacityBound
<1> SUFFICES ASSUME CapacityInv PROVE CapacityBound
  OBVIOUS
<1>1. IsFiniteSet(Active) /\ Cardinality(Active) <= Cardinality(Reserved)
  BY FS_Subset DEF CapacityInv, Reserved
<1> QED
  BY <1>1, FS_CardinalityType, ThreadsFinite, TrackerAssumption
     DEF CapacityInv, CapacityBound

(* Whatever the processors, the cleanup thread and clear do to each other, *)
(* the active table outgrows max_connections by fewer entries than there   *)
(* are processors.                                                         *)
THEOREM CapacityCorrect == Spec => []CapacityBound
BY TypeInit, TypeNext, CapacityInit, CapacityNext, CapacityHolds, PTL DEF Spec

-----------------------------------------------------------------------------
(* The limit on the QUIC connection-ID map.                                *)

QuicMapInv == IsFiniteSet(Mapped) /\ Cardinality(Mapped) <= MaxQuicMappings

LEMMA QuicMapInit == Init => QuicMapInv
<1> SUFFICES ASSUME Init PROVE QuicMapInv
  OBVIOUS
<1>1. Mapped = {}
  BY DEF Init, Mapped
<1> QED
  BY <1>1, FS_EmptySet, TrackerAssumption DEF QuicMapInv

(* How a step may change the map: keep or drop mappings, or insert one     *)
(* for a connection ID that has none.                                      *)
LEMMA QuicMapStep ==
  ASSUME TypeInv, [Next]_vars
  PROVE  \/ \A c \in Cids : quicMap'[c] \in {quicMap[c], NoKey}
         \/ \E c \in Cids \ Mapped, k \in Keys : quicMap' = InsertMapping(quicMap, c, k)
<1> USE DEF TypeInv, TypeOK, tables, Mapped
<1>1. ASSUME NEW t \in Threads, IngestQuic(t)
      PROVE  \/ quicMap' = quicMap
             \/ \E c \in Cids \ Mapped, k \in Keys :
                  quicMap' = InsertMapping(quicMap, c, k)
  <2>1. loc[t].pkt.cid \in Cids \cup {NoCid} /\ loc[t].key \in Keys
    BY <1>1, TrackerAssumption DEF IngestQuic, Locals, PacketType
  <2> QED
    BY <1>1, <2>1 DEF IngestQuic
<1>2. ASSUME NEW t \in Threads, Ingest(t), ~IngestQuic(t) PROVE quicMap' = quicMap
  BY <1>2 DEF Ingest, IngestRtt, IngestContains, IngestDrop, IngestAdmit, IngestEntry
<1>3. CASE CleanupQuic \/ ClearQuic
  BY <1>3 DEF CleanupQuic, ClearQuic
<1>4. CASE Cleanup /\ ~CleanupQuic
  BY <1>4 DEF Cleanup, CleanupBegin, CleanupVisit, CleanupSwept, CleanupArchive,
              CleanupCollect, CleanupEvict
<1>5. CASE (ClearBegin \/ Clear) /\ ~ClearQuic
  BY <1>5 DEF Clear, ClearBegin, ClearConnection, ClearHistoric, ClearRtt
<1>6. CASE \/ UNCHANGED vars
           \/ Tick
           \/ \E t \in Threads, p \in Packets : IngestBegin(t, p)
  BY <1>6 DEF vars, Tick, IngestBegin
<1> QED
  BY <1>1, <1>2, <1>3, <1>4, <1>5, <1>6 DEF Next

LEMMA QuicMapNext == TypeInv /\ QuicMapInv /\ [Next]_vars => QuicMapInv'
<1> SUFFICES ASSUME TypeInv, QuicMapInv, [Next]_vars PROVE QuicMapInv'
  OBVIOUS
<1>1. CASE \A c \in Cids : quicMap'[c] \in {quicMap[c], NoKey}
  <2>1. Mapped' \subseteq Mapped
    BY <1>1 DEF Mapped
  <2> QED
    BY <2>1, FS_Subset, FS_CardinalityType, TrackerAssumption DEF QuicMapInv
<1>2. ASSUME NEW c \in Cids \ Mapped, NEW k \in Keys,
             quicMap' = InsertMapping(quicMap, c, k)
      PROVE  QuicMapInv'
  <2>0. quicMap \in [Cids -> Keys \cup {NoKey}] /\ k # NoKey
    BY TrackerAssumption DEF TypeInv, TypeOK
  <2>1. CASE Cardinality(Mapped) >= MaxQuicMappings
    <3>1. Mapped' = {c}
      <4>1. quicMap' = [[d \in Cids |-> NoKey] EXCEPT ![c] = k]
        BY <1>2, <2>1 DEF InsertMapping, Mapped
      <4> QED
        BY <4>1, <2>0 DEF Mapped
    <3>2. IsFiniteSet({c}) /\ Cardinality({c}) = 1
      BY FS_Singleton
    <3>3. IsFiniteSet(Mapped') /\ Cardinality(Mapped') <= MaxQuicMappings
      BY <3>1, <3>2, TrackerAssumption
    <3> QED
      BY <3>3 DEF QuicMapInv
  <2>2. CASE ~(Cardinality(Mapped) >= MaxQuicMappings)
    <3>1. Mapped' = Mapped \cup {c}
      <4>1. quicMap' = [quicMap EXCEPT ![c] = k]
        BY <1>2, <2>2 DEF InsertMapping, Mapped
      <4> QED
        BY <4>1, <2>0 DEF Mapped
    <3>2. /\ IsFiniteSet(Mapped \cup {c})
          /\ Cardinality(Mapped \cup {c}) = Cardinality(Mapped) + 1
      BY FS_AddElement DEF QuicMapInv
    <3>3. IsFiniteSet(Mapped') /\ Cardinality(Mapped') <= MaxQuicMappings
      BY <2>2, <3>1, <3>2, FS_CardinalityType, TrackerAssumption DEF QuicMapInv
    <3> QED
      BY <3>3 DEF QuicMapInv
  <2> QED
    BY <2>1, <2>2
<1> QED
  BY <1>1, <1>2, QuicMapStep

(* ingest_at drops the whole map before it would exceed max_quic_mappings, *)
(* so the map stays within it at every moment.                             *)
THEOREM QuicMapCorrect == Spec => []QuicMapBound
<1>1. QuicMapInv => QuicMapBound
  BY DEF QuicMapInv, QuicMapBound
<1> QED
  BY TypeInit, TypeNext, QuicMapInit, QuicMapNext, <1>1, PTL DEF Spec

(* No step redirects a mapped connection ID to another key.                *)
THEOREM MappingStableCorrect == Spec => MappingStable
<1>1. TypeInv /\ [Next]_vars =>
        [\A c \in Mapped : quicMap'[c] \in {quicMap[c], NoKey}]_vars
  BY QuicMapStep DEF InsertMapping, Mapped, TypeInv, TypeOK
<1> QED
  BY TypeInit, TypeNext, <1>1, PTL DEF Spec, MappingStable

(* Mappings without a connection.  MappingsOwned is inductive next to the  *)
(* type invariant: each lemma shows that a group of steps keeps the owner  *)
(* of a mapping, or hands the mapping over.                                *)

LEMMA OwnedIngest ==
  ASSUME TypeInv, MappingsOwned, NEW t \in Threads, Ingest(t)
  PROVE  MappingsOwned'
<1> SUFFICES ASSUME ui.pc = "idle", NEW c \in Mapped' PROVE Owned(quicMap[c])'
  BY DEF MappingsOwned, Ingest, IngestRtt, IngestQuic, IngestContains, IngestDrop,
         IngestAdmit, IngestEntry
<1> USE DEF TypeInv, TypeOK, tables
<1> DEFINE k == quicMap'[c]
<1>1. c \in Cids /\ k \in Keys /\ (quicMap'[c] = quicMap[c] => Owned(k))
  <2>1. TypeInv'
    BY TypeNext DEF Next
  <2>2. c \in Cids /\ k \in Keys /\ k # NoKey
    BY <2>1, TrackerAssumption DEF Mapped
  <2>3. CASE quicMap'[c] = quicMap[c]
    BY <2>2, <2>3 DEF Mapped, MappingsOwned
  <2> QED
    BY <2>2, <2>3
<1>2. CASE IngestRtt(t)
  BY <1>1, <1>2 DEF IngestRtt, AfterRtt, Owned, Active, Mapped
<1>3. CASE IngestQuic(t)
  <2>1. /\ pc' = [pc EXCEPT ![t] = "contains"] /\ pc[t] = "quic"
        /\ UNCHANGED <<conns, cl, refused>>
        /\ \A u \in Threads \ {t} : loc'[u] = loc[u]
    BY <1>3 DEF IngestQuic
  <2>2. Owned(k) => Owned(quicMap[c])'
    BY <2>1 DEF Owned, Active
  <2>3. CASE quicMap'[c] = quicMap[c]
    BY <1>1, <2>2, <2>3 DEF Mapped
  <2>4. CASE quicMap'[c] # quicMap[c]
    <3>1. quicMap' = InsertMapping(quicMap, loc[t].pkt.cid, loc[t].key) /\ loc' = loc
      BY <1>3, <2>4 DEF IngestQuic
    <3>2. k = loc'[t].key
      BY <2>4, <3>1, <1>1, TrackerAssumption DEF InsertMapping, Mapped
    <3> QED
      BY <2>1, <3>2 DEF Owned
  <2> QED
    BY <2>3, <2>4
<1>4. CASE IngestContains(t) \/ IngestAdmit(t)
  BY <1>1, <1>4 DEF IngestContains, IngestAdmit, Owned, Active, Mapped
<1>5. CASE IngestDrop(t)
  <2>1. \A u \in Threads \ {t} : pc'[u] = pc[u] /\ loc'[u] = loc[u]
    BY <1>5 DEF IngestDrop, IngestReturn
  <2>2. refused' = refused \cup {loc[t].key} /\ UNCHANGED <<conns, cl, quicMap>>
    BY <1>5 DEF IngestDrop
  <2>3. Owned(k)
    BY <1>1, <2>2 DEF Mapped
  <2> QED
    BY <2>1, <2>2, <2>3 DEF Owned, Active
<1>6. CASE IngestEntry(t)
  <2>1. \A u \in Threads \ {t} : pc'[u] = pc[u] /\ loc'[u] = loc[u]
    BY <1>6 DEF IngestEntry, IngestReturn
  <2>2. loc[t] \in Locals /\ loc[t].pkt \in PacketType
    BY <1>6, TrackerAssumption DEF IngestEntry, Locals
  <2>3. Active' = Active \cup {loc[t].key}
    <3>1. /\ CreateConnection(loc[t].pkt, loc[t].ts, loc[t].rtt) \in Connection
          /\ \A d \in Connection :
               MergePacket(d, loc[t].pkt, loc[t].ts, loc[t].rtt) \in Connection
      BY <2>2 DEF CreateConnection, MergePacket, Connection, Locals, PacketType
    <3>2. conns'[loc[t].key] # NoConn /\ \A j \in Keys \ {loc[t].key} : conns'[j] = conns[j]
      BY <1>6, <2>2, <3>1, TrackerAssumption DEF IngestEntry, Locals
    <3> QED
      BY <2>2, <3>2 DEF Active, Locals
  <2>4. refused' = refused \ {loc[t].key} /\ UNCHANGED <<cl, quicMap>>
    BY <1>6 DEF IngestEntry
  <2>5. Owned(k)
    BY <1>1, <2>4 DEF Mapped
  <2> QED
    BY <2>1, <2>3, <2>4, <2>5 DEF Owned
<1> QED
  BY <1>2, <1>3, <1>4, <1>5, <1>6 DEF Ingest

LEMMA OwnedCleanup ==
  ASSUME TypeInv, MappingsOwned, Cleanup
  PROVE  MappingsOwned'
<1> SUFFICES ASSUME ui.pc = "idle", NEW c \in Mapped' PROVE Owned(quicMap[c])'
  BY DEF MappingsOwned, Cleanup, CleanupBegin, CleanupVisit, CleanupSwept, CleanupArchive,
         CleanupCollect, CleanupEvict, CleanupQuic
<1> USE DEF TypeInv, TypeOK, tables
<1>1. CASE CleanupBegin
  <2>1. Owned(quicMap[c]) /\ cl.pc = "idle" /\ UNCHANGED <<conns, pc, loc, quicMap, refused>>
    BY <1>1 DEF CleanupBegin, MappingsOwned, Mapped
  <2> QED
    BY <2>1 DEF Owned, Active
<1>2. ASSUME NEW k \in Keys, CleanupVisit(k) PROVE Owned(quicMap[c])'
  <2>1. Owned(quicMap[c]) /\ UNCHANGED <<pc, loc, quicMap, refused>>
    BY <1>2 DEF CleanupVisit, MappingsOwned, Mapped
  <2>2. /\ cl.pc = "sweep" /\ cl'.pc = "sweep" /\ cl.removed \subseteq cl'.removed
        /\ Active \subseteq Active' \cup cl'.removed
    <3>1. CASE conns[k] # NoConn /\ ShouldCleanup(conns[k], cl.now)
      <4>1. /\ cl.pc = "sweep" /\ cl'.pc = "sweep" /\ cl'.removed = cl.removed \cup {k}
            /\ conns' = [conns EXCEPT ![k] = NoConn]
        BY <1>2, <3>1 DEF CleanupVisit
      <4> QED
        BY <4>1 DEF Active
    <3>2. CASE ~(conns[k] # NoConn /\ ShouldCleanup(conns[k], cl.now))
      BY <1>2, <3>2 DEF CleanupVisit, Active
    <3> QED
      BY <3>1, <3>2
  <2> QED
    BY <2>1, <2>2 DEF Owned
<1>3. CASE CleanupSwept \/ CleanupCollect \/ CleanupEvict
           \/ \E h \in cl.archive : CleanupArchive(h)
  <2>1. Owned(quicMap[c]) /\ UNCHANGED <<conns, pc, loc, quicMap, refused>>
    BY <1>3 DEF CleanupSwept, CleanupCollect, CleanupEvict, CleanupArchive, MappingsOwned,
                Mapped
  <2>2. cl'.pc # "idle" /\ cl'.removed = cl.removed
    BY <1>3 DEF CleanupSwept, CleanupCollect, CleanupEvict, CleanupArchive
  <2> QED
    BY <2>1, <2>2 DEF Owned, Active
<1>4. CASE CleanupQuic
  <2>1. /\ c \in Mapped /\ quicMap'[c] = quicMap[c] /\ quicMap[c] \notin cl.removed
        /\ UNCHANGED <<conns, pc, loc, refused>>
    BY <1>4 DEF CleanupQuic, Mapped
  <2>2. Owned(quicMap[c])
    BY <2>1 DEF MappingsOwned
  <2> QED
    BY <2>1, <2>2 DEF Owned, Active
<1> QED
  BY <1>1, <1>2, <1>3, <1>4 DEF Cleanup

LEMMA OwnedNext == TypeInv /\ MappingsOwned /\ [Next]_vars => MappingsOwned'
<1> SUFFICES ASSUME TypeInv, MappingsOwned, [Next]_vars PROVE MappingsOwned'
  OBVIOUS
<1> USE DEF TypeInv, TypeOK, tables
<1>1. CASE UNCHANGED vars
  BY <1>1 DEF vars, MappingsOwned, Owned, Mapped, Active
<1>2. ASSUME NEW t \in Threads, NEW p \in Packets, IngestBegin(t, p) PROVE MappingsOwned'
  <2>1. /\ pc[t] = "idle" /\ \A u \in Threads \ {t} : pc'[u] = pc[u] /\ loc'[u] = loc[u]
        /\ UNCHANGED <<conns, cl, ui, quicMap, refused>>
    BY <1>2 DEF IngestBegin
  <2> QED
    BY <2>1 DEF MappingsOwned, Owned, Mapped, Active
<1>3. CASE ClearBegin \/ Clear
  <2>1. CASE ClearQuic
    <3>1. \A c \in Cids : quicMap'[c] = NoKey
      BY <2>1 DEF ClearQuic
    <3> QED
      BY <3>1 DEF MappingsOwned, Mapped
  <2>2. CASE ~ClearQuic
    <3>1. ui'.pc # "idle"
      BY <1>3, <2>2 DEF Clear, ClearBegin, ClearConnection, ClearHistoric, ClearRtt
    <3> QED
      BY <3>1 DEF MappingsOwned
  <2> QED
    BY <2>1, <2>2
<1>4. CASE Tick
  BY <1>4 DEF Tick, MappingsOwned, Owned, Mapped, Active
<1> QED
  BY <1>1, <1>2, <1>3, <1>4, OwnedIngest, OwnedCleanup DEF Next

(* A QUIC mapping without a connection, an operation that will see to it   *)
(* or a refusal at the full table does not occur: cleanup's late removal   *)
(* of the mappings, clear and the processors leave none behind.            *)
THEOREM MappingsOwnedCorrect == Spec => []MappingsOwned
<1>1. Init => MappingsOwned
  BY DEF Init, MappingsOwned, Mapped
<1> QED
  BY TypeInit, TypeNext, OwnedNext, <1>1, PTL DEF Spec

-----------------------------------------------------------------------------
(* clear empties the active table.                                         *)

(* While clear is in the table, the keys it has not reached may still hold *)
(* a connection from before.                                               *)
ClearedInv ==
  \A k \in Active : \/ conns[k].epoch = epoch
                    \/ ui.pc = "conns" /\ k \in ui.left

LEMMA ClearedNext == TypeInv /\ ClearedInv /\ [Next]_vars => ClearedInv'
<1> SUFFICES ASSUME TypeInv, ClearedInv, [Next]_vars PROVE ClearedInv'
  OBVIOUS
<1> USE DEF TypeInv, TypeOK, tables, ClearedInv, Active
<1>1. ASSUME NEW t \in Threads, IngestEntry(t) PROVE ClearedInv'
  <2>1. loc[t].key \in Keys
    BY <1>1 DEF IngestEntry, Locals
  <2>2. \A c \in Connection :
          MergePacket(c, loc[t].pkt, loc[t].ts, loc[t].rtt).epoch = c.epoch
    BY DEF MergePacket, Connection
  <2>3. CreateConnection(loc[t].pkt, loc[t].ts, loc[t].rtt).epoch = epoch
    BY DEF CreateConnection
  <2> QED
    BY <1>1, <2>1, <2>2, <2>3 DEF IngestEntry
<1>2. ASSUME NEW t \in Threads, Ingest(t), ~IngestEntry(t) PROVE ClearedInv'
  BY <1>2 DEF Ingest, IngestRtt, IngestQuic, IngestContains, IngestDrop, IngestAdmit
<1>3. ASSUME NEW k \in Keys, CleanupVisit(k) PROVE ClearedInv'
  BY <1>3 DEF CleanupVisit
<1>4. CASE CleanupBegin \/ CleanupSwept \/ CleanupCollect \/ CleanupEvict
           \/ CleanupQuic \/ \E h \in cl.archive : CleanupArchive(h)
  BY <1>4 DEF CleanupBegin, CleanupSwept, CleanupCollect, CleanupEvict,
              CleanupQuic, CleanupArchive
<1>5. CASE ClearBegin
  BY <1>5 DEF ClearBegin
<1>6. ASSUME NEW k \in ui.left, ClearConnection(k) PROVE ClearedInv'
  BY <1>6 DEF ClearConnection
<1>7. CASE ClearRtt \/ ClearQuic \/ \E k \in ui.left : ClearHistoric(k)
  BY <1>7 DEF ClearRtt, ClearQuic, ClearHistoric, ClearIdle
<1>8. CASE \/ UNCHANGED vars
           \/ Tick
           \/ \E t \in Threads, p \in Packets : IngestBegin(t, p)
  BY <1>8 DEF vars, Tick, IngestBegin
<1> QED
  BY <1>1, <1>2, <1>3, <1>4, <1>5, <1>6, <1>7, <1>8 DEF Next, Cleanup, Clear

(* After clear has been through the active table only connections created  *)
(* since it was called are left, in spite of the processors that insert    *)
(* while it goes from shard to shard.                                      *)
THEOREM ClearedTableCorrect == Spec => []ClearedTable
<1>1. Init => ClearedInv
  BY DEF Init, ClearedInv, Active
<1>2. ClearedInv => ClearedTable
  BY DEF ClearedInv, ClearedTable
<1> QED
  BY TypeInit, TypeNext, ClearedNext, <1>1, <1>2, PTL DEF Spec

-----------------------------------------------------------------------------
(* The limit on the archive.                                               *)

(* The archive is in memory, so a usize counts its entries.                *)
HistoricFits == Cardinality(historic) < UsizeModulus

(* Only cleanup's archive section may exceed the limit, and what it lists  *)
(* for the eviction is the whole archive, as long as no clear runs beside  *)
(* it.                                                                     *)
HistoricInv ==
  /\ IsFiniteSet(historic)
  /\ epoch = 0 => ui.pc = "idle"
  /\ epoch = 0 /\ cl.pc = "evict" =>
       cl.entries = historic /\ Cardinality(historic) > MaxHistoric
  /\ epoch = 0 /\ cl.pc \notin {"archive", "evict"} => Cardinality(historic) <= MaxHistoric

LEMMA HistoricInit == Init => HistoricInv
BY FS_EmptySet, TrackerAssumption DEF Init, HistoricInv, CleanupIdle, ClearIdle

(* The oldest entries that are too many, and no more, leave the archive.   *)
LEMMA EvictStep ==
  ASSUME NEW H, IsFiniteSet(H), Cardinality(H) > MaxHistoric,
         Cardinality(H) < UsizeModulus, NEW V \in SUBSET H,
         OldestFirst(V, H, (Cardinality(H) - MaxHistoric) % UsizeModulus)
  PROVE  IsFiniteSet(H \ V) /\ Cardinality(H \ V) <= MaxHistoric
<1> DEFINE n == Cardinality(H) - MaxHistoric
<1>1. Cardinality(H) \in Nat /\ IsFiniteSet(V) /\ Cardinality(V) \in Nat
      /\ IsFiniteSet(H \ V) /\ Cardinality(H \ V) \in Nat
  BY FS_CardinalityType, FS_Subset, FS_Difference
<1>2. n \in Nat /\ n < UsizeModulus /\ n % UsizeModulus = n
  BY <1>1, TrackerAssumption
<1>3. CASE V = H
  <2>1. H \ V = {}
    BY <1>3
  <2> QED BY <1>1, <2>1, FS_EmptySet, TrackerAssumption
<1>4. CASE V # H
  <2>1. Cardinality(V) = n
    BY <1>2, <1>4 DEF OldestFirst
  <2>2. H \cap V = V
    OBVIOUS
  <2>3. Cardinality(H \ V) = Cardinality(H) - Cardinality(V)
    BY <2>2, FS_Difference
  <2> QED BY <1>1, <2>1, <2>3, TrackerAssumption
<1> QED BY <1>3, <1>4

LEMMA HistoricNext ==
  TypeInv /\ HistoricFits /\ HistoricInv /\ [Next]_vars => HistoricInv'
<1> SUFFICES ASSUME TypeInv, HistoricFits, HistoricInv, [Next]_vars PROVE HistoricInv'
  OBVIOUS
<1> USE DEF HistoricInv, tables
<1>0. /\ epoch \in Nat
      /\ cl \in [pc : CleanupPcs, now : Nat, visited : SUBSET Keys,
                removed : SUBSET Keys, archive : SUBSET HistoricEntry,
                entries : SUBSET HistoricEntry]
      /\ ui \in [pc : ClearPcs, left : SUBSET Keys]
  BY DEF TypeInv, TypeOK
<1>1. CASE UNCHANGED <<historic, cl, ui, epoch>>
  BY <1>1
<1>2. CASE CleanupBegin
  <2>1. cl.pc = "idle" /\ cl'.pc = "sweep" /\ UNCHANGED <<historic, ui, epoch>>
    BY <1>2 DEF CleanupBegin, CleanupIdle
  <2> QED BY <2>1
<1>3. ASSUME NEW k \in Keys, CleanupVisit(k) PROVE HistoricInv'
  <2>1. cl.pc = "sweep" /\ cl'.pc = "sweep" /\ UNCHANGED <<historic, ui, epoch>>
    BY <1>0, <1>3 DEF CleanupVisit
  <2> QED BY <2>1
<1>4. CASE CleanupSwept
  <2>1. cl.pc = "sweep" /\ cl'.pc \in {"archive", "quic"}
        /\ UNCHANGED <<historic, ui, epoch>>
    BY <1>0, <1>4 DEF CleanupSwept
  <2> QED BY <2>1
<1>5. ASSUME NEW h \in cl.archive, CleanupArchive(h) PROVE HistoricInv'
  <2> DEFINE H == {g \in historic : ~SameHistoricKey(g, h)}
  <2>1. cl'.pc = "archive" /\ historic' = H \cup {h} /\ UNCHANGED <<ui, epoch>>
    BY <1>0, <1>5 DEF CleanupArchive
  <2>2. IsFiniteSet(H)
    BY FS_Subset
  <2>3. IsFiniteSet(historic')
    BY <2>1, <2>2, FS_AddElement
  <2> QED BY <2>1, <2>3
<1>6. CASE CleanupCollect
  <2>1. UNCHANGED <<historic, ui, epoch>> /\ Cardinality(historic) \in Nat
    BY <1>6, FS_CardinalityType DEF CleanupCollect
  <2>2. CASE Cardinality(historic) > MaxHistoric
    <3>1. cl'.pc = "evict" /\ cl'.entries = historic
      BY <1>0, <1>6, <2>2 DEF CleanupCollect
    <3> QED BY <2>1, <2>2, <3>1
  <2>3. CASE ~(Cardinality(historic) > MaxHistoric)
    <3>1. cl'.pc = "quic"
      BY <1>0, <1>6, <2>3 DEF CleanupCollect
    <3> QED BY <2>1, <2>3, <3>1, TrackerAssumption
  <2> QED BY <2>2, <2>3
<1>7. CASE CleanupEvict
  <2>1. PICK V \in SUBSET cl.entries : OldestFirst(V, cl.entries, ToRemove)
                                      /\ historic' = historic \ V
    BY <1>7 DEF CleanupEvict
  <2>2. cl.pc = "evict" /\ cl'.pc = "quic" /\ UNCHANGED <<ui, epoch>>
    BY <1>0, <1>7 DEF CleanupEvict
  <2>3. IsFiniteSet(historic')
    BY <2>1, FS_Subset
  <2>4. ASSUME epoch = 0 PROVE Cardinality(historic') <= MaxHistoric
    <3>1. cl.entries = historic /\ Cardinality(historic) > MaxHistoric
      BY <2>2, <2>4
    <3>2. OldestFirst(V, historic, (Cardinality(historic) - MaxHistoric) % UsizeModulus)
      BY <2>1, <3>1 DEF ToRemove
    <3> QED BY <2>1, <3>1, <3>2, EvictStep DEF HistoricFits
  <2> QED BY <2>2, <2>3, <2>4
<1>8. CASE CleanupQuic
  <2>1. cl.pc = "quic" /\ cl'.pc = "idle" /\ UNCHANGED <<historic, ui, epoch>>
    BY <1>8 DEF CleanupQuic, CleanupIdle
  <2> QED BY <2>1
<1>9. CASE ClearBegin
  <2>1. epoch' # 0 /\ UNCHANGED historic
    BY <1>0, <1>9 DEF ClearBegin
  <2> QED BY <2>1
<1>10. CASE Clear
  <2>1. epoch # 0 /\ epoch' = epoch
    BY <1>10 DEF Clear, ClearConnection, ClearHistoric, ClearRtt, ClearQuic
  <2>2. historic' \subseteq historic
    BY <1>10 DEF Clear, ClearConnection, ClearHistoric, ClearRtt, ClearQuic
  <2> QED BY <2>1, <2>2, FS_Subset
<1>11. ASSUME NEW t \in Threads, Ingest(t) PROVE UNCHANGED <<historic, cl, ui, epoch>>
  BY <1>11 DEF Ingest, IngestRtt, IngestQuic, IngestContains, IngestDrop, IngestAdmit,
               IngestEntry
<1>12. CASE \/ UNCHANGED vars
            \/ Tick
            \/ \E t \in Threads, p \in Packets : IngestBegin(t, p)
  BY <1>1, <1>12 DEF vars, Tick, IngestBegin
<1> QED
  BY <1>1, <1>2, <1>3, <1>4, <1>5, <1>6, <1>7, <1>8, <1>9, <1>10, <1>11, <1>12
     DEF Next, Cleanup

(* cleanup hands back an archive within max_historic, whatever expired at  *)
(* once: an archive that fits in memory is evicted down to the limit, and  *)
(* the difference of the two lengths does not wrap.                        *)
THEOREM HistoricCorrect == Spec /\ []HistoricFits => []HistoricBound
<1>1. HistoricInv => HistoricBound
  BY DEF HistoricInv, HistoricBound
<1> QED BY TypeInit, TypeNext, HistoricInit, HistoricNext, <1>1, PTL DEF Spec

-----------------------------------------------------------------------------
(* The tracker implements ConnectionTable.                                 *)

(* What the mapped steps need to know: the clocks that the processors and  *)
(* cleanup have read lie in the past; what has expired is archived before  *)
(* cleanup goes on; and the list to evict from has the whole archive,      *)
(* though a clear may have made that shorter.                              *)
TableInv ==
  /\ \A t \in Threads : pc[t] # "idle" => loc[t].ts <= now
  /\ cl.pc # "idle" => cl.now <= now
  /\ cl.pc \in {"archive", "evict"} => KeepHistoric
  /\ cl.pc \in {"idle", "evict", "quic"} /\ KeepHistoric => cl.archive = {}
  /\ IsFiniteSet(historic)
  /\ cl.pc = "evict" => historic \subseteq cl.entries /\ IsFiniteSet(cl.entries)
  /\ epoch = 0 => ui.pc = "idle"
  /\ epoch = 0 /\ cl.pc = "evict" => Cardinality(historic) > MaxHistoric

(* Nothing has expired or is running.                                      *)
LEMMA TableInit == Init => TableInv
BY FS_EmptySet DEF Init, TableInv, CleanupIdle, ClearIdle

(* What the processors do to it: they keep the clock.                      *)
LEMMA TableIngest ==
  ASSUME TypeInv, TableInv, NEW t \in Threads,
         Ingest(t) \/ \E p \in Packets : IngestBegin(t, p)
  PROVE  TableInv'
<1>0. /\ now \in Nat /\ pc \in [Threads -> IngestPcs]
      /\ loc \in [Threads -> Locals \cup {NoLocals}]
      /\ \A u \in Threads : (pc[u] = "idle") <=> (loc[u] = NoLocals)
  BY DEF TypeInv, TypeOK
<1>1. UNCHANGED <<now, historic, cl, ui, epoch>>
  BY DEF Ingest, IngestBegin, IngestRtt, IngestQuic, IngestContains, IngestDrop,
         IngestAdmit, IngestEntry, tables
<1>2. \A u \in Threads : pc'[u] # "idle" => loc'[u].ts <= now
  <2>1. \A u \in Threads : pc[u] # "idle" => loc[u].ts <= now /\ loc[u] \in Locals
    BY <1>0 DEF TableInv
  <2>2. CASE \E p \in Packets : IngestBegin(t, p)
    BY <1>0, <2>1, <2>2 DEF IngestBegin
  <2>3. CASE IngestRtt(t) \/ IngestQuic(t)
    BY <1>0, <2>1, <2>3 DEF IngestRtt, IngestQuic, Locals
  <2>4. CASE IngestContains(t) \/ IngestAdmit(t)
    BY <1>0, <2>1, <2>4 DEF IngestContains, IngestAdmit
  <2>5. CASE IngestDrop(t) \/ IngestEntry(t)
    BY <1>0, <2>1, <2>5 DEF IngestDrop, IngestEntry, IngestReturn
  <2> QED BY <2>2, <2>3, <2>4, <2>5 DEF Ingest
<1> QED BY <1>1, <1>2 DEF TableInv

(* What cleanup does to it.                                                *)
LEMMA TableCleanup == TypeInv /\ TableInv /\ Cleanup => TableInv'
<1> SUFFICES ASSUME TypeInv, TableInv, Cleanup PROVE TableInv'
  OBVIOUS
<1>0. /\ now \in Nat /\ epoch \in Nat /\ historic \in SUBSET HistoricEntry
      /\ cl \in [pc : CleanupPcs, now : Nat, visited : SUBSET Keys,
                removed : SUBSET Keys, archive : SUBSET HistoricEntry,
                entries : SUBSET HistoricEntry]
  BY DEF TypeInv, TypeOK
<1>1. UNCHANGED <<now, pc, loc, ui, epoch>>
  BY DEF Cleanup, CleanupBegin, CleanupVisit, CleanupSwept, CleanupArchive,
         CleanupCollect, CleanupEvict, CleanupQuic, tables
<1> USE DEF TableInv
<1>2. CASE CleanupBegin
  <2>1. cl'.pc = "sweep" /\ cl'.now = now /\ historic' = historic
    BY <1>2 DEF CleanupBegin, CleanupIdle, tables
  <2> QED BY <1>0, <1>1, <2>1
<1>3. ASSUME NEW k \in Keys, CleanupVisit(k) PROVE TableInv'
  <2>1. cl.pc = "sweep" /\ cl'.pc = "sweep" /\ cl'.now = cl.now /\ historic' = historic
    BY <1>0, <1>3 DEF CleanupVisit
  <2> QED BY <1>1, <2>1
<1>4. CASE CleanupSwept
  <2>1. /\ cl.pc = "sweep" /\ cl'.pc = IF KeepHistoric THEN "archive" ELSE "quic"
        /\ cl'.now = cl.now /\ historic' = historic
    BY <1>0, <1>4 DEF CleanupSwept, tables
  <2> QED BY <1>1, <2>1
<1>5. ASSUME NEW h \in cl.archive, CleanupArchive(h) PROVE TableInv'
  <2> DEFINE others == {g \in historic : ~SameHistoricKey(g, h)}
  <2>1. /\ cl.pc = "archive" /\ cl'.pc = "archive" /\ cl'.now = cl.now
        /\ historic' = others \cup {h}
    BY <1>0, <1>5 DEF CleanupArchive
  <2>2. IsFiniteSet(others)
    BY FS_Subset
  <2>3. IsFiniteSet(historic')
    BY <2>1, <2>2, FS_AddElement
  <2> QED BY <1>1, <2>1, <2>3
<1>6. CASE CleanupCollect
  <2>1. /\ cl.pc = "archive" /\ cl'.now = cl.now /\ historic' = historic
        /\ cl.archive = {} /\ cl'.archive = {}
        /\ \/ cl'.pc = "quic"
           \/ /\ cl'.pc = "evict" /\ cl'.entries = historic
              /\ Cardinality(historic) > MaxHistoric
    BY <1>0, <1>6 DEF CleanupCollect, tables
  <2> QED BY <1>1, <2>1
<1>7. CASE CleanupEvict
  <2>1. /\ cl.pc = "evict" /\ cl'.pc = "quic" /\ cl'.now = cl.now
        /\ cl'.archive = cl.archive /\ historic' \subseteq historic
    BY <1>0, <1>7 DEF CleanupEvict
  <2>2. IsFiniteSet(historic')
    BY <2>1, FS_Subset
  <2> QED BY <1>1, <2>1, <2>2
<1>8. CASE CleanupQuic
  <2>1. cl'.pc = "idle" /\ cl'.archive = {} /\ historic' = historic
    BY <1>8 DEF CleanupQuic, CleanupIdle
  <2> QED BY <1>1, <2>1
<1> QED BY <1>2, <1>3, <1>4, <1>5, <1>6, <1>7, <1>8 DEF Cleanup

(* A clear only makes the archive shorter, and it is counted.              *)
LEMMA TableNext == TypeInv /\ TableInv /\ [Next]_vars => TableInv'
<1> SUFFICES ASSUME TypeInv, TableInv, [Next]_vars PROVE TableInv'
  OBVIOUS
<1>0. now \in Nat /\ epoch \in Nat
  BY DEF TypeInv, TypeOK
<1>1. CASE \E t \in Threads : Ingest(t) \/ \E p \in Packets : IngestBegin(t, p)
  BY <1>1, TableIngest
<1>2. CASE Cleanup
  BY <1>2, TableCleanup
<1>3. CASE ClearBegin
  <2>1. UNCHANGED <<now, historic, pc, loc, cl>> /\ epoch' # 0
    BY <1>0, <1>3 DEF ClearBegin, tables
  <2> QED BY <2>1 DEF TableInv
<1>4. CASE Clear
  <2>1. UNCHANGED <<now, pc, loc, cl, epoch>> /\ historic' \subseteq historic /\ ui.pc # "idle"
    BY <1>4 DEF Clear, ClearConnection, ClearHistoric, ClearRtt, ClearQuic
  <2>2. IsFiniteSet(historic')
    BY <2>1, FS_Subset DEF TableInv
  <2> QED BY <2>1, <2>2 DEF TableInv
<1>5. CASE Tick
  <2>1. UNCHANGED <<historic, pc, loc, cl, ui, epoch>> /\ now' = now + 1
    BY <1>5 DEF Tick, tables
  <2>2. \A t \in Threads : pc[t] # "idle" => loc[t].ts \in Nat
    BY DEF TypeInv, TypeOK, Locals
  <2>3. cl.now \in Nat
    BY DEF TypeInv, TypeOK
  <2> QED BY <1>0, <2>1, <2>2, <2>3 DEF TableInv
<1>6. CASE UNCHANGED vars
  BY <1>6 DEF vars, tables, TableInv
<1> QED BY <1>1, <1>2, <1>3, <1>4, <1>5, <1>6 DEF Next

(* A step of the table or one that leaves it alone.                        *)
TableStep == Table!Next \/ UNCHANGED Table!tableVars

(* ConnectionTable counts as ConnectionTracker does.                       *)
LEMMA TableCardinality == \A S : Table!Cardinality(S) = Cardinality(S)
BY Zenon DEF Table!Cardinality, Cardinality

(* What a step that leaves the mapped variables alone is.                  *)
LEMMA TableStutter ==
  ASSUME UNCHANGED <<now, conns, historic, epoch>>, Leaving' = Leaving, Clearing' = Clearing
  PROVE  TableStep
BY DEF TableStep, Table!tableVars

(* entry().and_modify().or_insert_with() admits a connection or updates    *)
(* the one that is there.                                                  *)
LEMMA TableEntry ==
  ASSUME TypeInv, TableInv, CapacityBound', NEW t \in Threads, IngestEntry(t)
  PROVE  TableStep
<1> DEFINE l == loc[t]
<1>1. /\ conns \in [Keys -> Connection \cup {NoConn}] /\ NoConn \notin Connection
      /\ now \in Nat /\ epoch \in Nat
  BY TrackerAssumption DEF TypeInv, TypeOK
<1>2. l \in Locals /\ l.ts <= now
  BY DEF IngestEntry, TypeInv, TypeOK, TableInv
<1>3. /\ l.key \in Keys /\ l.ts \in Nat /\ l.rtt \in Nat \cup {NoTime}
      /\ l.pkt.key \in Keys /\ l.pkt.closing \in BOOLEAN
  BY <1>2, TrackerAssumption DEF Locals, PacketType
<1>4. /\ conns' = [conns EXCEPT ![l.key] =
                     IF @ = NoConn THEN CreateConnection(l.pkt, l.ts, l.rtt)
                                   ELSE MergePacket(@, l.pkt, l.ts, l.rtt)]
      /\ UNCHANGED <<now, historic, epoch>> /\ Leaving' = Leaving /\ Clearing' = Clearing
  BY DEF IngestEntry, Leaving, Clearing
<1> HIDE DEF l
<1>5. CASE conns[l.key] = NoConn
  <2> DEFINE c == CreateConnection(l.pkt, l.ts, l.rtt)
  <2>1. c \in Connection /\ c.created = l.ts /\ c.last = l.ts
    BY <1>1, <1>3 DEF CreateConnection, Connection
  <2> HIDE DEF c
  <2>2. conns' = [conns EXCEPT ![l.key] = c] /\ conns'[l.key] = c
    BY <1>1, <1>3, <1>4, <1>5 DEF c
  <2>3. Table!Cardinality(Table!Present') <= MaxConnections + Cardinality(Threads) - 1
    BY TableCardinality DEF CapacityBound, Active, Table!Present
  <2>4. /\ conns'[l.key] # NoConn /\ Table!Only(l.key)
        /\ conns'[l.key].created = conns'[l.key].last /\ conns'[l.key].last <= now
    BY <1>1, <1>2, <2>1, <2>2 DEF Table!Only
  <2>5. UNCHANGED <<now, Leaving, historic, Clearing, epoch > 0>>
    BY <1>4
  <2>6. Table!Admit(l.key)
    BY <1>5, <2>3, <2>4, <2>5 DEF Table!Admit
  <2> QED BY <1>3, <2>6 DEF TableStep, Table!Next
<1>6. CASE conns[l.key] # NoConn
  <2> DEFINE c == conns[l.key]
             d == MergePacket(c, l.pkt, l.ts, l.rtt)
  <2>1. c \in Connection
    BY <1>1, <1>3, <1>6
  <2>2. /\ d \in Connection /\ d.addr = c.addr /\ d.created = c.created /\ d.last = l.ts
        /\ c.closing => d.closing
        /\ c.rtt # NoTime => d.rtt = c.rtt
    BY <1>3, <2>1 DEF MergePacket, Connection
  <2> HIDE DEF d
  <2>3. conns' = [conns EXCEPT ![l.key] = d] /\ conns'[l.key] = d
    BY <1>1, <1>3, <1>4, <1>6 DEF d
  <2>4. Table!Update(l.key)
    BY <1>1, <1>2, <1>4, <1>6, <2>2, <2>3 DEF Table!Update, Table!Only, Table!MayBecome
  <2> QED BY <1>3, <2>4 DEF TableStep, Table!Next
<1> QED BY <1>5, <1>6

(* retain takes a connection at the time that cleanup read when it began.  *)
LEMMA TableVisit ==
  ASSUME TypeInv, TableInv, NEW k \in Keys, CleanupVisit(k)
  PROVE  TableStep
<1>1. /\ conns \in [Keys -> Connection \cup {NoConn}]
      /\ now \in Nat /\ cl.now \in Nat /\ cl.now <= now
      /\ cl \in [pc : CleanupPcs, now : Nat, visited : SUBSET Keys,
                removed : SUBSET Keys, archive : SUBSET HistoricEntry,
                entries : SUBSET HistoricEntry]
  BY DEF CleanupVisit, TypeInv, TypeOK, TableInv
<1>2. UNCHANGED <<now, historic, epoch>> /\ Clearing' = Clearing
  BY DEF CleanupVisit, Clearing
<1>3. CASE conns[k] # NoConn /\ ShouldCleanup(conns[k], cl.now)
  <2> DEFINE h == [key |-> k, conn |-> conns[k], closed |-> cl.now]
  <2>1. conns' = [conns EXCEPT ![k] = NoConn] /\ cl'.archive = cl.archive \cup {h}
    BY <1>1, <1>3 DEF CleanupVisit
  <2>2. Leaving' = Leaving \cup (IF KeepHistoric THEN {h} ELSE {})
    BY <2>1 DEF Leaving
  <2>3. cl.now \in 0..now /\ cl.now - conns[k].last > Table!Timeout(conns[k])
    BY <1>1, <1>3 DEF ShouldCleanup, GetTimeout, Table!Timeout
  <2>4. Table!Expire(k)
    BY <1>2, <1>3, <2>1, <2>2, <2>3 DEF Table!Expire
  <2> QED BY <2>4 DEF TableStep, Table!Next
<1>4. CASE ~(conns[k] # NoConn /\ ShouldCleanup(conns[k], cl.now))
  <2>1. conns' = conns /\ Leaving' = Leaving
    BY <1>1, <1>4 DEF CleanupVisit, Leaving
  <2> QED BY <1>2, <2>1, TableStutter
<1> QED BY <1>3, <1>4

(* An entry of the archive is filed under its key and its creation.        *)
LEMMA TableArchive ==
  ASSUME TypeInv, TableInv, NEW h \in cl.archive, CleanupArchive(h)
  PROVE  TableStep
<1>1. /\ KeepHistoric /\ cl'.archive = cl.archive \ {h}
      /\ historic' = {g \in historic : ~SameHistoricKey(g, h)} \cup {h}
      /\ UNCHANGED <<now, conns, epoch>> /\ Clearing' = Clearing
  BY DEF CleanupArchive, TypeInv, TypeOK, TableInv, Clearing
<1>2. Leaving = cl.archive /\ Leaving' = Leaving \ {h}
  BY <1>1 DEF Leaving
<1>3. Table!Keep(h)
  BY <1>1, <1>2 DEF Table!Keep, SameHistoricKey
<1> QED BY <1>2, <1>3 DEF TableStep, Table!Next

(* What the eviction takes are the oldest of what is left of the list, and *)
(* as many as the archive is too long.  If a clear made it shorter than    *)
(* the limit meanwhile, the difference wraps and more may go.              *)
LEMMA TableEvict ==
  ASSUME TypeInv, TableInv, CleanupEvict
  PROVE  TableStep
<1>1. PICK V \in SUBSET cl.entries :
        OldestFirst(V, cl.entries, ToRemove) /\ historic' = historic \ V
  BY DEF CleanupEvict
<1>2. /\ cl.pc = "evict" /\ historic \subseteq cl.entries /\ IsFiniteSet(cl.entries)
      /\ IsFiniteSet(historic) /\ IsFiniteSet(V) /\ epoch \in Nat
      /\ epoch = 0 => Cardinality(historic) > MaxHistoric
  BY FS_Subset DEF CleanupEvict, TableInv, TypeInv, TypeOK
<1>3. UNCHANGED <<now, conns, epoch>> /\ Leaving' = Leaving /\ Clearing' = Clearing
  BY DEF CleanupEvict, TypeInv, TypeOK, Leaving, Clearing
<1>4. \A g \in historic \ historic', h \in historic' : g.closed <= h.closed
  BY <1>1, <1>2 DEF OldestFirst
<1>5. Cardinality(historic) \in Nat /\ Cardinality(historic') \in Nat
      /\ Cardinality(V) \in Nat /\ Cardinality(cl.entries) \in Nat
      /\ Cardinality(historic) <= Cardinality(cl.entries)
  BY <1>1, <1>2, FS_Difference, FS_Subset, FS_CardinalityType
<1>6. Cardinality(historic) >= MaxHistoric => Cardinality(historic') >= MaxHistoric
  <2> SUFFICES ASSUME Cardinality(historic) >= MaxHistoric
               PROVE  Cardinality(historic') >= MaxHistoric
    OBVIOUS
  <2> DEFINE excess == Cardinality(historic) - MaxHistoric
  <2>1. excess \in Nat /\ excess % UsizeModulus \in Nat /\ excess % UsizeModulus <= excess
    BY <1>5, TrackerAssumption
  <2>2. CASE V = cl.entries
    <3>1. historic' = {}
      BY <1>1, <1>2, <2>2
    <3>2. ToRemove \in Nat /\ ToRemove >= Cardinality(cl.entries) /\ ToRemove <= excess
      BY <1>1, <1>5, <2>1, <2>2 DEF OldestFirst, ToRemove
    <3>3. MaxHistoric = 0
      BY <1>5, <3>2, TrackerAssumption
    <3> QED BY <1>5, <3>3
  <2>3. CASE V # cl.entries
    <3>1. Cardinality(V) <= excess
      BY <1>1, <2>1, <2>3 DEF OldestFirst, ToRemove
    <3>2. Cardinality(historic') = Cardinality(historic) - Cardinality(historic \cap V)
      BY <1>1, <1>2, FS_Difference
    <3>3. /\ Cardinality(historic \cap V) \in Nat
          /\ Cardinality(historic \cap V) <= Cardinality(V)
      BY <1>2, FS_Subset, FS_Intersection, FS_CardinalityType
    <3> QED BY <1>5, <3>1, <3>2, <3>3, TrackerAssumption
  <2> QED BY <2>2, <2>3
<1>7. \/ Table!Cardinality(historic') >= MaxHistoric
      \/ epoch > 0 /\ Table!Cardinality(historic) < MaxHistoric
  BY <1>2, <1>5, <1>6, TableCardinality, TrackerAssumption
<1>8. UNCHANGED <<now, conns, Leaving, Clearing, epoch > 0>>
  BY <1>3
<1>9. Table!Evict
  BY <1>1, <1>4, <1>7, <1>8 DEF Table!Evict
<1> QED BY <1>9 DEF TableStep, Table!Next

(* Every step of the tracker is one of the table or leaves it alone.       *)
LEMMA TableRefined == TypeInv /\ TableInv /\ CapacityBound' /\ [Next]_vars => TableStep
<1> SUFFICES ASSUME TypeInv, TableInv, CapacityBound', [Next]_vars PROVE TableStep
  OBVIOUS
<1>0. /\ ui \in [pc : ClearPcs, left : SUBSET Keys] /\ epoch \in Nat /\ now \in Nat
      /\ conns \in [Keys -> Connection \cup {NoConn}]
  BY DEF TypeInv, TypeOK
<1>1. ASSUME NEW t \in Threads, Ingest(t) \/ \E p \in Packets : IngestBegin(t, p)
      PROVE  TableStep
  <2>1. CASE IngestEntry(t)
    BY <2>1, TableEntry
  <2>2. CASE ~IngestEntry(t)
    <3>1. UNCHANGED <<now, conns, historic, cl, ui, epoch>>
      BY <1>1, <2>2 DEF Ingest, IngestBegin, IngestRtt, IngestQuic, IngestContains,
                        IngestDrop, IngestAdmit, tables
    <3> QED BY <3>1, TableStutter DEF Leaving, Clearing
  <2> QED BY <2>1, <2>2
<1>2. CASE Cleanup
  <2>1. CASE CleanupBegin \/ CleanupSwept \/ CleanupCollect \/ CleanupQuic
    <3>1. UNCHANGED <<now, conns, historic, ui, epoch>>
      BY <2>1 DEF CleanupBegin, CleanupSwept, CleanupCollect, CleanupQuic, tables
    <3>2. Leaving' = Leaving
      <4>0. KeepHistoric /\ cl.pc \in {"idle", "quic"} => cl.archive = {}
        BY DEF TableInv
      <4>1. CleanupBegin => cl.pc = "idle" /\ cl'.archive = {}
        BY DEF CleanupBegin, CleanupIdle
      <4>2. CleanupQuic => cl.pc = "quic" /\ cl'.archive = {}
        BY DEF CleanupQuic, CleanupIdle
      <4>3. CleanupSwept \/ CleanupCollect => cl'.archive = cl.archive
        BY DEF CleanupSwept, CleanupCollect, TypeInv, TypeOK
      <4>4. KeepHistoric => cl'.archive = cl.archive
        BY <2>1, <4>0, <4>1, <4>2, <4>3
      <4> QED BY <4>4 DEF Leaving
    <3> QED BY <3>1, <3>2, TableStutter DEF Clearing
  <2> QED BY <1>2, <2>1, TableVisit, TableArchive, TableEvict DEF Cleanup
<1>3. CASE ClearBegin
  <2>1. Clearing = "nothing" /\ Clearing' = "live" /\ (epoch > 0)' = TRUE
        /\ UNCHANGED <<now, conns, Leaving, historic>>
    BY <1>0, <1>3 DEF ClearBegin, Clearing, Leaving, tables
  <2>2. Table!CallClear
    BY <2>1 DEF Table!CallClear
  <2> QED BY <2>2 DEF TableStep, Table!Next
<1>4. ASSUME NEW k \in ui.left, ClearConnection(k) PROVE TableStep
  <2>1. Clearing = "live" /\ Clearing' \in {"live", "kept"}
        /\ UNCHANGED <<now, Leaving, historic, epoch > 0>>
    BY <1>0, <1>4 DEF ClearConnection, Clearing, Leaving
  <2>2. /\ {k} \in SUBSET Keys
        /\ conns' = [j \in Keys |-> IF j \in {k} THEN NoConn ELSE conns[j]]
    BY <1>0, <1>4 DEF ClearConnection
  <2>3. Table!ClearLive
    BY <2>1, <2>2 DEF Table!ClearLive
  <2> QED BY <2>3 DEF TableStep, Table!Next
<1>5. ASSUME NEW k \in ui.left, ClearHistoric(k) PROVE TableStep
  <2>1. Clearing = "kept" /\ Clearing' \in {"kept", "nothing"} /\ historic' \subseteq historic
        /\ UNCHANGED <<now, conns, Leaving, epoch > 0>>
    BY <1>0, <1>5 DEF ClearHistoric, Clearing, Leaving
  <2>2. Table!ClearKept
    BY <2>1 DEF Table!ClearKept
  <2> QED BY <2>2 DEF TableStep, Table!Next
<1>6. CASE ClearRtt \/ ClearQuic
  <2>1. UNCHANGED <<now, conns, historic, cl, epoch>> /\ Clearing' = Clearing
    BY <1>0, <1>6 DEF ClearRtt, ClearQuic, ClearIdle, Clearing
  <2> QED BY <2>1, TableStutter DEF Leaving
<1>7. CASE Tick
  <2>1. now' > now /\ UNCHANGED <<conns, Leaving, historic, Clearing, epoch > 0>>
    BY <1>0, <1>7 DEF Tick, Leaving, Clearing, tables
  <2>2. Table!Tick
    BY <2>1 DEF Table!Tick
  <2> QED BY <2>2 DEF TableStep, Table!Next
<1>8. CASE UNCHANGED vars
  BY <1>8, TableStutter DEF vars, tables, Leaving, Clearing
<1> QED BY <1>1, <1>2, <1>3, <1>4, <1>5, <1>6, <1>7, <1>8 DEF Next, Clear

(* ingest_at, cleanup and clear of tracker.rs implement ConnectionTable,   *)
(* whatever the threads, the limits and the packets are.                   *)
THEOREM ImplementsTableCorrect == Spec => ImplementsTable
<1>1. Init => Table!Init
  <2> SUFFICES ASSUME Init PROVE Table!Init
    OBVIOUS
  <2>1. Leaving = {} /\ Clearing = "nothing" /\ (epoch > 0) = FALSE
    BY DEF Init, CleanupIdle, ClearIdle, Leaving, Clearing
  <2> QED BY <2>1 DEF Init, Table!Init
<1>2. CapacityInv' => CapacityBound'
  BY CapacityHolds, PTL
<1>3. TypeInv /\ TableInv /\ CapacityInv /\ [Next]_vars => [Table!Next]_(Table!tableVars)
  BY TypeNext, CapacityNext, <1>2, TableRefined DEF TableStep
<1> QED BY TypeInit, TypeNext, CapacityInit, CapacityNext, TableInit, TableNext, <1>1, <1>3,
           PTL DEF Spec, ImplementsTable, Table!Spec

=============================================================================
