------------------------- MODULE TrafficGraphProofs -------------------------
(***************************************************************************)
(* The traffic history, for any number of processors and clears.           *)
(*                                                                         *)
(* ShownOnce, no packet is shown in two samples: not inductive alone, as a *)
(* read adds stats - prev to what is shown.  The strengthening bounds that *)
(* difference by what was counted and not shown yet; a clear only lowers   *)
(* stats.                                                                  *)
(*                                                                         *)
(* TypeOK: that a round-trip time is no negative number, and a sample no   *)
(* older than the clock, takes the order of the instants (Clocks).         *)
(*                                                                         *)
(* SamplesConsumed: what has gone into the history is older than the last  *)
(* average, what is on its way at most a window older (ConsumedInv).       *)
(*                                                                         *)
(* OneStaleSample: while a sample read before a clear is on its way, none  *)
(* is in the history (StaleInv).                                           *)
(***************************************************************************)
EXTENDS TrafficGraph, TLAPS

GraphTypes ==
  /\ stats \in Counters /\ total \in Counters /\ shown \in Counters
  /\ open \in [Processors -> Nat]
  /\ graph.pc \in {"sleep", "retransmits", "rtt", "sample"}
  /\ graph.delta \in Counters /\ graph.prev \in Counters
  /\ graph = [pc |-> graph.pc, last |-> graph.last, prev |-> graph.prev,
              delta |-> graph.delta, rtts |-> graph.rtts, epoch |-> graph.epoch]

NotYetRead ==
  /\ graph.pc = "sleep" => graph.delta.packets = 0
  /\ graph.pc \in {"sleep", "retransmits"} => graph.delta.retransmits = 0

Unshown ==
  /\ shown.packets + graph.delta.packets + stats.packets
       <= total.packets + graph.prev.packets
  /\ shown.retransmits + graph.delta.retransmits + stats.retransmits
       <= total.retransmits + graph.prev.retransmits

GraphInv == GraphTypes /\ NotYetRead /\ Unshown /\ ShownOnce

-----------------------------------------------------------------------------
(* The counters start at zero.                                             *)
LEMMA InitGraph == Init => GraphInv
BY DEF Init, GraphInv, GraphTypes, NotYetRead, Unshown, ShownOnce, Counters, Zero

(* Packets and retransmissions are counted in stats and total alike.       *)
LEMMA CountStep ==
  ASSUME GraphInv, NEW p \in Processors,
         CountBatch(p) \/ \E r \in BOOLEAN : HandlePacket(p, r)
  PROVE  GraphInv'
<1>1. CASE CountBatch(p)
  BY <1>1 DEF CountBatch, GraphInv, GraphTypes, NotYetRead, Unshown, ShownOnce, Counters
<1>2. ASSUME NEW r \in BOOLEAN, HandlePacket(p, r) PROVE GraphInv'
  BY <1>2 DEF HandlePacket, GraphInv, GraphTypes, NotYetRead, Unshown, ShownOnce, Counters
<1> QED BY <1>1, <1>2

(* The graph thread moves stats - prev to what is shown.                   *)
LEMMA GraphStep ==
  ASSUME GraphInv, GraphPackets \/ GraphRetransmits \/ GraphRtt \/ GraphSample
  PROVE  GraphInv'
<1>1. CASE GraphPackets
  <2> DEFINE d == SaturatingSub(stats.packets, graph.prev.packets)
  <2>1. /\ stats \in Counters /\ total \in Counters /\ shown \in Counters
        /\ graph.delta \in Counters /\ graph.prev \in Counters
    BY DEF GraphInv, GraphTypes
  <2>n. /\ stats.packets \in Nat /\ total.packets \in Nat /\ shown.packets \in Nat
        /\ stats.retransmits \in Nat /\ total.retransmits \in Nat /\ shown.retransmits \in Nat
        /\ graph.delta.packets \in Nat /\ graph.delta.retransmits \in Nat
        /\ graph.prev.packets \in Nat /\ graph.prev.retransmits \in Nat
    BY <2>1 DEF Counters
  <2>2. d \in Nat /\ (d = 0 \/ d + graph.prev.packets = stats.packets)
    BY <2>n DEF SaturatingSub
  <2> HIDE DEF d
  <2>3. /\ graph'.pc = "retransmits" /\ graph.pc = "sleep"
        /\ graph'.delta = [graph.delta EXCEPT !.packets = d]
        /\ graph'.prev = [graph.prev EXCEPT !.packets = stats.packets]
        /\ UNCHANGED <<stats, total, shown, open>>
    BY <1>1 DEF GraphPackets, GraphInv, GraphTypes, d
  <2>4. graph' = [pc |-> graph'.pc, last |-> graph'.last, prev |-> graph'.prev,
                  delta |-> graph'.delta, rtts |-> graph'.rtts, epoch |-> graph'.epoch]
    BY <1>1 DEF GraphPackets, GraphInv, GraphTypes
  <2>5. /\ graph'.delta \in Counters /\ graph'.prev \in Counters
        /\ graph'.delta.packets = d /\ graph'.delta.retransmits = graph.delta.retransmits
        /\ graph'.prev.packets = stats.packets
        /\ graph'.prev.retransmits = graph.prev.retransmits
    BY <2>1, <2>2, <2>3 DEF Counters
  <2>6. GraphTypes' /\ NotYetRead'
    BY <2>1, <2>3, <2>4, <2>5 DEF GraphInv, GraphTypes, NotYetRead
  <2>7. Unshown' /\ ShownOnce'
    <3>1. graph.delta.packets = 0
      BY <2>3 DEF GraphInv, NotYetRead
    <3> QED BY <2>n, <2>2, <2>3, <2>5, <3>1 DEF GraphInv, Unshown, ShownOnce
  <2> QED BY <2>6, <2>7 DEF GraphInv
<1>2. CASE GraphRetransmits
  <2> DEFINE d == SaturatingSub(stats.retransmits, graph.prev.retransmits)
  <2>1. /\ stats \in Counters /\ total \in Counters /\ shown \in Counters
        /\ graph.delta \in Counters /\ graph.prev \in Counters
    BY DEF GraphInv, GraphTypes
  <2>n. /\ stats.packets \in Nat /\ total.packets \in Nat /\ shown.packets \in Nat
        /\ stats.retransmits \in Nat /\ total.retransmits \in Nat /\ shown.retransmits \in Nat
        /\ graph.delta.packets \in Nat /\ graph.delta.retransmits \in Nat
        /\ graph.prev.packets \in Nat /\ graph.prev.retransmits \in Nat
    BY <2>1 DEF Counters
  <2>2. d \in Nat /\ (d = 0 \/ d + graph.prev.retransmits = stats.retransmits)
    BY <2>n DEF SaturatingSub
  <2> HIDE DEF d
  <2>3. /\ graph'.pc = "rtt" /\ graph.pc = "retransmits"
        /\ graph'.delta = [graph.delta EXCEPT !.retransmits = d]
        /\ graph'.prev = [graph.prev EXCEPT !.retransmits = stats.retransmits]
        /\ UNCHANGED <<stats, total, shown, open>>
    BY <1>2 DEF GraphRetransmits, GraphInv, GraphTypes, d
  <2>4. graph' = [pc |-> graph'.pc, last |-> graph'.last, prev |-> graph'.prev,
                  delta |-> graph'.delta, rtts |-> graph'.rtts, epoch |-> graph'.epoch]
    BY <1>2 DEF GraphRetransmits, GraphInv, GraphTypes
  <2>5. /\ graph'.delta \in Counters /\ graph'.prev \in Counters
        /\ graph'.delta.retransmits = d /\ graph'.delta.packets = graph.delta.packets
        /\ graph'.prev.retransmits = stats.retransmits
        /\ graph'.prev.packets = graph.prev.packets
    BY <2>1, <2>2, <2>3 DEF Counters
  <2>6. GraphTypes' /\ NotYetRead'
    BY <2>1, <2>3, <2>4, <2>5 DEF GraphInv, GraphTypes, NotYetRead
  <2>7. Unshown' /\ ShownOnce'
    <3>1. graph.delta.retransmits = 0
      BY <2>3 DEF GraphInv, NotYetRead
    <3> QED BY <2>n, <2>2, <2>3, <2>5, <3>1 DEF GraphInv, Unshown, ShownOnce
  <2> QED BY <2>6, <2>7 DEF GraphInv
<1>3. CASE GraphRtt
  BY <1>3 DEF GraphRtt, GraphInv, GraphTypes, NotYetRead, Unshown, ShownOnce, Counters
<1>4. CASE GraphSample
  <2>1. /\ stats \in Counters /\ total \in Counters /\ shown \in Counters
        /\ graph.delta \in Counters /\ graph.prev \in Counters
    BY DEF GraphInv, GraphTypes
  <2>n. /\ stats.packets \in Nat /\ total.packets \in Nat /\ shown.packets \in Nat
        /\ stats.retransmits \in Nat /\ total.retransmits \in Nat /\ shown.retransmits \in Nat
        /\ graph.delta.packets \in Nat /\ graph.delta.retransmits \in Nat
        /\ graph.prev.packets \in Nat /\ graph.prev.retransmits \in Nat
    BY <2>1 DEF Counters
  <2>2. /\ graph'.pc = "sleep" /\ graph'.prev = graph.prev /\ graph'.delta = Zero
        /\ UNCHANGED <<stats, total, open>>
    BY <1>4 DEF GraphSample, GraphInv, GraphTypes
  <2>3. graph' = [pc |-> graph'.pc, last |-> graph'.last, prev |-> graph'.prev,
                  delta |-> graph'.delta, rtts |-> graph'.rtts, epoch |-> graph'.epoch]
    BY <1>4 DEF GraphSample, GraphInv, GraphTypes
  <2>4. /\ shown' \in Counters
        /\ shown'.packets = shown.packets + graph.delta.packets
        /\ shown'.retransmits = shown.retransmits + graph.delta.retransmits
    BY <1>4, <2>n DEF GraphSample, Counters
  <2>5. Zero \in Counters /\ Zero.packets = 0 /\ Zero.retransmits = 0
    BY DEF Zero, Counters
  <2>6. GraphTypes' /\ NotYetRead'
    BY <2>1, <2>2, <2>3, <2>4, <2>5 DEF GraphInv, GraphTypes, NotYetRead
  <2>7. Unshown' /\ ShownOnce'
    BY <2>n, <2>2, <2>4, <2>5 DEF GraphInv, Unshown, ShownOnce
  <2> QED BY <2>6, <2>7 DEF GraphInv
<1> QED BY <1>1, <1>2, <1>3, <1>4

(* A clear lowers stats and touches nothing else of the invariant.         *)
LEMMA ClearStep ==
  ASSUME GraphInv, ClearRtt \/ ClearHistory \/ ClearPackets \/ ClearRetransmits
  PROVE  GraphInv'
<1>1. CASE ClearPackets
  BY <1>1 DEF ClearPackets, GraphInv, GraphTypes, NotYetRead, Unshown, ShownOnce, Counters
<1>2. CASE ClearRetransmits
  BY <1>2 DEF ClearRetransmits, GraphInv, GraphTypes, NotYetRead, Unshown, ShownOnce, Counters
<1>3. CASE ClearRtt \/ ClearHistory
  BY <1>3 DEF ClearRtt, ClearHistory, GraphInv, GraphTypes, NotYetRead, Unshown, ShownOnce
<1> QED BY <1>1, <1>2, <1>3

(* Whatever the processors count and clear_all_connections resets between  *)
(* the reads of start_traffic_history_thread, no packet and no             *)
(* retransmission is shown twice.                                          *)
THEOREM ShownOnceCorrect == Spec => []ShownOnce
<1>1. GraphInv /\ [Next]_vars => GraphInv'
  <2> SUFFICES ASSUME GraphInv, [Next]_vars PROVE GraphInv'
    OBVIOUS
  <2>1. ASSUME NEW p \in Processors, CountBatch(p) \/ \E r \in BOOLEAN : HandlePacket(p, r)
        PROVE  GraphInv'
    BY <2>1, CountStep
  <2>2. ASSUME NEW k \in Keys, Syn(k) \/ SynAck(k) PROVE GraphInv'
    BY <2>2 DEF Syn, SynAck, GraphInv, GraphTypes, NotYetRead, Unshown, ShownOnce
  <2>3. CASE GraphPackets \/ GraphRetransmits \/ GraphRtt \/ GraphSample
    BY <2>3, GraphStep
  <2>4. CASE ClearRtt \/ ClearHistory \/ ClearPackets \/ ClearRetransmits
    BY <2>4, ClearStep
  <2>5. CASE Tick \/ UNCHANGED vars
    BY <2>5 DEF Tick, vars, GraphInv, GraphTypes, NotYetRead, Unshown, ShownOnce
  <2> QED BY <2>1, <2>2, <2>3, <2>4, <2>5 DEF Next
<1>2. GraphInv => ShownOnce
  BY DEF GraphInv
<1> QED BY <1>1, <1>2, InitGraph, PTL DEF Spec

-----------------------------------------------------------------------------
(* The types, and the order of the instants.                               *)

Clocks ==
  /\ \A k \in Keys : rtt.pending[k] # NoTime => rtt.pending[k] <= now
  /\ \A i \in DOMAIN rtt.recent : rtt.recent[i].at <= now
  /\ graph.last <= now

TypesInv == TypeOK /\ Clocks

(* A queue that makes room at its cap: TrafficHistory::add_sample and      *)
(* RttTracker::add_rtt_sample.                                             *)
LEMMA Pushed ==
  ASSUME NEW S, NEW h \in Seq(S), NEW s \in S, NEW n \in Nat \ {0},
         NEW g, g = Append(IF Len(h) >= n THEN Tail(h) ELSE h, s)
  PROVE  /\ g \in Seq(S)
         /\ Len(h) <= n => Len(g) <= n
         /\ Len(g) \in Nat \ {0}
         /\ g[Len(g)] = s
         /\ \E d \in {0, 1} : \A i \in 1..(Len(g) - 1) :
              i + d \in 1..Len(h) /\ g[i] = h[i + d]
<1>1. CASE Len(h) >= n
  <2>1. h # << >>
    BY <1>1
  <2> DEFINE t == Tail(h)
  <2>2. /\ t \in Seq(S) /\ Len(t) = Len(h) - 1
        /\ \A i \in 1..Len(t) : t[i] = h[i + 1]
    BY <2>1
  <2>3. g = Append(t, s)
    BY <1>1
  <2> HIDE DEF t
  <2>4. Len(g) = Len(t) + 1 /\ g \in Seq(S) /\ g[Len(g)] = s
    BY <2>2, <2>3
  <2>5. \A i \in 1..(Len(g) - 1) : i + 1 \in 1..Len(h) /\ g[i] = h[i + 1]
    BY <2>2, <2>3, <2>4
  <2> QED BY <1>1, <2>2, <2>4, <2>5
<1>2. CASE ~(Len(h) >= n)
  <2>1. g = Append(h, s)
    BY <1>2
  <2>2. Len(g) = Len(h) + 1 /\ g \in Seq(S) /\ g[Len(g)] = s
    BY <2>1
  <2>3. \A i \in 1..(Len(g) - 1) : i + 0 \in 1..Len(h) /\ g[i] = h[i + 0]
    BY <2>1, <2>2
  <2> QED BY <1>2, <2>2, <2>3
<1> QED BY <1>1, <1>2

LEMMA InitTypes == Init => TypesInv
BY GraphAssumption, RttAssumption
   DEF Init, TypesInv, TypeOK, Clocks, RttNew, RttState, Counters, Zero, GraphState

(* A handshake half seen: the round-trip time measured is no negative      *)
(* number.                                                                 *)
LEMMA SynTypes ==
  ASSUME TypesInv, NEW k \in Keys, Syn(k) \/ SynAck(k)
  PROVE  TypesInv'
<1> USE RttAssumption
<1>0. /\ now \in Nat
      /\ rtt.pending \in [Keys -> Nat \cup {NoTime}] /\ rtt.recent \in Seq(Sample)
      /\ rtt = [pending |-> rtt.pending, recent |-> rtt.recent]
  BY DEF TypesInv, TypeOK, RttState
<1>1. CASE Syn(k)
  <2> DEFINE q == [rtt.pending EXCEPT ![k] = now]
  <2>1. rtt'.pending = CleanupStale(q, now) /\ rtt'.recent = rtt.recent
        /\ rtt' = [pending |-> rtt'.pending, recent |-> rtt'.recent]
    BY <1>0, <1>1 DEF Syn, RecordSyn
  <2>2. q \in [Keys -> Nat \cup {NoTime}]
        /\ \A j \in Keys : q[j] # NoTime => q[j] <= now
    BY <1>0 DEF TypesInv, Clocks
  <2> HIDE DEF q
  <2>3. rtt'.pending \in [Keys -> Nat \cup {NoTime}]
        /\ \A j \in Keys : rtt'.pending[j] # NoTime => rtt'.pending[j] <= now
    BY <2>1, <2>2 DEF CleanupStale
  <2>4. rtt' \in RttState
    BY <1>0, <2>1, <2>3 DEF RttState
  <2> QED BY <1>1, <2>1, <2>3, <2>4 DEF Syn, TypesInv, TypeOK, Clocks
<1>2. CASE SynAck(k)
  <2> DEFINE s == [at |-> now, rtt |-> now - rtt.pending[k]]
  <2>1. /\ rtt'.pending = [rtt.pending EXCEPT ![k] = NoTime]
        /\ rtt'.recent = AddRttSample(rtt.recent, s)
        /\ rtt' = [pending |-> rtt'.pending, recent |-> rtt'.recent]
    BY <1>2 DEF SynAck, RecordSynAck
  <2>2. s \in Sample /\ s.at = now
    BY <1>0, <1>2 DEF SynAck, Sample, TypesInv, Clocks
  <2> HIDE DEF s
  <2>3. /\ rtt'.recent \in Seq(Sample)
        /\ \A i \in DOMAIN rtt'.recent : rtt'.recent[i].at <= now
    <3> DEFINE g == AddRttSample(rtt.recent, s)
    <3>1. g = Append(IF Len(rtt.recent) >= MaxRecentRtts THEN Tail(rtt.recent)
                                                        ELSE rtt.recent, s)
      BY DEF AddRttSample
    <3> HIDE DEF g
    <3>2. /\ g \in Seq(Sample) /\ Len(g) \in Nat \ {0} /\ g[Len(g)] = s
          /\ \E d \in {0, 1} : \A i \in 1..(Len(g) - 1) :
               i + d \in 1..Len(rtt.recent) /\ g[i] = rtt.recent[i + d]
      <4>1. rtt.recent \in Seq(Sample) /\ s \in Sample /\ MaxRecentRtts \in Nat \ {0}
        BY <1>0, <2>2
      <4> QED BY <3>1, <4>1, Pushed
    <3>3. \A i \in DOMAIN rtt.recent : rtt.recent[i].at <= now
      BY DEF TypesInv, Clocks
    <3>4. ASSUME NEW i \in 1..Len(g) PROVE g[i].at <= now
      <4>1. CASE i = Len(g)
        BY <1>0, <2>2, <3>2, <4>1
      <4>2. CASE i \in 1..(Len(g) - 1)
        BY <1>0, <3>2, <3>3, <4>2
      <4> QED BY <3>2, <4>1, <4>2
    <3> QED BY <2>1, <3>2, <3>4 DEF g
  <2>4. rtt'.pending \in [Keys -> Nat \cup {NoTime}]
        /\ \A j \in Keys : rtt'.pending[j] # NoTime => rtt'.pending[j] <= now
    BY <1>0, <2>1 DEF TypesInv, Clocks
  <2>5. rtt' \in RttState
    BY <2>1, <2>3, <2>4 DEF RttState
  <2> QED BY <1>2, <2>3, <2>4, <2>5 DEF SynAck, TypesInv, TypeOK, Clocks
<1> QED BY <1>1, <1>2

(* The processors, the clears and the clock.                               *)
LEMMA OtherTypes ==
  ASSUME TypesInv,
         \/ \E p \in Processors : CountBatch(p) \/ \E r \in BOOLEAN : HandlePacket(p, r)
         \/ ClearRtt \/ ClearHistory \/ ClearPackets \/ ClearRetransmits
         \/ Tick
  PROVE  TypesInv'
<1> USE GraphAssumption, RttAssumption DEF TypesInv
<1>0. /\ now \in Nat /\ stats \in Counters /\ total \in Counters
      /\ open \in [Processors -> 0..BatchMax]
      /\ rtt.pending \in [Keys -> Nat \cup {NoTime}] /\ rtt.recent \in Seq(Sample)
      /\ graph.last \in Nat
  BY DEF TypeOK, RttState, GraphState
<1>a. ASSUME NEW i \in 1..Len(rtt.recent) PROVE rtt.recent[i].at \in Nat
  <2>1. rtt.recent[i] \in Sample
    BY <1>0
  <2> QED BY <2>1 DEF Sample
<1>b. ASSUME NEW c \in Counters, NEW m \in Nat
      PROVE  /\ [c EXCEPT !.packets = @ + m] \in Counters
             /\ [c EXCEPT !.retransmits = @ + m] \in Counters
  BY DEF Counters
<1>1. ASSUME NEW p \in Processors, CountBatch(p) PROVE TypesInv'
  <2>1. open[p] \in Nat
    BY <1>0
  <2>2. stats' \in Counters /\ total' \in Counters
    BY <1>0, <1>1, <1>b, <2>1 DEF CountBatch
  <2>3. open' \in [Processors -> 0..BatchMax]
    BY <1>0, <1>1 DEF CountBatch
  <2> QED BY <1>1, <2>2, <2>3 DEF CountBatch, TypeOK, Clocks
<1>2. ASSUME NEW p \in Processors, NEW r \in BOOLEAN, HandlePacket(p, r) PROVE TypesInv'
  <2>1. stats' \in Counters /\ total' \in Counters
    <3> DEFINE m == IF r THEN 1 ELSE 0
    <3>1. m \in Nat /\ stats' = [stats EXCEPT !.retransmits = @ + m]
          /\ total' = [total EXCEPT !.retransmits = @ + m]
      BY <1>2 DEF HandlePacket
    <3> QED BY <1>0, <1>b, <3>1
  <2>2. open' \in [Processors -> 0..BatchMax]
    <3>1. open[p] \in 0..BatchMax /\ open[p] < BatchMax
      BY <1>0, <1>2 DEF HandlePacket
    <3>2. open[p] + 1 \in 0..BatchMax
      BY <3>1
    <3>3. open' = [open EXCEPT ![p] = open[p] + 1]
      BY <1>2 DEF HandlePacket
    <3> QED BY <1>0, <3>2, <3>3
  <2> QED BY <1>2, <2>1, <2>2 DEF HandlePacket, TypeOK, Clocks
<1>3. CASE ClearRtt
  BY <1>3 DEF ClearRtt, TypeOK, Clocks, RttNew, RttState
<1>4. CASE ClearHistory
  BY <1>4 DEF ClearHistory, TypeOK, Clocks
<1>5. CASE ClearPackets \/ ClearRetransmits
  <2>1. stats' \in Counters
    <3>1. /\ [stats EXCEPT !.packets = 0] \in Counters
          /\ [stats EXCEPT !.retransmits = 0] \in Counters
      BY <1>0 DEF Counters
    <3> QED BY <1>5, <3>1 DEF ClearPackets, ClearRetransmits
  <2> QED BY <1>5, <2>1 DEF ClearPackets, ClearRetransmits, TypeOK, Clocks
<1>6. CASE Tick
  <2>1. now' \in Nat /\ now <= now' /\ UNCHANGED rtt /\ UNCHANGED graph
    BY <1>0, <1>6 DEF Tick
  <2>2. Clocks'
    BY <1>0, <1>a, <2>1 DEF Clocks
  <2> QED BY <1>6, <2>1, <2>2 DEF Tick, TypeOK
<1> QED BY <1>1, <1>2, <1>3, <1>4, <1>5, <1>6

(* The graph thread: what it read becomes a sample of the history, which   *)
(* never outgrows its cap.                                                 *)
LEMMA GraphTypesStep ==
  ASSUME TypesInv, GraphPackets \/ GraphRetransmits \/ GraphRtt \/ GraphSample
  PROVE  TypesInv'
<1> USE GraphAssumption DEF TypesInv
<1>1. CASE GraphPackets
  <2>1. SaturatingSub(stats.packets, graph.prev.packets) \in Nat
    BY DEF SaturatingSub, TypeOK, Counters, GraphState
  <2>2. graph' \in GraphState /\ graph'.last = graph.last
    BY <1>1, <2>1 DEF GraphPackets, TypeOK, Counters, GraphState
  <2> QED BY <1>1, <2>2 DEF GraphPackets, TypeOK, Clocks
<1>2. CASE GraphRetransmits
  <2>1. SaturatingSub(stats.retransmits, graph.prev.retransmits) \in Nat
    BY DEF SaturatingSub, TypeOK, Counters, GraphState
  <2>2. graph' \in GraphState /\ graph'.last = graph.last
    BY <1>2, <2>1 DEF GraphRetransmits, TypeOK, Counters, GraphState
  <2> QED BY <1>2, <2>2 DEF GraphRetransmits, TypeOK, Clocks
<1>3. CASE GraphRtt
  <2>1. {rtt.recent[i] : i \in InWindow(rtt, now, Window)} \in SUBSET Sample
    BY DEF InWindow, TypeOK, RttState
  <2>2. graph' \in GraphState /\ graph'.last = now
    BY <1>3, <2>1 DEF GraphRtt, TypeOK, GraphState
  <2>3. rtt' = rtt
    BY <1>3 DEF GraphRtt, TakeAverageRtt
  <2> QED BY <1>3, <2>2, <2>3 DEF GraphRtt, TypeOK, Clocks
<1>4. CASE GraphSample
  <2> DEFINE s == [packets |-> graph.delta.packets, retransmits |-> graph.delta.retransmits,
                   rtts |-> graph.rtts, epoch |-> graph.epoch]
  <2>1. s \in Shown
    BY DEF TypeOK, GraphState, Counters, Shown
  <2>2. history' = Append(IF Len(history) >= MaxSamples THEN Tail(history) ELSE history, s)
    BY <1>4 DEF GraphSample, AddSample
  <2> HIDE DEF s
  <2>3. history' \in Seq(Shown) /\ Len(history') <= MaxSamples
    BY <2>1, <2>2, Pushed DEF TypeOK
  <2>4. graph' \in GraphState /\ graph'.last = graph.last
    BY <1>4 DEF GraphSample, TypeOK, GraphState, Counters, Zero
  <2>5. shown' \in Counters
    <3>1. shown \in Counters /\ graph.delta \in Counters
      BY DEF TypeOK, GraphState
    <3> QED BY <1>4, <3>1 DEF GraphSample, Counters
  <2> QED BY <1>4, <2>3, <2>4, <2>5 DEF GraphSample, TypeOK, Clocks
<1> QED BY <1>1, <1>2, <1>3, <1>4

LEMMA StepTypes == TypesInv /\ [Next]_vars => TypesInv'
<1> SUFFICES ASSUME TypesInv, [Next]_vars PROVE TypesInv'
  OBVIOUS
<1>1. CASE UNCHANGED vars
  BY <1>1 DEF vars, TypesInv, TypeOK, Clocks
<1> QED BY <1>1, SynTypes, OtherTypes, GraphTypesStep DEF Next

(* start_traffic_history_thread, the RTT tracker and clear_all_connections *)
(* keep their types: no round-trip time is negative, and the history holds *)
(* at most max_samples samples.                                            *)
THEOREM TypesCorrect == Spec => []TypeOK
<1>1. TypesInv => TypeOK
  BY DEF TypesInv
<1> QED BY <1>1, InitTypes, StepTypes, PTL DEF Spec

-----------------------------------------------------------------------------
(* Stale samples.                                                          *)

StaleInv ==
  /\ graph.epoch <= epoch
  /\ graph.pc # "sleep" /\ graph.epoch < epoch =>
       \A i \in DOMAIN history : history[i].epoch >= epoch
  /\ OneStaleSample

(* Where the history of a step comes from: it stays, is emptied, or has    *)
(* the graph thread's sample behind what it held.                          *)
LEMMA HistoryGrows ==
  ASSUME TypesInv, GraphSample
  PROVE  /\ history' \in Seq(Shown) /\ Len(history') \in Nat \ {0}
         /\ history'[Len(history')].epoch = graph.epoch
         /\ history'[Len(history')].rtts = graph.rtts
         /\ \E d \in {0, 1} : \A i \in 1..(Len(history') - 1) :
              i + d \in 1..Len(history) /\ history'[i] = history[i + d]
<1> DEFINE s == [packets |-> graph.delta.packets, retransmits |-> graph.delta.retransmits,
                 rtts |-> graph.rtts, epoch |-> graph.epoch]
<1>1. s \in Shown /\ history \in Seq(Shown)
  BY DEF TypesInv, TypeOK, GraphState, Counters, Shown
<1>2. history' = Append(IF Len(history) >= MaxSamples THEN Tail(history) ELSE history, s)
  BY DEF GraphSample, AddSample
<1>3. s.epoch = graph.epoch /\ s.rtts = graph.rtts
  OBVIOUS
<1> HIDE DEF s
<1> QED BY <1>1, <1>2, <1>3, Pushed, GraphAssumption

LEMMA StepStale == TypesInv /\ StaleInv /\ [Next]_vars => StaleInv'
<1> SUFFICES ASSUME TypesInv, StaleInv, [Next]_vars PROVE StaleInv'
  OBVIOUS
<1>0. /\ epoch \in Nat /\ graph.epoch \in Nat
      /\ graph \in GraphState /\ history \in Seq(Shown)
  BY DEF TypesInv, TypeOK, GraphState
<1>a. ASSUME NEW i \in 1..Len(history) PROVE history[i].epoch \in Nat
  <2>1. history[i] \in Shown
    BY <1>0
  <2> QED BY <2>1 DEF Shown
<1>1. CASE GraphPackets
  <2>1. graph'.epoch = epoch /\ UNCHANGED <<history, epoch>>
    BY <1>0, <1>1 DEF GraphPackets, GraphState
  <2> QED BY <1>0, <2>1 DEF StaleInv, OneStaleSample
<1>2. CASE GraphRetransmits \/ GraphRtt
  <2>1. /\ graph'.epoch = graph.epoch /\ graph.pc # "sleep"
        /\ UNCHANGED <<history, epoch>>
    BY <1>0, <1>2 DEF GraphRetransmits, GraphRtt, GraphState
  <2> QED BY <2>1 DEF StaleInv, OneStaleSample
<1>3. CASE GraphSample
  <2>1. /\ graph'.epoch = graph.epoch /\ graph'.pc = "sleep" /\ graph.pc = "sample"
        /\ epoch' = epoch
    BY <1>0, <1>3 DEF GraphSample, GraphState
  <2> DEFINE n == Len(history')
  <2>2. /\ n \in Nat \ {0} /\ history'[n].epoch = graph.epoch /\ DOMAIN history' = 1..n
    BY <1>3, HistoryGrows
  <2>3. PICK d \in {0, 1} : \A i \in 1..(n - 1) :
               i + d \in 1..Len(history) /\ history'[i] = history[i + d]
    BY <1>3, HistoryGrows
  <2> HIDE DEF n
  <2>4. ASSUME NEW i \in 1..n, NEW j \in 1..n,
               history'[i].epoch < epoch, history'[j].epoch < epoch
        PROVE  i = j
    <3>1. CASE graph.epoch < epoch
      <4>1. \A l \in 1..Len(history) : history[l].epoch >= epoch
        BY <1>0, <2>1, <3>1 DEF StaleInv
      <4>2. \A l \in 1..(n - 1) : ~(history'[l].epoch < epoch)
        BY <1>0, <1>a, <2>3, <4>1
      <4>3. i = n /\ j = n
        BY <2>2, <2>4, <4>2
      <4> QED BY <4>3
    <3>2. CASE ~(graph.epoch < epoch)
      <4>1. i \in 1..(n - 1) /\ j \in 1..(n - 1)
        BY <1>0, <2>2, <2>4, <3>2
      <4>2. i + d \in 1..Len(history) /\ j + d \in 1..Len(history)
            /\ history[i + d].epoch < epoch /\ history[j + d].epoch < epoch
        BY <2>3, <2>4, <4>1
      <4>3. i + d = j + d
        BY <4>2 DEF StaleInv, OneStaleSample
      <4> QED BY <2>2, <4>3
    <3> QED BY <3>1, <3>2
  <2>5. OneStaleSample'
    BY <2>1, <2>2, <2>4 DEF OneStaleSample
  <2> QED BY <2>1, <2>5 DEF StaleInv
<1>4. CASE ClearHistory
  <2>1. history' = << >> /\ epoch' = epoch + 1 /\ graph' = graph
    BY <1>4 DEF ClearHistory
  <2> QED BY <1>0, <2>1 DEF StaleInv, OneStaleSample
<1>5. CASE UNCHANGED <<graph, history, epoch>>
  BY <1>5 DEF StaleInv, OneStaleSample
<1>6. \/ GraphPackets \/ GraphRetransmits \/ GraphRtt \/ GraphSample \/ ClearHistory
      \/ UNCHANGED <<graph, history, epoch>>
  BY DEF Next, CountBatch, HandlePacket, Syn, SynAck, ClearRtt, ClearPackets,
         ClearRetransmits, Tick, vars
<1> QED BY <1>1, <1>2, <1>3, <1>4, <1>5, <1>6

(* A clear that meets the graph thread between its reads and its sample    *)
(* leaves one sample of the time before in the new history, never two.     *)
THEOREM OneStaleSampleCorrect == Spec => []OneStaleSample
<1>1. Init => StaleInv
  BY DEF Init, StaleInv, OneStaleSample
<1>2. StaleInv => OneStaleSample
  BY DEF StaleInv
<1> QED BY <1>1, <1>2, InitTypes, StepTypes, StepStale, PTL DEF Spec

-----------------------------------------------------------------------------
(* Round-trip times.                                                       *)

ConsumedInv ==
  /\ graph.pc \in {"retransmits", "rtt"} => graph.last + Pause <= now
  /\ \A s \in graph.rtts :
       graph.pc = "sample" /\ s.at <= graph.last /\ graph.last <= s.at + Window
  /\ \A i \in DOMAIN history : \A s \in history[i].rtts :
       /\ s.at <= graph.last
       /\ graph.pc = "sample" => s.at + Window < graph.last
  /\ SamplesConsumed

(* What take_average_rtt averages over was taken within the window.        *)
LEMMA Averaged ==
  ASSUME TypesInv, NEW s \in {rtt.recent[i] : i \in InWindow(rtt, now, Window)}
  PROVE  s.at \in Nat /\ s.at <= now /\ now <= s.at + Window
<1>1. PICK i \in InWindow(rtt, now, Window) : s = rtt.recent[i]
  OBVIOUS
<1>2. i \in 1..Len(rtt.recent) /\ now <= rtt.recent[i].at + Window
  BY DEF InWindow
<1>3. rtt.recent \in Seq(Sample)
  BY DEF TypesInv, TypeOK, RttState
<1>4. rtt.recent[i] \in Sample /\ rtt.recent[i].at <= now
  BY <1>2, <1>3 DEF TypesInv, Clocks
<1> QED BY <1>1, <1>2, <1>4 DEF Sample

LEMMA StepConsumed ==
  ASSUME Window < Pause
  PROVE  TypesInv /\ ConsumedInv /\ [Next]_vars => ConsumedInv'
<1> SUFFICES ASSUME TypesInv, ConsumedInv, [Next]_vars PROVE ConsumedInv'
  OBVIOUS
<1> USE GraphAssumption
<1>0. /\ now \in Nat /\ graph.last \in Nat /\ graph.last <= now
      /\ graph \in GraphState /\ history \in Seq(Shown)
  BY DEF TypesInv, TypeOK, Clocks, GraphState
<1>a. ASSUME NEW i \in 1..Len(history), NEW s \in history[i].rtts
      PROVE  s.at \in Nat /\ s.at <= graph.last
  <2>1. history[i] \in Shown
    BY <1>0
  <2> QED BY <2>1 DEF Shown, Sample, ConsumedInv
<1>1. CASE GraphPackets
  <2>1. /\ graph'.pc = "retransmits" /\ graph.pc = "sleep" /\ graph'.last = graph.last
        /\ graph'.rtts = graph.rtts /\ graph.last + Pause <= now
        /\ UNCHANGED <<history, now>>
    BY <1>0, <1>1 DEF GraphPackets, GraphState
  <2> QED BY <2>1 DEF ConsumedInv, SamplesConsumed
<1>2. CASE GraphRetransmits
  <2>1. /\ graph'.pc = "rtt" /\ graph.pc = "retransmits" /\ graph'.last = graph.last
        /\ graph'.rtts = graph.rtts /\ UNCHANGED <<history, now>>
    BY <1>0, <1>2 DEF GraphRetransmits, GraphState
  <2> QED BY <2>1 DEF ConsumedInv, SamplesConsumed
<1>3. CASE GraphRtt
  <2>1. /\ graph'.pc = "sample" /\ graph.pc = "rtt" /\ graph'.last = now
        /\ graph'.rtts = {rtt.recent[i] : i \in InWindow(rtt, now, Window)}
        /\ UNCHANGED <<history, now>>
    BY <1>0, <1>3 DEF GraphRtt, GraphState
  <2>2. graph.last + Pause <= now
    BY <2>1 DEF ConsumedInv
  <2>3. \A s \in graph'.rtts : s.at <= now /\ now <= s.at + Window
    BY <2>1, Averaged
  <2>4. ASSUME NEW i \in DOMAIN history, NEW s \in history[i].rtts
        PROVE  s.at <= now /\ s.at + Window < now
    BY <1>0, <1>a, <2>2
  <2> QED BY <2>1, <2>3, <2>4 DEF ConsumedInv, SamplesConsumed
<1>4. CASE GraphSample
  <2>1. /\ graph'.pc = "sleep" /\ graph.pc = "sample" /\ graph'.last = graph.last
        /\ graph'.rtts = {}
    BY <1>0, <1>4 DEF GraphSample, GraphState
  <2> DEFINE n == Len(history')
  <2>2. /\ n \in Nat \ {0} /\ history'[n].rtts = graph.rtts /\ DOMAIN history' = 1..n
    BY <1>4, HistoryGrows
  <2>3. PICK d \in {0, 1} : \A i \in 1..(n - 1) :
               i + d \in 1..Len(history) /\ history'[i] = history[i + d]
    BY <1>4, HistoryGrows
  <2> HIDE DEF n
  <2>4. \A s \in graph.rtts : s.at <= graph.last /\ graph.last <= s.at + Window
    BY DEF ConsumedInv
  <2>5. ASSUME NEW i \in 1..(n - 1), NEW s \in history'[i].rtts
        PROVE  s.at <= graph.last /\ s \notin graph.rtts
    <3>1. i + d \in 1..Len(history) /\ s \in history[i + d].rtts
      BY <2>3, <2>5
    <3>2. s.at \in Nat /\ s.at <= graph.last
      BY <1>a, <3>1
    <3>3. s.at + Window < graph.last
      BY <1>0, <2>1, <3>1 DEF ConsumedInv
    <3> QED BY <1>0, <2>4, <3>2, <3>3
  <2>6. ASSUME NEW i \in 1..n, NEW s \in history'[i].rtts
        PROVE  s.at <= graph.last
    <3>1. CASE i = n
      BY <2>2, <2>4, <2>6, <3>1
    <3>2. CASE i \in 1..(n - 1)
      BY <2>5, <2>6, <3>2
    <3> QED BY <2>2, <3>1, <3>2
  <2>7. ASSUME NEW i \in 1..n, NEW j \in 1..n, i # j
        PROVE  history'[i].rtts \cap history'[j].rtts = {}
    <3>1. CASE i = n
      <4>1. j \in 1..(n - 1)
        BY <2>2, <2>7, <3>1
      <4> QED BY <2>2, <2>5, <3>1, <4>1
    <3>2. CASE j = n
      <4>1. i \in 1..(n - 1)
        BY <2>2, <2>7, <3>2
      <4> QED BY <2>2, <2>5, <3>2, <4>1
    <3>3. CASE i # n /\ j # n
      <4>1. i \in 1..(n - 1) /\ j \in 1..(n - 1)
        BY <2>2, <3>3
      <4>2. /\ i + d \in DOMAIN history /\ j + d \in DOMAIN history /\ i + d # j + d
            /\ history'[i] = history[i + d] /\ history'[j] = history[j + d]
        BY <1>0, <2>3, <2>7, <4>1
      <4> QED BY <4>2 DEF ConsumedInv, SamplesConsumed
    <3> QED BY <3>1, <3>2, <3>3
  <2>8. SamplesConsumed'
    BY <2>2, <2>7 DEF SamplesConsumed
  <2> QED BY <2>1, <2>2, <2>6, <2>8 DEF ConsumedInv
<1>5. CASE ClearHistory
  <2>1. history' = << >> /\ UNCHANGED <<graph, now>>
    BY <1>5 DEF ClearHistory
  <2> QED BY <2>1 DEF ConsumedInv, SamplesConsumed
<1>6. CASE UNCHANGED <<graph, history>> /\ now' \in {now, now + 1}
  BY <1>0, <1>6 DEF ConsumedInv, SamplesConsumed
<1>7. \/ GraphPackets \/ GraphRetransmits \/ GraphRtt \/ GraphSample \/ ClearHistory
      \/ UNCHANGED <<graph, history>> /\ now' \in {now, now + 1}
  BY DEF Next, CountBatch, HandlePacket, Syn, SynAck, ClearRtt, ClearPackets,
         ClearRetransmits, Tick, vars
<1> QED BY <1>1, <1>2, <1>3, <1>4, <1>5, <1>6, <1>7

(* take_average_rtt leaves the samples it averages over where they are; as *)
(* long as the graph thread pauses longer than the window looks back, none *)
(* is averaged into two samples of the history.                            *)
THEOREM SamplesConsumedCorrect == Window < Pause => (Spec => []SamplesConsumed)
<1> SUFFICES ASSUME Window < Pause PROVE Spec => []SamplesConsumed
  OBVIOUS
<1>1. Init => ConsumedInv
  BY DEF Init, ConsumedInv, SamplesConsumed
<1>2. ConsumedInv => SamplesConsumed
  BY DEF ConsumedInv
<1> QED BY <1>1, <1>2, InitTypes, StepTypes, StepConsumed, PTL DEF Spec
=============================================================================
