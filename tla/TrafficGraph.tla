---------------------------- MODULE TrafficGraph ----------------------------
(***************************************************************************)
(* The graph thread of src/app.rs (start_traffic_history_thread): about    *)
(* once a second it turns the counters the packet processors advance into  *)
(* one sample of the traffic history, with the average of the round-trip   *)
(* times the connection tracker collected.  clear_all_connections resets   *)
(* what it reads and what it writes, one store after the other.            *)
(*                                                                         *)
(* Only what a sample is computed from is kept of a packet: whether it     *)
(* was a retransmission, and whether it is a SYN or a SYN-ACK.             *)
(***************************************************************************)
EXTENDS RttTracker

CONSTANTS
  Processors,   \* the packet processors
  BatchMax,     \* packets in a batch
  MaxSamples,   \* TrafficHistory.max_samples (60)
  Window,       \* the window of take_average_rtt (1 s)
  Pause,        \* least time between two samples: the thread sleeps 1 s and then works
  MaxPackets, MaxSyns, MaxTime, MaxClears   \* bounds of the model

ASSUME GraphAssumption ==
  /\ BatchMax \in Nat \ {0} /\ MaxSamples \in Nat \ {0}
  /\ Window \in Nat /\ Pause \in Nat
  /\ MaxPackets \in Nat /\ MaxSyns \in Nat /\ MaxTime \in Nat /\ MaxClears \in Nat

VARIABLES
  now,      \* the clock
  rtt,      \* ConnectionTracker.rtt
  stats,    \* AppStats.packets_processed and total_tcp_retransmits
  open,     \* per processor: packets of its batch that are handled, not counted
  graph,    \* the graph thread: what it is about to do, what it has read
  history,  \* TrafficHistory.samples
  ui,       \* the UI thread: the next store of clear_all_connections, or "idle"
  total,    \* history: packets and retransmissions counted since the start
  shown,    \* history: packets and retransmissions in all samples ever added
  epoch,    \* history: how many times the traffic history was cleared
  syns      \* history: SYNs seen

vars == <<now, rtt, stats, open, graph, history, ui, total, shown, epoch, syns>>

Counters == [packets : Nat, retransmits : Nat]
Zero == [packets |-> 0, retransmits |-> 0]

Init ==
  /\ now = 0
  /\ rtt = RttNew
  /\ stats = Zero
  /\ open = [p \in Processors |-> 0]
  /\ graph = [pc |-> "sleep", last |-> 0, prev |-> Zero, delta |-> Zero, rtts |-> {},
              epoch |-> 0]
  /\ history = <<>>
  /\ ui = "idle"
  /\ total = Zero /\ shown = Zero /\ epoch = 0 /\ syns = 0

-----------------------------------------------------------------------------
(* The packet processors.                                                  *)

(* update_connection folds the anomalies of a packet into the statistics   *)
(* at once.                                                                *)
HandlePacket(p, isRetransmit) ==
  /\ open[p] < BatchMax
  /\ total.packets + open[p] < MaxPackets
  /\ open' = [open EXCEPT ![p] = @ + 1]
  /\ LET r == IF isRetransmit THEN 1 ELSE 0
     IN  /\ stats' = [stats EXCEPT !.retransmits = @ + r]
         /\ total' = [total EXCEPT !.retransmits = @ + r]
  /\ UNCHANGED <<now, rtt, graph, history, ui, shown, epoch, syns>>

(* The packets themselves are counted at the end of the batch.             *)
CountBatch(p) ==
  /\ open[p] > 0
  /\ stats' = [stats EXCEPT !.packets = @ + open[p]]
  /\ total' = [total EXCEPT !.packets = @ + open[p]]
  /\ open' = [open EXCEPT ![p] = 0]
  /\ UNCHANGED <<now, rtt, graph, history, ui, shown, epoch, syns>>

(* ingest_at hands the SYNs and SYN-ACKs to the RTT tracker.               *)
Syn(k) ==
  /\ syns < MaxSyns
  /\ syns' = syns + 1
  /\ rtt' = RecordSyn(rtt, k, now)
  /\ UNCHANGED <<now, stats, open, graph, history, ui, total, shown, epoch>>

SynAck(k) ==
  /\ rtt.pending[k] # NoTime
  /\ rtt' = RecordSynAck(rtt, k, now)
  /\ UNCHANGED <<now, stats, open, graph, history, ui, total, shown, epoch, syns>>

-----------------------------------------------------------------------------
(* The graph thread.                                                       *)

(* u64::saturating_sub.                                                    *)
SaturatingSub(a, b) == IF a >= b THEN a - b ELSE 0

(* Faulty: what was already shown is not remembered.                       *)
BugGraphPackets ==
  /\ graph.pc = "sleep"
  /\ now >= graph.last + Pause
  /\ graph' = [graph EXCEPT !.pc = "retransmits", !.epoch = epoch,
                            !.delta.packets = SaturatingSub(stats.packets, graph.prev.packets)]
  /\ UNCHANGED <<now, rtt, stats, open, history, ui, total, shown, epoch, syns>>

(* The thread wakes up and reads the packet counter.                       *)
GraphPackets ==
  /\ graph.pc = "sleep"
  /\ now >= graph.last + Pause
  /\ graph' = [graph EXCEPT !.pc = "retransmits", !.epoch = epoch,
                            !.delta.packets = SaturatingSub(stats.packets, graph.prev.packets),
                            !.prev.packets = stats.packets]
  /\ UNCHANGED <<now, rtt, stats, open, history, ui, total, shown, epoch, syns>>

GraphRetransmits ==
  /\ graph.pc = "retransmits"
  /\ graph' = [graph EXCEPT !.pc = "rtt",
                            !.delta.retransmits =
                               SaturatingSub(stats.retransmits, graph.prev.retransmits),
                            !.prev.retransmits = stats.retransmits]
  /\ UNCHANGED <<now, rtt, stats, open, history, ui, total, shown, epoch, syns>>

(* take_average_rtt: the samples in the window are averaged and kept.      *)
GraphRtt ==
  /\ graph.pc = "rtt"
  /\ graph' = [graph EXCEPT !.pc = "sample", !.last = now,
                            !.rtts = {rtt.recent[i] : i \in InWindow(rtt, now, Window)}]
  /\ rtt' = TakeAverageRtt(rtt, now, Window)
  /\ UNCHANGED <<now, stats, open, history, ui, total, shown, epoch, syns>>

(* Faulty: the history grows without end.                                  *)
BugAddSample(h, s) == Append(h, s)

(* TrafficHistory::add_sample, the oldest sample makes room.               *)
AddSample(h, s) == Append(IF Len(h) >= MaxSamples THEN Tail(h) ELSE h, s)

GraphSample ==
  /\ graph.pc = "sample"
  /\ history' = AddSample(history, [packets |-> graph.delta.packets,
                                    retransmits |-> graph.delta.retransmits,
                                    rtts |-> graph.rtts, epoch |-> graph.epoch])
  /\ shown' = [packets |-> shown.packets + graph.delta.packets,
               retransmits |-> shown.retransmits + graph.delta.retransmits]
  /\ graph' = [graph EXCEPT !.pc = "sleep", !.delta = Zero, !.rtts = {}]
  /\ UNCHANGED <<now, rtt, stats, open, ui, total, epoch, syns>>

-----------------------------------------------------------------------------
(* clear_all_connections, in the order of its stores.                      *)

ClearRtt ==
  /\ ui = "idle"
  /\ epoch < MaxClears
  /\ rtt' = RttNew
  /\ ui' = "history"
  /\ UNCHANGED <<now, stats, open, graph, history, total, shown, epoch, syns>>

(* Faulty: the traffic history survives.                                   *)
BugClearHistory ==
  /\ ui = "history"
  /\ epoch' = epoch + 1
  /\ ui' = "packets"
  /\ UNCHANGED <<now, rtt, stats, open, graph, history, total, shown, syns>>

ClearHistory ==
  /\ ui = "history"
  /\ history' = <<>>
  /\ epoch' = epoch + 1
  /\ ui' = "packets"
  /\ UNCHANGED <<now, rtt, stats, open, graph, total, shown, syns>>

ClearPackets ==
  /\ ui = "packets"
  /\ stats' = [stats EXCEPT !.packets = 0]
  /\ ui' = "retransmits"
  /\ UNCHANGED <<now, rtt, open, graph, history, total, shown, epoch, syns>>

ClearRetransmits ==
  /\ ui = "retransmits"
  /\ stats' = [stats EXCEPT !.retransmits = 0]
  /\ ui' = "idle"
  /\ UNCHANGED <<now, rtt, open, graph, history, total, shown, epoch, syns>>

-----------------------------------------------------------------------------
Tick ==
  /\ now < MaxTime
  /\ now' = now + 1
  /\ UNCHANGED <<rtt, stats, open, graph, history, ui, total, shown, epoch, syns>>

Next ==
  \/ \E p \in Processors : CountBatch(p) \/ \E r \in BOOLEAN : HandlePacket(p, r)
  \/ \E k \in Keys : Syn(k) \/ SynAck(k)
  \/ GraphPackets \/ GraphRetransmits \/ GraphRtt \/ GraphSample
  \/ ClearRtt \/ ClearHistory \/ ClearPackets \/ ClearRetransmits
  \/ Tick

Spec == Init /\ [][Next]_vars

-----------------------------------------------------------------------------
(* Properties.                                                             *)

GraphState == [pc : {"sleep", "retransmits", "rtt", "sample"}, last : Nat,
               prev : Counters, delta : Counters, rtts : SUBSET Sample, epoch : Nat]

(* What a sample of the history is made of.                                *)
Shown == [packets : Nat, retransmits : Nat, rtts : SUBSET Sample, epoch : Nat]

(* Every variable has its type, and the history its length.                *)
TypeOK ==
  /\ now \in Nat /\ epoch \in Nat /\ syns \in Nat
  /\ rtt \in RttState
  /\ stats \in Counters /\ total \in Counters /\ shown \in Counters
  /\ open \in [Processors -> 0..BatchMax]
  /\ graph \in GraphState
  /\ history \in Seq(Shown) /\ Len(history) <= MaxSamples
  /\ ui \in {"idle", "history", "packets", "retransmits"}

(* No packet and no retransmission is shown in two samples, whatever a     *)
(* clear does to the counters between the reads.                           *)
ShownOnce ==
  /\ shown.packets + graph.delta.packets <= total.packets
  /\ shown.retransmits + graph.delta.retransmits <= total.retransmits

(* Once clear_all_connections has emptied the traffic history, at most one *)
(* sample whose counters were read before that comes into it.              *)
OneStaleSample ==
  \A i, j \in DOMAIN history :
    history[i].epoch < epoch /\ history[j].epoch < epoch => i = j

(* No round-trip time is averaged into two samples of the history.  It is  *)
(* the thread's pause, longer than the window, that sees to it.            *)
SamplesConsumed ==
  \A i, j \in DOMAIN history : i # j => history[i].rtts \cap history[j].rtts = {}
=============================================================================
