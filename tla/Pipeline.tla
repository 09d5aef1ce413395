------------------------------ MODULE Pipeline ------------------------------
(***************************************************************************)
(* The capture pipeline of src/app.rs: the capture thread (pcap_tx) reads  *)
(* packets into batches and offers them to a bounded channel, the packet   *)
(* processors (pcap_rx_<i>) take batches from it, and the main thread      *)
(* starts the processors after the sandbox, clears the counters and stops. *)
(*                                                                         *)
(* Packets are numbered in the order they are read.  A processor handing a *)
(* packet to the connection table is one step: ConnectionTracker models    *)
(* what happens inside.                                                    *)
(***************************************************************************)
EXTENDS Naturals, Sequences, FiniteSets, Functions

CONSTANTS
  Processors,      \* the packet processor threads
  BatchMax,        \* packets in a full batch (100)
  QueueMax,        \* MAX_PACKET_QUEUE, the capacity of the channel
  SetupOutcomes,   \* what setup_packet_capture may answer
  MaxPackets,      \* bound: packets read
  MaxKernelDrops,  \* bound: packets the kernel drops
  MaxClears        \* bound: clear_all_connections calls

ASSUME PipelineAssumption ==
  /\ IsFiniteSet(Processors) /\ Processors # {}
  /\ BatchMax \in Nat \ {0}
  /\ QueueMax \in Nat \ {0}
  /\ SetupOutcomes \in (SUBSET {"ok", "err"}) \ {{}}
  /\ MaxPackets \in Nat /\ MaxKernelDrops \in Nat /\ MaxClears \in Nat

VARIABLES
  main,        \* the main thread: "sandbox", "ui", "clearing", "stopping", "dropped"
  shouldStop,  \* App.should_stop
  linktype,    \* whether App.linktype is set
  capture,     \* the capture thread: "setup", "check", "read", "stats", "ended"
  nread,       \* packets_read
  batch,       \* the batch being filled
  due,         \* whether batch_deadline has passed
  kernel,      \* external: the drops libpcap reports
  queue,       \* the channel, a sequence of batches
  proc,        \* per processor: "unborn", "linktype", "check", "recv", "work", "ended"
  hand,        \* per processor: what is left of the batch it works on
  size,        \* per processor: the length of that batch
  stats,       \* AppStats.packets_processed and packets_dropped
  clears,      \* how many times the counters were cleared
  handled,     \* history: the packets that were parsed or skipped
  dropped,     \* history: the packets of batches the full channel refused
  lost,        \* history: the packets discarded when a thread ended
  refused      \* history: packets the channel refused since the last clear

vars == <<main, shouldStop, linktype, capture, nread, batch, due, kernel, queue,
          proc, hand, size, stats, clears, handled, dropped, lost, refused>>

mainVars == <<main, shouldStop, clears>>
captureVars == <<linktype, capture, nread, batch, due, kernel>>
procVars == <<proc, hand, size>>

-----------------------------------------------------------------------------
(* Where a packet that was read can be.                                    *)

InQueue == UNION {Range(queue[i]) : i \in DOMAIN queue}
InHand == UNION {Range(hand[p]) : p \in Processors}

(* The receiver sits in App.packet_rx until the processors get it; nobody  *)
(* can receive once the app, or the last processor, is gone.               *)
Disconnected ==
  \/ \A p \in Processors : proc[p] = "ended"
  \/ main = "dropped" /\ \A p \in Processors : proc[p] = "unborn"

Init ==
  /\ main = "sandbox" /\ shouldStop = FALSE /\ clears = 0
  /\ linktype = FALSE /\ capture = "setup" /\ nread = 0 /\ batch = <<>>
  /\ due = FALSE /\ kernel = 0
  /\ queue = <<>>
  /\ proc = [p \in Processors |-> "unborn"]
  /\ hand = [p \in Processors |-> <<>>]
  /\ size = [p \in Processors |-> 0]
  /\ stats = [processed |-> 0, dropped |-> 0]
  /\ handled = {} /\ dropped = {} /\ lost = {}
  /\ refused = 0

-----------------------------------------------------------------------------
(* The capture thread.                                                     *)

(* Leaving the loop drops the sender and whatever the batch still holds.   *)
CaptureExit(b) ==
  /\ capture' = "ended"
  /\ batch' = <<>>
  /\ lost' = lost \cup Range(b)
  /\ UNCHANGED <<queue, dropped, due>>

(* setup_packet_capture: on success the link type is published, otherwise  *)
(* the thread ends and the application runs in process-only mode.          *)
CaptureSetup ==
  /\ capture = "setup"
  /\ \E r \in SetupOutcomes :
       /\ capture' = IF r = "ok" THEN "check" ELSE "ended"
       /\ linktype' = (r = "ok")
  /\ UNCHANGED <<nread, batch, due, kernel, queue, stats, handled,
                 dropped, lost, refused>>
  /\ UNCHANGED mainVars /\ UNCHANGED procVars

(* Faulty: should_stop is not looked at.                                   *)
BugCaptureCheck ==
  /\ capture = "check"
  /\ capture' = "read"
  /\ UNCHANGED <<batch, lost, queue, dropped, due>>
  /\ UNCHANGED <<linktype, nread, kernel, stats, handled, refused>>
  /\ UNCHANGED mainVars /\ UNCHANGED procVars

(* should_stop is looked at before every read.                             *)
CaptureCheck ==
  /\ capture = "check"
  /\ IF shouldStop
     THEN CaptureExit(batch)
     ELSE capture' = "read" /\ UNCHANGED <<batch, lost, queue, dropped, due>>
  /\ UNCHANGED <<linktype, nread, kernel, stats, handled, refused>>
  /\ UNCHANGED mainVars /\ UNCHANGED procVars

(* packet_tx.try_send(b): a full channel costs the batch, a closed one     *)
(* ends the thread.                                                        *)
TrySend(b, next) ==
  \/ /\ ~Disconnected /\ Len(queue) < QueueMax
     /\ queue' = Append(queue, b)
     /\ capture' = next /\ batch' = <<>> /\ due' = FALSE
     /\ UNCHANGED <<dropped, lost, stats, refused>>
  \/ /\ ~Disconnected /\ Len(queue) >= QueueMax
     /\ dropped' = dropped \cup Range(b)
     /\ stats' = [stats EXCEPT !.dropped = @ + Len(b)]
     /\ refused' = refused + Len(b)
     /\ capture' = next /\ batch' = <<>> /\ due' = FALSE
     /\ UNCHANGED <<lost, queue>>
  \/ /\ Disconnected
     /\ CaptureExit(b)
     /\ UNCHANGED <<stats, refused>>

(* Faulty: the packet that fills the batch is pushed to the old one.       *)
BugCapturePacket ==
  /\ capture = "read"
  /\ nread < MaxPackets
  /\ nread' = nread + 1
  /\ IF batch # <<>> /\ (Len(batch) + 1 >= BatchMax \/ due)
     THEN TrySend(batch, "check")
     ELSE /\ capture' = "check" /\ batch' = Append(batch, nread + 1)
          /\ UNCHANGED <<due, queue, dropped, lost, stats, refused>>
  /\ UNCHANGED <<linktype, kernel, handled>>
  /\ UNCHANGED mainVars /\ UNCHANGED procVars

(* next_packet answered a packet.                                          *)
CapturePacket ==
  /\ capture = "read"
  /\ nread < MaxPackets
  /\ nread' = nread + 1
  /\ LET b == Append(batch, nread + 1)
     IN  IF Len(b) >= BatchMax \/ due
         THEN TrySend(b, "check")
         ELSE /\ capture' = "check" /\ batch' = b
              /\ UNCHANGED <<due, queue, dropped, lost, stats, refused>>
  /\ UNCHANGED <<linktype, kernel, handled>>
  /\ UNCHANGED mainVars /\ UNCHANGED procVars

(* Faulty: a partial batch waits for the next packet.                      *)
BugCaptureTimeoutHolds ==
  /\ capture = "read"
  /\ capture' = "stats"
  /\ UNCHANGED <<batch, due, queue, dropped, lost, stats, refused>>
  /\ UNCHANGED <<linktype, nread, kernel, handled>>
  /\ UNCHANGED mainVars /\ UNCHANGED procVars

(* next_packet timed out: a partial batch that is due goes out.            *)
CaptureTimeout ==
  /\ capture = "read"
  /\ IF batch # <<>> /\ due
     THEN TrySend(batch, "stats")
     ELSE /\ capture' = "stats"
          /\ UNCHANGED <<batch, due, queue, dropped, lost, stats, refused>>
  /\ UNCHANGED <<linktype, nread, kernel, handled>>
  /\ UNCHANGED mainVars /\ UNCHANGED procVars

(* Faulty: the statistics, which are totals, are added to the counter.     *)
BugCaptureStats ==
  /\ capture = "stats"
  /\ capture' = "check"
  /\ stats' = [stats EXCEPT !.dropped = @ + kernel]
  /\ UNCHANGED <<linktype, nread, batch, due, kernel, queue, handled,
                 dropped, lost, refused>>
  /\ UNCHANGED mainVars /\ UNCHANGED procVars

(* More than a second after the last look at the capture's statistics the  *)
(* drop counter is overwritten with what they say.                         *)
CaptureStats ==
  /\ capture = "stats"
  /\ capture' = "check"
  /\ \/ stats' = [stats EXCEPT !.dropped = kernel]
     \/ UNCHANGED stats
  /\ UNCHANGED <<linktype, nread, batch, due, kernel, queue, handled,
                 dropped, lost, refused>>
  /\ UNCHANGED mainVars /\ UNCHANGED procVars

(* next_packet failed.                                                     *)
CaptureError ==
  /\ capture = "read"
  /\ CaptureExit(batch)
  /\ UNCHANGED <<linktype, nread, kernel, stats, handled, refused>>
  /\ UNCHANGED mainVars /\ UNCHANGED procVars

(* 100 ms after the last send the deadline of the batch passes.            *)
Deadline ==
  /\ capture \in {"check", "read", "stats"}
  /\ ~due
  /\ due' = TRUE
  /\ UNCHANGED <<main, shouldStop, linktype, capture, nread, batch, kernel, queue,
                 proc, hand, size, stats, clears, handled, dropped, lost,
                 refused>>

(* External: the kernel drops a packet before the capture thread sees it.  *)
KernelDrop ==
  /\ capture \in {"check", "read", "stats"}
  /\ kernel < MaxKernelDrops
  /\ kernel' = kernel + 1
  /\ UNCHANGED <<main, shouldStop, linktype, capture, nread, batch, due, queue,
                 proc, hand, size, stats, clears, handled, dropped, lost,
                 refused>>

-----------------------------------------------------------------------------
(* The packet processors.                                                  *)

(* A processor that leaves its loop drops its receiver; the last one takes *)
(* what is left in the channel with it.                                    *)
ProcessorExit(p) ==
  /\ proc' = [proc EXCEPT ![p] = "ended"]
  /\ IF \A q \in Processors \ {p} : proc[q] = "ended"
     THEN queue' = <<>> /\ lost' = lost \cup InQueue
     ELSE UNCHANGED <<queue, lost>>

(* The link type is polled for every 10 ms; should_stop is not looked at.  *)
AwaitLinktype(p) ==
  /\ proc[p] = "linktype"
  /\ linktype
  /\ proc' = [proc EXCEPT ![p] = "check"]
  /\ UNCHANGED <<queue, hand, size, stats, handled, dropped, lost, refused>>
  /\ UNCHANGED mainVars /\ UNCHANGED captureVars

(* should_stop is looked at before every receive.                          *)
ProcessorCheck(p) ==
  /\ proc[p] = "check"
  /\ IF shouldStop
     THEN ProcessorExit(p)
     ELSE proc' = [proc EXCEPT ![p] = "recv"] /\ UNCHANGED <<queue, lost>>
  /\ UNCHANGED <<hand, size, stats, handled, dropped, refused>>
  /\ UNCHANGED mainVars /\ UNCHANGED captureVars

(* recv_timeout with a batch in the channel.                               *)
Receive(p) ==
  /\ proc[p] = "recv"
  /\ queue # <<>>
  /\ hand' = [hand EXCEPT ![p] = Head(queue)]
  /\ size' = [size EXCEPT ![p] = Len(Head(queue))]
  /\ queue' = Tail(queue)
  /\ proc' = [proc EXCEPT ![p] = "work"]
  /\ UNCHANGED <<stats, handled, dropped, lost, refused>>
  /\ UNCHANGED mainVars /\ UNCHANGED captureVars

(* Faulty: a closed channel ends the processor before it is drained.       *)
BugReceiveNothing(p) ==
  /\ proc[p] = "recv"
  /\ IF capture = "ended"
     THEN ProcessorExit(p)
     ELSE queue = <<>> /\ proc' = [proc EXCEPT ![p] = "check"] /\ UNCHANGED <<queue, lost>>
  /\ UNCHANGED <<hand, size, stats, handled, dropped, refused>>
  /\ UNCHANGED mainVars /\ UNCHANGED captureVars

(* recv_timeout with an empty channel: a timeout while the capture thread  *)
(* lives, the end of the processor once it is gone.                        *)
ReceiveNothing(p) ==
  /\ proc[p] = "recv"
  /\ queue = <<>>
  /\ IF capture = "ended"
     THEN ProcessorExit(p)
     ELSE proc' = [proc EXCEPT ![p] = "check"] /\ UNCHANGED <<queue, lost>>
  /\ UNCHANGED <<hand, size, stats, handled, dropped, refused>>
  /\ UNCHANGED mainVars /\ UNCHANGED captureVars

(* Faulty: a parser panic ends the thread.                                 *)
BugHandlePacket(p) ==
  /\ proc[p] = "work"
  /\ hand[p] # <<>>
  /\ handled' = handled \cup Range(hand[p])
  /\ hand' = [hand EXCEPT ![p] = <<>>]
  /\ ProcessorExit(p)
  /\ UNCHANGED <<size, stats, dropped, refused>>
  /\ UNCHANGED mainVars /\ UNCHANGED captureVars

(* The next packet of the batch: it parses and update_connection gets it,  *)
(* or it does not parse, or it panics the parser, and is skipped.          *)
HandlePacket(p) ==
  /\ proc[p] = "work"
  /\ hand[p] # <<>>
  /\ handled' = handled \cup {Head(hand[p])}
  /\ hand' = [hand EXCEPT ![p] = Tail(@)]
  /\ UNCHANGED <<queue, proc, size, stats, dropped, lost, refused>>
  /\ UNCHANGED mainVars /\ UNCHANGED captureVars

(* The batch is done: its packets are counted.                             *)
BatchDone(p) ==
  /\ proc[p] = "work"
  /\ hand[p] = <<>>
  /\ stats' = [stats EXCEPT !.processed = @ + size[p]]
  /\ proc' = [proc EXCEPT ![p] = "check"]
  /\ size' = [size EXCEPT ![p] = 0]
  /\ UNCHANGED <<queue, hand, handled, dropped, lost, refused>>
  /\ UNCHANGED mainVars /\ UNCHANGED captureVars

-----------------------------------------------------------------------------
(* The main thread.                                                        *)

(* start_workers: the sandbox is in force, the processors are spawned.     *)
StartWorkers ==
  /\ main = "sandbox"
  /\ main' = "ui"
  /\ proc' = [p \in Processors |-> "linktype"]
  /\ UNCHANGED <<shouldStop, clears, queue, hand, size, stats, handled,
                 dropped, lost, refused>>
  /\ UNCHANGED captureVars

(* App::stop, after the UI loop or, when a strict sandbox fails before the *)
(* workers are started, from Drop.                                         *)
Stop ==
  /\ main \in {"sandbox", "ui"}
  /\ main' = "stopping"
  /\ shouldStop' = TRUE
  /\ UNCHANGED <<clears, queue, stats, handled, dropped, lost, refused>>
  /\ UNCHANGED procVars /\ UNCHANGED captureVars

(* The App is dropped, and with it a receiver no processor was given.      *)
DropApp ==
  /\ main = "stopping"
  /\ main' = "dropped"
  /\ IF \A p \in Processors : proc[p] = "unborn"
     THEN queue' = <<>> /\ lost' = lost \cup InQueue
     ELSE UNCHANGED <<queue, lost>>
  /\ UNCHANGED <<shouldStop, clears, stats, handled, dropped, refused>>
  /\ UNCHANGED procVars /\ UNCHANGED captureVars

(* clear_all_connections stores 0 in one counter after the other.          *)
ClearProcessed ==
  /\ main = "ui"
  /\ clears < MaxClears
  /\ main' = "clearing"
  /\ clears' = clears + 1
  /\ stats' = [stats EXCEPT !.processed = 0]
  /\ UNCHANGED <<shouldStop, queue, handled, dropped, lost, refused>>
  /\ UNCHANGED procVars /\ UNCHANGED captureVars

ClearDropped ==
  /\ main = "clearing"
  /\ main' = "ui"
  /\ stats' = [stats EXCEPT !.dropped = 0]
  /\ refused' = 0
  /\ UNCHANGED <<shouldStop, clears, queue, handled, dropped, lost>>
  /\ UNCHANGED procVars /\ UNCHANGED captureVars

-----------------------------------------------------------------------------
CaptureThread == \/ CaptureSetup \/ CaptureCheck \/ CapturePacket
                 \/ CaptureTimeout \/ CaptureStats \/ CaptureError

Processor(p) == \/ AwaitLinktype(p) \/ ProcessorCheck(p) \/ Receive(p)
                \/ ReceiveNothing(p) \/ HandlePacket(p)
                \/ BatchDone(p)

MainThread == StartWorkers \/ Stop \/ DropApp \/ ClearProcessed \/ ClearDropped

(* Every thread has ended; what remains is the end of the process.         *)
Finished ==
  /\ main = "dropped" /\ capture = "ended"
  /\ \A p \in Processors : proc[p] \in {"unborn", "linktype", "ended"}
  /\ UNCHANGED vars

Next == \/ CaptureThread
        \/ Deadline \/ KernelDrop
        \/ \E p \in Processors : Processor(p)
        \/ MainThread
        \/ Finished

Spec == Init /\ [][Next]_vars

(* The scheduler runs every thread that can go on; libpcap's read times    *)
(* out and the deadline of a batch passes; start_workers and the drop of   *)
(* the App follow the steps before them.  Nothing forces the user to quit. *)
Fairness == /\ WF_vars(CaptureThread) /\ WF_vars(Deadline)
            /\ \A p \in Processors : WF_vars(Processor(p))
            /\ WF_vars(StartWorkers \/ DropApp)

FairSpec == Spec /\ Fairness

-----------------------------------------------------------------------------
(* Properties.                                                             *)

(* No empty batch is ever sent.                                            *)
Batches == Seq(Nat) \ {<<>>}

Counters == [processed : Nat, dropped : Nat]

(* Every variable has its type; a processor that is not working holds      *)
(* nothing, none is born before the sandbox is in force, and the channel   *)
(* holds no empty batch.                                                   *)
TypeOK ==
  /\ main \in {"sandbox", "ui", "clearing", "stopping", "dropped"}
  /\ shouldStop \in BOOLEAN /\ linktype \in BOOLEAN /\ due \in BOOLEAN
  /\ capture \in {"setup", "check", "read", "stats", "ended"}
  /\ nread \in Nat /\ kernel \in Nat /\ clears \in Nat
  /\ batch \in Seq(Nat)
  /\ queue \in Seq(Batches)
  /\ proc \in [Processors -> {"unborn", "linktype", "check", "recv", "work", "ended"}]
  /\ hand \in [Processors -> Seq(Nat)] /\ size \in [Processors -> Nat]
  /\ handled \subseteq Nat /\ dropped \subseteq Nat /\ lost \subseteq Nat
  /\ stats \in Counters /\ refused \in Nat
  /\ \A p \in Processors : proc[p] # "work" => hand[p] = <<>>
  /\ main = "sandbox" => \A p \in Processors : proc[p] = "unborn"

(* What of the pipeline is what of PacketFeed.                             *)
Feed == INSTANCE PacketFeed WITH
          waiting <- Range(batch) \cup InQueue,
          given <- InHand,
          done <- handled,
          gone <- dropped \cup lost

(* The pipeline is a queue that may lose packets (PacketFeed): every       *)
(* packet read waits, is given out in order to one processor and handled   *)
(* once, or is given up, whatever the threads and their ends do.           *)
ImplementsFeed == Feed!Spec

(* "Packets Dropped" never shows more than the kernel dropped and the full *)
(* channel refused since the counters were cleared: no drop counts twice,  *)
(* though two sources write the counter and a clear resets it in between.  *)
DropsReal == stats.dropped <= kernel + refused

(* A malformed packet cannot leave the monitor running blind: while the    *)
(* capture runs and nobody asked to stop, every processor is alive.        *)
NotBlind ==
  capture # "ended" /\ ~shouldStop => \A p \in Processors : proc[p] # "ended"

(* A packet in the channel is discarded only after stop; when the capture  *)
(* fails the processors still drain the channel.                           *)
QueuedSurvives ==
  [][lost' \cap InQueue # {} => shouldStop]_vars

(* Every packet read is eventually handled, refused or discarded; it does  *)
(* not sit in a partial batch or in the channel for ever.                  *)
PacketsDecided ==
  \A x \in 1..MaxPackets :
    (x <= nread) ~> (x \in handled \cup dropped \cup lost)

(* "Stop all threads gracefully": after stop the capture thread ends, and  *)
(* so does every processor that is not left waiting for the link type of a *)
(* capture that could not be set up.                                       *)
StopEndsThreads ==
  shouldStop ~> /\ capture = "ended"
                /\ \A p \in Processors :
                     proc[p] \in {"unborn", "ended"} \/ (proc[p] = "linktype" /\ ~linktype)
=============================================================================
