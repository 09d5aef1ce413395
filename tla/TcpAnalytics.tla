---------------------------- MODULE TcpAnalytics ----------------------------
(***************************************************************************)
(* Retransmission, reordering and duplicate-ACK detection on one TCP       *)
(* connection (analyze_tcp_segment in                                      *)
(* crates/rustnet-core/src/network/merge.rs), next to the byte streams it  *)
(* judges.                                                                 *)
(*                                                                         *)
(* A stream is known by offsets, which do not wrap; the capture sees the   *)
(* sequence numbers, offsets plus the initial sequence number modulo       *)
(* Modulus (2^32).  Segments may be missed by the capture, and those of    *)
(* the remote host may arrive in any order.                                *)
(***************************************************************************)
EXTENDS Integers

CONSTANTS
  Modulus,       \* 2^32: sequence numbers are u32
  LocalIsn,      \* sequence number of the first byte of each stream
  RemoteIsn,
  MaxOut, MaxIn, \* bounds: bytes of the two streams
  MaxLen,        \* bound: bytes of one segment
  MaxEvents      \* bound: resent, late and repeated segments

ASSUME AnalyticsAssumption ==
  /\ Modulus \in Nat \ {0}
  /\ LocalIsn \in 0..(Modulus - 1)
  /\ RemoteIsn \in 0..(Modulus - 1)
  /\ MaxOut \in Nat /\ MaxIn \in Nat
  /\ MaxLen \in Nat \ {0}
  /\ MaxEvents \in Nat

VARIABLES
  analytics,  \* Connection.tcp_analytics
  nxt,        \* external: bytes the local host has sent
  top,        \* external: the end of the furthest captured remote segment
  resent,     \* history: captured segments the local host sent before
  late,       \* history: captured remote segments that start below top
  prev,       \* history: the acknowledged offset in the last remote segment
  repeats     \* history: remote segments that acknowledge the same again

analyticsVars == <<analytics, nxt, top, resent, late, prev, repeats>>

Analytics == [last_seq_outbound : 0..(Modulus - 1),
              last_seq_inbound : 0..(Modulus - 1),
              last_ack_received : 0..(Modulus - 1),
              duplicate_ack_count : Nat, retransmit_count : Nat,
              out_of_order_count : Nat, fast_retransmit_count : Nat]

-----------------------------------------------------------------------------
(* analyze_tcp_segment.                                                    *)

WrappingAdd(seq, len) == (seq + len) % Modulus

(* Faulty: the segment that was expected counts as a retransmission.       *)
BugAnalyzeOutboundInclusive(a, seq, len) ==
  IF a.last_seq_outbound # 0 /\ seq <= a.last_seq_outbound
  THEN [a EXCEPT !.retransmit_count = @ + 1]
  ELSE [a EXCEPT !.last_seq_outbound = WrappingAdd(seq, len)]

(* The outbound branch: a segment below the expected number is counted, a  *)
(* gap is left alone, the expected segment moves the expectation.          *)
AnalyzeOutbound(a, seq, len) ==
  IF len = 0 THEN a
  ELSE IF a.last_seq_outbound = 0 \/ seq = a.last_seq_outbound
       THEN [a EXCEPT !.last_seq_outbound = WrappingAdd(seq, len)]
  ELSE IF seq < a.last_seq_outbound
       THEN [a EXCEPT !.retransmit_count = @ + 1]
       ELSE a

(* Faulty: a segment after a gap counts as out of order too.               *)
BugAnalyzeInboundGap(a, seq, len) ==
  IF a.last_seq_inbound # 0 /\ seq # a.last_seq_inbound
  THEN [a EXCEPT !.out_of_order_count = @ + 1]
  ELSE [a EXCEPT !.last_seq_inbound = WrappingAdd(seq, len)]

(* The inbound branch; a gap moves the expectation too.                    *)
AnalyzeInbound(a, seq, len) ==
  IF len = 0 THEN a
  ELSE IF a.last_seq_inbound = 0 \/ seq >= a.last_seq_inbound
       THEN [a EXCEPT !.last_seq_inbound = WrappingAdd(seq, len)]
       ELSE [a EXCEPT !.out_of_order_count = @ + 1]

(* Faulty: the second duplicate already triggers.                          *)
BugAnalyzeAckEarly(a, ack) ==
  IF a.last_ack_received # 0 /\ ack = a.last_ack_received
  THEN [a EXCEPT !.duplicate_ack_count = @ + 1,
                 !.fast_retransmit_count =
                   IF a.duplicate_ack_count + 1 = 2 THEN @ + 1 ELSE @]
  ELSE [a EXCEPT !.last_ack_received = ack, !.duplicate_ack_count = 0]

(* The acknowledgment of an inbound segment with the ACK flag.             *)
AnalyzeAck(a, ack) ==
  IF a.last_ack_received = 0
  THEN [a EXCEPT !.last_ack_received = ack]
  ELSE IF ack = a.last_ack_received
  THEN [a EXCEPT !.duplicate_ack_count = @ + 1,
                 !.fast_retransmit_count =
                   IF a.duplicate_ack_count + 1 = 3 THEN @ + 1 ELSE @]
  ELSE [a EXCEPT !.last_ack_received = ack, !.duplicate_ack_count = 0]

-----------------------------------------------------------------------------
(* The streams.                                                            *)

SeqOf(isn, offset) == (isn + offset) % Modulus

Seen(seq, len, seen) ==
  analytics' = IF seen THEN AnalyzeOutbound(analytics, seq, len) ELSE analytics

(* The local host sends the next bytes; the capture may miss them.         *)
SendNew(len, seen) ==
  /\ nxt + len <= MaxOut
  /\ nxt' = nxt + len
  /\ Seen(SeqOf(LocalIsn, nxt), len, seen)
  /\ UNCHANGED <<top, resent, late, prev, repeats>>

(* It sends bytes again that it has sent before.                           *)
Resend(offset, len) ==
  /\ offset + len <= nxt
  /\ resent < MaxEvents
  /\ resent' = resent + 1
  /\ Seen(SeqOf(LocalIsn, offset), len, TRUE)
  /\ UNCHANGED <<nxt, top, late, prev, repeats>>

(* A segment of the remote host arrives: its place in the stream, its      *)
(* bytes (none for a pure ACK), and how much it acknowledges.              *)
Arrive(offset, len, acked) ==
  LET isLate == len > 0 /\ offset < top
      again  == acked = prev
  IN /\ offset + len <= MaxIn
     /\ late < MaxEvents /\ repeats < MaxEvents
     /\ analytics' = AnalyzeAck(
                       AnalyzeInbound(analytics, SeqOf(RemoteIsn, offset), len),
                       SeqOf(LocalIsn, acked))
     /\ top' = IF len > 0 /\ offset + len > top THEN offset + len ELSE top
     /\ late' = IF isLate THEN late + 1 ELSE late
     /\ repeats' = IF again THEN repeats + 1 ELSE repeats
     /\ prev' = acked
     /\ UNCHANGED <<nxt, resent>>

AnalyticsInit ==
  /\ analytics = [last_seq_outbound |-> 0, last_seq_inbound |-> 0,
                  last_ack_received |-> 0, duplicate_ack_count |-> 0,
                  retransmit_count |-> 0, out_of_order_count |-> 0,
                  fast_retransmit_count |-> 0]
  /\ nxt = 0
  /\ top = 0
  /\ resent = 0
  /\ late = 0
  /\ prev = -1
  /\ repeats = 0

AnalyticsNext ==
  \/ \E len \in 1..MaxLen, seen \in BOOLEAN : SendNew(len, seen)
  \/ \E offset \in 0..MaxOut, len \in 1..MaxLen : Resend(offset, len)
  \/ \E offset \in 0..MaxIn, len \in 0..MaxLen, acked \in 0..nxt :
       Arrive(offset, len, acked)

AnalyticsSpec == AnalyticsInit /\ [][AnalyticsNext]_analyticsVars

-----------------------------------------------------------------------------
(* Properties.                                                             *)

(* The expectations are sequence numbers, the counters are counters.       *)
TypeOK ==
  /\ analytics \in Analytics
  /\ nxt \in Nat /\ top \in Nat
  /\ resent \in Nat /\ late \in Nat
  /\ prev \in Nat \cup {-1}
  /\ repeats \in Nat

(* The streams stay below the point where sequence numbers wrap.           *)
NoWrap == LocalIsn + MaxOut < Modulus /\ RemoteIsn + MaxIn < Modulus

(* analyze_tcp_segment counts a retransmission only for bytes the local    *)
(* host has sent before, also when the capture misses segments.            *)
RetransmitSound == analytics.retransmit_count <= resent

(* It counts an inbound segment as out of order only if bytes further on   *)
(* in the stream were captured before it.                                  *)
OutOfOrderSound == analytics.out_of_order_count <= late

(* Every fast retransmit it reports has three repeated acknowledgments of  *)
(* its own.                                                                *)
FastRetransmitEarned == 3 * analytics.fast_retransmit_count <= repeats

=============================================================================
