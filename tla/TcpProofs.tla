------------------------------ MODULE TcpProofs ------------------------------
(***************************************************************************)
(* The two models of what merge.rs makes of a TCP connection: its state    *)
(* and its analytics.                                                      *)
(*                                                                         *)
(* The TCP state that update_tcp_state shows: it only moves forward, it is *)
(* Established no earlier than the local endpoint, and it is one of the    *)
(* end when the local endpoint is done.  The last two follow the segments  *)
(* between the endpoints: what may be on the wire while an endpoint is in  *)
(* a given state, and what one segment does to an endpoint and to the      *)
(* state shown for it.                                                     *)
(*                                                                         *)
(* The counters of analyze_tcp_segment, for streams and segments of any    *)
(* length: the count of fast retransmits is sound as long as no two bytes  *)
(* of the local stream have the same sequence number (AckAccount): a       *)
(* duplicate count of three and more has been spent on one.  The           *)
(* retransmissions and reorderings compare sequence numbers by <, so they  *)
(* need more, that the numbers do not wrap (Expectations).                 *)
(***************************************************************************)
EXTENDS TcpObserver, TcpAnalytics, TLAPS

(* The states one segment can lead to.                                     *)
Successors(s) ==
  CASE s = "Unknown" -> {"SynSent", "SynReceived", "Established"}
    [] s = "SynSent" -> {"Established"}
    [] s = "SynReceived" -> {"Established"}
    [] s = "Established" -> {"FinWait1", "CloseWait"}
    [] s = "FinWait1" -> {"FinWait2", "Closing"}
    [] s = "FinWait2" -> {"TimeWait"}
    [] s = "CloseWait" -> {"LastAck"}
    [] s = "Closing" -> {"TimeWait"}
    [] OTHER -> {}

LEMMA UpdateSuccessor ==
  ASSUME NEW s \in TcpStates, NEW f, NEW out
  PROVE  UpdateTcpState(s, f, out) \in {s, "Closed"} \cup Successors(s)
<1>1. CASE f.rst
  BY <1>1 DEF UpdateTcpState
<1>2. CASE ~f.rst /\ s = "Unknown"
  BY <1>2 DEF UpdateTcpState, Successors
<1>3. CASE ~f.rst /\ s = "SynSent"
  BY <1>3 DEF UpdateTcpState, Successors
<1>4. CASE ~f.rst /\ s = "SynReceived"
  BY <1>4 DEF UpdateTcpState, Successors
<1>5. CASE ~f.rst /\ s = "Established"
  BY <1>5 DEF UpdateTcpState, Successors
<1>6. CASE ~f.rst /\ s = "FinWait1"
  BY <1>6 DEF UpdateTcpState, Successors
<1>7. CASE ~f.rst /\ s = "FinWait2"
  BY <1>7 DEF UpdateTcpState, Successors
<1>8. CASE ~f.rst /\ s = "CloseWait"
  BY <1>8 DEF UpdateTcpState, Successors
<1>9. CASE ~f.rst /\ s = "Closing"
  BY <1>9 DEF UpdateTcpState, Successors
<1>10. CASE ~f.rst /\ s \in {"LastAck", "TimeWait", "Closed"}
  BY <1>10 DEF UpdateTcpState
<1> QED
  BY <1>1, <1>2, <1>3, <1>4, <1>5, <1>6, <1>7, <1>8, <1>9, <1>10 DEF TcpStates

(* What one segment does to the observed state, for any state and flags.   *)
LEMMA UpdateProgress ==
  ASSUME NEW s \in TcpStates, NEW f, NEW out
  PROVE  /\ UpdateTcpState(s, f, out) \in TcpStates
         /\ Rank(UpdateTcpState(s, f, out)) >= Rank(s)
<1>1. \A u \in {s, "Closed"} \cup Successors(s) : u \in TcpStates /\ Rank(u) >= Rank(s)
  BY DEF Successors, Rank, TcpStates, NoState
<1> QED
  BY <1>1, UpdateSuccessor

ObsType == obs \in TcpStates \cup {NoState}

(* The state the next segment is folded into.                              *)
Current == IF obs = NoState THEN "Unknown" ELSE obs

LEMMA CurrentType == ObsType => Current \in TcpStates /\ Rank(Current) >= Rank(obs)
BY DEF ObsType, Current, TcpStates, Rank, NoState

(* Every step leaves obs alone or folds one or two segments into it.       *)
LEMMA ObsStep ==
  ASSUME [Next]_vars
  PROVE  \/ obs' = obs
         \/ \E f, out : obs' = UpdateTcpState(Current, f, out)
         \/ \E f, g, out, back :
              obs' = UpdateTcpState(UpdateTcpState(Current, f, out), g, back)
<1>1. ASSUME NEW e \in Ends, NEW f, Send(e, f)
      PROVE  obs' = obs \/ obs' = UpdateTcpState(Current, f, TRUE)
  BY <1>1 DEF Send, Observe, Current
<1>2. ASSUME NEW e \in Ends, Connect(e) \/ SendData(e) \/ Close(e) \/ Abort(e)
      PROVE  obs' = obs \/ \E f, out : obs' = UpdateTcpState(Current, f, out)
  <2>1. PICK f : Send(e, f)
    BY <1>2 DEF Connect, SendData, Close, Abort
  <2> QED
    BY <1>1, <2>1
<1>3. ASSUME NEW e \in Ends, Receive(e)
      PROVE  \/ obs' = obs
             \/ \E f, out : obs' = UpdateTcpState(Current, f, out)
             \/ \E f, g, out, back :
                  obs' = UpdateTcpState(UpdateTcpState(Current, f, out), g, back)
  <2> DEFINE f == Head(wire[e])
             g == CHOOSE x \in Reply(tcb[e], f) : TRUE
  <2>1. \/ obs' = obs
        \/ obs' = UpdateTcpState(Current, f, FALSE)
        \/ obs' = UpdateTcpState(UpdateTcpState(Current, f, FALSE), g, TRUE)
    BY <1>3 DEF Receive, Current, Ends
  <2> QED
    BY <2>1
<1>4. CASE UNCHANGED vars
  BY <1>4 DEF vars
<1> QED
  BY <1>2, <1>3, <1>4 DEF Next

LEMMA ObsNext ==
  ASSUME ObsType, [Next]_vars
  PROVE  ObsType' /\ Rank(obs') >= Rank(obs)
<1>0. \A s \in TcpStates \cup {NoState} : Rank(s) \in Nat
  BY DEF Rank, TcpStates, NoState
<1>1. CASE obs' = obs
  BY <1>0, <1>1 DEF ObsType
<1>2. ASSUME NEW f, NEW out, obs' = UpdateTcpState(Current, f, out)
      PROVE  ObsType' /\ Rank(obs') >= Rank(obs)
  <2>1. obs' \in TcpStates /\ Rank(obs') >= Rank(Current)
    BY <1>2, CurrentType, UpdateProgress
  <2> QED
    BY <1>0, <2>1, CurrentType DEF ObsType
<1>3. ASSUME NEW f, NEW g, NEW out, NEW back,
             obs' = UpdateTcpState(UpdateTcpState(Current, f, out), g, back)
      PROVE  ObsType' /\ Rank(obs') >= Rank(obs)
  <2> DEFINE mid == UpdateTcpState(Current, f, out)
  <2>1. mid \in TcpStates /\ Rank(mid) >= Rank(Current)
    BY CurrentType, UpdateProgress
  <2>2. obs' \in TcpStates /\ Rank(obs') >= Rank(mid)
    BY <1>3, <2>1, UpdateProgress
  <2> HIDE DEF mid
  <2> QED
    BY <1>0, <2>1, <2>2, CurrentType DEF ObsType
<1> QED
  BY <1>1, <1>2, <1>3, ObsStep

(* However the segments interleave, update_tcp_state never takes a         *)
(* connection back to an earlier state; Closed is final.                   *)
THEOREM ProgressCorrect == Spec => ObservedProgress
<1>1. Init => ObsType
  BY DEF Init, ObsType
<1>2. ObsType /\ [Next]_vars => ObsType' /\ [Rank(obs') >= Rank(obs)]_vars
  BY ObsNext
<1> QED
  BY <1>1, <1>2, PTL DEF Spec, ObservedProgress

-----------------------------------------------------------------------------
(* The segments.                                                           *)

IsSyn(f) == f.syn /\ ~f.ack /\ ~f.fin /\ ~f.rst /\ ~f.acksFin /\ ~f.data
IsSynAck(f) == f.syn /\ f.ack /\ ~f.fin /\ ~f.rst /\ ~f.acksFin /\ ~f.data
IsAck(f) == ~f.syn /\ f.ack /\ ~f.fin /\ ~f.rst
IsFin(f) == ~f.syn /\ f.ack /\ f.fin /\ ~f.rst /\ ~f.data
IsRst(f) == f.rst

(* The endpoints send nothing else.                                        *)
Formed(f) ==
  f \in Segment /\ (IsSyn(f) \/ IsSynAck(f) \/ IsAck(f) \/ IsFin(f) \/ IsRst(f))

LEMMA FlagsFields ==
  ASSUME NEW names
  PROVE  /\ Flags(names) \in Segment
         /\ Flags(names).syn <=> "syn" \in names
         /\ Flags(names).ack <=> "ack" \in names
         /\ Flags(names).fin <=> "fin" \in names
         /\ Flags(names).rst <=> "rst" \in names
         /\ Flags(names).acksFin <=> "acksFin" \in names
         /\ Flags(names).data <=> "data" \in names
<1>1. Flags(names) \in Segment
  BY DEF Flags, Segment
<1>2. Flags(names).syn <=> "syn" \in names
  BY DEF Flags
<1>3. Flags(names).ack <=> "ack" \in names
  BY DEF Flags
<1>4. Flags(names).fin <=> "fin" \in names
  BY DEF Flags
<1>5. Flags(names).rst <=> "rst" \in names
  BY DEF Flags
<1>6. Flags(names).acksFin <=> "acksFin" \in names
  BY DEF Flags
<1>7. Flags(names).data <=> "data" \in names
  BY DEF Flags
<1> QED BY <1>1, <1>2, <1>3, <1>4, <1>5, <1>6, <1>7

LEMMA FlagsKinds ==
  ASSUME NEW s
  PROVE  /\ IsSyn(Flags({"syn"})) /\ IsSynAck(Flags({"syn", "ack"})) /\ IsRst(Flags({"rst"}))
         /\ IsAck(Flags({"ack"} \cup AcksFin(s)))
         /\ IsAck(Flags({"ack", "data"} \cup AcksFin(s)))
         /\ IsFin(Flags({"fin", "ack"} \cup AcksFin(s)))
<1>0. AcksFin(s) \subseteq {"acksFin"}
  BY DEF AcksFin
<1>1. IsSyn(Flags({"syn"}))
  BY FlagsFields DEF IsSyn
<1>2. IsSynAck(Flags({"syn", "ack"}))
  BY FlagsFields DEF IsSynAck
<1>3. IsRst(Flags({"rst"}))
  BY FlagsFields DEF IsRst
<1>4. IsAck(Flags({"ack"} \cup AcksFin(s)))
  <2> DEFINE n == {"ack"} \cup AcksFin(s)
  <2>1. "syn" \notin n /\ "ack" \in n /\ "fin" \notin n /\ "rst" \notin n
    BY <1>0
  <2> HIDE DEF n
  <2>2. IsAck(Flags(n))
    BY <2>1, FlagsFields DEF IsAck
  <2> QED BY <2>2 DEF n
<1>5. IsAck(Flags({"ack", "data"} \cup AcksFin(s)))
  <2> DEFINE n == {"ack", "data"} \cup AcksFin(s)
  <2>1. "syn" \notin n /\ "ack" \in n /\ "fin" \notin n /\ "rst" \notin n
    BY <1>0
  <2> HIDE DEF n
  <2>2. IsAck(Flags(n))
    BY <2>1, FlagsFields DEF IsAck
  <2> QED BY <2>2 DEF n
<1>6. IsFin(Flags({"fin", "ack"} \cup AcksFin(s)))
  <2> DEFINE n == {"fin", "ack"} \cup AcksFin(s)
  <2>1. "syn" \notin n /\ "ack" \in n /\ "fin" \in n /\ "rst" \notin n /\ "data" \notin n
    BY <1>0
  <2> HIDE DEF n
  <2>2. IsFin(Flags(n))
    BY <2>1, FlagsFields DEF IsFin
  <2> QED BY <2>2 DEF n
<1> QED BY <1>1, <1>2, <1>3, <1>4, <1>5, <1>6

(* update_tcp_state, segment by segment.                                   *)
LEMMA UpdateSyn ==
  ASSUME NEW s \in TcpStates, NEW f \in Segment, NEW out \in BOOLEAN, IsSyn(f)
  PROVE  UpdateTcpState(s, f, out) =
           IF s = "Unknown" THEN IF out THEN "SynSent" ELSE "SynReceived" ELSE s
BY DEF UpdateTcpState, IsSyn, Segment, TcpStates

LEMMA UpdateSynAck ==
  ASSUME NEW s \in TcpStates, NEW f \in Segment, NEW out \in BOOLEAN, IsSynAck(f)
  PROVE  UpdateTcpState(s, f, out) =
           IF s = "SynSent" /\ ~out THEN "Established" ELSE s
BY DEF UpdateTcpState, IsSynAck, Segment, TcpStates

LEMMA UpdateAckIn ==
  ASSUME NEW s \in TcpStates, NEW f \in Segment, IsAck(f)
  PROVE  UpdateTcpState(s, f, FALSE) =
           CASE s = "Unknown" -> "Established"
             [] s = "FinWait1" -> "FinWait2"
             [] s = "LastAck" -> "Closed"
             [] s = "Closing" -> "TimeWait"
             [] OTHER -> s
BY DEF UpdateTcpState, IsAck, Segment, TcpStates

LEMMA UpdateAckOut ==
  ASSUME NEW s \in TcpStates, NEW f \in Segment, IsAck(f)
  PROVE  UpdateTcpState(s, f, TRUE) =
           IF s \in {"Unknown", "SynReceived"} THEN "Established" ELSE s
BY DEF UpdateTcpState, IsAck, Segment, TcpStates

LEMMA UpdateFinIn ==
  ASSUME NEW s \in TcpStates, NEW f \in Segment, IsFin(f)
  PROVE  UpdateTcpState(s, f, FALSE) =
           CASE s = "Unknown" -> "Established"
             [] s = "Established" -> "CloseWait"
             [] s = "FinWait1" -> "Closing"
             [] s = "FinWait2" -> "TimeWait"
             [] OTHER -> s
BY DEF UpdateTcpState, IsFin, Segment, TcpStates

LEMMA UpdateFinOut ==
  ASSUME NEW s \in TcpStates, NEW f \in Segment, IsFin(f)
  PROVE  UpdateTcpState(s, f, TRUE) =
           CASE s = "Unknown" -> "Established"
             [] s = "Established" -> "FinWait1"
             [] s = "CloseWait" -> "LastAck"
             [] OTHER -> s
BY DEF UpdateTcpState, IsFin, Segment, TcpStates

LEMMA UpdateRst ==
  ASSUME NEW s \in TcpStates, NEW f \in Segment, NEW out \in BOOLEAN, IsRst(f)
  PROVE  UpdateTcpState(s, f, out) = "Closed"
BY DEF UpdateTcpState, IsRst

(* An endpoint, segment by segment.                                        *)
LEMMA ReceiveSyn ==
  ASSUME NEW s, NEW f \in Segment, IsSyn(f)
  PROVE  OnReceive(s, f) = IF s \in {"LISTEN", "SYN-SENT"} THEN "SYN-RECEIVED" ELSE s
BY DEF OnReceive, IsSyn, Segment

LEMMA ReceiveSynAck ==
  ASSUME NEW s, NEW f \in Segment, IsSynAck(f)
  PROVE  OnReceive(s, f) = IF s \in {"SYN-SENT", "SYN-RECEIVED"} THEN "ESTABLISHED" ELSE s
BY DEF OnReceive, IsSynAck, Segment

LEMMA ReceiveAck ==
  ASSUME NEW s, NEW f \in Segment, IsAck(f)
  PROVE  OnReceive(s, f) =
           CASE s = "SYN-RECEIVED" -> "ESTABLISHED"
             [] s = "FIN-WAIT-1" /\ f.acksFin -> "FIN-WAIT-2"
             [] s = "CLOSING" /\ f.acksFin -> "TIME-WAIT"
             [] s = "LAST-ACK" /\ f.acksFin -> "CLOSED"
             [] OTHER -> s
BY DEF OnReceive, IsAck, Segment

LEMMA ReceiveFin ==
  ASSUME NEW s, NEW f \in Segment, IsFin(f)
  PROVE  OnReceive(s, f) =
           CASE s \in {"SYN-RECEIVED", "ESTABLISHED"} -> "CLOSE-WAIT"
             [] s = "FIN-WAIT-1" -> IF f.acksFin THEN "TIME-WAIT" ELSE "CLOSING"
             [] s = "FIN-WAIT-2" -> "TIME-WAIT"
             [] s = "CLOSING" /\ f.acksFin -> "TIME-WAIT"
             [] s = "LAST-ACK" /\ f.acksFin -> "CLOSED"
             [] OTHER -> s
BY DEF OnReceive, IsFin, Segment

LEMMA ReceiveRst ==
  ASSUME NEW s, NEW f \in Segment, IsRst(f)
  PROVE  OnReceive(s, f) = "CLOSED"
BY DEF OnReceive, IsRst

EndStates == {"CLOSED0", "LISTEN", "SYN-SENT", "SYN-RECEIVED", "ESTABLISHED", "FIN-WAIT-1",
              "FIN-WAIT-2", "CLOSE-WAIT", "CLOSING", "LAST-ACK", "TIME-WAIT", "CLOSED"}

LEMMA ReceiveType ==
  ASSUME NEW s \in EndStates, NEW f, Formed(f)
  PROVE  OnReceive(s, f) \in EndStates /\ (OnReceive(s, f) = "CLOSED0" => s = "CLOSED0")
<1>1. CASE IsSyn(f)
  BY <1>1, ReceiveSyn DEF Formed, EndStates
<1>2. CASE IsSynAck(f)
  BY <1>2, ReceiveSynAck DEF Formed, EndStates
<1>3. CASE IsAck(f)
  BY <1>3, ReceiveAck DEF Formed, EndStates
<1>4. CASE IsFin(f)
  BY <1>4, ReceiveFin DEF Formed, EndStates
<1>5. CASE IsRst(f)
  BY <1>5, ReceiveRst DEF Formed, EndStates
<1> QED BY <1>1, <1>2, <1>3, <1>4, <1>5 DEF Formed

(* A SYN is answered by a SYN-ACK, anything else but RST by an ACK or not  *)
(* at all.                                                                 *)
LEMMA ReplyKinds ==
  ASSUME NEW s, NEW f, Formed(f)
  PROVE  \/ Reply(s, f) = {} /\ (IsSyn(f) => s \in {"CLOSED0", "CLOSED"})
         \/ \E r : /\ Reply(s, f) = {r} /\ Formed(r) /\ ~IsRst(f)
                  /\ s \notin {"CLOSED0", "CLOSED"}
                  /\ IF IsSyn(f) THEN IsSynAck(r) ELSE IsAck(r)
<1>1. CASE f.rst \/ s \in {"CLOSED0", "CLOSED"}
  BY <1>1 DEF Reply, IsSyn
<1>2. CASE ~(f.rst \/ s \in {"CLOSED0", "CLOSED"}) /\ IsSyn(f)
  <2>1. Reply(s, f) = {Flags({"syn", "ack"})}
    BY <1>2 DEF Reply, IsSyn
  <2>2. Formed(Flags({"syn", "ack"})) /\ IsSynAck(Flags({"syn", "ack"}))
    BY FlagsKinds, FlagsFields DEF Formed
  <2> QED BY <1>2, <2>1, <2>2 DEF IsRst
<1>3. CASE ~(f.rst \/ s \in {"CLOSED0", "CLOSED"}) /\ ~IsSyn(f)
  <2> DEFINE r == Flags({"ack"} \cup AcksFin(OnReceive(s, f)))
  <2>1. ~(f.syn /\ ~f.ack)
    BY <1>3 DEF Formed, IsSyn, IsSynAck, IsAck, IsFin, IsRst
  <2>2. Reply(s, f) = {} \/ Reply(s, f) = {r}
    BY <1>3, <2>1 DEF Reply
  <2>3. Formed(r) /\ IsAck(r)
    BY FlagsKinds, FlagsFields DEF Formed
  <2> HIDE DEF r
  <2> QED BY <1>3, <2>2, <2>3 DEF IsRst
<1> QED BY <1>1, <1>2, <1>3

-----------------------------------------------------------------------------
(* The endpoints and the wire.                                             *)

On(e) == {wire[e][i] : i \in 1..Len(wire[e])}

WireInv ==
  /\ openers \subseteq Ends
  /\ tcb \in [Ends -> EndStates]
  /\ wire \in [Ends -> Seq(Segment)]
  /\ \A e \in Ends : \A f \in On(e) : Formed(f)
  /\ ObsType

LEMMA Appended ==
  ASSUME NEW q \in Seq(Segment), NEW f \in Segment
  PROVE  {Append(q, f)[i] : i \in 1..Len(Append(q, f))} = {q[i] : i \in 1..Len(q)} \cup {f}
<1>1. Len(Append(q, f)) = Len(q) + 1 /\ Len(q) \in Nat
      /\ Append(q, f)[Len(q) + 1] = f
      /\ \A i \in 1..Len(q) : Append(q, f)[i] = q[i]
  OBVIOUS
<1>2. 1..(Len(q) + 1) = 1..Len(q) \cup {Len(q) + 1}
  BY <1>1
<1> QED BY <1>1, <1>2

(* A segment sent joins those on their way to the peer.                    *)
LEMMA SendStep ==
  ASSUME WireInv, NEW e \in Ends, NEW f, Formed(f), Send(e, f)
  PROVE  /\ wire' \in [Ends -> Seq(Segment)]
         /\ On(Peer(e))' = On(Peer(e)) \cup {f} /\ On(e)' = On(e)
         /\ wire'[e] = wire[e] /\ Peer(e) \in Ends /\ Peer(e) # e
         /\ obs' = IF e = "local" THEN UpdateTcpState(Current, f, TRUE) ELSE obs
<1>1. Peer(e) \in Ends /\ Peer(e) # e
  BY DEF Peer, Ends
<1>2. wire' = [wire EXCEPT ![Peer(e)] = Append(@, f)]
  BY DEF Send
<1>3. f \in Segment /\ wire[Peer(e)] \in Seq(Segment) /\ wire \in [Ends -> Seq(Segment)]
  BY <1>1 DEF WireInv, Formed
<1>4. /\ wire'[e] = wire[e] /\ wire'[Peer(e)] = Append(wire[Peer(e)], f)
      /\ wire' \in [Ends -> Seq(Segment)]
  BY <1>1, <1>2, <1>3
<1>5. On(Peer(e))' = On(Peer(e)) \cup {f}
  <2> DEFINE q == wire[Peer(e)]
  <2>1. q \in Seq(Segment) /\ wire'[Peer(e)] = Append(q, f)
    BY <1>3, <1>4
  <2> HIDE DEF q
  <2>2. {Append(q, f)[i] : i \in 1..Len(Append(q, f))} = {q[i] : i \in 1..Len(q)} \cup {f}
    BY <1>3, <2>1, Appended
  <2>3. On(Peer(e)) = {q[i] : i \in 1..Len(q)}
    BY DEF On, q
  <2>4. On(Peer(e))' = {Append(q, f)[i] : i \in 1..Len(Append(q, f))}
    BY <2>1 DEF On, Peer
  <2> QED BY <2>2, <2>3, <2>4
<1>6. On(e)' = On(e)
  BY <1>4 DEF On
<1>7. obs' = IF e = "local" THEN UpdateTcpState(Current, f, TRUE) ELSE obs
  BY DEF Send, Observe, Current
<1> QED BY <1>1, <1>4, <1>5, <1>6, <1>7

(* What an endpoint sends on its own account.                              *)
LEMMA ActionStep ==
  ASSUME NEW e \in Ends, Connect(e) \/ SendData(e) \/ Close(e) \/ Abort(e)
  PROVE  /\ openers' = openers
         /\ \E f : /\ Formed(f) /\ Send(e, f)
                  /\ \/ /\ IsSyn(f) /\ e \in openers
                        /\ tcb[e] = "CLOSED0" /\ tcb' = [tcb EXCEPT ![e] = "SYN-SENT"]
                     \/ /\ IsAck(f) /\ tcb[e] \in {"ESTABLISHED", "CLOSE-WAIT"}
                        /\ tcb' = tcb
                     \/ /\ IsFin(f) /\ tcb[e] = "ESTABLISHED"
                        /\ tcb' = [tcb EXCEPT ![e] = "FIN-WAIT-1"]
                     \/ /\ IsFin(f) /\ tcb[e] = "CLOSE-WAIT"
                        /\ tcb' = [tcb EXCEPT ![e] = "LAST-ACK"]
                     \/ /\ IsRst(f)
                        /\ tcb[e] \in {"ESTABLISHED", "FIN-WAIT-1", "FIN-WAIT-2",
                                       "CLOSE-WAIT"}
                        /\ tcb' = [tcb EXCEPT ![e] = "CLOSED"]
<1> USE FlagsKinds, FlagsFields DEF Formed
<1>1. CASE Connect(e)
  <2> DEFINE f == Flags({"syn"})
  <2>1. Formed(f) /\ IsSyn(f)
    OBVIOUS
  <2> HIDE DEF f
  <2> QED BY <1>1, <2>1 DEF Connect, f
<1>2. CASE SendData(e)
  <2> DEFINE f == Flags({"ack", "data"} \cup AcksFin(tcb[e]))
  <2>1. Formed(f) /\ IsAck(f)
    OBVIOUS
  <2>2. Send(e, f) /\ tcb[e] \in {"ESTABLISHED", "CLOSE-WAIT"} /\ tcb' = tcb
        /\ openers' = openers
    BY <1>2 DEF SendData
  <2> HIDE DEF f
  <2> QED BY <2>1, <2>2
<1>3. CASE Close(e)
  <2> DEFINE f == Flags({"fin", "ack"} \cup AcksFin(tcb[e]))
  <2>1. Formed(f) /\ IsFin(f)
    OBVIOUS
  <2>2. /\ Send(e, f) /\ openers' = openers
        /\ \/ /\ tcb[e] = "ESTABLISHED" /\ tcb' = [tcb EXCEPT ![e] = "FIN-WAIT-1"]
           \/ /\ tcb[e] = "CLOSE-WAIT" /\ tcb' = [tcb EXCEPT ![e] = "LAST-ACK"]
    BY <1>3 DEF Close
  <2> HIDE DEF f
  <2> QED BY <2>1, <2>2
<1>4. CASE Abort(e)
  <2> DEFINE f == Flags({"rst"})
  <2>1. Formed(f) /\ IsRst(f)
    OBVIOUS
  <2>2. /\ Send(e, f) /\ openers' = openers
        /\ tcb[e] \in {"ESTABLISHED", "FIN-WAIT-1", "FIN-WAIT-2", "CLOSE-WAIT"}
        /\ tcb' = [tcb EXCEPT ![e] = "CLOSED"]
    BY <1>4 DEF Abort
  <2> HIDE DEF f
  <2> QED BY <2>1, <2>2
<1> QED BY <1>1, <1>2, <1>3, <1>4

(* A segment received leaves the wire; its answer, if there is one, joins  *)
(* the other one.                                                          *)
Taken(e, f) ==
  /\ f \in On(e) /\ Formed(f) /\ On(e)' \subseteq On(e)
  /\ tcb' = [tcb EXCEPT ![e] = OnReceive(tcb[e], f)]

Silent(e, f) ==
  /\ On(Peer(e))' = On(Peer(e)) /\ wire'[Peer(e)] = wire[Peer(e)]
  /\ IsSyn(f) => tcb[e] \in {"CLOSED0", "CLOSED"}
  /\ obs' = IF e = "local" THEN UpdateTcpState(Current, f, FALSE) ELSE obs

Answered(e, f, r) ==
  /\ Formed(r) /\ ~IsRst(f) /\ tcb[e] \notin {"CLOSED0", "CLOSED"}
  /\ IF IsSyn(f) THEN IsSynAck(r) ELSE IsAck(r)
  /\ On(Peer(e))' = On(Peer(e)) \cup {r}
  /\ obs' = IF e = "local"
             THEN UpdateTcpState(UpdateTcpState(Current, f, FALSE), r, TRUE) ELSE obs

LEMMA ReceiveStep ==
  ASSUME WireInv, NEW e \in Ends, Receive(e)
  PROVE  /\ openers' = openers /\ wire' \in [Ends -> Seq(Segment)]
         /\ Peer(e) \in Ends /\ Peer(e) # e
         /\ \E f : Taken(e, f) /\ (Silent(e, f) \/ \E r : Answered(e, f, r))
<1> DEFINE f == Head(wire[e])
           q == wire[Peer(e)]
<1>1. Peer(e) \in Ends /\ Peer(e) # e
  BY DEF Peer, Ends
<1>2. /\ wire[e] \in Seq(Segment) /\ wire[e] # << >> /\ wire \in [Ends -> Seq(Segment)]
      /\ q \in Seq(Segment)
  BY <1>1 DEF Receive, WireInv
<1>3. f \in On(e) /\ Formed(f)
  <2>1. f = wire[e][1] /\ 1 \in 1..Len(wire[e])
    BY <1>2
  <2> QED BY <2>1 DEF On, WireInv
<1>4. tcb' = [tcb EXCEPT ![e] = OnReceive(tcb[e], f)] /\ openers' = openers
  BY DEF Receive
<1>5. wire'[e] = Tail(wire[e]) /\ Tail(wire[e]) \in Seq(Segment)
  BY <1>1, <1>2 DEF Receive
<1>6. On(e)' \subseteq On(e)
  <2>1. /\ Len(Tail(wire[e])) = Len(wire[e]) - 1 /\ Len(wire[e]) \in Nat
        /\ \A i \in 1..Len(Tail(wire[e])) : Tail(wire[e])[i] = wire[e][i + 1]
    BY <1>2
  <2>2. \A i \in 1..Len(Tail(wire[e])) : i + 1 \in 1..Len(wire[e])
    BY <2>1
  <2> QED BY <1>5, <2>1, <2>2 DEF On
<1>7. CASE Reply(tcb[e], f) = {}
  <2>1. wire'[Peer(e)] = q
    BY <1>1, <1>2, <1>7 DEF Receive
  <2>2. obs' = IF e = "local" THEN UpdateTcpState(Current, f, FALSE) ELSE obs
    BY <1>7 DEF Receive, Current, Ends
  <2>3. IsSyn(f) => tcb[e] \in {"CLOSED0", "CLOSED"}
    BY <1>3, <1>7, ReplyKinds
  <2>4. wire' \in [Ends -> Seq(Segment)]
    BY <1>1, <1>2, <1>5, <1>7 DEF Receive
  <2>5. On(Peer(e))' = On(Peer(e))
    BY <2>1 DEF On, Peer
  <2> HIDE DEF f, q
  <2>6. Taken(e, f) /\ Silent(e, f)
    BY <1>3, <1>4, <1>6, <2>1, <2>2, <2>3, <2>5 DEF Taken, Silent, q
  <2> QED BY <1>1, <1>4, <2>4, <2>6
<1>8. CASE Reply(tcb[e], f) # {}
  <2>1. PICK r : /\ Reply(tcb[e], f) = {r} /\ Formed(r) /\ ~IsRst(f)
                 /\ tcb[e] \notin {"CLOSED0", "CLOSED"}
                 /\ IF IsSyn(f) THEN IsSynAck(r) ELSE IsAck(r)
    BY <1>3, <1>8, ReplyKinds
  <2>2. (CHOOSE x \in Reply(tcb[e], f) : TRUE) = r
    BY <2>1
  <2>3. wire' = [wire EXCEPT ![e] = Tail(@), ![Peer(e)] = Append(@, r)]
    BY <1>8, <2>2 DEF Receive
  <2>4. wire'[Peer(e)] = Append(q, r) /\ r \in Segment
        /\ wire' \in [Ends -> Seq(Segment)]
    <3>1. r \in Segment
      BY <2>1 DEF Formed
    <3>2. Append(q, r) \in Seq(Segment)
      BY <1>2, <3>1
    <3> HIDE DEF f
    <3>3. wire'[Peer(e)] = Append(q, r)
      BY <1>1, <1>2, <2>3
    <3>4. wire' = [[wire EXCEPT ![e] = Tail(wire[e])] EXCEPT ![Peer(e)] = Append(q, r)]
      BY <1>1, <1>2, <2>3
    <3> HIDE DEF q
    <3> QED BY <1>1, <1>2, <1>5, <3>1, <3>2, <3>3, <3>4
  <2>5. obs' = IF e = "local"
               THEN UpdateTcpState(UpdateTcpState(Current, f, FALSE), r, TRUE) ELSE obs
    <3> DEFINE c == CHOOSE x \in Reply(tcb[e], f) : TRUE
    <3>1. obs' = CASE e = "remote" -> obs
                   [] e = "local" /\ Reply(tcb[e], f) = {}
                      -> UpdateTcpState(Current, f, FALSE)
                   [] OTHER -> UpdateTcpState(UpdateTcpState(Current, f, FALSE), c, TRUE)
      BY DEF Receive, Current
    <3>2. c = r
      BY <2>2
    <3> HIDE DEF c, f
    <3> QED BY <1>8, <3>1, <3>2 DEF Ends
  <2>6. On(Peer(e))' = On(Peer(e)) \cup {r}
    <3>1. {Append(q, r)[i] : i \in 1..Len(Append(q, r))} = {q[i] : i \in 1..Len(q)} \cup {r}
      BY <1>2, <2>4, Appended DEF q
    <3>2. On(Peer(e)) = {q[i] : i \in 1..Len(q)}
      BY DEF On, q
    <3>3. On(Peer(e))' = {Append(q, r)[i] : i \in 1..Len(Append(q, r))}
      BY <2>4 DEF On, Peer
    <3> QED BY <3>1, <3>2, <3>3
  <2> HIDE DEF f
  <2>7. Taken(e, f) /\ Answered(e, f, r)
    BY <1>3, <1>4, <1>6, <2>1, <2>5, <2>6 DEF Taken, Answered
  <2> QED BY <1>1, <1>4, <2>4, <2>7
<1> QED BY <1>7, <1>8

LEMMA WireInit == Init => WireInv
<1> SUFFICES ASSUME Init PROVE WireInv
  OBVIOUS
<1>1. openers \subseteq Ends
  BY ObserverAssumption DEF Init
<1>2. tcb \in [Ends -> EndStates]
  BY DEF Init, EndStates
<1>3. wire \in [Ends -> Seq(Segment)] /\ \A e \in Ends : On(e) = {}
  BY DEF Init, On
<1> QED BY <1>1, <1>2, <1>3 DEF Init, WireInv, ObsType

LEMMA WireNext == WireInv /\ [Next]_vars => WireInv'
<1> SUFFICES ASSUME WireInv, [Next]_vars PROVE WireInv'
  OBVIOUS
<1>0. ObsType'
  BY ObsNext DEF WireInv
<1>1. CASE UNCHANGED vars
  BY <1>1 DEF vars, WireInv, On, ObsType
<1>2. ASSUME NEW e \in Ends, Connect(e) \/ SendData(e) \/ Close(e) \/ Abort(e)
      PROVE  WireInv'
  <2>1. openers' = openers
    BY <1>2, ActionStep
  <2>2. PICK f : Formed(f) /\ Send(e, f)
                 /\ \/ tcb' = tcb
                    \/ \E s \in EndStates : tcb' = [tcb EXCEPT ![e] = s]
    BY <1>2, ActionStep DEF EndStates
  <2>3. /\ wire' \in [Ends -> Seq(Segment)]
        /\ On(Peer(e))' = On(Peer(e)) \cup {f} /\ On(e)' = On(e)
    BY <2>2, SendStep
  <2>4. \A d \in Ends : d \in {e, Peer(e)}
    BY DEF Ends, Peer
  <2>5. \A d \in Ends : \A g \in On(d)' : Formed(g)
    BY <2>2, <2>3, <2>4 DEF WireInv
  <2> QED BY <1>0, <2>1, <2>2, <2>3, <2>5 DEF WireInv
<1>3. ASSUME NEW e \in Ends, Receive(e) PROVE WireInv'
  <2>1. openers' = openers /\ wire' \in [Ends -> Seq(Segment)]
    BY <1>3, ReceiveStep
  <2>2. PICK f : Taken(e, f) /\ (Silent(e, f) \/ \E r : Answered(e, f, r))
    BY <1>3, ReceiveStep
  <2>3. tcb' \in [Ends -> EndStates]
    BY <2>2, ReceiveType DEF WireInv, Taken
  <2>4. \A d \in Ends : d \in {e, Peer(e)}
    BY DEF Ends, Peer
  <2>5. \A d \in Ends : \A g \in On(d)' : Formed(g)
    BY <2>2, <2>4 DEF WireInv, Taken, Silent, Answered
  <2> QED BY <1>0, <2>1, <2>3, <2>5 DEF WireInv
<1> QED BY <1>1, <1>2, <1>3 DEF Next

-----------------------------------------------------------------------------
(* The handshake.                                                          *)

(* Until the local endpoint is established only SYNs and SYN-ACKs are on   *)
(* the wire, and the remote one is not established either; so no ACK that  *)
(* update_tcp_state would take for the end of the handshake is captured.   *)
Handshake ==
  /\ tcb["local"] \in {"CLOSED0", "LISTEN"} =>
       /\ wire["remote"] = << >>
       /\ \A f \in On("local") : IsSyn(f)
       /\ tcb["remote"] \in {"CLOSED0", "LISTEN", "SYN-SENT"}
  /\ tcb["local"] = "LISTEN" => obs = NoState
  /\ tcb["local"] = "CLOSED0" => obs \in {NoState, "SynReceived"}
  /\ tcb["local"] = "SYN-SENT" =>
       /\ \A f \in On("remote") : IsSyn(f)
       /\ \A f \in On("local") : IsSyn(f) \/ IsSynAck(f)
       /\ tcb["remote"] \in {"CLOSED0", "LISTEN", "SYN-SENT", "SYN-RECEIVED"}
  /\ tcb["local"] \in {"SYN-SENT", "SYN-RECEIVED"} => obs \in {"SynSent", "SynReceived"}

Early == {"CLOSED0", "LISTEN", "SYN-SENT", "SYN-RECEIVED"}

(* The local endpoint sends.                                               *)
LEMMA HandshakeSend ==
  ASSUME WireInv, Handshake, Connect("local") \/ SendData("local") \/ Close("local")
                             \/ Abort("local")
  PROVE  Handshake'
<1>0. "local" \in Ends /\ "remote" \in Ends /\ Peer("local") = "remote"
  BY DEF Ends, Peer
<1>t. tcb \in [Ends -> EndStates]
  BY DEF WireInv
<1>1. PICK f : /\ Formed(f) /\ Send("local", f)
               /\ \/ /\ IsSyn(f)
                     /\ tcb["local"] = "CLOSED0" /\ tcb' = [tcb EXCEPT !["local"] = "SYN-SENT"]
                  \/ \E s \in EndStates \ Early : tcb' = [tcb EXCEPT !["local"] = s]
  <2>1. PICK f : /\ Formed(f) /\ Send("local", f)
                  /\ \/ /\ IsSyn(f)
                        /\ tcb["local"] = "CLOSED0"
                        /\ tcb' = [tcb EXCEPT !["local"] = "SYN-SENT"]
                     \/ /\ tcb["local"] \in {"ESTABLISHED", "CLOSE-WAIT"}
                        /\ tcb' = tcb
                     \/ tcb' = [tcb EXCEPT !["local"] = "FIN-WAIT-1"]
                     \/ tcb' = [tcb EXCEPT !["local"] = "LAST-ACK"]
                     \/ tcb' = [tcb EXCEPT !["local"] = "CLOSED"]
    BY <1>0, ActionStep
  <2>2. tcb' = tcb => tcb' = [tcb EXCEPT !["local"] = tcb["local"]]
    BY <1>0, <1>t
  <2>3. /\ "ESTABLISHED" \in EndStates \ Early /\ "CLOSE-WAIT" \in EndStates \ Early
        /\ "FIN-WAIT-1" \in EndStates \ Early /\ "LAST-ACK" \in EndStates \ Early
        /\ "CLOSED" \in EndStates \ Early
    BY DEF EndStates, Early
  <2> QED BY <2>1, <2>2, <2>3
<1>2. /\ On("remote")' = On("remote") \cup {f} /\ On("local")' = On("local")
      /\ obs' = UpdateTcpState(Current, f, TRUE)
  BY <1>0, <1>1, SendStep
<1>3. CASE IsSyn(f) /\ tcb["local"] = "CLOSED0" /\ tcb' = [tcb EXCEPT !["local"] = "SYN-SENT"]
  <2>1. On("remote") = {}
    BY <1>3 DEF Handshake, On
  <2>2. tcb'["local"] = "SYN-SENT" /\ tcb'["remote"] = tcb["remote"]
    BY <1>0, <1>3, <1>t
  <2>3. obs' \in {"SynSent", "SynReceived"}
    <3>1. Current \in {"Unknown", "SynReceived"} /\ Current \in TcpStates /\ f \in Segment
      BY <1>1, <1>3 DEF Handshake, Current, TcpStates, Formed
    <3> QED BY <1>2, <1>3, <3>1, UpdateSyn
  <2> QED BY <1>2, <1>3, <2>1, <2>2, <2>3 DEF Handshake
<1>4. CASE \E s \in EndStates \ Early : tcb' = [tcb EXCEPT !["local"] = s]
  <2>1. tcb'["local"] \notin Early
    BY <1>0, <1>4, <1>t
  <2> QED BY <2>1 DEF Handshake, Early
<1> QED BY <1>1, <1>3, <1>4

(* The remote endpoint sends.                                              *)
LEMMA HandshakeRemoteSend ==
  ASSUME WireInv, Handshake, Connect("remote") \/ SendData("remote") \/ Close("remote")
                             \/ Abort("remote")
  PROVE  Handshake'
<1>0. "local" \in Ends /\ "remote" \in Ends /\ Peer("remote") = "local"
  BY DEF Ends, Peer
<1>t. tcb \in [Ends -> EndStates]
  BY DEF WireInv
<1>1. PICK f : /\ Formed(f) /\ Send("remote", f) /\ tcb'["local"] = tcb["local"]
               /\ \/ /\ IsSyn(f) /\ tcb'["remote"] = "SYN-SENT"
                  \/ tcb["remote"] \in {"ESTABLISHED", "FIN-WAIT-1", "FIN-WAIT-2",
                                      "CLOSE-WAIT"}
  BY <1>0, <1>t, ActionStep
<1>2. /\ wire'["remote"] = wire["remote"] /\ On("remote")' = On("remote")
      /\ On("local")' = On("local") \cup {f} /\ obs' = obs
  BY <1>0, <1>1, SendStep
<1> QED BY <1>1, <1>2 DEF Handshake

(* The local endpoint receives.                                            *)
LEMMA HandshakeReceive ==
  ASSUME WireInv, Handshake, Receive("local")
  PROVE  Handshake'
<1>0. "local" \in Ends /\ "remote" \in Ends /\ Peer("local") = "remote"
  BY DEF Ends, Peer
<1>t. tcb \in [Ends -> EndStates]
  BY DEF WireInv
<1> DEFINE s == tcb["local"]
<1>1. PICK f : Taken("local", f) /\ (Silent("local", f) \/ \E r : Answered("local", f, r))
  BY <1>0, ReceiveStep
<1>2. tcb'["local"] = OnReceive(s, f) /\ tcb'["remote"] = tcb["remote"] /\ f \in Segment
  BY <1>0, <1>1, <1>t DEF Formed, Taken
<1>3. Current \in TcpStates
  BY CurrentType DEF WireInv
<1>4. CASE IsSyn(f)
  <2>1. OnReceive(s, f) = IF s \in {"LISTEN", "SYN-SENT"} THEN "SYN-RECEIVED" ELSE s
    BY <1>2, <1>4, ReceiveSyn
  <2> DEFINE m == UpdateTcpState(Current, f, FALSE)
  <2>2. m = (IF Current = "Unknown" THEN "SynReceived" ELSE Current) /\ m \in TcpStates
    BY <1>2, <1>3, <1>4, UpdateSyn DEF TcpStates
  <2> HIDE DEF m
  <2>3. CASE s = "CLOSED0"
    <3>1. obs' = m /\ wire'["remote"] = wire["remote"]
      BY <1>0, <1>1, <2>3 DEF Silent, Answered, m
    <3>2. obs' = "SynReceived"
      BY <2>2, <2>3, <3>1 DEF Handshake, Current
    <3> QED BY <1>1, <1>2, <2>1, <2>3, <3>1, <3>2 DEF Handshake, Taken
  <2>4. CASE s \in {"LISTEN", "SYN-SENT", "SYN-RECEIVED"}
    <3>1. PICK r : Formed(r) /\ IsSynAck(r) /\ obs' = UpdateTcpState(m, r, TRUE)
      BY <1>1, <1>4, <2>4 DEF Silent, Answered, m
    <3>2. obs' = m
      BY <2>2, <3>1, UpdateSynAck DEF Formed
    <3>3. obs' \in {"SynSent", "SynReceived"}
      BY <2>2, <2>4, <3>2 DEF Handshake, Current, NoState
    <3>4. tcb'["local"] = "SYN-RECEIVED"
      BY <1>2, <2>1, <2>4
    <3> QED BY <3>3, <3>4 DEF Handshake
  <2>5. CASE s \notin Early
    <3>1. tcb'["local"] \notin Early
      BY <1>2, <2>1, <2>5 DEF Early
    <3> QED BY <3>1 DEF Handshake, Early
  <2> QED BY <2>3, <2>4, <2>5 DEF Early
<1>5. CASE ~IsSyn(f)
  <2>1. s \notin {"CLOSED0", "LISTEN"}
    BY <1>1, <1>5 DEF Handshake, Taken
  <2>2. s = "SYN-SENT" => IsSynAck(f)
    BY <1>1, <1>5 DEF Handshake, Taken
  <2>3. tcb'["local"] \notin Early
    <3>1. CASE IsSynAck(f)
      BY <1>2, <2>1, <3>1, ReceiveSynAck DEF Early
    <3>2. CASE IsAck(f)
      BY <1>2, <2>1, <2>2, <3>2, ReceiveAck DEF Early, IsAck, IsSynAck
    <3>3. CASE IsFin(f)
      BY <1>2, <2>1, <2>2, <3>3, ReceiveFin DEF Early, IsFin, IsSynAck
    <3>4. CASE IsRst(f)
      BY <1>2, <3>4, ReceiveRst DEF Early
    <3> QED BY <1>1, <1>5, <3>1, <3>2, <3>3, <3>4 DEF Formed, Taken
  <2> QED BY <2>3 DEF Handshake, Early
<1> QED BY <1>4, <1>5

(* The remote endpoint receives.                                           *)
LEMMA HandshakeRemoteReceive ==
  ASSUME WireInv, Handshake, Receive("remote")
  PROVE  Handshake'
<1>0. "local" \in Ends /\ "remote" \in Ends /\ Peer("remote") = "local"
  BY DEF Ends, Peer
<1>t. tcb \in [Ends -> EndStates]
  BY DEF WireInv
<1>1. PICK f : /\ Taken("remote", f)
               /\ Silent("remote", f) \/ \E r : Answered("remote", f, r)
  BY <1>0, ReceiveStep
<1>a. /\ obs' = obs /\ f \in On("remote") /\ Formed(f) /\ On("remote")' \subseteq On("remote")
      /\ \/ On("local")' = On("local")
         \/ \E r : /\ IF IsSyn(f) THEN IsSynAck(r) ELSE IsAck(r)
                  /\ On("local")' = On("local") \cup {r}
  BY <1>0, <1>1 DEF Taken, Silent, Answered
<1>2. tcb'["local"] = tcb["local"] /\ tcb'["remote"] = OnReceive(tcb["remote"], f)
      /\ f \in Segment
  BY <1>0, <1>1, <1>t DEF Formed, Taken
<1>3. CASE tcb["local"] \in {"CLOSED0", "LISTEN"}
  <2>1. On("remote") = {}
    BY <1>3 DEF Handshake, On
  <2> QED BY <1>a, <2>1
<1>4. CASE tcb["local"] = "SYN-SENT"
  <2>1. IsSyn(f)
    BY <1>a, <1>4 DEF Handshake
  <2>2. tcb'["remote"] \in {"CLOSED0", "LISTEN", "SYN-SENT", "SYN-RECEIVED"}
    BY <1>2, <1>4, <2>1, ReceiveSyn DEF Handshake
  <2> QED BY <1>a, <1>2, <1>4, <2>1, <2>2 DEF Handshake
<1>5. CASE tcb["local"] \notin {"CLOSED0", "LISTEN", "SYN-SENT"}
  BY <1>a, <1>2, <1>5 DEF Handshake
<1> QED BY <1>3, <1>4, <1>5

LEMMA HandshakeNext == WireInv /\ Handshake /\ [Next]_vars => Handshake'
<1> SUFFICES ASSUME WireInv, Handshake, [Next]_vars PROVE Handshake'
  OBVIOUS
<1>1. CASE UNCHANGED vars
  BY <1>1 DEF vars, Handshake, On
<1> QED BY <1>1, HandshakeSend, HandshakeRemoteSend, HandshakeReceive,
           HandshakeRemoteReceive DEF Next, Ends

(* Whoever opens the connection, also both at once, update_tcp_state shows *)
(* it as Established only when the local endpoint has finished the         *)
(* handshake.                                                              *)
THEOREM NoEarlyEstablishedCorrect == Spec => []NoEarlyEstablished
<1>1. Init => Handshake
  <2> SUFFICES ASSUME Init PROVE Handshake
    OBVIOUS
  <2>1. /\ tcb["local"] \in {"CLOSED0", "LISTEN"} /\ tcb["remote"] \in {"CLOSED0", "LISTEN"}
        /\ wire["remote"] = << >> /\ wire["local"] = << >> /\ obs = NoState
    BY DEF Init, Ends
  <2>2. On("local") = {}
    BY <2>1 DEF On
  <2> QED BY <2>1, <2>2 DEF Handshake
<1>2. Handshake => NoEarlyEstablished
  BY DEF Handshake, NoEarlyEstablished, NoState
<1> QED BY <1>1, <1>2, WireInit, WireNext, HandshakeNext, PTL DEF Spec
-----------------------------------------------------------------------------
(* A connection that the local endpoint opens.                             *)

(* What rustnet shows for each state of the local endpoint.  It may run    *)
(* ahead by an ACK, which update_tcp_state takes for that of the FIN; it   *)
(* is never behind.                                                        *)
ShownFor(s) ==
  CASE s = "CLOSED0" -> {NoState}
    [] s = "SYN-SENT" -> {"SynSent"}
    [] s = "ESTABLISHED" -> {"Established"}
    [] s = "FIN-WAIT-1" -> {"FinWait1", "FinWait2"}
    [] s = "FIN-WAIT-2" -> {"FinWait2"}
    [] s = "CLOSE-WAIT" -> {"CloseWait"}
    [] s \in {"LAST-ACK", "CLOSED"} -> {"LastAck", "Closed"}
    [] s \in {"CLOSING", "TIME-WAIT"} -> {"Closing", "TimeWait"}
    [] OTHER -> {}

Opened ==
  openers = {"local"} =>
    /\ \A f \in On("local") : ~IsSyn(f)
    /\ tcb["remote"] # "CLOSED0"
    /\ obs \in ShownFor(tcb["local"])

LEMMA ShownReceive ==
  ASSUME NEW s \in EndStates \ {"CLOSED0"}, NEW o \in ShownFor(s),
         NEW f, Formed(f), ~IsSyn(f), s = "SYN-SENT" => IsSynAck(f)
  PROVE  /\ UpdateTcpState(o, f, FALSE) \in ShownFor(OnReceive(s, f))
         /\ OnReceive(s, f) \in EndStates \ {"CLOSED0", "SYN-SENT"}
<1>1. o \in TcpStates /\ f \in Segment
  BY DEF ShownFor, TcpStates, EndStates, Formed
<1>2. s \in {"SYN-SENT", "ESTABLISHED", "FIN-WAIT-1", "FIN-WAIT-2", "CLOSE-WAIT",
            "CLOSING", "LAST-ACK", "TIME-WAIT", "CLOSED"}
  BY DEF ShownFor, EndStates
<1>3. CASE IsSynAck(f)
  <2>1. UpdateTcpState(o, f, FALSE) = IF o = "SynSent" THEN "Established" ELSE o
    BY <1>1, <1>3, UpdateSynAck
  <2>2. OnReceive(s, f) = IF s = "SYN-SENT" THEN "ESTABLISHED" ELSE s
    BY <1>1, <1>2, <1>3, ReceiveSynAck
  <2> QED BY <1>2, <2>1, <2>2 DEF ShownFor, EndStates
<1>4. CASE IsAck(f)
  <2>1. s # "SYN-SENT"
    BY <1>4 DEF IsAck, IsSynAck
  <2>2. /\ UpdateTcpState(o, f, FALSE) =
             CASE o = "Unknown" -> "Established"
               [] o = "FinWait1" -> "FinWait2"
               [] o = "LastAck" -> "Closed"
               [] o = "Closing" -> "TimeWait"
               [] OTHER -> o
        /\ OnReceive(s, f) =
             CASE s = "SYN-RECEIVED" -> "ESTABLISHED"
               [] s = "FIN-WAIT-1" /\ f.acksFin -> "FIN-WAIT-2"
               [] s = "CLOSING" /\ f.acksFin -> "TIME-WAIT"
               [] s = "LAST-ACK" /\ f.acksFin -> "CLOSED"
               [] OTHER -> s
    BY <1>1, <1>4, UpdateAckIn, ReceiveAck
  <2> QED BY <1>2, <2>1, <2>2 DEF ShownFor, EndStates
<1>5. CASE IsFin(f)
  <2>1. s # "SYN-SENT"
    BY <1>5 DEF IsFin, IsSynAck
  <2>2. /\ UpdateTcpState(o, f, FALSE) =
             CASE o = "Unknown" -> "Established"
               [] o = "Established" -> "CloseWait"
               [] o = "FinWait1" -> "Closing"
               [] o = "FinWait2" -> "TimeWait"
               [] OTHER -> o
        /\ OnReceive(s, f) =
             CASE s \in {"SYN-RECEIVED", "ESTABLISHED"} -> "CLOSE-WAIT"
               [] s = "FIN-WAIT-1" -> IF f.acksFin THEN "TIME-WAIT" ELSE "CLOSING"
               [] s = "FIN-WAIT-2" -> "TIME-WAIT"
               [] s = "CLOSING" /\ f.acksFin -> "TIME-WAIT"
               [] s = "LAST-ACK" /\ f.acksFin -> "CLOSED"
               [] OTHER -> s
    BY <1>1, <1>5, UpdateFinIn, ReceiveFin
  <2> QED BY <1>2, <2>1, <2>2 DEF ShownFor, EndStates
<1>6. CASE IsRst(f)
  BY <1>1, <1>6, UpdateRst, ReceiveRst DEF ShownFor, EndStates
<1> QED BY <1>3, <1>4, <1>5, <1>6 DEF Formed

(* The ACK that the local endpoint answers with changes nothing.           *)
LEMMA ShownReply ==
  ASSUME NEW s \in EndStates \ {"CLOSED0", "SYN-SENT"}, NEW o \in ShownFor(s),
         NEW r, Formed(r), IsAck(r)
  PROVE  UpdateTcpState(o, r, TRUE) = o
<1>1. o \in TcpStates /\ o \notin {"Unknown", "SynReceived"} /\ r \in Segment
  BY DEF ShownFor, TcpStates, EndStates, Formed
<1> QED BY <1>1, UpdateAckOut

LEMMA OpenedSend ==
  ASSUME WireInv, Handshake, Opened, NEW e \in Ends,
         Connect(e) \/ SendData(e) \/ Close(e) \/ Abort(e)
  PROVE  Opened'
<1>0. /\ "local" \in Ends /\ "remote" \in Ends
      /\ Peer("local") = "remote" /\ Peer("remote") = "local"
  BY DEF Ends, Peer
<1>t. tcb \in [Ends -> EndStates] /\ obs \in TcpStates \cup {NoState}
  BY DEF WireInv, ObsType
<1>o. openers' = openers
  BY ActionStep
<1> SUFFICES ASSUME openers = {"local"} PROVE Opened'
  BY <1>o DEF Opened
<1>1. PICK f : /\ Formed(f) /\ Send(e, f)
               /\ \/ /\ IsSyn(f) /\ e \in openers
                     /\ tcb[e] = "CLOSED0" /\ tcb' = [tcb EXCEPT ![e] = "SYN-SENT"]
                  \/ /\ IsAck(f) /\ tcb[e] \in {"ESTABLISHED", "CLOSE-WAIT"}
                     /\ tcb' = tcb
                  \/ /\ IsFin(f) /\ tcb[e] = "ESTABLISHED"
                     /\ tcb' = [tcb EXCEPT ![e] = "FIN-WAIT-1"]
                  \/ /\ IsFin(f) /\ tcb[e] = "CLOSE-WAIT"
                     /\ tcb' = [tcb EXCEPT ![e] = "LAST-ACK"]
                  \/ /\ IsRst(f)
                     /\ tcb[e] \in {"ESTABLISHED", "FIN-WAIT-1", "FIN-WAIT-2",
                                    "CLOSE-WAIT"}
                     /\ tcb' = [tcb EXCEPT ![e] = "CLOSED"]
  BY ActionStep
<1>2. /\ On(Peer(e))' = On(Peer(e)) \cup {f} /\ On(e)' = On(e)
      /\ obs' = IF e = "local" THEN UpdateTcpState(Current, f, TRUE) ELSE obs
  BY <1>1, SendStep
<1>3. f \in Segment
  BY <1>1 DEF Formed
<1>4. CASE e = "remote"
  <2>1. ~IsSyn(f) /\ tcb'["local"] = tcb["local"] /\ tcb'["remote"] # "CLOSED0"
    BY <1>0, <1>1, <1>4, <1>t DEF Opened, IsSyn, IsAck, IsFin, IsRst
  <2>2. On("local")' = On("local") \cup {f} /\ obs' = obs
    BY <1>0, <1>2, <1>4
  <2> QED BY <1>o, <2>1, <2>2 DEF Opened
<1>5. CASE e = "local"
  <2>1. On("local")' = On("local") /\ obs' = UpdateTcpState(Current, f, TRUE)
        /\ tcb'["remote"] = tcb["remote"]
    BY <1>0, <1>1, <1>2, <1>5, <1>t
  <2>2. obs \in ShownFor(tcb["local"])
    BY DEF Opened
  <2>3. obs' \in ShownFor(tcb'["local"])
    <3>1. CASE IsSyn(f) /\ tcb["local"] = "CLOSED0" /\ tcb'["local"] = "SYN-SENT"
      <4>1. Current = "Unknown"
        BY <2>2, <3>1 DEF ShownFor, Current
      <4>2. obs' = "SynSent"
        BY <1>3, <2>1, <3>1, <4>1, UpdateSyn DEF TcpStates
      <4> QED BY <3>1, <4>2 DEF ShownFor
    <3>2. CASE /\ IsAck(f) /\ tcb["local"] \in {"ESTABLISHED", "CLOSE-WAIT"}
               /\ tcb'["local"] = tcb["local"]
      <4>1. Current = obs /\ obs \in {"Established", "CloseWait"}
        BY <2>2, <3>2 DEF ShownFor, Current, NoState
      <4>2. obs' = obs
        BY <1>3, <2>1, <3>2, <4>1, UpdateAckOut DEF TcpStates
      <4> QED BY <2>2, <3>2, <4>2
    <3>3. CASE /\ IsFin(f) /\ tcb["local"] = "ESTABLISHED"
               /\ tcb'["local"] = "FIN-WAIT-1"
      <4>1. Current = "Established"
        BY <2>2, <3>3 DEF ShownFor, Current, NoState
      <4>2. obs' = "FinWait1"
        BY <1>3, <2>1, <3>3, <4>1, UpdateFinOut DEF TcpStates
      <4> QED BY <3>3, <4>2 DEF ShownFor
    <3>4. CASE /\ IsFin(f) /\ tcb["local"] = "CLOSE-WAIT"
               /\ tcb'["local"] = "LAST-ACK"
      <4>1. Current = "CloseWait"
        BY <2>2, <3>4 DEF ShownFor, Current, NoState
      <4>2. obs' = "LastAck"
        BY <1>3, <2>1, <3>4, <4>1, UpdateFinOut DEF TcpStates
      <4> QED BY <3>4, <4>2 DEF ShownFor
    <3>5. CASE IsRst(f) /\ tcb'["local"] = "CLOSED"
      <4>1. Current \in TcpStates
        BY CurrentType DEF WireInv
      <4>2. obs' = "Closed"
        BY <1>3, <2>1, <3>5, <4>1, UpdateRst
      <4> QED BY <3>5, <4>2 DEF ShownFor
    <3> QED BY <1>0, <1>1, <1>5, <1>t, <3>1, <3>2, <3>3, <3>4, <3>5
  <2> QED BY <1>o, <2>1, <2>3 DEF Opened
<1> QED BY <1>4, <1>5 DEF Ends

LEMMA OpenedReceive ==
  ASSUME WireInv, Handshake, Opened, Receive("local")
  PROVE  Opened'
<1>0. "local" \in Ends /\ "remote" \in Ends /\ Peer("local") = "remote"
  BY DEF Ends, Peer
<1>t. tcb \in [Ends -> EndStates]
  BY DEF WireInv
<1>o. openers' = openers
  BY <1>0, ReceiveStep
<1> SUFFICES ASSUME openers = {"local"} PROVE Opened'
  BY <1>o DEF Opened
<1> DEFINE s == tcb["local"]
<1>1. PICK f : Taken("local", f) /\ (Silent("local", f) \/ \E r : Answered("local", f, r))
  BY <1>0, ReceiveStep
<1>2. /\ f \in On("local") /\ Formed(f) /\ On("local")' \subseteq On("local")
      /\ tcb'["local"] = OnReceive(s, f) /\ tcb'["remote"] = tcb["remote"]
  BY <1>0, <1>1, <1>t DEF Taken
<1>3. ~IsSyn(f) /\ obs \in ShownFor(s)
  BY <1>2 DEF Opened
<1>4. s \in EndStates \ {"CLOSED0"} /\ (s = "SYN-SENT" => IsSynAck(f))
  BY <1>0, <1>2, <1>3, <1>t DEF Handshake
<1>5. Current = obs
  BY <1>3, <1>4 DEF ShownFor, EndStates, Current, NoState
<1> DEFINE m == UpdateTcpState(Current, f, FALSE)
           t == OnReceive(s, f)
<1> HIDE DEF s
<1>6. m \in ShownFor(t) /\ t \in EndStates \ {"CLOSED0", "SYN-SENT"}
  BY <1>2, <1>3, <1>4, <1>5, ShownReceive
<1>7. obs' = m
  <2>1. CASE Silent("local", f)
    BY <2>1 DEF Silent
  <2>2. CASE \E r : Answered("local", f, r)
    <3>1. PICK r : Formed(r) /\ IsAck(r) /\ obs' = UpdateTcpState(m, r, TRUE)
      BY <1>3, <2>2 DEF Answered
    <3> HIDE DEF m, t
    <3> QED BY <1>6, <3>1, ShownReply
  <2> QED BY <1>1, <2>1, <2>2
<1> HIDE DEF m
<1> QED BY <1>2, <1>6, <1>7 DEF Opened

LEMMA OpenedRemoteReceive ==
  ASSUME WireInv, Opened, Receive("remote")
  PROVE  Opened'
<1>0. "local" \in Ends /\ "remote" \in Ends /\ Peer("remote") = "local"
  BY DEF Ends, Peer
<1>t. tcb \in [Ends -> EndStates]
  BY DEF WireInv
<1>o. openers' = openers
  BY <1>0, ReceiveStep
<1>1. PICK f : /\ Taken("remote", f)
               /\ Silent("remote", f) \/ \E r : Answered("remote", f, r)
  BY <1>0, ReceiveStep
<1>2. /\ obs' = obs /\ Formed(f)
      /\ \/ On("local")' = On("local")
         \/ \E r : /\ IF IsSyn(f) THEN IsSynAck(r) ELSE IsAck(r)
                  /\ On("local")' = On("local") \cup {r}
  BY <1>0, <1>1 DEF Taken, Silent, Answered
<1>3. \A r : IsSynAck(r) \/ IsAck(r) => ~IsSyn(r)
  BY DEF IsSyn, IsSynAck, IsAck
<1>4. tcb'["local"] = tcb["local"] /\ tcb'["remote"] = OnReceive(tcb["remote"], f)
  BY <1>0, <1>1, <1>t DEF Taken
<1>5. tcb["remote"] # "CLOSED0" => tcb'["remote"] # "CLOSED0"
  BY <1>0, <1>2, <1>4, <1>t, ReceiveType
<1> QED BY <1>o, <1>2, <1>3, <1>4, <1>5 DEF Opened

LEMMA OpenedNext == WireInv /\ Handshake /\ Opened /\ [Next]_vars => Opened'
<1> SUFFICES ASSUME WireInv, Handshake, Opened, [Next]_vars PROVE Opened'
  OBVIOUS
<1>1. CASE UNCHANGED vars
  BY <1>1 DEF vars, Opened, On
<1> QED BY <1>1, OpenedSend, OpenedReceive, OpenedRemoteReceive DEF Next, Ends

(* When the local endpoint is done with a connection that it opened,       *)
(* update_tcp_state shows a state of the end: it follows every step of     *)
(* the local endpoint and never lags behind.                               *)
THEOREM CloseObservedCorrect == Spec => []CloseObserved
<1>1. Init => Handshake /\ Opened
  <2> SUFFICES ASSUME Init PROVE Handshake /\ Opened
    OBVIOUS
  <2>1. /\ tcb["local"] \in {"CLOSED0", "LISTEN"} /\ tcb["remote"] \in {"CLOSED0", "LISTEN"}
        /\ wire["remote"] = << >> /\ wire["local"] = << >> /\ obs = NoState
        /\ openers = {"local"} => tcb["local"] = "CLOSED0" /\ tcb["remote"] = "LISTEN"
    BY DEF Init, Ends
  <2>2. On("local") = {}
    BY <2>1 DEF On
  <2>3. Handshake
    BY <2>1, <2>2 DEF Handshake
  <2>4. Opened
    BY <2>1, <2>2 DEF Opened, ShownFor
  <2> QED BY <2>3, <2>4
<1>2. Opened => CloseObserved
  BY DEF Opened, ShownFor, CloseObserved
<1> QED BY <1>1, <1>2, WireInit, WireNext, HandshakeNext, OpenedNext, PTL DEF Spec

-----------------------------------------------------------------------------
(* The analytics.                                                          *)


a == analytics

(* What the observer expects lies within what it can know of the streams.  *)
Expectations ==
  /\ nxt <= MaxOut /\ top <= MaxIn
  /\ a.last_seq_outbound # 0 => a.last_seq_outbound <= LocalIsn + nxt
  /\ a.last_seq_inbound # 0 => a.last_seq_inbound <= RemoteIsn + top

(* The acknowledgments still to come before the next fast retransmit have  *)
(* not been spent on an earlier one.                                       *)
Unspent ==
  IF a.duplicate_ack_count >= 3 THEN a.duplicate_ack_count - 3
                                ELSE a.duplicate_ack_count

AckAccount ==
  /\ nxt <= MaxOut /\ prev <= nxt
  /\ prev # -1 => a.last_ack_received = SeqOf(LocalIsn, prev)
  /\ prev = -1 => a.last_ack_received = 0
  /\ a.last_ack_received = 0 => a.duplicate_ack_count = 0
  /\ 3 * a.fast_retransmit_count + Unspent <= repeats

AckInv == TypeOK /\ AckAccount

SeqInv == Expectations /\ RetransmitSound /\ OutOfOrderSound

LEMMA SeqOfNoWrap ==
  ASSUME NoWrap
  PROVE  /\ \A o \in 0..MaxOut : SeqOf(LocalIsn, o) = LocalIsn + o
         /\ \A o \in 0..MaxIn : SeqOf(RemoteIsn, o) = RemoteIsn + o
         /\ \A s, l \in Nat : s + l < Modulus => WrappingAdd(s, l) = s + l
BY AnalyticsAssumption DEF SeqOf, WrappingAdd, NoWrap

(* Sequence numbers are u32, wrapped or not.                               *)
LEMMA SeqOfType ==
  ASSUME NEW isn \in 0..(Modulus - 1), NEW o \in Nat
  PROVE  SeqOf(isn, o) \in 0..(Modulus - 1)
<1>1. isn + o \in Nat
  BY AnalyticsAssumption
<1> QED BY <1>1, AnalyticsAssumption DEF SeqOf

(* Offsets less than Modulus apart have different sequence numbers.        *)
LEMMA SeqOfInjective ==
  ASSUME NEW isn \in 0..(Modulus - 1), NEW o \in Nat, o < Modulus,
         NEW p \in Nat, p < Modulus, SeqOf(isn, o) = SeqOf(isn, p)
  PROVE  o = p
<1>1. ASSUME NEW q \in Nat, q < Modulus
      PROVE  SeqOf(isn, q) = IF isn + q < Modulus THEN isn + q ELSE isn + q - Modulus
  <2>1. isn + q \in Nat /\ isn + q < 2 * Modulus
    BY <1>1, AnalyticsAssumption
  <2> DEFINE x == isn + q
  <2>2. x < Modulus => x % Modulus = x
    BY <2>1, AnalyticsAssumption
  <2>3. Modulus <= x => x % Modulus = x - Modulus
    BY <2>1, AnalyticsAssumption
  <2> QED BY <2>1, <2>2, <2>3, AnalyticsAssumption DEF SeqOf
<1> QED BY <1>1, AnalyticsAssumption

LEMMA InvInit == AnalyticsInit => AckInv /\ SeqInv
<1> SUFFICES ASSUME AnalyticsInit PROVE AckInv /\ SeqInv
  OBVIOUS
<1>1. TypeOK
  BY AnalyticsAssumption DEF AnalyticsInit, TypeOK, Analytics
<1> QED
  BY <1>1, AnalyticsAssumption
  DEF AnalyticsInit, SeqInv, AckInv, Expectations, RetransmitSound,
     OutOfOrderSound, AckAccount, Unspent, a

(* What each branch may do to the analytics x of a connection.             *)
OutboundRel(x, y, s, l) ==
  /\ y \in Analytics
  /\ y.last_seq_inbound = x.last_seq_inbound
  /\ y.last_ack_received = x.last_ack_received
  /\ y.duplicate_ack_count = x.duplicate_ack_count
  /\ y.fast_retransmit_count = x.fast_retransmit_count
  /\ y.out_of_order_count = x.out_of_order_count
  /\ y.last_seq_outbound \in {x.last_seq_outbound, WrappingAdd(s, l)}
  /\ \/ y.retransmit_count = x.retransmit_count
     \/ /\ y.retransmit_count = x.retransmit_count + 1
        /\ x.last_seq_outbound # 0 /\ s < x.last_seq_outbound

InboundRel(x, y, s, l) ==
  /\ y \in Analytics
  /\ y.last_seq_outbound = x.last_seq_outbound
  /\ y.last_ack_received = x.last_ack_received
  /\ y.duplicate_ack_count = x.duplicate_ack_count
  /\ y.fast_retransmit_count = x.fast_retransmit_count
  /\ y.retransmit_count = x.retransmit_count
  /\ \/ y.last_seq_inbound = x.last_seq_inbound
     \/ l > 0 /\ y.last_seq_inbound = WrappingAdd(s, l)
  /\ \/ y.out_of_order_count = x.out_of_order_count
     \/ /\ y.out_of_order_count = x.out_of_order_count + 1
        /\ x.last_seq_inbound # 0 /\ s < x.last_seq_inbound /\ l > 0

AckRel(x, y, k) ==
  /\ y \in Analytics
  /\ y.last_seq_outbound = x.last_seq_outbound
  /\ y.last_seq_inbound = x.last_seq_inbound
  /\ y.retransmit_count = x.retransmit_count
  /\ y.out_of_order_count = x.out_of_order_count
  /\ y.last_ack_received = k
  /\ \/ /\ x.last_ack_received = 0
        /\ y.duplicate_ack_count = x.duplicate_ack_count
        /\ y.fast_retransmit_count = x.fast_retransmit_count
     \/ /\ x.last_ack_received # 0 /\ k = x.last_ack_received
        /\ y.duplicate_ack_count = x.duplicate_ack_count + 1
        /\ y.fast_retransmit_count = x.fast_retransmit_count
             + (IF x.duplicate_ack_count = 2 THEN 1 ELSE 0)
     \/ /\ x.last_ack_received # 0 /\ k # x.last_ack_received
        /\ y.duplicate_ack_count = 0
        /\ y.fast_retransmit_count = x.fast_retransmit_count

LEMMA OutboundStep ==
  ASSUME NEW x \in Analytics, NEW s \in Nat, NEW l \in Nat
  PROVE  OutboundRel(x, AnalyzeOutbound(x, s, l), s, l)
<1>1. WrappingAdd(s, l) \in 0..(Modulus - 1)
  BY AnalyticsAssumption DEF WrappingAdd
<1> QED
  BY <1>1 DEF AnalyzeOutbound, Analytics, OutboundRel

LEMMA InboundStep ==
  ASSUME NEW x \in Analytics, NEW s \in Nat, NEW l \in Nat
  PROVE  InboundRel(x, AnalyzeInbound(x, s, l), s, l)
<1>1. WrappingAdd(s, l) \in 0..(Modulus - 1)
  BY AnalyticsAssumption DEF WrappingAdd
<1> QED
  BY <1>1 DEF AnalyzeInbound, Analytics, InboundRel

LEMMA AckStep ==
  ASSUME NEW x \in Analytics, NEW k \in 0..(Modulus - 1)
  PROVE  AckRel(x, AnalyzeAck(x, k), k)
<1> DEFINE y == AnalyzeAck(x, k)
<1>0. x.duplicate_ack_count \in Nat /\ x.fast_retransmit_count \in Nat
  BY DEF Analytics
<1>1. CASE x.last_ack_received = 0
  BY <1>1 DEF AnalyzeAck, Analytics, AckRel
<1>2. CASE x.last_ack_received # 0 /\ k = x.last_ack_received
  <2> DEFINE d == x.duplicate_ack_count + 1
             n == x.fast_retransmit_count
                    + (IF x.duplicate_ack_count = 2 THEN 1 ELSE 0)
  <2>1. d \in Nat /\ n \in Nat
    BY <1>0
  <2>2. y = [x EXCEPT !.duplicate_ack_count = d, !.fast_retransmit_count = n]
    <3>1. n = IF x.duplicate_ack_count + 1 = 3 THEN x.fast_retransmit_count + 1
                                               ELSE x.fast_retransmit_count
      BY <1>0
    <3> HIDE DEF n
    <3>2. y = [x EXCEPT !.duplicate_ack_count = x.duplicate_ack_count + 1,
                        !.fast_retransmit_count =
                          IF x.duplicate_ack_count + 1 = 3 THEN @ + 1 ELSE @]
      BY <1>2 DEF AnalyzeAck
    <3> QED
      BY <3>1, <3>2 DEF Analytics
  <2> HIDE DEF d, n
  <2>3. /\ y \in Analytics
        /\ y.duplicate_ack_count = d /\ y.fast_retransmit_count = n
        /\ y.last_seq_outbound = x.last_seq_outbound
        /\ y.last_seq_inbound = x.last_seq_inbound
        /\ y.retransmit_count = x.retransmit_count
        /\ y.out_of_order_count = x.out_of_order_count
        /\ y.last_ack_received = x.last_ack_received
    BY <2>1, <2>2 DEF Analytics
  <2> HIDE DEF y
  <2> QED
    BY <1>2, <2>3 DEF AckRel, y, d, n
<1>3. CASE x.last_ack_received # 0 /\ k # x.last_ack_received
  BY <1>3 DEF AnalyzeAck, Analytics, AckRel
<1> QED
  BY <1>1, <1>2, <1>3

(* A step of the local host: what the capture sees of it goes through the  *)
(* outbound branch.                                                        *)
LEMMA SeenStep ==
  ASSUME TypeOK, NEW offset \in Nat, NEW len \in Nat, NEW seen \in BOOLEAN,
         Seen(SeqOf(LocalIsn, offset), len, seen)
  PROVE  \/ analytics' = analytics
         \/ OutboundRel(analytics, analytics', SeqOf(LocalIsn, offset), len)
<1>1. SeqOf(LocalIsn, offset) \in Nat
  BY SeqOfType, AnalyticsAssumption
<1> QED BY <1>1, OutboundStep DEF Seen, TypeOK

(* A step of the remote host goes through both other branches.             *)
LEMMA ArriveStep ==
  ASSUME TypeOK, NEW offset \in Nat, NEW len \in Nat, NEW acked \in Nat,
         Arrive(offset, len, acked)
  PROVE  \E m : /\ InboundRel(analytics, m, SeqOf(RemoteIsn, offset), len)
                /\ AckRel(m, analytics', SeqOf(LocalIsn, acked))
<1>0. SeqOf(RemoteIsn, offset) \in Nat
  <2>1. RemoteIsn \in 0..(Modulus - 1)
    BY AnalyticsAssumption
  <2>2. SeqOf(RemoteIsn, offset) \in 0..(Modulus - 1)
    BY <2>1, SeqOfType
  <2> QED BY <2>2, AnalyticsAssumption
<1>1. SeqOf(LocalIsn, acked) \in 0..(Modulus - 1)
  <2>1. LocalIsn \in 0..(Modulus - 1)
    BY AnalyticsAssumption
  <2> QED BY <2>1, SeqOfType
<1> DEFINE m == AnalyzeInbound(analytics, SeqOf(RemoteIsn, offset), len)
<1>2. InboundRel(analytics, m, SeqOf(RemoteIsn, offset), len)
  BY <1>0, InboundStep DEF TypeOK
<1>3. m \in Analytics
  BY <1>2 DEF InboundRel
<1>4. analytics' = AnalyzeAck(m, SeqOf(LocalIsn, acked))
  BY DEF Arrive
<1> HIDE DEF m
<1>5. AckRel(m, analytics', SeqOf(LocalIsn, acked))
  BY <1>1, <1>3, <1>4, AckStep
<1> QED BY <1>2, <1>5

-----------------------------------------------------------------------------
(* The types and the acknowledgments, with numbers that may wrap.          *)

LEMMA AckNext ==
  ASSUME MaxOut < Modulus, AckInv, [AnalyticsNext]_analyticsVars
  PROVE  AckInv'
<1> USE AnalyticsAssumption
<1>0. /\ analytics \in Analytics /\ nxt \in Nat /\ top \in Nat
      /\ resent \in Nat /\ late \in Nat /\ prev \in Nat \cup {-1}
      /\ repeats \in Nat /\ nxt <= MaxOut /\ prev <= nxt
  BY DEF AckInv, TypeOK, AckAccount
<1>1. ASSUME NEW len \in 1..MaxLen, NEW seen \in BOOLEAN, SendNew(len, seen)
      PROVE  AckInv'
  <2>1. len \in Nat
    OBVIOUS
  <2>2. /\ \/ analytics' = analytics
           \/ OutboundRel(analytics, analytics', SeqOf(LocalIsn, nxt), len)
        /\ nxt' = nxt + len /\ nxt' <= MaxOut
        /\ UNCHANGED <<top, resent, late, prev, repeats>>
    BY <1>0, <1>1, <2>1, SeenStep DEF SendNew, AckInv
  <2>3. TypeOK'
    BY <1>0, <2>1, <2>2 DEF TypeOK, OutboundRel
  <2>4. AckAccount'
    BY <1>0, <2>1, <2>2 DEF AckAccount, Unspent, AckInv, a, OutboundRel
  <2> QED BY <2>3, <2>4 DEF AckInv
<1>2. ASSUME NEW offset \in 0..MaxOut, NEW len \in 1..MaxLen, Resend(offset, len)
      PROVE  AckInv'
  <2>1. len \in Nat /\ offset \in Nat
    OBVIOUS
  <2>2. /\ \/ analytics' = analytics
           \/ OutboundRel(analytics, analytics', SeqOf(LocalIsn, offset), len)
        /\ resent' = resent + 1
        /\ UNCHANGED <<nxt, top, late, prev, repeats>>
    BY <1>2, <2>1, SeenStep DEF Resend, AckInv
  <2>3. TypeOK'
    BY <1>0, <2>1, <2>2 DEF TypeOK, OutboundRel
  <2>4. AckAccount'
    BY <1>0, <2>1, <2>2 DEF AckAccount, Unspent, AckInv, a, OutboundRel
  <2> QED BY <2>3, <2>4 DEF AckInv
<1>3. ASSUME NEW offset \in 0..MaxIn, NEW len \in 0..MaxLen, NEW acked \in 0..nxt,
             Arrive(offset, len, acked)
      PROVE  AckInv'
  <2>1. offset \in Nat /\ len \in Nat /\ acked \in Nat /\ acked <= nxt
    BY <1>0
  <2> DEFINE k == SeqOf(LocalIsn, acked)
  <2>2. PICK m : InboundRel(analytics, m, SeqOf(RemoteIsn, offset), len)
                   /\ AckRel(m, analytics', k)
    BY <1>3, <2>1, ArriveStep DEF AckInv
  <2>3. /\ prev' = acked /\ UNCHANGED <<nxt, resent>>
        /\ repeats' = IF acked = prev THEN repeats + 1 ELSE repeats
        /\ top' \in Nat /\ late' \in Nat
    BY <1>0, <1>3, <2>1 DEF Arrive
  <2>4. TypeOK'
    BY <1>0, <2>1, <2>2, <2>3 DEF TypeOK, AckRel
  <2>5. prev # -1 /\ k = a.last_ack_received => prev = acked
    BY <1>0, <2>1, SeqOfInjective DEF AckInv, AckAccount
  <2> DEFINE x == analytics
             y == analytics'
  <2>6. /\ y.last_ack_received = k
        /\ \/ /\ x.last_ack_received = 0
              /\ y.duplicate_ack_count = x.duplicate_ack_count
              /\ y.fast_retransmit_count = x.fast_retransmit_count
           \/ /\ x.last_ack_received # 0 /\ k = x.last_ack_received
              /\ y.duplicate_ack_count = x.duplicate_ack_count + 1
              /\ y.fast_retransmit_count = x.fast_retransmit_count
                   + (IF x.duplicate_ack_count = 2 THEN 1 ELSE 0)
           \/ /\ x.last_ack_received # 0 /\ k # x.last_ack_received
              /\ y.duplicate_ack_count = 0
              /\ y.fast_retransmit_count = x.fast_retransmit_count
    BY <2>2 DEF InboundRel, AckRel
  <2>7. /\ x.last_ack_received \in Nat /\ x.duplicate_ack_count \in Nat
        /\ x.fast_retransmit_count \in Nat
    BY <1>0 DEF Analytics
  <2> HIDE DEF k
  <2>8. AckAccount'
    <3>1. prev' # -1 /\ prev' <= nxt' /\ nxt' <= MaxOut
      BY <1>0, <2>1, <2>3
    <3>2. y.last_ack_received = SeqOf(LocalIsn, prev')
      BY <2>3, <2>6 DEF k
    <3>3. /\ y.last_ack_received = 0 => y.duplicate_ack_count = 0
          /\ 3 * y.fast_retransmit_count +
               (IF y.duplicate_ack_count >= 3 THEN y.duplicate_ack_count - 3
                                              ELSE y.duplicate_ack_count) <= repeats'
      BY <1>0, <2>3, <2>5, <2>6, <2>7 DEF AckInv, AckAccount, Unspent, a
    <3> QED BY <3>1, <3>2, <3>3 DEF AckAccount, Unspent, a
  <2> QED BY <2>4, <2>8 DEF AckInv
<1>4. CASE UNCHANGED analyticsVars
  BY <1>4 DEF analyticsVars, AckInv, TypeOK, AckAccount, Unspent, a
<1> QED BY <1>1, <1>2, <1>3, <1>4 DEF AnalyticsNext

(* Every fast retransmit analyze_tcp_segment reports has three repeated    *)
(* acknowledgments of its own, wherever the numbers wrap, as long as a     *)
(* byte of the local stream is known by its sequence number.               *)
THEOREM FastRetransmitsEarned == MaxOut < Modulus => (AnalyticsSpec => []FastRetransmitEarned)
<1> SUFFICES ASSUME MaxOut < Modulus PROVE AnalyticsSpec => []FastRetransmitEarned
  OBVIOUS
<1>1. AckInv => FastRetransmitEarned
  BY DEF AckInv, AckAccount, Unspent, FastRetransmitEarned, TypeOK, a, Analytics
<1>2. AckInv /\ [AnalyticsNext]_analyticsVars => AckInv'
  BY AckNext
<1> QED BY InvInit, <1>1, <1>2, PTL DEF AnalyticsSpec

-----------------------------------------------------------------------------
(* Retransmissions and reorderings, with numbers that do not wrap.         *)

(* Nothing beyond what the local host sent is expected, so a segment below *)
(* the expectation repeats bytes.                                          *)
LEMMA SentNext ==
  ASSUME NoWrap, AckInv, SeqInv,
         NEW offset \in Nat, NEW len \in Nat, NEW seen \in BOOLEAN,
         Seen(SeqOf(LocalIsn, offset), len, seen),
         offset + len <= nxt', nxt' \in Nat, nxt' >= nxt, nxt' <= MaxOut,
         \/ offset = nxt /\ resent' = resent
         \/ resent' = resent + 1,
         UNCHANGED <<top, late>>
  PROVE  SeqInv'
<1> USE AnalyticsAssumption
<1>0. /\ analytics \in Analytics /\ nxt \in Nat /\ top \in Nat
      /\ resent \in Nat /\ late \in Nat /\ LocalIsn \in Nat /\ RemoteIsn \in Nat
      /\ MaxOut \in Nat /\ Modulus \in Nat /\ LocalIsn + MaxOut < Modulus
  BY DEF AckInv, TypeOK, NoWrap
<1> DEFINE s == LocalIsn + offset
           x == analytics
           y == analytics'
<1>1. SeqOf(LocalIsn, offset) = s /\ s \in Nat /\ WrappingAdd(s, len) = s + len
  BY <1>0, SeqOfNoWrap
<1>2. \/ y = x
      \/ OutboundRel(x, y, s, len)
  BY <1>1, SeenStep DEF AckInv
<1>3. /\ x.last_seq_outbound \in Nat /\ x.last_seq_inbound \in Nat
      /\ x.retransmit_count \in Nat /\ x.out_of_order_count \in Nat
  BY <1>0 DEF Analytics
<1>4. /\ y.last_seq_inbound = x.last_seq_inbound
      /\ y.out_of_order_count = x.out_of_order_count
      /\ y.last_seq_outbound \in {x.last_seq_outbound, s + len}
      /\ \/ y.retransmit_count = x.retransmit_count
         \/ /\ y.retransmit_count = x.retransmit_count + 1
            /\ x.last_seq_outbound # 0 /\ s < x.last_seq_outbound
  BY <1>1, <1>2 DEF OutboundRel
<1>5. Expectations'
  BY <1>0, <1>3, <1>4 DEF SeqInv, Expectations, a
<1>6. RetransmitSound'
  BY <1>0, <1>3, <1>4 DEF SeqInv, Expectations, RetransmitSound, a
<1>7. OutOfOrderSound'
  BY <1>4 DEF SeqInv, OutOfOrderSound
<1> QED BY <1>5, <1>6, <1>7 DEF SeqInv

(* Nothing beyond the furthest remote segment is expected either.          *)
LEMMA ArrivedNext ==
  ASSUME NoWrap, AckInv, SeqInv,
         NEW offset \in Nat, NEW len \in Nat, NEW acked \in Nat, acked <= nxt,
         Arrive(offset, len, acked)
  PROVE  SeqInv'
<1> USE AnalyticsAssumption
<1>0. /\ analytics \in Analytics /\ nxt \in Nat /\ top \in Nat
      /\ resent \in Nat /\ late \in Nat /\ LocalIsn \in Nat /\ RemoteIsn \in Nat
      /\ MaxIn \in Nat /\ Modulus \in Nat /\ RemoteIsn + MaxIn < Modulus
      /\ offset + len <= MaxIn
  BY DEF AckInv, TypeOK, NoWrap, Arrive
<1> DEFINE s == RemoteIsn + offset
           x == analytics
           y == analytics'
<1>1. SeqOf(RemoteIsn, offset) = s /\ s \in Nat /\ WrappingAdd(s, len) = s + len
  BY <1>0, SeqOfNoWrap
<1>2. PICK m : InboundRel(x, m, s, len) /\ AckRel(m, y, SeqOf(LocalIsn, acked))
  BY <1>1, ArriveStep DEF AckInv
<1>3. /\ x.last_seq_outbound \in Nat /\ x.last_seq_inbound \in Nat
      /\ x.retransmit_count \in Nat /\ x.out_of_order_count \in Nat
  BY <1>0 DEF Analytics
<1>4. /\ y.last_seq_outbound = x.last_seq_outbound
      /\ y.retransmit_count = x.retransmit_count
      /\ \/ y.last_seq_inbound = x.last_seq_inbound
         \/ len > 0 /\ y.last_seq_inbound = s + len
      /\ \/ y.out_of_order_count = x.out_of_order_count
         \/ /\ y.out_of_order_count = x.out_of_order_count + 1
            /\ x.last_seq_inbound # 0 /\ s < x.last_seq_inbound /\ len > 0
  BY <1>1, <1>2 DEF InboundRel, AckRel
<1>5. /\ UNCHANGED <<nxt, resent>>
      /\ top' = IF len > 0 /\ offset + len > top THEN offset + len ELSE top
      /\ late' = IF len > 0 /\ offset < top THEN late + 1 ELSE late
  BY DEF Arrive
<1>6. Expectations'
  BY <1>0, <1>3, <1>4, <1>5 DEF SeqInv, Expectations, a
<1>7. RetransmitSound'
  BY <1>4, <1>5 DEF SeqInv, RetransmitSound
<1>8. OutOfOrderSound'
  BY <1>0, <1>3, <1>4, <1>5 DEF SeqInv, Expectations, OutOfOrderSound, a
<1> QED BY <1>6, <1>7, <1>8 DEF SeqInv

LEMMA SeqNext ==
  ASSUME NoWrap, AckInv, SeqInv, [AnalyticsNext]_analyticsVars
  PROVE  SeqInv'
<1> USE AnalyticsAssumption
<1>0. nxt \in Nat /\ nxt <= MaxOut /\ resent \in Nat
  BY DEF AckInv, TypeOK, AckAccount
<1>1. ASSUME NEW len \in 1..MaxLen, NEW seen \in BOOLEAN, SendNew(len, seen)
      PROVE  SeqInv'
  <2>1. len \in Nat
    OBVIOUS
  <2>2. /\ Seen(SeqOf(LocalIsn, nxt), len, seen)
        /\ nxt' = nxt + len /\ nxt' <= MaxOut /\ resent' = resent
        /\ UNCHANGED <<top, late>>
    BY <1>1 DEF SendNew
  <2>3. nxt' \in Nat /\ nxt' >= nxt /\ nxt + len <= nxt'
    BY <1>0, <2>1, <2>2
  <2> QED BY <1>0, <2>1, <2>2, <2>3, SentNext
<1>2. ASSUME NEW offset \in 0..MaxOut, NEW len \in 1..MaxLen, Resend(offset, len)
      PROVE  SeqInv'
  <2>1. len \in Nat /\ offset \in Nat /\ TRUE \in BOOLEAN
    OBVIOUS
  <2>2. /\ Seen(SeqOf(LocalIsn, offset), len, TRUE)
        /\ offset + len <= nxt /\ nxt' = nxt /\ resent' = resent + 1
        /\ UNCHANGED <<top, late>>
    BY <1>2 DEF Resend
  <2>3. nxt' \in Nat /\ nxt' >= nxt /\ offset + len <= nxt' /\ nxt' <= MaxOut
    BY <1>0, <2>2
  <2> QED BY <2>1, <2>2, <2>3, SentNext
<1>3. ASSUME NEW offset \in 0..MaxIn, NEW len \in 0..MaxLen, NEW acked \in 0..nxt,
             Arrive(offset, len, acked)
      PROVE  SeqInv'
  <2>1. offset \in Nat /\ len \in Nat /\ acked \in Nat /\ acked <= nxt
    BY <1>0
  <2> QED BY <1>3, <2>1, ArrivedNext
<1>4. CASE UNCHANGED analyticsVars
  BY <1>4 DEF analyticsVars, SeqInv, Expectations, RetransmitSound, OutOfOrderSound, a
<1> QED BY <1>1, <1>2, <1>3, <1>4 DEF AnalyticsNext

LEMMA SeqAlways ==
  ASSUME NoWrap
  PROVE  AnalyticsSpec => []SeqInv
<1>1. MaxOut < Modulus
  BY AnalyticsAssumption DEF NoWrap
<1>2. AckInv /\ [AnalyticsNext]_analyticsVars => AckInv'
  BY <1>1, AckNext
<1>3. AckInv /\ SeqInv /\ [AnalyticsNext]_analyticsVars => SeqInv'
  BY SeqNext
<1> QED BY InvInit, <1>2, <1>3, PTL DEF AnalyticsSpec

(* While sequence numbers do not wrap, analyze_tcp_segment counts no       *)
(* retransmission but of bytes the local host has sent before, whatever    *)
(* segments the capture misses.                                            *)
THEOREM RetransmitsSound == NoWrap => (AnalyticsSpec => []RetransmitSound)
<1> SUFFICES ASSUME NoWrap PROVE AnalyticsSpec => []RetransmitSound
  OBVIOUS
<1>1. SeqInv => RetransmitSound
  BY DEF SeqInv
<1>2. AnalyticsSpec => []SeqInv
  BY SeqAlways
<1> QED BY <1>1, <1>2, PTL

(* Nor does it count a segment as out of order unless bytes further on in  *)
(* the stream were captured before it.                                     *)
THEOREM ReorderingsSound == NoWrap => (AnalyticsSpec => []OutOfOrderSound)
<1> SUFFICES ASSUME NoWrap PROVE AnalyticsSpec => []OutOfOrderSound
  OBVIOUS
<1>1. SeqInv => OutOfOrderSound
  BY DEF SeqInv
<1>2. AnalyticsSpec => []SeqInv
  BY SeqAlways
<1> QED BY <1>1, <1>2, PTL

=============================================================================
