---------------------------- MODULE TcpObserver -----------------------------
(***************************************************************************)
(* The TCP state rustnet shows for a connection (update_tcp_state in       *)
(* crates/rustnet-core/src/network/merge.rs), next to the connection it    *)
(* watches.                                                                *)
(*                                                                         *)
(* The two endpoints and the network between them are not code of the      *)
(* repository: they are the environment, two RFC 793 endpoints joined by   *)
(* FIFO channels.  The capture is on the local host.  It sees a segment of *)
(* the local endpoint when it is sent and one of the remote endpoint when  *)
(* it is received; every one of them is folded into obs.                   *)
(***************************************************************************)
EXTENDS Naturals, Sequences

CONSTANTS
  Openings,  \* who may call connect: the sets of openers to look at
  MaxData,   \* bound: data segments per endpoint
  MaxQueue   \* bound: segments in flight in one direction

Ends == {"local", "remote"}

ASSUME ObserverAssumption ==
  /\ Openings \subseteq (SUBSET Ends) \ {{}}
  /\ MaxData \in Nat
  /\ MaxQueue \in Nat \ {0}

TcpStates == {"Unknown", "SynSent", "SynReceived", "Established", "FinWait1",
              "FinWait2", "CloseWait", "Closing", "LastAck", "TimeWait", "Closed"}

(* The flags of a segment, whether it acknowledges the receiver's FIN, and *)
(* whether it carries data.                                                *)
Segment == [syn : BOOLEAN, ack : BOOLEAN, fin : BOOLEAN, rst : BOOLEAN,
            acksFin : BOOLEAN, data : BOOLEAN]

VARIABLES
  openers, \* external: the endpoints that call connect; the others listen
  tcb,   \* external: the RFC 793 state of each endpoint
  wire,  \* external: the segments on their way to each endpoint
  sent,  \* external: how many data segments each endpoint has sent
  obs    \* the observed state, Connection.protocol_state; NoState before

vars == <<openers, tcb, wire, sent, obs>>

NoState == "none"

-----------------------------------------------------------------------------
(* The observer.                                                           *)

(* Faulty: a SYN-ACK that leaves establishes the connection.               *)
BugUpdateTcpStateEager(s, f, out) ==
  CASE f.rst -> "Closed"
    [] ~f.rst /\ s = "SynReceived" /\ f.ack /\ out -> "Established"
    [] ~f.rst /\ s = "Unknown" /\ f.syn /\ ~f.ack -> IF out THEN "SynSent"
                                                          ELSE "SynReceived"
    [] OTHER -> s

(* Faulty: a FIN that arrives does not end an established connection.      *)
BugUpdateTcpStateIgnoresFin(s, f, out) ==
  CASE f.rst -> "Closed"
    [] ~f.rst /\ s = "Unknown" /\ f.syn /\ ~f.ack -> IF out THEN "SynSent"
                                                          ELSE "SynReceived"
    [] ~f.rst /\ s = "SynSent" /\ f.syn /\ f.ack /\ ~out -> "Established"
    [] ~f.rst /\ s = "Established" /\ f.fin /\ out -> "FinWait1"
    [] OTHER -> s

(* Faulty: any plain ACK establishes the connection.                       *)
BugUpdateTcpStateAckEstablishes(s, f, out) ==
  CASE f.rst -> "Closed"
    [] ~f.rst /\ s = "Unknown" /\ f.syn /\ ~f.ack -> IF out THEN "SynSent"
                                                          ELSE "SynReceived"
    [] ~f.rst /\ f.ack /\ ~f.syn /\ ~f.fin -> "Established"
    [] ~f.rst /\ s = "Established" /\ f.fin -> "FinWait1"
    [] OTHER -> s

(* update_tcp_state: the arms of the match.  No arm but the last looks at  *)
(* a segment with RST.                                                     *)
UpdateTcpState(s, f, out) ==
  LET on(syn, ack, fin) == ~f.rst /\ f.syn = syn /\ f.ack = ack /\ f.fin = fin
      plainAck == on(FALSE, TRUE, FALSE)
      anyFin == on(FALSE, TRUE, TRUE) \/ on(FALSE, FALSE, TRUE)
  IN CASE f.rst -> "Closed"
       [] s = "Unknown" /\ on(TRUE, FALSE, FALSE)
            -> IF out THEN "SynSent" ELSE "SynReceived"
       [] s = "SynSent" /\ on(TRUE, TRUE, FALSE) /\ ~out -> "Established"
       [] s = "SynReceived" /\ plainAck /\ out -> "Established"
       [] s = "Unknown" /\ (plainAck \/ on(FALSE, TRUE, TRUE)) -> "Established"
       [] s = "Established" /\ anyFin -> IF out THEN "FinWait1" ELSE "CloseWait"
       [] s = "FinWait1" /\ plainAck /\ ~out -> "FinWait2"
       [] s = "FinWait1" /\ anyFin /\ ~out -> "Closing"
       [] s = "FinWait2" /\ anyFin /\ ~out -> "TimeWait"
       [] s = "CloseWait" /\ anyFin /\ out -> "LastAck"
       [] s = "LastAck" /\ plainAck /\ ~out -> "Closed"
       [] s = "Closing" /\ plainAck /\ ~out -> "TimeWait"
       [] OTHER -> s

(* create_connection_from_packet starts from Unknown, merge_packet_into_   *)
(* connection from the state it finds.                                     *)
Observe(f, out) ==
  obs' = UpdateTcpState(IF obs = NoState THEN "Unknown" ELSE obs, f, out)

-----------------------------------------------------------------------------
(* The endpoints.                                                          *)

Peer(e) == IF e = "local" THEN "remote" ELSE "local"

Flags(names) ==
  [syn |-> "syn" \in names, ack |-> "ack" \in names, fin |-> "fin" \in names,
   rst |-> "rst" \in names, acksFin |-> "acksFin" \in names,
   data |-> "data" \in names]

(* States in which the peer's FIN has been received: every later segment   *)
(* acknowledges it.                                                        *)
AcksFin(s) == IF s \in {"CLOSE-WAIT", "LAST-ACK", "CLOSING", "TIME-WAIT"}
              THEN {"acksFin"} ELSE {}

(* e sends one segment on its own account.  The capture sees it if e is    *)
(* local.                                                                  *)
Send(e, f) ==
  /\ Len(wire[Peer(e)]) < MaxQueue
  /\ wire' = [wire EXCEPT ![Peer(e)] = Append(@, f)]
  /\ IF e = "local" THEN Observe(f, TRUE) ELSE UNCHANGED obs

Connect(e) ==
  /\ e \in openers
  /\ tcb[e] = "CLOSED0"
  /\ tcb' = [tcb EXCEPT ![e] = "SYN-SENT"]
  /\ Send(e, Flags({"syn"}))
  /\ UNCHANGED <<openers, sent>>

SendData(e) ==
  /\ tcb[e] \in {"ESTABLISHED", "CLOSE-WAIT"}
  /\ sent[e] < MaxData
  /\ sent' = [sent EXCEPT ![e] = @ + 1]
  /\ Send(e, Flags({"ack", "data"} \cup AcksFin(tcb[e])))
  /\ UNCHANGED <<openers, tcb>>

Close(e) ==
  /\ tcb[e] \in {"ESTABLISHED", "CLOSE-WAIT"}
  /\ tcb' = [tcb EXCEPT ![e] = IF tcb[e] = "ESTABLISHED" THEN "FIN-WAIT-1"
                                                         ELSE "LAST-ACK"]
  /\ Send(e, Flags({"fin", "ack"} \cup AcksFin(tcb[e])))
  /\ UNCHANGED <<openers, sent>>

Abort(e) ==
  /\ tcb[e] \in {"ESTABLISHED", "FIN-WAIT-1", "FIN-WAIT-2", "CLOSE-WAIT"}
  /\ tcb' = [tcb EXCEPT ![e] = "CLOSED"]
  /\ Send(e, Flags({"rst"}))
  /\ UNCHANGED <<openers, sent>>

(* The state an endpoint in state s goes to when it receives f.            *)
OnReceive(s, f) ==
  CASE f.rst -> "CLOSED"
    [] ~f.rst /\ s = "LISTEN" /\ f.syn /\ ~f.ack -> "SYN-RECEIVED"
    [] ~f.rst /\ s = "SYN-SENT" /\ f.syn -> IF f.ack THEN "ESTABLISHED"
                                                    ELSE "SYN-RECEIVED"
    [] ~f.rst /\ s = "SYN-RECEIVED" /\ f.ack -> IF f.fin THEN "CLOSE-WAIT"
                                                        ELSE "ESTABLISHED"
    [] ~f.rst /\ s = "ESTABLISHED" /\ f.fin -> "CLOSE-WAIT"
    [] ~f.rst /\ s = "FIN-WAIT-1" /\ f.fin -> IF f.acksFin THEN "TIME-WAIT"
                                                          ELSE "CLOSING"
    [] ~f.rst /\ s = "FIN-WAIT-1" /\ ~f.fin /\ f.acksFin -> "FIN-WAIT-2"
    [] ~f.rst /\ s = "FIN-WAIT-2" /\ f.fin -> "TIME-WAIT"
    [] ~f.rst /\ s = "CLOSING" /\ f.acksFin -> "TIME-WAIT"
    [] ~f.rst /\ s = "LAST-ACK" /\ f.acksFin -> "CLOSED"
    [] OTHER -> s

(* What it answers: a SYN with SYN-ACK, a SYN-ACK, FIN or data with ACK.   *)
Reply(s, f) ==
  IF f.rst \/ s \in {"CLOSED0", "CLOSED"} THEN {}
  ELSE IF f.syn /\ ~f.ack THEN {Flags({"syn", "ack"})}
  ELSE IF f.syn \/ f.fin \/ f.data
       THEN {Flags({"ack"} \cup AcksFin(OnReceive(s, f)))}
       ELSE {}

(* e receives the next segment and answers at once.  The capture sees both *)
(* on the local host, in this order.                                       *)
Receive(e) ==
  /\ wire[e] # << >>
  /\ LET f == Head(wire[e])
         r == Reply(tcb[e], f)
         o == IF obs = NoState THEN "Unknown" ELSE obs
         seen == UpdateTcpState(o, f, FALSE)
     IN /\ tcb' = [tcb EXCEPT ![e] = OnReceive(tcb[e], f)]
        /\ r # {} => Len(wire[Peer(e)]) < MaxQueue
        /\ wire' = [wire EXCEPT
                      ![e] = Tail(@),
                      ![Peer(e)] = IF r = {} THEN @
                                   ELSE Append(@, CHOOSE x \in r : TRUE)]
        /\ obs' = CASE e = "remote" -> obs
                    [] e = "local" /\ r = {} -> seen
                    [] OTHER -> UpdateTcpState(seen, CHOOSE x \in r : TRUE, TRUE)
  /\ UNCHANGED <<openers, sent>>

Init ==
  /\ openers \in Openings
  /\ tcb = [e \in Ends |-> IF e \in openers THEN "CLOSED0" ELSE "LISTEN"]
  /\ wire = [e \in Ends |-> << >>]
  /\ sent = [e \in Ends |-> 0]
  /\ obs = NoState

Next ==
  \E e \in Ends : Connect(e) \/ SendData(e) \/ Close(e) \/ Abort(e) \/ Receive(e)

Spec == Init /\ [][Next]_vars

-----------------------------------------------------------------------------
(* Properties.                                                             *)

(* How far a connection has come.                                          *)
Rank(s) ==
  CASE s = NoState -> 0
    [] s = "Unknown" -> 1
    [] s \in {"SynSent", "SynReceived"} -> 2
    [] s = "Established" -> 3
    [] s \in {"FinWait1", "CloseWait"} -> 4
    [] s \in {"FinWait2", "Closing", "LastAck"} -> 5
    [] s = "TimeWait" -> 6
    [] OTHER -> 7

(* update_tcp_state never takes a connection back, whatever segments come  *)
(* in whatever order; in particular nothing leaves Closed.                 *)
ObservedProgress == [][Rank(obs') >= Rank(obs)]_vars

(* rustnet shows Established only after the handshake of the local         *)
(* endpoint is complete.                                                   *)
NoEarlyEstablished ==
  obs = "Established" =>
    tcb["local"] \notin {"CLOSED0", "LISTEN", "SYN-SENT", "SYN-RECEIVED"}

(* When the local endpoint is done with a connection that it opened,       *)
(* rustnet shows a state of its end, whose timeout is short.               *)
CloseObserved ==
  openers = {"local"} /\ tcb["local"] \in {"TIME-WAIT", "CLOSED"} =>
    obs \in {"FinWait2", "Closing", "LastAck", "TimeWait", "Closed"}
=============================================================================
