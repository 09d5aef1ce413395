-------------------------- MODULE MCProcessLookup ---------------------------
(***************************************************************************)
(* ProcessLookup for TLC: words of two bytes, one for an IPv4 address and  *)
(* two for an IPv6 address, and one connection of every kind.              *)
(***************************************************************************)
EXTENDS ProcessLookup, TLC

Unspecified4 == << <<0, 0>> >>
Unspecified6 == << <<0, 0>>, <<0, 0>> >>
Placeholder4 == << <<7, 6>> >>
Host4 == << <<1, 2>> >>
Remote4 == << <<3, 4>> >>
Host6 == << <<1, 2>>, <<0, 1>> >>
Remote6 == << <<3, 4>>, <<0, 2>> >>

Conn4(proto, lport, rport) ==
  [family |-> "v4", proto |-> proto, laddr |-> Host4, lport |-> lport,
   raddr |-> Remote4, rport |-> rport]
Conn6(proto, lport, rport) ==
  [family |-> "v6", proto |-> proto, laddr |-> Host6, lport |-> lport,
   raddr |-> Remote6, rport |-> rport]

(* A client and a server of one port, so that a mix-up of the two ports    *)
(* would show, and a client of every other kind.                           *)
Server == {Conn4("tcp", 2, 1)}
OneOfEach ==
  Server \cup {Conn4("tcp", 1, 2), Conn4("udp", 1, 2), Conn4("icmp", 1, 0),
              Conn6("tcp", 1, 2), Conn6("udp", 1, 2), Conn6("icmp", 1, 0)}
Styles == [c \in OneOfEach |->
             IF c.proto = "tcp" /\ c \notin Server THEN "connected" ELSE "unbound"]
ASSUME AddressesAssumption == Specified /\ NoMirrors

Symmetric == Permutations(Pids)
=============================================================================
