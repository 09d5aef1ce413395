------------------------ MODULE MCConnectionTracker -------------------------
(***************************************************************************)
(* Instances of ConnectionTracker for TLC: the packet sets of the runs.    *)
(***************************************************************************)
EXTENDS ConnectionTracker

CONSTANTS k1, k2, k3, c1, c2

Packet(k, kind, c, closing) ==
  [key |-> k, kind |-> kind, cid |-> c, closing |-> closing]

(* A QUIC connection that migrates from k1 to k2 and another one: with     *)
(* room for one connection, enough to be dropped with a mapping left.      *)
RacingPackets ==
  {Packet(k1, "quic", c1, FALSE), Packet(k2, "quic", c1, FALSE),
   Packet(k3, "quic", c2, FALSE)}

(* A TCP handshake on k1, and a QUIC connection that migrates from k1 to   *)
(* k2 and ends there.                                                      *)
MixedPackets ==
  {Packet(k1, kind, NoCid, FALSE) : kind \in {"syn", "synack"}}
    \cup {Packet(k1, "quic", c1, FALSE), Packet(k2, "quic", c1, TRUE)}

=============================================================================
