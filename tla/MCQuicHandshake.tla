-------------------------- MODULE MCQuicHandshake ---------------------------
(***************************************************************************)
(* QuicHandshake for TLC: a ClientHello of seven bytes whose ALPN extension*)
(* precedes its server name, in three pieces, and one of other boundaries. *)
(***************************************************************************)
EXTENDS QuicHandshake

Piece(off, len) == [off |-> off, len |-> len]
Close(type, code) == [type |-> type, code |-> code]

Other(type) == [type |-> type, frames |-> <<>>, close |-> NoClose, cut |-> FALSE]
Initial(frames, close, cut) ==
  [type |-> "initial", frames |-> frames, close |-> close, cut |-> cut]

FirstPiece == Piece(0, 2)
SecondPiece == Piece(2, 3)
LastPiece == Piece(5, 2)
Straddling == Piece(1, 5)

SomePackets ==
  {Other(type) : type \in {"unreadable", "handshake", "one_rtt", "malformed"}}
  \cup {Initial(<<p>>, NoClose, FALSE) : p \in {FirstPiece, SecondPiece, LastPiece, Straddling}}
  \cup {Initial(<<p>>, NoClose, TRUE) : p \in {FirstPiece, SecondPiece}}
  \cup {Initial(<<LastPiece, FirstPiece>>, NoClose, FALSE)}
  \cup {Initial(<<>>, close, FALSE) :
          close \in {Close("transport", 0), Close("transport", 1), Close("application", 0)}}
=============================================================================
