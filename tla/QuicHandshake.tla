--------------------------- MODULE QuicHandshake ----------------------------
(***************************************************************************)
(* What is known of one QUIC connection: the parser of dpi/quic.rs, which  *)
(* reads the packets of a datagram, the reassembler of CRYPTO frames of    *)
(* types.rs, and merge_quic_info of merge.rs, which adds what a datagram   *)
(* showed to what is known of the connection already.                      *)
(*                                                                         *)
(* The client's CRYPTO stream is its ClientHello.  It arrives in pieces,   *)
(* in any order, again, with other boundaries, or not at all, because the  *)
(* network and the packet processors reorder datagrams.  Byte i of the     *)
(* stream is the number i.  Of the ClientHello only the place of the       *)
(* server name and of the ALPN extension matters; of a server name whether *)
(* it is complete, cut off ("partial") or guessed from what looks like a   *)
(* host name ("guess", which the code takes for complete).  TLS info that  *)
(* is absent and TLS info without name and ALPN are the same to all of the *)
(* code.  Decryption is external: a packet is readable or it is not.       *)
(***************************************************************************)
EXTENDS Naturals, FiniteSets, SequencesExt

CONSTANTS
  Packets,        \* the packets: [type, frames, close, cut], see Parse
  MaxCoalesced,   \* bound: packets of one datagram (the code's own is 10)
  HelloLen,       \* the length of the ClientHello
  SniAt, NameAt, SniEnd,  \* its server name extension, and the name in it
  AlpnEnd,        \* the end of its ALPN extension
  Enough, EnoughPartial,  \* 100 and 50, the bytes worth parsing
  NearStart, AtStart,     \* 200 and 10, how far a fragment is from the start
  MaxBufferSize,  \* max_buffer_size
  NoReassembler, NoClose, NoInfo

(* A piece of the stream.  An empty CRYPTO frame never gets this far.      *)
Fragment == [off : Nat, len : Nat \ {0}]

(* What a name is, and TLS info.                                           *)
TlsInfo == [sni : {"none", "partial", "full", "guess"}, alpn : BOOLEAN]

(* The CryptoFrameReassembler: the fragments by offset, the highest        *)
(* contiguous byte, the buffered size and the cached TLS info.             *)
CryptoFrameReassembler ==
  [fragments : SUBSET Fragment, contiguous : Nat, size : Nat, cached : TlsInfo]

QuicCloseInfo == [type : {"transport", "application"}, code : Nat]

QuicConnectionState ==
  {"Unknown", "Initial", "Handshaking", "Connected", "Draining", "Closed"}

QuicInfo ==
  [state : QuicConnectionState, tls : TlsInfo,
   reassembler : CryptoFrameReassembler \cup {NoReassembler},
   close : QuicCloseInfo \cup {NoClose}]

Packet ==
  [type : {"initial", "unreadable", "handshake", "one_rtt", "malformed"},
   frames : Seq(Fragment), close : QuicCloseInfo \cup {NoClose}, cut : BOOLEAN]

ASSUME QuicHandshakeAssumption ==
  /\ Packets \subseteq Packet
  /\ \A pkt \in Packets : pkt.close # NoClose => pkt.type = "initial"
  /\ NoReassembler \notin CryptoFrameReassembler /\ NoInfo \notin QuicInfo
  /\ MaxCoalesced \in Nat \ {0}
  /\ {HelloLen, SniAt, NameAt, SniEnd, AlpnEnd, Enough, EnoughPartial, NearStart,
      AtStart, MaxBufferSize} \subseteq Nat
  /\ SniAt < NameAt /\ NameAt < SniEnd /\ SniEnd <= HelloLen /\ AlpnEnd <= HelloLen
  /\ EnoughPartial <= Enough /\ Enough <= HelloLen

VARIABLES
  info,      \* the connection's QuicInfo
  arrived,   \* history: the pieces that reached the connection
  read,      \* history: those of them in a packet that was read to its end
  closing    \* history: whether a CONNECTION_CLOSE was read

vars == <<info, arrived, read, closing>>

-----------------------------------------------------------------------------
(* TlsInfo *)

Tls(sni, alpn) == [sni |-> sni, alpn |-> alpn]
NoTls == Tls("none", FALSE)

(* is_complete_sni: there is a name, without the mark of a partial one.    *)
Complete(tls) == tls.sni \in {"full", "guess"}

(* Any name for none, and a complete one for a partial one.                *)
Better(old, new) == \/ old.sni = "none"
                    \/ old.sni = "partial" /\ Complete(new)

-----------------------------------------------------------------------------
(* The operations of the reassembler.                                      *)

End(f) == f.off + f.len
Overlap(f, g) == f.off < End(g) /\ End(f) > g.off

NewReassembler == [fragments |-> {}, contiguous |-> 0, size |-> 0, cached |-> NoTls]

(* BTreeMap iterates by offset.                                            *)
ByOffset(fs) ==
  CHOOSE s \in [1..Cardinality(fs) -> fs] :
    Range(s) = fs /\ \A i, j \in DOMAIN s : i < j => s[i].off < s[j].off

(* Faulty: one step at most, so later fragments that wait are forgotten.   *)
BugUpdateContiguousOffset(r) ==
  LET next == {f \in r.fragments : f.off = r.contiguous}
  IN  [r EXCEPT !.contiguous = IF next = {} THEN @ ELSE End(CHOOSE f \in next : TRUE)]

(* A fragment that reaches back to the current offset moves it to its end. *)
Advance(current, f) == IF f.off <= current /\ End(f) > current THEN End(f) ELSE current

update_contiguous_offset(r) ==
  [r EXCEPT !.contiguous = FoldLeft(Advance, @, ByOffset(r.fragments))]

(* A fragment beyond the limit or one that overlaps is left out.           *)
add_fragment(r, f) ==
  IF r.size + f.len > MaxBufferSize \/ (\E g \in r.fragments : Overlap(f, g)) THEN r
  ELSE update_contiguous_offset([r EXCEPT !.fragments = @ \cup {f}, !.size = @ + f.len])

(* A fragment adds what it has beyond the data, up to the limit.           *)
Bytes(from, to) == [i \in 1..(to - from) |-> from + i - 1]
Extend(limit, data, f) ==
  IF f.off <= Len(data) /\ End(f) > Len(data) /\ Len(data) < limit
  THEN data \o Bytes(Len(data), End(f)) ELSE data

(* The bytes from offset 0 on, of the fragments that follow one another.   *)
get_contiguous_data(r) ==
  FoldLeft(LAMBDA data, f : Extend(r.contiguous, data, f), <<>>, ByOffset(r.fragments))

-----------------------------------------------------------------------------
(* What can be made of the stream, or of fragments of it.                  *)

(* parse_partial_tls_handshake, of the first n bytes.                      *)
ParseHello(n, allow_partial) ==
  Tls(IF n >= SniEnd THEN "full"
      ELSE IF allow_partial /\ n > NameAt THEN "partial" ELSE "none",
      n >= AlpnEnd)

(* A piece of the stream in which a scan finds the name's extension.       *)
Shows(f) == f.off <= SniAt /\ End(f) > NameAt
ShownName(f) == Tls(IF End(f) >= SniEnd THEN "full" ELSE "partial", FALSE)

try_extract_from_contiguous(r, allow_partial) ==
  LET n == Len(get_contiguous_data(r))
  IN  IF n > 0 /\ n >= (IF allow_partial THEN EnoughPartial ELSE Enough)
      THEN ParseHello(n, allow_partial) ELSE NoTls

(* Only the fragment at offset 0 starts with a handshake header.           *)
try_extract_from_fragments(r, allow_partial) ==
  LET first == {f \in r.fragments : f.off = 0}
  IN  IF first = {} THEN NoTls
      ELSE ParseHello((CHOOSE f \in first : TRUE).len, allow_partial)

(* try_reconstruct_sni_from_fragments: the extension in a fragment near    *)
(* the start; else anything like a host name, where guess is TRUE.         *)
Reconstruct(r, guess) ==
  LET shown == {f \in r.fragments : f.off <= NearStart /\ Shows(f)}
  IN  IF r.size < Enough THEN NoTls
      ELSE IF shown # {} THEN ShownName(CHOOSE f \in shown : TRUE)
      ELSE IF guess /\ \E f \in r.fragments : f.off <= AtStart THEN Tls("guess", FALSE)
      ELSE NoTls

(* The extension in any fragment, then in the contiguous data.             *)
try_extract_greedy_from_reassembler(r) ==
  LET start == [off |-> 0, len |-> Len(get_contiguous_data(r))]
      shown == {f \in r.fragments : Shows(f)}
  IN  IF shown # {} THEN ShownName(CHOOSE f \in shown : TRUE)
      ELSE IF Shows(start) THEN ShownName(start) ELSE NoTls

(* Faulty: a name is taken from the cache though it is partial.            *)
BugUsableCache(r) == r.cached # NoTls

(* The cached name, unless it is partial.                                  *)
UsableCache(r) == Complete(r.cached)

(* Strategy after strategy; complete names are cached, and so is whatever  *)
(* the last strategy finds.                                                *)
try_extract_tls_from_reassembler(r, allow_partial, guess) ==
  LET found == <<try_extract_from_contiguous(r, allow_partial),
                 try_extract_from_fragments(r, allow_partial),
                 Reconstruct(r, guess)>>
      hits == {i \in DOMAIN found : found[i] # NoTls}
      first == found[Min(hits)]
      greedy == try_extract_greedy_from_reassembler(r)
      Cached(t) == [r EXCEPT !.cached = t]
  IN  IF UsableCache(r) THEN [tls |-> r.cached, reassembler |-> r]
      ELSE IF hits # {}
      THEN [tls |-> first, reassembler |-> IF Complete(first) THEN Cached(first) ELSE r]
      ELSE [tls |-> greedy, reassembler |-> IF greedy # NoTls THEN Cached(greedy) ELSE r]

-----------------------------------------------------------------------------
(* One datagram.                                                           *)

quic_state_priority ==
  [Unknown |-> 0, Initial |-> 1, Handshaking |-> 2, Connected |-> 3, Draining |-> 4,
   Closed |-> 5]

(* Faulty: the later state wins.                                           *)
BugProgress(old, new) == new

(* A state only gives way to one of a higher priority.                     *)
Progress(old, new) ==
  IF quic_state_priority[new] > quic_state_priority[old] THEN new ELSE old

(* The state a packet of a type shows.                                     *)
StateOfType ==
  [initial |-> "Initial", unreadable |-> "Initial", handshake |-> "Handshaking",
   one_rtt |-> "Connected", malformed |-> "Unknown"]

(* Parse a packet.  A readable Initial carries CRYPTO frames, perhaps a    *)
(* CONNECTION_CLOSE, and may break off: what came before is kept and no    *)
(* name is looked for.                                                     *)
Parse(pkt, guess) ==
  LET reassembler == FoldLeft(add_fragment, NewReassembler, pkt.frames)
      extracted == try_extract_tls_from_reassembler(reassembler, FALSE, guess)
      extract == pkt.frames # <<>> /\ ~pkt.cut
  IN  IF pkt.type # "initial"
      THEN [state |-> StateOfType[pkt.type], tls |-> NoTls, reassembler |-> NoReassembler,
            close |-> NoClose]
      ELSE [state |-> IF pkt.close = NoClose THEN "Initial"
                      ELSE IF pkt.close.code = 0 THEN "Draining" ELSE "Closed",
            tls |-> IF extract THEN extracted.tls ELSE NoTls,
            reassembler |-> IF extract THEN extracted.reassembler ELSE reassembler,
            close |-> pkt.close]

(* merge_quic_packet_info: the packets after the first one add a state, a  *)
(* better name and the first reassembler, and no close information.        *)
merge_quic_packet_info(old, new) ==
  [old EXCEPT
     !.state = Progress(@, new.state),
     !.tls = IF \/ ~Complete(@) /\ Complete(new.tls)
                \/ @.sni = "none" /\ new.tls.sni # "none"
                \/ @ = NoTls
             THEN new.tls ELSE @,
     !.reassembler = IF @ = NoReassembler THEN new.reassembler ELSE @]

parse_quic_packet(pkts, guess) ==
  FoldLeft(LAMBDA old, pkt : merge_quic_packet_info(old, Parse(pkt, guess)),
           Parse(Head(pkts), guess), Tail(pkts))

-----------------------------------------------------------------------------
(* merge_quic_info *)

(* The connection's reassembler takes the new fragments; a name that is    *)
(* missing or partial is looked for again, a partial one only as a last    *)
(* resort; and the new reassembler's cached name is used if it is better.  *)
MergeReassembler(old, new, guess) ==
  LET merged == FoldLeft(add_fragment, old.reassembler, ByOffset(new.reassembler.fragments))
      whole == try_extract_tls_from_reassembler(merged, FALSE, guess)
      extracted == IF whole.tls # NoTls THEN whole
                   ELSE try_extract_tls_from_reassembler(whole.reassembler, TRUE, guess)
      retry == ~Complete(old.tls)
      tls == IF retry /\ extracted.tls # NoTls THEN extracted.tls ELSE old.tls
      cached == new.reassembler.cached
  IN  [old EXCEPT
         !.reassembler = IF retry THEN extracted.reassembler ELSE merged,
         !.tls = IF cached # NoTls /\ Better(tls, cached)
                 THEN cached ELSE tls]

AddReassembler(old, new, guess) ==
  IF new.reassembler = NoReassembler THEN old
  ELSE IF old.reassembler = NoReassembler
  THEN [old EXCEPT !.reassembler = new.reassembler]
  ELSE MergeReassembler(old, new, guess)

(* Faulty: the later complete name wins.                                   *)
BugMergeTls(old, new) ==
  Tls(IF old.sni = "none" \/ Complete(new) THEN new.sni ELSE old.sni, old.alpn \/ new.alpn)

MergeTls(old, new) ==
  Tls(IF Better(old, new) THEN new.sni ELSE old.sni,
      old.alpn \/ new.alpn)

(* CONNECTION_CLOSE is final: the state is the one it stands for.          *)
StateAfterClose(close) ==
  IF close.type = "transport" /\ close.code = 0 THEN "Draining" ELSE "Closed"

merge_quic_info(old, new, guess) ==
  LET added == AddReassembler(old, new, guess)
  IN  [added EXCEPT
         !.tls = MergeTls(@, new.tls),
         !.close = IF new.close # NoClose THEN new.close ELSE @,
         !.state = IF new.close # NoClose THEN StateAfterClose(new.close)
                   ELSE Progress(@, new.state)]

(* Connection::get_quic_timeout, in seconds, without an idle timeout.      *)
StateTimeout ==
  [Unknown |-> 120, Initial |-> 60, Handshaking |-> 60, Connected |-> 180, Draining |-> 10,
   Closed |-> 1]

get_quic_timeout(i) ==
  IF i.close = NoClose THEN StateTimeout[i.state]
  ELSE IF i.close.type = "transport" THEN 10 ELSE 1

-----------------------------------------------------------------------------
Init == info = NoInfo /\ arrived = {} /\ read = {} /\ closing = FALSE

(* The first readable packet of a datagram, if there is one: the pieces in *)
(* the others are lost with their reassemblers.                            *)
Carrier(pkts) ==
  {pkts[i] : i \in {i \in DOMAIN pkts :
     pkts[i].type = "initial" /\ \A j \in 1..(i - 1) : pkts[j].type # "initial"}}

Pieces(pkts) == UNION {Range(pkt.frames) : pkt \in pkts}

(* A datagram is parsed, and merged into the connection it belongs to.     *)
Datagram(pkts) ==
  \E early, late \in BOOLEAN :
    LET new == parse_quic_packet(pkts, early)
    IN  /\ info' = IF info = NoInfo THEN new ELSE merge_quic_info(info, new, late)
        /\ arrived' = arrived \cup Pieces(Carrier(pkts))
        /\ read' = read \cup Pieces({pkt \in Carrier(pkts) : ~pkt.cut})
        /\ closing' = (closing \/ \E i \in DOMAIN pkts : pkts[i].close # NoClose)

(* The connection is removed, and the next datagram starts a new one.      *)
RemoveConnection ==
  /\ info # NoInfo
  /\ info' = NoInfo /\ arrived' = {} /\ read' = {} /\ closing' = FALSE

(* A packet with a short header, or one that cannot be parsed, takes the   *)
(* rest of its datagram.                                                   *)
Datagrams ==
  {pkts \in SeqOf(Packets, MaxCoalesced) \ {<<>>} :
     \A i \in 1..(Len(pkts) - 1) : pkts[i].type \notin {"one_rtt", "malformed"}}

Next == RemoveConnection \/ \E pkts \in Datagrams : Datagram(pkts)

Spec == Init /\ [][Next]_vars

-----------------------------------------------------------------------------
(* Properties.                                                             *)

(* Reassembly does not depend on the order of arrival: the fragments kept  *)
(* are disjoint and accounted for within the limit, and the contiguous     *)
(* offset and data are the longest prefix of the stream they cover.        *)
Disjoint(fs) == \A f, g \in fs : f # g => ~Overlap(f, g)
Occupied(fs) == UNION {f.off..(End(f) - 1) : f \in fs}
Buffered(fs) == Cardinality(Occupied(fs))
Covered(fs, n) == \A i \in 0..(n - 1) : \E f \in fs : f.off <= i /\ i < End(f)

Exact(r) ==
  /\ Disjoint(r.fragments)
  /\ r.size = Buffered(r.fragments) /\ r.size <= MaxBufferSize
  /\ Covered(r.fragments, r.contiguous) /\ ~Covered(r.fragments, r.contiguous + 1)

ReassemblyExact ==
  info # NoInfo /\ info.reassembler # NoReassembler =>
    LET r == info.reassembler
    IN  Exact(r) /\ get_contiguous_data(r) = [i \in 1..r.contiguous |-> i - 1]

(* Once the whole ClientHello was read, in whatever order, the name is not *)
(* missing or partial, whatever partial names were found and cached along  *)
(* the way.  Pieces with other boundaries can overlap others and be left   *)
(* out, so there are none here, and the pieces fit in the buffer.          *)
HelloRead ==
  /\ Covered(read, HelloLen)
  /\ Disjoint(arrived) /\ Buffered(arrived) <= MaxBufferSize
  => Complete(info.tls)

(* A complete name stays: no later datagram replaces it.  A partial one    *)
(* gives way to a better one, or to TLS info that has ALPN and no name.    *)
NameFinal ==
  [][info # NoInfo /\ info' # NoInfo =>
       /\ Complete(info.tls) => info'.tls.sni = info.tls.sni
       /\ info.tls.sni = "partial" => info'.tls.sni # "none" \/ info'.tls.alpn]_vars

(* From the first CONNECTION_CLOSE on the connection is given up within    *)
(* 10 seconds, though the close of a coalesced packet is not recorded and  *)
(* late packets of the handshake or the open connection follow.            *)
CloseHastens == closing => get_quic_timeout(info) <= 10

=============================================================================
