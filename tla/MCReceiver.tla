------------------------------ MODULE MCReceiver ------------------------------
(***************************************************************************)
(* A receiver facing every kind of datagram: metadata of its own session   *)
(* (twice the same, and once with another symbol size), of a foreign one,  *)
(* and of every invalid kind; packets that fit, duplicate, conflict, or    *)
(* fail each check.                                                        *)
(***************************************************************************)
EXTENDS PrintedReceiver

CONSTANTS a, b, own, other, p1, dflt, garbled

MCObjects == {a, b}
MCObjectLen == [o \in MCObjects |-> 6]
MCTunings == {dflt}
MCBlockSizes == 1..3
MCNumTotal(kind, k) == k + 2
\* The source symbols decode, and one symbol more than K always does.
MCDecodable(k, ids) == 0..(k - 1) \subseteq ids \/ Cardinality(ids) > k
MCSessionIds == {own, other}
MCPeers == {p1}

Meta(id, f, t) == session_meta_from_spec(id, new_spec(f, t, "RaptorQ"))
RQ == new_spec(6, 2, "RaptorQ")
Pkt(id, object, esi) ==
    packet_message(id, [sbn |-> 0, esi |-> esi,
                        symbol |-> EncodedSymbol(RQ, object, coded_id_of(RQ, esi))])

MCDatagrams ==
    {Malformed, Meta(own, 6, 2), Meta(own, 6, 6), Meta(other, 6, 2)}
    \cup {[Meta(own, 6, 2) EXCEPT !.version = 2], [Meta(own, 6, 2) EXCEPT !.codec = 7],
          Meta(own, 0, 2), Meta(own, 6, 0)}
    \cup {Pkt(own, a, esi) : esi \in 0..4} \cup {Pkt(own, b, 0), Pkt(other, a, 0)}
    \cup {[Pkt(own, a, 0) EXCEPT !.version = 2], [Pkt(own, a, 0) EXCEPT !.sbn = 1],
          [Pkt(own, a, 0) EXCEPT !.symbol.len = 6]}

\* Only valid dimensions, but of a codec this build has disabled.
DisabledCodecDatagrams ==
    {session_meta_from_spec(own, new_spec(6, 2, kind)) : kind \in CodecKind}
    \cup {Pkt(own, a, esi) : esi \in 0..2}
=============================================================================
