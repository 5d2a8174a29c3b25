---------------------------- MODULE MCTimedReceiver ----------------------------
(***************************************************************************)
(* The datagrams of MCReceiver with a clock of two ticks.                  *)
(***************************************************************************)
EXTENDS TimedReceiver

CONSTANTS a, own, other, p1, dflt, garbled

MCObjects == {a}
MCObjectLen == [o \in MCObjects |-> 4]
MCTunings == {dflt}
MCBlockSizes == 1..2
MCNumTotal(kind, k) == k + 2
MCDecodable(k, ids) == 0..(k - 1) \subseteq ids \/ Cardinality(ids) > k
MCSessionIds == {own, other}
MCPeers == {p1}

RQ == new_spec(4, 2, "RaptorQ")
Pkt(id, esi) ==
    packet_message(id, [sbn |-> 0, esi |-> esi, symbol |-> EncodedSymbol(RQ, a, coded_id_of(RQ, esi))])
MCDatagrams ==
    {Malformed, session_meta_from_spec(own, RQ), session_meta_from_spec(other, RQ)}
    \cup {Pkt(own, esi) : esi \in 0..2} \cup {Pkt(other, 0)}
=============================================================================
