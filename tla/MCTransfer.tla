------------------------------ MODULE MCTransfer ------------------------------
(***************************************************************************)
(* Instances of Transfer.  Every job has symbols of two bytes; the code    *)
(* needs the source symbols, or one symbol more than there are of them.    *)
(***************************************************************************)
EXTENDS Transfer

CONSTANTS a, b, c, id1, id2, elsewhere, dflt, custom, garbled

MCObjects == {a, b, c}
MCObjectLen == [o \in MCObjects |-> IF o = c THEN 2 ELSE 4]
MCTunings == {dflt, custom}
MCBlockSizes == 1..2
MCNumTotal(kind, k) == k + 2
MCDecodable(k, ids) == 0..(k - 1) \subseteq ids \/ Cardinality(ids) > k
MCSessionIds == {id1, id2}

MCStrays == {[msg |-> Malformed, src |-> elsewhere]}

\* Metadata of the first session too, of another version of the protocol.
MCVersionStrays ==
    MCStrays \cup {[msg |-> [meta["first"] EXCEPT !.version = 2, !.transfer_length_f = 2],
                    src |-> elsewhere]}

\* What the receiver can be sent.
MCDatagrams ==
    {meta[s] : s \in Senders} \cup UNION {{packets[s][i] : i \in DOMAIN packets[s]} : s \in Senders}
    \cup {Malformed} \cup {d.msg : d \in Strays}
MCPeers == Senders \cup {elsewhere}

BaseJob ==
    [session_id |-> id1, spec |-> new_spec(4, 2, "RaptorQ"), object |-> a,
     repair_count |-> 1, repair_rounds |-> 1, progress |-> FALSE]

\* Two senders of different objects in different sessions, both RFC 6330 and RFC 5053.
TwoSessions ==
    [s \in {"first", "second"} |->
        IF s = "first" THEN BaseJob
        ELSE [BaseJob EXCEPT !.session_id = id2, !.object = c, !.repair_count = 0,
                             !.spec = new_spec(2, 2, "Raptor10")]]

\* One sender with repair symbols to spare.
OneSession == [s \in {"first"} |-> [BaseJob EXCEPT !.repair_count = 2]]

\* A sender with its own dmax or LDPC precode.
CustomTuning ==
    [s \in {"first"} |->
        [BaseJob EXCEPT !.spec.codec.tuning = custom, !.repair_count = 2]]
=============================================================================
