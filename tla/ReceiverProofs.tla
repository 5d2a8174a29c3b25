---------------------------- MODULE ReceiverProofs ----------------------------
(***************************************************************************)
(* Theorems about Receiver, for every set of datagrams and sessions.       *)
(***************************************************************************)
EXTENDS Receiver, FiniteSetTheorems, TLAPS

-----------------------------------------------------------------------------
(* The inductive invariant.  SpecUsable is the fact the other conjuncts    *)
(* need about an established session: its spec passed validate_spec and    *)
(* its K is one the engine is given.                                       *)

SpecUsable ==
    session # None =>
        /\ validate_spec(session.spec) = "Ok"
        /\ num_source(session.spec) \in BlockSizes

IInv == TypeOK /\ DecoderFollowsSession /\ SpecUsable

-----------------------------------------------------------------------------
(* Types of the operators the actions are built from. *)

\* The spec a metadata frame describes is a TransferSpec.
LEMMA MetaSpecType ==
    ASSUME NEW m \in SessionMeta
    PROVE  meta_spec(m) \in TransferSpec
<1>1. m.transfer_length_f \in Nat
  BY DEF SessionMeta
<1>3. m.symbol_size_t \in 0..(U16 - 1)
  BY DEF SessionMeta
<1>4. U16 \in Int
  BY DEF U16
<1>5. m.symbol_size_t \in Nat
  BY <1>3, <1>4
<1>2. meta_kind(m) \in CodecKind
  BY DEF meta_kind, CodecKind
<1> QED
  BY <1>1, <1>2, <1>5, CodecAssumption DEF meta_spec, new_spec, TransferSpec

\* A datagram is of exactly one of the three kinds its type field tells apart.
LEMMA DatagramKinds ==
    ASSUME NEW m \in Datagrams
    PROVE  /\ m.type \in {"Malformed", "SessionMeta", "Packet"}
           /\ m.type = "SessionMeta" => m \in SessionMeta
           /\ m.type = "Packet" => m \in Packet
<1>1. m \in SessionMeta \/ m \in Packet \/ m = Malformed
  BY ReceiverAssumption DEF Datagram, WireMessage
<1>2. /\ \A x \in SessionMeta : x.type = "SessionMeta"
      /\ \A x \in Packet : x.type = "Packet"
      /\ Malformed.type = "Malformed"
  BY DEF SessionMeta, Packet, Malformed
<1> QED
  BY <1>1, <1>2

\* Every datagram is accepted or ignored for one of the documented reasons.
LEMMA VerdictType ==
    ASSUME NEW m \in Datagrams
    PROVE  verdict(m) \in {"Malformed", "UnsupportedVersion", "UnknownCodec",
                           "InvalidSessionMetadata", "BeforeSession", "ForeignSession",
                           "InvalidPacket", "Accepted"}
<1>1. m.type \in {"Malformed", "SessionMeta", "Packet"}
  BY DatagramKinds
<1>2. meta_verdict(m) \in {"ForeignSession", "UnsupportedVersion", "UnknownCodec",
                           "InvalidSessionMetadata", "Accepted"}
  BY DEF meta_verdict, spec_from_session_meta_error, reason_for_protocol_error
<1>3. packet_verdict(m) \in {"BeforeSession", "ForeignSession", "UnsupportedVersion",
                             "InvalidPacket", "Accepted"}
  BY DEF packet_verdict, transfer_packet_from_message_error, reason_for_protocol_error
<1> QED
  BY <1>1, <1>2, <1>3 DEF verdict

\* A decoder files every payload ESI under a natural coded id.
LEMMA CodedIdType ==
    ASSUME NEW spec \in TransferSpec, num_source(spec) \in BlockSizes, NEW esi \in Nat
    PROVE  coded_id_of(spec, esi) \in Nat
<1>1. num_source(spec) \in Nat /\ NumTotal("RaptorQ", num_source(spec)) \in Nat
  BY EngineAssumption DEF CodecKind
<1> QED
  BY <1>1 DEF coded_id_of, payload_esi_to_coded_id, repair_index_from_payload_esi

\* The percentage fits the u8 it is cast to.
LEMMA PercentType ==
    ASSUME NEW n \in Nat, NEW expected \in Nat, NEW decoded \in BOOLEAN
    PROVE  decode_percent(n, expected, decoded) \in 0..100
<1>1. CASE decoded
  BY <1>1 DEF decode_percent
<1>2. CASE ~decoded /\ expected = 0
  BY <1>2 DEF decode_percent
<1>3. CASE ~decoded /\ expected # 0
  <2>1. (n * 100) \div expected \in Int /\ (n * 100) \div expected >= 0
    BY <1>3
  <2> QED
    BY <1>3, <2>1 DEF decode_percent
<1> QED
  BY <1>1, <1>2, <1>3

\* recover_object returns an object or garbled bytes.
LEMMA RecoverType ==
    ASSUME NEW dec PROVE recover_object(dec) \in Objects \cup {Garbled}
BY DEF recover_object

\* A sequence of one or two events is a sequence of events.
LEMMA EventsType ==
    /\ \A e \in Event : \A i \in DOMAIN <<e>> : <<e>>[i] \in Event
    /\ \A e, f \in Event : \A i \in DOMAIN <<e, f>> : <<e, f>>[i] \in Event
OBVIOUS

\* Metadata is accepted only if its spec passes validation, with a K the engine is given.
LEMMA AcceptedMeta ==
    ASSUME NEW m \in Datagrams, m.type = "SessionMeta", verdict(m) = "Accepted"
    PROVE  /\ m \in SessionMeta
           /\ meta_spec(m) \in TransferSpec
           /\ validate_spec(meta_spec(m)) = "Ok"
           /\ num_source(meta_spec(m)) \in BlockSizes
           /\ ~foreign(m.session_id)
<1>1. m \in SessionMeta
  BY DatagramKinds
<1>2. meta_verdict(m) = "Accepted"
  BY DEF verdict
<1>3. spec_from_session_meta_error(m) = "Ok"
  BY <1>2 DEF meta_verdict, reason_for_protocol_error, spec_from_session_meta_error
<1>4. validate_spec(meta_spec(m)) = "Ok" /\ ~foreign(m.session_id)
  BY <1>2, <1>3 DEF meta_verdict
<1>5. num_source(meta_spec(m)) \in BlockSizes
  BY <1>3, ReceiverAssumption
<1> QED
  BY <1>1, <1>4, <1>5, MetaSpecType

\* A packet is accepted only in a session, its own, and with one full symbol.
LEMMA AcceptedPacket ==
    ASSUME NEW m \in Datagrams, m.type = "Packet", verdict(m) = "Accepted"
    PROVE  /\ m \in Packet
           /\ session # None
           /\ m.session_id = session.session_id
           /\ m.symbol.len = session.spec.symbol_size_t
<1>1. m \in Packet
  BY DatagramKinds
<1>2. packet_verdict(m) = "Accepted"
  BY DEF verdict
<1>3. session # None /\ ~foreign(m.session_id)
  BY <1>2 DEF packet_verdict
<1>4. transfer_packet_from_message_error(
          m, session.session_id, session.spec.symbol_size_t) = "Ok"
  BY <1>2, <1>3 DEF packet_verdict, reason_for_protocol_error, transfer_packet_from_message_error
<1> QED
  BY <1>1, <1>3, <1>4 DEF transfer_packet_from_message_error

-----------------------------------------------------------------------------
(* Each action preserves the invariant. *)

LEMMA InitIInv == ReceiverInit => IInv
BY DEF ReceiverInit, IInv, TypeOK, DecoderFollowsSession, SpecUsable, Result

LEMMA IgnoreIInv ==
    ASSUME IInv, NEW m \in Datagrams, IgnoreDatagram(m)
    PROVE  IInv'
<1>1. Ignored(verdict(m), ignored_datagrams + 1) \in Event
  BY VerdictType DEF IgnoreDatagram, IInv, TypeOK, Ignored, Event
<1>2. \A i \in DOMAIN events' : events'[i] \in Event
  BY <1>1, EventsType DEF IgnoreDatagram
<1>3. TypeOK'
  BY <1>2 DEF IgnoreDatagram, IInv, TypeOK
<1>4. DecoderFollowsSession' /\ SpecUsable'
  BY DEF IgnoreDatagram, IInv, DecoderFollowsSession, SpecUsable, num_source
<1> QED
  BY <1>3, <1>4 DEF IInv

LEMMA EstablishIInv ==
    ASSUME IInv, NEW m \in Datagrams, EstablishSession(m)
    PROVE  IInv'
<1>1. /\ m \in SessionMeta
      /\ meta_spec(m) \in TransferSpec
      /\ validate_spec(meta_spec(m)) = "Ok"
      /\ num_source(meta_spec(m)) \in BlockSizes
  BY AcceptedMeta DEF EstablishSession
<1>2. m.session_id \in SessionIds
  BY <1>1 DEF SessionMeta
<1>3. session' \in Session /\ session' # None
  BY <1>1, <1>2, ReceiverAssumption DEF EstablishSession, Session
<1>4. decoder' \in Decoder /\ decoder' # None
  BY <1>1, ReceiverAssumption DEF EstablishSession, Decoder, new_decoder
<1>5. SessionEstablished(m.session_id, meta_spec(m)) \in Event
  BY <1>1, <1>2, EngineAssumption DEF SessionEstablished, Event, TransferSpec
<1>6. \A i \in DOMAIN events' : events'[i] \in Event
  BY <1>5, EventsType DEF EstablishSession
<1>7. TypeOK'
  BY <1>3, <1>4, <1>6 DEF EstablishSession, IInv, TypeOK
<1>8. DecoderFollowsSession'
  BY <1>3, <1>4 DEF EstablishSession, DecoderFollowsSession, new_decoder
<1>9. SpecUsable'
  BY <1>1 DEF EstablishSession, SpecUsable
<1> QED
  BY <1>7, <1>8, <1>9 DEF IInv

\* What adding a packet does to everything but the events and the result.
LEMMA AddPacketStep ==
    ASSUME IInv, NEW m \in Datagrams, AddPacket(m)
    PROVE  /\ session # None /\ session' = session
           /\ decoder \in Decoder /\ decoder' \in Decoder
           /\ decoder.spec = session.spec /\ decoder'.spec = decoder.spec
           /\ packets_received' \in Nat /\ bytes_received' \in Nat
           /\ num_source(session.spec) \in Nat
<1>1. m \in Packet /\ session # None
  BY AcceptedPacket DEF AddPacket
<1>2. m.esi \in Nat /\ m.symbol \in Symbol /\ m.symbol.len \in Nat
  BY <1>1 DEF Packet, Symbol
<1>3. decoder \in Decoder /\ decoder.spec = session.spec /\ decoder.spec \in TransferSpec
  BY <1>1 DEF IInv, TypeOK, DecoderFollowsSession, Decoder
<1>4. num_source(session.spec) \in BlockSizes /\ num_source(session.spec) \in Nat
  BY <1>1, EngineAssumption DEF IInv, SpecUsable
<1>5. coded_id_of(decoder.spec, m.esi) \in Nat
  BY <1>2, <1>3, <1>4, CodedIdType
<1>6. decoder' = [decoder EXCEPT !.symbols = @ \cup
                    {[coded_id |-> coded_id_of(decoder.spec, m.esi), symbol |-> m.symbol]}]
  BY DEF AddPacket, add_packet, transfer_packet_from_message
<1>7. decoder' \in Decoder /\ decoder'.spec = decoder.spec
  BY <1>2, <1>3, <1>5, <1>6 DEF Decoder
<1>8. packets_received' \in Nat /\ bytes_received' \in Nat /\ session' = session
  BY <1>2 DEF AddPacket, IInv, TypeOK
<1> QED
  BY <1>1, <1>3, <1>4, <1>7, <1>8

LEMMA AcceptedEventType ==
    ASSUME IInv, NEW m \in Datagrams, AddPacket(m), NEW decoded \in BOOLEAN
    PROVE  AcceptedEvent(decoded) \in Event
<1>1. /\ packets_received' \in Nat /\ bytes_received' \in Nat
      /\ num_source(session.spec) \in Nat
  BY AddPacketStep
<1>2. decode_percent(packets_received', num_source(session.spec), decoded) \in 0..100
  BY <1>1, PercentType
<1> QED
  BY <1>1, <1>2 DEF AcceptedEvent, PacketAccepted, Event

\* What is left to show of a step that adds a packet: the type of events and result.
LEMMA AddPacketIInv ==
    ASSUME IInv, NEW m \in Datagrams, AddPacket(m),
           \A i \in DOMAIN events' : events'[i] \in Event,
           result' \in Result
    PROVE  IInv'
<1>1. /\ session # None /\ session' = session
      /\ decoder' \in Decoder /\ decoder'.spec = session'.spec
      /\ packets_received' \in Nat /\ bytes_received' \in Nat
  BY AddPacketStep
<1>2. decoder' # None
  BY <1>1, ReceiverAssumption
<1>3. TypeOK'
  BY <1>1 DEF AddPacket, IInv, TypeOK
<1>4. DecoderFollowsSession' /\ SpecUsable'
  BY <1>1, <1>2 DEF DecoderFollowsSession, SpecUsable, IInv, num_source
<1> QED
  BY <1>3, <1>4 DEF IInv

LEMMA AcceptIInv ==
    ASSUME IInv, NEW m \in Datagrams, AcceptPacket(m)
    PROVE  IInv'
<1>1. AddPacket(m)
  BY DEF AcceptPacket
<1>2. \A i \in DOMAIN events' : events'[i] \in Event
  BY <1>1, AcceptedEventType, EventsType DEF AcceptPacket
<1>3. result' \in Result
  BY DEF AcceptPacket, IInv, TypeOK
<1> QED
  BY <1>1, <1>2, <1>3, AddPacketIInv

LEMMA CompleteIInv ==
    ASSUME IInv, NEW m \in Datagrams, NEW peer \in Peers, CompleteTransfer(m, peer)
    PROVE  IInv'
<1>1. AddPacket(m)
  BY DEF CompleteTransfer
<1>2. packets_received' \in Nat /\ bytes_received' \in Nat
  BY <1>1, AddPacketStep
<1>3. DecodeComplete(packets_received', bytes_received') \in Event
  BY <1>2 DEF DecodeComplete, Event
<1>4. \A i \in DOMAIN events' : events'[i] \in Event
  BY <1>1, <1>3, AcceptedEventType, EventsType DEF CompleteTransfer
<1>5. result' \in Result
  BY <1>2, RecoverType DEF CompleteTransfer, Outcome, Result
<1> QED
  BY <1>1, <1>4, <1>5, AddPacketIInv

LEMMA ReceiveIInv ==
    ASSUME IInv, NEW m \in Datagrams, NEW peer \in Peers, Receive(m, peer)
    PROVE  IInv'
BY IgnoreIInv, EstablishIInv, AcceptIInv, CompleteIInv DEF Receive

LEMMA FailIInv ==
    ASSUME IInv, ReceiveTimeout \/ ReceiveIoError
    PROVE  IInv'
<1>1. TypeOK'
  BY DEF ReceiveTimeout, ReceiveIoError, IInv, TypeOK, Result
<1>2. DecoderFollowsSession' /\ SpecUsable'
  BY DEF ReceiveTimeout, ReceiveIoError, IInv, DecoderFollowsSession, SpecUsable, num_source
<1> QED
  BY <1>1, <1>2 DEF IInv

LEMMA StutterIInv == IInv /\ UNCHANGED receiver_vars => IInv'
BY DEF receiver_vars, IInv, TypeOK, DecoderFollowsSession, SpecUsable, num_source

\* The invariant is inductive.
LEMMA NextIInv == IInv /\ [ReceiverNext]_receiver_vars => IInv'
BY ReceiveIInv, FailIInv, StutterIInv DEF ReceiverNext

THEOREM Invariance == ReceiverSpec => []IInv
<1>1. ReceiverInit => IInv
  BY InitIInv
<1>2. IInv /\ [ReceiverNext]_receiver_vars => IInv'
  BY NextIInv
<1> QED
  BY <1>1, <1>2, PTL DEF ReceiverSpec

\* Every reachable state is type correct.
THEOREM TypeCorrect == ReceiverSpec => []TypeOK
<1>1. IInv => TypeOK
  BY DEF IInv
<1> QED
  BY <1>1, Invariance, PTL

\* The packet arm always finds the decoder of the session's spec.
THEOREM DecoderAlwaysThere == ReceiverSpec => []DecoderFollowsSession
<1>1. IInv => DecoderFollowsSession
  BY DEF IInv
<1> QED
  BY <1>1, Invariance, PTL

-----------------------------------------------------------------------------
(* Sessions. *)

\* In a session, and with a filter, nothing foreign is accepted.
LEMMA ReceiveKeepsSession ==
    ASSUME IInv, NEW m \in Datagrams, NEW peer \in Peers, Receive(m, peer), session # None
    PROVE  session' # None /\ session'.session_id = session.session_id
<1>1. CASE IgnoreDatagram(m)
  BY <1>1 DEF IgnoreDatagram
<1>2. CASE EstablishSession(m)
  <2>1. ~foreign(m.session_id) /\ m \in SessionMeta /\ meta_spec(m) \in TransferSpec
    BY <1>2, AcceptedMeta DEF EstablishSession
  <2>2. session' \in Session /\ session'.session_id = m.session_id
    BY <1>2, <2>1 DEF EstablishSession, Session, SessionMeta
  <2> QED
    BY <2>1, <2>2, ReceiverAssumption DEF foreign
<1>3. CASE AddPacket(m)
  BY <1>3 DEF AddPacket
<1> QED
  BY <1>1, <1>2, <1>3 DEF Receive, AcceptPacket, CompleteTransfer

\* The receiver sticks to the session it adopted: no later datagram changes its id.
THEOREM SessionSticks == ReceiverSpec => StickySession
<1> DEFINE Keeps == session # None => session' # None /\ session'.session_id = session.session_id
<1>1. IInv /\ [ReceiverNext]_receiver_vars => [Keeps]_receiver_vars
  <2>1. ASSUME IInv, NEW m \in Datagrams, NEW peer \in Peers, Receive(m, peer)
        PROVE  Keeps
    BY <2>1, ReceiveKeepsSession
  <2>2. ASSUME ReceiveTimeout \/ ReceiveIoError
        PROVE  Keeps
    BY <2>2 DEF ReceiveTimeout, ReceiveIoError
  <2> QED
    BY <2>1, <2>2 DEF ReceiverNext
<1> QED
  BY <1>1, Invariance, PTL DEF ReceiverSpec, StickySession

\* A receiver started with a session id only ever adopts that session.
THEOREM OnlyExpectedSession == ReceiverSpec => []ExpectedSessionOnly
<1>1. ReceiverInit => ExpectedSessionOnly
  BY DEF ReceiverInit, ExpectedSessionOnly
<1>2. IInv /\ ExpectedSessionOnly /\ [ReceiverNext]_receiver_vars => ExpectedSessionOnly'
  <2> SUFFICES ASSUME IInv, ExpectedSessionOnly, [ReceiverNext]_receiver_vars
               PROVE  ExpectedSessionOnly'
    OBVIOUS
  <2>1. ASSUME NEW m \in Datagrams, EstablishSession(m)
        PROVE  ExpectedSessionOnly'
    <3>1. ~foreign(m.session_id)
      BY <2>1, AcceptedMeta DEF EstablishSession
    <3>2. session'.session_id = m.session_id
      BY <2>1 DEF EstablishSession
    <3> QED
      BY <3>1, <3>2 DEF foreign, ExpectedSessionOnly
  <2>2. ASSUME session' = session
        PROVE  ExpectedSessionOnly'
    BY <2>2 DEF ExpectedSessionOnly
  <2>3. (\E m \in Datagrams : EstablishSession(m)) \/ session' = session
    BY DEF ReceiverNext, Receive, IgnoreDatagram, AcceptPacket, CompleteTransfer, AddPacket,
           ReceiveTimeout, ReceiveIoError, receiver_vars
  <2> QED
    BY <2>1, <2>2, <2>3
<1> QED
  BY <1>1, <1>2, Invariance, PTL DEF ReceiverSpec

-----------------------------------------------------------------------------
(* Counters.  Cardinality says something of finite sets only, so the       *)
(* induction carries that the decoder's set is finite.                     *)

SymbolsFinite == session # None => IsFiniteSet(decoder.symbols)

\* Adding an element to a finite set makes it larger by at most one.
LEMMA AddedCardinality ==
    ASSUME NEW S, NEW x, IsFiniteSet(S)
    PROVE  /\ IsFiniteSet(S \cup {x})
           /\ Cardinality(S) \in Nat
           /\ Cardinality(S \cup {x}) \in Nat
           /\ Cardinality(S \cup {x}) <= Cardinality(S) + 1
<1>1. Cardinality(S) \in Nat
  BY FS_CardinalityType
<1>2. /\ IsFiniteSet(S \cup {x})
      /\ Cardinality(S \cup {x}) = IF x \in S THEN Cardinality(S) ELSE Cardinality(S) + 1
  BY FS_AddElement
<1> QED
  BY <1>1, <1>2

\* Adding a packet keeps the counters in step with the decoder.
LEMMA AddPacketCounters ==
    ASSUME IInv, SymbolsFinite, CountersMatchDecoder, NEW m \in Datagrams, AddPacket(m)
    PROVE  SymbolsFinite' /\ CountersMatchDecoder'
<1> DEFINE x == [coded_id |-> coded_id_of(decoder.spec, m.esi), symbol |-> m.symbol]
<1>1. /\ session # None /\ session' = session
      /\ decoder \in Decoder /\ decoder.spec = session.spec
  BY AddPacketStep
<1>2. decoder'.symbols = decoder.symbols \cup {x}
  BY <1>1 DEF AddPacket, add_packet, transfer_packet_from_message, Decoder
<1> HIDE DEF x
<1>3. IsFiniteSet(decoder.symbols)
  BY <1>1 DEF SymbolsFinite
<1>4. /\ IsFiniteSet(decoder'.symbols)
      /\ Cardinality(decoder.symbols) \in Nat
      /\ Cardinality(decoder'.symbols) \in Nat
      /\ Cardinality(decoder'.symbols) <= Cardinality(decoder.symbols) + 1
  BY <1>2, <1>3, AddedCardinality
<1>5. /\ packets_received \in Nat /\ packets_received' = packets_received + 1
      /\ Cardinality(decoder'.symbols) <= packets_received'
  BY <1>1, <1>4 DEF CountersMatchDecoder, AddPacket, IInv, TypeOK
<1>6. session.spec.symbol_size_t \in Nat
  BY <1>1 DEF Decoder, TransferSpec
<1>7. bytes_received' = packets_received * session.spec.symbol_size_t + session.spec.symbol_size_t
  BY <1>1, AcceptedPacket DEF AddPacket, CountersMatchDecoder
<1>8. bytes_received' = packets_received' * session'.spec.symbol_size_t
  BY <1>1, <1>5, <1>6, <1>7
<1>9. decoder'.symbols # {}
  BY <1>2
<1> QED
  BY <1>1, <1>4, <1>5, <1>8, <1>9 DEF SymbolsFinite, CountersMatchDecoder

LEMMA EstablishCounters ==
    ASSUME IInv, NEW m \in Datagrams, EstablishSession(m)
    PROVE  SymbolsFinite' /\ CountersMatchDecoder'
<1>1. meta_spec(m) \in TransferSpec
  BY AcceptedMeta DEF EstablishSession
<1>2. session'.spec.symbol_size_t \in Nat
  BY <1>1 DEF EstablishSession, TransferSpec
<1>3. decoder'.symbols = {} /\ packets_received' = 0 /\ bytes_received' = 0
  BY DEF EstablishSession, new_decoder
<1>4. IsFiniteSet({}) /\ Cardinality({}) = 0
  BY FS_EmptySet
<1> QED
  BY <1>2, <1>3, <1>4 DEF SymbolsFinite, CountersMatchDecoder

\* The counters describe the current accumulation, whatever arrives in whatever order.
THEOREM CountersCorrect == ReceiverSpec => []CountersMatchDecoder
<1> DEFINE CInv == SymbolsFinite /\ CountersMatchDecoder
<1>1. ReceiverInit => CInv
  BY DEF ReceiverInit, SymbolsFinite, CountersMatchDecoder
<1>2. IInv /\ CInv /\ [ReceiverNext]_receiver_vars => CInv'
  <2> SUFFICES ASSUME IInv, CInv, [ReceiverNext]_receiver_vars
               PROVE  CInv'
    OBVIOUS
  <2>1. ASSUME UNCHANGED state
        PROVE  CInv'
    BY <2>1 DEF state, SymbolsFinite, CountersMatchDecoder
  <2>2. \/ UNCHANGED state
        \/ \E m \in Datagrams : EstablishSession(m) \/ AddPacket(m)
    BY DEF ReceiverNext, Receive, IgnoreDatagram, AcceptPacket, CompleteTransfer,
           ReceiveTimeout, ReceiveIoError, receiver_vars, state
  <2> QED
    BY <2>1, <2>2, EstablishCounters, AddPacketCounters
<1>3. CInv => CountersMatchDecoder
  OBVIOUS
<1> QED
  BY <1>1, <1>2, <1>3, Invariance, PTL DEF ReceiverSpec

-----------------------------------------------------------------------------
(* Completion and progress. *)

\* An unfinished decoder never shows 100 percent.
LEMMA UnfinishedPercent ==
    ASSUME NEW n, NEW expected
    PROVE  decode_percent(n, expected, FALSE) # 100
<1>1. CASE expected = 0
  BY <1>1 DEF decode_percent
<1>2. CASE expected # 0 /\ (n * 100) \div expected < 99
  BY <1>2 DEF decode_percent
<1>3. CASE expected # 0 /\ ~((n * 100) \div expected < 99)
  BY <1>3 DEF decode_percent
<1> QED
  BY <1>1, <1>2, <1>3

\* What each kind of step does to the result.
LEMMA ReceiveCompletes ==
    ASSUME IInv, CompletesExactlyWhenDecodable,
           NEW m \in Datagrams, NEW peer \in Peers, Receive(m, peer)
    PROVE  CompletesExactlyWhenDecodable'
<1>1. result.status # "Ok"
  BY DEF Receive, Pending
<1>2. CASE IgnoreDatagram(m)
  BY <1>2 DEF IgnoreDatagram, CompletesExactlyWhenDecodable, num_source, coded_ids
<1>3. CASE EstablishSession(m)
  <2>1. num_source(meta_spec(m)) \in BlockSizes
    BY <1>3, AcceptedMeta DEF EstablishSession
  <2>2. /\ session'.spec = meta_spec(m)
        /\ coded_ids(decoder') = {}
        /\ result' = result
    BY <1>3 DEF EstablishSession, new_decoder, coded_ids
  <2>3. ~Decodable(num_source(session'.spec), coded_ids(decoder'))
    BY <2>1, <2>2, EngineAssumption
  <2> QED
    BY <1>1, <2>2, <2>3 DEF CompletesExactlyWhenDecodable, num_source, coded_ids
<1>4. CASE AcceptPacket(m)
  <2>1. session' = session /\ decoder'.spec = session.spec
    BY <1>4, AddPacketStep DEF AcceptPacket
  <2>2. ~Decodable(num_source(decoder'.spec), coded_ids(decoder')) /\ result' = result
    BY <1>4 DEF AcceptPacket, decode_status
  <2> QED
    BY <1>1, <2>1, <2>2 DEF CompletesExactlyWhenDecodable, num_source, coded_ids
<1>5. CASE CompleteTransfer(m, peer)
  <2>1. session # None /\ session' = session /\ decoder'.spec = session.spec
    BY <1>5, AddPacketStep DEF CompleteTransfer
  <2>2. Decodable(num_source(decoder'.spec), coded_ids(decoder'))
    BY <1>5 DEF CompleteTransfer, decode_status
  <2>3. result'.status = "Ok"
    BY <1>5 DEF CompleteTransfer, Outcome
  <2> QED
    BY <2>1, <2>2, <2>3 DEF CompletesExactlyWhenDecodable, num_source, coded_ids
<1> QED
  BY <1>2, <1>3, <1>4, <1>5 DEF Receive

\* The call returns an object exactly when the accumulated symbols decode.
THEOREM CompletesExactly == ReceiverSpec => []CompletesExactlyWhenDecodable
<1>1. ReceiverInit => CompletesExactlyWhenDecodable
  BY DEF ReceiverInit, CompletesExactlyWhenDecodable, Pending
<1>2. IInv /\ CompletesExactlyWhenDecodable /\ [ReceiverNext]_receiver_vars
        => CompletesExactlyWhenDecodable'
  <2> SUFFICES ASSUME IInv, CompletesExactlyWhenDecodable, [ReceiverNext]_receiver_vars
               PROVE  CompletesExactlyWhenDecodable'
    OBVIOUS
  <2>1. ASSUME ReceiveTimeout \/ ReceiveIoError
        PROVE  CompletesExactlyWhenDecodable'
    BY <2>1 DEF ReceiveTimeout, ReceiveIoError, Pending, Failed,
                CompletesExactlyWhenDecodable, num_source, coded_ids
  <2>2. ASSUME UNCHANGED receiver_vars
        PROVE  CompletesExactlyWhenDecodable'
    BY <2>2 DEF receiver_vars, CompletesExactlyWhenDecodable, num_source, coded_ids
  <2> QED
    BY <2>1, <2>2, ReceiveCompletes DEF ReceiverNext
<1> QED
  BY <1>1, <1>2, Invariance, PTL DEF ReceiverSpec

\* Progress shows 100 percent in the completing iteration and in no other.
THEOREM HundredPercentIsHonest == ReceiverSpec => []HundredPercentMeansDone
<1>1. ReceiverInit => HundredPercentMeansDone
  BY DEF ReceiverInit, HundredPercentMeansDone, Pending
<1>2. HundredPercentMeansDone /\ [ReceiverNext]_receiver_vars => HundredPercentMeansDone'
  <2> SUFFICES ASSUME HundredPercentMeansDone, [ReceiverNext]_receiver_vars
               PROVE  HundredPercentMeansDone'
    OBVIOUS
  <2>1. ASSUME result.status # "Ok", NEW m, IgnoreDatagram(m) \/ EstablishSession(m)
        PROVE  HundredPercentMeansDone'
    BY <2>1 DEF IgnoreDatagram, EstablishSession, Ignored, SessionEstablished,
                HundredPercentMeansDone
  <2>2. ASSUME result.status # "Ok", NEW m, AcceptPacket(m)
        PROVE  HundredPercentMeansDone'
    <3>1. AcceptedEvent(FALSE).decode_percent # 100
      BY UnfinishedPercent DEF AcceptedEvent, PacketAccepted
    <3>2. PICK e : events' = <<e>> /\ e.decode_percent # 100
      BY <2>2, <3>1 DEF AcceptPacket
    <3>3. \A i \in DOMAIN events' : events'[i].decode_percent # 100
      BY <3>2
    <3>4. result' = result
      BY <2>2 DEF AcceptPacket
    <3> QED
      BY <2>2, <3>3, <3>4 DEF HundredPercentMeansDone
  <2>3. ASSUME NEW m, NEW peer, CompleteTransfer(m, peer)
        PROVE  HundredPercentMeansDone'
    <3>1. /\ AcceptedEvent(TRUE).type = "ReceiverPacketAccepted"
          /\ AcceptedEvent(TRUE).decode_percent = 100
      BY DEF AcceptedEvent, PacketAccepted, decode_percent
    <3>2. 1 \in DOMAIN events' /\ events'[1] = AcceptedEvent(TRUE)
      BY <2>3 DEF CompleteTransfer
    <3>3. result'.status = "Ok"
      BY <2>3 DEF CompleteTransfer, Outcome
    <3> QED
      BY <3>1, <3>2, <3>3 DEF HundredPercentMeansDone
  <2>4. ASSUME ReceiveTimeout \/ ReceiveIoError
        PROVE  HundredPercentMeansDone'
    BY <2>4 DEF ReceiveTimeout, ReceiveIoError, Failed, HundredPercentMeansDone
  <2>5. ASSUME UNCHANGED receiver_vars
        PROVE  HundredPercentMeansDone'
    BY <2>5 DEF receiver_vars, HundredPercentMeansDone
  <2>6. Pending.status # "Ok"
    BY DEF Pending
  <2> QED
    BY <2>1, <2>2, <2>3, <2>4, <2>5, <2>6 DEF ReceiverNext, Receive
<1> QED
  BY <1>1, <1>2, PTL DEF ReceiverSpec

-----------------------------------------------------------------------------
(* Accumulation. *)

\* The one way to lose progress: metadata of the receiver's own session.
LEMMA EstablishRestarts ==
    ASSUME IInv, NEW m \in Datagrams, EstablishSession(m), decoder # None
    PROVE  /\ decoder'.symbols = {}
           /\ \E i \in DOMAIN events' :
                 /\ events'[i].type = "ReceiverSessionEstablished"
                 /\ events'[i].session_id = session.session_id
<1>1. m.session_id = session.session_id
  BY AcceptedMeta DEF EstablishSession, foreign, IInv, DecoderFollowsSession
<1>2. decoder'.symbols = {}
  BY DEF EstablishSession, new_decoder
<1>3. PICK e : /\ events' = <<e>>
               /\ e.type = "ReceiverSessionEstablished"
               /\ e.session_id = m.session_id
  BY DEF EstablishSession, SessionEstablished
<1>4. 1 \in DOMAIN events' /\ events'[1] = e
  BY <1>3
<1> QED
  BY <1>1, <1>2, <1>3, <1>4

\* Ignored datagrams, duplicates and failures never cost a symbol or a count.
THEOREM ProgressIsKept == ReceiverSpec => ProgressLostOnlyToRestart
<1> DEFINE Restart == /\ decoder'.symbols = {}
                      /\ \E i \in DOMAIN events' :
                            /\ events'[i].type = "ReceiverSessionEstablished"
                            /\ events'[i].session_id = session.session_id
           Kept == decoder.symbols \subseteq decoder'.symbols
                   /\ packets_received <= packets_received'
<1>1. IInv /\ [ReceiverNext]_receiver_vars
        => [decoder = None \/ Restart \/ Kept]_receiver_vars
  <2> SUFFICES ASSUME IInv, ReceiverNext, decoder # None
               PROVE  Restart \/ Kept
    OBVIOUS
  <2>1. packets_received \in Nat
    BY DEF IInv, TypeOK
  <2>2. ASSUME UNCHANGED state
        PROVE  Kept
    BY <2>1, <2>2 DEF state
  <2>3. ASSUME NEW m \in Datagrams, AddPacket(m)
        PROVE  Kept
    <3>1. decoder \in Decoder
      BY <2>3, AddPacketStep
    <3> QED
      BY <2>1, <2>3, <3>1 DEF AddPacket, add_packet, Decoder
  <2>4. ASSUME NEW m \in Datagrams, EstablishSession(m)
        PROVE  Restart
    BY <2>4, EstablishRestarts
  <2>5. \/ UNCHANGED state
        \/ \E m \in Datagrams : EstablishSession(m) \/ AddPacket(m)
    BY DEF ReceiverNext, Receive, IgnoreDatagram, AcceptPacket, CompleteTransfer,
           ReceiveTimeout, ReceiveIoError, state
  <2> QED
    BY <2>2, <2>3, <2>4, <2>5
<1> QED
  BY <1>1, Invariance, PTL DEF ReceiverSpec, ProgressLostOnlyToRestart
=============================================================================
