------------------------------- MODULE Receiver -------------------------------
(***************************************************************************)
(* The receive loop of receiver.rs: receive_object_with_socket_impl.  One  *)
(* action is one iteration of the loop, from the datagram handed over by   *)
(* recv_datagram_timeout to `continue' or `return'.  The loop awaits only  *)
(* the socket, so an iteration is atomic.                                  *)
(***************************************************************************)
EXTENDS Protocol

CONSTANTS
    None,                 \* Option::None
    expected_session_id,  \* RecvConfig::expected_session_id, or None
    Datagrams,            \* the datagrams that may arrive
    Peers,                \* the socket addresses they may come from
    MaxIgnored,           \* bound on the datagrams ignored
    MaxAccepted           \* bound on the packets accepted in one accumulation

Session == [session_id : SessionIds, spec : TransferSpec]

ASSUME ReceiverAssumption ==
    /\ expected_session_id \in SessionIds \cup {None}
    /\ None \notin SessionIds \cup Session \cup Decoder \cup Peers \cup Objects
    /\ Datagrams \subseteq Datagram
    /\ \A m \in Datagrams : m.type = "SessionMeta" =>
          /\ m.transfer_length_f \in Nat
          /\ spec_from_session_meta_error(m) = "Ok" => num_source(meta_spec(m)) \in BlockSizes

VARIABLES
    session,            \* Option<SessionParams>
    decoder,            \* Option<TransferDecoderImpl>
    packets_received,
    bytes_received,
    ignored_datagrams,
    events,             \* the progress events of the last iteration
    result              \* what the call returned, or Pending

state == <<session, decoder, packets_received, bytes_received>>
receiver_vars == <<session, decoder, packets_received, bytes_received,
                   ignored_datagrams, events, result>>

Pending == [status |-> "Pending"]
Failed(error) == [status |-> error]
Outcome(object, n, peer) ==
    [status |-> "Ok", object |-> object, packets_received |-> n, peer |-> peer]

ReceiverInit ==
    /\ session = None
    /\ decoder = None
    /\ packets_received = 0
    /\ bytes_received = 0
    /\ ignored_datagrams = 0
    /\ events = <<>>
    /\ result = Pending

-----------------------------------------------------------------------------
reason_for_protocol_error(error) ==
    CASE error = "SymbolLengthMismatch" -> "InvalidPacket"
      [] error = "TransferCore" -> "InvalidSessionMetadata"
      [] OTHER -> error

\* Mutants of foreign: one of its two filters is missing.
foreign_ActiveOnly(session_id) ==
    session # None /\ session.session_id # session_id
foreign_ExpectedOnly(session_id) ==
    expected_session_id # None /\ session_id # expected_session_id

foreign(session_id) ==
    \/ expected_session_id # None /\ session_id # expected_session_id
    \/ session # None /\ session.session_id # session_id

\* Why a SessionMeta is ignored, or "Accepted".
meta_verdict(meta) ==
    IF foreign(meta.session_id) THEN "ForeignSession"
    ELSE IF spec_from_session_meta_error(meta) # "Ok"
         THEN reason_for_protocol_error(spec_from_session_meta_error(meta))
    ELSE IF validate_spec(meta_spec(meta)) # "Ok" THEN "InvalidSessionMetadata"
    ELSE "Accepted"

\* Mutant of packet_verdict: the packet's own session id is taken for the active one.
packet_verdict_AnySession(message) ==
    IF session = None THEN "BeforeSession"
    ELSE LET error == transfer_packet_from_message_error(
                          message, message.session_id, session.spec.symbol_size_t)
         IN  IF error # "Ok" THEN reason_for_protocol_error(error)
             ELSE IF add_packet_error(decoder, transfer_packet_from_message(message)) # "Ok"
                  THEN "InvalidPacket"
             ELSE "Accepted"

\* Why a Packet is ignored, or "Accepted".
packet_verdict(message) ==
    IF session = None THEN "BeforeSession"
    ELSE IF foreign(message.session_id) THEN "ForeignSession"
    ELSE LET error == transfer_packet_from_message_error(
                          message, session.session_id, session.spec.symbol_size_t)
         IN  IF error # "Ok" THEN reason_for_protocol_error(error)
             ELSE IF add_packet_error(decoder, transfer_packet_from_message(message)) # "Ok"
                  THEN "InvalidPacket"
             ELSE "Accepted"

verdict(m) ==
    CASE m.type = "Malformed" -> "Malformed"
      [] m.type = "SessionMeta" -> meta_verdict(m)
      [] m.type = "Packet" -> packet_verdict(m)

\* Mutant of decode_percent: packets beyond K are not capped at 99.
decode_percent_Uncapped(packets_accepted, expected_source_symbols, decoded) ==
    IF decoded THEN 100 ELSE (packets_accepted * 100) \div expected_source_symbols

decode_percent(packets_accepted, expected_source_symbols, decoded) ==
    IF decoded THEN 100
    ELSE IF expected_source_symbols = 0 THEN 0
    ELSE LET percent == (packets_accepted * 100) \div expected_source_symbols
         IN  IF percent < 99 THEN percent ELSE 99

Ignored(reason, n) ==
    [type |-> "ReceiverDatagramIgnored", reason |-> reason, ignored_datagrams |-> n]
SessionEstablished(id, spec) ==
    [type |-> "ReceiverSessionEstablished", session_id |-> id,
     transfer_length_f |-> spec.transfer_length_f, symbol_size_t |-> spec.symbol_size_t,
     expected_source_symbols |-> num_source(spec)]
PacketAccepted(n, bytes, expected, percent) ==
    [type |-> "ReceiverPacketAccepted", packets_accepted |-> n, bytes_accepted |-> bytes,
     expected_source_symbols |-> expected, decode_percent |-> percent]
DecodeComplete(n, bytes) ==
    [type |-> "ReceiverDecodeComplete", packets_accepted |-> n, bytes_accepted |-> bytes,
     decode_percent |-> 100]

-----------------------------------------------------------------------------
\* Every early `continue': emit_ignored and wait for the next datagram.
IgnoreDatagram(m) ==
    /\ verdict(m) # "Accepted"
    /\ ignored_datagrams' = ignored_datagrams + 1
    /\ events' = <<Ignored(verdict(m), ignored_datagrams + 1)>>
    /\ UNCHANGED <<session, decoder, packets_received, bytes_received, result>>

\* Mutants of EstablishSession: a restart that keeps the decoder, or the counters.
EstablishSession_KeepsDecoder(m) ==
    /\ m.type = "SessionMeta"
    /\ verdict(m) = "Accepted"
    /\ session' = [session_id |-> m.session_id, spec |-> meta_spec(m)]
    /\ decoder' = IF decoder = None THEN new_decoder(meta_spec(m)) ELSE decoder
    /\ packets_received' = 0
    /\ bytes_received' = 0
    /\ events' = <<SessionEstablished(m.session_id, meta_spec(m))>>
    /\ UNCHANGED <<ignored_datagrams, result>>
EstablishSession_KeepsCounters(m) ==
    /\ m.type = "SessionMeta"
    /\ verdict(m) = "Accepted"
    /\ session' = [session_id |-> m.session_id, spec |-> meta_spec(m)]
    /\ decoder' = new_decoder(meta_spec(m))
    /\ events' = <<SessionEstablished(m.session_id, meta_spec(m))>>
    /\ UNCHANGED <<packets_received, bytes_received, ignored_datagrams, result>>

\* Metadata of the active session, or of the first one, starts accumulation over.
EstablishSession(m) ==
    /\ m.type = "SessionMeta"
    /\ verdict(m) = "Accepted"
    /\ session' = [session_id |-> m.session_id, spec |-> meta_spec(m)]
    /\ decoder' = new_decoder(meta_spec(m))
    /\ packets_received' = 0
    /\ bytes_received' = 0
    /\ events' = <<SessionEstablished(m.session_id, meta_spec(m))>>
    /\ UNCHANGED <<ignored_datagrams, result>>

\* What AcceptPacket and CompleteTransfer share: add the packet and count it.
AddPacket(m) ==
    /\ m.type = "Packet"
    /\ verdict(m) = "Accepted"
    /\ decoder' = add_packet(decoder, transfer_packet_from_message(m))
    /\ packets_received' = packets_received + 1
    /\ bytes_received' = bytes_received + m.symbol.len
    /\ UNCHANGED <<session, ignored_datagrams>>

AcceptedEvent(decoded) ==
    PacketAccepted(packets_received', bytes_received', num_source(session.spec),
                   decode_percent(packets_received', num_source(session.spec), decoded))

AcceptPacket(m) ==
    /\ AddPacket(m)
    /\ decode_status(decoder') # "Decoded"
    /\ events' = <<AcceptedEvent(FALSE)>>
    /\ UNCHANGED result

\* The packet that completes decoding: recover_object cannot fail here.
CompleteTransfer(m, peer) ==
    /\ AddPacket(m)
    /\ decode_status(decoder') = "Decoded"
    /\ events' = <<AcceptedEvent(TRUE), DecodeComplete(packets_received', bytes_received')>>
    /\ result' = Outcome(recover_object(decoder'), packets_received', peer)

Receive(m, peer) ==
    /\ result = Pending
    /\ \/ IgnoreDatagram(m)
       \/ EstablishSession(m)
       \/ AcceptPacket(m)
       \/ CompleteTransfer(m, peer)

\* Mutant of ReceiveTimeout: the timer only runs once a session is established.
ReceiveTimeout_InSession ==
    /\ result = Pending
    /\ session # None
    /\ result' = Failed("Timeout")
    /\ events' = <<>>
    /\ UNCHANGED <<session, decoder, packets_received, bytes_received, ignored_datagrams>>

\* No datagram arrived for recv_timeout: the call returns NetError::Timeout.
ReceiveTimeout ==
    /\ result = Pending
    /\ result' = Failed("Timeout")
    /\ events' = <<>>
    /\ UNCHANGED <<session, decoder, packets_received, bytes_received, ignored_datagrams>>

\* The socket returns an error.
ReceiveIoError ==
    /\ result = Pending
    /\ result' = Failed("Io")
    /\ events' = <<>>
    /\ UNCHANGED <<session, decoder, packets_received, bytes_received, ignored_datagrams>>

ReceiverNext ==
    \/ \E m \in Datagrams, peer \in Peers :
          /\ ignored_datagrams < MaxIgnored
          /\ packets_received < MaxAccepted
          /\ Receive(m, peer)
    \/ ReceiveTimeout
    \/ ReceiveIoError

ReceiverSpec == ReceiverInit /\ [][ReceiverNext]_receiver_vars

-----------------------------------------------------------------------------
Event ==
    [type : {"ReceiverDatagramIgnored"}, ignored_datagrams : Nat,
     reason : {"Malformed", "UnsupportedVersion", "UnknownCodec", "InvalidSessionMetadata",
               "BeforeSession", "ForeignSession", "InvalidPacket"}]
    \cup
    [type : {"ReceiverSessionEstablished"}, session_id : SessionIds, transfer_length_f : Nat,
     symbol_size_t : Nat, expected_source_symbols : Nat]
    \cup
    [type : {"ReceiverPacketAccepted"}, packets_accepted : Nat, bytes_accepted : Nat,
     expected_source_symbols : Nat, decode_percent : 0..100]
    \cup
    [type : {"ReceiverDecodeComplete"}, packets_accepted : Nat, bytes_accepted : Nat,
     decode_percent : {100}]

Result ==
    {Pending, Failed("Timeout"), Failed("Io")} \cup
    [status : {"Ok"}, object : Objects \cup {Garbled}, packets_received : Nat, peer : Peers]

\* The variables hold values of their Rust types; a percentage never leaves 0..100.
TypeOK ==
    /\ session \in Session \cup {None}
    /\ decoder \in Decoder \cup {None}
    /\ packets_received \in Nat
    /\ bytes_received \in Nat
    /\ ignored_datagrams \in Nat
    /\ \A i \in DOMAIN events : events[i] \in Event
    /\ result \in Result

\* There is a decoder exactly when there is a session, and it decodes that session's
\* spec: the `expect("decoder after meta")' of the packet arm never panics and no packet
\* is checked against one spec and decoded under another.
DecoderFollowsSession ==
    /\ session = None <=> decoder = None
    /\ session # None => decoder.spec = session.spec

\* The counters describe the current accumulation, across restarts and duplicates:
\* every accepted packet carried one full symbol, and a decoder holds no more symbols
\* than packets were counted.
CountersMatchDecoder ==
    /\ session = None => packets_received = 0 /\ bytes_received = 0
    /\ session # None =>
          /\ bytes_received = packets_received * session.spec.symbol_size_t
          /\ Cardinality(decoder.symbols) <= packets_received
          /\ decoder.symbols = {} => packets_received = 0

\* With --session-id the receiver never adopts another session, whatever arrives first.
ExpectedSessionOnly ==
    session # None /\ expected_session_id # None => session.session_id = expected_session_id

\* "Sticks to the first valid session until it completes or times out": once adopted,
\* the session id never changes, and no datagram returns the receiver to no session.
StickySession ==
    [][session # None => session' # None /\ session'.session_id = session.session_id]_receiver_vars

\* Nothing but accepted metadata of the receiver's own session discards a symbol
\* or turns a counter back: ignored datagrams and duplicates cost no progress.
ProgressLostOnlyToRestart ==
    [][\/ decoder = None
       \/ decoder'.symbols = {} /\ \E i \in DOMAIN events' :
              /\ events'[i].type = "ReceiverSessionEstablished"
              /\ events'[i].session_id = session.session_id
       \/ decoder.symbols \subseteq decoder'.symbols /\ packets_received <= packets_received']_receiver_vars

\* The call returns an object exactly when the symbols of the current accumulation
\* decode: it neither returns early nor goes on waiting with a decodable set in hand.
CompletesExactlyWhenDecodable ==
    result.status = "Ok" <=>
        /\ session # None
        /\ Decodable(num_source(session.spec), coded_ids(decoder))

\* "100 only after the codec reports successful decoding": progress shows 100 percent in
\* the iteration that completes the transfer and in no other, however many duplicates
\* were counted, and the completion event is emitted in that iteration.
HundredPercentMeansDone ==
    (\E i \in DOMAIN events :
        events[i].type = "ReceiverPacketAccepted" /\ events[i].decode_percent = 100)
    <=> result.status = "Ok"

\* InvalidSessionMetadata is documented as "invalid transfer dimensions" (progress.rs:18):
\* while every arriving metadata frame has valid dimensions it is never reported.
InvalidMetadataMeansDimensions ==
    (\A m \in Datagrams : m.type = "SessionMeta" =>
        validate_dimensions(m.transfer_length_f, m.symbol_size_t) = "Ok")
    => \A i \in DOMAIN events :
          events[i].type = "ReceiverDatagramIgnored" => events[i].reason # "InvalidSessionMetadata"
=============================================================================
