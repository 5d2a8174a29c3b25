-------------------------------- MODULE Sender --------------------------------
(***************************************************************************)
(* The senders: each one a run of send_object_with_socket_impl of sender.rs*)
(* with its own socket.  All packets are computed before the first one is  *)
(* sent; then the metadata, the source packets and the repair packets go   *)
(* out once each, in order, every send an await at which other senders,    *)
(* the network and the receiver run.                                       *)
(***************************************************************************)
EXTENDS Protocol, SequencesExt

CONSTANTS
    Senders,  \* the runs of send_object
    Job       \* Job[s]: the session, object, SendConfig and progress flag of s

JobType ==
    [session_id : SessionIds, spec : TransferSpec, object : Objects,
     repair_count : Nat, repair_rounds : Nat, progress : BOOLEAN]

ASSUME JobAssumption == Job \in [Senders -> JobType]

VARIABLES
    phase,       \* phase[s] in Idle, Sending, Finished, Failed
    sent,        \* sent[s]: the messages s has handed to its socket
    bytes_sent,  \* bytes_sent[s], counted only with progress
    error,       \* error[s]: what the call returned if it failed
    report       \* report[s]: the last progress event of s

sender_vars == <<phase, sent, bytes_sent, error, report>>

NoReport == [type |-> "None"]

SenderInit ==
    /\ phase = [s \in Senders |-> "Idle"]
    /\ sent = [s \in Senders |-> <<>>]
    /\ bytes_sent = [s \in Senders |-> 0]
    /\ error = [s \in Senders |-> "Ok"]
    /\ report = [s \in Senders |-> NoReport]

-----------------------------------------------------------------------------
\* What a sender computes before it sends: its vectors of packets, and their messages.
encodable(s) == encoder_error(Job[s].spec, Job[s].object) = "Ok"

source ==
    [s \in Senders |-> IF encodable(s) THEN source_packets(Job[s].spec, Job[s].object) ELSE <<>>]

\* Mutant of round_start: successive rounds overlap.
round_start_Overlapping(round, repair_count) == round
round_start(round, repair_count) == round * repair_count

repair ==
    [s \in Senders |-> IF encodable(s)
        THEN FlattenSeq([r \in 1..Job[s].repair_rounds |->
                repair_packets(Job[s].spec, Job[s].object,
                               round_start(r - 1, Job[s].repair_count), Job[s].repair_count)])
        ELSE <<>>]

meta == [s \in Senders |-> session_meta_from_spec(Job[s].session_id, Job[s].spec)]

\* The encoder's packets in the order they are sent, and their messages.
planned(s) == source[s] \o repair[s]

packets ==
    [s \in Senders |->
        [i \in 1..Len(planned(s)) |-> packet_message(Job[s].session_id, planned(s)[i])]]

\* K is one the engine is asked about.
ASSUME SizeAssumption ==
    \A s \in Senders : encodable(s) => num_source(Job[s].spec) \in BlockSizes

packet_bytes ==
    [s \in Senders |-> FoldLeft(LAMBDA n, p : n + encoded_len(p), 0, packets[s])]

\* Mutant of planned_bytes: the metadata is not counted.
planned_bytes_NoMeta == [s \in Senders |-> IF Job[s].progress THEN packet_bytes[s] ELSE 0]
planned_bytes ==
    [s \in Senders |-> IF Job[s].progress THEN encoded_len(meta[s]) + packet_bytes[s] ELSE 0]

\* How many packets are out.
packets_sent(s) == Len(sent[s]) - 1

Report(s, event) ==
    report' = IF Job[s].progress THEN [report EXCEPT ![s] = event] ELSE report

-----------------------------------------------------------------------------
\* The encoder is built, the packets are computed: SenderStarted.
Start(s) ==
    /\ phase[s] = "Idle"
    /\ encodable(s)
    /\ phase' = [phase EXCEPT ![s] = "Sending"]
    /\ Report(s, [type |-> "SenderStarted", source_packets |-> Len(source[s]),
                  repair_packets |-> Len(repair[s]), planned_bytes |-> planned_bytes[s]])
    /\ UNCHANGED <<sent, bytes_sent, error>>

Fail(s, e) ==
    /\ phase' = [phase EXCEPT ![s] = "Failed"]
    /\ error' = [error EXCEPT ![s] = e]
    /\ UNCHANGED <<sent, bytes_sent, report>>

StartFails(s) ==
    /\ phase[s] = "Idle"
    /\ ~encodable(s)
    /\ Fail(s, encoder_error(Job[s].spec, Job[s].object))

\* The message the next send_message gets, while there is one.
pending(s) == phase[s] = "Sending" /\ packets_sent(s) < Len(packets[s])

next_message(s) ==
    IF sent[s] = <<>> THEN meta[s]
    ELSE packets[s][packets_sent(s) + 1]

\* Mutant of fits: no limit.
fits_Always(message) == TRUE
fits(message) == encoded_len(message) <= MAX_DATAGRAM

\* send_message_counted succeeds: the message is with the socket, and counted.
Transmit(s) ==
    /\ fits(next_message(s))
    /\ sent' = [sent EXCEPT ![s] = Append(@, next_message(s))]
    /\ bytes_sent' = IF Job[s].progress
                     THEN [bytes_sent EXCEPT ![s] = @ + encoded_len(next_message(s))]
                     ELSE bytes_sent
    /\ UNCHANGED <<phase, error>>

SendMeta(s) ==
    /\ pending(s)
    /\ sent[s] = <<>>
    /\ Transmit(s)
    /\ UNCHANGED report

SendSource(s) ==
    /\ pending(s)
    /\ packets_sent(s) \in 0..(Len(source[s]) - 1)
    /\ Transmit(s)
    /\ Report(s, [type |-> "SenderSourcePacketSent", sent |-> packets_sent(s) + 1,
                  total |-> Len(source[s]), bytes_sent |-> bytes_sent'[s],
                  planned_bytes |-> planned_bytes[s]])

SendRepair(s) ==
    /\ pending(s)
    /\ packets_sent(s) >= Len(source[s])
    /\ Transmit(s)
    /\ Report(s, [type |-> "SenderRepairPacketSent",
                  sent |-> packets_sent(s) - Len(source[s]) + 1,
                  total |-> Len(repair[s]), bytes_sent |-> bytes_sent'[s],
                  planned_bytes |-> planned_bytes[s]])

Send(s) == SendMeta(s) \/ SendSource(s) \/ SendRepair(s)

\* Mutant of SendTooLarge: the datagram is dropped and the loop tries it again.
SendTooLarge_Retries(s) ==
    /\ pending(s)
    /\ ~fits(next_message(s))
    /\ UNCHANGED sender_vars

\* The encoded message exceeds the datagram limit: `?' abandons the rest.
SendTooLarge(s) ==
    /\ pending(s)
    /\ ~fits(next_message(s))
    /\ Fail(s, "DatagramTooLarge")

\* The socket returns an error, or the process is killed.
SendIoError(s) ==
    /\ pending(s)
    /\ Fail(s, "Io")

\* Mutant of Finish: the repair loop ends one packet early.
Finish_Early(s) ==
    /\ phase[s] = "Sending"
    /\ packets_sent(s) = Len(packets[s]) - 1
    /\ phase' = [phase EXCEPT ![s] = "Finished"]
    /\ UNCHANGED <<sent, bytes_sent, error, report>>

Finish(s) ==
    /\ phase[s] = "Sending"
    /\ packets_sent(s) = Len(packets[s])
    /\ phase' = [phase EXCEPT ![s] = "Finished"]
    /\ Report(s, [type |-> "SenderFinished", source_packets |-> Len(source[s]),
                  repair_packets |-> Len(repair[s]), bytes_sent |-> bytes_sent[s],
                  planned_bytes |-> planned_bytes[s]])
    /\ UNCHANGED <<sent, bytes_sent, error>>

\* Steps that put nothing on the wire, apart from I/O failures.
LocalStep(s) == Start(s) \/ StartFails(s) \/ SendTooLarge(s) \/ Finish(s)

SenderStep(s) == LocalStep(s) \/ Send(s) \/ SendIoError(s)

SenderNext == \E s \in Senders : SenderStep(s)

SenderSpec == SenderInit /\ [][SenderNext]_sender_vars

-----------------------------------------------------------------------------
sent_packets(s) == {sent[s][i] : i \in 2..Len(sent[s])}

\* The spec a receiver derives from the metadata of s.
announced(s) == meta_spec(sent[s][1])

\* Every message is one the wire format can carry (u8, u16 and u32 fields).
SenderTypeOK ==
    \A s \in Senders :
        /\ phase[s] \in {"Idle", "Sending", "Finished", "Failed"}
        /\ \A i \in DOMAIN sent[s] : sent[s][i] \in WireMessage
        /\ bytes_sent[s] \in Nat

\* A symbol size that does not fit the u16 of the metadata is truncated there, yet no
\* packet ever follows such metadata: the datagram limit stops the sender first.
NoPacketAfterTruncatedMeta ==
    \A s \in Senders :
        sent_packets(s) # {} => announced(s).symbol_size_t = Job[s].spec.symbol_size_t

\* Unless the u32 field cuts it off, the ESI on the wire names, to the decoder built from
\* the announced spec, the very symbol the packet carries, for source and repair packets of
\* both codecs.
EsiNamesSymbol ==
    \A s \in Senders : \A i \in 2..Len(sent[s]) :
        planned(s)[i - 1].esi < U32 =>
            coded_id_of(announced(s), sent[s][i].esi) = sent[s][i].symbol.coded_id

\* Repair rounds never repeat a symbol: every packet adds one the decoder may need.
EachSymbolOnce ==
    \A s \in Senders : \A i, j \in 2..Len(sent[s]) :
        sent[s][i].symbol = sent[s][j].symbol => i = j

\* A call that returns Ok has sent the whole block and the configured number of repair
\* symbols; with progress, exactly the planned bytes, which no report ever exceeds.
FinishedSentEverything ==
    \A s \in Senders :
        LET k == num_source(Job[s].spec)
            n == Job[s].repair_count * Job[s].repair_rounds
        IN  phase[s] = "Finished" =>
                {p.symbol.coded_id : p \in sent_packets(s)} =
                    0..(k - 1) \cup {repair_coded_id(Job[s].spec, j) : j \in 0..(n - 1)}

BytesAsPlanned ==
    \A s \in Senders :
        /\ bytes_sent[s] <= planned_bytes[s]
        /\ phase[s] = "Finished" => bytes_sent[s] = planned_bytes[s]

\* send_object always returns.
SendersReturn == \A s \in Senders : <>(phase[s] \in {"Finished", "Failed"})

\* "sbn and esi are payload identifiers, not the codec engine's internal coded IDs"
\* (lib.rs:90): the repair ESIs follow the source ESIs, as RFC numbering has them.
EsiIsPayloadIdentifier ==
    \A s \in Senders : \A p \in sent_packets(s) :
        \/ p.esi < num_source(Job[s].spec)
        \/ \E j \in 0..(Job[s].repair_count * Job[s].repair_rounds - 1) :
              p.esi = num_source(Job[s].spec) + j
=============================================================================
