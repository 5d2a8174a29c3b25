---------------------------- MODULE ProgressPrinter ----------------------------
(***************************************************************************)
(* ProgressPrinter of main.rs: which progress events become a line on      *)
(* stderr.  Its only state is the band of five percent last reported; None *)
(* and Some(0) behave alike there (unwrap_or) and are both 0.              *)
(***************************************************************************)
EXTENDS Integers, Sequences

CONSTANT SampleEvery  \* packet lines are sampled at this rate: 100

ASSUME SampleAssumption == SampleEvery \in Nat \ {0}

band(percent) == percent \div 5

sampled(n) == n % SampleEvery = 0

\* Mutant of percent_due: a percentage is due whenever it has a band.
percent_due_Always(last_decode_bucket, percent) == band(percent) > 0 /\ percent < 100

percent_due(last_decode_bucket, percent) ==
    band(percent) > last_decode_bucket /\ percent < 100

\* Mutant of packet_due: the last packet of its kind gets no line of its own.
packet_due_SampledOnly(event) == sampled(event.sent)

\* A sent packet is due every SampleEvery packets and when it is the last of its kind.
packet_due(event) == event.sent = event.total \/ sampled(event.sent)

\* Mutant of emits_line: accepted packets are reported by band only.
emits_line_BandsOnly(last_decode_bucket, event) ==
    CASE event.type \in {"SenderSourcePacketSent", "SenderRepairPacketSent"} -> packet_due(event)
      [] event.type = "ReceiverPacketAccepted" ->
            percent_due(last_decode_bucket, event.decode_percent)
      [] event.type = "ReceiverDatagramIgnored" ->
            event.ignored_datagrams = 1 \/ sampled(event.ignored_datagrams)
      [] OTHER -> TRUE

\* Starts, establishments and completions always get their line.
emits_line(last_decode_bucket, event) ==
    CASE event.type \in {"SenderSourcePacketSent", "SenderRepairPacketSent"} -> packet_due(event)
      [] event.type = "ReceiverPacketAccepted" ->
            \/ percent_due(last_decode_bucket, event.decode_percent)
            \/ sampled(event.packets_accepted)
      [] event.type = "ReceiverDatagramIgnored" ->
            event.ignored_datagrams = 1 \/ sampled(event.ignored_datagrams)
      [] OTHER -> TRUE

\* Mutant of next_bucket: a restarted session does not reset the band.
next_bucket_KeptOnRestart(last_decode_bucket, event) ==
    IF event.type = "ReceiverPacketAccepted" THEN band(event.decode_percent)
    ELSE last_decode_bucket

next_bucket(last_decode_bucket, event) ==
    CASE event.type = "ReceiverSessionEstablished" -> 0
      [] event.type = "ReceiverPacketAccepted" -> band(event.decode_percent)
      [] OTHER -> last_decode_bucket

\* ProgressPrinter::emit, collecting the lines.
emit(printer, event) ==
    [last_decode_bucket |-> next_bucket(printer.last_decode_bucket, event),
     lines |-> IF emits_line(printer.last_decode_bucket, event)
               THEN Append(printer.lines, event) ELSE printer.lines]
=============================================================================
