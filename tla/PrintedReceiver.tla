---------------------------- MODULE PrintedReceiver ----------------------------
(***************************************************************************)
(* `fountain recv --progress': Receiver with the printer as its progress   *)
(* callback.  The callback runs synchronously, so the lines belong to the  *)
(* iteration that emitted the events.  `shown' observes what the user has  *)
(* seen of the present accumulation.                                       *)
(***************************************************************************)
EXTENDS Receiver, ProgressPrinter, SequencesExt

VARIABLES
    printer,  \* [last_decode_bucket, lines]: the lines of the last iteration
    shown     \* [packets, ignored, bands]: counts and bands on the screen

printed_receiver_vars == <<receiver_vars, printer, shown>>

PrintedReceiverInit ==
    /\ ReceiverInit
    /\ printer = [last_decode_bucket |-> 0, lines |-> <<>>]
    /\ shown = [packets |-> 0, ignored |-> 0, bands |-> {}]

read_line(seen, line) ==
    CASE line.type = "ReceiverSessionEstablished" -> [seen EXCEPT !.packets = 0, !.bands = {}]
      [] line.type = "ReceiverPacketAccepted" ->
            [seen EXCEPT !.packets = line.packets_accepted,
                         !.bands = @ \cup {band(line.decode_percent)}]
      [] line.type = "ReceiverDatagramIgnored" -> [seen EXCEPT !.ignored = line.ignored_datagrams]
      [] OTHER -> seen

emit_all(p, seq) == FoldLeft(emit, p, seq)
read_all(seen, lines) == FoldLeft(read_line, seen, lines)

EmitAll ==
    /\ printer' = emit_all([printer EXCEPT !.lines = <<>>], events')
    /\ shown' = read_all(shown, printer'.lines)

PrintedReceiverNext == ReceiverNext /\ EmitAll

PrintedReceiverSpec == PrintedReceiverInit /\ [][PrintedReceiverNext]_printed_receiver_vars

-----------------------------------------------------------------------------
\* "Throttled to every 100 packets": the counts on the screen lag behind the receiver's
\* by less than a sample, across restarts, and the first ignored datagram is shown at once.
ScreenIsFresh ==
    /\ packets_received - shown.packets \in 0..(SampleEvery - 1)
    /\ ignored_datagrams - shown.ignored \in 0..(SampleEvery - 1)
    /\ ignored_datagrams > 0 => shown.ignored > 0

\* "Roughly 5% decode bands": the band the estimate has reached is on the screen, after a
\* restart as well, when the estimate begins anew.
BandOnScreen ==
    LET percent == decode_percent(packets_received, num_source(session.spec), FALSE)
    IN  session # None /\ result = Pending /\ band(percent) > 0 => band(percent) \in shown.bands

\* Between samples a band is announced once per accumulation, however many packets and
\* duplicates fall into it.
NoBandTwice ==
    [][\A i \in DOMAIN printer'.lines :
          LET line == printer'.lines[i]
          IN  line.type = "ReceiverPacketAccepted" /\ ~sampled(line.packets_accepted)
                 /\ line.decode_percent < 100
              => band(line.decode_percent) \notin shown.bands]_printed_receiver_vars
=============================================================================
