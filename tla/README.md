# fountain_transfer in TLA+

`fountain_transfer` sends one file over UDP with a fountain code: a sender
transmits the K symbols of the file and any number of repair symbols, and a
receiver rebuilds the file from (nearly) any K of them. Nothing is acknowledged
and nothing is retransmitted, so what the program promises has to survive loss,
duplication, reordering, and other senders at the same port. This directory
models that program: TLA+ modules translated from the Rust sources, TLC
configurations that check them on small instances, and TLAPS proofs of the
main properties for every instance.

Run in this directory:

    tlc -config MCReceiver.cfg MCReceiver       # one of the runs below
    tlapm ReceiverProofs.tla                    # the proofs

## 1. The system

| Component | Source | State | Operations | Model |
|---|---|---|---|---|
| Symbol layout | `rfc6330_layout.rs`, `rfc5053_layout.rs` (same code) | none | `calc_k`, `pad_object_to_k_symbols`, `split_into_symbols`, `assemble_payload_from_symbols` | `Layout` |
| ESI mapping | `rfc6330_mapping.rs` | none | payload ESI to coded id and back | `Codec` |
| Codec facade | core `lib.rs`, `rfc6330_codec.rs`, `rfc5053_codec.rs` | the decoder's accumulated symbols | `TransferSpec::new`, `source_packets`, `repair_packets`, `add_packet`, `decode_status`, `recover_object` | `Codec` |
| Storage managers | core `lib.rs` | the slab of stored packets | `store_packet`, `packet`, both `new_with_storage_manager` | `Facade` |
| Codec builders | both codecs | the parameters they forward | `build_with_...` | not modelled |
| Wire protocol | `protocol.rs` | none | the two messages, conversions both ways | `Protocol` |
| UDP transport | `net.rs` | socket, timer | `send_message_counted`, `recv_datagram_timeout` | `Sender`, `Receiver`, `TimedReceiver` |
| Network | external | datagrams in flight | delivers, loses, duplicates, reorders | `Network` |
| Receiver | `receiver.rs` | session, decoder, two counters, ignored counter | one loop, two message types, seven reasons to ignore a datagram | `Receiver`, `TimedReceiver` |
| Sender | `sender.rs` | precomputed packets, position, bytes sent | one pass over metadata, source and repair packets | `Sender` |
| Progress events | `progress.rs` | none | the events, `decode_percent` | `Receiver`, `Sender` |
| Progress printer | `main.rs` | the band of five percent last reported | `emit` | `ProgressPrinter`, `PrintedReceiver`, `PrintedSender` |
| Session ids | `session.rs` | none | `from_file_and_cli`, `random_session_id` | `Fountain`, `SessionId` |
| Command line | `main.rs`, wrappers in `receiver.rs`, `sender.rs` | the process, the output file | refuse, run, write the file, exit | `Fountain` |

**Interaction.** A sender computes every packet before it sends the first. It
then sends `SessionMeta` once, and every packet once. The receiver adopts the
session of the first valid `SessionMeta` it sees (or only the one given by
`--session-id`), drops what belongs to no session or to another, feeds the rest
to a decoder, and returns as soon as the decoder has solved the block, or when
the socket stays silent for the idle timeout. The parts share nothing but
datagrams; progress is reported to the caller through callbacks, which the command
line program turns into lines on the screen. It writes the output file once
the call has returned an object, and leaves with success or failure. The codec
library can also be used without the network, with the client's own store of packets.

**What is hard here.**

- *Delivery.* The metadata is sent once. Packets that overtake it are dropped; a
  duplicate of it in mid-transfer discards all progress.
- *Two pieces of state for one fact.* `session` and `decoder` are separate
  `Option`s, and the packet arm unwraps the decoder with `expect`.
- *Interleaved senders*, the same session id among them: a packet carries a
  session id, and nothing that tells one accumulation from its predecessor.
- *Narrowing casts* on the way to the wire, with the datagram limit checked
  message by message while the transfer is already under way.
- *Two numberings of repair symbols*, one per codec, at both ends.
- *Timer.* Each datagram, useful or not, restarts it.
- *Files and crashes.* The output file is written in place, so a crash leaves a torn one;
  a receiver launched again joins in the middle of traffic meant for the one before.
- *The printer's memory.* The band last printed lives outside the session it is about.

`PROJECT.json` lists these as hazards with their lines and the properties that
cover them.

## 2. The modules

    Layout <- Codec <- Protocol <- Receiver <- TimedReceiver
                ^         ^            ^ <---- PrintedReceiver ---> ProgressPrinter
                |         |            |                                  ^
              Facade    Sender ---- Transfer ---- Network                 |
                          ^            | ^   refines TransferAbstract     |
                          |            | Fountain                         |
                          +----------------------- PrintedSender ---------+

    SessionId stands alone and holds its own proof.  The other proofs:

    CodecProofs (Layout, Codec) <- FacadeProofs
           ^
      SenderProofs   ReceiverProofs
           ^          ^        ^
         TransferProofs     TimerAndPrinterProofs (TimedReceiver and PrintedReceiver here,
           ^                   PrintedSender over SenderProofs)
      FountainProofs

**Layout** has the four layout functions on sequences of bytes.

**Codec** is the facade. The code itself, in the external crate
`fountain_engine`, is two constants: `NumTotal(kind, K)`, the engine's
`num_total()`, and `Decodable(K, ids)`, whether a set of coded ids determines a
block. An encoded symbol is a record naming the object, its coded id, its length
and the code that computed it; source symbols are the same whatever the code. A
decoder is its spec and the set of (coded id, symbol) pairs given to it.
`recover_object` returns the object all of whose symbols agree with the set, and
`Garbled` if there is none: this is how mixing two objects becomes visible.

**Facade** is a client of the library: it builds the encoder and the decoder of one transfer, with or
without a `SlabStorageManager`, stores packets, feeds them directly or through the handles it was given,
and calls `recover_object` whenever it likes. Objects are sequences of bytes here, and the bytes returned go through
`Layout`. `ForeignPackets` are packets of other source blocks and symbol sizes, which `add_packet`
rejects; every packet of the right size is the encoder's.

**Protocol** has the two messages with their widths (`u16` symbol size, ESI
modulo `U32`), their encoded lengths, and each decoding error, in the order of
the checks. A datagram that bincode rejects is `Malformed`.

**Receiver** is `receive_object_with_socket_impl`. One action is one iteration of
its loop, from the datagram to `continue` or `return`; nothing inside an
iteration awaits, so this is the code's own granularity.

| Action | Code |
|---|---|
| `IgnoreDatagram` | every early `continue` through `emit_ignored`; the reason is `verdict` |
| `EstablishSession` | the accepted `SessionMeta` arm: new decoder, counters to zero, event |
| `AcceptPacket` | a packet added, the block not yet decoded |
| `CompleteTransfer` | the packet that completes decoding, with both events and the return |
| `ReceiveTimeout`, `ReceiveIoError` | the two errors of `recv_datagram_timeout` |

`events` holds the progress events of the last iteration, `result` the returned
value. With `ReceiveTimeout` always possible the timeout may be as short as one likes;
**TimedReceiver** adds the clock: `waiting` is the age of the current
`recv_datagram_timeout`, `quiet` the time since a datagram was last accepted (an
observer).

**Sender** is `send_object_with_socket_impl` for a set of concurrent senders. One
action is the work up to the next `await`: `Start` computes all the packets and
reports the plan, `SendMeta`, `SendSource` and `SendRepair` transmit one message,
`SendTooLarge` is the datagram limit, `SendIoError` a failing socket (or a crash),
`Finish` the last event. `sent` records the wire messages in order.

**ProgressPrinter** is `ProgressPrinter::emit`: which event becomes a line, and the band it remembers.
**PrintedReceiver** and **PrintedSender** hand every event of a `Receiver` or `Sender` step to it, in that step,
since the callback is synchronous. An iteration has at most two events, and `emit_all` folds `emit` over them. `shown` is what a user has read off the screen.

**Network** keeps a set of datagrams in flight. Delivery is in any order; losses and
duplicates have budgets. **Transfer** composes the three, one step of one of them
at a time; **TransferAbstract** is the caller's view: adopt at most one session, return
its object or an error, once. **TransferRestarts** is `Transfer` with a history variable, used by `stale_packets` only:
whose metadata started each accumulation, and which datagrams were then in flight.

**Fountain** puts the processes of the command line around `Transfer`.

| Action | Code |
|---|---|
| `SendProcess` | `fountain send` inside `send_object` |
| `SendRefused` | the four errors of `run` before a sender exists, in their order |
| `SendProcessFails` | no socket, a failing send, a kill |
| `LaunchRecv` | `fountain recv`, again after any end of the last one; the loop's variables begin anew |
| `RecvDelivers`, `RecvTimesOut`, `RecvCallFails` | the receive call |
| `Unheard` | a datagram that arrives while no receiver runs |
| `RecvExits` | an error, mapped by `map_receive_error` |
| `OpenOutput`, `WriteOutput` | `fs::write`: truncate, then write; a crash may come between |
| `WriteFails`, `KillRecv` | a full disk or a path that cannot be opened; a kill at any point |

`output` is the content of the path, `Torn` one that is empty or partly written. `MaxFaults` bounds
everything that goes wrong.

**SessionId** has `random_session_id` on bits.

Definitions with a suffix and the comment "Mutant of" are faulty variants of the
definition they name; nothing uses them. Putting one in that definition's place
makes TLC report the property listed with it in `PROJECT.json`, which shows that the
property depends on the code being right.

## 3. The runs

| Run | States | Question and bounds |
|---|---|---|
| `facade` | 190160 | Objects of 1 to 6 bytes over {0, 1} and symbol sizes 1 to 4 are laid out: round trip, tightness of K. Lengths below, at and between multiples of the symbol size occur, as do objects ending in zeroes. The transfers of objects of up to three bytes are played in every order, with a slab of two and two repair symbols, managers of the right and the wrong size, and specs with a length of zero, another length than the object's, and a symbol size of zero. |
| `receiver` | 3855 | 18 datagrams, of every valid, foreign, duplicate, conflicting and invalid kind, in every order, with the printer. |
| `timed` | 1595 | The loop with `--session-id` and a two-tick timeout; an own and a foreign session. |
| `sender` | 20808 | Five senders at once (see below), each of whose sends may fail, with the printer. |
| `transfer` | 341031 | Two senders of two sessions, objects and codecs; two strays, one malformed and one metadata of the first session in another version of the protocol; one loss, one duplicate; crashes; timeouts at any moment. |
| `transfer_live` | 11449 | One sender with two repair symbols, two losses, one duplicate: liveness. |
| `fountain` | 112303 | A file of one symbol sent twice under one session id, with two repair symbols and without, so that the source symbol or both repair symbols decode; a refused command; two launches of the receiver; one fault, of any kind, anywhere. |

The receiver's alphabet has two own metadata frames that differ in the symbol size (so that
a restart changes K between 3 and 1, under packets of the old size), a foreign one, one of
every metadata error, packets 0 to 4 of a block of K = 3, a packet of another object under the
own session, and one of each packet error. `MaxAccepted = 5` exceeds K + 1, so
duplicates, a decodable set with a missing source symbol and one without occur; an accumulation passes several
bands and samples before it is restarted. `MaxIgnored = 3` reaches the first ignored datagram and a sampled one
(`SampleEvery` is 2 there, 3 for the senders, 100 in the code). The
code used by the runs decodes from all source symbols or from any K + 1, so that K
symbols are sometimes enough and sometimes not.

The senders are RaptorQ with two repair rounds of two and progress reports,
Raptor10 without, symbol size 65500 (metadata fits, packets do not), symbol size
65538 (does not fit `u16`), and an object whose length is not the spec's.

Deadlock checking is off where the modelled calls return: there is nothing left to
do then.

The width of the u32 fields is a constant: `U32` is 8 in `sender`, where the repair symbols of the Raptor10
sender have the coded ids 5 to 8: 7 is the largest that fits and 8 is cut off to 0, so the cast is exercised on both sides of its
boundary. `SenderTypeOK` says that what goes out fits the field even then, and `EsiNamesSymbol` is about the ESIs that fit. `U32` is 9 in
`raptor10_esi` and 1000 in the others, out of their reach. `MAX_DATAGRAM` and `U16` are the real values.

In `fountain`, one fault is enough to lose a datagram, the receiver, the sender or the write at any point and see
the second launch deal with it. Two launches, since a third begins in the same states as the second.
The datagrams left over from a first transmission meet the second receiver, in any order with those of the
second, and what one transmission has lost the other brings. Blocks of several source symbols are left to `transfer`: the fairness
of this run is costly to check, and its questions are about processes and files.

### What the properties say

*Library.* `RecoverHonest`: bytes that `recover_object` returns are the object's, whatever was offered to the decoder and however
early it is asked. `HandleNamesPacket`: a handle keeps its packet. `BlockIsTight`, `RoundTrip`:
the layout.

*Receiver.* `DecoderFollowsSession`: the `expect` cannot panic and no packet is decoded under another
spec than it was checked against. `CountersMatchDecoder`: counters and decoder describe the
same accumulation across restarts. `StickySession`, `ExpectedSessionOnly`: which session.
`ProgressLostOnlyToRestart`: only accepted metadata discards symbols.
`CompletesExactlyWhenDecodable`: neither early nor late. `HundredPercentMeansDone`: progress
is honest. With the clock: `TimeoutOnlyAfterSilence`, `ReturnsOrKeepsReceiving`. On the screen:
`ScreenIsFresh`, the counts lag by less than a sample; `BandOnScreen`, the band reached is shown, after a restart too;
`NoBandTwice`, and shown once.

*Sender.* `EsiNamesSymbol`: the decoder built from the announced metadata files each symbol
whose ESI fits the field under the coded id it was computed with. `SenderTypeOK`: every message fits its u8, u16 and u32 fields. `EachSymbolOnce`, `FinishedSentEverything`,
`BytesAsPlanned`: the rounds cover the plan without overlap. `NoPacketAfterTruncatedMeta`: a
truncated symbol size is announced, but no packet follows. `SenderScreenIsFresh`: the screen keeps up with
the socket and ends with the completion line exactly if the call succeeded. `SendersReturn`.

*System.* `OutcomeIntegrity`: what is returned is the adopted session's object. `SpecAgreement`:
symbols are accumulated under the spec they were encoded with. `ImplementsAbstract`: refinement of
`TransferAbstract`. `CompletesIfEnoughRemains`: once the session stands, if
what has arrived and what is still to come decodes under every loss still possible, the
transfer completes. `ReceiverReturns`: the call returns in any case.

*Program.* `FileKeptUntilDecoded`: the output file is only touched after decoding. `SuccessMeansFile`: a success exit
means the whole object of a sender of the session is in the file. `RetrySucceeds`: a receiver launched again after a fault,
over a torn file and among left-over datagrams, ends with success once no further fault happens and its session's
remaining datagrams are enough.

### Fairness

Senders take their steps (`WF` on every step but an I/O failure: a UDP send and the pacing sleep complete, and
the loop contains nothing else to wait for); what is in flight and not lost is delivered (`WF` on delivery); an expired timer
fires (`WF`, tokio's `timeout`). Loss is never fair. `FairSystemSpec` assumes no I/O error and an
idle timeout above each gap between datagrams, so the timer fires only when
nothing is on its way; without that a slow network may always lose the race, which
`SystemSpec` allows and the safety runs check. `FairTimedSpec` does not assume that datagrams arrive.
`FountainSpec` assumes that as long as a sender can go on, a datagram can be delivered or an `fs::write` can end, one of
them does: less than fairness for each process, and enough, since each takes finitely many such steps. Launching the receiver, timers and
faults are not fair there. `PrintedSenderSpec` has the fairness of the senders: printing adds no step of its own.

## 4. Where the code and its documentation differ

Each of these runs checks one sentence of the documentation, and TLC finds it violated.

| Run | Sentence | What happens |
|---|---|---|
| `raptor10_esi` | core `lib.rs:90`, `sbn` and `esi` are "payload identifiers, not the codec engine's internal coded IDs" | a Raptor10 repair packet has `num_total + index`, the coded id, as its ESI. Both ends agree on it (`EsiNamesSymbol`), so transfers work. |
| `custom_tuning` | `session.rs:1`, parameters "shared by sender and receiver" | the metadata has no field for `dmax` and LDPC type: a custom spec is decoded under the defaults |
| `stale_packets` | `README.md:91-95`, "Malformed, stale, and foreign datagrams are ignored"; new metadata of the session "intentionally resets the decoder and starts accumulation over" | the metadata of the first object is accepted, then that of the second under the same id (the restart), then a packet of the first that was in flight before the restart: it is decoded. With equal objects (`fountain`) this is harmless. |
| `idle_timer` | `main.rs:96`, "Exit if no matching datagram arrives for this many seconds" | any datagram restarts the timer |
| `disabled_codec` | `progress.rs:18`, "invalid transfer dimensions" | valid dimensions for a codec left out of the build are reported this way too |

## 5. The proofs

`ReceiverProofs` proves for every set of datagrams, sessions, objects, peers, block sizes and every code
what the receiver runs check on their alphabet. The inductive invariant is

    IInv == TypeOK /\ DecoderFollowsSession /\ SpecUsable

`TypeOK` alone is not inductive: `add_packet` needs the decoder to be there
(`DecoderFollowsSession`), and the percentage in an event needs K to be a positive number, that is, an
accepted spec with valid dimensions (`SpecUsable`: the session's spec passes `validate_spec` and its K is in
`BlockSizes`). With it:

| Theorem | Property |
|---|---|
| `TypeCorrect` | `TypeOK` |
| `DecoderAlwaysThere` | `DecoderFollowsSession` |
| `SessionSticks`, `OnlyExpectedSession` | `StickySession`, `ExpectedSessionOnly` |
| `CountersCorrect` | `CountersMatchDecoder`, strengthened by the finiteness of the symbol set, which cardinality needs |
| `CompletesExactly` | `CompletesExactlyWhenDecodable` |
| `HundredPercentIsHonest` | `HundredPercentMeansDone` |
| `ProgressIsKept` | `ProgressLostOnlyToRestart` |

`FacadeProofs` proves of the codec library, for all transfers, objects, symbol sizes, codes and packets:

| Theorem | Property |
|---|---|
| `RecoversHonestly` | `RecoverHonest` |
| `HandlesNamePackets` | `HandleNamesPacket` |
| `BlocksAreTight`, `RoundTripIsExact` | `BlockIsTight`, `RoundTrip` |

Its inductive invariant `FacadeInv` says that everything stored is `Genuine` (rejected by the decoder, or holding the symbol its
ESI leads to), that the decoder therefore holds only the object's symbols, and that an encoder exists only for a
spec that describes the object. `RecoverHonest` alone is not inductive: it says nothing of a decoder
before it has been asked. A decoded decoder holds at least one symbol (`EngineAssumption`), so only one object explains its
symbols; that the bytes assembled from it are its own is `LayoutRoundTrip`, proved in `CodecProofs` by dividing each byte's position
by the symbol size.

`SenderProofs` proves of the senders, for all jobs, codes and progress settings:

| Theorem | Property |
|---|---|
| `SenderTypeCorrect` | `SenderTypeOK` |
| `TruncationStopsSender` | `NoPacketAfterTruncatedMeta` |
| `EsiNamesItsSymbol`, `SymbolsDistinct` | `EsiNamesSymbol`, `EachSymbolOnce` |
| `NothingLeftUnsent`, `BytesMatchPlan` | `FinishedSentEverything`, `BytesAsPlanned` |

The inductive invariant `SenderInv` says that what a sender has handed to its socket is a prefix of its plan (the metadata,
then `packets`), that each message of it was below the datagram limit, and that the byte counter is the length of that prefix. None of
the properties is inductive: they read the messages sent, and the next message is determined by the plan, not by
those before it. `NoPacketAfterTruncatedMeta` follows since a packet that passed the limit has a symbol of less than 2^16 bytes.
`EsiNamesSymbol` and `EachSymbolOnce` rest on `CodecProofs`. Nothing is assumed of how many packets a sender has: `SenderTypeOK` holds
through the narrowing of `packet_message`, and `EsiNamesSymbol` says itself which ESIs it is about.

`TransferProofs` proves of sender, network and receiver together, for any number of senders, losses and duplicates:

| Theorem | Property |
|---|---|
| `OutcomeIsSound` | `OutcomeIntegrity` |
| `SpecsAgree` | `SpecAgreement` |
| `SystemRefinesAbstract` | `ImplementsAbstract` |

Its invariant is `SystemInv == IInv /\ SenderInv /\ NetInv /\ ReceptionInv`: each datagram in flight is a stray or a message of a sender's plan
(`NetInv`); the session is what the metadata of a sender that can encode says (`SessionInv`); every symbol in the
decoder is the one some sender of the session encoded, under the decoder's spec, for the coded id it is filed under (`SymbolsInv`). The object all
of them agree with is then the senders' own, and the decoder does not return another because a decodable set has a symbol in it.
For the refinement every step of the system is a step of the abstract receiver or leaves its variables alone: adoption by
`EstablishSession`, the return by `CompleteTransfer` or a failure, everything else a stutter.

These theorems have hypotheses, because the claims need them and the wire format does not check them:

- `SessionsAgree`: senders of one session id send one object under one spec. Without it packets of one object are decoded as those of another, as the run
  `stale_packets` shows.
- `DefaultTunings`: the codec settings that the metadata does not carry are the defaults. Without it the two ends differ, as `custom_tuning` shows.
- `EsisFit`: no sender has so many packets that an ESI is cut off to 32 bits. It holds them all in memory, so this is a bound on
  memory; without it a packet may be filed as another symbol.
- `StraysUnrelated`: what other programs send is malformed, of another version, or of no session of ours. Anyone who sends
  well-formed packets under the session's id can spoil a transfer; nothing authenticates them.

The runs `transfer` and `fountain` satisfy them; `MCFountain` has TLC evaluate them (`HypothesesHold`).

`FountainProofs` proves of the command line program, for all commands, senders, strays and numbers of launches and
faults: `FileKept` (`FileKeptUntilDecoded`), from the invariant that the process only writes once its
receive call has returned an object (`WritesOnlyDecoded`), and that a call that has returned takes no further step; and,
with `SystemInv`, which a launch among left-over datagrams re-establishes, `LaunchesAreSound` (`OutcomeIntegrity`)
and `SuccessLeavesFile` (`SuccessMeansFile`). The default tunings are no hypothesis here: the command line cannot set others.

`TimerAndPrinterProofs` proves what clock and printer add. `TimedImplementsReceiver`, `PrintedImplementsReceiver` and
`PrintedImplementsSender` are refinements: with them every theorem above on `ReceiverSpec` and `SenderSpec` holds of the timed and
printed programs. On top:

| Theorem | Property |
|---|---|
| `NeverTimedOutEarly` | `TimeoutOnlyAfterSilence`, from the invariant that the age of the current wait never exceeds the silence |
| `CountsStayFresh` | `ScreenIsFresh` |
| `BandStaysOnScreen`, `BandsAnnouncedOnce` | `BandOnScreen`, `NoBandTwice` |
| `SenderScreenStaysFresh` | `SenderScreenIsFresh` |

`PrinterInv` strengthens `ScreenIsFresh` to a lag of at most `n % SampleEvery` after n events: "less than a sample" alone is lost
when the next event is not a multiple. It ties the band the printer remembers to the receiver's present estimate, of which every band on the screen is at most; since
the estimate grows with the accumulation, a band is left behind for good. `PrintedSenderInv` adds to `SenderInv` which event a sender reported last, because
the model lets the printer see an event by its differing from the one before.

`SessionId` proves that two different readings of the clock give different session ids, as long as a reading fits in 64 bits
(until the year 2554): the upper half of an id is that of the reading, and undoes the xor of the lower one. Two machines
that read the same nanosecond draw the same id.

`CodecProofs` proves, for every K and every repair index, that the ESI a symbol is sent under leads the decoder
to its coded id (`RepairEsiNamesSymbol`) and that distinct ESIs have distinct coded ids
(`CodedIdsDistinct`), for both codecs; that `calc_k` rounds up and never too far (`CalcKTight`); and that the layout loses nothing
(`LayoutRoundTrip`).

*Induction and folds.* Counters summed with `FoldLeft`, the lines of a fold over events, and the flattening of symbols are recursive
functions hidden in a `CHOOSE`. The proofs get at them in two ways. Where a length is arbitrary (`SumOfEqualLengths`, `FlattenBlocks`)
induction is over a set: the numbers for which the claim fails are a subset of the naturals, and a non-empty one has a least
element (`LeastNatural`, `SetInduction`), which needs no operator as a parameter. Where it is at most two (the events of one iteration) the
equation is unrolled twice. In both, a solution of the equation is written down first, since `CHOOSE` says nothing otherwise.

Assumptions, all evaluated by TLC in the runs: object lengths are naturals, the enabled codecs are codecs
(`ObjectsAssumption`, `CodecAssumption`), `num_total` is at least K and the empty set of symbols decodes nothing
(`EngineAssumption`), the objects of `Facade` are sequences of numbers and the packets that are not its encoder's are of another source
block or size (`ByteObjects`, `FacadeAssumption`), K of each datagram's spec is one the engine is asked about, and `None` is none of the
values it stands beside (`ReceiverAssumption`), jobs are jobs (`JobAssumption`), a sender's K is one the engine is asked about too (`SizeAssumption`), the datagrams and peers of the receiver include the senders' and the strays'
(`NetworkAssumption`), an accepted command's job is the one the program builds (`CommandAssumption`), a torn or old file is no object (`FileAssumption`), and
the width of the u32 fields, the sample interval and the timeout are positive.

Model-checked only: the liveness properties (`CompletesIfEnoughRemains`, `ReceiverReturns`, `RetrySucceeds`, `SendersReturn`,
`ReturnsOrKeepsReceiving`), since liveness under fairness and enabledness are outside what TLAPS proves; and of course the five
violations of section 4. Every safety property that a passing run checks is a theorem.

## 6. Abstractions and what is missing

- Symbols are records, not bytes. That an encoder and decoder of `fountain_engine` invert each other is assumed
  (`recover_object`), as is which sets decode (`Decodable`).
- Pacing, socket buffers, logging, and bincode's byte layout are left out. Session ids, peers and objects are
  model values.
- The receiver runs bound ignored datagrams and packets per accumulation (`MaxIgnored`, `MaxAccepted`);
  in `Transfer` the finite senders and the duplicate budget bound them instead.
- A `usize` is 64 bits wide: the transfer length of the metadata, a u64, is taken as it is (`meta_spec`). On a 32-bit target the
  code would cut it off.
- K is restricted to `BlockSizes`. The engine's limits on K are not in this repository; the receiver passes
  whatever the metadata says.
- `fs::write` is two steps, truncation and content; a torn file is one value, however much of it was written.
- Not modelled: the codec builders, which hold and forward parameters; the data operators storage managers create, which are the
  engine's; `k_prime` and `num_padding`, which only tests read; clap's argument parsing and the wording of
  messages; `receive_to_file` and `send_file` as actions apart from the command line's, which make the same calls in the same order.

## 7. Plan

Done: all modules above, their runs, and a proof of every safety property they check. What is left:

1. The safety half of `CompletesIfEnoughRemains`: from `SystemInv`, that `EnoughRemains` is kept by every step that is neither a
   restart nor a loss beyond the budget, so that only its fairness argument rests on TLC.
2. The safety half of `SendersReturn`: a measure of what a sender still has to do that every step of its own lowers.
3. The safety half of `RetrySucceeds`: a launch, after whatever fault and whatever the file holds, begins in an initial state of `Receiver`.
