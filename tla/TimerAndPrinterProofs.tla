------------------------ MODULE TimerAndPrinterProofs ------------------------
(***************************************************************************)
(* Theorems about what surrounds the receive loop and the senders: the     *)
(* timer of the loop and the printer of progress lines, for every timeout, *)
(* sampling rate, set of datagrams and set of senders.                     *)
(***************************************************************************)
EXTENDS TimedReceiver, PrintedReceiver, PrintedSender, ReceiverProofs, SenderProofs

-----------------------------------------------------------------------------
(* The timer. *)

\* The present wait is never longer than the time without a matching datagram.
TimedInv ==
    /\ waiting \in 0..recv_timeout
    /\ quiet \in Nat
    /\ waiting <= quiet
    /\ TimeoutOnlyAfterSilence

LEMMA TimedInvInit == TimedInit => TimedInv
BY TimeoutAssumption
   DEF TimedInit, ReceiverInit, Pending, TimedInv, TimeoutOnlyAfterSilence

\* An iteration that got a datagram does not return the timeout.
LEMMA ReceiveIsNoTimeout ==
    ASSUME NEW m, NEW peer, Receive(m, peer)
    PROVE  result'.status # "Timeout"
<1>1. result.status # "Timeout"
  BY DEF Receive, Pending
<1>2. CASE IgnoreDatagram(m) \/ EstablishSession(m) \/ AcceptPacket(m)
  BY <1>1, <1>2 DEF IgnoreDatagram, EstablishSession, AcceptPacket
<1>3. CASE CompleteTransfer(m, peer)
  BY <1>3 DEF CompleteTransfer, Outcome
<1> QED BY <1>2, <1>3 DEF Receive

LEMMA TimedInvStep == TimedInv /\ [TimedNext]_timed_vars => TimedInv'
<1> SUFFICES ASSUME TimedInv, [TimedNext]_timed_vars PROVE TimedInv'
  OBVIOUS
<1> USE TimeoutAssumption
<1>1. ASSUME NEW m \in Datagrams, NEW peer \in Peers, TimedReceive(m, peer) PROVE TimedInv'
  <2>1. result'.status # "Timeout"
    BY <1>1, ReceiveIsNoTimeout DEF TimedReceive
  <2>2. waiting' = 0 /\ quiet' \in Nat
    BY <1>1 DEF TimedReceive, TimedInv
  <2> QED BY <2>1, <2>2 DEF TimedInv, TimeoutOnlyAfterSilence
<1>2. CASE Tick
  BY <1>2 DEF Tick, TimedInv, TimeoutOnlyAfterSilence, Pending, receiver_vars
<1>3. CASE TimedTimeout
  BY <1>3 DEF TimedTimeout, TimedInv, TimeoutOnlyAfterSilence
<1>4. CASE TimedIoError
  <2>1. result'.status = "Io" /\ UNCHANGED <<waiting, quiet>>
    BY <1>4 DEF TimedIoError, ReceiveIoError, Failed
  <2> QED BY <2>1 DEF TimedInv, TimeoutOnlyAfterSilence
<1>5. CASE UNCHANGED timed_vars
  BY <1>5 DEF timed_vars, receiver_vars, TimedInv, TimeoutOnlyAfterSilence
<1> QED BY <1>1, <1>2, <1>3, <1>4, <1>5 DEF TimedNext

\* Whatever the timeout and whatever arrives when, the receive call only times out after
\* recv_timeout without an accepted datagram.
THEOREM NeverTimedOutEarly == TimedSpec => []TimeoutOnlyAfterSilence
<1>1. TimedInv => TimeoutOnlyAfterSilence
  BY DEF TimedInv
<1> QED BY <1>1, TimedInvInit, TimedInvStep, PTL DEF TimedSpec

\* With the clock, an accepted step of the loop is still a step of Receiver, so that what
\* ReceiverProofs shows of ReceiverSpec holds of the timed receiver as well.
THEOREM TimedImplementsReceiver == TimedSpec => ReceiverSpec
<1>1. TimedInit => ReceiverInit
  BY DEF TimedInit
<1>2. [TimedNext]_timed_vars => [ReceiverNext]_receiver_vars
  BY DEF TimedNext, TimedReceive, Tick, TimedTimeout, TimedIoError, timed_vars, ReceiverNext
<1> QED BY <1>1, <1>2, PTL DEF TimedSpec, ReceiverSpec

-----------------------------------------------------------------------------
(* The progress callback watches the receive loop and never steers it.     *)

\* With --progress the receive call does nothing it would not do without: every step of the
\* printed receiver is a step of Receiver, and ReceiverProofs applies to it.
THEOREM PrintedImplementsReceiver == PrintedReceiverSpec => ReceiverSpec
<1>1. PrintedReceiverInit => ReceiverInit
  BY DEF PrintedReceiverInit
<1>2. [PrintedReceiverNext]_printed_receiver_vars => [ReceiverNext]_receiver_vars
  BY DEF PrintedReceiverNext, printed_receiver_vars
<1> QED BY <1>1, <1>2, PTL DEF PrintedReceiverSpec, ReceiverSpec

-----------------------------------------------------------------------------
(* Arithmetic of samples and bands. *)

\* A number has one quotient and one remainder.
LEMMA UniqueRemainder ==
    ASSUME NEW s \in Nat \ {0}, NEW q \in Nat, NEW r \in 0..(s - 1)
    PROVE  (q * s + r) \div s = q /\ (q * s + r) % s = r
<1> DEFINE a == q * s + r
           d == a \div s
           m == a % s
<1>1. a \in Nat /\ r \in Nat /\ r < s
  <2>1. q * s \in Nat
    OBVIOUS
  <2> QED BY <2>1
<1>2. d \in Nat /\ m \in 0..(s - 1) /\ a = d * s + m
  BY <1>1, DivMod
<1>3. q * s \in Nat /\ d * s \in Nat /\ q * s + r = d * s + m
  BY <1>2
<1> HIDE DEF a, d, m
<1>4. ~(q < d)
  <2> SUFFICES ASSUME q + 1 <= d PROVE FALSE
    BY <1>2
  <2>1. (q + 1) * s <= d * s /\ (q + 1) * s = q * s + s
    BY <1>2, ProductMonotonic
  <2> QED BY <1>1, <1>2, <1>3, <2>1
<1>5. ~(d < q)
  <2> SUFFICES ASSUME d + 1 <= q PROVE FALSE
    BY <1>2
  <2>1. (d + 1) * s <= q * s /\ (d + 1) * s = d * s + s
    BY <1>2, ProductMonotonic
  <2> QED BY <1>1, <1>2, <1>3, <2>1
<1>6. d = q
  BY <1>2, <1>4, <1>5
<1>7. m = r
  BY <1>1, <1>2, <1>3, <1>6
<1> QED BY <1>6, <1>7 DEF a, d, m

LEMMA NextRemainder ==
    ASSUME NEW s \in Nat \ {0}, NEW n \in Nat, (n + 1) % s # 0
    PROVE  (n + 1) % s = (n % s) + 1
<1> DEFINE q == n \div s
           r == n % s
<1>1. q \in Nat /\ r \in 0..(s - 1) /\ n = q * s + r
  BY DivMod
<1>2. q * s \in Nat
  BY <1>1
<1> HIDE DEF q, r
<1>3. CASE r + 1 < s
  <2>1. r + 1 \in 0..(s - 1) /\ n + 1 = q * s + (r + 1)
    BY <1>1, <1>2, <1>3
  <2>2. (q * s + (r + 1)) % s = r + 1
    BY <1>1, <2>1, UniqueRemainder
  <2> QED BY <2>1, <2>2 DEF r
<1>4. CASE ~(r + 1 < s)
  <2>1. r + 1 = s
    BY <1>1, <1>4
  <2>2. (q + 1) * s = q * s + s /\ q + 1 \in Nat /\ 0 \in 0..(s - 1)
    BY <1>1
  <2>3. n + 1 = (q + 1) * s + 0
    BY <1>1, <1>2, <2>1, <2>2
  <2>4. ((q + 1) * s + 0) % s = 0
    BY <2>2, UniqueRemainder
  <2> QED BY <2>3, <2>4
<1> QED BY <1>3, <1>4

LEMMA QuotientMonotonic ==
    ASSUME NEW a \in Nat, NEW b \in Nat, NEW t \in Nat \ {0}, a <= b
    PROVE  a \div t <= b \div t
<1> DEFINE p == a \div t
           q == b \div t
<1>1. /\ p \in Nat /\ q \in Nat /\ a % t \in 0..(t - 1) /\ b % t \in 0..(t - 1)
      /\ a = p * t + (a % t) /\ b = q * t + (b % t)
  BY DivMod
<1> HIDE DEF p, q
<1> SUFFICES ASSUME q + 1 <= p PROVE FALSE
  BY <1>1 DEF p, q
<1>2. (q + 1) * t <= p * t /\ (q + 1) * t = q * t + t
  BY <1>1, ProductMonotonic
<1>3. p * t \in Nat /\ q * t \in Nat
  BY <1>1
<1> QED BY <1>1, <1>2, <1>3

\* A count that grows by one falls behind by one more, or is sampled.
LEMMA LagGrows ==
    ASSUME NEW n \in Nat, NEW seen, n - seen \in 0..(n % SampleEvery), seen \in Nat,
           ~sampled(n + 1)
    PROVE  (n + 1) - seen \in 0..((n + 1) % SampleEvery)
<1>1. n % SampleEvery \in 0..(SampleEvery - 1) /\ SampleEvery \in Nat \ {0}
  BY SampleAssumption, DivMod
<1>2. (n + 1) % SampleEvery = (n % SampleEvery) + 1
  BY <1>1, NextRemainder DEF sampled
<1> QED BY <1>1, <1>2

\* The estimate of an unfinished decoder never falls within an accumulation.
LEMMA EstimateMonotonic ==
    ASSUME NEW n \in Nat, NEW k \in Nat
    PROVE  /\ decode_percent(n, k, FALSE) \in 0..99
           /\ band(decode_percent(n, k, FALSE)) \in Nat
           /\ band(decode_percent(n, k, FALSE)) <= band(decode_percent(n + 1, k, FALSE))
           /\ decode_percent(0, k, FALSE) = 0
<1>1. CASE k = 0
  BY <1>1 DEF decode_percent, band
<1>2. CASE k # 0
  <2> DEFINE p(x) == (x * 100) \div k
             capped(x) == IF p(x) < 99 THEN p(x) ELSE 99
  <2>1. ASSUME NEW x \in Nat PROVE p(x) \in Nat /\ decode_percent(x, k, FALSE) = capped(x)
    <3>1. x * 100 \in Nat
      OBVIOUS
    <3> QED BY <1>2, <3>1, DivMod DEF decode_percent
  <2>2. p(n) <= p(n + 1)
    <3>1. n * 100 \in Nat /\ (n + 1) * 100 \in Nat /\ n * 100 <= (n + 1) * 100
      OBVIOUS
    <3> QED BY <1>2, <3>1, QuotientMonotonic
  <2>3. p(0) = 0
    <3>1. (0 * k + 0) \div k = 0
      BY <1>2, UniqueRemainder
    <3> QED BY <3>1
  <2>4. n + 1 \in Nat
    OBVIOUS
  <2> HIDE DEF p
  <2>5. capped(n) \in 0..99 /\ capped(n + 1) \in 0..99 /\ capped(n) <= capped(n + 1)
    <3>1. p(n) \in Nat /\ p(n + 1) \in Nat
      BY <2>1, <2>4
    <3> DEFINE u == p(n)
               v == p(n + 1)
    <3>2. u \in Nat /\ v \in Nat /\ u <= v
      BY <2>2, <3>1
    <3> HIDE DEF u, v
    <3>3. LET cap(w) == IF w < 99 THEN w ELSE 99
          IN  cap(u) \in 0..99 /\ cap(v) \in 0..99 /\ cap(u) <= cap(v)
      BY <3>2
    <3> QED BY <3>3 DEF u, v
  <2>6. band(capped(n)) \in Nat /\ band(capped(n)) <= band(capped(n + 1))
    <3> DEFINE u == capped(n)
               v == capped(n + 1)
    <3>1. u \in Nat /\ v \in Nat /\ u <= v /\ 5 \in Nat \ {0}
      BY <2>5
    <3> HIDE DEF u, v
    <3>2. u \div 5 \in Nat /\ u \div 5 <= v \div 5
      BY <3>1, QuotientMonotonic, DivMod
    <3> QED BY <3>2 DEF band, u, v
  <2>7. capped(0) = 0
    BY <2>3
  <2> QED BY <2>1, <2>4, <2>5, <2>6, <2>7
<1> QED BY <1>1, <1>2

-----------------------------------------------------------------------------
(* An iteration emits at most two events. *)

LEMMA MaxOfTwo ==
    /\ Max({1}) = 1 /\ Max({2}) = 2 /\ Max({1, 2}) = 2
    /\ {1} \ {1} = {} /\ {2} \ {2} = {} /\ {1, 2} \ {2} = {1}
<1>1. ASSUME NEW T \in {{1}, {2}, {1, 2}}
      PROVE  Max(T) \in T /\ \A m \in T : Max(T) >= m
  <2>1. T \in SUBSET (0..2) /\ T # {} /\ 2 \in Nat
    OBVIOUS
  <2> QED BY <2>1, GreatestNatural
<1>2. Max({1}) \in {1} /\ Max({2}) \in {2} /\ Max({1, 2}) \in {1, 2} /\ Max({1, 2}) >= 2
  BY <1>1
<1> QED BY <1>2

\* What the printer makes of them.
LEMMA EmitFold ==
    ASSUME NEW p, NEW seq, DOMAIN seq \in {{}, {1}, {1, 2}}
    PROVE  emit_all(p, seq) =
              IF DOMAIN seq = {} THEN p
              ELSE IF DOMAIN seq = {1} THEN emit(p, seq[1])
              ELSE emit(emit(p, seq[1]), seq[2])
<1> DEFINE D == DOMAIN seq
           Equation(f) == f = [T \in SUBSET D |->
                IF T = {} THEN p ELSE emit(f[T \ {Max(T)}], seq[Max(T)])]
           partial == [T \in SUBSET D |->
                IF T = {} THEN p
                ELSE IF T = {1} THEN emit(p, seq[1])
                ELSE IF T = {2} THEN emit(p, seq[2])
                ELSE emit(emit(p, seq[1]), seq[2])]
           iter == CHOOSE f : Equation(f)
<1>1. Equation(partial)
  <2>1. ASSUME NEW T \in SUBSET D
        PROVE  partial[T] = IF T = {} THEN p
                            ELSE emit(partial[T \ {Max(T)}], seq[Max(T)])
    <3>1. T \in {{}, {1}, {2}, {1, 2}}
      OBVIOUS
    <3>2. CASE T = {}
      BY <3>2
    <3>3. CASE T = {1}
      <4>1. Max(T) = 1 /\ T \ {Max(T)} = {}
        BY <3>3, MaxOfTwo
      <4> QED BY <3>3, <4>1
    <3>4. CASE T = {2}
      <4>1. Max(T) = 2 /\ T \ {Max(T)} = {} /\ T # {1}
        BY <3>4, MaxOfTwo
      <4> QED BY <3>4, <4>1
    <3>5. CASE T = {1, 2}
      <4>1. Max(T) = 2 /\ T \ {Max(T)} = {1} /\ T # {1} /\ T # {2} /\ {1} \in SUBSET D
        BY <3>5, MaxOfTwo
      <4> QED BY <3>5, <4>1
    <3> QED BY <3>1, <3>2, <3>3, <3>4, <3>5
  <2> HIDE DEF D
  <2> QED BY <2>1
<1>2. Equation(iter)
  <2> HIDE DEF Equation
  <2> QED BY <1>1
<1>3. emit_all(p, seq) = iter[D]
  BY DEF emit_all, FoldLeft, MapThenFoldSet
<1> HIDE DEF iter
<1>4. ASSUME NEW T \in SUBSET D
      PROVE  iter[T] = IF T = {} THEN p ELSE emit(iter[T \ {Max(T)}], seq[Max(T)])
  BY <1>2
<1>5. {} \in SUBSET D /\ D \in SUBSET D /\ (1 \in D => {1} \in SUBSET D)
  OBVIOUS
<1>6. iter[{}] = p
  BY <1>4, <1>5
<1>7. 1 \in D => iter[{1}] = emit(p, seq[1])
  BY <1>4, <1>5, <1>6, MaxOfTwo
<1>8. D = {1, 2} => iter[{1, 2}] = emit(iter[{1}], seq[2])
  BY <1>4, <1>5, MaxOfTwo
<1> QED BY <1>3, <1>6, <1>7, <1>8

\* What the user reads of the lines.
LEMMA ReadFold ==
    ASSUME NEW p, NEW seq, DOMAIN seq \in {{}, {1}, {1, 2}}
    PROVE  read_all(p, seq) =
              IF DOMAIN seq = {} THEN p
              ELSE IF DOMAIN seq = {1} THEN read_line(p, seq[1])
              ELSE read_line(read_line(p, seq[1]), seq[2])
<1> DEFINE D == DOMAIN seq
           Equation(f) == f = [T \in SUBSET D |->
                IF T = {} THEN p ELSE read_line(f[T \ {Max(T)}], seq[Max(T)])]
           partial == [T \in SUBSET D |->
                IF T = {} THEN p
                ELSE IF T = {1} THEN read_line(p, seq[1])
                ELSE IF T = {2} THEN read_line(p, seq[2])
                ELSE read_line(read_line(p, seq[1]), seq[2])]
           iter == CHOOSE f : Equation(f)
<1>1. Equation(partial)
  <2>1. ASSUME NEW T \in SUBSET D
        PROVE  partial[T] = IF T = {} THEN p
                            ELSE read_line(partial[T \ {Max(T)}], seq[Max(T)])
    <3>1. T \in {{}, {1}, {2}, {1, 2}}
      OBVIOUS
    <3>2. CASE T = {}
      BY <3>2
    <3>3. CASE T = {1}
      <4>1. Max(T) = 1 /\ T \ {Max(T)} = {}
        BY <3>3, MaxOfTwo
      <4> QED BY <3>3, <4>1
    <3>4. CASE T = {2}
      <4>1. Max(T) = 2 /\ T \ {Max(T)} = {} /\ T # {1}
        BY <3>4, MaxOfTwo
      <4> QED BY <3>4, <4>1
    <3>5. CASE T = {1, 2}
      <4>1. Max(T) = 2 /\ T \ {Max(T)} = {1} /\ T # {1} /\ T # {2} /\ {1} \in SUBSET D
        BY <3>5, MaxOfTwo
      <4> QED BY <3>5, <4>1
    <3> QED BY <3>1, <3>2, <3>3, <3>4, <3>5
  <2> HIDE DEF D
  <2> QED BY <2>1
<1>2. Equation(iter)
  <2> HIDE DEF Equation
  <2> QED BY <1>1
<1>3. read_all(p, seq) = iter[D]
  BY DEF read_all, FoldLeft, MapThenFoldSet
<1> HIDE DEF iter
<1>4. ASSUME NEW T \in SUBSET D
      PROVE  iter[T] = IF T = {} THEN p ELSE read_line(iter[T \ {Max(T)}], seq[Max(T)])
  BY <1>2
<1>5. {} \in SUBSET D /\ D \in SUBSET D /\ (1 \in D => {1} \in SUBSET D)
  OBVIOUS
<1>6. iter[{}] = p
  BY <1>4, <1>5
<1>7. 1 \in D => iter[{1}] = read_line(p, seq[1])
  BY <1>4, <1>5, <1>6, MaxOfTwo
<1>8. D = {1, 2} => iter[{1, 2}] = read_line(iter[{1}], seq[2])
  BY <1>4, <1>5, MaxOfTwo
<1> QED BY <1>3, <1>6, <1>7, <1>8

-----------------------------------------------------------------------------
(* The inductive invariant of the printer. *)

\* The band the estimate has reached; none before a session.
estimate_band ==
    IF session = None THEN 0
    ELSE band(decode_percent(packets_received, num_source(session.spec), FALSE))

\* What was counted since the last line about it, never reaching back over a sample.
LagsBehind(n, seen) == seen \in Nat /\ n - seen \in 0..(n % SampleEvery)

PrinterType ==
    /\ printer \in [last_decode_bucket : Nat, lines : Seq(Event)]
    /\ shown \in [packets : Nat, ignored : Nat, bands : SUBSET Nat]

CountsShown ==
    /\ LagsBehind(packets_received, shown.packets)
    /\ LagsBehind(ignored_datagrams, shown.ignored)
    /\ ignored_datagrams > 0 => shown.ignored > 0

BandsShown ==
    result = Pending =>
        /\ printer.last_decode_bucket = estimate_band
        /\ estimate_band > 0 => estimate_band \in shown.bands
        /\ \A b \in shown.bands : b <= estimate_band

PrinterInv == IInv /\ PrinterType /\ CountsShown /\ BandsShown

LEMMA InitPrinterInv == PrintedReceiverInit => PrinterInv
<1> SUFFICES ASSUME PrintedReceiverInit PROVE PrinterInv
  OBVIOUS
<1>1. IInv
  BY InitIInv DEF PrintedReceiverInit
<1>2. PrinterType
  BY DEF PrintedReceiverInit, PrinterType
<1>3. 0 % SampleEvery \in Nat
  BY SampleAssumption, DivMod
<1>4. CountsShown
  BY <1>3 DEF PrintedReceiverInit, ReceiverInit, CountsShown, LagsBehind
<1>5. BandsShown
  BY DEF PrintedReceiverInit, ReceiverInit, BandsShown, estimate_band
<1> QED BY <1>1, <1>2, <1>4, <1>5 DEF PrinterInv

\* What an iteration without an event, with one, and with the completion as its second
\* leaves in the printer and on the screen.
LEMMA PrintNothing ==
    ASSUME PrinterType, EmitAll, events' = <<>>
    PROVE  printer' = [printer EXCEPT !.lines = <<>>] /\ shown' = shown
<1> DEFINE base == [printer EXCEPT !.lines = <<>>]
<1>1. DOMAIN events' = {}
  OBVIOUS
<1>2. printer' = base
  BY <1>1, EmitFold DEF EmitAll
<1>3. printer'.lines = <<>> /\ DOMAIN printer'.lines = {}
  BY <1>2 DEF PrinterType
<1>4. shown' = read_all(shown, printer'.lines)
  BY DEF EmitAll
<1>5. shown' = shown
  BY <1>3, <1>4, ReadFold
<1> QED BY <1>2, <1>5

LEMMA PrintOne ==
    ASSUME PrinterType, EmitAll, NEW e, events' = <<e>>
    PROVE  LET due == emits_line(printer.last_decode_bucket, e)
           IN  /\ printer' = [last_decode_bucket |-> next_bucket(printer.last_decode_bucket, e),
                              lines |-> IF due THEN <<e>> ELSE <<>>]
               /\ shown' = IF due THEN read_line(shown, e) ELSE shown
<1> DEFINE base == [printer EXCEPT !.lines = <<>>]
           due == emits_line(printer.last_decode_bucket, e)
           lines == IF due THEN <<e>> ELSE <<>>
<1>1. DOMAIN events' = {1} /\ events'[1] = e
  BY DEF EmitAll
<1>2. base.last_decode_bucket = printer.last_decode_bucket /\ base.lines = <<>>
  BY DEF PrinterType
<1>3. printer' = emit(base, e)
  <2>1. printer' = emit_all(base, events')
    BY DEF EmitAll
  <2>2. {1} # {}
    OBVIOUS
  <2> HIDE DEF base
  <2> QED BY <1>1, <2>1, <2>2, EmitFold
<1>4. Append(<<>>, e) = <<e>>
  OBVIOUS
<1>5. printer' = [last_decode_bucket |-> next_bucket(printer.last_decode_bucket, e),
                  lines |-> lines]
  <2> HIDE DEF base
  <2> QED BY <1>2, <1>3, <1>4 DEF emit
<1>6. printer'.lines = lines /\ shown' = read_all(shown, lines)
  <2>1. printer'.lines = lines
    BY <1>5
  <2>2. shown' = read_all(shown, printer'.lines)
    BY DEF EmitAll
  <2> QED BY <2>1, <2>2
<1>7. CASE due
  <2>1. lines = <<e>> /\ DOMAIN lines = {1} /\ lines[1] = e /\ {1} # {}
    BY <1>7
  <2>2. shown' = read_line(shown, e)
    <3> HIDE DEF lines
    <3> QED BY <1>6, <2>1, ReadFold
  <2> QED BY <1>5, <1>7, <2>2
<1>8. CASE ~due
  <2>1. lines = <<>> /\ DOMAIN lines = {}
    BY <1>8
  <2>2. shown' = shown
    <3> HIDE DEF lines
    <3> QED BY <1>6, <2>1, ReadFold
  <2> QED BY <1>5, <1>8, <2>2
<1> QED BY <1>7, <1>8

LEMMA PrintTwo ==
    ASSUME PrinterType, EmitAll, NEW e, NEW f, f.type = "ReceiverDecodeComplete",
           events' = <<e, f>>
    PROVE  LET due == emits_line(printer.last_decode_bucket, e)
           IN  /\ printer' = [last_decode_bucket |-> next_bucket(printer.last_decode_bucket, e),
                              lines |-> IF due THEN <<e, f>> ELSE <<f>>]
               /\ shown' = IF due THEN read_line(shown, e) ELSE shown
<1> DEFINE base == [printer EXCEPT !.lines = <<>>]
           due == emits_line(printer.last_decode_bucket, e)
           bucket == next_bucket(printer.last_decode_bucket, e)
           lines == IF due THEN <<e, f>> ELSE <<f>>
<1>1. DOMAIN events' = {1, 2} /\ events'[1] = e /\ events'[2] = f
  OBVIOUS
<1>2. base.last_decode_bucket = printer.last_decode_bucket /\ base.lines = <<>>
  BY DEF PrinterType
<1>3. printer' = emit(emit(base, e), f)
  <2>1. printer' = emit_all(base, events')
    BY DEF EmitAll
  <2>2. {1, 2} # {} /\ {1, 2} # {1}
    OBVIOUS
  <2> HIDE DEF base
  <2> QED BY <1>1, <2>1, <2>2, EmitFold
<1>4. emit(base, e) = [last_decode_bucket |-> bucket, lines |-> IF due THEN <<e>> ELSE <<>>]
  <2>1. Append(<<>>, e) = <<e>>
    OBVIOUS
  <2> HIDE DEF base
  <2> QED BY <1>2, <2>1 DEF emit
<1>5. emits_line(bucket, f) /\ next_bucket(bucket, f) = bucket
  <2> HIDE DEF bucket
  <2> QED BY DEF emits_line, next_bucket
<1>6. printer' = [last_decode_bucket |-> bucket, lines |-> lines]
  <2>1. Append(<<>>, f) = <<f>> /\ Append(<<e>>, f) = <<e, f>>
    <3>1. Append(<<>>, f) = <<f>>
      OBVIOUS
    <3>2. <<e>> \in Seq({e, f}) /\ f \in {e, f} /\ Len(<<e>>) = 1
      OBVIOUS
    <3>3. <<e, f>> \in Seq({e, f}) /\ Len(<<e, f>>) = 2
      OBVIOUS
    <3> DEFINE both == Append(<<e>>, f)
    <3>4. both \in Seq({e, f}) /\ Len(both) = 2 /\ both[1] = e /\ both[2] = f
      BY <3>2, AppendProperties
    <3>5. both = <<e, f>>
      <4> HIDE DEF both
      <4>1. \A i \in 1..Len(both) : both[i] = <<e, f>>[i]
        BY <3>4
      <4> QED BY <3>3, <3>4, <4>1, SeqEqual
    <3> QED BY <3>1, <3>5
  <2> HIDE DEF bucket, base
  <2> QED BY <1>3, <1>4, <1>5, <2>1 DEF emit
<1>7. shown' = read_all(shown, lines)
  <2>1. printer'.lines = lines
    BY <1>6
  <2>2. shown' = read_all(shown, printer'.lines)
    BY DEF EmitAll
  <2> QED BY <2>1, <2>2
<1>8. \A seen : read_line(seen, f) = seen
  BY DEF read_line
<1>9. CASE due
  <2>1. lines = <<e, f>> /\ DOMAIN lines = {1, 2} /\ lines[1] = e /\ lines[2] = f
        /\ {1, 2} # {} /\ {1, 2} # {1}
    BY <1>9
  <2>2. shown' = read_line(read_line(shown, e), f)
    <3> HIDE DEF lines
    <3> QED BY <1>7, <2>1, ReadFold
  <2>3. shown' = read_line(shown, e)
    BY <1>8, <2>2
  <2> QED BY <1>6, <1>9, <2>3
<1>10. CASE ~due
  <2>1. lines = <<f>> /\ DOMAIN lines = {1} /\ lines[1] = f /\ {1} # {}
    BY <1>10
  <2>2. shown' = read_line(shown, f)
    <3> HIDE DEF lines
    <3> QED BY <1>7, <2>1, ReadFold
  <2>3. shown' = shown
    BY <1>8, <2>2
  <2> QED BY <1>6, <1>10, <2>3
<1> QED BY <1>9, <1>10

\* A count just put on the screen, and one that grew without a sample, lag within bounds.
LEMMA LagStep ==
    ASSUME NEW n \in Nat
    PROVE  /\ LagsBehind(n, n)
           /\ \A seen : LagsBehind(n, seen) /\ ~sampled(n + 1) => LagsBehind(n + 1, seen)
<1>1. n % SampleEvery \in Nat
  BY SampleAssumption, DivMod
<1> QED BY <1>1, LagGrows DEF LagsBehind

LEMMA SilentStep ==
    ASSUME PrinterInv, IInv', EmitAll, ReceiveTimeout \/ ReceiveIoError
    PROVE  PrinterInv' /\ printer'.lines = <<>>
<1>1. /\ events' = <<>> /\ result' # Pending
      /\ UNCHANGED <<session, packets_received, ignored_datagrams>>
  BY DEF ReceiveTimeout, ReceiveIoError, Failed, Pending
<1>2. printer' = [printer EXCEPT !.lines = <<>>] /\ shown' = shown
  BY <1>1, PrintNothing DEF PrinterInv
<1>3. PrinterType' /\ printer'.lines = <<>>
  <2>1. <<>> \in Seq(Event)
    OBVIOUS
  <2> QED BY <1>2, <2>1 DEF PrinterInv, PrinterType
<1>4. CountsShown'
  BY <1>1, <1>2 DEF PrinterInv, CountsShown, LagsBehind
<1>5. BandsShown'
  BY <1>1 DEF BandsShown
<1> QED BY <1>3, <1>4, <1>5 DEF PrinterInv

LEMMA IgnoredStep ==
    ASSUME PrinterInv, IInv', EmitAll, NEW m \in Datagrams, IgnoreDatagram(m)
    PROVE  /\ PrinterInv'
           /\ \A i \in DOMAIN printer'.lines :
                 printer'.lines[i].type # "ReceiverPacketAccepted"
<1> DEFINE n == ignored_datagrams
           due == n + 1 = 1 \/ sampled(n + 1)
<1>1. PICK e : e = Ignored(verdict(m), n + 1)
  OBVIOUS
<1>2. events' = <<e>> /\ e.type = "ReceiverDatagramIgnored" /\ e.ignored_datagrams = n + 1
  BY <1>1 DEF IgnoreDatagram, Ignored
<1>3. e \in Event
  <2>1. DOMAIN events' = {1} /\ events'[1] = e
    BY <1>2
  <2> QED BY <2>1 DEF IInv, TypeOK
<1>4. /\ emits_line(printer.last_decode_bucket, e) <=> due
      /\ next_bucket(printer.last_decode_bucket, e) = printer.last_decode_bucket
      /\ read_line(shown, e) = [shown EXCEPT !.ignored = n + 1]
  BY <1>2 DEF emits_line, next_bucket, read_line
<1>5. /\ printer' = [last_decode_bucket |-> printer.last_decode_bucket,
                     lines |-> IF due THEN <<e>> ELSE <<>>]
      /\ shown' = IF due THEN [shown EXCEPT !.ignored = n + 1] ELSE shown
  BY <1>2, <1>4, PrintOne DEF PrinterInv
<1>6. n \in Nat /\ ignored_datagrams' = n + 1
  BY DEF IgnoreDatagram, PrinterInv, IInv, TypeOK
<1>7. PrinterType'
  <2>1. <<>> \in Seq(Event) /\ <<e>> \in Seq(Event) /\ n + 1 \in Nat
    BY <1>3, <1>6
  <2> HIDE DEF due, n
  <2>2. printer' \in [last_decode_bucket : Nat, lines : Seq(Event)]
    BY <1>5, <2>1 DEF PrinterInv, PrinterType
  <2>3. shown' \in [packets : Nat, ignored : Nat, bands : SUBSET Nat]
    BY <1>5, <2>1 DEF PrinterInv, PrinterType
  <2> QED BY <2>2, <2>3 DEF PrinterType
<1>8. shown'.packets = shown.packets /\ shown'.bands = shown.bands
      /\ shown'.ignored = IF due THEN n + 1 ELSE shown.ignored
  BY <1>5 DEF PrinterInv, PrinterType
<1>9. CountsShown'
  <2>1. LagsBehind(n + 1, shown'.ignored)
    <3>1. n + 1 \in Nat /\ LagsBehind(n, shown.ignored)
      BY <1>6 DEF PrinterInv, CountsShown
    <3>2. LagsBehind(n + 1, n + 1)
      BY <3>1, LagStep
    <3>3. ~due => LagsBehind(n + 1, shown.ignored)
      BY <1>6, <3>1, LagStep
    <3> QED BY <1>8, <3>2, <3>3
  <2>2. shown'.ignored > 0
    BY <1>6, <1>8 DEF PrinterInv, CountsShown
  <2>3. LagsBehind(packets_received, shown.packets) /\ packets_received' = packets_received
    BY DEF IgnoreDatagram, PrinterInv, CountsShown
  <2> QED BY <1>6, <1>8, <2>1, <2>2, <2>3 DEF CountsShown
<1>10. BandsShown'
  <2>1. estimate_band' = estimate_band /\ result' = result
    BY DEF IgnoreDatagram, estimate_band, num_source
  <2>2. printer'.last_decode_bucket = printer.last_decode_bucket
    BY <1>5
  <2> QED BY <1>8, <2>1, <2>2 DEF PrinterInv, BandsShown
<1>11. \A i \in DOMAIN printer'.lines : printer'.lines[i] = e
  BY <1>5
<1> QED BY <1>2, <1>7, <1>9, <1>10, <1>11 DEF PrinterInv

LEMMA EstablishedStep ==
    ASSUME PrinterInv, IInv', EmitAll, NEW m \in Datagrams, EstablishSession(m)
    PROVE  /\ PrinterInv'
           /\ \A i \in DOMAIN printer'.lines :
                 printer'.lines[i].type # "ReceiverPacketAccepted"
<1>1. PICK e : e = SessionEstablished(m.session_id, meta_spec(m))
  OBVIOUS
<1>2. events' = <<e>> /\ e.type = "ReceiverSessionEstablished"
  BY <1>1 DEF EstablishSession, SessionEstablished
<1>3. e \in Event
  <2>1. DOMAIN events' = {1} /\ events'[1] = e
    BY <1>2
  <2> QED BY <2>1 DEF IInv, TypeOK
<1>4. /\ emits_line(printer.last_decode_bucket, e)
      /\ next_bucket(printer.last_decode_bucket, e) = 0
      /\ read_line(shown, e) = [shown EXCEPT !.packets = 0, !.bands = {}]
  BY <1>2 DEF emits_line, next_bucket, read_line
<1>5. /\ printer' = [last_decode_bucket |-> 0, lines |-> <<e>>]
      /\ shown' = [shown EXCEPT !.packets = 0, !.bands = {}]
  BY <1>2, <1>4, PrintOne DEF PrinterInv
<1>6. PrinterType'
  <2>1. <<e>> \in Seq(Event)
    BY <1>3
  <2> QED BY <1>5, <2>1 DEF PrinterInv, PrinterType
<1>7. shown'.packets = 0 /\ shown'.bands = {} /\ shown'.ignored = shown.ignored
  BY <1>5 DEF PrinterInv, PrinterType
<1>8. packets_received' = 0 /\ ignored_datagrams' = ignored_datagrams
  BY DEF EstablishSession
<1>9. CountsShown'
  <2>1. LagsBehind(0, 0)
    BY LagStep
  <2> QED BY <1>7, <1>8, <2>1 DEF PrinterInv, CountsShown
<1>10. BandsShown'
  <2>1. session' # None /\ session'.spec = meta_spec(m)
    BY DEF EstablishSession, IInv, DecoderFollowsSession, new_decoder
  <2>2. num_source(session'.spec) \in Nat
    BY <2>1, EngineAssumption DEF IInv, SpecUsable, num_source
  <2>3. decode_percent(0, num_source(session'.spec), FALSE) = 0 /\ band(0) = 0
    <3>1. 0 \div 5 = 0
      OBVIOUS
    <3> DEFINE k == num_source(session'.spec)
    <3>2. decode_percent(0, k, FALSE) = 0
      <4>1. k \in Nat /\ 0 \in Nat
        BY <2>2
      <4> HIDE DEF k
      <4> QED BY <4>1, EstimateMonotonic
    <3> QED BY <3>1, <3>2 DEF band
  <2>4. estimate_band' = 0
    BY <1>8, <2>1, <2>3 DEF estimate_band, num_source
  <2>5. printer'.last_decode_bucket = 0
    BY <1>5
  <2> QED BY <1>7, <2>4, <2>5 DEF BandsShown
<1>11. \A i \in DOMAIN printer'.lines : printer'.lines[i] = e
  BY <1>5
<1> QED BY <1>2, <1>6, <1>9, <1>10, <1>11 DEF PrinterInv

\* What both actions that add a packet do to the screen; `percent' is what they report.
LEMMA AddedPacket ==
    ASSUME PrinterInv, NEW m \in Datagrams, AddPacket(m), NEW decoded \in BOOLEAN
    PROVE  LET e == AcceptedEvent(decoded)
               n == packets_received
               k == num_source(session.spec)
           IN  /\ n \in Nat /\ packets_received' = n + 1 /\ k \in Nat
               /\ session # None /\ session' = session /\ ignored_datagrams' = ignored_datagrams
               /\ e \in Event /\ e.type = "ReceiverPacketAccepted"
               /\ e.packets_accepted = n + 1
               /\ e.decode_percent = decode_percent(n + 1, k, decoded)
               /\ band(e.decode_percent) \in Nat
<1> DEFINE e == AcceptedEvent(decoded)
           n == packets_received
           k == num_source(session.spec)
<1>1. IInv
  BY DEF PrinterInv
<1>2. n \in Nat /\ packets_received' = n + 1 /\ ignored_datagrams' = ignored_datagrams
  BY <1>1 DEF IInv, TypeOK, AddPacket
<1>3. session # None /\ session' = session /\ k \in Nat
  BY <1>1, AddPacketStep
<1>4. e \in Event
  BY <1>1, AcceptedEventType
<1>5. /\ e.type = "ReceiverPacketAccepted" /\ e.packets_accepted = n + 1
      /\ e.decode_percent = decode_percent(n + 1, k, decoded)
  BY <1>2 DEF AcceptedEvent, PacketAccepted
<1>6. band(e.decode_percent) \in Nat
  <2> DEFINE p == decode_percent(n + 1, k, decoded)
  <2>1. p \in 0..100
    <3>1. n + 1 \in Nat
      BY <1>2
    <3> HIDE DEF n, k
    <3> QED BY <1>3, <3>1, PercentType, Zenon
  <2> HIDE DEF p
  <2>2. p \in Nat /\ 5 \in Nat \ {0}
    BY <2>1
  <2>3. p \div 5 \in Nat
    BY <2>2, DivMod
  <2> QED BY <1>5, <2>3 DEF band, p
<1> QED BY <1>2, <1>3, <1>4, <1>5, <1>6

\* The counts stay fresh whatever becomes of the bands.
LEMMA AddedCounts ==
    ASSUME PrinterInv, NEW m \in Datagrams, AddPacket(m), NEW due \in BOOLEAN,
           sampled(packets_received + 1) => due,
           shown'.packets = (IF due THEN packets_received + 1 ELSE shown.packets),
           shown'.ignored = shown.ignored
    PROVE  CountsShown'
<1> DEFINE n == packets_received
<1>1. n \in Nat /\ packets_received' = n + 1 /\ ignored_datagrams' = ignored_datagrams
  BY AddedPacket
<1>2. n + 1 \in Nat /\ LagsBehind(n, shown.packets)
  BY <1>1 DEF PrinterInv, CountsShown
<1>3. LagsBehind(n + 1, n + 1)
  BY <1>2, LagStep
<1>4. ~due => LagsBehind(n + 1, shown.packets)
  BY <1>1, <1>2, LagStep
<1>5. LagsBehind(n + 1, shown'.packets)
  BY <1>3, <1>4
<1> QED BY <1>1, <1>5 DEF PrinterInv, CountsShown

LEMMA AcceptedStep ==
    ASSUME PrinterInv, IInv', EmitAll, NEW m \in Datagrams, AcceptPacket(m), result = Pending
    PROVE  /\ PrinterInv'
           /\ \A i \in DOMAIN printer'.lines :
                 \/ sampled(printer'.lines[i].packets_accepted)
                 \/ band(printer'.lines[i].decode_percent) \notin shown.bands
<1> DEFINE n == packets_received
           k == num_source(session.spec)
           b == band(decode_percent(n, k, FALSE))
           c == band(decode_percent(n + 1, k, FALSE))
           due == c > b \/ sampled(n + 1)
<1>1. AddPacket(m)
  BY DEF AcceptPacket
<1>2. PICK e : e = AcceptedEvent(FALSE)
  OBVIOUS
<1>3. events' = <<e>> /\ result' = result
  BY <1>2 DEF AcceptPacket
<1>4. /\ n \in Nat /\ packets_received' = n + 1 /\ k \in Nat
      /\ session # None /\ session' = session
      /\ e \in Event /\ e.type = "ReceiverPacketAccepted" /\ e.packets_accepted = n + 1
      /\ e.decode_percent = decode_percent(n + 1, k, FALSE)
  BY <1>1, <1>2, AddedPacket
<1>5. b \in Nat /\ c \in Nat /\ b <= c /\ e.decode_percent \in 0..99
  <2>1. n + 1 \in Nat
    BY <1>4
  <2> QED BY <1>4, <2>1, EstimateMonotonic
<1>6. /\ printer.last_decode_bucket = b
      /\ b > 0 => b \in shown.bands
      /\ \A x \in shown.bands : x <= b
  <2>1. estimate_band = b
    BY <1>4 DEF estimate_band
  <2> HIDE DEF b
  <2> QED BY <2>1 DEF PrinterInv, BandsShown
<1>7. band(e.decode_percent) = c
  BY <1>4
<1> HIDE DEF b, c
<1>8. e.decode_percent < 100
  BY <1>5
<1>9. /\ emits_line(b, e) <=> due
      /\ next_bucket(b, e) = c
      /\ read_line(shown, e) = [shown EXCEPT !.packets = n + 1, !.bands = @ \cup {c}]
  BY <1>4, <1>7, <1>8 DEF emits_line, percent_due, next_bucket, read_line
<1>10. /\ printer' = [last_decode_bucket |-> c, lines |-> IF due THEN <<e>> ELSE <<>>]
       /\ shown' = IF due THEN [shown EXCEPT !.packets = n + 1, !.bands = @ \cup {c}] ELSE shown
  BY <1>3, <1>6, <1>9, PrintOne DEF PrinterInv
<1>11. PrinterType'
  <2>1. <<>> \in Seq(Event) /\ <<e>> \in Seq(Event)
    BY <1>4
  <2>2. n + 1 \in Nat
    BY <1>4
  <2> QED BY <1>5, <1>10, <2>1, <2>2 DEF PrinterInv, PrinterType
<1>12. /\ shown'.packets = (IF due THEN n + 1 ELSE shown.packets)
       /\ shown'.ignored = shown.ignored
       /\ shown'.bands = IF due THEN shown.bands \cup {c} ELSE shown.bands
  BY <1>10 DEF PrinterInv, PrinterType
<1>13. CountsShown'
  <2>1. due \in BOOLEAN /\ (sampled(n + 1) => due)
    OBVIOUS
  <2> HIDE DEF due
  <2> QED BY <1>1, <1>12, <2>1, AddedCounts
<1>14. BandsShown'
  <2>1. estimate_band' = c
    BY <1>4 DEF estimate_band, num_source, c
  <2>2. printer'.last_decode_bucket = c
    BY <1>10
  <2>3. c > 0 => c \in shown'.bands
    BY <1>5, <1>6, <1>12
  <2>4. \A x \in shown'.bands : x <= c
    <3>1. \A x \in shown.bands : x \in Nat /\ x <= c
      BY <1>5, <1>6 DEF PrinterInv, PrinterType
    <3> QED BY <1>5, <1>12, <3>1
  <2> QED BY <2>1, <2>2, <2>3, <2>4 DEF BandsShown
<1>15. ASSUME NEW i \in DOMAIN printer'.lines
       PROVE  \/ sampled(printer'.lines[i].packets_accepted)
              \/ band(printer'.lines[i].decode_percent) \notin shown.bands
  <2>1. due /\ printer'.lines[i] = e
    BY <1>10
  <2>2. c > b => c \notin shown.bands
    BY <1>5, <1>6
  <2> QED BY <1>4, <1>7, <2>1, <2>2
<1> QED BY <1>11, <1>13, <1>14, <1>15 DEF PrinterInv

LEMMA CompletedStep ==
    ASSUME PrinterInv, IInv', EmitAll, NEW m \in Datagrams, NEW peer, CompleteTransfer(m, peer)
    PROVE  /\ PrinterInv'
           /\ \A i \in DOMAIN printer'.lines : printer'.lines[i].decode_percent = 100
<1> DEFINE n == packets_received
           c == band(100)
           bucket == printer.last_decode_bucket
           due == sampled(n + 1)
<1>1. AddPacket(m)
  BY DEF CompleteTransfer
<1>2. PICK e : e = AcceptedEvent(TRUE)
  OBVIOUS
<1>3. PICK f : f = DecodeComplete(packets_received', bytes_received')
  OBVIOUS
<1>4. events' = <<e, f>> /\ f.type = "ReceiverDecodeComplete" /\ f.decode_percent = 100
  BY <1>2, <1>3 DEF CompleteTransfer, DecodeComplete
<1>5. /\ n \in Nat /\ e \in Event /\ e.type = "ReceiverPacketAccepted"
      /\ e.packets_accepted = n + 1 /\ c \in Nat /\ e.decode_percent = 100
  BY <1>1, <1>2, AddedPacket DEF decode_percent
<1> HIDE DEF c
<1>6. f \in Event
  <2>1. 2 \in DOMAIN events' /\ events'[2] = f
    BY <1>4
  <2> QED BY <2>1 DEF IInv, TypeOK
<1>7. /\ emits_line(bucket, e) <=> due
      /\ next_bucket(bucket, e) = c
      /\ read_line(shown, e) =
            [shown EXCEPT !.packets = n + 1, !.bands = @ \cup {c}]
  BY <1>5 DEF emits_line, percent_due, next_bucket, read_line, c
<1>8. /\ printer' = [last_decode_bucket |-> c,
                     lines |-> IF due THEN <<e, f>> ELSE <<f>>]
      /\ shown' = IF due THEN [shown EXCEPT !.packets = n + 1, !.bands = @ \cup {c}]
                  ELSE shown
  BY <1>4, <1>7, PrintTwo DEF PrinterInv
<1>9. PrinterType'
  <2>1. <<f>> \in Seq(Event) /\ <<e, f>> \in Seq(Event)
    BY <1>5, <1>6
  <2>2. n + 1 \in Nat
    BY <1>5
  <2>3. printer' \in [last_decode_bucket : Nat, lines : Seq(Event)]
    <3> DEFINE lines == IF due THEN <<e, f>> ELSE <<f>>
    <3>1. lines \in Seq(Event)
      BY <2>1
    <3> HIDE DEF lines
    <3> QED BY <1>5, <1>8, <3>1 DEF lines
  <2>4. shown' \in [packets : Nat, ignored : Nat, bands : SUBSET Nat]
    <3>1. shown \in [packets : Nat, ignored : Nat, bands : SUBSET Nat]
      BY DEF PrinterInv, PrinterType
    <3>2. shown.bands \cup {c} \in SUBSET Nat
      BY <1>5, <3>1
    <3>3. shown' = (IF due THEN [shown EXCEPT !.packets = n + 1, !.bands = @ \cup {c}] ELSE shown)
      BY <1>8
    <3> HIDE DEF due, n
    <3> QED BY <2>2, <3>1, <3>2, <3>3
  <2> QED BY <2>3, <2>4 DEF PrinterType
<1>10. /\ shown'.packets = (IF due THEN n + 1 ELSE shown.packets)
       /\ shown'.ignored = shown.ignored
  BY <1>8 DEF PrinterInv, PrinterType
<1>11. CountsShown'
  <2>1. due \in BOOLEAN /\ (sampled(n + 1) => due)
    BY DEF sampled
  <2> HIDE DEF due
  <2> QED BY <1>1, <1>10, <2>1, AddedCounts
<1>12. BandsShown'
  BY DEF CompleteTransfer, Outcome, Pending, BandsShown
<1>13. \A i \in DOMAIN printer'.lines : printer'.lines[i] \in {e, f}
  BY <1>8
<1> QED BY <1>4, <1>5, <1>9, <1>11, <1>12, <1>13 DEF PrinterInv

LEMMA StutterPrinterInv ==
    PrinterInv /\ UNCHANGED printed_receiver_vars => PrinterInv'
<1> SUFFICES ASSUME PrinterInv, UNCHANGED printed_receiver_vars PROVE PrinterInv'
  OBVIOUS
<1>1. IInv'
  BY StutterIInv DEF PrinterInv, printed_receiver_vars
<1>2. estimate_band' = estimate_band
  BY DEF printed_receiver_vars, receiver_vars, estimate_band, num_source
<1> QED BY <1>1, <1>2
  DEF PrinterInv, PrinterType, CountsShown, LagsBehind, BandsShown, printed_receiver_vars,
      receiver_vars

\* Each iteration of the loop, with what it prints.
LEMMA NextPrinterInv ==
    ASSUME PrinterInv, PrintedReceiverNext
    PROVE  /\ PrinterInv'
           /\ \A i \in DOMAIN printer'.lines :
                 LET line == printer'.lines[i]
                 IN  \/ line.type # "ReceiverPacketAccepted"
                     \/ sampled(line.packets_accepted)
                     \/ line.decode_percent = 100
                     \/ band(line.decode_percent) \notin shown.bands
<1>1. IInv /\ IInv' /\ EmitAll /\ ReceiverNext
  BY NextIInv DEF PrinterInv, PrintedReceiverNext
<1>2. CASE ReceiveTimeout \/ ReceiveIoError
  BY <1>1, <1>2, SilentStep
<1>3. ASSUME NEW m \in Datagrams, NEW peer \in Peers, Receive(m, peer)
      PROVE  /\ PrinterInv'
             /\ \A i \in DOMAIN printer'.lines :
                   LET line == printer'.lines[i]
                   IN  \/ line.type # "ReceiverPacketAccepted"
                       \/ sampled(line.packets_accepted)
                       \/ line.decode_percent = 100
                       \/ band(line.decode_percent) \notin shown.bands
  <2>1. CASE IgnoreDatagram(m)
    BY <1>1, <2>1, IgnoredStep
  <2>2. CASE EstablishSession(m)
    BY <1>1, <2>2, EstablishedStep
  <2>3. CASE AcceptPacket(m)
    BY <1>1, <1>3, <2>3, AcceptedStep DEF Receive
  <2>4. CASE CompleteTransfer(m, peer)
    BY <1>1, <2>4, CompletedStep
  <2> QED BY <1>3, <2>1, <2>2, <2>3, <2>4 DEF Receive
<1> QED BY <1>1, <1>2, <1>3 DEF ReceiverNext

\* The invariant is inductive.
THEOREM PrinterInvariance == PrintedReceiverSpec => []PrinterInv
<1>1. PrinterInv /\ [PrintedReceiverNext]_printed_receiver_vars => PrinterInv'
  BY NextPrinterInv, StutterPrinterInv
<1> QED BY <1>1, InitPrinterInv, PTL DEF PrintedReceiverSpec

\* Whatever arrives and however often the session restarts, the counts on the screen lag by
\* less than a sample and the first ignored datagram is shown at once.
THEOREM CountsStayFresh == PrintedReceiverSpec => []ScreenIsFresh
<1>1. PrinterInv => ScreenIsFresh
  <2> SUFFICES ASSUME PrinterInv PROVE ScreenIsFresh
    OBVIOUS
  <2>1. ASSUME NEW n \in Nat, NEW seen, LagsBehind(n, seen)
        PROVE  n - seen \in 0..(SampleEvery - 1)
    <3>1. SampleEvery \in Nat \ {0} /\ n % SampleEvery \in 0..(SampleEvery - 1)
      BY SampleAssumption, DivMod
    <3> QED BY <2>1, <3>1 DEF LagsBehind
  <2>2. packets_received \in Nat /\ ignored_datagrams \in Nat
    BY DEF PrinterInv, IInv, TypeOK
  <2> QED BY <2>1, <2>2 DEF PrinterInv, CountsShown, ScreenIsFresh
<1> QED BY <1>1, PrinterInvariance, PTL

\* The band the estimate has reached is on the screen, after a restart as well.
THEOREM BandStaysOnScreen == PrintedReceiverSpec => []BandOnScreen
<1>1. PrinterInv => BandOnScreen
  BY DEF PrinterInv, BandsShown, estimate_band, BandOnScreen
<1> QED BY <1>1, PrinterInvariance, PTL

\* Between samples no step announces a band that is already on the screen.
THEOREM BandsAnnouncedOnce == PrintedReceiverSpec => NoBandTwice
<1>1. PrinterInv /\ [PrintedReceiverNext]_printed_receiver_vars =>
        [\A i \in DOMAIN printer'.lines :
          LET line == printer'.lines[i]
          IN  line.type = "ReceiverPacketAccepted" /\ ~sampled(line.packets_accepted)
                 /\ line.decode_percent < 100
              => band(line.decode_percent) \notin shown.bands]_printed_receiver_vars
  BY NextPrinterInv
<1> QED BY <1>1, PrinterInvariance, PTL DEF PrintedReceiverSpec, NoBandTwice

-----------------------------------------------------------------------------
(* The progress callback of a sender watches it and never steers it. *)

\* With --progress a sender sends what it would send without, and SenderProofs applies.
THEOREM PrintedImplementsSender == PrintedSenderSpec => SenderSpec
<1>1. PrintedSenderInit => SenderInit
  BY DEF PrintedSenderInit
<1>2. [PrintedSenderNext]_printed_sender_vars => [SenderNext]_sender_vars
  BY DEF PrintedSenderNext, PrintedSenderStep, SenderNext, printed_sender_vars
<1> QED BY <1>1, <1>2, PTL DEF PrintedSenderSpec, SenderSpec

-----------------------------------------------------------------------------
(* The inductive invariant of a sender's printer. *)

\* How many source and repair packets are out.
packets_out(s) == IF sent[s] = <<>> THEN 0 ELSE packets_sent(s)
source_out(s) == IF packets_out(s) < Len(source[s]) THEN packets_out(s) ELSE Len(source[s])
repair_out(s) == packets_out(s) - source_out(s)

SenderEvent ==
    [type : {"SenderStarted"}, source_packets : Nat, repair_packets : Nat, planned_bytes : Nat]
    \cup
    [type : {"SenderSourcePacketSent", "SenderRepairPacketSent"},
     sent : Nat, total : Nat, bytes_sent : Nat, planned_bytes : Nat]
    \cup
    [type : {"SenderFinished"}, source_packets : Nat, repair_packets : Nat,
     bytes_sent : Nat, planned_bytes : Nat]

\* The last event tells how far an unfinished sender is, so that its next one differs.
LastReport(s) ==
    /\ phase[s] = "Idle" => sent[s] = <<>> /\ report[s].type = "None"
    /\ phase[s] = "Sending" =>
          CASE packets_out(s) = 0 -> report[s].type = "SenderStarted"
            [] packets_out(s) \in 1..Len(source[s]) ->
                  report[s].type = "SenderSourcePacketSent" /\ report[s].sent = packets_out(s)
            [] OTHER ->
                  /\ report[s].type = "SenderRepairPacketSent"
                  /\ report[s].sent = packets_out(s) - Len(source[s])

\* A part lags by less than a sample, and not at all once it is complete.
Fresh(s, kind, n, total) ==
    /\ LagsBehind(n, reported(screen[s], kind))
    /\ n = total => reported(screen[s], kind) = total

ScreenFollows(s) ==
    /\ phase[s] \in {"Sending", "Finished"} \/ sent[s] # <<>> => screen[s] # <<>>
    /\ screen[s] # <<>> =>
          (screen[s][Len(screen[s])].type = "SenderFinished" <=> phase[s] = "Finished")
    /\ encodable(s) =>
          /\ Fresh(s, "SenderSourcePacketSent", source_out(s), Len(source[s]))
          /\ Fresh(s, "SenderRepairPacketSent", repair_out(s), Len(repair[s]))

PrintedSenderInv ==
    /\ SenderInv
    /\ screen \in [Senders -> Seq(SenderEvent)]
    /\ DOMAIN report = Senders
    /\ \A s \in Senders : Job[s].progress => LastReport(s) /\ ScreenFollows(s)

\* What a new line does to the last line of each kind.
LEMMA ReportedAppend ==
    ASSUME NEW lines \in Seq(SenderEvent), NEW e \in SenderEvent, NEW kind
    PROVE  /\ Append(lines, e) # <<>>
           /\ Append(lines, e)[Len(Append(lines, e))] = e
           /\ reported(Append(lines, e), kind) =
                 IF e.type = kind THEN e.sent ELSE reported(lines, kind)
<1> DEFINE n == Len(lines)
           more == Append(lines, e)
           old == {i \in DOMAIN lines : lines[i].type = kind}
           new == {i \in DOMAIN more : more[i].type = kind}
<1>1. /\ more \in Seq(SenderEvent) /\ more # <<>> /\ Len(more) = n + 1 /\ more[n + 1] = e
      /\ \A i \in 1..n : more[i] = lines[i]
  BY AppendProperties
<1>2. n \in Nat /\ DOMAIN lines = 1..n /\ DOMAIN more = 1..(n + 1)
  BY <1>1
<1> HIDE DEF n, more
<1>3. reported(more, kind) = IF new = {} THEN 0 ELSE more[Max(new)].sent
  BY DEF reported
<1>4. reported(lines, kind) = IF old = {} THEN 0 ELSE lines[Max(old)].sent
  BY DEF reported
<1>5. CASE e.type = kind
  <2>1. new \in SUBSET (0..(n + 1)) /\ n + 1 \in new
    BY <1>1, <1>2, <1>5
  <2> HIDE DEF new
  <2>2. Max(new) \in new /\ Max(new) >= n + 1
    <3>1. n + 1 \in Nat /\ new # {}
      BY <1>2, <2>1
    <3> QED BY <2>1, <3>1, GreatestNatural
  <2>3. Max(new) = n + 1
    <3>1. Max(new) \in 0..(n + 1)
      BY <2>1, <2>2
    <3> QED BY <1>2, <2>2, <3>1
  <2>4. reported(more, kind) = e.sent
    BY <1>1, <1>3, <2>1, <2>3
  <2> QED BY <1>1, <1>5, <2>4 DEF more, n
<1>6. CASE e.type # kind
  <2>1. new = old
    BY <1>1, <1>2, <1>6
  <2>2. old # {} => Max(old) \in 1..n
    <3>1. old \in SUBSET (0..n)
      BY <1>2
    <3>2. old # {} => Max(old) \in old
      <4> HIDE DEF old
      <4> QED BY <1>2, <3>1, GreatestNatural
    <3> QED BY <1>2, <3>2
  <2>3. reported(more, kind) = reported(lines, kind)
    <3> HIDE DEF old, new
    <3> QED BY <1>1, <1>3, <1>4, <2>1, <2>2
  <2> QED BY <1>1, <1>6, <2>3 DEF more, n
<1> QED BY <1>5, <1>6

LEMMA PlannedBytesType ==
    ASSUME NEW s \in Senders, Job[s].progress, encodable(s)
    PROVE  planned_bytes[s] \in Nat
<1> DEFINE m == Len(packets[s])
           size == 29 + spec(s).symbol_size_t
<1>1. m \in Nat /\ size \in Nat /\ packet_bytes[s] = m * size
  BY JobFacts, PacketsAsPlanned, PacketBytes
<1>2. planned_bytes[s] = 24 + packet_bytes[s]
  BY DEF planned_bytes, meta, session_meta_from_spec, encoded_len
<1> HIDE DEF m, size
<1>3. m * size \in Nat
  BY <1>1
<1> QED BY <1>1, <1>2, <1>3

\* The parts of a plan, and how far a sender is in it.
LEMMA PartFacts ==
    ASSUME SenderInv, NEW s \in Senders, encodable(s)
    PROVE  /\ Len(source[s]) \in Nat \ {0} /\ Len(repair[s]) \in Nat
           /\ Len(packets[s]) = Len(source[s]) + Len(repair[s])
           /\ Len(sent[s]) \in 0..(Len(packets[s]) + 1)
           /\ sent[s] = <<>> <=> Len(sent[s]) = 0
           /\ packets_out(s) = IF Len(sent[s]) = 0 THEN 0 ELSE Len(sent[s]) - 1
<1>1. OnPlan(s) /\ sent[s] \in Seq(WireMessage)
  BY DEF SenderInv
<1>2. Len(sent[s]) \in Nat /\ (sent[s] = <<>> <=> Len(sent[s]) = 0)
  BY <1>1
<1>3. /\ Len(source[s]) \in Nat \ {0} /\ Len(repair[s]) \in Nat
      /\ Len(packets[s]) = Len(source[s]) + Len(repair[s])
  <2>1. Len(source[s]) = source_k(s) /\ source_k(s) \in Nat \ {0}
    BY SourceType, BlockFacts
  <2>2. Len(repair[s]) = repairs(s) /\ repairs(s) \in Nat
    BY RepairRounds, JobFacts
  <2>3. Len(packets[s]) = source_k(s) + repairs(s)
    BY PacketsAsPlanned
  <2> QED BY <2>1, <2>2, <2>3
<1>4. Len(sent[s]) <= Len(packets[s]) + 1
  BY <1>1 DEF OnPlan
<1>5. Len(sent[s]) \in 0..(Len(packets[s]) + 1)
  <2>1. Len(packets[s]) \in Nat
    BY PacketsAsPlanned
  <2> QED BY <1>2, <1>4, <2>1
<1>6. packets_out(s) = IF Len(sent[s]) = 0 THEN 0 ELSE Len(sent[s]) - 1
  BY <1>2 DEF packets_out, packets_sent
<1> QED BY <1>2, <1>3, <1>5, <1>6

LEMMA InitPrintedSenderInv == PrintedSenderInit => PrintedSenderInv
<1> SUFFICES ASSUME PrintedSenderInit PROVE PrintedSenderInv
  OBVIOUS
<1>1. SenderInv
  BY InitSenderInv DEF PrintedSenderInit
<1>2. screen \in [Senders -> Seq(SenderEvent)] /\ DOMAIN report = Senders
  <2>1. <<>> \in Seq(SenderEvent)
    OBVIOUS
  <2> QED BY <2>1 DEF PrintedSenderInit, SenderInit
<1>3. ASSUME NEW s \in Senders PROVE LastReport(s) /\ ScreenFollows(s)
  <2>1. /\ phase[s] = "Idle" /\ sent[s] = <<>> /\ report[s] = NoReport /\ screen[s] = <<>>
    BY <1>3 DEF PrintedSenderInit, SenderInit
  <2>2. LastReport(s)
    BY <2>1 DEF LastReport, NoReport
  <2>3. \A kind : reported(screen[s], kind) = 0
    BY <2>1 DEF reported
  <2>4. ASSUME encodable(s)
        PROVE  /\ Fresh(s, "SenderSourcePacketSent", source_out(s), Len(source[s]))
               /\ Fresh(s, "SenderRepairPacketSent", repair_out(s), Len(repair[s]))
    <3>1. Len(source[s]) \in Nat \ {0} /\ Len(repair[s]) \in Nat /\ packets_out(s) = 0
      BY <1>1, <2>1, <2>4, PartFacts DEF packets_out
    <3>2. source_out(s) = 0 /\ repair_out(s) = 0
      <4>1. 0 < Len(source[s])
        BY <3>1
      <4>2. source_out(s) = 0
        BY <3>1, <4>1 DEF source_out
      <4> QED BY <3>1, <4>2 DEF repair_out
    <3>3. LagsBehind(0, 0)
      BY LagStep
    <3> QED BY <2>3, <3>2, <3>3 DEF Fresh
  <2> QED BY <2>1, <2>2, <2>4 DEF ScreenFollows
<1> QED BY <1>1, <1>2, <1>3 DEF PrintedSenderInv

\* A step concerns one sender.
LEMMA OneSender ==
    ASSUME PrintedSenderInv, NEW s \in Senders, PrintedSenderStep(s)
    PROVE  /\ SenderInv' /\ DOMAIN report' = Senders
           /\ \A q \in Senders : q # s =>
                 /\ phase'[q] = phase[q] /\ sent'[q] = sent[q]
                 /\ report'[q] = report[q] /\ screen'[q] = screen[q]
<1>1. SenderInv /\ SenderStep(s) /\ DOMAIN report = Senders
  BY DEF PrintedSenderInv, PrintedSenderStep
<1>2. SenderInv'
  BY <1>1, NextSenderInv DEF SenderNext
<1>3. \E p : phase' = phase \/ phase' = [phase EXCEPT ![s] = p]
  BY <1>1 DEF SenderStep, LocalStep, Start, StartFails, SendTooLarge, Finish, Fail, Send,
              SendMeta, SendSource, SendRepair, Transmit, SendIoError
<1>4. \E m : sent' = sent \/ sent' = [sent EXCEPT ![s] = m]
  BY <1>1 DEF SenderStep, LocalStep, Start, StartFails, SendTooLarge, Finish, Fail, Send,
              SendMeta, SendSource, SendRepair, Transmit, SendIoError
<1>5. \E e : report' = report \/ report' = [report EXCEPT ![s] = e]
  BY <1>1 DEF SenderStep, LocalStep, Start, StartFails, SendTooLarge, Finish, Fail, Send,
              SendMeta, SendSource, SendRepair, SendIoError, Report
<1>6. \E l : screen' = screen \/ screen' = [screen EXCEPT ![s] = l]
  BY DEF PrintedSenderStep
<1>7. /\ DOMAIN phase = Senders /\ DOMAIN sent = Senders /\ DOMAIN screen = Senders
  BY DEF PrintedSenderInv, SenderInv
<1>8. DOMAIN report' = Senders
  BY <1>1, <1>5
<1>9. ASSUME NEW q \in Senders, q # s
      PROVE  /\ phase'[q] = phase[q] /\ sent'[q] = sent[q]
             /\ report'[q] = report[q] /\ screen'[q] = screen[q]
  BY <1>1, <1>3, <1>4, <1>5, <1>6, <1>7, <1>9
<1> QED BY <1>2, <1>8, <1>9

\* An event is printed when it is due; without one nothing is.
LEMMA PrintEvent ==
    ASSUME PrintedSenderInv, NEW s \in Senders, PrintedSenderStep(s),
           NEW e \in SenderEvent, report' = [report EXCEPT ![s] = e], e # report[s]
    PROVE  /\ report'[s] = e /\ screen[s] \in Seq(SenderEvent)
           /\ screen' \in [Senders -> Seq(SenderEvent)]
           /\ screen'[s] = IF emits_line(0, e) THEN Append(screen[s], e) ELSE screen[s]
<1>1. /\ screen \in [Senders -> Seq(SenderEvent)] /\ DOMAIN report = Senders
  BY DEF PrintedSenderInv
<1>2. report'[s] = e /\ screen[s] \in Seq(SenderEvent)
  BY <1>1
<1>3. screen' = IF emits_line(0, e) THEN [screen EXCEPT ![s] = Append(screen[s], e)] ELSE screen
  <2>1. screen' = IF report'[s] # report[s] /\ emits_line(0, report'[s])
                 THEN [screen EXCEPT ![s] = Append(screen[s], report'[s])] ELSE screen
    BY DEF PrintedSenderStep
  <2>2. CASE emits_line(0, e)
    BY <1>2, <2>1, <2>2
  <2>3. CASE ~emits_line(0, e)
    BY <1>2, <2>1, <2>3
  <2> QED BY <2>2, <2>3
<1>4. Append(screen[s], e) \in Seq(SenderEvent)
  BY <1>2, AppendProperties
<1> QED BY <1>1, <1>2, <1>3, <1>4

LEMMA PrintNoEvent ==
    ASSUME NEW s \in Senders, PrintedSenderStep(s), report' = report
    PROVE  screen' = screen
BY DEF PrintedSenderStep

\* What is left to show of a step: the sender it concerns, if it has a progress callback.
LEMMA OthersUndisturbed ==
    ASSUME PrintedSenderInv, NEW s \in Senders, PrintedSenderStep(s),
           screen' \in [Senders -> Seq(SenderEvent)],
           Job[s].progress => LastReport(s)' /\ ScreenFollows(s)'
    PROVE  PrintedSenderInv'
<1>1. ASSUME NEW q \in Senders, Job[q].progress, q # s
      PROVE  LastReport(q)' /\ ScreenFollows(q)'
  <2>1. LastReport(q) /\ ScreenFollows(q)
    BY <1>1 DEF PrintedSenderInv
  <2>2. /\ phase'[q] = phase[q] /\ sent'[q] = sent[q]
        /\ report'[q] = report[q] /\ screen'[q] = screen[q]
    BY <1>1, OneSender
  <2>3. packets_out(q)' = packets_out(q)
    BY <2>2 DEF packets_out, packets_sent
  <2>4. source_out(q)' = source_out(q) /\ repair_out(q)' = repair_out(q)
    BY <2>3 DEF source_out, repair_out
  <2>5. LastReport(q)'
    BY <2>1, <2>2, <2>3 DEF LastReport
  <2>6. ScreenFollows(q)'
    BY <2>1, <2>2, <2>4 DEF ScreenFollows, Fresh
  <2> QED BY <2>5, <2>6
<1> QED BY <1>1, OneSender DEF PrintedSenderInv

\* A step without an event that puts no packet out, into a phase that reports nothing.
LEMMA QuietScreen ==
    ASSUME PrintedSenderInv, NEW s \in Senders, PrintedSenderStep(s), Job[s].progress,
           report' = report, packets_out(s)' = packets_out(s),
           phase[s] \in {"Idle", "Sending"},
           \/ phase'[s] = "Failed" /\ sent'[s] = sent[s]
           \/ phase'[s] = "Sending" /\ phase[s] = "Sending"
    PROVE  PrintedSenderInv'
<1>1. LastReport(s) /\ ScreenFollows(s)
  BY DEF PrintedSenderInv
<1>2. screen' = screen
  BY PrintNoEvent
<1>3. source_out(s)' = source_out(s) /\ repair_out(s)' = repair_out(s)
  BY DEF source_out, repair_out
<1>4. ScreenFollows(s)'
  <2>1. /\ phase'[s] \in {"Sending", "Finished"} \/ sent'[s] # <<>> => screen'[s] # <<>>
        /\ phase'[s] # "Finished" /\ phase[s] # "Finished"
    BY <1>1, <1>2 DEF ScreenFollows
  <2> QED BY <1>1, <1>2, <1>3, <2>1 DEF ScreenFollows, Fresh
<1>5. LastReport(s)'
  BY <1>1 DEF LastReport
<1> QED BY <1>2, <1>4, <1>5, OthersUndisturbed DEF PrintedSenderInv

LEMMA StartScreen ==
    ASSUME PrintedSenderInv, NEW s \in Senders, PrintedSenderStep(s), Job[s].progress, Start(s)
    PROVE  PrintedSenderInv'
<1>1. SenderInv /\ LastReport(s) /\ ScreenFollows(s) /\ encodable(s) /\ phase[s] = "Idle"
  BY DEF PrintedSenderInv, Start
<1>2. sent[s] = <<>> /\ report[s].type = "None" /\ sent' = sent
  BY <1>1 DEF LastReport, Start
<1>3. PICK e : e = [type |-> "SenderStarted", source_packets |-> Len(source[s]),
                    repair_packets |-> Len(repair[s]), planned_bytes |-> planned_bytes[s]]
  OBVIOUS
<1>4. e \in SenderEvent /\ e.type = "SenderStarted"
  BY <1>1, <1>3, PartFacts, PlannedBytesType DEF SenderEvent
<1>5. report' = [report EXCEPT ![s] = e] /\ e # report[s] /\ emits_line(0, e)
  BY <1>2, <1>3, <1>4 DEF Start, Report, emits_line
<1>6. /\ report'[s] = e /\ screen[s] \in Seq(SenderEvent)
      /\ screen' \in [Senders -> Seq(SenderEvent)] /\ screen'[s] = Append(screen[s], e)
  BY <1>4, <1>5, PrintEvent
<1>7. phase'[s] = "Sending"
  BY <1>1 DEF Start, SenderInv
<1>8. packets_out(s)' = packets_out(s) /\ packets_out(s) = 0
  BY <1>2 DEF packets_out, packets_sent
<1>9. source_out(s)' = source_out(s) /\ repair_out(s)' = repair_out(s)
  BY <1>8 DEF source_out, repair_out
<1>10. LastReport(s)'
  BY <1>4, <1>6, <1>7, <1>8 DEF LastReport
<1>11. /\ screen'[s] # <<>> /\ screen'[s][Len(screen'[s])] = e
       /\ \A kind : kind # e.type => reported(screen'[s], kind) = reported(screen[s], kind)
  BY <1>4, <1>6, ReportedAppend
<1>12. ScreenFollows(s)'
  BY <1>1, <1>4, <1>7, <1>9, <1>11 DEF ScreenFollows, Fresh
<1> QED BY <1>6, <1>10, <1>12, OthersUndisturbed

LEMMA FinishScreen ==
    ASSUME PrintedSenderInv, NEW s \in Senders, PrintedSenderStep(s), Job[s].progress, Finish(s)
    PROVE  PrintedSenderInv'
<1>1. SenderInv /\ LastReport(s) /\ ScreenFollows(s) /\ phase[s] = "Sending"
  BY DEF PrintedSenderInv, Finish
<1>2. encodable(s) /\ bytes_sent[s] \in Nat
  BY <1>1 DEF SenderInv, OnPlan
<1>3. PICK e : e = [type |-> "SenderFinished", source_packets |-> Len(source[s]),
                    repair_packets |-> Len(repair[s]), bytes_sent |-> bytes_sent[s],
                    planned_bytes |-> planned_bytes[s]]
  OBVIOUS
<1>4. e \in SenderEvent /\ e.type = "SenderFinished"
  BY <1>1, <1>2, <1>3, PartFacts, PlannedBytesType DEF SenderEvent
<1>5. report' = [report EXCEPT ![s] = e] /\ e # report[s] /\ emits_line(0, e)
  <2>1. report[s].type # "SenderFinished"
    BY <1>1 DEF LastReport
  <2> QED BY <1>3, <1>4, <2>1 DEF Finish, Report, emits_line
<1>6. /\ report'[s] = e /\ screen[s] \in Seq(SenderEvent)
      /\ screen' \in [Senders -> Seq(SenderEvent)] /\ screen'[s] = Append(screen[s], e)
  BY <1>4, <1>5, PrintEvent
<1>7. phase'[s] = "Finished" /\ sent' = sent
  BY <1>1 DEF Finish, SenderInv
<1>8. packets_out(s)' = packets_out(s)
  BY <1>7 DEF packets_out, packets_sent
<1>9. source_out(s)' = source_out(s) /\ repair_out(s)' = repair_out(s)
  BY <1>8 DEF source_out, repair_out
<1>10. LastReport(s)'
  BY <1>7 DEF LastReport
<1>11. /\ screen'[s] # <<>> /\ screen'[s][Len(screen'[s])] = e
       /\ \A kind : kind # e.type => reported(screen'[s], kind) = reported(screen[s], kind)
  BY <1>4, <1>6, ReportedAppend
<1>12. ScreenFollows(s)'
  BY <1>1, <1>4, <1>7, <1>9, <1>11 DEF ScreenFollows, Fresh
<1> QED BY <1>6, <1>10, <1>12, OthersUndisturbed

\* The n-th packet of a kind is out: the lag grows, or its line is printed.
LEMMA FreshStep ==
    ASSUME NEW n \in Nat, NEW total \in Nat, NEW seen, NEW line,
           LagsBehind(n, seen), line.sent = n + 1, line.total = total
    PROVE  LET shows == IF packet_due(line) THEN line.sent ELSE seen
           IN  /\ LagsBehind(n + 1, shows)
               /\ n + 1 = total => shows = total
<1>1. n + 1 \in Nat
  OBVIOUS
<1>2. LagsBehind(n + 1, n + 1)
  BY <1>1, LagStep
<1>3. CASE packet_due(line)
  BY <1>2, <1>3
<1>4. CASE ~packet_due(line)
  <2>1. ~sampled(n + 1) /\ n + 1 # total
    BY <1>4 DEF packet_due
  <2> QED BY <1>4, <2>1, LagStep
<1> QED BY <1>3, <1>4

\* What a packet does to the screen: its own kind is reported when due, the other is not.
LEMMA PacketLine ==
    ASSUME PrintedSenderInv, NEW s \in Senders, PrintedSenderStep(s), Job[s].progress,
           phase[s] = "Sending", phase' = phase,
           NEW e \in SenderEvent, report' = [report EXCEPT ![s] = e], e # report[s],
           e.type \in {"SenderSourcePacketSent", "SenderRepairPacketSent"}
    PROVE  /\ report'[s] = e /\ screen' \in [Senders -> Seq(SenderEvent)]
           /\ screen'[s] # <<>> /\ screen'[s][Len(screen'[s])].type # "SenderFinished"
           /\ reported(screen'[s], e.type) =
                 IF packet_due(e) THEN e.sent ELSE reported(screen[s], e.type)
           /\ \A kind : kind # e.type => reported(screen'[s], kind) = reported(screen[s], kind)
<1>1. ScreenFollows(s)
  BY DEF PrintedSenderInv
<1>2. screen[s] # <<>> /\ screen[s][Len(screen[s])].type # "SenderFinished"
  BY <1>1 DEF ScreenFollows
<1>3. emits_line(0, e) <=> packet_due(e)
  BY DEF emits_line
<1>4. /\ report'[s] = e /\ screen[s] \in Seq(SenderEvent)
      /\ screen' \in [Senders -> Seq(SenderEvent)]
      /\ screen'[s] = IF emits_line(0, e) THEN Append(screen[s], e) ELSE screen[s]
  BY PrintEvent
<1>5. CASE packet_due(e)
  <2>1. screen'[s] = Append(screen[s], e)
    BY <1>3, <1>4, <1>5
  <2> QED BY <1>4, <1>5, <2>1, ReportedAppend
<1>6. CASE ~packet_due(e)
  <2>1. screen'[s] = screen[s]
    BY <1>3, <1>4, <1>6
  <2> QED BY <1>2, <1>4, <1>6, <2>1
<1> QED BY <1>5, <1>6

\* A send puts one more message out.
LEMMA SendOut ==
    ASSUME SenderInv, NEW s \in Senders, Send(s)
    PROVE  /\ encodable(s) /\ phase[s] = "Sending" /\ phase' = phase
           /\ packets_out(s)' = Len(sent[s])
           /\ sent[s] # <<>> => packets_out(s) + 1 = Len(sent[s])
           /\ sent[s] = <<>> => packets_out(s) = 0 /\ Len(sent[s]) = 0
<1>1. encodable(s) /\ next_message(s) \in WireMessage
  BY SendStep, MessageFacts
<1>2. phase[s] = "Sending" /\ phase' = phase
  BY DEF Send, SendMeta, SendSource, SendRepair, Transmit, pending
<1>3. sent' = [sent EXCEPT ![s] = Append(sent[s], next_message(s))]
  BY DEF Send, SendMeta, SendSource, SendRepair, Transmit
<1>4. sent[s] \in Seq(WireMessage) /\ sent'[s] = Append(sent[s], next_message(s))
  BY <1>3 DEF SenderInv
<1>5. sent'[s] # <<>> /\ Len(sent'[s]) = Len(sent[s]) + 1
  BY <1>1, <1>4, AppendProperties
<1>6. Len(sent[s]) \in Nat /\ (sent[s] = <<>> => Len(sent[s]) = 0)
  BY <1>4
<1>7. packets_out(s)' = Len(sent[s])
  BY <1>5, <1>6 DEF packets_out, packets_sent
<1>8. sent[s] # <<>> => packets_out(s) + 1 = Len(sent[s])
  BY <1>6 DEF packets_out, packets_sent
<1> QED BY <1>1, <1>2, <1>6, <1>7, <1>8 DEF packets_out

LEMMA SourceScreen ==
    ASSUME PrintedSenderInv, NEW s \in Senders, PrintedSenderStep(s), Job[s].progress,
           SendSource(s)
    PROVE  PrintedSenderInv'
<1> DEFINE n == packets_out(s)
           source_total == Len(source[s])
           repair_total == Len(repair[s])
<1>1. SenderInv /\ SenderInv' /\ LastReport(s) /\ ScreenFollows(s) /\ Send(s)
  BY OneSender DEF PrintedSenderInv, Send
<1>2. /\ encodable(s) /\ phase[s] = "Sending" /\ phase' = phase
      /\ source_total \in Nat \ {0} /\ repair_total \in Nat /\ Len(sent[s]) \in Nat
      /\ sent[s] = <<>> <=> Len(sent[s]) = 0
  <2>1. encodable(s) /\ phase[s] = "Sending" /\ phase' = phase
    BY <1>1, SendOut
  <2>2. /\ source_total \in Nat \ {0} /\ repair_total \in Nat
        /\ Len(sent[s]) \in 0..(Len(packets[s]) + 1)
        /\ sent[s] = <<>> <=> Len(sent[s]) = 0
    BY <1>1, <2>1, PartFacts
  <2> QED BY <2>1, <2>2
<1>3. n \in 0..(source_total - 1) /\ packets_sent(s) = n /\ packets_out(s)' = n + 1
  <2>1. Len(sent[s]) # 0
    BY <1>2 DEF SendSource, packets_sent
  <2>2. packets_out(s) = packets_sent(s)
    BY <1>2, <2>1 DEF packets_out
  <2>3. packets_out(s)' = n + 1
    BY <1>1, <1>2, <2>1, SendOut
  <2> QED BY <2>2, <2>3 DEF SendSource
<1>4. n \in Nat /\ n + 1 \in 1..source_total /\ n < source_total
  BY <1>2, <1>3
<1>5. PICK e : e = [type |-> "SenderSourcePacketSent", sent |-> n + 1,
                    total |-> source_total, bytes_sent |-> bytes_sent'[s],
                    planned_bytes |-> planned_bytes[s]]
  OBVIOUS
<1>6. /\ e \in SenderEvent /\ e.type = "SenderSourcePacketSent"
      /\ e.sent = n + 1 /\ e.total = source_total
  <2>1. bytes_sent'[s] \in Nat /\ planned_bytes[s] \in Nat /\ n + 1 \in Nat
    BY <1>1, <1>2, <1>4, PlannedBytesType DEF SenderInv
  <2> HIDE DEF n
  <2> QED BY <1>2, <1>5, <2>1 DEF SenderEvent
<1>7. report' = [report EXCEPT ![s] = e]
  BY <1>3, <1>5 DEF SendSource, Report
<1>8. e # report[s]
  <2> HIDE DEF n
  <2>1. CASE n = 0
    <3>1. report[s].type = "SenderStarted"
      BY <1>1, <1>2, <2>1 DEF LastReport, n
    <3> QED BY <1>6, <3>1
  <2>2. CASE n # 0
    <3>1. n \in 1..source_total
      BY <1>4, <2>2
    <3>2. report[s].sent = n
      BY <1>1, <1>2, <2>2, <3>1 DEF LastReport, n
    <3> QED BY <1>4, <1>6, <3>2
  <2> QED BY <2>1, <2>2
<1>9. /\ report'[s] = e /\ screen' \in [Senders -> Seq(SenderEvent)]
      /\ screen'[s] # <<>> /\ screen'[s][Len(screen'[s])].type # "SenderFinished"
      /\ reported(screen'[s], "SenderSourcePacketSent") =
            (IF packet_due(e) THEN e.sent ELSE reported(screen[s], "SenderSourcePacketSent"))
      /\ reported(screen'[s], "SenderRepairPacketSent") =
            reported(screen[s], "SenderRepairPacketSent")
  <2>1. /\ report'[s] = e /\ screen' \in [Senders -> Seq(SenderEvent)]
        /\ screen'[s] # <<>> /\ screen'[s][Len(screen'[s])].type # "SenderFinished"
        /\ reported(screen'[s], e.type) =
              (IF packet_due(e) THEN e.sent ELSE reported(screen[s], e.type))
        /\ \A kind : kind # e.type => reported(screen'[s], kind) = reported(screen[s], kind)
    <3> e.type \in {"SenderSourcePacketSent", "SenderRepairPacketSent"}
      BY <1>6
    <3> QED BY <1>2, <1>6, <1>7, <1>8, PacketLine
  <2> QED BY <1>6, <2>1
<1>10. /\ source_out(s) = n /\ repair_out(s) = 0
       /\ source_out(s)' = n + 1 /\ repair_out(s)' = 0
  <2>1. source_out(s) = n
    BY <1>4 DEF source_out
  <2>2. source_out(s)' = n + 1
    <3>1. source_out(s)' = IF n + 1 < source_total THEN n + 1 ELSE source_total
      BY <1>3 DEF source_out
    <3> HIDE DEF n
    <3> QED BY <1>2, <1>4, <3>1
  <2>3. n - n = 0 /\ (n + 1) - (n + 1) = 0
    BY <1>4
  <2> QED BY <1>3, <2>1, <2>2, <2>3 DEF repair_out
<1>11. Fresh(s, "SenderSourcePacketSent", source_out(s), source_total)'
  <2>1. LagsBehind(n, reported(screen[s], "SenderSourcePacketSent"))
    BY <1>1, <1>2, <1>10 DEF ScreenFollows, Fresh
  <2> DEFINE seen == reported(screen[s], "SenderSourcePacketSent")
             shows == IF packet_due(e) THEN e.sent ELSE seen
  <2>2. LagsBehind(n + 1, shows) /\ (n + 1 = source_total => shows = source_total)
    <3> HIDE DEF n, seen
    <3> QED BY <1>2, <1>4, <1>6, <2>1, FreshStep DEF seen
  <2> QED BY <1>9, <1>10, <2>2 DEF Fresh
<1>12. Fresh(s, "SenderRepairPacketSent", repair_out(s), repair_total)'
  BY <1>1, <1>2, <1>9, <1>10 DEF ScreenFollows, Fresh
<1>13. ScreenFollows(s)'
  BY <1>2, <1>9, <1>11, <1>12 DEF ScreenFollows
<1>14. LastReport(s)'
  <2>1. packets_out(s)' # 0 /\ packets_out(s)' \in 1..Len(source[s])
    BY <1>3, <1>4
  <2> QED BY <1>2, <1>3, <1>6, <1>9, <2>1 DEF LastReport
<1> QED BY <1>9, <1>13, <1>14, OthersUndisturbed

LEMMA RepairScreen ==
    ASSUME PrintedSenderInv, NEW s \in Senders, PrintedSenderStep(s), Job[s].progress,
           SendRepair(s)
    PROVE  PrintedSenderInv'
<1> DEFINE source_total == Len(source[s])
           repair_total == Len(repair[s])
           r == packets_out(s) - source_total
<1>1. SenderInv /\ SenderInv' /\ LastReport(s) /\ ScreenFollows(s) /\ Send(s)
  BY OneSender DEF PrintedSenderInv, Send
<1>2. /\ encodable(s) /\ phase[s] = "Sending" /\ phase' = phase
      /\ source_total \in Nat \ {0} /\ repair_total \in Nat /\ Len(sent[s]) \in Nat
      /\ sent[s] = <<>> <=> Len(sent[s]) = 0
  <2>1. encodable(s) /\ phase[s] = "Sending" /\ phase' = phase
    BY <1>1, SendOut
  <2>2. /\ source_total \in Nat \ {0} /\ repair_total \in Nat
        /\ Len(sent[s]) \in 0..(Len(packets[s]) + 1)
        /\ sent[s] = <<>> <=> Len(sent[s]) = 0
    BY <1>1, <2>1, PartFacts
  <2> QED BY <2>1, <2>2
<1>3. /\ packets_out(s) \in Nat /\ packets_out(s) >= source_total
      /\ packets_sent(s) = packets_out(s) /\ packets_out(s)' = packets_out(s) + 1
  <2>1. Len(sent[s]) # 0
    BY <1>2 DEF SendRepair, packets_sent
  <2>2. packets_out(s) = packets_sent(s)
    BY <1>2, <2>1 DEF packets_out
  <2>3. packets_out(s)' = packets_out(s) + 1
    BY <1>1, <1>2, <2>1, SendOut
  <2>4. packets_sent(s) \in Nat
    BY <1>2, <2>1 DEF packets_sent
  <2> QED BY <2>2, <2>3, <2>4 DEF SendRepair
<1>4. r \in Nat /\ packets_out(s) = source_total + r
  BY <1>2, <1>3
<1>5. PICK e : e = [type |-> "SenderRepairPacketSent", sent |-> r + 1,
                    total |-> repair_total, bytes_sent |-> bytes_sent'[s],
                    planned_bytes |-> planned_bytes[s]]
  OBVIOUS
<1>6. /\ e \in SenderEvent /\ e.type = "SenderRepairPacketSent"
      /\ e.sent = r + 1 /\ e.total = repair_total
  <2>1. bytes_sent'[s] \in Nat /\ planned_bytes[s] \in Nat /\ r + 1 \in Nat
    BY <1>1, <1>2, <1>4, PlannedBytesType DEF SenderInv
  <2> HIDE DEF r
  <2> QED BY <1>2, <1>5, <2>1 DEF SenderEvent
<1>7. report' = [report EXCEPT ![s] = e]
  BY <1>3, <1>5 DEF SendRepair, Report
<1> HIDE DEF r
<1>8. packets_out(s) - source_total = r /\ packets_out(s)' - source_total = r + 1
  <2>1. source_total \in Int /\ r \in Int
    BY <1>2, <1>4
  <2>2. packets_out(s)' = (source_total + r) + 1
    BY <1>3, <1>4
  <2>3. (source_total + r) - source_total = r /\ ((source_total + r) + 1) - source_total = r + 1
    <3> HIDE DEF source_total
    <3> QED BY <2>1
  <2> QED BY <1>4, <2>2, <2>3
<1>9. e # report[s]
  <2>1. CASE r = 0
    <3>1. packets_out(s) # 0 /\ packets_out(s) \in 1..source_total
      BY <1>2, <1>4, <2>1
    <3>2. report[s].type = "SenderSourcePacketSent"
      BY <1>1, <1>2, <3>1 DEF LastReport
    <3> QED BY <1>6, <3>2
  <2>2. CASE r # 0
    <3>1. packets_out(s) # 0 /\ packets_out(s) \notin 1..source_total
      BY <1>2, <1>4, <2>2
    <3>2. report[s].sent = r
      BY <1>1, <1>2, <3>1 DEF LastReport, r
    <3> QED BY <1>4, <1>6, <3>2
  <2> QED BY <2>1, <2>2
<1>10. /\ report'[s] = e /\ screen' \in [Senders -> Seq(SenderEvent)]
      /\ screen'[s] # <<>> /\ screen'[s][Len(screen'[s])].type # "SenderFinished"
      /\ reported(screen'[s], "SenderRepairPacketSent") =
            (IF packet_due(e) THEN e.sent ELSE reported(screen[s], "SenderRepairPacketSent"))
      /\ reported(screen'[s], "SenderSourcePacketSent") =
            reported(screen[s], "SenderSourcePacketSent")
  <2>1. /\ report'[s] = e /\ screen' \in [Senders -> Seq(SenderEvent)]
        /\ screen'[s] # <<>> /\ screen'[s][Len(screen'[s])].type # "SenderFinished"
        /\ reported(screen'[s], e.type) =
              (IF packet_due(e) THEN e.sent ELSE reported(screen[s], e.type))
        /\ \A kind : kind # e.type => reported(screen'[s], kind) = reported(screen[s], kind)
    <3> e.type \in {"SenderSourcePacketSent", "SenderRepairPacketSent"}
      BY <1>6
    <3> QED BY <1>2, <1>6, <1>7, <1>9, PacketLine
  <2> QED BY <1>6, <2>1
<1>11. /\ source_out(s) = source_total /\ repair_out(s) = r
       /\ source_out(s)' = source_total /\ repair_out(s)' = r + 1
  <2>1. source_out(s) = source_total
    <3>1. ~(packets_out(s) < source_total)
      BY <1>2, <1>4
    <3> QED BY <3>1 DEF source_out
  <2>2. source_out(s)' = source_total
    <3>1. ~(packets_out(s)' < source_total)
      BY <1>2, <1>3, <1>4
    <3> QED BY <3>1 DEF source_out
  <2>3. packets_out(s) - source_total = r /\ packets_out(s)' - source_total = r + 1
    BY <1>8
  <2> QED BY <2>1, <2>2, <2>3 DEF repair_out
<1>12. Fresh(s, "SenderRepairPacketSent", repair_out(s), repair_total)'
  <2>1. LagsBehind(r, reported(screen[s], "SenderRepairPacketSent"))
    BY <1>1, <1>2, <1>11 DEF ScreenFollows, Fresh
  <2> DEFINE seen == reported(screen[s], "SenderRepairPacketSent")
             shows == IF packet_due(e) THEN e.sent ELSE seen
  <2>2. LagsBehind(r + 1, shows) /\ (r + 1 = repair_total => shows = repair_total)
    <3> HIDE DEF seen
    <3> QED BY <1>2, <1>4, <1>6, <2>1, FreshStep DEF seen
  <2> QED BY <1>10, <1>11, <2>2 DEF Fresh
<1>13. Fresh(s, "SenderSourcePacketSent", source_out(s), source_total)'
  BY <1>1, <1>2, <1>10, <1>11 DEF ScreenFollows, Fresh
<1>14. ScreenFollows(s)'
  BY <1>2, <1>10, <1>12, <1>13 DEF ScreenFollows
<1>15. LastReport(s)'
  <2>1. packets_out(s)' # 0 /\ packets_out(s)' \notin 1..Len(source[s])
    BY <1>2, <1>3, <1>4
  <2>2. packets_out(s)' - source_total = r + 1
    BY <1>8
  <2> QED BY <1>2, <1>6, <1>10, <2>1, <2>2 DEF LastReport
<1> QED BY <1>10, <1>14, <1>15, OthersUndisturbed

\* The remaining steps put nothing on the screen.
LEMMA OtherScreen ==
    ASSUME PrintedSenderInv, NEW s \in Senders, PrintedSenderStep(s), Job[s].progress,
           StartFails(s) \/ SendTooLarge(s) \/ SendIoError(s) \/ SendMeta(s)
    PROVE  PrintedSenderInv'
<1>1. CASE StartFails(s) \/ SendTooLarge(s) \/ SendIoError(s)
  <2>1. /\ phase[s] \in {"Idle", "Sending"} /\ report' = report /\ sent' = sent
        /\ \E p : phase' = [phase EXCEPT ![s] = p] /\ p = "Failed"
    BY <1>1 DEF StartFails, SendTooLarge, SendIoError, Fail, pending
  <2>2. phase'[s] = "Failed" /\ sent'[s] = sent[s]
    BY <2>1 DEF PrintedSenderInv, SenderInv
  <2>3. packets_out(s)' = packets_out(s)
    BY <2>1 DEF packets_out, packets_sent
  <2> QED BY <2>1, <2>2, <2>3, QuietScreen
<1>2. CASE SendMeta(s)
  <2>1. SenderInv /\ Send(s) /\ sent[s] = <<>> /\ report' = report
    BY <1>2 DEF PrintedSenderInv, Send, SendMeta
  <2>2. /\ phase[s] = "Sending" /\ phase'[s] = "Sending"
        /\ packets_out(s)' = packets_out(s)
    BY <2>1, SendOut
  <2> QED BY <2>1, <2>2, QuietScreen
<1> QED BY <1>1, <1>2

LEMMA NextPrintedSenderInv ==
    PrintedSenderInv /\ [PrintedSenderNext]_printed_sender_vars => PrintedSenderInv'
<1> SUFFICES ASSUME PrintedSenderInv, [PrintedSenderNext]_printed_sender_vars
             PROVE  PrintedSenderInv'
  OBVIOUS
<1>1. ASSUME NEW s \in Senders, PrintedSenderStep(s) PROVE PrintedSenderInv'
  <2>1. SenderStep(s)
    BY <1>1 DEF PrintedSenderStep
  <2>2. CASE Job[s].progress
    BY <1>1, <2>1, <2>2, StartScreen, FinishScreen, SourceScreen, RepairScreen, OtherScreen
       DEF SenderStep, LocalStep, Send
  <2>3. CASE ~Job[s].progress
    <3>1. report' = report
      BY <2>1, <2>3 DEF SenderStep, LocalStep, Start, StartFails, SendTooLarge, Finish, Fail,
                        Send, SendMeta, SendSource, SendRepair, SendIoError, Report
    <3>2. screen' = screen
      BY <1>1, <3>1, PrintNoEvent
    <3> QED BY <1>1, <2>3, <3>2, OthersUndisturbed DEF PrintedSenderInv
  <2> QED BY <2>2, <2>3
<1>2. CASE UNCHANGED printed_sender_vars
  <2>1. SenderInv'
    BY <1>2, StutterSenderInv DEF PrintedSenderInv, printed_sender_vars
  <2>2. UNCHANGED <<phase, sent, report, screen>>
    BY <1>2 DEF printed_sender_vars, sender_vars
  <2>3. ASSUME NEW s \in Senders, Job[s].progress PROVE LastReport(s)' /\ ScreenFollows(s)'
    <3>1. packets_out(s)' = packets_out(s)
      BY <2>2 DEF packets_out, packets_sent
    <3>2. source_out(s)' = source_out(s) /\ repair_out(s)' = repair_out(s)
      BY <3>1 DEF source_out, repair_out
    <3> QED BY <2>2, <2>3, <3>1, <3>2 DEF PrintedSenderInv, LastReport, ScreenFollows, Fresh
  <2> QED BY <2>1, <2>2, <2>3 DEF PrintedSenderInv
<1> QED BY <1>1, <1>2 DEF PrintedSenderNext

\* The invariant is inductive.
THEOREM SenderScreenInvariance == PrintedSenderSpec => []PrintedSenderInv
BY InitPrintedSenderInv, NextPrintedSenderInv, PTL DEF PrintedSenderSpec

\* Whatever the job and the sampling rate, the screen of a sender lags behind its socket by
\* less than a sample, shows each part in full once it is out, and ends with the completion
\* line exactly if the call returned Ok.
THEOREM SenderScreenStaysFresh == PrintedSenderSpec => []SenderScreenIsFresh
<1>1. PrintedSenderInv => SenderScreenIsFresh
  <2> SUFFICES ASSUME PrintedSenderInv, NEW s \in Senders, Job[s].progress, sent[s] # <<>>
               PROVE  LET source_sent == IF packets_sent(s) < Len(source[s])
                                         THEN packets_sent(s) ELSE Len(source[s])
                          repair_sent == packets_sent(s) - source_sent
                          fresh(kind, n, total) ==
                              /\ n - reported(screen[s], kind) \in 0..(SampleEvery - 1)
                              /\ n = total => reported(screen[s], kind) = total
                      IN  /\ fresh("SenderSourcePacketSent", source_sent, Len(source[s]))
                          /\ fresh("SenderRepairPacketSent", repair_sent, Len(repair[s]))
                          /\ screen[s][Len(screen[s])].type = "SenderFinished"
                                <=> phase[s] = "Finished"
    BY DEF SenderScreenIsFresh
  <2>1. SenderInv /\ ScreenFollows(s)
    BY DEF PrintedSenderInv
  <2>2. encodable(s)
    BY <2>1 DEF SenderInv, OnPlan
  <2>3. /\ Len(source[s]) \in Nat \ {0} /\ Len(sent[s]) \in Nat /\ Len(sent[s]) # 0
        /\ packets_out(s) = packets_sent(s)
    <3>1. /\ Len(source[s]) \in Nat \ {0}
          /\ Len(sent[s]) \in 0..(Len(packets[s]) + 1)
          /\ sent[s] = <<>> <=> Len(sent[s]) = 0
      BY <2>1, <2>2, PartFacts
    <3> QED BY <3>1 DEF packets_out
  <2>4. packets_out(s) \in Nat
    BY <2>3 DEF packets_sent
  <2>5. source_out(s) \in Nat /\ repair_out(s) \in Nat
    BY <2>3, <2>4 DEF source_out, repair_out
  <2>6. ASSUME NEW n \in Nat, NEW seen, LagsBehind(n, seen)
        PROVE  n - seen \in 0..(SampleEvery - 1)
    <3>1. SampleEvery \in Nat \ {0} /\ n % SampleEvery \in 0..(SampleEvery - 1)
      BY SampleAssumption, DivMod
    <3> QED BY <2>6, <3>1 DEF LagsBehind
  <2>7. /\ source_out(s) - reported(screen[s], "SenderSourcePacketSent") \in 0..(SampleEvery - 1)
        /\ repair_out(s) - reported(screen[s], "SenderRepairPacketSent") \in 0..(SampleEvery - 1)
        /\ source_out(s) = Len(source[s]) =>
              reported(screen[s], "SenderSourcePacketSent") = Len(source[s])
        /\ repair_out(s) = Len(repair[s]) =>
              reported(screen[s], "SenderRepairPacketSent") = Len(repair[s])
    BY <2>1, <2>2, <2>5, <2>6 DEF ScreenFollows, Fresh
  <2>8. screen[s][Len(screen[s])].type = "SenderFinished" <=> phase[s] = "Finished"
    BY <2>1 DEF ScreenFollows
  <2> QED BY <2>3, <2>7, <2>8 DEF source_out, repair_out
<1> QED BY <1>1, SenderScreenInvariance, PTL
=============================================================================
