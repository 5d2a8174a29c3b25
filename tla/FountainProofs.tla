---------------------------- MODULE FountainProofs ----------------------------
(***************************************************************************)
(* What `fountain recv' does to its output file, for every set of senders, *)
(* commands, datagrams and faults.                                         *)
(***************************************************************************)
EXTENDS Fountain, TransferProofs

\* A file is only written while, or after, there is an object to write.
WritesOnlyDecoded == recv \in {"Writing", "Success"} => result.status = "Ok"

FileInv == WritesOnlyDecoded /\ FileKeptUntilDecoded

LEMMA FileInvInit == FountainInit => FileInv
BY DEF FountainInit, SystemInit, ReceiverInit, FileInv, WritesOnlyDecoded, FileKeptUntilDecoded,
       Pending

\* A call that has returned stays as it is: no receiver step is possible any more.
LEMMA CallIsOver ==
    ASSUME NEW d, Receive(d.msg, d.src)
    PROVE  result.status # "Ok"
BY DEF Receive, Pending

\* Steps that touch neither the output nor the process keep the invariant.
LEMMA FileUntouched ==
    ASSUME FileInv, UNCHANGED <<recv, output, before>>,
           result.status = "Ok" => result'.status = "Ok"
    PROVE  FileInv'
BY DEF FileInv, WritesOnlyDecoded, FileKeptUntilDecoded

LEMMA FileInvStep == FileInv /\ [FountainNext]_fountain_vars => FileInv'
<1> SUFFICES ASSUME FileInv, [FountainNext]_fountain_vars PROVE FileInv'
  OBVIOUS
<1>1. ASSUME NEW s \in Senders,
             SendProcess(s) \/ SendRefused(s) \/ SendProcessFails(s)
      PROVE  FileInv'
  <2>1. UNCHANGED result
    BY <1>1 DEF SendProcess, SendRefused, SendProcessFails, SendOnWire, SenderLocal,
                SenderCrash, receiver_vars
  <2>2. UNCHANGED <<recv, output, before>>
    BY <1>1 DEF SendProcess, SendRefused, SendProcessFails, recv_vars
  <2> QED BY <2>1, <2>2, FileUntouched
<1>2. CASE LaunchRecv
  BY <1>2 DEF LaunchRecv, FreshCall, Pending, FileInv, WritesOnlyDecoded, FileKeptUntilDecoded
<1>3. CASE RecvTimesOut \/ RecvCallFails
  <2>1. result.status # "Ok"
    BY <1>3 DEF RecvTimesOut, RecvCallFails, receiving, Pending
  <2>2. UNCHANGED <<recv, output, before>>
    BY <1>3 DEF RecvTimesOut, RecvCallFails, recv_vars
  <2> QED BY <2>1, <2>2, FileUntouched
<1>4. ASSUME NEW d \in in_flight, RecvDelivers(d) \/ Unheard(d) PROVE FileInv'
  <2>1. UNCHANGED <<recv, output, before>>
    BY <1>4 DEF RecvDelivers, Unheard, recv_vars
  <2>2. result.status = "Ok" => result'.status = "Ok"
    <3>1. CASE RecvDelivers(d)
      BY <3>1, CallIsOver DEF RecvDelivers, Deliver
    <3>2. CASE Unheard(d)
      BY <3>2 DEF Unheard, receiver_vars
    <3> QED BY <1>4, <3>1, <3>2
  <2> QED BY <2>1, <2>2, FileUntouched
<1>5. CASE RecvExits
  BY <1>5 DEF RecvExits, system_vars, receiver_vars, FileInv, WritesOnlyDecoded,
              FileKeptUntilDecoded
<1>6. CASE OpenOutput \/ WriteOutput
  BY <1>6 DEF OpenOutput, WriteOutput, system_vars, receiver_vars, FileInv, WritesOnlyDecoded,
              FileKeptUntilDecoded
<1>7. CASE WriteFails \/ KillRecv
  BY <1>7 DEF WriteFails, KillRecv, system_vars, receiver_vars, FileInv, WritesOnlyDecoded,
              FileKeptUntilDecoded
<1>8. CASE UNCHANGED fountain_vars
  BY <1>8 DEF fountain_vars, system_vars, receiver_vars, recv_vars, FileInv, WritesOnlyDecoded,
              FileKeptUntilDecoded
<1> QED BY <1>1, <1>2, <1>3, <1>4, <1>5, <1>6, <1>7, <1>8 DEF FountainNext, RecvFinishes

\* An existing output file is left as it was by every launch that recovers no object,
\* however it fails and whatever it receives.
THEOREM FileKept == FountainSpec => []FileKeptUntilDecoded
<1>1. FileInv => FileKeptUntilDecoded
  BY DEF FileInv
<1> QED BY <1>1, FileInvInit, FileInvStep, PTL DEF FountainSpec

-----------------------------------------------------------------------------
(* The transfer inside the processes keeps the invariant of the transfer.  *)

\* The command line cannot set the codec's tuning.
LEMMA CommandTuning ==
    ASSUME NEW s \in Senders, send_error(Command[s]) = "Ok"
    PROVE  Job[s].spec.codec.tuning = DefaultTuning
<1>1. Job[s] = job(Command[s])
  BY CommandAssumption
<1>2. Job[s].spec = session_spec(Command[s])
  BY <1>1 DEF job
<1> QED BY <1>2 DEF session_spec, new_spec

\* A process launched anew has forgotten whatever an earlier one received.
LEMMA FreshCallInv ==
    ASSUME SystemInv, FreshCall, UNCHANGED <<sender_vars, net_vars>>
    PROVE  SystemInv'
<1>1. IInv'
  <2>1. ReceiverInit'
    BY DEF FreshCall, ReceiverInit
  <2>2. (ReceiverInit => IInv)'
    BY InitIInv, PTL
  <2> QED BY <2>1, <2>2
<1>2. ReceptionInv'
  BY DEF FreshCall, ReceptionInv, SessionInv, SymbolsInv, OutcomeIntegrity, Pending
<1>3. SenderInv' /\ NetInv'
  BY StutterSenderInv DEF SystemInv, NetInv, net_vars, OfSender, Plain, encodable
<1> QED BY <1>1, <1>2, <1>3 DEF SystemInv

LEMMA IdleFailInv ==
    ASSUME SystemInv, NEW s \in Senders, NEW e, phase[s] = "Idle", Fail(s, e),
           UNCHANGED <<receiver_vars, net_vars>>
    PROVE  SystemInv'
<1>1. SenderInv'
  BY PhaseStep DEF Fail, SystemInv
<1> QED BY <1>1, SenderOnlyInv

LEMMA FountainSystemInv ==
    ASSUME SessionsAgree, EsisFit, StraysUnrelated, SystemInv, [FountainNext]_fountain_vars
    PROVE  SystemInv'
<1>1. ASSUME NEW s \in Senders, SendProcess(s) PROVE SystemInv'
  <2>1. Job[s].spec.codec.tuning = DefaultTuning
    BY <1>1, CommandTuning DEF SendProcess
  <2>2. CASE SendOnWire(s)
    BY <2>1, <2>2, SendOnWireInv
  <2>3. CASE SenderLocal(s)
    BY <2>3, LocalStepInv, SenderOnlyInv DEF SenderLocal, SystemInv
  <2> QED BY <1>1, <2>2, <2>3 DEF SendProcess
<1>2. ASSUME NEW s \in Senders, SendRefused(s) PROVE SystemInv'
  <2>1. /\ phase[s] = "Idle" /\ Fail(s, send_error(Command[s]))
        /\ UNCHANGED <<receiver_vars, net_vars>>
    BY <1>2 DEF SendRefused
  <2> QED BY <2>1, IdleFailInv
<1>3. ASSUME NEW s \in Senders, SendProcessFails(s) PROVE SystemInv'
  <2>1. CASE SenderCrash(s)
    BY <2>1, LocalStepInv, SenderOnlyInv DEF SenderCrash, SystemInv
  <2>2. CASE phase[s] = "Idle" /\ Fail(s, "Io") /\ UNCHANGED <<receiver_vars, net_vars>>
    BY <2>2, IdleFailInv
  <2> QED BY <1>3, <2>1, <2>2 DEF SendProcessFails
<1>4. CASE LaunchRecv
  BY <1>4, FreshCallInv DEF LaunchRecv
<1>5. CASE RecvTimesOut \/ RecvCallFails
  BY <1>5, CallFailsInv DEF RecvTimesOut, RecvCallFails
<1>6. ASSUME NEW d \in in_flight, RecvDelivers(d) PROVE SystemInv'
  BY <1>6, DeliverInv DEF RecvDelivers
<1>7. ASSUME NEW d \in in_flight, Unheard(d) PROVE SystemInv'
  BY <1>7, LossInv DEF Unheard
<1>8. CASE UNCHANGED system_vars
  BY <1>8, LossInv DEF system_vars, net_vars
<1>9. RecvFinishes \/ WriteFails \/ KillRecv \/ UNCHANGED fountain_vars => UNCHANGED system_vars
  BY DEF RecvFinishes, RecvExits, OpenOutput, WriteOutput, WriteFails, KillRecv, fountain_vars
<1> QED BY <1>1, <1>2, <1>3, <1>4, <1>5, <1>6, <1>7, <1>8, <1>9 DEF FountainNext

\* A successful exit has written the object of the call.
ObjectWritten == recv = "Success" => output = result.object

LEMMA ObjectWrittenStep ==
    ASSUME FileInv, ObjectWritten, [FountainNext]_fountain_vars
    PROVE  ObjectWritten'
<1>1. CASE UNCHANGED <<recv, output, result>>
  BY <1>1 DEF ObjectWritten
<1>2. CASE recv' # "Success"
  BY <1>2 DEF ObjectWritten
<1>3. CASE WriteOutput
  BY <1>3 DEF WriteOutput, system_vars, receiver_vars, ObjectWritten
<1>4. UNCHANGED <<recv, output, result>> \/ recv' # "Success" \/ WriteOutput
  <2>1. ASSUME NEW s \in Senders, SendProcess(s) \/ SendRefused(s) \/ SendProcessFails(s)
        PROVE  UNCHANGED <<recv, output, result>>
    BY <2>1 DEF SendProcess, SendRefused, SendProcessFails, SendOnWire, SenderLocal,
                SenderCrash, receiver_vars, recv_vars
  <2>2. ASSUME NEW d \in in_flight, RecvDelivers(d) \/ Unheard(d)
        PROVE  UNCHANGED <<recv, output, result>> \/ recv' # "Success"
    BY <2>2 DEF RecvDelivers, Unheard, receiving, receiver_vars, recv_vars
  <2>3. ASSUME RecvTimesOut \/ RecvCallFails
        PROVE  recv' # "Success"
    BY <2>3 DEF RecvTimesOut, RecvCallFails, receiving, recv_vars
  <2>4. ASSUME LaunchRecv \/ RecvExits \/ OpenOutput \/ WriteFails \/ KillRecv
        PROVE  recv' # "Success"
    BY <2>4 DEF LaunchRecv, RecvExits, OpenOutput, WriteFails, KillRecv
  <2>5. ASSUME UNCHANGED fountain_vars
        PROVE  UNCHANGED <<recv, output, result>>
    BY <2>5 DEF fountain_vars, system_vars, receiver_vars, recv_vars
  <2> QED BY <2>1, <2>2, <2>3, <2>4, <2>5 DEF FountainNext, RecvFinishes
<1> QED BY <1>1, <1>2, <1>3, <1>4

LaunchInv == FileInv /\ SystemInv /\ ObjectWritten

THEOREM LaunchInvariance ==
    ASSUME SessionsAgree, EsisFit, StraysUnrelated
    PROVE  FountainSpec => []LaunchInv
<1>1. FountainInit => LaunchInv
  BY FileInvInit, InitSystemInv DEF FountainInit, LaunchInv, ObjectWritten
<1>2. LaunchInv /\ [FountainNext]_fountain_vars => LaunchInv'
  BY FileInvStep, FountainSystemInv, ObjectWrittenStep DEF LaunchInv
<1> QED BY <1>1, <1>2, PTL DEF FountainSpec

\* However often `fountain recv' is launched, and whatever earlier launches, faults and
\* transfers left behind, a receive call returns the object of its session's senders.
THEOREM LaunchesAreSound ==
    ASSUME SessionsAgree, EsisFit, StraysUnrelated
    PROVE  FountainSpec => []OutcomeIntegrity
<1>1. LaunchInv => OutcomeIntegrity
  BY DEF LaunchInv, SystemInv, ReceptionInv
<1> QED BY <1>1, LaunchInvariance, PTL

\* A launch that exits with success has left that object in the file, whole.
THEOREM SuccessLeavesFile ==
    ASSUME SessionsAgree, EsisFit, StraysUnrelated
    PROVE  FountainSpec => []SuccessMeansFile
<1>1. LaunchInv => SuccessMeansFile
  BY DEF LaunchInv, SystemInv, ReceptionInv, OutcomeIntegrity, FileInv, WritesOnlyDecoded,
         ObjectWritten, SuccessMeansFile
<1> QED BY <1>1, LaunchInvariance, PTL
=============================================================================
