------------------------------- MODULE Fountain -------------------------------
(***************************************************************************)
(* The program `fountain' of main.rs: `fountain send' processes around the *)
(* senders of Transfer, and a `fountain recv' process around its receive   *)
(* call that writes the output file and may be launched again after it     *)
(* failed or was killed.  receive_to_file and send_file of the library do  *)
(* the same for their callers.                                             *)
(***************************************************************************)
EXTENDS Transfer

CONSTANTS
    Command,     \* Command[s]: the arguments of `fountain send' process s
    Missing,     \* a file that cannot be read
    OldFile,     \* what the output path held before
    Torn,        \* an output file truncated or partly written
    MaxLaunches, \* bound on the launches of `fountain recv'
    MaxFaults    \* bound on crashes, I/O errors, losses and early timeouts

VARIABLES
    recv,      \* the `fountain recv' process: Down, Receiving, Writing, or how it ended
    output,    \* the content of the output path
    before,    \* what it was when the process was launched
    launches,
    faults     \* the faults still to come at most

recv_vars == <<recv, output, before, launches>>
fountain_vars == <<system_vars, recv_vars, faults>>

-----------------------------------------------------------------------------
(* `fountain send' before it calls send_object.  Codec names are given in  *)
(* lower case, a session id left out as the one that was drawn.            *)

codec_kind_from_cli(name) ==
    CASE name \in {"raptorq", "raptor-q", "rfc6330"} -> "RaptorQ"
      [] name \in {"raptor10", "raptor-10", "rfc5053"} -> "Raptor10"
      [] OTHER -> "Unknown"

\* SessionParams::from_file_and_cli and the SendConfig of a command.
session_spec(command) ==
    new_spec(ObjectLen[command.path], command.symbol_size, codec_kind_from_cli(command.codec))

job(command) ==
    [session_id |-> command.session_id, spec |-> session_spec(command),
     object |-> command.path, repair_count |-> command.repair_count,
     repair_rounds |-> command.repair_rounds, progress |-> command.progress]

\* The error of run before a sender exists.
send_error(command) ==
    IF codec_kind_from_cli(command.codec) = "Unknown" THEN "InvalidCodec"
    ELSE IF ~command.resolves THEN "ResolveAddress"
    ELSE IF command.path = Missing THEN "ReadInput"
    ELSE IF validate_spec(session_spec(command)) # "Ok" THEN "TransferSettings"
    ELSE "Ok"

ASSUME CommandAssumption ==
    \A s \in Senders : send_error(Command[s]) = "Ok" => Job[s] = job(Command[s])
ASSUME FileAssumption ==
    /\ Missing \notin Objects
    /\ OldFile \notin Objects \cup {Garbled, Torn} /\ Torn \notin Objects \cup {Garbled}

FountainInit ==
    /\ SystemInit
    /\ recv = "Down"
    /\ output = OldFile
    /\ before = OldFile
    /\ launches = 0
    /\ faults \in 0..MaxFaults

-----------------------------------------------------------------------------
SendProcess(s) ==
    /\ send_error(Command[s]) = "Ok"
    /\ SendOnWire(s) \/ SenderLocal(s)
    /\ UNCHANGED <<recv_vars, faults>>

\* The command is refused before anything is sent.
SendRefused(s) ==
    /\ phase[s] = "Idle"
    /\ send_error(Command[s]) # "Ok"
    /\ Fail(s, send_error(Command[s]))
    /\ UNCHANGED <<receiver_vars, net_vars, recv_vars, faults>>

Fault == faults > 0 /\ faults' = faults - 1

\* The socket cannot be bound, or a send fails; being killed looks the same from outside.
SendProcessFails(s) ==
    /\ Fault
    /\ send_error(Command[s]) = "Ok"
    /\ \/ SenderCrash(s)
       \/ /\ phase[s] = "Idle"
          /\ Fail(s, "Io")
          /\ UNCHANGED <<receiver_vars, net_vars>>
    /\ UNCHANGED recv_vars

-----------------------------------------------------------------------------
receiving == recv = "Receiving" /\ result = Pending

\* A new process begins receive_object anew.
FreshCall ==
    /\ session' = None
    /\ decoder' = None
    /\ packets_received' = 0
    /\ bytes_received' = 0
    /\ ignored_datagrams' = 0
    /\ events' = <<>>
    /\ result' = Pending

\* Mutant of LaunchRecv: the output file is opened first and filled in the end.
LaunchRecv_OpensOutput ==
    /\ recv \notin {"Receiving", "Writing"}
    /\ launches < MaxLaunches
    /\ launches' = launches + 1
    /\ recv' = "Receiving"
    /\ before' = output
    /\ output' = Torn
    /\ FreshCall
    /\ UNCHANGED <<sender_vars, net_vars, faults>>

\* The user starts `fountain recv', for the first time or after it ended.
LaunchRecv ==
    /\ recv \notin {"Receiving", "Writing"}
    /\ launches < MaxLaunches
    /\ launches' = launches + 1
    /\ recv' = "Receiving"
    /\ before' = output
    /\ FreshCall
    /\ UNCHANGED <<output, sender_vars, net_vars, faults>>

RecvDelivers(d) ==
    /\ receiving
    /\ Deliver(d)
    /\ UNCHANGED <<recv_vars, faults>>

\* A datagram finds no `fountain recv' at the port; by a fault, it gets lost before one.
Unheard(d) ==
    /\ IF receiving THEN Fault ELSE UNCHANGED faults
    /\ in_flight' = in_flight \ {d}
    /\ UNCHANGED <<lost, duplicated, receiver_vars, sender_vars, recv_vars>>

\* The idle timeout, once nothing can come any more.
RecvTimesOut ==
    /\ receiving
    /\ Silent
    /\ Timeout
    /\ UNCHANGED <<recv_vars, faults>>

\* The timeout elapses while datagrams are still to come, or the socket fails.
RecvCallFails ==
    /\ Fault
    /\ receiving
    /\ IoError \/ (~Silent /\ Timeout)
    /\ UNCHANGED recv_vars

\* receive_object returned an error: map_receive_error and the failure exit code.
RecvExits ==
    /\ recv = "Receiving"
    /\ result.status \in {"Timeout", "Io"}
    /\ recv' = "Failure"
    /\ UNCHANGED <<output, before, launches, system_vars, faults>>

\* Mutant of OpenOutput: a file left over from a broken write is not overwritten.
OpenOutput_RefusesTorn ==
    /\ recv = "Receiving"
    /\ result.status = "Ok"
    /\ recv' = IF output = Torn THEN "Failure" ELSE "Writing"
    /\ output' = Torn
    /\ UNCHANGED <<before, launches, system_vars, faults>>

\* fs::write creates or truncates the file ...
OpenOutput ==
    /\ recv = "Receiving"
    /\ result.status = "Ok"
    /\ recv' = "Writing"
    /\ output' = Torn
    /\ UNCHANGED <<before, launches, system_vars, faults>>

\* ... and writes the recovered bytes.
WriteOutput ==
    /\ recv = "Writing"
    /\ recv' = "Success"
    /\ output' = result.object
    /\ UNCHANGED <<before, launches, system_vars, faults>>

\* The recovered bytes are on their way to the file, opened or not.
writing == recv = "Writing" \/ (recv = "Receiving" /\ result.status = "Ok")

\* Mutant of WriteFails: the error of the write is dropped.
WriteFails_Ignored ==
    /\ Fault
    /\ writing
    /\ recv' = "Success"
    /\ UNCHANGED <<output, before, launches, system_vars>>

\* The file cannot be opened, or the disk is full half-way.
WriteFails ==
    /\ Fault
    /\ writing
    /\ recv' = "Failure"
    /\ UNCHANGED <<output, before, launches, system_vars>>

\* The process is killed, or never got its socket.
KillRecv ==
    /\ Fault
    /\ recv \in {"Receiving", "Writing"}
    /\ recv' = "Killed"
    /\ UNCHANGED <<output, before, launches, system_vars>>

RecvFinishes == RecvExits \/ OpenOutput \/ WriteOutput

FountainNext ==
    \/ \E s \in Senders : SendProcess(s) \/ SendRefused(s) \/ SendProcessFails(s)
    \/ LaunchRecv \/ RecvTimesOut \/ RecvCallFails
    \/ \E d \in in_flight : RecvDelivers(d) \/ Unheard(d)
    \/ RecvFinishes \/ WriteFails \/ KillRecv

\* A step some process takes without anybody's help.
Progress ==
    \/ \E s \in Senders : SendProcess(s)
    \/ \E d \in in_flight : RecvDelivers(d)
    \/ RecvFinishes

\* As long as a sender can go on, a datagram can be delivered or a write can return, one of
\* them does.  Each process takes finitely many such steps, so this asks less than fairness
\* for every process.  When `fountain recv' is launched is up to its user, and neither
\* timers nor faults are relied on.
FountainSpec == FountainInit /\ [][FountainNext]_fountain_vars /\ WF_fountain_vars(Progress)

-----------------------------------------------------------------------------
\* "Destination file; an existing file is overwritten after decoding succeeds": however
\* the process ends, a receive call that brought no object leaves the file as it found it,
\* one torn by an earlier launch included.
FileKeptUntilDecoded == result.status # "Ok" => output = before

\* A launch that exits with success leaves the whole object of a sender of its session in
\* the file: not a torn file, and not the file of an earlier launch.
SuccessMeansFile ==
    recv = "Success" =>
        /\ result.status = "Ok"
        /\ \E s \in own_senders : output = result.object /\ output = Job[s].object

\* Retrying works: a receiver launched after a failure or a kill, in the middle of a
\* transfer, starts from nothing, and with no further fault it ends with success as soon
\* as what its own session still has to bring decodes.
RetrySucceeds ==
    (receiving /\ faults = 0 /\ EnoughRemains) ~> (recv = "Success")
=============================================================================
