----------------------------- MODULE IscsiSession -----------------------------
(***************************************************************************)
(* One connection and its session as the receive thread sees them: the     *)
(* dispatcher iscsi_server_process and every request handler it calls.     *)
(* The handlers run one after the other in the receive thread and share    *)
(* nothing but the response buffer with the transmit thread (see           *)
(* ResponseStream), so each is one step.                                   *)
(*                                                                         *)
(* A PDU is a record with the fields the code reads.  A data segment, a    *)
(* command block and the contents of the target's memory are abstracted to *)
(* the task that they belong to: memory is a function from offsets to      *)
(* tasks.  The session and the target are the globals                      *)
(* ISCSI_DEFAULT_SESSION and ISCSI_DEFAULT_TARGET of the process forked    *)
(* for the connection; a process whose two threads have ended serves       *)
(* another connection with them (see ServerProcess).                       *)
(***************************************************************************)
EXTENDS IscsiParameters, FiniteSets

CONSTANTS
  Requests,     \* PDUs that may arrive
  MemorySize,   \* ISCSI_TARGET_MEMORY_SIZE = ISCSI_TRANSFER_ENTRY_SIZE
  MaxConnections, \* bound: connections the process serves
  MaxStatSN     \* bound: stamped responses per behaviour

\* What the handlers take for granted of a PDU, and do not check: a text has
\* digits where a number stands, and data stays inside the memory of the target.
IsPDU(p) ==
  /\ p.opcode = "LOGIN" => IsText(p.text) /\ p.transit \in BOOLEAN
  /\ p.opcode = "SCSI_CMD" => p.edtl \in 0 .. MemorySize /\ p.dsl \in Nat
  /\ p.opcode = "SCSI_DATA_OUT" =>
       p.offset \in Nat /\ p.dsl \in Nat /\ p.offset + p.dsl <= MemorySize

ASSUME RequestsAssumption == \A p \in Requests : IsPDU(p)
ASSUME MemoryAssumption == MemorySize \in Nat \ {0}
ASSUME BoundsAssumption == MaxConnections \in Nat \ {0} /\ MaxStatSN \in Nat

VARIABLES
  connection,   \* session_reference (attached or not), stat_sn, expected_cmd_sn
  parameter,    \* connection->parameter
  session,      \* ISCSI_DEFAULT_SESSION, without its transfer entry
  entry,        \* its transfer entry
  target,       \* ISCSI_DEFAULT_TARGET: opens of the device, buffer, scsi_response
  executed,     \* the commands this connection gave to the device, and the
                \* data they found
  served,       \* connections served so far, the StatSNs given on the earlier
                \* ones, whether this one was answered
  process,      \* "running", "terminated" (SOCKET_TERMINATE) or "exited"
  responses,    \* responses to the last PDU
  last          \* the last PDU's opcode, what became of it, and whether it was a
                \* Login with the Transit bit

stateVars == <<connection, parameter, session, entry, target, executed>>
vars == <<stateVars, served, process, responses, last>>

\* Content of memory that nobody wrote, and the command block of no command.
Blank == "blank"
NoCommand == [task |-> Blank, kind |-> "none", length |-> 0]

Offsets == 0 .. MemorySize - 1

\* iscsi_connection_create.  The parameters are not read before a login sets them.
iscsi_connection_create ==
  [session_reference |-> FALSE, stat_sn |-> 0, expected_cmd_sn |-> 0]

\* A new process: its globals are zero.
Init ==
  /\ connection = iscsi_connection_create
  /\ parameter = set_default_parameter
  /\ session = [num_connections |-> 0, max_connections |-> 0, ExpCmdSN |-> 0,
                command_numbering_start |-> FALSE,
                is_full_feature_phase |-> FALSE, is_discovery |-> FALSE,
                transfer_tag |-> 0]
  /\ entry = [cdb |-> NoCommand, data |-> [o \in Offsets |-> Blank],
              total_length |-> 0, offset |-> 0, r2t_sn |-> 0,
              total_r2t_sn |-> 0, transfer_tag |-> 0]
  /\ target = [opens |-> 0, buffer |-> [o \in Offsets |-> Blank],
               scsi_response |-> 0]
  /\ executed = <<>>
  /\ served = [connections |-> 1, stat_sns |-> 0, answered |-> FALSE]
  /\ process = "running"
  /\ responses = <<>>
  /\ last = [opcode |-> "NONE", status |-> "NONE", transit |-> FALSE]

-------------------------------------------------------------------------------
(***************************************************************************)
(* Responses.  iscsi_pdu_set_response_header stamps a response with the    *)
(* connection's StatSN and advances it, and with ExpCmdSN and MaxCmdSN.    *)
(***************************************************************************)
\* "only one PDU at a time"
iscsi_connection_max_cmd_sn(c) == c.expected_cmd_sn

Stamp(c, i) ==
  [stat_sn |-> c.stat_sn + i, exp_cmd_sn |-> c.expected_cmd_sn,
   max_cmd_sn |-> iscsi_connection_max_cmd_sn(c)]

\* The header of a response that is not stamped.
NoStamp == [stat_sn |-> -1, exp_cmd_sn |-> -1, max_cmd_sn |-> -1]

Advance(c, n) == [c EXCEPT !.stat_sn = @ + n]

Finish(p, status, rs) ==
  /\ responses' = rs
  /\ served' = [served EXCEPT !.answered = @ \/ rs # <<>>]
  /\ last' = [opcode |-> p.opcode, status |-> status,
              transit |-> p.opcode = "LOGIN" /\ p.transit]

\* The handler answered, or returned zero, and the process lives on.
Answer(p, rs) == Finish(p, "DONE", rs) /\ UNCHANGED process

\* The process is gone: exit(1), or a fault.
Exit(p) ==
  /\ Finish(p, "EXIT", <<>>)
  /\ process' = "exited"
  /\ UNCHANGED stateVars

Terminate(p) ==
  /\ Finish(p, "SOCKET_TERMINATE", <<>>)
  /\ process' = "terminated"

-------------------------------------------------------------------------------
(***************************************************************************)
(* valid_command_numbering, called on every PDU.                           *)
(***************************************************************************)
iscsi_pdu_has_cmdSN(p) ==
  p.opcode \in {"NOP_OUT", "SCSI_CMD", "LOGIN", "TEXT", "LOGOUT"}

\* Bit 7 of byte 0 is read; no PDU sets it.
iscsi_pdu_immediate(p) == FALSE

Unchecked(p) == ~connection.session_reference \/ iscsi_pdu_has_cmdSN(p)

valid_command_numbering(p) ==
  (~Unchecked(p) /\ session.command_numbering_start) => p.cmdSN = session.ExpCmdSN

\* The session after a PDU that was not ignored.
Numbered(p) ==
  IF Unchecked(p) THEN session
  ELSE [session EXCEPT
          !.command_numbering_start = TRUE,
          !.ExpCmdSN = IF /\ p.opcode \in {"LOGOUT", "TEXT", "SCSI_CMD", "REJECT"}
                          /\ ~iscsi_pdu_immediate(p)
                       THEN p.cmdSN + 1 ELSE p.cmdSN]

\* PDU_IGNORE
Ignore(p) ==
  /\ ~valid_command_numbering(p)
  /\ Finish(p, "PDU_IGNORE", <<>>)
  /\ UNCHANGED <<stateVars, process>>

-------------------------------------------------------------------------------
(***************************************************************************)
(* Login.                                                                  *)
(***************************************************************************)
BeforeFullFeature ==
  ~connection.session_reference \/ ~session.is_full_feature_phase

LoginResponse(status, transit, nsg, stamp, text) ==
  [opcode |-> "LOGIN_RES", status |-> status, transit |-> transit, nsg |-> nsg,
   stamp |-> stamp, text |-> text]

\* A PDU other than Login before there is a session: SOCKET_TERMINATE.
NotLoggedIn(p) ==
  /\ ~connection.session_reference
  /\ p.opcode # "LOGIN"
  /\ Terminate(p)
  /\ UNCHANGED stateVars

\* iscsi_request_login_reject: a cleared header with opcode and TSIH.
iscsi_request_login_reject(p) ==
  /\ connection.session_reference
  /\ ~session.is_full_feature_phase
  /\ p.opcode # "LOGIN"
  /\ valid_command_numbering(p)
  /\ session' = Numbered(p)
  /\ Answer(p, <<LoginResponse("SUCCESS", FALSE, 0, NoStamp, <<>>)>>)
  /\ UNCHANGED <<connection, parameter, entry, target, executed>>

LoginArrives(p) == BeforeFullFeature /\ p.opcode = "LOGIN"

\* The Continue bit: no more than an acknowledgement.
response_partial_login(p) ==
  /\ LoginArrives(p)
  /\ p.continue
  /\ parameter' = iscsi_connection_parameter_create(p.text)
  /\ connection' = Advance(connection, 1)
  /\ Answer(p, <<LoginResponse(IF p.transit THEN "INITIATOR_ERROR" ELSE "SUCCESS",
                               FALSE, p.nsg, Stamp(connection, 0), <<>>)>>)
  /\ UNCHANGED <<session, entry, target, executed>>

\* Mutant: the limit itself is still allowed.
FullAboveLimit == session.num_connections > session.max_connections

\* What setup_session returns, before it changes anything or after.
iscsi_session_full == session.num_connections >= session.max_connections

CreatesSession(p) ==
  /\ ~connection.session_reference
  /\ iscsi_parameter_get(p.text, "InitiatorName") # NULL
  /\ p.tsih = 0

SetupStatus(p) ==
  CASE iscsi_parameter_get(p.text, "InitiatorName") = NULL -> "INITIATOR_ERROR"
    [] CreatesSession(p) /\ iscsi_parameter_get(p.text, "SessionType") # "Discovery"
         -> IF iscsi_parameter_get(p.text, "TargetName") # NULL
              THEN "SUCCESS" ELSE "INITIATOR_ERROR"
    [] CreatesSession(p) /\ iscsi_parameter_get(p.text, "SessionType") = "Discovery"
         -> "SUCCESS"
    [] OTHER -> IF iscsi_session_full THEN "TOO_MANY_CONNECTION" ELSE "SUCCESS"

\* iscsi_session_create opens the device, or exits; strcmp(NULL, "Discovery")
\* faults when the text has no SessionType.
LoginExits(p) ==
  /\ LoginArrives(p)
  /\ ~p.continue
  /\ CreatesSession(p)
  /\ Exit(p)

SessionTypeGiven(p) ==
  CreatesSession(p) => iscsi_parameter_get(p.text, "SessionType") # NULL

\* The session setup_session leaves, whether it succeeds or not: is_discovery is
\* assigned when the SessionType is Discovery or a TargetName is given.
SetUpSession(p) ==
  IF ~CreatesSession(p) THEN session
  ELSE LET type == iscsi_parameter_get(p.text, "SessionType")
           named == iscsi_parameter_get(p.text, "TargetName") # NULL
       IN [session EXCEPT
             !.num_connections = 0, !.max_connections = 4,
             !.ExpCmdSN = p.ExpCmdSN, !.transfer_tag = 0,
             !.is_discovery = IF type = "Discovery" THEN TRUE
                              ELSE IF named THEN FALSE ELSE @]

OpenedTarget(p) ==
  IF CreatesSession(p) THEN [target EXCEPT !.opens = @ + 1] ELSE target

\* setup_session failed: the request's header goes back with the status.
LoginSetupFails(p) ==
  /\ LoginArrives(p)
  /\ ~p.continue
  /\ ~connection.session_reference
  /\ SessionTypeGiven(p)
  /\ SetupStatus(p) # "SUCCESS"
  /\ parameter' = iscsi_connection_parameter_create(p.text)
  /\ session' = SetUpSession(p)
  /\ target' = OpenedTarget(p)
  /\ connection' = [connection EXCEPT !.session_reference = CreatesSession(p)]
  /\ Answer(p, <<LoginResponse(SetupStatus(p), p.transit, p.nsg, NoStamp, <<>>)>>)
  /\ UNCHANGED <<entry, executed>>

\* Mutant: the next stage is not looked at.
EntersFullFeatureOnTransit(p) == p.transit /\ p.csg \in {0, 1}

\* Transit to stage 3 from SECURITY_NEGOTIATION (0) or LOGIN_OPERATIONAL (1).
EntersFullFeature(p) == p.transit /\ p.csg \in {0, 1} /\ p.nsg = 3

FinalStatus(p) ==
  IF p.transit /\ p.nsg # 3 THEN "INITIATOR_ERROR" ELSE "SUCCESS"

SecurityText == <<<<"AuthMethod", "None">>>>

\* response_final_login, with a session that exists or was just set up.
response_final_login(p) ==
  LET created == iscsi_connection_parameter_create(p.text)
  IN
  /\ LoginArrives(p)
  /\ ~p.continue
  /\ SessionTypeGiven(p)
  /\ connection.session_reference \/ SetupStatus(p) = "SUCCESS"
  /\ target' = OpenedTarget(p)
  /\ session' = [SetUpSession(p) EXCEPT
                   !.is_full_feature_phase = @ \/ EntersFullFeature(p)]
  /\ \/ /\ p.csg = 0
        /\ parameter' = created
        /\ connection' = Advance([connection EXCEPT !.session_reference = TRUE], 1)
        /\ Answer(p, <<LoginResponse(FinalStatus(p), TRUE, p.nsg,
                                     Stamp(connection, 0), SecurityText)>>)
     \/ /\ p.csg = 1
        /\ parameter' =
             iscsi_connection_parameter_generate_operational_data(created)
        /\ connection' = Advance([connection EXCEPT !.session_reference = TRUE], 1)
        /\ Answer(p, <<LoginResponse(FinalStatus(p), TRUE, p.nsg,
                         Stamp(connection, 0), OperationalText(created))>>)
     \/ /\ p.csg = 3
        /\ parameter' = created
        /\ connection' = [connection EXCEPT !.session_reference = TRUE]
        /\ Answer(p, <<LoginResponse("INITIATOR_ERROR", p.transit, p.nsg,
                                     NoStamp, <<>>)>>)
     \/ /\ p.csg = 2        \* return -1; // IMPOSSIBLE
        /\ parameter' = created
        /\ connection' = [connection EXCEPT !.session_reference = TRUE]
        /\ Terminate(p)
  /\ UNCHANGED <<entry, executed>>

LoginPhase(p) ==
  \/ NotLoggedIn(p) \/ iscsi_request_login_reject(p)
  \/ response_partial_login(p) \/ LoginExits(p) \/ LoginSetupFails(p)
  \/ response_final_login(p)

-------------------------------------------------------------------------------
(***************************************************************************)
(* Full feature phase: requests that change no more than the numbering.    *)
(***************************************************************************)
FullFeature ==
  connection.session_reference /\ session.is_full_feature_phase

Arrives(p, opcode) ==
  FullFeature /\ valid_command_numbering(p) /\ p.opcode = opcode

Response(opcode, stamp) == [opcode |-> opcode, stamp |-> stamp]

\* One stamped response; nothing else changes.
RespondOnce(p, opcode) ==
  /\ session' = Numbered(p)
  /\ connection' = Advance(connection, 1)
  /\ Answer(p, <<Response(opcode, Stamp(connection, 0))>>)
  /\ UNCHANGED <<parameter, entry, target, executed>>

\* The Logout response says LOGOUT_SUCCESS; session and connection stay open.
iscsi_request_logout_process(p) ==
  Arrives(p, "LOGOUT") /\ RespondOnce(p, "LOGOUT_RES")

\* A header copied from the request for "continue" and for SendTargets, and no
\* response to any other text.
iscsi_request_text_process(p) ==
  /\ Arrives(p, "TEXT")
  /\ session' = Numbered(p)
  /\ \/ /\ p.continue \/ iscsi_parameter_get(p.text, "SendTargets") # NULL
        /\ Answer(p, <<Response("TEXT_RES", NoStamp)>>)
     \/ /\ ~p.continue /\ iscsi_parameter_get(p.text, "SendTargets") = NULL
        /\ Answer(p, <<>>)
  /\ UNCHANGED <<connection, parameter, entry, target, executed>>

Normal == ~session.is_discovery

iscsi_request_nop_out_process(p) ==
  Normal /\ Arrives(p, "NOP_OUT") /\ RespondOnce(p, "NOP_IN")

\* Anything but Logout and Text in a discovery session, a second Login, and
\* every opcode without a handler.
iscsi_request_reject(p) ==
  /\ FullFeature /\ valid_command_numbering(p)
  /\ p.opcode \notin {"LOGOUT", "TEXT"}
  /\ \/ session.is_discovery
     \/ p.opcode \notin {"NOP_OUT", "SCSI_DATA_OUT", "SCSI_CMD"}
  /\ RespondOnce(p, "REJECT")

-------------------------------------------------------------------------------
(***************************************************************************)
(* The target.                                                             *)
(***************************************************************************)
\* The transfer direction in the ioctl is SG_DXFER_FROM_DEV for every command, a
\* write too.  What the kernel moves then is not modelled: a write is taken to work
\* on what the buffer holds, which is the data it was given.
\*
\* What the SG_IO ioctl may do with a command (code of the kernel): fail, or
\* execute it; a read leaves its data in the buffer, "available" bytes of it.
\* resid is MemorySize - available, and stays zero after a failure.
DeviceOutcomes(cdb) ==
  {[ok |-> FALSE, available |-> MemorySize]} \cup
  IF cdb.kind = "read"
    THEN {[ok |-> TRUE, available |-> a] : a \in 0 .. cdb.length}
    ELSE {[ok |-> TRUE, available |-> MemorySize]}

\* The buffer the device works on, given the one it finds.
BufferAfter(cdb, outcome, buffer) ==
  IF outcome.ok /\ cdb.kind = "read"
    THEN [o \in Offsets |-> IF o < outcome.available THEN cdb.task ELSE buffer[o]]
    ELSE buffer

\* The tasks whose data a command finds in the bytes it covers.
DataOf(cdb, buffer) == {buffer[o] : o \in {x \in Offsets : x < cdb.length}}

\* iscsi_target_execute_scsi_command, on a buffer prepared by the caller.
iscsi_target_execute_scsi_command(cdb, outcome, buffer) ==
  /\ target' = [target EXCEPT !.buffer = BufferAfter(cdb, outcome, buffer),
                              !.scsi_response = IF outcome.ok THEN 0 ELSE 1]
  /\ executed' = Append(executed, [cdb |-> cdb, data |-> DataOf(cdb, buffer)])

\* iscsi_request_cmd_send_response
CommandResponse(c, task, outcome) ==
  <<[opcode |-> "SCSI_CMD_RES", task |-> task, stamp |-> Stamp(c, 0),
     response |-> IF outcome.ok THEN 0 ELSE 1]>>

-------------------------------------------------------------------------------
(***************************************************************************)
(* SCSI command.                                                           *)
(***************************************************************************)
\* Mutant: a command takes the tag of the one before.
TagNotAdvanced == session.transfer_tag

\* The connection and the session after the counters were advanced.
Advanced == [connection EXCEPT !.expected_cmd_sn = @ + 1]
Tag == session.transfer_tag + 1

\* Mutant: commands are taken in a discovery session too.
CommandArrivesAnywhere(p) == Arrives(p, "SCSI_CMD")

CommandArrives(p) == Normal /\ Arrives(p, "SCSI_CMD")

Cdb(p) == [task |-> p.task, kind |-> p.kind, length |-> p.edtl]

NeedsR2T(p) == p.kind = "write" /\ p.dsl < p.edtl

MaxRecv == parameter["MaxRecvDataSegmentLength"]

\* Bytes the initiator sends without being asked.
Unsolicited(p) ==
  IF parameter["InitialR2T"] THEN p.dsl
  ELSE min(parameter["FirstBurstLength"], p.edtl)

iscsi_request_r2t_send(c, i, task, tag, r2t_sn, offset, length) ==
  [opcode |-> "R2T", task |-> task, tag |-> tag, r2t_sn |-> r2t_sn,
   offset |-> offset, length |-> length, stamp |-> Stamp(c, i)]

\* Mutant: the bytes already sent are asked for again.
R2TsFromZero(p) ==
  [i \in 1 .. min(parameter["MaxOutstandingR2T"],
                  divide_round_up(p.edtl - Unsolicited(p), MaxRecv)) |->
     LET offset == (i - 1) * MaxRecv
     IN iscsi_request_r2t_send(Advanced, i - 1, p.task, Tag, i - 1, offset,
                               min(MaxRecv, p.edtl - offset))]

\* The R2Ts of the loop in iscsi_request_cmd_process.
R2Ts(p) ==
  [i \in 1 .. min(parameter["MaxOutstandingR2T"],
                  divide_round_up(p.edtl - Unsolicited(p), MaxRecv)) |->
     LET offset == Unsolicited(p) + (i - 1) * MaxRecv
     IN iscsi_request_r2t_send(Advanced, i - 1, p.task, Tag, i - 1, offset,
                               min(MaxRecv, p.edtl - offset))]

\* Mutant: the entry keeps the tag of the command before.
CreatedEntryKeepsTag(p) ==
  [entry EXCEPT !.cdb = Cdb(p), !.total_length = p.edtl]

\* iscsi_transfer_entry_create: the other fields keep their values.
iscsi_transfer_entry_create(p) ==
  [entry EXCEPT !.cdb = Cdb(p), !.total_length = p.edtl, !.transfer_tag = Tag]

\* A write with data to come: the single transfer entry is taken, R2Ts are sent.
CommandNeedsData(p) ==
  /\ CommandArrives(p)
  /\ NeedsR2T(p)
  /\ MaxRecv # 0
  /\ entry' = iscsi_transfer_entry_create(p)
  /\ session' = [Numbered(p) EXCEPT !.transfer_tag = Tag]
  /\ connection' = Advance(Advanced, Len(R2Ts(p)))
  /\ Answer(p, R2Ts(p))
  /\ UNCHANGED <<parameter, target, executed>>

\* Mutant: the residual count of the device is ignored.
DataInLengthExpected(p, outcome) == p.edtl

\* What iscsi_request_data_in_send sends of the target's buffer.
DataInLength(p, outcome) ==
  min(p.edtl, outcome.available)

\* Mutant: every Data-In carries the StatSN of the first.
DataInsShareStatSN(p, length, buffer) ==
  [i \in 1 .. max(1, divide_round_up(length, MaxRecv)) |->
     LET offset == (i - 1) * MaxRecv
         data_length == min(length - offset, MaxRecv)
     IN [opcode |-> "SCSI_DATA_IN", task |-> p.task, data_sn |-> i - 1,
         offset |-> offset, length |-> data_length,
         final |-> offset + data_length = length,
         data |-> {buffer[o] : o \in offset .. offset + data_length - 1},
         stamp |-> Stamp(Advanced, 0)]]

DataIns(p, length, buffer) ==
  [i \in 1 .. max(1, divide_round_up(length, MaxRecv)) |->
     LET offset == (i - 1) * MaxRecv
         data_length == min(length - offset, MaxRecv)
     IN [opcode |-> "SCSI_DATA_IN", task |-> p.task, data_sn |-> i - 1,
         offset |-> offset, length |-> data_length,
         final |-> offset + data_length = length,
         data |-> {buffer[o] : o \in offset .. offset + data_length - 1},
         stamp |-> Stamp(Advanced, i - 1)]]

\* A read: executed at once, the data sent from the target's buffer.
CommandReads(p) ==
  /\ CommandArrives(p)
  /\ p.kind = "read"
  /\ MaxRecv # 0
  /\ \E outcome \in DeviceOutcomes(Cdb(p)) :
       LET buffer == BufferAfter(Cdb(p), outcome, target.buffer)
           rs == DataIns(p, DataInLength(p, outcome), buffer)
       IN /\ iscsi_target_execute_scsi_command(Cdb(p), outcome, target.buffer)
          /\ connection' = Advance(Advanced, Len(rs))
          /\ Answer(p, rs)
  /\ session' = [Numbered(p) EXCEPT !.transfer_tag = Tag]
  /\ UNCHANGED <<parameter, entry>>

\* No data, or all of it immediate: executed at once, on whatever the target's
\* buffer holds.
CommandWithoutR2T(p) ==
  /\ CommandArrives(p)
  /\ p.kind # "read"
  /\ ~NeedsR2T(p)
  /\ \E outcome \in DeviceOutcomes(Cdb(p)) :
       /\ iscsi_target_execute_scsi_command(Cdb(p), outcome, target.buffer)
       /\ Answer(p, CommandResponse(Advanced, p.task, outcome))
  /\ connection' = Advance(Advanced, 1)
  /\ session' = [Numbered(p) EXCEPT !.transfer_tag = Tag]
  /\ UNCHANGED <<parameter, entry>>

\* divide_round_up by a MaxRecvDataSegmentLength of zero; a read has already
\* been executed.
CommandExits(p) ==
  /\ CommandArrives(p)
  /\ MaxRecv = 0
  /\ Finish(p, "EXIT", <<>>)
  /\ process' = "exited"
  /\ \/ NeedsR2T(p) /\ UNCHANGED <<target, executed>>
     \/ /\ p.kind = "read"
        /\ \E outcome \in DeviceOutcomes(Cdb(p)) :
             iscsi_target_execute_scsi_command(Cdb(p), outcome, target.buffer)
  /\ UNCHANGED <<connection, parameter, session, entry>>

iscsi_request_cmd_process(p) ==
  \/ CommandNeedsData(p) \/ CommandReads(p) \/ CommandWithoutR2T(p)
  \/ CommandExits(p)

-------------------------------------------------------------------------------
(***************************************************************************)
(* Data-Out.                                                               *)
(***************************************************************************)
DEFAULT_TARGET_TRANSFER_TAG == -1

\* The tag names the transfer entry.
HasTransferEntry(p) ==
  /\ Normal /\ Arrives(p, "SCSI_DATA_OUT")
  /\ p.tag # DEFAULT_TARGET_TRANSFER_TAG
  /\ p.tag = entry.transfer_tag

\* "no transfer entry": unsolicited data, or the data of another command.
DataOutDropped(p) ==
  /\ Normal /\ Arrives(p, "SCSI_DATA_OUT")
  /\ ~HasTransferEntry(p)
  /\ session' = Numbered(p)
  /\ Answer(p, <<>>)
  /\ UNCHANGED <<connection, parameter, entry, target, executed>>

\* Mutant: what lies behind the segment is dropped.
StoredTruncates(p) ==
  [o \in 0 .. p.offset + p.dsl - 1 |-> IF o < p.offset THEN entry.data[o] ELSE p.task]

Stored(p) ==
  [o \in Offsets |-> IF o \in p.offset .. p.offset + p.dsl - 1
                      THEN p.task ELSE entry.data[o]]

\* Mutant: the final bit of a sequence is taken for the end of the transfer.
LastDataOutIsFinal(p) == p.final

LastDataOut(p) == p.offset + p.dsl = entry.total_length

\* iscsi_session_execute_transfer_entry: the data goes to the target's buffer.
BufferFromEntry(data) ==
  [o \in Offsets |-> IF o < entry.total_length THEN data[o] ELSE target.buffer[o]]

\* The data ends where the transfer ends: the command is executed.  The entry
\* is not removed.
DataOutExecutes(p) ==
  /\ HasTransferEntry(p)
  /\ LastDataOut(p)
  /\ entry' = [entry EXCEPT !.data = Stored(p)]
  /\ \E outcome \in DeviceOutcomes(entry.cdb) :
       /\ iscsi_target_execute_scsi_command(entry.cdb, outcome,
                                            BufferFromEntry(Stored(p)))
       /\ Answer(p, CommandResponse(connection, p.task, outcome))
  /\ connection' = Advance(connection, 1)
  /\ session' = Numbered(p)
  /\ UNCHANGED parameter

MoreR2T == entry.r2t_sn < entry.total_r2t_sn

\* Any other Data-Out is stored; the last one of a sequence asks for the next
\* sequence when there are R2Ts left to send.
DataOutStored(p) ==
  LET more == p.final /\ MoreR2T
      offset == entry.offset * entry.r2t_sn
      r2t == iscsi_request_r2t_send(connection, 0, p.task, p.tag, entry.r2t_sn,
               offset, min(MaxRecv, entry.total_length - offset))
  IN
  /\ HasTransferEntry(p)
  /\ ~LastDataOut(p)
  /\ entry' = [entry EXCEPT !.data = Stored(p),
                            !.r2t_sn = IF more THEN @ + 1 ELSE @]
  /\ connection' = Advance(connection, IF more THEN 1 ELSE 0)
  /\ Answer(p, IF more THEN <<r2t>> ELSE <<>>)
  /\ session' = Numbered(p)
  /\ UNCHANGED <<parameter, target, executed>>

iscsi_request_data_out_process(p) ==
  DataOutDropped(p) \/ DataOutExecutes(p) \/ DataOutStored(p)

-------------------------------------------------------------------------------
FullFeaturePhase(p) ==
  \/ iscsi_request_logout_process(p) \/ iscsi_request_text_process(p)
  \/ iscsi_request_nop_out_process(p) \/ iscsi_request_reject(p)
  \/ iscsi_request_cmd_process(p) \/ iscsi_request_data_out_process(p)

iscsi_server_process(p) ==
  /\ process = "running"
  /\ Ignore(p) \/ LoginPhase(p) \/ FullFeaturePhase(p)

\* start_connection returns when both threads have ended, and the process accepts
\* and forks on: a child of its own, with a copy of its globals, serves the next
\* connection.  The transmit thread ends by a send() that fails, for which there
\* must have been a response.
NextConnection ==
  /\ process # "exited"
  /\ served.answered
  /\ served.connections < MaxConnections
  /\ connection' = iscsi_connection_create
  /\ parameter' = set_default_parameter
  /\ executed' = <<>>
  /\ served' = [connections |-> served.connections + 1,
                stat_sns |-> served.stat_sns + connection.stat_sn,
                answered |-> FALSE]
  /\ process' = "running"
  /\ responses' = <<>>
  /\ last' = [opcode |-> "NONE", status |-> "NONE", transit |-> FALSE]
  /\ UNCHANGED <<session, entry, target>>

RequestArrives(p) ==
  /\ served.stat_sns + connection.stat_sn < MaxStatSN
  /\ iscsi_server_process(p)

Next == (\E p \in Requests : RequestArrives(p)) \/ NextConnection

Spec == Init /\ [][Next]_vars

-------------------------------------------------------------------------------
(***************************************************************************)
(* Properties.                                                             *)
(***************************************************************************)
FirstConnection == served.connections = 1

\* Every variable stays in its type; the device is opened at most once for a
\* connection, and the transfer entry never counts an R2T.
TypeOK ==
  /\ connection.session_reference \in BOOLEAN
  /\ connection.stat_sn \in Nat /\ connection.expected_cmd_sn \in Nat
  /\ DOMAIN parameter = Keys
  /\ session.max_connections \in {0, 4} /\ session.num_connections = 0
  /\ session.transfer_tag \in Nat
  /\ session.is_full_feature_phase \in BOOLEAN /\ session.is_discovery \in BOOLEAN
  /\ DOMAIN entry.data = Offsets /\ DOMAIN target.buffer = Offsets
  /\ entry.total_length \in 0 .. MemorySize
  /\ entry.r2t_sn = 0 /\ entry.total_r2t_sn = 0
  /\ target.opens \in 0 .. served.connections /\ target.scsi_response \in {0, 1}
  /\ process \in {"running", "terminated", "exited"}

\* A connection never gets hold of a session that was not created: whatever
\* logins came, failed or were continued, on this connection or on earlier ones
\* of the process, an attached session was initialised and its device opened.
AttachedSessionIsOpen ==
  connection.session_reference \/ session.is_full_feature_phase =>
    target.opens > 0 /\ session.max_connections = 4

\* No command of a connection reaches the device before a session in full feature
\* phase is attached to it, nor ever in a discovery session, whether as a SCSI
\* command or through a Data-Out.
ExecutesOnlyInNormalSession ==
  executed # <<>> => FullFeature /\ ~session.is_discovery

\* Two counters in two structures, advanced in two files and reset at login,
\* agree on the first connection of a process: each command has a transfer tag of
\* its own, and the transfer entry never carries a tag that is not yet given.
TagsFollowCommands ==
  FirstConnection =>
    /\ session.transfer_tag = connection.expected_cmd_sn
    /\ entry.transfer_tag <= session.transfer_tag

GrantsFullFeature(r) ==
  r.opcode = "LOGIN_RES" /\ r.status = "SUCCESS" /\ r.transit /\ r.nsg = 3

TellsFullFeature == \E i \in DOMAIN responses : GrantsFullFeature(responses[i])

\* On the first connection of a process the target enters full feature phase in
\* exactly the steps in which it tells so to an initiator that asked for the next
\* stage (Transit).
LoginAgreement ==
  [][FirstConnection =>
       ((~FullFeature /\ FullFeature') <=> (last'.transit /\ TellsFullFeature'))]_vars

\* iscsi_server.c: "not login".  An initiator whose Login was answered with
\* SUCCESS, Transit and full feature phase as the next stage is not treated as one
\* that has not logged in.
GrantedIsLoggedIn == TellsFullFeature => ~BeforeFullFeature

\* iscsi_server.c: "has login".  Requests of full feature phase are served on a
\* connection only after a Login response of that connection has granted it.
FullFeatureIsGranted == [][~FullFeature /\ FullFeature' => TellsFullFeature']_vars

\* The operational values announced in a Login response, written as text from the
\* parameters and then parsed back into them, are the values in force: for the
\* initiator that reads the text and for the target.
AnnouncedInForce ==
  \A i \in DOMAIN responses :
    responses[i].opcode = "LOGIN_RES" =>
      \A j \in DOMAIN responses[i].text :
        LET key == responses[i].text[j][1]
        IN key \in Keys => Means(key, responses[i].text[j][2], parameter[key])

\* The stamped responses of rs take the StatSNs from first up to next.
Dense(first, rs, next) ==
  LET stamped == {i \in DOMAIN rs : rs[i].stamp # NoStamp}
  IN /\ \A i \in stamped :
          rs[i].stamp.stat_sn = first + Cardinality({j \in stamped : j < i})
     /\ next = first + Cardinality(stamped)

\* StatSNs are dense: the stamped responses of a step, however many a handler
\* builds, take the next numbers one each and in order, and no number is skipped.
StatSNsDense ==
  [][served'.connections = served.connections =>
       Dense(connection.stat_sn, responses', connection'.stat_sn)]_vars

\* The Data-Ins of a read tile its data from offset 0, none longer than the
\* initiator's MaxRecvDataSegmentLength, only the last one final; and unless
\* the device failed they carry data of that read alone, nothing an earlier
\* command left in the target's buffer.
DataInsTileTheRead ==
  \A i \in DOMAIN responses :
    LET r == responses[i]
    IN r.opcode = "SCSI_DATA_IN" =>
         /\ r.length <= MaxRecv
         /\ r.offset = IF i = 1 THEN 0
                       ELSE responses[i - 1].offset + responses[i - 1].length
         /\ r.final <=> i = Len(responses)
         /\ target.scsi_response = 0 => r.data \subseteq {r.task}

\* iscsi_server.c: "NO cmdSN".  A PDU without a CmdSN is not checked against the
\* command numbering, so no Data-Out is ever ignored.
UnnumberedNeverIgnored ==
  FullFeature /\ last.status = "PDU_IGNORE" => last.opcode # "SCSI_DATA_OUT"

===============================================================================
