---------------------------- MODULE ScsiTransfers -----------------------------
(***************************************************************************)
(* IscsiSession together with an initiator that keeps to the protocol: it  *)
(* logs in, sends commands inside the window the target grants, answers    *)
(* each R2T with Data-Outs in order, and reads what the target sends.  The *)
(* two directions of the TCP connection are FIFO; the direction to the     *)
(* initiator is the abstract stream that ResponseStream implements.        *)
(*                                                                         *)
(* The initiator is not part of the program: it is what the target's       *)
(* handlers are written against.  A plan says what it will do.             *)
(***************************************************************************)
EXTENDS IscsiSession

CONSTANTS
  Tasks,   \* the commands of the initiator
  Plans    \* what the initiator may set out to do:
           \*   workload: task -> its kind, edtl, and length of its immediate data
           \*   queueDepth, writeDepth: commands, and writes among them, that it
           \*     keeps outstanding at a time
           \*   maxRecv, maxR2T: the limits its login declares
           \*   dataOutLength: longest data segment of a Data-Out

ASSUME PlansAssumption ==
  \A p \in Plans :
    /\ p.workload \in [Tasks -> [kind : {"read", "write", "none"},
                                edtl : 0 .. MemorySize, dsl : 0 .. MemorySize]]
    /\ {p.queueDepth, p.writeDepth, p.maxRecv, p.maxR2T, p.dataOutLength}
         \subseteq Nat \ {0}

VARIABLES
  plan,        \* the plan of this behaviour
  initiator,   \* CmdSN to use next, MaxCmdSN granted, commands sent and answered,
               \* R2Ts to serve, bytes served of the first, ranges asked for
  toTarget,    \* PDUs on their way to the target
  received,    \* whole PDUs in the target's receive buffer
  toInitiator  \* PDUs on their way to the initiator

initiatorVars == <<plan, initiator, toTarget, received, toInitiator>>
allVars == <<vars, initiatorVars>>

\* The login of an initiator that declares these two limits.
Login(maxRecv, maxR2T) ==
  [opcode |-> "LOGIN", continue |-> FALSE, transit |-> TRUE, csg |-> 1, nsg |-> 3,
   tsih |-> 0, ExpCmdSN |-> 0,
   text |-> <<<<"InitiatorName", "initiator">>, <<"SessionType", "Normal">>,
              <<"TargetName", "disk">>, <<"MaxRecvDataSegmentLength", int_to_string(maxRecv)>>,
              <<"MaxOutstandingR2T", int_to_string(maxR2T)>>>>]

\* The Login request is under way; no command is granted yet.
TransferInit ==
  /\ Init
  /\ plan \in Plans
  /\ initiator = [cmdSN |-> 0, maxCmdSN |-> -1, sent |-> {},
                  answers |-> [t \in Tasks |-> 0], r2ts |-> <<>>, served |-> 0,
                  asked |-> [t \in Tasks |-> {}]]
  /\ toTarget = <<Login(plan.maxRecv, plan.maxR2T)>>
  /\ received = <<>> /\ toInitiator = <<>>

Write(t) == plan.workload[t].kind = "write"
Outstanding == {t \in initiator.sent : initiator.answers[t] = 0}

\* The command of task t.
ScsiCommand(t) ==
  [opcode |-> "SCSI_CMD", task |-> t, kind |-> plan.workload[t].kind,
   edtl |-> plan.workload[t].edtl, dsl |-> plan.workload[t].dsl]

\* A new command, inside the window.
SendCommand(t) ==
  /\ t \notin initiator.sent
  /\ plan.workload[t].kind # "none"
  /\ initiator.cmdSN <= initiator.maxCmdSN
  /\ Cardinality(Outstanding) < plan.queueDepth
  /\ Write(t) => Cardinality({u \in Outstanding : Write(u)}) < plan.writeDepth
  /\ toTarget' = Append(toTarget, ScsiCommand(t))
  /\ initiator' = [initiator EXCEPT !.cmdSN = @ + 1, !.sent = @ \cup {t}]
  /\ UNCHANGED <<vars, plan, received, toInitiator>>

\* The next Data-Out of the R2T being served; the last one is final.
SendDataOut ==
  /\ initiator.r2ts # <<>>
  /\ LET r2t == Head(initiator.r2ts)
         dsl == min(plan.dataOutLength, r2t.length - initiator.served)
         final == initiator.served + dsl = r2t.length
     IN /\ toTarget' = Append(toTarget,
             [opcode |-> "SCSI_DATA_OUT", task |-> r2t.task, tag |-> r2t.tag,
              offset |-> r2t.offset + initiator.served, dsl |-> dsl,
              final |-> final, cmdSN |-> 0])
        /\ initiator' = [initiator EXCEPT
             !.r2ts = IF final THEN Tail(@) ELSE @,
             !.served = IF final THEN 0 ELSE @ + dsl]
  /\ UNCHANGED <<vars, plan, received, toInitiator>>

\* A response arrives: the window it grants, and what it asks or answers.
Granted(r) == max(initiator.maxCmdSN, r.stamp.max_cmd_sn)

Completes(r) ==
  r.opcode = "SCSI_CMD_RES" \/ (r.opcode = "SCSI_DATA_IN" /\ r.final)

Receive ==
  /\ toInitiator # <<>>
  /\ LET r == Head(toInitiator)
     IN initiator' =
          CASE r.opcode = "R2T" ->
                 [initiator EXCEPT
                    !.maxCmdSN = Granted(r), !.r2ts = Append(@, r),
                    !.asked[r.task] = @ \cup {<<r.offset, r.length>>}]
            [] Completes(r) ->
                 [initiator EXCEPT
                    !.maxCmdSN = Granted(r), !.answers[r.task] = @ + 1]
            [] OTHER -> [initiator EXCEPT !.maxCmdSN = Granted(r)]
  /\ toInitiator' = Tail(toInitiator)
  /\ UNCHANGED <<vars, plan, toTarget, received>>

\* recv() returns bytes, which complete n PDUs; after each recv(), the first PDU
\* in the receive buffer is processed, and no more than that one.
TargetReceives(n) ==
  /\ toTarget # <<>>
  /\ LET pdus == received \o SubSeq(toTarget, 1, n)
     IN /\ pdus # <<>>
        /\ iscsi_server_process(Head(pdus))
        /\ received' = Tail(pdus)
  /\ toTarget' = SubSeq(toTarget, n + 1, Len(toTarget))
  /\ toInitiator' = toInitiator \o responses'
  /\ UNCHANGED <<plan, initiator>>

Target == \E n \in 0 .. Len(toTarget) : TargetReceives(n)

TransferNext ==
  \/ \E t \in Tasks : SendCommand(t)
  \/ SendDataOut \/ Receive \/ Target

TransferSpec == TransferInit /\ [][TransferNext]_allVars

(***************************************************************************)
(* recv() returns when bytes have arrived, and the transmit thread drains  *)
(* the response buffer (StreamDrains).  A PDU that waits in the receive    *)
(* buffer behind another is not taken before more bytes come.  An          *)
(* initiator with an open window sends what it has.                        *)
(***************************************************************************)
FairTransferSpec ==
  /\ TransferSpec
  /\ WF_allVars(Target) /\ WF_allVars(Receive) /\ WF_allVars(SendDataOut)
  /\ \A t \in Tasks : WF_allVars(SendCommand(t))

-------------------------------------------------------------------------------
Executions(t) == {i \in DOMAIN executed : executed[i].cdb.task = t}

\* data_out.c: "we only execute the command after receiving all of its data".
\* The device finds all the data of a write, and nobody else's.
WritesExecuteComplete ==
  \A i \in DOMAIN executed :
    executed[i].cdb.kind = "write" => executed[i].data \subseteq {executed[i].cdb.task}

\* The promise to the initiator: the device finds the data of the writes that have
\* some and send all of it when asked.
Service == INSTANCE CommandService
  WITH Tasks <- Tasks,
       writes <- {t \in Tasks : /\ Write(t)
                                /\ plan.workload[t].dsl = 0 /\ plan.workload[t].edtl > 0},
       issued <- initiator.sent,
       device <- [t \in Tasks |-> Cardinality(Executions(t))],
       found <- [t \in Tasks |-> UNION {executed[i].data : i \in Executions(t)}],
       answers <- initiator.answers

\* With commands, R2Ts, Data-Outs and answers of several commands under way, and a
\* second write taking the transfer entry while Data-Outs of the first arrive, a
\* command reaches the device at most once, a write with all of its data and
\* nobody else's, and is answered at most once and not before.
ImplementsCommandService == Service!Spec

Bytes(range) == range[1] .. range[1] + range[2] - 1

\* The R2Ts of a write ask for bytes that it has and has not sent with the
\* command, and for none of them twice.
R2TsAskForMissingBytes ==
  \A t \in Tasks :
    /\ \A r \in initiator.asked[t] :
         Bytes(r) \subseteq plan.workload[t].dsl .. plan.workload[t].edtl - 1
    /\ \A r, s \in initiator.asked[t] : r # s => Bytes(r) \cap Bytes(s) = {}

\* Every command sent is answered.
EveryCommandAnswered ==
  \A t \in Tasks : (t \in initiator.sent) ~> (initiator.answers[t] = 1)

\* One command at a time, and one Data-Out for each write: no PDU is ever behind
\* another, and one R2T asks for all of the data.
InLockstep ==
  /\ plan.queueDepth = 1
  /\ \A t \in Tasks :
       Write(t) => plan.workload[t].edtl - plan.workload[t].dsl
                     <= min(plan.dataOutLength, plan.maxRecv)

NoDevice == process = "exited" /\ target.opens = 0

\* Where there is a device, an initiator in lockstep gets every command sent and
\* answered: the login grants a window that opens again after each command, and the
\* tag of each R2T is one the target knows when the Data-Out arrives.
AnsweredInLockstep ==
  \A t \in Tasks :
    (InLockstep /\ plan.workload[t].kind # "none")
      ~> (initiator.answers[t] = 1 \/ NoDevice)

===============================================================================
