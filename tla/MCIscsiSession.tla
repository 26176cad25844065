---------------------------- MODULE MCIscsiSession ----------------------------
(***************************************************************************)
(* IscsiSession under every sequence of PDUs from a small set, legal for   *)
(* an initiator or not: all stages and bits of Login, the requests of full *)
(* feature phase, two tasks, transfers of up to two bytes.                 *)
(***************************************************************************)
EXTENDS IscsiSession

CONSTANTS a, b   \* task tags

Initiator == <<<<"InitiatorName", "initiator">>>>
Discovery == <<<<"SessionType", "Discovery">>>>
Target == <<<<"SessionType", "Normal">>, <<"TargetName", "disk">>>>

\* Incomplete texts; texts that declare parameters, or zero, or one key twice.
Texts ==
  {<<>>, Initiator, Initiator \o <<<<"SessionType", "Normal">>>>,
   Initiator \o Discovery,
   Initiator \o Target \o <<<<"MaxRecvDataSegmentLength", <<1>>>>,
                            <<"MaxBurstLength", <<4, 0, 9, 6>>>>,
                            <<"InitialR2T", "No">>,
                            <<"DefaultTime2Wait", <<2, 0>>>>>>,
   Initiator \o Target \o <<<<"MaxRecvDataSegmentLength", <<0>>>>>>,
   <<<<"MaxRecvDataSegmentLength", <<2>>>>, <<"MaxOutstandingR2T", <<1, 0>>>>,
     <<"MaxOutstandingR2T", <<1>>>>>>}

LoginPDU(continue, transit, csg, nsg, tsih, text) ==
  [opcode |-> "LOGIN", continue |-> continue, transit |-> transit, csg |-> csg,
   nsg |-> nsg, tsih |-> tsih, ExpCmdSN |-> 0, text |-> text]

\* Every text in both stages, with the bits an initiator may set and with a next
\* stage but no Transit; all stages and bits with one text; a TSIH; the
\* Continue bit.
Logins ==
  {LoginPDU(FALSE, step[1], csg, step[2], 0, text) :
     step \in {<<FALSE, 0>>, <<FALSE, 3>>, <<TRUE, 1>>, <<TRUE, 3>>},
     csg \in {0, 1}, text \in Texts} \cup
  {LoginPDU(FALSE, transit, csg, nsg, 0, Initiator \o Target) :
     transit \in BOOLEAN, csg \in 0 .. 3, nsg \in 0 .. 3} \cup
  {LoginPDU(FALSE, transit, csg, 3, 1, Initiator \o Target) :
     transit \in BOOLEAN, csg \in {0, 1}} \cup
  {LoginPDU(TRUE, transit, 1, nsg, 0, Initiator) :
     transit \in BOOLEAN, nsg \in {0, 3}}

Command(task, kind, edtl, dsl) ==
  [opcode |-> "SCSI_CMD", task |-> task, kind |-> kind, edtl |-> edtl, dsl |-> dsl]

Commands ==
  {Command(a, "write", 2, 0), Command(a, "write", 2, 1), Command(b, "write", 2, 2),
   Command(b, "read", 2, 0), Command(a, "none", 0, 0)}

DataOut(task, tag, offset, dsl, final) ==
  [opcode |-> "SCSI_DATA_OUT", task |-> task, tag |-> tag, offset |-> offset,
   dsl |-> dsl, final |-> final, cmdSN |-> 0]

DataOuts ==
  {DataOut(a, tag, 1, 1, TRUE) : tag \in {DEFAULT_TARGET_TRANSFER_TAG, 1, 2}} \cup
  {DataOut(a, 1, 0, 1, final) : final \in BOOLEAN}

\* Task management and SNACK have no handler; the first has a CmdSN.
Others ==
  {[opcode |-> opcode] : opcode \in {"LOGOUT", "NOP_OUT"}} \cup
  {[opcode |-> "TEXT", continue |-> c, text |-> t] :
     c \in BOOLEAN, t \in {<<>>, <<<<"SendTargets", "All">>>>}} \cup
  {[opcode |-> "SCSI_TASK_MANAGE", cmdSN |-> 5], [opcode |-> "SNACK", cmdSN |-> 0]}

MCRequests == Logins \cup Commands \cup DataOuts \cup Others

===============================================================================
