--------------------------- MODULE MCScsiTransfers ----------------------------
(***************************************************************************)
(* Small instances of ScsiTransfers: writes and reads of up to three       *)
(* bytes, with a MaxRecvDataSegmentLength of one or more bytes, so that    *)
(* R2Ts, Data-Outs and Data-Ins come in several pieces.                    *)
(***************************************************************************)
EXTENDS ScsiTransfers

CONSTANTS w1, w2, r1   \* task tags

NoRequests == {}

Command(kind, edtl, dsl) == [kind |-> kind, edtl |-> edtl, dsl |-> dsl]

\* A workload that has no command for a task never sends it.
Workload(first, second, read) ==
  [t \in {w1, w2, r1} |->
     CASE t = w1 -> first [] t = w2 -> second [] t = r1 -> read]

NoCommandFor == Command("none", 0, 0)

Plan(workload, queueDepth, writeDepth, maxRecv, maxR2T, dataOutLength) ==
  [workload |-> workload, queueDepth |-> queueDepth, writeDepth |-> writeDepth,
   maxRecv |-> maxRecv, maxR2T |-> maxR2T, dataOutLength |-> dataOutLength]

\* Two writes of different lengths and a read, no immediate data.
TwoWritesAndRead ==
  Workload(Command("write", 3, 0), Command("write", 1, 0), Command("read", 3, 0))

\* A write that sends its first byte with the command, and a read.
WriteWithImmediateData ==
  Workload(Command("write", 3, 1), NoCommandFor, Command("read", 2, 0))

OneWrite == Workload(Command("write", 3, 0), NoCommandFor, NoCommandFor)

\* All overlap, with one or two R2Ts for a write; the first bytes of a write come
\* with it; one command at a time, in one piece.
AllPlans ==
  {Plan(TwoWritesAndRead, 3, 2, maxRecv, 10, 1) : maxRecv \in {1, 2}} \cup
  {Plan(WriteWithImmediateData, 2, 1, maxRecv, 10, 1) : maxRecv \in {1, 2}} \cup
  {Plan(TwoWritesAndRead, 3, 2, 3, 1, 2),
   Plan(TwoWritesAndRead, 1, 1, 3, 1, 3),
   Plan(WriteWithImmediateData, 1, 1, 3, 1, 3)}

ImmediateData == {Plan(WriteWithImmediateData, 1, 1, 3, 1, 3)}
OneOfThreeR2Ts == {Plan(OneWrite, 1, 1, 1, 1, 3)}

===============================================================================
