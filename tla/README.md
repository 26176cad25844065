# A verification model of the iscsi target

The repository is a small iSCSI target in C: a server that accepts TCP
connections, forks a process for each, and lets the initiator use one SCSI disk
through the `SG_IO` ioctl. This directory holds TLA+ modules of its core, the TLC
configurations that check them, and TLAPS proofs about the response path, the receive
path, the sessions, the transfer of data, the processes, the parameters, PDU sizes and the scanners of texts.

## Inventory of the system

| component | state | operations | interacts with |
|---|---|---|---|
| server process (`main.c: main`, `start_connection`) | listening socket; in every process: descriptors, global session, two threads | accept, fork, serve, come back to accept | peers, and the memory a child inherits |
| receive path (`main.c: start_receiver`, `iscsi_connection.c`) | `receive_buffer`, used by one thread | `recv`, `incoming_request`, flush | calls the dispatcher once per `recv` at most |
| dispatcher (`iscsi_server.c`) | `ExpCmdSN`, `command_numbering_start` of the session | `valid_command_numbering`, `iscsi_server_process` | calls the handlers |
| login (`request/login.c`) | `session_reference`, `is_full_feature_phase`, `is_discovery` | partial and final login, set-up, refusal | creates the session, opens the target, fills the parameters |
| parameters (`iscsi_connection_parameter.c`) | eleven negotiated values and a text buffer | scan a text, defaults, update, generate, get | read by login, text, command, Data-In, Data-Out, NOP |
| SCSI command, Data-Out, R2T, Data-In (`request/*.c`) | `expected_cmd_sn`, `transfer_tag`, the transfer entry | execute, ask for data, store data, send data | session, target, response buffer |
| text, logout, NOP, reject (`request/*.c`) | none | one response each | response buffer |
| session, transfer entry (`iscsi_session.c`, `iscsi_transfer_entry.c`) | one global session with one transfer entry | create, next tag, look up, execute | target |
| target (`iscsi_target.c`) | device descriptor, 4 MB buffer, result of the last ioctl | open, execute | the kernel |
| response path (`iscsi_buffer.c`, `main.c: start_transmit`) | `response_buffer` with its semaphore, the socket | acquire for length, release, send, flush | the only state shared by two threads |
| PDU arithmetic (`iscsi_pdu.[ch]`, `iscsi_utility.c`) | none | length, padding, validity | everywhere |

What is hard here:

* **Concurrency.** The receive thread (all handlers) and the transmit thread share
  the response buffer and the descriptor. The transmit thread polls `length` and
  the first header without the lock, sends under it, releases it, asserts without
  it, and removes the PDU under it again. A failed `send` leaves the loop with the
  semaphore taken.
* **Framing.** A handler adds a number of bytes to the buffer, and separately
  writes a header; the transmit thread believes the header.
* **Sequences of requests.** Login of several PDUs, refused and repeated logins,
  several commands and R2Ts under way over a single transfer entry, counters in
  two structures.
* **Arrival of bytes.** `recv` cuts the stream anywhere; one PDU is processed per
  call; end of stream is not recognised; the buffer may fill up.
* **Processes that come back.** The child forked for a connection returns from
  `start_connection` into the loop of `main()` and accepts connections next to its parent, with the global
  session of the connection it served, and hands that memory on to its own children. Nobody closes
  the parent's descriptors; `accept` and `fork` may fail.
* **Scanning of texts** by loops over bytes with a handful of state variables.
* **Nothing persists**, so there is no crash recovery; no timers, so no timeouts.

What makes each component correct: the response path delivers the bytes of the
handlers once, in order, and in whole PDUs; the receive path processes the PDUs
sent, once and in order; a session attached to a connection has been created, and
full feature phase begins when an initiator that asked for it is told so; a command executes once,
with its data, in a normal session after login, and is answered; R2Ts and Data-Ins
partition the data; StatSNs are dense; announced parameters are those in force; a connection is
accepted once and served by one process, with a session of its own unless that process, or one it descends from, served before;
a scanner finds the value of its key and stays inside the text.
`PROJECT.json` lists the hazards with their source lines and the properties that
cover each.

## Modules

| module | models | remarks |
|---|---|---|
| `IscsiPdu` | size arithmetic, and for each kind of response the bytes appended and the length declared (`Layout`) | operators only |
| `PduStream` | abstract: what the response path promises | no code of its own |
| `ResponseStream` | response buffer, semaphore, both threads | one action per statement that touches shared state |
| `IscsiParameters` | negotiation of the parameters, generated text, numbers written and read | operators only |
| `KeyValueText` | the two loops that scan a text byte by byte | one action per turn of a loop |
| `IscsiSession` | dispatcher, all handlers, session, transfer entry, target | one action per outcome of a handler |
| `CommandService` | abstract: what the target promises about commands | no code of its own |
| `ScsiTransfers` | `IscsiSession` with an initiator and two FIFO channels; implements `CommandService` | the initiator is external |
| `ReceivePath` | receive loop and `incoming_request` | |
| `ServerProcess` | the loop of `main()` in every process, fork, the life of the threads | |
| `ResponseStreamProofs`, `ReceivePathProofs`, `IscsiSessionProofs`, `ScsiTransfersProofs`, `ServerProcessProofs`, `KeyValueTextProofs`, `IscsiPduProofs`, `IscsiParametersProofs` | theorems about the module of the same name | the last two hold the lemmas on operators that the others use |
| `MC...` | constants for TLC | |

### ResponseStream

A thread's program counter (`rx`, `tx`) names its next statement. `length`, `lock`
are `response_buffer.length` and the semaphore. The bytes are abstracted to offsets
in the stream of all response bytes: `base` is the offset of `data[0]` and `heads`
maps the start of each response to its layout. `seen` is the value of `length` the
transmit thread read without the lock; `pdu_length` its local `length`. Where `base`
is no start of a response (after a misframed one) or where no response has been
written yet, `iscsi_pdu_length` reads whatever the bytes say: `HeaderLengths` is
then the set `GarbageLengths`. The two reads of one poll (the length, then the
header in `data`) are separate steps; that `iscsi_pdu_length` is evaluated twice, once in
`iscsi_pdu_valid` and once for the local variable, is one step, because the bytes at
`data[0]` change only in the transmit thread's own flush, unless the buffer holds
less than a header, and then the first evaluation is not valid. A handler writes its bytes while it
holds the lock behind `data + length`; publishing them is the addition to `length`.
An `aborted` transmit thread stands for a failed assertion. `length` is not
initialised by `iscsi_buffer_new`; the connection is one block of more than 8 MB
allocated in a freshly forked process, for which malloc returns zero pages.
A `send` on the blocking socket is taken to write all of its bytes or to fail.

### IscsiSession

The handlers run one after another in the receive thread and touch nothing the
transmit thread touches but the response buffer, so a whole handler is one step and
the responses it builds are the sequence `responses`. Responses are stamped in the order they are
built. A data segment, a command block and memory contents are abstracted to the
task they belong to: `entry.data` and `target.buffer` map offsets to tasks. The
outcomes of the ioctl (`DeviceOutcomes`, `BufferAfter`) are external: failure, or
success with any number of bytes up to the requested length. Logins that end the
process (no device, no `SessionType`) and divisions by zero are `Exit` steps.
PDUs whose data would end behind the 4 MB buffers are not in the input sets.
A text is a sequence of key-value pairs, a number in it the sequence of its decimal digits (the digits are
decimal ones, the value below 2^31). Parameters are not read before a login sets them.

`served` and `NextConnection` model a process whose two threads have ended and that serves another connection
with the globals the first one left: a new `connection`, the old `session`, `entry` and `target`. The transmit
thread ends by a `send` that fails, so there must have been a response: `served.answered` is true after any
response of the connection, which is weaker than what has to happen, never stronger. The descriptors and the
processes themselves are in `ServerProcess`. Properties that the reuse breaks are stated for the first connection
(`FirstConnection`): tags and counters are then reset at different times.

### ScsiTransfers and CommandService

Adds an initiator that keeps to the protocol: it logs in, sends commands within
MaxCmdSN, serves R2Ts in the order they arrive with Data-Outs in order, and reads responses.
`plan`, chosen at the start among `Plans`, says what it will do: the command of each task
(`workload`), how many commands and writes it leaves outstanding (`queueDepth`, `writeDepth`), the limits its
login declares (`maxRecv`, `maxR2T`), and the size of a Data-Out (`dataOutLength`). The channel to the initiator
is the stream `ResponseStream` implements. On the way to the target, `toTarget` is the TCP connection and
`received` the whole PDUs in the receive buffer: `TargetReceives(n)` is a `recv` that completes n PDUs, after
which one PDU is processed, as in `ReceivePath`. Data-Outs carry no CmdSN; `cmdSN |-> 0` is what
the bytes in that place hold.

`CommandService` is the promise to the initiator: a command that was issued reaches the device at most once,
a write of `writes` with its own data and nobody else's, and is answered at most once, and not before. It is
implemented under a mapping that counts executions and answers; `writes` is mapped to the writes that have
data and send all of it when asked: those with immediate data break the promise (run `transfers_immediate`),
and a write of no bytes finds none.

### KeyValueText

The loop of `iscsi_connection_parameter_create` and then that of `iscsi_parameter_get`, one action per turn, over
symbols instead of bytes: the equal sign, the comma, the zero byte and letters. A value is the position at which it
starts. `Starts`, `KeyAt`, `ValueAt` and `Given` are the reference: what a *regular* text (`Regular`: strings ended by a zero byte, one
equal sign in each, keys without commas, none confused by its first bytes with a key of the program) means. For these texts the scanners
compute what `IscsiParameters` says of pairs; `TypeOK` and `KeyNotOverrun` hold for all texts.

### ReceivePath

`depth` is how many PDUs the peer sends before it waits for an answer, chosen once. `sizes` and `starts` describe the PDUs the peer has sent; `base` and `length` the
receive buffer, `processed` the offsets at which a PDU was taken. The buffer belongs to
one thread, so one turn of the loop is one step. What a PDU does is left to
`IscsiSession`: a handler answers, or returns SOCKET_TERMINATE.

### ServerProcess

`pc[p]` is where process p is in the loop of `main()`: in `accept`, at `fork`, or in `start_connection`
(`serve`), whose two threads are `receiver` and `transmitter`. `descriptors[p]` are the connections p has open; a fork copies
them, and `session[p]`, the connections that have logged in to its copy of the global session. `accept`
fails when the descriptor table is full, before it would wait, and the loop goes on with -1 (`NoConnection`).
`servers` and `returned` are history variables. A process ends by `exit(1)`, or by SIGPIPE where `recv` has already
reported the reset; SIGPIPE is modelled here only. `socket`, `bind`, `listen` and `pthread_create` are taken to succeed.

## Runs

| run | checks | shows |
|---|---|---|
| `response_stream` | `TypeOK`, `LockDiscipline`, `FlushAssertion`, `HandlerWritesInside`, `NothingLostOrRepeated`, `FramedUnlessMisdeclared` | every interleaving, with well framed and misframed responses, keeps the lock, the assertion, the bounds and the byte stream |
| `response_stream_framed` | `ImplementsPduStream`, `HandlerGetsRoom`, `StreamDrains` | with well framed responses the threads implement `PduStream`; waiting handlers get room; the stream drains |
| `session` | `TypeOK`, `AttachedSessionIsOpen`, `ExecutesOnlyInNormalSession`, `TagsFollowCommands`, `AnnouncedInForce`, `DataInsTileTheRead`, `LoginAgreement`, `StatSNsDense` | any sequence of PDUs, legal or not, on two connections of a process |
| `transfers` | `R2TsAskForMissingBytes`, `ImplementsCommandService`, `AnsweredInLockstep` | two overlapping writes and a read, immediate data, several R2Ts, PDUs that pile up, and one command at a time |
| `receive` | `TypeOK`, `ProcessedAsSent`, `StuckOnlyBehindWholePdu`, `EveryPduProcessed`, `ClosedPeerIsDrained` | PDUs cut anywhere, from an initiator that pipelines and from one that waits for each answer; a peer that closes |
| `server` | `TypeOK`, `ServedByOneProcess`, `ForeignSessionOnlyAfterReturn`, `PendingIsAccepted`, `AcceptedIsServed` | three connections and four processes; resets, full tables, failing forks, processes that come back or end |
| `key_value_text` | `TypeOK`, `GetFindsFirst`, `CreateStoresLast`, `KeyNotOverrun` | both scanners on every text up to a length |

Five runs show where the code departs from what its comments say (details and quotations under
`findings` in `PROJECT.json`):

| run | comment | what happens |
|---|---|---|
| `transfers_immediate` | `data_out.c:40` "we only execute the command after receiving all of its data" | immediate data is not stored; the write executes without it |
| `transfers_more_r2t` | `data_out.c:71` "send more r2t for more data" | `total_r2t_sn` is never set; the write stalls |
| `numbering` | `iscsi_server.c:19` "NO cmdSN" | the condition is inverted; Data-Outs are checked and may be dropped |
| `login_granted` | `iscsi_server.c:57` "not login" | a Login without T that names full feature phase is answered SUCCESS with T and that stage; it is "not login" all the same |
| `session_reused` | `iscsi_server.c:69` "has login" | a process that serves a second connection finds its session in full feature phase: the first Login PDU ends that login, without a grant |

Three more departures are in the models without a run of their own: each Login PDU resets all parameters before it reads its own, where
`login.c:271` says "update parameter", so a login of several PDUs keeps what the last one declared; the window that
`iscsi_connection.h:52` describes as "only one PDU at a time" is opened again by the first R2T of
a write, so several commands are outstanding (`transfers` relies on it); and the return that
`login.c:250` marks "IMPOSSIBLE" is reached with the reserved stage 2 and, being -1, terminates the connection.

A consequence to read with `transfers`: a superseded write (its entry taken by a second
write) is never executed and never answered; `ImplementsCommandService` says that it does not
execute with wrong data. `AnsweredInLockstep` is therefore stated for one command
at a time only, and for writes that one R2T and one Data-Out complete.

### Bounds

* `response_stream`: room for two small responses or one large one, so a handler does
  wait; four responses per behaviour, so one can be appended at each gap of the transmit loop
  while another is sent and a third waits. Layouts: header only (48), five data bytes padded (56), NOP-In with
  one byte (49 appended, 52 declared), an echoed header with four bytes (48, 52), a final Login response under the header of a request with an
  additional header segment (56, 60).
* `session`: two connections of a process, transfers of two bytes (one or two R2Ts, one or two Data-Ins), five stamped
  responses per behaviour over both connections (`MaxStatSN`; a login, then commands with several responses; or logins on
  both connections), texts with missing keys, a repeated key, the value zero, numbers of several digits. All combinations of T, current and next stage come with one text; with each
  text come the stages 0 and 1 and the pairs of T and next stage (0, 0), (0, 3), (1, 1) and (1, 3); Continue comes with and without T.
* `transfers` and the two runs on `ScsiTransfers`: commands of up to three bytes with segments of one to three, one or two R2Ts a write; the
  plans are listed in `MCScsiTransfers`. There `Requests` is empty and `MaxStatSN` is zero because `TransferNext` replaces `Next`;
  the workload itself is finite.
* `server`: three connections, three forks, tables of two connections: enough for a process
  that comes back, accepts and forks a child of its own, for a full table, and for a failing `fork`.
* `key_value_text`: every text of at most seven symbols over five; two pairs with keys of one and two letters fit.
* `receive`: peers that send one or four PDUs before they wait, PDUs of 48 and 52 bytes, up to 100 bytes per `recv` (less than a header up to
  more than two PDUs), a buffer of 152; up to four PDUs (208 bytes) can overfill it. In the program:
  256 bytes per `recv`, a buffer of 4 MB.

Deadlock is not checked: bounded runs end, and the program really stops (connection
closed, process exited, an initiator with nothing left to send).

### Fairness

* `ResponseStream!FairSpec`: every step of a running thread is weakly fair. The three `sem_wait`s are
  strongly fair: whoever posts the semaphore sleeps (`usleep`) or asks again only after
  other work, so a waiter is not overtaken for ever. Requests, closing and failing sends are not fair.
* `ReceivePath!FairSpec`: `recv` returns when bytes or the end of the stream are there. The peer need not send.
* `FairTransferSpec`: bytes that have arrived make `recv` return, and then one PDU is processed; the initiator reads and sends
  what it can. A PDU behind another in the receive buffer is not taken until more bytes come, and `Target` is not
  enabled for it: the fairness promises no more than the loop does. That is why `AnsweredInLockstep` needs at most one PDU under way.
* `ServerProcess!FairSpec`: a process in the loop of `main()` runs; `accept` and `fork` return when they can.
  Peers, requests and the ends of threads are not fair.

## What is proved

`ResponseStreamProofs`, for every buffer size, every set of layouts and every number of responses
(assumptions: `LayoutsAssumption` – each response has a full header and fits in the buffer;
`GarbageAssumption` – lengths read off other bytes are at least a header; `BoundAssumption`):

* `TypeCorrectness`, `MutualExclusion`, `AssertionHolds`, `NoOverrun`, `StreamIsExact`:
  the safety properties of the run `response_stream`. The invariant `IInv` adds to them what makes them
  inductive: the values the transmit thread read without the lock stay true while it waits
  (`UnlockedReadsStayTrue`: nobody else shortens the buffer, so `pdu_length <= seen <= length`),
  and the layout being built is one of the constants.
* `StaysFramed`: `FInv` adds that the published responses tile the stream
  (`ResponsesTile`) and that `pdu_length` is the declared length of the response at the front (`MeasuredAtFront`).
* `Refinement`: if every layout is well framed (`HandlersDeclareLengths`), `Spec` implements
  `PduStream!Spec` under the mapping `accepted <- appended`, `delivered <- wire`,
  `ends <-` ends of the published responses. `RxPublish` is `Accept`, `TxSend` is `Deliver`, all else stutters.

`IscsiSessionProofs`, for every set of requests, every size of memory, and every number of connections and
responses. `RequestsAssumption` says what the handlers take for granted and do not check (`IsPDU`): a text has digits where a number
stands, T is one bit, data stays inside the 4 MB buffers. Nothing else is assumed of requests: the invariance of `IInv`
and the first three theorems use no assumption on them at all.

* `AttachedOpen`, `NormalExecution`, `TagAgreement` state `AttachedSessionIsOpen`, `ExecutesOnlyInNormalSession` and
  `TagsFollowCommands`. None is inductive alone. `IInv` adds `CreatedIsOpen` (a session that allows connections has a
  device: the login that attaches to an existing session is refused only by `iscsi_session_full`, and that depends on
  `max_connections`, which the process's earlier connections may have set), `NothingBeforeLogin` (on the first connection
  no command is counted before a session is attached, which is what makes the reset of the tag at login harmless), the types
  `Typed`, and `Shape` (the records keep their fields). Handlers fall into two kinds, `FullFeatureStep` and `SetUpStep`:
  one lemma per handler says which, one per kind that `IInv` is kept.
* `StatSNDensity` (`StatSNsDense`), `ReadsTiled` (`DataInsTileTheRead`), `AnsweredInForce` (`AnnouncedInForce`), `TypeCorrect` (`TypeOK`): what a
  handler sends. `Responds` says of one step that its responses are dense, tile a read, and announce what is then in force; one lemma per handler
  shows it, from the parameters before the step, whose types (`Types`) are the invariant it needs: `SentInv` adds them to `IInv`. Data-Ins and R2Ts
  are counted with the lemmas on `divide_round_up` of `IscsiPduProofs`.
* `LoginsAgree` (`LoginAgreement`): on the first connection of a process the steps that enter full feature phase are those in which a Login with T is granted it.
  Stages and bits of Logins are arbitrary. Without T a Login may be granted it too and nothing is entered (run `login_granted`); on a later connection it may be entered without a grant (run `session_reused`).

`ScsiTransfersProofs`, for every set of tasks and plans, that is every workload, depth of queues, limit declared at login and size of
Data-Outs (`PlansAssumption`: lengths fit in the memory, counts are not zero), and every interleaving of initiator, target and channels:

* `TransferInvariance`, `R2TsAsk` (`R2TsAskForMissingBytes`) and `CommandRefinement` (`ImplementsCommandService`). The argument follows the bytes of a
  write. Three queues hold what moves them: `Pending` (Data-Outs the target has not processed: the receive buffer, then the connection), `Left` (what the initiator still
  has to send for the R2Ts it has read) and `toInitiator` (R2Ts it has not read). The invariant `TInv` says that the bytes of a write reach the target from first to last:
  each queue is sorted and is before the next (`InOrder`); that what moves belongs to a write sent and lies behind its immediate data, and that a tag names the command that
  got it (`MoversRight`); and that each byte of the write in the transfer entry is stored, or on its way, or behind all that was asked for (`EntryRight`). The program executes
  a write when a final Data-Out ends at its length, without counting what came: that all of it is there then follows, since nothing on its way is
  behind the last byte (`FinishFinds`). A second write that takes the entry leaves Data-Outs with an old tag, and those are dropped; `IsMover` says that the tag
  of the entry is on no byte of another task. The rest of `TInv` says who was sent, executed, asked and answered (`CommandsRight`, `ExecutedRight`,
  `AskedRight`, `AnswersRight`), and that a Data-Out is never ignored for its number (`NeverIgnored`: an initiator that logs in with ExpCmdSN 0).
* The handlers of commands and Data-Outs do one of five things to all this (`Drops`, `Asks`, `Runs`, `Stores`, `Finishes`): `RequestSteps` shows it from the handlers, with
  the types of `SentInv`; one lemma for each, and for each step of the initiator, shows that the invariant is kept. For the R2Ts of a command, `R2TsRight` cuts the data into pieces, with the lemmas of
  `IscsiPduProofs`. `Runs` and `Finishes` are the `Execute` of `CommandService`, a response that completes a command is its `Answer`, a command sent is its
  `Issue`, and all else stutters.

`IscsiPduProofs` and `IscsiParametersProofs`, about operators, for all their arguments:

* `HeaderOnlyFramed`, `PaddedFramed`: these layouts are well framed, for every length of data. `NopInFramed`, `EchoedHeaderDataFramed`, `EchoedHeaderFramed`: these are
  well framed exactly for data of a multiple of four bytes; when the additional header segments that the request declared fit in the padding; and for a request
  that was a header alone. So the hypothesis of `Refinement` above holds for a target that is asked for nothing else.
* `ConversionsAgree`, `NumberMeans`: `string_to_int` reads back what `int_to_string` writes, which is the decimal numeral, for every natural number.
* `AnswerInForce`: for every login text, the values the generated answer announces are those in force after it was read back.

The loops of the conversions are recursive functions; that such a function exists, and what it computes for every argument, is
shown by a least counterexample (`LeastNatural`, from the well-foundedness of `<` on the naturals).

`ReceivePathProofs`, for every set of PDU lengths of at least a header, and every size of buffer and chunk:

* `TypeCorrectness`, `InOrder` (`ProcessedAsSent`). `IInv` says that the PDUs sent tile the stream (`PdusTile`), that the
  buffer starts at the next unprocessed one (`BaseIsNext`) and that it holds what was received (`BufferHoldsTaken`): between PDUs the
  buffer is empty, so what `iscsi_pdu_length` reads there never makes a PDU.
* `StuckBehindWholePdu`, under `RoomForPduAndChunk`: the buffer has room for a PDU but its last byte and one chunk. The program
  has 4 MB of buffer and chunks of 256 bytes, so this bounds the PDUs it can take.

`ServerProcessProofs`, for every number of connections, processes and descriptors:

* `TypeCorrectness`, and `OneProcessServes` (`ServedByOneProcess`) from an `IInv` that follows a connection: nowhere, then once in the
  queue, then held by one process at `fork`, then served by its child.
* `ForeignSessions` (`ForeignSessionOnlyAfterReturn`): a process outside `start_connection` has only sessions of
  connections that are over (`SessionIsOver`), and a process hands on its session only there.

`KeyValueTextProofs`, for texts of every length over every alphabet, and all nonempty keys:

* `TypeCorrectness`, and `InsideKey` (`KeyNotOverrun`), which holds because `next_key` takes the zero byte for a separator.
* `FindsFirst` (`GetFindsFirst`) and `StoresLast` (`CreateStoresLast`). The lemmas `Strings`, `StringsApart` and `WholeKey` say what a regular text is:
  its strings do not overlap, and a key that begins like a key of the program is that key. `CreateFollows` ties the loop of
  `iscsi_connection_parameter_create` to the string it is in and to the last values up to there; `GetFollows` says that `iscsi_parameter_get` is in a key, with `count`
  bytes matched or one that differs (`InKey`), or in a value (`InValue`), where a comma may make it compare again, but no equal sign comes. The keys must not be empty:
  the loop of create starts behind the first byte.

The proofs have one step per action; facts used in several places are lemmas.

Every safety property and refinement that a passing run checks is stated by a theorem. Only model-checked: the liveness properties
`HandlerGetsRoom`, `StreamDrains`, `AnsweredInLockstep`, `EveryPduProcessed`, `ClosedPeerIsDrained`, `PendingIsAccepted`, `AcceptedIsServed` (fairness and ENABLED are
beyond the prover).

## Not modelled

* Field offsets in headers and the byte and bit accessors: a header is a record. Logging and build files: no state.
* Sense data and SCSI status: carried unchanged from the ioctl to the response.
* `iscsi_connection_parameter_vendor_specific`: changes no state, and its result is not used.
* `socket`, `bind`, `listen` and `pthread_create` are taken to succeed; a `send` writes all or fails; SIGPIPE ends a process in `ServerProcess` only.
* An initiator whose first CmdSN is not 0: the window (`MaxCmdSN` 0) stays closed for it, so there would be nothing to see; no
  comment says where CmdSN starts.
* Numbers of 2^31 and more, hexadecimal or negative numbers in a login text; PDUs whose data ends behind the 4 MB buffers.
* What the kernel moves for a write: `iscsi_target.c:40` declares the direction `SG_DXFER_FROM_DEV` for every command. The model lets a write work on
  what the buffer holds, so its properties are about the data the target hands to the ioctl.
* Bytes of responses: a `Layout` has sizes only. That `nop.c:34` clears up to three bytes before a NOP-In whose data was cut is not in the models.
* Data sent behind additional header segments: `iscsi_pdu_data` is the byte after the header whatever `TotalAHSLength` says; only the declared lengths have it.

## Plan

1. Model: a composition of `ReceivePath`, `IscsiSession` and `ResponseStream` in which each handler's responses go through
   the buffer with their layouts, so that `HandlersDeclareLengths` becomes a statement about the handlers.
2. Prove: that a write without immediate data always finds all of its data (`WritesExecuteComplete` under that hypothesis), also when it has no data at all;
   bounds on the window, for an initiator that keeps to it.
