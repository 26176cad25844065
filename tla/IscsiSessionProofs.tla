--------------------------- MODULE IscsiSessionProofs ---------------------------
(***************************************************************************)
(* Theorems about IscsiSession, for every set of requests, every size of   *)
(* memory and every number of connections and responses.                   *)
(***************************************************************************)
EXTENDS IscsiSession, IscsiParametersProofs, FiniteSetTheorems

IsConnection(c) ==
  c = [session_reference |-> c.session_reference, stat_sn |-> c.stat_sn,
       expected_cmd_sn |-> c.expected_cmd_sn]

IsSession(s) ==
  s = [num_connections |-> s.num_connections,
       max_connections |-> s.max_connections, ExpCmdSN |-> s.ExpCmdSN,
       command_numbering_start |-> s.command_numbering_start,
       is_full_feature_phase |-> s.is_full_feature_phase,
       is_discovery |-> s.is_discovery, transfer_tag |-> s.transfer_tag]

IsEntry(e) ==
  e = [cdb |-> e.cdb, data |-> e.data, total_length |-> e.total_length,
       offset |-> e.offset, r2t_sn |-> e.r2t_sn, total_r2t_sn |-> e.total_r2t_sn,
       transfer_tag |-> e.transfer_tag]

IsTarget(t) ==
  t = [opens |-> t.opens, buffer |-> t.buffer, scsi_response |-> t.scsi_response]

IsServed(s) ==
  s = [connections |-> s.connections, stat_sns |-> s.stat_sns,
       answered |-> s.answered]

\* The records keep their fields, whatever values the requests bring.
Shape ==
  /\ IsConnection(connection) /\ IsSession(session) /\ IsEntry(entry)
  /\ IsTarget(target) /\ IsServed(served)

\* Types of what the properties are about.
Typed ==
  /\ connection.session_reference \in BOOLEAN
  /\ session.is_full_feature_phase \in BOOLEAN /\ session.is_discovery \in BOOLEAN
  /\ session.num_connections = 0 /\ session.max_connections \in {0, 4}
  /\ session.transfer_tag \in Nat /\ entry.transfer_tag \in Nat
  /\ connection.expected_cmd_sn \in Nat
  /\ target.opens \in Nat /\ served.connections \in Nat \ {0}

\* A session that allows connections has a device.
CreatedIsOpen == session.max_connections = 4 => target.opens > 0

\* On the first connection nothing was counted before a session was attached.
NothingBeforeLogin ==
  FirstConnection /\ ~connection.session_reference =>
    /\ session.transfer_tag = 0 /\ connection.expected_cmd_sn = 0
    /\ ~session.is_full_feature_phase

IInv ==
  /\ Shape /\ Typed /\ CreatedIsOpen /\ AttachedSessionIsOpen
  /\ ExecutesOnlyInNormalSession /\ NothingBeforeLogin /\ TagsFollowCommands

-------------------------------------------------------------------------------
\* A new process has no session, and nothing was counted.
LEMMA InitEstablishes == Init => IInv
  BY DEF Init, iscsi_connection_create, IInv, Shape, IsConnection, IsSession,
     IsEntry, IsTarget, IsServed, Typed, CreatedIsOpen,
     AttachedSessionIsOpen, ExecutesOnlyInNormalSession, NothingBeforeLogin,
     TagsFollowCommands, FirstConnection

\* What stays of a session that a PDU is numbered in.
SameButNumbering(s, t) ==
  /\ IsSession(t)
  /\ t.num_connections = s.num_connections
  /\ t.max_connections = s.max_connections
  /\ t.is_full_feature_phase = s.is_full_feature_phase
  /\ t.is_discovery = s.is_discovery

\* The numbering of a PDU changes no other field of the session.
LEMMA NumberedKeeps ==
  ASSUME IsSession(session), NEW p
  PROVE  /\ SameButNumbering(session, Numbered(p))
         /\ Numbered(p).transfer_tag = session.transfer_tag
  BY DEF IsSession, SameButNumbering, Numbered

\* Neither does a new transfer tag.
LEMMA TagKeeps ==
  ASSUME NEW s, NEW t, NEW tag, SameButNumbering(s, t)
  PROVE  /\ SameButNumbering(s, [t EXCEPT !.transfer_tag = tag])
         /\ [t EXCEPT !.transfer_tag = tag].transfer_tag = tag
  BY DEF IsSession, SameButNumbering

\* Responses advance the StatSN of the connection only.
LEMMA AdvanceKeeps ==
  ASSUME NEW c, IsConnection(c), NEW n
  PROVE  /\ IsConnection(Advance(c, n))
         /\ Advance(c, n).session_reference = c.session_reference
         /\ Advance(c, n).expected_cmd_sn = c.expected_cmd_sn
         /\ Advance(c, n).stat_sn = c.stat_sn + n
  BY DEF IsConnection, Advance

\* A connection to which a session is attached.
LEMMA AttachingKeeps ==
  ASSUME NEW c, IsConnection(c), NEW b
  PROVE  /\ IsConnection([c EXCEPT !.session_reference = b])
         /\ [c EXCEPT !.session_reference = b].session_reference = b
         /\ [c EXCEPT !.session_reference = b].expected_cmd_sn = c.expected_cmd_sn
         /\ [c EXCEPT !.session_reference = b].stat_sn = c.stat_sn
  BY DEF IsConnection

\* A command advances ExpCmdSN by one.
LEMMA AdvancedCounts ==
  ASSUME IsConnection(connection)
  PROVE  /\ IsConnection(Advanced)
         /\ Advanced.session_reference = connection.session_reference
         /\ Advanced.expected_cmd_sn = connection.expected_cmd_sn + 1
         /\ Advanced.stat_sn = connection.stat_sn
  BY DEF IsConnection, Advanced

\* The session that setup_session leaves.
LEMMA SetUpCreates ==
  ASSUME IsSession(session), Typed, NEW p
  PROVE  LET s == SetUpSession(p)
         IN /\ IsSession(s)
            /\ ~CreatesSession(p) => s = session
            /\ CreatesSession(p) =>
                 s.num_connections = 0 /\ s.max_connections = 4 /\ s.transfer_tag = 0
            /\ s.is_full_feature_phase = session.is_full_feature_phase
            /\ s.is_discovery \in BOOLEAN
  BY DEF IsSession, SetUpSession, Typed

\* A session is attached only if it was created now, or is not full.
LEMMA SuccessNeedsSession ==
  ASSUME Typed, NEW p, SetupStatus(p) = "SUCCESS"
  PROVE  CreatesSession(p) \/ session.max_connections = 4
  BY DEF Typed, SetupStatus, iscsi_session_full

-------------------------------------------------------------------------------
(***************************************************************************)
(* A PDU in full feature phase, or ignored: the session and the connection *)
(* are numbered, a command advances both counters, the transfer entry gets *)
(* the tag of the command or keeps its own.                                *)
(***************************************************************************)
FullFeatureStep ==
  /\ IsConnection(connection') /\ IsEntry(entry')
  /\ IsTarget(target') /\ IsServed(served')
  /\ SameButNumbering(session, session')
  /\ connection'.session_reference = connection.session_reference
  /\ target'.opens = target.opens
  /\ served'.connections = served.connections
  /\ \/ /\ session'.transfer_tag = session.transfer_tag
        /\ connection'.expected_cmd_sn = connection.expected_cmd_sn
     \/ /\ FullFeature
        /\ session'.transfer_tag = session.transfer_tag + 1
        /\ connection'.expected_cmd_sn = connection.expected_cmd_sn + 1
  /\ entry'.transfer_tag \in {entry.transfer_tag, session'.transfer_tag}
  /\ executed' # executed => FullFeature /\ Normal

\* A response is recorded for the connection that is served.
LEMMA ServedKeeps ==
  ASSUME IsServed(served), NEW p, NEW status, NEW rs, Finish(p, status, rs)
  PROVE  IsServed(served') /\ served'.connections = served.connections
  BY DEF IsServed, Finish

\* Executing a command opens no device.
LEMMA ExecuteKeeps ==
  ASSUME IsTarget(target), NEW cdb, NEW outcome, NEW buffer,
         iscsi_target_execute_scsi_command(cdb, outcome, buffer)
  PROVE  IsTarget(target') /\ target'.opens = target.opens
  BY DEF IsTarget, iscsi_target_execute_scsi_command

\* A handler that answers once is a step of full feature phase.
LEMMA RespondOnceSteps ==
  ASSUME Shape, NEW p, NEW opcode, RespondOnce(p, opcode)
  PROVE  FullFeatureStep
  <1>1. IsServed(served') /\ served'.connections = served.connections
    BY ServedKeeps DEF Shape, RespondOnce, Answer
  <1> QED
    BY <1>1, NumberedKeeps, AdvanceKeeps
    DEF Shape, RespondOnce, SameButNumbering, FullFeatureStep

\* So is every outcome of a SCSI command: ExpCmdSN and the transfer tag advance
\* together.
LEMMA CommandSteps ==
  ASSUME Shape, NEW p, iscsi_request_cmd_process(p)
  PROVE  FullFeatureStep
  <1> DEFINE n == Numbered(p)
             tagged == [n EXCEPT !.transfer_tag = Tag]
  <1>1. SameButNumbering(session, tagged) /\ tagged.transfer_tag = session.transfer_tag + 1
    BY NumberedKeeps, TagKeeps DEF Shape, Tag
  <1>2. /\ IsConnection(Advanced)
        /\ Advanced.session_reference = connection.session_reference
        /\ Advanced.expected_cmd_sn = connection.expected_cmd_sn + 1
    BY AdvancedCounts DEF Shape
  <1>3. CASE CommandNeedsData(p)
    <2>1. IsServed(served') /\ served'.connections = served.connections
      BY <1>3, ServedKeeps DEF Shape, CommandNeedsData, Answer
    <2>2. IsEntry(entry') /\ entry'.transfer_tag = session.transfer_tag + 1
      BY <1>3 DEF Shape, IsEntry, CommandNeedsData, iscsi_transfer_entry_create, Tag
    <2>3. /\ IsConnection(connection')
          /\ connection'.session_reference = connection.session_reference
          /\ connection'.expected_cmd_sn = connection.expected_cmd_sn + 1
      BY <1>2, <1>3, AdvanceKeeps DEF CommandNeedsData
    <2> QED
      BY <1>1, <1>3, <2>1, <2>2, <2>3
      DEF Shape, CommandNeedsData, CommandArrives, Arrives, FullFeatureStep,
          SameButNumbering
  <1>4. CASE CommandReads(p)
    <2>1. IsServed(served') /\ served'.connections = served.connections
      BY <1>4, ServedKeeps DEF Shape, CommandReads, Answer
    <2>2. IsTarget(target') /\ target'.opens = target.opens
      BY <1>4, ExecuteKeeps DEF Shape, CommandReads
    <2>3. /\ IsConnection(connection')
          /\ connection'.session_reference = connection.session_reference
          /\ connection'.expected_cmd_sn = connection.expected_cmd_sn + 1
      BY <1>2, <1>4, AdvanceKeeps DEF CommandReads
    <2> QED
      BY <1>1, <1>4, <2>1, <2>2, <2>3
      DEF Shape, CommandReads, CommandArrives, Arrives, FullFeatureStep,
          SameButNumbering
  <1>5. CASE CommandWithoutR2T(p)
    <2>1. IsServed(served') /\ served'.connections = served.connections
      BY <1>5, ServedKeeps DEF Shape, CommandWithoutR2T, Answer
    <2>2. IsTarget(target') /\ target'.opens = target.opens
      BY <1>5, ExecuteKeeps DEF Shape, CommandWithoutR2T
    <2>3. /\ IsConnection(connection')
          /\ connection'.session_reference = connection.session_reference
          /\ connection'.expected_cmd_sn = connection.expected_cmd_sn + 1
      BY <1>2, <1>5, AdvanceKeeps DEF CommandWithoutR2T
    <2> QED
      BY <1>1, <1>5, <2>1, <2>2, <2>3
      DEF Shape, CommandWithoutR2T, CommandArrives, Arrives, FullFeatureStep,
          SameButNumbering
  <1>6. CASE CommandExits(p)
    <2>1. IsServed(served') /\ served'.connections = served.connections
      BY <1>6, ServedKeeps DEF Shape, CommandExits
    <2>2. IsTarget(target') /\ target'.opens = target.opens
      BY <1>6, ExecuteKeeps DEF Shape, CommandExits
    <2> QED
      BY <1>6, <2>1, <2>2
      DEF Shape, CommandExits, CommandArrives, Arrives, FullFeatureStep,
          SameButNumbering
  <1> QED BY <1>3, <1>4, <1>5, <1>6 DEF iscsi_request_cmd_process

\* So is every outcome of a Data-Out.
LEMMA DataOutSteps ==
  ASSUME Shape, NEW p, iscsi_request_data_out_process(p)
  PROVE  FullFeatureStep
  <1>1. SameButNumbering(session, Numbered(p))
        /\ Numbered(p).transfer_tag = session.transfer_tag
    BY NumberedKeeps DEF Shape
  <1>2. CASE DataOutDropped(p)
    <2>1. IsServed(served') /\ served'.connections = served.connections
      BY <1>2, ServedKeeps DEF Shape, DataOutDropped, Answer
    <2> QED
      BY <1>1, <1>2, <2>1
      DEF Shape, DataOutDropped, FullFeatureStep, SameButNumbering
  <1>3. CASE DataOutExecutes(p)
    <2>1. IsServed(served') /\ served'.connections = served.connections
      BY <1>3, ServedKeeps DEF Shape, DataOutExecutes, Answer
    <2>2. IsTarget(target') /\ target'.opens = target.opens
      BY <1>3, ExecuteKeeps DEF Shape, DataOutExecutes
    <2>3. IsEntry(entry') /\ entry'.transfer_tag = entry.transfer_tag
      BY <1>3 DEF Shape, IsEntry, DataOutExecutes
    <2>4. /\ IsConnection(connection')
          /\ connection'.session_reference = connection.session_reference
          /\ connection'.expected_cmd_sn = connection.expected_cmd_sn
      BY <1>3, AdvanceKeeps DEF Shape, DataOutExecutes
    <2> QED
      BY <1>1, <1>3, <2>1, <2>2, <2>3, <2>4
      DEF Shape, DataOutExecutes, HasTransferEntry, Arrives, FullFeatureStep,
          SameButNumbering
  <1>4. CASE DataOutStored(p)
    <2>1. IsServed(served') /\ served'.connections = served.connections
      BY <1>4, ServedKeeps DEF Shape, DataOutStored, Answer
    <2>2. IsEntry(entry') /\ entry'.transfer_tag = entry.transfer_tag
      BY <1>4 DEF Shape, IsEntry, DataOutStored
    <2>3. /\ IsConnection(connection')
          /\ connection'.session_reference = connection.session_reference
          /\ connection'.expected_cmd_sn = connection.expected_cmd_sn
      BY <1>4, AdvanceKeeps DEF Shape, DataOutStored
    <2> QED
      BY <1>1, <1>4, <2>1, <2>2, <2>3
      DEF Shape, DataOutStored, FullFeatureStep, SameButNumbering
  <1> QED BY <1>2, <1>3, <1>4 DEF iscsi_request_data_out_process

\* So is every request of full feature phase, and a PDU that is ignored.
LEMMA FullFeaturePhaseSteps ==
  ASSUME Shape, NEW p, Ignore(p) \/ FullFeaturePhase(p)
  PROVE  FullFeatureStep
  <1>1. CASE Ignore(p)
    <2>1. IsServed(served') /\ served'.connections = served.connections
      BY <1>1, ServedKeeps DEF Shape, Ignore
    <2> QED
      BY <1>1, <2>1 DEF Shape, Ignore, stateVars, FullFeatureStep, SameButNumbering
  <1>2. CASE iscsi_request_text_process(p)
    <2>1. IsServed(served') /\ served'.connections = served.connections
      BY <1>2, ServedKeeps DEF Shape, iscsi_request_text_process, Answer
    <2> QED
      BY <1>2, <2>1, NumberedKeeps
      DEF Shape, iscsi_request_text_process, SameButNumbering, FullFeatureStep
  <1>3. CASE \/ iscsi_request_logout_process(p) \/ iscsi_request_nop_out_process(p)
             \/ iscsi_request_reject(p)
    BY <1>3, RespondOnceSteps
    DEF iscsi_request_logout_process, iscsi_request_nop_out_process,
        iscsi_request_reject
  <1> QED
    BY <1>1, <1>2, <1>3, CommandSteps, DataOutSteps DEF FullFeaturePhase

\* A step of full feature phase keeps the invariant.
LEMMA FullFeatureStepKeeps ==
  ASSUME IInv, FullFeatureStep
  PROVE  IInv'
  <1> USE DEF IInv, FullFeatureStep, SameButNumbering
  <1>1. Shape'
    BY DEF Shape, IsConnection, IsSession, IsEntry, IsTarget, IsServed
  <1>2. Typed'
    BY DEF Typed
  <1>3. CreatedIsOpen' /\ AttachedSessionIsOpen'
    BY DEF CreatedIsOpen, AttachedSessionIsOpen
  <1>4. ExecutesOnlyInNormalSession'
    BY DEF ExecutesOnlyInNormalSession, FullFeature, Normal
  <1>5. NothingBeforeLogin'
    BY DEF NothingBeforeLogin, FirstConnection, FullFeature
  <1>6. TagsFollowCommands'
    BY DEF TagsFollowCommands, FirstConnection, Typed
  <1> QED BY <1>1, <1>2, <1>3, <1>4, <1>5, <1>6

-------------------------------------------------------------------------------
(***************************************************************************)
(* A PDU before full feature phase.                                        *)
(***************************************************************************)
\* The session and the target after setup_session, of a connection that a session
\* was not attached to.
SetUpStep(p) ==
  /\ IsConnection(connection') /\ IsServed(served')
  /\ IsSession(session') /\ IsTarget(target') /\ UNCHANGED <<entry, executed>>
  /\ served'.connections = served.connections
  /\ connection'.expected_cmd_sn = connection.expected_cmd_sn
  /\ connection'.session_reference \in BOOLEAN
  /\ \/ /\ CreatesSession(p)
        /\ session'.num_connections = 0 /\ session'.max_connections = 4
        /\ session'.transfer_tag = 0
        /\ target'.opens = target.opens + 1
        /\ connection'.session_reference
        /\ session'.is_discovery \in BOOLEAN
     \/ /\ session'.num_connections = session.num_connections
        /\ session'.max_connections = session.max_connections
        /\ session'.transfer_tag = session.transfer_tag
        /\ session'.is_discovery = session.is_discovery
        /\ target'.opens = target.opens
        /\ connection.session_reference => connection'.session_reference
        /\ connection'.session_reference \/ connection.session_reference
             => connection.session_reference \/ session.max_connections = 4
  /\ session'.is_full_feature_phase \in BOOLEAN
  /\ session'.is_full_feature_phase =>
       session.is_full_feature_phase \/ connection'.session_reference

\* A step of setup_session, success or not, keeps the invariant.
LEMMA SetUpStepKeeps ==
  ASSUME IInv, NEW p, BeforeFullFeature, SetUpStep(p)
  PROVE  IInv'
  <1> USE DEF IInv, SetUpStep
  <1>1. Shape'
    BY DEF Shape, IsConnection, IsSession, IsEntry, IsTarget, IsServed
  <1>2. Typed'
    BY DEF Typed
  <1>3. CreatedIsOpen'
    BY DEF CreatedIsOpen, Typed
  <1>4. AttachedSessionIsOpen'
    BY DEF CreatedIsOpen, AttachedSessionIsOpen, Typed
  <1>5. ExecutesOnlyInNormalSession'
    BY DEF ExecutesOnlyInNormalSession, FullFeature, BeforeFullFeature
  <1>6. NothingBeforeLogin' /\ TagsFollowCommands'
    BY DEF NothingBeforeLogin, TagsFollowCommands, FirstConnection, Typed,
           CreatesSession
  <1> QED BY <1>1, <1>2, <1>3, <1>4, <1>5, <1>6

\* What setup_session does to session and target, success or not.
LEMMA SetUpTarget ==
  ASSUME IsTarget(target), Typed, NEW p
  PROVE  /\ IsTarget(OpenedTarget(p))
         /\ CreatesSession(p) => OpenedTarget(p).opens = target.opens + 1
         /\ ~CreatesSession(p) => OpenedTarget(p).opens = target.opens
         /\ OpenedTarget(p).buffer = target.buffer
         /\ OpenedTarget(p).scsi_response = target.scsi_response
  BY DEF IsTarget, OpenedTarget, Typed

\* A login that fails in setup_session.
LEMMA LoginSetupFailsSteps ==
  ASSUME IInv, NEW p, LoginSetupFails(p)
  PROVE  SetUpStep(p)
  <1>1. IsServed(served') /\ served'.connections = served.connections
    BY ServedKeeps DEF IInv, Shape, LoginSetupFails, Answer
  <1>2. /\ IsConnection(connection')
        /\ connection'.expected_cmd_sn = connection.expected_cmd_sn
        /\ connection'.session_reference = CreatesSession(p)
    BY DEF IInv, Shape, IsConnection, LoginSetupFails
  <1> QED
    BY <1>1, <1>2, SetUpCreates, SetUpTarget
    DEF IInv, Shape, Typed, LoginSetupFails, SetUpStep, CreatesSession

\* A login that ends a stage.
LEMMA FinalLoginSteps ==
  ASSUME IInv, NEW p, response_final_login(p)
  PROVE  SetUpStep(p)
  <1>1. IsServed(served') /\ served'.connections = served.connections
    BY ServedKeeps DEF IInv, Shape, response_final_login, Answer, Terminate
  <1> DEFINE attached == [connection EXCEPT !.session_reference = TRUE]
  <1>2. /\ IsConnection(attached) /\ attached.session_reference
        /\ attached.expected_cmd_sn = connection.expected_cmd_sn
    <2>1. IsConnection(connection)
      BY DEF IInv, Shape
    <2>2. /\ IsConnection(attached) /\ attached.session_reference = TRUE
          /\ attached.expected_cmd_sn = connection.expected_cmd_sn
      BY ONLY <2>1, AttachingKeeps
    <2> QED BY <2>2
  <1>3. connection' = attached \/ connection' = Advance(attached, 1)
    BY DEF response_final_login
  <1> HIDE DEF attached
  <1>4. /\ IsConnection(connection') /\ connection'.session_reference
        /\ connection'.expected_cmd_sn = connection.expected_cmd_sn
    <2>1. CASE connection' = attached
      BY ONLY <2>1, <1>2
    <2>2. CASE connection' = Advance(attached, 1)
      <3>1. /\ IsConnection(Advance(attached, 1))
            /\ Advance(attached, 1).session_reference = attached.session_reference
            /\ Advance(attached, 1).expected_cmd_sn = attached.expected_cmd_sn
        BY ONLY <1>2, AdvanceKeeps
      <3> QED BY ONLY <2>2, <3>1, <1>2
    <2> QED BY <1>3, <2>1, <2>2
  <1> DEFINE s == SetUpSession(p)
             f == s.is_full_feature_phase \/ EntersFullFeature(p)
  <1>5. session' = [s EXCEPT !.is_full_feature_phase = f]
    BY DEF response_final_login
  <1>6. IsSession(s) /\ s.is_full_feature_phase = session.is_full_feature_phase
    BY SetUpCreates DEF IInv, Shape
  <1>7. /\ IsSession(session')
        /\ session'.num_connections = s.num_connections
        /\ session'.max_connections = s.max_connections
        /\ session'.transfer_tag = s.transfer_tag
        /\ session'.is_discovery = s.is_discovery
        /\ session'.is_full_feature_phase \in BOOLEAN
    BY <1>5, <1>6 DEF IsSession
  <1> QED
    BY <1>1, <1>4, <1>7, SetUpCreates, SetUpTarget, SuccessNeedsSession
    DEF IInv, Shape, Typed, response_final_login, SetUpStep

\* Every PDU before full feature phase leaves the session as it is, or sets it up.
LEMMA LoginPhaseSteps ==
  ASSUME IInv, NEW p, LoginPhase(p)
  PROVE  FullFeatureStep \/ (BeforeFullFeature /\ SetUpStep(p))
  <1>0. Shape /\ Typed
    BY DEF IInv
  <1>1. CASE NotLoggedIn(p) \/ LoginExits(p)
    <2>1. IsServed(served') /\ served'.connections = served.connections
      BY <1>0, <1>1, ServedKeeps DEF Shape, NotLoggedIn, LoginExits, Terminate, Exit
    <2>2. FullFeatureStep
      BY <1>0, <1>1, <2>1
      DEF Shape, NotLoggedIn, LoginExits, Exit, stateVars, FullFeatureStep,
          SameButNumbering
    <2> QED BY <2>2
  <1>2. CASE iscsi_request_login_reject(p)
    <2>1. IsServed(served') /\ served'.connections = served.connections
      BY <1>0, <1>2, ServedKeeps DEF Shape, iscsi_request_login_reject, Answer
    <2>2. FullFeatureStep
      BY <1>0, <1>2, <2>1, NumberedKeeps
      DEF Shape, iscsi_request_login_reject, FullFeatureStep, SameButNumbering
    <2> QED BY <2>2
  <1>3. CASE response_partial_login(p)
    <2>1. IsServed(served') /\ served'.connections = served.connections
      BY <1>0, <1>3, ServedKeeps DEF Shape, response_partial_login, Answer
    <2>2. FullFeatureStep
      BY <1>0, <1>3, <2>1, AdvanceKeeps
      DEF Shape, response_partial_login, FullFeatureStep, SameButNumbering
    <2> QED BY <2>2
  <1>4. CASE LoginSetupFails(p)
    BY <1>4, LoginSetupFailsSteps DEF LoginSetupFails, LoginArrives
  <1>5. CASE response_final_login(p)
    BY <1>5, FinalLoginSteps DEF response_final_login, LoginArrives
  <1> QED BY <1>1, <1>2, <1>3, <1>4, <1>5 DEF LoginPhase

-------------------------------------------------------------------------------
\* The next connection of the process finds the session as it was left.
LEMMA NextConnectionKeeps ==
  ASSUME IInv, NextConnection
  PROVE  IInv'
  <1>1. Shape' /\ Typed'
    BY DEF IInv, Shape, Typed, NextConnection, iscsi_connection_create,
           IsConnection, IsSession, IsEntry, IsTarget, IsServed
  <1>2. /\ CreatedIsOpen' /\ AttachedSessionIsOpen' /\ ExecutesOnlyInNormalSession'
        /\ NothingBeforeLogin' /\ TagsFollowCommands'
    BY DEF IInv, Typed, NextConnection, iscsi_connection_create, CreatedIsOpen,
           AttachedSessionIsOpen, ExecutesOnlyInNormalSession, NothingBeforeLogin,
           TagsFollowCommands, FirstConnection
  <1> QED BY <1>1, <1>2 DEF IInv

\* Whatever PDU arrives, processing it keeps the invariant.
LEMMA ProcessKeeps ==
  ASSUME IInv, NEW p, iscsi_server_process(p)
  PROVE  IInv'
  <1>1. CASE Ignore(p) \/ FullFeaturePhase(p)
    BY <1>1, FullFeaturePhaseSteps, FullFeatureStepKeeps DEF IInv
  <1>2. CASE LoginPhase(p)
    BY <1>2, LoginPhaseSteps, FullFeatureStepKeeps, SetUpStepKeeps
  <1> QED BY <1>1, <1>2 DEF iscsi_server_process

\* Every step keeps the invariant.
LEMMA NextKeeps == IInv /\ [Next]_vars => IInv'
  <1> SUFFICES ASSUME IInv, [Next]_vars PROVE IInv'
    OBVIOUS
  <1>1. CASE UNCHANGED vars
    BY <1>1
    DEF vars, stateVars, IInv, Shape, IsConnection, IsSession, IsEntry, IsTarget,
        IsServed, Typed, CreatedIsOpen, AttachedSessionIsOpen,
        ExecutesOnlyInNormalSession, NothingBeforeLogin, TagsFollowCommands,
        FirstConnection, FullFeature
  <1>2. ASSUME NEW p \in Requests, RequestArrives(p) PROVE IInv'
    BY <1>2, ProcessKeeps DEF RequestArrives
  <1>3. CASE NextConnection
    BY <1>3, NextConnectionKeeps
  <1> QED BY <1>1, <1>2, <1>3 DEF Next

\* IInv is an invariant.
THEOREM Invariance == Spec => []IInv
  BY InitEstablishes, NextKeeps, PTL DEF Spec

\* A session that is attached to a connection, or in full feature phase, was
\* created and its device opened, on whatever connection of the process.
THEOREM AttachedOpen == Spec => []AttachedSessionIsOpen
  <1>1. IInv => AttachedSessionIsOpen
    BY DEF IInv
  <1> QED BY <1>1, Invariance, PTL

\* Commands reach the device only in full feature phase of a normal session.
THEOREM NormalExecution == Spec => []ExecutesOnlyInNormalSession
  <1>1. IInv => ExecutesOnlyInNormalSession
    BY DEF IInv
  <1> QED BY <1>1, Invariance, PTL

\* On the first connection of a process, transfer tags and ExpCmdSN agree.
THEOREM TagAgreement == Spec => []TagsFollowCommands
  <1>1. IInv => TagsFollowCommands
    BY DEF IInv
  <1> QED BY <1>1, Invariance, PTL

-------------------------------------------------------------------------------
(***************************************************************************)
(* What the handlers send.  Types holds of every variable the responses    *)
(* are computed from.                                                      *)
(***************************************************************************)
\* The device was opened at most once for each connection, and not yet for one that
\* no session is attached to.
OpensBounded ==
  /\ target.opens <= served.connections
  /\ ~connection.session_reference => target.opens < served.connections

Types ==
  /\ connection.stat_sn \in Nat
  /\ IsParameter(parameter)
  /\ DOMAIN entry.data = Offsets /\ DOMAIN target.buffer = Offsets
  /\ entry.total_length \in 0 .. MemorySize
  /\ entry.r2t_sn = 0 /\ entry.total_r2t_sn = 0
  /\ target.scsi_response \in {0, 1}
  /\ OpensBounded
  /\ process \in {"running", "terminated", "exited"}

\* No response, no StatSN.
LEMMA DenseNone ==
  ASSUME NEW n \in Nat
  PROVE  Dense(n, <<>>, n)
  <1>1. {i \in DOMAIN <<>> : <<>>[i].stamp # NoStamp} = {}
    OBVIOUS
  <1>2. Cardinality({}) = 0
    BY FS_EmptySet, Zenon
  <1> QED BY <1>1, <1>2 DEF Dense

\* A response without a stamp takes no StatSN.
LEMMA DenseUnstamped ==
  ASSUME NEW n \in Nat, NEW r, r.stamp = NoStamp
  PROVE  Dense(n, <<r>>, n)
  <1>1. {i \in DOMAIN <<r>> : <<r>>[i].stamp # NoStamp} = {}
    OBVIOUS
  <1>2. Cardinality({}) = 0
    BY FS_EmptySet, Zenon
  <1> QED BY <1>1, <1>2 DEF Dense

\* Stamped responses with consecutive StatSNs.
LEMMA DenseAll ==
  ASSUME NEW n \in Nat, NEW rs, NEW m \in Nat, DOMAIN rs = 1 .. m,
         \A i \in 1 .. m : rs[i].stamp # NoStamp /\ rs[i].stamp.stat_sn = n + i - 1
  PROVE  Dense(n, rs, n + m)
  <1> DEFINE stamped == {i \in DOMAIN rs : rs[i].stamp # NoStamp}
  <1>1. stamped = 1 .. m
    OBVIOUS
  <1>2. Cardinality(1 .. m) = m
    BY FS_Interval
  <1>3. ASSUME NEW i \in 1 .. m
        PROVE  rs[i].stamp.stat_sn = n + Cardinality({j \in 1 .. m : j < i})
    <2>1. {j \in 1 .. m : j < i} = 1 .. i - 1
      OBVIOUS
    <2>2. Cardinality(1 .. i - 1) = i - 1
      BY FS_Interval
    <2> QED BY <2>1, <2>2
  <1> QED BY <1>1, <1>2, <1>3 DEF Dense

\* A stamp is not the header of a response without one.
LEMMA StampIsStamp ==
  ASSUME NEW c, NEW i, c.stat_sn + i \in Nat
  PROVE  Stamp(c, i) # NoStamp /\ Stamp(c, i).stat_sn = c.stat_sn + i
  BY DEF Stamp, NoStamp

\* What a step's responses are for the properties: their StatSNs are dense, Data-Ins
\* tile a read, announced values are in force.
Responds ==
  /\ connection'.stat_sn \in Nat
  /\ Dense(connection.stat_sn, responses', connection'.stat_sn)
  /\ DataInsTileTheRead' /\ AnnouncedInForce'

\* A handler that does not answer.
LEMMA SilentResponds ==
  ASSUME connection.stat_sn \in Nat, responses' = <<>>,
         connection'.stat_sn = connection.stat_sn
  PROVE  Responds
  BY DenseNone DEF Responds, DataInsTileTheRead, AnnouncedInForce

\* The pairs of a response r, if it is a Login response, are in force with par.
InForce(r, par) ==
  r.opcode = "LOGIN_RES" =>
    \A j \in DOMAIN r.text :
      r.text[j][1] \in Keys => Means(r.text[j][1], r.text[j][2], par[r.text[j][1]])

\* A handler that answers with one response that is no Data-In.
LEMMA OneResponds ==
  ASSUME connection.stat_sn \in Nat, NEW r, responses' = <<r>>,
         r.opcode # "SCSI_DATA_IN", InForce(r, parameter'),
         \/ r.stamp = NoStamp /\ connection'.stat_sn = connection.stat_sn
         \/ /\ r.stamp # NoStamp /\ r.stamp.stat_sn = connection.stat_sn
            /\ connection'.stat_sn = connection.stat_sn + 1
  PROVE  Responds
  <1>1. DOMAIN <<r>> = 1 .. 1 /\ <<r>>[1] = r
    OBVIOUS
  <1>2. Dense(connection.stat_sn, <<r>>, connection'.stat_sn)
    <2>1. CASE r.stamp = NoStamp /\ connection'.stat_sn = connection.stat_sn
      BY <2>1, DenseUnstamped
    <2>2. CASE /\ r.stamp # NoStamp /\ r.stamp.stat_sn = connection.stat_sn
               /\ connection'.stat_sn = connection.stat_sn + 1
      <3>1. \A i \in 1 .. 1 : /\ <<r>>[i].stamp # NoStamp
                              /\ <<r>>[i].stamp.stat_sn = connection.stat_sn + i - 1
        BY <1>1, <2>2
      <3>2. Dense(connection.stat_sn, <<r>>, connection.stat_sn + 1)
        BY ONLY <1>1, <3>1, connection.stat_sn \in Nat, DenseAll
      <3> QED BY <2>2, <3>2
    <2> QED BY <2>1, <2>2
  <1>3. DataInsTileTheRead'
    BY <1>1 DEF DataInsTileTheRead
  <1>4. AnnouncedInForce'
    BY <1>1 DEF AnnouncedInForce, InForce
  <1> QED BY <1>2, <1>3, <1>4 DEF Responds

\* A PDU of full feature phase that is answered at most once.
LEMMA RespondOnceResponds ==
  ASSUME Shape, Types, NEW p, NEW opcode, opcode \notin {"SCSI_DATA_IN", "LOGIN_RES"},
         RespondOnce(p, opcode)
  PROVE  Responds
  <1> DEFINE r == Response(opcode, Stamp(connection, 0))
  <1>1. /\ r.opcode = opcode /\ r.stamp = Stamp(connection, 0)
        /\ Stamp(connection, 0) # NoStamp
        /\ Stamp(connection, 0).stat_sn = connection.stat_sn
    BY StampIsStamp DEF Response, Types
  <1>2. responses' = <<r>> /\ connection'.stat_sn = connection.stat_sn + 1
    BY AdvanceKeeps DEF RespondOnce, Answer, Finish, Shape
  <1> HIDE DEF r
  <1>3. InForce(r, parameter')
    BY <1>1 DEF InForce
  <1> QED BY <1>1, <1>2, <1>3, OneResponds DEF Types

\* A response to a command is stamped with the StatSN of the connection.
LEMMA CommandResponseResponds ==
  ASSUME Types, NEW c, NEW task, NEW outcome, c.stat_sn = connection.stat_sn,
         responses' = CommandResponse(c, task, outcome),
         connection'.stat_sn = connection.stat_sn + 1
  PROVE  Responds
  <1> DEFINE r == [opcode |-> "SCSI_CMD_RES", task |-> task, stamp |-> Stamp(c, 0),
                   response |-> IF outcome.ok THEN 0 ELSE 1]
  <1>1. r.opcode = "SCSI_CMD_RES" /\ r.stamp = Stamp(c, 0)
    OBVIOUS
  <1>2. Stamp(c, 0) # NoStamp /\ Stamp(c, 0).stat_sn = connection.stat_sn
    BY StampIsStamp DEF Types
  <1>3. responses' = <<r>>
    BY DEF CommandResponse
  <1> HIDE DEF r
  <1>4. InForce(r, parameter')
    BY <1>1 DEF InForce
  <1> QED BY <1>1, <1>2, <1>3, <1>4, OneResponds DEF Types

\* R2Ts carry stamps of their own.
LEMMA R2TsDense ==
  ASSUME Shape, Types, NEW p, IsPDU(p), p.opcode = "SCSI_CMD", NeedsR2T(p), MaxRecv # 0
  PROVE  LET rs == R2Ts(p)
         IN /\ Len(rs) \in Nat /\ DOMAIN rs = 1 .. Len(rs)
            /\ Dense(connection.stat_sn, rs, connection.stat_sn + Len(rs))
            /\ \A i \in DOMAIN rs : rs[i].opcode = "R2T"
  <1> DEFINE m == min(parameter["MaxOutstandingR2T"],
                      divide_round_up(p.edtl - Unsolicited(p), MaxRecv))
             rs == R2Ts(p)
  <1>1. /\ parameter["MaxOutstandingR2T"] \in Nat /\ MaxRecv \in Nat \ {0}
        /\ parameter["FirstBurstLength"] \in Nat /\ parameter["InitialR2T"] \in BOOLEAN
    BY DEF Types, IsParameter, IsValue, MaxRecv, Keys, NumberKeys, MinKeys, MaxKeys,
           BoolKeys
  <1>2. p.edtl \in Nat /\ p.dsl \in Nat /\ p.dsl < p.edtl
    BY MemoryAssumption DEF IsPDU, NeedsR2T
  <1>3. Unsolicited(p) \in 0 .. p.edtl
    BY <1>1, <1>2 DEF Unsolicited, min
  <1>4. divide_round_up(p.edtl - Unsolicited(p), MaxRecv) \in Nat
    <2> DEFINE a == p.edtl - Unsolicited(p)
    <2>1. a \in Nat
      BY <1>2, <1>3
    <2> HIDE DEF a
    <2>2. CASE a = 0
      <3>1. (0 + MaxRecv - 1) \div MaxRecv \in Nat
        BY <1>1
      <3> QED BY <2>2, <3>1 DEF divide_round_up, a
    <2>3. CASE a # 0
      BY <1>1, <2>1, <2>3, RoundUp DEF a
    <2> QED BY <2>2, <2>3
  <1>5. m \in Nat
    BY <1>1, <1>4 DEF min
  <1> HIDE DEF m
  <1>6. /\ DOMAIN rs = 1 .. m /\ Len(rs) = m
        /\ \A i \in 1 .. m : rs[i].opcode = "R2T" /\ rs[i].stamp = Stamp(Advanced, i - 1)
    BY <1>5 DEF R2Ts, iscsi_request_r2t_send, m
  <1>7. \A i \in 1 .. m :
          /\ rs[i].stamp # NoStamp
          /\ rs[i].stamp.stat_sn = connection.stat_sn + i - 1
    <2> SUFFICES ASSUME NEW i \in 1 .. m
                 PROVE  /\ rs[i].stamp # NoStamp
                        /\ rs[i].stamp.stat_sn = connection.stat_sn + i - 1
      OBVIOUS
    <2>1. Advanced.stat_sn = connection.stat_sn /\ connection.stat_sn \in Nat
      BY AdvancedCounts DEF Shape, Types
    <2>2. Advanced.stat_sn + (i - 1) \in Nat
      BY <1>5, <2>1
    <2>3. /\ Stamp(Advanced, i - 1) # NoStamp
          /\ Stamp(Advanced, i - 1).stat_sn = Advanced.stat_sn + (i - 1)
      BY <2>2, StampIsStamp
    <2> QED BY <1>5, <1>6, <2>1, <2>3
  <1> HIDE DEF rs
  <1>8. connection.stat_sn \in Nat
    BY DEF Types
  <1>9. Dense(connection.stat_sn, rs, connection.stat_sn + m)
    BY ONLY <1>5, <1>6, <1>7, <1>8, DenseAll
  <1> QED BY <1>5, <1>6, <1>9 DEF rs

\* A write with data to come.
LEMMA CommandNeedsDataResponds ==
  ASSUME Shape, Types, NEW p, IsPDU(p), CommandNeedsData(p)
  PROVE  Responds
  <1> DEFINE rs == R2Ts(p)
  <1>1. /\ Len(rs) \in Nat /\ DOMAIN rs = 1 .. Len(rs)
        /\ Dense(connection.stat_sn, rs, connection.stat_sn + Len(rs))
        /\ \A i \in DOMAIN rs : rs[i].opcode = "R2T"
    BY R2TsDense DEF CommandNeedsData, CommandArrives, Arrives
  <1> HIDE DEF rs
  <1>2. responses' = rs /\ connection'.stat_sn = connection.stat_sn + Len(rs)
    BY AdvancedCounts, AdvanceKeeps DEF CommandNeedsData, Answer, Finish, Shape, rs
  <1>3. DataInsTileTheRead' /\ AnnouncedInForce'
    BY <1>1, <1>2 DEF DataInsTileTheRead, AnnouncedInForce
  <1>4. connection.stat_sn \in Nat
    BY DEF Types
  <1> QED BY <1>1, <1>2, <1>3, <1>4 DEF Responds

\* The Data-Ins rs of a task tile the data, which they take from a set.
Tiles(rs, task, data) ==
  \A i \in 1 .. Len(rs) :
    /\ rs[i].opcode = "SCSI_DATA_IN" /\ rs[i].task = task
    /\ rs[i].stamp = Stamp(Advanced, i - 1)
    /\ rs[i].length <= MaxRecv
    /\ rs[i].offset = IF i = 1 THEN 0 ELSE rs[i - 1].offset + rs[i - 1].length
    /\ rs[i].final <=> i = Len(rs)
    /\ rs[i].data \subseteq data

BytesOf(buffer, length) == {buffer[o] : o \in 0 .. length - 1}

\* Those that the code builds do.
LEMMA DataInsTile ==
  ASSUME NEW p, NEW length \in Nat, NEW buffer, MaxRecv \in Nat \ {0}
  PROVE  LET rs == DataIns(p, length, buffer)
         IN /\ Len(rs) \in Nat /\ DOMAIN rs = 1 .. Len(rs)
            /\ Tiles(rs, p.task, BytesOf(buffer, length))
  <1> DEFINE rs == DataIns(p, length, buffer)
             b == MaxRecv
             n == max(1, divide_round_up(length, b))
             off(i) == (i - 1) * b
             len(i) == min(length - off(i), b)
  <1>1. n \in Nat \ {0} /\ length <= n * b /\ (length = 0 => n = 1)
        /\ (length # 0 => (n - 1) * b < length)
    <2>1. CASE length = 0
      <3>1. b \in Nat \ {0} /\ (0 + b - 1) \div b = 0
        OBVIOUS
      <3>2. n = 1
        BY <2>1, <3>1 DEF divide_round_up, max
      <3>3. 0 <= 1 * b
        BY <3>1
      <3> QED BY <2>1, <3>2, <3>3
    <2>2. CASE length # 0
      <3> DEFINE q == divide_round_up(length, b)
      <3>1. q \in Nat \ {0} /\ (q - 1) * b < length /\ length <= q * b
        BY <2>2, RoundUp
      <3> HIDE DEF q
      <3>2. n = q
        BY <3>1 DEF max, q
      <3> QED BY <2>2, <3>1, <3>2
    <2> QED BY <2>1, <2>2
  <1> HIDE DEF n
  <1>2. /\ DOMAIN rs = 1 .. n /\ Len(rs) = n
        /\ \A i \in 1 .. n :
             /\ rs[i].opcode = "SCSI_DATA_IN" /\ rs[i].task = p.task
             /\ rs[i].stamp = Stamp(Advanced, i - 1)
             /\ rs[i].offset = off(i) /\ rs[i].length = len(i)
             /\ rs[i].final <=> off(i) + len(i) = length
             /\ rs[i].data = {buffer[o] : o \in off(i) .. off(i) + len(i) - 1}
    <2> DEFINE r(i) ==
                 [opcode |-> "SCSI_DATA_IN", task |-> p.task, data_sn |-> i - 1,
                  offset |-> off(i), length |-> len(i),
                  final |-> off(i) + len(i) = length,
                  data |-> {buffer[o] : o \in off(i) .. off(i) + len(i) - 1},
                  stamp |-> Stamp(Advanced, i - 1)]
    <2>1. rs = [i \in 1 .. n |-> r(i)]
      BY DEF DataIns, n
    <2>2. \A i \in 1 .. n :
            /\ r(i).opcode = "SCSI_DATA_IN" /\ r(i).task = p.task
            /\ r(i).stamp = Stamp(Advanced, i - 1)
            /\ r(i).offset = off(i) /\ r(i).length = len(i)
            /\ r(i).data = {buffer[o] : o \in off(i) .. off(i) + len(i) - 1}
      OBVIOUS
    <2>3. \A i \in 1 .. n : r(i).final <=> off(i) + len(i) = length
      BY Zenon
    <2> HIDE DEF r, rs
    <2> QED BY <1>1, <2>1, <2>2, <2>3
  <1> HIDE DEF rs
  <1>3. ASSUME NEW i \in 1 .. n
        PROVE  /\ off(i) \in Nat /\ off(i) <= length /\ i * b = off(i) + b
               /\ len(i) \in Nat /\ len(i) <= b /\ off(i) + len(i) <= length
               /\ i < n => len(i) = b /\ off(i) + b < length
               /\ i = n => off(i) + len(i) = length
    <2>1. /\ off(i) \in Nat /\ off(i) <= (n - 1) * b /\ i * b = off(i) + b
          /\ i < n => i * b <= (n - 1) * b
      BY <1>1, FullPieces
    <2>2. n = 1 => (n - 1) * b = 0
      OBVIOUS
    <2> DEFINE last_off == (n - 1) * b
    <2>3. off(i) <= length /\ (i < n => off(i) + b < length)
          /\ (i = n => length <= off(i) + b)
      <3>1. last_off = (n - 1) * b /\ n * b = last_off + b
        BY <1>1
      <3>2. i = n => off(i) = last_off
        OBVIOUS
      <3> DEFINE x == off(i)
                 y == i * b
                 z == n * b
      <3> HIDE DEF last_off
      <3>3. /\ x \in Nat /\ x <= last_off /\ y = x + b /\ (i < n => y <= last_off)
            /\ (i = n => x = last_off) /\ z = last_off + b /\ length <= z
            /\ (length = 0 => n = 1) /\ (n = 1 => last_off = 0)
            /\ (length # 0 => last_off < length) /\ last_off \in Int /\ b \in Nat
        BY <1>1, <2>1, <2>2, <3>1, <3>2
      <3> HIDE DEF x, y, z
      <3>4. x <= length /\ (i < n => x + b < length) /\ (i = n => length <= x + b)
        BY ONLY <3>3, <1>1, i \in 1 .. n, length \in Nat
      <3> QED BY <3>4 DEF x
    <2> DEFINE x == off(i)
    <2> HIDE DEF x
    <2>4. /\ x \in Nat /\ x <= length /\ (i < n => x + b < length)
          /\ (i = n => length <= x + b) /\ b \in Nat /\ len(i) = min(length - x, b)
      BY <2>1, <2>3 DEF x
    <2>5. /\ min(length - x, b) \in Nat /\ min(length - x, b) <= b
          /\ x + min(length - x, b) <= length
          /\ i < n => min(length - x, b) = b
          /\ i = n => x + min(length - x, b) = length
      BY ONLY <2>4, length \in Nat DEF min
    <2> QED BY <2>1, <2>3, <2>4, <2>5 DEF x
  <1> HIDE DEF len, off
  <1>4. ASSUME NEW i \in 1 .. n
        PROVE  /\ rs[i].length <= b /\ (rs[i].final <=> i = n)
               /\ rs[i].data \subseteq {buffer[o] : o \in 0 .. length - 1}
    <2>1. rs[i].length <= b
      BY <1>2, <1>3
    <2>2. off(i) + len(i) = length <=> i = n
      <3>1. i < n \/ i = n
        BY <1>1
      <3> QED BY <1>3, <3>1
    <2>3. off(i) .. off(i) + len(i) - 1 \subseteq 0 .. length - 1
      BY <1>3
    <2>4. {buffer[o] : o \in off(i) .. off(i) + len(i) - 1}
            \subseteq {buffer[o] : o \in 0 .. length - 1}
      BY ONLY <2>3
    <2>5. /\ rs[i].data = {buffer[o] : o \in off(i) .. off(i) + len(i) - 1}
          /\ rs[i].final <=> off(i) + len(i) = length
      BY <1>2
    <2> QED BY ONLY <2>1, <2>2, <2>4, <2>5
  <1>5. ASSUME NEW i \in 1 .. n
        PROVE  rs[i].offset = IF i = 1 THEN 0 ELSE rs[i - 1].offset + rs[i - 1].length
    <2>1. CASE i = 1
      <3>1. off(1) = 0
        BY DEF off
      <3> QED BY <1>2, <2>1, <3>1
    <2>2. CASE i # 1
      <3>1. i - 1 \in 1 .. n /\ i - 1 < n
        BY <1>1, <2>2
      <3>2. len(i - 1) = b /\ (i - 1) * b = off(i - 1) + b
        BY <1>3, <3>1
      <3>3. off(i) = (i - 1) * b
        BY DEF off
      <3> QED BY <1>2, <2>2, <3>1, <3>2, <3>3
    <2> QED BY <2>1, <2>2
  <1>6. Tiles(rs, p.task, BytesOf(buffer, length))
    BY <1>1, <1>2, <1>4, <1>5 DEF Tiles, BytesOf
  <1> QED BY <1>1, <1>2, <1>6 DEF rs

\* A read: its Data-Ins carry stamps of their own and, if the device succeeded, the
\* data it left in the buffer.
LEMMA CommandReadsResponds ==
  ASSUME Shape, Types, NEW p, IsPDU(p), CommandReads(p)
  PROVE  Responds
  <1>1. PICK outcome \in DeviceOutcomes(Cdb(p)) :
          /\ iscsi_target_execute_scsi_command(Cdb(p), outcome, target.buffer)
          /\ LET rs == DataIns(p, DataInLength(p, outcome),
                               BufferAfter(Cdb(p), outcome, target.buffer))
             IN responses' = rs /\ connection' = Advance(Advanced, Len(rs))
    BY DEF CommandReads, Answer, Finish
  <1> DEFINE buffer == BufferAfter(Cdb(p), outcome, target.buffer)
             length == DataInLength(p, outcome)
             rs == DataIns(p, length, buffer)
  <1>2. MaxRecv \in Nat \ {0}
    BY DEF CommandReads, Types, IsParameter, IsValue, MaxRecv, Keys, NumberKeys, MinKeys
  <1>3. /\ p.kind = "read" /\ p.edtl \in 0 .. MemorySize /\ MemorySize \in Nat
        /\ UNCHANGED parameter
    BY MemoryAssumption DEF CommandReads, CommandArrives, Arrives, IsPDU
  <1>4. outcome.available \in Nat /\ outcome.available <= MemorySize
    BY <1>3 DEF DeviceOutcomes, Cdb
  <1>5. length \in Nat /\ length <= MemorySize /\ length <= outcome.available
    BY <1>3, <1>4 DEF DataInLength, min
  <1> HIDE DEF length
  <1>6. target'.scsi_response = 0 =>
          \A o \in 0 .. length - 1 : buffer[o] = p.task
    <2> SUFFICES ASSUME target'.scsi_response = 0, NEW o \in 0 .. length - 1
                 PROVE  buffer[o] = p.task
      OBVIOUS
    <2>1. target'.scsi_response = IF outcome.ok THEN 0 ELSE 1
      BY <1>1 DEF iscsi_target_execute_scsi_command, Shape, IsTarget
    <2>2. outcome.ok
      BY <2>1
    <2>3. o \in Offsets /\ o < outcome.available
      BY <1>3, <1>4, <1>5 DEF Offsets
    <2> QED BY <1>3, <2>2, <2>3 DEF BufferAfter, Cdb
  <1> HIDE DEF buffer
  <1> DEFINE data == BytesOf(buffer, length)
  <1>7. Len(rs) \in Nat /\ DOMAIN rs = 1 .. Len(rs) /\ Tiles(rs, p.task, data)
    BY <1>2, <1>5, DataInsTile
  <1>14. target'.scsi_response = 0 => data \subseteq {p.task}
    BY <1>6 DEF BytesOf
  <1>8. responses' = rs /\ connection' = Advance(Advanced, Len(rs))
    BY <1>1 DEF buffer, length
  <1> HIDE DEF rs, data
  <1>9. Advanced.stat_sn = connection.stat_sn /\ connection.stat_sn \in Nat
        /\ connection'.stat_sn = connection.stat_sn + Len(rs)
    BY <1>8, AdvancedCounts, AdvanceKeeps DEF Shape, Types
  <1>10. \A i \in 1 .. Len(rs) :
           /\ rs[i].stamp # NoStamp
           /\ rs[i].stamp.stat_sn = connection.stat_sn + i - 1
    <2> SUFFICES ASSUME NEW i \in 1 .. Len(rs)
                 PROVE  /\ rs[i].stamp # NoStamp
                        /\ rs[i].stamp.stat_sn = connection.stat_sn + i - 1
      OBVIOUS
    <2>1. Advanced.stat_sn + (i - 1) \in Nat
      BY <1>7, <1>9
    <2>2. /\ Stamp(Advanced, i - 1) # NoStamp
          /\ Stamp(Advanced, i - 1).stat_sn = Advanced.stat_sn + (i - 1)
      BY <2>1, StampIsStamp
    <2>3. rs[i].stamp = Stamp(Advanced, i - 1)
      BY <1>7 DEF Tiles
    <2> QED BY <1>7, <1>9, <2>2, <2>3
  <1>11. Dense(connection.stat_sn, rs, connection.stat_sn + Len(rs))
    BY ONLY <1>7, <1>9, <1>10, DenseAll
  <1>12. DataInsTileTheRead'
    <2>1. MaxRecv' = MaxRecv
      BY <1>3 DEF MaxRecv
    <2>2. \A i \in 1 .. Len(rs) :
            target'.scsi_response = 0 => rs[i].data \subseteq {p.task}
      BY <1>14, <1>7 DEF Tiles
    <2> QED BY <1>7, <1>8, <2>1, <2>2 DEF DataInsTileTheRead, Tiles
  <1>13. AnnouncedInForce'
    BY <1>7, <1>8 DEF AnnouncedInForce, Tiles
  <1>15. connection'.stat_sn \in Nat
    BY ONLY <1>7, <1>9
  <1> QED BY <1>8, <1>9, <1>11, <1>12, <1>13, <1>15 DEF Responds

\* A SCSI command.
LEMMA CommandResponds ==
  ASSUME Shape, Types, NEW p, IsPDU(p), iscsi_request_cmd_process(p)
  PROVE  Responds
  <1>1. CASE CommandWithoutR2T(p)
    <2>1. PICK outcome \in DeviceOutcomes(Cdb(p)) :
            responses' = CommandResponse(Advanced, p.task, outcome)
      BY <1>1 DEF CommandWithoutR2T, Answer, Finish
    <2>2. Advanced.stat_sn = connection.stat_sn
          /\ connection'.stat_sn = connection.stat_sn + 1
      BY <1>1, AdvancedCounts, AdvanceKeeps DEF Shape, CommandWithoutR2T
    <2> QED BY <2>1, <2>2, CommandResponseResponds
  <1>2. CASE CommandExits(p)
    BY <1>2, SilentResponds DEF CommandExits, Finish, Types
  <1> QED
    BY <1>1, <1>2, CommandNeedsDataResponds, CommandReadsResponds
    DEF iscsi_request_cmd_process

\* A Data-Out.
LEMMA DataOutResponds ==
  ASSUME Shape, Types, NEW p, iscsi_request_data_out_process(p)
  PROVE  Responds
  <1>1. CASE DataOutDropped(p)
    BY <1>1, SilentResponds DEF DataOutDropped, Answer, Finish, Types
  <1>2. CASE DataOutExecutes(p)
    <2>1. PICK outcome \in DeviceOutcomes(entry.cdb) :
            responses' = CommandResponse(connection, p.task, outcome)
      BY <1>2 DEF DataOutExecutes, Answer, Finish
    <2>2. connection'.stat_sn = connection.stat_sn + 1
      BY <1>2, AdvanceKeeps DEF Shape, DataOutExecutes
    <2> QED BY <2>1, <2>2, CommandResponseResponds
  <1>3. CASE DataOutStored(p)
    <2>1. ~(p.final /\ MoreR2T)
      BY DEF MoreR2T, Types
    <2>2. responses' = <<>> /\ connection' = Advance(connection, 0)
      BY <1>3, <2>1 DEF DataOutStored, Answer, Finish
    <2>3. connection'.stat_sn = connection.stat_sn
      BY <2>2, AdvanceKeeps DEF Shape, Types
    <2> QED BY <2>2, <2>3, SilentResponds DEF Types
  <1> QED BY <1>1, <1>2, <1>3 DEF iscsi_request_data_out_process

\* A Text request.
LEMMA TextResponds ==
  ASSUME Types, NEW p, iscsi_request_text_process(p)
  PROVE  Responds
  <1>1. CASE responses' = <<>>
    BY <1>1, SilentResponds DEF iscsi_request_text_process, Types
  <1>2. CASE responses' = <<Response("TEXT_RES", NoStamp)>>
    <2> DEFINE r == Response("TEXT_RES", NoStamp)
    <2>1. r.opcode = "TEXT_RES" /\ r.stamp = NoStamp
      BY DEF Response
    <2>2. responses' = <<r>> /\ connection'.stat_sn = connection.stat_sn
      BY <1>2 DEF iscsi_request_text_process
    <2> HIDE DEF r
    <2>3. InForce(r, parameter')
      BY <2>1 DEF InForce
    <2> QED BY <2>1, <2>2, <2>3, OneResponds DEF Types
  <1> QED BY <1>1, <1>2 DEF iscsi_request_text_process, Answer, Finish

\* A PDU of full feature phase, or one that is ignored.
LEMMA FullFeaturePhaseResponds ==
  ASSUME Shape, Types, NEW p, IsPDU(p), Ignore(p) \/ FullFeaturePhase(p)
  PROVE  Responds
  <1>1. CASE Ignore(p)
    BY <1>1, SilentResponds DEF Ignore, stateVars, Finish, Types
  <1>2. CASE \/ iscsi_request_logout_process(p) \/ iscsi_request_nop_out_process(p)
             \/ iscsi_request_reject(p)
    BY <1>2, RespondOnceResponds
    DEF iscsi_request_logout_process, iscsi_request_nop_out_process,
        iscsi_request_reject
  <1> QED
    BY <1>1, <1>2, TextResponds, CommandResponds, DataOutResponds
    DEF FullFeaturePhase

\* A Login response that is not stamped, or takes the next StatSN.
LEMMA LoginResponds ==
  ASSUME Shape, Types, NEW status, NEW transit, NEW nsg, NEW stamp, NEW text,
         LET r == LoginResponse(status, transit, nsg, stamp, text)
         IN responses' = <<r>> /\ InForce(r, parameter'),
         \/ stamp = NoStamp /\ connection'.stat_sn = connection.stat_sn
         \/ stamp = Stamp(connection, 0) /\ connection'.stat_sn = connection.stat_sn + 1
  PROVE  Responds
  <1> DEFINE r == LoginResponse(status, transit, nsg, stamp, text)
  <1>1. r.opcode = "LOGIN_RES" /\ r.stamp = stamp
    BY DEF LoginResponse
  <1>2. /\ Stamp(connection, 0) # NoStamp
        /\ Stamp(connection, 0).stat_sn = connection.stat_sn
    BY StampIsStamp DEF Types
  <1>3. responses' = <<r>> /\ InForce(r, parameter')
    OBVIOUS
  <1> HIDE DEF r
  <1> QED BY <1>1, <1>2, <1>3, OneResponds DEF Types

\* A Login response without a text.
LEMMA NoText ==
  ASSUME NEW status, NEW transit, NEW nsg, NEW stamp, NEW par
  PROVE  InForce(LoginResponse(status, transit, nsg, stamp, <<>>), par)
  BY DEF InForce, LoginResponse

\* The answer to a login that ends a stage, by the stage.
FinalLogin(p, attached) ==
  LET created == iscsi_connection_parameter_create(p.text)
  IN /\ p.csg \in {0, 1, 2, 3}
     /\ p.csg = 0 =>
          /\ connection' = Advance(attached, 1)
          /\ responses' = <<LoginResponse(FinalStatus(p), TRUE, p.nsg,
                                          Stamp(connection, 0), SecurityText)>>
     /\ p.csg = 1 =>
          /\ parameter' =
               iscsi_connection_parameter_generate_operational_data(created)
          /\ connection' = Advance(attached, 1)
          /\ responses' = <<LoginResponse(FinalStatus(p), TRUE, p.nsg,
                              Stamp(connection, 0), OperationalText(created))>>
     /\ p.csg = 2 => connection' = attached /\ responses' = <<>>
     /\ p.csg = 3 =>
          /\ connection' = attached
          /\ responses' = <<LoginResponse("INITIATOR_ERROR", p.transit, p.nsg,
                                          NoStamp, <<>>)>>

\* The four stages answer so.
LEMMA FinalLoginAnswers ==
  ASSUME NEW p, response_final_login(p)
  PROVE  FinalLogin(p, [connection EXCEPT !.session_reference = TRUE])
  <1>1. ASSUME NEW rs, Answer(p, rs) PROVE responses' = rs
    BY <1>1 DEF Answer, Finish
  <1>2. Terminate(p) => responses' = <<>>
    BY DEF Terminate, Finish
  <1>3. CASE p.csg = 0
    <2>1. /\ connection' = Advance([connection EXCEPT !.session_reference = TRUE], 1)
          /\ Answer(p, <<LoginResponse(FinalStatus(p), TRUE, p.nsg,
                                       Stamp(connection, 0), SecurityText)>>)
      BY <1>3 DEF response_final_login
    <2>2. responses' = <<LoginResponse(FinalStatus(p), TRUE, p.nsg,
                                       Stamp(connection, 0), SecurityText)>>
      BY <1>1, <2>1
    <2> QED BY ONLY <1>3, <2>1, <2>2 DEF FinalLogin
  <1>4. CASE p.csg = 1
    <2> DEFINE created == iscsi_connection_parameter_create(p.text)
    <2>1. /\ connection' = Advance([connection EXCEPT !.session_reference = TRUE], 1)
          /\ parameter' =
               iscsi_connection_parameter_generate_operational_data(created)
          /\ Answer(p, <<LoginResponse(FinalStatus(p), TRUE, p.nsg,
                           Stamp(connection, 0), OperationalText(created))>>)
      BY <1>4 DEF response_final_login
    <2>2. responses' = <<LoginResponse(FinalStatus(p), TRUE, p.nsg,
                           Stamp(connection, 0), OperationalText(created))>>
      BY <1>1, <2>1
    <2> QED BY ONLY <1>4, <2>1, <2>2 DEF FinalLogin
  <1>5. CASE p.csg = 2
    BY <1>2, <1>5 DEF response_final_login, FinalLogin
  <1>6. CASE p.csg = 3
    <2>1. Answer(p, <<LoginResponse("INITIATOR_ERROR", p.transit, p.nsg,
                                    NoStamp, <<>>)>>)
      BY <1>6 DEF response_final_login
    <2> QED BY <1>1, <1>6, <2>1 DEF response_final_login, FinalLogin
  <1> QED BY <1>3, <1>4, <1>5, <1>6 DEF response_final_login

\* The login that ends a stage: the operational values of its answer are in force.
LEMMA FinalLoginResponds ==
  ASSUME Shape, Types, NEW p, p.opcode = "LOGIN" => IsText(p.text),
         response_final_login(p)
  PROVE  Responds
  <1> DEFINE attached == [connection EXCEPT !.session_reference = TRUE]
             created == iscsi_connection_parameter_create(p.text)
  <1>1. IsConnection(attached) /\ attached.stat_sn = connection.stat_sn
    <2>1. IsConnection(connection)
      BY DEF Shape
    <2> QED BY ONLY <2>1, AttachingKeeps
  <1>0. FinalLogin(p, attached)
    BY FinalLoginAnswers
  <1> HIDE DEF attached
  <1>2. Advance(attached, 1).stat_sn = connection.stat_sn + 1
    BY <1>1, AdvanceKeeps
  <1>3. CASE p.csg = 0
    <2> DEFINE r == LoginResponse(FinalStatus(p), TRUE, p.nsg, Stamp(connection, 0),
                                  SecurityText)
    <2>1. responses' = <<r>> /\ connection' = Advance(attached, 1)
      BY <1>0, <1>3 DEF FinalLogin
    <2>2. r.text = <<<<"AuthMethod", "None">>>>
      BY DEF LoginResponse, SecurityText
    <2> HIDE DEF r
    <2>3. InForce(r, parameter')
      BY <2>2 DEF InForce, Keys, MinKeys, MaxKeys, BoolKeys
    <2>4. connection'.stat_sn = connection.stat_sn + 1
      BY <1>2, <2>1
    <2> QED BY <2>1, <2>3, <2>4, LoginResponds DEF r
  <1>4. CASE p.csg = 1
    <2> DEFINE r == LoginResponse(FinalStatus(p), TRUE, p.nsg, Stamp(connection, 0),
                                  OperationalText(created))
    <2>1. /\ responses' = <<r>> /\ connection' = Advance(attached, 1)
          /\ parameter' =
               iscsi_connection_parameter_generate_operational_data(created)
      BY <1>0, <1>4 DEF FinalLogin
    <2>2. r.text = OperationalText(created)
      BY DEF LoginResponse
    <2>3. IsText(p.text)
      BY DEF response_final_login, LoginArrives
    <2>4. \A i \in DOMAIN OperationalText(created) :
            Means(OperationalText(created)[i][1], OperationalText(created)[i][2],
                  parameter'[OperationalText(created)[i][1]])
      BY <2>1, <2>3, AnswerInForce
    <2> HIDE DEF r
    <2>5. InForce(r, parameter')
      BY <2>2, <2>4 DEF InForce
    <2>6. connection'.stat_sn = connection.stat_sn + 1
      BY <1>2, <2>1
    <2> QED BY <2>1, <2>5, <2>6, LoginResponds DEF r
  <1>5. CASE p.csg = 3
    <2> DEFINE r == LoginResponse("INITIATOR_ERROR", p.transit, p.nsg, NoStamp, <<>>)
    <2>1. responses' = <<r>> /\ connection' = attached
      BY <1>0, <1>5 DEF FinalLogin
    <2>2. InForce(r, parameter')
      BY NoText
    <2> QED BY <1>1, <2>1, <2>2, LoginResponds
  <1>6. CASE p.csg = 2
    <2>1. responses' = <<>> /\ connection' = attached
      BY <1>0, <1>6 DEF FinalLogin
    <2> QED BY <1>1, <2>1, SilentResponds DEF Types
  <1> QED BY <1>0, <1>3, <1>4, <1>5, <1>6 DEF FinalLogin

\* A PDU before full feature phase.
LEMMA LoginPhaseResponds ==
  ASSUME Shape, Types, NEW p, IsPDU(p), LoginPhase(p)
  PROVE  Responds
  <1>1. CASE NotLoggedIn(p) \/ LoginExits(p)
    BY <1>1, SilentResponds
    DEF NotLoggedIn, LoginExits, Terminate, Exit, Finish, stateVars, Types
  <1>2. CASE iscsi_request_login_reject(p)
    <2> DEFINE r == LoginResponse("SUCCESS", FALSE, 0, NoStamp, <<>>)
    <2>1. responses' = <<r>> /\ UNCHANGED connection
      BY <1>2 DEF iscsi_request_login_reject, Answer, Finish
    <2>2. InForce(r, parameter')
      BY NoText
    <2> QED BY <2>1, <2>2, LoginResponds
  <1>3. CASE response_partial_login(p)
    <2> DEFINE status == IF p.transit THEN "INITIATOR_ERROR" ELSE "SUCCESS"
               r == LoginResponse(status, FALSE, p.nsg, Stamp(connection, 0), <<>>)
    <2>1. responses' = <<r>> /\ connection' = Advance(connection, 1)
      BY <1>3 DEF response_partial_login, Answer, Finish
    <2>2. connection'.stat_sn = connection.stat_sn + 1
      BY <2>1, AdvanceKeeps DEF Shape
    <2> HIDE DEF status
    <2>3. InForce(r, parameter')
      BY NoText
    <2> QED BY <2>1, <2>2, <2>3, LoginResponds
  <1>4. CASE LoginSetupFails(p)
    <2> DEFINE r == LoginResponse(SetupStatus(p), p.transit, p.nsg, NoStamp, <<>>)
    <2>1. /\ responses' = <<r>>
          /\ connection' = [connection EXCEPT !.session_reference = CreatesSession(p)]
      BY <1>4 DEF LoginSetupFails, Answer, Finish
    <2>2. connection'.stat_sn = connection.stat_sn
      BY <2>1, AttachingKeeps DEF Shape
    <2>3. InForce(r, parameter')
      BY NoText
    <2> QED BY <2>1, <2>2, <2>3, LoginResponds
  <1>5. CASE response_final_login(p)
    BY <1>5, FinalLoginResponds DEF IsPDU
  <1> QED BY <1>1, <1>2, <1>3, <1>4, <1>5 DEF LoginPhase

-------------------------------------------------------------------------------
(***************************************************************************)
(* Types is inductive.                                                     *)
(***************************************************************************)
\* A new process.
LEMMA InitTypes == Init => Types /\ DataInsTileTheRead /\ AnnouncedInForce
  <1> SUFFICES ASSUME Init PROVE Types /\ DataInsTileTheRead /\ AnnouncedInForce
    OBVIOUS
  <1>1. IsParameter(parameter)
    BY DefaultType DEF Init
  <1>2. Types
    BY <1>1, MemoryAssumption
    DEF Init, iscsi_connection_create, Types, OpensBounded
  <1>3. DataInsTileTheRead /\ AnnouncedInForce
    BY DEF Init, DataInsTileTheRead, AnnouncedInForce
  <1> QED BY <1>2, <1>3

\* The device is opened when a session is attached to a connection, once.
LEMMA OpensKeep ==
  ASSUME IInv, OpensBounded, NEW p, FullFeatureStep \/ SetUpStep(p)
  PROVE  OpensBounded'
  <1>1. CASE FullFeatureStep
    BY <1>1 DEF OpensBounded, FullFeatureStep
  <1>2. CASE SetUpStep(p)
    BY <1>2 DEF IInv, Typed, OpensBounded, SetUpStep, CreatesSession
  <1> QED BY <1>1, <1>2

\* The buffer and the transfer entry keep their sizes.
Memory ==
  /\ DOMAIN entry.data = Offsets /\ DOMAIN target.buffer = Offsets
  /\ entry.total_length \in 0 .. MemorySize
  /\ entry.r2t_sn = 0 /\ entry.total_r2t_sn = 0
  /\ target.scsi_response \in {0, 1}

\* Executing a command on a buffer of the size of the memory leaves one.
LEMMA ExecuteMemory ==
  ASSUME IsTarget(target), NEW cdb, NEW outcome, NEW buffer, DOMAIN buffer = Offsets,
         iscsi_target_execute_scsi_command(cdb, outcome, buffer)
  PROVE  DOMAIN target'.buffer = Offsets /\ target'.scsi_response \in {0, 1}
  <1> DEFINE after == BufferAfter(cdb, outcome, buffer)
             response == IF outcome.ok THEN 0 ELSE 1
  <1>1. DOMAIN after = Offsets
    BY DEF BufferAfter
  <1>2. response \in {0, 1}
    OBVIOUS
  <1>3. target' = [target EXCEPT !.buffer = after, !.scsi_response = response]
    BY DEF iscsi_target_execute_scsi_command
  <1> HIDE DEF after, response
  <1> QED BY <1>1, <1>2, <1>3 DEF IsTarget

\* A request of full feature phase.
LEMMA FullFeaturePhaseMemory ==
  ASSUME Shape, Types, NEW p, IsPDU(p), Ignore(p) \/ FullFeaturePhase(p)
  PROVE  Memory' /\ UNCHANGED parameter
  <1>1. CASE UNCHANGED <<parameter, entry, target>>
    BY <1>1 DEF Types, Memory
  <1>2. CASE CommandNeedsData(p)
    <2>1. p.edtl \in 0 .. MemorySize
      BY <1>2 DEF CommandNeedsData, CommandArrives, Arrives, IsPDU
    <2>2. /\ entry' = [entry EXCEPT !.cdb = Cdb(p), !.total_length = p.edtl,
                                    !.transfer_tag = Tag]
          /\ UNCHANGED <<parameter, target>>
      BY <1>2 DEF CommandNeedsData, iscsi_transfer_entry_create
    <2> QED BY <2>1, <2>2 DEF Shape, IsEntry, Types, Memory
  <1>3. CASE CommandReads(p) \/ CommandWithoutR2T(p)
    <2>1. /\ DOMAIN target'.buffer = Offsets /\ target'.scsi_response \in {0, 1}
          /\ UNCHANGED <<parameter, entry>>
      BY <1>3, ExecuteMemory DEF CommandReads, CommandWithoutR2T, Shape, Types
    <2> QED BY <2>1 DEF Types, Memory
  <1>4. CASE CommandExits(p)
    <2>1. /\ DOMAIN target'.buffer = Offsets /\ target'.scsi_response \in {0, 1}
          /\ UNCHANGED <<parameter, entry>>
      BY <1>4, ExecuteMemory DEF CommandExits, Shape, Types
    <2> QED BY <2>1 DEF Types, Memory
  <1>5. CASE DataOutExecutes(p)
    <2> DEFINE data == Stored(p)
    <2>1. /\ DOMAIN data = Offsets /\ DOMAIN BufferFromEntry(data) = Offsets
          /\ entry' = [entry EXCEPT !.data = data] /\ UNCHANGED parameter
      BY <1>5 DEF DataOutExecutes, Stored, BufferFromEntry
    <2>2. DOMAIN target'.buffer = Offsets /\ target'.scsi_response \in {0, 1}
      BY <1>5, <2>1, ExecuteMemory DEF DataOutExecutes, Shape
    <2> HIDE DEF data
    <2> QED BY <2>1, <2>2 DEF Shape, IsEntry, Types, Memory
  <1>6. CASE DataOutStored(p)
    <2> DEFINE data == Stored(p)
    <2>1. ~(p.final /\ MoreR2T)
      BY DEF MoreR2T, Types
    <2>2. /\ DOMAIN data = Offsets /\ UNCHANGED <<parameter, target>>
          /\ entry' = [entry EXCEPT !.data = data, !.r2t_sn = entry.r2t_sn]
      BY <1>6, <2>1 DEF DataOutStored, Stored
    <2> HIDE DEF data
    <2> QED BY <2>2 DEF Shape, IsEntry, Types, Memory
  <1> QED
    BY <1>1, <1>2, <1>3, <1>4, <1>5, <1>6
    DEF Ignore, stateVars, FullFeaturePhase, iscsi_request_logout_process,
        iscsi_request_text_process, iscsi_request_nop_out_process,
        iscsi_request_reject, RespondOnce, iscsi_request_cmd_process,
        iscsi_request_data_out_process, DataOutDropped

\* A PDU before full feature phase.
LEMMA LoginPhaseMemory ==
  ASSUME IInv, Types, NEW p, IsPDU(p), LoginPhase(p)
  PROVE  Memory' /\ IsParameter(parameter')
  <1>1. UNCHANGED entry
    BY DEF LoginPhase, NotLoggedIn, iscsi_request_login_reject,
           response_partial_login, LoginExits, Exit, LoginSetupFails,
           response_final_login, stateVars
  <1>2. target' = target \/ target' = OpenedTarget(p)
    BY DEF LoginPhase, NotLoggedIn, iscsi_request_login_reject,
           response_partial_login, LoginExits, Exit, LoginSetupFails,
           response_final_login, stateVars
  <1>3. Memory'
    BY <1>1, <1>2, SetUpTarget DEF IInv, Shape, Types, Memory
  <1> DEFINE created == iscsi_connection_parameter_create(p.text)
             generated == iscsi_connection_parameter_generate_operational_data(created)
  <1>4. \/ parameter' = parameter
        \/ p.opcode = "LOGIN" /\ parameter' \in {created, generated}
    BY DEF LoginPhase, NotLoggedIn, iscsi_request_login_reject,
           response_partial_login, LoginExits, Exit, LoginSetupFails,
           response_final_login, stateVars, LoginArrives
  <1>5. p.opcode = "LOGIN" => IsParameter(created) /\ IsParameter(generated)
    BY CreateType, AnswerInForce DEF IsPDU
  <1> HIDE DEF created, generated
  <1>6. IsParameter(parameter')
    BY <1>4, <1>5 DEF Types
  <1> QED BY <1>3, <1>6

\* Every process ends in one of three ways.
LEMMA ProcessType ==
  ASSUME Types, NEW p, iscsi_server_process(p)
  PROVE  process' \in {"running", "terminated", "exited"}
  BY DEF Types, iscsi_server_process, Ignore, LoginPhase, NotLoggedIn,
         iscsi_request_login_reject, response_partial_login, LoginExits, Exit,
         LoginSetupFails, response_final_login, Terminate, Answer, FullFeaturePhase,
         iscsi_request_logout_process, iscsi_request_text_process,
         iscsi_request_nop_out_process, iscsi_request_reject, RespondOnce,
         iscsi_request_cmd_process, CommandNeedsData, CommandReads,
         CommandWithoutR2T, CommandExits, iscsi_request_data_out_process,
         DataOutDropped, DataOutExecutes, DataOutStored

\* A PDU keeps the types, and what the handlers send is right.
LEMMA ProcessResponds ==
  ASSUME IInv, Types, NEW p, IsPDU(p), iscsi_server_process(p)
  PROVE  Types' /\ Responds
  <1>1. IsPDU(p) /\ Shape /\ iscsi_server_process(p)
    BY DEF IInv
  <1>2. process' \in {"running", "terminated", "exited"}
    BY <1>1, ProcessType
  <1>3. CASE Ignore(p) \/ FullFeaturePhase(p)
    <2>1. Responds
      BY <1>1, <1>3, FullFeaturePhaseResponds
    <2>2. Memory' /\ UNCHANGED parameter
      BY <1>1, <1>3, FullFeaturePhaseMemory
    <2>3. OpensBounded'
      BY <1>1, <1>3, FullFeaturePhaseSteps, OpensKeep DEF Types
    <2>4. IsParameter(parameter')
      BY <2>2 DEF Types
    <2> QED BY <1>2, <2>1, <2>2, <2>3, <2>4 DEF Types, Memory, Responds
  <1>4. CASE LoginPhase(p)
    <2>1. Responds
      BY <1>1, <1>4, LoginPhaseResponds
    <2>2. Memory' /\ IsParameter(parameter')
      BY <1>1, <1>4, LoginPhaseMemory
    <2>3. OpensBounded'
      BY <1>4, LoginPhaseSteps, OpensKeep DEF Types
    <2> QED BY <1>2, <2>1, <2>2, <2>3 DEF Types, Memory, Responds
  <1> QED BY <1>1, <1>3, <1>4 DEF iscsi_server_process

\* The next connection starts with the defaults and has sent nothing.
LEMMA NextConnectionResponds ==
  ASSUME IInv, Types, NextConnection
  PROVE  Types' /\ DataInsTileTheRead' /\ AnnouncedInForce'
  <1>1. IsParameter(parameter')
    BY DefaultType DEF NextConnection
  <1>2. OpensBounded'
    BY DEF IInv, Typed, Types, OpensBounded, NextConnection, iscsi_connection_create
  <1>3. Types'
    BY <1>1, <1>2 DEF Types, NextConnection, iscsi_connection_create
  <1>4. DataInsTileTheRead' /\ AnnouncedInForce'
    BY DEF NextConnection, DataInsTileTheRead, AnnouncedInForce
  <1> QED BY <1>3, <1>4

\* The invariant of what is sent.
SentInv == IInv /\ Types /\ DataInsTileTheRead /\ AnnouncedInForce

\* Whatever PDU arrives, processing it keeps it.
LEMMA ProcessKeepsSent ==
  ASSUME SentInv, NEW p, IsPDU(p), iscsi_server_process(p)
  PROVE  SentInv'
  <1>1. IInv'
    BY ProcessKeeps DEF SentInv
  <1>2. Types' /\ Responds
    BY ProcessResponds DEF SentInv
  <1> QED BY <1>1, <1>2 DEF SentInv, Responds

\* Every step keeps it.
LEMMA SentKeeps == SentInv /\ [Next]_vars => SentInv'
  <1> SUFFICES ASSUME SentInv, [Next]_vars PROVE SentInv'
    OBVIOUS
  <1>1. IInv'
    BY NextKeeps DEF SentInv
  <1>2. CASE UNCHANGED vars
    <2>1. Types' /\ DataInsTileTheRead' /\ AnnouncedInForce'
      BY <1>2
      DEF SentInv, vars, stateVars, Types, OpensBounded, DataInsTileTheRead,
          MaxRecv, AnnouncedInForce
    <2> QED BY <1>1, <2>1 DEF SentInv
  <1>3. ASSUME NEW p \in Requests, RequestArrives(p) PROVE SentInv'
    <2>1. IsPDU(p) /\ iscsi_server_process(p)
      BY <1>3, RequestsAssumption DEF RequestArrives
    <2> QED BY <2>1, ProcessKeepsSent
  <1>4. CASE NextConnection
    <2>1. Types' /\ DataInsTileTheRead' /\ AnnouncedInForce'
      BY <1>4, NextConnectionResponds DEF SentInv
    <2> QED BY <1>1, <2>1 DEF SentInv
  <1> QED BY <1>2, <1>3, <1>4 DEF Next

\* SentInv is an invariant.
THEOREM SentInvariance == Spec => []SentInv
  <1>1. Init => SentInv
    BY InitEstablishes, InitTypes DEF SentInv
  <1> QED BY <1>1, SentKeeps, PTL DEF Spec

\* Every variable stays in its type, the device is opened at most once for a
\* connection and the transfer entry never counts an R2T.
THEOREM TypeCorrect == Spec => []TypeOK
  <1>1. SentInv => TypeOK
    BY DEF SentInv, IInv, Typed, Types, OpensBounded, IsParameter, TypeOK
  <1> QED BY <1>1, SentInvariance, PTL

\* The Data-Ins of a read tile its data, and carry no data of another task.
THEOREM ReadsTiled == Spec => []DataInsTileTheRead
  <1>1. SentInv => DataInsTileTheRead
    BY DEF SentInv
  <1> QED BY <1>1, SentInvariance, PTL

\* The operational values that a Login response announces are in force.
THEOREM AnsweredInForce == Spec => []AnnouncedInForce
  <1>1. SentInv => AnnouncedInForce
    BY DEF SentInv
  <1> QED BY <1>1, SentInvariance, PTL

\* The stamped responses of a step take the next StatSNs, one each and in order.
THEOREM StatSNDensity == Spec => StatSNsDense
  <1> DEFINE Step == served'.connections = served.connections =>
                       Dense(connection.stat_sn, responses', connection'.stat_sn)
  <1>1. ASSUME SentInv, [Next]_vars PROVE [Step]_vars
    <2>1. ASSUME NEW p \in Requests, RequestArrives(p) PROVE Step
      <3>1. IsPDU(p) /\ iscsi_server_process(p)
        BY <2>1, RequestsAssumption DEF RequestArrives
      <3>2. Responds
        BY <1>1, <3>1, ProcessResponds DEF SentInv
      <3> QED BY <3>2 DEF Responds
    <2>2. ASSUME NextConnection PROVE Step
      BY <1>1, <2>2 DEF SentInv, IInv, Typed, NextConnection
    <2> QED BY <1>1, <2>1, <2>2 DEF Next
  <1> QED BY <1>1, SentInvariance, PTL DEF Spec, StatSNsDense

-------------------------------------------------------------------------------
(***************************************************************************)
(* Full feature phase is entered when an initiator that asked for it is    *)
(* told.                                                                   *)
(***************************************************************************)
EntersWhenTold ==
  (~FullFeature /\ FullFeature') <=> (last'.transit /\ TellsFullFeature')

\* Only Login responses tell of full feature phase.
LEMMA NothingTold ==
  ASSUME \A i \in DOMAIN responses' : responses'[i].opcode # "LOGIN_RES"
  PROVE  ~TellsFullFeature'
  BY DEF TellsFullFeature, GrantsFullFeature

\* One Login response tells of it or not.
LEMMA ToldByOne ==
  ASSUME NEW status, NEW transit, NEW nsg, NEW stamp, NEW text,
         responses' = <<LoginResponse(status, transit, nsg, stamp, text)>>
  PROVE  TellsFullFeature' <=> (status = "SUCCESS" /\ transit /\ nsg = 3)
  <1> DEFINE r == LoginResponse(status, transit, nsg, stamp, text)
  <1>1. /\ r.opcode = "LOGIN_RES" /\ r.status = status /\ r.nsg = nsg
        /\ r.transit = transit
    BY DEF LoginResponse
  <1>2. GrantsFullFeature(r) <=> (status = "SUCCESS" /\ transit /\ nsg = 3)
    <2> HIDE DEF r
    <2> QED BY <1>1 DEF GrantsFullFeature
  <1> HIDE DEF r
  <1>3. DOMAIN <<r>> = {1} /\ <<r>>[1] = r
    OBVIOUS
  <1> QED BY <1>2, <1>3 DEF TellsFullFeature, r

\* In full feature phase, and when a PDU is ignored, no Login response is sent.
LEMMA FullFeaturePhaseAgrees ==
  ASSUME Shape, NEW p, Ignore(p) \/ FullFeaturePhase(p)
  PROVE  EntersWhenTold
  <1>1. \A i \in DOMAIN responses' : responses'[i].opcode # "LOGIN_RES"
    <2>1. CASE Ignore(p) \/ iscsi_request_text_process(p)
      BY <2>1 DEF Ignore, iscsi_request_text_process, Answer, Finish, Response
    <2>2. CASE \/ iscsi_request_logout_process(p) \/ iscsi_request_nop_out_process(p)
               \/ iscsi_request_reject(p)
      BY <2>2
      DEF iscsi_request_logout_process, iscsi_request_nop_out_process,
          iscsi_request_reject, RespondOnce, Answer, Finish, Response
    <2>3. CASE CommandNeedsData(p)
      <3>1. \A i \in DOMAIN R2Ts(p) : R2Ts(p)[i].opcode = "R2T"
        BY DEF R2Ts, iscsi_request_r2t_send
      <3> QED BY <2>3, <3>1 DEF CommandNeedsData, Answer, Finish
    <2>4. CASE CommandReads(p)
      <3>1. PICK length, buffer : responses' = DataIns(p, length, buffer)
        BY <2>4 DEF CommandReads, Answer, Finish
      <3>2. \A i \in DOMAIN DataIns(p, length, buffer) :
              DataIns(p, length, buffer)[i].opcode = "SCSI_DATA_IN"
        BY DEF DataIns
      <3> QED BY <3>1, <3>2
    <2>5. CASE CommandWithoutR2T(p) \/ DataOutExecutes(p)
      <3>1. PICK c, task, outcome : responses' = CommandResponse(c, task, outcome)
        BY <2>5 DEF CommandWithoutR2T, DataOutExecutes, Answer, Finish
      <3> QED BY <3>1 DEF CommandResponse
    <2>6. CASE CommandExits(p) \/ DataOutDropped(p)
      BY <2>6 DEF CommandExits, DataOutDropped, Answer, Finish
    <2>7. CASE DataOutStored(p)
      <3>1. \/ responses' = <<>>
            \/ \E tag, n, offset, length :
                 responses' = <<iscsi_request_r2t_send(connection, 0, p.task, tag, n,
                                                       offset, length)>>
        BY <2>7 DEF DataOutStored, Answer, Finish
      <3> QED BY <3>1 DEF iscsi_request_r2t_send
    <2> QED
      BY <2>1, <2>2, <2>3, <2>4, <2>5, <2>6, <2>7
      DEF FullFeaturePhase, iscsi_request_cmd_process, iscsi_request_data_out_process
  <1>2. FullFeature' <=> FullFeature
    BY FullFeaturePhaseSteps DEF FullFeatureStep, SameButNumbering, FullFeature
  <1> QED BY <1>1, <1>2, NothingTold DEF EntersWhenTold

\* In a login, both or neither happen.
LEMMA LoginPhaseAgrees ==
  ASSUME IInv, FirstConnection, NEW p, IsPDU(p), LoginPhase(p)
  PROVE  EntersWhenTold
  <1>1. Shape /\ Typed /\ NothingBeforeLogin
    BY DEF IInv
  <1>2. CASE NotLoggedIn(p) \/ LoginExits(p)
    <2>1. responses' = <<>> /\ UNCHANGED <<connection, session>>
      BY <1>2 DEF NotLoggedIn, LoginExits, Terminate, Exit, Finish, stateVars
    <2> QED BY <2>1, NothingTold DEF EntersWhenTold, FullFeature
  <1>3. CASE iscsi_request_login_reject(p)
    <2>1. ~TellsFullFeature'
      BY <1>3, ToldByOne DEF iscsi_request_login_reject, Answer, Finish
    <2>2. ~FullFeature'
      BY <1>1, <1>3, NumberedKeeps
      DEF Shape, iscsi_request_login_reject, SameButNumbering, FullFeature
    <2> QED BY <2>1, <2>2 DEF EntersWhenTold
  <1>4. CASE response_partial_login(p)
    <2>1. ~TellsFullFeature'
      BY <1>4, ToldByOne DEF response_partial_login, Answer, Finish
    <2>2. FullFeature' <=> FullFeature
      BY <1>1, <1>4, AdvanceKeeps DEF Shape, response_partial_login, FullFeature
    <2> QED BY <2>1, <2>2 DEF EntersWhenTold
  <1>5. CASE LoginSetupFails(p)
    <2>1. ~TellsFullFeature'
      BY <1>5, ToldByOne DEF LoginSetupFails, Answer, Finish
    <2>2. ~session.is_full_feature_phase
      BY <1>1, <1>5 DEF NothingBeforeLogin, LoginSetupFails
    <2>3. session'.is_full_feature_phase = session.is_full_feature_phase
      BY <1>1, <1>5, SetUpCreates DEF Shape, LoginSetupFails
    <2> QED BY <2>1, <2>2, <2>3 DEF EntersWhenTold, FullFeature
  <1>6. CASE response_final_login(p)
    <2> DEFINE s == SetUpSession(p)
               f == s.is_full_feature_phase \/ EntersFullFeature(p)
    <2>1. ~session.is_full_feature_phase /\ p.opcode = "LOGIN"
      BY <1>1, <1>6
      DEF NothingBeforeLogin, response_final_login, LoginArrives, BeforeFullFeature
    <2>2. IsSession(s) /\ ~s.is_full_feature_phase
      BY <1>1, <2>1, SetUpCreates DEF Shape
    <2>3. session' = [s EXCEPT !.is_full_feature_phase = f]
      BY <1>6 DEF response_final_login
    <2> HIDE DEF s
    <2>4. session'.is_full_feature_phase <=> EntersFullFeature(p)
      BY <2>2, <2>3 DEF IsSession
    <2> DEFINE attached == [connection EXCEPT !.session_reference = TRUE]
    <2>7. FinalLogin(p, attached)
      BY <1>6, FinalLoginAnswers
    <2>5. connection'.session_reference
      <3>1. connection' = attached \/ connection' = Advance(attached, 1)
        BY <2>7 DEF FinalLogin
      <3>2. IsConnection(attached) /\ attached.session_reference = TRUE
        BY <1>1, AttachingKeeps DEF Shape
      <3> HIDE DEF attached
      <3> QED BY <3>1, <3>2, AdvanceKeeps
    <2>6. (last'.transit /\ TellsFullFeature') <=> EntersFullFeature(p)
      <3>1. p.transit \in BOOLEAN /\ last'.transit = p.transit
        <4>1. (\E rs : Answer(p, rs)) \/ Terminate(p)
          BY <1>6 DEF response_final_login
        <4>2. PICK status : last' = [opcode |-> p.opcode, status |-> status,
                                     transit |-> p.opcode = "LOGIN" /\ p.transit]
          BY ONLY <4>1 DEF Answer, Terminate, Finish
        <4>3. last'.transit = (p.opcode = "LOGIN" /\ p.transit)
          BY ONLY <4>2
        <4>4. p.transit \in BOOLEAN
          BY <2>1 DEF IsPDU
        <4> QED BY ONLY <4>3, <4>4, <2>1
      <3>2. CASE p.csg \in {0, 1}
        <4>1. PICK text : responses' = <<LoginResponse(FinalStatus(p), TRUE, p.nsg,
                                                       Stamp(connection, 0), text)>>
          BY ONLY <2>7, <3>2 DEF FinalLogin
        <4>2. TellsFullFeature' <=> (FinalStatus(p) = "SUCCESS" /\ TRUE /\ p.nsg = 3)
          BY ONLY <4>1, ToldByOne
        <4> QED BY <3>1, <3>2, <4>2 DEF FinalStatus, EntersFullFeature
      <3>3. CASE p.csg = 3
        <4>1. ~TellsFullFeature'
          BY <2>7, <3>3, ToldByOne DEF FinalLogin
        <4> QED BY <3>3, <4>1 DEF EntersFullFeature
      <3>4. CASE p.csg = 2
        <4>1. ~TellsFullFeature'
          BY <2>7, <3>4, NothingTold DEF FinalLogin
        <4> QED BY <3>4, <4>1 DEF EntersFullFeature
      <3> QED BY <2>7, <3>2, <3>3, <3>4 DEF FinalLogin
    <2> QED BY <2>1, <2>4, <2>5, <2>6 DEF EntersWhenTold, FullFeature
  <1> QED BY <1>2, <1>3, <1>4, <1>5, <1>6 DEF LoginPhase

\* On the first connection of a process the target enters full feature phase in
\* exactly the steps in which a Login with Transit is told so, whatever stages and
\* bits the Logins have.
THEOREM LoginsAgree == Spec => LoginAgreement
  <1> DEFINE Step == FirstConnection => EntersWhenTold
  <1>1. ASSUME IInv, [Next]_vars PROVE [Step]_vars
    <2>1. ASSUME NEW p \in Requests, RequestArrives(p) PROVE Step
      <3>1. IsPDU(p) /\ Shape
        BY <1>1, RequestsAssumption DEF IInv
      <3> QED
        BY <1>1, <2>1, <3>1, FullFeaturePhaseAgrees, LoginPhaseAgrees
        DEF RequestArrives, iscsi_server_process
    <2>2. ASSUME NextConnection PROVE Step
      BY <2>2, NothingTold
      DEF NextConnection, iscsi_connection_create, EntersWhenTold, FullFeature
    <2> QED BY <1>1, <2>1, <2>2 DEF Next
  <1> QED BY <1>1, Invariance, PTL DEF Spec, LoginAgreement, EntersWhenTold

===============================================================================
