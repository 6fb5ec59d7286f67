---------------------------- MODULE PldmFDProofs ----------------------------
(***************************************************************************)
(* Theorems about PldmFD for every value of its constants: its type, the   *)
(* download, and that the image which is verified is complete.             *)
(***************************************************************************)
EXTENDS PldmFD, TLAPS

USE DEF ctxVars, flagVars, respVars, initVars, dlVars, fwVars, historyVars,
        otherVars

----------------------------------------------------------------------------
(* Type correctness.                                                       *)

\* The responder binds the FD to a UA only while it answers a RequestUpdate,
\* so the command in hand carries an endpoint id.
BindOK == ract = "Bind" => rpc = "send" /\ rcmd.cmd = "RequestUpdate"

TypeInv == TypeOK /\ BindOK

LEMMA CommandFields ==
  ASSUME NEW c \in Commands
  PROVE  /\ c.cmd = "RequestUpdate" => c.xfer \in UaXfers /\ c.eid \in Eids
         /\ c.cmd = "PassComponent" => c.last \in BOOLEAN
         /\ c.cmd = "UpdateComponent" => c.size \in Sizes /\ c.eligible \in BOOLEAN
         /\ c.cmd = "Activate" => c.selfContained \in {0, 1, 2}
         /\ c.cmd = "Bad" => c.in \in {"Idle", "LearnComponents", "ReadyXfer"}
  BY DEF Commands

LEMMA NoCmdIsCommand == NoCmd \in Commands
  BY DEF NoCmd, Commands

LEMMA FdReqType ==
  ASSUME NEW s \in FdReqState, NEW c \in BOOLEAN, NEW r \in Results,
         NEW cmd \in FwCmds
  PROVE  FdReq(s, c, r, cmd) \in Req
  BY TimeAssumption DEF FdReq, Req

LEMMA LesserType ==
  ASSUME NEW a \in Nat, NEW b \in Nat
  PROVE  Lesser(a, b) \in Nat /\ Lesser(a, b) \in 0..b
  BY DEF Lesser

LEMMA NoSessionType == NoSession \in Session
  BY TimeAssumption DEF NoSession, Session, FdReqState, Results

USE SizesAssumption, XferAssumption, TimeAssumption

LEMMA ReqAgeType ==
  ASSUME NEW r \in Req, NEW a \in 0..T2
  PROVE  [r EXCEPT !.age = a] \in Req
  BY DEF Req

LEMMA SessionAgeType ==
  ASSUME NEW s \in Session, NEW a \in 0..T2, NEW b \in 0..(T1 + 1)
  PROVE  [s EXCEPT !.age = a, !.t1 = b] \in Session
  BY DEF Session

\* A group of variables that an action leaves alone keeps its type.
LEMMA KeepType ==
  /\ CtxType  /\ UNCHANGED ctxVars     => CtxType'
  /\ FlagType /\ UNCHANGED <<flagVars, respSignal>> => FlagType'
  /\ RespType /\ UNCHANGED respVars    => RespType'
  /\ InitType /\ UNCHANGED initVars    => InitType'
  /\ DlType   /\ UNCHANGED dlVars      => DlType'
  /\ FwType   /\ UNCHANGED fwVars      => FwType'
  /\ HistType /\ UNCHANGED historyVars => HistType'
  BY DEF CtxType, FlagType, RespType, InitType, DlType, FwType, HistType

LEMMA TickType == TypeInv /\ Tick => TypeInv'
<1> SUFFICES ASSUME TypeInv, Tick PROVE TypeInv'
  OBVIOUS
<1>1. req.age \in Nat /\ session.age \in Nat /\ session.t1 \in Nat
  BY DEF TypeInv, TypeOK, CtxType, InitType, Req, Session
<1>2. /\ Lesser(req.age + 1, T2) \in 0..T2
      /\ Lesser(session.age + 1, T2) \in 0..T2
      /\ Lesser(session.t1 + 1, T1 + 1) \in 0..(T1 + 1)
  BY <1>1 DEF Lesser
<1>3. req' \in Req /\ session' \in Session
  BY <1>2, ReqAgeType, SessionAgeType DEF Tick, TypeInv, TypeOK, CtxType, InitType
<1>4. t1Age' \in 0..(T1 + 1)
  BY DEF Tick, TypeInv, TypeOK, CtxType, Lesser
<1>5. CtxType' /\ InitType'
  BY <1>3, <1>4 DEF TypeInv, TypeOK, CtxType, InitType, Tick
<1> QED
  BY <1>5, KeepType DEF TypeInv, TypeOK, BindOK, Tick

LEMMA SendResponseType == TypeInv /\ SendResponse => TypeInv'
<1> SUFFICES ASSUME TypeInv, SendResponse PROVE TypeInv'
  OBVIOUS
<1>1. RespType'
  BY NoCmdIsCommand, CommandFields DEF TypeInv, TypeOK, BindOK, SendResponse, NextMessage, RespType
<1>2. FlagType'
  BY DEF TypeInv, TypeOK, SendResponse, NextMessage, FlagType
<1>3. BindOK'
  BY DEF BindOK, SendResponse, NextMessage
<1> QED
  BY <1>1, <1>2, <1>3, KeepType DEF TypeInv, TypeOK, SendResponse

LEMMA WakeType == TypeInv /\ InitiatorWake => TypeInv'
<1> SUFFICES ASSUME TypeInv, InitiatorWake PROVE TypeInv'
  OBVIOUS
<1>1. InitType'
  BY NoSessionType DEF TypeInv, TypeOK, InitiatorWake, InitType
<1>2. FlagType'
  BY DEF TypeInv, TypeOK, InitiatorWake, FlagType
<1> QED
  BY <1>1, <1>2, KeepType DEF TypeInv, TypeOK, BindOK, InitiatorWake

LEMMA QueryLengthType == ASSUME TypeInv PROVE query_length \in Nat
  BY DEF TypeInv, TypeOK, DlType, query_length, Lesser

LEMMA TransferSessionType ==
  ASSUME NEW n \in Nat, NEW m \in Nat
  PROVE  TransferSession(n, m) \in Session
<1>1. ASSUME NEW s \in Session
      PROVE  [s EXCEPT !.on = TRUE, !.state = "Ready", !.size = n, !.xfer = m]
               \in Session
  BY DEF Session, FdReqState
<1> QED
  BY <1>1, NoSessionType DEF TransferSession

LEMMA MarkType ==
  ASSUME NEW s \in Session, NEW r \in Results
  PROVE  /\ mark_sent(s) \in Session
         /\ mark_ready_for_next(s) \in Session
         /\ mark_complete(s, r) \in Session
         /\ mark_failed(s, r) \in Session
<1>1. mark_sent(s) \in Session
  <2>1. 0 \in 0..T2 /\ 0 \in 0..(T1 + 1)
    OBVIOUS
  <2>2. ASSUME NEW a \in 0..T2, NEW b \in 0..(T1 + 1)
        PROVE  [s EXCEPT !.state = "Sent", !.age = a, !.t1 = b] \in Session
    BY DEF Session, FdReqState
  <2> QED
    BY <2>1, <2>2 DEF mark_sent
<1>2. mark_ready_for_next(s) \in Session
  BY DEF Session, FdReqState, Results, mark_ready_for_next
<1>3. mark_complete(s, r) \in Session
  BY DEF Session, FdReqState, mark_complete
<1>4. mark_failed(s, r) \in Session
  BY DEF Session, FdReqState, mark_failed
<1> QED
  BY <1>1, <1>2, <1>3, <1>4

LEMMA SyncType ==
  ASSUME NEW s \in Session, NEW r \in Req
  PROVE  [r EXCEPT !.state = s.state, !.complete = s.complete,
                   !.result = s.result, !.age = s.age] \in Req
  BY DEF Session, Req

LEMMA LeaveSessionType ==
  ASSUME CtxType, NEW s \in Session, LeaveSession(s)
  PROVE  CtxType' /\ InitType'
<1>1. req' \in Req
  BY SyncType DEF CtxType, LeaveSession
<1>2. chunk' \in [off : Nat, len : Nat] /\ t1Age' \in 0..(T1 + 1)
  BY DEF LeaveSession, Session
<1> QED
  BY <1>1, <1>2, NoSessionType DEF LeaveSession, CtxType, InitType

LEMMA KeepSessionType ==
  ASSUME CtxType, NEW s \in Session, KeepSession(s)
  PROVE  CtxType' /\ InitType'
  BY DEF KeepSession, CtxType, InitType

LEMMA SettleType ==
  ASSUME CtxType, FlagType, InitType, NEW ok \in BOOLEAN, Settle(ok)
  PROVE  FlagType' /\ InitType'
<1>1. session' \in Session
  BY TransferSessionType DEF Settle, InitType, CtxType
<1> QED
  BY <1>1 DEF Settle, FlagType, InitType

LEMMA NoRequestType ==
  ASSUME FlagType, InitType, NoRequest
  PROVE  FlagType' /\ InitType'
  BY DEF NoRequest, FlagType, InitType

LEMMA LaunchType ==
  ASSUME FlagType, InitType, Launch
  PROVE  FlagType' /\ InitType'
  BY DEF Launch, FlagType, InitType

LEMMA SendCompleteType ==
  ASSUME CtxType, FlagType, InitType, NEW cmd \in FwCmds, NEW r \in Results,
         SendComplete(cmd, r)
  PROVE  CtxType' /\ FlagType' /\ InitType'
<1>1. req' \in Req
  BY FdReqType DEF SendComplete, FdReqState
<1>2. CtxType'
  BY <1>1 DEF SendComplete, CtxType, FdReq
<1>3. Launch
  BY DEF SendComplete
<1> QED
  BY <1>2, <1>3, LaunchType

LEMMA EndWriteType ==
  ASSUME DlType, NEW len \in Nat, EndWrite(len)
  PROVE  DlType'
  BY DEF DlType, EndWrite, State

LEMMA BeginWriteType ==
  ASSUME DlType, NEW len \in Nat, BeginWrite(len)
  PROVE  DlType'
  BY DEF DlType, BeginWrite

LEMMA InitTypeOK == Init => TypeInv
<1> SUFFICES ASSUME Init PROVE TypeInv
  OBVIOUS
<1>1. CtxType
  BY DEF Init, CtxType, FirmwareDeviceState, FdReq, Req, FdReqState, Results, FwCmds
<1>2. FlagType
  BY Zenon DEF Init, FlagType
<1>7. HistType
  <2>1. verified \in BOOLEAN
    BY Zenon DEF Init
  <2>2. accepted = 0 /\ imageSize = 0
    BY DEF Init
  <2> QED
    BY <2>1, <2>2 DEF HistType
<1>6. DlType
  BY DEF Init, DlType, State
<1>3. RespType /\ BindOK
  BY NoCmdIsCommand DEF Init, RespType, BindOK
<1>4. InitType
  BY NoSessionType DEF Init, InitType
<1>5. FwType
  BY DEF Init, FwType, Results
<1> QED
  BY <1>1, <1>2, <1>3, <1>4, <1>5, <1>6, <1>7 DEF TypeInv, TypeOK

LEMMA OfferComponentType ==
  ASSUME TypeInv, NEW size \in Nat, NEW wanted, NEW ok,
         OfferComponent(size, wanted, ok), UNCHANGED <<pldmState, curOff, downloaded>>
  PROVE  CtxType' /\ DlType' /\ HistType'
<1> USE DEF TypeInv, TypeOK
<1>1. CASE ok
  <2>1. req' = FdReq("Ready", FALSE, "None", "None") /\ verified' = FALSE
    BY <1>1 DEF OfferComponent
  <2>2. req' \in Req /\ verified' \in BOOLEAN
    BY <2>1, FdReqType DEF FdReqState, Results, FwCmds
  <2>3. CtxType'
    BY <1>1, <2>2 DEF OfferComponent, CtxType, FirmwareDeviceState, FdReq
  <2>4. DlType'
    BY <1>1 DEF OfferComponent, DlType, handle_component
  <2>5. HistType'
    BY <1>1, <2>2 DEF OfferComponent, HistType, Lesser
  <2> QED
    BY <2>3, <2>4, <2>5
<1>2. CASE ~ok
  BY <1>2 DEF OfferComponent, CtxType, DlType, HistType, handle_component
<1> QED
  BY <1>1, <1>2

\* The handlers of the responder leave every variable in its type.
LEMMA ProcessType ==
  ASSUME TypeInv, NEW c \in Commands, Process(c)
  PROVE  /\ CtxType' /\ cancelled' \in BOOLEAN /\ initSignal' \in BOOLEAN
         /\ UNCHANGED <<pending, running>>
         /\ RespType' /\ BindOK' /\ InitType' /\ DlType' /\ FwType' /\ HistType'
<1> USE KeepType DEF TypeInv, TypeOK
<1>1. CASE ProcessRead(c)
  BY <1>1 DEF ProcessRead, Answer, RespType, FlagType, BindOK
<1>2. CASE ProcessBad(c)
  <2>1. CtxType'
    BY <1>2 DEF ProcessBad, CtxType
  <2>3. cancelled' \in BOOLEAN /\ initSignal' \in BOOLEAN
    BY <1>2, Zenon DEF ProcessBad, NextMessage, FlagType
  <2>2. RespType' /\ BindOK'
    BY <1>2, NoCmdIsCommand DEF ProcessBad, NextMessage, Answer, RespType, BindOK
  <2> QED
    BY <1>2, <2>1, <2>2, <2>3 DEF ProcessBad, NextMessage
<1>3. CASE ProcessRequestUpdate(c)
  <2>1. c.xfer \in Nat
    BY <1>3, CommandFields DEF ProcessRequestUpdate
  <2>2. CtxType'
    BY <1>3, <2>1 DEF ProcessRequestUpdate, request_update_rsp, CtxType,
                      FirmwareDeviceState, Lesser
  <2>3. RespType' /\ BindOK'
    BY <1>3 DEF ProcessRequestUpdate, request_update_rsp, Answer, RespType, BindOK
  <2> QED
    BY <1>3, <2>2, <2>3 DEF ProcessRequestUpdate, FlagType
<1>4. CASE ProcessPassComponent(c)
  <2>1. CtxType' /\ DlType'
    BY <1>4 DEF ProcessPassComponent, pass_component_rsp, handle_component,
                CtxType, DlType, FirmwareDeviceState
  <2> QED
    BY <1>4, <2>1 DEF ProcessPassComponent, Answer, RespType, FlagType, BindOK
<1>5. CASE ProcessUpdateComponent(c)
  <2>1. c.size \in Nat
    BY <1>5, CommandFields DEF ProcessUpdateComponent
  <2>2. CASE fdState # "ReadyXfer"
    BY <1>5, <2>2 DEF ProcessUpdateComponent, update_component_rsp, Answer,
                      CtxType, DlType, HistType, RespType, FlagType, BindOK
  <2>3. CASE fdState = "ReadyXfer"
    BY <1>5, <2>1, <2>3, OfferComponentType
    DEF ProcessUpdateComponent, update_component_rsp, Answer, RespType, FlagType, BindOK
  <2> QED
    BY <2>2, <2>3
<1>6. CASE ProcessActivate(c)
  <2>1. CtxType' /\ DlType' /\ FwType'
    BY <1>6 DEF ProcessActivate, activate_firmware_rsp, CtxType, DlType, FwType,
                FirmwareDeviceState, State
  <2> QED
    BY <1>6, <2>1 DEF ProcessActivate, Answer, RespType, FlagType, BindOK
<1>7. CASE ProcessCancel(c)
  <2>1. fdState' \in FirmwareDeviceState /\ t1Age' \in 0..(T1 + 1)
    BY <1>7 DEF ProcessCancel, cancel_update_component_rsp, cancel_update_rsp,
                CtxType, FirmwareDeviceState
  <2>2. cancelled' \in BOOLEAN
    BY <1>7 DEF ProcessCancel, cancel_update_component_rsp, cancel_update_rsp,
                FlagType
  <2>3. CtxType'
    BY <1>7, <2>1 DEF ProcessCancel, CtxType
  <2> QED
    BY <1>7, <2>2, <2>3 DEF ProcessCancel, Answer, RespType, FlagType, BindOK
<1> QED
  BY <1>1, <1>2, <1>3, <1>4, <1>5, <1>6, <1>7 DEF Process

LEMMA ReceiveRequestType == TypeInv /\ ReceiveRequest => TypeInv'
<1> SUFFICES ASSUME TypeInv, ReceiveRequest PROVE TypeInv'
  OBVIOUS
<1>1. PICK c \in Commands :
        \/ Process(c)
        \/ /\ rpc' = "waitInit" /\ rcmd' = c /\ wait_for_initiator(c)
           /\ UNCHANGED <<ctxVars, flagVars, ract, uaEid, initVars, dlVars,
                          fwVars, historyVars>>
  BY DEF ReceiveRequest
<1>2. CASE Process(c)
  <2>1. FlagType'
    BY <1>2, ProcessType DEF ReceiveRequest, FlagType, TypeInv, TypeOK
  <2> QED
    BY <1>2, <2>1, ProcessType DEF TypeInv, TypeOK
<1>3. CASE ~Process(c)
  <2>1. rpc = "recv" /\ UNCHANGED respSignal
    BY DEF ReceiveRequest
  <2>2. RespType' /\ BindOK'
    BY <1>1, <1>3, <2>1 DEF TypeInv, TypeOK, RespType, BindOK
  <2> QED
    BY <1>1, <1>3, <2>1, <2>2, KeepType DEF TypeInv, TypeOK
<1> QED
  BY <1>2, <1>3

LEMMA InitiatorDoneType == TypeInv /\ InitiatorDone => TypeInv'
<1> SUFFICES ASSUME TypeInv, InitiatorDone PROVE TypeInv'
  OBVIOUS
<1>1. rcmd \in Commands /\ Process(rcmd)
  BY DEF InitiatorDone, TypeInv, TypeOK, RespType
<1>2. respSignal' \in BOOLEAN
  BY Zenon DEF InitiatorDone
<1> QED
  BY <1>1, <1>2, ProcessType DEF FlagType, TypeInv, TypeOK

LEMMA RegularType == TypeInv /\ InitiatorRegular => TypeInv'
<1> SUFFICES ASSUME TypeInv, InitiatorRegular PROVE TypeInv'
  OBVIOUS
<1> USE KeepType DEF TypeInv, TypeOK
<1>0. BindOK' /\ RespType' /\ HistType'
  BY DEF BindOK, InitiatorRegular
<1>1. CASE fd_progress_download
  <2>1. CASE NoRequest /\ UNCHANGED <<ctxVars, dlVars, fwVars>>
    BY <1>0, <2>1, NoRequestType
  <2>2. CASE ~(NoRequest /\ UNCHANGED <<ctxVars, dlVars, fwVars>>)
    <3>1. /\ chunk' = IF req.complete THEN [off |-> 0, len |-> 0]
                       ELSE [off |-> curOff, len |-> Lesser(query_length, xferSize)]
          /\ req' = IF req.complete
                    THEN FdReq("Sent", TRUE, req.result, "TransferComplete")
                    ELSE FdReq("Sent", FALSE, "None", "RequestFirmwareData")
          /\ UNCHANGED <<compSize, xferSize, t1Age, dlVars, fwVars>>
      BY <1>1, <2>2 DEF fd_progress_download
    <3>2. \/ fdState' = "Idle" /\ NoRequest
          \/ UNCHANGED fdState /\ Launch
      BY <1>1, <2>2 DEF fd_progress_download
    <3>3. chunk' \in [off : Nat, len : Nat]
      BY <3>1, QueryLengthType DEF CtxType, DlType, Lesser
    <3>4. req.result \in Results
      BY DEF CtxType, Req
    <3>5. req' \in Req
      BY <3>1, <3>4, FdReqType DEF FdReqState, Results, FwCmds
    <3>6. fdState' \in FirmwareDeviceState
      BY <3>2 DEF CtxType, FirmwareDeviceState
    <3>7. UNCHANGED <<compSize, xferSize, t1Age>>
      BY <3>1
    <3>8. CtxType'
      BY <3>3, <3>5, <3>6, <3>7 DEF CtxType
    <3>9. FlagType' /\ InitType'
      BY <3>2, NoRequestType, LaunchType
    <3>10. UNCHANGED <<dlVars, fwVars>>
      BY <3>1
    <3> QED
      BY <1>0, <3>8, <3>9, <3>10
  <2> QED
    BY <2>1, <2>2
<1>2. ASSUME NEW cmd \in {"VerifyComplete", "ApplyComplete"},
             NEW st \in State, NEW at \in {"verify", "apply"},
             ProgressOp(cmd, st, at)
      PROVE  TypeInv'
  <2>1. CASE ~should_send_fd_request
    BY <1>0, <1>2, <2>1, NoRequestType DEF ProgressOp
  <2>2. CASE should_send_fd_request /\ req.complete
    BY <1>0, <1>2, <2>2, SendCompleteType DEF ProgressOp, FwCmds, Results, SendComplete
  <2>3. CASE should_send_fd_request /\ ~req.complete
    <3>1. /\ pldmState' = st /\ fwYield' = TRUE /\ ipc' = at
          /\ UNCHANGED <<ctxVars, flagVars, respSignal, session, total, curOff,
                         downloaded, staged, verifyResult, applyResult,
                         daemonYield, fpc>>
      BY <1>2, <2>3 DEF ProgressOp
    <3>2. DlType' /\ InitType'
      BY <3>1 DEF DlType, InitType
    <3>3. FwType'
      BY <3>1 DEF FwType
    <3> QED
      BY <1>0, <3>1, <3>2, <3>3
  <2> QED
    BY <2>1, <2>2, <2>3
<1>3. CASE NoRequest /\ UNCHANGED <<ctxVars, dlVars, fwVars>>
  BY <1>0, <1>3, NoRequestType
<1> QED
  BY <1>1, <1>2, <1>3 DEF InitiatorRegular, State

LEMMA OperationDoneType == TypeInv /\ OperationDone => TypeInv'
<1> SUFFICES ASSUME TypeInv, OperationDone PROVE TypeInv'
  OBVIOUS
<1>1. CtxType' /\ FlagType' /\ InitType' /\ UNCHANGED dlVars
  BY SendCompleteType
  DEF OperationDone, SendComplete, TypeInv, TypeOK, FwType, FwCmds
<1>2. FwType'
  BY Zenon DEF OperationDone, TypeInv, TypeOK, FwType
<1> QED
  BY <1>1, <1>2, KeepType DEF TypeInv, TypeOK, BindOK, OperationDone

LEMMA RequestSentType == TypeInv /\ RequestSent => TypeInv'
<1> SUFFICES ASSUME TypeInv, RequestSent PROVE TypeInv'
  OBVIOUS
<1>1. FlagType' /\ InitType'
  <2>1. CASE Settle(FALSE)
    BY <2>1, SettleType DEF TypeInv, TypeOK
  <2>2. CASE ipc' = "recv" /\ UNCHANGED <<flagVars, respSignal, session>>
    BY <2>2, KeepType DEF TypeInv, TypeOK, InitType
  <2> QED
    BY <2>1, <2>2 DEF RequestSent
<1> QED
  BY <1>1, KeepType DEF TypeInv, TypeOK, BindOK, RequestSent

LEMMA ResponseLostType == TypeInv /\ ResponseLost => TypeInv'
<1> SUFFICES ASSUME TypeInv, ResponseLost PROVE TypeInv'
  OBVIOUS
<1>1. Settle(FALSE)
  BY DEF ResponseLost
<1>2. FlagType' /\ InitType'
  BY <1>1, SettleType DEF TypeInv, TypeOK
<1> QED
  BY <1>2, KeepType DEF TypeInv, TypeOK, BindOK, ResponseLost

LEMMA ProcessCompleteType ==
  ASSUME TypeInv, NEW st, NEW next \in FirmwareDeviceState,
         NEW rs \in FdReqState, ProcessComplete(st, next, rs)
  PROVE  /\ fdState' \in FirmwareDeviceState /\ req' \in Req
         /\ FlagType' /\ InitType' /\ DlType'
<1> USE DEF TypeInv, TypeOK
<1>1. CASE UNCHANGED <<fdState, req>> /\ Settle(FALSE)
  BY <1>1, SettleType, KeepType DEF ProcessComplete, CtxType
<1>2. CASE /\ fdState' = next /\ Settle(TRUE)
           /\ req' = FdReq(rs, FALSE, "None", "None")
  <2>1. req' \in Req
    BY <1>2, FdReqType DEF FdReqState, Results, FwCmds
  <2>2. Settle(TRUE) /\ UNCHANGED dlVars
    BY <1>2 DEF ProcessComplete
  <2> QED
    BY <1>2, <2>1, <2>2, SettleType, KeepType
<1>3. CASE /\ fdState' = fdState /\ Settle(TRUE)
           /\ req' = FdReq("Failed", TRUE, req.result, "None")
  <2>1. req.result \in Results
    BY DEF CtxType, Req
  <2>2. req' \in Req
    BY <1>3, <2>1, FdReqType DEF FdReqState, Results, FwCmds
  <2>3. Settle(TRUE) /\ UNCHANGED dlVars
    BY <1>3 DEF ProcessComplete
  <2> QED
    BY <1>3, <2>2, <2>3, SettleType, KeepType DEF CtxType
<1> QED
  BY <1>1, <1>2, <1>3 DEF ProcessComplete

LEMMA FwDataRspType ==
  ASSUME TypeInv, NEW code, process_request_fw_data_rsp(code)
  PROVE  /\ fdState' \in FirmwareDeviceState /\ req' \in Req
         /\ FlagType' /\ InitType' /\ DlType'
<1> USE DEF TypeInv, TypeOK
<1>1. CASE UNCHANGED <<fdState, req, dlVars>> /\ (Settle(FALSE) \/ Settle(TRUE))
  BY <1>1, SettleType, KeepType DEF CtxType
<1>2. CASE /\ req' = FdReq("Ready", TRUE, "Aborted", "None")
           /\ UNCHANGED <<fdState, dlVars>> /\ Settle(TRUE)
  <2>1. req' \in Req
    BY <1>2, FdReqType DEF FdReqState, Results, FwCmds
  <2> QED
    BY <1>2, <2>1, SettleType, KeepType DEF CtxType
<1>3. CASE /\ BeginWrite(chunk.len) /\ ipc' = "write"
           /\ UNCHANGED <<fdState, req, flagVars, respSignal, session>>
  <2>1. chunk.len \in Nat
    BY DEF CtxType
  <2>2. DlType'
    BY <1>3, <2>1, BeginWriteType
  <2>3. InitType'
    BY <1>3 DEF InitType
  <2> QED
    BY <1>3, <2>2, <2>3, KeepType DEF CtxType
<1> QED
  BY <1>1, <1>2, <1>3 DEF process_request_fw_data_rsp

LEMMA HandleResponseType == TypeInv /\ HandleResponse => TypeInv'
<1> SUFFICES ASSUME TypeInv, HandleResponse PROVE TypeInv'
  OBVIOUS
<1>1. /\ fdState' \in FirmwareDeviceState /\ req' \in Req
      /\ FlagType' /\ InitType' /\ DlType'
  <2>1. CASE \E code \in Answers : process_request_fw_data_rsp(code)
    BY <2>1, FwDataRspType
  <2>2. CASE \/ ProcessComplete("Download", "Verify", "Ready")
             \/ ProcessComplete("Verify", "Apply", "Ready")
             \/ ProcessComplete("Apply", "ReadyXfer", "Unused")
    BY <2>2, ProcessCompleteType DEF FirmwareDeviceState, FdReqState
  <2> QED
    BY <2>1, <2>2 DEF HandleResponse
<1>2. CtxType'
  <2>1. t1Age' = 0 /\ UNCHANGED <<chunk, compSize, xferSize>>
    BY DEF HandleResponse
  <2> QED
    BY <1>1, <2>1 DEF TypeInv, TypeOK, CtxType
<1>3. UNCHANGED <<respVars, fwVars, historyVars>>
  BY DEF HandleResponse
<1> QED
  BY <1>1, <1>2, <1>3, KeepType DEF TypeInv, TypeOK, BindOK

LEMMA WriteDoneType == TypeInv /\ WriteDone => TypeInv'
<1> SUFFICES ASSUME TypeInv, WriteDone PROVE TypeInv'
  OBVIOUS
<1> USE DEF TypeInv, TypeOK
<1>1. UNCHANGED <<fdState, chunk, compSize, xferSize, t1Age, respVars, fwVars,
                  historyVars>>
  BY DEF WriteDone
<1>2. Settle(TRUE) \/ Settle(FALSE)
  BY DEF WriteDone
<1>3. FlagType' /\ InitType'
  BY <1>2, SettleType
<1>4. chunk.len \in Nat
  BY DEF CtxType
<1>5. req' \in Req
  BY FdReqType DEF WriteDone, CtxType, FdReqState, Results, FwCmds
<1>6. DlType'
  <2>1. EndWrite(chunk.len) \/ UNCHANGED dlVars
    BY DEF WriteDone
  <2> QED
    BY <1>4, <2>1, EndWriteType, KeepType
<1>7. CtxType'
  BY <1>1, <1>5 DEF CtxType
<1> QED
  BY <1>1, <1>3, <1>6, <1>7, KeepType DEF BindOK

LEMMA SleepOverType == TypeInv /\ SleepOver => TypeInv'
  BY KeepType DEF TypeInv, TypeOK, BindOK, SleepOver, InitType

LEMMA SessionRoundType ==
  ASSUME TypeInv, SessionRound
  PROVE  CtxType' /\ InitType'
<1> USE DEF TypeInv, TypeOK
<1>1. session \in Session
  BY DEF InitType
<1>2. CASE \/ LeaveSession(mark_complete(session, "Aborted"))
           \/ LeaveSession(mark_failed(session, "Aborted"))
           \/ LeaveSession(session) \/ KeepSession(session)
  BY <1>1, <1>2, MarkType, LeaveSessionType, KeepSessionType DEF Results
<1>3. CASE /\ session' = mark_sent([session EXCEPT !.off = curOff,
                             !.len = Lesser(query_length, session.xfer)])
           /\ ipc' = "sSend"
           /\ UNCHANGED ctxVars
  <2>1. curOff \in Nat /\ Lesser(query_length, session.xfer) \in Nat
    BY <1>1, QueryLengthType DEF DlType, Session, Lesser
  <2>2. ASSUME NEW n \in Nat, NEW m \in Nat
        PROVE  [session EXCEPT !.off = n, !.len = m] \in Session
    BY <1>1 DEF Session
  <2> QED
    BY <1>3, <2>1, <2>2, MarkType, KeepType DEF InitType, Results
<1> QED
  BY <1>2, <1>3 DEF SessionRound

LEMMA LoopType == TypeInv /\ InitiatorLoop => TypeInv'
<1> SUFFICES ASSUME TypeInv, InitiatorLoop PROVE TypeInv'
  OBVIOUS
<1>1. CtxType' /\ InitType'
  <2>1. CASE SessionRound
    BY <2>1, SessionRoundType
  <2>2. CASE /\ ipc' \in {"wait", "regular"} /\ session' \in {session, NoSession}
             /\ UNCHANGED ctxVars
    BY <2>2, KeepType, NoSessionType DEF TypeInv, TypeOK, InitType
  <2> QED
    BY <2>1, <2>2 DEF InitiatorLoop
<1> QED
  BY <1>1, KeepType DEF TypeInv, TypeOK, BindOK, InitiatorLoop

LEMMA SessionSentType == TypeInv /\ SessionSent => TypeInv'
<1> SUFFICES ASSUME TypeInv, SessionSent PROVE TypeInv'
  OBVIOUS
<1>1. CtxType' /\ InitType'
  <2>1. CASE LeaveSession(session)
    BY <2>1, LeaveSessionType DEF TypeInv, TypeOK, InitType
  <2>2. CASE ipc' = "sRecv" /\ UNCHANGED <<ctxVars, session>>
    BY <2>2, KeepType DEF TypeInv, TypeOK, InitType
  <2> QED
    BY <2>1, <2>2 DEF SessionSent
<1> QED
  BY <1>1, KeepType DEF TypeInv, TypeOK, BindOK, SessionSent

LEMMA SessionResponseLostType == TypeInv /\ SessionResponseLost => TypeInv'
<1> SUFFICES ASSUME TypeInv, SessionResponseLost PROVE TypeInv'
  OBVIOUS
<1>1. LeaveSession(session)
  BY DEF SessionResponseLost
<1>2. CtxType' /\ InitType'
  BY <1>1, LeaveSessionType DEF TypeInv, TypeOK, InitType
<1> QED
  BY <1>2, KeepType DEF TypeInv, TypeOK, BindOK, SessionResponseLost

LEMMA SessionResponseType == TypeInv /\ SessionResponse => TypeInv'
<1> SUFFICES ASSUME TypeInv, SessionResponse PROVE TypeInv'
  OBVIOUS
<1> USE DEF TypeInv, TypeOK
<1> DEFINE s == [session EXCEPT !.t1 = 0]
<1>1. s \in Session
  <2>1. ASSUME NEW u \in Session PROVE [u EXCEPT !.t1 = 0] \in Session
    BY DEF Session
  <2> QED
    BY <2>1 DEF InitType
<1>2. s.len \in Nat
  BY <1>1 DEF Session
<1> HIDE DEF s
<1>3. CtxType' /\ InitType' /\ DlType'
  <2>1. CASE /\ BeginWrite(s.len)
             /\ session' = s /\ ipc' = "sWrite" /\ UNCHANGED ctxVars
    BY <1>1, <1>2, <2>1, BeginWriteType, KeepType DEF InitType
  <2>2. CASE /\ \/ LeaveSession(s)
                \/ LeaveSession(mark_complete(s, "Aborted"))
                \/ KeepSession(mark_ready_for_next(s))
             /\ UNCHANGED dlVars
    BY <1>1, <2>2, MarkType, LeaveSessionType, KeepSessionType, KeepType DEF Results
  <2> QED
    BY <2>1, <2>2 DEF SessionResponse, s
<1>4. UNCHANGED <<flagVars, respSignal, respVars, fwVars, historyVars>>
  BY DEF SessionResponse
<1> QED
  BY <1>3, <1>4, KeepType DEF BindOK

LEMMA SessionWriteDoneType == TypeInv /\ SessionWriteDone => TypeInv'
<1> SUFFICES ASSUME TypeInv, SessionWriteDone PROVE TypeInv'
  OBVIOUS
<1> USE DEF TypeInv, TypeOK
<1>1. session \in Session /\ session.len \in Nat
  BY DEF InitType, Session
<1>2. CtxType' /\ InitType'
  <2>1. \/ LeaveSession(session)
        \/ LeaveSession(mark_complete(session, "Success"))
        \/ KeepSession(mark_ready_for_next(session))
    BY DEF SessionWriteDone
  <2> QED
    BY <1>1, <2>1, MarkType, LeaveSessionType, KeepSessionType DEF Results
<1>3. DlType'
  <2>1. EndWrite(session.len) \/ UNCHANGED dlVars
    BY DEF SessionWriteDone
  <2> QED
    BY <1>1, <2>1, EndWriteType, KeepType
<1>4. UNCHANGED <<flagVars, respSignal, respVars, fwVars, historyVars>>
  BY DEF SessionWriteDone
<1> QED
  BY <1>2, <1>3, <1>4, KeepType DEF BindOK

LEMMA UpdaterType == TypeInv /\ UpdaterStep => TypeInv'
<1> SUFFICES ASSUME TypeInv, UpdaterStep PROVE TypeInv'
  OBVIOUS
<1> USE DEF TypeInv, TypeOK
<1>1. UNCHANGED otherVars
  BY DEF UpdaterStep, UpdaterWait, pldm_wait, UpdaterVerify, UpdaterMark, UpdaterActivate
<1>2. FwType' /\ verified' \in BOOLEAN
  <2>1. CASE UpdaterWait
    BY <2>1 DEF UpdaterWait, pldm_wait, FwType, HistType
  <2>2. CASE UpdaterVerify
    BY <2>2 DEF UpdaterVerify, FwType, Results, May
  <2>3. CASE UpdaterMark
    BY <2>3 DEF UpdaterMark, FwType, HistType, Results
  <2>4. CASE UpdaterActivate
    BY <2>4 DEF UpdaterActivate, FwType, HistType
  <2> QED
    BY <2>1, <2>2, <2>3, <2>4 DEF UpdaterStep
<1>3. HistType'
  BY <1>1, <1>2 DEF HistType
<1> QED
  BY <1>1, <1>2, <1>3, KeepType DEF BindOK

\* TypeInv is inductive.
THEOREM TypeInvariant == Spec => []TypeInv
<1>1. TypeInv /\ [Next]_vars => TypeInv'
  <2> SUFFICES ASSUME TypeInv, [Next]_vars PROVE TypeInv'
    OBVIOUS
  <2>1. CASE Next
    BY <2>1, TickType, ReceiveRequestType, InitiatorDoneType, SendResponseType,
       WakeType, LoopType, SleepOverType, RegularType, OperationDoneType,
       RequestSentType, ResponseLostType, HandleResponseType, WriteDoneType,
       SessionSentType, SessionResponseLostType, SessionResponseType,
       SessionWriteDoneType, UpdaterType
    DEF Next, ResponderStep, InitiatorStep, RegularStep, SessionStep
  <2>2. CASE UNCHANGED vars
    BY <2>2, KeepType DEF vars, TypeInv, TypeOK, BindOK
  <2> QED
    BY <2>1, <2>2
<1> QED
  BY <1>1, InitTypeOK, PTL DEF Spec

\* Every reachable state of the firmware device, for every set of images,
\* transfer sizes, update agents, timeouts and faults, is well typed: no
\* counter of the download leaves the naturals, no session is left
\* half-written and an endpoint id is read only from a command that has one.
THEOREM TypeCorrect == Spec => []TypeOK
<1>1. TypeInv => TypeOK
  BY DEF TypeInv
<1> QED
  BY <1>1, TypeInvariant, PTL


----------------------------------------------------------------------------
(* WholeImage: whatever the UA sends, whichever sends, receives and writes  *)
(* fail and however the three tasks interleave, the image that is verified  *)
(* is complete in staging memory.                                           *)

\* Every byte of the accepted image has been written.
Whole == \A i \in 0..(imageSize - 1) : i \in staged

\* The download of the first accepted component is under way.
FirstDownload == fdState = "Download" /\ accepted = 1

\* Before the first component is accepted nothing has been transferred, the
\* initiator has nothing outstanding and the updater has not been asked for
\* anything it could take for a verification.
BeforeFirst ==
  accepted = 0 =>
    /\ curOff = 0 /\ downloaded = 0 /\ ~session.on
    /\ pldmState \in {"DownloadingImage", "Activate"}
    /\ fpc \in {"waitVerify", "failed"}
    /\ fdState \notin FDDriven
    /\ ipc \in {"wait", "loop", "exited"}

\* A session that is on has more to request; where the task awaits something
\* for it, its request is outstanding; the regular path runs without one.
SessionShape ==
  /\ session.on => ~session.complete
  /\ ipc \in {"sSend", "sRecv", "sWrite"} => session.on /\ session.state = "Sent"
  /\ ipc \in {"regular", "send", "recv", "write", "verify", "apply"} => ~session.on

\* Everything below the next offset has been written.
PrefixStaged == accepted = 1 => \A i \in 0..(curOff - 1) : i \in staged

\* During the first download: the length is the image's; the counter runs
\* ahead of the offset by the chunk being written; and if it does at any
\* other time (a write failed) no further chunk will ever be asked for.
DownloadShape ==
  FirstDownload =>
    /\ total = imageSize
    /\ ipc \notin {"verify", "apply"}
    /\ ipc \in {"send", "recv", "write"} => req.state = "Sent"
    /\ pldmState = "DownloadingImage" =>
         /\ ipc = "write" => downloaded = curOff + chunk.len
         /\ ipc = "sWrite" => downloaded = curOff + session.len
         /\ (ipc \notin {"write", "sWrite"} /\ downloaded # curOff) =>
              /\ req.state = "Sent" /\ ~session.on
              /\ ipc \in {"regular", "sleep", "loop", "wait", "exited"}
    /\ pldmState = "ImageDownloadComplete" => Whole
    /\ (req.complete /\ req.result = "Success") => Whole

\* Past the first download the image is whole.
PastDownload ==
  (accepted = 1 /\ (fdState \in {"Verify", "Apply"} \/ pldmState \in {"Verifying", "Apply"}))
     => Whole

\* The inductive invariant behind WholeImage: what the transfer of the first
\* component keeps true between any two steps of the three tasks.
DownloadInv == /\ BeforeFirst /\ SessionShape /\ PrefixStaged
               /\ DownloadShape /\ PastDownload /\ WholeImage


\* A step that changes none of the state the invariant speaks of.
LEMMA Frame ==
  ASSUME DownloadInv,
         UNCHANGED <<fdState, chunk, total, curOff, downloaded, staged, pldmState,
                     ipc, fpc, accepted, imageSize>>,
         req'.state = req.state, req'.complete = req.complete,
         req'.result = req.result, session'.on = session.on,
         session'.state = session.state, session'.complete = session.complete,
         session'.len = session.len
  PROVE  DownloadInv'
<1>1. BeforeFirst' /\ SessionShape'
  BY DEF DownloadInv, BeforeFirst, SessionShape
<1>2. PrefixStaged' /\ (Whole => Whole')
  BY DEF DownloadInv, PrefixStaged, Whole
<1>3. DownloadShape'
  BY <1>2 DEF DownloadInv, DownloadShape, FirstDownload
<1>4. PastDownload' /\ WholeImage'
  BY <1>2 DEF DownloadInv, PastDownload, WholeImage, Whole
<1> QED
  BY <1>1, <1>2, <1>3, <1>4 DEF DownloadInv

\* A step of the responder that ends or stays out of the download.
LEMMA OutOfDownload ==
  ASSUME DownloadInv,
         UNCHANGED <<req, chunk, curOff, downloaded, staged, ipc, session, fpc,
                     accepted, imageSize>>,
         fdState' \notin FDDriven, pldmState' \in {pldmState, "Activate"}
  PROVE  DownloadInv'
<1>1. BeforeFirst' /\ SessionShape'
  BY DEF DownloadInv, BeforeFirst, SessionShape
<1>2. PrefixStaged' /\ (Whole => Whole')
  BY DEF DownloadInv, PrefixStaged, Whole
<1>3. DownloadShape'
  BY DEF DownloadShape, FirstDownload, FDDriven
<1>4. PastDownload' /\ WholeImage'
  BY <1>2 DEF DownloadInv, PastDownload, WholeImage, Whole, FDDriven
<1> QED
  BY <1>1, <1>2, <1>3, <1>4 DEF DownloadInv

LEMMA DownloadInit == Init => DownloadInv
<1> SUFFICES ASSUME Init PROVE DownloadInv
  OBVIOUS
<1>1. session.on = FALSE
  BY DEF Init, NoSession
<1>2. BeforeFirst /\ SessionShape
  BY <1>1 DEF Init, BeforeFirst, SessionShape, FDDriven
<1>3. accepted = 0
  BY DEF Init
<1> QED
  BY <1>2, <1>3 DEF DownloadInv, PrefixStaged, DownloadShape, FirstDownload,
                    PastDownload, WholeImage

LEMMA TickKeeps == TypeInv /\ DownloadInv /\ Tick => DownloadInv'
<1> SUFFICES ASSUME TypeInv, DownloadInv, Tick PROVE DownloadInv'
  OBVIOUS
<1>1. /\ req'.state = req.state /\ req'.complete = req.complete
      /\ req'.result = req.result
  BY DEF Tick, TypeInv, TypeOK, CtxType, Req
<1>2. /\ session'.on = session.on /\ session'.state = session.state
      /\ session'.complete = session.complete /\ session'.len = session.len
  BY DEF Tick, TypeInv, TypeOK, InitType, Session
<1>3. UNCHANGED <<fdState, chunk, total, curOff, downloaded, staged, pldmState,
                  ipc, fpc, accepted, imageSize>>
  BY DEF Tick
<1> QED
  BY <1>1, <1>2, <1>3, Frame

LEMMA OfferKeeps ==
  ASSUME TypeInv, DownloadInv, fdState = "ReadyXfer",
         NEW size \in Nat, NEW wanted, NEW ok, ok => wanted,
         OfferComponent(size, wanted, ok),
         UNCHANGED <<curOff, downloaded, pldmState, ipc, session, fpc>>
  PROVE  DownloadInv'
<1>1. CASE ~ok
  BY <1>1, OutOfDownload DEF OfferComponent, FDDriven
<1>2. CASE ok /\ accepted = 0
  <2>1. /\ fdState' = "Download" /\ accepted' = 1
        /\ total' = size /\ imageSize' = size
    BY <1>2 DEF OfferComponent, Lesser, handle_component
  <2>2. req'.complete = FALSE
    BY <1>2 DEF OfferComponent, FdReq
  <2>3. /\ curOff' = 0 /\ downloaded' = 0 /\ session'.on = FALSE
        /\ pldmState' \in {"DownloadingImage", "Activate"}
        /\ fpc' \in {"waitVerify", "failed"}
        /\ ipc' \in {"wait", "loop", "exited"}
    BY <1>2 DEF DownloadInv, BeforeFirst
  <2>4. BeforeFirst' /\ SessionShape' /\ PrefixStaged'
    BY <2>1, <2>3 DEF BeforeFirst, SessionShape, PrefixStaged
  <2>5. DownloadShape'
    BY <2>1, <2>2, <2>3 DEF DownloadShape, FirstDownload
  <2>6. PastDownload' /\ WholeImage'
    BY <2>1, <2>3 DEF PastDownload, WholeImage
  <2> QED
    BY <2>4, <2>5, <2>6 DEF DownloadInv
<1>3. CASE ok /\ accepted # 0
  <2>1. accepted' = 2
    BY <1>3 DEF OfferComponent, Lesser, TypeInv, TypeOK, HistType
  <2> QED
    BY <2>1 DEF DownloadInv, BeforeFirst, SessionShape, PrefixStaged,
                DownloadShape, FirstDownload, PastDownload, WholeImage
<1> QED
  BY <1>1, <1>2, <1>3

LEMMA ProcessKeeps ==
  ASSUME TypeInv, DownloadInv, NEW c \in Commands, Process(c)
  PROVE  DownloadInv'
<1>1. CASE ProcessRead(c) \/ ProcessBad(c)
  BY <1>1, Frame DEF ProcessRead, ProcessBad
<1>2. CASE ProcessRequestUpdate(c)
  <2>1. fdState' \notin FDDriven \/ UNCHANGED fdState
    BY <1>2 DEF ProcessRequestUpdate, request_update_rsp, FDDriven
  <2>2. UNCHANGED <<req, chunk, dlVars, ipc, session, fpc, accepted, imageSize>>
    BY <1>2 DEF ProcessRequestUpdate, request_update_rsp
  <2> QED
    BY <2>1, <2>2, OutOfDownload, Frame
<1>3. CASE ProcessPassComponent(c)
  <2>1. \/ fdState' \notin FDDriven
        \/ UNCHANGED <<fdState, total>>
    BY <1>3 DEF ProcessPassComponent, pass_component_rsp, FDDriven
  <2>2. UNCHANGED <<req, chunk, pldmState, curOff, downloaded, staged, ipc,
                    session, fpc, accepted, imageSize>>
    BY <1>3 DEF ProcessPassComponent, pass_component_rsp
  <2> QED
    BY <2>1, <2>2, OutOfDownload, Frame
<1>4. CASE ProcessUpdateComponent(c)
  <2>1. c.size \in Nat
    BY <1>4, CommandFields, SizesAssumption DEF ProcessUpdateComponent
  <2>2. UNCHANGED <<curOff, downloaded, pldmState, ipc, session, fpc>>
    BY <1>4 DEF ProcessUpdateComponent
  <2>3. CASE fdState # "ReadyXfer"
    BY <1>4, <2>2, <2>3, Frame DEF ProcessUpdateComponent, update_component_rsp
  <2>4. CASE fdState = "ReadyXfer"
    BY <1>4, <2>1, <2>2, <2>4, OfferKeeps
    DEF ProcessUpdateComponent, update_component_rsp
  <2> QED
    BY <2>3, <2>4
<1>5. CASE ProcessActivate(c)
  <2>1. \/ fdState' \notin FDDriven /\ pldmState' = "Activate"
        \/ UNCHANGED <<fdState, pldmState>>
    BY <1>5 DEF ProcessActivate, activate_firmware_rsp, FDDriven
  <2>2. UNCHANGED <<req, chunk, total, curOff, downloaded, staged, ipc, session,
                    fpc, accepted, imageSize>>
    BY <1>5 DEF ProcessActivate
  <2> QED
    BY <2>1, <2>2, OutOfDownload, Frame
<1>6. CASE ProcessCancel(c)
  <2>1. fdState' \notin FDDriven \/ UNCHANGED fdState
    BY <1>6 DEF ProcessCancel, cancel_update_component_rsp, cancel_update_rsp, FDDriven
  <2>2. UNCHANGED <<req, chunk, dlVars, ipc, session, fpc, accepted, imageSize>>
    BY <1>6 DEF ProcessCancel
  <2> QED
    BY <2>1, <2>2, OutOfDownload, Frame
<1> QED
  BY <1>1, <1>2, <1>3, <1>4, <1>5, <1>6 DEF Process

LEMMA ResponderKeeps == TypeInv /\ DownloadInv /\ ResponderStep => DownloadInv'
<1> SUFFICES ASSUME TypeInv, DownloadInv, ResponderStep PROVE DownloadInv'
  OBVIOUS
<1>1. CASE ReceiveRequest
  <2>1. \/ \E c \in Commands : Process(c)
        \/ UNCHANGED <<ctxVars, initVars, dlVars, fwVars, historyVars>>
    BY <1>1 DEF ReceiveRequest
  <2> QED
    BY <2>1, ProcessKeeps, Frame
<1>2. CASE InitiatorDone
  BY <1>2, ProcessKeeps DEF InitiatorDone, TypeInv, TypeOK, RespType
<1>3. CASE SendResponse
  BY <1>3, Frame DEF SendResponse
<1> QED
  BY <1>1, <1>2, <1>3 DEF ResponderStep

LEMMA UpdaterKeeps == DownloadInv /\ UpdaterStep => DownloadInv'
<1> SUFFICES ASSUME DownloadInv, UpdaterStep PROVE DownloadInv'
  OBVIOUS
<1>1. UNCHANGED otherVars
  BY DEF UpdaterStep, UpdaterWait, pldm_wait, UpdaterVerify, UpdaterMark, UpdaterActivate
<1>2. \/ fpc' = "failed"
      \/ fpc \notin {"waitVerify", "failed"}
      \/ fpc = "waitVerify" /\ fpc' = "verify" /\ pldmState = "Verifying"
  BY DEF UpdaterStep, UpdaterWait, pldm_wait, UpdaterVerify, UpdaterMark, UpdaterActivate
<1>3. \/ fpc' = "failed"
      \/ fpc \in {"verify", "waitApply", "mark", "waitActivate", "activate", "done"}
      \/ fpc = "waitVerify" /\ fpc' = "verify" /\ pldmState = "Verifying"
  BY DEF UpdaterStep, UpdaterWait, pldm_wait, UpdaterVerify, UpdaterMark, UpdaterActivate
<1>4. BeforeFirst' /\ SessionShape'
  BY <1>1, <1>2 DEF DownloadInv, BeforeFirst, SessionShape
<1>5. PrefixStaged' /\ (Whole => Whole')
  BY <1>1 DEF DownloadInv, PrefixStaged, Whole
<1>6. DownloadShape'
  BY <1>1, <1>5 DEF DownloadInv, DownloadShape, FirstDownload
<1>7. PastDownload' /\ WholeImage'
  BY <1>1, <1>3, <1>5 DEF DownloadInv, PastDownload, WholeImage, Whole
<1> QED
  BY <1>4, <1>5, <1>6, <1>7 DEF DownloadInv

\* What a step of the initiator must keep, once a component was accepted.
LEMMA InitiatorFrame ==
  ASSUME DownloadInv, accepted # 0, UNCHANGED <<fpc, accepted, imageSize>>,
         accepted = 1 => (Whole => Whole'),
         SessionShape', PrefixStaged', DownloadShape', PastDownload'
  PROVE  DownloadInv'
<1>1. BeforeFirst'
  BY DEF BeforeFirst
<1>2. WholeImage'
  BY DEF DownloadInv, WholeImage, Whole
<1> QED
  BY <1>1, <1>2 DEF DownloadInv

\* The initiator works only for an accepted component.
LEMMA Started ==
  ASSUME DownloadInv, ipc \notin {"wait", "loop", "exited"} \/ fdState \in FDDriven
  PROVE  accepted # 0
  BY DEF DownloadInv, BeforeFirst

LEMMA WakeKeeps == TypeInv /\ DownloadInv /\ InitiatorWake => DownloadInv'
<1> SUFFICES ASSUME TypeInv, DownloadInv, InitiatorWake PROVE DownloadInv'
  OBVIOUS
<1>1. session'.on = FALSE
  BY DEF InitiatorWake, NoSession
<1>2. ipc = "wait" /\ ipc' \in {"loop", "exited"}
  BY DEF InitiatorWake
<1>3. UNCHANGED <<ctxVars, dlVars, fpc, accepted, imageSize>>
  BY DEF InitiatorWake
<1>4. BeforeFirst' /\ SessionShape'
  BY <1>1, <1>2, <1>3 DEF DownloadInv, BeforeFirst, SessionShape
<1>5. PrefixStaged' /\ (Whole => Whole')
  BY <1>3 DEF DownloadInv, PrefixStaged, Whole
<1>6. DownloadShape'
  BY <1>1, <1>2, <1>3, <1>5 DEF DownloadInv, DownloadShape, FirstDownload
<1>7. PastDownload' /\ WholeImage'
  BY <1>3, <1>5 DEF DownloadInv, PastDownload, WholeImage, Whole
<1> QED
  BY <1>4, <1>5, <1>6, <1>7 DEF DownloadInv

LEMMA SleepOverKeeps == DownloadInv /\ SleepOver => DownloadInv'
<1> SUFFICES ASSUME DownloadInv, SleepOver PROVE DownloadInv'
  OBVIOUS
<1>1. /\ ipc = "sleep" /\ ipc' = "loop"
      /\ UNCHANGED <<ctxVars, session, dlVars, fpc, accepted, imageSize>>
  BY DEF SleepOver
<1>2. PrefixStaged' /\ (Whole => Whole')
  BY <1>1 DEF DownloadInv, PrefixStaged, Whole
<1>3. SessionShape' /\ PastDownload'
  BY <1>1, <1>2 DEF DownloadInv, SessionShape, PastDownload
<1>4. DownloadShape'
  BY <1>1, <1>2 DEF DownloadInv, DownloadShape, FirstDownload
<1> QED
  BY <1>1, <1>2, <1>3, <1>4, Started, InitiatorFrame

LEMMA NewSessionShape ==
  ASSUME NEW n, NEW m
  PROVE  /\ TransferSession(n, m).on = TRUE
         /\ TransferSession(n, m).complete = FALSE
  BY DEF TransferSession, NoSession

\* After Settle the initiator sleeps with its old session or a new one.
LEMMA SettleShape ==
  ASSUME SessionShape, NEW ok, Settle(ok)
  PROVE  SessionShape' /\ ipc' = "sleep"
<1>1. ipc' = "sleep"
  BY DEF Settle
<1>2. session' = session \/ session' = TransferSession(compSize, xferSize)
  BY DEF Settle
<1> QED
  BY <1>1, <1>2, NewSessionShape DEF SessionShape

LEMMA RegularKeeps == TypeInv /\ DownloadInv /\ InitiatorRegular => DownloadInv'
<1> SUFFICES ASSUME TypeInv, DownloadInv, InitiatorRegular PROVE DownloadInv'
  OBVIOUS
<1>1. /\ ipc = "regular" /\ accepted # 0 /\ UNCHANGED <<accepted, imageSize>>
  BY Started DEF InitiatorRegular
<1>2. CASE NoRequest /\ UNCHANGED <<ctxVars, dlVars, fwVars>>
  <2>1. ipc' = "sleep" /\ UNCHANGED session
    BY <1>2 DEF NoRequest
  <2>2. PrefixStaged' /\ (Whole => Whole')
    BY <1>1, <1>2 DEF DownloadInv, PrefixStaged, Whole
  <2>3. SessionShape' /\ PastDownload'
    BY <1>1, <1>2, <2>1, <2>2 DEF DownloadInv, SessionShape, PastDownload
  <2>4. DownloadShape'
    BY <1>1, <1>2, <2>1, <2>2 DEF DownloadInv, DownloadShape, FirstDownload
  <2> QED
    BY <1>1, <1>2, <2>2, <2>3, <2>4, InitiatorFrame
<1>3. CASE /\ fdState = "Download" /\ fd_progress_download
           /\ ~(NoRequest /\ UNCHANGED <<ctxVars, dlVars, fwVars>>)
  <2>1. /\ req.state = "Ready"
        /\ req' = IF req.complete
                  THEN FdReq("Sent", TRUE, req.result, "TransferComplete")
                  ELSE FdReq("Sent", FALSE, "None", "RequestFirmwareData")
        /\ UNCHANGED <<dlVars, fwVars>>
    BY <1>3 DEF fd_progress_download
  <2>2. /\ req'.state = "Sent" /\ req'.complete = req.complete
        /\ req.complete => req'.result = req.result
    BY <2>1 DEF FdReq, TypeInv, TypeOK, CtxType, Req
  <2>3. \/ fdState' = "Idle" /\ ipc' = "sleep" /\ UNCHANGED session
        \/ fdState' = "Download" /\ ipc' = "send" /\ UNCHANGED session
    BY <1>3 DEF fd_progress_download, NoRequest, Launch
  <2>4. PrefixStaged' /\ (Whole => Whole')
    BY <1>1, <2>1 DEF DownloadInv, PrefixStaged, Whole
  <2>5. SessionShape' /\ PastDownload'
    BY <1>1, <2>1, <2>3, <2>4 DEF DownloadInv, SessionShape, PastDownload
  <2>6. DownloadShape'
    BY <1>1, <1>3, <2>1, <2>2, <2>3, <2>4 DEF DownloadInv, DownloadShape, FirstDownload
  <2> QED
    BY <1>1, <2>1, <2>4, <2>5, <2>6, InitiatorFrame
<1>4. ASSUME fdState \in {"Verify", "Apply"},
             NEW cmd, NEW st \in {"Verifying", "Apply"}, NEW at \in {"verify", "apply"},
             ProgressOp(cmd, st, at),
             ~(NoRequest /\ UNCHANGED <<ctxVars, dlVars, fwVars>>)
      PROVE  DownloadInv'
  <2>1. /\ UNCHANGED <<fdState, session, total, curOff, downloaded, staged, fpc>>
        /\ ipc' \in {"send", "verify", "apply"}
    BY <1>4 DEF ProgressOp, SendComplete, Launch
  <2>2. PrefixStaged' /\ (Whole => Whole')
    BY <1>1, <2>1 DEF DownloadInv, PrefixStaged, Whole
  <2>3. SessionShape' /\ PastDownload' /\ DownloadShape'
    BY <1>1, <1>4, <2>1, <2>2
    DEF DownloadInv, SessionShape, PastDownload, DownloadShape, FirstDownload
  <2> QED
    BY <1>1, <2>1, <2>2, <2>3, InitiatorFrame
<1> QED
  BY <1>2, <1>3, <1>4 DEF InitiatorRegular

LEMMA OperationDoneKeeps == DownloadInv /\ OperationDone => DownloadInv'
<1> SUFFICES ASSUME DownloadInv, OperationDone PROVE DownloadInv'
  OBVIOUS
<1>1. /\ ipc \in {"verify", "apply"} /\ ipc' = "send"
      /\ UNCHANGED <<fdState, session, dlVars, fpc, accepted, imageSize>>
  BY DEF OperationDone, SendComplete, Launch
<1>2. PrefixStaged' /\ (Whole => Whole')
  BY <1>1 DEF DownloadInv, PrefixStaged, Whole
<1>3. SessionShape' /\ PastDownload' /\ DownloadShape'
  BY <1>1, <1>2
  DEF DownloadInv, SessionShape, PastDownload, DownloadShape, FirstDownload
<1> QED
  BY <1>1, <1>2, <1>3, Started, InitiatorFrame

\* The initiator gives up on a request without having received its data.
LEMMA GiveUpKeeps ==
  ASSUME DownloadInv, ipc \in {"send", "recv"},
         UNCHANGED <<fdState, req, chunk, dlVars, fpc, accepted, imageSize>>,
         Settle(FALSE) \/ Settle(TRUE)
  PROVE  DownloadInv'
<1>1. ipc' = "sleep" /\ SessionShape'
  BY SettleShape DEF DownloadInv
<1>2. PrefixStaged' /\ (Whole => Whole')
  BY DEF DownloadInv, PrefixStaged, Whole
<1>3. DownloadShape' /\ PastDownload'
  BY <1>1, <1>2 DEF DownloadInv, DownloadShape, FirstDownload, PastDownload
<1> QED
  BY <1>1, <1>2, <1>3, Started, InitiatorFrame

LEMMA RequestSentKeeps == DownloadInv /\ RequestSent => DownloadInv'
<1> SUFFICES ASSUME DownloadInv, RequestSent PROVE DownloadInv'
  OBVIOUS
<1>1. ipc = "send" /\ UNCHANGED <<ctxVars, dlVars, fpc, accepted, imageSize>>
  BY DEF RequestSent
<1>2. CASE Settle(FALSE)
  BY <1>1, <1>2, GiveUpKeeps
<1>3. CASE ipc' = "recv" /\ UNCHANGED session
  <2>1. PrefixStaged' /\ (Whole => Whole')
    BY <1>1 DEF DownloadInv, PrefixStaged, Whole
  <2>2. SessionShape' /\ PastDownload'
    BY <1>1, <1>3, <2>1 DEF DownloadInv, SessionShape, PastDownload
  <2>3. DownloadShape'
    BY <1>1, <1>3, <2>1 DEF DownloadInv, DownloadShape, FirstDownload
  <2> QED
    BY <1>1, <2>1, <2>2, <2>3, Started, InitiatorFrame
<1> QED
  BY <1>2, <1>3 DEF RequestSent

LEMMA ResponseLostKeeps == DownloadInv /\ ResponseLost => DownloadInv'
  BY GiveUpKeeps DEF ResponseLost

LEMMA FwDataRspKeeps ==
  ASSUME TypeInv, DownloadInv, ipc = "recv", NEW code,
         process_request_fw_data_rsp(code),
         UNCHANGED <<chunk, fpc, accepted, imageSize>>
  PROVE  DownloadInv'
<1>1. CASE UNCHANGED <<fdState, req, dlVars>> /\ (Settle(FALSE) \/ Settle(TRUE))
  BY <1>1, GiveUpKeeps
<1>2. CASE /\ fdState = "Download"
           /\ req' = FdReq("Ready", TRUE, "Aborted", "None")
           /\ UNCHANGED <<fdState, dlVars>> /\ Settle(TRUE)
  <2>1. ipc' = "sleep" /\ SessionShape'
    BY <1>2, SettleShape DEF DownloadInv
  <2>2. req'.result = "Aborted"
    BY <1>2 DEF FdReq
  <2>3. UNCHANGED <<fdState, dlVars>>
    BY <1>2
  <2>4. PrefixStaged' /\ (Whole => Whole')
    BY <2>3 DEF DownloadInv, PrefixStaged, Whole
  <2>5. DownloadShape' /\ PastDownload'
    BY <2>1, <2>2, <2>3, <2>4 DEF DownloadInv, DownloadShape, FirstDownload, PastDownload
  <2> QED
    BY <2>1, <2>4, <2>5, Started, InitiatorFrame
<1>3. CASE /\ BeginWrite(chunk.len) /\ ipc' = "write"
           /\ UNCHANGED <<fdState, req, session>>
  <2>1. /\ downloaded' = downloaded + chunk.len
        /\ UNCHANGED <<pldmState, total, curOff, staged>>
    BY <1>3 DEF BeginWrite
  <2>2. PrefixStaged' /\ (Whole => Whole')
    BY <2>1 DEF DownloadInv, PrefixStaged, Whole
  <2>3. SessionShape' /\ PastDownload'
    BY <1>3, <2>1, <2>2 DEF DownloadInv, SessionShape, PastDownload
  <2>4. DownloadShape'
    BY <1>3, <2>1, <2>2 DEF DownloadInv, DownloadShape, FirstDownload
  <2> QED
    BY <2>2, <2>3, <2>4, Started, InitiatorFrame
<1> QED
  BY <1>1, <1>2, <1>3 DEF process_request_fw_data_rsp

LEMMA ProcessCompleteKeeps ==
  ASSUME TypeInv, DownloadInv, ipc = "recv",
         NEW st \in FirmwareDeviceState, NEW next \in {"Verify", "Apply", "ReadyXfer"},
         st \in {"Download", "Verify"} \/ next = "ReadyXfer", NEW rs,
         ProcessComplete(st, next, rs),
         UNCHANGED <<chunk, fpc, accepted, imageSize>>
  PROVE  DownloadInv'
<1>1. UNCHANGED dlVars
  BY DEF ProcessComplete
<1>2. CASE UNCHANGED <<fdState, req>> /\ Settle(FALSE)
  BY <1>1, <1>2, GiveUpKeeps
<1>3. PrefixStaged' /\ (Whole => Whole')
  BY <1>1 DEF DownloadInv, PrefixStaged, Whole
<1>4. CASE /\ fdState = st /\ req.complete /\ req.result = "Success"
           /\ fdState' = next /\ Settle(TRUE)
  <2>1. SessionShape'
    BY <1>4, SettleShape DEF DownloadInv
  <2>2. DownloadShape' /\ PastDownload'
    BY <1>1, <1>3, <1>4 DEF DownloadInv, DownloadShape, FirstDownload, PastDownload
  <2> QED
    BY <1>1, <1>3, <2>1, <2>2, Started, InitiatorFrame
<1>5. CASE /\ req.result # "Success" /\ UNCHANGED fdState /\ Settle(TRUE)
           /\ req' = FdReq("Failed", TRUE, req.result, "None")
  <2>1. ipc' = "sleep" /\ SessionShape'
    BY <1>5, SettleShape DEF DownloadInv
  <2>2. req'.result # "Success"
    BY <1>5 DEF FdReq
  <2>3. UNCHANGED fdState
    BY <1>5
  <2>4. DownloadShape' /\ PastDownload'
    BY <1>1, <1>3, <2>1, <2>2, <2>3
    DEF DownloadInv, DownloadShape, FirstDownload, PastDownload
  <2> QED
    BY <1>1, <1>3, <2>1, <2>4, Started, InitiatorFrame
<1> QED
  BY <1>2, <1>4, <1>5 DEF ProcessComplete

LEMMA HandleResponseKeeps == TypeInv /\ DownloadInv /\ HandleResponse => DownloadInv'
<1> SUFFICES ASSUME TypeInv, DownloadInv, HandleResponse PROVE DownloadInv'
  OBVIOUS
<1>1. ipc = "recv" /\ UNCHANGED <<chunk, fpc, accepted, imageSize>>
  BY DEF HandleResponse
<1>2. CASE \E code \in Answers : process_request_fw_data_rsp(code)
  BY <1>1, <1>2, FwDataRspKeeps
<1>3. CASE \/ ProcessComplete("Download", "Verify", "Ready")
           \/ ProcessComplete("Verify", "Apply", "Ready")
           \/ ProcessComplete("Apply", "ReadyXfer", "Unused")
  BY <1>1, <1>3, ProcessCompleteKeeps DEF FirmwareDeviceState
<1> QED
  BY <1>2, <1>3 DEF HandleResponse

LEMMA PrefixGrows ==
  ASSUME NEW S, NEW a \in Nat, NEW len \in Nat, NEW b \in {a, a + len},
         \A i \in 0..(a - 1) : i \in S
  PROVE  \A i \in 0..(b - 1) : i \in S \cup (a .. (a + len - 1))
  OBVIOUS

\* The end of a write extends the staged prefix by the chunk written.
LEMMA EndWriteStages ==
  ASSUME TypeInv, PrefixStaged, UNCHANGED <<accepted, imageSize>>,
         NEW len \in Nat, EndWrite(len)
  PROVE  /\ PrefixStaged' /\ (Whole => Whole')
         /\ (/\ accepted = 1 /\ downloaded = curOff + len /\ total = imageSize
             /\ downloaded >= total) => Whole'
         /\ UNCHANGED <<total, downloaded>>
         /\ IF downloaded >= total
            THEN UNCHANGED curOff /\ pldmState' # "DownloadingImage"
            ELSE curOff' = curOff + len /\ UNCHANGED pldmState
<1>1. staged' = staged \cup (curOff .. (curOff + len - 1))
  BY DEF EndWrite
<1>2. curOff \in Nat /\ imageSize \in Nat /\ downloaded \in Nat /\ total \in Nat
  BY DEF TypeInv, TypeOK, DlType, HistType
<1>3. curOff' \in {curOff, curOff + len} /\ UNCHANGED <<total, downloaded>>
  BY DEF EndWrite
<1>4. PrefixStaged'
  BY <1>1, <1>2, <1>3, PrefixGrows DEF PrefixStaged
<1>5. Whole => Whole'
  BY <1>1 DEF Whole
<1>6. (/\ accepted = 1 /\ downloaded = curOff + len /\ total = imageSize
       /\ downloaded >= total) => Whole'
  BY <1>1, <1>2 DEF PrefixStaged, Whole
<1>7. IF downloaded >= total
      THEN UNCHANGED curOff /\ pldmState' # "DownloadingImage"
      ELSE curOff' = curOff + len /\ UNCHANGED pldmState
  BY DEF EndWrite
<1> QED
  BY <1>3, <1>4, <1>5, <1>6, <1>7

LEMMA EndWriteStates ==
  ASSUME NEW len, EndWrite(len)
  PROVE  \/ pldmState' = pldmState
         \/ pldmState = "DownloadingImage" /\ pldmState' = "ImageDownloadComplete"
  BY DEF EndWrite

LEMMA WriteDoneKeeps == TypeInv /\ DownloadInv /\ WriteDone => DownloadInv'
<1> SUFFICES ASSUME TypeInv, DownloadInv, WriteDone PROVE DownloadInv'
  OBVIOUS
<1>1. ipc = "write" /\ UNCHANGED <<fdState, chunk, fpc, accepted, imageSize>>
  BY DEF WriteDone
<1>2. Settle(TRUE) \/ Settle(FALSE)
  BY DEF WriteDone
<1>3. ipc' = "sleep" /\ SessionShape'
  BY <1>2, SettleShape DEF DownloadInv
<1>4. chunk.len \in Nat
  BY DEF TypeInv, TypeOK, CtxType
<1>5. CASE /\ EndWrite(chunk.len)
           /\ req' = IF is_download_complete(pldmState')
                     THEN FdReq("Ready", TRUE, "Success", "None")
                     ELSE FdReq("Ready", FALSE, "None", "None")
  <2>1. req'.complete => pldmState' = "ImageDownloadComplete"
    BY <1>5 DEF FdReq, is_download_complete
  <2>2. \/ pldmState' = pldmState
        \/ pldmState = "DownloadingImage" /\ pldmState' = "ImageDownloadComplete"
    BY <1>5, EndWriteStates
  <2>3. /\ PrefixStaged' /\ (Whole => Whole')
        /\ (/\ accepted = 1 /\ downloaded = curOff + chunk.len /\ total = imageSize
            /\ downloaded >= total) => Whole'
        /\ UNCHANGED <<total, downloaded>>
        /\ IF downloaded >= total
           THEN UNCHANGED curOff /\ pldmState' # "DownloadingImage"
           ELSE curOff' = curOff + chunk.len /\ UNCHANGED pldmState
    BY <1>1, <1>4, <1>5, EndWriteStages DEF DownloadInv
  <2>4. PastDownload'
    BY <1>1, <2>2, <2>3 DEF DownloadInv, PastDownload
  <2>5. FirstDownload => total' = imageSize' /\ (pldmState' = "ImageDownloadComplete" => Whole')
    BY <1>1, <2>2, <2>3 DEF DownloadInv, DownloadShape, FirstDownload
  <2>6. FirstDownload /\ pldmState' = "DownloadingImage" => downloaded' = curOff'
    BY <1>1, <2>2, <2>3 DEF DownloadInv, DownloadShape, FirstDownload
  <2>7. DownloadShape'
    BY <1>1, <1>3, <2>1, <2>5, <2>6 DEF DownloadShape, FirstDownload
  <2> QED
    BY <1>1, <1>3, <2>3, <2>4, <2>7, Started, InitiatorFrame
<1>6. CASE UNCHANGED <<req, dlVars>> /\ Settle(FALSE)
  <2>1. UNCHANGED session
    BY <1>6 DEF Settle
  <2>2. PrefixStaged' /\ (Whole => Whole') /\ PastDownload'
    BY <1>1, <1>6 DEF DownloadInv, PrefixStaged, Whole, PastDownload
  <2>3. DownloadShape'
    BY <1>1, <1>3, <1>6, <2>1, <2>2
    DEF DownloadInv, DownloadShape, FirstDownload, SessionShape
  <2> QED
    BY <1>1, <1>3, <2>2, <2>3, Started, InitiatorFrame
<1> QED
  BY <1>5, <1>6 DEF WriteDone

\* What LeaveSession copies into the context.
LEMMA LeaveSessionShape ==
  ASSUME TypeInv, NEW s \in Session, LeaveSession(s)
  PROVE  /\ req'.state = s.state /\ req'.complete = s.complete
         /\ req'.result = s.result
         /\ session'.on = FALSE /\ ipc' = "regular" /\ UNCHANGED fdState
<1>1. /\ req' = [req EXCEPT !.state = s.state, !.complete = s.complete,
                            !.result = s.result, !.age = s.age]
      /\ session' = NoSession /\ ipc' = "regular" /\ UNCHANGED fdState
  BY DEF LeaveSession
<1>2. req \in Req
  BY DEF TypeInv, TypeOK, CtxType
<1>3. /\ req'.state = s.state /\ req'.complete = s.complete
      /\ req'.result = s.result
  BY <1>1, <1>2 DEF Req
<1>4. session'.on = FALSE
  BY <1>1 DEF NoSession
<1> QED
  BY <1>1, <1>3, <1>4

LEMMA MarkShape ==
  ASSUME NEW s \in Session
  PROVE  /\ mark_ready_for_next(s).complete = FALSE
         /\ mark_ready_for_next(s).on = s.on
         /\ mark_sent(s).state = "Sent" /\ mark_sent(s).on = s.on
         /\ mark_sent(s).complete = s.complete
  BY DEF Session, mark_ready_for_next, mark_sent

LEMMA MarkResult ==
  ASSUME NEW s \in Session, NEW r
  PROVE  /\ mark_complete(s, r).result = r
         /\ mark_failed(s, r).result = r
  BY DEF Session, mark_complete, mark_failed

\* The session ends unsuccessfully and nothing is being written.
LEMMA AbandonKeeps ==
  ASSUME TypeInv, DownloadInv, accepted # 0, session.on, ipc # "sWrite",
         NEW s \in Session, LeaveSession(s), s.result # "Success" \/ ~s.complete,
         UNCHANGED <<dlVars, fpc, accepted, imageSize>>
  PROVE  DownloadInv'
<1>1. /\ req'.complete = s.complete /\ req'.result = s.result
      /\ session'.on = FALSE /\ ipc' = "regular" /\ UNCHANGED fdState
  BY LeaveSessionShape
<1>2. ipc # "write"
  BY DEF DownloadInv, SessionShape
<1>3. PrefixStaged' /\ (Whole => Whole')
  BY DEF DownloadInv, PrefixStaged, Whole
<1>4. SessionShape' /\ PastDownload'
  BY <1>1, <1>3 DEF DownloadInv, SessionShape, PastDownload
<1>5. DownloadShape'
  BY <1>1, <1>2, <1>3 DEF DownloadInv, DownloadShape, FirstDownload
<1> QED
  BY <1>3, <1>4, <1>5, InitiatorFrame

\* The session goes on and nothing is being written.
LEMMA KeepSessionKeeps ==
  ASSUME TypeInv, DownloadInv, accepted # 0, session.on, ipc # "sWrite",
         NEW s, KeepSession(s), ~s.complete,
         UNCHANGED <<dlVars, fpc, accepted, imageSize>>
  PROVE  DownloadInv'
<1>1. /\ session' = s /\ ipc' \in {"loop", "sleep"} /\ UNCHANGED ctxVars
  BY DEF KeepSession
<1>2. ipc # "write"
  BY DEF DownloadInv, SessionShape
<1>3. PrefixStaged' /\ (Whole => Whole')
  BY DEF DownloadInv, PrefixStaged, Whole
<1>4. SessionShape' /\ PastDownload'
  BY <1>1, <1>3 DEF DownloadInv, SessionShape, PastDownload
<1>5. DownloadShape'
  BY <1>1, <1>2, <1>3 DEF DownloadInv, DownloadShape, FirstDownload
<1> QED
  BY <1>3, <1>4, <1>5, InitiatorFrame

LEMMA LoopKeeps == TypeInv /\ DownloadInv /\ InitiatorLoop => DownloadInv'
<1> SUFFICES ASSUME TypeInv, DownloadInv, InitiatorLoop PROVE DownloadInv'
  OBVIOUS
<1>1. ipc = "loop" /\ UNCHANGED <<dlVars, fpc, accepted, imageSize>>
  BY DEF InitiatorLoop
<1>2. session \in Session
  BY DEF TypeInv, TypeOK, InitType
<1>3. PrefixStaged' /\ (Whole => Whole')
  BY <1>1 DEF DownloadInv, PrefixStaged, Whole
<1>4. CASE ipc' = "wait" /\ session' = NoSession /\ UNCHANGED ctxVars
  <2>1. session'.on = FALSE
    BY <1>4 DEF NoSession
  <2>2. BeforeFirst' /\ SessionShape'
    BY <1>1, <1>4, <2>1 DEF DownloadInv, BeforeFirst, SessionShape
  <2>3. DownloadShape'
    BY <1>1, <1>3, <1>4, <2>1 DEF DownloadInv, DownloadShape, FirstDownload
  <2>4. PastDownload' /\ WholeImage'
    BY <1>1, <1>3, <1>4 DEF DownloadInv, PastDownload, WholeImage, Whole
  <2> QED
    BY <1>3, <2>2, <2>3, <2>4 DEF DownloadInv
<1>5. CASE /\ fdState \in FDDriven /\ ~session.on
           /\ ipc' = "regular" /\ UNCHANGED <<ctxVars, session>>
  <2>1. SessionShape' /\ PastDownload'
    BY <1>1, <1>3, <1>5 DEF DownloadInv, SessionShape, PastDownload
  <2>2. DownloadShape'
    BY <1>1, <1>3, <1>5 DEF DownloadInv, DownloadShape, FirstDownload
  <2> QED
    BY <1>1, <1>3, <1>5, <2>1, <2>2, Started, InitiatorFrame
<1>6. CASE fdState \in FDDriven /\ session.on /\ SessionRound
  <2>1. accepted # 0 /\ ~session.complete
    BY <1>6, Started DEF DownloadInv, SessionShape
  <2>2. CASE \/ LeaveSession(mark_complete(session, "Aborted"))
             \/ LeaveSession(mark_failed(session, "Aborted"))
             \/ LeaveSession(session)
    <3>1. ipc # "sWrite"
      BY <1>1
    <3>2. /\ mark_complete(session, "Aborted") \in Session
          /\ mark_complete(session, "Aborted").result # "Success"
          /\ mark_failed(session, "Aborted") \in Session
          /\ mark_failed(session, "Aborted").result # "Success"
      <4>1. "Aborted" \in Results
        BY DEF Results
      <4>2. /\ mark_complete(session, "Aborted") \in Session
            /\ mark_failed(session, "Aborted") \in Session
        BY <1>2, <4>1, MarkType
      <4>3. /\ mark_complete(session, "Aborted").result = "Aborted"
            /\ mark_failed(session, "Aborted").result = "Aborted"
        BY <1>2, MarkResult
      <4> QED
        BY <4>2, <4>3
    <3>3. CASE LeaveSession(mark_complete(session, "Aborted"))
      BY <1>1, <1>6, <2>1, <3>1, <3>2, <3>3, AbandonKeeps
    <3>4. CASE LeaveSession(mark_failed(session, "Aborted"))
      BY <1>1, <1>6, <2>1, <3>1, <3>2, <3>4, AbandonKeeps
    <3>5. CASE LeaveSession(session)
      BY <1>1, <1>2, <1>6, <2>1, <3>1, <3>5, AbandonKeeps
    <3> QED
      BY <2>2, <3>3, <3>4, <3>5
  <2>3. CASE KeepSession(session)
    BY <1>1, <1>6, <2>1, <2>3, KeepSessionKeeps
  <2>4. CASE /\ session' = mark_sent([session EXCEPT !.off = curOff,
                                       !.len = Lesser(query_length, session.xfer)])
             /\ ipc' = "sSend" /\ UNCHANGED ctxVars
    <3>1. curOff \in Nat /\ Lesser(query_length, session.xfer) \in Nat
      BY <1>2, QueryLengthType DEF TypeInv, TypeOK, DlType, Session, Lesser
    <3> DEFINE u == [session EXCEPT !.off = curOff,
                                    !.len = Lesser(query_length, session.xfer)]
    <3>2. u \in Session /\ u.on = session.on /\ u.complete = session.complete
      <4>1. ASSUME NEW n \in Nat, NEW m \in Nat
            PROVE  /\ [session EXCEPT !.off = n, !.len = m] \in Session
                   /\ [session EXCEPT !.off = n, !.len = m].on = session.on
                   /\ [session EXCEPT !.off = n, !.len = m].complete = session.complete
        BY <1>2 DEF Session
      <4> QED
        BY <3>1, <4>1
    <3>6. session' = mark_sent(u)
      BY <2>4
    <3> HIDE DEF u
    <3>3. session'.state = "Sent" /\ session'.on = session.on
          /\ session'.complete = session.complete
      BY <3>2, <3>6, MarkShape
    <3>4. SessionShape' /\ PastDownload'
      BY <1>1, <1>3, <1>6, <2>1, <2>4, <3>3 DEF DownloadInv, SessionShape, PastDownload
    <3>5. DownloadShape'
      BY <1>1, <1>3, <1>6, <2>4, <3>3 DEF DownloadInv, DownloadShape, FirstDownload
    <3> QED
      BY <1>1, <1>3, <2>1, <3>4, <3>5, InitiatorFrame
  <2> QED
    BY <1>6, <2>2, <2>3, <2>4 DEF SessionRound
<1> QED
  BY <1>4, <1>5, <1>6 DEF InitiatorLoop

LEMMA SessionSentKeeps == TypeInv /\ DownloadInv /\ SessionSent => DownloadInv'
<1> SUFFICES ASSUME TypeInv, DownloadInv, SessionSent PROVE DownloadInv'
  OBVIOUS
<1>1. ipc = "sSend" /\ UNCHANGED <<dlVars, fpc, accepted, imageSize>>
  BY DEF SessionSent
<1>2. accepted # 0 /\ session.on /\ ~session.complete /\ session \in Session
  BY <1>1, Started DEF DownloadInv, SessionShape, TypeInv, TypeOK, InitType
<1>3. CASE LeaveSession(session)
  BY <1>1, <1>2, <1>3, AbandonKeeps
<1>4. CASE ipc' = "sRecv" /\ UNCHANGED <<ctxVars, session>>
  <2>1. PrefixStaged' /\ (Whole => Whole')
    BY <1>1 DEF DownloadInv, PrefixStaged, Whole
  <2>2. SessionShape' /\ PastDownload'
    BY <1>1, <1>4, <2>1 DEF DownloadInv, SessionShape, PastDownload
  <2>3. DownloadShape'
    BY <1>1, <1>4, <2>1 DEF DownloadInv, DownloadShape, FirstDownload
  <2> QED
    BY <1>1, <1>2, <2>1, <2>2, <2>3, InitiatorFrame
<1> QED
  BY <1>3, <1>4 DEF SessionSent

LEMMA SessionResponseLostKeeps ==
  TypeInv /\ DownloadInv /\ SessionResponseLost => DownloadInv'
<1> SUFFICES ASSUME TypeInv, DownloadInv, SessionResponseLost PROVE DownloadInv'
  OBVIOUS
<1>1. /\ ipc = "sRecv" /\ LeaveSession(session)
      /\ UNCHANGED <<dlVars, fpc, accepted, imageSize>>
  BY DEF SessionResponseLost
<1>2. accepted # 0 /\ session.on /\ ~session.complete /\ session \in Session
  BY <1>1, Started DEF DownloadInv, SessionShape, TypeInv, TypeOK, InitType
<1> QED
  BY <1>1, <1>2, AbandonKeeps

LEMMA SessionResponseKeeps ==
  TypeInv /\ DownloadInv /\ SessionResponse => DownloadInv'
<1> SUFFICES ASSUME TypeInv, DownloadInv, SessionResponse PROVE DownloadInv'
  OBVIOUS
<1>1. ipc = "sRecv" /\ UNCHANGED <<fpc, accepted, imageSize>>
  BY DEF SessionResponse
<1>2. accepted # 0 /\ session.on /\ ~session.complete /\ session \in Session
  BY <1>1, Started DEF DownloadInv, SessionShape, TypeInv, TypeOK, InitType
<1> DEFINE s == [session EXCEPT !.t1 = 0]
<1>3. /\ s.on = session.on /\ s.complete = session.complete
      /\ s.state = session.state /\ s.len = session.len
  BY <1>2 DEF Session
<1>4. s \in Session
  <2>1. ASSUME NEW u \in Session PROVE [u EXCEPT !.t1 = 0] \in Session
    BY TimeAssumption DEF Session
  <2> QED
    BY <1>2, <2>1
<1> HIDE DEF s
<1>5. CASE LeaveSession(s) /\ UNCHANGED dlVars
  BY <1>1, <1>2, <1>3, <1>4, <1>5, AbandonKeeps
<1>6. CASE LeaveSession(mark_complete(s, "Aborted")) /\ UNCHANGED dlVars
  <2>1. mark_complete(s, "Aborted") \in Session
    BY <1>4, MarkType DEF Results
  <2>2. mark_complete(s, "Aborted").result # "Success"
    BY <1>4, MarkResult
  <2> QED
    BY <1>1, <1>2, <1>6, <2>1, <2>2, AbandonKeeps
<1>7. CASE KeepSession(mark_ready_for_next(s)) /\ UNCHANGED dlVars
  <2>1. ~mark_ready_for_next(s).complete
    BY <1>4, MarkShape
  <2> QED
    BY <1>1, <1>2, <1>7, <2>1, KeepSessionKeeps
<1>8. CASE /\ BeginWrite(s.len)
           /\ session' = s /\ ipc' = "sWrite" /\ UNCHANGED ctxVars
  <2>1. /\ downloaded' = downloaded + s.len
        /\ UNCHANGED <<pldmState, total, curOff, staged>>
    BY <1>8 DEF BeginWrite
  <2>2. PrefixStaged' /\ (Whole => Whole')
    BY <1>1, <2>1 DEF DownloadInv, PrefixStaged, Whole
  <2>3. SessionShape' /\ PastDownload'
    BY <1>1, <1>2, <1>3, <1>8, <2>1, <2>2 DEF DownloadInv, SessionShape, PastDownload
  <2>4. DownloadShape'
    BY <1>1, <1>2, <1>3, <1>8, <2>1, <2>2 DEF DownloadInv, DownloadShape, FirstDownload
  <2> QED
    BY <1>1, <1>2, <2>2, <2>3, <2>4, InitiatorFrame
<1> QED
  BY <1>5, <1>6, <1>7, <1>8 DEF SessionResponse, s

LEMMA SessionWriteDoneKeeps ==
  TypeInv /\ DownloadInv /\ SessionWriteDone => DownloadInv'
<1> SUFFICES ASSUME TypeInv, DownloadInv, SessionWriteDone PROVE DownloadInv'
  OBVIOUS
<1>1. ipc = "sWrite" /\ UNCHANGED <<fpc, accepted, imageSize>>
  BY DEF SessionWriteDone
<1>2. /\ accepted # 0 /\ session.on /\ session.state = "Sent" /\ ~session.complete
      /\ session \in Session /\ session.len \in Nat
  BY <1>1, Started DEF DownloadInv, SessionShape, TypeInv, TypeOK, InitType, Session
<1>3. CASE LeaveSession(session) /\ UNCHANGED dlVars
  <2>1. /\ req'.state = "Sent" /\ req'.complete = FALSE
        /\ session'.on = FALSE /\ ipc' = "regular" /\ UNCHANGED fdState
    BY <1>2, <1>3, LeaveSessionShape DEF Session
  <2>2. PrefixStaged' /\ (Whole => Whole')
    BY <1>1, <1>3 DEF DownloadInv, PrefixStaged, Whole
  <2>3. SessionShape' /\ PastDownload'
    BY <1>1, <1>3, <2>1, <2>2 DEF DownloadInv, SessionShape, PastDownload
  <2>4. DownloadShape'
    BY <1>1, <1>3, <2>1, <2>2 DEF DownloadInv, DownloadShape, FirstDownload
  <2> QED
    BY <1>1, <1>2, <2>2, <2>3, <2>4, InitiatorFrame
<1>4. CASE /\ EndWrite(session.len)
           /\ IF is_download_complete(pldmState')
              THEN LeaveSession(mark_complete(session, "Success"))
              ELSE KeepSession(mark_ready_for_next(session))
  <2>1. \/ pldmState' = pldmState
        \/ pldmState = "DownloadingImage" /\ pldmState' = "ImageDownloadComplete"
    BY <1>4, EndWriteStates
  <2>2. /\ PrefixStaged' /\ (Whole => Whole')
        /\ (/\ accepted = 1 /\ downloaded = curOff + session.len
            /\ total = imageSize /\ downloaded >= total) => Whole'
        /\ UNCHANGED <<total, downloaded>>
        /\ IF downloaded >= total
           THEN UNCHANGED curOff /\ pldmState' # "DownloadingImage"
           ELSE curOff' = curOff + session.len /\ UNCHANGED pldmState
    BY <1>1, <1>2, <1>4, EndWriteStages DEF DownloadInv
  <2>3. UNCHANGED fdState
    BY <1>4 DEF LeaveSession, KeepSession
  <2>4. PastDownload'
    BY <1>1, <2>1, <2>2, <2>3 DEF DownloadInv, PastDownload
  <2>5. FirstDownload =>
          total' = imageSize' /\ (pldmState' = "ImageDownloadComplete" => Whole')
    BY <1>1, <2>1, <2>2 DEF DownloadInv, DownloadShape, FirstDownload
  <2>6. FirstDownload /\ pldmState' = "DownloadingImage" => downloaded' = curOff'
    BY <1>1, <2>1, <2>2 DEF DownloadInv, DownloadShape, FirstDownload
  <2>7. CASE pldmState' = "ImageDownloadComplete"
    <3>1. LeaveSession(mark_complete(session, "Success"))
      BY <1>4, <2>7 DEF is_download_complete
    <3>2. session'.on = FALSE /\ ipc' = "regular"
      BY <3>1 DEF LeaveSession, NoSession
    <3>3. SessionShape'
      BY <3>2 DEF SessionShape
    <3>4. DownloadShape'
      BY <1>1, <2>3, <2>5, <2>7, <3>2 DEF DownloadShape, FirstDownload
    <3> QED
      BY <1>1, <1>2, <2>2, <2>4, <3>3, <3>4, InitiatorFrame
  <2>8. CASE pldmState' # "ImageDownloadComplete"
    <3>1. KeepSession(mark_ready_for_next(session))
      BY <1>4, <2>8 DEF is_download_complete
    <3>2. /\ session' = mark_ready_for_next(session)
          /\ ipc' \in {"loop", "sleep"} /\ UNCHANGED ctxVars
      BY <3>1 DEF KeepSession
    <3>3. ~mark_ready_for_next(session).complete
      BY <1>2, MarkShape
    <3>4. SessionShape'
      BY <3>2, <3>3 DEF SessionShape
    <3>5. FirstDownload => (req'.complete /\ req'.result = "Success" => Whole')
      BY <2>2, <3>2 DEF DownloadInv, DownloadShape
    <3>6. DownloadShape'
      BY <1>1, <2>3, <2>5, <2>6, <3>2, <3>5 DEF DownloadShape, FirstDownload
    <3> QED
      BY <1>1, <1>2, <2>2, <2>4, <3>4, <3>6, InitiatorFrame
  <2> QED
    BY <2>7, <2>8
<1> QED
  BY <1>3, <1>4 DEF SessionWriteDone

LEMMA InitiatorKeeps == TypeInv /\ DownloadInv /\ InitiatorStep => DownloadInv'
  BY WakeKeeps, LoopKeeps, SleepOverKeeps, RegularKeeps, OperationDoneKeeps,
     RequestSentKeeps, ResponseLostKeeps, HandleResponseKeeps, WriteDoneKeeps,
     SessionSentKeeps, SessionResponseLostKeeps, SessionResponseKeeps,
     SessionWriteDoneKeeps
  DEF InitiatorStep, RegularStep, SessionStep

\* DownloadInv is inductive relative to TypeInv.
THEOREM DownloadInvariant == Spec => []DownloadInv
<1>1. TypeInv /\ DownloadInv /\ [Next]_vars => DownloadInv'
  <2> SUFFICES ASSUME TypeInv, DownloadInv, [Next]_vars PROVE DownloadInv'
    OBVIOUS
  <2>1. CASE Next
    BY <2>1, TickKeeps, ResponderKeeps, InitiatorKeeps, UpdaterKeeps DEF Next
  <2>2. CASE UNCHANGED vars
    BY <2>2, Frame DEF vars
  <2> QED
    BY <2>1, <2>2
<1> QED
  BY <1>1, DownloadInit, TypeInvariant, PTL DEF Spec

\* For every image size, transfer size, timeout, UA and combination of faults:
\* while the updater verifies, marks and activates the first accepted
\* component, the whole image is in staging memory.
THEOREM WholeImageHolds == Spec => []WholeImage
<1>1. DownloadInv => WholeImage
  BY DEF DownloadInv
<1> QED
  BY <1>1, DownloadInvariant, PTL

=============================================================================
