----------------------------- MODULE PldmFDOrder -----------------------------
(***************************************************************************)
(* The ordering guarantees between the responder, the initiator and the    *)
(* updater of PldmFD, for every value of the constants: JudgedWhenSettled, *)
(* CancelSticks, UAStable, SessionNeverWaits, NoWriteAfterVerify and       *)
(* ApplyMeansVerified.                                                     *)
(***************************************************************************)
EXTENDS PldmFDProofs

USE DEF ctxVars, flagVars, respVars, initVars, dlVars, fwVars, historyVars,
        otherVars

\* The signal for a waiting responder is only up when no response is pending.
SignalOK == respSignal => ~pending

LEMMA SettleSignal == ASSUME NEW ok, Settle(ok) PROVE SignalOK'
  BY DEF Settle, SignalOK

LEMMA SignalStep ==
  ASSUME SignalOK, [Next]_vars
  PROVE  SignalOK'
<1> USE DEF SignalOK
<1>1. CASE Tick
  BY <1>1 DEF Tick
<1>2. CASE ReceiveRequest \/ InitiatorDone
  <2>1. ASSUME NEW c, Process(c) PROVE UNCHANGED pending
    BY <2>1 DEF Process, ProcessRead, ProcessBad, ProcessRequestUpdate,
                ProcessPassComponent, ProcessUpdateComponent, ProcessActivate,
                ProcessCancel, NextMessage
  <2> QED
    BY <1>2, <2>1 DEF ReceiveRequest, InitiatorDone
<1>3. CASE SendResponse
  BY <1>3 DEF SendResponse, NextMessage
<1>4. CASE InitiatorWake \/ InitiatorLoop \/ SleepOver \/ SessionStep
  BY <1>4 DEF InitiatorWake, InitiatorLoop, SleepOver, SessionStep, SessionSent,
              SessionResponseLost, SessionResponse, SessionWriteDone
<1>5. CASE InitiatorRegular \/ OperationDone
  <2>1. UNCHANGED <<pending, respSignal>> \/ Launch
    BY <1>5 DEF InitiatorRegular, OperationDone, fd_progress_download, ProgressOp,
                SendComplete, NoRequest
  <2> QED
    BY <2>1 DEF Launch
<1>6. CASE RequestSent \/ ResponseLost \/ HandleResponse \/ WriteDone
  <2>1. \/ UNCHANGED <<pending, respSignal>>
        \/ Settle(TRUE) \/ Settle(FALSE)
    BY <1>6 DEF RequestSent, ResponseLost, HandleResponse, WriteDone,
                process_request_fw_data_rsp, ProcessComplete
  <2> QED
    BY <2>1, SettleSignal
<1>7. CASE UpdaterStep
  BY <1>7 DEF UpdaterStep, UpdaterWait, pldm_wait, UpdaterVerify, UpdaterMark,
              UpdaterActivate
<1>8. CASE UNCHANGED vars
  BY <1>8 DEF vars
<1> QED
  BY <1>1, <1>2, <1>3, <1>4, <1>5, <1>6, <1>7, <1>8
  DEF Next, ResponderStep, InitiatorStep, RegularStep

\* The judgement of UpdateComponent and ActivateFirmware waits for the response
\* the initiator has outstanding, whatever the interleaving.
THEOREM JudgedWhenSettledHolds == Spec => JudgedWhenSettled
<1>1. Init => SignalOK
  BY DEF Init, SignalOK
<1>2. ASSUME TypeInv, SignalOK, [Next]_vars, rpc # "send", rpc' = "send",
             rcmd'.cmd \in {"UpdateComponent", "Activate"}
      PROVE  ~pending
  <2>1. CASE ReceiveRequest
    <3>1. PICK c \in Commands : Process(c) /\ ~wait_for_initiator(c)
      BY <1>2, <2>1 DEF ReceiveRequest
    <3>2. rcmd' = c
      BY <1>2, <3>1 DEF Process, ProcessRead, ProcessBad, ProcessRequestUpdate,
         ProcessPassComponent, ProcessUpdateComponent, ProcessActivate,
         ProcessCancel, NextMessage
    <3> QED
      BY <1>2, <3>1, <3>2 DEF wait_for_initiator
  <2>2. CASE InitiatorDone
    BY <1>2, <2>2 DEF InitiatorDone, SignalOK
  <2>3. CASE ~ReceiveRequest /\ ~InitiatorDone
    <3>1. rpc = "send" \/ UNCHANGED rpc
      BY <1>2, <2>3
      DEF Next, vars, ResponderStep, SendResponse, Tick, InitiatorStep, RegularStep,
          SessionStep, InitiatorWake, InitiatorLoop, SleepOver, InitiatorRegular,
          OperationDone, RequestSent, ResponseLost, HandleResponse, WriteDone,
          SessionSent, SessionResponseLost, SessionResponse, SessionWriteDone,
          UpdaterStep, UpdaterWait, pldm_wait, UpdaterVerify, UpdaterMark,
          UpdaterActivate
    <3> QED
      BY <1>2, <3>1
  <2> QED
    BY <2>1, <2>2, <2>3
<1>3. SignalOK /\ [Next]_vars => SignalOK'
  BY SignalStep
<1> QED
  BY <1>1, <1>2, <1>3, TypeInvariant, PTL DEF Spec, JudgedWhenSettled

\* No step of the initiator takes the FD back into an update that was ended.
LEMMA Sticks ==
  ASSUME fdState \notin FDDriven, InitiatorStep
  PROVE  UNCHANGED fdState
<1> USE DEF FDDriven
<1>1. CASE InitiatorWake \/ SleepOver \/ OperationDone \/ RequestSent
           \/ ResponseLost \/ WriteDone
  BY <1>1 DEF InitiatorWake, SleepOver, OperationDone, SendComplete, RequestSent,
              ResponseLost, WriteDone
<1>2. CASE InitiatorLoop
  BY <1>2 DEF InitiatorLoop
<1>3. CASE InitiatorRegular
  BY <1>3 DEF InitiatorRegular
<1>4. CASE HandleResponse
  BY <1>4 DEF HandleResponse, process_request_fw_data_rsp, ProcessComplete
<1>5. CASE SessionStep
  BY <1>5 DEF SessionStep, SessionSent, SessionResponseLost, SessionResponse,
              SessionWriteDone, LeaveSession, KeepSession
<1> QED
  BY <1>1, <1>2, <1>3, <1>4, <1>5 DEF InitiatorStep, RegularStep

\* Once the update was cancelled, or timed out, no late response, finished
\* write or finished verification changes the FD state.
THEOREM CancelSticksHolds == Spec => CancelSticks
<1>1. (fdState \notin FDDriven /\ InitiatorStep) => fdState' = fdState
  BY Sticks
<1> QED
  BY <1>1, PTL DEF CancelSticks

\* While the answer to an accepted RequestUpdate is on its way, no component
\* is being updated.
BindState == ract = "Bind" => fdState \notin FDDriven

LEMMA BindStep ==
  ASSUME TypeInv, BindState, [Next]_vars
  PROVE  BindState' /\ (uaEid' # uaEid => fdState \notin FDDriven)
<1> USE DEF BindState
<1>1. CASE ReceiveRequest \/ InitiatorDone
  <2>1. ract # "Bind"
    BY <1>1 DEF ReceiveRequest, InitiatorDone, TypeInv, BindOK
  <2>2. ASSUME NEW c, Process(c)
        PROVE  /\ UNCHANGED uaEid
               /\ ract' = "Bind" => fdState' = "LearnComponents"
    BY <2>2 DEF Process, ProcessRead, ProcessBad, ProcessRequestUpdate,
         ProcessPassComponent, ProcessUpdateComponent, ProcessActivate,
         ProcessCancel, NextMessage, Answer, request_update_rsp
  <2> QED
    BY <1>1, <2>1, <2>2 DEF ReceiveRequest, InitiatorDone, FDDriven
<1>2. CASE SendResponse
  BY <1>2 DEF SendResponse, NextMessage
<1>3. CASE InitiatorStep
  <2>1. UNCHANGED respVars
    BY <1>3 DEF InitiatorStep, RegularStep,
          SessionStep, InitiatorWake, InitiatorLoop, SleepOver, InitiatorRegular,
          OperationDone, RequestSent, ResponseLost, HandleResponse, WriteDone,
          SessionSent, SessionResponseLost, SessionResponse, SessionWriteDone
  <2> QED
    BY <1>3, <2>1, Sticks
<1>4. CASE UpdaterStep \/ Tick \/ UNCHANGED vars
  BY <1>4 DEF UpdaterStep, UpdaterWait, pldm_wait, UpdaterVerify, UpdaterMark,
              UpdaterActivate, Tick, vars
<1> QED
  BY <1>1, <1>2, <1>3, <1>4 DEF Next, ResponderStep

\* The UA the initiator sends to never changes during a transfer, although the
\* responder records it only after its answer went out.
THEOREM UAStableHolds == Spec => UAStable
<1>1. Init => BindState
  BY DEF Init, BindState
<1>2. TypeInv /\ BindState /\ [Next]_vars =>
        BindState' /\ (uaEid' # uaEid => fdState \notin FDDriven)
  BY BindStep
<1> QED
  BY <1>1, <1>2, TypeInvariant, PTL DEF Spec, UAStable

LEMMA NewSessionReady ==
  ASSUME NEW n, NEW m
  PROVE  TransferSession(n, m).state = "Ready" /\ ~TransferSession(n, m).complete
  BY DEF TransferSession, NoSession

LEMMA ReadyState ==
  ASSUME NEW s \in Session
  PROVE  mark_ready_for_next(s).state = "Ready" /\ ~mark_ready_for_next(s).complete
  BY DEF Session, mark_ready_for_next

LEMMA SessionReadyStep ==
  ASSUME TypeInv, DownloadInv, SessionNeverWaits, [Next]_vars
  PROVE  SessionNeverWaits'
<1> USE DEF SessionNeverWaits
<1>0. session \in Session
  BY DEF TypeInv, TypeOK, InitType
<1>1. CASE Tick
  BY <1>0, <1>1 DEF Tick, Session
<1>2. CASE ResponderStep \/ UpdaterStep \/ UNCHANGED vars
  <2>1. UNCHANGED initVars
    BY <1>2 DEF ResponderStep, ReceiveRequest, InitiatorDone, SendResponse,
         Process, ProcessRead, ProcessBad, ProcessRequestUpdate,
         ProcessPassComponent, ProcessUpdateComponent, ProcessActivate,
         ProcessCancel, UpdaterStep, UpdaterWait, pldm_wait, UpdaterVerify,
         UpdaterMark, UpdaterActivate, vars
  <2> QED
    BY <2>1
<1>3. CASE InitiatorWake
  BY <1>3 DEF InitiatorWake, NoSession
<1>4. CASE SleepOver
  BY <1>4 DEF SleepOver
<1>5. CASE InitiatorRegular \/ OperationDone
  <2>1. ~session.on /\ UNCHANGED session
    BY <1>5 DEF DownloadInv, SessionShape, InitiatorRegular, OperationDone,
                fd_progress_download, ProgressOp, SendComplete, NoRequest, Launch
  <2> QED
    BY <2>1
<1>6. CASE RequestSent \/ ResponseLost \/ HandleResponse \/ WriteDone
  <2>1. ~session.on
    BY <1>6 DEF DownloadInv, SessionShape, RequestSent, ResponseLost,
                HandleResponse, WriteDone
  <2>2. UNCHANGED session \/ Settle(TRUE) \/ Settle(FALSE)
    BY <1>6 DEF RequestSent, ResponseLost, HandleResponse, WriteDone,
                process_request_fw_data_rsp, ProcessComplete
  <2>3. UNCHANGED session \/ session' = TransferSession(compSize, xferSize)
    BY <2>2 DEF Settle
  <2> QED
    BY <2>1, <2>3, NewSessionReady
<1>7. CASE InitiatorLoop
  <2>1. CASE session.on /\ SessionRound
    <3>1. session.state = "Ready"
      BY <1>7, <2>1 DEF InitiatorLoop
    <3>2. ipc' \in {"regular", "sSend"}
      BY <2>1, <3>1 DEF SessionRound, LeaveSession, should_send_request
    <3> QED
      BY <3>2
  <2>2. CASE ~(session.on /\ SessionRound)
    BY <1>7, <2>2 DEF InitiatorLoop
  <2> QED
    BY <2>1, <2>2
<1>8. CASE SessionStep
  <2>1. \/ ipc' \in {"sRecv", "sWrite", "regular"}
        \/ \E s \in Session : session' = mark_ready_for_next(s)
    <3>1. [session EXCEPT !.t1 = 0] \in Session
      BY <1>0, TimeAssumption DEF Session
    <3> QED
      BY <1>0, <1>8, <3>1 DEF SessionStep, SessionSent, SessionResponseLost,
         SessionResponse, SessionWriteDone, LeaveSession, KeepSession
  <2> QED
    BY <2>1, ReadyState
<1> QED
  BY <1>1, <1>2, <1>3, <1>4, <1>5, <1>6, <1>7, <1>8
  DEF Next, InitiatorStep, RegularStep

\* The T1 and T2 branches of run_optimized_download are dead code: a session
\* that starts a round never has a request outstanding.
THEOREM SessionNeverWaitsHolds == Spec => []SessionNeverWaits
<1>1. Init => SessionNeverWaits
  BY DEF Init, SessionNeverWaits
<1>2. TypeInv /\ DownloadInv /\ SessionNeverWaits /\ [Next]_vars => SessionNeverWaits'
  BY SessionReadyStep
<1> QED
  BY <1>1, <1>2, TypeInvariant, DownloadInvariant, PTL DEF Spec


----------------------------------------------------------------------------
(* The updater's verification: NoWriteAfterVerify and ApplyMeansVerified.  *)

\* PLDM_STATE never comes back to DownloadingImage, the one state in which a
\* write begins.
StagingQuiet ==
  /\ pldmState = "DownloadingImage" => fpc \in {"waitVerify", "failed"}
  /\ ipc \in {"write", "sWrite"} => pldmState \in {"DownloadingImage", "Activate"}
  /\ NoWriteAfterVerify

\* The initiator waits in ops.verify or ops.apply exactly for the updater that
\* was asked: the updater's signal finds it there, and only there.
Handover ==
  /\ daemonYield => ipc \in {"verify", "apply"} /\ fpc \notin {"waitVerify", "verify"}
  /\ fpc = "verify" => ipc = "verify"
  /\ fpc = "waitVerify" /\ pldmState = "Verifying" => ipc = "verify"
  /\ fpc = "mark" => ipc = "apply" /\ ~daemonYield
  /\ fpc \in {"waitVerify", "verify", "waitApply"} /\ pldmState = "Apply" =>
       ipc = "apply" /\ ~daemonYield

\* Past the download no transfer is going on.
TransferOver ==
  fdState \in {"Verify", "Apply"} =>
    ~session.on /\ ipc \notin {"write", "sSend", "sRecv", "sWrite"}

\* The updater has verified the component and is past that.
Cleared == verified /\ fpc \notin {"waitVerify", "verify"}

\* A success the FD is about to report, or has reported, is the updater's.
Reported ==
  /\ fdState = "Verify" /\ ipc = "verify" /\ daemonYield /\ verifyResult = "Success"
       => Cleared
  /\ fdState = "Verify" /\ req.complete /\ req.result = "Success"
     /\ req.cmd = "VerifyComplete" => Cleared
  /\ fdState = "Apply" => Cleared

VerifyInv == StagingQuiet /\ Handover /\ TransferOver /\ Reported

USE DEF StagingQuiet, NoWriteAfterVerify, Handover, TransferOver, Cleared, Reported

\* A step of the responder, or of time, that leaves the initiator and the updater
\* where they are: it may end the operation but not begin one.
LEMMA VerifyApart ==
  ASSUME VerifyInv,
         UNCHANGED <<fpc, daemonYield, verifyResult, ipc>>, session'.on = session.on,
         pldmState' \in {pldmState, "Activate"},
         fdState' \in {"Verify", "Apply"} =>
           /\ UNCHANGED <<fdState, verified>>
           /\ req'.complete = req.complete /\ req'.result = req.result /\ req'.cmd = req.cmd
  PROVE  VerifyInv'
<1>1. StagingQuiet' /\ Handover'
  BY DEF VerifyInv
<1>2. TransferOver' /\ Reported'
  BY DEF VerifyInv
<1> QED
  BY <1>1, <1>2 DEF VerifyInv

\* A step of the initiator that neither begins nor ends a wait for the updater.
LEMMA VerifyTransfer ==
  ASSUME VerifyInv,
         UNCHANGED <<fpc, daemonYield, verifyResult, verified>>,
         ipc \notin {"verify", "apply"}, ipc' \notin {"verify", "apply"},
         \/ UNCHANGED pldmState
         \/ pldmState = "DownloadingImage" /\ pldmState' = "ImageDownloadComplete"
            /\ ipc' \notin {"write", "sWrite"},
         ipc' \in {"write", "sWrite"} => pldmState = "DownloadingImage",
         fdState' \in {"Verify", "Apply"} =>
           ~session'.on /\ ipc' \notin {"write", "sSend", "sRecv", "sWrite"},
         fdState' = "Apply" => Cleared,
         fdState' = "Verify" /\ req'.complete /\ req'.result = "Success"
           /\ req'.cmd = "VerifyComplete" => Cleared
  PROVE  VerifyInv'
<1>1. StagingQuiet' /\ Handover'
  BY DEF VerifyInv
<1>2. TransferOver' /\ Reported'
  BY DEF VerifyInv
<1> QED
  BY <1>1, <1>2 DEF VerifyInv

\* What a command of the UA can do to the operation under way.
LEMMA ProcessApart ==
  ASSUME NEW c, Process(c)
  PROVE  /\ UNCHANGED <<fpc, daemonYield, verifyResult, ipc, session>>
         /\ pldmState' \in {pldmState, "Activate"}
         /\ fdState' \in {"Verify", "Apply"} => UNCHANGED <<fdState, verified, req>>
<1>1. CASE ProcessRead(c) \/ ProcessBad(c)
  BY <1>1 DEF ProcessRead, ProcessBad
<1>2. CASE ProcessRequestUpdate(c)
  BY <1>2 DEF ProcessRequestUpdate, request_update_rsp
<1>3. CASE ProcessPassComponent(c)
  BY <1>3 DEF ProcessPassComponent, pass_component_rsp
<1>4. CASE ProcessUpdateComponent(c)
  <2>1. UNCHANGED <<fpc, daemonYield, verifyResult, ipc, session, pldmState>>
    BY <1>4 DEF ProcessUpdateComponent
  <2>2. CASE fdState # "ReadyXfer"
    BY <1>4, <2>1, <2>2 DEF ProcessUpdateComponent, update_component_rsp
  <2>3. CASE fdState = "ReadyXfer"
    <3>1. fdState' \in {"Download", "ReadyXfer"}
      BY <1>4, <2>3 DEF ProcessUpdateComponent, update_component_rsp, OfferComponent
    <3> QED
      BY <2>1, <3>1
  <2> QED
    BY <2>2, <2>3
<1>5. CASE ProcessActivate(c)
  BY <1>5 DEF ProcessActivate, activate_firmware_rsp
<1>6. CASE ProcessCancel(c)
  BY <1>6 DEF ProcessCancel, cancel_update_component_rsp, cancel_update_rsp
<1> QED
  BY <1>1, <1>2, <1>3, <1>4, <1>5, <1>6 DEF Process

LEMMA ResponderVerify == VerifyInv /\ ResponderStep => VerifyInv'
<1> SUFFICES ASSUME VerifyInv, ResponderStep PROVE VerifyInv'
  OBVIOUS
<1>1. CASE \E c : Process(c)
  BY <1>1, ProcessApart, VerifyApart
<1>2. CASE ~\E c : Process(c)
  <2>1. UNCHANGED <<fdState, req, fpc, daemonYield, verifyResult, ipc, session, pldmState, verified>>
    BY <1>2 DEF ResponderStep, ReceiveRequest, InitiatorDone, SendResponse
  <2> QED
    BY <2>1, VerifyApart
<1> QED
  BY <1>1, <1>2

LEMMA TickVerify == TypeInv /\ VerifyInv /\ Tick => VerifyInv'
<1> SUFFICES ASSUME TypeInv, VerifyInv, Tick PROVE VerifyInv'
  OBVIOUS
<1>1. req'.complete = req.complete /\ req'.result = req.result /\ req'.cmd = req.cmd
  BY DEF Tick, TypeInv, TypeOK, CtxType, Req
<1>2. session'.on = session.on
  BY DEF Tick, TypeInv, TypeOK, InitType, Session
<1>3. UNCHANGED <<fdState, pldmState, ipc, fpc, daemonYield, verifyResult, verified>>
  BY DEF Tick
<1> QED
  BY <1>1, <1>2, <1>3, VerifyApart

\* The updater: it is let into verify and into image_valid only by the initiator
\* that then waits for it.
LEMMA UpdaterVerifies == TypeInv /\ VerifyInv /\ UpdaterStep => VerifyInv'
<1> SUFFICES ASSUME TypeInv, VerifyInv, UpdaterStep PROVE VerifyInv'
  OBVIOUS
<1>1. UNCHANGED <<fdState, req, ipc, session, pldmState>>
  BY DEF UpdaterStep, UpdaterWait, pldm_wait, UpdaterVerify, UpdaterMark, UpdaterActivate
<1>2. CASE UpdaterWait
  <2>1. UNCHANGED <<verifyResult, daemonYield, verified>>
    BY <1>2 DEF UpdaterWait, pldm_wait
  <2>2. \/ fpc' = "failed"
        \/ fpc = "waitVerify" /\ fpc' = "verify" /\ pldmState = "Verifying"
        \/ fpc = "waitApply" /\ fpc' = "mark" /\ pldmState = "Apply"
        \/ fpc = "waitActivate" /\ fpc' = "activate"
    BY <1>2 DEF UpdaterWait, pldm_wait
  <2>3. StagingQuiet' /\ TransferOver'
    BY <1>1, <2>2 DEF VerifyInv
  <2>4. Handover'
    BY <1>1, <2>1, <2>2 DEF VerifyInv
  <2>5. Reported'
    BY <1>1, <2>1, <2>2 DEF VerifyInv
  <2> QED
    BY <2>3, <2>4, <2>5 DEF VerifyInv
<1>3. CASE UpdaterVerify
  <2>1. /\ fpc = "verify" /\ daemonYield' = TRUE /\ ipc = "verify"
        /\ \/ verified' = TRUE /\ fpc' = "waitApply"
           \/ verifyResult' = "Failure" /\ fpc' = "failed"
    BY <1>3 DEF UpdaterVerify, VerifyInv
  <2>2. StagingQuiet' /\ TransferOver'
    BY <1>1, <2>1 DEF VerifyInv
  <2>3. Handover'
    BY <1>1, <2>1 DEF VerifyInv
  <2>4. Reported'
    BY <1>1, <2>1 DEF VerifyInv
  <2> QED
    BY <2>2, <2>3, <2>4 DEF VerifyInv
<1>4. CASE UpdaterMark
  <2>1. /\ fpc = "mark" /\ fpc' \in {"waitActivate", "failed"} /\ ipc = "apply"
        /\ UNCHANGED <<verifyResult, verified>>
        /\ fpc' = "failed" => UNCHANGED daemonYield
    BY <1>4 DEF UpdaterMark, VerifyInv
  <2>2. StagingQuiet' /\ TransferOver'
    BY <1>1, <2>1 DEF VerifyInv
  <2>3. Handover'
    BY <1>1, <2>1 DEF VerifyInv
  <2>4. Reported'
    BY <1>1, <2>1 DEF VerifyInv
  <2> QED
    BY <2>2, <2>3, <2>4 DEF VerifyInv
<1>5. CASE UpdaterActivate
  <2>1. /\ fpc = "activate" /\ fpc' \in {"done", "failed"}
        /\ UNCHANGED <<verifyResult, daemonYield, verified>>
    BY <1>5 DEF UpdaterActivate
  <2>2. StagingQuiet' /\ TransferOver'
    BY <1>1, <2>1 DEF VerifyInv
  <2>3. Handover' /\ Reported'
    BY <1>1, <2>1 DEF VerifyInv
  <2> QED
    BY <2>2, <2>3 DEF VerifyInv
<1> QED
  BY <1>2, <1>3, <1>4, <1>5 DEF UpdaterStep

\* Starting and ending a wait for the updater.
LEMMA RegularVerify == TypeInv /\ DownloadInv /\ VerifyInv /\ InitiatorRegular => VerifyInv'
<1> SUFFICES ASSUME TypeInv, DownloadInv, VerifyInv, InitiatorRegular PROVE VerifyInv'
  OBVIOUS
<1>1. ipc = "regular" /\ UNCHANGED verified
  BY DEF InitiatorRegular
<1>2. ASSUME NEW cmd, SendComplete(cmd, "Generic"), UNCHANGED fwVars
      PROVE  VerifyInv'
  <2>1. /\ UNCHANGED <<fdState, pldmState, session>>
        /\ ipc' = "send" /\ req'.result = "Generic"
    BY <1>2 DEF SendComplete, Launch, FdReq
  <2> QED
    BY <1>1, <1>2, <2>1, VerifyTransfer DEF VerifyInv
<1>3. CASE NoRequest /\ UNCHANGED <<ctxVars, dlVars, fwVars>>
  BY <1>1, <1>3, VerifyTransfer DEF NoRequest, VerifyInv
<1>4. CASE fdState = "Download" /\ fd_progress_download
  <2>1. /\ UNCHANGED <<pldmState, fpc, daemonYield, verifyResult, session>>
        /\ ipc' \in {"send", "sleep"} /\ fdState' \in {"Download", "Idle"}
    BY <1>4 DEF fd_progress_download, NoRequest, Launch
  <2> QED
    BY <1>1, <2>1, VerifyTransfer
<1>5. ASSUME NEW cmd, NEW st, NEW at, ProgressOp(cmd, st, at),
             ~(NoRequest /\ UNCHANGED <<ctxVars, dlVars, fwVars>>),
             ~(SendComplete(cmd, "Generic") /\ UNCHANGED fwVars)
      PROVE  /\ pldmState' = st /\ ipc' = at /\ ~req.complete
             /\ UNCHANGED <<fdState, req, session, fpc, daemonYield, verifyResult>>
  BY <1>5 DEF ProgressOp
<1>6. CASE fdState = "Verify" /\ ProgressOp("VerifyComplete", "Verifying", "verify")
  <2>1. CASE /\ pldmState' = "Verifying" /\ ipc' = "verify" /\ ~req.complete
             /\ UNCHANGED <<fdState, req, session, fpc, daemonYield, verifyResult>>
    <3>1. StagingQuiet' /\ Handover'
      BY <1>1, <2>1 DEF VerifyInv
    <3>2. TransferOver' /\ Reported'
      BY <1>1, <1>6, <2>1 DEF VerifyInv
    <3> QED
      BY <3>1, <3>2 DEF VerifyInv
  <2> QED
    BY <1>2, <1>3, <1>5, <1>6, <2>1
<1>7. CASE fdState = "Apply" /\ ProgressOp("ApplyComplete", "Apply", "apply")
  <2>1. CASE /\ pldmState' = "Apply" /\ ipc' = "apply"
             /\ UNCHANGED <<fdState, req, session, fpc, daemonYield, verifyResult>>
    <3>1. StagingQuiet' /\ Handover'
      BY <1>1, <2>1 DEF VerifyInv
    <3>2. TransferOver' /\ Reported'
      BY <1>1, <1>7, <2>1 DEF VerifyInv
    <3> QED
      BY <3>1, <3>2 DEF VerifyInv
  <2> QED
    BY <1>2, <1>3, <1>5, <1>7, <2>1
<1> QED
  BY <1>3, <1>4, <1>6, <1>7 DEF InitiatorRegular

LEMMA OperationVerify == TypeInv /\ VerifyInv /\ OperationDone => VerifyInv'
<1> SUFFICES ASSUME TypeInv, VerifyInv, OperationDone PROVE VerifyInv'
  OBVIOUS
<1>1. /\ ipc \in {"verify", "apply"} /\ daemonYield /\ ~daemonYield' /\ ipc' = "send"
      /\ UNCHANGED <<fdState, session, pldmState, fpc, verifyResult, verified>>
  BY DEF OperationDone, SendComplete, Launch
<1>2. req'.cmd = "VerifyComplete" => ipc = "verify" /\ req'.result = verifyResult
  BY DEF OperationDone, SendComplete, FdReq
<1>3. StagingQuiet' /\ TransferOver'
  BY <1>1 DEF VerifyInv
<1>4. Handover'
  BY <1>1 DEF VerifyInv
<1>5. Reported'
  BY <1>1, <1>2 DEF VerifyInv
<1> QED
  BY <1>3, <1>4, <1>5 DEF VerifyInv

\* The responses and writes of the regular path.
LEMMA ResponseVerify ==
  ASSUME TypeInv, DownloadInv, VerifyInv,
         RequestSent \/ ResponseLost \/ HandleResponse \/ WriteDone
  PROVE  VerifyInv'
<1>1. /\ ipc \in {"send", "recv", "write"} /\ ~session.on
      /\ UNCHANGED <<fpc, daemonYield, verifyResult, verified>>
  BY DEF RequestSent, ResponseLost, HandleResponse, WriteDone, DownloadInv, SessionShape
<1>2. ASSUME NEW ok, Settle(ok)
      PROVE  ipc' = "sleep" /\ (fdState' # "Download" => UNCHANGED session)
  BY <1>2 DEF Settle
<1>3. CASE RequestSent \/ ResponseLost
  <2>1. /\ UNCHANGED <<fdState, req, pldmState>>
        /\ ipc' \in {"recv", "sleep"} /\ (fdState' # "Download" => UNCHANGED session)
    BY <1>2, <1>3 DEF RequestSent, ResponseLost
  <2> QED
    BY <1>1, <2>1, VerifyTransfer DEF VerifyInv
<1>4. CASE WriteDone
  <2>1. UNCHANGED fdState /\ ipc = "write" /\ fdState \notin {"Verify", "Apply"}
    BY <1>4 DEF WriteDone, VerifyInv
  <2>2. ipc' = "sleep"
    BY <1>2, <1>4 DEF WriteDone
  <2>3. \/ UNCHANGED pldmState
        \/ pldmState = "DownloadingImage" /\ pldmState' = "ImageDownloadComplete"
    BY <1>4 DEF WriteDone, EndWrite
  <2> QED
    BY <1>1, <2>1, <2>2, <2>3, VerifyTransfer
<1>5. CASE HandleResponse
  <2>1. UNCHANGED pldmState
    BY <1>5 DEF HandleResponse, process_request_fw_data_rsp, ProcessComplete, BeginWrite
  <2>2. ipc = "recv"
    BY <1>5 DEF HandleResponse
  <2>3. ASSUME NEW code, process_request_fw_data_rsp(code)
        PROVE  VerifyInv'
    <3>1. CASE UNCHANGED <<fdState, req>> /\ Settle(FALSE)
      BY <1>1, <1>2, <2>1, <2>2, <3>1, VerifyTransfer DEF VerifyInv
    <3>2. CASE ~(UNCHANGED <<fdState, req>> /\ Settle(FALSE))
      <4>1. /\ fdState' = "Download"
            /\ \/ ipc' = "sleep"
               \/ ipc' = "write" /\ pldmState = "DownloadingImage"
        BY <1>2, <2>3, <3>2 DEF process_request_fw_data_rsp
      <4> QED
        BY <1>1, <2>1, <2>2, <4>1, VerifyTransfer
    <3> QED
      BY <3>1, <3>2
  <2>4. ASSUME NEW st, NEW next, NEW reqState, ProcessComplete(st, next, reqState)
        PROVE  /\ ipc' = "sleep" /\ (fdState' # "Download" => UNCHANGED session)
               /\ \/ UNCHANGED <<fdState, req>>
                  \/ /\ fdState = st /\ fdState' = next /\ ~req'.complete
                     /\ req.complete /\ req.result = "Success"
                  \/ UNCHANGED fdState /\ req'.result # "Success"
    <3>1. ipc' = "sleep" /\ (fdState' # "Download" => UNCHANGED session)
      BY <2>4 DEF ProcessComplete, Settle
    <3>2. \/ UNCHANGED <<fdState, req>>
          \/ /\ fdState = st /\ fdState' = next /\ ~req'.complete
             /\ req.complete /\ req.result = "Success"
          \/ UNCHANGED fdState /\ req'.result # "Success"
      BY <2>4 DEF ProcessComplete, FdReq, Settle
    <3> QED
      BY <3>1, <3>2
  <2>5. CASE req.cmd = "TransferComplete" /\ ProcessComplete("Download", "Verify", "Ready")
    BY <1>1, <2>1, <2>2, <2>4, <2>5, VerifyTransfer DEF VerifyInv
  <2>6. CASE req.cmd = "VerifyComplete" /\ ProcessComplete("Verify", "Apply", "Ready")
    BY <1>1, <2>1, <2>2, <2>4, <2>6, VerifyTransfer DEF VerifyInv
  <2>7. CASE req.cmd = "ApplyComplete" /\ ProcessComplete("Apply", "ReadyXfer", "Unused")
    BY <1>1, <2>1, <2>2, <2>4, <2>7, VerifyTransfer DEF VerifyInv
  <2> QED
    BY <1>5, <2>3, <2>5, <2>6, <2>7 DEF HandleResponse
<1> QED
  BY <1>3, <1>4, <1>5

\* The loop and the session: never past the download.
LEMMA SessionVerify ==
  ASSUME TypeInv, DownloadInv, VerifyInv,
         InitiatorWake \/ InitiatorLoop \/ SleepOver \/ SessionStep
  PROVE  VerifyInv'
<1>1. /\ UNCHANGED <<fpc, daemonYield, verifyResult, verified, fdState>>
      /\ ipc \in {"wait", "loop", "sleep", "sSend", "sRecv", "sWrite"}
  BY DEF InitiatorWake, InitiatorLoop, SleepOver, SessionStep, SessionSent,
         SessionResponseLost, SessionResponse, SessionWriteDone, SessionRound,
         LeaveSession, KeepSession
<1>2. \/ UNCHANGED pldmState
      \/ pldmState = "DownloadingImage" /\ pldmState' = "ImageDownloadComplete"
         /\ SessionWriteDone
  BY DEF InitiatorWake, InitiatorLoop, SleepOver, SessionStep, SessionSent,
         SessionResponseLost, SessionResponse, SessionWriteDone, EndWrite, BeginWrite
<1>3. /\ ipc' \notin {"verify", "apply", "write"}
      /\ ipc' = "sWrite" => pldmState = "DownloadingImage" /\ SessionResponse
  BY DEF InitiatorWake, InitiatorLoop, SleepOver, SessionStep, SessionSent,
         SessionResponseLost, SessionResponse, SessionWriteDone, SessionRound,
         LeaveSession, KeepSession
<1>4. SessionWriteDone => ipc' \in {"regular", "loop", "sleep"}
  BY DEF SessionWriteDone, LeaveSession, KeepSession
<1>5. CASE fdState \notin {"Verify", "Apply"}
  BY <1>1, <1>2, <1>3, <1>4, <1>5, VerifyTransfer
<1>6. CASE fdState \in {"Verify", "Apply"}
  <2>1. ~session.on /\ ipc \in {"wait", "loop", "sleep"}
    BY <1>1, <1>6 DEF VerifyInv
  <2>2. /\ UNCHANGED <<req, pldmState>> /\ ~session'.on
        /\ ipc' \in {"loop", "exited", "wait", "regular"}
    BY <2>1 DEF InitiatorWake, InitiatorLoop, SleepOver, SessionStep, SessionSent,
         SessionResponseLost, SessionResponse, SessionWriteDone, NoSession
  <2> QED
    BY <1>1, <2>1, <2>2, VerifyTransfer DEF VerifyInv
<1> QED
  BY <1>5, <1>6

\* The hand-over of the component to the updater keeps its invariant under every
\* step of the three tasks.
THEOREM VerifyInvariant == Spec => []VerifyInv
<1>1. Init => VerifyInv
  BY DEF Init, VerifyInv, NoSession
<1>2. TypeInv /\ DownloadInv /\ VerifyInv /\ [Next]_vars => VerifyInv'
  <2> SUFFICES ASSUME TypeInv, DownloadInv, VerifyInv, [Next]_vars PROVE VerifyInv'
    OBVIOUS
  <2>1. CASE UNCHANGED vars
    BY <2>1, VerifyApart DEF vars
  <2> QED
    BY <2>1, TickVerify, ResponderVerify, UpdaterVerifies, RegularVerify,
       OperationVerify, ResponseVerify, SessionVerify
    DEF Next, InitiatorStep, RegularStep
<1> QED
  BY <1>1, <1>2, TypeInvariant, DownloadInvariant, PTL DEF Spec

\* Once the updater was asked to verify, no staging write is under way and none
\* begins, however late the responses to the requests for data come and whether
\* or not a cancel was answered.
THEOREM NoWriteAfterVerifyHolds == Spec => []NoWriteAfterVerify
<1>1. VerifyInv => NoWriteAfterVerify
  BY DEF VerifyInv
<1> QED
  BY <1>1, VerifyInvariant, PTL

\* The FD enters and stays in Apply only with the component the updater has
\* verified: a success left over from an operation that was cancelled is never
\* taken for it.
THEOREM ApplyMeansVerifiedHolds == Spec => []ApplyMeansVerified
<1>1. VerifyInv => ApplyMeansVerified
  BY DEF VerifyInv, ApplyMeansVerified
<1> QED
  BY <1>1, VerifyInvariant, PTL

=============================================================================
