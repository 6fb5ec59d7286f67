------------------------------- MODULE PldmFD -------------------------------
(***************************************************************************)
(* The PLDM firmware device (FD): pldm-lib's daemon with its responder and *)
(* initiator tasks, the firmware-device context they share, the            *)
(* UpdateFdOps callbacks and the FirmwareUpdater task of caliptra-api.     *)
(*                                                                         *)
(* All tasks run on one cooperative executor (libtockasync), so a step of  *)
(* this specification is one poll of one task: everything a task does      *)
(* between two awaits that really pend.  Kernel upcalls (a message, the    *)
(* end of a send, of a sleep or of a flash write) are delivered only when  *)
(* no task is runnable, which is the guard Quiescent.                      *)
(*                                                                         *)
(* The update agent (UA) is the environment: it may send any command at    *)
(* any time and answer a request with any completion code.                 *)
(***************************************************************************)
EXTENDS Integers

CONSTANTS
  Sizes,        \* component image sizes a UA offers in UpdateComponent
  MinImage,     \* smallest image handle_component takes (the two headers)
  StagingSize,  \* size of the staging memory
  Baseline,     \* PLDM_FWUP_BASELINE_TRANSFER_SIZE, also the largest padding
  MaxXfer,      \* MAX_PLDM_TRANSFER_SIZE
  UaXfers,      \* max_transfer_size values a UA offers in RequestUpdate
  Eids,         \* endpoint ids of the update agents
  DefaultEid,   \* config::UA_EID, used until an update was accepted
  T1, T2,       \* FD T1 timeout and T2 retry time, in ticks
  Answers,      \* how UAs answer a request of the FD
  Faults        \* the environment faults of this instance

FaultKinds == {"send", "recv", "decode", "write", "verify", "mark", "reply",
               "refuse"}

\* Answers of a UA to a request of the FD: by completion code, or a success
\* without the data it must carry.
Codes == {"Success", "Retry", "Other", "Short"}

ASSUME SizesAssumption == /\ Sizes \subseteq Nat
                          /\ MinImage \in Nat \ {0}
                          /\ StagingSize \in Nat
ASSUME XferAssumption  == /\ Baseline \in Nat \ {0}
                          /\ MaxXfer \in Nat
                          /\ Baseline <= MaxXfer
                          /\ UaXfers \subseteq Nat
ASSUME TimeAssumption  == T1 \in Nat /\ T2 \in Nat
ASSUME FaultAssumption == Faults \subseteq FaultKinds /\ Answers \subseteq Codes

VARIABLES
  fdState,      \* FdInternalInner.state
  req,          \* FdInternalInner.req (instance id abstracted away)
  chunk,        \* InitiatorModeState::Download offset and length
  compSize,     \* update_comp.comp_image_size
  xferSize,     \* max_xfer_size
  t1Age,        \* now - fd_t1_update_ts, saturating at T1 + 1
  cancelled,    \* CancellationFlag
  pending,      \* pending_response
  respSignal,   \* response_signal
  running,      \* RUNNING
  initSignal,   \* INITIATOR_SIGNAL
  rpc, rcmd,    \* responder task: where it awaits, and its command
  ract,         \* what the responder does after its answer is sent
  ipc,          \* initiator task: where it awaits
  session,      \* the initiator's TransferSession
  pldmState,    \* PLDM_STATE
  total,        \* DOWNLOAD_CTX.total_length
  curOff,       \* DOWNLOAD_CTX.current_offset (initial_offset is 0)
  downloaded,   \* DOWNLOAD_CTX.total_downloaded
  verifyResult, \* DOWNLOAD_CTX.verify_result
  applyResult,  \* DOWNLOAD_CTX.apply_result
  fwYield,      \* FW_UPDATE_TASK_YIELD
  daemonYield,  \* PLDM_DAEMON_TASK_YIELD
  fpc,          \* FirmwareUpdater::start: where it awaits
  staged,       \* history: bytes of the accepted image in staging memory
  uaEid,        \* DISCOVERED_UA_EID
  accepted,     \* history: UpdateComponents accepted (saturating at 2)
  imageSize,    \* history: size of the accepted image
  verified      \* history: the accepted component passed verification

ctxVars  == <<fdState, req, chunk, compSize, xferSize, t1Age>>
flagVars == <<cancelled, pending, running, initSignal>>
respVars == <<rpc, rcmd, ract, uaEid>>
initVars == <<ipc, session>>
dlVars   == <<pldmState, total, curOff, downloaded, staged>>
fwVars   == <<verifyResult, applyResult, fwYield, daemonYield, fpc>>
historyVars == <<accepted, imageSize, verified>>
vars     == <<ctxVars, flagVars, respSignal, respVars, initVars, dlVars, fwVars, historyVars>>

----------------------------------------------------------------------------
(* Value sets. *)

FirmwareDeviceState == {"Idle", "LearnComponents", "ReadyXfer", "Download",
                        "Verify", "Apply", "Activate"}
FDDriven   == {"Download", "Verify", "Apply"}
FdReqState == {"Unused", "Ready", "Sent", "Failed"}
Results    == {"None", "Success", "Aborted", "Failure", "Generic"}
FwCmds     == {"None", "RequestFirmwareData", "TransferComplete",
               "VerifyComplete", "ApplyComplete"}
State      == {"DownloadingImage", "ImageDownloadComplete", "Verifying",
               "Apply", "Activate"}

Req     == [state : FdReqState, complete : BOOLEAN, result : Results,
            cmd : FwCmds, age : 0..T2]
Session == [on : BOOLEAN, state : FdReqState, complete : BOOLEAN,
            result : Results, off : Nat, len : Nat, size : Nat,
            xfer : Nat, age : 0..T2, t1 : 0..(T1 + 1)]

\* Commands of a UA.  "Read" stands for every command that leaves the FD alone:
\* the control commands, QueryDeviceIdentifiers, GetFirmwareParameters, GetStatus
\* and the unsupported ones.  "Bad" is a request its decoder refuses after
\* the T1 timestamp was refreshed.
Commands ==
       [cmd : {"Read", "CancelUpdateComponent", "CancelUpdate"}]
  \cup [cmd : {"RequestUpdate"}, xfer : UaXfers, eid : Eids]
  \cup [cmd : {"PassComponent"}, last : BOOLEAN]
  \cup [cmd : {"UpdateComponent"}, size : Sizes, eligible : BOOLEAN]
  \cup [cmd : {"Activate"}, selfContained : {0, 1, 2}]
  \cup [cmd : {"Bad"}, in : {"Idle", "LearnComponents", "ReadyXfer"}]

NoCmd == [cmd |-> "Read"]

\* Whether a step fails: a choice where the instance allows the fault.
May(fault) == IF fault \in Faults THEN BOOLEAN ELSE {FALSE}

Lesser(a, b) == IF a <= b THEN a ELSE b

FdReq(s, c, r, cmd) ==
  [state |-> s, complete |-> c, result |-> r, cmd |-> cmd, age |-> 0]

NoSession == [on |-> FALSE, state |-> "Unused", complete |-> FALSE,
              result |-> "None", off |-> 0, len |-> 0, size |-> 0,
              xfer |-> 0, age |-> 0, t1 |-> 0]

\* TransferSession::new
TransferSession(size, xfer) ==
  [NoSession EXCEPT !.on = TRUE, !.state = "Ready", !.size = size, !.xfer = xfer]

CtxType ==
  /\ fdState \in FirmwareDeviceState /\ req \in Req
  /\ chunk \in [off : Nat, len : Nat]
  /\ compSize \in Nat /\ xferSize \in Nat /\ t1Age \in 0..(T1 + 1)
FlagType ==
  /\ cancelled \in BOOLEAN /\ pending \in BOOLEAN /\ respSignal \in BOOLEAN
  /\ running \in BOOLEAN /\ initSignal \in BOOLEAN
RespType ==
  /\ rpc \in {"recv", "waitInit", "send", "exited"} /\ rcmd \in Commands
  /\ ract \in {"Continue", "Complete", "Bind"}
  /\ uaEid \in Eids \cup {DefaultEid}
InitType ==
  /\ ipc \in {"wait", "loop", "regular", "sleep", "send", "recv", "write",
              "verify", "apply", "sSend", "sRecv", "sWrite", "exited"}
  /\ session \in Session
DlType ==
  /\ pldmState \in State
  /\ total \in Nat /\ curOff \in Nat /\ downloaded \in Nat
  /\ staged \subseteq Nat
FwType ==
  /\ verifyResult \in Results /\ applyResult \in Results
  /\ fwYield \in BOOLEAN /\ daemonYield \in BOOLEAN
  /\ fpc \in {"waitVerify", "verify", "waitApply", "mark", "waitActivate",
              "activate", "done", "failed"}
HistType == accepted \in 0..2 /\ imageSize \in Nat /\ verified \in BOOLEAN

TypeOK == /\ CtxType /\ FlagType /\ RespType /\ InitType
          /\ DlType /\ FwType /\ HistType

Init ==
  /\ fdState = "Idle"
  /\ req = FdReq("Unused", FALSE, "None", "None")
  /\ chunk = [off |-> 0, len |-> 0]
  /\ compSize = 0 /\ xferSize = MaxXfer /\ t1Age = 0
  /\ cancelled = FALSE /\ pending = FALSE /\ respSignal = FALSE
  /\ running = TRUE /\ initSignal = FALSE
  /\ rpc = "recv" /\ rcmd = NoCmd /\ ract = "Continue" /\ uaEid = DefaultEid
  /\ ipc = "wait" /\ session = NoSession
  /\ pldmState = "DownloadingImage"
  /\ total = 0 /\ curOff = 0 /\ downloaded = 0 /\ staged = {}
  /\ verifyResult = "Success" /\ applyResult = "Success"
  /\ fwYield = FALSE /\ daemonYield = FALSE /\ fpc = "waitVerify"
  /\ accepted = 0 /\ imageSize = 0 /\ verified = FALSE

----------------------------------------------------------------------------
(* Scheduling. *)

ResponderRunnable == rpc = "waitInit" /\ respSignal
InitiatorRunnable == \/ ipc = "wait" /\ initSignal
                     \/ ipc \in {"loop", "regular"}
                     \/ ipc \in {"verify", "apply"} /\ daemonYield
UpdaterRunnable   == fpc \in {"waitVerify", "waitApply", "waitActivate"} /\ fwYield

\* The executor yields to the kernel only when no task has work left.
Quiescent == ~ResponderRunnable /\ ~InitiatorRunnable /\ ~UpdaterRunnable

\* Time passes.  Ages saturate where no comparison tells them apart.
Tick ==
  /\ Quiescent
  /\ req' = [req EXCEPT !.age = Lesser(@ + 1, T2)]
  /\ t1Age' = Lesser(t1Age + 1, T1 + 1)
  /\ session' = [session EXCEPT !.age = Lesser(@ + 1, T2),
                                !.t1 = Lesser(@ + 1, T1 + 1)]
  /\ UNCHANGED <<fdState, chunk, compSize, xferSize, flagVars, respSignal,
                 respVars, ipc, dlVars, fwVars, historyVars>>

----------------------------------------------------------------------------
(* The responder task: handle_responder_msg and the command handlers.      *)

\* After a message that is not the last: wake the initiator in Download.
NextMessage ==
  /\ rpc' = "recv" /\ rcmd' = NoCmd /\ ract' = "Continue"
  /\ initSignal' = (initSignal \/ fdState = "Download")
  /\ UNCHANGED <<cancelled, pending, running>>

\* The handler built an answer; the task awaits the end of its transmission.
Answer(act) == rpc' = "send" /\ ract' = act

\* Variant: a refused RequestUpdate binds the FD to its sender.
request_update_rsp_binds(c) ==
  /\ Answer("Bind")
  /\ IF fdState = "Idle" /\ c.xfer >= Baseline
     THEN /\ xferSize' = Lesser(c.xfer, MaxXfer) /\ t1Age' = 0
          /\ fdState' = "LearnComponents"
          /\ UNCHANGED <<req, chunk, compSize>>
     ELSE UNCHANGED ctxVars

request_update_rsp(c) ==
  IF fdState # "Idle"
  THEN /\ Answer("Continue")
       /\ UNCHANGED ctxVars
  ELSE /\ t1Age' = 0
       /\ IF c.xfer < Baseline
          THEN Answer("Continue") /\ UNCHANGED <<fdState, xferSize>>
          ELSE /\ xferSize' = Lesser(c.xfer, MaxXfer)
               /\ fdState' = "LearnComponents"
               /\ Answer("Bind")
       /\ UNCHANGED <<req, chunk, compSize>>

\* What both component commands do to DOWNLOAD_CTX before eligibility.
handle_component(size, wanted) ==
  IF wanted THEN total' = size ELSE UNCHANGED total

\* PassComponentTable carries no image size: total_length becomes 0.
pass_component_rsp(c) ==
  IF fdState # "LearnComponents"
  THEN UNCHANGED <<ctxVars, total>>
  ELSE /\ t1Age' = 0
       /\ handle_component(0, TRUE)
       /\ fdState' = IF c.last THEN "ReadyXfer" ELSE fdState
       /\ UNCHANGED <<req, chunk, compSize, xferSize>>

\* An offered component: it may be wanted and still not be eligible.  An
\* accepted one starts the download.
OfferComponent(size, wanted, ok) ==
  /\ t1Age' = 0
  /\ compSize' = size
  /\ handle_component(size, wanted)
  /\ fdState' = IF ok THEN "Download" ELSE fdState
  /\ req' = IF ok THEN FdReq("Ready", FALSE, "None", "None") ELSE req
  /\ chunk' = IF ok THEN [off |-> 0, len |-> 0] ELSE chunk
  /\ staged' = IF ok THEN {} ELSE staged
  /\ accepted' = IF ok THEN Lesser(accepted + 1, 2) ELSE accepted
  /\ imageSize' = IF ok THEN size ELSE imageSize
  /\ verified' = (verified /\ ~ok)
  /\ UNCHANGED xferSize

\* The hook on_fw_update_request may refuse the update.
update_component_rsp(c) ==
  IF fdState # "ReadyXfer"
  THEN UNCHANGED <<ctxVars, total, staged, historyVars>>
  ELSE \E refused \in May("refuse") :
       LET wanted == c.size >= MinImage /\ c.size <= StagingSize /\ ~refused
       IN OfferComponent(c.size, wanted, wanted /\ c.eligible)

\* Activation that is not self-contained counts as done: back to Idle.
activate_firmware_rsp(c) ==
  IF fdState # "ReadyXfer" \/ c.selfContained = 2
  THEN UNCHANGED <<fdState, pldmState, fwYield>>
  ELSE /\ pldmState' = "Activate" /\ fwYield' = TRUE
       /\ fdState' = IF c.selfContained = 0 THEN "Idle" ELSE "Activate"

CancelAllowed ==
  \/ fdState \in {"Download", "Verify"}
  \/ fdState = "Apply" /\ ~(req.complete /\ req.result = "Success")

cancel_update_component_rsp ==
  /\ IF CancelAllowed
     THEN fdState' = "ReadyXfer" /\ cancelled' = TRUE
     ELSE UNCHANGED <<fdState, cancelled>>
  /\ UNCHANGED t1Age

cancel_update_rsp ==
  /\ t1Age' = IF fdState = "Idle" THEN t1Age ELSE 0
  /\ IF CancelAllowed
     THEN fdState' = "Idle" /\ cancelled' = TRUE
     ELSE UNCHANGED <<fdState, cancelled>>

\* A request is dispatched to its handler, whose answer is then sent.
ProcessRead(c) ==
  /\ c.cmd = "Read"
  /\ Answer("Continue") /\ rcmd' = c
  /\ UNCHANGED <<ctxVars, flagVars, uaEid, initVars, dlVars, fwVars, historyVars>>

\* A request that its decoder refuses gets no answer; in another state the
\* handler answers before it decodes.
ProcessBad(c) ==
  /\ c.cmd = "Bad"
  /\ t1Age' = IF fdState = c.in THEN 0 ELSE t1Age
  /\ UNCHANGED <<fdState, req, chunk, compSize, xferSize>>
  /\ IF fdState = c.in
     THEN NextMessage
     ELSE Answer("Continue") /\ rcmd' = c /\ UNCHANGED flagVars
  /\ UNCHANGED <<uaEid, initVars, dlVars, fwVars, historyVars>>

ProcessRequestUpdate(c) ==
  /\ c.cmd = "RequestUpdate"
  /\ request_update_rsp(c) /\ rcmd' = c
  /\ UNCHANGED <<flagVars, uaEid, initVars, dlVars, fwVars, historyVars>>

ProcessPassComponent(c) ==
  /\ c.cmd = "PassComponent"
  /\ pass_component_rsp(c)
  /\ Answer("Continue") /\ rcmd' = c
  /\ UNCHANGED <<flagVars, uaEid, initVars, pldmState, curOff, downloaded,
                 staged, fwVars, historyVars>>

ProcessUpdateComponent(c) ==
  /\ c.cmd = "UpdateComponent"
  /\ update_component_rsp(c)
  /\ Answer("Continue") /\ rcmd' = c
  /\ UNCHANGED <<flagVars, uaEid, initVars, pldmState, curOff, downloaded, fwVars>>

ProcessActivate(c) ==
  /\ c.cmd = "Activate"
  /\ activate_firmware_rsp(c)
  /\ Answer("Complete") /\ rcmd' = c
  /\ UNCHANGED <<req, chunk, compSize, xferSize, t1Age, flagVars, uaEid,
                 initVars, total, curOff, downloaded, staged, verifyResult,
                 applyResult, daemonYield, fpc, historyVars>>

ProcessCancel(c) ==
  /\ \/ c.cmd = "CancelUpdateComponent" /\ cancel_update_component_rsp
     \/ c.cmd = "CancelUpdate" /\ cancel_update_rsp
  /\ Answer("Complete") /\ rcmd' = c
  /\ UNCHANGED <<req, chunk, compSize, xferSize, pending, running, initSignal,
                 uaEid, initVars, dlVars, fwVars, historyVars>>

Process(c) ==
  \/ ProcessRead(c) \/ ProcessBad(c) \/ ProcessRequestUpdate(c)
  \/ ProcessPassComponent(c) \/ ProcessUpdateComponent(c)
  \/ ProcessActivate(c) \/ ProcessCancel(c)

\* wait_for_initiator: the commands that must see the settled state.
wait_for_initiator(c) ==
  /\ pending
  /\ \/ c.cmd \in {"UpdateComponent", "Activate"}
     \/ c.cmd = "Bad" /\ c.in = "ReadyXfer"

ReceiveRequest ==
  /\ rpc = "recv" /\ Quiescent
  /\ \E c \in Commands :
       /\ c.cmd = "Bad" => "decode" \in Faults
       /\ IF wait_for_initiator(c)
          THEN /\ rpc' = "waitInit" /\ rcmd' = c
               /\ UNCHANGED <<ctxVars, flagVars, ract, uaEid, initVars, dlVars,
                              fwVars, historyVars>>
          ELSE Process(c)
  /\ UNCHANGED respSignal

InitiatorDone ==
  /\ rpc = "waitInit" /\ respSignal
  /\ Process(rcmd)
  /\ respSignal' = FALSE

\* Variant: the responder leaves without waking the initiator.
SendResponse_no_wakeup ==
  /\ rpc = "send" /\ Quiescent
  /\ IF ract = "Complete"
     THEN /\ rpc' = "exited" /\ rcmd' = NoCmd /\ ract' = "Continue"
          /\ running' = FALSE
          /\ UNCHANGED <<cancelled, pending, initSignal, uaEid>>
     ELSE /\ NextMessage
          /\ uaEid' = IF ract = "Bind" THEN rcmd.eid ELSE uaEid
  /\ UNCHANGED <<ctxVars, respSignal, initVars, dlVars, fwVars, historyVars>>

\* The answer is out, or could not be sent: then neither the end of the
\* session nor the binding to the UA takes effect.
SendResponse ==
  /\ rpc = "send" /\ Quiescent
  /\ \E lost \in May("reply") :
       IF ract = "Complete" /\ ~lost
       THEN /\ rpc' = "exited" /\ rcmd' = NoCmd /\ ract' = "Continue"
            /\ running' = FALSE /\ initSignal' = TRUE
            /\ UNCHANGED <<cancelled, pending, uaEid>>
       ELSE /\ NextMessage
            /\ uaEid' = IF ract = "Bind" /\ ~lost THEN rcmd.eid ELSE uaEid
  /\ UNCHANGED <<ctxVars, respSignal, initVars, dlVars, fwVars, historyVars>>

----------------------------------------------------------------------------
(* UpdateFdOps: the download context.                                      *)

query_length ==
  IF downloaded > total THEN Baseline
  ELSE IF total - downloaded < Baseline THEN Baseline
  ELSE Lesser(total - downloaded, MaxXfer)

\* copy_data_to_buffer up to its write: the bytes count as downloaded.
BeginWrite(len) ==
  /\ downloaded' = downloaded + len
  /\ UNCHANGED <<pldmState, total, curOff, staged>>

\* Variant: the next chunk repeats the last byte of this one.
EndWrite_repeats(len) ==
  /\ staged' = staged \cup (curOff .. (curOff + len - 1))
  /\ IF downloaded >= total
     THEN /\ pldmState' = IF pldmState = "DownloadingImage"
                          THEN "ImageDownloadComplete" ELSE pldmState
          /\ UNCHANGED curOff
     ELSE curOff' = curOff + len - 1 /\ UNCHANGED pldmState
  /\ UNCHANGED <<total, downloaded>>

\* download_fw_data after its write.
EndWrite(len) ==
  /\ staged' = staged \cup (curOff .. (curOff + len - 1))
  /\ IF downloaded >= total
     THEN /\ pldmState' = IF pldmState = "DownloadingImage"
                          THEN "ImageDownloadComplete" ELSE pldmState
          /\ UNCHANGED curOff
     ELSE curOff' = curOff + len /\ UNCHANGED pldmState
  /\ UNCHANGED <<total, downloaded>>

is_download_complete(ps) == ps = "ImageDownloadComplete"

----------------------------------------------------------------------------
(* The initiator task: the regular path (handle_initiator_msg).            *)

\* Variant: the responder is not told that the response was processed.
Settle_silent(ok) ==
  /\ pending' = FALSE /\ UNCHANGED respSignal
  /\ ipc' = "sleep"
  /\ IF ok /\ fdState' = "Download"
     THEN /\ cancelled' = FALSE
          /\ session' = TransferSession(compSize, xferSize)
     ELSE UNCHANGED <<cancelled, session>>
  /\ UNCHANGED <<running, initSignal>>

\* The end of handle_initiator_msg with a result.  After Ok in Download the
\* daemon switches to a fresh transfer session; then it sleeps for a tick.
Settle(ok) ==
  /\ pending' = FALSE /\ respSignal' = TRUE
  /\ ipc' = "sleep"
  /\ IF ok /\ fdState' = "Download"
     THEN /\ cancelled' = FALSE
          /\ session' = TransferSession(compSize, xferSize)
     ELSE UNCHANGED <<cancelled, session>>
  /\ UNCHANGED <<running, initSignal>>

\* handle_initiator_msg ended before anything was sent.
NoRequest == ipc' = "sleep" /\ UNCHANGED <<flagVars, respSignal, session>>

\* Variant: a stale signal survives set_pending_response(true).
Launch_stale_signal == /\ ipc' = "send"
                       /\ pending' = TRUE /\ UNCHANGED respSignal
                       /\ UNCHANGED <<cancelled, running, initSignal, session>>

\* A request is built: set_pending_response(true), then the send.
Launch == /\ ipc' = "send"
          /\ pending' = TRUE /\ respSignal' = FALSE
          /\ UNCHANGED <<cancelled, running, initSignal, session>>

\* fd_progress_download with the T1 check of fd_progress behind it.
fd_progress_download ==
  IF \/ req.state # "Ready"
     \/ req.complete /\ req.result = "None"
     \/ ~req.complete /\ curOff > compSize
  THEN NoRequest /\ UNCHANGED <<ctxVars, dlVars, fwVars>>
  ELSE /\ chunk' = IF req.complete THEN [off |-> 0, len |-> 0]
                   ELSE [off |-> curOff, len |-> Lesser(query_length, xferSize)]
       /\ req' = IF req.complete
                 THEN FdReq("Sent", TRUE, req.result, "TransferComplete")
                 ELSE FdReq("Sent", FALSE, "None", "RequestFirmwareData")
       /\ IF t1Age > T1 THEN fdState' = "Idle" /\ NoRequest
                        ELSE UNCHANGED fdState /\ Launch
       /\ UNCHANGED <<compSize, xferSize, t1Age, dlVars, fwVars>>

should_send_fd_request ==
  \/ req.state = "Ready"
  \/ req.state = "Sent" /\ req.age >= T2

\* VerifyComplete or ApplyComplete goes out; T1 was refreshed before its
\* check, so the check cannot fire.
SendComplete(cmd, res) ==
  /\ req' = FdReq("Sent", TRUE, res, cmd)
  /\ t1Age' = 0
  /\ Launch
  /\ UNCHANGED <<fdState, chunk, compSize, xferSize, dlVars>>

\* ops.verify / ops.apply: hand over to the updater and wait for it.  A
\* completed operation is not run again: its report carries the default
\* result, a generic error.
ProgressOp(cmd, st, at) ==
  IF ~should_send_fd_request
  THEN NoRequest /\ UNCHANGED <<ctxVars, dlVars, fwVars>>
  ELSE IF req.complete
  THEN SendComplete(cmd, "Generic") /\ UNCHANGED fwVars
  ELSE /\ pldmState' = st /\ fwYield' = TRUE
       /\ ipc' = at
       /\ UNCHANGED <<ctxVars, flagVars, respSignal, session, total, curOff,
                      downloaded, staged, verifyResult, applyResult,
                      daemonYield, fpc>>

\* handle_initiator_msg up to its first await.
InitiatorRegular ==
  /\ ipc = "regular"
  /\ \/ fdState = "Download" /\ fd_progress_download
     \/ fdState = "Verify" /\ ProgressOp("VerifyComplete", "Verifying", "verify")
     \/ fdState = "Apply" /\ ProgressOp("ApplyComplete", "Apply", "apply")
     \/ fdState \notin FDDriven /\ NoRequest
        /\ UNCHANGED <<ctxVars, dlVars, fwVars>>
  /\ UNCHANGED <<respVars, historyVars>>

\* The updater answered; the FD state is not looked at again.
OperationDone ==
  /\ ipc \in {"verify", "apply"} /\ daemonYield
  /\ daemonYield' = FALSE
  /\ IF ipc = "verify" THEN SendComplete("VerifyComplete", verifyResult)
                       ELSE SendComplete("ApplyComplete", applyResult)
  /\ UNCHANGED <<verifyResult, applyResult, fwYield, fpc, respVars, historyVars>>

RequestSent ==
  /\ ipc = "send" /\ Quiescent
  /\ \/ /\ ipc' = "recv"
        /\ UNCHANGED <<flagVars, respSignal, session>>
     \/ "send" \in Faults /\ Settle(FALSE)
  /\ UNCHANGED <<ctxVars, respVars, dlVars, fwVars, historyVars>>

\* Variant: copy_data_to_buffer takes data in every PLDM_STATE.
process_request_fw_data_rsp_any_state(code) ==
  IF fdState = "Download" /\ ~req.complete /\ code = "Success"
  THEN /\ BeginWrite(chunk.len) /\ ipc' = "write"
       /\ UNCHANGED <<fdState, req, flagVars, respSignal, session>>
  ELSE UNCHANGED <<fdState, req, dlVars>> /\ Settle(FALSE)

process_request_fw_data_rsp(code) ==
  \/ /\ \/ fdState # "Download" \/ req.complete \/ code = "Short"
        \/ code = "Success" /\ pldmState # "DownloadingImage"
     /\ UNCHANGED <<fdState, req, dlVars>> /\ Settle(FALSE)
  \/ /\ fdState = "Download" /\ ~req.complete /\ code = "Retry"
     /\ UNCHANGED <<fdState, req, dlVars>> /\ Settle(TRUE)
  \/ /\ fdState = "Download" /\ ~req.complete /\ code = "Other"
     /\ req' = FdReq("Ready", TRUE, "Aborted", "None")
     /\ UNCHANGED <<fdState, dlVars>> /\ Settle(TRUE)
  \/ /\ fdState = "Download" /\ ~req.complete /\ code = "Success"
     /\ pldmState = "DownloadingImage"
     /\ BeginWrite(chunk.len) /\ ipc' = "write"
     /\ UNCHANGED <<fdState, req, flagVars, respSignal, session>>

\* Variants: the result of the operation, the FD state is not looked at.
ProcessComplete_any_result(st, next, reqState) ==
  /\ IF fdState # st \/ ~req.complete
     THEN UNCHANGED <<fdState, req>> /\ Settle(FALSE)
     ELSE /\ fdState' = next
          /\ req' = FdReq(reqState, FALSE, "None", "None")
          /\ Settle(TRUE)
  /\ UNCHANGED dlVars

ProcessComplete_any_state(st, next, reqState) ==
  /\ fdState' = next
  /\ req' = FdReq(reqState, FALSE, "None", "None")
  /\ Settle(TRUE)
  /\ UNCHANGED dlVars

\* TransferComplete, VerifyComplete and ApplyComplete: whatever completion
\* code came back, success moves on and a failure waits for a cancel.
ProcessComplete(st, next, reqState) ==
  /\ IF fdState # st \/ ~req.complete
     THEN UNCHANGED <<fdState, req>> /\ Settle(FALSE)
     ELSE IF req.result = "Success"
     THEN /\ fdState' = next
          /\ req' = FdReq(reqState, FALSE, "None", "None")
          /\ Settle(TRUE)
     ELSE /\ req' = FdReq("Failed", TRUE, req.result, "None")
          /\ UNCHANGED fdState
          /\ Settle(TRUE)
  /\ UNCHANGED dlVars

\* receive_response failed, or the answer is not the one to this request.
ResponseLost ==
  /\ ipc = "recv" /\ Quiescent
  /\ "recv" \in Faults
  /\ UNCHANGED ctxVars /\ Settle(FALSE)
  /\ UNCHANGED <<respVars, dlVars, fwVars, historyVars>>

HandleResponse ==
  /\ ipc = "recv" /\ Quiescent
  /\ req.state = "Sent"
  /\ t1Age' = 0
  /\ \E code \in Answers :
     \/ req.cmd = "RequestFirmwareData" /\ process_request_fw_data_rsp(code)
     \/ req.cmd = "TransferComplete" /\ ProcessComplete("Download", "Verify", "Ready")
     \/ req.cmd = "VerifyComplete" /\ ProcessComplete("Verify", "Apply", "Ready")
     \/ req.cmd = "ApplyComplete" /\ ProcessComplete("Apply", "ReadyXfer", "Unused")
  /\ UNCHANGED <<chunk, compSize, xferSize, respVars, fwVars, historyVars>>

\* The staging write of a chunk received on the regular path ended.
WriteDone ==
  /\ ipc = "write" /\ Quiescent
  /\ UNCHANGED <<fdState, chunk, compSize, xferSize, t1Age>>
  /\ \/ /\ EndWrite(chunk.len)
        /\ req' = IF is_download_complete(pldmState')
                  THEN FdReq("Ready", TRUE, "Success", "None")
                  ELSE FdReq("Ready", FALSE, "None", "None")
        /\ Settle(TRUE)
     \/ /\ "write" \in Faults
        /\ UNCHANGED <<req, dlVars>>
        /\ Settle(FALSE)
  /\ UNCHANGED <<respVars, fwVars, historyVars>>

----------------------------------------------------------------------------
(* The initiator task: its loop and the optimized download.                *)

\* The signal: leave when the service stops, else enter the loop.
InitiatorWake ==
  /\ ipc = "wait" /\ initSignal
  /\ initSignal' = FALSE
  /\ ipc' = IF running THEN "loop" ELSE "exited"
  /\ session' = NoSession
  /\ UNCHANGED <<ctxVars, cancelled, pending, running, respSignal, respVars,
                 dlVars, fwVars, historyVars>>

SleepOver ==
  /\ ipc = "sleep" /\ Quiescent
  /\ ipc' = "loop"
  /\ UNCHANGED <<ctxVars, flagVars, respSignal, respVars, session, dlVars,
                 fwVars, historyVars>>

\* Variant: the request stays Sent.
mark_ready_keeps_sent(s) == [s EXCEPT !.complete = FALSE, !.result = "None"]

mark_sent(s) == [s EXCEPT !.state = "Sent", !.age = 0, !.t1 = 0]
mark_ready_for_next(s) ==
  [s EXCEPT !.state = "Ready", !.complete = FALSE, !.result = "None"]
mark_complete(s, r) ==
  [s EXCEPT !.state = "Ready", !.complete = TRUE, !.result = r]
mark_failed(s, r) ==
  [s EXCEPT !.state = "Failed", !.complete = TRUE, !.result = r]
is_t1_timeout(s) == s.state = "Sent" /\ s.t1 > T1
should_send_request(s) ==
  \/ s.state = "Ready"
  \/ s.state = "Sent" /\ s.age >= T2

\* The next chunk lies within the image and its padding.
get_download_chunk(s) ==
  curOff <= s.size /\ curOff + query_length <= s.size + Baseline

\* The session ends: sync_from_transfer_session, then the regular path.
LeaveSession(s) ==
  /\ req' = [req EXCEPT !.state = s.state, !.complete = s.complete,
                        !.result = s.result, !.age = s.age]
  /\ chunk' = [off |-> s.off, len |-> s.len]
  /\ t1Age' = s.t1
  /\ session' = NoSession
  /\ ipc' = "regular"
  /\ UNCHANGED <<fdState, compSize, xferSize>>

\* The session goes on; every 32nd round sleeps.
KeepSession(s) ==
  /\ session' = s
  /\ ipc' \in {"loop", "sleep"}
  /\ UNCHANGED ctxVars

\* run_optimized_download up to its send.
SessionRound ==
  IF cancelled
  THEN LeaveSession(mark_complete(session, "Aborted"))
  ELSE IF is_t1_timeout(session)
  THEN LeaveSession(mark_failed(session, "Aborted"))
  ELSE IF ~should_send_request(session)
  THEN KeepSession(session)
  ELSE IF session.complete
  THEN LeaveSession(session)
  ELSE IF ~get_download_chunk(session)
  THEN LeaveSession(mark_failed(session, "Aborted"))
  ELSE /\ session' = mark_sent([session EXCEPT !.off = curOff,
                                  !.len = Lesser(query_length, session.xfer)])
       /\ ipc' = "sSend"
       /\ UNCHANGED ctxVars

InitiatorLoop ==
  /\ ipc = "loop"
  /\ IF ~running \/ fdState \notin FDDriven
     THEN ipc' = "wait" /\ session' = NoSession /\ UNCHANGED ctxVars
     ELSE IF session.on
     THEN SessionRound
     ELSE ipc' = "regular" /\ UNCHANGED <<ctxVars, session>>
  /\ UNCHANGED <<flagVars, respSignal, respVars, dlVars, fwVars, historyVars>>

SessionSent ==
  /\ ipc = "sSend" /\ Quiescent
  /\ \/ ipc' = "sRecv" /\ UNCHANGED <<ctxVars, session>>
     \/ "send" \in Faults /\ LeaveSession(session)
  /\ UNCHANGED <<flagVars, respSignal, respVars, dlVars, fwVars, historyVars>>

SessionResponseLost ==
  /\ ipc = "sRecv" /\ Quiescent
  /\ "recv" \in Faults
  /\ LeaveSession(session)
  /\ UNCHANGED <<flagVars, respSignal, respVars, dlVars, fwVars, historyVars>>

\* A response of the session: neither its instance id nor its command code is
\* compared with the request's.
SessionResponse ==
  /\ ipc = "sRecv" /\ Quiescent
  /\ LET s == [session EXCEPT !.t1 = 0] IN
     \E code \in Answers :
       \/ /\ code = "Success" /\ pldmState = "DownloadingImage"
          /\ BeginWrite(s.len)
          /\ session' = s /\ ipc' = "sWrite" /\ UNCHANGED ctxVars
       \/ /\ \/ code = "Short"
             \/ code = "Success" /\ pldmState # "DownloadingImage"
          /\ LeaveSession(s) /\ UNCHANGED dlVars
       \/ /\ code = "Retry"
          /\ KeepSession(mark_ready_for_next(s)) /\ UNCHANGED dlVars
       \/ /\ code = "Other"
          /\ LeaveSession(mark_complete(s, "Aborted")) /\ UNCHANGED dlVars
  /\ UNCHANGED <<flagVars, respSignal, respVars, fwVars, historyVars>>

SessionWriteDone ==
  /\ ipc = "sWrite" /\ Quiescent
  /\ \/ /\ EndWrite(session.len)
        /\ IF is_download_complete(pldmState')
           THEN LeaveSession(mark_complete(session, "Success"))
           ELSE KeepSession(mark_ready_for_next(session))
     \/ "write" \in Faults /\ LeaveSession(session) /\ UNCHANGED dlVars
  /\ UNCHANGED <<flagVars, respSignal, respVars, fwVars, historyVars>>

----------------------------------------------------------------------------
(* FirmwareUpdater::start after initialize_pldm.                           *)

otherVars == <<ctxVars, flagVars, respSignal, respVars, initVars, dlVars,
               accepted, imageSize>>

\* pldm_wait: the signal came, but for the state the updater waits for?
pldm_wait(at, wanted, next) ==
  /\ fpc = at /\ fwYield
  /\ fwYield' = FALSE
  /\ fpc' = IF pldmState = wanted THEN next ELSE "failed"
  /\ UNCHANGED <<verifyResult, applyResult, daemonYield, otherVars, verified>>

UpdaterWait ==
  \/ pldm_wait("waitVerify", "Verifying", "verify")
  \/ pldm_wait("waitApply", "Apply", "mark")
  \/ pldm_wait("waitActivate", "Activate", "activate")

\* verify(): a failure is reported and ends the updater.
UpdaterVerify ==
  /\ fpc = "verify" /\ Quiescent
  /\ daemonYield' = TRUE
  /\ \E bad \in May("verify") :
       /\ verified' = ~bad
       /\ verifyResult' = IF bad THEN "Failure" ELSE "Success"
       /\ fpc' = IF bad THEN "failed" ELSE "waitApply"
  /\ UNCHANGED <<applyResult, fwYield, otherVars>>

\* image_valid: a failure ends the updater and reports nothing.
UpdaterMark ==
  /\ fpc = "mark" /\ Quiescent
  /\ \/ /\ applyResult' = "Success" /\ daemonYield' = TRUE
        /\ fpc' = "waitActivate"
     \/ /\ "mark" \in Faults
        /\ fpc' = "failed" /\ UNCHANGED <<applyResult, daemonYield>>
  /\ UNCHANGED <<verifyResult, fwYield, otherVars, verified>>

\* Caliptra, the manifest and the MCU are activated (see the README).
UpdaterActivate ==
  /\ fpc = "activate" /\ Quiescent
  /\ fpc' \in {"done", "failed"}
  /\ UNCHANGED <<verifyResult, applyResult, fwYield, daemonYield, otherVars, verified>>

----------------------------------------------------------------------------

ResponderStep == ReceiveRequest \/ InitiatorDone \/ SendResponse
RegularStep   == \/ InitiatorRegular \/ OperationDone \/ RequestSent
                 \/ ResponseLost \/ HandleResponse \/ WriteDone
SessionStep   == \/ SessionSent \/ SessionResponseLost \/ SessionResponse
                 \/ SessionWriteDone
InitiatorStep == \/ InitiatorWake \/ InitiatorLoop \/ SleepOver
                 \/ RegularStep \/ SessionStep
UpdaterStep   == \/ UpdaterWait \/ UpdaterVerify \/ UpdaterMark
                 \/ UpdaterActivate

Next == Tick \/ ResponderStep \/ InitiatorStep \/ UpdaterStep

Spec == Init /\ [][Next]_vars

\* Every task that can run does run, the kernel ends every send, sleep and
\* write, and the answer to a message in hand goes out.
TaskFairness ==
  /\ WF_vars(InitiatorDone) /\ WF_vars(SendResponse)
  /\ WF_vars(InitiatorWake) /\ WF_vars(InitiatorLoop) /\ WF_vars(SleepOver)
  /\ WF_vars(InitiatorRegular) /\ WF_vars(OperationDone)
  /\ WF_vars(RequestSent) /\ WF_vars(WriteDone)
  /\ WF_vars(SessionSent) /\ WF_vars(SessionWriteDone)
  /\ WF_vars(UpdaterStep)

\* The UA answers every request of the FD: receive_response has no timeout.
UAFairness == WF_vars(HandleResponse) /\ WF_vars(SessionResponse)

FairSpec == Spec /\ TaskFairness /\ UAFairness

----------------------------------------------------------------------------
(* Safety.                                                                 *)

\* UpdateComponent and ActivateFirmware are judged only after the initiator
\* has processed the response it waits for (wait_for_initiator), so an
\* activation sent right after ApplyComplete never sees the old state.
JudgedWhenSettled ==
  [][ (rpc # "send" /\ rpc' = "send"
       /\ rcmd'.cmd \in {"UpdateComponent", "Activate"}) => ~pending ]_vars

\* Once a cancel or a timeout took the FD out of Download, Verify and Apply,
\* no step of the initiator, however late the response it was waiting for,
\* changes the FD state again.
CancelSticks ==
  [][ (fdState \notin FDDriven /\ InitiatorStep) => fdState' = fdState ]_vars

\* From the moment the updater starts to verify until it has activated, every
\* byte of the accepted image is in staging memory, although the counter that
\* ends the download (total_downloaded) is advanced before each write and the
\* write may fail.  (For the first component accepted: no later one can be
\* downloaded, because DOWNLOAD_CTX and PLDM_STATE are never reset.)
WholeImage ==
  (accepted = 1 /\ fpc \in {"verify", "waitApply", "mark", "waitActivate",
                            "activate", "done"})
    => \A i \in 0..(imageSize - 1) : i \in staged

\* The FD reaches Apply only for a component the updater verified.
ApplyMeansVerified == fdState = "Apply" => verified

\* No write to staging memory is under way once the updater was asked to
\* verify: what was verified is what is applied and activated.
NoWriteAfterVerify ==
  ipc \in {"write", "sWrite"} => fpc \in {"waitVerify", "failed"}

\* A session that starts a round has nothing outstanding, so neither the T1
\* timeout nor the T2 retry of run_optimized_download can ever be taken.
SessionNeverWaits ==
  (session.on /\ ipc \in {"loop", "sleep"})
    => session.state = "Ready" /\ ~session.complete

\* The FD never changes the UA it talks to in the middle of a transfer.
UAStable == [][ uaEid' # uaEid => fdState \notin FDDriven ]_vars

----------------------------------------------------------------------------
(* Liveness.                                                               *)

\* The first accepted component leaves Download, unless the service is told
\* to stop: no request is lost between the regular path and the session.
DownloadEnds ==
  (fdState = "Download" /\ accepted = 1) ~> (fdState # "Download" \/ ~running)

\* When the service stops, the initiator leaves too: no wakeup is lost.
ServiceStops == ~running ~> ipc = "exited"

\* A responder that waits for the initiator gets to answer.
WaiterAnswers == (rpc = "waitInit") ~> (rpc = "send")

=============================================================================
