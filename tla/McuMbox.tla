------------------------------ MODULE McuMbox ------------------------------
(***************************************************************************)
(* The MCU mailbox from end to end: a sender on the SoC, the mailbox's     *)
(* registers, the driver (McuMailbox), its system calls (McuMboxDriver)    *)
(* and the service that answers (McuMboxService, CmdInterface).            *)
(*                                                                         *)
(* A request is known by its number.  It is announced by an interrupt that *)
(* the driver takes only while it waits for one; from there on the service *)
(* owns the mailbox until it has written a status.  Interrupts and alarms  *)
(* do not come in the middle of a system call.                             *)
(***************************************************************************)
EXTENDS Integers, Sequences, FiniteSets

CONSTANTS
  Kinds,        \* of requests, see AllKinds
  Faults,       \* "abandon": senders release the mailbox without an answer;
                \* "scratch": the service finds no memory for the response
  MaxRequests   \* bound: requests sent

\* "bad": too short or with a wrong checksum; "large": beyond the buffers of
\* the system calls and of the service; "over": beyond the mailbox's SRAM.
AllKinds == {"good", "bad", "large", "over"}

ASSUME MboxAssumption ==
  /\ Kinds \subseteq AllKinds
  /\ Faults \subseteq {"abandon", "scratch"}
  /\ MaxRequests \in Nat

VARIABLES
  sender,       \* "idle"; "filling", the mailbox is locked; "filled"; "waiting"
  reqs,         \* the kinds of the requests so far
  lock, cmd, status, sram,      \* MBOX_LOCK, _CMD, _CMD_STATUS, _SRAM
  irq,          \* NotifMbox0CmdAvailSts
  state,        \* McuMboxState
  timer,        \* the alarm of SendDoneDefer is set
  waiting_rx,   \* the service waits for a request
  buffered_msg, \* request that came when it did not
  pending_tx,   \* a response of it is being sent
  current_app,  \* the system calls have a response with the driver
  upcalls,      \* REQUEST_RECEIVED with its request, RESPONSE_SENT
  at, req,      \* the service: where it is and the request in its hands
  taken,        \* history: the last request the service has processed
  early,        \* history: the last request the driver met before its EXECUTE
  abandoned,    \* history: a sender has released the mailbox early
  dropped       \* history: the MCU has dropped a request

regs    == <<lock, cmd, status, sram, irq>>
driver  == <<state, timer>>
capsule == <<waiting_rx, buffered_msg, pending_tx, current_app, upcalls>>
service == <<at, req, taken>>
vars    == <<sender, reqs, regs, driver, capsule, service, early, abandoned, dropped>>

None == -1
Zero == [what |-> "zero", of |-> 0]
Request(n)  == [what |-> "request", of |-> n]
Response(n) == [what |-> "response", of |-> n]

\* Number 0 is what is no longer, or not yet, a request; it fails its checks.
KindOf(n) == IF n = 0 THEN "bad" ELSE reqs[n]

\* The request that the registers hold: none in a mailbox that has been zeroised
\* and none whose data a late response has overwritten.
Announced == IF cmd # 0 /\ sram = Request(cmd) THEN cmd ELSE 0

----------------------------------------------------------------------------
(* The sender and the mailbox's registers.                                 *)

Lock ==
  /\ sender = "idle" /\ ~lock /\ Len(reqs) < MaxRequests
  /\ lock' = TRUE /\ sender' = "filling"
  /\ UNCHANGED <<reqs, cmd, status, sram, irq, driver, capsule, service, early, abandoned, dropped>>

\* MBOX_SRAM, MBOX_DLEN and MBOX_CMD are written one after the other.  Without its
\* command a request is nothing yet or, with its length, as much too long as with it.
fill(k) ==
  /\ sender = "filling"
  /\ sender' = "filled"
  /\ reqs' = Append(reqs, k)
  /\ cmd' = Len(reqs') /\ sram' = Request(Len(reqs'))
  /\ UNCHANGED <<lock, status, irq, driver, capsule, service, early, abandoned, dropped>>

\* MBOX_EXECUTE is set: the interrupt, which may be pending already from a request
\* that was abandoned.
execute ==
  /\ sender = "filled"
  /\ sender' = "waiting"
  /\ irq' = TRUE
  /\ UNCHANGED <<reqs, lock, cmd, status, sram, driver, capsule, service, early, abandoned, dropped>>

\* MBOX_EXECUTE is cleared: the mailbox is zeroised and unlocked.
mailbox_zeroization ==
  /\ sender' = "idle"
  /\ lock' = FALSE /\ cmd' = 0 /\ status' = "Busy" /\ sram' = Zero
  /\ UNCHANGED <<reqs, irq, driver, capsule, service, early, dropped>>

get_execute_response ==
  /\ sender = "waiting" /\ status # "Busy"
  /\ mailbox_zeroization
  /\ UNCHANGED abandoned

Abandon ==
  /\ "abandon" \in Faults
  /\ sender = "waiting" /\ status = "Busy"
  /\ mailbox_zeroization
  /\ abandoned' = TRUE

----------------------------------------------------------------------------
(* The driver's interrupt and alarm, with the system calls' callbacks.     *)

\* buffer_message: a message that is too large is dropped.
Kept(n) == IF KindOf(n) = "large" THEN buffered_msg ELSE n

\* apps.each passes over a service that has made no system call yet.
request_received(n) ==
  CASE at = "start" ->
         dropped' = TRUE /\ UNCHANGED <<waiting_rx, buffered_msg, upcalls>>
    [] at # "start" /\ waiting_rx ->
         /\ waiting_rx' = FALSE
         /\ upcalls' = [upcalls EXCEPT !.request = n]
         /\ UNCHANGED <<buffered_msg, dropped>>
    [] OTHER ->
         /\ buffered_msg' = Kept(n)
         /\ dropped' = (dropped \/ Kept(n) # n)
         /\ UNCHANGED <<waiting_rx, upcalls>>

\* Variant: the driver takes every request.
MayTake_always == TRUE

MayTake == state = "RxWait"

handle_interrupt ==
  /\ irq
  /\ irq' = FALSE
  /\ CASE ~MayTake ->
            UNCHANGED <<status, state, waiting_rx, buffered_msg, upcalls, dropped>>
       [] MayTake /\ KindOf(Announced) = "over" ->
            /\ status' = "Failure"
            /\ UNCHANGED <<state, waiting_rx, buffered_msg, upcalls, dropped>>
       [] OTHER ->
            /\ request_received(Announced)
            /\ state' = "RespFinishPending"
            /\ UNCHANGED status
  /\ early' = IF MayTake /\ sender = "filled" THEN cmd ELSE early
  /\ UNCHANGED <<sender, reqs, lock, cmd, sram, timer, pending_tx, current_app, service, abandoned>>

alarm ==
  /\ timer
  /\ timer' = FALSE
  /\ state' = "RespFinishPending"
  /\ current_app' = FALSE
  /\ IF current_app
     THEN pending_tx' = FALSE /\ upcalls' = [upcalls EXCEPT !.sent = TRUE]
     ELSE UNCHANGED <<pending_tx, upcalls>>
  /\ UNCHANGED <<sender, reqs, regs, waiting_rx, buffered_msg, service, early, abandoned, dropped>>

----------------------------------------------------------------------------
(* The service: CmdInterface::handle_responder_msg_from_scratch in a loop. *)

\* Variant: a status of failure is not written.
MayFinish_complete(s) == ~current_app /\ state = "RespFinishPending" /\ s = "Complete"

\* Command 3, finalize_response.
MayFinish(s) == ~current_app /\ state = "RespFinishPending"

\* The status as a number, from MbxCmdStatus of the service.
Statuses == <<"Busy", "DataReady", "Complete", "Failure">>
Code(s)  == CHOOSE c \in 0..3 : Statuses[c + 1] = s

\* Variant: the statuses are numbered from one.
Decoded_from_one(c) == Statuses[c]

\* The number as a status, in command 3.
Decoded(c) == Statuses[c + 1]

set_mbox_cmd_status(s) ==
  IF MayFinish(s)
  THEN status' = Decoded(Code(s)) /\ state' = "RxWait"
  ELSE UNCHANGED <<status, state>>

\* Variant: a message that is delivered stays in the buffer.
Delivered_kept == buffered_msg

Delivered == None

\* receive_command: its first system call gives the service its grant.
subscribe_allow_rw ==
  /\ at = "start"
  /\ at' = "top"
  /\ UNCHANGED <<sender, reqs, regs, driver, capsule, req, taken, early, abandoned, dropped>>

\* Command 1, receive_command: a request in the buffer is delivered at once.
receive_request ==
  /\ at = "top"
  /\ IF waiting_rx
     THEN /\ set_mbox_cmd_status("Failure")
          /\ UNCHANGED <<waiting_rx, buffered_msg, upcalls, at>>
     ELSE /\ at' = "receive"
          /\ waiting_rx' = (buffered_msg = None)
          /\ upcalls' = IF buffered_msg = None THEN upcalls
                        ELSE [upcalls EXCEPT !.request = buffered_msg]
          /\ buffered_msg' = Delivered
          /\ UNCHANGED <<status, state>>
  /\ UNCHANGED <<sender, reqs, lock, cmd, sram, irq, timer, pending_tx, current_app,
                 req, taken, early, abandoned, dropped>>

\* The request is in the service's buffer; it is well formed, or is not.
received ==
  /\ at = "receive" /\ upcalls.request # None
  /\ upcalls' = [upcalls EXCEPT !.request = None]
  /\ \/ /\ KindOf(upcalls.request) # "good"
        /\ set_mbox_cmd_status("Failure")
        /\ at' = "top"
        /\ UNCHANGED <<req, dropped>>
     \/ /\ KindOf(upcalls.request) = "good"
        /\ at' = "process" /\ req' = upcalls.request
        /\ UNCHANGED <<status, state, dropped>>
     \/ /\ KindOf(upcalls.request) = "good" /\ "scratch" \in Faults
        /\ at' = "top" /\ dropped' = TRUE   \* returned without a status
        /\ UNCHANGED <<status, state, req>>
  /\ UNCHANGED <<sender, reqs, lock, cmd, sram, irq, timer, waiting_rx, buffered_msg,
                 pending_tx, current_app, taken, early, abandoned>>

\* The SRAM takes no data while the mailbox is unlocked.
send_response(n) ==
  /\ state' = "TxInProgress"
  /\ timer' = TRUE
  /\ sram' = IF lock THEN Response(n) ELSE sram
  /\ current_app' = TRUE /\ pending_tx' = TRUE

\* process_request ends, with a response (command 2) or with a failure.
processed(ok) ==
  /\ at = "process"
  /\ taken' = req /\ req' = None
  /\ IF ok /\ ~current_app /\ ~pending_tx
     THEN send_response(req) /\ at' = "send" /\ UNCHANGED status
     ELSE /\ set_mbox_cmd_status("Failure")
          /\ at' = "top"
          /\ UNCHANGED <<sram, timer, current_app, pending_tx>>
  /\ UNCHANGED <<sender, reqs, lock, cmd, irq, waiting_rx, buffered_msg, upcalls, early, abandoned, dropped>>

response_sent ==
  /\ at = "send" /\ upcalls.sent
  /\ upcalls' = [upcalls EXCEPT !.sent = FALSE]
  /\ set_mbox_cmd_status("Complete")
  /\ at' = "top"
  /\ UNCHANGED <<sender, reqs, lock, cmd, sram, irq, timer, waiting_rx, buffered_msg,
                 pending_tx, current_app, req, taken, early, abandoned, dropped>>

----------------------------------------------------------------------------

Init ==
  /\ sender = "idle" /\ reqs = <<>>
  /\ lock = FALSE /\ cmd = 0 /\ status = "Busy" /\ sram = Zero /\ irq = FALSE
  /\ state = "RxWait" /\ timer = FALSE
  /\ waiting_rx = FALSE /\ buffered_msg = None /\ pending_tx = FALSE /\ current_app = FALSE
  /\ upcalls = [request |-> None, sent |-> FALSE]
  /\ at = "start" /\ req = None /\ taken = 0 /\ early = 0
  /\ abandoned = FALSE /\ dropped = FALSE

Sender  == Lock \/ (\E k \in Kinds : fill(k)) \/ execute \/ get_execute_response \/ Abandon
Kernel  == handle_interrupt \/ alarm
Service == \/ subscribe_allow_rw \/ receive_request \/ received
           \/ (\E ok \in BOOLEAN : processed(ok)) \/ response_sent

Next == Sender \/ Kernel \/ Service

\* Interrupts and alarms are served, and every command handler ends.
Spec == Init /\ [][Next]_vars /\ WF_vars(handle_interrupt) /\ WF_vars(alarm) /\ WF_vars(Service)

----------------------------------------------------------------------------

\* The type invariant.
TypeOK ==
  /\ sender \in {"idle", "filling", "filled", "waiting"}
  /\ reqs \in Seq(Kinds) /\ Len(reqs) <= MaxRequests
  /\ lock \in BOOLEAN /\ irq \in BOOLEAN /\ timer \in BOOLEAN /\ waiting_rx \in BOOLEAN
  /\ pending_tx \in BOOLEAN /\ current_app \in BOOLEAN
  /\ abandoned \in BOOLEAN /\ dropped \in BOOLEAN
  /\ cmd \in 0..Len(reqs)
  /\ status \in {"Busy", "Complete", "Failure"}
  /\ sram \in [what : {"zero", "request", "response"}, of : 0..Len(reqs)]
  /\ state \in {"RxWait", "TxInProgress", "RespFinishPending"}
  /\ buffered_msg \in 0..Len(reqs) \cup {None}
  /\ upcalls \in [request : 0..Len(reqs) \cup {None}, sent : BOOLEAN]
  /\ at \in {"start", "top", "receive", "process", "send"}
  /\ req \in 0..Len(reqs) \cup {None} /\ taken \in 0..Len(reqs) /\ early \in 0..Len(reqs)

\* The requests between the driver's interrupt and the status that ends them.
Inside ==
  (IF buffered_msg # None THEN {"buffered"} ELSE {})
  \cup (IF upcalls.request # None THEN {"upcall"} ELSE {})
  \cup (IF at \in {"process", "send"} THEN {"service"} ELSE {})

\* The driver waits for a request exactly while none is inside: the service owns the
\* mailbox from the interrupt to the status, whether the request was delivered or kept
\* and whether or not the sender has left; only after a request was dropped may the
\* driver be left without anyone who will write a status.
OneInside ==
  /\ Cardinality(Inside) <= 1
  /\ Inside = {} /\ ~dropped => state = "RxWait"
  /\ Inside # {} => state # "RxWait"
  /\ timer = (state = "TxInProgress") /\ timer = current_app /\ timer = pending_tx
  /\ timer \/ upcalls.sent => at = "send"

\* A sender that waits reads the response to its own request, or a failure, unless an
\* earlier sender has left early: the driver then writes the late answer to whoever
\* has the mailbox.
AnswerIsOwn ==
  ~abandoned /\ sender = "waiting" /\ status = "Complete" => sram = Response(cmd)

\* A request is processed once, and not after a later one; the exception is a request
\* that the driver has met before its EXECUTE, by the interrupt of an abandoned one:
\* its own interrupt may bring it a second time.
ProcessedOnce ==
  [][at = "receive" /\ at' = "process" => req' > taken \/ (req' = taken /\ req' = early)]_vars

\* Every request gets a status, unless one was dropped: also when senders before it
\* left early and the interrupt of this one was ignored.
EveryRequestAnswered == (sender = "waiting") ~> (sender # "waiting" \/ status # "Busy" \/ dropped)
=============================================================================
