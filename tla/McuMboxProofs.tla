--------------------------- MODULE McuMboxProofs ---------------------------
(***************************************************************************)
(* What the MCU mailbox keeps, for any number of requests: its type, one   *)
(* request inside, the answer to the sender's own request, and the order   *)
(* in which requests are processed.                                        *)
(***************************************************************************)
EXTENDS McuMbox, FiniteSetTheorems, TLAPS

----------------------------------------------------------------------------
(* The inductive invariant.                                                *)

\* Where a request can be, one place excluding the others.
Place ==
  /\ at = "start" => upcalls.request = None /\ ~waiting_rx /\ buffered_msg = None
  /\ at = "top" => upcalls.request = None /\ ~waiting_rx
  /\ at = "receive" => /\ buffered_msg = None
                       /\ waiting_rx = (upcalls.request = None)
  /\ at \in {"process", "send"} =>
       upcalls.request = None /\ buffered_msg = None /\ ~waiting_rx
  /\ (at = "process") = (req # None)
  /\ at = "send" => upcalls.sent = ~timer
  /\ at # "send" => ~upcalls.sent /\ ~timer

\* Someone has a request and will write its status.
Busy == buffered_msg # None \/ upcalls.request # None \/ at \in {"process", "send"}

\* Who owns the mailbox, and the driver's three records of a response.
Owned ==
  /\ Busy => state # "RxWait"
  /\ ~Busy /\ ~dropped => state = "RxWait"
  /\ timer = (state = "TxInProgress")
  /\ current_app = timer /\ pending_tx = timer

\* The mailbox's lock is the sender's, and only it fills the mailbox.
Held ==
  /\ lock = (sender # "idle")
  /\ sender = "filling" => Len(reqs) < MaxRequests
  /\ sender = "filled" => cmd = Len(reqs) /\ Len(reqs) > 0
  /\ cmd \in {0, Len(reqs)}

\* While every sender waits for its answer, the request inside is the mailbox's.
Own ==
  ~abandoned =>
    /\ sender # "waiting" => status = "Busy" /\ ~irq
    /\ irq => ~Busy /\ status = "Busy"
    /\ irq \/ sender = "filled" => sram = Request(cmd)
    /\ Busy => sender = "waiting" /\ status = "Busy"
    /\ buffered_msg \in {None, cmd} /\ upcalls.request \in {None, cmd} /\ req \in {None, cmd}
    /\ at = "send" => sram = Response(cmd)
    /\ status = "Complete" => sram = Response(cmd)

\* A request inside is later than the last one processed, and one that is filled in or
\* announced is later than both, unless the driver has met it before its EXECUTE.  A
\* zeroised mailbox announces number 0.
Coming == irq \/ sender = "filled"

Later(n) ==
  /\ n > 0 => taken < n \/ (taken = n /\ n = early)
  /\ Coming => n < Len(reqs) \/ n = early

Fresh ==
  /\ Coming => taken < Len(reqs) \/ taken = early
  /\ Later(buffered_msg) /\ Later(upcalls.request) /\ Later(req)

Inv == TypeOK /\ Place /\ Owned /\ Held /\ Own /\ Fresh

----------------------------------------------------------------------------
(* The statuses survive their trip through the system call as numbers.     *)

\* The status the service asks for is the one command 3 writes.
LEMMA StatusAsNumber ==
  ASSUME NEW s \in {"Complete", "Failure"}
  PROVE  Decoded(Code(s)) = s
<1>1. Code(s) \in 0..3 /\ Statuses[Code(s) + 1] = s
  <2>1. \E c \in 0..3 : Statuses[c + 1] = s
    <3>1. CASE s = "Complete"
      <4>1. 2 \in 0..3 /\ Statuses[2 + 1] = s  BY <3>1 DEF Statuses
      <4>. QED  BY <4>1
    <3>2. CASE s = "Failure"
      <4>1. 3 \in 0..3 /\ Statuses[3 + 1] = s  BY <3>2 DEF Statuses
      <4>. QED  BY <4>1
    <3>. QED  BY <3>1, <3>2
  <2>. QED  BY <2>1 DEF Code
<1>. QED  BY <1>1 DEF Decoded

\* Whoever asks for a status while it owns the mailbox and no response is on its
\* way gets it written, and the driver waits for the next request.
LEMMA StatusWritten ==
  ASSUME NEW s \in {"Complete", "Failure"}, Inv, Busy, ~timer, set_mbox_cmd_status(s)
  PROVE  status' = s /\ state' = "RxWait"
<1>1. state = "RespFinishPending" /\ ~current_app
  BY DEF Inv, TypeOK, Owned
<1>. QED  BY <1>1, StatusAsNumber DEF set_mbox_cmd_status, MayFinish

----------------------------------------------------------------------------
(* Every step keeps the invariant.                                         *)

LEMMA InitInv == Init => Inv
<1>. SUFFICES ASSUME Init PROVE Inv
  OBVIOUS
<1>1. TypeOK
  <2>1. reqs \in Seq(Kinds) /\ Len(reqs) = 0 /\ Len(reqs) <= MaxRequests
    BY MboxAssumption DEF Init
  <2>2. 0 \in 0..Len(reqs)
    BY <2>1
  <2>3. sram \in [what : {"zero", "request", "response"}, of : 0..Len(reqs)]
    BY <2>2 DEF Init, Zero
  <2>4. upcalls \in [request : 0..Len(reqs) \cup {None}, sent : BOOLEAN]
    BY DEF Init
  <2>. QED  BY <2>1, <2>2, <2>3, <2>4 DEF Init, TypeOK
<1>2. Place /\ Owned /\ Held /\ Own /\ Fresh
  BY DEF Init, Place, Owned, Held, Own, Fresh, Later, Coming, Busy, None
<1>. QED  BY <1>1, <1>2 DEF Inv

\* The sender locks an idle mailbox.
LEMMA LockInv ==
  ASSUME Inv, Lock
  PROVE  Inv'
<1>. USE DEF regs, driver, capsule, service
<1>1. TypeOK'
  BY DEF Inv, Lock, TypeOK
<1>2. Place' /\ Owned'
  BY DEF Inv, Lock, Place, Owned, Busy
<1>3. Held' /\ Own'
  BY DEF Inv, Lock, Held, Own, Busy, Response
<1>4. Fresh'
  BY DEF Inv, Lock, Fresh, Later, Coming
<1>. QED  BY <1>1, <1>2, <1>3, <1>4 DEF Inv

\* It fills the mailbox: the request is the latest.
LEMMA FillInv ==
  ASSUME NEW k \in Kinds, Inv, fill(k)
  PROVE  Inv'
<1>. USE DEF regs, driver, capsule, service
<1>1. /\ reqs' \in Seq(Kinds) /\ Len(reqs) \in Nat /\ Len(reqs') = Len(reqs) + 1
      /\ Len(reqs') <= MaxRequests
  BY MboxAssumption DEF Inv, fill, TypeOK, Held
<1>2. TypeOK'
  <2>1. 0..Len(reqs) \subseteq 0..Len(reqs') /\ Len(reqs') \in 0..Len(reqs')
    BY <1>1
  <2>2. cmd' \in 0..Len(reqs') /\ sram' \in [what : {"zero", "request", "response"}, of : 0..Len(reqs')]
    BY <2>1 DEF fill, Request
  <2>3. /\ buffered_msg' \in 0..Len(reqs') \cup {None} /\ req' \in 0..Len(reqs') \cup {None}
        /\ taken' \in 0..Len(reqs') /\ early' \in 0..Len(reqs')
        /\ upcalls' \in [request : 0..Len(reqs') \cup {None}, sent : BOOLEAN]
    BY <2>1 DEF Inv, fill, TypeOK
  <2>. QED  BY <1>1, <2>2, <2>3 DEF Inv, fill, TypeOK
<1>3. Place' /\ Owned'
  BY DEF Inv, fill, Place, Owned, Busy
<1>4. Held'
  BY <1>1 DEF Inv, fill, Held
<1>5. Own'
  BY <1>1 DEF Inv, fill, Own, Busy, Place
<1>6. Fresh'
  BY <1>1 DEF Inv, fill, Fresh, Later, Coming, TypeOK, None
<1>. QED  BY <1>2, <1>3, <1>4, <1>5, <1>6 DEF Inv

\* It announces the request.
LEMMA ExecuteInv ==
  ASSUME Inv, execute
  PROVE  Inv'
<1>. USE DEF regs, driver, capsule, service
<1>0. irq' \in BOOLEAN
  BY DEF execute
<1>1. TypeOK'
  BY <1>0 DEF Inv, execute, TypeOK
<1>2. Place' /\ Owned'
  BY DEF Inv, execute, Place, Owned, Busy
<1>3. Held'
  BY DEF Inv, execute, Held
<1>4. Own'
  BY DEF Inv, execute, Own, Busy
<1>5. Fresh'
  BY DEF Inv, execute, Fresh, Later, Coming
<1>. QED  BY <1>1, <1>2, <1>3, <1>4, <1>5 DEF Inv

\* It releases the mailbox, with its answer or without.
LEMMA ReleaseInv ==
  ASSUME Inv, get_execute_response \/ Abandon
  PROVE  Inv'
<1>. USE DEF regs, driver, capsule, service
<1>1. mailbox_zeroization /\ abandoned' \in BOOLEAN /\ sender = "waiting"
      /\ (~abandoned' => ~abandoned /\ status # "Busy")
  BY DEF Inv, TypeOK, get_execute_response, Abandon
<1>2. TypeOK'
  <2>1. 0 \in 0..Len(reqs)
    BY DEF Inv, TypeOK
  <2>2. sram' \in [what : {"zero", "request", "response"}, of : 0..Len(reqs')]
    BY <1>1, <2>1 DEF mailbox_zeroization, Zero
  <2>3. lock' \in BOOLEAN
    BY <1>1 DEF mailbox_zeroization
  <2>. QED  BY <1>1, <2>1, <2>2, <2>3 DEF Inv, mailbox_zeroization, TypeOK
<1>3. Place' /\ Owned' /\ Held'
  BY <1>1 DEF Inv, mailbox_zeroization, Place, Owned, Held, Busy
<1>4. Own'
  BY <1>1 DEF Inv, mailbox_zeroization, Own, Busy, Place
<1>5. Fresh'
  BY <1>1 DEF Inv, mailbox_zeroization, Fresh, Later, Coming
<1>. QED  BY <1>2, <1>3, <1>4, <1>5 DEF Inv

\* The interrupt: ignored, answered with a failure, or taken.
LEMMA InterruptInv ==
  ASSUME Inv, handle_interrupt
  PROVE  Inv'
<1>. USE DEF regs, driver, capsule, service
<1>1. /\ irq /\ irq' = FALSE
      /\ UNCHANGED <<sender, reqs, lock, cmd, sram, timer, pending_tx, current_app,
                     at, req, taken, abandoned>>
      /\ early' = IF MayTake /\ sender = "filled" THEN cmd ELSE early
  BY DEF handle_interrupt
<1>0. irq' \in BOOLEAN /\ early' \in 0..Len(reqs)
  BY <1>1 DEF Inv, TypeOK
<1>2. CASE ~MayTake
  <2>1. UNCHANGED <<status, state, waiting_rx, buffered_msg, upcalls, dropped, early>>
    BY <1>1, <1>2 DEF handle_interrupt
  <2>2. TypeOK'
    BY <1>0, <1>1, <2>1 DEF Inv, TypeOK
  <2>3. Place' /\ Owned' /\ Held' /\ Fresh'
    BY <1>1, <2>1 DEF Inv, Place, Owned, Held, Fresh, Later, Coming, Busy
  <2>4. Own'
    BY <1>1, <2>1 DEF Inv, Own, Busy
  <2>. QED  BY <2>2, <2>3, <2>4 DEF Inv
<1>3. CASE MayTake
  <2>1. ~Busy /\ ~timer /\ buffered_msg = None /\ upcalls.request = None /\ req = None
    BY <1>3 DEF Inv, Owned, Place, MayTake, Busy
  <2>2. PICK n : n = Announced
    OBVIOUS
  <2>3. n \in {0, Len(reqs)} /\ n \in 0..Len(reqs) /\ n # None /\ (~abandoned => n = cmd)
    BY <1>1, <2>2 DEF Announced, Inv, TypeOK, Held, Own, None
  <2>4. Len(reqs) \in Nat /\ taken \in 0..Len(reqs) /\ early \in 0..Len(reqs)
    BY DEF Inv, TypeOK
  <2>5. /\ taken < Len(reqs) \/ taken = early
        /\ sender = "filled" => early' = Len(reqs) /\ Len(reqs) > 0
        /\ sender # "filled" => early' = early
    BY <1>1, <1>3 DEF Inv, Fresh, Coming, Held
  <2>6. Later(n)' /\ Later(None)' /\ (Coming' => taken' < Len(reqs') \/ taken' = early')
    BY <1>1, <2>3, <2>4, <2>5 DEF Later, Coming, None
  <2>7. CASE KindOf(n) = "over"
    <3>1. status' = "Failure" /\ UNCHANGED <<state, waiting_rx, buffered_msg, upcalls, dropped>>
      BY <1>3, <2>2, <2>7 DEF handle_interrupt
    <3>2. TypeOK'
      BY <1>0, <1>1, <3>1 DEF Inv, TypeOK
    <3>3. Place' /\ Owned' /\ Held'
      BY <1>1, <3>1 DEF Inv, Place, Owned, Held, Busy
    <3>4. Own'
      BY <1>1, <3>1 DEF Inv, Own, Busy
    <3>5. Fresh'
      <4>1. buffered_msg' = None /\ upcalls'.request = None /\ req' = None
        BY <1>1, <2>1, <3>1
      <4>. QED  BY <2>6, <4>1 DEF Fresh, Later
    <3>. QED  BY <3>2, <3>3, <3>4, <3>5 DEF Inv
  <2>8. CASE KindOf(n) # "over"
    <3>1. request_received(n) /\ state' = "RespFinishPending" /\ UNCHANGED status
      BY <1>3, <2>2, <2>8 DEF handle_interrupt
    <3>2. CASE at = "start"
      <4>1. dropped' = TRUE /\ UNCHANGED <<waiting_rx, buffered_msg, upcalls>>
        BY <3>1, <3>2 DEF request_received
      <4>0. dropped' \in BOOLEAN
        BY <4>1
      <4>2. TypeOK'
        BY <1>0, <1>1, <3>1, <4>0, <4>1 DEF Inv, TypeOK
      <4>3. Place' /\ Owned' /\ Held'
        BY <1>1, <2>1, <3>1, <3>2, <4>1 DEF Inv, Place, Owned, Held, Busy
      <4>4. Own'
        BY <1>1, <2>1, <3>1, <4>1 DEF Inv, Own, Busy
      <4>5. Fresh'
        <5>1. buffered_msg' = None /\ upcalls'.request = None /\ req' = None
          BY <1>1, <2>1, <4>1
        <5>. QED  BY <2>6, <5>1 DEF Fresh, Later
      <4>. QED  BY <4>2, <4>3, <4>4, <4>5 DEF Inv
    <3>3. CASE at # "start" /\ waiting_rx
      <4>1. /\ waiting_rx' = FALSE /\ upcalls' = [upcalls EXCEPT !.request = n]
            /\ UNCHANGED <<buffered_msg, dropped>>
        BY <3>1, <3>3 DEF request_received
      <4>2. /\ upcalls'.request = n /\ upcalls'.sent = upcalls.sent /\ waiting_rx' \in BOOLEAN
            /\ upcalls' \in [request : 0..Len(reqs) \cup {None}, sent : BOOLEAN]
        BY <2>3, <4>1 DEF Inv, TypeOK
      <4>3. TypeOK'
        BY <1>0, <1>1, <3>1, <4>1, <4>2 DEF Inv, TypeOK
      <4>4. at = "receive"
        BY <3>3 DEF Inv, Place, TypeOK
      <4>5. Place' /\ Owned' /\ Held'
        BY <1>1, <2>1, <2>3, <3>1, <4>1, <4>2, <4>4 DEF Inv, Place, Owned, Held, Busy
      <4>6. Own'
        BY <1>1, <2>1, <2>3, <3>1, <4>1, <4>2, <4>4 DEF Inv, Own, Busy
      <4>7. Fresh'
        <5>1. buffered_msg' = None /\ upcalls'.request = n /\ n = n' /\ req' = None
          BY <1>1, <2>1, <4>1, <4>2
        <5>. QED  BY <2>6, <5>1 DEF Fresh, Later
      <4>. QED  BY <4>3, <4>5, <4>6, <4>7 DEF Inv
    <3>4. CASE at # "start" /\ ~waiting_rx
      <4>1. /\ UNCHANGED <<waiting_rx, upcalls>>
            /\ buffered_msg' = Kept(n) /\ dropped' = (dropped \/ Kept(n) # n)
        BY <3>1, <3>4 DEF request_received
      <4>2. at = "top"
        BY <2>1, <3>4 DEF Inv, Place, TypeOK, Busy
      <4>3. /\ \/ buffered_msg' = n /\ dropped' = dropped
               \/ buffered_msg' = None /\ dropped' = TRUE
            /\ dropped' \in BOOLEAN
        BY <2>1, <2>3, <4>1 DEF Kept, Inv, TypeOK
      <4>4. TypeOK'
        BY <1>0, <1>1, <2>3, <3>1, <4>1, <4>3 DEF Inv, TypeOK
      <4>5. Place' /\ Owned' /\ Held'
        BY <1>1, <2>1, <2>3, <3>1, <4>1, <4>2, <4>3 DEF Inv, Place, Owned, Held, Busy
      <4>6. Own'
        BY <1>1, <2>1, <2>3, <3>1, <4>1, <4>2, <4>3 DEF Inv, Own, Busy
      <4>7. Fresh'
        <5>1. buffered_msg' \in {n, None} /\ upcalls'.request = None /\ req' = None
          BY <1>1, <2>1, <4>1, <4>3
        <5>. QED  BY <2>6, <5>1 DEF Fresh, Later
      <4>. QED  BY <4>4, <4>5, <4>6, <4>7 DEF Inv
    <3>. QED  BY <3>2, <3>3, <3>4 DEF Inv, TypeOK
  <2>. QED  BY <2>7, <2>8
<1>. QED  BY <1>2, <1>3

\* The alarm ends the response that is being sent.
LEMMA AlarmInv ==
  ASSUME Inv, alarm
  PROVE  Inv'
<1>. USE DEF regs, driver, capsule, service
<1>1. /\ timer /\ ~timer' /\ state' = "RespFinishPending" /\ ~current_app' /\ ~pending_tx'
      /\ upcalls' = [upcalls EXCEPT !.sent = TRUE]
      /\ UNCHANGED <<sender, reqs, lock, cmd, status, sram, irq, waiting_rx, buffered_msg,
                     at, req, taken, early, abandoned, dropped>>
  BY DEF alarm, Inv, Owned
<1>2. /\ upcalls'.request = upcalls.request /\ upcalls'.sent = TRUE
      /\ upcalls' \in [request : 0..Len(reqs) \cup {None}, sent : BOOLEAN]
  BY <1>1 DEF Inv, TypeOK
<1>3. timer' \in BOOLEAN /\ current_app' \in BOOLEAN /\ pending_tx' \in BOOLEAN
  BY DEF alarm, Inv, TypeOK
<1>4. TypeOK'
  BY <1>1, <1>2, <1>3 DEF Inv, TypeOK
<1>5. Place' /\ Held'
  BY <1>1, <1>2 DEF Inv, Place, Held, TypeOK
<1>6. Owned'
  BY <1>1, <1>2, <1>3 DEF Inv, Owned, Busy
<1>7. Own' /\ Fresh'
  BY <1>1, <1>2 DEF Inv, Own, Fresh, Later, Coming, Busy
<1>. QED  BY <1>4, <1>5, <1>6, <1>7 DEF Inv

\* The service makes its first system call.
LEMMA StartInv ==
  ASSUME Inv, subscribe_allow_rw
  PROVE  Inv'
<1>. USE DEF regs, driver, capsule, service
<1>1. at = "start" /\ at' = "top"
      /\ UNCHANGED <<sender, reqs, lock, cmd, status, sram, irq, state, timer, waiting_rx,
                     buffered_msg, pending_tx, current_app, upcalls, req, taken, early,
                     abandoned, dropped>>
  BY DEF subscribe_allow_rw
<1>2. TypeOK'
  BY <1>1 DEF Inv, TypeOK
<1>3. Place' /\ Owned' /\ Held'
  BY <1>1 DEF Inv, Place, Owned, Held, Busy
<1>4. Own' /\ Fresh'
  BY <1>1 DEF Inv, Own, Fresh, Later, Coming, Busy
<1>. QED  BY <1>2, <1>3, <1>4 DEF Inv

\* The service asks for a request; one in the buffer is delivered at once.
LEMMA ReceiveInv ==
  ASSUME Inv, receive_request
  PROVE  Inv'
<1>. USE DEF regs, driver, capsule, service
<1>1. at = "top" /\ ~waiting_rx
  BY DEF receive_request, Inv, Place
<1>2. /\ at' = "receive" /\ waiting_rx' = (buffered_msg = None) /\ buffered_msg' = None
      /\ upcalls' = IF buffered_msg = None THEN upcalls
                    ELSE [upcalls EXCEPT !.request = buffered_msg]
      /\ UNCHANGED <<sender, reqs, lock, cmd, status, sram, irq, state, timer, pending_tx,
                     current_app, req, taken, early, abandoned, dropped>>
  BY <1>1 DEF receive_request, Delivered
<1>3. /\ upcalls'.request = buffered_msg /\ upcalls'.sent = upcalls.sent
      /\ upcalls' \in [request : 0..Len(reqs) \cup {None}, sent : BOOLEAN]
  BY <1>1, <1>2 DEF Inv, TypeOK, Place
<1>4. waiting_rx' \in BOOLEAN
  BY <1>2
<1>5. TypeOK'
  BY <1>2, <1>3, <1>4 DEF Inv, TypeOK
<1>6. Place' /\ Owned' /\ Held'
  BY <1>1, <1>2, <1>3 DEF Inv, Place, Owned, Held, Busy
<1>7. Own' /\ Fresh'
  BY <1>1, <1>2, <1>3 DEF Inv, Own, Fresh, Later, Coming, Busy, Place, None
<1>. QED  BY <1>5, <1>6, <1>7 DEF Inv

\* The request reaches the service: refused, taken up, or dropped for want of memory.
LEMMA ReceivedInv ==
  ASSUME Inv, received
  PROVE  Inv'
<1>. USE DEF regs, driver, capsule, service
<1>1. /\ at = "receive" /\ upcalls.request # None
      /\ upcalls' = [upcalls EXCEPT !.request = None]
      /\ UNCHANGED <<sender, reqs, lock, cmd, sram, irq, timer, waiting_rx, buffered_msg,
                     pending_tx, current_app, taken, early, abandoned>>
  BY DEF received
<1>2. /\ upcalls'.request = None /\ upcalls'.sent = upcalls.sent
      /\ upcalls' \in [request : 0..Len(reqs) \cup {None}, sent : BOOLEAN]
  BY <1>1 DEF Inv, TypeOK
<1>3. Busy /\ ~timer /\ req = None /\ buffered_msg = None /\ ~waiting_rx
  BY <1>1 DEF Inv, Place, Busy
<1>4. CASE set_mbox_cmd_status("Failure") /\ at' = "top" /\ UNCHANGED <<req, dropped>>
  <2>1. status' = "Failure" /\ state' = "RxWait"
    BY <1>3, <1>4, StatusWritten
  <2>2. TypeOK'
    BY <1>1, <1>2, <1>4, <2>1 DEF Inv, TypeOK
  <2>3. Place' /\ Owned' /\ Held'
    BY <1>1, <1>2, <1>3, <1>4, <2>1 DEF Inv, Place, Owned, Held, Busy
  <2>4. Own' /\ Fresh'
    BY <1>1, <1>2, <1>3, <1>4, <2>1 DEF Inv, Own, Fresh, Later, Coming, Busy, None
  <2>. QED  BY <2>2, <2>3, <2>4 DEF Inv
<1>5. CASE at' = "process" /\ req' = upcalls.request /\ UNCHANGED <<status, state, dropped>>
  <2>1. TypeOK'
    BY <1>1, <1>2, <1>5 DEF Inv, TypeOK
  <2>2. Place' /\ Owned' /\ Held'
    BY <1>1, <1>2, <1>3, <1>5 DEF Inv, Place, Owned, Held, Busy
  <2>3. Own' /\ Fresh'
    BY <1>1, <1>2, <1>3, <1>5 DEF Inv, Own, Fresh, Later, Coming, Busy, None
  <2>. QED  BY <2>1, <2>2, <2>3 DEF Inv
<1>6. CASE at' = "top" /\ dropped' = TRUE /\ UNCHANGED <<status, state, req>>
  <2>0. dropped' \in BOOLEAN
    BY <1>6
  <2>1. TypeOK'
    BY <1>1, <1>2, <1>6, <2>0 DEF Inv, TypeOK
  <2>2. Place' /\ Owned' /\ Held'
    BY <1>1, <1>2, <1>3, <1>6 DEF Inv, Place, Owned, Held, Busy
  <2>3. Own' /\ Fresh'
    BY <1>1, <1>2, <1>3, <1>6 DEF Inv, Own, Fresh, Later, Coming, Busy, None
  <2>. QED  BY <2>1, <2>2, <2>3 DEF Inv
<1>. QED  BY <1>4, <1>5, <1>6 DEF received

\* The request is processed: its response is sent, or its failure reported.
LEMMA ProcessedInv ==
  ASSUME NEW ok \in BOOLEAN, Inv, processed(ok)
  PROVE  Inv'
<1>. USE DEF regs, driver, capsule, service
<1>1. /\ at = "process" /\ taken' = req /\ req' = None
      /\ UNCHANGED <<sender, reqs, lock, cmd, irq, waiting_rx, buffered_msg, upcalls,
                     early, abandoned, dropped>>
  BY DEF processed
<1>2. /\ Busy /\ ~timer /\ req # None /\ ~current_app /\ ~pending_tx
      /\ upcalls.request = None /\ buffered_msg = None
  BY <1>1 DEF Inv, Place, Owned, Busy
<1>3. req \in 0..Len(reqs)
  BY <1>2 DEF Inv, TypeOK
<1>4. Fresh'
  BY <1>1, <1>2, <1>3 DEF Inv, Fresh, Later, Coming, None, TypeOK
<1>5. CASE ok
  <2>1. send_response(req) /\ at' = "send" /\ UNCHANGED status
    BY <1>2, <1>5 DEF processed
  <2>2. timer' \in BOOLEAN /\ current_app' \in BOOLEAN /\ pending_tx' \in BOOLEAN
    BY <2>1 DEF send_response
  <2>3. sram' \in [what : {"zero", "request", "response"}, of : 0..Len(reqs)]
    BY <2>1, <1>3 DEF send_response, Response, Inv, TypeOK
  <2>4. TypeOK'
    BY <1>1, <1>3, <2>1, <2>2, <2>3 DEF Inv, TypeOK, send_response
  <2>5. Place' /\ Held'
    <3>1. upcalls.sent = FALSE /\ timer' = TRUE /\ UNCHANGED lock
      BY <1>1, <2>1 DEF Inv, Place, TypeOK, send_response
    <3>. QED  BY <1>1, <1>2, <2>1, <3>1 DEF Inv, Place, Held
  <2>6. Owned'
    BY <1>1, <1>2, <2>1 DEF Inv, Owned, Busy, send_response
  <2>7. Own'
    BY <1>1, <1>2, <2>1 DEF Inv, Own, Busy, Held, send_response
  <2>. QED  BY <1>4, <2>4, <2>5, <2>6, <2>7 DEF Inv
<1>6. CASE ~ok
  <2>1. set_mbox_cmd_status("Failure") /\ at' = "top"
        /\ UNCHANGED <<sram, timer, current_app, pending_tx>>
    BY <1>2, <1>6 DEF processed
  <2>2. status' = "Failure" /\ state' = "RxWait"
    BY <1>2, <2>1, StatusWritten
  <2>3. TypeOK'
    BY <1>1, <1>3, <2>1, <2>2 DEF Inv, TypeOK
  <2>4. Place' /\ Owned' /\ Held'
    BY <1>1, <1>2, <2>1, <2>2 DEF Inv, Place, Owned, Held, Busy
  <2>5. Own'
    BY <1>1, <1>2, <2>1, <2>2 DEF Inv, Own, Busy
  <2>. QED  BY <1>4, <2>3, <2>4, <2>5 DEF Inv
<1>. QED  BY <1>5, <1>6

\* The response is in the mailbox and its status is written.
LEMMA ResponseSentInv ==
  ASSUME Inv, response_sent
  PROVE  Inv'
<1>. USE DEF regs, driver, capsule, service
<1>1. /\ at = "send" /\ upcalls.sent /\ at' = "top" /\ set_mbox_cmd_status("Complete")
      /\ upcalls' = [upcalls EXCEPT !.sent = FALSE]
      /\ UNCHANGED <<sender, reqs, lock, cmd, sram, irq, timer, waiting_rx, buffered_msg,
                     pending_tx, current_app, req, taken, early, abandoned, dropped>>
  BY DEF response_sent
<1>2. /\ upcalls'.request = upcalls.request /\ upcalls'.sent = FALSE
      /\ upcalls' \in [request : 0..Len(reqs) \cup {None}, sent : BOOLEAN]
  BY <1>1 DEF Inv, TypeOK
<1>3. Busy /\ ~timer /\ upcalls.request = None /\ buffered_msg = None /\ ~waiting_rx
  BY <1>1 DEF Inv, Place, Busy, TypeOK
<1>4. status' = "Complete" /\ state' = "RxWait"
  BY <1>1, <1>3, StatusWritten
<1>5. TypeOK'
  BY <1>1, <1>2, <1>4 DEF Inv, TypeOK
<1>6. Place' /\ Owned' /\ Held'
  BY <1>1, <1>2, <1>3, <1>4 DEF Inv, Place, Owned, Held, Busy
<1>7. Own' /\ Fresh'
  BY <1>1, <1>2, <1>3, <1>4 DEF Inv, Own, Fresh, Later, Coming, Busy
<1>. QED  BY <1>5, <1>6, <1>7 DEF Inv

\* A step that changes nothing.
LEMMA StutterInv ==
  ASSUME Inv, UNCHANGED vars
  PROVE  Inv'
<1>. USE DEF vars, regs, driver, capsule, service
<1>1. TypeOK' /\ Place' /\ Owned'
  BY DEF Inv, TypeOK, Place, Owned, Busy
<1>2. Held' /\ Own' /\ Fresh'
  BY DEF Inv, Held, Own, Fresh, Later, Coming, Busy
<1>. QED  BY <1>1, <1>2 DEF Inv

\* Every step of the sender, of the driver and of the service keeps the invariant.
LEMMA NextInv == Inv /\ [Next]_vars => Inv'
<1>. SUFFICES ASSUME Inv, [Next]_vars PROVE Inv'
  OBVIOUS
<1>1. CASE Sender
  BY <1>1, LockInv, FillInv, ExecuteInv, ReleaseInv DEF Sender
<1>2. CASE Kernel
  BY <1>2, InterruptInv, AlarmInv DEF Kernel
<1>3. CASE Service
  BY <1>3, StartInv, ReceiveInv, ReceivedInv, ProcessedInv, ResponseSentInv DEF Service
<1>4. CASE UNCHANGED vars
  BY <1>4, StutterInv
<1>. QED  BY <1>1, <1>2, <1>3, <1>4 DEF Next

----------------------------------------------------------------------------
(* What follows.                                                           *)

\* One place of the invariant is one member of Inside.
LEMMA InsideIsBusy ==
  ASSUME Inv
  PROVE  /\ (Inside # {}) = Busy
         /\ \E x : Inside \subseteq {x}
<1>1. (Inside # {}) = Busy
  BY DEF Inside, Busy
<1>2. CASE at \in {"start", "top"}
  <2>1. Inside \subseteq {"buffered"}
    BY <1>2 DEF Inv, Place, Inside
  <2>. QED  BY <1>1, <2>1
<1>3. CASE at = "receive"
  <2>1. Inside \subseteq {"upcall"}
    BY <1>3 DEF Inv, Place, Inside
  <2>. QED  BY <1>1, <2>1
<1>4. CASE at \in {"process", "send"}
  <2>1. Inside \subseteq {"service"}
    BY <1>4 DEF Inv, Place, Inside
  <2>. QED  BY <1>1, <2>1
<1>. QED  BY <1>2, <1>3, <1>4 DEF Inv, TypeOK

\* The registers, the driver, the capsule and the service keep their types for any
\* number of requests.
THEOREM TypeCorrect == Spec => []TypeOK
<1>1. Inv => TypeOK
  BY DEF Inv
<1>. QED  BY <1>1, InitInv, NextInv, PTL DEF Spec

\* The inductive invariant holds of the whole protocol.
THEOREM MailboxInvariant == Spec => []Inv
BY InitInv, NextInv, PTL DEF Spec

\* The service owns the mailbox from the interrupt to the status: one request is inside
\* at a time and the driver takes none meanwhile, whatever senders do.
THEOREM OneInsideHolds == Spec => []OneInside
<1>1. Inv => OneInside
  <2>. SUFFICES ASSUME Inv PROVE OneInside
    OBVIOUS
  <2>1. PICK x : Inside \subseteq {x}
    BY InsideIsBusy
  <2>2. Inside = {} \/ Inside = {x}
    BY <2>1
  <2>3. Cardinality(Inside) <= 1
    <3>1. Cardinality({}) = 0 /\ Cardinality({x}) = 1
      BY FS_EmptySet, FS_Singleton, Zenon
    <3>. QED  BY <2>2, <3>1
  <2>4. /\ Inside = {} /\ ~dropped => state = "RxWait"
        /\ Inside # {} => state # "RxWait"
    BY InsideIsBusy DEF Inv, Owned
  <2>5. timer = (state = "TxInProgress") /\ timer = current_app /\ timer = pending_tx
    BY DEF Inv, Owned
  <2>6. timer \/ upcalls.sent => at = "send"
    BY DEF Inv, Place
  <2>. QED  BY <2>3, <2>4, <2>5, <2>6 DEF OneInside
<1>. QED  BY <1>1, MailboxInvariant, PTL

\* As long as no sender leaves early, a sender that reads "complete" finds the
\* response to its own request.
THEOREM AnswerIsOwnHolds == Spec => []AnswerIsOwn
<1>1. Inv => AnswerIsOwn
  BY DEF Inv, Own, AnswerIsOwn
<1>. QED  BY <1>1, MailboxInvariant, PTL

\* The service takes up requests in the order of their arrival, and each at most once
\* unless the interrupt of an abandoned request brought it to the driver before its
\* EXECUTE; such a request may be taken up again, but not after a later one.
THEOREM ProcessedOnceHolds == Spec => ProcessedOnce
<1>1. Inv /\ [Next]_vars => [at = "receive" /\ at' = "process"
                              => req' > taken \/ (req' = taken /\ req' = early)]_vars
  <2>. SUFFICES ASSUME Inv, Next, at = "receive", at' = "process"
                PROVE  req' > taken \/ (req' = taken /\ req' = early)
    OBVIOUS
  <2>. USE DEF regs, driver, capsule, service
  <2>1. received
    BY DEF Next, Sender, Kernel, Service, Lock, fill, execute, get_execute_response, Abandon,
           mailbox_zeroization, handle_interrupt, alarm,
           subscribe_allow_rw, receive_request, processed, response_sent
  <2>2. KindOf(upcalls.request) = "good" /\ req' = upcalls.request
    BY <2>1 DEF received
  <2>3. upcalls.request \in 0..Len(reqs) /\ upcalls.request # 0
    BY <2>1, <2>2 DEF received, KindOf, Inv, TypeOK
  <2>. QED  BY <2>2, <2>3 DEF Inv, Fresh, Later, Coming, TypeOK
<1>. QED  BY <1>1, MailboxInvariant, PTL DEF Spec, ProcessedOnce

=============================================================================
