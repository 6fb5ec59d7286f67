--------------------------- MODULE LogDriverProofs ---------------------------
(***************************************************************************)
(* Proofs about the log's system call driver: for any number of apps, the  *)
(* log's callback finds the app that asked and no two commands use the     *)
(* kernel buffer; and while the log refuses no queued command and the      *)
(* buffer is not lost, no accepted command is lost and nobody waits for    *)
(* nothing.                                                                *)
(***************************************************************************)
EXTENDS LogDriver, TLAPS

\* The request that check_queue hands over is an op.
LEMMA QueuedOps ==
  ASSUME TypeOK, NEW a \in Queued
  PROVE  a \in Apps /\ queue[a] \in Ops /\ alive[a] = TRUE
BY DEF TypeOK, Queued, Ops

\* What Returned gives is a kernel buffer that is not with the log.
LEMMA ReturnedType ==
  ASSUME OwnerInv, busy.op # "none"
  PROVE  /\ Returned \in {"driver", "lost"}
BY DEF OwnerInv, TypeOK, CallbackFindsOwner, BufferWithLog, Returned, Gone, Ops, Buffered

\* CallLog establishes the invariant's part about the log.
LEMMA CallLogOwner ==
  ASSUME NEW a \in Apps, NEW op \in Ops,
         NEW b \in {"driver", "lost"},
         CallLog(a, op, b)
  PROVE  /\ current' \in Apps
         /\ buf' \in {"driver", "log", "lost"}
         /\ busy' \in [op : Ops \cup {"none"}, by : Apps \cup {NoApp}]
         /\ CallbackFindsOwner' /\ BufferWithLog'
<1>1. current' = a /\ a # NoApp
  BY DriverAssumption DEF CallLog, Apps, NoApp
<1>2. busy'.op = op /\ busy'.by = a /\ op # "none"
  BY DEF CallLog, Ops
<1>3. CallbackFindsOwner'
  BY <1>1, <1>2 DEF CallbackFindsOwner
<1>4. BufferWithLog'
  <2>1. CASE op \in Buffered
    BY <2>1, <1>2 DEF CallLog, BufferWithLog
  <2>2. CASE op \notin Buffered
    BY <2>2, <1>2 DEF CallLog, BufferWithLog
  <2> QED BY <2>1, <2>2
<1>5. busy' \in [op : Ops \cup {"none"}, by : Apps \cup {NoApp}]
  BY DEF CallLog
<1>6. buf' \in {"driver", "log", "lost"}
  BY DEF CallLog
<1> QED BY <1>1, <1>3, <1>4, <1>5, <1>6

\* check_queue keeps the invariant, whatever the log answers.
LEMMA CheckQueueOwner ==
  ASSUME TypeOK,
         NEW b \in {"driver", "lost"},
         check_queue(b)
  PROVE  /\ current' \in Apps \cup {NoApp}
         /\ queue' \in [Apps -> Ops \cup {"none"}]
         /\ \A a \in Apps : queue[a] = "none" => queue'[a] = "none"
         /\ buf' \in {"driver", "log", "lost"}
         /\ busy' \in [op : Ops \cup {"none"}, by : Apps \cup {NoApp}]
         /\ CallbackFindsOwner' /\ BufferWithLog'
<1>0. /\ NoRequest \in [op : Ops \cup {"none"}, by : Apps \cup {NoApp}]
      /\ NoRequest.op = "none" /\ "none" \notin Buffered
  BY DEF NoRequest, Buffered
<1>1. CASE Queued = {} /\ current' = NoApp /\ busy' = NoRequest /\ buf' = b /\ queue' = queue
  BY <1>1, <1>0 DEF TypeOK, CallbackFindsOwner, BufferWithLog
<1>2. CASE \E a \in Queued :
             /\ \A c \in Queued : c < a => MayRefuse(queue[c], b)
             /\ CallLog(a, queue[a], b)
             /\ queue' = [c \in Apps |-> IF c <= a THEN "none" ELSE queue[c]]
  <2>1. PICK a \in Queued :
             /\ CallLog(a, queue[a], b)
             /\ queue' = [c \in Apps |-> IF c <= a THEN "none" ELSE queue[c]]
    BY <1>2
  <2>2. a \in Apps /\ queue[a] \in Ops
    BY QueuedOps
  <2>3. /\ queue' \in [Apps -> Ops \cup {"none"}]
        /\ \A c \in Apps : queue[c] = "none" => queue'[c] = "none"
    BY <2>1 DEF TypeOK
  <2> QED BY <2>1, <2>2, <2>3, CallLogOwner
<1>3. CASE \E a \in Queued :
             /\ \A c \in Queued : c <= a /\ MayRefuse(queue[c], b)
             /\ current' = a /\ busy' = NoRequest /\ buf' = b
             /\ queue' = [c \in Apps |-> "none"]
  BY <1>3, <1>0, QueuedOps DEF CallbackFindsOwner, BufferWithLog
<1> QED BY <1>1, <1>2, <1>3 DEF check_queue

LEMMA OwnerInit == Init => OwnerInv
BY DEF Init, OwnerInv, TypeOK, CallbackFindsOwner, BufferWithLog, NoRequest, Ops, Buffered, NoApp

\* Every step keeps the invariant.
LEMMA OwnerStep == OwnerInv /\ [Next]_vars => OwnerInv'
<1> SUFFICES ASSUME OwnerInv, [Next]_vars PROVE OwnerInv'
  OBVIOUS
<1>0. TypeOK /\ CallbackFindsOwner /\ BufferWithLog
  BY DEF OwnerInv
<1>1. CASE UNCHANGED vars
  BY <1>0, <1>1 DEF OwnerInv, TypeOK, CallbackFindsOwner, BufferWithLog, vars, Queued
<1>2. ASSUME NEW a \in Apps, NEW op \in Ops, NEW shared \in BOOLEAN,
             alive[a], CallAtOnce(a, op, shared)
      PROVE  OwnerInv'
  <2>1. current = NoApp /\ busy.op = "none" /\ buf # "log"
    BY <1>0, <1>2 DEF CallAtOnce, CallbackFindsOwner, BufferWithLog, Buffered
  <2>2. buf \in {"driver", "lost"}
    BY <1>0, <2>1 DEF TypeOK
  <2>3. UNCHANGED <<queue, alive>>
    BY <1>2 DEF CallAtOnce
  <2>4. CASE CallLog(a, op, buf) /\ owes' = [owes EXCEPT ![a] = @ + 1]
    <3>1. owes' \in [Apps -> Int]
      BY <1>0, <2>4 DEF TypeOK
    <3> QED BY <1>0, <2>2, <2>3, <2>4, <3>1, CallLogOwner DEF OwnerInv, TypeOK
  <2>5. CASE current' = AfterError(a) /\ UNCHANGED <<buf, busy, owes>>
    <3>1. buf' \in {"driver", "log", "lost"} /\ buf' # "log"
      BY <2>2, <2>5
    <3> QED BY <1>0, <2>1, <2>3, <2>5, <3>1
            DEF OwnerInv, TypeOK, CallbackFindsOwner, BufferWithLog, AfterError, Buffered
  <2> QED BY <1>2, <2>4, <2>5 DEF CallAtOnce
<1>3. ASSUME NEW a \in Apps, NEW op \in Ops, NEW shared \in BOOLEAN,
             alive[a], Enqueue(a, op, shared)
      PROVE  OwnerInv'
  <2>1. queue' \in [Apps -> Ops \cup {"none"}] /\ owes' \in [Apps -> Int]
    BY <1>0, <1>3 DEF Enqueue, TypeOK
  <2>2. \A c \in Apps : ~alive'[c] => queue'[c] = "none"
    BY <1>0, <1>3 DEF Enqueue, TypeOK
  <2> QED BY <1>0, <1>3, <2>1, <2>2
          DEF Enqueue, OwnerInv, TypeOK, CallbackFindsOwner, BufferWithLog
<1>4. ASSUME NEW a \in Apps, Exit(a) PROVE OwnerInv'
  <2>1. /\ queue' \in [Apps -> Ops \cup {"none"}] /\ owes' \in [Apps -> Int]
        /\ alive' \in [Apps -> BOOLEAN]
    BY <1>0, <1>4 DEF Exit, TypeOK
  <2>2. \A c \in Apps : ~alive'[c] => queue'[c] = "none"
    BY <1>0, <1>4 DEF Exit, TypeOK
  <2> QED BY <1>0, <1>4, <2>1, <2>2
          DEF Exit, OwnerInv, TypeOK, CallbackFindsOwner, BufferWithLog
<1>5. CASE done
  <2>1. Returned \in {"driver", "lost"}
    BY <1>5, ReturnedType DEF done
  <2>2. check_queue(Returned) /\ UNCHANGED alive
    BY <1>5 DEF done
  <2>4. \A a \in Apps : ~alive'[a] => queue'[a] = "none"
    BY <1>0, <2>1, <2>2, CheckQueueOwner DEF TypeOK
  <2>5. owes' \in [Apps -> Int]
    BY <1>0, <1>5 DEF done, TypeOK, Gone
  <2> QED BY <1>0, <2>1, <2>2, <2>4, <2>5, CheckQueueOwner DEF OwnerInv, TypeOK
<1>6. ASSUME NEW a \in Apps, Command(a) PROVE OwnerInv'
  BY <1>1, <1>2, <1>3, <1>6 DEF Command, Refuse
<1> QED BY <1>1, <1>4, <1>5, <1>6 DEF Next

\* For any number of apps, with a log that may refuse any request and apps that
\* may end at any moment: the state is well typed, the callback of the log finds
\* the app whose request it answers, and the kernel buffer is with the log only
\* for the one read or append under way.
THEOREM DriverOwner == Spec => []OwnerInv
BY OwnerInit, OwnerStep, PTL DEF Spec

----------------------------------------------------------------------------

\* QueueInv is inductive when no queued command is refused: with the buffer there,
\* every queued command can be started.

\* Initially nothing is queued, owed or with the log.
LEMMA QueueInit == Init => QueueInv
<1> SUFFICES ASSUME Init PROVE QueueInv
  OBVIOUS
<1>1. OwnerInv
  BY OwnerInit
<1>2. \A a \in Apps : owes[a] = Held(a)
  BY DriverAssumption DEF Init, Held, NoRequest, NoApp, Apps
<1>3. CurrentMeansBusy /\ (busy.op = "none" => busy.by = NoApp) /\ WaitsOnlyWhenBusy
  BY DEF Init, CurrentMeansBusy, WaitsOnlyWhenBusy, NoRequest, Queued
<1> QED BY <1>1, <1>2, <1>3 DEF QueueInv, NothingDropped

\* With or without the buffer, check_queue ends with no current app only when
\* nothing is queued, and does not bring a lost buffer back.
LEMMA CheckQueueWaits ==
  ASSUME TypeOK, NEW b \in {"driver", "lost"},
         check_queue(b)
  PROVE  /\ WaitsOnlyWhenBusy'
         /\ busy'.op = "none" => busy'.by = NoApp
         /\ b = "lost" => buf' = "lost"
<1>d. NoApp \notin Apps
  BY DriverAssumption DEF NoApp, Apps
<1>1. CASE Queued = {} /\ current' = NoApp /\ busy' = NoRequest /\ buf' = b /\ queue' = queue
  BY <1>1 DEF WaitsOnlyWhenBusy, NoRequest, Queued
<1>2. ASSUME NEW a \in Queued, CallLog(a, queue[a], b)
      PROVE  /\ current' # NoApp /\ busy'.op # "none"
             /\ b = "lost" => buf' = "lost"
  <2>1. a \in Apps /\ queue[a] \in Ops /\ queue[a] # "none"
    BY QueuedOps DEF Ops
  <2> QED BY <1>2, <2>1, <1>d DEF CallLog
<1>3. ASSUME NEW a \in Queued, current' = a, busy' = NoRequest, buf' = b
      PROVE  /\ current' # NoApp /\ busy'.by = NoApp
             /\ b = "lost" => buf' = "lost"
  BY <1>3, <1>d, QueuedOps DEF NoRequest
<1> QED BY <1>1, <1>2, <1>3 DEF check_queue, WaitsOnlyWhenBusy

\* With the buffer back in the driver check_queue starts the first command, or
\* there is none.
LEMMA CheckQueueStarts ==
  ASSUME TypeOK, "queued" \notin Refusals,
         NEW b \in {"driver"},
         check_queue(b)
  PROVE  \/ Queued = {} /\ current' = NoApp /\ busy' = NoRequest /\ buf' = b /\ queue' = queue
         \/ \E a \in Queued :
              /\ CallLog(a, queue[a], b)
              /\ queue' = [queue EXCEPT ![a] = "none"]
<1>0. \A c \in Queued : ~MayRefuse(queue[c], b)
  BY DEF MayRefuse
<1>1. ASSUME NEW a \in Queued,
             \A c \in Queued : c < a => MayRefuse(queue[c], b),
             CallLog(a, queue[a], b),
             queue' = [c \in Apps |-> IF c <= a THEN "none" ELSE queue[c]]
      PROVE  queue' = [queue EXCEPT ![a] = "none"]
  <2>1. a \in Apps
    BY DEF Queued
  <2>2. \A c \in Apps : c < a => queue[c] = "none"
    BY <1>0, <1>1 DEF Queued
  <2>3. \A c \in Apps : (IF c <= a THEN "none" ELSE queue[c])
                        = [queue EXCEPT ![a] = "none"][c]
    BY <2>1, <2>2, DriverAssumption DEF TypeOK, Apps
  <2> QED BY <1>1, <2>3 DEF TypeOK
<1>2. ASSUME NEW a \in Queued, \A c \in Queued : c <= a /\ MayRefuse(queue[c], b)
      PROVE  FALSE
  BY <1>0, <1>2
<1> QED BY <1>1, <1>2 DEF check_queue

\* Every step keeps the invariant.
LEMMA QueueStep ==
  ASSUME "queued" \notin Refusals
  PROVE  QueueInv /\ [Next]_vars => QueueInv'
<1> SUFFICES ASSUME QueueInv, [Next]_vars PROVE QueueInv'
  OBVIOUS
<1>0. /\ OwnerInv /\ OwnerInv'
      /\ TypeOK /\ CallbackFindsOwner /\ BufferWithLog /\ TypeOK' /\ CallbackFindsOwner'
      /\ BufferKept => \A a \in Apps : alive[a] => owes[a] = Held(a)
      /\ CurrentMeansBusy /\ WaitsOnlyWhenBusy
      /\ busy.op = "none" => busy.by = NoApp
  BY OwnerStep DEF QueueInv, NothingDropped, OwnerInv
<1>d. NoApp \notin Apps
  BY DriverAssumption DEF NoApp, Apps
<1>1. CASE UNCHANGED vars
  BY <1>0, <1>1 DEF QueueInv, NothingDropped, Held, CurrentMeansBusy, BufferKept, WaitsOnlyWhenBusy, vars, Queued
<1>2. ASSUME NEW a \in Apps, NEW op \in Ops, NEW shared \in BOOLEAN,
             CallAtOnce(a, op, shared)
      PROVE  QueueInv'
  <2>1. /\ current = NoApp /\ busy.by = NoApp /\ busy.op = "none"
        /\ UNCHANGED <<queue, alive>>
    BY <1>0, <1>2 DEF CallAtOnce, CallbackFindsOwner
  <2>3. CASE CallLog(a, op, buf) /\ owes' = [owes EXCEPT ![a] = @ + 1]
    <3>1. current' = a /\ busy'.by = a /\ busy'.op = op /\ op # "none"
      BY <2>3 DEF CallLog, Ops
    <3>2. BufferKept' => BufferKept
      BY <2>3 DEF CallLog, BufferKept
    <3>3. ASSUME BufferKept PROVE \A c \in Apps : alive'[c] => owes'[c] = Held(c)'
      BY <1>0, <1>d, <2>1, <2>3, <3>1, <3>3 DEF Held, TypeOK
    <3> QED BY <1>0, <1>d, <2>1, <3>1, <3>2, <3>3
            DEF QueueInv, NothingDropped, CurrentMeansBusy, WaitsOnlyWhenBusy
  <2>4. CASE current' = AfterError(a) /\ UNCHANGED <<buf, busy, owes>>
    BY <1>0, <2>1, <2>4
       DEF QueueInv, NothingDropped, Held, CurrentMeansBusy, BufferKept, WaitsOnlyWhenBusy, Queued, AfterError
  <2> QED BY <1>2, <2>3, <2>4 DEF CallAtOnce
<1>3. ASSUME NEW a \in Apps, NEW op \in Ops, NEW shared \in BOOLEAN,
             Enqueue(a, op, shared)
      PROVE  QueueInv'
  <2>1. ASSUME BufferKept PROVE \A c \in Apps : alive'[c] => owes'[c] = Held(c)'
    BY <1>0, <1>3, <2>1 DEF Enqueue, MayQueue, Held, TypeOK, Ops
  <2> QED BY <1>0, <1>3, <2>1
          DEF Enqueue, QueueInv, NothingDropped, CurrentMeansBusy, BufferKept, WaitsOnlyWhenBusy
<1>4. ASSUME NEW a \in Apps, Exit(a) PROVE QueueInv'
  <2>1. UNCHANGED <<current, buf, busy>> /\ \A c \in Apps : queue[c] = "none" => queue'[c] = "none"
    BY <1>0, <1>4 DEF Exit, TypeOK
  <2>2. ~alive'[a] /\ \A c \in Apps \ {a} : /\ alive'[c] = alive[c] /\ queue'[c] = queue[c]
                                           /\ owes'[c] = owes[c]
    BY <1>0, <1>4 DEF Exit, TypeOK
  <2>3. ASSUME BufferKept PROVE \A c \in Apps : alive'[c] => owes'[c] = Held(c)'
    BY <1>0, <2>1, <2>2, <2>3 DEF Held
  <2>4. WaitsOnlyWhenBusy'
    BY <1>0, <2>1 DEF WaitsOnlyWhenBusy, Queued
  <2> QED BY <1>0, <2>1, <2>3, <2>4 DEF QueueInv, NothingDropped, CurrentMeansBusy, BufferKept
<1>5. CASE done
  <2>1. current \in Apps /\ busy.by = current
    BY <1>0, <1>5 DEF done, CallbackFindsOwner, TypeOK
  <2>2. Returned \in {"driver", "lost"}
    BY <1>0, <1>5, ReturnedType DEF done
  <2>3. /\ check_queue(Returned) /\ UNCHANGED alive
        /\ owes' = IF Gone THEN owes ELSE [owes EXCEPT ![current] = @ - 1]
    BY <1>5 DEF done
  <2>4. /\ WaitsOnlyWhenBusy' /\ (busy'.op = "none" => busy'.by = NoApp)
        /\ Returned = "lost" => ~BufferKept'
    BY <1>0, <2>2, <2>3, CheckQueueWaits DEF BufferKept
  <2>5. CASE Returned = "lost"
    BY <1>0, <2>4, <2>5 DEF QueueInv, NothingDropped, CurrentMeansBusy
  <2>6. CASE Returned # "lost"
    <3>1. Returned \in {"driver"} /\ BufferKept
      BY <1>0, <2>2, <2>6 DEF Returned, TypeOK, BufferWithLog, BufferKept
    <3>2. \A c \in Apps : alive[c] => owes'[c] = IF queue[c] # "none" THEN 1 ELSE 0
      <4>1. CASE Gone
        BY <1>0, <1>d, <2>1, <2>3, <3>1, <4>1 DEF Gone, Held
      <4>2. CASE ~Gone
        BY <1>0, <2>1, <2>3, <3>1, <4>2 DEF Held, TypeOK
      <4> QED BY <4>1, <4>2
    <3>3. CASE Queued = {} /\ current' = NoApp /\ busy' = NoRequest /\ buf' = Returned /\ queue' = queue
      <4>1. \A c \in Apps : alive'[c] => owes'[c] = Held(c)'
        BY <1>d, <2>3, <3>2, <3>3 DEF Held, NoRequest
      <4> QED BY <1>0, <2>4, <3>3, <4>1 DEF QueueInv, NothingDropped, CurrentMeansBusy
    <3>4. ASSUME NEW a \in Queued, CallLog(a, queue[a], Returned),
                 queue' = [queue EXCEPT ![a] = "none"]
          PROVE  QueueInv'
      <4>1. a \in Apps /\ queue[a] \in Ops
        BY <1>0, QueuedOps
      <4>2. busy'.by = a /\ busy'.op = queue[a] /\ queue[a] # "none"
        BY <3>4, <4>1 DEF CallLog, Ops
      <4>3. \A c \in Apps : alive'[c] => owes'[c] = Held(c)'
        BY <1>0, <2>3, <3>2, <3>4, <4>1, <4>2 DEF Held, TypeOK
      <4> QED BY <1>0, <2>4, <4>2, <4>3 DEF QueueInv, NothingDropped, CurrentMeansBusy
    <3> QED BY <1>0, <2>3, <3>1, <3>3, <3>4, CheckQueueStarts
  <2> QED BY <2>5, <2>6
<1>6. ASSUME NEW a \in Apps, Command(a) PROVE QueueInv'
  BY <1>1, <1>2, <1>3, <1>6 DEF Command, Refuse
<1> QED BY <1>1, <1>4, <1>5, <1>6 DEF Next

\* For any number of apps, which may end at any moment, if the log refuses no
\* command taken from the queue: as long as the kernel buffer is there, every
\* accepted command of a running app that is not answered is queued or with the
\* log and the current app waits for a callback that is due; and commands wait
\* only behind a current app in any case.
THEOREM DriverQueue ==
  ASSUME "queued" \notin Refusals
  PROVE  Spec => []QueueInv
<1>1. QueueInv /\ [Next]_vars => QueueInv'
  BY QueueStep
<1> QED BY QueueInit, <1>1, PTL DEF Spec

=============================================================================
