------------------------------ MODULE LogDriver ------------------------------
(***************************************************************************)
(* The system call driver of the flash log (capsules/src/logging/driver.rs)*)
(* between the apps and the log: one request is with the log at a time, an *)
(* app may have one more command queued, and reads and appends go through  *)
(* the one kernel buffer.  The log itself (LogFlash) is abstracted to what *)
(* the driver sees of it: it refuses a request at once or accepts it and   *)
(* calls back.  Lengths and the contents of the kernel buffer are left     *)
(* out; where the buffer is decides what the driver does.                  *)
(***************************************************************************)
EXTENDS Integers

CONSTANTS
  NumApps,      \* apps, in the order in which their grants are visited
  Refusals,     \* calls the log may refuse at once: "direct", "queued"
  Exits,        \* whether apps may end
  MaxOwed       \* bound: commands of an app accepted and not answered

ASSUME DriverAssumption ==
  /\ NumApps \in Nat \ {0}
  /\ Refusals \subseteq {"direct", "queued"}
  /\ Exits \in BOOLEAN
  /\ MaxOwed \in Nat

NoApp    == 0
Apps     == 1..NumApps
Ops      == {"Read", "Append", "Seek", "Sync", "Erase"}
Buffered == {"Read", "Append"}

VARIABLES
  current,      \* current_app
  queue,        \* pending_command and command of every app, "none" for neither
  buf,          \* where the kernel buffer is: "driver", "log", "lost"
  busy,         \* the request with the log: op, and the app it is for
  alive,        \* the apps that run
  owes          \* history: commands accepted from an app and not answered

vars == <<current, queue, buf, busy, alive, owes>>

NoRequest == [op |-> "none", by |-> NoApp]
Queued    == {a \in Apps : queue[a] # "none"}

----------------------------------------------------------------------------

\* userspace_call_driver: the log takes the request of app a, and the kernel
\* buffer with it.
CallLog(a, op, b) ==
  /\ op \in Buffered => b = "driver"
  /\ current' = a
  /\ busy' = [op |-> op, by |-> a]
  /\ buf' = IF op \in Buffered THEN "log" ELSE b

\* current_app after the log has refused a command at once.
AfterError(a) == NoApp

\* enqueue_command.  shared tells whether the app has allowed the buffer that
\* the command needs.  Only here are the data of an append copied to the kernel
\* buffer, and only as many as the app has allowed.
HasBuffer(op, shared) == op \in Buffered => shared /\ buf = "driver"

CallAtOnce(a, op, shared) ==
  /\ HasBuffer(op, shared)
  /\ current = NoApp
  /\ \/ /\ CallLog(a, op, buf)
        /\ owes' = [owes EXCEPT ![a] = @ + 1]
     \/ /\ "direct" \in Refusals
        /\ current' = AfterError(a)
        /\ UNCHANGED <<buf, busy, owes>>
  /\ UNCHANGED <<queue, alive>>

\* Variant: a second command of an app replaces the one it has queued.
MayQueue_again(a) == TRUE

\* One command of an app waits; a second one is refused with NOMEM.
MayQueue(a) == queue[a] = "none"

Enqueue(a, op, shared) ==
  /\ HasBuffer(op, shared)
  /\ current # NoApp
  /\ MayQueue(a)
  /\ queue' = [queue EXCEPT ![a] = op]
  /\ owes' = [owes EXCEPT ![a] = @ + 1]
  /\ UNCHANGED <<current, buf, busy, alive>>

\* RESERVE or NOMEM.
Refuse(a, op, shared) ==
  /\ ~HasBuffer(op, shared) \/ (current # NoApp /\ ~MayQueue(a))
  /\ UNCHANGED vars

----------------------------------------------------------------------------

MayRefuse(op, b) == "queued" \in Refusals \/ (op \in Buffered /\ b # "driver")

\* Variant: the loop goes on behind the command that was started, and the last
\* app it visits is the current one.
check_queue_no_break(b) ==
  \/ /\ Queued = {}
     /\ current' = NoApp /\ busy' = NoRequest /\ buf' = b /\ queue' = queue
  \/ \E a, last \in Queued :
       /\ \A c \in Queued : c <= last
       /\ (queue[a] \in Buffered => b = "driver")
       /\ current' = last
       /\ busy' = [op |-> queue[a], by |-> a]
       /\ buf' = IF queue[a] \in Buffered THEN "log" ELSE b
       /\ queue' = [c \in Apps |-> "none"]

\* check_queue, with the kernel buffer b: the queued commands are taken in the
\* order of the apps until the log accepts one.  A command that the log refuses
\* is dropped and its app stays the current one.
check_queue(b) ==
  \/ /\ Queued = {}
     /\ current' = NoApp /\ busy' = NoRequest /\ buf' = b /\ queue' = queue
  \/ \E a \in Queued :
       /\ \A c \in Queued : c < a => MayRefuse(queue[c], b)
       /\ CallLog(a, queue[a], b)
       /\ queue' = [c \in Apps |-> IF c <= a THEN "none" ELSE queue[c]]
  \/ \E a \in Queued :
       /\ \A c \in Queued : c <= a /\ MayRefuse(queue[c], b)
       /\ current' = a /\ busy' = NoRequest /\ buf' = b
       /\ queue' = [c \in Apps |-> "none"]

\* There is no app to call back, or it has ended.
Gone == current = NoApp \/ ~alive[current]

\* The kernel buffer once the callback for the current app has run: it is put
\* back while the app is entered, so if the app is gone nobody has it.
Returned ==
  IF busy.op \notin Buffered THEN buf ELSE IF Gone THEN "lost" ELSE "driver"


\* read_done, seek_done, append_done, sync_done, erase_done.
done ==
  /\ busy.op # "none"
  /\ owes' = IF Gone THEN owes ELSE [owes EXCEPT ![current] = @ - 1]
  /\ check_queue(Returned)
  /\ UNCHANGED alive

\* An app ends, and its grant with it.
Exit(a) ==
  /\ Exits /\ alive[a]
  /\ alive' = [alive EXCEPT ![a] = FALSE]
  /\ queue' = [queue EXCEPT ![a] = "none"]
  /\ owes' = [owes EXCEPT ![a] = 0]
  /\ UNCHANGED <<current, buf, busy>>

Init ==
  /\ current = NoApp
  /\ queue = [a \in Apps |-> "none"]
  /\ buf = "driver"
  /\ busy = NoRequest
  /\ alive = [a \in Apps |-> TRUE]
  /\ owes = [a \in Apps |-> 0]

Command(a) ==
  /\ alive[a] /\ owes[a] < MaxOwed
  /\ \E op \in Ops, shared \in BOOLEAN :
        CallAtOnce(a, op, shared) \/ Enqueue(a, op, shared) \/ Refuse(a, op, shared)

Next == (\E a \in Apps : Command(a) \/ Exit(a)) \/ done

Spec == Init /\ [][Next]_vars

\* The log calls back for every request it has accepted; apps need not do anything.
FairSpec == Spec /\ WF_vars(done)

----------------------------------------------------------------------------

\* The state of the driver; an app that has ended has nothing queued.
TypeOK ==
  /\ current \in Apps \cup {NoApp}
  /\ queue \in [Apps -> Ops \cup {"none"}]
  /\ buf \in {"driver", "log", "lost"}
  /\ busy \in [op : Ops \cup {"none"}, by : Apps \cup {NoApp}]
  /\ alive \in [Apps -> BOOLEAN]
  /\ owes \in [Apps -> Int]
  /\ \A a \in Apps : ~alive[a] => queue[a] = "none"

\* enqueue_command, check_queue, the _done callbacks: the request with the log
\* is that of the current app, so the callback wakes the app that asked, also
\* when other apps have come, queued commands or ended in between.
CallbackFindsOwner == busy.op # "none" => busy.by = current /\ current # NoApp

\* The kernel buffer is with the log exactly while a read or an append is, so
\* no command uses it while another does.
BufferWithLog == buf = "log" <=> busy.op \in Buffered

\* enqueue_command and the callbacks: one request is with the log, of the app that
\* its callback will wake, and the kernel buffer has one user, however commands of
\* several apps, refusals and ends of apps overlap.
OwnerInv == TypeOK /\ CallbackFindsOwner /\ BufferWithLog

\* The kernel buffer is not lost (see Returned).
BufferKept == buf # "lost"

\* check_queue, enqueue_command: while an app is the current one the log has a
\* request, so other apps only wait for a callback that comes, as long as the
\* kernel buffer is there.
CurrentMeansBusy == BufferKept /\ current # NoApp => busy.op # "none"

\* A command waits only while the driver has a current app, whose callback will
\* look for it: check_queue forgets none.
WaitsOnlyWhenBusy == current = NoApp => Queued = {}

\* How many of app a's commands the driver has.
Held(a) == (IF queue[a] # "none" THEN 1 ELSE 0) + (IF busy.by = a THEN 1 ELSE 0)

\* Every command of a running app that was accepted and not yet answered is
\* queued or with the log, as long as the kernel buffer is there: the hand-over
\* from queue to log neither loses nor repeats one, also when apps end.
NothingDropped == BufferKept => \A a \in Apps : alive[a] => owes[a] = Held(a)

\* enqueue_command and check_queue, when no queued command is refused: no accepted
\* command is lost or done twice, none waits without a callback that is due, and the
\* log has no request exactly when there is no current app.
QueueInv ==
  /\ OwnerInv
  /\ NothingDropped
  /\ CurrentMeansBusy
  /\ busy.op = "none" => busy.by = NoApp
  /\ WaitsOnlyWhenBusy

\* The kernel buffer was lost under a queued command, and the driver keeps the app of
\* that command as the current one although the log has no request.
StuckWithoutBuffer == ~BufferKept /\ current # NoApp /\ busy.op = "none"


=============================================================================
