-------------------------------- MODULE MctpTx --------------------------------
(***************************************************************************)
(* Sending over MCTP: the system calls of the drivers (one driver per      *)
(* message type), the mux that cuts their messages into packets, its own   *)
(* answers to MCTP control requests, and the I3C target driver below it    *)
(* (runtime/kernel/capsules/src/mctp, runtime/kernel/drivers/i3c).         *)
(*                                                                         *)
(* One packet buffer travels between the mux and the I3C driver.  The I3C  *)
(* driver queues a packet at once, raises an in-band interrupt (IBI), and  *)
(* returns the buffer from a deferred call; until the controller has taken *)
(* the IBI it refuses the next packet.  Interrupts are served before       *)
(* deferred calls, deferred calls before processes, and the I3C driver's   *)
(* deferred call, which was created first, before the mux's.               *)
(***************************************************************************)
EXTENDS Integers, Sequences, FiniteSets

CONSTANTS
  Drivers,      \* the drivers, one per message type
  Apps,         \* the processes
  NoApp,        \* no process
  Lens,         \* lengths of the messages sent
  Chunk,        \* payload of a full packet
  Tags,         \* tags of the requests that are answered
  Eids,         \* endpoint IDs that the bus owner assigns
  MaxMsgs,      \* bound: messages accepted
  MaxCtl        \* bound: control requests

ASSUME TxAssumption ==
  /\ NoApp \notin Apps
  /\ Chunk \in Nat \ {0}
  /\ Lens \subseteq Nat \ {0}
  /\ Tags \subseteq 0..7
  /\ Eids \subseteq 8..254
  /\ MaxMsgs \in Nat /\ MaxCtl \in Nat

VARIABLES
  slow,         \* the controller may take an IBI after the deferred call
  list,         \* sender_list, the driver whose message goes out at the head
  snd,          \* MCTPTxState of every driver
  kbuf,         \* the drivers that have their kernel_msg_buf
  pending,      \* of every driver the processes with a pending_tx
  current,      \* current_app of every driver
  next_tag,     \* next_msg_tag
  eid,          \* local_eid
  txbuf,        \* the mux has tx_pkt_buffer
  ibuf,         \* the I3C driver has it, and its deferred call is set
  ibi,          \* pending_ibi
  defMux,       \* the mux's deferred call is set
  panicked,     \* an unwrap has met None
  wire,         \* history: the packets of the drivers given to the bus
  acc,          \* history: the messages accepted
  told,         \* history: the reports to the processes
  answered,     \* history: the EID in the mux's last control answer
  ctl           \* bound: control requests so far

muxVars == <<list, snd, next_tag, eid, txbuf, defMux, panicked>>
drvVars == <<kbuf, pending, current>>
i3cVars == <<ibuf, ibi>>
history == <<wire, acc, told, answered, ctl>>
vars    == <<slow, muxVars, drvVars, i3cVars, history>>

Idle == [msg |-> 0, len |-> 0, off |-> 0, seq |-> 0, tag |-> 0, owner |-> FALSE]

----------------------------------------------------------------------------
\* The I3C driver.

\* transmit_read: while the driver has a buffer (held) or an IBI is pending it
\* refuses the next packet.
Refused(held) == held \/ ibi

\* Variant: the packet buffer is lost when the device refuses it.
transmit_keeps(held) ==
  IF Refused(held)
  THEN txbuf' = FALSE /\ ibuf' = held /\ UNCHANGED ibi
  ELSE txbuf' = FALSE /\ ibuf' = TRUE /\ ibi' = TRUE

\* transmit: MCTPI3CBinding appends the PEC, the I3C driver copies the packet to
\* its queue and raises the IBI, or the mux has its buffer back.
transmit(held) ==
  IF Refused(held)
  THEN txbuf' = TRUE /\ ibuf' = held /\ UNCHANGED ibi
  ELSE txbuf' = FALSE /\ ibuf' = TRUE /\ ibi' = TRUE

----------------------------------------------------------------------------
\* The senders.

is_eom(s) == s.off >= s.len

\* Variant: a message ends one packet late.
Eom_off_by_one(s) == s.len - s.off < Chunk

Eom(s) == s.len - s.off <= Chunk

\* The packet that fill_next_packet builds, and the sender after it.
PacketOf(d, s) ==
  [by |-> d, msg |-> s.msg, off |-> s.off, som |-> s.off = 0, eom |-> Eom(s),
   seq |-> s.seq, tag |-> s.tag % 8, owner |-> s.owner, src |-> eid]

\* Variant: the sequence number is not taken modulo 4.
Advanced_no_wrap(s) ==
  [s EXCEPT !.off = IF Eom(s) THEN s.len ELSE @ + Chunk, !.seq = @ + 1]

Advanced(s) ==
  [s EXCEPT !.off = IF Eom(s) THEN s.len ELSE @ + Chunk, !.seq = (@ + 1) % 4]

\* send_next_packet for the head of l, the mux holding the buffer.  The sender has
\* advanced even if the packet is then refused, and nothing tries it again.
send_next_packet(l, held) ==
  IF l = <<>> \/ is_eom(snd[Head(l)])
  THEN txbuf' = TRUE /\ ibuf' = held /\ UNCHANGED <<snd, ibi, wire>>
  ELSE /\ snd' = [snd EXCEPT ![Head(l)] = Advanced(@)]
       /\ transmit(held)
       /\ wire' = IF Refused(held) THEN wire ELSE Append(wire, PacketOf(Head(l), snd[Head(l)]))

\* get_next_msg_tag is called for requests only.
Tag(owner, tag) == IF owner THEN next_tag + 8 ELSE tag

\* MCTPTxState::send_msg: the state of the sender with a new message.
NewMessage(len, owner, tag) ==
  [msg |-> Len(acc) + 1, len |-> len, off |-> 0, seq |-> 0,
   tag |-> Tag(owner, tag), owner |-> owner]

\* The mux's deferred call is set for the first sender of the list only.
add_sender(d) == list' = Append(list, d) /\ defMux' = (list = <<>>)

\* A process runs when no deferred call is set.
ProcessRuns == ~ibuf /\ ~defMux

\* Process a hands driver d a message (Mctp::send_request, send_response,
\* commands 3 and 4).
send_msg_payload(d, a, len, owner, tag) ==
  /\ ProcessRuns
  /\ Len(acc) < MaxMsgs
  /\ a \notin pending[d] /\ d \in kbuf
  /\ kbuf' = kbuf \ {d}
  /\ pending' = [pending EXCEPT ![d] = @ \cup {a}]
  /\ current' = [current EXCEPT ![d] = a]
  /\ snd' = [snd EXCEPT ![d] = NewMessage(len, owner, tag)]
  /\ next_tag' = IF owner THEN (next_tag + 1) % 8 ELSE next_tag
  /\ add_sender(d)
  /\ acc' = Append(acc, [by |-> d, app |-> a, len |-> len])
  /\ UNCHANGED <<slow, eid, txbuf, panicked, i3cVars, wire, told, answered, ctl>>

\* BUSY, or NOMEM.
Refuse(d, a) ==
  /\ ProcessRuns
  /\ a \in pending[d] \/ d \notin kbuf
  /\ UNCHANGED vars

\* Variant: the process stays pending when its message is done.
Completed_pending(d) == pending

Completed(d) == [pending EXCEPT ![d] = @ \ {current[d]}]

\* send_done of the sender and of driver d: the kernel buffer is back, and the
\* process is told if it is the one that waits.
driver_send_done(d) ==
  /\ kbuf' = kbuf \cup {d}
  /\ pending' = Completed(d)
  /\ current' = [current EXCEPT ![d] = NoApp]
  /\ told' = IF current[d] \in pending[d]
             THEN Append(told, [msg |-> snd[d].msg, app |-> current[d], tag |-> snd[d].tag % 8])
             ELSE told

----------------------------------------------------------------------------
\* The kernel's deferred calls and interrupts.

LastSent(s) == is_eom(s)

\* deferred_done of the I3C driver, and the mux's send_done: the head of the
\* list is done if its message is at its end, whoever's packet it was.
I3cDeferred ==
  /\ ibuf
  /\ slow \/ ~ibi
  /\ LET done == list # <<>> /\ LastSent(snd[Head(list)])
         rest == IF done THEN Tail(list) ELSE list
     IN /\ list' = rest
        /\ IF done THEN driver_send_done(Head(list)) ELSE UNCHANGED <<drvVars, told>>
        /\ send_next_packet(rest, FALSE)
  /\ UNCHANGED <<slow, next_tag, eid, defMux, panicked, acc, answered, ctl>>

\* handle_deferred_call of the mux.
MuxDeferred ==
  /\ defMux /\ ~ibuf
  /\ defMux' = FALSE
  /\ IF list = <<>> \/ txbuf
     THEN send_next_packet(list, ibuf) /\ UNCHANGED panicked
     ELSE panicked' = TRUE /\ UNCHANGED <<snd, txbuf, i3cVars, wire>>
  /\ UNCHANGED <<slow, list, next_tag, eid, drvVars, acc, told, answered, ctl>>

\* ibi_done: an IBI that failed is raised again.
IbiDone(ok) ==
  /\ ibi
  /\ ibi' = ~ok
  /\ UNCHANGED <<slow, muxVars, drvVars, ibuf, history>>

\* Variant: the EID is assigned before the mux looks for its buffer.
Assigned_unbuffered(e) == IF e # 0 THEN e ELSE eid

\* process_set_endpoint_id: the bus owner may not assign the null or a reserved EID;
\* 0 stands for one of these.
Assigned(e) == IF txbuf /\ e # 0 THEN e ELSE eid

\* process_mctp_control_msg: the mux answers with its own packet buffer, and
\* drops the request when it does not have it.  A Set Endpoint ID takes effect
\* whether or not the answer goes out.  Other requests and those that are
\* malformed (no answer) leave the EID alone.
ControlRequest(kind, e) ==
  /\ ctl < MaxCtl
  /\ ctl' = ctl + 1
  /\ eid' = IF kind = "SetEID" THEN Assigned(e) ELSE eid
  /\ IF ~txbuf \/ kind = "malformed"
     THEN UNCHANGED <<txbuf, i3cVars, answered>>
     ELSE /\ transmit(ibuf)
          /\ answered' = IF Refused(ibuf) THEN answered ELSE eid'
  /\ UNCHANGED <<slow, list, snd, next_tag, defMux, panicked, drvVars, wire, acc, told>>

----------------------------------------------------------------------------

Init ==
  /\ slow \in BOOLEAN
  /\ list = <<>> /\ snd = [d \in Drivers |-> Idle]
  /\ kbuf = Drivers
  /\ pending = [d \in Drivers |-> {}]
  /\ current = [d \in Drivers |-> NoApp]
  /\ next_tag = 0 /\ eid = 0
  /\ txbuf = TRUE /\ ibuf = FALSE /\ ibi = FALSE /\ defMux = FALSE
  /\ panicked = FALSE
  /\ wire = <<>> /\ acc = <<>> /\ told = <<>> /\ answered = 0 /\ ctl = 0

Send(d) ==
  \E a \in Apps, len \in Lens, owner \in BOOLEAN, tag \in Tags :
    send_msg_payload(d, a, len, owner, tag)

ControlStep ==
  \E kind \in {"SetEID", "other", "malformed"}, e \in Eids \cup {0} :
    ControlRequest(kind, e)

Next ==
  \/ \E d \in Drivers : Send(d) \/ \E a \in Apps : Refuse(d, a)
  \/ I3cDeferred
  \/ MuxDeferred
  \/ \E ok \in BOOLEAN : IbiDone(ok)
  \/ ControlStep

\* The kernel serves its deferred calls, and the controller takes an IBI at last.
Fairness == WF_vars(I3cDeferred) /\ WF_vars(MuxDeferred) /\ WF_vars(IbiDone(TRUE))

Spec == Init /\ [][Next]_vars /\ Fairness

----------------------------------------------------------------------------

Senders == [msg : Nat, len : Nat, off : Nat, seq : 0..3, tag : 0..15, owner : BOOLEAN]
Packets == [by : Drivers, msg : Nat, off : Nat, som : BOOLEAN,
            eom : BOOLEAN, seq : 0..3, tag : 0..7, owner : BOOLEAN, src : 0..254]

\* The type invariant.
TypeOK ==
  /\ slow \in BOOLEAN
  /\ list \in Seq(Drivers)
  /\ snd \in [Drivers -> Senders]
  /\ kbuf \subseteq Drivers
  /\ pending \in [Drivers -> SUBSET Apps]
  /\ current \in [Drivers -> Apps \cup {NoApp}]
  /\ next_tag \in 0..7 /\ eid \in 0..254
  /\ txbuf \in BOOLEAN /\ ibuf \in BOOLEAN /\ ibi \in BOOLEAN
  /\ defMux \in BOOLEAN /\ panicked \in BOOLEAN
  /\ wire \in Seq(Packets)
  /\ acc \in Seq([by : Drivers, app : Apps, len : Lens])
  /\ told \in Seq([msg : Nat, app : Apps, tag : 0..7])
  /\ answered \in 0..254 /\ ctl \in 0..MaxCtl

\* The packet buffer is with the mux or with the I3C driver, and the mux never
\* looks for it in vain (send_next_packet unwraps it): although a control request
\* may take it between a system call and the deferred call that sends.
BufferAtHand == (txbuf # ibuf) /\ ~panicked

\* A driver is in the list, once, exactly while its kernel buffer is with the sender,
\* and then one process waits for it: the report of a message finds the process that
\* sent it, and no process waits for a message that is gone.
ReportFindsSender ==
  /\ \A d \in Drivers :
       LET under_way == {i \in 1..Len(list) : list[i] = d}
       IN /\ Cardinality(under_way) = (IF d \in kbuf THEN 0 ELSE 1)
          /\ pending[d] = IF d \in kbuf THEN {} ELSE {current[d]}
          /\ d \notin kbuf => acc[snd[d].msg] = [by |-> d, app |-> current[d], len |-> snd[d].len]
  /\ \A i \in 1..Len(told) : told[i].msg = i /\ told[i].app = acc[i].app

\* Unless the bus is slow, the endpoint ID is the one of the last answer: an
\* assignment does not take effect without its requester being told.
EidAnswered == slow \/ eid = answered

----------------------------------------------------------------------------
\* Message m is on the bus whole: its packets follow one another, n of them behind
\* the b-th packet, cut at every Chunk of its length, with one source and one tag,
\* the last one marked, numbered modulo 4, and the tag is the one the process is told.
Cut(m, b, n, i) ==
  LET p == wire[b + i]
  IN /\ p.off = (i - 1) * Chunk /\ p.seq = (i - 1) % 4
     /\ p.som <=> i = 1
     /\ p.eom <=> i = n
     /\ p.src = wire[b + 1].src /\ p.tag = wire[b + 1].tag
     /\ m <= Len(told) => p.tag = told[m].tag

Cuts(m, b, n) ==
  /\ b + n <= Len(wire)
  /\ (n - 1) * Chunk < acc[m].len /\ acc[m].len <= n * Chunk
  /\ \A j \in 1..Len(wire) : wire[j].msg = m <=> j \in b + 1 .. b + n
  /\ \A i \in 1..n : Cut(m, b, n, i)

Whole(m) == \E b \in 0..Len(wire), n \in 1..Len(wire) : Cuts(m, b, n)

Sent == CHOOSE n \in 0..Len(acc) :
          /\ \A m \in 1..n : Whole(m)
          /\ n < Len(acc) => ~Whole(n + 1)

Queue == INSTANCE MctpSendQueue WITH
           by <- [m \in 1..Len(acc) |-> acc[m].by], out <- Sent, told <- Len(told)

\* The stack implements the queue of messages: every message accepted goes out
\* whole, unmixed and in order, and is then reported once.
ImplementsQueue == Queue!Spec
=============================================================================
