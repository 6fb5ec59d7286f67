-------------------------------- MODULE MctpRx --------------------------------
(***************************************************************************)
(* Receiving over MCTP (runtime/kernel/capsules/src/mctp): the mux hands   *)
(* the packets of the bus to the receiver of their message type, which     *)
(* puts the message together; the driver of the type copies it to the      *)
(* process that waits for it, or keeps it until one does.                  *)
(*                                                                         *)
(* The peers cut their messages as the protocol asks; packets may be lost  *)
(* on the bus (a wrong PEC, no buffer), and packets of several messages    *)
(* may be mixed.  A process runs when no deferred call is set, an          *)
(* interrupt may come before each of them.                                 *)
(***************************************************************************)
EXTENDS Integers, Sequences, FiniteSets

CONSTANTS
  Receivers,    \* the message types, in the order of receiver_list
  Peers,        \* endpoint IDs of the peers
  NumApps,      \* processes, in the order of their grants
  Packets,      \* numbers of packets of a message
  Shapes,       \* of messages: "good"; "foreign", for another endpoint;
                \* "runt", in packets of less than 64 bytes
  BufPackets,   \* of every type the packets that its receive buffer can hold
  NumTags,      \* tags of a requester, used in turn
  None,         \* nothing
  Faults,       \* "loss": packets are lost; "small": receive buffers too small
  MaxMsgs       \* bound: messages sent

Types == {Receivers[i] : i \in 1..Len(Receivers)}
Apps  == 1..NumApps

ASSUME RxAssumption ==
  /\ Receivers \in Seq(Types)
  /\ \A i, j \in 1..Len(Receivers) : Receivers[i] = Receivers[j] => i = j
  /\ NumApps \in Nat /\ BufPackets \in [Types -> Nat \ {0}] /\ NumTags \in 1..8 /\ MaxMsgs \in Nat
  /\ Packets \subseteq Nat \ {0}
  /\ Shapes \subseteq {"good", "foreign", "runt"}
  /\ Faults \subseteq {"loss", "small"}

VARIABLES
  msgs,         \* the messages of the peers: src, type, owner, tag, shape, n (packets)
  nxt,          \* of every message the packet that goes on the bus next
  terminus,     \* msg_terminus and msg_payload of every receiver
  req,          \* of every type the processes with a pending_rx_request
  rsp,          \* of every type and process its pending_rx_response
  buffered,     \* buffered_message of every driver
  deferred,     \* the drivers whose deferred call is set
  got,          \* history: what the processes were given
  short         \* history: a process had no room for the message it wanted

rxVars  == <<terminus>>
drvVars == <<req, rsp, buffered, deferred>>
history == <<got, short>>
vars    == <<msgs, nxt, rxVars, drvVars, history>>

----------------------------------------------------------------------------
\* The peers.

\* The tag of a new message: a requester, the peer or this endpoint, takes its
\* tags in turn.
NextTag(src, owner) ==
  Cardinality({m \in 1..Len(msgs) : msgs[m].owner = owner /\ (owner => msgs[m].src = src)}) % NumTags

NewMessage(src, t, owner, shape, n) ==
  /\ Len(msgs) < MaxMsgs
  /\ msgs' = Append(msgs, [src |-> src, type |-> t, owner |-> owner,
                           tag |-> NextTag(src, owner), shape |-> shape, n |-> n])
  /\ nxt' = Append(nxt, 1)
  /\ UNCHANGED <<rxVars, drvVars, history>>

\* Packet i of message m.
Packet(m, i) ==
  [msg |-> m, idx |-> i, src |-> msgs[m].src, own |-> msgs[m].shape # "foreign", owner |-> msgs[m].owner,
   tag |-> msgs[m].tag, seq |-> (i - 1) % 4, som |-> i = 1, eom |-> i = msgs[m].n,
   type |-> msgs[m].type, size |-> IF i = msgs[m].n THEN "last"
                                 ELSE IF msgs[m].shape = "runt" THEN "small" ELSE "full"]

----------------------------------------------------------------------------
\* The driver.

\* The message that a receiver has put together.  recv_time counts the messages that
\* have ended.
Over == {m \in 1..Len(msgs) : nxt[m] > msgs[m].n}

Assembled(t, a) ==
  [type |-> t, src |-> a.src, owner |-> a.owner, tag |-> a.tag, chunks |-> a.chunks,
   time |-> Cardinality(Over)]

\* OpContext::matches for a pending response; a pending request takes any
\* message with the owner bit.
MatchesResponse(p, g) == p # None /\ ~g.owner /\ g.tag = p.tag /\ g.src = p.eid

Wants(t, g) == {a \in Apps : IF g.owner THEN a \in req[t] ELSE MatchesResponse(rsp[t][a], g)}

\* What the processes in s have been given, and no longer wait for.
Give(t, g, s) ==
  /\ got' = got \o [i \in 1..Cardinality(s) |-> g]
  /\ req' = IF g.owner THEN [req EXCEPT ![t] = @ \ s] ELSE req
  /\ rsp' = IF g.owner THEN rsp
            ELSE [rsp EXCEPT ![t] = [a \in Apps |-> IF a \in s THEN None ELSE @[a]]]

\* A message that no process has taken is kept, in place of an older one.
Kept(t, g, s) == IF s = {} THEN [buffered EXCEPT ![t] = g] ELSE buffered

\* MCTPDriver::receive: the first process that wants the message and has room
\* for it (fits) is given it.
driver_receive(t, g, fits) ==
  LET able  == Wants(t, g) \cap fits
      first == {a \in able : \A b \in able : a <= b}
  IN /\ Give(t, g, first)
     /\ buffered' = Kept(t, g, first)
     /\ short' = (short \/ able # Wants(t, g))

----------------------------------------------------------------------------
\* The receivers.

\* start_receive and receive_next: the receiver's new state; end_receive when the
\* packet is the last one.
Started(p) ==
  [src |-> p.src, owner |-> p.owner, tag |-> p.tag, seq |-> (p.seq + 1) % 4,
   size |-> p.size, chunks |-> <<<<p.msg, p.idx>>>>]

\* Variant: the sequence number is not taken modulo 4.
Continued_no_wrap(a, p) ==
  [a EXCEPT !.seq = p.seq + 1, !.chunks = Append(@, <<p.msg, p.idx>>)]

Continued(a, p) ==
  [a EXCEPT !.seq = (p.seq + 1) % 4, !.chunks = Append(@, <<p.msg, p.idx>>)]

Delivers(t, a, p, fits) ==
  IF p.eom
  THEN terminus' = [terminus EXCEPT ![t] = None] /\ driver_receive(t, Assembled(t, a), fits)
  ELSE terminus' = [terminus EXCEPT ![t] = a] /\ UNCHANGED <<req, rsp, buffered, history>>

NoEffect == UNCHANGED <<terminus, req, rsp, buffered, history>>

\* process_first_packet: a packet that is not the last must have 64 bytes.
process_first_packet(p, fits) ==
  IF p.size = "small" \/ p.type \notin Types
  THEN NoEffect
  ELSE Delivers(p.type, Started(p), p, fits)

\* Variant: the tag is not looked at.
is_next_packet_no_tag(a, p) ==
  /\ a # None
  /\ a.owner = p.owner /\ a.src = p.src /\ a.seq = p.seq
  /\ ~p.eom => a.size = p.size

is_next_packet(a, p) ==
  /\ a # None
  /\ a.owner = p.owner /\ a.tag = p.tag /\ a.src = p.src /\ a.seq = p.seq
  /\ ~p.eom => a.size = p.size

\* process_packet: the first receiver whose message the packet continues takes
\* it; a message that outgrows the buffer is given up.
process_packet(p, fits) ==
  LET takers == {i \in 1..Len(Receivers) : is_next_packet(terminus[Receivers[i]], p)}
  IN IF ~p.own \/ p.size = "small" \/ takers = {}
     THEN NoEffect
     ELSE LET t == Receivers[CHOOSE i \in takers : \A j \in takers : i <= j]
          IN IF Len(terminus[t].chunks) >= BufPackets[t]
             THEN /\ terminus' = [terminus EXCEPT ![t] = None]
                  /\ UNCHANGED <<req, rsp, buffered, history>>
             ELSE Delivers(t, Continued(terminus[t], p), p, fits)

----------------------------------------------------------------------------

\* The processes whose buffer takes a message.
Fits == IF "small" \in Faults THEN SUBSET Apps ELSE {Apps}

\* The next packet of message m goes over the bus: handle_incoming_write,
\* receive_write and the mux's receive, or it is lost.
PacketArrives(m, fits) ==
  /\ nxt[m] <= msgs[m].n
  /\ nxt' = [nxt EXCEPT ![m] = @ + 1]
  /\ LET p == Packet(m, nxt[m])
     IN IF p.som THEN process_first_packet(p, fits) ELSE process_packet(p, fits)
  /\ UNCHANGED <<msgs, deferred>>

PacketLost(m) ==
  /\ "loss" \in Faults
  /\ nxt[m] <= msgs[m].n
  /\ nxt' = [nxt EXCEPT ![m] = @ + 1]
  /\ UNCHANGED <<msgs, rxVars, drvVars, history>>

\* Variant: the command does not look for a message that came before it.
Found_never(t, yes) == deferred

\* check_buffered_message: a message that is kept and wanted is delivered by a
\* deferred call.
Found(t, yes) == IF yes THEN deferred \cup {t} ELSE deferred

\* Command 1, and Mctp::receive_request.
ReceiveRequest(t, a) ==
  /\ deferred = {}
  /\ req' = [req EXCEPT ![t] = @ \cup {a}]
  /\ deferred' = Found(t, buffered[t] # None /\ buffered[t].owner)
  /\ UNCHANGED <<msgs, nxt, rxVars, rsp, buffered, history>>

\* Command 2, and Mctp::receive_response: for the response to a request that
\* has been sent with this tag to this peer (its answer is among the messages).
ReceiveResponse(t, a, tag, eid) ==
  /\ deferred = {}
  /\ rsp' = [rsp EXCEPT ![t][a] = [tag |-> tag, eid |-> eid]]
  /\ deferred' = Found(t, buffered[t] # None /\ MatchesResponse([tag |-> tag, eid |-> eid], buffered[t]))
  /\ UNCHANGED <<msgs, nxt, rxVars, req, buffered, history>>

\* Variant: a message that nobody wants any more stays.
Emptied_if_given(t, s) == IF s = {} THEN buffered ELSE [buffered EXCEPT ![t] = None]

Emptied(t, s) == [buffered EXCEPT ![t] = None]

\* deliver_buffered_message: every process that wants the message and has room
\* for it is given it; the message is gone in any case.
DeferredCall(t, fits) ==
  /\ t \in deferred
  /\ deferred' = deferred \ {t}
  /\ LET takers == IF buffered[t] = None THEN {} ELSE Wants(t, buffered[t]) \cap fits
     IN /\ buffered' = Emptied(t, takers)
        /\ IF takers = {} THEN UNCHANGED <<req, rsp, got>> ELSE Give(t, buffered[t], takers)
        /\ short' = (short \/ (buffered[t] # None /\ takers # Wants(t, buffered[t])))
  /\ UNCHANGED <<msgs, nxt, rxVars>>

----------------------------------------------------------------------------

Init ==
  /\ msgs = <<>> /\ nxt = <<>>
  /\ terminus = [t \in Types |-> None]
  /\ req = [t \in Types |-> {}]
  /\ rsp = [t \in Types |-> [a \in Apps |-> None]]
  /\ buffered = [t \in Types |-> None]
  /\ deferred = {}
  /\ got = <<>> /\ short = FALSE

PeerSends ==
  \E src \in Peers, owner \in BOOLEAN, t \in Types, shape \in Shapes, n \in Packets :
    NewMessage(src, t, owner, shape, n)

Arrival == \E m \in 1..Len(msgs), fits \in Fits : PacketArrives(m, fits)

Command ==
  \E t \in Types, a \in Apps :
    \/ ReceiveRequest(t, a)
    \/ \E m \in 1..Len(msgs) :
         /\ msgs[m].type = t /\ ~msgs[m].owner
         /\ ReceiveResponse(t, a, msgs[m].tag, msgs[m].src)

Next ==
  \/ PeerSends
  \/ Arrival
  \/ \E m \in 1..Len(msgs) : PacketLost(m)
  \/ Command
  \/ \E t \in Types, fits \in Fits : DeferredCall(t, fits)

Spec == Init /\ [][Next]_vars

----------------------------------------------------------------------------

Known    == 1..Len(msgs)
Terminus == [src : Peers, owner : BOOLEAN, tag : 0..NumTags - 1, seq : 0..3,
             size : {"full", "last"}, chunks : Seq(Known \X Nat)]
Messages == [type : Types, src : Peers, owner : BOOLEAN, tag : 0..NumTags - 1,
             chunks : Seq(Known \X Nat), time : 0..MaxMsgs]

\* The type invariant.
TypeOK ==
  /\ msgs \in Seq([src : Peers, type : Types, owner : BOOLEAN, tag : 0..NumTags - 1,
                   shape : Shapes, n : Packets])
  /\ nxt \in Seq(Nat) /\ Len(nxt) = Len(msgs)
  /\ terminus \in [Types -> Terminus \cup {None}]
  /\ req \in [Types -> SUBSET Apps]
  /\ rsp \in [Types -> [Apps -> [tag : 0..NumTags - 1, eid : Peers] \cup {None}]]
  /\ buffered \in [Types -> Messages \cup {None}]
  /\ deferred \subseteq Types
  /\ got \in Seq(Messages) /\ short \in BOOLEAN

\* The number of the message that was put together, 0 if it is none of those sent:
\* its packets are all there, in order and of one message, of the type of the
\* driver, with the sender and the tag that are reported, and it was for this
\* endpoint (a message of one packet is taken whoever it is for).
Number(g) ==
  LET m == g.chunks[1][1]
  IN IF /\ g.chunks = [i \in 1..msgs[m].n |-> <<m, i>>]
        /\ g.type = msgs[m].type /\ g.src = msgs[m].src
        /\ g.owner = msgs[m].owner /\ g.tag = msgs[m].tag
        /\ msgs[m].shape = "good" \/ msgs[m].n = 1
     THEN m ELSE 0

Inbox == INSTANCE MctpInbox WITH
  type <- [m \in Known |-> msgs[m].type],
  over <- Over,
  held <- [t \in Types |-> IF buffered[t] = None THEN None ELSE Number(buffered[t])],
  got  <- [i \in 1..Len(got) |-> Number(got[i])]

\* The stack implements the inbox: whatever is lost and mixed on the bus, what the
\* processes get are messages that were sent, whole, and each at most once.
ImplementsInbox == Inbox!Spec

\* A process is not left waiting beside the message it waits for: when a driver keeps
\* a message that a process wants, its deferred call is set.  (Unless the message did
\* not fit in the buffer of the process.)
NoMissedMessage ==
  short \/
    \A t \in Types : buffered[t] # None /\ Wants(t, buffered[t]) # {} => t \in deferred

\* Requests of a type reach the processes in the order in which they were received,
\* unless one did not fit in a buffer: a request that was kept is dropped rather than
\* delivered after a later one.
InOrder ==
  short \/
    \A i, j \in 1..Len(got) :
      i < j /\ got[i].owner /\ got[j].owner /\ got[i].type = got[j].type
        => got[i].time < got[j].time

\* Every message delivered is complete: its packets are those of one message, all of
\* them.
CompleteMessages == \A i \in 1..Len(got) : Number(got[i]) # 0
=============================================================================
