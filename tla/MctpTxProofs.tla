----------------------------- MODULE MctpTxProofs -----------------------------
(***************************************************************************)
(* Sending over MCTP, for any drivers, processes, message lengths and      *)
(* control requests: the packet buffer is always at hand, every report     *)
(* finds the process that sent the message, an endpoint ID takes effect    *)
(* with its answer, and every step is one of the queue of messages or      *)
(* leaves it as it is.                                                     *)
(***************************************************************************)
EXTENDS MctpTx, FiniteSetTheorems, SequenceTheorems, TLAPS

-----------------------------------------------------------------------------
(* The mux and the drivers *)

(* The list holds the messages accepted and not yet reported, in order; the *)
(* drivers in it, and only they, are without their kernel buffer            *)
Listed ==
  /\ Len(acc) = Len(told) + Len(list)
  /\ \A i \in 1..Len(list) :
       /\ list[i] \notin kbuf
       /\ snd[list[i]].msg = Len(told) + i
       /\ acc[Len(told) + i] = [by |-> list[i], app |-> current[list[i]], len |-> snd[list[i]].len]
  /\ \A d \in Drivers : d \notin kbuf => \E i \in 1..Len(list) : list[i] = d

(* Only the head of the list has begun                                      *)
Waiting ==
  /\ \A i \in 1..Len(list) : snd[list[i]].off <= snd[list[i]].len
  /\ \A i \in 2..Len(list) : snd[list[i]].off = 0 /\ snd[list[i]].seq = 0

(* One process waits for a driver that sends, none for an idle one          *)
Waiters == \A d \in Drivers : pending[d] = IF d \in kbuf THEN {} ELSE {current[d]}

Reports == \A i \in 1..Len(told) : told[i].msg = i /\ told[i].app = acc[i].app

(* Unless the bus is slow an IBI is pending only with the buffer            *)
Bus == (txbuf <=> ~ibuf) /\ ~panicked /\ (slow \/ (ibi => ibuf)) /\ EidAnswered

TxInv == TypeOK /\ Listed /\ Waiting /\ Waiters /\ Reports /\ Bus

-----------------------------------------------------------------------------
(* What is on the bus.  Whole(m), for packets w, messages a and reports t   *)

CutOf(w, t, m, b, n, i) ==
  /\ w[b + i].off = (i - 1) * Chunk /\ w[b + i].seq = (i - 1) % 4
  /\ w[b + i].som <=> i = 1
  /\ w[b + i].eom <=> i = n
  /\ w[b + i].src = w[b + 1].src /\ w[b + i].tag = w[b + 1].tag
  /\ m <= Len(t) => w[b + i].tag = t[m].tag

CutsOf(w, a, t, m, b, n) ==
  /\ b + n <= Len(w)
  /\ (n - 1) * Chunk < a[m].len /\ a[m].len <= n * Chunk
  /\ \A j \in 1..Len(w) : w[j].msg = m <=> j \in b + 1 .. b + n
  /\ \A i \in 1..n : CutOf(w, t, m, b, n, i)

WholeIn(w, a, t, m) == \E b \in 0..Len(w), n \in 1..Len(w) : CutsOf(w, a, t, m, b, n)

(* Sender s of message m, with endpoint ID e, has put its first k packets   *)
(* on the bus, behind b others                                              *)
SentSoFar(w, m, s, e, b, k) ==
  /\ Len(w) = b + k
  /\ \A j \in 1..Len(w) : w[j].msg = m <=> j > b
  /\ \A i \in 1..k :
       /\ w[b + i].off = (i - 1) * Chunk /\ w[b + i].seq = (i - 1) % 4
       /\ w[b + i].som <=> i = 1
       /\ w[b + i].eom <=> (i = k /\ is_eom(s))
       /\ w[b + i].src = e /\ w[b + i].tag = s.tag % 8
  /\ is_eom(s) => k >= 1 /\ (k - 1) * Chunk < s.len /\ s.len <= k * Chunk
  /\ ~is_eom(s) => s.off = k * Chunk /\ s.seq = k % 4

(* Sender s of message m has passed a packet that is not on the bus         *)
Gap(w, m, s) ==
  \E i \in Nat \ {0} :
    /\ (i - 1) * Chunk < s.off
    /\ \A j \in 1..Len(w) : w[j].msg = m => w[j].off # (i - 1) * Chunk

(* The packets on the bus are of messages that were reported or of the head *)
OnlyHead ==
  \A j \in 1..Len(wire) :
    \/ wire[j].msg <= Len(told)
    \/ /\ list # <<>> /\ wire[j].msg = Len(told) + 1
       /\ wire[j].tag = snd[Head(list)].tag % 8

(* So far no packet was refused: the messages that were reported are whole, *)
(* and at most one is under way                                             *)
InStep ==
  /\ \A m \in 1..Len(told) : Whole(m)
  /\ Len(list) <= 1
  /\ list # <<>> =>
       /\ ibuf \/ defMux
       /\ \E b, k \in Nat : /\ SentSoFar(wire, Len(told) + 1, snd[Head(list)], eid, b, k)
                            /\ k > 0 => ibuf

(* A packet was refused, of message n + 1                                   *)
BrokenAt(n) ==
  /\ \A m \in 1..n : Whole(m)
  /\ n < Len(told) => ~Whole(n + 1)
  /\ n = Len(told) => list # <<>> /\ Gap(wire, Len(told) + 1, snd[Head(list)])

Broken == slow /\ \E n \in 0..Len(told) : BrokenAt(n)

Delivery == OnlyHead /\ (InStep \/ Broken)

-----------------------------------------------------------------------------
(* The sender and its packets *)

LEMMA ChunkType == Chunk \in Nat /\ Chunk > 0
  BY TxAssumption

LEMMA SenderFields ==
  ASSUME NEW s \in Senders
  PROVE  /\ s.msg \in Nat /\ s.len \in Nat /\ s.off \in Nat /\ s.seq \in 0..3
         /\ s.tag \in 0..15 /\ s.owner \in BOOLEAN /\ s.tag % 8 \in 0..7
  BY DEF Senders

(* A packet further the sender is the same but for its place                *)
LEMMA AdvancedSender ==
  ASSUME NEW s \in Senders
  PROVE  /\ Advanced(s) \in Senders
         /\ Advanced(s).msg = s.msg /\ Advanced(s).len = s.len /\ Advanced(s).tag = s.tag
         /\ Advanced(s).seq = (s.seq + 1) % 4
         /\ Eom(s) => Advanced(s).off = s.len
         /\ ~Eom(s) => Advanced(s).off = s.off + Chunk
<1>1. s.len \in Nat /\ s.off \in Nat /\ s.seq \in 0..3
  BY SenderFields
<1>2. PICK o : (Eom(s) => o = s.len) /\ (~Eom(s) => o = s.off + Chunk)
  OBVIOUS
<1>3. o \in Nat
  BY <1>1, <1>2, ChunkType
<1>4. PICK q : q = (s.seq + 1) % 4
  OBVIOUS
<1>5. q \in 0..3
  BY <1>1, <1>4
<1>6. Advanced(s) = [s EXCEPT !.off = o, !.seq = q]
  BY <1>2, <1>4 DEF Advanced
<1> QED
  BY <1>2, <1>3, <1>4, <1>5, <1>6 DEF Senders

LEMMA PacketFields ==
  ASSUME NEW d \in Drivers, NEW s \in Senders, eid \in 0..254
  PROVE  /\ PacketOf(d, s) \in Packets
         /\ PacketOf(d, s).msg = s.msg /\ PacketOf(d, s).off = s.off
         /\ PacketOf(d, s).seq = s.seq /\ PacketOf(d, s).tag = s.tag % 8
         /\ PacketOf(d, s).som <=> s.off = 0
         /\ PacketOf(d, s).eom <=> Eom(s)
         /\ PacketOf(d, s).src = eid
<1>1. /\ s.msg \in Nat /\ s.off \in Nat /\ s.seq \in 0..3 /\ s.owner \in BOOLEAN
      /\ s.tag % 8 \in 0..7
  BY SenderFields
<1>2. (s.off = 0) \in BOOLEAN /\ Eom(s) \in BOOLEAN
  BY DEF Eom
<1> QED
  BY <1>1, <1>2 DEF PacketOf, Packets

(* send_next_packet of the head of l, the I3C driver without a buffer       *)
LEMMA SendNext ==
  ASSUME TypeOK, NEW l \in Seq(Drivers), NEW held \in BOOLEAN, ~held, send_next_packet(l, held)
  PROVE  /\ snd' \in [Drivers -> Senders] /\ wire' \in Seq(Packets)
         /\ \A d \in Drivers :
              /\ snd'[d].msg = snd[d].msg /\ snd'[d].len = snd[d].len /\ snd'[d].tag = snd[d].tag
              /\ snd[d].off <= snd[d].len => snd'[d].off <= snd'[d].len
              /\ (l = <<>> \/ d # Head(l)) => snd'[d] = snd[d]
         /\ txbuf' \in BOOLEAN /\ ibuf' \in BOOLEAN /\ ibi' \in BOOLEAN
         /\ txbuf' <=> ~ibuf'
         /\ ~ibi => (ibi' => ibuf')
<1>1. snd \in [Drivers -> Senders] /\ wire \in Seq(Packets) /\ eid \in 0..254 /\ ibi \in BOOLEAN
  BY DEF TypeOK
<1>2. CASE l = <<>> \/ is_eom(snd[Head(l)])
  <2>1. txbuf' = TRUE /\ ibuf' = held /\ snd' = snd /\ ibi' = ibi /\ wire' = wire
    BY <1>2 DEF send_next_packet
  <2> QED
    BY <1>1, <2>1
<1>3. CASE ~(l = <<>> \/ is_eom(snd[Head(l)]))
  <2>1. /\ snd' = [snd EXCEPT ![Head(l)] = Advanced(@)]
        /\ transmit(held)
        /\ wire' = wire \/ wire' = Append(wire, PacketOf(Head(l), snd[Head(l)]))
    BY <1>3 DEF send_next_packet
  <2>2. Head(l) \in Drivers
    BY <1>3
  <2>3. PICK h \in Drivers : h = Head(l)
    BY <2>2
  <2>4. snd[h] \in Senders
    BY <1>1
  <2>5. Advanced(snd[h]) \in Senders
    BY <2>4, AdvancedSender
  <2>6. /\ snd' = [snd EXCEPT ![h] = Advanced(snd[h])]
    BY <2>1, <2>3
  <2>7. snd' \in [Drivers -> Senders]
    BY <1>1, <2>5, <2>6
  <2>8. wire' \in Seq(Packets)
    <3>1. PICK p : p = PacketOf(h, snd[h])
      OBVIOUS
    <3>2. p \in Packets
      BY <1>1, <2>4, <3>1, PacketFields
    <3>3. wire' = wire \/ wire' = Append(wire, p)
      BY <2>1, <2>3, <3>1
    <3> QED
      BY <1>1, <3>2, <3>3
  <2>9. ASSUME NEW d \in Drivers
        PROVE  /\ snd'[d].msg = snd[d].msg /\ snd'[d].len = snd[d].len /\ snd'[d].tag = snd[d].tag
               /\ snd[d].off <= snd[d].len => snd'[d].off <= snd'[d].len
               /\ (l = <<>> \/ d # Head(l)) => snd'[d] = snd[d]
    <3>1. CASE d = h
      <4>1. snd'[d] = Advanced(snd[d]) /\ snd[d] \in Senders
        BY <1>1, <2>6, <3>1
      <4>2. snd[d].len \in Nat /\ snd[d].off \in Nat
        BY <4>1, SenderFields
      <4>3. /\ snd'[d].msg = snd[d].msg /\ snd'[d].len = snd[d].len /\ snd'[d].tag = snd[d].tag
            /\ Eom(snd[d]) => snd'[d].off = snd[d].len
            /\ ~Eom(snd[d]) => snd'[d].off = snd[d].off + Chunk
        BY <4>1, AdvancedSender
      <4>4. snd'[d].off <= snd'[d].len
        BY <4>2, <4>3, ChunkType DEF Eom
      <4> QED
        BY <1>3, <2>3, <3>1, <4>3, <4>4
    <3>2. CASE d # h
      <4>1. snd'[d] = snd[d]
        BY <1>1, <2>6, <3>2
      <4> QED
        BY <4>1
    <3> QED
      BY <3>1, <3>2
  <2>10. /\ txbuf' \in BOOLEAN /\ ibuf' \in BOOLEAN /\ ibi' \in BOOLEAN
         /\ txbuf' <=> ~ibuf'
         /\ ~ibi => (ibi' => ibuf')
    BY <1>1, <2>1 DEF transmit, Refused
  <2> QED
    BY <2>7, <2>8, <2>9, <2>10
<1> QED
  BY <1>2, <1>3

-----------------------------------------------------------------------------
(* TxInv, one step at a time *)

LEMMA TxInit == Init => TxInv
<1> SUFFICES ASSUME Init PROVE TxInv
  OBVIOUS
<1>1. TypeOK
  <2>1. Idle \in Senders
    BY DEF Idle, Senders
  <2>2. /\ list \in Seq(Drivers) /\ wire \in Seq(Packets)
        /\ acc \in Seq([by : Drivers, app : Apps, len : Lens])
        /\ told \in Seq([msg : Nat, app : Apps, tag : 0..7])
    BY DEF Init
  <2>3. ctl \in 0..MaxCtl
    BY TxAssumption DEF Init
  <2>4. /\ txbuf \in BOOLEAN /\ ibuf \in BOOLEAN /\ ibi \in BOOLEAN
        /\ defMux \in BOOLEAN /\ panicked \in BOOLEAN
    BY DEF Init
  <2> QED
    BY <2>1, <2>2, <2>3, <2>4 DEF Init, TypeOK
<1>2. Listed /\ Waiting /\ Waiters /\ Reports
  BY DEF Init, Listed, Waiting, Waiters, Reports
<1>3. Bus
  BY DEF Init, Bus, EidAnswered
<1> QED
  BY <1>1, <1>2, <1>3 DEF TxInv

(* The drivers in the list are distinct, having messages of their own       *)
LEMMA ListedOnce ==
  ASSUME TypeOK, Listed, NEW i \in 1..Len(list), NEW j \in 1..Len(list), list[i] = list[j]
  PROVE  i = j
<1>1. Len(told) \in Nat /\ Len(list) \in Nat
  BY DEF TypeOK
<1>2. snd[list[i]].msg = Len(told) + i /\ snd[list[j]].msg = Len(told) + j
  BY DEF Listed
<1> QED
  BY <1>1, <1>2

LEMMA HeadListed ==
  ASSUME TypeOK, Listed, Waiting, list # <<>>
  PROVE  /\ Len(list) \in Nat /\ Len(list) >= 1 /\ Head(list) = list[1] /\ Head(list) \in Drivers
         /\ Head(list) \notin kbuf
         /\ snd[Head(list)] \in Senders
         /\ snd[Head(list)].msg = Len(told) + 1
         /\ snd[Head(list)].off <= snd[Head(list)].len
         /\ snd[Head(list)].len > 0
         /\ acc[Len(told) + 1]
              = [by |-> Head(list), app |-> current[Head(list)], len |-> snd[Head(list)].len]
<1>1. /\ Len(list) \in Nat /\ Len(list) >= 1 /\ Head(list) = list[1] /\ Head(list) \in Drivers
      /\ Len(told) \in Nat
  BY DEF TypeOK
<1>2. 1 \in 1..Len(list)
  BY <1>1
<1>3. /\ list[1] \notin kbuf
      /\ snd[list[1]].msg = Len(told) + 1
      /\ acc[Len(told) + 1] = [by |-> list[1], app |-> current[list[1]], len |-> snd[list[1]].len]
      /\ snd[list[1]].off <= snd[list[1]].len
  BY <1>2 DEF Listed, Waiting
<1>4. snd[Head(list)] \in Senders
  BY <1>1 DEF TypeOK
<1>5. snd[Head(list)].len > 0
  <2>1. Len(told) + 1 \in 1..Len(acc)
    BY <1>1 DEF Listed
  <2>2. acc \in Seq([by : Drivers, app : Apps, len : Lens])
    BY DEF TypeOK
  <2>3. PICK k \in 1..Len(acc) : k = Len(told) + 1
    BY <2>1
  <2>4. acc[k] \in [by : Drivers, app : Apps, len : Lens]
    <3>1. PICK R : R = [by : Drivers, app : Apps, len : Lens]
      OBVIOUS
    <3>2. acc \in Seq(R)
      BY <2>2, <3>1
    <3>3. acc[k] \in R
      BY <2>3, <3>2
    <3> QED
      BY <3>1, <3>3
  <2>5. PICK l \in Lens : l = acc[k].len
    BY <2>4
  <2>6. l \in Nat /\ l > 0
    BY TxAssumption
  <2> QED
    BY <1>1, <1>3, <2>3, <2>5, <2>6
<1> QED
  BY <1>1, <1>3, <1>4, <1>5

LEMMA NewMessageType ==
  ASSUME TypeOK, NEW len \in Lens, NEW owner \in BOOLEAN, NEW tag \in Tags
  PROVE  /\ NewMessage(len, owner, tag) \in Senders
         /\ NewMessage(len, owner, tag).msg = Len(acc) + 1
         /\ NewMessage(len, owner, tag).len = len
         /\ NewMessage(len, owner, tag).off = 0 /\ NewMessage(len, owner, tag).seq = 0
<1>1. len \in Nat /\ Len(acc) + 1 \in Nat
  BY TxAssumption DEF TypeOK
<1>2. Tag(owner, tag) \in 0..15
  BY TxAssumption DEF TypeOK, Tag
<1> QED
  BY <1>1, <1>2 DEF NewMessage, Senders

LEMMA SendTx ==
  ASSUME TxInv, NEW d \in Drivers, NEW a \in Apps, NEW len \in Lens, NEW owner \in BOOLEAN,
         NEW tag \in Tags, send_msg_payload(d, a, len, owner, tag)
  PROVE  TxInv'
<1> DEFINE s == NewMessage(len, owner, tag)
           r == [by |-> d, app |-> a, len |-> len]
<1>1. TypeOK /\ Listed /\ Waiting /\ Waiters /\ Reports /\ Bus
  BY DEF TxInv
<1>2. s \in Senders /\ s.msg = Len(acc) + 1 /\ s.len = len /\ s.off = 0 /\ s.seq = 0
  BY <1>1, NewMessageType
<1> HIDE DEF s
<1>3. /\ d \in kbuf /\ kbuf' = kbuf \ {d}
      /\ pending' = [pending EXCEPT ![d] = @ \cup {a}]
      /\ current' = [current EXCEPT ![d] = a]
      /\ snd' = [snd EXCEPT ![d] = s]
      /\ list' = Append(list, d)
      /\ acc' = Append(acc, r)
  BY DEF send_msg_payload, add_sender, s
<1>4. /\ UNCHANGED <<slow, eid, txbuf, panicked, ibuf, ibi, wire, told, answered, ctl>>
  BY DEF send_msg_payload, i3cVars
<1>5. next_tag' \in 0..7 /\ defMux' \in BOOLEAN
  BY <1>1 DEF send_msg_payload, add_sender, TypeOK
<1>6. /\ list \in Seq(Drivers) /\ acc \in Seq([by : Drivers, app : Apps, len : Lens])
      /\ snd \in [Drivers -> Senders] /\ Len(list) \in Nat /\ Len(told) \in Nat /\ Len(acc) \in Nat
      /\ current \in [Drivers -> Apps \cup {NoApp}] /\ pending \in [Drivers -> SUBSET Apps]
  BY <1>1 DEF TypeOK
<1>7. r \in [by : Drivers, app : Apps, len : Lens] /\ r.app = a /\ r.len = len
  OBVIOUS
<1>8. TypeOK'
  <2>1. list' \in Seq(Drivers) /\ acc' \in Seq([by : Drivers, app : Apps, len : Lens])
    BY <1>3, <1>6, <1>7
  <2>2. snd' \in [Drivers -> Senders] /\ current' \in [Drivers -> Apps \cup {NoApp}]
    BY <1>2, <1>3, <1>6
  <2>3. pending' \in [Drivers -> SUBSET Apps]
    BY <1>3, <1>6
  <2>4. kbuf' \subseteq Drivers
    BY <1>1, <1>3 DEF TypeOK
  <2> QED
    BY <1>1, <1>4, <1>5, <2>1, <2>2, <2>3, <2>4 DEF TypeOK
<1>9. /\ Len(list') = Len(list) + 1 /\ list'[Len(list) + 1] = d
      /\ \A i \in 1..Len(list) : list'[i] = list[i]
      /\ Len(acc') = Len(acc) + 1 /\ acc'[Len(acc) + 1] = r
      /\ \A i \in 1..Len(acc) : acc'[i] = acc[i]
  BY <1>3, <1>6
<1> HIDE DEF r
<1>10. ASSUME NEW i \in 1..Len(list)
       PROVE  /\ list'[i] = list[i] /\ list[i] \in Drivers /\ list[i] # d
              /\ snd'[list'[i]] = snd[list[i]] /\ current'[list'[i]] = current[list[i]]
              /\ Len(told) + i \in 1..Len(acc)
  <2>1. list'[i] = list[i] /\ list[i] \in Drivers
    BY <1>6, <1>9
  <2>2. list[i] # d
    BY <1>1, <1>3 DEF Listed
  <2>3. Len(told) + i \in 1..Len(acc)
    BY <1>1, <1>6 DEF Listed
  <2> QED
    BY <1>3, <1>6, <2>1, <2>2, <2>3
<1>11. Listed'
  <2>1. Len(acc') = Len(told') + Len(list')
    BY <1>1, <1>4, <1>6, <1>9 DEF Listed
  <2>2. ASSUME NEW i \in 1..Len(list')
        PROVE  /\ list'[i] \notin kbuf'
               /\ snd'[list'[i]].msg = Len(told') + i
               /\ acc'[Len(told') + i]
                    = [by |-> list'[i], app |-> current'[list'[i]], len |-> snd'[list'[i]].len]
    <3>1. CASE i \in 1..Len(list)
      <4>1. /\ list[i] \notin kbuf /\ snd[list[i]].msg = Len(told) + i
            /\ acc[Len(told) + i]
                 = [by |-> list[i], app |-> current[list[i]], len |-> snd[list[i]].len]
        BY <1>1, <3>1 DEF Listed
      <4>2. acc'[Len(told) + i] = acc[Len(told) + i]
        BY <1>9, <1>10, <3>1
      <4>3. /\ list'[i] = list[i] /\ snd'[list'[i]] = snd[list[i]]
            /\ current'[list'[i]] = current[list[i]]
        BY <1>10, <3>1
      <4> QED
        BY <1>3, <1>4, <4>1, <4>2, <4>3
    <3>2. CASE i = Len(list) + 1
      <4>1. list'[i] = d /\ snd'[d] = s /\ current'[d] = a /\ Len(told) + i = Len(acc) + 1
        BY <1>1, <1>3, <1>6, <1>9, <3>2 DEF Listed
      <4>2. acc'[Len(told) + i] = [by |-> d, app |-> a, len |-> s.len]
        BY <1>2, <1>9, <4>1 DEF r
      <4> QED
        BY <1>2, <1>3, <1>4, <4>1, <4>2
    <3> QED
      BY <1>6, <1>9, <3>1, <3>2
  <2>3. ASSUME NEW c \in Drivers, c \notin kbuf'
        PROVE  \E i \in 1..Len(list') : list'[i] = c
    <3>1. CASE c = d
      BY <1>6, <1>9, <3>1
    <3>2. CASE c # d
      <4>1. PICK i \in 1..Len(list) : list[i] = c
        BY <1>1, <1>3, <2>3, <3>2 DEF Listed
      <4> QED
        BY <1>6, <1>9, <4>1
    <3> QED
      BY <3>1, <3>2
  <2> QED
    BY <2>1, <2>2, <2>3 DEF Listed
<1>12. Waiting'
  <2>1. ASSUME NEW i \in 1..Len(list')
        PROVE  /\ snd'[list'[i]].off <= snd'[list'[i]].len
               /\ i \in 2..Len(list') => snd'[list'[i]].off = 0 /\ snd'[list'[i]].seq = 0
    <3>1. CASE i \in 1..Len(list)
      BY <1>1, <1>6, <1>10, <3>1 DEF Waiting
    <3>2. CASE i = Len(list) + 1
      <4>1. snd'[list'[i]] = s
        BY <1>3, <1>6, <1>9, <3>2
      <4> QED
        BY <1>2, <4>1, TxAssumption
    <3> QED
      BY <1>6, <1>9, <3>1, <3>2
  <2> QED
    BY <1>6, <1>9, <2>1 DEF Waiting
<1>13. Waiters'
  BY <1>1, <1>3, <1>6 DEF Waiters
<1>14. Reports'
  BY <1>1, <1>4, <1>6, <1>9 DEF Reports, Listed
<1>15. Bus'
  BY <1>1, <1>4 DEF Bus, EidAnswered
<1> QED
  BY <1>8, <1>11, <1>12, <1>13, <1>14, <1>15 DEF TxInv

(* The packet of a message other than the head's leaves the rest alone      *)
LEMMA MuxDeferredTx ==
  ASSUME TxInv, MuxDeferred
  PROVE  TxInv'
<1>1. TypeOK /\ Listed /\ Waiting /\ Waiters /\ Reports /\ Bus
  BY DEF TxInv
<1>2. /\ ibuf \in BOOLEAN /\ ~ibuf /\ txbuf /\ list \in Seq(Drivers)
  BY <1>1 DEF MuxDeferred, Bus, TypeOK
<1>3. send_next_packet(list, ibuf) /\ UNCHANGED panicked
  BY <1>2 DEF MuxDeferred
<1>4. /\ UNCHANGED <<slow, list, next_tag, eid, kbuf, pending, current, acc, told, answered, ctl>>
      /\ defMux' = FALSE
  BY DEF MuxDeferred, drvVars
<1>5. PICK held \in BOOLEAN : held = ibuf
  BY <1>2
<1>6. /\ snd' \in [Drivers -> Senders] /\ wire' \in Seq(Packets)
      /\ \A d \in Drivers :
           /\ snd'[d].msg = snd[d].msg /\ snd'[d].len = snd[d].len /\ snd'[d].tag = snd[d].tag
           /\ snd[d].off <= snd[d].len => snd'[d].off <= snd'[d].len
           /\ (list = <<>> \/ d # Head(list)) => snd'[d] = snd[d]
      /\ txbuf' \in BOOLEAN /\ ibuf' \in BOOLEAN /\ ibi' \in BOOLEAN
      /\ txbuf' <=> ~ibuf'
      /\ ~ibi => (ibi' => ibuf')
  BY <1>1, <1>2, <1>3, <1>5, SendNext
<1>7. TypeOK'
  <2>1. defMux' \in BOOLEAN
    BY <1>4
  <2> QED
    BY <1>1, <1>3, <1>4, <1>6, <2>1 DEF TypeOK
<1>8. \A i \in 1..Len(list) : list[i] \in Drivers
  BY <1>2
<1>9. Listed'
  BY <1>1, <1>4, <1>6, <1>8 DEF Listed
<1>10. Waiting'
  <2>1. \A i \in 1..Len(list) : snd'[list[i]].off <= snd'[list[i]].len
    BY <1>1, <1>6, <1>8 DEF Waiting
  <2>2. ASSUME NEW i \in 2..Len(list) PROVE snd'[list[i]] = snd[list[i]]
    <3>1. /\ Len(list) \in Nat /\ 1 \in 1..Len(list) /\ i \in 1..Len(list)
      BY <1>2
    <3>2. list # <<>> => Head(list) = list[1]
      BY <1>2
    <3>3. list[i] # list[1]
      BY <1>1, <3>1, ListedOnce
    <3> QED
      BY <1>6, <1>8, <3>1, <3>2, <3>3
  <2> QED
    BY <1>1, <1>4, <2>1, <2>2 DEF Waiting
<1>11. Waiters' /\ Reports'
  BY <1>1, <1>4 DEF Waiters, Reports
<1>12. Bus'
  BY <1>1, <1>2, <1>3, <1>4, <1>6 DEF Bus, EidAnswered
<1> QED
  BY <1>7, <1>9, <1>10, <1>11, <1>12 DEF TxInv

(* The message at the head is done: its process is told                     *)
LEMMA HeadDone ==
  ASSUME TxInv, list # <<>>, driver_send_done(Head(list)), list' = Tail(list)
  PROVE  /\ kbuf' = kbuf \cup {Head(list)} /\ current' = [current EXCEPT ![Head(list)] = NoApp]
         /\ pending' = [pending EXCEPT ![Head(list)] = {}]
         /\ told' = Append(told, [msg |-> Len(told) + 1, app |-> acc[Len(told) + 1].app,
                                  tag |-> snd[Head(list)].tag % 8])
         /\ kbuf' \subseteq Drivers /\ current' \in [Drivers -> Apps \cup {NoApp}]
         /\ pending' \in [Drivers -> SUBSET Apps]
         /\ told' \in Seq([msg : Nat, app : Apps, tag : 0..7])
         /\ list' \in Seq(Drivers) /\ Len(list') = Len(list) - 1
         /\ \A i \in 1..Len(list') : list'[i] = list[i + 1]
<1>1. TypeOK /\ Listed /\ Waiting /\ Waiters
  BY DEF TxInv
<1>2. PICK h \in Drivers : h = Head(list)
  BY <1>1, HeadListed
<1>3. /\ h \notin kbuf /\ snd[h] \in Senders /\ snd[h].msg = Len(told) + 1
      /\ acc[Len(told) + 1] = [by |-> h, app |-> current[h], len |-> snd[h].len]
      /\ Len(list) >= 1
  BY <1>1, <1>2, HeadListed
<1>4. pending[h] = {current[h]} /\ current[h] \in Apps
  BY <1>1, <1>3 DEF Waiters, TypeOK
<1>5. /\ pending \in [Drivers -> SUBSET Apps] /\ current \in [Drivers -> Apps \cup {NoApp}]
      /\ kbuf \subseteq Drivers /\ told \in Seq([msg : Nat, app : Apps, tag : 0..7])
      /\ list \in Seq(Drivers) /\ Len(told) + 1 \in Nat
  BY <1>1 DEF TypeOK
<1>6. /\ kbuf' = kbuf \cup {h} /\ current' = [current EXCEPT ![h] = NoApp]
      /\ pending' = [pending EXCEPT ![h] = {}]
  BY <1>2, <1>4, <1>5 DEF driver_send_done, Completed
<1>7. PICK r : r = [msg |-> Len(told) + 1, app |-> current[h], tag |-> snd[h].tag % 8]
  OBVIOUS
<1>8. told' = Append(told, r)
  BY <1>2, <1>3, <1>4, <1>7 DEF driver_send_done
<1>9. r \in [msg : Nat, app : Apps, tag : 0..7]
  BY <1>3, <1>4, <1>5, <1>7, SenderFields
<1>10. /\ kbuf' \subseteq Drivers /\ current' \in [Drivers -> Apps \cup {NoApp}]
       /\ pending' \in [Drivers -> SUBSET Apps]
  BY <1>5, <1>6
<1>11. told' \in Seq([msg : Nat, app : Apps, tag : 0..7])
  BY <1>5, <1>8, <1>9
<1>12. /\ list' \in Seq(Drivers) /\ Len(list') = Len(list) - 1
       /\ \A i \in 1..Len(list') : list'[i] = list[i + 1]
  BY <1>5
<1>13. acc[Len(told) + 1].app = current[h]
  BY <1>3
<1> QED
  BY <1>2, <1>6, <1>7, <1>8, <1>10, <1>11, <1>12, <1>13

LEMMA I3cDeferredTx ==
  ASSUME TxInv, I3cDeferred
  PROVE  TxInv'
<1>1. TypeOK /\ Listed /\ Waiting /\ Waiters /\ Reports /\ Bus
  BY DEF TxInv
<1>2. /\ UNCHANGED <<slow, next_tag, eid, defMux, panicked, acc, answered, ctl>>
      /\ ibuf /\ (slow \/ ~ibi)
  BY DEF I3cDeferred
<1>3. PICK held \in BOOLEAN : held = FALSE
  OBVIOUS
<1>4. /\ list \in Seq(Drivers) /\ Len(list) \in Nat /\ Len(told) \in Nat /\ Len(acc) \in Nat
      /\ told \in Seq([msg : Nat, app : Apps, tag : 0..7])
      /\ current \in [Drivers -> Apps \cup {NoApp}] /\ pending \in [Drivers -> SUBSET Apps]
  BY <1>1 DEF TypeOK
<1>5. \A i \in 1..Len(list) : list[i] \in Drivers
  BY <1>4
<1>6. CASE list # <<>> /\ LastSent(snd[Head(list)])
  <2>1. /\ list' = Tail(list) /\ driver_send_done(Head(list))
        /\ send_next_packet(Tail(list), held)
    BY <1>3, <1>6 DEF I3cDeferred
  <2>2. PICK h \in Drivers : h = Head(list)
    BY <1>1, <1>6, HeadListed
  <2>3. /\ h = list[1] /\ Len(list) >= 1 /\ h \notin kbuf
    BY <1>1, <1>6, <2>2, HeadListed
  <2>4. /\ kbuf' = kbuf \cup {h} /\ current' = [current EXCEPT ![h] = NoApp]
        /\ pending' = [pending EXCEPT ![h] = {}]
        /\ told' = Append(told, [msg |-> Len(told) + 1, app |-> acc[Len(told) + 1].app,
                                 tag |-> snd[h].tag % 8])
        /\ kbuf' \subseteq Drivers /\ current' \in [Drivers -> Apps \cup {NoApp}]
        /\ pending' \in [Drivers -> SUBSET Apps]
        /\ told' \in Seq([msg : Nat, app : Apps, tag : 0..7])
        /\ list' \in Seq(Drivers) /\ Len(list') = Len(list) - 1
        /\ \A i \in 1..Len(list') : list'[i] = list[i + 1]
    BY <1>6, <2>1, <2>2, HeadDone
  <2>5. /\ snd' \in [Drivers -> Senders] /\ wire' \in Seq(Packets)
        /\ \A d \in Drivers :
             /\ snd'[d].msg = snd[d].msg /\ snd'[d].len = snd[d].len /\ snd'[d].tag = snd[d].tag
             /\ snd[d].off <= snd[d].len => snd'[d].off <= snd'[d].len
             /\ (list' = <<>> \/ d # Head(list')) => snd'[d] = snd[d]
        /\ txbuf' \in BOOLEAN /\ ibuf' \in BOOLEAN /\ ibi' \in BOOLEAN
        /\ txbuf' <=> ~ibuf'
        /\ ~ibi => (ibi' => ibuf')
    <3>1. PICK l \in Seq(Drivers) : l = Tail(list)
      BY <2>1, <2>4
    <3> QED
      BY <1>1, <1>3, <2>1, <3>1, SendNext
  <2>6. /\ Len(told') = Len(told) + 1
        /\ told'[Len(told) + 1].msg = Len(told) + 1
        /\ told'[Len(told) + 1].app = acc[Len(told) + 1].app
        /\ \A i \in 1..Len(told) : told'[i] = told[i]
    BY <1>4, <2>4
  <2>7. TypeOK'
    BY <1>1, <1>2, <2>4, <2>5 DEF TypeOK
  <2>8. ASSUME NEW i \in 1..Len(list')
        PROVE  /\ i + 1 \in 1..Len(list) /\ list'[i] = list[i + 1] /\ list[i + 1] \in Drivers
               /\ list[i + 1] # h /\ i + 1 \in 2..Len(list)
    <3>1. i + 1 \in 1..Len(list) /\ i + 1 \in 2..Len(list) /\ list'[i] = list[i + 1]
      BY <1>4, <2>4
    <3>2. i + 1 # 1 /\ 1 \in 1..Len(list)
      BY <1>4, <2>3
    <3>3. list[i + 1] # list[1]
      BY <1>1, <3>1, <3>2, ListedOnce
    <3> QED
      BY <1>5, <2>3, <3>1, <3>3
  <2>9. Listed'
    <3>1. Len(acc') = Len(told') + Len(list')
      <4>1. Len(acc) = Len(told) + Len(list) /\ Len(acc') = Len(acc)
        BY <1>1, <1>2 DEF Listed
      <4>2. Len(list') = Len(list) - 1 /\ Len(told') = Len(told) + 1
        BY <2>4, <2>6
      <4> QED
        BY <1>4, <4>1, <4>2
    <3>2. ASSUME NEW i \in 1..Len(list')
          PROVE  /\ list'[i] \notin kbuf'
                 /\ snd'[list'[i]].msg = Len(told') + i
                 /\ acc'[Len(told') + i]
                      = [by |-> list'[i], app |-> current'[list'[i]], len |-> snd'[list'[i]].len]
      <4>1. /\ list[i + 1] \notin kbuf /\ snd[list[i + 1]].msg = Len(told) + (i + 1)
            /\ acc[Len(told) + (i + 1)]
                 = [by |-> list[i + 1], app |-> current[list[i + 1]], len |-> snd[list[i + 1]].len]
        BY <1>1, <2>8 DEF Listed
      <4>2. /\ list'[i] = list[i + 1] /\ list[i + 1] \in Drivers /\ list[i + 1] # h
            /\ current'[list'[i]] = current[list[i + 1]]
        BY <1>4, <2>4, <2>8
      <4>3. /\ snd'[list'[i]].msg = snd[list[i + 1]].msg /\ snd'[list'[i]].len = snd[list[i + 1]].len
        BY <2>5, <4>2
      <4>4. Len(told') + i = Len(told) + (i + 1)
        BY <1>4, <2>4, <2>6
      <4> QED
        BY <1>2, <2>4, <4>1, <4>2, <4>3, <4>4
    <3>3. ASSUME NEW c \in Drivers, c \notin kbuf'
          PROVE  \E i \in 1..Len(list') : list'[i] = c
      <4>1. PICK i \in 1..Len(list) : list[i] = c
        BY <1>1, <2>4, <3>3 DEF Listed
      <4>2. i # 1
        BY <2>3, <2>4, <3>3, <4>1
      <4>3. i - 1 \in 1..Len(list') /\ (i - 1) + 1 = i
        BY <1>4, <2>4, <4>2
      <4>4. list'[i - 1] = c
        BY <2>4, <4>1, <4>3
      <4> QED
        BY <4>3, <4>4
    <3> QED
      BY <3>1, <3>2, <3>3 DEF Listed
  <2>10. Waiting'
    <3>1. ASSUME NEW i \in 1..Len(list')
          PROVE  snd'[list'[i]].off <= snd'[list'[i]].len
      BY <1>1, <2>5, <2>8 DEF Waiting
    <3>2. ASSUME NEW i \in 2..Len(list')
          PROVE  snd'[list'[i]].off = 0 /\ snd'[list'[i]].seq = 0
      <4>1. Len(list') \in Nat /\ i \in 1..Len(list') /\ 1 \in 1..Len(list') /\ i # 1
        BY <1>4, <2>4
      <4>2. list' # <<>> /\ Head(list') = list'[1]
        BY <2>4, <4>1
      <4>3. list'[i] # list'[1]
        <5>1. list'[i] = list[i + 1] /\ i + 1 \in 1..Len(list)
          BY <2>8, <4>1
        <5>2. list'[1] = list[1 + 1] /\ 1 + 1 \in 1..Len(list)
          BY <2>8, <4>1
        <5>3. i + 1 # 1 + 1
          BY <4>1
        <5> QED
          BY <1>1, <5>1, <5>2, <5>3, ListedOnce
      <4>4. list'[i] \in Drivers /\ list'[i] = list[i + 1] /\ i + 1 \in 2..Len(list)
        BY <2>8, <4>1
      <4>5. snd'[list'[i]] = snd[list[i + 1]]
        BY <2>5, <4>2, <4>3, <4>4
      <4> QED
        BY <1>1, <4>4, <4>5 DEF Waiting
    <3> QED
      BY <3>1, <3>2 DEF Waiting
  <2>11. Waiters'
    <3>1. ASSUME NEW d \in Drivers
          PROVE  pending'[d] = IF d \in kbuf' THEN {} ELSE {current'[d]}
      BY <1>1, <1>4, <2>4 DEF Waiters
    <3> QED
      BY <3>1 DEF Waiters
  <2>12. Reports'
    BY <1>1, <1>2, <1>4, <2>6 DEF Reports
  <2>13. Bus'
    BY <1>1, <1>2, <2>5 DEF Bus, EidAnswered
  <2> QED
    BY <2>7, <2>9, <2>10, <2>11, <2>12, <2>13 DEF TxInv
<1>7. CASE ~(list # <<>> /\ LastSent(snd[Head(list)]))
  <2>1. /\ list' = list /\ UNCHANGED <<kbuf, pending, current, told>>
        /\ send_next_packet(list, held)
    BY <1>3, <1>7 DEF I3cDeferred, drvVars
  <2>2. /\ snd' \in [Drivers -> Senders] /\ wire' \in Seq(Packets)
        /\ \A d \in Drivers :
             /\ snd'[d].msg = snd[d].msg /\ snd'[d].len = snd[d].len /\ snd'[d].tag = snd[d].tag
             /\ snd[d].off <= snd[d].len => snd'[d].off <= snd'[d].len
             /\ (list = <<>> \/ d # Head(list)) => snd'[d] = snd[d]
        /\ txbuf' \in BOOLEAN /\ ibuf' \in BOOLEAN /\ ibi' \in BOOLEAN
        /\ txbuf' <=> ~ibuf'
        /\ ~ibi => (ibi' => ibuf')
    BY <1>1, <1>3, <1>4, <2>1, SendNext
  <2>3. TypeOK'
    BY <1>1, <1>2, <2>1, <2>2 DEF TypeOK
  <2>4. Listed'
    BY <1>1, <1>2, <1>5, <2>1, <2>2 DEF Listed
  <2>5. Waiting'
    <3>1. \A i \in 1..Len(list) : snd'[list[i]].off <= snd'[list[i]].len
      BY <1>1, <1>5, <2>2 DEF Waiting
    <3>2. ASSUME NEW i \in 2..Len(list) PROVE snd'[list[i]] = snd[list[i]]
      <4>1. /\ Len(list) \in Nat /\ 1 \in 1..Len(list) /\ i \in 1..Len(list)
        BY <1>4
      <4>2. list # <<>> => Head(list) = list[1]
        BY <1>4
      <4>3. list[i] # list[1]
        BY <1>1, <4>1, ListedOnce
      <4> QED
        BY <1>5, <2>2, <4>1, <4>2, <4>3
    <3> QED
      BY <1>1, <2>1, <3>1, <3>2 DEF Waiting
  <2>6. Waiters' /\ Reports'
    BY <1>1, <1>2, <2>1 DEF Waiters, Reports
  <2>7. Bus'
    BY <1>1, <1>2, <2>2 DEF Bus, EidAnswered
  <2> QED
    BY <2>3, <2>4, <2>5, <2>6, <2>7 DEF TxInv
<1> QED
  BY <1>6, <1>7

(* The control answers use the packet buffer when the mux has it            *)
LEMMA ControlTx ==
  ASSUME TxInv, NEW kind, NEW e \in Eids \cup {0}, ControlRequest(kind, e)
  PROVE  TxInv'
<1>1. TypeOK /\ Listed /\ Waiting /\ Waiters /\ Reports /\ Bus
  BY DEF TxInv
<1>2. /\ UNCHANGED <<slow, list, snd, next_tag, defMux, panicked, kbuf, pending, current>>
      /\ UNCHANGED <<wire, acc, told>>
      /\ ctl' \in 0..MaxCtl
  BY <1>1, TxAssumption DEF ControlRequest, drvVars, TypeOK
<1>3. e \in 0..254 /\ eid \in 0..254 /\ answered \in 0..254
  BY <1>1, TxAssumption DEF TypeOK
<1>4. eid' \in 0..254
  BY <1>3 DEF ControlRequest, Assigned
<1>5. Listed' /\ Waiting' /\ Waiters' /\ Reports'
  BY <1>1, <1>2 DEF Listed, Waiting, Waiters, Reports
<1>6. CASE ~txbuf \/ kind = "malformed"
  <2>1. UNCHANGED <<txbuf, ibuf, ibi, answered>> /\ eid' = eid
    BY <1>6 DEF ControlRequest, i3cVars, Assigned
  <2>2. TypeOK'
    BY <1>1, <1>2, <1>4, <2>1 DEF TypeOK
  <2>3. Bus'
    BY <1>1, <1>2, <2>1 DEF Bus, EidAnswered
  <2> QED
    BY <1>5, <2>2, <2>3 DEF TxInv
<1>7. CASE txbuf /\ kind # "malformed"
  <2>1. /\ transmit(ibuf) /\ ~ibuf /\ ibuf \in BOOLEAN /\ ibi \in BOOLEAN
        /\ answered' = IF Refused(ibuf) THEN answered ELSE eid'
    BY <1>1, <1>7 DEF ControlRequest, Bus, TypeOK
  <2>2. CASE ibi
    <3>1. txbuf' = TRUE /\ ibuf' = ibuf /\ ibi' = ibi /\ answered' = answered
      BY <2>1, <2>2 DEF transmit, Refused
    <3>2. slow
      BY <1>1, <2>1, <2>2 DEF Bus
    <3>3. txbuf' \in BOOLEAN
      BY <3>1
    <3>4. TypeOK'
      BY <1>1, <1>2, <1>4, <3>1, <3>3 DEF TypeOK
    <3>5. Bus'
      BY <1>1, <1>2, <2>1, <3>1, <3>2 DEF Bus, EidAnswered
    <3> QED
      BY <1>5, <3>4, <3>5 DEF TxInv
  <2>3. CASE ~ibi
    <3>1. txbuf' = FALSE /\ ibuf' = TRUE /\ ibi' = TRUE /\ answered' = eid'
      BY <2>1, <2>3 DEF transmit, Refused
    <3>2. txbuf' \in BOOLEAN /\ ibuf' \in BOOLEAN /\ ibi' \in BOOLEAN
      BY <3>1
    <3>3. TypeOK'
      BY <1>1, <1>2, <1>4, <3>1, <3>2 DEF TypeOK
    <3>4. Bus'
      BY <1>1, <1>2, <3>1 DEF Bus, EidAnswered
    <3> QED
      BY <1>5, <3>3, <3>4 DEF TxInv
  <2> QED
    BY <2>2, <2>3
<1> QED
  BY <1>1, <1>6, <1>7 DEF TypeOK

LEMMA IbiDoneTx ==
  ASSUME TxInv, NEW ok \in BOOLEAN, IbiDone(ok)
  PROVE  TxInv'
<1>1. TypeOK /\ Listed /\ Waiting /\ Waiters /\ Reports /\ Bus
  BY DEF TxInv
<1>2. /\ UNCHANGED <<slow, list, snd, next_tag, eid, txbuf, defMux, panicked, kbuf, pending, current>>
      /\ UNCHANGED <<ibuf, wire, acc, told, answered, ctl>> /\ ibi /\ ibi' \in BOOLEAN
  BY DEF IbiDone, muxVars, drvVars, history
<1>3. TypeOK'
  BY <1>1, <1>2 DEF TypeOK
<1>4. Listed' /\ Waiting' /\ Waiters' /\ Reports'
  BY <1>1, <1>2 DEF Listed, Waiting, Waiters, Reports
<1>5. Bus'
  BY <1>1, <1>2 DEF Bus, EidAnswered
<1> QED
  BY <1>3, <1>4, <1>5 DEF TxInv

LEMMA StutterTx ==
  ASSUME TxInv, UNCHANGED vars
  PROVE  TxInv'
<1>1. TypeOK /\ Listed /\ Waiting /\ Waiters /\ Reports /\ Bus
  BY DEF TxInv
<1>2. /\ UNCHANGED <<slow, list, snd, next_tag, eid, txbuf, defMux, panicked, kbuf, pending, current>>
      /\ UNCHANGED <<ibuf, ibi, wire, acc, told, answered, ctl>>
  BY DEF vars, muxVars, drvVars, i3cVars, history
<1>3. TypeOK'
  BY <1>1, <1>2 DEF TypeOK
<1>4. Listed' /\ Waiting' /\ Waiters' /\ Reports'
  BY <1>1, <1>2 DEF Listed, Waiting, Waiters, Reports
<1>5. Bus'
  BY <1>1, <1>2 DEF Bus, EidAnswered
<1> QED
  BY <1>3, <1>4, <1>5 DEF TxInv

LEMMA TxStep ==
  ASSUME TxInv, [Next]_vars
  PROVE  TxInv'
<1>1. ASSUME NEW d \in Drivers, Send(d) PROVE TxInv'
  BY <1>1, SendTx DEF Send
<1>2. ASSUME NEW d \in Drivers, NEW a \in Apps, Refuse(d, a) PROVE TxInv'
  BY <1>2, StutterTx DEF Refuse
<1>3. CASE ControlStep
  BY <1>3, ControlTx DEF ControlStep
<1>4. CASE I3cDeferred \/ MuxDeferred \/ UNCHANGED vars
  BY <1>4, I3cDeferredTx, MuxDeferredTx, StutterTx
<1>5. ASSUME NEW ok \in BOOLEAN, IbiDone(ok) PROVE TxInv'
  BY <1>5, IbiDoneTx
<1> QED
  BY <1>1, <1>2, <1>3, <1>4, <1>5 DEF Next

-----------------------------------------------------------------------------
(* The inductive invariant holds in every state.                            *)
THEOREM SendInvariant == Spec => []TxInv
<1>1. TxInv /\ [Next]_vars => TxInv'
  BY TxStep
<1> QED
  BY <1>1, TxInit, PTL DEF Spec

(* Types: tags and sequence numbers keep their width, a report names a      *)
(* process, whatever is sent.                                               *)
THEOREM TypeCorrect == Spec => []TypeOK
<1>1. TxInv => TypeOK
  BY DEF TxInv
<1> QED
  BY <1>1, SendInvariant, PTL

(* The mux's unwrap of the packet buffer never meets None, whenever control *)
(* requests are answered, and the buffer is not in two places.              *)
THEOREM BufferAtHandHolds == Spec => []BufferAtHand
<1>1. TxInv => BufferAtHand
  <2> SUFFICES ASSUME TxInv PROVE BufferAtHand
    OBVIOUS
  <2>1. (txbuf <=> ~ibuf) /\ ~panicked /\ txbuf \in BOOLEAN /\ ibuf \in BOOLEAN
    BY DEF TxInv, Bus, TypeOK
  <2> QED
    BY <2>1 DEF BufferAtHand
<1> QED
  BY <1>1, SendInvariant, PTL

(* A Set Endpoint ID takes effect only with its answer, unless the bus is   *)
(* slow.                                                                    *)
THEOREM EidAnsweredHolds == Spec => []EidAnswered
<1>1. TxInv => EidAnswered
  BY DEF TxInv, Bus
<1> QED
  BY <1>1, SendInvariant, PTL

(* send_done finds, for every message and in order, the process that sent   *)
(* it, however many drivers and processes send at once.                     *)
THEOREM ReportFindsSenderHolds == Spec => []ReportFindsSender
<1>1. TxInv => ReportFindsSender
  <2> SUFFICES ASSUME TxInv PROVE ReportFindsSender
    OBVIOUS
  <2>1. TypeOK /\ Listed /\ Waiters /\ Reports
    BY DEF TxInv
  <2>2. ASSUME NEW d \in Drivers, NEW S, S = {i \in 1..Len(list) : list[i] = d}
        PROVE  /\ Cardinality(S) = IF d \in kbuf THEN 0 ELSE 1
               /\ d \notin kbuf =>
                    acc[snd[d].msg] = [by |-> d, app |-> current[d], len |-> snd[d].len]
    <3>1. CASE d \in kbuf
      <4>1. S = {}
        BY <2>1, <2>2, <3>1 DEF Listed
      <4>2. Cardinality(S) = 0
        BY <4>1, FS_EmptySet, Zenon
      <4> QED
        BY <3>1, <4>2
    <3>2. CASE d \notin kbuf
      <4>1. PICK i \in 1..Len(list) : list[i] = d
        BY <2>1, <3>2 DEF Listed
      <4>2. S = {i}
        BY <2>1, <2>2, <4>1, ListedOnce
      <4>3. Cardinality(S) = 1
        BY <4>2, FS_Singleton, Zenon
      <4>4. acc[snd[d].msg] = [by |-> d, app |-> current[d], len |-> snd[d].len]
        BY <2>1, <4>1 DEF Listed
      <4> QED
        BY <3>2, <4>3, <4>4
    <3> QED
      BY <3>1, <3>2
  <2>3. ASSUME NEW d \in Drivers
        PROVE  LET under_way == {i \in 1..Len(list) : list[i] = d}
               IN /\ Cardinality(under_way) = (IF d \in kbuf THEN 0 ELSE 1)
                  /\ pending[d] = IF d \in kbuf THEN {} ELSE {current[d]}
                  /\ d \notin kbuf => acc[snd[d].msg] = [by |-> d, app |-> current[d], len |-> snd[d].len]
    BY <2>1, <2>2 DEF Waiters
  <2> QED
    BY <2>1, <2>3 DEF ReportFindsSender, Reports
<1> QED
  BY <1>1, SendInvariant, PTL

-----------------------------------------------------------------------------
(* What is on the bus: constant facts about packets w                       *)

LEMMA Products ==
  ASSUME NEW x \in Nat, NEW y \in Nat, x < y
  PROVE  x * Chunk < y * Chunk
<1>1. PICK z \in Nat : y = x + 1 + z
  <2>1. y - x - 1 \in Nat /\ y = x + 1 + (y - x - 1)
    OBVIOUS
  <2> QED
    BY <2>1
<1>2. (x + 1 + z) * Chunk = x * Chunk + Chunk + z * Chunk
  BY ChunkType
<1>3. x * Chunk \in Nat /\ z * Chunk \in Nat
  BY ChunkType
<1> QED
  BY <1>1, <1>2, <1>3, ChunkType

LEMMA NextProduct ==
  ASSUME NEW k \in Nat
  PROVE  /\ (k + 1) * Chunk = k * Chunk + Chunk /\ k * Chunk \in Nat
         /\ (k + 1) - 1 = k /\ 0 * Chunk = 0
  BY ChunkType

LEMMA WholeForms ==
  ASSUME NEW m
  PROVE  /\ Whole(m) <=> WholeIn(wire, acc, told, m)
         /\ Whole(m)' <=> WholeIn(wire', acc', told', m)
  BY DEF Whole, Cuts, Cut, WholeIn, CutsOf, CutOf

LEMMA Appended ==
  ASSUME NEW S, NEW w \in Seq(S), NEW p \in S, NEW v, v = Append(w, p)
  PROVE  /\ v \in Seq(S) /\ Len(w) \in Nat /\ Len(v) = Len(w) + 1 /\ v[Len(w) + 1] = p
         /\ \A j \in 1..Len(w) : v[j] = w[j]
  OBVIOUS

(* A packet of another message, more messages and reports of others leave   *)
(* message m as it is                                                       *)
LEMMA CutsKept ==
  ASSUME NEW w \in Seq(Packets), NEW v \in Seq(Packets), Len(w) <= Len(v),
         NEW m, NEW a, NEW c, NEW t, NEW u,
         \A j \in 1..Len(w) : v[j] = w[j],
         \A j \in Len(w) + 1 .. Len(v) : v[j].msg # m,
         c[m].len = a[m].len, m <= Len(t), m <= Len(u), u[m].tag = t[m].tag,
         NEW b \in Nat, NEW n \in Nat \ {0}
  PROVE  CutsOf(w, a, t, m, b, n) <=> CutsOf(v, c, u, m, b, n)
<1>1. Len(w) \in Nat /\ Len(v) \in Nat
  OBVIOUS
<1>2. ASSUME CutsOf(w, a, t, m, b, n) PROVE CutsOf(v, c, u, m, b, n)
  <2>1. /\ b + n <= Len(w) /\ (n - 1) * Chunk < a[m].len /\ a[m].len <= n * Chunk
        /\ \A j \in 1..Len(w) : w[j].msg = m <=> j \in b + 1 .. b + n
        /\ \A i \in 1..n : CutOf(w, t, m, b, n, i)
    BY <1>2 DEF CutsOf
  <2>2. \A j \in 1..Len(v) : v[j].msg = m <=> j \in b + 1 .. b + n
    BY <1>1, <2>1
  <2>3. ASSUME NEW i \in 1..n PROVE CutOf(v, u, m, b, n, i)
    <3>1. b + i \in 1..Len(w) /\ b + 1 \in 1..Len(w)
      BY <1>1, <2>1
    <3>2. v[b + i] = w[b + i] /\ v[b + 1] = w[b + 1]
      BY <3>1
    <3>3. CutOf(w, t, m, b, n, i)
      BY <2>1
    <3> QED
      BY <3>2, <3>3 DEF CutOf
  <2> QED
    BY <1>1, <2>1, <2>2, <2>3 DEF CutsOf
<1>3. ASSUME CutsOf(v, c, u, m, b, n) PROVE CutsOf(w, a, t, m, b, n)
  <2>1. /\ b + n <= Len(v) /\ (n - 1) * Chunk < c[m].len /\ c[m].len <= n * Chunk
        /\ \A j \in 1..Len(v) : v[j].msg = m <=> j \in b + 1 .. b + n
        /\ \A i \in 1..n : CutOf(v, u, m, b, n, i)
    BY <1>3 DEF CutsOf
  <2>2. b + n <= Len(w)
    <3>1. b + n \in 1..Len(v) /\ b + n \in b + 1 .. b + n
      BY <1>1, <2>1
    <3>2. v[b + n].msg = m
      BY <2>1, <3>1
    <3> QED
      BY <1>1, <3>1, <3>2
  <2>3. \A j \in 1..Len(w) : w[j].msg = m <=> j \in b + 1 .. b + n
    BY <1>1, <2>1
  <2>4. ASSUME NEW i \in 1..n PROVE CutOf(w, t, m, b, n, i)
    <3>1. b + i \in 1..Len(w) /\ b + 1 \in 1..Len(w)
      BY <1>1, <2>2
    <3>2. v[b + i] = w[b + i] /\ v[b + 1] = w[b + 1]
      BY <3>1
    <3>3. CutOf(v, u, m, b, n, i)
      BY <2>1
    <3> QED
      BY <3>2, <3>3 DEF CutOf
  <2> QED
    BY <2>1, <2>2, <2>3, <2>4 DEF CutsOf
<1> QED
  BY <1>2, <1>3

LEMMA WholeKept ==
  ASSUME NEW w \in Seq(Packets), NEW v \in Seq(Packets), Len(w) <= Len(v),
         NEW m, NEW a, NEW c, NEW t, NEW u,
         \A j \in 1..Len(w) : v[j] = w[j],
         \A j \in Len(w) + 1 .. Len(v) : v[j].msg # m,
         c[m].len = a[m].len, m <= Len(t), m <= Len(u), u[m].tag = t[m].tag
  PROVE  WholeIn(w, a, t, m) <=> WholeIn(v, c, u, m)
<1>1. Len(w) \in Nat /\ Len(v) \in Nat
  OBVIOUS
<1>2. ASSUME WholeIn(w, a, t, m) PROVE WholeIn(v, c, u, m)
  <2>1. PICK b \in 0..Len(w), n \in 1..Len(w) : CutsOf(w, a, t, m, b, n)
    BY <1>2 DEF WholeIn
  <2>2. b \in Nat /\ n \in Nat \ {0} /\ b \in 0..Len(v) /\ n \in 1..Len(v)
    BY <1>1, <2>1
  <2>3. CutsOf(v, c, u, m, b, n)
    BY <2>1, <2>2, CutsKept
  <2> QED
    BY <2>2, <2>3 DEF WholeIn
<1>3. ASSUME WholeIn(v, c, u, m) PROVE WholeIn(w, a, t, m)
  <2>1. PICK b \in 0..Len(v), n \in 1..Len(v) : CutsOf(v, c, u, m, b, n)
    BY <1>3 DEF WholeIn
  <2>2. b \in Nat /\ n \in Nat \ {0}
    BY <1>1, <2>1
  <2>3. CutsOf(w, a, t, m, b, n)
    BY <2>1, <2>2, CutsKept
  <2>4. b + n <= Len(w)
    BY <2>3 DEF CutsOf
  <2>5. b \in 0..Len(w) /\ n \in 1..Len(w)
    BY <1>1, <2>2, <2>4
  <2> QED
    BY <2>3, <2>5 DEF WholeIn
<1> QED
  BY <1>2, <1>3

(* A message with a gap is not whole                                        *)
LEMMA GapNotWhole ==
  ASSUME NEW w \in Seq(Packets), NEW a, NEW t, NEW m, NEW s \in Senders,
         s.off <= s.len, a[m].len = s.len, Gap(w, m, s)
  PROVE  ~WholeIn(w, a, t, m)
<1> SUFFICES ASSUME NEW b \in 0..Len(w), NEW n \in 1..Len(w), CutsOf(w, a, t, m, b, n)
             PROVE  FALSE
  BY DEF WholeIn
<1>1. Len(w) \in Nat /\ s.off \in Nat /\ s.len \in Nat /\ b \in Nat /\ n \in Nat
  BY SenderFields
<1>2. PICK i \in Nat \ {0} :
        /\ (i - 1) * Chunk < s.off
        /\ \A j \in 1..Len(w) : w[j].msg = m => w[j].off # (i - 1) * Chunk
  BY DEF Gap
<1>3. i <= n
  <2>1. ASSUME n < i PROVE FALSE
    <3>1. PICK x \in Nat : x = i - 1
      BY <1>2
    <3>2. n <= x
      BY <1>1, <1>2, <2>1, <3>1
    <3>3. n * Chunk <= x * Chunk
      <4>1. n * Chunk \in Nat /\ x * Chunk \in Nat
        BY <1>1, NextProduct
      <4> QED
        BY <1>1, <3>2, <4>1, Products
    <3>4. x * Chunk < s.off /\ s.len <= n * Chunk
      BY <1>2, <3>1 DEF CutsOf
    <3>5. n * Chunk \in Nat /\ x * Chunk \in Nat
      BY <1>1, NextProduct
    <3> QED
      BY <1>1, <3>3, <3>4, <3>5
  <2> QED
    BY <1>1, <2>1
<1>4. /\ b + n <= Len(w) /\ \A j \in 1..Len(w) : w[j].msg = m <=> j \in b + 1 .. b + n
      /\ CutOf(w, t, m, b, n, i)
  BY <1>1, <1>2, <1>3 DEF CutsOf
<1>5. b + i \in 1..Len(w) /\ b + i \in b + 1 .. b + n
  BY <1>1, <1>2, <1>3, <1>4
<1>6. w[b + i].off = (i - 1) * Chunk /\ w[b + i].msg = m
  BY <1>4, <1>5 DEF CutOf
<1> QED
  BY <1>2, <1>5, <1>6

(* The sender at its end has put the whole message on the bus ...           *)
LEMMA EndIsWhole ==
  ASSUME NEW w \in Seq(Packets), NEW a, NEW t, NEW m, NEW s \in Senders, NEW e,
         NEW b \in Nat, NEW k \in Nat, SentSoFar(w, m, s, e, b, k), is_eom(s),
         a[m].len = s.len, m <= Len(t) => t[m].tag = s.tag % 8
  PROVE  WholeIn(w, a, t, m)
<1>1. Len(w) \in Nat /\ Len(w) = b + k /\ k >= 1 /\ (k - 1) * Chunk < s.len /\ s.len <= k * Chunk
  BY DEF SentSoFar
<1>2. b \in 0..Len(w) /\ k \in 1..Len(w)
  BY <1>1
<1>3. \A j \in 1..Len(w) : w[j].msg = m <=> j \in b + 1 .. b + k
  BY <1>1 DEF SentSoFar
<1>4. ASSUME NEW i \in 1..k PROVE CutOf(w, t, m, b, k, i)
  <2>1. 1 \in 1..k
    BY <1>1
  <2>2. /\ w[b + i].off = (i - 1) * Chunk /\ w[b + i].seq = (i - 1) % 4
        /\ w[b + i].som <=> i = 1
        /\ w[b + i].eom <=> i = k
        /\ w[b + i].src = e /\ w[b + i].tag = s.tag % 8
        /\ w[b + 1].src = e /\ w[b + 1].tag = s.tag % 8
    BY <2>1 DEF SentSoFar
  <2> QED
    BY <2>2 DEF CutOf
<1>5. CutsOf(w, a, t, m, b, k)
  BY <1>1, <1>3, <1>4 DEF CutsOf
<1> QED
  BY <1>2, <1>5 DEF WholeIn

(* ... and not before                                                       *)
LEMMA NotYetWhole ==
  ASSUME NEW w \in Seq(Packets), NEW a, NEW t, NEW m, NEW s \in Senders, NEW e,
         NEW b \in Nat, NEW k \in Nat, SentSoFar(w, m, s, e, b, k), ~is_eom(s)
  PROVE  ~WholeIn(w, a, t, m)
<1> SUFFICES ASSUME NEW c \in 0..Len(w), NEW n \in 1..Len(w), CutsOf(w, a, t, m, c, n)
             PROVE  FALSE
  BY DEF WholeIn
<1>1. Len(w) \in Nat /\ Len(w) = b + k
  BY DEF SentSoFar
<1>2. /\ c + n <= Len(w) /\ \A j \in 1..Len(w) : w[j].msg = m <=> j \in c + 1 .. c + n
      /\ CutOf(w, t, m, c, n, n)
  BY <1>1 DEF CutsOf
<1>3. c + n \in 1..Len(w) /\ c + n \in c + 1 .. c + n
  BY <1>1, <1>2
<1>4. w[c + n].msg = m /\ w[c + n].eom
  BY <1>2, <1>3 DEF CutOf
<1>5. c + n > b
  BY <1>3, <1>4 DEF SentSoFar
<1>6. PICK i \in 1..k : b + i = c + n
  <2>1. (c + n) - b \in 1..k /\ b + ((c + n) - b) = c + n
    BY <1>1, <1>2, <1>5
  <2> QED
    BY <2>1
<1>7. ~w[b + i].eom
  BY <1>6 DEF SentSoFar
<1> QED
  BY <1>4, <1>6, <1>7

(* A gap stays, whatever is sent next                                       *)
LEMMA GapKept ==
  ASSUME NEW w \in Seq(Packets), NEW v \in Seq(Packets), Len(w) <= Len(v),
         \A j \in 1..Len(w) : v[j] = w[j],
         NEW m, NEW s \in Senders, NEW r \in Senders, s.off <= r.off,
         \A j \in Len(w) + 1 .. Len(v) : v[j].msg = m => v[j].off >= s.off,
         Gap(w, m, s)
  PROVE  Gap(v, m, r)
<1>1. PICK i \in Nat \ {0} :
        /\ (i - 1) * Chunk < s.off
        /\ \A j \in 1..Len(w) : w[j].msg = m => w[j].off # (i - 1) * Chunk
  BY DEF Gap
<1>2. PICK x \in Nat : x = (i - 1) * Chunk
  <2>1. i - 1 \in Nat
    BY <1>1
  <2> QED
    BY <2>1, ChunkType
<1>3. Len(w) \in Nat /\ Len(v) \in Nat /\ s.off \in Nat /\ r.off \in Nat
  BY SenderFields
<1>4. x < r.off
  BY <1>1, <1>2, <1>3
<1>5. ASSUME NEW j \in 1..Len(v), v[j].msg = m PROVE v[j].off # x
  <2>1. CASE j <= Len(w)
    BY <1>1, <1>2, <1>3, <1>5, <2>1
  <2>2. CASE j > Len(w)
    <3>1. v[j].off >= s.off /\ x < s.off
      BY <1>1, <1>2, <1>3, <1>5, <2>2
    <3> QED
      BY <1>2, <1>3, <3>1
  <2> QED
    BY <1>3, <2>1, <2>2
<1> QED
  BY <1>1, <1>2, <1>4, <1>5 DEF Gap

(* A sender that is not at its end advances past s.off                      *)
LEMMA Advances ==
  ASSUME NEW s \in Senders, ~is_eom(s)
  PROVE  /\ s.off < s.len /\ s.off < Advanced(s).off /\ (is_eom(Advanced(s)) <=> Eom(s))
<1>1. /\ s.len \in Nat /\ s.off \in Nat /\ Advanced(s).off \in Nat /\ Advanced(s).len = s.len
      /\ Eom(s) => Advanced(s).off = s.len
      /\ ~Eom(s) => Advanced(s).off = s.off + Chunk
  BY SenderFields, AdvancedSender
<1> QED
  BY <1>1, ChunkType DEF is_eom, Eom

(* A packet that is refused leaves a gap                                    *)
LEMMA GapMade ==
  ASSUME NEW w \in Seq(Packets), NEW m, NEW s \in Senders, NEW e, NEW b \in Nat, NEW k \in Nat,
         SentSoFar(w, m, s, e, b, k), ~is_eom(s)
  PROVE  Gap(w, m, Advanced(s))
<1>1. Len(w) \in Nat /\ Len(w) = b + k /\ s.off = k * Chunk
  BY DEF SentSoFar
<1>2. k + 1 \in Nat \ {0} /\ (k + 1) - 1 = k
  OBVIOUS
<1>3. k * Chunk < Advanced(s).off
  BY <1>1, Advances
<1>4. ASSUME NEW j \in 1..Len(w), w[j].msg = m PROVE w[j].off # k * Chunk
  <2>1. j > b
    BY <1>4 DEF SentSoFar
  <2>2. PICK i \in 1..k : b + i = j
    <3>1. j - b \in 1..k /\ b + (j - b) = j
      BY <1>1, <2>1
    <3> QED
      BY <3>1
  <2>3. w[b + i].off = (i - 1) * Chunk
    BY DEF SentSoFar
  <2>4. PICK x \in Nat : x = i - 1
    OBVIOUS
  <2>5. x * Chunk < k * Chunk
    BY <2>2, <2>4, Products
  <2>6. x * Chunk \in Nat /\ k * Chunk \in Nat
    BY NextProduct
  <2> QED
    BY <2>2, <2>3, <2>4, <2>5, <2>6
<1> QED
  BY <1>2, <1>3, <1>4 DEF Gap

(* A packet more of the message                                             *)
LEMMA PacketAdds ==
  ASSUME NEW w \in Seq(Packets), NEW m, NEW s \in Senders, NEW e, NEW b \in Nat, NEW k \in Nat,
         SentSoFar(w, m, s, e, b, k), ~is_eom(s),
         NEW p \in Packets, p.msg = m, p.off = s.off, p.seq = s.seq, p.tag = s.tag % 8,
         p.som <=> s.off = 0, p.eom <=> Eom(s), p.src = e
  PROVE  SentSoFar(Append(w, p), m, Advanced(s), e, b, k + 1)
<1>1. PICK v : v = Append(w, p)
  OBVIOUS
<1>2. PICK r : r = Advanced(s)
  OBVIOUS
<1>3. /\ Len(w) \in Nat /\ Len(w) = b + k /\ s.off = k * Chunk /\ s.seq = k % 4
      /\ \A j \in 1..Len(w) : w[j].msg = m <=> j > b
      /\ \A i \in 1..k :
           /\ w[b + i].off = (i - 1) * Chunk /\ w[b + i].seq = (i - 1) % 4
           /\ w[b + i].som <=> i = 1
           /\ ~w[b + i].eom
           /\ w[b + i].src = e /\ w[b + i].tag = s.tag % 8
  BY DEF SentSoFar
<1>4. Len(v) = b + (k + 1) /\ v[b + (k + 1)] = p /\ \A j \in 1..b + k : v[j] = w[j]
  <2>1. Len(v) = Len(w) + 1 /\ v[Len(w) + 1] = p /\ \A j \in 1..Len(w) : v[j] = w[j]
    BY <1>1, Appended
  <2> QED
    BY <1>3, <2>1
<1>5. /\ r \in Senders /\ r.len = s.len /\ r.tag = s.tag /\ r.seq = (s.seq + 1) % 4
      /\ Eom(s) => r.off = s.len
      /\ ~Eom(s) => r.off = s.off + Chunk
      /\ is_eom(r) <=> Eom(s)
      /\ s.off < s.len /\ s.off \in Nat /\ s.len \in Nat
  BY <1>2, AdvancedSender, Advances, SenderFields
<1>6. \A j \in 1..Len(v) : v[j].msg = m <=> j > b
  BY <1>3, <1>4
<1>7. /\ (k + 1) * Chunk = k * Chunk + Chunk /\ k * Chunk \in Nat /\ (k + 1) - 1 = k
  BY NextProduct
<1>8. ASSUME NEW i \in 1..k + 1
      PROVE  /\ v[b + i].off = (i - 1) * Chunk /\ v[b + i].seq = (i - 1) % 4
             /\ v[b + i].som <=> i = 1
             /\ v[b + i].eom <=> (i = k + 1 /\ is_eom(r))
             /\ v[b + i].src = e /\ v[b + i].tag = r.tag % 8
  <2>1. CASE i \in 1..k
    <3>1. v[b + i] = w[b + i] /\ i # k + 1
      BY <1>4, <2>1
    <3> QED
      BY <1>3, <1>5, <2>1, <3>1
  <2>2. CASE i = k + 1
    <3>1. k * Chunk = 0 <=> i = 1
      <4>1. CASE k = 0
        BY <2>2, <4>1, NextProduct
      <4>2. CASE k > 0
        BY <2>2, <4>2, Products, NextProduct, ChunkType
      <4> QED
        BY <4>1, <4>2
    <3>2. p.off = (i - 1) * Chunk /\ p.seq = (i - 1) % 4
      BY <1>3, <1>7, <2>2
    <3>3. (p.som <=> i = 1) /\ (p.eom <=> is_eom(r)) /\ p.tag = r.tag % 8
      BY <1>3, <1>5, <3>1
    <3>4. v[b + i] = p
      BY <1>4, <2>2
    <3> QED
      BY <2>2, <3>2, <3>3, <3>4
  <2> QED
    BY <2>1, <2>2
<1>9. is_eom(r) => k + 1 >= 1 /\ ((k + 1) - 1) * Chunk < r.len /\ r.len <= (k + 1) * Chunk
  BY <1>3, <1>5, <1>7, ChunkType DEF Eom
<1>10. ~is_eom(r) => r.off = (k + 1) * Chunk
  BY <1>3, <1>5, <1>7
<1>11. r.seq = (k + 1) % 4
  <2>1. ((k % 4) + 1) % 4 = (k + 1) % 4
    OBVIOUS
  <2> QED
    BY <1>3, <1>5, <2>1
<1>12. SentSoFar(v, m, r, e, b, k + 1)
  BY <1>4, <1>6, <1>8, <1>9, <1>10, <1>11 DEF SentSoFar
<1> QED
  BY <1>1, <1>2, <1>12

(* A message that has not begun                                             *)
LEMMA NotBegun ==
  ASSUME NEW w \in Seq(Packets), NEW m, NEW s \in Senders, NEW e,
         \A j \in 1..Len(w) : w[j].msg # m, s.off = 0, s.seq = 0, s.len > 0
  PROVE  SentSoFar(w, m, s, e, Len(w), 0)
<1>1. Len(w) \in Nat /\ Len(w) = Len(w) + 0 /\ s.len \in Nat
  BY SenderFields
<1>2. ~is_eom(s)
  BY <1>1 DEF is_eom
<1>3. 0 = 0 * Chunk /\ 0 = 0 % 4
  BY NextProduct
<1> QED
  BY <1>1, <1>2, <1>3 DEF SentSoFar

(* Before the first packet the endpoint ID may change                       *)
LEMMA EidFree ==
  ASSUME NEW w, NEW m, NEW s, NEW e, NEW f, NEW b, SentSoFar(w, m, s, e, b, 0)
  PROVE  SentSoFar(w, m, s, f, b, 0)
  BY DEF SentSoFar

-----------------------------------------------------------------------------
(* The messages on the bus, step by step *)

(* The head of the list is on the bus whole and not yet reported            *)
Ahead == list # <<>> /\ is_eom(snd[Head(list)])

(* What a step may do: as long as nothing was refused it goes on so, or a   *)
(* packet of the head is refused; what was broken stays so, at its place    *)
Keeps ==
  /\ OnlyHead'
  /\ InStep => InStep' \/ (slow' /\ ~Ahead /\ told' = told /\ BrokenAt(Len(told))')
  /\ \A n \in 0..Len(told) : BrokenAt(n) => BrokenAt(n)'

(* send_next_packet of the head of l                                        *)
LEMMA HeadPacket ==
  ASSUME TypeOK, NEW l \in Seq(Drivers), NEW held \in BOOLEAN, ~held, send_next_packet(l, held),
         l # <<>>, ~is_eom(snd[Head(l)])
  PROVE  /\ snd' = [snd EXCEPT ![Head(l)] = Advanced(snd[Head(l)])]
         /\ \/ ~ibi /\ ibuf' /\ wire' = Append(wire, PacketOf(Head(l), snd[Head(l)]))
            \/ ibi /\ wire' = wire
<1>1. ibi \in BOOLEAN
  BY DEF TypeOK
<1>2. /\ snd' = [snd EXCEPT ![Head(l)] = Advanced(@)]
      /\ transmit(held)
      /\ wire' = IF Refused(held) THEN wire ELSE Append(wire, PacketOf(Head(l), snd[Head(l)]))
  BY DEF send_next_packet
<1> QED
  BY <1>1, <1>2 DEF transmit, Refused

LEMMA NoPacket ==
  ASSUME NEW l, NEW held \in BOOLEAN, ~held, send_next_packet(l, held),
         l = <<>> \/ is_eom(snd[Head(l)])
  PROVE  snd' = snd /\ wire' = wire
  BY DEF send_next_packet

(* In a step that leaves the messages that were reported as they are, what  *)
(* was broken stays broken                                                  *)
LEMMA BrokenKept ==
  ASSUME TxInv, TxInv', NEW n \in 0..Len(told), BrokenAt(n),
         Len(wire) <= Len(wire'), \A j \in 1..Len(wire) : wire'[j] = wire[j],
         \A j \in Len(wire) + 1 .. Len(wire') :
           /\ wire'[j].msg > Len(told)
           /\ wire'[j].msg = Len(told) + 1 =>
                list # <<>> /\ wire'[j].off >= snd[Head(list)].off,
         \A m \in 1..Len(acc) : acc'[m] = acc[m],
         \A m \in 1..Len(told) : told'[m] = told[m],
         \/ /\ Len(told') = Len(told)
            /\ list # <<>> => /\ list' # <<>> /\ Head(list') = Head(list)
                              /\ snd'[Head(list)].off >= snd[Head(list)].off
         \/ Len(told') = Len(told) + 1 /\ list # <<>>
  PROVE  BrokenAt(n)'
<1>1. TypeOK /\ Listed /\ Waiting
  BY DEF TxInv
<1>0. TypeOK'
  BY DEF TxInv
<1>2. /\ wire \in Seq(Packets) /\ wire' \in Seq(Packets) /\ Len(told) \in Nat /\ Len(acc) \in Nat
      /\ Len(wire) \in Nat /\ Len(wire') \in Nat /\ Len(told') \in Nat /\ Len(list) \in Nat
  <2>1. wire \in Seq(Packets) /\ wire' \in Seq(Packets) /\ list \in Seq(Drivers)
    BY <1>0, <1>1 DEF TypeOK
  <2>2. Len(told) \in Nat /\ Len(acc) \in Nat
    BY <1>1 DEF TypeOK
  <2>3. Len(told') \in Nat
    BY <1>0 DEF TypeOK
  <2> QED
    BY <2>1, <2>2, <2>3
<1>3. Len(told) <= Len(acc) /\ Len(told) <= Len(told')
  BY <1>1, <1>2 DEF Listed
<1>4. ASSUME NEW m \in 1..Len(told) PROVE Whole(m) <=> Whole(m)'
  <2>1. \A j \in Len(wire) + 1 .. Len(wire') : wire'[j].msg # m
    BY <1>2
  <2>2. acc'[m] = acc[m] /\ told'[m] = told[m] /\ m <= Len(told) /\ m <= Len(told')
    BY <1>2, <1>3
  <2>3. WholeIn(wire, acc, told, m) <=> WholeIn(wire', acc', told', m)
    BY <1>2, <2>1, <2>2, WholeKept
  <2> QED
    BY <2>3, WholeForms
<1>5. \A m \in 1..n : Whole(m)'
  BY <1>2, <1>4 DEF BrokenAt
<1>6. CASE n < Len(told)
  <2>1. n + 1 \in 1..Len(told) /\ ~Whole(n + 1)
    BY <1>2, <1>6 DEF BrokenAt
  <2>2. ~Whole(n + 1)'
    BY <1>4, <2>1
  <2>3. n < Len(told') /\ n # Len(told')
    BY <1>2, <1>3, <1>6
  <2> QED
    BY <1>5, <2>2, <2>3 DEF BrokenAt
<1>7. CASE n = Len(told)
  <2>1. list # <<>> /\ Gap(wire, Len(told) + 1, snd[Head(list)])
    BY <1>7 DEF BrokenAt
  <2>2. PICK h \in Drivers : h = Head(list)
    BY <1>1, <2>1, HeadListed
  <2>3. /\ snd[h] \in Senders /\ snd[h].off <= snd[h].len /\ Len(list) >= 1
        /\ acc[Len(told) + 1].len = snd[h].len
    BY <1>1, <2>1, <2>2, HeadListed
  <2>4. PICK s \in Senders : s = snd[h]
    BY <2>3
  <2>5. snd'[h] \in Senders
    BY <1>0 DEF TypeOK
  <2>6. PICK m \in Nat : m = Len(told) + 1
    BY <1>2
  <2>7. \A j \in Len(wire) + 1 .. Len(wire') : wire'[j].msg = m => wire'[j].off >= s.off
    BY <2>2, <2>4, <2>6
  <2>8. Gap(wire, m, s)
    BY <2>1, <2>2, <2>4, <2>6
  <2>9. CASE Len(told') = Len(told)
    <3>1. list' # <<>> /\ Head(list') = h /\ snd'[h].off >= s.off
      BY <1>2, <2>1, <2>2, <2>4, <2>9
    <3>2. PICK r \in Senders : r = snd'[h]
      BY <2>5
    <3>3. s.off <= r.off
      BY <3>1, <3>2, SenderFields
    <3>4. Gap(wire', m, r)
      BY <1>2, <2>7, <2>8, <3>3, GapKept
    <3>5. Gap(wire', Len(told') + 1, snd'[Head(list')])
      BY <2>6, <2>9, <3>1, <3>2, <3>4
    <3> QED
      BY <1>5, <1>7, <1>2, <2>9, <3>1, <3>5 DEF BrokenAt
  <2>10. CASE Len(told') = Len(told) + 1
    <3>1. s.off <= s.off
      BY SenderFields
    <3>2. Gap(wire', m, s)
      BY <1>2, <2>7, <2>8, <3>1, GapKept
    <3>3. m \in 1..Len(acc)
      BY <1>1, <1>2, <2>3, <2>6 DEF Listed
    <3>4. acc'[m].len = s.len
      BY <2>3, <2>4, <2>6, <3>3
    <3>5. ~WholeIn(wire', acc', told', m)
      BY <1>2, <2>3, <2>4, <3>2, <3>4, GapNotWhole
    <3>6. ~Whole(n + 1)'
      BY <1>7, <2>6, <3>5, WholeForms
    <3>7. n < Len(told') /\ n # Len(told')
      BY <1>2, <1>7, <2>10
    <3> QED
      BY <1>5, <3>6, <3>7 DEF BrokenAt
  <2> QED
    BY <2>9, <2>10
<1> QED
  BY <1>2, <1>6, <1>7

(* A packet of the head of the list, or none, and no report                 *)
LEMMA HeadKeeps ==
  ASSUME TxInv, TxInv', OnlyHead, NEW held \in BOOLEAN, ~held, send_next_packet(list, held),
         UNCHANGED <<slow, list, acc, told, eid>>, ibi => slow,
         InStep /\ list # <<>> => ~is_eom(snd[Head(list)])
  PROVE  Keeps
<1>1. TypeOK /\ Listed /\ Waiting /\ TypeOK'
  BY DEF TxInv
<1>2. /\ wire \in Seq(Packets) /\ list \in Seq(Drivers) /\ snd \in [Drivers -> Senders]
      /\ eid \in 0..254 /\ Len(wire) \in Nat
  BY <1>1 DEF TypeOK
<1>3. Len(told) \in Nat
  BY <1>1 DEF TypeOK
<1>4. CASE list = <<>> \/ is_eom(snd[Head(list)])
  <2>1. snd' = snd /\ wire' = wire
    BY <1>4, NoPacket
  <2>2. OnlyHead'
    BY <2>1 DEF OnlyHead
  <2>3. ASSUME InStep PROVE InStep'
    <3>1. list = <<>>
      BY <1>4, <2>3
    <3>2. \A m \in 1..Len(told) : Whole(m)
      BY <2>3 DEF InStep
    <3>3. \A m \in 1..Len(told') : Whole(m)'
      BY <2>1, <3>2, WholeForms
    <3>4. Len(list') <= 1 /\ list' = <<>>
      BY <2>3, <3>1 DEF InStep
    <3> QED
      BY <3>3, <3>4 DEF InStep
  <2>4. ASSUME NEW n \in 0..Len(told), BrokenAt(n) PROVE BrokenAt(n)'
    <3>1. list # <<>> => snd[Head(list)].off \in Nat
      BY <1>1, HeadListed, SenderFields
    <3> QED
      BY <1>2, <1>3, <2>1, <2>4, <3>1, BrokenKept
  <2> QED
    BY <2>2, <2>3, <2>4 DEF Keeps
<1>5. CASE ~(list = <<>> \/ is_eom(snd[Head(list)]))
  <2>1. PICK h \in Drivers : h = Head(list)
    BY <1>1, <1>5, HeadListed
  <2>2. PICK s \in Senders : s = snd[h]
    BY <1>2
  <2>3. /\ s.msg = Len(told) + 1 /\ s.off <= s.len /\ ~is_eom(s) /\ s.len = acc[Len(told) + 1].len
    BY <1>1, <1>5, <2>1, <2>2, HeadListed
  <2>4. PICK p : p = PacketOf(h, s)
    OBVIOUS
  <2>5. /\ p \in Packets /\ p.msg = s.msg /\ p.off = s.off /\ p.seq = s.seq /\ p.tag = s.tag % 8
        /\ (p.som <=> s.off = 0) /\ (p.eom <=> Eom(s)) /\ p.src = eid
    BY <1>2, <2>4, PacketFields
  <2>6. /\ snd' = [snd EXCEPT ![h] = Advanced(s)]
        /\ (~ibi /\ ibuf' /\ wire' = Append(wire, p)) \/ (ibi /\ wire' = wire)
    BY <1>1, <1>2, <1>5, <2>1, <2>2, <2>4, HeadPacket
  <2>7. /\ snd'[h] = Advanced(s) /\ Advanced(s).tag = s.tag /\ Advanced(s) \in Senders
        /\ s.off < Advanced(s).off /\ s.off \in Nat /\ Advanced(s).off \in Nat
    BY <1>2, <2>3, <2>6, AdvancedSender, Advances, SenderFields
  <2>8. /\ Len(wire') \in Nat /\ Len(wire) <= Len(wire') /\ \A j \in 1..Len(wire) : wire'[j] = wire[j]
        /\ \A j \in Len(wire) + 1 .. Len(wire') : wire'[j] = p
    <3>1. CASE wire' = wire
      BY <1>2, <3>1
    <3>2. CASE wire' = Append(wire, p)
      <4>1. /\ Len(wire') = Len(wire) + 1 /\ wire'[Len(wire) + 1] = p
            /\ \A j \in 1..Len(wire) : wire'[j] = wire[j]
        BY <1>2, <2>5, <3>2, Appended
      <4> QED
        BY <1>2, <4>1
    <3> QED
      BY <2>6, <3>1, <3>2
  <2>9. OnlyHead'
    <3>1. ASSUME NEW j \in 1..Len(wire')
          PROVE  \/ wire'[j].msg <= Len(told)
                 \/ /\ wire'[j].msg = Len(told) + 1
                    /\ wire'[j].tag = Advanced(s).tag % 8
      <4>1. CASE j <= Len(wire)
        <5>1. \/ wire[j].msg <= Len(told)
              \/ /\ wire[j].msg = Len(told) + 1
                 /\ wire[j].tag = snd[Head(list)].tag % 8
          BY <1>2, <2>8, <4>1 DEF OnlyHead
        <5> QED
          BY <1>2, <2>1, <2>2, <2>7, <2>8, <4>1, <5>1
      <4>2. CASE j > Len(wire)
        BY <1>2, <2>3, <2>5, <2>7, <2>8, <4>2
      <4> QED
        BY <1>2, <2>8, <4>1, <4>2
    <3> QED
      BY <1>5, <2>1, <2>7, <3>1 DEF OnlyHead
  <2>10. ASSUME NEW n \in 0..Len(told), BrokenAt(n) PROVE BrokenAt(n)'
    <3>1. \A j \in Len(wire) + 1 .. Len(wire') :
            /\ wire'[j].msg > Len(told)
            /\ wire'[j].off >= snd[Head(list)].off
      BY <1>3, <2>1, <2>2, <2>3, <2>5, <2>7, <2>8
    <3>2. snd'[Head(list)].off >= snd[Head(list)].off
      BY <2>1, <2>2, <2>7
    <3> QED
      BY <1>5, <2>8, <2>10, <3>1, <3>2, BrokenKept
  <2>11. ASSUME InStep
         PROVE  InStep' \/ (slow' /\ ~Ahead /\ told' = told /\ BrokenAt(Len(told))')
    <3>1. /\ \A m \in 1..Len(told) : Whole(m)
          /\ Len(list) <= 1 /\ (ibuf \/ defMux)
          /\ \E b, k \in Nat : SentSoFar(wire, Len(told) + 1, snd[Head(list)], eid, b, k)
      BY <1>5, <2>11 DEF InStep
    <3>2. PICK b \in Nat, k \in Nat : SentSoFar(wire, Len(told) + 1, s, eid, b, k)
      BY <2>1, <2>2, <3>1
    <3>3. ASSUME NEW m \in 1..Len(told) PROVE Whole(m)'
      <4>1. \A j \in Len(wire) + 1 .. Len(wire') : wire'[j].msg # m
        BY <1>3, <2>3, <2>5, <2>8
      <4>2. wire' \in Seq(Packets) /\ m <= Len(told)
        BY <1>1, <1>3 DEF TypeOK
      <4>3. WholeIn(wire, acc, told, m) <=> WholeIn(wire', acc', told', m)
        BY <1>2, <2>8, <4>1, <4>2, WholeKept
      <4> QED
        BY <3>1, <4>3, WholeForms
    <3>4. CASE ~ibi /\ ibuf' /\ wire' = Append(wire, p)
      <4>1. SentSoFar(wire', Len(told) + 1, Advanced(s), eid, b, k + 1)
        BY <1>2, <2>3, <2>5, <3>2, <3>4, PacketAdds
      <4>2. SentSoFar(wire', Len(told') + 1, snd'[Head(list')], eid', b, k + 1) /\ k + 1 \in Nat
        BY <2>1, <2>7, <4>1
      <4>3. InStep'
        BY <3>1, <3>3, <3>4, <4>2 DEF InStep
      <4> QED
        BY <4>3
    <3>5. CASE ibi /\ wire' = wire
      <4>1. Gap(wire', Len(told') + 1, snd'[Head(list')])
        BY <1>2, <2>1, <2>3, <2>7, <3>2, <3>5, GapMade
      <4>2. BrokenAt(Len(told))'
        BY <1>3, <1>5, <3>3, <4>1 DEF BrokenAt
      <4>3. ~Ahead
        BY <1>5 DEF Ahead
      <4> QED
        BY <3>5, <4>2, <4>3
    <3> QED
      BY <2>6, <3>4, <3>5
  <2> QED
    BY <2>9, <2>10, <2>11 DEF Keeps
<1> QED
  BY <1>4, <1>5

(* The head is done and reported, and the next one, if any, begins          *)
LEMMA DoneKeeps ==
  ASSUME TxInv, TxInv', OnlyHead, list # <<>>, is_eom(snd[Head(list)]),
         driver_send_done(Head(list)), list' = Tail(list), UNCHANGED <<slow, acc>>,
         NEW held \in BOOLEAN, ~held, send_next_packet(Tail(list), held)
  PROVE  Keeps
<1>1. TypeOK /\ Listed /\ Waiting
  BY DEF TxInv
<1>2. /\ wire \in Seq(Packets) /\ list \in Seq(Drivers) /\ snd \in [Drivers -> Senders]
      /\ eid \in 0..254 /\ Len(wire) \in Nat
  BY <1>1 DEF TypeOK
<1>3. Len(told) \in Nat
  BY <1>1 DEF TypeOK
<1>4. PICK h \in Drivers : h = Head(list)
  BY <1>1, HeadListed
<1>5. PICK s \in Senders : s = snd[h]
  BY <1>2
<1>6. /\ s.msg = Len(told) + 1 /\ acc[Len(told) + 1].len = s.len /\ is_eom(s)
      /\ Len(list) >= 1 /\ Len(list) \in Nat
  BY <1>1, <1>4, <1>5, HeadListed
<1>7. PICK l : l = Tail(list)
  OBVIOUS
<1>8. /\ l = list' /\ l \in Seq(Drivers) /\ Len(l) = Len(list) - 1
      /\ \A i \in 1..Len(l) : l[i] = list[i + 1]
  BY <1>7, HeadDone
<1>9. /\ Len(told') = Len(told) + 1 /\ told'[Len(told) + 1].tag = s.tag % 8
      /\ \A m \in 1..Len(told) : told'[m] = told[m]
  <2>1. PICK r : r = [msg |-> Len(told) + 1, app |-> acc[Len(told) + 1].app, tag |-> s.tag % 8]
    OBVIOUS
  <2>2. told' = Append(told, r)
    BY <1>4, <1>5, <2>1, HeadDone
  <2>3. PICK R : told \in Seq(R)
    BY <1>1 DEF TypeOK
  <2>4. r.tag = s.tag % 8
    BY <2>1
  <2> QED
    BY <2>2, <2>3, <2>4
<1>10. \A d \in Drivers : snd'[d].tag = snd[d].tag
  BY <1>1, <1>7, <1>8, SendNext
<1>11. /\ Len(wire') \in Nat /\ Len(wire) <= Len(wire') /\ \A j \in 1..Len(wire) : wire'[j] = wire[j]
       /\ \A j \in Len(wire) + 1 .. Len(wire') :
            /\ list' # <<>> /\ wire'[j].msg = Len(told) + 2
            /\ wire'[j].tag = snd'[Head(list')].tag % 8
       /\ l = <<>> => wire' = wire
  <2>1. CASE l = <<>> \/ is_eom(snd[Head(l)])
    <3>1. wire' = wire
      BY <1>7, <2>1, NoPacket
    <3> QED
      BY <1>2, <3>1
  <2>2. CASE ~(l = <<>> \/ is_eom(snd[Head(l)]))
    <3>1. Len(l) >= 1 /\ Head(l) = l[1] /\ Head(l) \in Drivers
      BY <1>8, <2>2
    <3>2. PICK g \in Drivers : g = Head(l)
      BY <3>1
    <3>3. g = list[2] /\ 2 \in 1..Len(list)
      BY <1>6, <1>8, <3>1, <3>2
    <3>4. snd[g].msg = Len(told) + 2
      BY <1>1, <3>3 DEF Listed
    <3>5. PICK p : p = PacketOf(g, snd[g])
      OBVIOUS
    <3>6. p \in Packets /\ p.msg = snd[g].msg /\ p.tag = snd[g].tag % 8
      BY <1>2, <3>5, PacketFields
    <3>7. wire' = Append(wire, p) \/ wire' = wire
      BY <1>1, <1>7, <1>8, <2>2, <3>2, <3>5, HeadPacket
    <3>8. CASE wire' = wire
      BY <1>2, <2>2, <3>8
    <3>9. CASE wire' = Append(wire, p)
      <4>1. /\ Len(wire') = Len(wire) + 1 /\ wire'[Len(wire) + 1] = p
            /\ \A j \in 1..Len(wire) : wire'[j] = wire[j]
        BY <1>2, <3>6, <3>9, Appended
      <4>2. p.tag = snd'[Head(list')].tag % 8 /\ list' # <<>>
        BY <1>8, <1>10, <2>2, <3>2, <3>6
      <4>3. \A j \in Len(wire) + 1 .. Len(wire') : wire'[j] = p
        BY <1>2, <4>1
      <4> QED
        BY <1>2, <2>2, <3>4, <3>6, <4>1, <4>2, <4>3
    <3> QED
      BY <3>7, <3>8, <3>9
  <2> QED
    BY <2>1, <2>2
<1>12. OnlyHead'
  <2>1. ASSUME NEW j \in 1..Len(wire')
        PROVE  \/ wire'[j].msg <= Len(told')
               \/ /\ list' # <<>> /\ wire'[j].msg = Len(told') + 1
                  /\ wire'[j].tag = snd'[Head(list')].tag % 8
    <3>1. CASE j <= Len(wire)
      <4>1. wire[j] \in Packets /\ wire'[j] = wire[j]
        BY <1>2, <1>11, <3>1
      <4>2. wire[j].msg \in Nat
        BY <4>1 DEF Packets
      <4>3. wire[j].msg <= Len(told) \/ wire[j].msg = Len(told) + 1
        BY <1>2, <1>11, <3>1 DEF OnlyHead
      <4> QED
        BY <1>3, <1>9, <4>1, <4>2, <4>3
    <3>2. CASE j > Len(wire)
      <4>1. j \in Len(wire) + 1 .. Len(wire') /\ Len(told') + 1 = Len(told) + 2
        BY <1>2, <1>3, <1>9, <1>11, <3>2
      <4> QED
        BY <1>11, <4>1
    <3> QED
      BY <1>2, <1>11, <3>1, <3>2
  <2> QED
    BY <2>1 DEF OnlyHead
<1>13. ASSUME NEW n \in 0..Len(told), BrokenAt(n) PROVE BrokenAt(n)'
  <2>1. \A j \in Len(wire) + 1 .. Len(wire') :
          wire'[j].msg > Len(told) /\ wire'[j].msg # Len(told) + 1
    BY <1>3, <1>11
  <2> QED
    BY <1>9, <1>11, <1>13, <2>1, BrokenKept
<1>14. ASSUME InStep PROVE InStep'
  <2>1. /\ \A m \in 1..Len(told) : Whole(m)
        /\ Len(list) <= 1
        /\ \E b, k \in Nat : SentSoFar(wire, Len(told) + 1, snd[Head(list)], eid, b, k)
    BY <1>14 DEF InStep
  <2>2. Len(l) = 0 /\ l = <<>> /\ wire' = wire
    BY <1>6, <1>8, <1>11, <2>1
  <2>3. ASSUME NEW m \in 1..Len(told) PROVE Whole(m)'
    <3>1. \A j \in Len(wire) + 1 .. Len(wire') : wire'[j].msg # m
      BY <1>2, <2>2
    <3>2. m <= Len(told) /\ m <= Len(told') /\ wire' \in Seq(Packets)
      BY <1>2, <1>3, <1>9, <2>2
    <3>3. WholeIn(wire, acc, told, m) <=> WholeIn(wire', acc', told', m)
      BY <1>2, <1>9, <1>11, <3>1, <3>2, WholeKept
    <3> QED
      BY <2>1, <3>3, WholeForms
  <2>4. ASSUME NEW m \in Nat, m = Len(told) + 1 PROVE Whole(m)'
    <3>1. PICK b \in Nat, k \in Nat : SentSoFar(wire, Len(told) + 1, s, eid, b, k)
      BY <1>4, <1>5, <2>1
    <3>2. WholeIn(wire', acc', told', m)
      BY <1>2, <1>6, <1>9, <2>2, <2>4, <3>1, EndIsWhole
    <3> QED
      BY <3>2, WholeForms
  <2>5. \A m \in 1..Len(told') : Whole(m)'
    BY <1>3, <1>9, <2>3, <2>4
  <2> QED
    BY <1>8, <2>2, <2>5 DEF InStep
<1> QED
  BY <1>12, <1>13, <1>14 DEF Keeps

(* A message is handed over                                                 *)
LEMMA SendKeeps ==
  ASSUME TxInv, TxInv', OnlyHead, NEW d \in Drivers, NEW a \in Apps, NEW len \in Lens,
         NEW owner \in BOOLEAN, NEW tag \in Tags, send_msg_payload(d, a, len, owner, tag)
  PROVE  Keeps
<1>1. TypeOK /\ Listed /\ Waiting /\ TypeOK'
  BY DEF TxInv
<1>2. /\ wire \in Seq(Packets) /\ list \in Seq(Drivers) /\ snd \in [Drivers -> Senders]
      /\ Len(wire) \in Nat /\ Len(list) \in Nat
  BY <1>1 DEF TypeOK
<1>3. Len(told) \in Nat
  BY <1>1 DEF TypeOK
<1>4. PICK s : s = NewMessage(len, owner, tag)
  OBVIOUS
<1>5. s \in Senders /\ s.len = len /\ s.off = 0 /\ s.seq = 0 /\ s.len > 0
  BY <1>1, <1>4, NewMessageType, TxAssumption
<1>6. /\ d \in kbuf /\ snd' = [snd EXCEPT ![d] = s] /\ list' = Append(list, d)
      /\ acc' = Append(acc, [by |-> d, app |-> a, len |-> len])
      /\ UNCHANGED <<slow, wire, told, eid>> /\ ~ibuf /\ ~defMux
      /\ list = <<>> => defMux'
  BY <1>4 DEF send_msg_payload, add_sender, ProcessRuns
<1>7. \A m \in 1..Len(acc) : acc'[m] = acc[m]
  <2>1. PICK R : acc \in Seq(R)
    BY <1>1 DEF TypeOK
  <2> QED
    BY <1>6, <2>1
<1>8. list # <<>> => /\ list' # <<>> /\ Head(list') = Head(list)
                     /\ snd'[Head(list)] = snd[Head(list)]
  <2>1. list # <<>> => Head(list) \in Drivers /\ Head(list) \notin kbuf
    BY <1>1, HeadListed
  <2>2. list # <<>> => list' # <<>> /\ Head(list') = Head(list)
    BY <1>2, <1>6
  <2> QED
    BY <1>2, <1>6, <2>1, <2>2
<1>9. OnlyHead'
  BY <1>6, <1>8 DEF OnlyHead
<1>10. ASSUME NEW n \in 0..Len(told), BrokenAt(n) PROVE BrokenAt(n)'
  <2>1. list # <<>> => snd[Head(list)].off \in Nat
    BY <1>1, HeadListed, SenderFields
  <2>2. list # <<>> => snd'[Head(list)].off >= snd[Head(list)].off
    BY <1>8, <2>1
  <2>3. Len(wire') = Len(wire) /\ Len(told') = Len(told)
    BY <1>6
  <2> QED
    BY <1>2, <1>6, <1>7, <1>8, <1>10, <2>2, <2>3, BrokenKept
<1>11. ASSUME InStep PROVE InStep'
  <2>1. list = <<>> /\ \A m \in 1..Len(told) : Whole(m)
    BY <1>6, <1>11 DEF InStep
  <2>2. Len(list') = 1 /\ Head(list') = d /\ snd'[d] = s
    BY <1>2, <1>6, <2>1
  <2>3. ASSUME NEW m \in 1..Len(told') PROVE Whole(m)'
    <3>1. m \in 1..Len(told) /\ m <= Len(told) /\ m \in 1..Len(acc)
      <4>1. Len(acc) = Len(told) + Len(list) /\ Len(list) = 0
        BY <1>1, <2>1 DEF Listed
      <4> QED
        BY <1>3, <1>6, <4>1
    <3>2. acc'[m].len = acc[m].len
      BY <1>7, <3>1
    <3>3. PICK t : t = told
      OBVIOUS
    <3>4. \A j \in Len(wire) + 1 .. Len(wire) : wire[j].msg # m
      BY <1>2
    <3>5. WholeIn(wire, acc, t, m) <=> WholeIn(wire, acc', t, m)
      BY <1>2, <3>1, <3>2, <3>3, <3>4, WholeKept
    <3>6. Whole(m)
      BY <2>1, <3>1
    <3> QED
      BY <1>6, <3>3, <3>5, <3>6, WholeForms
  <2>4. \A j \in 1..Len(wire) : wire[j].msg # Len(told) + 1
    <3>1. ASSUME NEW j \in 1..Len(wire) PROVE wire[j].msg # Len(told) + 1
      <4>1. wire[j].msg <= Len(told)
        BY <2>1 DEF OnlyHead
      <4>2. wire[j] \in Packets
        BY <1>2
      <4>3. wire[j].msg \in Nat
        BY <4>2 DEF Packets
      <4> QED
        BY <1>3, <4>1, <4>3
    <3> QED
      BY <3>1
  <2>5. SentSoFar(wire, Len(told) + 1, s, eid, Len(wire), 0)
    BY <1>2, <1>5, <2>4, NotBegun
  <2>6. SentSoFar(wire', Len(told') + 1, snd'[Head(list')], eid', Len(wire), 0)
    BY <1>6, <2>2, <2>5
  <2> QED
    BY <1>2, <1>6, <2>1, <2>2, <2>3, <2>6 DEF InStep
<1> QED
  BY <1>9, <1>10, <1>11 DEF Keeps

(* Neither the list nor a driver's packet is touched                        *)
LEMMA QuietKeeps ==
  ASSUME TxInv, TxInv', OnlyHead, UNCHANGED <<slow, list, snd, defMux, wire, acc, told>>,
         ibuf => ibuf' /\ eid' = eid
  PROVE  Keeps
<1>1. TypeOK /\ Listed /\ Waiting
  BY DEF TxInv
<1>2. OnlyHead'
  BY DEF OnlyHead
<1>3. ASSUME NEW n \in 0..Len(told), BrokenAt(n) PROVE BrokenAt(n)'
  BY <1>3 DEF BrokenAt, Whole, Cuts, Cut
<1>4. ASSUME InStep PROVE InStep'
  <2>1. \A m \in 1..Len(told') : Whole(m)'
    BY <1>4, WholeForms DEF InStep
  <2>2. ASSUME list # <<>>
        PROVE  /\ ibuf' \/ defMux'
               /\ \E b, k \in Nat :
                    /\ SentSoFar(wire, Len(told) + 1, snd[Head(list)], eid', b, k)
                    /\ k > 0 => ibuf'
    <3>1. PICK b \in Nat, k \in Nat :
            SentSoFar(wire, Len(told) + 1, snd[Head(list)], eid, b, k) /\ (k > 0 => ibuf)
      BY <1>4, <2>2 DEF InStep
    <3>2. ibuf' \/ defMux'
      BY <1>4, <2>2 DEF InStep
    <3>3. CASE k = 0
      <4>1. SentSoFar(wire, Len(told) + 1, snd[Head(list)], eid', b, k)
        BY <3>1, <3>3, EidFree
      <4> QED
        BY <3>2, <3>3, <4>1
    <3>4. CASE k > 0
      BY <3>1, <3>2, <3>4
    <3> QED
      BY <3>3, <3>4
  <2>3. Len(list') <= 1
    BY <1>4 DEF InStep
  <2> QED
    BY <2>1, <2>2, <2>3 DEF InStep
<1> QED
  BY <1>2, <1>3, <1>4 DEF Keeps

LEMMA StepKeeps ==
  ASSUME TxInv, TxInv', OnlyHead, [Next]_vars
  PROVE  Keeps
<1>1. TypeOK /\ Listed /\ Waiting /\ Bus
  BY DEF TxInv
<1>2. PICK held \in BOOLEAN : held = FALSE
  OBVIOUS
<1>3. ASSUME NEW d \in Drivers, Send(d) PROVE Keeps
  BY <1>3, SendKeeps DEF Send
<1>4. ASSUME NEW d \in Drivers, NEW a \in Apps, Refuse(d, a) PROVE Keeps
  BY <1>4, QuietKeeps DEF Refuse, vars, muxVars, i3cVars, history
<1>5. ASSUME I3cDeferred PROVE Keeps
  <2>1. UNCHANGED <<slow, eid, acc>> /\ (ibi => slow)
    BY <1>1, <1>5 DEF I3cDeferred, TypeOK
  <2>2. CASE list # <<>> /\ is_eom(snd[Head(list)])
    <3>1. /\ list' = Tail(list) /\ driver_send_done(Head(list)) /\ send_next_packet(Tail(list), held)
      BY <1>2, <1>5, <2>2 DEF I3cDeferred, LastSent
    <3> QED
      BY <1>2, <2>1, <2>2, <3>1, DoneKeeps
  <2>3. CASE ~(list # <<>> /\ is_eom(snd[Head(list)]))
    <3>1. list' = list /\ told' = told /\ send_next_packet(list, held)
      BY <1>2, <1>5, <2>3 DEF I3cDeferred, LastSent
    <3> QED
      BY <1>2, <2>1, <2>3, <3>1, HeadKeeps
  <2> QED
    BY <2>2, <2>3
<1>6. ASSUME MuxDeferred PROVE Keeps
  <2>1. UNCHANGED <<slow, list, eid, acc, told>> /\ ~ibuf /\ txbuf /\ (ibi => slow)
    BY <1>1, <1>6 DEF MuxDeferred, Bus, TypeOK
  <2>2. send_next_packet(list, held)
    <3>1. send_next_packet(list, ibuf)
      BY <1>6, <2>1 DEF MuxDeferred
    <3> QED
      BY <1>1, <1>2, <2>1, <3>1 DEF send_next_packet, transmit, Refused, TypeOK
  <2>3. ASSUME InStep, list # <<>> PROVE ~is_eom(snd[Head(list)])
    <3>1. PICK b \in Nat, k \in Nat :
            SentSoFar(wire, Len(told) + 1, snd[Head(list)], eid, b, k) /\ (k > 0 => ibuf)
      BY <2>3 DEF InStep
    <3>2. k = 0
      BY <2>1, <3>1
    <3> QED
      BY <3>1, <3>2 DEF SentSoFar
  <2> QED
    BY <1>2, <2>1, <2>2, <2>3, HeadKeeps
<1>7. ASSUME NEW ok \in BOOLEAN, IbiDone(ok) PROVE Keeps
  BY <1>7, QuietKeeps DEF IbiDone, muxVars, history
<1>8. ASSUME NEW kind, NEW e \in Eids \cup {0}, ControlRequest(kind, e) PROVE Keeps
  <2>1. UNCHANGED <<slow, list, snd, defMux, wire, acc, told>>
    BY <1>8 DEF ControlRequest
  <2>2. ASSUME ibuf PROVE ibuf' /\ eid' = eid
    <3>1. ~txbuf
      BY <1>1, <2>2 DEF Bus
    <3> QED
      BY <1>8, <2>2, <3>1 DEF ControlRequest, Assigned, i3cVars
  <2> QED
    BY <2>1, <2>2, QuietKeeps
<1>9. ASSUME UNCHANGED vars PROVE Keeps
  BY <1>9, QuietKeeps DEF vars, muxVars, i3cVars, history
<1> QED
  BY <1>3, <1>4, <1>5, <1>6, <1>7, <1>8, <1>9 DEF Next, ControlStep

LEMMA DeliveryInit == Init => Delivery
<1> SUFFICES ASSUME Init PROVE Delivery
  OBVIOUS
<1>1. Len(wire) = 0 /\ Len(told) = 0 /\ list = <<>> /\ Len(list) = 0
  BY DEF Init
<1> QED
  BY <1>1 DEF Delivery, OnlyHead, InStep

LEMMA DeliveryStep ==
  ASSUME TxInv, TxInv', Delivery, [Next]_vars
  PROVE  Delivery' /\ Keeps
<1>1. Keeps
  BY StepKeeps DEF Delivery
<1>2. slow' = slow
  BY DEF Next, Send, send_msg_payload, Refuse, I3cDeferred, MuxDeferred, IbiDone, ControlStep,
         ControlRequest, vars
<1>3. Len(told) \in Nat /\ Len(told') \in Nat /\ Len(told) <= Len(told')
  <2>1. Len(told) \in Nat /\ TypeOK'
    BY DEF TxInv, TypeOK
  <2>2. Len(told') \in Nat
    BY <2>1 DEF TypeOK
  <2>3. told' = told \/ \E r : told' = Append(told, r)
    BY DEF Next, Send, send_msg_payload, Refuse, I3cDeferred, driver_send_done, MuxDeferred,
           IbiDone, ControlStep, ControlRequest, vars, history
  <2>4. PICK R : told \in Seq(R)
    BY DEF TxInv, TypeOK
  <2> QED
    BY <2>1, <2>2, <2>3, <2>4
<1>4. CASE InStep
  <2>1. CASE InStep'
    BY <1>1, <2>1 DEF Keeps, Delivery
  <2>2. CASE slow' /\ told' = told /\ BrokenAt(Len(told))'
    <3>1. Broken'
      BY <1>3, <2>2 DEF Broken
    <3> QED
      BY <1>1, <3>1 DEF Keeps, Delivery
  <2> QED
    BY <1>1, <1>4, <2>1, <2>2 DEF Keeps
<1>5. CASE Broken
  <2>1. PICK n \in 0..Len(told) : BrokenAt(n)
    BY <1>5 DEF Broken
  <2>2. BrokenAt(n)' /\ n \in 0..Len(told') /\ slow'
    BY <1>1, <1>2, <1>3, <1>5, <2>1 DEF Keeps, Broken
  <2>3. Broken'
    BY <2>2 DEF Broken
  <2> QED
    BY <1>1, <2>3 DEF Keeps, Delivery
<1> QED
  BY <1>1, <1>4, <1>5 DEF Delivery

-----------------------------------------------------------------------------
(* The queue of messages *)

(* What Sent is                                                             *)
OutIs(n) ==
  /\ n \in 0..Len(acc)
  /\ \A m \in 1..n : Whole(m)
  /\ n < Len(acc) => ~Whole(n + 1)

LEMMA SentIs ==
  ASSUME NEW n, Len(acc) \in Nat, OutIs(n)
  PROVE  Sent = n
<1>1. ASSUME NEW k, OutIs(k) PROVE k = n
  <2>1. k \in 0..Len(acc) /\ n \in 0..Len(acc)
    BY <1>1 DEF OutIs
  <2>2. CASE k < n
    <3>1. k < Len(acc) /\ k + 1 \in 1..n
      BY <2>1, <2>2
    <3> QED
      BY <1>1, <3>1 DEF OutIs
  <2>3. CASE n < k
    <3>1. n < Len(acc) /\ n + 1 \in 1..k
      BY <2>1, <2>3
    <3> QED
      BY <1>1, <3>1 DEF OutIs
  <2> QED
    BY <2>1, <2>2, <2>3
<1>2. Sent = CHOOSE k : OutIs(k)
  BY DEF Sent, OutIs
<1>3. OutIs(CHOOSE k : OutIs(k))
  OBVIOUS
<1> QED
  BY <1>1, <1>2, <1>3

(* As long as nothing was refused, the messages reported and one that is    *)
(* whole and not yet reported are out; then those before the refused one    *)
OutKnown ==
  /\ InStep /\ Ahead => Sent = Len(told) + 1
  /\ InStep /\ ~Ahead => Sent = Len(told)
  /\ \A n \in 0..Len(told) : BrokenAt(n) => Sent = n

LEMMA OutFollows == TxInv => OutKnown
<1> SUFFICES ASSUME TxInv PROVE OutKnown
  OBVIOUS
<1>1. TypeOK /\ Listed /\ Waiting
  BY DEF TxInv
<1>2. Len(told) \in Nat /\ Len(list) \in Nat /\ Len(acc) \in Nat
  BY <1>1 DEF TypeOK
<1>3. Len(acc) = Len(told) + Len(list)
  BY <1>1 DEF Listed
<1>4. wire \in Seq(Packets) /\ (list = <<>> => Len(list) = 0)
  BY <1>1 DEF TypeOK
<1>5. PICK m \in Nat : m = Len(told) + 1
  BY <1>2
<1>6. ASSUME InStep PROVE (Ahead => Sent = Len(told) + 1) /\ (~Ahead => Sent = Len(told))
  <2>1. Len(list) <= 1 /\ \A i \in 1..Len(told) : Whole(i)
    BY <1>6 DEF InStep
  <2>2. CASE list = <<>>
    <3>1. OutIs(Len(told)) /\ ~Ahead
      BY <1>2, <1>3, <1>4, <2>1, <2>2 DEF OutIs, Ahead
    <3> QED
      BY <1>2, <3>1, SentIs
  <2>3. CASE list # <<>>
    <3>1. PICK s \in Senders : s = snd[Head(list)]
      BY <1>1, <2>3, HeadListed
    <3>2. acc[m].len = s.len /\ Len(list) = 1
      <4>1. acc[m].len = s.len /\ Len(list) >= 1
        BY <1>1, <1>5, <2>3, <3>1, HeadListed
      <4>2. PICK k \in Nat : k = Len(list)
        BY <1>2
      <4>3. k = 1
        BY <2>1, <4>1, <4>2
      <4> QED
        BY <4>1, <4>2, <4>3
    <3>3. PICK b \in Nat, k \in Nat : SentSoFar(wire, m, s, eid, b, k)
      BY <1>5, <1>6, <2>3, <3>1 DEF InStep
    <3>4. ~(m <= Len(told)) /\ Len(acc) = m
      BY <1>2, <1>3, <1>5, <3>2
    <3>5. CASE is_eom(s)
      <4>1. Whole(m)
        BY <1>4, <3>2, <3>3, <3>4, <3>5, EndIsWhole, WholeForms
      <4>2. OutIs(m)
        BY <1>2, <1>5, <2>1, <3>4, <4>1 DEF OutIs
      <4>3. Sent = m /\ Ahead
        BY <1>2, <2>3, <3>1, <3>5, <4>2, SentIs DEF Ahead
      <4> QED
        BY <1>5, <4>3
    <3>6. CASE ~is_eom(s)
      <4>1. ~Whole(m)
        BY <1>4, <3>3, <3>6, NotYetWhole, WholeForms
      <4>2. OutIs(Len(told))
        BY <1>2, <1>5, <2>1, <3>4, <4>1 DEF OutIs
      <4>3. ~Ahead
        BY <3>1, <3>6 DEF Ahead
      <4> QED
        BY <1>2, <4>2, <4>3, SentIs
    <3> QED
      BY <3>5, <3>6
  <2> QED
    BY <2>2, <2>3
<1>7. ASSUME NEW n \in 0..Len(told), BrokenAt(n) PROVE Sent = n
  <2>1. CASE n < Len(told)
    <3>1. OutIs(n)
      BY <1>2, <1>3, <1>7, <2>1 DEF OutIs, BrokenAt
    <3> QED
      BY <1>2, <3>1, SentIs
  <2>2. CASE n = Len(told)
    <3>1. list # <<>> /\ Gap(wire, m, snd[Head(list)])
      BY <1>5, <1>7, <2>2 DEF BrokenAt
    <3>2. PICK s \in Senders : s = snd[Head(list)]
      BY <1>1, <3>1, HeadListed
    <3>3. acc[m].len = s.len /\ s.off <= s.len
      BY <1>1, <1>5, <3>1, <3>2, HeadListed
    <3>4. ~Whole(n + 1)
      BY <1>4, <1>5, <2>2, <3>1, <3>2, <3>3, GapNotWhole, WholeForms
    <3>5. OutIs(n)
      BY <1>2, <1>3, <1>7, <2>2, <3>4 DEF OutIs, BrokenAt
    <3> QED
      BY <1>2, <3>5, SentIs
  <2> QED
    BY <1>2, <2>1, <2>2
<1> QED
  BY <1>6, <1>7 DEF OutKnown

(* Sent does not move ...                                                   *)
LEMMA OutStays ==
  ASSUME TxInv, Delivery, Keeps, OutKnown, OutKnown', told' = told,
         InStep => (Ahead' <=> Ahead)
  PROVE  Sent' = Sent
<1>1. Len(told) \in Nat
  BY DEF TxInv, TypeOK
<1>2. CASE InStep
  <2>1. CASE InStep'
    BY <1>2, <2>1 DEF OutKnown
  <2>2. CASE ~Ahead /\ BrokenAt(Len(told))'
    <3>1. PICK n : n = Len(told)
      OBVIOUS
    <3>2. n \in 0..Len(told') /\ BrokenAt(n)'
      BY <1>1, <2>2, <3>1
    <3>3. Sent' = n
      BY <3>2 DEF OutKnown
    <3> QED
      BY <1>2, <2>2, <3>1, <3>3 DEF OutKnown
  <2> QED
    BY <1>2, <2>1, <2>2 DEF Keeps
<1>3. CASE Broken
  <2>1. PICK n \in 0..Len(told) : BrokenAt(n)
    BY <1>3 DEF Broken
  <2>2. BrokenAt(n)'
    BY <2>1 DEF Keeps
  <2> QED
    BY <2>1, <2>2 DEF OutKnown
<1> QED
  BY <1>2, <1>3 DEF Delivery

(* ... or by one, with the last packet of the head ...                      *)
LEMMA OutMoves ==
  ASSUME TxInv, Delivery, Keeps, OutKnown, OutKnown', told' = told, ~Ahead
  PROVE  Sent' = Sent \/ (Sent = Len(told) /\ Sent' = Len(told) + 1 /\ Ahead')
<1>1. CASE ~Ahead'
  BY <1>1, OutStays
<1>2. CASE Ahead' /\ InStep /\ InStep'
  BY <1>2 DEF OutKnown
<1>3. CASE ~(InStep /\ InStep')
  <2>1. Len(told) \in Nat
    BY DEF TxInv, TypeOK
  <2>2. CASE InStep
    <3>1. PICK n : n = Len(told)
      OBVIOUS
    <3>2. n \in 0..Len(told') /\ BrokenAt(n)'
      BY <1>3, <2>1, <2>2, <3>1 DEF Keeps
    <3>3. Sent' = n
      BY <3>2 DEF OutKnown
    <3> QED
      BY <2>2, <3>1, <3>3 DEF OutKnown
  <2>3. CASE ~InStep
    BY <2>3, OutStays
  <2> QED
    BY <2>2, <2>3
<1> QED
  BY <1>1, <1>2, <1>3

(* ... and not with the report                                              *)
LEMMA OutReported ==
  ASSUME TxInv, Delivery, Keeps, OutKnown, OutKnown', Ahead, Len(told') = Len(told) + 1,
         InStep => ~Ahead'
  PROVE  Sent' = Sent /\ (slow \/ Len(told) < Sent)
<1>1. Len(told) \in Nat
  BY DEF TxInv, TypeOK
<1>2. CASE InStep
  <2>1. InStep'
    BY <1>2 DEF Keeps
  <2>2. Sent = Len(told) + 1 /\ Sent' = Len(told) + 1
    BY <1>2, <2>1 DEF OutKnown
  <2> QED
    BY <1>1, <2>2
<1>3. CASE Broken
  <2>1. PICK n \in 0..Len(told) : BrokenAt(n)
    BY <1>3 DEF Broken
  <2>2. BrokenAt(n)' /\ n \in 0..Len(told')
    BY <1>1, <2>1 DEF Keeps
  <2>3. Sent = n /\ Sent' = n
    BY <2>1, <2>2 DEF OutKnown
  <2> QED
    BY <1>3, <2>3 DEF Broken
<1> QED
  BY <1>2, <1>3 DEF Delivery

LEMMA IsAppend ==
  ASSUME NEW S, NEW x \in Seq(S), NEW e \in S, NEW z \in Seq(S), Len(z) = Len(x) + 1,
         z[Len(x) + 1] = e, \A i \in 1..Len(x) : z[i] = x[i]
  PROVE  z = Append(x, e)
<1>1. PICK y : y = Append(x, e)
  OBVIOUS
<1>2. y \in Seq(S) /\ Len(y) = Len(x) + 1 /\ y[Len(x) + 1] = e /\ Len(x) \in Nat
  BY <1>1
<1>3. \A i \in 1..Len(x) : y[i] = x[i]
  BY <1>1
<1>4. \A i \in 1..Len(z) : z[i] = y[i]
  BY <1>2, <1>3
<1> QED
  BY <1>1, <1>2, <1>4, SeqEqual

(* The steps of the stack are steps of the queue                            *)
LEMMA QueueStep ==
  ASSUME TxInv, TxInv', Delivery, Keeps, OutKnown, OutKnown', [Next]_vars
  PROVE  [Queue!Next]_(Queue!vars)
<1>1. TypeOK /\ Listed /\ Waiting /\ Bus
  BY DEF TxInv
<1>2. Len(told) \in Nat /\ Len(list) \in Nat /\ Len(acc) \in Nat
  BY <1>1 DEF TypeOK
<1>3. Len(acc) = Len(told) + Len(list)
  BY <1>1 DEF Listed
<1>4. PICK held \in BOOLEAN : held = FALSE
  OBVIOUS
<1>5. ASSUME UNCHANGED <<slow, list, snd, acc, told>> PROVE UNCHANGED Queue!vars
  <2>1. Ahead' <=> Ahead
    BY <1>5 DEF Ahead
  <2>2. Sent' = Sent
    BY <1>5, <2>1, OutStays
  <2> QED
    BY <1>5, <2>2 DEF Queue!vars
<1>6. ASSUME UNCHANGED <<slow, acc, told>>, ~Ahead,
             Ahead' => list # <<>>
      PROVE  [Queue!Next]_(Queue!vars)
  <2>1. CASE Sent' = Sent
    BY <1>6, <2>1 DEF Queue!vars
  <2>2. CASE Sent = Len(told) /\ Sent' = Len(told) + 1 /\ Ahead'
    <3>1. Len(list) >= 1
      BY <1>1, <1>6, <2>2, HeadListed
    <3>2. PICK by : by = [m \in 1..Len(acc) |-> acc[m].by]
      OBVIOUS
    <3>3. Len(by) = Len(acc)
      BY <1>2, <3>2
    <3>4. Sent < Len(by) /\ Sent' = Sent + 1
      BY <1>2, <1>3, <2>2, <3>1, <3>3
    <3>5. Queue!Transmit
      BY <1>6, <3>2, <3>4 DEF Queue!Transmit
    <3> QED
      BY <3>5 DEF Queue!Next
  <2> QED
    BY <1>6, <2>1, <2>2, OutMoves
<1>7. ASSUME NEW d \in Drivers, NEW a \in Apps, NEW len \in Lens, NEW owner \in BOOLEAN,
             NEW tag \in Tags, send_msg_payload(d, a, len, owner, tag)
      PROVE  Queue!Accept(d)
  <2>1. PICK r : r = [by |-> d, app |-> a, len |-> len]
    OBVIOUS
  <2>2. /\ d \in kbuf /\ list' = Append(list, d) /\ acc' = Append(acc, r) /\ told' = told
        /\ slow' = slow /\ snd' = [snd EXCEPT ![d] = NewMessage(len, owner, tag)]
        /\ ~ibuf /\ ~defMux
    BY <1>7, <2>1 DEF send_msg_payload, add_sender, ProcessRuns
  <2>3. Sent' = Sent
    <3>1. ASSUME InStep PROVE Ahead' <=> Ahead
      <4>1. list = <<>> /\ ~Ahead
        BY <2>2, <3>1 DEF InStep, Ahead
      <4>2. Head(list') = d
        BY <1>1, <2>2, <4>1 DEF TypeOK
      <4>3. snd'[d] = NewMessage(len, owner, tag)
        BY <1>1, <2>2 DEF TypeOK
      <4>4. ~is_eom(snd'[d])
        <5>1. snd'[d].off = 0 /\ snd'[d].len = len /\ len \in Nat /\ len > 0
          BY <1>1, <4>3, NewMessageType, TxAssumption
        <5> QED
          BY <5>1 DEF is_eom
      <4> QED
        BY <4>1, <4>2, <4>4 DEF Ahead
    <3> QED
      BY <2>2, <3>1, OutStays
  <2>4. PICK by : by = [m \in 1..Len(acc) |-> acc[m].by]
    OBVIOUS
  <2>5. PICK by1 : by1 = [m \in 1..Len(acc') |-> acc'[m].by]
    OBVIOUS
  <2>6. PICK R : acc \in Seq(R)
    BY <1>1 DEF TypeOK
  <2>7. /\ Len(acc') = Len(acc) + 1 /\ acc'[Len(acc) + 1] = r
        /\ \A m \in 1..Len(acc) : acc'[m] = acc[m]
    BY <2>2, <2>6
  <2>8. r.by = d
    BY <2>1
  <2>9. Len(by) = Len(acc) /\ by1 = Append(by, d)
    <3>1. \A m \in 1..Len(acc) : by1[m] = by[m]
      BY <1>2, <2>4, <2>5, <2>7
    <3>2. by1[Len(acc) + 1] = d
      BY <1>2, <2>5, <2>7, <2>8
    <3>3. by \in Seq(Drivers) /\ Len(by) = Len(acc)
      <4>1. \A m \in 1..Len(acc) : acc[m] \in [by : Drivers, app : Apps, len : Lens]
        BY <1>1, ElementOfSeq DEF TypeOK
      <4>2. \A m \in 1..Len(acc) : acc[m].by \in Drivers
        BY <4>1
      <4> QED
        BY <1>2, <2>4, <4>2
    <3>4. by1 \in Seq(Drivers) /\ Len(by1) = Len(acc) + 1
      <4>1. \A m \in 1..Len(acc) + 1 : by1[m] \in Drivers
        <5>1. \A m \in 1..Len(acc) : by[m] \in Drivers
          BY <3>3
        <5> QED
          BY <1>2, <3>1, <3>2, <5>1
      <4>2. by1 = [m \in 1..Len(acc) + 1 |-> by1[m]]
        BY <2>5, <2>7
      <4> QED
        BY <1>2, <4>1, <4>2
    <3> QED
      BY <1>2, <3>1, <3>2, <3>3, <3>4, IsAppend
  <2>10. ASSUME NEW i \in Len(told) + 1 .. Len(by) PROVE by[i] # d
    <3>1. PICK k \in 1..Len(list) : i = Len(told) + k
      <4>1. i - Len(told) \in 1..Len(list) /\ i = Len(told) + (i - Len(told))
        BY <1>2, <1>3, <2>9
      <4> QED
        BY <4>1
    <3>2. list[k] \notin kbuf /\ acc[i].by = list[k]
      <4>1. /\ list[k] \notin kbuf
            /\ acc[i] = [by |-> list[k], app |-> current[list[k]], len |-> snd[list[k]].len]
        BY <1>1, <3>1 DEF Listed
      <4> QED
        BY <4>1
    <3>3. by[i] = acc[i].by
      BY <1>2, <2>4, <2>9
    <3> QED
      BY <2>2, <3>2, <3>3
  <2> QED
    BY <2>2, <2>3, <2>4, <2>5, <2>9, <2>10 DEF Queue!Accept
<1>8. ASSUME I3cDeferred PROVE [Queue!Next]_(Queue!vars)
  <2>1. UNCHANGED <<slow, acc>>
    BY <1>8 DEF I3cDeferred
  <2>2. CASE Ahead
    <3>1. /\ list # <<>> /\ list' = Tail(list) /\ driver_send_done(Head(list))
      BY <1>8, <2>2 DEF I3cDeferred, LastSent, Ahead
    <3>2. PICK r : told' = Append(told, r)
      BY <3>1, HeadDone
    <3>3. Len(told') = Len(told) + 1
      <4>1. PICK R : told \in Seq(R)
        BY <1>1 DEF TypeOK
      <4> QED
        BY <3>2, <4>1
    <3>4. ASSUME InStep PROVE ~Ahead'
      <4>1. Len(list) <= 1 /\ list \in Seq(Drivers)
        BY <1>1, <3>4 DEF InStep, TypeOK
      <4>2. list' = <<>>
        BY <3>1, <4>1
      <4> QED
        BY <4>2 DEF Ahead
    <3>5. Sent' = Sent /\ (slow \/ Len(told) < Sent)
      BY <2>2, <3>3, <3>4, OutReported
    <3>6. Len(list) >= 1
      BY <1>1, <3>1, HeadListed
    <3>7. PICK by : by = [m \in 1..Len(acc) |-> acc[m].by]
      OBVIOUS
    <3>8. Len(told) < Len(by)
      <4>1. Len(by) = Len(acc)
        BY <1>2, <3>7
      <4> QED
        BY <1>2, <1>3, <3>6, <4>1
    <3>9. Queue!Report
      BY <2>1, <3>3, <3>5, <3>7, <3>8 DEF Queue!Report
    <3> QED
      BY <3>9 DEF Queue!Next
  <2>3. CASE ~Ahead
    <3>1. list' = list /\ told' = told
      BY <1>8, <2>3 DEF I3cDeferred, LastSent, Ahead
    <3> QED
      BY <1>6, <2>1, <2>3, <3>1 DEF Ahead
  <2> QED
    BY <2>2, <2>3
<1>9. ASSUME MuxDeferred PROVE [Queue!Next]_(Queue!vars)
  <2>1. UNCHANGED <<slow, list, acc, told>> /\ ~ibuf /\ txbuf
    BY <1>1, <1>9 DEF MuxDeferred, Bus
  <2>2. CASE ~Ahead
    BY <1>6, <2>1, <2>2 DEF Ahead
  <2>3. CASE Ahead
    <3>1. send_next_packet(list, held)
      <4>1. send_next_packet(list, ibuf)
        BY <1>9, <2>1 DEF MuxDeferred
      <4> QED
        BY <1>1, <1>4, <2>1, <4>1 DEF send_next_packet, transmit, Refused, TypeOK
    <3>2. snd' = snd
      BY <1>4, <2>3, <3>1, NoPacket DEF Ahead
    <3> QED
      BY <1>5, <2>1, <3>2
  <2> QED
    BY <2>2, <2>3
<1>10. ASSUME \/ \E d \in Drivers, a \in Apps : Refuse(d, a)
              \/ \E ok \in BOOLEAN : IbiDone(ok)
              \/ ControlStep
              \/ UNCHANGED vars
       PROVE  UNCHANGED Queue!vars
  <2>1. UNCHANGED <<slow, list, snd, acc, told>>
    BY <1>10 DEF Refuse, IbiDone, ControlStep, ControlRequest, vars, muxVars, history
  <2> QED
    BY <1>5, <2>1
<1>11. ASSUME NEW d \in Drivers, Send(d) PROVE Queue!Next
  BY <1>7, <1>11 DEF Send, Queue!Next
<1> QED
  BY <1>8, <1>9, <1>10, <1>11 DEF Next

LEMMA QueueInit == Init => Queue!Init
<1> SUFFICES ASSUME Init PROVE Queue!Init
  OBVIOUS
<1>1. Len(wire) = 0 /\ Len(told) = 0 /\ Len(acc) = 0 /\ slow \in BOOLEAN
  BY DEF Init
<1>2. OutIs(0)
  BY <1>1 DEF OutIs
<1>3. Sent = 0
  BY <1>1, <1>2, SentIs
<1>4. [m \in 1..Len(acc) |-> acc[m].by] = <<>>
  BY <1>1
<1> QED
  BY <1>1, <1>3, <1>4 DEF Queue!Init

(* Every step of the stack is one of the queue, or leaves it as it is: the  *)
(* safety part of ImplementsQueue.  Messages go out whole and unmixed, in   *)
(* the order of the system calls, and each is reported once, after it went  *)
(* out; on a slow bus, where a packet may be refused and is never tried     *)
(* again, reports still come once and in order.                             *)
THEOREM StackIsQueue == Spec => Queue!Init /\ [][Queue!Next]_(Queue!vars)
<1>1. Init => TxInv /\ Delivery /\ Queue!Init
  BY TxInit, DeliveryInit, QueueInit
<1>2. TxInv /\ Delivery /\ [Next]_vars => TxInv' /\ Delivery' /\ Keeps
  BY TxStep, DeliveryStep
<1>3. TxInv => OutKnown
  BY OutFollows
<1>4. TxInv /\ TxInv' /\ Delivery /\ Keeps /\ OutKnown /\ OutKnown' /\ [Next]_vars
        => [Queue!Next]_(Queue!vars)
  BY QueueStep
<1> QED
  BY <1>1, <1>2, <1>3, <1>4, PTL DEF Spec
=============================================================================
