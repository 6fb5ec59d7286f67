----------------------------- MODULE MctpRxProofs -----------------------------
(***************************************************************************)
(* Receiving over MCTP, for any peers, processes and messages, whatever is *)
(* lost and mixed on the bus: no process is left waiting beside the        *)
(* message it waits for, and requests reach the processes in the order in  *)
(* which they came.                                                        *)
(***************************************************************************)
EXTENDS MctpRx, FiniteSetTheorems, SequenceTheorems, WellFoundedInduction, TLAPS

-----------------------------------------------------------------------------
(* The inductive invariant *)

Bounded == Len(msgs) <= MaxMsgs

(* A message that was delivered or is kept has ended before those that come *)
Past ==
  /\ \A i \in 1..Len(got) : got[i].time < Cardinality(Over)
  /\ \A t \in Types : buffered[t] # None =>
       buffered[t].time < Cardinality(Over) /\ buffered[t].type = t

(* While a request is kept at most one process waits for a request of its   *)
(* type, with the deferred call set; as long as one does, or the deferred   *)
(* call is not set, no later request has been delivered.                    *)
Order ==
  short \/
    \A t \in Types : buffered[t] # None /\ buffered[t].owner =>
      /\ t \notin deferred => req[t] = {}
      /\ \A a, b \in req[t] : a = b
      /\ req[t] # {} \/ t \notin deferred =>
           \A i \in 1..Len(got) :
             got[i].owner /\ got[i].type = t => got[i].time < buffered[t].time

RxInv == TypeOK /\ Bounded /\ Past /\ NoMissedMessage /\ Order /\ InOrder

-----------------------------------------------------------------------------
(* Sets and sequences *)

LEMMA HasLeast ==
  ASSUME NEW T, T \subseteq Nat, T # {}
  PROVE  \E x \in T : \A y \in T : x <= y
<1>1. PICK R : R = {ss \in Nat \X Nat : ss[1] < ss[2]}
  OBVIOUS
<1>2. IsWellFoundedOn(R, Nat)
  BY <1>1, NatLessThanWellFounded DEF OpToRel
<1>3. PICK x \in T : \A y \in T : ~ (<<y, x>> \in R)
  BY <1>2, WFMin
<1>4. ASSUME NEW y \in T PROVE x <= y
  <2>1. x \in Nat /\ y \in Nat
    OBVIOUS
  <2>2. y < x => <<y, x>> \in R
    BY <1>1, <2>1
  <2>3. ~(y < x)
    BY <1>3, <2>2
  <2> QED
    BY <2>1, <2>3
<1> QED
  BY <1>4

(* The first of the processes in s: one if there is any                     *)
LEMMA FirstOne ==
  ASSUME NEW s, s \subseteq Apps, NEW f, f = {a \in s : \A b \in s : a <= b}
  PROVE  /\ IsFiniteSet(f) /\ Cardinality(f) \in Nat /\ Cardinality(f) <= 1
         /\ f = {} => s = {} /\ Cardinality(f) = 0
         /\ f # {} => Cardinality(f) = 1
<1>1. CASE s = {}
  <2>1. f = {}
    BY <1>1
  <2> QED
    BY <1>1, <2>1, FS_EmptySet
<1>2. CASE s # {}
  <2>1. s \subseteq Nat
    BY DEF Apps
  <2>2. PICK x \in s : \A y \in s : x <= y
    BY <1>2, <2>1, HasLeast
  <2>3. f = {x}
    <3>1. \A a \in f : a = x
      BY <2>1, <2>2
    <3>2. x \in f
      BY <2>2
    <3> QED
      BY <3>1, <3>2
  <2> QED
    BY <2>3, FS_Singleton
<1> QED
  BY <1>1, <1>2

LEMMA SomeApps ==
  ASSUME NEW s, s \subseteq Apps
  PROVE  IsFiniteSet(s) /\ Cardinality(s) \in Nat
<1>1. IsFiniteSet(Apps)
  BY FS_Interval, RxAssumption DEF Apps
<1>2. IsFiniteSet(s)
  BY <1>1, FS_Subset
<1> QED
  BY <1>2, FS_CardinalityType

(* n copies of g behind q                                                   *)
LEMMA Copies ==
  ASSUME NEW S, NEW q \in Seq(S), NEW g \in S, NEW n \in Nat,
         NEW v, v = q \o [i \in 1..n |-> g]
  PROVE  /\ v \in Seq(S) /\ Len(q) \in Nat /\ Len(v) = Len(q) + n
         /\ \A i \in 1..Len(q) : v[i] = q[i]
         /\ \A i \in Len(q) + 1 .. Len(v) : v[i] = g
<1>1. PICK c : c = [i \in 1..n |-> g]
  OBVIOUS
<1>2. c \in Seq(S) /\ Len(c) = n /\ \A i \in 1..n : c[i] = g
  BY <1>1
<1>3. v = q \o c
  BY <1>1
<1>4. /\ v \in Seq(S) /\ Len(v) = Len(q) + Len(c) /\ Len(q) \in Nat
      /\ \A i \in 1..Len(q) + Len(c) : v[i] = IF i <= Len(q) THEN q[i] ELSE c[i - Len(q)]
  BY <1>2, <1>3, ConcatProperties
<1>5. ASSUME NEW i \in Len(q) + 1 .. Len(v) PROVE v[i] = g
  <2>1. i - Len(q) \in 1..n /\ v[i] = c[i - Len(q)]
    BY <1>2, <1>4
  <2> QED
    BY <1>2, <2>1
<1> QED
  BY <1>2, <1>4, <1>5

LEMMA GrowsBy ==
  ASSUME NEW S, NEW q \in Seq(S), NEW e \in S, NEW v, v = Append(q, e)
  PROVE  /\ v \in Seq(S) /\ Len(q) \in Nat /\ Len(v) = Len(q) + 1 /\ v[Len(q) + 1] = e
         /\ \A i \in 1..Len(q) : v[i] = q[i]
  OBVIOUS

-----------------------------------------------------------------------------
(* The messages that have ended *)

SentMessages == [src : Peers, type : Types, owner : BOOLEAN, tag : 0..NumTags - 1,
                 shape : Shapes, n : Packets]

LEMMA Basics ==
  ASSUME TypeOK
  PROVE  /\ msgs \in Seq(SentMessages) /\ nxt \in Seq(Nat) /\ Len(nxt) = Len(msgs)
         /\ Len(msgs) \in Nat /\ Known = 1..Len(msgs) /\ MaxMsgs \in Nat /\ NumTags \in Nat \ {0}
         /\ \A m \in Known : /\ msgs[m] \in SentMessages /\ nxt[m] \in Nat
                             /\ msgs[m].src \in Peers /\ msgs[m].type \in Types
                             /\ msgs[m].owner \in BOOLEAN /\ msgs[m].tag \in 0..NumTags - 1
                             /\ msgs[m].n \in Nat
<1>1. msgs \in Seq(SentMessages) /\ nxt \in Seq(Nat) /\ Len(nxt) = Len(msgs)
  BY DEF TypeOK, SentMessages
<1>2. Len(msgs) \in Nat /\ Known = 1..Len(msgs) /\ MaxMsgs \in Nat /\ NumTags \in Nat \ {0}
  BY <1>1, RxAssumption DEF Known
<1>3. ASSUME NEW m \in Known PROVE msgs[m] \in SentMessages /\ nxt[m] \in Nat
  BY <1>1, <1>2, <1>3, ElementOfSeq
<1>4. ASSUME NEW m \in Known
      PROVE  /\ msgs[m].src \in Peers /\ msgs[m].type \in Types
             /\ msgs[m].owner \in BOOLEAN /\ msgs[m].tag \in 0..NumTags - 1
             /\ msgs[m].n \in Nat
  BY <1>3, <1>4, RxAssumption DEF SentMessages
<1> QED
  BY <1>1, <1>2, <1>3, <1>4

LEMMA OverCount ==
  ASSUME TypeOK, Bounded
  PROVE  /\ IsFiniteSet(Over) /\ Cardinality(Over) \in Nat /\ Cardinality(Over) <= MaxMsgs
         /\ Over \subseteq Known
<1>1. Len(msgs) \in Nat /\ MaxMsgs \in Nat
  BY Basics
<1>2. /\ IsFiniteSet(1..Len(msgs)) /\ Cardinality(1..Len(msgs)) = Len(msgs)
  BY <1>1, FS_Interval
<1>3. Over \subseteq 1..Len(msgs)
  BY DEF Over
<1>4. IsFiniteSet(Over) /\ Cardinality(Over) <= Len(msgs)
  BY <1>2, <1>3, FS_Subset
<1>5. Cardinality(Over) \in Nat
  BY <1>4, FS_CardinalityType
<1> QED
  BY <1>1, <1>3, <1>4, <1>5 DEF Bounded, Known

(* A packet of m passes: m has ended with the last one                      *)
LEMMA PacketPasses ==
  ASSUME TypeOK, Bounded, NEW m \in Known, nxt[m] <= msgs[m].n,
         nxt' = [nxt EXCEPT ![m] = @ + 1], msgs' = msgs
  PROVE  /\ nxt' \in Seq(Nat) /\ Len(nxt') = Len(msgs')
         /\ Cardinality(Over') \in Nat /\ Cardinality(Over) <= Cardinality(Over')
         /\ nxt[m] = msgs[m].n => Cardinality(Over') = Cardinality(Over) + 1
<1>1. /\ nxt \in Seq(Nat) /\ Len(nxt) = Len(msgs) /\ Known = 1..Len(msgs)
      /\ nxt[m] \in Nat /\ msgs[m].n \in Nat
  BY Basics
<1>2. nxt' = [nxt EXCEPT ![m] = nxt[m] + 1]
  OBVIOUS
<1>3. nxt' \in Seq(Nat) /\ Len(nxt') = Len(nxt) /\ nxt'[m] = nxt[m] + 1
  BY <1>1, <1>2
<1>4. \A k \in Known : k # m => nxt'[k] = nxt[k]
  BY <1>1, <1>2
<1>5. IsFiniteSet(Over) /\ Cardinality(Over) \in Nat /\ m \notin Over
  BY <1>1, OverCount DEF Over
<1>6. CASE nxt[m] = msgs[m].n
  <2>1. Over' = Over \cup {m}
    BY <1>1, <1>3, <1>4, <1>6 DEF Over
  <2>2. Cardinality(Over \cup {m}) = Cardinality(Over) + 1
    BY <1>5, FS_AddElement
  <2> QED
    BY <1>1, <1>3, <1>5, <2>1, <2>2
<1>7. CASE nxt[m] # msgs[m].n
  <2>1. Over' = Over
    BY <1>1, <1>3, <1>4, <1>7 DEF Over
  <2> QED
    BY <1>1, <1>3, <1>5, <1>7, <2>1
<1> QED
  BY <1>6, <1>7

-----------------------------------------------------------------------------
(* What a driver has and gives *)

(* The sets of TypeOK, for the messages in K                                *)
TerminusOn(K) == [src : Peers, owner : BOOLEAN, tag : 0..NumTags - 1, seq : 0..3,
                  size : {"full", "last"}, chunks : Seq(K \X Nat)]
MessagesOn(K) == [type : Types, src : Peers, owner : BOOLEAN, tag : 0..NumTags - 1,
                  chunks : Seq(K \X Nat), time : 0..MaxMsgs]

LEMMA Forms ==
  /\ Terminus = TerminusOn(Known) /\ Terminus' = TerminusOn(Known')
  /\ Messages = MessagesOn(Known) /\ Messages' = MessagesOn(Known')
  BY DEF Terminus, Messages, TerminusOn, MessagesOn

LEMMA MessageFields ==
  ASSUME NEW K, NEW g \in MessagesOn(K)
  PROVE  /\ g.type \in Types /\ g.src \in Peers /\ g.owner \in BOOLEAN /\ g.tag \in 0..NumTags - 1
         /\ g.chunks \in Seq(K \X Nat) /\ g.time \in 0..MaxMsgs /\ g.time \in Nat
  BY RxAssumption DEF MessagesOn

LEMMA TerminusFields ==
  ASSUME NEW K, NEW a \in TerminusOn(K)
  PROVE  /\ a.src \in Peers /\ a.owner \in BOOLEAN /\ a.tag \in 0..NumTags - 1
         /\ a.seq \in 0..3 /\ a.size \in {"full", "last"} /\ a.chunks \in Seq(K \X Nat)
  BY DEF TerminusOn

(* With more messages sent everything keeps its type                        *)
LEMMA TypesGrow ==
  ASSUME NEW K, NEW L, K \subseteq L
  PROVE  TerminusOn(K) \subseteq TerminusOn(L) /\ MessagesOn(K) \subseteq MessagesOn(L)
<1>1. K \X Nat \subseteq L \X Nat
  OBVIOUS
<1>2. Seq(K \X Nat) \subseteq Seq(L \X Nat)
  BY <1>1, SeqMonotonic
<1> QED
  BY <1>2 DEF TerminusOn, MessagesOn

(* Give, to processes s that want g                                         *)
LEMMA Gives ==
  ASSUME TypeOK, NEW t \in Types, NEW g \in Messages, NEW s, s \subseteq Wants(t, g), Give(t, g, s)
  PROVE  /\ got' \in Seq(Messages) /\ Len(got) \in Nat /\ Len(got') = Len(got) + Cardinality(s)
         /\ \A i \in 1..Len(got) : got'[i] = got[i]
         /\ \A i \in Len(got) + 1 .. Len(got') : got'[i] = g
         /\ req' \in [Types -> SUBSET Apps]
         /\ rsp' \in [Types -> [Apps -> [tag : 0..NumTags - 1, eid : Peers] \cup {None}]]
         /\ \A u \in Types : req'[u] \subseteq req[u]
         /\ \A u \in Types, a \in Apps : rsp'[u][a] = rsp[u][a] \/ rsp'[u][a] = None
         /\ g.owner => req'[t] = req[t] \ s
         /\ s \subseteq Apps /\ Cardinality(s) \in Nat
<1>1. s \subseteq Apps /\ Cardinality(s) \in Nat
  BY SomeApps DEF Wants
<1>2. /\ got \in Seq(Messages) /\ req \in [Types -> SUBSET Apps]
      /\ rsp \in [Types -> [Apps -> [tag : 0..NumTags - 1, eid : Peers] \cup {None}]]
  BY DEF TypeOK
<1>3. /\ got' \in Seq(Messages) /\ Len(got) \in Nat /\ Len(got') = Len(got) + Cardinality(s)
      /\ \A i \in 1..Len(got) : got'[i] = got[i]
      /\ \A i \in Len(got) + 1 .. Len(got') : got'[i] = g
  <2>1. PICK n \in Nat : n = Cardinality(s)
    BY <1>1
  <2>2. got' = got \o [i \in 1..n |-> g]
    BY <2>1 DEF Give
  <2>3. PICK M : M = Messages
    OBVIOUS
  <2>4. PICK q \in Seq(M) : q = got
    BY <1>2, <2>3
  <2>5. PICK v : v = q \o [i \in 1..n |-> g]
    OBVIOUS
  <2>6. g \in M /\ v = got'
    BY <2>2, <2>3, <2>4, <2>5
  <2>7. /\ v \in Seq(M) /\ Len(q) \in Nat /\ Len(v) = Len(q) + n
        /\ \A i \in 1..Len(q) : v[i] = q[i]
        /\ \A i \in Len(q) + 1 .. Len(v) : v[i] = g
    BY <2>5, <2>6, Copies
  <2> QED
    BY <2>1, <2>3, <2>4, <2>6, <2>7
<1>4. g.owner \in BOOLEAN
  BY Forms, MessageFields
<1>5. CASE g.owner
  <2>1. req' = [req EXCEPT ![t] = req[t] \ s] /\ rsp' = rsp
    BY <1>5 DEF Give
  <2> QED
    BY <1>1, <1>2, <1>3, <2>1
<1>6. CASE ~g.owner
  <2>1. PICK R : R = [tag : 0..NumTags - 1, eid : Peers] \cup {None}
    OBVIOUS
  <2>2. rsp \in [Types -> [Apps -> R]] /\ None \in R
    BY <1>2, <2>1
  <2>3. PICK f : f = [a \in Apps |-> IF a \in s THEN None ELSE rsp[t][a]]
    OBVIOUS
  <2>4. f \in [Apps -> R] /\ \A a \in Apps : f[a] = rsp[t][a] \/ f[a] = None
    BY <2>2, <2>3
  <2>5. req' = req /\ rsp' = [rsp EXCEPT ![t] = f]
    BY <1>6, <2>3 DEF Give
  <2>6. /\ rsp' \in [Types -> [Apps -> R]]
        /\ \A u \in Types, a \in Apps : rsp'[u][a] = rsp[u][a] \/ rsp'[u][a] = None
    BY <2>2, <2>4, <2>5
  <2> QED
    BY <1>1, <1>2, <1>3, <1>6, <2>1, <2>5, <2>6
<1> QED
  BY <1>4, <1>5, <1>6

(* Nobody wants a message who did not want it before                        *)
LEMMA WantsShrink ==
  ASSUME NEW t \in Types, req'[t] \subseteq req[t],
         \A a \in Apps : rsp'[t][a] = rsp[t][a] \/ rsp'[t][a] = None,
         NEW g, Wants(t, g) = {}
  PROVE  \A a \in Apps : ~(IF g.owner THEN a \in req'[t] ELSE MatchesResponse(rsp'[t][a], g))
  BY DEF Wants, MatchesResponse

(* Nothing is delivered                                                     *)
LEMMA NoDelivery ==
  ASSUME RxInv, UNCHANGED <<req, rsp, buffered, deferred, history>>,
         msgs' \in Seq(SentMessages), nxt' \in Seq(Nat), Len(nxt') = Len(msgs'),
         Len(msgs) <= Len(msgs'), Len(msgs') <= MaxMsgs,
         terminus' \in [Types -> Terminus' \cup {None}],
         Cardinality(Over') \in Nat, Cardinality(Over) <= Cardinality(Over')
  PROVE  RxInv'
<1>1. /\ TypeOK /\ Bounded /\ Past /\ NoMissedMessage /\ Order /\ InOrder
      /\ got' = got /\ short' = short
  BY DEF RxInv, history
<1>2. Len(msgs) \in Nat /\ Len(msgs') \in Nat /\ Known \subseteq Known'
  BY <1>1, Basics DEF Known
<1>3. Messages \subseteq Messages'
  BY <1>2, Forms, TypesGrow
<1>4. TypeOK'
  <2>1. got' \in Seq(Messages')
    BY <1>1, <1>3, SeqMonotonic DEF TypeOK
  <2>2. buffered' \in [Types -> Messages' \cup {None}]
    BY <1>1, <1>3 DEF TypeOK
  <2>3. msgs' \in Seq([src : Peers, type : Types, owner : BOOLEAN, tag : 0..NumTags - 1,
                       shape : Shapes, n : Packets])
    BY DEF SentMessages
  <2> QED
    BY <1>1, <2>1, <2>2, <2>3 DEF TypeOK
<1>5. Past'
  <2>1. Cardinality(Over) \in Nat
    BY <1>1, OverCount
  <2>2. \A i \in 1..Len(got) : got[i].time \in Nat
    BY <1>1, Forms, MessageFields, ElementOfSeq DEF TypeOK
  <2>3. \A t \in Types : buffered[t] # None => buffered[t].time \in Nat
    BY <1>1, Forms, MessageFields DEF TypeOK
  <2> QED
    BY <1>1, <2>1, <2>2, <2>3 DEF Past
<1>6. NoMissedMessage' /\ Order' /\ InOrder' /\ Bounded'
  BY <1>1 DEF NoMissedMessage, Wants, Order, InOrder, Bounded
<1> QED
  BY <1>4, <1>5, <1>6 DEF RxInv

(* MCTPDriver::receive: to the first process that wants the message and has *)
(* room, or into the driver's buffer                                        *)
LEMMA Received ==
  ASSUME RxInv, NEW t \in Types, NEW g \in Messages, g.type = t, g.time = Cardinality(Over),
         NEW fits, driver_receive(t, g, fits), UNCHANGED <<msgs, deferred>>,
         nxt' \in Seq(Nat), Len(nxt') = Len(msgs'),
         terminus' \in [Types -> Terminus' \cup {None}],
         Cardinality(Over') = Cardinality(Over) + 1
  PROVE  RxInv'
<1>1. TypeOK /\ Bounded /\ Past /\ NoMissedMessage /\ Order /\ InOrder
  BY DEF RxInv
<1>2. PICK able : able = Wants(t, g) \cap fits
  OBVIOUS
<1>3. PICK s : s = {a \in able : \A b \in able : a <= b}
  OBVIOUS
<1>4. /\ Give(t, g, s) /\ buffered' = Kept(t, g, s)
      /\ short' = (short \/ able # Wants(t, g))
  BY <1>2, <1>3 DEF driver_receive
<1>5. s \subseteq Wants(t, g) /\ able \subseteq Wants(t, g) /\ able \subseteq Apps
  BY <1>2, <1>3 DEF Wants
<1>6. /\ Cardinality(s) \in Nat /\ Cardinality(s) <= 1
      /\ s = {} => able = {} /\ Cardinality(s) = 0
      /\ s # {} => Cardinality(s) = 1
  BY <1>3, <1>5, FirstOne
<1>7. /\ got' \in Seq(Messages) /\ Len(got) \in Nat /\ Len(got') = Len(got) + Cardinality(s)
      /\ \A i \in 1..Len(got) : got'[i] = got[i]
      /\ \A i \in Len(got) + 1 .. Len(got') : got'[i] = g
      /\ req' \in [Types -> SUBSET Apps]
      /\ rsp' \in [Types -> [Apps -> [tag : 0..NumTags - 1, eid : Peers] \cup {None}]]
      /\ \A u \in Types : req'[u] \subseteq req[u]
      /\ \A u \in Types, a \in Apps : rsp'[u][a] = rsp[u][a] \/ rsp'[u][a] = None
      /\ g.owner => req'[t] = req[t] \ s
  BY <1>1, <1>4, <1>5, Gives
<1>8. /\ buffered \in [Types -> Messages \cup {None}] /\ got \in Seq(Messages) /\ short \in BOOLEAN
  BY <1>1 DEF TypeOK
<1>9. /\ s = {} => buffered' = [buffered EXCEPT ![t] = g]
      /\ s # {} => buffered' = buffered
  BY <1>4 DEF Kept
<1>10. /\ \A u \in Types : u # t => buffered'[u] = buffered[u]
       /\ s # {} => buffered'[t] = buffered[t]
       /\ s = {} => buffered'[t] = g
       /\ buffered' \in [Types -> Messages \cup {None}]
  BY <1>8, <1>9
<1>11. short' \in BOOLEAN /\ (~short' => ~short /\ able = Wants(t, g))
  BY <1>4, <1>8
<1>12. Messages' = Messages /\ Known' = Known
  BY DEF Messages, Known
<1>13. TypeOK'
  BY <1>1, <1>7, <1>10, <1>11, <1>12 DEF TypeOK
<1>14. Cardinality(Over) \in Nat
  BY <1>1, OverCount
<1>15. ASSUME NEW i \in 1..Len(got)
       PROVE  /\ got'[i] = got[i] /\ got[i].time \in Nat /\ got[i].time < Cardinality(Over)
              /\ got[i].owner \in BOOLEAN
  <2>1. got[i] \in Messages
    BY <1>8, ElementOfSeq
  <2> QED
    BY <1>1, <1>7, <2>1, Forms, MessageFields DEF Past
<1>16. ASSUME NEW i \in 1..Len(got'), i \notin 1..Len(got)
       PROVE  got'[i] = g /\ i = Len(got) + 1 /\ s # {} /\ Len(got') = Len(got) + 1
  BY <1>6, <1>7, <1>16
<1>17. \A u \in Types : buffered[u] # None =>
         /\ buffered[u].time \in Nat /\ buffered[u].owner \in BOOLEAN
         /\ buffered[u].time < Cardinality(Over) /\ buffered[u].type = u
  BY <1>1, <1>8, Forms, MessageFields DEF Past
<1>18. g.owner \in BOOLEAN
  BY Forms, MessageFields
<1>19. Past'
  <2>1. ASSUME NEW i \in 1..Len(got') PROVE got'[i].time < Cardinality(Over')
    <3>1. CASE i \in 1..Len(got)
      BY <1>14, <1>15, <3>1
    <3>2. CASE i \notin 1..Len(got)
      BY <1>14, <1>16, <3>2
    <3> QED
      BY <3>1, <3>2
  <2>2. ASSUME NEW u \in Types, buffered'[u] # None
        PROVE  buffered'[u].time < Cardinality(Over') /\ buffered'[u].type = u
    <3>1. CASE buffered'[u] = buffered[u]
      BY <1>14, <1>17, <2>2, <3>1
    <3>2. CASE buffered'[u] # buffered[u]
      <4>1. u = t /\ buffered'[u] = g
        BY <1>10, <3>2
      <4> QED
        BY <1>14, <4>1
    <3> QED
      BY <3>1, <3>2
  <2> QED
    BY <2>1, <2>2 DEF Past
<1>20. NoMissedMessage'
  <2> SUFFICES ASSUME ~short', NEW u \in Types, buffered'[u] # None, u \notin deferred
               PROVE  \A a \in Apps : ~(IF buffered'[u].owner THEN a \in req'[u]
                                        ELSE MatchesResponse(rsp'[u][a], buffered'[u]))
    BY DEF NoMissedMessage, Wants, MatchesResponse
  <2>1. Wants(u, buffered'[u]) = {}
    <3>1. CASE buffered'[u] = buffered[u]
      BY <1>1, <1>11, <3>1 DEF NoMissedMessage
    <3>2. CASE buffered'[u] # buffered[u]
      BY <1>6, <1>10, <1>11, <3>2
    <3> QED
      BY <3>1, <3>2
  <2> QED
    BY <1>7, <2>1, WantsShrink
<1>21. g.owner => Wants(t, g) = req[t]
  <2>1. req[t] \subseteq Apps
    BY <1>1 DEF TypeOK
  <2> QED
    BY <2>1 DEF Wants
<1>22. Order'
  <2> SUFFICES ASSUME ~short', NEW u \in Types, buffered'[u] # None, buffered'[u].owner
               PROVE  /\ u \notin deferred => req'[u] = {}
                      /\ \A a, b \in req'[u] : a = b
                      /\ req'[u] # {} \/ u \notin deferred =>
                           \A i \in 1..Len(got') :
                             got'[i].owner /\ got'[i].type = u => got'[i].time < buffered'[u].time
    BY DEF Order
  <2>1. CASE buffered'[u] = buffered[u] /\ (u # t \/ s # {})
    <3>1. /\ u \notin deferred => req[u] = {}
          /\ \A a, b \in req[u] : a = b
          /\ req[u] # {} \/ u \notin deferred =>
               \A i \in 1..Len(got) :
                 got[i].owner /\ got[i].type = u => got[i].time < buffered[u].time
      BY <1>1, <1>11, <2>1 DEF Order
    <3>2. (u \notin deferred => req'[u] = {}) /\ \A a, b \in req'[u] : a = b
      BY <1>7, <3>1
    <3>3. ASSUME req'[u] # {} \/ u \notin deferred, NEW i \in 1..Len(got'),
                 got'[i].owner, got'[i].type = u
          PROVE  got'[i].time < buffered'[u].time
      <4>1. CASE i \in 1..Len(got)
        <5>1. req[u] # {} \/ u \notin deferred
          BY <1>7, <3>3
        <5> QED
          BY <1>15, <2>1, <3>1, <3>3, <4>1, <5>1
      <4>2. CASE i \notin 1..Len(got)
        <5>1. g.owner /\ u = t /\ s # {}
          BY <1>16, <3>3, <4>2
        <5>2. s \subseteq req[t] /\ req'[t] = req[t] \ s
          BY <1>5, <1>7, <1>21, <5>1
        <5>3. req'[t] = {} /\ req[t] # {}
          BY <3>1, <5>1, <5>2
        <5> QED
          BY <3>1, <3>3, <5>1, <5>3
      <4> QED
        BY <4>1, <4>2
    <3> QED
      BY <3>2, <3>3
  <2>2. CASE u = t /\ s = {}
    <3>1. buffered'[u] = g /\ Wants(t, g) = {} /\ g.owner
      BY <1>6, <1>10, <1>11, <2>2
    <3>2. req[t] = {} /\ req'[t] = {}
      BY <1>7, <1>21, <3>1
    <3>3. ASSUME NEW i \in 1..Len(got') PROVE got'[i].time < buffered'[u].time
      <4>1. i \in 1..Len(got)
        BY <1>16, <2>2
      <4> QED
        BY <1>15, <3>1, <4>1
    <3> QED
      BY <2>2, <3>2, <3>3
  <2> QED
    BY <1>10, <2>1, <2>2
<1>23. InOrder'
  <2> SUFFICES ASSUME ~short', NEW i \in 1..Len(got'), NEW j \in 1..Len(got'), i < j,
                      got'[i].owner, got'[j].owner, got'[i].type = got'[j].type
               PROVE  got'[i].time < got'[j].time
    BY DEF InOrder
  <2>1. i \in 1..Len(got)
    <3>1. ASSUME i \notin 1..Len(got) PROVE FALSE
      BY <1>7, <1>16, <3>1
    <3> QED
      BY <3>1
  <2>2. CASE j \in 1..Len(got)
    BY <1>1, <1>11, <1>15, <2>1, <2>2 DEF InOrder
  <2>3. CASE j \notin 1..Len(got)
    BY <1>15, <1>16, <2>1, <2>3
  <2> QED
    BY <2>2, <2>3
<1>24. Bounded'
  BY <1>1 DEF Bounded
<1> QED
  BY <1>13, <1>19, <1>20, <1>22, <1>23, <1>24 DEF RxInv

-----------------------------------------------------------------------------
(* Packets *)

LEMMA PacketFacts ==
  ASSUME TypeOK, NEW m \in Known, NEW p, p = Packet(m, nxt[m])
  PROVE  /\ p.msg = m /\ p.idx = nxt[m] /\ p.idx \in Nat /\ p.src \in Peers /\ p.owner \in BOOLEAN
         /\ p.tag \in 0..NumTags - 1 /\ p.seq \in Int /\ p.type \in Types
         /\ p.som \in BOOLEAN /\ p.eom \in BOOLEAN /\ p.own \in BOOLEAN
         /\ p.eom <=> nxt[m] = msgs[m].n
         /\ p.size # "small" => p.size \in {"full", "last"}
<1>1. /\ nxt[m] \in Nat /\ msgs[m].src \in Peers /\ msgs[m].type \in Types
      /\ msgs[m].owner \in BOOLEAN /\ msgs[m].tag \in 0..NumTags - 1 /\ msgs[m].n \in Nat
  BY Basics
<1>2. PICK z : z = IF nxt[m] = msgs[m].n THEN "last"
                   ELSE IF msgs[m].shape = "runt" THEN "small" ELSE "full"
  OBVIOUS
<1>3. z # "small" => z \in {"full", "last"}
  BY <1>2
<1>4. p = [msg |-> m, idx |-> nxt[m], src |-> msgs[m].src, own |-> msgs[m].shape # "foreign",
           owner |-> msgs[m].owner, tag |-> msgs[m].tag, seq |-> (nxt[m] - 1) % 4,
           som |-> nxt[m] = 1, eom |-> nxt[m] = msgs[m].n, type |-> msgs[m].type, size |-> z]
  BY <1>2 DEF Packet
<1>5. (nxt[m] - 1) % 4 \in Int
  BY <1>1
<1>6. /\ p.msg = m /\ p.idx = nxt[m] /\ p.src = msgs[m].src /\ p.owner = msgs[m].owner
      /\ p.tag = msgs[m].tag /\ p.seq = (nxt[m] - 1) % 4 /\ p.type = msgs[m].type /\ p.size = z
  BY <1>4
<1>7. /\ p.som = (nxt[m] = 1) /\ p.eom = (nxt[m] = msgs[m].n)
      /\ p.own = (msgs[m].shape # "foreign")
  BY <1>4
<1>8. /\ p.som \in BOOLEAN /\ p.eom \in BOOLEAN /\ p.own \in BOOLEAN
      /\ p.eom <=> nxt[m] = msgs[m].n
  BY <1>7
<1> QED
  BY <1>1, <1>3, <1>5, <1>6, <1>8

LEMMA StartedType ==
  ASSUME NEW K, NEW p, p.msg \in K, p.idx \in Nat, p.src \in Peers, p.owner \in BOOLEAN,
         p.tag \in 0..NumTags - 1, p.seq \in Int, p.size \in {"full", "last"}
  PROVE  Started(p) \in TerminusOn(K)
<1>1. (p.seq + 1) % 4 \in 0..3
  OBVIOUS
<1>2. <<p.msg, p.idx>> \in K \X Nat
  OBVIOUS
<1>3. <<<<p.msg, p.idx>>>> \in Seq(K \X Nat)
  BY <1>2
<1> QED
  BY <1>1, <1>3 DEF Started, TerminusOn

LEMMA ContinuedType ==
  ASSUME NEW K, NEW a \in TerminusOn(K), NEW p, p.msg \in K, p.idx \in Nat, p.seq \in Int
  PROVE  Continued(a, p) \in TerminusOn(K)
<1>1. (p.seq + 1) % 4 \in 0..3
  OBVIOUS
<1>2. <<p.msg, p.idx>> \in K \X Nat
  OBVIOUS
<1>3. a.chunks \in Seq(K \X Nat)
  BY TerminusFields
<1>4. Append(a.chunks, <<p.msg, p.idx>>) \in Seq(K \X Nat)
  BY <1>2, <1>3
<1> QED
  BY <1>1, <1>4 DEF Continued, TerminusOn

(* The receiver of type t has state a after the packet: end_receive with    *)
(* the last one                                                             *)
LEMMA DeliversRx ==
  ASSUME RxInv, NEW m \in Known, nxt[m] <= msgs[m].n, nxt' = [nxt EXCEPT ![m] = @ + 1],
         UNCHANGED <<msgs, deferred>>, NEW p, p = Packet(m, nxt[m]),
         NEW t \in Types, NEW a \in Terminus, NEW fits, Delivers(t, a, p, fits)
  PROVE  RxInv'
<1>1. TypeOK /\ Bounded
  BY DEF RxInv
<1>2. /\ nxt' \in Seq(Nat) /\ Len(nxt') = Len(msgs')
      /\ Cardinality(Over') \in Nat /\ Cardinality(Over) <= Cardinality(Over')
      /\ nxt[m] = msgs[m].n => Cardinality(Over') = Cardinality(Over) + 1
  BY <1>1, PacketPasses
<1>3. terminus \in [Types -> Terminus \cup {None}] /\ Terminus' = Terminus
  BY <1>1 DEF TypeOK, Terminus, Known
<1>4. (p.eom <=> nxt[m] = msgs[m].n) /\ p.eom \in BOOLEAN
  BY <1>1, PacketFacts
<1>5. CASE p.eom
  <2>1. terminus' = [terminus EXCEPT ![t] = None] /\ driver_receive(t, Assembled(t, a), fits)
    BY <1>5 DEF Delivers
  <2>2. terminus' \in [Types -> Terminus' \cup {None}]
    BY <1>3, <2>1
  <2>3. PICK g : g = Assembled(t, a)
    OBVIOUS
  <2>4. Cardinality(Over) \in 0..MaxMsgs
    BY <1>1, OverCount, Basics
  <2>5. /\ a.src \in Peers /\ a.owner \in BOOLEAN /\ a.tag \in 0..NumTags - 1
        /\ a.chunks \in Seq(Known \X Nat)
    BY Forms, TerminusFields
  <2>6. g \in Messages /\ g.type = t /\ g.time = Cardinality(Over)
    BY <2>3, <2>4, <2>5 DEF Assembled, Messages
  <2>7. driver_receive(t, g, fits)
    BY <2>1, <2>3
  <2> QED
    BY <1>2, <1>4, <1>5, <2>2, <2>6, <2>7, Received
<1>6. CASE ~p.eom
  <2>1. terminus' = [terminus EXCEPT ![t] = a] /\ UNCHANGED <<req, rsp, buffered, history>>
    BY <1>6 DEF Delivers
  <2>2. terminus' \in [Types -> Terminus' \cup {None}]
    BY <1>3, <2>1
  <2>3. msgs' \in Seq(SentMessages) /\ Len(msgs) <= Len(msgs') /\ Len(msgs') <= MaxMsgs
    BY <1>1, Basics DEF Bounded
  <2> QED
    BY <1>2, <2>1, <2>2, <2>3, NoDelivery
<1> QED
  BY <1>4, <1>5, <1>6

(* A packet that is dropped, or resets the receiver of type t               *)
LEMMA DroppedRx ==
  ASSUME RxInv, NEW m \in Known, nxt[m] <= msgs[m].n, nxt' = [nxt EXCEPT ![m] = @ + 1],
         UNCHANGED <<msgs, deferred, req, rsp, buffered, history>>,
         terminus' = terminus \/ \E t \in Types : terminus' = [terminus EXCEPT ![t] = None]
  PROVE  RxInv'
<1>1. TypeOK /\ Bounded
  BY DEF RxInv
<1>2. /\ nxt' \in Seq(Nat) /\ Len(nxt') = Len(msgs')
      /\ Cardinality(Over') \in Nat /\ Cardinality(Over) <= Cardinality(Over')
  BY <1>1, PacketPasses
<1>3. terminus \in [Types -> Terminus \cup {None}] /\ Terminus' = Terminus
  BY <1>1 DEF TypeOK, Terminus, Known
<1>4. terminus' \in [Types -> Terminus' \cup {None}]
  BY <1>3
<1>5. msgs' \in Seq(SentMessages) /\ Len(msgs) <= Len(msgs') /\ Len(msgs') <= MaxMsgs
  BY <1>1, Basics DEF Bounded
<1> QED
  BY <1>2, <1>4, <1>5, NoDelivery

LEMMA ArrivesRx ==
  ASSUME RxInv, NEW m \in Known, NEW fits, PacketArrives(m, fits)
  PROVE  RxInv'
<1>1. TypeOK /\ terminus \in [Types -> Terminus \cup {None}]
  BY DEF RxInv, TypeOK
<1>2. PICK p : p = Packet(m, nxt[m])
  OBVIOUS
<1>3. /\ nxt[m] <= msgs[m].n /\ nxt' = [nxt EXCEPT ![m] = @ + 1] /\ UNCHANGED <<msgs, deferred>>
      /\ p.som => process_first_packet(p, fits)
      /\ ~p.som => process_packet(p, fits)
  BY <1>2 DEF PacketArrives
<1>4. /\ p.msg = m /\ p.idx \in Nat /\ p.src \in Peers /\ p.owner \in BOOLEAN
      /\ p.tag \in 0..NumTags - 1 /\ p.seq \in Int /\ p.type \in Types
      /\ p.som \in BOOLEAN /\ p.own \in BOOLEAN
      /\ p.size # "small" => p.size \in {"full", "last"}
  BY <1>1, <1>2, PacketFacts
<1>5. CASE NoEffect
  BY <1>3, <1>5, DroppedRx DEF NoEffect
<1>6. CASE p.som /\ ~NoEffect
  <2>1. p.size # "small" /\ Delivers(p.type, Started(p), p, fits)
    BY <1>3, <1>6 DEF process_first_packet
  <2>2. Started(p) \in Terminus
    BY <1>4, <2>1, Forms, StartedType
  <2> QED
    BY <1>2, <1>3, <1>4, <2>1, <2>2, DeliversRx
<1>7. CASE ~p.som /\ ~NoEffect
  <2>1. PICK takers : takers = {i \in 1..Len(Receivers) : is_next_packet(terminus[Receivers[i]], p)}
    OBVIOUS
  <2>2. PICK t : t = Receivers[CHOOSE i \in takers : \A j \in takers : i <= j]
    OBVIOUS
  <2>3. /\ takers # {}
        /\ \/ /\ terminus' = [terminus EXCEPT ![t] = None]
              /\ UNCHANGED <<req, rsp, buffered, history>>
           \/ Delivers(t, Continued(terminus[t], p), p, fits)
    BY <1>3, <1>7, <2>1, <2>2 DEF process_packet
  <2>4. PICK i \in takers : t = Receivers[i]
    <3>1. takers \subseteq Nat
      BY <2>1
    <3>2. \E i \in takers : \A j \in takers : i <= j
      BY <2>3, <3>1, HasLeast
    <3> QED
      BY <2>2, <3>2
  <2>5. t \in Types /\ is_next_packet(terminus[t], p)
    BY <2>1, <2>4 DEF Types
  <2>6. terminus[t] \in Terminus
    BY <1>1, <2>5 DEF is_next_packet
  <2>7. Continued(terminus[t], p) \in Terminus
    BY <1>4, <2>6, Forms, ContinuedType
  <2>8. CASE /\ terminus' = [terminus EXCEPT ![t] = None]
             /\ UNCHANGED <<req, rsp, buffered, history>>
    BY <1>3, <2>5, <2>8, DroppedRx
  <2>9. CASE Delivers(t, Continued(terminus[t], p), p, fits)
    BY <1>2, <1>3, <2>5, <2>7, <2>9, DeliversRx
  <2> QED
    BY <2>3, <2>8, <2>9
<1> QED
  BY <1>4, <1>5, <1>6, <1>7

LEMMA LostRx ==
  ASSUME RxInv, NEW m \in Known, PacketLost(m)
  PROVE  RxInv'
  BY DroppedRx DEF PacketLost, rxVars, drvVars

LEMMA PeerSendsRx ==
  ASSUME RxInv, PeerSends
  PROVE  RxInv'
<1>1. TypeOK /\ Bounded
  BY DEF RxInv
<1>2. PICK src \in Peers, owner \in BOOLEAN, t \in Types, shape \in Shapes, n \in Packets :
        NewMessage(src, t, owner, shape, n)
  BY DEF PeerSends
<1>3. /\ msgs \in Seq(SentMessages) /\ nxt \in Seq(Nat) /\ Len(nxt) = Len(msgs)
      /\ Len(msgs) \in Nat /\ MaxMsgs \in Nat /\ NumTags \in Nat \ {0}
  BY <1>1, Basics
<1>4. NextTag(src, owner) \in 0..NumTags - 1
  <2>1. PICK s : s = {m \in 1..Len(msgs) : msgs[m].owner = owner /\ (owner => msgs[m].src = src)}
    OBVIOUS
  <2>2. IsFiniteSet(1..Len(msgs)) /\ s \subseteq 1..Len(msgs)
    BY <1>3, <2>1, FS_Interval
  <2>3. IsFiniteSet(s)
    BY <2>2, FS_Subset
  <2>4. Cardinality(s) \in Nat
    BY <2>3, FS_CardinalityType
  <2>5. NextTag(src, owner) = Cardinality(s) % NumTags
    BY <2>1 DEF NextTag
  <2> QED
    BY <1>3, <2>4, <2>5
<1>5. PICK r : r = [src |-> src, type |-> t, owner |-> owner, tag |-> NextTag(src, owner),
                    shape |-> shape, n |-> n]
  OBVIOUS
<1>6. r \in SentMessages
  BY <1>4, <1>5 DEF SentMessages
<1>7. /\ Len(msgs) < MaxMsgs /\ msgs' = Append(msgs, r) /\ nxt' = Append(nxt, 1)
      /\ UNCHANGED <<terminus, req, rsp, buffered, deferred, history>>
  BY <1>2, <1>5 DEF NewMessage, rxVars, drvVars
<1>8. /\ msgs' \in Seq(SentMessages) /\ Len(msgs') = Len(msgs) + 1 /\ msgs'[Len(msgs) + 1] = r
      /\ \A m \in 1..Len(msgs) : msgs'[m] = msgs[m]
  BY <1>3, <1>6, <1>7, GrowsBy
<1>9. /\ nxt' \in Seq(Nat) /\ Len(nxt') = Len(nxt) + 1 /\ nxt'[Len(nxt) + 1] = 1
      /\ \A m \in 1..Len(nxt) : nxt'[m] = nxt[m]
  BY <1>3, <1>7, GrowsBy
<1>10. r.n \in Nat \ {0}
  BY <1>5, RxAssumption
<1>11. Over' = Over
  <2>1. ASSUME NEW m \in 1..Len(msgs') PROVE nxt'[m] > msgs'[m].n <=> m \in Over
    <3>1. CASE m \in 1..Len(msgs)
      BY <1>3, <1>8, <1>9, <3>1 DEF Over
    <3>2. CASE m = Len(msgs) + 1
      <4>1. nxt'[m] = 1 /\ msgs'[m] = r /\ m \notin Over
        BY <1>3, <1>8, <1>9, <3>2 DEF Over
      <4> QED
        BY <1>10, <4>1
    <3> QED
      BY <1>3, <1>8, <3>1, <3>2
  <2>2. Over \subseteq 1..Len(msgs')
    BY <1>3, <1>8 DEF Over
  <2> QED
    BY <2>1, <2>2 DEF Over
<1>12. Cardinality(Over) \in Nat
  BY <1>1, OverCount
<1>13. terminus' \in [Types -> Terminus' \cup {None}]
  <2>1. Known \subseteq Known'
    BY <1>3, <1>8 DEF Known
  <2>2. Terminus \subseteq Terminus'
    BY <2>1, Forms, TypesGrow
  <2> QED
    BY <1>1, <1>7, <2>2 DEF TypeOK
<1> QED
  BY <1>3, <1>7, <1>8, <1>9, <1>11, <1>12, <1>13, NoDelivery

-----------------------------------------------------------------------------
(* The processes and the deferred calls *)

(* A command: what is kept is wanted only by those who wanted it before, or *)
(* its deferred call is set                                                 *)
LEMMA CommandRx ==
  ASSUME RxInv, NEW t \in Types, deferred = {}, deferred' \subseteq Types,
         UNCHANGED <<msgs, nxt, rxVars, buffered, history>>,
         req' \in [Types -> SUBSET Apps],
         rsp' \in [Types -> [Apps -> [tag : 0..NumTags - 1, eid : Peers] \cup {None}]],
         \A u \in Types : u # t => req'[u] = req[u] /\ rsp'[u] = rsp[u],
         \A u \in Types : u # t => u \notin deferred',
         buffered[t] # None /\ t \notin deferred' =>
           \A a \in Apps :
             (IF buffered[t].owner THEN a \in req'[t] ELSE MatchesResponse(rsp'[t][a], buffered[t]))
               => a \in Wants(t, buffered[t]),
         req[t] = {} => \A a, b \in req'[t] : a = b
  PROVE  RxInv'
<1>1. /\ TypeOK /\ Bounded /\ Past /\ NoMissedMessage /\ Order /\ InOrder
      /\ got' = got /\ short' = short /\ terminus' = terminus
  BY DEF RxInv, history, rxVars
<1>2. TypeOK' /\ Bounded' /\ Past' /\ InOrder'
  BY <1>1 DEF TypeOK, Known, Terminus, Messages, Bounded, Past, Over, InOrder
<1>3. \A u \in Types : buffered[u] # None => buffered[u].owner \in BOOLEAN
  BY <1>1, Forms, MessageFields DEF TypeOK
<1>4. ~short => \A u \in Types : buffered[u] # None => Wants(u, buffered[u]) = {}
  BY <1>1 DEF NoMissedMessage
<1>5. NoMissedMessage'
  <2> SUFFICES ASSUME ~short, NEW u \in Types, buffered[u] # None, u \notin deferred', NEW a \in Apps
               PROVE  ~(IF buffered[u].owner THEN a \in req'[u]
                        ELSE MatchesResponse(rsp'[u][a], buffered[u]))
    BY <1>1 DEF NoMissedMessage, Wants, MatchesResponse
  <2>1. CASE u = t
    BY <1>4, <2>1
  <2>2. CASE u # t
    BY <1>4, <2>2 DEF Wants
  <2> QED
    BY <2>1, <2>2
<1>6. Order'
  <2> SUFFICES ASSUME ~short, NEW u \in Types, buffered[u] # None, buffered[u].owner
               PROVE  /\ u \notin deferred' => req'[u] = {}
                      /\ \A a, b \in req'[u] : a = b
                      /\ \A i \in 1..Len(got) :
                           got[i].owner /\ got[i].type = u => got[i].time < buffered[u].time
    BY <1>1 DEF Order
  <2>1. /\ req[u] = {}
        /\ \A i \in 1..Len(got) :
             got[i].owner /\ got[i].type = u => got[i].time < buffered[u].time
    BY <1>1 DEF Order
  <2>2. CASE u # t
    BY <2>1, <2>2
  <2>3. CASE u = t
    <3>1. ASSUME t \notin deferred' PROVE req'[t] = {}
      <4>1. \A a \in Apps : a \in req'[t] => a \in Wants(t, buffered[t])
        BY <2>3, <3>1
      <4>2. Wants(t, buffered[t]) = {}
        BY <1>4, <2>3
      <4> QED
        BY <4>1, <4>2
    <3> QED
      BY <2>1, <2>3, <3>1
  <2> QED
    BY <2>2, <2>3
<1> QED
  BY <1>2, <1>5, <1>6 DEF RxInv

LEMMA ReceiveRequestRx ==
  ASSUME RxInv, NEW t \in Types, NEW a \in Apps, ReceiveRequest(t, a)
  PROVE  RxInv'
<1>1. TypeOK
  BY DEF RxInv
<1>2. /\ req \in [Types -> SUBSET Apps]
      /\ rsp \in [Types -> [Apps -> [tag : 0..NumTags - 1, eid : Peers] \cup {None}]]
      /\ buffered[t] # None => buffered[t].owner \in BOOLEAN
  BY <1>1, Forms, MessageFields DEF TypeOK
<1>3. /\ deferred = {} /\ req' = [req EXCEPT ![t] = req[t] \cup {a}] /\ rsp' = rsp
      /\ deferred' = Found(t, buffered[t] # None /\ buffered[t].owner)
      /\ UNCHANGED <<msgs, nxt, rxVars, buffered, history>>
  BY DEF ReceiveRequest
<1>4. /\ deferred' \subseteq {t}
      /\ buffered[t] # None /\ t \notin deferred' => ~buffered[t].owner
  BY <1>2, <1>3 DEF Found
<1>5. /\ req' \in [Types -> SUBSET Apps] /\ req'[t] = req[t] \cup {a}
      /\ \A u \in Types : u # t => req'[u] = req[u]
  BY <1>2, <1>3
<1>6. buffered[t] # None /\ t \notin deferred' =>
        \A b \in Apps :
          (IF buffered[t].owner THEN b \in req'[t] ELSE MatchesResponse(rsp'[t][b], buffered[t]))
            => b \in Wants(t, buffered[t])
  BY <1>3, <1>4 DEF Wants
<1>7. req[t] = {} => \A b, c \in req'[t] : b = c
  BY <1>5
<1> QED
  BY <1>2, <1>3, <1>4, <1>5, <1>6, <1>7, CommandRx

LEMMA ReceiveResponseRx ==
  ASSUME RxInv, NEW t \in Types, NEW a \in Apps, NEW tag \in 0..NumTags - 1, NEW eid \in Peers,
         ReceiveResponse(t, a, tag, eid)
  PROVE  RxInv'
<1>1. TypeOK
  BY DEF RxInv
<1>2. PICK R : R = [tag : 0..NumTags - 1, eid : Peers] \cup {None}
  OBVIOUS
<1>3. PICK r : r = [tag |-> tag, eid |-> eid]
  OBVIOUS
<1>4. r \in R
  BY <1>2, <1>3
<1>5. /\ req \in [Types -> SUBSET Apps] /\ rsp \in [Types -> [Apps -> R]]
      /\ buffered[t] # None => buffered[t].owner \in BOOLEAN
  BY <1>1, <1>2, Forms, MessageFields DEF TypeOK
<1>6. /\ deferred = {} /\ rsp' = [rsp EXCEPT ![t][a] = r] /\ req' = req
      /\ deferred' = Found(t, buffered[t] # None /\ MatchesResponse(r, buffered[t]))
      /\ UNCHANGED <<msgs, nxt, rxVars, buffered, history>>
  BY <1>3 DEF ReceiveResponse
<1>7. /\ deferred' \subseteq {t}
      /\ buffered[t] # None /\ t \notin deferred' => ~MatchesResponse(r, buffered[t])
  BY <1>6 DEF Found
<1>8. /\ rsp' \in [Types -> [Apps -> R]] /\ \A u \in Types : u # t => rsp'[u] = rsp[u]
      /\ rsp'[t][a] = r /\ \A b \in Apps : b # a => rsp'[t][b] = rsp[t][b]
  BY <1>4, <1>5, <1>6
<1>9. buffered[t] # None /\ t \notin deferred' =>
        \A b \in Apps :
          (IF buffered[t].owner THEN b \in req'[t] ELSE MatchesResponse(rsp'[t][b], buffered[t]))
            => b \in Wants(t, buffered[t])
  BY <1>6, <1>7, <1>8 DEF Wants
<1>10. req[t] = {} => \A b, c \in req'[t] : b = c
  BY <1>6
<1>11. rsp' \in [Types -> [Apps -> [tag : 0..NumTags - 1, eid : Peers] \cup {None}]]
  BY <1>2, <1>8
<1> QED
  BY <1>5, <1>6, <1>7, <1>8, <1>9, <1>10, <1>11, CommandRx

(* deliver_buffered_message                                                 *)
LEMMA DeferredCallRx ==
  ASSUME RxInv, NEW t \in Types, NEW fits, DeferredCall(t, fits)
  PROVE  RxInv'
<1>1. TypeOK /\ Bounded /\ Past /\ NoMissedMessage /\ Order /\ InOrder
  BY DEF RxInv
<1>2. PICK g : g = buffered[t]
  OBVIOUS
<1>3. PICK s : s = IF g = None THEN {} ELSE Wants(t, g) \cap fits
  OBVIOUS
<1>4. /\ t \in deferred /\ deferred' = deferred \ {t} /\ buffered' = Emptied(t, s)
      /\ UNCHANGED <<msgs, nxt, terminus>>
      /\ s = {} => UNCHANGED <<req, rsp, got>>
      /\ s # {} => Give(t, g, s)
      /\ short' = (short \/ (g # None /\ s # Wants(t, g)))
  BY <1>2, <1>3 DEF DeferredCall, rxVars
<1>5. /\ buffered \in [Types -> Messages \cup {None}] /\ got \in Seq(Messages) /\ short \in BOOLEAN
      /\ req \in [Types -> SUBSET Apps] /\ deferred \subseteq Types
      /\ rsp \in [Types -> [Apps -> [tag : 0..NumTags - 1, eid : Peers] \cup {None}]]
  BY <1>1 DEF TypeOK
<1>6. buffered' = [buffered EXCEPT ![t] = None]
  BY <1>4 DEF Emptied
<1>7. /\ buffered' \in [Types -> Messages \cup {None}] /\ buffered'[t] = None
      /\ \A u \in Types : u # t => buffered'[u] = buffered[u]
  BY <1>5, <1>6
<1>8. short' \in BOOLEAN /\ (~short' => ~short)
  BY <1>4, <1>5
<1>9. s # {} => g \in Messages /\ g # None /\ s \subseteq Wants(t, g)
  BY <1>2, <1>3, <1>5
<1>10. /\ got' \in Seq(Messages) /\ Len(got) \in Nat /\ Len(got') \in Nat /\ Len(got) <= Len(got')
       /\ \A i \in 1..Len(got) : got'[i] = got[i]
       /\ \A i \in Len(got) + 1 .. Len(got') : got'[i] = g /\ s # {}
       /\ req' \in [Types -> SUBSET Apps]
       /\ rsp' \in [Types -> [Apps -> [tag : 0..NumTags - 1, eid : Peers] \cup {None}]]
       /\ \A u \in Types : req'[u] \subseteq req[u]
       /\ \A u \in Types, a \in Apps : rsp'[u][a] = rsp[u][a] \/ rsp'[u][a] = None
       /\ s # {} => Len(got') = Len(got) + Cardinality(s)
  <2>1. CASE s = {}
    BY <1>4, <1>5, <2>1
  <2>2. CASE s # {}
    <3>1. Give(t, g, s) /\ g \in Messages /\ s \subseteq Wants(t, g)
      BY <1>4, <1>9, <2>2
    <3>2. /\ got' \in Seq(Messages) /\ Len(got) \in Nat /\ Len(got') = Len(got) + Cardinality(s)
          /\ \A i \in 1..Len(got) : got'[i] = got[i]
          /\ \A i \in Len(got) + 1 .. Len(got') : got'[i] = g
          /\ req' \in [Types -> SUBSET Apps]
          /\ rsp' \in [Types -> [Apps -> [tag : 0..NumTags - 1, eid : Peers] \cup {None}]]
          /\ \A u \in Types : req'[u] \subseteq req[u]
          /\ \A u \in Types, a \in Apps : rsp'[u][a] = rsp[u][a] \/ rsp'[u][a] = None
          /\ Cardinality(s) \in Nat
      BY <1>1, <3>1, Gives
    <3>3. Len(got') \in Nat /\ Len(got) <= Len(got')
      BY <3>2
    <3> QED
      BY <2>2, <3>2, <3>3
  <2> QED
    BY <2>1, <2>2
<1>11. Messages' = Messages /\ Terminus' = Terminus /\ Over' = Over
  BY <1>4 DEF Messages, Terminus, Known, Over
<1>12. TypeOK' /\ Bounded'
  BY <1>1, <1>4, <1>5, <1>7, <1>8, <1>10, <1>11 DEF TypeOK, Bounded
<1>13. s # {} =>
         /\ g.owner \in BOOLEAN /\ g.time \in Nat /\ g.time < Cardinality(Over) /\ g.type = t
  BY <1>1, <1>2, <1>9, Forms, MessageFields DEF Past
<1>14. Past'
  <2>1. ASSUME NEW i \in 1..Len(got') PROVE got'[i].time < Cardinality(Over)
    <3>1. CASE i \in 1..Len(got)
      BY <1>1, <1>10, <3>1 DEF Past
    <3>2. CASE i \in Len(got) + 1 .. Len(got')
      BY <1>10, <1>13, <3>2
    <3> QED
      BY <1>10, <3>1, <3>2
  <2> QED
    BY <1>1, <1>7, <1>11, <2>1 DEF Past
<1>15. NoMissedMessage'
  <2> SUFFICES ASSUME ~short', NEW u \in Types, buffered'[u] # None, u \notin deferred'
               PROVE  \A a \in Apps : ~(IF buffered'[u].owner THEN a \in req'[u]
                                        ELSE MatchesResponse(rsp'[u][a], buffered'[u]))
    BY DEF NoMissedMessage, Wants, MatchesResponse
  <2>1. u # t /\ buffered'[u] = buffered[u] /\ u \notin deferred
    BY <1>4, <1>7
  <2>2. Wants(u, buffered'[u]) = {}
    BY <1>1, <1>8, <2>1 DEF NoMissedMessage
  <2> QED
    BY <1>10, <2>2, WantsShrink
<1>16. Order'
  <2> SUFFICES ASSUME ~short', NEW u \in Types, buffered'[u] # None, buffered'[u].owner
               PROVE  /\ u \notin deferred' => req'[u] = {}
                      /\ \A a, b \in req'[u] : a = b
                      /\ req'[u] # {} \/ u \notin deferred' =>
                           \A i \in 1..Len(got') :
                             got'[i].owner /\ got'[i].type = u => got'[i].time < buffered'[u].time
    BY DEF Order
  <2>1. u # t /\ buffered'[u] = buffered[u] /\ (u \in deferred' <=> u \in deferred)
    BY <1>4, <1>7
  <2>2. /\ u \notin deferred => req[u] = {}
        /\ \A a, b \in req[u] : a = b
        /\ req[u] # {} \/ u \notin deferred =>
             \A i \in 1..Len(got) :
               got[i].owner /\ got[i].type = u => got[i].time < buffered[u].time
    BY <1>1, <1>8, <2>1 DEF Order
  <2>3. ASSUME req'[u] # {} \/ u \notin deferred', NEW i \in 1..Len(got'),
               got'[i].owner, got'[i].type = u
        PROVE  got'[i].time < buffered'[u].time
    <3>1. CASE i \in 1..Len(got)
      BY <1>10, <2>1, <2>2, <2>3, <3>1
    <3>2. CASE i \in Len(got) + 1 .. Len(got')
      BY <1>10, <1>13, <2>1, <2>3, <3>2
    <3> QED
      BY <1>10, <3>1, <3>2
  <2> QED
    BY <1>10, <2>1, <2>2, <2>3
<1>17. InOrder'
  <2> SUFFICES ASSUME ~short', NEW i \in 1..Len(got'), NEW j \in 1..Len(got'), i < j,
                      got'[i].owner, got'[j].owner, got'[i].type = got'[j].type
               PROVE  got'[i].time < got'[j].time
    BY DEF InOrder
  <2>1. CASE j \in 1..Len(got)
    <3>1. i \in 1..Len(got)
      BY <1>10, <2>1
    <3> QED
      BY <1>1, <1>8, <1>10, <2>1, <3>1 DEF InOrder
  <2>2. CASE j \in Len(got) + 1 .. Len(got')
    <3>1. got'[j] = g /\ s # {} /\ g.owner /\ g.type = t /\ g # None
      BY <1>9, <1>10, <1>13, <2>2
    <3>2. s \subseteq req[t]
      BY <1>9, <3>1 DEF Wants
    <3>3. /\ \A a, b \in req[t] : a = b
          /\ \A k \in 1..Len(got) : got[k].owner /\ got[k].type = t => got[k].time < g.time
      BY <1>1, <1>2, <1>8, <3>1, <3>2 DEF Order
    <3>4. i \in 1..Len(got)
      <4>1. PICK a : s = {a}
        BY <3>1, <3>2, <3>3
      <4>2. Cardinality(s) = 1
        BY <4>1, FS_Singleton
      <4> QED
        BY <1>10, <2>2, <3>1, <4>2
    <3> QED
      BY <1>10, <3>1, <3>3, <3>4
  <2> QED
    BY <1>10, <2>1, <2>2
<1> QED
  BY <1>12, <1>14, <1>15, <1>16, <1>17 DEF RxInv

-----------------------------------------------------------------------------

LEMMA RxInit == Init => RxInv
<1> SUFFICES ASSUME Init PROVE RxInv
  OBVIOUS
<1>1. Len(msgs) = 0 /\ Len(got) = 0 /\ Len(nxt) = 0 /\ MaxMsgs \in Nat
  BY RxAssumption DEF Init
<1>2. TypeOK
  <2>1. PICK R : R = [tag : 0..NumTags - 1, eid : Peers] \cup {None}
    OBVIOUS
  <2>2. rsp \in [Types -> [Apps -> R]]
    BY <2>1 DEF Init
  <2>3. short \in BOOLEAN /\ req \in [Types -> SUBSET Apps] /\ deferred \subseteq Types
    BY DEF Init
  <2>4. terminus \in [Types -> Terminus \cup {None}] /\ buffered \in [Types -> Messages \cup {None}]
    BY DEF Init
  <2>5. /\ got \in Seq(Messages) /\ nxt \in Seq(Nat) /\ Len(nxt) = Len(msgs)
        /\ msgs \in Seq([src : Peers, type : Types, owner : BOOLEAN, tag : 0..NumTags - 1,
                         shape : Shapes, n : Packets])
    BY DEF Init
  <2> QED
    BY <2>1, <2>2, <2>3, <2>4, <2>5 DEF TypeOK
<1>3. \A t \in Types : buffered[t] = None
  BY DEF Init
<1> QED
  BY <1>1, <1>2, <1>3 DEF RxInv, Bounded, Past, NoMissedMessage, Order, InOrder

LEMMA RxStep ==
  ASSUME RxInv, [Next]_vars
  PROVE  RxInv'
<1>1. TypeOK
  BY DEF RxInv
<1>2. Known = 1..Len(msgs) /\ \A m \in Known : msgs[m].tag \in 0..NumTags - 1 /\ msgs[m].src \in Peers
  BY <1>1, Basics
<1>3. CASE PeerSends
  BY <1>3, PeerSendsRx
<1>4. CASE Arrival
  BY <1>2, <1>4, ArrivesRx DEF Arrival
<1>5. ASSUME NEW m \in 1..Len(msgs), PacketLost(m) PROVE RxInv'
  BY <1>2, <1>5, LostRx
<1>6. CASE Command
  BY <1>2, <1>6, ReceiveRequestRx, ReceiveResponseRx DEF Command
<1>7. ASSUME NEW t \in Types, NEW fits \in Fits, DeferredCall(t, fits) PROVE RxInv'
  BY <1>7, DeferredCallRx
<1>8. CASE UNCHANGED vars
  <2>1. UNCHANGED <<msgs, nxt, terminus, req, rsp, buffered, deferred, got, short>>
    BY <1>8 DEF vars, rxVars, drvVars, history
  <2>2. TypeOK' /\ Bounded' /\ Past' /\ NoMissedMessage' /\ Order' /\ InOrder'
    BY <2>1 DEF RxInv, TypeOK, Known, Terminus, Messages, Bounded, Past, Over, NoMissedMessage,
                Wants, Order, InOrder
  <2> QED
    BY <2>2 DEF RxInv
<1> QED
  BY <1>3, <1>4, <1>5, <1>6, <1>7, <1>8 DEF Next

(* The inductive invariant holds in every state.                            *)
THEOREM ReceiveInvariant == Spec => []RxInv
<1>1. RxInv /\ [Next]_vars => RxInv'
  BY RxStep
<1> QED
  BY <1>1, RxInit, PTL DEF Spec

(* Types: the sequence number that a receiver expects keeps its width, and  *)
(* what it has put together are packets of messages that were sent.         *)
THEOREM TypeCorrect == Spec => []TypeOK
<1>1. RxInv => TypeOK
  BY DEF RxInv
<1> QED
  BY <1>1, ReceiveInvariant, PTL

(* check_buffered_message misses nothing: a message that a driver keeps and *)
(* a process wants is on its way to it, whichever came first and whatever   *)
(* interrupt fell between them.                                             *)
THEOREM NoMissedMessageHolds == Spec => []NoMissedMessage
<1>1. RxInv => NoMissedMessage
  BY DEF RxInv
<1> QED
  BY <1>1, ReceiveInvariant, PTL

(* Requests are delivered in the order in which they came, although a       *)
(* request that was kept waits for a deferred call and later ones do not.   *)
THEOREM InOrderHolds == Spec => []InOrder
<1>1. RxInv => InOrder
  BY DEF RxInv
<1> QED
  BY <1>1, ReceiveInvariant, PTL
=============================================================================
