------------------------------ MODULE MctpInbox ------------------------------
(***************************************************************************)
(* What the MCTP stack promises to those who receive, without packets: a   *)
(* message that a peer has sent arrives whole or not at all, and at most   *)
(* once; on arrival it goes to a process that waits for it, or is held for *)
(* one.  The inbox of a message type holds one message: a newer one that   *)
(* must be held replaces it, and it may be dropped.                        *)
(***************************************************************************)
EXTENDS Naturals, Sequences

CONSTANTS Types, None

VARIABLES
  type,         \* the types of the messages sent so far, by number
  over,         \* the messages that have arrived or been lost
  held,         \* of every type the message that is held
  got           \* the messages delivered, in order

vars == <<type, over, held, got>>

Init == type = <<>> /\ over = {} /\ held = [t \in Types |-> None] /\ got = <<>>

Send(t) == type' = Append(type, t) /\ UNCHANGED <<over, held, got>>

Arrive(m) ==
  /\ m \notin over
  /\ over' = over \cup {m}
  /\ \/ got' = Append(got, m) /\ held' = held
     \/ got' = got /\ held' = [held EXCEPT ![type[m]] = m]
  /\ UNCHANGED type

Lose(m) ==
  /\ m \notin over
  /\ over' = over \cup {m}
  /\ UNCHANGED <<type, held, got>>

Deliver(t) ==
  /\ held[t] # None
  /\ got' = Append(got, held[t])
  /\ held' = [held EXCEPT ![t] = None]
  /\ UNCHANGED <<type, over>>

Drop(t) ==
  /\ held[t] # None
  /\ held' = [held EXCEPT ![t] = None]
  /\ UNCHANGED <<type, over, got>>

Next ==
  \/ \E t \in Types : Send(t) \/ Deliver(t) \/ Drop(t)
  \/ \E m \in 1..Len(type) : Arrive(m) \/ Lose(m)

Spec == Init /\ [][Next]_vars
=============================================================================
