---------------------------- MODULE MctpSendQueue ----------------------------
(***************************************************************************)
(* What the MCTP stack promises to those who send: every message accepted  *)
(* is put on the bus whole and unmixed, in the order of acceptance, and    *)
(* then reported to its sender, once.  A driver has one message under way. *)
(*                                                                         *)
(* On a slow bus (see MctpTx) less is promised: messages are still         *)
(* reported once and in order, but perhaps without having been sent, and   *)
(* perhaps never.                                                          *)
(***************************************************************************)
EXTENDS Naturals, Sequences

CONSTANT Drivers        \* one per message type

VARIABLES
  slow,                 \* the bus is slow, for the whole behaviour
  by,                   \* the drivers of the messages accepted, in order
  out,                  \* how many of them are on the bus, whole
  told                  \* how many of them have been reported

vars == <<slow, by, out, told>>

Init == slow \in BOOLEAN /\ by = <<>> /\ out = 0 /\ told = 0

\* A driver may hand over a message when its last one has been reported.
Accept(d) ==
  /\ \A i \in told + 1 .. Len(by) : by[i] # d
  /\ by' = Append(by, d)
  /\ UNCHANGED <<slow, out, told>>

Transmit ==
  /\ out < Len(by)
  /\ out' = out + 1
  /\ UNCHANGED <<slow, by, told>>

Report ==
  /\ told < (IF slow THEN Len(by) ELSE out)
  /\ told' = told + 1
  /\ UNCHANGED <<slow, by, out>>

Next == (\E d \in Drivers : Accept(d)) \/ Transmit \/ Report

Spec ==
  /\ Init /\ [][Next]_vars
  /\ WF_vars(~slow /\ Transmit)
  /\ WF_vars(~slow /\ Report)
=============================================================================
