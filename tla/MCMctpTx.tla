------------------------------ MODULE MCMctpTx ------------------------------
(* Sending over MCTP: two drivers, two processes and two messages of one   *)
(* or five packets, with control requests at any point.                    *)
EXTENDS MctpTx
=============================================================================
