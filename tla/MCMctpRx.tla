------------------------------ MODULE MCMctpRx ------------------------------
(* Receiving over MCTP: two message types, the second with a buffer that is *)
(* too small for the longest message.                                      *)
EXTENDS MctpRx
MCReceivers  == <<"spdm", "pldm">>
MCBufPackets == [spdm |-> 5, pldm |-> 4]
=============================================================================
