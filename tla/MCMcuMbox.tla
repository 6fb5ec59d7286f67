----------------------------- MODULE MCMcuMbox -----------------------------
(* The MCU mailbox with a few requests.                                    *)
EXTENDS McuMbox
=============================================================================
