------------------------------ MODULE MCPldmFD ------------------------------
(* The firmware device; the cfg files give the constants of each run.     *)
EXTENDS PldmFDOrder
=============================================================================
