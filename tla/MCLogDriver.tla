---------------------------- MODULE MCLogDriver ----------------------------
(* The log's system call driver with three apps.                           *)
EXTENDS LogDriver
=============================================================================
