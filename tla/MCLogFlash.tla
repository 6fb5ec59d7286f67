---------------------------- MODULE MCLogFlash ----------------------------
(* The flash log on small instances; see the cfg files for their bounds.   *)
EXTENDS LogFlash
=============================================================================
