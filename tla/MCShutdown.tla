----------------------------- MODULE MCShutdown ------------------------------
(* Small instances of the server going down.                               *)
EXTENDS Shutdown
=============================================================================
