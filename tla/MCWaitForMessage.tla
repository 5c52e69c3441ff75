-------------------------- MODULE MCWaitForMessage --------------------------
(* Instances of WaitForMessage for TLC. *)
EXTENDS WaitForMessage
=============================================================================
