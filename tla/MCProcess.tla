----------------------------- MODULE MCProcess -----------------------------
(* TLC instances of Process: the constants are given in the cfg files. *)
EXTENDS Process
=============================================================================
