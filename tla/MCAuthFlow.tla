----------------------------- MODULE MCAuthFlow -----------------------------
(* TLC instances of AuthFlow: the constants are given in the cfg files. *)
EXTENDS AuthFlow
=============================================================================
