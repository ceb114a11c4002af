------------------------------ MODULE MCEvents ------------------------------
(* TLC instances of Events. *)
EXTENDS Events, TLC

CONSTANTS c1, c2, a, b, z

\* Device c1 may see every chat, c2 one that the first client may not.
TwoDevices == (c1 :> {}) @@ (c2 :> {b})

\* One device.
OneDevice == c1 :> {b}

\* The second client lists a chat that the first does not.
OtherChat == (c1 :> {a}) @@ (c2 :> {b})
=============================================================================
