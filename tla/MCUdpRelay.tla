----------------------------- MODULE MCUdpRelay -----------------------------
(***************************************************************************)
(* Small instances of UdpRelay: client ports and their destinations.        *)
(***************************************************************************)
EXTENDS UdpRelay

CONSTANTS a1, d1, d2

\* The clients share destination d1, and client 2 also uses d2.
SharedDest == [p \in Port |-> IF p = 1 THEN {d1} ELSE {d1, d2}]
=============================================================================
