---------------------------- MODULE MCLifecycle ----------------------------
(***************************************************************************)
(* A small instance of Lifecycle: two starts of the program, the first     *)
(* with a SOCKS5 proxy, the second with an HTTP one.                       *)
(***************************************************************************)
EXTENDS Lifecycle

CONSTANTS i1, i2

FirstOnly == {i1}
=============================================================================
