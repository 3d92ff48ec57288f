------------------------------ MODULE MCNfQueue ------------------------------
(***************************************************************************)
(* Small instances of NfQueue.  Process pb is the bridge, p1 and p2 are    *)
(* applications; port 1 is theirs, port 0 is the relays'.                  *)
(***************************************************************************)
EXTENDS NfQueue

CONSTANTS pb, p1, p2, app, other, a1, any, d1, d2, dns

Socket(proto, addr, port) == [proto |-> proto, addr |-> addr, port |-> port]

MCRelayPort == [proto \in Proto |-> 0]

(* What the rules say: other is blocked and everything else is proxied,    *)
(* as by a "*" rule, which is the rule for the bridge too.                 *)
MCPolicy ==
    [prog \in Prog |-> [proto \in Proto |-> [dest \in Dest |->
        IF prog = other THEN "Block" ELSE "Proxy"]]]

TcpSocket == Socket("tcp", a1, 1)
UdpSocket == Socket("udp", any, 1)

AllDests == [b \in Binding |-> Dest]

\* One TCP socket and the relay's.
OneTcp == {TcpSocket, Socket("tcp", a1, 0)}

\* A UDP socket used for one destination.
OneUdp == {UdpSocket}
OnlyD1 == [b \in Binding |-> {d1}]
=============================================================================
