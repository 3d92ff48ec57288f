----------------------------- MODULE MCTcpRelay -----------------------------
(***************************************************************************)
(* Small instances of TcpRelay: two connections to different destinations, *)
(* the second of which may take the first one's port.                      *)
(***************************************************************************)
EXTENDS TcpRelay

CONSTANTS a1, c1, c2, d1, d2

MCGoal == [c \in Conn |-> IF c = c1 THEN d1 ELSE d2]
MCSaid == [c \in Conn |-> IF c = c1 THEN 1 ELSE 0]
MCTold == [c \in Conn |-> IF c = c1 THEN 2 ELSE 0]
MCPorts == [c \in Conn |-> IF c = c1 THEN {1} ELSE {1, 2}]

SocksAuth == [cmd |-> "connect", auth |-> TRUE]
Http == [cmd |-> "http", auth |-> FALSE]

AllKinds == {SocksAuth, Http}
OnlyHttp == {Http}
=============================================================================
