------------------------------- MODULE Tunnel -------------------------------
(***************************************************************************)
(* What the TCP relay promises, in terms of the two ends only: a client's  *)
(* connection is closed or joined to the destination it was opened to, and *)
(* from then on each side gets what the other one says, all of it, once,   *)
(* in order and nothing else, unless somebody breaks the connection.  Only *)
(* a client whose port others have taken while it waited may be joined to  *)
(* the destination of one of them.                                         *)
(***************************************************************************)
EXTENDS Naturals, Sequences

CONSTANTS
    Conn,    \* connections
    Goal,    \* the destination each one is opened to
    Port,    \* source ports
    NoPort,  \* no port
    NoDest   \* no destination yet

VARIABLES
    link,    \* "idle", "waiting", "joined" or "closed"
    from,    \* its client's port
    after,   \* who has taken its port while it waited
    to,      \* the destination it is joined to
    said,    \* units of data the client has sent
    heard,   \* units of data the destination has received
    told,    \* units of data the destination has sent
    got,     \* what the client has received
    broken   \* an end, the network or the relay's stop has cut it

Data(k) == <<"data", k>>    \* the k-th unit of the destination's data

tunnelVars == <<link, from, after, to, said, heard, told, got, broken>>

Init ==
    /\ link = [c \in Conn |-> "idle"] /\ from = [c \in Conn |-> NoPort]
    /\ to = [c \in Conn |-> NoDest] /\ after = [c \in Conn |-> {}]
    /\ said = [c \in Conn |-> 0] /\ heard = [c \in Conn |-> 0]
    /\ told = [c \in Conn |-> 0] /\ got = [c \in Conn |-> <<>>]
    /\ broken = [c \in Conn |-> FALSE]

(* From port p, while clients that used it may be waiting. *)
Open(c, p) ==
    /\ link[c] = "idle"
    /\ link' = [link EXCEPT ![c] = "waiting"]
    /\ from' = [from EXCEPT ![c] = p]
    /\ \E W \in SUBSET {b \in Conn : link[b] = "waiting" /\ from[b] = p} :
           after' = [b \in Conn |-> IF b \in W THEN after[b] \cup {c} ELSE after[b]]
    /\ UNCHANGED <<to, said, heard, told, got, broken>>

Join(c) ==
    /\ link[c] = "waiting"
    /\ link' = [link EXCEPT ![c] = "joined"]
    /\ \E b \in {c} \cup after[c] : to' = [to EXCEPT ![c] = Goal[b]]
    /\ UNCHANGED <<from, after, said, heard, told, got, broken>>

Say(c) ==
    /\ link[c] \in {"waiting", "joined"}
    /\ said' = [said EXCEPT ![c] = @ + 1]
    /\ UNCHANGED <<link, from, after, to, heard, told, got, broken>>

Hear(c) ==
    /\ link[c] = "joined" /\ heard[c] < said[c]
    /\ heard' = [heard EXCEPT ![c] = @ + 1]
    /\ UNCHANGED <<link, from, after, to, said, told, got, broken>>

Tell(c) ==
    /\ link[c] = "joined"
    /\ told' = [told EXCEPT ![c] = @ + 1]
    /\ UNCHANGED <<link, from, after, to, said, heard, got, broken>>

Deliver(c) ==
    /\ link[c] = "joined" /\ Len(got[c]) < told[c]
    /\ got' = [got EXCEPT ![c] = Append(@, Data(Len(@) + 1))]
    /\ UNCHANGED <<link, from, after, to, said, heard, told, broken>>

Break(c) ==
    /\ link[c] = "joined"
    /\ broken' = [broken EXCEPT ![c] = TRUE]
    /\ UNCHANGED <<link, from, after, to, said, heard, told, got>>

MayClose(c) ==
    \/ link[c] = "waiting"
    \/ link[c] = "joined" /\ broken[c]
    \/ link[c] = "joined" /\ heard[c] = said[c] /\ Len(got[c]) = told[c]

(* What a closed connection's ends have said and heard is over. *)
Forget(C) ==
    /\ link' = [c \in Conn |-> IF c \in C THEN "closed" ELSE link[c]]
    /\ from' = [c \in Conn |-> IF c \in C THEN NoPort ELSE from[c]]
    /\ to' = [c \in Conn |-> IF c \in C THEN NoDest ELSE to[c]]
    /\ said' = [c \in Conn |-> IF c \in C THEN 0 ELSE said[c]]
    /\ heard' = [c \in Conn |-> IF c \in C THEN 0 ELSE heard[c]]
    /\ told' = [c \in Conn |-> IF c \in C THEN 0 ELSE told[c]]
    /\ got' = [c \in Conn |-> IF c \in C THEN <<>> ELSE got[c]]
    /\ broken' = [c \in Conn |-> IF c \in C THEN FALSE ELSE broken[c]]
    /\ UNCHANGED after

Close(C) == (\A c \in C : MayClose(c)) /\ Forget(C)

(* The relay's host program ends, and with it every connection. *)
Stop == Forget({c \in Conn : link[c] \in {"waiting", "joined"}})

Next ==
    \/ \E c \in Conn :
           (\E p \in Port : Open(c, p)) \/ Join(c) \/ Say(c) \/ Hear(c) \/ Tell(c) \/ Deliver(c) \/ Break(c)
    \/ \E C \in SUBSET Conn : Close(C)
    \/ Stop

Spec == Init /\ [][Next]_tunnelVars
=============================================================================
