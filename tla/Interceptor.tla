----------------------------- MODULE Interceptor -----------------------------
(***************************************************************************)
(* What the packet interceptor promises, without a tracker, a PID cache, a *)
(* lookup or a conntrack: every packet a socket sends is judged once, in   *)
(* the order of sending, as the rules ask for the process that sent it.    *)
(*                                                                         *)
(* A failure is confined to the source port of the packet it happened to,  *)
(* and only ever lets its packets out directly or loses them.              *)
(***************************************************************************)
EXTENDS Sequences

CONSTANTS
    Packet,
    Asks,        \* what is to be done with each packet: "Proxy", "Direct" or "Block"
    NoEntry,     \* no packet
    MayFail      \* failures may happen at all

VARIABLES
    waiting,     \* the packets not judged yet, the next one first
    judged,      \* the last one judged and what became of it, until the next one's turn
    failed       \* the source ports something has failed for

vars == <<waiting, judged, failed>>

Fate(k) ==
    CASE Asks[k] = "Block"  -> "dropped"
      [] Asks[k] = "Proxy"  -> "relay"
      [] Asks[k] = "Direct" -> "direct"

(* Ports that were in use before are out of its hands from the start. *)
Init ==
    /\ waiting = <<>> /\ judged = NoEntry
    /\ failed \subseteq {k.port : k \in Packet}

Submit(k) ==
    /\ waiting' = Append(waiting, k)
    /\ UNCHANGED <<judged, failed>>

Attend ==
    /\ waiting # <<>>
    /\ judged' = NoEntry
    /\ UNCHANGED <<waiting, failed>>

(* Something fails for packet k, or nothing does. *)
MayFailFor(k) ==
    failed' = failed \/ (MayFail /\ failed' = failed \cup {k.port})

Fail ==
    /\ waiting # <<>>
    /\ MayFailFor(Head(waiting))
    /\ UNCHANGED <<waiting, judged>>

Judge ==
    /\ waiting # <<>>
    /\ waiting' = Tail(waiting)
    /\ LET k == Head(waiting) IN
           /\ MayFailFor(k)
           /\ \E path \in {Fate(k)} \cup (IF k.port \in failed' THEN {"direct", "lost"} ELSE {}) :
                  judged' = [pkt |-> k, path |-> path]

Next == (\E k \in Packet : Submit(k)) \/ Attend \/ Fail \/ Judge

Spec == Init /\ [][Next]_vars
=============================================================================
