----------------------------- MODULE Lifecycle -----------------------------
(***************************************************************************)
(* The life of the program: main of linux/src/main.rs with the nftables    *)
(* table of linux/src/netfilter.rs it installs and removes, and the three  *)
(* services it starts (the NFQUEUE thread and the two relay tasks), each   *)
(* of which holds something only one process of the host can have: the     *)
(* queue number or a port.                                                 *)
(*                                                                         *)
(* The table outlives the process, and there is one for the whole host.    *)
(* So the module has several starts of the program, one after the other or *)
(* at the same time, and around them a user who interrupts or kills them   *)
(* and who runs --cleanup, and a kernel that refuses requests.             *)
(***************************************************************************)
EXTENDS Naturals

CONSTANTS
    Instance,   \* starts of the program
    Socks5      \* those whose proxy is a SOCKS5 one

ASSUME LifecycleAssumption == Socks5 \subseteq Instance

Service == {"nfq", "tcp", "udp"}

VARIABLES
    table,      \* rule sets in the table "proxybridge"; 0 if there is none
    pc,         \* main: its next step
    running,    \* the flag the services and main look at
    svc,        \* the services of each instance
    \* History, read by the properties only:
    mishaps     \* what has gone wrong since the table was last removed

vars == <<table, pc, running, svc, mishaps>>

Idle == [x \in Service |-> "none"]

Init ==
    /\ table = 0
    /\ pc = [i \in Instance |-> "off"]
    /\ running = [i \in Instance |-> TRUE]
    /\ svc = [i \in Instance |-> Idle]
    /\ mishaps = {}

Goto(i, step) == pc' = [pc EXCEPT ![i] = step]

Alive(i) == pc[i] \notin {"off", "ended"}

(* The process ends, with its threads and what they hold. *)
End(i) == Goto(i, "ended") /\ svc' = [svc EXCEPT ![i] = Idle]

(* An instance that is past its installation, *)
Running(i) == pc[i] \in {"spawn", "runtime", "serve"}

(* and one that will remove the table. *)
Holding(i) == pc[i] \in {"spawn", "runtime", "serve", "remove"}

(* The instances that hold the queue, or the port. *)
Serving(x) == {i \in Instance : svc[i][x] = "serving"}

-----------------------------------------------------------------------------
\* The table

(* What the kernel did with a batch, and what send_and_process says: it    *)
(* stops at the first acknowledgement and may miss a later error of the    *)
(* batch, and it may fail to receive what was done.                        *)
Batch == [done : BOOLEAN, ok : BOOLEAN]

(* NetfilterManager::cleanup returns Ok whatever happened.  It takes the   *)
(* table of every instance that runs.                                      *)
RemoveTable ==
    \E b \in Batch :
        /\ table' = IF b.done THEN 0 ELSE table
        /\ mishaps' = IF ~b.done /\ table > 0 THEN mishaps \cup {"deletion"}
                      ELSE IF \E i \in Instance : Running(i) THEN {"taken"} ELSE {}

(* --cleanup does that and nothing else, with or without the privileges.   *)
CleanupRun == RemoveTable /\ UNCHANGED <<pc, running, svc>>

-----------------------------------------------------------------------------
\* main

(* The arguments are in order, the user is root, the proxy has an address; *)
(* otherwise the program ends before it touches anything.                  *)
Start(i) ==
    /\ pc[i] = "off"
    /\ Goto(i, "clean")
    /\ UNCHANGED <<table, running, svc, mishaps>>

(* setup removes what is left of an earlier instance, *)
MutSetupClean(i) ==     \* trusts that the last one has cleaned up
    /\ pc[i] = "clean"
    /\ Goto(i, "install")
    /\ UNCHANGED <<table, running, svc, mishaps>>

SetupClean(i) ==
    /\ pc[i] = "clean"
    /\ RemoveTable
    /\ Goto(i, "install")
    /\ UNCHANGED <<running, svc>>

(* and adds its own chains and rules, to a table that may exist; main      *)
(* returns an error it is told of.                                         *)
InstallMishaps(i, b) ==
    (IF b.done /\ ~b.ok THEN {"death"} ELSE {})
    \cup (IF b.ok /\ ~b.done THEN {"unread"} ELSE {})
    \cup (IF \E j \in Instance \ {i} : pc[j] = "install" THEN {"overlap"} ELSE {})

MutSetupInstall(i) ==   \* goes on whatever it is told
    /\ pc[i] = "install"
    /\ \E b \in Batch :
           /\ table' = IF b.done THEN table + 1 ELSE table
           /\ Goto(i, "spawn")
           /\ mishaps' = mishaps \cup InstallMishaps(i, b)
    /\ UNCHANGED <<running, svc>>

SetupInstall(i) ==
    /\ pc[i] = "install"
    /\ \E b \in Batch :
           /\ table' = IF b.done THEN table + 1 ELSE table
           /\ Goto(i, IF b.ok THEN "spawn" ELSE "ended")
           /\ mishaps' = mishaps \cup InstallMishaps(i, b)
    /\ UNCHANGED <<running, svc>>

SpawnNfqueue(i) ==
    /\ pc[i] = "spawn"
    /\ svc' = [svc EXCEPT ![i]["nfq"] = "starting"]
    /\ Goto(i, "runtime")
    /\ UNCHANGED <<table, running, mishaps>>

(* The runtime, the signal handler and the relays: no UDP relay for an     *)
(* HTTP proxy.                                                             *)
MutStartRelays(i) ==    \* starts both, whatever the proxy
    /\ pc[i] = "runtime"
    /\ svc' = [svc EXCEPT ![i] = [x \in Service |->
                  IF x # "nfq" THEN "starting" ELSE @[x]]]
    /\ Goto(i, "serve")
    /\ UNCHANGED <<table, running, mishaps>>

StartRelays(i) ==
    /\ pc[i] = "runtime"
    /\ svc' = [svc EXCEPT ![i] = [x \in Service |->
                  IF x = "tcp" \/ (x = "udp" /\ i \in Socks5) THEN "starting" ELSE @[x]]]
    /\ Goto(i, "serve")
    /\ UNCHANGED <<table, running, mishaps>>

(* A relay task that is aborted does not start; one that runs goes on to   *)
(* its next await (ServiceEnds).                                           *)
Aborted(s) ==
    [x \in Service |-> IF x # "nfq" /\ s[x] = "starting" THEN "ended" ELSE s[x]]

(* main sees the flag within a second, aborts the relays and leaves the    *)
(* NFQUEUE thread alone.                                                   *)
MutStop(i) ==           \* joins the NFQUEUE thread
    /\ pc[i] = "serve" /\ ~running[i]
    /\ svc[i]["nfq"] # "serving"
    /\ svc' = [svc EXCEPT ![i] = Aborted(@)]
    /\ Goto(i, "remove")
    /\ UNCHANGED <<table, running, mishaps>>

Stop(i) ==
    /\ pc[i] = "serve" /\ ~running[i]
    /\ svc' = [svc EXCEPT ![i] = Aborted(@)]
    /\ Goto(i, "remove")
    /\ UNCHANGED <<table, running, mishaps>>

(* The table goes, and main returns: a step each, because the thread holds *)
(* the queue until the process ends.                                       *)
Remove(i) ==
    /\ pc[i] = "remove"
    /\ RemoveTable
    /\ Goto(i, "return")
    /\ UNCHANGED <<running, svc>>

Return(i) ==
    /\ pc[i] = "return"
    /\ End(i)
    /\ UNCHANGED <<table, running, mishaps>>

-----------------------------------------------------------------------------
\* The services

(* A service binds its queue or its port, which fails if another instance  *)
(* has it, or for another reason; the error is logged, and main goes on.   *)
Bind(i, x) ==
    /\ svc[i][x] = "starting"
    /\ \/ /\ Serving(x) = {}
          /\ svc' = [svc EXCEPT ![i][x] = "serving"]
          /\ UNCHANGED mishaps
       \/ /\ svc' = [svc EXCEPT ![i][x] = "ended"]
          /\ mishaps' = IF x = "nfq" THEN mishaps \cup {"unserved"} ELSE mishaps
    /\ UNCHANGED <<table, pc, running>>

(* Its loop ends at the first packet, connection or timeout after the flag *)
(* was cleared, and at no error before.                                    *)
MutServiceEnds(i, x) ==     \* gives up at an error of recv
    /\ svc[i][x] = "serving"
    /\ svc' = [svc EXCEPT ![i][x] = "ended"]
    /\ UNCHANGED <<table, pc, running, mishaps>>

ServiceEnds(i, x) ==
    /\ svc[i][x] = "serving" /\ ~running[i]
    /\ svc' = [svc EXCEPT ![i][x] = "ended"]
    /\ UNCHANGED <<table, pc, running, mishaps>>

-----------------------------------------------------------------------------
\* The user

(* SIGINT when the handler is there. *)
MutInterrupt(i) ==      \* the handler calls exit
    /\ pc[i] = "serve" /\ running[i]
    /\ running' = [running EXCEPT ![i] = FALSE]
    /\ End(i)
    /\ UNCHANGED <<table, mishaps>>

Interrupt(i) ==
    /\ pc[i] = "serve" /\ running[i]
    /\ running' = [running EXCEPT ![i] = FALSE]
    /\ UNCHANGED <<table, pc, svc, mishaps>>

(* The process dies: SIGINT before the handler is there, another signal, a *)
(* panic of main, a runtime or handler that cannot be made.                *)
Die(i) ==
    /\ Alive(i)
    /\ End(i)
    /\ mishaps' = IF Holding(i) THEN mishaps \cup {"death"} ELSE mishaps
    /\ UNCHANGED <<table, running>>

-----------------------------------------------------------------------------

Main(i) ==
    \/ SetupClean(i) \/ SetupInstall(i) \/ SpawnNfqueue(i) \/ StartRelays(i)
    \/ Stop(i) \/ Remove(i) \/ Return(i)

Next ==
    \/ CleanupRun
    \/ \E i \in Instance :
           \/ Start(i) \/ Main(i) \/ Interrupt(i) \/ Die(i)
           \/ \E x \in Service : Bind(i, x) \/ ServiceEnds(i, x)

Spec == Init /\ [][Next]_vars

(* main is scheduled.  Nothing is assumed of the user, nor of the packets  *)
(* and connections that wake the services.                                 *)
FairSpec == Spec /\ \A i \in Instance : WF_vars(Main(i))

-----------------------------------------------------------------------------
\* Properties

TypeOK ==
    /\ table \in Nat
    /\ pc \in [Instance -> {"off", "clean", "install", "spawn", "runtime", "serve",
                            "remove", "return", "ended"}]
    /\ running \in [Instance -> BOOLEAN]
    /\ svc \in [Instance -> [Service -> {"none", "starting", "serving", "ended"}]]
    /\ mishaps \subseteq {"death", "deletion", "taken", "overlap", "unread", "unserved"}
    /\ \A i \in Instance :
           /\ (~running[i] => pc[i] \in {"serve", "remove", "return", "ended"})
           /\ (svc[i] # Idle => pc[i] \in {"runtime", "serve", "remove", "return"})
           /\ (svc[i]["udp"] # "none" => i \in Socks5)

(* Whatever the number of starts and the order of their steps, a table     *)
(* stays behind with nobody to remove it only if a process died before its *)
(* clean-up, or the kernel refused a removal, and no later clean-up has    *)
(* come (main.rs 109-198).                                                 *)
NoOrphanTable ==
    table > 0 => (\E i \in Instance : Holding(i)) \/ mishaps \cap {"death", "deletion"} # {}

(* Starts after crashes do not pile up rules: there is more than one set   *)
(* only after a refused removal or two set-ups at the same time.           *)
OneRuleSet == table > 1 => mishaps \cap {"deletion", "overlap"} # {}

(* A program that runs has its table, which brings it the packets, unless  *)
(* the clean-up of another one took it (netfilter.rs:77) or an error of    *)
(* its own batch stayed unread (netfilter.rs:194).                         *)
RunsWithTable ==
    (table = 0 /\ \E i \in Instance : Running(i)) => mishaps \cap {"taken", "unread"} # {}

(* The table queues the packets of the whole host, and with nobody bound   *)
(* to the queue they are lost.  Without a mishap that can be only while an *)
(* instance starts or stops.                                               *)
Opening(i) == Holding(i) /\ svc[i]["nfq"] \in {"none", "starting"}
Closing(i) == Holding(i) /\ ~running[i]

QueueServed ==
    (table > 0 /\ Serving("nfq") = {}) =>
        \/ \E i \in Instance : Opening(i) \/ Closing(i)
        \/ mishaps \cap {"death", "deletion", "unserved"} # {}

(* An interrupted program ends, whether or not packets and connections     *)
(* come that would wake its services.                                      *)
StopsAfterSigint == \A i \in Instance : ~running[i] ~> pc[i] = "ended"
=============================================================================
