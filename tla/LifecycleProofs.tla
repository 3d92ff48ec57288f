--------------------------- MODULE LifecycleProofs ---------------------------
(***************************************************************************)
(* The safety properties of Lifecycle, for any number of starts of the     *)
(* program: of NoOrphanTable, OneRuleSet, RunsWithTable and QueueServed a  *)
(* strengthening that every step preserves.                                *)
(***************************************************************************)
EXTENDS Lifecycle, TLAPS

LEMMA TypeInit == Init => TypeOK
  BY DEF Init, TypeOK, Idle, Service

(* What a removal does to the table and to the history. *)
LEMMA Removal ==
    ASSUME TypeOK, RemoveTable
    PROVE  /\ table' \in Nat /\ table' <= table
           /\ mishaps' \subseteq {"death", "deletion", "taken", "overlap", "unread", "unserved"}
           /\ (table' > 0 => table' = table /\ "deletion" \in mishaps' /\ mishaps \subseteq mishaps')
           /\ (table' = 0 /\ (\E i \in Instance : Running(i)) => "taken" \in mishaps')
<1>1. PICK b \in Batch :
          /\ table' = (IF b.done THEN 0 ELSE table)
          /\ mishaps' = (IF ~b.done /\ table > 0 THEN mishaps \cup {"deletion"}
                         ELSE IF \E i \in Instance : Running(i) THEN {"taken"} ELSE {})
  BY DEF RemoveTable
<1>2. CASE b.done \/ table = 0
  BY <1>1, <1>2 DEF TypeOK, Batch
<1>3. CASE ~b.done /\ table # 0
  <2>1. table' = table /\ mishaps' = mishaps \cup {"deletion"}
    BY <1>1, <1>3 DEF TypeOK
  <2> QED
    BY <1>3, <2>1 DEF TypeOK
<1> QED
  BY <1>2, <1>3

LEMMA TypeStep == TypeOK /\ [Next]_vars => TypeOK'
<1> SUFFICES ASSUME TypeOK, [Next]_vars PROVE TypeOK'
  OBVIOUS
<1> USE LifecycleAssumption DEF TypeOK, Goto, Idle, Service
<1>1. CASE UNCHANGED vars
  BY <1>1 DEF vars
<1>2. CASE CleanupRun
  BY <1>2, Removal DEF CleanupRun
<1>3. ASSUME NEW i \in Instance, Start(i) PROVE TypeOK'
  BY <1>3 DEF Start
<1>4. ASSUME NEW i \in Instance, SetupClean(i) PROVE TypeOK'
  BY <1>4, Removal DEF SetupClean
<1>5. ASSUME NEW i \in Instance, SetupInstall(i) PROVE TypeOK'
  BY <1>5 DEF SetupInstall, InstallMishaps, Batch
<1>6. ASSUME NEW i \in Instance, SpawnNfqueue(i) PROVE TypeOK'
  BY <1>6 DEF SpawnNfqueue
<1>7. ASSUME NEW i \in Instance, StartRelays(i) PROVE TypeOK'
  BY <1>7 DEF StartRelays
<1>8. ASSUME NEW i \in Instance, Stop(i) PROVE TypeOK'
  BY <1>8 DEF Stop, Aborted
<1>9. ASSUME NEW i \in Instance, Remove(i) PROVE TypeOK'
  BY <1>9, Removal DEF Remove
<1>10. ASSUME NEW i \in Instance, Return(i) PROVE TypeOK'
  BY <1>10 DEF Return, End
<1>11. ASSUME NEW i \in Instance, Interrupt(i) PROVE TypeOK'
  BY <1>11 DEF Interrupt
<1>12. ASSUME NEW i \in Instance, Die(i) PROVE TypeOK'
  BY <1>12 DEF Die, End
<1>13. ASSUME NEW i \in Instance, NEW x \in Service, Bind(i, x) PROVE TypeOK'
  <2>1. PICK v \in {"serving", "ended"} : svc' = [svc EXCEPT ![i][x] = v]
    BY <1>13 DEF Bind
  <2>2. svc' \in [Instance -> [Service -> {"none", "starting", "serving", "ended"}]]
    BY <2>1
  <2>3. svc[i] # Idle /\ (x = "udp" => svc[i]["udp"] # "none")
    BY <1>13 DEF Bind
  <2>4. \A j \in Instance : svc'[j] # Idle => svc[j] # Idle
    BY <2>1, <2>3
  <2>5. \A j \in Instance : svc'[j]["udp"] # "none" => svc[j]["udp"] # "none"
    BY <2>1, <2>3
  <2>6. mishaps' \subseteq {"death", "deletion", "taken", "overlap", "unread", "unserved"}
    <3> HIDE LifecycleAssumption DEF TypeOK, Goto, Idle, Service
    <3>1. mishaps' = mishaps \/ mishaps' = mishaps \cup {"unserved"}
      BY <1>13 DEF Bind
    <3>2. mishaps \subseteq {"death", "deletion", "taken", "overlap", "unread", "unserved"}
      BY DEF TypeOK
    <3> QED
      BY <3>1, <3>2
  <2> QED
    BY <1>13, <2>2, <2>4, <2>5, <2>6 DEF Bind
<1>14. ASSUME NEW i \in Instance, NEW x \in Service, ServiceEnds(i, x) PROVE TypeOK'
  <2>1. svc' = [svc EXCEPT ![i][x] = "ended"] /\ svc[i][x] = "serving"
    BY <1>14 DEF ServiceEnds
  <2>2. svc' \in [Instance -> [Service -> {"none", "starting", "serving", "ended"}]]
    BY <2>1
  <2>3. \A j \in Instance : svc'[j] # Idle => svc[j] # Idle
    BY <2>1
  <2>4. \A j \in Instance : svc'[j]["udp"] # "none" => svc[j]["udp"] # "none"
    BY <2>1
  <2> QED
    BY <1>14, <2>2, <2>3, <2>4 DEF ServiceEnds
<1> HIDE DEF TypeOK, Goto, Idle
<1> QED
  BY <1>1, <1>2, <1>3, <1>4, <1>5, <1>6, <1>7, <1>8, <1>9, <1>10, <1>11, <1>12,
     <1>13, <1>14 DEF Next, Main

(* Every variable keeps to its type; a service runs only in a process that *)
(* has started it, and the UDP relay only for a SOCKS5 proxy.              *)
THEOREM TypeCorrect == Spec => []TypeOK
  BY TypeInit, TypeStep, PTL DEF Spec

-----------------------------------------------------------------------------

(* Somebody answers for the table: an instance that is past its set-up and *)
(* has the queue, or is about to bind it, or is about to remove the table; *)
(* unless something went wrong.                                            *)
Answers(i) ==
    Holding(i) /\ (~running[i] \/ svc[i]["nfq"] \in {"none", "starting", "serving"})

Answered ==
    table > 0 => \/ \E i \in Instance : Answers(i)
                 \/ mishaps \cap {"death", "deletion", "unserved"} # {}

(* An instance that has removed the table and not yet installed its own    *)
(* finds a table only after a mishap.                                      *)
InstallsAlone ==
    (table > 0 /\ \E i \in Instance : pc[i] = "install")
        => mishaps \cap {"deletion", "overlap"} # {}

Owned ==
    table > 0 => (\E i \in Instance : Holding(i)) \/ mishaps \cap {"death", "deletion"} # {}

TableInv == Owned /\ Answered /\ OneRuleSet /\ InstallsAlone /\ RunsWithTable

LEMMA TableInit == Init => TableInv
  BY DEF Init, TableInv, Owned, Answered, OneRuleSet, InstallsAlone, RunsWithTable, Running

(* After a removal there is no table, or the kernel has refused.           *)
LEMMA RemovalKeeps ==
    ASSUME TypeOK, RemoveTable, \A i \in Instance : Running(i)' => Running(i)
    PROVE  TableInv'
<1>1. table' = 0 \/ "deletion" \in mishaps'
  BY Removal DEF TypeOK
<1>2. RunsWithTable'
  BY Removal DEF RunsWithTable
<1> QED
  BY <1>1, <1>2 DEF TableInv, Owned, Answered, OneRuleSet, InstallsAlone

LEMMA TableStep == TypeOK /\ TableInv /\ [Next]_vars => TableInv'
<1> SUFFICES ASSUME TypeOK, TableInv, [Next]_vars PROVE TableInv'
  OBVIOUS
<1> USE DEF TypeOK, TableInv, Owned, Answered, OneRuleSet, InstallsAlone,
            Answers, Holding, Goto, Service, RunsWithTable, Running
<1>1. CASE UNCHANGED vars
  BY <1>1 DEF vars
<1>2. CASE CleanupRun
  BY <1>2, RemovalKeeps DEF CleanupRun
<1>3. ASSUME NEW i \in Instance, Start(i) PROVE TableInv'
  BY <1>3 DEF Start
<1>4. ASSUME NEW i \in Instance, SetupClean(i) PROVE TableInv'
  BY <1>4, RemovalKeeps DEF SetupClean
<1>5. ASSUME NEW i \in Instance, SetupInstall(i) PROVE TableInv'
  <2>1. PICK b \in Batch :
            /\ table' = (IF b.done THEN table + 1 ELSE table)
            /\ pc' = [pc EXCEPT ![i] = IF b.ok THEN "spawn" ELSE "ended"]
            /\ mishaps' = mishaps
                   \cup (IF b.done /\ ~b.ok THEN {"death"} ELSE {})
                   \cup (IF b.ok /\ ~b.done THEN {"unread"} ELSE {})
                   \cup (IF \E j \in Instance \ {i} : pc[j] = "install"
                         THEN {"overlap"} ELSE {})
    BY <1>5 DEF SetupInstall, InstallMishaps
  <2>2. mishaps \subseteq mishaps' /\ pc[i] = "install" /\ svc[i]["nfq"] = "none"
    BY <1>5, <2>1 DEF SetupInstall, Idle
  <2>3. Owned' /\ Answered'
    BY <1>5, <2>1, <2>2 DEF SetupInstall, Batch
  <2>4. OneRuleSet'
    <3>1. table' > 1 => table > 1 \/ (table > 0 /\ pc[i] = "install")
      BY <2>1, <2>2 DEF Batch
    <3> QED
      BY <3>1, <2>2
  <2>5. InstallsAlone'
    <3>1. ASSUME NEW j \in Instance, pc'[j] = "install"
          PROVE  j # i /\ pc[j] = "install"
      BY <2>1, <3>1
    <3>2. (\E j \in Instance : pc'[j] = "install") => "overlap" \in mishaps'
      BY <2>1, <3>1
    <3> QED
      BY <3>2
  <2>6. RunsWithTable'
    <3> SUFFICES ASSUME table' = 0, NEW j \in Instance, Running(j)'
                 PROVE  mishaps' \cap {"taken", "unread"} # {}
      OBVIOUS
    <3>1. table = 0 /\ ~b.done
      BY <2>1 DEF Batch
    <3>2. CASE j = i
      <4>1. b.ok
        BY <2>1, <3>2
      <4> QED
        BY <2>1, <3>1, <4>1
    <3>3. CASE j # i
      <4>1. Running(j)
        BY <2>1, <3>3
      <4>2. mishaps \cap {"taken", "unread"} # {}
        BY <3>1, <4>1
      <4> QED
        BY <2>2, <4>2
    <3> QED
      BY <3>2, <3>3
  <2> QED
    BY <2>3, <2>4, <2>5, <2>6
<1>6. ASSUME NEW i \in Instance, SpawnNfqueue(i) PROVE TableInv'
  BY <1>6 DEF SpawnNfqueue
<1>7. ASSUME NEW i \in Instance, StartRelays(i) PROVE TableInv'
  BY <1>7 DEF StartRelays
<1>8. ASSUME NEW i \in Instance, Stop(i) PROVE TableInv'
  BY <1>8 DEF Stop, Aborted
<1>9. ASSUME NEW i \in Instance, Remove(i) PROVE TableInv'
  BY <1>9, RemovalKeeps DEF Remove
<1>10. ASSUME NEW i \in Instance, Return(i) PROVE TableInv'
  BY <1>10 DEF Return, End
<1>11. ASSUME NEW i \in Instance, Interrupt(i) PROVE TableInv'
  BY <1>11 DEF Interrupt
<1>12. ASSUME NEW i \in Instance, Die(i) PROVE TableInv'
  BY <1>12 DEF Die, End, Alive
<1>13. ASSUME NEW i \in Instance, NEW x \in Service, Bind(i, x) PROVE TableInv'
  <2>1. CASE svc' = [svc EXCEPT ![i][x] = "serving"] /\ mishaps' = mishaps
    BY <1>13, <2>1 DEF Bind
  <2>2. CASE mishaps' = mishaps \cup {"unserved"}
    BY <1>13, <2>2 DEF Bind
  <2>3. CASE svc' = [svc EXCEPT ![i][x] = "ended"] /\ x # "nfq" /\ mishaps' = mishaps
    <3>1. \A j \in Instance : svc'[j]["nfq"] = svc[j]["nfq"]
      BY <2>3
    <3> QED
      BY <1>13, <2>3, <3>1 DEF Bind
  <2> QED
    BY <1>13, <2>1, <2>2, <2>3 DEF Bind
<1>14. ASSUME NEW i \in Instance, NEW x \in Service, ServiceEnds(i, x) PROVE TableInv'
  BY <1>14 DEF ServiceEnds
<1> HIDE DEF TypeOK, TableInv, Goto
<1> QED
  BY <1>1, <1>2, <1>3, <1>4, <1>5, <1>6, <1>7, <1>8, <1>9, <1>10, <1>11, <1>12,
     <1>13, <1>14 DEF Next, Main

LEMMA TableHolds == Spec => [](TypeOK /\ TableInv)
  BY TypeInit, TypeStep, TableInit, TableStep, PTL DEF Spec

(* A table that stays behind with nobody to remove it comes from a process *)
(* that died or from a removal the kernel refused.                         *)
THEOREM NoOrphanTableHolds == Spec => []NoOrphanTable
<1>1. TableInv => NoOrphanTable
  BY DEF TableInv, Owned, NoOrphanTable
<1> QED
  BY <1>1, TableHolds, PTL

(* Starts after crashes do not pile up rule sets.                          *)
THEOREM OneRuleSetHolds == Spec => []OneRuleSet
<1>1. TableInv => OneRuleSet
  BY DEF TableInv
<1> QED
  BY <1>1, TableHolds, PTL

(* An instance runs without a table only if another one's clean-up took it *)
(* or an error of its installation stayed unread.                          *)
THEOREM RunsWithTableHolds == Spec => []RunsWithTable
<1>1. TableInv => RunsWithTable
  BY DEF TableInv
<1> QED
  BY <1>1, TableHolds, PTL

(* Packets are queued to nobody only while an instance starts or stops, or *)
(* after a mishap.                                                         *)
THEOREM QueueServedHolds == Spec => []QueueServed
<1>1. TableInv => QueueServed
  BY DEF TableInv, Answered, Answers, QueueServed, Serving, Opening, Closing
<1> QED
  BY <1>1, TableHolds, PTL
=============================================================================
