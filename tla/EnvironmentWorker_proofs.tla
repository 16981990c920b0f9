---------------------- MODULE EnvironmentWorker_proofs ----------------------
(***************************************************************************)
(* Proofs about the environment workers, for every number of nodes and     *)
(* entries, every exposure, every batch size and any number of faults.     *)
(***************************************************************************)
EXTENDS EnvironmentWorker, TLAPS

USE NodesAssumption, ShapesAssumption, BoundsAssumption
USE DEF NodesAssumption, ShapesAssumption, BoundsAssumption

-----------------------------------------------------------------------------
(* Type correctness.                                                       *)

\* The bounds of one delivery: it lies after the cursor, inside the stream.
LEMMA DeliveryFacts ==
    ASSUME TypeOK, Delivery # {}
    PROVE  /\ Delivery \subseteq Ids
           /\ \A i \in Delivery : i > lastDel /\ i <= Min2(tail, NextUnread + BatchSize - 1)
           /\ Min2(tail, NextUnread + BatchSize - 1) \in 0 .. tail
           /\ Min2(tail, NextUnread + BatchSize - 1) >= lastDel
BY DEF TypeOK, Delivery, NextUnread, Max2, Min2, Ids

\* A reclaim pass and a reap pass only name entries and consumers there are.
LEMMA ScanFacts ==
    ASSUME TypeOK, NEW n \in Nodes
    PROVE  Claimable(n) \subseteq Ids /\ Reapable(n) \subseteq Nodes
BY DEF TypeOK, Claimable, Window, IdlePending, Reapable

LEMMA InitType == Init => TypeOK
<1> SUFFICES ASSUME Init PROVE TypeOK
  OBVIOUS
<1>1. shape \in [Ids -> Shapes]
  <2>1. (CHOOSE s \in Shapes : TRUE) \in Shapes
    OBVIOUS
  <2> QED
    BY <2>1 DEF Init
<1>2. tail \in 0 .. MaxEntries /\ first \in 1 .. tail + 1 /\ lastDel \in 0 .. tail
      /\ faults \in 0 .. MaxFaults
  BY DEF Init
<1>3. pel \in [Ids -> Nodes \cup {NoNode}] /\ gone \in [Ids -> Causes]
      /\ runs \in [Ids -> Nat] /\ runner \in [Ids -> Nodes \cup {NoNode}]
  BY DEF Init, Causes
<1>4. st \in [Nodes -> {"off", "idle", "busy", "claiming", "reaping", "left"}]
      /\ stop \in [Nodes -> BOOLEAN]
  BY DEF Init
<1>5. /\ todo \in [Nodes -> SUBSET Ids] /\ toAck \in [Nodes -> SUBSET Ids]
      /\ tasks \in [Nodes -> SUBSET Ids] /\ claim \in [Nodes -> SUBSET Ids]
      /\ reap \in [Nodes -> SUBSET Nodes]
  BY DEF Init
<1>6. grouped \in BOOLEAN /\ idle \subseteq Ids /\ members \subseteq Nodes
      /\ quiet \subseteq members /\ replied \subseteq Ids /\ seen \subseteq Ids
  BY DEF Init
<1> QED
  BY <1>1, <1>2, <1>3, <1>4, <1>5, <1>6 DEF TypeOK

LEMMA NextType == TypeOK /\ [Next]_vars => TypeOK'
<1> SUFFICES ASSUME TypeOK, [Next]_vars PROVE TypeOK'
  OBVIOUS
<1> USE DEF TypeOK
<1> USE DEF stream, cursor, group, roster, local, effects
<1>1. CASE Submit
  BY <1>1 DEF Submit, Ids
<1>2. ASSUME NEW i \in Ids, Age(i) PROVE TypeOK'
  BY <1>2 DEF Age
<1>3. ASSUME NEW m \in Nodes, Quiesce(m) PROVE TypeOK'
  BY <1>3 DEF Quiesce
<1>4. ASSUME NEW n \in Nodes, NodeStep(n) PROVE TypeOK'
  <2>1. CASE Start(n)
    BY <2>1 DEF Start, GroupStart
  <2>2. CASE RequestShutdown(n)
    BY <2>2 DEF RequestShutdown
  <2>3. CASE Depart(n)
    BY <2>3 DEF Depart, DelConsumer, Causes
  <2>4. CASE Exit(n)
    BY <2>4 DEF Exit, Halt
  <2>5. CASE Crash(n)
    BY <2>5 DEF Crash, Halt
  <2>6. CASE Read(n)
    <3>1. AckSet(n, Delivery) \subseteq Delivery
      BY DEF AckSet
    <3>2. seen' \subseteq Ids /\ lastDel' \in 0 .. tail'
      BY <2>6, DeliveryFacts DEF Read
    <3> QED
      BY <2>6, <3>1, <3>2, DeliveryFacts DEF Read, Attend
  <2>7. ASSUME NEW i \in Ids, DispatchInline(n, i) PROVE TypeOK'
    BY <2>7 DEF DispatchInline, Executed
  <2>8. ASSUME NEW i \in Ids, DispatchConcurrent(n, i) PROVE TypeOK'
    BY <2>8 DEF DispatchConcurrent
  <2>9. CASE Acknowledge(n)
    BY <2>9 DEF Acknowledge
  <2>10. CASE Trim(n)
    BY <2>10 DEF Trim, TrimTo
  <2>11. CASE ReclaimScan(n)
    BY <2>11, ScanFacts DEF ReclaimScan
  <2>12. CASE ReclaimTake(n)
    BY <2>12 DEF ReclaimTake, Attend, Claimed, Phantom, Causes
  <2>13. CASE ReapScan(n)
    BY <2>13, ScanFacts DEF ReapScan
  <2>14. ASSUME NEW i \in Ids, TaskRun(n, i) PROVE TypeOK'
    BY <2>14 DEF TaskRun, Executed
  <2>15. ASSUME NEW i \in Ids, TaskDrop(n, i) PROVE TypeOK'
    BY <2>15 DEF TaskDrop
  <2>16. ASSUME NEW m \in Nodes, ReapOne(n, m) PROVE TypeOK'
    BY <2>16 DEF ReapOne, DelConsumer, Causes
  <2> QED
    BY <1>4, <2>1, <2>2, <2>3, <2>4, <2>5, <2>6, <2>7, <2>8, <2>9, <2>10, <2>11,
       <2>12, <2>13, <2>14, <2>15, <2>16 DEF NodeStep
<1>5. CASE UNCHANGED vars
  BY <1>5 DEF vars
<1> QED
  BY <1>1, <1>2, <1>3, <1>4, <1>5 DEF Next

\* Every variable of the environment workers keeps its type, in every behaviour.
THEOREM TypeCorrect == Spec => []TypeOK
<1> QED
  BY InitType, NextType, PTL DEF Spec

-----------------------------------------------------------------------------
(* The inductive invariant.  At-most-once rests on the group's cursor: an    *)
(* entry is delivered to one node once, and every copy of it in a node's     *)
(* memory descends from that delivery.  Ownership in the PEL plays no part.  *)

\* The group's ledger: what is pending or has run was delivered, and delivery is
\* behind the cursor.
Ledger ==
    /\ \A i \in seen : i <= lastDel
    /\ \A i \in Ids : pel[i] # NoNode => i \in seen
    /\ \A i \in Ids : runs[i] > 0 => i \in seen

\* A node has work in hand only for commands that were delivered and not yet run.
HandFresh ==
    /\ \A n \in Nodes : \A i \in InHand(n) : i \in seen /\ runs[i] = 0 /\ IsCommand(i)
    /\ \A n \in Nodes : \A i \in tasks[n] : shape[i].lane = "concurrent"
    /\ \A n \in Nodes : st[n] # "busy" => todo[n] = {}

\* No entry is in hand twice.
HandUnique ==
    /\ \A n \in Nodes : todo[n] \cap tasks[n] = {}
    /\ \A n, m \in Nodes : n # m => InHand(n) \cap InHand(m) = {}

\* What is about to be acknowledged has been executed or is still to be dispatched first.
AckBacked ==
    \A n \in Nodes : \A i \in toAck[n] :
        /\ i \in seen
        /\ shape[i].lane = "ordered" => i \in todo[n] \/ runs[i] = 1

\* A reclaim pass names delivered entries that its node accepts.
ClaimExposed ==
    \A n \in Nodes : \A i \in claim[n] : i \in seen /\ Exposed(n, shape[i].hint)

\* A batch lies after every ordered-lane command its node has executed.
BatchAfterRuns ==
    \A n \in Nodes : \A j \in todo[n] : \A i \in Ids :
        (runs[i] > 0 /\ runner[i] = n /\ shape[i].lane = "ordered") => i < j

RepliedRan == \A i \in replied : runs[i] > 0

IInv ==
    /\ TypeOK
    /\ Ledger /\ HandFresh /\ HandUnique /\ AckBacked /\ ClaimExposed
    /\ BatchAfterRuns /\ RepliedRan
    /\ AtMostOnce /\ AcknowledgedMeansExecuted

LEMMA InitInv == Init => IInv
<1> SUFFICES ASSUME Init PROVE IInv
  OBVIOUS
<1>1. TypeOK
  BY InitType
<1>2. \A n \in Nodes : todo[n] = {} /\ tasks[n] = {} /\ toAck[n] = {} /\ claim[n] = {}
  BY DEF Init
<1>3. (\A i \in Ids : runs[i] = 0 /\ pel[i] = NoNode) /\ seen = {} /\ replied = {}
  BY DEF Init
<1>4. Ledger /\ RepliedRan /\ AtMostOnce /\ AcknowledgedMeansExecuted
  BY <1>3 DEF Ledger, RepliedRan, AtMostOnce, AcknowledgedMeansExecuted
<1>5. HandFresh /\ HandUnique /\ AckBacked /\ ClaimExposed /\ BatchAfterRuns
  BY <1>2 DEF HandFresh, HandUnique, InHand, AckBacked, ClaimExposed, BatchAfterRuns
<1> QED
  BY <1>1, <1>4, <1>5 DEF IInv

\* Steps that leave the batches alone and only move or discard pending entries.
LEMMA FrameKeeps ==
    ASSUME IInv, TypeOK',
           UNCHANGED <<shape, seen, runs, runner, replied, todo, tasks, toAck>>,
           lastDel' >= lastDel,
           \A i \in Ids : pel'[i] # NoNode => pel[i] # NoNode,
           \A i \in Ids : pel'[i] = NoNode /\ gone'[i] = "none"
                              => pel[i] = NoNode /\ gone[i] = "none",
           \A n \in Nodes : claim'[n] \subseteq claim[n],
           \A n \in Nodes : st'[n] # "busy" => st[n] # "busy"
    PROVE  IInv'
<1> USE DEF IInv
<1>1. Ledger'
  BY DEF Ledger, TypeOK, Ids
<1>2. HandFresh' /\ HandUnique'
  BY DEF HandFresh, HandUnique, InHand, IsCommand
<1>3. AckBacked' /\ BatchAfterRuns' /\ RepliedRan' /\ AtMostOnce'
  BY DEF AckBacked, BatchAfterRuns, RepliedRan, AtMostOnce
<1>4. ClaimExposed'
  BY DEF ClaimExposed, Exposed, Accepts
<1>5. AcknowledgedMeansExecuted'
  BY DEF AcknowledgedMeansExecuted, TypeOK
<1> QED
  BY <1>1, <1>2, <1>3, <1>4, <1>5

LEMMA SubmitKeeps == ASSUME IInv, Submit, TypeOK' PROVE IInv'
<1> USE DEF IInv, Submit, cursor, group, roster, local, effects
<1>1. \A i \in seen : i \in Ids /\ shape'[i] = shape[i]
  BY DEF Ledger, TypeOK, Ids
<1>2. Ledger'
  BY DEF Ledger
<1>3. HandFresh' /\ HandUnique'
  BY <1>1 DEF HandFresh, HandUnique, InHand, IsCommand
<1>4. AckBacked' /\ RepliedRan' /\ AtMostOnce'
  BY <1>1 DEF AckBacked, RepliedRan, AtMostOnce
<1>5. BatchAfterRuns'
  BY <1>1 DEF BatchAfterRuns, Ledger
<1>6. ClaimExposed'
  BY <1>1 DEF ClaimExposed, Exposed
<1>7. AcknowledgedMeansExecuted'
  BY <1>1 DEF AcknowledgedMeansExecuted
<1> QED
  BY <1>2, <1>3, <1>4, <1>5, <1>6, <1>7

\* A dead process forgets its work in hand, and nothing else.
LEMMA HaltKeeps == ASSUME IInv, NEW n \in Nodes, Halt(n), TypeOK' PROVE IInv'
<1> USE DEF IInv, Halt, stream, cursor, group, roster, effects
<1>1. \A m \in Nodes : /\ todo'[m]  = IF m = n THEN {} ELSE todo[m]
                       /\ tasks'[m] = IF m = n THEN {} ELSE tasks[m]
                       /\ toAck'[m] = IF m = n THEN {} ELSE toAck[m]
                       /\ claim'[m] = IF m = n THEN {} ELSE claim[m]
                       /\ st'[m] = IF m = n THEN "off" ELSE st[m]
  BY DEF TypeOK
<1>2. Ledger' /\ RepliedRan' /\ AtMostOnce' /\ AcknowledgedMeansExecuted'
  BY DEF Ledger, RepliedRan, AtMostOnce, AcknowledgedMeansExecuted
<1>3. HandFresh' /\ HandUnique'
  BY <1>1 DEF HandFresh, HandUnique, InHand, IsCommand
<1>4. AckBacked' /\ BatchAfterRuns'
  BY <1>1 DEF AckBacked, BatchAfterRuns
<1>5. ClaimExposed'
  BY <1>1 DEF ClaimExposed, Exposed
<1> QED
  BY <1>2, <1>3, <1>4, <1>5

\* A delivery is new to the group: no node has it in hand, nothing of it has run.
LEMMA ReadKeeps == ASSUME IInv, NEW n \in Nodes, Read(n), TypeOK' PROVE IInv'
<1> DEFINE D == Delivery
<1>1. /\ D \subseteq Ids
      /\ \A i \in D : i > lastDel /\ i <= lastDel'
      /\ lastDel' >= lastDel
  BY DeliveryFacts DEF IInv, Read
<1>2. /\ seen' = seen \cup D
      /\ pel' = [i \in Ids |-> IF i \in D THEN n ELSE pel[i]]
      /\ UNCHANGED <<shape, tasks, claim, gone, runs, runner, replied>>
      /\ st[n] = "idle"
  BY DEF Read, stream, effects
<1>3. \A m \in Nodes : /\ todo'[m]  = IF m = n THEN {i \in D : Mine(n, i)} ELSE todo[m]
                       /\ toAck'[m] = IF m = n THEN AckSet(n, D) ELSE toAck[m]
                       /\ st'[m] = IF m = n THEN "busy" ELSE st[m]
  BY DEF IInv, TypeOK, Read
<1>4. \A i \in AckSet(n, D) : i \in D /\ (shape[i].lane = "ordered" => Mine(n, i))
  BY DEF AckSet, IsCommand
<1> HIDE DEF D
<1> USE DEF IInv
<1>5. \A i \in D : i \in Ids /\ i \notin seen /\ runs[i] = 0
  BY <1>1 DEF Ledger, TypeOK, Ids
<1>6. Ledger'
  BY <1>1, <1>2 DEF Ledger, TypeOK, Ids
<1>7. HandFresh'
  <2>1. \A m \in Nodes : \A i \in InHand(m)' :
            i \in seen' /\ runs'[i] = 0 /\ IsCommand(i)'
    BY <1>2, <1>3, <1>5 DEF HandFresh, InHand, Mine, IsCommand
  <2>2. \A m \in Nodes : \A i \in tasks'[m] : shape'[i].lane = "concurrent"
    BY <1>2 DEF HandFresh
  <2>3. \A m \in Nodes : st'[m] # "busy" => todo'[m] = {}
    BY <1>3 DEF HandFresh
  <2> QED
    BY <2>1, <2>2, <2>3 DEF HandFresh
<1>8. HandUnique'
  <2>1. \A m \in Nodes : InHand(m) \cap D = {} /\ tasks[m] \cap D = {}
    BY <1>5 DEF HandFresh, InHand
  <2>2. \A m \in Nodes : InHand(m)' \subseteq InHand(m) \cup (IF m = n THEN D ELSE {})
    BY <1>2, <1>3 DEF InHand
  <2>3. \A m \in Nodes : todo'[m] \cap tasks'[m] = {}
    BY <1>2, <1>3, <2>1 DEF HandUnique
  <2>4. \A m, k \in Nodes : m # k => InHand(m)' \cap InHand(k)' = {}
    BY <2>1, <2>2 DEF HandUnique
  <2> QED
    BY <2>3, <2>4 DEF HandUnique
<1>9. AckBacked'
  BY <1>2, <1>3, <1>4 DEF AckBacked
<1>10. ClaimExposed'
  BY <1>2 DEF ClaimExposed, Exposed
<1>11. BatchAfterRuns'
  <2>1. \A j \in D : \A i \in Ids : runs[i] > 0 => i < j
    BY <1>1 DEF Ledger, TypeOK, Ids
  <2> QED
    BY <1>2, <1>3, <2>1 DEF BatchAfterRuns
<1>12. AcknowledgedMeansExecuted'
  BY <1>2, <1>5 DEF AcknowledgedMeansExecuted, TypeOK
<1>13. RepliedRan' /\ AtMostOnce'
  BY <1>2 DEF RepliedRan, AtMostOnce
<1> QED
  BY <1>6, <1>7, <1>8, <1>9, <1>10, <1>11, <1>12, <1>13

\* A command in hand that runs, or is dropped, leaves the hand it was in.
LEMMA InlineKeeps ==
    ASSUME IInv, NEW n \in Nodes, NEW e \in Ids, DispatchInline(n, e), TypeOK'
    PROVE  IInv'
<1> USE DEF IInv
<1>1. /\ e \in todo[n] /\ \A j \in todo[n] : e <= j
      /\ e \in InHand(n) /\ e \notin tasks[n]
  BY DEF DispatchInline, Oldest, InHand, HandUnique
<1>2. /\ UNCHANGED <<shape, lastDel, seen, pel, gone, tasks, toAck, claim, st>>
      /\ replied' \in {replied, replied \cup {e}}
  BY DEF DispatchInline, Executed, stream, cursor, group
<1>3. \A i \in Ids : /\ runs'[i] = IF i = e THEN runs[e] + 1 ELSE runs[i]
                     /\ runner'[i] = IF i = e THEN n ELSE runner[i]
  BY DEF DispatchInline, Executed, TypeOK
<1>4. \A m \in Nodes : todo'[m] = IF m = n THEN todo[n] \ {e} ELSE todo[m]
  BY DEF DispatchInline, TypeOK
<1>5. e \in seen /\ runs[e] = 0
  BY <1>1 DEF HandFresh
<1>6. \A m \in Nodes : e \notin InHand(m)'
  BY <1>1, <1>2, <1>4 DEF HandUnique, InHand
<1>7. \A m \in Nodes : InHand(m)' \subseteq InHand(m)
  BY <1>2, <1>4 DEF InHand
<1>8. Ledger'
  BY <1>2, <1>3, <1>5 DEF Ledger
<1>9. HandFresh'
  <2>1. \A m \in Nodes : \A i \in InHand(m)' : i \in seen' /\ runs'[i] = 0 /\ IsCommand(i)'
    BY <1>2, <1>3, <1>6, <1>7 DEF HandFresh, IsCommand, InHand, TypeOK
  <2> QED
    BY <1>2, <1>4, <2>1 DEF HandFresh
<1>10. HandUnique'
  BY <1>2, <1>4, <1>7 DEF HandUnique
<1>11. AckBacked'
  BY <1>2, <1>3, <1>4, <1>5 DEF AckBacked, TypeOK
<1>12. ClaimExposed'
  BY <1>2 DEF ClaimExposed, Exposed
<1>13. BatchAfterRuns'
  <2>1. ASSUME NEW j \in todo'[n] PROVE e < j
    BY <1>1, <1>4 DEF TypeOK, Ids
  <2> QED
    BY <1>1, <1>2, <1>3, <1>4, <2>1 DEF BatchAfterRuns
<1>14. RepliedRan' /\ AtMostOnce' /\ AcknowledgedMeansExecuted'
  BY <1>2, <1>3, <1>5 DEF RepliedRan, AtMostOnce, AcknowledgedMeansExecuted, TypeOK
<1> QED
  BY <1>8, <1>9, <1>10, <1>11, <1>12, <1>13, <1>14

LEMMA ConcurrentKeeps ==
    ASSUME IInv, NEW n \in Nodes, NEW e \in Ids, DispatchConcurrent(n, e), TypeOK'
    PROVE  IInv'
<1> USE DEF IInv
<1>1. e \in todo[n] /\ shape[e].lane = "concurrent"
  BY DEF DispatchConcurrent, Oldest
<1>2. UNCHANGED <<shape, lastDel, seen, pel, gone, toAck, claim, st, runs, runner, replied>>
  BY DEF DispatchConcurrent, stream, cursor, group, effects
<1>3. \A m \in Nodes : /\ todo'[m] = IF m = n THEN todo[n] \ {e} ELSE todo[m]
                       /\ tasks'[m] = IF m = n THEN tasks[n] \cup {e} ELSE tasks[m]
  BY DEF DispatchConcurrent, TypeOK
<1>4. \A m \in Nodes : InHand(m)' = InHand(m)
  BY <1>1, <1>3 DEF InHand
<1>5. Ledger' /\ RepliedRan' /\ AtMostOnce' /\ AcknowledgedMeansExecuted'
  BY <1>2 DEF Ledger, RepliedRan, AtMostOnce, AcknowledgedMeansExecuted
<1>6. HandFresh'
  BY <1>1, <1>2, <1>3, <1>4 DEF HandFresh, IsCommand
<1>7. HandUnique'
  BY <1>3, <1>4 DEF HandUnique
<1>8. AckBacked'
  BY <1>1, <1>2, <1>3 DEF AckBacked
<1>9. ClaimExposed'
  BY <1>2 DEF ClaimExposed, Exposed
<1>10. BatchAfterRuns'
  BY <1>2, <1>3 DEF BatchAfterRuns
<1> QED
  BY <1>5, <1>6, <1>7, <1>8, <1>9, <1>10

\* What a task leaves behind, whether its handler ran or it was dropped.
LEMMA TaskKeeps ==
    ASSUME IInv, NEW n \in Nodes, NEW e \in Ids, TaskRun(n, e) \/ TaskDrop(n, e), TypeOK'
    PROVE  IInv'
<1> USE DEF IInv
<1>1. e \in tasks[n] /\ e \in InHand(n) /\ e \notin todo[n]
  BY DEF TaskRun, TaskDrop, InHand, HandUnique
<1>2. UNCHANGED <<shape, lastDel, seen, pel, gone, todo, toAck, claim, st>>
  BY DEF TaskRun, TaskDrop, Executed, stream, cursor, group
<1>3. \A i \in Ids : i # e => runs'[i] = runs[i] /\ runner'[i] = runner[i]
  BY DEF TaskRun, TaskDrop, Executed, TypeOK, effects
<1>4. \A m \in Nodes : tasks'[m] = IF m = n THEN tasks[n] \ {e} ELSE tasks[m]
  BY DEF TaskRun, TaskDrop, TypeOK
<1>5. e \in seen /\ runs[e] = 0 /\ shape[e].lane = "concurrent"
  BY <1>1 DEF HandFresh
<1>6. runs'[e] \in {0, 1}
  BY <1>5 DEF TaskRun, TaskDrop, Executed, TypeOK, effects
<1>7. \A i \in replied' : i \in replied \/ (i = e /\ runs'[e] = 1)
  <2>1. CASE TaskRun(n, e)
    BY <1>5, <2>1 DEF TaskRun, Executed, TypeOK
  <2>2. CASE TaskDrop(n, e)
    BY <2>2 DEF TaskDrop, effects
  <2> QED
    BY <2>1, <2>2
<1>8. \A m \in Nodes : e \notin InHand(m)' /\ InHand(m)' \subseteq InHand(m)
  BY <1>1, <1>2, <1>4 DEF HandUnique, InHand
<1>9. Ledger'
  BY <1>2, <1>3, <1>5 DEF Ledger
<1>10. HandFresh'
  <2>1. \A m \in Nodes : \A i \in InHand(m)' : i \in seen' /\ runs'[i] = 0 /\ IsCommand(i)'
    BY <1>2, <1>3, <1>8 DEF HandFresh, IsCommand, InHand, TypeOK
  <2> QED
    BY <1>2, <1>4, <2>1 DEF HandFresh
<1>11. HandUnique'
  BY <1>2, <1>4, <1>8 DEF HandUnique
<1>12. AckBacked'
  BY <1>2, <1>3, <1>5 DEF AckBacked, TypeOK
<1>13. ClaimExposed'
  BY <1>2 DEF ClaimExposed, Exposed
<1>14. BatchAfterRuns'
  BY <1>2, <1>3, <1>5 DEF BatchAfterRuns
<1>15. RepliedRan'
  <2>1. ASSUME NEW i \in replied PROVE runs'[i] > 0
    <3>1. i \in Ids /\ runs[i] > 0 /\ i # e
      BY <1>5 DEF RepliedRan, TypeOK
    <3> QED
      BY <1>3, <3>1
  <2> QED
    BY <1>7, <2>1 DEF RepliedRan
<1>16. AtMostOnce' /\ AcknowledgedMeansExecuted'
  BY <1>2, <1>3, <1>5, <1>6 DEF AtMostOnce, AcknowledgedMeansExecuted, TypeOK
<1> QED
  BY <1>9, <1>10, <1>11, <1>12, <1>13, <1>14, <1>15, <1>16

\* The whole batch has been dispatched when it is acknowledged.
LEMMA AcknowledgeKeeps ==
    ASSUME IInv, NEW n \in Nodes, Acknowledge(n), TypeOK'
    PROVE  IInv'
<1> USE DEF IInv
<1>1. todo[n] = {} /\ todo' = todo
  BY DEF Acknowledge, AckReady, TypeOK
<1>2. UNCHANGED <<shape, lastDel, seen, gone, tasks, claim, runs, runner, replied>>
  BY DEF Acknowledge, stream, cursor, effects
<1>3. \A i \in Ids : pel'[i] # pel[i] => pel'[i] = NoNode /\ i \in toAck[n]
  BY DEF Acknowledge, TypeOK
<1>4. \A m \in Nodes : /\ toAck'[m] = IF m = n THEN {} ELSE toAck[m]
                       /\ st'[m] = IF m = n THEN "idle" ELSE st[m]
  BY DEF Acknowledge, TypeOK
<1>5. Ledger' /\ RepliedRan' /\ AtMostOnce'
  BY <1>2, <1>3 DEF Ledger, RepliedRan, AtMostOnce
<1>6. HandFresh' /\ HandUnique'
  BY <1>1, <1>2, <1>4 DEF HandFresh, HandUnique, InHand, IsCommand
<1>7. AckBacked' /\ BatchAfterRuns'
  BY <1>1, <1>2, <1>4 DEF AckBacked, BatchAfterRuns
<1>8. ClaimExposed'
  BY <1>2 DEF ClaimExposed, Exposed
<1>9. AcknowledgedMeansExecuted'
  BY <1>1, <1>2, <1>3 DEF AckBacked, AcknowledgedMeansExecuted, TypeOK
<1> QED
  BY <1>5, <1>6, <1>7, <1>8, <1>9

LEMMA ScanKeeps ==
    ASSUME IInv, NEW n \in Nodes, ReclaimScan(n), TypeOK'
    PROVE  IInv'
<1> USE DEF IInv, ReclaimScan, stream, cursor, group, effects
<1>1. \A i \in Claimable(n) : i \in seen /\ Exposed(n, shape[i].hint)
  BY DEF Claimable, Window, IdlePending, Ledger, TypeOK
<1>2. \A m \in Nodes : /\ claim'[m] = IF m = n THEN Claimable(n) ELSE claim[m]
                       /\ st'[m] = IF m = n THEN "claiming" ELSE st[m]
  BY DEF TypeOK
<1>3. Ledger' /\ RepliedRan' /\ AtMostOnce' /\ AcknowledgedMeansExecuted'
  BY DEF Ledger, RepliedRan, AtMostOnce, AcknowledgedMeansExecuted
<1>4. HandFresh' /\ HandUnique' /\ AckBacked' /\ BatchAfterRuns'
  BY <1>2 DEF HandFresh, HandUnique, InHand, IsCommand, AckBacked, BatchAfterRuns
<1>5. ClaimExposed'
  BY <1>1, <1>2 DEF ClaimExposed, Exposed
<1> QED
  BY <1>3, <1>4, <1>5

LEMMA NextInv == IInv /\ [Next]_vars => IInv'
<1> SUFFICES ASSUME IInv, [Next]_vars PROVE IInv'
  OBVIOUS
<1>0. TypeOK /\ TypeOK'
  BY NextType DEF IInv
<1> USE DEF stream, cursor, group, roster, local, effects
<1>1. CASE Submit
  BY <1>0, <1>1, SubmitKeeps
<1>2. ASSUME NEW i \in Ids, Age(i) PROVE IInv'
  BY <1>0, <1>2, FrameKeeps DEF Age, TypeOK
<1>3. ASSUME NEW m \in Nodes, Quiesce(m) PROVE IInv'
  BY <1>0, <1>3, FrameKeeps DEF Quiesce, TypeOK
<1>4. ASSUME NEW n \in Nodes, NodeStep(n) PROVE IInv'
  <2>1. CASE Start(n)
    BY <1>0, <2>1, FrameKeeps DEF Start, GroupStart, TypeOK
  <2>2. CASE RequestShutdown(n)
    BY <1>0, <2>2, FrameKeeps DEF RequestShutdown, TypeOK
  <2>3. CASE Depart(n)
    BY <1>0, <2>3, FrameKeeps DEF Depart, DelConsumer, TypeOK
  <2>4. CASE Exit(n) \/ Crash(n)
    BY <1>0, <2>4, HaltKeeps DEF Exit, Crash
  <2>5. CASE Read(n)
    BY <1>0, <2>5, ReadKeeps
  <2>6. CASE Acknowledge(n)
    BY <1>0, <2>6, AcknowledgeKeeps
  <2>7. CASE Trim(n)
    BY <1>0, <2>7, FrameKeeps DEF Trim, TypeOK
  <2>8. ASSUME NEW i \in Ids, DispatchInline(n, i) \/ DispatchConcurrent(n, i) PROVE IInv'
    BY <1>0, <2>8, InlineKeeps, ConcurrentKeeps
  <2>9. ASSUME NEW i \in Ids, TaskRun(n, i) \/ TaskDrop(n, i) PROVE IInv'
    BY <1>0, <2>9, TaskKeeps
  <2>10. CASE ReclaimScan(n)
    BY <1>0, <2>10, ScanKeeps
  <2>11. CASE ReclaimTake(n)
    <3>1. \A i \in Ids : /\ pel'[i] # NoNode => pel[i] # NoNode
                         /\ pel'[i] = NoNode /\ gone'[i] = "none"
                                => pel[i] = NoNode /\ gone[i] = "none"
      BY <1>0, <2>11 DEF ReclaimTake, Claimed, Phantom, TypeOK
    <3> QED
      BY <1>0, <2>11, <3>1, FrameKeeps DEF ReclaimTake, TypeOK
  <2>12. CASE ReapScan(n)
    BY <1>0, <2>12, FrameKeeps DEF ReapScan, TypeOK
  <2>13. ASSUME NEW m \in Nodes, ReapOne(n, m) PROVE IInv'
    BY <1>0, <2>13, FrameKeeps DEF ReapOne, DelConsumer, TypeOK
  <2> QED
    BY <1>4, <2>1, <2>2, <2>3, <2>4, <2>5, <2>6, <2>7, <2>8, <2>9, <2>10, <2>11,
       <2>12, <2>13 DEF NodeStep
<1>5. CASE UNCHANGED vars
  BY <1>0, <1>5, FrameKeeps DEF vars, TypeOK
<1> QED
  BY <1>1, <1>2, <1>3, <1>4, <1>5 DEF Next

LEMMA Invariance == Spec => []IInv
<1> QED
  BY InitInv, NextInv, PTL DEF Spec

\* No command is executed twice, whatever crashes, restarts, reclaims and reaps happen.
THEOREM ExecutedAtMostOnce == Spec => []AtMostOnce
<1>1. IInv => AtMostOnce
  BY DEF IInv
<1> QED
  BY <1>1, Invariance, PTL

\* An ordered-lane command that an XACK took off the pending list has been executed.
THEOREM AcknowledgedAfterExecution == Spec => []AcknowledgedMeansExecuted
<1>1. IInv => AcknowledgedMeansExecuted
  BY DEF IInv
<1> QED
  BY <1>1, Invariance, PTL

-----------------------------------------------------------------------------
(* Action properties.                                                      *)

\* A pending entry changes hands only to a consumer whose exposure accepts it, and
\* only when it was idle.
LEMMA OwnershipStep ==
    ASSUME IInv, [Next]_vars, NEW i \in Ids,
           pel[i] # NoNode, pel'[i] # NoNode, pel'[i] # pel[i]
    PROVE  Exposed(pel'[i], shape[i].hint) /\ i \in idle
<1> USE DEF IInv, stream, cursor, group, roster, local, effects
<1>1. ASSUME NEW n \in Nodes, Read(n) PROVE FALSE
  <2>1. i \in Delivery => i > lastDel
    BY <1>1, DeliveryFacts DEF Read
  <2> QED
    BY <1>1, <2>1 DEF Read, Ledger, TypeOK, Ids
<1>2. ASSUME NEW n \in Nodes, ReclaimTake(n)
      PROVE  Exposed(pel'[i], shape[i].hint) /\ i \in idle
  BY <1>2 DEF ReclaimTake, Claimed, Phantom, ClaimExposed, TypeOK
<1>3. ASSUME NEW n \in Nodes, NodeStep(n), ~Read(n), ~ReclaimTake(n) PROVE FALSE
  <2>1. pel'[i] = pel[i] \/ pel'[i] = NoNode
    BY <1>3 DEF NodeStep, Start, RequestShutdown, Depart, Exit, Crash, Halt, DelConsumer,
          Acknowledge, Trim, DispatchInline, DispatchConcurrent, TaskRun, TaskDrop,
          ReclaimScan, ReapScan, ReapOne, TypeOK
  <2> QED
    BY <2>1
<1>4. CASE Submit \/ (\E j \in Ids : Age(j)) \/ (\E m \in Nodes : Quiesce(m))
  BY <1>4 DEF Submit, Age, Quiesce
<1>5. CASE UNCHANGED vars
  BY <1>5 DEF vars
<1> QED
  BY <1>1, <1>2, <1>3, <1>4, <1>5 DEF Next

\* A reclaim pass takes an entry over only when it was idle and the new owner's
\* exposure accepts it: it inspects before it claims.
THEOREM OwnershipInspected == Spec => OwnershipMovesToExposed
<1>1. IInv /\ [Next]_vars =>
        [\A i \in Ids : (pel[i] # NoNode /\ pel'[i] # NoNode /\ pel'[i] # pel[i])
            => Exposed(pel'[i], shape[i].hint) /\ i \in idle]_vars
  BY OwnershipStep
<1> QED
  BY <1>1, Invariance, PTL DEF Spec, OwnershipMovesToExposed

\* One node runs ordered-lane commands in stream order.
LEMMA OrderStep ==
    ASSUME IInv, [Next]_vars, NEW i \in Ids, NEW j \in Ids,
           runs'[i] # runs[i], shape[i].lane = "ordered",
           runs[j] > 0, shape[j].lane = "ordered", runner[j] = runner'[i]
    PROVE  j < i
<1> USE DEF IInv, stream, cursor, group, roster, local, effects
<1>1. ASSUME NEW n \in Nodes, NEW e \in Ids, DispatchInline(n, e) PROVE j < i
  BY <1>1 DEF DispatchInline, Oldest, Executed, BatchAfterRuns, TypeOK
<1>2. ASSUME NEW n \in Nodes, NEW e \in Ids, TaskRun(n, e) PROVE FALSE
  BY <1>2 DEF TaskRun, Executed, HandFresh, TypeOK
<1>3. ASSUME NEW n \in Nodes, NodeStep(n),
             ~\E e \in Ids : DispatchInline(n, e) \/ TaskRun(n, e)
      PROVE  FALSE
  BY <1>3 DEF NodeStep, Start, RequestShutdown, Depart, Exit, Crash, Halt, Read,
        Acknowledge, Trim, DispatchConcurrent, TaskDrop, ReclaimScan, ReclaimTake,
        ReapScan, ReapOne
<1>4. CASE Submit \/ (\E k \in Ids : Age(k)) \/ (\E m \in Nodes : Quiesce(m))
  BY <1>4 DEF Submit, Age, Quiesce
<1>5. CASE UNCHANGED vars
  BY <1>5 DEF vars
<1> QED
  BY <1>1, <1>2, <1>3, <1>4, <1>5 DEF Next

\* The ordered lane of one node never goes back to an earlier entry of the stream.
THEOREM OrderedLane == Spec => OrderedLaneInOrder
<1>1. IInv /\ [Next]_vars =>
        [\A i, j \in Ids :
            (/\ runs'[i] # runs[i] /\ shape[i].lane = "ordered"
             /\ runs[j] > 0 /\ shape[j].lane = "ordered" /\ runner[j] = runner'[i])
                => j < i]_vars
  BY OrderStep
<1> QED
  BY <1>1, Invariance, PTL DEF Spec, OrderedLaneInOrder

-----------------------------------------------------------------------------
(* The environment workers implement the at-most-once queue, for every     *)
(* number of nodes and entries: a step of the workers executes one open    *)
(* command, submits one, loses some, or changes the fate of none.          *)

\* The fates of the entries, one by one.
LEMMA FateOf ==
    ASSUME NEW i \in Ids
    PROVE  fate[i] = IF i > tail \/ ~IsCommand(i) THEN "absent"
                     ELSE IF i \in replied THEN "answered"
                     ELSE IF runs[i] > 0 THEN "executed"
                     ELSE IF Reachable(i) THEN "open" ELSE "lost"
BY DEF fate

\* A step that runs and submits nothing can only lose what was open.
LEMMA LosingStep ==
    ASSUME UNCHANGED <<shape, tail, replied, runs>>,
           \A i \in Ids : Reachable(i)' => Reachable(i)
    PROVE  Queue!Next
<1> DEFINE S == {i \in Ids : fate[i] = "open" /\ fate'[i] = "lost"}
<1>1. \A i \in Ids : fate'[i] = fate[i] \/ (fate[i] = "open" /\ fate'[i] = "lost")
  <2> TAKE i \in Ids
  <2>1. IsCommand(i)' = IsCommand(i)
    BY DEF IsCommand
  <2>2. fate'[i] = IF i > tail \/ ~IsCommand(i) THEN "absent"
                   ELSE IF i \in replied THEN "answered"
                   ELSE IF runs[i] > 0 THEN "executed"
                   ELSE IF Reachable(i)' THEN "open" ELSE "lost"
    BY <2>1 DEF fate
  <2> QED
    BY <2>2, FateOf
<1>2. fate' = [i \in Ids |-> IF i \in S THEN "lost" ELSE fate[i]]
  <2>1. fate' = [i \in Ids |-> fate'[i]]
    BY DEF fate
  <2>2. \A i \in Ids : fate'[i] = IF i \in S THEN "lost" ELSE fate[i]
    BY <1>1
  <2> QED
    BY <2>1, <2>2
<1>3. Queue!Lose(S)
  BY <1>2 DEF Queue!Lose
<1> QED
  BY <1>3 DEF Queue!Next

\* A handler that runs executes one open command.
LEMMA ExecutingStep ==
    ASSUME IInv, NEW n \in Nodes, NEW e \in Ids,
           DispatchInline(n, e) \/ TaskRun(n, e)
    PROVE  Queue!Next
<1> USE DEF IInv
<1>1. e \in InHand(n)
  BY DEF DispatchInline, Oldest, TaskRun, InHand
<1>2. e \in seen /\ runs[e] = 0 /\ IsCommand(e) /\ e <= tail /\ e \notin replied
  BY <1>1 DEF HandFresh, Ledger, RepliedRan, TypeOK, Ids
<1>3. UNCHANGED <<shape, tail, first, grouped, lastDel>>
  BY DEF DispatchInline, TaskRun, stream, cursor
<1>4. \A i \in Ids : i # e => runs'[i] = runs[i] /\ (i \in replied' <=> i \in replied)
  BY DEF DispatchInline, TaskRun, Executed, TypeOK
<1>5. runs'[e] = 1
  BY <1>2 DEF DispatchInline, TaskRun, Executed, TypeOK
<1>6. \A m \in Nodes : \A i \in Ids : i # e => (i \in InHand(m)' <=> i \in InHand(m))
  BY DEF DispatchInline, TaskRun, InHand, TypeOK
<1>7. \A i \in Ids : i # e => (Reachable(i)' <=> Reachable(i))
  BY <1>3, <1>6 DEF Reachable
<1>8. fate[e] = "open"
  BY <1>1, <1>2, FateOf DEF Reachable, TypeOK, Ids
<1>9. \A i \in Ids : IsCommand(i)' <=> IsCommand(i)
  BY <1>3 DEF IsCommand
<1>10. fate'[e] = IF e \in replied' THEN "answered" ELSE "executed"
  BY <1>2, <1>3, <1>5, <1>9 DEF fate, TypeOK, Ids
<1>11. \A i \in Ids : i # e => fate'[i] = fate[i]
  <2> TAKE i \in Ids
  <2> HAVE i # e
  <2>1. fate'[i] = IF i > tail \/ ~IsCommand(i) THEN "absent"
                   ELSE IF i \in replied' THEN "answered"
                   ELSE IF runs'[i] > 0 THEN "executed"
                   ELSE IF Reachable(i)' THEN "open" ELSE "lost"
    BY <1>3, <1>9 DEF fate
  <2> QED
    BY <1>4, <1>7, <2>1, FateOf
<1>12. fate' = [fate EXCEPT ![e] = fate'[e]]
  <2>1. fate = [i \in Ids |-> fate[i]] /\ fate' = [i \in Ids |-> fate'[i]]
    BY DEF fate
  <2> QED
    BY <1>11, <2>1
<1>13. Queue!Execute(e)
  BY <1>8, <1>10, <1>12 DEF Queue!Execute
<1> QED
  BY <1>13 DEF Queue!Next

\* Writing an entry submits one absent command, or nothing when it is no command.
LEMMA SubmittingStep ==
    ASSUME IInv, Submit
    PROVE  Queue!Next \/ UNCHANGED fate
<1> USE DEF IInv
<1>0. PICK e \in Ids : e = tail + 1
  BY BoundsAssumption DEF Submit, TypeOK, Ids
<1>1. /\ tail' = e
      /\ UNCHANGED <<first, grouped, lastDel, seen, todo, tasks, replied, runs>>
      /\ \A i \in Ids : i # e => shape'[i] = shape[i]
  BY <1>0 DEF Submit, TypeOK, cursor, local, effects
<1>2. e \notin replied /\ runs[e] = 0 /\ e >= first /\ e > lastDel
  BY <1>0 DEF Ledger, RepliedRan, TypeOK, Ids
<1>3. \A i \in Ids : Reachable(i)' <=> Reachable(i)
  BY <1>1 DEF Reachable, InHand
<1>4. Reachable(e)'
  BY <1>1, <1>2 DEF Reachable
<1>5. \A i \in Ids : i # e => (IsCommand(i)' <=> IsCommand(i))
  BY <1>1 DEF IsCommand
<1>6. \A i \in Ids : fate'[i] = IF i > tail' \/ ~IsCommand(i)' THEN "absent"
                                ELSE IF i \in replied THEN "answered"
                                ELSE IF runs[i] > 0 THEN "executed"
                                ELSE IF Reachable(i)' THEN "open" ELSE "lost"
  BY <1>1 DEF fate
<1>7. fate[e] = "absent" /\ fate'[e] \in {"absent", "open"}
  BY <1>0, <1>1, <1>2, <1>4, <1>6, FateOf DEF TypeOK
<1>8. ASSUME NEW i \in Ids, i # e PROVE fate'[i] = fate[i]
  <2>1. i > tail' <=> i > tail
    BY <1>0, <1>1, <1>8 DEF TypeOK, Ids
  <2>2. (Reachable(i)' <=> Reachable(i)) /\ (IsCommand(i)' <=> IsCommand(i))
    BY <1>3, <1>5, <1>8
  <2> QED BY <1>6, <2>1, <2>2, FateOf
<1>9. fate = [i \in Ids |-> fate[i]] /\ fate' = [i \in Ids |-> fate'[i]]
  BY DEF fate
<1>10. fate' = [fate EXCEPT ![e] = fate'[e]]
  BY <1>8, <1>9
<1>11. CASE fate'[e] = "absent"
  BY <1>7, <1>8, <1>9, <1>11
<1>12. CASE fate'[e] = "open"
  BY <1>1, <1>7, <1>10, <1>12 DEF Queue!Submit, Queue!Next
<1> QED
  BY <1>7, <1>11, <1>12

\* A delivery makes nothing reachable that was not: what it hands out was after the cursor.
LEMMA ReadReaches ==
    ASSUME IInv, NEW n \in Nodes, Read(n), NEW i \in Ids, Reachable(i)'
    PROVE  Reachable(i)
<1> USE DEF IInv
<1>1. CASE i \in Delivery
  BY <1>1, DeliveryFacts DEF Reachable, Delivery, NextUnread, Max2, TypeOK, Ids
<1>2. CASE i \notin Delivery
  <2>1. first' = first /\ grouped' = grouped /\ lastDel' \in Nat /\ lastDel' >= lastDel
    BY DeliveryFacts DEF Read, stream, TypeOK
  <2>2. \A m \in Nodes : i \in InHand(m)' => i \in InHand(m)
    BY <1>2 DEF Read, InHand, TypeOK
  <2> QED
    BY <2>1, <2>2 DEF Reachable, TypeOK, Ids
<1> QED
  BY <1>1, <1>2

\* Nothing but a write makes an entry reachable again.
LEMMA NothingComesBack ==
    ASSUME IInv, NEW n \in Nodes, NodeStep(n), NEW i \in Ids, Reachable(i)'
    PROVE  Reachable(i)
<1> USE DEF IInv, stream, cursor, group, roster, local, effects
<1>1. CASE Start(n)
  BY <1>1 DEF Start, GroupStart, Reachable, InHand, TypeOK
<1>2. CASE Exit(n) \/ Crash(n)
  <2>1. \A m \in Nodes : InHand(m)' \subseteq InHand(m)
    BY <1>2 DEF Exit, Crash, Halt, InHand, TypeOK
  <2> QED
    BY <1>2, <2>1 DEF Exit, Crash, Halt, Reachable
<1>3. CASE Read(n)
  BY <1>3, ReadReaches
<1>4. CASE Acknowledge(n)
  BY <1>4 DEF Acknowledge, AckReady, Reachable, InHand, TypeOK
<1>5. CASE Trim(n)
  BY <1>5 DEF Trim, TrimTo, Reachable, InHand, TypeOK, Ids
<1>6. ASSUME NEW e \in Ids, \/ DispatchInline(n, e) \/ DispatchConcurrent(n, e)
                            \/ TaskRun(n, e) \/ TaskDrop(n, e)
      PROVE  Reachable(i)
  <2>1. \A m \in Nodes : InHand(m)' \subseteq InHand(m)
    BY <1>6 DEF DispatchInline, DispatchConcurrent, TaskRun, TaskDrop, Oldest, InHand, TypeOK
  <2> QED
    BY <1>6, <2>1 DEF DispatchInline, DispatchConcurrent, TaskRun, TaskDrop, Reachable
<1>7. CASE \/ RequestShutdown(n) \/ Depart(n) \/ ReclaimScan(n) \/ ReclaimTake(n)
           \/ ReapScan(n) \/ \E m \in Nodes : ReapOne(n, m)
  BY <1>7 DEF RequestShutdown, Depart, ReclaimScan, ReclaimTake, ReapScan, ReapOne,
        Reachable, InHand
<1> QED
  BY <1>1, <1>2, <1>3, <1>4, <1>5, <1>6, <1>7 DEF NodeStep

LEMMA StepSimulation == ASSUME IInv, [Next]_vars PROVE [Queue!Next]_fate
<1> USE DEF stream, cursor, group, roster, local, effects
<1>1. CASE Submit
  BY <1>1, SubmittingStep
<1>2. CASE \E j \in Ids : Age(j)
  BY <1>2, LosingStep DEF Age, Reachable, InHand
<1>3. CASE \E m \in Nodes : Quiesce(m)
  BY <1>3, LosingStep DEF Quiesce, Reachable, InHand
<1>4. ASSUME NEW n \in Nodes, NodeStep(n) PROVE Queue!Next
  <2>1. CASE \E e \in Ids : DispatchInline(n, e) \/ TaskRun(n, e)
    BY <2>1, ExecutingStep
  <2>2. CASE ~\E e \in Ids : DispatchInline(n, e) \/ TaskRun(n, e)
    <3>1. UNCHANGED <<shape, tail, replied, runs>>
      BY <1>4, <2>2 DEF NodeStep, Start, RequestShutdown, Depart, Exit, Crash, Halt, Read,
            Acknowledge, Trim, DispatchConcurrent, TaskDrop, ReclaimScan, ReclaimTake,
            ReapScan, ReapOne
    <3>2. \A i \in Ids : Reachable(i)' => Reachable(i)
      BY <1>4, NothingComesBack
    <3> QED
      BY <3>1, <3>2, LosingStep
  <2> QED
    BY <2>1, <2>2
<1>5. CASE UNCHANGED vars
  BY <1>5, LosingStep DEF vars, Reachable, InHand
<1> QED
  BY <1>1, <1>2, <1>3, <1>4, <1>5 DEF Next

LEMMA InitSimulation == Init => Queue!Init
<1> SUFFICES ASSUME Init PROVE \A i \in Ids : fate[i] = "absent"
  BY DEF Queue!Init, fate
<1> QED
  BY FateOf DEF Init, Ids

\* Every behaviour of the workers is a behaviour of the at-most-once queue: a
\* delivered command that its node skips, drops or dies with is never executed by
\* another, and the fate of a command is final.
THEOREM WorkersImplementQueue == Spec => ImplementsQueue
<1> QED
  BY InitSimulation, StepSimulation, Invariance, PTL DEF Spec, ImplementsQueue, Queue!Spec
=============================================================================
