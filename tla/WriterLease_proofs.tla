------------------------- MODULE WriterLease_proofs -------------------------
(***************************************************************************)
(* Proofs about the writer lease, for every number of daemons and          *)
(* constellations, each daemon serving its own in its own order.           *)
(***************************************************************************)
EXTENDS WriterLease, TLAPS

USE NodesAssumption, ServedAssumption, BoundsAssumption
USE DEF NodesAssumption, ServedAssumption, BoundsAssumption

LEMMA ProcFacts ==
    ASSUME TypeOK, NEW p \in Procs
    PROVE  /\ Node(p) \in Nodes /\ Role(p) \in Roles
           /\ Last(p) \in Nat \ {0} /\ at[p] \in 1 .. Last(p)
           /\ Con(p) \in Cons
           /\ \A k \in 1 .. Last(p) : Served[Node(p)][k] \in Cons
BY DEF TypeOK, Procs, Node, Role, Last, Con

LEMMA InitType == Init => TypeOK
<1> SUFFICES ASSUME Init PROVE TypeOK
  OBVIOUS
<1>1. \A p \in Procs : Last(p) \in Nat \ {0}
  BY DEF Procs, Last, Node
<1> QED
  BY <1>1 DEF Init, TypeOK, PCs, Last

\* The position of a worker stays within the constellations it serves.
LEMMA ProceedType ==
    ASSUME TypeOK, NEW p \in Procs, Proceed(p) \/ Granted(p)
    PROVE  /\ pc' \in [Procs -> PCs] /\ at' \in [Procs -> Nat \ {0}]
           /\ \A q \in Procs : at'[q] <= Last(q)
           /\ \A q \in Procs : q # p => pc'[q] = pc[q] /\ at'[q] = at[q]
<1>1. Last(p) \in Nat \ {0} /\ at[p] \in 1 .. Last(p)
  BY ProcFacts
<1>2. CASE Proceed(p)
  <2> DEFINE next == IF Role(p) = "placer" /\ at[p] < Last(p) THEN at[p] + 1 ELSE 1
  <2>1. next \in Nat \ {0} /\ next <= Last(p)
    BY <1>1
  <2>2. at' = [at EXCEPT ![p] = next] /\ pc' = [pc EXCEPT ![p] = "ask"]
    BY <1>2 DEF Proceed
  <2> HIDE DEF next
  <2> QED
    BY <2>1, <2>2 DEF TypeOK, PCs
<1>3. CASE Granted(p)
  <2>1. CASE pc' = [pc EXCEPT ![p] = "place"] /\ UNCHANGED at
    BY <2>1 DEF TypeOK, PCs
  <2>2. CASE at[p] < Last(p) /\ pc' = [pc EXCEPT ![p] = "ask"] /\ at' = [at EXCEPT ![p] = @ + 1]
    <3>1. at[p] + 1 \in Nat \ {0} /\ at[p] + 1 <= Last(p)
      BY <1>1, <2>2
    <3> QED
      BY <2>2, <3>1 DEF TypeOK, PCs
  <2>3. CASE pc' = [pc EXCEPT ![p] = "sample"] /\ at' = [at EXCEPT ![p] = 1]
    BY <1>1, <2>3 DEF TypeOK, PCs
  <2> QED
    BY <1>3, <2>1, <2>2, <2>3 DEF Granted
<1> QED
  BY <1>2, <1>3

LEMMA NextType == TypeOK /\ [Next]_vars => TypeOK'
<1> SUFFICES ASSUME TypeOK, [Next]_vars PROVE TypeOK'
  OBVIOUS
<1>1. ASSUME NEW p \in Procs, Step(p) PROVE TypeOK'
  <2>1. Node(p) \in Nodes /\ Con(p) \in Cons /\ Last(p) \in Nat \ {0} /\ at[p] \in 1 .. Last(p)
    BY ProcFacts
  <2>2. CASE Take(p)
    BY <2>1, <2>2, ProceedType DEF Take, TypeOK, Last
  <2>3. CASE Taken(p)
    BY <2>1, <2>3 DEF Taken, TypeOK, PCs, Last
  <2>4. CASE Inspect(p)
    <3>1. CASE holder[Con(p)] = Node(p)
      <4>1. pc' = [pc EXCEPT ![p] = "renew"]
        BY <2>4, <3>1 DEF Inspect
      <4>2. UNCHANGED <<holder, up, at, derived, crashes, lapses>>
        BY <2>4, <3>1 DEF Inspect
      <4> QED
        BY <4>1, <4>2 DEF TypeOK, PCs, Last
    <3>2. CASE holder[Con(p)] # Node(p)
      BY <2>1, <2>4, <3>2, ProceedType DEF Inspect, TypeOK, Last
    <3> QED
      BY <3>1, <3>2
  <2>5. CASE Renew(p)
    BY <2>1, <2>5, ProceedType DEF Renew, TypeOK, Last
  <2>6. CASE Place(p)
    BY <2>1, <2>6 DEF Place, TypeOK, PCs, Last
  <2>7. CASE Derive(p)
    BY <2>1, <2>7, ProceedType DEF Derive, TypeOK, Last
  <2>8. CASE Sample(p)
    <3>1. derived' \in [Cons -> Nodes \cup {NoNode}] /\ UNCHANGED <<holder, up, crashes, lapses>>
      BY <2>1, <2>8 DEF Sample, TypeOK
    <3>2. CASE at[p] < Last(p)
      <4>1. at' = [at EXCEPT ![p] = @ + 1] /\ UNCHANGED pc
        BY <2>8, <3>2 DEF Sample
      <4>2. at' \in [Procs -> Nat \ {0}] /\ \A q \in Procs : at'[q] <= Last(q)
        BY <2>1, <3>2, <4>1 DEF TypeOK
      <4> QED
        BY <3>1, <4>1, <4>2 DEF TypeOK, Last
    <3>3. CASE ~(at[p] < Last(p))
      <4>1. Proceed(p)
        BY <2>8, <3>3 DEF Sample
      <4> QED
        BY <3>1, <4>1, ProceedType DEF TypeOK, Last
    <3> QED
      BY <3>2, <3>3
  <2> QED
    BY <1>1, <2>2, <2>3, <2>4, <2>5, <2>6, <2>7, <2>8 DEF Step
<1>2. ASSUME NEW c \in Cons, Expire(c) PROVE TypeOK'
  BY <1>2 DEF Expire, Expirable, TypeOK, Last
<1>3. ASSUME NEW n \in Nodes, Crash(n) \/ Restart(n) PROVE TypeOK'
  <2>1. \A p \in Procs : Last(p) \in Nat \ {0}
    BY ProcFacts
  <2>2. CASE Crash(n)
    BY <2>1, <2>2 DEF Crash, TypeOK, PCs, Last
  <2>3. CASE Restart(n)
    BY <2>3 DEF Restart, TypeOK, Last
  <2> QED
    BY <1>3, <2>2, <2>3
<1>4. CASE UNCHANGED vars
  BY <1>4 DEF vars, TypeOK, Last
<1> QED
  BY <1>1, <1>2, <1>3, <1>4 DEF Next

\* Every variable of the lease and its workers keeps its type.
THEOREM TypeCorrect == Spec => []TypeOK
<1> QED
  BY InitType, NextType, PTL DEF Spec

-----------------------------------------------------------------------------
(* One writer.  A worker trusts a lease from the answer that gave it until *)
(* it is done with its writes; the sampler trusts every lease it has       *)
(* passed while it asks for the rest.                                      *)

Trusts(p, c) ==
    \/ pc[p] \in {"renew", "place", "derive"} /\ Con(p) = c
    \/ /\ Role(p) = "sampler" /\ pc[p] \in {"ask", "get", "renew"}
       /\ \E k \in 1 .. Last(p) : k < at[p] /\ Served[Node(p)][k] = c
    \/ pc[p] = "sample" /\ \E k \in 1 .. Last(p) : Served[Node(p)][k] = c

\* What a worker trusts is true: its node is up and holds the lease.
TrustHolds(p) == \A c \in Cons : Trusts(p, c) => holder[c] = Node(p) /\ up[Node(p)]
TrustInv == lapses = 0 => \A p \in Procs : TrustHolds(p)

LEMMA InitTrust == Init => TrustInv
<1> SUFFICES ASSUME Init, NEW p \in Procs, NEW c \in Cons, Trusts(p, c) PROVE FALSE
  BY DEF TrustInv, TrustHolds
<1>1. pc[p] = "ask" /\ at[p] = 1
  BY DEF Init
<1>2. \A k \in 1 .. Last(p) : ~(k < 1)
  BY DEF Last
<1> QED
  BY <1>1, <1>2 DEF Trusts

\* A worker that moves on starts from nothing it trusts.
LEMMA ProceedTrust ==
    ASSUME TypeOK, NEW p \in Procs, Proceed(p), NEW c \in Cons
    PROVE  ~Trusts(p, c)'
<1>1. pc'[p] = "ask"
  BY DEF Proceed, TypeOK
<1>2. Role(p) = "sampler" => at'[p] = 1
  BY DEF Proceed, TypeOK
<1>3. \A k \in 1 .. Last(p) : ~(k < 1)
  BY ProcFacts
<1> QED
  BY <1>1, <1>2, <1>3 DEF Trusts, Last

\* A worker that is granted a lease trusts no more than that one and the earlier ones.
LEMMA GrantedTrust ==
    ASSUME TypeOK, NEW p \in Procs, Granted(p), pc[p] \in {"ask", "renew"},
           NEW c \in Cons, Trusts(p, c)'
    PROVE  Trusts(p, c) \/ c = Con(p)
<1>0. Last(p) \in Nat \ {0} /\ at[p] \in 1 .. Last(p) /\ Last(p)' = Last(p)
  BY ProcFacts DEF Last
<1>1. CASE Role(p) = "placer"
  <2>1. pc'[p] = "place" /\ at' = at
    BY <1>1 DEF Granted, TypeOK
  <2> QED
    BY <2>1 DEF Trusts, Con
<1>2. CASE Role(p) = "sampler" /\ at[p] < Last(p)
  <2>1. pc'[p] = "ask" /\ at'[p] = at[p] + 1
    BY <1>0, <1>2 DEF Granted, TypeOK
  <2>2. PICK k \in 1 .. Last(p) : k < at[p] + 1 /\ Served[Node(p)][k] = c
    BY <1>0, <2>1 DEF Trusts
  <2>3. CASE k = at[p]
    BY <2>2, <2>3 DEF Con
  <2>4. CASE k < at[p]
    BY <1>2, <2>2, <2>4 DEF Trusts
  <2> QED
    BY <1>0, <2>2, <2>3, <2>4
<1>3. CASE Role(p) = "sampler" /\ at[p] = Last(p)
  <2>1. pc'[p] = "sample"
    BY <1>3 DEF Granted, TypeOK
  <2>2. PICK k \in 1 .. Last(p) : Served[Node(p)][k] = c
    BY <1>0, <2>1 DEF Trusts
  <2>3. CASE k = at[p]
    BY <2>2, <2>3 DEF Con
  <2>4. CASE k < at[p]
    BY <1>3, <2>2, <2>4 DEF Trusts
  <2> QED
    BY <1>0, <1>3, <2>2, <2>3, <2>4
<1> QED
  BY <1>1, <1>2, <1>3 DEF Granted

\* A step of p leaves what another worker trusts, and every lease that is held, alone.
LEMMA StepFrame ==
    ASSUME TypeOK, NEW p \in Procs, Step(p), NEW q \in Procs, q # p, NEW c \in Cons
    PROVE  Trusts(q, c)' <=> Trusts(q, c)
<1>1. pc'[q] = pc[q] /\ at'[q] = at[q]
  <2>1. CASE Proceed(p) \/ Granted(p)
    BY <2>1, ProceedType
  <2>2. CASE ~(Proceed(p) \/ Granted(p))
    BY <2>2 DEF Step, Take, Taken, Inspect, Renew, Place, Derive, Sample, TypeOK
  <2> QED
    BY <2>1, <2>2
<1> QED
  BY <1>1 DEF Trusts, Con, Last

LEMMA HeldStays ==
    ASSUME TypeOK, NEW p \in Procs, Step(p), TrustHolds(p), NEW c \in Cons, holder[c] # NoNode
    PROVE  holder'[c] = holder[c] /\ up' = up
<1>1. Con(p) \in Cons
  BY ProcFacts
<1>2. CASE Take(p)
  BY <1>1, <1>2 DEF Take, Free, TypeOK
<1>3. CASE Renew(p)
  <2>1. holder[Con(p)] = Node(p)
    BY <1>1, <1>3 DEF TrustHolds, Trusts, Renew, Ready
  <2> QED
    BY <1>1, <1>3, <2>1 DEF Renew, TypeOK
<1> QED
  BY <1>2, <1>3 DEF Step, Taken, Inspect, Place, Derive, Sample

\* A worker trusts a new lease only when it has just taken it, renewed it, or seen its
\* own name in it.
LEMMA StepTrust ==
    ASSUME TypeOK, NEW p \in Procs, Step(p), TrustHolds(p)
    PROVE  TrustHolds(p)'
<1> SUFFICES ASSUME NEW c \in Cons, Trusts(p, c)' PROVE holder'[c] = Node(p) /\ up'[Node(p)]
  BY DEF TrustHolds, Node
<1>1. Con(p) \in Cons /\ Node(p) \in Nodes /\ Last(p)' = Last(p)
  BY ProcFacts DEF Last
<1>2. ~Proceed(p)
  BY ProceedTrust
<1>3. CASE Trusts(p, c)
  BY <1>1, <1>3, HeldStays DEF TrustHolds
<1>4. CASE Take(p)
  <2>1. Granted(p) /\ pc[p] \in {"ask", "renew"}
    BY <1>4 DEF Take, Ready
  <2>2. Trusts(p, c) \/ c = Con(p)
    BY <2>1, GrantedTrust
  <2>3. holder' = [holder EXCEPT ![Con(p)] = Node(p)] /\ up' = up /\ up[Node(p)]
    BY <1>4 DEF Take, Ready
  <2> QED
    BY <1>1, <1>3, <2>2, <2>3 DEF TypeOK
<1>5. CASE Renew(p)
  <2>1. Granted(p) /\ pc[p] \in {"ask", "renew"}
    BY <1>2, <1>5 DEF Renew, Ready
  <2>2. Trusts(p, c) \/ c = Con(p)
    BY <2>1, GrantedTrust
  <2>3. Trusts(p, Con(p))
    BY <1>5 DEF Renew, Ready, Trusts
  <2> QED
    BY <1>3, <2>2, <2>3
<1>6. CASE Taken(p)
  <2>1. pc[p] = "ask" /\ pc'[p] = "get" /\ at' = at
    BY <1>6 DEF Taken, Ready, TypeOK
  <2>2. Trusts(p, c)
    BY <1>1, <2>1 DEF Trusts
  <2> QED
    BY <1>3, <2>2
<1>7. CASE Inspect(p)
  <2>1. holder[Con(p)] = Node(p) /\ pc[p] = "get" /\ pc'[p] = "renew" /\ at' = at
    BY <1>2, <1>7 DEF Inspect, Ready, TypeOK
  <2>2. Trusts(p, c) \/ c = Con(p)
    BY <1>1, <2>1 DEF Trusts, Con
  <2>3. holder' = holder /\ up' = up /\ up[Node(p)]
    BY <1>7 DEF Inspect, Ready
  <2> QED
    BY <1>3, <2>1, <2>2, <2>3
<1>8. CASE Place(p)
  <2>1. pc[p] = "place" /\ pc'[p] = "derive" /\ at' = at
    BY <1>8 DEF Place, Ready, TypeOK
  <2>2. Trusts(p, c)
    BY <1>1, <2>1 DEF Trusts, Con
  <2> QED
    BY <1>3, <2>2
<1>9. CASE Derive(p)
  BY <1>2, <1>9 DEF Derive
<1>10. CASE Sample(p)
  <2>1. pc[p] = "sample" /\ pc' = pc
    BY <1>2, <1>10 DEF Sample, Ready
  <2>2. Trusts(p, c)
    BY <1>1, <2>1 DEF Trusts
  <2> QED
    BY <1>3, <2>2
<1> QED
  BY <1>4, <1>5, <1>6, <1>7, <1>8, <1>9, <1>10 DEF Step

LEMMA NextTrust == TypeOK /\ TrustInv /\ [Next]_vars => TrustInv'
<1> SUFFICES ASSUME TypeOK, TrustInv, [Next]_vars, lapses' = 0 PROVE \A p \in Procs : TrustHolds(p)'
  BY DEF TrustInv
<1>1. ASSUME NEW p \in Procs, Step(p) PROVE \A q \in Procs : TrustHolds(q)'
  <2>1. lapses = 0
    BY <1>1 DEF Step, Take, Taken, Inspect, Renew, Place, Derive, Sample
  <2>2. \A q \in Procs : TrustHolds(q)
    BY <2>1 DEF TrustInv
  <2>3. TrustHolds(p)'
    BY <1>1, <2>2, StepTrust
  <2>4. ASSUME NEW q \in Procs, q # p, NEW c \in Cons, Trusts(q, c)'
        PROVE  holder'[c] = Node(q) /\ up'[Node(q)]
    <3>1. Trusts(q, c)
      BY <1>1, <2>4, StepFrame
    <3>2. holder[c] = Node(q) /\ up[Node(q)] /\ Node(q) \in Nodes
      BY <2>2, <2>4, <3>1, ProcFacts DEF TrustHolds
    <3> QED
      BY <1>1, <2>2, <2>4, <3>2, HeldStays
  <2> QED
    BY <2>3, <2>4 DEF TrustHolds, Node
<1>2. ASSUME NEW c \in Cons, Expire(c) PROVE \A q \in Procs : TrustHolds(q)'
  <2>1. lapses = 0 /\ ~up[holder[c]] /\ holder[c] \in Nodes
    BY <1>2 DEF Expire, TypeOK
  <2>2. \A q \in Procs : TrustHolds(q)
    BY <2>1 DEF TrustInv
  <2>3. ASSUME NEW q \in Procs, NEW d \in Cons PROVE Trusts(q, d)' <=> Trusts(q, d)
    BY <1>2 DEF Expire, Trusts, Con, Last
  <2> QED
    BY <1>2, <2>1, <2>2, <2>3 DEF Expire, TrustHolds, TypeOK
<1>3. ASSUME NEW n \in Nodes, Crash(n) PROVE \A q \in Procs : TrustHolds(q)'
  <2>1. \A q \in Procs : TrustHolds(q)
    BY <1>3 DEF Crash, TrustInv
  <2>2. SUFFICES ASSUME NEW q \in Procs, NEW c \in Cons, Trusts(q, c)'
                 PROVE  holder'[c] = Node(q) /\ up'[Node(q)]
    BY DEF TrustHolds, Node
  <2>3. CASE Node(q) = n
    <3>1. pc'[q] = "ask" /\ at'[q] = 1
      BY <1>3, <2>3 DEF Crash
    <3>2. \A k \in 1 .. Last(q) : ~(k < 1)
      BY ProcFacts
    <3> QED
      BY <3>1, <3>2, <2>2 DEF Trusts, Last
  <2>4. CASE Node(q) # n
    <3>1. pc'[q] = pc[q] /\ at'[q] = at[q] /\ holder' = holder
      BY <1>3, <2>4 DEF Crash
    <3>2. Trusts(q, c)
      BY <2>2, <3>1 DEF Trusts, Con, Last
    <3> QED
      BY <1>3, <2>1, <2>4, <3>1, <3>2, ProcFacts DEF Crash, TrustHolds, TypeOK
  <2> QED
    BY <2>3, <2>4
<1>4. ASSUME NEW n \in Nodes, Restart(n) PROVE \A q \in Procs : TrustHolds(q)'
  BY <1>4, ProcFacts DEF Restart, TrustInv, TrustHolds, Trusts, Con, Last, TypeOK
<1>5. CASE UNCHANGED vars
  BY <1>5 DEF vars, TrustInv, TrustHolds, Trusts, Con, Last
<1> QED
  BY <1>1, <1>2, <1>3, <1>4, <1>5 DEF Next

LEMMA TrustSeparates == TypeOK /\ TrustInv => OneWriter
<1> SUFFICES ASSUME TypeOK, TrustInv, lapses = 0,
                    NEW p \in Procs, NEW q \in Procs, NEW c \in Cons,
                    Writes(p, c), Writes(q, c)
             PROVE  Node(p) = Node(q)
  BY DEF OneWriter
<1>1. Trusts(p, c) /\ Trusts(q, c)
  BY DEF Writes, Trusts
<1> QED
  BY <1>1 DEF TrustInv, TrustHolds

\* While no live holder lapses, two nodes are never both inside their writes to one
\* constellation: the lease of lease.rs keeps its writers apart.
THEOREM SingleWriter == Spec => []OneWriter
<1>1. Init => TypeOK /\ TrustInv
  BY InitType, InitTrust
<1>2. (TypeOK /\ TrustInv) /\ [Next]_vars => (TypeOK /\ TrustInv)'
  BY NextType, NextTrust
<1> QED
  BY <1>1, <1>2, TrustSeparates, PTL DEF Spec

LEMMA DerivedStep ==
    TypeOK /\ [Next]_vars =>
        \A c \in Cons : derived[c] # NoNode /\ derived'[c] # derived[c] => holder[c] # derived[c]
<1> SUFFICES ASSUME TypeOK, [Next]_vars, NEW c \in Cons,
                    derived[c] # NoNode, derived'[c] # derived[c]
             PROVE  holder[c] # derived[c]
  OBVIOUS
<1>1. PICK p \in Procs : Derive(p) \/ Sample(p)
  BY DEF Next, vars, Step, Take, Taken, Inspect, Renew, Place, Expire, Crash, Restart
<1>2. LeaseOk(Con(p), Node(p)) /\ derived' = [derived EXCEPT ![Con(p)] = Node(p)]
  BY <1>1 DEF Derive, Sample
<1> QED
  BY <1>2 DEF LeaseOk, TypeOK

\* The store refuses the late write of a daemon that lost its lease: the derived values
\* of a lease holder stand while it holds the lease, whatever lapses.
THEOREM DerivedKept == Spec => DerivedValuesHold
<1>1. TypeOK /\ [Next]_vars =>
        [\A c \in Cons : derived[c] # NoNode /\ derived'[c] # derived[c] => holder[c] # derived[c]]_vars
  BY DerivedStep
<1> QED
  BY <1>1, TypeCorrect, PTL DEF Spec, DerivedValuesHold
=============================================================================
