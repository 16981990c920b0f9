------------------------ MODULE Constellation_proofs ------------------------
(***************************************************************************)
(* The callers of the constellation implement the store's specification:   *)
(* every call they make is one that the store's theorems cover, so what    *)
(* those say of the store holds of the constellation.                      *)
(***************************************************************************)
EXTENDS Constellation, ConstellationStore_proofs

USE NamesAssumption, NoneAssumption, SizeAssumption, DeclaredAssumption
USE DEF Pids, AllIds, Services, PlacedAs, Shapes, Weights, Scores

(* The callers' part of TypeOK. *)
CallersOK ==
    /\ reg \in [Registrars -> Orders \cup {None}]
    /\ wk \in [Daemons -> Workers]

(* The inductive invariant. *)
CInv == SInv /\ CountsExact /\ CallersOK

LEMMA RestartedType == Restarted \in Workers
BY DEF Restarted, Workers, PCs

LEMMA GotoType ==
    ASSUME NEW v \in Workers, NEW pc \in PCs
    PROVE  [v EXCEPT !.pc = pc] \in Workers
BY DEF Workers

LEMMA InitInv == Init => CInv
<1>1. Init => CallersOK
  BY RestartedType DEF Init, CallersOK
<1> QED BY <1>1, StoreInitInv DEF Init, CInv

-----------------------------------------------------------------------------
(* What a pass reads and decides.                                          *)

LEMMA ViewType ==
    ASSUME SInv, NEW i \in Ids, Known(i)
    PROVE  View(i) \in Seen
<1>1. ent[i] \in Records
  BY DEF SInv, StoreTypeOK, Known
<1>2. ent[i].sh \in Shapes
  BY DEF SInv, Kinds
<1> QED BY <1>1, <1>2 DEF View, Seen, Records

LEMMA ToPlaceType ==
    ASSUME CallersOK, NEW h \in Daemons, NEW beats \in SUBSET Beats
    PROVE  ToPlace(h, beats) \in SUBSET Orders
<1>1. wk[h].comps \subseteq Seen /\ wk[h].svcs \subseteq Seen
  BY DEF CallersOK, Workers
<1>2. ASSUME NEW e \in Seen PROVE WeightOf(h, e) \in Weights
  <2>1. CASE \E s \in wk[h].svcs : s.id = e.id
    BY <1>1, <2>1 DEF WeightOf, Seen
  <2>2. CASE ~\E s \in wk[h].svcs : s.id = e.id
    BY <1>2, <2>2 DEF WeightOf, Seen
  <2> QED BY <2>1, <2>2
<1>3. ASSUME NEW b \in beats, NEW e \in Matching(h, b[1])
      PROVE  [of |-> e.id, on |-> b[2], sh |-> IF e.sh = "2" THEN "4.1" ELSE "4.2", hb |-> b[1], w |-> WeightOf(h, e)] \in Orders
  <2>1. b[1] \in Names /\ b[2] \in Hosts
    OBVIOUS
  <2>2. e \in Seen /\ e.id \in Ids
    BY <1>1, <1>3 DEF Matching, Seen
  <2>3. WeightOf(h, e) \in Weights
    BY <1>2, <2>2
  <2> QED BY <2>1, <2>2, <2>3 DEF Orders
<1>4. ASSUME NEW x \in ToPlace(h, beats) PROVE x \in Orders
  <2>1. PICK b \in beats : \E e \in Matching(h, b[1]) :
          x = [of |-> e.id, on |-> b[2], sh |-> IF e.sh = "2" THEN "4.1" ELSE "4.2", hb |-> b[1], w |-> WeightOf(h, e)]
    BY <1>4 DEF ToPlace
  <2> QED BY <1>3, <2>1
<1> QED BY <1>4

-----------------------------------------------------------------------------
(* One step of the callers is one call of the store, or none.              *)

LEMMA OrderCall ==
    ASSUME NEW x \in Orders, PlaceCall(x.of, x.on, x.sh, x.hb, x.w) \/ PlaceRefused(x.of, x.on, x.sh)
    PROVE  [StoreNext]_store
BY DEF Orders, PlaceRefused, StoreNext

LEMMA SelfTypes == NodeDecl \in Declaration /\ ComponentDecl \in Declaration /\ 1 \in Weights /\ Daemons \subseteq Ids
BY DEF NodeDecl, ComponentDecl, Declaration

LEMMA Simulation == CallersOK /\ [Next]_vars => [StoreNext]_store
<1> SUFFICES ASSUME CallersOK, [Next]_vars PROVE [StoreNext]_store
  OBVIOUS
<1>1. ASSUME NEW r \in Registrars, Register(r) PROVE [StoreNext]_store
  BY <1>1 DEF Register, StoreNext
<1>2. ASSUME NEW r \in Registrars, PlaceRegistered(r) PROVE [StoreNext]_store
  <2>1. reg[r] \in Orders
    BY <1>2 DEF PlaceRegistered, CallersOK
  <2> QED BY <1>2, <2>1, OrderCall DEF PlaceRegistered
<1>3. ASSUME NEW h \in Daemons, DeclareNode(h) \/ DeclareComponent(h) PROVE [StoreNext]_store
  BY <1>3, SelfTypes DEF DeclareNode, DeclareComponent, StoreNext
<1>4. ASSUME NEW h \in Daemons, DeclarePlacement(h) PROVE [StoreNext]_store
  <2>1. CASE PlaceCall(Component, h, "4.1", DaemonName, 1)
    <3>1. Component \in Ids /\ h \in Hosts /\ "4.1" \in PlacedAs /\ DaemonName \in Names /\ 1 \in Weights
      BY SelfTypes
    <3> QED BY <2>1, <3>1 DEF StoreNext
  <2>2. CASE PlaceRefused(Component, h, "4.1")
    BY <2>2 DEF PlaceRefused
  <2> QED BY <1>4, <2>1, <2>2 DEF DeclarePlacement
<1>5. ASSUME NEW h \in Daemons,
             \/ QueryComponents(h) \/ QueryServices(h) \/ QueryNodes(h) \/ QueryExisting(h)
             \/ ScanHeartbeats(h) \/ Restart(h)
      PROVE  UNCHANGED store
  BY <1>5 DEF QueryComponents, QueryServices, QueryNodes, QueryExisting, ScanHeartbeats, Restart
<1>6. ASSUME NEW h \in Daemons, PlaceBeat(h) PROVE [StoreNext]_store
  <2>1. PICK x \in wk[h].todo : PlaceCall(x.of, x.on, x.sh, x.hb, x.w) \/ PlaceRefused(x.of, x.on, x.sh)
    BY <1>6 DEF PlaceBeat
  <2>2. x \in Orders
    BY DEF CallersOK, Workers
  <2> QED BY <2>1, <2>2, OrderCall
<1>7. ASSUME NEW h \in Daemons, Derive(h) PROVE [StoreNext]_store
  <2>1. CASE \E fresh \in SUBSET Beats : HealthDerive(fresh)
    BY <2>1 DEF StoreNext
  <2> QED BY <1>7, <2>1 DEF Derive
<1>8. CASE DeregisterRequest
  BY <1>8 DEF DeregisterRequest, StoreNext
<1>9. CASE EdgeRequest
  <2>1. PICK e \in EdgeRequests : AddEdge(e[1], e[2]) \/ RemoveEdge(e[1], e[2])
    BY <1>9 DEF EdgeRequest
  <2>2. e[1] \in AllIds /\ e[2] \in AllIds
    OBVIOUS
  <2> QED BY <2>1, <2>2 DEF StoreNext
<1>10. CASE Sample
  <2>1. PICK d \in DerivedWrites : SetDerived(d[1], d[2], d[3])
    BY <1>10 DEF Sample
  <2>2. d[1] \in AllIds /\ d[2] \in {"load", "health", "lifecycle"} /\ d[3] \in Scores
    OBVIOUS
  <2> QED BY <2>1, <2>2 DEF StoreNext
<1>11. CASE UNCHANGED vars
  BY <1>11 DEF vars
<1> QED BY <1>1, <1>2, <1>3, <1>4, <1>5, <1>6, <1>7, <1>8, <1>9, <1>10, <1>11 DEF Next

LEMMA CallersStep == SInv /\ CallersOK /\ [Next]_vars => CallersOK'
<1> SUFFICES ASSUME SInv, CallersOK, [Next]_vars PROVE CallersOK'
  OBVIOUS
<1>1. ASSUME NEW r \in Registrars, Register(r) PROVE CallersOK'
  <2>1. PICK i \in Ids, h \in Hosts \cup {None}, d \in Declaration :
          reg' = [reg EXCEPT ![r] =
               IF h = None THEN None
               ELSE [of |-> i, on |-> h, sh |-> "4.2", w |-> d.w,
                     hb |-> IF d.sh = "3.1" THEN DaemonName ELSE d.hb]]
    BY <1>1 DEF Register
  <2>2. UNCHANGED wk
    BY <1>1 DEF Register
  <2>3. d.w \in Weights /\ d.hb \in Names
    BY DEF Declaration
  <2> QED BY <2>1, <2>2, <2>3 DEF CallersOK, Orders
<1>2. ASSUME NEW r \in Registrars, PlaceRegistered(r) PROVE CallersOK'
  BY <1>2 DEF PlaceRegistered, CallersOK
<1>3. ASSUME NEW h \in Daemons, NEW v \in Workers, wk' = [wk EXCEPT ![h] = v], UNCHANGED reg PROVE CallersOK'
  BY <1>3 DEF CallersOK
<1>4. \A h \in Daemons : wk[h] \in Workers
  BY DEF CallersOK
<1>5. ASSUME NEW h \in Daemons, DeclareNode(h) \/ DeclareComponent(h) \/ DeclarePlacement(h) \/ Derive(h)
      PROVE  CallersOK'
  <2>1. PICK pc \in {"component", "self", "components", "node"} : Goto(h, pc) /\ UNCHANGED reg
    BY <1>5 DEF DeclareNode, DeclareComponent, DeclarePlacement, Derive, At
  <2>2. [wk[h] EXCEPT !.pc = pc] \in Workers
    BY <1>4, GotoType DEF PCs
  <2> QED BY <1>3, <2>1, <2>2 DEF Goto
<1>6. ASSUME NEW h \in Daemons, QueryComponents(h) \/ QueryServices(h) PROVE CallersOK'
  <2>1. PICK seen2 \in SUBSET Seen, seen3 \in SUBSET Seen :
          seen2 = {View(i) : i \in Query(2)} /\ seen3 = {View(i) : i \in Query(3)}
    <3>1. {View(i) : i \in Query(2)} \subseteq Seen
      BY ViewType DEF Query
    <3>2. {View(i) : i \in Query(3)} \subseteq Seen
      BY ViewType DEF Query
    <3> QED BY <3>1, <3>2
  <2>2. ASSUME NEW seen \in SUBSET Seen
        PROVE  [wk[h] EXCEPT !.comps = seen, !.pc = "services"] \in Workers /\ [wk[h] EXCEPT !.svcs = seen, !.pc = "nodes"] \in Workers
    <3>1. [wk[h] EXCEPT !.comps = seen] \in Workers /\ [wk[h] EXCEPT !.svcs = seen] \in Workers
      BY <1>4 DEF Workers
    <3> QED BY <3>1, GotoType DEF PCs
  <2>3. \/ wk' = [wk EXCEPT ![h] = [@ EXCEPT !.comps = seen2, !.pc = "services"]] /\ UNCHANGED reg
        \/ wk' = [wk EXCEPT ![h] = [@ EXCEPT !.svcs = seen3, !.pc = "nodes"]] /\ UNCHANGED reg
    BY <1>6, <2>1 DEF QueryComponents, QueryServices, At
  <2> QED BY <1>3, <2>2, <2>3
<1>7. ASSUME NEW h \in Daemons, QueryNodes(h) PROVE CallersOK'
  <2>1. [wk[h] EXCEPT !.nodes = Query(1)] \in Workers
    BY <1>4 DEF Workers, Query
  <2>2. [wk[h] EXCEPT !.nodes = Query(1), !.pc = "existing"] \in Workers
    BY <2>1, GotoType DEF PCs
  <2> QED BY <1>3, <1>7, <2>2 DEF QueryNodes, At
<1>8. ASSUME NEW h \in Daemons, QueryExisting(h) PROVE CallersOK'
  <2>1. PICK seen \in SUBSET Pids :
          /\ \A p \in seen : Known(p)
          /\ wk' = [wk EXCEPT ![h] = [@ EXCEPT !.exist = {<<p, ent[p].hb>> : p \in seen}, !.pc = "scan"]]
    BY <1>8 DEF QueryExisting
  <2>2. \A p \in seen : ent[p].hb \in Names
    BY <2>1 DEF SInv, StoreTypeOK, Known, Records
  <2>3. {<<p, ent[p].hb>> : p \in seen} \in SUBSET (Pids \X Names)
    BY <2>2
  <2>4. [wk[h] EXCEPT !.exist = {<<p, ent[p].hb>> : p \in seen}] \in Workers
    BY <1>4, <2>3 DEF Workers
  <2>5. [wk[h] EXCEPT !.exist = {<<p, ent[p].hb>> : p \in seen}, !.pc = "scan"] \in Workers
    BY <2>4, GotoType DEF PCs
  <2> QED BY <1>3, <1>8, <2>1, <2>5 DEF QueryExisting, At
<1>9. ASSUME NEW h \in Daemons, ScanHeartbeats(h) PROVE CallersOK'
  <2>1. PICK beats \in SUBSET Beats :
          wk' = [wk EXCEPT ![h] = [Restarted EXCEPT !.pc = "place", !.todo = ToPlace(h, beats)]]
    BY <1>9 DEF ScanHeartbeats
  <2>2. [Restarted EXCEPT !.pc = "place"] \in Workers
    BY RestartedType, GotoType DEF PCs
  <2>3. [Restarted EXCEPT !.pc = "place", !.todo = ToPlace(h, beats)] \in Workers
    BY <2>2, ToPlaceType DEF Workers
  <2> QED BY <1>3, <1>9, <2>1, <2>3 DEF ScanHeartbeats, At
<1>10. ASSUME NEW h \in Daemons, PlaceBeat(h) \/ Restart(h) PROVE CallersOK'
  <2>1. CASE PlaceBeat(h)
    <3>1. PICK x \in wk[h].todo : wk' = [wk EXCEPT ![h].todo = @ \ {x}] /\ UNCHANGED reg
      BY <2>1 DEF PlaceBeat, At
    <3>2. [wk[h] EXCEPT !.todo = wk[h].todo \ {x}] \in Workers
      BY <1>4 DEF Workers
    <3> QED BY <1>3, <3>1, <3>2
  <2>2. CASE Restart(h)
    BY <1>3, <2>2, RestartedType DEF Restart
  <2> QED BY <1>10, <2>1, <2>2
<1>11. CASE DeregisterRequest \/ EdgeRequest \/ Sample
  BY <1>11 DEF DeregisterRequest, EdgeRequest, Sample, CallersOK
<1>12. CASE UNCHANGED vars
  BY <1>12 DEF vars, CallersOK
<1> QED BY <1>1, <1>2, <1>3, <1>4, <1>5, <1>6, <1>7, <1>8, <1>9, <1>10, <1>11, <1>12 DEF Next

LEMMA StepInv == CInv /\ [Next]_vars => CInv'
BY Simulation, CallersStep, StoreStepInv DEF CInv

(* The store's invariant and the types of what its callers remember hold whatever they do. *)
THEOREM CallersInvariant == Spec => []CInv
BY InitInv, StepInv, PTL DEF Spec

(* Every variable stays in its type. *)
THEOREM TypeOKHolds == Spec => []TypeOK
<1>1. CInv => TypeOK
  BY DEF CInv, SInv, CallersOK, TypeOK
<1> QED BY <1>1, CallersInvariant, PTL

(* Registrations, daemons, clients and the sampler, however they interleave and restart, do *)
(* nothing to the store but call its functions: each step is one call or leaves it alone.   *)
THEOREM ImplementsStore == Spec => StoreSpec
<1>1. Init => StoreInit
  BY DEF Init
<1>2. CInv /\ [Next]_vars => [StoreNext]_store
  BY Simulation DEF CInv
<1> QED BY <1>1, <1>2, CallersInvariant, PTL DEF Spec, StoreSpec

(* Everything the store keeps by hand stays exact under its real callers. *)
THEOREM StoreExact == Spec => [](CountsExact /\ IndexesAgree /\ PlacementsAnchored /\ EdgesWhole)
BY ImplementsStore, CountsExactHolds, IndexesAgreeHolds, PlacementsAnchoredHolds, EdgesWholeHolds, PTL

-----------------------------------------------------------------------------
(* Rings and generation, when clients never declare one name both as a     *)
(* service and as something else.                                          *)

FixedKinds(S) ==
    /\ \A i \in Ids : \A d \in Declared[i] : d.sh \in Services <=> i \in S
    /\ Component \notin S /\ Daemons \cap S = {}

LEMMA ScoredKeeps ==
    ASSUME StoreTypeOK, NEW i \in AllIds, Known(i), NEW a \in {"load", "health", "lifecycle"}, NEW v
    PROVE  /\ Scored(i, a, v).sh = ent[i].sh
           /\ \A b \in Axes \ {a} : Scored(i, a, v).q[b] = ent[i].q[b]
<1>1. ent[i].q \in Points
  BY DEF StoreTypeOK, Known, Records
<1> QED BY <1>1 DEF Scored, WithScores, Points

(* What a call other than a registration leaves of the record of an entity. *)
Kept(i) ==
    /\ Known(i) /\ ent'[i].sh = ent[i].sh
    /\ \A a \in {"layer", "fundamentality"} : ent'[i].q[a] = ent[i].q[a]

LEMMA OthersKeepRecords ==
    ASSUME SInv,
           \/ \E of \in Ids, on \in Hosts, sh \in PlacedAs, hb \in Names, w \in Weights : PlaceCall(of, on, sh, hb, w)
           \/ \E i \in AllIds : Deregister(i)
           \/ \E f \in AllIds, t \in AllIds : AddEdge(f, t) \/ RemoveEdge(f, t)
           \/ \E i \in AllIds, a \in {"load", "health", "lifecycle"}, v \in Scores : SetDerived(i, a, v)
           \/ \E fresh \in SUBSET (Names \X Hosts) : HealthDerive(fresh)
    PROVE  \A j \in Ids : Known(j)' => Kept(j)
<1>1. ASSUME NEW of \in Ids, NEW on \in Hosts, NEW sh \in PlacedAs, NEW hb \in Names, NEW w \in Weights,
             PlaceCall(of, on, sh, hb, w), NEW j \in Ids
      PROVE  ent'[j] = ent[j]
  BY <1>1 DEF PlaceCall, Write, SInv, StoreTypeOK
<1>2. ASSUME NEW i \in AllIds, Deregister(i), NEW j \in Ids
      PROVE  ent'[j] \in {None, ent[j]}
  BY <1>2 DEF Deregister
<1>3. ASSUME NEW f \in AllIds, NEW t \in AllIds, AddEdge(f, t) \/ RemoveEdge(f, t)
      PROVE  UNCHANGED ent
  BY <1>3 DEF AddEdge, RemoveEdge
<1>4. ASSUME NEW i \in AllIds, NEW a \in {"load", "health", "lifecycle"}, NEW v \in Scores, SetDerived(i, a, v), NEW j \in Ids
      PROVE  ent'[j] = ent[j] \/ Kept(j)
  <2>1. CASE i # j
    BY <1>4, <2>1 DEF SetDerived, SInv, StoreTypeOK
  <2>2. CASE i = j
    <3>1. ent'[j] = Scored(j, a, v) /\ Known(j)
      BY <1>4, <2>2 DEF SetDerived, SInv, StoreTypeOK
    <3> QED BY <3>1, ScoredKeeps DEF SInv, Kept, Axes
  <2> QED BY <2>1, <2>2
<1>5. ASSUME NEW fresh \in SUBSET (Names \X Hosts), HealthDerive(fresh), NEW j \in Ids
      PROVE  ent'[j] = ent[j] \/ Kept(j)
  <2>1. CASE ~Derivable(j)
    BY <1>5, <2>1 DEF HealthDerive
  <2>2. CASE Derivable(j)
    <3>1. ent'[j] = Scored(j, "health", Derived(j, fresh)) /\ Known(j)
      BY <1>5, <2>2 DEF HealthDerive, Derivable
    <3> QED BY <3>1, ScoredKeeps DEF SInv, Kept, Axes
  <2> QED BY <2>1, <2>2
<1>6. \A j \in Ids : ent'[j] = ent[j] /\ Known(j)' => Kept(j)
  BY DEF Kept, Known
<1> QED BY <1>1, <1>2, <1>3, <1>4, <1>5, <1>6 DEF Known

LEMMA RegisteredShape ==
    ASSUME SInv, NEW i \in Ids, NEW d \in Declaration, RegisterCall(i, d)
    PROVE  ent'[i].sh = d.sh /\ \A j \in Ids \ {i} : ent'[j] = ent[j]
BY DEF RegisterCall, Write, WithScores, SInv, StoreTypeOK

(* What anybody declares of a name: clients, and the daemons of their hosts and of gNode. *)
Declares(i) ==
    Declared[i] \cup {d \in {NodeDecl} : i \in Daemons} \cup {d \in {ComponentDecl} : i = Component}

(* A step keeps the record of an entity, or removes it, or is a registration of it. *)
LEMMA StepOfARecord ==
    ASSUME CInv, [Next]_vars
    PROVE  \A j \in Ids : Known(j)' => Kept(j) \/ \E d \in Declares(j) : RegisterCall(j, d)
<1> DEFINE Fine == \A j \in Ids : Known(j)' => Kept(j) \/ \E d \in Declares(j) : RegisterCall(j, d)
<1> SUFFICES Fine
  OBVIOUS
<1>u. CASE UNCHANGED ent
  BY <1>u DEF Kept, Known
<1>1. ASSUME NEW i \in Ids, NEW d \in Declares(i), d \in Declaration, RegisterCall(i, d)
      PROVE  Fine
  <2>1. \A j \in Ids \ {i} : ent'[j] = ent[j]
    BY <1>1, RegisteredShape DEF CInv
  <2> QED BY <1>1, <2>1 DEF Kept, Known
<1>2. ASSUME NEW r \in Registrars, Register(r) PROVE Fine
  <2>1. PICK i \in Ids : \E d \in Declared[i] : RegisterCall(i, d)
    BY <1>2 DEF Register
  <2> PICK d \in Declared[i] : RegisterCall(i, d)
    BY <2>1
  <2>2. d \in Declaration /\ d \in Declares(i)
    BY DEF Declares
  <2> QED BY <1>1, <2>1, <2>2
<1>3. ASSUME NEW h \in Daemons, DeclareNode(h) \/ DeclareComponent(h) PROVE Fine
  <2>1. CASE DeclareNode(h)
    BY <1>1, <2>1, SelfTypes DEF DeclareNode, Declares
  <2>2. CASE DeclareComponent(h)
    BY <1>1, <2>2, SelfTypes DEF DeclareComponent, Declares
  <2> QED BY <1>3, <2>1, <2>2
<1>4. ASSUME \A j \in Ids : Known(j)' => Kept(j)
      PROVE  Fine
  BY <1>4
<1> HIDE DEF Fine
<1>5. ASSUME NEW x \in Orders, PlaceCall(x.of, x.on, x.sh, x.hb, x.w) \/ PlaceRefused(x.of, x.on, x.sh)
      PROVE  Fine
  <2>1. CASE PlaceCall(x.of, x.on, x.sh, x.hb, x.w)
    <3>1. x.of \in Ids /\ x.on \in Hosts /\ x.sh \in PlacedAs /\ x.hb \in Names /\ x.w \in Weights
      BY DEF Orders
    <3> QED BY <1>4, <2>1, <3>1, OthersKeepRecords DEF CInv
  <2>2. CASE UNCHANGED store
    BY <1>u, <2>2 DEF store
  <2> QED BY <1>5, <2>1, <2>2 DEF PlaceRefused
<1>6. ASSUME NEW r \in Registrars, PlaceRegistered(r) PROVE Fine
  <2>1. reg[r] \in Orders
    BY <1>6 DEF PlaceRegistered, CInv, CallersOK
  <2> QED BY <1>5, <1>6, <2>1 DEF PlaceRegistered
<1>7. ASSUME NEW h \in Daemons, PlaceBeat(h) PROVE Fine
  <2>1. PICK x \in wk[h].todo : PlaceCall(x.of, x.on, x.sh, x.hb, x.w) \/ PlaceRefused(x.of, x.on, x.sh)
    BY <1>7 DEF PlaceBeat
  <2>2. x \in Orders
    BY DEF CInv, CallersOK, Workers
  <2> QED BY <1>5, <2>1, <2>2
<1>8. ASSUME NEW h \in Daemons, DeclarePlacement(h) PROVE Fine
  <2>1. [of |-> Component, on |-> h, sh |-> "4.1", hb |-> DaemonName, w |-> 1] \in Orders
    BY SelfTypes DEF Orders
  <2> QED BY <1>5, <1>8, <2>1 DEF DeclarePlacement
<1>9. CASE UNCHANGED store
  BY <1>u, <1>9 DEF store
<1>10. ASSUME NEW h \in Daemons, Derive(h) PROVE Fine
  BY <1>4, <1>9, <1>10, OthersKeepRecords DEF Derive, CInv
<1>11. CASE DeregisterRequest
  BY <1>4, <1>11, OthersKeepRecords DEF DeregisterRequest, CInv
<1>12. CASE EdgeRequest
  <2>1. PICK e \in EdgeRequests : AddEdge(e[1], e[2]) \/ RemoveEdge(e[1], e[2])
    BY <1>12 DEF EdgeRequest
  <2>2. e[1] \in AllIds /\ e[2] \in AllIds
    OBVIOUS
  <2> QED BY <1>4, <2>1, <2>2, OthersKeepRecords DEF CInv
<1>13. CASE Sample
  <2>1. PICK d \in DerivedWrites : SetDerived(d[1], d[2], d[3])
    BY <1>13 DEF Sample
  <2>2. d[1] \in AllIds /\ d[2] \in {"load", "health", "lifecycle"} /\ d[3] \in Scores
    OBVIOUS
  <2> QED BY <1>4, <2>1, <2>2, OthersKeepRecords DEF CInv
<1>14. ASSUME NEW h \in Daemons,
              \/ QueryComponents(h) \/ QueryServices(h) \/ QueryNodes(h) \/ QueryExisting(h)
              \/ ScanHeartbeats(h) \/ Restart(h)
       PROVE  Fine
  BY <1>9, <1>14 DEF QueryComponents, QueryServices, QueryNodes, QueryExisting, ScanHeartbeats, Restart
<1>15. CASE UNCHANGED vars
  BY <1>9, <1>15 DEF vars
<1> QED BY <1>2, <1>3, <1>6, <1>7, <1>8, <1>10, <1>11, <1>12, <1>13, <1>14, <1>15 DEF Next

LEMMA DeclaresType == \A i \in Ids : Declares(i) \subseteq Declaration
BY SelfTypes DEF Declares

LEMMA StableStep ==
    ASSUME NEW S, FixedKinds(S), CInv, Stable(S), [Next]_vars
    PROVE  Stable(S)'
<1>1. \A i \in Ids : \A d \in Declares(i) : d.sh \in Services <=> i \in S
  BY DEF FixedKinds, Declares, NodeDecl, ComponentDecl
<1>2. ASSUME NEW j \in Ids, Known(j)' PROVE ent'[j].sh \in Services <=> j \in S
  <2>1. CASE Kept(j)
    BY <2>1 DEF Kept, Stable
  <2>2. ASSUME NEW d \in Declares(j), RegisterCall(j, d) PROVE ent'[j].sh \in Services <=> j \in S
    BY <1>1, <2>2, DeclaresType, RegisteredShape DEF CInv
  <2> QED BY <1>2, <2>1, <2>2, StepOfARecord
<1> QED BY <1>2 DEF Stable

LEMMA SpecStable ==
    ASSUME NEW CONSTANT S, FixedKinds(S)
    PROVE  Spec => []Stable(S)
<1>1. Init => Stable(S)
  BY DEF Init, StoreInit, Stable, Known
<1>2. CInv /\ Stable(S) /\ [Next]_vars => Stable(S)'
  BY StableStep
<1> QED BY <1>1, <1>2, CallersInvariant, PTL DEF Spec

(* Registrations, heartbeat passes, removals, restarts and health passes leave on every ring *)
(* exactly the placements that are active and not dead.                                      *)
THEOREM RingExactInConstellation ==
    ASSUME NEW CONSTANT S, FixedKinds(S)
    PROVE  Spec => []RingExact
BY SpecStable, ImplementsStore, RingExactHolds, PTL

(* A reader that compares generations misses no change that any of the callers makes. *)
THEOREM GenerationMovesHolds ==
    ASSUME NEW CONSTANT S, FixedKinds(S)
    PROVE  Spec => GenerationMoves
<1>1. CInv /\ RingExact /\ [Next]_vars =>
        [(\E i \in AllIds : ent'[i] # ent[i]) \/ ring' # ring \/ edges' # edges \/ wt' # wt => gen' # gen]_vars
  BY Simulation, RingPointwise, GenerationStep DEF CInv
<1> QED BY <1>1, CallersInvariant, RingExactInConstellation, PTL DEF Spec, GenerationMoves

-----------------------------------------------------------------------------
(* Potentials and loads, when a name's declarations agree on them.         *)

(* What a point says beside what is measured. *)
PointsTrue ==
    \A i \in AllIds : Known(i) =>
        /\ ent[i].q["layer"] = Level[ent[i].sh]
        /\ i \in Pids => ent[i].q["fundamentality"] = None
        /\ ent[i].q["load"] # None => ent[i].sh \in Loaded

LEMMA PlacedPoint ==
    ASSUME SInv, NEW of \in Ids, NEW on \in Hosts, NEW sh \in PlacedAs, NEW hb \in Names, NEW w \in Weights,
           PlaceCall(of, on, sh, hb, w)
    PROVE  /\ ent'[<<of, on>>].sh = sh /\ ent'[<<of, on>>].q = Point(sh, None)
           /\ \A i \in AllIds \ {<<of, on>>} : ent'[i] = ent[i]
<1> DEFINE rec == [sh |-> sh, of |-> of, on |-> on, hb |-> hb, w |-> w, q |-> Point(sh, None)]
<1>1. ent' = [ent EXCEPT ![<<of, on>>] = WithScores(rec, Merged(<<of, on>>, Point(sh, None), {}))]
  BY DEF PlaceCall, Write
<1>2. Merged(<<of, on>>, Point(sh, None), {}) = Point(sh, None)
  BY DEF Merged, Point
<1> QED BY <1>1, <1>2 DEF WithScores, SInv, StoreTypeOK

LEMMA RegisteredPoint ==
    ASSUME SInv, NEW i \in Ids, NEW d \in Declaration, RegisterCall(i, d)
    PROVE  /\ ent'[i].q["layer"] = Level[d.sh]
           /\ ent'[i].q["fundamentality"] = IF d.sh = "1" THEN None ELSE d.f
           /\ \A a \in Preserved(d.sh) : Known(i) /\ ent[i].q[a] # None => ent'[i].q[a] = ent[i].q[a]
           /\ "load" \notin Preserved(d.sh) => ent'[i].q["load"] = None
<1> DEFINE f == IF d.sh = "1" THEN None ELSE d.f
           q == Merged(i, Point(d.sh, f), Preserved(d.sh))
<1>1. ent'[i].q = q
  BY DEF RegisterCall, Write, WithScores, SInv, StoreTypeOK
<1>2. \A a \in Axes : q[a] = IF a \in Preserved(d.sh) /\ Known(i) /\ ent[i].q[a] # None
                              THEN ent[i].q[a] ELSE Point(d.sh, f)[a]
  BY DEF Merged
<1>3. /\ Point(d.sh, f)["layer"] = Level[d.sh] /\ Point(d.sh, f)["fundamentality"] = f
      /\ Point(d.sh, f)["load"] = None
  BY DEF Point, Axes
<1>4. Preserved(d.sh) \subseteq {"health", "load"}
  BY DEF Preserved
<1> HIDE DEF q, f
<1>5. ent'[i].q["layer"] = Level[d.sh] /\ ent'[i].q["fundamentality"] = f
  BY <1>1, <1>2, <1>3, <1>4 DEF Axes
<1>6. \A a \in Preserved(d.sh) : Known(i) /\ ent[i].q[a] # None => ent'[i].q[a] = ent[i].q[a]
  BY <1>1, <1>2, <1>4 DEF Axes
<1>7. "load" \notin Preserved(d.sh) => ent'[i].q["load"] = None
  BY <1>1, <1>2, <1>3 DEF Axes
<1> QED BY <1>5, <1>6, <1>7 DEF f

LEMMA PointsStep == SInv /\ PointsTrue /\ [StoreNext]_store => PointsTrue'
<1> SUFFICES ASSUME SInv, PointsTrue, [StoreNext]_store PROVE PointsTrue'
  OBVIOUS
<1> DEFINE True(i) == Known(i)' =>
        /\ ent'[i].q["layer"] = Level[ent'[i].sh]
        /\ i \in Pids => ent'[i].q["fundamentality"] = None
        /\ ent'[i].q["load"] # None => ent'[i].sh \in Loaded
<1>g. ASSUME \A i \in AllIds : True(i) PROVE PointsTrue'
  BY <1>g DEF PointsTrue
<1>s. ASSUME NEW i \in AllIds, ent'[i] \in {ent[i], None} PROVE True(i)
  BY <1>s DEF PointsTrue, Known
<1>c. ASSUME NEW i \in AllIds, NEW a \in {"health", "lifecycle"}, NEW v, Known(i), ent'[i] = Scored(i, a, v)
      PROVE  True(i)
  BY <1>c, ScoredKeeps DEF PointsTrue, SInv, Axes
<1>1. ASSUME NEW i \in Ids, NEW d \in Declaration, RegisterCall(i, d) PROVE PointsTrue'
  <2>1. ent'[i].sh = d.sh /\ \A j \in AllIds \ {i} : ent'[j] = ent[j]
    BY <1>1 DEF RegisterCall, Write, WithScores, SInv, StoreTypeOK
  <2>2. i \notin Pids
    OBVIOUS
  <2>3. True(i)
    BY <1>1, <2>1, <2>2, RegisteredPoint DEF Preserved
  <2> QED BY <1>g, <1>s, <2>1, <2>3
<1>2. ASSUME NEW of \in Ids, NEW on \in Hosts, NEW sh \in PlacedAs, NEW hb \in Names, NEW w \in Weights,
             PlaceCall(of, on, sh, hb, w)
      PROVE  PointsTrue'
  <2>1. /\ ent'[<<of, on>>].sh = sh /\ ent'[<<of, on>>].q = Point(sh, None)
        /\ \A i \in AllIds \ {<<of, on>>} : ent'[i] = ent[i]
    BY <1>2, PlacedPoint
  <2>2. /\ Point(sh, None)["layer"] = Level[sh] /\ Point(sh, None)["fundamentality"] = None
        /\ Point(sh, None)["load"] = None
    BY DEF Point, Axes
  <2>3. True(<<of, on>>)
    BY <2>1, <2>2
  <2> QED BY <1>g, <1>s, <2>1, <2>3
<1>3. ASSUME NEW i \in AllIds, Deregister(i) PROVE PointsTrue'
  <2>1. \A j \in AllIds : ent'[j] \in {ent[j], None}
    BY <1>3 DEF Deregister
  <2> QED BY <1>g, <1>s, <2>1
<1>4. ASSUME NEW f \in AllIds, NEW t \in AllIds, AddEdge(f, t) \/ RemoveEdge(f, t) PROVE PointsTrue'
  BY <1>4 DEF AddEdge, RemoveEdge, PointsTrue, Known
<1>5. ASSUME NEW i \in AllIds, NEW a \in {"load", "health", "lifecycle"}, NEW v \in Scores, SetDerived(i, a, v)
      PROVE  PointsTrue'
  <2>1. Known(i) /\ ent'[i] = Scored(i, a, v) /\ \A j \in AllIds \ {i} : ent'[j] = ent[j]
    BY <1>5 DEF SetDerived, SInv, StoreTypeOK
  <2>2. CASE a = "load"
    <3>1. ent[i].sh \in Loaded
      BY <1>5, <2>2 DEF SetDerived
    <3>2. True(i)
      BY <2>1, <2>2, <3>1, ScoredKeeps DEF PointsTrue, SInv, Axes
    <3> QED BY <1>g, <1>s, <2>1, <3>2
  <2>3. CASE a # "load"
    BY <1>g, <1>s, <1>c, <2>1, <2>3
  <2> QED BY <2>2, <2>3
<1>6. ASSUME NEW fresh \in SUBSET (Names \X Hosts), HealthDerive(fresh) PROVE PointsTrue'
  <2>1. ASSUME NEW i \in AllIds PROVE True(i)
    <3>1. CASE ~Derivable(i)
      BY <1>6, <1>s, <3>1 DEF HealthDerive
    <3>2. CASE Derivable(i)
      <4>1. ent'[i] = Scored(i, "health", Derived(i, fresh)) /\ Known(i)
        BY <1>6, <3>2 DEF HealthDerive, Derivable
      <4> QED BY <1>c, <4>1
    <3> QED BY <3>1, <3>2
  <2> QED BY <1>g, <2>1
<1>7. CASE UNCHANGED store
  BY <1>7 DEF store, PointsTrue, Known
<1> QED BY <1>1, <1>2, <1>3, <1>4, <1>5, <1>6, <1>7 DEF StoreNext

(* The potential of every id: what all the declarations of a name say, and a placement's. *)
FixedPotential(pot) ==
    /\ pot \in [AllIds -> [level : 1 .. 4, f : Weights]]
    /\ \A i \in Ids : \A d \in Declares(i) :
          pot[i].level = Level[d.sh] /\ pot[i].f = IF d.sh = "1" THEN 0 ELSE d.f
    /\ \A p \in Pids : pot[p].level = 4 /\ pot[p].f = 0

Falls(pot, x, y) ==
    \/ pot[x].level > pot[y].level
    \/ pot[x].level = pot[y].level /\ pot[x].f > pot[y].f

Phi(i) == IF ent[i].q["fundamentality"] = None THEN 0 ELSE ent[i].q["fundamentality"]

(* The records have these potentials, and the edges were let in by them. *)
ByPotential(pot) ==
    /\ \A i \in AllIds : Known(i) => Level[ent[i].sh] = pot[i].level /\ Phi(i) = pot[i].f
    /\ \A e \in edges : Falls(pot, e[1], e[2])

LEMMA PotentialsStay ==
    ASSUME NEW pot, FixedPotential(pot), CInv, PointsTrue', CInv', ByPotential(pot), [Next]_vars, NEW i \in AllIds, Known(i)'
    PROVE  Level[ent'[i].sh] = pot[i].level /\ Phi(i)' = pot[i].f
<1>1. CASE i \in Pids
  <2>1. ent'[i].sh \in PlacedAs /\ ent'[i].q["fundamentality"] = None
    BY <1>1 DEF CInv, SInv, Kinds, PointsTrue
  <2>2. Level[ent'[i].sh] = 4
    BY <2>1 DEF Level
  <2> QED BY <1>1, <2>1, <2>2 DEF FixedPotential, Phi
<1>2. CASE i \in Ids
  <2>1. CASE Kept(i)
    BY <2>1 DEF Kept, ByPotential, Phi
  <2>2. ASSUME NEW d \in Declares(i), RegisterCall(i, d) PROVE Level[ent'[i].sh] = pot[i].level /\ Phi(i)' = pot[i].f
    <3>1. d \in Declaration /\ d.f \in Weights
      BY <1>2, DeclaresType DEF Declaration
    <3>2. /\ ent'[i].sh = d.sh
          /\ ent'[i].q["fundamentality"] = IF d.sh = "1" THEN None ELSE d.f
      BY <1>2, <2>2, <3>1, RegisteredShape, RegisteredPoint DEF CInv
    <3>3. pot[i].level = Level[d.sh] /\ pot[i].f = IF d.sh = "1" THEN 0 ELSE d.f
      BY <1>2 DEF FixedPotential
    <3>4. d.f # None
      BY <3>1
    <3> QED BY <3>2, <3>3, <3>4 DEF Phi
  <2> QED BY <1>2, <2>1, <2>2, StepOfARecord
<1> QED BY <1>1, <1>2

(* Only ADD_EDGE adds an edge, and it compares what the indexes say. *)
LEMMA NewEdge ==
    ASSUME CInv, [Next]_vars, NEW e \in edges' \ edges
    PROVE  Known(e[1]) /\ Known(e[2]) /\ Above(e[1], e[2]) /\ e[1] \in AllIds /\ e[2] \in AllIds
<1>1. [StoreNext]_store
  BY Simulation DEF CInv
<1>2. PICK f \in AllIds, t \in AllIds : AddEdge(f, t)
  <2>1. ASSUME NEW i \in Ids, NEW d \in Declaration, RegisterCall(i, d) PROVE FALSE
    BY <2>1 DEF RegisterCall, links
  <2>2. ASSUME NEW of \in Ids, NEW on \in Hosts, NEW sh \in PlacedAs, NEW hb \in Names, NEW w \in Weights,
               PlaceCall(of, on, sh, hb, w)
        PROVE  FALSE
    BY <2>2 DEF PlaceCall, links
  <2>3. ASSUME NEW i \in AllIds, Deregister(i) PROVE FALSE
    BY <2>3 DEF Deregister
  <2>4. ASSUME NEW f \in AllIds, NEW t \in AllIds, RemoveEdge(f, t) PROVE FALSE
    BY <2>4 DEF RemoveEdge
  <2>5. ASSUME NEW i \in AllIds, NEW a \in {"load", "health", "lifecycle"}, NEW v \in Scores, SetDerived(i, a, v)
        PROVE  FALSE
    BY <2>5 DEF SetDerived, links
  <2>6. ASSUME NEW fresh \in SUBSET (Names \X Hosts), HealthDerive(fresh) PROVE FALSE
    BY <2>6 DEF HealthDerive, links
  <2>7. CASE UNCHANGED store
    BY <2>7 DEF store, links
  <2> QED BY <1>1, <2>1, <2>2, <2>3, <2>4, <2>5, <2>6, <2>7 DEF StoreNext
<1>3. e = <<f, t>>
  BY <1>2 DEF AddEdge
<1> QED BY <1>2, <1>3 DEF AddEdge

LEMMA ByPotentialStep ==
    ASSUME NEW pot, FixedPotential(pot), CInv, PointsTrue, ByPotential(pot), [Next]_vars
    PROVE  PointsTrue' /\ ByPotential(pot)'
<1>1. PointsTrue' /\ CInv'
  BY PointsStep, Simulation, StepInv DEF CInv
<1>2. \A i \in AllIds : Known(i)' => Level[ent'[i].sh] = pot[i].level /\ Phi(i)' = pot[i].f
  BY <1>1, PotentialsStay
<1>3. ASSUME NEW e \in edges' \ edges PROVE Falls(pot, e[1], e[2])
  <2>1. Known(e[1]) /\ Known(e[2]) /\ Above(e[1], e[2]) /\ e[1] \in AllIds /\ e[2] \in AllIds
    BY NewEdge
  <2>2. ASSUME NEW i \in AllIds, Known(i)
        PROVE  ix["layer"][i] = pot[i].level /\ Fundamentality(i) = pot[i].f
    <3>1. ix["layer"][i] = ent[i].q["layer"] /\ ix["fundamentality"][i] = ent[i].q["fundamentality"]
      BY <2>2 DEF CInv, SInv, IndexesAgree, Axes
    <3>2. ent[i].q["layer"] = pot[i].level /\ Phi(i) = pot[i].f
      BY <2>2 DEF PointsTrue, ByPotential
    <3> QED BY <3>1, <3>2 DEF Fundamentality, Phi
  <2> QED BY <2>1, <2>2 DEF Above, Falls
<1>4. \A e \in edges' : Falls(pot, e[1], e[2])
  BY <1>3 DEF ByPotential
<1> QED BY <1>1, <1>2, <1>4 DEF ByPotential, Phi, Falls, Known

LEMMA SpecByPotential ==
    ASSUME NEW CONSTANT pot, FixedPotential(pot)
    PROVE  Spec => []ByPotential(pot)
<1>1. Init => PointsTrue /\ ByPotential(pot)
  BY DEF Init, StoreInit, PointsTrue, ByPotential, Known
<1>2. CInv /\ PointsTrue /\ ByPotential(pot) /\ [Next]_vars => PointsTrue' /\ ByPotential(pot)'
  BY ByPotentialStep
<1> QED BY <1>1, <1>2, CallersInvariant, PTL DEF Spec

(* An edge goes from a higher potential to a lower one as long as the declarations of a name *)
(* agree on its potential, whatever is removed, registered again, re-placed and derived.     *)
THEOREM EdgesFollow ==
    ASSUME NEW CONSTANT pot, FixedPotential(pot)
    PROVE  Spec => []EdgesFollowPotential
<1>1. CInv /\ ByPotential(pot) => EdgesFollowPotential
  BY DEF CInv, SInv, EdgesWhole, StoreTypeOK, ByPotential, Falls, EdgesFollowPotential, Phi
<1> QED BY <1>1, SpecByPotential, CallersInvariant, PTL

LEMMA LeastNumber ==
    ASSUME NEW T, T \subseteq Nat, T # {}
    PROVE  \E x \in T : \A y \in T : x <= y
<1>1. PICK x \in T : \A y \in T : ~(<<y, x>> \in OpToRel(<, Nat))
  BY NatLessThanWellFounded, WFMin
<1>2. \A y \in T : ~(y < x)
  BY <1>1 DEF OpToRel
<1> QED BY <1>2

(* What phi is for: then the dependency edges have no cycle, also not a long one.  Only a *)
(* registration that moves a potential can close one.                                      *)
THEOREM NoCycle ==
    ASSUME NEW CONSTANT pot, FixedPotential(pot)
    PROVE  Spec => []NoDependencyCycle
<1>1. ASSUME CInv, ByPotential(pot) PROVE NoDependencyCycle
  <2> SUFFICES ASSUME NEW S \in (SUBSET {e[1] : e \in edges}) \ {{}}
               PROVE  \E x \in S : \A y \in S : <<x, y>> \notin edges
    BY DEF NoDependencyCycle
  <2>1. S \subseteq AllIds
    BY <1>1 DEF CInv, SInv, StoreTypeOK
  <2>2. \A i \in S : pot[i].level \in Nat /\ pot[i].f \in Nat
    BY <2>1 DEF FixedPotential
  <2>3. PICK l \in {pot[i].level : i \in S} : \A k \in {pot[i].level : i \in S} : l <= k
    <3>1. {pot[i].level : i \in S} \subseteq Nat /\ {pot[i].level : i \in S} # {}
      BY <2>2
    <3> QED BY <3>1, LeastNumber
  <2> DEFINE low == {i \in S : pot[i].level = l}
  <2>4. PICK f \in {pot[i].f : i \in low} : \A k \in {pot[i].f : i \in low} : f <= k
    <3>1. {pot[i].f : i \in low} \subseteq Nat /\ {pot[i].f : i \in low} # {}
      BY <2>2, <2>3
    <3> QED BY <3>1, LeastNumber
  <2>5. PICK x \in low : pot[x].f = f
    OBVIOUS
  <2>6. ASSUME NEW y \in S, <<x, y>> \in edges PROVE FALSE
    <3>1. Falls(pot, x, y)
      BY <1>1, <2>6 DEF ByPotential
    <3>2. l <= pot[y].level /\ (pot[y].level = l => f <= pot[y].f)
      BY <2>3, <2>4
    <3> QED BY <2>2, <2>5, <3>1, <3>2 DEF Falls
  <2> QED BY <2>6
<1> QED BY <1>1, SpecByPotential, CallersInvariant, PTL

(* No name is declared both with and without a load slot. *)
FixedLoads(L) == \A i \in Ids : \A d \in Declares(i) : d.sh \in Loaded <=> i \in L

LoadsStay(L) == \A i \in Ids : Known(i) => (ent[i].sh \in Loaded <=> i \in L)

LEMMA LoadsStep ==
    ASSUME NEW L, FixedLoads(L), CInv, LoadsStay(L), [Next]_vars
    PROVE  LoadsStay(L)'
<1>1. ASSUME NEW j \in Ids, Known(j)' PROVE ent'[j].sh \in Loaded <=> j \in L
  <2>1. CASE Kept(j)
    BY <2>1 DEF Kept, LoadsStay
  <2>2. ASSUME NEW d \in Declares(j), RegisterCall(j, d) PROVE ent'[j].sh \in Loaded <=> j \in L
    BY <2>2, DeclaresType, RegisteredShape DEF CInv, FixedLoads
  <2> QED BY <1>1, <2>1, <2>2, StepOfARecord
<1> QED BY <1>1 DEF LoadsStay

(* What was measured of an entity outlives its next registration, as long as no name is *)
(* declared both with and without a load slot.                                           *)
THEOREM DerivedSurvivesHolds ==
    ASSUME NEW CONSTANT L, FixedLoads(L)
    PROVE  Spec => DerivedSurvives
<1> DEFINE Kind(i) == \A a \in {"load", "health"} : ent[i].q[a] # None => ent'[i].q[a] = ent[i].q[a]
<1>1. ASSUME CInv, PointsTrue, LoadsStay(L), Next, NEW i \in Ids, Known(i), ent'[i] # None, reg' # reg
      PROVE  Kind(i)
  <2>1. ASSUME NEW r \in Registrars, Register(r) PROVE Kind(i)
    <3>1. PICK j \in Ids : \E d \in Declared[j] : RegisterCall(j, d)
      BY <2>1 DEF Register
    <3> PICK d \in Declared[j] : RegisterCall(j, d)
      BY <3>1
    <3>2. d \in Declaration /\ d \in Declares(j)
      BY DEF Declares
    <3>3. CASE j # i
      <4>1. ent'[i] = ent[i]
        BY <1>1, <3>2, <3>3, RegisteredShape DEF CInv
      <4> QED BY <4>1
    <3>4. CASE j = i
      <4>1. ent[i].q["load"] # None => d.sh \in Loaded
        BY <1>1, <3>2, <3>4 DEF PointsTrue, LoadsStay, FixedLoads
      <4>2. \A a \in {"load", "health"} : ent[i].q[a] # None => a \in Preserved(d.sh)
        BY <4>1 DEF Preserved
      <4> QED BY <1>1, <3>2, <3>4, <4>2, RegisteredPoint DEF CInv
    <3> QED BY <3>3, <3>4
  <2>2. ASSUME NEW r \in Registrars, PlaceRegistered(r) PROVE Kind(i)
    <3>1. reg[r] \in Orders
      BY <2>2, <1>1 DEF PlaceRegistered, CInv, CallersOK
    <3>2. CASE UNCHANGED store
      BY <3>2 DEF store
    <3>3. CASE PlaceCall(reg[r].of, reg[r].on, reg[r].sh, reg[r].hb, reg[r].w)
      <4>1. /\ reg[r].of \in Ids /\ reg[r].on \in Hosts /\ reg[r].sh \in PlacedAs
            /\ reg[r].hb \in Names /\ reg[r].w \in Weights
        BY <3>1 DEF Orders
      <4>2. ASSUME NEW of \in Ids, NEW on \in Hosts, NEW sh \in PlacedAs, NEW hb \in Names, NEW w \in Weights,
                   PlaceCall(of, on, sh, hb, w)
            PROVE  ent'[i] = ent[i]
        BY <1>1, <4>2 DEF PlaceCall, Write, CInv, SInv, StoreTypeOK
      <4>3. ent'[i] = ent[i]
        BY <3>3, <4>1, <4>2
      <4> QED BY <4>3
    <3> QED BY <2>2, <3>2, <3>3 DEF PlaceRegistered, PlaceRefused
  <2>3. ASSUME NEW h \in Daemons,
               \/ DeclareNode(h) \/ DeclareComponent(h) \/ DeclarePlacement(h)
               \/ QueryComponents(h) \/ QueryServices(h) \/ QueryNodes(h) \/ QueryExisting(h)
               \/ ScanHeartbeats(h) \/ PlaceBeat(h) \/ Derive(h) \/ Restart(h)
        PROVE  reg' = reg
    BY <2>3 DEF DeclareNode, DeclareComponent, DeclarePlacement, QueryComponents, QueryServices, QueryNodes,
                QueryExisting, ScanHeartbeats, PlaceBeat, Derive, Restart, At
  <2>4. ASSUME DeregisterRequest \/ EdgeRequest \/ Sample PROVE reg' = reg
    BY <2>4 DEF DeregisterRequest, EdgeRequest, Sample
  <2> QED BY <1>1, <2>1, <2>2, <2>3, <2>4 DEF Next
<1>2. CInv /\ PointsTrue /\ LoadsStay(L) /\ [Next]_vars =>
        [\A i \in Ids : Known(i) /\ ent'[i] # None /\ reg' # reg => Kind(i)]_vars
  BY <1>1
<1>3. Init => PointsTrue /\ LoadsStay(L)
  BY DEF Init, StoreInit, PointsTrue, LoadsStay, Known
<1>4. CInv /\ PointsTrue /\ LoadsStay(L) /\ [Next]_vars => PointsTrue' /\ LoadsStay(L)'
  BY PointsStep, LoadsStep, Simulation DEF CInv
<1> QED BY <1>2, <1>3, <1>4, CallersInvariant, PTL DEF Spec, DerivedSurvives

=============================================================================
