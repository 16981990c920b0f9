---------------------- MODULE ConstellationStore_proofs ----------------------
(***************************************************************************)
(* What the store keeps beside its records stays exact, for every set of   *)
(* names and whatever sequence of calls its clients make.                  *)
(***************************************************************************)
EXTENDS ConstellationStore, FiniteSetTheorems, TLAPS

USE NamesAssumption, NoneAssumption, SizeAssumption
USE DEF Pids, AllIds, Services, PlacedAs, Shapes, Loaded, Axes, Unknown, Dead, Active, Healthy, Weights, Scores, MaybeScore

(* The kind of record an id has. *)
Kinds ==
    /\ \A i \in Ids : Known(i) => ent[i].sh \in Shapes
    /\ \A p \in Pids : Known(p) => ent[p].sh \in PlacedAs /\ ent[p].of = p[1] /\ ent[p].on = p[2]

(* A ring names registered placements only, each on the ring of its own service. *)
RingPlaced == \A r \in ring : r[2] \in placements /\ r[1] = r[2][1]

(* The inductive invariant. *)
SInv == StoreTypeOK /\ Kinds /\ IndexesAgree /\ PlacementsAnchored /\ RingPlaced /\ EdgesWhole

-----------------------------------------------------------------------------
(* Types of the operators.                                                 *)

LEMMA LevelType == Level \in [Shapes \cup PlacedAs -> 1 .. 4]
BY DEF Level

LEMMA PointType ==
    ASSUME NEW sh \in Shapes \cup PlacedAs, NEW f \in Weights \cup {None}
    PROVE  Point(sh, f) \in Points
<1>1. Level[sh] \in 1 .. 4
  BY LevelType
<1>2. \A a \in Axes : Point(sh, f)[a] \in MaybeScore
  BY <1>1 DEF Point
<1>3. \A a \in {"layer", "health", "lifecycle"} : Point(sh, f)[a] # None
  BY <1>1 DEF Point
<1> QED BY <1>2, <1>3 DEF Points, Point

LEMMA MergedType ==
    ASSUME StoreTypeOK, NEW id \in AllIds, NEW q \in Points, NEW P \in SUBSET Axes
    PROVE  Merged(id, q, P) \in Points
<1>1. Known(id) => ent[id].q \in Points
  BY DEF StoreTypeOK, Records, Known
<1> QED BY <1>1 DEF Merged, Points

LEMMA WithScoresType ==
    ASSUME NEW rec \in Records, NEW q \in Points
    PROVE  WithScores(rec, q) \in Records
BY DEF Records, WithScores

LEMMA ScoredType ==
    ASSUME StoreTypeOK, NEW i \in AllIds, Known(i), NEW a \in {"load", "health", "lifecycle"}, NEW v \in Scores
    PROVE  Scored(i, a, v) \in Records
<1>1. ent[i] \in Records
  BY DEF StoreTypeOK, Known
<1>2. ent[i].q \in Points
  BY <1>1 DEF Records
<1>3. [ent[i].q EXCEPT ![a] = v] \in Points
  BY <1>2 DEF Points
<1> QED BY <1>1, <1>3, WithScoresType DEF Scored

LEMMA WriteType ==
    ASSUME StoreTypeOK, NEW id \in AllIds, NEW rec \in Records, NEW P \in SUBSET Axes, Write(id, rec, P)
    PROVE  /\ ent' \in [AllIds -> Records \cup {None}]
           /\ ix' \in [Axes -> [AllIds -> MaybeScore]]
           /\ ec' \in Int
<1>1. PICK q \in Points : q = Merged(id, rec.q, P)
  BY MergedType DEF Records
<1>2. WithScores(rec, q) \in Records
  BY WithScoresType
<1>3. ent' = [ent EXCEPT ![id] = WithScores(rec, q)] /\ ix' = Indexed(id, q)
  BY <1>1 DEF Write
<1>4. ix' \in [Axes -> [AllIds -> MaybeScore]]
  BY <1>3 DEF StoreTypeOK, Indexed, Points
<1>5. ec' \in Int
  BY DEF StoreTypeOK, Write
<1> QED BY <1>2, <1>3, <1>4, <1>5 DEF StoreTypeOK

(* What a write leaves in the record and in the indexes. *)
LEMMA WriteAgrees ==
    ASSUME SInv, NEW id \in AllIds, NEW rec \in Records, NEW P \in SUBSET Axes, Write(id, rec, P)
    PROVE  /\ IndexesAgree'
           /\ Known(id)'
           /\ ent'[id].sh = rec.sh /\ ent'[id].of = rec.of /\ ent'[id].on = rec.on
           /\ \A i \in AllIds \ {id} : ent'[i] = ent[i]
<1>1. PICK q \in Points : q = Merged(id, rec.q, P)
  BY MergedType DEF Records, SInv
<1>2. ent' = [ent EXCEPT ![id] = WithScores(rec, q)] /\ ix' = Indexed(id, q)
  BY <1>1 DEF Write
<1>3. ent \in [AllIds -> Records \cup {None}] /\ ix \in [Axes -> [AllIds -> MaybeScore]]
  BY DEF SInv, StoreTypeOK
<1>4. \A i \in AllIds \ {id} : ent'[i] = ent[i]
  BY <1>2, <1>3
<1>5. ent'[id] = WithScores(rec, q) /\ ent'[id] \in Records
  BY <1>2, <1>3, WithScoresType
<1>6. \A a \in Axes, i \in AllIds : ix'[a][i] = IF ent'[i] # None THEN ent'[i].q[a] ELSE None
  <2> SUFFICES ASSUME NEW a \in Axes, NEW i \in AllIds
               PROVE  ix'[a][i] = IF ent'[i] # None THEN ent'[i].q[a] ELSE None
    OBVIOUS
  <2>1. ix[a][i] = IF ent[i] # None THEN ent[i].q[a] ELSE None
    BY DEF SInv, IndexesAgree, Known
  <2>2. CASE i # id
    BY <1>2, <1>3, <1>4, <2>1, <2>2 DEF Indexed
  <2>3. CASE i = id
    <3>1. ent'[id].q = q
      BY <1>5 DEF WithScores
    <3>2. ix'[a][id] = q[a]
      BY <1>2, <1>3, <2>1, <2>3 DEF Indexed, Known
    <3> QED BY <1>5, <2>3, <3>1, <3>2
  <2> QED BY <2>2, <2>3
<1> QED BY <1>4, <1>5, <1>6 DEF IndexesAgree, Known, WithScores

-----------------------------------------------------------------------------
(* The invariant, one function of the library at a time.                   *)

LEMMA BumpType ==
    ASSUME gen \in 0 .. GenModulus - 1, Bump \/ UNCHANGED gen
    PROVE  gen' \in 0 .. GenModulus - 1
BY DEF Bump

LEMMA RegisterKeeps ==
    ASSUME SInv, NEW i \in Ids, NEW d \in Declaration, RegisterCall(i, d)
    PROVE  SInv'
<1>1. PICK f \in Weights \cup {None} : f = IF d.sh = "1" THEN None ELSE d.f
  BY DEF Declaration
<1>2. PICK rec \in Records : rec = [sh |-> d.sh, of |-> None, on |-> None, hb |-> d.hb, w |-> d.w, q |-> Point(d.sh, f)]
  BY PointType DEF Declaration, Records
<1>3. PICK P \in SUBSET Axes : P = Preserved(d.sh)
  BY DEF Preserved
<1>4. Write(i, rec, P) /\ Bump /\ UNCHANGED <<plof, plon, placements, ring, wt, edges, outs, ins, xc>>
  BY <1>1, <1>2, <1>3 DEF RegisterCall, links
<1>5. i \in AllIds /\ i \notin Pids
  OBVIOUS
<1>6. StoreTypeOK'
  <2>1. ent' \in [AllIds -> Records \cup {None}] /\ ix' \in [Axes -> [AllIds -> MaybeScore]] /\ ec' \in Int
    BY <1>4, <1>5, WriteType DEF SInv
  <2>2. gen' \in 0 .. GenModulus - 1
    BY <1>4, BumpType DEF SInv, StoreTypeOK
  <2> QED BY <1>4, <2>1, <2>2 DEF SInv, StoreTypeOK
<1>7. /\ IndexesAgree' /\ Known(i)' /\ ent'[i].sh = d.sh
      /\ \A j \in AllIds \ {i} : ent'[j] = ent[j]
  BY <1>2, <1>4, <1>5, WriteAgrees
<1>8. \A j \in AllIds : Known(j) => Known(j)'
  BY <1>7 DEF Known
<1>9. \A p \in Pids : ent'[p] = ent[p]
  BY <1>5, <1>7
<1>10. Kinds'
  BY <1>7, <1>9 DEF SInv, Kinds, Known, Declaration
<1>11. PlacementsAnchored'
  <2>1. \A p \in Pids : Known(p) => ent[p].of \in AllIds /\ ent[p].on \in AllIds
    BY DEF SInv, Kinds
  <2> QED BY <1>4, <1>8, <1>9, <2>1 DEF SInv, PlacementsAnchored, Known
<1>12. RingPlaced' /\ EdgesWhole'
  BY <1>4, <1>8 DEF SInv, RingPlaced, EdgesWhole, StoreTypeOK
<1> QED BY <1>6, <1>7, <1>10, <1>11, <1>12 DEF SInv

LEMMA PlaceKeeps ==
    ASSUME SInv, NEW of \in Ids, NEW on \in Hosts, NEW sh \in PlacedAs, NEW hb \in Names, NEW w \in Weights,
           PlaceCall(of, on, sh, hb, w)
    PROVE  SInv'
<1>1. PICK id \in Pids : id = <<of, on>>
  OBVIOUS
<1>2. PICK rec \in Records : rec = [sh |-> sh, of |-> of, on |-> on, hb |-> hb, w |-> w, q |-> Point(sh, None)]
  BY PointType DEF Records
<1>3. /\ Known(of) /\ Known(on) /\ Write(id, rec, {}) /\ Bump
      /\ plof' = plof \cup {<<of, id>>} /\ plon' = plon \cup {<<on, id>>}
      /\ placements' = placements \cup {id} /\ wt' = [wt EXCEPT ![id] = w]
      /\ ring' = Synced(id, rec, rec.q)
      /\ UNCHANGED <<edges, outs, ins, xc>>
  BY <1>1, <1>2 DEF PlaceCall, Placeable, links
<1>4. id \in AllIds /\ id \notin Ids /\ of # id /\ on # id /\ of \in AllIds /\ on \in AllIds
  BY <1>1
<1>5. ring' \subseteq ring \cup {<<of, id>>}
  BY <1>2, <1>3 DEF Synced
<1>6. StoreTypeOK'
  <2>1. ent' \in [AllIds -> Records \cup {None}] /\ ix' \in [Axes -> [AllIds -> MaybeScore]] /\ ec' \in Int
    BY <1>3, <1>4, WriteType DEF SInv
  <2>2. gen' \in 0 .. GenModulus - 1
    BY <1>3, BumpType DEF SInv, StoreTypeOK
  <2>3. wt' \in [AllIds -> Weights \cup {None}]
    BY <1>3 DEF SInv, StoreTypeOK
  <2> QED BY <1>1, <1>3, <1>5, <2>1, <2>2, <2>3 DEF SInv, StoreTypeOK
<1>7. /\ IndexesAgree' /\ Known(id)'
      /\ ent'[id].sh = sh /\ ent'[id].of = of /\ ent'[id].on = on
      /\ \A j \in AllIds \ {id} : ent'[j] = ent[j]
  BY <1>2, <1>3, <1>4, WriteAgrees
<1>8. \A j \in AllIds : Known(j) => Known(j)'
  BY <1>7 DEF Known
<1>9. Kinds'
  BY <1>1, <1>4, <1>7 DEF SInv, Kinds, Known
<1>10. PlacementsAnchored'
  <2>1. \A p \in Pids : Known(p)' => (p = <<ent[p].of, ent[p].on>> /\ Known(ent[p].of) /\ Known(ent[p].on))'
    <3> SUFFICES ASSUME NEW p \in Pids, Known(p)'
                 PROVE  (p = <<ent[p].of, ent[p].on>> /\ Known(ent[p].of) /\ Known(ent[p].on))'
      OBVIOUS
    <3>1. CASE p = id
      BY <1>1, <1>3, <1>4, <1>7, <1>8, <3>1 DEF Known
    <3>2. CASE p # id
      <4>1. Known(p) /\ ent'[p] = ent[p]
        BY <1>7, <3>2 DEF Known
      <4>2. p = <<ent[p].of, ent[p].on>> /\ Known(ent[p].of) /\ Known(ent[p].on)
        BY <4>1 DEF SInv, PlacementsAnchored
      <4>3. ent[p].of \in AllIds /\ ent[p].on \in AllIds
        BY <4>1 DEF SInv, Kinds
      <4> QED BY <1>8, <4>1, <4>2, <4>3 DEF Known
    <3> QED BY <3>1, <3>2
  <2>2. placements' = {p \in Pids : Known(p)'}
    BY <1>3, <1>7 DEF SInv, PlacementsAnchored, Known
  <2>3. plof' = {<<p[1], p>> : p \in placements'} /\ plon' = {<<p[2], p>> : p \in placements'}
    BY <1>1, <1>3 DEF SInv, PlacementsAnchored
  <2>4. \A i \in AllIds : wt'[i] # None <=> i \in placements'
    <3>1. wt \in [AllIds -> Weights \cup {None}]
      BY DEF SInv, StoreTypeOK
    <3> QED BY <1>3, <1>4, <3>1 DEF SInv, PlacementsAnchored
  <2> QED BY <2>1, <2>2, <2>3, <2>4 DEF PlacementsAnchored, Known
<1>11. RingPlaced'
  BY <1>1, <1>3, <1>5 DEF SInv, RingPlaced
<1>12. EdgesWhole'
  BY <1>3, <1>8 DEF SInv, EdgesWhole, StoreTypeOK
<1> QED BY <1>6, <1>7, <1>9, <1>10, <1>11, <1>12 DEF SInv

LEMMA LeavingType ==
    ASSUME SInv, NEW id \in AllIds, Known(id)
    PROVE  /\ Leaving(id) \in SUBSET AllIds /\ id \in Leaving(id)
           /\ \A i \in Leaving(id) : Known(i)
           /\ \A p \in Pids : p[1] = id \/ p[2] = id => (p \in Leaving(id) <=> p \in placements)
           /\ \A i \in Leaving(id) : i = id \/ i \in placements
<1>1. placements = {p \in Pids : Known(p)} /\ plof = {<<p[1], p>> : p \in placements} /\ plon = {<<p[2], p>> : p \in placements}
  BY DEF SInv, PlacementsAnchored
<1>2. \A p \in Pids : p \in PlacementsOf(id) <=> p \in placements /\ (p[1] = id \/ p[2] = id)
  BY <1>1 DEF PlacementsOf
<1>3. \A p \in Pids : p[1] \in Ids /\ p[2] \in Ids
  OBVIOUS
<1>4. CASE id \in Ids
  <2>1. ent[id].sh \notin PlacedAs
    BY <1>4 DEF SInv, Kinds
  <2>2. Leaving(id) = {id} \cup {p \in PlacementsOf(id) : Known(p)}
    BY <2>1 DEF Leaving
  <2>3. PlacementsOf(id) \subseteq Pids
    BY DEF PlacementsOf
  <2> QED BY <1>1, <1>2, <1>4, <2>2, <2>3
<1>5. CASE id \in Pids
  <2>1. ent[id].sh \in PlacedAs
    BY <1>5 DEF SInv, Kinds
  <2>2. Leaving(id) = {id}
    BY <2>1 DEF Leaving
  <2> QED BY <1>3, <1>5, <2>2
<1> QED BY <1>4, <1>5

LEMMA DeregisterKeeps ==
    ASSUME SInv, NEW id \in AllIds, Deregister(id)
    PROVE  SInv'
<1>1. PICK gone \in SUBSET AllIds :
         /\ gone = Leaving(id) /\ id \in gone
         /\ \A i \in gone : Known(i)
         /\ \A p \in Pids : p[1] = id \/ p[2] = id => (p \in gone <=> p \in placements)
         /\ \A i \in gone : i = id \/ i \in placements
  BY LeavingType DEF Deregister
<1>2. PICK cut \in SUBSET (AllIds \X AllIds) :
         /\ cut = Incident(gone)
         /\ \A e \in edges : e[1] \in gone \/ e[2] \in gone => e \in cut
  <2>1. edges \subseteq AllIds \X AllIds /\ outs = edges /\ ins = edges
    BY DEF SInv, EdgesWhole, StoreTypeOK
  <2>2. Incident(gone) \in SUBSET (AllIds \X AllIds)
    BY <2>1 DEF Incident
  <2>3. \A e \in edges : e[1] \in gone \/ e[2] \in gone => e \in Incident(gone)
    BY <2>1 DEF Incident
  <2> QED BY <2>2, <2>3
<1>3. /\ plof' = {x \in plof : x[1] # id /\ ~(x[2] \in gone /\ x[1] = ent[x[2]].of)}
      /\ plon' = {x \in plon : x[1] # id /\ ~(x[2] \in gone /\ x[1] = ent[x[2]].on)}
      /\ placements' = placements \ gone
      /\ ring' = ring \ RingLeft(id, gone)
      /\ ix' = [a \in Axes |-> [i \in AllIds |-> IF i \in gone /\ ent[i].q[a] # None THEN None ELSE ix[a][i]]]
      /\ wt' = [i \in AllIds |-> IF i \in gone THEN None ELSE wt[i]]
      /\ edges' = edges \ cut /\ outs' = outs \ cut /\ ins' = ins \ cut
      /\ ent' = [i \in AllIds |-> IF i \in gone THEN None ELSE ent[i]]
      /\ Bump
  BY <1>1, <1>2 DEF Deregister
<1>4. ec' = ec - Cardinality(gone) /\ xc' = xc - Cardinality(cut)
  BY <1>1, <1>2 DEF Deregister
<1>5. StoreTypeOK'
  <2>1. IsFiniteSet(gone) /\ IsFiniteSet(cut)
    <3>1. IsFiniteSet(AllIds)
      <4>1. IsFiniteSet(Hosts)
        BY FS_Subset
      <4>2. IsFiniteSet(Ids \X Hosts)
        BY <4>1, FS_Product
      <4> QED BY <4>2, FS_Union
    <3>2. IsFiniteSet(AllIds \X AllIds)
      BY <3>1, FS_Product
    <3> QED BY <3>1, <3>2, FS_Subset
  <2>2. Cardinality(gone) \in Nat /\ Cardinality(cut) \in Nat
    BY <2>1, FS_CardinalityType
  <2>3. ec' \in Int /\ xc' \in Int
    BY <1>4, <2>2 DEF SInv, StoreTypeOK
  <2>4. gen' \in 0 .. GenModulus - 1
    BY <1>3, BumpType DEF SInv, StoreTypeOK
  <2>5. ix' \in [Axes -> [AllIds -> MaybeScore]]
    BY <1>3 DEF SInv, StoreTypeOK
  <2>6. ent' \in [AllIds -> Records \cup {None}] /\ wt' \in [AllIds -> Weights \cup {None}]
    BY <1>3 DEF SInv, StoreTypeOK
  <2> QED BY <1>3, <2>3, <2>4, <2>5, <2>6 DEF SInv, StoreTypeOK
<1>6. \A i \in AllIds : ent'[i] = IF i \in gone THEN None ELSE ent[i]
  BY <1>3
<1>7. Kinds'
  BY <1>6 DEF SInv, Kinds, Known
<1>8. IndexesAgree'
  <2> SUFFICES ASSUME NEW a \in Axes, NEW i \in AllIds
               PROVE  ix'[a][i] = IF ent'[i] # None THEN ent'[i].q[a] ELSE None
    BY DEF IndexesAgree, Known
  <2>1. ix[a][i] = IF ent[i] # None THEN ent[i].q[a] ELSE None
    BY DEF SInv, IndexesAgree, Known
  <2>2. ix'[a][i] = IF i \in gone /\ ent[i].q[a] # None THEN None ELSE ix[a][i]
    BY <1>3
  <2> QED BY <1>1, <1>6, <2>1, <2>2 DEF Known
<1>9. PlacementsAnchored'
  <2>1. \A p \in Pids : Known(p) => p[1] \in AllIds /\ p[2] \in AllIds /\ ent[p].of = p[1] /\ ent[p].on = p[2]
    BY DEF SInv, Kinds
  <2>2. \A p \in Pids : p \in placements <=> Known(p)
    BY DEF SInv, PlacementsAnchored
  <2>3. \A p \in Pids : Known(p)' => (p = <<ent[p].of, ent[p].on>> /\ Known(ent[p].of) /\ Known(ent[p].on))'
    <3> SUFFICES ASSUME NEW p \in Pids, Known(p)'
                 PROVE  (p = <<ent[p].of, ent[p].on>> /\ Known(ent[p].of) /\ Known(ent[p].on))'
      OBVIOUS
    <3>1. p \notin gone /\ ent'[p] = ent[p] /\ Known(p)
      BY <1>6 DEF Known
    <3>2. p = <<ent[p].of, ent[p].on>> /\ Known(p[1]) /\ Known(p[2])
      BY <3>1, <2>1 DEF SInv, PlacementsAnchored
    <3>3. p[1] # id /\ p[2] # id
      BY <1>1, <2>2, <3>1
    <3>4. p[1] \notin Pids /\ p[2] \notin Pids
      OBVIOUS
    <3>5. p[1] \notin gone /\ p[2] \notin gone
      BY <1>1, <3>3, <3>4 DEF SInv, StoreTypeOK
    <3> QED BY <1>6, <2>1, <3>1, <3>2, <3>5 DEF Known
  <2>4. placements' = {p \in Pids : Known(p)'}
    BY <1>3, <1>6 DEF SInv, PlacementsAnchored, Known
  <2>5. plof' = {<<p[1], p>> : p \in placements'} /\ plon' = {<<p[2], p>> : p \in placements'}
    <3>1. plof = {<<p[1], p>> : p \in placements} /\ plon = {<<p[2], p>> : p \in placements} /\ placements \subseteq Pids
      BY DEF SInv, PlacementsAnchored
    <3>2. \A p \in placements : (p[1] # id /\ ~(p \in gone /\ p[1] = ent[p].of)) <=> p \notin gone
      BY <1>1, <2>1, <2>2, <3>1
    <3>3. \A p \in placements : (p[2] # id /\ ~(p \in gone /\ p[2] = ent[p].on)) <=> p \notin gone
      BY <1>1, <2>1, <2>2, <3>1
    <3>4. plof' = {<<p[1], p>> : p \in placements'}
      BY <1>3, <3>1, <3>2
    <3>5. plon' = {<<p[2], p>> : p \in placements'}
      BY <1>3, <3>1, <3>3
    <3> QED BY <3>4, <3>5
  <2>6. \A i \in AllIds : wt'[i] # None <=> i \in placements'
    BY <1>3 DEF SInv, PlacementsAnchored
  <2> QED BY <2>3, <2>4, <2>5, <2>6 DEF PlacementsAnchored, Known
<1>10. RingPlaced'
  <2>1. \A r \in ring : r[2] \in gone => r \in RingLeft(id, gone)
    BY DEF RingLeft, SInv, RingPlaced, Kinds, PlacementsAnchored
  <2> QED BY <1>3, <2>1 DEF SInv, RingPlaced
<1>11. EdgesWhole'
  BY <1>2, <1>3, <1>6 DEF SInv, EdgesWhole, Known, StoreTypeOK
<1> QED BY <1>5, <1>7, <1>8, <1>9, <1>10, <1>11 DEF SInv

LEMMA AddEdgeKeeps ==
    ASSUME SInv, NEW f \in AllIds, NEW t \in AllIds, AddEdge(f, t)
    PROVE  SInv'
<1>1. /\ Known(f) /\ Known(t) /\ Bump /\ UNCHANGED <<ent, ix, ec, plof, plon, placements, ring, wt>>
      /\ edges' = edges \cup {<<f, t>>} /\ outs' = outs \cup {<<f, t>>} /\ ins' = ins \cup {<<f, t>>}
      /\ xc' = IF <<f, t>> \in edges THEN xc ELSE xc + 1
  BY DEF AddEdge
<1>2. StoreTypeOK'
  BY <1>1, BumpType DEF SInv, StoreTypeOK
<1>3. Kinds' /\ IndexesAgree' /\ RingPlaced'
  BY <1>1 DEF SInv, Kinds, IndexesAgree, RingPlaced, Known
<1>4. PlacementsAnchored'
  BY <1>1 DEF SInv, PlacementsAnchored, Known
<1>5. EdgesWhole'
  BY <1>1 DEF SInv, EdgesWhole, Known
<1> QED BY <1>2, <1>3, <1>4, <1>5 DEF SInv

LEMMA RemoveEdgeKeeps ==
    ASSUME SInv, NEW f \in AllIds, NEW t \in AllIds, RemoveEdge(f, t)
    PROVE  SInv'
<1>1. /\ Bump /\ UNCHANGED <<ent, ix, ec, plof, plon, placements, ring, wt>>
      /\ edges' = edges \ {<<f, t>>} /\ outs' = outs \ {<<f, t>>} /\ ins' = ins \ {<<f, t>>}
      /\ xc' = xc - 1
  BY DEF RemoveEdge
<1>2. StoreTypeOK'
  BY <1>1, BumpType DEF SInv, StoreTypeOK
<1>3. Kinds' /\ IndexesAgree' /\ RingPlaced'
  BY <1>1 DEF SInv, Kinds, IndexesAgree, RingPlaced, Known
<1>4. PlacementsAnchored'
  BY <1>1 DEF SInv, PlacementsAnchored, Known
<1>5. EdgesWhole'
  BY <1>1 DEF SInv, EdgesWhole, Known
<1> QED BY <1>2, <1>3, <1>4, <1>5 DEF SInv

(* The derived writes change nothing of a record but its scores. *)
LEMMA ScoresOnlyKeep ==
    ASSUME SInv,
           \A i \in AllIds : (Known(i)' <=> Known(i))
               /\ (Known(i) => ent'[i].sh = ent[i].sh /\ ent'[i].of = ent[i].of /\ ent'[i].on = ent[i].on),
           ring' \subseteq ring \cup {<<ent[p].of, p>> : p \in {p \in placements : Known(p)}},
           UNCHANGED <<plof, plon, placements, wt, edges, outs, ins, xc>>
    PROVE  Kinds' /\ PlacementsAnchored' /\ RingPlaced' /\ EdgesWhole'
<1>1. Kinds'
  BY DEF SInv, Kinds
<1>2. \A p \in Pids : Known(p) => ent[p].of = p[1] /\ ent[p].on = p[2] /\ p[1] \in AllIds /\ p[2] \in AllIds
  BY DEF SInv, Kinds
<1>3. PlacementsAnchored'
  <2>1. \A p \in Pids : Known(p)' => (p = <<ent[p].of, ent[p].on>> /\ Known(ent[p].of) /\ Known(ent[p].on))'
    BY <1>2 DEF SInv, PlacementsAnchored, Known
  <2>2. placements' = {p \in Pids : Known(p)'}
    BY DEF SInv, PlacementsAnchored
  <2> QED BY <2>1, <2>2 DEF SInv, PlacementsAnchored, Known
<1>4. RingPlaced'
  <2>1. placements \subseteq Pids
    BY DEF SInv, StoreTypeOK
  <2>2. \A r \in ring' : r[2] \in placements /\ r[1] = r[2][1]
    <3> SUFFICES ASSUME NEW r \in ring' PROVE r[2] \in placements /\ r[1] = r[2][1]
      OBVIOUS
    <3>1. CASE r \in ring
      BY <3>1 DEF SInv, RingPlaced
    <3>2. CASE r \notin ring
      <4>1. PICK p \in placements : Known(p) /\ r = <<ent[p].of, p>>
        BY <3>2
      <4> QED BY <1>2, <2>1, <4>1
    <3> QED BY <3>1, <3>2
  <2> QED BY <2>2 DEF RingPlaced
<1>5. EdgesWhole'
  BY DEF SInv, EdgesWhole, StoreTypeOK
<1> QED BY <1>1, <1>3, <1>4, <1>5

LEMMA SetDerivedKeeps ==
    ASSUME SInv, NEW i \in AllIds, NEW a \in {"load", "health", "lifecycle"}, NEW v \in Scores, SetDerived(i, a, v)
    PROVE  SInv'
<1>1. PICK rec \in Records : rec = Scored(i, a, v)
  BY ScoredType DEF SetDerived, SInv
<1>2. rec.sh = ent[i].sh /\ rec.of = ent[i].of /\ rec.on = ent[i].on /\ rec.q = [ent[i].q EXCEPT ![a] = v]
  BY <1>1 DEF Scored, WithScores
<1>3. /\ Known(i) /\ ent' = [ent EXCEPT ![i] = rec] /\ ix' = [ix EXCEPT ![a][i] = v]
      /\ ring' = Synced(i, ent[i], rec.q) /\ (Bump \/ UNCHANGED gen)
      /\ UNCHANGED <<ec, plof, plon, placements, wt, edges, outs, ins, xc>>
  BY <1>1 DEF SetDerived, links
<1>4. ent \in [AllIds -> Records \cup {None}] /\ ix \in [Axes -> [AllIds -> MaybeScore]]
  BY DEF SInv, StoreTypeOK
<1>5. \A j \in AllIds : ent'[j] = IF j = i THEN rec ELSE ent[j]
  BY <1>3, <1>4
<1>6. ent[i].sh = "4.2" => i \in Pids /\ i \in placements
  <2>1. i \in Ids => ent[i].sh \in Shapes
    BY <1>3 DEF SInv, Kinds
  <2> QED BY <1>3, <2>1 DEF SInv, PlacementsAnchored
<1>7. ring' \subseteq ring \cup {<<ent[p].of, p>> : p \in {p \in placements : Known(p)}}
  BY <1>3, <1>6 DEF Synced
<1>8. Kinds' /\ PlacementsAnchored' /\ RingPlaced' /\ EdgesWhole'
  <2>1. \A j \in AllIds : (Known(j)' <=> Known(j))
            /\ (Known(j) => ent'[j].sh = ent[j].sh /\ ent'[j].of = ent[j].of /\ ent'[j].on = ent[j].on)
    BY <1>2, <1>3, <1>5 DEF Known
  <2> QED BY <1>3, <1>7, <2>1, ScoresOnlyKeep
<1>9. IndexesAgree'
  <2> SUFFICES ASSUME NEW b \in Axes, NEW j \in AllIds
               PROVE  ix'[b][j] = IF ent'[j] # None THEN ent'[j].q[b] ELSE None
    BY DEF IndexesAgree, Known
  <2>1. ix[b][j] = IF ent[j] # None THEN ent[j].q[b] ELSE None
    BY DEF SInv, IndexesAgree, Known
  <2>2. ix'[b][j] = IF b = a /\ j = i THEN v ELSE ix[b][j]
    BY <1>3, <1>4
  <2>3. ent[i].q \in [Axes -> MaybeScore]
    BY <1>3, <1>4 DEF Known, Records, Points
  <2> QED BY <1>2, <1>3, <1>5, <2>1, <2>2, <2>3 DEF Known
<1>10. StoreTypeOK'
  <2>1. gen' \in 0 .. GenModulus - 1
    BY <1>3, BumpType DEF SInv, StoreTypeOK
  <2>2. ent' \in [AllIds -> Records \cup {None}] /\ ix' \in [Axes -> [AllIds -> MaybeScore]]
    BY <1>3, <1>4
  <2>3. ring' \subseteq Ids \X Pids
    BY <1>7 DEF SInv, StoreTypeOK, Kinds
  <2> QED BY <1>3, <2>1, <2>2, <2>3 DEF SInv, StoreTypeOK
<1> QED BY <1>8, <1>9, <1>10 DEF SInv

LEMMA HealthDeriveKeeps ==
    ASSUME SInv, NEW fresh \in SUBSET (Names \X Hosts), HealthDerive(fresh)
    PROVE  SInv'
<1>1. \A i \in AllIds : Derived(i, fresh) \in {Dead, Healthy}
  BY DEF Derived, Measured
<1>2. \A i \in AllIds : Derivable(i) => Known(i)
  BY DEF Derivable
<1>3. /\ ent' = [i \in AllIds |-> IF Derivable(i) THEN Scored(i, "health", Derived(i, fresh)) ELSE ent[i]]
      /\ ix' = [ix EXCEPT !["health"] =
             [i \in AllIds |-> IF Derivable(i) THEN Derived(i, fresh) ELSE ix["health"][i]]]
      /\ ring' = DerivedRing(fresh) /\ (Bump \/ UNCHANGED gen)
      /\ UNCHANGED <<ec, plof, plon, placements, wt, edges, outs, ins, xc>>
  BY DEF HealthDerive, links
<1>4. ent \in [AllIds -> Records \cup {None}] /\ ix \in [Axes -> [AllIds -> MaybeScore]]
  BY DEF SInv, StoreTypeOK
<1>5. \A i \in AllIds : Derivable(i) => Scored(i, "health", Derived(i, fresh)) \in Records
  BY <1>1, <1>2, ScoredType DEF SInv
<1>6. \A i \in AllIds : Derivable(i) =>
          /\ ent'[i].sh = ent[i].sh /\ ent'[i].of = ent[i].of /\ ent'[i].on = ent[i].on
          /\ ent'[i].q = [ent[i].q EXCEPT !["health"] = Derived(i, fresh)]
  BY <1>3 DEF Scored, WithScores
<1>7. \A i \in AllIds : ~Derivable(i) => ent'[i] = ent[i]
  BY <1>3
<1>8. ring' \subseteq ring \cup {<<ent[p].of, p>> : p \in {p \in placements : Known(p)}}
  BY <1>3 DEF DerivedRing, RingOf
<1>9. Kinds' /\ PlacementsAnchored' /\ RingPlaced' /\ EdgesWhole'
  <2>1. \A j \in AllIds : (Known(j)' <=> Known(j))
            /\ (Known(j) => ent'[j].sh = ent[j].sh /\ ent'[j].of = ent[j].of /\ ent'[j].on = ent[j].on)
    BY <1>2, <1>3, <1>5, <1>6, <1>7 DEF Known
  <2> QED BY <1>3, <1>8, <2>1, ScoresOnlyKeep
<1>10. IndexesAgree'
  <2> SUFFICES ASSUME NEW b \in Axes, NEW j \in AllIds
               PROVE  ix'[b][j] = IF ent'[j] # None THEN ent'[j].q[b] ELSE None
    BY DEF IndexesAgree, Known
  <2>1. ix[b][j] = IF ent[j] # None THEN ent[j].q[b] ELSE None
    BY DEF SInv, IndexesAgree, Known
  <2>2. ix'[b][j] = IF b = "health" /\ Derivable(j) THEN Derived(j, fresh) ELSE ix[b][j]
    BY <1>3, <1>4
  <2>3. CASE Derivable(j)
    <3>1. ent[j].q \in [Axes -> MaybeScore]
      BY <1>2, <1>4, <2>3 DEF Known, Records, Points
    <3>2. ent'[j] # None
      BY <1>3, <1>5, <2>3
    <3> QED BY <1>2, <1>6, <2>1, <2>2, <2>3, <3>1, <3>2 DEF Known
  <2>4. CASE ~Derivable(j)
    BY <1>7, <2>1, <2>2, <2>4
  <2> QED BY <2>3, <2>4
<1>11. StoreTypeOK'
  <2>1. gen' \in 0 .. GenModulus - 1
    BY <1>3, BumpType DEF SInv, StoreTypeOK
  <2>2. ent' \in [AllIds -> Records \cup {None}]
    BY <1>3, <1>4, <1>5
  <2>3. ix' \in [Axes -> [AllIds -> MaybeScore]]
    BY <1>1, <1>3, <1>4
  <2>4. ring' \subseteq Ids \X Pids
    BY <1>8 DEF SInv, StoreTypeOK, Kinds
  <2> QED BY <1>3, <2>1, <2>2, <2>3, <2>4 DEF SInv, StoreTypeOK
<1> QED BY <1>9, <1>10, <1>11 DEF SInv

-----------------------------------------------------------------------------
(* The counters.                                                           *)

Entities == {i \in AllIds : Known(i)}

LEMMA FiniteIds == IsFiniteSet(AllIds) /\ IsFiniteSet(AllIds \X AllIds)
<1>1. IsFiniteSet(Ids \X Hosts)
  <2>1. IsFiniteSet(Hosts)
    BY FS_Subset
  <2> QED BY <2>1, FS_Product
<1>2. IsFiniteSet(AllIds)
  BY <1>1, FS_Union
<1> QED BY <1>2, FS_Product

LEMMA FiniteSets ==
    ASSUME SInv
    PROVE  IsFiniteSet(Entities) /\ IsFiniteSet(edges)
<1>1. Entities \in SUBSET AllIds /\ edges \in SUBSET (AllIds \X AllIds)
  BY DEF Entities, SInv, StoreTypeOK
<1> QED BY <1>1, FiniteIds, FS_Subset

LEMMA WriteCounts ==
    ASSUME SInv, CountsExact, NEW id \in AllIds, NEW rec \in Records, NEW P \in SUBSET Axes,
           Write(id, rec, P), UNCHANGED <<edges, xc>>
    PROVE  CountsExact'
<1>1. Entities' = Entities \cup {id}
  BY WriteAgrees DEF Entities, Known
<1>2. ec' = IF id \in Entities THEN ec ELSE ec + 1
  BY DEF Write, Entities
<1>3. Cardinality(Entities') = IF id \in Entities THEN Cardinality(Entities) ELSE Cardinality(Entities) + 1
  BY <1>1, FiniteSets, FS_AddElement
<1> QED BY <1>2, <1>3 DEF CountsExact, Entities

LEMMA DeregisterCounts ==
    ASSUME SInv, CountsExact, NEW id \in AllIds, Deregister(id)
    PROVE  CountsExact'
<1>1. PICK gone \in SUBSET AllIds : gone = Leaving(id) /\ \A i \in gone : Known(i)
  BY LeavingType DEF Deregister
<1>2. PICK cut : cut = Incident(gone)
  OBVIOUS
<1>3. /\ ent' = [i \in AllIds |-> IF i \in gone THEN None ELSE ent[i]]
      /\ edges' = edges \ cut
      /\ ec' = ec - Cardinality(gone) /\ xc' = xc - Cardinality(cut)
  BY <1>1, <1>2 DEF Deregister
<1>4. Cardinality(Entities') = Cardinality(Entities) - Cardinality(gone)
  <2>1. Entities' = Entities \ gone
    BY <1>3 DEF Entities, Known
  <2>2. Entities \cap gone = gone
    BY <1>1 DEF Entities
  <2> QED BY <2>1, <2>2, FiniteSets, FS_Difference
<1>5. Cardinality(edges') = Cardinality(edges) - Cardinality(cut)
  <2>1. edges \cap cut = cut
    BY <1>2 DEF Incident, SInv, EdgesWhole
  <2> QED BY <1>3, <2>1, FiniteSets, FS_Difference
<1> QED BY <1>3, <1>4, <1>5 DEF CountsExact, Entities

LEMMA EdgeCounts ==
    ASSUME SInv, CountsExact, NEW f \in AllIds, NEW t \in AllIds, AddEdge(f, t) \/ RemoveEdge(f, t)
    PROVE  CountsExact'
<1>1. Cardinality(edges) \in Nat
  BY FiniteSets, FS_CardinalityType
<1>2. CASE AddEdge(f, t)
  <2>1. Cardinality(edges \cup {<<f, t>>}) = IF <<f, t>> \in edges THEN Cardinality(edges) ELSE Cardinality(edges) + 1
    BY FiniteSets, FS_AddElement
  <2> QED BY <1>1, <1>2, <2>1 DEF AddEdge, CountsExact, Known
<1>3. CASE RemoveEdge(f, t)
  <2>1. <<f, t>> \in edges => Cardinality(edges \ {<<f, t>>}) = Cardinality(edges) - 1
    BY FiniteSets, FS_RemoveElement
  <2> QED BY <1>1, <1>3, <2>1 DEF RemoveEdge, CountsExact, Known
<1> QED BY <1>2, <1>3

LEMMA ScoresCount ==
    ASSUME CountsExact, \A i \in AllIds : Known(i)' <=> Known(i), UNCHANGED <<ec, edges, xc>>
    PROVE  CountsExact'
BY DEF CountsExact

-----------------------------------------------------------------------------
(* The invariant.                                                          *)

LEMMA StoreInitInv == StoreInit => SInv /\ CountsExact
<1> SUFFICES ASSUME StoreInit PROVE SInv /\ CountsExact
  OBVIOUS
<1>1. \A i \in AllIds : ~Known(i)
  BY DEF StoreInit, Known
<1>2. StoreTypeOK
  BY DEF StoreInit, StoreTypeOK
<1>3. Kinds /\ RingPlaced /\ EdgesWhole
  BY <1>1 DEF StoreInit, Kinds, RingPlaced, EdgesWhole
<1>4. IndexesAgree
  BY <1>1 DEF StoreInit, IndexesAgree
<1>5. PlacementsAnchored
  BY <1>1 DEF StoreInit, PlacementsAnchored
<1>6. CountsExact
  <2>1. {i \in AllIds : Known(i)} = {}
    BY <1>1
  <2> QED BY <2>1, FS_EmptySet DEF StoreInit, CountsExact
<1> QED BY <1>2, <1>3, <1>4, <1>5, <1>6 DEF SInv

LEMMA StoreStepInv == SInv /\ CountsExact /\ [StoreNext]_store => SInv' /\ CountsExact'
<1> SUFFICES ASSUME SInv, CountsExact, [StoreNext]_store PROVE SInv' /\ CountsExact'
  OBVIOUS
<1>1. ASSUME NEW i \in Ids, NEW d \in Declaration, RegisterCall(i, d)
      PROVE  SInv' /\ CountsExact'
  <2>1. PICK f \in Weights \cup {None} : f = IF d.sh = "1" THEN None ELSE d.f
    BY DEF Declaration
  <2>2. [sh |-> d.sh, of |-> None, on |-> None, hb |-> d.hb, w |-> d.w, q |-> Point(d.sh, f)] \in Records
    BY PointType DEF Declaration, Records
  <2>3. Preserved(d.sh) \in SUBSET Axes
    BY DEF Preserved
  <2>4. CountsExact'
    BY <1>1, <2>1, <2>2, <2>3, WriteCounts DEF RegisterCall, links
  <2> QED BY <1>1, <2>4, RegisterKeeps
<1>2. ASSUME NEW of \in Ids, NEW on \in Hosts, NEW sh \in PlacedAs, NEW hb \in Names, NEW w \in Weights,
             PlaceCall(of, on, sh, hb, w)
      PROVE  SInv' /\ CountsExact'
  <2>1. [sh |-> sh, of |-> of, on |-> on, hb |-> hb, w |-> w, q |-> Point(sh, None)] \in Records
    BY PointType DEF Records
  <2>2. CountsExact'
    BY <1>2, <2>1, WriteCounts DEF PlaceCall, links
  <2> QED BY <1>2, <2>2, PlaceKeeps
<1>3. ASSUME NEW i \in AllIds, Deregister(i)
      PROVE  SInv' /\ CountsExact'
  BY <1>3, DeregisterKeeps, DeregisterCounts
<1>4. ASSUME NEW f \in AllIds, NEW t \in AllIds, AddEdge(f, t) \/ RemoveEdge(f, t)
      PROVE  SInv' /\ CountsExact'
  BY <1>4, AddEdgeKeeps, RemoveEdgeKeeps, EdgeCounts
<1>5. ASSUME NEW i \in AllIds, NEW a \in {"load", "health", "lifecycle"}, NEW v \in Scores, SetDerived(i, a, v)
      PROVE  SInv' /\ CountsExact'
  <2>1. \A j \in AllIds : Known(j)' <=> Known(j)
    BY <1>5, ScoredType DEF SetDerived, Known, SInv, StoreTypeOK
  <2> QED BY <1>5, <2>1, SetDerivedKeeps, ScoresCount DEF SetDerived, links
<1>6. ASSUME NEW fresh \in SUBSET (Names \X Hosts), HealthDerive(fresh)
      PROVE  SInv' /\ CountsExact'
  <2>1. \A i \in AllIds : Derived(i, fresh) \in {Dead, Healthy}
    BY DEF Derived, Measured
  <2>2. \A i \in AllIds : Derivable(i) => Known(i) /\ Scored(i, "health", Derived(i, fresh)) \in Records
    BY <2>1, ScoredType DEF Derivable, SInv
  <2>3. \A j \in AllIds : Known(j)' <=> Known(j)
    BY <1>6, <2>2 DEF HealthDerive, Known
  <2> QED BY <1>6, <2>3, HealthDeriveKeeps, ScoresCount DEF HealthDerive, links
<1>7. CASE UNCHANGED store
  <2>1. SInv'
    BY <1>7 DEF store, SInv, StoreTypeOK, Kinds, IndexesAgree, PlacementsAnchored, RingPlaced, EdgesWhole, Known
  <2>2. CountsExact'
    BY <1>7 DEF store, CountsExact, Known
  <2> QED BY <2>1, <2>2
<1> QED BY <1>1, <1>2, <1>3, <1>4, <1>5, <1>6, <1>7 DEF StoreNext

(* After any sequence of calls of the library the inductive invariant and the counters hold. *)
THEOREM StoreInvariant == StoreSpec => [](SInv /\ CountsExact)
BY StoreInitInv, StoreStepInv, PTL DEF StoreSpec

(* The library answers from indexes that hold exactly the scores of its records, whatever is called. *)
THEOREM IndexesAgreeHolds == StoreSpec => []IndexesAgree
<1>1. SInv => IndexesAgree
  BY DEF SInv
<1> QED BY <1>1, StoreInvariant, PTL

(* Every placement stands between a registered entity and a registered node, and the sets and *)
(* weights that are kept beside the records name exactly the placements.                      *)
THEOREM PlacementsAnchoredHolds == StoreSpec => []PlacementsAnchored
<1>1. SInv => PlacementsAnchored
  BY DEF SInv
<1> QED BY <1>1, StoreInvariant, PTL

(* ROUTE picks from a ring that names only registered placements of the service it is asked for. *)
THEOREM RingPlacedHolds == StoreSpec => []RingPlaced
<1>1. SInv => RingPlaced
  BY DEF SInv
<1> QED BY <1>1, StoreInvariant, PTL

(* No edge dangles, and the two adjacency sets mirror the edges. *)
THEOREM EdgesWholeHolds == StoreSpec => []EdgesWhole
<1>1. SInv => EdgesWhole
  BY DEF SInv
<1> QED BY <1>1, StoreInvariant, PTL

(* The counters that are moved by increments equal the numbers of entities and edges. *)
THEOREM CountsExactHolds == StoreSpec => []CountsExact
BY StoreInvariant, PTL

-----------------------------------------------------------------------------
(* The rings.  They are exact as long as no name changes between a service *)
(* and something else: ring_sync leaves the ring of the old shape alone.   *)

Stable(S) == \A i \in Ids : Known(i) => (ent[i].sh \in Services <=> i \in S)

(* The kind of a placement follows the kind of its entity. *)
PlacedKinds(S) == \A p \in Pids : Known(p) => (ent[p].sh = "4.2" <=> p[1] \in S)

(* The placements that a ring should hold. *)
Routable(p) == Known(p) /\ ent[p].sh = "4.2" /\ OnRing(ent[p].q)

(* RingExact, entry by entry. *)
RingPerEntry == \A i \in Ids, p \in Pids : <<i, p>> \in ring <=> i = p[1] /\ Routable(p)

LEMMA RingPointwise ==
    ASSUME SInv
    PROVE  RingExact <=> RingPerEntry
<1>1. ring \subseteq Ids \X Pids /\ \A p \in Pids : Known(p) => ent[p].of = p[1]
  BY DEF SInv, StoreTypeOK, Kinds
<1>2. {<<ent[p].of, p>> : p \in {p \in Pids : Known(p) /\ ent[p].sh = "4.2" /\ OnRing(ent[p].q)}}
        = {<<p[1], p>> : p \in {p \in Pids : Routable(p)}}
  BY <1>1 DEF Routable
<1>3. RingExact <=> ring = {<<p[1], p>> : p \in {p \in Pids : Routable(p)}}
  BY <1>2 DEF RingExact
<1>4. ASSUME ring = {<<p[1], p>> : p \in {p \in Pids : Routable(p)}} PROVE RingPerEntry
  BY <1>4 DEF RingPerEntry
<1>5. ASSUME RingPerEntry PROVE ring = {<<p[1], p>> : p \in {p \in Pids : Routable(p)}}
  <2>1. ASSUME NEW x \in ring PROVE x \in {<<p[1], p>> : p \in {p \in Pids : Routable(p)}}
    <3>1. PICK i \in Ids, p \in Pids : x = <<i, p>>
      BY <1>1, <2>1
    <3>2. i = p[1] /\ Routable(p)
      BY <1>5, <2>1, <3>1 DEF RingPerEntry
    <3> QED BY <3>1, <3>2
  <2>2. ASSUME NEW p \in Pids, Routable(p) PROVE <<p[1], p>> \in ring
    BY <1>5, <2>2 DEF RingPerEntry
  <2> QED BY <2>1, <2>2
<1> QED BY <1>3, <1>4, <1>5

LEMMA PlacedKindsStep ==
    ASSUME NEW S, SInv, Stable(S), PlacedKinds(S), StoreNext
    PROVE  PlacedKinds(S)'
<1>1. ASSUME NEW i \in Ids, NEW d \in Declaration, RegisterCall(i, d)
      PROVE  PlacedKinds(S)'
  <2>1. \A p \in Pids : ent'[p] = ent[p]
    BY <1>1 DEF RegisterCall, Write, SInv, StoreTypeOK
  <2> QED BY <2>1 DEF PlacedKinds, Known
<1>2. ASSUME NEW of \in Ids, NEW on \in Hosts, NEW sh \in PlacedAs, NEW hb \in Names, NEW w \in Weights,
             PlaceCall(of, on, sh, hb, w)
      PROVE  PlacedKinds(S)'
  <2>1. PICK id \in Pids : id = <<of, on>>
    OBVIOUS
  <2>2. PICK q : ent' = [ent EXCEPT ![id] = [sh |-> sh, of |-> of, on |-> on, hb |-> hb, w |-> w, q |-> q]]
    BY <1>2, <2>1 DEF PlaceCall, Write, WithScores
  <2>3. sh = "4.2" <=> of \in S
    BY <1>2 DEF PlaceCall, Placeable, Stable
  <2>4. ent \in [AllIds -> Records \cup {None}]
    BY DEF SInv, StoreTypeOK
  <2>5. ent'[id].sh = sh /\ \A p \in Pids \ {id} : ent'[p] = ent[p]
    BY <2>2, <2>4
  <2> QED BY <2>1, <2>3, <2>5 DEF PlacedKinds, Known
<1>3. ASSUME NEW i \in AllIds, Deregister(i)
      PROVE  PlacedKinds(S)'
  <2>1. \A p \in Pids : ent'[p] \in {None, ent[p]}
    BY <1>3 DEF Deregister
  <2> QED BY <2>1 DEF PlacedKinds, Known
<1>4. ASSUME NEW f \in AllIds, NEW t \in AllIds, AddEdge(f, t) \/ RemoveEdge(f, t)
      PROVE  PlacedKinds(S)'
  BY <1>4 DEF AddEdge, RemoveEdge, PlacedKinds, Known
<1>5. ASSUME NEW i \in AllIds, NEW a \in {"load", "health", "lifecycle"}, NEW v \in Scores, SetDerived(i, a, v)
      PROVE  PlacedKinds(S)'
  <2>1. \A p \in Pids : ent'[p] = ent[p] \/ (Known(p) /\ ent'[p].sh = ent[p].sh)
    BY <1>5 DEF SetDerived, Scored, WithScores, SInv, StoreTypeOK
  <2> QED BY <2>1 DEF PlacedKinds, Known
<1>6. ASSUME NEW fresh \in SUBSET (Names \X Hosts), HealthDerive(fresh)
      PROVE  PlacedKinds(S)'
  <2>1. \A p \in Pids : ent'[p] = ent[p] \/ (Known(p) /\ ent'[p].sh = ent[p].sh)
    BY <1>6 DEF HealthDerive, Derivable, Scored, WithScores
  <2> QED BY <2>1 DEF PlacedKinds, Known
<1> QED BY <1>1, <1>2, <1>3, <1>4, <1>5, <1>6 DEF StoreNext

LEMMA RingStep ==
    ASSUME NEW S, SInv, Stable(S), PlacedKinds(S), RingPerEntry, StoreNext
    PROVE  RingPerEntry'
<1>1. ASSUME NEW i \in Ids, NEW d \in Declaration, RegisterCall(i, d)
      PROVE  RingPerEntry'
  <2>1. \A p \in Pids : ent'[p] = ent[p]
    BY <1>1 DEF RegisterCall, Write, SInv, StoreTypeOK
  <2> QED BY <1>1, <2>1 DEF RegisterCall, RingPerEntry, Routable, Known
<1>2. ASSUME NEW of \in Ids, NEW on \in Hosts, NEW sh \in PlacedAs, NEW hb \in Names, NEW w \in Weights,
             PlaceCall(of, on, sh, hb, w)
      PROVE  RingPerEntry'
  <2>1. PICK id \in Pids : id = <<of, on>>
    OBVIOUS
  <2>2. PICK q \in Points : q = Point(sh, None)
    BY PointType
  <2>3. OnRing(q)
    BY <2>2 DEF OnRing, Point
  <2>4. Merged(id, q, {}) = q
    BY DEF Merged, Points
  <2>5. ent' = [ent EXCEPT ![id] = [sh |-> sh, of |-> of, on |-> on, hb |-> hb, w |-> w, q |-> q]]
    BY <1>2, <2>1, <2>2, <2>4 DEF PlaceCall, Write, WithScores
  <2>6. ent \in [AllIds -> Records \cup {None}]
    BY DEF SInv, StoreTypeOK
  <2>7. /\ ent'[id].sh = sh /\ ent'[id].q = q
        /\ \A p \in Pids \ {id} : ent'[p] = ent[p]
    BY <2>5, <2>6
  <2>8. Known(id)'
    BY <2>5, <2>6, <2>2 DEF Known, Records
  <2>9. ring' = IF sh = "4.2" THEN ring \cup {<<of, id>>} ELSE ring
    BY <1>2, <2>1, <2>2, <2>3 DEF PlaceCall, Synced
  <2>10. sh # "4.2" => ~Routable(id)
    BY <1>2, <2>1 DEF PlaceCall, Placeable, Stable, PlacedKinds, Routable
  <2> SUFFICES ASSUME NEW i \in Ids, NEW p \in Pids
               PROVE  <<i, p>> \in ring' <=> i = p[1] /\ Routable(p)'
    BY DEF RingPerEntry
  <2>11. <<i, p>> \in ring <=> i = p[1] /\ Routable(p)
    BY DEF RingPerEntry
  <2>12. CASE p = id
    <3>1. Routable(p)' <=> sh = "4.2"
      BY <2>3, <2>7, <2>8, <2>12 DEF Routable
    <3> QED BY <2>1, <2>9, <2>10, <2>11, <2>12, <3>1
  <2>13. CASE p # id
    <3>1. Routable(p)' <=> Routable(p)
      BY <2>7, <2>13 DEF Routable, Known
    <3> QED BY <2>9, <2>11, <2>13, <3>1
  <2> QED BY <2>12, <2>13
<1>3. ASSUME NEW id \in AllIds, Deregister(id)
      PROVE  RingPerEntry'
  <2>1. PICK gone \in SUBSET AllIds :
           /\ gone = Leaving(id) /\ id \in gone
           /\ \A p \in Pids : p[1] = id \/ p[2] = id => (p \in gone <=> p \in placements)
    BY <1>3, LeavingType DEF Deregister
  <2>2. \A i \in AllIds : ent'[i] = IF i \in gone THEN None ELSE ent[i]
    BY <1>3, <2>1 DEF Deregister
  <2>3. ring' = {r \in ring : ~(r[1] = id \/ (r[2] \in gone /\ r[1] = ent[r[2]].of))}
    BY <1>3, <2>1 DEF Deregister, RingLeft
  <2>4. \A p \in Pids : Known(p) => ent[p].of = p[1] /\ p \in placements
    BY DEF SInv, Kinds, PlacementsAnchored
  <2> SUFFICES ASSUME NEW i \in Ids, NEW p \in Pids
               PROVE  <<i, p>> \in ring' <=> i = p[1] /\ Routable(p)'
    BY DEF RingPerEntry
  <2>5. <<i, p>> \in ring <=> i = p[1] /\ Routable(p)
    BY DEF RingPerEntry
  <2>6. <<i, p>> \in ring' <=> <<i, p>> \in ring /\ ~(i = id \/ (p \in gone /\ i = ent[p].of))
    BY <2>3
  <2>7. Routable(p)' <=> p \notin gone /\ Routable(p)
    BY <2>2 DEF Routable, Known
  <2> QED BY <2>1, <2>4, <2>5, <2>6, <2>7 DEF Routable
<1>4. ASSUME NEW f \in AllIds, NEW t \in AllIds, AddEdge(f, t) \/ RemoveEdge(f, t)
      PROVE  RingPerEntry'
  BY <1>4 DEF AddEdge, RemoveEdge, RingPerEntry, Routable, Known
<1>5. ASSUME NEW id \in AllIds, NEW a \in {"load", "health", "lifecycle"}, NEW v \in Scores, SetDerived(id, a, v)
      PROVE  RingPerEntry'
  <2>1. PICK rec \in Records : rec = Scored(id, a, v)
    BY <1>5, ScoredType DEF SetDerived, SInv
  <2>2. ent' = [ent EXCEPT ![id] = rec] /\ ring' = Synced(id, ent[id], rec.q) /\ Known(id)
    BY <1>5, <2>1 DEF SetDerived
  <2>3. rec.sh = ent[id].sh /\ rec.of = ent[id].of
    BY <2>1 DEF Scored, WithScores
  <2>4. ent \in [AllIds -> Records \cup {None}]
    BY DEF SInv, StoreTypeOK
  <2>5. \A p \in AllIds : ent'[p] = IF p = id THEN rec ELSE ent[p]
    BY <2>2, <2>4
  <2>6. \A p \in Pids : Known(p) => ent[p].of = p[1]
    BY DEF SInv, Kinds
  <2>7. ent[id].sh = "4.2" => id \in Pids
    BY <2>2 DEF SInv, Kinds
  <2> SUFFICES ASSUME NEW i \in Ids, NEW p \in Pids
               PROVE  <<i, p>> \in ring' <=> i = p[1] /\ Routable(p)'
    BY DEF RingPerEntry
  <2>8. <<i, p>> \in ring <=> i = p[1] /\ Routable(p)
    BY DEF RingPerEntry
  <2>9. CASE p # id
    BY <2>2, <2>5, <2>8, <2>9 DEF Synced, Routable, Known
  <2>10. CASE p = id
    BY <2>2, <2>3, <2>5, <2>6, <2>8, <2>10 DEF Synced, Routable, Known
  <2> QED BY <2>9, <2>10
<1>6. ASSUME NEW fresh \in SUBSET (Names \X Hosts), HealthDerive(fresh)
      PROVE  RingPerEntry'
  <2>1. \A i \in AllIds : Derived(i, fresh) \in {Dead, Healthy}
    BY DEF Derived, Measured
  <2>2. \A i \in AllIds : Derivable(i) => Known(i) /\ Scored(i, "health", Derived(i, fresh)) \in Records
    BY <2>1, ScoredType DEF Derivable, SInv
  <2>3. \A i \in AllIds : ent'[i] = IF Derivable(i) THEN Scored(i, "health", Derived(i, fresh)) ELSE ent[i]
    BY <1>6 DEF HealthDerive
  <2>4. placements = {p \in Pids : Known(p)} /\ \A p \in Pids : Known(p) => ent[p].of = p[1]
    BY DEF SInv, Kinds, PlacementsAnchored
  <2>5. ring' = (ring \ RingOf(fresh, FALSE)) \cup RingOf(fresh, TRUE)
    BY <1>6 DEF HealthDerive, DerivedRing
  <2> SUFFICES ASSUME NEW i \in Ids, NEW p \in Pids
               PROVE  <<i, p>> \in ring' <=> i = p[1] /\ Routable(p)'
    BY DEF RingPerEntry
  <2>6. <<i, p>> \in ring <=> i = p[1] /\ Routable(p)
    BY DEF RingPerEntry
  <2>7. ASSUME NEW on \in BOOLEAN
        PROVE  <<i, p>> \in RingOf(fresh, on) <=>
                 Known(p) /\ i = p[1] /\ ent[p].sh = "4.2" /\ OnRing(Scored(p, "health", Measured(p, fresh)).q) = on
    BY <2>4 DEF RingOf
  <2>8. OnRing(Scored(p, "health", Measured(p, fresh)).q) \in BOOLEAN
    BY DEF OnRing
  <2>9. CASE Known(p)
    <3>1. Derivable(p) /\ Derived(p, fresh) = Measured(p, fresh)
      BY <2>4, <2>9 DEF Derivable, Derived
    <3>2. ent'[p] = Scored(p, "health", Measured(p, fresh)) /\ Known(p)' /\ ent'[p].sh = ent[p].sh
      BY <2>2, <2>3, <3>1 DEF Known, Scored, WithScores
    <3> QED BY <2>5, <2>6, <2>7, <2>8, <2>9, <3>2 DEF Routable
  <2>10. CASE ~Known(p)
    BY <2>2, <2>3, <2>5, <2>6, <2>7, <2>10 DEF Routable, Known
  <2> QED BY <2>9, <2>10
<1> QED BY <1>1, <1>2, <1>3, <1>4, <1>5, <1>6 DEF StoreNext

(* ROUTE picks from a ring of exactly the active, not dead placements of the service, as long as *)
(* no name changes between a service and something else.                                         *)
THEOREM RingExactHolds ==
    ASSUME NEW CONSTANT S
    PROVE  StoreSpec /\ []Stable(S) => []RingExact
<1>1. StoreInit => PlacedKinds(S) /\ RingPerEntry
  BY DEF StoreInit, PlacedKinds, RingPerEntry, Routable, Known
<1>2. SInv /\ Stable(S) /\ PlacedKinds(S) /\ RingPerEntry /\ [StoreNext]_store => PlacedKinds(S)' /\ RingPerEntry'
  <2>1. CASE UNCHANGED store
    BY <2>1 DEF store, PlacedKinds, RingPerEntry, Routable, Known
  <2> QED BY <2>1, PlacedKindsStep, RingStep
<1>3. SInv /\ RingPerEntry => RingExact
  BY RingPointwise
<1> QED BY <1>1, <1>2, <1>3, StoreInvariant, PTL DEF StoreSpec

-----------------------------------------------------------------------------
(* The generation.                                                         *)

LEMMA BumpMoves ==
    ASSUME gen \in 0 .. GenModulus - 1, Bump
    PROVE  gen' # gen
<1>1. CASE gen + 1 < GenModulus
  <2>1. (gen + 1) % GenModulus = gen + 1
    BY <1>1
  <2> QED BY <2>1 DEF Bump
<1>2. CASE gen + 1 = GenModulus
  <2>1. (gen + 1) % GenModulus = 0
    BY <1>2
  <2> QED BY <1>2, <2>1 DEF Bump
<1> QED BY <1>1, <1>2

(* A score that is written again leaves the record as it was. *)
LEMMA SameScore ==
    ASSUME StoreTypeOK, NEW i \in AllIds, Known(i), NEW a \in Axes
    PROVE  Scored(i, a, ent[i].q[a]) = ent[i]
<1>1. PICK rec \in Records : rec = ent[i]
  BY DEF StoreTypeOK, Known
<1>2. [rec.q EXCEPT ![a] = rec.q[a]] = rec.q
  BY DEF Records, Points
<1>3. [sh |-> rec.sh, of |-> rec.of, on |-> rec.on, hb |-> rec.hb, w |-> rec.w, q |-> rec.q] = rec
  BY DEF Records
<1> QED BY <1>1, <1>2, <1>3 DEF Scored, WithScores

LEMMA SetDerivedMoves ==
    ASSUME SInv, RingPerEntry, NEW i \in AllIds, NEW a \in {"load", "health", "lifecycle"}, NEW v \in Scores, SetDerived(i, a, v)
    PROVE  Bump \/ UNCHANGED <<ent, ring, edges, wt>>
<1>1. CASE ent[i].q[a] # v
  BY <1>1 DEF SetDerived
<1>2. CASE ent[i].q[a] = v
  <2>1. Known(i) /\ Scored(i, a, v) = ent[i]
    BY <1>2, SameScore DEF SetDerived, SInv
  <2>2. ent' = ent
    BY <2>1 DEF SetDerived, SInv, StoreTypeOK
  <2>3. ring' = Synced(i, ent[i], ent[i].q)
    BY <2>1 DEF SetDerived
  <2>4. CASE ent[i].sh = "4.2"
    <3>1. i \in Pids /\ ent[i].of = i[1] /\ i[1] \in Ids
      BY <2>1, <2>4 DEF SInv, Kinds
    <3>2. <<i[1], i>> \in ring <=> OnRing(ent[i].q)
      BY <2>1, <2>4, <3>1 DEF RingPerEntry, Routable
    <3>3. ring' = ring
      BY <2>3, <2>4, <3>1, <3>2 DEF Synced
    <3> QED BY <2>2, <3>3 DEF SetDerived, links
  <2>5. CASE ent[i].sh # "4.2"
    BY <2>2, <2>3, <2>5 DEF Synced, SetDerived, links
  <2> QED BY <2>4, <2>5
<1> QED BY <1>1, <1>2

LEMMA HealthDeriveMoves ==
    ASSUME SInv, RingPerEntry, NEW fresh \in SUBSET (Names \X Hosts), HealthDerive(fresh)
    PROVE  Bump \/ UNCHANGED <<ent, ring, edges, wt>>
<1>1. CASE Moved(fresh)
  BY <1>1 DEF HealthDerive
<1>2. CASE ~Moved(fresh)
  <2>1. \A i \in AllIds : Derivable(i) => Known(i) /\ ent[i].q["health"] = Derived(i, fresh)
    BY <1>2 DEF Moved, Derivable
  <2>2. \A i \in AllIds : Derivable(i) => Scored(i, "health", Derived(i, fresh)) = ent[i]
    BY <2>1, SameScore DEF SInv
  <2>3. ent' = ent
    BY <2>2 DEF HealthDerive, SInv, StoreTypeOK
  <2>4. placements = {p \in Pids : Known(p)} /\ \A p \in Pids : Known(p) => ent[p].of = p[1]
    BY DEF SInv, Kinds, PlacementsAnchored
  <2>5. \A p \in placements : Scored(p, "health", Measured(p, fresh)) = ent[p]
    <3> SUFFICES ASSUME NEW p \in placements PROVE Scored(p, "health", Measured(p, fresh)) = ent[p]
      OBVIOUS
    <3>1. p \in AllIds /\ Derivable(p) /\ Derived(p, fresh) = Measured(p, fresh)
      BY <2>4 DEF Derivable, Derived
    <3> QED BY <2>2, <3>1
  <2>6. ASSUME NEW on \in BOOLEAN, NEW r \in RingOf(fresh, on)
        PROVE  \E p \in Pids : r = <<p[1], p>> /\ Known(p) /\ ent[p].sh = "4.2" /\ OnRing(ent[p].q) = on
    <3>1. PICK p \in placements :
            Known(p) /\ ent[p].sh = "4.2" /\ OnRing(Scored(p, "health", Measured(p, fresh)).q) = on /\ r = <<ent[p].of, p>>
      BY <2>6 DEF RingOf
    <3>2. p \in Pids /\ ent[p].of = p[1] /\ OnRing(ent[p].q) = on
      BY <2>4, <2>5, <3>1
    <3> QED BY <3>1, <3>2
  <2>7. ASSUME NEW r \in RingOf(fresh, FALSE) PROVE r \notin ring
    <3>1. PICK p \in Pids : r = <<p[1], p>> /\ Known(p) /\ ent[p].sh = "4.2" /\ OnRing(ent[p].q) = FALSE
      BY <2>6, <2>7
    <3>2. p[1] \in Ids
      OBVIOUS
    <3>3. <<p[1], p>> \in ring <=> Routable(p)
      BY <3>2 DEF RingPerEntry
    <3> QED BY <3>1, <3>3 DEF Routable
  <2>8. ASSUME NEW r \in RingOf(fresh, TRUE) PROVE r \in ring
    <3>1. PICK p \in Pids : r = <<p[1], p>> /\ Known(p) /\ ent[p].sh = "4.2" /\ OnRing(ent[p].q) = TRUE
      BY <2>6, <2>8
    <3>2. p[1] \in Ids
      OBVIOUS
    <3>3. <<p[1], p>> \in ring <=> Routable(p)
      BY <3>2 DEF RingPerEntry
    <3> QED BY <3>1, <3>3 DEF Routable
  <2>9. ring' = ring
    BY <2>7, <2>8 DEF HealthDerive, DerivedRing
  <2> QED BY <2>3, <2>9 DEF HealthDerive, links
<1> QED BY <1>1, <1>2

LEMMA GenerationStep ==
    ASSUME SInv, RingPerEntry, [StoreNext]_store
    PROVE  gen' # gen \/ UNCHANGED <<ent, ring, edges, wt>>
<1>1. gen \in 0 .. GenModulus - 1
  BY DEF SInv, StoreTypeOK
<1>2. ASSUME NEW i \in Ids, NEW d \in Declaration, RegisterCall(i, d) PROVE Bump
  BY <1>2 DEF RegisterCall
<1>3. ASSUME NEW of \in Ids, NEW on \in Hosts, NEW sh \in PlacedAs, NEW hb \in Names, NEW w \in Weights,
             PlaceCall(of, on, sh, hb, w)
      PROVE  Bump
  BY <1>3 DEF PlaceCall
<1>4. ASSUME NEW i \in AllIds, Deregister(i) PROVE Bump
  BY <1>4 DEF Deregister
<1>5. ASSUME NEW f \in AllIds, NEW t \in AllIds, AddEdge(f, t) \/ RemoveEdge(f, t) PROVE Bump
  BY <1>5 DEF AddEdge, RemoveEdge
<1>6. StoreNext => Bump \/ UNCHANGED <<ent, ring, edges, wt>>
  BY <1>2, <1>3, <1>4, <1>5, SetDerivedMoves, HealthDeriveMoves DEF StoreNext
<1> QED BY <1>1, <1>6, BumpMoves DEF store

(* A reader that compares generations misses no change of a record, a ring, an edge or a weight. *)
THEOREM GenerationMovesStore ==
    ASSUME NEW CONSTANT S
    PROVE  StoreSpec /\ []Stable(S) => [][ent' # ent \/ ring' # ring \/ edges' # edges \/ wt' # wt => gen' # gen]_store
<1>1. SInv /\ RingExact /\ [StoreNext]_store => [ent' # ent \/ ring' # ring \/ edges' # edges \/ wt' # wt => gen' # gen]_store
  BY GenerationStep, RingPointwise
<1> QED BY <1>1, StoreInvariant, RingExactHolds, PTL DEF StoreSpec

=============================================================================
