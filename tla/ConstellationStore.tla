------------------------- MODULE ConstellationStore -------------------------
(***************************************************************************)
(* The one topology of a constellation, as the ValKey function library     *)
(* keeps it: the records of the registered entities and placements, and    *)
(* beside them everything that is derived from the records and kept by     *)
(* hand, key by key -- the axis indexes, the counters, the adjacency sets, *)
(* the placement sets, the routing rings and the generation.               *)
(*                                                                         *)
(*   daemon/functions/gnode_topo.lua   the GNODE_TOPO_* functions          *)
(*   daemon/src/constellation.rs       what their arguments can be         *)
(*                                                                         *)
(* A function runs to its end before the next one starts, so each is one   *)
(* action.  Of the 24 slots of a point five axes are kept, which differ in *)
(* who writes them and in what a second registration does to them.  A      *)
(* score is counted in quarters of the unit interval.  The schemas are     *)
(* published and the arguments well formed.                                *)
(***************************************************************************)
EXTENDS Integers, FiniteSets

CONSTANTS
    Ids,         \* names under which nodes, components and services register
    Hosts,       \* the names that nodes use
    Names,       \* heartbeat names
    DaemonName,  \* the heartbeat name of the daemon itself
    MaxWeight,   \* bound: capacity weights and fundamentality scores
    None,        \* a field, a score or a record that is not there
    GenModulus   \* the generation is counted modulo this

Services  == {"3.1", "3.2", "3.3"}
PlacedAs  == {"4.1", "4.2"}
Shapes    == {"1", "2"} \cup Services
Loaded    == {"1", "4.2"} \cup Services    \* shapes that name the load slot
Level     == [sh \in Shapes \cup PlacedAs |->
                IF sh = "1" THEN 1 ELSE IF sh = "2" THEN 2 ELSE IF sh \in Services THEN 3 ELSE 4]
Axes      == {"layer", "fundamentality", "health", "lifecycle", "load"}
Unknown   == 0
Dead      == 1   \* 0.25
Active    == 1   \* 0.25
Healthy   == 4   \* 1.00

Pids   == Ids \X Hosts        \* Placement::id is of@on
AllIds == Ids \cup Pids
Weights == 0 .. MaxWeight
Scores  == 0 .. 4 \cup Weights
MaybeScore == Scores \cup {None}

\* What a registration declares: a shape, a fundamentality, metadata.
Declaration == [sh : Shapes, f : Weights, w : Weights, hb : Names]
Points  == {q \in [Axes -> MaybeScore] : \A a \in {"layer", "health", "lifecycle"} : q[a] # None}
Records == [sh : Shapes \cup PlacedAs, of : Ids \cup {None}, on : Hosts \cup {None},
            hb : Names, w : Weights, q : Points]

ASSUME NamesAssumption == Hosts \subseteq Ids /\ DaemonName \in Names /\ Ids \cap Pids = {}
ASSUME NoneAssumption  == None \notin AllIds /\ None \notin Names /\ None \notin Int /\ None \notin Records
ASSUME SizeAssumption  == MaxWeight \in Nat /\ GenModulus \in Nat \ {0, 1}
                          /\ IsFiniteSet(Ids)

VARIABLES
    ent,         \* :entities, id -> record
    ix,          \* :ix:<axis>, id -> score
    ec,          \* meta.ec, how many entities
    edges,       \* :edges, pairs from:to
    outs, ins,   \* :out:<from> and :in:<to>, both as pairs <<from, to>>
    xc,          \* meta.xc, how many edges
    plof, plon,  \* :plof:<of> and :plon:<on>, as pairs <<entity, placement>>
    placements,  \* :placements
    ring,        \* :pl:<of>, as pairs <<service, placement>>
    wt,          \* :w, placement -> weight
    gen          \* meta.gen

links == <<edges, outs, ins, xc>>
store == <<ent, ix, ec, edges, outs, ins, xc, plof, plon, placements, ring, wt, gen>>

Known(i) == ent[i] # None
Bump     == gen' = (gen + 1) % GenModulus

\* GNODE_ENSURE_CONSTELLATION on a key that is not there yet.
StoreInit ==
    /\ ent = [i \in AllIds |-> None]
    /\ ix = [a \in Axes |-> [i \in AllIds |-> None]]
    /\ ec = 0 /\ xc = 0 /\ gen = 0
    /\ edges = {} /\ outs = {} /\ ins = {}
    /\ plof = {} /\ plon = {} /\ placements = {} /\ ring = {}
    /\ wt = [i \in AllIds |-> None]

-----------------------------------------------------------------------------
(* The write path of entities and placements.                              *)

\* encode(): a new point is active, of unknown health and without a load.
Point(sh, f) ==
    [a \in Axes |-> IF a = "layer" THEN Level[sh] ELSE IF a = "fundamentality" THEN f
                    ELSE IF a = "lifecycle" THEN Active ELSE IF a = "health" THEN Unknown ELSE None]

Preserved(sh) == {"health"} \cup (IF sh \in Loaded THEN {"load"} ELSE {})

\* register(): the scores that `preserve` names survive from the old record.
Merged_Dropped(id, q, preserve) == q
Merged(id, q, preserve) ==
    [a \in Axes |-> IF a \in preserve /\ Known(id) /\ ent[id].q[a] # None THEN ent[id].q[a] ELSE q[a]]

\* A record with other scores.
WithScores(rec, q) == [sh |-> rec.sh, of |-> rec.of, on |-> rec.on, hb |-> rec.hb, w |-> rec.w, q |-> q]

\* ZADD of every axis of q, ZREM of an axis that only the old record had.
Indexed_KeepStale(id, q) ==
    [a \in Axes |-> IF q[a] = None THEN ix[a] ELSE [ix[a] EXCEPT ![id] = q[a]]]
Indexed(id, q) ==
    [a \in Axes |-> IF q[a] = None /\ (~Known(id) \/ ent[id].q[a] = None) THEN ix[a]
                    ELSE [ix[a] EXCEPT ![id] = q[a]]]

Write_CountsAgain(id, rec, preserve) ==
    LET q == Merged(id, rec.q, preserve) IN
    /\ ent' = [ent EXCEPT ![id] = WithScores(rec, q)]
    /\ ix' = Indexed(id, q)
    /\ ec' = ec + 1
Write(id, rec, preserve) ==
    LET q == Merged(id, rec.q, preserve) IN
    /\ ent' = [ent EXCEPT ![id] = WithScores(rec, q)]
    /\ ix' = Indexed(id, q)
    /\ ec' = IF Known(id) THEN ec ELSE ec + 1

OnRing(q) == q["health"] # Dead /\ q["lifecycle"] = Active

\* ring_sync: only a service's placement is on a ring.
Synced(id, rec, q) ==
    IF rec.sh # "4.2" THEN ring
    ELSE IF OnRing(q) THEN ring \cup {<<rec.of, id>>} ELSE ring \ {<<rec.of, id>>}

\* GNODE_TOPO_REGISTER
RegisterCall(id, d) ==
    /\ Write(id, [sh |-> d.sh, of |-> None, on |-> None, hb |-> d.hb, w |-> d.w,
                  q |-> Point(d.sh, IF d.sh = "1" THEN None ELSE d.f)], Preserved(d.sh))
    /\ Bump
    /\ UNCHANGED <<plof, plon, placements, ring, wt>> /\ UNCHANGED links

\* GNODE_TOPO_PLACE: the entity and the node are known and of the right shapes.
Placeable(of, on, sh) ==
    /\ Known(of) /\ Known(on) /\ ent[on].sh = "1"
    /\ sh = "4.2" => ent[of].sh \in Services
    /\ sh = "4.1" => ent[of].sh = "2"

PlaceCall(of, on, sh, hb, w) ==
    LET id  == <<of, on>>
        rec == [sh |-> sh, of |-> of, on |-> on, hb |-> hb, w |-> w, q |-> Point(sh, None)]
    IN  /\ Placeable(of, on, sh)
        /\ Write(id, rec, {})
        /\ plof' = plof \cup {<<of, id>>} /\ plon' = plon \cup {<<on, id>>}
        /\ placements' = placements \cup {id}
        /\ wt' = [wt EXCEPT ![id] = w]
        /\ ring' = Synced(id, rec, rec.q)
        /\ Bump /\ UNCHANGED links

\* The call answers an error and writes nothing.
PlaceRefused(of, on, sh) == ~Placeable(of, on, sh) /\ UNCHANGED store

-----------------------------------------------------------------------------
(* Removal.                                                                *)

\* The members of :plof:id and :plon:id, which deregister() removes first.
PlacementsOf_NotOn(id) == {p \in Pids : <<id, p>> \in plof}
PlacementsOf(id) == {p \in Pids : <<id, p>> \in plof \/ <<id, p>> \in plon}

Leaving(id) ==
    {id} \cup (IF ent[id].sh \in PlacedAs THEN {} ELSE {p \in PlacementsOf(id) : Known(p)})

\* remove_edges: both ends of every edge that :out and :in name.
Incident_OutOnly(gone) == {e \in outs : e[1] \in gone}
Incident(gone) == {e \in outs : e[1] \in gone} \cup {e \in ins : e[2] \in gone}

\* The ring entries that go: a placement's own, and the whole ring of an entity.
RingLeft_Kept(id, gone) == {}
RingLeft(id, gone) == {r \in ring : r[1] = id \/ (r[2] \in gone /\ r[1] = ent[r[2]].of)}

\* GNODE_TOPO_DEREGISTER
Deregister(id) ==
    LET gone == Leaving(id) IN
    /\ Known(id)
    /\ plof' = {x \in plof : x[1] # id /\ ~(x[2] \in gone /\ x[1] = ent[x[2]].of)}
    /\ plon' = {x \in plon : x[1] # id /\ ~(x[2] \in gone /\ x[1] = ent[x[2]].on)}
    /\ placements' = placements \ gone
    /\ ring' = ring \ RingLeft(id, gone)
    /\ ix' = [a \in Axes |-> [i \in AllIds |-> IF i \in gone /\ ent[i].q[a] # None THEN None ELSE ix[a][i]]]
    /\ wt' = [i \in AllIds |-> IF i \in gone THEN None ELSE wt[i]]
    /\ edges' = edges \ Incident(gone) /\ outs' = outs \ Incident(gone) /\ ins' = ins \ Incident(gone)
    /\ xc' = xc - Cardinality(Incident(gone))
    /\ ent' = [i \in AllIds |-> IF i \in gone THEN None ELSE ent[i]]
    /\ ec' = ec - Cardinality(gone)
    /\ Bump

-----------------------------------------------------------------------------
(* Dependency edges.                                                       *)

Fundamentality(i) == IF ix["fundamentality"][i] = None THEN 0 ELSE ix["fundamentality"][i]

\* phi(f) > phi(t), phi = (top-level layer digit, fundamentality), read from the indexes.
Above_OrEqual(f, t) ==
    \/ ix["layer"][f] > ix["layer"][t]
    \/ ix["layer"][f] = ix["layer"][t] /\ Fundamentality(f) >= Fundamentality(t)
Above(f, t) ==
    \/ ix["layer"][f] > ix["layer"][t]
    \/ ix["layer"][f] = ix["layer"][t] /\ Fundamentality(f) > Fundamentality(t)

\* GNODE_TOPO_ADD_EDGE
AddEdge(f, t) ==
    /\ f # t /\ Known(f) /\ Known(t)
    /\ ix["layer"][f] # None /\ ix["layer"][t] # None /\ Above(f, t)
    /\ edges' = edges \cup {<<f, t>>} /\ outs' = outs \cup {<<f, t>>} /\ ins' = ins \cup {<<f, t>>}
    /\ xc' = IF <<f, t>> \in edges THEN xc ELSE xc + 1
    /\ Bump /\ UNCHANGED <<ent, ix, ec, plof, plon, placements, ring, wt>>

\* GNODE_TOPO_REMOVE_EDGE
RemoveEdge(f, t) ==
    /\ <<f, t>> \in edges
    /\ edges' = edges \ {<<f, t>>} /\ outs' = outs \ {<<f, t>>} /\ ins' = ins \ {<<f, t>>}
    /\ xc' = xc - 1
    /\ Bump /\ UNCHANGED <<ent, ix, ec, plof, plon, placements, ring, wt>>

-----------------------------------------------------------------------------
(* Derived axes.  The lease that guards both functions is WriterLease's.   *)

\* The record of i with score v on axis a.
Scored(i, a, v) == WithScores(ent[i], [ent[i].q EXCEPT ![a] = v])

\* GNODE_TOPO_SET_DERIVED of one slot
SetDerived(id, a, v) ==
    /\ Known(id) /\ (a = "load" => ent[id].sh \in Loaded)
    /\ ent' = [ent EXCEPT ![id] = Scored(id, a, v)]
    /\ ix' = [ix EXCEPT ![a][id] = v]
    /\ ring' = Synced(id, ent[id], Scored(id, a, v).q)
    /\ IF ent[id].q[a] # v THEN Bump ELSE UNCHANGED gen
    /\ UNCHANGED <<ec, plof, plon, placements, wt>> /\ UNCHANGED links

\* The heartbeat key a placement's health is read from: a site reads its node's daemon.
HeartbeatOf(p) ==
    LET of == ent[p].of IN
    <<IF Known(of) /\ ent[of].sh = "3.1" THEN DaemonName ELSE ent[p].hb, ent[p].on>>

Measured(p, fresh) == IF HeartbeatOf(p) \in fresh THEN Healthy ELSE Dead

\* The placements of entity i, or on it.
Carrying(i) == {p \in placements : Known(p) /\ i \in {ent[p].of, ent[p].on}}

Derivable(i) == Known(i) /\ (i \in placements \/ Carrying(i) # {})

\* A placement's measure; of anything else the best of its placements.
Derived(i, fresh) ==
    IF i \in placements THEN Measured(i, fresh)
    ELSE IF \E p \in Carrying(i) : Measured(p, fresh) = Healthy THEN Healthy ELSE Dead

\* The ring entries of the placements with these scores.
RingOf(fresh, on) ==
    {<<ent[p].of, p>> : p \in {p \in placements :
        Known(p) /\ ent[p].sh = "4.2" /\ OnRing(Scored(p, "health", Measured(p, fresh)).q) = on}}

DerivedRing(fresh) == (ring \ RingOf(fresh, FALSE)) \cup RingOf(fresh, TRUE)

\* `moved`: some health differs from the stored one.
Moved_PlacementsOnly(fresh) ==
    \E i \in placements : Derivable(i) /\ ent[i].q["health"] # Derived(i, fresh)
Moved(fresh) == \E i \in AllIds : Derivable(i) /\ ent[i].q["health"] # Derived(i, fresh)

\* GNODE_TOPO_HEALTH_DERIVE, with the heartbeat keys that are fresh
HealthDerive(fresh) ==
    /\ ent' = [i \in AllIds |-> IF Derivable(i) THEN Scored(i, "health", Derived(i, fresh)) ELSE ent[i]]
    /\ ix' = [ix EXCEPT !["health"] =
           [i \in AllIds |-> IF Derivable(i) THEN Derived(i, fresh) ELSE ix["health"][i]]]
    /\ ring' = DerivedRing(fresh)
    /\ IF Moved(fresh) THEN Bump ELSE UNCHANGED gen
    /\ UNCHANGED <<ec, plof, plon, placements, wt>> /\ UNCHANGED links

-----------------------------------------------------------------------------
(* The library on its own: any client calls any function at any time.      *)

StoreNext ==
    \/ \E i \in Ids, d \in Declaration : RegisterCall(i, d)
    \/ \E of \in Ids, on \in Hosts, sh \in PlacedAs, hb \in Names, w \in Weights : PlaceCall(of, on, sh, hb, w)
    \/ \E i \in AllIds : Deregister(i)
    \/ \E f \in AllIds, t \in AllIds : AddEdge(f, t) \/ RemoveEdge(f, t)
    \/ \E i \in AllIds, a \in {"load", "health", "lifecycle"}, v \in Scores : SetDerived(i, a, v)
    \/ \E fresh \in SUBSET (Names \X Hosts) : HealthDerive(fresh)

StoreSpec == StoreInit /\ [][StoreNext]_store

StoreTypeOK ==
    /\ ent \in [AllIds -> Records \cup {None}]
    /\ ix \in [Axes -> [AllIds -> MaybeScore]]
    /\ ec \in Int /\ xc \in Int /\ gen \in 0 .. GenModulus - 1
    /\ edges \subseteq AllIds \X AllIds /\ outs \subseteq AllIds \X AllIds /\ ins \subseteq AllIds \X AllIds
    /\ plof \subseteq Ids \X Pids /\ plon \subseteq Ids \X Pids /\ placements \subseteq Pids
    /\ ring \subseteq Ids \X Pids
    /\ wt \in [AllIds -> Weights \cup {None}]

-----------------------------------------------------------------------------
(* Properties.  Most are conjuncts of GNODE_TOPO_VERIFY, made two-sided.   *)

\* The counters that HINCRBY moves one call at a time are the numbers of entities and of edges,
\* however many placements and edges a removal takes along.
CountsExact ==
    /\ ec = Cardinality({i \in AllIds : Known(i)})
    /\ xc = Cardinality(edges)

\* Every axis index holds exactly the scores of the records: nothing stale after a second
\* registration or a removal, nothing missing after a derived write.
IndexesAgree ==
    \A a \in Axes, i \in AllIds : ix[a][i] = IF Known(i) THEN ent[i].q[a] ELSE None

\* A placement stands only while its entity and its node do, and the placement sets, the
\* reverse sets and the weights hold exactly the placements.
PlacementsAnchored ==
    /\ \A p \in Pids : Known(p) =>
          p = <<ent[p].of, ent[p].on>> /\ Known(ent[p].of) /\ Known(ent[p].on)
    /\ placements = {p \in Pids : Known(p)}
    /\ plof = {<<p[1], p>> : p \in placements} /\ plon = {<<p[2], p>> : p \in placements}
    /\ \A i \in AllIds : wt[i] # None <=> i \in placements

\* The ring ROUTE picks from holds exactly the service placements that are active and not dead.
RingExact ==
    ring = {<<ent[p].of, p>> : p \in {p \in Pids : Known(p) /\ ent[p].sh = "4.2" /\ OnRing(ent[p].q)}}

\* The adjacency sets mirror the edges, and both ends of an edge are registered.
EdgesWhole ==
    /\ outs = edges /\ ins = edges
    /\ \A e \in edges : Known(e[1]) /\ Known(e[2])
=============================================================================
