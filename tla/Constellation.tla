--------------------------- MODULE Constellation ---------------------------
(***************************************************************************)
(* Who calls the constellation store, and in which order.  Each caller is  *)
(* a sequence of function calls, and other callers' calls run in between:  *)
(*                                                                         *)
(*   a registration     REGISTER, then PLACE        handlers/one_topology  *)
(*   a daemon           declares itself, then pass after pass reads the    *)
(*                      store, places what its heartbeats prove and        *)
(*                      derives health             constellation_worker.rs *)
(*   clients            DEREGISTER, ADD_EDGE, REMOVE_EDGE                  *)
(*   the sampler        SET_DERIVED                worker.rs               *)
(***************************************************************************)
EXTENDS ConstellationStore

CONSTANTS
    Registrars,   \* registrations that may be under way at once
    Declared,     \* Declared[i]: the declarations a client makes for i
    Daemons,      \* the hosts that run a daemon
    Component,    \* the component every daemon declares, gNode
    Beats,        \* heartbeat keys that may exist, <<name, host>>
    EdgeRequests, \* the edges clients ask for
    DerivedWrites \* what SET_DERIVED is called with, <<id, axis, score>>

VARIABLES
    reg,  \* reg[r]: the placement registration r has still to make, or None
    wk    \* wk[n]: the constellation worker of the daemon on n

vars == <<store, reg, wk>>

NodeDecl      == [sh |-> "1", f |-> 0, w |-> 1, hb |-> DaemonName]
ComponentDecl == [sh |-> "2", f |-> 0, w |-> 1, hb |-> DaemonName]

ASSUME DeclaredAssumption ==
    /\ Declared \in [Ids -> SUBSET Declaration]
    /\ Daemons \subseteq Hosts /\ Component \in Ids \ Hosts
    /\ Beats \subseteq Names \X Hosts
    /\ EdgeRequests \subseteq AllIds \X AllIds
    /\ DerivedWrites \subseteq AllIds \X {"load", "health", "lifecycle"} \X Scores
    /\ MaxWeight > 0

PCs    == {"node", "component", "self", "components", "services", "nodes", "existing", "scan", "place", "derive"}
Seen   == [id : Ids, sh : Shapes, w : Weights, hb : Names]   \* what pass() reads of a record
Orders == [of : Ids, on : Hosts, sh : PlacedAs, hb : Names, w : Weights]
Workers == [pc : PCs, comps : SUBSET Seen, svcs : SUBSET Seen, nodes : SUBSET Ids,
            exist : SUBSET (Pids \X Names), todo : SUBSET Orders]

Restarted == [pc |-> "node", comps |-> {}, svcs |-> {}, nodes |-> {}, exist |-> {}, todo |-> {}]

Init ==
    /\ StoreInit
    /\ reg = [r \in Registrars |-> None]
    /\ wk = [n \in Daemons |-> Restarted]

-----------------------------------------------------------------------------
(* A registration: register_cmds, stopped by the first refusal.            *)

Register(r) ==
    \E i \in Ids, n \in Hosts \cup {None} : \E d \in Declared[i] :
        /\ reg[r] = None
        /\ n # None => d.sh \in Services
        /\ RegisterCall(i, d)
        /\ reg' = [reg EXCEPT ![r] =
               IF n = None THEN None
               ELSE [of |-> i, on |-> n, sh |-> "4.2", w |-> d.w,
                     hb |-> IF d.sh = "3.1" THEN DaemonName ELSE d.hb]]
        /\ UNCHANGED wk

PlaceRegistered(r) ==
    /\ reg[r] # None
    /\ LET p == reg[r] IN
         PlaceCall(p.of, p.on, p.sh, p.hb, p.w) \/ PlaceRefused(p.of, p.on, p.sh)
    /\ reg' = [reg EXCEPT ![r] = None]
    /\ UNCHANGED wk

-----------------------------------------------------------------------------
(* declare_self.                                                           *)

At(n, pc) == wk[n].pc = pc /\ UNCHANGED reg
Goto(n, pc) == wk' = [wk EXCEPT ![n].pc = pc]

DeclareNode(n) == At(n, "node") /\ RegisterCall(n, NodeDecl) /\ Goto(n, "component")

DeclareComponent(n) == At(n, "component") /\ RegisterCall(Component, ComponentDecl) /\ Goto(n, "self")

\* A refusal fails the tick, and the next tick declares everything again.
DeclarePlacement(n) ==
    /\ At(n, "self")
    /\ \/ PlaceCall(Component, n, "4.1", DaemonName, 1) /\ Goto(n, "components")
       \/ PlaceRefused(Component, n, "4.1") /\ Goto(n, "node")

-----------------------------------------------------------------------------
(* pass(): four queries, the heartbeat keys, the placements, the health.   *)

\* GNODE_TOPO_QUERY of a layer, by the index
Query(level) == {i \in Ids : ix["layer"][i] = level /\ Known(i)}
View(i) == [id |-> i, sh |-> ent[i].sh, w |-> ent[i].w, hb |-> ent[i].hb]

QueryComponents(n) ==
    /\ At(n, "components") /\ UNCHANGED store
    /\ wk' = [wk EXCEPT ![n] = [@ EXCEPT !.comps = {View(i) : i \in Query(2)}, !.pc = "services"]]

QueryServices(n) ==
    /\ At(n, "services") /\ UNCHANGED store
    /\ wk' = [wk EXCEPT ![n] = [@ EXCEPT !.svcs = {View(i) : i \in Query(3)}, !.pc = "nodes"]]

QueryNodes(n) ==
    /\ At(n, "nodes") /\ UNCHANGED store
    /\ wk' = [wk EXCEPT ![n] = [@ EXCEPT !.nodes = Query(1), !.pc = "existing"]]

QueryExisting(n) ==
    /\ At(n, "existing") /\ UNCHANGED store
    /\ LET seen == {p \in Pids : ix["layer"][p] = 4 /\ Known(p)} IN
         wk' = [wk EXCEPT ![n] = [@ EXCEPT !.exist = {<<p, ent[p].hb>> : p \in seen}, !.pc = "scan"]]

\* The declared weight: of the service with that id if there is one, else of the component.
WeightOf(n, e) ==
    IF \E s \in wk[n].svcs : s.id = e.id
    THEN (CHOOSE s \in wk[n].svcs : s.id = e.id).w ELSE e.w

\* The entities a heartbeat's name belongs to.
Matching(n, name) == {e \in wk[n].comps \cup wk[n].svcs : e.hb = name}

\* What the heartbeats prove and the placements that were read do not hold yet.
ToPlace(n, beats) ==
    {x \in UNION {{[of |-> e.id, on |-> b[2], sh |-> IF e.sh = "2" THEN "4.1" ELSE "4.2", hb |-> b[1], w |-> WeightOf(n, e)] :
                    e \in Matching(n, b[1])} : b \in {b \in beats : b[2] \in wk[n].nodes}} :
        <<<<x.of, x.on>>, x.hb>> \notin wk[n].exist}

ScanHeartbeats(n) ==
    /\ At(n, "scan") /\ UNCHANGED store
    /\ \E beats \in SUBSET Beats :
         wk' = [wk EXCEPT ![n] = [Restarted EXCEPT !.pc = "place", !.todo = ToPlace(n, beats)]]

\* A refused placement is a warning.
PlaceBeat(n) ==
    /\ At(n, "place")
    /\ \E x \in wk[n].todo :
         /\ PlaceCall(x.of, x.on, x.sh, x.hb, x.w) \/ PlaceRefused(x.of, x.on, x.sh)
         /\ wk' = [wk EXCEPT ![n].todo = @ \ {x}]

\* The lease may have gone to another daemon since the pass began: then nothing is derived.
Derive(n) ==
    /\ At(n, "place") /\ wk[n].todo = {}
    /\ UNCHANGED store \/ \E fresh \in SUBSET Beats : HealthDerive(fresh)
    /\ Goto(n, "components")

\* The daemon stops anywhere and starts again.
Restart(n) ==
    /\ wk[n].pc # "node" /\ UNCHANGED <<store, reg>>
    /\ wk' = [wk EXCEPT ![n] = Restarted]

-----------------------------------------------------------------------------
(* The other callers.                                                      *)

\* gNode and its placements are refused by name.
DeregisterRequest ==
    /\ \E i \in AllIds : i # Component /\ i \notin {<<Component, n>> : n \in Hosts} /\ Deregister(i)
    /\ UNCHANGED <<reg, wk>>

EdgeRequest ==
    /\ \E e \in EdgeRequests : AddEdge(e[1], e[2]) \/ RemoveEdge(e[1], e[2])
    /\ UNCHANGED <<reg, wk>>

Sample ==
    /\ \E d \in DerivedWrites : SetDerived(d[1], d[2], d[3])
    /\ UNCHANGED <<reg, wk>>

Next ==
    \/ \E r \in Registrars : Register(r) \/ PlaceRegistered(r)
    \/ \E n \in Daemons :
         \/ DeclareNode(n) \/ DeclareComponent(n) \/ DeclarePlacement(n)
         \/ QueryComponents(n) \/ QueryServices(n) \/ QueryNodes(n) \/ QueryExisting(n)
         \/ ScanHeartbeats(n) \/ PlaceBeat(n) \/ Derive(n) \/ Restart(n)
    \/ DeregisterRequest \/ EdgeRequest \/ Sample

Spec == Init /\ [][Next]_vars

-----------------------------------------------------------------------------
(* Properties, beside those of the store.                                  *)

\* Every variable stays in its type.
TypeOK ==
    /\ StoreTypeOK
    /\ reg \in [Registrars -> Orders \cup {None}]
    /\ wk \in [Daemons -> Workers]

\* phi falls along every edge, also after its ends are removed, registered again and re-placed.
EdgesFollowPotential ==
    LET phi(i) == IF ent[i].q["fundamentality"] = None THEN 0 ELSE ent[i].q["fundamentality"] IN
    \A e \in edges :
        \/ Level[ent[e[1]].sh] > Level[ent[e[2]].sh]
        \/ Level[ent[e[1]].sh] = Level[ent[e[2]].sh] /\ phi(e[1]) > phi(e[2])

\* The dependency edges have no cycle: every set of entities has one without an edge into the set.
NoDependencyCycle ==
    \A S \in (SUBSET {e[1] : e \in edges}) \ {{}} : \E x \in S : \A y \in S : <<x, y>> \notin edges

\* GNODE_TOPO_GEN: the generation moves with every change of what a reader of records, rings,
\* weights or edges would see.
GenerationMoves ==
    [][(\E i \in AllIds : ent'[i] # ent[i]) \/ ring' # ring \/ edges' # edges \/ wt' # wt => gen' # gen]_vars

\* A second registration keeps the load and the health that were derived for the entity.
DerivedSurvives ==
    [][\A i \in Ids : Known(i) /\ ent'[i] # None /\ reg' # reg =>
          \A a \in {"load", "health"} : ent[i].q[a] # None => ent'[i].q[a] = ent[i].q[a]]_vars

\* pass(): "A placement that registration already made keeps its declared weight and version."
\* A pass changes the weight of no placement that names the same heartbeat.
RegisteredWeightKept ==
    [][\A n \in Daemons : \A x \in wk[n].todo \ wk'[n].todo :
          LET p == <<x.of, x.on>> IN
          wk'[n].pc = "place" /\ Known(p) /\ ent[p].hb = x.hb => wt'[p] = wt[p]]_vars

=============================================================================
