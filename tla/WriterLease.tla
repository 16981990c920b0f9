---------------------------- MODULE WriterLease ----------------------------
(***************************************************************************)
(* The single-writer lease of a constellation: one ValKey key with a TTL,  *)
(* taken with SET NX and renewed with GET and SET XX.  Two workers of a    *)
(* daemon ask for it before they write: the constellation worker, for one  *)
(* constellation at a time, and the load sampler, for all of them at once. *)
(*                                                                         *)
(*   daemon/src/integration/lease.rs       hold_lease                      *)
(*   daemon/src/constellation_worker.rs    tick, pass                      *)
(*   daemon/src/worker.rs                  LoadSamplerWorker::tick         *)
(*   daemon/functions/gnode_topo.lua       lease_ok                        *)
(*                                                                         *)
(* A step is one command sent to ValKey.                                   *)
(***************************************************************************)
EXTENDS Naturals, Sequences

CONSTANTS
    Nodes,       \* the daemons
    NoNode,      \* the value of a key that does not exist
    Cons,        \* the constellations
    Served,      \* Served[n]: GNODE_CONSTELLATIONS of n, in order
    MaxCrashes,  \* bound: crashes
    MaxLapses    \* bound: leases that expire although their holder lives

Roles == {"placer", "sampler"}   \* the constellation worker and the load sampler
Procs == Nodes \X Roles
PCs   == {"ask", "get", "renew", "place", "derive", "sample"}

ASSUME NodesAssumption  == NoNode \notin Nodes
ASSUME ServedAssumption == Served \in [Nodes -> Seq(Cons)] /\ \A n \in Nodes : Served[n] # <<>>
ASSUME BoundsAssumption == MaxCrashes \in Nat /\ MaxLapses \in Nat

VARIABLES
    holder,   \* holder[c]: value of the lease key of c
    up,       \* up[n]: the daemon runs
    pc,       \* pc[p]: the next command of worker p
    at,       \* at[p]: which of its served constellations p is busy with
    derived,  \* derived[c]: the node whose derived write to c the store took last
    crashes, lapses

vars == <<holder, up, pc, at, derived, crashes, lapses>>

Node(p) == p[1]
Role(p) == p[2]
Last(p) == Len(Served[Node(p)])
Con(p)  == Served[Node(p)][at[p]]

Init ==
    /\ holder = [c \in Cons |-> NoNode]
    /\ up = [n \in Nodes |-> TRUE]
    /\ pc = [p \in Procs |-> "ask"] /\ at = [p \in Procs |-> 1]
    /\ derived = [c \in Cons |-> NoNode]
    /\ crashes = 0 /\ lapses = 0

-----------------------------------------------------------------------------
(* hold_lease, and what its two callers do with the answer.                *)

\* Worker p is ready for command k.
Ready(p, k) == up[Node(p)] /\ pc[p] = k

\* The placer goes on to its next constellation; the sampler starts its next tick.
Proceed(p) ==
    /\ pc' = [pc EXCEPT ![p] = "ask"]
    /\ at' = [at EXCEPT ![p] = IF Role(p) = "placer" /\ at[p] < Last(p) THEN at[p] + 1 ELSE 1]

\* `true`: the placer writes; the sampler's all() asks for the next constellation first.
Granted(p) ==
    \/ /\ Role(p) = "placer"
       /\ pc' = [pc EXCEPT ![p] = "place"] /\ UNCHANGED at
    \/ /\ Role(p) = "sampler" /\ at[p] < Last(p)
       /\ pc' = [pc EXCEPT ![p] = "ask"] /\ at' = [at EXCEPT ![p] = @ + 1]
    \/ /\ Role(p) = "sampler" /\ at[p] = Last(p)
       /\ pc' = [pc EXCEPT ![p] = "sample"] /\ at' = [at EXCEPT ![p] = 1]

\* SET key node NX EX ttl
Free_Ignored(c) == TRUE
Free(c) == holder[c] = NoNode

Take(p) ==
    /\ Ready(p, "ask") /\ Free(Con(p))
    /\ holder' = [holder EXCEPT ![Con(p)] = Node(p)]
    /\ Granted(p)
    /\ UNCHANGED <<up, derived, crashes, lapses>>

Taken(p) ==
    /\ Ready(p, "ask") /\ ~Free(Con(p))
    /\ pc' = [pc EXCEPT ![p] = "get"]
    /\ UNCHANGED <<holder, up, at, derived, crashes, lapses>>

\* GET key: only the holder goes on to renew.
Inspect(p) ==
    /\ Ready(p, "get")
    /\ IF holder[Con(p)] = Node(p)
       THEN pc' = [pc EXCEPT ![p] = "renew"] /\ UNCHANGED at
       ELSE Proceed(p)
    /\ UNCHANGED <<holder, up, derived, crashes, lapses>>

\* SET key node XX EX ttl: succeeds whenever the key exists.
Renew(p) ==
    /\ Ready(p, "renew")
    /\ IF holder[Con(p)] # NoNode
       THEN holder' = [holder EXCEPT ![Con(p)] = Node(p)] /\ Granted(p)
       ELSE Proceed(p) /\ UNCHANGED holder
    /\ UNCHANGED <<up, derived, crashes, lapses>>

-----------------------------------------------------------------------------
(* Writes.                                                                 *)

\* lease_ok in the store: somebody else's lease refuses the write, a free one does not.
LeaseOk_Always(c, n) == TRUE
LeaseOk(c, n) == holder[c] \in {n, NoNode}

\* Placements from heartbeats: GNODE_TOPO_PLACE asks for no lease.
Place(p) ==
    /\ Ready(p, "place")
    /\ pc' = [pc EXCEPT ![p] = "derive"]
    /\ UNCHANGED <<holder, up, at, derived, crashes, lapses>>

\* GNODE_TOPO_HEALTH_DERIVE; a refusal is only logged.
Derive(p) ==
    /\ Ready(p, "derive")
    /\ IF LeaseOk(Con(p), Node(p))
       THEN derived' = [derived EXCEPT ![Con(p)] = Node(p)] ELSE UNCHANGED derived
    /\ Proceed(p)
    /\ UNCHANGED <<holder, up, crashes, lapses>>

\* apply_one_topology for each served constellation: GNODE_TOPO_SET_DERIVED.
Sample(p) ==
    /\ Ready(p, "sample")
    /\ IF LeaseOk(Con(p), Node(p))
       THEN derived' = [derived EXCEPT ![Con(p)] = Node(p)] ELSE UNCHANGED derived
    /\ IF at[p] < Last(p)
       THEN at' = [at EXCEPT ![p] = @ + 1] /\ UNCHANGED pc
       ELSE Proceed(p)
    /\ UNCHANGED <<holder, up, crashes, lapses>>

-----------------------------------------------------------------------------
(* Time and failure.                                                       *)

\* The TTL is three renewal intervals: a lease runs out because its holder died, or
\* because the holder's host slept through it.
Expirable_NoTtl(c) == lapses < MaxLapses
Expirable(c) == ~up[holder[c]] \/ lapses < MaxLapses

Expire(c) ==
    /\ holder[c] # NoNode /\ Expirable(c)
    /\ holder' = [holder EXCEPT ![c] = NoNode]
    /\ lapses' = IF up[holder[c]] THEN lapses + 1 ELSE lapses
    /\ UNCHANGED <<up, pc, at, derived, crashes>>

Crash(n) ==
    /\ up[n] /\ crashes < MaxCrashes
    /\ up' = [up EXCEPT ![n] = FALSE]
    /\ pc' = [p \in Procs |-> IF Node(p) = n THEN "ask" ELSE pc[p]]
    /\ at' = [p \in Procs |-> IF Node(p) = n THEN 1 ELSE at[p]]
    /\ crashes' = crashes + 1
    /\ UNCHANGED <<holder, derived, lapses>>

Restart(n) ==
    /\ ~up[n]
    /\ up' = [up EXCEPT ![n] = TRUE]
    /\ UNCHANGED <<holder, pc, at, derived, crashes, lapses>>

Step(p) == Take(p) \/ Taken(p) \/ Inspect(p) \/ Renew(p) \/ Place(p) \/ Derive(p) \/ Sample(p)

Next ==
    \/ \E p \in Procs : Step(p)
    \/ \E c \in Cons : Expire(c)
    \/ \E n \in Nodes : Crash(n) \/ Restart(n)

Spec == Init /\ [][Next]_vars

\* The workers of a running daemon tick for ever, and a TTL runs out.  Nothing obliges
\* a crashed daemon to come back, and nothing obliges a live holder to lapse.
DeadHolder(c) == holder[c] # NoNode /\ ~up[holder[c]]
Fairness ==
    /\ \A p \in Procs : WF_vars(Step(p))
    /\ \A c \in Cons : WF_vars(DeadHolder(c) /\ Expire(c))

FairSpec == Spec /\ Fairness

-----------------------------------------------------------------------------
(* Properties.                                                             *)

TypeOK ==
    /\ holder \in [Cons -> Nodes \cup {NoNode}] /\ derived \in [Cons -> Nodes \cup {NoNode}]
    /\ up \in [Nodes -> BOOLEAN]
    /\ pc \in [Procs -> PCs]
    /\ at \in [Procs -> Nat \ {0}] /\ \A p \in Procs : at[p] <= Last(p)
    /\ crashes \in 0 .. MaxCrashes /\ lapses \in 0 .. MaxLapses

\* Worker p has been told that its node holds the lease of c, and acts on it.
Writes(p, c) ==
    \/ pc[p] \in {"place", "derive"} /\ Con(p) = c
    \/ pc[p] = "sample" /\ \E k \in 1 .. Last(p) : Served[Node(p)][k] = c

\* As long as no host sleeps through the TTL of its lease, two nodes are never both
\* inside their writes to one constellation, whatever their workers interleave and
\* whichever daemon dies and comes back while it holds the lease.
OneWriter ==
    lapses = 0 =>
        \A p, q \in Procs : \A c \in Cons :
            Writes(p, c) /\ Writes(q, c) => Node(p) = Node(q)

\* Even when leases lapse and a worker writes on a stale answer, the derived values
\* of a lease holder are not overwritten while it holds the lease.
DerivedValuesHold ==
    [][\A c \in Cons :
        derived[c] # NoNode /\ derived'[c] # derived[c] => holder[c] # derived[c]]_vars

\* lease.rs: a dead holder is replaced, unless no daemon is left to replace it.
Serves(n, c) == up[n] /\ \E k \in 1 .. Len(Served[n]) : Served[n][k] = c
DeadHolderReplaced ==
    \A c \in Cons :
        DeadHolder(c) ~> \/ holder[c] # NoNode /\ up[holder[c]]
                         \/ \A n \in Nodes : ~Serves(n, c)

\* lease.rs: a lease that expired between the GET and the SET XX is not re-taken, so a
\* held lease changes hands only by becoming free first.
LossReadsAsLoss ==
    [][\A c \in Cons :
        holder[c] # NoNode /\ holder'[c] # holder[c] => holder'[c] = NoNode]_vars

=============================================================================
