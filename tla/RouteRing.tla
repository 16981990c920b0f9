----------------------------- MODULE RouteRing -----------------------------
(***************************************************************************)
(* GNODE_TOPO_ROUTE: exact weighted round-robin from one shared counter,   *)
(* smooth within a cycle (daemon/functions/gnode_topo.lua).  The ring of a *)
(* service is the sequence of the weights of its placements in the order   *)
(* of their registration.  Placements come, go and change their weights    *)
(* between requests, and the counter goes on through all of it.            *)
(***************************************************************************)
EXTENDS Integers, Sequences, FiniteSets

CONSTANTS MaxRing, MaxRingWeight,  \* bounds: placements of a ring, their weight
          MaxRequests              \* bound: requests routed

ASSUME RingBounds == MaxRing \in Nat /\ MaxRingWeight \in Nat /\ MaxRequests \in Nat

Rings == UNION {[1 .. k -> 0 .. MaxRingWeight] : k \in 1 .. MaxRing}

VARIABLES
    ws,     \* the weights along the ring
    rr,     \* :rr:<service>, the shared counter
    since,  \* requests routed since the ring took this shape, within the cycle
    took    \* took[i]: how many of them went to placement i

ringVars == <<ws, rr, since, took>>

Weighted == {i \in DOMAIN ws : ws[i] > 0}

\* total, as the loop over the ring sums it up
Total[k \in 0 .. Len(ws)] == IF k = 0 THEN 0 ELSE Total[k - 1] + ws[k]
TotalWeight == Total[Len(ws)]

\* Every weighted placement gains its weight, and the first of the richest is picked.
Raised_ByOne(credit) == [i \in Weighted |-> credit[i] + 1]
Raised(credit) == [i \in Weighted |-> credit[i] + ws[i]]
Richest(credit) ==
    CHOOSE i \in DOMAIN credit : \A j \in DOMAIN credit :
        credit[j] < credit[i] \/ (credit[j] = credit[i] /\ i <= j)

\* The picked one pays the total.
Charged(credit) == [credit EXCEPT ![Richest(credit)] = @ - TotalWeight]

\* Credits[k]: the credits after k steps of the loop.
Credits[k \in Nat] ==
    IF k = 0 THEN [i \in Weighted |-> 0] ELSE Charged(Raised(Credits[k - 1]))

\* The placement counter value c routes to; standbys only when nothing has a weight.
Pick(c) ==
    IF Weighted = {} THEN ((c - 1) % Len(ws)) + 1
    ELSE Richest(Raised(Credits[(c - 1) % TotalWeight]))

Reshaped(w) == ws' = w /\ since' = 0 /\ took' = [i \in DOMAIN w |-> 0]

RingInit == ws \in Rings /\ rr = 0 /\ since = 0 /\ took = [i \in DOMAIN ws |-> 0]

Cycle == IF Weighted = {} THEN Len(ws) ELSE TotalWeight

\* One request: INCR and pick.  The counts start again when a cycle is full.
Route ==
    /\ rr < MaxRequests
    /\ rr' = rr + 1
    /\ since' = (IF since = Cycle THEN 0 ELSE since) + 1
    /\ took' = [[i \in DOMAIN ws |-> IF since = Cycle THEN 0 ELSE took[i]] EXCEPT ![Pick(rr + 1)] = @ + 1]
    /\ UNCHANGED ws

\* A placement joins, leaves or gets another weight.
Join   == Len(ws) < MaxRing /\ \E w \in 0 .. MaxRingWeight : Reshaped(Append(ws, w))
Leave  == Len(ws) > 1 /\ \E k \in DOMAIN ws : Reshaped(SubSeq(ws, 1, k - 1) \o SubSeq(ws, k + 1, Len(ws)))
Weigh  == \E k \in DOMAIN ws : \E w \in 0 .. MaxRingWeight \ {ws[k]} : Reshaped([ws EXCEPT ![k] = w])
RingChange == (Join \/ Leave \/ Weigh) /\ UNCHANGED rr

RingNext == Route \/ RingChange
RingSpec == RingInit /\ [][RingNext]_ringVars

-----------------------------------------------------------------------------
RouteExact ==
    since = Cycle => \A i \in DOMAIN ws : took[i] = IF Weighted = {} THEN 1 ELSE ws[i]

RouteSmooth ==
    Weighted # {} => \A i \in DOMAIN ws :
        LET gap  == took[i] * TotalWeight - since * ws[i]
            most == (Cardinality(Weighted) + 1) * TotalWeight
        IN  -most < 2 * gap /\ 2 * gap < most

\* "Exact weighted round-robin from one shared counter": when a ring has kept its shape for one
\* cycle, each placement took exactly its weight's share, whatever value the counter had when the
\* ring took that shape; standbys share alone and take nothing beside a weighted placement.
\* "Smooth weighted order within a cycle": at every moment each of n weighted placements is less
\* than (n + 1) / 2 requests away from its share of the requests since the ring took its shape.
RouteFair == RouteExact /\ RouteSmooth
=============================================================================
