------------------------------ MODULE LoadSampler ------------------------------
(* sampler.rs and LoadSamplerWorker of worker.rs: what the round trips of a *)
(* service's placements say about their load.  The nodes take turns under   *)
(* the writer lease; the holder drains the observations, learns a baseline  *)
(* for each placement and command, compares the present with it and writes  *)
(* the band of a placement when it changes, the band of the service beside  *)
(* it.  Its memory is its own: only the baselines are stored.               *)
(* Time is counted in ticks of the worker, latencies and baselines in       *)
(* thousandths of a millisecond, ratios in thousandths.  Its mode is write. *)
EXTENDS Integers, Sequences, FiniteSetsExt

CONSTANTS
    Samplers,       \* nodes that run a sampler
    Placements,     \* placements of the service
    Service,        \* the service itself, an entity of its own
    Commands,
    Latencies,      \* round trips in milliseconds
    Window, BaselineWindow, RingSize, MinSamples,   \* window_secs, baseline_window_secs, ring, min_samples
    Guard, Alpha,   \* baseline_guard in thousandths, one part in Alpha of the EWMA
    Horizon,        \* horizon_secs in ticks
    Theta, RuleTicks,                               \* the scale-out rule, theta in thousandths
    DownTicks, IdleTicks,                           \* down_ticks, window_ticks of the demand tracker
    LeaseTicks,     \* LEASE_TTL_SECS in ticks
    NoSampler,      \* model value: the lease is free
    MaxNow, MaxRouted, MaxMishaps                  \* bounds

ASSUME SamplerAssumption ==
    /\ Service \notin Placements /\ NoSampler \notin Samplers
    /\ Latencies \subseteq Nat /\ Latencies # {} /\ {Window, BaselineWindow} \subseteq Nat
    /\ {RingSize, MinSamples, Alpha, Horizon, RuleTicks, DownTicks, IdleTicks, LeaseTicks} \subseteq Nat \ {0}
    /\ {Guard, Theta} \subseteq Nat
    /\ {MaxNow, MaxRouted, MaxMishaps} \subseteq Nat

VARIABLES
    now,            \* ticks
    travelling,     \* [Placements -> Nat]: requests routed to a placement and not answered
    routed,         \* the ring counter of the service
    posted,         \* the health stream behind the position of gnode-sampler, of each key
    lessee, renewed,                \* the writer lease and its last renewal
    memory,         \* [Samplers -> what the process of the node knows]
    saved,          \* {site}:gnode:baseline; 0 where nothing is stored
    axis,           \* [Placements \cup {Service} -> [band, at]]: current_load; band 0 is unknown
    hot,            \* [Placements -> Nat]: scale_out.since_ticks of a placement
    lastRouted,     \* when the last request was routed, for the properties
    mishaps

samplerVars == <<now, travelling, routed, posted, lessee, renewed, memory, saved, axis, hot, lastRouted, mishaps>>

Keys == Placements \X Commands

\* The landmarks idle, light, moderate, heavy and saturated are 1 .. 5.
Idle == 1

NoBand == [written |-> 0, pending |-> 0, ticks |-> 0, at |-> 0]

Fresh ==
    [ring |-> [k \in Keys |-> <<>>], base |-> [k \in Keys |-> 0], seeded |-> FALSE,
     band |-> [p \in Placements |-> NoBand], pressure |-> [p \in Placements |-> 0],
     seen |-> -1, quiet |-> 0, measured |-> -1,      \* DemandTracker: counter, ticks without movement, last reading
     ticked |-> -1]

SamplerInit ==
    /\ now = 0 /\ travelling = [p \in Placements |-> 0] /\ routed = 0 /\ posted = [k \in Keys |-> <<>>]
    /\ lessee = NoSampler /\ renewed = 0
    /\ memory = [n \in Samplers |-> Fresh] /\ saved = [k \in Keys |-> 0]
    /\ axis = [e \in Placements \cup {Service} |-> [band |-> 0, at |-> 0]]
    /\ hot = [p \in Placements |-> 0] /\ lastRouted = -1 /\ mishaps = 0

-----------------------------------------------------------------------------
(* The readings. *)

\* The samples of the ring inside a window, and the k-th shortest of them.
Inside(ring, window) == {i \in DOMAIN ring : now - ring[i].at <= window}
Ranked(ring, in, k) ==
    CHOOSE v \in {ring[i].us : i \in in} :
        /\ Cardinality({i \in in : ring[i].us < v}) < k
        /\ k <= Cardinality({i \in in : ring[i].us <= v})

Median(ring, in) ==
    LET n == Cardinality(in)
    IN  IF n % 2 = 1 THEN Ranked(ring, in, n \div 2 + 1)
        ELSE (Ranked(ring, in, n \div 2) + Ranked(ring, in, n \div 2 + 1)) \div 2

\* push: the ring keeps the newest samples.
Newest(q, n) == SubSeq(q, Len(q) - Min({n, Len(q)}) + 1, Len(q))

\* read_observations: what is not of this window is acknowledged and left out; a stream is
\* in the order of time.
Current(q) == Newest(q, Cardinality(Inside(q, Window)))
Rings(old) == [k \in Keys |-> Newest(old[k] \o Current(posted[k]), RingSize)]

\* guard_for: never below one step of the clock, a millisecond.
BelowGuard(b, slow) == slow * 1000 < Guard * b \/ slow <= b + 1000

\* Down at once, up slowly and below the guard only.
Learn_Unguarded(b, slow) ==
    IF b = 0 \/ slow < b THEN slow ELSE ((Alpha - 1) * b + slow) \div Alpha
Learn(b, slow) ==
    IF b = 0 \/ slow < b THEN slow
    ELSE IF BelowGuard(b, slow) THEN ((Alpha - 1) * b + slow) \div Alpha
    ELSE b

Baseline(ring, b) ==
    LET long == Inside(ring, BaselineWindow) IN IF long = {} THEN b ELSE Learn(b, Median(ring, long))

\* utilisation 1 - 1/I, from idle to .98
Rho(p50, b) == LET r == 1000 - (1000 * b) \div p50 IN Min({Max({r, 0}), 980})

\* The commands of a placement with a quorum and a baseline of an earlier tick.
Read(p, rings, before) ==
    {c \in Commands : before[<<p, c>>] > 0 /\ Cardinality(Inside(rings[<<p, c>>], Window)) >= MinSamples}

\* The mean over commands of a value, weighted by their samples.
Weighted(Of(_), p, rings, of) ==
    LET n(c) == Cardinality(Inside(rings[<<p, c>>], Window))
    IN  MapThenSumSet(LAMBDA c : Of(c) * n(c), of) \div MapThenSumSet(n, of)

P50(p, c, rings) == Median(rings[<<p, c>>], Inside(rings[<<p, c>>], Window))

Band(p, rings, base, of) ==
    (1000 + 4 * Weighted(LAMBDA c : Rho(P50(p, c, rings), base[<<p, c>>]), p, rings, of)) \div 1000

\* The inflation is at or above the threshold of the rule, never below two steps of the clock.
Pressed(p, rings, base, of) ==
    LET i == Weighted(LAMBDA c : (1000 * P50(p, c, rings)) \div base[<<p, c>>], p, rings, of)
        b == Min({base[<<p, c>>] : c \in of})
    IN  i >= Theta /\ i * b >= 1000 * (b + 2000)

-----------------------------------------------------------------------------
(* The bands. *)

\* Down only when the same lower band was read DownTicks times.
Lower(old, b) ==
    IF old.pending = b THEN [old EXCEPT !.ticks = @ + 1] ELSE [old EXCEPT !.pending = b, !.ticks = 1]

Writes(old, b) ==
    \/ old.written = 0 \/ b > old.written
    \/ b < old.written /\ Lower(old, b).ticks >= DownTicks
    \/ b = old.written /\ 2 * (now - old.at) >= Horizon

NextBand(old, b) ==
    IF Writes(old, b) THEN [NoBand EXCEPT !.written = b, !.at = now]
    ELSE IF b < old.written THEN Lower(old, b)
    ELSE old

-----------------------------------------------------------------------------
(* The worker. *)

MayHold(n) == lessee \in {n, NoSampler} \/ now - renewed >= LeaseTicks

\* seed_baselines, once in the life of a process
Seed(m) == IF m.seeded THEN m.base ELSE [k \in Keys |-> IF saved[k] > 0 THEN saved[k] ELSE m.base[k]]

\* The bands the service is given: the highest of those written in this tick.
ServiceBand(writes) == Max({w[2] : w \in writes})

\* DemandTracker: ticks of this process since the ring counter moved.
Quiet_NeverReset(m) == IF m.seen = -1 THEN 0 ELSE Min({m.quiet + 1, IdleTicks + 1})
Quiet(m) == IF m.seen = routed THEN Min({m.quiet + 1, IdleTicks + 1}) ELSE 0

\* A window without demand ends, and no reading landed in it.
FallsIdle(m, quiet, landed) ==
    /\ m.seen # -1 /\ quiet = IdleTicks
    /\ landed = -1 \/ now - landed >= IdleTicks

\* tick: lease, observations, baselines, bands, the rule, and what is written of them.  Where the
\* services cannot be listed nothing is written, and the bands remember that it was.
SamplerTick(n, listed) ==
    /\ memory[n].ticked < now /\ MayHold(n)
    /\ listed \/ mishaps < MaxMishaps
    /\ LET m       == memory[n]
           before  == Seed(m)
           rings   == Rings(m.ring)
           base    == [k \in Keys |-> Baseline(rings[k], before[k])]
           of      == [p \in Placements |-> Read(p, rings, before)]
           read    == {p \in Placements : of[p] # {}}
           bandOf  == [p \in read |-> Band(p, rings, base, of[p])]
           writes  == {<<p, bandOf[p]>> : p \in {q \in read : Writes(m.band[q], bandOf[q])}}
           written == {w[1] : w \in writes}
           press   == [p \in Placements |->
                          IF p \in read /\ Pressed(p, rings, base, of[p]) THEN m.pressure[p] + 1 ELSE 0]
           landed  == IF written # {} THEN now ELSE m.measured
           quiet   == Quiet(m)
       IN  /\ memory' = [memory EXCEPT ![n] =
                  [ring |-> rings, base |-> base, seeded |-> TRUE, pressure |-> press,
                   band |-> [p \in Placements |-> IF p \in read THEN NextBand(m.band[p], bandOf[p]) ELSE m.band[p]],
                   seen |-> IF listed THEN routed ELSE m.seen, quiet |-> IF listed THEN quiet ELSE m.quiet,
                   measured |-> IF listed THEN landed ELSE m.measured, ticked |-> now]]
           /\ saved' = IF written = {} /\ \A k \in Keys : Inside(posted[k], Window) = {}
                       THEN saved
                       ELSE [k \in Keys |-> IF base[k] > 0 THEN base[k] ELSE saved[k]]
           /\ axis' = IF ~listed THEN axis ELSE [e \in DOMAIN axis |->
                  CASE e \in written               -> [band |-> bandOf[e], at |-> now]
                    [] e = Service /\ written # {} -> [band |-> ServiceBand(writes), at |-> now]
                    [] e = Service /\ FallsIdle(m, quiet, landed) -> [band |-> Idle, at |-> now]
                    [] OTHER                       -> axis[e]]
           /\ hot' = [p \in Placements |-> IF press[p] >= RuleTicks THEN press[p] ELSE hot[p]]
    /\ lessee' = n /\ renewed' = now /\ posted' = [k \in Keys |-> <<>>]
    /\ mishaps' = IF listed THEN mishaps ELSE mishaps + 1
    /\ UNCHANGED <<now, travelling, routed, lastRouted>>

SamplerRestarts(n) ==
    /\ mishaps < MaxMishaps /\ mishaps' = mishaps + 1
    /\ memory' = [memory EXCEPT ![n] = Fresh]
    /\ UNCHANGED <<now, travelling, routed, posted, lessee, renewed, saved, axis, hot, lastRouted>>

\* A request is routed to a placement; roundtrip.rs posts its round trip when it is answered.
Route(p) ==
    /\ routed < MaxRouted /\ routed' = routed + 1 /\ lastRouted' = now
    /\ travelling' = [travelling EXCEPT ![p] = @ + 1]
    /\ UNCHANGED <<now, posted, lessee, renewed, memory, saved, axis, hot, mishaps>>

\* A command of less than a millisecond counts as one.
RoundTrip(ms) == 1000 * Max({ms, 1})
Answer(p, c, ms) ==
    /\ travelling[p] > 0 /\ travelling' = [travelling EXCEPT ![p] = @ - 1]
    /\ posted' = [posted EXCEPT ![<<p, c>>] = Append(@, [us |-> RoundTrip(ms), at |-> now])]
    /\ UNCHANGED <<now, routed, lessee, renewed, memory, saved, axis, hot, lastRouted, mishaps>>

TimePasses ==
    /\ now < MaxNow /\ now' = now + 1
    /\ UNCHANGED <<travelling, routed, posted, lessee, renewed, memory, saved, axis, hot, lastRouted, mishaps>>

SamplerNext ==
    \/ \E n \in Samplers : SamplerRestarts(n) \/ \E listed \in BOOLEAN : SamplerTick(n, listed)
    \/ \E p \in Placements : Route(p) \/ (\E c \in Commands, ms \in Latencies : Answer(p, c, ms))
    \/ TimePasses

SamplerSpec == SamplerInit /\ [][SamplerNext]_samplerVars

-----------------------------------------------------------------------------
(* Properties. *)

(* sampler.rs: the guard of the baseline ("a thermometer in the sun").     *)
(* However overload and quiet come mixed in the long window, a process     *)
(* that knows a placement at its fastest never takes a slower normal.      *)
Fastest == RoundTrip(Min(Latencies))

\* The guard tells what is slower, even halved with the fastest, from normal.
GuardSeparates ==
    \A ms \in Latencies :
        RoundTrip(ms) = Fastest \/ ~BelowGuard(Fastest, (Fastest + RoundTrip(ms)) \div 2)

BaselineKeepsNormal ==
    [][\A n \in Samplers, k \in Keys :
          memory[n].base[k] = Fastest /\ memory'[n].base[k] # 0 => memory'[n].base[k] = Fastest]_samplerVars

(* worker.rs:372, DemandTracker: where no reading lands, what is said of a  *)
(* service changes only to idle, and only when nothing was routed to it for *)
(* a whole window, whoever held the lease meanwhile.                        *)
IdleMeansQuiet ==
    [][axis'[Service] # axis[Service] /\ (\A n \in Samplers : memory'[n].measured = memory[n].measured)
          => axis'[Service].band = Idle /\ now - lastRouted >= IdleTicks]_samplerVars

=============================================================================
