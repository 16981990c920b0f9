------------------------- MODULE StreamSubscription -------------------------
(* How a daemon comes to read a stream: discovery (stream_discovery.rs)    *)
(* keeps a cache of the streams that the registry lists, refreshed by a    *)
(* timer thread and by the broadcast reader; the stream worker             *)
(* (consumer_groups.rs) takes its list of streams from the cache, makes    *)
(* sure of their groups, sweeps them without blocking and sleeps until one *)
(* of them has something new (stream_reader.rs).  A stream stands for the  *)
(* pair of a site's unified stream and its health twin, which are read and *)
(* fail together; that other daemons read in the same groups is            *)
(* EnvironmentWorker's subject.  An entry is the server's time in ms.      *)
EXTENDS Integers, Sequences, FiniteSets, FiniteSetsExt

LOCAL INSTANCE SequencesExt

CONSTANTS
    Streams,        \* stream keys
    Own,            \* the fallback: the stream of the daemon's own site and environment
    SweepCount,     \* entries a sweep takes from one stream
    MaxLog,         \* bound: entries written to one stream
    MaxNow,         \* bound: ticks of the server's clock
    MaxEpoch,       \* bound: changes of the registry
    MaxGlitches     \* bound: commands that fail

ASSUME SubscriptionAssumption ==
    /\ Own \in Streams /\ SweepCount \in Nat \ {0}
    /\ MaxLog \in Nat /\ MaxNow \in Nat /\ MaxEpoch \in Nat /\ MaxGlitches \in Nat

VARIABLES
    wanted, kind, withGroup, log, taken,  \* ValKey: the registry's streams, what their keys hold, the
                                        \* streams with the group, entries' times, the group's cursor
    now, epoch,                         \* the server's clock, the registry's changes so far
    known, knownAt, snapshot, signalled,\* discovery: the cache and its age, a refresh between its call
                                        \* and its store, needs_immediate_sync
    stage, inited, active,              \* the worker: where it is, initialization_completed, its streams,
    ahead, stale, mark, sawAny, sawError,\* the rest of the sweep, stale streams, the mark, what the sweep met
    left, glitches                      \* history: streams taken off the list since the last refresh; failures

valkey    == <<wanted, kind, withGroup, log, taken>>
clocks    == <<now, epoch>>
discovery == <<known, knownAt, snapshot>>
sweep     == <<ahead, stale, mark, sawAny, sawError>>
subscriptionVars ==
    <<valkey, clocks, discovery, signalled, stage, inited, active, sweep, left, glitches>>

Refreshers == {"timer", "broadcast"}
NoMark     == -1
Idle       == [at |-> -1, got |-> {}]
Glitch     == glitches < MaxGlitches /\ glitches' = glitches + 1

\* GNODE_SERVICE_GET_ALL_STREAMS lists a registered site's active stream if its key exists.
Listed == {s \in wanted : kind[s] # "none"}

SubscriptionInit ==
    /\ wanted = {Own}
    /\ kind = [s \in Streams |-> IF s \in wanted THEN "stream" ELSE "none"]
    /\ withGroup = {} /\ log = [s \in Streams |-> <<>>] /\ taken = [s \in Streams |-> 0]
    /\ now = 0 /\ epoch = 0
    /\ known \in {{}, wanted} /\ knownAt = 0 /\ snapshot = [r \in Refreshers |-> Idle]
    /\ signalled = FALSE
    /\ stage = "off" /\ inited = FALSE /\ active = {}
    /\ ahead = {} /\ stale = {} /\ mark = NoMark /\ sawAny = FALSE /\ sawError = FALSE
    /\ left = {} /\ glitches = 0

-----------------------------------------------------------------------------
(* Sites, clients and other daemons.                                       *)

Tick ==
    /\ now < MaxNow /\ now' = now + 1
    /\ UNCHANGED <<valkey, epoch, discovery, signalled, stage, inited, active, sweep, left, glitches>>

\* A site registers or makes an environment its active one.
Enrol(s) ==
    /\ epoch < MaxEpoch /\ s \notin wanted
    /\ wanted' = wanted \cup {s} /\ epoch' = epoch + 1
    /\ kind' = [kind EXCEPT ![s] = IF @ = "none" THEN "stream" ELSE @]
    /\ UNCHANGED <<withGroup, log, taken, now, discovery, signalled, stage, inited, active, sweep, left, glitches>>

\* A site is deprovisioned: its registration goes, and its keys with their groups.
Withdraw(s) ==
    /\ epoch < MaxEpoch /\ s \in wanted
    /\ wanted' = wanted \ {s} /\ epoch' = epoch + 1
    /\ kind' = [kind EXCEPT ![s] = "none"] /\ withGroup' = withGroup \ {s}
    /\ log' = [log EXCEPT ![s] = <<>>] /\ taken' = [taken EXCEPT ![s] = 0]
    /\ UNCHANGED <<now, discovery, signalled, stage, inited, active, sweep, left, glitches>>

\* A key of one site is overwritten with something that is no stream.
Overwrite(s) ==
    /\ Glitch /\ kind[s] = "stream"
    /\ kind' = [kind EXCEPT ![s] = "other"] /\ withGroup' = withGroup \ {s}
    /\ log' = [log EXCEPT ![s] = <<>>] /\ taken' = [taken EXCEPT ![s] = 0]
    /\ UNCHANGED <<wanted, clocks, discovery, signalled, stage, inited, active, sweep, left>>

\* A client writes a command; XADD makes the key if there is none.
Write(s) ==
    /\ Len(log[s]) < MaxLog /\ kind[s] # "other"
    /\ kind' = [kind EXCEPT ![s] = "stream"]
    /\ log' = [log EXCEPT ![s] = Append(@, now)]
    /\ UNCHANGED <<wanted, withGroup, taken, clocks, discovery, signalled, stage, inited, active, sweep, left, glitches>>

-----------------------------------------------------------------------------
(* Discovery.  The timer's thread refreshes under the write lock, the      *)
(* broadcast reader under a read lock.                                     *)

NoneRefreshes_Unlocked(r) == snapshot[r] = Idle
NoneRefreshes(r) == \A q \in Refreshers : snapshot[q] = Idle

\* The call that reads the registry; one that fails changes nothing.
Fetch(r) ==
    /\ NoneRefreshes(r)
    /\ snapshot' = [snapshot EXCEPT ![r] = [at |-> epoch, got |-> Listed]]
    /\ UNCHANGED <<valkey, clocks, known, knownAt, signalled, stage, inited, active, sweep, left, glitches>>

\* The store into the cache; only the broadcast reader tells the workers.
Store(r) ==
    /\ snapshot[r] # Idle
    /\ known' = snapshot[r].got /\ knownAt' = snapshot[r].at /\ left' = {}
    /\ snapshot' = [snapshot EXCEPT ![r] = Idle]
    /\ signalled' = (signalled \/ r = "broadcast")
    /\ UNCHANGED <<valkey, clocks, stage, inited, active, sweep, glitches>>

-----------------------------------------------------------------------------
(* The stream worker.                                                      *)

\* ensure_consumer_group: XGROUP CREATE at $ with MKSTREAM where there is no group yet.
\* The calls may fail for some (a key that is no stream, a command that fails).
Ensure(ss) ==
    \E failed \in SUBSET ss :
        /\ {s \in ss : kind[s] = "other"} \subseteq failed
        /\ glitches' = glitches + Cardinality({s \in failed : kind[s] # "other"}) /\ glitches' <= MaxGlitches
        /\ LET made == ss \ (failed \cup withGroup) IN
           /\ kind' = [s \in Streams |-> IF s \in made THEN "stream" ELSE kind[s]]
           /\ taken' = [s \in Streams |-> IF s \in made THEN Len(log[s]) ELSE taken[s]]
           /\ withGroup' = withGroup \cup made
    /\ UNCHANGED <<wanted, log>>

\* The worker starts on what discovery has, or on the daemon's own stream; it is not
\* started before its own stream and group could be made (StartRecovery).
Subscribe ==
    /\ stage = "off" /\ snapshot["timer"] = Idle
    /\ active' = IF known = {} THEN {Own} ELSE known
    /\ Ensure(active' \cup {Own}) /\ Own \in withGroup' /\ stage' = "sync"
    /\ UNCHANGED <<clocks, discovery, signalled, inited, sweep, left>>

\* The head of the loop: on a signal, or when its own minute is over, the worker compares
\* its list with the cache and takes the cache over if that has something new.
ToSync_OnSignal(due) == signalled
ToSync(due) == signalled \/ due

Sync(due) ==
    /\ stage = "sync" /\ stage' = IF inited THEN "mark" ELSE "init"
    /\ snapshot["timer"] = Idle
    /\ signalled' = FALSE
    /\ IF ToSync(due) /\ known \ active # {}
       THEN Ensure(known \ active) /\ active' = known
       ELSE UNCHANGED <<valkey, active, glitches>>
    /\ UNCHANGED <<clocks, discovery, inited, sweep, left>>

\* initialize_environment_streams, until it has succeeded once: the worker reads nothing before.
Initialise ==
    /\ stage = "init" /\ Ensure({Own})
    /\ inited' = (Own \in withGroup') /\ stage' = IF inited' THEN "mark" ELSE "sync"
    /\ UNCHANGED <<clocks, discovery, signalled, active, sweep, left>>

\* sweep_mark: the server's clock, before the sweep.
Begin_Rounded(m) ==
    /\ stage = "mark" /\ stage' = "sweep"
    /\ mark' = m + 1 /\ ahead' = active /\ stale' = {} /\ sawAny' = FALSE /\ sawError' = FALSE
    /\ UNCHANGED <<valkey, clocks, discovery, signalled, inited, active, left>>
Begin(m) ==
    /\ stage = "mark" /\ stage' = "sweep"
    /\ mark' = m /\ ahead' = active /\ stale' = {} /\ sawAny' = FALSE /\ sawError' = FALSE
    /\ UNCHANGED <<valkey, clocks, discovery, signalled, inited, active, left>>
Mark      == Begin(now) /\ UNCHANGED glitches
MarkFails == Begin(NoMark) /\ Glitch

\* read_multi_stream, and what becomes of its errors.
Readable(s) == kind[s] = "stream" /\ s \in withGroup
Awaiting(s) == Readable(s) /\ taken[s] < Len(log[s])
ReadStream(s) ==
    /\ stage = "sweep" /\ s \in ahead /\ ahead' = ahead \ {s}
    /\ LET n == Min({SweepCount, Len(log[s]) - taken[s]}) IN
       taken' = IF Readable(s) THEN [taken EXCEPT ![s] = @ + n] ELSE taken
    /\ sawAny' = (sawAny \/ Awaiting(s))
    /\ stale' = IF Readable(s) THEN stale ELSE stale \cup {s}
    /\ sawError' = (sawError \/ (kind[s] # "other" /\ ~Readable(s)))
    /\ UNCHANGED <<wanted, kind, withGroup, log, clocks, discovery, signalled, stage, inited, active, mark, left, glitches>>

ReadFails(s) ==
    /\ Glitch /\ stage = "sweep" /\ s \in ahead /\ ahead' = ahead \ {s}
    /\ sawError' = TRUE
    /\ UNCHANGED <<valkey, clocks, discovery, signalled, stage, inited, active, stale, mark, sawAny, left>>

\* Stale streams leave the list, and the sync signal is raised for them.  With a mark, and
\* nothing read and nothing failed, the worker waits; else it goes round at once.
Settle ==
    /\ stage = "sweep" /\ ahead = {}
    /\ active' = active \ stale /\ left' = left \cup stale
    /\ signalled' = (signalled \/ stale # {})
    /\ stage' = IF mark # NoMark /\ ~sawAny /\ ~sawError /\ active' # {} THEN "wait" ELSE "sync"
    /\ UNCHANGED <<valkey, clocks, discovery, inited, sweep, glitches>>

\* wait_for_any: XREAD BLOCK after the last possible entry of the millisecond before the mark.
After_Mark(m) == m
After(m) == m - 1
Wakes == \E s \in active : \E k \in DOMAIN log[s] : log[s][k] > After(mark)

Wake ==
    /\ stage = "wait" /\ stage' = "sync" /\ Wakes
    /\ UNCHANGED <<valkey, clocks, discovery, signalled, inited, active, sweep, left, glitches>>

Timeout ==
    /\ stage = "wait" /\ stage' = "sync" /\ ~Wakes
    /\ UNCHANGED <<valkey, clocks, discovery, signalled, inited, active, sweep, left, glitches>>

SubscriptionNext ==
    \/ Tick
    \/ \E s \in Streams : Enrol(s) \/ Withdraw(s) \/ Overwrite(s) \/ Write(s)
    \/ \E r \in Refreshers : Fetch(r) \/ Store(r)
    \/ Subscribe \/ Initialise \/ (\E due \in BOOLEAN : Sync(due)) \/ Mark \/ MarkFails
    \/ \E s \in Streams : ReadStream(s) \/ ReadFails(s)
    \/ Settle \/ Wake \/ Timeout

\* The worker's loop goes round, the timer's thread refreshes every minute, and so does
\* the worker look at the cache; nothing obliges anybody else.
SubscriptionFairness ==
    /\ SF_subscriptionVars(Subscribe) /\ SF_subscriptionVars(Sync(TRUE))
    /\ WF_subscriptionVars(Initialise) /\ WF_subscriptionVars(Mark)
    /\ \A s \in Streams : WF_subscriptionVars(ReadStream(s))
    /\ WF_subscriptionVars(Settle) /\ WF_subscriptionVars(Wake \/ Timeout)
    /\ SF_subscriptionVars(Fetch("timer")) /\ \A r \in Refreshers : WF_subscriptionVars(Store(r))

SubscriptionSpec == SubscriptionInit /\ [][SubscriptionNext]_subscriptionVars /\ SubscriptionFairness

-----------------------------------------------------------------------------
(* Properties.                                                             *)

SubscriptionTypeOK ==
    /\ wanted \in SUBSET Streams /\ kind \in [Streams -> {"none", "stream", "other"}]
    /\ withGroup \in SUBSET {s \in Streams : kind[s] = "stream"}
    /\ \A s \in Streams : taken[s] \in 0 .. Len(log[s]) /\ Len(log[s]) <= MaxLog
    /\ now \in 0 .. MaxNow /\ epoch \in 0 .. MaxEpoch /\ glitches \in 0 .. MaxGlitches
    /\ known \in SUBSET Streams /\ knownAt \in 0 .. epoch
    /\ snapshot \in [Refreshers -> [at : -1 .. epoch, got : SUBSET Streams]]
    /\ stage \in {"off", "sync", "init", "mark", "sweep", "wait"} /\ mark \in NoMark .. now
    /\ active \in SUBSET Streams /\ {ahead, stale, left} \subseteq SUBSET Streams
    /\ {signalled, inited, sawAny, sawError} \subseteq BOOLEAN

\* consumer_groups.rs: the mark is taken before the sweep, so an entry that lands behind the
\* sweep still wakes the worker: it never sleeps over an entry it could read.
NoLostWakeup ==
    stage = "wait" =>
        \A s \in active : Awaiting(s) => Wakes

\* stream_discovery.rs: two threads refresh one cache: it never goes back to an older
\* state of the registry than it had.
CacheNeverOlder == [][knownAt' >= knownAt]_subscriptionVars

\* A registered site's stream comes to be read, and then a command in it is picked up,
\* whatever other sites do and whatever fails for a while; only a worker that could not
\* yet initialise its own stream, whose key is no stream, serves nobody.
Blocked == ~inited /\ kind[Own] = "other"
PickedUp ==
    \A s \in Streams :
        /\ (s \in wanted) ~> (s \in active \/ s \notin wanted \/ Blocked)
        /\ Awaiting(s) ~> (~Awaiting(s) \/ s \notin wanted \/ Blocked)

=============================================================================
