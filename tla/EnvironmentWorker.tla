------------------------- MODULE EnvironmentWorker -------------------------
(***************************************************************************)
(* The environment stream workers of gNode: every node runs one thread     *)
(* that consumes a site's unified ValKey stream through the consumer group *)
(* `gnode-workers`, executes the commands its exposure accepts, and        *)
(* acknowledges them.  One stream; the nodes share its group.              *)
(*                                                                         *)
(*   daemon/src/integration/consumer_groups.rs     the loop                *)
(*   daemon/src/integration/command_processor.rs   process_command_batch   *)
(*   daemon/src/integration/concurrent_lane.rs     the concurrent lane     *)
(*   daemon/src/routing_config.rs                  exposure                *)
(*                                                                         *)
(* A step is one round trip to ValKey, or one handler call.                *)
(***************************************************************************)
EXTENDS Naturals, FiniteSets

CONSTANTS
    Nodes,         \* the daemons sharing the group; a node is its consumer
    NoNode,        \* no owner
    Hints,         \* values of the `_gh` group hint of an entry
    NoHint,        \* an entry without `_gh`
    Exposure,      \* Exposure[n]: the routing configs n's node_type names
    Shapes,        \* the kinds of entry clients write
    MaxEntries,    \* bound: entries written to the stream
    BatchSize,     \* COUNT of the group read
    ReclaimBatch,  \* RECLAIM_BATCH
    MaxLen,        \* max_stream_length
    MaxFaults,     \* bound: crashes and shutdown requests
    Sleepers       \* bound: the nodes that may go REAP_IDLE_MS without a group command

Ids    == 1 .. MaxEntries
Lanes  == {"ordered", "concurrent", "note"}
Shape  == [lane : Lanes, hint : Hints \cup {NoHint}]
Causes == {"none", "departure", "reap", "claim"}
Modes  == {"all", "include", "exclude"}
Config == [mode : Modes, hints : SUBSET Hints]

ASSUME NodesAssumption    == NoNode \notin Nodes
ASSUME HintsAssumption    == NoHint \notin Hints
ASSUME ExposureAssumption == Exposure \in [Nodes -> SUBSET Config]
ASSUME ShapesAssumption   == Shapes \subseteq Shape /\ Shapes # {}
ASSUME BoundsAssumption   ==
    /\ Sleepers \subseteq Nodes
    /\ MaxEntries \in Nat /\ MaxLen \in Nat /\ MaxFaults \in Nat
    /\ BatchSize \in Nat \ {0} /\ ReclaimBatch \in Nat \ {0}

VARIABLES
    \* the stream and its group, in ValKey
    shape,      \* shape[i]: lane of the command in entry i and its hint, once written
    tail,       \* the last entry written
    first,      \* the oldest entry XTRIM has kept
    grouped,    \* the group exists
    lastDel,    \* last-delivered-id of the group
    pel,        \* pel[i]: consumer that holds entry i pending, or NoNode
    idle,       \* pending entries idle for RECLAIM_MIN_IDLE_MS
    members,    \* consumers registered in the group
    quiet,      \* consumers idle for REAP_IDLE_MS
    \* the nodes
    st,         \* where the worker thread is
    stop,       \* the node's shutdown flag
    todo,       \* entries of the batch still to be dispatched
    toAck,      \* ids_to_ack of the batch
    tasks,      \* concurrent-lane tasks of the process, spawned and running
    claim,      \* claimable entries found by a reclaim pass
    reap,       \* empty idle consumers found by a reap pass
    \* history, read by the properties only
    runs,       \* runs[i]: executions of entry i
    runner,     \* runner[i]: the node that executed it last
    replied,    \* entries whose reply key was written
    seen,       \* entries the group has delivered
    gone,       \* gone[i]: what removed i from the PEL without an XACK
    faults      \* crashes and shutdown requests so far

stream  == <<shape, tail>>
group   == <<pel, idle, gone>>
roster  == <<members, quiet>>
cursor  == <<grouped, lastDel, seen>>
local   == <<todo, toAck, tasks, claim, reap>>
effects == <<runs, runner, replied>>
vars == <<shape, tail, first, grouped, lastDel, pel, idle, members, quiet, st, stop,
          todo, toAck, tasks, claim, reap, runs, runner, replied, seen, gone, faults>>

-----------------------------------------------------------------------------
(* Exposure: routing_config.rs.                                            *)

\* RoutingConfig::should_process_message
Accepts(c, h) ==
    \/ c.mode = "all"
    \/ c.mode = "include" /\ h # NoHint /\ h \in c.hints
    \/ c.mode = "exclude" /\ (h = NoHint \/ h \notin c.hints)

\* ExposureSet::should_process_message: the union of the members.
Exposed(n, h) == \E c \in Exposure[n] : Accepts(c, h)

IsCommand(i) == shape[i].lane # "note"

\* What filter_commands_by_node_type lets through to the dispatcher.
Mine(n, i) == IsCommand(i) /\ Exposed(n, shape[i].hint)

-----------------------------------------------------------------------------
(* Operators on the stream and the group.                                  *)

Max2(a, b) == IF a >= b THEN a ELSE b
Min2(a, b) == IF a <= b THEN a ELSE b

Pending == {i \in Ids : pel[i] # NoNode}
Held(n) == {i \in Ids : pel[i] = n}

\* XREADGROUP with ">": the entries after the group's cursor, oldest first.
NextUnread_Cursorless == first
NextUnread   == Max2(lastDel + 1, first)
Delivery     == NextUnread .. Min2(tail, NextUnread + BatchSize - 1)

\* XPENDING IDLE - + COUNT: the oldest ReclaimBatch idle entries, whoever holds them.
IdlePending == {i \in idle : pel[i] # NoNode}
Window      == {i \in IdlePending : Cardinality({j \in IdlePending : j < i}) < ReclaimBatch}

\* The entries of a pass that n may take: not its own, still in the stream, exposed.
Claimable_Unfiltered(n) == {i \in Window : pel[i] # n /\ i >= first}
Claimable(n) == {i \in Window : pel[i] # n /\ i >= first /\ Exposed(n, shape[i].hint)}

\* XGROUP DELCONSUMER: the consumer leaves the group and its pending entries are discarded.
DelConsumer(m, cause) ==
    /\ pel'  = [i \in Ids |-> IF pel[i] = m THEN NoNode ELSE pel[i]]
    /\ idle' = {i \in idle : pel[i] # m}
    /\ gone' = [i \in Ids |-> IF pel[i] = m THEN cause ELSE gone[i]]
    /\ members' = members \ {m}
    /\ quiet' = quiet \ {m}

\* The consumer names itself in a group command: it is registered and active.
Attend(n) ==
    /\ members' = members \cup {n}
    /\ quiet' = quiet \ {n}

-----------------------------------------------------------------------------
Init ==
    /\ shape = [i \in Ids |-> CHOOSE s \in Shapes : TRUE]
    /\ tail = 0 /\ first = 1
    /\ grouped = FALSE /\ lastDel = 0
    /\ pel = [i \in Ids |-> NoNode] /\ idle = {} /\ gone = [i \in Ids |-> "none"]
    /\ members = {} /\ quiet = {}
    /\ st = [n \in Nodes |-> "off"] /\ stop = [n \in Nodes |-> FALSE]
    /\ todo  = [n \in Nodes |-> {}] /\ toAck = [n \in Nodes |-> {}]
    /\ tasks = [n \in Nodes |-> {}] /\ claim = [n \in Nodes |-> {}]
    /\ reap  = [n \in Nodes |-> {}]
    /\ runs = [i \in Ids |-> 0] /\ runner = [i \in Ids |-> NoNode]
    /\ replied = {} /\ seen = {} /\ faults = 0

-----------------------------------------------------------------------------
(* Clients and the passing of time.                                        *)

\* A client writes the next entry.
Submit ==
    /\ tail < MaxEntries
    /\ tail' = tail + 1
    /\ \E s \in Shapes : shape' = [shape EXCEPT ![tail + 1] = s]
    /\ UNCHANGED <<first, cursor, group, roster, st, stop, local, effects, faults>>

\* A pending entry has not been delivered or claimed for RECLAIM_MIN_IDLE_MS.
Age(i) ==
    /\ pel[i] # NoNode /\ i \notin idle
    /\ idle' = idle \cup {i}
    /\ UNCHANGED <<stream, first, cursor, pel, gone, roster, st, stop, local, effects, faults>>

\* A consumer has not touched the group for REAP_IDLE_MS: it is gone, or its host slept.
Quiesce(m) ==
    /\ m \in (members \cap Sleepers) \ quiet
    /\ quiet' = quiet \cup {m}
    /\ UNCHANGED <<stream, first, cursor, group, members, st, stop, local, effects, faults>>

-----------------------------------------------------------------------------
(* The life of a worker thread.                                            *)

\* ensure_consumer_group(.., start_from_beginning = false) creates the group at "$".
GroupStart_Recreated == 0
GroupStart == IF grouped THEN lastDel ELSE tail

Start(n) ==
    /\ st[n] = "off"
    /\ st' = [st EXCEPT ![n] = "idle"]
    /\ grouped' = TRUE
    /\ lastDel' = GroupStart
    /\ UNCHANGED <<stream, first, seen, group, roster, stop, local, effects, faults>>

RequestShutdown(n) ==
    /\ st[n] \notin {"off", "left"} /\ ~stop[n] /\ faults < MaxFaults
    /\ stop' = [stop EXCEPT ![n] = TRUE]
    /\ faults' = faults + 1
    /\ UNCHANGED <<stream, first, cursor, group, roster, st, local, effects>>

\* The loop sees the flag and departs: DELCONSUMER, unconditionally.  (When there is
\* no connection for it the thread just ends, which Exit covers.)
Depart(n) ==
    /\ st[n] = "idle" /\ stop[n]
    /\ st' = [st EXCEPT ![n] = "left"]
    /\ DelConsumer(n, "departure")
    /\ UNCHANGED <<stream, first, cursor, stop, local, effects, faults>>

\* The process is gone, and with it everything it held in memory.
Halt(n) ==
    /\ st'    = [st EXCEPT ![n] = "off"]
    /\ stop'  = [stop EXCEPT ![n] = FALSE]
    /\ todo'  = [todo EXCEPT ![n] = {}]
    /\ toAck' = [toAck EXCEPT ![n] = {}]
    /\ tasks' = [tasks EXCEPT ![n] = {}]
    /\ claim' = [claim EXCEPT ![n] = {}]
    /\ reap'  = [reap EXCEPT ![n] = {}]
    /\ UNCHANGED <<stream, first, cursor, group, roster, effects>>

\* The main thread does not join the stream worker: after a shutdown request the
\* process may exit wherever that worker is.  A crash needs no request.
Exit(n)  == st[n] # "off" /\ stop[n] /\ Halt(n) /\ UNCHANGED faults
Crash(n) ==
    /\ st[n] # "off" /\ ~stop[n] /\ faults < MaxFaults
    /\ Halt(n)
    /\ faults' = faults + 1

-----------------------------------------------------------------------------
(* One iteration of the loop: read, dispatch, acknowledge.                 *)

\* read_multi_stream, then filter_commands_by_node_type: what the node does not
\* accept stays pending and unacknowledged, what is no command is acknowledged.
AckSet_Skipped(n, batch) == batch
AckSet(n, batch) == {i \in batch : Mine(n, i) \/ ~IsCommand(i)}

Read(n) ==
    /\ st[n] = "idle" /\ grouped
    /\ Delivery # {}
    /\ st'    = [st EXCEPT ![n] = "busy"]
    /\ todo'  = [todo EXCEPT ![n] = {i \in Delivery : Mine(n, i)}]
    /\ toAck' = [toAck EXCEPT ![n] = AckSet(n, Delivery)]
    /\ pel'   = [i \in Ids |-> IF i \in Delivery THEN n ELSE pel[i]]
    /\ idle'  = idle \ Delivery
    /\ lastDel' = Min2(tail, NextUnread + BatchSize - 1)
    /\ seen'  = seen \cup Delivery
    /\ Attend(n)
    /\ UNCHANGED <<stream, first, grouped, gone, stop, tasks, claim, reap, effects, faults>>

\* The handler of entry i ran in node n; the SET of the reply key may have failed,
\* which is only logged.
Executed(n, i) ==
    /\ runs'    = [runs EXCEPT ![i] = @ + 1]
    /\ runner'  = [runner EXCEPT ![i] = n]
    /\ replied' \in {replied, replied \cup {i}}

\* process_command_batch takes the commands in the order they were read.
Oldest_Newest(n, i) == i \in todo[n] /\ \A j \in todo[n] : i >= j
Oldest(n, i) == i \in todo[n] /\ \A j \in todo[n] : i <= j

\* The handler runs inline: an ordered-lane command, and a concurrent-lane one that
\* cannot be spawned.
DispatchInline(n, i) ==
    /\ st[n] = "busy" /\ Oldest(n, i)
    /\ todo' = [todo EXCEPT ![n] = @ \ {i}]
    /\ Executed(n, i)
    /\ UNCHANGED <<stream, first, cursor, group, roster, st, stop, toAck, tasks, claim, reap, faults>>

\* Concurrent lane: the command is handed to the runtime, fire and forget.
DispatchConcurrent(n, i) ==
    /\ st[n] = "busy" /\ Oldest(n, i)
    /\ shape[i].lane = "concurrent"
    /\ todo'  = [todo EXCEPT ![n] = @ \ {i}]
    /\ tasks' = [tasks EXCEPT ![n] = @ \cup {i}]
    /\ UNCHANGED <<stream, first, cursor, group, roster, st, stop, toAck, claim, reap, effects, faults>>

\* concurrent_lane::dispatch: no connection drops the command, else the handler runs.
TaskRun(n, i) ==
    /\ i \in tasks[n]
    /\ tasks' = [tasks EXCEPT ![n] = @ \ {i}]
    /\ Executed(n, i)
    /\ UNCHANGED <<stream, first, cursor, group, roster, st, stop, todo, toAck, claim, reap, faults>>

TaskDrop(n, i) ==
    /\ i \in tasks[n]
    /\ tasks' = [tasks EXCEPT ![n] = @ \ {i}]
    /\ UNCHANGED <<stream, first, cursor, group, roster, st, stop, todo, toAck, claim, reap, effects, faults>>

\* XACK of ids_to_ack, whoever owns them by now; its failure is only logged.
AckReady_Early(n) == st[n] = "busy"
AckReady(n) == st[n] = "busy" /\ todo[n] = {}

Acknowledge(n) ==
    /\ AckReady(n)
    /\ st'    = [st EXCEPT ![n] = "idle"]
    /\ toAck' = [toAck EXCEPT ![n] = {}]
    /\ todo'  = [todo EXCEPT ![n] = {}]
    /\ \/ /\ pel'  = [i \in Ids |-> IF i \in toAck[n] THEN NoNode ELSE pel[i]]
          /\ idle' = idle \ toAck[n]
       \/ UNCHANGED <<pel, idle>>
    /\ UNCHANGED <<stream, first, cursor, gone, roster, stop, tasks, claim, reap, effects, faults>>

\* trim_unified_stream; "~" lets ValKey keep more than MaxLen.
TrimTo == first + 1 .. (tail + 1) - MaxLen

Trim(n) ==
    /\ st[n] = "idle"
    /\ first' \in TrimTo
    /\ UNCHANGED <<stream, cursor, group, roster, st, stop, local, effects, faults>>

-----------------------------------------------------------------------------
(* Recovery passes: reclaim_exposed_pending_messages, reap_stale_consumers. *)

\* XPENDING and XRANGE only read; nothing moves yet.
ReclaimScan(n) ==
    /\ st[n] = "idle" /\ grouped
    /\ Claimable(n) # {}
    /\ st'    = [st EXCEPT ![n] = "claiming"]
    /\ claim' = [claim EXCEPT ![n] = Claimable(n)]
    /\ UNCHANGED <<stream, first, cursor, group, roster, stop, todo, toAck, tasks, reap, effects, faults>>

\* XCLAIM checks the idle time again, and drops from the PEL what was trimmed since.
\* The rows it returns are counted, not processed.
Claimed(n) == {i \in claim[n] : pel[i] # NoNode /\ i \in idle /\ i >= first}
Phantom(n) == {i \in claim[n] : pel[i] # NoNode /\ i < first}

ReclaimTake(n) ==
    /\ st[n] = "claiming"
    /\ pel'  = [i \in Ids |-> IF i \in Claimed(n) THEN n
                              ELSE IF i \in Phantom(n) THEN NoNode ELSE pel[i]]
    /\ idle' = idle \ (Claimed(n) \cup Phantom(n))
    /\ gone' = [i \in Ids |-> IF i \in Phantom(n) THEN "claim" ELSE gone[i]]
    /\ Attend(n)
    /\ st'    = [st EXCEPT ![n] = "idle"]
    /\ claim' = [claim EXCEPT ![n] = {}]
    /\ UNCHANGED <<stream, first, cursor, stop, todo, toAck, tasks, reap, effects, faults>>

\* XINFO CONSUMERS: the others that hold nothing and have been idle long enough.
Reapable(n) == {m \in quiet \ {n} : Held(m) = {}}

ReapScan(n) ==
    /\ st[n] = "idle" /\ grouped
    /\ Reapable(n) # {}
    /\ st'   = [st EXCEPT ![n] = "reaping"]
    /\ reap' = [reap EXCEPT ![n] = Reapable(n)]
    /\ UNCHANGED <<stream, first, cursor, group, roster, stop, todo, toAck, tasks, claim, effects, faults>>

\* One DELCONSUMER per consumer of the snapshot, which may have become active since.
ReapOne(n, m) ==
    /\ st[n] = "reaping" /\ m \in reap[n]
    /\ DelConsumer(m, "reap")
    /\ reap' = [reap EXCEPT ![n] = @ \ {m}]
    /\ st'   = IF reap[n] = {m} THEN [st EXCEPT ![n] = "idle"] ELSE st
    /\ UNCHANGED <<stream, first, cursor, stop, todo, toAck, tasks, claim, effects, faults>>

-----------------------------------------------------------------------------
NodeStep(n) ==
    \/ Start(n) \/ RequestShutdown(n) \/ Depart(n) \/ Exit(n) \/ Crash(n)
    \/ Read(n) \/ Acknowledge(n) \/ Trim(n)
    \/ \E i \in Ids : DispatchInline(n, i) \/ DispatchConcurrent(n, i)
    \/ \E i \in Ids : TaskRun(n, i) \/ TaskDrop(n, i)
    \/ ReclaimScan(n) \/ ReclaimTake(n) \/ ReapScan(n)
    \/ \E m \in Nodes : ReapOne(n, m)

Next ==
    \/ Submit
    \/ \E i \in Ids : Age(i)
    \/ \E m \in Nodes : Quiesce(m)
    \/ \E n \in Nodes : NodeStep(n)

Spec == Init /\ [][Next]_vars

\* The loop comes round to every step of its iteration, the runtime polls its tasks
\* and time passes; nothing obliges a crashed node to start again.
Fairness ==
    /\ \A i \in Ids : WF_vars(Age(i))
    /\ \A n \in Nodes :
         /\ WF_vars(\E i \in Ids : DispatchInline(n, i) \/ DispatchConcurrent(n, i))
         /\ WF_vars(Acknowledge(n)) /\ WF_vars(ReclaimTake(n))
         /\ WF_vars(\E m \in Nodes : ReapOne(n, m))
         /\ WF_vars(\E i \in Ids : TaskRun(n, i) \/ TaskDrop(n, i))
         /\ SF_vars(Read(n)) /\ SF_vars(ReclaimScan(n))
         /\ SF_vars(Depart(n))

FairSpec == Spec /\ Fairness

-----------------------------------------------------------------------------
(* Properties.                                                             *)

TypeOK ==
    /\ shape \in [Ids -> Shapes]
    /\ tail \in 0 .. MaxEntries /\ first \in 1 .. tail + 1
    /\ grouped \in BOOLEAN /\ lastDel \in 0 .. tail
    /\ pel \in [Ids -> Nodes \cup {NoNode}] /\ idle \subseteq Ids
    /\ gone \in [Ids -> Causes]
    /\ members \subseteq Nodes /\ quiet \subseteq members
    /\ st \in [Nodes -> {"off", "idle", "busy", "claiming", "reaping", "left"}]
    /\ stop \in [Nodes -> BOOLEAN]
    /\ todo \in [Nodes -> SUBSET Ids] /\ toAck \in [Nodes -> SUBSET Ids]
    /\ tasks \in [Nodes -> SUBSET Ids] /\ claim \in [Nodes -> SUBSET Ids]
    /\ reap \in [Nodes -> SUBSET Nodes]
    /\ runs \in [Ids -> Nat] /\ runner \in [Ids -> Nodes \cup {NoNode}]
    /\ replied \subseteq Ids /\ seen \subseteq Ids
    /\ faults \in 0 .. MaxFaults

\* A node's batch and its concurrent tasks: what it has yet to execute.
InHand(n) == todo[n] \cup tasks[n]

\* No command is executed twice, whatever crashes, restarts, reclaim and reap
\* passes happen between its delivery and its acknowledgement: a reclaimed entry,
\* a slow handler whose entry was reclaimed, and a restarted consumer that still
\* owns entries never lead to a second run.
AtMostOnce == \A i \in Ids : runs[i] <= 1

\* An ordered-lane command that left the pending list by an XACK has been executed:
\* the batch is acknowledged after it is dispatched, and what was skipped is not
\* acknowledged with it, even when another node reclaimed or reaped entries of the
\* batch in the meantime.
AcknowledgedMeansExecuted ==
    \A i \in seen :
        (pel[i] = NoNode /\ gone[i] = "none" /\ shape[i].lane = "ordered") => runs[i] = 1

\* Ownership of a pending entry moves from one consumer to another only when the
\* new owner's exposure accepts the entry and the entry is no longer being worked
\* on within the idle threshold (inspect before claiming).
OwnershipMovesToExposed ==
    [][\A i \in Ids :
        (pel[i] # NoNode /\ pel'[i] # NoNode /\ pel'[i] # pel[i])
            => Exposed(pel'[i], shape[i].hint) /\ i \in idle]_vars

\* One node executes the ordered-lane commands of a stream in stream order, across
\* batches, crashes and restarts.
OrderedLaneInOrder ==
    [][\A i, j \in Ids :
        (/\ runs'[i] # runs[i] /\ shape[i].lane = "ordered"
         /\ runs[j] > 0 /\ shape[j].lane = "ordered" /\ runner[j] = runner'[i])
            => j < i]_vars

\* The abstract fate of an entry: a command is open while some node may still
\* execute it.
Reachable(i) ==
    \/ i >= first /\ (grouped => i > lastDel)
    \/ \E n \in Nodes : i \in InHand(n)

fate == [i \in Ids |->
    IF i > tail \/ ~IsCommand(i) THEN "absent"
    ELSE IF i \in replied THEN "answered"
    ELSE IF runs[i] > 0 THEN "executed"
    ELSE IF Reachable(i) THEN "open" ELSE "lost"]

Queue == INSTANCE AtMostOnceQueue

\* The group implements the at-most-once queue: a delivered command that its node
\* does not execute (skipped, crashed, dropped) is never executed later.
ImplementsQueue == Queue!Spec

\* Liveness.  A command every node accepts, written once the group exists, is
\* executed when no node fails: no recovery pass starves or steals it.
Serviceable(i) ==
    /\ grouped /\ lastDel < i /\ i <= tail /\ shape[i].lane = "ordered"
    /\ \A n \in Nodes : Exposed(n, shape[i].hint)
    /\ \E n \in Nodes : st[n] # "off"
EventuallyExecuted == \A i \in Ids : Serviceable(i) ~> runs[i] = 1

\* consumer_groups.rs:8-14 and 1381-1384: an entry whose owner stopped is recovered
\* by a live node, so its caller does not wait forever.
Orphan(i) ==
    /\ pel[i] # NoNode /\ st[pel[i]] = "off" /\ runs[i] = 0
    /\ shape[i].lane = "ordered"
    /\ \E n \in Nodes : st[n] # "off" /\ ~stop[n] /\ Exposed(n, shape[i].hint)
OrphansRecovered == \A i \in Ids : Orphan(i) ~> (runs[i] = 1 \/ \A n \in Nodes : st[n] = "off")

=============================================================================
