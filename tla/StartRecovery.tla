----------------------------- MODULE StartRecovery -----------------------------
(* How a daemon comes to serve its own stream, and what it does when it    *)
(* cannot: start_stream_processor (daemon.rs) makes the stream and its     *)
(* group and starts the worker; when that fails it runs                    *)
(* recovery_processor.rs once, which repairs, takes over what is pending   *)
(* in the group, runs and acknowledges it (pending_processor.rs), and      *)
(* leaves the daemon without a worker until it is restarted.  A serving    *)
(* worker is kept as short as recovery sees it: EnvironmentWorker has the  *)
(* rest.  EntryNos are numbered in the order of the stream.                 *)
EXTENDS Naturals, FiniteSets

CONSTANTS
    Daemons,        \* nodes that share the stream
    Nobody,         \* model value: the holder of what is not pending
    ClaimCount,     \* entries one recovery takes over (100)
    MaxAttempts,    \* MAX_DELIVERY_ATTEMPTS (5)
    MaxEntries,     \* bound: entries written
    MaxFailures,    \* bound: calls that fail
    MaxBoots        \* bound: starts of processes

ASSUME RecoveryAssumption ==
    /\ Nobody \notin Daemons /\ IsFiniteSet(Daemons) /\ ClaimCount \in Nat \ {0} /\ MaxAttempts \in Nat
    /\ MaxEntries \in Nat /\ MaxFailures \in Nat /\ MaxBoots \in Nat

VARIABLES
    exists, hasGroup, strays,   \* the stream, its group gnode-workers, other streams recovery made
    written, malformed, cursor, \* entries in the stream, those that do not parse, last one delivered
    holder, deliveries,               \* who holds an entry as pending, its delivery count
    post, haul, done,          \* a daemon: where it is, entries it has to run, entries to acknowledge
    recovered,                  \* what the recovery of a daemon returned
    ran, acked,                 \* history: runs of an entry, acknowledged entries
    failures, boots             \* bounds

group   == <<hasGroup, cursor, holder, deliveries>>
stream  == <<exists, strays, written, malformed>>
daemon  == <<post, haul, done, recovered>>
history == <<ran, acked>>
recoveryVars == <<stream, group, daemon, history, failures, boots>>

EntryNos    == 1 .. MaxEntries
Fails      == failures < MaxFailures /\ failures' = failures + 1
TurnsTo(d, p) == post' = [post EXCEPT ![d] = p]
Pending    == {e \in EntryNos : holder[e] # Nobody}

\* Makes the stream if there is none, and the group unless it is there, at entry "from".
MakeGroup(from) ==
    /\ exists' = TRUE /\ hasGroup' = TRUE
    /\ cursor' = IF hasGroup THEN cursor ELSE from
    /\ UNCHANGED <<holder, deliveries, strays, written, malformed>>

RecoveryInit ==
    /\ exists = FALSE /\ hasGroup = FALSE /\ strays = {}
    /\ written = 0 /\ malformed \in SUBSET EntryNos /\ cursor = 0
    /\ holder = [e \in EntryNos |-> Nobody] /\ deliveries = [e \in EntryNos |-> 0]
    /\ post = [d \in Daemons |-> "down"]
    /\ haul = [d \in Daemons |-> {}] /\ done = [d \in Daemons |-> {}]
    /\ recovered = [d \in Daemons |-> "none"]
    /\ ran = [e \in EntryNos |-> 0] /\ acked = {}
    /\ failures = 0 /\ boots = 0

-----------------------------------------------------------------------------
(* Clients, and processes that come and go.                                *)

Submit ==
    /\ written < MaxEntries /\ written' = written + 1 /\ exists' = TRUE
    /\ UNCHANGED <<strays, malformed, group, daemon, history, failures, boots>>

Boot(d) ==
    /\ post[d] = "down" /\ boots < MaxBoots /\ boots' = boots + 1
    /\ TurnsTo(d, "starting") /\ recovered' = [recovered EXCEPT ![d] = "none"]
    /\ UNCHANGED <<stream, group, haul, done, history, failures>>

Crash(d) ==
    /\ post[d] # "down" /\ TurnsTo(d, "down")
    /\ haul' = [haul EXCEPT ![d] = {}] /\ done' = [done EXCEPT ![d] = {}]
    /\ UNCHANGED <<stream, group, recovered, history, failures, boots>>

-----------------------------------------------------------------------------
(* start_stream_processor.                                                 *)

\* initialize_environment_streams: the stream, and the group at its end.
Initialised(d) ==
    /\ post[d] = "starting" /\ TurnsTo(d, "serving")
    /\ MakeGroup(written)
    /\ UNCHANGED <<haul, done, recovered, history, failures, boots>>

\* It fails at its first call, before the group, or after it on the health stream.
InitialiseFails(d) ==
    /\ post[d] = "starting" /\ Fails /\ TurnsTo(d, "repairing")
    /\ \/ UNCHANGED <<stream, group>>
       \/ exists' = TRUE /\ UNCHANGED <<strays, written, malformed, group>>
       \/ MakeGroup(written)
    /\ UNCHANGED <<haul, done, recovered, history, boots>>

-----------------------------------------------------------------------------
(* A serving worker: reads, runs and acknowledges; what does not parse is   *)
(* acknowledged with the batch.                                            *)

Receive(d) ==
    /\ post[d] = "serving" /\ haul[d] = {} /\ done[d] = {}
    /\ hasGroup /\ cursor < written
    /\ LET e == cursor + 1 IN
       /\ cursor' = e
       /\ holder' = [holder EXCEPT ![e] = d] /\ deliveries' = [deliveries EXCEPT ![e] = @ + 1]
       /\ haul' = [haul EXCEPT ![d] = {e} \ malformed]
       /\ done' = [done EXCEPT ![d] = {e} \cap malformed]
    /\ UNCHANGED <<stream, hasGroup, post, recovered, history, failures, boots>>

-----------------------------------------------------------------------------
(* Recovery.                                                               *)

\* repair_stream initialises a stream named after the node, not the one that is missing,
\* or sees to a group gnode-daemon, which no worker of the environment reads; its
\* errors, and those of getting a connection, go by.
Repair(d) ==
    /\ post[d] = "repairing" /\ TurnsTo(d, "recovering")
    /\ \/ strays' = strays \cup {d} /\ UNCHANGED <<exists, failures>>
       \/ exists /\ UNCHANGED <<strays, exists, failures>>
       \/ Fails /\ UNCHANGED <<strays, exists>>
    /\ UNCHANGED <<written, malformed, group, haul, done, recovered, history, boots>>

Returns(d, verdict) == TurnsTo(d, "idle") /\ recovered' = [recovered EXCEPT ![d] = verdict]

\* recover_from_restart without the stream: it initialises the one named after the last
\* part of the key, "unified", and has nothing to recover.
RecoverMissing(d) ==
    /\ post[d] = "recovering" /\ ~exists
    /\ Returns(d, "ok") /\ strays' = strays \cup {"unified"}
    /\ UNCHANGED <<exists, written, malformed, group, haul, done, history, failures, boots>>

\* With the stream: the group is made at its beginning if there is none.
RecoverGroup(d) ==
    /\ post[d] = "recovering" /\ exists /\ TurnsTo(d, "listing")
    /\ MakeGroup(0)
    /\ UNCHANGED <<haul, done, recovered, history, failures, boots>>

\* EXISTS, XINFO GROUPS (whose integers the requested type may refuse) or XGROUP fails.
RecoverFails(d) ==
    /\ post[d] \in {"recovering", "listing", "claiming"} /\ Fails
    /\ Returns(d, "error") /\ haul' = [haul EXCEPT ![d] = {}]
    /\ UNCHANGED <<stream, group, done, history, boots>>

\* claim_pending_messages: XPENDING lists the oldest entries, whoever holds them.
Oldest(n) == {e \in Pending : Cardinality({f \in Pending : f < e}) < n}
ListPending(d) ==
    /\ post[d] = "listing"
    /\ haul' = [haul EXCEPT ![d] = Oldest(ClaimCount)]
    /\ IF Pending = {} THEN Returns(d, "ok") ELSE TurnsTo(d, "claiming") /\ UNCHANGED recovered
    /\ UNCHANGED <<stream, group, done, history, failures, boots>>

\* XCLAIM with no idle time takes what is still pending from anybody; what does not parse
\* is left, or evicted when it has been delivered too often.
TriesAfterClaim(e) == deliveries[e] + 1
Evictable_Worn(e) == TriesAfterClaim(e) > MaxAttempts
Evictable(e) == e \in malformed /\ TriesAfterClaim(e) > MaxAttempts
ClaimPending(d) ==
    /\ post[d] = "claiming"
    /\ LET taken   == haul[d] \cap Pending
           evicted == {e \in taken : Evictable(e)}
       IN
       /\ holder' = [e \in EntryNos |-> IF e \in evicted THEN Nobody
                                      ELSE IF e \in taken THEN d ELSE holder[e]]
       /\ deliveries' = [e \in EntryNos |-> IF e \in taken THEN TriesAfterClaim(e) ELSE deliveries[e]]
       /\ acked' = acked \cup evicted
       /\ haul' = [haul EXCEPT ![d] = taken \ malformed]
    /\ TurnsTo(d, "recovered")
    /\ UNCHANGED <<stream, hasGroup, cursor, done, recovered, ran, failures, boots>>

-----------------------------------------------------------------------------
(* Running and acknowledging, in both, in the order of the stream.  A      *)
(* response that cannot be sent changes nothing here.                      *)

Execute(d) ==
    /\ post[d] \in {"serving", "recovered"}
    /\ \E e \in haul[d] :
        /\ \A f \in haul[d] : e <= f
        /\ ran' = [ran EXCEPT ![e] = @ + 1]
        /\ haul' = [haul EXCEPT ![d] = @ \ {e}]
        /\ done' = [done EXCEPT ![d] = @ \cup {e}]
    /\ UNCHANGED <<stream, group, post, recovered, acked, failures, boots>>

\* The batch is acknowledged once all of it has run; that may fail, and is only logged.
AllRan(d) == haul[d] = {} /\ (post[d] = "recovered" \/ done[d] # {})
Settled(d) ==
    /\ done' = [done EXCEPT ![d] = {}]
    /\ IF post[d] = "recovered" THEN Returns(d, "ok") ELSE UNCHANGED <<post, recovered>>

Acknowledge(d) ==
    /\ AllRan(d)
    /\ holder' = [e \in EntryNos |-> IF e \in done[d] THEN Nobody ELSE holder[e]]
    /\ acked' = acked \cup done[d]
    /\ Settled(d)
    /\ UNCHANGED <<stream, hasGroup, cursor, deliveries, haul, ran, failures, boots>>

AcknowledgeFails(d) ==
    /\ AllRan(d) /\ done[d] # {} /\ Fails
    /\ Settled(d)
    /\ UNCHANGED <<stream, group, haul, history, boots>>

RecoveryNext ==
    \/ Submit
    \/ \E d \in Daemons :
        \/ Boot(d) \/ Crash(d) \/ Initialised(d) \/ InitialiseFails(d) \/ Receive(d)
        \/ Repair(d) \/ RecoverMissing(d) \/ RecoverGroup(d) \/ RecoverFails(d)
        \/ ListPending(d) \/ ClaimPending(d)
        \/ Execute(d) \/ Acknowledge(d) \/ AcknowledgeFails(d)

RecoverySpec == RecoveryInit /\ [][RecoveryNext]_recoveryVars

-----------------------------------------------------------------------------
(* Properties.                                                             *)

RecoveryTypeOK ==
    /\ {exists, hasGroup} \subseteq BOOLEAN /\ strays \subseteq Daemons \cup {"unified"}
    /\ written \in 0 .. MaxEntries /\ malformed \in SUBSET EntryNos /\ cursor \in 0 .. written
    /\ holder \in [EntryNos -> Daemons \cup {Nobody}] /\ deliveries \in [EntryNos -> Nat]
    /\ post \in [Daemons -> {"down", "starting", "serving", "repairing", "recovering",
                              "listing", "claiming", "recovered", "idle"}]
    /\ haul \in [Daemons -> SUBSET EntryNos] /\ done \in [Daemons -> SUBSET EntryNos]
    /\ recovered \in [Daemons -> {"none", "ok", "error"}]
    /\ ran \in [EntryNos -> Nat] /\ acked \in SUBSET EntryNos

\* pending_processor.rs: what leaves the pending list was run, or does not parse: neither a
\* crash, a takeover in the middle of a batch nor an eviction drops a command.
NothingDropped == \A e \in acked : ran[e] > 0 \/ e \in malformed

\* A live worker and any number of recoveries share one pending list: an entry is run at
\* most once for each time it was handed out, so the delivery count bounds its runs.
OncePerDelivery == \A e \in EntryNos : ran[e] <= deliveries[e]

\* Nothing leaves the pending list unrun, and nothing runs that was not handed out for it.
RunAsDelivered == NothingDropped /\ OncePerDelivery

=============================================================================
