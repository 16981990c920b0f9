------------------------------ MODULE DaemonLife ------------------------------
(* The life of a node's daemon after its start, as the keys tell of it: a  *)
(* process writes its PID and a heartbeat, each with a time to live, looks *)
(* after both once a turn of its main loop (daemon.rs, heartbeat.rs), and  *)
(* withdraws the PID when a signal has ended the loop; the stop command    *)
(* reads the PID, signals it and deletes the key (main.rs).  In the        *)
(* single-threaded mode the main loop is another one (worker.rs), which    *)
(* looks after neither.  Nothing keeps a second process of the same name   *)
(* from being started.                                                     *)
EXTENDS Naturals, FiniteSets

CONSTANTS
    Processes,      \* processes of the daemon of one node
    NoProcess,      \* model value: no PID key
    Ttl,            \* 120 s
    Period,         \* a turn of the main loop: 60 s of sleep, and what its work takes
    MaxMisses       \* bound: writes that fail

\* Two turns take longer than the time to live: that is exactly two sleeps.
ASSUME LifeAssumption ==
    /\ NoProcess \notin Processes /\ {Ttl, Period, MaxMisses} \subseteq Nat
    /\ Period < Ttl /\ Ttl < 2 * Period

VARIABLES
    pidKey, pidLeft, beatLeft,  \* ValKey: the PID, how long it and the heartbeat have left
    stand, mode, term, timer,   \* a process: where it is, its mode, SHUTDOWN_REQUESTED, time since its turn
    stopping, target,           \* the stop command: where it is, the PID it has read
    launched, stops,            \* history: processes started, stop commands
    listedOk, beatOk,           \* history: no write of the PID failed, the last one of the heartbeat did not
    misses                      \* bound

lifeKeys  == <<pidKey, pidLeft, beatLeft>>
processes == <<stand, mode, term, timer>>
stopper   == <<stopping, target>>
lifePast  == <<launched, stops, listedOk, beatOk>>
lifeVars  == <<lifeKeys, processes, stopper, lifePast, misses>>

Miss         == misses < MaxMisses /\ misses' = misses + 1
StandsAt(p, place) == stand' = [stand EXCEPT ![p] = place]
Alive(p)     == stand[p] \notin {"new", "gone"}
Restart(p)   == timer' = [timer EXCEPT ![p] = 0]

LifeInit ==
    /\ pidKey = NoProcess /\ pidLeft = 0 /\ beatLeft = 0
    /\ stand = [p \in Processes |-> "new"] /\ mode \in [Processes -> {"multi", "single"}]
    /\ term = [p \in Processes |-> FALSE] /\ timer = [p \in Processes |-> 0]
    /\ stopping = "idle" /\ target = NoProcess
    /\ launched = {} /\ stops = 0 /\ listedOk = TRUE /\ beatOk = FALSE /\ misses = 0

\* Signal handlers are set before anything is written.
Launch(p) ==
    /\ stand[p] = "new" /\ StandsAt(p, "register") /\ launched' = launched \cup {p}
    /\ UNCHANGED <<lifeKeys, mode, term, timer, stopper, stops, listedOk, beatOk, misses>>

\* SETEX of the PID; it is not tried again.
WritePid(p) ==
    /\ stand[p] = "register" /\ StandsAt(p, "first beat")
    /\ \/ pidKey' = p /\ pidLeft' = Ttl /\ UNCHANGED <<listedOk, misses>>
       \/ Miss /\ listedOk' = FALSE /\ UNCHANGED <<pidKey, pidLeft>>
    /\ UNCHANGED <<beatLeft, mode, term, timer, stopper, launched, stops, beatOk>>

BeatTtl      == Ttl
Beat ==
    \/ beatLeft' = BeatTtl /\ beatOk' = TRUE /\ UNCHANGED misses
    \/ Miss /\ beatOk' = FALSE /\ UNCHANGED beatLeft

FirstBeat(p) ==
    /\ stand[p] = "first beat" /\ StandsAt(p, "loop") /\ Restart(p) /\ Beat
    /\ UNCHANGED <<pidKey, pidLeft, mode, term, stopper, launched, stops, listedOk>>

\* EXPIRE keeps a key that is there; it makes none.
Refreshed_Late == pidLeft
Refreshed == IF pidLeft > 0 THEN Ttl ELSE 0
RefreshPid(p) ==
    /\ stand[p] = "loop" /\ mode[p] = "multi" /\ timer[p] = Period /\ ~term[p]
    /\ StandsAt(p, "beat")
    /\ \/ pidLeft' = Refreshed /\ UNCHANGED <<listedOk, misses>>
       \/ Miss /\ listedOk' = FALSE /\ UNCHANGED pidLeft
    /\ UNCHANGED <<pidKey, beatLeft, mode, term, timer, stopper, launched, stops, beatOk>>

RefreshBeat(p) ==
    /\ stand[p] = "beat" /\ StandsAt(p, "loop") /\ Restart(p) /\ Beat
    /\ UNCHANGED <<pidKey, pidLeft, mode, term, stopper, launched, stops, listedOk>>

\* Both loops end when the flag is up.
LoopEnds(p) ==
    /\ stand[p] = "loop" /\ term[p] /\ StandsAt(p, "deregister")
    /\ UNCHANGED <<lifeKeys, mode, term, timer, stopper, lifePast, misses>>

\* DEL, whosever PID it is; then the threads are joined and the process ends.
Deregister(p) ==
    /\ stand[p] = "deregister" /\ StandsAt(p, "join")
    /\ \/ pidKey' = NoProcess /\ pidLeft' = 0 /\ UNCHANGED misses
       \/ Miss /\ UNCHANGED <<pidKey, pidLeft>>
    /\ UNCHANGED <<beatLeft, mode, term, timer, stopper, lifePast>>

Joined(p) ==
    /\ stand[p] = "join" /\ StandsAt(p, "gone")
    /\ UNCHANGED <<lifeKeys, mode, term, timer, stopper, lifePast, misses>>

\* SIGTERM raises the flag, once; a crash ends the process where it is.
Terminate(p) ==
    /\ Alive(p) /\ ~term[p] /\ term' = [term EXCEPT ![p] = TRUE]
    /\ UNCHANGED <<lifeKeys, stand, mode, timer, stopper, lifePast, misses>>

CrashProcess(p) ==
    /\ Alive(p) /\ StandsAt(p, "gone")
    /\ UNCHANGED <<lifeKeys, mode, term, timer, stopper, lifePast, misses>>

\* Time passes, but not over a turn that is due.
Idles(p) == stand[p] = "loop" /\ ~term[p] /\ (mode[p] = "single" \/ timer[p] < Period)
Pass ==
    /\ \A p \in Processes : Alive(p) => Idles(p) \/ stand[p] = "join"
    /\ timer' = [p \in Processes |-> IF Alive(p) /\ timer[p] < Period THEN timer[p] + 1 ELSE timer[p]]
    /\ pidLeft' = IF pidLeft > 0 THEN pidLeft - 1 ELSE 0
    /\ pidKey' = IF pidLeft > 1 THEN pidKey ELSE NoProcess
    /\ beatLeft' = IF beatLeft > 0 THEN beatLeft - 1 ELSE 0
    /\ UNCHANGED <<stand, mode, term, stopper, lifePast, misses>>

-----------------------------------------------------------------------------
(* The stop command, on the daemon's host: GET, kill, DEL.                 *)

StopReads ==
    /\ stopping = "idle" /\ stops = 0 /\ pidKey # NoProcess
    /\ stopping' = "kill" /\ target' = pidKey /\ stops' = 1
    /\ UNCHANGED <<lifeKeys, processes, launched, listedOk, beatOk, misses>>

StopKills ==
    /\ stopping = "kill"
    /\ IF Alive(target)
       THEN term' = [term EXCEPT ![target] = TRUE] /\ stopping' = "delete"
       ELSE UNCHANGED term /\ stopping' = "done"
    /\ UNCHANGED <<lifeKeys, stand, mode, timer, target, lifePast, misses>>

StopDeletes ==
    /\ stopping = "delete" /\ stopping' = "done"
    /\ pidKey' = NoProcess /\ pidLeft' = 0
    /\ UNCHANGED <<beatLeft, processes, target, lifePast, misses>>

LifeNext ==
    \/ \E p \in Processes :
        \/ Launch(p) \/ WritePid(p) \/ FirstBeat(p) \/ RefreshPid(p) \/ RefreshBeat(p)
        \/ LoopEnds(p) \/ Deregister(p) \/ Joined(p) \/ Terminate(p) \/ CrashProcess(p)
    \/ Pass
    \/ StopReads \/ StopKills \/ StopDeletes

LifeSpec == LifeInit /\ [][LifeNext]_lifeVars

-----------------------------------------------------------------------------
(* Properties.                                                             *)

LifeTypeOK ==
    /\ pidKey \in Processes \cup {NoProcess} /\ {pidLeft, beatLeft} \subseteq 0 .. Ttl
    /\ (pidKey = NoProcess) <=> (pidLeft = 0)
    /\ stand \in [Processes -> {"new", "register", "first beat", "loop", "beat", "deregister",
                                "join", "gone"}]
    /\ term \in [Processes -> BOOLEAN] /\ timer \in [Processes -> 0 .. Period]
    /\ stopping \in {"idle", "kill", "delete", "done"} /\ target \in Processes \cup {NoProcess}

InLoop(p) == stand[p] \in {"loop", "beat"} /\ mode[p] = "multi" /\ ~term[p]

BeatsWhileUp == beatOk /\ (\E p \in Processes : InLoop(p)) => beatLeft > 0
ListedWhileUp ==
    \A p \in Processes :
        InLoop(p) /\ launched = {p} /\ listedOk /\ stops = 0 => pidKey = p

\* heartbeat.rs, absence means down: unless the last write failed, the heartbeat of a daemon
\* that runs is there at every moment, over the turns of its loop, after writes that failed
\* before, and whatever other processes of its name start, stop and crash.  And daemon.rs:
\* stop and status find it by its PID, at every moment of its loop, as long as no write of
\* it failed, nobody stopped it and nobody had its name.
KnownWhileUp == BeatsWhileUp /\ ListedWhileUp
=============================================================================
