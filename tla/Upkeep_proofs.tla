----------------------------- MODULE Upkeep_proofs -----------------------------
(***************************************************************************)
(* Proofs about the parts of a daemon that keep it going: what it does of  *)
(* another's work when it starts (StartRecovery), the formats it stores    *)
(* and announces (FormatBroadcast), the order of its start (DaemonStart)   *)
(* and the keys that say it is alive (DaemonLife).  Each part is proved    *)
(* by itself, for any sets of daemons, any bounds and any number of faults.*)
(***************************************************************************)
EXTENDS StartRecovery, FormatBroadcast, DaemonStart, DaemonLife,
        FiniteSetTheorems, TLAPS

-----------------------------------------------------------------------------
(* DaemonLife.  What the keys have left is the time to live less the time  *)
(* since the turn of a process: at the longest one turn, and a turn is     *)
(* shorter than the time to live.                                          *)

\* The process looks after the keys.
Looks(p) == mode[p] = "multi" /\ ~term[p]

\* As long as the last write of the heartbeat did not fail, none of the processes can have
\* waited longer than it has been there.
BeatInTime ==
    beatOk => \A p \in Processes :
        stand[p] \in {"loop", "beat"} /\ Looks(p) => beatLeft + timer[p] >= Ttl

\* The only process of its name, while nothing failed and nobody stopped it: the PID is its
\* own, and fresh when its turn begins.
PidInTime ==
    listedOk /\ stops = 0 => \A p \in Processes :
        launched = {p} /\ Looks(p) =>
            /\ stand[p] \in {"first beat", "beat"} => pidKey = p /\ pidLeft = Ttl
            /\ stand[p] = "loop" => pidKey = p /\ pidLeft + timer[p] >= Ttl

LifeInv ==
    /\ LifeTypeOK /\ BeatInTime /\ PidInTime
    /\ \A p \in Processes : stand[p] # "new" => p \in launched
    /\ stops = 0 => stopping = "idle"
    /\ stopping = "kill" => target \in Processes

LEMMA LifeNumbers ==
    /\ Ttl \in Nat /\ Period \in Nat /\ Period < Ttl /\ NoProcess \notin Processes
    /\ LifeTypeOK => pidLeft \in 0 .. Ttl /\ beatLeft \in 0 .. Ttl
BY LifeAssumption DEF LifeTypeOK

LEMMA LifeTypeInit == LifeInit => LifeTypeOK
BY LifeAssumption DEF LifeInit, LifeTypeOK

LEMMA LifeTypeStep == LifeTypeOK /\ [LifeNext]_lifeVars => LifeTypeOK'
<1> SUFFICES ASSUME LifeTypeOK, [LifeNext]_lifeVars PROVE LifeTypeOK'
  OBVIOUS
<1>n. /\ Ttl \in Nat /\ Period \in Nat /\ NoProcess \notin Processes
      /\ pidLeft \in 0 .. Ttl /\ beatLeft \in 0 .. Ttl
  BY LifeNumbers
<1> DEFINE Places == /\ stand \in [Processes -> {"new", "register", "first beat", "loop", "beat",
                                                 "deregister", "join", "gone"}]
                     /\ term \in [Processes -> BOOLEAN]
                     /\ stopping \in {"idle", "kill", "delete", "done"}
                     /\ target \in Processes \cup {NoProcess}
           Owner  == /\ pidKey \in Processes \cup {NoProcess}
                     /\ (pidKey = NoProcess) <=> (pidLeft = 0)
           Timer  == timer \in [Processes -> 0 .. Period]
<1>k. Places
  BY DEF LifeTypeOK
<1>o. Owner
  BY DEF LifeTypeOK
<1>t. Timer /\ Period \in Nat
  BY LifeNumbers DEF LifeTypeOK
<1>l. Ttl \in Nat /\ pidLeft \in 0 .. Ttl
  BY LifeNumbers
<1>g. Places' /\ Owner' /\ Timer' /\ pidLeft' \in 0 .. Ttl /\ beatLeft' \in 0 .. Ttl => LifeTypeOK'
  BY DEF LifeTypeOK
<1>1. Places'
  <2>1. ASSUME NEW p \in Processes,
               \/ Launch(p) \/ LoopEnds(p) \/ Joined(p) \/ Terminate(p) \/ CrashProcess(p)
               \/ WritePid(p) \/ RefreshPid(p) \/ Deregister(p) \/ FirstBeat(p) \/ RefreshBeat(p)
        PROVE  Places'
    BY <1>k, <2>1
    DEF Launch, LoopEnds, Joined, Terminate, CrashProcess, WritePid, RefreshPid, Deregister,
        FirstBeat, RefreshBeat, StandsAt, stopper
  <2>2. ASSUME Pass \/ UNCHANGED lifeVars PROVE Places'
    BY <1>k, <2>2 DEF Pass, stopper, lifeVars, processes
  <2>3. ASSUME StopReads PROVE Places'
    BY <1>k, <1>o, <2>3 DEF StopReads, processes
  <2>4. ASSUME StopKills PROVE Places'
    BY <1>k, <2>4 DEF StopKills
  <2>5. ASSUME StopDeletes PROVE Places'
    BY <1>k, <2>5 DEF StopDeletes, processes
  <2>6. QED BY <2>1, <2>2, <2>3, <2>4, <2>5 DEF LifeNext
<1>2. Owner' /\ pidLeft' \in 0 .. Ttl
  <2>1. CASE UNCHANGED <<pidKey, pidLeft>>
    BY <1>l, <1>o, <2>1
  <2>2. ASSUME NEW p \in Processes, pidKey' = p, pidLeft' = Ttl PROVE Owner' /\ pidLeft' \in 0 .. Ttl
    <3>1. Ttl > 0
      BY LifeNumbers
    <3>2. QED BY <1>n, <2>2, <3>1
  <2>3. CASE pidKey' = NoProcess /\ pidLeft' = 0
    BY <1>n, <2>3
  <2>4. ASSUME UNCHANGED pidKey, pidLeft' = Refreshed PROVE Owner' /\ pidLeft' \in 0 .. Ttl
    <3>1. Ttl > 0
      BY LifeNumbers
    <3>2. QED BY <1>l, <1>o, <2>4, <3>1 DEF Refreshed
  <2>5. ASSUME Pass PROVE Owner' /\ pidLeft' \in 0 .. Ttl
    BY <1>l, <1>o, <2>5 DEF Pass
  <2>6. ASSUME NEW p \in Processes,
               \/ Launch(p) \/ LoopEnds(p) \/ Joined(p) \/ Terminate(p) \/ CrashProcess(p)
               \/ FirstBeat(p) \/ RefreshBeat(p)
        PROVE  UNCHANGED <<pidKey, pidLeft>>
    BY <2>6 DEF Launch, LoopEnds, Joined, Terminate, CrashProcess, FirstBeat, RefreshBeat, lifeKeys
  <2>7. ASSUME NEW p \in Processes, WritePid(p) \/ RefreshPid(p) \/ Deregister(p)
        PROVE  Owner' /\ pidLeft' \in 0 .. Ttl
    BY <2>1, <2>2, <2>3, <2>4, <2>7 DEF WritePid, RefreshPid, Deregister
  <2>8. ASSUME StopReads \/ StopKills \/ StopDeletes \/ UNCHANGED lifeVars
        PROVE  Owner' /\ pidLeft' \in 0 .. Ttl
    BY <2>1, <2>3, <2>8 DEF StopReads, StopKills, StopDeletes, lifeKeys, lifeVars
  <2>9. QED BY <2>1, <2>5, <2>6, <2>7, <2>8 DEF LifeNext
<1>3. beatLeft' \in 0 .. Ttl
  <2>1. CASE UNCHANGED beatLeft
    BY <1>n, <2>1
  <2>2. CASE beatLeft' = Ttl
    BY <1>n, <2>2
  <2>3. CASE Pass
    BY <1>n, <2>3 DEF Pass
  <2>4. ASSUME NEW p \in Processes,
               \/ Launch(p) \/ LoopEnds(p) \/ Joined(p) \/ Terminate(p) \/ CrashProcess(p)
               \/ WritePid(p) \/ RefreshPid(p) \/ Deregister(p)
        PROVE  UNCHANGED beatLeft
    BY <2>4
    DEF Launch, LoopEnds, Joined, Terminate, CrashProcess, WritePid, RefreshPid, Deregister, lifeKeys
  <2>5. ASSUME NEW p \in Processes, FirstBeat(p) \/ RefreshBeat(p)
        PROVE  UNCHANGED beatLeft \/ beatLeft' = Ttl
    BY <2>5 DEF FirstBeat, RefreshBeat, Beat, BeatTtl
  <2>6. ASSUME StopReads \/ StopKills \/ StopDeletes \/ UNCHANGED lifeVars PROVE UNCHANGED beatLeft
    BY <2>6 DEF StopReads, StopKills, StopDeletes, lifeKeys, lifeVars
  <2>7. QED BY <2>1, <2>2, <2>3, <2>4, <2>5, <2>6 DEF LifeNext
<1>4. Timer'
  <2>1. CASE UNCHANGED timer
    BY <1>t, <2>1
  <2>2. ASSUME NEW p \in Processes, Restart(p) PROVE Timer'
    BY <1>t, <2>2 DEF Restart
  <2>3. CASE Pass
    BY <1>t, <2>3 DEF Pass
  <2>4. ASSUME NEW p \in Processes,
               \/ Launch(p) \/ LoopEnds(p) \/ Joined(p) \/ Terminate(p) \/ CrashProcess(p)
               \/ WritePid(p) \/ RefreshPid(p) \/ Deregister(p)
        PROVE  UNCHANGED timer
    BY <2>4
    DEF Launch, LoopEnds, Joined, Terminate, CrashProcess, WritePid, RefreshPid, Deregister
  <2>5. ASSUME NEW p \in Processes, FirstBeat(p) \/ RefreshBeat(p) PROVE Restart(p)
    BY <2>5 DEF FirstBeat, RefreshBeat
  <2>6. ASSUME StopReads \/ StopKills \/ StopDeletes \/ UNCHANGED lifeVars PROVE UNCHANGED timer
    BY <2>6 DEF StopReads, StopKills, StopDeletes, processes, lifeVars
  <2>7. QED BY <2>1, <2>2, <2>3, <2>4, <2>5, <2>6 DEF LifeNext
<1>5. QED BY <1>g, <1>1, <1>2, <1>3, <1>4

LEMMA LifeInvInit == LifeInit => LifeInv
BY LifeTypeInit, LifeNumbers DEF LifeInit, LifeInv, BeatInTime, PidInTime

LEMMA LifeInvStep == LifeInv /\ [LifeNext]_lifeVars => LifeInv'
<1> SUFFICES ASSUME LifeInv, [LifeNext]_lifeVars PROVE LifeInv'
  OBVIOUS
<1> DEFINE Known == \A p \in Processes : stand[p] # "new" => p \in launched
           Quiet == /\ stops = 0 => stopping = "idle"
                    /\ stopping = "kill" => target \in Processes
<1>n. /\ Ttl \in Nat /\ Period \in Nat /\ Period < Ttl /\ NoProcess \notin Processes
      /\ pidLeft \in 0 .. Ttl /\ beatLeft \in 0 .. Ttl
      /\ pidLeft' \in 0 .. Ttl /\ beatLeft' \in 0 .. Ttl
  BY LifeNumbers, LifeTypeStep DEF LifeInv, LifeTypeOK
<1>o. /\ (pidKey = NoProcess) <=> (pidLeft = 0)
      /\ pidKey \in Processes \cup {NoProcess}
  BY DEF LifeInv, LifeTypeOK
<1>d. /\ DOMAIN stand = Processes /\ stand = [p \in Processes |-> stand[p]]
      /\ DOMAIN term = Processes /\ term = [p \in Processes |-> term[p]]
  BY DEF LifeInv, LifeTypeOK
<1>t. timer \in [Processes -> 0 .. Period]
  BY DEF LifeInv, LifeTypeOK
<1>i. BeatInTime /\ PidInTime /\ Known /\ Quiet
  BY DEF LifeInv
<1>g. BeatInTime' /\ PidInTime' /\ Known' /\ Quiet' => LifeInv'
  BY LifeTypeStep DEF LifeInv
<1> HIDE DEF Known, Quiet
<1>w. \A p \in Processes : timer[p] \in Nat
  BY <1>n, <1>t
<1>p. timer' \in [Processes -> 0 .. Period]
  BY LifeTypeStep DEF LifeInv, LifeTypeOK
<1> USE DEF Looks, lifeKeys, processes, stopper, lifePast, StandsAt
<1>1. BeatInTime'
  <2>1. CASE ~beatOk'
    BY <2>1 DEF BeatInTime
  <2>2. CASE beatLeft' = Ttl
    BY <1>n, <1>p, <2>2 DEF BeatInTime
  <2>3. ASSUME UNCHANGED <<beatLeft, beatOk, mode, timer>>,
               \A p \in Processes :
                   stand'[p] \in {"loop", "beat"} /\ ~term'[p] => stand[p] \in {"loop", "beat"} /\ ~term[p]
        PROVE  BeatInTime'
    BY <1>i, <2>3 DEF BeatInTime
  <2>4. ASSUME NEW p \in Processes,
               \/ Launch(p) \/ WritePid(p) \/ RefreshPid(p) \/ LoopEnds(p) \/ Deregister(p)
               \/ Joined(p) \/ CrashProcess(p) \/ Terminate(p)
        PROVE  BeatInTime'
    BY <1>d, <2>3, <2>4
    DEF Launch, WritePid, RefreshPid, LoopEnds, Deregister, Joined, CrashProcess, Terminate
  <2>5. ASSUME NEW p \in Processes, FirstBeat(p) \/ RefreshBeat(p) PROVE BeatInTime'
    BY <2>1, <2>2, <2>5 DEF FirstBeat, RefreshBeat, Beat, BeatTtl
  <2>6. ASSUME Pass PROVE BeatInTime'
    <3> SUFFICES ASSUME beatOk', NEW p \in Processes, stand'[p] \in {"loop", "beat"}, Looks(p)'
                 PROVE  beatLeft' + timer'[p] >= Ttl
      BY DEF BeatInTime
    <3>1. beatLeft + timer[p] >= Ttl
      BY <1>i, <2>6 DEF Pass, BeatInTime
    <3>2. timer[p] < Period /\ timer'[p] = timer[p] + 1
      BY <2>6 DEF Pass, Alive, Idles
    <3>3. beatLeft' = IF beatLeft > 0 THEN beatLeft - 1 ELSE 0
      BY <2>6 DEF Pass
    <3>4. timer[p] \in Nat
      BY <1>w
    <3>5. QED BY <1>n, <3>1, <3>2, <3>3, <3>4
  <2>7. ASSUME StopReads \/ StopKills \/ StopDeletes \/ UNCHANGED lifeVars PROVE BeatInTime'
    BY <1>d, <2>3, <2>7 DEF StopReads, StopKills, StopDeletes, lifeVars
  <2>8. QED BY <2>4, <2>5, <2>6, <2>7 DEF LifeNext
<1>2. PidInTime'
  <2>1. CASE ~listedOk' \/ stops' # 0
    BY <2>1 DEF PidInTime
  <2>2. ASSUME UNCHANGED <<pidKey, pidLeft, mode, timer>>, listedOk' => listedOk, stops' = 0 => stops = 0,
               \A p \in Processes :
                   /\ launched' = {p} /\ stand'[p] \in {"first beat", "loop", "beat"} => launched = {p}
                   /\ stand'[p] \in {"first beat", "loop", "beat"} => stand'[p] = stand[p]
                   /\ ~term'[p] => ~term[p]
        PROVE  PidInTime'
    BY <1>i, <2>2 DEF PidInTime
  <2>3. ASSUME NEW p \in Processes, Launch(p) PROVE PidInTime'
    <3>1. \A q \in Processes : launched' = {q} => q = p /\ stand'[q] = "register"
      BY <1>d, <2>3 DEF Launch
    <3>2. QED BY <3>1 DEF PidInTime
  <2>4. ASSUME NEW p \in Processes, LoopEnds(p) \/ Joined(p) \/ CrashProcess(p) \/ Terminate(p)
        PROVE  PidInTime'
    BY <1>d, <2>2, <2>4 DEF LoopEnds, Joined, CrashProcess, Terminate
  \* Only the process itself moves when it is the only one.
  <2>5. ASSUME NEW p \in Processes, stand[p] # "new", listedOk', stops' = 0, launched' = launched,
               Looks(p)' =>
                  /\ stand'[p] \in {"first beat", "beat"} => pidKey' = p /\ pidLeft' = Ttl
                  /\ stand'[p] = "loop" => pidKey' = p /\ pidLeft' + timer'[p] >= Ttl
        PROVE  PidInTime'
    BY <1>i, <2>5 DEF PidInTime, Known
  <2>6. ASSUME NEW p \in Processes, WritePid(p) PROVE PidInTime'
    <3>1. stand[p] # "new" /\ stand'[p] = "first beat" /\ launched' = launched
      BY <1>d, <2>6 DEF WritePid
    <3>2. CASE pidKey' = p /\ pidLeft' = Ttl
      BY <2>1, <2>5, <3>1, <3>2
    <3>3. QED BY <2>1, <2>6, <3>2 DEF WritePid
  <2>7. ASSUME NEW p \in Processes, FirstBeat(p) \/ RefreshBeat(p) PROVE PidInTime'
    <3>1. /\ stand[p] \in {"first beat", "beat"} /\ stand'[p] = "loop" /\ timer'[p] = 0
          /\ UNCHANGED <<pidKey, pidLeft, mode, term, launched, stops, listedOk>>
      BY <1>d, <1>t, <2>7 DEF FirstBeat, RefreshBeat, Restart
    <3>2. CASE listedOk /\ stops = 0
      <4>1. CASE launched = {p} /\ Looks(p)
        <5>1. pidKey = p /\ pidLeft = Ttl
          BY <1>i, <3>1, <3>2, <4>1 DEF PidInTime
        <5>2. pidLeft' = Ttl /\ timer'[p] = 0
          BY <3>1, <5>1
        <5>3. pidLeft' + timer'[p] >= Ttl
          BY <1>n, <5>2
        <5>4. QED BY <2>5, <3>1, <3>2, <5>1, <5>3
      <4>2. CASE launched # {p} \/ ~Looks(p)
        BY <1>i, <3>1, <3>2, <4>2 DEF PidInTime, Known
      <4>3. QED BY <4>1, <4>2
    <3>3. QED BY <2>1, <3>1, <3>2
  <2>8. ASSUME NEW p \in Processes, RefreshPid(p) PROVE PidInTime'
    <3>1. /\ stand[p] = "loop" /\ stand'[p] = "beat" /\ timer[p] = Period
          /\ UNCHANGED <<pidKey, mode, term, launched, stops>>
      BY <1>d, <2>8 DEF RefreshPid
    <3>2. CASE listedOk' /\ stops = 0 /\ launched = {p} /\ Looks(p)
      <4>1. listedOk /\ pidLeft' = Refreshed
        BY <2>8, <3>2 DEF RefreshPid, Miss
      <4>2. pidKey = p /\ pidKey # NoProcess
        BY <1>i, <1>n, <3>1, <3>2, <4>1 DEF PidInTime
      <4>3. pidLeft > 0
        BY <1>n, <1>o, <4>2
      <4>4. QED BY <2>5, <3>1, <3>2, <4>1, <4>2, <4>3 DEF Refreshed
    <3>3. CASE ~listedOk' \/ stops # 0
      BY <2>1, <3>1, <3>3
    <3>4. CASE launched # {p} \/ ~Looks(p)
      BY <1>i, <3>1, <3>4 DEF PidInTime, Known
    <3>5. QED BY <3>2, <3>3, <3>4
  <2>9. ASSUME NEW p \in Processes, Deregister(p) PROVE PidInTime'
    <3>1. stand[p] # "new" /\ stand'[p] = "join" /\ launched' = launched
      BY <1>d, <2>9 DEF Deregister
    <3>2. QED BY <2>1, <2>5, <3>1
  <2>10. ASSUME Pass PROVE PidInTime'
    <3> SUFFICES ASSUME listedOk', stops' = 0, NEW p \in Processes, launched' = {p}, Looks(p)',
                        stand'[p] \in {"first beat", "loop", "beat"}
                 PROVE  stand'[p] = "loop" /\ pidKey' = p /\ pidLeft' + timer'[p] >= Ttl
      BY DEF PidInTime
    <3>1. stand'[p] = "loop" /\ timer[p] < Period /\ timer'[p] = timer[p] + 1
      BY <2>10 DEF Pass, Alive, Idles
    <3>2. pidKey = p /\ pidLeft + timer[p] >= Ttl
      BY <1>i, <2>10, <3>1 DEF Pass, PidInTime
    <3>3. /\ pidLeft' = IF pidLeft > 0 THEN pidLeft - 1 ELSE 0
          /\ pidKey' = IF pidLeft > 1 THEN pidKey ELSE NoProcess
      BY <2>10 DEF Pass
    <3>4. timer[p] \in Nat
      BY <1>w
    <3>5. QED BY <1>n, <3>1, <3>2, <3>3, <3>4
  <2>11. ASSUME StopReads \/ StopKills \/ StopDeletes \/ UNCHANGED lifeVars PROVE PidInTime'
    <3>1. CASE StopReads
      BY <2>1, <3>1 DEF StopReads
    <3>2. CASE StopKills
      BY <1>d, <2>2, <3>2 DEF StopKills
    <3>3. CASE StopDeletes
      BY <1>i, <2>1, <3>3 DEF StopDeletes, Quiet
    <3>4. CASE UNCHANGED lifeVars
      BY <2>2, <3>4 DEF lifeVars
    <3>5. QED BY <2>11, <3>1, <3>2, <3>3, <3>4
  <2>12. QED BY <2>3, <2>4, <2>6, <2>7, <2>8, <2>9, <2>10, <2>11 DEF LifeNext
<1>3. Known'
  <2>1. ASSUME NEW p \in Processes,
               \/ Launch(p) \/ WritePid(p) \/ RefreshPid(p) \/ LoopEnds(p) \/ Deregister(p)
               \/ Joined(p) \/ CrashProcess(p) \/ Terminate(p) \/ FirstBeat(p) \/ RefreshBeat(p)
        PROVE  Known'
    BY <1>d, <1>i, <2>1
    DEF Launch, WritePid, RefreshPid, LoopEnds, Deregister, Joined, CrashProcess, Terminate, FirstBeat,
        RefreshBeat, Alive, Known
  <2>2. ASSUME Pass \/ StopReads \/ StopKills \/ StopDeletes \/ UNCHANGED lifeVars PROVE Known'
    BY <1>i, <2>2 DEF Pass, StopReads, StopKills, StopDeletes, lifeVars, Known
  <2>3. QED BY <2>1, <2>2 DEF LifeNext
<1>4. Quiet'
  <2>1. ASSUME NEW p \in Processes,
               \/ Launch(p) \/ WritePid(p) \/ RefreshPid(p) \/ LoopEnds(p) \/ Deregister(p)
               \/ Joined(p) \/ CrashProcess(p) \/ Terminate(p) \/ FirstBeat(p) \/ RefreshBeat(p)
        PROVE  Quiet'
    BY <1>i, <2>1
    DEF Launch, WritePid, RefreshPid, LoopEnds, Deregister, Joined, CrashProcess, Terminate, FirstBeat,
        RefreshBeat, Quiet
  <2>2. ASSUME Pass \/ StopReads \/ StopKills \/ StopDeletes \/ UNCHANGED lifeVars PROVE Quiet'
    BY <1>i, <1>o, <2>2 DEF Pass, StopReads, StopKills, StopDeletes, lifeVars, Quiet
  <2>3. QED BY <2>1, <2>2 DEF LifeNext
<1>5. QED BY <1>g, <1>1, <1>2, <1>3, <1>4

\* A daemon in its loop is known: its heartbeat has not run out unless the last write of it
\* failed, and its PID is there unless a write failed, it was stopped or shared its name.
THEOREM DaemonsAreKnown == LifeSpec => []KnownWhileUp
<1>1. LifeInv => KnownWhileUp
  <2> SUFFICES ASSUME LifeInv PROVE BeatsWhileUp /\ ListedWhileUp
    BY DEF KnownWhileUp
  <2>n. /\ Ttl \in Nat /\ Period \in Nat /\ Period < Ttl /\ beatLeft \in 0 .. Ttl
        /\ timer \in [Processes -> 0 .. Period]
    BY LifeNumbers DEF LifeInv, LifeTypeOK
  <2>1. BeatsWhileUp
    BY <2>n DEF LifeInv, BeatInTime, Looks, BeatsWhileUp, InLoop
  <2>2. ListedWhileUp
    BY DEF LifeInv, PidInTime, Looks, ListedWhileUp, InLoop
  <2>3. QED BY <2>1, <2>2
<1>2. QED BY <1>1, LifeInvInit, LifeInvStep, PTL DEF LifeSpec

-----------------------------------------------------------------------------
(* DaemonStart.  Nothing unloads a library, and a key comes into the hand   *)
(* of a daemon only between its file and its publication.                   *)

StartShapes ==
    /\ tree \in [Libraries -> Nodes \cup {NoTree}]
    /\ DOMAIN where = Nodes /\ DOMAIN verdict = Nodes /\ DOMAIN keyInHand = Nodes

\* A worker verifies, it does not load as a master does.
WorkersVerify ==
    \A n \in Workers :
        where[n] \in {"down", "preflight", "verify", "key", "publish", "contracts", "up"}

\* What a worker found is there from then on, even after its death.
FoundIsThere == \A n \in Workers : verdict[n] = "ok" => Carries[n] \subseteq Loaded

KeysGoPublic ==
    /\ ReceiptsResolve
    /\ \A n \in Nodes :
        /\ where[n] \notin {"publish", "contracts", "up"} => keyInHand[n] = NoKey
        /\ where[n] \in {"contracts", "up"} /\ keyInHand[n] # NoKey
           => keyInHand[n] \in pubkeys \cup unpublished

StartInv == StartShapes /\ WorkersVerify /\ FoundIsThere /\ KeysGoPublic

LEMMA StartInvInit == StartInit => StartInv
BY StartAssumption
DEF StartInit, StartInv, StartShapes, WorkersVerify, FoundIsThere, KeysGoPublic, ReceiptsResolve, Nodes

\* What a step of the start does to the libraries: nothing, or it puts one.
LEMMA LibrariesStay ==
    ASSUME StartShapes, [StartNext]_startVars
    PROVE  /\ tree' \in [Libraries -> Nodes \cup {NoTree}]
           /\ Loaded \subseteq Loaded'
<1>n. NoTree \notin Nodes
  BY StartAssumption
<1>t. tree \in [Libraries -> Nodes \cup {NoTree}]
  BY DEF StartShapes
<1>1. CASE UNCHANGED tree
  BY <1>t, <1>1 DEF Loaded
<1>2. ASSUME NEW n \in Nodes, NEW l \in Libraries, Puts(n, l)
      PROVE  tree' \in [Libraries -> Nodes \cup {NoTree}] /\ Loaded \subseteq Loaded'
  BY <1>n, <1>t, <1>2 DEF Puts, Loaded
<1>3. ASSUME NEW n \in Nodes, NEW l \in Libraries, Preflight(n, l) \/ LoadLibrary(n, l) \/ LoadRefused(n, l)
      PROVE  Puts(n, l) \/ UNCHANGED tree
  BY <1>3 DEF Preflight, LoadLibrary, LoadRefused, functions
<1>4. ASSUME NEW n \in Nodes,
             \/ Begin(n) \/ DieAtStart(n) \/ Run(n) \/ Probe(n) \/ ProbeRefused(n) \/ Unprobe(n)
             \/ SyncFails(n) \/ ClearRegistry(n) \/ MarkLoaded(n) \/ SyncDone(n) \/ VerifyFunctions(n)
             \/ LoadKey(n) \/ GenerateKey(n) \/ NoSigner(n) \/ PublishKey(n)
             \/ PublishContracts(n) \/ ContractsFail(n) \/ Emit(n)
      PROVE  UNCHANGED tree
  BY <1>4
  DEF Begin, DieAtStart, Run, Probe, ProbeRefused, Unprobe, SyncFails, ClearRegistry, MarkLoaded, SyncDone,
      VerifyFunctions, LoadKey, GenerateKey, NoSigner, PublishKey, PublishContracts, ContractsFail, Emit,
      functions
<1>5. CASE UNCHANGED startVars
  BY <1>1, <1>5 DEF startVars, functions
<1>6. QED BY <1>1, <1>2, <1>3, <1>4, <1>5 DEF StartNext

LEMMA StartInvStep == StartInv /\ [StartNext]_startVars => StartInv'
<1> SUFFICES ASSUME StartInv, [StartNext]_startVars PROVE StartInv'
  OBVIOUS
<1>l. tree' \in [Libraries -> Nodes \cup {NoTree}] /\ Loaded \subseteq Loaded'
  BY LibrariesStay DEF StartInv
<1>s. DOMAIN where = Nodes /\ DOMAIN verdict = Nodes /\ DOMAIN keyInHand = Nodes
  BY DEF StartInv, StartShapes
<1>w. Workers \subseteq Nodes /\ Workers \cap Masters = {}
  BY StartAssumption DEF Nodes
<1>i. WorkersVerify /\ FoundIsThere /\ KeysGoPublic
  BY DEF StartInv
<1>1. /\ DOMAIN where' = Nodes /\ DOMAIN verdict' = Nodes /\ DOMAIN keyInHand' = Nodes
  <2>1. ASSUME NEW n \in Nodes,
               \/ Begin(n) \/ DieAtStart(n) \/ (\E l \in Libraries : Preflight(n, l)) \/ Run(n)
               \/ Probe(n) \/ ProbeRefused(n) \/ Unprobe(n) \/ SyncFails(n) \/ ClearRegistry(n)
               \/ \E l \in Libraries : LoadLibrary(n, l) \/ LoadRefused(n, l)
        PROVE  DOMAIN where' = Nodes /\ DOMAIN verdict' = Nodes /\ DOMAIN keyInHand' = Nodes
    BY <1>s, <2>1
    DEF Begin, DieAtStart, Preflight, Run, Probe, ProbeRefused, Unprobe, SyncFails, ClearRegistry,
        LoadLibrary, LoadRefused, Moves, Concludes, signing
  <2>2. ASSUME NEW n \in Nodes,
               \/ MarkLoaded(n) \/ SyncDone(n) \/ VerifyFunctions(n)
               \/ LoadKey(n) \/ GenerateKey(n) \/ NoSigner(n) \/ PublishKey(n)
               \/ PublishContracts(n) \/ ContractsFail(n) \/ Emit(n)
        PROVE  DOMAIN where' = Nodes /\ DOMAIN verdict' = Nodes /\ DOMAIN keyInHand' = Nodes
    BY <1>s, <2>2
    DEF MarkLoaded, SyncDone, VerifyFunctions, LoadKey, GenerateKey, NoSigner, PublishKey,
        PublishContracts, ContractsFail, Emit, Moves, Concludes, signing
  <2>3. CASE UNCHANGED startVars
    BY <1>s, <2>3 DEF startVars, signing
  <2>4. QED BY <2>1, <2>2, <2>3 DEF StartNext
<1>2. WorkersVerify'
  <2>1. ASSUME NEW n \in Nodes,
               \/ Begin(n) \/ DieAtStart(n) \/ Run(n) \/ VerifyFunctions(n)
               \/ LoadKey(n) \/ GenerateKey(n) \/ NoSigner(n) \/ PublishKey(n)
               \/ PublishContracts(n) \/ ContractsFail(n)
        PROVE  WorkersVerify'
    BY <1>s, <1>w, <1>i, <2>1
    DEF WorkersVerify, Begin, DieAtStart, Run, VerifyFunctions, LoadKey, GenerateKey, NoSigner, PublishKey,
        PublishContracts, ContractsFail, Moves, Concludes
  <2>2. ASSUME NEW n \in Nodes,
               Probe(n) \/ ProbeRefused(n) \/ Unprobe(n) \/ SyncFails(n) \/ ClearRegistry(n)
               \/ (\E l \in Libraries : LoadLibrary(n, l)) \/ MarkLoaded(n) \/ SyncDone(n)
        PROVE  WorkersVerify'
    <3>1. n \notin Workers
      BY <1>i, <2>2
      DEF WorkersVerify, Probe, ProbeRefused, Unprobe, SyncFails, ClearRegistry, LoadLibrary, MarkLoaded, SyncDone
    <3>2. \A q \in Workers : where'[q] = where[q]
      BY <1>s, <1>w, <2>2, <3>1
      DEF Probe, ProbeRefused, Unprobe, SyncFails, ClearRegistry, LoadLibrary, MarkLoaded, SyncDone, Moves, Concludes
    <3>3. QED BY <1>i, <3>2 DEF WorkersVerify
  <2>3. CASE UNCHANGED where
    BY <1>i, <2>3 DEF WorkersVerify
  <2>4. ASSUME NEW n \in Nodes, NEW l \in Libraries, Preflight(n, l) \/ LoadRefused(n, l)
        PROVE  UNCHANGED where
    BY <2>4 DEF Preflight, LoadRefused, Emit
  <2>5. ASSUME NEW n \in Nodes, Emit(n) PROVE UNCHANGED where
    BY <2>5 DEF Emit
  <2>6. CASE UNCHANGED startVars
    BY <2>3, <2>6 DEF startVars
  <2>7. QED BY <2>1, <2>2, <2>3, <2>4, <2>5, <2>6 DEF StartNext
<1>3. FoundIsThere'
  <2>1. ASSUME \A n \in Workers : verdict'[n] = "ok" => verdict[n] = "ok" \/ Carries[n] \subseteq Loaded
        PROVE  FoundIsThere'
    BY <1>i, <1>l, <2>1 DEF FoundIsThere
  <2>2. ASSUME NEW n \in Nodes, VerifyFunctions(n) PROVE FoundIsThere'
    BY <1>s, <1>w, <2>1, <2>2 DEF VerifyFunctions, Concludes
  <2>3. ASSUME NEW n \in Nodes, Begin(n) \/ ProbeRefused(n) \/ SyncFails(n) PROVE FoundIsThere'
    BY <1>s, <1>w, <2>1, <2>3 DEF Begin, ProbeRefused, SyncFails, Concludes
  <2>4. ASSUME NEW n \in Nodes, SyncDone(n) PROVE FoundIsThere'
    BY <1>s, <1>i, <2>1, <2>4 DEF SyncDone, Concludes, WorkersVerify
  <2>5. ASSUME NEW n \in Nodes,
               \/ DieAtStart(n) \/ (\E l \in Libraries : Preflight(n, l)) \/ Run(n)
               \/ Probe(n) \/ Unprobe(n) \/ ClearRegistry(n)
               \/ (\E l \in Libraries : LoadLibrary(n, l) \/ LoadRefused(n, l))
               \/ MarkLoaded(n) \/ LoadKey(n) \/ GenerateKey(n) \/ NoSigner(n) \/ PublishKey(n)
               \/ PublishContracts(n) \/ ContractsFail(n) \/ Emit(n)
        PROVE  UNCHANGED verdict
    BY <2>5
    DEF DieAtStart, Preflight, Run, Probe, Unprobe, ClearRegistry, LoadLibrary, LoadRefused, MarkLoaded,
        LoadKey, GenerateKey, NoSigner, PublishKey, PublishContracts, ContractsFail, Emit
  <2>6. CASE UNCHANGED verdict
    BY <2>1, <2>6
  <2>7. CASE UNCHANGED startVars
    BY <2>6, <2>7 DEF startVars
  <2>8. QED BY <2>2, <2>3, <2>4, <2>5, <2>6, <2>7 DEF StartNext
<1>4. KeysGoPublic'
  <2>k. /\ signed \subseteq pubkeys \cup unpublished
        /\ \A q \in Nodes : where[q] \notin {"publish", "contracts", "up"} => keyInHand[q] = NoKey
        /\ \A q \in Nodes : where[q] \in {"contracts", "up"} /\ keyInHand[q] # NoKey
                            => keyInHand[q] \in pubkeys \cup unpublished
    BY <1>i DEF KeysGoPublic, ReceiptsResolve
  \* Up to the key nothing is in the hand, and the rest leaves the keys alone.
  <2>1. ASSUME NEW n \in Nodes, UNCHANGED signing, where[n] \notin {"publish", "contracts", "up"},
               \A q \in Nodes \ {n} : where'[q] = where[q]
        PROVE  KeysGoPublic'
    BY <2>k, <2>1 DEF KeysGoPublic, ReceiptsResolve, signing
  <2>2. ASSUME NEW n \in Nodes,
               \/ Begin(n) \/ Run(n) \/ Probe(n) \/ ProbeRefused(n) \/ Unprobe(n) \/ SyncFails(n)
               \/ ClearRegistry(n) \/ (\E l \in Libraries : LoadLibrary(n, l)) \/ MarkLoaded(n)
               \/ SyncDone(n) \/ VerifyFunctions(n) \/ NoSigner(n)
        PROVE  KeysGoPublic'
    <3>1. UNCHANGED signing /\ where[n] \notin {"publish", "contracts", "up"}
      BY <2>2
      DEF Begin, Run, Probe, ProbeRefused, Unprobe, SyncFails, ClearRegistry, LoadLibrary, MarkLoaded,
          SyncDone, VerifyFunctions, NoSigner
    <3>2. \A q \in Nodes \ {n} : where'[q] = where[q]
      BY <1>s, <2>2
      DEF Begin, Run, Probe, ProbeRefused, Unprobe, SyncFails, ClearRegistry, LoadLibrary, MarkLoaded,
          SyncDone, VerifyFunctions, NoSigner, Moves, Concludes
    <3>3. QED BY <2>1, <3>1, <3>2
  <2>3. CASE UNCHANGED <<where, signing>>
    BY <2>k, <2>3 DEF KeysGoPublic, ReceiptsResolve, signing
  <2>4. ASSUME NEW n \in Nodes, NEW l \in Libraries, Preflight(n, l) \/ LoadRefused(n, l)
        PROVE  KeysGoPublic'
    BY <2>3, <2>4 DEF Preflight, LoadRefused
  <2>5. ASSUME NEW n \in Nodes, DieAtStart(n) \/ ContractsFail(n) PROVE KeysGoPublic'
    BY <1>s, <2>k, <2>5 DEF DieAtStart, ContractsFail, Moves, KeysGoPublic, ReceiptsResolve
  <2>6. ASSUME NEW n \in Nodes, LoadKey(n) \/ GenerateKey(n) PROVE KeysGoPublic'
    <3>1. where'[n] = "publish"
      BY <1>s, <2>6 DEF LoadKey, GenerateKey, Moves
    <3>2. \A q \in Nodes \ {n} : where'[q] = where[q] /\ keyInHand'[q] = keyInHand[q]
      BY <1>s, <2>6 DEF LoadKey, GenerateKey, Moves
    <3>3. UNCHANGED <<signed, pubkeys, unpublished>>
      BY <2>6 DEF LoadKey, GenerateKey
    <3>4. QED BY <2>k, <3>1, <3>2, <3>3 DEF KeysGoPublic, ReceiptsResolve
  <2>7. ASSUME NEW n \in Nodes, PublishKey(n) PROVE KeysGoPublic'
    <3>1. /\ pubkeys \cup unpublished \cup {keyInHand[n]} = pubkeys' \cup unpublished'
          /\ UNCHANGED <<signed, keyInHand>> /\ where'[n] = "contracts"
      BY <1>s, <2>7 DEF PublishKey, Moves
    <3>2. \A q \in Nodes \ {n} : where'[q] = where[q]
      BY <1>s, <2>7 DEF PublishKey, Moves
    <3>3. QED BY <2>k, <3>1, <3>2 DEF KeysGoPublic, ReceiptsResolve
  <2>8. ASSUME NEW n \in Nodes, PublishContracts(n) PROVE KeysGoPublic'
    <3>1. where[n] = "contracts" /\ where'[n] = "up" /\ UNCHANGED signing
      BY <1>s, <2>8 DEF PublishContracts, Moves
    <3>2. \A q \in Nodes \ {n} : where'[q] = where[q]
      BY <1>s, <2>8 DEF PublishContracts, Moves
    <3>3. QED BY <2>k, <3>1, <3>2 DEF KeysGoPublic, ReceiptsResolve, signing
  <2>9. ASSUME NEW n \in Nodes, Emit(n) PROVE KeysGoPublic'
    BY <2>k, <2>9 DEF Emit, KeysGoPublic, ReceiptsResolve
  <2>10. CASE UNCHANGED startVars
    BY <2>3, <2>10 DEF startVars
  <2>11. QED BY <2>2, <2>4, <2>5, <2>6, <2>7, <2>8, <2>9, <2>10 DEF StartNext
<1>5. QED BY <1>l, <1>1, <1>2, <1>3, <1>4 DEF StartInv, StartShapes

\* What a worker verified stays loaded as long as it runs, and every receipt was signed with a
\* key that was published, or whose publication failed.
THEOREM WhatIsUpIsBacked == StartSpec => []UpIsBacked
<1>1. StartInv => UpIsBacked
  BY DEF StartInv, FoundIsThere, KeysGoPublic, UpIsBacked, VerifiedStays
<1>2. QED BY <1>1, StartInvInit, StartInvStep, PTL DEF StartSpec

-----------------------------------------------------------------------------
(* StartRecovery.  An entry in the hands of a daemon that may run it is a   *)
(* delivery not yet used up; entries listed but not claimed are none.       *)

\* The daemons that will run an entry unless they die.
Holding(e) == {d \in Daemons : e \in haul[d] /\ post[d] \in {"serving", "recovered"}}

\* What OncePerDelivery leaves out: the deliveries still to be used.
RunsToCome == \A e \in EntryNos : ran[e] + Cardinality(Holding(e)) <= deliveries[e]

\* Nothing is in the hands of a daemon that neither serves nor recovers.
HandsEmpty ==
    \A d \in Daemons : post[d] \notin {"serving", "claiming", "recovered"} => haul[d] = {}

\* What waits to be acknowledged may be.
DoneRight == \A d \in Daemons : \A e \in done[d] : ran[e] > 0 \/ e \in malformed

RecoveryInv ==
    /\ RecoveryTypeOK /\ HandsEmpty
    /\ NothingDropped /\ DoneRight
    /\ RunsToCome

LEMMA RecoveryNumbers ==
    /\ MaxEntries \in Nat /\ Nobody \notin Daemons /\ IsFiniteSet(Daemons)
    /\ EntryNos \subseteq Nat
BY RecoveryAssumption DEF EntryNos

\* Counting the daemons that hold an entry: one more, one less, none.
LEMMA HoldersCounted ==
    /\ \A S \in SUBSET Daemons : Cardinality(S) \in Nat /\ IsFiniteSet(S)
    /\ \A S, T \in SUBSET Daemons : S \subseteq T => Cardinality(S) <= Cardinality(T)
    /\ \A S \in SUBSET Daemons : \A d \in Daemons : Cardinality(S \cup {d}) <= Cardinality(S) + 1
    /\ \A S \in SUBSET Daemons : \A d \in S : Cardinality(S \ {d}) = Cardinality(S) - 1
<1>1. \A S \in SUBSET Daemons : IsFiniteSet(S)
  BY RecoveryNumbers, FS_Subset
<1>2. \A S \in SUBSET Daemons : Cardinality(S) \in Nat
  BY <1>1, FS_CardinalityType
<1>3. \A S, T \in SUBSET Daemons : S \subseteq T => Cardinality(S) <= Cardinality(T)
  BY <1>1, FS_Subset
<1>4. ASSUME NEW S \in SUBSET Daemons, NEW d \in Daemons
      PROVE  Cardinality(S \cup {d}) <= Cardinality(S) + 1
  <2>1. \/ Cardinality(S \cup {d}) = Cardinality(S)
        \/ Cardinality(S \cup {d}) = Cardinality(S) + 1
    BY <1>1, FS_AddElement
  <2>2. QED BY <1>2, <2>1
<1>5. ASSUME NEW S \in SUBSET Daemons, NEW d \in S
      PROVE  Cardinality(S \ {d}) = Cardinality(S) - 1
  BY <1>1, FS_RemoveElement
<1>6. QED BY <1>1, <1>2, <1>3, <1>4, <1>5

\* The rule by which the runs to come stay bounded at one entry: nothing changes for the
\* worse, or a daemon comes to hold it with a delivery more, or a daemon runs it.
LEMMA RunsStayBounded ==
    ASSUME NEW r \in Nat, NEW v \in Nat, NEW rn, NEW vn,
           NEW H \in SUBSET Daemons, NEW Hn \in SUBSET Daemons,
           r + Cardinality(H) <= v,
           \/ rn = r /\ vn = v /\ Hn \subseteq H
           \/ rn = r /\ vn = v + 1 /\ \E d \in Daemons : Hn \subseteq H \cup {d}
           \/ rn = r + 1 /\ vn = v /\ \E d \in H : Hn \subseteq H \ {d}
    PROVE  rn + Cardinality(Hn) <= vn
<1>1. Cardinality(H) \in Nat /\ Cardinality(Hn) \in Nat
  BY HoldersCounted
<1>2. CASE rn = r /\ vn = v /\ Hn \subseteq H
  <2>1. Cardinality(Hn) <= Cardinality(H)
    BY <1>2, HoldersCounted
  <2>2. QED BY <1>1, <1>2, <2>1
<1>3. ASSUME NEW d \in Daemons, rn = r, vn = v + 1, Hn \subseteq H \cup {d}
      PROVE  rn + Cardinality(Hn) <= vn
  <2>1. H \cup {d} \in SUBSET Daemons
    OBVIOUS
  <2>2. Cardinality(Hn) <= Cardinality(H \cup {d}) /\ Cardinality(H \cup {d}) \in Nat
    BY <1>3, <2>1, HoldersCounted
  <2>3. Cardinality(H \cup {d}) <= Cardinality(H) + 1
    BY HoldersCounted
  <2>4. QED BY <1>1, <1>3, <2>2, <2>3
<1>4. ASSUME NEW d \in H, rn = r + 1, vn = v, Hn \subseteq H \ {d}
      PROVE  rn + Cardinality(Hn) <= vn
  <2>1. H \ {d} \in SUBSET Daemons
    OBVIOUS
  <2>2. Cardinality(Hn) <= Cardinality(H \ {d}) /\ Cardinality(H \ {d}) \in Nat
    BY <1>4, <2>1, HoldersCounted
  <2>3. Cardinality(H \ {d}) = Cardinality(H) - 1
    BY HoldersCounted
  <2>4. QED BY <1>1, <1>4, <2>2, <2>3
<1>5. QED BY <1>2, <1>3, <1>4

LEMMA RecoveryTypeInit == RecoveryInit => RecoveryTypeOK
<1> SUFFICES ASSUME RecoveryInit PROVE RecoveryTypeOK
  OBVIOUS
<1>1. written \in 0 .. MaxEntries /\ cursor \in 0 .. written
  BY RecoveryNumbers DEF RecoveryInit
<1>2. deliveries \in [EntryNos -> Nat] /\ ran \in [EntryNos -> Nat]
  BY DEF RecoveryInit
<1>3. QED BY <1>1, <1>2 DEF RecoveryInit, RecoveryTypeOK

\* Counters stay counters when one is counted up.
LEMMA CountsStay ==
    ASSUME NEW S, NEW f \in [S -> Nat], NEW e
    PROVE  [f EXCEPT ![e] = @ + 1] \in [S -> Nat]
<1>1. CASE e \in S
  <2>1. f[e] + 1 \in Nat
    BY <1>1
  <2>2. QED BY <2>1
<1>2. CASE e \notin S
  <2>1. [f EXCEPT ![e] = @ + 1] = f
    BY <1>2, Zenon
  <2>2. QED BY <2>1
<1>3. QED BY <1>1, <1>2

LEMMA RecoveryTypeStep == RecoveryTypeOK /\ [RecoveryNext]_recoveryVars => RecoveryTypeOK'
<1> SUFFICES ASSUME RecoveryTypeOK, [RecoveryNext]_recoveryVars PROVE RecoveryTypeOK'
  OBVIOUS
<1> DEFINE Stream   == /\ exists \in BOOLEAN /\ hasGroup \in BOOLEAN
                       /\ strays \subseteq Daemons \cup {"unified"}
           Places   == /\ post \in [Daemons -> {"down", "starting", "serving", "repairing", "recovering",
                                                "listing", "claiming", "recovered", "idle"}]
                       /\ recovered \in [Daemons -> {"none", "ok", "error"}]
           Cursor   == written \in 0 .. MaxEntries /\ cursor \in 0 .. written
           Counts   == deliveries \in [EntryNos -> Nat] /\ ran \in [EntryNos -> Nat]
           Entries  == /\ malformed \in SUBSET EntryNos /\ acked \in SUBSET EntryNos
                       /\ holder \in [EntryNos -> Daemons \cup {Nobody}]
                       /\ haul \in [Daemons -> SUBSET EntryNos] /\ done \in [Daemons -> SUBSET EntryNos]
<1>s. Stream /\ Places
  BY DEF RecoveryTypeOK
<1>c. Cursor /\ MaxEntries \in Nat
  BY RecoveryNumbers DEF RecoveryTypeOK
<1>n. Counts
  BY DEF RecoveryTypeOK
<1>e. Entries
  BY DEF RecoveryTypeOK
<1>g. Stream' /\ Places' /\ Cursor' /\ Counts' /\ Entries' => RecoveryTypeOK'
  BY DEF RecoveryTypeOK
<1>u. CASE UNCHANGED recoveryVars
  BY <1>u, <1>s, <1>c, <1>n, <1>e, <1>g DEF recoveryVars, stream, group, daemon, history
<1>1. Stream' /\ Places'
  <2>1. CASE Submit
    BY <1>s, <2>1 DEF Submit, group, daemon
  <2>2. ASSUME NEW d \in Daemons, Boot(d) \/ Crash(d) \/ Initialised(d) \/ InitialiseFails(d) \/ Receive(d)
        PROVE  Stream' /\ Places'
    BY <1>s, <2>2
    DEF Boot, Crash, Initialised, InitialiseFails, Receive, TurnsTo, MakeGroup, stream, group
  <2>3. ASSUME NEW d \in Daemons,
               \/ Repair(d) \/ RecoverMissing(d) \/ RecoverGroup(d) \/ RecoverFails(d)
               \/ ListPending(d) \/ ClaimPending(d)
        PROVE  Stream' /\ Places'
    BY <1>s, <2>3
    DEF Repair, RecoverMissing, RecoverGroup, RecoverFails, ListPending, ClaimPending, Returns, TurnsTo,
        MakeGroup, stream, group
  <2>4. ASSUME NEW d \in Daemons, Execute(d) \/ Acknowledge(d) \/ AcknowledgeFails(d)
        PROVE  Stream' /\ Places'
    BY <1>s, <2>4 DEF Execute, Acknowledge, AcknowledgeFails, Settled, Returns, TurnsTo, stream, group
  <2>5. CASE UNCHANGED recoveryVars
    BY <1>s, <2>5 DEF recoveryVars, stream, group, daemon
  <2>6. QED BY <2>1, <2>2, <2>3, <2>4, <2>5 DEF RecoveryNext
<1>2. Cursor'
  <2>1. CASE UNCHANGED <<written, cursor>>
    BY <1>c, <2>1
  <2>2. CASE Submit
    BY <1>c, <2>2 DEF Submit, group
  <2>3. CASE MakeGroup(written) \/ MakeGroup(0)
    BY <1>c, <2>3 DEF MakeGroup
  <2>4. ASSUME NEW d \in Daemons, Receive(d) PROVE Cursor'
    BY <1>c, <2>4 DEF Receive, stream
  <2>5. ASSUME NEW d \in Daemons, Initialised(d) \/ InitialiseFails(d) \/ RecoverGroup(d)
        PROVE  MakeGroup(written) \/ MakeGroup(0) \/ UNCHANGED <<written, cursor>>
    BY <2>5 DEF Initialised, InitialiseFails, RecoverGroup, stream, group
  <2>6. ASSUME NEW d \in Daemons,
               \/ Boot(d) \/ Crash(d) \/ Repair(d) \/ RecoverMissing(d) \/ RecoverFails(d)
               \/ ListPending(d) \/ ClaimPending(d)
               \/ Execute(d) \/ Acknowledge(d) \/ AcknowledgeFails(d)
        PROVE  UNCHANGED <<written, cursor>>
    BY <2>6
    DEF Boot, Crash, Repair, RecoverMissing, RecoverFails, ListPending, ClaimPending, Execute, Acknowledge,
        AcknowledgeFails, stream, group
  <2>7. CASE UNCHANGED recoveryVars
    BY <2>1, <2>7 DEF recoveryVars, stream, group
  <2>8. QED BY <2>1, <2>2, <2>3, <2>4, <2>5, <2>6, <2>7 DEF RecoveryNext
<1>3. Counts'
  <2>1. CASE UNCHANGED <<deliveries, ran>>
    BY <1>n, <2>1
  <2>2. ASSUME NEW d \in Daemons, Receive(d) PROVE Counts'
    <3>1. UNCHANGED ran /\ deliveries' = [deliveries EXCEPT ![cursor + 1] = @ + 1]
      BY <2>2 DEF Receive, history
    <3>2. QED BY <1>n, <3>1, CountsStay
  <2>3. ASSUME NEW d \in Daemons, ClaimPending(d) PROVE Counts'
    <3>1. UNCHANGED ran
      BY <2>3 DEF ClaimPending
    <3>2. deliveries' = [e \in EntryNos |-> IF e \in haul[d] \cap Pending THEN deliveries[e] + 1
                                            ELSE deliveries[e]]
      BY <2>3 DEF ClaimPending, TriesAfterClaim
    <3>3. QED BY <1>n, <3>1, <3>2
  <2>4. ASSUME NEW d \in Daemons, Execute(d) PROVE Counts'
    <3>1. PICK e \in haul[d] : ran' = [ran EXCEPT ![e] = @ + 1]
      BY <2>4 DEF Execute
    <3>2. UNCHANGED deliveries
      BY <2>4 DEF Execute, group
    <3>3. QED BY <1>n, <3>1, <3>2, CountsStay
  <2>5. ASSUME NEW d \in Daemons,
               \/ Boot(d) \/ Crash(d) \/ Initialised(d) \/ InitialiseFails(d) \/ Repair(d)
               \/ RecoverMissing(d) \/ RecoverGroup(d) \/ RecoverFails(d) \/ ListPending(d)
               \/ Acknowledge(d) \/ AcknowledgeFails(d)
        PROVE  UNCHANGED <<deliveries, ran>>
    BY <2>5
    DEF Boot, Crash, Initialised, InitialiseFails, Repair, RecoverMissing, RecoverGroup, RecoverFails,
        ListPending, Acknowledge, AcknowledgeFails, MakeGroup, group, history
  <2>6. CASE Submit \/ UNCHANGED recoveryVars
    BY <2>1, <2>6 DEF Submit, recoveryVars, group, history
  <2>7. QED BY <2>1, <2>2, <2>3, <2>4, <2>5, <2>6 DEF RecoveryNext
<1>4. Entries'
  <2>1. CASE UNCHANGED <<malformed, acked, holder, haul, done>>
    BY <1>e, <2>1
  <2>2. ASSUME NEW d \in Daemons, Crash(d) \/ RecoverFails(d) PROVE Entries'
    BY <1>e, <2>2 DEF Crash, RecoverFails, stream, group, history
  <2>3. ASSUME NEW d \in Daemons, Receive(d) PROVE Entries'
    <3>1. cursor + 1 \in EntryNos
      BY <1>c, <2>3 DEF Receive, EntryNos
    <3>2. QED BY <1>e, <2>3, <3>1 DEF Receive, stream, history
  <2>4. ASSUME NEW d \in Daemons, ListPending(d) PROVE Entries'
    <3>1. Oldest(ClaimCount) \subseteq EntryNos
      BY DEF Oldest, Pending
    <3>2. QED BY <1>e, <2>4, <3>1 DEF ListPending, stream, group, history
  <2>5. ASSUME NEW d \in Daemons, ClaimPending(d) PROVE Entries'
    BY <1>e, <2>5 DEF ClaimPending, stream
  <2>6. ASSUME NEW d \in Daemons, Execute(d) PROVE Entries'
    BY <1>e, <2>6 DEF Execute, stream, group
  <2>7. ASSUME NEW d \in Daemons, Acknowledge(d) \/ AcknowledgeFails(d) PROVE Entries'
    BY <1>e, <2>7 DEF Acknowledge, AcknowledgeFails, Settled, stream, group, history
  <2>8. ASSUME NEW d \in Daemons,
               \/ Boot(d) \/ Initialised(d) \/ InitialiseFails(d) \/ Repair(d)
               \/ RecoverMissing(d) \/ RecoverGroup(d)
        PROVE  UNCHANGED <<malformed, acked, holder, haul, done>>
    BY <2>8
    DEF Boot, Initialised, InitialiseFails, Repair, RecoverMissing, RecoverGroup, MakeGroup,
        stream, group, history
  <2>9. CASE Submit \/ UNCHANGED recoveryVars
    BY <2>1, <2>9 DEF Submit, recoveryVars, stream, group, daemon, history
  <2>10. QED BY <2>1, <2>2, <2>3, <2>4, <2>5, <2>6, <2>7, <2>8, <2>9 DEF RecoveryNext
<1>5. QED BY <1>g, <1>1, <1>2, <1>3, <1>4

LEMMA HandsEmptyStep ==
    ASSUME RecoveryTypeOK, HandsEmpty, [RecoveryNext]_recoveryVars
    PROVE  HandsEmpty'
<1>t. /\ DOMAIN post = Daemons /\ DOMAIN haul = Daemons
      /\ \A d \in Daemons : post[d] \notin {"serving", "claiming", "recovered"} => haul[d] = {}
  BY DEF RecoveryTypeOK, HandsEmpty
<1>1. ASSUME NEW d \in Daemons,
             \/ Boot(d) \/ Crash(d) \/ Initialised(d) \/ InitialiseFails(d) \/ Receive(d)
             \/ Repair(d) \/ RecoverMissing(d) \/ RecoverGroup(d) \/ RecoverFails(d)
      PROVE  HandsEmpty'
  BY <1>t, <1>1
  DEF HandsEmpty, Boot, Crash, Initialised, InitialiseFails, Receive, Repair, RecoverMissing, RecoverGroup,
      RecoverFails, Returns, TurnsTo
<1>2. ASSUME NEW d \in Daemons, ListPending(d) PROVE HandsEmpty'
  <2>1. Pending = {} => Oldest(ClaimCount) = {}
    BY DEF Oldest
  <2>2. QED BY <1>t, <1>2, <2>1 DEF HandsEmpty, ListPending, Returns, TurnsTo
<1>3. ASSUME NEW d \in Daemons, ClaimPending(d) \/ Execute(d) PROVE HandsEmpty'
  BY <1>t, <1>3 DEF HandsEmpty, ClaimPending, Execute, TurnsTo
<1>4. ASSUME NEW d \in Daemons, Acknowledge(d) \/ AcknowledgeFails(d) PROVE HandsEmpty'
  BY <1>t, <1>4 DEF HandsEmpty, Acknowledge, AcknowledgeFails, AllRan, Settled, Returns, TurnsTo
<1>5. CASE Submit \/ UNCHANGED recoveryVars
  BY <1>t, <1>5 DEF HandsEmpty, Submit, recoveryVars, daemon
<1>6. QED BY <1>1, <1>2, <1>3, <1>4, <1>5 DEF RecoveryNext

\* Runs are never taken back.
LEMMA RunsGrow ==
    ASSUME RecoveryTypeOK, [RecoveryNext]_recoveryVars
    PROVE  UNCHANGED malformed /\ \A e \in EntryNos : ran[e] > 0 => ran'[e] > 0
<1>t. ran \in [EntryNos -> Nat]
  BY DEF RecoveryTypeOK
<1>1. ASSUME NEW d \in Daemons, Execute(d)
      PROVE  UNCHANGED malformed /\ \A e \in EntryNos : ran[e] > 0 => ran'[e] > 0
  <2>1. PICK f \in haul[d] : ran' = [ran EXCEPT ![f] = @ + 1]
    BY <1>1 DEF Execute
  <2>2. UNCHANGED malformed
    BY <1>1 DEF Execute, stream
  <2>3. QED BY <1>t, <2>1, <2>2
<1>2. ASSUME NEW d \in Daemons,
             \/ Boot(d) \/ Crash(d) \/ Initialised(d) \/ InitialiseFails(d) \/ Receive(d)
             \/ Repair(d) \/ RecoverMissing(d) \/ RecoverGroup(d) \/ RecoverFails(d)
             \/ ListPending(d) \/ ClaimPending(d) \/ Acknowledge(d) \/ AcknowledgeFails(d)
      PROVE  UNCHANGED <<malformed, ran>>
  BY <1>2
  DEF Boot, Crash, Initialised, InitialiseFails, Receive, Repair, RecoverMissing, RecoverGroup, RecoverFails,
      ListPending, ClaimPending, Acknowledge, AcknowledgeFails, MakeGroup, stream, history
<1>3. CASE Submit \/ UNCHANGED recoveryVars
  BY <1>3 DEF Submit, recoveryVars, stream, history
<1>4. QED BY <1>1, <1>2, <1>3 DEF RecoveryNext

LEMMA NothingDroppedStep ==
    ASSUME RecoveryTypeOK, NothingDropped, DoneRight, [RecoveryNext]_recoveryVars
    PROVE  NothingDropped' /\ DoneRight'
<1> DEFINE Right(e) == ran[e] > 0 \/ e \in malformed
<1>t. /\ ran \in [EntryNos -> Nat] /\ acked \subseteq EntryNos /\ malformed \subseteq EntryNos
      /\ haul \in [Daemons -> SUBSET EntryNos] /\ done \in [Daemons -> SUBSET EntryNos]
  BY DEF RecoveryTypeOK
<1>i. (\A e \in acked : Right(e)) /\ \A d \in Daemons : \A e \in done[d] : Right(e)
  BY DEF NothingDropped, DoneRight
<1>m. \A e \in EntryNos : Right(e) => Right(e)'
  BY RunsGrow
<1>g. ASSUME \A e \in acked' : (e \in EntryNos /\ Right(e)) \/ Right(e)',
             \A d \in Daemons : \A e \in done'[d] : (e \in EntryNos /\ Right(e)) \/ Right(e)'
      PROVE  NothingDropped' /\ DoneRight'
  BY <1>m, <1>g DEF NothingDropped, DoneRight
<1>a. \A e \in acked : e \in EntryNos /\ Right(e)
  BY <1>t, <1>i
<1>d. \A d \in Daemons : \A e \in done[d] : e \in EntryNos /\ Right(e)
  BY <1>t, <1>i
<1> HIDE DEF Right
<1>1. CASE acked' = acked /\ \A d \in Daemons : done'[d] \subseteq done[d]
  BY <1>g, <1>a, <1>d, <1>1
<1>2. ASSUME NEW d \in Daemons,
             \/ Boot(d) \/ Crash(d) \/ Initialised(d) \/ InitialiseFails(d)
             \/ Repair(d) \/ RecoverMissing(d) \/ RecoverGroup(d) \/ RecoverFails(d)
             \/ ListPending(d) \/ AcknowledgeFails(d)
      PROVE  acked' = acked /\ \A q \in Daemons : done'[q] \subseteq done[q]
  BY <1>t, <1>2
  DEF Boot, Crash, Initialised, InitialiseFails, Repair, RecoverMissing, RecoverGroup, RecoverFails,
      ListPending, AcknowledgeFails, Settled, history
<1>3. ASSUME NEW d \in Daemons, Receive(d) PROVE NothingDropped' /\ DoneRight'
  <2>1. /\ acked' = acked
        /\ \A q \in Daemons : \A e \in done'[q] : e \in done[q] \/ e \in malformed
    BY <1>t, <1>3 DEF Receive, history
  <2>2. \A e \in malformed : e \in EntryNos /\ Right(e)
    BY <1>t DEF Right
  <2>3. QED BY <1>g, <1>a, <1>d, <2>1, <2>2
<1>4. ASSUME NEW d \in Daemons, ClaimPending(d) PROVE NothingDropped' /\ DoneRight'
  <2>1. done' = done /\ \A e \in acked' : e \in acked \/ e \in malformed
    BY <1>4 DEF ClaimPending, Evictable
  <2>2. \A e \in malformed : e \in EntryNos /\ Right(e)
    BY <1>t DEF Right
  <2>3. QED BY <1>g, <1>a, <1>d, <2>1, <2>2
<1>5. ASSUME NEW d \in Daemons, Execute(d) PROVE NothingDropped' /\ DoneRight'
  <2>1. PICK f \in haul[d] : ran' = [ran EXCEPT ![f] = @ + 1] /\ done' = [done EXCEPT ![d] = @ \cup {f}]
    BY <1>5 DEF Execute
  <2>2. Right(f)'
    BY <1>t, <2>1 DEF Right
  <2>3. acked' = acked
    BY <1>5 DEF Execute
  <2>4. \A q \in Daemons : \A e \in done'[q] : e \in done[q] \/ e = f
    BY <1>t, <2>1
  <2>5. QED BY <1>g, <1>a, <1>d, <2>2, <2>3, <2>4
<1>6. ASSUME NEW d \in Daemons, Acknowledge(d) PROVE NothingDropped' /\ DoneRight'
  <2>1. acked' = acked \cup done[d] /\ \A q \in Daemons : done'[q] \subseteq done[q]
    BY <1>t, <1>6 DEF Acknowledge, Settled
  <2>2. QED BY <1>g, <1>a, <1>d, <2>1
<1>7. CASE Submit \/ UNCHANGED recoveryVars
  BY <1>1, <1>7 DEF Submit, recoveryVars, daemon, history
<1>8. QED BY <1>1, <1>2, <1>3, <1>4, <1>5, <1>6, <1>7 DEF RecoveryNext

LEMMA RunsToComeStep ==
    ASSUME RecoveryTypeOK, HandsEmpty, RunsToCome, [RecoveryNext]_recoveryVars
    PROVE  RunsToCome'
<1>t. /\ DOMAIN post = Daemons
      /\ haul \in [Daemons -> SUBSET EntryNos] /\ done \in [Daemons -> SUBSET EntryNos]
  BY DEF RecoveryTypeOK
<1>n. ran \in [EntryNos -> Nat] /\ deliveries \in [EntryNos -> Nat]
  BY DEF RecoveryTypeOK
<1>h. \A d \in Daemons : post[d] \notin {"serving", "claiming", "recovered"} => haul[d] = {}
  BY DEF HandsEmpty
<1> DEFINE Kept(e) == ran'[e] = ran[e] /\ deliveries'[e] = deliveries[e] /\ Holding(e)' \subseteq Holding(e)
           Given(e) == /\ ran'[e] = ran[e] /\ deliveries'[e] = deliveries[e] + 1
                       /\ \E d \in Daemons : Holding(e)' \subseteq Holding(e) \cup {d}
           Used(e) == /\ ran'[e] = ran[e] + 1 /\ deliveries'[e] = deliveries[e]
                      /\ \E d \in Holding(e) : Holding(e)' \subseteq Holding(e) \ {d}
<1>g. ASSUME \A e \in EntryNos : Kept(e) \/ Given(e) \/ Used(e) PROVE RunsToCome'
  <2> SUFFICES ASSUME NEW e \in EntryNos PROVE ran'[e] + Cardinality(Holding(e)') <= deliveries'[e]
    BY DEF RunsToCome
  <2>1. ran[e] \in Nat /\ deliveries[e] \in Nat
    BY <1>n
  <2>2. Holding(e) \in SUBSET Daemons /\ Holding(e)' \in SUBSET Daemons
    BY DEF Holding
  <2>3. ran[e] + Cardinality(Holding(e)) <= deliveries[e]
    BY DEF RunsToCome
  <2>4. Kept(e) \/ Given(e) \/ Used(e)
    BY <1>g
  <2> HIDE DEF Holding
  <2>5. QED BY <2>1, <2>2, <2>3, <2>4, RunsStayBounded
<1>1. ASSUME UNCHANGED <<ran, deliveries>>, \A e \in EntryNos : Holding(e)' \subseteq Holding(e)
      PROVE  RunsToCome'
  BY <1>g, <1>1
<1>2. ASSUME NEW d \in Daemons,
             \/ Boot(d) \/ Crash(d) \/ Initialised(d) \/ InitialiseFails(d)
             \/ Repair(d) \/ RecoverMissing(d) \/ RecoverGroup(d) \/ RecoverFails(d)
      PROVE  RunsToCome'
  <2>1. UNCHANGED <<ran, deliveries>>
    BY <1>2
    DEF Boot, Crash, Initialised, InitialiseFails, Repair, RecoverMissing, RecoverGroup, RecoverFails,
        MakeGroup, group, history
  <2>2. \A e \in EntryNos : Holding(e)' \subseteq Holding(e)
    BY <1>t, <1>h, <1>2
    DEF Holding, Boot, Crash, Initialised, InitialiseFails, Repair, RecoverMissing, RecoverGroup, RecoverFails,
        Returns, TurnsTo
  <2>3. QED BY <1>1, <2>1, <2>2
<1>3. ASSUME NEW d \in Daemons, ListPending(d) PROVE RunsToCome'
  <2>1. UNCHANGED <<ran, deliveries>>
    BY <1>3 DEF ListPending, group, history
  <2>2. \A e \in EntryNos : Holding(e)' \subseteq Holding(e)
    BY <1>t, <1>3 DEF Holding, ListPending, Returns, TurnsTo
  <2>3. QED BY <1>1, <2>1, <2>2
<1>4. ASSUME NEW d \in Daemons, Receive(d) PROVE RunsToCome'
  <2>1. haul[d] = {} /\ UNCHANGED <<ran, post>>
    BY <1>4 DEF Receive, history
  <2>2. deliveries' = [deliveries EXCEPT ![cursor + 1] = @ + 1] /\ haul' = [haul EXCEPT ![d] = {cursor + 1} \ malformed]
    BY <1>4 DEF Receive
  <2> DEFINE c == cursor + 1
  <2>3. deliveries' = [deliveries EXCEPT ![c] = @ + 1] /\ haul' = [haul EXCEPT ![d] = {c} \ malformed]
    BY <2>2
  <2> HIDE DEF c
  <2>4. ASSUME NEW e \in EntryNos, e # c PROVE Kept(e)
    BY <1>t, <1>n, <2>1, <2>3, <2>4 DEF Holding
  <2>5. ASSUME NEW e \in EntryNos, e = c PROVE Given(e)
    <3>1. Holding(e)' \subseteq Holding(e) \cup {d}
      BY <1>t, <2>1, <2>3 DEF Holding
    <3>2. ran'[e] = ran[e] /\ deliveries'[e] = deliveries[e] + 1
      BY <1>n, <2>1, <2>3, <2>5
    <3>3. QED BY <3>1, <3>2
  <2>6. QED BY <1>g, <2>4, <2>5
<1>5. ASSUME NEW d \in Daemons, ClaimPending(d) PROVE RunsToCome'
  <2> DEFINE taken == haul[d] \cap Pending
  <2>1. UNCHANGED ran /\ post[d] = "claiming" /\ post' = [post EXCEPT ![d] = "recovered"]
    BY <1>5 DEF ClaimPending, TurnsTo
  <2>2. /\ deliveries' = [e \in EntryNos |-> IF e \in taken THEN deliveries[e] + 1 ELSE deliveries[e]]
        /\ haul' = [haul EXCEPT ![d] = taken \ malformed]
    BY <1>5 DEF ClaimPending, TriesAfterClaim
  <2> HIDE DEF taken
  <2>3. ASSUME NEW e \in EntryNos, e \notin taken PROVE Kept(e)
    BY <1>t, <1>n, <2>1, <2>2, <2>3 DEF Holding
  <2>4. ASSUME NEW e \in EntryNos, e \in taken PROVE Given(e)
    <3>1. Holding(e)' \subseteq Holding(e) \cup {d}
      BY <1>t, <2>1, <2>2 DEF Holding
    <3>2. ran'[e] = ran[e] /\ deliveries'[e] = deliveries[e] + 1
      BY <1>n, <2>1, <2>2, <2>4
    <3>3. QED BY <3>1, <3>2
  <2>5. QED BY <1>g, <2>3, <2>4
<1>6. ASSUME NEW d \in Daemons, Execute(d) PROVE RunsToCome'
  <2>1. PICK f \in haul[d] : ran' = [ran EXCEPT ![f] = @ + 1] /\ haul' = [haul EXCEPT ![d] = @ \ {f}]
    BY <1>6 DEF Execute
  <2>2. UNCHANGED <<deliveries, post>> /\ post[d] \in {"serving", "recovered"}
    BY <1>6 DEF Execute, group
  <2>3. ASSUME NEW e \in EntryNos, e # f PROVE Kept(e)
    BY <1>t, <1>n, <2>1, <2>2, <2>3 DEF Holding
  <2>4. ASSUME NEW e \in EntryNos, e = f PROVE Used(e)
    <3>1. d \in Holding(e) /\ Holding(e)' \subseteq Holding(e) \ {d}
      BY <1>t, <2>1, <2>2, <2>4 DEF Holding
    <3>2. ran'[e] = ran[e] + 1 /\ deliveries'[e] = deliveries[e]
      BY <1>n, <2>1, <2>2, <2>4
    <3>3. QED BY <3>1, <3>2
  <2>5. QED BY <1>g, <2>3, <2>4
<1>7. ASSUME NEW d \in Daemons, Acknowledge(d) \/ AcknowledgeFails(d) PROVE RunsToCome'
  <2>1. UNCHANGED <<ran, deliveries>>
    BY <1>7 DEF Acknowledge, AcknowledgeFails, group, history
  <2>2. \A e \in EntryNos : Holding(e)' \subseteq Holding(e)
    BY <1>t, <1>7 DEF Holding, Acknowledge, AcknowledgeFails, AllRan, Settled, Returns, TurnsTo
  <2>3. QED BY <1>1, <2>1, <2>2
<1>8. CASE Submit \/ UNCHANGED recoveryVars
  BY <1>1, <1>8 DEF Submit, recoveryVars, group, daemon, history, Holding
<1>9. QED BY <1>2, <1>3, <1>4, <1>5, <1>6, <1>7, <1>8 DEF RecoveryNext

LEMMA RecoveryInvInit == RecoveryInit => RecoveryInv
<1> SUFFICES ASSUME RecoveryInit PROVE RecoveryInv
  OBVIOUS
<1>1. HandsEmpty /\ NothingDropped /\ DoneRight
  BY DEF RecoveryInit, HandsEmpty, NothingDropped, DoneRight
<1>2. RunsToCome
  <2>1. \A e \in EntryNos : Holding(e) = {} /\ ran[e] = 0 /\ deliveries[e] = 0
    BY DEF RecoveryInit, Holding
  <2>2. QED BY <2>1, FS_EmptySet DEF RunsToCome
<1>3. QED BY <1>1, <1>2, RecoveryTypeInit DEF RecoveryInv

LEMMA RecoveryInvStep == RecoveryInv /\ [RecoveryNext]_recoveryVars => RecoveryInv'
BY RecoveryTypeStep, HandsEmptyStep, NothingDroppedStep, RunsToComeStep DEF RecoveryInv

\* Whatever daemons crash, restart and take over from one another, what is acknowledged was
\* run or does not parse, and the deliveries of an entry bound its runs.
THEOREM PendingIsRunAsDelivered == RecoverySpec => []RunAsDelivered
<1>1. RecoveryInv => RunAsDelivered
  <2> SUFFICES ASSUME RecoveryInv PROVE NothingDropped /\ OncePerDelivery
    BY DEF RunAsDelivered
  <2>1. ASSUME NEW e \in EntryNos PROVE ran[e] <= deliveries[e]
    <3>1. ran[e] \in Nat /\ deliveries[e] \in Nat
      BY DEF RecoveryInv, RecoveryTypeOK
    <3>2. Cardinality(Holding(e)) \in Nat
      <4>1. Holding(e) \in SUBSET Daemons
        BY DEF Holding
      <4>2. QED BY <4>1, HoldersCounted
    <3>3. ran[e] + Cardinality(Holding(e)) <= deliveries[e]
      BY DEF RecoveryInv, RunsToCome
    <3>4. QED BY <3>1, <3>2, <3>3
  <2>2. QED BY <2>1 DEF RecoveryInv, OncePerDelivery
<1>2. QED BY <1>1, RecoveryInvInit, RecoveryInvStep, PTL DEF RecoverySpec

-----------------------------------------------------------------------------
(* FormatBroadcast.  What a registry knows is on its way to the index, and  *)
(* a reader goes on where it stopped, or behind what has been trimmed.      *)

FormatShapes ==
    /\ news \in Seq(Formats) /\ trimmedTo \in Nat /\ agedTo \in Nat
    /\ lastId \in [Readers -> Nat \cup {Latest}] /\ blockedAt \in [Readers -> Nat]
    /\ seen \in [Readers -> SUBSET Nat]
    /\ DOMAIN doing = Readers /\ DOMAIN known = Readers /\ DOMAIN storing = Readers
    /\ DOMAIN restoring = Readers

\* A format is stored before it is indexed, and only between the two is one in the hand.
StoringInOrder ==
    \A n \in Readers :
        /\ storing[n] # NoFormat => doing[n] \in {"store", "index"}
        /\ doing[n] = "index" => storing[n] \in stored
        /\ restoring[n] \subseteq indexed /\ NoFormat \notin known[n]

\* Only what is old is trimmed; a reader that waits, waits where it stopped.
ReadingInOrder ==
    /\ trimmedTo <= agedTo
    /\ \A n \in Readers :
        /\ seen[n] # {} => lastId[n] # Latest
        /\ doing[n] = "blocked" /\ lastId[n] # Latest => blockedAt[n] = lastId[n]

FormatInv ==
    /\ FormatShapes
    /\ KnownIsDurable /\ StoringInOrder
    /\ NoGapAfterFirst /\ ReadingInOrder

\* What a read returns: consecutive messages, from the first that is left behind the position.
LEMMA ReadsInARow ==
    ASSUME NEW p \in Nat, FormatShapes, After(p) # <<>>
    PROVE  \E from, to \in Nat :
              /\ from < to /\ from = IF p < trimmedTo THEN trimmedTo ELSE p
              /\ {After(p)[i] : i \in DOMAIN After(p)} = from + 1 .. to
              /\ After(p)[Len(After(p))] = to
<1> DEFINE from == IF p < trimmedTo THEN trimmedTo ELSE p
           k    == IF Len(news) - from < ReadCount THEN Len(news) - from ELSE ReadCount
<1>1. from \in Nat /\ Len(news) \in Nat /\ ReadCount \in Nat /\ k \in Int
  BY FormatAssumption DEF FormatShapes
<1>2. After(p) = [i \in 1 .. k |-> from + i]
  BY DEF After
<1> HIDE DEF from, k
<1>3. k \in Nat /\ k > 0
  <2>1. CASE k <= 0
    <3>1. 1 .. k = {}
      BY <1>1, <2>1
    <3>2. After(p) = [i \in {} |-> from + i]
      BY <1>2, <3>1
    <3>3. After(p) = <<>>
      BY <3>2
    <3>4. QED BY <3>3
  <2>2. QED BY <1>1, <2>1
<1>4. After(p) \in Seq(Nat) /\ Len(After(p)) = k /\ DOMAIN After(p) = 1 .. k
  BY <1>1, <1>2, <1>3
<1>5. After(p)[k] = from + k
  BY <1>1, <1>2, <1>3
<1>6. {After(p)[i] : i \in DOMAIN After(p)} = from + 1 .. from + k
  <2>1. \A i \in 1 .. k : After(p)[i] = from + i
    BY <1>2
  <2>2. \A x \in from + 1 .. from + k : x - from \in 1 .. k /\ from + (x - from) = x
    BY <1>1, <1>3
  <2>3. \A i \in 1 .. k : from + i \in from + 1 .. from + k
    BY <1>1, <1>3
  <2>4. QED BY <1>4, <2>1, <2>2, <2>3
<1>7. from + k \in Nat /\ from < from + k
  BY <1>1, <1>3
<1>8. After(p)[Len(After(p))] = from + k
  BY <1>4, <1>5
<1>9. from = IF p < trimmedTo THEN trimmedTo ELSE p
  BY DEF from
<1>10. QED BY <1>1, <1>6, <1>7, <1>8, <1>9

LEMMA FormatInvInit == FormatInit => FormatInv
<1> SUFFICES ASSUME FormatInit PROVE FormatInv
  OBVIOUS
<1>1. FormatShapes
  BY DEF FormatInit, FormatShapes
<1>2. KnownIsDurable /\ StoringInOrder /\ NoGapAfterFirst
  BY DEF FormatInit, KnownIsDurable, StoringInOrder, NoGapAfterFirst
<1>3. ReadingInOrder
  BY DEF FormatInit, ReadingInOrder
<1>4. QED BY <1>1, <1>2, <1>3 DEF FormatInv

LEMMA FormatShapesStep ==
    ASSUME FormatShapes, [FormatNext]_formatVars
    PROVE  FormatShapes'
<1> DEFINE Feed    == news \in Seq(Formats) /\ trimmedTo \in Nat /\ agedTo \in Nat
           Read    == /\ lastId \in [Readers -> Nat \cup {Latest}] /\ blockedAt \in [Readers -> Nat]
                      /\ seen \in [Readers -> SUBSET Nat]
           Domains == /\ DOMAIN doing = Readers /\ DOMAIN known = Readers /\ DOMAIN storing = Readers
                      /\ DOMAIN restoring = Readers
<1>f. Feed
  BY DEF FormatShapes
<1>r. Read
  BY DEF FormatShapes
<1>d. Domains
  BY DEF FormatShapes
<1>1. Feed'
  <2>1. CASE UNCHANGED <<news, trimmedTo, agedTo>>
    BY <1>f, <2>1
  <2>2. ASSUME NEW f \in Formats, Announce(f) PROVE Feed'
    BY <1>f, <2>2 DEF Announce
  <2>3. CASE Age
    BY <1>f, <2>3 DEF Age
  <2>4. ASSUME NEW n \in Readers, ReadDone(n) PROVE Feed'
    BY <1>f, <2>4 DEF ReadDone
  <2>5. ASSUME NEW n \in Readers,
               \/ Perish(n) \/ ReadIndex(n) \/ (\E m \in Member : RestoreOne(n, m)) \/ Restored(n)
               \/ RestoreFails(n) \/ ReadNow(n) \/ Block(n) \/ Woken(n) \/ WaitEnds(n) \/ ReadBroken(n)
               \/ SleepOver(n) \/ ApplyOne(n) \/ ApplyFails(n) \/ StoreDefinition(n) \/ StoreIndex(n)
               \/ StoreFails(n)
        PROVE  UNCHANGED feed
    BY <2>5
    DEF Perish, ReadIndex, RestoreOne, Restored, RestoreFails, ReadNow, Block, Woken, WaitEnds, ReadBroken,
        SleepOver, ApplyOne, ApplyFails, StoreDefinition, StoreIndex, StoreFails
  <2>6. CASE UNCHANGED formatVars
    BY <2>1, <2>6 DEF formatVars, feed
  <2>7. QED BY <2>1, <2>2, <2>3, <2>4, <2>5, <2>6 DEF FormatNext, feed
<1>2. Read'
  <2>1. CASE UNCHANGED <<lastId, blockedAt, seen>>
    BY <1>r, <2>1
  <2>2. ASSUME NEW n \in Readers, Perish(n) PROVE Read'
    BY <1>r, <2>2 DEF Perish
  <2>p. ASSUME NEW n \in Readers PROVE Position(n) \in Nat /\ blockedAt[n] \in Nat
    BY <1>f, <1>r DEF Position
  <2>3. ASSUME NEW n \in Readers, NEW p \in Nat, After(p) # <<>>, TakeIn(n, p)
        PROVE  lastId' \in [Readers -> Nat \cup {Latest}] /\ seen' \in [Readers -> SUBSET Nat]
    <3>1. PICK from, to \in Nat :
              /\ {After(p)[i] : i \in DOMAIN After(p)} = from + 1 .. to
              /\ After(p)[Len(After(p))] = to
      BY <2>3, ReadsInARow
    <3>2. lastId' = [lastId EXCEPT ![n] = to]
      BY <2>3, <3>1 DEF TakeIn, NextId
    <3>3. seen' = [seen EXCEPT ![n] = @ \cup from + 1 .. to]
      BY <2>3, <3>1 DEF TakeIn
    <3>4. from + 1 .. to \subseteq Nat
      OBVIOUS
    <3>5. QED BY <1>r, <3>2, <3>3, <3>4
  <2>4. ASSUME NEW n \in Readers, ReadNow(n) \/ Woken(n) PROVE Read'
    <3>1. UNCHANGED blockedAt
      BY <2>4 DEF ReadNow, Woken
    <3>2. QED BY <1>r, <2>p, <2>3, <2>4, <3>1 DEF ReadNow, Woken
  <2>5. ASSUME NEW n \in Readers, Block(n) PROVE Read'
    BY <1>r, <2>p, <2>5 DEF Block
  <2>6. ASSUME NEW n \in Readers,
               \/ ReadIndex(n) \/ (\E m \in Member : RestoreOne(n, m)) \/ Restored(n)
               \/ RestoreFails(n) \/ WaitEnds(n) \/ ReadBroken(n)
               \/ SleepOver(n) \/ ApplyOne(n) \/ ApplyFails(n) \/ StoreDefinition(n) \/ StoreIndex(n)
               \/ StoreFails(n) \/ ReadDone(n)
        PROVE  UNCHANGED <<lastId, blockedAt, seen>>
    BY <2>6
    DEF ReadIndex, RestoreOne, Restored, RestoreFails, WaitEnds, ReadBroken, SleepOver, ApplyOne, ApplyFails,
        StoreDefinition, StoreIndex, StoreFails, ReadDone, reader, past
  <2>7. ASSUME (\E f \in Formats : Announce(f)) \/ Age \/ UNCHANGED formatVars
        PROVE  UNCHANGED <<lastId, blockedAt, seen>>
    BY <2>7 DEF Announce, Age, formatVars, reader, past
  <2>8. QED BY <2>1, <2>2, <2>4, <2>5, <2>6, <2>7 DEF FormatNext
<1>3. Domains'
  <2>1. ASSUME NEW n \in Readers,
               \/ Perish(n) \/ ReadIndex(n) \/ (\E m \in Member : RestoreOne(n, m)) \/ Restored(n)
               \/ RestoreFails(n) \/ ReadNow(n) \/ Block(n) \/ Woken(n) \/ WaitEnds(n)
        PROVE  Domains'
    BY <1>d, <2>1
    DEF Perish, ReadIndex, RestoreOne, Register, Restored, RestoreFails, ReadNow, Block, Woken, WaitEnds,
        Goes, registry
  <2>2. ASSUME NEW n \in Readers,
               \/ ReadBroken(n) \/ SleepOver(n) \/ ApplyOne(n) \/ ApplyFails(n) \/ StoreDefinition(n)
               \/ StoreIndex(n) \/ StoreFails(n) \/ ReadDone(n)
        PROVE  Domains'
    BY <1>d, <2>2
    DEF ReadBroken, SleepOver, ApplyOne, Register, ApplyFails, StoreDefinition, StoreIndex, StoreFails,
        ReadDone, Goes, registry
  <2>3. CASE (\E f \in Formats : Announce(f)) \/ Age \/ UNCHANGED formatVars
    BY <1>d, <2>3 DEF Announce, Age, formatVars, registry
  <2>4. QED BY <2>1, <2>2, <2>3 DEF FormatNext
<1>4. QED BY <1>1, <1>2, <1>3 DEF FormatShapes

LEMMA KnownIsDurableStep ==
    ASSUME FormatShapes, KnownIsDurable, StoringInOrder, [FormatNext]_formatVars
    PROVE  KnownIsDurable' /\ StoringInOrder'
<1>d. /\ DOMAIN doing = Readers /\ DOMAIN known = Readers /\ DOMAIN storing = Readers
      /\ DOMAIN restoring = Readers
  BY DEF FormatShapes
<1>k. /\ indexed \subseteq stored
      /\ \A n \in Readers : \A m \in known[n] :
           m \in indexed \cup unstored \/ \E o \in Readers : storing[o] = m
  BY DEF KnownIsDurable
<1>s. \A n \in Readers :
        /\ storing[n] # NoFormat => doing[n] \in {"store", "index"}
        /\ doing[n] = "index" => storing[n] \in stored
        /\ restoring[n] \subseteq indexed /\ NoFormat \notin known[n]
  BY DEF StoringInOrder
<1> DEFINE Durable(m) == m \in indexed \cup unstored \/ \E o \in Readers : storing[o] = m
\* A step that stores, restores and learns nothing.
<1>1. ASSUME UNCHANGED <<stored, indexed, known, storing, restoring, unstored>>,
             \A n \in Readers :
                 \/ doing'[n] = doing[n]
                 \/ doing[n] \notin {"store", "index"} /\ doing'[n] \notin {"store", "index"}
      PROVE  KnownIsDurable' /\ StoringInOrder'
  <2>1. KnownIsDurable'
    BY <1>k, <1>1 DEF KnownIsDurable
  <2>2. StoringInOrder'
    BY <1>s, <1>1 DEF StoringInOrder
  <2>3. QED BY <2>1, <2>2
<1>2. ASSUME NEW n \in Readers,
             \/ Restored(n) \/ ReadNow(n) \/ Block(n) \/ Woken(n) \/ WaitEnds(n) \/ ReadBroken(n)
             \/ SleepOver(n) \/ ApplyFails(n) \/ ReadDone(n)
      PROVE  KnownIsDurable' /\ StoringInOrder'
  <2>1. UNCHANGED <<stored, indexed, known, storing, restoring, unstored>>
    BY <1>2
    DEF Restored, ReadNow, Block, Woken, WaitEnds, ReadBroken, SleepOver, ApplyFails, ReadDone,
        valkeyFmt, registry, past
  <2>2. \A q \in Readers :
            \/ doing'[q] = doing[q]
            \/ doing[q] \notin {"store", "index"} /\ doing'[q] \notin {"store", "index"}
    BY <1>d, <1>2
    DEF Restored, ReadNow, Block, Woken, WaitEnds, ReadBroken, SleepOver, ApplyFails, ReadDone, Goes
  <2>3. QED BY <1>1, <2>1, <2>2
<1>3. ASSUME (\E f \in Formats : Announce(f)) \/ Age \/ UNCHANGED formatVars
      PROVE  KnownIsDurable' /\ StoringInOrder'
  BY <1>1, <1>3 DEF Announce, Age, formatVars, valkeyFmt, registry, past
<1>4. ASSUME NEW n \in Readers, ReadIndex(n) \/ RestoreFails(n) PROVE KnownIsDurable' /\ StoringInOrder'
  <2>1. /\ UNCHANGED <<stored, indexed, known, storing, unstored>>
        /\ doing[n] \notin {"store", "index"} /\ doing'[n] \notin {"store", "index"}
        /\ restoring'[n] \subseteq indexed
        /\ \A q \in Readers \ {n} : doing'[q] = doing[q] /\ restoring'[q] = restoring[q]
    BY <1>d, <1>4 DEF ReadIndex, RestoreFails, Goes, valkeyFmt, registry, past
  <2>2. KnownIsDurable'
    BY <1>k, <2>1 DEF KnownIsDurable
  <2>3. StoringInOrder'
    BY <1>s, <2>1 DEF StoringInOrder
  <2>4. QED BY <2>2, <2>3
<1>5. ASSUME NEW n \in Readers, Perish(n) PROVE KnownIsDurable' /\ StoringInOrder'
  <2>1. /\ UNCHANGED <<stored, indexed>>
        /\ storing' = [storing EXCEPT ![n] = NoFormat]
        /\ storing[n] = NoFormat \/ unstored' = unstored \cup {storing[n]}
        /\ unstored \subseteq unstored'
        /\ known' = [known EXCEPT ![n] = {}] /\ restoring' = [restoring EXCEPT ![n] = {}]
        /\ doing' = [doing EXCEPT ![n] = "down"]
    BY <1>5 DEF Perish, Goes, valkeyFmt
  <2>2. ASSUME NEW m, m # NoFormat, Durable(m) PROVE Durable(m)'
    <3>1. CASE m \in indexed \cup unstored
      BY <2>1, <3>1
    <3>2. ASSUME NEW o \in Readers, storing[o] = m PROVE Durable(m)'
      <4>1. CASE o = n
        BY <2>1, <2>2, <3>2, <4>1
      <4>2. CASE o # n
        BY <1>d, <2>1, <3>2, <4>2
      <4>3. QED BY <4>1, <4>2
    <3>3. QED BY <2>2, <3>1, <3>2
  <2>3. KnownIsDurable'
    <3>1. \A q \in Readers : \A m \in known'[q] : m # NoFormat /\ Durable(m)
      BY <1>d, <1>k, <1>s, <2>1
    <3>2. indexed' \subseteq stored'
      BY <1>k, <2>1
    <3>3. QED BY <2>2, <3>1, <3>2 DEF KnownIsDurable
  <2>4. StoringInOrder'
    BY <1>d, <1>s, <2>1 DEF StoringInOrder
  <2>5. QED BY <2>3, <2>4
<1>6. ASSUME NEW n \in Readers, NEW m \in Member, RestoreOne(n, m) PROVE KnownIsDurable' /\ StoringInOrder'
  <2>1. /\ UNCHANGED <<stored, indexed, storing, unstored, doing>>
        /\ m \in indexed
        /\ restoring' = [restoring EXCEPT ![n] = @ \ {m}]
        /\ \A q \in Readers : \A o \in known'[q] : o \in known[q] \/ o = m
    BY <1>d, <1>s, <1>6 DEF RestoreOne, Register, valkeyFmt, registry, past
  <2>2. m # NoFormat
    BY DEF Member, NoFormat
  <2>3. KnownIsDurable'
    BY <1>k, <2>1 DEF KnownIsDurable
  <2>4. StoringInOrder'
    BY <1>d, <1>s, <2>1, <2>2 DEF StoringInOrder
  <2>5. QED BY <2>3, <2>4
<1>7. ASSUME NEW n \in Readers, ApplyOne(n) PROVE KnownIsDurable' /\ StoringInOrder'
  <2> DEFINE m == <<Heard(n), version[Heard(n)]>>
  <2>1. /\ UNCHANGED <<stored, indexed, unstored, restoring>>
        /\ doing[n] = "apply" /\ doing' = [doing EXCEPT ![n] = "store"]
        /\ storing' = [storing EXCEPT ![n] = m]
        /\ known' = [known EXCEPT ![n] = @ \cup {m}]
    BY <1>7 DEF ApplyOne, Register, Goes, valkeyFmt, past
  <2>2. m # NoFormat
    BY DEF NoFormat
  <2> HIDE DEF m
  <2>3. storing[n] = NoFormat
    BY <1>s, <2>1
  <2>4. KnownIsDurable'
    <3>1. ASSUME NEW q \in Readers, NEW o \in known'[q] PROVE Durable(o)'
      <4>1. CASE o = m
        BY <1>d, <2>1, <4>1
      <4>2. CASE o # m
        <5>1. o \in known[q] /\ o # NoFormat
          BY <1>d, <1>s, <2>1, <3>1, <4>2
        <5>2. CASE o \in indexed \cup unstored
          BY <2>1, <5>2
        <5>3. ASSUME NEW t \in Readers, storing[t] = o PROVE Durable(o)'
          BY <1>d, <2>1, <2>3, <5>1, <5>3
        <5>4. QED BY <1>k, <5>1, <5>2, <5>3
      <4>3. QED BY <4>1, <4>2
    <3>2. indexed' \subseteq stored'
      BY <1>k, <2>1
    <3>3. QED BY <3>1, <3>2 DEF KnownIsDurable
  <2>5. StoringInOrder'
    BY <1>d, <1>s, <2>1, <2>2 DEF StoringInOrder
  <2>6. QED BY <2>4, <2>5
<1>8. ASSUME NEW n \in Readers, StoreDefinition(n) PROVE KnownIsDurable' /\ StoringInOrder'
  <2>1. /\ UNCHANGED <<indexed, known, storing, unstored, restoring>>
        /\ stored' = stored \cup {storing[n]}
        /\ doing[n] = "store" /\ doing' = [doing EXCEPT ![n] = "index"]
    BY <1>8 DEF StoreDefinition, Goes, registry, past
  <2>2. KnownIsDurable'
    BY <1>k, <2>1 DEF KnownIsDurable
  <2>3. StoringInOrder'
    BY <1>d, <1>s, <2>1 DEF StoringInOrder
  <2>4. QED BY <2>2, <2>3
<1>9. ASSUME NEW n \in Readers, StoreIndex(n) \/ StoreFails(n) PROVE KnownIsDurable' /\ StoringInOrder'
  <2>1. /\ UNCHANGED <<stored, known, restoring>>
        /\ storing' = [storing EXCEPT ![n] = NoFormat]
        /\ indexed \subseteq indexed' /\ unstored \subseteq unstored'
        /\ storing[n] \in indexed' \cup unstored'
        /\ indexed' = indexed \/ (doing[n] = "index" /\ indexed' = indexed \cup {storing[n]})
        /\ doing' = [doing EXCEPT ![n] = "apply"]
    BY <1>9 DEF StoreIndex, StoreFails, Goes, registry, past, valkeyFmt
  <2>2. ASSUME NEW m, Durable(m) PROVE Durable(m)'
    BY <1>d, <2>1, <2>2
  <2>3. indexed' \subseteq stored'
    BY <1>k, <1>s, <2>1
  <2>4. KnownIsDurable'
    BY <1>k, <2>1, <2>2, <2>3 DEF KnownIsDurable
  <2>5. StoringInOrder'
    BY <1>d, <1>s, <2>1 DEF StoringInOrder
  <2>6. QED BY <2>4, <2>5
<1>10. QED BY <1>2, <1>3, <1>4, <1>5, <1>6, <1>7, <1>8, <1>9 DEF FormatNext

LEMMA NoGapStep ==
    ASSUME FormatShapes, NoGapAfterFirst, ReadingInOrder, [FormatNext]_formatVars
    PROVE  NoGapAfterFirst' /\ ReadingInOrder'
<1>f. trimmedTo \in Nat /\ agedTo \in Nat /\ trimmedTo <= agedTo
  BY DEF FormatShapes, ReadingInOrder
<1>t. /\ lastId \in [Readers -> Nat \cup {Latest}] /\ blockedAt \in [Readers -> Nat]
      /\ seen \in [Readers -> SUBSET Nat] /\ DOMAIN doing = Readers
  BY DEF FormatShapes
<1>g. \A n \in Readers : \A first \in seen[n] :
          \A p \in first .. lastId[n] : p \in seen[n] \/ p <= agedTo
  BY DEF NoGapAfterFirst
<1>w. \A n \in Readers :
        /\ seen[n] # {} => lastId[n] # Latest
        /\ doing[n] = "blocked" /\ lastId[n] # Latest => blockedAt[n] = lastId[n]
  BY DEF ReadingInOrder
<1>1. agedTo' \in Nat /\ agedTo <= agedTo' /\ trimmedTo' <= agedTo'
  <2>1. CASE UNCHANGED <<trimmedTo, agedTo>>
    BY <1>f, <2>1
  <2>2. CASE Age
    BY <1>f, <2>2 DEF Age
  <2>3. ASSUME NEW n \in Readers, ReadDone(n)
        PROVE  agedTo' \in Nat /\ agedTo <= agedTo' /\ trimmedTo' <= agedTo'
    BY <1>f, <2>3 DEF ReadDone
  <2>4. ASSUME NEW n \in Readers,
               \/ Perish(n) \/ ReadIndex(n) \/ (\E m \in Member : RestoreOne(n, m)) \/ Restored(n)
               \/ RestoreFails(n) \/ ReadNow(n) \/ Block(n) \/ Woken(n) \/ WaitEnds(n) \/ ReadBroken(n)
               \/ SleepOver(n) \/ ApplyOne(n) \/ ApplyFails(n) \/ StoreDefinition(n) \/ StoreIndex(n)
               \/ StoreFails(n)
        PROVE  UNCHANGED <<trimmedTo, agedTo>>
    BY <2>4
    DEF Perish, ReadIndex, RestoreOne, Restored, RestoreFails, ReadNow, Block, Woken, WaitEnds, ReadBroken,
        SleepOver, ApplyOne, ApplyFails, StoreDefinition, StoreIndex, StoreFails, feed
  <2>5. ASSUME (\E f \in Formats : Announce(f)) \/ UNCHANGED formatVars PROVE UNCHANGED <<trimmedTo, agedTo>>
    BY <2>5 DEF Announce, formatVars, feed
  <2>6. QED BY <2>1, <2>2, <2>3, <2>4, <2>5 DEF FormatNext
\* A reader whose position and messages stay keeps its promise, and so does one that died.
<1> DEFINE NoGap(n) == \A first \in seen[n] : \A p \in first .. lastId[n] : p \in seen[n] \/ p <= agedTo
           Waits(n) == /\ seen[n] # {} => lastId[n] # Latest
                       /\ doing[n] = "blocked" /\ lastId[n] # Latest => blockedAt[n] = lastId[n]
<1>2. ASSUME \A n \in Readers : NoGap(n)' /\ Waits(n)'
      PROVE  NoGapAfterFirst' /\ ReadingInOrder'
  BY <1>1, <1>2 DEF NoGapAfterFirst, ReadingInOrder
<1>3. ASSUME NEW n \in Readers, lastId'[n] = lastId[n], seen'[n] = seen[n] PROVE NoGap(n)'
  <2> SUFFICES ASSUME NEW first \in seen[n], NEW p \in first .. lastId[n], p \notin seen[n]
               PROVE  p <= agedTo'
    BY <1>3
  <2>1. p <= agedTo
    BY <1>g
  <2>2. first \in Nat /\ lastId[n] \in Nat
    BY <1>t, <1>w
  <2>3. p \in Nat
    BY <2>2
  <2>4. QED BY <1>f, <1>1, <2>1, <2>3
<1>4. ASSUME UNCHANGED <<lastId, seen, blockedAt>>,
             \A n \in Readers : doing'[n] = doing[n] \/ doing'[n] # "blocked"
      PROVE  NoGapAfterFirst' /\ ReadingInOrder'
  BY <1>2, <1>3, <1>4, <1>w
<1>5. ASSUME NEW n \in Readers,
             \/ ReadIndex(n) \/ (\E m \in Member : RestoreOne(n, m)) \/ Restored(n)
             \/ RestoreFails(n) \/ WaitEnds(n) \/ ReadBroken(n) \/ SleepOver(n) \/ ApplyOne(n)
             \/ ApplyFails(n) \/ StoreDefinition(n) \/ StoreIndex(n) \/ StoreFails(n) \/ ReadDone(n)
      PROVE  NoGapAfterFirst' /\ ReadingInOrder'
  <2>1. UNCHANGED <<lastId, seen, blockedAt>>
    BY <1>5
    DEF ReadIndex, RestoreOne, Restored, RestoreFails, WaitEnds, ReadBroken, SleepOver, ApplyOne, ApplyFails,
        StoreDefinition, StoreIndex, StoreFails, ReadDone, reader, past
  <2>2. \A q \in Readers : doing'[q] = doing[q] \/ doing'[q] # "blocked"
    BY <1>t, <1>5
    DEF ReadIndex, RestoreOne, Restored, RestoreFails, WaitEnds, ReadBroken, SleepOver, ApplyOne, ApplyFails,
        StoreDefinition, StoreIndex, StoreFails, ReadDone, Goes
  <2>3. QED BY <1>4, <2>1, <2>2
<1>6. ASSUME (\E f \in Formats : Announce(f)) \/ Age \/ UNCHANGED formatVars
      PROVE  NoGapAfterFirst' /\ ReadingInOrder'
  BY <1>4, <1>6 DEF Announce, Age, formatVars, reader, past
<1>7. ASSUME NEW n \in Readers, Perish(n) PROVE NoGapAfterFirst' /\ ReadingInOrder'
  <2>1. seen'[n] = {} /\ doing'[n] = "down"
    BY <1>t, <1>7 DEF Perish, Goes
  <2>2. \A q \in Readers \ {n} :
          lastId'[q] = lastId[q] /\ seen'[q] = seen[q] /\ doing'[q] = doing[q] /\ blockedAt'[q] = blockedAt[q]
    BY <1>t, <1>7 DEF Perish, Goes
  <2>3. \A q \in Readers : NoGap(q)'
    BY <1>3, <2>1, <2>2
  <2>4. \A q \in Readers : Waits(q)'
    BY <1>w, <2>1, <2>2
  <2>5. QED BY <1>2, <2>3, <2>4
<1>8. ASSUME NEW n \in Readers, Block(n) PROVE NoGapAfterFirst' /\ ReadingInOrder'
  <2>1. UNCHANGED <<lastId, seen>> /\ blockedAt' = [blockedAt EXCEPT ![n] = Position(n)]
    BY <1>8 DEF Block
  <2>2. \A q \in Readers \ {n} : doing'[q] = doing[q]
    BY <1>t, <1>8 DEF Block, Goes
  <2>3. \A q \in Readers : Waits(q)'
    BY <1>t, <1>w, <2>1, <2>2 DEF Position
  <2>4. \A q \in Readers : NoGap(q)'
    BY <1>3, <2>1
  <2>5. QED BY <1>2, <2>3, <2>4
\* A read goes on at the position, or behind what was trimmed, which is old.
<1>9. ASSUME NEW n \in Readers, NEW p \in Nat, After(p) # <<>>, TakeIn(n, p),
             lastId[n] # Latest => p = lastId[n]
      PROVE  NoGap(n)' /\ lastId'[n] # Latest
  <2>1. PICK from, to \in Nat :
            /\ from < to /\ from = IF p < trimmedTo THEN trimmedTo ELSE p
            /\ {After(p)[i] : i \in DOMAIN After(p)} = from + 1 .. to
            /\ After(p)[Len(After(p))] = to
    BY <1>9, ReadsInARow
  <2>2. lastId'[n] = to
    BY <1>t, <1>9, <2>1 DEF TakeIn, NextId
  <2>3. seen'[n] = seen[n] \cup from + 1 .. to
    BY <1>t, <1>9, <2>1 DEF TakeIn
  <2>4. NoGap(n)'
    <3> SUFFICES ASSUME NEW first \in seen'[n], NEW x \in first .. lastId'[n], x \notin seen'[n]
                 PROVE  x <= agedTo'
      OBVIOUS
    <3>1. first \in Nat /\ x \in Nat /\ first <= x /\ x <= to
      <4>1. seen'[n] \subseteq Nat
        BY <1>t, <2>3
      <4>2. first \in Nat
        BY <4>1
      <4>3. QED BY <2>2, <4>2
    <3>2. x <= from
      BY <2>1, <2>3, <3>1
    <3>3. first \in seen[n]
      BY <2>1, <2>3, <3>1, <3>2
    <3>4. lastId[n] # Latest /\ p = lastId[n]
      BY <1>w, <1>9, <3>3
    <3>5. CASE x <= p
      <4>1. x \in first .. lastId[n]
        BY <3>1, <3>4, <3>5
      <4>2. x \notin seen[n]
        BY <2>3
      <4>3. x <= agedTo
        BY <1>g, <3>3, <4>1, <4>2
      <4>4. QED BY <1>f, <1>1, <3>1, <4>3
    <3>6. CASE x > p
      <4>1. x <= trimmedTo
        BY <2>1, <3>1, <3>2, <3>6
      <4>2. QED BY <1>f, <1>1, <3>1, <4>1
    <3>7. QED BY <3>1, <3>5, <3>6
  <2>5. QED BY <2>2, <2>4 DEF Latest
<1>10. ASSUME NEW n \in Readers, ReadNow(n) \/ Woken(n) PROVE NoGapAfterFirst' /\ ReadingInOrder'
  <2>1. PICK p \in Nat : After(p) # <<>> /\ TakeIn(n, p) /\ (lastId[n] # Latest => p = lastId[n])
    <3>1. CASE ReadNow(n)
      <4>1. Position(n) \in Nat
        BY <1>t DEF Position, FormatShapes
      <4>2. QED BY <3>1, <4>1 DEF ReadNow, Position
    <3>2. CASE Woken(n)
      BY <1>t, <1>w, <3>2 DEF Woken
    <3>3. QED BY <1>10, <3>1, <3>2
  <2>2. NoGap(n)' /\ lastId'[n] # Latest
    BY <1>9, <2>1
  <2>3. UNCHANGED blockedAt /\ doing' = [doing EXCEPT ![n] = "apply"]
    BY <1>10 DEF ReadNow, Woken, Goes
  <2>4. \A q \in Readers \ {n} : lastId'[q] = lastId[q] /\ seen'[q] = seen[q]
    BY <1>t, <2>1 DEF TakeIn
  <2>5. \A q \in Readers : NoGap(q)'
    BY <1>3, <2>2, <2>4
  <2>6. \A q \in Readers : Waits(q)'
    BY <1>t, <1>w, <2>2, <2>3, <2>4
  <2>7. QED BY <1>2, <2>5, <2>6
<1>11. QED BY <1>5, <1>6, <1>7, <1>8, <1>10 DEF FormatNext

LEMMA FormatInvStep == FormatInv /\ [FormatNext]_formatVars => FormatInv'
BY FormatShapesStep, KnownIsDurableStep, NoGapStep DEF FormatInv

\* A format that a daemon knows survives the next start unless storing it failed, and a reader
\* misses no message that the retention has left, from the first it has read.
THEOREM FormatsAreKept == FormatSpec => []FormatsArrive
<1>1. FormatInv => FormatsArrive
  BY DEF FormatInv, FormatsArrive
<1>2. QED BY <1>1, FormatInvInit, FormatInvStep, PTL DEF FormatSpec

=============================================================================
