----------------------------- MODULE ConnectionGate -----------------------------
(* connection_manager.rs: one pool of connections behind one mutex.  The   *)
(* mutex is held while a caller waits for the pool and, in with_connection *)
(* and with_retry_connection, while its closure runs and between retries;  *)
(* a connection that get_connection handed out is given back without it.   *)
(* A thread may ask for a second connection while it keeps one: a worker's *)
(* handlers do.                                                            *)
EXTENDS Naturals, FiniteSets

CONSTANTS
    Threads,        \* threads of one daemon
    NoThread,       \* model value: nobody has the mutex
    PoolSize,       \* max_pool_size
    MaxKept,        \* connections a thread keeps at a time
    PoolTries,      \* attempts of get_connection (3)
    MaxRetries,     \* max_retries
    MaxMishaps      \* bound: errors, losses of the server and panics

ASSUME GateAssumption ==
    /\ NoThread \notin Threads
    /\ {PoolSize, MaxKept, PoolTries} \subseteq Nat \ {0} /\ {MaxRetries, MaxMishaps} \subseteq Nat

VARIABLES
    gate, poisoned,         \* CONNECTION_MANAGER: who has locked it, whether a closure panicked under it
    kept, lent,             \* connections a thread keeps, threads whose closure has one
    asks, wait,             \* what a thread asks for, and where in the call it is
    tries, retries,         \* attempts at the pool, retries of the closure
    mishaps

gateVars == <<gate, poisoned, kept, lent, asks, wait, tries, retries, mishaps>>

Kept(n)      == {t \in Threads : kept[t] >= n}
InUse        == Cardinality(lent) + Cardinality(UNION {Kept(n) \X {n} : n \in 1 .. MaxKept})
Mishap       == mishaps < MaxMishaps /\ mishaps' = mishaps + 1
Moves(t, p)  == wait' = [wait EXCEPT ![t] = p]
Unlocked(t)  == gate' = NoThread /\ Moves(t, "no")

GateInit ==
    /\ gate = NoThread /\ poisoned = FALSE
    /\ kept = [t \in Threads |-> 0] /\ lent = {}
    /\ asks = [t \in Threads |-> "get"] /\ wait = [t \in Threads |-> "no"]
    /\ tries = [t \in Threads |-> 0] /\ retries = [t \in Threads |-> 0]
    /\ mishaps = 0

\* get_connection, with_connection and with_retry_connection start at the mutex.
AskFor(t, kind) ==
    /\ wait[t] = "no" /\ (kind = "get" => kept[t] < MaxKept)
    /\ asks' = [asks EXCEPT ![t] = kind] /\ Moves(t, "mutex")
    /\ UNCHANGED <<gate, poisoned, kept, lent, tries, retries, mishaps>>

Lock(t) ==
    /\ wait[t] = "mutex" /\ gate = NoThread
    /\ IF poisoned THEN Unlocked(t) ELSE gate' = t /\ Moves(t, "pool")
    /\ tries' = [tries EXCEPT ![t] = 0] /\ retries' = [retries EXCEPT ![t] = 0]
    /\ UNCHANGED <<poisoned, kept, lent, asks, mishaps>>

\* The pool has a connection: the caller of get_connection keeps it, a closure runs with it.
CheckOut(t) ==
    /\ wait[t] = "pool" /\ InUse < PoolSize
    /\ IF asks[t] = "get"
       THEN kept' = [kept EXCEPT ![t] = @ + 1] /\ Unlocked(t) /\ UNCHANGED lent
       ELSE lent' = lent \cup {t} /\ Moves(t, "closure") /\ UNCHANGED <<kept, gate>>
    /\ UNCHANGED <<poisoned, asks, tries, retries, mishaps>>

\* connection_timeout passes with none free, or with none that answers PING.
LastTry_Never(t) == FALSE
LastTry(t) == tries[t] + 1 = PoolTries
PoolTimeout(t) ==
    /\ wait[t] = "pool"
    /\ \/ InUse >= PoolSize /\ UNCHANGED mishaps
       \/ InUse < PoolSize /\ Mishap
    /\ IF LastTry(t) THEN Unlocked(t) /\ tries' = [tries EXCEPT ![t] = 0]
       ELSE tries' = [tries EXCEPT ![t] = IF @ < PoolTries THEN @ + 1 ELSE @] /\ UNCHANGED <<gate, wait>>
    /\ UNCHANGED <<poisoned, kept, lent, asks, retries>>

\* The closure is done, with or without an error that is not the connection's.
Returned(t) ==
    /\ wait[t] = "closure" /\ lent' = lent \ {t} /\ Unlocked(t)
    /\ UNCHANGED <<poisoned, kept, asks, tries, retries, mishaps>>

\* A connection error: with_retry_connection sleeps, the connection in hand, and goes back to the pool.
ConnectionError(t) ==
    /\ wait[t] = "closure" /\ Mishap
    /\ IF asks[t] = "retry" /\ retries[t] < MaxRetries
       THEN /\ retries' = [retries EXCEPT ![t] = @ + 1]
            /\ Moves(t, "backoff") /\ UNCHANGED <<gate, lent>>
       ELSE lent' = lent \ {t} /\ Unlocked(t) /\ UNCHANGED retries
    /\ UNCHANGED <<poisoned, kept, asks, tries>>

BackedOff(t) ==
    /\ wait[t] = "backoff"
    /\ lent' = lent \ {t} /\ Moves(t, "pool") /\ tries' = [tries EXCEPT ![t] = 0]
    /\ UNCHANGED <<gate, poisoned, kept, asks, retries, mishaps>>

\* A closure panics: its connection goes back, the mutex is poisoned for everybody.
Panic(t) ==
    /\ wait[t] = "closure" /\ Mishap
    /\ poisoned' = TRUE /\ lent' = lent \ {t} /\ Unlocked(t)
    /\ UNCHANGED <<kept, asks, tries, retries>>

\* A kept connection is dropped, which needs no mutex.
GiveBack(t) ==
    /\ wait[t] = "no" /\ kept[t] > 0 /\ kept' = [kept EXCEPT ![t] = @ - 1]
    /\ UNCHANGED <<gate, poisoned, lent, asks, wait, tries, retries, mishaps>>

GateNext ==
    \E t \in Threads :
        \/ \E kind \in {"get", "with", "retry"} : AskFor(t, kind)
        \/ Lock(t) \/ CheckOut(t) \/ PoolTimeout(t)
        \/ Returned(t) \/ ConnectionError(t) \/ BackedOff(t) \/ Panic(t) \/ GiveBack(t)

\* Calls under the mutex take bounded time and the mutex is not withheld from one thread for
\* ever; nobody has to give back what it keeps.
GateFairness ==
    \A t \in Threads :
        /\ SF_gateVars(Lock(t))
        /\ WF_gateVars(CheckOut(t) \/ PoolTimeout(t))
        /\ WF_gateVars(Returned(t) \/ ConnectionError(t)) /\ WF_gateVars(BackedOff(t))

GateSpec == GateInit /\ [][GateNext]_gateVars /\ GateFairness

-----------------------------------------------------------------------------
(* Properties.                                                             *)

\* connection_manager.rs:156-162: whatever other threads keep, and with threads asking for a
\* second connection while they keep one, every call comes back, with a connection or an
\* error: the pool at its limit behind one mutex stalls nobody for good.
EveryCallReturns == \A t \in Threads : wait[t] = "mutex" ~> wait[t] = "no"
=============================================================================
