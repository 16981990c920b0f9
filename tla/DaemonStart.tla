------------------------------ MODULE DaemonStart ------------------------------
(* The start of a daemon as far as other nodes see it: every process loads *)
(* the libraries of its extensions (main.rs); a master then writes those   *)
(* of its tree into the namespace that all nodes share, a worker looks     *)
(* whether its own are there (valkey_functions.rs); whoever is content     *)
(* loads or makes its signing key, publishes the public one and its        *)
(* contracts (daemon.rs), and signs receipts from then on (receipt.rs).    *)
(* Libraries are loaded in any order: none depends on another there.       *)
EXTENDS Integers, FiniteSets

CONSTANTS
    Masters, Workers,   \* daemons started as master, and the others
    Libraries,          \* names of libraries
    Carries, Extends,   \* the libraries in the tree of a node, and those of its extensions
    NoTree,             \* model value: where a library comes from that is not loaded
    MaxKeys,            \* bound: signing keys generated
    MaxRefusals,        \* bound: calls that fail
    MaxBegins           \* bound: starts

Nodes == Masters \cup Workers

ASSUME StartAssumption ==
    /\ Masters \cap Workers = {} /\ NoTree \notin Nodes
    /\ {Carries, Extends} \subseteq [Nodes -> SUBSET Libraries]
    /\ MaxKeys \in Nat /\ MaxRefusals \in Nat /\ MaxBegins \in Nat

VARIABLES
    tree, probes, marked,   \* ValKey: whose tree a library was loaded from, probes left in the
                            \* namespace, registry of the loaded
    where, verdict,         \* where a daemon is in its start, valkey_initialized
    toLoad, marking, gained,\* libraries it has yet to load, the one loaded last, whether it has loaded any
    keyFile, keyInHand,     \* its key file, the key of its ReceiptContext
    pubkeys, signed,        \* ValKey: published keys; the keys that signed the receipts there are
    unpublished,            \* history: keys whose publication failed
    keys, refusals, begins  \* bounds

functions == <<tree, probes, marked>>
loading   == <<toLoad, marking, gained>>
signing   == <<keyFile, keyInHand, pubkeys, signed, unpublished, keys>>
startVars == <<functions, where, verdict, loading, signing, refusals, begins>>

NoKey      == 0
TornKey    == -1        \* a file cut off while it was written
NoLibrary  == {}
Loaded     == {l \in Libraries : tree[l] # NoTree}
Puts(n, l) == tree' = [tree EXCEPT ![l] = n]
Refusal    == refusals < MaxRefusals /\ refusals' = refusals + 1
Moves(n, place)   == where' = [where EXCEPT ![n] = place]
Concludes(n, v)   == verdict' = [verdict EXCEPT ![n] = v]
                     /\ Moves(n, IF v = "ok" THEN "key" ELSE "up")

StartInit ==
    /\ tree = [l \in Libraries |-> NoTree] /\ probes = {} /\ marked = {}
    /\ where = [n \in Nodes |-> "down"] /\ verdict = [n \in Nodes |-> "none"]
    /\ toLoad = [n \in Nodes |-> {}] /\ marking = [n \in Nodes |-> NoLibrary]
    /\ gained = [n \in Nodes |-> FALSE]
    /\ keyFile = [n \in Nodes |-> NoKey] /\ keyInHand = [n \in Nodes |-> NoKey]
    /\ pubkeys = {} /\ signed = {} /\ unpublished = {}
    /\ keys = 0 /\ refusals = 0 /\ begins = 0

Begin(n) ==
    /\ where[n] = "down" /\ begins < MaxBegins /\ begins' = begins + 1
    /\ Moves(n, "preflight") /\ toLoad' = [toLoad EXCEPT ![n] = Extends[n]]
    /\ verdict' = [verdict EXCEPT ![n] = "none"] /\ gained' = [gained EXCEPT ![n] = FALSE]
    /\ UNCHANGED <<functions, marking, signing, refusals>>

\* The process dies; a key that is being written stays cut off.
DieAtStart(n) ==
    /\ where[n] # "down" /\ Moves(n, "down")
    /\ toLoad' = [toLoad EXCEPT ![n] = {}] /\ marking' = [marking EXCEPT ![n] = NoLibrary]
    /\ keyInHand' = [keyInHand EXCEPT ![n] = NoKey]
    /\ \/ UNCHANGED keyFile
       \/ where[n] = "key" /\ keyFile[n] = NoKey /\ keyFile' = [keyFile EXCEPT ![n] = TornKey]
    /\ UNCHANGED <<functions, verdict, gained, pubkeys, signed, unpublished, keys, refusals, begins>>

\* main: FUNCTION LOAD REPLACE of the libraries of the extensions, on any node; one that is
\* refused is skipped, and all of them without a connection.
Preflight(n, l) ==
    /\ where[n] = "preflight" /\ l \in toLoad[n]
    /\ \/ Puts(n, l) /\ UNCHANGED refusals
       \/ Refusal /\ UNCHANGED tree
    /\ toLoad' = [toLoad EXCEPT ![n] = @ \ {l}]
    /\ UNCHANGED <<probes, marked, where, verdict, marking, gained, signing, begins>>

Run(n) ==
    /\ where[n] = "preflight"
    /\ \/ toLoad[n] = {} /\ UNCHANGED <<toLoad, refusals>>
       \/ toLoad[n] # {} /\ toLoad[n] = Extends[n] /\ Refusal /\ toLoad' = [toLoad EXCEPT ![n] = {}]
    /\ Moves(n, IF n \in Masters THEN "probe" ELSE "verify")
    /\ UNCHANGED <<functions, verdict, marking, gained, signing, begins>>

-----------------------------------------------------------------------------
(* A master: FUNCTION LOAD of a probe, without REPLACE, and FUNCTION DELETE *)
(* of it, in run and again in initialize_functions.                        *)

ProbeName(n) == IF where[n] = "probe" THEN "test_gnode" ELSE "gnode_test"

Probe(n) ==
    /\ where[n] \in {"probe", "second probe"} /\ ProbeName(n) \notin probes
    /\ probes' = probes \cup {ProbeName(n)}
    /\ Moves(n, IF where[n] = "probe" THEN "unprobe" ELSE "second unprobe")
    /\ UNCHANGED <<tree, marked, verdict, loading, signing, refusals, begins>>

\* A probe that is there already is an error like any other.
ProbeRefused(n) ==
    /\ where[n] \in {"probe", "second probe"}
    /\ \/ ProbeName(n) \in probes /\ UNCHANGED refusals
       \/ Refusal
    /\ Concludes(n, "unsupported")
    /\ UNCHANGED <<functions, loading, signing, begins>>

\* Whether the deletion worked is not looked at.
Unprobe(n) ==
    /\ where[n] \in {"unprobe", "second unprobe"}
    /\ LET name == IF where[n] = "unprobe" THEN "test_gnode" ELSE "gnode_test" IN
       \/ probes' = probes \ {name} /\ UNCHANGED refusals
       \/ Refusal /\ UNCHANGED probes
    /\ Moves(n, IF where[n] = "unprobe" THEN "second probe" ELSE "clear")
    /\ UNCHANGED <<tree, marked, verdict, loading, signing, begins>>

\* No connection, or no directory of libraries, for sync_functions and initialize_functions.
SyncFails(n) ==
    /\ where[n] = "second probe" /\ Refusal /\ Concludes(n, "failed")
    /\ UNCHANGED <<functions, loading, signing, begins>>

ClearRegistry_Flush(n) ==
    /\ where[n] = "clear" /\ Moves(n, "load")
    /\ marked' = {} /\ tree' = [l \in Libraries |-> NoTree] /\ toLoad' = [toLoad EXCEPT ![n] = Carries[n]]
    /\ UNCHANGED <<probes, verdict, marking, gained, signing, refusals, begins>>

ClearRegistry(n) ==
    /\ where[n] = "clear" /\ Moves(n, "load")
    /\ marked' = {} /\ toLoad' = [toLoad EXCEPT ![n] = Carries[n]]
    /\ UNCHANGED <<tree, probes, verdict, marking, gained, signing, refusals, begins>>

\* LOAD REPLACE; one that is refused for its metadata is loaded repaired, and not registered.
LoadLibrary(n, l) ==
    /\ where[n] = "load" /\ l \in toLoad[n]
    /\ Puts(n, l) /\ gained' = [gained EXCEPT ![n] = TRUE]
    /\ toLoad' = [toLoad EXCEPT ![n] = @ \ {l}]
    /\ \/ marking' = [marking EXCEPT ![n] = {l}] /\ Moves(n, "mark") /\ UNCHANGED refusals
       \/ Refusal /\ UNCHANGED <<marking, where>>
    /\ UNCHANGED <<probes, marked, verdict, signing, begins>>

LoadRefused(n, l) ==
    /\ where[n] = "load" /\ l \in toLoad[n] /\ Refusal
    /\ toLoad' = [toLoad EXCEPT ![n] = @ \ {l}]
    /\ UNCHANGED <<functions, where, verdict, marking, gained, signing, begins>>

MarkLoaded(n) ==
    /\ where[n] = "mark" /\ Moves(n, "load")
    /\ \/ marked' = marked \cup marking[n] /\ UNCHANGED refusals
       \/ Refusal /\ UNCHANGED marked
    /\ marking' = [marking EXCEPT ![n] = NoLibrary]
    /\ UNCHANGED <<tree, probes, verdict, toLoad, gained, signing, begins>>

SyncDone(n) ==
    /\ where[n] = "load" /\ toLoad[n] = {}
    /\ Concludes(n, IF gained[n] THEN "ok" ELSE "failed")
    /\ UNCHANGED <<functions, loading, signing, refusals, begins>>

\* A worker: FUNCTION LIST, and the libraries of its tree.
VerifyFunctions(n) ==
    /\ where[n] = "verify"
    /\ \/ Concludes(n, IF Carries[n] \subseteq Loaded THEN "ok" ELSE "failed") /\ UNCHANGED refusals
       \/ Refusal /\ Concludes(n, "failed")
    /\ UNCHANGED <<functions, loading, signing, begins>>

-----------------------------------------------------------------------------
(* Receipts.                                                               *)

\* The key of the file, or a new one when there is no file that can be read.
LoadKey(n) ==
    /\ where[n] = "key" /\ keyFile[n] > NoKey
    /\ keyInHand' = [keyInHand EXCEPT ![n] = keyFile[n]] /\ Moves(n, "publish")
    /\ UNCHANGED <<functions, verdict, loading, keyFile, pubkeys, signed, unpublished, keys, refusals, begins>>

GenerateKey(n) ==
    /\ where[n] = "key" /\ keys < MaxKeys /\ keys' = keys + 1
    /\ \/ keyFile[n] = NoKey /\ UNCHANGED refusals
       \/ keyFile[n] # NoKey /\ Refusal
    /\ keyFile' = [keyFile EXCEPT ![n] = keys + 1]
    /\ keyInHand' = [keyInHand EXCEPT ![n] = keys + 1] /\ Moves(n, "publish")
    /\ UNCHANGED <<functions, verdict, loading, pubkeys, signed, unpublished, begins>>

\* A file that is cut off, or one that cannot be written: no receipts.
NoSigner(n) ==
    /\ where[n] = "key" /\ Moves(n, "contracts")
    /\ \/ keyFile[n] = TornKey /\ UNCHANGED refusals
       \/ keyFile[n] = NoKey /\ Refusal
    /\ UNCHANGED <<functions, verdict, loading, signing, begins>>

\* publish_pubkey; when it fails the key is used all the same.
PublishKey(n) ==
    /\ where[n] = "publish" /\ Moves(n, "contracts")
    /\ \/ pubkeys' = pubkeys \cup {keyInHand[n]} /\ UNCHANGED <<unpublished, refusals>>
       \/ Refusal /\ unpublished' = unpublished \cup {keyInHand[n]} /\ UNCHANGED pubkeys
    /\ UNCHANGED <<functions, verdict, loading, keyFile, keyInHand, signed, keys, begins>>

PublishContracts(n) ==
    /\ where[n] = "contracts" /\ Moves(n, "up")
    /\ UNCHANGED <<functions, verdict, loading, signing, refusals, begins>>

\* No directory of schemas, or their publication fails: run returns, and the process ends.
ContractsFail(n) ==
    /\ where[n] = "contracts" /\ Refusal /\ Moves(n, "down")
    /\ keyInHand' = [keyInHand EXCEPT ![n] = NoKey]
    /\ UNCHANGED <<functions, verdict, loading, keyFile, pubkeys, signed, unpublished, keys, begins>>

Emit(n) ==
    /\ where[n] = "up" /\ keyInHand[n] # NoKey
    /\ signed' = signed \cup {keyInHand[n]}
    /\ UNCHANGED <<functions, where, verdict, loading, keyFile, keyInHand, pubkeys, unpublished, keys, refusals, begins>>

StartNext ==
    \E n \in Nodes :
        \/ Begin(n) \/ DieAtStart(n) \/ (\E l \in Libraries : Preflight(n, l)) \/ Run(n)
        \/ Probe(n) \/ ProbeRefused(n) \/ Unprobe(n) \/ SyncFails(n) \/ ClearRegistry(n)
        \/ \E l \in Libraries : LoadLibrary(n, l) \/ LoadRefused(n, l)
        \/ MarkLoaded(n) \/ SyncDone(n) \/ VerifyFunctions(n)
        \/ LoadKey(n) \/ GenerateKey(n) \/ NoSigner(n) \/ PublishKey(n)
        \/ PublishContracts(n) \/ ContractsFail(n) \/ Emit(n)

StartSpec == StartInit /\ [][StartNext]_startVars

-----------------------------------------------------------------------------
(* Properties.                                                             *)

StartTypeOK ==
    /\ tree \in [Libraries -> Nodes \cup {NoTree}] /\ marked \in SUBSET Libraries
    /\ probes \subseteq {"test_gnode", "gnode_test"}
    /\ where \in [Nodes -> {"down", "preflight", "probe", "unprobe", "second probe", "second unprobe", "clear",
                            "load", "mark", "verify", "key", "publish", "contracts", "up"}]
    /\ verdict \in [Nodes -> {"none", "ok", "failed", "unsupported"}]
    /\ toLoad \in [Nodes -> SUBSET Libraries] /\ marking \in [Nodes -> SUBSET Libraries]
    /\ gained \in [Nodes -> BOOLEAN]
    /\ keys \in 0 .. MaxKeys /\ keyFile \in [Nodes -> {TornKey} \cup 0 .. keys]
    /\ keyInHand \in [Nodes -> 0 .. keys] /\ {pubkeys, signed, unpublished} \subseteq SUBSET (1 .. keys)

\* valkey_functions.rs: a worker that found the libraries it needs has them for as long as it
\* runs, whatever masters start, replace, die half way or carry other libraries.
VerifiedStays ==
    \A n \in Workers : (where[n] # "down" /\ verdict[n] = "ok") => Carries[n] \subseteq Loaded

\* receipt.rs: the key of every receipt is published, over crashes between making a key and
\* publishing it and over keys that are made anew, unless its publication failed.
ReceiptsResolve == signed \subseteq pubkeys \cup unpublished

\* What a node that is up has is there for whoever relies on it: the functions a worker
\* verified and the keys of receipts.
UpIsBacked == VerifiedStays /\ ReceiptsResolve

=============================================================================
