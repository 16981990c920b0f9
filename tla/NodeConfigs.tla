------------------------------ MODULE NodeConfigs ------------------------------
(* The routing and node configurations of the constellation.  A master reads *)
(* them from its files and stores them in ValKey key by key; the others      *)
(* fetch what their exposure names.  Every daemon decides by a cache, which  *)
(* SIGHUP clears; what is not cached is decided by compiled defaults.        *)
EXTENDS Integers

CONSTANTS
    Publishers, Fetchers,
    Types, General,        \* the built-in node types; the one an unknown name stands for
    First,         \* First[d]: the type the exposure of d names first
    Exposes,       \* Exposes[d]: all of them
    Compiled, NoConfig,     \* the default of a type; no configuration
    MaxVersions, MaxServes,
    MaxUpsets      \* failed calls and reloads

Servers == Publishers \cup Fetchers
Kinds   == {"routing", "node"}
\* "partial": it parses, but its node settings are refused; "none": it does not, or it is gone.
Grades  == {"fine", "partial", "none"}

ASSUME ConfigAssumption ==
    /\ Publishers \cap Fetchers = {}
    /\ \A d \in Servers : First[d] \in Exposes[d] /\ Exposes[d] \subseteq Types

VARIABLES
    files,         \* files[t]: the version and grade of its file, the same on every master
    newest,       \* the last version written
    published,     \* ValKey: published[k][t]
    cached,        \* cached[d][k][t]
    at,            \* at[d]: "off", "read", "store", "fetch", "insert", "up"
    kind,          \* the kind a start is at
    have,          \* have[d]: what a master read, or a remote fetched, of that kind
    left, asking,  \* the types still to be stored or fetched; the one just fetched
    clears,        \* clears[d]: the caches a reload has still to clear
    reloaded,      \* reloaded[d]: "no", "early" while it started, "up"
    behind,        \* d has all its files stored, or started when such a master was up
    serves, upsets

fileVars   == <<files, newest>>
starting   == <<at, kind, have, left, asking>>
configVars == <<fileVars, published, cached, starting, clears, reloaded, behind, serves, upsets>>

-----------------------------------------------------------------------------
(* Files and names.                                                         *)

\* load_node_configs_from_directory validates, load_routing_configs_from_directory does not.
Readable(k) == {t \in Types : files[t].grade \in (IF k = "node" THEN {"fine"} ELSE {"fine", "partial"})}

\* The defaults where the directory has nothing.
ReadDirectory(k) ==
    [t \in Types |-> CASE Readable(k) = {} -> Compiled
                       [] t \in Readable(k) -> files[t].version
                       [] OTHER -> NoConfig]

Single(d) == Exposes[d] = {First[d]}

\* What the exposure of d stands for, taken as one name.
Whole(d) == IF Single(d) THEN First[d] ELSE General

Wanted(d, k) == IF k = "routing" THEN Exposes[d] ELSE {Whole(d)}

\* What ValKey has under the name d asks for: nothing under a list.
Offered(d, k, t) == IF k = "node" /\ ~Single(d) THEN NoConfig ELSE published[k][t]

\* By what d filters a batch.
InForce(d, t) == IF cached[d]["routing"][t] = NoConfig THEN Compiled ELSE cached[d]["routing"][t]

NoneOf == [t \in Types |-> NoConfig]
Empty  == [k \in Kinds |-> NoneOf]

ConfigInit ==
    /\ files = [t \in Types |-> [version |-> 1, grade |-> "fine"]] /\ newest = 1
    /\ published = Empty
    /\ cached = [d \in Servers |-> Empty]
    /\ at = [d \in Servers |-> "off"] /\ kind = [d \in Servers |-> "routing"]
    /\ have = [d \in Servers |-> NoneOf]
    /\ left = [d \in Servers |-> {}] /\ asking = [d \in Servers |-> NoConfig]
    /\ clears = [d \in Servers |-> {}] /\ reloaded = [d \in Servers |-> "no"]
    /\ behind = [d \in Servers |-> FALSE]
    /\ serves = 0 /\ upsets = 0

-----------------------------------------------------------------------------
(* Starts.                                                                  *)

\* d turns to the configurations of kind k.
Turns(d, k) ==
    /\ kind' = [kind EXCEPT ![d] = k]
    /\ at' = [at EXCEPT ![d] = IF d \in Publishers THEN "read" ELSE "fetch"]
    /\ left' = [left EXCEPT ![d] = IF d \in Publishers THEN {} ELSE Wanted(d, k)]
    /\ have' = [have EXCEPT ![d] = NoneOf]

\* The next kind, or the end of the start.
GoesOn(d) ==
    IF kind[d] = "routing" THEN Turns(d, "node")
    ELSE at' = [at EXCEPT ![d] = "up"] /\ have' = [have EXCEPT ![d] = NoneOf] /\ UNCHANGED <<kind, left>>

Serve(d) ==
    /\ at[d] = "off" /\ serves < MaxServes
    /\ serves' = serves + 1
    /\ Turns(d, "routing")
    /\ reloaded' = [reloaded EXCEPT ![d] = "no"]
    /\ behind' = [e \in Servers |->
                     IF d \in Publishers THEN FALSE
                     ELSE IF e = d THEN \E m \in Publishers : at[m] = "up" /\ behind[m] ELSE behind[e]]
    /\ UNCHANGED <<fileVars, published, cached, asking, clears, upsets>>

ReadFiles(d) ==
    /\ at[d] = "read"
    /\ at' = [at EXCEPT ![d] = "store"]
    /\ LET dir == ReadDirectory(kind[d])
       IN  /\ have' = [have EXCEPT ![d] = dir]
           /\ left' = [left EXCEPT ![d] = {t \in Types : dir[t] # NoConfig}]
    /\ UNCHANGED <<fileVars, published, cached, kind, asking, clears, reloaded, behind, serves, upsets>>

\* store_routing_config_to_valkey, store_node_config_to_valkey
Store_IfAbsent(d, t) ==
    /\ at[d] = "store" /\ t \in left[d]
    /\ published' = [published EXCEPT ![kind[d]][t] = IF @ = NoConfig THEN have[d][t] ELSE @]
    /\ left' = [left EXCEPT ![d] = @ \ {t}]
    /\ UNCHANGED <<fileVars, cached, at, kind, have, asking, clears, reloaded, behind, serves, upsets>>
Store(d, t) ==
    /\ at[d] = "store" /\ t \in left[d]
    /\ published' = [published EXCEPT ![kind[d]][t] = have[d][t]]
    /\ left' = [left EXCEPT ![d] = @ \ {t}]
    /\ UNCHANGED <<fileVars, cached, at, kind, have, asking, clears, reloaded, behind, serves, upsets>>

\* After an error: a routing default for the exposure as a whole, nothing for node settings.
Falls(c, d) == IF kind[d] = "node" THEN c ELSE [c EXCEPT !["routing"][Whole(d)] = Compiled]

\* Everything is cached once all of it is stored; an error, if what d is named by is not among it.
CacheAll(d) ==
    /\ at[d] = "store" /\ left[d] = {}
    /\ LET k == kind[d]
           c == [cached[d] EXCEPT ![k] = [t \in Types |-> IF have[d][t] = NoConfig THEN @[t] ELSE have[d][t]]]
           misses == have[d][First[d]] = NoConfig \/ (k = "node" /\ ~Single(d))
       IN  /\ cached' = [cached EXCEPT ![d] = IF misses THEN Falls(c, d) ELSE c]
           /\ behind' = [behind EXCEPT ![d] =
                 IF k = "routing" THEN \A t \in Types : have[d][t] # NoConfig ELSE @]
    /\ GoesOn(d)
    /\ UNCHANGED <<fileVars, published, asking, clears, reloaded, serves, upsets>>

\* A call fails while a master stores: nothing is cached but a default.
StoringFails(d) ==
    /\ at[d] = "store" /\ upsets < MaxUpsets
    /\ upsets' = upsets + 1
    /\ cached' = [cached EXCEPT ![d] = Falls(@, d)]
    /\ behind' = [behind EXCEPT ![d] = FALSE]
    /\ GoesOn(d)
    /\ UNCHANGED <<fileVars, published, asking, clears, reloaded, serves>>

\* fetch_routing_config_from_valkey; what is not there, or cannot be fetched, is a default.
Fetch(d, t) ==
    /\ at[d] = "fetch" /\ t \in left[d]
    /\ LET v == Offered(d, kind[d], t)
       IN  \/ /\ have' = [have EXCEPT ![d][t] = IF v = NoConfig THEN Compiled ELSE v]
              /\ UNCHANGED <<upsets, behind>>
           \/ /\ upsets < MaxUpsets
              /\ upsets' = upsets + 1
              /\ have' = [have EXCEPT ![d][t] = Compiled]
              /\ behind' = [behind EXCEPT ![d] = FALSE]
    /\ at' = [at EXCEPT ![d] = "insert"]
    /\ left' = [left EXCEPT ![d] = @ \ {t}] /\ asking' = [asking EXCEPT ![d] = t]
    /\ UNCHANGED <<fileVars, published, cached, kind, clears, reloaded, serves>>

\* cache_routing_config, cache_node_config; then the next member, or the next kind.
Insert(d) ==
    /\ at[d] = "insert"
    /\ cached' = [cached EXCEPT ![d][kind[d]][asking[d]] = have[d][asking[d]]]
    /\ asking' = [asking EXCEPT ![d] = NoConfig]
    /\ IF left[d] # {} THEN at' = [at EXCEPT ![d] = "fetch"] /\ UNCHANGED <<kind, left, have>>
                       ELSE GoesOn(d)
    /\ UNCHANGED <<fileVars, published, clears, reloaded, behind, serves, upsets>>

-----------------------------------------------------------------------------
(* A running daemon.                                                        *)

\* The last steps of reload_config: clear_routing_cache, then clear_node_cache.
Reload(d) ==
    /\ at[d] # "off" /\ clears[d] = {} /\ upsets < MaxUpsets
    /\ upsets' = upsets + 1
    /\ clears' = [clears EXCEPT ![d] = Kinds]
    /\ reloaded' = [reloaded EXCEPT ![d] = IF at[d] = "up" THEN "up" ELSE "early"]
    /\ UNCHANGED <<fileVars, published, cached, starting, behind, serves>>

Clear(d) ==
    /\ clears[d] # {}
    /\ LET k == IF "routing" \in clears[d] THEN "routing" ELSE "node"
       IN  /\ cached' = [cached EXCEPT ![d][k] = NoneOf]
           /\ clears' = [clears EXCEPT ![d] = @ \ {k}]
    /\ UNCHANGED <<fileVars, published, starting, reloaded, behind, serves, upsets>>

Quit(d) ==
    /\ at[d] # "off"
    /\ at' = [at EXCEPT ![d] = "off"] /\ clears' = [clears EXCEPT ![d] = {}]
    /\ kind' = [kind EXCEPT ![d] = "routing"] /\ have' = [have EXCEPT ![d] = NoneOf]
    /\ left' = [left EXCEPT ![d] = {}] /\ asking' = [asking EXCEPT ![d] = NoConfig]
    /\ cached' = [cached EXCEPT ![d] = Empty]
    /\ behind' = [behind EXCEPT ![d] = FALSE]
    /\ UNCHANGED <<fileVars, published, reloaded, serves, upsets>>

\* An operator writes a file, well or badly, or removes it.
WriteFile(t, g) ==
    /\ newest < MaxVersions
    /\ newest' = newest + 1
    /\ files' = [files EXCEPT ![t] = [version |-> newest + 1, grade |-> g]]
    /\ UNCHANGED <<published, cached, starting, clears, reloaded, behind, serves, upsets>>

ConfigNext ==
    \/ \E d \in Servers : Serve(d) \/ Insert(d) \/ Reload(d) \/ Clear(d) \/ Quit(d)
    \/ \E d \in Publishers : ReadFiles(d) \/ CacheAll(d) \/ StoringFails(d)
    \/ \E d \in Publishers, t \in Types : Store(d, t)
    \/ \E d \in Fetchers, t \in Types : Fetch(d, t)
    \/ \E t \in Types, g \in Grades : WriteFile(t, g)

ConfigSpec == ConfigInit /\ [][ConfigNext]_configVars

-----------------------------------------------------------------------------
(* Properties.                                                              *)

\* A remote daemon that started while a master was up with all its files stored,
\* and had no failed call, takes the same work of a type as that master, as
\* long as neither was reloaded and no master started again: the files of the
\* master are what the constellation decides by, in whatever order they were
\* stored and fetched (routing_config.rs, Architecture).
RemoteDecidesAsMaster ==
    \A m \in Publishers, r \in Fetchers :
        /\ at[m] = "up" /\ behind[m] /\ reloaded[m] = "no"
        /\ at[r] = "up" /\ behind[r] /\ reloaded[r] = "no"
        => \A t \in Exposes[m] \cap Exposes[r] : InForce(m, t) = InForce(r, t)
=============================================================================
