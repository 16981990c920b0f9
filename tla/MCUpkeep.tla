-------------------------------- MODULE MCUpkeep --------------------------------
(* What a daemon does beside the commands it serves, part by part: how it   *)
(* comes to serve its stream, restores and learns formats, loads libraries *)
(* and keys, and is known by its PID and heartbeat; how it samples load    *)
(* and builds asset bundles.  The parts share no state, so a behaviour is  *)
(* one of a single part, the others at rest; n1 and n2 are whatever a part *)
(* has two of.                                                             *)
(*                                                                         *)
(* Two daemons recover one stream of two entries, malformed or not, over   *)
(* three starts and a failed call.  Two readers of one format that is      *)
(* announced twice, with one failed call and three starts.  Two masters,   *)
(* one with an extension, and a worker that brings another copy of it.     *)
(* Two processes of one name, in either mode, one stop command and a       *)
(* write that fails.  Two samplers of a service with one placement, three  *)
(* requests over three ticks, a lease of two.                            *)
(* Two builders, two edits of a manifest or the face mapping and a failure.*)
(* A daemon under four files and arguments, two edits of what ValKey or the*)
(* disk has, two starts and a failed load.  A master and a remote of two   *)
(* node types, one rewritten file, three starts, a failed call or reload.  *)
EXTENDS StartRecovery, FormatBroadcast, DaemonStart, DaemonLife,
        LoadSampler, AssetBundles, Settings, NodeConfigs

CONSTANTS n1, n2, fa,
          m1, m2, wk, core, more,
          pl, svc, verb,
          gen, inf

MCTwo       == {n1, n2}
MCFormats   == {fa}
MCMasters   == {m1, m2}
MCWorkers   == {wk}
MCLibraries == {core, more}
MCCarries   == [n \in MCMasters \cup MCWorkers |-> {core}]
MCExtends   == [n \in MCMasters \cup MCWorkers |-> IF n = m2 THEN {} ELSE {more}]
MCPlacements == {pl}
MCCommands  == {verb}

NoneSet(S) == [x \in S |-> Unset]
MCFiles == {Broken, [NoneSet(Fields) EXCEPT !.initial = 3, !.min = 3, !.threshold = 0]}
MCArgs  == {NoneSet(Fields), [NoneSet(Fields) EXCEPT !.initial = 4, !.threshold = 3]}
MCUnits == {[NoneSet(Variables) EXCEPT !["CB"] = 4, !["HOST"] = 0]}
MCEdits == [n \in Variables |-> CASE n = "INITIAL"         -> {Unset, 0, 1}
                                  [] n = "CIRCUIT_BREAKER" -> {Junk}
                                  [] OTHER                 -> {}]

MCTypes   == {gen, inf}
MCFirst   == m1 :> gen @@ wk :> inf
MCExposes == m1 :> {gen} @@ wk :> MCTypes

\* The latencies are such as the theorem about baselines is about.
ASSUME MCGuardSeparates == GuardSeparates

Symmetric == Permutations(MCTwo)

VARIABLE part

\* Where a part has more than one initial state, one for when it is at rest.
Rest(p, state) == IF part = p THEN TRUE ELSE state

UpkeepInit ==
    /\ part \in {"recovery", "formats", "start", "life", "sampler", "assets",
                "settings", "configs"}
    /\ Rest("recovery", malformed = {}) /\ RecoveryInit
    /\ Rest("life", mode = [p \in Processes |-> "multi"]) /\ LifeInit
    /\ Rest("assets", listed = TRUE) /\ AssetInit
    /\ Rest("settings", file = Broken /\ args = NoneSet(Fields)) /\ SettingsInit
    /\ FormatInit /\ StartInit /\ SamplerInit /\ ConfigInit

upkeepVars ==
    <<part, recoveryVars, formatVars, startVars, lifeVars, samplerVars, assetVars,
      settingsVars, configVars>>

UpkeepNext ==
    \/ /\ part = "recovery" /\ RecoveryNext
       /\ UNCHANGED <<part, formatVars, startVars, lifeVars, samplerVars,
                      assetVars, settingsVars, configVars>>
    \/ /\ part = "formats" /\ FormatNext
       /\ UNCHANGED <<part, recoveryVars, startVars, lifeVars, samplerVars,
                      assetVars, settingsVars, configVars>>
    \/ /\ part = "start" /\ StartNext
       /\ UNCHANGED <<part, recoveryVars, formatVars, lifeVars, samplerVars,
                      assetVars, settingsVars, configVars>>
    \/ /\ part = "life" /\ LifeNext
       /\ UNCHANGED <<part, recoveryVars, formatVars, startVars, samplerVars,
                      assetVars, settingsVars, configVars>>
    \/ /\ part = "sampler" /\ SamplerNext
       /\ UNCHANGED <<part, recoveryVars, formatVars, startVars, lifeVars,
                      assetVars, settingsVars, configVars>>
    \/ /\ part = "assets" /\ AssetNext
       /\ UNCHANGED <<part, recoveryVars, formatVars, startVars, lifeVars,
                      samplerVars, settingsVars, configVars>>
    \/ /\ part = "settings" /\ SettingsNext
       /\ UNCHANGED <<part, recoveryVars, formatVars, startVars, lifeVars,
                      samplerVars, assetVars, configVars>>
    \/ /\ part = "configs" /\ ConfigNext
       /\ UNCHANGED <<part, recoveryVars, formatVars, startVars, lifeVars,
                      samplerVars, assetVars, settingsVars>>

UpkeepSpec == UpkeepInit /\ [][UpkeepNext]_upkeepVars
=============================================================================
