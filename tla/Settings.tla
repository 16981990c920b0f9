-------------------------------- MODULE Settings --------------------------------
(* What a daemon runs with.  A start puts the settings together from four   *)
(* layers; before that the bootstrap keys in ValKey reach the environment   *)
(* of the process, one by one.  On SIGHUP the signal thread reads those     *)
(* keys again and puts another configuration in force beside the settings.  *)
EXTENDS Integers, SequencesExt

CONSTANTS
    Unset, Junk, Broken,   \* no value, one that does not parse, a file that does not
    Host,          \* what the bootstrap file on disk says
    Files, Args, Units,    \* the configuration files, arguments and unit environments tried
    EditValues,    \* EditValues[n]: what an operator writes for n in ValKey
    MaxSettingEdits, MaxLoadFailures, MaxLaunches

\* The environment variables, and the fields they set.
Variables == {"INITIAL", "MIN", "CIRCUIT_BREAKER", "CB", "GROUP", "NAMESPACE", "HOST"}
Fields    == {"initial", "min", "threshold", "group"}

Default == [initial |-> 2, min |-> 1, threshold |-> 2, group |-> 1]

ASSUME SettingsAssumption ==
    /\ Unset \notin Nat /\ Unset \notin {Junk, Host}
    /\ \A u \in Units : DOMAIN u = Variables

\* The variables of a field, in the order they are looked up: at a start, at a reload.
StartNames == [initial |-> <<"INITIAL">>, min |-> <<"MIN">>, group |-> <<"GROUP">>,
               threshold |-> <<"CIRCUIT_BREAKER", "CB">>]
ReloadNames == [StartNames EXCEPT !.threshold = Reverse(@)]

VARIABLES
    boot,          \* ValKey: the bootstrap keys their index lists
    disk,          \* the bootstrap file: "good", "drifted" or "cut" short
    unit, file, args,      \* the layers of this daemon that nobody changes
    env,           \* the environment of the process
    stage,         \* "off", "starting", "up"
    tier,       \* where a load is: "no", "disk", "index", "keys"
    unread,        \* the listed keys it has not read
    host, namespace, settings,    \* what the daemon runs with
    startEnv,      \* the environment its start ended with
    unified,       \* the configuration of the reloads
    hup,           \* SIGHUP is pending
    outcome,       \* of the last reload: "none", "applied", "refused"
    stale,         \* the bootstrap keys changed after the last SIGHUP
    settingEdits, loadFailures, launches

layers       == <<unit, file, args>>
running      == <<host, namespace, settings, startEnv>>
settingsVars == <<boot, disk, layers, env, stage, tier, unread, running, unified,
                  hup, outcome, stale, settingEdits, loadFailures, launches>>

-----------------------------------------------------------------------------
(* The layers.                                                              *)

\* The first value that is set.
FirstOf(values) ==
    LET set == {i \in DOMAIN values : values[i] # Unset}
    IN  IF set = {} THEN Unset ELSE values[Min(set)]

FirstSet(e, names) == FirstOf([i \in DOMAIN names |-> e[names[i]]])

\* A value that does not parse leaves the field as it was.
FromEnv(e, names, old) == LET v == FirstSet(e, names) IN IF v \in {Unset, Junk} THEN old ELSE v

FromFile(f) ==
    IF f = Broken THEN Default ELSE [x \in Fields |-> IF f[x] = Unset THEN Default[x] ELSE f[x]]

WithEnv(s, e)  == [x \in Fields |-> FromEnv(e, StartNames[x], s[x])]
WithArgs(s, a) == [x \in Fields |-> IF a[x] = Unset THEN s[x] ELSE a[x]]

\* validate_config; UnifiedConfig::validate
Valid(s) == s.min <= s.initial /\ s.threshold # 0

\* load_config, and what start_daemon does with its error
LoadConfig_EnvLast(f, e, a) ==
    LET s == WithEnv(WithArgs(FromFile(f), a), e) IN IF Valid(s) THEN s ELSE Default
LoadConfig(f, e, a) ==
    LET s == WithArgs(WithEnv(FromFile(f), e), a) IN IF Valid(s) THEN s ELSE Default

\* UnifiedConfig::apply_env_overrides
Overlay(e) == [x \in Fields |-> FromEnv(e, ReloadNames[x], Default[x])]

-----------------------------------------------------------------------------
(* Loading the bootstrap keys.                                              *)

SettingsInit ==
    /\ boot = [n \in Variables |-> Unset] /\ disk = "good"
    /\ unit \in Units /\ file \in Files /\ args \in Args
    /\ env = unit /\ stage = "off" /\ tier = "no" /\ unread = {}
    /\ host = Unset /\ namespace = Unset /\ settings = Default /\ startEnv = unit
    /\ unified = Default
    /\ hup = FALSE /\ outcome = "none" /\ stale = TRUE
    /\ settingEdits = 0 /\ loadFailures = 0 /\ launches = 0

\* A load that fails ends a start; a reload keeps the previous configuration.
Refuse ==
    /\ tier' = "no" /\ unread' = {}
    /\ IF stage = "starting" THEN stage' = "off" /\ UNCHANGED outcome
                             ELSE outcome' = "refused" /\ UNCHANGED stage

\* The process begins: the arguments are read, those with a variable from the unit's environment.
StartProcess ==
    /\ stage = "off" /\ launches < MaxLaunches
    /\ launches' = launches + 1
    /\ stage' = "starting" /\ tier' = "disk"
    /\ env' = unit /\ unified' = Default /\ hup' = FALSE /\ outcome' = "none"
    /\ host' = unit["HOST"] /\ namespace' = unit["NAMESPACE"]
    /\ UNCHANGED <<boot, disk, layers, unread, settings, startEnv, stale, settingEdits, loadFailures>>

\* load_disk_tier: its variables are removed before the file is parsed.
LoadDisk ==
    /\ tier = "disk"
    /\ env' = [env EXCEPT !["HOST"] = CASE disk = "good" -> Host
                                        [] disk = "cut" -> Unset
                                        [] OTHER -> @]
    /\ IF disk = "good" THEN tier' = "index" /\ UNCHANGED <<unread, stage, outcome>> ELSE Refuse
    /\ UNCHANGED <<boot, disk, layers, running, unified, hup, stale, settingEdits, loadFailures, launches>>

\* load_valkey_tier: SMEMBERS
ListKeys ==
    /\ tier = "index"
    /\ tier' = "keys" /\ unread' = {n \in Variables : boot[n] # Unset}
    /\ UNCHANGED <<boot, disk, layers, env, stage, running, unified, hup, outcome, stale,
                   settingEdits, loadFailures, launches>>

\* GET of one listed key; one that was removed meanwhile is an error.
ReadKey_KeepsOld(n) ==
    /\ tier = "keys" /\ n \in unread
    /\ IF boot[n] = Unset
       THEN Refuse /\ UNCHANGED env
       ELSE /\ env' = [env EXCEPT ![n] = IF @ = Unset THEN boot[n] ELSE @]
            /\ unread' = unread \ {n} /\ UNCHANGED <<tier, stage, outcome>>
    /\ UNCHANGED <<boot, disk, layers, running, unified, hup, stale, settingEdits, loadFailures, launches>>
ReadKey(n) ==
    /\ tier = "keys" /\ n \in unread
    /\ IF boot[n] = Unset
       THEN Refuse /\ UNCHANGED env
       ELSE /\ env' = [env EXCEPT ![n] = boot[n]]
            /\ unread' = unread \ {n} /\ UNCHANGED <<tier, stage, outcome>>
    /\ UNCHANGED <<boot, disk, layers, running, unified, hup, stale, settingEdits, loadFailures, launches>>

\* ValKey does not answer.
LoadFails ==
    /\ tier \in {"index", "keys"} /\ loadFailures < MaxLoadFailures
    /\ loadFailures' = loadFailures + 1 /\ Refuse
    /\ UNCHANGED <<boot, disk, layers, env, running, unified, hup, stale, settingEdits, launches>>

LoadDone == tier = "keys" /\ unread = {}

-----------------------------------------------------------------------------
(* What a load is for.                                                      *)

\* The rest of main and start_daemon: what the disk file says goes before the arguments.
Started ==
    /\ LoadDone /\ stage = "starting"
    /\ stage' = "up" /\ tier' = "no"
    /\ host' = IF env["HOST"] = Unset THEN host ELSE env["HOST"]
    /\ settings' = LoadConfig(file, env, args) /\ startEnv' = env
    /\ UNCHANGED <<boot, disk, layers, env, unread, namespace, unified, hup, outcome, stale,
                   settingEdits, loadFailures, launches>>

\* update_config
PutInForce(c) == outcome' = "applied" /\ unified' = c

\* The rest of reload_config.
Reloaded ==
    /\ LoadDone /\ stage = "up"
    /\ tier' = "no"
    /\ IF Valid(Overlay(env)) THEN PutInForce(Overlay(env))
                              ELSE outcome' = "refused" /\ UNCHANGED unified
    /\ UNCHANGED <<boot, disk, layers, env, stage, unread, running, hup, stale,
                   settingEdits, loadFailures, launches>>

\* SIGHUP: before the handlers are installed it ends the process.
Hangup ==
    /\ stage # "off"
    /\ stale' = FALSE
    /\ IF stage = "up" THEN hup' = TRUE /\ UNCHANGED <<stage, tier, unread>>
                       ELSE stage' = "off" /\ tier' = "no" /\ unread' = {} /\ UNCHANGED hup
    /\ UNCHANGED <<boot, disk, layers, env, running, unified, outcome, settingEdits, loadFailures, launches>>

\* The signal thread takes what is pending, one signal at a time.
TakeHangup ==
    /\ stage = "up" /\ tier = "no" /\ hup
    /\ hup' = FALSE /\ tier' = "disk"
    /\ UNCHANGED <<boot, disk, layers, env, stage, unread, running, unified, outcome, stale,
                   settingEdits, loadFailures, launches>>

StopProcess ==
    /\ stage = "up" /\ tier = "no" /\ ~hup
    /\ stage' = "off"
    /\ UNCHANGED <<boot, disk, layers, env, tier, unread, running, unified, hup, outcome, stale,
                   settingEdits, loadFailures, launches>>

Edits == settingEdits < MaxSettingEdits /\ settingEdits' = settingEdits + 1 /\ stale' = TRUE

EditKey(n, v) ==
    /\ v # boot[n] /\ Edits
    /\ boot' = [boot EXCEPT ![n] = v]
    /\ UNCHANGED <<disk, layers, env, stage, tier, unread, running, unified, hup, outcome,
                   loadFailures, launches>>

EditDisk(d) ==
    /\ d # disk /\ Edits
    /\ disk' = d
    /\ UNCHANGED <<boot, layers, env, stage, tier, unread, running, unified, hup, outcome,
                   loadFailures, launches>>

SettingsNext ==
    \/ StartProcess \/ LoadDisk \/ ListKeys \/ LoadFails \/ Started
    \/ Reloaded \/ Hangup \/ TakeHangup \/ StopProcess
    \/ \E n \in Variables : ReadKey(n)
    \/ \E n \in Variables : \E v \in EditValues[n] : EditKey(n, v)
    \/ \E d \in {"good", "drifted", "cut"} : EditDisk(d)

SettingsSpec == SettingsInit /\ [][SettingsNext]_settingsVars

-----------------------------------------------------------------------------
(* Properties.                                                              *)

\* The value of a field in the highest layer that has a usable one.
Highest(x) ==
    LET first == FirstSet(startEnv, StartNames[x])
    IN  FirstOf(<<args[x], IF first = Junk THEN Unset ELSE first,
                  IF file = Broken THEN Unset ELSE file[x], Default[x]>>)

\* A daemon that is up runs with the value of the highest layer in every field
\* - arguments, environment, file, defaults - or, where those do not fit
\* together, with all the defaults; it connects to what the bootstrap file says,
\* whatever the unit and the arguments say; and nothing that validation forbids
\* is in force, at a start or after a reload (config.rs and unified_config.rs,
\* Precedence; main, ValKey variables).
StartPrecedence ==
    stage = "up" =>
        LET h == [x \in Fields |-> Highest(x)]
        IN  /\ settings = IF Valid(h) THEN h ELSE Default
            /\ host = Host
            /\ Valid(settings) /\ Valid(unified)

\* Once the signal thread is idle, and the last SIGHUP came after the last
\* change, a reload that was not refused left in force what ValKey says now: in
\* the environment and in the configuration, also when signals and changes fell
\* into a reload that was under way (reload_config).
LastReloadInForce ==
    stage = "up" /\ tier = "no" /\ ~hup /\ ~stale /\ outcome = "applied" =>
        /\ \A n \in Variables : boot[n] # Unset => env[n] = boot[n]
        /\ \A x \in Fields : \A n \in Variables :
              ReloadNames[x] = <<n>> /\ boot[n] \notin {Unset, Junk} => unified[x] = boot[n]
=============================================================================
