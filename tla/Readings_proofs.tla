---------------------------- MODULE Readings_proofs ----------------------------
(***************************************************************************)
(* Proofs about what a daemon reads step by step while others write it,    *)
(* and decides by: its settings (Settings), the routing and node           *)
(* configurations (NodeConfigs), the demand and the load (LoadSampler) and *)
(* the manifests it builds bundles from (AssetBundles).  For any daemons,  *)
(* any values, any bounds and any number of faults.                        *)
(***************************************************************************)
EXTENDS Settings, NodeConfigs, LoadSampler, AssetBundles, TemplateGraph, FiniteSetTheorems, WellFoundedInduction, TLAPS

-----------------------------------------------------------------------------
(* Settings.  The start and the reload are the same load; what it has read  *)
(* so far is what the invariants are about.                                 *)

\* A load belongs to a process, and a start has not reloaded anything yet.
LoadOfAProcess ==
    /\ DOMAIN boot = Variables /\ DOMAIN env = Variables /\ DOMAIN unit = Variables
    /\ stage \in {"off", "starting", "up"} /\ unread \subseteq Variables
    /\ stage = "off" => tier = "no"
    /\ stage = "starting" => tier # "no" /\ outcome = "none"

\* The host comes from the disk in every start, and is not read again before it is used.
HostFromDisk ==
    /\ boot["HOST"] = Unset
    /\ stage = "starting" /\ tier \in {"index", "keys"} => env["HOST"] = Host
    /\ stage = "up" => host = Host

\* What validation let through.
InForceIsValid ==
    /\ Valid(unified)
    /\ stage = "up" => settings = LoadConfig(file, startEnv, args)

\* No key changed since the signal thread took the last signal.
Undisturbed == stage = "up" /\ ~hup /\ ~stale

\* What ValKey says reached the environment, but for the keys still to be read, and from
\* there the configuration.
EnvironmentIsRead == \A v \in Variables : boot[v] # Unset => v \in unread \/ env[v] = boot[v]

UnifiedIsRead ==
    \A x \in Fields : \A v \in Variables :
        ReloadNames[x] = <<v>> /\ boot[v] \notin {Unset, Junk} => unified[x] = boot[v]

KeysAreRead ==
    Undisturbed =>
        /\ tier = "keys" => EnvironmentIsRead
        /\ tier = "no" /\ outcome = "applied" =>
              (\A v \in Variables : boot[v] # Unset => env[v] = boot[v]) /\ UnifiedIsRead

\* No operator puts the variables of the bootstrap file into ValKey, which would go before it.
NoHostInValKey == EditValues["HOST"] \subseteq {Unset}

LEMMA TheLeast ==
    ASSUME NEW S \in SUBSET Nat, NEW i \in S, \A j \in S : i <= j
    PROVE  Min(S) = i
<1>1. PICK k \in S : k = Min(S) /\ \A j \in S : k <= j
  BY DEF Min
<1> QED BY <1>1

\* The first of four values that is set, the last being a default.
LEMMA FirstOfFour ==
    ASSUME NEW a, NEW b, NEW c, NEW d, d # Unset
    PROVE  FirstOf(<<a, b, c, d>>) =
               IF a # Unset THEN a ELSE IF b # Unset THEN b ELSE IF c # Unset THEN c ELSE d
<1> DEFINE of  == <<a, b, c, d>>
           set == {i \in DOMAIN of : of[i] # Unset}
<1>d. /\ DOMAIN of = 1 .. 4 /\ of[1] = a /\ of[2] = b /\ of[3] = c /\ of[4] = d
  OBVIOUS
<1>s. /\ set \in SUBSET Nat
      /\ \A i \in set : i \in {1, 2, 3, 4}
      /\ 1 \in set <=> a # Unset
      /\ 2 \in set <=> b # Unset
      /\ 3 \in set <=> c # Unset
      /\ 4 \in set
  BY <1>d
<1>f. FirstOf(of) = of[Min(set)]
  BY <1>s DEF FirstOf
<1> HIDE DEF set
<1>1. CASE a # Unset
  <2>1. Min(set) = 1
    BY <1>1, <1>s, TheLeast
  <2> QED BY <2>1, <1>1, <1>f, <1>d
<1>2. CASE a = Unset /\ b # Unset
  <2>1. Min(set) = 2
    BY <1>2, <1>s, TheLeast
  <2> QED BY <2>1, <1>2, <1>f, <1>d
<1>3. CASE a = Unset /\ b = Unset /\ c # Unset
  <2>1. Min(set) = 3
    BY <1>3, <1>s, TheLeast
  <2> QED BY <2>1, <1>3, <1>f, <1>d
<1>4. CASE a = Unset /\ b = Unset /\ c = Unset
  <2>1. Min(set) = 4
    BY <1>4, <1>s, TheLeast
  <2> QED BY <2>1, <1>4, <1>f, <1>d
<1> QED BY <1>1, <1>2, <1>3, <1>4

LEMMA FirstOfOne ==
    ASSUME NEW e, NEW v, e[v] # Unset
    PROVE  FirstSet(e, <<v>>) = e[v]
<1> DEFINE of  == [i \in DOMAIN <<v>> |-> e[<<v>>[i]]]
           set == {i \in DOMAIN of : of[i] # Unset}
<1>1. DOMAIN of = {1} /\ of[1] = e[v] /\ set = {1}
  OBVIOUS
<1> HIDE DEF set
<1>2. Min(set) = 1
  BY <1>1, TheLeast
<1> QED BY <1>1, <1>2 DEF FirstSet, FirstOf, set

LEMMA DefaultsAreValid ==
    /\ Valid(Default)
    /\ \A x \in Fields : Default[x] \in Nat /\ Default[x] # Unset
BY SettingsAssumption DEF Valid, Default, Fields

\* A start takes of every field the value of the highest layer.
LEMMA LayersByField ==
    settings = LoadConfig(file, startEnv, args)
        => LET h == [x \in Fields |-> Highest(x)]
           IN  settings = (IF Valid(h) THEN h ELSE Default) /\ Valid(settings)
<1> SUFFICES ASSUME settings = LoadConfig(file, startEnv, args)
             PROVE  LET h == [x \in Fields |-> Highest(x)]
                    IN  settings = (IF Valid(h) THEN h ELSE Default) /\ Valid(settings)
  OBVIOUS
<1> DEFINE h == [x \in Fields |-> Highest(x)]
           s == WithArgs(WithEnv(FromFile(file), startEnv), args)
<1>1. ASSUME NEW x \in Fields PROVE s[x] = Highest(x)
  <2> DEFINE first == FirstSet(startEnv, StartNames[x])
             low   == IF file = Broken THEN Unset ELSE file[x]
  <2>d. Default[x] # Unset
    BY DefaultsAreValid
  <2>1. FromFile(file)[x] = IF low # Unset THEN low ELSE Default[x]
    BY DEF FromFile
  <2>2. WithEnv(FromFile(file), startEnv)[x] =
            IF first \in {Unset, Junk} THEN FromFile(file)[x] ELSE first
    BY DEF WithEnv, FromEnv
  <2>3. s[x] = IF args[x] = Unset THEN WithEnv(FromFile(file), startEnv)[x] ELSE args[x]
    BY DEF WithArgs
  <2>4. Highest(x) = FirstOf(<<args[x], IF first = Junk THEN Unset ELSE first, low, Default[x]>>)
    BY DEF Highest
  <2> HIDE DEF first, low, s
  <2>5. Highest(x) = IF args[x] # Unset THEN args[x]
                     ELSE IF (IF first = Junk THEN Unset ELSE first) # Unset
                          THEN (IF first = Junk THEN Unset ELSE first)
                     ELSE IF low # Unset THEN low ELSE Default[x]
    BY <2>4, <2>d, FirstOfFour
  <2> QED BY <2>1, <2>2, <2>3, <2>5
<1>2. s = h
  BY <1>1 DEF WithArgs
<1>3. settings = IF Valid(s) THEN s ELSE Default
  BY DEF LoadConfig
<1> HIDE DEF s, h
<1>4. settings = (IF Valid(h) THEN h ELSE Default)
  BY <1>2, <1>3
<1> QED BY <1>4, DefaultsAreValid DEF h

LEMMA LoadOfAProcessInit == SettingsInit => LoadOfAProcess
BY SettingsAssumption DEF SettingsInit, LoadOfAProcess, Variables

LEMMA LoadOfAProcessStep == LoadOfAProcess /\ [SettingsNext]_settingsVars => LoadOfAProcess'
<1> SUFFICES ASSUME LoadOfAProcess, [SettingsNext]_settingsVars PROVE LoadOfAProcess'
  OBVIOUS
<1> USE DEF LoadOfAProcess, layers, running
<1>1. CASE StartProcess
  BY <1>1 DEF StartProcess
<1>2. CASE LoadDisk
  BY <1>2 DEF LoadDisk, Refuse
<1>3. CASE ListKeys
  BY <1>3 DEF ListKeys
<1>4. CASE LoadFails
  BY <1>4 DEF LoadFails, Refuse
<1>5. CASE Started
  BY <1>5 DEF Started, LoadDone
<1>6. CASE Reloaded
  BY <1>6 DEF Reloaded, LoadDone, PutInForce
<1>7. CASE Hangup
  BY <1>7 DEF Hangup
<1>8. CASE TakeHangup
  BY <1>8 DEF TakeHangup
<1>9. CASE StopProcess
  BY <1>9 DEF StopProcess
<1>10. ASSUME NEW v \in Variables, ReadKey(v) PROVE LoadOfAProcess'
  BY <1>10 DEF ReadKey, Refuse
<1>11. ASSUME NEW v \in Variables, NEW w \in EditValues[v], EditKey(v, w) PROVE LoadOfAProcess'
  BY <1>11 DEF EditKey, Edits
<1>12. ASSUME NEW d, EditDisk(d) PROVE LoadOfAProcess'
  BY <1>12 DEF EditDisk, Edits
<1>13. CASE UNCHANGED settingsVars
  BY <1>13 DEF settingsVars
<1> QED
  BY <1>1, <1>2, <1>3, <1>4, <1>5, <1>6, <1>7, <1>8, <1>9, <1>10, <1>11, <1>12, <1>13 DEF SettingsNext

LEMMA HostFromDiskStep ==
    NoHostInValKey /\ LoadOfAProcess /\ HostFromDisk /\ [SettingsNext]_settingsVars => HostFromDisk'
<1> SUFFICES ASSUME NoHostInValKey, LoadOfAProcess, HostFromDisk, [SettingsNext]_settingsVars
             PROVE  HostFromDisk'
  OBVIOUS
<1> USE SettingsAssumption DEF LoadOfAProcess, HostFromDisk, layers, running
<1>v. "HOST" \in Variables
  BY DEF Variables
<1>1. CASE StartProcess
  BY <1>1 DEF StartProcess
<1>2. CASE LoadDisk
  BY <1>2, <1>v DEF LoadDisk, Refuse
<1>3. CASE ListKeys
  BY <1>3 DEF ListKeys
<1>4. CASE LoadFails
  BY <1>4 DEF LoadFails, Refuse
<1>5. CASE Started
  BY <1>5 DEF Started, LoadDone
<1>6. CASE Reloaded
  BY <1>6 DEF Reloaded, LoadDone, PutInForce
<1>7. CASE Hangup
  BY <1>7 DEF Hangup
<1>8. CASE TakeHangup
  BY <1>8 DEF TakeHangup
<1>9. CASE StopProcess
  BY <1>9 DEF StopProcess
<1>10. ASSUME NEW v \in Variables, ReadKey(v) PROVE HostFromDisk'
  BY <1>10, <1>v DEF ReadKey, Refuse
<1>11. ASSUME NEW v \in Variables, NEW w \in EditValues[v], EditKey(v, w) PROVE HostFromDisk'
  BY <1>11, <1>v DEF EditKey, Edits, NoHostInValKey
<1>12. ASSUME NEW d, EditDisk(d) PROVE HostFromDisk'
  BY <1>12 DEF EditDisk, Edits
<1>13. CASE UNCHANGED settingsVars
  BY <1>13 DEF settingsVars
<1> QED
  BY <1>1, <1>2, <1>3, <1>4, <1>5, <1>6, <1>7, <1>8, <1>9, <1>10, <1>11, <1>12, <1>13 DEF SettingsNext

LEMMA InForceIsValidStep ==
    LoadOfAProcess /\ InForceIsValid /\ [SettingsNext]_settingsVars => InForceIsValid'
<1> SUFFICES ASSUME LoadOfAProcess, InForceIsValid, [SettingsNext]_settingsVars PROVE InForceIsValid'
  OBVIOUS
<1> USE DEF InForceIsValid, LoadOfAProcess, layers, running
<1>1. CASE StartProcess
  BY <1>1, DefaultsAreValid DEF StartProcess
<1>2. CASE LoadDisk
  BY <1>2 DEF LoadDisk, Refuse
<1>3. CASE ListKeys
  BY <1>3 DEF ListKeys
<1>4. CASE LoadFails
  BY <1>4 DEF LoadFails, Refuse
<1>5. CASE Started
  BY <1>5 DEF Started, LoadDone
<1>6. CASE Reloaded
  BY <1>6 DEF Reloaded, LoadDone, PutInForce
<1>7. CASE Hangup
  BY <1>7 DEF Hangup
<1>8. CASE TakeHangup
  BY <1>8 DEF TakeHangup
<1>9. CASE StopProcess
  BY <1>9 DEF StopProcess
<1>10. ASSUME NEW v \in Variables, ReadKey(v) PROVE InForceIsValid'
  BY <1>10 DEF ReadKey, Refuse
<1>11. ASSUME NEW v \in Variables, NEW w \in EditValues[v], EditKey(v, w) PROVE InForceIsValid'
  BY <1>11 DEF EditKey, Edits
<1>12. ASSUME NEW d, EditDisk(d) PROVE InForceIsValid'
  BY <1>12 DEF EditDisk, Edits
<1>13. CASE UNCHANGED settingsVars
  BY <1>13 DEF settingsVars
<1> QED
  BY <1>1, <1>2, <1>3, <1>4, <1>5, <1>6, <1>7, <1>8, <1>9, <1>10, <1>11, <1>12, <1>13 DEF SettingsNext

\* What the end of a reload puts in force is what was read.
LEMMA OverlayIsRead ==
    ASSUME \A v \in Variables : boot[v] # Unset => env[v] = boot[v],
           NEW x \in Fields, NEW v \in Variables, ReloadNames[x] = <<v>>, boot[v] \notin {Unset, Junk}
    PROVE  Overlay(env)[x] = boot[v]
<1>1. FirstSet(env, ReloadNames[x]) = boot[v]
  BY FirstOfOne
<1> QED BY <1>1 DEF Overlay, FromEnv

LEMMA KeysAreReadStep ==
    LoadOfAProcess /\ KeysAreRead /\ [SettingsNext]_settingsVars => KeysAreRead'
<1> SUFFICES ASSUME LoadOfAProcess, KeysAreRead, [SettingsNext]_settingsVars PROVE KeysAreRead'
  OBVIOUS
<1> USE DEF KeysAreRead, Undisturbed, EnvironmentIsRead, UnifiedIsRead, LoadOfAProcess, layers, running
<1>1. CASE StartProcess
  BY <1>1 DEF StartProcess
<1>2. CASE LoadDisk
  BY <1>2 DEF LoadDisk, Refuse
<1>3. CASE ListKeys
  BY <1>3 DEF ListKeys
<1>4. CASE LoadFails
  BY <1>4 DEF LoadFails, Refuse
<1>5. CASE Started
  BY <1>5 DEF Started, LoadDone
<1>6. CASE Reloaded
  <2>1. CASE Undisturbed /\ Valid(Overlay(env))
    <3>1. \A v \in Variables : boot[v] # Unset => env[v] = boot[v]
      BY <1>6, <2>1 DEF Reloaded, LoadDone
    <3>2. /\ unified' = Overlay(env) /\ tier' = "no"
          /\ UNCHANGED <<boot, env, stage, hup, stale, unread>>
      BY <1>6, <2>1 DEF Reloaded, PutInForce
    <3>3. UnifiedIsRead'
      BY <3>1, <3>2, OverlayIsRead
    <3> QED BY <3>1, <3>2, <3>3
  <2>2. CASE ~Undisturbed
    BY <1>6, <2>2 DEF Reloaded
  <2>3. CASE ~Valid(Overlay(env))
    BY <1>6, <2>3 DEF Reloaded
  <2> QED BY <2>1, <2>2, <2>3
<1>7. CASE Hangup
  BY <1>7 DEF Hangup
<1>8. CASE TakeHangup
  BY <1>8 DEF TakeHangup
<1>9. CASE StopProcess
  BY <1>9 DEF StopProcess
<1>10. ASSUME NEW v \in Variables, ReadKey(v) PROVE KeysAreRead'
  BY <1>10 DEF ReadKey, Refuse
<1>11. ASSUME NEW v \in Variables, NEW w \in EditValues[v], EditKey(v, w) PROVE KeysAreRead'
  BY <1>11 DEF EditKey, Edits
<1>12. ASSUME NEW d, EditDisk(d) PROVE KeysAreRead'
  BY <1>12 DEF EditDisk, Edits
<1>13. CASE UNCHANGED settingsVars
  BY <1>13 DEF settingsVars
<1> QED
  BY <1>1, <1>2, <1>3, <1>4, <1>5, <1>6, <1>7, <1>8, <1>9, <1>10, <1>11, <1>12, <1>13 DEF SettingsNext

\* Where nobody keeps the variables of the bootstrap file in ValKey, a daemon
\* that is up runs, field by field, with the highest layer that has a usable
\* value, connects to what the bootstrap file says, and has nothing in force
\* that validation forbids, over any starts, reloads, edits and failures
\* (load_config, main).
THEOREM PrecedenceIsKept == NoHostInValKey /\ SettingsSpec => []StartPrecedence
<1>1. SettingsInit => LoadOfAProcess /\ HostFromDisk /\ InForceIsValid
  BY LoadOfAProcessInit, DefaultsAreValid DEF SettingsInit, HostFromDisk, InForceIsValid, Variables
<1>2. NoHostInValKey /\ LoadOfAProcess /\ HostFromDisk /\ InForceIsValid /\ [SettingsNext]_settingsVars
          => (LoadOfAProcess /\ HostFromDisk /\ InForceIsValid)'
  BY LoadOfAProcessStep, HostFromDiskStep, InForceIsValidStep
<1>3. HostFromDisk /\ InForceIsValid => StartPrecedence
  BY LayersByField DEF HostFromDisk, InForceIsValid, StartPrecedence
<1>4. NoHostInValKey => NoHostInValKey'
  BY DEF NoHostInValKey
<1> QED BY <1>1, <1>2, <1>3, <1>4, PTL DEF SettingsSpec

\* Once the signal thread is idle and the last SIGHUP came after the last change, what is in
\* force after a reload that was not refused is what ValKey says, whatever signals, edits and
\* failures fell into which reload (reload_config, load_valkey_tier).
THEOREM ReloadsAreCurrent == SettingsSpec => []LastReloadInForce
<1>1. SettingsInit => LoadOfAProcess /\ KeysAreRead
  BY LoadOfAProcessInit DEF SettingsInit, KeysAreRead, Undisturbed
<1>2. LoadOfAProcess /\ KeysAreRead /\ [SettingsNext]_settingsVars => (LoadOfAProcess /\ KeysAreRead)'
  BY LoadOfAProcessStep, KeysAreReadStep
<1>3. KeysAreRead => LastReloadInForce
  BY DEF KeysAreRead, Undisturbed, UnifiedIsRead, LastReloadInForce
<1> QED BY <1>1, <1>2, <1>3, PTL DEF SettingsSpec

-----------------------------------------------------------------------------
(* NodeConfigs.  From the end of its routing files on, what a master decides *)
(* by is what it stored; a remote that started since then copies it type by *)
(* type, and nobody stores another until a master starts again.             *)

ConfigShapes ==
    /\ DOMAIN at = Servers /\ DOMAIN kind = Servers /\ DOMAIN have = Servers /\ DOMAIN left = Servers
    /\ DOMAIN asking = Servers /\ DOMAIN clears = Servers /\ DOMAIN reloaded = Servers
    /\ DOMAIN behind = Servers /\ DOMAIN cached = Servers
    /\ DOMAIN published = Kinds /\ \A k \in Kinds : DOMAIN published[k] = Types
    /\ \A d \in Servers : /\ kind[d] \in Kinds /\ DOMAIN have[d] = Types /\ DOMAIN cached[d] = Kinds
                          /\ \A k \in Kinds : DOMAIN cached[d][k] = Types

\* A daemon goes through its start in order, and clears its caches only when it was told to.
StartsInOrder ==
    \A d \in Servers :
        /\ at[d] = "off" => clears[d] = {}
        /\ clears[d] # {} => reloaded[d] # "no"
        /\ at[d] = "up" => kind[d] = "node"
        /\ at[d] = "insert" => asking[d] \in Types
        /\ d \in Publishers => at[d] \in {"off", "read", "store", "up"}
        /\ d \in Fetchers => at[d] \in {"off", "fetch", "insert", "up"}

\* What a master has stored of its routing files so far.
StoredSoFar ==
    \A m \in Publishers :
        at[m] = "store" /\ kind[m] = "routing" =>
            \A t \in Types : have[m][t] # NoConfig /\ t \notin left[m] => published["routing"][t] = have[m][t]

\* There is a routing configuration of every type, and no master is about to store another.
Settled ==
    /\ \A t \in Types : published["routing"][t] # NoConfig
    /\ \A m \in Publishers : at[m] = "off" \/ kind[m] = "node"

\* A master with all its files stored decides by them.
MasterDecides ==
    \A m \in Publishers : behind[m] =>
        /\ at[m] # "off" /\ Settled
        /\ reloaded[m] = "no" => \A t \in Types : cached[m]["routing"][t] = published["routing"][t]

\* What a remote behind such a master has copied so far.
Copied(r, t) == kind[r] = "routing" => t \notin left[r] /\ (at[r] = "insert" => t # asking[r])

RemoteCopies ==
    \A r \in Fetchers : behind[r] =>
        /\ Settled
        /\ at[r] = "insert" /\ kind[r] = "routing" => have[r][asking[r]] = published["routing"][asking[r]]
        /\ reloaded[r] = "no" =>
              \A t \in Exposes[r] : Copied(r, t) => cached[r]["routing"][t] = published["routing"][t]

ConfigInv == ConfigShapes /\ StartsInOrder /\ StoredSoFar /\ MasterDecides /\ RemoteCopies

\* One daemon of the constellation is its master.
OneMaster == \A a, b \in Publishers : a = b

LEMMA ConfigInvInit == ConfigInit => ConfigInv
<1> SUFFICES ASSUME ConfigInit PROVE ConfigInv
  OBVIOUS
<1> USE DEF ConfigInit
<1>1. ConfigShapes
  BY DEF ConfigShapes, Empty, NoneOf, Kinds
<1>2. StartsInOrder
  BY DEF StartsInOrder
<1>3. StoredSoFar /\ MasterDecides /\ RemoteCopies
  BY DEF StoredSoFar, MasterDecides, RemoteCopies, Servers
<1> QED BY <1>1, <1>2, <1>3 DEF ConfigInv

LEMMA TwoKinds == "routing" \in Kinds /\ "node" \in Kinds /\ \A k \in Kinds : k = "routing" \/ k = "node"
BY DEF Kinds

\* What the end of a kind, or of the start, changes.
LEMMA NextKind ==
    ASSUME ConfigShapes, NEW d \in Servers, GoesOn(d)
    PROVE  /\ at' = [at EXCEPT ![d] = IF kind[d] = "node" THEN "up" ELSE IF d \in Publishers THEN "read" ELSE "fetch"]
           /\ DOMAIN kind' = Servers /\ \A e \in Servers : kind'[e] = IF e = d THEN "node" ELSE kind[e]
           /\ have' = [have EXCEPT ![d] = NoneOf]
           /\ DOMAIN left' = Servers
<1>1. kind[d] = "routing" \/ kind[d] = "node"
  BY TwoKinds DEF ConfigShapes
<1>2. CASE kind[d] = "routing"
  BY <1>2 DEF GoesOn, Turns, ConfigShapes
<1>3. CASE kind[d] = "node"
  BY <1>3 DEF GoesOn, ConfigShapes
<1> QED BY <1>1, <1>2, <1>3

LEMMA FallsKeepsShape ==
    ASSUME NEW c, NEW d, DOMAIN c = Kinds, \A k \in Kinds : DOMAIN c[k] = Types
    PROVE  DOMAIN Falls(c, d) = Kinds /\ \A k \in Kinds : DOMAIN Falls(c, d)[k] = Types
BY TwoKinds DEF Falls

LEMMA ConfigShapesStep == ConfigShapes /\ StartsInOrder /\ [ConfigNext]_configVars => ConfigShapes'
<1> SUFFICES ASSUME ConfigShapes, StartsInOrder, [ConfigNext]_configVars PROVE ConfigShapes'
  OBVIOUS
<1> USE DEF starting, fileVars
<1>k. "routing" \in Kinds /\ "node" \in Kinds
  BY TwoKinds
<1>n. DOMAIN NoneOf = Types
  BY DEF NoneOf
<1>1. ASSUME NEW d \in Servers, Serve(d) PROVE ConfigShapes'
  BY <1>1, <1>k, <1>n DEF Serve, Turns, ConfigShapes
<1>2. ASSUME NEW d \in Publishers, ReadFiles(d) PROVE ConfigShapes'
  <2>1. DOMAIN ReadDirectory(kind[d]) = Types
    BY DEF ReadDirectory
  <2> HIDE DEF ReadDirectory
  <2> QED BY <1>2, <2>1 DEF ReadFiles, ConfigShapes
<1>3. ASSUME NEW d \in Publishers, NEW t \in Types, Store(d, t) PROVE ConfigShapes'
  BY <1>3 DEF Store, ConfigShapes
<1>4. ASSUME NEW d \in Servers, NEW c, DOMAIN c = Kinds, \A k \in Kinds : DOMAIN c[k] = Types,
             cached' = [cached EXCEPT ![d] = c]
      PROVE  DOMAIN cached' = Servers /\ \A e \in Servers : /\ DOMAIN cached'[e] = Kinds
                                                           /\ \A k \in Kinds : DOMAIN cached'[e][k] = Types
  BY <1>4 DEF ConfigShapes
<1>g. ASSUME NEW d \in Servers, GoesOn(d)
      PROVE  /\ DOMAIN at' = Servers /\ DOMAIN kind' = Servers /\ DOMAIN have' = Servers /\ DOMAIN left' = Servers
             /\ \A e \in Servers : kind'[e] \in Kinds /\ DOMAIN have'[e] = Types
  <2>1. /\ at' = [at EXCEPT ![d] = IF kind[d] = "node" THEN "up" ELSE IF d \in Publishers THEN "read" ELSE "fetch"]
        /\ DOMAIN kind' = Servers /\ \A e \in Servers : kind'[e] = IF e = d THEN "node" ELSE kind[e]
        /\ have' = [have EXCEPT ![d] = NoneOf]
        /\ DOMAIN left' = Servers
    BY <1>g, NextKind
  <2> QED BY <2>1, <1>k, <1>n DEF ConfigShapes
<1>5. ASSUME NEW d \in Publishers, CacheAll(d) PROVE ConfigShapes'
  <2> DEFINE c == [cached[d] EXCEPT ![kind[d]] = [t \in Types |-> IF have[d][t] = NoConfig THEN @[t] ELSE have[d][t]]]
  <2>d. d \in Servers
    BY DEF Servers
  <2>1. DOMAIN c = Kinds /\ \A k \in Kinds : DOMAIN c[k] = Types
    BY <2>d DEF ConfigShapes
  <2>2. cached' = [cached EXCEPT ![d] = Falls(c, d)] \/ cached' = [cached EXCEPT ![d] = c]
    BY <1>5 DEF CacheAll
  <2> HIDE DEF c
  <2>3. DOMAIN Falls(c, d) = Kinds /\ \A k \in Kinds : DOMAIN Falls(c, d)[k] = Types
    BY <2>1, FallsKeepsShape
  <2>4. /\ DOMAIN cached' = Servers
        /\ \A e \in Servers : DOMAIN cached'[e] = Kinds /\ \A k \in Kinds : DOMAIN cached'[e][k] = Types
    BY <2>1, <2>2, <2>3, <2>d, <1>4
  <2>5. GoesOn(d) /\ DOMAIN behind' = Servers /\ UNCHANGED <<published, asking, clears, reloaded>>
    BY <1>5 DEF CacheAll, ConfigShapes
  <2> QED BY <2>4, <2>5, <2>d, <1>g DEF ConfigShapes
<1>6. ASSUME NEW d \in Publishers, StoringFails(d) PROVE ConfigShapes'
  <2>d. d \in Servers
    BY DEF Servers
  <2>1. DOMAIN Falls(cached[d], d) = Kinds /\ \A k \in Kinds : DOMAIN Falls(cached[d], d)[k] = Types
    BY <2>d, FallsKeepsShape DEF ConfigShapes
  <2>2. /\ cached' = [cached EXCEPT ![d] = Falls(cached[d], d)]
        /\ GoesOn(d) /\ DOMAIN behind' = Servers /\ UNCHANGED <<published, asking, clears, reloaded>>
    BY <1>6 DEF StoringFails, ConfigShapes
  <2>4. /\ DOMAIN cached' = Servers
        /\ \A e \in Servers : DOMAIN cached'[e] = Kinds /\ \A k \in Kinds : DOMAIN cached'[e][k] = Types
    BY <2>1, <2>2, <2>d, <1>4
  <2> QED BY <2>4, <2>2, <2>d, <1>g DEF ConfigShapes
<1>7. ASSUME NEW d \in Fetchers, NEW t \in Types, Fetch(d, t) PROVE ConfigShapes'
  <2>1. DOMAIN have' = Servers /\ \A e \in Servers : DOMAIN have'[e] = Types
    BY <1>7 DEF Fetch, ConfigShapes
  <2> QED BY <1>7, <2>1 DEF Fetch, ConfigShapes
<1>8. ASSUME NEW d \in Servers, Insert(d) PROVE ConfigShapes'
  <2>1. /\ DOMAIN cached' = Servers
        /\ \A e \in Servers : DOMAIN cached'[e] = Kinds /\ \A k \in Kinds : DOMAIN cached'[e][k] = Types
    BY <1>8 DEF Insert, ConfigShapes
  <2>2. CASE left[d] # {}
    BY <1>8, <2>1, <2>2 DEF Insert, ConfigShapes
  <2>3. CASE left[d] = {}
    <3>1. GoesOn(d) /\ DOMAIN asking' = Servers /\ UNCHANGED <<published, clears, reloaded, behind>>
      BY <1>8, <2>3 DEF Insert, ConfigShapes
    <3> QED BY <2>1, <3>1, <1>g DEF ConfigShapes
  <2> QED BY <2>2, <2>3
<1>9. ASSUME NEW d \in Servers, Reload(d) PROVE ConfigShapes'
  BY <1>9 DEF Reload, ConfigShapes
<1>10. ASSUME NEW d \in Servers, Clear(d) PROVE ConfigShapes'
  <2>1. /\ DOMAIN cached' = Servers
        /\ \A e \in Servers : DOMAIN cached'[e] = Kinds /\ \A k \in Kinds : DOMAIN cached'[e][k] = Types
    BY <1>10, <1>n DEF Clear, ConfigShapes
  <2> QED BY <1>10, <2>1 DEF Clear, ConfigShapes
<1>11. ASSUME NEW d \in Servers, Quit(d) PROVE ConfigShapes'
  <2>1. DOMAIN Empty = Kinds /\ \A k \in Kinds : DOMAIN Empty[k] = Types
    BY <1>n DEF Empty
  <2> HIDE DEF Empty
  <2> QED BY <1>11, <2>1, <1>k, <1>n DEF Quit, ConfigShapes
<1>12. ASSUME NEW t \in Types, NEW g \in Grades, WriteFile(t, g) PROVE ConfigShapes'
  BY <1>12 DEF WriteFile, ConfigShapes
<1>13. CASE UNCHANGED configVars
  BY <1>13 DEF configVars, ConfigShapes
<1> QED
  BY <1>1, <1>2, <1>3, <1>5, <1>6, <1>7, <1>8, <1>9, <1>10, <1>11, <1>12, <1>13 DEF ConfigNext

LEMMA StartsInOrderStep == ConfigShapes /\ StartsInOrder /\ [ConfigNext]_configVars => StartsInOrder'
<1> SUFFICES ASSUME ConfigShapes, StartsInOrder, [ConfigNext]_configVars PROVE StartsInOrder'
  OBVIOUS
<1> USE ConfigAssumption DEF starting, fileVars, Servers, StartsInOrder
<1>1. ASSUME NEW d \in Servers, Serve(d) PROVE StartsInOrder'
  BY <1>1 DEF Serve, Turns, ConfigShapes
<1>2. ASSUME NEW d \in Publishers, ReadFiles(d) PROVE StartsInOrder'
  BY <1>2 DEF ReadFiles, ConfigShapes
<1>3. ASSUME NEW d \in Publishers, NEW t \in Types, Store(d, t) PROVE StartsInOrder'
  BY <1>3 DEF Store, ConfigShapes
<1>g. ASSUME NEW d \in Servers, GoesOn(d)
      PROVE  /\ at' = [at EXCEPT ![d] = IF kind[d] = "node" THEN "up" ELSE IF d \in Publishers THEN "read" ELSE "fetch"]
             /\ DOMAIN kind' = Servers /\ \A e \in Servers : kind'[e] = IF e = d THEN "node" ELSE kind[e]
  BY <1>g, NextKind
<1>5. ASSUME NEW d \in Publishers, CacheAll(d) \/ StoringFails(d) PROVE StartsInOrder'
  <2>1. at[d] = "store" /\ GoesOn(d) /\ UNCHANGED <<asking, clears, reloaded>>
    BY <1>5 DEF CacheAll, StoringFails
  <2> QED BY <2>1, <1>g DEF ConfigShapes
<1>7. ASSUME NEW d \in Fetchers, NEW t \in Types, Fetch(d, t) PROVE StartsInOrder'
  BY <1>7 DEF Fetch, ConfigShapes
<1>8. ASSUME NEW d \in Servers, Insert(d) PROVE StartsInOrder'
  <2>1. at[d] = "insert" /\ asking' = [asking EXCEPT ![d] = NoConfig] /\ UNCHANGED <<clears, reloaded>>
    BY <1>8 DEF Insert
  <2>2. CASE left[d] # {}
    BY <1>8, <2>1, <2>2 DEF Insert, ConfigShapes
  <2>3. CASE left[d] = {}
    <3>1. GoesOn(d)
      BY <1>8, <2>3 DEF Insert
    <3> QED BY <2>1, <3>1, <1>g DEF ConfigShapes
  <2> QED BY <2>2, <2>3
<1>9. ASSUME NEW d \in Servers, Reload(d) PROVE StartsInOrder'
  BY <1>9 DEF Reload, ConfigShapes
<1>10. ASSUME NEW d \in Servers, Clear(d) PROVE StartsInOrder'
  BY <1>10 DEF Clear, ConfigShapes
<1>11. ASSUME NEW d \in Servers, Quit(d) PROVE StartsInOrder'
  BY <1>11 DEF Quit, ConfigShapes
<1>12. ASSUME NEW t \in Types, NEW g \in Grades, WriteFile(t, g) PROVE StartsInOrder'
  BY <1>12 DEF WriteFile
<1>13. CASE UNCHANGED configVars
  BY <1>13 DEF configVars
<1> QED
  BY <1>1, <1>2, <1>3, <1>5, <1>7, <1>8, <1>9, <1>10, <1>11, <1>12, <1>13 DEF ConfigNext

\* Where neither the routing configurations nor what the masters are at change.
LEMMA SettledStays ==
    ASSUME \A t \in Types : published'["routing"][t] = published["routing"][t],
           \A m \in Publishers : at[m] = "off" \/ kind[m] = "node" => at'[m] = "off" \/ kind'[m] = "node",
           Settled
    PROVE  Settled'
BY DEF Settled

\* A step of a master.
LEMMA StepOfAMaster ==
    ASSUME ConfigInv, OneMaster, NEW m \in Publishers,
           \/ ReadFiles(m) \/ CacheAll(m) \/ StoringFails(m)
           \/ \E t \in Types : Store(m, t)
    PROVE  (StoredSoFar /\ MasterDecides /\ RemoteCopies)'
<1>i. ConfigShapes /\ StartsInOrder /\ StoredSoFar /\ MasterDecides /\ RemoteCopies
  BY DEF ConfigInv
<1>m. /\ \A p \in Publishers : p = m
      /\ m \in Servers /\ First[m] \in Types
      /\ \A r \in Fetchers : r \in Servers /\ r # m
  BY ConfigAssumption DEF OneMaster, Servers
<1>s. /\ m \in DOMAIN at /\ m \in DOMAIN kind /\ m \in DOMAIN have /\ m \in DOMAIN left
      /\ m \in DOMAIN cached /\ m \in DOMAIN behind
      /\ "routing" \in Kinds /\ "node" \in Kinds /\ (kind[m] = "routing" \/ kind[m] = "node")
      /\ DOMAIN published = Kinds /\ \A k \in Kinds : DOMAIN published[k] = Types
      /\ DOMAIN cached[m] = Kinds /\ \A k \in Kinds : DOMAIN cached[m][k] = Types
  BY <1>i, <1>m, TwoKinds DEF ConfigShapes
<1>1. ASSUME ReadFiles(m) PROVE (StoredSoFar /\ MasterDecides /\ RemoteCopies)'
  <2>1. /\ at[m] = "read" /\ at' = [at EXCEPT ![m] = "store"]
        /\ have' = [have EXCEPT ![m] = ReadDirectory(kind[m])]
        /\ left' = [left EXCEPT ![m] = {t \in Types : ReadDirectory(kind[m])[t] # NoConfig}]
        /\ UNCHANGED <<published, cached, kind, asking, reloaded, behind>>
    BY <1>1 DEF ReadFiles
  <2>2. Settled => Settled'
    BY <2>1, <1>m, <1>s DEF Settled
  <2>3. StoredSoFar'
    BY <2>1, <1>m, <1>s DEF StoredSoFar
  <2>4. MasterDecides'
    BY <2>1, <2>2, <1>i, <1>m, <1>s DEF MasterDecides
  <2>5. RemoteCopies'
    BY <2>1, <2>2, <1>i, <1>m, <1>s DEF RemoteCopies, Copied
  <2> QED BY <2>3, <2>4, <2>5
<1>2. ASSUME NEW t \in Types, Store(m, t) PROVE (StoredSoFar /\ MasterDecides /\ RemoteCopies)'
  <2>1. /\ at[m] = "store" /\ t \in left[m]
        /\ published' = [published EXCEPT ![kind[m]][t] = have[m][t]]
        /\ left' = [left EXCEPT ![m] = left[m] \ {t}]
        /\ UNCHANGED <<cached, at, kind, have, asking, reloaded, behind>>
    BY <1>2 DEF Store
  <2>2. CASE kind[m] = "routing"
    <3>1. ~Settled
      BY <2>1, <2>2 DEF Settled
    <3>2. MasterDecides' /\ RemoteCopies'
      BY <2>1, <3>1, <1>i DEF MasterDecides, RemoteCopies
    <3>3. StoredSoFar'
      BY <2>1, <2>2, <1>i, <1>m, <1>s DEF StoredSoFar
    <3> QED BY <3>2, <3>3
  <2>3. CASE kind[m] = "node"
    <3>1. \A u \in Types : published'["routing"][u] = published["routing"][u]
      BY <2>1, <2>3, <1>s
    <3>2. Settled => Settled'
      BY <2>1, <3>1, SettledStays
    <3>3. StoredSoFar'
      BY <2>1, <2>3, <1>m DEF StoredSoFar
    <3>4. MasterDecides'
      BY <2>1, <3>1, <3>2, <1>i DEF MasterDecides
    <3>5. RemoteCopies'
      <4> SUFFICES ASSUME NEW r \in Fetchers, behind[r]
                   PROVE  /\ Settled'
                          /\ at[r] = "insert" /\ kind[r] = "routing"
                                => have[r][asking[r]] = published'["routing"][asking[r]]
                          /\ reloaded[r] = "no" =>
                                \A u \in Exposes[r] : Copied(r, u)' => cached[r]["routing"][u] = published'["routing"][u]
        BY <2>1 DEF RemoteCopies
      <4>1. /\ Settled
            /\ at[r] = "insert" /\ kind[r] = "routing" => have[r][asking[r]] = published["routing"][asking[r]]
            /\ reloaded[r] = "no" =>
                  \A u \in Exposes[r] : Copied(r, u) => cached[r]["routing"][u] = published["routing"][u]
        BY <1>i DEF RemoteCopies
      <4>2. left'[r] = left[r] /\ Exposes[r] \subseteq Types
        BY <2>1, <1>m, <1>i, ConfigAssumption DEF ConfigShapes
      <4>3. \A u : Copied(r, u)' = Copied(r, u)
        BY <2>1, <4>2 DEF Copied
      <4>4. at[r] = "insert" => asking[r] \in Types
        BY <1>i, <1>m DEF StartsInOrder
      <4> QED BY <4>1, <4>2, <4>3, <4>4, <3>1, <3>2
    <3> QED BY <3>3, <3>4, <3>5
  <2> QED BY <2>2, <2>3, <1>s
<1>f. ASSUME at[m] = "store", GoesOn(m), UNCHANGED <<published, asking, reloaded>>,
             \A r \in Fetchers : behind'[r] = behind[r] /\ cached'[r] = cached[r],
             behind'[m] => /\ \A t \in Types : published["routing"][t] # NoConfig
                           /\ reloaded[m] = "no" =>
                                 \A t \in Types : cached'[m]["routing"][t] = published["routing"][t]
      PROVE  (StoredSoFar /\ MasterDecides /\ RemoteCopies)'
  <2>1. /\ at' = [at EXCEPT ![m] = IF kind[m] = "node" THEN "up" ELSE IF m \in Publishers THEN "read" ELSE "fetch"]
        /\ \A e \in Servers : kind'[e] = IF e = m THEN "node" ELSE kind[e]
        /\ have' = [have EXCEPT ![m] = NoneOf]
    BY <1>f, <1>i, <1>m, NextKind
  <2>l. \A r \in Fetchers : left'[r] = left[r]
    BY <1>f, <1>m, <1>i DEF GoesOn, Turns, ConfigShapes
  <2>2. at'[m] # "store" /\ at'[m] # "off" /\ kind'[m] = "node"
    BY <2>1, <1>s, <1>m
  <2>3. (\A t \in Types : published["routing"][t] # NoConfig) => Settled'
    BY <1>f, <2>2, <1>m DEF Settled
  <2>4. StoredSoFar'
    BY <2>2, <1>m DEF StoredSoFar
  <2>5. MasterDecides'
    BY <2>2, <2>3, <1>f, <1>m DEF MasterDecides
  <2>6. RemoteCopies'
    <3> SUFFICES ASSUME NEW r \in Fetchers, behind'[r]
                 PROVE  /\ Settled'
                        /\ at'[r] = "insert" /\ kind'[r] = "routing"
                              => have'[r][asking'[r]] = published'["routing"][asking'[r]]
                        /\ reloaded'[r] = "no" =>
                              \A u \in Exposes[r] : Copied(r, u)' => cached'[r]["routing"][u] = published'["routing"][u]
      BY DEF RemoteCopies
    <3>1. /\ at'[r] = at[r] /\ kind'[r] = kind[r] /\ have'[r] = have[r] /\ left'[r] = left[r]
      BY <2>1, <2>l, <1>m, <1>i DEF ConfigShapes
    <3>2. \A u : Copied(r, u)' = Copied(r, u)
      BY <3>1, <1>f DEF Copied
    <3>3. behind[r]
      BY <1>f
    <3> QED BY <3>1, <3>2, <3>3, <2>3, <1>f, <1>i DEF RemoteCopies, Settled
  <2> QED BY <2>4, <2>5, <2>6
<1>3. ASSUME CacheAll(m) PROVE (StoredSoFar /\ MasterDecides /\ RemoteCopies)'
  <2> DEFINE c == [cached[m] EXCEPT ![kind[m]] = [t \in Types |-> IF have[m][t] = NoConfig THEN @[t] ELSE have[m][t]]]
             misses == have[m][First[m]] = NoConfig \/ (kind[m] = "node" /\ ~Single(m))
  <2>1. /\ at[m] = "store" /\ left[m] = {}
        /\ cached' = [cached EXCEPT ![m] = IF misses THEN Falls(c, m) ELSE c]
        /\ behind' = [behind EXCEPT ![m] =
                 IF kind[m] = "routing" THEN \A t \in Types : have[m][t] # NoConfig ELSE behind[m]]
        /\ GoesOn(m) /\ UNCHANGED <<published, asking, reloaded>>
    BY <1>3 DEF CacheAll
  <2>2. \A r \in Fetchers : behind'[r] = behind[r] /\ cached'[r] = cached[r]
    BY <2>1, <1>m, <1>i DEF ConfigShapes
  <2>3. CASE kind[m] = "routing"
    <3>1. \A t \in Types : have[m][t] # NoConfig => c["routing"][t] = have[m][t]
      BY <2>3, <1>s
    <3>2. ASSUME behind'[m] PROVE \A t \in Types : have[m][t] # NoConfig
      BY <3>2, <2>1, <2>3, <1>s
    <3>3. ASSUME behind'[m] PROVE \A t \in Types : published["routing"][t] = have[m][t]
      BY <3>2, <3>3, <2>1, <2>3, <1>i DEF StoredSoFar
    <3>4. ASSUME behind'[m] PROVE cached'[m] = c
      <4>1. ~misses
        BY <3>2, <3>4, <1>m, <2>3
      <4> QED BY <4>1, <2>1, <1>s
    <3> HIDE DEF c, misses
    <3> QED BY <3>1, <3>2, <3>3, <3>4, <2>1, <2>2, <1>f
  <2>4. CASE kind[m] = "node"
    <3>1. c["routing"] = cached[m]["routing"]
      BY <2>4, <1>s
    <3>2. Falls(c, m) = c
      BY <2>4 DEF Falls
    <3>3. cached'[m] = c
      BY <2>1, <3>2, <1>s
    <3>4. behind'[m] = behind[m]
      BY <2>1, <2>4, <1>s
    <3> HIDE DEF c, misses
    <3>5. behind'[m] => /\ \A t \in Types : published["routing"][t] # NoConfig
                        /\ reloaded[m] = "no" =>
                              \A t \in Types : cached[m]["routing"][t] = published["routing"][t]
      BY <3>4, <1>i DEF MasterDecides, Settled
    <3>6. cached'[m]["routing"] = cached[m]["routing"]
      BY <3>1, <3>3
    <3> QED BY <3>5, <3>6, <2>1, <2>2, <1>f
  <2> QED BY <2>3, <2>4, <1>s
<1>4. ASSUME StoringFails(m) PROVE (StoredSoFar /\ MasterDecides /\ RemoteCopies)'
  <2>1. /\ at[m] = "store" /\ GoesOn(m) /\ UNCHANGED <<published, asking, reloaded>>
        /\ cached' = [cached EXCEPT ![m] = Falls(cached[m], m)]
        /\ behind' = [behind EXCEPT ![m] = FALSE]
    BY <1>4 DEF StoringFails
  <2>2. \A r \in Fetchers : behind'[r] = behind[r] /\ cached'[r] = cached[r]
    BY <2>1, <1>m, <1>i DEF ConfigShapes
  <2>3. ~behind'[m]
    BY <2>1, <1>s
  <2> QED BY <2>1, <2>2, <2>3, <1>f
<1> QED BY <1>1, <1>2, <1>3, <1>4

\* A step of a remote that copies.
LEMMA StepOfARemote ==
    ASSUME ConfigInv, NEW r \in Fetchers, Insert(r) \/ \E t \in Types : Fetch(r, t)
    PROVE  (StoredSoFar /\ MasterDecides /\ RemoteCopies)'
<1>i. ConfigShapes /\ StartsInOrder /\ StoredSoFar /\ MasterDecides /\ RemoteCopies
  BY DEF ConfigInv
<1>m. /\ r \in Servers /\ Exposes[r] \subseteq Types
      /\ \A m \in Publishers : m \in Servers /\ m # r
      /\ \A e \in Fetchers : e \in Servers
      /\ r \notin Publishers
  BY ConfigAssumption DEF Servers
<1>s. /\ r \in DOMAIN at /\ r \in DOMAIN kind /\ r \in DOMAIN have /\ r \in DOMAIN left
      /\ r \in DOMAIN cached /\ r \in DOMAIN behind /\ r \in DOMAIN asking
      /\ "routing" \in Kinds /\ "node" \in Kinds /\ (kind[r] = "routing" \/ kind[r] = "node")
      /\ DOMAIN have[r] = Types
      /\ DOMAIN cached[r] = Kinds /\ \A k \in Kinds : DOMAIN cached[r][k] = Types
  BY <1>i, <1>m, TwoKinds DEF ConfigShapes
\* The others, and what is published, are left alone.
<1>o. ASSUME UNCHANGED <<published, reloaded>>,
             \A e \in Servers : e # r => /\ at'[e] = at[e] /\ kind'[e] = kind[e] /\ have'[e] = have[e]
                                         /\ left'[e] = left[e] /\ asking'[e] = asking[e]
                                         /\ cached'[e] = cached[e] /\ behind'[e] = behind[e],
             behind'[r] => behind[r],
             behind[r] /\ behind'[r] =>
                /\ at'[r] = "insert" /\ kind'[r] = "routing" => have'[r][asking'[r]] = published["routing"][asking'[r]]
                /\ reloaded[r] = "no" =>
                      \A t \in Exposes[r] : Copied(r, t)' => cached'[r]["routing"][t] = published["routing"][t]
      PROVE  (StoredSoFar /\ MasterDecides /\ RemoteCopies)'
  <2>1. Settled => Settled'
    BY <1>o, <1>m DEF Settled
  <2>2. StoredSoFar'
    BY <1>o, <1>m, <1>i DEF StoredSoFar
  <2>3. MasterDecides'
    BY <1>o, <2>1, <1>m, <1>i DEF MasterDecides
  <2>4. RemoteCopies'
    <3> SUFFICES ASSUME NEW e \in Fetchers, behind'[e]
                 PROVE  /\ Settled'
                        /\ at'[e] = "insert" /\ kind'[e] = "routing"
                              => have'[e][asking'[e]] = published'["routing"][asking'[e]]
                        /\ reloaded'[e] = "no" =>
                              \A u \in Exposes[e] : Copied(e, u)' => cached'[e]["routing"][u] = published'["routing"][u]
      BY DEF RemoteCopies
    <3>1. CASE e = r
      BY <3>1, <1>o, <2>1, <1>i DEF RemoteCopies
    <3>2. CASE e # r
      <4>1. \A u : Copied(e, u)' = Copied(e, u)
        BY <3>2, <1>o, <1>m DEF Copied
      <4> QED BY <4>1, <3>2, <1>o, <1>m, <2>1, <1>i DEF RemoteCopies
    <3> QED BY <3>1, <3>2
  <2> QED BY <2>2, <2>3, <2>4
<1>1. ASSUME NEW t \in Types, Fetch(r, t) PROVE (StoredSoFar /\ MasterDecides /\ RemoteCopies)'
  <2>1. /\ at[r] = "fetch" /\ t \in left[r]
        /\ at' = [at EXCEPT ![r] = "insert"]
        /\ left' = [left EXCEPT ![r] = left[r] \ {t}] /\ asking' = [asking EXCEPT ![r] = t]
        /\ UNCHANGED <<published, cached, kind, reloaded>>
    BY <1>1 DEF Fetch
  <2>2. \E v : have' = [have EXCEPT ![r][t] = v]
    BY <1>1 DEF Fetch
  <2>3. behind' = behind \/ behind' = [behind EXCEPT ![r] = FALSE]
    BY <1>1 DEF Fetch
  <2>4. \A e \in Servers : e # r => /\ at'[e] = at[e] /\ kind'[e] = kind[e] /\ have'[e] = have[e]
                                    /\ left'[e] = left[e] /\ asking'[e] = asking[e]
                                    /\ cached'[e] = cached[e] /\ behind'[e] = behind[e]
    BY <2>1, <2>2, <2>3, <1>i DEF ConfigShapes
  <2>5. behind'[r] => behind[r] /\ UNCHANGED behind
    BY <2>3, <1>s
  <2>6. ASSUME behind'[r], behind[r], kind[r] = "routing" PROVE have'[r][t] = published["routing"][t]
    <3>1. published["routing"][t] # NoConfig
      BY <2>6, <1>i DEF RemoteCopies, Settled
    <3>2. Offered(r, kind[r], t) = published["routing"][t]
      BY <2>6 DEF Offered
    <3>3. ~(behind' = [behind EXCEPT ![r] = FALSE])
      BY <2>6, <1>s
    <3>4. have' = [have EXCEPT ![r][t] = published["routing"][t]]
      BY <1>1, <3>1, <3>2, <3>3 DEF Fetch
    <3> QED BY <3>4, <1>s
  <2>7. \A u : Copied(r, u)' => Copied(r, u)
    BY <2>1, <1>s DEF Copied
  <2>8. at'[r] = "insert" /\ asking'[r] = t /\ kind'[r] = kind[r]
    BY <2>1, <1>s
  <2> QED BY <2>1, <2>4, <2>5, <2>6, <2>7, <2>8, <1>o, <1>i DEF RemoteCopies
<1>2. ASSUME Insert(r) PROVE (StoredSoFar /\ MasterDecides /\ RemoteCopies)'
  <2>1. /\ at[r] = "insert"
        /\ cached' = [cached EXCEPT ![r][kind[r]][asking[r]] = have[r][asking[r]]]
        /\ asking' = [asking EXCEPT ![r] = NoConfig]
        /\ UNCHANGED <<published, reloaded, behind>>
    BY <1>2 DEF Insert
  <2>a. asking[r] \in Types
    BY <2>1, <1>i, <1>m DEF StartsInOrder
  <2>2. /\ \A e \in Servers : e # r => /\ at'[e] = at[e] /\ kind'[e] = kind[e] /\ have'[e] = have[e]
                                       /\ left'[e] = left[e]
        /\ at'[r] # "insert"
        /\ left[r] # {} => kind'[r] = kind[r] /\ left'[r] = left[r]
        /\ left[r] = {} => kind'[r] = "node"
    <3>1. CASE left[r] # {}
      BY <1>2, <3>1, <1>s, <1>i DEF Insert, ConfigShapes
    <3>2. CASE left[r] = {}
      <4>1. GoesOn(r)
        BY <1>2, <3>2 DEF Insert
      <4>2. /\ at' = [at EXCEPT ![r] = IF kind[r] = "node" THEN "up" ELSE IF r \in Publishers THEN "read" ELSE "fetch"]
            /\ \A e \in Servers : kind'[e] = IF e = r THEN "node" ELSE kind[e]
            /\ have' = [have EXCEPT ![r] = NoneOf]
        BY <4>1, <1>i, <1>m, NextKind
      <4>3. \A e \in Servers : e # r => left'[e] = left[e]
        BY <4>1, <1>i DEF GoesOn, Turns, ConfigShapes
      <4> QED BY <4>2, <4>3, <3>2, <1>s, <1>m, <1>i DEF ConfigShapes
    <3> QED BY <3>1, <3>2
  <2>3. \A e \in Servers : e # r => asking'[e] = asking[e] /\ cached'[e] = cached[e] /\ behind'[e] = behind[e]
    BY <2>1, <1>i DEF ConfigShapes
  <2>4. ASSUME behind[r], reloaded[r] = "no", NEW t \in Exposes[r], Copied(r, t)'
        PROVE  cached'[r]["routing"][t] = published["routing"][t]
    <3>t. t \in Types
      BY <1>m
    <3>1. CASE kind[r] = "node"
      <4>1. cached'[r]["routing"][t] = cached[r]["routing"][t]
        BY <2>1, <3>1, <1>s
      <4>2. Copied(r, t)
        BY <3>1 DEF Copied
      <4> QED BY <4>1, <4>2, <2>4, <1>i DEF RemoteCopies
    <3>2. CASE kind[r] = "routing" /\ t = asking[r]
      <4>1. cached'[r]["routing"][t] = have[r][t]
        BY <2>1, <3>2, <3>t, <1>s
      <4> QED BY <4>1, <3>2, <2>1, <2>4, <1>i DEF RemoteCopies
    <3>3. CASE kind[r] = "routing" /\ t # asking[r]
      <4>1. cached'[r]["routing"][t] = cached[r]["routing"][t]
        BY <2>1, <3>3, <3>t, <1>s
      <4>2. t \notin left[r]
        BY <2>2, <2>4, <3>3 DEF Copied
      <4>3. Copied(r, t)
        BY <3>3, <4>2 DEF Copied
      <4> QED BY <4>1, <4>3, <2>4, <1>i DEF RemoteCopies
    <3> QED BY <3>1, <3>2, <3>3, <1>s
  <2> QED BY <2>1, <2>2, <2>3, <2>4, <1>o
<1> QED BY <1>1, <1>2

\* A start, a reload or an end of a daemon.
LEMMA StepOfADaemon ==
    ASSUME ConfigInv, OneMaster, NEW d \in Servers, Serve(d) \/ Reload(d) \/ Clear(d) \/ Quit(d)
    PROVE  (StoredSoFar /\ MasterDecides /\ RemoteCopies)'
<1>i. ConfigShapes /\ StartsInOrder /\ StoredSoFar /\ MasterDecides /\ RemoteCopies
  BY DEF ConfigInv
<1>m. /\ \A e \in Publishers : e \in Servers /\ e \notin Fetchers
      /\ \A e \in Fetchers : e \in Servers /\ e \notin Publishers
      /\ \A a, b \in Publishers : a = b
  BY ConfigAssumption DEF Servers, OneMaster
<1>s. /\ d \in DOMAIN at /\ d \in DOMAIN kind /\ d \in DOMAIN have /\ d \in DOMAIN left
      /\ d \in DOMAIN cached /\ d \in DOMAIN behind /\ d \in DOMAIN asking /\ d \in DOMAIN reloaded
      /\ DOMAIN behind = Servers
      /\ "routing" \in Kinds
  BY <1>i, TwoKinds DEF ConfigShapes
<1>1. ASSUME Serve(d) PROVE (StoredSoFar /\ MasterDecides /\ RemoteCopies)'
  <2>1. /\ at[d] = "off"
        /\ kind' = [kind EXCEPT ![d] = "routing"]
        /\ at' = [at EXCEPT ![d] = IF d \in Publishers THEN "read" ELSE "fetch"]
        /\ left' = [left EXCEPT ![d] = IF d \in Publishers THEN {} ELSE Wanted(d, "routing")]
        /\ have' = [have EXCEPT ![d] = NoneOf]
        /\ reloaded' = [reloaded EXCEPT ![d] = "no"]
        /\ behind' = [e \in Servers |->
                        IF d \in Publishers THEN FALSE
                        ELSE IF e = d THEN \E m \in Publishers : at[m] = "up" /\ behind[m] ELSE behind[e]]
        /\ UNCHANGED <<published, cached, asking>>
    BY <1>1 DEF Serve, Turns
  <2>2. CASE d \in Publishers
    <3>1. \A e \in Servers : ~behind'[e]
      BY <2>1, <2>2
    <3>2. MasterDecides' /\ RemoteCopies'
      BY <3>1, <1>m DEF MasterDecides, RemoteCopies
    <3>3. StoredSoFar'
      BY <2>1, <2>2, <1>i, <1>m DEF StoredSoFar, ConfigShapes
    <3> QED BY <3>2, <3>3
  <2>3. CASE d \notin Publishers
    <3>1. /\ \A m \in Publishers : /\ at'[m] = at[m] /\ kind'[m] = kind[m] /\ have'[m] = have[m] /\ left'[m] = left[m]
                                   /\ behind'[m] = behind[m] /\ reloaded'[m] = reloaded[m]
      BY <2>1, <2>3, <1>m, <1>i DEF ConfigShapes
    <3>2. Settled => Settled'
      BY <2>1, <3>1 DEF Settled
    <3>3. StoredSoFar'
      BY <2>1, <3>1, <1>i DEF StoredSoFar
    <3>4. MasterDecides'
      <4>1. published' = published /\ cached' = cached
        BY <2>1
      <4>2. \A m \in Publishers : /\ at'[m] = at[m] /\ behind'[m] = behind[m] /\ reloaded'[m] = reloaded[m]
        BY <3>1
      <4>3. MasterDecides
        BY <1>i
      <4> QED BY <3>2, <4>1, <4>2, <4>3 DEF MasterDecides
    <3>5. ASSUME NEW r \in Fetchers, behind'[r]
          PROVE  /\ Settled'
                 /\ at'[r] = "insert" /\ kind'[r] = "routing"
                       => have'[r][asking'[r]] = published'["routing"][asking'[r]]
                 /\ reloaded'[r] = "no" =>
                       \A u \in Exposes[r] : Copied(r, u)' => cached'[r]["routing"][u] = published'["routing"][u]
      <4>1. CASE r = d
        <5>1. PICK m \in Publishers : at[m] = "up" /\ behind[m]
          BY <3>5, <4>1, <2>1, <2>3, <1>m
        <5>2. Settled'
          BY <5>1, <3>2, <1>i DEF MasterDecides
        <5>3. at'[r] = "fetch" /\ kind'[r] = "routing" /\ left'[r] = Exposes[r]
          BY <4>1, <2>1, <2>3, <1>s DEF Wanted
        <5> QED BY <5>2, <5>3 DEF Copied
      <4>2. CASE r # d
        <5>1. /\ at'[r] = at[r] /\ kind'[r] = kind[r] /\ have'[r] = have[r] /\ left'[r] = left[r]
              /\ behind[r] /\ reloaded'[r] = reloaded[r]
          BY <3>5, <4>2, <2>1, <2>3, <1>m, <1>i DEF ConfigShapes
        <5>2. \A u : Copied(r, u)' = Copied(r, u)
          BY <5>1, <2>1 DEF Copied
        <5> QED BY <5>1, <5>2, <3>2, <2>1, <1>i DEF RemoteCopies
      <4> QED BY <4>1, <4>2
    <3>6. RemoteCopies'
      BY <3>5 DEF RemoteCopies
    <3> QED BY <3>3, <3>4, <3>6
  <2> QED BY <2>2, <2>3
<1>2. ASSUME Reload(d) PROVE (StoredSoFar /\ MasterDecides /\ RemoteCopies)'
  <2>1. /\ UNCHANGED <<published, cached, at, kind, have, left, asking, behind>>
        /\ \A e \in Servers : reloaded'[e] = "no" => reloaded[e] = "no"
    BY <1>2, <1>i DEF Reload, starting, ConfigShapes
  <2>2. Settled => Settled'
    BY <2>1 DEF Settled
  <2>3. StoredSoFar'
    BY <2>1, <1>i DEF StoredSoFar
  <2>4. MasterDecides'
    BY <2>1, <2>2, <1>m, <1>i DEF MasterDecides
  <2>5. RemoteCopies'
    BY <2>1, <2>2, <1>m, <1>i DEF RemoteCopies, Copied
  <2> QED BY <2>3, <2>4, <2>5
<1>3. ASSUME Clear(d) PROVE (StoredSoFar /\ MasterDecides /\ RemoteCopies)'
  <2>1. /\ UNCHANGED <<published, at, kind, have, left, asking, behind, reloaded>>
        /\ \A e \in Servers : e # d => cached'[e] = cached[e]
        /\ reloaded[d] # "no"
    BY <1>3, <1>i DEF Clear, starting, ConfigShapes, StartsInOrder
  <2>2. Settled => Settled'
    BY <2>1 DEF Settled
  <2>3. StoredSoFar'
    BY <2>1, <1>i DEF StoredSoFar
  <2>4. MasterDecides'
    BY <2>1, <2>2, <1>m, <1>i DEF MasterDecides
  <2>5. RemoteCopies'
    BY <2>1, <2>2, <1>m, <1>i DEF RemoteCopies, Copied
  <2> QED BY <2>3, <2>4, <2>5
<1>4. ASSUME Quit(d) PROVE (StoredSoFar /\ MasterDecides /\ RemoteCopies)'
  <2>1. /\ UNCHANGED <<published, reloaded>>
        /\ \A e \in Servers : e # d =>
              /\ at'[e] = at[e] /\ kind'[e] = kind[e] /\ have'[e] = have[e] /\ left'[e] = left[e]
              /\ asking'[e] = asking[e] /\ cached'[e] = cached[e] /\ behind'[e] = behind[e]
        /\ at'[d] = "off" /\ ~behind'[d]
    BY <1>4, <1>i DEF Quit, ConfigShapes
  <2>2. Settled => Settled'
    BY <2>1, <1>m DEF Settled
  <2>3. StoredSoFar'
    BY <2>1, <1>m, <1>i DEF StoredSoFar
  <2>4. MasterDecides'
    BY <2>1, <2>2, <1>m, <1>i DEF MasterDecides
  <2>5. RemoteCopies'
    BY <2>1, <2>2, <1>m, <1>i DEF RemoteCopies, Copied
  <2> QED BY <2>3, <2>4, <2>5
<1> QED BY <1>1, <1>2, <1>3, <1>4

LEMMA ConfigInvStep == OneMaster /\ ConfigInv /\ [ConfigNext]_configVars => ConfigInv'
<1> SUFFICES ASSUME OneMaster, ConfigInv, [ConfigNext]_configVars PROVE ConfigInv'
  OBVIOUS
<1>1. ConfigShapes' /\ StartsInOrder'
  BY ConfigShapesStep, StartsInOrderStep DEF ConfigInv
<1>2. (StoredSoFar /\ MasterDecides /\ RemoteCopies)'
  <2>1. ASSUME NEW d \in Servers, Serve(d) \/ Reload(d) \/ Clear(d) \/ Quit(d)
        PROVE  (StoredSoFar /\ MasterDecides /\ RemoteCopies)'
    BY <2>1, StepOfADaemon
  <2>2. ASSUME NEW d \in Servers, Insert(d) PROVE (StoredSoFar /\ MasterDecides /\ RemoteCopies)'
    <3>1. at[d] = "insert"
      BY <2>2 DEF Insert
    <3>2. d \in Fetchers
      BY <3>1 DEF ConfigInv, StartsInOrder, Servers
    <3> QED BY <2>2, <3>2, StepOfARemote
  <2>3. ASSUME NEW d \in Publishers, \/ ReadFiles(d) \/ CacheAll(d) \/ StoringFails(d)
                                     \/ \E t \in Types : Store(d, t)
        PROVE  (StoredSoFar /\ MasterDecides /\ RemoteCopies)'
    BY <2>3, StepOfAMaster
  <2>4. ASSUME NEW d \in Fetchers, NEW t \in Types, Fetch(d, t)
        PROVE  (StoredSoFar /\ MasterDecides /\ RemoteCopies)'
    BY <2>4, StepOfARemote
  <2>5. ASSUME UNCHANGED <<published, cached, starting, reloaded, behind>>
        PROVE  (StoredSoFar /\ MasterDecides /\ RemoteCopies)'
    <3>1. Settled' = Settled
      BY <2>5 DEF Settled, starting
    <3> QED BY <2>5, <3>1 DEF ConfigInv, StoredSoFar, MasterDecides, RemoteCopies, Copied, starting
  <2>6. ASSUME NEW t \in Types, NEW g \in Grades, WriteFile(t, g)
        PROVE  (StoredSoFar /\ MasterDecides /\ RemoteCopies)'
    BY <2>5, <2>6 DEF WriteFile
  <2>7. CASE UNCHANGED configVars
    BY <2>5, <2>7 DEF configVars
  <2> QED BY <2>1, <2>2, <2>3, <2>4, <2>6, <2>7 DEF ConfigNext
<1> QED BY <1>1, <1>2 DEF ConfigInv

\* With one master in the constellation, a remote that started behind it and had no failed call
\* takes the same work of a type, in whatever order files were stored and fetched, and whatever
\* started, failed, was reloaded or ended meanwhile (routing_config.rs).
THEOREM RemotesFollowTheMaster == OneMaster /\ ConfigSpec => []RemoteDecidesAsMaster
<1>1. ConfigInit => ConfigInv
  BY ConfigInvInit
<1>2. OneMaster /\ ConfigInv /\ [ConfigNext]_configVars => ConfigInv'
  BY ConfigInvStep
<1>3. ConfigInv => RemoteDecidesAsMaster
  <2> SUFFICES ASSUME ConfigInv, NEW m \in Publishers, NEW r \in Fetchers,
                      at[m] = "up" /\ behind[m] /\ reloaded[m] = "no",
                      at[r] = "up" /\ behind[r] /\ reloaded[r] = "no",
                      NEW t \in Exposes[m] \cap Exposes[r]
               PROVE  InForce(m, t) = InForce(r, t)
    BY DEF RemoteDecidesAsMaster
  <2>1. t \in Types
    BY ConfigAssumption DEF Servers
  <2>2. cached[m]["routing"][t] = published["routing"][t]
    BY <2>1 DEF ConfigInv, MasterDecides
  <2>3. kind[r] = "node"
    BY DEF ConfigInv, StartsInOrder, Servers
  <2>4. cached[r]["routing"][t] = published["routing"][t]
    BY <2>3 DEF ConfigInv, RemoteCopies, Copied
  <2> QED BY <2>2, <2>4 DEF InForce
<1>4. OneMaster => OneMaster'
  BY DEF OneMaster
<1> QED BY <1>1, <1>2, <1>3, <1>4, PTL DEF ConfigSpec

-----------------------------------------------------------------------------
(* LoadSampler.  A sampler that saw the counter where it is has counted no   *)
(* more ticks than have passed since it moved.                              *)

SamplerShapes ==
    /\ now \in Nat /\ routed \in Nat /\ lastRouted \in Int /\ lastRouted <= now
    /\ DOMAIN memory = Samplers /\ DOMAIN axis = Placements \cup {Service}

\* What a sampler remembers of the demand, and of the time.
RemembersDemand(m) ==
    /\ m.seen \in Int /\ m.seen <= routed
    /\ m.quiet \in Nat
    /\ m.ticked \in Int /\ m.ticked <= now
    /\ m.measured \in Int /\ m.measured <= m.ticked
    /\ m.seen = routed => lastRouted + m.quiet <= m.ticked

SamplerInv == SamplerShapes /\ \A n \in Samplers : RemembersDemand(memory[n])

LEMMA LesserOfTwo ==
    ASSUME NEW a \in Nat, NEW b \in Nat
    PROVE  Min({a, b}) = IF a <= b THEN a ELSE b
BY DEF Min

LEMMA SamplerInvInit == SamplerInit => SamplerInv
BY DEF SamplerInit, SamplerInv, SamplerShapes, RemembersDemand, Fresh

LEMMA QuietCounts ==
    ASSUME NEW m, SamplerShapes, RemembersDemand(m)
    PROVE  /\ Quiet(m) \in Nat
           /\ m.seen = routed => Quiet(m) <= m.quiet + 1
           /\ m.seen # routed => Quiet(m) = 0
<1>1. m.quiet + 1 \in Nat /\ IdleTicks + 1 \in Nat
  BY SamplerAssumption DEF RemembersDemand
<1> DEFINE a == m.quiet + 1
           b == IdleTicks + 1
<1>2. Min({a, b}) = IF a <= b THEN a ELSE b
  BY <1>1, LesserOfTwo
<1>3. Quiet(m) = IF m.seen = routed THEN Min({a, b}) ELSE 0
  BY DEF Quiet
<1> HIDE DEF a, b
<1>4. a \in Nat /\ b \in Nat
  BY <1>1 DEF a, b
<1>5. /\ Quiet(m) \in Nat
      /\ m.seen = routed => Quiet(m) <= a
      /\ m.seen # routed => Quiet(m) = 0
  BY <1>2, <1>3, <1>4
<1> QED BY <1>5 DEF a

\* What a tick does, as far as the demand is concerned: a reading lands, or the service is
\* said to be idle, or it is left as it was.
LEMMA TickOfASampler ==
    ASSUME SamplerShapes, NEW n \in Samplers, NEW found \in BOOLEAN, SamplerTick(n, found)
    PROVE  \E r, landed :
              /\ memory' = [memory EXCEPT ![n] = r]
              /\ memory[n].ticked < now
              /\ r.ticked = now
              /\ landed \in {now, memory[n].measured}
              /\ IF found THEN r.seen = routed /\ r.quiet = Quiet(memory[n]) /\ r.measured = landed
                           ELSE r.seen = memory[n].seen /\ r.quiet = memory[n].quiet /\ r.measured = memory[n].measured
              /\ ~found => axis' = axis
              /\ found /\ landed # now =>
                    axis'[Service] = IF FallsIdle(memory[n], Quiet(memory[n]), landed)
                                     THEN [band |-> Idle, at |-> now] ELSE axis[Service]
              /\ DOMAIN axis' = DOMAIN axis
              /\ UNCHANGED <<now, routed, lastRouted>>
<1> DEFINE m       == memory[n]
           before  == Seed(m)
           rings   == Rings(m.ring)
           base    == [k \in Keys |-> Baseline(rings[k], before[k])]
           of      == [p \in Placements |-> Read(p, rings, before)]
           read    == {p \in Placements : of[p] # {}}
           bandOf  == [p \in read |-> Band(p, rings, base, of[p])]
           wrote  == {<<p, bandOf[p]>> : p \in {q \in read : Writes(m.band[q], bandOf[q])}}
           written == {w[1] : w \in wrote}
           press   == [p \in Placements |->
                          IF p \in read /\ Pressed(p, rings, base, of[p]) THEN m.pressure[p] + 1 ELSE 0]
           landed  == IF written # {} THEN now ELSE m.measured
           quiet   == Quiet(m)
           r == [ring |-> rings, base |-> base, seeded |-> TRUE, pressure |-> press,
                 band |-> [p \in Placements |-> IF p \in read THEN NextBand(m.band[p], bandOf[p]) ELSE m.band[p]],
                 seen |-> IF found THEN routed ELSE m.seen, quiet |-> IF found THEN quiet ELSE m.quiet,
                 measured |-> IF found THEN landed ELSE m.measured, ticked |-> now]
           said == [e \in DOMAIN axis |->
                  CASE e \in written               -> [band |-> bandOf[e], at |-> now]
                    [] e = Service /\ written # {} -> [band |-> ServiceBand(wrote), at |-> now]
                    [] e = Service /\ FallsIdle(m, quiet, landed) -> [band |-> Idle, at |-> now]
                    [] OTHER                       -> axis[e]]
<1>1. /\ memory' = [memory EXCEPT ![n] = r]
      /\ axis' = IF ~found THEN axis ELSE said
      /\ m.ticked < now
      /\ UNCHANGED <<now, routed, lastRouted>>
  BY DEF SamplerTick
<1>2. /\ r.ticked = now
      /\ r.seen = IF found THEN routed ELSE m.seen
      /\ r.quiet = IF found THEN quiet ELSE m.quiet
      /\ r.measured = IF found THEN landed ELSE m.measured
  OBVIOUS
<1>3. Service \in DOMAIN axis
  BY DEF SamplerShapes
<1>4. DOMAIN said = DOMAIN axis
  OBVIOUS
<1>5. written = {} => said[Service] = IF FallsIdle(m, quiet, landed)
                                      THEN [band |-> Idle, at |-> now] ELSE axis[Service]
  BY <1>3
<1>6. landed \in {now, m.measured} /\ (landed # now => written = {})
  OBVIOUS
<1> HIDE DEF r, said, landed, written, quiet
<1>7. WITNESS r, landed
<1> QED BY <1>1, <1>2, <1>4, <1>5, <1>6 DEF quiet

\* Each sampler remembers the demand by itself, and what the tick made of it is true too.
LEMMA RemembersAfterATick ==
    ASSUME SamplerShapes, NEW m, RemembersDemand(m), m.ticked < now,
           NEW r, NEW landed \in {now, m.measured}, r.ticked = now,
           \/ r.seen = routed /\ r.quiet = Quiet(m) /\ r.measured = landed
           \/ r.seen = m.seen /\ r.quiet = m.quiet /\ r.measured = m.measured
    PROVE  RemembersDemand(r)
<1>1. /\ Quiet(m) \in Nat
      /\ m.seen = routed => Quiet(m) <= m.quiet + 1
      /\ m.seen # routed => Quiet(m) = 0
  BY QuietCounts
<1>2. /\ now \in Nat /\ routed \in Nat /\ lastRouted \in Int /\ lastRouted <= now
      /\ m.seen \in Int /\ m.seen <= routed /\ m.quiet \in Nat
      /\ m.ticked \in Int /\ m.measured \in Int /\ m.measured <= m.ticked
      /\ m.seen = routed => lastRouted + m.quiet <= m.ticked
  BY DEF SamplerShapes, RemembersDemand
<1>3. lastRouted + Quiet(m) <= now
  BY <1>1, <1>2
<1>4. CASE r.seen = routed /\ r.quiet = Quiet(m) /\ r.measured = landed
  BY <1>1, <1>2, <1>3, <1>4 DEF RemembersDemand
<1>5. CASE r.seen = m.seen /\ r.quiet = m.quiet /\ r.measured = m.measured
  BY <1>2, <1>5 DEF RemembersDemand
<1> QED BY <1>4, <1>5

LEMMA SamplerInvStep == SamplerInv /\ [SamplerNext]_samplerVars => SamplerInv'
<1> SUFFICES ASSUME SamplerInv, [SamplerNext]_samplerVars PROVE SamplerInv'
  OBVIOUS
<1>i. SamplerShapes /\ \A n \in Samplers : RemembersDemand(memory[n])
  BY DEF SamplerInv
<1>s. /\ now \in Nat /\ routed \in Nat /\ lastRouted \in Int /\ lastRouted <= now
      /\ DOMAIN memory = Samplers /\ DOMAIN axis = Placements \cup {Service}
  BY <1>i DEF SamplerShapes
<1>1. ASSUME NEW n \in Samplers, NEW found \in BOOLEAN, SamplerTick(n, found) PROVE SamplerInv'
  <2>1. PICK r, landed :
            /\ memory' = [memory EXCEPT ![n] = r]
            /\ memory[n].ticked < now
            /\ r.ticked = now
            /\ landed \in {now, memory[n].measured}
            /\ IF found THEN r.seen = routed /\ r.quiet = Quiet(memory[n]) /\ r.measured = landed
                         ELSE r.seen = memory[n].seen /\ r.quiet = memory[n].quiet
                                                      /\ r.measured = memory[n].measured
            /\ DOMAIN axis' = DOMAIN axis
            /\ UNCHANGED <<now, routed, lastRouted>>
    BY <1>1, <1>i, TickOfASampler
  <2>2. PICK m : m = memory[n]
    OBVIOUS
  <2>3. RemembersDemand(m) /\ m.ticked < now /\ landed \in {now, m.measured}
    BY <2>1, <2>2, <1>i
  <2>4. \/ r.seen = routed /\ r.quiet = Quiet(m) /\ r.measured = landed
        \/ r.seen = m.seen /\ r.quiet = m.quiet /\ r.measured = m.measured
    BY <2>1, <2>2
  <2>5. RemembersDemand(r)
    BY <2>1, <2>3, <2>4, <1>i, RemembersAfterATick
  <2>6. \A x : RemembersDemand(x) => RemembersDemand(x)'
    BY <2>1 DEF RemembersDemand
  <2>7. ASSUME NEW k \in Samplers PROVE \E x : memory'[k] = x /\ RemembersDemand(x)
    BY <2>1, <2>5, <1>i, <1>s
  <2>8. \A k \in Samplers : RemembersDemand(memory[k])'
    BY <2>6, <2>7, <2>1 DEF RemembersDemand
  <2>9. SamplerShapes'
    BY <2>1, <1>s DEF SamplerShapes
  <2> QED BY <2>8, <2>9 DEF SamplerInv
<1>2. ASSUME NEW n \in Samplers, SamplerRestarts(n) PROVE SamplerInv'
  <2>1. /\ memory' = [memory EXCEPT ![n] = Fresh]
        /\ UNCHANGED <<now, routed, lastRouted, axis>>
    BY <1>2 DEF SamplerRestarts
  <2>2. /\ Fresh.seen = -1 /\ Fresh.quiet = 0 /\ Fresh.ticked = -1 /\ Fresh.measured = -1
    BY DEF Fresh
  <2>3. SamplerShapes'
    BY <2>1, <1>s DEF SamplerShapes
  <2>4. ASSUME NEW k \in Samplers PROVE RemembersDemand(memory[k])'
    <3>1. CASE k = n
      <4>1. memory'[k] = Fresh
        BY <2>1, <3>1, <1>s
      <4> QED BY <4>1, <2>1, <2>2, <1>s DEF RemembersDemand
    <3>2. CASE k # n
      <4>1. memory'[k] = memory[k]
        BY <2>1, <3>2, <1>s
      <4> QED BY <4>1, <2>1, <1>i DEF RemembersDemand
    <3> QED BY <3>1, <3>2
  <2> QED BY <2>3, <2>4 DEF SamplerInv
<1>3. ASSUME NEW p \in Placements, Route(p) PROVE SamplerInv'
  <2>1. routed' = routed + 1 /\ lastRouted' = now /\ UNCHANGED <<now, memory, axis>>
    BY <1>3 DEF Route
  <2>2. SamplerShapes'
    BY <2>1, <1>s DEF SamplerShapes
  <2>3. ASSUME NEW k \in Samplers PROVE RemembersDemand(memory[k])'
    BY <2>1, <1>i, <1>s DEF RemembersDemand
  <2> QED BY <2>2, <2>3 DEF SamplerInv
<1>4. CASE TimePasses
  <2>1. now' = now + 1 /\ UNCHANGED <<routed, lastRouted, memory, axis>>
    BY <1>4 DEF TimePasses
  <2>2. SamplerShapes'
    BY <2>1, <1>s DEF SamplerShapes
  <2>3. ASSUME NEW k \in Samplers PROVE RemembersDemand(memory[k])'
    BY <2>1, <1>i, <1>s DEF RemembersDemand
  <2> QED BY <2>2, <2>3 DEF SamplerInv
<1>5. ASSUME UNCHANGED <<now, routed, lastRouted, memory, axis>> PROVE SamplerInv'
  BY <1>5 DEF SamplerInv, SamplerShapes, RemembersDemand
<1>6. ASSUME NEW p \in Placements, NEW c \in Commands, NEW ms \in Latencies, Answer(p, c, ms) PROVE SamplerInv'
  BY <1>5, <1>6 DEF Answer
<1>7. CASE UNCHANGED samplerVars
  BY <1>5, <1>7 DEF samplerVars
<1> QED BY <1>1, <1>2, <1>3, <1>4, <1>6, <1>7 DEF SamplerNext

\* Without a reading only a tick changes what is said of the service, and only to idle.
LEMMA IdleIsQuiet ==
    ASSUME SamplerInv, [SamplerNext]_samplerVars, axis'[Service] # axis[Service],
           \A n \in Samplers : memory'[n].measured = memory[n].measured
    PROVE  axis'[Service].band = Idle /\ now - lastRouted >= IdleTicks
<1>i. SamplerShapes /\ \A n \in Samplers : RemembersDemand(memory[n])
  BY DEF SamplerInv
<1>s. /\ now \in Nat /\ routed \in Nat /\ lastRouted \in Int /\ lastRouted <= now
      /\ DOMAIN memory = Samplers
  BY <1>i DEF SamplerShapes
<1>1. \E n \in Samplers, found \in BOOLEAN : SamplerTick(n, found)
  BY DEF SamplerNext, samplerVars, SamplerRestarts, Route, Answer, TimePasses
<1>2. PICK n \in Samplers, found \in BOOLEAN : SamplerTick(n, found)
  BY <1>1
<1>3. PICK r, landed :
          /\ memory' = [memory EXCEPT ![n] = r]
          /\ memory[n].ticked < now
          /\ landed \in {now, memory[n].measured}
          /\ found => r.measured = landed
          /\ ~found => axis' = axis
          /\ found /\ landed # now =>
                axis'[Service] = IF FallsIdle(memory[n], Quiet(memory[n]), landed)
                                 THEN [band |-> Idle, at |-> now] ELSE axis[Service]
  BY <1>2, <1>i, TickOfASampler
<1>4. found
  BY <1>3
<1>m. PICK m : m = memory[n]
  OBVIOUS
<1>5. RemembersDemand(m)
  BY <1>m, <1>i
<1>6. r.measured = m.measured
  <2>1. memory'[n] = r
    BY <1>3, <1>s
  <2> QED BY <2>1, <1>m
<1>7. landed # now
  BY <1>3, <1>4, <1>5, <1>6, <1>m, <1>s DEF RemembersDemand
<1>8. FallsIdle(m, Quiet(m), landed) /\ axis'[Service] = [band |-> Idle, at |-> now]
  BY <1>3, <1>4, <1>7, <1>m
<1>9. Quiet(m) = IdleTicks
  BY <1>8 DEF FallsIdle
<1>10. /\ Quiet(m) \in Nat
       /\ m.seen = routed => Quiet(m) <= m.quiet + 1
       /\ m.seen # routed => Quiet(m) = 0
  BY <1>5, <1>i, QuietCounts
<1>11. IdleTicks \in Nat \ {0}
  BY SamplerAssumption
<1>12. m.seen = routed /\ IdleTicks <= m.quiet + 1
  BY <1>9, <1>10, <1>11
<1>13. /\ lastRouted + m.quiet <= m.ticked /\ m.ticked < now
       /\ m.quiet \in Nat /\ m.ticked \in Int
  BY <1>12, <1>5, <1>3, <1>m DEF RemembersDemand
<1>14. now - lastRouted >= IdleTicks
  BY <1>12, <1>13, <1>11, <1>s
<1> QED BY <1>8, <1>14

\* Whoever holds the lease and whatever restarts, a service is only said to be idle without a
\* reading when nothing was routed to it for a whole window (DemandTracker, worker.rs).
THEOREM IdleIsDeserved == SamplerSpec => IdleMeansQuiet
<1>1. SamplerInit => SamplerInv
  BY SamplerInvInit
<1>2. SamplerInv /\ [SamplerNext]_samplerVars => SamplerInv'
  BY SamplerInvStep
<1>3. SamplerInv /\ [SamplerNext]_samplerVars
        => [axis'[Service] # axis[Service] /\ (\A n \in Samplers : memory'[n].measured = memory[n].measured)
               => axis'[Service].band = Idle /\ now - lastRouted >= IdleTicks]_samplerVars
  <2> SUFFICES ASSUME SamplerInv, [SamplerNext]_samplerVars, axis'[Service] # axis[Service],
                      \A n \in Samplers : memory'[n].measured = memory[n].measured
               PROVE  axis'[Service].band = Idle /\ now - lastRouted >= IdleTicks
    OBVIOUS
  <2> QED BY IdleIsQuiet
<1> QED BY <1>1, <1>2, <1>3, PTL DEF SamplerSpec, IdleMeansQuiet

-----------------------------------------------------------------------------
(* LoadSampler: medians.                                                   *)

LEMMA Least ==
    ASSUME NEW T, T # {}, NEW f, \A i \in T : f[i] \in Nat
    PROVE  \E i \in T : \A j \in T : f[i] <= f[j]
<1> DEFINE values == {f[i] : i \in T}
<1>1. values \subseteq Nat /\ values # {}
  OBVIOUS
<1>2. PICK x \in values : \A y \in values : ~(<<y, x>> \in OpToRel(<, Nat))
  BY <1>1, NatLessThanWellFounded, WFMin
<1>3. \A y \in values : ~(y < x)
  BY <1>1, <1>2 DEF OpToRel
<1>4. PICK i \in T : f[i] = x
  OBVIOUS
<1>5. \A j \in T : f[j] \in values /\ f[j] \in Nat
  OBVIOUS
<1> HIDE DEF values
<1>6. \A j \in T : f[i] <= f[j]
  <2> TAKE j \in T
  <2>1. f[j] \in Nat /\ f[i] \in Nat /\ ~(f[j] < f[i])
    BY <1>3, <1>4, <1>5
  <2> QED BY <2>1
<1> QED BY <1>6

\* Of finitely many the one that most are not above is above none.
LEMMA Greatest ==
    ASSUME NEW T, IsFiniteSet(T), T # {}, NEW f, \A i \in T : f[i] \in Nat
    PROVE  \E i \in T : \A j \in T : f[j] <= f[i]
<1> DEFINE under(i) == {j \in T : f[j] <= f[i]}
           above == [i \in T |-> Cardinality(T) - Cardinality(under(i))]
<1>1. Cardinality(T) \in Nat
  BY FS_CardinalityType
<1>2. \A i \in T : IsFiniteSet(under(i)) /\ Cardinality(under(i)) \in Nat /\ Cardinality(under(i)) <= Cardinality(T)
  <2> TAKE i \in T
  <2>1. under(i) \subseteq T
    OBVIOUS
  <2> QED BY <2>1, FS_Subset, FS_CardinalityType
<1>3. \A i \in T : above[i] \in Nat
  BY <1>1, <1>2
<1> HIDE DEF above
<1>4. PICK i \in T : \A j \in T : above[i] <= above[j]
  BY <1>3, Least
<1>5. ASSUME NEW j \in T, ~(f[j] <= f[i]) PROVE FALSE
  <2>1. f[i] \in Nat /\ f[j] \in Nat /\ f[i] < f[j]
    BY <1>5
  <2>2. under(i) \cup {j} \subseteq under(j) /\ j \notin under(i)
    BY <2>1
  <2>3. Cardinality(under(i) \cup {j}) = Cardinality(under(i)) + 1 /\ IsFiniteSet(under(i) \cup {j})
    BY <1>2, <2>2, FS_AddElement
  <2>4. Cardinality(under(i) \cup {j}) <= Cardinality(under(j))
    BY <1>2, <2>2, FS_Subset
  <2>5. Cardinality(under(i)) + 1 <= Cardinality(under(j))
    BY <2>3, <2>4
  <2>6. above[i] = Cardinality(T) - Cardinality(under(i)) /\ above[j] = Cardinality(T) - Cardinality(under(j))
    BY DEF above
  <2> HIDE DEF under
  <2> QED BY <1>1, <1>2, <1>4, <2>5, <2>6
<1> QED BY <1>5

\* The k-th shortest is one of those there are.
LEMMA RankedIs ==
    ASSUME NEW ring, NEW in, IsFiniteSet(in), \A i \in in : ring[i].us \in Nat, NEW k \in 1 .. Cardinality(in)
    PROVE  Ranked(ring, in, k) \in {ring[i].us : i \in in}
<1> DEFINE f        == [i \in in |-> ring[i].us]
           below(v) == {i \in in : ring[i].us < v}
           upto(v)  == {i \in in : ring[i].us <= v}
           enough   == {i \in in : k <= Cardinality(upto(f[i]))}
<1>1. Cardinality(in) \in Nat /\ \A i \in in : f[i] = ring[i].us /\ f[i] \in Nat
  BY FS_CardinalityType
<1>2. in # {}
  BY FS_EmptySet
<1>3. \A v \in Nat : /\ below(v) \subseteq in /\ IsFiniteSet(below(v)) /\ IsFiniteSet(upto(v))
                     /\ Cardinality(below(v)) \in Nat /\ Cardinality(upto(v)) \in Nat
  <2> TAKE v \in Nat
  <2>1. below(v) \subseteq in /\ upto(v) \subseteq in
    OBVIOUS
  <2> QED BY <2>1, FS_Subset, FS_CardinalityType
<1>4. \A S : S \subseteq in /\ S # {} => \E i \in S : \A j \in S : f[j] <= f[i]
  <2> TAKE S
  <2> SUFFICES ASSUME S \subseteq in, S # {} PROVE \E i \in S : \A j \in S : f[j] <= f[i]
    OBVIOUS
  <2>1. IsFiniteSet(S)
    BY FS_Subset
  <2>2. \A i \in S : f[i] \in Nat
    BY <1>1
  <2> HIDE DEF f
  <2> QED BY <2>1, <2>2, Greatest
<1> HIDE DEF f
<1>5. enough # {}
  <2>1. PICK i \in in : \A j \in in : f[j] <= f[i]
    BY <1>2, <1>4
  <2>2. upto(f[i]) = in
    BY <1>1, <2>1
  <2> QED BY <1>1, <2>2
<1>6. PICK i \in enough : \A j \in enough : f[i] <= f[j]
  <2>1. \A j \in enough : f[j] \in Nat
    BY <1>1
  <2> HIDE DEF enough
  <2> QED BY <1>5, <2>1, Least
<1>7. PICK v \in Nat : v = f[i]
  BY <1>1
<1>8. k <= Cardinality(upto(v))
  BY <1>7
<1>9. ASSUME ~(Cardinality(below(v)) < k) PROVE FALSE
  <2>1. k <= Cardinality(below(v))
    <3> HIDE DEF below, upto
    <3>1. PICK c : c = Cardinality(below(v))
      OBVIOUS
    <3>2. c \in Nat /\ ~(c < k) /\ k \in Int
      BY <1>1, <1>3, <1>9, <3>1
    <3>3. k <= c
      BY <3>2
    <3> QED BY <3>1, <3>3
  <2>2. below(v) # {}
    BY <2>1, FS_EmptySet
  <2>3. PICK j \in below(v) : \A l \in below(v) : f[l] <= f[j]
    BY <1>3, <1>4, <2>2
  <2>4. j \in in /\ f[j] \in Nat /\ f[j] < v
    BY <1>1
  <2>5. below(v) \subseteq upto(f[j])
    BY <1>1, <2>3
  <2>6. Cardinality(below(v)) <= Cardinality(upto(f[j]))
    BY <1>3, <2>4, <2>5, FS_Subset
  <2>7. k <= Cardinality(upto(f[j]))
    <3> HIDE DEF below, upto
    <3>1. PICK c, d : c = Cardinality(below(v)) /\ d = Cardinality(upto(f[j]))
      OBVIOUS
    <3>2. c \in Nat /\ d \in Nat /\ k \in Int /\ k <= c /\ c <= d
      BY <1>1, <1>3, <2>1, <2>4, <2>6, <3>1
    <3>3. k <= d
      BY <3>2
    <3> QED BY <3>1, <3>3
  <2>8. j \in enough
    BY <2>4, <2>7
  <2> QED BY <1>6, <1>7, <2>4, <2>8
<1>10. v \in {ring[j].us : j \in in} /\ Cardinality(below(v)) < k /\ k <= Cardinality(upto(v))
  BY <1>1, <1>7, <1>8, <1>9
<1>11. \E u \in {ring[j].us : j \in in} : /\ Cardinality({j \in in : ring[j].us < u}) < k
                                          /\ k <= Cardinality({j \in in : ring[j].us <= u})
  BY <1>10
<1> QED BY <1>11 DEF Ranked

\* A median is one of the samples, or between two of them.
LEMMA MedianIs ==
    ASSUME NEW ring, NEW in, IsFiniteSet(in), in # {}, \A i \in in : ring[i].us \in Nat
    PROVE  \E i, j \in in : Median(ring, in) \in {ring[i].us, (ring[i].us + ring[j].us) \div 2}
<1>1. PICK n \in Nat : n = Cardinality(in)
  BY FS_CardinalityType
<1>2. n # 0
  BY <1>1, FS_EmptySet
<1>3. CASE n % 2 = 1
  <2>1. n \div 2 + 1 \in 1 .. n
    BY <1>2
  <2>2. Median(ring, in) = Ranked(ring, in, n \div 2 + 1)
    BY <1>1, <1>3 DEF Median
  <2> QED BY <1>1, <2>1, <2>2, RankedIs
<1>4. CASE n % 2 # 1
  <2>1. n \div 2 \in 1 .. n /\ n \div 2 + 1 \in 1 .. n
    BY <1>2, <1>4
  <2>2. Median(ring, in) = (Ranked(ring, in, n \div 2) + Ranked(ring, in, n \div 2 + 1)) \div 2
    BY <1>1, <1>4 DEF Median
  <2>3. PICK i \in in : Ranked(ring, in, n \div 2) = ring[i].us
    BY <1>1, <2>1, RankedIs
  <2>4. PICK j \in in : Ranked(ring, in, n \div 2 + 1) = ring[j].us
    BY <1>1, <2>1, RankedIs
  <2> QED BY <2>2, <2>3, <2>4
<1> QED BY <1>3, <1>4

-----------------------------------------------------------------------------
(* LoadSampler: what is known of a placement at its fastest.               *)

RoundTrips == {RoundTrip(ms) : ms \in Latencies}
Samples    == [us : RoundTrips, at : Nat]

LEMMA RoundTripIs ==
    ASSUME NEW ms \in Latencies
    PROVE  RoundTrip(ms) \in Nat /\ Fastest \in Nat /\ Fastest > 0 /\ Fastest <= RoundTrip(ms)
<1>1. Latencies \subseteq Nat
  BY SamplerAssumption
<1>2. \A x \in Nat : RoundTrip(x) = 1000 * (IF x >= 1 THEN x ELSE 1)
  <2> TAKE x \in Nat
  <2>1. Max({x, 1}) = IF x >= 1 THEN x ELSE 1
    BY DEF Max
  <2> QED BY <2>1 DEF RoundTrip
<1>3. PICK i \in Latencies : \A j \in Latencies : i <= j
  <2> DEFINE f == [i \in Latencies |-> i]
  <2>1. \E i \in Latencies : \A j \in Latencies : f[i] <= f[j]
    <3>1. \A i \in Latencies : f[i] \in Nat
      BY <1>1
    <3> HIDE DEF f
    <3> QED BY <3>1, Least
  <2> QED BY <2>1
<1>4. Min(Latencies) \in Latencies /\ \A j \in Latencies : Min(Latencies) <= j
  BY <1>3 DEF Min
<1>5. PICK least \in Nat : least = Min(Latencies)
  BY <1>1, <1>4
<1>6. least <= ms /\ ms \in Nat
  BY <1>1, <1>4, <1>5
<1>7. Fastest = 1000 * (IF least >= 1 THEN least ELSE 1) /\ RoundTrip(ms) = 1000 * (IF ms >= 1 THEN ms ELSE 1)
  BY <1>2, <1>5, <1>6 DEF Fastest
<1> QED BY <1>6, <1>7

\* Fastest stays what it is under a median of it, and above any other the guard is closed.
LEMMA LearnsNoSlower ==
    ASSUME GuardSeparates, NEW u \in RoundTrips, NEW v \in RoundTrips, NEW slow \in {u, (u + v) \div 2}
    PROVE  Learn(Fastest, slow) = Fastest
<1>1. PICK x \in Latencies : u = RoundTrip(x)
  BY DEF RoundTrips
<1>2. PICK y \in Latencies : v = RoundTrip(y)
  BY DEF RoundTrips
<1>3. PICK b \in Nat : b = Fastest
  BY RoundTripIs, <1>1
<1>4. b > 0 /\ u \in Nat /\ v \in Nat /\ b <= u /\ b <= v
  BY <1>1, <1>2, <1>3, RoundTripIs
<1>5. slow \in Nat /\ b <= slow
  BY <1>4
<1>6. CASE slow = b
  <2>1. PICK a \in Nat : a = Alpha /\ a # 0
    BY SamplerAssumption
  <2>2. BelowGuard(b, b)
    BY DEF BelowGuard
  <2>3. Learn(b, b) = ((a - 1) * b + b) \div a
    BY <1>4, <2>1, <2>2 DEF Learn
  <2>4. (a - 1) * b + b = a * b
    BY <2>1
  <2>5. (a * b) \div a = b
    BY <2>1
  <2> QED BY <1>3, <1>6, <2>3, <2>4, <2>5
<1>7. CASE slow # b
  <2>1. PICK w \in Nat : w \in {u, v} /\ w # b /\ (b + w) \div 2 <= slow
    BY <1>4, <1>5, <1>7
  <2>2. ~BelowGuard(b, (b + w) \div 2)
    BY <1>1, <1>2, <1>3, <2>1 DEF GuardSeparates
  <2>3. PICK half \in Nat : half = (b + w) \div 2
    BY <2>1
  <2>4. PICK g : g = Guard * b
    OBVIOUS
  <2>5. g \in Nat
    BY <2>4, SamplerAssumption
  <2>6. ~(half * 1000 < g) /\ ~(half <= b + 1000)
    BY <2>2, <2>3, <2>4 DEF BelowGuard
  <2>7. ~(slow * 1000 < g) /\ ~(slow <= b + 1000)
    BY <1>5, <2>1, <2>3, <2>5, <2>6
  <2>8. ~BelowGuard(b, slow)
    BY <2>4, <2>7 DEF BelowGuard
  <2>9. ~(b = 0 \/ slow < b)
    BY <1>4, <1>5
  <2> QED BY <1>3, <2>8, <2>9 DEF Learn
<1> QED BY <1>6, <1>7

LEMMA BaselineStays ==
    ASSUME GuardSeparates, NEW ring \in Seq(Samples)
    PROVE  Baseline(ring, Fastest) = Fastest
<1> DEFINE in == Inside(ring, BaselineWindow)
<1>1. CASE in = {}
  BY <1>1 DEF Baseline
<1>2. CASE in # {}
  <2>1. in \subseteq 1 .. Len(ring)
    BY DEF Inside
  <2>2. IsFiniteSet(in)
    BY <2>1, FS_Interval, FS_Subset
  <2>3. \A i \in in : ring[i] \in Samples
    BY <2>1
  <2>4. \A i \in in : ring[i].us \in RoundTrips
    BY <2>3 DEF Samples
  <2>5. \A i \in in : ring[i].us \in Nat
    BY <2>4, RoundTripIs DEF RoundTrips
  <2>6. Baseline(ring, Fastest) = Learn(Fastest, Median(ring, in))
    BY <1>2 DEF Baseline
  <2> HIDE DEF in
  <2>7. PICK i, j \in in : Median(ring, in) \in {ring[i].us, (ring[i].us + ring[j].us) \div 2}
    BY <1>2, <2>2, <2>5, MedianIs
  <2> QED BY <2>4, <2>6, <2>7, LearnsNoSlower
<1> QED BY <1>1, <1>2

\* What samplers hold are samples, and one that has not been seeded knows no baseline.
Measured(m) == m.ring \in [Keys -> Seq(Samples)] /\ (~m.seeded => m.base = [k \in Keys |-> 0])
SamplesInv ==
    /\ now \in Nat /\ posted \in [Keys -> Seq(Samples)]
    /\ DOMAIN memory = Samplers /\ \A n \in Samplers : Measured(memory[n])

LEMMA NewestIs ==
    ASSUME NEW S, NEW q \in Seq(S), NEW n \in Nat
    PROVE  Newest(q, n) \in Seq(S)
<1>1. PICK m : m = Min({n, Len(q)})
  OBVIOUS
<1>2. m \in Nat /\ m <= Len(q)
  BY <1>1, LesserOfTwo
<1>3. Newest(q, n) = SubSeq(q, Len(q) - m + 1, Len(q))
  BY <1>1 DEF Newest
<1> QED BY <1>2, <1>3

LEMMA RingsAreSamples ==
    ASSUME NEW old \in [Keys -> Seq(Samples)], posted \in [Keys -> Seq(Samples)]
    PROVE  Rings(old) \in [Keys -> Seq(Samples)]
<1>1. ASSUME NEW k \in Keys PROVE Newest(old[k] \o Current(posted[k]), RingSize) \in Seq(Samples)
  <2>1. PICK q \in Seq(Samples) : q = posted[k]
    OBVIOUS
  <2>2. Inside(q, Window) \subseteq 1 .. Len(q)
    BY DEF Inside
  <2>3. IsFiniteSet(Inside(q, Window))
    BY <2>2, FS_Interval, FS_Subset
  <2>4. PICK r \in Seq(Samples) : r = Current(q)
    BY <2>3, FS_CardinalityType, NewestIs DEF Current
  <2>5. PICK o \in Seq(Samples) : o = old[k]
    OBVIOUS
  <2>6. o \o r \in Seq(Samples)
    OBVIOUS
  <2> QED BY <2>1, <2>4, <2>5, <2>6, NewestIs, SamplerAssumption
<1> QED BY <1>1 DEF Rings

\* What a tick makes of the samples and the baselines.
LEMMA TickMeasures ==
    ASSUME NEW n \in Samplers, NEW found \in BOOLEAN, SamplerTick(n, found)
    PROVE  /\ \E r : /\ memory' = [memory EXCEPT ![n] = r] /\ r.seeded = TRUE
                     /\ r.ring = Rings(memory[n].ring)
                     /\ r.base = [k \in Keys |-> Baseline(Rings(memory[n].ring)[k], Seed(memory[n])[k])]
           /\ posted' = [k \in Keys |-> <<>>] /\ now' = now
<1> DEFINE m       == memory[n]
           before  == Seed(m)
           rings   == Rings(m.ring)
           base    == [k \in Keys |-> Baseline(rings[k], before[k])]
           of      == [p \in Placements |-> Read(p, rings, before)]
           read    == {p \in Placements : of[p] # {}}
           bandOf  == [p \in read |-> Band(p, rings, base, of[p])]
           wrote   == {<<p, bandOf[p]>> : p \in {q \in read : Writes(m.band[q], bandOf[q])}}
           written == {w[1] : w \in wrote}
           press   == [p \in Placements |->
                          IF p \in read /\ Pressed(p, rings, base, of[p]) THEN m.pressure[p] + 1 ELSE 0]
           landed  == IF written # {} THEN now ELSE m.measured
           quiet   == Quiet(m)
           r == [ring |-> rings, base |-> base, seeded |-> TRUE, pressure |-> press,
                 band |-> [p \in Placements |-> IF p \in read THEN NextBand(m.band[p], bandOf[p]) ELSE m.band[p]],
                 seen |-> IF found THEN routed ELSE m.seen, quiet |-> IF found THEN quiet ELSE m.quiet,
                 measured |-> IF found THEN landed ELSE m.measured, ticked |-> now]
<1>1. memory' = [memory EXCEPT ![n] = r] /\ posted' = [k \in Keys |-> <<>>] /\ now' = now
  BY DEF SamplerTick
<1>2. r.seeded = TRUE /\ r.ring = rings /\ r.base = base
  OBVIOUS
<1> HIDE DEF r, rings, base
<1>3. \E x : memory' = [memory EXCEPT ![n] = x] /\ x.seeded = TRUE /\ x.ring = rings /\ x.base = base
  BY <1>1, <1>2
<1> QED BY <1>1, <1>3 DEF rings, base

LEMMA SamplesBegin == SamplerInit => SamplesInv
<1> SUFFICES ASSUME SamplerInit PROVE SamplesInv
  OBVIOUS
<1>1. Fresh.ring = [k \in Keys |-> <<>>] /\ Fresh.base = [k \in Keys |-> 0]
  BY DEF Fresh
<1>2. <<>> \in Seq(Samples)
  OBVIOUS
<1>3. Measured(Fresh)
  BY <1>1, <1>2 DEF Measured
<1>4. now = 0 /\ posted = [k \in Keys |-> <<>>] /\ memory = [n \in Samplers |-> Fresh]
  BY DEF SamplerInit
<1> QED BY <1>2, <1>3, <1>4 DEF SamplesInv

LEMMA SamplesGoOn == SamplesInv /\ [SamplerNext]_samplerVars => SamplesInv'
<1> SUFFICES ASSUME SamplesInv, [SamplerNext]_samplerVars PROVE SamplesInv'
  OBVIOUS
<1>i. /\ now \in Nat /\ posted \in [Keys -> Seq(Samples)]
      /\ DOMAIN memory = Samplers /\ \A n \in Samplers : Measured(memory[n])
  BY DEF SamplesInv
<1>e. \A m : Measured(m)' <=> Measured(m)
  BY DEF Measured
<1>1. ASSUME NEW n \in Samplers, NEW found \in BOOLEAN, SamplerTick(n, found) PROVE SamplesInv'
  <2>1. PICK r : /\ memory' = [memory EXCEPT ![n] = r] /\ r.seeded = TRUE
                 /\ r.ring = Rings(memory[n].ring)
                 /\ r.base = [k \in Keys |-> Baseline(Rings(memory[n].ring)[k], Seed(memory[n])[k])]
    BY <1>1, TickMeasures, Zenon
  <2>2. memory[n].ring \in [Keys -> Seq(Samples)]
    BY <1>i DEF Measured
  <2>3. Measured(r)
    BY <1>i, <2>1, <2>2, RingsAreSamples DEF Measured
  <2>4. posted' = [k \in Keys |-> <<>>] /\ now' = now
    BY <1>1 DEF SamplerTick
  <2>5. posted' \in [Keys -> Seq(Samples)]
    BY <2>4
  <2> QED BY <1>i, <1>e, <2>1, <2>3, <2>4, <2>5 DEF SamplesInv
<1>2. ASSUME NEW n \in Samplers, SamplerRestarts(n) PROVE SamplesInv'
  <2>1. memory' = [memory EXCEPT ![n] = Fresh] /\ UNCHANGED <<now, posted>>
    BY <1>2 DEF SamplerRestarts
  <2>2. Measured(Fresh)
    BY DEF Measured, Fresh
  <2> QED BY <1>i, <1>e, <2>1, <2>2 DEF SamplesInv
<1>3. ASSUME NEW p \in Placements, NEW c \in Commands, NEW ms \in Latencies, Answer(p, c, ms) PROVE SamplesInv'
  <2>1. /\ posted' = [posted EXCEPT ![<<p, c>>] = Append(@, [us |-> RoundTrip(ms), at |-> now])]
        /\ UNCHANGED <<now, memory>>
    BY <1>3 DEF Answer
  <2>2. PICK s \in Samples : s = [us |-> RoundTrip(ms), at |-> now]
    BY <1>i DEF Samples, RoundTrips
  <2>3. <<p, c>> \in Keys
    BY DEF Keys
  <2>4. Append(posted[<<p, c>>], s) \in Seq(Samples)
    BY <1>i, <2>3
  <2>5. posted' \in [Keys -> Seq(Samples)]
    BY <1>i, <2>1, <2>2, <2>3, <2>4
  <2> QED BY <1>i, <1>e, <2>1, <2>5 DEF SamplesInv
<1>4. CASE TimePasses
  <2>1. now' = now + 1 /\ UNCHANGED <<posted, memory>>
    BY <1>4 DEF TimePasses
  <2> QED BY <1>i, <1>e, <2>1 DEF SamplesInv
<1>5. ASSUME UNCHANGED <<now, posted, memory>> PROVE SamplesInv'
  BY <1>i, <1>e, <1>5 DEF SamplesInv
<1>6. ASSUME NEW p \in Placements, Route(p) PROVE SamplesInv'
  BY <1>5, <1>6 DEF Route
<1>7. CASE UNCHANGED samplerVars
  BY <1>5, <1>7 DEF samplerVars
<1> QED BY <1>1, <1>2, <1>3, <1>4, <1>6, <1>7 DEF SamplerNext

LEMMA NormalIsKept ==
    ASSUME GuardSeparates, SamplesInv, [SamplerNext]_samplerVars, NEW n \in Samplers, NEW k \in Keys,
           memory[n].base[k] = Fastest, memory'[n].base[k] # 0
    PROVE  memory'[n].base[k] = Fastest
<1>i. /\ now \in Nat /\ posted \in [Keys -> Seq(Samples)]
      /\ DOMAIN memory = Samplers /\ Measured(memory[n])
  BY DEF SamplesInv
<1>1. ASSUME NEW s \in Samplers, NEW found \in BOOLEAN, SamplerTick(s, found)
      PROVE  memory'[n].base[k] = Fastest
  <2>1. PICK r : /\ memory' = [memory EXCEPT ![s] = r]
                 /\ r.base = [j \in Keys |-> Baseline(Rings(memory[s].ring)[j], Seed(memory[s])[j])]
    BY <1>1, TickMeasures
  <2>2. CASE s # n
    BY <1>i, <2>1, <2>2
  <2>3. CASE s = n
    <3>1. memory'[n].base[k] = Baseline(Rings(memory[n].ring)[k], Seed(memory[n])[k])
      BY <1>i, <2>1, <2>3
    <3>2. Fastest # 0
      <4>1. PICK ms : ms \in Latencies
        BY SamplerAssumption
      <4> QED BY <4>1, RoundTripIs
    <3>3. memory[n].seeded
      BY <1>i, <3>2 DEF Measured
    <3>4. Seed(memory[n])[k] = Fastest
      BY <3>3 DEF Seed
    <3>5. Rings(memory[n].ring)[k] \in Seq(Samples)
      BY <1>i, RingsAreSamples DEF Measured
    <3> QED BY <3>1, <3>4, <3>5, BaselineStays
  <2> QED BY <2>2, <2>3
<1>2. ASSUME NEW s \in Samplers, SamplerRestarts(s) PROVE memory'[n].base[k] = Fastest
  <2>1. memory' = [memory EXCEPT ![s] = Fresh]
    BY <1>2 DEF SamplerRestarts
  <2>2. Fresh.base[k] = 0
    BY DEF Fresh
  <2> QED BY <1>i, <2>1, <2>2
<1>3. ASSUME memory' = memory PROVE memory'[n].base[k] = Fastest
  BY <1>3
<1>4. ASSUME NEW p \in Placements, NEW c \in Commands, NEW ms \in Latencies, Answer(p, c, ms)
      PROVE  memory'[n].base[k] = Fastest
  BY <1>3, <1>4 DEF Answer
<1>5. ASSUME NEW p \in Placements, Route(p) PROVE memory'[n].base[k] = Fastest
  BY <1>3, <1>5 DEF Route
<1>6. CASE TimePasses
  BY <1>3, <1>6 DEF TimePasses
<1>7. CASE UNCHANGED samplerVars
  BY <1>3, <1>7 DEF samplerVars
<1> QED BY <1>1, <1>2, <1>4, <1>5, <1>6, <1>7 DEF SamplerNext

\* A process that knows a placement at its fastest never takes a slower normal for it, in
\* whatever order overload and quiet come and however often the lease moves: as long as the
\* guard tells what is slower from what is normal.
THEOREM NormalHolds ==
    ASSUME GuardSeparates PROVE SamplerSpec => BaselineKeepsNormal
<1>1. SamplerInit => SamplesInv
  BY SamplesBegin
<1>2. SamplesInv /\ [SamplerNext]_samplerVars => SamplesInv'
  BY SamplesGoOn
<1>3. SamplesInv /\ [SamplerNext]_samplerVars =>
        [\A n \in Samplers, k \in Keys :
            memory[n].base[k] = Fastest /\ memory'[n].base[k] # 0 => memory'[n].base[k] = Fastest]_samplerVars
  BY NormalIsKept
<1> QED BY <1>1, <1>2, <1>3, PTL DEF SamplerSpec, BaselineKeepsNormal

-----------------------------------------------------------------------------
(* AssetBundles.  A builder may store what it read long ago over what        *)
(* another has stored, but then it has not handled the last announcement:   *)
(* it will read again, and store what it reads.                             *)

Stages == {"down", "sites", "manifests", "next", "store", "mapping", "full", "subscribe", "loop"}

BuildRecord ==
    [stage : Stages, then : {"down", "subscribe", "loop"}, todo : SUBSET Manifests,
     item : Sources \cup {Nothing}, copies : BOOLEAN, got : Nat]

AssetShapes ==
    /\ declared \subseteq Manifests /\ edition \in [Sources -> Nat] /\ bundle \in [Manifests -> Nat]
    /\ unhandled \in [Builders -> Nat]
    /\ build \in [Builders -> BuildRecord]

\* What is declared was edited, and a build belongs to a start or to the loop.
AssetOrder ==
    /\ \A m \in declared : edition[m] > 0
    /\ \A b \in Builders :
          /\ build[b].stage = "down" <=> build[b].then = "down"
          /\ build[b].stage = "loop" => build[b].then = "loop"
          /\ build[b].stage = "subscribe" => build[b].then = "subscribe"
          /\ build[b].stage = "store" => build[b].item \in Manifests

\* The builder reads everything once more, whatever it is at.
ReadsAgain(b) == unhandled[b] > 0 \/ b \in due \/ build[b].then = "subscribe"

\* The builder will store the last edition of a manifest, or of the face mapping.
WillStore(b, m) ==
    \/ ReadsAgain(b) \/ build[b].stage \in {"sites", "manifests"}
    \/ build[b].stage \in {"next", "store"} /\ m \in build[b].todo
    \/ build[b].stage = "store" /\ build[b].item = m /\ build[b].got = edition[m]

WillStoreFull(b) ==
    \/ ReadsAgain(b) \/ build[b].stage \in {"sites", "manifests", "mapping"}
    \/ build[b].stage = "full" /\ build[b].item = Faces /\ build[b].got = edition[Faces]

\* A builder that does not read again has read nothing that is old.
UpToDate(b) ==
    \/ ReadsAgain(b)
    \/ /\ build[b].stage = "store" => build[b].got = edition[build[b].item]
       /\ declared = {} => /\ build[b].stage \notin {"next", "store"}
                           /\ build[b].stage = "full" => build[b].item = Faces /\ build[b].got = edition[Faces]

Serves(m)  == bundle[m] \in {0, edition[m]}
ServesFull == full \in {NoBundle, [from |-> Faces, edition |-> edition[Faces]]}
NobodyBuilds      == \A b \in Builders : build[b].stage = "down"

NothingToBuild == declared = {} /\ edition[Faces] = 0

\* Every edit was announced, and heard by all that work.
Announced == ~draft /\ ~unheard

Covered ==
    /\ listed \/ NothingToBuild
    /\ \A b \in Builders : UpToDate(b)
    /\ \A m \in declared : Serves(m) \/ NobodyBuilds \/ \E b \in Builders : WillStore(b, m)
    /\ declared = {} /\ edition[Faces] > 0 =>
          ServesFull \/ NobodyBuilds \/ \E b \in Builders : WillStoreFull(b)

AssetInv == AssetShapes /\ AssetOrder /\ (Announced => Covered)

LEMMA AssetInvInit == AssetInit => AssetInv
<1> SUFFICES ASSUME AssetInit PROVE AssetInv
  OBVIOUS
<1>1. AssetShapes
  BY AssetAssumption DEF AssetInit, AssetShapes, At, Stages, BuildRecord
<1>2. AssetOrder
  BY DEF AssetInit, AssetOrder, At
<1>3. Covered
  <2>1. Faces \in Sources
    BY DEF Sources
  <2> QED BY <2>1 DEF AssetInit, Covered, NothingToBuild, UpToDate, At
<1> QED BY <1>1, <1>2, <1>3 DEF AssetInv

\* What becomes of the record of a builder.
LEMMA Records ==
    ASSUME AssetShapes, NEW b \in Builders
    PROVE  /\ build[b] \in BuildRecord
           /\ \A s \in Stages : Advances(b, s) =>
                 /\ build' \in [Builders -> BuildRecord]
                 /\ build'[b].stage = s /\ build'[b].then = build[b].then /\ build'[b].todo = build[b].todo
                 /\ build'[b].item = build[b].item /\ build'[b].got = build[b].got
                 /\ \A e \in Builders : e # b => build'[e] = build[e]
BY DEF AssetShapes, Advances, BuildRecord

LEMMA FreshRecords ==
    ASSUME AssetShapes, NEW b \in Builders, NEW s \in Stages, NEW t \in {"down", "subscribe", "loop"},
           build' = [build EXCEPT ![b] = At(s, t)]
    PROVE  /\ build' \in [Builders -> BuildRecord]
           /\ build'[b].stage = s /\ build'[b].then = t
           /\ \A e \in Builders : e # b => build'[e] = build[e]
<1>1. At(s, t) \in BuildRecord
  BY DEF At, BuildRecord
<1>2. At(s, t).stage = s /\ At(s, t).then = t
  BY DEF At
<1> QED BY <1>1, <1>2 DEF AssetShapes

LEMMA OverRecords ==
    ASSUME AssetShapes, NEW b \in Builders, Over(b)
    PROVE  /\ build' \in [Builders -> BuildRecord]
           /\ build'[b].stage = build[b].then /\ build'[b].then = build[b].then
           /\ \A e \in Builders : e # b => build'[e] = build[e]
<1> DEFINE t == build[b].then
<1>1. t \in {"down", "subscribe", "loop"} /\ t \in Stages
  BY Records DEF Stages, BuildRecord
<1>2. build' = [build EXCEPT ![b] = At(t, t)]
  BY DEF Over
<1> HIDE DEF t
<1>3. /\ build' \in [Builders -> BuildRecord]
      /\ build'[b].stage = t /\ build'[b].then = t
      /\ \A e \in Builders : e # b => build'[e] = build[e]
  BY <1>1, <1>2, FreshRecords
<1> QED BY <1>3 DEF t

LEMMA PlanRecords ==
    ASSUME AssetShapes, NEW b \in Builders, NEW found \in SUBSET Manifests, Plan(b, found)
    PROVE  /\ build' \in [Builders -> BuildRecord]
           /\ build'[b].stage = IF found = {} THEN "mapping" ELSE "next"
           /\ build'[b].then = build[b].then /\ build'[b].todo = found
           /\ \A e \in Builders : e # b => build'[e] = build[e]
<1>0. (Main \in found) \in BOOLEAN
  OBVIOUS
<1>1. PICK c \in BOOLEAN : c = (Main \in found)
  BY <1>0, Zenon
<1>2. PICK s \in Stages : s = IF found = {} THEN "mapping" ELSE "next"
  BY DEF Stages
<1>3. build' = [build EXCEPT ![b].todo = found, ![b].copies = c, ![b].stage = s]
  BY <1>1, <1>2 DEF Plan
<1>4. /\ build' \in [Builders -> BuildRecord]
      /\ build'[b].stage = s
      /\ build'[b].then = build[b].then /\ build'[b].todo = found
      /\ \A e \in Builders : e # b => build'[e] = build[e]
  BY <1>3 DEF AssetShapes, BuildRecord
<1> QED BY <1>2, <1>4

\* A step of one builder leaves the others with what they will store.
LEMMA OneBuilder ==
    ASSUME Covered, NEW b \in Builders, UNCHANGED <<declared, edition>>, listed => listed',
           \A e \in Builders : e # b => build'[e] = build[e] /\ unhandled'[e] = unhandled[e] /\ (e \in due' <=> e \in due),
           UpToDate(b)',
           \A m \in declared : Serves(m) \/ NobodyBuilds \/ WillStore(b, m) => Serves(m)' \/ WillStore(b, m)',
           declared = {} /\ edition[Faces] > 0 =>
               (ServesFull \/ NobodyBuilds \/ WillStoreFull(b) => ServesFull' \/ WillStoreFull(b)')
    PROVE  Covered'
<1>1. ASSUME NEW e \in Builders, e # b
      PROVE  /\ UpToDate(e) => UpToDate(e)'
             /\ \A m : WillStore(e, m) => WillStore(e, m)'
             /\ WillStoreFull(e) => WillStoreFull(e)'
  BY <1>1 DEF UpToDate, WillStore, WillStoreFull, ReadsAgain
<1>2. \A e \in Builders : UpToDate(e)'
  BY <1>1 DEF Covered
<1>3. ASSUME NEW m \in declared
      PROVE  Serves(m)' \/ NobodyBuilds' \/ \E e \in Builders : WillStore(e, m)'
  <2>1. Serves(m) \/ NobodyBuilds \/ \E e \in Builders : WillStore(e, m)
    BY DEF Covered
  <2> QED BY <2>1, <1>1
<1>4. ASSUME declared = {}, edition[Faces] > 0
      PROVE  ServesFull' \/ NobodyBuilds' \/ \E e \in Builders : WillStoreFull(e)'
  <2>1. ServesFull \/ NobodyBuilds \/ \E e \in Builders : WillStoreFull(e)
    BY <1>4 DEF Covered
  <2> QED BY <1>4, <2>1, <1>1
<1>5. (listed \/ NothingToBuild)'
  BY DEF Covered, NothingToBuild
<1> QED BY <1>2, <1>3, <1>4, <1>5 DEF Covered

\* A step of one builder, by what it changes.
LEMMA BuilderStep ==
    ASSUME AssetInv, NEW b \in Builders, UNCHANGED <<declared, edition>>, listed => listed',
           Announced' => Announced,
           build' \in [Builders -> BuildRecord], bundle' \in [Manifests -> Nat], unhandled' \in [Builders -> Nat],
           \A e \in Builders : e # b => build'[e] = build[e] /\ unhandled'[e] = unhandled[e] /\ (e \in due' <=> e \in due),
           build'[b].stage = "down" <=> build'[b].then = "down",
           build'[b].stage = "loop" => build'[b].then = "loop",
           build'[b].stage = "subscribe" => build'[b].then = "subscribe",
           build'[b].stage = "store" => build'[b].item \in Manifests,
           Announced /\ Announced' => 
               /\ UpToDate(b)'
               /\ \A m \in declared : Serves(m) \/ NobodyBuilds \/ WillStore(b, m) => Serves(m)' \/ WillStore(b, m)'
               /\ declared = {} /\ edition[Faces] > 0 =>
                      (ServesFull \/ NobodyBuilds \/ WillStoreFull(b) => ServesFull' \/ WillStoreFull(b)')
    PROVE  AssetInv'
<1>1. AssetShapes'
  BY DEF AssetInv, AssetShapes
<1>2. AssetOrder'
  BY DEF AssetInv, AssetOrder
<1>3. ASSUME Announced' PROVE Covered'
  <2>1. Covered
    BY <1>3 DEF AssetInv
  <2>2. Announced
    BY <1>3
  <2> QED BY <1>3, <2>1, <2>2, OneBuilder
<1> QED BY <1>1, <1>2, <1>3 DEF AssetInv

\* Where a step keeps what is stored, and a builder that was at work goes on with its build.
LEMMA GoesOnBuilding ==
    ASSUME AssetInv, NEW b \in Builders, UNCHANGED <<listed, declared, edition, draft, unheard, bundle, full, unhandled, due>>,
           build' \in [Builders -> BuildRecord], build'[b].then = build[b].then,
           \A e \in Builders : e # b => build'[e] = build[e],
           build[b].stage # "down",
           build'[b].stage \in {"manifests", "next", "store", "mapping", "full", build[b].then},
           build'[b].stage = "store" => build'[b].item \in Manifests,
           Announced /\ ~ReadsAgain(b) =>
               /\ UpToDate(b) => UpToDate(b)'
               /\ \A m \in declared : WillStore(b, m) => Serves(m) \/ WillStore(b, m)'
               /\ declared = {} /\ edition[Faces] > 0 => (WillStoreFull(b) => ServesFull \/ WillStoreFull(b)')
    PROVE  AssetInv'
<1>1. ReadsAgain(b)' <=> ReadsAgain(b)
  BY DEF ReadsAgain
<1>2. ~NobodyBuilds
  BY DEF NobodyBuilds
<1>3. ASSUME Announced
      PROVE  /\ UpToDate(b)'
             /\ \A m \in declared : Serves(m) \/ NobodyBuilds \/ WillStore(b, m) => Serves(m)' \/ WillStore(b, m)'
             /\ declared = {} /\ edition[Faces] > 0 =>
                    (ServesFull \/ NobodyBuilds \/ WillStoreFull(b) => ServesFull' \/ WillStoreFull(b)')
  <2>s. /\ \A m : Serves(m)' <=> Serves(m)
        /\ ServesFull' <=> ServesFull
    BY DEF Serves, ServesFull
  <2>1. CASE ReadsAgain(b)
    BY <1>1, <2>1 DEF UpToDate, WillStore, WillStoreFull
  <2>2. CASE ~ReadsAgain(b)
    <3>1. UpToDate(b)
      BY <1>3 DEF AssetInv, Covered
    <3> QED BY <1>2, <1>3, <2>2, <2>s, <3>1
  <2> QED BY <2>1, <2>2
<1>4. Announced' => Announced
  BY DEF Announced
<1>5. /\ build[b].then \in {"loop", "subscribe"}
      /\ bundle \in [Manifests -> Nat] /\ unhandled \in [Builders -> Nat]
  BY DEF AssetInv, AssetShapes, AssetOrder, BuildRecord
<1> QED BY <1>3, <1>4, <1>5, BuilderStep

\* An action of the builder that ends at its stage, with the shape of its record.
LEMMA RecordOf ==
    ASSUME AssetInv, NEW b \in Builders
    PROVE  /\ AssetShapes /\ AssetOrder /\ build[b] \in BuildRecord
           /\ build[b].stage # "down" => build[b].then \in {"loop", "subscribe"}
BY Records DEF AssetInv, AssetOrder, BuildRecord

LEMMA ReadSitesKeeps == ASSUME AssetInv, NEW b \in Builders, ReadSites(b) PROVE AssetInv'
<1>1. /\ AssetShapes /\ AssetOrder /\ build[b] \in BuildRecord
      /\ build[b].then \in {"loop", "subscribe"} /\ build[b].stage = "sites"
      /\ UNCHANGED <<listed, declared, edition, draft, unheard, bundle, full, unhandled, due>>
  BY RecordOf DEF ReadSites
<1>2. CASE listed
  <2>1. Advances(b, "manifests")
    BY <1>2 DEF ReadSites
  <2>2. /\ build' \in [Builders -> BuildRecord] /\ build'[b].then = build[b].then
        /\ build'[b].stage = "manifests" /\ \A e \in Builders : e # b => build'[e] = build[e]
    BY <1>1, <2>1, Records DEF Stages
  <2>3. ~ReadsAgain(b) => UpToDate(b)' /\ \A m \in declared : WillStore(b, m)'
    BY <2>2 DEF UpToDate, WillStore
  <2>4. WillStoreFull(b)'
    BY <2>2 DEF WillStoreFull
  <2> QED BY <1>1, <2>2, <2>3, <2>4, GoesOnBuilding
<1>3. CASE ~listed
  <2>1. Over(b)
    BY <1>3 DEF ReadSites
  <2>2. /\ build' \in [Builders -> BuildRecord] /\ build'[b].then = build[b].then
        /\ build'[b].stage = build[b].then /\ \A e \in Builders : e # b => build'[e] = build[e]
    BY <1>1, <2>1, OverRecords
  <2>3. ASSUME Announced, ~ReadsAgain(b)
        PROVE  UpToDate(b)' /\ declared = {} /\ ~(edition[Faces] > 0)
    <3>1. NothingToBuild
      BY <1>3, <2>3 DEF AssetInv, Covered
    <3>2. UpToDate(b)'
      BY <1>1, <2>2 DEF UpToDate
    <3> QED BY <3>1, <3>2 DEF NothingToBuild
  <2> QED BY <1>1, <2>2, <2>3, GoesOnBuilding
<1> QED BY <1>2, <1>3

LEMMA ReadManifestsKeeps == ASSUME AssetInv, NEW b \in Builders, ReadManifests(b) PROVE AssetInv'
<1>1. /\ AssetShapes /\ AssetOrder /\ build[b] \in BuildRecord
      /\ build[b].then \in {"loop", "subscribe"} /\ build[b].stage = "manifests"
      /\ UNCHANGED <<listed, declared, edition, draft, unheard, bundle, full, unhandled, due>>
  BY RecordOf DEF ReadManifests
<1>2. Plan(b, declared) /\ declared \in SUBSET Manifests
  BY <1>1 DEF ReadManifests, AssetShapes
<1>3. /\ build' \in [Builders -> BuildRecord] /\ build'[b].then = build[b].then
      /\ build'[b].stage = (IF declared = {} THEN "mapping" ELSE "next") /\ build'[b].todo = declared
      /\ \A e \in Builders : e # b => build'[e] = build[e]
  BY <1>1, <1>2, PlanRecords
<1>4. UpToDate(b)'
  BY <1>1, <1>3 DEF UpToDate
<1>5. \A m \in declared : WillStore(b, m)'
  BY <1>1, <1>3 DEF WillStore
<1>6. declared = {} => WillStoreFull(b)'
  BY <1>1, <1>3 DEF WillStoreFull
<1> QED BY <1>1, <1>3, <1>4, <1>5, <1>6, GoesOnBuilding

LEMMA ReadManifestKeeps ==
    ASSUME AssetInv, NEW b \in Builders, NEW m \in Manifests, ReadManifest(b, m) PROVE AssetInv'
<1>1. /\ AssetShapes /\ AssetOrder /\ build[b] \in BuildRecord
      /\ build[b].then \in {"loop", "subscribe"} /\ build[b].stage = "next" /\ m \in build[b].todo
      /\ UNCHANGED <<listed, declared, edition, draft, unheard, bundle, full, unhandled, due>>
  BY RecordOf DEF ReadManifest
<1>2. PICK s \in {"next", "store"} : s = IF edition[m] = 0 THEN "next" ELSE "store"
  OBVIOUS
<1>3. PICK g \in Nat : g = edition[m]
  BY <1>1 DEF AssetShapes, Sources
<1>4. build' = [build EXCEPT ![b].todo = @ \ {m}, ![b].item = m, ![b].got = g, ![b].stage = s]
  BY <1>2, <1>3 DEF ReadManifest
<1>5. /\ build' \in [Builders -> BuildRecord] /\ build'[b].then = build[b].then
      /\ build'[b].stage = s /\ build'[b].todo = build[b].todo \ {m} /\ build'[b].item = m /\ build'[b].got = g
      /\ \A e \in Builders : e # b => build'[e] = build[e]
  BY <1>1, <1>4 DEF AssetShapes, BuildRecord, Stages, Sources
<1>6. ASSUME ~ReadsAgain(b), UpToDate(b) PROVE declared # {} /\ UpToDate(b)'
  <2>1. declared # {}
    BY <1>1, <1>6 DEF UpToDate
  <2>2. build'[b].stage = "store" => build'[b].got = edition'[build'[b].item]
    BY <1>1, <1>3, <1>5
  <2> QED BY <1>1, <2>1, <2>2 DEF UpToDate
<1>7. ASSUME ~ReadsAgain(b), NEW x \in declared, WillStore(b, x) PROVE WillStore(b, x)'
  <2>1. x \in build[b].todo
    BY <1>1, <1>7 DEF WillStore
  <2>2. CASE x = m
    <3>1. s = "store"
      BY <1>1, <1>2, <1>3, <1>7, <2>2 DEF AssetOrder
    <3> QED BY <1>1, <1>3, <1>5, <2>2, <3>1 DEF WillStore
  <2>3. CASE x # m
    BY <1>1, <1>5, <2>1, <2>3 DEF WillStore
  <2> QED BY <2>2, <2>3
<1>8. Announced /\ ~ReadsAgain(b) => UpToDate(b)
  BY DEF AssetInv, Covered
<1> QED BY <1>1, <1>5, <1>6, <1>7, <1>8, GoesOnBuilding

LEMMA ReadMainKeeps == ASSUME AssetInv, NEW b \in Builders, ReadMain(b) PROVE AssetInv'
<1>1. /\ AssetShapes /\ AssetOrder /\ build[b] \in BuildRecord
      /\ build[b].then \in {"loop", "subscribe"} /\ build[b].stage = "next" /\ build[b].todo = {}
      /\ UNCHANGED <<listed, declared, edition, draft, unheard, bundle, full, unhandled, due>>
  BY RecordOf DEF ReadMain
<1>2. /\ build' \in [Builders -> BuildRecord] /\ build'[b].then = build[b].then
      /\ build'[b].stage \in {"full", build[b].then}
      /\ \A e \in Builders : e # b => build'[e] = build[e]
  <2>1. CASE build[b].copies /\ bundle[Main] > 0
    <3>1. PICK g \in Nat : g = bundle[Main]
      BY <1>1 DEF AssetShapes, Manifests
    <3>2. build' = [build EXCEPT ![b].stage = "full", ![b].item = Main, ![b].got = g]
      BY <2>1, <3>1 DEF ReadMain
    <3> QED BY <1>1, <3>2 DEF AssetShapes, BuildRecord, Stages, Sources, Manifests
  <2>2. CASE ~(build[b].copies /\ bundle[Main] > 0)
    <3>1. Over(b)
      BY <2>2 DEF ReadMain
    <3> QED BY <1>1, <3>1, OverRecords
  <2> QED BY <2>1, <2>2
<1>3. ASSUME ~ReadsAgain(b), UpToDate(b) PROVE declared # {} /\ UpToDate(b)'
  <2>1. declared # {}
    BY <1>1, <1>3 DEF UpToDate
  <2> QED BY <1>1, <1>2, <2>1 DEF UpToDate
<1>4. ~ReadsAgain(b) => \A m \in declared : ~WillStore(b, m)
  BY <1>1 DEF WillStore
<1>5. Announced /\ ~ReadsAgain(b) => UpToDate(b)
  BY DEF AssetInv, Covered
<1> QED BY <1>1, <1>2, <1>3, <1>4, <1>5, GoesOnBuilding

LEMMA ReadMappingKeeps == ASSUME AssetInv, NEW b \in Builders, ReadMapping(b) PROVE AssetInv'
<1>1. /\ AssetShapes /\ AssetOrder /\ build[b] \in BuildRecord
      /\ build[b].then \in {"loop", "subscribe"} /\ build[b].stage = "mapping"
      /\ UNCHANGED <<listed, declared, edition, draft, unheard, bundle, full, unhandled, due>>
  BY RecordOf DEF ReadMapping
<1>2. /\ build' \in [Builders -> BuildRecord] /\ build'[b].then = build[b].then
      /\ build'[b].stage \in {"full", build[b].then}
      /\ edition[Faces] # 0 => build'[b].stage = "full"
      /\ build'[b].stage = "full" => build'[b].item = Faces /\ build'[b].got = edition[Faces]
      /\ \A e \in Builders : e # b => build'[e] = build[e]
  <2>1. CASE edition[Faces] # 0
    <3>1. PICK g \in Nat : g = edition[Faces]
      BY <1>1 DEF AssetShapes, Sources
    <3>2. build' = [build EXCEPT ![b].stage = "full", ![b].item = Faces, ![b].got = g]
      BY <2>1, <3>1 DEF ReadMapping
    <3>3. /\ build' \in [Builders -> BuildRecord] /\ build'[b].then = build[b].then
          /\ build'[b].stage = "full" /\ build'[b].item = Faces /\ build'[b].got = g
          /\ \A e \in Builders : e # b => build'[e] = build[e]
      BY <1>1, <3>2 DEF AssetShapes, BuildRecord, Stages, Sources
    <3> QED BY <3>1, <3>3
  <2>2. CASE edition[Faces] = 0
    <3>1. Over(b)
      BY <2>2 DEF ReadMapping
    <3> QED BY <1>1, <2>2, <3>1, OverRecords
  <2> QED BY <2>1, <2>2
<1>3. UpToDate(b)'
  BY <1>1, <1>2 DEF UpToDate
<1>4. ~ReadsAgain(b) => \A m \in declared : ~WillStore(b, m)
  BY <1>1 DEF WillStore
<1>5. edition[Faces] > 0 => WillStoreFull(b)'
  BY <1>1, <1>2 DEF WillStoreFull, AssetShapes, Sources
<1> QED BY <1>1, <1>2, <1>3, <1>4, <1>5, GoesOnBuilding

\* What is stored is of the last edit, or the builder reads once more.
LEMMA StoreBundleKeeps == ASSUME AssetInv, NEW b \in Builders, StoreBundle(b) PROVE AssetInv'
<1>1. /\ AssetShapes /\ AssetOrder /\ build[b] \in BuildRecord
      /\ build[b].then \in {"loop", "subscribe"} /\ build[b].stage = "store"
      /\ UNCHANGED <<listed, declared, edition, draft, unheard, full, unhandled, due>>
      /\ bundle' = [bundle EXCEPT ![build[b].item] = build[b].got]
  BY RecordOf DEF StoreBundle
<1>2. PICK i \in Manifests : i = build[b].item
  BY <1>1 DEF AssetOrder
<1>3. PICK g \in Nat : g = build[b].got
  BY <1>1 DEF BuildRecord
<1>4. /\ bundle' \in [Manifests -> Nat] /\ bundle'[i] = g
      /\ \A m \in Manifests : m # i => bundle'[m] = bundle[m]
  BY <1>1, <1>2, <1>3 DEF AssetShapes
<1>5. Advances(b, "next")
  BY DEF StoreBundle
<1>6. /\ build' \in [Builders -> BuildRecord] /\ build'[b].then = build[b].then /\ build'[b].stage = "next"
      /\ build'[b].todo = build[b].todo
      /\ \A e \in Builders : e # b => build'[e] = build[e]
  BY <1>1, <1>5, Records DEF Stages
<1>7. ReadsAgain(b)' <=> ReadsAgain(b)
  BY <1>1, <1>6 DEF ReadsAgain
<1>8. ~NobodyBuilds /\ (ServesFull' <=> ServesFull)
  BY <1>1 DEF NobodyBuilds, ServesFull
<1>9. ASSUME Announced
      PROVE  /\ UpToDate(b)'
             /\ \A m \in declared : Serves(m) \/ NobodyBuilds \/ WillStore(b, m) => Serves(m)' \/ WillStore(b, m)'
             /\ declared = {} /\ edition[Faces] > 0 =>
                    (ServesFull \/ NobodyBuilds \/ WillStoreFull(b) => ServesFull' \/ WillStoreFull(b)')
  <2>1. CASE ReadsAgain(b)
    BY <1>7, <2>1 DEF UpToDate, WillStore, WillStoreFull
  <2>2. CASE ~ReadsAgain(b)
    <3>1. g = edition[i] /\ declared # {}
      BY <1>1, <1>2, <1>3, <1>9, <2>2 DEF AssetInv, Covered, UpToDate
    <3>2. UpToDate(b)'
      BY <1>1, <1>6, <3>1 DEF UpToDate
    <3>3. ASSUME NEW m \in declared, Serves(m) \/ WillStore(b, m) PROVE Serves(m)' \/ WillStore(b, m)'
      <4>1. m \in Manifests
        BY <1>1 DEF AssetShapes
      <4>2. CASE m = i
        BY <1>1, <1>4, <3>1, <4>2 DEF Serves
      <4>3. CASE m # i /\ Serves(m)
        BY <1>1, <1>4, <4>1, <4>3 DEF Serves
      <4>4. CASE m # i /\ WillStore(b, m)
        <5>1. m \in build[b].todo
          BY <1>1, <1>2, <2>2, <4>4 DEF WillStore
        <5> QED BY <1>6, <5>1 DEF WillStore
      <4> QED BY <3>3, <4>2, <4>3, <4>4
    <3> QED BY <1>8, <3>1, <3>2, <3>3
  <2> QED BY <2>1, <2>2
<1>10. Announced' => Announced
  BY <1>1 DEF Announced
<1>11. unhandled' \in [Builders -> Nat]
  BY <1>1 DEF AssetShapes
<1> QED BY <1>1, <1>4, <1>6, <1>9, <1>10, <1>11, BuilderStep

LEMMA StoreFullKeeps == ASSUME AssetInv, NEW b \in Builders, StoreFull(b) PROVE AssetInv'
<1>1. /\ AssetShapes /\ AssetOrder /\ build[b] \in BuildRecord
      /\ build[b].then \in {"loop", "subscribe"} /\ build[b].stage = "full"
      /\ UNCHANGED <<listed, declared, edition, draft, unheard, bundle, unhandled, due>>
      /\ full' = [from |-> build[b].item, edition |-> build[b].got] /\ Over(b)
  BY RecordOf DEF StoreFull
<1>2. /\ build' \in [Builders -> BuildRecord] /\ build'[b].then = build[b].then
      /\ build'[b].stage = build[b].then
      /\ \A e \in Builders : e # b => build'[e] = build[e]
  BY <1>1, OverRecords
<1>3. ReadsAgain(b)' <=> ReadsAgain(b)
  BY <1>1, <1>2 DEF ReadsAgain
<1>4. ~NobodyBuilds /\ \A m : Serves(m)' <=> Serves(m)
  BY <1>1 DEF NobodyBuilds, Serves
<1>5. ASSUME Announced
      PROVE  /\ UpToDate(b)'
             /\ \A m \in declared : Serves(m) \/ NobodyBuilds \/ WillStore(b, m) => Serves(m)' \/ WillStore(b, m)'
             /\ declared = {} /\ edition[Faces] > 0 =>
                    (ServesFull \/ NobodyBuilds \/ WillStoreFull(b) => ServesFull' \/ WillStoreFull(b)')
  <2>1. CASE ReadsAgain(b)
    BY <1>3, <2>1 DEF UpToDate, WillStore, WillStoreFull
  <2>2. CASE ~ReadsAgain(b)
    <3>1. UpToDate(b)'
      BY <1>1, <1>2 DEF UpToDate
    <3>2. \A m \in declared : ~WillStore(b, m)
      BY <1>1, <2>2 DEF WillStore
    <3>3. declared = {} => ServesFull'
      BY <1>1, <1>5, <2>2 DEF AssetInv, Covered, UpToDate, ServesFull
    <3> QED BY <1>4, <3>1, <3>2, <3>3
  <2> QED BY <2>1, <2>2
<1>6. Announced' => Announced
  BY <1>1 DEF Announced
<1>7. bundle' \in [Manifests -> Nat] /\ unhandled' \in [Builders -> Nat]
  BY <1>1 DEF AssetShapes
<1> QED BY <1>1, <1>2, <1>5, <1>6, <1>7, BuilderStep

LEMMA StartBuilderKeeps == ASSUME AssetInv, NEW b \in Builders, StartBuilder(b) PROVE AssetInv'
<1>1. /\ AssetShapes
      /\ UNCHANGED <<listed, declared, edition, draft, unheard, bundle, full, unhandled, due>>
      /\ build' = [build EXCEPT ![b] = At("sites", "subscribe")]
  BY DEF AssetInv, StartBuilder
<1>2. /\ build' \in [Builders -> BuildRecord] /\ build'[b].then = "subscribe" /\ build'[b].stage = "sites"
      /\ \A e \in Builders : e # b => build'[e] = build[e]
  BY <1>1, FreshRecords DEF Stages
<1>3. ReadsAgain(b)'
  BY <1>2 DEF ReadsAgain
<1>4. UpToDate(b)' /\ WillStoreFull(b)' /\ \A m : WillStore(b, m)'
  BY <1>3 DEF UpToDate, WillStore, WillStoreFull
<1>5. Announced' => Announced
  BY <1>1 DEF Announced
<1>6. bundle' \in [Manifests -> Nat] /\ unhandled' \in [Builders -> Nat]
  BY <1>1 DEF AssetShapes
<1> QED BY <1>1, <1>2, <1>4, <1>5, <1>6, BuilderStep

LEMMA SubscribeKeeps == ASSUME AssetInv, NEW b \in Builders, Subscribe(b) PROVE AssetInv'
<1>1. /\ AssetShapes
      /\ UNCHANGED <<listed, declared, edition, draft, unheard, bundle, full, unhandled>>
      /\ build' = [build EXCEPT ![b] = At("loop", "loop")] /\ due' = due \cup {b}
  BY DEF AssetInv, Subscribe, FirstTick
<1>2. /\ build' \in [Builders -> BuildRecord] /\ build'[b].then = "loop" /\ build'[b].stage = "loop"
      /\ \A e \in Builders : e # b => build'[e] = build[e]
  BY <1>1, FreshRecords DEF Stages
<1>3. ReadsAgain(b)'
  BY <1>1 DEF ReadsAgain
<1>4. UpToDate(b)' /\ WillStoreFull(b)' /\ \A m : WillStore(b, m)'
  BY <1>3 DEF UpToDate, WillStore, WillStoreFull
<1>5. Announced' => Announced
  BY <1>1 DEF Announced
<1>6. bundle' \in [Manifests -> Nat] /\ unhandled' \in [Builders -> Nat]
  BY <1>1 DEF AssetShapes
<1> QED BY <1>1, <1>2, <1>4, <1>5, <1>6, BuilderStep

\* The timer or an announcement: from here on everything is read.
LEMMA RebuildsKeep == ASSUME AssetInv, NEW b \in Builders, Ticks(b) \/ Hears(b) PROVE AssetInv'
<1>1. /\ AssetShapes /\ AssetOrder /\ Advances(b, "sites") /\ build[b].stage = "loop"
      /\ UNCHANGED <<listed, declared, edition, draft, unheard, bundle, full>>
  BY DEF AssetInv, Ticks, Hears
<1>2. /\ build' \in [Builders -> BuildRecord] /\ build'[b].then = "loop" /\ build'[b].stage = "sites"
      /\ \A e \in Builders : e # b => build'[e] = build[e]
  BY <1>1, Records DEF Stages, AssetOrder
<1>3. /\ unhandled' \in [Builders -> Nat]
      /\ \A e \in Builders : e # b => unhandled'[e] = unhandled[e] /\ (e \in due' <=> e \in due)
  BY <1>1 DEF Ticks, Hears, AssetShapes
<1>4. UpToDate(b)' /\ WillStoreFull(b)' /\ \A m : WillStore(b, m)'
  BY <1>2 DEF UpToDate, WillStore, WillStoreFull
<1>5. Announced' => Announced
  BY <1>1 DEF Announced
<1>6. bundle' \in [Manifests -> Nat]
  BY <1>1 DEF AssetShapes
<1> QED BY <1>1, <1>2, <1>3, <1>4, <1>5, <1>6, BuilderStep

\* A builder that stops has nothing to store, or what it leaves is known as unheard.
LEMMA StopsKeep == ASSUME AssetInv, NEW b \in Builders, BuilderEnds(b) \/ BuilderCrashes(b) PROVE AssetInv'
<1>1. /\ AssetShapes /\ AssetOrder /\ build' = [build EXCEPT ![b] = At("down", "down")]
      /\ build[b].stage # "down"
      /\ UNCHANGED <<listed, declared, edition, draft, bundle, full>>
  BY DEF AssetInv, BuilderEnds, BuilderCrashes
<1>2. /\ build' \in [Builders -> BuildRecord] /\ build'[b].then = "down" /\ build'[b].stage = "down"
      /\ \A e \in Builders : e # b => build'[e] = build[e]
  BY <1>1, FreshRecords DEF Stages
<1>3. /\ unhandled' \in [Builders -> Nat]
      /\ \A e \in Builders : e # b => unhandled'[e] = unhandled[e] /\ (e \in due' <=> e \in due)
  BY <1>1 DEF BuilderEnds, BuilderCrashes, AssetShapes
<1>4. UpToDate(b)'
  BY <1>2 DEF UpToDate
<1>5. ASSUME Announced'
      PROVE  /\ Announced /\ ~NobodyBuilds /\ ~WillStoreFull(b) /\ \A m : ~WillStore(b, m)
             /\ \A m : Serves(m)' <=> Serves(m)
             /\ ServesFull' <=> ServesFull
  <2>1. ~unheard' /\ ~unheard /\ ~draft
    BY <1>1, <1>5 DEF Announced, BuilderEnds, BuilderCrashes
  <2>2. b \notin due /\ unhandled[b] = 0 /\ build[b].stage = "loop"
    BY <1>1, <2>1 DEF BuilderEnds, BuilderCrashes, Resting
  <2>3. build[b].then = "loop"
    BY <1>1, <2>2 DEF AssetOrder
  <2>4. ~ReadsAgain(b)
    BY <2>2, <2>3 DEF ReadsAgain
  <2>5. ~WillStoreFull(b) /\ \A m : ~WillStore(b, m)
    BY <2>2, <2>4 DEF WillStore, WillStoreFull
  <2> QED BY <1>1, <2>1, <2>5 DEF Announced, NobodyBuilds, Serves, ServesFull
<1>6. bundle' \in [Manifests -> Nat]
  BY <1>1 DEF AssetShapes
<1>7. Announced' => Announced
  BY <1>5
<1>8. Announced /\ Announced' =>
         /\ UpToDate(b)'
         /\ \A m \in declared : Serves(m) \/ NobodyBuilds \/ WillStore(b, m) => Serves(m)' \/ WillStore(b, m)'
         /\ declared = {} /\ edition[Faces] > 0 =>
                (ServesFull \/ NobodyBuilds \/ WillStoreFull(b) => ServesFull' \/ WillStoreFull(b)')
  BY <1>4, <1>5
<1> QED BY <1>1, <1>2, <1>3, <1>6, <1>7, <1>8, BuilderStep

LEMMA CallFailsKeeps == ASSUME AssetInv, NEW b \in Builders, CallFails(b) PROVE AssetInv'
<1>1. /\ AssetShapes /\ AssetOrder /\ build[b] \in BuildRecord /\ unheard'
      /\ build[b].stage # "down" => build[b].then \in {"loop", "subscribe"}
      /\ UNCHANGED <<listed, declared, edition, draft, bundle, full, unhandled, due>>
  BY RecordOf DEF CallFails
<1>2. build[b].stage \in {"sites", "mapping", "full", "manifests", "next", "store"}
  BY DEF CallFails
<1>3. /\ build' \in [Builders -> BuildRecord] /\ build'[b].then = build[b].then
      /\ build'[b].stage \in {build[b].then, "next", "mapping"}
      /\ \A e \in Builders : e # b => build'[e] = build[e]
  <2>1. CASE Over(b)
    BY <1>1, <2>1, OverRecords
  <2>2. CASE Plan(b, {})
    BY <1>1, <2>2, PlanRecords
  <2>3. CASE Advances(b, "next")
    BY <1>1, <2>3, Records DEF Stages
  <2>4. ASSUME NEW m \in build[b].todo, build[b].stage = "next", build' = [build EXCEPT ![b].todo = @ \ {m}]
        PROVE  /\ build' \in [Builders -> BuildRecord] /\ build'[b].then = build[b].then
               /\ build'[b].stage = "next"
               /\ \A e \in Builders : e # b => build'[e] = build[e]
    BY <1>1, <2>4 DEF AssetShapes, BuildRecord
  <2> QED BY <2>1, <2>2, <2>3, <2>4 DEF CallFails
<1>4. ~Announced'
  BY <1>1 DEF Announced
<1>5. bundle' \in [Manifests -> Nat] /\ unhandled' \in [Builders -> Nat]
  BY <1>1 DEF AssetShapes
<1>6. build'[b].stage # "down" /\ build'[b].then # "down"
  BY <1>1, <1>2, <1>3
<1> QED BY <1>1, <1>2, <1>3, <1>4, <1>5, <1>6, BuilderStep

-----------------------------------------------------------------------------
(* What the CMS and the time do. *)

LEMMA EditKeeps == ASSUME AssetInv, NEW s \in Sources, Edit(s) PROVE AssetInv'
<1>1. /\ AssetShapes /\ AssetOrder /\ draft'
      /\ edition' = [edition EXCEPT ![s] = @ + 1]
      /\ declared' \in IF s = Faces THEN {declared} ELSE {declared \cup {s}, declared \ {s}}
      /\ UNCHANGED <<bundle, unhandled, build>>
  BY DEF AssetInv, Edit
<1>2. edition' \in [Sources -> Nat] /\ \A x \in Sources : edition[x] > 0 \/ x = s => edition'[x] > 0
  BY <1>1 DEF AssetShapes
<1>3. declared' \subseteq Manifests /\ \A m \in declared' : m \in declared \/ m = s
  BY <1>1 DEF AssetShapes, Sources
<1>4. AssetShapes'
  BY <1>1, <1>2, <1>3 DEF AssetShapes
<1>5. AssetOrder'
  <2>1. \A m \in declared' : edition'[m] > 0
    BY <1>1, <1>2, <1>3 DEF AssetOrder, Sources
  <2> QED BY <1>1, <2>1 DEF AssetOrder
<1> QED BY <1>1, <1>4, <1>5 DEF AssetInv, Announced

LEMMA RegisterSiteKeeps == AssetInv /\ RegisterSite => AssetInv'
<1> SUFFICES ASSUME AssetInv, RegisterSite PROVE AssetInv'
  OBVIOUS
<1>1. UNCHANGED <<declared, edition, draft, bundle, full, build, unhandled, due, unheard>> /\ listed'
  BY DEF RegisterSite
<1>2. AssetShapes' /\ AssetOrder'
  BY <1>1 DEF AssetInv, AssetShapes, AssetOrder
<1>3. Covered => Covered'
  BY <1>1 DEF Covered, UpToDate, ReadsAgain, Serves, ServesFull, NobodyBuilds, WillStore, WillStoreFull
<1>4. Announced' => Announced
  BY <1>1 DEF Announced
<1> QED BY <1>2, <1>3, <1>4 DEF AssetInv

\* Everyone that works reads once more, or nobody works.
LEMMA AnnounceEditKeeps == AssetInv /\ AnnounceEdit => AssetInv'
<1> SUFFICES ASSUME AssetInv, AnnounceEdit PROVE AssetInv'
  OBVIOUS
<1>1. /\ AssetShapes /\ AssetOrder
      /\ unhandled' = [b \in Builders |-> IF ear[b] = "open" THEN unhandled[b] + 1 ELSE unhandled[b]]
      /\ unheard' = (~listed \/ \E b \in Builders : build[b].then = "loop" /\ b \notin due /\ ear[b] # "open")
      /\ UNCHANGED <<listed, declared, edition, bundle, full, build, due>>
  BY DEF AssetInv, AnnounceEdit
<1>2. AssetShapes'
  <2>1. unhandled' \in [Builders -> Nat]
    BY <1>1 DEF AssetShapes
  <2> QED BY <1>1, <2>1 DEF AssetShapes
<1>3. AssetOrder'
  BY <1>1 DEF AssetOrder
<1>4. ASSUME ~unheard' PROVE Covered'
  <2>1. listed /\ \A b \in Builders : build[b].then = "loop" /\ b \notin due => ear[b] = "open"
    BY <1>1, <1>4
  <2>2. ASSUME NEW b \in Builders PROVE build'[b].stage = "down" \/ ReadsAgain(b)'
    <3>1. CASE build[b].then = "loop" /\ b \notin due
      <4>1. unhandled'[b] = unhandled[b] + 1 /\ unhandled[b] \in Nat
        BY <1>1, <2>1, <3>1 DEF AssetShapes
      <4> QED BY <4>1 DEF ReadsAgain
    <3>2. CASE build[b].then = "subscribe" \/ b \in due
      BY <1>1, <3>2 DEF ReadsAgain
    <3>3. CASE build[b].then = "down"
      BY <1>1, <3>3 DEF AssetOrder
    <3> QED BY <1>1, <3>1, <3>2, <3>3 DEF AssetShapes, BuildRecord
  <2>3. \A b \in Builders : UpToDate(b)'
    BY <2>2 DEF UpToDate
  <2>4. NobodyBuilds' \/ \E b \in Builders : WillStoreFull(b)' /\ \A m : WillStore(b, m)'
    BY <2>2 DEF NobodyBuilds, WillStore, WillStoreFull
  <2> QED BY <1>1, <2>1, <2>3, <2>4 DEF Covered
<1> QED BY <1>2, <1>3, <1>4 DEF AssetInv, Announced

LEMMA ExpiresKeeps == AssetInv /\ Expires => AssetInv'
<1> SUFFICES ASSUME AssetInv, Expires PROVE AssetInv'
  OBVIOUS
<1>1. UNCHANGED <<listed, declared, edition, draft, build, unhandled, due, unheard>>
  BY DEF Expires
<1>2. /\ bundle' \in [Manifests -> Nat]
      /\ \A m \in Manifests : bundle'[m] = bundle[m] \/ bundle'[m] = 0
      /\ full' = full \/ full' = NoBundle
  BY DEF Expires, AssetInv, AssetShapes
<1>3. AssetShapes' /\ AssetOrder'
  BY <1>1, <1>2 DEF AssetInv, AssetShapes, AssetOrder
<1>4. \A m \in declared : Serves(m) => Serves(m)'
  BY <1>1, <1>2 DEF AssetInv, AssetShapes, Serves
<1>5. ServesFull => ServesFull'
  BY <1>1, <1>2 DEF ServesFull
<1>6. /\ \A b \in Builders : UpToDate(b) => UpToDate(b)'
      /\ \A b \in Builders, m \in declared : WillStore(b, m) => WillStore(b, m)'
      /\ \A b \in Builders : WillStoreFull(b) => WillStoreFull(b)'
      /\ NobodyBuilds => NobodyBuilds'
  BY <1>1 DEF UpToDate, ReadsAgain, WillStore, WillStoreFull, NobodyBuilds
<1>7. Covered => Covered'
  BY <1>1, <1>4, <1>5, <1>6 DEF Covered, NothingToBuild
<1>8. Announced' => Announced
  BY <1>1 DEF Announced
<1> QED BY <1>3, <1>7, <1>8 DEF AssetInv

LEMMA SameBuilds ==
    ASSUME AssetInv, UNCHANGED <<listed, declared, edition, draft, bundle, full, build, unhandled, due, unheard>>
    PROVE  AssetInv'
BY DEF AssetInv, AssetShapes, AssetOrder, Announced, Covered, NothingToBuild, UpToDate, ReadsAgain, Serves,
       ServesFull, NobodyBuilds, WillStore, WillStoreFull

LEMMA AssetInvStep == AssetInv /\ [AssetNext]_assetVars => AssetInv'
<1> SUFFICES ASSUME AssetInv, [AssetNext]_assetVars PROVE AssetInv'
  OBVIOUS
<1>1. CASE UNCHANGED assetVars
  BY <1>1, SameBuilds DEF assetVars
<1>2. CASE \E s \in Sources : Edit(s)
  BY <1>2, EditKeeps
<1>3. CASE RegisterSite \/ AnnounceEdit \/ Expires
  BY <1>3, RegisterSiteKeeps, AnnounceEditKeeps, ExpiresKeeps
<1>4. ASSUME NEW b \in Builders, StartBuilder(b) \/ Subscribe(b) \/ Ticks(b) \/ Hears(b) PROVE AssetInv'
  BY <1>4, StartBuilderKeeps, SubscribeKeeps, RebuildsKeep
<1>5. ASSUME NEW b \in Builders, BuilderEnds(b) \/ BuilderCrashes(b) \/ CallFails(b) PROVE AssetInv'
  BY <1>5, StopsKeep, CallFailsKeeps
<1>6. ASSUME NEW b \in Builders, ReadSites(b) \/ ReadManifests(b) \/ ReadMain(b) \/ ReadMapping(b) PROVE AssetInv'
  BY <1>6, ReadSitesKeeps, ReadManifestsKeeps, ReadMainKeeps, ReadMappingKeeps
<1>7. ASSUME NEW b \in Builders, StoreBundle(b) \/ StoreFull(b) PROVE AssetInv'
  BY <1>7, StoreBundleKeeps, StoreFullKeeps
<1>8. ASSUME NEW b \in Builders, NEW m \in Manifests, ReadManifest(b, m) PROVE AssetInv'
  BY <1>8, ReadManifestKeeps
<1>9. ASSUME NEW b \in Builders, ChannelCloses(b) PROVE AssetInv'
  BY <1>9, SameBuilds DEF ChannelCloses
<1> QED BY <1>1, <1>2, <1>3, <1>4, <1>5, <1>6, <1>7, <1>8, <1>9 DEF AssetNext

LEMMA RestedBuildersServed == AssetInv => AnnouncedIsServed
<1> SUFFICES ASSUME AssetInv, ~draft, ~unheard, \A b \in Builders : Resting(b),
                    \E b \in Builders : build[b].stage = "loop"
             PROVE  /\ \A m \in declared : Serves(m)
                    /\ declared = {} /\ edition[Faces] > 0 => ServesFull
  BY DEF AnnouncedIsServed, Serves, ServesFull
<1>1. Covered /\ ~NobodyBuilds
  BY DEF AssetInv, Announced, NobodyBuilds
<1>2. ASSUME NEW b \in Builders PROVE ~WillStoreFull(b) /\ \A m : ~WillStore(b, m)
  <2>1. build[b].stage \in {"down", "loop"} /\ b \notin due /\ unhandled[b] = 0
    BY DEF Resting
  <2>2. build[b].then # "subscribe"
    BY <2>1 DEF AssetInv, AssetOrder
  <2>3. ~ReadsAgain(b)
    BY <2>1, <2>2 DEF ReadsAgain
  <2> QED BY <2>1, <2>3 DEF WillStore, WillStoreFull
<1> QED BY <1>1, <1>2 DEF Covered

(* Whatever number of daemons build the bundles of a site, and whichever   *)
(* stores last: when the last edit was announced, was heard by all that    *)
(* work, and all are at rest, every bundle is of that edit or has expired. *)
THEOREM AnnouncedIsStored == AssetSpec => []AnnouncedIsServed
<1>1. AssetSpec => []AssetInv
  BY AssetInvInit, AssetInvStep, PTL DEF AssetSpec
<1> QED BY <1>1, RestedBuildersServed, PTL

-----------------------------------------------------------------------------
(* TemplateGraph.  The engine holds more than the graph knows only while    *)
(* somebody registers it; what the graph knows has no circle, and a purge   *)
(* has the engine free of what it was due to take out and already has.      *)

Calls ==
    [at : {"idle", "store", "link", "load", "delete", "purge"}, id : Ids \cup {Missing},
     template : Templates \cup {Missing}, rest : SUBSET Ids, due : SUBSET Ids]

TemplateShapes ==
    /\ {tera, kept, deps} \subseteq [Ids -> Templates \cup {Missing}]
    /\ call \in [Threads -> Calls]
    /\ \A t \in Threads : call[t].at # "idle" => call[t].id \in Ids
    /\ \A t \in Threads : call[t].at \in {"store", "link", "load"} => call[t].template \in Templates
    /\ loose \subseteq Ids

\* Who registers an id alone finds its template in the engine, or nothing.
RegistersAlone ==
    \A t \in Threads : Registering(t) /\ call[t].id \notin loose =>
        /\ tera[call[t].id] \in {Missing, call[t].template}
        /\ \A u \in Threads \ {t} : ~(Registering(u) /\ call[u].id = call[t].id)

\* The graph knows every template of the engine that is registered for good.
EngineInGraph == \A i \in WellKept : tera[i] # Missing => deps[i] = tera[i]

NoCircle == \A i \in Ids : deps[i] # Missing => i \notin Reached(deps, deps[i])

PurgesInOrder ==
    \A t \in Threads : call[t].at = "purge" => \A i \in call[t].due \ call[t].rest : tera[i] = Missing

TemplateInv == TemplateShapes /\ RegistersAlone /\ EngineInGraph /\ NoCircle /\ PurgesInOrder

\* What is reached: what one starts from, what that includes, and no more than any set that has both.
LEMMA ReachedIsClosed ==
    ASSUME NEW graph, NEW from \in SUBSET Ids, \A i \in Ids : graph[i] \in Templates \cup {Missing}
    PROVE  /\ Reached(graph, from) \subseteq Ids /\ from \subseteq Reached(graph, from)
           /\ Closed(graph, Reached(graph, from))
<1>1. Reached(graph, from) \subseteq Ids /\ from \subseteq Reached(graph, from)
  BY DEF Reached
<1>2. ASSUME NEW i \in Reached(graph, from), graph[i] # Missing, NEW j \in graph[i]
      PROVE  j \in Reached(graph, from)
  <2>1. j \in Ids
    BY <1>1, <1>2 DEF Templates
  <2>2. ASSUME NEW ids \in SUBSET Ids, from \subseteq ids, Closed(graph, ids) PROVE j \in ids
    <3>1. i \in ids
      BY <2>2 DEF Reached
    <3> QED BY <1>2, <2>2, <3>1 DEF Closed
  <2> QED BY <2>1, <2>2 DEF Reached
<1> QED BY <1>1, <1>2 DEF Closed

LEMMA ReachedIsLeast ==
    ASSUME NEW graph, NEW from, NEW ids \in SUBSET Ids, from \subseteq ids, Closed(graph, ids)
    PROVE  Reached(graph, from) \subseteq ids
BY DEF Reached

\* A graph with fewer includes reaches no more.
LEMMA ReachedInMore ==
    ASSUME NEW more, NEW from \in SUBSET Ids, NEW fewer, \A i \in Ids : more[i] \in Templates \cup {Missing},
           \A i \in Ids : fewer[i] # Missing => fewer[i] = more[i]
    PROVE  Reached(fewer, from) \subseteq Reached(more, from)
<1> DEFINE R == Reached(more, from)
<1>1. R \in SUBSET Ids /\ from \subseteq R /\ Closed(more, R)
  BY ReachedIsClosed
<1> HIDE DEF R
<1>2. Closed(fewer, R)
  BY <1>1 DEF Closed
<1>3. Reached(fewer, from) \subseteq R
  BY <1>1, <1>2, ReachedIsLeast
<1> QED BY <1>3 DEF R

\* A template that does not reach itself closes no circle, whatever its id included before.
LEMMA LinkClosesNoCircle ==
    ASSUME NEW graph, NEW next, NEW id \in Ids, NEW template \in Templates,
           \A i \in Ids : graph[i] \in Templates \cup {Missing},
           \A i \in Ids : graph[i] # Missing => i \notin Reached(graph, graph[i]),
           id \notin Reached(graph, template),
           next[id] = template, \A i \in Ids : i # id => next[i] = graph[i]
    PROVE  \A i \in Ids : next[i] # Missing => i \notin Reached(next, next[i])
<1> DEFINE R == Reached(graph, template)
<1>r. R \in SUBSET Ids /\ template \subseteq R /\ Closed(graph, R) /\ id \notin R
  BY ReachedIsClosed DEF Templates
<1> HIDE DEF R
<1>1. Closed(next, R)
  BY <1>r DEF Closed
<1>2. id \notin Reached(next, next[id])
  <2>1. Reached(next, template) \subseteq R
    BY <1>r, <1>1, ReachedIsLeast
  <2> QED BY <1>r, <2>1
<1>3. ASSUME NEW i \in Ids, i # id, graph[i] # Missing PROVE i \notin Reached(next, graph[i])
  <2> DEFINE X == Reached(graph, graph[i])
  <2>x. X \in SUBSET Ids /\ graph[i] \subseteq X /\ Closed(graph, X) /\ i \notin X
    BY <1>3, ReachedIsClosed DEF Templates
  <2> HIDE DEF X
  <2>1. CASE i \in R
    <3>1. graph[i] \subseteq R
      BY <1>r, <1>3, <2>1 DEF Closed
    <3>2. X \cap R \in SUBSET Ids /\ graph[i] \subseteq X \cap R
      BY <1>r, <2>x, <3>1
    <3>3. Closed(next, X \cap R)
      BY <1>r, <2>x DEF Closed
    <3>4. Reached(next, graph[i]) \subseteq X \cap R
      BY <3>2, <3>3, ReachedIsLeast
    <3> QED BY <2>x, <3>4
  <2>2. CASE i \notin R
    <3>1. X \cup R \in SUBSET Ids /\ graph[i] \subseteq X \cup R
      BY <1>r, <2>x
    <3>2. Closed(next, X \cup R)
      BY <1>r, <2>x DEF Closed
    <3>3. Reached(next, graph[i]) \subseteq X \cup R
      BY <3>1, <3>2, ReachedIsLeast
    <3> QED BY <2>x, <2>2, <3>3
  <2> QED BY <2>1, <2>2
<1> QED BY <1>2, <1>3

-----------------------------------------------------------------------------
(* The steps of a thread.                                                  *)

LEMMA NoCallIsACall == NoCall \in Calls
BY DEF NoCall, Calls

LEMMA TemplateInvInit == TemplateInit => TemplateInv
<1> SUFFICES ASSUME TemplateInit PROVE TemplateInv
  OBVIOUS
<1>1. TemplateShapes
  BY NoCallIsACall DEF TemplateInit, TemplateShapes, NoCall
<1>2. \A t \in Threads : call[t].at = "idle"
  BY DEF TemplateInit, NoCall
<1>3. \A i \in Ids : tera[i] = Missing /\ deps[i] = Missing
  BY DEF TemplateInit
<1>4. RegistersAlone /\ EngineInGraph /\ NoCircle /\ PurgesInOrder
  BY <1>2, <1>3 DEF RegistersAlone, Registering, EngineInGraph, WellKept, NoCircle, PurgesInOrder
<1> QED BY <1>1, <1>4 DEF TemplateInv

LEMMA OutOfTheEngine ==
    ASSUME TemplateInv, UNCHANGED <<deps>>, loose \subseteq loose', TemplateShapes',
           \A i \in Ids : tera'[i] \in {Missing, tera[i]},
           \A t \in Threads : (Registering(t) <=> Registering(t)') \/ (Registering(t) /\ call[t].id \in loose'),
           \A t \in Threads : Registering(t)' => call'[t].id = call[t].id /\ call'[t].template = call[t].template,
           \A t \in Threads : call'[t].at = "purge" =>
               \A i \in call'[t].due \ call'[t].rest :
                   tera'[i] = Missing \/ (call[t].at = "purge" /\ i \in call[t].due \ call[t].rest)
    PROVE  TemplateInv'
<1>1. WellKept' \subseteq WellKept
  BY DEF WellKept
<1>2. RegistersAlone'
  BY DEF TemplateInv, TemplateShapes, RegistersAlone, Registering
<1>3. EngineInGraph'
  BY <1>1 DEF TemplateInv, EngineInGraph, WellKept
<1>4. NoCircle'
  BY DEF TemplateInv, NoCircle
<1>5. PurgesInOrder'
  <2> SUFFICES ASSUME NEW t \in Threads, call'[t].at = "purge", NEW i \in call'[t].due \ call'[t].rest
               PROVE  tera'[i] = Missing
    BY DEF PurgesInOrder
  <2>1. i \in Ids
    BY DEF TemplateShapes, Calls
  <2>2. CASE call[t].at = "purge" /\ i \in call[t].due \ call[t].rest
    BY <2>1, <2>2 DEF TemplateInv, PurgesInOrder
  <2> QED BY <2>2
<1> QED BY <1>2, <1>3, <1>4, <1>5 DEF TemplateInv

\* A template in the engine is its thread's alone until the graph knows it, or it is known as loose.
LEMMA EntersKeeps ==
    ASSUME TemplateInv, NEW t \in Threads, NEW id \in Ids, NEW template \in Templates, ~Registering(t),
           Enters(t, id, template)
    PROVE  TemplateInv'
<1> USE DEF TemplateInv
<1>1. /\ tera' = [tera EXCEPT ![id] = template]
      /\ UNCHANGED <<kept, deps>>
      /\ loose' = IF \E u \in Threads \ {t} : Registering(u) /\ call[u].id = id THEN loose \cup {id} ELSE loose
  BY DEF Enters
<1>2. /\ call' \in [Threads -> Calls]
      /\ call'[t].at = "store" /\ call'[t].id = id /\ call'[t].template = template
      /\ \A u \in Threads \ {t} : /\ call'[u].at = call[u].at /\ call'[u].id = call[u].id
                                  /\ call'[u].template = call[u].template
                                  /\ call'[u].rest = call[u].rest /\ call'[u].due = call[u].due \ {id}
  <2> DEFINE new == [NoCall EXCEPT !.at = "store", !.id = id, !.template = template]
             less(u) == [call[u] EXCEPT !.due = @ \ {id}]
  <2>1. new \in Calls /\ new.at = "store" /\ new.id = id /\ new.template = template
    BY DEF NoCall, Calls
  <2>2. ASSUME NEW u \in Threads
        PROVE  /\ less(u) \in Calls /\ less(u).at = call[u].at /\ less(u).id = call[u].id
               /\ less(u).template = call[u].template
               /\ less(u).rest = call[u].rest /\ less(u).due = call[u].due \ {id}
    BY DEF TemplateShapes, Calls
  <2>3. call' = [u \in Threads |-> IF u = t THEN new ELSE less(u)]
    BY DEF Enters
  <2> HIDE DEF new, less
  <2>4. \A u \in Threads : (IF u = t THEN new ELSE less(u)) \in Calls
    BY <2>1, <2>2
  <2>5. call' \in [Threads -> Calls]
    BY <2>3, <2>4
  <2>6. call'[t] = new /\ \A u \in Threads \ {t} : call'[u] = less(u)
    BY <2>3
  <2> QED BY <2>1, <2>2, <2>5, <2>6
<1>3. TemplateShapes'
  <2>1. tera' \in [Ids -> Templates \cup {Missing}] /\ loose' \subseteq Ids
    BY <1>1 DEF TemplateShapes
  <2>2. \A u \in Threads : call'[u].at # "idle" => call'[u].id \in Ids
    BY <1>2 DEF TemplateShapes
  <2>3. \A u \in Threads : call'[u].at \in {"store", "link", "load"} => call'[u].template \in Templates
    BY <1>2 DEF TemplateShapes
  <2> QED BY <1>1, <1>2, <2>1, <2>2, <2>3 DEF TemplateShapes
<1>4. /\ Registering(t)' /\ loose \subseteq loose'
      /\ \A u \in Threads \ {t} : Registering(u)' <=> Registering(u)
  BY <1>1, <1>2 DEF Registering
<1>5. /\ \A i \in Ids : i # id => tera'[i] = tera[i]
      /\ tera'[id] = template
  BY <1>1 DEF TemplateShapes
<1>6. RegistersAlone'
  <2> SUFFICES ASSUME NEW u \in Threads, Registering(u)', call'[u].id \notin loose'
               PROVE  /\ tera'[call'[u].id] \in {Missing, call'[u].template}
                      /\ \A v \in Threads \ {u} : ~(Registering(v)' /\ call'[v].id = call'[u].id)
    BY DEF RegistersAlone
  <2>1. CASE u = t
    BY <1>1, <1>2, <1>4, <1>5, <2>1
  <2>2. CASE u # t
    <3>1. call'[u].id = call[u].id /\ call[u].id # id
      BY <1>1, <1>2, <1>4, <2>2
    <3>2. call[u].id \in Ids /\ call[u].id \notin loose
      BY <1>4, <2>2, <3>1 DEF TemplateShapes, Registering
    <3>3. /\ tera[call[u].id] \in {Missing, call[u].template}
          /\ \A v \in Threads \ {u} : ~(Registering(v) /\ call[v].id = call[u].id)
      BY <1>4, <2>2, <3>2 DEF RegistersAlone
    <3> QED BY <1>2, <1>4, <1>5, <2>2, <3>1, <3>2, <3>3
  <2> QED BY <2>1, <2>2
<1>7. EngineInGraph'
  <2>1. WellKept' \subseteq WellKept \ {id}
    BY <1>2, <1>4 DEF WellKept
  <2> QED BY <1>1, <1>5, <2>1 DEF EngineInGraph, WellKept
<1>8. NoCircle'
  BY <1>1 DEF NoCircle
<1>9. PurgesInOrder'
  <2> SUFFICES ASSUME NEW u \in Threads, call'[u].at = "purge", NEW i \in call'[u].due \ call'[u].rest
               PROVE  tera'[i] = Missing
    BY DEF PurgesInOrder
  <2>1. u # t
    BY <1>2
  <2>2. i # id /\ i \in call[u].due \ call[u].rest /\ call[u].at = "purge"
    BY <1>2, <2>1
  <2>3. i \in Ids
    BY <2>2 DEF TemplateShapes, Calls
  <2> QED BY <1>5, <2>2, <2>3 DEF PurgesInOrder
<1> QED BY <1>3, <1>6, <1>7, <1>8, <1>9

\* The record of one thread is another.
LEMMA OneCall ==
    ASSUME TemplateShapes, NEW t \in Threads, NEW r \in Calls, call' = [call EXCEPT ![t] = r],
           {tera', kept', deps'} \subseteq [Ids -> Templates \cup {Missing}], loose' \subseteq Ids,
           r.at # "idle" => r.id \in Ids,
           r.at \in {"store", "link", "load"} => r.template \in Templates
    PROVE  TemplateShapes' /\ call'[t] = r /\ \A u \in Threads : u # t => call'[u] = call[u]
BY DEF TemplateShapes

LEMMA StoresKeep == ASSUME TemplateInv, NEW t \in Threads, StoreTemplate(t) \/ StoreLapses(t) PROVE TemplateInv'
<1> USE DEF TemplateInv
<1>1. /\ call[t].at = "store" /\ call[t].id \in Ids /\ call[t].template \in Templates /\ call[t] \in Calls
      /\ UNCHANGED <<tera, deps>>
  BY DEF StoreTemplate, StoreLapses, TemplateShapes
<1>2. PICK r \in Calls : /\ call' = [call EXCEPT ![t] = r]
                         /\ \/ r.at = "link" /\ r.id = call[t].id /\ r.template = call[t].template
                               /\ loose' = loose
                            \/ r.at = "idle" /\ loose' = loose \cup {call[t].id}
  <2>1. CASE StoreTemplate(t)
    <3> DEFINE r == [call[t] EXCEPT !.at = "link"]
    <3>1. r \in Calls /\ r.at = "link" /\ r.id = call[t].id /\ r.template = call[t].template
      BY <1>1 DEF Calls
    <3>2. call' = [call EXCEPT ![t] = r] /\ loose' = loose
      BY <2>1 DEF StoreTemplate
    <3> QED BY <3>1, <3>2
  <2>2. CASE StoreLapses(t)
    BY <2>2, NoCallIsACall DEF StoreLapses, NoCall
  <2> QED BY <2>1, <2>2
<1>3. {tera', kept', deps'} \subseteq [Ids -> Templates \cup {Missing}] /\ loose' \subseteq Ids
  BY <1>1, <1>2 DEF StoreTemplate, StoreLapses, TemplateShapes
<1>4. r.at # "idle" => r.id \in Ids /\ r.template \in Templates
  BY <1>1, <1>2
<1>5. TemplateShapes' /\ call'[t] = r /\ \A u \in Threads : u # t => call'[u] = call[u]
  BY <1>2, <1>3, <1>4, OneCall
<1>6. \A u \in Threads : (Registering(u) <=> Registering(u)') \/ (Registering(u) /\ call[u].id \in loose')
  BY <1>1, <1>2, <1>5 DEF Registering
<1>7. \A u \in Threads : Registering(u)' => call'[u].id = call[u].id /\ call'[u].template = call[u].template
  BY <1>1, <1>2, <1>5 DEF Registering
<1>8. \A u \in Threads : call'[u].at = "purge" =>
          \A i \in call'[u].due \ call'[u].rest :
              tera'[i] = Missing \/ (call[u].at = "purge" /\ i \in call[u].due \ call[u].rest)
  BY <1>2, <1>5
<1>9. loose \subseteq loose' /\ \A i \in Ids : tera'[i] \in {Missing, tera[i]}
  BY <1>1, <1>2
<1> QED BY <1>1, <1>5, <1>6, <1>7, <1>8, <1>9, OutOfTheEngine

\* The graph takes what closes no circle; what closes one leaves the engine.
LEMMA LinkKeeps == ASSUME TemplateInv, NEW t \in Threads, LinkTemplate(t) PROVE TemplateInv'
<1> USE DEF TemplateInv
<1>1. PICK id \in Ids : id = call[t].id
  BY DEF LinkTemplate, TemplateShapes
<1>2. PICK template \in Templates : template = call[t].template
  BY DEF LinkTemplate, TemplateShapes
<1>3. /\ call[t].at = "link" /\ UNCHANGED <<kept, loose>> /\ call' = [call EXCEPT ![t] = NoCall]
      /\ Registering(t) /\ Link(id, template)
  BY <1>1, <1>2 DEF LinkTemplate, Registering
<1>4. {tera', kept', deps'} \subseteq [Ids -> Templates \cup {Missing}]
  BY <1>3 DEF Link, TemplateShapes
<1>5. TemplateShapes' /\ call'[t] = NoCall /\ \A u \in Threads : u # t => call'[u] = call[u]
  <2>1. NoCall.at = "idle"
    BY DEF NoCall
  <2> QED BY <1>3, <1>4, <2>1, NoCallIsACall, OneCall DEF TemplateShapes
<1>6. \A u \in Threads : Registering(u)' <=> Registering(u) /\ u # t
  BY <1>5 DEF Registering, NoCall
<1>7. /\ \A i \in Ids : i # id => tera'[i] = tera[i] /\ deps'[i] = deps[i]
      /\ \/ Circular(deps, id, template) /\ tera'[id] = Missing /\ deps' = deps
         \/ ~Circular(deps, id, template) /\ tera'[id] = tera[id] /\ deps'[id] = template
  BY <1>3 DEF Link, TemplateShapes
<1>8. RegistersAlone'
  <2> SUFFICES ASSUME NEW u \in Threads, Registering(u)', call'[u].id \notin loose'
               PROVE  /\ tera'[call'[u].id] \in {Missing, call'[u].template}
                      /\ \A v \in Threads \ {u} : ~(Registering(v)' /\ call'[v].id = call'[u].id)
    BY DEF RegistersAlone
  <2>1. u # t /\ call'[u] = call[u] /\ Registering(u) /\ call[u].id \notin loose
    BY <1>3, <1>5, <1>6
  <2>2. /\ tera[call[u].id] \in {Missing, call[u].template} /\ call[u].id \in Ids
        /\ \A v \in Threads \ {u} : ~(Registering(v) /\ call[v].id = call[u].id)
    BY <2>1 DEF RegistersAlone, TemplateShapes, Registering
  <2>3. call[u].id # id
    BY <1>1, <1>3, <2>1, <2>2
  <2> QED BY <1>5, <1>6, <1>7, <2>1, <2>2, <2>3
<1>9. EngineInGraph'
  <2> SUFFICES ASSUME NEW i \in WellKept', tera'[i] # Missing PROVE deps'[i] = tera'[i]
    BY DEF EngineInGraph
  <2>1. i \in Ids /\ i \notin loose /\ \A u \in Threads : Registering(u)' => call'[u].id # i
    BY <1>3 DEF WellKept
  <2>2. CASE i = id
    <3>1. tera[id] \in {Missing, template}
      BY <1>1, <1>2, <1>3, <2>1, <2>2 DEF RegistersAlone
    <3> QED BY <1>7, <2>2, <3>1
  <2>3. CASE i # id
    <3>1. i \in WellKept
      BY <1>1, <1>5, <1>6, <2>1, <2>3 DEF WellKept
    <3> QED BY <1>7, <2>1, <2>3, <3>1 DEF EngineInGraph
  <2> QED BY <2>2, <2>3
<1>10. NoCircle'
  <2>1. CASE deps' = deps
    BY <2>1 DEF NoCircle
  <2>2. CASE ~Circular(deps, id, template) /\ deps'[id] = template
    <3>1. \A i \in Ids : deps[i] \in Templates \cup {Missing}
      BY DEF TemplateShapes
    <3>2. \A i \in Ids : deps[i] # Missing => i \notin Reached(deps, deps[i])
      BY DEF NoCircle
    <3>3. id \notin Reached(deps, template)
      BY <2>2 DEF Circular
    <3>4. PICK next : next = deps'
      OBVIOUS
    <3>5. \A i \in Ids : next[i] # Missing => i \notin Reached(next, next[i])
      BY <1>7, <2>2, <3>1, <3>2, <3>3, <3>4, LinkClosesNoCircle
    <3> QED BY <3>4, <3>5 DEF NoCircle
  <2> QED BY <1>7, <2>1, <2>2
<1>11. PurgesInOrder'
  <2> SUFFICES ASSUME NEW u \in Threads, call'[u].at = "purge", NEW i \in call'[u].due \ call'[u].rest
               PROVE  tera'[i] = Missing
    BY DEF PurgesInOrder
  <2>1. call'[u] = call[u] /\ i \in Ids
    BY <1>5 DEF NoCall, TemplateShapes, Calls
  <2>2. tera[i] = Missing
    BY <2>1 DEF PurgesInOrder
  <2> QED BY <1>7, <2>1, <2>2
<1> QED BY <1>5, <1>8, <1>9, <1>10, <1>11

\* A call of a thread that registers nothing.
LEMMA IdleStep ==
    ASSUME TemplateInv, NEW t \in Threads, NEW r \in Calls, call' = [call EXCEPT ![t] = r],
           ~Registering(t), r.at \in {"idle", "load", "delete"} , r.at # "idle" => r.id \in Ids,
           r.at = "load" => r.template \in Templates,
           UNCHANGED <<deps, loose>>, {tera', kept'} \subseteq [Ids -> Templates \cup {Missing}],
           \A i \in Ids : tera'[i] \in {Missing, tera[i]}
    PROVE  TemplateInv'
<1> USE DEF TemplateInv
<1>1. {tera', kept', deps'} \subseteq [Ids -> Templates \cup {Missing}] /\ loose' \subseteq Ids
  BY DEF TemplateShapes
<1>2. TemplateShapes' /\ call'[t] = r /\ \A u \in Threads : u # t => call'[u] = call[u]
  BY <1>1, OneCall
<1>3. \A u \in Threads : Registering(u)' <=> Registering(u)
  BY <1>2 DEF Registering
<1>4. \A u \in Threads : Registering(u)' => call'[u].id = call[u].id /\ call'[u].template = call[u].template
  BY <1>2, <1>3
<1>5. \A u \in Threads : call'[u].at = "purge" =>
          \A i \in call'[u].due \ call'[u].rest :
              tera'[i] = Missing \/ (call[u].at = "purge" /\ i \in call[u].due \ call[u].rest)
  BY <1>2
<1> QED BY <1>2, <1>3, <1>4, <1>5, OutOfTheEngine

LEMMA QuietCallsKeep ==
    ASSUME TemplateInv, NEW t \in Threads, NEW id \in Ids,
           FetchTemplate(t, id) \/ DeleteTemplate(t, id) \/ Forget(t) \/ PurgeEnds(t)
    PROVE  TemplateInv'
<1> USE DEF TemplateInv
<1>0. TemplateAssumption
  BY TemplateAssumption
<1>1. UNCHANGED <<deps, loose>> /\ ~Registering(t)
  BY DEF FetchTemplate, DeleteTemplate, Forget, PurgeEnds, Registering
<1>2. {tera', kept'} \subseteq [Ids -> Templates \cup {Missing}] /\ \A i \in Ids : tera'[i] \in {Missing, tera[i]}
  BY DEF FetchTemplate, DeleteTemplate, Forget, PurgeEnds, TemplateShapes
<1>3. CASE FetchTemplate(t, id)
  <2> DEFINE r == [NoCall EXCEPT !.at = "load", !.id = id, !.template = kept[id]]
  <2>1. kept[id] \in Templates
    BY <1>3 DEF FetchTemplate, TemplateShapes
  <2>2. r \in Calls /\ r.at = "load" /\ r.id = id /\ r.template = kept[id]
    BY <2>1 DEF NoCall, Calls
  <2>3. call' = [call EXCEPT ![t] = r]
    BY <1>3 DEF FetchTemplate
  <2> QED BY <1>1, <1>2, <2>1, <2>2, <2>3, IdleStep
<1>4. CASE DeleteTemplate(t, id)
  <2> DEFINE r == [NoCall EXCEPT !.at = "delete", !.id = id]
  <2>1. r \in Calls /\ r.at = "delete" /\ r.id = id
    BY DEF NoCall, Calls
  <2>2. call' = [call EXCEPT ![t] = r]
    BY <1>4 DEF DeleteTemplate
  <2> QED BY <1>1, <1>2, <2>1, <2>2, IdleStep
<1>5. CASE Forget(t) \/ PurgeEnds(t)
  <2>1. call' = [call EXCEPT ![t] = NoCall] /\ NoCall.at = "idle"
    BY <1>5 DEF Forget, PurgeEnds, NoCall
  <2> QED BY <1>1, <1>2, <2>1, NoCallIsACall, IdleStep
<1> QED BY <1>3, <1>4, <1>5

\* What includes the changed id in the engine includes it in the graph, and is removed.
LEMMA EngineReachesLess ==
    ASSUME TemplateInv, NEW from \in SUBSET Ids
    PROVE  Reached(Engine, from) \subseteq Reached(deps, from)
<1>1. \A i \in Ids : deps[i] \in Templates \cup {Missing}
  BY DEF TemplateInv, TemplateShapes
<1>2. \A i \in Ids : Engine[i] # Missing => Engine[i] = deps[i]
  BY DEF TemplateInv, EngineInGraph, Engine
<1> QED BY <1>1, <1>2, ReachedInMore

LEMMA InvalidateKeeps == ASSUME TemplateInv, NEW t \in Threads, NEW id \in Ids, Invalidate(t, id) PROVE TemplateInv'
<1> USE DEF TemplateInv
<1> DEFINE gone == Dependents(id)
           owed == {i \in Ids : Engine[i] # Missing /\ id \in Reached(Engine, {i})}
           r    == [NoCall EXCEPT !.at = "purge", !.id = id, !.rest = gone, !.due = owed]
<1>1. gone \in SUBSET Ids /\ owed \in SUBSET gone
  BY EngineReachesLess DEF Dependents
<1>2. /\ call' = [call EXCEPT ![t] = r] /\ UNCHANGED <<tera, kept, deps, loose>> /\ ~Registering(t)
  BY DEF Invalidate, Registering
<1> HIDE DEF gone, owed
<1>3. r \in Calls /\ r.at = "purge" /\ r.id = id /\ r.rest = gone /\ r.due = owed
  BY <1>1 DEF NoCall, Calls
<1> HIDE DEF r
<1>4. TemplateShapes' /\ call'[t] = r /\ \A u \in Threads : u # t => call'[u] = call[u]
  BY <1>2, <1>3, OneCall DEF TemplateShapes
<1>5. \A u \in Threads : Registering(u)' <=> Registering(u)
  BY <1>2, <1>3, <1>4 DEF Registering
<1>6. \A u \in Threads : Registering(u)' => call'[u].id = call[u].id /\ call'[u].template = call[u].template
  BY <1>2, <1>4, <1>5
<1>7. \A u \in Threads : call'[u].at = "purge" =>
          \A i \in call'[u].due \ call'[u].rest :
              tera'[i] = Missing \/ (call[u].at = "purge" /\ i \in call[u].due \ call[u].rest)
  BY <1>1, <1>3, <1>4
<1> QED BY <1>2, <1>4, <1>5, <1>6, <1>7, OutOfTheEngine

LEMMA PurgeKeeps == ASSUME TemplateInv, NEW t \in Threads, NEW id \in Ids, Purge(t, id) PROVE TemplateInv'
<1> USE DEF TemplateInv
<1> DEFINE r == [call[t] EXCEPT !.rest = @ \ {id}]
<1>1. /\ call' = [call EXCEPT ![t] = r] /\ call[t].at = "purge" /\ tera' = [tera EXCEPT ![id] = Missing]
      /\ UNCHANGED <<kept, deps, loose>> /\ ~Registering(t) /\ call[t] \in Calls /\ call[t].id \in Ids
  BY DEF Purge, Registering, TemplateShapes
<1>2. r \in Calls /\ r.at = "purge" /\ r.id = call[t].id /\ r.rest = call[t].rest \ {id} /\ r.due = call[t].due
  BY <1>1 DEF Calls
<1> HIDE DEF r
<1>3. /\ {tera', kept', deps'} \subseteq [Ids -> Templates \cup {Missing}]
      /\ tera'[id] = Missing /\ \A i \in Ids : tera'[i] \in {Missing, tera[i]}
  BY <1>1 DEF TemplateShapes
<1>4. TemplateShapes' /\ call'[t] = r /\ \A u \in Threads : u # t => call'[u] = call[u]
  BY <1>1, <1>2, <1>3, OneCall DEF TemplateShapes
<1>5. \A u \in Threads : Registering(u)' <=> Registering(u)
  BY <1>1, <1>2, <1>4 DEF Registering
<1>6. \A u \in Threads : Registering(u)' => call'[u].id = call[u].id /\ call'[u].template = call[u].template
  BY <1>1, <1>4, <1>5
<1>7. \A u \in Threads : call'[u].at = "purge" =>
          \A i \in call'[u].due \ call'[u].rest :
              tera'[i] = Missing \/ (call[u].at = "purge" /\ i \in call[u].due \ call[u].rest)
  BY <1>1, <1>2, <1>3, <1>4
<1> QED BY <1>1, <1>3, <1>4, <1>5, <1>6, <1>7, OutOfTheEngine

LEMMA TemplateInvStep == TemplateInv /\ [TemplateNext]_templateVars => TemplateInv'
<1> SUFFICES ASSUME TemplateInv, [TemplateNext]_templateVars PROVE TemplateInv'
  OBVIOUS
<1>1. CASE UNCHANGED templateVars
  BY <1>1 DEF templateVars, TemplateInv, TemplateShapes, RegistersAlone, Registering, EngineInGraph, WellKept,
              NoCircle, PurgesInOrder
<1>2. ASSUME NEW t \in Threads, NEW id \in Ids, NEW template \in Templates, RegisterTemplate(t, id, template)
      PROVE  TemplateInv'
  BY <1>2, EntersKeeps DEF RegisterTemplate, Registering
<1>3. ASSUME NEW t \in Threads, Load(t) PROVE TemplateInv'
  <2>1. call[t].at = "load" /\ call[t].id \in Ids /\ call[t].template \in Templates
    BY <1>3 DEF Load, TemplateInv, TemplateShapes
  <2> QED BY <1>3, <2>1, EntersKeeps DEF Load, Registering
<1>4. ASSUME NEW t \in Threads, StoreTemplate(t) \/ StoreLapses(t) \/ LinkTemplate(t) PROVE TemplateInv'
  BY <1>4, StoresKeep, LinkKeeps
<1>5. ASSUME NEW t \in Threads, NEW id \in Ids,
             FetchTemplate(t, id) \/ DeleteTemplate(t, id) \/ Invalidate(t, id) \/ Purge(t, id)
      PROVE  TemplateInv'
  BY <1>5, QuietCallsKeep, InvalidateKeeps, PurgeKeeps
<1>6. ASSUME NEW t \in Threads, Forget(t) \/ PurgeEnds(t) PROVE TemplateInv'
  <2>1. call[t].id \in Ids
    BY <1>6 DEF Forget, PurgeEnds, TemplateInv, TemplateShapes
  <2> QED BY <1>6, <2>1, QuietCallsKeep
<1> QED BY <1>1, <1>2, <1>3, <1>4, <1>5, <1>6 DEF TemplateNext

(* Whatever threads register, load, delete and invalidate at once, and     *)
(* whatever ValKey refuses: what is registered for good never includes     *)
(* itself, through others either, and an invalidation that is over has     *)
(* taken out every template of the engine that included the changed one.   *)
THEOREM NoCircleIsRegistered == TemplateSpec => []TemplatesKept
<1>1. TemplateInv => TemplatesKept
  <2> SUFFICES ASSUME TemplateInv PROVE TemplatesKept
    OBVIOUS
  <2>1. ASSUME NEW i \in WellKept, Engine[i] # Missing PROVE i \notin Reached(Engine, Engine[i])
    <3>1. i \in Ids /\ Engine[i] = deps[i] /\ deps[i] # Missing
      BY <2>1 DEF Engine, WellKept, TemplateInv, EngineInGraph
    <3>2. i \notin Reached(deps, deps[i]) /\ deps[i] \in SUBSET Ids
      BY <3>1 DEF TemplateInv, NoCircle, TemplateShapes, Templates
    <3> QED BY <3>1, <3>2, EngineReachesLess
  <2>2. ASSUME NEW t \in Threads, call[t].at = "purge", call[t].rest = {}, NEW i \in call[t].due
        PROVE  tera[i] = Missing
    BY <2>2 DEF TemplateInv, PurgesInOrder
  <2> QED BY <2>1, <2>2 DEF TemplatesKept
<1> QED BY <1>1, TemplateInvInit, TemplateInvStep, PTL DEF TemplateSpec

=============================================================================
