------------------------------ MODULE AssetBundles ------------------------------
(* The asset builder (asset_builder.rs) of every daemon, for one site: the  *)
(* CMS edits what the bundles are made of and announces it, each builder    *)
(* reads the manifests call by call and stores the bundles, on its timer    *)
(* and for every announcement that reaches it.  Nothing keeps two builders  *)
(* apart: the older bundle may be stored last.                              *)
(* The content of a manifest or mapping is the number of its edit, and what *)
(* is read for one bundle counts as read at once, first.  Layout,           *)
(* compression and metadata are left out; a bundle may expire any time.     *)
EXTENDS Naturals, FiniteSetsExt

CONSTANTS
    Builders,       \* daemons
    Main, Others,   \* the manifest "main", the ids of other manifests
    Faces,          \* the face mapping
    Nothing,        \* model value
    MaxEdits, MaxBreaks     \* bounds

Manifests == Others \cup {Main}
Sources   == Manifests \cup {Faces}

ASSUME AssetAssumption ==
    /\ Main \notin Others /\ Faces \notin Manifests /\ Nothing \notin Sources
    /\ {MaxEdits, MaxBreaks} \subseteq Nat

VARIABLES
    listed,         \* the site is in the registry
    declared,       \* {site}:asset:manifests
    edition,        \* [Sources -> Nat]: content by its edit, 0 where there is none
    draft,          \* an edit is not announced yet
    bundle,         \* [Manifests -> Nat]: the edition in bundle:{id}, 0 where there is none
    full,           \* bundle:full: where it is from and its edition
    build,          \* [Builders -> [stage, then, todo, item, copies, got]]
    ear,            \* [Builders -> {"none", "open", "closed"}]: its subscription to the site's channel
    unhandled,          \* [Builders -> Nat]: announcements it has not handled
    due,            \* builders whose first tick is still to come
    unheard,        \* the last announcement did not reach a builder, or one broke off since
    breaks

assetVars == <<listed, declared, edition, draft, bundle, full, build, ear, unhandled, due, unheard, breaks>>

NoBundle == [from |-> Nothing, edition |-> 0]
At(stage, then) == [stage |-> stage, then |-> then, todo |-> {}, item |-> Nothing, copies |-> FALSE, got |-> 0]

AssetInit ==
    /\ listed \in BOOLEAN /\ declared = {} /\ edition = [s \in Sources |-> 0] /\ draft = FALSE
    /\ bundle = [m \in Manifests |-> 0] /\ full = NoBundle
    /\ build = [b \in Builders |-> At("down", "down")] /\ ear = [b \in Builders |-> "none"]
    /\ unhandled = [b \in Builders |-> 0] /\ due = {} /\ unheard = FALSE /\ breaks = 0

-----------------------------------------------------------------------------
(* The CMS. *)

Resting(b) == build[b].stage \in {"down", "loop"} /\ b \notin due /\ unhandled[b] = 0

\* A manifest is registered with its edit, or removed.
Edit(s) ==
    /\ MapThenSumSet(LAMBDA x : edition[x], Sources) < MaxEdits
    /\ edition' = [edition EXCEPT ![s] = @ + 1]
    /\ draft' = TRUE
    /\ declared' \in IF s = Faces THEN {declared} ELSE {declared \cup {s}, declared \ {s}}
    /\ UNCHANGED <<listed, bundle, full, build, ear, unhandled, due, unheard, breaks>>

RegisterSite ==
    /\ ~listed /\ listed' = TRUE
    /\ UNCHANGED <<declared, edition, draft, bundle, full, build, ear, unhandled, due, unheard, breaks>>

\* manifest_updated and the like; a builder before its first tick will read everything anyway.
AnnounceEdit ==
    /\ draft /\ draft' = FALSE
    /\ unhandled' = [b \in Builders |-> IF ear[b] = "open" THEN unhandled[b] + 1 ELSE unhandled[b]]
    /\ unheard' = (~listed \/ \E b \in Builders : build[b].then = "loop" /\ b \notin due /\ ear[b] # "open")
    /\ UNCHANGED <<listed, declared, edition, bundle, full, build, ear, due, breaks>>

Expires ==
    /\ \/ \E m \in Manifests : bundle[m] > 0 /\ bundle' = [bundle EXCEPT ![m] = 0] /\ UNCHANGED full
       \/ full # NoBundle /\ full' = NoBundle /\ UNCHANGED bundle
    /\ UNCHANGED <<listed, declared, edition, draft, build, ear, unhandled, due, unheard, breaks>>

-----------------------------------------------------------------------------
(* The loop of a builder. *)

Advances(b, stage) == build' = [build EXCEPT ![b].stage = stage]

\* start_builder: an initial build comes before the loop.
StartBuilder(b) ==
    /\ build[b].stage = "down"
    /\ build' = [build EXCEPT ![b] = At("sites", "subscribe")]
    /\ UNCHANGED <<listed, declared, edition, draft, bundle, full, ear, unhandled, due, unheard, breaks>>

\* The timer starts when it is made, before the channels, and ticks at once; only the channels of the
\* sites known now are subscribed.
FirstTick_Later(b) == due
FirstTick(b) == due \cup {b}

Subscribe(b) ==
    /\ build[b].stage = "subscribe"
    /\ build' = [build EXCEPT ![b] = At("loop", "loop")]
    /\ ear' = [ear EXCEPT ![b] = IF listed THEN "open" ELSE "none"]
    /\ due' = FirstTick(b)
    /\ UNCHANGED <<listed, declared, edition, draft, bundle, full, unhandled, unheard, breaks>>

Ticks(b) ==
    /\ build[b].stage = "loop" /\ Advances(b, "sites")
    /\ due' = due \ {b}
    /\ UNCHANGED <<listed, declared, edition, draft, bundle, full, ear, unhandled, unheard, breaks>>

Hears(b) ==
    /\ build[b].stage = "loop" /\ unhandled[b] > 0 /\ Advances(b, "sites")
    /\ unhandled' = [unhandled EXCEPT ![b] = @ - 1]
    /\ UNCHANGED <<listed, declared, edition, draft, bundle, full, ear, due, unheard, breaks>>

\* A closed channel ends the loop: nobody starts it again but the next daemon.
BuilderEnds(b) ==
    /\ build[b].stage = "loop" /\ ear[b] = "closed" /\ unhandled[b] = 0
    /\ build' = [build EXCEPT ![b] = At("down", "down")]
    /\ ear' = [ear EXCEPT ![b] = "none"] /\ due' = due \ {b} /\ unheard' = (unheard \/ b \in due)
    /\ UNCHANGED <<listed, declared, edition, draft, bundle, full, unhandled, breaks>>

-----------------------------------------------------------------------------
(* A build, call by call. *)

\* rebuild_all_sites and rebuild_site: the registry, then the manifests of the site.  A build that is over
\* forgets what it read.
Over(b) == build' = [build EXCEPT ![b] = At(@.then, @.then)]

ReadSites(b) ==
    /\ build[b].stage = "sites" /\ IF listed THEN Advances(b, "manifests") ELSE Over(b)
    /\ UNCHANGED <<listed, declared, edition, draft, bundle, full, ear, unhandled, due, unheard, breaks>>

\* Without manifests the face mapping is built.
Plan(b, found) ==
    build' = [build EXCEPT ![b].todo = found, ![b].copies = (Main \in found),
                           ![b].stage = IF found = {} THEN "mapping" ELSE "next"]

ReadManifests(b) ==
    /\ build[b].stage = "manifests" /\ Plan(b, declared)
    /\ UNCHANGED <<listed, declared, edition, draft, bundle, full, ear, unhandled, due, unheard, breaks>>

\* build_from_manifest, one after the other in any order; an id without a manifest is passed over.
ReadManifest(b, m) ==
    /\ build[b].stage = "next" /\ m \in build[b].todo
    /\ build' = [build EXCEPT ![b].todo = @ \ {m}, ![b].item = m, ![b].got = edition[m],
                              ![b].stage = IF edition[m] = 0 THEN "next" ELSE "store"]
    /\ UNCHANGED <<listed, declared, edition, draft, bundle, full, ear, unhandled, due, unheard, breaks>>

StoreBundle(b) ==
    /\ build[b].stage = "store" /\ Advances(b, "next")
    /\ bundle' = [bundle EXCEPT ![build[b].item] = build[b].got]
    /\ UNCHANGED <<listed, declared, edition, draft, full, ear, unhandled, due, unheard, breaks>>

\* copy_manifest_to_compat: what is under bundle:main by then, whoever built it.
ReadMain(b) ==
    /\ build[b].stage = "next" /\ build[b].todo = {}
    /\ IF build[b].copies /\ bundle[Main] > 0
       THEN build' = [build EXCEPT ![b].stage = "full", ![b].item = Main, ![b].got = bundle[Main]]
       ELSE Over(b)
    /\ UNCHANGED <<listed, declared, edition, draft, bundle, full, ear, unhandled, due, unheard, breaks>>

\* build_compat_bundle
ReadMapping(b) ==
    /\ build[b].stage = "mapping"
    /\ IF edition[Faces] = 0 THEN Over(b)
       ELSE build' = [build EXCEPT ![b].stage = "full", ![b].item = Faces, ![b].got = edition[Faces]]
    /\ UNCHANGED <<listed, declared, edition, draft, bundle, full, ear, unhandled, due, unheard, breaks>>

StoreFull(b) ==
    /\ build[b].stage = "full" /\ Over(b)
    /\ full' = [from |-> build[b].item, edition |-> build[b].got]
    /\ UNCHANGED <<listed, declared, edition, draft, bundle, ear, unhandled, due, unheard, breaks>>

-----------------------------------------------------------------------------
(* What breaks. *)

Break == breaks < MaxBreaks /\ breaks' = breaks + 1

\* A manifest that fails is passed over; anything else ends the build of the site, but the manifests:
\* where they cannot be read there are none.
CallFails(b) ==
    /\ Break /\ unheard' = TRUE
    /\ \/ build[b].stage \in {"sites", "mapping", "full"} /\ Over(b)
       \/ build[b].stage = "manifests" /\ Plan(b, {})
       \/ build[b].stage = "next" /\ build[b].todo = {} /\ Over(b)
       \/ build[b].stage = "store" /\ Advances(b, "next")
       \/ \E m \in build[b].todo : build[b].stage = "next" /\ build' = [build EXCEPT ![b].todo = @ \ {m}]
    /\ UNCHANGED <<listed, declared, edition, draft, bundle, full, ear, unhandled, due>>

ChannelCloses(b) ==
    /\ Break /\ ear[b] = "open" /\ ear' = [ear EXCEPT ![b] = "closed"]
    /\ UNCHANGED <<listed, declared, edition, draft, bundle, full, build, unhandled, due, unheard>>

BuilderCrashes(b) ==
    /\ Break /\ build[b].stage # "down"
    /\ build' = [build EXCEPT ![b] = At("down", "down")]
    /\ ear' = [ear EXCEPT ![b] = "none"] /\ unhandled' = [unhandled EXCEPT ![b] = 0] /\ due' = due \ {b}
    /\ unheard' = (unheard \/ ~Resting(b))
    /\ UNCHANGED <<listed, declared, edition, draft, bundle, full>>

AssetNext ==
    \/ \E s \in Sources : Edit(s)
    \/ RegisterSite \/ AnnounceEdit \/ Expires
    \/ \E b \in Builders :
          \/ StartBuilder(b) \/ Subscribe(b) \/ Ticks(b) \/ Hears(b) \/ BuilderEnds(b)
          \/ ReadSites(b) \/ ReadManifests(b) \/ StoreBundle(b) \/ ReadMain(b) \/ ReadMapping(b) \/ StoreFull(b)
          \/ \E m \in Manifests : ReadManifest(b, m)
          \/ CallFails(b) \/ ChannelCloses(b) \/ BuilderCrashes(b)

AssetSpec == AssetInit /\ [][AssetNext]_assetVars

-----------------------------------------------------------------------------
(* Properties. *)

(* asset_builder.rs, the two triggers: when every edit is announced, every *)
(* builder that works heard it or was still to take its first tick, and    *)
(* all have come to rest, the bundles stored are of the last edit, though  *)
(* older ones may have been stored over newer ones on the way.  The copy of*)
(* "main" in bundle:full is read again from the store, and may be older.   *)
AnnouncedIsServed ==
    ~draft /\ ~unheard /\ (\A b \in Builders : Resting(b))
        /\ (\E b \in Builders : build[b].stage = "loop") =>
    /\ \A m \in declared : bundle[m] \in {0, edition[m]}
    /\ declared = {} /\ edition[Faces] > 0 => full \in {NoBundle, [from |-> Faces, edition |-> edition[Faces]]}
=============================================================================
