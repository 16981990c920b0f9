---------------------------- MODULE FormatBroadcast ----------------------------
(* Custom formats: every daemon keeps a registry of them in memory         *)
(* (format_registry.rs), restores it from ValKey when it starts            *)
(* (format_processor.rs), and adds what the broadcast stream announces     *)
(* (broadcast_reader.rs, and the reader's thread in daemon.rs), which it   *)
(* stores again for the next start.  An announcement names a format; its   *)
(* definition, of which there are ever newer versions, is under a key of   *)
(* its own.  A format is known here by its name and version.               *)
EXTENDS Integers, FiniteSets, Sequences

CONSTANTS
    Readers,         \* daemons
    Formats,         \* names of custom formats
    ReadCount,       \* messages taken at a time (100)
    MaxNews,         \* bound: announcements
    MaxOutages,      \* bound: calls that fail
    MaxStarts        \* bound: starts of daemons

ASSUME FormatAssumption ==
    /\ ReadCount \in Nat \ {0} /\ MaxNews \in Nat /\ MaxOutages \in Nat /\ MaxStarts \in Nat

VARIABLES
    news, trimmedTo, agedTo,    \* broadcast stream: names announced, the last message trimmed away,
                                \* the last one older than the retention (300 s)
    version,                    \* version of the definition that a format has now
    stored, indexed,            \* ValKey: definitions stored, members of the index
    doing,                         \* where a daemon is
    known, detects,             \* its registry, and the version of a format it detects messages with
    restoring,                  \* members it has yet to restore
    lastId, blockedAt, inbox,   \* its reader: last_id, the position it waits behind, messages read
    storing,                    \* the format it is storing
    seen,                       \* history: messages read
    unstored,                   \* history: formats whose storing failed or was cut off
    outages, starts             \* bounds

feed      == <<news, trimmedTo, agedTo, version>>
valkeyFmt == <<stored, indexed>>
registry  == <<known, detects>>
reader    == <<lastId, blockedAt, inbox>>
past      == <<seen, unstored>>
formatVars == <<feed, valkeyFmt, doing, registry, restoring, reader, storing, past, outages, starts>>

Latest    == -1     \* "$": what comes after the call
Member    == Formats \X (1 .. MaxNews)
NoFormat  == <<>>
Outage    == outages < MaxOutages /\ outages' = outages + 1
Goes(n, place) == doing' = [doing EXCEPT ![n] = place]

\* register_format: the version joins the others of its name, and messages are detected
\* with the one registered last.
Register(n, m) ==
    /\ known' = [known EXCEPT ![n] = @ \cup {m}]
    /\ detects' = [detects EXCEPT ![n][m[1]] = m[2]]

FormatInit ==
    /\ news = <<>> /\ trimmedTo = 0 /\ agedTo = 0 /\ version = [f \in Formats |-> 0]
    /\ stored = {} /\ indexed = {}
    /\ doing = [n \in Readers |-> "down"]
    /\ known = [n \in Readers |-> {}] /\ detects = [n \in Readers |-> [f \in Formats |-> 0]]
    /\ restoring = [n \in Readers |-> {}]
    /\ lastId = [n \in Readers |-> Latest] /\ blockedAt = [n \in Readers |-> 0]
    /\ inbox = [n \in Readers |-> <<>>]
    /\ storing = [n \in Readers |-> NoFormat]
    /\ seen = [n \in Readers |-> {}] /\ unstored = {}
    /\ outages = 0 /\ starts = 0

-----------------------------------------------------------------------------
(* Whoever registers formats, time, and daemons that die.                  *)

\* A new version of a definition is put under the format's key and announced.
Announce(f) ==
    /\ Len(news) < MaxNews /\ news' = Append(news, f)
    /\ version' = [version EXCEPT ![f] = @ + 1]
    /\ UNCHANGED <<trimmedTo, agedTo, valkeyFmt, doing, registry, restoring, reader, storing, past, outages, starts>>

\* 300 s pass: a reader that is up and not in trouble has read what there was.
Behind(n) == doing[n] \notin {"down", "sleep"} /\ lastId[n] # Latest /\ lastId[n] < Len(news)
Age ==
    /\ agedTo < Len(news) /\ agedTo' = agedTo + 1
    /\ \A n \in Readers : doing[n] \notin {"apply", "store", "index"} /\ ~Behind(n)
    /\ UNCHANGED <<news, trimmedTo, version, valkeyFmt, doing, registry, restoring, reader, storing, past, outages, starts>>

\* What is being stored is cut off.
Perish(n) ==
    /\ doing[n] # "down" /\ Goes(n, "down")
    /\ known' = [known EXCEPT ![n] = {}] /\ detects' = [detects EXCEPT ![n] = [f \in Formats |-> 0]]
    /\ restoring' = [restoring EXCEPT ![n] = {}]
    /\ lastId' = [lastId EXCEPT ![n] = Latest] /\ blockedAt' = [blockedAt EXCEPT ![n] = 0]
    /\ inbox' = [inbox EXCEPT ![n] = <<>>] /\ storing' = [storing EXCEPT ![n] = NoFormat]
    /\ unstored' = unstored \cup (IF storing[n] = NoFormat THEN {} ELSE {storing[n]})
    /\ seen' = [seen EXCEPT ![n] = {}]
    /\ UNCHANGED <<feed, valkeyFmt, outages, starts>>

-----------------------------------------------------------------------------
(* hydrate_formats, at the start: the index, then its members in any order. *)

ReadIndex(n) ==
    /\ doing[n] = "down" /\ starts < MaxStarts /\ starts' = starts + 1
    /\ Goes(n, "restore") /\ restoring' = [restoring EXCEPT ![n] = indexed]
    /\ UNCHANGED <<feed, valkeyFmt, registry, reader, storing, past, outages>>

\* A member without a definition is skipped.
RestoreOne(n, m) ==
    /\ doing[n] = "restore" /\ m \in restoring[n]
    /\ restoring' = [restoring EXCEPT ![n] = @ \ {m}]
    /\ IF m \in stored THEN Register(n, m) ELSE UNCHANGED registry
    /\ UNCHANGED <<feed, valkeyFmt, doing, reader, storing, past, outages, starts>>

Restored(n) ==
    /\ doing[n] = "restore" /\ restoring[n] = {} /\ Goes(n, "read")
    /\ UNCHANGED <<feed, valkeyFmt, registry, restoring, reader, storing, past, outages, starts>>

\* A GET that fails ends it with what has been restored so far.
RestoreFails(n) ==
    /\ doing[n] = "restore" /\ Outage /\ Goes(n, "read")
    /\ restoring' = [restoring EXCEPT ![n] = {}]
    /\ UNCHANGED <<feed, valkeyFmt, registry, reader, storing, past, starts>>

-----------------------------------------------------------------------------
(* read_messages: XREAD COUNT n BLOCK 5000 from last_id.                   *)

\* Messages after position p that are still there, at most ReadCount.
After(p) ==
    LET from == IF p < trimmedTo THEN trimmedTo ELSE p
    IN [i \in 1 .. (IF Len(news) - from < ReadCount THEN Len(news) - from ELSE ReadCount) |-> from + i]

Position(n) == IF lastId[n] = Latest THEN Len(news) ELSE lastId[n]
NextId_Position(n, got) == IF got = <<>> THEN lastId[n] ELSE Len(news)
NextId(n, got) == IF got = <<>> THEN lastId[n] ELSE got[Len(got)]
TakeIn(n, p) ==
    /\ inbox' = [inbox EXCEPT ![n] = After(p)]
    /\ lastId' = [lastId EXCEPT ![n] = NextId(n, After(p))]
    /\ seen' = [seen EXCEPT ![n] = @ \cup {After(p)[i] : i \in DOMAIN After(p)}]

\* What there is comes at once; otherwise the call waits behind the last message.
ReadNow(n) ==
    /\ doing[n] = "read" /\ After(Position(n)) # <<>>
    /\ TakeIn(n, Position(n)) /\ Goes(n, "apply")
    /\ UNCHANGED <<feed, valkeyFmt, registry, restoring, blockedAt, storing, unstored, outages, starts>>

Block(n) ==
    /\ doing[n] = "read" /\ After(Position(n)) = <<>>
    /\ blockedAt' = [blockedAt EXCEPT ![n] = Position(n)] /\ Goes(n, "blocked")
    /\ UNCHANGED <<feed, valkeyFmt, registry, restoring, lastId, inbox, storing, seen, unstored, outages, starts>>

Woken(n) ==
    /\ doing[n] = "blocked" /\ After(blockedAt[n]) # <<>>
    /\ TakeIn(n, blockedAt[n]) /\ Goes(n, "apply")
    /\ UNCHANGED <<feed, valkeyFmt, registry, restoring, blockedAt, storing, unstored, outages, starts>>

\* Five seconds without a message: last_id stays what it was.
WaitEnds(n) ==
    /\ doing[n] = "blocked" /\ After(blockedAt[n]) = <<>> /\ Goes(n, "apply")
    /\ UNCHANGED <<feed, valkeyFmt, registry, restoring, reader, storing, past, outages, starts>>

ReadBroken(n) ==
    /\ doing[n] \in {"read", "blocked"} /\ Outage /\ Goes(n, "sleep")
    /\ UNCHANGED <<feed, valkeyFmt, registry, restoring, reader, storing, past, starts>>

SleepOver(n) ==
    /\ doing[n] = "sleep" /\ Goes(n, "read")
    /\ UNCHANGED <<feed, valkeyFmt, registry, restoring, reader, storing, past, outages, starts>>

-----------------------------------------------------------------------------
(* The messages read, one by one: GET the definition, register it, SET the  *)
(* stored one, SADD the index.                                             *)

Heard(n) == news[Head(inbox[n])]
Said(n)  == [inbox EXCEPT ![n] = Tail(@)]

ApplyOne(n) ==
    /\ doing[n] = "apply" /\ inbox[n] # <<>>
    /\ LET m == <<Heard(n), version[Heard(n)]>> IN
       /\ Register(n, m)
       /\ storing' = [storing EXCEPT ![n] = m]
    /\ inbox' = Said(n) /\ Goes(n, "store")
    /\ UNCHANGED <<feed, valkeyFmt, restoring, lastId, blockedAt, past, outages, starts>>

ApplyFails(n) ==
    /\ doing[n] = "apply" /\ inbox[n] # <<>> /\ Outage
    /\ inbox' = Said(n)
    /\ UNCHANGED <<feed, valkeyFmt, doing, registry, restoring, lastId, blockedAt, storing, past, starts>>

StoreDefinition(n) ==
    /\ doing[n] = "store" /\ Goes(n, "index")
    /\ stored' = stored \cup {storing[n]}
    /\ UNCHANGED <<feed, indexed, registry, restoring, reader, storing, past, outages, starts>>

StoreIndex(n) ==
    /\ doing[n] = "index" /\ Goes(n, "apply")
    /\ indexed' = indexed \cup {storing[n]} /\ storing' = [storing EXCEPT ![n] = NoFormat]
    /\ UNCHANGED <<feed, stored, registry, restoring, reader, past, outages, starts>>

StoreFails(n) ==
    /\ doing[n] \in {"store", "index"} /\ Outage /\ Goes(n, "apply")
    /\ unstored' = unstored \cup {storing[n]} /\ storing' = [storing EXCEPT ![n] = NoFormat]
    /\ UNCHANGED <<feed, valkeyFmt, registry, restoring, reader, seen, starts>>

\* All of them done; at every hundredth read the stream is trimmed by age.
ReadDone(n) ==
    /\ doing[n] = "apply" /\ inbox[n] = <<>> /\ Goes(n, "read")
    /\ \/ UNCHANGED trimmedTo
       \/ trimmedTo' \in trimmedTo .. agedTo
    /\ UNCHANGED <<news, agedTo, version, valkeyFmt, registry, restoring, reader, storing, past, outages, starts>>

FormatNext ==
    \/ \E f \in Formats : Announce(f)
    \/ Age
    \/ \E n \in Readers :
        \/ Perish(n) \/ ReadIndex(n) \/ (\E m \in Member : RestoreOne(n, m)) \/ Restored(n) \/ RestoreFails(n)
        \/ ReadNow(n) \/ Block(n) \/ Woken(n) \/ WaitEnds(n) \/ ReadBroken(n) \/ SleepOver(n)
        \/ ApplyOne(n) \/ ApplyFails(n) \/ StoreDefinition(n) \/ StoreIndex(n) \/ StoreFails(n)
        \/ ReadDone(n)

FormatSpec == FormatInit /\ [][FormatNext]_formatVars

-----------------------------------------------------------------------------
(* Properties.                                                             *)

FormatTypeOK ==
    /\ news \in Seq(Formats) /\ trimmedTo \in 0 .. agedTo /\ agedTo \in 0 .. Len(news)
    /\ version \in [Formats -> 0 .. MaxNews]
    /\ {stored, indexed} \subseteq SUBSET Member
    /\ doing \in [Readers -> {"down", "restore", "read", "blocked", "sleep", "apply", "store", "index"}]
    /\ known \in [Readers -> SUBSET Member] /\ detects \in [Readers -> [Formats -> 0 .. MaxNews]]
    /\ restoring \in [Readers -> SUBSET Member]
    /\ lastId \in [Readers -> Latest .. Len(news)] /\ blockedAt \in [Readers -> 0 .. Len(news)]
    /\ \A n \in Readers : inbox[n] \in Seq(1 .. Len(news)) /\ storing[n] \in Member \cup {NoFormat}
    /\ seen \in [Readers -> SUBSET (1 .. Len(news))]

KnownIsDurable ==
    /\ indexed \subseteq stored
    /\ \A n \in Readers : \A m \in known[n] :
        m \in indexed \cup unstored \/ \E o \in Readers : storing[o] = m

NoGapAfterFirst ==
    \A n \in Readers : \A first \in seen[n] :
        \A p \in first .. lastId[n] : p \in seen[n] \/ p <= agedTo

\* format_processor.rs: a format that some daemon detects messages with will be there after
\* the next start: it is indexed with its definition stored, or somebody is storing it at
\* this moment, or storing it failed; no order of crashes leaves a member without a definition.
\* And broadcast_reader.rs: from the first message that a reader has read it misses none that
\* the retention has left, whatever it does and whatever fails between two reads.
FormatsArrive == KnownIsDurable /\ NoGapAfterFirst

=============================================================================
