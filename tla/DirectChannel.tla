----------------------------- MODULE DirectChannel -----------------------------
(* Channels that gNode provisions between two sites and leaves to them:    *)
(* the command handlers (direct_channel.rs), their calls (provisioner.rs)  *)
(* and the library gnode_direct.lua.  A call of the library is one step of *)
(* ValKey; a close is two calls, an inspection and the close.  The sites   *)
(* write to the stream themselves, and an XADD creates a key that is gone. *)
(* Every worker looks for expired channels.  The ids do not repeat.        *)
EXTENDS Naturals, FiniteSets

CONSTANTS
    Channels,       \* channel ids
    Sites,          \* sites that open channels and talk
    NoChannel,      \* model value: no record
    Ttls,           \* ttl_seconds of the temporary ones
    MaxTtl, DefaultTtl,                     \* the cap of a day, what zero stands for
    MaxIdle,        \* the idle time the worker passes
    MaxClock, MaxCallFailures               \* bounds

ASSUME ChannelAssumption ==
    /\ NoChannel \notin [between : SUBSET Sites, opened : Nat, expires : Nat]
    /\ Ttls \subseteq Nat /\ {MaxTtl, DefaultTtl} \subseteq Nat \ {0} /\ {MaxIdle, MaxClock, MaxCallFailures} \subseteq Nat

VARIABLES
    seconds,        \* time
    pipes,          \* channel streams that exist
    groups,         \* [Channels -> SUBSET Sites]: the consumer groups of a stream
    meta,           \* [Channels -> record]: the hash of a channel, which expires with its TTL
    index,          \* [Channels -> record]: the entry of a channel in the index
    promised,       \* [Channels -> record]: what the answer to channel_open said
    closing,        \* closes between their two calls
    closed,         \* channels that a channel_close ended
    late,           \* streams a site wrote to after their channel had ended
    unasked

channelVars == <<seconds, pipes, groups, meta, index, promised, closing, closed, late, unasked>>

None == [c \in Channels |-> NoChannel]

ChannelInit ==
    /\ seconds = 0 /\ pipes = {} /\ groups = [c \in Channels |-> {}]
    /\ meta = None /\ index = None /\ promised = None
    /\ closing = {} /\ closed = {} /\ late = {} /\ unasked = 0

-----------------------------------------------------------------------------
(* Opening and closing. *)

Lifetime(ttl) ==
    CASE ttl > MaxTtl -> MaxTtl
      [] ttl = 0      -> DefaultTtl
      [] OTHER        -> ttl

\* A hash with a TTL is gone when it is over; a persistent one stays.
Live(c) == meta[c] # NoChannel /\ (meta[c].expires = 0 \/ seconds < meta[c].expires)

\* The entry says active until somebody removes it.
Record(pair, expires) == [between |-> pair, opened |-> seconds, expires |-> expires]

Provision(c, pair, expires) ==
    /\ ~Live(c)
    /\ pipes' = pipes \cup {c}
    /\ groups' = [groups EXCEPT ![c] = pair]
    /\ meta' = [meta EXCEPT ![c] = Record(pair, expires)]
    /\ index' = [index EXCEPT ![c] = Record(pair, expires)]

\* handle_channel_open and GNODE_DIRECT_PROVISION: two different sites, for a time or for good.
Open(c, source, target) ==
    /\ promised[c] = NoChannel /\ source # target
    /\ \E expires \in {seconds + Lifetime(ttl) : ttl \in Ttls} \cup {0} :
           /\ Provision(c, {source, target}, expires)
           /\ promised' = [promised EXCEPT ![c] = Record({source, target}, expires)]
    /\ UNCHANGED <<seconds, closing, closed, late, unasked>>

\* handle_channel_close, first call: a channel without its hash has no participants, so that nobody
\* may close it; where the call fails, nobody is asked.
Inspect(c, site) ==
    /\ promised[c] # NoChannel /\ Live(c) /\ site \in meta[c].between
    /\ closing' = closing \cup {c}
    /\ UNCHANGED <<seconds, pipes, groups, meta, index, promised, closed, late, unasked>>

InspectFails(c) ==
    /\ promised[c] # NoChannel /\ unasked < MaxCallFailures /\ unasked' = unasked + 1
    /\ closing' = closing \cup {c}
    /\ UNCHANGED <<seconds, pipes, groups, meta, index, promised, closed, late>>

Ends(gone) ==
    /\ pipes' = pipes \ gone
    /\ groups' = [c \in Channels |-> IF c \in gone THEN {} ELSE groups[c]]
    /\ meta' = [c \in Channels |-> IF c \in gone THEN NoChannel ELSE meta[c]]
    /\ index' = [c \in Channels |-> IF c \in gone THEN NoChannel ELSE index[c]]

\* GNODE_DIRECT_CLOSE: an error where neither the stream nor the hash is there.
Found(c) == Live(c) \/ c \in pipes

Close(c) ==
    /\ c \in closing /\ closing' = closing \ {c}
    /\ IF Found(c)
       THEN Ends({c}) /\ closed' = closed \cup {c}
       ELSE UNCHANGED <<pipes, groups, meta, index, closed>>
    /\ UNCHANGED <<seconds, promised, late, unasked>>

-----------------------------------------------------------------------------
(* Expiry. *)

Expired_Sign(c) == seconds > index[c].expires
Expired(c) == index[c].expires > 0 /\ seconds > index[c].expires

\* last_active is the hash's, written when the channel is opened and by nobody since.
IdleTooLong(c) == ~Live(c) \/ seconds - meta[c].opened > MaxIdle

\* GNODE_DIRECT_CHECK_EXPIRY over the index.
ToEnd == {c \in Channels : index[c] # NoChannel /\ (Expired(c) \/ (MaxIdle > 0 /\ IdleTooLong(c)))}

CheckExpiry ==
    /\ ToEnd # {} /\ Ends(ToEnd)
    /\ UNCHANGED <<seconds, promised, closing, closed, late, unasked>>

-----------------------------------------------------------------------------
(* The sites and the time. *)

WriteTo(c, site) ==
    /\ promised[c] # NoChannel /\ site \in promised[c].between
    /\ pipes' = pipes \cup {c}
    /\ late' = IF c \in pipes THEN late ELSE late \cup {c}
    /\ UNCHANGED <<seconds, groups, meta, index, promised, closing, closed, unasked>>

ClockTick ==
    /\ seconds < MaxClock /\ seconds' = seconds + 1
    /\ UNCHANGED <<pipes, groups, meta, index, promised, closing, closed, late, unasked>>

ChannelNext ==
    \/ \E c \in Channels :
          \/ \E source, target \in Sites : Open(c, source, target)
          \/ \E site \in Sites : Inspect(c, site) \/ WriteTo(c, site)
          \/ InspectFails(c) \/ Close(c)
    \/ CheckExpiry \/ ClockTick

ChannelSpec == ChannelInit /\ [][ChannelNext]_channelVars

-----------------------------------------------------------------------------
(* Properties. *)

Due(c) == (promised[c].expires > 0 /\ seconds >= promised[c].expires) \/ seconds - promised[c].opened > MaxIdle

OpenMeansUsable ==
    \A c \in Channels : promised[c] # NoChannel /\ c \notin closed /\ ~Due(c)
        => c \in pipes /\ groups[c] = promised[c].between

NothingLeftBehind ==
    \A c \in pipes \ late : index[c] # NoChannel

(* What the answer of channel_open is good for: until somebody closes the  *)
(* channel, its time is over or it is older than the idle time, its stream *)
(* is there with the groups of both sites, whatever is closed, expires or  *)
(* is written late beside it.                                              *)
(* A stream nobody can find again stays for ever: there is none, but for   *)
(* those that a site wrote to when their channel had ended.                *)
ChannelsKept == OpenMeansUsable /\ NothingLeftBehind
=============================================================================
