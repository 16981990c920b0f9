---------------------------- MODULE CommandBatch ----------------------------
(***************************************************************************)
(* One batch of entries read from one stream, as process_command_batch     *)
(* runs it: envelopes first, then the other commands in order, inline or   *)
(* spawned; every answer keyed and receipted under its caller; and the     *)
(* collected answers put on a stream when the batch was relayed.           *)
(*                                                                         *)
(*   daemon/src/integration/command_processor.rs  process_command_batch    *)
(*   daemon/src/integration/concurrent_lane.rs    dispatch                 *)
(*   daemon/src/integration/tenant_guard.rs       who a command is from    *)
(*   daemon/src/integration/response_key.rs       where its answer goes    *)
(*                                                                         *)
(* An entry is known by its position, and an answer by its entry: what a   *)
(* handler computes is left out, and the fields the code itself writes are *)
(* taken to satisfy the stream's contract.                                 *)
(***************************************************************************)
EXTENDS Naturals, FiniteSets, Sequences, SequencesExt

CONSTANTS
    Tenants,    \* sites whose streams this node serves
    Served,     \* the site of a served constellation
    Self,       \* the site the worker was started for
    NoSite,     \* an empty site field
    Rids,       \* request ids callers choose
    NoId,       \* an absent id
    Blank,      \* an id field that is the empty string
    Commands,   \* the commands that are submitted
    MaxBatch,   \* bound: entries in the batch
    MaxRefused  \* bound: writes and calls that fail

BatchSites == Tenants \cup {Served}
Envelope   == "envelope"
Kinds      == {"ordered", "concurrent", "unknown", "denied", "empty", Envelope}

\* kind: ordered and concurrent have a handler; unknown has none; denied has one the
\* guard refuses to tenants; empty is a blank name; an envelope carries two commands
\* with handlers.  Commands with _rt have been taken out before (module Relay).
Command == [says : BatchSites \cup {NoSite}, id : Rids \cup {NoId, Blank}, param : Rids \cup {NoId},
            kind : Kinds, rr : BatchSites \cup {NoSite}]
Subs    == 1 .. 2

ASSUME CommandsAssumption ==
    /\ Commands \subseteq Command /\ NoSite \notin BatchSites
    /\ MaxBatch \in Nat /\ MaxRefused \in Nat

VARIABLES
    laneUp,    \* concurrent_lane::is_initialized
    owner,     \* whose stream the batch was read from
    batch,     \* the entries
    at,        \* the next entry of the pass that is running
    sub,       \* the next command inside an envelope
    phase,     \* "envelopes", "commands", "respond", "singly", "ack", "done"
    tasks,     \* entries spawned on the concurrent lane
    runs,      \* runs[p]: handler calls for entry p
    collected, \* optimized_responses, as entries
    keyed,     \* answers under polling keys: [site, rid, entry]
    receipts,  \* receipts of answers: [site, rid, entry]
    posted,    \* posted[p]: answers to p on the response stream
    tries,     \* attempts at the current write
    single,    \* position in collected while answers are sent one by one
    failed,    \* writes and calls that failed
    lost       \* entries whose task found no connection

batchVars == <<laneUp, owner, batch, at, sub, phase, tasks, runs, collected, keyed, receipts,
               posted, tries, single, failed, lost>>
given     == <<laneUp, owner, batch>>
effects   == <<runs, keyed, receipts>>
sending   == <<posted, tries, single>>

Positions == 1 .. Len(batch)

\* A tenant is named by its stream; only a served constellation's own is free to say.
TenantOf(o) == IF o = Served THEN NoSite ELSE o
Caller(o, c) == IF TenantOf(o) # NoSite THEN TenantOf(o)
                ELSE IF c.says = NoSite THEN Self ELSE c.says
Refused(o, c) == TenantOf(o) # NoSite /\ c.kind = "denied"

\* The id an answer is keyed on: the parameter, else the id, else the entry id.
EntryId(p)    == <<p>>
Keyable(c)    == c.param # NoId \/ c.id # Blank
RidOf(p, c)   == IF c.param # NoId THEN c.param ELSE IF c.id = NoId THEN EntryId(p) ELSE c.id
AnswerAt(o, p, c) == [site |-> Caller(o, c), rid |-> RidOf(p, c), entry |-> p]
Answers(o, p, c)  == IF Keyable(c) THEN {AnswerAt(o, p, c)} ELSE {}

Elsewhere(c)  == c.rr # NoSite
HasHandler(c) == c.kind \in {"ordered", "concurrent", "denied"}
Called(o, c)  == IF HasHandler(c) /\ ~Refused(o, c) THEN 1 ELSE 0

BatchInit ==
    /\ laneUp \in BOOLEAN /\ owner \in BatchSites
    /\ batch \in UNION {[1 .. n -> Commands] : n \in 1 .. MaxBatch}
    /\ at = 1 /\ sub = 1 /\ phase = "envelopes" /\ tasks = {} /\ collected = <<>>
    /\ runs = [p \in Positions |-> 0] /\ keyed = {} /\ receipts = {}
    /\ posted = [p \in Positions |-> 0] /\ tries = 0 /\ single = 1 /\ failed = 0 /\ lost = {}

Here      == batch[at]
Working(k) == phase = k /\ at <= Len(batch)
Advance   == at' = at + 1 /\ UNCHANGED phase
Call(p)   == runs' = [runs EXCEPT ![p] = @ + Called(owner, batch[p])]
Refuse    == failed < MaxRefused /\ failed' = failed + 1

-----------------------------------------------------------------------------
(* Step 2: envelopes.  Their commands run inline and are not keyed.        *)

NotAnEnvelope ==
    /\ Working("envelopes") /\ Here.kind # Envelope
    /\ Advance
    /\ UNCHANGED <<given, sub, tasks, collected, effects, sending, failed, lost>>

RunSub ==
    /\ Working("envelopes") /\ Here.kind = Envelope
    /\ runs' = [runs EXCEPT ![at] = @ + 1]
    /\ collected' = Append(collected, at)
    /\ IF sub = Cardinality(Subs) THEN sub' = 1 /\ at' = at + 1 ELSE sub' = sub + 1 /\ at' = at
    /\ UNCHANGED <<given, phase, tasks, keyed, receipts, sending, failed, lost>>

StartCommands ==
    /\ phase = "envelopes" /\ at > Len(batch)
    /\ phase' = "commands" /\ at' = 1
    /\ UNCHANGED <<given, sub, tasks, collected, effects, sending, failed, lost>>

-----------------------------------------------------------------------------
(* Step 3: the other commands.                                             *)

Skipped(c) == c.kind \in {Envelope, "empty"} \/ Elsewhere(c)

\* Blank names, and commands addressed to another party, are left alone.
Skip ==
    /\ Working("commands") /\ Skipped(Here)
    /\ Advance
    /\ UNCHANGED <<given, sub, tasks, collected, effects, sending, failed, lost>>

Spawnable(c) == laneUp /\ c.kind = "concurrent"

Spawn_AndInline ==
    /\ Working("commands") /\ ~Skipped(Here) /\ Spawnable(Here)
    /\ tasks' = tasks \cup {at}
    /\ Call(at) /\ collected' = Append(collected, at)
    /\ Advance
    /\ UNCHANGED <<given, sub, keyed, receipts, sending, failed, lost>>

\* Concurrent lane: the task has the command as the guard left it.
Spawn ==
    /\ Working("commands") /\ ~Skipped(Here) /\ Spawnable(Here)
    /\ tasks' = tasks \cup {at}
    /\ Advance
    /\ UNCHANGED <<given, sub, collected, effects, sending, failed, lost>>

\* Keying may fail and is not looked at; the receipt is written anyway, or fails too.
Answer(p) ==
    \/ /\ keyed' = keyed \cup Answers(owner, p, batch[p])
       /\ receipts' = receipts \cup Answers(owner, p, batch[p])
       /\ UNCHANGED failed
    \/ /\ Refuse /\ UNCHANGED keyed
       /\ receipts' = receipts \cup Answers(owner, p, batch[p])
    \/ /\ Refuse /\ UNCHANGED receipts
       /\ keyed' = keyed \cup Answers(owner, p, batch[p])

\* The ordered lane, refusals and unknown names; and the concurrent lane without a runtime.
Inline ==
    /\ Working("commands") /\ ~Skipped(Here) /\ ~Spawnable(Here)
    /\ Call(at) /\ Answer(at)
    /\ collected' = Append(collected, at)
    /\ Advance
    /\ UNCHANGED <<given, sub, tasks, sending, lost>>

\* dispatch: the task runs, whenever the runtime gets to it.
Task(p) ==
    /\ p \in tasks /\ tasks' = tasks \ {p}
    /\ Call(p) /\ Answer(p)
    /\ UNCHANGED <<given, at, sub, phase, collected, sending, lost>>

\* No connection, or none any more: nothing runs and nobody is told.
TaskLost(p) ==
    /\ p \in tasks /\ tasks' = tasks \ {p}
    /\ Refuse /\ lost' = lost \cup {p}
    /\ UNCHANGED <<given, at, sub, phase, collected, effects, sending>>

-----------------------------------------------------------------------------
(* Step 4: the response stream, for a batch whose first entry was relayed. *)

ResponseTo == batch[1].rr
Relayed    == ResponseTo \notin {NoSite, owner} /\ collected # <<>>
AsBatch    == (\E p \in Positions : batch[p].kind = Envelope) \/ Len(collected) > 1

EndCommands ==
    /\ phase = "commands" /\ at > Len(batch)
    /\ phase' = IF ~Relayed THEN "ack" ELSE IF AsBatch THEN "respond" ELSE "singly"
    /\ UNCHANGED <<given, at, sub, tasks, collected, effects, sending, failed, lost>>

BatchTries  == 3
SingleTries == 2
PostAll == posted' = [p \in Positions |-> posted[p] + IF p \in ToSet(collected) THEN 1 ELSE 0]

\* XADD of the batch response; a failing look at the stream counts twice against it.
SendBatch ==
    /\ phase = "respond" /\ tries < BatchTries
    /\ \/ PostAll /\ phase' = "ack" /\ UNCHANGED <<tries, failed>>
       \/ PostAll /\ Refuse /\ tries' = tries + 2 /\ UNCHANGED phase
       \/ Refuse /\ tries' = tries + 1 /\ UNCHANGED <<posted, phase>>
    /\ UNCHANGED <<given, at, sub, tasks, collected, effects, single, lost>>

GiveUp ==
    /\ phase = "respond" /\ tries >= BatchTries
    /\ phase' = "singly" /\ tries' = 0
    /\ UNCHANGED <<given, at, sub, tasks, collected, effects, posted, single, failed, lost>>

SendSingle ==
    /\ phase = "singly" /\ single <= Len(collected)
    /\ \/ /\ posted' = [posted EXCEPT ![collected[single]] = @ + 1]
          /\ single' = single + 1 /\ tries' = 0 /\ UNCHANGED failed
       \/ /\ Refuse /\ UNCHANGED posted
          /\ IF tries + 1 < SingleTries THEN tries' = tries + 1 /\ UNCHANGED single
                                        ELSE tries' = 0 /\ single' = single + 1
    /\ UNCHANGED <<given, at, sub, phase, tasks, collected, effects, lost>>

EndResponses ==
    /\ phase = "singly" /\ single > Len(collected)
    /\ phase' = "ack"
    /\ UNCHANGED <<given, at, sub, tasks, collected, effects, sending, failed, lost>>

\* The worker acknowledges the batch whatever became of its tasks and its answers.
AckBatch ==
    /\ phase = "ack" /\ phase' = "done"
    /\ UNCHANGED <<given, at, sub, tasks, collected, effects, sending, failed, lost>>

BatchNext ==
    \/ NotAnEnvelope \/ RunSub \/ StartCommands
    \/ Skip \/ Spawn \/ Inline \/ EndCommands
    \/ \E p \in tasks : Task(p) \/ TaskLost(p)
    \/ SendBatch \/ GiveUp \/ SendSingle \/ EndResponses \/ AckBatch

BatchSpec == BatchInit /\ [][BatchNext]_batchVars

-----------------------------------------------------------------------------
(* Properties.                                                             *)

\* What becomes of an entry that is the only one of its batch.
ForUs(c)     == c.rr = NoSite /\ c.kind \notin {"empty", Envelope}
AloneRuns(p) == IF batch[p].kind = Envelope THEN Cardinality(Subs)
                ELSE IF ForUs(batch[p]) THEN Called(owner, batch[p]) ELSE 0
AloneKeyed(p) == IF ForUs(batch[p]) THEN Answers(owner, p, batch[p]) ELSE {}

\* response_key.rs: neither the lane a command took nor its company in the batch shows:
\* when all is done and nothing failed, every entry ran as often, was keyed and was
\* receipted as it would have been alone.  And, tenant_guard.rs, the caller is the stream:
\* whatever a command says, in whatever lane it runs and whatever fails, what is written for
\* it is written under its stream's tenant.
BatchAsSingles ==
    /\ phase = "done" /\ tasks = {} /\ failed = 0 =>
           /\ runs = [p \in Positions |-> AloneRuns(p)]
           /\ keyed = UNION {AloneKeyed(p) : p \in Positions}
           /\ receipts = keyed
    /\ owner # Served => \A a \in keyed \cup receipts : a.site = owner

\* command_processor.rs: if the command was relayed (has _rr field), its response goes to
\* the relay_reply_to stream: no stream gets an answer to a command that did not name it.
ResponsesGoHome == \A p \in Positions : posted[p] > 0 => batch[p].rr = ResponseTo

=============================================================================
