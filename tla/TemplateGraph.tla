----------------------------- MODULE TemplateGraph -----------------------------
(* Templates that include each other (template_renderer.rs): the engine     *)
(* (Tera) that renders them, the copies in ValKey and the graph of includes *)
(* that keeps circular ones out, each behind a lock or a connection of its  *)
(* own.  Threads register, render, delete and invalidate; a registration is *)
(* in the engine first, then in ValKey, then in the graph.  A template is   *)
(* the set of ids it includes, an id one that validate_template_id takes.   *)
EXTENDS Naturals

CONSTANTS
    Ids, Threads,
    Missing,        \* model value: no template
    MaxWrites, MaxLapses    \* bounds: registrations and deletions, calls of ValKey that fail

ASSUME TemplateAssumption ==
    /\ Missing \notin Ids /\ \A template \in SUBSET Ids : Missing # template
    /\ {MaxWrites, MaxLapses} \subseteq Nat

VARIABLES
    tera,           \* [Ids -> template]: TERA_ENGINE
    kept,           \* [Ids -> template]: template:{id} in ValKey
    deps,           \* [Ids -> template]: TEMPLATE_DEPS
    call,           \* [Threads -> the call a thread is in]
    loose,          \* ids registered by two threads at once, or that ValKey refused
    writes, lapses

templateVars == <<tera, kept, deps, call, loose, writes, lapses>>

Templates == SUBSET Ids
NoCall == [at |-> "idle", id |-> Missing, template |-> Missing, rest |-> {}, due |-> {}]

TemplateInit ==
    /\ tera = [i \in Ids |-> Missing] /\ kept = tera /\ deps = tera
    /\ call = [t \in Threads |-> NoCall] /\ loose = {} /\ writes = 0 /\ lapses = 0

-----------------------------------------------------------------------------
(* The graph. *)

Closed(graph, ids) == \A i \in ids : graph[i] # Missing => graph[i] \subseteq ids

\* The ids that are reached from some of them by includes, those included.
Reached(graph, from) ==
    {i \in Ids : \A ids \in SUBSET Ids : from \subseteq ids /\ Closed(graph, ids) => i \in ids}

\* template_include_cycle
Circular(graph, id, template) == id \in Reached(graph, template)

\* invalidate_template: the ids that include it, through others too, and itself.
Dependents(id) == {i \in Ids : id \in Reached(deps, {i})}

-----------------------------------------------------------------------------
(* Registering and rendering. *)

Registering(t) == call[t].at \in {"store", "link"}

\* add_raw_template, for a registration and for a template that is loaded to be rendered: the engine has
\* it before the graph was asked.
Enters(t, id, template) ==
    /\ tera' = [tera EXCEPT ![id] = template]
    /\ call' = [u \in Threads |-> IF u = t THEN [NoCall EXCEPT !.at = "store", !.id = id, !.template = template]
                                           ELSE [call[u] EXCEPT !.due = @ \ {id}]]
    /\ loose' = IF \E u \in Threads \ {t} : Registering(u) /\ call[u].id = id THEN loose \cup {id} ELSE loose
    /\ UNCHANGED <<kept, deps>>

RegisterTemplate(t, id, template) ==
    /\ call[t].at = "idle" /\ writes < MaxWrites /\ writes' = writes + 1
    /\ Enters(t, id, template)
    /\ UNCHANGED lapses

\* SET of the content; the metadata beside it is left out.
StoreTemplate(t) ==
    /\ call[t].at = "store" /\ call' = [call EXCEPT ![t].at = "link"]
    /\ kept' = [kept EXCEPT ![call[t].id] = call[t].template]
    /\ UNCHANGED <<tera, deps, loose, writes, lapses>>

\* Where ValKey refuses, the engine keeps the template and the graph does not know it.
StoreLapses(t) ==
    /\ call[t].at = "store" /\ call' = [call EXCEPT ![t] = NoCall]
    /\ lapses < MaxLapses /\ lapses' = lapses + 1
    /\ loose' = loose \cup {call[t].id}
    /\ UNCHANGED <<tera, kept, deps, writes>>

\* The check and the entry under one write lock; what is circular is taken out of the engine again, and
\* stays in ValKey.
Link_Keeps(id, template) ==
    /\ deps' = IF Circular(deps, id, template) THEN deps ELSE [deps EXCEPT ![id] = template]
    /\ UNCHANGED tera

Link(id, template) ==
    IF Circular(deps, id, template)
    THEN tera' = [tera EXCEPT ![id] = Missing] /\ UNCHANGED deps
    ELSE deps' = [deps EXCEPT ![id] = template] /\ UNCHANGED tera

LinkTemplate(t) ==
    /\ call[t].at = "link" /\ call' = [call EXCEPT ![t] = NoCall]
    /\ Link(call[t].id, call[t].template)
    /\ UNCHANGED <<kept, loose, writes, lapses>>

\* render_template: what the engine does not have is read from ValKey, and registered as it was read.
FetchTemplate(t, id) ==
    /\ call[t].at = "idle" /\ tera[id] = Missing /\ kept[id] # Missing
    /\ call' = [call EXCEPT ![t] = [NoCall EXCEPT !.at = "load", !.id = id, !.template = kept[id]]]
    /\ UNCHANGED <<tera, kept, deps, loose, writes, lapses>>

Load(t) ==
    /\ call[t].at = "load" /\ Enters(t, call[t].id, call[t].template)
    /\ UNCHANGED <<writes, lapses>>

-----------------------------------------------------------------------------
(* Deleting and invalidating. *)

\* delete_template: the graph keeps what it knows.
DeleteTemplate(t, id) ==
    /\ call[t].at = "idle" /\ writes < MaxWrites /\ writes' = writes + 1
    /\ tera' = [tera EXCEPT ![id] = Missing]
    /\ call' = [call EXCEPT ![t] = [NoCall EXCEPT !.at = "delete", !.id = id]]
    /\ UNCHANGED <<kept, deps, loose, lapses>>

Forget(t) ==
    /\ call[t].at = "delete" /\ call' = [call EXCEPT ![t] = NoCall]
    /\ \/ kept' = [kept EXCEPT ![call[t].id] = Missing] /\ UNCHANGED lapses
       \/ lapses < MaxLapses /\ lapses' = lapses + 1 /\ UNCHANGED kept
    /\ UNCHANGED <<tera, deps, loose, writes>>

\* Ids whose registration is over, and was nobody else's.
WellKept == Ids \ (loose \cup {call[t].id : t \in {u \in Threads : Registering(u)}})

\* What the engine holds of them.
Engine == [i \in Ids |-> IF i \in WellKept THEN tera[i] ELSE Missing]

\* The graph is read under its lock, and the removals follow without it.
Invalidate(t, id) ==
    /\ call[t].at = "idle"
    /\ call' = [call EXCEPT ![t] = [NoCall EXCEPT !.at = "purge", !.id = id, !.rest = Dependents(id),
                                       !.due = {i \in Ids : Engine[i] # Missing /\ id \in Reached(Engine, {i})}]]
    /\ UNCHANGED <<tera, kept, deps, loose, writes, lapses>>

Purge(t, id) ==
    /\ call[t].at = "purge" /\ id \in call[t].rest
    /\ tera' = [tera EXCEPT ![id] = Missing] /\ call' = [call EXCEPT ![t].rest = @ \ {id}]
    /\ UNCHANGED <<kept, deps, loose, writes, lapses>>

\* Without a connection the rest is left as it is.
PurgeEnds(t) ==
    /\ call[t].at = "purge" /\ call' = [call EXCEPT ![t] = NoCall]
    /\ \/ call[t].rest = {} /\ UNCHANGED lapses
       \/ lapses < MaxLapses /\ lapses' = lapses + 1
    /\ UNCHANGED <<tera, kept, deps, loose, writes>>

TemplateNext ==
    \E t \in Threads :
        \/ \E id \in Ids : \/ \E template \in Templates : RegisterTemplate(t, id, template)
                           \/ FetchTemplate(t, id) \/ DeleteTemplate(t, id) \/ Invalidate(t, id) \/ Purge(t, id)
        \/ StoreTemplate(t) \/ StoreLapses(t) \/ LinkTemplate(t) \/ Load(t) \/ Forget(t) \/ PurgeEnds(t)

TemplateSpec == TemplateInit /\ [][TemplateNext]_templateVars

-----------------------------------------------------------------------------
(* Properties. *)

(* template_renderer.rs, "rejects circular includes at registration": the  *)
(* templates of the engine that are registered for good never include each *)
(* other in a circle, so that rendering them ends.  What two threads       *)
(* register at once, or ValKey refused, the graph does not guard.          *)
(* And invalidate_template, "all templates that depend on it": when it is  *)
(* over, no template that included the changed one, through others too, is *)
(* in the engine, but for those registered meanwhile.                      *)
TemplatesKept ==
    /\ \A i \in WellKept : Engine[i] # Missing => i \notin Reached(Engine, Engine[i])
    /\ \A t \in Threads : call[t].at = "purge" /\ call[t].rest = {} =>
          \A i \in call[t].due : tera[i] = Missing
=============================================================================
