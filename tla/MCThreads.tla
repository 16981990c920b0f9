------------------------------ MODULE MCThreads ------------------------------
(* What the threads of one daemon share, side by side with what they pass  *)
(* on: the list of streams, the pool of connections, a command on its way  *)
(* through entries and its parameters on their way through the formats of  *)
(* services.  They share no state with each other, so a behaviour is one   *)
(* of a single part, the others at rest.  One command or envelope of two,  *)
(* with send_command or in three spellings of its fields, to nobody, a     *)
(* service, the site itself or nowhere.  Parameters of five kinds over     *)
(* three relays, with two registrations or declarations; one custom format *)
(* in two versions.                                                        *)
EXTENDS StreamSubscription, ConnectionGate, CommandJourney, RelayTranslation, TLC

CONSTANTS s1, s2, t1, t2, c1, sv, u1, u2

VARIABLE part

threadVars == <<part, subscriptionVars, gateVars, journeyVars, translationVars>>

MCRids == {c1}
MCWork(n, x, r, e) == [name |-> n, body |-> x, rid |-> r, ext |-> e]
MCWorks == {MCWork(n, x, r, e) : n \in {"ping", "geometric_discover"}, x \in {Given, NoObject},
                                 r \in MCRids \cup {Absent}, e \in {{}, {"pa", "lo"}, {"batch_id", "sequence"}}}
MCBoth  == <<MCWork("ping", Given, Absent, {}), MCWork("geometric_discover", Given, Absent, {})>>
MCAsked ==
    {q \in [works : {<<w>> : w \in MCWorks} \cup {MCBoth}, envelope : BOOLEAN,
            id : MCRids \cup {EmptyText, Absent}, target : {sv, Origin, Unknown, Absent},
            back : {sv, Absent}, hint : {Absent, Given}, batch : {Given, Absent}, junk : BOOLEAN] :
        /\ q.envelope = (q.works = MCBoth)
        /\ q.junk => q.works[1] = MCWork("ping", NoObject, Absent, {})
        /\ q.hint = Given <=> q.back # Absent
        /\ q.batch = Given <=> q.works[1].ext = {"pa", "lo"} /\ q.works[1].rid = Absent}
MCSpellings ==
    {Library,
     [type |-> "t", site |-> "ss", name |-> "c", body |-> "p", id |-> "id"],
     [type |-> "type", site |-> "service_id", name |-> "command_name", body |-> "params", id |-> "request_id"],
     [type |-> "type", site |-> "st", name |-> "command", body |-> "parameters", id |-> "id"]}

MCPlaces == {u1, u2}
MCKeys   == <<"args", "b", "batch_id", "c", "cmd", "command", "i", "id", "limit", "n", "node", "node_id", "nr", "p",
              "parameters", "q", "s", "seq", "sequence", "set", "site_id", "t", "timestamp", "when", "who">>
MCOwn ==
    [content |-> "json", looks |-> {[first |-> "args", confidence |-> 9]}, schema |-> <<>>, needs |-> {},
     defaults |-> <<>>,
     fields |-> [nr |-> Simple("id"), cmd |-> [Simple("command") EXCEPT !.required = TRUE],
                 args |-> Complex("parameters", "json"), who |-> Simple("site_id"), node |-> Simple("node_id"),
                 when |-> Complex("timestamp", "timestamp_ms"), set |-> Simple("batch_id"),
                 seq |-> [Complex("sequence", "number") EXCEPT !.default = Value("int", 0)]]]
MCCustom == Entry("own", 1) :> MCOwn @@ Entry("own", 2) :> MCOwn

Wording == TextOf("word", 1)
MCMessage ==
    [id |-> Wording, command |-> Wording, parameters |-> Value("object", 1), site_id |-> Wording,
     node_id |-> Wording, timestamp |-> Value("int", 7000)]
MCBatched == [timestamp |-> Float(7000), batch_id |-> Wording, sequence |-> Value("int", 2000)] @@ MCMessage
MCSubmitted ==
    {[text |-> MCMessage, format |-> "standard_json"], [text |-> MCBatched, format |-> "standard_json"],
     [text |-> [limit |-> Value("int", 1000)], format |-> NoName],
     [text |-> [i |-> Wording, n |-> Wording, p |-> Value("object", 1), t |-> TextOf("int", 3000)],
      format |-> "compact_json"],
     [text |-> [args |-> TextOf("object", 1), cmd |-> Wording, when |-> TextOf("int", 5000)], format |-> "own"]}

\* The formats and the parameters are such as their theorem is about.
ASSUME MCTranslatable == Translatable

-----------------------------------------------------------------------------
\* A command and parameters at rest.
AWish == CHOOSE q \in Asked : CanSpell(q, Library)
AWire == <<[on |-> Origin, fields |-> Spell(AWish, Library)]>>
JourneyAtRest     == wish = AWish /\ wire = AWire
TranslationAtRest == declares = [s \in Places |-> NoName] /\ submitted = CHOOSE x \in Submitted : x.format = NoName

ThreadsInit ==
    /\ part \in {"streams", "gate", "journey", "translation"}
    /\ SubscriptionInit /\ (part # "streams" => known = {})
    /\ GateInit
    /\ (IF part = "journey" THEN TRUE ELSE JourneyAtRest) /\ JourneyInit
    /\ (IF part = "translation" THEN TRUE ELSE TranslationAtRest) /\ TranslationInit

ThreadsNext ==
    \/ /\ part = "streams" /\ SubscriptionNext
       /\ UNCHANGED <<part, gateVars, journeyVars, translationVars>>
    \/ /\ part = "gate" /\ GateNext
       /\ UNCHANGED <<part, subscriptionVars, journeyVars, translationVars>>
    \/ /\ part = "journey" /\ JourneyNext
       /\ UNCHANGED <<part, subscriptionVars, gateVars, translationVars>>
    \/ /\ part = "translation" /\ TranslationNext
       /\ UNCHANGED <<part, subscriptionVars, gateVars, journeyVars>>

\* The pool at rest owes no step, and a command and its parameters are only watched.
ThreadsSpec ==
    /\ ThreadsInit /\ [][ThreadsNext]_threadVars
    /\ part = "streams" => SubscriptionFairness
    /\ GateFairness

-----------------------------------------------------------------------------
\* PickedUp of StreamSubscription, where that part runs.
StreamsPickedUp == part = "streams" => PickedUp
=============================================================================
