--------------------------- MODULE CommandJourney ---------------------------
(* The way of one command and of its answer through stream entries, field   *)
(* by field: the client spells it, the daemon parses it (resp3_protocol.rs), *)
(* runs it or writes it anew for a service and names the origin in it       *)
(* (relay/reply.rs), the service answers in its own spelling, and the answer *)
(* is put where the client polls and on its stream.  The client's stream is *)
(* a tenant's.  What a handler or service does is to say who was handed     *)
(* what; failures and several workers are Relay's, batches of several       *)
(* entries CommandBatch's.  A presence stands for a text nobody looks into. *)
EXTENDS Naturals, Sequences, FiniteSets

CONSTANTS
    Origin,     \* the client's site
    RelayServices,   \* services one can be relayed to
    OwnSite,     \* who runs what is not relayed
    Unknown,    \* a target that is no service
    Absent, EmptyText, Given,   \* no value, the empty text, some text
    Junk,       \* text that is not JSON
    NoObject,   \* JSON null
    ClientIds,       \* ids clients choose
    Asked,      \* what clients ask for
    Library,    \* send_command, as a way to write it
    Spellings,  \* the ways they write it
    MaxJourney  \* bound: entries written

\* What a client asks for: a command or an envelope of such, under which id, for whom.
Work  == [name : STRING, body : {Given, NoObject}, rid : ClientIds \cup {Absent}, ext : SUBSET STRING]
Wish  == [works : Seq(Work), envelope : BOOLEAN, id : ClientIds \cup {EmptyText, Absent},
          target : RelayServices \cup {Origin, Unknown, Absent}, back : RelayServices \cup {Absent},
          hint : {Given, Absent}, batch : {Given, Absent}, junk : BOOLEAN]

Parameters(w, ext) == [body |-> w.body, rid |-> w.rid, ext |-> ext]

\* Words of the protocol itself.
Words == {"c", "r", "bc", "br", "geo_disc"}

\* A presence is none of the values it stands beside.
ASSUME JourneyValues ==
    /\ Absent \notin {EmptyText, Given, Junk, NoObject, Origin, OwnSite, Unknown} \cup RelayServices \cup ClientIds
    /\ Absent \notin STRING \cup Words \cup Nat
    /\ EmptyText \notin STRING \cup Words \cup {Origin} \cup RelayServices \cup ClientIds
    /\ {Origin, Unknown} \cap RelayServices = {} /\ Origin # Unknown /\ Junk # NoObject

VARIABLES
    wish,      \* the wish
    wire,       \* the entries of all streams: [on, fields], by number
    unread,     \* entries no daemon has read
    errands,       \* forwards their service has not answered
    grants,     \* [Origin, id, service]
    handed,     \* who was handed which works: a sequence of [by, works]
    lanes       \* {site}:res:{id}: answers by site and id

journeyVars == <<wish, wire, unread, errands, grants, handed, lanes>>

-----------------------------------------------------------------------------
(* Entries: fields by name; a field that is not there is Absent.           *)

TypeNames == <<"t", "type">>
SiteNames == <<"ss", "source_site", "service_id", "site_id", "st">>
NameNames == <<"c", "cmd", "command", "command_name">>
BodyNames == <<"p", "params", "parameters">>
IdNames   == <<"id", "request_id">>
ExtNames  == {"pa", "ca", "lo", "ve", "si"}
FieldNames ==
    {"t", "type", "ss", "source_site", "service_id", "site_id", "st", "c", "cmd", "command", "command_name",
     "p", "params", "parameters", "id", "request_id", "ds", "bi", "sq", "m", "ri", "r", "status", "result",
     "_gh", "_rt", "_rr", "_rf"} \cup ExtNames

\* The entry with the fields of a record.
Fields(rec) == [n \in FieldNames |-> IF n \in DOMAIN rec THEN rec[n] ELSE Absent]

\* The value under the first of the names there is; the same without empty texts.
First(f, names) ==
    LET there == {i \in DOMAIN names : f[names[i]] # Absent}
    IN  IF there = {} THEN Absent ELSE f[names[CHOOSE i \in there : \A j \in there : i <= j]]
Filled(f, names) == First([n \in FieldNames |-> IF f[n] = EmptyText THEN Absent ELSE f[n]], names)

\* json_to_resp3(parse_json(_)): what does not parse is null.
Parsed(text) == IF text \in {Absent, Junk} THEN NoObject ELSE text

Short == [geometric_discover |-> "geo_disc"]
Shorten(name) == IF name \in DOMAIN Short THEN Short[name] ELSE name
Expand(name)  == IF \E long \in DOMAIN Short : Short[long] = name
                 THEN CHOOSE long \in DOMAIN Short : Short[long] = name ELSE name

-----------------------------------------------------------------------------
(* The message a daemon makes of an entry, and the entry of a message.     *)

NoMessage ==
    [id |-> Absent, type |-> Absent, site |-> EmptyText, to |-> Absent, name |-> EmptyText, params |-> NoObject,
     request |-> Absent, batch |-> Absent, sequence |-> Absent, status |-> Absent, result |-> Absent,
     parts |-> <<>>, ext |-> {}, hint |-> Absent, target |-> Absent, back |-> Absent]

\* An array of four or more makes a sub-message of an envelope; its own id is its position.
SubMessage(part, batch) ==
    [NoMessage EXCEPT !.type = part.type, !.name = part.name, !.params = Parsed(part.text),
                      !.batch = batch, !.sequence = part.sequence]

\* The entries of the array of an envelope that are not cut short.
Uncut(parts) ==
    LET whole == {i \in DOMAIN parts : parts[i].size >= 4}
    IN  [k \in 1 .. Cardinality(whole) |->
            parts[CHOOSE i \in whole : Cardinality({j \in whole : j < i}) = k - 1]]

\* from_resp3_fields for an entry with number at
Parse(at, f) ==
    LET type == First(f, TypeNames)
        site == First(f, SiteNames)
        name == First(f, NameNames)
        every == [NoMessage EXCEPT
            !.id = at, !.type = type, !.site = IF site = Absent THEN EmptyText ELSE site, !.to = f["ds"],
            !.batch = f["bi"], !.sequence = f["sq"], !.ext = {n \in ExtNames : f[n] # Absent},
            !.hint = f["_gh"], !.target = f["_rt"], !.back = f["_rr"]]
        full == IF f["m"] = Absent THEN <<>> ELSE Uncut(f["m"])
    IN  CASE type = "c" -> [every EXCEPT !.name = IF name = Absent THEN EmptyText ELSE name,
                                         !.params = Parsed(First(f, BodyNames)), !.request = First(f, IdNames)]
          [] type = "r" -> [every EXCEPT !.request = f["ri"], !.status = f["st"], !.result = f["r"]]
          [] type = "bc" -> [every EXCEPT !.parts = [i \in DOMAIN full |-> SubMessage(full[i], every.batch)]]
          [] OTHER -> every

\* to_command: what is not an object becomes one, and takes in the extended fields.
EmptyObject     == [body |-> NoObject, rid |-> Absent, ext |-> {}]
Object(m) == IF m.params = NoObject THEN EmptyObject ELSE m.params
Also(value, name) == IF value = Absent THEN {} ELSE {name}
WorkOf(m) ==
    [name |-> Expand(m.name), body |-> Object(m).body, rid |-> Object(m).rid,
     ext |-> Object(m).ext \cup m.ext \cup Also(m.batch, "batch_id") \cup Also(m.sequence, "sequence")]
WorksOf(m) == IF m.type = "bc" THEN [i \in DOMAIN m.parts |-> WorkOf(m.parts[i])] ELSE <<WorkOf(m)>>
CommandId(m) == IF m.request = Absent THEN m.id ELSE m.request

\* to_resp3_fields; there is no field for the hint.
Common(m) ==
    Fields([id |-> m.id, t |-> m.type, ss |-> m.site, ds |-> m.to, bi |-> m.batch, sq |-> m.sequence,
            _rt |-> m.target, _rr |-> m.back])
Encode(m) ==
    LET whole == IF m.type = "c" THEN [Common(m) EXCEPT !["c"] = m.name, !["p"] = m.params]
                 ELSE IF m.type = "r" THEN [Common(m) EXCEPT !["ri"] = m.request, !["st"] = m.status, !["r"] = m.result]
                 ELSE IF m.type = "bc" /\ m.parts # <<>>
                 THEN [Common(m) EXCEPT !["m"] =
                          [i \in DOMAIN m.parts |->
                              [type |-> m.parts[i].type, name |-> m.parts[i].name, size |-> 4,
                               text |-> m.parts[i].params, sequence |-> m.parts[i].sequence]]]
                 ELSE Common(m)
    IN  [n \in FieldNames |-> IF n \in m.ext THEN Given ELSE whole[n]]

\* Response::to_optimized, as the daemon writes a verdict or an acknowledgement.
AnswerMessage(m, result) ==
    [NoMessage EXCEPT !.id = m.id, !.type = "r", !.site = OwnSite, !.to = m.site,
                      !.request = m.id, !.status = Given, !.result = result]

\* from_standard, of a command whose parameters hold everything that goes with it
FromStandard(id, w) ==
    [NoMessage EXCEPT
        !.id = id, !.type = "c", !.site = Origin, !.to = OwnSite, !.name = Shorten(w.name),
        !.params = Parameters(w, w.ext), !.ext = w.ext \cap ExtNames,
        !.batch = IF "batch_id" \in w.ext THEN Given ELSE Absent,
        !.sequence = IF {"batch_id", "sequence"} \subseteq w.ext THEN Given ELSE Absent]

-----------------------------------------------------------------------------
(* The client: with send_command, or in fields of its own choice.          *)

PartOf(w)  == [type |-> "c", name |-> w.name, text |-> Parameters(w, {}), size |-> 4, sequence |-> Given]
ShortPart  == [PartOf([name |-> "ping", body |-> NoObject, rid |-> Absent]) EXCEPT !.size = 3]
BodyOf(q)  ==
    LET w == q.works[1]
    IN  IF q.junk THEN Junk
        ELSE IF w.body = NoObject /\ w.rid = Absent THEN Absent ELSE Parameters(w, w.ext)
ArrayOf(q) == Append([i \in DOMAIN q.works |-> PartOf(q.works[i])], ShortPart)

Around(q, s) ==
    [Fields([_rt |-> q.target, _rr |-> q.back, _gh |-> q.hint, bi |-> q.batch]) EXCEPT
        ![s.type] = IF q.envelope THEN "bc" ELSE "c", ![s.site] = Origin, ![s.id] = q.id]

Spell(q, s) ==
    IF s = Library THEN Encode(FromStandard(q.id, q.works[1]))
    ELSE IF q.envelope THEN [Around(q, s) EXCEPT !["m"] = ArrayOf(q)]
    ELSE [n \in FieldNames |->
             IF n \in q.works[1].ext THEN Given
             ELSE [Around(q, s) EXCEPT ![s.name] = q.works[1].name, ![s.body] = BodyOf(q)][n]]

\* send_command has no envelopes, always an id and a body, and no fields for the relay;
\* whoever writes fields has fields for the extended names only.
CanSpell(q, s) ==
    IF s = Library THEN ~q.envelope /\ ~q.junk /\ q.id # Absent /\ {q.target, q.back, q.hint, q.batch} = {Absent}
    ELSE q.works[1].ext \subseteq ExtNames

\* An envelope has no fields for its commands but m, what is not JSON says nothing, and what
\* stands for a long name on the wire is no name itself.
ASSUME WhatIsAsked ==
    \A q \in Asked :
        /\ q \in Wish /\ q.works # <<>>
        /\ ~q.envelope => Len(q.works) = 1
        /\ q.envelope => ArrayOf(q) # Absent
        /\ q.junk => BodyOf([q EXCEPT !.junk = FALSE]) = Absent
        /\ \A i \in DOMAIN q.works :
              /\ q.envelope => q.works[i].ext = {}
              /\ \A long \in DOMAIN Short : q.works[i].name # Short[long]
              /\ \A ext \in {{}, q.works[i].ext} : Parameters(q.works[i], ext) \notin {Absent, Junk, NoObject}

ASSUME HowItIsWritten ==
    \A s \in Spellings \ {Library} :
        /\ \E i \in DOMAIN TypeNames : s.type = TypeNames[i]
        /\ \E i \in DOMAIN SiteNames : s.site = SiteNames[i]
        /\ \E i \in DOMAIN NameNames : s.name = NameNames[i]
        /\ \E i \in DOMAIN BodyNames : s.body = BodyNames[i]
        /\ \E i \in DOMAIN IdNames : s.id = IdNames[i]

JourneyInit ==
    /\ wish \in Asked
    /\ \E s \in Spellings : CanSpell(wish, s) /\ wire = <<[on |-> Origin, fields |-> Spell(wish, s)]>>
    /\ unread = {1} /\ errands = {} /\ grants = {} /\ handed = <<>> /\ lanes = <<>>

-----------------------------------------------------------------------------
(* The daemon reads an entry.                                              *)

\* is_relayed_service_reply
IsReply(f) ==
    /\ f["_rr"] \notin {Absent, EmptyText}
    /\ f["t"] \notin {"c", "bc"}
    /\ Filled(f, <<"c", "cmd", "command">>) = Absent
    /\ f["t"] \in {"r", "br"} \/ f["st"] # Absent \/ f["status"] # Absent
IsCommand(f) == ~IsReply(f) /\ Filled(f, TypeNames) \in {"c", "bc"}

FieldsOf(e)  == wire[e].fields
Message(e)   == Parse(e, FieldsOf(e))
Reads(e, entries) ==
    /\ Len(wire) + Len(entries) <= MaxJourney
    /\ wire' = wire \o entries
    /\ unread' = (unread \ {e}) \cup {Len(wire) + i : i \in DOMAIN entries}

\* Nothing the daemon knows, an answer without relay fields, its own acknowledgements.
PassOver(e) ==
    /\ ~IsReply(FieldsOf(e)) /\ ~IsCommand(FieldsOf(e))
    /\ Reads(e, <<>>)
    /\ UNCHANGED <<wish, errands, grants, handed, lanes>>

LaneKey(site, id) == [site |-> site, id |-> id]
LanesAnd(key, result) == [k \in DOMAIN lanes \cup {key} |-> IF k = key THEN result ELSE lanes[k]]
Outcome(by, works) == [by |-> by, of |-> works]

\* deliver_service_reply: under the polled key, and on the origin's stream without _rr.
Deliver(e) ==
    LET f  == FieldsOf(e)
        id == First(f, <<"ri", "id">>)
        origin == f["_rr"]
    IN  /\ IsReply(f)
        /\ IF [origin |-> origin, id |-> id, service |-> wire[e].on] \in grants
           THEN /\ lanes' = LanesAnd(LaneKey(origin, id), First(f, <<"r", "result">>))
                /\ Reads(e, <<[on |-> origin, fields |-> [f EXCEPT !["_rr"] = Absent, !["_rf"] = origin]]>>)
           ELSE Reads(e, <<>>) /\ UNCHANGED lanes
        /\ UNCHANGED <<wish, errands, grants, handed>>

Acknowledgement(e, result) == [on |-> wire[e].on, fields |-> Encode(AnswerMessage(Message(e), result))]

\* The relay: carry_correlation_id, stamp_origin, and _rt does not go along.
Forwarded_EntryId(m, from) ==
    [m EXCEPT !.target = Absent, !.to = m.target, !.back = from, !.site = from]
Forwarded(m, from) ==
    [m EXCEPT !.target = Absent, !.to = m.target, !.back = from, !.site = from,
              !.id = IF m.request \in {Absent, EmptyText} THEN @ ELSE m.request]

Forward(e) ==
    LET m == Message(e)
        o == Forwarded(m, wire[e].on)
    IN  /\ IsCommand(FieldsOf(e))
        /\ m.target \in RelayServices \ {wire[e].on}
        /\ grants' = grants \cup {[origin |-> o.back, id |-> o.id, service |-> o.to]}
        /\ Reads(e, <<[on |-> o.to, fields |-> Encode(o)], Acknowledgement(e, Given)>>)
        /\ errands' = errands \cup {Len(wire) + 1}
        /\ UNCHANGED <<wish, handed, lanes>>

\* response_key::resolve
Rid(m)        == IF WorkOf(m).rid # Absent THEN WorkOf(m).rid ELSE CommandId(m)
LanesWith(site, m, result) ==
    IF Rid(m) = EmptyText THEN lanes ELSE LanesAnd(LaneKey(site, Rid(m)), result)

RefuseTarget(e) ==
    LET m == Message(e)
    IN  /\ IsCommand(FieldsOf(e))
        /\ m.target \in {Unknown, EmptyText}
        /\ lanes' = LanesWith(IF m.site = EmptyText THEN wire[e].on ELSE m.site, m, Outcome(OwnSite, <<>>))
        /\ Reads(e, <<Acknowledgement(e, Absent)>>)
        /\ UNCHANGED <<wish, errands, grants, handed>>

IsLocal(e) == IsCommand(FieldsOf(e)) /\ Message(e).target \in {Absent, wire[e].on}

\* addressed_to_another_party, or without a name
LeaveAlone(e) ==
    /\ IsLocal(e) /\ Message(e).type # "bc"
    /\ Message(e).back # Absent \/ Message(e).name = EmptyText
    /\ Reads(e, <<>>)
    /\ UNCHANGED <<wish, errands, grants, handed, lanes>>

RunCommand(e) ==
    LET m == Message(e)
    IN  /\ IsLocal(e) /\ m.type # "bc" /\ m.back = Absent /\ m.name # EmptyText
        /\ handed' = Append(handed, Outcome(OwnSite, WorksOf(m)))
        /\ lanes' = LanesWith(wire[e].on, m, Outcome(OwnSite, WorksOf(m)))
        /\ Reads(e, <<>>)
        /\ UNCHANGED <<wish, errands, grants>>

\* An envelope is run whoever it is addressed to; its answer goes where _rr says.
RunEnvelope(e) ==
    LET m == Message(e)
        answer == [on |-> m.back, fields |-> Fields([t |-> "br", ss |-> OwnSite, ds |-> m.site, r |-> Given])]
    IN  /\ IsLocal(e) /\ m.type = "bc"
        /\ handed' = IF m.parts = <<>> THEN handed ELSE Append(handed, Outcome(OwnSite, WorksOf(m)))
        /\ Reads(e, IF m.parts = <<>> \/ m.back \in {Absent, wire[e].on} THEN <<>> ELSE <<answer>>)
        /\ UNCHANGED <<wish, errands, grants, lanes>>

\* The service answers on its own stream, as the daemon spells it or in plain words.
Serve(j) ==
    LET f == FieldsOf(j)
        o == Outcome(wire[j].on, WorksOf(Parse(j, f)))
        own   == Fields([_rr |-> f["_rr"], t |-> "r", ri |-> f["id"], st |-> Given, r |-> o])
        plain == Fields([_rr |-> f["_rr"], id |-> f["id"], status |-> Given, result |-> o])
    IN  /\ j \in errands /\ errands' = errands \ {j}
        /\ handed' = Append(handed, o)
        /\ Len(wire) < MaxJourney
        /\ \E answer \in {own, plain} :
              wire' = Append(wire, [on |-> wire[j].on, fields |-> answer])
        /\ unread' = unread \cup {Len(wire) + 1}
        /\ UNCHANGED <<wish, grants, lanes>>

JourneyNext ==
    \/ \E e \in unread :
        \/ PassOver(e) \/ Deliver(e) \/ Forward(e) \/ RefuseTarget(e)
        \/ LeaveAlone(e) \/ RunCommand(e) \/ RunEnvelope(e)
    \/ \E j \in errands : Serve(j)

JourneySpec == JourneyInit /\ [][JourneyNext]_journeyVars

-----------------------------------------------------------------------------
(* Properties.                                                             *)

\* What was wished for, as a handler should be handed it.
Meant ==
    [i \in DOMAIN wish.works |->
        [wish.works[i] EXCEPT !.ext = @ \cup Also(wish.batch, "batch_id")
                                         \cup IF wish.envelope THEN {"sequence"} ELSE {}]]

ToService   == wish.target \in RelayServices
ForWhom   == IF ToService THEN wish.target ELSE OwnSite
Expected  == Outcome(ForWhom, IF wish.target = Unknown THEN <<>> ELSE Meant)
Nobodys   == ~ToService /\ wish.target # Unknown /\ wish.back # Absent

\* Where the client polls: the parameter, else the id it wrote, else the entry's.
Polled == IF wish.works[1].rid # Absent THEN wish.works[1].rid
          ELSE IF wish.id = Absent THEN 1 ELSE wish.id
\* A service knows no parameters: a relayed command needs its id in the id field.
Pollable == ~wish.envelope /\ Polled # EmptyText /\ (ToService => wish.works[1].rid \in {Absent, wish.id})

OverAndDone == unread = {} /\ errands = {}

\* However a client spells a command, and whether it is run here or relayed, whoever it
\* is for is handed it once and as it was meant; the answer is found where the client
\* polls, and nowhere else; and what the daemon and the service write about it on the
\* streams it reads does not make it write more.  (utils.rs, every parser resolves the
\* fields alike; response_key.rs, a caller cannot tell what served it; reply.rs, the
\* forward, the reply and its copy.)  A relayed envelope is left out: the daemon runs
\* it, although it is addressed to the service.
JourneyKept ==
    (wish.envelope => ~ToService /\ wish.back = Absent) =>
        /\ \A i \in DOMAIN handed : handed[i] = Expected
        /\ Len(handed) <= 1 /\ Len(wire) <= 5
        /\ Nobodys => handed = <<>> /\ lanes = <<>>
        /\ OverAndDone /\ Pollable /\ ~Nobodys => lanes = [k \in {LaneKey(Origin, Polled)} |-> Expected]
        /\ OverAndDone /\ wish.envelope /\ wish.target # Unknown => lanes = <<>> /\ Len(handed) = 1
=============================================================================
