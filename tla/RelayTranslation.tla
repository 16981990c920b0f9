--------------------------- MODULE RelayTranslation ---------------------------
(* The parameters of a relayed command, from service to service: the relay *)
(* (relay/translator.rs) detects the format they are in among the formats  *)
(* of its registry, looks up the one the next service declared, and writes *)
(* them anew by way of the command's own fields (template/format/).  Other *)
(* threads register formats and services declare others meanwhile.         *)
(*                                                                         *)
(* A document is a function from keys to values.  It comes out of a map, so *)
(* its keys are in the order of Keys, and all that a pattern sees of it is  *)
(* which key is the first.  A number is known by its thousandths.          *)
EXTENDS Integers, Sequences

CONSTANTS
    Places,         \* services
    Keys,           \* all keys, in the order of their bytes
    Custom,         \* formats that are registered: definitions by [name, version]
    Submitted,      \* parameters of commands: [text, format], the format's name or none
    AnyKey, NoKey,  \* a pattern for any object; no key
    NoName,         \* a service that declares no format; nothing detected
    Fails,          \* no outcome
    MaxHops,        \* bound: relays
    MaxChanges      \* bound: registrations and declarations

VARIABLES
    registered, \* formats: the [name, version] there are
    entering,   \* those stored by a thread that has yet to make them the default
    candidates, \* default_formats: [name, version], in order
    declares,   \* native_format of each service
    params,     \* the parameters, as they are now
    spelled,    \* history: the name of the format they are in, or none
    submitted,  \* history: what was submitted
    hops, changes

translationVars == <<registered, entering, candidates, declares, params, spelled, submitted, hops, changes>>

-----------------------------------------------------------------------------
(* Values: what a text holds when it is parsed, and how often it was quoted. *)

Value(is, v)  == [is |-> is, v |-> v, holds |-> "itself", quoted |-> 0]
TextOf(holds, v) == [is |-> "text", v |-> v, holds |-> holds, quoted |-> 0]
Null       == Value("null", 0)
Float(v)   == Value("float", v)
Number(x)  == x.is \in {"int", "float"}
AsNumber(x) == IF Number(x) THEN Float(x.v) ELSE x
Holds(x, kinds) == x.is = "text" /\ x.quoted = 0 /\ x.holds \in kinds

Kinds      == {"null", "bool", "int", "float", "array", "object"}
IsValue(x) ==
    /\ x \in [is : Kinds \cup {"text"}, v : Int, holds : Kinds \cup {"word", "date", "itself"}, quoted : Nat]
    /\ IF x.is = "text" THEN x.holds # "itself" ELSE x.holds = "itself" /\ x.quoted = 0

\* No outcome is no value, and keys have an order.
ASSUME NoValues == ~IsValue(Fails) /\ DOMAIN Keys \subseteq Nat

\* Value::to_string, and from_str of it
Printed(x) == IF x.is = "text" THEN [x EXCEPT !.quoted = @ + 1] ELSE TextOf(x.is, x.v)
Unprinted(x) ==
    CASE x.quoted > 0                 -> [x EXCEPT !.quoted = @ - 1]
      [] Holds(x, {"word", "date"})   -> Fails
      [] OTHER                        -> Value(x.holds, x.v)

Or(condition, x) == IF condition THEN x ELSE Fails

\* apply_transform, of a field with a transformation, towards the command
Taken(by, x) ==
    CASE by = "string"       -> IF x.is = "text" THEN x ELSE Printed(x)
      [] by = "number"       -> IF Number(x) THEN x ELSE Or(Holds(x, {"int", "float"}), Float(x.v))
      [] by = "boolean"      -> IF x.is = "bool" THEN x
                                ELSE Or(Number(x) \/ Holds(x, {"bool"}) \/ (Holds(x, {"int"}) /\ x.v \in {0, 1000}),
                                        Value("bool", IF x.v = 0 THEN 0 ELSE 1))
      [] by = "timestamp_ms" -> Or(Number(x) \/ Holds(x, {"int"}), Float(x.v \div 1000))
      [] by = "timestamp_s"  -> Or(Number(x) \/ Holds(x, {"int", "float"}), Float(x.v))
      [] by = "iso_date"     -> Or(Holds(x, {"date"}), Float(x.v))
      [] by = "json"         -> IF x.is = "text" THEN Unprinted(x) ELSE x
      [] OTHER               -> x

\* apply_reverse_transform, from the command
GivenBack_Seconds(by, x) == IF by = "json" THEN Printed(x) ELSE x
GivenBack(by, x) ==
    CASE by \in {"string", "json"} -> Printed(x)
      [] by \in {"number", "timestamp_s"} -> Or(Number(x), x)
      [] by = "boolean"            -> Or(x.is = "bool", x)
      [] by = "timestamp_ms"       -> Or(Number(x), Float(x.v * 1000))
      [] by = "iso_date"           -> Or(Number(x), TextOf("date", x.v))
      [] OTHER                     -> x

-----------------------------------------------------------------------------
(* Definitions of formats.  fields: by key, the field of a command it holds, *)
(* the transformation, if the key must be there, and what it holds if not;   *)
(* schema: by key, what it may hold, and needs the keys it asks for.         *)

Simple(target)        == [target |-> target, by |-> "none", required |-> FALSE, default |-> Fails]
Complex(target, by)   == [Simple(target) EXCEPT !.by = by]

Whole == [id |-> Simple("id"), command |-> Simple("command"), parameters |-> Simple("parameters"),
          site_id |-> Simple("site_id"), node_id |-> Simple("node_id"), timestamp |-> Simple("timestamp"),
          batch_id |-> Simple("batch_id"), sequence |-> Simple("sequence")]

StandardJson ==
    [content |-> "json", looks |-> {[first |-> AnyKey, confidence |-> 8]}, fields |-> Whole, defaults |-> <<>>,
     schema |-> [id |-> {"text"}, command |-> {"text"}, parameters |-> {"object"}, site_id |-> {"text"},
                 node_id |-> {"text"}, timestamp |-> {"int", "float"}, batch_id |-> {"text"}, sequence |-> {"int"}],
     needs |-> {"id", "command", "parameters", "site_id", "node_id", "timestamp"}]

\* RESP3 begins with none of the keys.
Resp3 ==
    [content |-> "resp3", looks |-> {}, defaults |-> <<>>, schema |-> <<>>, needs |-> {},
     fields |-> [i |-> Simple("id"), c |-> Simple("command"), p |-> Simple("parameters"), ss |-> Simple("site_id"),
                 sn |-> Simple("node_id"), ts |-> Complex("timestamp", "timestamp_ms"),
                 bi |-> Simple("batch_id"), sq |-> Simple("sequence")]]

CompactJson ==
    [content |-> "json", looks |-> {[first |-> "i", confidence |-> 9]}, schema |-> <<>>, needs |-> {},
     defaults |-> [timestamp |-> Float(0)],
     fields |-> [i |-> Simple("id"), c |-> Simple("command"), p |-> Simple("parameters"), s |-> Simple("site_id"),
                 n |-> Simple("node_id"), t |-> Complex("timestamp", "timestamp_s"),
                 b |-> Simple("batch_id"), q |-> Simple("sequence")]]

Entry(name, version) == [name |-> name, version |-> version]
BuiltIn == {Entry(name, 1) : name \in {"standard_json", "resp3", "compact_json"}}
Formats == BuiltIn \cup DOMAIN Custom
Definition(entry) ==
    CASE entry = Entry("standard_json", 1) -> StandardJson
      [] entry = Entry("resp3", 1)         -> Resp3
      [] entry = Entry("compact_json", 1)  -> CompactJson
      [] OTHER                             -> Custom[entry]

\* apply_mapping: what no key maps is left out.
FieldAt(def, doc, k) ==
    LET f == def.fields[k]
    IN  IF k \in DOMAIN doc THEN Taken(f.by, doc[k]) ELSE f.default
TargetsIn(def, doc) == {k \in DOMAIN def.fields : k \in DOMAIN doc \/ def.fields[k].default # Fails}
Refuses(def, doc)  ==
    \/ \E k \in DOMAIN def.fields : k \in DOMAIN doc /\ FieldAt(def, doc, k) = Fails
    \/ \E k \in DOMAIN def.fields : def.fields[k].required /\ FieldAt(def, doc, k) = Fails
Mapped(def, doc) ==
    LET there == {def.fields[k].target : k \in TargetsIn(def, doc)}
    IN  [t \in there \cup DOMAIN def.defaults |->
            IF t \in there THEN FieldAt(def, doc, CHOOSE k \in TargetsIn(def, doc) : def.fields[k].target = t)
            ELSE def.defaults[t]]

\* apply_reverse_mapping: what has no key keeps its name.
KeyFor(def, t) == LET ks == {k \in DOMAIN def.fields : def.fields[k].target = t}
                  IN  IF ks = {} THEN t ELSE CHOOSE k \in ks : TRUE
ByFor(def, t)  == IF KeyFor(def, t) \in DOMAIN def.fields THEN def.fields[KeyFor(def, t)].by ELSE "none"
Unmappable(def, command) == \E t \in DOMAIN command : GivenBack(ByFor(def, t), command[t]) = Fails
Unmapped(def, command) ==
    [k \in {KeyFor(def, t) : t \in DOMAIN command} |->
        LET t == CHOOSE u \in DOMAIN command : KeyFor(def, u) = k IN GivenBack(ByFor(def, t), command[t])]

\* validate
Fits(kinds, x) == x.is \in kinds \/ ("int" \in kinds /\ x.is = "float" /\ x.v % 1000 = 0)
Valid(def, doc) ==
    def.needs \subseteq DOMAIN doc /\ \A k \in DOMAIN def.schema \cap DOMAIN doc : Fits(def.schema[k], doc[k])

-----------------------------------------------------------------------------
(* The registry, and the relay's translator.                               *)

FirstKey(doc) ==
    LET there == {i \in DOMAIN Keys : Keys[i] \in DOMAIN doc}
    IN  IF there = {} THEN NoKey ELSE Keys[CHOOSE i \in there : \A j \in there : i <= j]
IsObject(doc) == doc # Null

\* confidence_score, in tenths
Confidence(def, doc) ==
    LET seen == {l.confidence : l \in {k \in def.looks : k.first \in {AnyKey, FirstKey(doc)}}}
    IN  IF ~IsObject(doc) \/ seen = {} THEN 0 ELSE CHOOSE c \in seen : \A d \in seen : d <= c

\* detect_format: the first of the most confident.
Detected(doc) ==
    LET score(i) == Confidence(Definition(candidates[i]), doc)
        best == {i \in DOMAIN candidates : \A j \in DOMAIN candidates :
                    score(j) < score(i) \/ (score(j) = score(i) /\ i <= j)}
    IN  IF \E i \in best : score(i) >= 5 THEN candidates[CHOOSE i \in best : score(i) >= 5].name ELSE NoName

\* The relay asks for version 1.0.0 of either.
Original(name) == Entry(name, 1)
Format(name)   == Definition(Original(name))

\* translate_for_relay and what the relay does with it: texts that are not JSON
\* are parsed to null, and after a failure the parameters go as they are.
Convertible(source, target) ==
    /\ source # NoName /\ target # NoName /\ source # target
    /\ {Original(source), Original(target)} \subseteq registered
    /\ Format(source).content = "json" /\ Valid(Format(source), params)
    /\ ~Refuses(Format(source), params)
    /\ Format(target).content \in {"json", "resp3"}
    /\ ~Unmappable(Format(target), Mapped(Format(source), params))
Converted(source, target) ==
    IF Format(target).content = "json" THEN Unmapped(Format(target), Mapped(Format(source), params)) ELSE Null

RelayTo(s) ==
    LET source == Detected(params)
        target == declares[s]
    IN  /\ hops < MaxHops /\ hops' = hops + 1
        /\ IF Convertible(source, target)
           THEN spelled' = target /\ params' = Converted(source, target)
           ELSE UNCHANGED <<params, spelled>>
        /\ UNCHANGED <<registered, entering, candidates, declares, submitted, changes>>

\* register_format_with_metadata: the lock is given up before the format is one that
\* is detected.
Register(entry) ==
    /\ changes < MaxChanges /\ changes' = changes + 1
    /\ registered' = registered \cup {entry}
    /\ entering' = entering \cup {entry}
    /\ UNCHANGED <<candidates, declares, params, spelled, submitted, hops>>

\* set_default_format: a name keeps its place.
MakeDefault(entry) ==
    /\ entry \in entering /\ entering' = entering \ {entry}
    /\ candidates' = IF \E i \in DOMAIN candidates : candidates[i].name = entry.name
                     THEN [i \in DOMAIN candidates |->
                              IF candidates[i].name = entry.name THEN entry ELSE candidates[i]]
                     ELSE Append(candidates, entry)
    /\ UNCHANGED <<registered, declares, params, spelled, submitted, hops, changes>>

\* A service registers anew, with another native_format or none; a lookup that
\* fails is one that finds none.
Declare(s, name) ==
    /\ changes < MaxChanges /\ changes' = changes + 1
    /\ declares' = [declares EXCEPT ![s] = name]
    /\ UNCHANGED <<registered, entering, candidates, params, spelled, submitted, hops>>

Names == {e.name : e \in Formats}

TranslationInit ==
    /\ registered = BuiltIn /\ entering = {}
    /\ candidates = <<Original("standard_json"), Original("resp3"), Original("compact_json")>>
    /\ declares \in [Places -> Names \cup {NoName}]
    /\ submitted \in Submitted /\ params = submitted.text /\ spelled = submitted.format
    /\ hops = 0 /\ changes = 0

TranslationNext ==
    \/ \E s \in Places : RelayTo(s) \/ \E name \in Names \cup {NoName} : Declare(s, name)
    \/ \E entry \in DOMAIN Custom : Register(entry) \/ MakeDefault(entry)

TranslationSpec == TranslationInit /\ [][TranslationNext]_translationVars

-----------------------------------------------------------------------------
(* Properties.                                                             *)

\* What a document says to who reads it in a format, one kind of number like another.
Meaning(name, doc) ==
    LET said == Mapped(Format(name), doc)
    IN  [t \in DOMAIN said |-> AsNumber(said[t])]

\* A format that a message can be written in and read from: it has one key for each
\* field of a command, and none of them is for a text that is quoted on the way back.
CommandFields == {"id", "command", "parameters", "site_id", "node_id", "timestamp", "batch_id", "sequence"}
LossFree(def) ==
    /\ \A t \in CommandFields : \E k \in DOMAIN def.fields : def.fields[k].target = t
    /\ \A j, k \in DOMAIN def.fields : def.fields[j].target = def.fields[k].target => j = k
    /\ \A k \in DOMAIN def.fields :
           LET f == def.fields[k]
           IN  f.target \in CommandFields /\ f.by # "string" /\ (f.default = Fails \/ IsValue(f.default))
    /\ \A t \in DOMAIN def.defaults : t \in CommandFields /\ IsValue(def.defaults[t])

CustomLossFree == \A e \in DOMAIN Custom : Custom[e].content = "json" => LossFree(Custom[e])

Json == {name \in Names : Original(name) \in Formats /\ Format(name).content = "json"}
LooksLike(e, doc) == \E l \in Definition(e).looks : l.first \in {AnyKey, FirstKey(doc)}

\* Formats that are told from each other: by the first key, or by the keys they need.
Apart(e, name) ==
    \A l \in Definition(e).looks :
        /\ l.first # NoKey
        /\ IF l.first = AnyKey THEN e.name \in Json => ~(Format(e.name).needs \subseteq DOMAIN Format(name).fields)
           ELSE l.first \notin DOMAIN Format(name).fields
FormatsApart == \A e \in Formats, name \in Json : e.name # name => Apart(e, name)

\* Messages are all the format's, and ordinary parameters none that looks like its.
InFormat(name, doc) ==
    /\ name \in Json /\ DOMAIN doc \subseteq DOMAIN Format(name).fields
    /\ \A k \in DOMAIN doc : IsValue(doc[k])
Ordinary(doc) ==
    \A e \in Formats : e.name \in Json /\ LooksLike(e, doc) => ~Valid(Format(e.name), doc) \/ Refuses(Format(e.name), doc)
ClearlySubmitted ==
    \A m \in Submitted : IF m.format = NoName THEN Ordinary(m.text) ELSE InFormat(m.format, m.text)

\* Where nothing is mistaken: formats that lose nothing and can be told apart, and
\* parameters that are clearly a message or none.
Translatable == CustomLossFree /\ FormatsApart /\ ClearlySubmitted

\* Says(more, less): all that less says, and what formats fill in.
Says(more, less) == \A t \in DOMAIN less : t \in DOMAIN more /\ more[t] = less[t]

\* Parameters that are a message in some format are, after any number of services in
\* any formats, whatever is registered meanwhile, a message that says the same in the
\* format it is in; ordinary parameters arrive as they were.  (translator.rs: converts
\* transparently, and degrades to a no-op.)  Two losses are left out: what is sent to a
\* service that wants RESP3 is parsed to null on its way, and ordinary parameters that
\* begin with the key i are taken for a compact message.
TranslationKept ==
    IF submitted.format = NoName THEN params = submitted.text
    ELSE Format(spelled).content # "resp3" => Says(Meaning(spelled, params), Meaning(submitted.format, submitted.text))
=============================================================================
