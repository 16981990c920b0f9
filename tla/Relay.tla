------------------------------- MODULE Relay -------------------------------
(***************************************************************************)
(* The relay: a command bound for a service is forwarded by the worker     *)
(* that reads it, the service answers on its own stream, and whichever     *)
(* worker reads the answer carries it to the origin and times the trip.    *)
(*                                                                         *)
(*   daemon/src/integration/relay/router.rs       resolve_one_topology     *)
(*   daemon/src/integration/relay/reply.rs        grants, the way home     *)
(*   daemon/src/integration/relay/roundtrip.rs    departure and arrival    *)
(*   daemon/src/integration/consumer_groups.rs    the forwarding loop      *)
(*                                                                         *)
(* A step is one command sent to ValKey.  A correlation id is chosen by    *)
(* the origin, so two origins may choose the same one, and an origin may   *)
(* send one again.  A service has one placement here.                      *)
(***************************************************************************)
EXTENDS Naturals, FiniteSets, Functions

CONSTANTS
    Carriers,    \* the workers of all daemons
    Origins,     \* the sites that send commands bound elsewhere
    Cids,        \* correlation ids
    Services,    \* the sites that run them
    Daemon,      \* author of a verdict
    Nothing,     \* an absent key
    MaxSends,    \* bound: commands sent
    MaxAnswers,  \* bound: answers written
    MaxRelayFaults   \* bound: refused writes, dead workers, misdirected answers, expired keys

Reqs    == Origins \X Cids
Id(r)   == r[2]
Entries == 1 .. MaxSends + MaxAnswers + MaxRelayFaults
Job     == [req : Reqs, svc : Services, at : Entries]
Empty   == [req |-> Nothing, svc |-> Nothing, at |-> 0]
Stamped(h, e) == [req |-> h.req, svc |-> h.svc, at |-> e]   \* as ValKey numbers it
Hand    == {Empty} \cup [req : Reqs, svc : Services \cup {Nothing}, at : {0} \cup Entries]
Steps   == {"idle", "verdict", "grant", "send", "note", "depart",
            "key", "claim", "copy", "unclaim", "take", "arrive", "credit"}

ASSUME PartiesAssumption == Daemon \notin Services /\ Nothing \notin Services \cup {Daemon} \cup Reqs
ASSUME RelayBounds == MaxSends \in Nat /\ MaxAnswers \in Nat /\ MaxRelayFaults \in Nat

VARIABLES
    clock,     \* entry ids ValKey has given out
    asked,     \* asked[r]: entries of command r its origin's stream still holds unread
    sends,     \* commands sent
    jobs,      \* commands forwarded to the services, with their entry ids
    replies,   \* answers on the services' streams no daemon has read
    answers,   \* answers[e]: answers written to the forward with entry id e
    grant,     \* grant[r]: {ns}:gnode:relay:grant:{origin}:{id}
    sent,      \* sent[i]: {ns}:gnode:relay:sent:{id}, the departure
    inflight,  \* the :inflight: sets of the placements
    res,       \* res[r]: who wrote {origin}:res:{id}
    marker,    \* marker[r]: {origin}:res:{id}:fwd exists
    step,      \* step[w]: the next command of worker w
    hand,      \* hand[w]: the forward or the answer in its hands
    trip,      \* trip[w]: the departure it has taken
    \* history, read by the properties only
    entrusted, \* entrusted[r]: services r was granted to
    copies,    \* copies[r]: answers put on the origin's stream
    lives,     \* lives[r]: lives of the marker of r
    refused,   \* answers refused for want of a grant
    credited,  \* credited[j]: observations of the trip of forward j
    relayFaults

streams == <<clock, asked, sends, jobs, replies, answers>>
forward == <<grant, entrusted>>
timing  == <<sent, inflight, credited>>
home    == <<res, marker, copies, lives>>
worker  == <<step, hand, trip>>
relayVars == <<clock, asked, sends, jobs, replies, answers, grant, sent, inflight, res,
               marker, step, hand, trip, entrusted, copies, lives, refused, credited,
               relayFaults>>

RelayInit ==
    /\ clock = 0 /\ jobs = {} /\ replies = {} /\ inflight = {}
    /\ asked = [r \in Reqs |-> 0] /\ sends = 0
    /\ answers = [e \in Entries |-> 0]
    /\ grant = [r \in Reqs |-> Nothing] /\ sent = [i \in Cids |-> Empty]
    /\ res = [r \in Reqs |-> Nothing] /\ marker = [r \in Reqs |-> FALSE]
    /\ step = [w \in Carriers |-> "idle"] /\ hand = [w \in Carriers |-> Empty]
    /\ trip = [w \in Carriers |-> Empty]
    /\ entrusted = [r \in Reqs |-> {}] /\ copies = [r \in Reqs |-> 0] /\ lives = [r \in Reqs |-> 1]
    /\ refused = {} /\ credited = [e \in Entries |-> 0]
    /\ relayFaults = 0

Ready(w, k) == step[w] = k
Go(w, k)    == step' = [step EXCEPT ![w] = k]
Finish(w)   == Go(w, "idle") /\ hand' = [hand EXCEPT ![w] = Empty] /\ trip' = [trip EXCEPT ![w] = Empty]
Onward(w, k) == Go(w, k) /\ UNCHANGED <<hand, trip>>
Fault       == relayFaults < MaxRelayFaults /\ relayFaults' = relayFaults + 1
Mine(w)     == hand[w].req

-----------------------------------------------------------------------------
(* The way out.                                                            *)

\* An origin writes a command with _rt to its own stream, for the first time or again.
Ask(r) ==
    /\ sends < MaxSends
    /\ sends' = sends + 1 /\ asked' = [asked EXCEPT ![r] = @ + 1]
    /\ UNCHANGED <<clock, jobs, replies, answers, forward, timing, home, worker, refused, relayFaults>>

\* The worker reads it and resolves the target once.  A ring or a capability query may
\* answer with any service; no service, a resolution error, a denied REACH and a target
\* that is the origin itself end in a keyed verdict of the daemon.
Resolve(w, r) ==
    /\ Ready(w, "idle") /\ asked[r] > 0
    /\ asked' = [asked EXCEPT ![r] = @ - 1]
    /\ \/ Go(w, "verdict") /\ hand' = [hand EXCEPT ![w] = [req |-> r, svc |-> Nothing, at |-> 0]]
       \/ \E s \in Services :
             Go(w, "grant") /\ hand' = [hand EXCEPT ![w] = [req |-> r, svc |-> s, at |-> 0]]
    /\ UNCHANGED <<clock, sends, jobs, replies, answers, forward, timing, home, trip, refused, relayFaults>>

\* key_relay_verdict, or the reply of a command that turned out to be local.
Verdict(w) ==
    /\ Ready(w, "verdict")
    /\ res' = [res EXCEPT ![Mine(w)] = Daemon]
    /\ Finish(w)
    /\ UNCHANGED <<streams, forward, timing, marker, copies, lives, refused, relayFaults>>

Grant_PerId(w) ==
    /\ Ready(w, "grant")
    /\ grant' = [r \in Reqs |-> IF Id(r) = Id(Mine(w)) THEN hand[w].svc ELSE grant[r]]
    /\ entrusted' = [entrusted EXCEPT ![Mine(w)] = @ \cup {hand[w].svc}]
    /\ Onward(w, "send")
    /\ UNCHANGED <<streams, timing, home, refused, relayFaults>>

\* The target, and only the target, may answer to this origin.
Grant(w) ==
    /\ Ready(w, "grant")
    /\ grant' = [grant EXCEPT ![Mine(w)] = hand[w].svc]
    /\ entrusted' = [entrusted EXCEPT ![Mine(w)] = @ \cup {hand[w].svc}]
    /\ Onward(w, "send")
    /\ UNCHANGED <<streams, timing, home, refused, relayFaults>>

\* XADD to the placement's stream.  A refused write is logged and acknowledged as relayed.
Send(w) ==
    /\ Ready(w, "send")
    /\ \/ /\ clock + 1 \in Entries /\ clock' = clock + 1
          /\ jobs' = jobs \cup {Stamped(hand[w], clock + 1)}
          /\ Go(w, "note") /\ hand' = [hand EXCEPT ![w] = Stamped(@, clock + 1)]
          /\ UNCHANGED <<trip, relayFaults>>
       \/ /\ Fault
          /\ Finish(w) /\ UNCHANGED <<clock, jobs>>
    /\ UNCHANGED <<asked, sends, replies, answers, forward, timing, home, refused>>

\* note_departure: one key per correlation id, whoever's it is.
Note(w) ==
    /\ Ready(w, "note")
    /\ sent' = [sent EXCEPT ![Id(Mine(w))] = hand[w]]
    /\ Onward(w, "depart")
    /\ UNCHANGED <<streams, forward, inflight, credited, home, refused, relayFaults>>

Depart_ByOrigin(w) ==
    /\ Ready(w, "depart")
    /\ inflight' = inflight \cup {<<hand[w].svc, Mine(w)>>}
    /\ Finish(w)
    /\ UNCHANGED <<streams, forward, sent, credited, home, refused, relayFaults>>

\* GNODE_TOPO_DEPART
Depart(w) ==
    /\ Ready(w, "depart")
    /\ inflight' = inflight \cup {<<hand[w].svc, Id(Mine(w))>>}
    /\ Finish(w)
    /\ UNCHANGED <<streams, forward, sent, credited, home, refused, relayFaults>>

-----------------------------------------------------------------------------
(* The services.                                                           *)

\* A service answers a forward on its own stream, with the id and the _rr it was given.
Reply(j) ==
    /\ FoldFunction(+, 0, answers) < MaxAnswers
    /\ answers' = [answers EXCEPT ![j.at] = @ + 1]
    /\ clock + 1 \in Entries /\ clock' = clock + 1
    /\ replies' = replies \cup {Stamped(j, clock + 1)}
    /\ UNCHANGED <<asked, sends, jobs, forward, timing, home, worker, refused, relayFaults>>

\* It answers with an id or an _rr it was not given.
Misdirect(s, r) ==
    /\ Fault
    /\ clock + 1 \in Entries /\ clock' = clock + 1
    /\ replies' = replies \cup {[req |-> r, svc |-> s, at |-> clock + 1]}
    /\ UNCHANGED <<asked, sends, jobs, answers, forward, timing, home, worker, refused>>

-----------------------------------------------------------------------------
(* The way home.                                                           *)

\* reply_was_asked_for: the grant names this stream's site, for this origin and id.
Granted(p) == grant[p.req] = p.svc

Collect_Dropped(w, p) ==
    /\ Ready(w, "idle") /\ p \in replies
    /\ replies' = replies \ {p}
    /\ UNCHANGED <<clock, asked, sends, jobs, answers, forward, timing, home, worker, refused, relayFaults>>

\* XREADGROUP hands the answer to one worker, which looks for its grant; without one the
\* answer is not carried, but the trip it may end is still looked up.
Collect(w, p) ==
    /\ Ready(w, "idle") /\ p \in replies
    /\ replies' = replies \ {p}
    /\ hand' = [hand EXCEPT ![w] = p]
    /\ IF Granted(p) THEN Go(w, "key") /\ UNCHANGED refused
                     ELSE Go(w, "take") /\ refused' = refused \cup {p}
    /\ UNCHANGED <<clock, asked, sends, jobs, answers, forward, timing, home, trip, relayFaults>>

\* deliver_service_reply: SET {origin}:res:{id}
Key(w) ==
    /\ Ready(w, "key")
    /\ res' = [res EXCEPT ![Mine(w)] = hand[w].svc]
    /\ Onward(w, "claim")
    /\ UNCHANGED <<streams, forward, timing, marker, copies, lives, refused, relayFaults>>

Claim_NoNX(w) ==
    /\ Ready(w, "claim")
    /\ Onward(w, "copy") /\ marker' = [marker EXCEPT ![Mine(w)] = TRUE]
    /\ UNCHANGED <<streams, forward, timing, res, copies, lives, refused, relayFaults>>

\* forward_to_origin_stream: SET marker NX
Claim(w) ==
    /\ Ready(w, "claim")
    /\ IF marker[Mine(w)] THEN Onward(w, "take") /\ UNCHANGED marker
                          ELSE Onward(w, "copy") /\ marker' = [marker EXCEPT ![Mine(w)] = TRUE]
    /\ UNCHANGED <<streams, forward, timing, res, copies, lives, refused, relayFaults>>

\* XADD to the origin's stream; a refused write releases the marker.
Copy(w) ==
    /\ Ready(w, "copy")
    /\ \/ /\ copies' = [copies EXCEPT ![Mine(w)] = @ + 1]
          /\ Onward(w, "take") /\ UNCHANGED relayFaults
       \/ Fault /\ Onward(w, "unclaim") /\ UNCHANGED copies
    /\ UNCHANGED <<streams, forward, timing, res, marker, lives, refused>>

Unclaim(w) ==
    /\ Ready(w, "unclaim")
    /\ marker' = [marker EXCEPT ![Mine(w)] = FALSE]
    /\ Onward(w, "take")
    /\ UNCHANGED <<streams, forward, timing, res, copies, lives, refused, relayFaults>>

-----------------------------------------------------------------------------
(* The trip.                                                               *)

\* note_arrival: GETDEL of the departure.
Take(w) ==
    /\ Ready(w, "take")
    /\ LET i == Id(Mine(w)) IN
       /\ sent' = [sent EXCEPT ![i] = Empty]
       /\ IF sent[i] = Empty THEN Finish(w)
          ELSE Go(w, "arrive") /\ trip' = [trip EXCEPT ![w] = sent[i]] /\ UNCHANGED hand
    /\ UNCHANGED <<streams, forward, inflight, credited, home, refused, relayFaults>>

\* settle: an answer from another service, or older than the forward, is not a trip.
Observed(h, d) == h.svc = d.svc /\ h.at >= d.at

\* GNODE_TOPO_ARRIVE closes the in-flight entry of the placement that was sent the work.
Arrive(w) ==
    /\ Ready(w, "arrive")
    /\ inflight' = inflight \ {<<trip[w].svc, Id(Mine(w))>>}
    /\ IF Observed(hand[w], trip[w]) THEN Onward(w, "credit") ELSE Finish(w)
    /\ UNCHANGED <<streams, forward, sent, credited, home, refused, relayFaults>>

\* The observation goes onto the provider's load stream.
Credit(w) ==
    /\ Ready(w, "credit")
    /\ credited' = [credited EXCEPT ![trip[w].at] = @ + 1]
    /\ Finish(w)
    /\ UNCHANGED <<streams, forward, sent, inflight, home, refused, relayFaults>>

-----------------------------------------------------------------------------
(* Time and failure.                                                       *)

\* The worker dies with what it holds.
Die(w) ==
    /\ step[w] # "idle" /\ Fault
    /\ Finish(w)
    /\ UNCHANGED <<streams, forward, timing, home, refused>>

\* RELAYED_REPLY_TTL_SECS runs out, for the reply or for its marker.
ForgetReply(r) ==
    /\ res[r] # Nothing /\ Fault
    /\ res' = [res EXCEPT ![r] = Nothing]
    /\ UNCHANGED <<streams, forward, timing, marker, copies, lives, worker, refused>>

LapseMarker(r) ==
    /\ marker[r] /\ Fault
    /\ marker' = [marker EXCEPT ![r] = FALSE] /\ lives' = [lives EXCEPT ![r] = @ + 1]
    /\ UNCHANGED <<streams, forward, timing, res, copies, worker, refused>>

RelayStep(w) ==
    \/ \E r \in Reqs : Resolve(w, r)
    \/ Verdict(w) \/ Grant(w) \/ Send(w) \/ Note(w) \/ Depart(w)
    \/ \E p \in replies : Collect(w, p)
    \/ Key(w) \/ Claim(w) \/ Copy(w) \/ Unclaim(w) \/ Take(w) \/ Arrive(w) \/ Credit(w)

RelayNext ==
    \/ \E w \in Carriers : RelayStep(w) \/ Die(w)
    \/ \E r \in Reqs : Ask(r) \/ ForgetReply(r) \/ LapseMarker(r)
    \/ \E j \in jobs : Reply(j)
    \/ \E s \in Services, r \in Reqs : Misdirect(s, r)

RelaySpec == RelayInit /\ [][RelayNext]_relayVars

-----------------------------------------------------------------------------
(* Properties.                                                             *)

RelayTypeOK ==
    /\ clock \in 0 .. MaxSends + MaxAnswers + MaxRelayFaults
    /\ asked \in [Reqs -> 0 .. MaxSends] /\ sends \in 0 .. MaxSends
    /\ jobs \subseteq Job /\ replies \subseteq Job /\ refused \subseteq Job
    /\ answers \in [Entries -> Nat] /\ credited \in [Entries -> Nat]
    /\ grant \in [Reqs -> Services \cup {Nothing}] /\ sent \in [Cids -> Hand]
    /\ inflight \subseteq Services \X Cids
    /\ res \in [Reqs -> Services \cup {Daemon, Nothing}] /\ marker \in [Reqs -> BOOLEAN]
    /\ step \in [Carriers -> Steps] /\ hand \in [Carriers -> Hand] /\ trip \in [Carriers -> Hand]
    /\ entrusted \in [Reqs -> SUBSET Services]
    /\ copies \in [Reqs -> Nat] /\ lives \in [Reqs -> Nat \ {0}]
    /\ relayFaults \in 0 .. MaxRelayFaults

\* The relay keeps its promise to the origin: whoever's id collides, whatever is sent,
\* answered or refused again, and wherever a worker dies, the polled key and the origin's
\* stream hold the answer of a service the command was entrusted to, copied once.
Carrier == INSTANCE ReplyCarrier WITH
    Requests <- Reqs, Parties <- Services, Daemon <- Daemon, Nothing <- Nothing,
    entrusted <- entrusted, reply <- res, copies <- copies, lives <- lives
KeepsItsPromise == Carrier!Spec

\* reply.rs: a grant is left before its command leaves, and under its origin: however
\* fast the service answers, its answer is refused only if the origin sent the command
\* again and it went elsewhere.
PromptAnswerWelcome ==
    [][\A p \in refused' \ refused :
        (\E j \in jobs : j.req = p.req /\ j.svc = p.svc) => entrusted[p.req] # {p.svc}]_relayVars

\* When no worker has died and no write was refused, and all answers have been read and
\* dealt with, a command that was answered has its answer on the origin's stream, unless
\* the origin sent it again and the answer was refused.  And, roundtrip.rs: GETDEL makes the
\* observation of a trip exactly-once however many workers see however many answers.
AtRest == replies = {} /\ \A w \in Carriers : step[w] = "idle"
AnswerIsHome ==
    /\ AtRest /\ relayFaults = 0 =>
           \A j \in jobs : answers[j.at] > 0 =>
               copies[j.req] > 0 \/ \E p \in refused : p.req = j.req
    /\ \A e \in Entries : credited[e] <= 1

=============================================================================
