------------------------------ MODULE MCCommands ------------------------------
(* What becomes of a request, side by side: which placement it is routed   *)
(* to, how a batch of commands is run, how an answer comes home from       *)
(* another service, and what becomes of a channel a command opens and of a *)
(* template it registers.  The parts share no state, so a behaviour is one *)
(* of a single part, the others at rest.                                   *)
(*                                                                         *)
(* Rings of up to three placements, three cycles of the longest.  Batches  *)
(* of up to two entries on a tenant's stream and on that of a served       *)
(* constellation: every kind of command, with and without ids, and saying  *)
(* what site it is from.  Two workers carry for two origins that chose the *)
(* same correlation id, to two services.  Two channels of two services over*)
(* five seconds and a failed call; they go by the names of the origins.    *)
(* Three templates, two threads, two registrations or deletions and a      *)
(* failed call.                                                            *)
EXTENDS RouteRing, CommandBatch, Relay, DirectChannel, TemplateGraph, TLC

CONSTANTS t1, t2, rid,
          w1, w2, o1, o2, cid, s1, s2,
          e1, e2, e3

MCTenants == {t1, t2}
MCRids    == {rid}
Handled   == {"ordered", "concurrent"}
MCCommands ==
    {c \in Command :
        /\ c.rr \in {NoSite, t2}
        /\ IF c.kind \in Handled THEN c.says # Served
                                  ELSE c.says = t2 /\ c.id = rid /\ c.param = NoId}

MCCarriers == {w1, w2}
MCOrigins  == {o1, o2}
MCCids     == {cid}
MCServices == {s1, s2}
MCIds      == {e1, e2, e3}

Symmetric == Permutations(MCCarriers) \cup Permutations(MCOrigins) \cup Permutations(MCServices)

VARIABLE part

commandsVars == <<part, ringVars, batchVars, relayVars, channelVars, templateVars>>

\* The ring and the batch at rest.
RingAtRest  == ws = <<1>>
BatchAtRest == laneUp = TRUE /\ owner = Served /\ batch = <<CHOOSE c \in Commands : TRUE>>

CommandsInit ==
    /\ part \in {"ring", "batch", "relay", "channels", "templates"}
    /\ (IF part = "ring" THEN TRUE ELSE RingAtRest) /\ RingInit
    /\ (IF part = "batch" THEN TRUE ELSE BatchAtRest) /\ BatchInit
    /\ RelayInit /\ ChannelInit /\ TemplateInit

CommandsNext ==
    \/ /\ part = "ring" /\ RingNext
       /\ UNCHANGED <<part, batchVars, relayVars, channelVars, templateVars>>
    \/ /\ part = "batch" /\ BatchNext
       /\ UNCHANGED <<part, ringVars, relayVars, channelVars, templateVars>>
    \/ /\ part = "relay" /\ RelayNext
       /\ UNCHANGED <<part, ringVars, batchVars, channelVars, templateVars>>
    \/ /\ part = "channels" /\ ChannelNext
       /\ UNCHANGED <<part, ringVars, batchVars, relayVars, templateVars>>
    \/ /\ part = "templates" /\ TemplateNext
       /\ UNCHANGED <<part, ringVars, batchVars, relayVars, channelVars>>

CommandsSpec == CommandsInit /\ [][CommandsNext]_commandsVars
=============================================================================
