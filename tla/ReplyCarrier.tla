---------------------------- MODULE ReplyCarrier ----------------------------
(***************************************************************************)
(* What the relay promises an origin, whatever its workers interleave: the *)
(* key it polls holds a verdict of the daemon or the answer of a service   *)
(* its command was entrusted to, never anybody else's; and of such answers *)
(* one copy is put on its stream per life of the marker that guards it.    *)
(***************************************************************************)
EXTENDS Naturals

CONSTANTS
    Requests,  \* the commands addressed to another party
    Parties,   \* the services
    Daemon,    \* the author of a verdict
    Nothing    \* no reply

VARIABLES
    entrusted,  \* entrusted[r]: the services r was entrusted to
    reply,      \* reply[r]: the author of what the origin finds under its key
    copies,     \* copies[r]: answers put on the origin's stream
    lives       \* lives[r]: lives the marker of r has begun

carried == <<entrusted, reply, copies, lives>>

Init ==
    /\ entrusted = [r \in Requests |-> {}] /\ reply = [r \in Requests |-> Nothing]
    /\ copies = [r \in Requests |-> 0] /\ lives = [r \in Requests |-> 1]

Entrust(r, s) ==
    /\ entrusted' = [entrusted EXCEPT ![r] = @ \cup {s}]
    /\ UNCHANGED <<reply, copies, lives>>

Refuse(r) ==
    /\ reply' = [reply EXCEPT ![r] = Daemon]
    /\ UNCHANGED <<entrusted, copies, lives>>

Answer(r, s) ==
    /\ s \in entrusted[r]
    /\ reply' = [reply EXCEPT ![r] = s]
    /\ UNCHANGED <<entrusted, copies, lives>>

Copy(r) ==
    /\ entrusted[r] # {} /\ copies[r] < lives[r]
    /\ copies' = [copies EXCEPT ![r] = @ + 1]
    /\ UNCHANGED <<entrusted, reply, lives>>

\* Replies and markers are kept for RELAYED_REPLY_TTL_SECS.
Forget(r) ==
    /\ reply' = [reply EXCEPT ![r] = Nothing]
    /\ UNCHANGED <<entrusted, copies, lives>>

Lapse(r) ==
    /\ lives' = [lives EXCEPT ![r] = @ + 1]
    /\ UNCHANGED <<entrusted, reply, copies>>

Next ==
    \E r \in Requests :
        \/ Refuse(r) \/ Copy(r) \/ Forget(r) \/ Lapse(r)
        \/ \E s \in Parties : Entrust(r, s) \/ Answer(r, s)

Spec == Init /\ [][Next]_carried
=============================================================================
