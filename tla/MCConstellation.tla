-------------------------- MODULE MCConstellation --------------------------
(* Two hosts, one of which runs a daemon, gNode, and services.             *)
EXTENDS Constellation

CONSTANTS n, m            \* a host with a daemon and one without
CONSTANTS g, s, t         \* gNode, two services
CONSTANTS beatS, beatD    \* heartbeat names: the services', the daemon's
CONSTANTS r1              \* a registration

App(f, w) == [sh |-> "3.2", f |-> f, w |-> w, hb |-> beatS]

\* s is declared always the same; m is a node that an operator registers.
MCDeclared == [i \in {n, m, g, s} |-> IF i = s THEN {App(1, 1)} ELSE IF i = m THEN {NodeDecl} ELSE {}]
MCBeats    == {<<beatS, n>>, <<beatS, m>>}
MCEdges    == {<<s, n>>, <<<<s, n>>, <<s, m>>>>}
MCDerived  == {<<<<s, n>>, "load", 1>>, <<<<s, n>>, "lifecycle", 2>>}

\* The fundamentality of s is declared anew, below and above that of t.
MovingDeclared == [i \in {n, g, s, t} |->
    IF i = s THEN {App(0, 1), App(2, 1)} ELSE IF i = t THEN {App(1, 1)} ELSE {}]
MovingEdges == {<<s, t>>, <<t, s>>}

\* s is declared with weight 1, or as a standby.
StandbyDeclared == [i \in {n, g, s} |-> IF i = s THEN {App(1, 0), App(1, 1)} ELSE {}]
StandbyBeats    == {<<beatS, n>>}

Nothing == {}
=============================================================================
