------------------------ MODULE MCEnvironmentWorker ------------------------
(* Small instances of the environment workers for TLC.                     *)
EXTENDS EnvironmentWorker, TLC

CONSTANTS g, v      \* two nodes: g general, v accepting inference too
CONSTANT  inference \* the one hint

General   == [mode |-> "exclude", hints |-> {inference}]
Inference == [mode |-> "include", hints |-> {inference}]

MCNodes    == {g, v}
MCSleepers == {v}
MCHints    == {inference}
MCExposure == g :> {General} @@ v :> {General, Inference}
Ordered    == [lane |-> "ordered", hint |-> NoHint]
Hinted     == [lane |-> "ordered", hint |-> inference]
Concurrent == [lane |-> "concurrent", hint |-> NoHint]
Note       == [lane |-> "note", hint |-> NoHint]
AllShapes  == {Ordered, Hinted, Concurrent, Note}
CmdShapes  == {Ordered, Hinted}
=============================================================================
