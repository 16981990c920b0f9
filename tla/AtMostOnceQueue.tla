-------------------------- MODULE AtMostOnceQueue --------------------------
(***************************************************************************)
(* What the shared worker group promises a caller about one command,       *)
(* whatever the number of nodes, their crashes and their recovery passes:  *)
(* it is executed at most once, a reply exists only for an executed        *)
(* command, and the fate of a command is final.  A command may be lost,    *)
(* and a lost command stays lost: no node comes back to it.                *)
(***************************************************************************)

CONSTANT Ids    \* the stream entries

VARIABLE fate   \* fate[i]: what has become of entry i

Fates == {"absent", "open", "executed", "answered", "lost"}

Init == fate = [i \in Ids |-> "absent"]

Submit(i) ==
    /\ fate[i] = "absent"
    /\ fate' = [fate EXCEPT ![i] = "open"]

\* The handler runs; its reply key may or may not get written.
Execute(i) ==
    /\ fate[i] = "open"
    /\ \E end \in {"executed", "answered"} : fate' = [fate EXCEPT ![i] = end]

\* One event (a crash, a trim, a dropped task) may lose several at once.
Lose(S) ==
    /\ \A i \in S : fate[i] = "open"
    /\ fate' = [i \in Ids |-> IF i \in S THEN "lost" ELSE fate[i]]

Next == (\E i \in Ids : Submit(i) \/ Execute(i)) \/ (\E S \in SUBSET Ids : Lose(S))

Spec == Init /\ [][Next]_fate
=============================================================================
