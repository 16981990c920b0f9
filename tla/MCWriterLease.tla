--------------------------- MODULE MCWriterLease ---------------------------
(* Two daemons that serve the same two constellations, in the same order.  *)
EXTENDS WriterLease

CONSTANTS a, b    \* the daemons
CONSTANTS c1, c2  \* the constellations

MCNodes  == {a, b}
MCCons   == {c1, c2}
MCServed == [n \in MCNodes |-> <<c1, c2>>]
=============================================================================
