--------------------------- MODULE MCSessionTable ---------------------------
(* Instances of SessionLookup small enough to enumerate. *)
EXTENDS SessionLookup

CONSTANTS a1, a2

\* 0 and 2 have the same home slot, and 1 shares their probe: two entries fill
\* the table, a third index evicts.
ThreeIndices == {0, 1, 2}
TwoAddrs == {a1, a2}
=============================================================================
