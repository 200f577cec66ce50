---------------------------- MODULE MCPanelConf ----------------------------
(* Small panels: a few peers and addresses, one or two requests at a time. *)
EXTENDS PanelConf, TLC

CONSTANTS p1, p2, p3, r1, r2

TwoPeers == {p1, p2}
ThreePeers == {p1, p2, p3}

\* Two addresses for three peers: the pool runs out.
TwoIPs == {2, 3}
OneReq == {r1}
TwoReqs == {r1, r2}
Symmetry == Permutations(TwoReqs) \cup Permutations(TwoPeers)
=============================================================================
