---------------------------- MODULE MCPanelAccess ----------------------------
(* Small instances of PanelAccess.                                          *)
EXTENDS PanelAccess, TLC

CONSTANTS w1, w2, w3, v1, t1

MCWorkers == {w1, w2, w3}
MCValues == {v1}
MCTokens == {t1}
MCSymmetry == Permutations(MCWorkers)

=============================================================================
