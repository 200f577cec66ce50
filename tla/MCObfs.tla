------------------------------- MODULE MCObfs -------------------------------
(* Instances of Obfs small enough to enumerate. *)
EXTENDS Obfs

CONSTANTS c1
OneClient == {c1}
BothModes == {"gateway", "server"}
=============================================================================
