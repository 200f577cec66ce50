------------------------------ MODULE MCRelay ------------------------------
(* Two descriptor numbers: the socket to the remote and one for the resolver. *)
EXTENDS Relay

TwoFds == {3, 4}

\* A client that moves between two source ports.
TwoPorts == {1001, 1002}
OnePort == {1001}
=============================================================================
