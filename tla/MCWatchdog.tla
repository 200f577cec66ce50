----------------------------- MODULE MCWatchdog -----------------------------
(* Configurations of the watchdog, in seconds as the program takes them. *)
EXTENDS Watchdog

Config(t, e, k, x, d, g) ==
    [timeout |-> t, explicit |-> e, keepalive |-> k, exit |-> x, drift |-> d, gro |-> g]

\* Silent for 30 s reconnects, for 60 s exits; inactivity timeouts below and
\* above that; with GRO at first.
GroConfigs == {Config(3, 0, 5, 60, TRUE, TRUE), Config(40, 0, 5, 60, FALSE, TRUE)}

\* The same through recvmmsg.
BatchConfigs == {Config(t, 0, 5, 60, TRUE, FALSE) : t \in {3, 40}}

\* Eleven ticks to the exit, so that a reconnect of the watchdog can still add its
\* grace period to that of an error before them.
LateConfigs == {Config(40, 30, 5, 55, FALSE, TRUE)}

\* The guard switched off: reconnects for ever.
ForeverConfigs == {Config(10, 20, 0, 0, TRUE, g) : g \in BOOLEAN}

AllConfigs == GroConfigs \cup LateConfigs \cup BatchConfigs \cup ForeverConfigs

\* The defaults (no keepalive in the configuration: 60 s), the guard at two
\* minutes to keep the counterexample short.
DefaultConfigs == {Config(180, 0, 0, 120, FALSE, TRUE)}

\* A guard shorter than the least derived timeout.
ShortExitConfigs == {Config(180, 0, 25, 30, FALSE, TRUE)}
=============================================================================
