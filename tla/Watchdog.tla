------------------------------ MODULE Watchdog ------------------------------
(***************************************************************************)
(* The watchdog of the proxy (src/proxy_control.c): every five seconds the *)
(* control thread looks at what the other two threads noted since its last *)
(* look - whether anybody sent (last_active), whether the remote did       *)
(* (last_remote_rx) - and decides whether to reconnect or to give up.  It  *)
(* is composed with the part of the s2c thread it drives: the blocking     *)
(* receive, the backoff and the dial (src/proxy.c, src/proxy_reconnect.c). *)
(*                                                                         *)
(* A tick, a receive and a dial are one step each; Relay.tla splits the    *)
(* accesses the three threads make to remote_fd and reconnect_needed.      *)
(***************************************************************************)
EXTENDS Integers

CONSTANTS
    Grace,          \* CLIENT_ACTIVE_GRACE_CHECKS: 12 in the code
    Configs,        \* the configurations to start from, times in seconds
    Horizon         \* bound: where the history counters stop counting

ASSUME GraceAssumption == Grace \in Nat
ASSUME HorizonAssumption == Horizon \in Nat \ {0}
ASSUME ConfigsAssumption ==
    Configs \subseteq [timeout : Nat \ {0}, explicit : Nat, keepalive : Nat,
                       exit : Nat, drift : BOOLEAN, gro : BOOLEAN]

VARIABLES
    cfg,                                \* the configuration in force
    last_active, last_remote_rx,        \* proxy_t, read and cleared by the tick
    reconnect_needed, reconnect_drift,
    link,       \* remote_fd: "up", "shut" (by shutdown()), "down" (-1)
    port,       \* what the last dial bound: "preferred" or "fresh"
    s2c,        \* the s2c thread: "recv", "backoff", "dial"
    gro,        \* whether it receives with GRO (recvmsg) or with recvmmsg
    client_idle_ticks, remote_silent_count, remote_silent_total, inactive_count,
    exited,     \* _exit(1)
    quiet,      \* history: ticks since the client last sent
    deaf,       \* history: ticks since the remote was last heard
    lone,       \* history: successive ticks that found the client active and
                \* the remote really silent
    tried,      \* history: a reconnect was begun in the silence counted in
                \* remote_silent_total
    erased,     \* history: a reconnect wiped the note of the last reception
    echoed,     \* history: since the remote was last heard, the end of a receive
                \* was taken for traffic
    recovery    \* history: the watchdog asked for the dial to come

flags == <<last_active, last_remote_rx, reconnect_needed, reconnect_drift>>
socket == <<link, port, s2c, gro>>
counters == <<client_idle_ticks, remote_silent_count, remote_silent_total, inactive_count>>
history == <<quiet, deaf, lone, tried, erased, echoed, recovery>>
vars == <<cfg, flags, socket, counters, exited, history>>

-----------------------------------------------------------------------------
(* The timeouts, in seconds and in ticks *)

Least(a, b) == IF a < b THEN a ELSE b
Greatest(a, b) == IF a > b THEN a ELSE b

\* compute_remote_silent_timeout; a keepalive of 0 is one that is absent.
SilentTimeout(c) ==
    LET t == Greatest(30, 4 * (IF c.keepalive > 0 THEN c.keepalive ELSE 15))
    IN IF c.explicit > 0 THEN c.explicit
       ELSE IF c.exit > 0 THEN Least(t, Greatest(30, c.exit \div 2)) ELSE t

\* A tick is five seconds; a timeout is at least one.
TickSecs == 5

InTicks(secs) == Greatest(1, secs \div TickSecs)
Checks == InTicks(cfg.timeout)
SilentChecks == InTicks(SilentTimeout(cfg))
ExitChecks == InTicks(cfg.exit)

ASSUME GuardAssumption == \A c \in Configs : c.exit > 0 => InTicks(c.exit) < Horizon

\* History counters saturate.
Next1(n) == Least(n + 1, Horizon)

-----------------------------------------------------------------------------
(* The c2s thread *)

\* Anything received from the client is activity.
ClientSend ==
    /\ last_active' = TRUE
    /\ quiet' = 0
    /\ UNCHANGED <<cfg, last_remote_rx, reconnect_needed, reconnect_drift, socket,
                   counters, exited, deaf, lone, tried, erased, echoed, recovery>>

-----------------------------------------------------------------------------
(* The s2c thread *)

\* A datagram of the remote, possibly one queued before a shutdown().  The top
\* of the loop then sees a reconnect somebody asked for.  Eight datagrams that
\* came alone, and the thread gives up GRO until the next dial.
RemoteHeard ==
    /\ s2c = "recv" /\ link \in {"up", "shut"}
    /\ last_active' = TRUE
    /\ last_remote_rx' = TRUE
    /\ s2c' = IF reconnect_needed THEN "backoff" ELSE "recv"
    /\ gro' \in {gro, FALSE}
    /\ deaf' = 0 /\ lone' = 0 /\ erased' = FALSE /\ echoed' = FALSE /\ recovery' = FALSE
    /\ UNCHANGED <<cfg, reconnect_needed, reconnect_drift, link, port, counters,
                   exited, quiet, tried>>

\* The socket reports an error: the answer of the network to a datagram sent
\* on for the client within the last tick.
RecvError ==
    /\ s2c = "recv" /\ link = "up" /\ quiet <= 1
    /\ reconnect_needed' = TRUE
    /\ s2c' = "backoff"
    /\ tried' = TRUE
    /\ UNCHANGED <<cfg, last_active, last_remote_rx, reconnect_drift, link, port, gro,
                   counters, exited, quiet, deaf, lone, erased, echoed, recovery>>

\* The watchdog's shutdown() ends the blocking receive.  recvmsg (GRO) returns
\* 0, which the code takes for a closed socket; recvmmsg returns one datagram
\* of length 0, which it takes for traffic of the remote.
Wake ==
    /\ s2c = "recv" /\ link = "shut"
    /\ s2c' = "backoff"
    /\ IF gro
          THEN /\ reconnect_needed' = TRUE
               /\ UNCHANGED <<last_active, last_remote_rx, echoed>>
          ELSE /\ last_active' = TRUE /\ last_remote_rx' = TRUE /\ echoed' = TRUE
               /\ UNCHANGED reconnect_needed
    /\ UNCHANGED <<cfg, reconnect_drift, link, port, gro, counters, exited,
                   quiet, deaf, lone, tried, erased, recovery>>

\* The backoff sleep ends; proxy_do_reconnect closes the old socket.
DialBegin ==
    /\ s2c = "backoff"
    /\ s2c' = "dial"
    /\ link' = "down"
    /\ UNCHANGED <<cfg, flags, port, gro, counters, exited, history>>

\* Fault of DialOk: the drift flag is not looked at.
DialOkPreferred ==
    /\ s2c = "dial"
    /\ port' = "preferred" /\ gro' = cfg.gro
    /\ link' = "up" /\ s2c' = "recv"
    /\ last_active' = TRUE /\ last_remote_rx' = FALSE
    /\ reconnect_needed' = FALSE
    /\ erased' = (erased \/ last_remote_rx)
    /\ recovery' = FALSE
    /\ UNCHANGED <<cfg, reconnect_drift, counters, exited, quiet, deaf, lone, tried, echoed>>

\* proxy_dial_remote succeeds: the preferred port unless a recovery asked for a
\* fresh one; the accounting of the new socket starts over.
DialOk ==
    /\ s2c = "dial"
    /\ port' = IF reconnect_drift THEN "fresh" ELSE "preferred"
    /\ gro' = cfg.gro
    /\ link' = "up"
    /\ s2c' = "recv"
    /\ last_active' = TRUE
    /\ last_remote_rx' = FALSE
    /\ reconnect_needed' = FALSE
    /\ erased' = (erased \/ last_remote_rx)
    /\ recovery' = FALSE
    /\ UNCHANGED <<cfg, reconnect_drift, counters, exited, quiet, deaf, lone, tried, echoed>>

DialFail ==
    /\ s2c = "dial"
    /\ s2c' = "backoff"
    /\ UNCHANGED <<cfg, flags, link, port, gro, counters, exited, history>>

-----------------------------------------------------------------------------
(* The control thread *)

\* Fault of Trigger: the receive is not interrupted.
TriggerUnheard ==
    IF link = "down"
       THEN UNCHANGED <<reconnect_needed, reconnect_drift, link, recovery>>
       ELSE /\ reconnect_drift' = (reconnect_drift \/ cfg.drift)
            /\ reconnect_needed' = TRUE
            /\ recovery' = TRUE
            /\ UNCHANGED link

\* trigger_recovery_reconnect: nothing while a dial is under way.
Trigger ==
    IF link = "down"
       THEN UNCHANGED <<reconnect_needed, reconnect_drift, link, recovery>>
       ELSE /\ reconnect_drift' = (reconnect_drift \/ cfg.drift)
            /\ reconnect_needed' = TRUE
            /\ link' = "shut"
            /\ recovery' = TRUE

NoTrigger == UNCHANGED <<reconnect_needed, reconnect_drift, link, recovery>>

\* The tick clears the notes of the interval it looks at.
Look ==
    /\ ~exited
    /\ last_active' = FALSE
    /\ last_remote_rx' = FALSE
    /\ quiet' = Next1(quiet)
    /\ deaf' = Next1(deaf)
    /\ lone' = IF quiet = 0 /\ deaf > 0 THEN Next1(lone) ELSE 0
    /\ UNCHANGED <<cfg, port, s2c, gro, erased, echoed>>

\* Fault of HeardCounts: the count towards the reconnect goes on.
HeardCountsKept ==
    /\ UNCHANGED remote_silent_count
    /\ remote_silent_total' = 0

HeardCounts ==
    /\ remote_silent_count' = 0
    /\ remote_silent_total' = 0

\* The remote was heard: healthy.
TickHeard ==
    /\ Look
    /\ last_remote_rx
    /\ client_idle_ticks' = 0
    /\ HeardCounts
    /\ inactive_count' = 0
    /\ reconnect_drift' = FALSE
    /\ tried' = FALSE
    /\ UNCHANGED <<reconnect_needed, link, exited, recovery>>

\* Ticks without activity, counted as far as the grace period looks.
IdleTicks == IF last_active THEN 0 ELSE Least(client_idle_ticks + 1, Grace + 1)

\* Counters without a limit (the exit guard off, the client idle) saturate: the
\* code compares them with nothing further.
CountSilence == IF cfg.exit > 0 THEN remote_silent_total + 1
                ELSE Least(remote_silent_total + 1, Horizon)

\* Fault of CountedSilence: the total starts over with every reconnect.
CountedSilenceReset ==
    /\ remote_silent_total' = IF remote_silent_count = 0 THEN 1 ELSE CountSilence
    /\ inactive_count' = 0

CountedSilence ==
    /\ remote_silent_total' = CountSilence
    /\ inactive_count' = 0

\* First the exit guard, then the reconnect.
SilentTick(reconnectAt) ==
    /\ Look
    /\ ~last_remote_rx
    /\ client_idle_ticks' = IdleTicks
    /\ CountedSilence
    /\ IF cfg.exit > 0 /\ remote_silent_total' >= ExitChecks
          THEN /\ exited' = TRUE
               /\ remote_silent_count' = remote_silent_count + 1
               /\ NoTrigger /\ UNCHANGED tried
          ELSE /\ UNCHANGED exited
               /\ IF remote_silent_count + 1 >= reconnectAt
                     THEN remote_silent_count' = 0 /\ Trigger /\ tried' = TRUE
                     ELSE remote_silent_count' = remote_silent_count + 1 /\ NoTrigger
                          /\ UNCHANGED tried

\* Fault of TickSilent: an idle client is taken for an active one.
TickSilentAlways == SilentTick(SilentChecks)

\* The client has been sending within the grace period, the remote is silent.
TickSilent == IdleTicks <= Grace /\ SilentTick(SilentChecks)

\* Client and remote are quiet: only the inactivity timeout counts.
TickIdle ==
    /\ Look
    /\ ~last_remote_rx
    /\ IdleTicks > Grace
    /\ client_idle_ticks' = IdleTicks
    /\ remote_silent_count' = 0
    /\ remote_silent_total' = 0
    /\ tried' = FALSE
    /\ UNCHANGED exited
    /\ IF inactive_count + 1 >= Checks
          THEN inactive_count' = 0 /\ Trigger
          ELSE inactive_count' = inactive_count + 1 /\ NoTrigger

-----------------------------------------------------------------------------

\* proxy_startup_network has dialled, and counts as activity.
Init ==
    /\ cfg \in Configs
    /\ last_active = TRUE /\ last_remote_rx = FALSE
    /\ reconnect_needed = FALSE /\ reconnect_drift = FALSE
    /\ link = "up" /\ port = "preferred" /\ s2c = "recv" /\ gro = cfg.gro
    /\ client_idle_ticks = 0 /\ remote_silent_count = 0
    /\ remote_silent_total = 0 /\ inactive_count = 0
    /\ exited = FALSE
    /\ quiet = Horizon /\ deaf = Horizon /\ lone = 0
    /\ tried = FALSE /\ erased = FALSE /\ echoed = FALSE /\ recovery = FALSE

Tick == TickHeard \/ TickSilent \/ TickIdle
Reconnect == Wake \/ DialBegin \/ DialOk \/ DialFail

Next ==
    \/ Tick
    \/ ~exited /\ (ClientSend \/ RemoteHeard \/ RecvError \/ Reconnect)

Spec == Init /\ [][Next]_vars

\* The s2c thread keeps running; a dial that is tried again and again succeeds
\* some day.  Nothing is assumed of the client, of the remote or of the errors.
FairSpec ==
    /\ Spec
    /\ WF_vars(Tick)
    /\ WF_vars(~exited /\ (Wake \/ DialBegin \/ DialOk \/ DialFail))
    /\ SF_vars(~exited /\ DialOk)

-----------------------------------------------------------------------------
(* Properties *)

\* Every variable has its type; no counter passes the limit that resets it.
TypeOK ==
    /\ cfg \in Configs
    /\ {last_active, last_remote_rx, reconnect_needed, reconnect_drift} \subseteq BOOLEAN
    /\ link \in {"up", "shut", "down"}
    /\ port \in {"preferred", "fresh"}
    /\ s2c \in {"recv", "backoff", "dial"}
    /\ client_idle_ticks \in 0 .. Grace + 1
    /\ remote_silent_count \in 0 .. SilentChecks
    /\ remote_silent_total \in Nat
    /\ cfg.exit > 0 => remote_silent_total <= ExitChecks
    /\ inactive_count \in 0 .. Checks - 1
    /\ exited \in BOOLEAN
    /\ {quiet, deaf, lone} \subseteq 0 .. Horizon
    /\ {gro, tried, erased, echoed, recovery} \subseteq BOOLEAN

\* Neither timeout is due within two grace periods: what one reconnect adds to
\* the grace ends before the next reconnect or the exit.
GraceEnds == SilentChecks > 2 * Grace + 1 /\ ExitChecks > 2 * Grace + 1

\* The process gives up only on a client that wants something (main.c:116-119:
\* "client active").  Each reconnect counts as activity and opens the grace
\* period once more, and after a client fell quiet there can be two: one for an
\* error its last datagram met, up to a tick later, one of the watchdog.
ExitMeansClient == exited => quiet <= 3 * (Grace + 1) + 1

\* The same, where the timeouts leave the grace period time to end.
ExitOnlyWithClient == GraceEnds => ExitMeansClient

\* A reconnect is tried before the process gives up (config_runtime.h:59-60),
\* unless one is under way.
TriedBeforeExit == exited => tried \/ s2c # "recv"

\* The exit guard works: as soon as the client has been sending, and the remote
\* really silent, in as many successive ticks as the guard is set to, the process is gone.
ExitGuard == cfg.exit > 0 /\ lone >= ExitChecks => exited

\* The same, but for the end of a receive that was taken for traffic.
ExitGuardUnlessEchoed == cfg.exit > 0 /\ lone >= ExitChecks => exited \/ echoed

\* The exit follows "continuous one-sided silence" (transform.h:98-99): every
\* tick since the remote was last heard, as many as the guard is set to.
SilenceContinuous == exited => deaf > ExitChecks

\* The same, but for a reconnect that wiped the note of a reception before the
\* tick could see it.
ExitNotEarly == exited => deaf > ExitChecks \/ erased

\* The exit guard fires neither late nor early, but for those two cases.
ExitInTime == ExitGuardUnlessEchoed /\ ExitNotEarly

\* The watchdog breaks the connection only after as many ticks without the
\* remote as the shorter of its two timeouts.
NoEarlyTrigger ==
    [][link = "up" /\ link' = "shut" =>
           erased \/ deaf' >= Least(Horizon, Least(SilentChecks, Checks))]_vars

\* Every dial the watchdog asked for, with drift configured, leaves the
\* preferred source port (proxy_net.c:111-116): the 5-tuple is not the dead one.
RecoveryRotates ==
    [][recovery /\ cfg.drift /\ link = "down" /\ link' = "up" => port' = "fresh"]_vars

\* The same, but for the end of a receive that was taken for traffic.
RecoveryRotatesUnlessEchoed ==
    [][recovery /\ cfg.drift /\ link = "down" /\ link' = "up" => port' = "fresh" \/ echoed]_vars

\* A request to reconnect is served: the s2c thread does not stay in a receive
\* nobody interrupts.
RequestServed == reconnect_needed ~> (~reconnect_needed \/ exited)
=============================================================================
