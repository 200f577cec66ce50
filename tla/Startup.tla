------------------------------- MODULE Startup -------------------------------
(***************************************************************************)
(* The life of the proxy process from proxy_run() to its end: opening the  *)
(* sockets, the retries of the first dial, the threads, the redials of the *)
(* s2c thread with their backoff, the window of DNS failures that ends the *)
(* process, the signal that stops it, and what is closed at the end        *)
(* (proxy.c, proxy_startup.c, proxy_net.c, proxy_control.c,                *)
(* proxy_shutdown.c).  Relay.tla has the accesses of the threads to the    *)
(* remote socket; here a redial closes in one step and dials in another.   *)
(*                                                                         *)
(* Time is counted in seconds.  A sleep lasts what it is given, a dial at  *)
(* most MaxResolve, the start of the threads any time, and the other steps *)
(* that wait for nothing none.  Of the monotonic clock only differences    *)
(* matter; the instants the code keeps are ages here, which stop growing   *)
(* at Horizon.                                                             *)
(***************************************************************************)
EXTENDS Integers, FiniteSets

CONSTANTS
    Configs,          \* [retries, dns]: connect_retries, dns_resolve_failure_timeout
    MaxStartDelay,    \* 60: the longest wait between first dials
    MaxBackoff,       \* 30: the longest wait before a redial
    MaxResolve,       \* bound on the seconds a dial takes
    Descriptors,      \* bound: the descriptor numbers the process may get
    Horizon           \* bound: where ages stop growing

ASSUME ConfigsAssumption == Configs \subseteq [retries : Nat, dns : Nat]
ASSUME TimesAssumption ==
    /\ MaxStartDelay \in Nat \ {0} /\ MaxBackoff \in Nat \ {0} /\ MaxResolve \in Nat
    /\ Horizon \in Nat
    /\ \A c \in Configs : c.dns + MaxStartDelay + MaxBackoff + MaxResolve < Horizon
ASSUME DescriptorsAssumption == Descriptors \subseteq Nat

VARIABLES
    limits,           \* what the configuration says of retries and of DNS
    main,             \* where proxy_run() is
    s2c, c2s,         \* where the threads are
    left,             \* seconds left of the sleep or the dial of main and s2c
    attempt,          \* first dials that failed
    backoff,          \* reconnect_backoff
    dnsAge,           \* age of dns_resolve_fail_started_at, or Never
    fd,               \* listen_fd, remote_fd, signal_fd, timer_fd, epfd
    open,             \* the kernel's descriptors: number -> what it is
    signal,           \* SIGTERM: "none", "pending", "seen"
    stopped,
    ended,            \* how the process ended, or "no"
    failAge,          \* history: age of the first resolution that failed since
                      \* the last that did not, or Never
    lastAge,          \* history: failAge at the last resolution that failed
    stopAge,          \* history: age of the signal, or Never
    strayClose        \* history: a close() hit a descriptor of something else

threads == <<main, s2c, c2s, left>>
dns == <<dnsAge, failAge, lastAge>>
startVars == <<limits, threads, attempt, backoff, dns, fd, open, signal, stopped,
              ended, stopAge, strayClose>>

Never == -1
Closed == -1
Slots == {"listen", "remote", "signal", "timer", "epoll"}

Min2(a, b) == IF a < b THEN a ELSE b
Older(age) == IF age = Never THEN Never ELSE Min2(age + 1, Horizon)

-----------------------------------------------------------------------------
(* Descriptors.  The kernel hands out the lowest free number.              *)

Free == Descriptors \ DOMAIN open
Lowest(n) == n \in Free /\ \A m \in Free : n <= m

\* A call that yields a descriptor, and the slot that keeps it.
Open(what) ==
    \E new \in Free :
        /\ Lowest(new)
        /\ open' = [n \in DOMAIN open \cup {new} |-> IF n = new THEN what ELSE open[n]]
        /\ fd' = [fd EXCEPT ![what] = new]

Without(numbers) == [n \in DOMAIN open \ numbers |-> open[n]]

\* close() of the numbers that slots hold: the kernel closes whatever is there.
Closing(slots) ==
    LET held == {fd[s] : s \in slots} \ {Closed}
    IN  /\ open' = Without(held)
        /\ strayClose' = (strayClose \/ \E s \in slots :
                            fd[s] \in DOMAIN open /\ open[fd[s]] # s)

-----------------------------------------------------------------------------
(* proxy_dial_remote() for main ("dial") or the s2c thread.                *)

\* The resolver failed; the window opens at the first failure, and a failure
\* at the end of it ends the process.
Overdue(age) == limits.dns > 0 /\ age >= limits.dns

ResolveFails ==
    LET age == IF dnsAge = Never THEN 0 ELSE dnsAge
    IN  /\ dnsAge' = IF limits.dns > 0 THEN age ELSE dnsAge
        /\ failAge' = IF failAge = Never THEN 0 ELSE failAge
        /\ lastAge' = failAge'
        /\ ended' = IF Overdue(age) THEN "dns" ELSE ended

\* Fault of Resolved: the window stays open.
ResolvedKeepsWindow ==
    failAge' = Never /\ lastAge' = Never /\ UNCHANGED <<dnsAge, ended>>

\* It succeeded: the window is closed, whatever becomes of the socket.
Resolved ==
    dnsAge' = Never /\ failAge' = Never /\ lastAge' = Never /\ UNCHANGED ended

\* A dial that yields no socket: not resolved, none created, or created and
\* closed again because it cannot be bound or connected.
DialFails ==
    /\ ResolveFails \/ Resolved
    /\ UNCHANGED <<open, fd, strayClose>>

DialSucceeds ==
    /\ Resolved
    /\ Open("remote")
    /\ UNCHANGED strayClose

-----------------------------------------------------------------------------
(* The main thread: proxy_run() and what it calls.                         *)

Alive == ended = "no"

MainAt(here) == Alive /\ main = here

Listen ==
    /\ MainAt("listen")
    /\ \/ /\ main' = "dial" /\ left' = [left EXCEPT !.main = MaxResolve]
          /\ Open("listen")
       \/ /\ main' = "cleanup" /\ UNCHANGED <<left, open, fd>>     \* socket()
       \/ /\ main' = "cleanup" /\ UNCHANGED <<left, open>>         \* bind(): closed,
          /\ \E n \in Free :                                        \* not forgotten
                Lowest(n) /\ fd' = [fd EXCEPT !.listen = n]
    /\ UNCHANGED <<limits, s2c, c2s, attempt, backoff, dns, signal, stopped, ended,
                   stopAge, strayClose>>

\* Fault of RetriesUsed: the attempts are not counted against the limit.
RetriesUnbounded == FALSE

\* connect_retries is used up.
RetriesUsed == limits.retries > 0 /\ attempt + 1 >= limits.retries

\* The wait after the n-th failure: doubled each time up to a minute.
Doubled == <<1, 2, 4, 8, 16, 32, 64>>
StartDelay(n) == Min2(Doubled[Min2(n, 7)], MaxStartDelay)

\* Fault of NextBackoff: the doubling does not end.
BackoffUncapped(b) == b * 2

NextBackoff(b) == Min2(b * 2, MaxBackoff)

FirstDialFails ==
    /\ MainAt("dial")
    /\ attempt' = Min2(attempt + 1, limits.retries + 7)          \* bound
    /\ \/ /\ RetriesUsed
          /\ ResolveFails \/ Resolved
          /\ Closing({"listen"})
          /\ main' = "cleanup" /\ UNCHANGED <<left, fd>>
       \/ /\ ~RetriesUsed
          /\ DialFails
          /\ main' = "sleep" /\ left' = [left EXCEPT !.main = StartDelay(attempt')]
    /\ UNCHANGED <<limits, s2c, c2s, backoff, signal, stopped, stopAge>>

FirstDialSucceeds ==
    /\ MainAt("dial")
    /\ DialSucceeds
    /\ main' = "control"
    /\ UNCHANGED <<limits, s2c, c2s, left, attempt, backoff, signal, stopped, stopAge>>

Awake ==
    /\ MainAt("sleep") /\ left.main = 0
    /\ main' = "dial" /\ left' = [left EXCEPT !.main = MaxResolve]
    /\ UNCHANGED <<limits, s2c, c2s, attempt, backoff, dns, fd, open, signal, stopped,
                   ended, stopAge, strayClose>>

\* proxy_control_init(): the signal and the timer descriptor, or neither.
ControlInit ==
    /\ MainAt("control")
    /\ \/ /\ main' = "cleanup" /\ UNCHANGED <<fd, open>>
       \/ /\ main' = "timer"
          /\ Open("signal")
    /\ UNCHANGED <<limits, s2c, c2s, left, attempt, backoff, dns, signal, stopped, ended,
                   stopAge, strayClose>>

TimerInit ==
    /\ MainAt("timer")
    /\ \/ /\ main' = "cleanup"
          /\ Closing({"signal"}) /\ fd' = [fd EXCEPT !.signal = Closed]
       \/ /\ main' = "c2s"
          /\ Open("timer")
          /\ UNCHANGED strayClose
    /\ UNCHANGED <<limits, s2c, c2s, left, attempt, backoff, dns, signal, stopped, ended,
                   stopAge>>

StartC2s ==
    /\ MainAt("c2s")
    /\ \/ main' = "cleanup" /\ UNCHANGED c2s
       \/ main' = "s2c" /\ c2s' = "run"
    /\ UNCHANGED <<limits, s2c, left, attempt, backoff, dns, fd, open, signal, stopped,
                   ended, stopAge, strayClose>>

StartS2c ==
    /\ MainAt("s2c")
    /\ \/ main' = "shutdown" /\ UNCHANGED s2c
       \/ main' = "epoll" /\ s2c' = "recv"
    /\ UNCHANGED <<limits, c2s, left, attempt, backoff, dns, fd, open, signal, stopped,
                   ended, stopAge, strayClose>>

\* proxy_control_loop(); its watchdog is in Watchdog.tla.
EnterLoop ==
    /\ MainAt("epoll")
    /\ \/ /\ main' = "shutdown" /\ stopped' = TRUE /\ UNCHANGED <<fd, open>>
       \/ /\ main' = "loop" /\ UNCHANGED stopped
          /\ Open("epoll")
    /\ UNCHANGED <<limits, s2c, c2s, left, attempt, backoff, dns, signal, ended, stopAge,
                   strayClose>>

LeaveLoop ==
    /\ MainAt("loop") /\ signal = "pending"
    /\ signal' = "seen" /\ stopped' = TRUE
    /\ Closing({"epoll"}) /\ fd' = [fd EXCEPT !.epoll = Closed]
    /\ main' = "shutdown"
    /\ UNCHANGED <<limits, s2c, c2s, left, attempt, backoff, dns, ended, stopAge>>

\* proxy_shutdown_sockets(): ends the receives of both threads.
ShutdownSockets ==
    /\ MainAt("shutdown")
    /\ stopped' = TRUE /\ main' = "join"
    /\ UNCHANGED <<limits, s2c, c2s, left, attempt, backoff, dns, fd, open, signal, ended,
                   stopAge, strayClose>>

Join ==
    /\ MainAt("join")
    /\ c2s \in {"none", "ended"} /\ s2c \in {"none", "ended"}
    /\ main' = "cleanup"
    /\ UNCHANGED <<limits, s2c, c2s, left, attempt, backoff, dns, fd, open, signal, stopped,
                   ended, stopAge, strayClose>>

\* proxy_cleanup_resources() closes what the slots still hold, and main
\* returns, 0 if the threads were started.
Cleanup ==
    /\ MainAt("cleanup")
    /\ Closing({"listen", "remote", "signal", "timer"})
    /\ fd' = [s \in Slots |-> IF s = "epoll" THEN fd[s] ELSE Closed]
    /\ ended' = IF c2s = "none" THEN "failed" ELSE "stopped"
    /\ UNCHANGED <<limits, threads, attempt, backoff, dns, signal, stopped, stopAge>>

-----------------------------------------------------------------------------
(* The threads.                                                            *)

C2sEnds ==
    /\ Alive /\ c2s = "run" /\ stopped /\ main = "join"
    /\ c2s' = "ended"
    /\ UNCHANGED <<limits, main, s2c, left, attempt, backoff, dns, fd, open, signal, stopped,
                   ended, stopAge, strayClose>>

\* The receive fails, the watchdog asks for a reconnect, or the shutdown of
\* the end wakes the thread; a datagram resets the backoff.
ReceiveEnds ==
    /\ Alive /\ s2c = "recv"
    /\ \/ /\ stopped /\ main = "join"
          /\ s2c' = "ended" /\ UNCHANGED <<left, backoff>>
       \/ /\ ~stopped
          /\ \E b \in {1, backoff} :
                backoff' = b /\ left' = [left EXCEPT !.s2c = b]
          /\ s2c' = "backoff"
    /\ UNCHANGED <<limits, main, c2s, attempt, dns, fd, open, signal, stopped, ended,
                   stopAge, strayClose>>

\* Fault of ForgetsRemote: the number of a closed socket stays in remote_fd.
KeepsRemote == fd

\* After the sleep: a stop ends the thread, else proxy_do_reconnect() closes
\* the old socket and forgets it.
ForgetsRemote == [fd EXCEPT !.remote = Closed]

CloseOld ==
    /\ Alive /\ s2c = "backoff" /\ left.s2c = 0
    /\ \/ /\ stopped /\ s2c' = "ended"
          /\ UNCHANGED <<left, fd, open, strayClose>>
       \/ /\ ~stopped /\ s2c' = "dial" /\ left' = [left EXCEPT !.s2c = MaxResolve]
          /\ Closing({"remote"}) /\ fd' = ForgetsRemote
    /\ UNCHANGED <<limits, main, c2s, attempt, backoff, dns, signal, stopped, ended, stopAge>>

\* A redial that fails waits again, twice as long; the wait is not cut short
\* by a stop, only what follows it.
RedialFails ==
    /\ Alive /\ s2c = "dial"
    /\ DialFails
    /\ backoff' = NextBackoff(backoff)
    /\ s2c' = IF stopped THEN "ended" ELSE "backoff"
    /\ left' = [left EXCEPT !.s2c = NextBackoff(backoff)]
    /\ UNCHANGED <<limits, main, c2s, attempt, signal, stopped, stopAge>>

RedialSucceeds ==
    /\ Alive /\ s2c = "dial"
    /\ DialSucceeds
    /\ backoff' = 1
    /\ s2c' = IF stopped THEN "ended" ELSE "recv"
    /\ UNCHANGED <<limits, main, c2s, left, attempt, signal, stopped, stopAge>>

-----------------------------------------------------------------------------
(* The signal and the time.                                                *)

\* Until the control thread blocks it, SIGTERM ends the process by default.
Terminate ==
    /\ Alive /\ signal = "none"
    /\ \/ /\ main \in {"listen", "dial", "sleep", "control"}
          /\ ended' = "killed" /\ signal' = "seen" /\ UNCHANGED stopAge
       \/ /\ main \notin {"listen", "dial", "sleep", "control"}
          /\ signal' = "pending" /\ stopAge' = 0 /\ UNCHANGED ended
    /\ UNCHANGED <<limits, threads, attempt, backoff, dns, fd, open, stopped, strayClose>>

MainWaits ==
    \/ main \in {"timer", "c2s", "s2c", "epoll"} /\ signal # "pending"
    \/ main \in {"sleep", "dial"} /\ left.main > 0
    \/ main = "loop" /\ signal # "pending"
    \/ main = "join" /\ ~(c2s \in {"none", "ended"} /\ s2c \in {"none", "ended"})

S2cWaits ==
    \/ s2c \in {"none", "ended"}
    \/ s2c = "recv" /\ ~(stopped /\ main = "join")
    \/ s2c \in {"backoff", "dial"} /\ left.s2c > 0

C2sWaits == ~(c2s = "run" /\ stopped /\ main = "join")

Tick ==
    /\ Alive /\ MainWaits /\ S2cWaits /\ C2sWaits
    /\ left' = [t \in {"main", "s2c"} |-> IF left[t] > 0 THEN left[t] - 1 ELSE 0]
    /\ dnsAge' = Older(dnsAge) /\ failAge' = Older(failAge) /\ stopAge' = Older(stopAge)
    /\ UNCHANGED <<limits, main, s2c, c2s, attempt, backoff, lastAge, fd, open, signal,
                   stopped, ended, strayClose>>

-----------------------------------------------------------------------------

StartInit ==
    /\ limits \in Configs
    /\ main = "listen" /\ s2c = "none" /\ c2s = "none"
    /\ left = [t \in {"main", "s2c"} |-> 0]
    /\ attempt = 0 /\ backoff = 1
    /\ dnsAge = Never /\ failAge = Never /\ lastAge = Never
    /\ fd = [s \in Slots |-> Closed] /\ open = [n \in {} |-> "none"]
    /\ signal = "none" /\ stopped = FALSE /\ ended = "no" /\ stopAge = Never
    /\ strayClose = FALSE

MainStep ==
    \/ Listen \/ FirstDialFails \/ FirstDialSucceeds \/ Awake \/ ControlInit
    \/ TimerInit \/ StartC2s \/ StartS2c \/ EnterLoop \/ LeaveLoop
    \/ ShutdownSockets \/ Join \/ Cleanup

S2cStep == ReceiveEnds \/ CloseOld \/ RedialFails \/ RedialSucceeds

\* The process has ended.
Over == ~Alive /\ UNCHANGED startVars

StartNext == MainStep \/ S2cStep \/ C2sEnds \/ Terminate \/ Tick \/ Over

StartSpec == StartInit /\ [][StartNext]_startVars

\* The scheduler runs every thread that can run, and time passes.
StartFairSpec ==
    /\ StartSpec
    /\ WF_startVars(MainStep) /\ WF_startVars(S2cStep)
    /\ WF_startVars(C2sEnds) /\ WF_startVars(Tick)

-----------------------------------------------------------------------------
(* Properties.                                                             *)

TypeOK ==
    /\ limits \in Configs
    /\ main \in {"listen", "dial", "sleep", "control", "timer", "c2s", "s2c", "epoll",
                 "loop", "shutdown", "join", "cleanup"}
    /\ s2c \in {"none", "recv", "backoff", "dial", "ended"}
    /\ c2s \in {"none", "run", "ended"}
    /\ left \in [{"main", "s2c"} -> Nat]
    /\ attempt \in Nat /\ backoff \in 1 .. MaxBackoff
    /\ dnsAge \in Nat \cup {Never} /\ failAge \in Nat \cup {Never}
    /\ lastAge \in Nat \cup {Never} /\ stopAge \in Nat \cup {Never}
    /\ fd \in [Slots -> Descriptors \cup {Closed}]
    /\ DOMAIN open \subseteq Descriptors /\ \A n \in DOMAIN open : open[n] \in Slots
    /\ signal \in {"none", "pending", "seen"} /\ stopped \in BOOLEAN
    /\ ended \in {"no", "dns", "failed", "stopped", "killed"}
    /\ strayClose \in BOOLEAN

\* Every open descriptor is in the slot that its owner closes, no close()
\* ever hits a number the kernel has handed to something else meanwhile -
\* although a failed start closes listen_fd and leaves its number for the
\* cleanup (proxy_startup.c:22, 48), and the redials of one thread free
\* numbers while the other opens some - and when proxy_run() returns, nothing
\* is open.
DescriptorsOwned ==
    /\ \A n \in DOMAIN open : fd[open[n]] = n
    /\ ~strayClose
    /\ ended \in {"failed", "stopped"} => DOMAIN open = {}

\* The process ends for DNS exactly when resolutions have done nothing but
\* fail for the configured time: a success in between, of the first dial or
\* of a redial, starts the count afresh even if the dial fails for another
\* reason, and no failure after that time is survived (proxy_net.c:28).  It does
\* not outlive that time by more than one wait and one resolution: the backoff
\* is capped where the window does not care.
LongestWait == IF MaxStartDelay > MaxBackoff THEN MaxStartDelay ELSE MaxBackoff

DnsExitRight ==
    /\ ended = "dns" => limits.dns > 0 /\ lastAge >= limits.dns
    /\ Alive /\ limits.dns > 0 =>
          lastAge < limits.dns /\ failAge < limits.dns + LongestWait + MaxResolve

\* After a SIGTERM the process is gone as soon as the s2c thread has slept
\* out its backoff and finished its dial: nothing else makes it wait.
StopWithin == Alive => stopAge <= MaxBackoff + MaxResolve

\* With a limit on the first dials, the start succeeds or the process ends.
StartsOrEnds ==
    (limits.retries > 0) ~> (~Alive \/ main \notin {"listen", "dial", "sleep"})

=============================================================================
