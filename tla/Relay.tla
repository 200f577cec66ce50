------------------------------- MODULE Relay -------------------------------
(***************************************************************************)
(* The three threads of the proxy in client mode and the socket to the     *)
(* remote they share without a lock (src/proxy.c, src/proxy_reconnect.c,   *)
(* src/proxy_net.c, src/proxy_control.c, src/proxy_shutdown.c,             *)
(* src/proxy_c2s_client.c):                                                *)
(*   s2c     receives on the socket, and closes and redials it;            *)
(*   c2s     sends on it, learns the client's address, and asks for a      *)
(*           redial when the source port has to follow the client's;       *)
(*   control breaks the connection when the remote is silent, and stops    *)
(*           the process.                                                  *)
(* Each load or store of a shared variable and each system call is a step. *)
(* A thread uses the descriptor it has loaded, and the kernel reuses the   *)
(* number of a closed one, so what a number names may have changed.  When  *)
(* the watchdog fires is left open: Watchdog.tla decides that.             *)
(***************************************************************************)
EXTENDS Integers, FiniteSets

CONSTANTS
    Fd,             \* the descriptor numbers the kernel hands out
    Port,           \* the source ports of the client, one to each of its addresses
    SrcPortDrift    \* src_port_drift: a recovery takes a fresh source port

ASSUME FdAssumption == Fd \subseteq Nat /\ Fd # {}
ASSUME PortAssumption == Port \subseteq Nat \ {0}
ASSUME DriftAssumption == SrcPortDrift \in BOOLEAN

VARIABLES
    stopped, remote_fd, reconnect_needed, has_client, local_port,   \* proxy_t
    last_remote_rx,
    gro,        \* gro_enabled: s2c receives with GRO (recvmsg), else with recvmmsg
    open,       \* the kernel's table: what a number names
    shut,       \* the numbers whose socket was shut down
    bound,      \* the source port a socket was bound to: 0 for none, or Fresh
    listen,     \* the listening socket: "open", "shut", "closed"
    mpc, mfd,   \* the control thread, the descriptor it has loaded
    reconnect_drift,    \* proxy_t, stored by the control thread alone
    cpc, cfd,   \* the c2s thread
    spc, sfd,   \* the s2c thread
    client_addr,    \* proxy_t: the client's address, in the two halves of a copy
                    \* nothing synchronises, each named by the port it belongs to
    src,        \* c2s: the address of the packet it has received
    dest,       \* s2c: the address it has copied for a packet to the client
    raced,      \* history: the port was changed behind a dial under way
    moved       \* history: c2s has written over the address of a client it knew
                \* since s2c last looked whether there is one

shared == <<stopped, remote_fd, reconnect_needed, has_client, local_port, last_remote_rx>>
kernel == <<gro, open, shut, bound, listen>>
address == <<client_addr, src, dest, moved>>
main == <<mpc, mfd, reconnect_drift>>
c2s == <<cpc, cfd>>
s2c == <<spc, sfd>>
vars == <<shared, kernel, address, main, c2s, s2c, raced>>

NoFd == -1
Fresh == -1     \* a port the kernel chooses although the client's is known
NoAddr == <<0, 0>>
AddrOf(p) == <<p, p>>
Kinds == {"free", "remote", "dns"}
Free == {f \in Fd : open[f] = "free"}

\* The kernel hands out the lowest free number.
Lowest(f) == f \in Free /\ \A g \in Free : f <= g

\* close(f), the number free again.
Close(f) ==
    /\ open' = [open EXCEPT ![f] = "free"]
    /\ shut' = shut \ {f}
    /\ bound' = [bound EXCEPT ![f] = 0]

\* c2s is in the middle of writing client_addr, s2c about to use it.
Writing == cpc \in {"write", "written"}
Replying == spc \in {"copy", "copied", "reply"}

-----------------------------------------------------------------------------
(* The s2c thread *)

\* The loop condition and the load of remote_fd, which only s2c writes.
STop ==
    /\ spc = "top"
    /\ spc' = IF stopped THEN "ended" ELSE "check"
    /\ sfd' = remote_fd
    /\ UNCHANGED <<shared, kernel, main, c2s, raced, address>>

\* Fault of SCheck: a request to reconnect is not looked at.
SCheckFdOnly ==
    /\ spc = "check"
    /\ spc' = IF sfd = NoFd THEN "sleep" ELSE "recv"
    /\ UNCHANGED <<shared, kernel, main, c2s, sfd, raced, address>>

SCheck ==
    /\ spc = "check"
    /\ spc' = IF sfd = NoFd \/ reconnect_needed THEN "sleep" ELSE "recv"
    /\ UNCHANGED <<shared, kernel, main, c2s, sfd, raced, address>>

\* Data, possibly queued before a shutdown().
SRecvData ==
    /\ spc = "recv"
    /\ last_remote_rx' = TRUE
    /\ spc' = "look"
    /\ UNCHANGED <<stopped, remote_fd, reconnect_needed, has_client, local_port,
                   kernel, main, c2s, sfd, raced, address>>

\* Without a client the packets are dropped.  Eight datagrams that came alone,
\* and s2c gives up GRO until the next dial.
SLook ==
    /\ spc = "look"
    /\ IF has_client
          THEN /\ gro' \in {FALSE, gro}
               /\ spc' \in {"copy", "top"}
          ELSE spc' = "top" /\ UNCHANGED gro
    /\ moved' = (moved /\ Writing)
    /\ UNCHANGED <<shared, open, shut, bound, listen, main, c2s, sfd, raced,
                   client_addr, src, dest>>

\* The copy of client_addr for a packet that is no junk, half by half.  s2c
\* looks once for a batch and copies once for each packet: the copy for the last
\* of them is only a later one, so one packet stands for all.
SCopy ==
    /\ spc = "copy"
    /\ dest' = <<client_addr[1], 0>>
    /\ spc' = "copied"
    /\ UNCHANGED <<shared, kernel, main, c2s, sfd, raced, client_addr, src, moved>>

SCopied ==
    /\ spc = "copied"
    /\ dest' = <<dest[1], client_addr[2]>>
    /\ spc' = "reply"
    /\ UNCHANGED <<shared, kernel, main, c2s, sfd, raced, client_addr, src, moved>>

SReply ==
    /\ spc = "reply"
    /\ dest' = NoAddr
    /\ spc' = "top"
    /\ moved' = (moved /\ Writing)
    /\ UNCHANGED <<shared, kernel, main, c2s, sfd, raced, client_addr, src>>

\* A read error, unless the process is being stopped.
SRecvError ==
    /\ spc = "recv" /\ sfd \notin shut
    /\ reconnect_needed' = (reconnect_needed \/ ~stopped)
    /\ spc' = "top"
    /\ UNCHANGED <<stopped, remote_fd, has_client, local_port, last_remote_rx,
                   kernel, main, c2s, sfd, raced, address>>

\* The socket was shut down: recvmsg returns 0, taken for a closed socket;
\* recvmmsg returns an empty datagram, taken for traffic.
SRecvShut ==
    /\ spc = "recv" /\ sfd \in shut
    /\ IF gro
          THEN /\ reconnect_needed' = (reconnect_needed \/ ~stopped)
               /\ UNCHANGED last_remote_rx
          ELSE /\ last_remote_rx' = TRUE
               /\ UNCHANGED reconnect_needed
    /\ spc' = "top"
    /\ UNCHANGED <<stopped, remote_fd, has_client, local_port, kernel, main, c2s, sfd, raced, address>>

\* The backoff sleep is over.
SSleep ==
    /\ spc = "sleep"
    /\ spc' = IF stopped THEN "ended" ELSE "close"
    /\ sfd' = NoFd
    /\ UNCHANGED <<shared, kernel, main, c2s, raced, address>>

SClose ==
    /\ spc = "close"
    /\ IF remote_fd = NoFd
          THEN spc' = "resolve" /\ UNCHANGED <<open, shut, bound>>
          ELSE spc' = "clear" /\ Close(remote_fd)
    /\ UNCHANGED <<shared, gro, listen, main, c2s, sfd, raced, address>>

\* Fault of SClear: the closed number stays published.
SClearMissing ==
    /\ spc = "clear"
    /\ spc' = "resolve"
    /\ UNCHANGED <<shared, kernel, main, c2s, sfd, raced, address>>

SClear ==
    /\ spc = "clear"
    /\ remote_fd' = NoFd
    /\ spc' = "resolve"
    /\ UNCHANGED <<stopped, reconnect_needed, has_client, local_port, last_remote_rx,
                   kernel, main, c2s, sfd, raced, address>>

\* getaddrinfo opens a socket of its own (not for an address literal).
SResolve ==
    /\ spc = "resolve"
    /\ \/ /\ \E f \in Fd : /\ Lowest(f)
                           /\ open' = [open EXCEPT ![f] = "dns"]
                           /\ sfd' = f
          /\ spc' = "resolved"
       \/ spc' = "socket" /\ UNCHANGED <<open, sfd>>
    /\ UNCHANGED <<shared, gro, shut, bound, listen, main, c2s, raced, address>>

\* ... and closes it, with an answer or without.
SResolved ==
    /\ spc = "resolved"
    /\ Close(sfd)
    /\ spc' \in {"socket", "top"}
    /\ sfd' = NoFd
    /\ UNCHANGED <<shared, gro, listen, main, c2s, raced, address>>

SSocket ==
    /\ spc = "socket"
    /\ \/ /\ \E f \in Fd : /\ Lowest(f)
                           /\ open' = [open EXCEPT ![f] = "remote"]
                           /\ sfd' = f
          /\ spc' = "bind"
       \/ spc' = "top" /\ UNCHANGED <<open, sfd>>
    /\ UNCHANGED <<shared, gro, shut, bound, listen, main, c2s, raced, address>>

\* Fault of SDialFailed: the socket that could not be bound stays open.
SDialFailedLeaks ==
    /\ spc = "bind"
    /\ spc' = "top"
    /\ UNCHANGED <<shared, kernel, main, c2s, sfd, raced, address>>

\* bind or connect failed.
SDialFailed ==
    /\ spc = "bind"
    /\ Close(sfd)
    /\ spc' = "top"
    /\ UNCHANGED <<shared, gro, listen, main, c2s, sfd, raced, address>>

\* bind to local_port, which c2s may change at any time, or to a fresh port after
\* a recovery, and connect.
SBind ==
    /\ spc = "bind"
    /\ bound' = [bound EXCEPT ![sfd] = IF reconnect_drift THEN Fresh ELSE local_port]
    /\ spc' = "forget"
    /\ raced' = FALSE
    /\ UNCHANGED <<shared, gro, open, shut, listen, main, c2s, sfd, address>>

SForgetClient ==
    /\ spc = "forget"
    /\ has_client' = FALSE
    /\ spc' = "reset"
    /\ UNCHANGED <<stopped, remote_fd, reconnect_needed, local_port, last_remote_rx,
                   kernel, main, c2s, sfd, raced, address>>

\* The requests served; one that came in since the bind goes with them.
SReset ==
    /\ spc = "reset"
    /\ reconnect_needed' = FALSE
    /\ last_remote_rx' = FALSE
    /\ spc' = "publish"
    /\ UNCHANGED <<stopped, remote_fd, has_client, local_port, kernel, main, c2s, sfd, raced, address>>

\* The new socket is published, and GRO tried again on it: AWG_NO_GRO or the
\* kernel may not let it.
SPublish ==
    /\ spc = "publish"
    /\ remote_fd' = sfd
    /\ gro' \in BOOLEAN
    /\ spc' = "top"
    /\ UNCHANGED <<stopped, reconnect_needed, has_client, local_port, last_remote_rx,
                   open, shut, bound, listen, main, c2s, sfd, raced, address>>

\* What s2c does without anybody's help.
SRedial ==
    \/ SSleep \/ SClose \/ SClear \/ SResolve \/ SResolved \/ SSocket \/ SDialFailed
    \/ SBind \/ SForgetClient \/ SReset \/ SPublish

SStep ==
    \/ STop \/ SCheck \/ SRecvShut \/ SLook \/ SCopy \/ SCopied \/ SReply
    \/ SRedial

-----------------------------------------------------------------------------
(* The c2s thread *)

CTop ==
    /\ cpc = "top"
    /\ cpc' = IF stopped THEN "ended" ELSE "recv"
    /\ UNCHANGED <<shared, kernel, main, cfd, s2c, raced, address>>

\* A shut listening socket wakes the thread, which finds itself stopped.
CWake ==
    /\ cpc = "recv" /\ listen = "shut"
    /\ cpc' = "top"
    /\ UNCHANGED <<shared, kernel, main, cfd, s2c, raced, address>>

\* Fault of CRecv: the client is published before its address is written.
CRecvLearnsFirst(p) ==
    /\ cpc = "recv" /\ listen = "open"
    /\ cpc' = "write"
    /\ src' = p
    /\ has_client' = TRUE
    /\ moved' = ((moved /\ Replying) \/ has_client)
    /\ UNCHANGED <<stopped, remote_fd, reconnect_needed, local_port, last_remote_rx,
                   kernel, main, cfd, s2c, raced, client_addr, dest>>

\* A packet from the client at p.  A client that is not known, or known at
\* another address, is learnt.
CRecv(p) ==
    /\ cpc = "recv" /\ listen = "open"
    /\ IF has_client /\ client_addr = AddrOf(p)
          THEN cpc' = "load" /\ UNCHANGED <<src, moved>>
          ELSE /\ cpc' = "write"
               /\ src' = p
               /\ moved' = ((moved /\ Replying) \/ has_client)
    /\ UNCHANGED <<shared, kernel, main, cfd, s2c, raced, client_addr, dest>>

CWrite ==
    /\ cpc = "write"
    /\ client_addr' = <<src, client_addr[2]>>
    /\ cpc' = "written"
    /\ UNCHANGED <<shared, kernel, main, cfd, s2c, raced, src, dest, moved>>

CWritten ==
    /\ cpc = "written"
    /\ client_addr' = AddrOf(src)
    /\ cpc' = "learn"
    /\ moved' = (moved /\ Replying)
    /\ UNCHANGED <<shared, kernel, main, cfd, s2c, raced, src, dest>>

CLearn ==
    /\ cpc = "learn"
    /\ has_client' = TRUE
    /\ cpc' = "port"
    /\ UNCHANGED <<stopped, remote_fd, reconnect_needed, local_port, last_remote_rx,
                   kernel, main, cfd, s2c, raced, address>>

\* Fault of CPort: the new source port is noted without asking for a redial.
CPortSilently ==
    /\ cpc = "port"
    /\ local_port' = src
    /\ raced' = (raced \/ (src # local_port /\ spc \in {"forget", "reset"}))
    /\ cpc' = "load"
    /\ src' = 0
    /\ UNCHANGED <<stopped, remote_fd, reconnect_needed, has_client, last_remote_rx, kernel,
                   main, cfd, s2c, client_addr, dest, moved>>

\* With automatic source ports, a port that is not the one dialled with is noted.
CPort ==
    /\ cpc = "port"
    /\ local_port' = src
    /\ raced' = (raced \/ (src # local_port /\ spc \in {"forget", "reset"}))
    /\ cpc' = IF src # local_port THEN "request" ELSE "load"
    /\ src' = 0
    /\ UNCHANGED <<stopped, remote_fd, reconnect_needed, has_client, last_remote_rx, kernel,
                   main, cfd, s2c, client_addr, dest, moved>>

CRequest ==
    /\ cpc = "request"
    /\ reconnect_needed' = TRUE
    /\ cpc' = "load"
    /\ UNCHANGED <<stopped, remote_fd, has_client, local_port, last_remote_rx, kernel,
                   main, cfd, s2c, raced, address>>

CLoad ==
    /\ cpc = "load"
    /\ cfd' = remote_fd
    /\ cpc' = IF remote_fd = NoFd THEN "top" ELSE "send"
    /\ UNCHANGED <<shared, kernel, main, s2c, raced, address>>

\* Sends on whatever the number names by now.
CSend ==
    /\ cpc = "send"
    /\ cpc' = "top"
    /\ cfd' = NoFd
    /\ UNCHANGED <<shared, kernel, main, s2c, raced, address>>

CStep ==
    \/ CTop \/ CWake \/ CWrite \/ CWritten \/ CLearn \/ CPort
    \/ CRequest \/ CLoad \/ CSend

-----------------------------------------------------------------------------
(* The control thread *)

\* s2c turns round and round on a shut socket nobody has asked to replace: it
\* notes an empty datagram many times between two ticks.
Spinning == ~gro /\ sfd \in shut /\ ~reconnect_needed /\ spc \in {"top", "check", "recv"}

\* A tick that sees traffic goes back to the preferred source port.
MHeard ==
    /\ mpc = "wait" /\ last_remote_rx
    /\ last_remote_rx' = FALSE
    /\ reconnect_drift' = FALSE
    /\ UNCHANGED <<stopped, remote_fd, reconnect_needed, has_client, local_port,
                   kernel, mpc, mfd, c2s, s2c, raced, address>>

\* A tick that sees none may reconnect: trigger_recovery_reconnect, in four steps.
MTrigger ==
    /\ mpc = "wait" /\ ~last_remote_rx /\ ~Spinning
    /\ remote_fd # NoFd
    /\ mfd' = remote_fd
    /\ mpc' = "drift"
    /\ UNCHANGED <<shared, kernel, reconnect_drift, c2s, s2c, raced, address>>

MDrift ==
    /\ mpc = "drift"
    /\ reconnect_drift' = (reconnect_drift \/ SrcPortDrift)
    /\ mpc' = "flag"
    /\ UNCHANGED <<shared, kernel, mfd, c2s, s2c, raced, address>>

MFlag ==
    /\ mpc = "flag"
    /\ reconnect_needed' = TRUE
    /\ mpc' = "break"
    /\ UNCHANGED <<stopped, remote_fd, has_client, local_port, last_remote_rx,
                   kernel, mfd, reconnect_drift, c2s, s2c, raced, address>>

\* shutdown() of whatever the number names by now; of a closed one, nothing.
ShutDown(f) == shut' = IF f \in Fd \ Free THEN shut \cup {f} ELSE shut

MBreak ==
    /\ mpc = "break"
    /\ ShutDown(mfd)
    /\ mpc' = "wait"
    /\ mfd' = NoFd
    /\ UNCHANGED <<shared, gro, open, bound, listen, reconnect_drift, c2s, s2c, raced, address>>

\* SIGTERM or SIGINT; then proxy_shutdown_sockets.
MSignal ==
    /\ mpc = "wait"
    /\ stopped' = TRUE
    /\ mpc' = "shutlisten"
    /\ UNCHANGED <<remote_fd, reconnect_needed, has_client, local_port, last_remote_rx,
                   kernel, mfd, reconnect_drift, c2s, s2c, raced, address>>

MShutListen ==
    /\ mpc = "shutlisten"
    /\ listen' = "shut"
    /\ mpc' = "loadfd"
    /\ UNCHANGED <<shared, gro, open, shut, bound, mfd, reconnect_drift, c2s, s2c, raced,
                   address>>

\* Fault of MLoadFd: the remote socket is forgotten.
MLoadFdMissing ==
    /\ mpc = "loadfd"
    /\ mfd' = NoFd
    /\ mpc' = "shutremote"
    /\ UNCHANGED <<shared, kernel, reconnect_drift, c2s, s2c, raced, address>>

MLoadFd ==
    /\ mpc = "loadfd"
    /\ mfd' = remote_fd
    /\ mpc' = "shutremote"
    /\ UNCHANGED <<shared, kernel, reconnect_drift, c2s, s2c, raced, address>>

MShutRemote ==
    /\ mpc = "shutremote"
    /\ ShutDown(mfd)
    /\ mpc' = "join"
    /\ mfd' = NoFd
    /\ UNCHANGED <<shared, gro, open, bound, listen, reconnect_drift, c2s, s2c, raced, address>>

\* Both threads are joined, then the resources are released.
MCleanup ==
    /\ mpc = "join" /\ cpc = "ended" /\ spc = "ended"
    /\ IF remote_fd = NoFd THEN UNCHANGED <<open, shut, bound>> ELSE Close(remote_fd)
    /\ remote_fd' = NoFd
    /\ listen' = "closed"
    /\ mpc' = "done"
    /\ UNCHANGED <<stopped, reconnect_needed, has_client, local_port, last_remote_rx,
                   gro, mfd, reconnect_drift, c2s, s2c, raced, address>>

MStep == MDrift \/ MFlag \/ MBreak \/ MShutListen \/ MLoadFd \/ MShutRemote \/ MCleanup

-----------------------------------------------------------------------------

\* proxy_startup_network has dialled, from any port the kernel chose.
Init ==
    /\ \E f \in Fd :
          /\ \A g \in Fd : f <= g
          /\ remote_fd = f
          /\ open = [g \in Fd |-> IF g = f THEN "remote" ELSE "free"]
    /\ stopped = FALSE /\ reconnect_needed = FALSE /\ has_client = FALSE
    /\ local_port = 0 /\ last_remote_rx = FALSE
    /\ gro \in BOOLEAN
    /\ shut = {} /\ bound = [f \in Fd |-> 0] /\ listen = "open"
    /\ mpc = "wait" /\ mfd = NoFd /\ reconnect_drift = FALSE
    /\ cpc = "top" /\ cfd = NoFd
    /\ spc = "top" /\ sfd = NoFd
    /\ client_addr = NoAddr /\ src = 0 /\ dest = NoAddr
    /\ raced = FALSE /\ moved = FALSE

Next ==
    \/ SStep \/ SRecvData \/ SRecvError
    \/ CStep \/ \E p \in Port : CRecv(p)
    \/ MStep \/ MHeard \/ MTrigger \/ MSignal

Spec == Init /\ [][Next]_vars

\* Threads run, and a dial comes to its end, well or badly.  A remote that stays
\* silent is noticed in the end (Watchdog.tla), and what was queued on a socket
\* before it was shut down comes to an end.  Packets and signals may never come.
FairSpec ==
    /\ Spec
    /\ WF_vars(SStep) /\ WF_vars(CStep) /\ WF_vars(MStep) /\ WF_vars(MHeard)
    /\ SF_vars(SRecvShut) /\ SF_vars(MTrigger)

-----------------------------------------------------------------------------
(* Properties *)

\* Every variable has its type.
TypeOK ==
    /\ {stopped, reconnect_needed, has_client, last_remote_rx, reconnect_drift, gro, raced,
        moved} \subseteq BOOLEAN
    /\ {remote_fd, mfd, cfd, sfd} \subseteq Fd \cup {NoFd}
    /\ {local_port, src} \subseteq Port \cup {0}
    /\ {client_addr, dest} \subseteq (Port \cup {0}) \X (Port \cup {0})
    /\ open \in [Fd -> Kinds]
    /\ shut \subseteq Fd
    /\ bound \in [Fd -> Port \cup {0, Fresh}]
    /\ listen \in {"open", "shut", "closed"}
    /\ mpc \in {"wait", "drift", "flag", "break", "shutlisten", "loadfd", "shutremote",
                "join", "done"}
    /\ cpc \in {"top", "recv", "write", "written", "learn", "port", "request", "load",
                "send", "ended"}
    /\ spc \in {"top", "check", "recv", "look", "copy", "copied", "reply", "sleep", "close",
                "clear", "resolve", "resolved", "socket", "bind", "forget", "reset",
                "publish", "ended"}

\* No dial, failed or not, and no stop in the middle of one leaves a descriptor
\* behind: the open remote socket is the one remote_fd names, or the one s2c is
\* setting up; at the end nothing is open.
NoFdLeak ==
    /\ \A f \in Fd : open[f] = "remote" =>
          f = remote_fd \/ (f = sfd /\ spc \in {"bind", "forget", "reset", "publish"})
    /\ mpc = "done" => Free = Fd

\* The published descriptor is the remote socket's, except between its close()
\* and the store of -1 (proxy_reconnect.c:8-9).
PublishedIsOpen ==
    remote_fd # NoFd /\ spc # "clear" => open[remote_fd] = "remote"

\* A socket in use is bound to the port of the last client, or a redial is on
\* its way, unless the port changed after the dial under way had bound.  The
\* exception on purpose is a port the kernel chose: with SrcPortDrift the dials
\* from a recovery until the next tick that has heard the remote leave the
\* client's port (proxy_net.c:112-122), and the socket keeps what it got.
FreshPort(f) == SrcPortDrift /\ bound[f] = Fresh

PortApplied ==
    spc = "recv" /\ cpc # "request" /\ ~reconnect_needed =>
        bound[sfd] = local_port \/ FreshPort(sfd) \/ raced

\* What s2c sends goes to the client's address, whole, although the copy is not
\* synchronised: has_client, stored after the address and taken back by a redial,
\* guards it.  What it does not guard is the move of a client that was known: then
\* the destination may be the old address, the new one, or half of each, and of
\* no other client even so.
DestIsClient ==
    spc = "reply" =>
        /\ dest \in Port \X Port
        /\ ~moved => dest = client_addr /\ dest[1] = dest[2]

\* A stop always comes to its end, wherever it finds the other threads: none
\* stays in a receive, and a dial under way is not taken up again.
StopTerminates == stopped ~> mpc = "done"

\* A socket that was shut down, by whichever thread and for whatever reason, is
\* replaced ("s2c: remote socket closed, reconnecting", proxy.c:245 and 317).
ShutIsReplaced ==
    (remote_fd # NoFd /\ remote_fd \in shut) ~> (remote_fd \notin shut \/ stopped)

\* The same as long as s2c receives with GRO, and so is told.
ShutIsReplacedGro ==
    (gro /\ remote_fd # NoFd /\ remote_fd \in shut)
        ~> (remote_fd \notin shut \/ stopped \/ ~gro)
=============================================================================
