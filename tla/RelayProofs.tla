---------------------------- MODULE RelayProofs ----------------------------
(***************************************************************************)
(* Proofs about the socket that the threads share, for every set of        *)
(* descriptor numbers and source ports: no descriptor is lost, what is     *)
(* published is open, and the source port follows the client, but for a     *)
(* fresh one taken on purpose.                                             *)
(***************************************************************************)
EXTENDS Relay, TLAPS

\* s2c holds a socket that is not published.
Holding == {"bind", "forget", "reset", "publish"}
Dialling == {"resolve", "resolved", "socket"} \cup Holding

\* What each number names, by where s2c is.  The watchdog and c2s only read
\* remote_fd, and neither opens nor closes anything.
FdInv ==
    /\ \A f \in Fd : open[f] = "remote" => f = remote_fd \/ (f = sfd /\ spc \in Holding)
    /\ \A f \in Fd : open[f] = "dns" => f = sfd /\ spc = "resolved"
    /\ remote_fd # NoFd /\ spc # "clear" => open[remote_fd] = "remote"
    /\ spc = "clear" => remote_fd # NoFd /\ open[remote_fd] = "free"
    /\ spc \in Dialling => remote_fd = NoFd
    /\ spc = "resolved" => sfd # NoFd /\ open[sfd] = "dns"
    /\ spc \in Holding => sfd # NoFd /\ open[sfd] = "remote"
    /\ spc \in {"check", "recv"} => sfd = remote_fd
    /\ spc = "recv" => sfd # NoFd
    /\ mpc = "done" => spc = "ended" /\ Free = Fd

\* The port of a socket is the client's or a fresh one, or a redial is or will be asked for;
\* between the bind and the reset a request would be lost.
Asked == reconnect_needed \/ cpc = "request"

Followed(f) == bound[f] = local_port \/ FreshPort(f) \/ raced

PortInv ==
    /\ reconnect_drift => SrcPortDrift
    /\ spc \in {"forget", "reset"} => Followed(sfd)
    /\ spc = "publish" => Followed(sfd) \/ Asked
    /\ remote_fd # NoFd /\ spc # "clear" => Followed(remote_fd) \/ Asked

\* client_addr is whole but while c2s writes it, and it writes over an address
\* s2c may use only when a known client has moved; a copy s2c makes without such
\* a move is the address as it is.
AddrInv ==
    /\ cpc \in {"write", "written", "learn", "port"} => src \in Port
    /\ cpc \in {"learn", "port"} => client_addr = AddrOf(src)
    /\ ~Writing => client_addr[1] = client_addr[2]
    /\ Writing /\ has_client => moved
    /\ has_client => client_addr[1] \in Port /\ client_addr[2] \in Port
    /\ Replying => has_client
    /\ spc = "copied" => dest[1] \in Port /\ (~moved => dest[1] = client_addr[1])
    /\ spc = "reply" => /\ dest[1] \in Port /\ dest[2] \in Port
                        /\ ~moved => dest = client_addr

SocketInv == TypeOK /\ FdInv /\ PortInv /\ AddrInv

-----------------------------------------------------------------------------

LEMMA NoFdNotFd == NoFd \notin Fd
  BY FdAssumption DEF NoFd

LEMMA InitSocketInv ==
    ASSUME Init
    PROVE  SocketInv
<1>1. PICK f \in Fd : /\ remote_fd = f
                      /\ open = [g \in Fd |-> IF g = f THEN "remote" ELSE "free"]
  BY DEF Init
<1>2. TypeOK
  <2>1. {client_addr, dest} \subseteq (Port \cup {0}) \X (Port \cup {0})
    BY DEF Init, NoAddr
  <2>2. gro \in BOOLEAN
    BY DEF Init
  <2> QED BY <1>1, <2>1, <2>2, PortAssumption DEF Init, TypeOK, Kinds
<1>3. FdInv
  BY <1>1, NoFdNotFd DEF Init, FdInv, Holding, Dialling, NoFd
<1>4. PortInv
  BY <1>1 DEF Init, PortInv, Followed
<1>5. AddrInv
  BY DEF Init, AddrInv, NoAddr, Writing, Replying
<1> QED BY <1>2, <1>3, <1>4, <1>5 DEF SocketInv

-----------------------------------------------------------------------------
(* Types, thread by thread.                                                *)

LEMMA S2cTypeOK ==
    ASSUME TypeOK, FdInv,
           SStep \/ SRecvData \/ SRecvError
    PROVE  TypeOK'
<1> USE DEF TypeOK, shared, kernel, address, main, c2s, s2c
<1>1. CASE STop \/ SCheck \/ SRecvShut \/ SSleep \/ SRecvError
  <2>1. CASE STop \/ SCheck
    BY <2>1 DEF STop, SCheck
  <2>2. CASE SRecvShut
    <3>1. CASE gro
      BY <2>2, <3>1 DEF SRecvShut
    <3>2. CASE ~gro
      BY <2>2, <3>2 DEF SRecvShut
    <3> QED BY <3>1, <3>2
  <2>3. CASE SSleep
    BY <2>3 DEF SSleep
  <2>4. CASE SRecvError
    BY <2>4 DEF SRecvError
  <2> QED BY <1>1, <2>1, <2>2, <2>3, <2>4
<1>2. CASE SRecvData
  BY <1>2 DEF SRecvData
<1>3. CASE SClose \/ SResolved \/ SDialFailed
  BY <1>3 DEF SClose, SResolved, SDialFailed, Close, Kinds
<1>4. CASE SResolve \/ SSocket
  BY <1>4 DEF SResolve, SSocket, Kinds, Lowest, Free
<1>5. CASE SLook
  <2>1. /\ gro' \in BOOLEAN /\ moved' \in BOOLEAN
        /\ spc' \in {"copy", "top"}
        /\ UNCHANGED <<shared, open, shut, bound, listen, main, c2s, sfd, raced,
                       client_addr, src, dest>>
    BY <1>5 DEF SLook
  <2> QED BY <2>1
<1>6. CASE SCopy \/ SCopied
  BY <1>6 DEF SCopy, SCopied
<1>7. CASE SReply
  <2>1. moved' \in BOOLEAN
    BY <1>7 DEF SReply
  <2> QED BY <1>7, <2>1 DEF SReply, NoAddr
<1>8. CASE SForgetClient \/ SReset \/ SPublish \/ SClear
  BY <1>8 DEF SForgetClient, SReset, SPublish, SClear
<1>9. CASE SBind
  BY <1>9 DEF SBind
<1> QED BY <1>1, <1>2, <1>3, <1>4, <1>5, <1>6, <1>7, <1>8, <1>9 DEF SStep, SRedial

LEMMA OthersTypeOK ==
    ASSUME TypeOK,
           \/ CStep \/ \E p \in Port : CRecv(p)
           \/ MStep \/ MHeard \/ MTrigger \/ MSignal
    PROVE  TypeOK'
<1> USE DEF TypeOK, shared, kernel, address, main, c2s, s2c
<1>1. CASE CTop \/ CWake \/ CRequest \/ CLoad \/ CSend
  BY <1>1 DEF CTop, CWake, CRequest, CLoad, CSend
<1>2. CASE CWrite \/ CLearn
  <2>1. CASE CWrite
    <3>1. client_addr' \in (Port \cup {0}) \X (Port \cup {0})
      BY <2>1 DEF CWrite
    <3> QED BY <2>1, <3>1 DEF CWrite
  <2>2. CASE CLearn
    BY <2>2 DEF CLearn
  <2> QED BY <1>2, <2>1, <2>2
<1>3. CASE CWritten
  <2>1. moved' \in BOOLEAN
    BY <1>3 DEF CWritten
  <2> QED BY <1>3, <2>1 DEF CWritten, AddrOf
<1>4. CASE CPort
  <2>1. raced' \in BOOLEAN
    BY <1>4 DEF CPort
  <2> QED BY <1>4, <2>1 DEF CPort
<1>5. ASSUME NEW p \in Port, CRecv(p) PROVE TypeOK'
  <2>1. moved' \in BOOLEAN
    BY <1>5 DEF CRecv
  <2> QED BY <1>5, <2>1 DEF CRecv
<1>6. CASE MFlag \/ MShutListen \/ MLoadFd \/ MHeard \/ MTrigger \/ MSignal
  BY <1>6 DEF MFlag, MShutListen, MLoadFd, MHeard, MTrigger, MSignal
<1>7. CASE MBreak \/ MShutRemote
  BY <1>7 DEF MBreak, MShutRemote, ShutDown
<1>8. CASE MCleanup
  BY <1>8 DEF MCleanup, Close, Kinds
<1>9. CASE MDrift
  <2>1. reconnect_drift' \in BOOLEAN
    BY <1>9 DEF MDrift
  <2> QED BY <1>9, <2>1 DEF MDrift
<1> QED BY <1>1, <1>2, <1>3, <1>4, <1>5, <1>6, <1>7, <1>8, <1>9 DEF MStep, CStep

-----------------------------------------------------------------------------
(* Descriptors.                                                            *)

LEMMA S2cFdInv ==
    ASSUME TypeOK, FdInv,
           SStep \/ SRecvData \/ SRecvError
    PROVE  FdInv'
<1> USE DEF shared, kernel, address, main, c2s, s2c
<1>t. /\ {remote_fd, sfd} \subseteq Fd \cup {NoFd} /\ open \in [Fd -> Kinds]
      /\ NoFd \notin Fd
  BY NoFdNotFd DEF TypeOK
<1>d. mpc = "done" => spc = "ended"
  BY DEF FdInv
<1>1. CASE STop \/ SCheck \/ SSleep
  BY <1>1, <1>t, <1>d DEF STop, SCheck, SSleep, FdInv, Holding, Dialling, Free
<1>2. CASE SRecvData \/ SRecvError \/ SRecvShut
  BY <1>2, <1>t, <1>d DEF SRecvData, SRecvError, SRecvShut, FdInv, Holding,
                          Dialling, Free
<1>3. CASE SLook \/ SCopy \/ SCopied \/ SReply
  BY <1>3, <1>t, <1>d DEF SLook, SCopy, SCopied, SReply, FdInv, Holding,
                           Dialling, Free
<1>4. CASE SClose
  BY <1>4, <1>t, <1>d DEF SClose, Close, FdInv, Holding, Dialling
<1>5. CASE SClear
  BY <1>5, <1>t, <1>d DEF SClear, FdInv, Holding, Dialling
<1>6. CASE SResolve
  BY <1>6, <1>t, <1>d DEF SResolve, Lowest, Free, FdInv, Holding, Dialling
<1>7. CASE SResolved
  BY <1>7, <1>t, <1>d DEF SResolved, Close, FdInv, Holding, Dialling
<1>8. CASE SSocket
  BY <1>8, <1>t, <1>d DEF SSocket, Lowest, Free, FdInv, Holding, Dialling
<1>9. CASE SDialFailed
  BY <1>9, <1>t, <1>d DEF SDialFailed, Close, FdInv, Holding, Dialling
<1>10. CASE SBind \/ SForgetClient \/ SReset
  BY <1>10, <1>t, <1>d DEF SBind, SForgetClient, SReset, FdInv, Holding, Dialling
<1>11. CASE SPublish
  BY <1>11, <1>t, <1>d DEF SPublish, FdInv, Holding, Dialling
<1> QED BY <1>1, <1>2, <1>3, <1>4, <1>5, <1>6, <1>7, <1>8, <1>9, <1>10, <1>11 DEF SStep, SRedial

LEMMA OthersFdInv ==
    ASSUME TypeOK, FdInv,
           \/ CStep \/ \E p \in Port : CRecv(p)
           \/ MStep \/ MHeard \/ MTrigger \/ MSignal
    PROVE  FdInv'
<1> USE DEF shared, kernel, address, main, c2s, s2c
<1>1. CASE MCleanup
  <2>1. /\ remote_fd \in Fd \cup {NoFd} /\ open \in [Fd -> Kinds] /\ NoFd \notin Fd
        /\ spc = "ended" /\ spc' = spc /\ remote_fd' = NoFd
    BY <1>1, NoFdNotFd DEF MCleanup, TypeOK
  <2>2. \A f \in Fd : open'[f] = "free"
    BY <1>1, <2>1 DEF MCleanup, Close, FdInv, Holding, Kinds
  <2> QED BY <2>1, <2>2 DEF FdInv, Holding, Dialling, Free
<1>2. ASSUME UNCHANGED <<open, remote_fd, spc, sfd>>, mpc = "done" \/ mpc' # "done"
      PROVE  FdInv'
  BY <1>2 DEF FdInv, Free
<1>3. CASE CStep \/ \E p \in Port : CRecv(p)
  BY <1>2, <1>3 DEF CStep, CTop, CWake, CRecv, CWrite, CWritten, CLearn, CPort, CRequest,
                    CLoad, CSend
<1>4. CASE MDrift \/ MFlag \/ MBreak \/ MShutListen \/ MLoadFd \/ MShutRemote
           \/ MHeard \/ MTrigger \/ MSignal
  BY <1>2, <1>4 DEF MDrift, MFlag, MBreak, MShutListen, MLoadFd, MShutRemote,
                    MHeard, MTrigger, MSignal
<1> QED BY <1>1, <1>3, <1>4 DEF MStep

-----------------------------------------------------------------------------
(* Ports.                                                                  *)

LEMMA StepPortInv ==
    ASSUME TypeOK, FdInv, PortInv, Next
    PROVE  PortInv'
<1> USE DEF shared, kernel, address, main, c2s, s2c, Asked, Followed, FreshPort
<1>t. /\ {remote_fd, sfd} \subseteq Fd \cup {NoFd} /\ bound \in [Fd -> Port \cup {0, Fresh}]
      /\ NoFd \notin Fd
  BY NoFdNotFd DEF TypeOK
<1>f. ASSUME UNCHANGED <<bound, local_port, raced, remote_fd, reconnect_drift>>,
             Asked => Asked',
             \/ spc # "clear" /\ spc' \notin {"forget", "reset", "publish"}
             \/ UNCHANGED <<spc, sfd>>
      PROVE  PortInv'
  <2>1. \A f : Followed(f)' <=> Followed(f)
    BY <1>f
  <2>2. CASE spc # "clear" /\ spc' \notin {"forget", "reset", "publish"}
    BY <1>f, <2>1, <2>2 DEF PortInv
  <2>3. CASE UNCHANGED <<spc, sfd>>
    BY <1>f, <2>1, <2>3 DEF PortInv
  <2> QED BY <1>f, <2>2, <2>3
<1>1. CASE STop \/ SCheck \/ SSleep \/ SRecvData \/ SRecvError \/ SRecvShut
  BY <1>f, <1>1 DEF STop, SCheck, SSleep, SRecvData, SRecvError, SRecvShut
<1>2. CASE SLook \/ SCopy \/ SCopied \/ SReply
  BY <1>f, <1>2 DEF SLook, SCopy, SCopied, SReply
<1>3. CASE SClose \/ SClear
  BY <1>3 DEF SClose, SClear, Close, PortInv, FdInv
<1>4. CASE SResolve \/ SResolved \/ SSocket \/ SDialFailed
  BY <1>4 DEF SResolve, SResolved, SSocket, SDialFailed, PortInv, FdInv,
              Dialling, Holding
<1>5. CASE SBind
  BY <1>5, <1>t DEF SBind, PortInv, FdInv, Dialling, Holding
<1>6. CASE SForgetClient \/ SReset \/ SPublish
  BY <1>6 DEF SForgetClient, SReset, SPublish, PortInv, FdInv, Dialling, Holding
<1>7. CASE CTop \/ CWake \/ CWrite \/ CWritten \/ CLearn \/ CRequest \/ CLoad \/ CSend
  BY <1>f, <1>7 DEF CTop, CWake, CWrite, CWritten, CLearn, CRequest, CLoad, CSend
<1>8. CASE CPort
  <2>1. CASE src = local_port
    BY <1>8, <2>1 DEF CPort, PortInv
  <2>2. CASE src # local_port
    BY <1>8, <2>2 DEF CPort, PortInv
  <2> QED BY <2>1, <2>2
<1>9. ASSUME NEW p \in Port, CRecv(p) PROVE PortInv'
  <2>1. cpc = "recv" /\ UNCHANGED <<shared, kernel, main, s2c, raced>>
    BY <1>9 DEF CRecv
  <2>2. /\ UNCHANGED <<bound, local_port, raced, remote_fd, reconnect_drift>>
        /\ UNCHANGED <<spc, sfd>>
        /\ Asked => Asked'
    BY <2>1
  <2> QED BY ONLY <1>f, <2>2
<1>10. CASE MFlag \/ MBreak \/ MShutListen \/ MLoadFd \/ MShutRemote \/ MTrigger \/ MSignal
  <2>1. /\ UNCHANGED <<bound, local_port, raced, remote_fd, reconnect_drift>>
        /\ UNCHANGED <<spc, sfd>>
        /\ Asked => Asked'
    BY <1>10 DEF MFlag, MBreak, MShutListen, MLoadFd, MShutRemote, MTrigger, MSignal
  <2> QED BY ONLY <1>f, <2>1
<1>11. CASE MHeard \/ MDrift
  <2>1. /\ reconnect_drift' => SrcPortDrift
        /\ UNCHANGED <<bound, local_port, raced, remote_fd, spc, sfd, cpc, reconnect_needed>>
    BY <1>11 DEF MHeard, MDrift, PortInv
  <2>2. Asked' = Asked /\ \A f : Followed(f)' = Followed(f)
    BY <2>1
  <2> QED BY <2>1, <2>2 DEF PortInv
<1>12. CASE MCleanup
  BY <1>12 DEF MCleanup, PortInv, FdInv
<1> QED BY <1>1, <1>2, <1>3, <1>4, <1>5, <1>6, <1>7, <1>8, <1>9, <1>10, <1>11, <1>12
     DEF Next, SStep, SRedial, CStep, MStep

-----------------------------------------------------------------------------

(* The client's address.                                                   *)

LEMMA StepAddrInv ==
    ASSUME TypeOK, AddrInv, Next
    PROVE  AddrInv'
<1> USE DEF shared, kernel, address, main, c2s, s2c, Writing, Replying
<1>t. /\ client_addr \in (Port \cup {0}) \X (Port \cup {0})
      /\ dest \in (Port \cup {0}) \X (Port \cup {0})
  BY DEF TypeOK
<1>1. ASSUME UNCHANGED <<address, cpc, has_client>>,
             spc' \notin {"copy", "copied", "reply"} \/ spc' = spc
      PROVE  AddrInv'
  BY <1>1 DEF AddrInv
<1>2. CASE STop \/ SCheck \/ SRecvShut \/ SRecvData \/ SRecvError
  BY <1>1, <1>2 DEF STop, SCheck, SRecvShut, SRecvData, SRecvError
<1>3. CASE SSleep \/ SClose \/ SClear \/ SResolve \/ SResolved \/ SSocket
           \/ SDialFailed \/ SBind \/ SReset \/ SPublish
  BY <1>1, <1>3 DEF SSleep, SClose, SClear, SResolve, SResolved, SSocket,
                    SDialFailed, SBind, SReset, SPublish
<1>4. CASE SForgetClient
  BY <1>4 DEF SForgetClient, AddrInv
<1>5. CASE SLook
  BY <1>5 DEF SLook, AddrInv
<1>6. CASE SCopy
  BY <1>6, <1>t DEF SCopy, AddrInv
<1>7. CASE SCopied
  <2>1. dest'[1] = dest[1] /\ dest'[2] = client_addr[2] /\ client_addr' = client_addr
    BY <1>7 DEF SCopied
  <2>2. dest' = <<dest'[1], dest'[2]>> /\ client_addr = <<client_addr[1], client_addr[2]>>
    BY <1>7, <1>t DEF SCopied
  <2> QED BY <1>7, <2>1, <2>2 DEF SCopied, AddrInv
<1>8. CASE SReply
  BY <1>8 DEF SReply, AddrInv
<1>9. CASE CTop \/ CWake \/ CRequest \/ CLoad \/ CSend
  BY <1>9 DEF CTop, CWake, CRequest, CLoad, CSend, AddrInv
<1>10. ASSUME NEW p \in Port, CRecv(p) PROVE AddrInv'
  BY <1>10 DEF CRecv, AddrInv
<1>11. CASE CWrite
  BY <1>11, <1>t DEF CWrite, AddrInv
<1>12. CASE CWritten
  BY <1>12 DEF CWritten, AddrInv, AddrOf
<1>13. CASE CLearn
  BY <1>13 DEF CLearn, AddrInv, AddrOf
<1>14. CASE CPort
  BY <1>14 DEF CPort, AddrInv
<1>15. CASE MStep \/ MHeard \/ MTrigger \/ MSignal
  BY <1>1, <1>15 DEF MStep, MDrift, MFlag, MBreak, MShutListen, MLoadFd, MShutRemote,
                     MCleanup, MHeard, MTrigger, MSignal
<1> QED BY <1>2, <1>3, <1>4, <1>5, <1>6, <1>7, <1>8, <1>9, <1>10, <1>11, <1>12,
           <1>13, <1>14, <1>15 DEF Next, SStep, SRedial, CStep

-----------------------------------------------------------------------------

LEMMA StepSocketInv ==
    ASSUME SocketInv, [Next]_vars
    PROVE  SocketInv'
<1>1. CASE Next
  BY <1>1, S2cTypeOK, OthersTypeOK, S2cFdInv, OthersFdInv, StepPortInv, StepAddrInv
     DEF SocketInv, Next
<1>2. CASE UNCHANGED vars
  BY <1>2 DEF vars, shared, kernel, address, main, c2s, s2c, SocketInv, TypeOK,
              FdInv, PortInv, Followed, FreshPort, AddrInv, Asked, Free, Writing, Replying
<1> QED BY <1>1, <1>2

THEOREM RelaySocketInv == Spec => []SocketInv
<1>1. Init => SocketInv
  BY InitSocketInv
<1>2. SocketInv /\ [Next]_vars => SocketInv'
  BY StepSocketInv
<1> QED BY <1>1, <1>2, PTL DEF Spec

\* No dial and no stop leaves a descriptor open: see NoFdLeak in Relay.tla, of
\* proxy_reconnect.c, proxy_net.c and proxy_shutdown.c.
THEOREM RelayNoFdLeak == Spec => []NoFdLeak
<1>1. SocketInv => NoFdLeak
  BY DEF SocketInv, FdInv, Holding, NoFdLeak
<1> QED BY <1>1, RelaySocketInv, PTL

\* What remote_fd names is the remote socket, but for one step: see
\* PublishedIsOpen in Relay.tla, of proxy_reconnect.c:8-9.
THEOREM RelayPublishedIsOpen == Spec => []PublishedIsOpen
<1>1. SocketInv => PublishedIsOpen
  BY DEF SocketInv, FdInv, PublishedIsOpen
<1> QED BY <1>1, RelaySocketInv, PTL

\* The port of the client gets to the socket, or a redial is on its way, or it
\* changed behind the dial, or a recovery has left it for a fresh one: see
\* PortApplied in Relay.tla, of proxy_c2s_client.c, proxy_reconnect.c,
\* proxy_control.c and proxy_net.c.  Without SrcPortDrift nothing is fresh.
THEOREM RelayPortApplied == Spec => []PortApplied
<1>1. SocketInv => PortApplied
  BY DEF SocketInv, FdInv, PortInv, Followed, Asked, PortApplied
<1> QED BY <1>1, RelaySocketInv, PTL

\* What s2c sends goes to the client, and to a whole address unless the client
\* moved while it was copied: see DestIsClient in Relay.tla, of
\* proxy_c2s_client.c, proxy_s2c_client.c and proxy_reconnect.c.
THEOREM RelayDestIsClient == Spec => []DestIsClient
<1>1. ASSUME SocketInv PROVE DestIsClient
  <2>1. SUFFICES ASSUME spc = "reply"
                 PROVE  dest \in Port \X Port /\ (~moved => dest = client_addr /\ dest[1] = dest[2])
    BY DEF DestIsClient
  <2>2. dest = <<dest[1], dest[2]>> /\ dest[1] \in Port /\ dest[2] \in Port
    BY <1>1, <2>1 DEF SocketInv, TypeOK, AddrInv
  <2>3. ASSUME ~moved PROVE dest = client_addr /\ dest[1] = dest[2]
    BY <1>1, <2>1, <2>3 DEF SocketInv, AddrInv, Writing, Replying
  <2> QED BY <2>2, <2>3
<1> QED BY <1>1, RelaySocketInv, PTL

=============================================================================
