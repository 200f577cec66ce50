-------------------------- MODULE PanelConfProofs --------------------------
(***************************************************************************)
(* Every text the panel's requests, start and restarts hand around is      *)
(* well-formed: the one in the file, those the requests hold, and the one  *)
(* the auto-start thread holds.  That no address is given away twice       *)
(* follows: a request may overwrite what another wrote, but always with a  *)
(* text that was derived from one text by one step.                        *)
(***************************************************************************)
EXTENDS PanelConf, TLAPS

\* In a text no address belongs to two peers, and only a listed peer has one.
Distinct(c) == \A p, q \in Peer : c.ip[p] # 0 /\ c.ip[p] = c.ip[q] => p = q
OnlyListed(c) == \A p \in Peer : ~Listed(c, p) => c.ip[p] = 0
WellFormed(c) == c \in Conf /\ Distinct(c) /\ OnlyListed(c)

\* What a request holds.
Request == [pc : States, op : Ops, peer : Peer \cup {NoPeer}, conf : Conf]

\* A request in order: its text is well-formed, and one that is to change the
\* daemon is about a peer.
PeerOps == {"add", "delete", "suspend", "resume"}
InOrder(q) ==
    /\ WellFormed(q.conf)
    /\ q.op \in PeerOps => q.peer \in Peer
    /\ q.pc = "daemon" => q.op \in PeerOps

\* The inductive invariant, by parts.
FileOK == WellFormed(file)

RequestsOK ==
    /\ req \in [Req -> Request]
    /\ \A r \in Req : InOrder(req[r])

DaemonOK ==
    /\ up \in {"down", "bare", "up"}
    /\ live \in [Peer -> IP \cup {0}]
    /\ missed \subseteq Peer

StartOK ==
    /\ boot \in {"start", "run"}
    /\ auto \in [pc : {"none", "read", "check", "up"}, conf : Conf]
    /\ WellFormed(auto.conf)

HistoryOK ==
    /\ kept \subseteq Peer /\ suspended \subseteq Peer
    /\ keys \in 0 .. MaxKeys /\ restarts \in 0 .. MaxRestarts
    /\ served \in 0 .. MaxRequests

IInv == FileOK /\ RequestsOK /\ DaemonOK /\ StartOK /\ HistoryOK

-----------------------------------------------------------------------------
(* The text functions *)

\* _next_ip gives away an address of the pool that no listed peer has.
LEMMA NextIPFree ==
    ASSUME NEW c, NEW i, NextIP(c, i)
    PROVE  i \in IP /\ \A q \in Peer : Listed(c, q) => c.ip[q] # i
  BY DEF NextIP, Pool

\* The text of an emptied file.
LEMMA EmptyWellFormed == WellFormed(Empty)
  BY BoundsAssumption DEF WellFormed, Empty, Conf, Distinct, OnlyListed, Listed, None, NoKey

\* A new peer with the next address.
LEMMA AddWellFormed ==
    ASSUME NEW c, WellFormed(c), NEW p \in Peer, ~Listed(c, p), NEW i, NextIP(c, i)
    PROVE  WellFormed(WithPeer(c, p, "on", i))
<1> DEFINE d == WithPeer(c, p, "on", i)
<1>1. i \in IP /\ \A q \in Peer : Listed(c, q) => c.ip[q] # i
  BY NextIPFree
<1>2. d \in Conf
  BY <1>1 DEF WellFormed, WithPeer, Conf
<1>3. \A q \in Peer : d.ip[q] = IF q = p THEN i ELSE c.ip[q]
  BY DEF WellFormed, WithPeer, Conf
<1>4. \A q \in Peer : d.state[q] = IF q = p THEN "on" ELSE c.state[q]
  BY DEF WellFormed, WithPeer, Conf
<1>5. \A q \in Peer : c.ip[q] # i
  BY <1>1, IPAssumption DEF WellFormed, OnlyListed
<1>6. Distinct(d)
  BY <1>3, <1>5 DEF WellFormed, Distinct
<1>7. OnlyListed(d)
  BY <1>3, <1>4 DEF WellFormed, OnlyListed, Listed
<1> QED
  BY <1>2, <1>6, <1>7 DEF WellFormed

\* A peer suspended or resumed: its address is left as it is.
LEMMA MarkWellFormed ==
    ASSUME NEW c, WellFormed(c), NEW p \in Peer, Listed(c, p), NEW s \in {"on", "off"}
    PROVE  WellFormed(WithPeer(c, p, s, c.ip[p]))
<1> DEFINE d == WithPeer(c, p, s, c.ip[p])
<1>1. d \in Conf
  BY DEF WellFormed, WithPeer, Conf
<1>2. \A q \in Peer : d.ip[q] = c.ip[q]
  BY DEF WellFormed, WithPeer, Conf
<1>3. \A q \in Peer : d.state[q] = IF q = p THEN s ELSE c.state[q]
  BY DEF WellFormed, WithPeer, Conf
<1>4. Distinct(d)
  BY <1>2 DEF WellFormed, Distinct
<1>5. OnlyListed(d)
  BY <1>2, <1>3 DEF WellFormed, OnlyListed, Listed
<1> QED
  BY <1>1, <1>4, <1>5 DEF WellFormed

\* A peer deleted.
LEMMA DeleteWellFormed ==
    ASSUME NEW c, WellFormed(c), NEW p \in Peer
    PROVE  WellFormed(WithPeer(c, p, "none", 0))
<1> DEFINE d == WithPeer(c, p, "none", 0)
<1>1. d \in Conf
  BY DEF WellFormed, WithPeer, Conf
<1>2. \A q \in Peer : d.ip[q] = IF q = p THEN 0 ELSE c.ip[q]
  BY DEF WellFormed, WithPeer, Conf
<1>3. \A q \in Peer : d.state[q] = IF q = p THEN "none" ELSE c.state[q]
  BY DEF WellFormed, WithPeer, Conf
<1>4. Distinct(d)
  BY <1>2 DEF WellFormed, Distinct
<1>5. OnlyListed(d)
  BY <1>2, <1>3 DEF WellFormed, OnlyListed, Listed
<1> QED
  BY <1>1, <1>4, <1>5 DEF WellFormed

\* A new key, or the mark that there is none, changes no peer.
LEMMA KeyWellFormed ==
    ASSUME NEW c, WellFormed(c), NEW k \in {NoKey} \cup 0 .. MaxKeys
    PROVE  WellFormed([c EXCEPT !.key = k])
<1> DEFINE d == [c EXCEPT !.key = k]
<1>1. d \in Conf /\ d.ip = c.ip /\ d.state = c.state
  BY DEF WellFormed, Conf
<1> QED
  BY <1>1 DEF WellFormed, Distinct, OnlyListed, Listed

\* The text without the suspended peers.
LEMMA RuntimeConfWellFormed ==
    ASSUME NEW c, WellFormed(c)
    PROVE  WellFormed(RuntimeConf(c))
<1> DEFINE d == RuntimeConf(c)
<1>1. d \in Conf
  BY DEF WellFormed, RuntimeConf, Conf
<1>2. \A q \in Peer : d.ip[q] = IF c.state[q] = "on" THEN c.ip[q] ELSE 0
  BY DEF WellFormed, RuntimeConf, Conf
<1>3. \A q \in Peer : d.state[q] = IF c.state[q] = "on" THEN "on" ELSE "none"
  BY DEF WellFormed, RuntimeConf, Conf
<1>4. Distinct(d)
  BY <1>2 DEF WellFormed, Distinct
<1>5. OnlyListed(d)
  BY <1>2, <1>3 DEF OnlyListed, Listed
<1> QED
  BY <1>1, <1>4, <1>5 DEF WellFormed

-----------------------------------------------------------------------------
(* Requests *)

\* Nothing held, nothing wrong.
LEMMA IdleRequest == Idle \in Request /\ InOrder(Idle)
<1>1. Empty \in Conf
  BY EmptyWellFormed DEF WellFormed
<1> QED
  BY <1>1, EmptyWellFormed DEF Idle, Request, States, Ops, InOrder, PeerOps

\* One request is replaced by another that is in order.
LEMMA RequestReplaced ==
    ASSUME RequestsOK, NEW r \in Req, NEW q, q \in Request, InOrder(q),
           req' = [req EXCEPT ![r] = q]
    PROVE  RequestsOK'
<1>1. req' \in [Req -> Request]
  BY DEF RequestsOK
<1>2. ASSUME NEW t \in Req PROVE InOrder(req'[t])
  <2>1. req'[t] = IF t = r THEN q ELSE req[t]
    BY DEF RequestsOK
  <2> QED
    BY <2>1 DEF RequestsOK
<1> QED
  BY <1>1, <1>2 DEF RequestsOK, InOrder, WellFormed, Distinct, OnlyListed, Listed

\* A request goes on, or ends.
LEMMA GoOn ==
    ASSUME RequestsOK, NEW r \in Req, NEW pc \in States, Go(r, pc),
           pc = "daemon" => req[r].op \in PeerOps
    PROVE  RequestsOK'
<1>1. CASE pc = "idle"
  <2>1. req' = [req EXCEPT ![r] = Idle]
    BY <1>1 DEF Go
  <2> QED
    BY <2>1, IdleRequest, RequestReplaced
<1>2. CASE pc # "idle"
  <2> DEFINE q == [req[r] EXCEPT !.pc = pc]
  <2>1. req' = [req EXCEPT ![r] = q]
    BY <1>2 DEF Go
  <2>2. /\ q \in Request /\ q.pc = pc
        /\ q.conf = req[r].conf /\ q.op = req[r].op /\ q.peer = req[r].peer
    BY DEF RequestsOK, Request
  <2>3. InOrder(q)
    BY <2>2 DEF RequestsOK, InOrder
  <2> QED
    BY <2>1, <2>2, <2>3, RequestReplaced
<1> QED
  BY <1>1, <1>2

\* A request begins with a text that is in order.
LEMMA BeginWith ==
    ASSUME RequestsOK, NEW r \in Req, NEW pc \in States, NEW op \in Ops,
           NEW p \in Peer \cup {NoPeer}, NEW c, WellFormed(c), Begin(r, pc, op, p, c),
           pc # "daemon", op \in PeerOps => p \in Peer
    PROVE  RequestsOK'
<1> DEFINE q == [pc |-> pc, op |-> op, peer |-> p, conf |-> c]
<1>1. q \in Request /\ InOrder(q)
  BY DEF Request, WellFormed, InOrder
<1>2. req' = [req EXCEPT ![r] = q]
  BY DEF Begin
<1> QED
  BY <1>1, <1>2, RequestReplaced

\* The count of requests stays within its bound.
LEMMA ArrivalCounted ==
    ASSUME HistoryOK, NEW r \in Req, Arrives(r)
    PROVE  served' \in 0 .. MaxRequests
  BY BoundsAssumption DEF HistoryOK, Arrives

\* awg-quick configures the daemon from the file, or leaves it alone.
LEMMA QuickUpDaemon ==
    ASSUME FileOK, DaemonOK, QuickUp
    PROVE  DaemonOK'
  BY DEF FileOK, DaemonOK, QuickUp, PeersOf, WellFormed, Conf, daemon

\* _apply_direct configures it from the text it is given.
LEMMA DirectUpDaemon ==
    ASSUME DaemonOK, NEW c, WellFormed(c), DirectUp(c)
    PROVE  DaemonOK'
<1>1. RuntimeConf(c).ip \in [Peer -> IP \cup {0}]
  BY RuntimeConfWellFormed DEF WellFormed, Conf
<1> QED
  BY <1>1 DEF DaemonOK, DirectUp, PeersOf, None, daemon

-----------------------------------------------------------------------------
(* The invariant *)

LEMMA InitOK == Init => IInv
<1> SUFFICES ASSUME Init PROVE IInv
  OBVIOUS
<1>1. FileOK
  BY EmptyWellFormed DEF Init, FileOK
<1>2. RequestsOK
  <2>1. req = [r \in Req |-> Idle]
    BY DEF Init
  <2>2. \A r \in Req : req[r] = Idle
    BY <2>1
  <2> QED
    BY <2>1, <2>2, IdleRequest DEF RequestsOK
<1>3. DaemonOK
  BY DEF Init, DaemonOK, None
<1>4. StartOK
  BY EmptyWellFormed DEF Init, StartOK, WellFormed
<1>5. HistoryOK
  BY BoundsAssumption DEF Init, HistoryOK
<1> QED
  BY <1>1, <1>2, <1>3, <1>4, <1>5 DEF IInv

\* A part nothing is done to stays in order.
LEMMA FileKept == ASSUME FileOK, file' = file PROVE FileOK'
  BY DEF FileOK
LEMMA RequestsKept == ASSUME RequestsOK, req' = req PROVE RequestsOK'
  BY DEF RequestsOK
LEMMA DaemonKept == ASSUME DaemonOK, UNCHANGED daemon PROVE DaemonOK'
  BY DEF DaemonOK, daemon
LEMMA StartKept == ASSUME StartOK, boot' = boot, auto' = auto PROVE StartOK'
  BY DEF StartOK
LEMMA HistoryKept == ASSUME HistoryOK, UNCHANGED history PROVE HistoryOK'
  BY DEF HistoryOK, history

\* The daemon stopped.
LEMMA DaemonDown == ASSUME up' = "down", live' = None, missed' = {} PROVE DaemonOK'
  BY DEF DaemonOK, None

\* A handler reads the file, and edits what it read.
LEMMA BeginStep ==
    ASSUME IInv, NEW r \in Req,
           \/ \E p \in Peer : BeginAdd(r, p) \/ BeginDelete(r, p) \/ BeginSuspend(r, p)
                                                \/ BeginResume(r, p)
           \/ BeginRegenCps(r) \/ BeginApply(r)
           \/ \E regenerate \in BOOLEAN : BeginInit(r, regenerate)
    PROVE  IInv'
<1> USE DEF IInv
<1>0. WellFormed(file) /\ RequestsOK /\ HistoryOK
  BY DEF FileOK
<1>1. FileOK' /\ DaemonOK' /\ StartOK'
  <2>1. file' = file /\ UNCHANGED daemon /\ boot' = boot /\ auto' = auto
    BY DEF BeginAdd, BeginDelete, BeginSuspend, BeginResume, BeginRegenCps, BeginApply,
           BeginInit
  <2> QED
    BY <2>1, FileKept, DaemonKept, StartKept
<1>2. served' \in 0 .. MaxRequests
  <2>1. Arrives(r)
    BY DEF BeginAdd, BeginDelete, BeginSuspend, BeginResume, BeginRegenCps, BeginApply,
           BeginInit
  <2> QED
    BY <2>1, ArrivalCounted
<1>3. ASSUME NEW p \in Peer, BeginAdd(r, p) PROVE RequestsOK' /\ HistoryOK'
  <2>1. PICK i \in Pool : NextIP(file, i)
                          /\ Begin(r, "truncate", "add", p, WithPeer(file, p, "on", i))
    BY <1>3 DEF BeginAdd
  <2>2. ~Listed(file, p)
    BY <1>3 DEF BeginAdd, Fresh
  <2>3. WellFormed(WithPeer(file, p, "on", i))
    BY <1>0, <2>1, <2>2, AddWellFormed
  <2>4. RequestsOK'
    BY <1>0, <2>1, <2>3, BeginWith DEF States, Ops, PeerOps
  <2> QED
    BY <1>2, <1>3, <2>4 DEF BeginAdd, HistoryOK
<1>4. ASSUME NEW p \in Peer, BeginDelete(r, p) PROVE RequestsOK' /\ HistoryOK'
  <2>1. Begin(r, "truncate", "delete", p, WithPeer(file, p, "none", 0))
    BY <1>4 DEF BeginDelete
  <2>2. RequestsOK'
    BY <1>0, <2>1, DeleteWellFormed, BeginWith DEF States, Ops, PeerOps
  <2> QED
    BY <1>2, <1>4, <2>2 DEF BeginDelete, HistoryOK
<1>5. ASSUME NEW p \in Peer, BeginSuspend(r, p) PROVE RequestsOK' /\ HistoryOK'
  <2>1. Begin(r, "truncate", "suspend", p, WithPeer(file, p, "off", file.ip[p])) /\ Listed(file, p)
    BY <1>5 DEF BeginSuspend
  <2>2. WellFormed(WithPeer(file, p, "off", file.ip[p]))
    BY <1>0, <2>1, MarkWellFormed
  <2>3. RequestsOK'
    BY <1>0, <2>1, <2>2, BeginWith DEF States, Ops, PeerOps
  <2> QED
    BY <1>2, <1>5, <2>3 DEF BeginSuspend, HistoryOK
<1>6. ASSUME NEW p \in Peer, BeginResume(r, p) PROVE RequestsOK' /\ HistoryOK'
  <2>1. Begin(r, "truncate", "resume", p, WithPeer(file, p, "on", file.ip[p])) /\ Listed(file, p)
    BY <1>6 DEF BeginResume
  <2>2. WellFormed(WithPeer(file, p, "on", file.ip[p]))
    BY <1>0, <2>1, MarkWellFormed
  <2>3. RequestsOK'
    BY <1>0, <2>1, <2>2, BeginWith DEF States, Ops, PeerOps
  <2> QED
    BY <1>2, <1>6, <2>3 DEF BeginResume, HistoryOK
<1>7. CASE BeginRegenCps(r)
  <2> DEFINE c == IF file = Empty THEN [Empty EXCEPT !.key = NoKey] ELSE file
  <2>1. Begin(r, "truncate", "regen_cps", NoPeer, c)
    BY <1>7 DEF BeginRegenCps
  <2>2. WellFormed([Empty EXCEPT !.key = NoKey])
    BY EmptyWellFormed, KeyWellFormed
  <2>3. WellFormed(c)
    BY <1>0, <2>2
  <2>4. RequestsOK'
    BY <1>0, <2>1, <2>3, BeginWith DEF States, Ops, PeerOps
  <2> QED
    BY <1>1, <1>2, <1>7, <2>4 DEF BeginRegenCps, HistoryOK
<1>8. CASE BeginApply(r)
  <2>1. Begin(r, "applyread", "apply", NoPeer, Empty)
    BY <1>8 DEF BeginApply
  <2>2. RequestsOK'
    BY <1>0, <2>1, EmptyWellFormed, BeginWith DEF States, Ops, PeerOps
  <2> QED
    BY <1>1, <1>2, <1>8, <2>2 DEF BeginApply, HistoryOK
<1>9. ASSUME NEW regenerate \in BOOLEAN, BeginInit(r, regenerate)
      PROVE  RequestsOK' /\ HistoryOK'
  <2> DEFINE new == file.key <= 0 \/ regenerate
             k == IF new THEN keys + 1 ELSE file.key
  <2>1. /\ new => keys < MaxKeys
        /\ keys' = IF new THEN keys + 1 ELSE keys
        /\ Begin(r, "truncate", "init", NoPeer, InitConf(file, new, keys + 1))
    BY <1>9 DEF BeginInit
  <2>2. keys \in 0 .. MaxKeys /\ MaxKeys \in Nat
    BY <1>0, BoundsAssumption DEF HistoryOK
  <2>3. keys' \in 0 .. MaxKeys
    BY <2>1, <2>2
  <2>4. k \in {NoKey} \cup 0 .. MaxKeys
    BY <1>0, <2>1, <2>2 DEF WellFormed, Conf
  <2>5. InitConf(file, new, keys + 1) = [file EXCEPT !.key = k]
    BY <1>0 DEF InitConf, WellFormed, Conf
  <2>6. WellFormed(InitConf(file, new, keys + 1))
    BY <1>0, <2>4, <2>5, KeyWellFormed
  <2>7. RequestsOK'
    BY <1>0, <2>1, <2>6, BeginWith DEF States, Ops, PeerOps
  <2> QED
    BY <1>2, <1>9, <2>3, <2>7 DEF BeginInit, HistoryOK
<1> QED
  BY <1>1, <1>3, <1>4, <1>5, <1>6, <1>7, <1>8, <1>9

\* Every text a request writes is the one it holds, or that without the
\* suspended peers, or none.
LEMMA HandlerStep ==
    ASSUME IInv, NEW r \in Req, Handler(r)
    PROVE  IInv'
<1> USE DEF IInv
<1>0. WellFormed(file) /\ RequestsOK /\ HistoryOK /\ req[r] \in Request /\ WellFormed(req[r].conf)
  BY DEF FileOK, RequestsOK, InOrder
<1>a. WellFormed(file') => FileOK'
  BY DEF FileOK
<1>1. CASE \/ \E p \in Peer : BeginAdd(r, p) \/ BeginDelete(r, p) \/ BeginSuspend(r, p)
                                                \/ BeginResume(r, p)
           \/ BeginRegenCps(r) \/ BeginApply(r)
           \/ \E regenerate \in BOOLEAN : BeginInit(r, regenerate)
  BY <1>1, BeginStep
<1>2. CASE Truncate(r)
  <2>1. file' = Empty /\ Go(r, "write") /\ UNCHANGED <<daemon, boot, auto, history>>
    BY <1>2 DEF Truncate
  <2> QED
    BY <1>0, <1>a, <2>1, EmptyWellFormed, GoOn, DaemonKept, StartKept, HistoryKept DEF States
<1>3. CASE Write(r)
  <2>1. file' = req[r].conf /\ UNCHANGED <<daemon, boot, auto, history>>
    BY <1>3 DEF Write
  <2>2. PICK autostart \in BOOLEAN : Go(r, WriteDone(r, autostart))
    BY <1>3 DEF Write
  <2>3. /\ WriteDone(r, autostart) \in States
        /\ WriteDone(r, autostart) = "daemon" => req[r].op \in PeerOps
    BY <1>0 DEF WriteDone, States, Request, Ops, PeerOps
  <2>4. RequestsOK'
    BY <1>0, <2>2, <2>3, GoOn
  <2> QED
    BY <1>0, <1>a, <2>1, <2>4, DaemonKept, StartKept, HistoryKept
<1>4. CASE Daemon(r)
  <2> DEFINE p == req[r].peer  op == req[r].op
             i == IF op \in {"add", "resume"} THEN req[r].conf.ip[p] ELSE 0
  <2>1. /\ SetPeer(p, i)
        /\ req' = [req EXCEPT ![r] = Idle]
        /\ kept' = (IF op = "add" THEN kept \cup {p} ELSE kept)
        /\ suspended' = (IF op = "suspend" THEN suspended \cup {p} ELSE suspended)
        /\ UNCHANGED <<file, boot, auto, keys, restarts, served>>
    BY <1>4 DEF Daemon
  <2>2. p \in Peer
    BY <1>4 DEF Daemon, RequestsOK, InOrder
  <2>3. DaemonOK'
    <3>1. i \in IP \cup {0}
      BY <1>0, <2>2 DEF WellFormed, Conf
    <3> HIDE DEF i, p
    <3>2. live' \in [Peer -> IP \cup {0}]
      BY <2>1, <3>1 DEF DaemonOK, SetPeer
    <3>3. missed' \subseteq Peer
      BY <2>1, <2>2 DEF DaemonOK, SetPeer
    <3> QED
      BY <2>1, <3>2, <3>3 DEF DaemonOK, SetPeer
  <2>4. RequestsOK'
    BY <1>0, <2>1, IdleRequest, RequestReplaced
  <2>5. HistoryOK'
    BY <2>1, <2>2 DEF HistoryOK
  <2> QED
    BY <2>1, <2>3, <2>4, <2>5, FileKept, StartKept
<1>5. CASE ApplyRead(r)
  <2> DEFINE q == [req[r] EXCEPT !.pc = "applytruncate", !.conf = file]
  <2>1. req' = [req EXCEPT ![r] = q] /\ UNCHANGED <<file, daemon, boot, auto, history>>
    BY <1>5, <1>0 DEF ApplyRead, RequestsOK
  <2>2. q \in Request /\ InOrder(q)
    BY <1>0 DEF Request, States, WellFormed, RequestsOK, InOrder, Distinct, OnlyListed, Listed
  <2>3. RequestsOK'
    BY <1>0, <2>1, <2>2, RequestReplaced
  <2> QED
    BY <2>1, <2>3, FileKept, DaemonKept, StartKept, HistoryKept
<1>6. CASE ApplyTruncate(r)
  <2>1. file' = Empty /\ Go(r, "applywrite") /\ UNCHANGED <<daemon, boot, auto, history>>
    BY <1>6 DEF ApplyTruncate
  <2> QED
    BY <1>0, <1>a, <2>1, EmptyWellFormed, GoOn, DaemonKept, StartKept, HistoryKept DEF States
<1>7. CASE ApplyWrite(r)
  <2>1. file' = RuntimeConf(req[r].conf) /\ Go(r, "down") /\ UNCHANGED <<daemon, boot, auto, history>>
    BY <1>7 DEF ApplyWrite
  <2>2. WellFormed(file')
    BY <1>0, <2>1, RuntimeConfWellFormed
  <2> QED
    BY <1>0, <1>a, <2>1, <2>2, GoOn, DaemonKept, StartKept, HistoryKept DEF States
<1>8. CASE ApplyDown(r)
  <2>1. Go(r, "up") /\ UNCHANGED <<file, boot, auto, history>>
    BY <1>8 DEF ApplyDown
  <2>2. DaemonOK'
    BY <1>8, DaemonDown, DaemonKept DEF ApplyDown
  <2> QED
    BY <1>0, <2>1, <2>2, GoOn, FileKept, StartKept, HistoryKept DEF States
<1>9. CASE ApplyUp(r)
  <2>1. QuickUp \/ DirectUp(req[r].conf)
    BY <1>9 DEF ApplyUp
  <2>2. Go(r, "resttruncate") /\ UNCHANGED <<file, boot, auto, history>>
    BY <1>9 DEF ApplyUp
  <2>3. DaemonOK'
    BY <1>0, <2>1, QuickUpDaemon, DirectUpDaemon
  <2> QED
    BY <1>0, <2>2, <2>3, GoOn, FileKept, StartKept, HistoryKept DEF States
<1>10. CASE RestoreTruncate(r)
  <2>1. file' = Empty /\ Go(r, "restwrite") /\ UNCHANGED <<daemon, boot, auto, history>>
    BY <1>10 DEF RestoreTruncate
  <2> QED
    BY <1>0, <1>a, <2>1, EmptyWellFormed, GoOn, DaemonKept, StartKept, HistoryKept DEF States
<1>11. CASE RestoreWrite(r)
  <2>1. file' = req[r].conf /\ req' = [req EXCEPT ![r] = Idle]
        /\ UNCHANGED <<daemon, boot, auto, history>>
    BY <1>11 DEF RestoreWrite
  <2>2. RequestsOK'
    BY <1>0, <2>1, IdleRequest, RequestReplaced
  <2> QED
    BY <1>0, <1>a, <2>1, <2>2, DaemonKept, StartKept, HistoryKept
<1> QED
  BY <1>1, <1>2, <1>3, <1>4, <1>5, <1>6, <1>7, <1>8, <1>9, <1>10, <1>11 DEF Handler

\* The container: no text is changed, only read.
LEMMA ContainerStep ==
    ASSUME IInv, Restart \/ PanelRestart \/ StartSh \/ AutoRead \/ AutoCheck \/ AutoUp
    PROVE  IInv'
<1> USE DEF IInv
<1>1. FileOK'
  <2>1. file' = file
    BY DEF Restart, PanelRestart, StartSh, AutoRead, AutoCheck, AutoUp
  <2> QED
    BY <2>1, FileKept
<1>2. CASE Restart \/ PanelRestart
  <2>1. RequestsOK'
    <3>1. \A r \in Req : req'[r] = Idle
      BY <1>2 DEF Restart, PanelRestart
    <3>2. req' \in [Req -> Request]
      BY <1>2, IdleRequest DEF Restart, PanelRestart
    <3>3. \A r \in Req : InOrder(req'[r])
      BY <3>1, IdleRequest
    <3> QED
      BY <3>2, <3>3 DEF RequestsOK, InOrder, WellFormed, Distinct, OnlyListed, Listed
  <2>2. DaemonOK'
    <3>1. \A r \in Req : req[r].pc = "daemon" => req[r].peer \in Peer
      BY DEF RequestsOK, InOrder
    <3>2. CASE PanelRestart
      BY <3>1, <3>2 DEF PanelRestart, DaemonOK
    <3> QED
      BY <1>2, <3>2, DaemonDown DEF Restart
  <2>3. StartOK'
    BY <1>2, EmptyWellFormed
       DEF Restart, PanelRestart, StartOK, WellFormed, Distinct, OnlyListed, Listed
  <2>4. HistoryOK'
    BY <1>2, BoundsAssumption DEF Restart, PanelRestart, HistoryOK
  <2> QED
    BY <1>1, <2>1, <2>2, <2>3, <2>4
<1>3. CASE StartSh
  <2>1. DaemonOK' /\ RequestsOK' /\ HistoryOK'
    BY <1>3, QuickUpDaemon, RequestsKept, HistoryKept DEF StartSh
  <2>2. StartOK'
    <3>1. boot' = "run" /\ auto' = [auto EXCEPT !.pc = "read"]
      BY <1>3 DEF StartSh
    <3>2. auto' \in [pc : {"none", "read", "check", "up"}, conf : Conf] /\ auto'.conf = auto.conf
      BY <3>1 DEF StartOK
    <3> QED
      BY <3>1, <3>2 DEF StartOK, WellFormed, Distinct, OnlyListed, Listed
  <2> QED
    BY <1>1, <2>1, <2>2
<1>4. CASE AutoRead \/ AutoCheck \/ AutoUp
  <2>1. RequestsOK' /\ HistoryOK' /\ boot' = boot
    BY <1>4, RequestsKept, HistoryKept DEF AutoRead, AutoCheck, AutoUp
  <2>2. DaemonOK'
    <3>1. CASE AutoRead \/ AutoCheck
      BY <3>1, DaemonKept DEF AutoRead, AutoCheck
    <3>2. CASE AutoUp
      BY <3>2, DirectUpDaemon DEF AutoUp, StartOK
    <3> QED
      BY <1>4, <3>1, <3>2
  <2>3. /\ auto' \in [pc : {"none", "read", "check", "up"}, conf : Conf]
        /\ auto'.conf \in {file, auto.conf, Empty}
    <3>1. CASE AutoRead
      BY <3>1 DEF AutoRead, StartOK, FileOK, WellFormed
    <3>2. CASE AutoCheck
      BY <3>2, EmptyWellFormed DEF AutoCheck, StartOK, WellFormed
    <3>3. CASE AutoUp
      BY <3>3, EmptyWellFormed DEF AutoUp, StartOK, WellFormed
    <3> QED
      BY <1>4, <3>1, <3>2, <3>3
  <2>4. WellFormed(auto'.conf)
    BY <2>3, EmptyWellFormed DEF StartOK, FileOK
  <2>5. StartOK'
    BY <2>1, <2>3, <2>4 DEF StartOK, WellFormed, Distinct, OnlyListed, Listed
  <2> QED
    BY <1>1, <2>1, <2>2, <2>5
<1> QED
  BY <1>2, <1>3, <1>4

\* Every step keeps the invariant.
LEMMA NextOK == IInv /\ [Next]_vars => IInv'
<1> SUFFICES ASSUME IInv, [Next]_vars PROVE IInv'
  OBVIOUS
<1>1. CASE \E r \in Req : Handler(r)
  BY <1>1, HandlerStep
<1>2. CASE Restart \/ PanelRestart \/ StartSh \/ AutoRead \/ AutoCheck \/ AutoUp
  BY <1>2, ContainerStep
<1>3. CASE UNCHANGED vars
  BY <1>3, FileKept, RequestsKept, DaemonKept, StartKept, HistoryKept DEF vars, IInv
<1> QED
  BY <1>1, <1>2, <1>3 DEF Next

\* What the invariant says of a state.
LEMMA InvImplies == IInv => TypeOK /\ NoSharedAddress
  BY DEF IInv, FileOK, RequestsOK, DaemonOK, StartOK, HistoryOK, Request, WellFormed,
         Distinct, TypeOK, NoSharedAddress

\* The panel's file, the texts its threads hold and the daemon keep their types,
\* whatever the requests, threads and restarts do.
THEOREM PanelTypeOK == Spec => []TypeOK
<1>1. Spec => []IInv
  BY InitOK, NextOK, PTL DEF Spec
<1> QED
  BY <1>1, InvImplies, PTL

\* Two peers never share an address in the configuration file, for any number
\* of concurrent requests without a lock and any number of restarts.
THEOREM PanelNoSharedAddress == Spec => []NoSharedAddress
<1>1. Spec => []IInv
  BY InitOK, NextOK, PTL DEF Spec
<1> QED
  BY <1>1, InvImplies, PTL

-----------------------------------------------------------------------------
(* One request after another                                               *)
(*                                                                         *)
(* When requests wait for each other, the text that is to stay is always   *)
(* in one place: in the file, or with the one request that is about to     *)
(* write it (back).  It has all that was acknowledged, and the daemon      *)
(* agrees with it, but for the peer the request is about.                  *)

\* Where the text is with the request, and where it is in the file.
Holding == States \ {"idle", "applyread"}

\* Requests come one at a time, and none while the container starts.
OneByOne ==
    \A r \in Req :
        /\ req[r].pc = "idle" => req[r] = Idle
        /\ req[r].pc # "idle" => /\ boot = "run" /\ auto.pc = "none"
                                 /\ \A t \in Req \ {r} : req[t].pc = "idle"

\* The container starts with a daemon that is down, and the auto-start thread
\* holds what is in the file: nothing, the first time.
Starting ==
    /\ boot = "start" => up = "down" /\ auto.pc = "none"
    /\ auto.pc \in {"check", "up"} => auto.conf = file
    /\ restarts = 0 /\ (boot = "start" \/ auto.pc # "none") => file = Empty

\* A text has what was acknowledged, unless a restart came between.
Has(c) ==
    restarts = 0 => /\ \A p \in kept : Listed(c, p)
                    /\ \A p \in suspended : c.state[p] = "off"
                    /\ keys > 0 => c.key > 0

\* A daemon that runs has the peers of a text that are not suspended, and no
\* other peer as long as there was no restart; nothing is said of peer p, nor of
\* those whose last change it did not take.
Agrees(c, p) ==
    up = "up" => \A q \in Peer \ ({p} \cup missed) :
                     /\ c.state[q] = "on" => live[q] = c.ip[q]
                     /\ restarts = 0 /\ c.state[q] # "on" => live[q] = 0

\* What a request is about: an edit of one peer, or of none.
Edit(q) ==
    /\ q.op \in PeerOps => /\ q.pc \in {"truncate", "write", "daemon"}
                           /\ q.conf.state[q.peer] = CASE q.op = "delete" -> "none"
                                                        [] q.op = "suspend" -> "off"
                                                        [] OTHER -> "on"
    /\ q.op \notin PeerOps => q.peer = NoPeer

\* Which of its texts is in the file, and before the first, what the daemon has.
Written(q) ==
    /\ q.pc = "truncate" => Agrees(file, NoPeer)
    /\ q.pc \in {"write", "applywrite", "restwrite"} => file = Empty
    /\ q.pc \in {"daemon", "applytruncate"} => file = q.conf
    /\ q.pc \in {"down", "up", "resttruncate"} => file = RuntimeConf(q.conf)

SerialInv ==
    /\ OneByOne /\ Starting
    /\ \A r \in Req : /\ Edit(req[r]) /\ Written(req[r])
                      /\ req[r].pc \in Holding => Has(req[r].conf) /\ Agrees(req[r].conf, req[r].peer)
    /\ (\A r \in Req : req[r].pc \notin Holding) => Has(file) /\ Agrees(file, NoPeer)

\* What the edits leave in a text, field by field.
LEMMA WithPeerFields ==
    ASSUME NEW c \in Conf, NEW p \in Peer, NEW s, NEW i
    PROVE  /\ WithPeer(c, p, s, i).key = c.key
           /\ \A q \in Peer : /\ WithPeer(c, p, s, i).state[q] = IF q = p THEN s ELSE c.state[q]
                              /\ WithPeer(c, p, s, i).ip[q] = IF q = p THEN i ELSE c.ip[q]
  BY DEF WithPeer, Conf

LEMMA RuntimeFields ==
    ASSUME NEW c \in Conf
    PROVE  /\ DOMAIN RuntimeConf(c).ip = Peer
           /\ \A q \in Peer : RuntimeConf(c).state[q] = IF c.state[q] = "on" THEN "on" ELSE "none"
           /\ \A q \in Peer : RuntimeConf(c).ip[q] = IF c.state[q] = "on" THEN c.ip[q] ELSE 0
  BY DEF RuntimeConf, Conf

\* The steps of the one request that is served: it is enough to look at it.
LEMMA SoleStep ==
    ASSUME RequestsOK, RequestsOK', NEW r \in Req,
           \A t \in Req \ {r} : req[t] = Idle /\ req'[t] = req[t],
           boot' = "run", auto'.pc = "none",
           req'[r] = Idle \/ req'[r].pc # "idle",
           Edit(req[r])', Written(req[r])',
           req'[r].pc \in Holding => (Has(req[r].conf) /\ Agrees(req[r].conf, req[r].peer))',
           req'[r].pc \notin Holding => (Has(file) /\ Agrees(file, NoPeer))'
    PROVE  SerialInv'
<1>1. \A t \in Req \ {r} : req'[t] = Idle
  OBVIOUS
<1>2. Idle.pc = "idle" /\ Idle.op \notin PeerOps /\ Idle.peer = NoPeer
  BY DEF Idle, PeerOps
<1>3. OneByOne'
  BY <1>1, <1>2 DEF OneByOne
<1>4. Starting'
  BY DEF Starting
<1>5. \A t \in Req \ {r} : Edit(req[t])' /\ Written(req[t])' /\ req'[t].pc \notin Holding
  BY <1>1, <1>2 DEF Edit, Written, Holding
<1> QED
  BY <1>3, <1>4, <1>5 DEF SerialInv

\* A request that arrives finds everything in the file.
LEMMA SerialArrival ==
    ASSUME Serial, SerialInv, NEW r \in Req, Arrives(r)
    PROVE  /\ boot = "run" /\ auto.pc = "none"
           /\ \A t \in Req : req[t] = Idle
           /\ Has(file) /\ Agrees(file, NoPeer)
<1>1. boot = "run" /\ auto.pc = "none" /\ \A t \in Req : req[t] = Idle
  BY DEF Arrives, Quiet
<1>2. \A t \in Req : req[t].pc \notin Holding
  BY <1>1 DEF Idle, Holding
<1> QED
  BY <1>1, <1>2 DEF SerialInv

\* A handler's edit of the text takes nothing out of it that was acknowledged,
\* and differs from what the daemon has in one peer.
LEMMA SerialBegin ==
    ASSUME Serial, IInv, IInv', SerialInv, NEW r \in Req,
           \/ \E p \in Peer : BeginAdd(r, p) \/ BeginDelete(r, p) \/ BeginSuspend(r, p)
                                                \/ BeginResume(r, p)
           \/ BeginRegenCps(r) \/ BeginApply(r)
           \/ \E regenerate \in BOOLEAN : BeginInit(r, regenerate)
    PROVE  SerialInv'
<1> USE DEF PeerOps
<1>0. RequestsOK /\ RequestsOK' /\ file \in Conf /\ keys \in Nat /\ kept \subseteq Peer /\ suspended \subseteq Peer
  BY BoundsAssumption DEF IInv, FileOK, WellFormed, HistoryOK
<1>1. /\ boot = "run" /\ auto.pc = "none"
      /\ \A t \in Req : req[t] = Idle
      /\ Has(file) /\ Agrees(file, NoPeer)
  <2>1. Arrives(r)
    BY DEF BeginAdd, BeginDelete, BeginSuspend, BeginResume, BeginRegenCps, BeginApply,
           BeginInit
  <2> QED
    BY <2>1, SerialArrival
<1>2. file' = file /\ up' = up /\ live' = live /\ missed' = missed /\ boot' = boot /\ auto' = auto /\ restarts' = restarts
  BY DEF BeginAdd, BeginDelete, BeginSuspend, BeginResume, BeginRegenCps, BeginApply,
         BeginInit, daemon
\* It holds a text that is as the file is, but for what it is about.
<1>3. ASSUME NEW op \in Ops, NEW p \in Peer \cup {NoPeer}, NEW c \in Conf,
             Begin(r, "truncate", op, p, c),
             op \in PeerOps => /\ p \in Peer
                               /\ c.state[p] = CASE op = "delete" -> "none" [] op = "suspend" -> "off"
                                                  [] OTHER -> "on",
             op \notin PeerOps => p = NoPeer,
             \A q \in Peer \ {p} : c.state[q] = file.state[q] /\ c.ip[q] = file.ip[q],
             restarts = 0 => /\ \A q \in kept' : Listed(c, q)
                             /\ \A q \in suspended' : c.state[q] = "off"
                             /\ keys' > 0 => c.key > 0
      PROVE  SerialInv'
  <2>1. \A t \in Req : req'[t] = IF t = r THEN [pc |-> "truncate", op |-> op, peer |-> p, conf |-> c] ELSE req[t]
    BY <1>0, <1>3 DEF Begin, RequestsOK
  <2>2. Edit(req[r])' /\ Written(req[r])'
    BY <1>1, <1>2, <1>3, <2>1 DEF Edit, Written, Agrees
  <2>3. Has(req[r].conf)'
    BY <1>2, <1>3, <2>1 DEF Has
  <2>4. Agrees(req[r].conf, req[r].peer)'
    BY <1>1, <1>2, <1>3, <2>1, PeerAssumption DEF Agrees
  <2> QED
    BY <1>0, <1>1, <1>2, <2>1, <2>2, <2>3, <2>4, SoleStep DEF Holding, States
<1>4. ASSUME NEW p \in Peer, BeginAdd(r, p) PROVE SerialInv'
  <2>1. PICK i \in Pool : NextIP(file, i)
                          /\ Begin(r, "truncate", "add", p, WithPeer(file, p, "on", i))
    BY <1>4 DEF BeginAdd
  <2>2. ~Listed(file, p) /\ kept' = kept /\ suspended' = suspended /\ keys' = keys
    BY <1>4 DEF BeginAdd, Fresh
  <2>3. WithPeer(file, p, "on", i) \in Conf
    BY <1>0, <2>1, <2>2, AddWellFormed DEF IInv, FileOK, WellFormed
  <2> DEFINE c == WithPeer(file, p, "on", i)
  <2>4. restarts = 0 => /\ \A q \in kept' : Listed(c, q)
                        /\ \A q \in suspended' : c.state[q] = "off"
                        /\ keys' > 0 => c.key > 0
    BY <1>0, <1>1, <2>2, WithPeerFields DEF Has, Listed
  <2> QED
    BY <1>0, <1>3, <2>1, <2>3, <2>4, WithPeerFields DEF Ops
<1>5. ASSUME NEW p \in Peer, BeginDelete(r, p) PROVE SerialInv'
  <2> DEFINE c == WithPeer(file, p, "none", 0)
  <2>1. Begin(r, "truncate", "delete", p, c) /\ kept' = kept \ {p} /\ suspended' = suspended \ {p} /\ keys' = keys
    BY <1>5 DEF BeginDelete
  <2>2. c \in Conf
    BY DeleteWellFormed DEF IInv, FileOK, WellFormed
  <2>3. restarts = 0 => /\ \A q \in kept' : Listed(c, q)
                        /\ \A q \in suspended' : c.state[q] = "off"
                        /\ keys' > 0 => c.key > 0
    BY <1>0, <1>1, <2>1, WithPeerFields DEF Has, Listed
  <2> QED
    BY <1>0, <1>3, <2>1, <2>2, <2>3, WithPeerFields DEF Ops
<1>6. ASSUME NEW p \in Peer, BeginSuspend(r, p) PROVE SerialInv'
  <2> DEFINE c == WithPeer(file, p, "off", file.ip[p])
  <2>1. /\ Begin(r, "truncate", "suspend", p, c) /\ Listed(file, p)
        /\ kept' = kept /\ suspended' = suspended /\ keys' = keys
    BY <1>6 DEF BeginSuspend
  <2>2. c \in Conf
    BY <2>1, MarkWellFormed DEF IInv, FileOK, WellFormed
  <2>3. restarts = 0 => /\ \A q \in kept' : Listed(c, q)
                        /\ \A q \in suspended' : c.state[q] = "off"
                        /\ keys' > 0 => c.key > 0
    BY <1>0, <1>1, <2>1, WithPeerFields DEF Has, Listed
  <2> QED
    BY <1>0, <1>3, <2>1, <2>2, <2>3, WithPeerFields DEF Ops
<1>7. ASSUME NEW p \in Peer, BeginResume(r, p) PROVE SerialInv'
  <2> DEFINE c == WithPeer(file, p, "on", file.ip[p])
  <2>1. /\ Begin(r, "truncate", "resume", p, c) /\ Listed(file, p)
        /\ kept' = kept /\ suspended' = suspended \ {p} /\ keys' = keys
    BY <1>7 DEF BeginResume
  <2>2. c \in Conf
    BY <2>1, MarkWellFormed DEF IInv, FileOK, WellFormed
  <2>3. restarts = 0 => /\ \A q \in kept' : Listed(c, q)
                        /\ \A q \in suspended' : c.state[q] = "off"
                        /\ keys' > 0 => c.key > 0
    BY <1>0, <1>1, <2>1, WithPeerFields DEF Has, Listed
  <2> QED
    BY <1>0, <1>3, <2>1, <2>2, <2>3, WithPeerFields DEF Ops
<1>8. CASE BeginRegenCps(r)
  <2> DEFINE c == IF file = Empty THEN [Empty EXCEPT !.key = NoKey] ELSE file
  <2>1. Begin(r, "truncate", "regen_cps", NoPeer, c) /\ kept' = kept /\ suspended' = suspended /\ keys' = keys
    BY <1>8 DEF BeginRegenCps
  <2>2. c \in Conf /\ c.state = file.state /\ c.ip = file.ip /\ (file.key > 0 => c = file)
    BY <1>0, BoundsAssumption DEF Empty, Conf, None, NoKey
  <2>3. restarts = 0 => /\ \A q \in kept' : Listed(c, q)
                        /\ \A q \in suspended' : c.state[q] = "off"
                        /\ keys' > 0 => c.key > 0
    BY <1>1, <2>1, <2>2 DEF Has, Listed
  <2> HIDE DEF c
  <2> QED
    BY <1>3, <2>1, <2>2, <2>3 DEF Ops
<1>9. CASE BeginApply(r)
  <2>1. /\ Begin(r, "applyread", "apply", NoPeer, Empty)
        /\ kept' = kept /\ suspended' = suspended /\ keys' = keys
    BY <1>9 DEF BeginApply
  <2>2. \A t \in Req : req'[t] = IF t = r THEN [pc |-> "applyread", op |-> "apply", peer |-> NoPeer, conf |-> Empty]
                                  ELSE req[t]
    BY <1>0, <2>1 DEF Begin, RequestsOK
  <2>3. Edit(req[r])' /\ Written(req[r])'
    BY <2>2 DEF Edit, Written
  <2>4. (Has(file) /\ Agrees(file, NoPeer))'
    BY <1>1, <1>2, <2>1 DEF Has, Agrees
  <2> QED
    BY <1>0, <1>1, <1>2, <2>2, <2>3, <2>4, SoleStep DEF Holding, States
<1>10. ASSUME NEW regenerate \in BOOLEAN, BeginInit(r, regenerate) PROVE SerialInv'
  <2> DEFINE new == file.key <= 0 \/ regenerate
             c == InitConf(file, new, keys + 1)
  <2>1. /\ new => keys < MaxKeys
        /\ keys' = IF new THEN keys + 1 ELSE keys
        /\ Begin(r, "truncate", "init", NoPeer, c)
        /\ kept' = kept /\ suspended' = suspended
    BY <1>10 DEF BeginInit
  <2>2. /\ c \in Conf /\ c.state = file.state /\ c.ip = file.ip
        /\ c.key = IF new THEN keys + 1 ELSE file.key
    BY <1>0, <2>1, BoundsAssumption DEF InitConf, Conf
  <2>3. c.key > 0
    BY <1>0, <2>2 DEF Conf, NoKey
  <2>4. restarts = 0 => /\ \A q \in kept' : Listed(c, q)
                        /\ \A q \in suspended' : c.state[q] = "off"
                        /\ keys' > 0 => c.key > 0
    BY <1>1, <2>1, <2>2, <2>3 DEF Has, Listed
  <2> HIDE DEF c
  <2> QED
    BY <1>3, <2>1, <2>2, <2>4 DEF Ops
<1> QED
  BY <1>4, <1>5, <1>6, <1>7, <1>8, <1>9, <1>10

\* The request that is served is alone, and holds the text unless it has not
\* read it yet.
LEMMA SerialServed ==
    ASSUME SerialInv, NEW r \in Req, req[r].pc # "idle"
    PROVE  /\ boot = "run" /\ auto.pc = "none"
           /\ \A t \in Req \ {r} : req[t] = Idle
           /\ req[r].pc \notin Holding => Has(file) /\ Agrees(file, NoPeer)
<1>1. boot = "run" /\ auto.pc = "none" /\ \A t \in Req \ {r} : req[t] = Idle
  BY DEF SerialInv, OneByOne
<1>2. \A t \in Req \ {r} : req[t].pc \notin Holding
  BY <1>1 DEF Idle, Holding
<1> QED
  BY <1>1, <1>2 DEF SerialInv

LEMMA SerialHeld ==
    ASSUME SerialInv, NEW r \in Req
    PROVE  /\ Edit(req[r]) /\ Written(req[r])
           /\ req[r].pc \in Holding => Has(req[r].conf) /\ Agrees(req[r].conf, req[r].peer)
  BY DEF SerialInv

\* `awg set` brings the daemon in step with the text the edit has written.
LEMMA SerialDaemon ==
    ASSUME IInv, IInv', SerialInv, NEW r \in Req, Daemon(r)
    PROVE  SerialInv'
<1> USE DEF PeerOps
<1> DEFINE p == req[r].peer  op == req[r].op  c == req[r].conf
           i == IF op \in {"add", "resume"} THEN c.ip[p] ELSE 0
<1>1. /\ req[r].pc = "daemon" /\ op \in PeerOps /\ p \in Peer /\ WellFormed(c)
      /\ RequestsOK /\ RequestsOK' /\ live \in [Peer -> IP \cup {0}]
  BY DEF IInv, RequestsOK, InOrder, Daemon, DaemonOK
<1>2. /\ SetPeer(p, i)
      /\ req' = [req EXCEPT ![r] = Idle]
      /\ kept' = (IF op = "add" THEN kept \cup {p} ELSE kept)
      /\ suspended' = (IF op = "suspend" THEN suspended \cup {p} ELSE suspended)
      /\ UNCHANGED <<file, boot, auto, keys, restarts, served>>
  BY DEF Daemon
<1>3. /\ boot = "run" /\ auto.pc = "none"
      /\ \A t \in Req \ {r} : req[t] = Idle
  BY <1>1, SerialServed
<1>4. /\ file = c
      /\ c.state[p] = CASE op = "delete" -> "none" [] op = "suspend" -> "off" [] OTHER -> "on"
      /\ Has(c) /\ Agrees(c, p)
  BY <1>1, SerialHeld DEF Edit, Written, Holding, States
<1>5. \A t \in Req : req'[t] = IF t = r THEN Idle ELSE req[t]
  BY <1>1, <1>2 DEF RequestsOK
<1>6. Has(file)'
  BY <1>1, <1>2, <1>4 DEF Has, Listed
<1>7. Agrees(file, NoPeer)'
  <2> SUFFICES ASSUME up' = "up", NEW q \in Peer, q \notin missed'
               PROVE  /\ file.state[q] = "on" => live'[q] = file.ip[q]
                      /\ restarts = 0 /\ file.state[q] # "on" => live'[q] = 0
    BY <1>2 DEF Agrees
  <2>1. up = "up"
    BY <1>2 DEF SetPeer
  <2>2. \/ /\ \A t \in Peer : live'[t] = IF t = p THEN i ELSE IF live[t] = i THEN 0 ELSE live[t]
           /\ missed' = missed \ {p}
        \/ live' = live /\ missed' = missed \cup {p}
    BY <1>2, <2>1 DEF SetPeer
  <2>3. CASE q = p
    BY <1>1, <1>4, <2>2, <2>3
  <2>4. CASE q # p
    <3>1. q \notin missed
      BY <2>2, <2>4
    <3>2. /\ file.state[q] = "on" => live[q] = file.ip[q]
          /\ restarts = 0 /\ file.state[q] # "on" => live[q] = 0
      BY <1>4, <2>1, <2>4, <3>1 DEF Agrees
    <3>3. i # 0 => file.ip[q] # i
      BY <1>1, <1>4, <2>4 DEF WellFormed, Distinct
    <3>4. live'[q] # live[q] => live'[q] = 0 /\ live[q] = i
      BY <2>2, <2>4
    <3> HIDE DEF i
    <3> QED
      BY <3>2, <3>3, <3>4
  <2> QED
    BY <2>3, <2>4
<1>8. (Edit(req[r]) /\ Written(req[r]))' /\ req'[r].pc \notin Holding
  BY <1>5 DEF Edit, Written, Idle, Holding
<1> QED
  BY <1>1, <1>2, <1>3, <1>5, <1>6, <1>7, <1>8, SoleStep

\* The request goes on with the text it has.
LEMMA SerialGo ==
    ASSUME IInv, IInv', SerialInv, NEW r \in Req, req[r].pc \in Holding,
           NEW pc \in Holding \ {"truncate", "applytruncate"},
           Go(r, pc), boot' = boot, auto' = auto, UNCHANGED history,
           req[r].op \in PeerOps => pc \in {"write", "daemon"},
           pc \in {"write", "applywrite", "restwrite"} => file' = Empty,
           pc = "daemon" => file' = req[r].conf,
           pc \in {"down", "up", "resttruncate"} => file' = RuntimeConf(req[r].conf),
           UNCHANGED daemon \/ Agrees(req[r].conf, req[r].peer)'
    PROVE  SerialInv'
<1>1. /\ RequestsOK /\ RequestsOK' /\ pc # "idle"
      /\ req[r].pc # "idle" /\ Has(req[r].conf) /\ Agrees(req[r].conf, req[r].peer)
      /\ Edit(req[r])
  BY SerialHeld DEF IInv, Holding
<1>2. boot' = "run" /\ auto'.pc = "none" /\ \A t \in Req \ {r} : req[t] = Idle
  BY <1>1, SerialServed
<1>3. \A t \in Req : req'[t] = IF t = r THEN [req[r] EXCEPT !.pc = pc] ELSE req[t]
  BY <1>1 DEF Go, RequestsOK
<1>4. /\ req'[r].pc = pc /\ req'[r].op = req[r].op /\ req'[r].peer = req[r].peer
      /\ req'[r].conf = req[r].conf
  BY <1>1, <1>3 DEF RequestsOK, Request
<1>5. Edit(req[r])' /\ Written(req[r])'
  BY <1>1, <1>4 DEF Edit, Written
<1>6. Has(req[r].conf)'
  BY <1>1, <1>4 DEF Has, history
<1>7. Agrees(req[r].conf, req[r].peer)'
  BY <1>1, <1>4 DEF Agrees, daemon, history
<1> QED
  BY <1>1, <1>2, <1>3, <1>4, <1>5, <1>6, <1>7, SoleStep

\* The request has put its text into the file, and holds it no more.
LEMMA SerialPutBack ==
    ASSUME IInv, IInv', SerialInv, NEW r \in Req, req[r].pc \in Holding,
           req[r].op \notin PeerOps,
           Go(r, "idle") \/ Go(r, "applyread"), boot' = boot, auto' = auto, UNCHANGED <<history, daemon>>,
           file' = req[r].conf
    PROVE  SerialInv'
<1>1. /\ RequestsOK /\ RequestsOK'
      /\ req[r].pc # "idle" /\ Has(req[r].conf) /\ Agrees(req[r].conf, NoPeer)
      /\ req[r].peer = NoPeer
  BY SerialHeld DEF IInv, Holding, Edit
<1>2. boot' = "run" /\ auto'.pc = "none" /\ \A t \in Req \ {r} : req[t] = Idle
  BY <1>1, SerialServed
<1>3. /\ \A t \in Req \ {r} : req'[t] = req[t]
      /\ req'[r] = Idle \/ req'[r] = [req[r] EXCEPT !.pc = "applyread"]
  BY <1>1 DEF Go, RequestsOK
<1>4. /\ req'[r] = Idle \/ req'[r].pc = "applyread"
      /\ req'[r].pc \in {"idle", "applyread"}
      /\ req'[r].op \notin PeerOps /\ req'[r].peer = NoPeer
  BY <1>1, <1>3 DEF RequestsOK, Request, Idle, PeerOps
<1>5. Edit(req[r])' /\ Written(req[r])'
  BY <1>4 DEF Edit, Written
<1>6. (Has(file) /\ Agrees(file, NoPeer))'
  BY <1>1 DEF Has, Agrees, daemon, history
<1> QED
  BY <1>1, <1>2, <1>3, <1>4, <1>5, <1>6, SoleStep DEF Holding

\* Every step of a handler leaves the text with the request or in the file.
LEMMA SerialHandler ==
    ASSUME Serial, IInv, IInv', SerialInv, NEW r \in Req, Handler(r)
    PROVE  SerialInv'
<1> USE DEF PeerOps
<1>0. /\ RequestsOK /\ RequestsOK' /\ req[r] \in Request /\ WellFormed(req[r].conf)
      /\ Edit(req[r]) /\ Written(req[r])
  BY SerialHeld DEF IInv, RequestsOK, InOrder
<1>1. CASE \/ \E p \in Peer : BeginAdd(r, p) \/ BeginDelete(r, p) \/ BeginSuspend(r, p)
                                                \/ BeginResume(r, p)
           \/ BeginRegenCps(r) \/ BeginApply(r)
           \/ \E regenerate \in BOOLEAN : BeginInit(r, regenerate)
  BY <1>1, SerialBegin
<1>2. CASE Truncate(r)
  BY <1>2, SerialGo DEF Truncate, Holding, States
<1>3. CASE Write(r)
  <2>1. /\ req[r].pc = "write" /\ file' = req[r].conf
        /\ boot' = boot /\ auto' = auto /\ UNCHANGED <<daemon, history>>
    BY <1>3 DEF Write
  <2>2. PICK autostart \in BOOLEAN : Go(r, WriteDone(r, autostart))
    BY <1>3 DEF Write
  <2>3. CASE req[r].op \in PeerOps
    <3>1. WriteDone(r, autostart) = "daemon"
      BY <2>3 DEF WriteDone
    <3> QED
      BY <2>1, <2>2, <3>1, SerialGo DEF Holding, States
  <2>4. CASE req[r].op \notin PeerOps
    <3>1. WriteDone(r, autostart) \in {"idle", "applyread"}
      BY <2>4 DEF WriteDone
    <3> QED
      BY <2>1, <2>2, <2>4, <3>1, SerialPutBack DEF Holding, States
  <2> QED
    BY <2>3, <2>4
<1>4. CASE Daemon(r)
  BY <1>4, SerialDaemon
<1>5. CASE ApplyRead(r)
  <2>1. /\ req[r].pc = "applyread" /\ req[r].op \notin PeerOps /\ req[r].peer = NoPeer
        /\ UNCHANGED <<file, daemon, boot, auto, history>>
    BY <1>0, <1>5 DEF ApplyRead, Edit
  <2>2. /\ \A t \in Req \ {r} : req'[t] = req[t]
        /\ req'[r] = [req[r] EXCEPT !.pc = "applytruncate", !.conf = file]
    BY <1>0, <1>5 DEF ApplyRead, RequestsOK
  <2>3. /\ req'[r].pc = "applytruncate" /\ req'[r].op = req[r].op /\ req'[r].peer = NoPeer
        /\ req'[r].conf = file
    BY <1>0, <2>1, <2>2 DEF Request
  <2>4. /\ boot = "run" /\ auto.pc = "none" /\ \A t \in Req \ {r} : req[t] = Idle
        /\ Has(file) /\ Agrees(file, NoPeer)
    BY <2>1, SerialServed DEF Holding
  <2>5. (Edit(req[r]) /\ Written(req[r]))'
    BY <2>1, <2>3 DEF Edit, Written
  <2>6. (Has(req[r].conf) /\ Agrees(req[r].conf, req[r].peer))'
    BY <2>1, <2>3, <2>4 DEF Has, Agrees, daemon, history
  <2> QED
    BY <1>0, <2>1, <2>2, <2>3, <2>4, <2>5, <2>6, SoleStep DEF Holding, States
<1>6. CASE ApplyTruncate(r)
  BY <1>0, <1>6, SerialGo DEF ApplyTruncate, Holding, States, Edit
<1>7. CASE ApplyWrite(r)
  BY <1>0, <1>7, SerialGo DEF ApplyWrite, Holding, States, Edit
<1>8. CASE ApplyDown(r)
  <2>1. /\ req[r].pc = "down" /\ Go(r, "up") /\ UNCHANGED <<file, boot, auto, history>>
        /\ up' = "down" \/ UNCHANGED daemon
    BY <1>8 DEF ApplyDown
  <2>2. UNCHANGED daemon \/ Agrees(req[r].conf, req[r].peer)'
    BY <2>1 DEF Agrees
  <2> QED
    BY <1>0, <2>1, <2>2, SerialGo DEF Holding, States, Edit, Written
<1>9. CASE ApplyUp(r)
  <2> DEFINE c == req[r].conf
  <2>1. /\ req[r].pc = "up" /\ Go(r, "resttruncate") /\ UNCHANGED <<file, boot, auto, history>>
        /\ QuickUp \/ DirectUp(c)
    BY <1>9 DEF ApplyUp
  <2>2. file = RuntimeConf(c) /\ req[r].op \notin PeerOps
    BY <1>0, <2>1 DEF Written, Edit
  <2>3. UNCHANGED daemon \/ (up' = "up" => live' = RuntimeConf(c).ip)
    BY <2>1, <2>2 DEF QuickUp, DirectUp, PeersOf
  <2>4. req'[r].conf = c
    BY <1>0, <2>1 DEF Go, RequestsOK, Request
  <2>5. UNCHANGED daemon \/ Agrees(req[r].conf, req[r].peer)'
    BY <1>0, <2>3, <2>4, RuntimeFields DEF Agrees, WellFormed
  <2> QED
    BY <2>1, <2>2, <2>5, SerialGo DEF Holding, States
<1>10. CASE RestoreTruncate(r)
  BY <1>0, <1>10, SerialGo DEF RestoreTruncate, Holding, States, Edit
<1>11. CASE RestoreWrite(r)
  BY <1>0, <1>11, SerialPutBack DEF RestoreWrite, Holding, States, Edit, Go
<1> QED
  BY <1>1, <1>2, <1>3, <1>4, <1>5, <1>6, <1>7, <1>8, <1>9, <1>10, <1>11 DEF Handler

\* The panel alone ends: whatever is in the file, the daemon that goes on has those of
\* its peers that are not suspended, but for the one a request was about to change.
LEMMA SerialPanelRestart ==
    ASSUME IInv, IInv', SerialInv, PanelRestart
    PROVE  SerialInv'
<1> USE DEF PeerOps
<1>1. /\ \A r \in Req : req'[r] = Idle
      /\ boot' = "run" /\ auto'.pc = "read" /\ restarts' # 0
      /\ UNCHANGED <<file, up, live>>
  BY DEF PanelRestart, IInv, HistoryOK
<1>2. Idle.pc = "idle" /\ Idle.op \notin PeerOps /\ Idle.peer = NoPeer
  BY DEF Idle
<1>3. OneByOne' /\ Starting'
  BY <1>1, <1>2 DEF OneByOne, Starting
<1>4. \A r \in Req : (Edit(req[r]) /\ Written(req[r]))' /\ req'[r].pc \notin Holding
  BY <1>1, <1>2 DEF Edit, Written, Holding
<1>5. Has(file)'
  BY <1>1 DEF Has
<1>6. ASSUME up = "up", NEW q \in Peer, q \notin missed', file.state[q] = "on"
      PROVE  live[q] = file.ip[q]
  <2>1. q \notin missed /\ \A r \in Req : req[r].pc = "daemon" => q # req[r].peer
    BY <1>6 DEF PanelRestart
  <2>2. Agrees(file, NoPeer) => live[q] = file.ip[q]
    BY <1>6, <2>1, PeerAssumption DEF Agrees
  <2>3. CASE \A r \in Req : req[r].pc \notin Holding
    BY <2>2, <2>3 DEF SerialInv
  <2>4. CASE \E r \in Req : req[r].pc \in Holding
    <3>1. PICK r \in Req : req[r].pc \in Holding
      BY <2>4
    <3> DEFINE c == req[r].conf
    <3>2. /\ Edit(req[r]) /\ Written(req[r]) /\ Agrees(c, req[r].peer)
          /\ c \in Conf /\ req[r].pc \in States
      BY <3>1, SerialHeld DEF IInv, RequestsOK, InOrder, WellFormed, Request
    <3>3. CASE req[r].pc = "truncate"
      BY <2>2, <3>2, <3>3 DEF Written
    <3>4. CASE req[r].pc \in {"write", "applywrite", "restwrite"}
      <4>1. file.state[q] = "none"
        BY <3>2, <3>4 DEF Written, Empty
      <4> QED
        BY <1>6, <4>1
    <3>5. CASE req[r].pc \in {"daemon", "applytruncate"}
      <4>1. file = c /\ q # req[r].peer
        BY <2>1, <3>2, <3>5, PeerAssumption DEF Written, Edit
      <4> QED
        BY <1>6, <2>1, <3>2, <4>1 DEF Agrees
    <3>6. CASE req[r].pc \in {"down", "up", "resttruncate"}
      <4>1. file = RuntimeConf(c) /\ q # req[r].peer
        BY <3>2, <3>6, PeerAssumption DEF Written, Edit
      <4>2. c.state[q] = "on" /\ file.ip[q] = c.ip[q]
        BY <1>6, <3>2, <4>1, RuntimeFields
      <4> QED
        BY <1>6, <2>1, <3>2, <4>1, <4>2 DEF Agrees
    <3> QED
      BY <3>1, <3>2, <3>3, <3>4, <3>5, <3>6 DEF Holding, States
  <2> QED
    BY <2>3, <2>4
<1>7. Agrees(file, NoPeer)'
  BY <1>1, <1>6 DEF Agrees
<1> QED
  BY <1>3, <1>4, <1>5, <1>7 DEF SerialInv

\* The start of the container configures the daemon from the file.
LEMMA SerialContainer ==
    ASSUME IInv, IInv', SerialInv, Restart \/ PanelRestart \/ StartSh \/ AutoRead \/ AutoCheck \/ AutoUp
    PROVE  SerialInv'
<1> USE DEF PeerOps
<1>1. CASE Restart
  <2>1. /\ \A r \in Req : req'[r] = Idle
        /\ up' = "down" /\ boot' = "start" /\ auto'.pc = "none" /\ restarts' # 0
    BY <1>1 DEF Restart, IInv, HistoryOK
  <2>2. Idle.pc = "idle" /\ Idle.op \notin PeerOps /\ Idle.peer = NoPeer
    BY DEF Idle
  <2>3. OneByOne' /\ Starting'
    BY <2>1, <2>2 DEF OneByOne, Starting
  <2>4. \A r \in Req : (Edit(req[r]) /\ Written(req[r]))' /\ req'[r].pc \notin Holding
    BY <2>1, <2>2 DEF Edit, Written, Holding
  <2>5. (Has(file) /\ Agrees(file, NoPeer))'
    BY <2>1 DEF Has, Agrees
  <2> QED
    BY <2>3, <2>4, <2>5 DEF SerialInv
<1>2. CASE PanelRestart
  BY <1>2, SerialPanelRestart
<1>3. CASE StartSh \/ AutoRead \/ AutoCheck \/ AutoUp
  <2>1. boot = "start" \/ auto.pc # "none"
    BY <1>3 DEF StartSh, AutoRead, AutoCheck, AutoUp
  <2>2. \A r \in Req : req[r] = Idle
    BY <2>1 DEF SerialInv, OneByOne
  <2>3. Idle.pc = "idle" /\ Idle.op \notin PeerOps /\ Idle.peer = NoPeer
    BY DEF Idle
  <2>4. Has(file) /\ Agrees(file, NoPeer) /\ Starting
    BY <2>2, <2>3 DEF SerialInv, Holding
  <2>5. file' = file /\ req' = req /\ UNCHANGED history
    BY <1>3 DEF StartSh, AutoRead, AutoCheck, AutoUp
  <2>6. OneByOne'
    BY <2>2, <2>3, <2>5 DEF OneByOne
  <2>7. \A r \in Req : (Edit(req[r]) /\ Written(req[r]))' /\ req'[r].pc \notin Holding
    BY <2>2, <2>3, <2>5 DEF Edit, Written, Holding
  <2>8. Has(file)'
    BY <2>4, <2>5 DEF Has, history
  <2>9. Starting' /\ (up' = "up" => \/ UNCHANGED daemon
                                    \/ live' = RuntimeConf(file).ip
                                    \/ live' = file.ip /\ (restarts = 0 => file = Empty))
    <3>0. auto \in [pc : {"none", "read", "check", "up"}, conf : Conf]
      BY DEF IInv, StartOK
    <3>1. CASE StartSh
      BY <2>4, <2>5, <3>0, <3>1 DEF StartSh, QuickUp, PeersOf, daemon, Starting, history
    <3>2. CASE AutoRead
      BY <2>4, <2>5, <3>0, <3>2 DEF AutoRead, Starting, daemon, history
    <3>3. CASE AutoCheck
      BY <2>4, <2>5, <3>0, <3>3 DEF AutoCheck, Starting, daemon, history
    <3>4. CASE AutoUp
      BY <2>4, <2>5, <3>0, <3>4 DEF AutoUp, DirectUp, PeersOf, Starting, history, daemon
    <3> QED
      BY <1>3, <3>1, <3>2, <3>3, <3>4
  <2>10. Agrees(file, NoPeer)'
    <3>1. file \in Conf /\ \A q \in Peer : Empty.ip[q] = 0
      BY DEF IInv, FileOK, WellFormed, Empty, None
    <3> QED
      BY <2>4, <2>5, <2>9, <3>1, RuntimeFields DEF Agrees, history, daemon
  <2> QED
    BY <2>6, <2>7, <2>8, <2>9, <2>10 DEF SerialInv
<1> QED
  BY <1>1, <1>2, <1>3

LEMMA SerialInit == Init => SerialInv
<1> SUFFICES ASSUME Init PROVE SerialInv
  OBVIOUS
<1>1. \A r \in Req : req[r] = Idle
  BY DEF Init
<1>2. Idle.pc = "idle" /\ Idle.op \notin PeerOps /\ Idle.peer = NoPeer
  BY DEF Idle, PeerOps
<1>3. OneByOne /\ Starting
  BY <1>1, <1>2 DEF Init, OneByOne, Starting
<1>4. \A r \in Req : Edit(req[r]) /\ Written(req[r]) /\ req[r].pc \notin Holding
  BY <1>1, <1>2 DEF Edit, Written, Holding
<1>5. Has(file) /\ Agrees(file, NoPeer)
  BY DEF Init, Has, Agrees
<1> QED
  BY <1>3, <1>4, <1>5 DEF SerialInv

LEMMA SerialNext == ASSUME Serial, IInv, IInv', SerialInv, [Next]_vars PROVE SerialInv'
<1>1. CASE \E r \in Req : Handler(r)
  BY <1>1, SerialHandler
<1>2. CASE Restart \/ PanelRestart \/ StartSh \/ AutoRead \/ AutoCheck \/ AutoUp
  BY <1>2, SerialContainer
<1>3. CASE UNCHANGED vars
  BY <1>3 DEF vars, daemon, history, SerialInv, OneByOne, Starting, Edit, Written, Has, Agrees
<1> QED
  BY <1>1, <1>2, <1>3 DEF Next

\* What it says when nothing is being served.
LEMMA SerialImplies ==
    IInv /\ SerialInv => AcknowledgedStays /\ SuspendedMarkedUndisturbed /\ DaemonInStep /\ ListedLive
<1> SUFFICES ASSUME IInv, SerialInv, Quiet
             PROVE  /\ restarts = 0 => /\ \A p \in kept : Listed(file, p)
                                       /\ \A p \in suspended : file.state[p] = "off"
                                       /\ keys > 0 => file.key > 0
                    /\ up = "up" => \A p \in Peer \ missed :
                           /\ restarts = 0 => live[p] = RuntimeConf(file).ip[p]
                           /\ file.state[p] = "on" => live[p] = file.ip[p]
  BY DEF AcknowledgedStays, AddedStays, KeyStays, SuspendedMarkedUndisturbed, SuspendedMarked,
         DaemonInStep, ListedLive, Undisturbed
<1>1. \A r \in Req : req[r].pc \notin Holding
  BY DEF Quiet, Idle, Holding
<1>2. Has(file) /\ Agrees(file, NoPeer)
  BY <1>1 DEF SerialInv
<1>3. file \in Conf
  BY DEF IInv, FileOK, WellFormed
<1>4. up = "up" => \A p \in Peer \ missed :
          /\ file.state[p] = "on" => live[p] = file.ip[p]
          /\ restarts = 0 /\ file.state[p] # "on" => live[p] = 0
  BY <1>2, PeerAssumption DEF Agrees
<1>5. \A p \in Peer : RuntimeConf(file).ip[p] = IF file.state[p] = "on" THEN file.ip[p] ELSE 0
  BY <1>3, RuntimeFields
<1> QED
  BY <1>2, <1>4, <1>5 DEF Has

\* Without restarts and overlapping requests, what the panel acknowledged stays
\* in the file: a peer that was added until it is deleted, and the server's key,
\* however many requests of whatever kind follow.
THEOREM PanelAcknowledgedStays == ASSUME Serial PROVE Spec => []AcknowledgedStays
<1>1. IInv /\ SerialInv /\ [Next]_vars => (IInv /\ SerialInv)'
  BY NextOK, SerialNext
<1> QED
  BY <1>1, InitOK, SerialInit, SerialImplies, PTL DEF Spec

\* A suspended peer stays in the file, marked, through every later "apply".
THEOREM PanelSuspendedMarked == ASSUME Serial PROVE Spec => []SuspendedMarkedUndisturbed
<1>1. IInv /\ SerialInv /\ [Next]_vars => (IInv /\ SerialInv)'
  BY NextOK, SerialNext
<1> QED
  BY <1>1, InitOK, SerialInit, SerialImplies, PTL DEF Spec

\* The daemon that runs serves exactly the listed peers that are not suspended, but
\* for those whose own last `awg set` failed; that command may always fail, as may
\* every other.
THEOREM PanelDaemonInStep == ASSUME Serial PROVE Spec => []DaemonInStep
<1>1. IInv /\ SerialInv /\ [Next]_vars => (IInv /\ SerialInv)'
  BY NextOK, SerialNext
<1> QED
  BY <1>1, InitOK, SerialInit, SerialImplies, PTL DEF Spec

\* It serves at least those, also when restarts of the container or of the panel alone
\* cut requests and starts in two, but for the peer of an edit that was cut off.
THEOREM PanelListedLive == ASSUME Serial PROVE Spec => []ListedLive
<1>1. IInv /\ SerialInv /\ [Next]_vars => (IInv /\ SerialInv)'
  BY NextOK, SerialNext
<1> QED
  BY <1>1, InitOK, SerialInit, SerialImplies, PTL DEF Spec
=============================================================================
