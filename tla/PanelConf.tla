----------------------------- MODULE PanelConf -----------------------------
(***************************************************************************)
(* The web panel's configuration (src/app.py, src/start.sh).  All that it  *)
(* knows about the VPN server and its peers is one file, which is also the *)
(* file awg-quick reads.  A handler reads the file, edits the text, writes *)
(* the whole of it back and repeats the change on the running daemon;      *)
(* "apply" replaces the file, for the time awg-quick needs, by a version   *)
(* without the suspended peers.  Flask runs each request in a thread of    *)
(* its own and there is no lock; the container, or the panel alone, may be *)
(* restarted at any time, and any command the panel runs may fail.         *)
(*                                                                         *)
(* A step is one access to the file or to the daemon.  write_text is two:  *)
(* it opens the file, which empties it, and then writes.                   *)
(***************************************************************************)
EXTENDS Integers, FiniteSetsExt

CONSTANTS
    Peer,           \* public keys of clients
    IP,             \* last octets _next_ip may assign: 2 .. 253 in the code
    Req,            \* requests in service at a time
    Serial,         \* whether requests wait for each other and for the start
    NoPeer,         \* the peer of a request that is about none
    MaxRequests,    \* bound: requests in a behaviour; 0 for no bound
    MaxKeys,        \* bound: server keys ever generated
    MaxRestarts     \* bound: restarts of the container or of the panel

ASSUME IPAssumption == IP \subseteq Nat \ {0}
ASSUME SerialAssumption == Serial \in BOOLEAN
ASSUME PeerAssumption == NoPeer \notin Peer
ASSUME BoundsAssumption == {MaxRequests, MaxKeys, MaxRestarts} \subseteq Nat

VARIABLES
    file,       \* awg0.conf: the server's key, and for each peer whether it is
                \* listed ("on"), listed as suspended ("off") or not, and its address
    up, live,   \* the daemon: whether it runs ("bare": without the configuration it
                \* was to be given), the address each peer has there
    missed,     \* history: peers whose last change the running daemon did not take
    req,        \* per request: where it is, what it does, what it has read
    boot,       \* the container: "start" (start.sh), "run"
    auto,       \* the auto-start thread of the panel
    kept,       \* history: peers whose adding was acknowledged, not deleted since
    suspended,  \* history: peers whose suspension was, not resumed or deleted since
    keys,       \* history: the number of server keys generated
    restarts,   \* history: the number of restarts
    served      \* history: the number of requests, as far as they are bounded

daemon == <<up, live, missed>>
history == <<kept, suspended, keys, restarts, served>>
vars == <<file, daemon, req, boot, auto, history>>

\* 0 stands for no text and for no address, NoKey for a text without a key.
NoKey == -1
None == [p \in Peer |-> 0]
Empty == [key |-> 0, state |-> [p \in Peer |-> "none"], ip |-> None]
Conf == [key : {NoKey} \cup 0 .. MaxKeys, state : [Peer -> {"none", "on", "off"}], ip : [Peer -> IP \cup {0}]]

-----------------------------------------------------------------------------
(* Text functions *)

Listed(c, p) == c.state[p] # "none"

\* The addresses _next_ip tries.
Pool == IP

\* Fault of NextIP: the addresses of suspended peers are given away.
NextIPOfLive(c, i) ==
    LET free == Pool \ {c.ip[p] : p \in {q \in Peer : c.state[q] = "on"}}
    IN i \in free /\ \A j \in free : i <= j

\* _next_ip: the lowest address no listed peer has.
NextIP(c, i) ==
    LET free == Pool \ {c.ip[p] : p \in {q \in Peer : Listed(c, q)}}
    IN i \in free /\ \A j \in free : i <= j

WithPeer(c, p, s, i) == [c EXCEPT !.state[p] = s, !.ip[p] = i]

\* Fault of InitConf: the server is set up without the peers it had.
InitConfNoPeers(c, new, k) == [Empty EXCEPT !.key = IF new THEN k ELSE c.key]

\* The text of init_server: a new [Interface], all the peers.
InitConf(c, new, k) == [c EXCEPT !.key = IF new THEN k ELSE @]

\* Fault of RuntimeConf: suspended peers are left in.
RuntimeConfUnfiltered(c) == c

\* _build_runtime_conf: without the suspended peers.
RuntimeConf(c) ==
    [c EXCEPT !.state = [p \in Peer |-> IF c.state[p] = "on" THEN "on" ELSE "none"],
              !.ip = [p \in Peer |-> IF c.state[p] = "on" THEN c.ip[p] ELSE 0]]

\* The peers a daemon configured from c has: it knows nothing of #Disabled.
PeersOf(c) == c.ip

-----------------------------------------------------------------------------
(* Requests *)

Ops == {"add", "delete", "suspend", "resume", "regen_cps", "init", "apply"}
States == {"idle", "truncate", "write", "daemon",
           "applyread", "applytruncate", "applywrite", "down", "up",
           "resttruncate", "restwrite"}

Idle == [pc |-> "idle", op |-> "apply", peer |-> NoPeer, conf |-> Empty]

\* Nothing is being served.
Quiet == boot = "run" /\ auto.pc = "none" /\ \A r \in Req : req[r] = Idle

\* A request arrives for thread r.
Arrives(r) ==
    /\ boot = "run" /\ req[r] = Idle
    /\ Serial => Quiet
    /\ MaxRequests > 0 => served < MaxRequests
    /\ served' = IF MaxRequests > 0 THEN served + 1 ELSE served

Go(r, pc) == req' = [req EXCEPT ![r] = IF pc = "idle" THEN Idle ELSE [@ EXCEPT !.pc = pc]]
Begin(r, pc, op, p, c) == req' = [req EXCEPT ![r] = [pc |-> pc, op |-> op, peer |-> p, conf |-> c]]

\* A new key pair is nobody else's.
Fresh(p) ==
    /\ ~Listed(file, p) /\ live[p] = 0
    /\ ~Listed(auto.conf, p)
    /\ \A r \in Req : req[r] = Idle \/ (req[r].peer # p /\ ~Listed(req[r].conf, p))

\* add_peer: refused without a server key or a free address.
BeginAdd(r, p) ==
    /\ Arrives(r)
    /\ Fresh(p)
    /\ file.key > 0
    /\ \E i \in Pool : /\ NextIP(file, i)
                       /\ Begin(r, "truncate", "add", p, WithPeer(file, p, "on", i))
    /\ UNCHANGED <<file, daemon, boot, auto, kept, suspended, keys, restarts>>

\* delete_peer, suspend_peer, resume_peer: refused for a peer not listed.
BeginDelete(r, p) ==
    /\ Arrives(r)
    /\ Listed(file, p)
    /\ Begin(r, "truncate", "delete", p, WithPeer(file, p, "none", 0))
    /\ kept' = kept \ {p}
    /\ suspended' = suspended \ {p}
    /\ UNCHANGED <<file, daemon, boot, auto, keys, restarts>>

BeginSuspend(r, p) ==
    /\ Arrives(r)
    /\ Listed(file, p)
    /\ Begin(r, "truncate", "suspend", p, WithPeer(file, p, "off", file.ip[p]))
    /\ UNCHANGED <<file, daemon, boot, auto, kept, suspended, keys, restarts>>

BeginResume(r, p) ==
    /\ Arrives(r)
    /\ Listed(file, p)
    /\ Begin(r, "truncate", "resume", p, WithPeer(file, p, "on", file.ip[p]))
    /\ suspended' = suspended \ {p}
    /\ UNCHANGED <<file, daemon, boot, auto, kept, keys, restarts>>

\* regen_cps: rewrites the file with other I1-I5, which nothing here tells apart.
BeginRegenCps(r) ==
    /\ Arrives(r)
    /\ Begin(r, "truncate", "regen_cps", NoPeer,
             IF file = Empty THEN [Empty EXCEPT !.key = NoKey] ELSE file)
    /\ UNCHANGED <<file, daemon, boot, auto, kept, suspended, keys, restarts>>

\* init_server: a new server key if there is none or on demand; all peers are kept.
BeginInit(r, regenerate) ==
    /\ Arrives(r)
    /\ LET new == file.key <= 0 \/ regenerate
       IN /\ new => keys < MaxKeys
          /\ keys' = IF new THEN keys + 1 ELSE keys
          /\ Begin(r, "truncate", "init", NoPeer, InitConf(file, new, keys + 1))
    /\ UNCHANGED <<file, daemon, boot, auto, kept, suspended, restarts>>

BeginApply(r) ==
    /\ Arrives(r)
    /\ Begin(r, "applyread", "apply", NoPeer, Empty)
    /\ UNCHANGED <<file, daemon, boot, auto, kept, suspended, keys, restarts>>

\* _write_conf: write_text empties the file ...
Truncate(r) ==
    /\ req[r].pc = "truncate"
    /\ file' = Empty
    /\ Go(r, "write")
    /\ UNCHANGED <<daemon, boot, auto, history>>

\* Fault of WriteDone: an edit of a peer ends with the file.
WriteDoneNoDaemon(r, autostart) ==
    IF req[r].op = "init" /\ autostart THEN "applyread" ELSE "idle"

\* An edit of a peer goes on to the daemon, a server setup to "apply" (unless
\* auto_start is off).
WriteDone(r, autostart) ==
    CASE req[r].op \in {"add", "delete", "suspend", "resume"} -> "daemon"
      [] req[r].op = "init" /\ autostart -> "applyread"
      [] OTHER -> "idle"

\* ... and writes the text.
Write(r) ==
    /\ req[r].pc = "write"
    /\ file' = req[r].conf
    /\ \E autostart \in BOOLEAN : Go(r, WriteDone(r, autostart))
    /\ UNCHANGED <<daemon, boot, auto, history>>

\* `awg set`: on a daemon that runs.  An address belongs to one peer; giving it
\* to another takes it from the first.  The command may fail, or not start.
SetPeer(p, i) ==
    /\ up' = up
    /\ \/ /\ up # "down"
          /\ live' = [q \in Peer |-> IF q = p THEN i ELSE IF live[q] = i THEN 0 ELSE live[q]]
          /\ missed' = missed \ {p}
       \/ /\ live' = live
          /\ missed' = IF up = "down" THEN missed ELSE missed \cup {p}

\* The change is repeated on the daemon, then acknowledged: neither the status of the
\* command nor an exception is looked at.
Daemon(r) ==
    LET p == req[r].peer  op == req[r].op
    IN /\ req[r].pc = "daemon"
       /\ SetPeer(p, IF op \in {"add", "resume"} THEN req[r].conf.ip[p] ELSE 0)
       /\ kept' = IF op = "add" THEN kept \cup {p} ELSE kept
       /\ suspended' = IF op = "suspend" THEN suspended \cup {p} ELSE suspended
       /\ req' = [req EXCEPT ![r] = Idle]
       /\ UNCHANGED <<file, boot, auto, keys, restarts, served>>

-----------------------------------------------------------------------------
(* _apply_config *)

ApplyRead(r) ==
    /\ req[r].pc = "applyread"
    /\ req' = [req EXCEPT ![r].pc = "applytruncate", ![r].conf = file]
    /\ UNCHANGED <<file, daemon, boot, auto, history>>

ApplyTruncate(r) ==
    /\ req[r].pc = "applytruncate"
    /\ file' = Empty
    /\ Go(r, "applywrite")
    /\ UNCHANGED <<daemon, boot, auto, history>>

\* The file awg-quick is to read is the file the panel reads.
ApplyWrite(r) ==
    /\ req[r].pc = "applywrite"
    /\ file' = RuntimeConf(req[r].conf)
    /\ Go(r, "down")
    /\ UNCHANGED <<daemon, boot, auto, history>>

\* `awg-quick down`, whose status is not looked at; _apply_direct does without it.
ApplyDown(r) ==
    /\ req[r].pc = "down"
    /\ \/ up' = "down" /\ live' = None /\ missed' = {}
       \/ UNCHANGED daemon
    /\ Go(r, "up")
    /\ UNCHANGED <<file, boot, auto, history>>

\* `awg-quick up`: reads the file as it is now; refuses when the interface is
\* there; undoes what it has done when a part of it fails.
QuickUp ==
    \/ up = "down" /\ up' = "up" /\ live' = PeersOf(file) /\ missed' = {}
    \/ UNCHANGED daemon

\* _apply_direct: replaces whatever daemon there is and gives the new one the
\* text passed to it.  It may not start, or refuse the text; or the old one was not
\* killed and keeps the interface.
DirectUp(c) ==
    \/ /\ \/ up' = "up" /\ live' = PeersOf(RuntimeConf(c))
          \/ up' \in {"down", "bare"} /\ live' = None
       /\ missed' = {}
    \/ UNCHANGED daemon

\* awg-quick where the kernel has the amneziawg module, the daemon directly where
\* it has only wireguard.  A failure is reported as a warning.
ApplyUp(r) ==
    /\ req[r].pc = "up"
    /\ QuickUp \/ DirectUp(req[r].conf)
    /\ Go(r, "resttruncate")
    /\ UNCHANGED <<file, boot, auto, history>>

\* Fault of RestoreTruncate: a failure returns before the restoring write.
RestoreTruncateSkipped(r) ==
    /\ req[r].pc = "resttruncate"
    /\ Go(r, "idle")
    /\ UNCHANGED <<file, daemon, boot, auto, history>>

\* The text read at the beginning is put back.
RestoreTruncate(r) ==
    /\ req[r].pc = "resttruncate"
    /\ file' = Empty
    /\ Go(r, "restwrite")
    /\ UNCHANGED <<daemon, boot, auto, history>>

RestoreWrite(r) ==
    /\ req[r].pc = "restwrite"
    /\ file' = req[r].conf
    /\ req' = [req EXCEPT ![r] = Idle]
    /\ UNCHANGED <<daemon, boot, auto, history>>

-----------------------------------------------------------------------------
(* The container *)

\* The process ends wherever it is; the file stays as it is.
Restart ==
    /\ restarts < MaxRestarts
    /\ restarts' = restarts + 1
    /\ req' = [r \in Req |-> Idle]
    /\ up' = "down" /\ live' = None /\ missed' = {}
    /\ boot' = "start"
    /\ auto' = [pc |-> "none", conf |-> Empty]
    /\ UNCHANGED <<file, kept, suspended, keys, served>>

\* Only the panel ends, and supervisord starts it again: the daemon goes on, without
\* the change a request was about to repeat on it.
PanelRestart ==
    /\ boot = "run"
    /\ restarts < MaxRestarts
    /\ restarts' = restarts + 1
    /\ req' = [r \in Req |-> Idle]
    /\ missed' = IF up = "down" THEN missed
                 ELSE missed \cup {req[r].peer : r \in {t \in Req : req[t].pc = "daemon"}}
    /\ auto' = [pc |-> "read", conf |-> Empty]
    /\ UNCHANGED <<file, up, live, boot, kept, suspended, keys, served>>

\* start.sh: awg-quick up on the file itself; then the panel starts.
StartSh ==
    /\ boot = "start"
    /\ QuickUp
    /\ boot' = "run"
    /\ auto' = [auto EXCEPT !.pc = "read"]
    /\ UNCHANGED <<file, req, history>>

\* _auto_start_awg: reads, looks whether the interface is there, applies directly;
\* also when the command that looks fails.
AutoRead ==
    /\ auto.pc = "read"
    /\ auto' = IF file = Empty THEN [auto EXCEPT !.pc = "none"]
                               ELSE [pc |-> "check", conf |-> file]
    /\ UNCHANGED <<file, daemon, req, boot, history>>

AutoCheck ==
    /\ auto.pc = "check"
    /\ \/ up # "down" /\ auto' = [pc |-> "none", conf |-> Empty]
       \/ auto' = [auto EXCEPT !.pc = "up"]
    /\ UNCHANGED <<file, daemon, req, boot, history>>

AutoUp ==
    /\ auto.pc = "up"
    /\ DirectUp(auto.conf)
    /\ auto' = [pc |-> "none", conf |-> Empty]
    /\ UNCHANGED <<file, req, boot, history>>

-----------------------------------------------------------------------------

\* A container that has just started, without a configuration.
Init ==
    /\ file = Empty
    /\ up = "down" /\ live = None /\ missed = {}
    /\ req = [r \in Req |-> Idle]
    /\ boot = "start"
    /\ auto = [pc |-> "none", conf |-> Empty]
    /\ kept = {} /\ suspended = {}
    /\ keys = 0 /\ restarts = 0 /\ served = 0

Handler(r) ==
    \/ \E p \in Peer : BeginAdd(r, p) \/ BeginDelete(r, p) \/ BeginSuspend(r, p) \/ BeginResume(r, p)
    \/ BeginRegenCps(r) \/ BeginApply(r)
    \/ \E regenerate \in BOOLEAN : BeginInit(r, regenerate)
    \/ Truncate(r) \/ Write(r) \/ Daemon(r)
    \/ ApplyRead(r) \/ ApplyTruncate(r) \/ ApplyWrite(r) \/ ApplyDown(r) \/ ApplyUp(r)
    \/ RestoreTruncate(r) \/ RestoreWrite(r)

Next ==
    \/ \E r \in Req : Handler(r)
    \/ Restart \/ PanelRestart \/ StartSh
    \/ AutoRead \/ AutoCheck \/ AutoUp

Spec == Init /\ [][Next]_vars

-----------------------------------------------------------------------------
(* Properties *)

\* Every variable has its type.
TypeOK ==
    /\ file \in Conf
    /\ up \in {"down", "bare", "up"}
    /\ live \in [Peer -> IP \cup {0}] /\ missed \subseteq Peer
    /\ req \in [Req -> [pc : States, op : Ops, peer : Peer \cup {NoPeer}, conf : Conf]]
    /\ boot \in {"start", "run"}
    /\ auto \in [pc : {"none", "read", "check", "up"}, conf : Conf]
    /\ kept \subseteq Peer /\ suspended \subseteq Peer
    /\ keys \in 0 .. MaxKeys /\ restarts \in 0 .. MaxRestarts
    /\ served \in 0 .. MaxRequests

\* However requests interleave, two peers of one file never have one address:
\* each text is derived from a single snapshot and gives away an address that
\* is free in it.  It holds because a lost update loses the whole peer.
NoSharedAddress ==
    \A p, q \in Peer : file.ip[p] # 0 /\ file.ip[p] = file.ip[q] => p = q

\* Nothing is being served, and nothing was cut off by a restart.
Undisturbed == Quiet /\ restarts = 0

\* An added peer is listed until it is deleted: "add_peer" answered ok.
AddedStays == Undisturbed => \A p \in kept : Listed(file, p)

\* "Always restore full management conf (with disabled markers)" (app.py:1256):
\* a suspended peer stays listed, as suspended.
SuspendedMarked == Quiet => \A p \in suspended : file.state[p] = "off"

\* The same as long as no restart cuts an "apply" in two.
SuspendedMarkedUndisturbed == Undisturbed => SuspendedMarked

\* "hot-remove from live AWG" (app.py:1746), "excludes disabled peer blocks"
\* (app.py:369): the daemon has no suspended peer.
SuspendedNotLive == Quiet => \A p \in suspended : live[p] = 0

\* The same of the suspended peers whose removal the daemon took.
SuspendedNotServed == Quiet => \A p \in suspended \ missed : live[p] = 0

\* The running daemon serves exactly the listed peers that are not suspended, at
\* their addresses: the file and the daemon, changed one after the other by
\* handlers and together by "apply", agree whenever nothing is being served.
\* Failing commands do not spread: only a peer whose own last `awg set` failed is
\* out of step, until the next time the daemon is configured from the file.
DaemonInStep ==
    Undisturbed /\ up = "up" => \A p \in Peer \ missed : live[p] = RuntimeConf(file).ip[p]

\* It serves at least those also after restarts of the container or of the panel
\* alone, wherever they came; a peer is out of step only if its last `awg set` failed
\* or was cut off by the end of the panel.
ListedLive ==
    Quiet /\ up = "up" => \A p \in Peer \ missed : file.state[p] = "on" => live[p] = file.ip[p]

\* The server's key, once generated, stays in the file.
KeyStays == Undisturbed /\ keys > 0 => file.key > 0

\* What the panel acknowledged stays in the file, the edits of others whatever
\* their order: the peers that were added and the key of the server.
AcknowledgedStays == AddedStays /\ KeyStays
=============================================================================
