-------------------------------- MODULE Obfs --------------------------------
(***************************************************************************)
(* The marker protocol of the outer profiles between client proxies and a  *)
(* gateway or a server proxy, over a network that loses and reorders.  A   *)
(* sender puts a marker in front of the first three packets it wraps; a    *)
(* receiver rejects everything until it has seen a marker, and from then   *)
(* on takes none off (src/obfs.c).  A gateway has one session per          *)
(* direction.  A server has one pair per entry of its session table, and   *)
(* one for addresses without an entry (proxy_c2s_gateway.c,                *)
(* proxy_s2c_gateway.c).                                                   *)
(*                                                                         *)
(* The WireGuard peers behind the proxies are external: a client starts a  *)
(* handshake under a fresh sender index, and again under another one when  *)
(* nothing of the last attempt is on its way any more (its retry timer,    *)
(* five seconds, is longer than a round trip); the server answers, sends   *)
(* data, and may start a handshake with a client it has a session with.    *)
(* Transport packets of the clients are not wrapped and are left out.      *)
(* A sequence number is any of Seqs: nothing but lengths depends on it.    *)
(* marker_rx_window is left out: it decides about a line of the log.       *)
(***************************************************************************)
EXTENDS ObfsFrame, FiniteSets

CONSTANTS
    Modes,      \* of the far proxy: "gateway", "server"
    Profiles,   \* the profiles to model, the same at both ends
    Seqs,       \* values of tx_seq
    Markers,    \* marker_tx_left of a new session: 3
    Client,     \* client proxies, by address
    Index,      \* sender indices
    Size,       \* SESSION_TABLE_SIZE
    Probe,      \* the length of a probe of the table
    MaxLosses,  \* bound: datagrams lost, per direction
    MaxRestarts \* bound: restarts of a proxy

ASSUME ObfsAssumption ==
    /\ Modes \subseteq {"gateway", "server"} /\ Profiles \subseteq Profile
    /\ Seqs \subseteq Nat /\ Index \subseteq Nat
    /\ Markers \in Nat \ {0} /\ Size \in Nat \ {0} /\ Probe \in 1..Size
    /\ MaxLosses \in Nat /\ MaxRestarts \in Nat

VARIABLES
    mode, profile,
    ctx, crx,   \* client proxies: marker_tx_left of obfs_c2s, marker_seen of obfs_s2c
    srx, stx,   \* far proxy, shared: marker_seen of obfs_c2s, marker_tx_left of obfs_s2c
    entry,      \* server: the table, with the two sessions of each entry
    cpc,        \* server: where the c2s thread is behind session_put
    want, up,   \* WireGuard clients: index of the handshake begun, of the session
    owes,       \* WireGuard clients: whether a handshake has to be answered
    due,        \* WireGuard server: handshakes to answer
    net,        \* datagrams on their way
    lostUp, lostDown, restarts,     \* counters for the bounds
    failed      \* history: obfs_unwrap has returned NULL

link == <<ctx, crx, srx, stx, entry>>
peers == <<want, up, owes, due>>
counters == <<lostUp, lostDown, restarts>>
vars == <<mode, profile, link, cpc, peers, net, counters, failed>>

None == -1
Slot == 0 .. Size - 1
PlainLen == [init |-> 148, resp |-> 92, data |-> 80]

-----------------------------------------------------------------------------
(* Sessions and datagrams *)

\* obfs_session_init: "off" needs no marker.
NewSeen == profile = "off"
NewLeft == IF profile = "off" THEN 0 ELSE Markers

NewEntry == [valid |-> FALSE, index |-> None, addr |-> None,
             ready |-> FALSE, seen |-> FALSE, left |-> 0]

\* An entry whose sessions are initialised if they never were (obfs_ready).
Readied(e) == IF e.ready THEN e
              ELSE [e EXCEPT !.ready = TRUE, !.seen = NewSeen, !.left = NewLeft]

\* Fault of TxLeft: the marker is written once only.
TxLeftNone(left) == 0

\* marker_tx_left after obfs_wrap.
TxLeft(left) == IF left > 0 THEN left - 1 ELSE 0

\* A packet of kind k, wrapped by a session with left markers to send.
Datagram(dest, c, k, i, left, q) ==
    [dest |-> dest, c |-> c, kind |-> k, index |-> i, marked |-> left > 0, q |-> q,
     total |-> WrapLen(profile, q, IF left > 0 THEN MarkerLen ELSE 0, PlainLen[k])]

\* marker_unwrap_if_needed: without a marker seen, or here, the packet is refused.
Opens(seen, d) == seen \/ d.marked

\* The length obfs_unwrap returns for d.
UnwrapLen(seen, d) ==
    Body(profile, d.q, d.total) - IF seen THEN 0 ELSE MarkerLen

\* What transform_inbound makes of a handshake: it goes by its exact size.
Accepts(seen, d) == Opens(seen, d) /\ UnwrapLen(seen, d) = PlainLen[d.kind]

-----------------------------------------------------------------------------
(* The client side *)

InFlight(c) == {d \in net : d.c = c}

\* Indices nobody remembers: a new sender index is random.
Fresh ==
    Index \ ({entry[s].index : s \in Slot} \cup {d.index : d \in net}
             \cup {r.index : r \in due} \cup {cpc.index}
             \cup {want[c] : c \in Client} \cup {up[c] : c \in Client})

ClientSends(c, k, i) ==
    \E q \in Seqs :
        /\ net' = net \cup {Datagram("far", c, k, i, ctx[c], q)}
        /\ ctx' = [ctx EXCEPT ![c] = TxLeft(@)]

\* WireGuard starts a handshake, the first, a new one or the next attempt; the
\* client proxy wraps and sends it.
ClientInit(c) ==
    /\ \A d \in InFlight(c) : d.kind = "data"
    /\ \A r \in due : r.c # c
    /\ cpc.c # c /\ ~owes[c]
    /\ \E i \in Fresh :
           /\ ClientSends(c, "init", i)
           /\ want' = [want EXCEPT ![c] = i]
    /\ UNCHANGED <<mode, profile, crx, srx, stx, entry, cpc, up, owes, due, counters,
                   failed>>

\* WireGuard answers a handshake of the server under an index of its own.
ClientResp(c) ==
    /\ owes[c]
    /\ \E i \in Fresh :
           /\ ClientSends(c, "resp", i)
           /\ up' = [up EXCEPT ![c] = i]
    /\ owes' = [owes EXCEPT ![c] = FALSE]
    /\ UNCHANGED <<mode, profile, crx, srx, stx, entry, cpc, want, due, counters, failed>>

\* proxy_s2c_process_client: unwrap, transform, deliver to WireGuard.
ClientReceive(d) ==
    /\ d \in net /\ d.dest = "client"
    /\ net' = net \ {d}
    /\ crx' = [crx EXCEPT ![d.c] = @ \/ d.marked]
    /\ failed' = (failed \/ ~Opens(crx[d.c], d))
    /\ LET ok == Accepts(crx[d.c], d)
           answered == ok /\ d.kind = "resp" /\ d.index = want[d.c]
       IN  /\ up' = IF answered THEN [up EXCEPT ![d.c] = d.index] ELSE up
           /\ want' = IF answered THEN [want EXCEPT ![d.c] = None] ELSE want
           /\ owes' = [owes EXCEPT ![d.c] = @ \/ (ok /\ d.kind = "init")]
    /\ UNCHANGED <<mode, profile, ctx, srx, stx, entry, cpc, due, counters>>

-----------------------------------------------------------------------------
(* The far side, c2s thread *)

Home(i) == i % Size
ProbeSlot(i, k) == (i + k) % Size

\* n is the lowest number in S.
First(S, n) == n \in S /\ \A m \in S : n <= m

\* session_find_by_addr.
SlotsOf(c) == {s \in Slot : entry[s].valid /\ entry[s].addr = c}

\* session_put: s is the first slot of the probe that is free or has the index,
\* or the home slot.
PutSlot(i, s) ==
    LET fits == {k \in 0 .. Probe - 1 :
                     \/ ~entry[ProbeSlot(i, k)].valid
                     \/ entry[ProbeSlot(i, k)].index = i}
    IN  \/ \E k \in fits : First(fits, k) /\ s = ProbeSlot(i, k)
        \/ fits = {} /\ s = Home(i)

\* session_put keeps obfs_ready and the sessions of the slot's last owner.
Put(table, s, i, c) ==
    [table EXCEPT ![s] = [@ EXCEPT !.valid = TRUE, !.index = i, !.addr = c]]

NoCall == [at |-> "idle", kind |-> "init", c |-> None, index |-> None, saw |-> FALSE]

\* The handshake reaches WireGuard; an init is to be answered.
Forward(k, i, c) == due' = IF k = "init" THEN due \cup {[index |-> i, c |-> c]} ELSE due

\* A gateway receives: the shared session unwraps.
GatewayReceive(d) ==
    /\ mode = "gateway" /\ d \in net /\ d.dest = "far"
    /\ net' = net \ {d}
    /\ srx' = (srx \/ d.marked)
    /\ failed' = (failed \/ ~Opens(srx, d))
    /\ IF Accepts(srx, d) THEN Forward(d.kind, d.index, d.c) ELSE UNCHANGED due
    /\ UNCHANGED <<mode, profile, ctx, crx, stx, entry, cpc, want, up, owes, counters>>

\* A session that has seen a marker or not unwraps d; a handshake is put into
\* the table.
ServerUnwraps(d, seen, table) ==
    /\ failed' = (failed \/ ~Opens(seen, d))
    /\ IF Accepts(seen, d)
       THEN /\ \E s \in Slot : PutSlot(d.index, s) /\ entry' = Put(table, s, d.index, d.c)
            /\ cpc' = [at |-> "check", kind |-> d.kind, c |-> d.c,
                       index |-> d.index, saw |-> FALSE]
       ELSE entry' = table /\ UNCHANGED cpc

\* A server receives: the session of the lowest entry with the sender's address
\* unwraps, or the shared one.
ServerReceive(d) ==
    /\ mode = "server" /\ d \in net /\ d.dest = "far"
    /\ cpc = NoCall
    /\ net' = net \ {d}
    /\ \/ /\ SlotsOf(d.c) = {}
          /\ ServerUnwraps(d, srx, entry)
          /\ srx' = (srx \/ d.marked)
       \/ \E s \in Slot :
              LET e == Readied(entry[s])
              IN  /\ First(SlotsOf(d.c), s)
                  /\ ServerUnwraps(d, e.seen,
                         [entry EXCEPT ![s] = [e EXCEPT !.seen = @ \/ d.marked]])
                  /\ UNCHANGED srx
    /\ UNCHANGED <<mode, profile, ctx, crx, stx, peers, counters>>

\* session_get_entry.
SlotOf(i) == {s \in Slot : entry[s].valid /\ entry[s].index = i}

\* The check of obfs_ready behind session_put; s2c may use the entry already.
ServerCheck ==
    /\ cpc.at = "check"
    /\ cpc' = [cpc EXCEPT !.at = "ready",
                          !.saw = \E s \in SlotOf(cpc.index) : entry[s].ready]
    /\ UNCHANGED <<mode, profile, link, peers, net, counters, failed>>

\* The sessions are initialised if the check said so; the packet is forwarded.
ServerReady ==
    /\ cpc.at = "ready"
    /\ entry' = [s \in Slot |->
                    IF s \in SlotOf(cpc.index) /\ ~cpc.saw
                    THEN Readied([entry[s] EXCEPT !.ready = FALSE])
                    ELSE entry[s]]
    /\ Forward(cpc.kind, cpc.index, cpc.c)
    /\ cpc' = NoCall
    /\ UNCHANGED <<mode, profile, ctx, crx, srx, stx, want, up, owes, net, counters,
                   failed>>

-----------------------------------------------------------------------------
(* The far side, s2c thread: WireGuard sends a packet of kind k *)

\* A gateway wraps everything with its one session.
GatewaySends(c, k, i) ==
    /\ mode = "gateway"
    /\ \E q \in Seqs : net' = net \cup {Datagram("client", c, k, i, stx, q)}
    /\ stx' = TxLeft(stx)
    /\ UNCHANGED entry

\* pick_obfs_tx: a server wraps with the session of the entry in slot s, and
\* sends to its address.
ServerSends(s, k, i) ==
    LET e == Readied(entry[s])
    IN  /\ mode = "server"
        /\ \E q \in Seqs : net' = net \cup {Datagram("client", e.addr, k, i, e.left, q)}
        /\ entry' = [entry EXCEPT ![s] = [e EXCEPT !.left = TxLeft(@)]]
        /\ UNCHANGED stx

FarSends(c, k, i) ==
    \/ GatewaySends(c, k, i)
    \/ \E s \in SlotOf(i) : ServerSends(s, k, i)
    \/ /\ mode = "server" /\ SlotOf(i) = {}
       /\ UNCHANGED <<net, stx, entry>>

\* WireGuard answers a handshake.
Answer(r) ==
    /\ r \in due /\ due' = due \ {r}
    /\ FarSends(r.c, "resp", r.index)
    /\ UNCHANGED <<mode, profile, ctx, crx, srx, cpc, want, up, owes, counters, failed>>

\* WireGuard sends a transport packet; one at a time is on its way.
SendData(c) ==
    /\ up[c] # None
    /\ \A d \in InFlight(c) : d.kind # "data"
    /\ FarSends(c, "data", up[c])
    /\ UNCHANGED <<mode, profile, ctx, crx, srx, cpc, peers, counters, failed>>

\* WireGuard starts a handshake itself: a server sends it to its only client.
FarInit(c) ==
    /\ up[c] # None /\ want[c] = None /\ ~owes[c]
    /\ \A d \in InFlight(c) : d.kind = "data"
    /\ \/ GatewaySends(c, "init", None)
       \/ /\ SlotsOf(c) = {s \in Slot : entry[s].valid}
          /\ \E s \in Slot : First(SlotsOf(c), s) /\ ServerSends(s, "init", None)
    /\ UNCHANGED <<mode, profile, ctx, crx, srx, cpc, peers, counters, failed>>

-----------------------------------------------------------------------------
(* The network, restarts *)

Lose(d) ==
    /\ d \in net /\ net' = net \ {d}
    /\ IF d.dest = "far"
       THEN lostUp < MaxLosses /\ lostUp' = lostUp + 1 /\ UNCHANGED lostDown
       ELSE lostDown < MaxLosses /\ lostDown' = lostDown + 1 /\ UNCHANGED lostUp
    /\ UNCHANGED <<mode, profile, link, cpc, peers, restarts, failed>>

\* The client proxy starts anew (proxy_init); the WireGuard peers carry on.
Restart(c) ==
    /\ restarts < MaxRestarts /\ restarts' = restarts + 1
    /\ ctx' = [ctx EXCEPT ![c] = NewLeft]
    /\ crx' = [crx EXCEPT ![c] = NewSeen]
    /\ UNCHANGED <<mode, profile, srx, stx, entry, cpc, peers, net, lostUp, lostDown,
                   failed>>

Init ==
    /\ mode \in Modes /\ profile \in Profiles
    /\ ctx = [c \in Client |-> NewLeft] /\ crx = [c \in Client |-> NewSeen]
    /\ srx = NewSeen /\ stx = NewLeft
    /\ entry = [s \in Slot |-> NewEntry]
    /\ cpc = NoCall
    /\ want = [c \in Client |-> None] /\ up = [c \in Client |-> None]
    /\ owes = [c \in Client |-> FALSE]
    /\ due = {} /\ net = {}
    /\ lostUp = 0 /\ lostDown = 0 /\ restarts = 0
    /\ failed = FALSE

Receive(d) == ClientReceive(d) \/ GatewayReceive(d) \/ ServerReceive(d)

Next ==
    \/ \E c \in Client :
           ClientInit(c) \/ ClientResp(c) \/ SendData(c) \/ FarInit(c) \/ Restart(c)
    \/ \E d \in net : Receive(d)
    \/ ServerCheck \/ ServerReady
    \/ \E r \in due : Answer(r)
    \/ \E d \in net : Lose(d)

\* A handshake on its way arrives (or is lost), both proxies and the server's
\* WireGuard keep running, and a client that has begun a handshake tries again.
Fairness ==
    /\ \A c \in Client, dest \in {"client", "far"} :
           WF_vars(\E d \in InFlight(c) :
                       d.kind # "data" /\ d.dest = dest /\ Receive(d))
    /\ WF_vars(ServerCheck) /\ WF_vars(ServerReady)
    /\ WF_vars(\E r \in due : Answer(r))
    /\ \A c \in Client :
           /\ WF_vars(want[c] # None /\ ClientInit(c))
           /\ WF_vars(ClientResp(c))

Spec == Init /\ [][Next]_vars /\ Fairness

-----------------------------------------------------------------------------
(* Properties *)

DatagramType ==
    [dest : {"client", "far"}, c : Client, kind : {"init", "resp", "data"},
     index : Index \cup {None}, marked : BOOLEAN, q : Seqs, total : Nat]

EntryType ==
    [valid : BOOLEAN, index : Index \cup {None}, addr : Client \cup {None},
     ready : BOOLEAN, seen : BOOLEAN, left : 0..Markers]

CallType ==
    [at : {"idle", "check", "ready"}, kind : {"init", "resp"},
     c : Client \cup {None}, index : Index \cup {None}, saw : BOOLEAN]

\* TypeOK: every variable has its type, and marker counters stay in range.
TypeOK ==
    /\ mode \in Modes /\ profile \in Profiles
    /\ ctx \in [Client -> 0..Markers] /\ crx \in [Client -> BOOLEAN]
    /\ srx \in BOOLEAN /\ stx \in 0..Markers
    /\ entry \in [Slot -> EntryType]
    /\ cpc \in CallType
    /\ want \in [Client -> Index \cup {None}] /\ up \in [Client -> Index \cup {None}]
    /\ owes \in [Client -> BOOLEAN]
    /\ due \in SUBSET [index : Index, c : Client]
    /\ net \in SUBSET DatagramType
    /\ lostUp \in 0..MaxLosses /\ lostDown \in 0..MaxLosses
    /\ restarts \in 0..MaxRestarts
    /\ failed \in BOOLEAN

\* ExactPresets: with a preset that tells the receiver its padding, what is
\* unwrapped is as long as what was wrapped, with a marker and without.
ExactPresets ==
    profile \in Exact =>
        \A d \in net : UnwrapLen(~d.marked, d) = PlainLen[d.kind]

\* OverheadBound: obfs_wrap adds no more than obfs_profile_overhead_max, which
\* the callers keep free; dns_like is the exception.
OverheadBound ==
    profile # "dns_like" =>
        \A d \in net : d.total - PlainLen[d.kind] <= Overhead(profile)

\* GatewayHandshakes: behind a gateway every handshake a client begins is
\* completed, the first included, if fewer datagrams than markers are lost in
\* each direction and no proxy restarts.
GatewayHandshakes ==
    mode = "gateway" /\ profile \in Exact =>
        \A c \in Client :
            want[c] # None ~> want[c] = None \/ restarts > 0

\* FirstContact: a client of a server that begins a handshake gets a session,
\* if fewer datagrams than markers are lost and it is the only client.
FirstContact ==
    mode = "server" /\ profile \in Exact /\ Cardinality(Client) = 1 =>
        \A c \in Client :
            want[c] # None ~> \/ up[c] # None
                              \/ lostUp + lostDown >= Markers
                              \/ restarts > 0

\* HandshakesComplete: the marker protocol gets handshakes through on both kinds
\* of far side.
HandshakesComplete == GatewayHandshakes /\ FirstContact

\* FailureMeansOther: proxy_s2c_client.c:45-47 and proxy_c2s_gateway.c:138-142,
\* "obfs unwrap failures=... (remote likely plain AWG/WG or different obfs
\* preset)": with the same preset at both ends nothing fails to unwrap.
FailureMeansOther == ~failed

\* DnsRoundTrip: test_obfs.c:240 of dns_like, "ASSERT_EQ(un_len, 29)": what is
\* unwrapped is as long as what was wrapped, for this preset too.
DnsRoundTrip ==
    profile = "dns_like" =>
        \A d \in net : UnwrapLen(~d.marked, d) = PlainLen[d.kind]

\* DeclaredOverhead: obfs.c:591, "12 + qname(17) + qtail(4) + marker(4) + tail(3)".
DeclaredOverhead ==
    \A d \in net : d.total - PlainLen[d.kind] <= Overhead(profile)
=============================================================================
