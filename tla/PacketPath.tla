----------------------------- MODULE PacketPath -----------------------------
(***************************************************************************)
(* How one thread of the proxy turns a batch of WireGuard packets into     *)
(* AmneziaWG datagrams.  Three loops do it: the c2s thread of client mode  *)
(* (proxy_c2s_client.c) and the s2c thread of gateway and of server mode   *)
(* (proxy.c with proxy_s2c_gateway.c).  Each receives a batch, transforms  *)
(* the packets (transform.c) in their receive buffers, or in hs_buf when a *)
(* buffer has no room for the padding, wraps them in obfs_buf when a       *)
(* preset is on, and queues references that a later send reads             *)
(* (proxy_io_batch.c).  hs_buf and obfs_buf are one per thread.            *)
(*                                                                         *)
(* A packet is its place in the batch, its kind and its length.  The       *)
(* contents of a buffer are: whose packet it is, the value of the type     *)
(* word, and how many bytes of padding and of outer header precede it.     *)
(* Decode is the other proxy's inbound path for one datagram; it works in  *)
(* place, so that a datagram cannot disturb another.                       *)
(***************************************************************************)
EXTENDS Integers, Sequences, FiniteSets

CONSTANTS
    Paths,      \* the loops to model
    Configs,    \* configurations as written by the administrator
    MaxBatch,   \* BATCH_SIZE
    DataLens,   \* lengths of transport packets
    Clients,    \* addresses of the clients of a server
    NoClient,   \* what the session table answers for an unknown index
    Peer,       \* the only correspondent of the other two loops
    Outer,      \* what obfs_wrap may add to a packet, in bytes
    Tails,      \* how many of them, behind the packet, obfs_unwrap may leave on it:
                \* up to 3 with stun_ice and dns_like, none with the other presets
    MaxOuter    \* obfs_profile_overhead_max

ASSUME PathsAssumption == Paths \subseteq {"client", "gateway", "server"}
ASSUME BatchAssumption == MaxBatch \in Nat \ {0}
ASSUME ClientAssumption == NoClient \notin Clients
ASSUME OuterAssumption == MaxOuter \in Nat /\ Outer \subseteq 1..MaxOuter
ASSUME TailsAssumption == Tails \subseteq Nat

VARIABLES
    path,       \* which of the loops runs
    cfg,        \* awg_config_t
    batch,      \* what the last receive returned
    pos,        \* the packet the loop is at
    buf,        \* the receive buffers: contents per place in the batch
    hs, ob,     \* contents of hs_buf and of obfs_buf
    queue,      \* send iovecs: buffer, length, packet, destination
    gso_ok,     \* whether segmentation offload is still tried
    wire,       \* history: datagrams of this batch, as sent
    lost        \* history: a send of this batch failed

vars == <<path, cfg, batch, pos, buf, hs, ob, queue, gso_ok, wire, lost>>

-----------------------------------------------------------------------------
(* Kinds of packets and the configuration *)

Handshake == {"init", "resp", "cookie"}
Kind == Handshake \cup {"data", "other"}

TransportMin == 32
BufSize == 1500
Headroom == 1500

\* A shorter packet is none of transport, and no preset adds more than the
\* headroom (34 bytes at most).
ASSUME LengthAssumption ==
    /\ \A n \in DataLens : n \in Nat /\ n >= TransportMin
    /\ MaxOuter <= Headroom

\* Paddings s1-s4, ranges of type words h1-h4, the number of junk packets and
\* whether a preset is on, as parsed.
ASSUME ConfigsAssumption ==
    Configs \subseteq [s : [Handshake \cup {"data"} -> Int],
                      h : [Handshake \cup {"data"} -> SUBSET Nat],
                      jc : Nat, obfs : BOOLEAN]

\* WG_INIT_SIZE, WG_RESP_SIZE, WG_COOKIE_SIZE.
HandshakeSize == [init |-> 148, resp |-> 92, cookie |-> 64]

\* The type word of a packet; "other" stands for all unknown ones.
WgType == [init |-> 1, resp |-> 2, cookie |-> 3, data |-> 4, other |-> 0]

\* init_total, resp_total, cookie_total.
Total(c, k) == c.s[k] + HandshakeSize[k]

\* Fault of Validate: h1 and h4 are not compared.
ValidateButH1H4(c) ==
    /\ \A k \in Handshake : c.s[k] \in 0 .. BufSize - HandshakeSize[k]
    /\ c.s.data \in 0 .. Headroom
    /\ \A k, l \in Handshake \cup {"data"} :
           k # l /\ {k, l} # {"init", "data"} => c.h[k] \cap c.h[l] = {}

\* config_validate: paddings fit their buffers, no two header ranges overlap.
Validate(c) ==
    /\ \A k \in Handshake : c.s[k] \in 0 .. BufSize - HandshakeSize[k]
    /\ c.s.data \in 0 .. Headroom
    /\ \A k, l \in Handshake \cup {"data"} : k # l => c.h[k] \cap c.h[l] = {}

\* h4_noop: transport packets stay as they are.
NoOp(c) == c.h.data = {WgType.data} /\ c.s.data = 0

\* transport_size_ambiguous.
Ambiguous(c) == \E k \in Handshake : Total(c, k) >= c.s.data + TransportMin

\* obfs_max_packet_len.
MaxPlain == BufSize + Headroom - MaxOuter

-----------------------------------------------------------------------------
(* Packets, buffers, references to buffers *)

OtherLen == 20

\* What a loop may receive.  The session table says where a server's packet
\* goes; client mode reads at most BufSize bytes, the s2c loops as many as the
\* headroom they keep leaves.
Packets(p, c) ==
    LET dest == IF p = "server" THEN Clients \cup {NoClient} ELSE {Peer}
        longest == IF p = "client" THEN BufSize ELSE BufSize + Headroom - c.s.data
    IN  {[kind |-> k, n |-> HandshakeSize[k], to |-> d] : k \in Handshake, d \in dest}
        \cup [kind : {"data"}, n : {n \in DataLens : n <= longest}, to : dest]
        \cup [kind : {"other"}, n : {OtherLen}, to : dest]

\* Values of .of that are no place in the batch.
Junk == 0
Earlier == -1
Torn == -2

\* Contents of a buffer: packet of, of n bytes, type word h, behind pad bytes
\* of padding and out bytes of outer header.
Contents(i, n, h, pad) == [of |-> i, n |-> n, h |-> h, pad |-> pad, out |-> 0]

LenOf(c) == c.out + c.pad + c.n

Stale == Contents(Earlier, 0, 0, 0)

\* What the buffer that e refers to holds.
At(e) == CASE e.ref = "recv" -> buf[e.of]
           [] e.ref = "hs"   -> hs
           [] e.ref = "obfs" -> ob

Datagram(e) == [of |-> e.of, c |-> At(e), to |-> e.to]

-----------------------------------------------------------------------------
(* transform_outbound and obfs_wrap *)

\* The type words transform_outbound may write.
Headers(k) == IF k = "other" THEN {WgType.other} ELSE cfg.h[k]

Padding(k) == IF k = "other" THEN 0 ELSE cfg.s[k]

\* All loops leave s4 bytes in front of a packet (dataoff): a handshake whose
\* padding is longer goes to hs_buf.
InHs(k) == k \in Handshake /\ cfg.s[k] > cfg.s.data

\* Packet i after transform_outbound.
Transformed(i, h) ==
    Contents(i, batch[i].n, h, Padding(batch[i].kind))

\* The result c of a transform after obfs_wrap, which added over bytes, a tail
\* behind the packet included.
Wrapped(c, over) == [c EXCEPT !.out = over]

\* A packet longer than obfs_max_packet_len is dropped; the overhead of "off"
\* is 0.
Fits(len) == len <= IF cfg.obfs THEN MaxPlain ELSE BufSize + Headroom

\* What obfs_wrap adds.
Overheads == IF cfg.obfs THEN Outer ELSE {0}

\* Transform packet i in its receive buffer or in hs_buf, wrap the result in
\* obfs_buf if a preset is on and the loop wraps this packet.
Write(i, h, wrap, over) ==
    LET t == Transformed(i, h)
    IN  /\ IF InHs(batch[i].kind)
           THEN /\ hs' = t
                /\ buf' = [buf EXCEPT ![i] = [t EXCEPT !.pad = 0]]
           ELSE /\ buf' = [buf EXCEPT ![i] = t]
                /\ UNCHANGED hs
        /\ ob' = IF wrap THEN Wrapped(t, over) ELSE ob

\* The reference to the result of Write.
RefTo(i, wrap, over) ==
    [ref |-> IF wrap THEN "obfs"
             ELSE IF InHs(batch[i].kind) THEN "hs" ELSE "recv",
     of |-> i,
     len |-> over + Padding(batch[i].kind) + batch[i].n,
     to |-> batch[i].to]

-----------------------------------------------------------------------------
(* The loops *)

Current == batch[pos]
More == pos <= Len(batch)

\* Fault of NeedsFlush: the flush of client mode is left out.
NeedsNoFlush == FALSE

\* Client mode sends what it has queued before it touches a handshake; the
\* s2c loops send at the end of the batch only.
NeedsFlush == path = "client" /\ Current.kind # "data"

\* The loop comes round: what the static buffers hold is from an earlier batch.
NextRound ==
    /\ batch # <<>> /\ ~More /\ queue = <<>>
    /\ batch' = <<>> /\ pos' = 1 /\ buf' = <<>>
    /\ hs' = Stale /\ ob' = Stale
    /\ wire' = <<>> /\ lost' = FALSE
    /\ UNCHANGED <<path, cfg, queue, gso_ok>>

\* recvmmsg returns a batch.  Without a remote socket (client) or a client
\* (gateway) it is dropped.
Receive ==
    /\ batch = <<>>
    /\ \E b \in UNION {[1..n -> Packets(path, cfg)] : n \in 1..MaxBatch} :
           /\ batch' = b
           /\ buf' = [i \in DOMAIN b |-> Contents(i, b[i].n, WgType[b[i].kind], 0)]
           /\ \/ pos' = 1 /\ lost' = FALSE
              \/ path # "server" /\ pos' = Len(b) + 1 /\ lost' = TRUE
    /\ UNCHANGED <<path, cfg, hs, ob, queue, gso_ok, wire>>

\* Client mode: a transport packet gets its type word and its padding and is
\* queued unwrapped.
ClientData ==
    /\ path = "client" /\ More /\ Current.kind = "data"
    /\ \E h \in Headers("data") : Write(pos, h, FALSE, 0)
    /\ queue' = Append(queue, RefTo(pos, FALSE, 0))
    /\ pos' = pos + 1
    /\ UNCHANGED <<path, cfg, batch, gso_ok, wire, lost>>

\* Gateway and server: a transport packet is wrapped before it is queued.
GatewayData ==
    /\ path # "client" /\ More /\ Current.kind = "data"
    /\ Current.to # NoClient
    /\ LET fits == Fits(Padding("data") + Current.n)
           wrap == cfg.obfs /\ fits
       IN  \E h \in Headers("data"), over \in Overheads :
               /\ Write(pos, h, wrap, over)
               /\ queue' = IF fits THEN Append(queue, RefTo(pos, wrap, over))
                           ELSE queue
    /\ pos' = pos + 1
    /\ UNCHANGED <<path, cfg, batch, gso_ok, wire, lost>>

\* What a server has no client for, and what is no WireGuard packet.
ServerDrop ==
    /\ path = "server" /\ More
    /\ Current.to = NoClient \/ Current.kind = "other"
    /\ pos' = pos + 1
    /\ UNCHANGED <<path, cfg, batch, buf, hs, ob, queue, gso_ok, wire, lost>>

\* The guards common to the packets that are not transport packets.
Slow ==
    /\ More /\ Current.kind # "data"
    /\ NeedsFlush => queue = <<>>
    /\ path = "server" => Current.to # NoClient /\ Current.kind # "other"

\* With junk configured an init is sent at once, behind its junk.
WithJunk == Current.kind = "init" /\ cfg.jc > 0

\* A packet that is queued after transform_outbound and obfs_wrap.
QueueSlow ==
    /\ Slow /\ ~WithJunk
    /\ \E h \in Headers(Current.kind), over \in Overheads :
           /\ Write(pos, h, cfg.obfs, over)
           /\ queue' = Append(queue, RefTo(pos, cfg.obfs, over))
    /\ pos' = pos + 1
    /\ UNCHANGED <<path, cfg, batch, gso_ok, wire, lost>>

JunkDatagrams(to) ==
    [i \in 1..cfg.jc |-> [of |-> Junk, c |-> Contents(Junk, 0, 0, 0), to |-> to]]

\* An init sent behind its junk; the send may fail.
SendInit ==
    /\ Slow /\ WithJunk
    /\ \E h \in Headers("init"), over \in Overheads, sent \in BOOLEAN :
           /\ Write(pos, h, cfg.obfs, over)
           /\ wire' = wire \o JunkDatagrams(Current.to)
                      \o IF sent
                         THEN <<[of |-> pos, to |-> Current.to,
                                 c |-> Wrapped(Transformed(pos, h), over)]>>
                         ELSE <<>>
           /\ lost' = (lost \/ ~sent)
    /\ pos' = pos + 1
    /\ UNCHANGED <<path, cfg, batch, queue, gso_ok>>

-----------------------------------------------------------------------------
(* proxy_io_send_batch_gso *)

\* How many of the queued packets one send may carry: those as long as the
\* first, and one shorter one behind them.
Segments(q) ==
    LET same == CHOOSE m \in 1..Len(q) :
                    /\ \A i \in 1..m : q[i].len = q[1].len
                    /\ m < Len(q) => q[m + 1].len # q[1].len
    IN  IF same < Len(q) /\ q[same + 1].len < q[1].len THEN same + 1 ELSE same

\* The kernel cuts what it is given at every multiple of the first length: a
\* longer packet would be torn.
Segmented(q) ==
    [i \in DOMAIN q |->
        IF q[i].len <= q[1].len THEN Datagram(q[i])
        ELSE [Datagram(q[i]) EXCEPT !.c.of = Torn]]

\* Fault of Skipped: sendmmsg starts again from the first.
SkippedNone(n) == 0

\* How many packets of the queue a segmented send of n accounts for.
Skipped(n) == n

\* Whether a segmented send is tried: the server sends to several addresses.
TriesGso == gso_ok /\ Len(queue) > 1 /\ path # "server" /\ Segments(queue) > 1

\* sendmmsg from the n-th on: an error drops the rest of the queue.
SendFrom(n, before) ==
    \E last \in n .. Len(queue) :
        /\ wire' = wire \o before
                   \o [i \in 1 .. last - n |-> Datagram(queue[n + i])]
        /\ lost' = (lost \/ last < Len(queue))

\* The queue is sent.  The segmented send may be refused (then all go through
\* sendmmsg), and may turn out not to be supported.
Flush ==
    /\ queue # <<>>
    /\ More => NeedsFlush
    /\ \/ /\ TriesGso
          /\ LET n == Segments(queue)
             IN  SendFrom(Skipped(n), Segmented(SubSeq(queue, 1, n)))
          /\ UNCHANGED gso_ok
       \/ /\ TriesGso
          /\ SendFrom(0, <<>>)
          /\ gso_ok' \in BOOLEAN
       \/ /\ ~TriesGso
          /\ SendFrom(0, <<>>)
          /\ UNCHANGED gso_ok
    /\ queue' = <<>>
    /\ UNCHANGED <<path, cfg, batch, pos, buf, hs, ob>>

-----------------------------------------------------------------------------
Init ==
    /\ path \in Paths
    /\ cfg \in {c \in Configs : Validate(c)}
    /\ batch = <<>> /\ pos = 1
    /\ buf = <<>> /\ hs = Stale /\ ob = Stale
    /\ queue = <<>> /\ gso_ok = TRUE
    /\ wire = <<>> /\ lost = FALSE

Next ==
    \/ Receive \/ NextRound
    \/ ClientData \/ GatewayData \/ ServerDrop
    \/ QueueSlow \/ SendInit
    \/ Flush

Spec == Init /\ [][Next]_vars

-----------------------------------------------------------------------------
(* The other proxy: what it makes of one datagram (proxy_c2s_gateway.c for   *)
(* what client mode sends, proxy_s2c_client.c for the rest)                  *)

Dropped == <<"dropped", 0>>
Rejected == [Stale EXCEPT !.of = Junk]

\* The type word found at offset off.  Elsewhere than in its place lie random
\* and encrypted bytes; that they equal a magic value is left out.
Word(c, off) == IF off = c.out + c.pad THEN c.h ELSE -1

IsTotal(len) == \E k \in Handshake : len = Total(cfg, k)

\* The first look at a datagram: transport, unless its size says handshake.
FastPath(c) ==
    /\ LenOf(c) >= cfg.s.data + TransportMin
    /\ Ambiguous(cfg) => ~IsTotal(LenOf(c))
    /\ Word(c, cfg.s.data) \in cfg.h.data

\* obfs_unwrap when the marker has been seen: what was never wrapped is
\* rejected, and of what was, tail bytes stay on behind the packet.
Unwrap(c, tail) ==
    IF ~cfg.obfs THEN c
    ELSE IF c.out = 0 THEN Rejected ELSE [c EXCEPT !.out = 0, !.n = c.n + tail]

\* The tests of transform_inbound, in the order it makes them.
InboundOrder == <<"init", "resp", "cookie", "data">>

Matches(c, k) ==
    /\ IF k = "data" THEN LenOf(c) >= cfg.s.data + TransportMin
                     ELSE LenOf(c) = Total(cfg, k)
    /\ Word(c, cfg.s[k]) \in cfg.h[k]

FirstMatch(c, i) ==
    /\ Matches(c, InboundOrder[i])
    /\ \A j \in 1 .. i - 1 : ~Matches(c, InboundOrder[j])

Inbound(c) ==
    IF NoOp(cfg) /\ Word(c, 0) = WgType.data /\ LenOf(c) >= TransportMin
    THEN <<"data", LenOf(c)>>
    ELSE IF \A i \in DOMAIN InboundOrder : ~Matches(c, InboundOrder[i]) THEN Dropped
    ELSE LET k == InboundOrder[CHOOSE i \in DOMAIN InboundOrder : FirstMatch(c, i)]
         IN  <<k, LenOf(c) - cfg.s[k]>>

\* The WireGuard packet that comes out, as its kind and its length.
Decode(c, tail) ==
    LET first == IF path = "client" THEN c ELSE Unwrap(c, tail)
    IN  IF FastPath(first) THEN <<"data", LenOf(first) - cfg.s.data>>
                           ELSE Inbound(Unwrap(c, tail))

-----------------------------------------------------------------------------
(* Properties *)

ContentsType ==
    [of : {Junk, Earlier} \cup 1..MaxBatch, n : Nat, h : Int, pad : Nat, out : Nat]

\* TypeOK: every variable has its type; a queued packet fits the receive buffer
\* of the other side (obfs_max_packet_len, BUF_SIZE + AWG_PACKET_HEADROOM).
TypeOK ==
    /\ path \in Paths /\ cfg \in Configs
    /\ Len(batch) <= MaxBatch
    /\ \A i \in DOMAIN batch : batch[i] \in Packets(path, cfg)
    /\ pos \in 1 .. Len(batch) + 1
    /\ DOMAIN buf = DOMAIN batch
    /\ \A i \in DOMAIN buf : buf[i] \in ContentsType
    /\ hs \in ContentsType /\ ob \in ContentsType
    /\ \A i \in DOMAIN queue :
           queue[i] \in [ref : {"recv", "hs", "obfs"}, of : 1..MaxBatch,
                         len : 1 .. BufSize + Headroom,
                         to : Clients \cup {Peer}]
    /\ gso_ok \in BOOLEAN /\ lost \in BOOLEAN
    /\ \A i \in DOMAIN wire : wire[i].to \in Clients \cup {Peer}

Packet(d) == batch[d.of]
Mine == {i \in DOMAIN wire : wire[i].of # Junk}

\* Packets of the batch whose result lies in the same static buffer.
Sharing(i) ==
    \E j \in DOMAIN batch \ {i} :
        /\ path # "client"
        /\ cfg.obfs \/ (InHs(batch[i].kind) /\ InHs(batch[j].kind))

\* OwnContent: a datagram carries the packet it was made from, whole, in a length
\* the other side can receive (obfs_max_packet_len), and goes to that packet's
\* destination, whatever the batch, unless the s2c loop of gateway or server had
\* two packets of the batch in one static buffer.
OwnContent ==
    \A i \in Mine :
        LET d == wire[i]
        IN  /\ d.to = Packet(d).to
            /\ LenOf(d.c) <= BufSize + Headroom
            /\ d.c.of = d.of \/ (Sharing(d.of) /\ d.c.of # Torn)

\* StaticIsFine: transform.c:6-7, "Static buffer for handshake packets when
\* headroom is insufficient. Handshakes are rare (1-2 per connection), so
\* static is fine": a handshake leaves with its own contents.
StaticIsFine ==
    \A i \in Mine : Packet(wire[i]).kind \in Handshake => wire[i].c.of = wire[i].of

\* NoMixing: the same of every packet, transport packets in obfs_buf included.
NoMixing == \A i \in Mine : wire[i].c.of = wire[i].of

\* A transport packet of client mode is not wrapped; where its size is that of a
\* handshake the gateway unwraps it and finds no outer header.
Blackholed(d) ==
    path = "client" /\ cfg.obfs /\ Packet(d).kind = "data" /\ IsTotal(LenOf(d.c))

\* The bytes that stay on a datagram, if it was wrapped at all.
Left(d, tail) == IF d.c.out = 0 THEN 0 ELSE tail

\* RoundTrip: what the other proxy delivers to its WireGuard is the packet this
\* proxy received, by kind and by length, for every valid configuration, as long
\* as nothing of the preset stays on it.  Where the tail of stun_ice or dns_like
\* does (obfs.c:134-136, 362 and 559), a transport packet comes out longer by the
\* tail, and a handshake, told by its exact size, not at all.
RoundTrip ==
    \A i \in Mine, tail \in Tails :
        LET d == wire[i]
            p == Packet(d)
            left == Left(d, tail)
        IN  d.c.of = d.of /\ p.kind # "other" =>
                Decode(d.c, tail) =
                    IF Blackholed(d) \/ (p.kind \in Handshake /\ left > 0) THEN Dropped
                    ELSE <<p.kind, p.n + left>>

\* OnceInOrder: no packet is sent twice, and client mode sends them in the order
\* it received them: an init, sent at once, does not overtake what is queued.
OnceInOrder ==
    \A i, j \in Mine : i < j =>
        IF path = "client" THEN wire[i].of < wire[j].of
                           ELSE wire[i].of # wire[j].of

\* Packets the loop means to drop.
Unwanted(i) ==
    \/ path = "server" /\ (batch[i].to = NoClient \/ batch[i].kind = "other")
    \/ path # "client" /\ batch[i].kind = "data"
       /\ ~Fits(Padding("data") + batch[i].n)

\* NoneForgotten: at the end of a batch every packet that was wanted has been
\* sent, unless a send failed.
NoneForgotten ==
    ~More /\ queue = <<>> /\ ~lost =>
        \A i \in DOMAIN batch :
            Unwanted(i) \/ \E j \in Mine : wire[j].of = i

\* EachOnce: every packet that is wanted leaves once, in client mode in order.
EachOnce == OnceInOrder /\ NoneForgotten
=============================================================================
