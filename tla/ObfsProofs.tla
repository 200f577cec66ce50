----------------------------- MODULE ObfsProofs -----------------------------
(***************************************************************************)
(* Proofs about the lengths of the outer profiles.  Two lemmas do the      *)
(* arithmetic, for every sequence number; the inductive invariant carries  *)
(* it to every datagram of the protocol.                                   *)
(***************************************************************************)
EXTENDS Obfs, TLAPS

\* What a session may have left of its markers.
Lefts(p) == IF p = "off" THEN {0} ELSE 0..Markers

\* Entries of the table with profile p: one in use has the address of a client.
Entries(p) ==
    {e \in EntryType : (e.valid => e.addr \in Client) /\ e.left \in Lefts(p)}

\* Datagrams with profile p: wrapped with it; only handshakes go to the far side.
Datagrams(p) ==
    {d \in DatagramType :
        /\ d.total = WrapLen(p, d.q, IF d.marked THEN MarkerLen ELSE 0, PlainLen[d.kind])
        /\ p = "off" => ~d.marked
        /\ d.dest = "far" => d.kind # "data" /\ d.index \in Index}

\* Calls of the c2s thread: one under way knows whom it serves.
Calls == {r \in CallType : r.at # "idle" => r.c \in Client /\ r.index \in Index}

Requests == [index : Index, c : Client]

\* The inductive invariant: the sessions, the peers, what is on its way, the rest.
Sessions ==
    /\ ctx \in [Client -> Lefts(profile)] /\ crx \in [Client -> BOOLEAN]
    /\ stx \in Lefts(profile) /\ srx \in BOOLEAN
    /\ entry \in [Slot -> Entries(profile)] /\ cpc \in Calls

Peers ==
    /\ want \in [Client -> Index \cup {None}] /\ up \in [Client -> Index \cup {None}]
    /\ owes \in [Client -> BOOLEAN]
    /\ due \subseteq Requests

Counters ==
    /\ lostUp \in 0..MaxLosses /\ lostDown \in 0..MaxLosses
    /\ restarts \in 0..MaxRestarts
    /\ failed \in BOOLEAN

IInv ==
    /\ mode \in Modes /\ profile \in Profiles
    /\ Sessions /\ Peers /\ Counters
    /\ net \subseteq Datagrams(profile)

-----------------------------------------------------------------------------
(* Lengths *)

\* Header and padding are lengths, and with a marker they fit the overhead.
LEMMA PadBound ==
    ASSUME NEW p \in Profile, NEW q \in Nat
    PROVE  /\ Header(p, q) \in Nat /\ Pad(p, q) \in Nat
           /\ p # "dns_like" => Header(p, q) + MarkerLen + Pad(p, q) <= Overhead(p)
                                \/ p = "off"
<1>1. /\ q % 4 \in 0..3 /\ q % 5 \in 0..4 /\ q % 8 \in 0..7
      /\ q % 3 \in 0..2 /\ q % 6 \in 0..5
  BY SMT
<1>2. CASE p = "off"          BY <1>2 DEF Header, Pad
<1>3. CASE p = "stun_ice"     BY <1>1, <1>3 DEF Header, Pad, Overhead, MarkerLen
<1>4. CASE p = "dtls_record"  BY <1>4 DEF Header, Pad, Overhead, MarkerLen
<1>5. CASE p = "rtp_media"    BY <1>5 DEF Header, Pad, Overhead, MarkerLen
<1>6. CASE p = "source_query" BY <1>6 DEF Header, Pad, Overhead, MarkerLen
<1>7. CASE p = "raknet"       BY <1>7 DEF Header, Pad, Overhead, MarkerLen
<1>8. CASE p = "quic_short"
  <2>1. PICK a \in 0..4, b \in 0..3, c \in 0..7 : a = q % 5 /\ b = q % 4 /\ c = q % 8
    BY <1>1
  <2>2. Header(p, q) = 4 + (8 + a) + (1 + b) /\ Pad(p, q) = c
    BY <1>8, <2>1 DEF Header, Pad
  <2> QED BY <1>8, <2>2 DEF Overhead, MarkerLen
<1>9. CASE p = "game_enet"
  <2>1. PICK a \in 0..2, b \in 0..5 : a = q % 3 /\ b = q % 6
    BY <1>1
  <2>2. Header(p, q) = 6 + 4 * (1 + a) /\ Pad(p, q) = b
    BY <1>9, <2>1 DEF Header, Pad
  <2> QED BY <1>9, <2>2 DEF Overhead, MarkerLen
<1>10. CASE p = "game_kcp"
  <2>1. PICK a \in 0..4 : a = q % 5
    BY <1>1
  <2>2. Header(p, q) = 24 /\ Pad(p, q) = a
    BY <1>10, <2>1 DEF Header, Pad
  <2> QED BY <1>10, <2>2 DEF Overhead, MarkerLen
<1>11. CASE p = "dns_like"
  <2>1. PICK a \in 0..5, b \in 0..3 : a = q % 6 /\ b = q % 4
    BY <1>1
  <2>2. Header(p, q) = 12 + (1 + (6 + a) + 1 + 3 + 1) + 4 /\ Pad(p, q) = b
    BY <1>11, <2>1 DEF Header, Pad
  <2> QED BY <1>11, <2>2
<1> QED
  BY <1>2, <1>3, <1>4, <1>5, <1>6, <1>7, <1>8, <1>9, <1>10, <1>11
     DEF Profile, Preset

\* Where the receiver is told the padding, or there is none, it finds exactly
\* the marker and the packet.
LEMMA ExactBody ==
    ASSUME NEW p \in Exact, NEW q \in Nat, NEW m \in Nat, NEW n \in Nat
    PROVE  Body(p, q, WrapLen(p, q, m, n)) = m + n
<1>1. p \in Profile
  BY DEF Exact
<1>2. Header(p, q) \in Nat /\ Pad(p, q) \in Nat
  BY <1>1, PadBound
<1>3. p \in Stripped \/ Pad(p, q) = 0
  BY DEF Exact, Profile, Preset, Stripped, Pad
<1> QED
  BY <1>2, <1>3 DEF Body, WrapLen
-----------------------------------------------------------------------------
(* What the actions are built from *)

\* A session keeps within its markers.
LEMMA LeftsFacts ==
    ASSUME NEW p \in Profile
    PROVE  /\ Lefts(p) \subseteq 0..Markers
           /\ \A n \in Lefts(p) : TxLeft(n) \in Lefts(p)
           /\ profile = p => NewLeft \in Lefts(p)
  BY ObfsAssumption DEF Lefts, TxLeft, NewLeft

\* What a session wraps is a well-formed datagram.
LEMMA DatagramFacts ==
    ASSUME profile \in Profiles, NEW dest \in {"client", "far"}, NEW c \in Client,
           NEW k \in {"init", "resp", "data"}, NEW i \in Index \cup {None},
           NEW n \in Lefts(profile), NEW q \in Seqs,
           dest = "far" => k # "data" /\ i \in Index
    PROVE  Datagram(dest, c, k, i, n, q) \in Datagrams(profile)
<1> DEFINE m == IF n > 0 THEN MarkerLen ELSE 0
<1>1. profile \in Profile /\ q \in Nat
  BY ObfsAssumption
<1>2. PlainLen[k] \in Nat /\ m \in Nat
  BY DEF PlainLen, MarkerLen
<1>3. WrapLen(profile, q, m, PlainLen[k]) \in Nat
  <2> HIDE DEF m
  <2> QED BY <1>1, <1>2, PadBound DEF WrapLen
<1>4. profile = "off" => ~(n > 0)
  BY DEF Lefts
<1>5. (n > 0) \in BOOLEAN
  OBVIOUS
<1> QED
  BY <1>3, <1>4, <1>5 DEF Datagram, Datagrams, DatagramType

\* Initialising the sessions of an entry keeps it well formed.
LEMMA ReadiedFacts ==
    ASSUME profile \in Profiles, NEW e \in Entries(profile)
    PROVE  /\ Readied(e) \in Entries(profile)
           /\ Readied(e).left \in Lefts(profile)
           /\ Readied(e).addr = e.addr
<1>1. profile \in Profile
  BY ObfsAssumption
<1>2. NewLeft \in Lefts(profile) /\ NewSeen \in BOOLEAN
  BY <1>1, LeftsFacts DEF NewSeen
<1>3. NewLeft \in 0..Markers
  BY <1>1, <1>2, LeftsFacts
<1> QED
  BY <1>2, <1>3 DEF Readied, Entries, EntryType

\* A put keeps the entries well formed.
LEMMA PutFacts ==
    ASSUME profile \in Profiles, NEW table \in [Slot -> Entries(profile)],
           NEW s \in Slot, NEW i \in Index, NEW c \in Client
    PROVE  Put(table, s, i, c) \in [Slot -> Entries(profile)]
<1>1. table[s] \in Entries(profile)
  OBVIOUS
<1>2. [table[s] EXCEPT !.valid = TRUE, !.index = i, !.addr = c] \in Entries(profile)
  BY <1>1 DEF Entries, EntryType
<1> QED
  BY <1>2 DEF Put

\* So does noting a marker.
LEMMA SeenFacts ==
    ASSUME NEW e \in Entries(profile), NEW m
    PROVE  [e EXCEPT !.seen = @ \/ m] \in Entries(profile)
<1>1. PICK b \in BOOLEAN : b = (e.seen \/ m)
  OBVIOUS
<1>2. [e EXCEPT !.seen = b] \in Entries(profile)
  BY DEF Entries, EntryType
<1> QED
  BY <1>1, <1>2

\* The invariant holds at first.
LEMMA IInvInit == Init => IInv
<1> SUFFICES ASSUME Init PROVE IInv
  OBVIOUS
<1>1. mode \in Modes /\ profile \in Profiles /\ profile \in Profile
  BY ObfsAssumption DEF Init
<1>2. NewLeft \in Lefts(profile) /\ NewSeen \in BOOLEAN
  BY <1>1, LeftsFacts DEF NewSeen
<1>3. NewEntry \in Entries(profile)
  BY ObfsAssumption DEF NewEntry, Entries, EntryType, Lefts
<1>4. NoCall \in Calls
  BY DEF NoCall, Calls, CallType
<1>5. Sessions
  BY <1>2, <1>3, <1>4 DEF Init, Sessions
<1>6. Peers
  BY DEF Init, Peers
<1>7. Counters
  <2>1. 0 \in 0..MaxLosses /\ 0 \in 0..MaxRestarts
    BY ObfsAssumption
  <2>2. failed \in BOOLEAN
    BY DEF Init
  <2> QED
    BY <2>1, <2>2, Zenon DEF Init, Counters
<1>8. net \subseteq Datagrams(profile)
  BY DEF Init
<1> QED
  BY <1>1, <1>5, <1>6, <1>7, <1>8 DEF IInv

\* The invariant has the types in it.
LEMMA IInvTypeOK == IInv => TypeOK
<1> SUFFICES ASSUME IInv PROVE TypeOK
  OBVIOUS
<1>1. profile \in Profile /\ Lefts(profile) \subseteq 0..Markers
  BY ObfsAssumption, LeftsFacts DEF IInv
<1>2. Entries(profile) \subseteq EntryType /\ Calls \subseteq CallType
      /\ Datagrams(profile) \subseteq DatagramType
  BY DEF Entries, Calls, Datagrams
<1>3. ctx \in [Client -> 0..Markers] /\ entry \in [Slot -> EntryType]
  BY <1>1, <1>2 DEF IInv, Sessions
<1> QED
  BY <1>1, <1>2, <1>3 DEF IInv, Sessions, Peers, Counters, Requests, TypeOK

-----------------------------------------------------------------------------
(* Steps *)

\* A wrapped packet leaves: what it adds to net, what stays to its session.
LEMMA ClientSendsFacts ==
    ASSUME IInv, NEW c \in Client, NEW k \in {"init", "resp"}, NEW i \in Index,
           ClientSends(c, k, i)
    PROVE  /\ net' \subseteq Datagrams(profile)
           /\ ctx' \in [Client -> Lefts(profile)]
<1>1. profile \in Profiles /\ profile \in Profile /\ net \subseteq Datagrams(profile)
      /\ ctx \in [Client -> Lefts(profile)]
  BY ObfsAssumption DEF IInv, Sessions
<1>2. TxLeft(ctx[c]) \in Lefts(profile)
  BY <1>1, LeftsFacts
<1>3. \A q \in Seqs : Datagram("far", c, k, i, ctx[c], q) \in Datagrams(profile)
  BY <1>1, DatagramFacts
<1> QED
  BY <1>1, <1>2, <1>3 DEF ClientSends

\* The same for a server, with the sessions of an entry.
LEMMA ServerSendsFacts ==
    ASSUME IInv, NEW s \in Slot, entry[s].valid, NEW k \in {"init", "resp", "data"},
           NEW i \in Index \cup {None}, ServerSends(s, k, i)
    PROVE  /\ net' \subseteq Datagrams(profile)
           /\ stx' = stx /\ entry' \in [Slot -> Entries(profile)]
<1> DEFINE e == Readied(entry[s])
<1>1. profile \in Profiles /\ profile \in Profile /\ net \subseteq Datagrams(profile)
      /\ entry \in [Slot -> Entries(profile)]
  BY ObfsAssumption DEF IInv, Sessions
<1>2. e \in Entries(profile) /\ e.left \in Lefts(profile) /\ e.addr = entry[s].addr
  BY <1>1, ReadiedFacts
<1>3. e.addr \in Client
  BY <1>1, <1>2 DEF Entries
<1>4. TxLeft(e.left) \in Lefts(profile) /\ TxLeft(e.left) \in 0..Markers
  BY <1>1, <1>2, LeftsFacts
<1>5. \A q \in Seqs : Datagram("client", e.addr, k, i, e.left, q) \in Datagrams(profile)
  <2> HIDE DEF e
  <2> QED BY <1>1, <1>2, <1>3, DatagramFacts
<1>6. [e EXCEPT !.left = TxLeft(@)] \in Entries(profile)
  <2> HIDE DEF e
  <2> QED BY <1>2, <1>4 DEF Entries, EntryType
<1>7. net' \subseteq Datagrams(profile)
  BY <1>1, <1>5 DEF ServerSends
<1>8. entry' = [entry EXCEPT ![s] = [e EXCEPT !.left = TxLeft(@)]] /\ stx' = stx
  BY DEF ServerSends
<1> QED
  BY <1>1, <1>6, <1>7, <1>8

\* The same for a gateway, with its one session.
LEMMA GatewaySendsFacts ==
    ASSUME IInv, NEW c \in Client, NEW k \in {"init", "resp", "data"},
           NEW i \in Index \cup {None}, GatewaySends(c, k, i)
    PROVE  /\ net' \subseteq Datagrams(profile)
           /\ stx' \in Lefts(profile) /\ entry' \in [Slot -> Entries(profile)]
<1>1. profile \in Profiles /\ profile \in Profile /\ net \subseteq Datagrams(profile)
      /\ stx \in Lefts(profile) /\ entry \in [Slot -> Entries(profile)]
  BY ObfsAssumption DEF IInv, Sessions
<1>2. TxLeft(stx) \in Lefts(profile)
  BY <1>1, LeftsFacts
<1>3. \A q \in Seqs : Datagram("client", c, k, i, stx, q) \in Datagrams(profile)
  BY <1>1, DatagramFacts
<1> QED
  BY <1>1, <1>2, <1>3 DEF GatewaySends

\* The same for whichever far proxy there is.
LEMMA FarSendsFacts ==
    ASSUME IInv, NEW c \in Client, NEW k \in {"init", "resp", "data"},
           NEW i \in Index \cup {None}, FarSends(c, k, i)
    PROVE  /\ net' \subseteq Datagrams(profile)
           /\ stx' \in Lefts(profile) /\ entry' \in [Slot -> Entries(profile)]
<1>1. net \subseteq Datagrams(profile)
      /\ stx \in Lefts(profile) /\ entry \in [Slot -> Entries(profile)]
  BY DEF IInv, Sessions
<1>2. CASE GatewaySends(c, k, i)
  BY <1>2, GatewaySendsFacts
<1>3. CASE \E s \in SlotOf(i) : ServerSends(s, k, i)
  BY <1>1, <1>3, ServerSendsFacts DEF SlotOf
<1>4. CASE UNCHANGED <<net, stx, entry>>
  BY <1>1, <1>4
<1> QED
  BY <1>2, <1>3, <1>4 DEF FarSends

\* The step, one action at a time; what an action leaves alone is stated first.
LEMMA IInvNext == IInv /\ [Next]_vars => IInv'
<1> SUFFICES ASSUME IInv, [Next]_vars PROVE IInv'
  OBVIOUS
<1> USE DEF counters, peers, link
<1>1. ASSUME NEW c \in Client, ClientInit(c) PROVE IInv'
  <2>1. PICK i \in Fresh : ClientSends(c, "init", i) /\ want' = [want EXCEPT ![c] = i]
    BY <1>1 DEF ClientInit
  <2>2. i \in Index
    BY DEF Fresh
  <2>3. net' \subseteq Datagrams(profile) /\ ctx' \in [Client -> Lefts(profile)]
    BY <2>1, <2>2, ClientSendsFacts
  <2>4. Sessions'
    BY <1>1, <2>3 DEF ClientInit, IInv, Sessions
  <2>5. Peers'
    BY <1>1, <2>1, <2>2 DEF ClientInit, IInv, Peers
  <2> QED
    BY <1>1, <2>3, <2>4, <2>5 DEF ClientInit, IInv, Counters
<1>2. ASSUME NEW c \in Client, ClientResp(c) PROVE IInv'
  <2>1. PICK i \in Fresh : ClientSends(c, "resp", i) /\ up' = [up EXCEPT ![c] = i]
    BY <1>2 DEF ClientResp
  <2>2. i \in Index
    BY DEF Fresh
  <2>3. net' \subseteq Datagrams(profile) /\ ctx' \in [Client -> Lefts(profile)]
    BY <2>1, <2>2, ClientSendsFacts
  <2>4. Sessions'
    BY <1>2, <2>3 DEF ClientResp, IInv, Sessions
  <2>5. Peers'
    BY <1>2, <2>1, <2>2 DEF ClientResp, IInv, Peers
  <2> QED
    BY <1>2, <2>3, <2>4, <2>5 DEF ClientResp, IInv, Counters
<1>3. ASSUME NEW c \in Client, SendData(c) PROVE IInv'
  <2>1. up[c] \in Index \cup {None} /\ FarSends(c, "data", up[c])
    BY <1>3 DEF SendData, IInv, Peers
  <2>2. net' \subseteq Datagrams(profile)
        /\ stx' \in Lefts(profile) /\ entry' \in [Slot -> Entries(profile)]
    BY <2>1, FarSendsFacts
  <2> QED
    BY <1>3, <2>2 DEF SendData, IInv, Sessions, Peers, Counters
<1>4. ASSUME NEW c \in Client, FarInit(c) PROVE IInv'
  <2>1. net' \subseteq Datagrams(profile)
        /\ stx' \in Lefts(profile) /\ entry' \in [Slot -> Entries(profile)]
    <3>1. CASE GatewaySends(c, "init", None)
      BY <3>1, GatewaySendsFacts
    <3>2. CASE \E s \in Slot : First(SlotsOf(c), s) /\ ServerSends(s, "init", None)
      <4>1. PICK s \in Slot : First(SlotsOf(c), s) /\ ServerSends(s, "init", None)
        BY <3>2
      <4>2. entry[s].valid
        BY <4>1 DEF First, SlotsOf
      <4> QED
        BY <4>1, <4>2, ServerSendsFacts DEF IInv, Sessions
    <3> QED
      BY <1>4, <3>1, <3>2 DEF FarInit
  <2> QED
    BY <1>4, <2>1 DEF FarInit, IInv, Sessions, Peers, Counters
<1>5. ASSUME NEW c \in Client, Restart(c) PROVE IInv'
  <2>1. NewLeft \in Lefts(profile) /\ NewSeen \in BOOLEAN
    BY ObfsAssumption, LeftsFacts DEF IInv, NewSeen
  <2>2. Sessions'
    BY <1>5, <2>1 DEF Restart, IInv, Sessions
  <2>3. Counters'
    BY <1>5, ObfsAssumption DEF Restart, IInv, Counters
  <2> QED
    BY <1>5, <2>2, <2>3 DEF Restart, IInv, Peers
<1>6. ASSUME NEW d \in net, ClientReceive(d) PROVE IInv'
  <2>1. d \in DatagramType /\ net' \subseteq Datagrams(profile)
    BY <1>6 DEF ClientReceive, IInv, Datagrams
  <2>2. crx' \in [Client -> BOOLEAN]
    BY <1>6, <2>1 DEF ClientReceive, IInv, Sessions, DatagramType
  <2>3. Sessions'
    BY <1>6, <2>2 DEF ClientReceive, IInv, Sessions
  <2>4. failed' \in BOOLEAN
    BY <1>6 DEF ClientReceive
  <2>5. Peers'
    BY <1>6, <2>1 DEF ClientReceive, IInv, Peers, DatagramType
  <2> QED
    BY <1>6, <2>1, <2>3, <2>4, <2>5 DEF ClientReceive, IInv, Counters
<1>7. ASSUME NEW d \in net, GatewayReceive(d) PROVE IInv'
  <2>1. d \in Datagrams(profile) /\ net' \subseteq Datagrams(profile)
    BY <1>7 DEF GatewayReceive, IInv
  <2>2. [index |-> d.index, c |-> d.c] \in Requests
    BY <1>7, <2>1 DEF GatewayReceive, Datagrams, DatagramType, Requests
  <2>3. due' \subseteq Requests
    BY <1>7, <2>2 DEF GatewayReceive, Forward, IInv, Peers
  <2>4. srx' \in BOOLEAN /\ failed' \in BOOLEAN
    BY <1>7 DEF GatewayReceive
  <2> QED
    BY <1>7, <2>1, <2>3, <2>4 DEF GatewayReceive, IInv, Sessions, Peers, Counters
<1>8. ASSUME NEW d \in net, ServerReceive(d) PROVE IInv'
  <2>1. /\ d \in Datagrams(profile) /\ net' \subseteq Datagrams(profile)
        /\ entry \in [Slot -> Entries(profile)] /\ profile \in Profiles
    BY <1>8 DEF ServerReceive, IInv, Sessions
  <2>2. d.kind \in {"init", "resp"} /\ d.index \in Index /\ d.c \in Client
    BY <1>8, <2>1 DEF ServerReceive, Datagrams, DatagramType
  <2>3. ASSUME NEW seen, NEW table \in [Slot -> Entries(profile)],
               ServerUnwraps(d, seen, table)
        PROVE  /\ entry' \in [Slot -> Entries(profile)] /\ cpc' \in Calls
               /\ failed' \in BOOLEAN
    <3>1. failed' \in BOOLEAN
      BY <2>3 DEF ServerUnwraps
    <3>2. CASE Accepts(seen, d)
      <4>1. PICK s \in Slot : entry' = Put(table, s, d.index, d.c)
        BY <2>3, <3>2 DEF ServerUnwraps
      <4>2. entry' \in [Slot -> Entries(profile)]
        BY <2>1, <2>2, <4>1, PutFacts
      <4>3. cpc' \in Calls
        <5>1. cpc' = [at |-> "check", kind |-> d.kind, c |-> d.c,
                      index |-> d.index, saw |-> FALSE]
          BY <2>3, <3>2 DEF ServerUnwraps
        <5> QED BY <2>2, <5>1 DEF Calls, CallType
      <4> QED BY <3>1, <4>2, <4>3
    <3>3. CASE ~Accepts(seen, d)
      BY <2>3, <3>1, <3>3 DEF ServerUnwraps, IInv, Sessions
    <3> QED BY <3>2, <3>3
  <2>4. entry' \in [Slot -> Entries(profile)] /\ cpc' \in Calls
        /\ failed' \in BOOLEAN /\ srx' \in BOOLEAN
    <3>1. CASE SlotsOf(d.c) = {} /\ ServerUnwraps(d, srx, entry) /\ srx' = (srx \/ d.marked)
      <4>1. srx' \in BOOLEAN
        BY <3>1
      <4> QED BY <2>1, <2>3, <3>1, <4>1
    <3>2. ASSUME NEW s \in Slot, UNCHANGED srx,
                 ServerUnwraps(d, Readied(entry[s]).seen,
                     [entry EXCEPT ![s] = [Readied(entry[s]) EXCEPT !.seen = @ \/ d.marked]])
          PROVE  entry' \in [Slot -> Entries(profile)] /\ cpc' \in Calls
                 /\ failed' \in BOOLEAN /\ srx' \in BOOLEAN
      <4>1. Readied(entry[s]) \in Entries(profile)
        BY <2>1, ReadiedFacts
      <4>2. [Readied(entry[s]) EXCEPT !.seen = @ \/ d.marked] \in Entries(profile)
        BY <4>1, SeenFacts
      <4>3. [entry EXCEPT ![s] = [Readied(entry[s]) EXCEPT !.seen = @ \/ d.marked]]
                \in [Slot -> Entries(profile)]
        BY <2>1, <4>2
      <4>4. srx' \in BOOLEAN
        BY <3>2 DEF IInv, Sessions
      <4> QED BY <2>3, <3>2, <4>3, <4>4
    <3> QED
      BY <1>8, <3>1, <3>2 DEF ServerReceive
  <2> QED
    BY <1>8, <2>1, <2>4 DEF ServerReceive, IInv, Sessions, Peers, Counters
<1>9. CASE ServerCheck
  <2>1. (\E s \in SlotOf(cpc.index) : entry[s].ready) \in BOOLEAN
    OBVIOUS
  <2>2. cpc' \in Calls
    BY <1>9, <2>1 DEF ServerCheck, IInv, Sessions, Calls, CallType
  <2> QED
    BY <1>9, <2>2 DEF ServerCheck, IInv, Sessions, Peers, Counters
<1>10. CASE ServerReady
  <2>1. /\ cpc \in Calls /\ cpc.c \in Client /\ cpc.index \in Index
        /\ entry \in [Slot -> Entries(profile)] /\ profile \in Profiles
    BY <1>10 DEF ServerReady, IInv, Sessions, Calls
  <2>2. [index |-> cpc.index, c |-> cpc.c] \in Requests
    BY <2>1 DEF Requests
  <2>3. due' \subseteq Requests
    BY <1>10, <2>2 DEF ServerReady, Forward, IInv, Peers
  <2>4. \A s \in Slot : [entry[s] EXCEPT !.ready = FALSE] \in Entries(profile)
    BY <2>1 DEF Entries, EntryType
  <2>5. \A s \in Slot : Readied([entry[s] EXCEPT !.ready = FALSE]) \in Entries(profile)
    BY <2>1, <2>4, ReadiedFacts
  <2>6. entry' \in [Slot -> Entries(profile)]
    BY <1>10, <2>1, <2>5 DEF ServerReady
  <2>7. cpc' \in Calls
    BY <1>10 DEF ServerReady, NoCall, Calls, CallType
  <2> QED
    BY <1>10, <2>3, <2>6, <2>7 DEF ServerReady, IInv, Sessions, Peers, Counters
<1>11. ASSUME NEW r \in due, Answer(r) PROVE IInv'
  <2>1. r.c \in Client /\ r.index \in Index /\ due' \subseteq Requests
    BY <1>11 DEF Answer, IInv, Peers, Requests
  <2>2. net' \subseteq Datagrams(profile)
        /\ stx' \in Lefts(profile) /\ entry' \in [Slot -> Entries(profile)]
    BY <1>11, <2>1, FarSendsFacts DEF Answer
  <2> QED
    BY <1>11, <2>1, <2>2 DEF Answer, IInv, Sessions, Peers, Counters
<1>12. ASSUME NEW d \in net, Lose(d) PROVE IInv'
  <2>1. Counters'
    BY <1>12, ObfsAssumption DEF Lose, IInv, Counters
  <2> QED
    BY <1>12, <2>1 DEF Lose, IInv, Sessions, Peers
<1>13. CASE UNCHANGED vars
  BY <1>13 DEF vars, IInv, Sessions, Peers, Counters
<1> QED
  BY <1>1, <1>2, <1>3, <1>4, <1>5, <1>6, <1>7, <1>8, <1>9, <1>10, <1>11, <1>12, <1>13
     DEF Next, Receive

-----------------------------------------------------------------------------
(* Theorems *)

\* The invariant of the marker protocol holds throughout.
THEOREM ObfsIInv == Spec => []IInv
<1>1. Init => IInv
  BY IInvInit
<1>2. IInv /\ [Next]_vars => IInv'
  BY IInvNext
<1> QED
  BY <1>1, <1>2, PTL DEF Spec

\* What the invariant says of the lengths of a datagram on its way.
LEMMA DatagramNumbers ==
    ASSUME IInv, NEW d \in net
    PROVE  LET m == IF d.marked THEN MarkerLen ELSE 0
               n == PlainLen[d.kind]
           IN  /\ profile \in Profile /\ d.q \in Nat /\ n \in Nat /\ m \in Nat
               /\ m <= MarkerLen
               /\ d.total = WrapLen(profile, d.q, m, n)
               /\ profile = "off" => m = 0
<1>1. d \in Datagrams(profile) /\ profile \in Profile
  BY ObfsAssumption DEF IInv
<1>2. d.q \in Seqs /\ d.kind \in {"init", "resp", "data"} /\ d.marked \in BOOLEAN
  BY <1>1 DEF Datagrams, DatagramType
<1>3. PlainLen[d.kind] \in Nat
  BY <1>2 DEF PlainLen
<1>4. d.q \in Nat
  BY <1>2, ObfsAssumption
<1>5. d.total = WrapLen(profile, d.q, IF d.marked THEN MarkerLen ELSE 0, PlainLen[d.kind])
      /\ (profile = "off" => ~d.marked)
  BY <1>1 DEF Datagrams
<1>6. (IF d.marked THEN MarkerLen ELSE 0) \in Nat
      /\ (IF d.marked THEN MarkerLen ELSE 0) <= MarkerLen
  BY DEF MarkerLen
<1> QED
  BY <1>1, <1>3, <1>4, <1>5, <1>6

\* Every variable keeps its type: no session sends more markers than it was
\* given, and only handshakes with a client behind them reach the table.
THEOREM ObfsTypeOK == Spec => []TypeOK
  BY ObfsIInv, IInvTypeOK, PTL

\* Whatever the sequence number, a preset that tells its padding gives back a
\* packet of the length that was wrapped.
THEOREM ObfsExactPresets == Spec => []ExactPresets
<1>1. IInv => ExactPresets
  <2> SUFFICES ASSUME IInv, profile \in Exact, NEW d \in net
               PROVE  UnwrapLen(~d.marked, d) = PlainLen[d.kind]
    BY DEF ExactPresets
  <2> DEFINE m == IF d.marked THEN MarkerLen ELSE 0
             n == PlainLen[d.kind]
  <2>1. d.q \in Nat /\ n \in Nat /\ m \in Nat
        /\ d.total = WrapLen(profile, d.q, m, n)
    BY DatagramNumbers
  <2>2. Body(profile, d.q, d.total) = m + n
    <3> HIDE DEF m, n
    <3>1. Body(profile, d.q, WrapLen(profile, d.q, m, n)) = m + n
      BY <2>1, ExactBody
    <3> QED BY <2>1, <3>1
  <2>3. UnwrapLen(~d.marked, d) = Body(profile, d.q, d.total) - m
    BY DEF UnwrapLen
  <2> QED
    <3> HIDE DEF m
    <3> QED BY <2>1, <2>2, <2>3
<1> QED
  BY <1>1, ObfsIInv, PTL

\* Whatever the sequence number, no preset but dns_like exceeds the overhead
\* that its callers leave free in the buffer.
THEOREM ObfsOverheadBound == Spec => []OverheadBound
<1>1. IInv => OverheadBound
  <2> SUFFICES ASSUME IInv, profile # "dns_like", NEW d \in net
               PROVE  d.total - PlainLen[d.kind] <= Overhead(profile)
    BY DEF OverheadBound
  <2> DEFINE m == IF d.marked THEN MarkerLen ELSE 0
             n == PlainLen[d.kind]
  <2>1. /\ profile \in Profile /\ d.q \in Nat /\ n \in Nat /\ m \in Nat
        /\ m <= MarkerLen
        /\ d.total = Header(profile, d.q) + m + n + Pad(profile, d.q)
        /\ profile = "off" => m = 0
    BY DatagramNumbers DEF WrapLen
  <2>2. /\ Header(profile, d.q) \in Nat /\ Pad(profile, d.q) \in Nat
        /\ profile # "off" =>
               Header(profile, d.q) + MarkerLen + Pad(profile, d.q) <= Overhead(profile)
    BY <2>1, PadBound
  <2>3. CASE profile = "off"
    <3>1. Header(profile, d.q) = 0 /\ Pad(profile, d.q) = 0 /\ Overhead(profile) = 0
      BY <2>3 DEF Header, Pad, Overhead
    <3> HIDE DEF m, n
    <3>2. d.total = n
      BY <2>1, <2>3, <3>1
    <3> QED
      BY <2>1, <3>1, <3>2 DEF n
  <2>4. CASE profile # "off"
    <3> HIDE DEF m, n
    <3>1. d.total - n <= Overhead(profile)
      <4>1. MarkerLen = 4 /\ Overhead(profile) \in Nat
        BY <2>1 DEF MarkerLen, Overhead
      <4> QED BY <2>1, <2>2, <2>4, <4>1
    <3> QED
      BY <3>1 DEF n
  <2> QED BY <2>3, <2>4
<1> QED
  BY <1>1, ObfsIInv, PTL
=============================================================================
