-------------------------- MODULE PacketPathProofs --------------------------
(***************************************************************************)
(* What the three loops of PacketPath send.  The invariant follows each    *)
(* packet of a batch from its buffer through the queue to the wire: what   *)
(* a queued reference or a sent datagram holds is always the result of     *)
(* transforming and wrapping one packet of the batch, its own unless the   *)
(* buffer it was put into is one that the loop has used again.  That the   *)
(* other proxy recovers the packet is then a fact about one datagram.      *)
(***************************************************************************)
EXTENDS PacketPath, SequenceTheorems, WellFoundedInduction, TLAPS

Dest == Clients \cup {NoClient, Peer}
Result == [of : Int, n : Nat, h : Int, pad : Nat, out : Nat]
Entry == [ref : {"recv", "hs", "obfs"}, of : Nat, len : Nat, to : Dest]
Sent == [of : Nat, c : Result, to : Dest]

\* The types the proofs need.
Types ==
    /\ path \in Paths /\ cfg \in Configs /\ Validate(cfg)
    /\ batch \in Seq(Packets(path, cfg)) /\ pos \in 1 .. Len(batch) + 1
    /\ buf \in [1 .. Len(batch) -> Result] /\ hs \in Result /\ ob \in Result
    /\ queue \in Seq(Entry) /\ wire \in Seq(Sent)
    /\ lost \in BOOLEAN

\* Which packets the loop wraps, and where it puts the result of each kind.
Wraps(k) == cfg.obfs /\ (path = "client" => k # "data")
Place(k) == IF Wraps(k) THEN "obfs" ELSE IF InHs(k) THEN "hs" ELSE "recv"

\* Contents c are the result of packet i, and fit the receiver's buffer.
Made(c, i) ==
    LET k == batch[i].kind
    IN  /\ c.of = i /\ c.n = batch[i].n
        /\ c.h \in Headers(k) /\ c.pad = Padding(k)
        /\ c.out \in IF Wraps(k) THEN Outer ELSE {0}
        /\ LenOf(c) <= BufSize + Headroom

\* Two packets of the batch have their results in one static buffer.
Shares(i, j) ==
    path # "client" /\ (cfg.obfs \/ (InHs(batch[i].kind) /\ InHs(batch[j].kind)))

\* A datagram that is in order: made of a packet the loop has been at, with that
\* packet's destination, its contents its own or those of one it shares with.
Right(d) ==
    /\ d.of \in 1 .. pos - 1 /\ d.to = batch[d.of].to
    /\ d.c.of \in 1 .. pos - 1 /\ Made(d.c, d.c.of)
    /\ d.c.of = d.of \/ Shares(d.of, d.c.of)

\* What is queued is in order as it would be sent now.
Queued ==
    \A k \in 1 .. Len(queue) : /\ Right(Datagram(queue[k]))
                               /\ queue[k].ref = Place(batch[queue[k].of].kind)

WireRight == \A k \in 1 .. Len(wire) : wire[k].of # Junk => Right(wire[k])

\* The order in which packets leave: that of the batch in client mode.
Before(i, j) == IF path = "client" THEN i < j ELSE i # j

Once ==
    /\ \A j, k \in 1 .. Len(queue) : j < k => queue[j].of < queue[k].of
    /\ \A j, k \in 1 .. Len(wire) :
           j < k /\ wire[j].of # Junk /\ wire[k].of # Junk => Before(wire[j].of, wire[k].of)
    /\ \A j \in 1 .. Len(wire), k \in 1 .. Len(queue) :
           wire[j].of # Junk => Before(wire[j].of, queue[k].of)

\* Every packet the loop has been at is unwanted, sent or queued.
Accounted ==
    ~lost => \A i \in 1 .. pos - 1 :
                 \/ Unwanted(i)
                 \/ \E k \in 1 .. Len(wire) : wire[k].of = i
                 \/ \E k \in 1 .. Len(queue) : queue[k].of = i

\* Before a batch is received nothing is queued and nothing has been sent.
Fresh == batch = <<>> => pos = 1 /\ queue = <<>> /\ wire = <<>>

IInv == Types /\ Fresh /\ Queued /\ WireRight /\ Once /\ Accounted

-----------------------------------------------------------------------------
(* Numbers and sequences *)

\* Every set of naturals has a least element.
LEMMA LeastElement ==
    ASSUME NEW T, T \subseteq Nat, T # {}
    PROVE  \E x \in T : \A y \in T : x <= y
<1> DEFINE R == OpToRel(<, Nat)
<1>1. IsWellFoundedOn(R, Nat)
  BY NatLessThanWellFounded
<1>2. \A x, y \in Nat : y < x => <<y, x>> \in R
  BY DEF OpToRel
<1> HIDE DEF R
<1>3. PICK x \in T : \A y \in T : ~(<<y, x>> \in R)
  BY <1>1, WFMin
<1>4. x \in Nat /\ \A y \in T : y \in Nat /\ ~(y < x)
  BY <1>2, <1>3
<1>5. \A y \in T : x <= y
  BY <1>4
<1> QED
  BY <1>3, <1>5

\* A segmented send carries some of the queue's first packets, none of them
\* longer than the first: the kernel tears no packet in two.
LEMMA SegmentsFit ==
    ASSUME NEW q \in Seq(Entry), q # <<>>
    PROVE  Segments(q) \in 1 .. Len(q) /\ \A i \in 1 .. Segments(q) : q[i].len <= q[1].len
<1> DEFINE Same(m) == /\ \A i \in 1 .. m : q[i].len = q[1].len
                      /\ m < Len(q) => q[m + 1].len # q[1].len
           other == {i \in 1 .. Len(q) : q[i].len # q[1].len}
           same == CHOOSE m \in 1 .. Len(q) : Same(m)
<1>0. Len(q) \in Nat \ {0} /\ \A i \in 1 .. Len(q) : q[i] \in Entry
  BY EmptySeq
<1>1. Len(q) \in Nat \ {0} /\ \A i \in 1 .. Len(q) : q[i] \in Entry /\ q[i].len \in Nat
  BY <1>0 DEF Entry
<1>2. \E m \in 1 .. Len(q) : Same(m)
  <2>1. CASE other = {}
    BY <1>1, <2>1
  <2>2. CASE other # {}
    <3>0. other \subseteq Nat
      BY <1>1
    <3>1. PICK x \in other : \A y \in other : x <= y
      <4> HIDE DEF other
      <4> QED
        BY <2>2, <3>0, LeastElement
    <3>2. x - 1 \in 1 .. Len(q) /\ Same(x - 1)
      BY <1>1, <3>1
    <3> QED
      BY <3>2
  <2> QED
    BY <2>1, <2>2
<1>3. same \in 1 .. Len(q) /\ Same(same)
  BY <1>2
<1>4. Segments(q) = IF same < Len(q) /\ q[same + 1].len < q[1].len THEN same + 1 ELSE same
  BY DEF Segments
<1> HIDE DEF same
<1> QED
  BY <1>1, <1>3, <1>4

-----------------------------------------------------------------------------
(* Packets, configurations and buffers *)

\* A configuration that was accepted.
LEMMA ConfigFacts ==
    ASSUME Types
    PROVE  /\ \A k \in Handshake : cfg.s[k] \in 0 .. BufSize - HandshakeSize[k] /\ cfg.s[k] \in Nat
           /\ cfg.s.data \in 0 .. Headroom
           /\ \A k \in Handshake \cup {"data"} : cfg.h[k] \subseteq Nat
           /\ \A k, l \in Handshake \cup {"data"} : k # l => cfg.h[k] \cap cfg.h[l] = {}
           /\ cfg.jc \in Nat /\ cfg.obfs \in BOOLEAN
<1>1. cfg \in [s : [Handshake \cup {"data"} -> Int], h : [Handshake \cup {"data"} -> SUBSET Nat],
               jc : Nat, obfs : BOOLEAN]
  BY ConfigsAssumption DEF Types
<1>2. /\ \A k \in Handshake : cfg.s[k] \in 0 .. BufSize - HandshakeSize[k]
      /\ cfg.s.data \in 0 .. Headroom
      /\ \A k, l \in Handshake \cup {"data"} : k # l => cfg.h[k] \cap cfg.h[l] = {}
  BY DEF Types, Validate
<1>3. \A k \in Handshake : HandshakeSize[k] \in Nat
  BY DEF Handshake, HandshakeSize
<1> QED
  BY <1>1, <1>2, <1>3 DEF BufSize

\* A packet that may be received.
LEMMA ReceivedFacts ==
    ASSUME NEW p \in Packets(path, cfg)
    PROVE  /\ p.kind \in Kind /\ p.n \in Nat /\ p.to \in Dest
           /\ p.kind \in Handshake => p.n = HandshakeSize[p.kind]
           /\ p.kind = "data" => p.n >= TransportMin
           /\ p.kind = "data" /\ path = "client" => p.n <= BufSize
           /\ p.kind = "other" => p.n = OtherLen
<1>1. CASE \E k \in Handshake, d \in Dest : p = [kind |-> k, n |-> HandshakeSize[k], to |-> d]
  <2>1. \A k \in Handshake : HandshakeSize[k] \in Nat /\ k \in Kind /\ k # "data" /\ k # "other"
    BY DEF Handshake, HandshakeSize, Kind
  <2> QED
    BY <1>1, <2>1
<1>2. CASE p \in [kind : {"data"}, n : {n \in DataLens : path = "client" => n <= BufSize}, to : Dest]
  BY <1>2, LengthAssumption DEF Kind, Handshake
<1>3. CASE p \in [kind : {"other"}, n : {OtherLen}, to : Dest]
  BY <1>3 DEF Kind, Handshake, OtherLen
<1> QED
  BY <1>1, <1>2, <1>3 DEF Packets, Dest

\* A packet of the batch.
LEMMA PacketFacts ==
    ASSUME Types, NEW i \in 1 .. Len(batch)
    PROVE  /\ batch[i].kind \in Kind /\ batch[i].n \in Nat /\ batch[i].to \in Dest
           /\ batch[i].kind \in Handshake => batch[i].n = HandshakeSize[batch[i].kind]
           /\ batch[i].kind = "data" => batch[i].n >= TransportMin
           /\ batch[i].kind = "data" /\ path = "client" => batch[i].n <= BufSize
           /\ batch[i].kind = "other" => batch[i].n = OtherLen
<1>1. batch[i] \in Packets(path, cfg)
  BY ElementOfSeq DEF Types
<1> QED
  BY <1>1, ReceivedFacts

\* The buffer a reference names.
LEMMA AtPlace ==
    ASSUME NEW e \in Entry
    PROVE  /\ e.ref = "recv" => At(e) = buf[e.of] /\ At(e)' = buf'[e.of]
           /\ e.ref = "hs" => At(e) = hs /\ At(e)' = hs'
           /\ e.ref = "obfs" => At(e) = ob /\ At(e)' = ob'
<1>1. CASE e.ref = "recv"
  BY <1>1 DEF At
<1>2. CASE e.ref = "hs"
  BY <1>2 DEF At
<1>3. CASE e.ref = "obfs"
  BY <1>3 DEF At
<1> QED
  BY <1>1, <1>2, <1>3 DEF Entry

-----------------------------------------------------------------------------
(* transform_outbound and obfs_wrap *)

\* The padding and the type words of a kind.
LEMMA KindFacts ==
    ASSUME Types, NEW k \in Kind
    PROVE  /\ Padding(k) \in Nat /\ Headers(k) \subseteq Nat
           /\ k \in Handshake => Padding(k) + HandshakeSize[k] <= BufSize
           /\ k = "data" => Padding(k) <= Headroom
           /\ k = "other" => Padding(k) = 0
<1>1. \A l \in Handshake : l # "other" /\ HandshakeSize[l] \in Nat
  BY DEF Handshake, HandshakeSize
<1>2. CASE k \in Handshake
  BY <1>1, <1>2, ConfigFacts DEF Padding, Headers, BufSize, Handshake
<1>3. CASE k = "data"
  <2>1. Padding(k) = cfg.s.data /\ Headers(k) = cfg.h["data"] /\ k \notin Handshake
    BY <1>3 DEF Padding, Headers, Handshake
  <2>2. cfg.s.data \in 0 .. Headroom /\ cfg.h["data"] \subseteq Nat
    BY ConfigFacts
  <2>3. Padding(k) \in Nat /\ Padding(k) <= Headroom
    <3>1. \A x \in 0 .. Headroom : x \in Nat /\ x <= Headroom
      BY DEF Headroom
    <3> QED
      BY <2>1, <2>2, <3>1
  <2>4. Headers(k) \subseteq Nat /\ k # "other"
    BY <1>3, <2>1, <2>2
  <2> QED
    BY <2>1, <2>3, <2>4
<1>4. CASE k = "other"
  BY <1>4 DEF Padding, Headers, WgType, Handshake
<1> QED
  BY <1>2, <1>3, <1>4 DEF Kind

\* Three lengths whose sum has a bound.
LEMMA SumFits ==
    ASSUME NEW a \in Nat, NEW b \in Nat, NEW c \in Nat, NEW m \in Nat, c > 0, a + (b + c) <= m
    PROVE  a + b + c \in 1 .. m
  OBVIOUS

\* Whatever is queued or sent fits the buffer of the other side.
LEMMA LengthFits ==
    ASSUME Types, NEW i \in 1 .. Len(batch),
           NEW over \in IF Wraps(batch[i].kind) THEN Outer ELSE {0},
           batch[i].kind = "data" /\ path # "client" => Fits(Padding("data") + batch[i].n)
    PROVE  over \in Nat /\ over + Padding(batch[i].kind) + batch[i].n \in 1 .. BufSize + Headroom
<1> DEFINE k == batch[i].kind
           pad == Padding(k)
           n == batch[i].n
<1> SUFFICES over \in Nat /\ over + pad + n \in 1 .. BufSize + Headroom
  OBVIOUS
<1>0. k \in Kind /\ n \in Nat /\ MaxOuter \in Nat /\ MaxOuter <= Headroom
  BY PacketFacts, OuterAssumption, LengthAssumption
<1>1. pad \in Nat
  BY <1>0, KindFacts
<1>2. over \in 0 .. MaxOuter /\ (~cfg.obfs => over = 0) /\ (path = "client" /\ k = "data" => over = 0)
  BY OuterAssumption DEF Wraps
<1>3. CASE k \in Handshake
  <2>1. n = HandshakeSize[k]
    BY <1>3, PacketFacts
  <2>2. pad + n <= BufSize
    BY <1>0, <1>3, <2>1, KindFacts
  <2>3. n > 0
    BY <1>3, <2>1 DEF Handshake, HandshakeSize
  <2> HIDE DEF k, pad, n
  <2> QED
    BY <1>0, <1>1, <1>2, <2>2, <2>3 DEF BufSize, Headroom
<1>4. CASE k = "data" /\ path = "client"
  <2>1. n <= BufSize /\ n >= TransportMin /\ pad <= Headroom
    BY <1>0, <1>4, PacketFacts, KindFacts
  <2>2. over = 0
    BY <1>2, <1>4
  <2> HIDE DEF k, pad, n
  <2>3. n > 0 /\ over + (pad + n) <= BufSize + Headroom
    BY ONLY <1>0, <1>1, <2>1, <2>2 DEF BufSize, Headroom, TransportMin
  <2> QED
    BY ONLY <1>0, <1>1, <2>2, <2>3, SumFits DEF BufSize, Headroom
<1>5. CASE k = "data" /\ path # "client"
  <2>1. n >= TransportMin /\ Fits(pad + n)
    BY <1>5, PacketFacts
  <2>2. pad + n <= IF cfg.obfs THEN MaxPlain ELSE BufSize + Headroom
    BY <2>1 DEF Fits
  <2>3. over \in 0 .. MaxOuter /\ (~cfg.obfs => over = 0)
    BY <1>2
  <2> HIDE DEF k, pad, n
  <2>4. n > 0 /\ over \in Nat
    BY ONLY <1>0, <2>1, <2>3 DEF TransportMin
  <2>5. over + (pad + n) <= BufSize + Headroom
    <3>1. CASE cfg.obfs
      BY ONLY <1>0, <1>1, <2>2, <2>3, <3>1 DEF MaxPlain, BufSize, Headroom
    <3>2. CASE ~cfg.obfs
      BY ONLY <1>0, <1>1, <2>2, <2>3, <3>2
    <3> QED
      BY <3>1, <3>2
  <2> QED
    BY ONLY <1>0, <1>1, <2>4, <2>5, SumFits DEF BufSize, Headroom
<1>6. CASE k = "other"
  <2>1. n = OtherLen /\ pad = 0
    BY <1>0, <1>6, PacketFacts, KindFacts
  <2> HIDE DEF k, pad, n
  <2> QED
    BY <1>0, <1>1, <1>2, <2>1 DEF BufSize, Headroom, OtherLen
<1> QED
  BY <1>0, <1>3, <1>4, <1>5, <1>6 DEF Kind

LEMMA TransformedResult ==
    ASSUME Types, NEW i \in 1 .. Len(batch), NEW h \in Headers(batch[i].kind)
    PROVE  Transformed(i, h) \in Result /\ [Transformed(i, h) EXCEPT !.pad = 0] \in Result
<1>1. batch[i].kind \in Kind /\ batch[i].n \in Nat
  BY PacketFacts
<1>2. Padding(batch[i].kind) \in Nat /\ h \in Nat
  BY <1>1, KindFacts
<1> QED
  BY <1>1, <1>2 DEF Transformed, Contents, Result

\* The result for packet i.
LEMMA MadeHere ==
    ASSUME Types, NEW i \in 1 .. Len(batch), NEW h \in Headers(batch[i].kind),
           NEW over \in IF Wraps(batch[i].kind) THEN Outer ELSE {0},
           over \in Nat, over + Padding(batch[i].kind) + batch[i].n \in 1 .. BufSize + Headroom,
           NEW c, c = Wrapped(Transformed(i, h), over)
    PROVE  /\ c \in Result /\ c.of = i /\ Made(c, i)
           /\ ~Wraps(batch[i].kind) => c = Transformed(i, h)
<1>1. batch[i].kind \in Kind /\ batch[i].n \in Nat
  BY PacketFacts
<1>2. Padding(batch[i].kind) \in Nat /\ h \in Nat
  BY <1>1, KindFacts
<1>3. c = [of |-> i, n |-> batch[i].n, h |-> h, pad |-> Padding(batch[i].kind), out |-> over]
  BY DEF Wrapped, Transformed, Contents
<1>4. Transformed(i, h) = [of |-> i, n |-> batch[i].n, h |-> h, pad |-> Padding(batch[i].kind), out |-> 0]
  BY DEF Transformed, Contents
<1>5. LenOf(c) <= BufSize + Headroom
  BY <1>1, <1>2, <1>3 DEF LenOf
<1> QED
  BY <1>1, <1>2, <1>3, <1>4, <1>5 DEF Result, Made

\* What was in order stays in order while the loop goes on with the batch.
LEMMA MadeLater ==
    ASSUME NEW c, NEW i, Made(c, i), UNCHANGED <<path, cfg, batch>>
    PROVE  Made(c, i)'
  BY DEF Made, Headers, Padding, Wraps, LenOf

LEMMA RightLater ==
    ASSUME NEW d, Right(d), pos \in Nat, pos' \in Nat, pos <= pos', UNCHANGED <<path, cfg, batch>>
    PROVE  Right(d)'
<1>1. Made(d.c, d.c.of)'
  BY MadeLater DEF Right
<1> QED
  BY <1>1 DEF Right, Shares, InHs

\* The loop transforms the packet it is at.  A transport packet that does not fit
\* behind an outer header is not wrapped, and nothing refers to its result.
Transforms(h, wrap, over) ==
    /\ More /\ h \in Headers(Current.kind) /\ Write(pos, h, wrap, over)
    /\ \/ Current.kind = "data" /\ wrap = FALSE
       \/ /\ wrap = Wraps(Current.kind)
          /\ over \in IF wrap THEN Outer ELSE {0}
          /\ over \in Nat /\ over + Padding(Current.kind) + Current.n \in 1 .. BufSize + Headroom
    /\ UNCHANGED <<path, cfg, batch>> /\ pos' = pos + 1

LEMMA CurrentFacts ==
    ASSUME Types, More
    PROVE  pos \in 1 .. Len(batch) /\ Len(batch) \in Nat /\ Current = batch[pos]
<1>1. Len(batch) \in Nat
  BY LenProperties DEF Types
<1> QED
  BY <1>1 DEF Types, More, Current

\* Only the buffer of that packet and the static ones are written.
LEMMA TransformsTypes ==
    ASSUME Types, NEW h, NEW wrap \in BOOLEAN, NEW over, Transforms(h, wrap, over)
    PROVE  /\ buf' \in [1 .. Len(batch) -> Result] /\ hs' \in Result /\ ob' \in Result
           /\ \A j \in 1 .. Len(batch) : j # pos => buf'[j] = buf[j]
<1> DEFINE t == Transformed(pos, h)
<1>1. pos \in 1 .. Len(batch) /\ Current = batch[pos]
  BY CurrentFacts DEF Transforms
<1>2. t \in Result /\ [t EXCEPT !.pad = 0] \in Result
  BY <1>1, TransformedResult DEF Transforms
<1>3. wrap => Wrapped(t, over) \in Result
  <2> SUFFICES ASSUME wrap PROVE Wrapped(t, over) \in Result
    OBVIOUS
  <2>1. wrap = Wraps(Current.kind) /\ over \in Nat
    BY DEF Transforms
  <2> QED
    BY <1>2, <2>1 DEF Wrapped, Result
<1>4. /\ buf' = [buf EXCEPT ![pos] = t] \/ buf' = [buf EXCEPT ![pos] = [t EXCEPT !.pad = 0]]
      /\ hs' = t \/ hs' = hs
      /\ ob' = IF wrap THEN Wrapped(t, over) ELSE ob
  BY DEF Transforms, Write
<1> HIDE DEF t
<1> QED
  BY <1>1, <1>2, <1>3, <1>4 DEF Types

\* An earlier result that is queued stays in order: if its static buffer is used
\* again, then by a packet it shares it with.
LEMMA EntryStays ==
    ASSUME Types, NEW h, NEW wrap \in BOOLEAN, NEW over, Transforms(h, wrap, over),
           path = "client" => Current.kind = "data",
           NEW e \in Entry, Right(Datagram(e)), e.ref = Place(batch[e.of].kind)
    PROVE  Right(Datagram(e))' /\ e.ref = Place(batch[e.of].kind)'
<1> DEFINE t == Transformed(pos, h)
           k == Current.kind
<1>1. /\ pos \in 1 .. Len(batch) /\ Len(batch) \in Nat /\ Current = batch[pos] /\ h \in Headers(k)
      /\ pos' = pos + 1 /\ UNCHANGED <<path, cfg, batch>> /\ k \in Kind
  BY CurrentFacts, PacketFacts DEF Transforms
<1>2. e.of \in 1 .. pos - 1 /\ e.to = batch[e.of].to
  BY DEF Right, Datagram
<1>3. e.ref = Place(batch[e.of].kind)'
  BY <1>1 DEF Place, Wraps, InHs
<1> SUFFICES Right(Datagram(e))'
  BY <1>3
<1>4. Datagram(e) = [of |-> e.of, c |-> At(e), to |-> e.to]
      /\ Datagram(e)' = [of |-> e.of, c |-> At(e)', to |-> e.to]
  BY DEF Datagram
<1>5. ASSUME At(e)' = At(e) PROVE Right(Datagram(e))'
  <2>1. PICK d : d = Datagram(e)
    OBVIOUS
  <2>2. Right(d)'
    BY <1>1, <2>1, RightLater
  <2> QED
    BY <1>4, <1>5, <2>1, <2>2
\* The static buffer of e now has the result for pos.
<1>6. ASSUME NEW c, c = At(e)', Made(c, pos), c.of = pos, path # "client",
             cfg.obfs \/ (InHs(batch[e.of].kind) /\ InHs(k))
      PROVE  Right(Datagram(e))'
  <2>1. Made(c, c.of)'
    BY <1>1, <1>6, MadeLater
  <2>2. Shares(e.of, c.of)'
    BY <1>1, <1>6 DEF Shares, InHs
  <2> QED
    BY <1>1, <1>2, <1>4, <1>6, <2>1, <2>2 DEF Right
<1>7. CASE e.ref = "recv"
  <2>1. At(e) = buf[e.of] /\ At(e)' = buf'[e.of]
    BY <1>7, AtPlace
  <2>2. e.of \in 1 .. Len(batch) /\ e.of # pos
    BY <1>1, <1>2
  <2>3. buf'[e.of] = buf[e.of]
    BY <2>2, TransformsTypes
  <2> QED
    BY <1>5, <2>1, <2>3
<1>8. CASE e.ref = "hs"
  <2>1. At(e) = hs /\ At(e)' = hs' /\ InHs(batch[e.of].kind) /\ ~Wraps(batch[e.of].kind)
    BY <1>8, AtPlace DEF Place
  <2>2. CASE InHs(k)
    <3>1. path # "client" /\ k # "data"
      BY <2>2 DEF InHs, Handshake
    <3>2. ~cfg.obfs /\ ~Wraps(k)
      BY <2>1, <3>1 DEF Wraps
    <3>3. hs' = t /\ over = 0 /\ over \in IF Wraps(k) THEN Outer ELSE {0}
      BY <1>1, <2>2, <3>1, <3>2 DEF Transforms, Write
    <3>4. over + Padding(k) + Current.n \in 1 .. BufSize + Headroom
      BY <3>1 DEF Transforms
    <3>5. PICK c : c = Wrapped(Transformed(pos, h), over)
      OBVIOUS
    <3>6. c.of = pos /\ Made(c, pos) /\ c = t
      BY <1>1, <3>2, <3>3, <3>4, <3>5, MadeHere
    <3> QED
      BY <1>6, <2>1, <2>2, <3>1, <3>3, <3>6
  <2>3. CASE ~InHs(k)
    <3>1. hs' = hs
      BY <1>1, <2>3 DEF Transforms, Write
    <3> QED
      BY <1>5, <2>1, <3>1
  <2> QED
    BY <2>2, <2>3
<1>9. CASE e.ref = "obfs"
  <2>1. At(e) = ob /\ At(e)' = ob' /\ Wraps(batch[e.of].kind)
    BY <1>9, AtPlace DEF Place
  <2>2. CASE wrap
    <3>1. /\ Wraps(k) /\ over \in Outer /\ over \in Nat /\ ob' = Wrapped(t, over)
          /\ over + Padding(k) + Current.n \in 1 .. BufSize + Headroom
      BY <2>2 DEF Transforms, Write
    <3>2. path # "client" /\ cfg.obfs
      BY <3>1 DEF Wraps
    <3>3. PICK c : c = Wrapped(Transformed(pos, h), over)
      OBVIOUS
    <3>4. c.of = pos /\ Made(c, pos)
      BY <1>1, <3>1, <3>3, MadeHere
    <3> QED
      BY <1>6, <2>1, <3>1, <3>2, <3>3, <3>4
  <2>3. CASE ~wrap
    <3>1. ob' = ob
      BY <1>1, <2>3 DEF Transforms, Write
    <3> QED
      BY <1>5, <2>1, <3>1
  <2> QED
    BY <2>2, <2>3
<1> QED
  BY <1>7, <1>8, <1>9 DEF Entry

\* The reference to the result of pos.
LEMMA EntryBegins ==
    ASSUME Types, NEW h, NEW wrap \in BOOLEAN, NEW over, Transforms(h, wrap, over),
           wrap = Wraps(Current.kind), over \in IF wrap THEN Outer ELSE {0},
           over \in Nat, over + Padding(Current.kind) + Current.n \in 1 .. BufSize + Headroom,
           NEW e, e = RefTo(pos, wrap, over)
    PROVE  /\ e \in Entry /\ e.of = pos
           /\ Right(Datagram(e))' /\ e.ref = Place(batch[e.of].kind)'
<1> DEFINE k == Current.kind
<1>1. /\ pos \in 1 .. Len(batch) /\ Len(batch) \in Nat /\ Current = batch[pos] /\ h \in Headers(k)
      /\ pos' = pos + 1 /\ UNCHANGED <<path, cfg, batch>> /\ k \in Kind /\ batch[pos].to \in Dest
      /\ Write(pos, h, wrap, over)
  BY CurrentFacts, PacketFacts DEF Transforms
<1>2. e = [ref |-> IF wrap THEN "obfs" ELSE IF InHs(k) THEN "hs" ELSE "recv",
           of |-> pos, len |-> over + Padding(k) + Current.n, to |-> batch[pos].to]
  BY <1>1 DEF RefTo
<1>3. e \in Entry /\ e.of = pos /\ e.to = batch[pos].to
  BY <1>1, <1>2 DEF Entry
<1>4. e.ref = Place(batch[e.of].kind)'
  <2>1. PICK l : l = batch[pos].kind
    OBVIOUS
  <2>2. Place(l)' = Place(l)
    BY <1>1 DEF Place, Wraps, InHs
  <2>3. e.ref = Place(l)
    BY <1>1, <1>2, <2>1 DEF Place
  <2> QED
    BY <1>1, <1>3, <2>1, <2>2, <2>3
<1>5. PICK c : c = Wrapped(Transformed(pos, h), over)
  OBVIOUS
<1>6. c.of = pos /\ Made(c, pos) /\ (~wrap => c = Transformed(pos, h))
  BY <1>1, <1>5, MadeHere
<1>7. At(e)' = c
  <2>1. CASE wrap
    BY <1>1, <1>2, <1>3, <1>5, <2>1, AtPlace DEF Write
  <2>2. CASE ~wrap /\ InHs(k)
    <3>1. hs' = c /\ e.ref = "hs"
      BY <1>1, <1>2, <1>6, <2>2 DEF Write
    <3> QED
      BY <1>3, <3>1, AtPlace
  <2>3. CASE ~wrap /\ ~InHs(k)
    <3>1. buf' = [buf EXCEPT ![pos] = c] /\ e.ref = "recv"
      BY <1>1, <1>2, <1>6, <2>3 DEF Write
    <3>2. buf'[pos] = c
      BY <1>1, <3>1 DEF Types
    <3> QED
      BY <1>3, <3>1, <3>2, AtPlace
  <2> QED
    BY <2>1, <2>2, <2>3
<1>8. Datagram(e)' = [of |-> pos, c |-> c, to |-> batch[pos].to]
  BY <1>3, <1>7 DEF Datagram
<1>9. Made(c, c.of)'
  BY <1>1, <1>6, MadeLater
<1>10. Right(Datagram(e))'
  BY <1>1, <1>6, <1>8, <1>9 DEF Right
<1> QED
  BY <1>3, <1>4, <1>10

\* What was sent stays in order.
LEMMA WireStays ==
    ASSUME WireRight, Types, pos' \in Nat, pos <= pos', UNCHANGED <<path, cfg, batch, wire>>
    PROVE  WireRight'
<1> SUFFICES ASSUME NEW k \in 1 .. Len(wire), wire[k].of # Junk PROVE Right(wire[k])'
  BY DEF WireRight
<1>1. PICK d : d = wire[k]
  OBVIOUS
<1>2. Right(d) /\ pos \in Nat
  BY <1>1, LenProperties DEF WireRight, Types
<1>3. Right(d)'
  BY <1>2, RightLater
<1> QED
  BY <1>1, <1>3

\* What packets are unwanted does not change while the loop goes on.
LEMMA UnwantedStays ==
    ASSUME UNCHANGED <<path, cfg, batch>>, NEW i
    PROVE  Unwanted(i)' <=> Unwanted(i)
  BY DEF Unwanted, Fits, Padding, MaxPlain

\* The three parts of Once, each to be shown of what is queued and sent next.
LEMMA OnceHolds ==
    ASSUME path' = path,
           \A j, k \in 1 .. Len(queue') : j < k => queue'[j].of < queue'[k].of,
           \A j, k \in 1 .. Len(wire') : j < k /\ wire'[j].of # Junk /\ wire'[k].of # Junk
                                          => Before(wire'[j].of, wire'[k].of),
           \A j \in 1 .. Len(wire'), k \in 1 .. Len(queue') :
               wire'[j].of # Junk => Before(wire'[j].of, queue'[k].of)
    PROVE  Once'
  BY DEF Once, Before

\* The loop queues the result of a packet.
LEMMA AppendStep ==
    ASSUME IInv, NEW h, NEW wrap \in BOOLEAN, NEW over, Transforms(h, wrap, over),
           wrap = Wraps(Current.kind), over \in IF wrap THEN Outer ELSE {0},
           over \in Nat, over + Padding(Current.kind) + Current.n \in 1 .. BufSize + Headroom,
           queue' = Append(queue, RefTo(pos, wrap, over)),
           path = "client" /\ Current.kind # "data" => queue = <<>>,
           UNCHANGED <<wire, lost>>
    PROVE  IInv'
<1> USE DEF IInv
<1>1. /\ pos \in 1 .. Len(batch) /\ Len(batch) \in Nat /\ Len(queue) \in Nat /\ Len(wire) \in Nat
      /\ pos' = pos + 1 /\ UNCHANGED <<path, cfg, batch>> /\ queue \in Seq(Entry)
  BY CurrentFacts, LenProperties DEF Types, Transforms
<1>2. PICK e : e = RefTo(pos, wrap, over)
  OBVIOUS
<1>3. /\ e \in Entry /\ e.of = pos
      /\ Right(Datagram(e))' /\ e.ref = Place(batch[e.of].kind)'
  BY <1>2, EntryBegins
<1>4. /\ queue' \in Seq(Entry) /\ Len(queue') = Len(queue) + 1
      /\ \A k \in 1 .. Len(queue) : queue'[k] = queue[k] /\ queue[k] \in Entry
      /\ queue'[Len(queue) + 1] = e
  BY <1>1, <1>2, <1>3, AppendProperties
<1>5. Types'
  <2>1. /\ path' \in Paths /\ cfg' \in Configs /\ Validate(cfg)' /\ lost' \in BOOLEAN
        /\ wire' \in Seq(Sent) /\ batch' \in Seq(Packets(path, cfg)')
    BY <1>1 DEF Types, Validate, Packets
  <2>2. pos' \in 1 .. Len(batch') + 1 /\ queue' \in Seq(Entry)
    BY <1>1, <1>4
  <2>3. buf' \in [1 .. Len(batch') -> Result] /\ hs' \in Result /\ ob' \in Result
    BY <1>1, TransformsTypes
  <2> QED
    BY <2>1, <2>2, <2>3 DEF Types
<1>6. Fresh'
  BY <1>1 DEF Fresh, Types
<1>7. \A k \in 1 .. Len(queue) : queue[k].of \in 1 .. pos - 1
  BY DEF Queued, Right, Datagram
<1>8. Queued'
  <2> SUFFICES ASSUME NEW k \in 1 .. Len(queue) + 1
               PROVE  Right(Datagram(queue[k]))' /\ (queue[k].ref = Place(batch[queue[k].of].kind))'
    BY <1>4 DEF Queued
  <2>1. CASE k = Len(queue) + 1
    BY <1>3, <1>4, <2>1 DEF Datagram, At
  <2>2. CASE k \in 1 .. Len(queue)
    <3>1. PICK q : q = queue[k]
      OBVIOUS
    <3>2. /\ q \in Entry /\ queue'[k] = q
          /\ Right(Datagram(q)) /\ q.ref = Place(batch[q.of].kind)
      BY <1>4, <2>2, <3>1 DEF Queued
    <3>3. path = "client" => Current.kind = "data"
      BY <1>1, <2>2, EmptySeq
    <3>4. Right(Datagram(q))' /\ q.ref = Place(batch[q.of].kind)'
      BY <3>2, <3>3, EntryStays
    <3> QED
      BY <3>2, <3>4 DEF Datagram, At
  <2> QED
    BY <1>1, <2>1, <2>2
<1>9. WireRight'
  BY <1>1, WireStays
<1>10. Once'
  <2>1. \A j, k \in 1 .. Len(queue') : j < k => queue'[j].of < queue'[k].of
    <3> SUFFICES ASSUME NEW j \in 1 .. Len(queue) + 1, NEW k \in 1 .. Len(queue) + 1, j < k
                 PROVE  queue'[j].of < queue'[k].of
      BY <1>4
    <3>1. j \in 1 .. Len(queue) /\ queue'[j] = queue[j] /\ queue[j].of \in 1 .. pos - 1
      BY <1>1, <1>4, <1>7
    <3>2. CASE k = Len(queue) + 1
      <4>1. queue'[k].of = pos
        BY <1>3, <1>4, <3>2
      <4> QED
        BY <1>1, <3>1, <4>1
    <3>3. CASE k \in 1 .. Len(queue)
      BY <1>4, <3>1, <3>3 DEF Once
    <3> QED
      BY <1>1, <3>2, <3>3
  <2>2. \A j \in 1 .. Len(wire) : wire[j].of # Junk => Before(wire[j].of, pos)
    BY <1>1 DEF WireRight, Right, Before
  <2>3. \A j \in 1 .. Len(wire), k \in 1 .. Len(queue') :
            wire[j].of # Junk => Before(wire[j].of, queue'[k].of)
    BY <1>1, <1>3, <1>4, <2>2 DEF Once
  <2>4. \A j, k \in 1 .. Len(wire') : j < k /\ wire'[j].of # Junk /\ wire'[k].of # Junk
                                       => Before(wire'[j].of, wire'[k].of)
    BY DEF Once
  <2> QED
    BY <1>1, <2>1, <2>3, <2>4, OnceHolds
<1>11. Accounted'
  <2> SUFFICES ASSUME ~lost, NEW i \in 1 .. pos
               PROVE  \/ Unwanted(i)' \/ \E k \in 1 .. Len(wire) : wire[k].of = i
                      \/ \E k \in 1 .. Len(queue) + 1 : queue'[k].of = i
    <3> HIDE DEF IInv
    <3> QED
      BY <1>1, <1>4 DEF Accounted
  <2>1. CASE i = pos
    BY <1>1, <1>3, <1>4, <2>1
  <2>2. CASE i \in 1 .. pos - 1
    BY <1>1, <1>4, <2>2, UnwantedStays DEF Accounted
  <2>3. i = pos \/ i \in 1 .. pos - 1
    BY <1>1
  <2> QED
    BY <2>1, <2>2, <2>3
<1> QED
  BY <1>5, <1>6, <1>8, <1>9, <1>10, <1>11

\* What is sent goes behind what was sent before.
LEMMA WireGrows ==
    ASSUME Types, WireRight, Once, UNCHANGED <<path, cfg, batch>>, pos' \in Nat, pos <= pos',
           NEW T \in Seq(Sent), wire' = wire \o T,
           \A k \in 1 .. Len(T) : T[k].of # Junk => Right(T[k])',
           \A k \in 1 .. Len(T) : T[k].of # Junk =>
               \A j \in 1 .. Len(wire) : wire[j].of # Junk => Before(wire[j].of, T[k].of),
           \A j, k \in 1 .. Len(T) :
               j < k /\ T[j].of # Junk /\ T[k].of # Junk => Before(T[j].of, T[k].of)
    PROVE  /\ wire' \in Seq(Sent) /\ WireRight'
           /\ Len(wire) \in Nat /\ Len(T) \in Nat /\ Len(wire') = Len(wire) + Len(T)
           /\ \A k \in 1 .. Len(wire) : wire'[k] = wire[k]
           /\ \A k \in 1 .. Len(T) : wire'[Len(wire) + k] = T[k]
           /\ \A k \in 1 .. Len(wire') :
                  \/ k \in 1 .. Len(wire)
                  \/ k - Len(wire) \in 1 .. Len(T) /\ wire'[k] = T[k - Len(wire)]
           /\ \A j, k \in 1 .. Len(wire') :
                  j < k /\ wire'[j].of # Junk /\ wire'[k].of # Junk => Before(wire'[j].of, wire'[k].of)
<1>1. /\ Len(wire) \in Nat /\ Len(T) \in Nat /\ wire' \in Seq(Sent) /\ Len(wire') = Len(wire) + Len(T)
      /\ \A k \in 1 .. Len(wire) + Len(T) : wire'[k] = IF k <= Len(wire) THEN wire[k] ELSE T[k - Len(wire)]
  BY ConcatProperties, LenProperties DEF Types
<1>2. /\ \A k \in 1 .. Len(wire) : wire'[k] = wire[k]
      /\ \A k \in 1 .. Len(T) : wire'[Len(wire) + k] = T[k]
      /\ \A k \in 1 .. Len(wire') :
             \/ k \in 1 .. Len(wire)
             \/ k - Len(wire) \in 1 .. Len(T) /\ wire'[k] = T[k - Len(wire)]
  BY <1>1
<1>3. WireRight'
  <2> SUFFICES ASSUME NEW k \in 1 .. Len(wire'), wire'[k].of # Junk PROVE Right(wire[k])'
    BY DEF WireRight
  <2>1. CASE k \in 1 .. Len(wire)
    <3>1. PICK d : d = wire[k]
      OBVIOUS
    <3>2. Right(d) /\ pos \in Nat /\ wire'[k] = d
      BY <1>2, <2>1, <3>1, LenProperties DEF WireRight, Types
    <3>3. Right(d)'
      BY <3>2, RightLater
    <3> QED
      BY <3>2, <3>3
  <2>2. CASE k - Len(wire) \in 1 .. Len(T) /\ wire'[k] = T[k - Len(wire)]
    <3>1. PICK d : d = T[k - Len(wire)]
      OBVIOUS
    <3>2. Right(d)' /\ wire'[k] = d
      BY <2>2, <3>1
    <3> QED
      BY <3>2
  <2> QED
    BY <1>2, <2>1, <2>2
<1>4. ASSUME NEW j \in 1 .. Len(wire'), NEW k \in 1 .. Len(wire'), j < k,
             wire'[j].of # Junk, wire'[k].of # Junk
      PROVE  Before(wire'[j].of, wire'[k].of)
  <2>1. CASE k \in 1 .. Len(wire)
    <3>1. j \in 1 .. Len(wire)
      BY <1>1, <1>4, <2>1
    <3> QED
      BY <1>2, <1>4, <2>1, <3>1 DEF Once
  <2>2. CASE k - Len(wire) \in 1 .. Len(T) /\ wire'[k] = T[k - Len(wire)] /\ j \in 1 .. Len(wire)
    BY <1>2, <1>4, <2>2
  <2>3. CASE /\ k - Len(wire) \in 1 .. Len(T) /\ wire'[k] = T[k - Len(wire)]
             /\ j - Len(wire) \in 1 .. Len(T) /\ wire'[j] = T[j - Len(wire)]
    <3>1. j - Len(wire) < k - Len(wire)
      BY <1>1, <1>4
    <3> QED
      BY <1>4, <2>3, <3>1
  <2> QED
    BY <1>2, <2>1, <2>2, <2>3
<1> QED
  BY <1>1, <1>2, <1>3, <1>4

\* The result of a packet is queued, or nobody wants it, or it is sent with T, at once.
LEMMA PassStep ==
    ASSUME IInv, More, pos' = pos + 1, UNCHANGED <<path, cfg, batch, queue>>, lost' \in BOOLEAN,
           buf' \in [1 .. Len(batch) -> Result], hs' \in Result, ob' \in Result,
           \A k \in 1 .. Len(queue) :
               Right(Datagram(queue[k]))' /\ (queue[k].ref = Place(batch[queue[k].of].kind))',
           NEW T \in Seq(Sent), wire' = wire \o T, ~lost' => ~lost,
           \A k \in 1 .. Len(T) : T[k].of # Junk =>
               T[k].of = pos /\ Right(T[k])' /\ (path = "client" => queue = <<>>),
           \A j, k \in 1 .. Len(T) : j < k => T[j].of = Junk,
           ~lost' => Unwanted(pos) \/ \E k \in 1 .. Len(T) : T[k].of = pos
    PROVE  IInv'
<1> USE DEF IInv
<1>1. /\ pos \in 1 .. Len(batch) /\ Len(batch) \in Nat /\ Len(queue) \in Nat
  BY CurrentFacts, LenProperties DEF Types
<1>2. \A k \in 1 .. Len(T) : T[k].of # Junk =>
          \A j \in 1 .. Len(wire) : wire[j].of # Junk => Before(wire[j].of, T[k].of)
  <2>1. \A j \in 1 .. Len(wire) : wire[j].of # Junk => wire[j].of \in 1 .. pos - 1
    BY DEF WireRight, Right
  <2> SUFFICES ASSUME NEW k \in 1 .. Len(T), T[k].of # Junk,
                      NEW j \in 1 .. Len(wire), wire[j].of # Junk
               PROVE  Before(wire[j].of, T[k].of)
    OBVIOUS
  <2>2. T[k].of = pos
    OBVIOUS
  <2>3. wire[j].of \in 1 .. pos - 1
    BY <2>1
  <2> HIDE DEF IInv
  <2> QED
    BY <1>1, <2>2, <2>3 DEF Before
<1>3. /\ wire' \in Seq(Sent) /\ WireRight'
      /\ Len(wire) \in Nat /\ Len(T) \in Nat /\ Len(wire') = Len(wire) + Len(T)
      /\ \A k \in 1 .. Len(wire) : wire'[k] = wire[k]
      /\ \A k \in 1 .. Len(T) : wire'[Len(wire) + k] = T[k]
      /\ \A k \in 1 .. Len(wire') :
             \/ k \in 1 .. Len(wire)
             \/ k - Len(wire) \in 1 .. Len(T) /\ wire'[k] = T[k - Len(wire)]
      /\ \A j, k \in 1 .. Len(wire') :
             j < k /\ wire'[j].of # Junk /\ wire'[k].of # Junk => Before(wire'[j].of, wire'[k].of)
  <2>1. pos' \in Nat /\ pos <= pos' /\ Types /\ WireRight /\ Once
    BY <1>1
  <2>2. \A j, k \in 1 .. Len(T) :
            j < k /\ T[j].of # Junk /\ T[k].of # Junk => Before(T[j].of, T[k].of)
    OBVIOUS
  <2> HIDE DEF IInv
  <2> QED
    BY <1>2, <2>1, <2>2, WireGrows
<1>4. Types'
  <2>1. /\ path' \in Paths /\ cfg' \in Configs /\ Validate(cfg)'
        /\ queue' \in Seq(Entry) /\ batch' \in Seq(Packets(path, cfg)')
    BY DEF Types, Validate, Packets
  <2>2. pos' \in 1 .. Len(batch') + 1
    BY <1>1
  <2> QED
    BY <1>3, <2>1, <2>2 DEF Types
<1>5. Fresh'
  BY <1>1 DEF Fresh, Types
<1>6. Queued'
  BY DEF Queued
<1>7. Once'
  <2>1. \A k \in 1 .. Len(queue) : queue[k].of \in 1 .. pos - 1
    BY DEF Queued, Right, Datagram
  <2>2. ASSUME NEW j \in 1 .. Len(wire'), NEW k \in 1 .. Len(queue), wire'[j].of # Junk
        PROVE  Before(wire'[j].of, queue[k].of)
    <3>1. CASE j \in 1 .. Len(wire)
      BY <1>3, <2>2, <3>1 DEF Once
    <3>2. CASE j - Len(wire) \in 1 .. Len(T) /\ wire'[j] = T[j - Len(wire)]
      <4>1. wire'[j].of = pos /\ (path = "client" => queue = <<>>)
        BY <2>2, <3>2
      <4>2. path # "client"
        BY <1>1, <4>1, EmptySeq
      <4> QED
        BY <1>1, <2>1, <4>1, <4>2 DEF Before
    <3> QED
      BY <1>3, <3>1, <3>2
  <2>3. \A j, k \in 1 .. Len(queue) : j < k => queue[j].of < queue[k].of
    BY DEF Once
  <2>4. queue' = queue /\ path' = path
    OBVIOUS
  <2> QED
    BY <1>3, <2>2, <2>3, <2>4, OnceHolds
<1>8. Accounted'
  <2> DEFINE Has(i) == \/ Unwanted(i)
                       \/ \E k \in 1 .. Len(wire') : wire'[k].of = i
                       \/ \E k \in 1 .. Len(queue) : queue[k].of = i
  <2> SUFFICES ASSUME ~lost', NEW i \in 1 .. pos PROVE Has(i)
    <3>1. pos' - 1 = pos
      BY <1>1
    <3>2. \A i : Unwanted(i)' <=> Unwanted(i)
      BY UnwantedStays
    <3> QED
      BY <3>1, <3>2 DEF Accounted
  <2>1. CASE i = pos
    <3>1. CASE Unwanted(pos)
      BY <2>1, <3>1
    <3>2. CASE \E k \in 1 .. Len(T) : T[k].of = pos
      <4>1. PICK k \in 1 .. Len(T) : T[k].of = pos
        BY <3>2
      <4>2. Len(wire) + k \in 1 .. Len(wire') /\ wire'[Len(wire) + k].of = pos
        BY <1>3, <4>1
      <4> QED
        BY <2>1, <4>2
    <3> QED
      BY <3>1, <3>2
  <2>2. CASE i \in 1 .. pos - 1
    <3>1. \/ Unwanted(i)
          \/ \E k \in 1 .. Len(wire) : wire[k].of = i
          \/ \E k \in 1 .. Len(queue) : queue[k].of = i
      BY <2>2 DEF Accounted
    <3>2. \A k \in 1 .. Len(wire) : k \in 1 .. Len(wire') /\ wire'[k] = wire[k]
      BY <1>3
    <3> QED
      BY <3>1, <3>2
  <2>3. i = pos \/ i \in 1 .. pos - 1
    BY <1>1
  <2> QED
    BY <2>1, <2>2, <2>3
<1> QED
  BY <1>3, <1>4, <1>5, <1>6, <1>7, <1>8

-----------------------------------------------------------------------------
(* The steps of the loops *)

LEMMA ClientDataStep ==
    ASSUME IInv, ClientData
    PROVE  IInv'
<1>1. PICK h \in Headers("data") : Write(pos, h, FALSE, 0)
  BY DEF ClientData
<1>2. /\ Types /\ path = "client" /\ More /\ Current.kind = "data" /\ Current = batch[pos]
      /\ pos \in 1 .. Len(batch) /\ UNCHANGED <<path, cfg, batch, wire, lost>> /\ pos' = pos + 1
      /\ queue' = Append(queue, RefTo(pos, FALSE, 0))
  BY CurrentFacts DEF IInv, ClientData
<1>3. Wraps(Current.kind) = FALSE /\ Wraps(batch[pos].kind) = FALSE
  BY <1>2 DEF Wraps
<1>4. 0 \in Nat /\ 0 + Padding(Current.kind) + Current.n \in 1 .. BufSize + Headroom
  <2>1. 0 \in IF Wraps(batch[pos].kind) THEN Outer ELSE {0}
    BY <1>3
  <2> QED
    BY <1>2, <2>1, LengthFits
<1>5. Transforms(h, FALSE, 0)
  BY <1>1, <1>2 DEF Transforms
<1> QED
  BY <1>2, <1>3, <1>4, <1>5, AppendStep

LEMMA QueueSlowStep ==
    ASSUME IInv, QueueSlow
    PROVE  IInv'
<1>1. PICK h \in Headers(Current.kind), over \in Overheads :
          Write(pos, h, cfg.obfs, over) /\ queue' = Append(queue, RefTo(pos, cfg.obfs, over))
  BY DEF QueueSlow
<1>2. /\ Types /\ More /\ Current.kind # "data" /\ Current = batch[pos]
      /\ pos \in 1 .. Len(batch) /\ UNCHANGED <<path, cfg, batch, wire, lost>> /\ pos' = pos + 1
      /\ path = "client" => queue = <<>>
  BY CurrentFacts DEF IInv, QueueSlow, Slow, NeedsFlush
<1>3. /\ cfg.obfs \in BOOLEAN /\ cfg.obfs = Wraps(Current.kind)
      /\ over \in IF cfg.obfs THEN Outer ELSE {0}
  BY <1>2, ConfigFacts DEF Wraps, Overheads
<1>4. over \in Nat /\ over + Padding(Current.kind) + Current.n \in 1 .. BufSize + Headroom
  <2>1. over \in IF Wraps(batch[pos].kind) THEN Outer ELSE {0}
    BY <1>2, <1>3
  <2> QED
    BY <1>2, <2>1, LengthFits
<1>5. Transforms(h, cfg.obfs, over)
  BY <1>1, <1>2, <1>3, <1>4 DEF Transforms
<1> QED
  BY <1>1, <1>2, <1>3, <1>4, <1>5, AppendStep

\* Nothing is sent or queued for a packet that is dropped.
LEMMA DropStep ==
    ASSUME IInv, More, pos' = pos + 1, UNCHANGED <<path, cfg, batch, queue, wire, lost>>,
           buf' \in [1 .. Len(batch) -> Result], hs' \in Result, ob' \in Result,
           \A k \in 1 .. Len(queue) :
               Right(Datagram(queue[k]))' /\ (queue[k].ref = Place(batch[queue[k].of].kind))',
           Unwanted(pos)
    PROVE  IInv'
<1>1. <<>> \in Seq(Sent) /\ Len(<<>>) = 0 /\ wire' = wire \o <<>> /\ lost' \in BOOLEAN
  BY EmptySeq, ConcatEmptySeq DEF IInv, Types
<1>2. PICK T : T = <<>>
  OBVIOUS
<1>3. T \in Seq(Sent) /\ wire' = wire \o T /\ \A k \in 1 .. Len(T) : FALSE
  BY <1>1, <1>2
<1> QED
  BY <1>1, <1>3, PassStep

LEMMA GatewayDataStep ==
    ASSUME IInv, GatewayData
    PROVE  IInv'
<1> DEFINE fits == Fits(Padding("data") + Current.n)
           wrap == cfg.obfs /\ fits
<1>1. PICK h \in Headers("data"), over \in Overheads :
          /\ Write(pos, h, wrap, over)
          /\ queue' = IF fits THEN Append(queue, RefTo(pos, wrap, over)) ELSE queue
  BY DEF GatewayData
<1>2. /\ Types /\ path # "client" /\ More /\ Current.kind = "data" /\ Current = batch[pos]
      /\ pos \in 1 .. Len(batch) /\ UNCHANGED <<path, cfg, batch, wire, lost>> /\ pos' = pos + 1
      /\ cfg.obfs \in BOOLEAN
  BY CurrentFacts, ConfigFacts DEF IInv, GatewayData
<1>3. CASE fits
  <2>1. /\ wrap = Wraps(Current.kind) /\ wrap \in BOOLEAN
        /\ over \in IF wrap THEN Outer ELSE {0}
    BY <1>2, <1>3 DEF Wraps, Overheads
  <2>2. over \in Nat /\ over + Padding(Current.kind) + Current.n \in 1 .. BufSize + Headroom
    <3>1. over \in IF Wraps(batch[pos].kind) THEN Outer ELSE {0}
      BY <1>2, <2>1
    <3>2. Fits(Padding("data") + batch[pos].n)
      BY <1>2, <1>3
    <3> QED
      BY <1>2, <3>1, <3>2, LengthFits
  <2>3. queue' = Append(queue, RefTo(pos, wrap, over))
    BY <1>1, <1>3
  <2>4. Write(pos, h, wrap, over) /\ h \in Headers(Current.kind)
    BY <1>1, <1>2
  <2> HIDE DEF wrap, fits
  <2>5. Transforms(h, wrap, over)
    BY <1>2, <2>1, <2>2, <2>4 DEF Transforms
  <2> QED
    BY <1>2, <2>1, <2>2, <2>3, <2>5, AppendStep
<1>4. CASE ~fits
  <2>1. Write(pos, h, FALSE, over) /\ queue' = queue
    <3>1. wrap = FALSE
      BY <1>4
    <3> QED
      BY <1>1, <1>4, <3>1
  <2>2. Transforms(h, FALSE, over)
    BY <1>2, <2>1 DEF Transforms
  <2>3. buf' \in [1 .. Len(batch) -> Result] /\ hs' \in Result /\ ob' \in Result
    BY <1>2, <2>2, TransformsTypes
  <2>4. Unwanted(pos)
    BY <1>2, <1>4 DEF Unwanted
  <2>5. ASSUME NEW k \in 1 .. Len(queue)
        PROVE  Right(Datagram(queue[k]))' /\ (queue[k].ref = Place(batch[queue[k].of].kind))'
    <3>1. PICK q : q = queue[k]
      OBVIOUS
    <3>2. q \in Entry /\ queue'[k] = q /\ Right(Datagram(q)) /\ q.ref = Place(batch[q.of].kind)
      BY <2>1, <3>1, ElementOfSeq DEF IInv, Types, Queued
    <3>3. Right(Datagram(q))' /\ q.ref = Place(batch[q.of].kind)'
      BY <1>2, <2>2, <3>2, EntryStays
    <3> QED
      BY <3>2, <3>3 DEF Datagram, At
  <2> QED
    BY <1>2, <2>1, <2>3, <2>4, <2>5, DropStep
<1> QED
  BY <1>3, <1>4

LEMMA ServerDropStep ==
    ASSUME IInv, ServerDrop
    PROVE  IInv'
<1>1. /\ Types /\ More /\ pos \in 1 .. Len(batch) /\ Len(batch) \in Nat /\ pos' = pos + 1
      /\ UNCHANGED <<path, cfg, batch, buf, hs, ob, queue, wire, lost>>
  BY CurrentFacts DEF IInv, ServerDrop
<1>2. Unwanted(pos)
  BY DEF ServerDrop, Unwanted, Current
<1>3. ASSUME NEW k \in 1 .. Len(queue)
      PROVE  Right(Datagram(queue[k]))' /\ (queue[k].ref = Place(batch[queue[k].of].kind))'
  <2>1. PICK d, q : d = Datagram(queue[k]) /\ q = queue[k]
    OBVIOUS
  <2>2. Right(d) /\ Datagram(queue[k])' = d /\ pos \in Nat
    <3>1. q \in Entry /\ queue'[k] = q /\ Right(d) /\ pos \in Nat
      BY <1>1, <2>1, ElementOfSeq DEF IInv, Types, Queued
    <3>2. At(q)' = At(q)
      BY <1>1, <3>1, AtPlace DEF Entry
    <3> QED
      BY <2>1, <3>1, <3>2 DEF Datagram, At
  <2>3. Right(d)'
    BY <1>1, <2>2, RightLater
  <2>4. (queue[k].ref = Place(batch[queue[k].of].kind))'
    BY <1>1 DEF IInv, Queued, Place, Wraps, InHs
  <2> QED
    BY <2>2, <2>3, <2>4
<1> QED
  BY <1>1, <1>2, <1>3, DropStep DEF Types

\* The junk in front of an init.
LEMMA JunkFacts ==
    ASSUME Types, NEW to \in Dest
    PROVE  /\ JunkDatagrams(to) \in Seq(Sent)
           /\ \A k \in 1 .. Len(JunkDatagrams(to)) : JunkDatagrams(to)[k].of = Junk
<1> DEFINE d == [of |-> Junk, c |-> Contents(Junk, 0, 0, 0), to |-> to]
<1>1. d \in Sent /\ d.of = Junk
  BY DEF Sent, Contents, Result, Junk
<1>2. cfg.jc \in Nat
  BY ConfigFacts
<1>3. JunkDatagrams(to) = [i \in 1 .. cfg.jc |-> d]
  BY DEF JunkDatagrams
<1> HIDE DEF d
<1> QED
  BY <1>1, <1>2, <1>3

LEMMA SendInitStep ==
    ASSUME IInv, SendInit
    PROVE  IInv'
<1>1. PICK h \in Headers("init"), over \in Overheads, sent \in BOOLEAN :
          /\ Write(pos, h, cfg.obfs, over)
          /\ wire' = wire \o JunkDatagrams(Current.to)
                     \o IF sent
                        THEN <<[of |-> pos, to |-> Current.to,
                                c |-> Wrapped(Transformed(pos, h), over)]>>
                        ELSE <<>>
          /\ lost' = (lost \/ ~sent)
  BY DEF SendInit
<1>2. /\ Types /\ More /\ Current.kind = "init" /\ Current = batch[pos] /\ Len(batch) \in Nat
      /\ pos \in 1 .. Len(batch) /\ UNCHANGED <<path, cfg, batch, queue>> /\ pos' = pos + 1
      /\ path = "client" => queue = <<>>
  BY CurrentFacts DEF IInv, SendInit, Slow, NeedsFlush, WithJunk
<1>3. /\ cfg.obfs \in BOOLEAN /\ cfg.obfs = Wraps(Current.kind)
      /\ over \in IF cfg.obfs THEN Outer ELSE {0}
  BY <1>2, ConfigFacts DEF Wraps, Overheads
<1>4. over \in Nat /\ over + Padding(Current.kind) + Current.n \in 1 .. BufSize + Headroom
  <2>1. over \in IF Wraps(batch[pos].kind) THEN Outer ELSE {0}
    BY <1>2, <1>3
  <2> QED
    BY <1>2, <2>1, LengthFits
<1>5. h \in Headers(Current.kind) /\ Transforms(h, cfg.obfs, over)
  BY <1>1, <1>2, <1>3, <1>4 DEF Transforms
<1>6. buf' \in [1 .. Len(batch) -> Result] /\ hs' \in Result /\ ob' \in Result
  BY <1>2, <1>3, <1>5, TransformsTypes
<1>7. ASSUME NEW k \in 1 .. Len(queue)
      PROVE  Right(Datagram(queue[k]))' /\ (queue[k].ref = Place(batch[queue[k].of].kind))'
  <2>1. PICK q : q = queue[k]
    OBVIOUS
  <2>2. q \in Entry /\ queue'[k] = q /\ Right(Datagram(q)) /\ q.ref = Place(batch[q.of].kind)
    BY <1>2, <2>1, ElementOfSeq DEF IInv, Types, Queued
  <2>3. path # "client"
    BY <1>2, EmptySeq
  <2>4. Right(Datagram(q))' /\ q.ref = Place(batch[q.of].kind)'
    BY <1>2, <1>3, <1>5, <2>2, <2>3, EntryStays
  <2> QED
    BY <2>2, <2>4 DEF Datagram, At
<1>8. PICK c : c = Wrapped(Transformed(pos, h), over)
  OBVIOUS
<1>9. c \in Result /\ c.of = pos /\ Made(c, pos) /\ batch[pos].to \in Dest
  BY <1>2, <1>3, <1>4, <1>5, <1>8, MadeHere, PacketFacts
<1>10. PICK d : d = [of |-> pos, to |-> Current.to, c |-> c]
  OBVIOUS
<1>11. d \in Sent /\ d.of = pos /\ d.of # Junk
  BY <1>2, <1>9, <1>10 DEF Sent, Junk
<1>12. Right(d)'
  <2>1. Made(c, c.of)'
    BY <1>2, <1>9, MadeLater
  <2> QED
    BY <1>2, <1>9, <1>10, <2>1 DEF Right
<1>13. PICK J : J = JunkDatagrams(Current.to)
  OBVIOUS
<1>14. J \in Seq(Sent) /\ Len(J) \in Nat /\ \A k \in 1 .. Len(J) : J[k].of = Junk
  <2>1. Current.to \in Dest
    BY <1>2, <1>9
  <2> QED
    BY <1>2, <1>13, <2>1, JunkFacts, LenProperties
<1>15. wire \in Seq(Sent) /\ lost \in BOOLEAN
  BY <1>2 DEF Types
<1>16. CASE sent
  <2>1. PICK T : T = J \o <<d>>
    OBVIOUS
  <2>2. /\ T \in Seq(Sent) /\ Len(T) = Len(J) + 1
        /\ \A k \in 1 .. Len(J) : T[k] = J[k]
        /\ T[Len(J) + 1] = d
    BY <1>11, <1>14, <2>1
  <2>3. wire' = wire \o T
    BY <1>1, <1>8, <1>10, <1>11, <1>13, <1>14, <1>15, <1>16, <2>1, ConcatAssociative
  <2>4. \A k \in 1 .. Len(T) : T[k].of # Junk =>
            T[k].of = pos /\ Right(T[k])' /\ (path = "client" => queue = <<>>)
    <3> SUFFICES ASSUME NEW k \in 1 .. Len(T), T[k].of # Junk
                 PROVE  T[k].of = pos /\ Right(T[k])' /\ (path = "client" => queue = <<>>)
      OBVIOUS
    <3>1. T[k] = d
      BY <1>14, <2>2
    <3> QED
      BY <1>2, <1>11, <1>12, <3>1
  <2>5. \A j, k \in 1 .. Len(T) : j < k => T[j].of = Junk
    BY <1>14, <2>2
  <2>6. Len(J) + 1 \in 1 .. Len(T) /\ T[Len(J) + 1].of = pos
    BY <1>11, <1>14, <2>2
  <2>7. lost' = lost
    BY <1>1, <1>15, <1>16
  <2> QED
    BY <1>2, <1>6, <1>7, <1>15, <2>2, <2>3, <2>4, <2>5, <2>6, <2>7, PassStep
<1>17. CASE ~sent
  <2>1. wire' = wire \o J
    BY <1>1, <1>13, <1>14, <1>15, <1>17, ConcatEmptySeq, ConcatAssociative, EmptySeq
  <2>2. lost' = TRUE
    BY <1>1, <1>17
  <2> QED
    BY <1>2, <1>6, <1>7, <1>14, <2>1, <2>2, PassStep
<1> QED
  BY <1>16, <1>17

\* A queued packet as it is sent.
LEMMA QueuedSent ==
    ASSUME IInv, NEW k \in 1 .. Len(queue)
    PROVE  /\ queue[k] \in Entry /\ Datagram(queue[k]) \in Sent /\ Right(Datagram(queue[k]))
           /\ Datagram(queue[k]).of = queue[k].of /\ queue[k].of \in 1 .. pos - 1
<1>1. PICK q : q = queue[k]
  OBVIOUS
<1>2. q \in Entry /\ Right(Datagram(q)) /\ Types
  BY <1>1, ElementOfSeq DEF IInv, Types, Queued
<1>3. Datagram(q) = [of |-> q.of, c |-> At(q), to |-> q.to]
  BY DEF Datagram
<1>4. q.of \in 1 .. pos - 1 /\ pos \in 1 .. Len(batch) + 1 /\ Len(batch) \in Nat
  BY <1>2, <1>3, LenProperties DEF Right, Types
<1>5. At(q) \in Result
  <2>1. buf \in [1 .. Len(batch) -> Result] /\ hs \in Result /\ ob \in Result
    BY <1>2 DEF Types
  <2>2. q.of \in 1 .. Len(batch) /\ q.ref \in {"recv", "hs", "obfs"}
    BY <1>2, <1>4 DEF Entry
  <2> QED
    BY <1>2, <2>1, <2>2, AtPlace
<1>6. Datagram(q) \in Sent
  BY <1>2, <1>3, <1>5 DEF Sent, Entry
<1> QED
  BY <1>1, <1>2, <1>3, <1>4, <1>6

\* What a flush sends is the queue, or the queue up to the packet whose send failed.
LEMMA SentStep ==
    ASSUME IInv, queue # <<>>, queue' = <<>>, UNCHANGED <<path, cfg, batch, pos, buf, hs, ob>>,
           NEW last \in 0 .. Len(queue), NEW T \in Seq(Sent), Len(T) = last,
           \A k \in 1 .. last : T[k] = Datagram(queue[k]),
           wire' = wire \o T, lost' = (lost \/ last < Len(queue))
    PROVE  IInv'
<1>1. /\ Types /\ Len(queue) \in Nat \ {0} /\ pos \in 1 .. Len(batch) + 1 /\ Len(batch) \in Nat
      /\ pos \in Nat /\ lost \in BOOLEAN /\ last \in Nat /\ last <= Len(queue)
  <2>1. Types /\ Len(queue) \in Nat \ {0} /\ Len(batch) \in Nat /\ pos \in 1 .. Len(batch) + 1
    BY EmptySeq, LenProperties DEF IInv, Types
  <2> QED
    BY <2>1 DEF Types
<1>2. ASSUME NEW k \in 1 .. last
      PROVE  /\ k \in 1 .. Len(queue) /\ T[k] = Datagram(queue[k]) /\ T[k].of = queue[k].of
             /\ Right(T[k]) /\ Right(T[k])' /\ T[k].of # Junk
  <2>1. k \in 1 .. Len(queue) /\ T[k] = Datagram(queue[k])
    BY <1>1
  <2>2. Right(T[k]) /\ T[k].of = queue[k].of /\ T[k].of \in 1 .. pos - 1
    BY <2>1, QueuedSent
  <2>3. PICK d : d = T[k]
    OBVIOUS
  <2>4. Right(d)'
    BY <1>1, <2>2, <2>3, RightLater
  <2> QED
    BY <1>1, <2>1, <2>2, <2>3, <2>4 DEF Junk
<1>3. \A k \in 1 .. Len(T) : T[k].of # Junk =>
          \A j \in 1 .. Len(wire) : wire[j].of # Junk => Before(wire[j].of, T[k].of)
  BY <1>2 DEF IInv, Once
<1>4. ASSUME NEW j \in 1 .. Len(T), NEW k \in 1 .. Len(T), j < k
      PROVE  Before(T[j].of, T[k].of)
  <2>1. queue[j].of < queue[k].of /\ queue[j].of \in 1 .. pos - 1 /\ queue[k].of \in 1 .. pos - 1
    BY <1>2, <1>4, QueuedSent DEF IInv, Once
  <2>2. T[j].of = queue[j].of /\ T[k].of = queue[k].of
    BY <1>2, <1>4
  <2> QED
    BY <1>1, <2>1, <2>2 DEF Before
<1>5. /\ wire' \in Seq(Sent) /\ WireRight'
      /\ Len(wire) \in Nat /\ Len(T) \in Nat /\ Len(wire') = Len(wire) + Len(T)
      /\ \A k \in 1 .. Len(wire) : wire'[k] = wire[k]
      /\ \A k \in 1 .. Len(T) : wire'[Len(wire) + k] = T[k]
      /\ \A j, k \in 1 .. Len(wire') :
             j < k /\ wire'[j].of # Junk /\ wire'[k].of # Junk => Before(wire'[j].of, wire'[k].of)
  <2>1. pos' \in Nat /\ pos <= pos' /\ Types /\ WireRight /\ Once /\ UNCHANGED <<path, cfg, batch>>
    BY <1>1 DEF IInv
  <2>2. \A k \in 1 .. Len(T) : T[k].of # Junk => Right(T[k])'
    BY <1>2
  <2>3. \A j, k \in 1 .. Len(T) :
            j < k /\ T[j].of # Junk /\ T[k].of # Junk => Before(T[j].of, T[k].of)
    BY <1>4
  <2> QED
    BY <1>3, <2>1, <2>2, <2>3, WireGrows
<1>6. Len(queue') = 0 /\ queue' \in Seq(Entry)
  BY EmptySeq
<1>7. Types'
  <2>1. /\ path' \in Paths /\ cfg' \in Configs /\ Validate(cfg)'
        /\ batch' \in Seq(Packets(path, cfg)') /\ lost' \in BOOLEAN
    BY <1>1 DEF Types, Validate, Packets
  <2> QED
    BY <1>1, <1>5, <1>6, <2>1 DEF Types
<1>8. Fresh'
  BY DEF IInv, Fresh
<1>9. Queued' /\ Once'
  BY <1>5, <1>6 DEF Queued, Once, Before
<1>10. Accounted'
  <2> SUFFICES ASSUME ~lost', NEW i \in 1 .. pos - 1
               PROVE  Unwanted(i) \/ \E k \in 1 .. Len(wire') : wire'[k].of = i
    <3>1. \A i : Unwanted(i)' <=> Unwanted(i)
      BY UnwantedStays
    <3> QED
      BY <3>1 DEF Accounted
  <2>1. ~lost /\ last = Len(queue)
    <3>1. ~lost /\ ~(last < Len(queue))
      BY Zenon
    <3> QED
      BY <1>1, <3>1
  <2>2. \/ Unwanted(i)
        \/ \E k \in 1 .. Len(wire) : wire[k].of = i
        \/ \E k \in 1 .. Len(queue) : queue[k].of = i
    BY <2>1 DEF IInv, Accounted
  <2>3. CASE \E k \in 1 .. Len(wire) : wire[k].of = i
    <3>1. PICK k \in 1 .. Len(wire) : wire[k].of = i
      BY <2>3
    <3>2. k \in 1 .. Len(wire') /\ wire'[k].of = i
      BY <1>5, <3>1
    <3> QED
      BY <3>2
  <2>4. CASE \E k \in 1 .. Len(queue) : queue[k].of = i
    <3>1. PICK k \in 1 .. Len(queue) : queue[k].of = i
      BY <2>4
    <3>2. k \in 1 .. Len(T) /\ T[k].of = i
      BY <1>2, <2>1, <3>1
    <3>3. Len(wire) + k \in 1 .. Len(wire') /\ wire'[Len(wire) + k].of = i
      BY <1>5, <3>2
    <3> QED
      BY <3>3
  <2> QED
    BY <2>2, <2>3, <2>4
<1> QED
  BY <1>5, <1>7, <1>8, <1>9, <1>10 DEF IInv

\* The packets of one segmented send arrive whole, whatever the kernel cuts.
LEMMA SegmentedWhole ==
    ASSUME IInv, queue # <<>>, NEW n, n = Segments(queue)
    PROVE  /\ n \in 1 .. Len(queue) /\ Segmented(SubSeq(queue, 1, n)) \in Seq(Sent)
           /\ Len(Segmented(SubSeq(queue, 1, n))) = n
           /\ \A k \in 1 .. n : Segmented(SubSeq(queue, 1, n))[k] = Datagram(queue[k])
<1>1. PICK q : q = SubSeq(queue, 1, n)
  OBVIOUS
<1>2. /\ queue \in Seq(Entry) /\ Len(queue) \in Nat \ {0}
      /\ \A k \in 1 .. Len(queue) : queue[k] \in Entry /\ queue[k].len \in Nat
  <2>1. queue \in Seq(Entry) /\ Len(queue) \in Nat \ {0}
    BY EmptySeq DEF IInv, Types
  <2>2. \A k \in 1 .. Len(queue) : queue[k] \in Entry
    BY <2>1, ElementOfSeq
  <2> QED
    BY <2>1, <2>2 DEF Entry
<1>3. n \in 1 .. Len(queue) /\ \A i \in 1 .. n : queue[i].len <= queue[1].len
  BY <1>2, SegmentsFit
<1>4. q \in Seq(Entry) /\ Len(q) = n /\ DOMAIN q = 1 .. n /\ \A k \in 1 .. n : q[k] = queue[k]
  <2>1. \A i \in 1 .. n : queue[i] \in Entry
    BY <1>2, <1>3
  <2>2. q \in Seq(Entry) /\ Len(q) = n /\ \A k \in 1 .. n - 1 + 1 : q[k] = queue[1 + k - 1]
    BY <1>1, <1>2, <1>3, <2>1, SubSeqProperties
  <2> QED
    BY <1>2, <1>3, <2>2, LenProperties
<1>5. Segmented(q) = [i \in 1 .. n |-> Datagram(queue[i])]
  <2>1. \A i \in 1 .. n : q[i].len <= q[1].len /\ Datagram(q[i]) = Datagram(queue[i])
    BY <1>2, <1>3, <1>4
  <2> QED
    BY <1>4, <2>1, Zenon DEF Segmented
<1>6. \A i \in 1 .. n : Datagram(queue[i]) \in Sent
  BY <1>2, <1>3, QueuedSent
<1> QED
  BY <1>1, <1>2, <1>3, <1>5, <1>6

\* sendmmsg from the n-th on, behind the n that a segmented send S carried.
LEMMA SendFromStep ==
    ASSUME IInv, queue # <<>>, queue' = <<>>, UNCHANGED <<path, cfg, batch, pos, buf, hs, ob>>,
           NEW n \in 0 .. Len(queue), NEW S \in Seq(Sent), Len(S) = n,
           \A k \in 1 .. n : S[k] = Datagram(queue[k]), SendFrom(n, S)
    PROVE  IInv'
<1>1. PICK last \in n .. Len(queue) :
          /\ wire' = wire \o S \o [i \in 1 .. last - n |-> Datagram(queue[n + i])]
          /\ lost' = (lost \/ last < Len(queue))
  BY DEF SendFrom
<1>2. /\ Len(queue) \in Nat /\ wire \in Seq(Sent) /\ n \in Nat /\ last \in 0 .. Len(queue)
      /\ last - n \in Nat
  <2>1. Len(queue) \in Nat /\ wire \in Seq(Sent)
    BY LenProperties DEF IInv, Types
  <2> QED
    BY <2>1
<1>3. PICK F : F = [i \in 1 .. last - n |-> Datagram(queue[n + i])]
  OBVIOUS
<1>4. \A i \in 1 .. last - n : Datagram(queue[n + i]) \in Sent
  <2>1. \A i \in 1 .. last - n : n + i \in 1 .. Len(queue)
    BY <1>2
  <2> QED
    BY <2>1, QueuedSent
<1>5. F \in Seq(Sent) /\ Len(F) = last - n
  BY <1>2, <1>3, <1>4
<1>6. PICK T : T = S \o F
  OBVIOUS
<1>7. T \in Seq(Sent) /\ Len(T) = last /\ wire' = wire \o T
  <2>1. wire' = wire \o T
    <3>1. wire' = (wire \o S) \o F
      BY <1>1, <1>3
    <3>2. wire \in Seq(Sent) /\ S \in Seq(Sent) /\ F \in Seq(Sent)
      BY <1>2, <1>5
    <3>3. (wire \o S) \o F = wire \o (S \o F)
      BY <3>2, ConcatAssociative, SMTT(30)
    <3> QED
      BY <1>6, <3>1, <3>3
  <2>2. T \in Seq(Sent) /\ Len(T) = n + (last - n)
    BY <1>5, <1>6, ConcatProperties
  <2> QED
    BY <1>2, <2>1, <2>2
<1>8. ASSUME NEW k \in 1 .. last PROVE T[k] = Datagram(queue[k])
  <2>1. T[k] = IF k <= n THEN S[k] ELSE F[k - n]
    BY <1>2, <1>5, <1>6, ConcatProperties
  <2>2. CASE k <= n
    BY <1>2, <2>1, <2>2
  <2>3. CASE ~(k <= n)
    <3>1. k - n \in 1 .. last - n /\ n + (k - n) = k
      BY <1>2, <2>3
    <3> QED
      BY <1>3, <2>1, <2>3, <3>1
  <2> QED
    BY <2>2, <2>3
<1> QED
  BY <1>1, <1>2, <1>7, <1>8, SentStep

LEMMA FlushStep ==
    ASSUME IInv, Flush
    PROVE  IInv'
<1>1. /\ queue # <<>> /\ queue' = <<>> /\ UNCHANGED <<path, cfg, batch, pos, buf, hs, ob>>
      /\ Len(queue) \in Nat /\ <<>> \in Seq(Sent) /\ Len(<<>>) = 0
  BY EmptySeq, LenProperties DEF Flush, IInv, Types
<1>2. \/ SendFrom(Skipped(Segments(queue)), Segmented(SubSeq(queue, 1, Segments(queue))))
      \/ SendFrom(0, <<>>)
  BY DEF Flush
<1>3. CASE SendFrom(Skipped(Segments(queue)), Segmented(SubSeq(queue, 1, Segments(queue))))
  <2>1. PICK n : n = Segments(queue)
    OBVIOUS
  <2>2. PICK S : S = Segmented(SubSeq(queue, 1, n))
    OBVIOUS
  <2>3. /\ n \in 1 .. Len(queue) /\ S \in Seq(Sent) /\ Len(S) = n
        /\ \A k \in 1 .. n : S[k] = Datagram(queue[k])
    BY <1>1, <2>1, <2>2, SegmentedWhole
  <2>4. n \in 0 .. Len(queue) /\ SendFrom(n, S)
    BY <1>1, <1>3, <2>1, <2>2, <2>3 DEF Skipped
  <2> QED
    BY <1>1, <2>3, <2>4, SendFromStep
<1>4. CASE SendFrom(0, <<>>)
  <2>1. PICK S, n : S = <<>> /\ n = 0
    OBVIOUS
  <2>2. n \in 0 .. Len(queue) /\ S \in Seq(Sent) /\ Len(S) = n /\ SendFrom(n, S)
        /\ \A k \in 1 .. n : FALSE
    BY <1>1, <1>4, <2>1
  <2> QED
    BY <1>1, <2>2, SendFromStep
<1> QED
  BY <1>2, <1>3, <1>4

LEMMA ReceiveStep ==
    ASSUME IInv, Receive
    PROVE  IInv'
<1>0. PICK b \in UNION {[1 .. n -> Packets(path, cfg)] : n \in 1 .. MaxBatch} :
          /\ batch' = b
          /\ buf' = [i \in DOMAIN b |-> Contents(i, b[i].n, WgType[b[i].kind], 0)]
          /\ \/ pos' = 1 /\ lost' = FALSE
             \/ path # "server" /\ pos' = Len(b) + 1 /\ lost' = TRUE
  BY Zenon DEF Receive
<1>1. PICK n \in 1 .. MaxBatch : b \in [1 .. n -> Packets(path, cfg)]
  OBVIOUS
<1>2. /\ pos = 1 /\ queue = <<>> /\ wire = <<>> /\ Types
      /\ UNCHANGED <<path, cfg, hs, ob, queue, wire>>
  BY DEF Receive, IInv, Fresh
<1>3. n \in Nat \ {0} /\ b \in Seq(Packets(path, cfg)) /\ Len(b) = n /\ DOMAIN b = 1 .. n /\ b # <<>>
  <2>1. n \in Nat \ {0}
    BY BatchAssumption
  <2>2. b \in Seq(Packets(path, cfg)) /\ Len(b) = n /\ DOMAIN b = 1 .. n
    BY <1>1, <2>1
  <2> QED
    BY <2>1, <2>2, EmptySeq
<1>4. \A i \in 1 .. n : Contents(i, b[i].n, WgType[b[i].kind], 0) \in Result
  <2>1. ASSUME NEW i \in 1 .. n PROVE i \in Int /\ b[i].n \in Nat /\ WgType[b[i].kind] \in Int
    <3>1. b[i] \in Packets(path, cfg) /\ i \in Int
      BY <1>3
    <3>2. b[i].kind \in Kind /\ b[i].n \in Nat
      BY <3>1, ReceivedFacts
    <3> QED
      BY <3>1, <3>2 DEF Kind, Handshake, WgType
  <2> QED
    BY <2>1 DEF Contents, Result
<1>5. buf' \in [1 .. n -> Result]
  BY <1>0, <1>1, <1>3, <1>4
<1>6. pos' \in 1 .. n + 1 /\ lost' \in BOOLEAN
  <2>1. 1 \in 1 .. n + 1 /\ n + 1 \in 1 .. n + 1
    BY <1>3
  <2>2. pos' = 1 \/ pos' = n + 1
    BY <1>0, <1>3
  <2>3. lost' \in BOOLEAN
    BY <1>0, Zenon
  <2> QED
    BY <2>1, <2>2, <2>3
<1>7. Types'
  <2>1. Packets(path, cfg)' = Packets(path, cfg) /\ Validate(cfg)'
    BY <1>2 DEF Types, Validate, Packets
  <2> QED
    BY <1>0, <1>2, <1>3, <1>5, <1>6, <2>1 DEF Types
<1>8. Fresh'
  BY <1>0, <1>3 DEF Fresh
<1>9. Len(queue') = 0 /\ Len(wire') = 0
  BY <1>2, EmptySeq
<1>10. Queued' /\ WireRight' /\ Once'
  BY <1>9 DEF Queued, WireRight, Once
<1>11. Accounted'
  BY <1>0 DEF Accounted
<1> QED
  BY <1>7, <1>8, <1>10, <1>11 DEF IInv

LEMMA NextRoundStep ==
    ASSUME IInv, NextRound
    PROVE  IInv'
<1>1. /\ batch' = <<>> /\ pos' = 1 /\ buf' = <<>> /\ hs' = Stale /\ ob' = Stale
      /\ wire' = <<>> /\ lost' = FALSE /\ queue' = <<>> /\ UNCHANGED <<path, cfg>> /\ Types
  BY DEF NextRound, IInv
<1>2. Stale \in Result
  BY DEF Stale, Contents, Earlier, Result
<1>3. /\ \A S : <<>> \in Seq(S) /\ Len(<<>>) = 0
      /\ <<>> \in [1 .. 0 -> Result]
  BY EmptySeq
<1>4. Types'
  <2>1. Validate(cfg)' /\ path' \in Paths /\ cfg' \in Configs
    BY <1>1 DEF Types, Validate
  <2>2. Len(batch') = 0 /\ batch' \in Seq(Packets(path, cfg)') /\ buf' \in [1 .. 0 -> Result]
    BY <1>1, <1>3
  <2>3. queue' \in Seq(Entry) /\ wire' \in Seq(Sent) /\ 1 \in 1 .. 0 + 1
    BY <1>1, <1>3
  <2>4. pos' \in 1 .. Len(batch') + 1 /\ buf' \in [1 .. Len(batch') -> Result]
    BY <1>1, <2>2, <2>3
  <2> QED
    BY <1>1, <1>2, <2>1, <2>2, <2>3, <2>4 DEF Types
<1>5. Fresh' /\ Queued' /\ WireRight' /\ Once' /\ Accounted'
  BY <1>1, <1>3 DEF Fresh, Queued, WireRight, Once, Accounted
<1> QED
  BY <1>4, <1>5 DEF IInv

LEMMA InitIInv ==
    ASSUME Init
    PROVE  IInv
<1>1. Stale \in Result
  BY DEF Stale, Contents, Earlier, Result
<1>2. /\ \A S : <<>> \in Seq(S) /\ Len(<<>>) = 0
      /\ <<>> \in [1 .. 0 -> Result]
  BY EmptySeq
<1>3. Types
  <2>1. Len(batch) = 0 /\ batch \in Seq(Packets(path, cfg)) /\ buf \in [1 .. 0 -> Result]
    BY <1>2 DEF Init
  <2>2. queue \in Seq(Entry) /\ wire \in Seq(Sent) /\ 1 \in 1 .. 0 + 1
    BY <1>2 DEF Init
  <2>3. pos \in 1 .. Len(batch) + 1 /\ buf \in [1 .. Len(batch) -> Result]
    BY <2>1, <2>2 DEF Init
  <2> QED
    BY <1>1, <2>1, <2>2, <2>3 DEF Init, Types
<1>4. Fresh /\ Queued /\ WireRight /\ Once /\ Accounted
  BY <1>2 DEF Init, Fresh, Queued, WireRight, Once, Accounted
<1> QED
  BY <1>3, <1>4 DEF IInv

LEMMA StutterIInv ==
    ASSUME IInv, UNCHANGED vars
    PROVE  IInv'
<1>1. Types' /\ Fresh'
  BY DEF IInv, vars, Types, Fresh, Validate, Packets
<1>2. Once'
  BY DEF IInv, vars, Once, Before
<1>3. Accounted'
  BY UnwantedStays DEF IInv, vars, Accounted
<1>4. WireRight'
  <2>1. pos \in Nat
    BY LenProperties DEF IInv, Types
  <2> QED
    BY <2>1, WireStays DEF IInv, vars
<1>5. Queued'
  <2> SUFFICES ASSUME NEW k \in 1 .. Len(queue)
               PROVE  Right(Datagram(queue[k]))' /\ (queue[k].ref = Place(batch[queue[k].of].kind))'
    BY DEF Queued, vars
  <2>1. PICK d, q : d = Datagram(queue[k]) /\ q = queue[k]
    OBVIOUS
  <2>2. q \in Entry /\ queue'[k] = q /\ Right(d) /\ pos \in Nat /\ pos' = pos
        /\ UNCHANGED <<path, cfg, batch>>
    BY <2>1, ElementOfSeq, LenProperties DEF IInv, Types, Queued, vars
  <2>3. At(q)' = At(q)
    BY <2>2, AtPlace DEF Entry, vars
  <2>4. Datagram(queue[k])' = d
    BY <2>1, <2>2, <2>3 DEF Datagram, At
  <2>5. Right(d)'
    BY <2>2, RightLater
  <2>6. (queue[k].ref = Place(batch[queue[k].of].kind))'
    BY DEF IInv, Queued, Place, Wraps, InHs, vars
  <2> QED
    BY <2>4, <2>5, <2>6
<1> QED
  BY <1>1, <1>2, <1>3, <1>4, <1>5 DEF IInv

\* The invariant is inductive.
LEMMA PacketPathInvariant == Spec => []IInv
<1>1. IInv /\ [Next]_vars => IInv'
  <2> SUFFICES ASSUME IInv, Next \/ UNCHANGED vars PROVE IInv'
    OBVIOUS
  <2> QED
    BY ReceiveStep, NextRoundStep, ClientDataStep, GatewayDataStep, ServerDropStep,
       QueueSlowStep, SendInitStep, FlushStep, StutterIInv DEF Next
<1> QED
  BY <1>1, InitIInv, PTL DEF Spec

-----------------------------------------------------------------------------
(* What is sent *)

\* A datagram that is not junk.
LEMMA MineFacts ==
    ASSUME IInv, NEW i \in Mine
    PROVE  /\ i \in 1 .. Len(wire) /\ wire[i].of # Junk /\ Right(wire[i])
           /\ wire[i].of \in 1 .. Len(batch) /\ wire[i].c.of \in 1 .. Len(batch)
           /\ wire[i].c \in Result
<1>1. i \in 1 .. Len(wire) /\ wire[i].of # Junk /\ wire[i] \in Sent
  BY LenProperties, ElementOfSeq DEF Mine, IInv, Types
<1>2. Right(wire[i])
  BY <1>1 DEF IInv, WireRight
<1>3. Len(batch) \in Nat /\ pos \in 1 .. Len(batch) + 1
  BY LenProperties DEF IInv, Types
<1> QED
  BY <1>1, <1>2, <1>3 DEF Right, Sent

\* Every packet that is wanted leaves once, in client mode in the order of the
\* batch, whatever is flushed early or segmented; none is left behind unless a
\* send failed.
THEOREM PacketPathEachOnce == Spec => []EachOnce
<1>1. IInv => EachOnce
  <2> SUFFICES ASSUME IInv PROVE OnceInOrder /\ NoneForgotten
    BY DEF EachOnce
  <2>1. OnceInOrder
    BY MineFacts DEF OnceInOrder, IInv, Once, Before
  <2>2. NoneForgotten
    <3> SUFFICES ASSUME ~More, queue = <<>>, ~lost, NEW i \in DOMAIN batch
                 PROVE  Unwanted(i) \/ \E j \in Mine : wire[j].of = i
      BY DEF NoneForgotten
    <3>1. /\ i \in 1 .. pos - 1 /\ i # Junk /\ Len(queue) = 0
          /\ DOMAIN wire = 1 .. Len(wire)
      <4>1. /\ Len(batch) \in Nat /\ DOMAIN batch = 1 .. Len(batch)
            /\ pos \in 1 .. Len(batch) + 1 /\ Len(queue) = 0
            /\ DOMAIN wire = 1 .. Len(wire)
        BY LenProperties, EmptySeq DEF IInv, Types
      <4> QED
        BY <4>1 DEF More, Junk
    <3>2. Unwanted(i) \/ \E k \in 1 .. Len(wire) : wire[k].of = i
      BY <3>1 DEF IInv, Accounted
    <3> QED
      BY <3>1, <3>2 DEF Mine
  <2> QED
    BY <2>1, <2>2
<1> QED
  BY <1>1, PacketPathInvariant, PTL

\* A datagram carries the packet it was made from, whole, in a length the other
\* side can receive, to that packet's destination; the exception is a packet of
\* the s2c loops that shares a static buffer with another of its batch.
THEOREM PacketPathOwnContent == Spec => []OwnContent
<1>1. IInv => OwnContent
  <2> SUFFICES ASSUME IInv, NEW i \in Mine
               PROVE  /\ wire[i].to = Packet(wire[i]).to
                      /\ LenOf(wire[i].c) <= BufSize + Headroom
                      /\ \/ wire[i].c.of = wire[i].of
                         \/ Sharing(wire[i].of) /\ wire[i].c.of # Torn
    BY DEF OwnContent
  <2>1. PICK d : d = wire[i]
    OBVIOUS
  <2>2. Right(d) /\ d.of \in 1 .. Len(batch) /\ d.c.of \in 1 .. Len(batch)
    BY <2>1, MineFacts
  <2>3. d.to = Packet(d).to /\ LenOf(d.c) <= BufSize + Headroom
    BY <2>2 DEF Right, Made, Packet
  <2>4. d.c.of # Torn /\ DOMAIN batch = 1 .. Len(batch)
    BY <2>2, LenProperties DEF Torn, IInv, Types
  <2>5. CASE d.c.of # d.of
    <3>1. Shares(d.of, d.c.of) /\ d.c.of \in DOMAIN batch \ {d.of}
      BY <2>2, <2>4, <2>5 DEF Right
    <3> QED
      BY <2>1, <2>3, <2>4, <3>1 DEF Shares, Sharing
  <2> QED
    BY <2>1, <2>3, <2>5
<1> QED
  BY <1>1, PacketPathInvariant, PTL

-----------------------------------------------------------------------------
(* What the other proxy makes of it *)

Known == Handshake \cup {"data"}

\* The plain result for a packet of kind k and of n bytes, of which those beyond
\* the size of a handshake are a tail the preset left.
IsPlain(p, k, n) ==
    /\ k \in Known /\ p \in Result /\ n \in Nat /\ p.n = n /\ p.pad = cfg.s[k]
    /\ p.h \in cfg.h[k] /\ p.out = 0
    /\ k = "data" => n >= TransportMin

\* It has the size its kind is told by.
Whole(k, n) == k \in Handshake => n = HandshakeSize[k]

\* Whatever offset another kind is looked for at, its type words are not found.
LEMMA WordTellsKind ==
    ASSUME Types, NEW k \in Known, NEW l \in Known, NEW c \in Result, NEW off,
           c.h \in cfg.h[k], Word(c, off) \in cfg.h[l]
    PROVE  l = k
<1>1. cfg.h[l] \subseteq Nat /\ (k # l => cfg.h[k] \cap cfg.h[l] = {})
  BY ConfigFacts DEF Known
<1>2. Word(c, off) = c.h \/ Word(c, off) = -1
  BY DEF Word
<1>3. -1 \notin Nat
  OBVIOUS
<1> QED
  BY <1>1, <1>2, <1>3

\* The place of a kind among the tests of transform_inbound.
LEMMA OrderFacts ==
    /\ DOMAIN InboundOrder = 1 .. 4 /\ \A i \in 1 .. 4 : InboundOrder[i] \in Known
    /\ \A k \in Known : \E i \in 1 .. 4 : InboundOrder[i] = k
    /\ \A i, j \in 1 .. 4 : InboundOrder[i] = InboundOrder[j] => i = j
<1>1. /\ InboundOrder[1] = "init" /\ InboundOrder[2] = "resp" /\ InboundOrder[3] = "cookie"
      /\ InboundOrder[4] = "data" /\ DOMAIN InboundOrder = 1 .. 4
  BY DEF InboundOrder
<1>2. \A i \in 1 .. 4 : i = 1 \/ i = 2 \/ i = 3 \/ i = 4
  OBVIOUS
<1> QED
  BY <1>1, <1>2 DEF Known, Handshake

\* Of the tests only that of its own kind succeeds, and that for whole packets.
LEMMA PlainMatches ==
    ASSUME Types, NEW p, NEW k, NEW n, IsPlain(p, k, n)
    PROVE  /\ LenOf(p) = cfg.s[k] + n /\ cfg.s[k] \in Nat /\ Word(p, cfg.s[k]) = p.h
           /\ \A l \in Known : Matches(p, l) <=> l = k /\ Whole(k, n)
<1>1. cfg.s[k] \in Nat
  <2>1. CASE k = "data"
    <3>1. cfg.s.data \in 0 .. Headroom /\ \A x \in 0 .. Headroom : x \in Nat
      BY ConfigFacts
    <3> QED
      BY <2>1, <3>1
  <2>2. CASE k \in Handshake
    BY <2>2, ConfigFacts
  <2> QED
    BY <2>1, <2>2 DEF IsPlain, Known
<1>2. LenOf(p) = cfg.s[k] + n /\ Word(p, cfg.s[k]) = p.h
  BY <1>1 DEF IsPlain, LenOf, Word
<1>3. Matches(p, k) <=> Whole(k, n)
  <2>1. Word(p, cfg.s[k]) \in cfg.h[k]
    BY <1>2 DEF IsPlain
  <2>2. CASE k = "data"
    BY <1>1, <1>2, <2>1, <2>2 DEF IsPlain, Matches, TransportMin, Whole, Handshake
  <2>3. CASE k \in Handshake
    <3>1. HandshakeSize[k] \in Nat /\ n \in Nat /\ k # "data"
      BY <2>3 DEF IsPlain, Handshake, HandshakeSize
    <3>2. LenOf(p) = Total(cfg, k) <=> n = HandshakeSize[k]
      BY <1>1, <1>2, <3>1 DEF Total
    <3> QED
      BY <2>1, <2>3, <3>1, <3>2 DEF Matches, Whole
  <2> QED
    BY <2>2, <2>3 DEF IsPlain, Known
<1>4. ASSUME NEW l \in Known, Matches(p, l) PROVE l = k
  <2>1. Word(p, cfg.s[l]) \in cfg.h[l]
    BY <1>4 DEF Matches
  <2> QED
    BY <2>1, WordTellsKind DEF IsPlain
<1> QED
  BY <1>1, <1>2, <1>3, <1>4

\* transform_inbound recovers it when it is whole, and drops it else.
LEMMA PlainInbound ==
    ASSUME Types, NEW p, NEW k, NEW n, IsPlain(p, k, n)
    PROVE  Inbound(p) = IF Whole(k, n) THEN <<k, n>> ELSE Dropped
<1>1. /\ LenOf(p) = cfg.s[k] + n /\ cfg.s[k] \in Nat /\ n \in Nat /\ k \in Known
      /\ \A l \in Known : Matches(p, l) <=> l = k /\ Whole(k, n)
  BY PlainMatches DEF IsPlain
<1>2. CASE NoOp(cfg) /\ Word(p, 0) = WgType.data /\ LenOf(p) >= TransportMin
  <2>1. Inbound(p) = <<"data", LenOf(p)>>
    BY <1>2 DEF Inbound
  <2>2. Word(p, 0) \in cfg.h["data"] /\ cfg.s["data"] = 0
    BY <1>2 DEF NoOp
  <2>3. k = "data" /\ Whole(k, n)
    BY <2>2, WordTellsKind DEF IsPlain, Known, Whole, Handshake
  <2> QED
    BY <1>1, <2>1, <2>2, <2>3
<1>3. CASE ~(NoOp(cfg) /\ Word(p, 0) = WgType.data /\ LenOf(p) >= TransportMin) /\ Whole(k, n)
  <2>1. PICK i \in 1 .. 4 : InboundOrder[i] = k
    BY <1>1, OrderFacts
  <2>2. ASSUME NEW j \in 1 .. 4 PROVE FirstMatch(p, j) <=> j = i
    <3>1. \A m \in 1 .. 4 : Matches(p, InboundOrder[m]) <=> m = i
      BY <1>1, <1>3, <2>1, OrderFacts
    <3>2. \A m \in 1 .. j - 1 : m \in 1 .. 4 /\ m # j
      OBVIOUS
    <3> QED
      BY <3>1, <3>2 DEF FirstMatch
  <2>3. (CHOOSE j \in 1 .. 4 : FirstMatch(p, j)) = i
    BY <2>2
  <2>4. ~(\A j \in DOMAIN InboundOrder : ~Matches(p, InboundOrder[j]))
    BY <1>1, <1>3, <2>1, OrderFacts
  <2>5. Inbound(p) = LET l == InboundOrder[CHOOSE j \in DOMAIN InboundOrder : FirstMatch(p, j)]
                     IN  <<l, LenOf(p) - cfg.s[l]>>
    BY <1>3, <2>4, Zenon DEF Inbound
  <2>6. Inbound(p) = <<k, LenOf(p) - cfg.s[k]>>
    BY <2>1, <2>3, <2>5, OrderFacts
  <2> QED
    BY <1>1, <1>3, <2>6
<1>4. CASE ~(NoOp(cfg) /\ Word(p, 0) = WgType.data /\ LenOf(p) >= TransportMin) /\ ~Whole(k, n)
  <2>1. \A i \in DOMAIN InboundOrder : ~Matches(p, InboundOrder[i])
    BY <1>1, <1>4, OrderFacts
  <2> QED
    BY <1>4, <2>1, Zenon DEF Inbound
<1> QED
  BY <1>2, <1>3, <1>4

\* Nothing comes of what obfs_unwrap rejects.
LEMMA RejectedDropped ==
    ASSUME Types
    PROVE  Inbound(Rejected) = Dropped
<1>1. LenOf(Rejected) = 0
  BY DEF Rejected, Stale, Contents, LenOf
<1>2. \A i \in 1 .. 4 : ~Matches(Rejected, InboundOrder[i])
  <2> SUFFICES ASSUME NEW l \in Known PROVE ~Matches(Rejected, l)
    BY OrderFacts
  <2>1. CASE l = "data"
    <3>1. cfg.s.data \in 0 .. Headroom /\ \A x \in 0 .. Headroom : x \in Nat
      BY ConfigFacts
    <3> QED
      BY <1>1, <2>1, <3>1 DEF Matches, TransportMin
  <2>2. CASE l \in Handshake
    <3>1. cfg.s[l] \in Nat /\ HandshakeSize[l] \in Nat \ {0} /\ l # "data"
      BY <2>2, ConfigFacts DEF Handshake, HandshakeSize
    <3>2. Total(cfg, l) # 0
      BY <3>1 DEF Total
    <3> QED
      BY <1>1, <3>1, <3>2 DEF Matches
  <2> QED
    BY <2>1, <2>2 DEF Known
<1>3. ~(NoOp(cfg) /\ Word(Rejected, 0) = WgType.data /\ LenOf(Rejected) >= TransportMin)
  BY <1>1 DEF TransportMin
<1> QED
  BY <1>2, <1>3, OrderFacts, Zenon DEF Inbound

\* Only transport packets take the fast path, those whose size is not one of a
\* handshake, and it recovers them.
LEMMA PlainFast ==
    ASSUME Types, NEW p, NEW k, NEW n, IsPlain(p, k, n)
    PROVE  /\ FastPath(p) <=> k = "data" /\ ~IsTotal(LenOf(p))
           /\ FastPath(p) => <<"data", LenOf(p) - cfg.s.data>> = <<k, n>>
<1>1. /\ LenOf(p) = cfg.s[k] + n /\ cfg.s[k] \in Nat /\ Word(p, cfg.s[k]) = p.h
      /\ k \in Known /\ n \in Nat /\ p \in Result /\ p.h \in cfg.h[k]
  BY PlainMatches DEF IsPlain
<1>2. FastPath(p) => k = "data"
  BY <1>1, WordTellsKind DEF FastPath, Known
<1>3. ASSUME k = "data"
      PROVE  /\ FastPath(p) <=> ~IsTotal(LenOf(p))
             /\ LenOf(p) - cfg.s.data = n
  <2>1. n >= TransportMin /\ LenOf(p) >= cfg.s.data + TransportMin /\ LenOf(p) - cfg.s.data = n
    BY <1>1, <1>3 DEF IsPlain, TransportMin
  <2>2. IsTotal(LenOf(p)) => Ambiguous(cfg)
    BY <2>1 DEF IsTotal, Ambiguous
  <2>3. Word(p, cfg.s.data) \in cfg.h.data
    BY <1>1, <1>3
  <2> QED
    BY <2>1, <2>2, <2>3 DEF FastPath
<1> QED
  BY <1>1, <1>2, <1>3

\* The other proxy recovers kind and length, but for the tail a preset leaves, and
\* except where the sizes collide.
LEMMA DecodeRight ==
    ASSUME Types, NEW i \in 1 .. Len(batch), NEW c \in Result, Made(c, i),
           batch[i].kind # "other", NEW tail \in Tails, NEW left,
           left = IF c.out = 0 THEN 0 ELSE tail
    PROVE  Decode(c, tail) =
               IF \/ path = "client" /\ cfg.obfs /\ batch[i].kind = "data" /\ IsTotal(LenOf(c))
                  \/ batch[i].kind \in Handshake /\ left > 0
               THEN Dropped ELSE <<batch[i].kind, batch[i].n + left>>
<1>1. PICK k, n : k = batch[i].kind /\ n = batch[i].n
  OBVIOUS
<1>2. /\ k \in Known /\ n \in Nat /\ (k \in Handshake => n = HandshakeSize[k])
      /\ k = "data" => n >= TransportMin
  BY <1>1, PacketFacts DEF Kind, Known
<1>3. /\ c.n = n /\ c.pad = cfg.s[k] /\ c.h \in cfg.h[k]
      /\ c.out \in IF Wraps(k) THEN Outer ELSE {0}
  BY <1>1 DEF Made, Headers, Padding
<1>4. tail \in Nat /\ left \in Nat
  BY TailsAssumption
<1>5. PICK p : p = [c EXCEPT !.out = 0, !.n = c.n + left]
  OBVIOUS
<1>6. IsPlain(p, k, n + left)
  <2>1. n + left \in Nat /\ (k = "data" => n + left >= TransportMin)
    BY <1>2, <1>4 DEF TransportMin
  <2> QED
    BY <1>2, <1>3, <1>5, <2>1 DEF IsPlain, Result
<1>7. c.out = 0 => p = c
  <2>1. c.out = 0 => c.n + left = c.n
    BY <1>2, <1>3
  <2> QED
    BY <1>5, <2>1 DEF Result
<1>8. Whole(k, n + left) <=> ~(k \in Handshake /\ left > 0)
  <2>1. CASE k \in Handshake
    BY <1>2, <1>4, <2>1 DEF Whole
  <2>2. CASE k \notin Handshake
    BY <2>2 DEF Whole
  <2> QED
    BY <2>1, <2>2
<1>9. /\ Inbound(p) = IF k \in Handshake /\ left > 0 THEN Dropped ELSE <<k, n + left>>
      /\ FastPath(p) <=> k = "data" /\ ~IsTotal(LenOf(p))
      /\ FastPath(p) => <<"data", LenOf(p) - cfg.s.data>> = <<k, n + left>>
  <2>1. Inbound(p) = IF Whole(k, n + left) THEN <<k, n + left>> ELSE Dropped
    BY <1>6, PlainInbound
  <2>2. Inbound(p) = IF k \in Handshake /\ left > 0 THEN Dropped ELSE <<k, n + left>>
    BY <1>8, <2>1
  <2> QED
    BY <1>6, <2>2, PlainFast
<1>10. cfg.obfs \in BOOLEAN /\ (Wraps(k) => c.out # 0 /\ cfg.obfs) /\ (~Wraps(k) => c.out = 0)
  BY <1>3, OuterAssumption, ConfigFacts DEF Wraps
<1>11. k = "data" => k \notin Handshake
  BY DEF Handshake
<1>12. CASE cfg.obfs <=> Wraps(k)
  <2>1. Unwrap(c, tail) = p
    BY <1>5, <1>7, <1>10, <1>12 DEF Unwrap
  <2>2. path = "client" /\ FastPath(c) => Wraps(k) = FALSE /\ c = p
    <3> SUFFICES ASSUME path = "client", FastPath(c) PROVE Wraps(k) = FALSE /\ c = p
      OBVIOUS
    <3>1. k = "data"
      BY <1>2, <1>3, WordTellsKind DEF FastPath, Known
    <3> QED
      BY <1>7, <1>10, <3>1 DEF Wraps
  <2>3. Decode(c, tail) = IF FastPath(p) THEN <<"data", LenOf(p) - cfg.s.data>> ELSE Inbound(p)
    BY <1>9, <1>11, <2>1, <2>2 DEF Decode
  <2>4. ~(path = "client" /\ cfg.obfs /\ k = "data")
    BY <1>12 DEF Wraps
  <2> QED
    BY <1>1, <1>9, <1>11, <2>3, <2>4
<1>13. CASE ~(cfg.obfs <=> Wraps(k))
  <2>1. path = "client" /\ cfg.obfs /\ k = "data" /\ c = p /\ c.out = 0 /\ left = 0
    BY <1>7, <1>10, <1>13 DEF Wraps
  <2>2. Unwrap(c, tail) = Rejected
    BY <2>1 DEF Unwrap
  <2>3. Decode(c, tail) = IF FastPath(c) THEN <<"data", LenOf(c) - cfg.s.data>> ELSE Dropped
    BY <2>1, <2>2, RejectedDropped DEF Decode
  <2> QED
    BY <1>1, <1>9, <1>11, <2>1, <2>3
<1> QED
  BY <1>12, <1>13

\* What the other proxy delivers is the packet this proxy received, by kind and by
\* length, for every configuration that is accepted, when the preset leaves nothing
\* on it; with a tail left (stun_ice, dns_like) a transport packet is longer by it
\* and a handshake is dropped.  The other exception is an unwrapped transport
\* packet of client mode whose size is that of a handshake.
THEOREM PacketPathRoundTrip == Spec => []RoundTrip
<1>1. IInv => RoundTrip
  <2> SUFFICES ASSUME IInv, NEW i \in Mine, NEW tail \in Tails, wire[i].c.of = wire[i].of,
                      Packet(wire[i]).kind # "other"
               PROVE  Decode(wire[i].c, tail) =
                          IF \/ Blackholed(wire[i])
                             \/ Packet(wire[i]).kind \in Handshake /\ Left(wire[i], tail) > 0
                          THEN Dropped
                          ELSE <<Packet(wire[i]).kind, Packet(wire[i]).n + Left(wire[i], tail)>>
    BY DEF RoundTrip
  <2>1. PICK d : d = wire[i]
    OBVIOUS
  <2>2. /\ Types /\ d.of \in 1 .. Len(batch) /\ d.c \in Result /\ Made(d.c, d.of)
        /\ Packet(d) = batch[d.of]
    BY <2>1, MineFacts DEF IInv, Right, Packet
  <2>3. PICK left : left = IF d.c.out = 0 THEN 0 ELSE tail
    OBVIOUS
  <2>4. Decode(d.c, tail) =
            IF \/ path = "client" /\ cfg.obfs /\ batch[d.of].kind = "data" /\ IsTotal(LenOf(d.c))
               \/ batch[d.of].kind \in Handshake /\ left > 0
            THEN Dropped ELSE <<batch[d.of].kind, batch[d.of].n + left>>
    BY <2>1, <2>2, <2>3, DecodeRight
  <2> QED
    BY <2>1, <2>2, <2>3, <2>4 DEF Blackholed, Left
<1> QED
  BY <1>1, PacketPathInvariant, PTL
=============================================================================
