--------------------------------- MODULE Cps ---------------------------------
(***************************************************************************)
(* The packet templates I1..I5 of the proxy: cps.c.  A template is written *)
(* as a sequence of segments; a segment is a kind and the number written   *)
(* with it: the length in bytes of a static one ("b"), the size of a       *)
(* random one ("r", "rc", "rd"), 0 for a timestamp ("t") and a counter     *)
(* ("c").  The bytes themselves are left out.  Text that is not a sequence *)
(* of segments is Unreadable.                                              *)
(***************************************************************************)
EXTENDS Integers, FiniteSets, SequencesExt

CONSTANTS
    MaxSegments,      \* CPS_MAX_SEGMENTS
    MaxStatic,        \* CPS_MAX_STATIC
    MaxPacket,        \* the 1500 of a generated packet
    SizeRange,        \* 2^16: how many values a segment's size field has
    Unreadable        \* text that the parser of its key refuses

ASSUME CpsAssumption == MaxPacket \in Nat /\ SizeRange \in Nat \ {0}

Random == {"r", "rc", "rd"}

Segments == [kind : Random \cup {"b", "t", "c"}, n : Nat]
Written == Seq(Segments)

\* What cps_parse() stores of a segment: the sizes are 16 bits wide.
Stored(seg) ==
    [seg EXCEPT !.n = IF seg.kind \in Random THEN @ % SizeRange ELSE @]

Parsed(written) == [i \in DOMAIN written |-> Stored(written[i])]

SegmentSize(seg) == IF seg.kind \in {"t", "c"} THEN 4 ELSE seg.n

\* The bytes of the first segments: where cps_generate() is after each.
Offsets(tmpl) ==
    LET off[i \in 0 .. Len(tmpl)] ==
            IF i = 0 THEN 0 ELSE off[i - 1] + SegmentSize(tmpl[i])
    IN  off

MaxSize(tmpl) == Offsets(tmpl)[Len(tmpl)]

\* The checks that each segment passes as it is read.
SegmentsFit(written) ==
    /\ Len(written) \in 1 .. MaxSegments
    /\ \A i \in DOMAIN written :
          written[i].kind \in Random \cup {"b"} => written[i].n > 0
    /\ MaxSize(SelectSeq(written, LAMBDA seg : seg.kind = "b")) <= MaxStatic

\* Fault of CpsAccepts: the length of the packet is not looked at.
CpsAcceptsLong(written) == written # Unreadable /\ SegmentsFit(written)

\* cps_parse() returns 0: the segments fit, and so does the packet.
CpsAccepts(written) ==
    /\ written # Unreadable
    /\ SegmentsFit(written)
    /\ MaxSize(Parsed(written)) <= MaxPacket

\* cps_generate(): the length of the packet, which ends before the first
\* segment that does not fit.
Generated(tmpl) ==
    LET off   == Offsets(tmpl)
        whole == {i \in 0 .. Len(tmpl) : \A j \in 1 .. i : off[j] <= MaxPacket}
    IN  off[CHOOSE i \in whole : \A j \in whole : j <= i]

\* cps_generate_all(): a packet for each template there is, numbered from the
\* counter in their order.
GenerateAll(tmpls, counter) ==
    LET given == {i \in DOMAIN tmpls : tmpls[i] # <<>>}
    IN  [i \in given |->
            [len |-> Generated(tmpls[i]),
             counter |-> counter + Cardinality({j \in given : j < i})]]

=============================================================================
