-------------------------- MODULE SessionTableProofs --------------------------
(***************************************************************************)
(* Proofs about SessionTable and its refinement in SessionLookup, for      *)
(* every table size, probe length and set of indices and addresses.        *)
(***************************************************************************)
EXTENDS SessionLookup, TLAPS

\* A probe stays in the table.
LEMMA ProbeInTable ==
    ASSUME NEW i \in AnyIndex, NEW k \in Nat
    PROVE  ProbeSlot(i, k) \in Slot
  BY SizeAssumption, IndexAssumption DEF ProbeSlot, Slot, AnyIndex

\* The reader inspects slots of the table.
LEMMA AtInTable ==
    ASSUME TypeOK
    PROVE  At \in Slot
<1>1. rd.k \in Slot /\ rd.k \in Nat /\ rd.index \in AnyIndex
  BY SizeAssumption DEF TypeOK, Reading, Slot
<1>2. ProbeSlot(rd.index, rd.k) \in Slot
  BY <1>1, ProbeInTable
<1>3. QED
  BY <1>1, <1>2 DEF At

\* The locals of a thread that is in no function of the table.
LEMMA RestingLocals == NoPut \in Putting /\ NoRead \in Reading
  BY SizeAssumption DEF NoPut, NoRead, Putting, Reading, AnyAddr, AnyIndex, Slot

\* A put that begins marks the read it overlaps.
LEMMA OverlapType ==
    ASSUME rd \in Reading, NEW n \in Nat, NEW b \in BOOLEAN,
           rd' = [rd EXCEPT !.quiet = FALSE, !.overlaps = n, !.raced = b]
    PROVE  rd' \in Reading
  BY DEF Reading

\* The slot a put chooses is in the probe of its index, every slot before it
\* in the probe is in use by another index, and if it does not fit then no
\* slot of the probe does.
LEMMA PutSlotInProbe ==
    ASSUME NEW i \in Index, NEW s, PutSlot(i, s)
    PROVE  \E k \in Tries : /\ s = ProbeSlot(i, k)
                            /\ \A j \in 0 .. k - 1 : ~Fits(i, ProbeSlot(i, j))
                            /\ Fits(i, s) \/ \A j \in Tries : ~Fits(i, ProbeSlot(i, j))
<1>1. CASE \E k \in Tries : /\ s = ProbeSlot(i, k)
                            /\ Fits(i, s)
                            /\ \A j \in 0 .. k - 1 : ~Fits(i, ProbeSlot(i, j))
  BY <1>1
<1>2. CASE /\ \A k \in Tries : ~Fits(i, ProbeSlot(i, k))
           /\ s = ProbeSlot(i, 0)
  <2>1. 0 \in Tries /\ 0 .. 0 - 1 = {}
    BY ProbeAssumption, SizeAssumption DEF Tries
  <2>2. QED
    BY <1>2, <2>1
<1>3. QED
  BY <1>1, <1>2 DEF PutSlot

-----------------------------------------------------------------------------
(* Type correctness *)

\* The scan of the reader keeps to the table.
LEMMA NextSlotType ==
    ASSUME TypeOK, NEW r, NextSlot(r), r.op = rd.op,
           r \in Reading
    PROVE  /\ rpc' \in ReaderStates
           /\ rd' \in Reading
<1>1. CASE r.k + 1 < ScanLength
  <2>1. r.k + 1 \in Slot
    BY <1>1, SizeAssumption, ProbeAssumption DEF ScanLength, Slot, Reading
  <2>2. QED
    BY <1>1, <2>1 DEF NextSlot, ReaderStates, Reading
<1>2. CASE ~(r.k + 1 < ScanLength)
  BY <1>2 DEF NextSlot, ReaderStates, TypeOK
<1>3. QED
  BY <1>1, <1>2

\* Every step of either thread preserves the types.
LEMMA TypeOKStep ==
    ASSUME TypeOK, [Next]_vars
    PROVE  TypeOK'
<1> USE SizeAssumption, ProbeAssumption, IndexAssumption, PutsAssumption
<1> USE DEF TypeOK
<1>1. ASSUME NEW i \in Index, NEW a \in Addr, PutBegin(i, a) PROVE TypeOK'
  <2>1. PICK s \in Slot :
           /\ put' = [slot |-> s, index |-> i, addr |-> a,
                      keep |-> valid[s] /\ sender_index[s] = i]
           /\ valid' = [valid EXCEPT ![s] = FALSE]
           /\ rd' = [rd EXCEPT !.quiet = FALSE,
                               !.overlaps = IF rpc = "idle" THEN 0 ELSE @ + 1,
                               !.raced = @ \/ (rpc \in {"ifindex", "store"} /\ rd.found = s)]
    BY <1>1 DEF PutBegin
  <2>2. put' \in Putting
    BY <2>1 DEF Putting, AnyIndex, AnyAddr
  <2>3. rd' \in Reading
    <3> DEFINE b == rd.raced \/ (rpc \in {"ifindex", "store"} /\ rd.found = s)
    <3> DEFINE n == IF rpc = "idle" THEN 0 ELSE rd.overlaps + 1
    <3>1. b \in BOOLEAN /\ n \in Nat
      BY DEF Reading
    <3>2. rd' = [rd EXCEPT !.quiet = FALSE, !.overlaps = n, !.raced = b]
      BY <2>1
    <3> HIDE DEF b, n
    <3>3. QED
      BY <3>1, <3>2, OverlapType
  <2>4. puts' \in 0 .. MaxPuts /\ wpc' \in WriterStates
    BY <1>1 DEF PutBegin, WriterStates
  <2>5. QED
    BY <1>1, <2>1, <2>2, <2>3, <2>4 DEF PutBegin
<1>2. ASSUME PutStep PROVE TypeOK'
  <2> USE DEF WriterStates, reader
  <2>1. CASE PutSeqOdd
    BY <2>1 DEF PutSeqOdd, Putting
  <2>2. CASE PutIndex
    BY <2>2 DEF PutIndex, Putting
  <2>3. CASE PutAddrLo
    BY <2>3 DEF PutAddrLo, Putting
  <2>4. CASE PutAddrHi
    BY <2>4 DEF PutAddrHi, Putting
  <2>5. CASE PutPeer
    BY <2>5 DEF PutPeer
  <2>6. CASE PutSeqEven
    BY <2>6 DEF PutSeqEven, Putting
  <2>7. CASE PutShow
    BY <2>7, RestingLocals DEF PutShow
  <2>8. QED
    BY <1>2, <2>1, <2>2, <2>3, <2>4, <2>5, <2>6, <2>7 DEF PutStep
<1>3. ASSUME NEW op \in {"lookup", "sole"}, NEW i \in Index, ReadBegin(op, i)
      PROVE  TypeOK'
  <2>1. rd' = [NoRead EXCEPT !.op = op, !.index = i, !.quiet = (wpc = "idle")]
    BY <1>3 DEF ReadBegin
  <2>2. rd' \in Reading
    BY <2>1, RestingLocals DEF Reading, AnyIndex
  <2>3. QED
    BY <1>3, <2>2 DEF ReadBegin, ReaderStates, table, writer
<1>4. ASSUME ReadStep PROVE TypeOK'
  <2> USE DEF table, writer
  <2>0. At \in Slot
    BY AtInTable
  <2>1. CASE ReadValid
    BY <2>1, NextSlotType DEF ReadValid, ReaderStates
  <2>2. CASE ReadIndex
    <3>1. CASE rd.op = "sole"
      <4>1. rd' = [rd EXCEPT !.index = sender_index[At]]
        BY <2>2, <3>1 DEF ReadIndex
      <4>2. rd' \in Reading
        BY <2>0, <4>1 DEF Reading
      <4>3. QED
        BY <2>2, <3>1, <4>2 DEF ReadIndex, ReaderStates
    <3>2. CASE rd.op = "lookup" /\ sender_index[At] = rd.index
      BY <2>2, <3>2 DEF ReadIndex, ReaderStates
    <3>3. CASE ~(rd.op = "sole") /\ ~(rd.op = "lookup" /\ sender_index[At] = rd.index)
      BY <2>2, <3>3, NextSlotType DEF ReadIndex
    <3>4. QED
      BY <3>1, <3>2, <3>3
  <2>3. CASE ReadSeq1
    BY <2>0, <2>3 DEF ReadSeq1, ReaderStates, Reading
  <2>4. CASE ReadLo
    BY <2>0, <2>4 DEF ReadLo, ReaderStates, Reading
  <2>5. CASE ReadHi
    BY <2>0, <2>5 DEF ReadHi, ReaderStates, Reading
  <2>6. CASE ReadSeq2
    BY <2>6 DEF ReadSeq2, ReaderStates
  <2>7. CASE ReadRevalid
    BY <2>7, NextSlotType DEF ReadRevalid, ReaderStates
  <2>8. CASE ReadReindex
    <3> DEFINE hit == [rd EXCEPT !.found = At, !.foundlo = rd.lo, !.foundhi = rd.hi]
    <3>1. hit \in Reading /\ hit.op = rd.op /\ [rd EXCEPT !.found = -1] \in Reading
      BY <2>0 DEF Reading
    <3> HIDE DEF hit
    <3>2. \/ NextSlot(rd)
          \/ NextSlot(hit)
          \/ rd' = hit /\ rpc' = "routed"
          \/ rd' = [rd EXCEPT !.found = -1] /\ rpc' = "dropped"
      BY <2>8 DEF ReadReindex, hit
    <3>3. rd' \in Reading /\ rpc' \in ReaderStates
      BY <3>1, <3>2, NextSlotType DEF ReaderStates
    <3>4. QED
      BY <2>8, <3>3 DEF ReadReindex
  <2>9. CASE ReadEnd
    BY <2>9, RestingLocals DEF ReadEnd, ReaderStates
  <2>10. CASE PeerIfValid
    BY <2>10, RestingLocals DEF PeerIfValid, ReaderStates
  <2>11. CASE PeerIfIndex
    BY <2>11, RestingLocals DEF PeerIfIndex, ReaderStates
  <2>12. CASE PeerStore
    <3>1. rd.index \in Index \cup {0, -1}
      BY DEF Reading, AnyIndex
    <3>2. stale' \subseteq Slot \cup {-1}
      <4>1. rd.found \in Slot \cup {-1}
        BY DEF Reading
      <4>2. QED
        BY <4>1, <2>12 DEF PeerStore
    <3>3. QED
      BY <2>12, <3>1, <3>2, RestingLocals DEF PeerStore, ReaderStates
  <2>13. QED
    BY <1>4, <2>1, <2>2, <2>3, <2>4, <2>5, <2>6, <2>7, <2>8, <2>9, <2>10, <2>11, <2>12
    DEF ReadStep
<1>5. ASSUME ResolvePeer PROVE TypeOK'
  BY <1>5 DEF ResolvePeer, ReaderStates, table, writer
<1>6. CASE UNCHANGED vars
  BY <1>6 DEF vars, table, writer, reader
<1>7. QED
  BY <1>1, <1>2, <1>3, <1>4, <1>5, <1>6 DEF Next

\* Every variable of the table and of its two threads has its type.
THEOREM SessionTableTypeOK == Spec => []TypeOK
<1>1. Init => TypeOK
  <2>1. 0 \in Nat /\ 0 \in 0 .. MaxPuts
    BY PutsAssumption
  <2>2. QED
    BY <2>1, SizeAssumption, RestingLocals
    DEF Init, TypeOK, AnyAddr, AnyIndex, WriterStates, ReaderStates
<1>2. TypeOK /\ [Next]_vars => TypeOK'
  BY TypeOKStep
<1>3. QED
  BY <1>1, <1>2, PTL DEF Spec

-----------------------------------------------------------------------------
(* One entry per index, reachable by its probe *)

\* What a put in progress has done to its slot.
WriterInv ==
    /\ wpc # "idle" => ~valid[put.slot] /\ put.index \in Index
    /\ wpc \in {"lo", "hi", "peer", "even", "show"} => sender_index[put.slot] = put.index

IndexInv == WriterInv /\ NoDuplicateIndex /\ EntryReachable

\* Steps that leave the writer, valid and sender_index alone keep IndexInv.
LEMMA IndexFrame ==
    ASSUME IndexInv, UNCHANGED <<valid, sender_index, wpc, put>>
    PROVE  IndexInv'
<1>1. \A s \in Slot, i \in Index : Holds(s, i)' <=> Holds(s, i)
  BY DEF Holds, Writing
<1>2. \A s : Occupied(s)' <=> Occupied(s)
  BY DEF Occupied, Writing
<1>3. EntryReachable'
  BY <1>1, <1>2 DEF IndexInv, EntryReachable
<1>4. QED
  BY <1>1, <1>3 DEF IndexInv, WriterInv, NoDuplicateIndex

\* The same for the steps of a put that change neither what a slot holds nor
\* whether it is in use.
LEMMA IndexStep ==
    ASSUME IndexInv, WriterInv',
           \A s \in Slot, i \in Index : Holds(s, i)' => Holds(s, i),
           \A s \in Slot : Occupied(s) => Occupied(s)'
    PROVE  IndexInv'
<1>1. NoDuplicateIndex'
  BY DEF IndexInv, NoDuplicateIndex
<1>2. EntryReachable'
  <2> SUFFICES ASSUME NEW s \in Slot, NEW i \in Index, Holds(s, i)'
               PROVE  \E k \in Tries : /\ s = ProbeSlot(i, k)
                                       /\ \A j \in 0 .. k - 1 : Occupied(ProbeSlot(i, j))'
    BY DEF EntryReachable, ProbeSlot
  <2>1. PICK k \in Tries : /\ s = ProbeSlot(i, k)
                           /\ \A j \in 0 .. k - 1 : Occupied(ProbeSlot(i, j))
    BY DEF IndexInv, EntryReachable
  <2>2. \A j \in 0 .. k - 1 : ProbeSlot(i, j) \in Slot
    <3> SUFFICES ASSUME NEW j \in 0 .. k - 1 PROVE ProbeSlot(i, j) \in Slot
      OBVIOUS
    <3>1. i \in AnyIndex /\ j \in Nat
      BY ProbeAssumption, SizeAssumption DEF AnyIndex, Tries
    <3>2. QED
      BY <3>1, ProbeInTable
  <2>3. QED
    BY <2>1, <2>2
<1>3. QED
  BY <1>1, <1>2 DEF IndexInv

\* A put that begins keeps one entry per index, within its probe.
LEMMA PutBeginIndexInv ==
    ASSUME TypeOK, IndexInv, NEW i \in Index, NEW a \in Addr, PutBegin(i, a)
    PROVE  IndexInv'
<1> USE DEF TypeOK
<1>1. PICK s \in Slot :
         /\ PutSlot(i, s)
         /\ put' = [slot |-> s, index |-> i, addr |-> a,
                    keep |-> valid[s] /\ sender_index[s] = i]
         /\ valid' = [valid EXCEPT ![s] = FALSE]
  BY DEF PutBegin
<1>2. wpc = "idle" /\ wpc' = "odd" /\ sender_index' = sender_index
  BY DEF PutBegin
<1>3. WriterInv'
  BY <1>1, <1>2 DEF WriterInv
<1>4. \A t \in Slot : Occupied(t) <=> valid[t]
  BY <1>2 DEF Occupied, Writing
<1>5. \A t \in Slot : Occupied(t) => Occupied(t)'
  BY <1>1, <1>2 DEF Occupied, Writing
<1>6. Occupied(s)'
  BY <1>1, <1>2 DEF Occupied, Writing
<1>7. \A t \in Slot, j \in Index : t # s => (Holds(t, j)' <=> Holds(t, j))
  BY <1>1, <1>2 DEF Holds, Writing
<1>8. \A j \in Index : Holds(s, j)' => j = i
  BY <1>1, <1>2 DEF Holds, Writing
<1>9. PICK k \in Tries : /\ s = ProbeSlot(i, k)
                         /\ \A j \in 0 .. k - 1 : ~Fits(i, ProbeSlot(i, j))
                         /\ Fits(i, s) \/ \A j \in Tries : ~Fits(i, ProbeSlot(i, j))
  BY <1>1, PutSlotInProbe
<1>10. \A t \in Slot, j \in Index : Holds(t, j) <=> valid[t] /\ sender_index[t] = j
  BY <1>2 DEF Holds, Writing
<1>11. ASSUME NEW t \in Slot, t # s, Holds(t, i) PROVE FALSE
  <2>1. Fits(i, t)
    BY <1>10, <1>11 DEF Fits
  <2>2. PICK n \in Tries : /\ t = ProbeSlot(i, n)
                           /\ \A j \in 0 .. n - 1 : Occupied(ProbeSlot(i, j))
    BY <1>11 DEF IndexInv, EntryReachable
  <2>3. n \in Nat /\ k \in Nat
    BY ProbeAssumption, SizeAssumption DEF Tries
  <2>4. CASE n < k
    BY <1>9, <2>1, <2>2, <2>3, <2>4
  <2>5. CASE n = k
    BY <1>9, <1>11, <2>2, <2>5
  <2>6. CASE n > k
    <3>1. Occupied(s)
      BY <1>9, <2>2, <2>3, <2>6
    <3>2. valid[s]
      BY <1>4, <3>1
    <3>3. CASE Fits(i, s)
      <4>1. Holds(s, i)
        BY <1>10, <3>2, <3>3 DEF Fits
      <4>2. QED
        BY <1>11, <4>1 DEF IndexInv, NoDuplicateIndex
    <3>4. CASE \A j \in Tries : ~Fits(i, ProbeSlot(i, j))
      BY <2>1, <2>2, <3>4
    <3>5. QED
      BY <1>9, <3>3, <3>4
  <2>7. QED
    BY <2>3, <2>4, <2>5, <2>6
<1>12. NoDuplicateIndex'
  <2> SUFFICES ASSUME NEW t \in Slot, NEW u \in Slot, NEW j \in Index,
                      Holds(t, j)', Holds(u, j)', t # u
               PROVE  FALSE
    BY DEF NoDuplicateIndex
  <2>1. CASE t = s
    BY <1>7, <1>8, <1>11, <2>1
  <2>2. CASE u = s
    BY <1>7, <1>8, <1>11, <2>2
  <2>3. CASE t # s /\ u # s
    BY <1>7, <2>3 DEF IndexInv, NoDuplicateIndex
  <2>4. QED
    BY <2>1, <2>2, <2>3
<1>13. EntryReachable'
  <2> SUFFICES ASSUME NEW t \in Slot, NEW j \in Index, Holds(t, j)'
               PROVE  \E n \in Tries : /\ t = ProbeSlot(j, n)
                                       /\ \A m \in 0 .. n - 1 : Occupied(ProbeSlot(j, m))'
    BY DEF EntryReachable, ProbeSlot
  <2>1. \A n \in Tries : \A m \in 0 .. n - 1 : ProbeSlot(j, m) \in Slot
    <3> SUFFICES ASSUME NEW n \in Tries, NEW m \in 0 .. n - 1 PROVE ProbeSlot(j, m) \in Slot
      OBVIOUS
    <3>1. j \in AnyIndex /\ m \in Nat
      BY ProbeAssumption, SizeAssumption DEF AnyIndex, Tries
    <3>2. QED
      BY <3>1, ProbeInTable
  <2>2. CASE t # s
    <3>1. PICK n \in Tries : /\ t = ProbeSlot(j, n)
                             /\ \A m \in 0 .. n - 1 : Occupied(ProbeSlot(j, m))
      BY <1>7, <2>2 DEF IndexInv, EntryReachable
    <3>2. QED
      BY <1>5, <2>1, <3>1
  <2>3. CASE t = s
    <3>1. j = i
      BY <1>8, <2>3
    <3>2. \A m \in 0 .. k - 1 : Occupied(ProbeSlot(i, m))
      BY <1>4, <1>9, <2>1, <3>1 DEF Fits
    <3>3. QED
      BY <1>5, <1>9, <2>1, <2>3, <3>1, <3>2
  <2>4. QED
    BY <2>2, <2>3
<1>14. QED
  BY <1>3, <1>12, <1>13 DEF IndexInv

\* Each later step of a put keeps IndexInv.
LEMMA PutStepIndexInv ==
    ASSUME TypeOK, IndexInv, PutStep
    PROVE  IndexInv'
<1> USE DEF TypeOK
<1>1. put.slot \in Slot
  BY DEF Putting
<1>2. CASE PutIndex
  <2>1. WriterInv'
    BY <1>1, <1>2 DEF PutIndex, IndexInv, WriterInv
  <2>2. \A s \in Slot, i \in Index : Holds(s, i)' => Holds(s, i)
    BY <1>2 DEF PutIndex, Holds, Writing
  <2>3. \A s \in Slot : Occupied(s) => Occupied(s)'
    BY <1>2 DEF PutIndex, Occupied, Writing
  <2>4. QED
    BY <2>1, <2>2, <2>3, IndexStep
<1>3. CASE PutShow
  <2>1. WriterInv'
    BY <1>3 DEF PutShow, WriterInv
  <2>2. \A s \in Slot, i \in Index : Holds(s, i)' => Holds(s, i)
    BY <1>1, <1>3 DEF PutShow, Holds, Writing, IndexInv, WriterInv
  <2>3. \A s \in Slot : Occupied(s) => Occupied(s)'
    BY <1>1, <1>3 DEF PutShow, Occupied, Writing
  <2>4. QED
    BY <2>1, <2>2, <2>3, IndexStep
<1>4. CASE PutSeqOdd \/ PutAddrLo \/ PutAddrHi \/ PutPeer \/ PutSeqEven
  <2>1. /\ UNCHANGED <<valid, sender_index, put>>
        /\ wpc # "idle" /\ wpc' # "idle"
        /\ wpc' \in {"lo", "hi", "peer", "even", "show"}
              => wpc \in {"lo", "hi", "peer", "even", "show"}
    BY <1>4 DEF PutSeqOdd, PutAddrLo, PutAddrHi, PutPeer, PutSeqEven
  <2>2. WriterInv'
    BY <2>1 DEF IndexInv, WriterInv
  <2>3. \A s \in Slot, i \in Index : Holds(s, i)' => Holds(s, i)
    BY <2>1 DEF Holds, Writing
  <2>4. \A s \in Slot : Occupied(s) => Occupied(s)'
    BY <2>1 DEF Occupied, Writing
  <2>5. QED
    BY <2>2, <2>3, <2>4, IndexStep
<1>5. QED
  BY <1>2, <1>3, <1>4 DEF PutStep

\* The steps of the reader write no index.
LEMMA ReaderFrame ==
    ASSUME ReadStep \/ ResolvePeer \/ \E op \in {"lookup", "sole"}, i \in Index : ReadBegin(op, i)
    PROVE  UNCHANGED <<valid, sender_index, seq, addr_lo, addr_hi, wpc, put>>
  BY DEF ReadStep, ResolvePeer, ReadBegin, ReadValid, ReadIndex, ReadSeq1, ReadLo, ReadHi,
         ReadSeq2, ReadRevalid, ReadReindex, ReadEnd, PeerIfValid, PeerIfIndex, PeerStore,
         table, writer

\* Every step of either thread preserves IndexInv.
LEMMA IndexInvStep ==
    ASSUME TypeOK, IndexInv, [Next]_vars
    PROVE  IndexInv'
<1>1. ASSUME NEW i \in Index, NEW a \in Addr, PutBegin(i, a) PROVE IndexInv'
  BY <1>1, PutBeginIndexInv
<1>2. CASE PutStep
  BY <1>2, PutStepIndexInv
<1>3. CASE ReadStep \/ ResolvePeer \/ \E op \in {"lookup", "sole"}, i \in Index : ReadBegin(op, i)
  BY <1>3, ReaderFrame, IndexFrame
<1>4. CASE UNCHANGED vars
  BY <1>4, IndexFrame DEF vars, table, writer
<1>5. QED
  BY <1>1, <1>2, <1>3, <1>4 DEF Next

LEMMA IndexInvInit ==
    ASSUME Init
    PROVE  IndexInv
  BY DEF Init, IndexInv, WriterInv, NoDuplicateIndex, EntryReachable, Holds, Writing

\* No interleaving of puts and reads gives an index two entries, or puts an
\* entry where a lookup of its index does not reach it.
THEOREM SessionTableWellFormed == Spec => []WellFormed
<1>1. Init => IndexInv
  BY IndexInvInit
<1>2. TypeOK /\ IndexInv /\ [Next]_vars => IndexInv'
  BY IndexInvStep
<1>3. QED
  BY <1>1, <1>2, SessionTableTypeOK, PTL DEF Spec, IndexInv, WellFormed

-----------------------------------------------------------------------------
(* The seqlock *)

\* Slot s is between the two increments of its seq.
Rewriting(s) == wpc \in {"index", "lo", "hi", "peer", "even"} /\ put.slot = s

\* seq is odd exactly while the fields change, and the two halves of an
\* address agree at every other time.
SeqInv ==
    /\ \A s \in Slot : IF Rewriting(s) THEN seq[s] % 2 = 1
                       ELSE seq[s] % 2 = 0 /\ addr_lo[s] = addr_hi[s]
    /\ wpc \in {"hi", "peer", "even"} => addr_lo[put.slot] = put.addr
    /\ wpc \in {"peer", "even"} => addr_hi[put.slot] = put.addr

\* What the reader has copied is still in the slot, unless seq has moved on.
CopyInv ==
    /\ rpc \in {"lo", "hi", "seq2"} => rd.s1 % 2 = 0 /\ rd.s1 <= seq[At]
    /\ rpc \in {"hi", "seq2"} /\ rd.s1 = seq[At] => rd.lo = addr_lo[At]
    /\ rpc = "seq2" /\ rd.s1 = seq[At] => rd.hi = addr_hi[At]

SeqlockInv == SeqInv /\ CopyInv /\ NoTornAddress

\* A put in progress changes a slot only while the slot's seq is odd, and seq
\* only grows.
LEMMA WriterSeqStep ==
    ASSUME TypeOK, SeqInv,
           PutStep \/ \E i \in Index, a \in Addr : PutBegin(i, a)
    PROVE  /\ SeqInv'
           /\ \A s \in Slot : \/ seq'[s] = seq[s] /\ addr_lo'[s] = addr_lo[s]
                                                  /\ addr_hi'[s] = addr_hi[s]
                              \/ seq'[s] > seq[s]
                              \/ seq'[s] = seq[s] /\ seq[s] % 2 = 1
<1> USE DEF TypeOK
<1>0. put.slot \in Slot
  BY DEF Putting
<1>1. CASE \E i \in Index, a \in Addr : PutBegin(i, a)
  BY <1>1 DEF PutBegin, SeqInv, Rewriting
<1>2. CASE PutSeqOdd
  <2>1. \A s \in Slot : seq[s] \in Nat
    OBVIOUS
  <2>2. seq[put.slot] % 2 = 0 => (seq[put.slot] + 1) % 2 = 1
    BY <1>0, <2>1
  <2>3. QED
    BY <1>0, <1>2, <2>1, <2>2 DEF PutSeqOdd, SeqInv, Rewriting
<1>3. CASE PutIndex
  BY <1>0, <1>3 DEF PutIndex, SeqInv, Rewriting
<1>4. CASE PutAddrLo
  BY <1>0, <1>4 DEF PutAddrLo, SeqInv, Rewriting
<1>5. CASE PutAddrHi
  BY <1>0, <1>5 DEF PutAddrHi, SeqInv, Rewriting
<1>6. CASE PutPeer
  BY <1>0, <1>6 DEF PutPeer, SeqInv, Rewriting
<1>7. CASE PutSeqEven
  <2>1. \A s \in Slot : seq[s] \in Nat
    OBVIOUS
  <2>2. seq[put.slot] % 2 = 1 => (seq[put.slot] + 1) % 2 = 0
    BY <1>0, <2>1
  <2>3. QED
    BY <1>0, <1>7, <2>1, <2>2 DEF PutSeqEven, SeqInv, Rewriting
<1>8. CASE PutShow
  BY <1>0, <1>8 DEF PutShow, SeqInv, Rewriting
<1>9. QED
  BY <1>1, <1>2, <1>3, <1>4, <1>5, <1>6, <1>7, <1>8 DEF PutStep

\* Whatever the writer does, the reader's copy is current or its seq is not.
LEMMA WriterSeqlockInv ==
    ASSUME TypeOK, SeqlockInv,
           PutStep \/ \E i \in Index, a \in Addr : PutBegin(i, a)
    PROVE  SeqlockInv'
<1>1. /\ SeqInv'
      /\ \A s \in Slot : \/ seq'[s] = seq[s] /\ addr_lo'[s] = addr_lo[s]
                                             /\ addr_hi'[s] = addr_hi[s]
                         \/ seq'[s] > seq[s]
                         \/ seq'[s] = seq[s] /\ seq[s] % 2 = 1
  BY WriterSeqStep DEF SeqlockInv
<1>2. /\ rpc' = rpc /\ rd'.op = rd.op /\ rd'.index = rd.index /\ rd'.k = rd.k
      /\ rd'.s1 = rd.s1 /\ rd'.lo = rd.lo /\ rd'.hi = rd.hi
      /\ rd'.foundlo = rd.foundlo /\ rd'.foundhi = rd.foundhi
  <2>1. CASE PutStep
    <3>1. UNCHANGED reader
      BY <2>1 DEF PutStep, PutSeqOdd, PutIndex, PutAddrLo, PutAddrHi, PutPeer, PutSeqEven, PutShow
    <3>2. QED
      BY <3>1 DEF reader
  <2>2. ASSUME NEW i \in Index, NEW a \in Addr, PutBegin(i, a)
        PROVE  /\ rpc' = rpc
               /\ \E n, b : rd' = [rd EXCEPT !.quiet = FALSE, !.overlaps = n, !.raced = b]
    <3>1. PICK s \in Slot :
             rd' = [rd EXCEPT !.quiet = FALSE,
                              !.overlaps = IF rpc = "idle" THEN 0 ELSE @ + 1,
                              !.raced = @ \/ (rpc \in {"ifindex", "store"} /\ rd.found = s)]
      BY <2>2 DEF PutBegin
    <3>2. QED
      BY <2>2, <3>1, Zenon DEF PutBegin
  <2>3. CASE \E i \in Index, a \in Addr : PutBegin(i, a)
    <3>1. PICK n, b : rd' = [rd EXCEPT !.quiet = FALSE, !.overlaps = n, !.raced = b]
      BY <2>2, <2>3
    <3>2. rd \in Reading
      BY DEF TypeOK
    <3>3. QED
      BY <2>2, <2>3, <3>1, <3>2 DEF Reading
  <2>4. QED
    BY <2>1, <2>3
<1>3. At' = At /\ At \in Slot
  BY <1>2, AtInTable DEF At, ProbeSlot
<1>4. TypeOK'
  BY TypeOKStep DEF Next
<1>5. rd.s1 \in Nat /\ seq[At] \in Nat
  BY <1>3 DEF TypeOK, Reading
<1>6. seq'[At] \in Nat
  BY <1>3, <1>4 DEF TypeOK
<1>7. CASE seq'[At] = seq[At] /\ addr_lo'[At] = addr_lo[At] /\ addr_hi'[At] = addr_hi[At]
  BY <1>1, <1>2, <1>3, <1>7 DEF SeqlockInv, CopyInv, NoTornAddress
<1>8. CASE seq'[At] > seq[At]
  BY <1>1, <1>2, <1>3, <1>5, <1>6, <1>8 DEF SeqlockInv, CopyInv, NoTornAddress
<1>9. CASE seq'[At] = seq[At] /\ seq[At] % 2 = 1
  <2>1. rd.s1 % 2 = 0 => rd.s1 # seq[At]
    BY <1>9
  <2>2. QED
    BY <1>1, <1>2, <1>3, <1>9, <2>1 DEF SeqlockInv, CopyInv, NoTornAddress
<1>10. QED
  BY <1>1, <1>3, <1>7, <1>8, <1>9

\* The scan forgets its copy when it moves on, and keeps what it has found.
LEMMA NextSlotSeqlockInv ==
    ASSUME NEW r, NextSlot(r), r \in Reading, r.foundlo = r.foundhi
    PROVE  /\ rpc' \in {"valid", "routed", "dropped"}
           /\ rd'.foundlo = rd'.foundhi
  BY DEF NextSlot, Reading

\* An accepted copy is whole: seq did not move while it was made.
LEMMA ReaderSeqlockInv ==
    ASSUME TypeOK, SeqlockInv,
           ReadStep \/ ResolvePeer \/ \E op \in {"lookup", "sole"}, i \in Index : ReadBegin(op, i)
    PROVE  SeqlockInv'
<1>0. At \in Slot /\ rd \in Reading
  BY AtInTable DEF TypeOK
<1>1. /\ UNCHANGED <<seq, addr_lo, addr_hi, wpc, put>>
      /\ SeqInv'
  <2>1. UNCHANGED <<seq, addr_lo, addr_hi, wpc, put>>
    BY ReaderFrame
  <2>2. QED
    BY <2>1 DEF SeqlockInv, SeqInv, Rewriting
<1>2. SUFFICES CopyInv' /\ NoTornAddress'
  BY <1>1 DEF SeqlockInv
<1>3. CASE /\ rpc' \notin {"lo", "hi", "seq2", "revalid", "reindex"}
           /\ rd'.foundlo = rd'.foundhi
  BY <1>3 DEF CopyInv, NoTornAddress
<1>4. rd.foundlo = rd.foundhi
  BY DEF SeqlockInv, NoTornAddress
<1>5. NoRead.foundlo = NoRead.foundhi
  BY DEF NoRead
<1>6. CASE \E op \in {"lookup", "sole"}, i \in Index : ReadBegin(op, i)
  BY <1>3, <1>6 DEF ReadBegin, NoRead
<1>7. CASE ReadValid
  BY <1>0, <1>3, <1>4, <1>7, NextSlotSeqlockInv DEF ReadValid
<1>8. CASE ReadIndex
  <2>1. CASE NextSlot(rd)
    BY <1>0, <1>3, <1>4, <2>1, NextSlotSeqlockInv
  <2>2. CASE rpc' = "seq1" /\ rd'.foundlo = rd'.foundhi
    BY <1>3, <2>2
  <2>3. rd' = [rd EXCEPT !.index = sender_index[At]] => rd'.foundlo = rd'.foundhi
    BY <1>0, <1>4 DEF Reading
  <2>4. QED
    BY <1>4, <1>8, <2>1, <2>2, <2>3 DEF ReadIndex
<1>9. CASE ReadSeq1
  <2>1. rd'.s1 = seq[At] /\ rd'.foundlo = rd.foundlo /\ rd'.foundhi = rd.foundhi /\ At' = At
    BY <1>0, <1>9 DEF ReadSeq1, Reading, At, ProbeSlot
  <2>2. seq[At] \in Nat
    BY <1>0 DEF TypeOK
  <2>3. QED
    BY <1>1, <1>4, <1>9, <2>1, <2>2 DEF ReadSeq1, CopyInv, NoTornAddress
<1>10. CASE ReadLo
  <2>1. /\ rd'.s1 = rd.s1 /\ rd'.foundlo = rd.foundlo /\ rd'.foundhi = rd.foundhi
        /\ rd'.lo = addr_lo[At] /\ At' = At
    BY <1>0, <1>10 DEF ReadLo, Reading, At, ProbeSlot
  <2>2. QED
    BY <1>1, <1>4, <1>10, <2>1 DEF ReadLo, SeqlockInv, CopyInv, NoTornAddress
<1>11. CASE ReadHi
  <2>1. /\ rd'.s1 = rd.s1 /\ rd'.foundlo = rd.foundlo /\ rd'.foundhi = rd.foundhi
        /\ rd'.lo = rd.lo /\ rd'.hi = addr_hi[At] /\ At' = At
    BY <1>0, <1>11 DEF ReadHi, Reading, At, ProbeSlot
  <2>2. QED
    BY <1>1, <1>4, <1>11, <2>1 DEF ReadHi, SeqlockInv, CopyInv, NoTornAddress
<1>12. CASE ReadSeq2
  <2>1. CASE seq[At] = rd.s1
    <3>1. rd.s1 % 2 = 0 /\ rd.lo = addr_lo[At] /\ rd.hi = addr_hi[At]
      BY <1>12, <2>1 DEF ReadSeq2, SeqlockInv, CopyInv
    <3>2. addr_lo[At] = addr_hi[At]
      BY <1>0, <2>1, <3>1 DEF SeqlockInv, SeqInv
    <3>3. QED
      BY <1>4, <1>12, <2>1, <3>1, <3>2 DEF ReadSeq2, CopyInv, NoTornAddress
  <2>2. CASE seq[At] # rd.s1
    BY <1>3, <1>4, <1>12, <2>2 DEF ReadSeq2
  <2>3. QED
    BY <2>1, <2>2
<1>13. CASE ReadRevalid
  <2>1. CASE NextSlot(rd)
    BY <1>0, <1>3, <1>4, <2>1, NextSlotSeqlockInv
  <2>2. CASE rpc' = "reindex" /\ rd' = rd
    BY <1>13, <2>2 DEF ReadRevalid, SeqlockInv, CopyInv, NoTornAddress
  <2>3. QED
    BY <1>13, <2>1, <2>2 DEF ReadRevalid
<1>14. CASE ReadReindex
  <2> DEFINE hit == [rd EXCEPT !.found = At, !.foundlo = rd.lo, !.foundhi = rd.hi]
  <2>1. rd.lo = rd.hi
    BY <1>14 DEF ReadReindex, SeqlockInv, NoTornAddress
  <2>2. hit \in Reading /\ hit.foundlo = hit.foundhi
    BY <1>0, <2>1 DEF Reading
  <2>3. [rd EXCEPT !.found = -1].foundlo = [rd EXCEPT !.found = -1].foundhi
    BY <1>0, <1>4 DEF Reading
  <2> HIDE DEF hit
  <2>4. \/ NextSlot(rd)
        \/ NextSlot(hit)
        \/ rd' = hit /\ rpc' = "routed"
        \/ rd' = [rd EXCEPT !.found = -1] /\ rpc' = "dropped"
    BY <1>14 DEF ReadReindex, hit
  <2>5. QED
    BY <1>0, <1>3, <1>4, <2>2, <2>3, <2>4, NextSlotSeqlockInv
<1>15. CASE ReadEnd \/ PeerIfValid \/ PeerIfIndex \/ PeerStore \/ ResolvePeer
  BY <1>3, <1>4, <1>5, <1>15 DEF ReadEnd, PeerIfValid, PeerIfIndex, PeerStore, ResolvePeer
<1>16. QED
  BY <1>6, <1>7, <1>8, <1>9, <1>10, <1>11, <1>12, <1>13, <1>14, <1>15 DEF ReadStep

\* Every step of either thread preserves SeqlockInv.
LEMMA SeqlockInvStep ==
    ASSUME TypeOK, SeqlockInv, [Next]_vars
    PROVE  SeqlockInv'
<1>1. CASE PutStep \/ \E i \in Index, a \in Addr : PutBegin(i, a)
  BY <1>1, WriterSeqlockInv
<1>2. CASE ReadStep \/ ResolvePeer \/ \E op \in {"lookup", "sole"}, i \in Index : ReadBegin(op, i)
  BY <1>2, ReaderSeqlockInv
<1>3. CASE UNCHANGED vars
  BY <1>3 DEF vars, table, writer, reader, SeqlockInv, SeqInv, CopyInv, NoTornAddress,
              Rewriting, At, ProbeSlot
<1>4. QED
  BY <1>1, <1>2, <1>3 DEF Next

LEMMA SeqlockInvInit ==
    ASSUME Init
    PROVE  SeqlockInv
  BY DEF Init, SeqlockInv, SeqInv, CopyInv, NoTornAddress, Rewriting, NoRead

\* No interleaving of puts and reads makes a reader accept half of one address
\* and half of another.
THEOREM SessionTableNoTornAddress == Spec => []NoTornAddress
<1>1. Init => SeqlockInv
  BY SeqlockInvInit
<1>2. TypeOK /\ SeqlockInv /\ [Next]_vars => SeqlockInv'
  BY SeqlockInvStep
<1>3. QED
  BY <1>1, <1>2, SessionTableTypeOK, PTL DEF Spec, SeqlockInv

-----------------------------------------------------------------------------
(* The locals of the reader *)

Inspecting == {"index", "seq1", "lo", "hi", "seq2", "revalid", "reindex"}
Matched == Inspecting \ {"index"}
Scanning == Inspecting \cup {"valid"}
Hit == {"routed", "ifvalid", "ifindex", "store"}

Looking == rd.op = "lookup"

\* The locals of the reader, by where it is.
LocalsInv ==
    /\ rpc = "idle" => rd.op = "none" /\ rd.overlaps = 0
    /\ rpc # "idle" => rd.op \in {"lookup", "sole"}
    /\ Looking => rd.index \in Index /\ rd.k \in Tries
    /\ Looking /\ rpc \in Scanning \cup {"dropped"} => rd.found < 0
    /\ rpc \in Hit => rd.found >= 0

\* The scan moves on or ends as it should.
LEMMA NextSlotLocals ==
    ASSUME NEW r \in Reading, NextSlot(r), r.op \in {"lookup", "sole"}, r.op = rd.op,
           Looking => r.index \in Index /\ r.k \in Tries /\ r.found < 0
    PROVE  LocalsInv'
<1> USE DEF Scanning, Inspecting, Hit
<1>1. CASE r.k + 1 < ScanLength
  <2>1. rd' = [r EXCEPT !.k = @ + 1] /\ rpc' = "valid"
    BY <1>1 DEF NextSlot
  <2>2. Looking => r.k + 1 \in Tries
    BY <1>1, ProbeAssumption, SizeAssumption DEF ScanLength, Tries, Looking, Reading, Slot
  <2>3. QED
    BY <2>1, <2>2 DEF LocalsInv, Looking, Reading
<1>2. CASE ~(r.k + 1 < ScanLength)
  <2>1. rd' = r /\ rpc' = IF r.found >= 0 THEN "routed" ELSE "dropped"
    BY <1>2 DEF NextSlot
  <2>2. QED
    BY <2>1 DEF LocalsInv, Looking
<1>3. QED
  BY <1>1, <1>2

\* What a put that begins notes in the locals of the reader.
LEMMA PutBeginReader ==
    ASSUME TypeOK, NEW i \in Index, NEW a \in Addr, PutBegin(i, a)
    PROVE  /\ rpc' = rpc /\ rd'.quiet = FALSE
           /\ rd'.op = rd.op /\ rd'.index = rd.index /\ rd'.k = rd.k /\ rd'.found = rd.found
           /\ rd'.overlaps = IF rpc = "idle" THEN 0 ELSE rd.overlaps + 1
           /\ rd'.raced = (rd.raced \/ (rpc \in {"ifindex", "store"} /\ rd.found = put'.slot))
<1>1. PICK s \in Slot :
         /\ put' = [slot |-> s, index |-> i, addr |-> a,
                    keep |-> valid[s] /\ sender_index[s] = i]
         /\ rd' = [rd EXCEPT !.quiet = FALSE,
                             !.overlaps = IF rpc = "idle" THEN 0 ELSE @ + 1,
                             !.raced = @ \/ (rpc \in {"ifindex", "store"} /\ rd.found = s)]
  BY DEF PutBegin
<1>2. put'.slot = s /\ rd \in Reading
  BY <1>1 DEF TypeOK
<1>3. rpc' = rpc
  BY DEF PutBegin
<1>4. QED
  BY <1>1, <1>2, <1>3 DEF Reading

\* The later steps of a put leave the reader alone.
LEMMA PutStepReader ==
    ASSUME PutStep
    PROVE  rd' = rd /\ rpc' = rpc
  BY DEF PutStep, PutSeqOdd, PutIndex, PutAddrLo, PutAddrHi, PutPeer, PutSeqEven, PutShow, reader

\* Every step of either thread preserves LocalsInv.
LEMMA LocalsInvStep ==
    ASSUME TypeOK, LocalsInv, [Next]_vars
    PROVE  LocalsInv'
<1> USE DEF Scanning, Inspecting, Hit
<1>0. rd \in Reading /\ At \in Slot
  BY AtInTable DEF TypeOK
<1>1. ASSUME NEW i \in Index, NEW a \in Addr, PutBegin(i, a) PROVE LocalsInv'
  BY <1>1, PutBeginReader DEF LocalsInv, Looking
<1>2. CASE PutStep
  BY <1>2, PutStepReader DEF LocalsInv, Looking
<1>3. ASSUME NEW op \in {"lookup", "sole"}, NEW i \in Index, ReadBegin(op, i) PROVE LocalsInv'
  <2>1. 0 \in Tries
    BY ProbeAssumption, SizeAssumption DEF Tries
  <2>2. QED
    BY <1>3, <2>1 DEF ReadBegin, NoRead, LocalsInv, Looking
<1>4. CASE rpc \in Scanning /\ NextSlot(rd)
  BY <1>0, <1>4, NextSlotLocals DEF LocalsInv, Looking
<1>5. CASE ReadValid \/ ReadRevalid \/ ReadSeq2
  BY <1>4, <1>5 DEF ReadValid, ReadRevalid, ReadSeq2, LocalsInv, Looking
<1>6. CASE ReadIndex
  BY <1>0, <1>4, <1>6 DEF ReadIndex, LocalsInv, Looking, Reading
<1>7. CASE ReadSeq1 \/ ReadLo \/ ReadHi
  BY <1>0, <1>7 DEF ReadSeq1, ReadLo, ReadHi, LocalsInv, Looking, Reading
<1>8. CASE ReadReindex
  <2> DEFINE hit == [rd EXCEPT !.found = At, !.foundlo = rd.lo, !.foundhi = rd.hi]
  <2>1. /\ hit \in Reading /\ hit.op = rd.op /\ hit.index = rd.index
        /\ hit.k = rd.k /\ hit.found = At /\ hit.overlaps = rd.overlaps
    BY <1>0 DEF Reading
  <2>8. At >= 0
    BY <1>0, SizeAssumption DEF Slot
  <2> HIDE DEF hit
  <2>2. \/ NextSlot(rd)
        \/ NextSlot(hit) /\ ~Looking
        \/ rd' = hit /\ rpc' = "routed"
        \/ rd' = [rd EXCEPT !.found = -1] /\ rpc' = "dropped"
    BY <1>8 DEF ReadReindex, hit, Looking
  <2>3. rpc = "reindex" /\ rd.op \in {"lookup", "sole"}
    BY <1>8 DEF ReadReindex, LocalsInv
  <2>4. CASE NextSlot(hit) /\ ~Looking
    BY <2>1, <2>3, <2>4, NextSlotLocals
  <2>5. CASE rd' = hit /\ rpc' = "routed"
    BY <2>1, <2>3, <2>5, <2>8 DEF LocalsInv, Looking
  <2>6. CASE rd' = [rd EXCEPT !.found = -1] /\ rpc' = "dropped"
    BY <1>0, <2>3, <2>6 DEF LocalsInv, Looking, Reading
  <2>7. QED
    BY <1>4, <2>2, <2>3, <2>4, <2>5, <2>6
<1>9. CASE ReadEnd \/ PeerIfValid \/ PeerIfIndex \/ PeerStore \/ ResolvePeer
  BY <1>9 DEF ReadEnd, PeerIfValid, PeerIfIndex, PeerStore, ResolvePeer, NoRead, LocalsInv, Looking
<1>10. CASE UNCHANGED vars
  BY <1>10 DEF vars, reader, LocalsInv, Looking
<1>11. QED
  BY <1>1, <1>2, <1>3, <1>5, <1>6, <1>7, <1>8, <1>9, <1>10 DEF Next, ReadStep

LEMMA LocalsInvInit ==
    ASSUME Init
    PROVE  LocalsInv
  BY DEF Init, NoRead, LocalsInv, Looking, Scanning, Inspecting, Hit

-----------------------------------------------------------------------------
(* The peer of an entry *)

\* The peer of an entry is the peer of its index, before, during and after a
\* put; a peer about to be stored is that of the entry's index, unless a put
\* raced the check.
PeerInv ==
    /\ PeerOfEntry
    /\ wpc # "idle" /\ put.slot \notin stale /\ (put.keep \/ wpc \in {"even", "show"})
          => peer_slot[put.slot] < 0 \/ peer_slot[put.slot] = put.index
    /\ rpc \in {"ifindex", "store"} /\ ~rd.raced => valid[rd.found]
    /\ rpc = "store" /\ ~rd.raced => sender_index[rd.found] = rd.index

\* Every step of either thread preserves PeerInv.
LEMMA PeerInvStep ==
    ASSUME TypeOK, LocalsInv, IndexInv, PeerInv, [Next]_vars
    PROVE  PeerInv'
<1>0. /\ rd \in Reading /\ put \in Putting /\ valid \in [Slot -> BOOLEAN]
      /\ peer_slot \in [Slot -> Index \cup {0, -1}]
      /\ \A t \in Slot : peer_slot[t] \in Int
  <2>1. /\ rd \in Reading /\ put \in Putting /\ valid \in [Slot -> BOOLEAN]
        /\ peer_slot \in [Slot -> Index \cup {0, -1}]
    BY DEF TypeOK
  <2>2. ASSUME NEW t \in Slot PROVE peer_slot[t] \in Int
    <3>1. peer_slot[t] \in Index \/ peer_slot[t] = 0 \/ peer_slot[t] = -1
      BY <2>1
    <3>2. \A n \in Index : n \in Int
      BY IndexAssumption
    <3>3. QED
      BY <3>1, <3>2
  <2>3. QED
    BY <2>1, <2>2
<1>1. ASSUME NEW i \in Index, NEW a \in Addr, PutBegin(i, a) PROVE PeerInv'
  <2>1. PICK s \in Slot :
           /\ put' = [slot |-> s, index |-> i, addr |-> a,
                      keep |-> valid[s] /\ sender_index[s] = i]
           /\ valid' = [valid EXCEPT ![s] = FALSE]
    BY <1>1 DEF PutBegin
  <2>2. /\ wpc = "idle" /\ wpc' = "odd"
        /\ UNCHANGED <<sender_index, peer_slot, stale>>
    BY <1>1 DEF PutBegin
  <2>3. /\ rpc' = rpc /\ rd'.index = rd.index /\ rd'.found = rd.found
        /\ rd'.raced = (rd.raced \/ (rpc \in {"ifindex", "store"} /\ rd.found = s))
    BY <1>1, <2>1, PutBeginReader
  <2>4. PeerOfEntry'
    BY <1>0, <2>1, <2>2 DEF PeerInv, PeerOfEntry
  <2>5. put'.slot = s /\ put'.index = i /\ put'.keep = (valid[s] /\ sender_index[s] = i)
    BY <2>1
  <2>6. put'.keep /\ s \notin stale => peer_slot[s] < 0 \/ peer_slot[s] = i
    <3> SUFFICES ASSUME put'.keep, s \notin stale, ~(peer_slot[s] < 0)
                 PROVE  peer_slot[s] = i
      OBVIOUS
    <3>1. valid[s] /\ sender_index[s] = i
      BY <2>5
    <3>2. peer_slot[s] >= 0
      BY <1>0
    <3>3. QED
      BY <3>1, <3>2 DEF PeerInv, PeerOfEntry
  <2>7. \A t \in Slot : t # s => valid'[t] = valid[t]
    BY <1>0, <2>1
  <2>8. rpc \in {"ifindex", "store"} => rd.found \in Slot
    BY <1>0 DEF Reading, LocalsInv, Hit
  <2>9. QED
    BY <2>2, <2>3, <2>4, <2>5, <2>6, <2>7, <2>8 DEF PeerInv
<1>2. CASE PutStep
  <2>1. rd' = rd /\ rpc' = rpc /\ put.slot \in Slot /\ wpc # "idle" /\ ~valid[put.slot]
    BY <1>2, PutStepReader, <1>0 DEF Putting, IndexInv, WriterInv, PutStep, PutSeqOdd, PutIndex,
       PutAddrLo, PutAddrHi, PutPeer, PutSeqEven, PutShow
  <2>2. rpc \in {"ifindex", "store"} => rd.found \in Slot
    BY <1>0 DEF Reading, LocalsInv, Hit
  <2>3. CASE PutIndex
    BY <1>0, <2>1, <2>2, <2>3 DEF PutIndex, PeerInv, PeerOfEntry, TypeOK
  <2>4. CASE PutPeer
    <3>1. CASE put.keep
      BY <1>0, <2>1, <2>2, <2>4, <3>1 DEF PutPeer, PeerInv, PeerOfEntry
    <3>2. CASE ~put.keep
      <4>1. /\ peer_slot' = [peer_slot EXCEPT ![put.slot] = -1]
            /\ stale' = stale \ {put.slot}
            /\ UNCHANGED <<valid, sender_index, put>>
        BY <2>4, <3>2 DEF PutPeer
      <4>2. PeerOfEntry'
        BY <1>0, <2>1, <4>1 DEF PeerInv, PeerOfEntry
      <4>3. peer_slot'[put.slot] < 0
        BY <1>0, <2>1, <4>1
      <4>4. QED
        BY <2>1, <4>1, <4>2, <4>3 DEF PeerInv
    <3>3. QED
      BY <3>1, <3>2
  <2>5. CASE PutShow
    <3>1. /\ wpc = "show" /\ wpc' = "idle" /\ valid' = [valid EXCEPT ![put.slot] = TRUE]
          /\ UNCHANGED <<sender_index, peer_slot, stale>>
      BY <2>5 DEF PutShow
    <3>2. sender_index[put.slot] = put.index
      BY <3>1 DEF IndexInv, WriterInv
    <3>3. PeerOfEntry'
      BY <1>0, <2>1, <3>1, <3>2 DEF PeerInv, PeerOfEntry
    <3>4. QED
      BY <1>0, <2>1, <2>2, <3>1, <3>3 DEF PeerInv
  <2>6. CASE PutSeqOdd \/ PutAddrLo \/ PutAddrHi \/ PutSeqEven
    BY <2>1, <2>6 DEF PutSeqOdd, PutAddrLo, PutAddrHi, PutSeqEven, PeerInv, PeerOfEntry
  <2>7. QED
    BY <1>2, <2>3, <2>4, <2>5, <2>6 DEF PutStep
<1>3. CASE PeerStore
  <2>1. /\ rpc = "store" /\ rpc' = "idle" /\ rd.found \in Slot
        /\ peer_slot' = [peer_slot EXCEPT ![rd.found] = rd.index]
        /\ stale' = IF rd.raced THEN stale \cup {rd.found} ELSE stale
        /\ UNCHANGED <<valid, sender_index, wpc, put>>
    BY <1>0, <1>3 DEF PeerStore, writer, Reading, LocalsInv, Hit
  <2>2. ~rd.raced => valid[rd.found] /\ sender_index[rd.found] = rd.index
    BY <2>1 DEF PeerInv
  <2>3. PeerOfEntry'
    BY <1>0, <2>1, <2>2 DEF PeerInv, PeerOfEntry
  <2>4. wpc # "idle" => ~valid[put.slot] /\ put.slot \in Slot
    BY <1>0 DEF IndexInv, WriterInv, Putting
  <2>5. QED
    BY <1>0, <2>1, <2>2, <2>3, <2>4 DEF PeerInv
<1>4. CASE /\ UNCHANGED <<valid, sender_index, peer_slot, wpc, put, stale>>
           /\ rpc' \in {"ifindex", "store"} /\ ~rd'.raced => valid[rd'.found]
           /\ rpc' = "store" /\ ~rd'.raced => sender_index[rd'.found] = rd'.index
  BY <1>4 DEF PeerInv, PeerOfEntry
<1>5. CASE PeerIfValid \/ PeerIfIndex
  BY <1>4, <1>5 DEF PeerIfValid, PeerIfIndex, PeerInv, table, writer
<1>6. CASE \/ \E op \in {"lookup", "sole"}, i \in Index : ReadBegin(op, i)
           \/ ReadValid \/ ReadIndex \/ ReadSeq1 \/ ReadLo \/ ReadHi \/ ReadSeq2
           \/ ReadRevalid \/ ReadReindex \/ ReadEnd \/ ResolvePeer
  <2>1. UNCHANGED <<valid, sender_index, peer_slot, wpc, put, stale>>
    BY <1>6 DEF ReadBegin, ReadValid, ReadIndex, ReadSeq1, ReadLo, ReadHi, ReadSeq2,
       ReadRevalid, ReadReindex, ReadEnd, ResolvePeer, table, writer
  <2>2. rpc' \notin {"ifindex", "store"}
    BY <1>6 DEF ReadBegin, ReadValid, ReadIndex, ReadSeq1, ReadLo, ReadHi, ReadSeq2,
       ReadRevalid, ReadReindex, ReadEnd, ResolvePeer, NextSlot
  <2>3. QED
    BY <1>4, <2>1, <2>2
<1>7. CASE UNCHANGED vars
  BY <1>4, <1>7 DEF vars, table, writer, reader, PeerInv
<1>8. QED
  BY <1>1, <1>2, <1>3, <1>5, <1>6, <1>7 DEF Next, ReadStep

\* The peer noted in an entry is the peer of the handshake whose index the entry
\* holds: evictions and puts that hit the middle of a lookup forget the old one,
\* except where the unlocked check-then-store of
\* session_set_peer_slot_if_index is raced (`stale').
THEOREM SessionTablePeerOfEntry == Spec => []PeerOfEntry
<1>1. Init => LocalsInv /\ IndexInv /\ PeerInv
  <2>1. Init => PeerInv
    BY DEF Init, PeerInv, PeerOfEntry
  <2>2. QED
    BY <2>1, LocalsInvInit, IndexInvInit
<1>2. TypeOK /\ LocalsInv /\ IndexInv /\ PeerInv /\ [Next]_vars
         => LocalsInv' /\ IndexInv' /\ PeerInv'
  BY LocalsInvStep, IndexInvStep, PeerInvStep
<1>3. PeerInv => PeerOfEntry
  BY DEF PeerInv
<1>4. QED
  BY <1>1, <1>2, <1>3, SessionTableTypeOK, PTL DEF Spec

-----------------------------------------------------------------------------
(* A read that no put overlaps *)

\* A lookup has not missed its index behind it, and the slot it inspects is
\* what it took it for.
QuietLookup ==
    /\ rpc \in Scanning =>
          \A n \in 0 .. rd.k - 1 :
              valid[ProbeSlot(rd.index, n)] => sender_index[ProbeSlot(rd.index, n)] # rd.index
    /\ rpc = "routed" => \E s \in Slot : valid[s] /\ sender_index[s] = rd.index
    /\ rpc = "dropped" => \A s \in Slot : valid[s] => sender_index[s] # rd.index

\* A search for the sole client has met one address behind it.
OneAddress == \A s, t \in Slot : valid[s] /\ valid[t] => addr_lo[s] = addr_lo[t]

QuietSole ==
    /\ rd.found >= 0 => \E s \in Slot : valid[s] /\ addr_lo[s] = rd.foundlo
    /\ rpc \in Scanning =>
          \A t \in 0 .. rd.k - 1 : valid[t] => rd.found >= 0 /\ addr_lo[t] = rd.foundlo
    /\ rpc \in {"hi", "seq2", "revalid", "reindex"} => rd.lo = addr_lo[At]
    /\ rpc = "routed" => \A t \in Slot : valid[t] => addr_lo[t] = rd.foundlo
    /\ rpc = "dropped" => ~OneAddress \/ \A s \in Slot : ~valid[s]

QuietInv ==
    rd.quiet /\ rpc \in Scanning \cup {"routed", "dropped"} =>
        /\ wpc = "idle"
        /\ rpc \in Inspecting => valid[At]
        /\ rpc \in Matched => sender_index[At] = rd.index
        /\ IF Looking THEN QuietLookup ELSE QuietSole

\* What a scan that leaves its slot has to know of the slots so far.
Passed(r) ==
    IF Looking
       THEN \A n \in 0 .. r.k : valid[ProbeSlot(r.index, n)] => sender_index[ProbeSlot(r.index, n)] # r.index
       ELSE /\ r.found >= 0 => \E s \in Slot : valid[s] /\ addr_lo[s] = r.foundlo
            /\ \A t \in 0 .. r.k : valid[t] => r.found >= 0 /\ addr_lo[t] = r.foundlo

\* It then knows as much at the next slot, and at the end about the whole table.
LEMMA NextSlotQuiet ==
    ASSUME TypeOK, IndexInv,
           NEW r \in Reading, NextSlot(r), UNCHANGED <<valid, sender_index, addr_lo, wpc>>,
           r.op = rd.op,
           Looking => r.index \in Index /\ r.k \in Tries /\ r.found < 0,
           r.quiet => wpc = "idle" /\ Passed(r)
    PROVE  QuietInv'
<1> SUFFICES ASSUME rd'.quiet
             PROVE  /\ wpc' = "idle"
                    /\ rpc' \in {"valid", "routed", "dropped"}
                    /\ IF Looking' THEN QuietLookup' ELSE QuietSole'
  BY DEF QuietInv, Inspecting, Matched
<1>1. /\ rd' = IF r.k + 1 < ScanLength THEN [r EXCEPT !.k = @ + 1] ELSE r
      /\ rpc' = IF r.k + 1 < ScanLength THEN "valid" ELSE IF r.found >= 0 THEN "routed" ELSE "dropped"
  BY DEF NextSlot
<1>2. /\ r.quiet /\ rd'.op = r.op /\ rd'.index = r.index /\ rd'.found = r.found
      /\ rd'.foundlo = r.foundlo /\ (Looking' <=> Looking)
  BY <1>1 DEF Reading, Looking
<1>3. wpc = "idle" /\ wpc' = "idle" /\ Passed(r)
  BY <1>2
<1>4. r.k \in Nat /\ r.k \in Slot /\ r.found \in Int
  BY SizeAssumption DEF Reading, Slot
<1>5. CASE r.k + 1 < ScanLength
  <2>1. rd'.k = r.k + 1 /\ rpc' = "valid" /\ 0 .. rd'.k - 1 = 0 .. r.k
    BY <1>1, <1>4, <1>5 DEF Reading
  <2>2. Looking => QuietLookup'
    BY <1>2, <1>3, <2>1 DEF Passed, QuietLookup, ProbeSlot
  <2>3. ~Looking => QuietSole'
    BY <1>2, <1>3, <2>1 DEF Passed, QuietSole
  <2>4. QED
    BY <1>2, <1>3, <2>1, <2>2, <2>3
<1>6. CASE ~(r.k + 1 < ScanLength)
  <2>1. rpc' = IF r.found >= 0 THEN "routed" ELSE "dropped"
    BY <1>1, <1>6
  <2>2. ASSUME Looking PROVE QuietLookup' /\ rpc' = "dropped"
    <3>1. 0 .. r.k = Tries
      BY <1>4, <1>6, <2>2, ProbeAssumption, SizeAssumption DEF ScanLength, Tries, Looking
    <3>2. ASSUME NEW s \in Slot, valid[s], sender_index[s] = r.index PROVE FALSE
      <4>1. Holds(s, r.index)
        BY <1>3, <3>2 DEF Holds, Writing
      <4>2. PICK n \in Tries : s = ProbeSlot(r.index, n)
        BY <2>2, <4>1 DEF IndexInv, EntryReachable
      <4>3. QED
        BY <1>3, <2>2, <3>1, <3>2, <4>2 DEF Passed
    <3>3. QED
      BY <1>2, <1>4, <2>1, <2>2, <3>2 DEF QuietLookup, Scanning, Inspecting
  <2>3. ASSUME ~Looking PROVE QuietSole'
    <3>1. Slot \subseteq 0 .. r.k
      BY <1>4, <1>6, <2>3, SizeAssumption DEF ScanLength, Slot, Looking
    <3>2. \A t \in Slot : valid[t] => r.found >= 0 /\ addr_lo[t] = r.foundlo
      BY <1>3, <2>3, <3>1 DEF Passed
    <3>3. r.found >= 0 => \E s \in Slot : valid[s] /\ addr_lo[s] = r.foundlo
      BY <1>3, <2>3 DEF Passed
    <3>4. QED
      BY <1>2, <1>4, <2>1, <3>2, <3>3 DEF QuietSole, Scanning, Inspecting
  <2>4. QED
    BY <1>2, <1>3, <2>1, <2>2, <2>3
<1>7. QED
  BY <1>5, <1>6

\* Every step of either thread preserves QuietInv: a put ends the quiet, and
\* the reader's own steps are exact.
LEMMA QuietInvStep ==
    ASSUME TypeOK, LocalsInv, IndexInv, SeqlockInv, QuietInv, [Next]_vars
    PROVE  QuietInv'
<1> USE DEF Scanning, Inspecting, Matched
<1>0. rd \in Reading /\ At \in Slot /\ valid \in [Slot -> BOOLEAN]
  BY AtInTable DEF TypeOK
<1>1. CASE \E i \in Index, a \in Addr : PutBegin(i, a)
  BY <1>1, PutBeginReader DEF QuietInv
<1>2. CASE PutStep
  <2>1. wpc # "idle"
    BY <1>2 DEF PutStep, PutSeqOdd, PutIndex, PutAddrLo, PutAddrHi, PutPeer, PutSeqEven, PutShow
  <2>2. QED
    BY <1>2, <2>1, PutStepReader DEF QuietInv
<1>3. ASSUME NEW op \in {"lookup", "sole"}, NEW i \in Index, ReadBegin(op, i) PROVE QuietInv'
  <2>1. /\ rd'.quiet = (wpc = "idle") /\ wpc' = wpc /\ rpc' = "valid"
        /\ rd'.k = 0 /\ ~(rd'.found >= 0)
    BY <1>3 DEF ReadBegin, NoRead, writer
  <2>2. 0 .. rd'.k - 1 = {}
    BY <2>1
  <2>3. QuietLookup' /\ QuietSole'
    BY <2>1, <2>2 DEF QuietLookup, QuietSole
  <2>4. QED
    BY <2>1, <2>3 DEF QuietInv
<1>4. CASE rpc' \notin Scanning \cup {"routed", "dropped"}
  BY <1>4 DEF QuietInv
<1>5. CASE ReadEnd \/ ResolvePeer \/ PeerIfValid \/ PeerIfIndex \/ PeerStore
  BY <1>4, <1>5 DEF ReadEnd, ResolvePeer, PeerIfValid, PeerIfIndex, PeerStore
<1>6. CASE UNCHANGED vars
  BY <1>6 DEF vars, table, writer, reader, QuietInv, QuietLookup, QuietSole, OneAddress, Looking, At,
              ProbeSlot
<1>7. CASE ReadStep /\ rpc \in Scanning
  <2>1. UNCHANGED <<valid, sender_index, seq, addr_lo, addr_hi, wpc, put>>
    BY <1>7, ReaderFrame
  <2>2. /\ rd.op \in {"lookup", "sole"}
        /\ Looking => rd.index \in Index /\ rd.k \in Tries /\ rd.found < 0
    BY <1>7 DEF LocalsInv
  <2>3. rd.k \in Nat /\ At = (IF Looking THEN ProbeSlot(rd.index, rd.k) ELSE rd.k)
    BY <1>0, SizeAssumption DEF Reading, Slot, At, Looking
  <2>4. ASSUME rd.quiet
        PROVE  /\ wpc = "idle"
               /\ rpc \in Inspecting => valid[At]
               /\ rpc \in Matched => sender_index[At] = rd.index
               /\ Looking => QuietLookup
               /\ ~Looking => QuietSole
    BY <1>7, <2>4 DEF QuietInv
  <2>5. ASSUME NextSlot(rd),
               rd.quiet => ~valid[At] \/ (Looking /\ sender_index[At] # rd.index)
        PROVE  QuietInv'
    <3>1. ASSUME rd.quiet PROVE Passed(rd)
      <4>1. \A n \in 0 .. rd.k : n \in 0 .. rd.k - 1 \/ n = rd.k
        BY <2>3
      <4>2. CASE Looking
        BY <1>7, <2>3, <2>4, <2>5, <3>1, <4>1, <4>2 DEF Passed, QuietLookup
      <4>3. CASE ~Looking
        BY <1>7, <2>3, <2>4, <2>5, <3>1, <4>1, <4>3 DEF Passed, QuietSole
      <4>4. QED
        BY <4>2, <4>3
    <3>2. QED
      BY <1>0, <2>1, <2>2, <2>4, <2>5, <3>1, NextSlotQuiet
  \* The reader stays at its slot, and what it has found stays.
  <2>6. ASSUME rpc' \in Inspecting,
               rd'.quiet = rd.quiet, rd'.op = rd.op, rd'.k = rd.k, rd'.found = rd.found,
               rd'.foundlo = rd.foundlo, Looking => rd'.index = rd.index,
               rd.quiet => valid[At],
               rd.quiet /\ rpc' \in Matched => sender_index[At] = rd'.index,
               rd.quiet /\ ~Looking /\ rpc' \in {"hi", "seq2", "revalid", "reindex"} => rd'.lo = addr_lo[At]
        PROVE  QuietInv'
    <3>1. At' = At /\ (Looking' <=> Looking)
      BY <2>6 DEF At, Looking, ProbeSlot
    <3>2. rd.quiet /\ Looking => QuietLookup'
      BY <1>7, <2>1, <2>4, <2>6 DEF QuietLookup, Looking, ProbeSlot
    <3>3. rd.quiet /\ ~Looking => QuietSole'
      BY <1>7, <2>1, <2>4, <2>6, <3>1 DEF QuietSole
    <3>4. QED
      BY <2>1, <2>4, <2>6, <3>1, <3>2, <3>3 DEF QuietInv
  <2>7. CASE ReadValid
    <3>1. CASE valid[At]
      BY <2>6, <2>7, <3>1 DEF ReadValid
    <3>2. CASE ~valid[At]
      BY <2>5, <2>7, <3>2 DEF ReadValid
    <3>3. QED
      BY <3>1, <3>2
  <2>8. CASE ReadIndex
    <3>1. CASE rd.op = "sole"
      <4>1. rd' = [rd EXCEPT !.index = sender_index[At]] /\ rpc = "index" /\ rpc' = "seq1" /\ ~Looking
        BY <2>8, <3>1 DEF ReadIndex, Looking
      <4>2. QED
        BY <1>0, <2>4, <2>6, <4>1 DEF Reading
    <3>2. CASE rd.op = "lookup" /\ sender_index[At] = rd.index
      <4>1. rd' = rd /\ rpc = "index" /\ rpc' = "seq1"
        BY <2>8, <3>2 DEF ReadIndex
      <4>2. QED
        BY <2>4, <2>6, <3>2, <4>1
    <3>3. CASE rd.op = "lookup" /\ sender_index[At] # rd.index
      BY <2>5, <2>8, <3>3 DEF ReadIndex, Looking
    <3>4. QED
      BY <2>2, <3>1, <3>2, <3>3
  <2>9. CASE ReadSeq1 \/ ReadLo \/ ReadHi
    <3>1. /\ rpc \in Matched /\ rpc' \in Inspecting
          /\ rd'.quiet = rd.quiet /\ rd'.op = rd.op /\ rd'.k = rd.k /\ rd'.found = rd.found
          /\ rd'.foundlo = rd.foundlo /\ rd'.index = rd.index
      BY <1>0, <2>9 DEF ReadSeq1, ReadLo, ReadHi, Reading
    <3>2. rd.quiet /\ ~Looking /\ rpc' \in {"hi", "seq2", "revalid", "reindex"} => rd'.lo = addr_lo[At]
      BY <1>0, <2>4, <2>9 DEF ReadSeq1, ReadLo, ReadHi, Reading, QuietSole
    <3>3. QED
      BY <2>4, <2>6, <3>1, <3>2
  <2>10. CASE ReadSeq2
    <3>1. rpc = "seq2" /\ rpc' \in {"revalid", "seq1"} /\ rd' = rd
      BY <2>10 DEF ReadSeq2
    <3>2. rd.quiet /\ ~Looking => rd.lo = addr_lo[At]
      BY <2>4, <3>1 DEF QuietSole
    <3>3. QED
      BY <2>4, <2>6, <3>1, <3>2
  <2>11. CASE ReadRevalid
    <3>1. CASE valid[At]
      <4>1. rpc = "revalid" /\ rpc' = "reindex" /\ rd' = rd
        BY <2>11, <3>1 DEF ReadRevalid
      <4>2. rd.quiet /\ ~Looking => rd.lo = addr_lo[At]
        BY <2>4, <4>1 DEF QuietSole
      <4>3. QED
        BY <2>4, <2>6, <4>1, <4>2
    <3>2. CASE ~valid[At]
      BY <2>5, <2>11, <3>2 DEF ReadRevalid
    <3>3. QED
      BY <3>1, <3>2
  <2>12. CASE ReadReindex
    <3> DEFINE hit == [rd EXCEPT !.found = At, !.foundlo = rd.lo, !.foundhi = rd.hi]
    <3>1. /\ hit \in Reading /\ hit.op = rd.op /\ hit.index = rd.index /\ hit.quiet = rd.quiet
          /\ hit.k = rd.k /\ hit.found = At /\ hit.foundlo = rd.lo
      BY <1>0 DEF Reading
    <3>2. At >= 0
      BY <1>0, SizeAssumption DEF Slot
    <3>3. rpc = "reindex" /\ rd.lo = rd.hi /\ rd.foundlo = rd.foundhi
      BY <2>12 DEF ReadReindex, SeqlockInv, NoTornAddress
    <3>4. CASE sender_index[At] # rd.index
      BY <2>4, <2>5, <2>12, <3>3, <3>4 DEF ReadReindex
    <3>5. CASE sender_index[At] = rd.index /\ Looking
      <4>1. rd' = hit /\ rpc' = "routed"
        BY <2>12, <3>5 DEF ReadReindex, Looking
      <4>2. Looking' /\ (rd.quiet => QuietLookup')
        BY <1>0, <2>1, <2>4, <3>1, <3>3, <3>5, <4>1 DEF QuietLookup, Looking
      <4> HIDE DEF hit
      <4>3. QED
        BY <2>1, <2>4, <3>1, <4>1, <4>2 DEF QuietInv
    <3>6. CASE sender_index[At] = rd.index /\ ~Looking /\ rd.found < 0
      <4>0. rd.op = "sole" /\ rd.op # "lookup" /\ ~(rd.found >= 0)
        <5>1. rd.found \in Int
          BY <1>0, SizeAssumption DEF Reading, Slot
        <5>2. QED
          BY <2>2, <3>6, <5>1 DEF Looking
      <4>1. NextSlot(hit)
        BY <2>12, <3>6, <4>0 DEF ReadReindex
      <4>2. ASSUME rd.quiet PROVE Passed(hit)
        <5>1. rd.lo = addr_lo[At] /\ valid[At] /\ At = rd.k
          BY <2>3, <2>4, <3>3, <3>6, <4>2 DEF QuietSole
        <5>2. \A t \in 0 .. rd.k - 1 : ~valid[t]
          <6>1. rd.found \in Int
            BY <1>0, SizeAssumption DEF Reading, Slot
          <6>2. QED
            BY <2>4, <3>3, <3>6, <4>2, <6>1 DEF QuietSole
        <5>3. \A t \in 0 .. rd.k : t \in 0 .. rd.k - 1 \/ t = rd.k
          BY <2>3
        <5> HIDE DEF hit
        <5>4. QED
          BY <1>0, <3>1, <3>2, <3>6, <5>1, <5>2, <5>3 DEF Passed
      <4> HIDE DEF hit
      <4>3. QED
        BY <2>1, <2>4, <3>1, <3>6, <4>1, <4>2, NextSlotQuiet
    <3>7. CASE sender_index[At] = rd.index /\ ~Looking /\ ~(rd.found < 0)
      <4>0. rd.found >= 0 /\ rd.op = "sole"
        <5>1. rd.found \in Int
          BY <1>0, SizeAssumption DEF Reading, Slot
        <5>2. QED
          BY <2>2, <3>7, <5>1 DEF Looking
      <4>1. rd.quiet => /\ rd.lo = addr_lo[At] /\ valid[At] /\ At = rd.k
                        /\ \E s \in Slot : valid[s] /\ addr_lo[s] = rd.foundlo
        BY <2>3, <2>4, <3>3, <3>7, <4>0 DEF QuietSole
      <4>2. CASE rd.lo = rd.foundlo
        <5>1. NextSlot(rd)
          BY <2>12, <3>3, <3>7, <4>0, <4>2 DEF ReadReindex
        <5>2. rd.quiet => Passed(rd)
          <6>1. \A t \in 0 .. rd.k : t \in 0 .. rd.k - 1 \/ t = rd.k
            BY <2>3
          <6>2. QED
            BY <2>4, <3>3, <3>7, <4>0, <4>1, <4>2, <6>1 DEF Passed, QuietSole
        <5>3. QED
          BY <1>0, <2>1, <2>4, <3>7, <5>1, <5>2, NextSlotQuiet
      <4>3. CASE rd.lo # rd.foundlo
        <5>1. rd' = [rd EXCEPT !.found = -1] /\ rpc' = "dropped"
          BY <2>12, <3>3, <3>7, <4>0, <4>3 DEF ReadReindex
        <5>2. rd'.op = rd.op /\ rd'.quiet = rd.quiet /\ rd'.found = -1
          BY <1>0, <5>1 DEF Reading
        <5>3. rd.quiet => ~OneAddress
          BY <1>0, <4>1, <4>3 DEF OneAddress
        <5>4. rd.quiet => QuietSole'
          BY <2>1, <5>1, <5>2, <5>3 DEF QuietSole, OneAddress
        <5>5. QED
          BY <2>1, <2>4, <3>7, <5>1, <5>2, <5>4 DEF QuietInv, Looking
      <4>4. QED
        BY <4>2, <4>3
    <3>8. QED
      BY <3>4, <3>5, <3>6, <3>7
  <2>13. QED
    BY <1>5, <1>7, <2>7, <2>8, <2>9, <2>10, <2>11, <2>12 DEF ReadStep
<1>8. CASE ReadStep /\ rpc \notin Scanning
  BY <1>5, <1>8 DEF ReadStep, ReadValid, ReadIndex, ReadSeq1, ReadLo, ReadHi, ReadSeq2, ReadRevalid,
                    ReadReindex
<1>9. QED
  BY <1>1, <1>2, <1>3, <1>5, <1>6, <1>7, <1>8 DEF Next

\* A lookup that no put overlaps finds its index iff the table has it, and a
\* search for the sole client succeeds iff there is a client and only one
\* address: neither probe nor seqlock loses or invents an entry.
THEOREM SessionTableQuietReadExact == Spec => []QuietReadExact
<1>1. Init => LocalsInv /\ IndexInv /\ SeqlockInv /\ QuietInv
  <2>1. Init => QuietInv
    BY DEF Init, NoRead, QuietInv
  <2>2. QED
    BY <2>1, LocalsInvInit, IndexInvInit, SeqlockInvInit
<1>2. TypeOK /\ LocalsInv /\ IndexInv /\ SeqlockInv /\ QuietInv /\ [Next]_vars
         => LocalsInv' /\ IndexInv' /\ SeqlockInv' /\ QuietInv'
  BY LocalsInvStep, IndexInvStep, SeqlockInvStep, QuietInvStep
<1>3. LocalsInv /\ QuietInv => QuietReadExact
  <2> SUFFICES ASSUME LocalsInv, QuietInv, rpc \in {"routed", "dropped"}, rd.quiet
               PROVE  QuietReadExact
    BY DEF QuietReadExact
  <2>1. CASE Looking
    BY <2>1 DEF QuietInv, QuietLookup, QuietReadExact, Looking
  <2>2. CASE ~Looking
    <3>1. QuietSole /\ (rpc = "routed" => rd.found >= 0)
      BY <2>2 DEF QuietInv, LocalsInv, Hit
    <3>2. QED
      BY <2>2, <3>1 DEF QuietSole, OneAddress, QuietReadExact, Looking
  <2>3. QED
    BY <2>1, <2>2
<1>4. QED
  BY <1>1, <1>2, <1>3, SessionTableTypeOK, PTL DEF Spec

-----------------------------------------------------------------------------
(* The table implements the map of SessionMap *)


\* What is in the table, and in a copy of it, was put there.
StoredInv ==
    /\ wpc # "idle" => put.addr \in Addr
    /\ wpc \in {"hi", "peer", "even", "show"} => addr_lo[put.slot] = put.addr
    /\ \A s \in Slot : valid[s] => sender_index[s] \in Index /\ addr_lo[s] \in Addr
    /\ rpc \in Inspecting => addr_lo[At] \in Addr
    /\ rpc \in {"hi", "seq2", "revalid", "reindex"} => rd.lo \in Addr
    /\ rd.found >= 0 => rd.foundlo \in Addr

\* What a lookup has seen includes the answers of now.
SeenInv == IF Looking THEN Map!Answers(Shown, rd.index) \subseteq seen ELSE seen = {}

\* A lookup that comes back empty has seen its index unbound: as long as it has
\* not, the entry is still ahead of it.
MissInv ==
    /\ Looking /\ rpc \in Scanning =>
          \/ NoAddr \in seen
          \/ \E n \in rd.k .. Probe - 1 : /\ valid[ProbeSlot(rd.index, n)]
                                          /\ sender_index[ProbeSlot(rd.index, n)] = rd.index
    /\ Looking /\ rpc = "dropped" => NoAddr \in seen

\* The slot under inspection, while not more than one put has begun.
MatchInv ==
    /\ rpc \in Inspecting => valid[At] \/ Writing(At)
    /\ Looking /\ rpc \in Inspecting =>
          /\ rd.overlaps = 0 => valid[At]
          /\ wpc = "odd" /\ Writing(At) /\ sender_index[At] = rd.index => addr_lo[At] \in seen
    /\ Looking /\ rpc \in Matched =>
          /\ rd.overlaps = 0 => sender_index[At] = rd.index
          /\ rd.overlaps <= 1 /\ wpc \in {"odd", "index"} /\ Writing(At)
                => sender_index[At] = rd.index

\* Address a of the slot under inspection is a right answer, or will be when
\* the put in progress is done, or the slot is another index's by now.
Good(a) ==
    \/ a \in seen
    \/ sender_index[At] # rd.index
    \/ Writing(At) /\ put.index = rd.index /\ put.addr = a

\* What a lookup has copied, and what it has found.
AnswerInv ==
    Looking /\ rd.overlaps <= 1 =>
        /\ rpc \in {"lo", "hi", "seq2"} /\ rd.s1 = seq[At] => Good(addr_lo[At])
        /\ rpc = "revalid" => Good(rd.lo)
        /\ rpc = "reindex" => rd.lo \in seen \/ sender_index[At] # rd.index

LookupInv == StoredInv /\ LocalsInv /\ SeenInv /\ MissInv /\ MatchInv /\ AnswerInv
-----------------------------------------------------------------------------
(* What is seen of a step *)

\* An entry that is shown is an answer.
LEMMA ShownAnswer ==
    ASSUME NEW s \in Slot, NEW i \in Index,
           valid[s], sender_index[s] = i, addr_lo[s] \in Addr
    PROVE  addr_lo[s] \in Map!Answers(Shown, i)
<1>1. <<i, addr_lo[s]>> \in Shown
  BY DEF Shown
<1>2. addr_lo[s] # NoAddr
  BY AddrAssumption
<1>3. QED
  BY <1>1, <1>2 DEF Map!Answers

\* So is one that a step shows.
LEMMA ShownAnswerNext ==
    ASSUME NEW s \in Slot, NEW i \in Index,
           valid'[s], sender_index'[s] = i, addr_lo'[s] \in Addr
    PROVE  addr_lo'[s] \in Map!Answers(Shown', i)
<1>1. <<i, addr_lo'[s]>> \in Shown'
  BY DEF Shown
<1>2. addr_lo'[s] # NoAddr
  BY AddrAssumption
<1>3. QED
  BY <1>1, <1>2 DEF Map!Answers

\* An index that no entry has is unbound.
LEMMA NoneAnswer ==
    ASSUME NEW i \in Index, \A s \in Slot : valid[s] => sender_index[s] # i
    PROVE  NoAddr \in Map!Answers(Shown, i)
  BY DEF Map!Answers, Shown

LEMMA NoneAnswerNext ==
    ASSUME NEW i \in Index, \A s \in Slot : valid'[s] => sender_index'[s] # i
    PROVE  NoAddr \in Map!Answers(Shown', i)
  BY DEF Map!Answers, Shown

\* A lookup forgets nothing of what it has seen, and sees the answers of now.
LEMMA SeenStep ==
    ASSUME Sees, rpc # "idle" /\ Looking' => rd'.index = rd.index
    PROVE  /\ SeenInv'
           /\ rpc # "idle" /\ Looking' => seen \subseteq seen'
  BY DEF Sees, SeenInv, Looking

\* A step that shows nothing new adds nothing.
LEMMA SeenStutter ==
    ASSUME Sees, SeenInv, LocalsInv, Shown' = Shown, rd'.op = rd.op, rd'.index = rd.index
    PROVE  seen' = seen
  BY DEF Sees, SeenInv, LocalsInv, Looking

-----------------------------------------------------------------------------
(* The steps of a put *)

\* What the steps of a put after its first leave alone.
LEMMA PutStepFrame ==
    ASSUME TypeOK, IndexInv, PutStep
    PROVE  /\ rd' = rd /\ rpc' = rpc /\ At' = At /\ At \in Slot
           /\ wpc # "idle" /\ put.slot \in Slot /\ ~valid[put.slot]
           /\ put.index \in Index
           /\ \A s \in Slot : valid[s] => /\ valid'[s]
                                          /\ sender_index'[s] = sender_index[s]
                                          /\ addr_lo'[s] = addr_lo[s]
<1>1. rd' = rd /\ rpc' = rpc
  BY DEF PutStep, PutSeqOdd, PutIndex, PutAddrLo, PutAddrHi, PutPeer, PutSeqEven, PutShow, reader
<1>2. At' = At /\ At \in Slot
  BY <1>1, AtInTable DEF At, ProbeSlot
<1>3. wpc # "idle" /\ put.slot \in Slot
  BY DEF PutStep, PutSeqOdd, PutIndex, PutAddrLo, PutAddrHi, PutPeer, PutSeqEven, PutShow,
         TypeOK, Putting
<1>4. ~valid[put.slot] /\ put.index \in Index
  BY <1>3 DEF IndexInv, WriterInv
<1>5. \A s \in Slot : valid[s] => /\ valid'[s]
                                  /\ sender_index'[s] = sender_index[s]
                                  /\ addr_lo'[s] = addr_lo[s]
  BY <1>3, <1>4 DEF PutStep, PutSeqOdd, PutIndex, PutAddrLo, PutAddrHi, PutPeer, PutSeqEven, PutShow,
         TypeOK
<1>6. QED
  BY <1>1, <1>2, <1>3, <1>4, <1>5

\* What a put in progress does to the slot it rewrites, and only to it.
LEMMA PutStepSlot ==
    ASSUME TypeOK, IndexInv, PutStep
    PROVE  /\ \A s \in Slot : s # put.slot =>
                 /\ valid'[s] = valid[s]
                 /\ sender_index'[s] = sender_index[s]
                 /\ addr_lo'[s] = addr_lo[s]
                 /\ seq'[s] = seq[s]
           /\ \/ wpc = "odd" /\ wpc' = "index" /\ UNCHANGED <<valid, sender_index, addr_lo, put>>
                             /\ seq'[put.slot] = seq[put.slot] + 1
              \/ wpc = "index" /\ wpc' = "lo" /\ UNCHANGED <<valid, seq, addr_lo, put>>
                               /\ sender_index'[put.slot] = put.index
              \/ wpc = "lo" /\ wpc' = "hi" /\ UNCHANGED <<valid, sender_index, seq, put>>
                            /\ addr_lo'[put.slot] = put.addr
              \/ wpc = "hi" /\ wpc' = "peer" /\ UNCHANGED <<valid, sender_index, seq, addr_lo, put>>
              \/ wpc = "peer" /\ wpc' = "even" /\ UNCHANGED <<valid, sender_index, seq, addr_lo, put>>
              \/ wpc = "even" /\ wpc' = "show" /\ UNCHANGED <<valid, sender_index, addr_lo, put>>
                              /\ seq'[put.slot] = seq[put.slot] + 1
              \/ wpc = "show" /\ wpc' = "idle" /\ UNCHANGED <<sender_index, seq, addr_lo>>
                              /\ valid'[put.slot] = TRUE
<1>1. put.slot \in Slot
  BY PutStepFrame
<1>2. CASE PutSeqOdd
  BY <1>1, <1>2 DEF PutSeqOdd, TypeOK
<1>3. CASE PutIndex
  BY <1>1, <1>3 DEF PutIndex, TypeOK
<1>4. CASE PutAddrLo
  BY <1>1, <1>4 DEF PutAddrLo, TypeOK
<1>5. CASE PutAddrHi
  BY <1>1, <1>5 DEF PutAddrHi, TypeOK
<1>6. CASE PutPeer
  BY <1>1, <1>6 DEF PutPeer, TypeOK
<1>7. CASE PutSeqEven
  BY <1>1, <1>7 DEF PutSeqEven, TypeOK
<1>8. CASE PutShow
  BY <1>1, <1>8 DEF PutShow, TypeOK
<1>9. QED
  BY <1>2, <1>3, <1>4, <1>5, <1>6, <1>7, <1>8 DEF PutStep

\* A put in progress keeps what the reader relies on.
LEMMA PutStepLookupInv ==
    ASSUME TypeOK, IndexInv, SeqlockInv, LookupInv, PutStep, Sees
    PROVE  LookupInv'
<1>1. /\ rd' = rd /\ rpc' = rpc /\ At' = At /\ At \in Slot
      /\ wpc # "idle" /\ put.slot \in Slot /\ ~valid[put.slot]
      /\ put.index \in Index
      /\ \A s \in Slot : valid[s] => /\ valid'[s]
                                     /\ sender_index'[s] = sender_index[s]
                                     /\ addr_lo'[s] = addr_lo[s]
  BY PutStepFrame
<1>2. rd \in Reading /\ seq \in [Slot -> Nat] /\ valid \in [Slot -> BOOLEAN]
  BY DEF TypeOK
<1>3. SeenInv' /\ (Looking => seen \subseteq seen')
  BY <1>1, SeenStep DEF LookupInv, LocalsInv, Looking
<1>4. LocalsInv'
  BY <1>1 DEF LookupInv, LocalsInv, Looking
<1>5. MissInv'
  <2> SUFFICES ASSUME Looking, rpc \in Scanning, NoAddr \notin seen
               PROVE  \E n \in rd.k .. Probe - 1 :
                          /\ valid'[ProbeSlot(rd.index, n)]
                          /\ sender_index'[ProbeSlot(rd.index, n)] = rd.index
    BY <1>1, <1>3 DEF LookupInv, MissInv, Looking, ProbeSlot
  <2>1. PICK n \in rd.k .. Probe - 1 : /\ valid[ProbeSlot(rd.index, n)]
                                       /\ sender_index[ProbeSlot(rd.index, n)] = rd.index
    BY DEF LookupInv, MissInv
  <2>2. rd.index \in AnyIndex /\ n \in Nat
    BY <1>2, SizeAssumption DEF Reading, Slot
  <2>3. ProbeSlot(rd.index, n) \in Slot
    BY <2>2, ProbeInTable
  <2>4. QED
    BY <1>1, <2>1, <2>3
<1>6. StoredInv'
  <2>1. put.addr \in Addr
    BY <1>1 DEF LookupInv, StoredInv
  <2>2. (wpc' # "idle" => put'.addr \in Addr)
        /\ (wpc' \in {"hi", "peer", "even", "show"} => addr_lo'[put'.slot] = put'.addr)
    BY <1>1, <2>1, PutStepSlot DEF LookupInv, StoredInv
  <2>3. wpc = "show" => sender_index[put.slot] \in Index /\ addr_lo[put.slot] \in Addr
    BY <1>1, <2>1 DEF LookupInv, StoredInv, IndexInv, WriterInv
  <2>4. \A s \in Slot : valid'[s] => sender_index'[s] \in Index /\ addr_lo'[s] \in Addr
    BY <1>1, <2>3, PutStepSlot DEF LookupInv, StoredInv
  <2>5. rpc \in Inspecting => addr_lo'[At] \in Addr
    BY <1>1, <2>1, PutStepSlot DEF LookupInv, StoredInv
  <2>6. QED
    BY <1>1, <2>2, <2>4, <2>5 DEF LookupInv, StoredInv
<1>7. MatchInv'
  <2>1. Writing(At) => valid'[At] \/ Writing(At)'
    BY <1>1, PutStepSlot DEF Writing
  <2>2. rpc \in Inspecting => valid'[At] \/ Writing(At)'
    BY <1>1, <2>1 DEF LookupInv, MatchInv
  <2>3. wpc' # "odd"
    BY PutStepSlot
  <2>4. wpc' \in {"odd", "index"} /\ Writing(At)' =>
           wpc = "odd" /\ Writing(At) /\ sender_index' = sender_index
    BY <1>1, PutStepSlot DEF Writing
  <2>5. valid[At] => valid'[At] /\ sender_index'[At] = sender_index[At]
    BY <1>1
  <2>6. QED
    BY <1>1, <2>2, <2>3, <2>4, <2>5 DEF LookupInv, MatchInv, Looking, Matched, Inspecting
<1>8. AnswerInv'
  <2> DEFINE GoodNow(a) == \/ a \in seen'
                           \/ sender_index'[At] # rd.index
                           \/ Writing(At)' /\ put'.index = rd.index /\ put'.addr = a
  <2> SUFFICES ASSUME Looking, rd.overlaps <= 1
               PROVE  /\ rpc \in {"lo", "hi", "seq2"} /\ rd.s1 = seq'[At] => GoodNow(addr_lo'[At])
                      /\ rpc = "revalid" => GoodNow(rd.lo)
                      /\ rpc = "reindex" => rd.lo \in seen' \/ sender_index'[At] # rd.index
    BY <1>1 DEF AnswerInv, Looking, Good, Writing
  <2>1. rpc \in Matched /\ At = put.slot /\ wpc \in {"odd", "index"} => sender_index[At] = rd.index
    BY <1>1 DEF LookupInv, MatchInv, Writing
  <2>2. wpc = "show" => /\ sender_index[put.slot] = put.index /\ addr_lo[put.slot] = put.addr
                        /\ put.addr \in Addr
    BY DEF LookupInv, StoredInv, IndexInv, WriterInv
  <2>3. wpc = "show" /\ put.index = rd.index => put.addr \in seen'
    <3> SUFFICES ASSUME wpc = "show", put.index = rd.index
                 PROVE  put.addr \in seen'
      OBVIOUS
    <3>1. /\ valid'[put.slot] /\ sender_index'[put.slot] = put.index
          /\ addr_lo'[put.slot] = put.addr
      BY <2>2, PutStepSlot
    <3>2. put.addr \in Map!Answers(Shown', put.index)
      BY <1>1, <2>2, <3>1, ShownAnswerNext
    <3>3. QED
      BY <1>1, <1>3, <3>2 DEF SeenInv, Looking
  <2>4. ASSUME NEW a, Good(a), rpc \in Matched PROVE GoodNow(a)
    <3>1. CASE a \in seen
      BY <1>3, <3>1 DEF Good
    <3>2. CASE sender_index[At] # rd.index
      BY <1>1, <2>1, <2>4, <3>2, PutStepSlot DEF Good
    <3>3. CASE Writing(At) /\ put.index = rd.index /\ put.addr = a
      BY <1>1, <2>3, <3>3, PutStepSlot DEF Good, Writing
    <3>4. QED
      BY <2>4, <3>1, <3>2, <3>3 DEF Good
  <2>5. rpc \in {"lo", "hi", "seq2"} /\ rd.s1 = seq'[At] => rd.s1 = seq[At] /\ addr_lo'[At] = addr_lo[At]
    <3>1. \/ seq'[At] = seq[At] /\ addr_lo'[At] = addr_lo[At]
          \/ seq'[At] > seq[At]
          \/ seq'[At] = seq[At] /\ seq[At] % 2 = 1
      BY <1>1, WriterSeqStep DEF SeqlockInv
    <3>2. rpc \in {"lo", "hi", "seq2"} => rd.s1 % 2 = 0 /\ rd.s1 <= seq[At]
      BY DEF SeqlockInv, CopyInv
    <3>3. rd.s1 \in Nat /\ seq[At] \in Nat
      BY <1>1, <1>2 DEF Reading
    <3>4. seq'[At] > seq[At] /\ rd.s1 <= seq[At] => rd.s1 # seq'[At]
      <4>1. seq'[At] \in Nat
        BY <1>1, TypeOKStep DEF TypeOK, Next
      <4>2. QED
        BY <3>3, <4>1
    <3>5. QED
      BY <3>1, <3>2, <3>4
  <2>6. rpc \in {"lo", "hi", "seq2"} /\ rd.s1 = seq'[At] => GoodNow(addr_lo'[At])
    <3> SUFFICES ASSUME rpc \in {"lo", "hi", "seq2"}, rd.s1 = seq'[At] PROVE GoodNow(addr_lo'[At])
      OBVIOUS
    <3>1. Good(addr_lo[At]) /\ addr_lo'[At] = addr_lo[At] /\ rpc \in Matched
      BY <2>5 DEF LookupInv, AnswerInv, Matched, Inspecting
    <3>2. QED
      BY <2>4, <3>1
  <2>7. rpc = "revalid" => GoodNow(rd.lo)
    <3> SUFFICES ASSUME rpc = "revalid" PROVE GoodNow(rd.lo)
      OBVIOUS
    <3>1. Good(rd.lo) /\ rpc \in Matched
      BY DEF LookupInv, AnswerInv, Matched, Inspecting
    <3>2. QED
      BY <2>4, <3>1
  <2>8. rpc = "reindex" => rd.lo \in seen' \/ sender_index'[At] # rd.index
    <3> SUFFICES ASSUME rpc = "reindex" PROVE rd.lo \in seen' \/ sender_index'[At] # rd.index
      OBVIOUS
    <3>1. rpc \in Matched
      BY DEF Matched, Inspecting
    <3>2. rd.lo \in seen \/ sender_index[At] # rd.index
      BY DEF LookupInv, AnswerInv
    <3>3. QED
      BY <1>1, <1>3, <2>1, <3>1, <3>2, PutStepSlot
  <2>9. QED
    BY <2>6, <2>7, <2>8
<1>9. QED
  BY <1>3, <1>4, <1>5, <1>6, <1>7, <1>8 DEF LookupInv

\* A put that begins keeps it, too: it hides one slot and counts as one put.
LEMMA PutBeginLookupInv ==
    ASSUME TypeOK, IndexInv, LookupInv, Sees,
           NEW i \in Index, NEW a \in Addr, PutBegin(i, a)
    PROVE  LookupInv'
<1>1. PICK s \in Slot :
         /\ put' = [slot |-> s, index |-> i, addr |-> a,
                    keep |-> valid[s] /\ sender_index[s] = i]
         /\ valid' = [valid EXCEPT ![s] = FALSE]
         /\ rd' = [rd EXCEPT !.quiet = FALSE,
                             !.overlaps = IF rpc = "idle" THEN 0 ELSE @ + 1,
                             !.raced = @ \/ (rpc \in {"ifindex", "store"} /\ rd.found = s)]
  BY DEF PutBegin
<1>2. /\ wpc = "idle" /\ wpc' = "odd" /\ rpc' = rpc
      /\ UNCHANGED <<sender_index, seq, addr_lo>>
  BY DEF PutBegin
<1>3. /\ rd'.op = rd.op /\ rd'.index = rd.index /\ rd'.k = rd.k /\ rd'.s1 = rd.s1
      /\ rd'.lo = rd.lo /\ rd'.found = rd.found /\ rd'.foundlo = rd.foundlo
      /\ rd'.overlaps = IF rpc = "idle" THEN 0 ELSE rd.overlaps + 1
  BY <1>1 DEF TypeOK, Reading
<1>4. At' = At /\ At \in Slot /\ put'.slot = s /\ rd.overlaps \in Nat
  BY <1>1, <1>3, AtInTable DEF At, ProbeSlot, TypeOK, Reading
<1>5. \A t \in Slot : /\ valid'[t] <=> valid[t] /\ t # s
                      /\ Writing(t)' <=> t = s
                      /\ ~Writing(t)
  BY <1>1, <1>2 DEF Writing, TypeOK
<1>6. SeenInv' /\ (Looking => rpc # "idle" /\ seen \subseteq seen')
  BY <1>3, SeenStep DEF LookupInv, LocalsInv, Looking
<1>7. LocalsInv'
  BY <1>2, <1>3 DEF LookupInv, LocalsInv, Looking
<1>8. StoredInv'
  <2>1. put'.addr \in Addr /\ wpc' \notin {"hi", "peer", "even", "show"}
    BY <1>1, <1>2
  <2>2. QED
    BY <1>2, <1>3, <1>4, <1>5, <2>1 DEF LookupInv, StoredInv
<1>9. MissInv'
  <2>1. Looking /\ rpc = "dropped" => NoAddr \in seen'
    BY <1>6 DEF LookupInv, MissInv
  <2> SUFFICES ASSUME Looking, rpc \in Scanning, NoAddr \notin seen'
               PROVE  \E n \in rd.k .. Probe - 1 :
                          /\ valid'[ProbeSlot(rd.index, n)]
                          /\ sender_index[ProbeSlot(rd.index, n)] = rd.index
    BY <1>2, <1>3, <2>1 DEF MissInv, Looking, ProbeSlot
  <2>2. PICK n \in rd.k .. Probe - 1 : /\ valid[ProbeSlot(rd.index, n)]
                                       /\ sender_index[ProbeSlot(rd.index, n)] = rd.index
    BY <1>6 DEF LookupInv, MissInv
  <2>3. n \in Nat /\ rd.index \in Index /\ rd.index \in AnyIndex
    BY SizeAssumption DEF TypeOK, Reading, Slot, LookupInv, LocalsInv, AnyIndex
  <2>4. ProbeSlot(rd.index, n) \in Slot
    BY <2>3, ProbeInTable
  <2>5. CASE ProbeSlot(rd.index, n) # s
    BY <1>5, <2>2, <2>4, <2>5
  <2>6. CASE ProbeSlot(rd.index, n) = s
    <3>1. \A t \in Slot : valid[t] /\ sender_index[t] = rd.index => t = s
      BY <1>5, <2>2, <2>3, <2>6 DEF IndexInv, NoDuplicateIndex, Holds
    <3>2. NoAddr \in Map!Answers(Shown', rd.index)
      BY <1>2, <1>5, <2>3, <3>1, NoneAnswerNext
    <3>3. QED
      BY <1>3, <1>6, <3>2 DEF SeenInv, Looking
  <2>7. QED
    BY <2>5, <2>6
<1>10. MatchInv'
  <2>1. rpc \in Inspecting => valid[At]
    BY <1>4, <1>5 DEF LookupInv, MatchInv
  <2>2. rpc \in Inspecting => rd'.overlaps # 0 /\ (rd'.overlaps <= 1 => rd.overlaps = 0)
    BY <1>3, <1>4 DEF Inspecting
  <2>3. Looking /\ rpc \in Inspecting /\ sender_index[At] = rd.index => addr_lo[At] \in seen'
    <3> SUFFICES ASSUME Looking, rpc \in Inspecting, sender_index[At] = rd.index
                 PROVE  addr_lo[At] \in seen'
      OBVIOUS
    <3>1. rd.index \in Index /\ addr_lo[At] \in Addr
      BY DEF LookupInv, LocalsInv, StoredInv
    <3>2. addr_lo[At] \in Map!Answers(Shown, rd.index)
      BY <1>4, <2>1, <3>1, ShownAnswer
    <3>3. QED
      BY <1>6, <3>2 DEF LookupInv, SeenInv
  <2>4. Looking /\ rpc \in Matched /\ rd.overlaps = 0 => sender_index[At] = rd.index
    BY DEF LookupInv, MatchInv
  <2>5. rpc \in Matched => rpc \in Inspecting
    BY DEF Matched
  <2>6. QED
    BY <1>2, <1>3, <1>4, <1>5, <2>1, <2>2, <2>3, <2>4, <2>5 DEF MatchInv, Looking
<1>11. AnswerInv'
  <2> SUFFICES ASSUME Looking, rd'.overlaps <= 1
               PROVE  /\ rpc \in {"lo", "hi", "seq2"} /\ rd.s1 = seq[At] =>
                            addr_lo[At] \in seen' \/ sender_index[At] # rd.index
                      /\ rpc = "revalid" => rd.lo \in seen' \/ sender_index[At] # rd.index
                      /\ rpc = "reindex" => rd.lo \in seen' \/ sender_index[At] # rd.index
    BY <1>2, <1>3, <1>4 DEF AnswerInv, Looking, Good
  <2>1. rd.overlaps <= 1
    BY <1>3, <1>4, <1>6
  <2>2. QED
    BY <1>4, <1>5, <1>6, <2>1 DEF LookupInv, AnswerInv, Good
<1>12. QED
  BY <1>6, <1>7, <1>8, <1>9, <1>10, <1>11 DEF LookupInv

-----------------------------------------------------------------------------
(* The steps of a lookup *)

\* The reader's table: what its steps do not change.
TableKept == UNCHANGED <<valid, sender_index, seq, addr_lo, addr_hi, wpc, put>>

\* The slot under inspection is done with, and does not have the index.
LEMMA NextSlotLookupInv ==
    ASSUME TypeOK, LookupInv, Sees, TableKept, rpc \in Scanning,
           NEW r \in Reading, NextSlot(r),
           r.op = rd.op, r.index = rd.index, r.k = rd.k, r.overlaps = rd.overlaps,
           Looking => r = rd,
           r.found >= 0 => r.foundlo \in Addr,
           Looking /\ valid[At] => sender_index[At] # rd.index
    PROVE  LookupInv'
<1>1. rpc # "idle" /\ rd.op \in {"lookup", "sole"} /\ rd \in Reading
  BY DEF Scanning, Inspecting, LookupInv, LocalsInv, TypeOK
<1>2. /\ rd'.op = rd.op /\ rd'.index = rd.index /\ rd'.overlaps = rd.overlaps
      /\ rd'.found = r.found /\ rd'.foundlo = r.foundlo
      /\ \/ rpc' = "valid" /\ rd'.k = rd.k + 1 /\ rd.k + 1 < ScanLength
         \/ rd' = r /\ rpc' = "routed" /\ r.found >= 0
         \/ rd' = r /\ rpc' = "dropped" /\ r.found < 0 /\ ~(rd.k + 1 < ScanLength)
  <2>1. r.found \in Int
    BY DEF Reading, Slot
  <2>2. QED
    BY <2>1 DEF NextSlot, Reading
<1>3. SeenInv' /\ seen' = seen
  <2>1. Shown' = Shown
    BY DEF Shown, TableKept
  <2>2. QED
    BY <1>1, <1>2, <2>1, SeenStep, SeenStutter DEF LookupInv
<1>4. rpc' \in {"valid", "routed", "dropped"}
  BY <1>2
<1>5. Looking => r.found < 0 /\ rpc' # "routed"
  <2>1. r.found \in Int
    BY DEF Reading, Slot
  <2>2. Looking => r.found < 0
    BY DEF LookupInv, LocalsInv
  <2>3. QED
    BY <1>2, <2>1, <2>2
<1>6. LocalsInv'
  <2>1. Looking => rd.k \in Tries /\ (rd.k + 1 < ScanLength => rd.k + 1 \in Tries)
    BY ProbeAssumption, SizeAssumption DEF LookupInv, LocalsInv, Looking, ScanLength, Tries
  <2>2. Looking => rd'.k \in Tries
    BY <1>2, <2>1
  <2>3. QED
    BY <1>1, <1>2, <1>4, <1>5, <2>2 DEF LookupInv, LocalsInv, Looking, Hit
<1>7. StoredInv'
  BY <1>2, <1>4 DEF LookupInv, StoredInv, TableKept, Inspecting
<1>8. MissInv'
  <2>1. CASE ~Looking \/ NoAddr \in seen
    BY <1>2, <1>3, <2>1 DEF MissInv, Looking
  <2>2. CASE Looking /\ NoAddr \notin seen
    <3>1. PICK n \in rd.k .. Probe - 1 : /\ valid[ProbeSlot(rd.index, n)]
                                         /\ sender_index[ProbeSlot(rd.index, n)] = rd.index
      BY <2>2 DEF LookupInv, MissInv
    <3>2. At = ProbeSlot(rd.index, rd.k) /\ ScanLength = Probe
      BY <2>2 DEF At, ScanLength, Looking
    <3>3. n # rd.k
      BY <2>2, <3>1, <3>2
    <3>4. rd.k \in Nat
      BY SizeAssumption, <1>1 DEF Reading, Slot
    <3>5. n \in rd.k + 1 .. Probe - 1
      BY <3>3, <3>4
    <3>6. rpc' = "valid" /\ rd'.k = rd.k + 1
      BY ProbeAssumption, SizeAssumption, <1>2, <1>5, <2>2, <3>2, <3>4, <3>5
    <3>7. QED
      BY <1>2, <3>1, <3>5, <3>6 DEF MissInv, TableKept, ProbeSlot
  <2>3. QED
    BY <2>1, <2>2
<1>9. MatchInv' /\ AnswerInv'
  BY <1>4 DEF MatchInv, AnswerInv, Inspecting, Matched
<1>10. QED
  BY <1>3, <1>6, <1>7, <1>8, <1>9 DEF LookupInv

\* The reader goes on with the slot under inspection.
LEMMA ForwardFrame ==
    ASSUME TypeOK, LookupInv, Sees, TableKept, rpc \in Scanning, rpc' \in Scanning,
           rd'.op = rd.op, Looking => rd'.index = rd.index, rd'.k = rd.k,
           rd'.overlaps = rd.overlaps, rd'.found = rd.found, rd'.foundlo = rd.foundlo
    PROVE  /\ At' = At /\ At \in Slot /\ seen' = seen
           /\ \A s \in Slot : Writing(s)' <=> Writing(s)
           /\ LocalsInv' /\ SeenInv' /\ MissInv'
<1>1. rpc # "idle" /\ rd.op \in {"lookup", "sole"}
  BY DEF Scanning, Inspecting, LookupInv, LocalsInv
<1>2. At' = At /\ At \in Slot
  BY AtInTable DEF At, ProbeSlot, Looking
<1>3. SeenInv'
  BY SeenStep, <1>1 DEF Looking
<1>4. seen' = seen
  <2>1. Shown' = Shown
    BY DEF Shown, TableKept
  <2>2. QED
    BY <1>1, <2>1 DEF Sees, LookupInv, SeenInv, Looking
<1>5. LocalsInv'
  BY <1>1 DEF LookupInv, LocalsInv, Looking, Scanning, Inspecting, Hit
<1>6. MissInv'
  BY <1>4 DEF LookupInv, MissInv, Looking, TableKept, ProbeSlot, Scanning, Inspecting
<1>7. QED
  BY <1>2, <1>3, <1>4, <1>5, <1>6 DEF Writing, TableKept

\* The scan is over, or not yet begun: nothing is claimed of a slot.
LEMMA RestFrame ==
    ASSUME LookupInv, Sees, TableKept, rpc' \notin Scanning,
           LocalsInv', rd'.found >= 0 => rd'.foundlo \in Addr,
           rpc # "idle" /\ Looking' => Looking /\ rd'.index = rd.index,
           Looking' /\ rpc' = "dropped" => rpc = "dropped"
    PROVE  LookupInv'
<1>1. rpc' \notin Inspecting
  BY DEF Scanning
<1>2. SeenInv' /\ (rpc # "idle" /\ Looking' => seen \subseteq seen')
  BY SeenStep
<1>3. MissInv'
  BY <1>2 DEF LookupInv, MissInv
<1>4. StoredInv'
  BY <1>1 DEF LookupInv, StoredInv, TableKept, Inspecting
<1>5. MatchInv' /\ AnswerInv'
  BY <1>1 DEF MatchInv, AnswerInv, Inspecting, Matched
<1>6. QED
  BY <1>2, <1>3, <1>4, <1>5 DEF LookupInv

\* A lookup or a search begins.
LEMMA ReadBeginLookupInv ==
    ASSUME TypeOK, IndexInv, LookupInv, Sees,
           NEW op \in {"lookup", "sole"}, NEW i \in Index, ReadBegin(op, i)
    PROVE  LookupInv'
<1>1. /\ rpc = "idle" /\ rpc' = "valid" /\ TableKept
      /\ rd'.op = op /\ rd'.index = i /\ rd'.k = 0 /\ rd'.found = -1 /\ rd'.overlaps = 0
  BY DEF ReadBegin, NoRead, table, writer, TableKept
<1>2. rpc' \notin Inspecting /\ rpc' \notin Hit /\ 0 \in Tries
  BY <1>1, ProbeAssumption, SizeAssumption DEF Inspecting, Hit, Tries
<1>3. SeenInv'
  BY <1>1, SeenStep
<1>4. LocalsInv'
  BY <1>1, <1>2 DEF LocalsInv, Looking
<1>5. StoredInv'
  BY <1>1, <1>2 DEF LookupInv, StoredInv, TableKept, Inspecting
<1>6. MissInv'
  <2> SUFFICES ASSUME op = "lookup", NoAddr \notin seen'
               PROVE  \E n \in 0 .. Probe - 1 : /\ valid[ProbeSlot(i, n)]
                                                /\ sender_index[ProbeSlot(i, n)] = i
    BY <1>1 DEF MissInv, Looking, TableKept, ProbeSlot
  <2>1. ~ \A s \in Slot : valid'[s] => sender_index'[s] # i
    BY <1>1, <1>3, NoneAnswerNext DEF SeenInv, Looking
  <2>2. PICK s \in Slot : valid[s] /\ sender_index[s] = i
    BY <1>1, <2>1 DEF TableKept
  <2>3. Holds(s, i)
    BY <2>2 DEF Holds, Writing, IndexInv, WriterInv
  <2>4. \E n \in Tries : s = ProbeSlot(i, n)
    BY <2>3 DEF IndexInv, EntryReachable
  <2>5. QED
    BY <2>2, <2>4 DEF Tries
<1>7. MatchInv' /\ AnswerInv'
  BY <1>1, <1>2 DEF MatchInv, AnswerInv, Inspecting, Matched
<1>8. QED
  BY <1>3, <1>4, <1>5, <1>6, <1>7 DEF LookupInv

\* A step of the scan.
LEMMA ScanLookupInv ==
    ASSUME TypeOK, IndexInv, SeqlockInv, LookupInv, Sees, TableKept,
           ReadValid \/ ReadIndex \/ ReadSeq1 \/ ReadLo \/ ReadHi \/ ReadSeq2 \/ ReadRevalid
    PROVE  LookupInv'
<1>0. At \in Slot /\ rd \in Reading /\ TypeOK'
  <2>1. Next
    BY DEF Next, ReadStep
  <2>2. QED
    BY <2>1, AtInTable, TypeOKStep DEF TypeOK
<1>1. valid[At] => ~Writing(At)
  BY DEF IndexInv, WriterInv, Writing
<1>2. rd.found >= 0 => rd.foundlo \in Addr
  BY DEF LookupInv, StoredInv
<1>3. Looking => rd.index \in Index /\ rd.k \in Tries
  BY DEF LookupInv, LocalsInv
<1>4. valid[At] => sender_index[At] \in Index /\ addr_lo[At] \in Addr
  BY <1>0 DEF LookupInv, StoredInv
<1>5. Looking /\ valid[At] /\ sender_index[At] = rd.index => addr_lo[At] \in seen
  <2> SUFFICES ASSUME Looking, valid[At], sender_index[At] = rd.index
               PROVE  addr_lo[At] \in seen
    OBVIOUS
  <2>1. addr_lo[At] \in Map!Answers(Shown, rd.index)
    BY <1>0, <1>3, <1>4, ShownAnswer
  <2>2. QED
    BY <2>1 DEF LookupInv, SeenInv
<1>6. CASE ReadValid
  <2>1. CASE ~valid[At]
    <3>1. NextSlot(rd) /\ rpc \in Scanning
      BY <1>6, <2>1 DEF ReadValid, Scanning
    <3>2. QED
      BY <1>0, <1>2, <2>1, <3>1, NextSlotLookupInv
  <2>2. CASE valid[At]
    <3>1. rpc = "valid" /\ rpc' = "index" /\ rd' = rd
      BY <1>6, <2>2 DEF ReadValid
    <3>2. rpc \in Scanning /\ rpc' \in Scanning
      BY <3>1 DEF Scanning, Inspecting
    <3>3. /\ At' = At /\ seen' = seen /\ \A s \in Slot : Writing(s)' <=> Writing(s)
          /\ LocalsInv' /\ SeenInv' /\ MissInv'
      BY <3>1, <3>2, ForwardFrame
    <3>4. StoredInv'
      BY <1>4, <2>2, <3>1, <3>3 DEF LookupInv, StoredInv, TableKept
    <3>5. MatchInv'
      BY <1>0, <1>1, <2>2, <3>1, <3>3 DEF MatchInv, TableKept, Matched
    <3>6. AnswerInv'
      BY <3>1 DEF AnswerInv
    <3>7. QED
      BY <3>3, <3>4, <3>5, <3>6 DEF LookupInv
  <2>3. QED
    BY <2>1, <2>2
<1>7. CASE ReadIndex
  <2>1. CASE ~(rd.op = "sole") /\ ~(rd.op = "lookup" /\ sender_index[At] = rd.index)
    <3>1. NextSlot(rd) /\ rpc \in Scanning
      BY <1>7, <2>1 DEF ReadIndex, Scanning, Inspecting
    <3>2. Looking /\ valid[At] => sender_index[At] # rd.index
      BY <2>1 DEF Looking
    <3>3. QED
      BY <1>0, <1>2, <3>1, <3>2, NextSlotLookupInv
  <2>2. CASE rd.op = "sole" \/ (rd.op = "lookup" /\ sender_index[At] = rd.index)
    <3>1. /\ rpc = "index" /\ rpc' = "seq1"
          /\ rd' = [rd EXCEPT !.index = sender_index[At]] \/ (Looking /\ rd' = rd)
      <4>1. CASE rd.op = "sole"
        BY <1>7, <4>1 DEF ReadIndex
      <4>2. CASE rd.op = "lookup" /\ sender_index[At] = rd.index
        BY <1>7, <4>2 DEF ReadIndex, Looking
      <4>3. QED
        BY <2>2, <4>1, <4>2
    <3>2. /\ rpc \in Scanning /\ rpc' \in Scanning
          /\ rd'.op = rd.op /\ rd'.k = rd.k /\ rd'.overlaps = rd.overlaps
          /\ rd'.found = rd.found /\ rd'.foundlo = rd.foundlo
          /\ Looking => rd'.index = rd.index /\ sender_index[At] = rd.index
      BY <1>0, <2>2, <3>1 DEF Scanning, Inspecting, Reading, Looking
    <3>3. /\ At' = At /\ seen' = seen /\ \A s \in Slot : Writing(s)' <=> Writing(s)
          /\ LocalsInv' /\ SeenInv' /\ MissInv'
      BY <3>1, <3>2, ForwardFrame
    <3>4. StoredInv'
      BY <3>1, <3>2, <3>3 DEF LookupInv, StoredInv, TableKept, Inspecting
    <3>5. MatchInv'
      BY <1>0, <3>1, <3>2, <3>3
      DEF LookupInv, MatchInv, TableKept, Matched, Inspecting, Looking
    <3>6. AnswerInv'
      BY <3>1 DEF AnswerInv
    <3>7. QED
      BY <3>3, <3>4, <3>5, <3>6 DEF LookupInv
  <2>3. QED
    BY <2>1, <2>2
<1>8. CASE ReadRevalid /\ ~valid[At]
  <2>1. NextSlot(rd) /\ rpc \in Scanning
    BY <1>8 DEF ReadRevalid, Scanning, Inspecting
  <2>2. QED
    BY <1>0, <1>2, <1>8, <2>1, NextSlotLookupInv
<1>9. CASE ReadSeq1 \/ ReadLo \/ ReadHi \/ ReadSeq2 \/ (ReadRevalid /\ valid[At])
  <2>1. /\ rpc \in Matched /\ rpc' \in Matched
        /\ rd'.op = rd.op /\ rd'.index = rd.index /\ rd'.k = rd.k
        /\ rd'.overlaps = rd.overlaps /\ rd'.found = rd.found /\ rd'.foundlo = rd.foundlo
    BY <1>0, <1>9
    DEF ReadSeq1, ReadLo, ReadHi, ReadSeq2, ReadRevalid, Matched, Inspecting, Reading
  <2>2. rpc \in Inspecting /\ rpc' \in Inspecting /\ rpc \in Scanning /\ rpc' \in Scanning
    BY <2>1 DEF Matched, Scanning
  <2>3. /\ At' = At /\ seen' = seen /\ \A s \in Slot : Writing(s)' <=> Writing(s)
        /\ LocalsInv' /\ SeenInv' /\ MissInv'
    BY <2>1, <2>2, ForwardFrame
  <2>4. MatchInv'
    BY <1>0, <2>1, <2>2, <2>3 DEF LookupInv, MatchInv, TableKept, Looking
  <2>5. addr_lo[At] \in Addr
    BY <2>2 DEF LookupInv, StoredInv
  <2>6. \A x : x \in {"hi", "seq2", "revalid", "reindex"} /\ rpc' = x => rd'.lo \in Addr
    BY <1>0, <1>9, <2>5
    DEF LookupInv, StoredInv, ReadSeq1, ReadLo, ReadHi, ReadSeq2, ReadRevalid, Reading
  <2>7. StoredInv'
    BY <2>1, <2>2, <2>3, <2>5, <2>6 DEF LookupInv, StoredInv, TableKept
  <2>8. AnswerInv'
    <3> SUFFICES ASSUME Looking, rd.overlaps <= 1
                 PROVE  /\ rpc' \in {"lo", "hi", "seq2"} /\ rd'.s1 = seq[At] => Good(addr_lo[At])
                        /\ rpc' = "revalid" => Good(rd'.lo)
                        /\ rpc' = "reindex" => rd'.lo \in seen \/ sender_index[At] # rd.index
      BY <1>0, <2>1, <2>3 DEF AnswerInv, Looking, TableKept, Good
    <3>1. CASE ReadSeq1
      <4>1. seq[At] % 2 = 0 /\ rpc' = "lo"
        BY <3>1 DEF ReadSeq1
      <4>2. CASE ~Writing(At)
        BY <1>5, <2>2, <4>1, <4>2 DEF LookupInv, MatchInv, Good
      <4>3. CASE Writing(At)
        <5>1. wpc \in {"odd", "show"}
          BY <1>0, <4>1, <4>3 DEF SeqlockInv, SeqInv, Rewriting, Writing, TypeOK, WriterStates
        <5>2. CASE wpc = "odd"
          BY <2>1, <2>2, <4>1, <4>3, <5>2 DEF LookupInv, MatchInv, Good
        <5>3. CASE wpc = "show"
          BY <4>1, <4>3, <5>3 DEF LookupInv, StoredInv, IndexInv, WriterInv, Good, Writing
        <5>4. QED
          BY <5>1, <5>2, <5>3
      <4>4. QED
        BY <4>2, <4>3
    <3>2. CASE ReadLo
      <4>1. rpc = "lo" /\ rpc' = "hi" /\ rd'.s1 = rd.s1
        BY <1>0, <3>2 DEF ReadLo, Reading
      <4>2. QED
        BY <4>1 DEF LookupInv, AnswerInv
    <3>3. CASE ReadHi
      <4>1. rpc = "hi" /\ rpc' = "seq2" /\ rd'.s1 = rd.s1
        BY <1>0, <3>3 DEF ReadHi, Reading
      <4>2. QED
        BY <4>1 DEF LookupInv, AnswerInv
    <3>4. CASE ReadSeq2
      <4>1. rpc = "seq2" /\ rpc' = (IF seq[At] = rd.s1 THEN "revalid" ELSE "seq1") /\ rd' = rd
        BY <3>4 DEF ReadSeq2
      <4>2. rd.s1 = seq[At] => rd.lo = addr_lo[At] /\ Good(addr_lo[At])
        BY <4>1 DEF SeqlockInv, CopyInv, LookupInv, AnswerInv
      <4>3. QED
        BY <4>1, <4>2
    <3>5. CASE ReadRevalid /\ valid[At]
      <4>1. rpc = "revalid" /\ rpc' = "reindex" /\ rd' = rd
        BY <3>5 DEF ReadRevalid
      <4>2. QED
        BY <1>1, <3>5, <4>1 DEF LookupInv, AnswerInv, Good
    <3>6. QED
      BY <1>9, <3>1, <3>2, <3>3, <3>4, <3>5
  <2>9. QED
    BY <2>3, <2>4, <2>7, <2>8 DEF LookupInv
<1>10. QED
  BY <1>6, <1>7, <1>8, <1>9

\* The check after the copy, and what follows the scan.
LEMMA EndLookupInv ==
    ASSUME TypeOK, LookupInv, Sees, TableKept,
           ReadReindex \/ ReadEnd \/ PeerIfValid \/ PeerIfIndex \/ PeerStore \/ ResolvePeer
    PROVE  LookupInv'
<1>0. At \in Slot /\ rd \in Reading
  BY AtInTable DEF TypeOK
<1>1. rd.found >= 0 => rd.foundlo \in Addr
  BY DEF LookupInv, StoredInv
<1>2. CASE ReadReindex
  <2> DEFINE hit == [rd EXCEPT !.found = At, !.foundlo = rd.lo, !.foundhi = rd.hi]
  <2>1. rpc = "reindex" /\ rpc \in Scanning
    BY <1>2 DEF ReadReindex, Scanning, Inspecting
  <2>2. /\ hit \in Reading /\ hit.op = rd.op /\ hit.index = rd.index /\ hit.k = rd.k
        /\ hit.overlaps = rd.overlaps /\ hit.found = At /\ hit.foundlo = rd.lo
    BY <1>0 DEF Reading
  <2>3. At >= 0 /\ rd.lo \in Addr
    BY <1>0, <2>1, SizeAssumption DEF Slot, LookupInv, StoredInv
  <2> HIDE DEF hit
  <2>4. CASE NextSlot(rd) /\ (Looking => sender_index[At] # rd.index)
    BY <1>0, <1>1, <2>1, <2>4, NextSlotLookupInv
  <2>5. CASE NextSlot(hit) /\ ~Looking
    BY <2>1, <2>2, <2>3, <2>5, NextSlotLookupInv
  <2>6. CASE rd' = hit /\ rpc' = "routed"
    <3>1. LocalsInv'
      BY <2>1, <2>2, <2>3, <2>6 DEF LookupInv, LocalsInv, Looking, Scanning, Inspecting, Hit
    <3>2. rpc' \notin Scanning
      BY <2>6 DEF Scanning, Inspecting
    <3>3. QED
      BY <2>1, <2>2, <2>3, <2>6, <3>1, <3>2, RestFrame DEF Looking
  <2>7. CASE rd' = [rd EXCEPT !.found = -1] /\ rpc' = "dropped" /\ ~Looking
    <3>1. rd'.op = rd.op /\ rd'.index = rd.index /\ rd'.found = -1
      BY <1>0, <2>7 DEF Reading
    <3>2. LocalsInv'
      BY <2>1, <2>7, <3>1 DEF LookupInv, LocalsInv, Looking, Scanning, Inspecting, Hit
    <3>3. rpc' \notin Scanning
      BY <2>7 DEF Scanning, Inspecting
    <3>4. QED
      BY <2>1, <2>7, <3>1, <3>2, <3>3, RestFrame DEF Looking
  <2>8. QED
    <3>1. rd.op \in {"lookup", "sole"}
      BY <2>1 DEF LookupInv, LocalsInv
    <3>2. CASE sender_index[At] # rd.index
      BY <1>2, <2>4, <3>2 DEF ReadReindex
    <3>3. CASE sender_index[At] = rd.index /\ rd.op = "lookup"
      BY <1>2, <2>6, <3>3 DEF ReadReindex, hit
    <3>4. CASE sender_index[At] = rd.index /\ rd.op = "sole"
      <4>1. ~Looking
        BY <3>4 DEF Looking
      <4>2. \/ NextSlot(hit)
            \/ NextSlot(rd)
            \/ rd' = [rd EXCEPT !.found = -1] /\ rpc' = "dropped"
        BY <1>2, <3>4 DEF ReadReindex, hit
      <4>3. QED
        BY <2>4, <2>5, <2>7, <4>1, <4>2
    <3>5. QED
      BY <3>1, <3>2, <3>3, <3>4
<1>3. CASE rpc' = "idle" /\ rd' = NoRead /\ rpc # "idle"
  <2>1. LocalsInv' /\ ~Looking' /\ ~(rd'.found >= 0) /\ rpc' \notin Scanning
    BY <1>3 DEF LocalsInv, Looking, NoRead, Hit, Scanning, Inspecting
  <2>2. QED
    BY <1>3, <2>1, RestFrame
<1>4. CASE rpc \in Hit /\ rpc' \in Hit /\ rd' = rd
  <2>1. LocalsInv' /\ rpc' \notin Scanning /\ rpc' # "dropped"
    BY <1>4 DEF LookupInv, LocalsInv, Looking, Hit, Scanning, Inspecting
  <2>2. QED
    BY <1>1, <1>4, <2>1, RestFrame DEF Looking
<1>5. QED
  BY <1>2, <1>3, <1>4 DEF ReadEnd, PeerIfValid, PeerIfIndex, PeerStore, ResolvePeer, Hit

-----------------------------------------------------------------------------
(* The refinement *)

SafeInv == TypeOK /\ IndexInv /\ SeqlockInv /\ LookupInv

\* Every step preserves what the refinement rests on.
LEMMA SafeInvStep ==
    ASSUME SafeInv, [LookupNext]_lookupVars
    PROVE  SafeInv'
<1>1. [Next]_vars
  BY DEF LookupNext, lookupVars
<1>2. TypeOK' /\ IndexInv' /\ SeqlockInv'
  BY <1>1, TypeOKStep, IndexInvStep, SeqlockInvStep DEF SafeInv
<1>3. ASSUME Next, Sees PROVE LookupInv'
  <2>1. CASE \E i \in Index, a \in Addr : PutBegin(i, a)
    BY <1>3, <2>1, PutBeginLookupInv DEF SafeInv
  <2>2. CASE PutStep
    BY <1>3, <2>2, PutStepLookupInv DEF SafeInv
  <2>3. CASE \E op \in {"lookup", "sole"}, i \in Index : ReadBegin(op, i)
    BY <1>3, <2>3, ReadBeginLookupInv DEF SafeInv
  <2>4. CASE ReadStep \/ ResolvePeer
    <3>1. TableKept
      BY <2>4, ReaderFrame DEF TableKept
    <3>2. CASE ReadValid \/ ReadIndex \/ ReadSeq1 \/ ReadLo \/ ReadHi \/ ReadSeq2 \/ ReadRevalid
      BY <1>3, <3>1, <3>2, ScanLookupInv DEF SafeInv
    <3>3. CASE ReadReindex \/ ReadEnd \/ PeerIfValid \/ PeerIfIndex \/ PeerStore \/ ResolvePeer
      BY <1>3, <3>1, <3>3, EndLookupInv DEF SafeInv
    <3>4. QED
      BY <2>4, <3>2, <3>3 DEF ReadStep
  <2>5. QED
    BY <1>3, <2>1, <2>2, <2>3, <2>4 DEF Next
<1>4. ASSUME UNCHANGED lookupVars PROVE LookupInv'
  <2>1. /\ TableKept /\ rd' = rd /\ rpc' = rpc /\ seen' = seen
        /\ LookupInv
    BY <1>4 DEF lookupVars, vars, table, writer, reader, TableKept, SafeInv
  <2>2. At' = At /\ Shown' = Shown /\ \A s : Writing(s)' <=> Writing(s)
    BY <2>1 DEF TableKept, At, ProbeSlot, Shown, Writing
  <2>3. StoredInv' /\ LocalsInv' /\ MissInv'
    BY <2>1, <2>2 DEF TableKept, LookupInv, StoredInv, LocalsInv, MissInv, Looking, ProbeSlot
  <2>4. SeenInv'
    BY <2>1, <2>2 DEF LookupInv, SeenInv, Looking, Map!Answers
  <2>5. MatchInv'
    BY <2>1, <2>2 DEF TableKept, LookupInv, MatchInv, Looking
  <2>6. AnswerInv'
    BY <2>1, <2>2 DEF TableKept, LookupInv, AnswerInv, Good, Looking
  <2>7. QED
    BY <2>3, <2>4, <2>5, <2>6 DEF LookupInv
<1>5. LookupInv'
  BY <1>3, <1>4 DEF LookupNext
<1>6. QED
  BY <1>2, <1>5 DEF SafeInv

\* The first step of a put is the map's: it hides at most one entry, and no
\* other entry has its index.
LEMMA PutBeginIsPut ==
    ASSUME SafeInv, Sees, NEW i \in Index, NEW a \in Addr, PutBegin(i, a)
    PROVE  Map!Put(i, a)
<1> USE DEF SafeInv
<1>1. PICK s \in Slot :
         /\ put' = [slot |-> s, index |-> i, addr |-> a,
                    keep |-> valid[s] /\ sender_index[s] = i]
         /\ valid' = [valid EXCEPT ![s] = FALSE]
         /\ rd' = [rd EXCEPT !.quiet = FALSE,
                             !.overlaps = IF rpc = "idle" THEN 0 ELSE @ + 1,
                             !.raced = @ \/ (rpc \in {"ifindex", "store"} /\ rd.found = s)]
  BY DEF PutBegin
<1>2. /\ wpc = "idle" /\ wpc' = "odd" /\ rpc' = rpc /\ put'.slot = s
      /\ UNCHANGED <<sender_index, seq, addr_lo>>
  BY <1>1 DEF PutBegin
<1>3. /\ rd'.op = rd.op /\ rd'.index = rd.index /\ rd'.foundlo = rd.foundlo
      /\ rd'.overlaps = IF rpc = "idle" THEN 0 ELSE rd.overlaps + 1
  BY <1>1 DEF TypeOK, Reading
<1>4. valid \in [Slot -> BOOLEAN] /\ sender_index \in [Slot -> AnyIndex]
  BY DEF TypeOK
<1>5. \A t \in Slot : valid[t] /\ sender_index[t] = i => t = s
  <2>1. IndexInv'
    BY PutBeginIndexInv
  <2>2. Holds(s, i)'
    BY <1>1, <1>2 DEF Holds, Writing
  <2>3. \A t \in Slot : valid[t] /\ sender_index[t] = i /\ t # s => Holds(t, i)'
    BY <1>1, <1>2, <1>4 DEF Holds, Writing
  <2>4. QED
    BY <2>1, <2>2, <2>3 DEF IndexInv, NoDuplicateIndex
<1>6. PICK j \in Index : valid[s] => j = sender_index[s]
  BY DEF LookupInv, StoredInv
<1>7. \A t \in Slot : valid[t] /\ sender_index[t] = j /\ valid[s] => t = s
  BY <1>2, <1>6 DEF IndexInv, NoDuplicateIndex, Holds, Writing
<1>8. ASSUME ~valid[s] PROVE Shown' = {p \in Shown : p[1] # i /\ p[1] # i}
  <2>1. \A t \in Slot : valid'[t] <=> valid[t]
    BY <1>1, <1>4, <1>8
  <2>2. \A t \in Slot : valid[t] => sender_index[t] # i
    BY <1>5, <1>8
  <2>3. QED
    BY <1>2, <2>1, <2>2 DEF Shown
<1>9. ASSUME valid[s] PROVE Shown' = {p \in Shown : p[1] # i /\ p[1] # j}
  <2>1. \A t \in Slot : valid'[t] <=> valid[t] /\ t # s
    BY <1>1, <1>4
  <2>2. \A t \in Slot : valid[t] => (t # s <=> sender_index[t] # i /\ sender_index[t] # j)
    BY <1>5, <1>6, <1>7, <1>9
  <2>3. QED
    BY <1>2, <2>1, <2>2 DEF Shown
<1>10. \E e \in Index : Shown' = {p \in Shown : p[1] # i /\ p[1] # e}
  BY <1>8, <1>9
<1>11. Phase' = Phase
  BY <1>2 DEF Phase
<1>12. Phase = "idle" <=> rpc = "idle"
  BY DEF Phase
<1>13. put'.index = i /\ put'.addr = a
  BY <1>1
<1>14. rpc = "idle" => rd.op = "none" /\ rd.overlaps = 0
  BY DEF LookupInv, LocalsInv
<1>15. seen' = IF rd.op = "lookup" THEN seen \cup Map!Answers(Shown', rd.index) ELSE seen
  BY <1>3, <1>14 DEF Sees, LookupInv, SeenInv, Looking
<1>16. QED
  BY <1>2, <1>3, <1>10, <1>11, <1>12, <1>13, <1>14, <1>15 DEF Map!Put, Map!Watch

\* The last step of a put is the map's, and those between are none of its.
LEMMA PutStepIsBind ==
    ASSUME SafeInv, Sees, PutStep
    PROVE  Map!Bind \/ UNCHANGED Map!vars
<1> USE DEF SafeInv
<1>1. /\ rd' = rd /\ rpc' = rpc /\ wpc # "idle" /\ put.slot \in Slot /\ ~valid[put.slot]
      /\ put.index \in Index
      /\ \A s \in Slot : valid[s] => /\ valid'[s]
                                     /\ sender_index'[s] = sender_index[s]
                                     /\ addr_lo'[s] = addr_lo[s]
  BY PutStepFrame
<1>2. Phase' = Phase
  BY <1>1 DEF Phase
<1>3. CASE PutShow
  <2>1. /\ sender_index' = sender_index /\ addr_lo' = addr_lo /\ wpc = "show" /\ wpc' = "idle"
        /\ \A s \in Slot : valid'[s] <=> valid[s] \/ s = put.slot
    BY <1>1, <1>3 DEF PutShow, TypeOK
  <2>2. sender_index[put.slot] = put.index /\ addr_lo[put.slot] = put.addr /\ put.addr \in Addr
    BY <2>1 DEF IndexInv, WriterInv, LookupInv, StoredInv
  <2>3. Shown' = Shown \cup {<<put.index, put.addr>>}
    BY <1>1, <2>1, <2>2 DEF Shown
  <2>4. rpc = "idle" => rd.op = "none"
    BY DEF LookupInv, LocalsInv
  <2>5. seen' = IF rd.op = "lookup" THEN seen \cup Map!Answers(Shown', rd.index) ELSE seen
    BY <1>1, <2>4 DEF Sees, LookupInv, SeenInv, Looking
  <2>6. QED
    BY <1>1, <1>2, <2>1, <2>3, <2>5 DEF Map!Bind, Map!Watch
<1>4. CASE ~PutShow
  <2>1. wpc' # "idle" /\ put' = put /\ \A s \in Slot : valid'[s] <=> valid[s]
    BY <1>1, <1>4 DEF PutStep, PutSeqOdd, PutIndex, PutAddrLo, PutAddrHi, PutPeer, PutSeqEven, TypeOK
  <2>2. Shown' = Shown
    BY <1>1, <2>1 DEF Shown
  <2>3. seen' = seen
    BY <1>1, <2>2, SeenStutter DEF LookupInv
  <2>4. QED
    BY <1>1, <1>2, <2>1, <2>2, <2>3 DEF Map!vars
<1>5. QED
  BY <1>3, <1>4

\* A lookup begins.
LEMMA ReadBeginIsAsk ==
    ASSUME SafeInv, Sees, NEW op \in {"lookup", "sole"}, NEW i \in Index, ReadBegin(op, i)
    PROVE  Map!Ask(op, i)
<1>1. /\ rpc = "idle" /\ rpc' = "valid" /\ TableKept
      /\ rd'.op = op /\ rd'.index = i /\ rd'.overlaps = 0
  BY DEF ReadBegin, NoRead, table, writer, TableKept
<1>2. rd.op = "none" /\ rd.overlaps = 0
  BY <1>1 DEF SafeInv, LookupInv, LocalsInv
<1>3. Phase = "idle" /\ Phase' = "asked"
  BY <1>1 DEF Phase
<1>4. Shown' = Shown
  BY <1>1 DEF TableKept, Shown
<1>5. seen' = IF op = "lookup" THEN Map!Answers(Shown, i) ELSE {}
  BY <1>1, <1>4 DEF Sees
<1>6. UNCHANGED <<wpc, put>>
  BY <1>1 DEF TableKept
<1>7. QED
  BY <1>1, <1>2, <1>3, <1>4, <1>5, <1>6 DEF Map!Ask, Map!NoAsk

\* A lookup goes on, or ends with an answer that it has seen, or with none
\* having seen none; or its caller is done.
LEMMA ReadStepIsMap ==
    ASSUME SafeInv, SafeInv', Sees, ReadStep \/ ResolvePeer
    PROVE  Map!Next \/ UNCHANGED Map!vars
<1> USE DEF SafeInv
<1>1. TableKept /\ Shown' = Shown
  BY ReaderFrame DEF TableKept, Shown
<1>2. rd \in Reading /\ rd' \in Reading /\ At \in Slot
  BY AtInTable DEF TypeOK
<1>3. CASE rpc' = "idle" /\ rd' = NoRead /\ Phase \in {"hit", "miss"}
  <2>1. Phase' = "idle" /\ seen' = {}
    BY <1>3 DEF Phase, Sees, NoRead
  <2>2. rd'.op = "none" /\ rd'.overlaps = 0
    BY <1>3 DEF NoRead
  <2>3. Map!Done
    BY <1>1, <1>3, <2>1, <2>2 DEF Map!Done, Map!NoAsk, TableKept
  <2>4. QED
    BY <2>3 DEF Map!Next
<1>4. CASE /\ Phase' = Phase /\ rd'.op = rd.op /\ rd'.overlaps = rd.overlaps
           /\ Looking => rd'.index = rd.index
           /\ Phase = "hit" => rd'.foundlo = rd.foundlo
           /\ rpc # "idle"
  <2>1. seen' = seen
    BY <1>1, <1>4 DEF Sees, LookupInv, SeenInv, Looking
  <2>2. QED
    BY <1>1, <1>4, <2>1 DEF Map!vars, TableKept, Looking
<1>5. CASE /\ Phase = "asked" /\ rpc' \in {"routed", "dropped"}
           /\ rd'.op = rd.op /\ rd'.overlaps = rd.overlaps /\ rd'.index = rd.index
           /\ Looking /\ rpc' = "routed" /\ rd.overlaps <= 1 => rd'.foundlo \in seen
  <2>1. rpc # "idle"
    BY <1>5 DEF Phase
  <2>2. seen' = seen
    BY <1>1, <1>5, <2>1 DEF Sees, LookupInv, SeenInv, Looking
  <2>3. CASE rpc' = "routed"
    <3>1. Phase' = "hit"
      BY <2>3 DEF Phase
    <3>2. rd'.foundlo \in Addr
      BY <2>3 DEF LookupInv, LocalsInv, StoredInv, Hit
    <3>3. PICK a \in Addr : a = rd'.foundlo
      BY <3>2
    <3>4. rd.op = "lookup" /\ rd.overlaps <= 1 => a \in seen
      BY <1>5, <2>3, <3>3 DEF Looking
    <3>5. Map!Answer(a)
      BY <1>1, <1>5, <2>2, <3>1, <3>3, <3>4 DEF Map!Answer, TableKept
    <3>6. QED
      BY <3>5 DEF Map!Next
  <2>4. CASE rpc' = "dropped"
    <3>1. Phase' = "miss"
      BY <2>4 DEF Phase
    <3>2. Looking => NoAddr \in seen
      BY <1>5, <2>2, <2>4 DEF LookupInv, MissInv, Looking
    <3>3. Map!Miss
      BY <1>1, <1>5, <2>2, <3>1, <3>2 DEF Map!Miss, TableKept, Looking
    <3>4. QED
      BY <3>3 DEF Map!Next
  <2>5. QED
    BY <1>5, <2>3, <2>4
<1>6. CASE ReadEnd
  BY <1>3, <1>6 DEF ReadEnd, Phase
<1>7. CASE PeerIfValid \/ PeerIfIndex \/ PeerStore \/ ResolvePeer
  <2>1. CASE rpc' = "idle" /\ rd' = NoRead
    BY <1>3, <1>7, <2>1 DEF PeerIfValid, PeerIfIndex, PeerStore, ResolvePeer, Phase
  <2>2. CASE rpc' # "idle"
    <3>1. rd' = rd /\ rpc \in Hit /\ rpc' \in Hit
      BY <1>7, <2>2 DEF PeerIfValid, PeerIfIndex, PeerStore, ResolvePeer, Hit
    <3>2. Phase' = Phase /\ rpc # "idle"
      BY <3>1 DEF Phase, Hit
    <3>3. QED
      BY <1>4, <3>1, <3>2
  <2>3. QED
    BY <1>7, <2>1, <2>2 DEF PeerIfValid, PeerIfIndex, PeerStore, ResolvePeer
<1>8. CASE rpc \in Scanning /\ rpc' \in Scanning /\ rd'.op = rd.op /\ rd'.overlaps = rd.overlaps
           /\ (Looking => rd'.index = rd.index)
  <2>1. Phase = "asked" /\ Phase' = "asked" /\ rpc # "idle"
    BY <1>8 DEF Phase, Scanning, Inspecting
  <2>2. QED
    BY <1>4, <1>8, <2>1
<1>9. ASSUME NEW r \in Reading, NextSlot(r), rpc \in Scanning,
             r.op = rd.op, r.index = rd.index, r.overlaps = rd.overlaps,
             Looking => r.found < 0
      PROVE  Map!Next \/ UNCHANGED Map!vars
  <2>1. CASE rpc' = "valid"
    <3>1. rd'.op = rd.op /\ rd'.overlaps = rd.overlaps /\ rd'.index = rd.index
      BY <1>9, <2>1 DEF NextSlot, Reading
    <3>2. QED
      BY <1>8, <1>9, <2>1, <3>1 DEF Scanning
  <2>2. CASE rpc' # "valid"
    <3>1. /\ rd' = r /\ rpc' = IF r.found >= 0 THEN "routed" ELSE "dropped"
      BY <1>9, <2>2 DEF NextSlot
    <3>2. Phase = "asked"
      BY <1>9 DEF Phase, Scanning, Inspecting
    <3>3. r.found \in Int
      BY <1>9 DEF Reading, Slot
    <3>4. QED
      BY <1>5, <1>9, <3>1, <3>2, <3>3
  <2>3. QED
    BY <2>1, <2>2
<1>10. rpc \in Scanning /\ Looking => rd.found < 0
  BY DEF LookupInv, LocalsInv
<1>11. CASE ReadValid \/ ReadIndex \/ ReadSeq1 \/ ReadLo \/ ReadHi \/ ReadSeq2 \/ ReadRevalid
  <2>1. rpc \in Scanning
    BY <1>11 DEF ReadValid, ReadIndex, ReadSeq1, ReadLo, ReadHi, ReadSeq2, ReadRevalid,
                 Scanning, Inspecting
  <2>2. CASE NextSlot(rd)
    BY <1>2, <1>9, <1>10, <2>1, <2>2
  <2>3. CASE ~NextSlot(rd)
    <3>1. /\ rpc' \in Scanning /\ rd'.op = rd.op /\ rd'.overlaps = rd.overlaps
          /\ (Looking => rd'.index = rd.index)
      <4>1. CASE ReadIndex
        <5>1. CASE rd.op = "sole"
          BY <1>2, <4>1, <5>1 DEF ReadIndex, Reading, Scanning, Inspecting, Looking
        <5>2. CASE rd.op # "sole"
          BY <2>3, <4>1, <5>2 DEF ReadIndex, Scanning, Inspecting
        <5>3. QED
          BY <5>1, <5>2
      <4>2. CASE ReadValid \/ ReadRevalid
        BY <2>3, <4>2 DEF ReadValid, ReadRevalid, Scanning, Inspecting
      <4>3. CASE ReadSeq1 \/ ReadLo \/ ReadHi \/ ReadSeq2
        BY <1>2, <4>3 DEF ReadSeq1, ReadLo, ReadHi, ReadSeq2, Reading, Scanning, Inspecting
      <4>4. QED
        BY <1>11, <4>1, <4>2, <4>3
    <3>2. QED
      BY <1>8, <2>1, <3>1
  <2>4. QED
    BY <2>2, <2>3
<1>12. CASE ReadReindex
  <2> DEFINE hit == [rd EXCEPT !.found = At, !.foundlo = rd.lo, !.foundhi = rd.hi]
  <2>1. rpc = "reindex" /\ rpc \in Scanning /\ Phase = "asked" /\ rd.op \in {"lookup", "sole"}
    BY <1>12 DEF ReadReindex, Scanning, Inspecting, Phase, LookupInv, LocalsInv
  <2>2. /\ hit \in Reading /\ hit.op = rd.op /\ hit.index = rd.index
        /\ hit.overlaps = rd.overlaps /\ hit.foundlo = rd.lo
    BY <1>2 DEF Reading
  <2> HIDE DEF hit
  <2>3. CASE NextSlot(rd)
    BY <1>2, <1>9, <1>10, <2>1, <2>3
  <2>4. CASE NextSlot(hit) /\ ~Looking
    BY <1>9, <2>1, <2>2, <2>4
  <2>5. CASE rd' = hit /\ rpc' = "routed" /\ sender_index[At] = rd.index
    <3>1. Looking /\ rd.overlaps <= 1 => rd.lo \in seen
      BY <2>1, <2>5 DEF LookupInv, AnswerInv
    <3>2. QED
      BY <1>5, <2>1, <2>2, <2>5, <3>1
  <2>6. CASE rd' = [rd EXCEPT !.found = -1] /\ rpc' = "dropped"
    <3>1. rd'.op = rd.op /\ rd'.overlaps = rd.overlaps /\ rd'.index = rd.index
      BY <1>2, <2>6 DEF Reading
    <3>2. QED
      BY <1>5, <2>1, <2>6, <3>1
  <2>7. QED
    <3>1. CASE sender_index[At] # rd.index
      BY <1>12, <2>3, <3>1 DEF ReadReindex
    <3>2. CASE sender_index[At] = rd.index /\ rd.op = "lookup"
      BY <1>12, <2>5, <3>2 DEF ReadReindex, hit
    <3>3. CASE sender_index[At] = rd.index /\ rd.op = "sole"
      <4>1. \/ NextSlot(hit)
            \/ NextSlot(rd)
            \/ rd' = [rd EXCEPT !.found = -1] /\ rpc' = "dropped"
        BY <1>12, <3>3 DEF ReadReindex, hit
      <4>2. QED
        BY <2>3, <2>4, <2>6, <3>3, <4>1 DEF Looking
    <3>4. QED
      BY <2>1, <3>1, <3>2, <3>3
<1>13. QED
  BY <1>6, <1>7, <1>11, <1>12 DEF ReadStep

\* The table implements the map: what its threads see of slots, probes,
\* evictions and the seqlock are the atomic steps of SessionMap.
THEOREM SessionTableIsMap == LookupSpec => IsMap
<1>1. LookupInit => SafeInv
  <2> SUFFICES ASSUME LookupInit PROVE SafeInv
    OBVIOUS
  <2>1. TypeOK
    BY SizeAssumption, PutsAssumption, RestingLocals
    DEF LookupInit, Init, TypeOK, AnyAddr, AnyIndex, WriterStates, ReaderStates
  <2>2. IndexInv /\ SeqlockInv
    BY IndexInvInit, SeqlockInvInit DEF LookupInit
  <2>3. LookupInv
    BY DEF LookupInit, Init, NoRead, LookupInv, StoredInv, LocalsInv, SeenInv, MissInv, MatchInv,
           AnswerInv, Looking, Scanning, Inspecting, Matched, Hit
  <2>4. QED
    BY <2>1, <2>2, <2>3 DEF SafeInv
<1>2. SafeInv /\ [LookupNext]_lookupVars => SafeInv'
  BY SafeInvStep
<1>3. LookupInit => Map!Init
  <2> SUFFICES ASSUME LookupInit PROVE Map!Init
    OBVIOUS
  <2>1. Shown = {} /\ Phase = "idle" /\ rd.op = "none" /\ rd.overlaps = 0
    BY DEF LookupInit, Init, Shown, Phase, NoRead
  <2>2. QED
    BY <2>1 DEF LookupInit, Init, Map!Init, Map!NoAsk
<1>4. SafeInv /\ SafeInv' /\ [LookupNext]_lookupVars => [Map!Next]_Map!vars
  <2> SUFFICES ASSUME SafeInv, SafeInv', [LookupNext]_lookupVars
               PROVE  Map!Next \/ UNCHANGED Map!vars
    OBVIOUS
  <2>1. CASE Sees /\ \E i \in Index, a \in Addr : PutBegin(i, a)
    BY <2>1, PutBeginIsPut DEF Map!Next
  <2>2. CASE Sees /\ PutStep
    BY <2>2, PutStepIsBind DEF Map!Next
  <2>3. CASE Sees /\ \E op \in {"lookup", "sole"}, i \in Index : ReadBegin(op, i)
    BY <2>3, ReadBeginIsAsk DEF Map!Next
  <2>4. CASE Sees /\ (ReadStep \/ ResolvePeer)
    BY <2>4, ReadStepIsMap
  <2>5. CASE UNCHANGED lookupVars
    BY <2>5 DEF lookupVars, vars, table, writer, reader, Map!vars, Shown, Phase
  <2>6. QED
    BY <2>1, <2>2, <2>3, <2>4, <2>5 DEF LookupNext, Next
<1>5. QED
  BY <1>1, <1>2, <1>3, <1>4, PTL DEF LookupSpec, IsMap, Map!Spec
=============================================================================
