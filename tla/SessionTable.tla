---------------------------- MODULE SessionTable ----------------------------
(***************************************************************************)
(* The session table of the proxy's server mode (src/session_table.c): it  *)
(* remembers, for each WireGuard sender index, the UDP address of the      *)
(* client that sent it.  One thread writes it (c2s: session_put on every   *)
(* handshake it forwards), another reads it without a lock (s2c:           *)
(* session_lookup and session_find_sole_entry_with_addr for every packet   *)
(* it returns).  Each entry is a seqlock: a put hides the entry, makes seq *)
(* odd, rewrites the fields, makes seq even and shows the entry again; a   *)
(* reader copies the address and retries until seq was even and unchanged. *)
(*                                                                         *)
(* Every atomic access is a step.  The plain copy of the address is two    *)
(* steps, one per half, so that a copy torn by a put is visible; each half *)
(* is represented by the address it belongs to.  Interleaving is           *)
(* sequentially consistent, which is what the acquire/release accesses and *)
(* locked increments give on x86-64.                                       *)
(***************************************************************************)
EXTENDS Integers

CONSTANTS
    Size,       \* SESSION_TABLE_SIZE
    Probe,      \* the length of a probe: 4 in the code
    Index,      \* the sender indices in use
    Addr,       \* the client addresses in use
    NoAddr,     \* the contents of a zeroed address
    MaxPuts     \* bound: how many puts a behaviour makes

ASSUME SizeAssumption == Size \in Nat \ {0}
ASSUME ProbeAssumption == Probe \in 1..Size
ASSUME IndexAssumption == Index \subseteq Nat
ASSUME AddrAssumption == NoAddr \notin Addr
ASSUME PutsAssumption == MaxPuts \in Nat

VARIABLES
    valid, sender_index, seq, peer_slot,    \* session_entry_t, per slot
    addr_lo, addr_hi,                       \* the two halves of .addr
    wpc, put,       \* the c2s thread: where it is in session_put, its locals
    puts,           \* how many puts have begun
    rpc, rd,        \* the s2c thread: where it is in its lookup, its locals
    stale           \* history: slots whose peer was stored by a raced check

table == <<valid, sender_index, seq, peer_slot, addr_lo, addr_hi>>
writer == <<wpc, put, puts>>
reader == <<rpc, rd>>
vars == <<table, writer, reader, stale>>

Slot == 0 .. Size - 1
Tries == 0 .. Probe - 1

\* The k-th slot probed for index i: ((i & MASK) + k) & MASK.
ProbeSlot(i, k) == (i + k) % Size

-----------------------------------------------------------------------------
(* session_put, by the c2s thread *)

WriterStates == {"idle", "odd", "index", "lo", "hi", "peer", "even", "show"}

NoPut == [slot |-> 0, index |-> 0, addr |-> NoAddr, keep |-> FALSE]

\* Slot s may take index i without displacing another index.
Fits(i, s) == ~valid[s] \/ sender_index[s] = i

\* Fault of PutSlot: the probe runs backwards.
PutSlotLastFit(i, s) ==
    \/ \E k \in Tries :
          /\ s = ProbeSlot(i, k)
          /\ Fits(i, s)
          /\ \A j \in k + 1 .. Probe - 1 : ~Fits(i, ProbeSlot(i, j))
    \/ /\ \A k \in Tries : ~Fits(i, ProbeSlot(i, k))
       /\ s = ProbeSlot(i, 0)

\* The slot session_put chooses for i: the first of the probe that fits, or,
\* when none does, the home slot, whose entry is evicted.  Only the c2s thread
\* writes what the scan reads, so the scan is one step with the first store.
PutSlot(i, s) ==
    \/ \E k \in Tries :
          /\ s = ProbeSlot(i, k)
          /\ Fits(i, s)
          /\ \A j \in 0 .. k - 1 : ~Fits(i, ProbeSlot(i, j))
    \/ /\ \A k \in Tries : ~Fits(i, ProbeSlot(i, k))
       /\ s = ProbeSlot(i, 0)

PutBegin(i, a) ==
    /\ wpc = "idle"
    /\ puts < MaxPuts
    /\ \E s \in Slot :
          /\ PutSlot(i, s)
          /\ put' = [slot |-> s, index |-> i, addr |-> a,
                     keep |-> valid[s] /\ sender_index[s] = i]
          /\ valid' = [valid EXCEPT ![s] = FALSE]
          /\ rd' = [rd EXCEPT !.quiet = FALSE,
                              !.overlaps = IF rpc = "idle" THEN 0 ELSE @ + 1,
                              !.raced = @ \/ (rpc \in {"ifindex", "store"} /\ rd.found = s)]
    /\ puts' = puts + 1
    /\ wpc' = "odd"
    /\ UNCHANGED <<sender_index, seq, peer_slot, addr_lo, addr_hi, rpc, stale>>

\* Fault of PutSeqOdd: the fields are rewritten under an even seq.
PutSeqOddMissing ==
    /\ wpc = "odd"
    /\ wpc' = "index"
    /\ UNCHANGED <<table, put, puts, reader, stale>>

PutSeqOdd ==
    /\ wpc = "odd"
    /\ seq' = [seq EXCEPT ![put.slot] = @ + 1]
    /\ wpc' = "index"
    /\ UNCHANGED <<valid, sender_index, peer_slot, addr_lo, addr_hi,
                   put, puts, reader, stale>>

PutIndex ==
    /\ wpc = "index"
    /\ sender_index' = [sender_index EXCEPT ![put.slot] = put.index]
    /\ wpc' = "lo"
    /\ UNCHANGED <<valid, seq, peer_slot, addr_lo, addr_hi,
                   put, puts, reader, stale>>

PutAddrLo ==
    /\ wpc = "lo"
    /\ addr_lo' = [addr_lo EXCEPT ![put.slot] = put.addr]
    /\ wpc' = "hi"
    /\ UNCHANGED <<valid, sender_index, seq, peer_slot, addr_hi,
                   put, puts, reader, stale>>

PutAddrHi ==
    /\ wpc = "hi"
    /\ addr_hi' = [addr_hi EXCEPT ![put.slot] = put.addr]
    /\ wpc' = "peer"
    /\ UNCHANGED <<valid, sender_index, seq, peer_slot, addr_lo,
                   put, puts, reader, stale>>

\* Fault of PutPeer: the entry keeps the peer of the index it held.
PutPeerKept ==
    /\ wpc = "peer"
    /\ wpc' = "even"
    /\ UNCHANGED <<table, put, puts, reader, stale>>

\* A new index forgets the peer of the one it replaces.
PutPeer ==
    /\ wpc = "peer"
    /\ IF put.keep
          THEN UNCHANGED <<peer_slot, stale>>
          ELSE /\ peer_slot' = [peer_slot EXCEPT ![put.slot] = -1]
               /\ stale' = stale \ {put.slot}
    /\ wpc' = "even"
    /\ UNCHANGED <<valid, sender_index, seq, addr_lo, addr_hi,
                   put, puts, reader>>

\* Fault of PutSeqEven: seq is left odd.
PutSeqEvenMissing ==
    /\ wpc = "even"
    /\ wpc' = "show"
    /\ UNCHANGED <<table, put, puts, reader, stale>>

PutSeqEven ==
    /\ wpc = "even"
    /\ seq' = [seq EXCEPT ![put.slot] = @ + 1]
    /\ wpc' = "show"
    /\ UNCHANGED <<valid, sender_index, peer_slot, addr_lo, addr_hi,
                   put, puts, reader, stale>>

PutShow ==
    /\ wpc = "show"
    /\ valid' = [valid EXCEPT ![put.slot] = TRUE]
    /\ wpc' = "idle"
    /\ put' = NoPut
    /\ UNCHANGED <<sender_index, seq, peer_slot, addr_lo, addr_hi,
                   puts, reader, stale>>

\* session_put past its choice of a slot.
PutStep ==
    \/ PutSeqOdd \/ PutIndex \/ PutAddrLo \/ PutAddrHi
    \/ PutPeer \/ PutSeqEven \/ PutShow

-----------------------------------------------------------------------------
(* session_lookup ("lookup") and session_find_sole_entry_with_addr ("sole"),
   then session_set_peer_slot_if_index, by the s2c thread *)

ReaderStates ==
    {"idle", "valid", "index", "seq1", "lo", "hi", "seq2", "revalid", "reindex",
     "routed", "dropped", "ifvalid", "ifindex", "store"}

NoRead == [op |-> "none", index |-> 0, k |-> 0, s1 |-> 0,
           lo |-> NoAddr, hi |-> NoAddr, found |-> -1,
           foundlo |-> NoAddr, foundhi |-> NoAddr,
           quiet |-> FALSE, overlaps |-> 0, raced |-> FALSE]

\* The slot under inspection.
At == IF rd.op = "lookup" THEN ProbeSlot(rd.index, rd.k) ELSE rd.k

\* Fault of ScanLength: the last slot is left out.
ScanLengthShort == IF rd.op = "lookup" THEN Probe - 1 ELSE Size - 1

\* How many slots the operation goes through.
ScanLength == IF rd.op = "lookup" THEN Probe ELSE Size

\* A packet from the remote: data, a response or a cookie names the index of
\* its receiver; an init goes to the only client, when there is only one.
ReadBegin(op, i) ==
    /\ rpc = "idle"
    /\ rd' = [NoRead EXCEPT !.op = op, !.index = i, !.quiet = (wpc = "idle")]
    /\ rpc' = "valid"
    /\ UNCHANGED <<table, writer, stale>>

\* The scan leaves the slot under inspection: on to the next one, or, at the
\* end, to the outcome (a sole search may have found its entry earlier).
NextSlot(r) ==
    IF r.k + 1 < ScanLength
       THEN rd' = [r EXCEPT !.k = @ + 1] /\ rpc' = "valid"
       ELSE rd' = r /\ rpc' = IF r.found >= 0 THEN "routed" ELSE "dropped"

ReadValid ==
    /\ rpc = "valid"
    /\ IF valid[At] THEN rpc' = "index" /\ rd' = rd ELSE NextSlot(rd)
    /\ UNCHANGED <<table, writer, stale>>

\* A lookup wants its own index here; a sole search notes whatever it reads.
ReadIndex ==
    /\ rpc = "index"
    /\ CASE rd.op = "sole" -> rd' = [rd EXCEPT !.index = sender_index[At]] /\ rpc' = "seq1"
         [] rd.op = "lookup" /\ sender_index[At] = rd.index -> rd' = rd /\ rpc' = "seq1"
         [] OTHER -> NextSlot(rd)
    /\ UNCHANGED <<table, writer, stale>>

\* While seq is odd the reader spins: it takes no step.
ReadSeq1 ==
    /\ rpc = "seq1"
    /\ seq[At] % 2 = 0
    /\ rd' = [rd EXCEPT !.s1 = seq[At]]
    /\ rpc' = "lo"
    /\ UNCHANGED <<table, writer, stale>>

ReadLo ==
    /\ rpc = "lo"
    /\ rd' = [rd EXCEPT !.lo = addr_lo[At]]
    /\ rpc' = "hi"
    /\ UNCHANGED <<table, writer, stale>>

ReadHi ==
    /\ rpc = "hi"
    /\ rd' = [rd EXCEPT !.hi = addr_hi[At]]
    /\ rpc' = "seq2"
    /\ UNCHANGED <<table, writer, stale>>

ReadSeq2 ==
    /\ rpc = "seq2"
    /\ rpc' = IF seq[At] = rd.s1 THEN "revalid" ELSE "seq1"
    /\ UNCHANGED <<table, writer, rd, stale>>

ReadRevalid ==
    /\ rpc = "revalid"
    /\ IF valid[At] THEN rpc' = "reindex" /\ rd' = rd ELSE NextSlot(rd)
    /\ UNCHANGED <<table, writer, stale>>

\* Fault of ReadReindex: the index is not read again after the copy.
ReadReindexUnchecked ==
    /\ rpc = "reindex"
    /\ rd' = [rd EXCEPT !.found = At, !.foundlo = rd.lo, !.foundhi = rd.hi]
    /\ rpc' = "routed"
    /\ UNCHANGED <<table, writer, stale>>

\* The entry was still the expected one: a lookup is answered; a sole search
\* keeps its first address and gives up at a second one.
ReadReindex ==
    /\ rpc = "reindex"
    /\ LET hit == [rd EXCEPT !.found = At, !.foundlo = rd.lo, !.foundhi = rd.hi]
           same == rd.lo = rd.foundlo /\ rd.hi = rd.foundhi
       IN CASE sender_index[At] # rd.index -> NextSlot(rd)
            [] sender_index[At] = rd.index /\ rd.op = "lookup" ->
                  rd' = hit /\ rpc' = "routed"
            [] sender_index[At] = rd.index /\ rd.op = "sole" /\ rd.found < 0 ->
                  NextSlot(hit)
            [] sender_index[At] = rd.index /\ rd.op = "sole" /\ rd.found >= 0 /\ same ->
                  NextSlot(rd)
            [] OTHER -> rd' = [rd EXCEPT !.found = -1] /\ rpc' = "dropped"
    /\ UNCHANGED <<table, writer, stale>>

\* The packet is sent (routed) or dropped.
ReadEnd ==
    /\ rpc \in {"routed", "dropped"}
    /\ rpc' = "idle"
    /\ rd' = NoRead
    /\ UNCHANGED <<table, writer, stale>>

\* A routed response whose entry names no peer yet: the peer is resolved from
\* the packet, and stored if the entry still is the looked-up one.  The peer
\* of a handshake is identified with the sender index of the handshake.
ResolvePeer ==
    /\ rpc = "routed"
    /\ rd.op = "lookup"
    /\ peer_slot[rd.found] < 0
    /\ rpc' = "ifvalid"
    /\ UNCHANGED <<table, writer, rd, stale>>

PeerIfValid ==
    /\ rpc = "ifvalid"
    /\ IF valid[rd.found] THEN rpc' = "ifindex" /\ rd' = rd
                          ELSE rpc' = "idle" /\ rd' = NoRead
    /\ UNCHANGED <<table, writer, stale>>

PeerIfIndex ==
    /\ rpc = "ifindex"
    /\ IF sender_index[rd.found] = rd.index THEN rpc' = "store" /\ rd' = rd
                                            ELSE rpc' = "idle" /\ rd' = NoRead
    /\ UNCHANGED <<table, writer, stale>>

PeerStore ==
    /\ rpc = "store"
    /\ peer_slot' = [peer_slot EXCEPT ![rd.found] = rd.index]
    /\ stale' = IF rd.raced THEN stale \cup {rd.found} ELSE stale
    /\ rpc' = "idle"
    /\ rd' = NoRead
    /\ UNCHANGED <<valid, sender_index, seq, addr_lo, addr_hi, writer>>

ReadStep ==
    \/ ReadValid \/ ReadIndex \/ ReadSeq1 \/ ReadLo \/ ReadHi \/ ReadSeq2
    \/ ReadRevalid \/ ReadReindex \/ ReadEnd
    \/ PeerIfValid \/ PeerIfIndex \/ PeerStore

-----------------------------------------------------------------------------

\* proxy_t is zeroed at start.
Init ==
    /\ valid = [s \in Slot |-> FALSE]
    /\ sender_index = [s \in Slot |-> 0]
    /\ seq = [s \in Slot |-> 0]
    /\ peer_slot = [s \in Slot |-> 0]
    /\ addr_lo = [s \in Slot |-> NoAddr]
    /\ addr_hi = [s \in Slot |-> NoAddr]
    /\ wpc = "idle" /\ put = NoPut
    /\ puts = 0
    /\ rpc = "idle" /\ rd = NoRead
    /\ stale = {}

Next ==
    \/ \E i \in Index, a \in Addr : PutBegin(i, a)
    \/ PutStep
    \/ \E op \in {"lookup", "sole"}, i \in Index : ReadBegin(op, i)
    \/ ReadStep
    \/ ResolvePeer

Spec == Init /\ [][Next]_vars

\* A thread inside a function of the table keeps running.  Nothing says that
\* handshakes keep coming, that packets do, or that a response needs a peer.
FairSpec == Spec /\ WF_vars(PutStep) /\ WF_vars(ReadStep)

-----------------------------------------------------------------------------
(* Properties *)

\* The locals of session_put, and those of a lookup or sole search.
AnyAddr == Addr \cup {NoAddr}
AnyIndex == Index \cup {0}
Putting == [slot : Slot, index : AnyIndex, addr : AnyAddr, keep : BOOLEAN]
Reading ==
    [op : {"none", "lookup", "sole"}, index : AnyIndex, k : Slot, s1 : Nat,
     lo : AnyAddr, hi : AnyAddr, found : Slot \cup {-1}, foundlo : AnyAddr,
     foundhi : AnyAddr, quiet : BOOLEAN, overlaps : Nat, raced : BOOLEAN]

\* Every variable has its type.
TypeOK ==
    /\ valid \in [Slot -> BOOLEAN]
    /\ sender_index \in [Slot -> AnyIndex]
    /\ seq \in [Slot -> Nat]
    /\ peer_slot \in [Slot -> Index \cup {0, -1}]
    /\ addr_lo \in [Slot -> AnyAddr]
    /\ addr_hi \in [Slot -> AnyAddr]
    /\ wpc \in WriterStates
    /\ put \in Putting
    /\ puts \in 0 .. MaxPuts
    /\ rpc \in ReaderStates
    /\ rd \in Reading
    /\ stale \subseteq Slot \cup {-1}

\* The index a slot holds, as the writer sees it: the put that rewrites a slot
\* has already decided it.
Writing(s) == wpc # "idle" /\ put.slot = s
Occupied(s) == valid[s] \/ Writing(s)
Holds(s, i) == IF Writing(s) THEN put.index = i ELSE valid[s] /\ sender_index[s] = i

\* session_put never gives one index two entries: it looks for the index and
\* for a free slot in one pass (session_table.c:84-104), which is sound only
\* because no entry is ever freed.
NoDuplicateIndex ==
    \A s, t \in Slot, i \in Index : Holds(s, i) /\ Holds(t, i) => s = t

\* Every entry is where session_lookup and session_get_entry will look: within
\* the probe of its index, with no free slot before it.
EntryReachable ==
    \A s \in Slot, i \in Index :
        Holds(s, i) => \E k \in Tries : /\ s = ProbeSlot(i, k)
                                        /\ \A j \in 0 .. k - 1 : Occupied(ProbeSlot(i, j))

\* The table stays well formed, whatever is put in it and in which order
\* (session_table.c:78-110): one entry per index, each where it is looked for.
WellFormed == NoDuplicateIndex /\ EntryReachable

\* The seqlock: an address a lookup or a sole search accepts is one that a put
\* stored, never half of one and half of another.
NoTornAddress ==
    /\ rpc \in {"revalid", "reindex"} => rd.lo = rd.hi
    /\ rd.foundlo = rd.foundhi

\* A read that no put overlaps is exact: a lookup finds the index iff some entry
\* has it; a sole search succeeds iff all entries have one address.
QuietReadExact ==
    rpc \in {"routed", "dropped"} /\ rd.quiet =>
        IF rd.op = "lookup"
           THEN rpc = "routed" <=> \E s \in Slot : valid[s] /\ sender_index[s] = rd.index
           ELSE rpc = "routed" <=>
                    /\ \E s \in Slot : valid[s]
                    /\ \A s, t \in Slot : valid[s] /\ valid[t] => addr_lo[s] = addr_lo[t]

\* An entry names the peer of another handshake only after the one race the
\* check-then-store of session_set_peer_slot_if_index leaves open: a put that
\* began on the entry after the check of valid.
PeerOfEntry ==
    \A s \in Slot \ stale :
        valid[s] /\ peer_slot[s] >= 0 => peer_slot[s] = sender_index[s]

\* The spin on an odd seq ends: a lookup always comes back, as soon as the
\* writer leaves the entry alone.
ReadTerminates == (rpc \notin {"idle", "routed"}) ~> (rpc \in {"idle", "routed"})
=============================================================================
