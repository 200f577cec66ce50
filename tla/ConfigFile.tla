------------------------------ MODULE ConfigFile ------------------------------
(***************************************************************************)
(* The configuration file of the proxy, as config_file_parse() reads it:   *)
(* config_file.c.  One pass over the lines; the keys of [Interface] are    *)
(* stored as they come, those of a [Peer] are collected and committed when *)
(* the section ends.  A line is a record: a header and its name, or a key  *)
(* and the value written for it.  A value is what its text denotes, or     *)
(* Unreadable; blank lines, comments, lines without "=" and the text       *)
(* beyond the 1023 bytes of the line buffer are left out.                  *)
(***************************************************************************)
EXTENDS Cps

CONSTANTS
    Lines,            \* the lines a file may hold
    MaxLines,         \* bound on the length of a file
    MaxPeers,         \* AWG_MAX_SERVER_PEERS
    PublicOf          \* the public key of each private one: curve25519.c

Numbers    == {"Jc", "Jmin", "Jmax", "S1", "S2", "S3", "S4"}
Headers    == {"H1", "H2", "H3", "H4"}
Templates  == {"I1", "I2", "I3", "I4", "I5"}

\* A line is a header or a setting; a number or a template is one or is not
\* readable.
ASSUME LinesAssumption ==
    \A line \in Lines :
        /\ line.header \in BOOLEAN
        /\ ~line.header /\ line.key \in Numbers \cup {"PersistentKeepalive"} =>
              line.val = Unreadable \/ line.val \in Int
        /\ ~line.header /\ line.key \in Templates =>
              line.val = Unreadable \/ line.val \in Written

ASSUME MaxPeersAssumption == MaxPeers \in Nat

VARIABLES
    section,          \* the section the line belongs to
    firstPeer,        \* no [Peer] has been committed
    cur,              \* what the current [Peer] gave: key -> value
    out,              \* the result: awg_file_config_t
    text              \* the lines read so far

fileVars == <<section, firstPeer, cur, out, text>>

Empty == [k \in {} |-> 0]

\* A key with its value added, or its value replaced.
With(values, key, val) ==
    [k \in DOMAIN values \cup {key} |-> IF k = key THEN val ELSE values[k]]

NoFile == [iface |-> Empty, remote |-> Empty, peers |-> <<>>]

-----------------------------------------------------------------------------

\* flush_peer(): the first [Peer] that gave something is the remote; its
\* key and those of the others are the peers of a server, up to the limit.
FlushPeer ==
    IF DOMAIN cur = {} THEN UNCHANGED <<firstPeer, out>> ELSE
    /\ firstPeer' = FALSE
    /\ out' = [out EXCEPT
                  !.remote = IF firstPeer THEN cur ELSE @,
                  !.peers  = IF "PublicKey" \in DOMAIN cur /\ Len(@) < MaxPeers
                             THEN Append(@, cur.PublicKey) ELSE @]

FlushIfPeer ==
    IF section = "Peer" THEN FlushPeer ELSE UNCHANGED <<firstPeer, out>>

\* Fault of ReadHeader: what the section before gave stays.
ReadHeaderKeepsCur(line) ==
    /\ line.header
    /\ FlushIfPeer
    /\ cur' = cur
    /\ section' = line.key

\* A section header.
ReadHeader(line) ==
    /\ line.header
    /\ FlushIfPeer
    /\ cur' = Empty
    /\ section' = line.key

\* parse_hrange().
RangeAccepts(val) == val # Unreadable /\ val.min <= val.max

\* A key of [Interface] that is not refused.
InterfaceAccepts(key, val) ==
    CASE key \in Numbers \cup {"PrivateKey", "DNS"} -> val # Unreadable
      [] key = "ListenPort" -> val # Unreadable /\ val \in 1 .. 65535
      [] key \in Headers    -> RangeAccepts(val)
      [] key \in Templates  -> CpsAccepts(val)
      [] OTHER              -> TRUE

\* The value that is stored for it.
InterfaceValue(key, val) ==
    CASE key = "PrivateKey"  -> PublicOf[val]
      [] key \in Templates   -> Parsed(val)
      [] OTHER               -> val

InterfaceKeys == {"PrivateKey", "ListenPort", "DNS"} \cup Numbers \cup Headers \cup Templates

ReadInterface(line) ==
    /\ ~line.header /\ section = "Interface"
    /\ InterfaceAccepts(line.key, line.val)
    /\ out' = IF line.key \in InterfaceKeys
              THEN [out EXCEPT !.iface =
                       With(@, line.key, InterfaceValue(line.key, line.val))]
              ELSE out
    /\ UNCHANGED <<section, firstPeer, cur>>

\* A keepalive that is no positive number is as if it were not there; a key
\* is refused.
PeerTakes(line) ==
    \/ line.key = "Endpoint"
    \/ line.key = "PublicKey" /\ line.val # Unreadable
    \/ line.key = "PersistentKeepalive" /\ line.val # Unreadable /\ line.val > 0

ReadPeer(line) ==
    /\ ~line.header /\ section = "Peer"
    /\ ~(line.key = "PublicKey" /\ line.val = Unreadable)
    /\ cur' = IF PeerTakes(line) THEN With(cur, line.key, line.val) ELSE cur
    /\ UNCHANGED <<section, firstPeer, out>>

ReadNowhere(line) ==
    /\ ~line.header /\ section \notin {"Interface", "Peer"}
    /\ UNCHANGED <<section, firstPeer, cur, out>>

\* One round of the loop that does not end the program.
ReadLine(line) ==
    /\ ReadHeader(line) \/ ReadInterface(line) \/ ReadPeer(line) \/ ReadNowhere(line)
    /\ text' = Append(text, line)

\* The loop returns -1 in the middle of the file.
LineRefused(line) ==
    /\ ~line.header
    /\ \/ section = "Interface" /\ ~InterfaceAccepts(line.key, line.val)
       \/ section = "Peer" /\ line.key = "PublicKey" /\ line.val = Unreadable

\* The end of the file commits the last section.
ReadEnd ==
    /\ FlushIfPeer
    /\ UNCHANGED <<section, cur, text>>

FileInit ==
    /\ section = "None" /\ firstPeer = TRUE
    /\ cur = Empty /\ out = NoFile /\ text = <<>>

-----------------------------------------------------------------------------
(* What a file says, read as a whole: the reference for the parser.        *)

SectionAt(i) ==
    LET above == {j \in 1 .. i : text[j].header}
    IN  IF above = {} THEN 0 ELSE CHOOSE j \in above : \A k \in above : k <= j

\* The lines of a key in the section that line h opens, and the last of them.
Given(h, key) ==
    {i \in DOMAIN text : /\ ~text[i].header /\ SectionAt(i) = h
                         /\ text[i].key = key
                         /\ text[h].key = "Peer" => PeerTakes(text[i])}

LastOf(S) == CHOOSE i \in S : \A j \in S : j <= i
FirstOf(S) == CHOOSE i \in S : \A j \in S : i <= j

PeerKeys == {"PublicKey", "Endpoint", "PersistentKeepalive"}

\* The [Peer] sections that say something, and those with a key.
PeerHeads ==
    {h \in DOMAIN text : /\ text[h].header /\ text[h].key = "Peer"
                        /\ \E key \in PeerKeys : Given(h, key) # {}}

KeyedHeads == {h \in PeerHeads : Given(h, "PublicKey") # {}}

PeerSays(h) ==
    [key \in {k \in PeerKeys : Given(h, k) # {}} |-> text[LastOf(Given(h, key))].val]

RemoteSays(heads) == IF heads = {} THEN Empty ELSE PeerSays(FirstOf(heads))

\* The keys of those sections in the order of the file: of all, or of the first
\* MaxPeers.
AreKeysOf(keys, heads) ==
    \E at \in [DOMAIN keys -> heads] :
        /\ \A i, j \in DOMAIN keys : i < j => at[i] < at[j]
        /\ \A i \in DOMAIN keys : keys[i] = PeerSays(at[i]).PublicKey
        /\ \A h \in heads : \/ \E i \in DOMAIN keys : h = at[i]
                            \/ Len(keys) = MaxPeers /\ \A i \in DOMAIN keys : at[i] < h

InterfaceLines(key) ==
    UNION {Given(h, key) : h \in {j \in DOMAIN text : /\ text[j].header
                                                      /\ text[j].key = "Interface"}}

InterfaceSays ==
    [key \in {k \in InterfaceKeys : InterfaceLines(k) # {}} |->
        InterfaceValue(key, text[LastOf(InterfaceLines(key))].val)]

\* The result of reading it.
FileSays ==
    /\ out.iface = InterfaceSays
    /\ out.remote = RemoteSays(PeerHeads)
    /\ AreKeysOf(out.peers, KeyedHeads)

=============================================================================
