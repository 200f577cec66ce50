---------------------------- MODULE MCPacketPath ----------------------------
(* Instances of PacketPath small enough to enumerate. *)
EXTENDS PacketPath

CONSTANTS a1, a2

TwoClients == {a1, a2}
AllPaths == {"client", "gateway", "server"}
Server == {"server"}
Gateway == {"gateway"}

S(init, resp, cookie, data) ==
    [init |-> init, resp |-> resp, cookie |-> cookie, data |-> data]

\* The type words of WireGuard itself; ranges apart from them; ranges of which
\* the first and the last overlap, which config_validate must refuse.
Plain == S({1}, {2}, {3}, {4})
Wide == S({5, 6}, {7}, {8}, {9, 10})
Overlapping == S({5, 6}, {7}, {8}, {6, 9})

Config(s, h, jc, obfs) == [s |-> s, h |-> h, jc |-> jc, obfs |-> obfs]

\* No padding at all (h4_noop); paddings that fit and that do not fit the
\* headroom; totals of two handshakes, and of a handshake and a transport
\* packet, that are equal.
SomeConfigs ==
    {Config(S(0, 0, 0, 0), Plain, 0, FALSE),
     Config(S(0, 0, 0, 0), Overlapping, 0, FALSE),
     Config(S(0, 56, 84, 0), Wide, 1, FALSE),
     Config(S(8, 64, 0, 8), Wide, 1, FALSE),
     Config(S(8, 16, 0, 0), Plain, 0, TRUE),
     Config(S(12, 0, 4, 4), Wide, 1, TRUE)}

PaddedOnly == {Config(S(8, 16, 0, 0), Wide, 1, FALSE)}
WrappedOnly == {Config(S(0, 0, 0, 0), Plain, 0, TRUE)}
=============================================================================
