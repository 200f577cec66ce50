----------------------------- MODULE ObfsFrame -----------------------------
(***************************************************************************)
(* The lengths of the outer profiles (src/obfs.c): what obfs_wrap puts     *)
(* around a packet, what obfs_unwrap takes off, and the overhead declared  *)
(* to the callers.  Sizes of header and padding depend on the sequence     *)
(* number q of the sender only; the bytes in them are left out.            *)
(***************************************************************************)
EXTENDS Integers

Preset == {"stun_ice", "dtls_record", "rtp_media", "source_query", "raknet",
           "quic_short", "game_enet", "game_kcp", "dns_like"}

Profile == Preset \cup {"off"}

\* k_obfs_marker.
MarkerLen == 4

\* Bytes in front of the body.
Header(p, q) ==
    CASE p = "off"          -> 0
      [] p = "stun_ice"     -> 20
      [] p = "dtls_record"  -> 13
      [] p = "rtp_media"    -> 12
      [] p = "source_query" -> 6
      [] p = "raknet"       -> 9
      [] p = "quic_short"   -> 4 + (8 + (q % 5)) + (1 + (q % 4))
      [] p = "game_enet"    -> 6 + 4 * (1 + (q % 3))
      [] p = "game_kcp"     -> 24
      [] p = "dns_like"     -> 12 + (1 + (6 + (q % 6)) + 1 + 3 + 1) + 4

\* Bytes behind the body.
Pad(p, q) ==
    CASE p = "stun_ice"   -> q % 4
      [] p = "quic_short" -> q % 8
      [] p = "game_enet"  -> q % 6
      [] p = "game_kcp"   -> q % 5
      [] p = "dns_like"   -> q % 4
      [] OTHER            -> 0

\* Fault of Overhead: the padding of game_enet is forgotten.
OverheadNoEnetPad(p) ==
    CASE p = "stun_ice" -> 28  [] p = "dtls_record" -> 17
      [] p = "rtp_media" -> 16 [] p = "source_query" -> 10
      [] p = "raknet" -> 13    [] p = "quic_short" -> 31
      [] p = "game_enet" -> 22 [] p = "game_kcp" -> 32
      [] p = "dns_like" -> 34  [] OTHER -> 0

\* obfs_profile_overhead_max.
Overhead(p) ==
    CASE p = "stun_ice" -> 28  [] p = "dtls_record" -> 17
      [] p = "rtp_media" -> 16 [] p = "source_query" -> 10
      [] p = "raknet" -> 13    [] p = "quic_short" -> 31
      [] p = "game_enet" -> 27 [] p = "game_kcp" -> 32
      [] p = "dns_like" -> 34  [] OTHER -> 0

\* The length of a packet of n bytes after obfs_wrap, m bytes of marker included.
WrapLen(p, q, m, n) == Header(p, q) + m + n + Pad(p, q)

\* Fault of Stripped: game_kcp leaves its padding on.
StrippedNotKcp == {"quic_short", "game_enet"}

\* The presets of which the receiver learns the length of the padding.
Stripped == {"quic_short", "game_enet", "game_kcp"}

\* The length obfs_unwrap finds between header and padding; the header tells
\* the receiver what it needs of q.
Body(p, q, total) ==
    total - Header(p, q) - (IF p \in Stripped THEN Pad(p, q) ELSE 0)

\* Presets that leave nothing of their own on a packet.
Exact == Profile \ {"stun_ice", "dns_like"}
=============================================================================
