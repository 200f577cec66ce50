# Specifications of awg2-webui

The repository holds two programs:

* **wg2awg** (`src/src/`, C): a UDP proxy between WireGuard and AmneziaWG.
  A *client* proxy sits in front of a WireGuard peer and dials the AmneziaWG
  server; *gateway* and *server* proxies sit on the other side. Three threads
  share one `proxy_t` through atomics.
* **the web panel** (`src/app.py`, `src/start.sh`, Python and shell): a Flask
  application that edits one configuration file, `awg0.conf`, and a running
  AmneziaWG daemon, inside one container.

The modules below model the parts of both whose correctness depends on
interleaving, timing and failure. Line numbers refer to this commit.

## Inventory

| Part | State it keeps | Operations | Talks to | What makes it correct |
|---|---|---|---|---|
| session table (`session_table.c`) | 4096 seqlocked entries: valid, index, seq, address, peer | put, lookup, sole search, conditional peer store | written by c2s, read by s2c without a lock | one entry per index, within its probe; no torn or foreign address; readers come back |
| watchdog (`proxy_control.c`) | four counters; clears `last_active`, `last_remote_rx` | five-second tick: healthy, silent, idle | flags set by c2s and s2c; `shutdown()` and `_exit` | reconnects neither early nor never; exits only on one-sided silence with an active client |
| remote socket (`proxy.c`, `proxy_reconnect.c`, `proxy_net.c`, `proxy_shutdown.c`, `proxy_startup.c`) | `remote_fd`, `reconnect_needed`, `reconnect_drift`, `local_port`, `stopped` | receive, back off, close, resolve, dial, publish, stop, join | all three threads; the kernel's descriptor table | no leak, nothing closed published, requests served, a stop ends |
| packet paths (`proxy_c2s_*.c`, `proxy_s2c_*.c`, `transform.c`, `cps.c`, `proxy_emit.c`) | client address, random rings | transform, pad, junk, send | the table, obfuscation | a packet comes out as it went in |
| obfuscation (`obfs.c`) | per session: marker counters, sequence numbers | wrap, unwrap | both peers of a link | unwrap undoes wrap; the marker protocol gets through loss |
| proxy configuration (`main.c`, `config_file.c`, `config_runtime.c`, `cps.c`) | `awg_file_config_t`, `awg_config_t` | parse the file, merge options, file and environment, validate, derive | start only | the parser says what the file says; each value comes from its first source; what is derived fits the rest |
| process start and end (`proxy.c`, `proxy_startup.c`, `proxy_net.c`, `proxy_shutdown.c`) | five descriptors, backoff, DNS window | open, first dial and its retries, start of the threads, redials, stop, close | the kernel, the resolver, SIGTERM | nothing is closed twice or left open; the DNS exit neither early nor survived; a stop is bounded |
| panel configuration (`app.py`) | the text of `awg0.conf` | init, add, delete, suspend, resume, regenerate, apply | threads of Flask, `awg`, `awg-quick`, the daemon | acknowledged edits stay; file and daemon agree; addresses are unique |
| container start (`start.sh`, `_auto_start_awg`) | - | bring the interface up | the same file and daemon | suspended peers stay suspended |
| accounts, settings, one-time links (`app.py`) | settings file, two dictionaries | login, save, create and consume a link | threads of Flask | acknowledged settings stay; a link is not served to a later request; failed logins are blocked |
| views, metrics, generators (`app.py`, `cps_generator.py`, templates) | none | formatting | - | - |

Hard behaviour: three unsynchronised threads over one descriptor that is closed
and reused; a watchdog that infers the state of the path from flags other
threads set for several reasons; a seqlock; read-modify-write of a file by
concurrent requests; a file that means two different things while "apply" runs;
restarts of the container anywhere in that.

## Modules

| Module | Models | Proofs | Instances |
|---|---|---|---|
| `SessionTable` | the session table, one atomic access per step | `SessionTableProofs` | `MCSessionTable` |
| `SessionMap` | what the table promises: a map with atomic operations | - | - |
| `SessionLookup` | `SessionTable` with a history variable, and its refinement of `SessionMap` | `SessionTableProofs` | `MCSessionTable` |
| `Watchdog` | the control thread's tick with the receive and redial it drives | `WatchdogProofs` | `MCWatchdog` |
| `Relay` | the three threads and the remote socket, client mode | `RelayProofs` | `MCRelay` |
| `Startup` | the process from its first socket to its end, in seconds | `MainProofs` | `MCStartup` |
| `Cps`, `ConfigFile`, `Config` | packet templates; the parser of the file; the stages of `main()` | `MainProofs` | `MCConfig` |
| `PacketPath` | a batch of packets through each outbound loop, and back through the other proxy | `PacketPathProofs` | `MCPacketPath` |
| `ObfsFrame`, `Obfs` | lengths of the presets; the marker protocol between two proxies | `ObfsProofs` | `MCObfs` |
| `PanelConf` | the panel's handlers, apply, auto-start and restarts | `PanelConfProofs` | `MCPanelConf` |
| `PanelAccess` | logins, settings and one-time links of the panel | `PanelAccessProofs` | `MCPanelAccess` |

How they fit together: `Relay`, `Watchdog` and `Startup` look at the same
threads at three grains. `Relay` has every access to the descriptor and the
flags and no time; `Watchdog` has the ticks and counters, and the redial in two
steps; `Startup` has seconds, the descriptors of the whole process, and
leaves open when a receive ends. `Config` ends where `Startup` begins, and the
limits it validates are those `PacketPath` starts from; the two halves of `main()`
share no state, so `MainProofs` extends both.

In every module an operator named `X<Something>` next to a definition `X`, under
a comment "Fault of X", is what `X` would be with a plausible bug. It is used by
nothing in the module: putting it in the place of `X` must violate the property
`PROJECT.json` pairs it with, and so shows that the property looks at the code.

### SessionTable

Variables are the fields of `session_entry_t` per slot; `wpc`/`put` and
`rpc`/`rd` are the program counters and locals of the two threads. `PutBegin`
is the scan of `session_put` with the store that hides the entry: only the c2s
thread writes what the scan reads, so nothing is lost by making it one step.
`PutSeqOdd` to `PutShow` are the stores that follow, in program order. The copy
of the address is two steps, so a reader can see half of it. On the reader's
side every load is a step. A response that names no peer yet goes on to
`session_set_peer_slot_if_index` (`PeerIfValid`, `PeerIfIndex`, `PeerStore`).
Memory is sequentially consistent: acquire and release accesses and locked
increments give the order of these accesses on x86-64, but not on every machine.

`SessionMap` is the abstract side: a set of pairs of an index and an address, a
put that unbinds its index (and perhaps one other, to make room) and binds it a
moment later, a lookup that answers with something its index was bound to while
it ran or comes back empty if there was a moment at which it was unbound.
`SessionLookup` adds `seen`, which collects what the index looked up is bound to
step by step, and maps the entries that are shown to the pairs; `IsMap` is the
refinement. It is limited to lookups that at most one put overlaps. Two puts
within one lookup can give an entry away and back, with an address of the other
index in between, and the seqlock's check of the index cannot see that: it
re-reads the index after the loop, not inside it. `PeerOfEntry` likewise excludes
the one window `session_set_peer_slot_if_index` leaves, between its check and its
store; the model marks the slots it hit (`stale`).

### Watchdog

`Tick` is one expiry of the timer: `TickHeard`, `TickSilent` and `TickIdle` are
the three branches of `proxy_control_loop`, with the two exchanges (`Look`) in
front of each. The remote socket is reduced to "up", "shut" and "down", the s2c
thread to receive, backoff and dial. Real passage of time is not counted: any
number of packets and steps of s2c may fall between two ticks. `quiet`, `deaf`
and `lone` are what an observer outside the process would count, and the
properties relate the code's counters to them.

`ExitOnlyWithClient` says that a process that gives up had a client within the last
`3 * (Grace + 1) + 1` ticks, if neither timeout is due within two grace periods
(`GraceEnds`). Where the silent timeout is not longer than the grace period the code
reopens that for ever, and the claim without the condition (`ExitMeansClient`) is
false, see `MCWatchdogIdle`; for timeouts between the two nothing is claimed.
`ExitInTime` is `ExitGuardUnlessEchoed` (the exit comes when it is due) and
`ExitNotEarly` together. `ExitGuard`, `SilenceContinuous` and `RecoveryRotates`
are what comments of the code say; see "Disagreements".

### Startup

`MainStep` is `proxy_run` from the listening socket over the first dial, the
control descriptors and the threads to the join and the closing of everything;
each call that may fail has both outcomes, so every path through the gotos is
there. `S2cStep` is the life of the s2c thread seen from a distance: it receives,
sleeps out its backoff, closes, dials. `Tick` is a second. A sleep lasts what it
is given, a dial up to `MaxResolve`; a step that waits for nothing takes no time,
except the start of the threads between the blocking of the signal and the
loop, which may. The instants that the code keeps of the monotonic clock
are ages here, which stop growing at `Horizon`; only their differences matter.
`failAge` is what an observer of the resolver would measure, and
`DnsExitRight` relates the code's window to it. Descriptors are numbers that the
kernel hands out lowest first, so a number closed but not forgotten soon names
something else: `DescriptorsOwned` says that this never matters, although
`listen_fd` is left behind after a failed start (proxy_startup.c:22, 48).

### Cps, ConfigFile, Config

A line of the file is a record, a header or a key with the value its text
denotes; `Unreadable` stands for any text the parser of that key refuses.
`ReadLine` is one round of the loop of `config_file_parse`, `LineRefused` its
return in the middle of the file, `FlushPeer` the commit of a section.
`FileSays` defines what a file means when it is read as a whole: the last line of
each key of [Interface], the first [Peer] that says something (`PeerHeads`,
`RemoteSays`), and the keys of all in their order, up to the limit (`AreKeysOf`).
`ParsedRight` compares the two. `Config` continues with the
stages of `main()`, one action per stage in their order (`After`), each with its
own sources and its own way of dying (`Fatal`); `Derive` is `config_compute`,
`InitProxy` is `proxy_init`. A public key, an address and a MAC key are names.
`Wrapped` gives an `int` its width, because `compute_remote_silent_timeout`
multiplies one; the overflow is undefined, and both outcomes that a compiler
produces are allowed. A segment of a template is its kind and its number;
`Stored` is what is left of the number in 16 bits, so that `<r 65537>` is accepted
and is a segment of one byte. `Offsets` is where `cps_generate` stands after each
segment; `Generated` stops before the first that does not fit. The constants are taken to be what the
readers of a file and of the environment return: a number or an unreadable text where
a number belongs, segments where a template does (`LinesAssumption`,
`EnvsAssumption`, `EnvTemplatesAssumption`), never `None`, which stands
for what was not given (`NoneAssumption`). Left out: the log level, help and version, the name
of the preset, the writing of `resolv.conf`, lines longer than the buffer.

### Relay

The grain is one load, store or system call. The kernel is a table of
descriptor numbers that always hands out the lowest free one, so a number a
thread holds may come to name another socket: the resolver's or the next one to
the remote. When the watchdog fires is left open here, except that it does not
fire while s2c notes traffic all the time (`Spinning`). A recovery asks for a fresh
source port where drift is configured (`SrcPortDrift`, the default): `MDrift` sets
`reconnect_drift`, `SBind` binds to port 0 while it is set, and a tick that has heard the
remote clears it (`MHeard`). The port the kernel then chooses is `Fresh`, and `PortApplied`
allows for it: the client's port is in use, or a fresh one was taken on purpose and is
kept until the next redial. c2s stores `local_port` and `has_client` in one
step; nothing reads one and depends on the other.

`client_addr` is plain memory that c2s writes and s2c copies, so both take two
steps, and a copy can hold half of one address and half of another (`CWrite`,
`CWritten`; `SCopy`, `SCopied`). An address is a pair of equal halves. c2s stores
the address and only then sets `has_client`, which s2c looks at before it copies; a
redial takes the flag back. `moved` notes that c2s wrote over the address of a client
it knew, which nothing keeps apart from a copy. One packet stands for a batch, and
`gro` may come out either way at each dial, because `setsockopt` may fail.

### PacketPath

One thread and one batch: `Receive` is `recvmmsg`, then one action per packet of
the loop (`ClientData`, `GatewayData`, `ServerDrop`, `QueueSlow`, `SendInit`),
and `Flush` wherever the loop calls `proxy_io_send_batch_gso`. What is queued is
a reference: the buffer is read when it is sent. So the module has the receive
buffers and the two static ones, `hs_buf` and `obfs_buf`, and relates what leaves
to what came. The bytes are reduced to the type word and the lengths in front of
it. `Decode` is the other proxy: its first look at a datagram, `obfs_unwrap` and
`transform_inbound`. What `obfs_unwrap` leaves on a datagram is `tail`, a member of
`Tails`: none with most presets, up to three bytes with stun_ice and dns_like.
Left out: MACs, the coincidence of random bytes with a header value, CPS datagrams (they count as junk), the search for a response's peer, and
lengths beyond the declared overhead, as dns_like reaches them. `LengthAssumption` says that
a transport packet has 32 bytes at least and that no preset adds more than the headroom
of 1500; `ConfigsAssumption` says nothing but the types of what was parsed, so
paddings may be negative and ranges overlap before `config_validate` refuses them.

`OwnContent` allows for two packets of a batch in one static buffer in gateway
and server mode, because the code has no flush between them there; `RoundTrip`
says what a tail does, a transport packet longer by it and a handshake dropped, and
allows for transport packets of client mode that have the size of a handshake
(`Blackholed`); `EachOnce` claims the order for client mode only. See
"Disagreements".

### Obfs

`ObfsFrame` holds the lengths of `obfs_wrap` and `obfs_unwrap` as functions of
the sequence number. `Obfs` runs the sessions built on them: one per direction in
a client proxy and in a gateway; in a server two per entry of the session table,
initialised when first used (`Readied`), by either thread, with the check and the
initialisation of the c2s thread as separate steps (`ServerCheck`,
`ServerReady`). `session_put` does not clear them, so an entry inherits the
sessions of its last owner. The network is a set of datagrams, received in any
order, some lost. Restarts of the client proxy are modelled, those of the far one
are not. The WireGuard peers are external: handshakes under fresh indices,
retried when nothing of the last attempt is on its way. A packet is delivered if
its length is right, which is what `transform_inbound` goes by.

### PanelConf

The file is a record: the server's key, and per peer its state ("none", "on",
"off") and address. A handler takes a snapshot, edits it, and writes it in two
steps (`Truncate`, `Write`: `write_text` opens the file with truncation and then
writes it); the change is then repeated on the daemon (`Daemon`). Apply is
`ApplyRead` to `RestoreWrite`. `QuickUp`, `ApplyDown` and `SetPeer` model `awg-quick`
and `awg set` from how the code uses them, and every command may fail: `awg set`
without anybody noticing (app.py:1756-1760 and its like), `awg-quick down` likewise,
`awg show` so that the auto-start thread goes on, and either way of starting the daemon,
with the old one still there or not. `missed` collects the peers whose last change the
running daemon did not take; configuring it from the file empties it. `Restart` is one of
the container, `PanelRestart` one of the panel by supervisord while the daemon goes
on; a command that runs when the panel ends is finished or has not begun.
`Serial` says whether requests wait for each other: the code does nothing to make them, so `Serial = TRUE` is the case of one administrator at a time.
`NoKey` is the text `regen_cps` writes when it found an empty file.
Left out: a file read half written (only empty or whole), the branch that unlinks
an unwritable file first, and addresses or keys chosen by the administrator
instead of the panel.

### PanelAccess

Requests run on the threads of one Python process. A step ends where a thread
may be switched while another one has something to lose: between the look at the
limiter and the count of a failure lies the password hash, between the
read of the settings file, its truncation and its write lie system calls.
`attempts` is the entry of one client address; a thread that holds the entry
while another one pops it counts into nothing (`Orphan`). `links` is `_otl_store`
with the time each link has left. A restart loses both dictionaries and all
requests, and leaves the file as it is. `disturbed` notes that two saves
overlapped or that a restart hit one between truncation and write, after which
nothing is promised of the file. Left out: sessions and their cookies, the checks
of what a form holds, other addresses (the limiter keeps them apart), and the TLS
settings, which have a read-modify-write of the same file of their own
(app.py:2085).

## Runs

| Run | Instance | Shows |
|---|---|---|
| `session` | 2 slots, probes of 2, 3 indices, 2 addresses, 3 puts | the table's properties, and that it implements `SessionMap` |
| `watchdog` | 7 configurations, grace 2 | when the watchdog acts |
| `relay` | 2 descriptor numbers, 2 source ports, drift on | socket lifecycle |
| `relay_spin` | the same, 1 port | a disagreement (below) |
| `startup` | 6 configurations, waits up to 20 and 10 seconds, dials up to 2 | start, redials, DNS exit, stop |
| `config` | files of up to 5 lines over an alphabet of 13, those of up to 4 merged with 103 environments and 3 command lines | parsing, merging, derived values |
| `config_server_key` | the same | a disagreement |
| `path` | batches of 3, 3 loops, a set of configurations | packets leave once, whole, and come out as they went in |
| `obfs` | 1 client, gateway and server, 2 slots, 4 indices, 1 loss per direction, 1 restart | markers and lengths |
| `panel` | 3 peers, 2 addresses, 2 restarts, one request at a time | file and daemon |
| `panel_two` | 2 peers, 2 concurrent requests, 4 in all, a restart | addresses stay unique |
| `access` | 3 threads, 2 settings with 1 new value each, 1 link, 3 attempts | limiter, settings, links |

Why the bounds are enough. *session*: two slots with three indices give an empty
table, a full one and an eviction; a third put is needed for an entry to be given
away and back. *watchdog*: the grace period is 2 instead of 12, and the timeouts
are chosen so that the silent timeout stays longer than it (6 ticks), as with a
keepalive of 17 seconds or more at the real 12; `Horizon` is past every limit the
properties compare with. The exit guard is 60 s (12 ticks: two reconnects) or
off; inactivity timeouts lie below and above the silent timeout; both ways of
receiving occur. `LateConfigs` has the exit one tick earlier: it takes that for a
client to be quiet for as long as `ExitOnlyWithClient` allows.
`MCWatchdogIdle` has the real 12. *relay*: two numbers are the
socket and the resolver's, which is all a dial has open at once; with two ports a
client can move there and back, and an address be half of each. Drift is on, as by
default: without it a trigger sets nothing, so the behaviours are fewer. The state
space has no other bound. *path*: batches of
three hold two packets that share a buffer and one between or behind them;
`MCPacketPath` lists the configurations, chosen on both sides of every comparison
(padding shorter, equal and longer than the headroom; transport sizes that meet
those of handshakes; overlapping ranges, which must be refused); tails are none,
one byte and three. *obfs*: a session
sends 2 markers instead of 3, so that one loss per direction is one less than
there are markers; the sequence number 59 gives the longest padding of game_enet
and game_kcp with the longest header of the former; two slots and four indices make entries inherit sessions. What depends on the lengths
of all the presets is proved instead. *startup*: the windows of 13 and 40 seconds lie on both
sides of the longest wait, 0 switches it off; four retries reach the doubling of
the wait, and without a limit the cap; four descriptors are open at most, one more
is free. *config*: five lines hold two sections with a key and a third header, or
three [Peer] sections; two peers are the limit that a third exceeds; the
environments have, per stage, values on both sides of each limit, unreadable and
empty ones; `IntSize` is small enough for a keepalive to overflow. *access*: two
threads are what a race over the settings or a link takes. The limiter takes three:
with two a bound of attempts times threads holds, with three it does not, since the
second thread to remove an expired block takes more from the count than the first.
Blocks and links last one tick, any number of which may pass between two steps;
links do not meet each other, and a lost setting shows as one that is unset. *panel*: two
addresses for three peers exhaust the pool; two restarts, of the container or the panel, interrupt a recovery from
a first one; requests are unbounded. *panel_two* bounds the number of requests: two overlapping ones
and two before or after them.

Fairness. *session*: a thread inside a function of the table keeps running; no
handshake or packet ever has to come. *watchdog*: the timer keeps firing, the s2c
thread keeps running, and a dial tried again and again succeeds some day;
nothing is assumed of the traffic. *relay*: weak fairness of each thread's own
steps; strong fairness of a receive on a shut socket coming to the end of what was
queued, and of the watchdog firing in a silence that lasts. No dial has to
succeed. *obfs*: a handshake on
its way arrives or is lost, the threads and the server's WireGuard keep running,
and a WireGuard client that has begun a handshake keeps trying, as its retry timer
does; nothing is assumed of transport packets. *startup*: the
threads that can run do run, and time passes; nothing is assumed of the resolver
or of a signal. *path*, *panel*, *access* and *config* have no liveness property. Deadlock is checked where the program cannot stop by itself;
it is off where the process may exit, a start is complete or refused, or the bound on
requests ends a behaviour.

## What holds

*Session table.* One entry per index; every entry is within the probe of its
index with no free slot before it; no torn address; a packet goes to an address
its index was bound to, and is dropped only if it was unbound for a moment (one
overlapping put); a quiet scan is exact; readers terminate. *Watchdog.* It breaks the connection only after a silence as long as
the shorter timeout; a request to reconnect is served; the exit comes in time
and not early, except in the cases listed below. *Relay.* No descriptor
leaks on any path; what is published is open except in the window between close
and clear; the socket in use has the client's source port, or a fresh one that a
recovery took on purpose; what s2c sends goes to the whole
address of the client, unless the client moves while a packet is on its way to it; a stop ends from everywhere,
including the middle of a dial. *Packet path.* A
packet leaves once, whole, for its own destination; client mode keeps the order;
nothing wanted is left behind by a segmented send, refused or not; and with
every configuration `config_validate` accepts, the other proxy restores kind and
length of what arrives without a tail, with the exceptions below. *Obfuscation.* Handshakes through a gateway
complete, the first included, and a first contact with a server too, if fewer
datagrams are lost than there are markers; presets that tell their padding are
exact and stay within their declared overhead. *Panel.* With one request at a time,
acknowledged edits stay, and file and daemon agree but for peers whose own `awg set`
failed, which the next apply repairs; after restarts of the container or the panel the
daemon serves at least the listed peers, but for those and the one whose edit was cut
off; with concurrent requests addresses still stay unique.
*Start and end.* No close ever hits a descriptor of something else, and none is
left open; the process ends for DNS exactly when resolutions have failed for the
configured time, and outlives that time by one wait and one dial at most; after
SIGTERM it is gone within a backoff and a dial; a limited start ends. *Configuration.*
The parser says what the file says, however its sections are mixed; an option wins over the file, the file over the
environment; the derived fields belong to the final configuration; junk and
templates fit their buffers; the proxy reconnects at least twice before the exit
guard, if that is a minute or more. *Access.* Undisturbed saves keep each other's
keys; a link that was answered is not answered to a later request; the limiter
lets fewer than `threads * (2 * MaxAttempts + threads - 1) / 2` failures pass before it
blocks, and that many less one do pass in some interleaving of two or three threads.

## Disagreements between code and documentation

Checked runs:

1. `relay_spin`: `trigger_recovery_reconnect` may `shutdown()` the socket that
   replaced the one it meant (proxy_control.c:76-82). Without GRO s2c then turns
   on empty datagrams it takes for traffic, and nobody reconnects
   (proxy.c:316-317 expects "remote socket closed, reconnecting").
2. `config_server_key`: config_file.h:50 promises the key of the first [Peer] as
   the server's "in client/gateway mode" and :62-64 that in server mode each peer
   is a client; main.c:358 copies it in every mode, over AWG_SERVER_PUB, so with
   the file of the example at main.c:168 the server's MACs are made of a client's
   key.

Further ones have a .cfg beside the modules, which TLC violates in seconds:

* `MCWatchdogIdle` (`ExitMeansClient`): `proxy_do_reconnect` sets `last_active` (proxy_reconnect.c:18).
  With the default silent timeout of 60 s - 12 ticks, not more than the grace of
  12 - every reconnect reopens the grace period before it ends. A client that has
  gone counts as active for ever, and the process exits, though
  main.c:116-119 says "client active" and proxy_control.c:202-203 "Only the
  full-inactivity timeout applies."
* `MCObfsDns`: dns_like appends up to three bytes (obfs.c:362) that the receiver
  does not take off (obfs.c:559), so three handshakes of four fail the exact
  sizes of `transform_inbound`. The test asserts equality (test_obfs.c:240), but
  for a sequence number without a tail. stun_ice pads in the same way; its test
  only asks for "at least".
* `MCObfsOverhead`: the terms of the comment at obfs.c:591 add up to 40, and 34 is
  returned, less than what `obfs_wrap` may add.
* `MCPanelConfHot`: a suspension is to "hot-remove from live AWG" (app.py:1746), but
  nobody looks whether `awg set ... remove` succeeded (app.py:1756-1760): the request is
  answered ok and the peer goes on being served, until the next apply.
* `MCPanelConfLost`: two concurrent requests, and an acknowledged peer is gone
  (app.py:1222, 1714).
* `MCPanelConfCrash`: a restart during apply keeps the runtime text
  (app.py:1256 "Always restore full management conf").
* `MCWatchdogShortExit`: an exit timeout of 30 s exits before the first
  reconnect, against config_runtime.h:58-60.
* `MCWatchdogEcho`, `MCWatchdogDrift`: the end of an interrupted `recvmmsg`
  counts as traffic of the remote (proxy.c:327-328): the exit guard starts over,
  and the dial does not leave the preferred port (proxy_net.c:111-116).
* `MCWatchdogErased`: a reconnect wipes the note of a reception
  (proxy_reconnect.c:19), so the exit follows a silence that was not continuous
  (transform.h:98-99).
* `MCPacketPathStatic`: two handshakes of one s2c batch with a padding longer than
  the headroom leave with the contents of the second (transform.c:6-7, "so static
  is fine").
* `MCPacketPathWrapped`: with a preset on, all packets of an s2c batch of a gateway
  or a server share `obfs_buf`, so they leave with the last one's contents
  (proxy_s2c_gateway.c:119-129, proxy.c:345-375).
* `MCObfsRestart`: after a restart of the client proxy the far side has no marker
  left to send, so everything fails to unwrap, "remote likely plain AWG/WG or
  different obfs preset" (proxy_s2c_client.c:47).
* `MCPanelConfBoot`: `start.sh:63` gives the unfiltered file to `awg-quick`, which
  starts suspended peers (app.py:369, 1746), also those whose removal had succeeded.
* `MCPanelConfStart`: the auto-start thread applies a snapshot older than a
  peer already added (app.py:1699).

Met while reading, without a run:

* The help calls the variables "override or supplement config file" (main.c:94),
  while the file wins (main.c:55, :345).
* `generate_junk` treats jmax as inclusive, so the increment at main.c:348 makes the
  packets one byte longer than configured.
* More than 256 [Peer] keys are dropped by the parser (config_file.c:119), so the
  message at main.c:394 is never seen for a file.
* An empty AWG_JC ends the program, an empty AWG_S3 is as if it were not set.
* `<r 65537>` is accepted and sends one byte (cps.c:134, transform.h:53).
* A keepalive above 2^29 overflows (config_runtime.c:376); the parser lets it in.

## Proofs

| Theorem | States | For every |
|---|---|---|
| `SessionTableTypeOK` | `Spec => []TypeOK` | size, probe length, index, address |
| `SessionTableWellFormed` | `Spec => []WellFormed` | the same |
| `SessionTableNoTornAddress` | `Spec => []NoTornAddress` | the same |
| `SessionTableIsMap` | `LookupSpec => IsMap` | the same |
| `SessionTablePeerOfEntry`, `SessionTableQuietReadExact` | `Spec => []...` of each | the same |
| `WatchdogTypeOK`, `WatchdogExitInTime` | `Spec => []TypeOK`, `Spec => []ExitInTime` | grace period, configuration |
| `WatchdogExitOnlyWithClient` | `Spec => []ExitOnlyWithClient` | the same |
| `WatchdogNoEarlyTrigger` | `Spec => NoEarlyTrigger` | the same |
| `WatchdogRecoveryRotates` | `Spec => RecoveryRotatesUnlessEchoed` | the same |
| `RelayNoFdLeak`, `RelayPublishedIsOpen`, `RelayPortApplied`, `RelayDestIsClient` | `Spec => []...` of each | descriptor numbers, ports |
| `StartupDescriptorsOwned` | `StartSpec => []DescriptorsOwned` | descriptors, retries, failures |
| `StartupDnsExitRight`, `StartupStopWithin` | `StartSpec => []...` of each | window, waits, length of a dial |
| `ObfsTypeOK` | `Spec => []TypeOK` | clients, slots, markers, losses, restarts |
| `ObfsExactPresets` | `Spec => []ExactPresets` | the same, and sequence number |
| `ObfsOverheadBound` | `Spec => []OverheadBound` | the same |
| `PanelTypeOK` | `Spec => []TypeOK` | peers, addresses, requests, bounds |
| `PanelNoSharedAddress` | `Spec => []NoSharedAddress` | the same, `Serial` or not |
| `PanelAcknowledgedStays`, `PanelSuspendedMarked`, `PanelDaemonInStep`, `PanelListedLive` | `Spec => []...` of each, if `Serial` | the same, failures of every command, restarts |
| `PanelAccessNotServedLater` | `Spec => []NotServedLater` | threads, links, expiries, restarts |
| `PanelAccessAckedKept` | `Spec => []AckedKept` | threads, values, restarts |
| `PanelAccessBlocksInTime` | `Spec => []BlocksInTime` | finite set of threads, attempts, block times |
| `PacketPathEachOnce`, `PacketPathOwnContent` | `Spec => []...` of each | batch, path, configuration, refused sends |
| `PacketPathRoundTrip` | `Spec => []RoundTrip` | the same; every configuration accepted, every tail |
| `ConfigDerivedFresh`, `ConfigRightSource` | `Spec => []...` of each | file, environment, command line |
| `ConfigReconnectsBeforeExit` | `Spec => []ReconnectsBeforeExit` | the same, and width of `int` |
| `ConfigParsedRight` | `Spec => []ParsedRight` | set of lines, length of the file, limit of peers |
| `ConfigPacketsFit` | `Spec => []PacketsFit` | file, environment, command line |

Assumptions are those named in the modules: the constants are numbers and sets
of the right kind, the probe is not longer than the table, the special values
are none of the others. Two of them are about bounds: the ages of `Startup` and the
history counters of `Watchdog` stop counting only past what the code compares
them with (`TimesAssumption`, `GuardAssumption`). `Serial` is the only
hypothesis that restricts behaviours: it is the case of one request at a time,
without which `MCPanelConfLost` loses an acknowledged peer.

*Index invariant.* `NoDuplicateIndex` and `EntryReachable` (`WellFormed`) are
inductive only together and only when the slot under rewrite counts for the index it is about
to hold (`Holds`): `PutSlot` takes the first slot of the probe that fits, and by
reachability there is no free slot in front of an entry of the same index, so
that entry is found first. An eviction replaces an index in place, and occupied
slots stay occupied, which keeps everybody else reachable.

*Seqlock.* The invariant relates the writer's position to the parity of `seq`
and to the two halves of the address: outside the odd phase the halves agree. For
a reader that has copied one or both halves: either `seq` has moved past the value
it noted, or what it copied is what the slot holds. A copy accepted by the second
load of `seq` is therefore whole.

*Refinement.* `IsMap` needs, at every step of a lookup, that what it will answer is
among the bindings seen so far. Coming back empty: as long as the index was bound
ever since, its entry is still ahead of the scan (`MissInv`). Coming back with an
address: the slot under inspection held the index when the copy began, and what
was copied is a binding seen, or the slot is another index's by now, or of the put
in progress (`MatchInv`, `Good`); the second load of `seq` tells these apart as
long as one put has begun at most.

*Quiet reads and peers.* As long as no put began, a scan that goes on knows about
every slot behind it that it does not hold the index, or holds the address found so
far (`QuietInv`); at the end that is the whole probe, and by reachability an index that is
not in its probe is nowhere. `PeerInv` follows a peer from the check to the store: the
index checked is still there unless a put came between, and then the slot is marked.

*Watchdog.* The counters of the tick are compared with the real silence: they are
not ahead of it unless a note is waiting for the next tick or a redial wiped one
(`Silence`), and not behind the ticks in which the client sent and nobody
answered, unless an interrupted receive was noted as traffic (`Guarded`). `Noted`
says what a set flag stands for; without it a heard tick could reset the
exit guard in a real silence.

*Grace.* `GraceInv` bounds the silence of the client by a potential. `Rest` is what
is left of the grace period, `Extra` the one that a dial on its way opens once
more, and `Reach(n)` how far a count `n` of silent ticks can get with both. A tick
moves one from `Rest` to the count, a dial `Extra` to `Rest`, and neither raises
`Reach`. So `Waning` holds: the silence in course is too short for a timeout, or
the client was there not long ago, before the watchdog's last dial or before the one
to come. `Idled` says that beyond the grace period the counters start over. The first
attempt had the bound `3 * (Grace + 1)`; the step of an error that
is answered a tick later did not go through, and TLC found the
counterexample with `LateConfigs`.

*Relay.* `FdInv` says what each number names, by where s2c is: only s2c opens and
closes, so whatever the two others do with a number they loaded earlier breaks
nothing in it. `PortInv` follows the port from the store of c2s to the bind: between
the bind and the reset of the request the store must be visible as `raced`, after
it as a request; a bind to a fresh port is there only where drift is configured. `AddrInv` says that the address is whole unless c2s is writing it,
that c2s writes under a set `has_client` only as `moved`, and that whoever replies has
seen the flag; what is copied without a move is therefore the address as it is.

*Start and end.* `Holding`: each open descriptor is in its slot, and a slot that names
an open descriptor is its owner's. Until the cleanup every slot names something
open or nothing (`Full`); the number a failed bind leaves in `listen_fd` is the
exception, and harmless because nothing is opened after it. `Failures` makes the
window of the code as old as the failures, and bounds the time since the last of
them by what is left of the wait under way; `Stopping` does the same for a stop.

*Lengths.* `PadBound` and `ExactBody` do the arithmetic, one preset at a time, with
the remainders of the sequence number as unknowns in their ranges. The invariant
`IInv` says that every datagram on its way was made by `Datagram` with a session
of the profile in use (`Datagrams`), and that sessions keep to their markers
(`Lefts`), "off" to none, without which the overhead of "off" would not be 0.
Entries in use have the address of a client (`Entries`), or a server could send
to nobody.

*Addresses.* A text in which no two listed peers share an address is "good". The
file, the text in every request's hand and the one of the auto-start thread are
all good, because each is derived from one good text, and the only
edit that gives an address away takes one free in that very text. No property
of the interleaving is used, which is why no lock is needed for this - unlike
for `AcknowledgedStays`.

*The panel, one request at a time.* The text that is to stay is in one place:
in the file, or with the one request that is about to write it back (`SerialInv`). `Has`
says that it contains what was acknowledged; `Agrees`, that a running daemon has its
peers, but for the peer the request is about and those in `missed`. A command that fails
touches no other peer, because an address belongs to one listed peer only. Apply takes the
text out of the file for five steps, and the invariant follows what the file holds
meanwhile (`Written`): the panel may end at any of them and leave the daemon with that
file (`SerialPanelRestart`). After a restart only what is listed is claimed of the daemon,
because a snapshot may be gone.

*Packets.* `Queued` is about references: what would be sent if the queue were flushed
now is in order. A step of the loop that writes a buffer must show that no queued
packet reads it, except a packet with a result in the same static one (`Shares`). `Once`
orders the queue behind what is sent, `Accounted` finds every packet passed. The round
trip is then a fact about one datagram (`DecodeRight`): type words and lengths tell
kinds apart because accepted ranges do not overlap, and for handshakes with any word
because the totals differ. A tail lengthens what is left, which moves a transport packet's length and a
handshake past its exact size. How far a segmented send reaches is the first packet of another length:
every nonempty set of numbers has a least element (`LeastElement`, from the
well-founded order).

*Configuration.* `Merged` says for each stage that `main()` has passed what it left in
the configuration, `Derived` that `config_compute` read the final values; a stage
preserves the conjuncts of earlier ones because it sets other fields. `FileRead`
says of what the parser collected only that numbers are numbers and nothing is
`None`. A value is then that of its first source because the nesting of defaults is
(`FileFirst`, `FlagFirst`). The silent timeout is a product: it fits below the
exit timeout if it did not overflow.

*The parser.* `ReadInv` says of the lines read so far what the result must be: the keys of
[Interface] are stored, the open [Peer] (`OpenHead`) is in `cur`, and those before it that
say something (`ClosedHeads`) are committed. The lemmas in front say how each
term of the reference moves when a line is appended: only what the open section says
changes, and only by that line (`GivenMoves`, `PeerSaysMore`, `InterfaceSaysMore`). A
header closes the open section, which is behind all others, so its key goes to the end of
the list (`KeysMore`, `FlushCommits`). The reference is written with sets of line numbers;
that such a set has a first and a last element (`FirstLast`) is all the induction needed.

*Templates.* `Offsets` is a recursive function. That it has the values of its definition
(`OffsetsAre`) and grows (`OffsetsGrow`) is shown by the least length at which it
would not. What `cps_parse` accepts then fits at every segment, and what
reached the configuration was accepted (`TemplatesRead`, `TemplatesFit`).

*Access.* A token that is not in the store and was made stays out of it (`LinksInv`):
whoever found it earlier is past the look at the store. As long as no two saves
met, the one on its way holds what was acknowledged and its own change, and the
file is torn only while it writes (`SavesInv`).

*The limiter.* While the entry is blocked, each thread but one still counts at most
once (`LimiterInv`). When it is removed, what is in the store falls behind the failures by what
removals took, and the n-th thread that comes to remove the same expired block takes the
failures counted since and the entry that others hold. The attempt to prove the first bound,
attempts times threads, failed at the second removal; TLC then found ten failures with
three threads and three attempts, where it allowed nine. The present bound is reached.

Every invariant of a passing run is proved, and so are the action properties
`NoEarlyTrigger` and `RecoveryRotatesUnlessEchoed` and the refinement `IsMap`. Only
model-checked: liveness under fairness, which is out of the prover's reach
(`ReadTerminates`, `RequestServed`, `StopTerminates`, `ShutIsReplacedGro`,
`HandshakesComplete`, `StartsOrEnds`), and the disagreements above, which are
counterexamples of small instances.

## Plan

In this order:

1. done: `SessionTable`, `Watchdog`, `Relay`, `PanelConf`, first theorems.
2. done: `PacketPath`, `ObfsFrame` and `Obfs`, with the proofs of the lengths.
3. done: `SessionMap`, the promise of the table, and its refinement by
   `SessionTable`, proved.
4. done: configuration and start-up: `Cps`, `ConfigFile`, `Config`, `Startup`.
5. done: `PanelAccess`, logins, settings and one-time links.
6. done: proofs of the safety of `Watchdog`, `Relay`, `Startup` and `PanelAccess`.
7. done: proofs of `PacketPath`, of the file and daemon of `PanelConf`, of the quiet
   reads and peers of `SessionTable`, of the limiter and of `Config`.
8. done: the copy of `client_addr` in `Relay`; proofs of it, of `ExitOnlyWithClient`, of
   the parser and of the templates.
9. left: the promise of a packet path (a packet in, a packet out), refined by
   `PacketPath`; the overhead of dns_like as the code has it.

Not planned: cryptography (arithmetic out of TLC's reach), text generation,
templates, logging, metrics, QR codes, TLS and nginx set-up, and the patched
daemon itself.
