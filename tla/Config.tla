-------------------------------- MODULE Config --------------------------------
(***************************************************************************)
(* The configuration of the proxy from the start of main() to proxy_run(): *)
(* main.c, config_runtime.c, config_validate() and config_compute() of     *)
(* transform.c, proxy_init() of proxy.c.  The file is read, then the       *)
(* stages of main() run in their order, each merging what the command      *)
(* line, the file and the environment say; any of them may end the         *)
(* program.  Log level, help and the startup log are left out.             *)
(***************************************************************************)
EXTENDS ConfigFile

CONSTANTS
    Envs,             \* environments: name -> value, Unreadable or Blank
    FlagSets,         \* command lines: option -> value
    Blank,            \* a variable that is set to nothing
    None,             \* no value
    ZeroKey,          \* the key of 32 zero bytes
    MaxMerged,        \* bound on the length of the files that are merged
    IntSize           \* 2^32: how many values an int has

VARIABLES
    pc,               \* the stage main() is at, "running" or "dead"
    env, flags,       \* what the program was started with
    cfg,              \* awg_config_t, as far as it is set
    derived,          \* the fields config_compute() sets
    proxy             \* what proxy_init() derives: ports and junk buffers

configVars == <<pc, env, flags, cfg, derived, proxy>>
vars == <<fileVars, configVars>>

\* Fault of After: the derived fields are computed before the peers are known.
AfterComputeFirst ==
    [mode |-> "endpoints", endpoints |-> "obfuscation", obfuscation |-> "keys",
     keys |-> "compute", compute |-> "peers", peers |-> "validate",
     validate |-> "required", required |-> "cps", cps |-> "operational",
     operational |-> "network", network |-> "init", init |-> "running"]

\* The stages in the order of main().
After ==
    [mode |-> "endpoints", endpoints |-> "obfuscation", obfuscation |-> "keys",
     keys |-> "peers", peers |-> "validate", validate |-> "compute",
     compute |-> "required", required |-> "cps", cps |-> "operational",
     operational |-> "network", network |-> "init", init |-> "running"]

Stage(s) == pc = s /\ UNCHANGED <<fileVars, env, flags>>

Done(s) == pc' = After[s]

Fatal == pc' = "dead" /\ UNCHANGED <<cfg, derived, proxy>>

-----------------------------------------------------------------------------
(* Where a value comes from.                                               *)

Has(name) == name \in DOMAIN env /\ env[name] # Blank
EnvOr(name, v)  == IF Has(name) THEN env[name] ELSE v
FlagOr(name, v) == IF name \in DOMAIN flags THEN flags[name] ELSE v
FileOr(key, v)  == IF key \in DOMAIN out.iface THEN out.iface[key] ELSE v
RemoteOr(key, v) == IF key \in DOMAIN out.remote THEN out.remote[key] ELSE v

Readable(names) == \A n \in names : EnvOr(n, None) # Unreadable

ReadFile ==
    /\ pc = "reading"
    /\ \/ /\ Len(text) < MaxLines
          /\ \E line \in Lines :
                \/ ReadLine(line) /\ pc' = pc
                \/ LineRefused(line) /\ pc' = "dead" /\ UNCHANGED fileVars
       \/ ReadEnd /\ pc' = "launch"
    /\ UNCHANGED <<env, flags, cfg, derived, proxy>>

\* The command line and the environment, drawn here because no stage before
\* the mode looks at them; the lines of the file are not looked at again.
Launch ==
    /\ pc = "launch" /\ Len(text) <= MaxMerged
    /\ env' \in Envs /\ flags' \in FlagSets
    /\ text' = <<>> /\ pc' = "mode"
    /\ UNCHANGED <<section, firstPeer, cur, out, cfg, derived, proxy>>

SetMode ==
    /\ Stage("mode")
    /\ \/ /\ Readable({"MODE"}) /\ FlagOr("mode", None) # Unreadable
          /\ cfg' = [cfg EXCEPT !.mode = FlagOr("mode", EnvOr("MODE", "client"))]
          /\ Done("mode") /\ UNCHANGED <<derived, proxy>>
       \/ /\ ~Readable({"MODE"}) \/ FlagOr("mode", None) = Unreadable
          /\ Fatal

FileListen ==
    IF "ListenPort" \in DOMAIN out.iface
    THEN [host |-> "0.0.0.0", port |-> out.iface.ListenPort] ELSE None

\* Fault of SetEndpoints: the environment wins over the file.
SetEndpointsEnvLast ==
    /\ Stage("endpoints")
    /\ cfg' = [cfg EXCEPT
          !.listen = FlagOr("listen", EnvOr("LISTEN", FileListen)),
          !.remote = FlagOr("remote", RemoteOr("Endpoint", EnvOr("REMOTE", None)))]
    /\ Done("endpoints") /\ UNCHANGED <<derived, proxy>>

\* merge_endpoint_values() and the options: the file wins over the
\* environment, an option over both.
SetEndpoints ==
    /\ Stage("endpoints")
    /\ cfg' = [cfg EXCEPT
          !.listen = FlagOr("listen", IF FileListen # None THEN FileListen
                                      ELSE EnvOr("LISTEN", None)),
          !.remote = FlagOr("remote", RemoteOr("Endpoint", EnvOr("REMOTE", None)))]
    /\ Done("endpoints") /\ UNCHANGED <<derived, proxy>>

\* load_obfuscation_env(): an empty text is no number, except for S3 and S4;
\* a range has its ends in order.
ObfuscationReadable ==
    /\ \A k \in Numbers : k \in DOMAIN env =>
          /\ env[k] # Unreadable
          /\ env[k] = Blank => k \in {"S3", "S4"}
    /\ \A k \in Headers : k \in DOMAIN env => env[k] # Blank /\ RangeAccepts(env[k])

DefaultHeader == [H1 |-> 1, H2 |-> 2, H3 |-> 3, H4 |-> 4]

\* The step of main() that makes the range of junk sizes nonempty.
JunkRange(num) ==
    IF num["Jc"] > 0 /\ num["Jmin"] = num["Jmax"] /\ num["Jmax"] < 65535
    THEN [num EXCEPT !["Jmax"] = @ + 1] ELSE num

SetObfuscation ==
    /\ Stage("obfuscation")
    /\ \/ /\ ObfuscationReadable
          /\ cfg' = [cfg EXCEPT
                !.num = JunkRange([k \in Numbers |-> FileOr(k, EnvOr(k, 0))]),
                !.h = [k \in Headers |->
                         FileOr(k, EnvOr(k, [min |-> DefaultHeader[k],
                                             max |-> DefaultHeader[k]]))]]
          /\ Done("obfuscation") /\ UNCHANGED <<derived, proxy>>
       \/ ~ObfuscationReadable /\ Fatal

SetKeys ==
    /\ Stage("keys")
    /\ \/ /\ Readable({"SERVER_PUB", "PRIVATE_KEY", "CLIENT_PUB"})
          /\ cfg' = [cfg EXCEPT
                !.serverPub = RemoteOr("PublicKey", EnvOr("SERVER_PUB", ZeroKey)),
                !.clientPub = FileOr("PrivateKey", EnvOr("CLIENT_PUB",
                    IF Has("PRIVATE_KEY") THEN PublicOf[env["PRIVATE_KEY"]]
                                          ELSE ZeroKey))]
          /\ Done("keys") /\ UNCHANGED <<derived, proxy>>
       \/ ~Readable({"SERVER_PUB", "PRIVATE_KEY", "CLIENT_PUB"}) /\ Fatal

\* add_server_peer_pub_unique() over a list.
AddPeers(peers, list) ==
    FoldLeft(LAMBDA ps, pub : IF Contains(ps, pub) THEN ps ELSE Append(ps, pub),
             peers, list)

PeerLists ==
    EnvOr("CLIENT_PUBS", <<>>) \o EnvOr("CLIENT_PUBS_FILE", <<>>) \o out.peers

PeersReadable ==
    /\ Readable({"CLIENT_PUBS", "CLIENT_PUBS_FILE"})
    /\ ~Contains(PeerLists, Unreadable)
    /\ Len(AddPeers(<<>>, PeerLists)) <= MaxPeers

SetPeers ==
    /\ Stage("peers")
    /\ \/ /\ cfg.mode = "server" => PeersReadable
          /\ cfg' = IF cfg.mode = "server"
                    THEN [cfg EXCEPT !.peers = AddPeers(@, PeerLists)] ELSE cfg
          /\ Done("peers") /\ UNCHANGED <<derived, proxy>>
       \/ cfg.mode = "server" /\ ~PeersReadable /\ Fatal

-----------------------------------------------------------------------------
(* Validation and the derived fields.                                      *)

Overlap(a, b) == a.min <= b.max /\ b.min <= a.max

MaxJunkSize == 65534

\* The limits of the paddings are those of the packet buffers.
PaddingsFit(c) ==
    /\ c.num["S1"] \in 0 .. 1352 /\ c.num["S2"] \in 0 .. 1408
    /\ c.num["S3"] \in 0 .. 1436 /\ c.num["S4"] \in 0 .. 1500

\* config_validate().
Valid(c) ==
    /\ c.num["Jc"] >= 0 /\ c.num["Jmin"] >= 0
    /\ c.num["Jmax"] \in 0 .. MaxJunkSize
    /\ c.num["Jmax"] > 0 => c.num["Jmax"] >= c.num["Jmin"]
    /\ PaddingsFit(c)
    /\ \A k, l \in Headers : k # l => ~Overlap(c.h[k], c.h[l])

Validate ==
    /\ Stage("validate")
    /\ \/ /\ Valid(cfg)
          /\ Done("validate") /\ UNCHANGED <<cfg, derived, proxy>>
       \/ ~Valid(cfg) /\ Fatal

\* config_compute().  A MAC1 key is named by the public key it is made from.
MacOf(key) == IF key = ZeroKey THEN None ELSE key

Derive(c) ==
    LET total == [init |-> c.num["S1"] + 148, resp |-> c.num["S2"] + 92,
                  cookie |-> c.num["S3"] + 64]
    IN  [hasServer |-> c.serverPub # ZeroKey,
         hasClient |-> c.clientPub # ZeroKey,
         macOut    |-> MacOf(IF c.mode = "client" THEN c.serverPub ELSE c.clientPub),
         macIn     |-> MacOf(IF c.mode = "client" THEN c.clientPub ELSE c.serverPub),
         peerMacs  |-> c.peers,
         h4Noop    |-> c.h["H4"] = [min |-> 4, max |-> 4] /\ c.num["S4"] = 0,
         total     |-> total,
         ambiguous |-> \E k \in DOMAIN total : total[k] >= c.num["S4"] + 32]

Compute ==
    /\ Stage("compute")
    /\ derived' = Derive(cfg)
    /\ Done("compute") /\ UNCHANGED <<cfg, proxy>>

RequiredGiven ==
    /\ cfg.listen # None /\ cfg.remote # None
    /\ derived.hasServer
    /\ derived.hasClient \/ (cfg.mode = "server" /\ cfg.peers # <<>>)

Required ==
    /\ Stage("required")
    /\ \/ /\ RequiredGiven
          /\ Done("required") /\ UNCHANGED <<cfg, derived, proxy>>
       \/ ~RequiredGiven /\ Fatal

-----------------------------------------------------------------------------
(* Templates, timeouts, sockets.                                           *)

TemplateOrder == <<"I1", "I2", "I3", "I4", "I5">>

EnvTemplate(k) == IF Has(k) THEN Parsed(env[k]) ELSE <<>>

CpsReadable == \A k \in Templates : Has(k) => CpsAccepts(env[k])

SetCps ==
    /\ Stage("cps")
    /\ \/ /\ CpsReadable
          /\ cfg' = [cfg EXCEPT !.cps =
                [i \in 1 .. 5 |-> FileOr(TemplateOrder[i], EnvTemplate(TemplateOrder[i]))]]
          /\ Done("cps") /\ UNCHANGED <<derived, proxy>>
       \/ ~CpsReadable /\ Fatal

\* load_operational_env(): seconds, and the connect attempts.
OperationalDefault ==
    [TIMEOUT |-> 180, SILENT |-> 0, EXIT |-> 600, RETRIES |-> 0, DNS_FAIL |-> 720]

OperationalReadable ==
    /\ Readable(DOMAIN OperationalDefault)
    /\ \A k \in {"EXIT", "RETRIES", "DNS_FAIL"} : EnvOr(k, 0) >= 0

\* The product of an int: past the largest it is undefined, and what the
\* build computes is the value modulo its width.
Wrapped(n) == ((n + IntSize \div 2) % IntSize) - IntSize \div 2

AtMost(n, cap) == IF n > cap THEN cap ELSE n
AtLeast(n, low) == IF n < low THEN low ELSE n

\* Fault of SilentTimeouts: the exit guard is not looked at.
SilentTimeoutsUncapped(secs, keepalive, exit) ==
    IF secs > 0 THEN {secs} ELSE {AtLeast(Wrapped(keepalive * 4), 30)}

\* compute_remote_silent_timeout().  A compiler may take the product to be
\* positive, and then it compares the keepalive with 7 instead.
SilentTimeouts(secs, keepalive, exit) ==
    IF secs > 0 THEN {secs} ELSE
    LET t == Wrapped(keepalive * 4)
        low == {AtLeast(t, 30), IF keepalive < 8 THEN 30 ELSE t}
    IN  {IF exit > 0 THEN AtMost(n, AtLeast(exit \div 2, 30)) ELSE n : n \in low}

SetOperational ==
    /\ Stage("operational")
    /\ \/ /\ OperationalReadable
          /\ \E silent \in SilentTimeouts(EnvOr("SILENT", 0),
                                          RemoteOr("PersistentKeepalive", 15),
                                          EnvOr("EXIT", 600)) :
                cfg' = [cfg EXCEPT !.op =
                    [k \in DOMAIN OperationalDefault |->
                        IF k = "SILENT" THEN silent
                        ELSE EnvOr(k, OperationalDefault[k])]]
          /\ Done("operational") /\ UNCHANGED <<derived, proxy>>
       \/ ~OperationalReadable /\ Fatal

\* load_network_perf_env(), the option for the port and select_dns_value().
NetworkDefault ==
    [SRC_PORT |-> 0, DRIFT |-> 1, CPU_C2S |-> -1, CPU_S2C |-> -1,
     BUSY_POLL |-> 0, NO_GRO |-> 0]

NetworkReadable ==
    Readable(DOMAIN NetworkDefault) /\ FlagOr("srcPort", None) # Unreadable

SetNetwork ==
    /\ Stage("network")
    /\ \/ /\ NetworkReadable
          /\ cfg' = [cfg EXCEPT
                !.net = [k \in DOMAIN NetworkDefault |->
                    IF k = "SRC_PORT"
                    THEN FlagOr("srcPort", EnvOr(k, NetworkDefault[k]))
                    ELSE IF k = "DRIFT" /\ EnvOr(k, 1) # 0 THEN 1
                    ELSE EnvOr(k, NetworkDefault[k])],
                !.dns = FileOr("DNS", EnvOr("DNS", None))]
          /\ Done("network") /\ UNCHANGED <<derived, proxy>>
       \/ ~NetworkReadable /\ Fatal

\* proxy_init(): both addresses must parse and the local one resolve; a port
\* is bound as 16 bits; the junk buffer is as large as the junk can be.
InitProxy ==
    /\ Stage("init")
    /\ \/ /\ Valid(cfg) /\ cfg.listen # Unreadable /\ cfg.remote # Unreadable
          /\ proxy' = [auto |-> cfg.net["SRC_PORT"] <= 0,
                       port |-> AtLeast(cfg.net["SRC_PORT"], 0) % 65536,
                       junk |-> IF cfg.num["Jc"] > 0 /\ cfg.num["Jmax"] > 0
                                THEN [count |-> cfg.num["Jc"], size |-> cfg.num["Jmax"]]
                                ELSE [count |-> 0, size |-> 0]]
          /\ Done("init") /\ UNCHANGED <<cfg, derived>>
       \/ Fatal

\* generate_junk(): the sizes of the packets in front of a handshake.
JunkSizes(c) ==
    IF c.num["Jc"] <= 0 \/ c.num["Jmax"] <= 0 THEN {} ELSE
    LET low == AtLeast(c.num["Jmin"], 1) IN low .. AtLeast(c.num["Jmax"], low)

-----------------------------------------------------------------------------

NoConfig ==
    [mode |-> "client", listen |-> None, remote |-> None,
     num |-> [k \in Numbers |-> 0], h |-> [k \in Headers |-> [min |-> 0, max |-> 0]],
     serverPub |-> ZeroKey, clientPub |-> ZeroKey, peers |-> <<>>,
     cps |-> [i \in 1 .. 5 |-> <<>>], op |-> OperationalDefault,
     net |-> NetworkDefault, dns |-> None]

NoProxy == [auto |-> FALSE, port |-> 0, junk |-> [count |-> 0, size |-> 0]]

-----------------------------------------------------------------------------
(* What the constants are taken to be.                                     *)

ASSUME IntSizeAssumption == IntSize \in Nat \ {0}

\* A variable that holds a number is one, is not readable or is blank.
ASSUME EnvsAssumption ==
    \A e \in Envs :
        \A k \in DOMAIN e \cap (Numbers \cup DOMAIN OperationalDefault \cup DOMAIN NetworkDefault) :
            e[k] = Unreadable \/ e[k] = Blank \/ e[k] \in Int

\* A variable that holds a template likewise.
ASSUME EnvTemplatesAssumption ==
    \A e \in Envs : \A k \in DOMAIN e \cap Templates :
        e[k] = Unreadable \/ e[k] = Blank \/ e[k] \in Written

\* Nothing that is given, and no default, is None.
ASSUME NoneAssumption ==
    /\ None # 0 /\ None # "client" /\ None # <<>> /\ None # ZeroKey
    /\ \A line \in Lines : ~line.header =>
          /\ line.val # None
          /\ line.key \in InterfaceKeys /\ InterfaceAccepts(line.key, line.val) =>
                InterfaceValue(line.key, line.val) # None
    /\ \A f \in FlagSets : \A k \in DOMAIN f : f[k] # None
    /\ \A e \in Envs : \A k \in DOMAIN e :
          /\ e[k] # None
          /\ k \in Templates /\ e[k] # Blank /\ CpsAccepts(e[k]) => Parsed(e[k]) # None
          /\ k = "PRIVATE_KEY" /\ e[k] \notin {Blank, Unreadable} => PublicOf[e[k]] # None

\* Without a file the program starts with the environment.
Init ==
    /\ FileInit
    /\ pc \in {"reading", "launch"}
    /\ env = Empty /\ flags = Empty
    /\ cfg = NoConfig /\ derived = Derive(NoConfig) /\ proxy = NoProxy

Next ==
    \/ ReadFile \/ Launch \/ SetMode \/ SetEndpoints \/ SetObfuscation \/ SetKeys
    \/ SetPeers \/ Validate \/ Compute \/ Required \/ SetCps
    \/ SetOperational \/ SetNetwork \/ InitProxy

Spec == Init /\ [][Next]_vars

-----------------------------------------------------------------------------
(* Properties.                                                             *)

Running == pc = "running"

\* The pass over the lines yields what the file says when it is read as a
\* whole: of each key of [Interface] the last value, of the peers the first
\* that says something and the keys of all, whatever sections come between,
\* are empty, are repeated or end the file (config_file.c:108, 166, 345).
ParsedRight == pc = "launch" => FileSays

\* Every parameter the proxy runs with is the one its documented sources put
\* first: an option before the file, the file before the environment, that
\* before the default; for the client's key the file, AWG_CLIENT_PUB,
\* AWG_PRIVATE_KEY (main.c:299-378, 443-496).
FirstGiven(sources) ==
    LET given == {i \in DOMAIN sources : sources[i] # None}
    IN  sources[CHOOSE i \in given : \A j \in given : i <= j]

FromEnv(k) == EnvOr(k, None)
FromFlag(k) == FlagOr(k, None)

RightSource == Running =>
    /\ cfg.mode = FirstGiven(<<FromFlag("mode"), FromEnv("MODE"), "client">>)
    /\ cfg.listen = FirstGiven(<<FromFlag("listen"), FileListen, FromEnv("LISTEN")>>)
    /\ cfg.remote = FirstGiven(<<FromFlag("remote"), RemoteOr("Endpoint", None),
                                FromEnv("REMOTE")>>)
    /\ \A k \in Numbers \ {"Jmax"} :
          cfg.num[k] = FirstGiven(<<FileOr(k, None), FromEnv(k), 0>>)
    /\ cfg.clientPub = FirstGiven(<<FileOr("PrivateKey", None), FromEnv("CLIENT_PUB"),
          IF Has("PRIVATE_KEY") THEN PublicOf[env["PRIVATE_KEY"]] ELSE ZeroKey>>)
    /\ cfg.serverPub = FirstGiven(<<RemoteOr("PublicKey", None),
                                   FromEnv("SERVER_PUB"), ZeroKey>>)
    /\ \A i \in 1 .. 5 : cfg.cps[i] =
          FirstGiven(<<FileOr(TemplateOrder[i], None), EnvTemplate(TemplateOrder[i])>>)
    /\ cfg.net["SRC_PORT"] = FirstGiven(<<FromFlag("srcPort"), FromEnv("SRC_PORT"), 0>>)

\* What the threads read of the derived fields - the MAC1 keys, the lengths
\* of the handshakes, the keys of the peers - belongs to the configuration
\* they run with: nothing is set after config_compute() that it depends on.
DerivedFresh == Running => derived = Derive(cfg)

\* Whatever sizes generate_junk() picks, the packets fit one after another
\* into the buffer proxy_init() allocated, and none is empty, although main()
\* moves the upper end of the range and the lower may be left unset.
JunkFits == Running =>
    \A size \in JunkSizes(cfg) : size \in 1 .. proxy.junk.size /\ cfg.num["Jc"] <= proxy.junk.count

\* A template the proxy started with is sent whole: generation never cuts a
\* packet at the end of its buffer, and numbers the packets in a row.
TemplateWhole == Running =>
    LET packets == GenerateAll(cfg.cps, 0)
    IN  \A i \in DOMAIN packets :
           /\ packets[i].len = MaxSize(cfg.cps[i])
           /\ packets[i].counter \in 0 .. Cardinality(DOMAIN packets) - 1
           /\ \A j \in DOMAIN packets : j < i => packets[j].counter < packets[i].counter

\* Nothing that is made of the configuration is cut: junk and templates.
PacketsFit == JunkFits /\ TemplateWhole

\* Unless the silent timeout was given, the proxy reconnects at least twice
\* before the exit guard, and not more often than every 30 seconds; an exit
\* guard under a minute leaves no room for that, and a keepalive whose
\* product overflows is another matter (config_runtime.c:371).
KeepaliveFits == RemoteOr("PersistentKeepalive", 15) < IntSize \div 8

ReconnectsBeforeExit ==
    Running /\ EnvOr("SILENT", 0) <= 0 /\ KeepaliveFits =>
        /\ cfg.op["SILENT"] >= 30
        /\ cfg.op["EXIT"] >= 60 => 2 * cfg.op["SILENT"] <= cfg.op["EXIT"]

\* config_file.h:50: "First [Peer] PublicKey -> server_pub in client/gateway
\* mode".  In server mode every [Peer] is a client, so none of their keys is
\* the server's.
ServerKeyIsNoClient ==
    Running /\ cfg.mode = "server" => ~Contains(out.peers, cfg.serverPub)

=============================================================================
