----------------------------- MODULE MainProofs -----------------------------
(***************************************************************************)
(* Proofs about main(), which first makes up the configuration (Config)    *)
(* and then runs the process from its first socket to its end (Startup).   *)
(* The two specifications share no state.                                  *)
(*                                                                         *)
(* Of the configuration, for every file, environment and command line:     *)
(* where its values come from, that what is derived belongs to them, and   *)
(* the limits of the derived timeout, of junk and of templates.  The       *)
(* invariant says, for each stage that main() has passed, what the stage   *)
(* left in the configuration and that no later one touches it.  The parser *)
(* of the file has an invariant of its own, about the lines read so far.   *)
(***************************************************************************)
EXTENDS Config, Startup, FiniteSetTheorems, WellFoundedInduction, TLAPS

\* The stages main() has passed, from the last to the first.
PastInit        == {"running"}
PastNetwork     == {"init"} \cup PastInit
PastOperational == {"network"} \cup PastNetwork
PastCps         == {"operational"} \cup PastOperational
PastRequired    == {"cps"} \cup PastCps
PastCompute     == {"required"} \cup PastRequired
PastValidate    == {"compute"} \cup PastCompute
PastPeers       == {"validate"} \cup PastValidate
PastKeys        == {"peers"} \cup PastPeers
PastObfuscation == {"keys"} \cup PastKeys
PastEndpoints   == {"obfuscation"} \cup PastObfuscation
PastMode        == {"endpoints"} \cup PastEndpoints
Started         == {"mode"} \cup PastMode

\* What the stages make of the file, the environment and the options.
ModeIs      == FlagOr("mode", EnvOr("MODE", "client"))
ListenIs    == FlagOr("listen", IF FileListen # None THEN FileListen
                                ELSE EnvOr("LISTEN", None))
RemoteIs    == FlagOr("remote", RemoteOr("Endpoint", EnvOr("REMOTE", None)))
NumbersAre  == [k \in Numbers |-> FileOr(k, EnvOr(k, 0))]
ServerIs    == RemoteOr("PublicKey", EnvOr("SERVER_PUB", ZeroKey))
ClientIs    == FileOr("PrivateKey", EnvOr("CLIENT_PUB",
                   IF Has("PRIVATE_KEY") THEN PublicOf[env["PRIVATE_KEY"]] ELSE ZeroKey))
CpsIs       == [i \in 1 .. 5 |-> FileOr(TemplateOrder[i], EnvTemplate(TemplateOrder[i]))]
SilentIs    == SilentTimeouts(EnvOr("SILENT", 0), RemoteOr("PersistentKeepalive", 15),
                              EnvOr("EXIT", 600))
PortIs      == FlagOr("srcPort", EnvOr("SRC_PORT", 0))

\* What a file gives is a value, a number where it should be one.
Collected(values) ==
    \A key \in DOMAIN values :
        /\ values[key] # None
        /\ key = "PersistentKeepalive" => values[key] \in Nat

FileRead ==
    /\ DOMAIN out = {"iface", "remote", "peers"}
    /\ Collected(cur) /\ Collected(out.remote)
    /\ \A key \in DOMAIN out.iface :
          out.iface[key] # None /\ (key \in Numbers => out.iface[key] \in Int)

Launched ==
    /\ pc \in {"reading", "launch", "dead"} \cup Started
    /\ pc \in Started => env \in Envs /\ flags \in FlagSets
    /\ DOMAIN cfg = DOMAIN NoConfig

\* What each stage left.
Merged ==
    /\ pc \in PastMode => cfg.mode = ModeIs
    /\ pc \in PastEndpoints => cfg.listen = ListenIs /\ cfg.remote = RemoteIs
    /\ pc \in PastObfuscation => cfg.num = JunkRange(NumbersAre) /\ ObfuscationReadable
    /\ pc \in PastKeys => /\ cfg.serverPub = ServerIs /\ cfg.clientPub = ClientIs
                          /\ Readable({"PRIVATE_KEY"})
    /\ pc \in PastRequired => cfg.listen # None /\ cfg.remote # None
    /\ pc \in PastCps => cfg.cps = CpsIs /\ CpsReadable
    /\ pc \in PastOperational => /\ cfg.op["SILENT"] \in SilentIs
                                 /\ cfg.op["EXIT"] = EnvOr("EXIT", 600)
                                 /\ OperationalReadable
    /\ pc \in PastNetwork => cfg.net["SRC_PORT"] = PortIs

\* The derived fields, and the junk buffer.
Derived ==
    /\ pc \in PastCompute => derived = Derive(cfg)
    /\ Running => /\ Valid(cfg)
                  /\ proxy.junk = IF cfg.num["Jc"] > 0 /\ cfg.num["Jmax"] > 0
                                  THEN [count |-> cfg.num["Jc"], size |-> cfg.num["Jmax"]]
                                  ELSE [count |-> 0, size |-> 0]

IInv == FileRead /\ Launched /\ Merged /\ Derived

-----------------------------------------------------------------------------
(* Operators of the model.                                                 *)

\* The sources of a value are looked at before anything is set.
LEMMA SourcesKept ==
    ASSUME UNCHANGED <<out, env, flags>>
    PROVE  /\ ModeIs' = ModeIs /\ ListenIs' = ListenIs /\ RemoteIs' = RemoteIs
           /\ NumbersAre' = NumbersAre /\ ServerIs' = ServerIs /\ ClientIs' = ClientIs
           /\ CpsIs' = CpsIs /\ SilentIs' = SilentIs /\ PortIs' = PortIs
           /\ EnvOr("EXIT", 600)' = EnvOr("EXIT", 600)
           /\ ObfuscationReadable' = ObfuscationReadable /\ CpsReadable' = CpsReadable
           /\ OperationalReadable' = OperationalReadable
           /\ Readable({"PRIVATE_KEY"})' = Readable({"PRIVATE_KEY"})
  BY DEF ModeIs, ListenIs, RemoteIs, NumbersAre, ServerIs, ClientIs, CpsIs, SilentIs,
         PortIs,
         ObfuscationReadable, CpsReadable, OperationalReadable, Readable, FlagOr, FileOr,
         RemoteOr, EnvOr, Has, FileListen, EnvTemplate

LEMMA DeriveOf ==
    ASSUME NEW c, NEW d, c.num = d.num, c.h = d.h, c.serverPub = d.serverPub,
           c.clientPub = d.clientPub, c.mode = d.mode, c.peers = d.peers
    PROVE  Derive(c) = Derive(d)
  BY DEF Derive

\* The first value that is given, of two and of three.
LEMMA FirstOfTwo ==
    ASSUME NEW a, NEW b
    PROVE  /\ a # None => FirstGiven(<<a, b>>) = a
           /\ a = None /\ b # None => FirstGiven(<<a, b>>) = b
<1> DEFINE s == <<a, b>>
           given == {i \in DOMAIN s : s[i] # None}
<1>1. DOMAIN s = {1, 2} /\ s[1] = a /\ s[2] = b
  OBVIOUS
<1>2. FirstGiven(s) = s[CHOOSE i \in given : \A j \in given : i <= j]
  BY DEF FirstGiven
<1>3. CASE a # None
  <2>1. \A i \in given : (\A j \in given : i <= j) <=> i = 1
    BY <1>1, <1>3
  <2>2. (CHOOSE i \in given : \A j \in given : i <= j) = 1
    BY <1>1, <1>3, <2>1
  <2> QED BY <1>1, <1>2, <1>3, <2>2
<1>4. CASE a = None /\ b # None
  <2>1. given = {2}
    BY <1>1, <1>4
  <2>2. (CHOOSE i \in given : \A j \in given : i <= j) = 2
    BY <2>1
  <2> QED BY <1>1, <1>2, <1>4, <2>2
<1> QED BY <1>3, <1>4

LEMMA FirstOfThree ==
    ASSUME NEW a, NEW b, NEW c
    PROVE  /\ a # None => FirstGiven(<<a, b, c>>) = a
           /\ a = None /\ b # None => FirstGiven(<<a, b, c>>) = b
           /\ a = None /\ b = None /\ c # None => FirstGiven(<<a, b, c>>) = c
<1> DEFINE s == <<a, b, c>>
           given == {i \in DOMAIN s : s[i] # None}
<1>1. DOMAIN s = {1, 2, 3} /\ s[1] = a /\ s[2] = b /\ s[3] = c
  OBVIOUS
<1>2. FirstGiven(s) = s[CHOOSE i \in given : \A j \in given : i <= j]
  BY DEF FirstGiven
<1>3. ASSUME NEW k \in given, \A j \in given : k <= j
      PROVE  FirstGiven(s) = s[k]
  <2>1. \A i \in given : (\A j \in given : i <= j) <=> i = k
    BY <1>1, <1>3
  <2>2. (CHOOSE i \in given : \A j \in given : i <= j) = k
    BY <1>3, <2>1
  <2> QED BY <1>2, <2>2
<1>4. CASE a # None
  BY <1>1, <1>3, <1>4
<1>5. CASE a = None /\ b # None
  BY <1>1, <1>3, <1>5
<1>6. CASE a = None /\ b = None /\ c # None
  BY <1>1, <1>3, <1>6
<1> QED BY <1>4, <1>5, <1>6
-----------------------------------------------------------------------------
(* The file.                                                               *)

\* The end of a section commits what it gave, and nothing else.
LEMMA FlushFileRead ==
    ASSUME FileRead, FlushIfPeer
    PROVE  /\ DOMAIN out' = {"iface", "remote", "peers"}
           /\ Collected(out.remote)'
           /\ out'.iface = out.iface
<1>1. CASE UNCHANGED <<firstPeer, out>>
  BY <1>1 DEF FileRead, Collected
<1>2. CASE /\ out'.iface = out.iface /\ DOMAIN out' = DOMAIN out
           /\ out'.remote \in {cur, out.remote}
  BY <1>2 DEF FileRead, Collected
<1>3. CASE section = "Peer" /\ DOMAIN cur # {}
  <2>1. PICK peers :
           out' = [out EXCEPT !.remote = IF firstPeer THEN cur ELSE @, !.peers = peers]
    BY <1>3 DEF FlushIfPeer, FlushPeer
  <2> QED BY <1>2, <2>1 DEF FileRead
<1> QED BY <1>1, <1>3 DEF FlushIfPeer, FlushPeer

LEMMA NumberReadable ==
    ASSUME NEW key \in Numbers, NEW val, InterfaceAccepts(key, val)
    PROVE  val # Unreadable
<1>1. key # "ListenPort" /\ key \notin Headers /\ key \notin Templates
  BY DEF Numbers, Headers, Templates
<1> QED BY <1>1, SMT DEF InterfaceAccepts

LEMMA ReadLineFileRead ==
    ASSUME FileRead, NEW line \in Lines, ReadLine(line)
    PROVE  FileRead'
<1>1. line.header \in BOOLEAN
  BY LinesAssumption
<1>2. CASE ReadHeader(line)
  <2>1. FlushIfPeer /\ cur' = Empty
    BY <1>2 DEF ReadHeader
  <2>2. Collected(cur)'
    BY <2>1 DEF Collected, Empty
  <2> QED BY <2>1, <2>2, FlushFileRead DEF FileRead
<1>3. CASE ReadInterface(line)
  <2> DEFINE val == InterfaceValue(line.key, line.val)
  <2>1. ~line.header /\ InterfaceAccepts(line.key, line.val) /\ cur' = cur
    BY <1>3 DEF ReadInterface
  <2>2. CASE line.key \notin InterfaceKeys
    BY <1>3, <2>2 DEF ReadInterface, FileRead, Collected
  <2>3. CASE line.key \in InterfaceKeys
    <3>1. out' = [out EXCEPT !.iface = With(@, line.key, val)]
      BY <1>3, <2>3 DEF ReadInterface
    <3>2. val # None
      BY <2>1, <2>3, NoneAssumption
    <3>3. line.key \in Numbers => val \in Int
      <4> SUFFICES ASSUME line.key \in Numbers PROVE val \in Int
        OBVIOUS
      <4>1. line.val # Unreadable
        BY <2>1, NumberReadable
      <4>2. line.val \in Int
        BY <2>1, <4>1, LinesAssumption
      <4> QED BY <4>2 DEF InterfaceValue, Numbers, Templates
    <3>4. /\ DOMAIN out' = {"iface", "remote", "peers"} /\ out'.remote = out.remote
          /\ out'.iface = With(out.iface, line.key, val)
      BY <3>1 DEF FileRead
    <3>5. \A key \in DOMAIN out'.iface :
             out'.iface[key] # None /\ (key \in Numbers => out'.iface[key] \in Int)
      <4>1. /\ DOMAIN out'.iface = DOMAIN out.iface \cup {line.key}
            /\ \A k \in DOMAIN out.iface \cup {line.key} :
                  out'.iface[k] = IF k = line.key THEN val ELSE out.iface[k]
        BY <3>4 DEF With
      <4> HIDE DEF val
      <4> QED BY <3>2, <3>3, <4>1 DEF FileRead
    <3> QED BY <2>1, <3>4, <3>5 DEF FileRead, Collected
  <2> QED BY <2>2, <2>3
<1>4. CASE ReadPeer(line)
  <2>1. CASE ~PeerTakes(line)
    BY <1>4, <2>1 DEF ReadPeer, FileRead, Collected
  <2>2. CASE PeerTakes(line)
    <3>1. cur' = With(cur, line.key, line.val) /\ out' = out /\ ~line.header
      BY <1>4, <2>2 DEF ReadPeer
    <3>2. line.val # None
      BY <3>1, NoneAssumption
    <3>3. line.key = "PersistentKeepalive" => line.val \in Nat
      BY <2>2, <3>1, LinesAssumption DEF PeerTakes
    <3>4. /\ DOMAIN cur' = DOMAIN cur \cup {line.key}
          /\ \A k \in DOMAIN cur \cup {line.key} :
                cur'[k] = IF k = line.key THEN line.val ELSE cur[k]
      BY <3>1 DEF With
    <3>5. Collected(cur)'
      BY <3>2, <3>3, <3>4 DEF FileRead, Collected
    <3> QED BY <3>1, <3>5 DEF FileRead, Collected
  <2> QED BY <2>1, <2>2
<1>5. CASE ReadNowhere(line)
  BY <1>5 DEF ReadNowhere, FileRead, Collected
<1> QED BY <1>2, <1>3, <1>4, <1>5 DEF ReadLine

LEMMA StepFileRead ==
    ASSUME FileRead, [Next]_vars
    PROVE  FileRead'
<1>1. CASE UNCHANGED <<cur, out>>
  BY <1>1 DEF FileRead, Collected
<1>2. CASE ReadFile
  <2>1. ASSUME NEW line \in Lines, ReadLine(line) PROVE FileRead'
    BY <2>1, ReadLineFileRead
  <2>2. CASE UNCHANGED fileVars
    BY <1>1, <2>2 DEF fileVars
  <2>3. CASE ReadEnd
    BY <2>3, FlushFileRead DEF ReadEnd, FileRead, Collected
  <2> QED BY <1>2, <2>1, <2>2, <2>3 DEF ReadFile
<1>3. CASE Launch
  BY <1>1, <1>3 DEF Launch
<1>4. CASE \E s : Stage(s)
  BY <1>1, <1>4 DEF Stage, fileVars
<1>5. CASE UNCHANGED vars
  BY <1>1, <1>5 DEF vars, fileVars
<1> QED
  BY <1>2, <1>3, <1>4, <1>5
  DEF Next, SetMode, SetEndpoints, SetObfuscation, SetKeys, SetPeers, Validate, Compute,
      Required, SetCps, SetOperational, SetNetwork, InitProxy
-----------------------------------------------------------------------------
(* The stages.                                                             *)

USE DEF PastInit, PastNetwork, PastOperational, PastCps, PastRequired, PastCompute,
        PastValidate, PastPeers, PastKeys, PastObfuscation, PastEndpoints, PastMode, Started

LEMMA InitIInv ==
    ASSUME Init
    PROVE  IInv
<1>1. FileRead
  BY DEF Init, FileInit, NoFile, Empty, FileRead, Collected
<1>2. Launched
  BY DEF Init, Launched
<1>3. Merged /\ Derived
  BY DEF Init, Merged, Derived, Running
<1> QED BY <1>1, <1>2, <1>3 DEF IInv

\* Where nothing is claimed: the file is still read, or the program has ended.
LEMMA NothingClaimed ==
    ASSUME IInv, pc' \in {"reading", "launch", "dead"}, DOMAIN cfg' = DOMAIN cfg
    PROVE  Launched' /\ Merged' /\ Derived'
<1>1. pc' \notin Started
  OBVIOUS
<1>2. Launched'
  BY <1>1 DEF IInv, Launched
<1>3. Merged' /\ Derived'
  BY <1>1 DEF Merged, Derived, Running
<1> QED BY <1>2, <1>3

LEMMA StageMode ==
    ASSUME IInv, SetMode
    PROVE  Launched' /\ Merged' /\ Derived'
<1>1. CASE Fatal
  BY <1>1, NothingClaimed DEF Fatal
<1>2. CASE ~Fatal
  <2>1. cfg' = [cfg EXCEPT !.mode = ModeIs]
    BY <1>2 DEF SetMode, ModeIs
  <2>2. Stage("mode") /\ Done("mode")
    BY <1>2 DEF SetMode
  <2>3. UNCHANGED <<out, env, flags>> /\ pc' = "endpoints"
    BY <2>2 DEF Stage, Done, After, fileVars
  <2>4. DOMAIN cfg' = DOMAIN cfg /\ cfg'.mode = ModeIs
    BY <2>1 DEF IInv, Launched, NoConfig
  <2>5. Launched'
    BY <2>2, <2>3, <2>4 DEF IInv, Launched, Stage
  <2>6. Merged'
    BY <2>3, <2>4, SourcesKept DEF Merged
  <2> QED BY <2>3, <2>5, <2>6 DEF Derived, Running
<1> QED BY <1>1, <1>2
LEMMA StageEndpoints ==
    ASSUME IInv, SetEndpoints
    PROVE  Launched' /\ Merged' /\ Derived'
<1>1. cfg' = [cfg EXCEPT !.listen = ListenIs, !.remote = RemoteIs]
  BY DEF SetEndpoints, ListenIs, RemoteIs
<1>2. Stage("endpoints") /\ Done("endpoints")
  BY DEF SetEndpoints
<1>3. UNCHANGED <<out, env, flags>> /\ pc' = "obfuscation"
  BY <1>2 DEF Stage, Done, After, fileVars
<1>4. /\ DOMAIN cfg' = DOMAIN cfg /\ cfg'.mode = cfg.mode
      /\ cfg'.listen = ListenIs /\ cfg'.remote = RemoteIs
  BY <1>1 DEF IInv, Launched, NoConfig
<1>5. Launched'
  BY <1>2, <1>3, <1>4 DEF IInv, Launched, Stage
<1>6. Merged'
  BY <1>2, <1>3, <1>4, SourcesKept DEF IInv, Merged, Stage
<1> QED BY <1>3, <1>5, <1>6 DEF Derived, Running

LEMMA StageObfuscation ==
    ASSUME IInv, SetObfuscation
    PROVE  Launched' /\ Merged' /\ Derived'
<1>1. CASE Fatal
  BY <1>1, NothingClaimed DEF Fatal
<1>2. CASE ~Fatal
  <2>1. PICK h : cfg' = [cfg EXCEPT !.num = JunkRange(NumbersAre), !.h = h]
    BY <1>2 DEF SetObfuscation, NumbersAre
  <2>2. Stage("obfuscation") /\ Done("obfuscation") /\ ObfuscationReadable
    BY <1>2 DEF SetObfuscation
  <2>3. UNCHANGED <<out, env, flags>> /\ pc' = "keys"
    BY <2>2 DEF Stage, Done, After, fileVars
  <2>4. /\ DOMAIN cfg' = DOMAIN cfg /\ cfg'.mode = cfg.mode
        /\ cfg'.listen = cfg.listen /\ cfg'.remote = cfg.remote
        /\ cfg'.num = JunkRange(NumbersAre)
    BY <2>1 DEF IInv, Launched, NoConfig
  <2>5. Launched'
    BY <2>2, <2>3, <2>4 DEF IInv, Launched, Stage
  <2>6. JunkRange(NumbersAre)' = JunkRange(NumbersAre)
    BY <2>3, SourcesKept DEF JunkRange
  <2>7. Merged'
    BY <2>2, <2>3, <2>4, <2>6, SourcesKept DEF IInv, Merged, Stage
  <2> QED BY <2>3, <2>5, <2>7 DEF Derived, Running
<1> QED BY <1>1, <1>2

LEMMA StageKeys ==
    ASSUME IInv, SetKeys
    PROVE  Launched' /\ Merged' /\ Derived'
<1>1. CASE Fatal
  BY <1>1, NothingClaimed DEF Fatal
<1>2. CASE ~Fatal
  <2>1. cfg' = [cfg EXCEPT !.serverPub = ServerIs, !.clientPub = ClientIs]
    BY <1>2 DEF SetKeys, ServerIs, ClientIs
  <2>2. Stage("keys") /\ Done("keys") /\ Readable({"PRIVATE_KEY"})
    BY <1>2 DEF SetKeys, Readable
  <2>3. UNCHANGED <<out, env, flags>> /\ pc' = "peers"
    BY <2>2 DEF Stage, Done, After, fileVars
  <2>4. /\ DOMAIN cfg' = DOMAIN cfg /\ cfg'.mode = cfg.mode
        /\ cfg'.listen = cfg.listen /\ cfg'.remote = cfg.remote /\ cfg'.num = cfg.num
        /\ cfg'.serverPub = ServerIs /\ cfg'.clientPub = ClientIs
    BY <2>1 DEF IInv, Launched, NoConfig
  <2>5. Launched'
    BY <2>2, <2>3, <2>4 DEF IInv, Launched, Stage
  <2>6. JunkRange(NumbersAre)' = JunkRange(NumbersAre)
    BY <2>3, SourcesKept DEF JunkRange
  <2>7. Merged'
    BY <2>2, <2>3, <2>4, <2>6, SourcesKept DEF IInv, Merged, Stage
  <2> QED BY <2>3, <2>5, <2>7 DEF Derived, Running
<1> QED BY <1>1, <1>2

LEMMA StagePeers ==
    ASSUME IInv, SetPeers
    PROVE  Launched' /\ Merged' /\ Derived'
<1>1. CASE Fatal
  BY <1>1, NothingClaimed DEF Fatal
<1>2. CASE ~Fatal
  <2>1. cfg' = cfg \/ \E peers : cfg' = [cfg EXCEPT !.peers = peers]
    BY <1>2 DEF SetPeers
  <2>2. Stage("peers") /\ Done("peers")
    BY <1>2 DEF SetPeers
  <2>3. UNCHANGED <<out, env, flags>> /\ pc' = "validate"
    BY <2>2 DEF Stage, Done, After, fileVars
  <2>4. /\ DOMAIN cfg' = DOMAIN cfg /\ cfg'.mode = cfg.mode
        /\ cfg'.listen = cfg.listen /\ cfg'.remote = cfg.remote /\ cfg'.num = cfg.num
        /\ cfg'.serverPub = cfg.serverPub /\ cfg'.clientPub = cfg.clientPub
    BY <2>1 DEF IInv, Launched, NoConfig
  <2>5. Launched'
    BY <2>2, <2>3, <2>4 DEF IInv, Launched, Stage
  <2>6. JunkRange(NumbersAre)' = JunkRange(NumbersAre)
    BY <2>3, SourcesKept DEF JunkRange
  <2>7. Merged'
    BY <2>2, <2>3, <2>4, <2>6, SourcesKept DEF IInv, Merged, Stage
  <2> QED BY <2>3, <2>5, <2>7 DEF Derived, Running
<1> QED BY <1>1, <1>2

\* Validation and the check of what is required look, and change nothing.
LEMMA StageLooks ==
    ASSUME IInv, Validate \/ Required
    PROVE  Launched' /\ Merged' /\ Derived'
<1>1. CASE Fatal
  BY <1>1, NothingClaimed DEF Fatal
<1>2. CASE ~Fatal
  <2>1. cfg' = cfg /\ derived' = derived
    BY <1>2 DEF Validate, Required
  <2>2. \/ Stage("validate") /\ Done("validate")
        \/ Stage("required") /\ Done("required") /\ RequiredGiven
    BY <1>2 DEF Validate, Required
  <2>3. UNCHANGED <<out, env, flags>>
    BY <2>2 DEF Stage, fileVars
  <2>4. \/ pc = "validate" /\ pc' = "compute"
        \/ pc = "required" /\ pc' = "cps" /\ cfg.listen # None /\ cfg.remote # None
    BY <2>2 DEF Stage, Done, After, RequiredGiven
  <2>5. Launched'
    BY <2>1, <2>3, <2>4 DEF IInv, Launched
  <2>6. JunkRange(NumbersAre)' = JunkRange(NumbersAre)
    BY <2>3, SourcesKept DEF JunkRange
  <2>7. Merged'
    BY <2>1, <2>3, <2>4, <2>6, SourcesKept DEF IInv, Merged
  <2>8. Derived'
    BY <2>1, <2>4 DEF IInv, Derived, Running
  <2> QED BY <2>5, <2>7, <2>8
<1> QED BY <1>1, <1>2

LEMMA StageCompute ==
    ASSUME IInv, Compute
    PROVE  Launched' /\ Merged' /\ Derived'
<1>1. cfg' = cfg /\ derived' = Derive(cfg) /\ pc = "compute" /\ pc' = "required"
      /\ UNCHANGED <<out, env, flags>>
  BY DEF Compute, Stage, Done, After, fileVars
<1>2. Launched'
  BY <1>1 DEF IInv, Launched
<1>3. JunkRange(NumbersAre)' = JunkRange(NumbersAre)
  BY <1>1, SourcesKept DEF JunkRange
<1>4. Merged'
  BY <1>1, <1>3, SourcesKept DEF IInv, Merged
<1>5. Derived'
  BY <1>1 DEF Derived, Running
<1> QED BY <1>2, <1>4, <1>5
\* What the last stages set, the derived fields do not depend on.
LEMMA SetsNothingDerived ==
    ASSUME IInv, DOMAIN cfg' = DOMAIN cfg, derived' = derived,
           NEW F \in SUBSET {"cps", "op", "net", "dns"},
           \A f \in DOMAIN NoConfig \ F : cfg'[f] = cfg[f],
           pc \in PastCompute, pc' \in PastCompute, pc' # "running"
    PROVE  /\ Derived'
           /\ cfg'.mode = cfg.mode /\ cfg'.listen = cfg.listen /\ cfg'.remote = cfg.remote
           /\ cfg'.num = cfg.num /\ cfg'.serverPub = cfg.serverPub
           /\ cfg'.clientPub = cfg.clientPub
<1>1. /\ cfg'.mode = cfg.mode /\ cfg'.listen = cfg.listen /\ cfg'.remote = cfg.remote
      /\ cfg'.num = cfg.num /\ cfg'.h = cfg.h /\ cfg'.serverPub = cfg.serverPub
      /\ cfg'.clientPub = cfg.clientPub /\ cfg'.peers = cfg.peers
  BY DEF NoConfig
<1>2. Derive(cfg') = Derive(cfg)
  BY <1>1, DeriveOf
<1>3. Derive(cfg)' = Derive(cfg)
  BY <1>2 DEF Derive
<1> QED BY <1>1, <1>3 DEF IInv, Derived, Running

LEMMA StageCps ==
    ASSUME IInv, SetCps
    PROVE  Launched' /\ Merged' /\ Derived'
<1>1. CASE Fatal
  BY <1>1, NothingClaimed DEF Fatal
<1>2. CASE ~Fatal
  <2>1. cfg' = [cfg EXCEPT !.cps = CpsIs] /\ derived' = derived /\ CpsReadable
    BY <1>2 DEF SetCps, CpsIs
  <2>2. UNCHANGED <<out, env, flags>> /\ pc = "cps" /\ pc' = "operational"
    BY <1>2 DEF SetCps, Stage, Done, After, fileVars
  <2>3. /\ DOMAIN cfg' = DOMAIN cfg /\ cfg'.cps = CpsIs
        /\ \A f \in DOMAIN NoConfig \ {"cps"} : cfg'[f] = cfg[f]
    BY <2>1 DEF IInv, Launched, NoConfig
  <2>4. /\ Derived' /\ cfg'.mode = cfg.mode
        /\ cfg'.listen = cfg.listen /\ cfg'.remote = cfg.remote
        /\ cfg'.num = cfg.num /\ cfg'.serverPub = cfg.serverPub
        /\ cfg'.clientPub = cfg.clientPub
    BY <2>1, <2>2, <2>3, SetsNothingDerived
  <2>5. Launched'
    BY <2>2, <2>3 DEF IInv, Launched
  <2>6. JunkRange(NumbersAre)' = JunkRange(NumbersAre)
    BY <2>2, SourcesKept DEF JunkRange
  <2>7. Merged'
    BY <2>1, <2>2, <2>3, <2>4, <2>6, SourcesKept DEF IInv, Merged
  <2> QED BY <2>4, <2>5, <2>7
<1> QED BY <1>1, <1>2

LEMMA StageOperational ==
    ASSUME IInv, SetOperational
    PROVE  Launched' /\ Merged' /\ Derived'
<1>1. CASE Fatal
  BY <1>1, NothingClaimed DEF Fatal
<1>2. CASE ~Fatal
  <2> DEFINE Ops(silent) == [k \in DOMAIN OperationalDefault |->
                                IF k = "SILENT" THEN silent
                                ELSE EnvOr(k, OperationalDefault[k])]
  <2>1. OperationalReadable /\ derived' = derived
        /\ \E silent \in SilentIs : cfg' = [cfg EXCEPT !.op = Ops(silent)]
    BY <1>2 DEF SetOperational, SilentIs
  <2>2. UNCHANGED <<out, env, flags>> /\ pc = "operational" /\ pc' = "network"
    BY <1>2 DEF SetOperational, Stage, Done, After, fileVars
  <2>3. PICK silent \in SilentIs : cfg' = [cfg EXCEPT !.op = Ops(silent)]
    BY <2>1
  <2>4. Ops(silent)["SILENT"] = silent /\ Ops(silent)["EXIT"] = EnvOr("EXIT", 600)
    BY DEF OperationalDefault
  <2> HIDE DEF Ops
  <2>5. /\ DOMAIN cfg' = DOMAIN cfg /\ cfg'.op = Ops(silent) /\ cfg'.cps = cfg.cps
        /\ \A f \in DOMAIN NoConfig \ {"op"} : cfg'[f] = cfg[f]
    BY <2>3 DEF IInv, Launched, NoConfig
  <2>6. /\ Derived' /\ cfg'.mode = cfg.mode
        /\ cfg'.listen = cfg.listen /\ cfg'.remote = cfg.remote
        /\ cfg'.num = cfg.num /\ cfg'.serverPub = cfg.serverPub
        /\ cfg'.clientPub = cfg.clientPub
    BY <2>1, <2>2, <2>5, SetsNothingDerived
  <2>7. Launched'
    BY <2>2, <2>5 DEF IInv, Launched
  <2>8. JunkRange(NumbersAre)' = JunkRange(NumbersAre)
    BY <2>2, SourcesKept DEF JunkRange
  <2>9. Merged'
    BY <2>1, <2>2, <2>3, <2>4, <2>5, <2>6, <2>8, SourcesKept DEF IInv, Merged
  <2> QED BY <2>6, <2>7, <2>9
<1> QED BY <1>1, <1>2

LEMMA StageNetwork ==
    ASSUME IInv, SetNetwork
    PROVE  Launched' /\ Merged' /\ Derived'
<1>1. CASE Fatal
  BY <1>1, NothingClaimed DEF Fatal
<1>2. CASE ~Fatal
  <2> DEFINE Net == [k \in DOMAIN NetworkDefault |->
                        IF k = "SRC_PORT"
                        THEN FlagOr("srcPort", EnvOr(k, NetworkDefault[k]))
                        ELSE IF k = "DRIFT" /\ EnvOr(k, 1) # 0 THEN 1
                        ELSE EnvOr(k, NetworkDefault[k])]
             Dns == FileOr("DNS", EnvOr("DNS", None))
  <2>1. cfg' = [cfg EXCEPT !.net = Net, !.dns = Dns] /\ derived' = derived
    BY <1>2 DEF SetNetwork
  <2>2. UNCHANGED <<out, env, flags>> /\ pc = "network" /\ pc' = "init"
    BY <1>2 DEF SetNetwork, Stage, Done, After, fileVars
  <2>3. Net["SRC_PORT"] = PortIs
    BY DEF NetworkDefault, PortIs
  <2> HIDE DEF Net, Dns
  <2>4. /\ DOMAIN cfg' = DOMAIN cfg /\ cfg'.net = Net
        /\ cfg'.cps = cfg.cps /\ cfg'.op = cfg.op
        /\ \A f \in DOMAIN NoConfig \ {"net", "dns"} : cfg'[f] = cfg[f]
    BY <2>1 DEF IInv, Launched, NoConfig
  <2>5. /\ Derived' /\ cfg'.mode = cfg.mode
        /\ cfg'.listen = cfg.listen /\ cfg'.remote = cfg.remote
        /\ cfg'.num = cfg.num /\ cfg'.serverPub = cfg.serverPub
        /\ cfg'.clientPub = cfg.clientPub
    BY <2>1, <2>2, <2>4, SetsNothingDerived
  <2>6. Launched'
    BY <2>2, <2>4 DEF IInv, Launched
  <2>7. JunkRange(NumbersAre)' = JunkRange(NumbersAre)
    BY <2>2, SourcesKept DEF JunkRange
  <2>8. Merged'
    BY <2>2, <2>3, <2>4, <2>5, <2>7, SourcesKept DEF IInv, Merged
  <2> QED BY <2>5, <2>6, <2>8
<1> QED BY <1>1, <1>2

LEMMA StageInit ==
    ASSUME IInv, InitProxy
    PROVE  Launched' /\ Merged' /\ Derived'
<1>1. CASE Fatal
  BY <1>1, NothingClaimed DEF Fatal
<1>2. CASE ~Fatal
  <2>1. /\ cfg' = cfg /\ derived' = derived /\ Valid(cfg)
        /\ proxy'.junk = IF cfg.num["Jc"] > 0 /\ cfg.num["Jmax"] > 0
                         THEN [count |-> cfg.num["Jc"], size |-> cfg.num["Jmax"]]
                         ELSE [count |-> 0, size |-> 0]
    BY <1>2 DEF InitProxy
  <2>2. UNCHANGED <<out, env, flags>> /\ pc = "init" /\ pc' = "running"
    BY <1>2 DEF InitProxy, Stage, Done, After, fileVars
  <2>3. Launched'
    BY <2>1, <2>2 DEF IInv, Launched
  <2>4. JunkRange(NumbersAre)' = JunkRange(NumbersAre)
    BY <2>2, SourcesKept DEF JunkRange
  <2>5. Merged'
    BY <2>1, <2>2, <2>4, SourcesKept DEF IInv, Merged
  <2>6. Derived'
    BY <2>1, <2>2 DEF IInv, Derived
  <2> QED BY <2>3, <2>5, <2>6
<1> QED BY <1>1, <1>2

LEMMA StepIInv ==
    ASSUME IInv, [Next]_vars
    PROVE  IInv'
<1>1. FileRead'
  BY StepFileRead DEF IInv
<1>2. CASE ReadFile
  <2>1. pc' \in {"reading", "launch", "dead"} /\ cfg' = cfg
    BY <1>2 DEF ReadFile
  <2> QED BY <1>1, <2>1, NothingClaimed DEF IInv
<1>3. CASE Launch
  <2>1. Launched'
    BY <1>3 DEF IInv, Launch, Launched
  <2>2. Merged' /\ Derived'
    BY <1>3 DEF Launch, Merged, Derived, Running
  <2> QED BY <1>1, <2>1, <2>2 DEF IInv
<1>4. CASE UNCHANGED vars
  <2>1. UNCHANGED <<out, env, flags, pc, cfg, derived, proxy>>
    BY <1>4 DEF vars, fileVars, configVars
  <2>2. JunkRange(NumbersAre)' = JunkRange(NumbersAre)
    BY <2>1, SourcesKept DEF JunkRange
  <2>3. Merged'
    BY <2>1, <2>2, SourcesKept DEF IInv, Merged
  <2>4. Launched' /\ Derived'
    BY <2>1 DEF IInv, Launched, Derived, Running
  <2> QED BY <1>1, <2>3, <2>4 DEF IInv
<1> QED
  BY <1>1, <1>2, <1>3, <1>4, StageMode, StageEndpoints, StageObfuscation, StageKeys,
     StagePeers, StageLooks, StageCompute, StageCps, StageOperational, StageNetwork,
     StageInit
  DEF Next, IInv

THEOREM ConfigInvariant == Spec => []IInv
<1>1. Init => IInv
  BY InitIInv
<1>2. IInv /\ [Next]_vars => IInv'
  BY StepIInv
<1> QED BY <1>1, <1>2, PTL DEF Spec

\* Nothing is set after config_compute() that it depends on: see DerivedFresh in
\* Config.tla, of main.c:406 and the stages behind it.
THEOREM ConfigDerivedFresh == Spec => []DerivedFresh
<1>1. IInv => DerivedFresh
  BY DEF IInv, Derived, DerivedFresh, Running
<1> QED BY <1>1, ConfigInvariant, PTL
-----------------------------------------------------------------------------
(* The timeout that is derived from the keepalive.                         *)

\* A product that fits an int is not changed by its width.
LEMMA ProductFits ==
    ASSUME NEW k \in Nat, k < IntSize \div 8
    PROVE  Wrapped(k * 4) = k * 4
<1>1. IntSize \in Nat \ {0}
  BY IntSizeAssumption
<1> DEFINE half == IntSize \div 2
           n == k * 4 + half
<1>2. half \in Nat /\ 2 * half <= IntSize
  BY <1>1
<1>3. 8 * (k + 1) <= IntSize
  BY <1>1
<1>4. n \in Nat /\ n < IntSize
  <2>1. IntSize <= 2 * half + 1
    BY <1>1
  <2> QED BY <1>1, <1>2, <1>3, <2>1
<1> HIDE DEF half
<1>5. \A m \in Nat : m < IntSize => m % IntSize = m
  BY <1>1
<1>6. n % IntSize = n
  BY <1>4, <1>5
<1> QED BY <1>2, <1>6 DEF Wrapped, half

LEMMA SilentTimeoutIn ==
    ASSUME NEW secs \in Int, secs <= 0, NEW k \in Nat, k < IntSize \div 8, NEW exit \in Int,
           NEW t \in SilentTimeouts(secs, k, exit)
    PROVE  /\ t \in Int /\ t >= 30
           /\ exit >= 60 => 2 * t <= exit
<1> DEFINE low == {AtLeast(k * 4, 30), IF k < 8 THEN 30 ELSE k * 4}
<1>1. Wrapped(k * 4) = k * 4
  BY ProductFits
<1>2. PICK n \in low : t = IF exit > 0 THEN AtMost(n, AtLeast(exit \div 2, 30)) ELSE n
  BY <1>1 DEF SilentTimeouts
<1>3. n \in Int /\ n >= 30
  BY DEF AtLeast
<1>4. exit \div 2 \in Int /\ 2 * (exit \div 2) <= exit /\ (exit >= 60 => exit \div 2 >= 30)
  OBVIOUS
<1> HIDE DEF low
<1> QED BY <1>2, <1>3, <1>4 DEF AtMost, AtLeast

\* The numbers that the environment and the file give.
LEMMA EnvNumber ==
    ASSUME env \in Envs, NEW k \in DOMAIN OperationalDefault, NEW d \in Int, Readable({k})
    PROVE  EnvOr(k, d) \in Int
<1>1. CASE ~Has(k)
  BY <1>1 DEF EnvOr
<1>2. CASE Has(k)
  <2>1. env[k] # Blank /\ env[k] # Unreadable /\ k \in DOMAIN env
    BY <1>2 DEF Has, Readable, EnvOr
  <2> QED BY <1>2, <2>1, EnvsAssumption DEF EnvOr
<1> QED BY <1>1, <1>2

LEMMA TimesAreNumbers ==
    ASSUME IInv, pc \in PastOperational
    PROVE  /\ EnvOr("SILENT", 0) \in Int /\ EnvOr("EXIT", 600) \in Int
           /\ RemoteOr("PersistentKeepalive", 15) \in Nat
<1>1. env \in Envs /\ OperationalReadable
  BY DEF IInv, Launched, Merged
<1>2. Readable({"SILENT"}) /\ Readable({"EXIT"})
  BY <1>1 DEF OperationalReadable, OperationalDefault, Readable
<1>3. "SILENT" \in DOMAIN OperationalDefault /\ "EXIT" \in DOMAIN OperationalDefault
  BY DEF OperationalDefault
<1>4. EnvOr("SILENT", 0) \in Int /\ EnvOr("EXIT", 600) \in Int
  BY <1>1, <1>2, <1>3, EnvNumber
<1>5. RemoteOr("PersistentKeepalive", 15) \in Nat
  BY DEF IInv, FileRead, Collected, RemoteOr
<1> QED BY <1>4, <1>5

\* The proxy reconnects twice before the exit guard, and not more often than
\* every 30 seconds: see ReconnectsBeforeExit in Config.tla, of
\* config_runtime.c:371.
THEOREM ConfigReconnectsBeforeExit == Spec => []ReconnectsBeforeExit
<1>1. ASSUME IInv PROVE ReconnectsBeforeExit
  <2> SUFFICES ASSUME Running, EnvOr("SILENT", 0) <= 0, KeepaliveFits
               PROVE  /\ cfg.op["SILENT"] >= 30
                      /\ cfg.op["EXIT"] >= 60 => 2 * cfg.op["SILENT"] <= cfg.op["EXIT"]
    BY DEF ReconnectsBeforeExit
  <2>1. pc \in PastOperational
    BY DEF Running
  <2>2. cfg.op["SILENT"] \in SilentIs /\ cfg.op["EXIT"] = EnvOr("EXIT", 600)
    BY <1>1, <2>1 DEF IInv, Merged
  <2> QED BY <1>1, <2>1, <2>2, TimesAreNumbers, SilentTimeoutIn DEF SilentIs, KeepaliveFits
<1> QED BY <1>1, ConfigInvariant, PTL
-----------------------------------------------------------------------------
(* The sources of a value.                                                 *)

\* What a source gives is never None.
LEMMA EnvGives ==
    ASSUME env \in Envs, NEW k
    PROVE  Has(k) => env[k] # None
  BY NoneAssumption DEF Has

LEMMA FlagGives ==
    ASSUME flags \in FlagSets, NEW k
    PROVE  k \in DOMAIN flags => flags[k] # None
  BY NoneAssumption

\* The file, then the environment, then a default.
LEMMA FileFirst ==
    ASSUME FileRead, env \in Envs, NEW k, NEW name, NEW d, d # None
    PROVE  /\ FirstGiven(<<FileOr(k, None), FromEnv(name), d>>) = FileOr(k, EnvOr(name, d))
           /\ FirstGiven(<<RemoteOr(k, None), FromEnv(name), d>>) = RemoteOr(k, EnvOr(name, d))
<1>1. Has(name) => env[name] # None
  BY EnvGives
<1>2. /\ k \in DOMAIN out.iface => out.iface[k] # None
      /\ k \in DOMAIN out.remote => out.remote[k] # None
  BY DEF FileRead, Collected
<1>3. FirstGiven(<<FileOr(k, None), FromEnv(name), d>>) = FileOr(k, EnvOr(name, d))
  BY <1>1, <1>2, FirstOfThree DEF FileOr, FromEnv, EnvOr
<1>4. FirstGiven(<<RemoteOr(k, None), FromEnv(name), d>>) = RemoteOr(k, EnvOr(name, d))
  BY <1>1, <1>2, FirstOfThree DEF RemoteOr, FromEnv, EnvOr
<1> QED BY <1>3, <1>4

\* The command line, then the environment, then a default.
LEMMA FlagFirst ==
    ASSUME env \in Envs, flags \in FlagSets, NEW k, NEW name, NEW d, d # None
    PROVE  FirstGiven(<<FromFlag(k), FromEnv(name), d>>) = FlagOr(k, EnvOr(name, d))
<1>1. (Has(name) => env[name] # None) /\ (k \in DOMAIN flags => flags[k] # None)
  BY EnvGives, FlagGives
<1> QED BY <1>1, FirstOfThree DEF FromFlag, FromEnv, FlagOr, EnvOr

\* Both addresses: what is required must come from somewhere.
LEMMA AddressesRight ==
    ASSUME IInv, Running
    PROVE  /\ cfg.listen = FirstGiven(<<FromFlag("listen"), FileListen, FromEnv("LISTEN")>>)
           /\ cfg.remote = FirstGiven(<<FromFlag("remote"), RemoteOr("Endpoint", None),
                                        FromEnv("REMOTE")>>)
<1>1. /\ cfg.listen = ListenIs /\ cfg.remote = RemoteIs
      /\ cfg.listen # None /\ cfg.remote # None
      /\ flags \in FlagSets
  BY DEF IInv, Merged, Launched, Running
<1>2. "Endpoint" \in DOMAIN out.remote => out.remote["Endpoint"] # None
  BY DEF IInv, FileRead, Collected
<1>3. cfg.listen = FirstGiven(<<FromFlag("listen"), FileListen, FromEnv("LISTEN")>>)
  BY <1>1, FlagGives, FirstOfThree DEF ListenIs, FromFlag, FromEnv, FlagOr
<1>4. cfg.remote = FirstGiven(<<FromFlag("remote"), RemoteOr("Endpoint", None),
                                FromEnv("REMOTE")>>)
  BY <1>1, <1>2, FlagGives, FirstOfThree DEF RemoteIs, FromFlag, FromEnv, FlagOr, RemoteOr
<1> QED BY <1>3, <1>4

LEMMA KeysRight ==
    ASSUME IInv, Running
    PROVE  /\ cfg.clientPub = FirstGiven(<<FileOr("PrivateKey", None), FromEnv("CLIENT_PUB"),
                  IF Has("PRIVATE_KEY") THEN PublicOf[env["PRIVATE_KEY"]] ELSE ZeroKey>>)
           /\ cfg.serverPub = FirstGiven(<<RemoteOr("PublicKey", None),
                                           FromEnv("SERVER_PUB"), ZeroKey>>)
<1> DEFINE own == IF Has("PRIVATE_KEY") THEN PublicOf[env["PRIVATE_KEY"]] ELSE ZeroKey
<1>1. /\ cfg.serverPub = ServerIs /\ cfg.clientPub = ClientIs
      /\ Readable({"PRIVATE_KEY"}) /\ env \in Envs /\ FileRead
  BY DEF IInv, Merged, Launched, Running
<1>2. own # None
  <2>1. CASE ~Has("PRIVATE_KEY")
    BY <2>1, NoneAssumption
  <2>2. CASE Has("PRIVATE_KEY")
    <3>1. "PRIVATE_KEY" \in DOMAIN env /\ env["PRIVATE_KEY"] \notin {Blank, Unreadable}
      BY <1>1, <2>2 DEF Readable, EnvOr, Has
    <3> QED BY <1>1, <2>2, <3>1, NoneAssumption
  <2> QED BY <2>1, <2>2
<1>3. cfg.clientPub = FileOr("PrivateKey", EnvOr("CLIENT_PUB", own))
  BY <1>1 DEF ClientIs
<1> HIDE DEF own
<1>4. cfg.clientPub = FirstGiven(<<FileOr("PrivateKey", None), FromEnv("CLIENT_PUB"), own>>)
  BY <1>1, <1>2, <1>3, FileFirst
<1>5. cfg.serverPub =
         FirstGiven(<<RemoteOr("PublicKey", None), FromEnv("SERVER_PUB"), ZeroKey>>)
  BY <1>1, FileFirst, NoneAssumption DEF ServerIs
<1> QED BY <1>4, <1>5 DEF own

LEMMA TemplatesRight ==
    ASSUME IInv, Running, NEW i \in 1 .. 5
    PROVE  cfg.cps[i] =
              FirstGiven(<<FileOr(TemplateOrder[i], None), EnvTemplate(TemplateOrder[i])>>)
<1> DEFINE k == TemplateOrder[i]
<1>1. cfg.cps = CpsIs /\ CpsReadable /\ env \in Envs /\ FileRead
  BY DEF IInv, Merged, Launched, Running
<1>2. k \in Templates
  BY DEF TemplateOrder, Templates
<1>3. cfg.cps[i] = FileOr(k, EnvTemplate(k))
  BY <1>1 DEF CpsIs
<1> HIDE DEF k
<1>4. EnvTemplate(k) # None
  <2>1. CASE ~Has(k)
    BY <2>1, NoneAssumption DEF EnvTemplate
  <2>2. CASE Has(k)
    BY <1>1, <1>2, <2>2, NoneAssumption DEF EnvTemplate, CpsReadable, Has
  <2> QED BY <2>1, <2>2
<1>5. k \in DOMAIN out.iface => out.iface[k] # None
  BY <1>1 DEF FileRead
<1>6. cfg.cps[i] = FirstGiven(<<FileOr(k, None), EnvTemplate(k)>>)
  BY <1>3, <1>4, <1>5, FirstOfTwo DEF FileOr
<1> QED BY <1>6 DEF k

LEMMA NumbersRight ==
    ASSUME IInv, Running, NEW k \in Numbers \ {"Jmax"}
    PROVE  cfg.num[k] = FirstGiven(<<FileOr(k, None), FromEnv(k), 0>>)
<1>1. cfg.num = JunkRange(NumbersAre) /\ env \in Envs /\ FileRead
  BY DEF IInv, Merged, Launched, Running
<1>2. DOMAIN NumbersAre = Numbers /\ NumbersAre[k] = FileOr(k, EnvOr(k, 0))
  BY DEF NumbersAre
<1>3. cfg.num[k] = NumbersAre[k]
  BY <1>1, <1>2 DEF JunkRange
<1> QED BY <1>1, <1>2, <1>3, FileFirst, NoneAssumption

\* Each value is that of its first source: see RightSource in Config.tla, of
\* main.c:299-378 and 443-496.
THEOREM ConfigRightSource == Spec => []RightSource
<1>1. ASSUME IInv PROVE RightSource
  <2> SUFFICES ASSUME Running
               PROVE  /\ cfg.mode = FirstGiven(<<FromFlag("mode"), FromEnv("MODE"), "client">>)
                      /\ cfg.net["SRC_PORT"] =
                            FirstGiven(<<FromFlag("srcPort"), FromEnv("SRC_PORT"), 0>>)
    BY <1>1, AddressesRight, KeysRight, TemplatesRight, NumbersRight DEF RightSource
  <2>1. /\ cfg.mode = ModeIs /\ cfg.net["SRC_PORT"] = PortIs
        /\ env \in Envs /\ flags \in FlagSets
    BY <1>1 DEF IInv, Merged, Launched, Running
  <2> QED BY <2>1, FlagFirst, NoneAssumption DEF ModeIs, PortIs
<1> QED BY <1>1, ConfigInvariant, PTL

-----------------------------------------------------------------------------
(* The junk packets.                                                       *)

LEMMA NumbersAreInt ==
    ASSUME IInv, Running
    PROVE  \A k \in Numbers : cfg.num[k] \in Int
<1>1. /\ cfg.num = JunkRange(NumbersAre) /\ ObfuscationReadable
      /\ env \in Envs /\ FileRead
  BY DEF IInv, Merged, Launched, Running
<1>2. ASSUME NEW k \in Numbers PROVE NumbersAre[k] \in Int
  <2>1. k \in DOMAIN out.iface => out.iface[k] \in Int
    BY <1>1 DEF FileRead
  <2>2. Has(k) => env[k] \in Int
    BY <1>1, EnvsAssumption DEF ObfuscationReadable, Has
  <2> QED BY <2>1, <2>2 DEF NumbersAre, FileOr, EnvOr
<1>3. DOMAIN NumbersAre = Numbers
  BY DEF NumbersAre
<1> QED BY <1>1, <1>2, <1>3 DEF JunkRange

\* The two ends of the range of junk sizes, as validated.
LEMMA ValidJunk ==
    ASSUME NEW c, Valid(c)
    PROVE  c.num["Jmax"] > 0 => c.num["Jmax"] >= c.num["Jmin"]
  BY DEF Valid

\* Junk packets fit the buffer that proxy_init() allocates: see JunkFits in
\* Config.tla, of main.c:348 and generate_junk() in transform.c.
THEOREM ConfigJunkFits == Spec => []JunkFits
<1>1. ASSUME IInv PROVE JunkFits
  <2> SUFFICES ASSUME Running, NEW size \in JunkSizes(cfg)
               PROVE  size \in 1 .. proxy.junk.size /\ cfg.num["Jc"] <= proxy.junk.count
    BY DEF JunkFits
  <2> DEFINE jc == cfg.num["Jc"]
             lo == cfg.num["Jmin"]
             hi == cfg.num["Jmax"]
  <2>1. jc \in Int /\ lo \in Int /\ hi \in Int
    BY <1>1, NumbersAreInt DEF Numbers
  <2>2. jc > 0 /\ hi > 0 /\ size \in AtLeast(lo, 1) .. AtLeast(hi, AtLeast(lo, 1))
    BY <2>1 DEF JunkSizes
  <2>3. hi > 0 => hi >= lo
    <3>1. Valid(cfg)
      BY <1>1 DEF IInv, Derived
    <3> QED BY <3>1, ValidJunk
  <2>4. proxy.junk = [count |-> jc, size |-> hi]
    BY <1>1, <2>2 DEF IInv, Derived
  <2> HIDE DEF jc, lo, hi
  <2>5. size \in 1 .. hi
    BY <2>1, <2>2, <2>3 DEF AtLeast
  <2> QED BY <2>1, <2>4, <2>5 DEF jc
<1> QED BY <1>1, ConfigInvariant, PTL

-----------------------------------------------------------------------------
(* The file: one pass over its lines gives what it says as a whole.  What  *)
(* is read says what it should of the lines so far: the keys of            *)
(* [Interface] are stored, the open [Peer] is collected, and those before  *)
(* it are committed.                                                       *)

\* The section the next line belongs to, and the peers that are complete.
OpenHead == SectionAt(Len(text))
ClosedHeads == PeerHeads \ {OpenHead}
KeyedOf(heads) == {h \in heads : Given(h, "PublicKey") # {}}

Values == {line.val : line \in Lines}

Committed(heads) ==
    /\ firstPeer <=> heads = {}
    /\ out.remote = RemoteSays(heads)
    /\ out.peers \in Seq(Values) /\ Len(out.peers) <= MaxPeers
    /\ AreKeysOf(out.peers, KeyedOf(heads))

ReadInv ==
    /\ text \in Seq(Lines)
    /\ DOMAIN out = {"iface", "remote", "peers"}
    /\ section = IF OpenHead = 0 THEN "None" ELSE text[OpenHead].key
    /\ out.iface = InterfaceSays
    /\ section = "Peer" => cur = PeerSays(OpenHead)
    /\ Committed(ClosedHeads)

ParseInv ==
    /\ pc = "reading" => ReadInv
    /\ ParsedRight

\* A set of line numbers has a first and a last one.
LEMMA LeastNumber ==
    ASSUME NEW T, T \subseteq Nat, T # {}
    PROVE  \E x \in T : \A y \in T : x <= y
<1> DEFINE R == OpToRel(<, Nat)
<1>1. IsWellFoundedOn(R, Nat)
  BY NatLessThanWellFounded
<1>2. \A x, y \in Nat : y < x => <<y, x>> \in R
  BY DEF OpToRel
<1> HIDE DEF R
<1>3. PICK x \in T : \A y \in T : ~(<<y, x>> \in R)
  BY <1>1, WFMin
<1>4. x \in Nat /\ \A y \in T : y \in Nat /\ ~(y < x)
  BY <1>2, <1>3
<1> QED BY <1>3, <1>4

LEMMA FirstLast ==
    ASSUME NEW n \in Nat, NEW S, S \subseteq 1 .. n, S # {}
    PROVE  /\ LastOf(S) \in S /\ \A j \in S : j <= LastOf(S)
           /\ FirstOf(S) \in S /\ \A j \in S : FirstOf(S) <= j
<1> DEFINE T == {n - i : i \in S}
<1>1. \E j \in S : \A i \in S : j <= i
  <2>1. S \subseteq Nat
    OBVIOUS
  <2> QED BY <2>1, LeastNumber
<1>2. \E j \in S : \A i \in S : i <= j
  <2>1. \A t \in T : t \in Nat
    OBVIOUS
  <2>2. T # {}
    OBVIOUS
  <2>3. PICK x \in T : \A y \in T : x <= y
    <3> HIDE DEF T
    <3> QED BY <2>1, <2>2, LeastNumber
  <2>4. PICK j \in S : x = n - j
    OBVIOUS
  <2>5. ASSUME NEW i \in S PROVE i <= j
    <3>1. n - i \in T /\ i \in Nat /\ j \in Nat
      OBVIOUS
    <3>2. n - j <= n - i
      BY <2>3, <2>4, <3>1
    <3> QED BY <3>1, <3>2
  <2> QED BY <2>5
<1>3. LastOf(S) \in S /\ \A j \in S : j <= LastOf(S)
  BY <1>2 DEF LastOf
<1>4. FirstOf(S) \in S /\ \A j \in S : FirstOf(S) <= j
  BY <1>1 DEF FirstOf
<1> QED BY <1>3, <1>4

\* What is chosen when the last element is known.
LEMMA LastIs ==
    ASSUME NEW n \in Nat, NEW S, S \subseteq 1 .. n, NEW m \in S, \A j \in S : j <= m
    PROVE  LastOf(S) = m
<1>1. LastOf(S) \in S /\ \A j \in S : j <= LastOf(S)
  BY FirstLast
<1>2. LastOf(S) \in 1 .. n /\ m \in 1 .. n /\ LastOf(S) <= m /\ m <= LastOf(S)
  BY <1>1
<1> QED BY <1>2

LEMMA FirstIs ==
    ASSUME NEW n \in Nat, NEW S, S \subseteq 1 .. n, NEW m \in S, \A j \in S : m <= j
    PROVE  FirstOf(S) = m
<1>1. FirstOf(S) \in S /\ \A j \in S : FirstOf(S) <= j
  BY FirstLast
<1>2. FirstOf(S) \in 1 .. n /\ m \in 1 .. n /\ FirstOf(S) <= m /\ m <= FirstOf(S)
  BY <1>1
<1> QED BY <1>2

-----------------------------------------------------------------------------
(* The sections of a text, and of one that is a line longer.               *)

LEMMA SectionFacts ==
    ASSUME text \in Seq(Lines), NEW i \in 0 .. Len(text)
    PROVE  /\ SectionAt(i) \in 0 .. i
           /\ SectionAt(i) # 0 => text[SectionAt(i)].header
           /\ \A k \in 1 .. i : text[k].header => k <= SectionAt(i)
<1> DEFINE above == {j \in 1 .. i : text[j].header}
<1>1. SectionAt(i) = IF above = {} THEN 0 ELSE LastOf(above)
  BY DEF SectionAt, LastOf
<1>2. above # {} => LastOf(above) \in above /\ \A j \in above : j <= LastOf(above)
  <2>1. above \subseteq 1 .. i /\ i \in Nat
    OBVIOUS
  <2> HIDE DEF above
  <2> QED BY <2>1, FirstLast
<1> QED BY <1>1, <1>2

\* A line that is appended changes nothing before it.
LEMMA Appended ==
    ASSUME text \in Seq(Lines), NEW line \in Lines, text' = Append(text, line)
    PROVE  /\ text' \in Seq(Lines) /\ Len(text') = Len(text) + 1
           /\ DOMAIN text = 1 .. Len(text) /\ DOMAIN text' = 1 .. Len(text) + 1
           /\ \A i \in 1 .. Len(text) : text'[i] = text[i]
           /\ text'[Len(text) + 1] = line
  OBVIOUS

LEMMA SectionKept ==
    ASSUME text \in Seq(Lines), NEW line \in Lines, text' = Append(text, line),
           NEW i \in 0 .. Len(text)
    PROVE  SectionAt(i)' = SectionAt(i)
<1> DEFINE before == {j \in 1 .. i : text[j].header}
           after == {j \in 1 .. i : text'[j].header}
<1>1. before = after
  BY Appended
<1>2. SectionAt(i) = IF before = {} THEN 0 ELSE LastOf(before)
  BY DEF SectionAt, LastOf
<1>3. SectionAt(i)' = IF after = {} THEN 0 ELSE LastOf(after)
  BY DEF SectionAt, LastOf
<1> HIDE DEF before, after
<1> QED BY <1>1, <1>2, <1>3

LEMMA OpenMoves ==
    ASSUME text \in Seq(Lines), NEW line \in Lines, text' = Append(text, line)
    PROVE  /\ line.header => OpenHead' = Len(text) + 1
           /\ ~line.header => OpenHead' = OpenHead
<1> DEFINE n == Len(text)
           below == {j \in 1 .. n : text[j].header}
           above == {j \in 1 .. n + 1 : text'[j].header}
<1>1. n \in Nat /\ Len(text') = n + 1
  BY Appended
<1>3. OpenHead' = IF above = {} THEN 0 ELSE LastOf(above)
  BY <1>1 DEF OpenHead, SectionAt, LastOf
<1>4. OpenHead = IF below = {} THEN 0 ELSE LastOf(below)
  BY DEF OpenHead, SectionAt, LastOf
<1>5. line.header => n + 1 \in above /\ \A j \in above : j <= n + 1
  BY Appended
<1>6. line.header => LastOf(above) = n + 1
  <2>1. above \subseteq 1 .. n + 1 /\ n + 1 \in Nat
    OBVIOUS
  <2> HIDE DEF above
  <2> QED BY <1>5, <2>1, LastIs
<1>7. ~line.header => above = below
  BY Appended
<1> QED BY <1>3, <1>4, <1>5, <1>6, <1>7

-----------------------------------------------------------------------------
(* The lines of a key, and what a section says with one line more.         *)

\* A line with this key that counts, in the section that h opens.
Counts(h, key, line) ==
    ~line.header /\ line.key = key /\ (text[h].key = "Peer" => PeerTakes(line))

LEMMA GivenLines ==
    ASSUME text \in Seq(Lines), NEW h, NEW key
    PROVE  Given(h, key) = {i \in 1 .. Len(text) : SectionAt(i) = h /\ Counts(h, key, text[i])}
  BY DEF Given, Counts

LEMMA GivenMoves ==
    ASSUME text \in Seq(Lines), NEW line \in Lines, text' = Append(text, line),
           NEW n, n = Len(text), NEW h \in 1 .. n, NEW key
    PROVE  Given(h, key)' = IF h = OpenHead /\ Counts(h, key, line)
                            THEN Given(h, key) \cup {n + 1} ELSE Given(h, key)
<1> DEFINE g == Given(h, key)
           low == 1 .. n
           m == n + 1
<1>1. n \in Nat /\ \A i \in low : text'[i] = text[i] /\ SectionAt(i)' = SectionAt(i)
  BY Appended, SectionKept
<1>2. text'[m] = line /\ DOMAIN text' = low \cup {m} /\ DOMAIN text = low /\ m \notin low
  BY Appended
<1>3. SectionAt(m)' = OpenHead'
  <2>1. Len(text') = m
    BY Appended
  <2> QED BY <2>1 DEF OpenHead
<1>4. \A i \in low : i \in g' <=> i \in g
  BY <1>1, <1>2 DEF Given
<1>5. m \in g' <=> h = OpenHead /\ Counts(h, key, line)
  <2>1. text'[h] = text[h] /\ m \in DOMAIN text'
    BY <1>1, <1>2
  <2>2. m \in g' <=> SectionAt(m)' = h /\ Counts(h, key, line)
    BY <1>2, <2>1 DEF Given, Counts
  <2>3. ~line.header => OpenHead' = OpenHead
    BY OpenMoves
  <2> QED BY <1>3, <2>2, <2>3 DEF Counts
<1>6. g' \subseteq low \cup {m} /\ g \subseteq low
  BY <1>2 DEF Given
<1>7. g' = IF h = OpenHead /\ Counts(h, key, line) THEN g \cup {m} ELSE g
  <2>1. CASE h = OpenHead /\ Counts(h, key, line)
    <3>1. m \in g'
      BY <1>5, <2>1
    <3> HIDE DEF g, low, m
    <3>2. g' = g \cup {m}
      BY <1>2, <1>4, <1>6, <3>1
    <3> QED BY <2>1, <3>2
  <2>2. CASE ~(h = OpenHead /\ Counts(h, key, line))
    <3>1. m \notin g'
      BY <1>5, <2>2
    <3> HIDE DEF g, low, m
    <3>2. g' = g
      BY <1>2, <1>4, <1>6, <3>1
    <3> QED BY <2>2, <3>2
  <2> QED BY <2>1, <2>2
<1> QED BY <1>7

\* The section that a line opens is empty.
LEMMA GivenFresh ==
    ASSUME text \in Seq(Lines), NEW line \in Lines, text' = Append(text, line),
           line.header, NEW n, n = Len(text), NEW key
    PROVE  Given(n + 1, key)' = {}
<1>1. \A i \in 1 .. n : SectionAt(i)' = SectionAt(i) /\ SectionAt(i) \in 0 .. i
  BY SectionKept, SectionFacts
<1>2. \A i \in 1 .. n + 1 : SectionAt(i)' = n + 1 => i = n + 1
  BY <1>1
<1>3. text'[n + 1] = line /\ DOMAIN text' = 1 .. n + 1
  BY Appended
<1>4. ASSUME NEW i, i \in Given(n + 1, key)' PROVE FALSE
  <2>1. i \in DOMAIN text' /\ ~text'[i].header /\ SectionAt(i)' = n + 1
    BY <1>4 DEF Given
  <2> QED BY <1>2, <1>3, <2>1
<1> QED BY <1>4

\* Lines the text had already are where they were.
LEMMA LastKept ==
    ASSUME text \in Seq(Lines), NEW line \in Lines, text' = Append(text, line),
           NEW S, S \subseteq DOMAIN text, S # {}
    PROVE  LastOf(S) \in DOMAIN text /\ text'[LastOf(S)] = text[LastOf(S)]
<1>1. Len(text) \in Nat /\ S \subseteq 1 .. Len(text)
  BY Appended
<1>2. LastOf(S) \in S
  BY <1>1, FirstLast
<1> QED BY <1>1, <1>2, Appended

LEMMA LastNew ==
    ASSUME text \in Seq(Lines), NEW S, S \subseteq DOMAIN text
    PROVE  LastOf(S \cup {Len(text) + 1}) = Len(text) + 1
<1> DEFINE n == Len(text) + 1
           T == S \cup {n}
<1>1. n \in Nat /\ T \subseteq 1 .. n /\ n \in T /\ \A j \in T : j <= n
  OBVIOUS
<1> HIDE DEF n, T
<1>2. LastOf(T) = n
  BY <1>1, LastIs
<1> QED BY <1>2 DEF n, T

\* A [Peer] that is not added to says what it said.
LEMMA PeerSaysKept ==
    ASSUME text \in Seq(Lines), NEW line \in Lines, text' = Append(text, line),
           NEW h, \A key \in PeerKeys : Given(h, key)' = Given(h, key)
    PROVE  PeerSays(h)' = PeerSays(h)
<1> DEFINE said == {k \in PeerKeys : Given(h, k) # {}}
           saidNow == {k \in PeerKeys : Given(h, k)' # {}}
<1>1. saidNow = said
  OBVIOUS
<1>2. \A key \in said : text'[LastOf(Given(h, key)')].val = text[LastOf(Given(h, key))].val
  <2> SUFFICES ASSUME NEW key \in said
               PROVE  text'[LastOf(Given(h, key)')].val = text[LastOf(Given(h, key))].val
    OBVIOUS
  <2>1. Given(h, key)' = Given(h, key) /\ Given(h, key) \subseteq DOMAIN text
        /\ Given(h, key) # {}
    BY DEF Given
  <2> QED BY <2>1, LastKept
<1>3. PeerSays(h) = [key \in said |-> text[LastOf(Given(h, key))].val]
  BY DEF PeerSays
<1>4. PeerSays(h)' = [key \in saidNow |-> text'[LastOf(Given(h, key)')].val]
  BY DEF PeerSays, LastOf
<1> HIDE DEF said, saidNow
<1> QED BY <1>1, <1>2, <1>3, <1>4

\* The open [Peer] takes a line.
LEMMA PeerSaysMore ==
    ASSUME text \in Seq(Lines), NEW line \in Lines, text' = Append(text, line),
           NEW h \in 1 .. Len(text), h = OpenHead, text[h].key = "Peer",
           ~line.header, PeerTakes(line)
    PROVE  PeerSays(h)' = With(PeerSays(h), line.key, line.val)
<1> PICK n : n = Len(text)
  OBVIOUS
<1> DEFINE said == {k \in PeerKeys : Given(h, k) # {}}
           saidNow == {k \in PeerKeys : Given(h, k)' # {}}
<1>1. line.key \in PeerKeys /\ n \in Nat
  BY DEF PeerTakes, PeerKeys
<1>2. \A k \in PeerKeys : Given(h, k)' = IF k = line.key THEN Given(h, k) \cup {n + 1}
                                          ELSE Given(h, k)
  BY GivenMoves DEF Counts
<1>3. saidNow = said \cup {line.key}
  BY <1>1, <1>2
<1>4. ASSUME NEW key \in saidNow
      PROVE  text'[LastOf(Given(h, key)')].val =
               IF key = line.key THEN line.val ELSE text[LastOf(Given(h, key))].val
  <2>1. Given(h, key) \subseteq DOMAIN text
    BY DEF Given
  <2>2. CASE key = line.key
    <3>1. LastOf(Given(h, key)') = n + 1
      BY <1>2, <1>4, <2>1, <2>2, LastNew
    <3> QED BY <2>2, <3>1, Appended
  <2>3. CASE key # line.key
    <3>1. Given(h, key)' = Given(h, key) /\ Given(h, key) # {}
      BY <1>2, <1>4, <2>3
    <3> QED BY <2>1, <2>3, <3>1, LastKept
  <2> QED BY <2>2, <2>3
<1>5. PeerSays(h) = [key \in said |-> text[LastOf(Given(h, key))].val]
  BY DEF PeerSays
<1>6. PeerSays(h)' = [key \in saidNow |-> text'[LastOf(Given(h, key)')].val]
  BY DEF PeerSays, LastOf
<1>7. With(PeerSays(h), line.key, line.val) =
        [key \in said \cup {line.key} |->
            IF key = line.key THEN line.val ELSE text[LastOf(Given(h, key))].val]
  <2> HIDE DEF said
  <2>1. DOMAIN PeerSays(h) = said
    BY <1>5
  <2>2. \A key \in said : PeerSays(h)[key] = text[LastOf(Given(h, key))].val
    BY <1>5
  <2> QED BY <2>1, <2>2 DEF With
<1> HIDE DEF said, saidNow
<1> QED BY <1>3, <1>4, <1>6, <1>7

-----------------------------------------------------------------------------
(* [Interface].                                                            *)

LEMMA InterfaceMoves ==
    ASSUME text \in Seq(Lines), NEW line \in Lines, text' = Append(text, line),
           NEW n, n = Len(text), NEW key,
           section = IF OpenHead = 0 THEN "None" ELSE text[OpenHead].key
    PROVE  InterfaceLines(key)' =
              IF ~line.header /\ section = "Interface" /\ line.key = key
              THEN InterfaceLines(key) \cup {n + 1} ELSE InterfaceLines(key)
<1> DEFINE heads == {j \in DOMAIN text : text[j].header /\ text[j].key = "Interface"}
           adds == ~line.header /\ section = "Interface" /\ line.key = key
<1>1. n \in Nat /\ DOMAIN text = 1 .. n /\ DOMAIN text' = (1 .. n) \cup {n + 1}
      /\ text'[n + 1] = line /\ \A i \in 1 .. n : text'[i] = text[i]
  BY Appended
<1>2. \A i : i \in InterfaceLines(key) <=> \E h \in heads : i \in Given(h, key)
  BY DEF InterfaceLines
<1>3. \A i : i \in InterfaceLines(key)' <=> \E h \in heads' : i \in Given(h, key)'
  BY DEF InterfaceLines
<1>4. \A h \in heads' : h \in heads \/ (h = n + 1 /\ line.header)
  BY <1>1
<1>5. heads \subseteq heads'
  BY <1>1
<1>6. line.header => Given(n + 1, key)' = {}
  BY GivenFresh
<1>7. OpenHead \in 0 .. n /\ (OpenHead # 0 => text[OpenHead].header)
  BY <1>1, SectionFacts DEF OpenHead
<1>8. adds => OpenHead \in heads
  BY <1>1, <1>7
<1>9. ASSUME NEW h \in heads
      PROVE  Given(h, key)' = IF h = OpenHead /\ adds THEN Given(h, key) \cup {n + 1}
                              ELSE Given(h, key)
  <2>1. h \in 1 .. n /\ text[h].key = "Interface"
    BY <1>1
  <2>2. h = OpenHead /\ Counts(h, key, line) <=> h = OpenHead /\ adds
    BY <2>1 DEF Counts
  <2> QED BY <2>1, <2>2, GivenMoves
<1> HIDE DEF heads, adds
<1>10. \A i : i \in InterfaceLines(key)' <=>
                i \in InterfaceLines(key) \/ (adds /\ i = n + 1)
  BY <1>2, <1>3, <1>4, <1>5, <1>6, <1>8, <1>9
<1>11. CASE adds
  BY <1>10, <1>11 DEF adds
<1>12. CASE ~adds
  BY <1>10, <1>12 DEF adds
<1> QED BY <1>11, <1>12

LEMMA InterfaceLinesIn ==
    ASSUME NEW key
    PROVE  InterfaceLines(key) \subseteq DOMAIN text
  BY DEF InterfaceLines, Given

LEMMA InterfaceSaysKept ==
    ASSUME text \in Seq(Lines), NEW line \in Lines, text' = Append(text, line),
           section = IF OpenHead = 0 THEN "None" ELSE text[OpenHead].key,
           line.header \/ section # "Interface" \/ line.key \notin InterfaceKeys
    PROVE  InterfaceSays' = InterfaceSays
<1> PICK n : n = Len(text)
  OBVIOUS
<1> DEFINE said == {k \in InterfaceKeys : InterfaceLines(k) # {}}
           saidNow == {k \in InterfaceKeys : InterfaceLines(k)' # {}}
<1>1. \A k \in InterfaceKeys : InterfaceLines(k)' = InterfaceLines(k)
  BY InterfaceMoves
<1>2. saidNow = said
  BY <1>1
<1>3. \A k \in said : text'[LastOf(InterfaceLines(k)')].val = text[LastOf(InterfaceLines(k))].val
  <2> SUFFICES ASSUME NEW k \in said
               PROVE  text'[LastOf(InterfaceLines(k)')].val = text[LastOf(InterfaceLines(k))].val
    OBVIOUS
  <2>1. InterfaceLines(k)' = InterfaceLines(k) /\ InterfaceLines(k) # {}
    BY <1>1
  <2> QED BY <2>1, LastKept, InterfaceLinesIn
<1>4. InterfaceSays =
        [k \in said |-> InterfaceValue(k, text[LastOf(InterfaceLines(k))].val)]
  BY DEF InterfaceSays
<1>5. InterfaceSays' =
        [k \in saidNow |-> InterfaceValue(k, text'[LastOf(InterfaceLines(k)')].val)]
  BY DEF InterfaceSays, LastOf
<1> HIDE DEF said, saidNow
<1> QED BY <1>2, <1>3, <1>4, <1>5

LEMMA InterfaceSaysMore ==
    ASSUME text \in Seq(Lines), NEW line \in Lines, text' = Append(text, line),
           section = IF OpenHead = 0 THEN "None" ELSE text[OpenHead].key,
           ~line.header, section = "Interface", line.key \in InterfaceKeys
    PROVE  InterfaceSays' = With(InterfaceSays, line.key, InterfaceValue(line.key, line.val))
<1> PICK n : n = Len(text)
  OBVIOUS
<1> DEFINE said == {k \in InterfaceKeys : InterfaceLines(k) # {}}
           saidNow == {k \in InterfaceKeys : InterfaceLines(k)' # {}}
           val(k) == text[LastOf(InterfaceLines(k))].val
<1>1. \A k \in InterfaceKeys : InterfaceLines(k)' =
          IF k = line.key THEN InterfaceLines(k) \cup {n + 1} ELSE InterfaceLines(k)
  BY InterfaceMoves
<1>2. saidNow = said \cup {line.key}
  BY <1>1
<1>3. ASSUME NEW k \in saidNow
      PROVE  text'[LastOf(InterfaceLines(k)')].val = IF k = line.key THEN line.val ELSE val(k)
  <2>1. InterfaceLines(k) \subseteq DOMAIN text
    BY InterfaceLinesIn
  <2>2. CASE k = line.key
    <3>1. LastOf(InterfaceLines(k)') = n + 1
      BY <1>1, <1>3, <2>1, <2>2, LastNew
    <3> QED BY <2>2, <3>1, Appended
  <2>3. CASE k # line.key
    <3>1. InterfaceLines(k)' = InterfaceLines(k) /\ InterfaceLines(k) # {}
      BY <1>1, <1>3, <2>3
    <3> QED BY <2>1, <2>3, <3>1, LastKept
  <2> QED BY <2>2, <2>3
<1>4. InterfaceSays = [k \in said |-> InterfaceValue(k, val(k))]
  BY DEF InterfaceSays
<1>5. InterfaceSays' =
        [k \in saidNow |-> InterfaceValue(k, text'[LastOf(InterfaceLines(k)')].val)]
  BY DEF InterfaceSays, LastOf
<1> HIDE DEF said, saidNow, val
<1>6. With(InterfaceSays, line.key, InterfaceValue(line.key, line.val)) =
        [k \in said \cup {line.key} |->
            IF k = line.key THEN InterfaceValue(line.key, line.val)
                            ELSE InterfaceValue(k, val(k))]
  <2>1. DOMAIN InterfaceSays = said
    BY <1>4
  <2>2. \A k \in said : InterfaceSays[k] = InterfaceValue(k, val(k))
    BY <1>4
  <2> QED BY <2>1, <2>2 DEF With
<1> QED BY <1>2, <1>3, <1>5, <1>6

-----------------------------------------------------------------------------
(* The peers.                                                              *)

LEMMA PeerHeadsMove ==
    ASSUME text \in Seq(Lines), NEW line \in Lines, text' = Append(text, line),
           section = IF OpenHead = 0 THEN "None" ELSE text[OpenHead].key
    PROVE  PeerHeads' = IF ~line.header /\ section = "Peer" /\ PeerTakes(line)
                        THEN PeerHeads \cup {OpenHead} ELSE PeerHeads
<1> PICK n : n = Len(text)
  OBVIOUS
<1> DEFINE heads == {j \in DOMAIN text : text[j].header /\ text[j].key = "Peer"}
           says(h) == \E key \in PeerKeys : Given(h, key) # {}
           takes == ~line.header /\ section = "Peer" /\ PeerTakes(line)
<1>1. n \in Nat /\ DOMAIN text = 1 .. n /\ DOMAIN text' = (1 .. n) \cup {n + 1}
      /\ text'[n + 1] = line /\ \A i \in 1 .. n : text'[i] = text[i]
  BY Appended
<1>2. OpenHead \in 0 .. n /\ (OpenHead # 0 => text[OpenHead].header)
  BY <1>1, SectionFacts DEF OpenHead
<1>3. \A h : h \in PeerHeads <=> h \in heads /\ says(h)
  BY DEF PeerHeads
<1>4. \A h : h \in PeerHeads' <=>
          /\ h \in DOMAIN text' /\ text'[h].header /\ text'[h].key = "Peer"
          /\ \E key \in PeerKeys : Given(h, key)' # {}
  BY DEF PeerHeads
<1>5. \A key : line.header => Given(n + 1, key)' = {}
  BY GivenFresh
<1>6. ASSUME NEW h \in 1 .. n, text[h].key = "Peer"
      PROVE  (\E key \in PeerKeys : Given(h, key)' # {}) <=> says(h) \/ (h = OpenHead /\ takes)
  <2>1. \A key \in PeerKeys : Given(h, key)' # {} <=>
            Given(h, key) # {} \/ (h = OpenHead /\ Counts(h, key, line))
    BY GivenMoves
  <2>2. h = OpenHead => section = "Peer"
    BY <1>1, <1>6
  <2>3. h = OpenHead /\ takes <=> h = OpenHead /\ \E key \in PeerKeys : Counts(h, key, line)
    BY <1>6, <2>2 DEF Counts, PeerTakes, PeerKeys
  <2> QED BY <2>1, <2>3
<1>7. \A h : h \in PeerHeads' <=> h \in heads /\ (says(h) \/ (h = OpenHead /\ takes))
  BY <1>1, <1>4, <1>5, <1>6
<1>8. takes => OpenHead \in heads
  BY <1>1, <1>2
<1> HIDE DEF heads, says, takes
<1>9. CASE takes
  BY <1>3, <1>7, <1>8, <1>9 DEF takes
<1>10. CASE ~takes
  BY <1>3, <1>7, <1>10 DEF takes
<1> QED BY <1>9, <1>10

\* What closed sections say stays.
LEMMA ClosedKept ==
    ASSUME text \in Seq(Lines), NEW line \in Lines, text' = Append(text, line),
           NEW heads, heads \subseteq DOMAIN text, line.header \/ OpenHead \notin heads
    PROVE  /\ \A h \in heads : PeerSays(h)' = PeerSays(h)
           /\ RemoteSays(heads)' = RemoteSays(heads)
           /\ KeyedOf(heads)' = KeyedOf(heads)
           /\ AreKeysOf(out.peers, KeyedOf(heads))' <=> AreKeysOf(out'.peers, KeyedOf(heads))
<1> PICK n : n = Len(text)
  OBVIOUS
<1>1. ASSUME NEW h \in heads, NEW key PROVE Given(h, key)' = Given(h, key)
  <2>1. h \in 1 .. n
    BY Appended
  <2>2. ~(h = OpenHead /\ Counts(h, key, line))
    BY DEF Counts
  <2> QED BY <2>1, <2>2, GivenMoves
<1>2. \A h \in heads : PeerSays(h)' = PeerSays(h)
  BY <1>1, PeerSaysKept
<1>3. heads # {} => FirstOf(heads) \in heads
  BY Appended, FirstLast
<1>4. RemoteSays(heads)' = RemoteSays(heads)
  <2>1. RemoteSays(heads) = IF heads = {} THEN Empty ELSE PeerSays(FirstOf(heads))
    BY DEF RemoteSays
  <2>2. RemoteSays(heads)' = IF heads = {} THEN Empty ELSE PeerSays(FirstOf(heads))'
    BY DEF RemoteSays, Empty
  <2> QED BY <1>2, <1>3, <2>1, <2>2
<1>5. KeyedOf(heads)' = KeyedOf(heads)
  BY <1>1 DEF KeyedOf
<1>6. \A h \in KeyedOf(heads) : PeerSays(h)' = PeerSays(h)
  BY <1>2 DEF KeyedOf
<1>7. AreKeysOf(out.peers, KeyedOf(heads))' <=> AreKeysOf(out'.peers, KeyedOf(heads))
  BY <1>5, <1>6 DEF AreKeysOf
<1> QED BY <1>2, <1>4, <1>5, <1>7

\* A key more, of a section behind all others.
LEMMA KeysMore ==
    ASSUME NEW keys \in Seq(Values), Len(keys) <= MaxPeers, NEW heads, heads \subseteq Nat,
           NEW h \in Nat, \A g \in heads : g < h, AreKeysOf(keys, heads)
    PROVE  AreKeysOf(IF Len(keys) < MaxPeers THEN Append(keys, PeerSays(h).PublicKey) ELSE keys,
                     heads \cup {h})
<1> DEFINE k == Len(keys)
           more == Append(keys, PeerSays(h).PublicKey)
<1>1. PICK at \in [DOMAIN keys -> heads] :
          /\ \A i, j \in DOMAIN keys : i < j => at[i] < at[j]
          /\ \A i \in DOMAIN keys : keys[i] = PeerSays(at[i]).PublicKey
          /\ \A g \in heads : \/ \E i \in DOMAIN keys : g = at[i]
                              \/ k = MaxPeers /\ \A i \in DOMAIN keys : at[i] < g
  BY DEF AreKeysOf
<1>2. k \in Nat /\ DOMAIN keys = 1 .. k
  OBVIOUS
<1>3. CASE k < MaxPeers
  <2> DEFINE to == [i \in 1 .. k + 1 |-> IF i = k + 1 THEN h ELSE at[i]]
  <2>1. DOMAIN more = 1 .. k + 1 /\ more[k + 1] = PeerSays(h).PublicKey
        /\ \A i \in 1 .. k : more[i] = keys[i]
    OBVIOUS
  <2>2. to \in [DOMAIN more -> heads \cup {h}]
    BY <1>1, <1>2, <2>1
  <2>3. to[k + 1] = h /\ \A i \in 1 .. k : to[i] = at[i] /\ at[i] \in heads
    BY <1>1, <1>2
  <2> HIDE DEF to, more
  <2>4. \A i, j \in DOMAIN more : i < j => to[i] < to[j]
    <3> SUFFICES ASSUME NEW i \in 1 .. k + 1, NEW j \in 1 .. k + 1, i < j
                 PROVE  to[i] < to[j]
      BY <2>1
    <3>1. i \in 1 .. k
      BY <1>2
    <3>2. CASE j = k + 1
      BY <2>3, <3>1, <3>2
    <3>3. CASE j # k + 1
      <4>1. j \in 1 .. k
        BY <1>2, <3>3
      <4> QED BY <1>1, <1>2, <2>3, <3>1, <4>1
    <3> QED BY <3>2, <3>3
  <2>5. \A i \in DOMAIN more : more[i] = PeerSays(to[i]).PublicKey
    <3> SUFFICES ASSUME NEW i \in 1 .. k + 1
                 PROVE  more[i] = PeerSays(to[i]).PublicKey
      BY <2>1
    <3>1. CASE i = k + 1
      BY <2>1, <2>3, <3>1
    <3>2. CASE i # k + 1
      <4>1. i \in 1 .. k
        BY <1>2, <3>2
      <4> QED BY <1>1, <1>2, <2>1, <2>3, <4>1
    <3> QED BY <3>1, <3>2
  <2>6. \A g \in heads \cup {h} : \E i \in DOMAIN more : g = to[i]
    <3>1. k + 1 \in DOMAIN more /\ 1 .. k \subseteq DOMAIN more
      BY <1>2, <2>1
    <3>2. \A g \in heads : \E i \in 1 .. k : g = at[i]
      BY <1>1, <1>2, <1>3
    <3> QED BY <2>3, <3>1, <3>2
  <2>7. AreKeysOf(more, heads \cup {h})
    BY <2>2, <2>4, <2>5, <2>6 DEF AreKeysOf
  <2> QED BY <1>3, <2>7 DEF more
<1>4. CASE ~(k < MaxPeers)
  <2>1. k = MaxPeers
    <3>1. k \in Nat /\ k <= MaxPeers /\ MaxPeers \in Nat /\ ~(k < MaxPeers)
      BY <1>2, <1>4, MaxPeersAssumption
    <3> HIDE DEF k
    <3> QED BY <3>1
  <2>2. at \in [DOMAIN keys -> heads \cup {h}]
    BY <1>1
  <2>3. \A i \in DOMAIN keys : at[i] < h
    BY <1>1
  <2>4. AreKeysOf(keys, heads \cup {h})
    BY <1>1, <2>1, <2>2, <2>3 DEF AreKeysOf
  <2> QED BY <1>4, <2>4
<1> QED BY <1>3, <1>4

\* The end of a [Peer] commits it: then all that are there are committed.
LEMMA FlushCommits ==
    ASSUME ReadInv, FlushIfPeer
    PROVE  /\ DOMAIN out' = {"iface", "remote", "peers"} /\ out'.iface = out.iface
           /\ firstPeer' <=> PeerHeads = {}
           /\ out'.remote = RemoteSays(PeerHeads)
           /\ out'.peers \in Seq(Values) /\ Len(out'.peers) <= MaxPeers
           /\ AreKeysOf(out'.peers, KeyedOf(PeerHeads))
<1>1. /\ text \in Seq(Lines) /\ DOMAIN text = 1 .. Len(text) /\ Len(text) \in Nat
      /\ OpenHead \in 0 .. Len(text)
      /\ OpenHead # 0 => text[OpenHead].header
      /\ \A h \in 1 .. Len(text) : text[h].header => h <= OpenHead
  BY SectionFacts DEF ReadInv, OpenHead
<1>2. OpenHead \in PeerHeads <=> section = "Peer" /\ DOMAIN cur # {}
  <2>1. OpenHead \in PeerHeads => section = "Peer"
    BY <1>1 DEF ReadInv, PeerHeads
  <2>2. section = "Peer" => DOMAIN cur = {k \in PeerKeys : Given(OpenHead, k) # {}}
    BY DEF ReadInv, PeerSays
  <2>3. section = "Peer" => OpenHead \in DOMAIN text /\ text[OpenHead].key = "Peer"
    BY <1>1 DEF ReadInv
  <2> QED BY <1>1, <2>1, <2>2, <2>3 DEF PeerHeads
<1>3. Committed(ClosedHeads) /\ DOMAIN out = {"iface", "remote", "peers"}
  BY DEF ReadInv
<1>4. CASE OpenHead \notin PeerHeads
  <2>1. UNCHANGED <<firstPeer, out>>
    BY <1>2, <1>4 DEF FlushIfPeer, FlushPeer
  <2>2. ClosedHeads = PeerHeads
    BY <1>4 DEF ClosedHeads
  <2> QED BY <1>3, <2>1, <2>2 DEF Committed
<1>5. CASE OpenHead \in PeerHeads
  <2>1. /\ firstPeer' = FALSE
        /\ out' = [out EXCEPT
              !.remote = IF firstPeer THEN cur ELSE @,
              !.peers  = IF "PublicKey" \in DOMAIN cur /\ Len(@) < MaxPeers
                         THEN Append(@, cur.PublicKey) ELSE @]
    BY <1>2, <1>5 DEF FlushIfPeer, FlushPeer
  <2>2. /\ DOMAIN out' = {"iface", "remote", "peers"} /\ out'.iface = out.iface
        /\ out'.remote = IF firstPeer THEN cur ELSE out.remote
        /\ out'.peers = IF "PublicKey" \in DOMAIN cur /\ Len(out.peers) < MaxPeers
                        THEN Append(out.peers, cur.PublicKey) ELSE out.peers
    BY <1>3, <2>1
  <2>3. PeerHeads = ClosedHeads \cup {OpenHead} /\ OpenHead \notin ClosedHeads
    BY <1>5 DEF ClosedHeads
  <2>4. ClosedHeads \subseteq 1 .. Len(text) /\ \A h \in ClosedHeads : h < OpenHead
    BY <1>1 DEF ClosedHeads, PeerHeads
  <2>5. cur = PeerSays(OpenHead)
    BY <1>2, <1>5 DEF ReadInv
  <2>6. "PublicKey" \in DOMAIN cur <=> Given(OpenHead, "PublicKey") # {}
    BY <2>5 DEF PeerSays, PeerKeys
  <2>7. out'.remote = RemoteSays(PeerHeads)
    <3>1. CASE ClosedHeads = {}
      <4>1. FirstOf(PeerHeads) = OpenHead
        <5>1. PeerHeads = {OpenHead} /\ PeerHeads \subseteq 1 .. Len(text)
          BY <1>1, <2>3, <3>1 DEF PeerHeads
        <5>2. OpenHead \in 1 .. Len(text) /\ \A j \in PeerHeads : OpenHead <= j
          BY <1>5, <5>1
        <5> QED BY <1>1, <1>5, <5>1, <5>2, FirstIs
      <4> QED BY <1>3, <1>5, <2>2, <2>5, <3>1, <4>1 DEF Committed, RemoteSays
    <3>2. CASE ClosedHeads # {}
      <4>1. FirstOf(ClosedHeads) \in ClosedHeads
            /\ \A h \in ClosedHeads : FirstOf(ClosedHeads) <= h
        BY <1>1, <2>4, <3>2, FirstLast
      <4>2. PeerHeads \subseteq 1 .. Len(text)
        BY <1>1 DEF PeerHeads
      <4>3. FirstOf(ClosedHeads) < OpenHead /\ FirstOf(ClosedHeads) \in 1 .. Len(text)
        BY <2>4, <4>1
      <4>4. FirstOf(ClosedHeads) <= OpenHead
        BY <1>1, <4>3
      <4>5. FirstOf(PeerHeads) = FirstOf(ClosedHeads)
        <5>1. \A j \in PeerHeads : FirstOf(ClosedHeads) <= j
          BY <2>3, <4>1, <4>4
        <5>2. FirstOf(ClosedHeads) \in PeerHeads
          BY <2>3, <4>1
        <5> QED BY <1>1, <4>2, <5>1, <5>2, FirstIs
      <4> QED BY <1>3, <1>5, <2>2, <3>2, <4>5 DEF Committed, RemoteSays
    <3> QED BY <3>1, <3>2
  <2>8. /\ out.peers \in Seq(Values) /\ Len(out.peers) <= MaxPeers
        /\ AreKeysOf(out.peers, KeyedOf(ClosedHeads))
    BY <1>3 DEF Committed
  <2>9. CASE "PublicKey" \notin DOMAIN cur
    <3>1. KeyedOf(PeerHeads) = KeyedOf(ClosedHeads)
      BY <2>3, <2>6, <2>9 DEF KeyedOf
    <3> QED BY <1>5, <2>1, <2>2, <2>7, <2>8, <2>9, <3>1
  <2>10. CASE "PublicKey" \in DOMAIN cur
    <3>1. KeyedOf(PeerHeads) = KeyedOf(ClosedHeads) \cup {OpenHead}
      BY <2>3, <2>6, <2>10 DEF KeyedOf
    <3>2. cur.PublicKey \in Values
      <4>1. Given(OpenHead, "PublicKey") # {} /\ Given(OpenHead, "PublicKey") \subseteq 1 .. Len(text)
        BY <1>1, <2>6, <2>10 DEF Given
      <4>2. LastOf(Given(OpenHead, "PublicKey")) \in 1 .. Len(text)
        BY <1>1, <4>1, FirstLast
      <4>3. cur.PublicKey = text[LastOf(Given(OpenHead, "PublicKey"))].val
        BY <2>5, <4>1 DEF PeerSays, PeerKeys
      <4> QED BY <1>1, <4>2, <4>3 DEF Values
    <3>3. out'.peers = IF Len(out.peers) < MaxPeers THEN Append(out.peers, PeerSays(OpenHead).PublicKey)
                       ELSE out.peers
      BY <2>2, <2>5, <2>10
    <3>4. KeyedOf(ClosedHeads) \subseteq ClosedHeads
      BY DEF KeyedOf
    <3>5. AreKeysOf(out'.peers, KeyedOf(PeerHeads))
      <4>1. KeyedOf(ClosedHeads) \subseteq Nat /\ OpenHead \in Nat
        <5>1. 1 .. Len(text) \subseteq Nat /\ 0 .. Len(text) \subseteq Nat
          BY <1>1
        <5>2. ClosedHeads \subseteq Nat
          BY <2>4, <5>1
        <5> QED BY <1>1, <3>4, <5>1, <5>2
      <4>2. \A h \in KeyedOf(ClosedHeads) : h < OpenHead
        BY <2>4, <3>4
      <4> QED BY <2>8, <3>1, <3>3, <4>1, <4>2, KeysMore
    <3>6. out'.peers \in Seq(Values) /\ Len(out'.peers) <= MaxPeers
      BY <2>5, <2>8, <3>2, <3>3, MaxPeersAssumption
    <3> QED BY <1>5, <2>1, <2>2, <2>7, <3>5, <3>6
  <2> QED BY <2>9, <2>10
<1> QED BY <1>4, <1>5

-----------------------------------------------------------------------------
(* The steps.                                                              *)

\* A header closes the section before it and opens one that is empty.
LEMMA HeaderReadInv ==
    ASSUME ReadInv, NEW line \in Lines, ReadHeader(line), text' = Append(text, line)
    PROVE  ReadInv'
<1> PICK n : n = Len(text)
  OBVIOUS
<1>1. /\ text \in Seq(Lines) /\ text' \in Seq(Lines) /\ n \in Nat
      /\ section = IF OpenHead = 0 THEN "None" ELSE text[OpenHead].key
      /\ out.iface = InterfaceSays
  BY Appended DEF ReadInv
<1>2. line.header /\ FlushIfPeer /\ cur' = Empty /\ section' = line.key
  BY DEF ReadHeader
<1>3. OpenHead' = n + 1 /\ text'[n + 1] = line
  BY <1>1, <1>2, OpenMoves, Appended
<1> PICK heads : heads = PeerHeads
  OBVIOUS
<1>4. heads \subseteq 1 .. n /\ heads \subseteq DOMAIN text
  BY <1>1 DEF PeerHeads
<1>5. PeerHeads' = heads
  BY <1>1, <1>2, PeerHeadsMove
<1>6. ClosedHeads' = heads
  <2>1. n + 1 \notin heads
    BY <1>1, <1>4
  <2> QED BY <1>3, <1>5, <2>1 DEF ClosedHeads
<1>7. /\ DOMAIN out' = {"iface", "remote", "peers"} /\ out'.iface = out.iface
      /\ firstPeer' <=> heads = {}
      /\ out'.remote = RemoteSays(heads)
      /\ out'.peers \in Seq(Values) /\ Len(out'.peers) <= MaxPeers
      /\ AreKeysOf(out'.peers, KeyedOf(heads))
  BY <1>2, FlushCommits
<1>8. InterfaceSays' = InterfaceSays
  BY <1>1, <1>2, InterfaceSaysKept
<1>9. RemoteSays(heads)' = RemoteSays(heads)
  BY <1>1, <1>2, <1>4, ClosedKept
<1>10. AreKeysOf(out.peers, KeyedOf(heads))'
  BY <1>1, <1>2, <1>4, <1>7, ClosedKept
<1>11. Committed(ClosedHeads)'
  <2>1. RemoteSays(ClosedHeads)' = RemoteSays(heads)'
    BY <1>6 DEF RemoteSays
  <2>2. AreKeysOf(out.peers, KeyedOf(ClosedHeads))' <=> AreKeysOf(out.peers, KeyedOf(heads))'
    BY <1>6 DEF AreKeysOf, KeyedOf
  <2> QED BY <1>6, <1>7, <1>9, <1>10, <2>1, <2>2 DEF Committed
<1>12. cur' = PeerSays(OpenHead)'
  <2>1. \A key : Given(n + 1, key)' = {}
    BY <1>1, <1>2, GivenFresh
  <2> DEFINE said == {k \in PeerKeys : Given(n + 1, k)' # {}}
  <2>2. said = {}
    BY <2>1
  <2>3. PeerSays(OpenHead)' = [key \in said |-> text'[LastOf(Given(n + 1, key))'].val]
    BY <1>3 DEF PeerSays
  <2> HIDE DEF said
  <2> QED BY <1>2, <2>2, <2>3 DEF Empty
<1>13. section' = IF OpenHead' = 0 THEN "None" ELSE text'[OpenHead'].key
  BY <1>1, <1>2, <1>3
<1> QED BY <1>1, <1>7, <1>8, <1>11, <1>12, <1>13 DEF ReadInv

\* A line that is no header changes only what the open section says.
LEMMA LineReadInv ==
    ASSUME ReadInv, NEW line \in Lines, ~line.header, text' = Append(text, line),
           section' = section, firstPeer' = firstPeer,
           DOMAIN out' = DOMAIN out, out'.remote = out.remote, out'.peers = out.peers,
           out'.iface = InterfaceSays', section = "Peer" => cur' = PeerSays(OpenHead)'
    PROVE  ReadInv'
<1>1. /\ text \in Seq(Lines) /\ text' \in Seq(Lines) /\ Len(text) \in Nat
      /\ DOMAIN text = 1 .. Len(text)
      /\ section = IF OpenHead = 0 THEN "None" ELSE text[OpenHead].key
  BY Appended DEF ReadInv
<1>2. OpenHead' = OpenHead /\ OpenHead \in 0 .. Len(text)
  BY <1>1, OpenMoves, SectionFacts DEF OpenHead
<1>3. section' = IF OpenHead' = 0 THEN "None" ELSE text'[OpenHead'].key
  <2>1. OpenHead # 0 => text'[OpenHead] = text[OpenHead]
    BY <1>1, <1>2, Appended
  <2> QED BY <1>1, <1>2, <2>1
<1> PICK heads : heads = ClosedHeads
  OBVIOUS
<1>4. ClosedHeads' = heads
  <2>1. PeerHeads' = PeerHeads \/ PeerHeads' = PeerHeads \cup {OpenHead}
    BY <1>1, PeerHeadsMove
  <2> QED BY <1>2, <2>1 DEF ClosedHeads
<1>5. heads \subseteq DOMAIN text /\ OpenHead \notin heads
  BY DEF ClosedHeads, PeerHeads
<1>6. RemoteSays(heads)' = RemoteSays(heads)
  BY <1>1, <1>5, ClosedKept
<1>7. Committed(heads)
  BY DEF ReadInv
<1>8. AreKeysOf(out.peers, KeyedOf(heads))'
  <2>1. AreKeysOf(out'.peers, KeyedOf(heads))
    BY <1>7 DEF Committed
  <2> QED BY <1>1, <1>5, <2>1, ClosedKept
<1>9. Committed(ClosedHeads)'
  <2>1. RemoteSays(ClosedHeads)' = RemoteSays(heads)'
    BY <1>4 DEF RemoteSays
  <2>2. AreKeysOf(out.peers, KeyedOf(ClosedHeads))' <=> AreKeysOf(out.peers, KeyedOf(heads))'
    BY <1>4 DEF AreKeysOf, KeyedOf
  <2> QED BY <1>4, <1>6, <1>7, <1>8, <2>1, <2>2 DEF Committed
<1> QED BY <1>1, <1>3, <1>9 DEF ReadInv

LEMMA InterfaceReadInv ==
    ASSUME ReadInv, NEW line \in Lines, ReadInterface(line), text' = Append(text, line)
    PROVE  ReadInv'
<1>1. /\ text \in Seq(Lines)
      /\ section = IF OpenHead = 0 THEN "None" ELSE text[OpenHead].key
      /\ out.iface = InterfaceSays /\ DOMAIN out = {"iface", "remote", "peers"}
  BY DEF ReadInv
<1>2. /\ ~line.header /\ section = "Interface"
      /\ out' = IF line.key \in InterfaceKeys
                THEN [out EXCEPT !.iface =
                         With(@, line.key, InterfaceValue(line.key, line.val))]
                ELSE out
      /\ section' = section /\ firstPeer' = firstPeer
  BY DEF ReadInterface
<1>3. DOMAIN out' = DOMAIN out /\ out'.remote = out.remote /\ out'.peers = out.peers
  BY <1>1, <1>2
<1>4. out'.iface = InterfaceSays'
  <2>1. CASE line.key \in InterfaceKeys
    <3>1. out'.iface = With(InterfaceSays, line.key, InterfaceValue(line.key, line.val))
      BY <1>1, <1>2, <2>1
    <3> QED BY <1>1, <1>2, <2>1, <3>1, InterfaceSaysMore
  <2>2. CASE line.key \notin InterfaceKeys
    BY <1>1, <1>2, <2>2, InterfaceSaysKept
  <2> QED BY <2>1, <2>2
<1> QED BY <1>2, <1>3, <1>4, LineReadInv

LEMMA PeerReadInv ==
    ASSUME ReadInv, NEW line \in Lines, ReadPeer(line), text' = Append(text, line)
    PROVE  ReadInv'
<1> PICK h : h = OpenHead
  OBVIOUS
<1>1. /\ text \in Seq(Lines) /\ Len(text) \in Nat /\ DOMAIN text = 1 .. Len(text)
      /\ section = IF h = 0 THEN "None" ELSE text[h].key
      /\ out.iface = InterfaceSays
  BY Appended DEF ReadInv
<1>2. /\ ~line.header /\ section = "Peer"
      /\ cur' = IF PeerTakes(line) THEN With(cur, line.key, line.val) ELSE cur
      /\ section' = section /\ firstPeer' = firstPeer /\ out' = out
  BY DEF ReadPeer
<1>3. h \in 1 .. Len(text) /\ text[h].key = "Peer"
  <2>1. h \in 0 .. Len(text)
    BY <1>1, SectionFacts DEF OpenHead
  <2> QED BY <1>1, <1>2, <2>1
<1>4. cur = PeerSays(h)
  BY <1>2 DEF ReadInv
<1>5. cur' = PeerSays(h)'
  <2>1. CASE PeerTakes(line)
    BY <1>1, <1>2, <1>3, <1>4, <2>1, PeerSaysMore
  <2>2. CASE ~PeerTakes(line)
    <3>1. \A key \in PeerKeys : ~Counts(h, key, line)
      BY <1>3, <2>2 DEF Counts
    <3>2. \A key \in PeerKeys : Given(h, key)' = Given(h, key)
      BY <1>1, <1>3, <3>1, GivenMoves
    <3> QED BY <1>1, <1>2, <1>4, <2>2, <3>2, PeerSaysKept
  <2> QED BY <2>1, <2>2
<1>6. PeerSays(OpenHead)' = PeerSays(h)'
  <2>1. OpenHead' = h
    BY <1>1, <1>2, OpenMoves
  <2> QED BY <2>1 DEF PeerSays, Given
<1>7. out'.iface = InterfaceSays'
  BY <1>1, <1>2, InterfaceSaysKept
<1> QED BY <1>2, <1>5, <1>6, <1>7, LineReadInv

\* Every round of the loop keeps it, and what the end of the file commits is
\* what the file says.
LEMMA RoundReadInv ==
    ASSUME ReadInv, NEW line \in Lines, ReadLine(line)
    PROVE  ReadInv'
<1>1. text' = Append(text, line)
  BY DEF ReadLine
<1>2. CASE ReadHeader(line)
  BY <1>1, <1>2, HeaderReadInv
<1>3. CASE ReadInterface(line)
  BY <1>1, <1>3, InterfaceReadInv
<1>4. CASE ReadPeer(line)
  BY <1>1, <1>4, PeerReadInv
<1>5. CASE ReadNowhere(line)
  <2>1. /\ ~line.header /\ section \notin {"Interface", "Peer"}
        /\ section' = section /\ firstPeer' = firstPeer /\ out' = out
    BY <1>5 DEF ReadNowhere
  <2>2. out'.iface = InterfaceSays'
    BY <1>1, <2>1, InterfaceSaysKept DEF ReadInv
  <2> QED BY <1>1, <2>1, <2>2, LineReadInv
<1> QED BY <1>2, <1>3, <1>4, <1>5 DEF ReadLine

LEMMA SaysSame ==
    ASSUME text' = text
    PROVE  /\ InterfaceSays' = InterfaceSays
           /\ PeerHeads' = PeerHeads /\ KeyedHeads' = KeyedHeads
           /\ \A h : PeerSays(h)' = PeerSays(h)
           /\ RemoteSays(PeerHeads)' = RemoteSays(PeerHeads)
           /\ AreKeysOf(out.peers, KeyedHeads)' <=> AreKeysOf(out'.peers, KeyedHeads)
<1>1. \A h, key : Given(h, key)' = Given(h, key)
  BY DEF Given, SectionAt
<1>2. \A h : PeerSays(h)' = PeerSays(h)
  BY DEF PeerSays, Given, SectionAt, LastOf
<1>3. PeerHeads' = PeerHeads /\ KeyedHeads' = KeyedHeads
  BY <1>1 DEF PeerHeads, KeyedHeads
<1>4. InterfaceSays' = InterfaceSays
  BY DEF InterfaceSays, InterfaceLines, Given, SectionAt, LastOf
<1>5. RemoteSays(PeerHeads)' = RemoteSays(PeerHeads)
  BY <1>2, <1>3 DEF RemoteSays, FirstOf, Empty
<1>6. AreKeysOf(out.peers, KeyedHeads)' <=> AreKeysOf(out'.peers, KeyedHeads)
  BY <1>2, <1>3 DEF AreKeysOf
<1> QED BY <1>2, <1>3, <1>4, <1>5, <1>6

LEMMA EndSays ==
    ASSUME ReadInv, ReadEnd
    PROVE  FileSays'
<1>1. text' = text /\ FlushIfPeer
  BY DEF ReadEnd
<1>2. /\ out'.iface = InterfaceSays
      /\ out'.remote = RemoteSays(PeerHeads)
      /\ AreKeysOf(out'.peers, KeyedOf(PeerHeads))
  BY <1>1, FlushCommits DEF ReadInv
<1>3. KeyedOf(PeerHeads) = KeyedHeads
  BY DEF KeyedOf, KeyedHeads
<1>4. /\ InterfaceSays' = InterfaceSays
      /\ RemoteSays(PeerHeads)' = RemoteSays(PeerHeads)
      /\ AreKeysOf(out'.peers, KeyedHeads) <=> AreKeysOf(out.peers, KeyedHeads)'
  BY <1>1, SaysSame
<1> QED BY <1>2, <1>3, <1>4 DEF FileSays

\* An empty text says nothing.
LEMMA EmptySays ==
    ASSUME FileInit
    PROVE  ReadInv /\ FileSays
<1>1. text = <<>> /\ DOMAIN text = {} /\ Len(text) = 0 /\ out = NoFile
      /\ section = "None" /\ firstPeer = TRUE
  BY DEF FileInit
<1>2. OpenHead = 0
  <2>1. 1 .. Len(text) = {}
    BY <1>1
  <2> QED BY <2>1 DEF OpenHead, SectionAt
<1>3. PeerHeads = {} /\ KeyedHeads = {} /\ ClosedHeads = {}
  BY <1>1 DEF PeerHeads, KeyedHeads, ClosedHeads
<1>4. \A key : InterfaceLines(key) = {}
  BY <1>1 DEF InterfaceLines
<1>5. InterfaceSays = Empty
  <2> DEFINE said == {k \in InterfaceKeys : InterfaceLines(k) # {}}
  <2>1. said = {}
    BY <1>4
  <2>2. InterfaceSays = [k \in said |-> InterfaceValue(k, text[LastOf(InterfaceLines(k))].val)]
    BY DEF InterfaceSays
  <2> HIDE DEF said
  <2> QED BY <2>1, <2>2 DEF Empty
<1>6. RemoteSays({}) = Empty
  BY DEF RemoteSays
<1>7. AreKeysOf(<<>>, {})
  <2>1. DOMAIN <<>> = {} /\ [i \in {} |-> i] \in [{} -> {}]
    OBVIOUS
  <2> QED BY <2>1 DEF AreKeysOf
<1>8. /\ out.iface = Empty /\ out.remote = Empty /\ out.peers = <<>>
      /\ DOMAIN out = {"iface", "remote", "peers"}
  BY <1>1 DEF NoFile
<1>9. KeyedOf({}) = {} /\ <<>> \in Seq(Values) /\ Len(<<>>) <= MaxPeers
  BY MaxPeersAssumption DEF KeyedOf
<1>10. Committed(ClosedHeads)
  BY <1>1, <1>3, <1>6, <1>7, <1>8, <1>9 DEF Committed
<1> QED BY <1>1, <1>2, <1>3, <1>5, <1>6, <1>7, <1>8, <1>10 DEF ReadInv, FileSays

LEMMA StepParseInv ==
    ASSUME ParseInv, [Next]_vars
    PROVE  ParseInv'
<1>1. CASE ReadFile
  <2>1. pc = "reading" /\ ReadInv
    BY <1>1 DEF ReadFile, ParseInv
  <2>2. CASE \E line \in Lines : ReadLine(line) /\ pc' = pc
    BY <2>1, <2>2, RoundReadInv DEF ParseInv, ParsedRight
  <2>3. CASE pc' = "dead"
    BY <2>3 DEF ParseInv, ParsedRight
  <2>4. CASE ReadEnd /\ pc' = "launch"
    BY <2>1, <2>4, EndSays DEF ParseInv, ParsedRight
  <2> QED BY <1>1, <2>2, <2>3, <2>4 DEF ReadFile
<1>2. CASE UNCHANGED vars
  <2>1. UNCHANGED <<section, firstPeer, cur, out, text, pc>>
    BY <1>2 DEF vars, fileVars, configVars
  <2>2. ReadInv' <=> ReadInv
    BY <2>1 DEF ReadInv, Committed, OpenHead, ClosedHeads, KeyedOf, PeerHeads, InterfaceSays,
          InterfaceLines, RemoteSays, PeerSays, AreKeysOf, Given, SectionAt, LastOf, FirstOf,
          Empty, Values
  <2>3. FileSays' <=> FileSays
    BY <2>1, SaysSame DEF FileSays
  <2> QED BY <2>1, <2>2, <2>3 DEF ParseInv, ParsedRight
<1>3. CASE Next /\ ~ReadFile
  <2>1. pc' \notin {"reading", "launch"}
    BY <1>3 DEF Next, Launch, Stage, Done, After, Fatal, SetMode, SetEndpoints, SetObfuscation,
          SetKeys, SetPeers, Validate, Compute, Required, SetCps, SetOperational, SetNetwork,
          InitProxy
  <2> QED BY <2>1 DEF ParseInv, ParsedRight
<1> QED BY <1>1, <1>2, <1>3

\* The parser of config_file.c, one pass over the lines, yields what the file
\* says when it is read as a whole: see ParsedRight in Config.tla.
THEOREM ConfigParsedRight == Spec => []ParsedRight
<1>1. Init => ParseInv
  BY EmptySays DEF Init, ParseInv, ParsedRight
<1>2. ParseInv /\ [Next]_vars => ParseInv'
  BY StepParseInv
<1>3. ParseInv => ParsedRight
  BY DEF ParseInv
<1> QED BY <1>1, <1>2, <1>3, PTL DEF Spec

-----------------------------------------------------------------------------
(* The templates: a packet of one that was accepted is never cut.          *)

\* A recursive function over the segments has the value its definition says.
LEMMA OffsetsAre ==
    ASSUME NEW tmpl \in Written
    PROVE  Offsets(tmpl) =
              [i \in 0 .. Len(tmpl) |->
                  IF i = 0 THEN 0 ELSE Offsets(tmpl)[i - 1] + SegmentSize(tmpl[i])]
<1> PICK n : n = Len(tmpl)
  OBVIOUS
<1> DEFINE size(i) == SegmentSize(tmpl[i])
           Sums(f, m) == f = [i \in 0 .. m |-> IF i = 0 THEN 0 ELSE f[i - 1] + size(i)]
           lacking == {m \in 0 .. n : ~\E f : Sums(f, m)}
<1>1. n \in Nat
  BY DEF Written
<1>2. lacking = {}
  <2> SUFFICES ASSUME lacking # {} PROVE FALSE
    OBVIOUS
  <2>1. PICK m \in lacking : \A y \in lacking : m <= y
    <3>1. lacking \subseteq Nat
      BY <1>1
    <3> HIDE DEF lacking
    <3> QED BY <3>1, LeastNumber
  <2>2. m \in 0 .. n /\ ~\E f : Sums(f, m)
    OBVIOUS
  <2>3. CASE m = 0
    <3>1. Sums([i \in 0 .. 0 |-> 0], 0)
      OBVIOUS
    <3> QED BY <2>2, <2>3, <3>1
  <2>4. CASE m # 0
    <3>1. m - 1 \in 0 .. n /\ ~(m <= m - 1) /\ m \in Nat
      BY <1>1, <2>2, <2>4
    <3>2. PICK f : Sums(f, m - 1)
      BY <2>1, <3>1
    <3> DEFINE g == [i \in 0 .. m |-> IF i = m THEN f[m - 1] + size(m) ELSE f[i]]
    <3> HIDE DEF size
    <3>3. \A i \in 0 .. m : i # m => i \in 0 .. m - 1
      BY <3>1
    <3>4. \A i \in 0 .. m : g[i] = IF i = 0 THEN 0 ELSE g[i - 1] + size(i)
      <4> SUFFICES ASSUME NEW i \in 0 .. m
                   PROVE  g[i] = IF i = 0 THEN 0 ELSE g[i - 1] + size(i)
        OBVIOUS
      <4>1. i # 0 => i - 1 \in 0 .. m /\ i - 1 # m
        BY <3>1
      <4>2. CASE i = m
        BY <2>4, <4>1, <4>2
      <4>3. CASE i # m
        <5>1. f[i] = IF i = 0 THEN 0 ELSE f[i - 1] + size(i)
          BY <3>2, <3>3, <4>3
        <5> QED BY <4>1, <4>3, <5>1
      <4> QED BY <4>2, <4>3
    <3>5. Sums(g, m)
      <4>1. g = [i \in 0 .. m |-> g[i]]
        OBVIOUS
      <4> HIDE DEF g
      <4> QED BY <3>4, <4>1
    <3> QED BY <2>2, <3>5
  <2> QED BY <2>3, <2>4
<1>3. \E f : Sums(f, n)
  BY <1>1, <1>2
<1>4. Offsets(tmpl) = CHOOSE f : Sums(f, n)
  BY DEF Offsets
<1>5. Sums(Offsets(tmpl), n)
  BY <1>3, <1>4
<1> QED BY <1>5

\* The offsets grow from segment to segment.
LEMMA OffsetsGrow ==
    ASSUME NEW tmpl \in Written
    PROVE  /\ Offsets(tmpl)[0] = 0
           /\ \A i \in 0 .. Len(tmpl) : /\ Offsets(tmpl)[i] \in Nat
                                         /\ Offsets(tmpl)[i] <= MaxSize(tmpl)
<1> PICK n : n = Len(tmpl)
  OBVIOUS
<1> PICK off : off = Offsets(tmpl)
  OBVIOUS
<1>1. n \in Nat /\ \A i \in 1 .. n : SegmentSize(tmpl[i]) \in Nat
  <2>1. \A i \in 1 .. n : tmpl[i] \in Segments
    BY DEF Written
  <2>2. \A i \in 1 .. n : tmpl[i].n \in Nat
    BY <2>1 DEF Segments
  <2>3. n \in Nat
    BY DEF Written
  <2> QED BY <2>2, <2>3 DEF SegmentSize
<1>2. off = [i \in 0 .. n |-> IF i = 0 THEN 0 ELSE off[i - 1] + SegmentSize(tmpl[i])]
  BY OffsetsAre
<1>3. off[0] = 0
  BY <1>1, <1>2
<1>4. \A i \in 1 .. n : off[i] = off[i - 1] + SegmentSize(tmpl[i])
  <2>1. \A i \in 1 .. n : i \in 0 .. n /\ i # 0
    BY <1>1
  <2> QED BY <1>2, <2>1
<1>5. \A i \in 0 .. n : off[i] \in Nat
  <2> DEFINE bad == {i \in 0 .. n : off[i] \notin Nat}
  <2> SUFFICES ASSUME bad # {} PROVE FALSE
    OBVIOUS
  <2>1. PICK m \in bad : \A y \in bad : m <= y
    <3>1. bad \subseteq Nat
      BY <1>1
    <3> HIDE DEF bad
    <3> QED BY <3>1, LeastNumber
  <2>2. m \in 1 .. n /\ off[m] \notin Nat
    BY <1>1, <1>3
  <2>3. m - 1 \in 0 .. n /\ ~(m <= m - 1)
    BY <1>1, <2>2
  <2>4. off[m - 1] \in Nat
    BY <2>1, <2>3
  <2> QED BY <1>1, <1>4, <2>2, <2>4
<1>6. \A i \in 0 .. n : off[i] <= off[n]
  <2> DEFINE far == {d \in 0 .. n : ~(off[n - d] <= off[n])}
  <2>1. far = {}
    <3> SUFFICES ASSUME far # {} PROVE FALSE
      OBVIOUS
    <3>1. PICK d \in far : \A y \in far : d <= y
      <4>1. far \subseteq Nat
        BY <1>1
      <4> HIDE DEF far
      <4> QED BY <4>1, LeastNumber
    <3>2. d \in 0 .. n /\ ~(off[n - d] <= off[n])
      OBVIOUS
    <3>3. d # 0
      <4>1. d = 0 => n - d = n /\ n \in 0 .. n
        BY <1>1
      <4>2. off[n] \in Nat
        BY <1>1, <1>5
      <4> QED BY <3>2, <4>1, <4>2
    <3>4. d - 1 \in 0 .. n /\ ~(d <= d - 1)
      BY <1>1, <3>2, <3>3
    <3>5. off[n - (d - 1)] <= off[n]
      BY <3>1, <3>4
    <3> PICK i : i = n - (d - 1)
      OBVIOUS
    <3>6. i \in 1 .. n /\ n - d = i - 1 /\ i - 1 \in 0 .. n /\ i \in 0 .. n /\ n \in 0 .. n
      BY <1>1, <3>2, <3>3
    <3>7. off[i] = off[i - 1] + SegmentSize(tmpl[i]) /\ SegmentSize(tmpl[i]) \in Nat
      BY <1>1, <1>4, <3>6
    <3>8. off[i] \in Nat /\ off[i - 1] \in Nat /\ off[n] \in Nat
      BY <1>5, <3>6
    <3>9. off[i - 1] <= off[n]
      <4>1. \A x, y, z, size \in Nat : y = x + size /\ y <= z => x <= z
        OBVIOUS
      <4>2. off[i] <= off[n]
        BY <3>5
      <4> HIDE DEF far
      <4> QED BY <3>7, <3>8, <4>1, <4>2
    <3> QED BY <3>2, <3>6, <3>9
  <2>2. ASSUME NEW i \in 0 .. n PROVE off[i] <= off[n]
    <3>1. n - i \in 0 .. n /\ n - (n - i) = i
      BY <1>1
    <3>2. n - i \notin far
      BY <2>1
    <3> QED BY <3>1, <3>2
  <2> QED BY <2>2
<1> QED BY <1>3, <1>5, <1>6 DEF MaxSize

\* What is accepted fits a packet as it is stored, and then it is sent whole.
Fits(tmpl) == tmpl \in Written /\ MaxSize(tmpl) <= MaxPacket

LEMMA AcceptedFits ==
    ASSUME NEW written \in Written, CpsAccepts(written)
    PROVE  Fits(Parsed(written))
<1>1. \A i \in DOMAIN written : Stored(written[i]) \in Segments
  <2> SUFFICES ASSUME NEW seg \in Segments
               PROVE  Stored(seg) \in Segments
    <3>1. \A i \in DOMAIN written : written[i] \in Segments
      BY DEF Written
    <3> QED BY <3>1
  <2>1. seg.n % SizeRange \in Nat
    BY CpsAssumption DEF Segments
  <2> QED BY <2>1 DEF Stored, Segments
<1>2. Parsed(written) \in Written
  BY <1>1 DEF Parsed, Written
<1> QED BY <1>2 DEF Fits, CpsAccepts

LEMMA EmptyFits == Fits(<<>>)
<1>1. <<>> \in Written
  BY DEF Written
<1>2. MaxSize(<<>>) = 0
  BY <1>1, OffsetsGrow DEF MaxSize
<1> QED BY <1>1, <1>2, CpsAssumption DEF Fits

LEMMA FitsWhole ==
    ASSUME NEW tmpl, Fits(tmpl)
    PROVE  Generated(tmpl) = MaxSize(tmpl)
<1> PICK n : n = Len(tmpl)
  OBVIOUS
<1> PICK off : off = Offsets(tmpl)
  OBVIOUS
<1>1. n \in Nat /\ tmpl \in Written /\ off[n] = MaxSize(tmpl)
  BY DEF Fits, Written, MaxSize
<1>2. \A i \in 0 .. n : off[i] <= MaxPacket
  <2> SUFFICES ASSUME NEW i \in 0 .. n PROVE off[i] <= MaxPacket
    OBVIOUS
  <2>1. n \in 0 .. n
    BY <1>1
  <2>2. off[i] \in Nat /\ off[i] <= MaxSize(tmpl) /\ MaxSize(tmpl) \in Nat
    BY <1>1, <2>1, OffsetsGrow
  <2> QED BY <2>2, CpsAssumption DEF Fits
<1> DEFINE whole == {i \in 0 .. n : \A j \in 1 .. i : off[j] <= MaxPacket}
<1>3. whole = 0 .. n
  <2>1. \A i \in 0 .. n : \A j \in 1 .. i : j \in 0 .. n
    BY <1>1
  <2> QED BY <1>2, <2>1
<1>4. Generated(tmpl) = off[CHOOSE i \in whole : \A j \in whole : j <= i]
  BY DEF Generated
<1> HIDE DEF whole
<1>5. (CHOOSE i \in whole : \A j \in whole : j <= i) = n
  <2>1. n \in whole /\ \A j \in whole : j <= n
    BY <1>1, <1>3
  <2>2. \A i \in whole : (\A j \in whole : j <= i) => i = n
    BY <1>1, <1>3, <2>1
  <2> QED BY <2>1, <2>2
<1> QED BY <1>1, <1>4, <1>5

\* The templates of the file fit from the line on that gives them.
TemplatesRead == \A key \in DOMAIN out.iface \cap Templates : Fits(out.iface[key])

LEMMA StepTemplatesRead ==
    ASSUME FileRead, TemplatesRead, [Next]_vars
    PROVE  TemplatesRead'
<1>1. CASE out'.iface = out.iface
  BY <1>1 DEF TemplatesRead
<1>2. ASSUME NEW line \in Lines, ReadInterface(line), line.key \in InterfaceKeys
      PROVE  TemplatesRead'
  <2> DEFINE val == InterfaceValue(line.key, line.val)
  <2>1. out'.iface = With(out.iface, line.key, val)
    BY <1>2 DEF ReadInterface, FileRead
  <2>2. line.key \in Templates => Fits(val)
    <3> SUFFICES ASSUME line.key \in Templates PROVE Fits(val)
      OBVIOUS
    <3>1. ~line.header /\ InterfaceAccepts(line.key, line.val)
      BY <1>2 DEF ReadInterface
    <3>2. line.key \notin Numbers \cup {"PrivateKey", "DNS", "ListenPort"} \cup Headers
      BY DEF Numbers, Headers, Templates
    <3>3. CpsAccepts(line.val)
      BY <3>1, <3>2 DEF InterfaceAccepts
    <3>4. val = Parsed(line.val)
      BY <3>2 DEF InterfaceValue
    <3>5. line.val \in Written
      BY <3>1, <3>3, LinesAssumption DEF CpsAccepts
    <3> QED BY <3>3, <3>4, <3>5, AcceptedFits
  <2> HIDE DEF val
  <2>3. /\ DOMAIN out'.iface = DOMAIN out.iface \cup {line.key}
        /\ \A k \in DOMAIN out'.iface : out'.iface[k] = IF k = line.key THEN val ELSE out.iface[k]
    BY <2>1 DEF With
  <2> QED BY <2>2, <2>3 DEF TemplatesRead
<1>3. ASSUME NEW line \in Lines, ReadLine(line) PROVE TemplatesRead'
  <2>1. CASE ReadHeader(line)
    BY <1>1, <2>1, FlushFileRead DEF ReadHeader
  <2>2. CASE ReadInterface(line)
    BY <1>1, <1>2, <2>2 DEF ReadInterface
  <2>3. CASE ReadPeer(line) \/ ReadNowhere(line)
    BY <1>1, <2>3 DEF ReadPeer, ReadNowhere
  <2> QED BY <1>3, <2>1, <2>2, <2>3 DEF ReadLine
<1>4. CASE ReadFile
  <2>1. CASE UNCHANGED fileVars
    BY <1>1, <2>1 DEF fileVars
  <2>2. CASE ReadEnd
    BY <1>1, <2>2, FlushFileRead DEF ReadEnd
  <2> QED BY <1>3, <1>4, <2>1, <2>2 DEF ReadFile
<1>5. CASE Launch \/ (\E s : Stage(s)) \/ UNCHANGED vars
  BY <1>1, <1>5 DEF Launch, Stage, fileVars, vars
<1> QED
  BY <1>4, <1>5
  DEF Next, SetMode, SetEndpoints, SetObfuscation, SetKeys, SetPeers, Validate, Compute,
      Required, SetCps, SetOperational, SetNetwork, InitProxy

\* Every template the proxy runs with fits, wherever it came from.
LEMMA TemplatesFit ==
    ASSUME IInv, TemplatesRead, Running, NEW i \in 1 .. 5
    PROVE  Fits(cfg.cps[i])
<1> DEFINE k == TemplateOrder[i]
<1>1. cfg.cps = CpsIs /\ CpsReadable /\ env \in Envs
  BY DEF IInv, Merged, Launched, Running
<1>2. k \in Templates
  BY DEF TemplateOrder, Templates
<1>3. cfg.cps[i] = FileOr(k, EnvTemplate(k))
  BY <1>1 DEF CpsIs
<1> HIDE DEF k
<1>4. CASE k \in DOMAIN out.iface
  BY <1>2, <1>3, <1>4 DEF FileOr, TemplatesRead
<1>5. CASE k \notin DOMAIN out.iface
  <2>1. cfg.cps[i] = EnvTemplate(k)
    BY <1>3, <1>5 DEF FileOr
  <2>2. CASE ~Has(k)
    BY <2>1, <2>2, EmptyFits DEF EnvTemplate
  <2>3. CASE Has(k)
    <3>1. CpsAccepts(env[k]) /\ EnvTemplate(k) = Parsed(env[k])
      BY <1>1, <1>2, <2>3 DEF CpsReadable, EnvTemplate
    <3>2. env[k] \in Written
      BY <1>1, <1>2, <2>3, <3>1, EnvTemplatesAssumption DEF Has, CpsAccepts
    <3> QED BY <2>1, <3>1, <3>2, AcceptedFits
  <2> QED BY <2>2, <2>3
<1> QED BY <1>4, <1>5

\* The numbers of the packets are in a row.
LEMMA InARow ==
    ASSUME NEW n \in Nat, NEW given, given \subseteq 1 .. n, NEW i \in given
    PROVE  /\ Cardinality({j \in given : j < i}) \in 0 .. Cardinality(given) - 1
           /\ \A k \in given : k < i =>
                 Cardinality({j \in given : j < k}) < Cardinality({j \in given : j < i})
<1> DEFINE below(k) == {j \in given : j < k}
<1>1. IsFiniteSet(given) /\ \A k : IsFiniteSet(below(k))
  <2>1. IsFiniteSet(1 .. n)
    BY FS_Interval
  <2> QED BY <2>1, FS_Subset
<1>2. ASSUME NEW T, T \subseteq given, NEW k \in T, below(k) \subseteq T
      PROVE  Cardinality(below(k)) < Cardinality(T)
  <2>1. k \notin below(k) /\ below(k) \cup {k} \subseteq T
    BY <1>2
  <2>2. IsFiniteSet(T) /\ IsFiniteSet(below(k))
    <3>1. IsFiniteSet(below(k))
      BY <1>1
    <3>2. IsFiniteSet(T)
      BY <1>1, <1>2, FS_Subset
    <3> QED BY <3>1, <3>2
  <2> HIDE DEF below
  <2>3. Cardinality(below(k) \cup {k}) = Cardinality(below(k)) + 1
    BY <2>1, <2>2, FS_AddElement
  <2>4. Cardinality(below(k) \cup {k}) <= Cardinality(T)
    BY <2>1, <2>2, FS_Subset
  <2>5. Cardinality(below(k)) \in Nat /\ Cardinality(T) \in Nat
    BY <2>2, FS_CardinalityType
  <2> QED BY <2>3, <2>4, <2>5
<1>3. Cardinality(below(i)) \in 0 .. Cardinality(given) - 1
  <2>1. Cardinality(below(i)) < Cardinality(given)
    <3>1. below(i) \subseteq given
      OBVIOUS
    <3> HIDE DEF below
    <3> QED BY <1>2, <3>1
  <2>2. Cardinality(below(i)) \in Nat /\ Cardinality(given) \in Nat
    BY <1>1, FS_CardinalityType
  <2> QED BY <2>1, <2>2
<1>4. ASSUME NEW k \in given, k < i
      PROVE  Cardinality(below(k)) < Cardinality(below(i))
  <2>1. k \in below(i) /\ below(k) \subseteq below(i) /\ below(i) \subseteq given
    <3>1. \A j \in given : j < k => j < i
      BY <1>4
    <3> QED BY <1>4, <3>1
  <2> HIDE DEF below
  <2> QED BY <1>2, <2>1
<1> QED BY <1>3, <1>4

\* Nothing that is made of the configuration is cut, neither junk nor
\* templates: see PacketsFit in Config.tla, of cps.c and generate_junk().
THEOREM ConfigPacketsFit == Spec => []PacketsFit
<1>1. Init => TemplatesRead
  BY DEF Init, FileInit, NoFile, Empty, TemplatesRead
<1>2. IInv /\ TemplatesRead /\ [Next]_vars => TemplatesRead'
  BY StepTemplatesRead DEF IInv
<1>3. ASSUME IInv, TemplatesRead PROVE TemplateWhole
  <2> SUFFICES ASSUME Running PROVE TemplateWhole
    BY DEF TemplateWhole
  <2> DEFINE packets == GenerateAll(cfg.cps, 0)
             given == {i \in DOMAIN cfg.cps : cfg.cps[i] # <<>>}
  <2>1. DOMAIN cfg.cps = 1 .. 5
    BY <1>3 DEF IInv, Merged, Running, CpsIs
  <2>2. packets = [i \in given |->
            [len |-> Generated(cfg.cps[i]),
             counter |-> 0 + Cardinality({j \in given : j < i})]]
    BY DEF GenerateAll
  <2>3. given \subseteq 1 .. 5
    BY <2>1
  <2> HIDE DEF packets, given
  <2>4. ASSUME NEW i \in given
        PROVE  /\ Cardinality({j \in given : j < i}) \in 0 .. Cardinality(given) - 1
               /\ \A k \in given : k < i =>
                     Cardinality({j \in given : j < k}) < Cardinality({j \in given : j < i})
    BY <2>3, InARow
  <2>5. \A i \in given : Cardinality({j \in given : j < i}) \in Nat
    <3> SUFFICES ASSUME NEW i \in given PROVE Cardinality({j \in given : j < i}) \in Nat
      OBVIOUS
    <3> DEFINE below == {j \in given : j < i}
    <3>1. below \subseteq 1 .. 5
      BY <2>3
    <3>2. IsFiniteSet(1 .. 5)
      <4>1. 1 \in Int /\ 5 \in Int
        OBVIOUS
      <4> QED BY ONLY <4>1, FS_Interval
    <3> HIDE DEF below
    <3>3. Cardinality(below) \in Nat
      BY <3>1, <3>2, FS_Subset, FS_CardinalityType
    <3> QED BY <3>3 DEF below
  <2>6. \A i \in given : packets[i].counter = Cardinality({j \in given : j < i})
    BY <2>2, <2>5
  <2>7. \A i \in given : packets[i].len = MaxSize(cfg.cps[i])
    BY <1>3, <2>2, <2>3, TemplatesFit, FitsWhole
  <2>8. DOMAIN packets = given
    BY <2>2
  <2> QED BY <2>4, <2>6, <2>7, <2>8 DEF TemplateWhole, packets
<1>4. Spec => []TemplatesRead
  <2>1. Init /\ []IInv /\ [][Next]_vars => []TemplatesRead
    BY <1>1, <1>2, PTL
  <2> QED BY <2>1, ConfigInvariant, PTL DEF Spec
<1> QED BY <1>3, <1>4, ConfigInvariant, ConfigJunkFits, PTL DEF PacketsFit

-----------------------------------------------------------------------------
(***************************************************************************)
(* The start and the end of the proxy, for every retry limit, DNS window,  *)
(* cap of the waits and number of descriptors.  The invariant has one part *)
(* per promise: who holds which descriptor, how long the resolver has      *)
(* failed, how long ago the stop was asked for.                            *)
(***************************************************************************)

Beginning == {"listen", "dial", "sleep"}

\* Each open descriptor is in its slot, and a slot names nothing else; until
\* the cleanup what a slot names is open; what is not opened yet is closed.
Held ==
    /\ \A n \in DOMAIN open : fd[open[n]] = n
    /\ \A s \in Slots : fd[s] \in DOMAIN open => open[fd[s]] = s
    /\ ~strayClose

Full == \A s \in Slots : fd[s] = Closed \/ fd[s] \in DOMAIN open

Owned ==
    /\ Held
    /\ main # "cleanup" => Full
    /\ ended \in {"failed", "stopped"} => DOMAIN open = {}

NotYetOpen ==
    /\ main = "listen" => fd["listen"] = Closed
    /\ main \in Beginning \/ s2c = "dial" => fd["remote"] = Closed
    /\ main \in Beginning \cup {"control"} => fd["signal"] = Closed
    /\ main \in Beginning \cup {"control", "timer"} => fd["timer"] = Closed
    /\ main # "loop" => fd["epoll"] = Closed

\* Which thread is where: the s2c thread starts last and ends before the cleanup.
Threads ==
    /\ main \in Beginning \cup {"control", "timer", "c2s", "s2c"} => s2c = "none"
    /\ main = "cleanup" => s2c \in {"none", "ended"}
    /\ s2c = "ended" \/ c2s = "ended" => stopped
    /\ stopped => main \in {"shutdown", "join", "cleanup"}
    /\ main = "join" => stopped

\* What is left of a wait, and the resolver's failures: the window of the code
\* is as old as they are, and they are as old as the last of them and the wait
\* since.
Within(n, most) == failAge + n <= lastAge + most

Windows ==
    /\ main = "sleep" => left["main"] <= MaxStartDelay
    /\ main = "dial" => left["main"] <= MaxResolve
    /\ s2c = "backoff" => left["s2c"] <= MaxBackoff
    /\ s2c = "dial" => left["s2c"] <= MaxResolve
    /\ ended = "dns" => limits.dns > 0 /\ lastAge >= limits.dns
    /\ main = "listen" \/ s2c = "recv" => failAge = Never
    /\ s2c = "none" /\ main \notin Beginning \cup {"cleanup"} => failAge = Never
    /\ failAge = Never => lastAge = Never

Failures ==
    Alive /\ limits.dns > 0 =>
        /\ dnsAge = failAge
        /\ lastAge < limits.dns
        /\ failAge # Never =>
              /\ lastAge \in 0 .. failAge
              /\ Within(0, LongestWait + MaxResolve)
              /\ main = "sleep" => Within(left["main"], MaxStartDelay)
              /\ main = "dial" => Within(left["main"], MaxStartDelay + MaxResolve)
              /\ s2c = "backoff" => Within(left["s2c"], MaxBackoff)
              /\ s2c = "dial" => Within(left["s2c"], MaxBackoff + MaxResolve)

\* A stop that was asked for: no time passes until the flag is set, and then
\* only what is left of a wait of the s2c thread.
Stopping ==
    stopAge # Never =>
        /\ main \notin Beginning \cup {"control"}
        /\ ~stopped => signal = "pending" /\ stopAge = 0
        /\ stopAge <= MaxBackoff + MaxResolve
        /\ s2c \in {"backoff", "dial"} => stopAge + left["s2c"] <= MaxBackoff + MaxResolve

StartIInv == TypeOK /\ Owned /\ NotYetOpen /\ Threads /\ Windows /\ Failures /\ Stopping

-----------------------------------------------------------------------------
(* Descriptors: what opening and closing do to them.                       *)

Kernel ==
    /\ fd \in [Slots -> Descriptors \cup {Closed}]
    /\ DOMAIN open \subseteq Descriptors /\ \A n \in DOMAIN open : open[n] \in Slots

\* A new descriptor in a slot that was closed is held by that slot alone.
LEMMA OpenHolds ==
    ASSUME Kernel, Held, Full, NEW what \in Slots, fd[what] = Closed, Open(what),
           strayClose' = strayClose
    PROVE  /\ Kernel' /\ Held' /\ Full'
           /\ \A s \in Slots \ {what} : fd'[s] = fd[s]
<1>1. PICK new \in Free :
         /\ open' = [n \in DOMAIN open \cup {new} |-> IF n = new THEN what ELSE open[n]]
         /\ fd' = [fd EXCEPT ![what] = new]
  BY DEF Open
<1>2. new \in Descriptors /\ new \notin DOMAIN open /\ new # Closed
  BY DescriptorsAssumption DEF Free, Closed
<1>3. DOMAIN open' = DOMAIN open \cup {new} /\ open'[new] = what
      /\ \A n \in DOMAIN open : open'[n] = open[n]
  BY <1>1, <1>2
<1>4. fd'[what] = new /\ \A s \in Slots \ {what} : fd'[s] = fd[s]
  BY <1>1 DEF Kernel
<1>5. Kernel'
  BY <1>1, <1>2, <1>3 DEF Kernel
<1>6. Held'
  <2>1. ASSUME NEW n \in DOMAIN open' PROVE fd'[open'[n]] = n
    <3>1. CASE n = new
      BY <3>1, <1>3, <1>4
    <3>2. CASE n \in DOMAIN open
      <4>1. fd[open[n]] = n /\ open[n] \in Slots /\ n \in Descriptors
        BY <3>2 DEF Held, Kernel
      <4>2. open[n] # what
        BY <4>1, DescriptorsAssumption DEF Closed
      <4> QED BY <4>1, <4>2, <3>2, <1>3, <1>4
    <3> QED BY <3>1, <3>2, <1>3
  <2>2. ASSUME NEW s \in Slots, fd'[s] \in DOMAIN open' PROVE open'[fd'[s]] = s
    <3>1. CASE s = what
      BY <3>1, <1>3, <1>4
    <3>2. CASE s # what
      <4>1. fd'[s] = fd[s]
        BY <3>2, <1>4
      <4>2. fd[s] \in DOMAIN open \/ fd[s] = new
        BY <4>1, <2>2, <1>3
      <4>3. CASE fd[s] \in DOMAIN open
        BY <4>1, <4>3, <1>3 DEF Held
      <4>4. CASE fd[s] = new
        BY <4>4, <1>2, <3>2 DEF Full
      <4> QED BY <4>1, <4>2, <4>3, <4>4
    <3> QED BY <3>1, <3>2
  <2> QED BY <2>1, <2>2 DEF Held
<1>7. Full'
  BY <1>3, <1>4 DEF Full
<1> QED BY <1>4, <1>5, <1>6, <1>7

\* Closing the numbers of slots hits nothing else, and leaves the others alone.
LEMMA CloseHolds ==
    ASSUME Kernel, Held, NEW slots \in SUBSET Slots, Closing(slots)
    PROVE  /\ ~strayClose'
           /\ DOMAIN open' \subseteq DOMAIN open
           /\ \A n \in DOMAIN open' : open'[n] = open[n] /\ open[n] \notin slots
           /\ \A s \in Slots \ slots : fd[s] \in DOMAIN open => fd[s] \in DOMAIN open'
           /\ fd' = fd => Kernel' /\ Held'
<1> DEFINE held == {fd[s] : s \in slots} \ {Closed}
<1>1. ~strayClose' /\ open' = [n \in DOMAIN open \ held |-> open[n]]
  BY DEF Closing, Without, Held
<1>2. DOMAIN open' = DOMAIN open \ held /\ \A n \in DOMAIN open' : open'[n] = open[n]
  BY <1>1
<1>3. \A n \in DOMAIN open' : open[n] \notin slots
  <2> SUFFICES ASSUME NEW n \in DOMAIN open', open[n] \in slots PROVE FALSE
    OBVIOUS
  <2>1. n \in DOMAIN open /\ n \notin held /\ fd[open[n]] = n
    BY <1>2 DEF Held
  <2>2. n # Closed
    BY <2>1, DescriptorsAssumption DEF Kernel, Closed
  <2> QED BY <2>1, <2>2
<1>4. ASSUME NEW s \in Slots \ slots, fd[s] \in DOMAIN open PROVE fd[s] \in DOMAIN open'
  <2>1. open[fd[s]] = s
    BY <1>4 DEF Held
  <2>2. \A q \in slots : fd[q] # fd[s]
    <3> SUFFICES ASSUME NEW q \in slots, fd[q] = fd[s] PROVE FALSE
      OBVIOUS
    <3>1. open[fd[q]] = q
      BY <1>4 DEF Held
    <3> QED BY <2>1, <3>1
  <2> QED BY <2>2, <1>2, <1>4
<1>5. fd' = fd => Kernel' /\ Held'
  BY <1>1, <1>2 DEF Kernel, Held
<1> QED BY <1>1, <1>2, <1>3, <1>4, <1>5

\* When the slots are reset too, what a slot names is still open.
LEMMA CloseForgets ==
    ASSUME Kernel, Held, NEW slots \in SUBSET Slots, Closing(slots),
           fd' = [s \in Slots |-> IF s \in slots THEN Closed ELSE fd[s]]
    PROVE  Kernel' /\ Held' /\ (Full => Full')
<1>1. /\ ~strayClose'
      /\ DOMAIN open' \subseteq DOMAIN open
      /\ \A n \in DOMAIN open' : open'[n] = open[n] /\ open[n] \notin slots
      /\ \A s \in Slots \ slots : fd[s] \in DOMAIN open => fd[s] \in DOMAIN open'
  BY CloseHolds
<1>2. Kernel'
  BY <1>1 DEF Kernel
<1>3. \A n \in DOMAIN open' : fd'[open'[n]] = n
  BY <1>1 DEF Held, Kernel
<1>4. ASSUME NEW s \in Slots, fd'[s] \in DOMAIN open' PROVE open'[fd'[s]] = s
  <2>1. s \notin slots
    BY <1>4, <1>1, DescriptorsAssumption DEF Kernel, Closed
  <2> QED BY <2>1, <1>4, <1>1 DEF Held
<1>5. Full => Full'
  BY <1>1 DEF Full
<1> QED BY <1>1, <1>2, <1>3, <1>4, <1>5 DEF Held

-----------------------------------------------------------------------------
(* The descriptors of the whole process.                                   *)

Holding == Kernel /\ Owned /\ NotYetOpen /\ Threads

LEMMA HoldingInit ==
    ASSUME StartInit
    PROVE  Holding
<1>1. fd = [s \in Slots |-> Closed] /\ DOMAIN open = {} /\ ~strayClose
  BY DEF StartInit
<1>2. main = "listen" /\ s2c = "none" /\ c2s = "none" /\ ended = "no" /\ stopped = FALSE
  BY DEF StartInit
<1>3. Kernel
  BY <1>1 DEF Kernel
<1>4. Owned
  BY <1>1, <1>2 DEF Owned, Held, Full, Closed
<1>5. NotYetOpen
  BY <1>1, <1>2 DEF NotYetOpen, Slots
<1>6. Threads
  BY <1>2 DEF Threads, Beginning
<1> QED BY <1>3, <1>4, <1>5, <1>6 DEF Holding

LEMMA HoldingMain ==
    ASSUME Holding, MainStep
    PROVE  Holding'
<1> USE DEF MainAt, Alive
<1>k. Kernel /\ Held /\ NotYetOpen /\ Threads /\ (main # "cleanup" => Full)
  BY DEF Holding, Owned
<1>a. Alive
  BY DEF MainStep, Listen, FirstDialFails, FirstDialSucceeds, Awake, ControlInit, TimerInit,
         StartC2s, StartS2c, EnterLoop, LeaveLoop, ShutdownSockets, Join, Cleanup
<1>s. /\ \A q \in Slots : q \in {"listen", "remote", "signal", "timer", "epoll"}
      /\ "listen" \in Slots /\ "remote" \in Slots /\ "signal" \in Slots
      /\ "timer" \in Slots /\ "epoll" \in Slots
      /\ {"listen"} \in SUBSET Slots /\ {"signal"} \in SUBSET Slots
      /\ {"epoll"} \in SUBSET Slots
      /\ {"listen", "remote", "signal", "timer"} \in SUBSET Slots
  BY DEF Slots
<1>1. CASE Listen
  <2>1. CASE Open("listen") /\ main' = "dial"
    <3>1a. fd["listen"] = Closed /\ Open("listen") /\ strayClose' = strayClose /\ Full
      BY <1>1, <2>1, <1>k DEF Listen, NotYetOpen
    <3>1. Kernel' /\ Held' /\ Full' /\ \A q \in Slots \ {"listen"} : fd'[q] = fd[q]
      BY <3>1a, <1>k, <1>s, OpenHolds
    <3> QED BY <1>1, <2>1, <3>1, <1>k, <1>s, <1>a
            DEF Listen, Holding, Owned, NotYetOpen, Threads, Beginning
  <2>2. CASE main' = "cleanup" /\ fd' = fd /\ open' = open
    BY <1>1, <2>2, <1>k, <1>a
       DEF Listen, Holding, Kernel, Held, Owned, NotYetOpen, Threads, Beginning
  <2>3. CASE /\ main' = "cleanup" /\ open' = open
             /\ \E n \in Free : Lowest(n) /\ fd' = [fd EXCEPT !.listen = n]
    <3>1. PICK n \in Free : fd' = [fd EXCEPT !.listen = n]
      BY <2>3
    <3>2. n \in Descriptors /\ n \notin DOMAIN open
      BY DEF Free
    <3>3. Kernel' /\ fd'["listen"] = n /\ \A q \in Slots \ {"listen"} : fd'[q] = fd[q]
      BY <3>1, <3>2, <2>3, <1>k DEF Kernel, Slots
    <3>4. \A m \in DOMAIN open : open[m] # "listen"
      BY <1>k, <1>1, DescriptorsAssumption DEF Held, NotYetOpen, Listen, Kernel, Closed
    <3>5. Held'
      <4>1. \A m \in DOMAIN open : fd'[open[m]] = m
        BY <3>3, <3>4, <1>k DEF Held, Kernel
      <4>2. \A q \in Slots : fd'[q] \in DOMAIN open => open[fd'[q]] = q
        BY <3>2, <3>3, <1>k DEF Held
      <4> QED BY <4>1, <4>2, <2>3, <1>1, <1>k DEF Held, Listen
    <3> QED BY <1>1, <2>3, <3>3, <3>5, <1>k, <1>s, <1>a
            DEF Listen, Holding, Owned, NotYetOpen, Threads, Beginning
  <2> QED BY <1>1, <2>1, <2>2, <2>3 DEF Listen
<1>2. CASE FirstDialFails
  <2>1. CASE Closing({"listen"}) /\ main' = "cleanup" /\ fd' = fd
    <3>1. Kernel' /\ Held'
      BY <2>1, <1>k, <1>s, CloseHolds
    <3> QED BY <1>2, <2>1, <3>1, <1>k
            DEF FirstDialFails, ResolveFails, Resolved, Holding, Owned, NotYetOpen, Threads,
                Beginning
  <2>2. CASE DialFails /\ main' = "sleep"
    BY <1>2, <2>2, <1>k
       DEF FirstDialFails, DialFails, ResolveFails, Resolved, Holding, Owned, Kernel,
           Held, Full,
           NotYetOpen, Threads, Beginning
  <2> QED BY <1>2, <2>1, <2>2 DEF FirstDialFails
<1>3. CASE FirstDialSucceeds
  <2>1a. fd["remote"] = Closed /\ Open("remote") /\ strayClose' = strayClose /\ Full
    BY <1>3, <1>k DEF FirstDialSucceeds, DialSucceeds, NotYetOpen, Beginning
  <2>1. Kernel' /\ Held' /\ Full' /\ \A q \in Slots \ {"remote"} : fd'[q] = fd[q]
    BY <2>1a, <1>k, <1>s, OpenHolds
  <2> QED BY <1>3, <2>1, <1>k, <1>s
          DEF FirstDialSucceeds, DialSucceeds, Resolved, Holding, Owned, NotYetOpen,
              Threads,
              Beginning
<1>4. CASE Awake
  BY <1>4, <1>k DEF Awake, dns, Holding, Owned, Kernel, Held, Full, NotYetOpen, Threads,
                    Beginning
<1>5. CASE ControlInit
  <2>1. CASE Open("signal") /\ main' = "timer"
    <3>1a. fd["signal"] = Closed /\ Open("signal") /\ strayClose' = strayClose /\ Full
      BY <1>5, <2>1, <1>k DEF ControlInit, NotYetOpen
    <3>1. Kernel' /\ Held' /\ Full' /\ \A q \in Slots \ {"signal"} : fd'[q] = fd[q]
      BY <3>1a, <1>k, <1>s, OpenHolds
    <3> QED BY <1>5, <2>1, <3>1, <1>k, <1>s
            DEF ControlInit, Holding, Owned, NotYetOpen, Threads, Beginning
  <2>2. CASE main' = "cleanup" /\ fd' = fd /\ open' = open
    BY <1>5, <2>2, <1>k
       DEF ControlInit, Holding, Kernel, Held, Owned, NotYetOpen, Threads, Beginning
  <2> QED BY <1>5, <2>1, <2>2 DEF ControlInit
<1>6. CASE TimerInit
  <2>1. CASE Open("timer") /\ main' = "c2s" /\ strayClose' = strayClose
    <3>1a. fd["timer"] = Closed /\ Open("timer") /\ strayClose' = strayClose /\ Full
      BY <1>6, <2>1, <1>k DEF TimerInit, NotYetOpen
    <3>1. Kernel' /\ Held' /\ Full' /\ \A q \in Slots \ {"timer"} : fd'[q] = fd[q]
      BY <3>1a, <1>k, <1>s, OpenHolds
    <3> QED BY <1>6, <2>1, <3>1, <1>k, <1>s
            DEF TimerInit, Holding, Owned, NotYetOpen, Threads, Beginning
  <2>2. CASE /\ main' = "cleanup" /\ Closing({"signal"})
             /\ fd' = [fd EXCEPT !.signal = Closed]
    <3>1. fd' = [q \in Slots |-> IF q \in {"signal"} THEN Closed ELSE fd[q]]
      BY <2>2, <1>k DEF Kernel
    <3>2. Kernel' /\ Held'
      BY <2>2, <3>1, <1>k, <1>s, CloseForgets
    <3> QED BY <1>6, <2>2, <3>1, <3>2, <1>k, <1>s
            DEF TimerInit, Holding, Owned, NotYetOpen, Threads, Beginning
  <2> QED BY <1>6, <2>1, <2>2 DEF TimerInit
<1>7. CASE StartC2s \/ StartS2c \/ ShutdownSockets \/ Join
  BY <1>7, <1>k DEF StartC2s, StartS2c, ShutdownSockets, Join, dns, Holding, Owned,
                    Kernel, Held,
                    Full, NotYetOpen, Threads, Beginning
<1>8. CASE EnterLoop
  <2>1. CASE Open("epoll") /\ main' = "loop"
    <3>1a. fd["epoll"] = Closed /\ Open("epoll") /\ strayClose' = strayClose /\ Full
      BY <1>8, <2>1, <1>k DEF EnterLoop, NotYetOpen
    <3>1. Kernel' /\ Held' /\ Full' /\ \A q \in Slots \ {"epoll"} : fd'[q] = fd[q]
      BY <3>1a, <1>k, <1>s, OpenHolds
    <3> QED BY <1>8, <2>1, <3>1, <1>k, <1>s
            DEF EnterLoop, Holding, Owned, NotYetOpen, Threads, Beginning
  <2>2. CASE main' = "shutdown" /\ fd' = fd /\ open' = open /\ stopped' = TRUE
    BY <1>8, <2>2, <1>k
       DEF EnterLoop, Holding, Kernel, Held, Full, Owned, NotYetOpen, Threads, Beginning
  <2> QED BY <1>8, <2>1, <2>2 DEF EnterLoop
<1>9. CASE LeaveLoop
  <2>1. fd' = [q \in Slots |-> IF q \in {"epoll"} THEN Closed ELSE fd[q]]
    BY <1>9, <1>k DEF LeaveLoop, Kernel
  <2>a. Closing({"epoll"})
    BY <1>9 DEF LeaveLoop
  <2>2. Kernel' /\ Held' /\ (Full => Full')
    BY <2>a, <2>1, <1>k, <1>s, CloseForgets
  <2> QED BY <1>9, <2>1, <2>2, <1>k, <1>s
          DEF LeaveLoop, Holding, Owned, NotYetOpen, Threads, Beginning
<1>10. CASE Cleanup
  <2> DEFINE slots == {"listen", "remote", "signal", "timer"}
  <2>1. fd' = [q \in Slots |-> IF q \in slots THEN Closed ELSE fd[q]]
    BY <1>10, <1>s DEF Cleanup
  <2>a. Closing(slots)
    BY <1>10 DEF Cleanup
  <2>2. Kernel' /\ Held'
    BY <2>a, <2>1, <1>k, <1>s, CloseForgets
  <2>3. /\ DOMAIN open' \subseteq DOMAIN open
        /\ \A n \in DOMAIN open' : open[n] \notin slots
    BY <2>a, <1>k, <1>s, CloseHolds
  <2>4. \A n \in DOMAIN open : open[n] # "epoll"
    BY <1>10, <1>k, DescriptorsAssumption DEF Cleanup, NotYetOpen, Held, Kernel, Closed
  <2>5. ASSUME NEW n \in DOMAIN open' PROVE FALSE
    BY <2>3, <2>4, <2>5, <1>k, <1>s DEF Kernel
  <2>6. DOMAIN open' = {}
    BY <2>5
  <2> QED BY <1>10, <2>1, <2>2, <2>6, <1>k, <1>s
          DEF Cleanup, threads, Holding, Owned, NotYetOpen, Threads, Beginning
<1> QED BY <1>1, <1>2, <1>3, <1>4, <1>5, <1>6, <1>7, <1>8, <1>9, <1>10 DEF MainStep

LEMMA HoldingOthers ==
    ASSUME Holding, S2cStep \/ C2sEnds \/ Terminate \/ Tick \/ Over
    PROVE  Holding'
<1> USE DEF Alive
<1>k. /\ Kernel /\ Held /\ NotYetOpen /\ Threads /\ (main # "cleanup" => Full)
      /\ ended \in {"failed", "stopped"} => DOMAIN open = {}
  BY DEF Holding, Owned
<1>s. /\ \A q \in Slots : q \in {"listen", "remote", "signal", "timer", "epoll"}
      /\ "listen" \in Slots /\ "remote" \in Slots /\ "signal" \in Slots
      /\ "timer" \in Slots /\ "epoll" \in Slots /\ {"remote"} \in SUBSET Slots
  BY DEF Slots
<1>1. CASE ReceiveEnds \/ C2sEnds \/ Tick
  BY <1>1, <1>k DEF ReceiveEnds, C2sEnds, Tick, dns, Holding, Owned, Kernel, Held, Full,
                    NotYetOpen, Threads, Beginning
<1>2. CASE CloseOld
  <2>1. CASE /\ ~stopped /\ s2c' = "dial" /\ Closing({"remote"}) /\ fd' = ForgetsRemote
    <3>1. fd' = [q \in Slots |-> IF q \in {"remote"} THEN Closed ELSE fd[q]]
      BY <2>1, <1>k DEF Kernel, ForgetsRemote
    <3>2. Kernel' /\ Held' /\ (Full => Full')
      BY <2>1, <3>1, <1>k, <1>s, CloseForgets
    <3> QED BY <1>2, <2>1, <3>1, <3>2, <1>k, <1>s
            DEF CloseOld, Holding, Owned, NotYetOpen, Threads, Beginning
  <2>2. CASE stopped /\ s2c' = "ended" /\ UNCHANGED <<fd, open, strayClose>>
    BY <1>2, <2>2, <1>k DEF CloseOld, Holding, Owned, Kernel, Held, Full, NotYetOpen,
                            Threads,
                            Beginning
  <2> QED BY <1>2, <2>1, <2>2 DEF CloseOld
<1>3. CASE RedialFails
  BY <1>3, <1>k DEF RedialFails, DialFails, ResolveFails, Resolved, Holding, Owned,
                    Kernel, Held,
                    Full, NotYetOpen, Threads, Beginning
<1>4. CASE RedialSucceeds
  <2>1. main # "cleanup" /\ fd["remote"] = Closed
    BY <1>4, <1>k DEF RedialSucceeds, Threads, NotYetOpen
  <2>2a. fd["remote"] = Closed /\ Open("remote") /\ strayClose' = strayClose /\ Full
    BY <1>4, <2>1, <1>k DEF RedialSucceeds, DialSucceeds
  <2>2. Kernel' /\ Held' /\ Full' /\ \A q \in Slots \ {"remote"} : fd'[q] = fd[q]
    BY <2>2a, <1>k, <1>s, OpenHolds
  <2> QED BY <1>4, <2>1, <2>2, <1>k, <1>s
          DEF RedialSucceeds, DialSucceeds, Resolved, Holding, Owned, NotYetOpen, Threads,
              Beginning
<1>5. CASE Terminate
  BY <1>5, <1>k DEF Terminate, dns, threads, Holding, Owned, Kernel, Held, Full, NotYetOpen,
                    Threads, Beginning
<1>6. CASE Over
  BY <1>6, <1>k DEF Over, startVars, dns, threads, Holding, Owned, Kernel, Held, Full,
                    NotYetOpen,
                    Threads, Beginning
<1> QED BY <1>1, <1>2, <1>3, <1>4, <1>5, <1>6 DEF S2cStep

LEMMA HoldingStep ==
    ASSUME Holding, [StartNext]_startVars
    PROVE  Holding'
<1>1. CASE StartNext
  BY <1>1, HoldingMain, HoldingOthers DEF StartNext
<1>2. CASE UNCHANGED startVars
  BY <1>2 DEF startVars, dns, threads, Holding, Owned, Kernel, Held, Full, NotYetOpen,
              Threads,
              Beginning
<1> QED BY <1>1, <1>2

\* No step closes a number of something else, and nothing stays open: see
\* DescriptorsOwned in Startup.tla, of every close() in proxy_startup.c,
\* proxy_reconnect.c, proxy_control.c and proxy_shutdown.c.
THEOREM StartupDescriptorsOwned == StartSpec => []DescriptorsOwned
<1>1. StartInit => Holding
  BY HoldingInit
<1>2. Holding /\ [StartNext]_startVars => Holding'
  BY HoldingStep
<1>3. Holding => DescriptorsOwned
  BY DEF Holding, Owned, Held, DescriptorsOwned
<1> QED BY <1>1, <1>2, <1>3, PTL DEF StartSpec

-----------------------------------------------------------------------------
(* Types.                                                                  *)

\* What is not a descriptor.
Times ==
    /\ left \in [{"main", "s2c"} -> Nat]
    /\ attempt \in Nat /\ backoff \in 1 .. MaxBackoff
    /\ dnsAge \in Nat \cup {Never} /\ failAge \in Nat \cup {Never}
    /\ lastAge \in Nat \cup {Never} /\ stopAge \in Nat \cup {Never}

Places ==
    /\ limits \in Configs
    /\ main \in {"listen", "dial", "sleep", "control", "timer", "c2s", "s2c", "epoll",
                 "loop", "shutdown", "join", "cleanup"}
    /\ s2c \in {"none", "recv", "backoff", "dial", "ended"}
    /\ c2s \in {"none", "run", "ended"}
    /\ signal \in {"none", "pending", "seen"} /\ stopped \in BOOLEAN
    /\ ended \in {"no", "dns", "failed", "stopped", "killed"}
    /\ strayClose \in BOOLEAN

LEMMA TypeParts == TypeOK <=> Kernel /\ Times /\ Places
BY DEF TypeOK, Kernel, Times, Places

LEMMA OlderType ==
    /\ \A age \in Nat \cup {Never} : Older(age) \in Nat \cup {Never}
    /\ Older(Never) = Never
    /\ \A age \in Nat : age < Horizon => Older(age) = age + 1
    /\ \A age \in Nat : Older(age) \in Nat /\ Older(age) <= age + 1
BY TimesAssumption DEF Older, Min2, Never

LEMMA StartDelayType ==
    ASSUME NEW n \in Nat \ {0}
    PROVE  StartDelay(n) \in Nat /\ StartDelay(n) <= MaxStartDelay
<1>1. Min2(n, 7) \in 1 .. 7
  BY DEF Min2
<1>2. Doubled[Min2(n, 7)] \in Nat
  BY <1>1 DEF Doubled
<1> QED BY <1>2, TimesAssumption DEF StartDelay, Min2

LEMMA NextBackoffType ==
    ASSUME NEW b \in 1 .. MaxBackoff
    PROVE  NextBackoff(b) \in 1 .. MaxBackoff
BY TimesAssumption DEF NextBackoff, Min2

LEMMA PlacesStep ==
    ASSUME Places, StartNext
    PROVE  Places'
<1>1. CASE FirstDialFails \/ TimerInit \/ LeaveLoop \/ Cleanup \/ CloseOld
  <2>1. strayClose' \in BOOLEAN
    BY <1>1 DEF FirstDialFails, TimerInit, LeaveLoop, Cleanup, CloseOld, Closing,
                DialFails, Places
  <2> QED BY <1>1, <2>1
          DEF FirstDialFails, TimerInit, LeaveLoop, Cleanup, CloseOld, DialFails,
              ResolveFails,
              Resolved, Places, MainAt, dns, threads
<1>2. CASE \/ Listen \/ FirstDialSucceeds \/ Awake \/ ControlInit \/ StartC2s \/ StartS2c
           \/ EnterLoop \/ ShutdownSockets \/ Join
  BY <1>2 DEF Listen, FirstDialSucceeds, Awake, ControlInit, StartC2s, StartS2c, EnterLoop,
              ShutdownSockets, Join, DialSucceeds, Resolved, Places, MainAt, dns
<1>3. CASE ReceiveEnds \/ RedialFails \/ RedialSucceeds \/ C2sEnds \/ Terminate \/ Tick \/ Over
  BY <1>3 DEF ReceiveEnds, RedialFails, RedialSucceeds, C2sEnds, Terminate, Tick, Over,
              DialFails,
              DialSucceeds, ResolveFails, Resolved, Places, dns, threads, startVars
<1> QED BY <1>1, <1>2, <1>3 DEF StartNext, MainStep, S2cStep

LEMMA ResolverTypes ==
    ASSUME Times, ResolveFails \/ Resolved
    PROVE  /\ dnsAge' \in Nat \cup {Never} /\ failAge' \in Nat \cup {Never}
           /\ lastAge' \in Nat \cup {Never}
BY DEF Times, ResolveFails, Resolved, Never

LEMMA TimesStep ==
    ASSUME Times, Places, StartNext
    PROVE  Times'
<1>c. limits.retries \in Nat /\ MaxResolve \in Nat
  BY ConfigsAssumption, TimesAssumption DEF Places
<1>1. CASE FirstDialFails
  <2>1. attempt' \in Nat \ {0}
    BY <1>1, <1>c DEF FirstDialFails, Times, Min2
  <2>2. /\ dnsAge' \in Nat \cup {Never} /\ failAge' \in Nat \cup {Never}
        /\ lastAge' \in Nat \cup {Never}
    BY <1>1, ResolverTypes DEF FirstDialFails, DialFails
  <2>3. left' \in [{"main", "s2c"} -> Nat]
    BY <1>1, <2>1, StartDelayType DEF FirstDialFails, Times
  <2> QED BY <1>1, <2>1, <2>2, <2>3 DEF FirstDialFails, Times
<1>2. CASE FirstDialSucceeds
  BY <1>2, ResolverTypes DEF FirstDialSucceeds, DialSucceeds, Times
<1>3. CASE Listen \/ Awake
  BY <1>3, <1>c DEF Listen, Awake, Times, dns
<1>4. CASE \/ ControlInit \/ TimerInit \/ StartC2s \/ StartS2c \/ EnterLoop \/ LeaveLoop
           \/ ShutdownSockets \/ Join \/ Cleanup \/ C2sEnds \/ Over
  BY <1>4 DEF ControlInit, TimerInit, StartC2s, StartS2c, EnterLoop, LeaveLoop,
              ShutdownSockets, Join, Cleanup, C2sEnds, Over, Times, dns, threads, startVars
<1>5. CASE ReceiveEnds \/ CloseOld
  BY <1>5, <1>c, TimesAssumption DEF ReceiveEnds, CloseOld, Times, dns
<1>6. CASE RedialFails
  <2>1. NextBackoff(backoff) \in 1 .. MaxBackoff
    BY NextBackoffType DEF Times
  <2>2. /\ dnsAge' \in Nat \cup {Never} /\ failAge' \in Nat \cup {Never}
        /\ lastAge' \in Nat \cup {Never}
    BY <1>6, ResolverTypes DEF RedialFails, DialFails
  <2> QED BY <1>6, <2>1, <2>2, TimesAssumption DEF RedialFails, Times
<1>7. CASE RedialSucceeds
  <2>1. /\ dnsAge' \in Nat \cup {Never} /\ failAge' \in Nat \cup {Never}
        /\ lastAge' \in Nat \cup {Never}
    BY <1>7, ResolverTypes DEF RedialSucceeds, DialSucceeds
  <2> QED BY <1>7, <2>1, TimesAssumption DEF RedialSucceeds, Times
<1>8. CASE Terminate
  BY <1>8 DEF Terminate, Times, dns, threads
<1>9. CASE Tick
  <2>1. left' \in [{"main", "s2c"} -> Nat]
    BY <1>9 DEF Tick, Times
  <2> QED BY <1>9, <2>1, OlderType DEF Tick, Times
<1> QED BY <1>1, <1>2, <1>3, <1>4, <1>5, <1>6, <1>7, <1>8, <1>9 DEF StartNext, MainStep,
                                                                    S2cStep

-----------------------------------------------------------------------------
(* The window of DNS failures.                                             *)

\* A failed resolution: the window is as old as the failures, so that it ends
\* the process when they have lasted the configured time and not before.
LEMMA ResolveFailsRight ==
    ASSUME Times, Places, Alive, Failures, ResolveFails
    PROVE  /\ failAge' \in Nat /\ lastAge' = failAge'
           /\ ended' \in {"no", "dns"}
           /\ ended' = "dns" => limits.dns > 0 /\ lastAge' >= limits.dns
           /\ ended' = "no" /\ limits.dns > 0 => dnsAge' = failAge' /\ lastAge' < limits.dns
<1>c. limits.dns \in Nat
  BY ConfigsAssumption DEF Places
<1>1. failAge' \in Nat /\ lastAge' = failAge'
  BY DEF ResolveFails, Times
<1>2. limits.dns > 0 => dnsAge' = failAge'
  BY <1>c DEF ResolveFails, Failures
<1>3. ended' = IF limits.dns > 0 /\ dnsAge' >= limits.dns THEN "dns" ELSE "no"
  BY <1>c DEF ResolveFails, Overdue, Alive
<1> QED BY <1>1, <1>2, <1>3, <1>c

Counting == Windows /\ Failures

\* What the steps of time rest on beside the counts.
Timed == Times /\ Places /\ Threads

LEMMA SumMonotone == \A age, x, y \in Nat : x <= y => age + x <= age + y
OBVIOUS

LEMMA CountingDial ==
    ASSUME Timed, Counting, FirstDialFails \/ FirstDialSucceeds \/ RedialFails \/ RedialSucceeds
    PROVE  Counting'
<1> USE DEF Timed
<1>a. Alive
  BY DEF FirstDialFails, FirstDialSucceeds, RedialFails, RedialSucceeds, MainAt
<1>c. limits.dns \in Nat /\ LongestWait \in Nat /\ MaxResolve \in Nat /\ limits' = limits
  BY ConfigsAssumption, TimesAssumption
     DEF Places, LongestWait, FirstDialFails, FirstDialSucceeds, RedialFails, RedialSucceeds
<1>d. MaxStartDelay <= LongestWait /\ MaxBackoff <= LongestWait
      /\ MaxStartDelay \in Nat /\ MaxBackoff \in Nat
  BY TimesAssumption DEF LongestWait
<1>1. CASE FirstDialFails
  <2>1. s2c = "none" /\ s2c' = "none" /\ main' \in {"cleanup", "sleep"}
    BY <1>1 DEF FirstDialFails, MainAt, Threads, Beginning
  <2>2. main' = "sleep" => left'["main"] \in Nat /\ left'["main"] <= MaxStartDelay
    <3>1. attempt' \in Nat \ {0}
      BY <1>1, ConfigsAssumption DEF FirstDialFails, Times, Places, Min2
    <3> QED BY <1>1, <3>1, StartDelayType DEF FirstDialFails, Times
  <2>3. CASE ResolveFails
    <3>1. /\ failAge' \in Nat /\ lastAge' = failAge'
          /\ ended' \in {"no", "dns"}
          /\ ended' = "dns" => limits.dns > 0 /\ lastAge' >= limits.dns
          /\ ended' = "no" /\ limits.dns > 0 => dnsAge' = failAge' /\ lastAge' < limits.dns
      BY <1>a, <2>3, ResolveFailsRight DEF Counting
    <3>2. Windows'
      BY <2>1, <2>2, <3>1, <1>c DEF Windows, Never, Beginning
    <3>3. Failures'
      <4> SUFFICES ASSUME Alive', limits.dns > 0
                   PROVE  Failures'
        BY <1>c DEF Failures
      <4>1. failAge' \in Nat /\ lastAge' = failAge'
        BY <3>1
      <4>2. lastAge' \in 0 .. failAge'
        BY <4>1
      <4>3. \A x, y \in Nat : x <= y => failAge' + x <= lastAge' + y
        BY <4>1, SumMonotone
      <4>4. LongestWait + MaxResolve \in Nat /\ 0 <= LongestWait + MaxResolve
        BY <1>c
      <4> QED BY <2>1, <2>2, <3>1, <4>1, <4>2, <4>3, <4>4, <1>c, <1>d DEF Failures,
                                                                          Within, Alive
    <3> QED BY <3>2, <3>3 DEF Counting
  <2>4. CASE Resolved
    <3>1. failAge' = Never /\ lastAge' = Never /\ dnsAge' = Never /\ ended' = "no"
      BY <2>4, <1>a DEF Resolved, Alive
    <3> QED BY <2>1, <2>2, <3>1, <1>c DEF Counting, Windows, Failures, Never, Beginning
  <2> QED BY <1>1, <2>3, <2>4 DEF FirstDialFails, DialFails
<1>2. CASE FirstDialSucceeds \/ RedialSucceeds
  <2>1. failAge' = Never /\ lastAge' = Never /\ dnsAge' = Never /\ ended' = "no"
    BY <1>2, <1>a DEF FirstDialSucceeds, RedialSucceeds, DialSucceeds, Resolved, Alive
  <2>2. /\ left' = left /\ s2c' \in {s2c, "recv", "ended"}
        /\ main' \in {"control", main} /\ (s2c = "dial" => main \notin {"sleep", "dial"})
        /\ s2c' # "dial" /\ main' # "dial"
    BY <1>2 DEF FirstDialSucceeds, RedialSucceeds, MainAt, Threads, Beginning
  <2> QED BY <2>1, <2>2, <1>c DEF Counting, Windows, Failures, Never
<1>3. CASE RedialFails
  <2>1. /\ main' = main /\ main \notin Beginning /\ main # "cleanup"
        /\ s2c' \in {"ended", "backoff"}
    BY <1>3 DEF RedialFails, Threads, Beginning
  <2>2. left'["s2c"] \in Nat /\ left'["s2c"] <= MaxBackoff
    BY <1>3, NextBackoffType, <1>d DEF RedialFails, Times
  <2>3. CASE ResolveFails
    <3>1. /\ failAge' \in Nat /\ lastAge' = failAge'
          /\ ended' \in {"no", "dns"}
          /\ ended' = "dns" => limits.dns > 0 /\ lastAge' >= limits.dns
          /\ ended' = "no" /\ limits.dns > 0 => dnsAge' = failAge' /\ lastAge' < limits.dns
      BY <1>a, <2>3, ResolveFailsRight DEF Counting
    <3>2. Windows'
      BY <2>1, <2>2, <3>1, <1>c DEF Windows, Never, Beginning
    <3>3. Failures'
      <4> SUFFICES ASSUME Alive', limits.dns > 0
                   PROVE  Failures'
        BY <1>c DEF Failures
      <4>1. failAge' \in Nat /\ lastAge' = failAge'
        BY <3>1
      <4>2. lastAge' \in 0 .. failAge'
        BY <4>1
      <4>3. \A x, y \in Nat : x <= y => failAge' + x <= lastAge' + y
        BY <4>1, SumMonotone
      <4>4. LongestWait + MaxResolve \in Nat /\ 0 <= LongestWait + MaxResolve
        BY <1>c
      <4> QED BY <2>1, <2>2, <3>1, <4>1, <4>2, <4>3, <4>4, <1>c, <1>d DEF Failures,
           Within, Alive, Beginning
    <3> QED BY <3>2, <3>3 DEF Counting
  <2>4. CASE Resolved
    <3>1. failAge' = Never /\ lastAge' = Never /\ dnsAge' = Never /\ ended' = "no"
      BY <2>4, <1>a DEF Resolved, Alive
    <3> QED BY <2>1, <2>2, <3>1, <1>c DEF Counting, Windows, Failures, Never, Beginning
  <2> QED BY <1>3, <2>3, <2>4 DEF RedialFails, DialFails
<1> QED BY <1>1, <1>2, <1>3

\* Time: whoever waits has something left of the wait.
LEMMA CountingTick ==
    ASSUME Timed, Counting, Tick
    PROVE  Counting'
<1> USE DEF Timed
<1>c. /\ limits.dns \in Nat /\ LongestWait \in Nat /\ MaxResolve \in Nat /\ limits' = limits
      /\ MaxStartDelay \in Nat /\ MaxBackoff \in Nat /\ Horizon \in Nat
      /\ limits.dns + LongestWait + MaxResolve < Horizon
  BY ConfigsAssumption, TimesAssumption DEF Places, LongestWait, Tick
<1>1. UNCHANGED <<main, s2c, ended, lastAge>> /\ Alive
  BY DEF Tick
<1>2. \A t \in {"main", "s2c"} :
         left[t] \in Nat /\ left'[t] = IF left[t] > 0 THEN left[t] - 1 ELSE 0
  BY DEF Tick, Times
<1>3. Windows'
  <2>1. failAge = Never => failAge' = Never
    BY OlderType DEF Tick
  <2>2. failAge # Never => failAge' # Never
    BY OlderType DEF Tick, Times, Never
  <2> QED BY <1>1, <1>2, <2>1, <2>2, <1>c DEF Counting, Windows, Alive
<1>4. ASSUME limits.dns > 0, failAge' # Never PROVE Failures'
  <2>1. failAge \in Nat /\ lastAge \in 0 .. failAge /\ lastAge < limits.dns
        /\ Within(0, LongestWait + MaxResolve) /\ dnsAge = failAge
    <3>1. failAge # Never
      BY <1>4, OlderType DEF Tick
    <3> QED BY <3>1, <1>1, <1>4 DEF Counting, Failures, Times
  <2>2. failAge' = failAge + 1 /\ dnsAge' = failAge + 1
    BY <2>1, <1>c, OlderType DEF Tick, Within
  <2>3. s2c # "recv" /\ (s2c = "none" => main \in Beginning)
    BY <2>1, <1>1 DEF Counting, Windows, Never, Tick, MainWaits, Beginning
  <2>4. s2c # "ended"
    BY DEF Tick, MainWaits, C2sWaits, Threads, Places
  <2>5. \/ main \in {"sleep", "dial"} /\ left["main"] > 0 /\ s2c = "none"
        \/ s2c \in {"backoff", "dial"} /\ left["s2c"] > 0 /\ main \notin {"sleep", "dial"}
    BY <2>3, <2>4 DEF Tick, MainWaits, S2cWaits, Threads, Beginning, Places
  <2>6. CASE main \in {"sleep", "dial"} /\ left["main"] > 0 /\ s2c = "none"
    <3>1. /\ main = "sleep" => failAge + left["main"] <= lastAge + MaxStartDelay
          /\ main = "dial" => failAge + left["main"] <= lastAge + (MaxStartDelay + MaxResolve)
      BY <2>1, <1>1, <1>4 DEF Counting, Failures, Within, Never
    <3>2. left'["main"] = left["main"] - 1 /\ left["main"] \in Nat
      BY <1>2, <2>6
    <3> QED BY <2>1, <2>2, <2>6, <3>1, <3>2, <1>1, <1>c DEF Failures, Within, LongestWait
  <2>7. CASE s2c \in {"backoff", "dial"} /\ left["s2c"] > 0 /\ main \notin {"sleep", "dial"}
    <3>1. /\ s2c = "backoff" => failAge + left["s2c"] <= lastAge + MaxBackoff
          /\ s2c = "dial" => failAge + left["s2c"] <= lastAge + (MaxBackoff + MaxResolve)
      BY <2>1, <1>1, <1>4 DEF Counting, Failures, Within, Never
    <3>2. left'["s2c"] = left["s2c"] - 1 /\ left["s2c"] \in Nat
      BY <1>2, <2>7
    <3> QED BY <2>1, <2>2, <2>7, <3>1, <3>2, <1>1, <1>c DEF Failures, Within, LongestWait
  <2> QED BY <2>5, <2>6, <2>7
<1>5. ASSUME limits.dns > 0, failAge' = Never PROVE Failures'
  <2>1. failAge = Never
    <3>1. failAge \in Nat => Older(failAge) \in Nat
      BY OlderType
    <3>2. failAge' = Older(failAge) /\ failAge \in Nat \cup {Never}
      BY DEF Tick, Times
    <3> QED BY <3>1, <3>2, <1>5 DEF Never
  <2>2. dnsAge' = Never /\ lastAge' = lastAge /\ lastAge < limits.dns
    BY <2>1, <1>1, <1>5, OlderType DEF Counting, Failures, Tick
  <2> QED BY <2>2, <1>5, <1>c DEF Failures
<1>6. limits.dns = 0 => Failures'
  BY <1>c DEF Failures
<1> QED BY <1>3, <1>4, <1>5, <1>6, <1>c DEF Counting

LEMMA CountingStep ==
    ASSUME Timed, Counting, StartNext
    PROVE  Counting'
<1> USE DEF Timed
<1>c. MaxResolve \in Nat /\ MaxStartDelay \in Nat /\ MaxBackoff \in Nat
  BY TimesAssumption
<1>k. Windows /\ Failures
  BY DEF Counting
<1>1. CASE FirstDialFails \/ FirstDialSucceeds \/ RedialFails \/ RedialSucceeds
  BY <1>1, CountingDial
<1>2. CASE Tick
  BY <1>2, CountingTick
<1>3. CASE Listen \/ Awake
  <2>1. /\ left'["s2c"] = left["s2c"] /\ s2c = "none" /\ s2c' = s2c
        /\ main' = "dial" => left'["main"] = MaxResolve
        /\ main' \in {"dial", "cleanup"} /\ (main' = "cleanup" => left' = left)
        /\ UNCHANGED <<limits, dnsAge, failAge, lastAge, ended>>
    BY <1>3, <1>c DEF Listen, Awake, Times, MainAt, dns, Threads, Beginning
  <2>2. Windows'
    BY <2>1, <1>k, <1>c DEF Windows, Beginning
  <2>3. Failures'
    <3> SUFFICES ASSUME Alive, limits.dns > 0, failAge # Never, main' = "dial"
                 PROVE  Within(left'["main"], MaxStartDelay + MaxResolve)
      BY <2>1, <1>k DEF Failures, Within, Alive
    <3>1. main = "sleep" /\ left["main"] = 0
      BY <1>3, <2>1, <1>k DEF Listen, Awake, Windows, MainAt
    <3>2. failAge + 0 <= lastAge + MaxStartDelay /\ failAge \in Nat /\ lastAge \in Nat
      BY <3>1, <1>k DEF Failures, Within, Times, Never
    <3> QED BY <2>1, <3>2, <1>c DEF Within
  <2> QED BY <2>2, <2>3 DEF Counting
<1>4. CASE ReceiveEnds
  <2>1. /\ failAge = Never /\ lastAge = Never
        /\ UNCHANGED <<limits, main, dnsAge, failAge, lastAge, ended>>
        /\ left'["main"] = left["main"] /\ s2c' \in {"ended", "backoff"}
        /\ s2c' = "backoff" => left'["s2c"] <= MaxBackoff
    BY <1>4, <1>k, <1>c DEF ReceiveEnds, Windows, Times, dns
  <2> QED BY <2>1, <1>4, <1>k DEF ReceiveEnds, Counting, Windows, Failures, Alive
<1>5. CASE CloseOld
  <2>1. /\ UNCHANGED <<limits, main, dnsAge, failAge, lastAge, ended>> /\ Alive
        /\ left'["main"] = left["main"] /\ s2c = "backoff" /\ left["s2c"] = 0
        /\ s2c' \in {"ended", "dial"} /\ (s2c' = "dial" => left'["s2c"] = MaxResolve)
    BY <1>5 DEF CloseOld, Times, dns
  <2>2. Windows'
    BY <2>1, <1>k, <1>c DEF Windows
  <2>3. Failures'
    <3> SUFFICES ASSUME limits.dns > 0, failAge # Never, s2c' = "dial"
                 PROVE  Within(left'["s2c"], MaxBackoff + MaxResolve)
      BY <2>1, <1>k DEF Failures, Within, Alive
    <3>1. failAge + 0 <= lastAge + MaxBackoff /\ failAge \in Nat /\ lastAge \in Nat
      BY <2>1, <1>k DEF Failures, Within, Times, Never
    <3> QED BY <2>1, <3>1, <1>c DEF Within
  <2> QED BY <2>2, <2>3 DEF Counting
<1>6. CASE ControlInit \/ TimerInit \/ StartC2s \/ StartS2c \/ EnterLoop \/ LeaveLoop
           \/ ShutdownSockets \/ Join
  <2>1. /\ UNCHANGED <<limits, left, dnsAge, failAge, lastAge, ended>>
        /\ main \notin Beginning /\ main' \notin {"listen", "dial", "sleep"}
        /\ main # "cleanup"
        /\ s2c' = s2c \/ (s2c = "none" /\ s2c' = "recv")
    BY <1>6 DEF ControlInit, TimerInit, StartC2s, StartS2c, EnterLoop, LeaveLoop,
                ShutdownSockets, Join, MainAt, dns, Beginning, Threads
  <2>2. Windows'
    BY <2>1, <1>k DEF Windows, Beginning
  <2>3. Failures'
    BY <2>1, <1>k DEF Failures, Within, Alive, Beginning
  <2> QED BY <2>2, <2>3 DEF Counting
<1>7. CASE Cleanup \/ C2sEnds \/ Terminate \/ Over
  <2>1. /\ UNCHANGED <<limits, main, s2c, left, dnsAge, failAge, lastAge>>
        /\ ended' = ended \/ ended' \in {"failed", "stopped", "killed"}
    BY <1>7 DEF Cleanup, C2sEnds, Terminate, Over, startVars, threads, dns
  <2>2. Windows'
    BY <2>1, <1>k DEF Windows
  <2>3. Failures'
    BY <2>1, <1>k DEF Failures, Within, Alive
  <2> QED BY <2>2, <2>3 DEF Counting
<1> QED BY <1>1, <1>2, <1>3, <1>4, <1>5, <1>6, <1>7 DEF StartNext, MainStep, S2cStep

-----------------------------------------------------------------------------
(* The stop.                                                               *)

LEMMA StoppingStep ==
    ASSUME Timed, Windows, Stopping, StartNext
    PROVE  Stopping'
<1> USE DEF Timed
<1>c. MaxResolve \in Nat /\ MaxBackoff \in Nat
  BY TimesAssumption
<1>1. CASE MainStep
  <2>1. /\ UNCHANGED <<stopAge, left>> \/ main \in Beginning
        /\ stopAge' = stopAge /\ (s2c' = s2c \/ s2c' = "recv")
        /\ main \notin Beginning \cup {"control"} => main' \notin Beginning \cup {"control"}
        /\ (stopped' = stopped /\ signal' = signal) \/ stopped'
    BY <1>1
       DEF MainStep, Listen, FirstDialFails, FirstDialSucceeds, Awake, ControlInit,
           TimerInit,
           StartC2s, StartS2c, EnterLoop, LeaveLoop, ShutdownSockets, Join, Cleanup, MainAt,
           threads, Beginning
  <2> QED BY <2>1 DEF Stopping
<1>2. CASE Terminate
  <2>1. CASE main \in Beginning \cup {"control"} /\ stopAge' = stopAge
    <3>1. stopAge = Never
      BY <2>1 DEF Stopping
    <3> QED BY <1>2, <2>1, <3>1 DEF Terminate, Stopping, threads
  <2>2. CASE /\ stopAge' = 0 /\ signal' = "pending"
             /\ main \notin {"listen", "dial", "sleep", "control"}
    <3>1. s2c \in {"backoff", "dial"} => 0 + left["s2c"] <= MaxBackoff + MaxResolve
      BY <1>c DEF Windows, Times
    <3> QED BY <1>2, <2>2, <3>1, <1>c DEF Terminate, Stopping, threads, Beginning
  <2> QED BY <1>2, <2>1, <2>2 DEF Terminate, Beginning
<1>3. CASE ReceiveEnds \/ CloseOld \/ RedialFails \/ RedialSucceeds
  <2>1. /\ UNCHANGED <<main, stopped, signal, stopAge>>
        /\ stopped => s2c' \notin {"backoff", "dial"}
        /\ s2c' \in {"backoff", "dial"} =>
              left'["s2c"] \in Nat /\ left'["s2c"] <= MaxBackoff + MaxResolve
    BY <1>3, <1>c, NextBackoffType
       DEF ReceiveEnds, CloseOld, RedialFails, RedialSucceeds, Times
  <2> QED BY <2>1, <1>c DEF Stopping
<1>4. CASE C2sEnds \/ Over
  BY <1>4 DEF C2sEnds, Over, startVars, threads, Stopping
<1>5. CASE Tick
  <2>1. /\ UNCHANGED <<main, s2c, c2s, stopped, signal>> /\ stopAge' = Older(stopAge)
        /\ \A t \in {"main", "s2c"} :
              left[t] \in Nat /\ left'[t] = IF left[t] > 0 THEN left[t] - 1 ELSE 0
    BY <1>5 DEF Tick, Times
  <2>2. stopAge = Never => stopAge' = Never
    BY <2>1, OlderType
  <2>3. CASE stopAge # Never
    <3>1. stopped
      BY <1>5, <2>3 DEF Tick, MainWaits, Stopping, Threads, Beginning
    <3>2. main = "join" /\ c2s # "run" /\ s2c \notin {"none", "ended", "recv"}
      BY <1>5, <3>1 DEF Tick, MainWaits, C2sWaits, S2cWaits, Threads, Places
    <3>3. s2c \in {"backoff", "dial"} /\ left["s2c"] > 0
      BY <1>5, <3>2 DEF Tick, S2cWaits, Places
    <3>4. stopAge + left["s2c"] <= MaxBackoff + MaxResolve /\ stopAge \in Nat
      BY <2>3, <3>3 DEF Stopping, Times
    <3>5. stopAge' \in Nat /\ stopAge' <= stopAge + 1 /\ left'["s2c"] = left["s2c"] - 1
      BY <2>1, <3>3, <3>4, OlderType
    <3>6. /\ stopAge' <= MaxBackoff + MaxResolve
          /\ stopAge' + left'["s2c"] <= MaxBackoff + MaxResolve
      BY <2>1, <3>3, <3>4, <3>5, <1>c
    <3> QED BY <2>1, <2>3, <3>1, <3>2, <3>6 DEF Stopping, Beginning
  <2> QED BY <2>2, <2>3 DEF Stopping
<1> QED BY <1>1, <1>2, <1>3, <1>4, <1>5 DEF StartNext, S2cStep

-----------------------------------------------------------------------------
(* The theorems.                                                           *)

LEMMA InitStartIInv ==
    ASSUME StartInit
    PROVE  StartIInv
<1>1. Kernel /\ Owned /\ NotYetOpen /\ Threads
  BY HoldingInit DEF Holding
<1>2. Times
  BY TimesAssumption DEF StartInit, Times
<1>3. Places
  BY DEF StartInit, Places
<1>4. Windows /\ Stopping
  BY DEF StartInit, Windows, Stopping, Beginning
<1>5. Failures
  <2>1. limits.dns \in Nat
    BY ConfigsAssumption DEF StartInit
  <2> QED BY <2>1 DEF StartInit, Failures, Never
<1> QED BY <1>1, <1>2, <1>3, <1>4, <1>5, TypeParts DEF StartIInv

LEMMA StepStartIInv ==
    ASSUME StartIInv, [StartNext]_startVars
    PROVE  StartIInv'
<1>k. Kernel /\ Times /\ Places
  BY TypeParts DEF StartIInv
<1>1. CASE StartNext
  <2>1. Kernel' /\ Owned' /\ NotYetOpen' /\ Threads'
    BY <1>k, HoldingStep DEF StartIInv, Holding
  <2>2. Times' /\ Places'
    BY <1>1, <1>k, TimesStep, PlacesStep
  <2>3. Windows' /\ Failures'
    BY <1>1, <1>k, CountingStep DEF StartIInv, Timed, Counting
  <2>4. Stopping'
    BY <1>1, <1>k, StoppingStep DEF StartIInv, Timed
  <2>5. TypeOK'
    BY <2>1, <2>2 DEF TypeOK, Kernel, Times, Places
  <2> QED BY <2>1, <2>3, <2>4, <2>5 DEF StartIInv
<1>2. CASE UNCHANGED startVars
  BY <1>2 DEF startVars, dns, threads, StartIInv, TypeOK, Owned, Held, Full, NotYetOpen,
              Threads, Windows,
              Failures, Stopping, Within, Alive
<1> QED BY <1>1, <1>2

THEOREM StartupInvariant == StartSpec => []StartIInv
<1>1. StartInit => StartIInv
  BY InitStartIInv
<1>2. StartIInv /\ [StartNext]_startVars => StartIInv'
  BY StepStartIInv
<1> QED BY <1>1, <1>2, PTL DEF StartSpec

\* The process ends for DNS when resolutions have failed for the configured
\* time and not before, and not much later: see DnsExitRight in Startup.tla,
\* of proxy_net.c:28.  The window of the code and the failures are one age.
THEOREM StartupDnsExitRight == StartSpec => []DnsExitRight
<1>1. StartIInv => DnsExitRight
  <2> SUFFICES ASSUME StartIInv PROVE DnsExitRight
    OBVIOUS
  <2>1. ended = "dns" => limits.dns > 0 /\ lastAge >= limits.dns
    BY DEF StartIInv, Windows
  <2>2. ASSUME Alive, limits.dns > 0
        PROVE  lastAge < limits.dns /\ failAge < limits.dns + LongestWait + MaxResolve
    <3>1. limits.dns \in Nat /\ LongestWait \in Nat /\ MaxResolve \in Nat
      BY ConfigsAssumption, TimesAssumption DEF StartIInv, TypeOK, LongestWait
    <3>2. lastAge < limits.dns
      BY <2>2 DEF StartIInv, Failures
    <3>3. CASE failAge = Never
      BY <3>1, <3>2, <3>3, <2>2 DEF Never
    <3>4. CASE failAge # Never
      <4>1. /\ failAge \in Nat /\ lastAge \in Nat
            /\ failAge + 0 <= lastAge + (LongestWait + MaxResolve)
        BY <2>2, <3>4 DEF StartIInv, TypeOK, Failures, Within
      <4> QED BY <3>1, <3>2, <4>1
    <3> QED BY <3>3, <3>4
  <2> QED BY <2>1, <2>2 DEF DnsExitRight
<1> QED BY <1>1, StartupInvariant, PTL

\* After a SIGTERM only what is left of a backoff and a dial of the s2c thread
\* keeps the process: see StopWithin in Startup.tla, of proxy_reconnect.c and
\* proxy_shutdown.c.
THEOREM StartupStopWithin == StartSpec => []StopWithin
<1>1. StartIInv => StopWithin
  BY TimesAssumption DEF StartIInv, Stopping, StopWithin, Never
<1> QED BY <1>1, StartupInvariant, PTL

=============================================================================
