------------------------------- MODULE MCConfig -------------------------------
(* A small instance of Config: files over two alphabets of lines, and the   *)
(* environments and command lines that compete with them.                   *)
EXTENDS Config, TLC

CONSTANTS k1, k2, k3, s1, s2, zero, unreadable, blank, none

Header(name) == [header |-> TRUE, key |-> name, val |-> none]
Setting(key, val) == [header |-> FALSE, key |-> key, val |-> val]

Seg(kind, n) == [kind |-> kind, n |-> n]

MCPublicOf == (s1 :> k1) @@ (s2 :> k3)

MCLines ==
    {Header("Interface"), Header("Peer"), Header("Other"),
     Setting("PrivateKey", s1), Setting("ListenPort", 1),
     Setting("Jmin", 3),
     Setting("I1", <<Seg("b", 1000), Seg("t", 0), Seg("c", 0)>>),
     Setting("PublicKey", k1), Setting("PublicKey", k2), Setting("PublicKey", unreadable),
     Setting("Endpoint", "r1"), Setting("PersistentKeepalive", 25),
     Setting("PersistentKeepalive", 0)}

Base == [LISTEN |-> [host |-> "l1", port |-> 7], REMOTE |-> "r2", SERVER_PUB |-> k3]

MCEnvs ==
    {e @@ Base : e \in
        {[CLIENT_PUB |-> k2, SERVER_PUB |-> s] : s \in {zero, blank}}
        \cup {[CLIENT_PUB |-> k2, MODE |-> m] : m \in {"client", "server", unreadable, blank}}
        \cup {[PRIVATE_KEY |-> s2, CLIENT_PUB |-> c, Jc |-> 2, Jmin |-> lo, Jmax |-> hi] :
                c \in {k2, zero, blank}, lo \in {0, 2, 65534}, hi \in {0, 1, 2, 65534}}
        \cup {[CLIENT_PUB |-> k2, SILENT |-> t, EXIT |-> x] :
                t \in {0, 20, blank}, x \in {-1, 0, 20, 60, 61, 600}}
        \cup {[MODE |-> "server", CLIENT_PUBS |-> c, CLIENT_PUBS_FILE |-> f] :
                c \in {<<>>, <<k1>>, <<k1, k2, k1>>, <<unreadable>>},
                f \in {<<k2>>, <<k3>>, unreadable, blank}}
        \cup {[CLIENT_PUB |-> k2, I1 |-> a, I3 |-> b] :
                a \in {<<Seg("r", 65537)>>, <<Seg("b", 1500)>>, unreadable},
                b \in {<<Seg("rc", 1496), Seg("c", 0)>>, <<Seg("b", 1400), Seg("rd", 101)>>,
                       <<Seg("t", 0), Seg("t", 0), Seg("t", 0), Seg("t", 0)>>}}
        \cup {[CLIENT_PUB |-> k2, S1 |-> s, H4 |-> h] :
                s \in {0, -1, 1352, 1353, blank},
                h \in {[min |-> 4, max |-> 4], [min |-> 3, max |-> 8]}}
        \cup {[CLIENT_PUB |-> k2, SRC_PORT |-> p, DRIFT |-> d] :
                p \in {0, -7, 70000, unreadable}, d \in {0, 2}}}

MCFlagSets ==
    {Empty, [listen |-> [host |-> "l2", port |-> 8], mode |-> "gateway", srcPort |-> 9], [remote |-> unreadable]}

=============================================================================
