------------------------------ MODULE SessionMap ------------------------------
(***************************************************************************)
(* What the session table promises its two users, without slots, probes or *)
(* seqlock: a map from sender indices to client addresses.  A put unbinds  *)
(* its index, and perhaps one other to make room, and binds it a moment    *)
(* later; a lookup answers with something its index was bound to while it  *)
(* ran, provided that not more than one put began meanwhile, and comes     *)
(* back empty only if there was a moment at which the index was unbound.   *)
(***************************************************************************)
EXTENDS Integers

CONSTANTS Index, Addr, NoAddr

VARIABLES
    map,        \* the bindings, as a set of pairs
    binding,    \* the pair of the put in progress, if there is one
    ask,        \* the lookup in progress: its phase, what it asks, its answer
    seen        \* history: what the index asked for was bound to since

vars == <<map, binding, ask, seen>>

NoAsk == [phase |-> "idle", op |-> "none", index |-> 0, puts |-> 0, addr |-> NoAddr]

\* The right answers for i under the bindings m.
Answers(m, i) ==
    {x \in Addr \cup {NoAddr} :
        IF x = NoAddr THEN \A a \in Addr : <<i, a>> \notin m ELSE <<i, x>> \in m}

\* A lookup that is under way has seen one more map.
Watch == seen' = IF ask.op = "lookup" THEN seen \cup Answers(map', ask.index) ELSE seen

Put(i, a) ==
    /\ binding = {}
    /\ binding' = {<<i, a>>}
    /\ \E j \in Index : map' = {p \in map : p[1] # i /\ p[1] # j}
    /\ ask' = IF ask.phase = "idle" THEN ask ELSE [ask EXCEPT !.puts = @ + 1]
    /\ Watch

Bind ==
    /\ binding # {}
    /\ binding' = {}
    /\ map' = map \cup binding
    /\ Watch
    /\ UNCHANGED ask

\* A lookup of an index, or a search for the sole client.
Ask(op, i) ==
    /\ ask.phase = "idle"
    /\ ask' = [phase |-> "asked", op |-> op, puts |-> 0, addr |-> NoAddr,
               index |-> IF op = "lookup" THEN i ELSE 0]
    /\ seen' = IF op = "lookup" THEN Answers(map, i) ELSE {}
    /\ UNCHANGED <<map, binding>>

Answer(a) ==
    /\ ask.phase = "asked"
    /\ ask.op = "lookup" /\ ask.puts <= 1 => a \in seen
    /\ ask' = [phase |-> "hit", op |-> ask.op, index |-> ask.index,
               puts |-> ask.puts, addr |-> a]
    /\ UNCHANGED <<map, binding, seen>>

Miss ==
    /\ ask.phase = "asked"
    /\ ask.op = "lookup" => NoAddr \in seen
    /\ ask' = [ask EXCEPT !.phase = "miss"]
    /\ UNCHANGED <<map, binding, seen>>

Done ==
    /\ ask.phase \in {"hit", "miss"}
    /\ ask' = NoAsk
    /\ seen' = {}
    /\ UNCHANGED <<map, binding>>

Init == map = {} /\ binding = {} /\ ask = NoAsk /\ seen = {}

Next ==
    \/ \E i \in Index, a \in Addr : Put(i, a)
    \/ Bind
    \/ \E op \in {"lookup", "sole"}, i \in Index : Ask(op, i)
    \/ \E a \in Addr : Answer(a)
    \/ Miss
    \/ Done

Spec == Init /\ [][Next]_vars
=============================================================================
