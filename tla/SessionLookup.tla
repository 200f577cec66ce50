---------------------------- MODULE SessionLookup ----------------------------
(***************************************************************************)
(* The session table implements SessionMap.  A history variable is added   *)
(* to SessionTable that collects what the index looked up is bound to,     *)
(* step by step, while the lookup runs; with it the table maps to the map  *)
(* state by state.                                                         *)
(***************************************************************************)
EXTENDS SessionTable

VARIABLE seen

\* The bindings a reader can find: the entries that are shown.
Shown ==
    {p \in Index \X Addr : \E s \in Slot : /\ valid[s]
                                           /\ sender_index[s] = p[1]
                                           /\ addr_lo[s] = p[2]}

\* Where the reader is, as its caller sees it.
Phase ==
    CASE rpc = "idle" -> "idle"
      [] rpc \in {"routed", "ifvalid", "ifindex", "store"} -> "hit"
      [] rpc = "dropped" -> "miss"
      [] OTHER -> "asked"

Map == INSTANCE SessionMap WITH
    map <- Shown,
    binding <- IF wpc = "idle" THEN {} ELSE {<<put.index, put.addr>>},
    ask <- [phase |-> Phase,
            op |-> rd.op,
            index |-> IF rd.op = "lookup" THEN rd.index ELSE 0,
            puts |-> rd.overlaps,
            addr |-> IF Phase = "hit" THEN rd.foundlo ELSE NoAddr],
    seen <- seen

\* What a lookup sees of a step: the answers after it, and those before it if
\* the lookup was under way.
Sees ==
    seen' = IF rd'.op # "lookup"
               THEN {}
               ELSE IF rpc = "idle" THEN Map!Answers(Shown', rd'.index)
                    ELSE seen \cup Map!Answers(Shown', rd.index)

lookupVars == <<vars, seen>>

LookupInit == Init /\ seen = {}
LookupNext == Next /\ Sees
LookupSpec == LookupInit /\ [][LookupNext]_lookupVars
FairLookupSpec == LookupSpec /\ WF_vars(PutStep) /\ WF_vars(ReadStep)

\* The table is a map: what slots, probes, the eviction of an entry and the
\* seqlock amount to for the two threads that use it (session_table.c:49-129).
\* In particular a packet that returns while one put is under way goes to an
\* address its index had during the lookup, and is dropped only if the index
\* was unbound for a moment of it.
IsMap == Map!Spec
=============================================================================
