-------------------------- MODULE PanelAccessProofs --------------------------
(***************************************************************************)
(* Proofs about the limiter of logins, the settings file and the one-time  *)
(* links of the panel, for every number of threads, settings, values and   *)
(* links.                                                                  *)
(***************************************************************************)
EXTENDS PanelAccess, FiniteSetTheorems, TLAPS

Requests ==
    [at : {"idle", "verify", "recheck"}]
    \cup [at : {"unblock"}, then : {"verify", "idle"}]
    \cup [at : {"count"}, held : BOOLEAN]
    \cup [at : {"load"}, key : Keys, val : Values]
    \cup [at : {"open", "write"}, key : Keys, val : Values, new : Settings]
    \cup [at : {"expiry"}, token : Tokens, late : BOOLEAN, left : Nat]
    \cup [at : {"serve"}, token : Tokens, late : BOOLEAN]

TypeOK ==
    /\ req \in [Workers -> Requests]
    /\ file \in Settings \cup {Torn} /\ acked \in Settings
    /\ DOMAIN links \subseteq Tokens /\ \A t \in DOMAIN links : links[t] \in Nat
    /\ made \in SUBSET Tokens /\ spent \in SUBSET Tokens

\* A link that was answered, or is about to be, is not in the store, and comes
\* back to it neither: it was made before.
LinksInv ==
    /\ DOMAIN links \subseteq made /\ spent \subseteq made
    /\ DOMAIN links \cap spent = {}
    /\ \A w \in Workers :
          /\ At(w, "expiry") => req[w].token \in made /\ ~req[w].late
          /\ At(w, "serve") => /\ req[w].token \in made \ DOMAIN links
                               /\ ~req[w].late

\* As long as saves did not meet, the one that is on its way holds what was
\* acknowledged and its own change.
Change(r) == [acked EXCEPT ![r.key] = r.val]

SavesInv ==
    ~disturbed =>
        /\ \A v, w \in Workers : Saving(v) /\ Saving(w) => v = w
        /\ (\A w \in Workers : ~At(w, "write")) => file = acked
        /\ \A w \in Workers : req[w].at \in {"open", "write"} => req[w].new = Change(req[w])
        /\ \A w \in Workers : At(w, "write") => file = Torn

-----------------------------------------------------------------------------
(* Types.                                                                  *)

LEMMA InitTypeOK == Init => TypeOK
BY DEF Init, TypeOK, Defaults, Settings, Idle, Requests

LEMMA LessType == \A n \in Nat : Less(n) \in Nat
BY DEF Less

LEMMA RequestTypeOK ==
    ASSUME TypeOK, NEW w \in Workers, Request(w)
    PROVE  TypeOK'
<1> USE DEF TypeOK, Requests, Go, At, Idle
<1>1. CASE Check(w) \/ CheckAgain(w)
  BY <1>1 DEF Check, CheckAgain, Checked
<1>2. CASE CheckUnblock(w)
  BY <1>2 DEF CheckUnblock, Orphan
<1>3. CASE LoginRight(w)
  BY <1>3 DEF LoginRight, Orphan
<1>4. CASE LoginWrong(w) \/ RecordFailed(w)
  <2>1. \E r \in [at : {"count"}, held : BOOLEAN] \cup [at : {"recheck"}] :
           req' = [req EXCEPT ![w] = r]
    <3>1. CASE LoginWrong(w)
      BY <3>1 DEF LoginWrong
    <3>2. CASE RecordFailed(w)
      BY <3>2 DEF RecordFailed
    <3> QED BY <1>4, <3>1, <3>2
  <2>2. req' \in [Workers -> Requests]
    BY <2>1
  <2>3. UNCHANGED <<file, acked, links, made, spent>>
    BY <1>4 DEF LoginWrong, RecordFailed
  <2> QED BY <2>2, <2>3
<1>5. CASE SaveBegin(w)
  BY <1>5 DEF SaveBegin
<1>6. CASE SaveLoad(w)
  <2>1. req[w] \in [at : {"load"}, key : Keys, val : Values]
    BY <1>6 DEF SaveLoad
  <2>2. Updated(req[w].key, req[w].val) \in Settings
    BY <2>1 DEF Updated, Loaded, Defaults, Settings
  <2> QED BY <1>6, <2>1, <2>2 DEF SaveLoad
<1>7. CASE SaveOpen(w)
  BY <1>7 DEF SaveOpen
<1>8. CASE SaveWrite(w)
  <2>1. req[w] \in [at : {"write"}, key : Keys, val : Values, new : Settings]
    BY <1>8 DEF SaveWrite
  <2> QED BY <1>8, <2>1 DEF SaveWrite, Settings
<1>9. CASE CreateLink(w)
  BY <1>9, LimitsAssumption DEF CreateLink
<1>10. CASE LinkGet(w)
  BY <1>10 DEF LinkGet
<1>11. CASE LinkExpired(w) \/ LinkConsume(w)
  BY <1>11 DEF LinkExpired, LinkConsume, Pop
<1>12. CASE LinkServe(w)
  BY <1>12 DEF LinkServe
<1> QED BY <1>1, <1>2, <1>3, <1>4, <1>5, <1>6, <1>7, <1>8, <1>9, <1>10, <1>11, <1>12
        DEF Request

LEMMA StepTypeOK ==
    ASSUME TypeOK, [Next]_vars
    PROVE  TypeOK'
<1>1. CASE Tick
  <2>1. req' \in [Workers -> Requests]
    BY <1>1, LessType DEF TypeOK, Tick, Requests, At
  <2> QED BY <1>1, <2>1, LessType DEF TypeOK, Tick
<1>2. CASE Restart
  BY <1>2 DEF Restart, TypeOK, Requests, Idle
<1>3. CASE UNCHANGED vars
  BY <1>3 DEF vars, TypeOK
<1> QED BY <1>1, <1>2, <1>3, RequestTypeOK DEF Next

\* A step of a thread leaves the requests of the others, but for the entry a
\* pop takes from them.
LEMMA GoOthers ==
    ASSUME TypeOK, NEW w \in Workers, NEW r, Go(w, r)
    PROVE  req'[w] = r /\ \A v \in Workers \ {w} : req'[v] = req[v]
BY DEF TypeOK, Go

LEMMA OrphanOthers ==
    ASSUME TypeOK, NEW w \in Workers, NEW r,
           req' = [v \in Workers |-> IF v = w THEN r ELSE Orphan(req[v])]
    PROVE  /\ req'[w] = r
           /\ \A v \in Workers \ {w} :
                 \/ req'[v] = req[v]
                 \/ req[v].at = "count" /\ req'[v].at = "count"
BY DEF TypeOK, Orphan

Reading == {"idle", "verify", "recheck", "unblock", "count"}

\* A login touches neither the settings nor the links.
LEMMA LoginStep ==
    ASSUME TypeOK, NEW w \in Workers,
           \/ Check(w) \/ CheckUnblock(w) \/ LoginRight(w) \/ LoginWrong(w)
           \/ RecordFailed(w) \/ CheckAgain(w)
    PROVE  /\ UNCHANGED <<file, acked, disturbed, links, made, spent>>
           /\ \A v \in Workers :
                 req'[v] = req[v] \/ (req[v].at \in Reading /\ req'[v].at \in Reading)
<1> USE DEF Reading
<1>1. UNCHANGED <<file, acked, disturbed, links, made, spent>>
  BY DEF Check, CheckUnblock, LoginRight, LoginWrong, RecordFailed, CheckAgain
<1>2. CASE Check(w) \/ CheckAgain(w)
  <2>1. PICK r : Go(w, r) /\ r.at \in Reading
    <3>1. CASE Check(w)
      BY <3>1 DEF Check, Checked
    <3>2. CASE CheckAgain(w)
      BY <3>2 DEF CheckAgain, Checked, Idle
    <3> QED BY <1>2, <3>1, <3>2
  <2>2. req[w].at \in Reading
    BY <1>2 DEF Check, CheckAgain, At
  <2> QED BY <1>1, <2>1, <2>2, GoOthers
<1>3. CASE LoginWrong(w)
  <2>1. Go(w, [at |-> "count", held |-> TRUE]) /\ req[w].at = "verify"
    BY <1>3 DEF LoginWrong, At
  <2> QED BY <1>1, <2>1, GoOthers
<1>4. CASE RecordFailed(w)
  <2>1. Go(w, [at |-> "recheck"]) /\ req[w].at = "count"
    BY <1>4 DEF RecordFailed, At
  <2> QED BY <1>1, <2>1, GoOthers
<1>5. CASE LoginRight(w)
  <2>1. /\ req' = [v \in Workers |-> IF v = w THEN Idle ELSE Orphan(req[v])]
        /\ req[w].at = "verify"
    BY <1>5 DEF LoginRight, At
  <2> QED BY <1>1, <2>1, OrphanOthers DEF Idle
<1>6. CASE CheckUnblock(w)
  <2> DEFINE r == [at |-> req[w].then]
  <2>1. /\ req' = [v \in Workers |-> IF v = w THEN r ELSE Orphan(req[v])]
        /\ req[w].at = "unblock"
    BY <1>6 DEF CheckUnblock, At
  <2>2. req[w].then \in {"verify", "idle"}
    BY <2>1 DEF TypeOK, Requests
  <2> HIDE DEF r
  <2>3. req'[w] = r /\ r.at \in Reading
    BY <2>1, <2>2, OrphanOthers DEF r
  <2> QED BY <1>1, <2>1, <2>3, OrphanOthers
<1> QED BY <1>2, <1>3, <1>4, <1>5, <1>6

-----------------------------------------------------------------------------
(* Links.                                                                  *)

LEMMA LinksStep ==
    ASSUME TypeOK, LinksInv, [Next]_vars
    PROVE  LinksInv'
<1>1. ASSUME NEW w \in Workers,
             \/ Check(w) \/ CheckUnblock(w) \/ LoginRight(w) \/ LoginWrong(w)
             \/ RecordFailed(w) \/ CheckAgain(w)
             \/ SaveBegin(w) \/ SaveLoad(w) \/ SaveOpen(w) \/ SaveWrite(w)
      PROVE  LinksInv'
  <2>1. /\ UNCHANGED <<links, made, spent>>
        /\ \A v \in Workers : req'[v] = req[v] \/ req'[v].at \notin {"expiry", "serve"}
    <3>1. CASE SaveBegin(w) \/ SaveLoad(w)
      <4>1. PICK r : Go(w, r) /\ r.at \in {"load", "open"}
        <5>1. CASE SaveBegin(w)
          BY <5>1 DEF SaveBegin
        <5>2. CASE SaveLoad(w)
          BY <5>2 DEF SaveLoad
        <5> QED BY <3>1, <5>1, <5>2
      <4>2. UNCHANGED <<links, made, spent>>
        BY <3>1 DEF SaveBegin, SaveLoad
      <4> QED BY <4>1, <4>2, GoOthers
    <3>2. CASE SaveOpen(w)
      BY <3>2 DEF SaveOpen, Go, TypeOK, Requests, At
    <3>3. CASE SaveWrite(w)
      BY <3>3, GoOthers DEF SaveWrite, Idle
    <3> QED BY <1>1, <3>1, <3>2, <3>3, LoginStep DEF Reading
  <2> QED BY <2>1 DEF LinksInv, At
<1>2. ASSUME NEW w \in Workers, CreateLink(w) PROVE LinksInv'
  BY <1>2 DEF CreateLink, LinksInv, At
<1>3. ASSUME NEW w \in Workers, LinkGet(w) PROVE LinksInv'
  <2>1. PICK t \in DOMAIN links :
           Go(w, [at |-> "expiry", token |-> t, late |-> t \in spent, left |-> links[t]])
    BY <1>3 DEF LinkGet
  <2>2. t \in made /\ t \notin spent
    BY DEF LinksInv
  <2> DEFINE r == [at |-> "expiry", token |-> t, late |-> t \in spent, left |-> links[t]]
  <2>a. r.at = "expiry" /\ r.token = t /\ ~r.late
    BY <2>2
  <2>b. Go(w, r)
    BY <2>1
  <2> HIDE DEF r
  <2>3. /\ req'[w].at = "expiry" /\ req'[w].token = t /\ ~req'[w].late
        /\ \A v \in Workers \ {w} : req'[v] = req[v]
    BY <2>a, <2>b, GoOthers
  <2>4. UNCHANGED <<links, made, spent>>
    BY <1>3 DEF LinkGet
  <2> QED BY <2>2, <2>3, <2>4 DEF LinksInv, At
<1>4. ASSUME NEW w \in Workers, LinkExpired(w) PROVE LinksInv'
  BY <1>4 DEF LinkExpired, LinksInv, TypeOK, At, Go, Pop, Idle
<1>5. ASSUME NEW w \in Workers, LinkConsume(w) PROVE LinksInv'
  BY <1>5 DEF LinkConsume, LinksInv, TypeOK, At, Go, Pop
<1>6. ASSUME NEW w \in Workers, LinkServe(w) PROVE LinksInv'
  BY <1>6 DEF LinkServe, LinksInv, TypeOK, At, Go, Idle
<1>7. CASE Tick
  BY <1>7 DEF Tick, LinksInv, TypeOK, At, Requests
<1>8. CASE Restart
  BY <1>8 DEF Restart, LinksInv, At, Idle
<1>9. CASE UNCHANGED vars
  BY <1>9 DEF vars, LinksInv, At
<1> QED BY <1>1, <1>2, <1>3, <1>4, <1>5, <1>6, <1>7, <1>8, <1>9 DEF Next, Request

\* A request that starts after a link was answered is not answered: see
\* NotServedLater in PanelAccess.tla, of app.py:2195.
THEOREM PanelAccessNotServedLater == Spec => []NotServedLater
<1>1. Init => TypeOK /\ LinksInv
  <2>1. Init => LinksInv
    BY DEF Init, LinksInv, At, Idle
  <2> QED BY <2>1, InitTypeOK
<1>2. TypeOK /\ LinksInv /\ [Next]_vars => (TypeOK /\ LinksInv)'
  BY StepTypeOK, LinksStep
<1>3. LinksInv => NotServedLater
  BY DEF LinksInv, NotServedLater
<1> QED BY <1>1, <1>2, <1>3, PTL DEF Spec

-----------------------------------------------------------------------------
(* Settings.                                                               *)

LEMMA SavesStep ==
    ASSUME TypeOK, SavesInv, [Next]_vars
    PROVE  SavesInv'
<1>1. ASSUME NEW w \in Workers,
             \/ Check(w) \/ CheckUnblock(w) \/ LoginRight(w) \/ LoginWrong(w)
             \/ RecordFailed(w) \/ CheckAgain(w)
             \/ CreateLink(w) \/ LinkGet(w) \/ LinkExpired(w) \/ LinkConsume(w) \/ LinkServe(w)
      PROVE  SavesInv'
  <2>1. /\ UNCHANGED <<file, acked, disturbed>>
        /\ \A v \in Workers :
              \/ req'[v] = req[v]
              \/ ~Saving(v) /\ req'[v].at \notin {"load", "open", "write"}
    <3>1. CASE CreateLink(w)
      BY <3>1 DEF CreateLink
    <3>2. CASE LinkGet(w)
      BY <3>2, GoOthers DEF LinkGet, At, Saving
    <3>3. CASE LinkExpired(w) \/ LinkServe(w)
      BY <3>3, GoOthers DEF LinkExpired, LinkServe, At, Saving, Idle
    <3>4. CASE LinkConsume(w)
      BY <3>4, GoOthers DEF LinkConsume, At, Saving
    <3> QED BY <1>1, <3>1, <3>2, <3>3, <3>4, LoginStep DEF Reading, Saving
  <2> QED BY <2>1 DEF SavesInv, Saving, At, Change
<1>2. ASSUME NEW w \in Workers, SaveBegin(w) PROVE SavesInv'
  <2> SUFFICES ASSUME ~disturbed, \A v \in Workers : ~Saving(v)
               PROVE  SavesInv'
    BY <1>2 DEF SaveBegin, SavesInv
  <2>1. /\ file = acked /\ UNCHANGED <<file, acked>>
        /\ req'[w].at = "load" /\ \A v \in Workers \ {w} : req'[v] = req[v]
    BY <1>2 DEF SaveBegin, SavesInv, Saving, Go, TypeOK, At
  <2> QED BY <2>1 DEF SavesInv, Saving, At
<1>3. ASSUME NEW w \in Workers, SaveLoad(w) PROVE SavesInv'
  <2> SUFFICES ASSUME ~disturbed
               PROVE  SavesInv'
    BY <1>3 DEF SaveLoad, SavesInv
  <2>1. Saving(w) /\ \A v \in Workers \ {w} : ~Saving(v)
    BY <1>3 DEF SaveLoad, Saving, At, SavesInv
  <2>2. file = acked /\ file # Torn /\ UNCHANGED <<file, acked>>
    BY <1>3, <2>1, TornAssumption DEF SaveLoad, SavesInv, Saving, At, TypeOK
  <2>3. /\ req'[w].at = "open" /\ req'[w].new = [acked EXCEPT ![req'[w].key] = req'[w].val]
        /\ \A v \in Workers \ {w} : req'[v] = req[v]
    BY <1>3, <2>2 DEF SaveLoad, Go, TypeOK, Updated, Loaded
  <2> QED BY <2>1, <2>2, <2>3 DEF SavesInv, Saving, At, Change
<1>4. ASSUME NEW w \in Workers, SaveOpen(w) PROVE SavesInv'
  <2> SUFFICES ASSUME ~disturbed
               PROVE  SavesInv'
    BY <1>4 DEF SaveOpen, SavesInv
  <2>1. Saving(w) /\ (\A v \in Workers \ {w} : ~Saving(v)) /\ req[w].new = Change(req[w])
    BY <1>4 DEF SaveOpen, Saving, At, SavesInv
  <2>2. file' = Torn /\ acked' = acked
    BY <1>4 DEF SaveOpen
  <2>3. /\ req'[w].at = "write" /\ req'[w].new = req[w].new
        /\ req'[w].key = req[w].key /\ req'[w].val = req[w].val
        /\ \A v \in Workers \ {w} : req'[v] = req[v]
    BY <1>4 DEF SaveOpen, Go, TypeOK, Requests, At
  <2> QED BY <2>1, <2>2, <2>3 DEF SavesInv, Saving, At, Change
<1>5. ASSUME NEW w \in Workers, SaveWrite(w) PROVE SavesInv'
  <2> SUFFICES ASSUME ~disturbed
               PROVE  SavesInv'
    BY <1>5 DEF SaveWrite, SavesInv
  <2>1. Saving(w) /\ (\A v \in Workers \ {w} : ~Saving(v)) /\ req[w].new = Change(req[w])
        /\ file = Torn
    BY <1>5 DEF SaveWrite, Saving, At, SavesInv
  <2>2. acked' = Change(req[w]) /\ file' = acked'
    BY <1>5, <2>1 DEF SaveWrite, Change
  <2>3. req'[w].at = "idle" /\ \A v \in Workers \ {w} : req'[v] = req[v]
    BY <1>5 DEF SaveWrite, Go, TypeOK, Idle
  <2> QED BY <2>1, <2>2, <2>3 DEF SavesInv, Saving, At
<1>6. CASE Tick
  <2>1. /\ UNCHANGED <<file, acked, disturbed>>
        /\ \A v \in Workers :
              \/ req'[v] = req[v]
              \/ req[v].at = "expiry" /\ req'[v].at = "expiry"
    BY <1>6 DEF Tick, TypeOK, Requests, At
  <2> QED BY <2>1 DEF SavesInv, Saving, At, Change
<1>7. CASE Restart
  BY <1>7 DEF Restart, SavesInv, Saving, At, Idle
<1>8. CASE UNCHANGED vars
  BY <1>8 DEF vars, SavesInv, Saving, At, Change
<1> QED BY <1>1, <1>2, <1>3, <1>4, <1>5, <1>6, <1>7, <1>8 DEF Next, Request

\* The file is what was acknowledged, unless saves met or a restart hit one:
\* see AckedKept in PanelAccess.tla, of app.py:56.
THEOREM PanelAccessAckedKept == Spec => []AckedKept
<1>1. Init => TypeOK /\ SavesInv
  <2>1. Init => SavesInv
    BY DEF Init, SavesInv, Saving, At, Idle
  <2> QED BY <2>1, InitTypeOK
<1>2. TypeOK /\ SavesInv /\ [Next]_vars => (TypeOK /\ SavesInv)'
  BY StepTypeOK, SavesStep
<1>3. SavesInv => AckedKept
  BY DEF SavesInv, AckedKept, Saving, At
<1> QED BY <1>1, <1>2, <1>3, PTL DEF Spec

-----------------------------------------------------------------------------
(* The limiter.                                                            *)

\* Threads on their way to remove an expired block; threads that may still
\* count in this round; those that hold the entry in the store, and those whose
\* entry was removed.
Unblockers == {w \in Workers : req[w].at = "unblock"}
Inside == {w \in Workers : req[w].at \in {"verify", "count"}}
Holding == {w \in Workers : req[w].at = "count" /\ req[w].held}
Orphans == {w \in Workers : req[w].at = "count" /\ ~req[w].held}

Threads == Cardinality(Workers)

\* Twice what n removals after the first can have taken from the count.
Lost(n) == 2 * n * (MaxAttempts - 1) + n * (n + 1)

AttemptsType ==
    /\ attempts \in [exists : BOOLEAN, count : Nat, blocked : BOOLEAN, left : Nat]
    /\ attempts.count < MaxAttempts /\ failures \in Nat

\* After a block each thread but one counts at most once before somebody removes
\* it.  From then on nobody new comes to remove it: the failures that are not in
\* the count, and those that will not be, are what the removals so far took.
LimiterInv ==
    /\ AttemptsType
    /\ attempts.blocked => failures + Cardinality(Inside) < Threads
    /\ ~attempts.blocked =>
           /\ Cardinality(Unblockers) < Threads
           /\ 2 * (failures + Cardinality(Orphans) - attempts.count)
                  <= 2 * (Threads - 1) + Lost(Threads - 1 - Cardinality(Unblockers))

LEMMA ThreadsFinite ==
    /\ Threads \in Nat \ {0}
    /\ \A S : S \subseteq Workers =>
           IsFiniteSet(S) /\ Cardinality(S) \in Nat /\ Cardinality(S) <= Threads
<1>1. IsFiniteSet(Workers) /\ Workers # {}
  BY WorkersAssumption
<1>2. Threads \in Nat \ {0}
  BY <1>1, FS_CardinalityType, FS_EmptySet DEF Threads
<1>3. ASSUME NEW S, S \subseteq Workers
      PROVE  IsFiniteSet(S) /\ Cardinality(S) \in Nat /\ Cardinality(S) <= Threads
  BY <1>1, <1>3, FS_Subset, FS_CardinalityType DEF Threads
<1> QED BY <1>2, <1>3

LEMMA ThreadsBut ==
    ASSUME NEW w \in Workers, NEW S, S \subseteq Workers \ {w}
    PROVE  IsFiniteSet(S) /\ Cardinality(S) \in Nat /\ Cardinality(S) < Threads
<1>1. IsFiniteSet(Workers) /\ IsFiniteSet(Workers \ {w})
      /\ Cardinality(Workers \ {w}) = Threads - 1
  BY WorkersAssumption, FS_RemoveElement DEF Threads
<1>2. IsFiniteSet(S) /\ Cardinality(S) \in Nat /\ Cardinality(S) <= Threads - 1
  BY <1>1, FS_Subset, FS_CardinalityType
<1> QED BY <1>2, ThreadsFinite

LEMMA ThreadSets ==
    ASSUME TypeOK
    PROVE  /\ Cardinality(Unblockers) \in Nat /\ Cardinality(Inside) \in Nat
           /\ Cardinality(Orphans) \in Nat /\ Cardinality(Holding) \in Nat
           /\ IsFiniteSet(Unblockers) /\ IsFiniteSet(Inside)
           /\ IsFiniteSet(Orphans) /\ IsFiniteSet(Holding)
<1>1. Unblockers \subseteq Workers /\ Inside \subseteq Workers
      /\ Orphans \subseteq Workers /\ Holding \subseteq Workers
  BY DEF Unblockers, Inside, Orphans, Holding
<1> QED BY <1>1, ThreadsFinite

\* One more removal.
LEMMA LostNext ==
    ASSUME NEW n \in Nat
    PROVE  /\ Lost(n) \in Int /\ Lost(n) >= 0
           /\ Lost(n + 1) = Lost(n) + 2 * (MaxAttempts - 1) + 2 * (n + 1)
<1>1. MaxAttempts - 1 \in Nat
  BY LimitsAssumption
<1>2. \A m \in Nat : /\ 2 * n * m + n * (n + 1) \in Nat
                     /\ 2 * (n + 1) * m + (n + 1) * (n + 1 + 1)
                            = 2 * n * m + n * (n + 1) + 2 * m + 2 * (n + 1)
  OBVIOUS
<1> QED BY <1>1, <1>2 DEF Lost

LEMMA LostMost ==
    ASSUME NEW n \in Nat, NEW m \in Nat, n <= m
    PROVE  Lost(n) <= Lost(m)
<1>1. MaxAttempts - 1 \in Nat
  BY LimitsAssumption
<1>2. \A k \in Nat : n * k <= m * k
  BY SMTT(30)
<1>3. n * (n + 1) <= m * (n + 1) /\ (n + 1) * m <= (m + 1) * m
  BY SMTT(30)
<1>4. n * (n + 1) <= m * (m + 1)
  BY <1>3
<1>5. n * (MaxAttempts - 1) <= m * (MaxAttempts - 1)
  BY <1>1, <1>2
<1> QED BY <1>1, <1>4, <1>5 DEF Lost

\* Steps of threads that are not counted, and those that only come to be.
LEMMA QuietStep ==
    ASSUME TypeOK, LimiterInv, AttemptsType', failures' = failures,
           attempts'.count = attempts.count, attempts'.blocked = attempts.blocked,
           attempts.blocked => Inside' = Inside,
           ~attempts.blocked => Unblockers' = Unblockers /\ Orphans' = Orphans
    PROVE  LimiterInv'
<1>1. CASE attempts.blocked
  BY <1>1 DEF LimiterInv, Threads
<1>2. CASE ~attempts.blocked
  BY <1>2 DEF LimiterInv, Threads, Lost
<1> QED BY <1>1, <1>2

\* The count begins anew without a block.
LEMMA AnewStep ==
    ASSUME attempts' = NoEntry, failures' = 0, NEW w \in Workers,
           Unblockers' \subseteq Workers \ {w}, Orphans' \subseteq Workers \ {w}
    PROVE  LimiterInv'
<1>1. Cardinality(Unblockers') \in Nat /\ Cardinality(Unblockers') < Threads
      /\ Cardinality(Orphans') \in Nat /\ Cardinality(Orphans') < Threads
  BY ThreadsBut
<1>2. Threads \in Nat /\ Threads - 1 - Cardinality(Unblockers') \in Nat
  BY <1>1, ThreadsFinite
<1>3. Lost(Threads - 1 - Cardinality(Unblockers')) \in Int
      /\ Lost(Threads - 1 - Cardinality(Unblockers')) >= 0
  BY <1>2, LostNext
<1>4. AttemptsType'
  BY LimitsAssumption DEF AttemptsType, NoEntry
<1>5. attempts'.blocked = FALSE /\ attempts'.count = 0
  BY DEF NoEntry
<1>6. Cardinality(Unblockers)' < Threads'
  BY <1>1 DEF Threads
<1>7. (2 * (failures + Cardinality(Orphans) - attempts.count)
          <= 2 * (Threads - 1) + Lost(Threads - 1 - Cardinality(Unblockers)))'
  BY <1>1, <1>2, <1>3, <1>5 DEF Threads, Lost
<1> QED BY <1>4, <1>5, <1>6, <1>7 DEF LimiterInv

\* An expired block is removed, and with it the count and what others hold.
LEMMA RemovalStep ==
    ASSUME TypeOK, LimiterInv, NEW w \in Workers, CheckUnblock(w)
    PROVE  LimiterInv'
<1> DEFINE u == Cardinality(Unblockers)
           o == Cardinality(Orphans)
           h == Cardinality(Holding)
<1>1. attempts' = NoEntry /\ failures' = failures /\ w \in Unblockers /\ req[w].then \in {"verify", "idle"}
      /\ req'[w] = [at |-> req[w].then]
      /\ \A v \in Workers \ {w} :
             req'[v] = IF req[v].at = "count" THEN [at |-> "count", held |-> FALSE] ELSE req[v]
  BY DEF CheckUnblock, At, Unblockers, TypeOK, Requests, Orphan
<1>2. attempts'.blocked = FALSE /\ attempts'.count = 0 /\ AttemptsType'
  BY <1>1, LimitsAssumption DEF NoEntry, AttemptsType, LimiterInv
<1>3. Unblockers' = Unblockers \ {w} /\ Orphans' = Orphans \cup Holding
  BY <1>1 DEF Unblockers, Orphans, Holding, TypeOK, Requests
<1>4. /\ u \in Nat \ {0} /\ o \in Nat /\ h \in Nat /\ u <= Threads /\ Threads \in Nat
      /\ Cardinality(Unblockers') = u - 1
      /\ Cardinality(Orphans') = o + h
  <2>1. Cardinality(Unblockers \ {w}) = u - 1 /\ u # 0 /\ u <= Threads
    BY <1>1, ThreadSets, ThreadsFinite, FS_RemoveElement, FS_EmptySet DEF Unblockers
  <2>2. Cardinality(Orphans \cup Holding) = o + h - Cardinality(Orphans \cap Holding)
        /\ Orphans \cap Holding = {}
    BY ThreadSets, FS_Union DEF Orphans, Holding
  <2>3. Cardinality(Orphans \cup Holding) = o + h
    BY <2>2, ThreadSets, FS_EmptySet
  <2> QED BY <1>3, <2>1, <2>3, ThreadSets, ThreadsFinite
<1>5. AttemptsType /\ failures \in Nat /\ attempts.count \in Nat /\ attempts.count < MaxAttempts
      /\ MaxAttempts \in Nat
  BY LimitsAssumption DEF LimiterInv, AttemptsType
<1>6. CASE attempts.blocked
  <2>1. failures + Cardinality(Inside) < Threads
    BY <1>6 DEF LimiterInv
  <2>2. o + h <= Cardinality(Inside) /\ Cardinality(Inside) \in Nat
    <3>1. Orphans' \subseteq Inside /\ IsFiniteSet(Inside)
      BY <1>3, ThreadSets DEF Orphans, Holding, Inside
    <3>2. Cardinality(Orphans') <= Cardinality(Inside)
      BY <3>1, FS_Subset
    <3> QED BY <1>4, <3>2, ThreadSets
  <2>3. Threads - 1 - (u - 1) \in Nat
    BY <1>4
  <2>4. Lost(Threads - 1 - (u - 1)) \in Int /\ Lost(Threads - 1 - (u - 1)) >= 0
    BY <2>3, LostNext
  <2>5. 2 * (failures + (o + h) - 0) <= 2 * (Threads - 1) + Lost(Threads - 1 - (u - 1))
    BY <1>4, <1>5, <2>1, <2>2, <2>4
  <2>6. u - 1 < Threads
    BY <1>4
  <2> HIDE DEF u, o, h
  <2> QED BY <1>1, <1>2, <1>4, <2>5, <2>6 DEF LimiterInv, Threads, Lost
<1>7. CASE ~attempts.blocked
  <2>1. u < Threads /\ 2 * (failures + o - attempts.count) <= 2 * (Threads - 1) + Lost(Threads - 1 - u)
    BY <1>7 DEF LimiterInv
  <2>2. o + h <= Threads - u
    <3>1. Orphans' \cap Unblockers = {} /\ Orphans' \cup Unblockers \subseteq Workers
          /\ IsFiniteSet(Orphans')
      BY <1>3, ThreadSets, ThreadsFinite DEF Orphans, Holding, Unblockers
    <3>2. Cardinality(Orphans' \cup Unblockers)
              = Cardinality(Orphans') + u - Cardinality(Orphans' \cap Unblockers)
          /\ Cardinality(Orphans' \cap Unblockers) = 0
          /\ Cardinality(Orphans' \cup Unblockers) <= Threads
      BY <3>1, ThreadSets, ThreadsFinite, FS_Union, FS_EmptySet
    <3> QED BY <1>4, <3>2
  <2>3. Threads - 1 - u \in Nat /\ Threads - 1 - (u - 1) = (Threads - 1 - u) + 1
    BY <1>4, <2>1
  <2>4. /\ Lost(Threads - 1 - (u - 1))
              = Lost(Threads - 1 - u) + 2 * (MaxAttempts - 1) + 2 * (Threads - 1 - u + 1)
        /\ Lost(Threads - 1 - u) \in Int
    BY <2>3, LostNext
  <2>5. 2 * (failures + (o + h) - 0) <= 2 * (Threads - 1) + Lost(Threads - 1 - (u - 1))
    BY <1>4, <1>5, <2>1, <2>2, <2>4
  <2>6. u - 1 < Threads
    BY <1>4
  <2> HIDE DEF u, o, h
  <2> QED BY <1>1, <1>2, <1>4, <2>5, <2>6 DEF LimiterInv, Threads, Lost
<1> QED BY <1>6, <1>7

\* A failure is counted, or starts the block, or goes to an entry that is gone.
LEMMA CountStep ==
    ASSUME TypeOK, LimiterInv, NEW w \in Workers, RecordFailed(w)
    PROVE  LimiterInv'
<1>1. /\ req[w].at = "count" /\ req[w].held \in BOOLEAN
      /\ attempts' = IF req[w].held THEN Counted(attempts) ELSE attempts
      /\ failures' = IF req[w].held /\ attempts'.count <= attempts.count THEN 0 ELSE failures + 1
      /\ req'[w] = [at |-> "recheck"] /\ \A v \in Workers \ {w} : req'[v] = req[v]
  <2>1. req[w].at = "count" /\ req[w].held \in BOOLEAN
    BY DEF RecordFailed, At, TypeOK, Requests
  <2> QED BY <2>1 DEF RecordFailed, Go, TypeOK
<1>2. /\ attempts \in [exists : BOOLEAN, count : Nat, blocked : BOOLEAN, left : Nat]
      /\ attempts.count \in Nat /\ attempts.count < MaxAttempts /\ failures \in Nat
      /\ MaxAttempts \in Nat \ {0} /\ BlockTime \in Nat
  BY LimitsAssumption DEF LimiterInv, AttemptsType
<1>3. Inside' = Inside \ {w} /\ Unblockers' = Unblockers /\ Orphans' = Orphans \ {w} /\ w \in Inside
  BY <1>1 DEF Inside, Unblockers, Orphans
<1>4. /\ Cardinality(Inside') = Cardinality(Inside) - 1 /\ Cardinality(Inside) \in Nat
      /\ Cardinality(Unblockers) \in Nat /\ Cardinality(Orphans) \in Nat
  BY <1>3, ThreadSets, FS_RemoveElement
<1>5. Threads \in Nat /\ Threads' = Threads
  BY ThreadsFinite DEF Threads
<1>6. CASE req[w].held /\ attempts.count + 1 >= MaxAttempts
  <2>1. attempts' = [attempts EXCEPT !.count = 0, !.left = BlockTime, !.blocked = TRUE]
    BY <1>1, <1>6 DEF Counted
  <2>2. attempts'.count = 0 /\ attempts'.blocked = TRUE /\ failures' = 0
        /\ attempts' \in [exists : BOOLEAN, count : Nat, blocked : BOOLEAN, left : Nat]
    <3>1. attempts'.count = 0 /\ attempts'.blocked = TRUE
          /\ attempts' \in [exists : BOOLEAN, count : Nat, blocked : BOOLEAN, left : Nat]
      BY <1>2, <2>1
    <3>2. attempts'.count <= attempts.count
      BY <1>2, <3>1
    <3> QED BY <1>1, <1>6, <3>1, <3>2, Zenon
  <2>3. AttemptsType'
    BY <1>2, <2>2 DEF AttemptsType
  <2>4. Cardinality(Inside') < Threads /\ Cardinality(Inside') \in Nat
    BY <1>3, ThreadsBut DEF Inside
  <2> QED BY <1>5, <2>2, <2>3, <2>4 DEF LimiterInv
<1>7. CASE req[w].held /\ ~(attempts.count + 1 >= MaxAttempts)
  <2>1. attempts' = [attempts EXCEPT !.count = @ + 1]
    BY <1>1, <1>7 DEF Counted
  <2>2. attempts'.count = attempts.count + 1 /\ attempts'.blocked = attempts.blocked
        /\ attempts' \in [exists : BOOLEAN, count : Nat, blocked : BOOLEAN, left : Nat]
    BY <1>2, <2>1
  <2>3. failures' = failures + 1
    BY <1>1, <1>2, <2>2
  <2>4. AttemptsType'
    BY <1>2, <1>7, <2>2, <2>3 DEF AttemptsType
  <2>5. Orphans' = Orphans
    BY <1>3, <1>7 DEF Orphans
  <2>6. attempts.blocked => failures' + Cardinality(Inside') < Threads
    BY <1>2, <1>4, <1>5, <2>3 DEF LimiterInv
  <2>7. CASE ~attempts.blocked
    <3>1. failures' + Cardinality(Orphans) - attempts'.count = failures + Cardinality(Orphans) - attempts.count
      BY <1>2, <1>4, <2>2, <2>3
    <3> QED BY <1>3, <1>5, <2>2, <2>4, <2>5, <2>7, <3>1 DEF LimiterInv, Lost
  <2>8. CASE attempts.blocked
    BY <1>5, <2>2, <2>4, <2>6, <2>8 DEF LimiterInv
  <2> QED BY <2>7, <2>8
<1>8. CASE ~req[w].held
  <2>1. attempts' = attempts /\ failures' = failures + 1
    BY <1>1, <1>8
  <2>2. AttemptsType'
    BY <1>2, <2>1 DEF AttemptsType, LimiterInv
  <2>3. Cardinality(Orphans') = Cardinality(Orphans) - 1
    <3>1. w \in Orphans
      BY <1>1, <1>8 DEF Orphans
    <3> QED BY <1>3, <3>1, ThreadSets, FS_RemoveElement
  <2>4. attempts.blocked => failures' + Cardinality(Inside') < Threads
    BY <1>2, <1>4, <1>5, <2>1 DEF LimiterInv
  <2>5. failures' + Cardinality(Orphans') - attempts.count = failures + Cardinality(Orphans) - attempts.count
    BY <1>2, <1>4, <2>1, <2>3
  <2>6. CASE ~attempts.blocked
    BY <1>3, <1>5, <2>1, <2>2, <2>5, <2>6 DEF LimiterInv, Lost
  <2>7. CASE attempts.blocked
    BY <1>5, <2>1, <2>2, <2>4, <2>7 DEF LimiterInv
  <2> QED BY <2>6, <2>7
<1> QED BY <1>1, <1>6, <1>7, <1>8

LEMMA LimiterStep ==
    ASSUME TypeOK, LimiterInv, [Next]_vars
    PROVE  LimiterInv'
<1>1. AttemptsType /\ LimitsAssumption
  BY LimitsAssumption DEF LimiterInv
<1>2. ASSUME NEW w \in Workers, Check(w) PROVE LimiterInv'
  <2>1. /\ UNCHANGED <<attempts, failures>> /\ req[w].at = "idle"
        /\ attempts.blocked => req'[w].at = "unblock"
        /\ ~attempts.blocked => req'[w].at = "verify"
        /\ \A v \in Workers \ {w} : req'[v] = req[v]
    <3>1. Checked("verify").at = IF attempts.blocked THEN "unblock" ELSE "verify"
      BY DEF Checked
    <3>2. PICK r : r = Checked("verify")
      OBVIOUS
    <3>3. req'[w] = r /\ \A v \in Workers \ {w} : req'[v] = req[v]
      BY <1>2, <3>2, GoOthers DEF Check
    <3> QED BY <1>2, <3>1, <3>2, <3>3 DEF Check, At
  <2>2. attempts.blocked => Inside' = Inside
    BY <2>1 DEF Inside
  <2>3. ~attempts.blocked => Unblockers' = Unblockers /\ Orphans' = Orphans
    BY <2>1 DEF Unblockers, Orphans
  <2> QED BY <1>1, <2>1, <2>2, <2>3, QuietStep DEF AttemptsType
<1>3. ASSUME NEW w \in Workers, CheckAgain(w) PROVE LimiterInv'
  <2>1. /\ UNCHANGED <<attempts, failures>> /\ req[w].at = "recheck"
        /\ attempts.blocked => req'[w].at \in {"unblock", "idle"}
        /\ ~attempts.blocked => req'[w].at = "idle"
        /\ \A v \in Workers \ {w} : req'[v] = req[v]
    <3>1. Checked("idle").at = IF attempts.blocked THEN "unblock" ELSE "idle"
      BY DEF Checked
    <3>2. PICK r : r = IF attempts.left > 0 THEN Idle ELSE Checked("idle")
      OBVIOUS
    <3>3. req'[w] = r /\ \A v \in Workers \ {w} : req'[v] = req[v]
      BY <1>3, <3>2, GoOthers DEF CheckAgain
    <3> QED BY <1>3, <3>1, <3>2, <3>3 DEF CheckAgain, At, Idle
  <2>2. attempts.blocked => Inside' = Inside
    BY <2>1 DEF Inside
  <2>3. ~attempts.blocked => Unblockers' = Unblockers /\ Orphans' = Orphans
    BY <2>1 DEF Unblockers, Orphans
  <2> QED BY <1>1, <2>1, <2>2, <2>3, QuietStep DEF AttemptsType
<1>4. ASSUME NEW w \in Workers, LoginWrong(w) PROVE LimiterInv'
  <2>1. attempts' = [attempts EXCEPT !.exists = TRUE] /\ UNCHANGED failures /\ req[w].at = "verify"
        /\ req'[w] = [at |-> "count", held |-> TRUE]
        /\ \A v \in Workers \ {w} : req'[v] = req[v]
    BY <1>4 DEF LoginWrong, Go, At, TypeOK
  <2>2. Inside' = Inside /\ Unblockers' = Unblockers /\ Orphans' = Orphans
    BY <2>1 DEF Inside, Unblockers, Orphans
  <2>3. attempts'.count = attempts.count /\ attempts'.blocked = attempts.blocked /\ AttemptsType'
    BY <1>1, <2>1 DEF AttemptsType
  <2> QED BY <2>1, <2>2, <2>3, QuietStep
<1>5. ASSUME NEW w \in Workers, LoginRight(w) PROVE LimiterInv'
  <2>1. attempts' = NoEntry /\ failures' = 0 /\ req[w].at = "verify" /\ req'[w] = Idle
        /\ \A v \in Workers \ {w} : req'[v].at = req[v].at
    BY <1>5 DEF LoginRight, Orphan, At, TypeOK
  <2>2. Unblockers' \subseteq Workers \ {w} /\ Orphans' \subseteq Workers \ {w}
    BY <2>1 DEF Unblockers, Orphans, Idle
  <2> QED BY <2>1, <2>2, AnewStep
<1>6. ASSUME UNCHANGED <<attempts, failures>>,
             \A v \in Workers : \/ req'[v] = req[v]
                                \/ req[v].at \notin {"verify", "count", "unblock"}
                                   /\ req'[v].at \notin {"verify", "count", "unblock"}
      PROVE  LimiterInv'
  <2>1. Inside' = Inside /\ Unblockers' = Unblockers /\ Orphans' = Orphans
    BY <1>6 DEF Inside, Unblockers, Orphans
  <2> QED BY <1>1, <1>6, <2>1, QuietStep DEF AttemptsType
<1>7. ASSUME NEW w \in Workers, SaveBegin(w) \/ SaveLoad(w) \/ SaveOpen(w) \/ SaveWrite(w)
      PROVE  LimiterInv'
  <2>1. UNCHANGED <<attempts, failures>> /\ req[w].at \in {"idle", "load", "open", "write"}
        /\ req'[w].at \in {"load", "open", "write", "idle"}
        /\ \A v \in Workers \ {w} : req'[v] = req[v]
    <3>1. CASE SaveBegin(w)
      BY <3>1 DEF SaveBegin, Go, At, TypeOK
    <3>2. CASE SaveLoad(w)
      BY <3>2 DEF SaveLoad, Go, At, TypeOK
    <3>3. CASE SaveOpen(w)
      BY <3>3 DEF SaveOpen, Go, At, TypeOK, Requests
    <3>4. CASE SaveWrite(w)
      BY <3>4 DEF SaveWrite, Go, At, TypeOK, Idle
    <3> QED BY <1>7, <3>1, <3>2, <3>3, <3>4
  <2> QED BY <1>6, <2>1
<1>8. ASSUME NEW w \in Workers, \/ CreateLink(w) \/ LinkGet(w) \/ LinkExpired(w)
                                \/ LinkConsume(w) \/ LinkServe(w)
      PROVE  LimiterInv'
  <2>1. UNCHANGED <<attempts, failures>> /\ req[w].at \in {"idle", "expiry", "serve"}
        /\ req'[w].at \in {"idle", "expiry", "serve"}
        /\ \A v \in Workers \ {w} : req'[v] = req[v]
    BY <1>8 DEF CreateLink, LinkGet, LinkExpired, LinkConsume, LinkServe, Go, At, TypeOK, Idle
  <2> QED BY <1>6, <2>1
<1>9. CASE Tick
  <2>1. attempts'.count = attempts.count /\ attempts'.blocked = attempts.blocked /\ AttemptsType'
        /\ failures' = failures
    BY <1>1, <1>9, LessType DEF Tick, AttemptsType
  <2>2. \A v \in Workers : req'[v] = req[v] \/ (req[v].at = "expiry" /\ req'[v].at = "expiry")
    BY <1>9 DEF Tick, At, TypeOK, Requests
  <2>3. Inside' = Inside /\ Unblockers' = Unblockers /\ Orphans' = Orphans
    BY <2>2 DEF Inside, Unblockers, Orphans
  <2> QED BY <2>1, <2>3, QuietStep
<1>10. CASE Restart
  <2>1. attempts' = NoEntry /\ failures' = 0 /\ Unblockers' = {} /\ Orphans' = {}
    BY <1>10 DEF Restart, Idle, Unblockers, Orphans
  <2>2. PICK w \in Workers : TRUE
    BY WorkersAssumption
  <2> QED BY <2>1, <2>2, AnewStep
<1>11. CASE UNCHANGED vars
  BY <1>6, <1>11 DEF vars
<1> QED BY <1>2, <1>3, <1>4, <1>5, <1>7, <1>8, <1>9, <1>10, <1>11, RemovalStep, CountStep
        DEF Next, Request

\* Failures that no block followed stay below what the threads' removals of expired
\* blocks can take from the count: see BlocksInTime in PanelAccess.tla, of
\* app.py:112.
THEOREM PanelAccessBlocksInTime == Spec => []BlocksInTime
<1>1. Init => TypeOK /\ LimiterInv
  <2> SUFFICES ASSUME Init PROVE LimiterInv
    BY InitTypeOK
  <2>1. attempts = NoEntry /\ failures = 0 /\ Unblockers = {} /\ Orphans = {}
    BY DEF Init, Idle, Unblockers, Orphans
  <2>2. AttemptsType /\ attempts.blocked = FALSE /\ attempts.count = 0
    BY <2>1, LimitsAssumption DEF AttemptsType, NoEntry
  <2>3. Lost(Threads - 1) \in Int /\ Lost(Threads - 1) >= 0
    BY ThreadsFinite, LostNext
  <2>4. 2 * (failures + Cardinality(Orphans) - attempts.count)
            <= 2 * (Threads - 1) + Lost(Threads - 1 - Cardinality(Unblockers))
        /\ Cardinality(Unblockers) < Threads
    BY <2>1, <2>2, <2>3, ThreadsFinite, FS_EmptySet
  <2> QED BY <2>2, <2>4 DEF LimiterInv
<1>2. TypeOK /\ LimiterInv /\ [Next]_vars => (TypeOK /\ LimiterInv)'
  BY StepTypeOK, LimiterStep
<1>3. TypeOK /\ LimiterInv => BlocksInTime
  <2> SUFFICES ASSUME TypeOK, LimiterInv
               PROVE  2 * failures < Threads * (2 * MaxAttempts + Threads - 1)
    BY DEF BlocksInTime, Threads
  <2> DEFINE u == Cardinality(Unblockers)
             o == Cardinality(Orphans)
  <2>1. /\ failures \in Nat /\ attempts.count \in Nat /\ attempts.count <= MaxAttempts - 1
        /\ MaxAttempts \in Nat \ {0} /\ Threads \in Nat \ {0} /\ u \in Nat /\ o \in Nat
    BY LimitsAssumption, ThreadsFinite, ThreadSets DEF LimiterInv, AttemptsType
  <2>2. Lost(Threads - 1) = 2 * (Threads - 1) * (MaxAttempts - 1) + (Threads - 1) * Threads
    BY <2>1 DEF Lost
  <2>3. Lost(Threads - 1) \in Int /\ Lost(Threads - 1) >= 0
    BY <2>1, LostNext
  <2>4. 2 * (failures - attempts.count) <= 2 * (Threads - 1) + Lost(Threads - 1)
    <3>1. CASE attempts.blocked
      <4>1. failures + Cardinality(Inside) < Threads /\ Cardinality(Inside) \in Nat
        BY <3>1, ThreadSets DEF LimiterInv
      <4> QED BY <2>1, <2>3, <4>1
    <3>2. CASE ~attempts.blocked
      <4>1. u < Threads /\ 2 * (failures + o - attempts.count) <= 2 * (Threads - 1) + Lost(Threads - 1 - u)
        BY <3>2 DEF LimiterInv
      <4>2. Threads - 1 - u \in Nat /\ Threads - 1 \in Nat /\ Threads - 1 - u <= Threads - 1
        BY <2>1, <4>1
      <4>3. Lost(Threads - 1 - u) <= Lost(Threads - 1) /\ Lost(Threads - 1 - u) \in Int
        BY <4>2, LostMost, LostNext
      <4> HIDE DEF u, o
      <4> QED BY <2>1, <2>3, <4>1, <4>3
    <3> QED BY <3>1, <3>2
  <2>5. Threads * (2 * MaxAttempts + Threads - 1)
            = 2 * (Threads - 1) * (MaxAttempts - 1) + (Threads - 1) * Threads
              + 2 * (Threads - 1) + 2 * MaxAttempts
    BY <2>1
  <2>6. 2 * failures <= 2 * (Threads - 1) + Lost(Threads - 1) + 2 * (MaxAttempts - 1)
    BY <2>1, <2>3, <2>4
  <2>7. 2 * failures < 2 * (Threads - 1) + Lost(Threads - 1) + 2 * MaxAttempts
    BY <2>1, <2>3, <2>6
  <2> QED BY <2>1, <2>2, <2>5, <2>7
<1> QED BY <1>1, <1>2, <1>3, PTL DEF Spec
=============================================================================
