----------------------------- MODULE PanelAccess -----------------------------
(***************************************************************************)
(* The state of the web panel beside the peers: the settings file, the     *)
(* count of failed logins, the one-time links (app.py).  Requests run on   *)
(* threads of one process; a step ends where a thread may be switched      *)
(* while another has something to lose: between the reads and the writes   *)
(* of the shared dictionaries and of the file, and around the password     *)
(* hash, which is slow.  A restart loses the dictionaries and the requests.*)
(* Sessions, and the checks of what a form holds, are left out.            *)
(***************************************************************************)
EXTENDS Naturals, FiniteSets

CONSTANTS
    Workers,          \* threads that serve requests
    Values,           \* what a setting may be changed to
    Tokens,           \* bound: the links that may be made
    MaxAttempts,      \* _MAX_ATTEMPTS
    BlockTime,        \* _BLOCK_SECONDS, in ticks
    LinkTime,         \* the hour a link lasts, in ticks
    Unset,            \* a key the settings file does not have
    Torn              \* a settings file that cannot be read

ASSUME LimitsAssumption ==
    MaxAttempts \in Nat \ {0} /\ BlockTime \in Nat \ {0} /\ LinkTime \in Nat

Keys == {"credentials", "endpoint"}
Settings == [Keys -> Values \cup {Unset}]

ASSUME TornAssumption == Torn \notin Settings

\* The threads of one process at a time.
ASSUME WorkersAssumption == IsFiniteSet(Workers) /\ Workers # {}

VARIABLES
    req,              \* of each thread: where it is and what it holds
    file,             \* the settings file: a value for each key, or Torn
    attempts,         \* _login_attempts of the one address: the entry and what is left
                      \* of its block
    links,            \* _otl_store: what is left of the time of each link
    made,             \* the tokens that were given out
    acked,            \* history: the settings last acknowledged
    disturbed,        \* history: two saves overlapped, or a restart hit one
    spent,            \* history: the links whose download was answered
    failures          \* history: wrong passwords since the count last began

vars == <<req, file, attempts, links, made, acked, disturbed, spent, failures>>

NoEntry == [exists |-> FALSE, count |-> 0, blocked |-> FALSE, left |-> 0]
Defaults == [k \in Keys |-> Unset]

Idle == [at |-> "idle"]
At(w, here) == req[w].at = here
Go(w, r) == req' = [req EXCEPT ![w] = r]

\* _load_settings(): a file that cannot be read is an empty dictionary.
Loaded == IF file = Torn THEN Defaults ELSE file

-----------------------------------------------------------------------------
(* Logins: login_page() and the limiter.                                   *)

\* The look of _check_rate_limit(); an expired block that it saw is removed in
\* another step, "unblock", and the request goes on to `then'.
Checked(then) ==
    IF attempts.blocked THEN [at |-> "unblock", then |-> then] ELSE [at |-> then]

Check(w) ==
    /\ At(w, "idle") /\ attempts.left = 0
    /\ Go(w, Checked("verify"))
    /\ UNCHANGED <<file, attempts, links, made, acked, disturbed, spent, failures>>

\* A pop leaves the entry other threads hold to themselves.
Orphan(r) == IF r.at = "count" THEN [at |-> "count", held |-> FALSE] ELSE r

CheckUnblock(w) ==
    /\ At(w, "unblock")
    /\ attempts' = NoEntry
    /\ req' = [v \in Workers |-> IF v = w THEN [at |-> req[w].then] ELSE Orphan(req[v])]
    /\ UNCHANGED <<file, links, made, acked, disturbed, spent, failures>>

\* The right password resets the count, a wrong one is recorded: first the
\* entry is found or made, then counted.
LoginRight(w) ==
    /\ At(w, "verify")
    /\ attempts' = NoEntry /\ failures' = 0
    /\ req' = [v \in Workers |-> IF v = w THEN Idle ELSE Orphan(req[v])]
    /\ UNCHANGED <<file, links, made, acked, disturbed, spent>>

LoginWrong(w) ==
    /\ At(w, "verify")
    /\ attempts' = [attempts EXCEPT !.exists = TRUE]
    /\ Go(w, [at |-> "count", held |-> TRUE])
    /\ UNCHANGED <<file, links, made, acked, disturbed, spent, failures>>

\* Fault of Counted: the block begins one failure late.
CountedLate(a) ==
    IF a.count >= MaxAttempts
    THEN [a EXCEPT !.count = 0, !.left = BlockTime, !.blocked = TRUE]
    ELSE [a EXCEPT !.count = @ + 1]

\* The count, or the block that the last failure begins.
Counted(a) ==
    IF a.count + 1 >= MaxAttempts
    THEN [a EXCEPT !.count = 0, !.left = BlockTime, !.blocked = TRUE]
    ELSE [a EXCEPT !.count = @ + 1]

\* No call is made between the read of the count and its write, so no thread
\* is switched there.
RecordFailed(w) ==
    /\ At(w, "count")
    /\ attempts' = IF req[w].held THEN Counted(attempts) ELSE attempts
    /\ failures' = IF req[w].held /\ attempts'.count <= attempts.count
                   THEN 0 ELSE failures + 1
    /\ Go(w, [at |-> "recheck"])
    /\ UNCHANGED <<file, links, made, acked, disturbed, spent>>

\* What is left of the attempts is looked up with the same check.
CheckAgain(w) ==
    /\ At(w, "recheck")
    /\ Go(w, IF attempts.left > 0 THEN Idle ELSE Checked("idle"))
    /\ UNCHANGED <<file, attempts, links, made, acked, disturbed, spent, failures>>

-----------------------------------------------------------------------------
(* Settings: update_settings(), update_endpoint() and _save_settings().    *)

Saving(w) == req[w].at \in {"load", "open", "write"}

SaveBegin(w) ==
    /\ At(w, "idle")
    /\ \E k \in Keys, v \in Values : Go(w, [at |-> "load", key |-> k, val |-> v])
    /\ disturbed' = (disturbed \/ \E v \in Workers : Saving(v))
    /\ UNCHANGED <<file, attempts, links, made, acked, spent, failures>>

\* Fault of Updated: the other settings are forgotten.
UpdatedAlone(k, v) == [l \in Keys |-> IF l = k THEN v ELSE Unset]

Updated(k, v) == [Loaded EXCEPT ![k] = v]

SaveLoad(w) ==
    /\ At(w, "load")
    /\ Go(w, [at |-> "open", key |-> req[w].key, val |-> req[w].val,
              new |-> Updated(req[w].key, req[w].val)])
    /\ UNCHANGED <<file, attempts, links, made, acked, disturbed, spent, failures>>

\* Opening the file empties it.
SaveOpen(w) ==
    /\ At(w, "open")
    /\ file' = Torn
    /\ Go(w, [req[w] EXCEPT !.at = "write"])
    /\ UNCHANGED <<attempts, links, made, acked, disturbed, spent, failures>>

\* What is written over another save that came between may be neither.
SaveWrite(w) ==
    /\ At(w, "write")
    /\ file' \in IF file = Torn THEN {req[w].new} ELSE {req[w].new, Torn}
    /\ acked' = [acked EXCEPT ![req[w].key] = req[w].val]
    /\ Go(w, Idle)
    /\ UNCHANGED <<attempts, links, made, disturbed, spent, failures>>

-----------------------------------------------------------------------------
(* One-time links: create_otl() and one_time_download().                   *)

CreateLink(w) ==
    /\ At(w, "idle")
    /\ \E t \in Tokens \ made :
          /\ made' = made \cup {t}
          /\ links' = [u \in DOMAIN links \cup {t} |-> IF u = t THEN LinkTime ELSE links[u]]
    /\ UNCHANGED <<req, file, attempts, acked, disturbed, spent, failures>>

\* The request finds the entry; it notes whether the link was spent by then.
LinkGet(w) ==
    /\ At(w, "idle")
    /\ \E t \in DOMAIN links :
          Go(w, [at |-> "expiry", token |-> t, late |-> t \in spent, left |-> links[t]])
    /\ UNCHANGED <<file, attempts, links, made, acked, disturbed, spent, failures>>

\* The entry that was found may have been popped meanwhile, but its time
\* runs on.
TimeLeft(w) == req[w].left

\* Fault of Pop: the link stays in the store.
PopKeeps(t) == links

Pop(t) == [u \in DOMAIN links \ {t} |-> links[u]]

LinkExpired(w) ==
    /\ At(w, "expiry") /\ TimeLeft(w) = 0
    /\ links' = Pop(req[w].token)
    /\ Go(w, Idle)
    /\ UNCHANGED <<file, attempts, made, acked, disturbed, spent, failures>>

LinkConsume(w) ==
    /\ At(w, "expiry") /\ TimeLeft(w) > 0
    /\ links' = Pop(req[w].token)
    /\ Go(w, [at |-> "serve", token |-> req[w].token, late |-> req[w].late])
    /\ UNCHANGED <<file, attempts, made, acked, disturbed, spent, failures>>

LinkServe(w) ==
    /\ At(w, "serve")
    /\ spent' = spent \cup {req[w].token}
    /\ Go(w, Idle)
    /\ UNCHANGED <<file, attempts, links, made, acked, disturbed, failures>>

-----------------------------------------------------------------------------
(* Time and restarts.                                                      *)

Less(n) == IF n > 0 THEN n - 1 ELSE 0

Tick ==
    /\ attempts' = [attempts EXCEPT !.left = Less(@)]
    /\ links' = [t \in DOMAIN links |-> Less(links[t])]
    /\ req' = [w \in Workers |->
                 IF At(w, "expiry") THEN [req[w] EXCEPT !.left = Less(@)] ELSE req[w]]
    /\ UNCHANGED <<file, made, acked, disturbed, spent, failures>>

Restart ==
    /\ req' = [w \in Workers |-> Idle]
    /\ attempts' = NoEntry /\ failures' = 0
    /\ links' = [t \in {} |-> 0]
    /\ disturbed' = (disturbed \/ \E w \in Workers : At(w, "write"))
    /\ UNCHANGED <<file, made, acked, spent>>

-----------------------------------------------------------------------------

Init ==
    /\ req = [w \in Workers |-> Idle]
    /\ file = Defaults /\ acked = Defaults /\ disturbed = FALSE
    /\ attempts = NoEntry /\ failures = 0
    /\ links = [t \in {} |-> 0] /\ made = {} /\ spent = {}

Request(w) ==
    \/ Check(w) \/ CheckUnblock(w) \/ LoginRight(w) \/ LoginWrong(w)
    \/ RecordFailed(w) \/ CheckAgain(w)
    \/ SaveBegin(w) \/ SaveLoad(w) \/ SaveOpen(w) \/ SaveWrite(w)
    \/ CreateLink(w) \/ LinkGet(w) \/ LinkExpired(w) \/ LinkConsume(w) \/ LinkServe(w)

Next == (\E w \in Workers : Request(w)) \/ Tick \/ Restart

Spec == Init /\ [][Next]_vars

-----------------------------------------------------------------------------
(* Properties.                                                             *)

\* Each setting that was acknowledged is in the file between saves, and a save
\* of one leaves the others alone, unless two saves overlapped or a restart
\* hit the middle of one (app.py:56): after those the whole file may be lost.
AckedKept ==
    ~disturbed /\ (\A w \in Workers : ~Saving(w)) => file = acked

\* A link is answered twice only to requests that were there together: one
\* that starts after the first answer is not answered, whatever expires or
\* restarts meanwhile (app.py:2195).
NotServedLater == \A w \in Workers : At(w, "serve") => ~req[w].late

\* The limiter blocks (app.py:112), though later than _MAX_ATTEMPTS says.  Each
\* thread that saw an expired block removes the entry when it comes to it, and
\* with it up to MaxAttempts - 1 failures and what other threads hold of it: the
\* n-th of them takes it from up to n - 1.  Requests that passed the check
\* together before the block count after it, one for each thread but one.
BlocksInTime ==
    LET threads == Cardinality(Workers)
    IN  2 * failures < threads * (2 * MaxAttempts + threads - 1)

=============================================================================
