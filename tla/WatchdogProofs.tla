--------------------------- MODULE WatchdogProofs ---------------------------
(***************************************************************************)
(* Proofs about the watchdog, for every grace period and every set of      *)
(* configurations: when it may fire, and when it must.                     *)
(***************************************************************************)
EXTENDS Watchdog, TLAPS

\* What the counters of the tick stand for, unless something told them wrong:
\* the note of a reception that a tick is still to see, or that a redial wiped.
Silence ==
    \/ last_remote_rx \/ erased \/ deaf = Horizon
    \/ /\ remote_silent_count <= deaf /\ inactive_count <= deaf
       /\ remote_silent_total < deaf

\* A note is of the remote, or of the end of a receive; a recovery asked for
\* since is neither.
Noted ==
    /\ last_remote_rx => echoed \/ (deaf = 0 /\ ~recovery)
    /\ quiet = 0 => last_active
    /\ recovery /\ cfg.drift => reconnect_drift \/ echoed

\* The exit guard counts every tick that the client and the silent remote have.
Guarded ==
    cfg.exit > 0 =>
        /\ ~exited => remote_silent_total < ExitChecks
        /\ exited => deaf > ExitChecks \/ erased
        /\ exited \/ echoed \/ lone <= remote_silent_total

Counted == ~exited => remote_silent_count < SilentChecks

NoGuard == cfg.exit = 0 => ~exited

IInv == TypeOK /\ Silence /\ Noted /\ Guarded /\ NoGuard /\ Counted

-----------------------------------------------------------------------------
(* The limits.                                                             *)

LEMMA InTicksType == \A n \in Int : InTicks(n) \in Nat \ {0}
BY DEF InTicks, Greatest, TickSecs

LEMMA ChecksType ==
    ASSUME cfg \in Configs
    PROVE  /\ Checks \in Nat \ {0} /\ SilentChecks \in Nat \ {0} /\ ExitChecks \in Nat \ {0}
           /\ cfg.exit \in Nat /\ (cfg.exit > 0 => ExitChecks < Horizon)
<1>1. cfg \in [timeout : Nat \ {0}, explicit : Nat, keepalive : Nat,
               exit : Nat, drift : BOOLEAN, gro : BOOLEAN]
  BY ConfigsAssumption
<1>2. SilentTimeout(cfg) \in Int
  BY <1>1 DEF SilentTimeout, Least, Greatest
<1>3. Checks \in Nat \ {0} /\ SilentChecks \in Nat \ {0} /\ ExitChecks \in Nat \ {0}
  BY <1>1, <1>2, InTicksType DEF Checks, SilentChecks, ExitChecks
<1> QED BY <1>1, <1>3, GuardAssumption DEF ExitChecks

LEMMA Next1Type ==
    \A n \in 0 .. Horizon : /\ Next1(n) \in 0 .. Horizon /\ Next1(n) > 0
                            /\ Next1(n) = n + 1 \/ (n = Horizon /\ Next1(n) = Horizon)
BY HorizonAssumption DEF Next1, Least

\* The types: what is a place or a flag, and what is counted.
Places ==
    /\ cfg \in Configs
    /\ last_active \in BOOLEAN /\ last_remote_rx \in BOOLEAN
    /\ reconnect_needed \in BOOLEAN /\ reconnect_drift \in BOOLEAN
    /\ link \in {"up", "shut", "down"} /\ port \in {"preferred", "fresh"}
    /\ s2c \in {"recv", "backoff", "dial"} /\ gro \in BOOLEAN /\ exited \in BOOLEAN
    /\ tried \in BOOLEAN /\ erased \in BOOLEAN /\ echoed \in BOOLEAN
    /\ recovery \in BOOLEAN

Counts ==
    /\ client_idle_ticks \in 0 .. Grace + 1
    /\ remote_silent_count \in 0 .. SilentChecks
    /\ remote_silent_total \in Nat
    /\ cfg.exit > 0 => remote_silent_total <= ExitChecks
    /\ inactive_count \in 0 .. Checks - 1
    /\ quiet \in 0 .. Horizon /\ deaf \in 0 .. Horizon /\ lone \in 0 .. Horizon

LEMMA TypeParts ==
    (TypeOK <=> Places /\ Counts) /\ (TypeOK' <=> Places' /\ Counts')
BY DEF TypeOK, Places, Counts

LEMMA InitIInv ==
    ASSUME Init
    PROVE  IInv
<1>1. Checks \in Nat \ {0} /\ SilentChecks \in Nat \ {0} /\ ExitChecks \in Nat \ {0}
  BY ChecksType DEF Init
<1>2. cfg.gro \in BOOLEAN /\ cfg \in Configs
  BY ConfigsAssumption DEF Init
<1>3. TypeOK
  <2>1. Places
    BY <1>2 DEF Init, Places
  <2>2. Counts
    BY <1>1, GraceAssumption, HorizonAssumption DEF Init, Counts
  <2> QED BY <2>1, <2>2, TypeParts
<1>4. Silence /\ Noted /\ Guarded /\ NoGuard /\ Counted
  BY <1>1, HorizonAssumption DEF Init, Silence, Noted, Guarded, NoGuard, Counted
<1> QED BY <1>3, <1>4 DEF IInv

-----------------------------------------------------------------------------
(* The steps of the two other threads.                                     *)

LEMMA ThreadsStep ==
    ASSUME IInv, ~exited, ClientSend \/ RemoteHeard \/ RecvError \/ Reconnect
    PROVE  IInv'
<1> USE DEF flags, counters, history
<1>c. cfg \in Configs /\ cfg' = cfg /\ cfg.gro \in BOOLEAN
  BY ConfigsAssumption
     DEF IInv, TypeOK, ClientSend, RemoteHeard, RecvError, Reconnect, Wake, DialBegin, DialOk,
         DialFail
<1>k. /\ Checks' = Checks /\ SilentChecks' = SilentChecks /\ ExitChecks' = ExitChecks
      /\ Checks \in Nat \ {0} /\ SilentChecks \in Nat \ {0} /\ ExitChecks \in Nat \ {0}
      /\ Horizon \in Nat \ {0}
  BY <1>c, ChecksType, HorizonAssumption DEF Checks, SilentChecks, ExitChecks
<1>a. UNCHANGED <<counters, exited>>
  BY DEF ClientSend, RemoteHeard, RecvError, Reconnect, Wake, DialBegin, DialOk, DialFail
<1>p. Places /\ Counts
  BY TypeParts DEF IInv
<1>1. TypeOK'
  <2>0. quiet' \in {0, quiet} /\ deaf' \in {0, deaf} /\ lone' \in {0, lone}
    BY DEF ClientSend, RemoteHeard, RecvError, Reconnect, Wake, DialBegin, DialOk, DialFail
  <2>1. Counts'
    BY <2>0, <1>p, <1>c, <1>k, <1>a DEF Counts
  <2>2. CASE ClientSend \/ RecvError
    BY <2>1, <2>2, <1>p, <1>c, <1>a, TypeParts DEF ClientSend, RecvError, socket, Places
  <2>3. CASE RemoteHeard
    <3>1. gro' \in BOOLEAN
      BY <2>3, <1>p DEF RemoteHeard, Places
    <3> QED BY <2>1, <2>3, <3>1, <1>p, <1>c, <1>a, TypeParts DEF RemoteHeard, Places
  <2>4. CASE Wake \/ DialBegin \/ DialFail
    BY <2>1, <2>4, <1>p, <1>c, <1>a, TypeParts DEF Wake, DialBegin, DialFail, Places
  <2>5. CASE DialOk
    <3>1. erased' \in BOOLEAN
      BY <2>5 DEF DialOk
    <3> QED BY <2>1, <2>5, <3>1, <1>p, <1>c, <1>a, TypeParts DEF DialOk, Places
  <2> QED BY <2>2, <2>3, <2>4, <2>5 DEF Reconnect
<1>2. CASE ClientSend
  BY <1>1, <1>2, <1>c, <1>k, <1>a
     DEF ClientSend, socket, IInv, Silence, Noted, Guarded, NoGuard, Counted
<1>3. CASE RemoteHeard
  <2>1. remote_silent_total \in Nat /\ lone' = 0 /\ last_remote_rx' /\ deaf' = 0 /\ ~recovery'
        /\ last_active'
    BY <1>3 DEF RemoteHeard, IInv, TypeOK
  <2> QED BY <1>1, <2>1, <1>3, <1>c, <1>k, <1>a
          DEF IInv, Silence, Noted, Guarded, NoGuard, Counted
<1>4. CASE RecvError
  BY <1>1, <1>4, <1>c, <1>k, <1>a DEF RecvError, IInv, Silence, Noted, Guarded, NoGuard, Counted
<1>5. CASE Wake
  BY <1>1, <1>5, <1>c, <1>k, <1>a DEF Wake, IInv, Silence, Noted, Guarded, NoGuard, Counted
<1>6. CASE DialBegin \/ DialFail
  BY <1>1, <1>6, <1>c, <1>k, <1>a
     DEF DialBegin, DialFail, IInv, Silence, Noted, Guarded, NoGuard, Counted
<1>7. CASE DialOk
  <2>1. /\ ~recovery' /\ last_active' /\ ~last_remote_rx'
        /\ (erased \/ last_remote_rx) => erased'
        /\ UNCHANGED <<deaf, lone, echoed>>
    BY <1>7 DEF DialOk
  <2> QED BY <1>1, <2>1, <1>c, <1>k, <1>a
          DEF IInv, Silence, Noted, Guarded, NoGuard, Counted
<1> QED BY <1>2, <1>3, <1>4, <1>5, <1>6, <1>7 DEF Reconnect

-----------------------------------------------------------------------------
(* The tick.                                                               *)

\* What a trigger does to the flags.
LEMMA TriggerType ==
    ASSUME TypeOK, Trigger \/ NoTrigger, cfg' = cfg
    PROVE  /\ reconnect_needed' \in BOOLEAN /\ reconnect_drift' \in BOOLEAN
           /\ recovery' \in BOOLEAN /\ link' \in {"up", "shut", "down"}
           /\ recovery' /\ cfg.drift => reconnect_drift' \/ (recovery /\ ~reconnect_drift)
           /\ reconnect_drift => reconnect_drift'
<1>1. cfg.drift \in BOOLEAN
  BY ConfigsAssumption DEF TypeOK
<1>2. CASE NoTrigger \/ link = "down"
  BY <1>1, <1>2, TypeParts DEF Places, Trigger, NoTrigger
<1>3. CASE Trigger /\ link # "down"
  <2>1. reconnect_drift' \in BOOLEAN
    BY <1>3 DEF Trigger
  <2> QED BY <1>1, <1>3, <2>1 DEF Trigger
<1> QED BY <1>2, <1>3

LEMMA TickStep ==
    ASSUME IInv, Tick
    PROVE  IInv'
<1> USE DEF flags, counters, history
<1>t. TypeOK /\ ~exited /\ Look
  BY DEF IInv, Tick, TickHeard, TickSilent, SilentTick, TickIdle, Look
<1>p. Places /\ Counts
  BY <1>t, TypeParts
<1>c. cfg \in Configs /\ cfg' = cfg
  BY <1>t DEF TypeOK, Look
<1>k. /\ Checks' = Checks /\ SilentChecks' = SilentChecks /\ ExitChecks' = ExitChecks
      /\ Checks \in Nat \ {0} /\ SilentChecks \in Nat \ {0} /\ ExitChecks \in Nat \ {0}
      /\ Horizon \in Nat \ {0} /\ Grace \in Nat /\ cfg.exit \in Nat
      /\ cfg.exit > 0 => ExitChecks < Horizon
  BY <1>c, ChecksType, HorizonAssumption, GraceAssumption
     DEF Checks, SilentChecks, ExitChecks
<1>l. /\ last_active' = FALSE /\ last_remote_rx' = FALSE
      /\ quiet' \in 1 .. Horizon /\ deaf' \in 1 .. Horizon
      /\ deaf' = deaf + 1 \/ deaf' = Horizon
      /\ lone' \in 0 .. Horizon /\ lone' <= lone + 1
      /\ quiet # 0 \/ deaf = 0 => lone' = 0
      /\ UNCHANGED <<port, s2c, gro, erased, echoed>>
  BY <1>t, <1>k, Next1Type DEF TypeOK, Look
<1>1. CASE TickHeard
  <2>1. /\ client_idle_ticks' = 0 /\ remote_silent_count' = 0 /\ remote_silent_total' = 0
        /\ inactive_count' = 0 /\ reconnect_drift' = FALSE /\ tried' = FALSE
        /\ UNCHANGED <<reconnect_needed, link, exited, recovery>> /\ last_remote_rx
    BY <1>1 DEF TickHeard, HeardCounts
  <2>2. TypeOK'
    <3>1. Places'
      BY <1>p, <1>t, <1>c, <1>l, <2>1 DEF Places
    <3>2. Counts'
      BY <1>p, <1>c, <1>k, <1>l, <2>1 DEF Counts
    <3> QED BY <3>1, <3>2, TypeParts
  <2>3. Silence' /\ Noted' /\ NoGuard' /\ Counted'
    BY <1>t, <1>c, <1>k, <1>l, <2>1 DEF IInv, Silence, Noted, NoGuard, Counted
  <2>4. Guarded'
    BY <1>t, <1>c, <1>k, <1>l, <2>1 DEF IInv, Guarded, Noted, TypeOK
  <2> QED BY <2>2, <2>3, <2>4 DEF IInv
<1>2. CASE TickSilent
  <2>1. ~last_remote_rx /\ inactive_count' = 0 /\ client_idle_ticks' \in 0 .. Grace + 1
        /\ remote_silent_total' = CountSilence
    BY <1>2, <1>t, <1>k DEF TickSilent, SilentTick, CountedSilence, IdleTicks, Least, TypeOK
  <2>2. /\ remote_silent_total' \in Nat /\ remote_silent_total' <= remote_silent_total + 1
        /\ cfg.exit > 0 => remote_silent_total' = remote_silent_total + 1
    BY <2>1, <1>t, <1>k DEF CountSilence, Least, TypeOK
  <2>3. /\ Trigger \/ NoTrigger
        /\ exited' => cfg.exit > 0 /\ remote_silent_total' >= ExitChecks
        /\ cfg.exit > 0 /\ ~exited' => ~(remote_silent_total' >= ExitChecks)
        /\ exited' \in BOOLEAN
        /\ remote_silent_count' \in {0, remote_silent_count + 1}
        /\ ~exited' => remote_silent_count' < SilentChecks
        /\ tried' \in BOOLEAN
    <3>1. CASE cfg.exit > 0 /\ remote_silent_total' >= ExitChecks
      BY <1>2, <3>1, <1>p DEF TickSilent, SilentTick, Places
    <3>2. CASE ~(cfg.exit > 0 /\ remote_silent_total' >= ExitChecks)
      <4>1. /\ exited' = exited /\ remote_silent_count \in Nat
            /\ \/ remote_silent_count' = 0 /\ Trigger /\ tried' = TRUE
               \/ /\ ~(remote_silent_count + 1 >= SilentChecks)
                  /\ remote_silent_count' = remote_silent_count + 1
                  /\ NoTrigger /\ tried' = tried
        BY <1>2, <3>2, <1>p DEF TickSilent, SilentTick, Counts
      <4>2. tried' \in BOOLEAN /\ exited' \in BOOLEAN /\ ~exited'
        BY <4>1, <1>p, <1>t DEF Places
      <4>3. /\ remote_silent_count' \in {0, remote_silent_count + 1}
            /\ remote_silent_count' < SilentChecks
        BY <4>1, <1>k
      <4> QED BY <3>2, <4>1, <4>2, <4>3
    <3> QED BY <3>1, <3>2
  <2>4. /\ remote_silent_count \in Nat /\ remote_silent_count < SilentChecks
        /\ remote_silent_total \in Nat
        /\ cfg.exit > 0 => remote_silent_total < ExitChecks
    BY <1>t DEF IInv, TypeOK, Counted, Guarded
  <2>5. TypeOK'
    <3>1. Places'
      BY <1>p, <1>t, <1>c, <1>l, <2>1, <2>2, <2>3, <2>4, TriggerType DEF Places
    <3>2. Counts'
      BY <1>p, <1>c, <1>k, <1>l, <2>1, <2>2, <2>3, <2>4 DEF Counts
    <3> QED BY <3>1, <3>2, TypeParts
  <2>6. Silence'
    BY <1>t, <1>l, <2>1, <2>2, <2>3, <2>4 DEF IInv, Silence, TypeOK
  <2>7. Noted'
    BY <1>t, <1>c, <1>l, <2>3, TriggerType DEF IInv, Noted
  <2>8. Guarded'
    <3> SUFFICES ASSUME cfg.exit > 0 PROVE Guarded'
      BY <1>c DEF Guarded
    <3>1. ~exited' => remote_silent_total' < ExitChecks
      BY <2>2, <2>3, <1>k
    <3>2. exited' => deaf' > ExitChecks \/ erased'
      BY <1>t, <1>k, <1>l, <2>1, <2>2, <2>3, <2>4 DEF IInv, Silence, TypeOK
    <3>3. exited' \/ echoed' \/ lone' <= remote_silent_total'
      BY <1>t, <1>l, <2>2, <2>4 DEF IInv, Guarded, TypeOK
    <3> QED BY <3>1, <3>2, <3>3, <1>c, <1>k DEF Guarded
  <2>9. NoGuard' /\ Counted'
    BY <1>c, <1>k, <2>3 DEF NoGuard, Counted
  <2> QED BY <2>5, <2>6, <2>7, <2>8, <2>9 DEF IInv
<1>3. CASE TickIdle
  <2>1. /\ remote_silent_count' = 0 /\ remote_silent_total' = 0 /\ tried' = FALSE
        /\ exited' = exited /\ client_idle_ticks' \in 0 .. Grace + 1 /\ ~last_active
        /\ ~last_remote_rx
    BY <1>3, <1>t, <1>k DEF TickIdle, IdleTicks, Least, TypeOK
  <2>2. /\ Trigger \/ NoTrigger
        /\ inactive_count' \in {0, inactive_count + 1} /\ inactive_count' \in 0 .. Checks - 1
    BY <1>3, <1>t, <1>k DEF TickIdle, TypeOK
  <2>3. lone' = 0
    BY <1>l, <2>1 DEF IInv, Noted
  <2>4. TypeOK'
    <3>1. Places'
      BY <1>p, <1>t, <1>c, <1>l, <2>1, <2>2, TriggerType DEF Places
    <3>2. Counts'
      BY <1>p, <1>c, <1>k, <1>l, <2>1, <2>2 DEF Counts
    <3> QED BY <3>1, <3>2, TypeParts
  <2>5. Silence'
    BY <1>t, <1>l, <2>1, <2>2 DEF IInv, Silence, TypeOK
  <2>6. Noted'
    BY <1>t, <1>c, <1>l, <2>2, TriggerType DEF IInv, Noted
  <2>7. Guarded' /\ NoGuard' /\ Counted'
    BY <1>t, <1>c, <1>k, <2>1, <2>3 DEF Guarded, NoGuard, Counted
  <2> QED BY <2>4, <2>5, <2>6, <2>7 DEF IInv
<1> QED BY <1>1, <1>2, <1>3 DEF Tick

-----------------------------------------------------------------------------
(* Who the process gives up on.                                            *)

\* The ticks the grace period still has, whoever opened it; a note of a
\* reception ends the silence at the next tick, and so has none.
Rest == IF last_remote_rx THEN 0
        ELSE IF last_active THEN Grace + 1 ELSE Grace - client_idle_ticks

\* A dial is coming, and with it another grace period.
Due == s2c # "recv" \/ link # "up"

\* How far a count of silent ticks can get without the client, if the watchdog
\* does not ask for one more dial.
Extra == IF Due THEN Grace + 1 ELSE 0
Reach(n) == n + Rest + Extra

\* Either the silence in course is too short for anything, or the client was there
\* not long ago, before the last dial of the watchdog or before the one to come.
Waning ==
    \/ Reach(remote_silent_total) <= 2 * Grace + 1
    \/ Reach(quiet) <= 2 * Grace + 3
    \/ Reach(quiet) <= 3 * Grace + 4 /\ Reach(remote_silent_count) <= 2 * Grace + 1

Idled ==
    /\ client_idle_ticks = Grace + 1 => remote_silent_total = 0 /\ remote_silent_count = 0
    /\ cfg.exit > 0 /\ ~exited => remote_silent_count <= remote_silent_total

GraceInv ==
    /\ reconnect_needed => Due
    /\ Idled
    /\ cfg.exit > 0 /\ GraceEnds =>
          IF exited THEN quiet <= 3 * Grace + 4 ELSE Waning

\* The ranges of what is counted.
LEMMA CountsType ==
    ASSUME TypeOK
    PROVE  /\ Grace \in Nat /\ client_idle_ticks \in 0 .. Grace + 1 /\ quiet \in Nat
           /\ remote_silent_total \in Nat /\ remote_silent_count \in Nat
           /\ last_active \in BOOLEAN /\ last_remote_rx \in BOOLEAN /\ Rest \in -1 .. Grace + 1
           /\ Rest = -1 => ~last_remote_rx /\ client_idle_ticks = Grace + 1
<1>1. /\ client_idle_ticks \in 0 .. Grace + 1 /\ Grace \in Nat
      /\ last_active \in BOOLEAN /\ last_remote_rx \in BOOLEAN
  BY GraceAssumption, TypeParts DEF Places, Counts
<1>2. Rest \in -1 .. Grace + 1 /\ (Rest = -1 => ~last_remote_rx /\ client_idle_ticks = Grace + 1)
  BY <1>1 DEF Rest
<1> QED BY <1>1, <1>2, HorizonAssumption, TypeParts DEF Counts

LEMMA ExtraType ==
    /\ Due => Extra = Grace + 1
    /\ ~Due => Extra = 0
    /\ Due' => Extra' = Grace + 1
    /\ ~Due' => Extra' = 0
    /\ Extra = 0 \/ Extra = Grace + 1
    /\ Extra' = 0 \/ Extra' = Grace + 1
    /\ Extra \in Nat /\ Extra' \in Nat
BY GraceAssumption DEF Extra

LEMMA InitGraceInv ==
    ASSUME Init
    PROVE  GraceInv
BY ExtraType, GraceAssumption DEF Init, GraceInv, Idled, Waning, Reach, Rest, Extra, Due

\* A step of the other two threads opens a grace period only where the client
\* sends, where the dial that was due comes, or behind a reception.
LEMMA ThreadsWaning ==
    ASSUME IInv, Idled, Waning, ClientSend \/ RemoteHeard \/ RecvError \/ Reconnect,
           reconnect_needed => Due
    PROVE  Waning' /\ (reconnect_needed => Due)'
<1> USE DEF flags, counters, history, socket
<1>t. /\ Grace \in Nat /\ quiet \in Nat /\ remote_silent_total \in Nat
      /\ remote_silent_count \in Nat /\ Rest \in -1 .. Grace + 1
      /\ Rest = -1 => ~last_remote_rx /\ client_idle_ticks = Grace + 1
      /\ client_idle_ticks \in 0 .. Grace + 1
      /\ client_idle_ticks = Grace + 1 => remote_silent_total = 0 /\ remote_silent_count = 0
  BY CountsType DEF IInv, Idled
<1>u. UNCHANGED <<remote_silent_total, remote_silent_count, client_idle_ticks>>
  BY DEF ClientSend, RemoteHeard, RecvError, Reconnect, Wake, DialBegin, DialOk, DialFail
<1>1. CASE ClientSend
  <2>1. quiet' = 0 /\ Rest' <= Grace + 1 /\ Rest' \in Int
    BY <1>1, <1>t DEF ClientSend, Rest
  <2>2. Due' = Due /\ reconnect_needed' = reconnect_needed
    BY <1>1 DEF ClientSend, Due
  <2>3. Reach(quiet)' <= 2 * Grace + 3
    BY <1>t, <2>1 DEF Reach, Rest, Extra, Due
  <2> QED BY <2>2, <2>3 DEF Waning
<1>2. CASE RecvError
  <2>1. quiet <= 1 /\ quiet' = quiet /\ Rest' = Rest /\ Due'
    BY <1>2 DEF RecvError, Rest, Due
  <2>2. Reach(quiet)' <= 2 * Grace + 3
    BY ExtraType, <2>1, <1>t DEF Reach
  <2> QED BY <2>1, <2>2 DEF Waning
<1>3. ASSUME UNCHANGED <<quiet, last_remote_rx, last_active>>, Due' = Due
      PROVE  Waning'
  BY ExtraType, <1>3, <1>u DEF Waning, Reach, Rest
\* A note of a reception.
<1>4. ASSUME quiet' = quiet, last_remote_rx', Due' = Due
      PROVE  Waning'
  <2>1. Rest' = 0
    BY <1>4 DEF Rest
  <2>2. CASE Rest = -1
    BY <1>4, <1>t, <1>u, <2>1, <2>2 DEF Waning, Reach, Rest, Extra, Due
  <2>3. CASE Rest >= 0
    BY <1>4, <1>t, <1>u, <2>1, <2>3 DEF Waning, Reach, Rest, Extra, Due
  <2> QED BY <1>t, <2>2, <2>3
<1>5. CASE RemoteHeard
  <2>1. quiet' = quiet /\ last_remote_rx' /\ link' = link /\ s2c = "recv"
        /\ reconnect_needed' = reconnect_needed
        /\ s2c' = IF reconnect_needed THEN "backoff" ELSE "recv"
    BY <1>5 DEF RemoteHeard
  <2>2. Due' = Due
    BY <2>1 DEF Due
  <2> QED BY <1>4, <2>1, <2>2
<1>6. CASE Wake
  <2>1. quiet' = quiet /\ Due /\ Due' = Due
        /\ (last_remote_rx' \/ UNCHANGED <<last_remote_rx, last_active>>)
    BY <1>6 DEF Wake, Due
  <2> QED BY <1>3, <1>4, <2>1
<1>7. CASE DialBegin \/ DialFail
  <2>1. UNCHANGED <<quiet, last_remote_rx, last_active>> /\ Due /\ Due' = Due
    BY <1>7 DEF DialBegin, DialFail, Due
  <2> QED BY <1>3, <2>1
<1>8. CASE DialOk
  <2>1. /\ Due /\ ~Due' /\ ~reconnect_needed' /\ Rest' = Grace + 1 /\ quiet' = quiet
    BY <1>8 DEF DialOk, Due, Rest
  <2>2. CASE Rest = -1
    BY ExtraType, <1>t, <1>u, <2>1, <2>2 DEF Waning, Reach
  <2>3. CASE Rest >= 0
    BY ExtraType, <1>t, <1>u, <2>1, <2>3 DEF Waning, Reach
  <2> QED BY <1>t, <2>1, <2>2, <2>3
<1> QED BY <1>1, <1>2, <1>5, <1>6, <1>7, <1>8 DEF Reconnect

LEMMA ThreadsGraceInv ==
    ASSUME IInv, GraceInv, ~exited, ClientSend \/ RemoteHeard \/ RecvError \/ Reconnect
    PROVE  GraceInv'
<1>1. UNCHANGED <<cfg, exited, remote_silent_total, remote_silent_count, client_idle_ticks>>
  BY DEF ClientSend, RemoteHeard, RecvError, Reconnect, Wake, DialBegin, DialOk, DialFail,
         counters
<1>2. Idled' /\ (GraceEnds' = GraceEnds) /\ (reconnect_needed => Due)'
  <2>1. Idled'
    BY <1>1 DEF GraceInv, Idled
  <2>2. GraceEnds' = GraceEnds
    BY <1>1 DEF GraceEnds, SilentChecks, ExitChecks
  <2>3. (reconnect_needed => Due)'
    BY DEF GraceInv, Due, ClientSend, RemoteHeard, RecvError, Reconnect, Wake, DialBegin,
           DialOk, DialFail, flags, socket
  <2> QED BY <2>1, <2>2, <2>3
<1>3. ASSUME cfg.exit > 0, GraceEnds PROVE Waning'
  BY <1>3, ThreadsWaning DEF GraceInv
<1> QED BY <1>1, <1>2, <1>3 DEF GraceInv

\* A tick takes from the grace period what it adds to the counts.  Only a dial
\* it asks for gives some back, once: the silent timeout is longer.
LEMMA TickSilentWaning ==
    ASSUME IInv, GraceInv, TickSilent, cfg.exit > 0, GraceEnds
    PROVE  IF exited' THEN quiet' <= 3 * Grace + 4 ELSE Waning'
<1>t. /\ Grace \in Nat /\ quiet \in Nat /\ remote_silent_total \in Nat
      /\ remote_silent_count \in Nat /\ Rest \in -1 .. Grace + 1
      /\ client_idle_ticks \in 0 .. Grace + 1 /\ last_active \in BOOLEAN
  BY CountsType DEF IInv
<1>l. /\ ~exited /\ ~last_remote_rx /\ last_remote_rx' = FALSE /\ last_active' = FALSE
      /\ IdleTicks <= Grace /\ client_idle_ticks' = IdleTicks /\ s2c' = s2c
      /\ remote_silent_total' = remote_silent_total + 1
  BY DEF TickSilent, SilentTick, Look, CountedSilence, CountSilence
<1>1. Rest' = Rest - 1 /\ Rest' >= 0 /\ Rest' \in Int /\ Rest' <= Grace
  BY <1>t, <1>l DEF Rest, IdleTicks, Least
<1>2. quiet' \in Nat /\ quiet' <= quiet + 1
  <2>1. quiet' = Next1(quiet) /\ quiet \in 0 .. Horizon
    BY TypeParts DEF TickSilent, SilentTick, Look, IInv, Counts
  <2> QED BY <2>1, Next1Type, HorizonAssumption, <1>t
<1>3. /\ remote_silent_count <= remote_silent_total /\ Waning
      /\ SilentChecks \in Nat /\ ExitChecks \in Nat
      /\ SilentChecks > 2 * Grace + 1 /\ ExitChecks > 2 * Grace + 1
  <2>1. cfg \in Configs
    BY DEF IInv, TypeOK
  <2> QED BY <1>l, <2>1, ChecksType DEF GraceInv, Idled, GraceEnds
\* The process gives up.
<1>4. CASE remote_silent_total' >= ExitChecks
  <2>1. exited'
    BY <1>4 DEF TickSilent, SilentTick
  <2>2. Due' = Due
    BY <1>4, <1>l DEF TickSilent, SilentTick, NoTrigger, Due
  <2>3. ~(Reach(remote_silent_total) <= 2 * Grace + 1)
    BY ExtraType, <1>t, <1>l, <1>1, <1>3, <1>4 DEF Reach
  <2>4. quiet + Rest <= 3 * Grace + 4
    BY ExtraType, <1>t, <1>3, <2>3 DEF Waning, Reach
  <2> QED BY <1>t, <1>1, <1>2, <2>1, <2>4
\* It asks for a dial.
<1>5. CASE remote_silent_total' < ExitChecks /\ remote_silent_count + 1 >= SilentChecks
  <2>1. ~exited' /\ remote_silent_count' = 0
    BY <1>5, <1>l, <1>t, <1>3 DEF TickSilent, SilentTick
  <2>2. Due' \in BOOLEAN /\ (Due => Due')
    BY <1>5, <1>l, <1>t, <1>3 DEF TickSilent, SilentTick, Trigger, Due
  <2>3. Reach(remote_silent_count)' <= 2 * Grace + 1
    BY <1>t, <1>1, <2>1, <2>2 DEF Reach, Rest, Extra, Due
  <2>4. CASE Due
    <3>1. Reach(quiet)' <= Reach(quiet)
      BY <1>t, <1>1, <1>2, <2>2, <2>4 DEF Reach, Rest, Extra, Due
    <3>2. Reach(remote_silent_total)' = Reach(remote_silent_total)
      BY <1>t, <1>l, <1>1, <2>2, <2>4 DEF Reach, Rest, Extra, Due
    <3> QED BY <1>3, <2>1, <2>3, <3>1, <3>2, <1>t, <1>1, <1>2 DEF Waning, Reach, Rest, Extra, Due
  <2>5. CASE ~Due
    <3>1. ~(Reach(remote_silent_total) <= 2 * Grace + 1)
      BY ExtraType, <1>t, <1>1, <1>3, <1>5, <2>5 DEF Reach
    <3>2. ~(Reach(remote_silent_count) <= 2 * Grace + 1)
      BY ExtraType, <1>t, <1>1, <1>3, <1>5, <2>5 DEF Reach
    <3>3. quiet + Rest <= 2 * Grace + 3
      <4>1. Reach(quiet) <= 2 * Grace + 3
        BY <1>3, <3>1, <3>2 DEF Waning
      <4> QED BY <1>t, <2>5, <4>1, ExtraType DEF Reach
    <3>4. Reach(quiet)' <= 3 * Grace + 4
      BY <1>t, <1>1, <1>2, <2>2, <3>3 DEF Reach, Rest, Extra, Due
    <3> QED BY <2>1, <2>3, <3>4 DEF Waning
  <2> QED BY <2>4, <2>5
\* It goes on waiting.
<1>6. CASE remote_silent_total' < ExitChecks /\ ~(remote_silent_count + 1 >= SilentChecks)
  <2>1. ~exited' /\ remote_silent_count' = remote_silent_count + 1 /\ link' = link
    BY <1>6, <1>l, <1>t, <1>3 DEF TickSilent, SilentTick, NoTrigger
  <2>2. Due' = Due
    BY <1>l, <2>1 DEF Due
  <2>3. /\ Reach(remote_silent_total)' = Reach(remote_silent_total)
        /\ Reach(remote_silent_count)' = Reach(remote_silent_count)
        /\ Reach(quiet)' <= Reach(quiet)
        /\ Reach(quiet)' \in Int /\ Reach(quiet) \in Int
    BY <1>t, <1>l, <1>1, <1>2, <2>1, <2>2 DEF Reach, Rest, Extra, Due
  <2> QED BY <1>t, <1>3, <2>1, <2>3 DEF Waning
<1>7. remote_silent_total' \in Int
  BY <1>t, <1>l
<1> QED BY <1>3, <1>4, <1>5, <1>6, <1>7

LEMMA TickGraceInv ==
    ASSUME IInv, GraceInv, Tick
    PROVE  GraceInv'
<1>t. /\ Grace \in Nat /\ quiet \in Nat /\ remote_silent_total \in Nat
      /\ remote_silent_count \in Nat /\ client_idle_ticks \in 0 .. Grace + 1
      /\ last_active \in BOOLEAN
  BY CountsType DEF IInv
<1>l. /\ ~exited /\ last_remote_rx' = FALSE /\ last_active' = FALSE /\ s2c' = s2c /\ cfg' = cfg
      /\ GraceEnds' = GraceEnds
  BY DEF Tick, TickHeard, TickSilent, SilentTick, TickIdle, Look, GraceEnds, SilentChecks,
         ExitChecks
<1>a. (reconnect_needed => Due)'
  BY <1>l DEF GraceInv, Due, Tick, TickHeard, TickSilent, SilentTick, TickIdle, Trigger, NoTrigger
<1>1. CASE TickHeard
  <2>1. /\ client_idle_ticks' = 0 /\ remote_silent_count' = 0 /\ remote_silent_total' = 0
        /\ exited' = exited
    BY <1>1 DEF TickHeard, HeardCounts
  <2>2. Rest' = Grace
    BY <1>t, <1>l, <2>1 DEF Rest
  <2>3. Reach(remote_silent_total)' <= 2 * Grace + 1
    BY <1>t, <2>1, <2>2 DEF Reach, Rest, Extra, Due
  <2> QED BY <1>t, <1>l, <1>a, <2>1, <2>3 DEF GraceInv, Idled, Waning
<1>2. CASE TickIdle
  <2>1. /\ client_idle_ticks' = Grace + 1 /\ remote_silent_count' = 0
        /\ remote_silent_total' = 0 /\ exited' = exited
    BY <1>2, <1>t DEF TickIdle, IdleTicks, Least
  <2>2. Rest' = -1
    BY <1>t, <1>l, <2>1 DEF Rest
  <2>3. Reach(remote_silent_total)' <= 2 * Grace + 1
    BY <1>t, <2>1, <2>2 DEF Reach, Rest, Extra, Due
  <2> QED BY <1>t, <1>l, <1>a, <2>1, <2>3 DEF GraceInv, Idled, Waning
<1>3. CASE TickSilent
  <2>1. client_idle_ticks' <= Grace /\ client_idle_ticks' \in Int
    BY <1>3, <1>t DEF TickSilent, SilentTick, IdleTicks, Least
  <2>2. cfg.exit > 0 => remote_silent_total' = remote_silent_total + 1
    BY <1>3 DEF TickSilent, SilentTick, CountedSilence, CountSilence
  <2>3. remote_silent_count' \in {0, remote_silent_count + 1}
    BY <1>3 DEF TickSilent, SilentTick
  <2>4. Idled'
    BY <1>t, <1>l, <2>1, <2>2, <2>3 DEF GraceInv, Idled
  <2> QED BY <1>3, <1>l, <1>a, <2>4, TickSilentWaning DEF GraceInv
<1> QED BY <1>1, <1>2, <1>3 DEF Tick

-----------------------------------------------------------------------------
(* The theorems.                                                           *)

LEMMA StepIInv ==
    ASSUME IInv, [Next]_vars
    PROVE  IInv'
<1>1. CASE Next
  BY <1>1, TickStep, ThreadsStep DEF Next
<1>2. CASE UNCHANGED vars
  BY <1>2 DEF vars, flags, socket, counters, history, IInv, TypeOK, Silence, Noted, Guarded,
              NoGuard, Counted, Checks, SilentChecks, ExitChecks
<1> QED BY <1>1, <1>2

THEOREM WatchdogIInv == Spec => []IInv
<1>1. Init => IInv
  BY InitIInv
<1>2. IInv /\ [Next]_vars => IInv'
  BY StepIInv
<1> QED BY <1>1, <1>2, PTL DEF Spec

\* The types and the limits of the counters: see TypeOK in Watchdog.tla.
THEOREM WatchdogTypeOK == Spec => []TypeOK
<1>1. IInv => TypeOK
  BY DEF IInv
<1> QED BY <1>1, WatchdogIInv, PTL

\* The exit guard fires neither late nor early, but for a note that was wiped
\* or an end of a receive that was taken for traffic: see ExitInTime in
\* Watchdog.tla, of proxy_control.c.
THEOREM WatchdogExitInTime == Spec => []ExitInTime
<1>1. IInv => ExitInTime
  <2> SUFFICES ASSUME IInv PROVE ExitInTime
    OBVIOUS
  <2>1. cfg \in Configs /\ ExitChecks \in Nat /\ cfg.exit \in Nat
        /\ lone \in Nat /\ remote_silent_total \in Nat
    BY ChecksType DEF IInv, TypeOK
  <2>2. ExitGuardUnlessEchoed
    BY <2>1 DEF IInv, Guarded, ExitGuardUnlessEchoed
  <2>3. ExitNotEarly
    BY <2>1 DEF IInv, Guarded, NoGuard, ExitNotEarly
  <2> QED BY <2>2, <2>3 DEF ExitInTime
<1> QED BY <1>1, WatchdogIInv, PTL

\* The process gives up only on a client that sent within three grace periods
\* and a tick, where the timeouts leave the grace period time to end: see
\* ExitOnlyWithClient in Watchdog.tla, of main.c:116-119.
THEOREM WatchdogExitOnlyWithClient == Spec => []ExitOnlyWithClient
<1>1. Init => IInv /\ GraceInv
  BY InitIInv, InitGraceInv
<1>2. IInv /\ GraceInv /\ [Next]_vars => (IInv /\ GraceInv)'
  <2> SUFFICES ASSUME IInv, GraceInv, [Next]_vars PROVE IInv' /\ GraceInv'
    OBVIOUS
  <2>1. CASE Next
    BY <2>1, TickGraceInv, ThreadsGraceInv, StepIInv DEF Next
  <2>2. CASE UNCHANGED vars
    BY <2>2, StepIInv
       DEF vars, flags, socket, counters, history, GraceInv, Idled, Waning, Reach, Rest, Extra, Due,
           GraceEnds, SilentChecks, ExitChecks
  <2> QED BY <2>1, <2>2
<1>3. IInv /\ GraceInv => ExitOnlyWithClient
  <2>1. IInv => Grace \in Nat /\ quiet \in Nat /\ cfg.exit \in Nat /\ (exited => cfg.exit > 0)
    BY CountsType, ChecksType DEF IInv, TypeOK, NoGuard
  <2> QED BY <2>1 DEF GraceInv, ExitOnlyWithClient, ExitMeansClient
<1> QED BY <1>1, <1>2, <1>3, PTL DEF Spec

\* The connection is broken only after as many silent ticks as the shorter
\* timeout: see NoEarlyTrigger in Watchdog.tla, of proxy_control.c.
THEOREM WatchdogNoEarlyTrigger == Spec => NoEarlyTrigger
<1> DEFINE Early == link = "up" /\ link' = "shut" =>
                       erased \/ deaf' >= Least(Horizon, Least(SilentChecks, Checks))
<1>1. IInv /\ [Next]_vars => [Early]_vars
  <2> SUFFICES ASSUME IInv, Next, link = "up", link' = "shut"
               PROVE  erased \/ deaf' >= Least(Horizon, Least(SilentChecks, Checks))
    OBVIOUS
  <2>1. TickSilent \/ TickIdle
    BY DEF Next, Tick, TickHeard, ClientSend, RemoteHeard, RecvError, Reconnect, Wake,
           DialBegin, DialOk, DialFail, socket
  <2>2. /\ Checks \in Nat \ {0} /\ SilentChecks \in Nat \ {0} /\ Horizon \in Nat \ {0}
        /\ deaf \in 0 .. Horizon /\ remote_silent_count \in Nat /\ inactive_count \in Nat
    BY ChecksType, HorizonAssumption DEF IInv, TypeOK
  <2>3. ~last_remote_rx /\ (deaf' = deaf + 1 \/ deaf' = Horizon)
    BY <2>1, <2>2, Next1Type DEF TickSilent, SilentTick, TickIdle, Look
  <2>4. \/ remote_silent_count + 1 >= SilentChecks
        \/ inactive_count + 1 >= Checks
    BY <2>1 DEF TickSilent, SilentTick, TickIdle, NoTrigger
  <2>5. erased \/ deaf' >= SilentChecks \/ deaf' >= Checks \/ deaf' = Horizon
    <3>1. \/ erased \/ deaf = Horizon
          \/ remote_silent_count <= deaf /\ inactive_count <= deaf
      BY <2>3 DEF IInv, Silence
    <3>2. deaf = Horizon => deaf' = Horizon
      BY <2>1, <2>2, Next1Type DEF TickSilent, SilentTick, TickIdle, Look
    <3> QED BY <2>2, <2>3, <2>4, <3>1, <3>2
  <2> QED BY <2>2, <2>3, <2>5 DEF Least
<1> QED BY <1>1, WatchdogIInv, PTL DEF Spec, NoEarlyTrigger

\* A redial the watchdog asked for leaves the preferred port, but for the end
\* of a receive that was taken for traffic: see RecoveryRotatesUnlessEchoed in
\* Watchdog.tla, of proxy_net.c:111-116.
THEOREM WatchdogRecoveryRotates == Spec => RecoveryRotatesUnlessEchoed
<1> DEFINE Rotates == recovery /\ cfg.drift /\ link = "down" /\ link' = "up"
                         => port' = "fresh" \/ echoed
<1>1. IInv /\ [Next]_vars => [Rotates]_vars
  <2> SUFFICES ASSUME IInv, Next, recovery, cfg.drift, link = "down", link' = "up"
               PROVE  port' = "fresh" \/ echoed
    OBVIOUS
  <2>1. DialOk
    BY DEF Next, Tick, TickHeard, TickSilent, SilentTick, TickIdle, Trigger, NoTrigger,
           ClientSend, RemoteHeard, RecvError, Reconnect, Wake, DialBegin, DialFail, socket
  <2> QED BY <2>1 DEF DialOk, IInv, Noted
<1> QED BY <1>1, WatchdogIInv, PTL DEF Spec, RecoveryRotatesUnlessEchoed

=============================================================================
