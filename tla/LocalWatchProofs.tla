-------------------------- MODULE LocalWatchProofs --------------------------
(***************************************************************************)
(* Proofs about the local thread and its timers, for every queue length,   *)
(* every alarm time and any set of sensors in use.                         *)
(*                                                                         *)
(* Every theorem follows from WatchInv, which is inductive.  Watched alone *)
(* is not: it has to be known which mail is in hand at which step, and     *)
(* that a key that is being read has its timer.  LedFollowsTimer and       *)
(* OnTime speak of a timer that runs while no mail of its own is in hand;  *)
(* what they need of the middle of the processing is LitWhileSetUp and     *)
(* CountsAgree.                                                            *)
(***************************************************************************)
EXTENDS LocalWatch, TLAPS

(* A mail added at the end leaves the others in the queue. *)
LEMMA AppendKeeps ==
    ASSUME NEW q \in Seq(Mail), NEW x \in Mail
    PROVE  /\ Append(q, x) \in Seq(Mail)
           /\ Len(Append(q, x)) = Len(q) + 1
           /\ \E i \in 1..Len(Append(q, x)) : Append(q, x)[i] = x
           /\ \A m : (\E i \in 1..Len(q) : q[i] = m)
                        => \E i \in 1..Len(Append(q, x)) : Append(q, x)[i] = m
<1>1. /\ Append(q, x) \in Seq(Mail) /\ Len(q) \in Nat
      /\ Len(Append(q, x)) = Len(q) + 1
      /\ Append(q, x)[Len(q) + 1] = x
      /\ \A i \in 1..Len(q) : Append(q, x)[i] = q[i]
    OBVIOUS
<1>2. Len(q) + 1 \in 1..Len(Append(q, x)) /\ 1..Len(q) \subseteq 1..Len(Append(q, x))
    BY <1>1
<1> QED
    BY <1>1, <1>2

(* A mail that is taken out leaves the others in the queue. *)
LEMMA TailKeeps ==
    ASSUME NEW q \in Seq(Mail), q # <<>>
    PROVE  /\ Tail(q) \in Seq(Mail) /\ Len(Tail(q)) <= Len(q) /\ Head(q) \in Mail
           /\ \A m : (\E i \in 1..Len(q) : q[i] = m)
                        => m = Head(q) \/ \E i \in 1..Len(Tail(q)) : Tail(q)[i] = m
<1>1. /\ Tail(q) \in Seq(Mail) /\ Len(q) \in Nat /\ Head(q) \in Mail
      /\ Len(Tail(q)) = Len(q) - 1 /\ Head(q) = q[1]
      /\ \A i \in 1..Len(q) - 1 : Tail(q)[i] = q[i + 1]
    OBVIOUS
<1>2. ASSUME NEW m, NEW i \in 1..Len(q), q[i] = m, m # Head(q)
      PROVE  \E j \in 1..Len(Tail(q)) : Tail(q)[j] = m
  <2>1. i - 1 \in 1..Len(Tail(q)) /\ Tail(q)[i - 1] = q[i]
      BY <1>1, <1>2
  <2> QED
      BY <1>2, <2>1
<1> QED
    BY <1>1, <1>2

-----------------------------------------------------------------------------
(* One lemma per action: it keeps WatchInv. *)

LEMMA InitKeeps == Init => WatchInv
<1> SUFFICES ASSUME Init PROVE WatchInv
    OBVIOUS
<1>1. scope \subseteq Watch
    BY ScopeAssumption DEF Init
<1>2. TypeOK
  <2>1. <<>> \in Seq(Mail) /\ Len(<<>>) = 0
      OBVIOUS
  <2>2. recent \in [Counted -> BOOLEAN]
    <3>1. PICK r \in BOOLEAN : recent = [w \in Counted |-> r /\ w \in scope]
        BY DEF Init
    <3>2. \A w \in Counted : (r /\ w \in scope) \in BOOLEAN
        OBVIOUS
    <3> QED
        BY <3>1, <3>2, Zenon
  <2>3. local_mq \in Seq(Mail) /\ Len(local_mq) <= MailMax
      BY <2>1, TimesAssumption DEF Init
  <2>4. /\ counts \in [Counted -> Nat] /\ due \in [Counted -> Nat] /\ waited \in [Counted -> Nat]
        /\ active \in [Watch -> BOOLEAN] /\ raced \in [Counted -> BOOLEAN]
        /\ episode \in [Watch -> Episode]
      BY DEF Init, Episode
  <2> QED
      BY <2>2, <2>3, <2>4 DEF Init, TypeOK
<1>3. Places /\ Watched /\ KeyTimed /\ LedFollowsTimer /\ LitWhileSetUp /\ CountsAgree
    BY DEF Init, Places, Watched, KeyTimed, LedFollowsTimer, LitWhileSetUp, CountsAgree, Counted, Watch
<1> QED
    BY <1>1, <1>2, <1>3 DEF WatchInv

(* A mail that is posted, or none *)
LEMMA QueueGrows ==
    ASSUME WatchInv, NEW x \in Mail, Posted(x) \/ UNCHANGED local_mq
    PROVE  /\ local_mq' \in Seq(Mail) /\ Len(local_mq') <= MailMax
           /\ \A m : Queued(m) => Queued(m)'
           /\ Posted(x) => Queued(x)'
<1>1. local_mq \in Seq(Mail) /\ Len(local_mq) <= MailMax /\ Len(local_mq) \in Nat /\ MailMax \in Nat
    BY TimesAssumption DEF WatchInv, TypeOK
<1>2. CASE Posted(x)
    BY <1>1, <1>2, AppendKeeps DEF Posted, Queued
<1>3. CASE UNCHANGED local_mq
  <2>1. ~Posted(x)
    <3>1. Len(Append(local_mq, x)) = Len(local_mq) + 1
        BY <1>1, AppendKeeps
    <3> QED
        BY <1>1, <1>3, <3>1 DEF Posted
  <2> QED
      BY <1>1, <1>3, <2>1 DEF Queued
<1> QED
    BY <1>2, <1>3

LEMMA BeginKeeps ==
    ASSUME WatchInv, NEW w \in scope, Begin(w)
    PROVE  WatchInv'
<1>1. w \in Watch /\ w \in Mail /\ scope \subseteq Watch
    BY DEF WatchInv, Mail
<1>2. /\ local_mq' \in Seq(Mail) /\ Len(local_mq') <= MailMax
      /\ \A m : Queued(m) => Queued(m)'
      /\ Posted(w) => Queued(w)'
    BY <1>1, QueueGrows DEF Begin
<1>3. recent' \in [Counted -> BOOLEAN] /\ episode' \in [Watch -> Episode]
    BY <1>1 DEF Begin, EdgeSeen, WatchInv, TypeOK, Episode
<1>4. TypeOK'
    BY <1>2, <1>3 DEF Begin, WatchInv, TypeOK, threadVars, timerVars, batteryVars, configVars
<1>5. \A v \in Watch : episode'[v] = "owed" => Queued(v)' \/ (v # w /\ episode[v] = "owed")
    BY <1>1, <1>2 DEF Begin, WatchInv, TypeOK
<1>6. Watched' /\ KeyTimed'
    BY <1>1, <1>2, <1>5 DEF WatchInv, Watched, KeyTimed, Watch, Begin, threadVars, timerVars
<1> QED
    BY <1>1, <1>4, <1>6 DEF Begin, WatchInv, Places, LedFollowsTimer, LitWhileSetUp, CountsAgree,
        threadVars, timerVars, configVars

LEMMA EndKeeps ==
    ASSUME WatchInv, NEW w \in scope, End(w)
    PROVE  WatchInv'
<1>1. w \in Watch /\ w \in Mail /\ scope \subseteq Watch
    BY DEF WatchInv, Mail
<1>2. /\ local_mq' \in Seq(Mail) /\ Len(local_mq') <= MailMax
      /\ \A m : Queued(m) => Queued(m)'
    BY <1>1, QueueGrows DEF End
<1>3. recent' \in [Counted -> BOOLEAN] /\ episode' \in [Watch -> Episode]
    BY <1>1 DEF End, EdgeSeen, WatchInv, TypeOK, Episode
<1>4. TypeOK'
    BY <1>2, <1>3 DEF End, WatchInv, TypeOK, threadVars, timerVars, batteryVars, configVars
<1>5. \A v \in Watch : episode'[v] = "owed" => episode[v] = "owed"
    BY <1>1 DEF End, WatchInv, TypeOK
<1>6. Watched' /\ KeyTimed'
    BY <1>1, <1>2, <1>5 DEF WatchInv, Watched, KeyTimed, Watch, End, threadVars, timerVars
<1> QED
    BY <1>1, <1>4, <1>6 DEF End, WatchInv, Places, LedFollowsTimer, LitWhileSetUp, CountsAgree,
        threadVars, timerVars, configVars

(* Steps that touch neither the episodes nor the thread nor its timers, nor take a mail out *)
LEMMA BesideKeeps ==
    ASSUME WatchInv, TypeOK', UNCHANGED <<episode, hand, at, timerVars, scope>>,
           \A m : Queued(m) => Queued(m)'
    PROVE  WatchInv'
<1>1. Watched' /\ KeyTimed'
    BY DEF WatchInv, Watched, KeyTimed, timerVars
<1> QED
    BY <1>1 DEF WatchInv, Places, LedFollowsTimer, LitWhileSetUp, CountsAgree, timerVars

LEMMA PauseKeeps ==
    ASSUME WatchInv, NEW w \in scope \cap Counted, Pause(w)
    PROVE  WatchInv'
<1>1. TypeOK'
    BY DEF Pause, WatchInv, TypeOK, threadVars, timerVars, batteryVars, configVars
<1> QED
    BY <1>1, BesideKeeps DEF Pause, Queued, threadVars, configVars

LEMMA SetTimeKeeps == ASSUME WatchInv, process_gprs_set_time PROVE WatchInv'
<1>1. TypeOK'
    BY DEF process_gprs_set_time, WatchInv, TypeOK, threadVars, timerVars, batteryVars, configVars
<1> QED
    BY <1>1, BesideKeeps DEF process_gprs_set_time, Queued, threadVars, configVars

LEMMA RingMailKeeps == ASSUME WatchInv, RingMail PROVE WatchInv'
<1>1. /\ local_mq' \in Seq(Mail) /\ Len(local_mq') <= MailMax
      /\ \A m : Queued(m) => Queued(m)'
    BY QueueGrows DEF RingMail, Mail
<1>2. TypeOK'
    BY <1>1 DEF RingMail, WatchInv, TypeOK, sensorVars, threadVars, timerVars, batteryVars, configVars
<1> QED
    BY <1>1, <1>2, BesideKeeps DEF RingMail, sensorVars, threadVars, configVars

LEMMA ParametersKeep ==
    ASSUME WatchInv, NEW t \in AlarmTimes, process_gprs_set_user_parameters(t)
    PROVE  WatchInv'
<1>1. TypeOK'
    BY DEF process_gprs_set_user_parameters, WatchInv, TypeOK, sensorVars, threadVars, timerVars, batteryVars
<1> QED
    BY <1>1, BesideKeeps DEF process_gprs_set_user_parameters, Queued, sensorVars, threadVars

LEMMA BatteryKeeps ==
    ASSUME WatchInv, BatteryLooks \/ \E level \in Levels : BatterySamples(level)
    PROVE  WatchInv'
<1>1. CASE BatteryLooks
  <2>1. TypeOK'
      BY <1>1 DEF BatteryLooks, WatchInv, TypeOK, sensorVars, threadVars, timerVars, configVars
  <2> QED
      BY <1>1, <2>1, BesideKeeps DEF BatteryLooks, Queued, sensorVars, threadVars, configVars
<1>2. ASSUME NEW level \in Levels, BatterySamples(level) PROVE WatchInv'
  <2>1. Posted("low") \/ UNCHANGED local_mq
      BY <1>2 DEF BatterySamples, Posted
  <2>2. /\ local_mq' \in Seq(Mail) /\ Len(local_mq') <= MailMax
        /\ \A m : Queued(m) => Queued(m)'
      BY <2>1, QueueGrows DEF Mail
  <2>3. status' \subseteq {"5P", "20P", "50P"}
      BY <1>2 DEF BatterySamples, WatchInv, TypeOK
  <2>4. TypeOK'
      BY <1>2, <2>2, <2>3 DEF BatterySamples, WatchInv, TypeOK, sensorVars, threadVars, timerVars, configVars
  <2> QED
      BY <1>2, <2>2, <2>4, BesideKeeps DEF BatterySamples, sensorVars, threadVars, configVars
<1> QED
    BY <1>1, <1>2

-----------------------------------------------------------------------------
(* The timeout functions *)

(* What stopping a timer does to the types and to the four statements about timers *)
LEMMA StopKeeps ==
    ASSUME WatchInv, NEW w \in Counted, TimerStop(w), UNCHANGED <<hand, at>>
    PROVE  /\ active' \in [Watch -> BOOLEAN] /\ ~active'[w]
           /\ \A v \in Watch : v # w => active'[v] = active[v]
           /\ counts' \in [Counted -> Nat] /\ due' \in [Counted -> Nat] /\ waited' \in [Counted -> Nat]
           /\ led' \in {"logo", "gate", "off"} /\ raced' \in [Counted -> BOOLEAN]
           /\ LedFollowsTimer' /\ LitWhileSetUp' /\ CountsAgree'
<1>1. w \in Watch /\ "gate" \in Watch /\ "gate" \in Counted /\ Counted \subseteq Watch
    BY DEF Counted, Watch
<1>2. /\ active' \in [Watch -> BOOLEAN] /\ ~active'[w]
      /\ \A v \in Watch : v # w => active'[v] = active[v]
    BY <1>1 DEF TimerStop, WatchInv, TypeOK
<1>3. /\ counts' \in [Counted -> Nat] /\ due' \in [Counted -> Nat] /\ waited' \in [Counted -> Nat]
      /\ \A v \in Counted : v # w => /\ counts'[v] = counts[v] /\ due'[v] = due[v]
                                     /\ waited'[v] = waited[v]
    BY DEF TimerStop, WatchInv, TypeOK
<1>4. /\ raced' \in [Counted -> BOOLEAN]
      /\ raced'[w] <=> hand = w
      /\ \A v \in Counted : v # w => raced'[v] = raced[v]
  <2>1. (hand = w) \in BOOLEAN
      OBVIOUS
  <2> QED
      BY <2>1 DEF TimerStop, WatchInv, TypeOK
<1>5. led' \in {"logo", "gate", "off"}
    BY DEF TimerStop, WatchInv, TypeOK
<1>6. LedFollowsTimer'
    BY <1>1, <1>2, <1>4 DEF TimerStop, WatchInv, LedFollowsTimer
<1>7. LitWhileSetUp'
    BY <1>1, <1>4 DEF TimerStop, WatchInv, LitWhileSetUp
<1>8. CountsAgree'
  <2> SUFFICES ASSUME NEW v \in Counted, ~raced'[v],
                      IF hand' = v THEN at' = "start" \/ (at' = "begin" /\ active'[v]) ELSE active'[v]
               PROVE  counts'[v] + waited'[v] = due'[v]
      BY DEF CountsAgree
  <2>1. v # w
      BY <1>2, <1>4
  <2>2. raced'[v] = raced[v] /\ active'[v] = active[v]
      BY <1>1, <1>2, <1>4, <2>1
  <2> QED
      BY <1>3, <2>1, <2>2 DEF WatchInv, CountsAgree
<1> QED
    BY <1>2, <1>3, <1>4, <1>5, <1>6, <1>7, <1>8

LEMMA TimeoutLooksKeeps ==
    ASSUME WatchInv, NEW w \in Counted, TimeoutLooks(w)
    PROVE  WatchInv'
<1>1. w \in Watch /\ w # "key" /\ Counted \subseteq Watch
    BY DEF Counted, Watch
<1>2. UNCHANGED <<hand, at, local_mq, scope, episode, recent, alarm_time, status, sampling>>
    BY DEF TimeoutLooks, sensorVars, threadVars, batteryVars, configVars
<1>3. CASE Pin(w) /\ counts' = [counts EXCEPT ![w] = @ - 1] /\ waited' = [waited EXCEPT ![w] = @ + 1]
           /\ UNCHANGED <<active, led, due, raced>>
  <2>1. /\ counts' \in [Counted -> Nat] /\ waited' \in [Counted -> Nat]
        /\ \A v \in Counted : counts'[v] + waited'[v] = counts[v] + waited[v]
    <3>1. counts[w] \in Nat /\ waited[w] \in Nat /\ counts[w] > 0
        BY DEF WatchInv, TypeOK, TimeoutLooks
    <3>2. counts[w] - 1 \in Nat /\ waited[w] + 1 \in Nat
          /\ (counts[w] - 1) + (waited[w] + 1) = counts[w] + waited[w]
        BY <3>1
    <3> QED
        BY <1>3, <3>2 DEF WatchInv, TypeOK
  <2>2. TypeOK'
      BY <1>2, <1>3, <2>1 DEF WatchInv, TypeOK
  <2>3. Watched' /\ KeyTimed'
      BY <1>2, <1>3 DEF WatchInv, Watched, KeyTimed, Queued
  <2>4. CountsAgree'
      BY <1>2, <1>3, <2>1 DEF WatchInv, CountsAgree
  <2> QED
      BY <1>2, <1>3, <2>2, <2>3, <2>4 DEF WatchInv, Places, LedFollowsTimer, LitWhileSetUp
<1>4. CASE ~Pin(w) /\ TimerStop(w)
  <2>1. TypeOK'
      BY <1>2, <1>4, StopKeeps DEF WatchInv, TypeOK
  <2>2. Watched' /\ KeyTimed'
    <3>1. \A v \in Watch : v # w => active'[v] = active[v]
        BY <1>2, <1>4, StopKeeps
    <3>2. episode[w] = "quiet" /\ "key" \in Watch
        BY <1>4 DEF Pin, Watch
    <3> QED
        BY <1>1, <1>2, <3>1, <3>2 DEF WatchInv, Watched, KeyTimed, Queued
  <2>3. LedFollowsTimer' /\ LitWhileSetUp' /\ CountsAgree'
      BY <1>2, <1>4, StopKeeps
  <2> QED
      BY <1>2, <2>1, <2>2, <2>3 DEF WatchInv, Places
<1> QED
    BY <1>3, <1>4 DEF TimeoutLooks

LEMMA TimeoutReportsKeeps ==
    ASSUME WatchInv, NEW w \in Counted, TimeoutReports(w)
    PROVE  WatchInv'
<1>1. w \in Watch /\ w # "key" /\ Counted \subseteq Watch /\ "key" \in Watch
    BY DEF Counted, Watch
<1>2. UNCHANGED <<hand, at, local_mq, scope, recent, alarm_time, status, sampling>>
    BY DEF TimeoutReports, threadVars, batteryVars, configVars
<1>3. TimerStop(w)
    BY DEF TimeoutReports
<1>4. /\ episode' \in [Watch -> Episode] /\ episode'[w] # "owed"
      /\ \A v \in Watch : v # w => episode'[v] = episode[v]
    BY <1>1 DEF TimeoutReports, Pin, WatchInv, TypeOK, Episode
<1>5. TypeOK'
    BY <1>2, <1>3, <1>4, StopKeeps DEF WatchInv, TypeOK
<1>6. Watched' /\ KeyTimed'
  <2>1. \A v \in Watch : v # w => active'[v] = active[v]
      BY <1>2, <1>3, StopKeeps
  <2> QED
      BY <1>1, <1>2, <1>4, <2>1 DEF WatchInv, Watched, KeyTimed, Queued
<1>7. LedFollowsTimer' /\ LitWhileSetUp' /\ CountsAgree'
    BY <1>2, <1>3, StopKeeps
<1> QED
    BY <1>2, <1>5, <1>6, <1>7 DEF WatchInv, Places

LEMMA KeyTimeoutKeeps == ASSUME WatchInv, rfid_key_detect_timeout PROVE WatchInv'
<1>1. UNCHANGED <<hand, at, local_mq, scope, recent, counts, led, due, waited, raced,
                  alarm_time, status, sampling>>
    BY DEF rfid_key_detect_timeout, threadVars, batteryVars, configVars
<1>2. "key" \in Watch /\ "key" \notin Counted /\ Counted \subseteq Watch /\ "gate" \in Counted
    BY DEF Watch, Counted
<1>3. /\ episode' \in [Watch -> Episode] /\ episode'["key"] # "owed"
      /\ \A v \in Watch : v # "key" => episode'[v] = episode[v]
    BY <1>2 DEF rfid_key_detect_timeout, Pin, WatchInv, TypeOK, Episode
<1>4. active' \in [Watch -> BOOLEAN] /\ \A v \in Watch : v # "key" => active'[v] = active[v]
    BY <1>2 DEF rfid_key_detect_timeout, WatchInv, TypeOK
<1>5. TypeOK'
    BY <1>1, <1>3, <1>4 DEF WatchInv, TypeOK
<1>6. Watched' /\ KeyTimed'
    BY <1>1, <1>2, <1>3, <1>4 DEF WatchInv, Watched, KeyTimed, Queued
<1>7. LedFollowsTimer' /\ LitWhileSetUp'
    BY <1>1, <1>2, <1>4 DEF WatchInv, LedFollowsTimer, LitWhileSetUp
<1>8. CountsAgree'
    BY <1>1, <1>2, <1>4 DEF WatchInv, CountsAgree
<1> QED
    BY <1>1, <1>5, <1>6, <1>7, <1>8 DEF WatchInv, Places

-----------------------------------------------------------------------------
(* The local thread *)

LEMMA RecvKeeps == ASSUME WatchInv, Recv PROVE WatchInv'
<1>1. UNCHANGED <<scope, episode, recent, active, counts, led, due, waited, raced,
                  alarm_time, status, sampling>>
    BY DEF Recv, sensorVars, timerVars, batteryVars, configVars
<1>2. /\ at = "recv" /\ hand = "none" /\ at' = "begin" /\ hand' = Head(local_mq)
      /\ local_mq' = Tail(local_mq) /\ local_mq # <<>>
    BY DEF Recv, Goto, WatchInv, Places
<1>3. /\ local_mq' \in Seq(Mail) /\ Len(local_mq') <= Len(local_mq) /\ hand' \in Mail
      /\ \A m : Queued(m) => m = hand' \/ Queued(m)'
    BY <1>2, TailKeeps DEF WatchInv, TypeOK, Queued
<1>4. hand' # "none"
    BY <1>3 DEF Mail, Watch
<1>5. Len(local_mq') <= MailMax
  <2>1. Len(local_mq) \in Nat /\ Len(local_mq') \in Nat /\ Len(local_mq) <= MailMax
      BY <1>3 DEF WatchInv, TypeOK
  <2> QED
      BY <1>3, <2>1, TimesAssumption
<1>6. TypeOK'
    BY <1>1, <1>2, <1>3, <1>5 DEF WatchInv, TypeOK
<1>7. Watched'
  <2>1. \A w \in Watch : hand # w
      BY <1>2 DEF Watch
  <2> QED
      BY <1>1, <1>3, <2>1 DEF WatchInv, Watched
<1>8. KeyTimed' /\ Places'
    BY <1>2, <1>4 DEF KeyTimed, Places
<1>9. LedFollowsTimer' /\ LitWhileSetUp'
    BY <1>1, <1>2 DEF WatchInv, LedFollowsTimer, LitWhileSetUp
<1>10. CountsAgree'
  <2>1. \A w \in Counted : hand # w
      BY <1>2 DEF Counted
  <2> QED
      BY <1>1, <1>2, <2>1 DEF WatchInv, CountsAgree
<1> QED
    BY <1>1, <1>6, <1>7, <1>8, <1>9, <1>10 DEF WatchInv

(* Steps that only move on within, or end, a mail that has no counts and is no key *)
LEMMA MovesOnKeeps ==
    ASSUME WatchInv, hand \in {"low", "ring"}, TypeOK', Places',
           UNCHANGED <<episode, local_mq, active, counts, led, due, waited, raced, scope>>,
           hand' \in {"none", "ring"}, at' # "read"
    PROVE  WatchInv'
<1>1. \A w \in Watch : hand # w /\ hand' # w
    BY DEF Watch
<1>2. Counted \subseteq Watch /\ "gate" \in Watch
    BY DEF Counted, Watch
<1>3. Watched' /\ KeyTimed' /\ LedFollowsTimer' /\ LitWhileSetUp'
    BY <1>1, <1>2 DEF WatchInv, Watched, KeyTimed, LedFollowsTimer, LitWhileSetUp, Queued
<1>4. CountsAgree'
    BY <1>1, <1>2 DEF WatchInv, CountsAgree
<1> QED
    BY <1>3, <1>4 DEF WatchInv

LEMMA UnlockKeeps == ASSUME WatchInv, Unlock PROVE WatchInv'
<1>1. TypeOK' /\ Places'
    BY DEF Unlock, Done, Goto, WatchInv, TypeOK, Places, Counted, sensorVars, timerVars, batteryVars, configVars
<1> QED
    BY <1>1, MovesOnKeeps DEF Unlock, Done, Goto, sensorVars, timerVars, configVars

LEMMA RingKeeps == ASSUME WatchInv, gsm_ring_process PROVE WatchInv'
<1>1. TypeOK' /\ Places'
    BY DEF gsm_ring_process, Done, Goto, WatchInv, TypeOK, Places, Counted, Mail,
        sensorVars, timerVars, batteryVars, configVars
<1> QED
    BY <1>1, MovesOnKeeps DEF gsm_ring_process, Done, Goto, sensorVars, timerVars, configVars

LEMMA ProcessBeginsKeeps == ASSUME WatchInv, ProcessBegins PROVE WatchInv'
<1>1. UNCHANGED <<episode, recent, local_mq, active, counts, due, waited, scope,
                  alarm_time, status, sampling>>
    BY DEF ProcessBegins, sensorVars, batteryVars, configVars
<1>2. "gate" \in Counted /\ "switch" \in Counted /\ Counted \subseteq Watch
    BY DEF Counted, Watch
<1>3. CASE hand = "gate" /\ at = "begin" /\ led' = "gate"
           /\ raced' = [raced EXCEPT !["gate"] = FALSE] /\ hand' = "gate" /\ at' = "test"
  <2>1. raced' \in [Counted -> BOOLEAN] /\ raced'["switch"] = raced["switch"]
      BY <1>2, <1>3 DEF WatchInv, TypeOK
  <2>2. TypeOK' /\ Places'
      BY <1>1, <1>3, <2>1 DEF WatchInv, TypeOK, Places, Mail, Watch
  <2>3. Watched' /\ KeyTimed' /\ LedFollowsTimer' /\ LitWhileSetUp'
      BY <1>1, <1>3 DEF WatchInv, Watched, KeyTimed, LedFollowsTimer, LitWhileSetUp, Queued
  <2>4. CountsAgree'
      BY <1>1, <1>3, <2>1 DEF WatchInv, CountsAgree, Counted
  <2> QED
      BY <1>1, <2>2, <2>3, <2>4 DEF WatchInv
<1>4. CASE hand = "switch" /\ at = "begin" /\ raced' = [raced EXCEPT !["switch"] = FALSE]
           /\ hand' = "switch" /\ at' = "set" /\ UNCHANGED led
  <2>1. raced' \in [Counted -> BOOLEAN] /\ raced'["gate"] = raced["gate"]
      BY <1>2, <1>4 DEF WatchInv, TypeOK
  <2>2. TypeOK' /\ Places'
      BY <1>1, <1>2, <1>4, <2>1 DEF WatchInv, TypeOK, Places, Mail, Watch
  <2>3. Watched' /\ KeyTimed' /\ LedFollowsTimer' /\ LitWhileSetUp'
      BY <1>1, <1>4, <2>1 DEF WatchInv, Watched, KeyTimed, LedFollowsTimer, LitWhileSetUp, Queued
  <2>4. CountsAgree'
      BY <1>1, <1>4, <2>1 DEF WatchInv, CountsAgree, Counted
  <2> QED
      BY <1>1, <2>2, <2>3, <2>4 DEF WatchInv
<1>5. CASE hand = "switch" /\ at = "begin" /\ ~Pin("switch")
           /\ hand' = "none" /\ at' = "recv" /\ UNCHANGED <<led, raced>>
  <2>1. TypeOK' /\ Places'
      BY <1>1, <1>5 DEF WatchInv, TypeOK, Places, Counted
  <2>2. Watched' /\ KeyTimed' /\ LedFollowsTimer' /\ LitWhileSetUp'
      BY <1>1, <1>5 DEF WatchInv, Watched, KeyTimed, LedFollowsTimer, LitWhileSetUp, Queued, Pin
  <2>3. CountsAgree'
      BY <1>1, <1>5 DEF WatchInv, CountsAgree, Counted
  <2> QED
      BY <1>1, <2>1, <2>2, <2>3 DEF WatchInv
<1> QED
    BY <1>3, <1>4, <1>5 DEF ProcessBegins, Goto, Done

LEMMA TestKeeps == ASSUME WatchInv, lock_gate_process_test PROVE WatchInv'
<1>1. UNCHANGED <<episode, recent, local_mq, active, counts, led, due, waited, raced, scope,
                  alarm_time, status, sampling>>
    BY DEF lock_gate_process_test, sensorVars, timerVars, batteryVars, configVars
<1>2. hand = "gate" /\ at = "test" /\ hand' = "gate" /\ at' \in {"default", "set"}
    BY DEF lock_gate_process_test, Goto
<1>3. TypeOK' /\ Places'
    BY <1>1, <1>2 DEF WatchInv, TypeOK, Places, Counted
<1>4. Watched' /\ KeyTimed' /\ LedFollowsTimer' /\ LitWhileSetUp'
    BY <1>1, <1>2 DEF WatchInv, Watched, KeyTimed, LedFollowsTimer, LitWhileSetUp, Queued
<1>5. CountsAgree'
    BY <1>1, <1>2 DEF WatchInv, CountsAgree, Counted
<1> QED
    BY <1>1, <1>3, <1>4, <1>5 DEF WatchInv

(* Whichever of its three values is assigned, the counts are a natural number. *)
LEMMA CountsForType == ASSUME TypeOK, NEW w PROVE CountsFor(w) \in Nat
<1>1. SwitchCounts \in Nat /\ TimeDefault \in Nat /\ alarm_time \in Nat
    BY TimesAssumption DEF TypeOK
<1> QED
    BY <1>1 DEF CountsFor

LEMMA SetsCountsKeeps == ASSUME WatchInv, ProcessSetsCounts PROVE WatchInv'
<1>1. UNCHANGED <<episode, recent, local_mq, active, led, raced, scope, alarm_time, status, sampling, hand>>
    BY DEF ProcessSetsCounts, Goto, sensorVars, batteryVars, configVars
<1>2. hand \in Counted /\ at \in {"set", "default"} /\ at' = "start"
    BY DEF ProcessSetsCounts, Goto
<1>3. PICK n \in Nat : /\ counts' = [counts EXCEPT ![hand] = n] /\ due' = [due EXCEPT ![hand] = n]
                       /\ waited' = [waited EXCEPT ![hand] = 0]
    BY CountsForType DEF ProcessSetsCounts, WatchInv
<1>4. /\ counts' \in [Counted -> Nat] /\ due' \in [Counted -> Nat] /\ waited' \in [Counted -> Nat]
      /\ counts'[hand] + waited'[hand] = due'[hand]
      /\ \A v \in Counted : v # hand => /\ counts'[v] = counts[v] /\ due'[v] = due[v]
                                        /\ waited'[v] = waited[v]
    BY <1>2, <1>3 DEF WatchInv, TypeOK
<1>5. TypeOK' /\ Places'
    BY <1>1, <1>2, <1>4 DEF WatchInv, TypeOK, Places, Counted
<1>6. Watched' /\ KeyTimed' /\ LedFollowsTimer' /\ LitWhileSetUp'
    BY <1>1, <1>2 DEF WatchInv, Watched, KeyTimed, LedFollowsTimer, LitWhileSetUp, Queued
<1>7. CountsAgree'
    BY <1>1, <1>2, <1>4 DEF WatchInv, CountsAgree
<1> QED
    BY <1>1, <1>5, <1>6, <1>7 DEF WatchInv

LEMMA StartsTimerKeeps == ASSUME WatchInv, ProcessStartsTimer PROVE WatchInv'
<1>1. UNCHANGED <<episode, recent, local_mq, counts, led, due, waited, raced, scope,
                  alarm_time, status, sampling>>
    BY DEF ProcessStartsTimer, sensorVars, batteryVars, configVars
<1>2. hand \in Counted /\ at = "start" /\ hand' = "none" /\ at' = "recv"
    BY DEF ProcessStartsTimer, Done, Goto
<1>3. "key" \notin Counted /\ "none" \notin Watch /\ Counted \subseteq Watch /\ "gate" \in Counted
    BY DEF Watch, Counted
<1>4. /\ active' \in [Watch -> BOOLEAN] /\ active'[hand]
      /\ \A v \in Watch : v # hand => active'[v] = active[v]
    BY <1>2, <1>3 DEF ProcessStartsTimer, WatchInv, TypeOK
<1>5. TypeOK' /\ Places'
    BY <1>1, <1>2, <1>4 DEF WatchInv, TypeOK, Places, Counted
<1>6. Watched' /\ KeyTimed'
    BY <1>1, <1>2, <1>4 DEF WatchInv, Watched, KeyTimed, Queued
<1>7. LedFollowsTimer' /\ LitWhileSetUp'
    BY <1>1, <1>2, <1>3, <1>4 DEF WatchInv, LedFollowsTimer, LitWhileSetUp
<1>8. CountsAgree'
    BY <1>1, <1>2, <1>3, <1>4 DEF WatchInv, CountsAgree
<1> QED
    BY <1>1, <1>5, <1>6, <1>7, <1>8 DEF WatchInv

LEMMA KeyProcessKeeps == ASSUME WatchInv, rfid_key_detect_process PROVE WatchInv'
<1>1. UNCHANGED <<episode, recent, local_mq, counts, led, due, waited, raced, scope,
                  alarm_time, status, sampling>>
    BY DEF rfid_key_detect_process, sensorVars, batteryVars, configVars
<1>2. hand = "key" /\ at = "begin"
    BY DEF rfid_key_detect_process
<1>3. "key" \notin Counted /\ "key" \in Watch /\ "none" \notin Watch /\ Counted \subseteq Watch
      /\ "gate" \in Counted
    BY DEF Watch, Counted
<1>4. CASE active' = [active EXCEPT !["key"] = TRUE] /\ hand' = "key" /\ at' = "read"
  <2>1. /\ active' \in [Watch -> BOOLEAN] /\ active'["key"]
        /\ \A v \in Watch : v # "key" => active'[v] = active[v]
      BY <1>3, <1>4 DEF WatchInv, TypeOK
  <2>2. TypeOK' /\ Places'
      BY <1>1, <1>4, <2>1 DEF WatchInv, TypeOK, Places, Mail, Watch
  <2>3. Watched' /\ KeyTimed'
      BY <1>1, <1>2, <1>4, <2>1 DEF WatchInv, Watched, KeyTimed, Queued
  <2>4. LedFollowsTimer' /\ LitWhileSetUp' /\ CountsAgree'
      BY <1>1, <1>2, <1>3, <1>4, <2>1 DEF WatchInv, LedFollowsTimer, LitWhileSetUp, CountsAgree
  <2> QED
      BY <1>1, <2>2, <2>3, <2>4 DEF WatchInv
<1>5. CASE ~Pin("key") /\ hand' = "none" /\ at' = "recv" /\ UNCHANGED active
  <2>1. TypeOK' /\ Places'
      BY <1>1, <1>5 DEF WatchInv, TypeOK, Places
  <2>2. Watched' /\ KeyTimed'
      BY <1>1, <1>2, <1>5 DEF WatchInv, Watched, KeyTimed, Queued, Pin
  <2>3. LedFollowsTimer' /\ LitWhileSetUp' /\ CountsAgree'
      BY <1>1, <1>2, <1>3, <1>5 DEF WatchInv, LedFollowsTimer, LitWhileSetUp, CountsAgree
  <2> QED
      BY <1>1, <2>1, <2>2, <2>3 DEF WatchInv
<1> QED
    BY <1>4, <1>5 DEF rfid_key_detect_process, Goto, Done

LEMMA ReadKeyKeeps == ASSUME WatchInv, ReadKey PROVE WatchInv'
<1>1. UNCHANGED <<episode, recent, local_mq, active, counts, led, due, waited, raced, scope,
                  alarm_time, status, sampling>>
    BY DEF ReadKey, sensorVars, timerVars, batteryVars, configVars
<1>2. hand = "key" /\ at = "read" /\ hand' = "none" /\ at' = "recv"
    BY DEF ReadKey, Done, Goto
<1>3. "key" \notin Counted /\ "none" \notin Watch /\ Counted \subseteq Watch /\ "gate" \in Counted
    BY DEF Watch, Counted
<1>4. TypeOK' /\ Places'
    BY <1>1, <1>2 DEF WatchInv, TypeOK, Places
<1>5. Watched' /\ KeyTimed'
    BY <1>1, <1>2 DEF WatchInv, Watched, KeyTimed, Queued
<1>6. LedFollowsTimer' /\ LitWhileSetUp' /\ CountsAgree'
    BY <1>1, <1>2, <1>3 DEF WatchInv, LedFollowsTimer, LitWhileSetUp, CountsAgree
<1> QED
    BY <1>1, <1>4, <1>5, <1>6 DEF WatchInv

-----------------------------------------------------------------------------
LEMMA StutterKeeps == ASSUME WatchInv, UNCHANGED vars PROVE WatchInv'
<1>1. TypeOK' /\ UNCHANGED <<episode, hand, at, timerVars, scope, local_mq>>
    BY DEF WatchInv, TypeOK, vars, sensorVars, threadVars, timerVars, batteryVars, configVars
<1> QED
    BY <1>1, BesideKeeps DEF Queued

LEMMA LocalStepKeeps == ASSUME WatchInv, LocalStep PROVE WatchInv'
    BY RecvKeeps, UnlockKeeps, RingKeeps, ProcessBeginsKeeps, TestKeeps, SetsCountsKeeps,
       StartsTimerKeeps, KeyProcessKeeps, ReadKeyKeeps DEF LocalStep

(***************************************************************************)
(* WatchInv holds in every state, whatever sensors, timeouts, calls, keys, *)
(* frames of the server and the battery thread do between the steps of the *)
(* local thread (local.c, gpio_exti.c, battery.c).                         *)
(***************************************************************************)
THEOREM WatchInvariant == Spec => []WatchInv
<1>1. WatchInv /\ [Next]_vars => WatchInv'
  <2> SUFFICES ASSUME WatchInv, [Next]_vars PROVE WatchInv'
      OBVIOUS
  <2>1. CASE \E w \in scope : Begin(w) \/ End(w)
      BY <2>1, BeginKeeps, EndKeeps
  <2>2. CASE \E w \in Watch : Timeout(w)
      BY <2>2, TimeoutLooksKeeps, TimeoutReportsKeeps, KeyTimeoutKeeps DEF Timeout
  <2>3. CASE \E w \in scope \cap Counted : Pause(w)
      BY <2>3, PauseKeeps
  <2>4. CASE RingMail \/ process_gprs_set_time
      BY <2>4, RingMailKeeps, SetTimeKeeps
  <2>5. CASE \E t \in AlarmTimes : process_gprs_set_user_parameters(t)
      BY <2>5, ParametersKeep
  <2>6. CASE LocalStep
      BY <2>6, LocalStepKeeps
  <2>7. CASE BatteryLooks \/ \E level \in Levels : BatterySamples(level)
      BY <2>7, BatteryKeeps
  <2>8. CASE UNCHANGED vars
      BY <2>8, StutterKeeps
  <2> QED
      BY <2>1, <2>2, <2>3, <2>4, <2>5, <2>6, <2>7, <2>8 DEF Next
<1> QED
    BY InitKeeps, <1>1, PTL DEF Spec

(* Every variable of the local thread, its timers and sensors keeps its type. *)
THEOREM WatchTypes == Spec => []TypeOK
<1>1. WatchInv => TypeOK
    BY DEF WatchInv
<1> QED
    BY WatchInvariant, <1>1, PTL

(***************************************************************************)
(* A gate left open, a lost supply or a key left in that was posted and    *)
(* not yet reported has its mail under way or its timer running: the       *)
(* timeout functions of local.c stop a timer only for what is over or has  *)
(* just been reported.                                                     *)
(***************************************************************************)
THEOREM NothingUnwatched == Spec => []Watched
<1>1. WatchInv => Watched
    BY DEF WatchInv
<1> QED
    BY WatchInvariant, <1>1, PTL

(***************************************************************************)
(* The LED of lock_gate_process goes out with the gate's timer and shines  *)
(* as long as it, unless a timeout came between the two halves.            *)
(***************************************************************************)
THEOREM LedIsRight == Spec => []LedFollowsTimer
<1>1. WatchInv => LedFollowsTimer
    BY DEF WatchInv
<1> QED
    BY WatchInvariant, <1>1, PTL

(***************************************************************************)
(* Timeouts counted and counts left of lock_gate_timeout and               *)
(* battery_switch_timeout add up to what the last mail assigned, so that   *)
(* the report comes on time, unless the timer was stopped in between.      *)
(***************************************************************************)
THEOREM ReportsOnTime == Spec => []OnTime
<1>1. WatchInv => OnTime
    BY DEF WatchInv, CountsAgree, OnTime
<1> QED
    BY WatchInvariant, <1>1, PTL
=============================================================================
