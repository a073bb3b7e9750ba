----------------------------- MODULE LocalWatch -----------------------------
(***************************************************************************)
(* The local thread and what it watches.  A gate that is opened, a supply  *)
(* that is switched to the battery and a key that is put in are reported   *)
(* by interrupts; the local thread starts a periodic timer for each, whose *)
(* timeout function looks again and reports a state that lasts.  Beside it *)
(* the battery thread samples the voltage and has the local thread unlock  *)
(* when it is nearly gone.                                                 *)
(*                                                                         *)
(* Timeout functions run in the tick interrupt with interrupts disabled;   *)
(* they and the sensors' interrupts come between any two steps of the      *)
(* threads.  The gsm thread (priority 100) preempts the local thread (102) *)
(* when it stores new parameters; the battery thread (120) runs only while *)
(* the local thread waits.                                                 *)
(*                                                                         *)
(* Time is not counted.  An edge is debounced if no pause of more than     *)
(* ALARM_INTERVAL seconds came before it, and a timer that is active       *)
(* fires at some time.                                                     *)
(***************************************************************************)
EXTENDS Integers, Sequences

CONSTANTS MailMax,       \* LOCAL_MAIL_MAX_MSGS
          AlarmTimes,    \* values of lock_gate_alarm_time that the server may send
          TimeMax,       \* the largest one that is used (99)
          TimeDefault,   \* used instead of a larger one (30)
          SwitchCounts,  \* battery_switch_timeout_counts at the start (20)
          Scopes,        \* sets of sensors: a behaviour uses those of one of them
          Levels,        \* the readings of the battery looked at
          ClockUnset     \* may the clock stand at its beginning, or be set back?

ASSUME TimesAssumption ==
    /\ MailMax \in Nat \ {0}
    /\ AlarmTimes \subseteq Nat /\ AlarmTimes # {}
    /\ TimeMax \in Nat /\ TimeDefault \in Nat /\ SwitchCounts \in Nat
    /\ ClockUnset \in BOOLEAN

Watch == {"gate", "switch", "key"}
Counted == {"gate", "switch"}       \* the debounced ones, with timeout counts
Mail == Watch \cup {"ring", "low"}
Level == {"5P", "20P", "50P", "full"}

ASSUME ScopeAssumption == Scopes \subseteq SUBSET Watch /\ Levels \subseteq Level

(***************************************************************************)
(* What became of the last time the gate was opened, the supply lost or    *)
(* the key put in: "quiet" when that is over, "owed" when a mail was       *)
(* posted and nothing reported yet, "dropped" by the debouncing, "settled" *)
(* when a report was sent or the mail got lost on its way.                 *)
(***************************************************************************)
Episode == {"quiet", "owed", "dropped", "settled"}

VARIABLES
    scope,        \* the sensors in use
    episode,      \* per watch
    recent,       \* per counted watch: no pause since the last edge
    local_mq,
    hand, at,     \* local thread: the mail being processed, the next step
    active,       \* per watch: RT_TIMER_FLAG_ACTIVATED
    counts,       \* per counted watch: ..._timeout_counts
    led,          \* LOGO_LED: "logo" from start-up, "gate" while watched, "off"
    alarm_time,   \* device_parameters.lock_gate_alarm_time
    status,       \* battery_status: the levels already reported
    sampling,     \* the battery thread has seen the supply lost and samples
    due, waited,  \* per counted watch: counts set last, timeouts since then
    raced         \* per counted watch: the timer was stopped while being set up

sensorVars == <<episode, recent>>
threadVars == <<hand, at>>
timerVars == <<active, counts, led, due, waited, raced>>
batteryVars == <<status, sampling>>
configVars == <<alarm_time, scope>>
vars == <<sensorVars, threadVars, timerVars, batteryVars, local_mq, configVars>>

Pin(w) == episode[w] # "quiet"

Init ==
    /\ scope \in Scopes
    /\ episode = [w \in Watch |-> "quiet"]
    /\ \E r \in {FALSE, ClockUnset} : recent = [w \in Counted |-> r /\ w \in scope]
    /\ local_mq = <<>>
    /\ hand = "none" /\ at = "recv"
    /\ active = [w \in Watch |-> FALSE]
    /\ counts = [w \in Counted |-> 0]
    /\ led = "logo"
    /\ alarm_time \in AlarmTimes
    /\ status = {} /\ sampling = FALSE
    /\ due = [w \in Counted |-> 0] /\ waited = [w \in Counted |-> 0]
    /\ raced = [w \in Counted |-> FALSE]

-----------------------------------------------------------------------------
(* Sensors *)

(* A mail takes its way through alarm_mq to local_mq, or gets lost on it (AlarmPipeline). *)
Posted(m) == Len(local_mq) < MailMax /\ local_mq' = Append(local_mq, m)

Debounces(w) == w \in Counted /\ recent[w]
EdgeSeen(w) == recent' = IF w \in Counted THEN [recent EXCEPT ![w] = TRUE] ELSE recent

(* The gate opens, the supply fails, the key is put in. *)
Begin(w) ==
    /\ episode[w] = "quiet"
    /\ EdgeSeen(w)
    /\ \/ /\ Debounces(w)
          /\ episode' = [episode EXCEPT ![w] = "dropped"]
          /\ UNCHANGED local_mq
       \/ /\ ~Debounces(w)
          /\ Posted(w)
          /\ episode' = [episode EXCEPT ![w] = "owed"]
       \/ /\ ~Debounces(w)
          /\ episode' = [episode EXCEPT ![w] = "settled"]
          /\ UNCHANGED local_mq
    /\ UNCHANGED <<threadVars, timerVars, batteryVars, configVars>>

(* It ends.  Only the supply's sensor interrupts on this edge, too. *)
End(w) ==
    /\ Pin(w)
    /\ episode' = [episode EXCEPT ![w] = "quiet"]
    /\ \/ w # "switch" /\ UNCHANGED <<recent, local_mq>>
       \/ w = "switch" /\ EdgeSeen(w) /\ UNCHANGED local_mq
       \/ w = "switch" /\ ~Debounces(w) /\ EdgeSeen(w) /\ Posted(w)
    /\ UNCHANGED <<threadVars, timerVars, batteryVars, configVars>>

(* More than ALARM_INTERVAL seconds without an edge, or the clock is set ahead. *)
Pause(w) ==
    /\ recent[w]
    /\ recent' = [recent EXCEPT ![w] = FALSE]
    /\ UNCHANGED <<episode, local_mq, threadVars, timerVars, batteryVars, configVars>>

(* The ring line. *)
RingMail ==
    /\ Posted("ring")
    /\ UNCHANGED <<sensorVars, threadVars, timerVars, batteryVars, configVars>>

-----------------------------------------------------------------------------
(* Frames of the server *)

process_gprs_set_user_parameters(t) ==
    /\ t # alarm_time
    /\ alarm_time' = t
    /\ UNCHANGED <<sensorVars, local_mq, threadVars, timerVars, batteryVars, scope>>

(* The clock is set back: until it has caught up, no pause is long enough. *)
process_gprs_set_time ==
    /\ ClockUnset
    /\ \E w \in scope \cap Counted : ~recent[w]
    /\ recent' = [w \in Counted |-> w \in scope]
    /\ UNCHANGED <<episode, local_mq, threadVars, timerVars, batteryVars, configVars>>

-----------------------------------------------------------------------------
(* Timeout functions *)

(* mutants: counts that have run out are left as they are; the LED stays on *)
MutCountsLeft(w) ==
    /\ active' = [active EXCEPT ![w] = FALSE]
    /\ counts' = [counts EXCEPT ![w] = @ - 1]
    /\ led' = IF w = "gate" THEN "off" ELSE led
    /\ waited' = [waited EXCEPT ![w] = 0]
    /\ raced' = [raced EXCEPT ![w] = hand = w]
    /\ UNCHANGED due
MutLedStays(w) ==
    /\ active' = [active EXCEPT ![w] = FALSE]
    /\ counts' = [counts EXCEPT ![w] = 0]
    /\ waited' = [waited EXCEPT ![w] = 0]
    /\ raced' = [raced EXCEPT ![w] = hand = w]
    /\ UNCHANGED <<led, due>>

(* rt_timer_stop, and what each timeout function clears with it *)
TimerStop(w) ==
    /\ active' = [active EXCEPT ![w] = FALSE]
    /\ counts' = [counts EXCEPT ![w] = 0]
    /\ led' = IF w = "gate" THEN "off" ELSE led
    /\ waited' = [waited EXCEPT ![w] = 0]
    /\ raced' = [raced EXCEPT ![w] = hand = w]
    /\ UNCHANGED due

(* mutant: the counts are tested, not counted down *)
MutLooksForEver(w) ==
    /\ active[w] /\ counts[w] > 0
    /\ \/ Pin(w) /\ UNCHANGED timerVars
       \/ ~Pin(w) /\ TimerStop(w)
    /\ UNCHANGED <<sensorVars, local_mq, threadVars, batteryVars, configVars>>

(* mutant: the last look ends the watch *)
MutLastLookStops(w) ==
    /\ active[w] /\ counts[w] > 0
    /\ \/ /\ Pin(w) /\ counts[w] > 1
          /\ counts' = [counts EXCEPT ![w] = @ - 1]
          /\ waited' = [waited EXCEPT ![w] = @ + 1]
          /\ UNCHANGED <<active, led, due, raced>>
       \/ /\ ~Pin(w) \/ counts[w] = 1
          /\ TimerStop(w)
    /\ UNCHANGED <<sensorVars, local_mq, threadVars, batteryVars, configVars>>

(* lock_gate_timeout, battery_switch_timeout: counts are left *)
TimeoutLooks(w) ==
    /\ active[w] /\ counts[w] > 0
    /\ \/ /\ Pin(w)
          /\ counts' = [counts EXCEPT ![w] = @ - 1]
          /\ waited' = [waited EXCEPT ![w] = @ + 1]
          /\ UNCHANGED <<active, led, due, raced>>
       \/ /\ ~Pin(w)
          /\ TimerStop(w)
    /\ UNCHANGED <<sensorVars, local_mq, threadVars, batteryVars, configVars>>

(* ... none is left: the report is sent without another look. *)
TimeoutReports(w) ==
    /\ active[w] /\ counts[w] <= 0
    /\ TimerStop(w)
    /\ episode' = [episode EXCEPT ![w] = IF Pin(w) THEN "settled" ELSE @]
    /\ UNCHANGED <<recent, local_mq, threadVars, batteryVars, configVars>>

rfid_key_detect_timeout ==
    /\ active["key"]
    /\ active' = [active EXCEPT !["key"] = FALSE]
    /\ episode' = [episode EXCEPT !["key"] = IF Pin("key") THEN "settled" ELSE @]
    /\ UNCHANGED <<recent, local_mq, threadVars, counts, led, due, waited, raced,
                   batteryVars, configVars>>

-----------------------------------------------------------------------------
(* The local thread *)

Goto(m, step) == hand' = m /\ at' = step
Done == Goto("none", "recv")

Recv ==
    /\ at = "recv" /\ local_mq # <<>>
    /\ Goto(Head(local_mq), "begin")
    /\ local_mq' = Tail(local_mq)
    /\ UNCHANGED <<sensorVars, timerVars, batteryVars, configVars>>

(* BATTERY_REMAIN_5P: lock_output(GATE_UNLOCK), which never waits (Motor) *)
Unlock ==
    /\ hand = "low" /\ at = "begin"
    /\ Done
    /\ UNCHANGED <<sensorVars, local_mq, timerVars, batteryVars, configVars>>

(* gsm_ring_process waits for the modem and comes back (GsmMail). *)
gsm_ring_process ==
    /\ hand = "ring"
    /\ \/ at = "begin" /\ Goto("ring", "wait")
       \/ at = "wait" /\ Done
    /\ UNCHANGED <<sensorVars, local_mq, timerVars, batteryVars, configVars>>

(* lock_gate_process lights the LED; battery_switch_process reads the pin. *)
ProcessBegins ==
    /\ at = "begin"
    /\ \/ /\ hand = "gate"
          /\ led' = "gate"
          /\ raced' = [raced EXCEPT !["gate"] = FALSE]
          /\ Goto("gate", "test")
       \/ /\ hand = "switch" /\ Pin("switch")
          /\ raced' = [raced EXCEPT !["switch"] = FALSE]
          /\ Goto("switch", "set")
          /\ UNCHANGED led
       \/ /\ hand = "switch" /\ ~Pin("switch")
          /\ Done
          /\ UNCHANGED <<led, raced>>
    /\ UNCHANGED <<sensorVars, local_mq, active, counts, due, waited, batteryVars, configVars>>

(* lock_gate_alarm_time is read to be compared with the limit ... *)
lock_gate_process_test ==
    /\ hand = "gate" /\ at = "test"
    /\ Goto("gate", IF alarm_time > TimeMax THEN "default" ELSE "set")
    /\ UNCHANGED <<sensorVars, local_mq, timerVars, batteryVars, configVars>>

(* ... and read again to be used. *)
CountsFor(w) ==
    CASE w = "switch" -> SwitchCounts
      [] w = "gate" /\ at = "default" -> TimeDefault
      [] OTHER -> alarm_time

(* mutant: an active timer keeps its counts *)
MutCountsKept ==
    /\ hand \in Counted /\ at \in {"set", "default"}
    /\ counts' = [counts EXCEPT ![hand] = IF active[hand] THEN @ ELSE CountsFor(hand)]
    /\ due' = [due EXCEPT ![hand] = CountsFor(hand)]
    /\ waited' = [waited EXCEPT ![hand] = 0]
    /\ Goto(hand, "start")
    /\ UNCHANGED <<sensorVars, local_mq, active, led, raced, batteryVars, configVars>>

ProcessSetsCounts ==
    /\ hand \in Counted /\ at \in {"set", "default"}
    /\ counts' = [counts EXCEPT ![hand] = CountsFor(hand)]
    /\ due' = [due EXCEPT ![hand] = CountsFor(hand)]
    /\ waited' = [waited EXCEPT ![hand] = 0]
    /\ Goto(hand, "start")
    /\ UNCHANGED <<sensorVars, local_mq, active, led, raced, batteryVars, configVars>>

(* rt_timer_start leaves a timer that is active as it is. *)
ProcessStartsTimer ==
    /\ hand \in Counted /\ at = "start"
    /\ active' = [active EXCEPT ![hand] = TRUE]
    /\ Done
    /\ UNCHANGED <<sensorVars, local_mq, counts, led, due, waited, raced,
                   batteryVars, configVars>>

(* A key that has been taken out again is ignored; otherwise the reader is switched on. *)
rfid_key_detect_process ==
    /\ hand = "key" /\ at = "begin"
    /\ \/ /\ Pin("key")
          /\ active' = [active EXCEPT !["key"] = TRUE]
          /\ Goto("key", "read")
       \/ /\ ~Pin("key")
          /\ Done
          /\ UNCHANGED active
    /\ UNCHANGED <<sensorVars, local_mq, counts, led, due, waited, raced,
                   batteryVars, configVars>>

(* Up to 50 readings: one matches a stored key, or none does and mails are sent. *)
ReadKey ==
    /\ hand = "key" /\ at = "read"
    /\ Done
    /\ UNCHANGED <<sensorVars, local_mq, timerVars, batteryVars, configVars>>

-----------------------------------------------------------------------------
(* The battery thread *)

LocalWaits == at = "wait" \/ (at = "recv" /\ local_mq = <<>>)

BatteryLooks ==
    /\ LocalWaits /\ ~sampling
    /\ Pin("switch")
    /\ sampling' = TRUE
    /\ UNCHANGED <<sensorVars, local_mq, threadVars, timerVars, status, configVars>>

(* Ten samples later the supply may be back; the latch is set whatever becomes of the mail. *)
BatterySamples(level) ==
    /\ LocalWaits /\ sampling
    /\ sampling' = FALSE
    /\ status' = CASE level = "5P" -> status \cup {"5P"}
                   [] level = "20P" -> (status \ {"5P"}) \cup {"20P"}
                   [] level = "50P" -> (status \ {"5P", "20P"}) \cup {"50P"}
                   [] OTHER -> {}
    /\ local_mq' = IF level = "5P" /\ "5P" \notin status /\ Len(local_mq) < MailMax
                   THEN Append(local_mq, "low") ELSE local_mq
    /\ UNCHANGED <<sensorVars, threadVars, timerVars, configVars>>

-----------------------------------------------------------------------------
LocalStep ==
    \/ Recv \/ Unlock \/ gsm_ring_process
    \/ ProcessBegins \/ lock_gate_process_test \/ ProcessSetsCounts \/ ProcessStartsTimer
    \/ rfid_key_detect_process
    \/ ReadKey

Timeout(w) ==
    \/ w \in Counted /\ (TimeoutLooks(w) \/ TimeoutReports(w))
    \/ w = "key" /\ rfid_key_detect_timeout

Next ==
    \/ \E w \in scope : Begin(w) \/ End(w)
    \/ \E w \in Watch : Timeout(w)
    \/ \E w \in scope \cap Counted : Pause(w)
    \/ RingMail
    \/ \E t \in AlarmTimes : process_gprs_set_user_parameters(t)
    \/ process_gprs_set_time
    \/ LocalStep
    \/ BatteryLooks
    \/ \E level \in Levels : BatterySamples(level)

Spec == Init /\ [][Next]_vars

(* The thread runs on, the modem answers it, and an active timer fires. *)
FairSpec ==
    /\ Spec
    /\ WF_vars(LocalStep)
    /\ \A w \in Watch : WF_vars(Timeout(w))

-----------------------------------------------------------------------------
(* Properties *)

TypeOK ==
    /\ episode \in [Watch -> Episode]
    /\ recent \in [Counted -> BOOLEAN]
    /\ local_mq \in Seq(Mail) /\ Len(local_mq) <= MailMax
    /\ hand \in Mail \cup {"none"}
    /\ at \in {"recv", "begin", "wait", "test", "default", "set", "start", "read"}
    /\ active \in [Watch -> BOOLEAN]
    /\ counts \in [Counted -> Nat] /\ due \in [Counted -> Nat] /\ waited \in [Counted -> Nat]
    /\ led \in {"logo", "gate", "off"}
    /\ alarm_time \in AlarmTimes
    /\ status \subseteq {"5P", "20P", "50P"}
    /\ sampling \in BOOLEAN
    /\ raced \in [Counted -> BOOLEAN]

Queued(m) == \E i \in 1..Len(local_mq) : local_mq[i] = m

(***************************************************************************)
(* A gate that stays open, a lost supply, a key left in: until it has been *)
(* reported, its mail is under way or its timer is active, however the     *)
(* timeouts of an earlier one, later mails and the new one's processing    *)
(* interleave.                                                             *)
(***************************************************************************)
Watched ==
    \A w \in Watch : episode[w] = "owed" => Queued(w) \/ hand = w \/ active[w]

(***************************************************************************)
(* The LED lit for an open gate goes out with its timer, and shines as     *)
(* long as it, unless a timeout came between the two halves of             *)
(* lock_gate_process.                                                      *)
(***************************************************************************)
LedFollowsTimer ==
    /\ led = "gate" => active["gate"] \/ hand = "gate"
    /\ active["gate"] /\ hand # "gate" /\ ~raced["gate"] => led = "gate"

(***************************************************************************)
(* A timer reports after exactly the number of timeouts it was given since *)
(* its last mail, an earlier start notwithstanding, unless it was stopped  *)
(* between the assignment of the counts and the start.                     *)
(***************************************************************************)
OnTime ==
    \A w \in Counted :
        active[w] /\ ~raced[w] /\ (hand = w => at = "start")
            => counts[w] + waited[w] = due[w]

(* Which mails the local thread has in hand at which of its steps *)
Places ==
    /\ at = "recv" <=> hand = "none"
    /\ at = "wait" => hand = "ring"
    /\ at = "read" => hand = "key"
    /\ at \in {"test", "default"} => hand = "gate"
    /\ at \in {"set", "start"} => hand \in Counted

(* A key being read keeps its timer: the thread is done with it before that fires, or after. *)
KeyTimed ==
    at = "read" /\ episode["key"] = "owed" => Queued("key") \/ active["key"]

(* The LED is lit in the middle of lock_gate_process, too. *)
LitWhileSetUp ==
    hand = "gate" /\ at # "begin" /\ ~raced["gate"] => led = "gate"

(***************************************************************************)
(* The counts agree with the timeouts before the timer is started, and     *)
(* those of a timer that runs on while the next mail is looked at.         *)
(***************************************************************************)
CountsAgree ==
    \A w \in Counted :
        ~raced[w] /\ (IF hand = w THEN at = "start" \/ (at = "begin" /\ active[w]) ELSE active[w])
            => counts[w] + waited[w] = due[w]

(* What holds in every state and is kept by every step *)
WatchInv ==
    /\ TypeOK /\ Places /\ Watched /\ KeyTimed /\ LedFollowsTimer /\ LitWhileSetUp
    /\ CountsAgree /\ scope \subseteq Watch

(***************************************************************************)
(* What lasts is reported, if its mail was posted and did not get lost,    *)
(* and the mail of a battery below 5 % comes to unlock the gate, whatever  *)
(* calls, keys and timeouts the thread is busy with.                       *)
(***************************************************************************)
Reported ==
    /\ \A w \in Watch : episode[w] = "owed" ~> episode[w] \in {"settled", "quiet"}
    /\ Queued("low") ~> hand = "low"

=============================================================================
