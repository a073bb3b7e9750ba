------------------------------- MODULE Motor -------------------------------
(***************************************************************************)
(* The lock's motor.  lock_output drives it by bursts of pulses: it writes *)
(* a pulse count, enables the channel of motor A (lock) or B (unlock) and  *)
(* starts TIM8, which both motors share; interrupt handlers count the      *)
(* pulses down and switch channel and timer off.  Nothing makes            *)
(* lock_output wait for a burst: it polls the status pin Loops times as    *)
(* fast as it can.  It is called by the local thread and, for the sleep    *)
(* command of the server, by whichever of the gsm and gprs threads         *)
(* receives it; no lock is taken.                                          *)
(*                                                                         *)
(* A thread is interrupted between any two accesses to the shared counters *)
(* and registers; a thread of higher priority runs to the end of           *)
(* lock_output, which never blocks, before a lower one continues.  Both    *)
(* channels are bits of one register, CCER, which TIM_CCxCmd loads and     *)
(* stores twice: what a handler or a thread of higher priority wrote in    *)
(* between is overwritten.                                                 *)
(***************************************************************************)
EXTENDS Integers, FiniteSets

CONSTANTS Callers,   \* the threads that call lock_output
          Loops,     \* how often the status pin is polled
          Period,    \* pulses of a burst
          Adjust,    \* pulses of the last burst, once the pin has changed
          Top,       \* the mechanism moves between 0 and Top
          Switch,    \* the status pin reads "lock" from here on
          CanJam     \* may the mechanism get stuck?

(* Thread priorities, the smaller the higher. *)
Priority == [gsm |-> 100, local |-> 102, gprs |-> 106]

ASSUME CallersAssumption == Callers \subseteq DOMAIN Priority /\ Callers # {}
ASSUME BurstAssumption ==
    /\ Loops \in Nat
    /\ Period \in Nat \ {0}
    /\ Adjust \in Nat \ {0}
ASSUME TravelAssumption == Top \in Nat /\ Switch \in 1..Top /\ CanJam \in BOOLEAN

Direction == {"lock", "unlock"}
PulseMotor == {"a", "b"}
MotorOf(d) == IF d = "lock" THEN "a" ELSE "b"

VARIABLES
    tim_pulse_counts,  \* per motor: pulses still to be sent
    CCER,              \* the motors whose timer channel is enabled
    running,           \* is TIM8 counting?
    high,              \* between the compare match and the overflow of TIM8
    pos, jammed,       \* the mechanism
    pc, direction, counts, adjusting,   \* per caller: lock_output's state
    loaded,            \* per caller: CCER as it was loaded last
    quota, given,      \* per motor: size of the last burst, pulses sent since it began
    erased,            \* motors switched off by a stale store of CCER, and not on again
    alone,             \* per caller: did its call start at rest and stay undisturbed?
    outcome            \* what the last call to return reported, if none is in progress

timVars == <<tim_pulse_counts, CCER, running, high>>
mechVars == <<pos, jammed>>
callVars == <<pc, direction, counts, adjusting, loaded>>
obsVars == <<quota, given, erased, alone, outcome>>
vars == <<timVars, mechVars, callVars, obsVars>>

CallPC == {"idle", "loop", "set", "test", "channel", "clear", "reload", "enable", "start", "read", "final"}
Outcome == [returned : BOOLEAN, direction : Direction, ok : BOOLEAN, alone : BOOLEAN]
NoOutcome == [returned |-> FALSE, direction |-> "unlock", ok |-> FALSE, alone |-> FALSE]

(* TIM_OCInit leaves both channels enabled until the first overflow. *)
Init ==
    /\ tim_pulse_counts = [m \in PulseMotor |-> 0]
    /\ CCER = PulseMotor
    /\ running = FALSE
    /\ high = FALSE
    /\ pos \in 0..Top
    /\ jammed = FALSE
    /\ pc = [c \in Callers |-> "idle"]
    /\ direction = [c \in Callers |-> "unlock"]
    /\ counts = [c \in Callers |-> 0]
    /\ adjusting = [c \in Callers |-> FALSE]
    /\ loaded = [c \in Callers |-> {}]
    /\ quota = [m \in PulseMotor |-> 0]
    /\ given = [m \in PulseMotor |-> 0]
    /\ erased = {}
    /\ alone = [c \in Callers |-> FALSE]
    /\ outcome = NoOutcome

motor_status == IF pos >= Switch THEN "lock" ELSE "unlock"

(* No thread of higher priority is inside lock_output. *)
MayRun(c) == \A d \in Callers : Priority[d] < Priority[c] => pc[d] = "idle"

AtRest == ~running /\ \A c \in Callers : pc[c] = "idle"

-----------------------------------------------------------------------------
(* lock_output *)

(* Only the local thread ever locks. *)
Directions(c) == IF c = "local" THEN Direction ELSE {"unlock"}

(* The call: nothing to do if the pin already reads as asked. *)
lock_output(c, d) ==
    /\ MayRun(c)
    /\ pc[c] = "idle"
    /\ d \in Directions(c)
    /\ IF motor_status = d
       THEN /\ outcome' = [returned |-> TRUE, direction |-> d, ok |-> TRUE, alone |-> AtRest]
            /\ alone' = [x \in Callers |-> FALSE]
            /\ UNCHANGED <<pc, direction, counts>>
       ELSE /\ outcome' = NoOutcome
            /\ alone' = [x \in Callers |-> x = c /\ AtRest]
            /\ pc' = [pc EXCEPT ![c] = "loop"]
            /\ direction' = [direction EXCEPT ![c] = d]
            /\ counts' = [counts EXCEPT ![c] = Loops]
    /\ UNCHANGED <<timVars, mechVars, adjusting, loaded, quota, given, erased>>

(* mutant: while (counts-- >= 0) *)
MutLoopOffByOne(c) ==
    /\ MayRun(c)
    /\ pc[c] = "loop"
    /\ \/ /\ counts[c] >= 0
          /\ counts' = [counts EXCEPT ![c] = @ - 1]
          /\ pc' = [pc EXCEPT ![c] = "set"]
       \/ /\ counts[c] < 0
          /\ pc' = [pc EXCEPT ![c] = "final"]
          /\ UNCHANGED counts
    /\ UNCHANGED <<timVars, mechVars, direction, adjusting, loaded, obsVars>>

(* while (counts-- > 0) *)
Loop(c) ==
    /\ MayRun(c)
    /\ pc[c] = "loop"
    /\ \/ /\ counts[c] > 0
          /\ counts' = [counts EXCEPT ![c] = @ - 1]
          /\ pc' = [pc EXCEPT ![c] = "set"]
       \/ /\ counts[c] = 0
          /\ pc' = [pc EXCEPT ![c] = "final"]
          /\ UNCHANGED counts
    /\ UNCHANGED <<timVars, mechVars, direction, adjusting, loaded, obsVars>>

(* RT_DEVICE_CTRL_SET_PULSE_COUNTS *)
SetPulseCounts(c) ==
    LET m == MotorOf(direction[c])
        n == IF adjusting[c] THEN Adjust ELSE Period
    IN  /\ MayRun(c)
        /\ pc[c] = "set"
        /\ tim_pulse_counts' = [tim_pulse_counts EXCEPT ![m] = n]
        /\ quota' = [quota EXCEPT ![m] = n]
        /\ given' = [given EXCEPT ![m] = 0]
        /\ pc' = [pc EXCEPT ![c] = "test"]
        /\ UNCHANGED <<CCER, running, high, mechVars, direction, counts, adjusting, loaded,
                       erased, alone, outcome>>

(* After a burst the pin is polled, after the last one it is judged. *)
AfterPulse(c) == IF adjusting[c] THEN "final" ELSE "read"

(* RT_DEVICE_CTRL_SEND_PULSE: first the counter is tested ... *)
TestPulseCounts(c) ==
    /\ MayRun(c)
    /\ pc[c] = "test"
    /\ pc' = [pc EXCEPT ![c] = IF tim_pulse_counts[MotorOf(direction[c])] > 0
                               THEN "channel" ELSE AfterPulse(c)]
    /\ UNCHANGED <<timVars, mechVars, direction, counts, adjusting, loaded, obsVars>>

(***************************************************************************)
(* ... then the channel is enabled.  TIM_CCxCmd clears the motor's bit of  *)
(* CCER and then sets it, each time loading the register and storing it    *)
(* with the one bit changed ...                                            *)
(***************************************************************************)
LoadCCER(c) ==
    /\ MayRun(c)
    /\ \/ pc[c] = "channel" /\ pc' = [pc EXCEPT ![c] = "clear"]
       \/ pc[c] = "reload" /\ pc' = [pc EXCEPT ![c] = "enable"]
    /\ loaded' = [loaded EXCEPT ![c] = CCER]
    /\ UNCHANGED <<timVars, mechVars, direction, counts, adjusting, obsVars>>

(* The other motors whose bit was cleared since the load, and which a store switches on again. *)
Revived(c) == loaded[c] \ (CCER \cup {MotorOf(direction[c])})

(***************************************************************************)
(* The store writes the other motor's bit as it was loaded.  If that       *)
(* switches a motor on that has no pulses left, the pulse it may give is   *)
(* a burst of its own.                                                     *)
(***************************************************************************)
StoreCCER(c, value) ==
    LET stray == {m \in Revived(c) : tim_pulse_counts[m] = 0}
    IN  /\ CCER' = value
        /\ erased' = (erased \cup CCER) \ (loaded[c] \cup {MotorOf(direction[c])})
        /\ quota' = [m \in PulseMotor |-> IF m \in stray THEN 1 ELSE quota[m]]
        /\ given' = [m \in PulseMotor |-> IF m \in stray THEN 0 ELSE given[m]]
        /\ loaded' = [loaded EXCEPT ![c] = {}]
        /\ UNCHANGED <<tim_pulse_counts, running, high, mechVars, direction, counts, adjusting,
                       alone, outcome>>

ClearChannel(c) ==
    /\ MayRun(c)
    /\ pc[c] = "clear"
    /\ pc' = [pc EXCEPT ![c] = "reload"]
    /\ StoreCCER(c, loaded[c] \ {MotorOf(direction[c])})

EnableChannel(c) ==
    /\ MayRun(c)
    /\ pc[c] = "enable"
    /\ pc' = [pc EXCEPT ![c] = "start"]
    /\ StoreCCER(c, loaded[c] \cup {MotorOf(direction[c])})

(* ... and the timer started. *)
StartTimer(c) ==
    /\ MayRun(c)
    /\ pc[c] = "start"
    /\ running' = TRUE
    /\ pc' = [pc EXCEPT ![c] = AfterPulse(c)]
    /\ UNCHANGED <<tim_pulse_counts, CCER, high, mechVars, direction, counts, adjusting, loaded, obsVars>>

(* The pin has changed: one more burst, to adjust the place. *)
ReadStatus(c) ==
    /\ MayRun(c)
    /\ pc[c] = "read"
    /\ \/ /\ motor_status = direction[c]
          /\ adjusting' = [adjusting EXCEPT ![c] = TRUE]
          /\ pc' = [pc EXCEPT ![c] = "set"]
       \/ /\ motor_status # direction[c]
          /\ pc' = [pc EXCEPT ![c] = "loop"]
          /\ UNCHANGED adjusting
    /\ UNCHANGED <<timVars, mechVars, direction, counts, loaded, obsVars>>

(* The call returns, and its local variables are gone. *)
Return(c, ok) ==
    /\ outcome' = [returned |-> TRUE, direction |-> direction[c], ok |-> ok, alone |-> alone[c]]
    /\ pc' = [pc EXCEPT ![c] = "idle"]
    /\ direction' = [direction EXCEPT ![c] = "unlock"]
    /\ counts' = [counts EXCEPT ![c] = 0]
    /\ adjusting' = [adjusting EXCEPT ![c] = FALSE]
    /\ alone' = [alone EXCEPT ![c] = FALSE]
    /\ UNCHANGED <<timVars, mechVars, loaded, quota, given, erased>>

(* mutant: success is reported without another look *)
MutJudgeNothing(c) ==
    /\ MayRun(c)
    /\ pc[c] = "final"
    /\ Return(c, TRUE)

(* The last look at the pin decides between 0 and -1 with MOTOR_FAULT mails. *)
JudgeStatus(c) ==
    /\ MayRun(c)
    /\ pc[c] = "final"
    /\ Return(c, motor_status = direction[c])

-----------------------------------------------------------------------------
(* TIM8 and its interrupt handlers *)

Clamp(p) == IF p < 0 THEN 0 ELSE IF p > Top THEN Top ELSE p
Pulse(m) == IF m \in CCER THEN 1 ELSE 0

(***************************************************************************)
(* Compare match: an enabled channel begins a pulse, which moves the       *)
(* mechanism; TIM8_CC_IRQHandler counts it, enabled or not.                *)
(***************************************************************************)
TIM8_CC_IRQHandler ==
    /\ running /\ ~high
    /\ high' = TRUE
    /\ pos' = IF jammed THEN pos ELSE Clamp(pos + Pulse("a") - Pulse("b"))
    /\ given' = [m \in PulseMotor |-> given[m] + Pulse(m)]
    /\ tim_pulse_counts' = [m \in PulseMotor |->
           IF tim_pulse_counts[m] > 0 THEN tim_pulse_counts[m] - 1 ELSE 0]
    /\ UNCHANGED <<CCER, running, jammed, callVars, quota, erased, alone, outcome>>

(* mutant: either motor's last pulse stops the timer *)
MutStopOnEither ==
    /\ running /\ high
    /\ high' = FALSE
    /\ CCER' = {m \in CCER : tim_pulse_counts[m] > 0}
    /\ running' = \A m \in PulseMotor : tim_pulse_counts[m] > 0
    /\ UNCHANGED <<tim_pulse_counts, mechVars, callVars, obsVars>>

(* mutant: the channel is left on *)
MutChannelLeftOn ==
    /\ running /\ high
    /\ high' = FALSE
    /\ running' = \E m \in PulseMotor : tim_pulse_counts[m] > 0
    /\ UNCHANGED <<CCER, tim_pulse_counts, mechVars, callVars, obsVars>>

(* mutant: nobody stops the timer *)
MutTimerLeftOn ==
    /\ running /\ high
    /\ high' = FALSE
    /\ CCER' = {m \in CCER : tim_pulse_counts[m] > 0}
    /\ UNCHANGED <<running, tim_pulse_counts, mechVars, callVars, obsVars>>

(* Overflow: channels without pulses are switched off, the timer with the last one. *)
TIM8_UP_IRQHandler ==
    /\ running /\ high
    /\ high' = FALSE
    /\ CCER' = {m \in CCER : tim_pulse_counts[m] > 0}
    /\ running' = \E m \in PulseMotor : tim_pulse_counts[m] > 0
    /\ UNCHANGED <<tim_pulse_counts, mechVars, callVars, obsVars>>

(* The mechanism gets stuck, or comes free again. *)
Jam ==
    /\ CanJam
    /\ jammed' = ~jammed
    /\ UNCHANGED <<timVars, pos, callVars, obsVars>>

-----------------------------------------------------------------------------
CallStep(c) ==
    \/ Loop(c) \/ SetPulseCounts(c) \/ TestPulseCounts(c)
    \/ LoadCCER(c) \/ ClearChannel(c) \/ EnableChannel(c)
    \/ StartTimer(c) \/ ReadStatus(c) \/ JudgeStatus(c)

TimerStep == TIM8_CC_IRQHandler \/ TIM8_UP_IRQHandler

Next ==
    \/ \E c \in Callers : CallStep(c) \/ \E d \in Direction : lock_output(c, d)
    \/ TimerStep
    \/ Jam

Spec == Init /\ [][Next]_vars

(* A call that may run goes on; the timer counts while it is enabled. *)
FairSpec ==
    /\ Spec
    /\ \A c \in Callers : WF_vars(CallStep(c))
    /\ WF_vars(TimerStep)

-----------------------------------------------------------------------------
(* Properties *)

TypeOK ==
    /\ tim_pulse_counts \in [PulseMotor -> Nat]
    /\ CCER \subseteq PulseMotor
    /\ running \in BOOLEAN /\ high \in BOOLEAN
    /\ pos \in 0..Top /\ jammed \in BOOLEAN
    /\ pc \in [Callers -> CallPC]
    /\ direction \in [Callers -> Direction]
    /\ counts \in [Callers -> 0..Loops]
    /\ adjusting \in [Callers -> BOOLEAN]
    /\ loaded \in [Callers -> SUBSET PulseMotor]
    /\ quota \in [PulseMotor -> Nat]
    /\ given \in [PulseMotor -> Nat]
    /\ erased \subseteq PulseMotor
    /\ alone \in [Callers -> BOOLEAN]
    /\ outcome \in Outcome

(***************************************************************************)
(* No burst is stranded: when no thread is inside lock_output and a motor  *)
(* has pulses left, the timer runs, so that they are counted off and the   *)
(* timer stops, and the motor's channel is on, unless a thread that was    *)
(* driving the other motor stored a stale CCER over it.  The handlers stop *)
(* the shared timer behind the threads' back, so this depends on the order *)
(* of their accesses.                                                      *)
(***************************************************************************)
NoStrandedBurst ==
    (\A c \in Callers : pc[c] = "idle") =>
        \A m \in PulseMotor : tim_pulse_counts[m] > 0 => running /\ m \in CCER \cup erased

(***************************************************************************)
(* A burst gives its motor at most as many pulses as were asked for, plus  *)
(* one per thread that tested the counter before the handlers brought it   *)
(* to zero and enabled the channel after.  A stale store of CCER that      *)
(* switches a finished motor on again is a burst of one pulse.             *)
(***************************************************************************)
BurstBound ==
    \A m \in PulseMotor : given[m] <= quota[m] + Cardinality(Callers)

(***************************************************************************)
(* A call that began with the motor at rest, was not overlapped by another *)
(* call and reported success leaves the lock as it was asked to, also      *)
(* after the remaining pulses have run out.                                *)
(***************************************************************************)
SettledFromRest ==
    AtRest /\ outcome.returned => (outcome.ok /\ outcome.alone => motor_status = outcome.direction)

(***************************************************************************)
(* The inductive invariant behind the three.  A motor with pulses left is  *)
(* either on its way to being switched on or switched on, or was switched  *)
(* off by a stale store; a stopped timer has both channels on (after       *)
(* start-up) or both off, unless a thread is about to start it; an         *)
(* undisturbed call, and one that has returned, has no pulses of the other *)
(* motor to fear, except between its own two stores of CCER; and the       *)
(* pulses a burst can still give are counted.                              *)
(***************************************************************************)
Opposite(d) == IF d = "lock" THEN "b" ELSE "a"
At(m, places) == {c \in Callers : pc[c] \in places /\ MotorOf(direction[c]) = m}

Enabling == {"test", "channel", "clear", "reload", "enable"}

Armed ==
    \A m \in PulseMotor : tim_pulse_counts[m] > 0 =>
        \/ At(m, Enabling) # {}
        \/ m \in CCER \cup erased /\ (running \/ At(m, {"start"}) # {})

Storing == {"reload", "enable", "start"}

ChannelsPaired == ~running => CCER = {} \/ CCER = PulseMotor \/ \E c \in Callers : pc[c] \in Storing

Unopposed(d) ==
    /\ tim_pulse_counts[Opposite(d)] = 0
    /\ Opposite(d) \in CCER => MotorOf(d) \in CCER

AloneUndisturbed ==
    \A c \in Callers : alone[c] /\ pc[c] # "idle" =>
        /\ tim_pulse_counts[Opposite(direction[c])] = 0
        /\ pc[c] \in {"reload", "enable"} \/ Unopposed(direction[c])
        /\ \A d \in Callers \ {c} : pc[d] = "idle"

SuccessSettled ==
    outcome.returned /\ outcome.ok /\ outcome.alone =>
        /\ Unopposed(outcome.direction)
        /\ motor_status = outcome.direction
        /\ \A c \in Callers : pc[c] = "idle"

ExtraPulse(m) == IF m \in CCER /\ tim_pulse_counts[m] = 0 /\ ~high THEN 1 ELSE 0

PulsesCounted ==
    \A m \in PulseMotor :
        given[m] + tim_pulse_counts[m] + ExtraPulse(m) + Cardinality(At(m, Enabling))
            <= quota[m] + Cardinality(Callers)

MotorInv ==
    /\ TypeOK /\ Armed /\ ChannelsPaired /\ AloneUndisturbed /\ SuccessSettled /\ PulsesCounted

(* Once nobody calls any more, the motor is switched off. *)
ComesToRest == <>[](\A c \in Callers : pc[c] = "idle") => <>[](~running)

(***************************************************************************)
(* "motor error": of a mechanism that works, a locking call that nothing   *)
(* disturbs reports no fault.                                              *)
(***************************************************************************)
MotorError ==
    outcome.returned /\ outcome.alone /\ outcome.direction = "lock" /\ ~CanJam => outcome.ok
=============================================================================
