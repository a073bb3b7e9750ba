--------------------------- MODULE AlarmPipeline ---------------------------
(***************************************************************************)
(* The way of an alarm.  Interrupt handlers of the sensors debounce an     *)
(* edge and post a mail to alarm_mq; the alarm thread receives it, looks   *)
(* whether the machine is asleep and passes it on to the sms, gprs and     *)
(* local queues its flags name; the threads behind those queues take it.   *)
(* The server's sleep and wake-up frames are handled by the gsm thread or  *)
(* by the gprs thread.                                                     *)
(*                                                                         *)
(* Interrupts come at any moment; the gsm thread (priority 100) preempts   *)
(* the alarm thread (101), and all other threads run only while that one   *)
(* is blocked in rt_mq_recv.                                               *)
(***************************************************************************)
EXTENDS Integers, Sequences, FiniteSets

CONSTANTS Sources,    \* the sensors looked at
          AlarmMax,   \* ALARM_MAIL_MAX_MSGS
          MailMax,    \* SMS_, GPRS_ and LOCAL_MAIL_MAX_MSGS
          Interval,   \* ALARM_INTERVAL
          StartUp,    \* does the behaviour begin at power-on?
          MaxTime,    \* bound on the clock
          MaxMails    \* bound on the alarm mails posted

Destination == {"sms", "gprs", "local"}

(* alarm_process_flag of each sensor, and the sensors whose handler debounces. *)
Flags == [rfid |-> {"local"}, ring |-> {"local"}, gate |-> {"local"}, switch |-> {"local"},
          shell |-> Destination, lock_temperature |-> Destination,
          gate_temperature |-> Destination]
Debounced == DOMAIN Flags \ {"rfid", "ring"}

ASSUME SourcesAssumption == Sources \subseteq DOMAIN Flags /\ StartUp \in BOOLEAN
ASSUME BoundsAssumption ==
    /\ AlarmMax \in Nat /\ MailMax \in Nat /\ Interval \in Nat
    /\ MaxTime \in Nat /\ MaxMails \in Nat

VARIABLES
    time, time_old,    \* the clock; per sensor: the time of its last edge
    alarm_mq,          \* numbers of alarm mails
    mq,                \* per destination: numbers of alarm mails, 0 for mails of others
    local_mq_created,
    on_work,           \* MACHINE_ON_WORK of machine_work_status
    place, mail,       \* alarm thread: what it does next, alarm_mail_buf
    frame,             \* per server thread: the sleep or wake-up frame being handled
    origin,            \* the sensor of every mail posted so far
    taken,             \* per destination: alarm mails taken by its thread
    lost,              \* pairs of mail and destination whose queue was full
    ignored,           \* mails received asleep
    late               \* mails passed on since the machine went to sleep

sensorVars == <<time, time_old, origin>>
alarmVars == <<place, mail>>
serverVars == <<on_work, frame>>
vars == <<sensorVars, alarmVars, serverVars, alarm_mq, mq, local_mq_created,
          taken, lost, ignored, late>>

Handler == {"gsm", "gprs"}
Frame == {"none", "sleep", "wake_up"}

(* A clock that kept the time, or one that was reset: time_old is 0 in either case. *)
Init ==
    /\ time \in {0, Interval + 1}
    /\ time_old = [s \in Sources |-> 0]
    /\ alarm_mq = <<>>
    /\ mq = [d \in Destination |-> <<>>]
    /\ local_mq_created = ~StartUp
    /\ on_work = TRUE
    /\ place = "recv" /\ mail = 0
    /\ frame = [t \in Handler |-> "none"]
    /\ origin = <<>>
    /\ taken = [d \in Destination |-> <<>>]
    /\ lost = {} /\ ignored = {} /\ late = {}

(* The gsm thread is not inside a handler; the alarm thread is blocked as well. *)
AlarmRuns == frame["gsm"] = "none"
AlarmBlocked == AlarmRuns /\ place = "recv" /\ alarm_mq = <<>>

-----------------------------------------------------------------------------
(* Interrupts *)

(* mutant: a full queue takes one mail more *)
MutPostOneMore(queue, max, x) == IF Len(queue) <= max THEN Append(queue, x) ELSE queue

(* rt_mq_send: a full queue is left as it is *)
rt_mq_send(queue, max, x) == IF Len(queue) < max THEN Append(queue, x) ELSE queue

Tick ==
    /\ time < MaxTime
    /\ time' = time + 1
    /\ UNCHANGED <<time_old, origin, alarmVars, serverVars, alarm_mq, mq, local_mq_created,
                   taken, lost, ignored, late>>

(* Every edge restarts the interval, the ones that are dropped too. *)
Passes(s) == s \in Debounced => time - time_old[s] > Interval
Edge(s) ==
    time_old' = IF s \in Debounced THEN [time_old EXCEPT ![s] = time] ELSE time_old

(* mutant: the mail goes to the head of the queue *)
MutMailUrgent(s) ==
    LET n == Len(origin) + 1
    IN  /\ n <= MaxMails
        /\ Passes(s) /\ Edge(s)
        /\ origin' = Append(origin, s)
        /\ alarm_mq' = IF Len(alarm_mq) < AlarmMax THEN <<n>> \o alarm_mq ELSE alarm_mq
        /\ lost' = IF Len(alarm_mq) < AlarmMax THEN lost ELSE lost \cup ({n} \X Flags[s])
        /\ UNCHANGED <<time, alarmVars, serverVars, mq, local_mq_created, taken, ignored, late>>

(* The handler of a sensor, with send_alarm_mail; that of the ring first asks for a live modem. *)
rx_ind(s) ==
    LET n == Len(origin) + 1
    IN  /\ n <= MaxMails
        /\ Passes(s) /\ Edge(s)
        /\ origin' = Append(origin, s)
        /\ alarm_mq' = rt_mq_send(alarm_mq, AlarmMax, n)
        /\ lost' = IF Len(alarm_mq) < AlarmMax THEN lost ELSE lost \cup ({n} \X Flags[s])
        /\ UNCHANGED <<time, alarmVars, serverVars, mq, local_mq_created, taken, ignored, late>>

(* An edge too soon after the last one, where that makes a difference. *)
rx_ind_dropped(s) ==
    /\ ~Passes(s) /\ time_old[s] # time
    /\ Edge(s)
    /\ UNCHANGED <<time, origin, alarmVars, serverVars, alarm_mq, mq, local_mq_created,
                   taken, lost, ignored, late>>

(* Mails that do not come from the alarm thread: timers, battery, motor, camera. *)
OtherMail(d) ==
    /\ d = "local" => local_mq_created /\ AlarmBlocked
    /\ Len(mq[d]) < MailMax
    /\ mq' = [mq EXCEPT ![d] = rt_mq_send(@, MailMax, 0)]
    /\ UNCHANGED <<sensorVars, alarmVars, serverVars, alarm_mq, local_mq_created,
                   taken, lost, ignored, late>>

-----------------------------------------------------------------------------
(* The alarm thread *)

(* What comes after a place: the queues the mail is still to be passed on to. *)
Place == Destination \cup {"recv", "check", "halted"}
ToCome == [recv |-> {}, check |-> Destination, sms |-> Destination,
           gprs |-> {"gprs", "local"}, local |-> {"local"}, halted |-> {"local"}]
FirstOf(destinations) ==
    IF "sms" \in destinations THEN "sms"
    ELSE IF "gprs" \in destinations THEN "gprs"
    ELSE IF "local" \in destinations THEN "local" ELSE "recv"

(* mutant: the mails wait while the machine is asleep *)
MutRecvAwake ==
    /\ AlarmRuns /\ on_work
    /\ place = "recv" /\ alarm_mq # <<>>
    /\ mail' = Head(alarm_mq)
    /\ alarm_mq' = Tail(alarm_mq)
    /\ place' = "check"
    /\ UNCHANGED <<sensorVars, serverVars, mq, local_mq_created, taken, lost, ignored, late>>

AlarmRecv ==
    /\ AlarmRuns
    /\ place = "recv" /\ alarm_mq # <<>>
    /\ mail' = Head(alarm_mq)
    /\ alarm_mq' = Tail(alarm_mq)
    /\ place' = "check"
    /\ UNCHANGED <<sensorVars, serverVars, mq, local_mq_created, taken, lost, ignored, late>>

(* mutant: the machine is taken to be awake *)
MutCheckNothing ==
    /\ AlarmRuns
    /\ place = "check"
    /\ place' = FirstOf(Flags[origin[mail]])
    /\ UNCHANGED <<sensorVars, mail, serverVars, alarm_mq, mq, local_mq_created, taken, lost, ignored, late>>

(* machine_status_deal: asleep, the mail is thrown away. *)
AlarmCheck ==
    /\ AlarmRuns
    /\ place = "check"
    /\ \/ on_work /\ place' = FirstOf(Flags[origin[mail]]) /\ UNCHANGED ignored
       \/ ~on_work /\ place' = "recv" /\ ignored' = ignored \cup {mail}
    /\ UNCHANGED <<sensorVars, mail, serverVars, alarm_mq, mq, local_mq_created, taken, lost, late>>

(* mutant: a full queue ends the mail's way *)
MutForwardGivesUp(d) ==
    /\ AlarmRuns
    /\ place = d
    /\ d = "local" => local_mq_created
    /\ mq' = [mq EXCEPT ![d] = rt_mq_send(@, MailMax, mail)]
    /\ lost' = IF Len(mq[d]) < MailMax THEN lost ELSE lost \cup {<<mail, d>>}
    /\ late' = IF on_work THEN late ELSE late \cup {mail}
    /\ place' = IF Len(mq[d]) < MailMax
                THEN FirstOf(Flags[origin[mail]] \cap (ToCome[d] \ {d})) ELSE "recv"
    /\ UNCHANGED <<sensorVars, mail, serverVars, alarm_mq, local_mq_created, taken, ignored>>

Forward(d) ==
    /\ AlarmRuns
    /\ place = d
    /\ d = "local" => local_mq_created
    /\ mq' = [mq EXCEPT ![d] = rt_mq_send(@, MailMax, mail)]
    /\ lost' = IF Len(mq[d]) < MailMax THEN lost ELSE lost \cup {<<mail, d>>}
    /\ late' = IF on_work THEN late ELSE late \cup {mail}
    /\ place' = FirstOf(Flags[origin[mail]] \cap (ToCome[d] \ {d}))
    /\ UNCHANGED <<sensorVars, mail, serverVars, alarm_mq, local_mq_created, taken, ignored>>

(* rt_mq_send asserts that the queue exists; the failed assertion spins. *)
ForwardToNull ==
    /\ AlarmRuns
    /\ place = "local"
    /\ ~local_mq_created
    /\ place' = "halted"
    /\ UNCHANGED <<sensorVars, mail, serverVars, alarm_mq, mq, local_mq_created,
                   taken, lost, ignored, late>>

-----------------------------------------------------------------------------
(* The other threads *)

(* The local thread starts. *)
LocalStart ==
    /\ AlarmBlocked
    /\ ~local_mq_created
    /\ local_mq_created' = TRUE
    /\ UNCHANGED <<sensorVars, alarmVars, serverVars, alarm_mq, mq, taken, lost, ignored, late>>

(* The thread behind a queue receives its next mail. *)
Take(d) ==
    /\ AlarmBlocked
    /\ mq[d] # <<>>
    /\ d = "local" => local_mq_created
    /\ taken' = [taken EXCEPT ![d] = IF Head(mq[d]) = 0 THEN @ ELSE Append(@, Head(mq[d]))]
    /\ mq' = [mq EXCEPT ![d] = Tail(@)]
    /\ UNCHANGED <<sensorVars, alarmVars, serverVars, alarm_mq, local_mq_created, lost, ignored, late>>

(* A sleep (0x8c) or wake-up (0x8d) frame: first the acknowledgement is queued ... *)
recv_gprs_frame(t, what) ==
    /\ AlarmRuns
    /\ t = "gprs" => AlarmBlocked
    /\ frame[t] = "none"
    /\ frame' = [frame EXCEPT ![t] = what]
    /\ mq' = [mq EXCEPT !["gprs"] = rt_mq_send(@, MailMax, 0)]
    /\ UNCHANGED <<sensorVars, alarmVars, on_work, alarm_mq, local_mq_created,
                   taken, lost, ignored, late>>

(* ... then the machine's state is changed. *)
machine_status_deal(t) ==
    /\ frame[t] # "none"
    /\ t = "gprs" => AlarmBlocked
    /\ on_work' = (frame[t] = "wake_up")
    /\ late' = IF on_work THEN {} ELSE late
    /\ frame' = [frame EXCEPT ![t] = "none"]
    /\ UNCHANGED <<sensorVars, alarmVars, alarm_mq, mq, local_mq_created, taken, lost, ignored>>

-----------------------------------------------------------------------------
AlarmStep == AlarmRecv \/ AlarmCheck \/ (\E d \in Destination : Forward(d)) \/ ForwardToNull

Next ==
    \/ Tick
    \/ \E s \in Sources : rx_ind(s) \/ rx_ind_dropped(s)
    \/ \E d \in Destination : OtherMail(d) \/ Take(d)
    \/ AlarmStep
    \/ LocalStart
    \/ \E t \in Handler : \/ machine_status_deal(t)
                         \/ \E what \in {"sleep", "wake_up"} : recv_gprs_frame(t, what)

Spec == Init /\ [][Next]_vars

(***************************************************************************)
(* The gsm thread finishes a frame it has begun; it blocks between frames, *)
(* again and again, so that the other threads come to run however many     *)
(* frames the server sends.                                                *)
(***************************************************************************)
FairSpec ==
    /\ Spec
    /\ WF_vars(machine_status_deal("gsm"))
    /\ SF_vars(AlarmStep)
    /\ SF_vars(machine_status_deal("gprs"))
    /\ \A d \in Destination : SF_vars(Take(d))

-----------------------------------------------------------------------------
(* Properties *)

MailNumber == 1..Len(origin)
InHand(d) == IF d \in ToCome[place] /\ d \in Flags[origin[mail]] THEN <<mail>> ELSE <<>>

TypeOK ==
    /\ time \in Nat /\ time_old \in [Sources -> Nat]
    /\ origin \in Seq(Sources)
    /\ alarm_mq \in Seq(MailNumber) /\ Len(alarm_mq) <= AlarmMax
    /\ mq \in [Destination -> Seq(MailNumber \cup {0})]
    /\ \A d \in Destination : Len(mq[d]) <= MailMax
    /\ taken \in [Destination -> Seq(MailNumber)]
    /\ place \in Place
    /\ mail \in MailNumber \cup {0} /\ (place # "recv" => mail # 0)
    /\ frame \in [Handler -> Frame]
    /\ on_work \in BOOLEAN /\ local_mq_created \in BOOLEAN

(* Mails of others, which have the number 0, may stand anywhere. *)
Increasing(q) == \A i, j \in 1..Len(q) : i < j /\ q[i] > 0 /\ q[j] > 0 => q[i] < q[j]
Before(q, r) ==
    \A i \in 1..Len(q), j \in 1..Len(r) : q[i] > 0 /\ r[j] > 0 => q[i] < r[j]

(***************************************************************************)
(* Every thread takes the alarms in the order in which they happened, and  *)
(* none twice, although they are queued twice on their way and other mails *)
(* come in between: at every place they are in order, and those further on *)
(* their way are the earlier ones.                                         *)
(***************************************************************************)
InOrder ==
    \A d \in Destination :
        /\ Increasing(taken[d]) /\ Increasing(mq[d]) /\ Increasing(alarm_mq)
        /\ Before(taken[d], mq[d]) /\ Before(taken[d], InHand(d)) /\ Before(taken[d], alarm_mq)
        /\ Before(mq[d], InHand(d)) /\ Before(mq[d], alarm_mq)
        /\ Before(InHand(d), alarm_mq)

On(q, n) == \E i \in 1..Len(q) : q[i] = n

(* A mail is done with for a destination: taken, lost to a full queue or ignored asleep. *)
Settled(n, d) == On(taken[d], n) \/ <<n, d>> \in lost \/ n \in ignored
Underway(n, d) == On(alarm_mq, n) \/ On(InHand(d), n) \/ On(mq[d], n)

(***************************************************************************)
(* No alarm disappears: for each destination its flags name, a mail is     *)
(* under way or has been taken, unless that destination's queue was full   *)
(* or the machine asleep.  A full queue costs the other destinations       *)
(* nothing.                                                                *)
(***************************************************************************)
NoneDisappears ==
    \A n \in MailNumber : \A d \in Flags[origin[n]] :
        /\ Settled(n, d) \/ Underway(n, d)
        /\ ~(Settled(n, d) /\ Underway(n, d))

(***************************************************************************)
(* What makes both inductive: what is recorded of mails is about mails     *)
(* that were posted, and a mail is passed on to queues its flags name.     *)
(***************************************************************************)
Recorded == lost \subseteq MailNumber \X Destination /\ ignored \subseteq MailNumber
Flagged == place \in Destination => place \in Flags[origin[mail]]
WayInv == TypeOK /\ Recorded /\ Flagged /\ InOrder /\ NoneDisappears

(***************************************************************************)
(* A machine put to sleep passes on at most the alarm that the thread had  *)
(* in its hands when the gsm thread preempted it.                          *)
(***************************************************************************)
QuietAsleep == ~on_work => Cardinality(late) <= 1

(* Asleep, nothing but the mail in hand is passed on: what makes it inductive. *)
QuietInv ==
    ~on_work => /\ \A m, n \in late : m = n
                /\ place \in Destination => late \subseteq {mail}

(***************************************************************************)
(* Every alarm is settled in the end, asleep or awake: taken by all its    *)
(* destinations or dropped for one of the two reasons.                     *)
(***************************************************************************)
AllSettled ==
    \A n \in 1..MaxMails :
        n \in MailNumber ~> (n \in MailNumber /\ \A d \in Flags[origin[n]] : Settled(n, d))

(* "RT_ASSERT(mq != RT_NULL)": the queue the alarm thread sends to exists. *)
QueueExists == place = "local" => local_mq_created
=============================================================================
