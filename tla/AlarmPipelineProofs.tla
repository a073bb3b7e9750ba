------------------------ MODULE AlarmPipelineProofs ------------------------
(***************************************************************************)
(* Proofs about AlarmPipeline, for any set of sensors, length of the       *)
(* queues and number of alarms.                                            *)
(***************************************************************************)
EXTENDS AlarmPipeline, TLAPS, FiniteSetTheorems

(* A place of the alarm thread follows every choice of queues. *)
LEMMA FirstOfPlace ==
    ASSUME NEW S
    PROVE  /\ FirstOf(S) \in Place
           /\ FirstOf(S) \in Destination \cup {"recv"}
  BY DEF FirstOf, Place, Destination

(* Whether there is room or not, the queue keeps its type and bound. *)
LEMMA SendType ==
    ASSUME NEW S, NEW q \in Seq(S), NEW max \in Nat, Len(q) <= max, NEW x \in S
    PROVE  rt_mq_send(q, max, x) \in Seq(S) /\ Len(rt_mq_send(q, max, x)) <= max
  BY DEF rt_mq_send

(* The mails known so far stay mails when another sensor posts one. *)
LEMMA Widen ==
    ASSUME NEW S, NEW T, S \subseteq T, NEW q \in Seq(S)
    PROVE  q \in Seq(T)
  OBVIOUS

(* A sensor posts a mail. *)
LEMMA RxIndType == ASSUME TypeOK, NEW s \in Sources, rx_ind(s) PROVE TypeOK'
  <1> DEFINE n == Len(origin) + 1
  <1>1. /\ time_old' \in [Sources -> Nat]
        /\ origin' \in Seq(Sources)
        /\ Len(origin') = n /\ Len(origin) \in Nat
    BY DEF TypeOK, rx_ind, Edge
  <1>2. MailNumber \subseteq MailNumber' /\ n \in MailNumber'
    BY <1>1 DEF MailNumber
  <1>3. alarm_mq' \in Seq(MailNumber') /\ Len(alarm_mq') <= AlarmMax
    <2>1. alarm_mq \in Seq(MailNumber')
      BY <1>2, Widen DEF TypeOK
    <2> QED BY <1>2, <2>1, SendType, BoundsAssumption DEF TypeOK, rx_ind
  <1>4. /\ mq' \in [Destination -> Seq(MailNumber' \cup {0})]
        /\ taken' \in [Destination -> Seq(MailNumber')]
    <2>1. \A d \in Destination : /\ mq[d] \in Seq(MailNumber' \cup {0})
                                 /\ taken[d] \in Seq(MailNumber')
      BY <1>2, Widen DEF TypeOK
    <2> QED BY <2>1 DEF TypeOK, rx_ind
  <1> QED BY <1>1, <1>2, <1>3, <1>4 DEF TypeOK, rx_ind, alarmVars, serverVars

(* A mail is passed on to a queue. *)
LEMMA ForwardType == ASSUME TypeOK, NEW d \in Destination, Forward(d) PROVE TypeOK'
  <1>1. origin' = origin /\ MailNumber' = MailNumber
    BY DEF Forward, sensorVars, MailNumber
  <1>2. place' \in Place /\ mail # 0
    BY FirstOfPlace DEF TypeOK, Forward, Destination
  <1>3. rt_mq_send(mq[d], MailMax, mail) \in Seq(MailNumber \cup {0})
        /\ Len(rt_mq_send(mq[d], MailMax, mail)) <= MailMax
    BY SendType, BoundsAssumption DEF TypeOK
  <1>4. /\ mq' \in [Destination -> Seq(MailNumber \cup {0})]
        /\ \A x \in Destination : Len(mq'[x]) <= MailMax
    BY <1>3 DEF TypeOK, Forward
  <1> QED BY <1>1, <1>2, <1>4 DEF TypeOK, Forward, sensorVars, serverVars

(* A thread takes a mail. *)
LEMMA TakeType == ASSUME TypeOK, NEW d \in Destination, Take(d) PROVE TypeOK'
  <1>1. origin' = origin /\ MailNumber' = MailNumber
    BY DEF Take, sensorVars, MailNumber
  <1>2. /\ Head(mq[d]) \in MailNumber \cup {0}
        /\ Tail(mq[d]) \in Seq(MailNumber \cup {0})
        /\ Len(Tail(mq[d])) <= MailMax
    BY BoundsAssumption DEF TypeOK, Take
  <1>3. /\ mq' \in [Destination -> Seq(MailNumber \cup {0})]
        /\ \A x \in Destination : Len(mq'[x]) <= MailMax
    BY <1>2 DEF TypeOK, Take
  <1>4. taken' \in [Destination -> Seq(MailNumber)]
    BY <1>2 DEF TypeOK, Take
  <1> QED BY <1>1, <1>3, <1>4 DEF TypeOK, Take, sensorVars, alarmVars, serverVars

(* A mail that is nobody's alarm enters a queue. *)
LEMMA OtherMailType ==
    ASSUME TypeOK, NEW d \in Destination,
           mq' = [mq EXCEPT ![d] = rt_mq_send(@, MailMax, 0)], UNCHANGED origin
    PROVE  /\ mq' \in [Destination -> Seq(MailNumber' \cup {0})]
           /\ \A x \in Destination : Len(mq'[x]) <= MailMax
           /\ MailNumber' = MailNumber
  <1>1. MailNumber' = MailNumber
    BY DEF MailNumber
  <1>2. rt_mq_send(mq[d], MailMax, 0) \in Seq(MailNumber \cup {0})
        /\ Len(rt_mq_send(mq[d], MailMax, 0)) <= MailMax
    BY SendType, BoundsAssumption DEF TypeOK
  <1> QED BY <1>1, <1>2 DEF TypeOK

(***************************************************************************)
(* Queues stay within their bounds and hold numbers of mails posted; the   *)
(* alarm thread has a mail in hand whenever it is not waiting for one.     *)
(***************************************************************************)
THEOREM AlarmTypeCorrect == Spec => []TypeOK
  <1>1. Init => TypeOK
    BY BoundsAssumption DEF Init, TypeOK, MailNumber, Place, Handler, Frame
  <1>2. ASSUME TypeOK, [Next]_vars PROVE TypeOK'
    <2> USE DEF sensorVars, alarmVars, serverVars
    <2>1. CASE Tick
      BY <1>2, <2>1 DEF TypeOK, Tick, MailNumber
    <2>2. ASSUME NEW s \in Sources, rx_ind(s) PROVE TypeOK'
      BY <1>2, <2>2, RxIndType
    <2>3. ASSUME NEW s \in Sources, rx_ind_dropped(s) PROVE TypeOK'
      BY <1>2, <2>3 DEF TypeOK, rx_ind_dropped, Edge, MailNumber
    <2>4. ASSUME NEW d \in Destination, OtherMail(d) PROVE TypeOK'
      BY <1>2, <2>4, OtherMailType DEF TypeOK, OtherMail
    <2>5. ASSUME NEW d \in Destination, Take(d) PROVE TypeOK'
      BY <1>2, <2>5, TakeType
    <2>6. CASE AlarmRecv
      <3>1. Head(alarm_mq) \in MailNumber /\ Tail(alarm_mq) \in Seq(MailNumber)
            /\ Len(Tail(alarm_mq)) <= AlarmMax
        BY <1>2, <2>6, BoundsAssumption DEF TypeOK, AlarmRecv
      <3>2. MailNumber' = MailNumber /\ 0 \notin MailNumber
        BY <2>6 DEF AlarmRecv, MailNumber
      <3> QED BY <1>2, <2>6, <3>1, <3>2 DEF TypeOK, AlarmRecv, Place
    <2>7. CASE AlarmCheck
      BY <1>2, <2>7, FirstOfPlace DEF TypeOK, AlarmCheck, Place, MailNumber
    <2>8. ASSUME NEW d \in Destination, Forward(d) PROVE TypeOK'
      BY <1>2, <2>8, ForwardType
    <2>9. CASE ForwardToNull
      BY <1>2, <2>9 DEF TypeOK, ForwardToNull, Place, MailNumber
    <2>10. CASE LocalStart
      BY <1>2, <2>10 DEF TypeOK, LocalStart, MailNumber
    <2>11. ASSUME NEW t \in Handler, NEW what \in {"sleep", "wake_up"}, recv_gprs_frame(t, what)
           PROVE  TypeOK'
      <3>1. frame' \in [Handler -> Frame]
        BY <1>2, <2>11 DEF TypeOK, recv_gprs_frame, Frame
      <3>2. /\ mq' \in [Destination -> Seq(MailNumber' \cup {0})]
            /\ \A x \in Destination : Len(mq'[x]) <= MailMax
            /\ MailNumber' = MailNumber
        BY <1>2, <2>11, OtherMailType DEF recv_gprs_frame, Destination
      <3> QED BY <1>2, <2>11, <3>1, <3>2 DEF TypeOK, recv_gprs_frame
    <2>12. ASSUME NEW t \in Handler, machine_status_deal(t) PROVE TypeOK'
      <3>1. frame' \in [Handler -> Frame] /\ on_work' \in BOOLEAN
        BY <1>2, <2>12 DEF TypeOK, machine_status_deal, Frame
      <3> QED BY <1>2, <2>12, <3>1 DEF TypeOK, machine_status_deal, MailNumber
    <2>13. CASE UNCHANGED vars
      BY <1>2, <2>13 DEF TypeOK, vars, MailNumber
    <2> QED BY <1>2, <2>1, <2>2, <2>3, <2>4, <2>5, <2>6, <2>7, <2>8, <2>9, <2>10, <2>11, <2>12, <2>13
            DEF Next, AlarmStep
  <1> QED BY <1>1, <1>2, PTL DEF Spec

(* Asleep, nothing but the mail in hand is passed on. *)
LEMMA QuietStep == ASSUME QuietInv, [Next]_vars PROVE QuietInv'
  <1> USE DEF sensorVars, alarmVars, serverVars
  <1>1. ASSUME on_work' = on_work, late' = late, place' = place, mail' = mail
        PROVE  QuietInv'
    BY <1>1 DEF QuietInv
  <1>2. CASE Tick \/ LocalStart \/ UNCHANGED vars
    BY <1>1, <1>2 DEF Tick, LocalStart, vars
  <1>3. ASSUME NEW s \in Sources, rx_ind(s) \/ rx_ind_dropped(s) PROVE QuietInv'
    BY <1>1, <1>3 DEF rx_ind, rx_ind_dropped
  <1>4. ASSUME NEW d \in Destination, OtherMail(d) \/ Take(d) PROVE QuietInv'
    BY <1>1, <1>4 DEF OtherMail, Take
  <1>5. CASE AlarmRecv \/ ForwardToNull
    BY <1>5 DEF QuietInv, AlarmRecv, ForwardToNull, Destination
  <1>6. CASE AlarmCheck
    BY <1>6 DEF QuietInv, AlarmCheck, Destination
  <1>7. ASSUME NEW d \in Destination, Forward(d) PROVE QuietInv'
    <2>1. ~on_work => late' \subseteq {mail}
      BY <1>7 DEF QuietInv, Forward
    <2> QED BY <1>7, <2>1 DEF QuietInv, Forward
  <1>8. ASSUME NEW t \in Handler, machine_status_deal(t) PROVE QuietInv'
    BY <1>8 DEF QuietInv, machine_status_deal
  <1>9. ASSUME NEW t \in Handler, NEW what \in {"sleep", "wake_up"}, recv_gprs_frame(t, what)
        PROVE  QuietInv'
    BY <1>1, <1>9 DEF recv_gprs_frame
  <1> QED BY <1>2, <1>3, <1>4, <1>5, <1>6, <1>7, <1>8, <1>9 DEF Next, AlarmStep

(***************************************************************************)
(* However sleep frames, interrupts and the alarm thread interleave, a     *)
(* machine asleep passes on at most one alarm.                             *)
(***************************************************************************)
THEOREM AsleepIsQuiet == Spec => []QuietAsleep
  <1>1. Init => QuietInv
    BY DEF Init, QuietInv
  <1>2. QuietInv => QuietAsleep
    <2> SUFFICES ASSUME \A m, n \in late : m = n
                 PROVE  Cardinality(late) <= 1
      BY DEF QuietInv, QuietAsleep
    <2>1. CASE late = {}
      BY <2>1, FS_EmptySet
    <2>2. CASE late # {}
      <3>1. PICK n \in late : late = {n}
        BY <2>2
      <3> QED BY <3>1, FS_Singleton
    <2> QED BY <2>1, <2>2
  <1> QED BY <1>1, <1>2, QuietStep, PTL DEF Spec

-----------------------------------------------------------------------------
(* The way of the alarms *)

LEMMA ToComeValues ==
    /\ ToCome["recv"] = {} /\ ToCome["check"] = Destination /\ ToCome["sms"] = Destination
    /\ ToCome["gprs"] = {"gprs", "local"} /\ ToCome["local"] = {"local"}
    /\ ToCome["halted"] = {"local"}
  BY DEF ToCome

(* The first of the destinations has all of them to come. *)
LEMMA ToComeFirst ==
    ASSUME NEW F, F \subseteq Destination
    PROVE  F \subseteq ToCome[FirstOf(F)] /\ ToCome[FirstOf(F)] \subseteq Destination
  <1>1. CASE "sms" \in F
    BY <1>1, ToComeValues DEF FirstOf
  <1>2. CASE "sms" \notin F /\ "gprs" \in F
    BY <1>2, ToComeValues DEF FirstOf, Destination
  <1>3. CASE "sms" \notin F /\ "gprs" \notin F /\ "local" \in F
    BY <1>3, ToComeValues DEF FirstOf, Destination
  <1>4. CASE F = {}
    BY <1>4, ToComeValues DEF FirstOf
  <1> QED BY <1>1, <1>2, <1>3, <1>4 DEF Destination

(* After a destination come the others that were to come with it. *)
LEMMA ToComeShrinks ==
    ASSUME NEW F, NEW p \in Destination
    PROVE  /\ ToCome[FirstOf(F \cap (ToCome[p] \ {p}))] \subseteq ToCome[p] \ {p}
           /\ F \cap (ToCome[p] \ {p}) \subseteq ToCome[FirstOf(F \cap (ToCome[p] \ {p}))]
  <1>1. CASE p = "sms"
    <2>1. ToCome[p] \ {p} = {"gprs", "local"}
      BY <1>1, ToComeValues DEF Destination
    <2>2. CASE "gprs" \in F
      BY <2>1, <2>2, ToComeValues DEF FirstOf
    <2>3. CASE "gprs" \notin F
      BY <2>1, <2>3, ToComeValues DEF FirstOf
    <2> QED BY <2>2, <2>3
  <1>2. CASE p = "gprs"
    BY <1>2, ToComeValues DEF FirstOf
  <1>3. CASE p = "local"
    BY <1>3, ToComeValues DEF FirstOf
  <1> QED BY <1>1, <1>2, <1>3 DEF Destination

(* A sequence that is empty or has one element in hand *)
LEMMA InHandType ==
    ASSUME NEW d
    PROVE  InHand(d) = <<>> \/ InHand(d) = <<mail>>
  BY DEF InHand

LEMMA LastOrBefore ==
    ASSUME NEW n \in Nat, NEW j \in 1..n + 1
    PROVE  j = n + 1 \/ j \in 1..n
  OBVIOUS

(* What comes behind the whole queue may be appended to it. *)
LEMMA AppendInOrder ==
    ASSUME NEW q \in Seq(Nat), NEW r \in Seq(Nat), NEW x \in Nat
    PROVE  /\ Increasing(q) /\ Before(q, <<x>>) => Increasing(Append(q, x))
           /\ Before(q, r) /\ Before(<<x>>, r) => Before(Append(q, x), r)
           /\ Before(q, r) /\ Before(q, <<x>>) => Before(q, Append(r, x))
  <1>1. /\ Len(Append(q, x)) = Len(q) + 1 /\ Append(q, x)[Len(q) + 1] = x
        /\ \A i \in 1..Len(q) : Append(q, x)[i] = q[i]
        /\ Len(Append(r, x)) = Len(r) + 1 /\ Append(r, x)[Len(r) + 1] = x
        /\ \A i \in 1..Len(r) : Append(r, x)[i] = r[i]
    OBVIOUS
  <1>2. 1 \in 1..Len(<<x>>) /\ <<x>>[1] = x
    OBVIOUS
  <1>3. Before(q, <<x>>) => \A i \in 1..Len(q) : q[i] > 0 /\ x > 0 => q[i] < x
    BY <1>2 DEF Before
  <1>4. Before(<<x>>, r) => \A i \in 1..Len(r) : r[i] > 0 /\ x > 0 => x < r[i]
    BY <1>2 DEF Before
  <1>5. Increasing(q) /\ Before(q, <<x>>) => Increasing(Append(q, x))
    <2> SUFFICES ASSUME Increasing(q), Before(q, <<x>>),
                        NEW i \in 1..Len(q) + 1, NEW j \in 1..Len(q) + 1, i < j,
                        Append(q, x)[i] > 0, Append(q, x)[j] > 0
                 PROVE  Append(q, x)[i] < Append(q, x)[j]
      BY <1>1 DEF Increasing
    <2>1. Len(q) \in Nat /\ i \in 1..Len(q) /\ Append(q, x)[i] = q[i]
      BY <1>1
    <2>2. CASE j = Len(q) + 1
      BY <1>1, <1>3, <2>1, <2>2
    <2>3. CASE j \in 1..Len(q)
      BY <1>1, <2>1, <2>3 DEF Increasing
    <2>4. j = Len(q) + 1 \/ j \in 1..Len(q)
      BY <2>1, LastOrBefore, Zenon
    <2> QED BY <2>2, <2>3, <2>4
  <1>6. Before(q, r) /\ Before(<<x>>, r) => Before(Append(q, x), r)
    BY <1>1, <1>4 DEF Before
  <1>7. Before(q, r) /\ Before(q, <<x>>) => Before(q, Append(r, x))
    BY <1>1, <1>3 DEF Before
  <1> QED BY <1>5, <1>6, <1>7

(* The head of a queue comes before the rest, which stays in order. *)
LEMMA HeadInOrder ==
    ASSUME NEW q \in Seq(Nat), NEW r \in Seq(Nat), q # <<>>
    PROVE  /\ Increasing(q) => Increasing(Tail(q)) /\ Before(<<Head(q)>>, Tail(q))
           /\ Before(q, r) => Before(Tail(q), r) /\ Before(<<Head(q)>>, r)
           /\ Before(r, q) => Before(r, Tail(q)) /\ Before(r, <<Head(q)>>)
  <1>1. /\ Len(q) \in Nat /\ Len(q) > 0 /\ Head(q) = q[1]
        /\ Tail(q) \in Seq(Nat) /\ Len(Tail(q)) = Len(q) - 1
        /\ \A i \in 1..Len(Tail(q)) : i + 1 \in 1..Len(q) /\ Tail(q)[i] = q[i + 1]
    OBVIOUS
  <1>2. 1 \in 1..Len(q) /\ Len(<<Head(q)>>) = 1 /\ <<Head(q)>>[1] = q[1]
    BY <1>1
  <1>3. Increasing(q) => Increasing(Tail(q)) /\ Before(<<Head(q)>>, Tail(q))
    <2> SUFFICES ASSUME Increasing(q) PROVE Increasing(Tail(q)) /\ Before(<<Head(q)>>, Tail(q))
      OBVIOUS
    <2>1. \A i, j \in 1..Len(q) : i < j /\ q[i] > 0 /\ q[j] > 0 => q[i] < q[j]
      BY DEF Increasing
    <2>2. ASSUME NEW i \in 1..Len(Tail(q)), NEW j \in 1..Len(Tail(q)), i < j,
                 Tail(q)[i] > 0, Tail(q)[j] > 0
          PROVE  Tail(q)[i] < Tail(q)[j]
      <3>1. i + 1 \in 1..Len(q) /\ j + 1 \in 1..Len(q) /\ i + 1 < j + 1
        BY <1>1, <2>2
      <3> QED BY <1>1, <2>1, <2>2, <3>1
    <2>3. ASSUME NEW j \in 1..Len(Tail(q)), q[1] > 0, Tail(q)[j] > 0
          PROVE  q[1] < Tail(q)[j]
      <3>1. j + 1 \in 1..Len(q) /\ 1 < j + 1
        BY <1>1
      <3> QED BY <1>1, <1>2, <2>1, <2>3, <3>1
    <2>4. \A i \in 1..Len(<<Head(q)>>) : <<Head(q)>>[i] = q[1]
      BY <1>2
    <2> QED BY <2>2, <2>3, <2>4 DEF Increasing, Before
  <1>4. Before(q, r) => Before(Tail(q), r) /\ Before(<<Head(q)>>, r)
    BY <1>1, <1>2 DEF Before
  <1>5. Before(r, q) => Before(r, Tail(q)) /\ Before(r, <<Head(q)>>)
    BY <1>1, <1>2 DEF Before
  <1> QED BY <1>3, <1>4, <1>5

LEMMA EmptyInOrder ==
    ASSUME NEW q
    PROVE  Increasing(<<>>) /\ Before(<<>>, q) /\ Before(q, <<>>)
  BY DEF Increasing, Before

(***************************************************************************)
(* Everything under way is numbered: what the order is about.              *)
(***************************************************************************)
LEMMA WayTypes ==
    ASSUME TypeOK, NEW d \in Destination
    PROVE  /\ taken[d] \in Seq(Nat) /\ mq[d] \in Seq(Nat) /\ alarm_mq \in Seq(Nat)
           /\ InHand(d) \in Seq(Nat) /\ mail \in Nat
  <1>1. MailNumber \subseteq Nat /\ MailNumber \cup {0} \subseteq Nat
    BY DEF MailNumber
  <1>2. mail \in Nat
    BY <1>1 DEF TypeOK
  <1>3. taken[d] \in Seq(MailNumber) /\ mq[d] \in Seq(MailNumber \cup {0})
    BY DEF TypeOK
  <1>4. taken[d] \in Seq(Nat)
    BY <1>1, <1>3, Widen
  <1>5. mq[d] \in Seq(Nat)
    BY <1>1, <1>3, Widen
  <1>6. alarm_mq \in Seq(Nat)
    BY <1>1, Widen DEF TypeOK
  <1>7. InHand(d) \in Seq(Nat)
    <2>1. <<>> \in Seq(Nat) /\ <<mail>> \in Seq(Nat)
      BY <1>2
    <2> QED BY <2>1, InHandType
  <1> QED BY <1>2, <1>4, <1>5, <1>6, <1>7

(* The order at one destination *)
OrderAt(t, q, h, a) ==
    /\ Increasing(t) /\ Increasing(q) /\ Increasing(a)
    /\ Before(t, q) /\ Before(t, h) /\ Before(t, a)
    /\ Before(q, h) /\ Before(q, a)
    /\ Before(h, a)

LEMMA InOrderAt ==
    InOrder <=> \A d \in Destination : OrderAt(taken[d], mq[d], InHand(d), alarm_mq)
  BY DEF InOrder, OrderAt

(* A mail that is nobody's alarm does not disturb the order. *)
LEMMA ZeroInOrder ==
    ASSUME NEW t \in Seq(Nat), NEW q \in Seq(Nat), NEW h \in Seq(Nat), NEW a \in Seq(Nat),
           OrderAt(t, q, h, a), NEW max \in Nat
    PROVE  OrderAt(t, rt_mq_send(q, max, 0), h, a)
  <1>1. \A r \in Seq(Nat) : Before(<<0>>, r) /\ Before(r, <<0>>)
    BY DEF Before
  <1>2. OrderAt(t, Append(q, 0), h, a)
    BY <1>1, AppendInOrder DEF OrderAt
  <1>3. rt_mq_send(q, max, 0) = q \/ rt_mq_send(q, max, 0) = Append(q, 0)
    BY DEF rt_mq_send
  <1> QED BY <1>2, <1>3

(* The mail in hand goes, wherever it goes. *)
LEMMA EmptyHandInOrder ==
    ASSUME NEW t, NEW q, NEW h, NEW a, OrderAt(t, q, h, a)
    PROVE  OrderAt(t, q, <<>>, a)
  BY EmptyInOrder DEF OrderAt

(* What an alarm thread does with the mail in hand keeps the order. *)
LEMMA RecvInOrder ==
    ASSUME TypeOK, InOrder, AlarmRecv
    PROVE  InOrder'
  <1> SUFFICES ASSUME NEW d \in Destination
               PROVE  OrderAt(taken[d], mq[d], InHand(d)', Tail(alarm_mq))
    BY DEF InOrder, OrderAt, AlarmRecv
  <1>1. OrderAt(taken[d], mq[d], InHand(d), alarm_mq)
    BY InOrderAt
  <1>2. alarm_mq \in Seq(Nat) /\ alarm_mq # <<>> /\ taken[d] \in Seq(Nat) /\ mq[d] \in Seq(Nat)
    BY WayTypes DEF AlarmRecv
  <1>3. InHand(d)' = <<>> \/ InHand(d)' = <<Head(alarm_mq)>>
    BY DEF InHand, AlarmRecv
  <1>4. OrderAt(taken[d], mq[d], <<Head(alarm_mq)>>, Tail(alarm_mq))
    BY <1>1, <1>2, HeadInOrder DEF OrderAt
  <1> QED BY <1>3, <1>4, EmptyHandInOrder

(* The mails posted so far keep their sensors, and the one in hand its flags. *)
LEMMA InHandKept ==
    ASSUME TypeOK, NEW s \in Sources, rx_ind(s), NEW d
    PROVE  /\ \A n \in MailNumber : origin'[n] = origin[n]
           /\ InHand(d)' = InHand(d)
  <1>1. \A n \in MailNumber : origin'[n] = origin[n]
    BY DEF TypeOK, rx_ind, MailNumber
  <1>2. place' = place /\ mail' = mail
    BY DEF rx_ind, alarmVars
  <1>3. CASE place = "recv"
    <2>1. d \notin ToCome[place]
      BY <1>3, ToComeValues
    <2> QED BY <1>1, <1>2, <2>1 DEF InHand
  <1>4. CASE place # "recv"
    <2>1. origin'[mail] = origin[mail]
      BY <1>1, <1>4 DEF TypeOK
    <2> QED BY <1>1, <1>2, <2>1 DEF InHand
  <1> QED BY <1>1, <1>3, <1>4

LEMMA CheckInOrder ==
    ASSUME TypeOK, InOrder, AlarmCheck
    PROVE  InOrder'
  <1> SUFFICES ASSUME NEW d \in Destination
               PROVE  OrderAt(taken[d], mq[d], InHand(d)', alarm_mq)
    BY DEF InOrder, OrderAt, AlarmCheck
  <1>1. OrderAt(taken[d], mq[d], InHand(d), alarm_mq)
    BY InOrderAt
  <1>2. InHand(d)' = <<>> \/ InHand(d)' = InHand(d)
    BY ToComeValues DEF InHand, AlarmCheck, sensorVars
  <1> QED BY <1>1, <1>2, EmptyHandInOrder

LEMMA ForwardInOrder ==
    ASSUME TypeOK, Flagged, InOrder, NEW p \in Destination, Forward(p)
    PROVE  InOrder'
  <1> SUFFICES ASSUME NEW d \in Destination
               PROVE  OrderAt(taken[d], mq'[d], InHand(d)', alarm_mq)
    BY DEF InOrder, OrderAt, Forward
  <1>1. OrderAt(taken[d], mq[d], InHand(d), alarm_mq)
    BY InOrderAt
  <1>2. InHand(d)' = <<>> \/ (InHand(d)' = InHand(d) /\ d # p)
    BY ToComeShrinks DEF InHand, Forward, sensorVars
  <1>3. CASE d # p
    BY <1>1, <1>2, <1>3, EmptyHandInOrder DEF Forward, TypeOK
  <1>4. CASE d = p
    <2>1. mq'[d] = mq[d] \/ mq'[d] = Append(mq[d], mail)
      BY <1>4 DEF Forward, rt_mq_send, TypeOK
    <2>2. InHand(d)' = <<>>
      BY <1>2, <1>4
    <2>3. InHand(d) = <<mail>>
      BY <1>4, ToComeValues DEF InHand, Forward, Flagged, Destination
    <2>4. OrderAt(taken[d], Append(mq[d], mail), <<>>, alarm_mq)
      BY <1>1, <2>3, AppendInOrder, EmptyInOrder, WayTypes DEF OrderAt
    <2>5. OrderAt(taken[d], mq[d], <<>>, alarm_mq)
      BY <1>1, EmptyHandInOrder
    <2> QED BY <2>1, <2>2, <2>4, <2>5
  <1> QED BY <1>3, <1>4

(* The thread behind a queue takes the earliest of what is to come. *)
LEMMA TakeInOrder ==
    ASSUME TypeOK, InOrder, NEW p \in Destination, Take(p)
    PROVE  InOrder'
  <1> SUFFICES ASSUME NEW d \in Destination
               PROVE  OrderAt(taken'[d], mq'[d], InHand(d), alarm_mq)
    BY DEF InOrder, OrderAt, Take, InHand, sensorVars, alarmVars
  <1>1. OrderAt(taken[d], mq[d], InHand(d), alarm_mq)
    BY InOrderAt
  <1>2. CASE d # p
    BY <1>1, <1>2 DEF Take, TypeOK
  <1>3. CASE d = p
    <2> DEFINE h == Head(mq[d])
    <2>1. /\ taken[d] \in Seq(Nat) /\ mq[d] \in Seq(Nat) /\ mq[d] # <<>> /\ InHand(d) \in Seq(Nat)
          /\ alarm_mq \in Seq(Nat) /\ h \in Nat /\ Tail(mq[d]) \in Seq(Nat)
      BY <1>3, WayTypes, SMTT(40) DEF Take
    <2>2. OrderAt(taken[d], Tail(mq[d]), InHand(d), alarm_mq)
      BY <1>1, <2>1, HeadInOrder DEF OrderAt
    <2>3. OrderAt(Append(taken[d], h), Tail(mq[d]), InHand(d), alarm_mq)
      <3>1. /\ Before(taken[d], <<h>>) /\ Before(<<h>>, Tail(mq[d]))
            /\ Before(<<h>>, InHand(d)) /\ Before(<<h>>, alarm_mq)
        BY <1>1, <2>1, HeadInOrder DEF OrderAt
      <3> QED BY <2>1, <2>2, <3>1, AppendInOrder DEF OrderAt
    <2>4. mq'[d] = Tail(mq[d]) /\ (taken'[d] = taken[d] \/ taken'[d] = Append(taken[d], h))
      BY <1>3 DEF Take, TypeOK
    <2> QED BY <2>2, <2>3, <2>4
  <1> QED BY <1>2, <1>3

(* A new mail has a number larger than all the others. *)
LEMMA RxIndInOrder ==
    ASSUME TypeOK, InOrder, NEW s \in Sources, rx_ind(s)
    PROVE  InOrder'
  <1> DEFINE n == Len(origin) + 1
  <1> SUFFICES ASSUME NEW d \in Destination
               PROVE  OrderAt(taken[d], mq[d], InHand(d)', alarm_mq')
    BY DEF InOrder, OrderAt, rx_ind
  <1>1. OrderAt(taken[d], mq[d], InHand(d), alarm_mq)
    BY InOrderAt
  <1>2. InHand(d)' = InHand(d)
    BY InHandKept
  <1>3. /\ taken[d] \in Seq(Nat) /\ mq[d] \in Seq(Nat) /\ InHand(d) \in Seq(Nat)
        /\ alarm_mq \in Seq(Nat) /\ n \in Nat
    BY WayTypes DEF TypeOK
  <1>4. /\ Before(taken[d], <<n>>) /\ Before(mq[d], <<n>>) /\ Before(InHand(d), <<n>>)
        /\ Before(alarm_mq, <<n>>)
    <2>1. ASSUME NEW q \in Seq(MailNumber \cup {0}) PROVE Before(q, <<n>>)
      <3>1. \A i \in 1..Len(q) : q[i] < n
        <4>1. \A x \in MailNumber \cup {0} : x < n
          BY DEF MailNumber, TypeOK
        <4>2. \A i \in 1..Len(q) : q[i] \in MailNumber \cup {0}
          OBVIOUS
        <4> QED BY <4>1, <4>2
      <3>2. \A j \in 1..Len(<<n>>) : <<n>>[j] = n
        OBVIOUS
      <3> QED BY <3>1, <3>2 DEF Before
    <2>2. MailNumber \subseteq MailNumber \cup {0}
      OBVIOUS
    <2>3. taken[d] \in Seq(MailNumber \cup {0})
      BY <2>2, Widen DEF TypeOK
    <2>4. alarm_mq \in Seq(MailNumber \cup {0})
      BY <2>2, Widen DEF TypeOK
    <2>5. mq[d] \in Seq(MailNumber \cup {0}) /\ InHand(d) \in Seq(MailNumber \cup {0})
      <3>1. mail \in MailNumber \cup {0}
        BY DEF TypeOK
      <3>2. <<mail>> \in Seq(MailNumber \cup {0}) /\ <<>> \in Seq(MailNumber \cup {0})
        BY <3>1
      <3> QED BY <3>2, InHandType DEF TypeOK
    <2> QED BY <2>1, <2>3, <2>4, <2>5
  <1>5. OrderAt(taken[d], mq[d], InHand(d), Append(alarm_mq, n))
    BY <1>1, <1>3, <1>4, AppendInOrder DEF OrderAt
  <1>6. alarm_mq' = alarm_mq \/ alarm_mq' = Append(alarm_mq, n)
    BY DEF rx_ind, rt_mq_send
  <1> QED BY <1>1, <1>2, <1>5, <1>6

(***************************************************************************)
(* Alarms arrive in the order in which they happened.                      *)
(***************************************************************************)
LEMMA InOrderStep == ASSUME TypeOK, Flagged, InOrder, [Next]_vars PROVE InOrder'
  <1> USE DEF sensorVars, alarmVars, serverVars
  <1>1. ASSUME UNCHANGED <<taken, mq, alarm_mq, place, mail, origin>> PROVE InOrder'
    BY <1>1 DEF InOrder, InHand
  <1>2. ASSUME NEW p \in Destination, mq' = [mq EXCEPT ![p] = rt_mq_send(@, MailMax, 0)],
               UNCHANGED <<taken, alarm_mq, place, mail, origin>>
        PROVE  InOrder'
    <2> SUFFICES ASSUME NEW d \in Destination
                 PROVE  OrderAt(taken[d], mq'[d], InHand(d), alarm_mq)
      BY <1>2 DEF InOrder, OrderAt, InHand
    <2>1. OrderAt(taken[d], mq[d], InHand(d), alarm_mq)
      BY InOrderAt
    <2>2. OrderAt(taken[d], rt_mq_send(mq[d], MailMax, 0), InHand(d), alarm_mq)
      BY <2>1, ZeroInOrder, WayTypes, BoundsAssumption
    <2>3. mq'[d] = mq[d] \/ mq'[d] = rt_mq_send(mq[d], MailMax, 0)
      BY <1>2 DEF TypeOK
    <2> QED BY <2>1, <2>2, <2>3
  <1>3. CASE Tick \/ LocalStart \/ UNCHANGED vars
    BY <1>1, <1>3 DEF Tick, LocalStart, vars
  <1>4. ASSUME NEW s \in Sources, rx_ind(s) PROVE InOrder'
    BY <1>4, RxIndInOrder
  <1>5. ASSUME NEW s \in Sources, rx_ind_dropped(s) PROVE InOrder'
    BY <1>1, <1>5 DEF rx_ind_dropped
  <1>6. ASSUME NEW d \in Destination, OtherMail(d) PROVE InOrder'
    BY <1>2, <1>6 DEF OtherMail
  <1>7. ASSUME NEW d \in Destination, Take(d) PROVE InOrder'
    BY <1>7, TakeInOrder
  <1>8. CASE AlarmRecv
    BY <1>8, RecvInOrder
  <1>9. CASE AlarmCheck
    BY <1>9, CheckInOrder
  <1>10. ASSUME NEW d \in Destination, Forward(d) PROVE InOrder'
    BY <1>10, ForwardInOrder
  <1>11. CASE ForwardToNull
    <2>1. \A d : InHand(d)' = InHand(d)
      BY <1>11, ToComeValues DEF ForwardToNull, InHand
    <2> QED BY <1>11, <2>1 DEF ForwardToNull, InOrder
  <1>12. ASSUME NEW t \in Handler, machine_status_deal(t) PROVE InOrder'
    BY <1>1, <1>12 DEF machine_status_deal
  <1>13. ASSUME NEW t \in Handler, NEW what \in {"sleep", "wake_up"}, recv_gprs_frame(t, what)
         PROVE  InOrder'
    BY <1>2, <1>13 DEF recv_gprs_frame, Destination
  <1> QED BY <1>3, <1>4, <1>5, <1>6, <1>7, <1>8, <1>9, <1>10, <1>11, <1>12, <1>13
          DEF Next, AlarmStep

(* A mail is passed on only to queues its flags name. *)
LEMMA FlaggedStep == ASSUME TypeOK, Flagged, [Next]_vars PROVE Flagged'
  <1> USE DEF sensorVars, alarmVars, serverVars
  <1>1. ASSUME UNCHANGED <<place, mail, origin>> PROVE Flagged'
    BY <1>1 DEF Flagged
  <1>2. \A F : FirstOf(F) \in Destination => FirstOf(F) \in F
    BY DEF FirstOf, Destination
  <1>3. CASE Tick \/ LocalStart \/ UNCHANGED vars
    BY <1>1, <1>3 DEF Tick, LocalStart, vars
  <1>4. ASSUME NEW s \in Sources, rx_ind(s) PROVE Flagged'
    <2>1. place' = place /\ mail' = mail
      BY <1>4 DEF rx_ind
    <2>2. place \in Destination => origin'[mail] = origin[mail]
      BY <1>4, InHandKept DEF TypeOK, Destination
    <2> QED BY <2>1, <2>2 DEF Flagged
  <1>5. ASSUME NEW s \in Sources, rx_ind_dropped(s) PROVE Flagged'
    BY <1>1, <1>5 DEF rx_ind_dropped
  <1>6. ASSUME NEW d \in Destination, OtherMail(d) \/ Take(d) PROVE Flagged'
    BY <1>1, <1>6 DEF OtherMail, Take
  <1>7. CASE AlarmRecv \/ ForwardToNull
    BY <1>7 DEF AlarmRecv, ForwardToNull, Flagged, Destination
  <1>8. CASE AlarmCheck
    BY <1>2, <1>8 DEF AlarmCheck, Flagged, Destination
  <1>9. ASSUME NEW d \in Destination, Forward(d) PROVE Flagged'
    BY <1>2, <1>9 DEF Forward, Flagged
  <1>10. ASSUME NEW t \in Handler, machine_status_deal(t) PROVE Flagged'
    BY <1>1, <1>10 DEF machine_status_deal
  <1>11. ASSUME NEW t \in Handler, NEW what \in {"sleep", "wake_up"}, recv_gprs_frame(t, what)
         PROVE  Flagged'
    BY <1>1, <1>11 DEF recv_gprs_frame
  <1> QED BY <1>3, <1>4, <1>5, <1>6, <1>7, <1>8, <1>9, <1>10, <1>11 DEF Next, AlarmStep

-----------------------------------------------------------------------------
(* No alarm disappears *)

LEMMA OnAppend ==
    ASSUME NEW q \in Seq(Nat), NEW x \in Nat, NEW n
    PROVE  On(Append(q, x), n) <=> On(q, n) \/ n = x
  <1>1. /\ Len(q) \in Nat /\ Len(Append(q, x)) = Len(q) + 1 /\ Append(q, x)[Len(q) + 1] = x
        /\ \A i \in 1..Len(q) : Append(q, x)[i] = q[i]
    OBVIOUS
  <1>2. 1..Len(q) + 1 = 1..Len(q) \cup {Len(q) + 1}
    BY <1>1
  <1> QED BY <1>1, <1>2 DEF On

LEMMA OnTail ==
    ASSUME NEW q \in Seq(Nat), q # <<>>, NEW n
    PROVE  On(q, n) <=> n = Head(q) \/ On(Tail(q), n)
  <1>1. /\ Len(q) \in Nat /\ Len(q) > 0 /\ Head(q) = q[1] /\ Len(Tail(q)) = Len(q) - 1
        /\ \A i \in 1..Len(q) - 1 : Tail(q)[i] = q[i + 1]
    OBVIOUS
  <1>2. ASSUME On(q, n) PROVE n = Head(q) \/ On(Tail(q), n)
    <2>1. PICK i \in 1..Len(q) : q[i] = n
      BY <1>2 DEF On
    <2>2. CASE i = 1
      BY <1>1, <2>1, <2>2
    <2>3. CASE i # 1
      <3>1. i - 1 \in 1..Len(q) - 1 /\ Tail(q)[i - 1] = n
        BY <1>1, <2>1, <2>3
      <3> QED BY <1>1, <3>1 DEF On
    <2> QED BY <2>2, <2>3
  <1>3. ASSUME n = Head(q) PROVE On(q, n)
    BY <1>1, <1>3 DEF On
  <1>4. ASSUME On(Tail(q), n) PROVE On(q, n)
    <2>1. PICK i \in 1..Len(q) - 1 : Tail(q)[i] = n
      BY <1>1, <1>4 DEF On
    <2>2. i + 1 \in 1..Len(q) /\ q[i + 1] = n
      BY <1>1, <2>1
    <2> QED BY <2>2 DEF On
  <1> QED BY <1>2, <1>3, <1>4

LEMMA OnOne == ASSUME NEW x, NEW n PROVE (On(<<x>>, n) <=> n = x) /\ ~On(<<>>, n)
  BY DEF On

LEMMA OnAnother ==
    ASSUME NEW q, NEW x, NEW n, q = <<>> \/ q = <<x>>, n # x
    PROVE  ~On(q, n)
  <1>1. CASE q = <<>>
    BY <1>1 DEF On
  <1>2. CASE q = <<x>>
    BY <1>2 DEF On
  <1> QED BY <1>1, <1>2

LEMMA OnElement == ASSUME NEW S, NEW q \in Seq(S), NEW n, On(q, n) PROVE n \in S
  BY DEF On

(* What is in order is at one place only. *)
LEMMA BeforeApart ==
    ASSUME NEW q, NEW r, Before(q, r), NEW n \in Nat, n > 0
    PROVE  ~(On(q, n) /\ On(r, n))
  BY DEF Before, On

(* Mails of others have no number. *)
LEMMA OnZero ==
    ASSUME NEW q \in Seq(Nat), NEW max, NEW n \in Nat, n > 0
    PROVE  On(rt_mq_send(q, max, 0), n) <=> On(q, n)
  <1>1. On(Append(q, 0), n) <=> On(q, n)
    BY OnAppend
  <1>2. rt_mq_send(q, max, 0) = q \/ rt_mq_send(q, max, 0) = Append(q, 0)
    BY DEF rt_mq_send
  <1> QED BY <1>1, <1>2

(* A mail for one destination is either done with or under way. *)
Accounted(n, d) ==
    /\ Settled(n, d) \/ Underway(n, d)
    /\ ~(Settled(n, d) /\ Underway(n, d))

LEMMA FlagsNameQueues == \A s \in Sources : Flags[s] \subseteq Destination
  BY SourcesAssumption DEF Flags, Destination

(* What is under way in two places at once, or both in hand and done with *)
LEMMA Places ==
    ASSUME TypeOK, InOrder, NEW n \in MailNumber, NEW d \in Destination
    PROVE  /\ n \in Nat /\ n > 0
           /\ On(InHand(d), n) => ~On(mq[d], n) /\ ~On(alarm_mq, n)
           /\ On(mq[d], n) => ~On(alarm_mq, n)
  <1>1. n \in Nat /\ n > 0
    BY DEF MailNumber, TypeOK
  <1> QED BY <1>1, BeforeApart DEF InOrder

LEMMA AccountedFor ==
    NoneDisappears <=> \A n \in MailNumber : \A d \in Flags[origin[n]] : Accounted(n, d)
  BY DEF NoneDisappears, Accounted

(* The destinations of a mail are destinations. *)
LEMMA MailDestination ==
    ASSUME TypeOK, NEW n \in MailNumber, NEW d \in Flags[origin[n]]
    PROVE  d \in Destination
  <1>1. origin[n] \in Sources
    BY DEF TypeOK, MailNumber
  <1> QED BY <1>1, FlagsNameQueues

LEMMA RecvAccounted ==
    ASSUME TypeOK, InOrder, NoneDisappears, AlarmRecv
    PROVE  NoneDisappears'
  <1>1. MailNumber' = MailNumber /\ origin' = origin
    BY DEF AlarmRecv, sensorVars, MailNumber
  <1> SUFFICES ASSUME NEW n \in MailNumber, NEW d \in Flags[origin[n]]
               PROVE  Accounted(n, d)'
    BY <1>1 DEF NoneDisappears, Accounted
  <1>2. d \in Destination /\ Accounted(n, d)
    BY MailDestination, AccountedFor
  <1>3. Settled(n, d)' <=> Settled(n, d)
    BY DEF AlarmRecv, Settled
  <1>4. On(alarm_mq, n) <=> n = Head(alarm_mq) \/ On(alarm_mq', n)
    BY OnTail, WayTypes, <1>2 DEF AlarmRecv
  <1>5. ~On(InHand(d), n)
    <2>1. InHand(d) = <<>>
      BY ToComeValues DEF AlarmRecv, InHand
    <2> QED BY <2>1, OnOne
  <1>6. On(InHand(d)', n) <=> n = Head(alarm_mq)
    <2>1. CASE n = Head(alarm_mq)
      <3>1. InHand(d)' = <<n>>
        BY <1>1, <1>2, <2>1, ToComeValues DEF AlarmRecv, InHand
      <3> QED BY <2>1, <3>1, OnOne
    <2>2. CASE n # Head(alarm_mq)
      <3>1. InHand(d)' = <<>> \/ InHand(d)' = <<Head(alarm_mq)>>
        BY DEF AlarmRecv, InHand
      <3> QED BY <2>2, <3>1, OnAnother
    <2> QED BY <2>1, <2>2
  <1>7. On(mq[d], n)' <=> On(mq[d], n)
    BY DEF AlarmRecv
  <1>8. Underway(n, d)' <=> Underway(n, d)
    BY <1>4, <1>5, <1>6, <1>7 DEF Underway
  <1> QED BY <1>2, <1>3, <1>8 DEF Accounted

LEMMA CheckAccounted ==
    ASSUME TypeOK, InOrder, NoneDisappears, AlarmCheck
    PROVE  NoneDisappears'
  <1>1. MailNumber' = MailNumber /\ origin' = origin /\ mail' = mail
    BY DEF AlarmCheck, sensorVars, MailNumber
  <1> SUFFICES ASSUME NEW n \in MailNumber, NEW d \in Flags[origin[n]]
               PROVE  Accounted(n, d)'
    BY <1>1 DEF NoneDisappears, Accounted
  <1>2. d \in Destination /\ Accounted(n, d)
    BY MailDestination, AccountedFor
  <1>3. On(mq[d], n)' <=> On(mq[d], n)
    BY DEF AlarmCheck
  <1>4. On(alarm_mq, n)' <=> On(alarm_mq, n)
    BY DEF AlarmCheck
  <1>5. mail \in MailNumber
    BY DEF TypeOK, AlarmCheck
  <1>6. CASE on_work
    <2>1. Flags[origin[mail]] \subseteq Destination
      BY <1>5, MailDestination
    <2>2. InHand(d)' = InHand(d)
      BY <1>1, <1>2, <1>6, <2>1, ToComeFirst, ToComeValues DEF AlarmCheck, InHand
    <2>3. Settled(n, d)' <=> Settled(n, d)
      BY <1>6 DEF AlarmCheck, Settled
    <2> QED BY <1>2, <1>3, <1>4, <2>2, <2>3 DEF Accounted, Underway
  <1>7. CASE ~on_work
    <2>1. InHand(d)' = <<>> /\ ignored' = ignored \cup {mail}
      BY <1>7, ToComeValues DEF AlarmCheck, InHand
    <2>2. ~On(InHand(d)', n)
      BY <2>1, OnOne
    <2>3. CASE n = mail
      <3>1. InHand(d) = <<n>>
        BY <1>2, <2>3, ToComeValues DEF AlarmCheck, InHand
      <3>2. On(InHand(d), n)
        BY <3>1, OnOne
      <3>3. ~On(mq[d], n) /\ ~On(alarm_mq, n)
        BY <1>2, <3>2, Places
      <3>4. Settled(n, d)'
        BY <2>1, <2>3 DEF Settled
      <3> QED BY <1>3, <1>4, <2>2, <3>3, <3>4 DEF Accounted, Underway
    <2>4. CASE n # mail
      <3>1. ~On(InHand(d), n)
        BY <2>4, InHandType, OnAnother
      <3>2. Settled(n, d)' <=> Settled(n, d)
        BY <2>1, <2>4 DEF AlarmCheck, Settled
      <3> QED BY <1>2, <1>3, <1>4, <2>2, <3>1, <3>2 DEF Accounted, Underway
    <2> QED BY <2>3, <2>4
  <1> QED BY <1>6, <1>7

LEMMA ForwardAccounted ==
    ASSUME TypeOK, Flagged, InOrder, NoneDisappears, NEW p \in Destination, Forward(p)
    PROVE  NoneDisappears'
  <1>1. MailNumber' = MailNumber /\ origin' = origin /\ mail' = mail
    BY DEF Forward, sensorVars, MailNumber
  <1> SUFFICES ASSUME NEW n \in MailNumber, NEW d \in Flags[origin[n]]
               PROVE  Accounted(n, d)'
    BY <1>1 DEF NoneDisappears, Accounted
  <1>2. d \in Destination /\ Accounted(n, d)
    BY MailDestination, AccountedFor
  <1>3. On(alarm_mq, n)' <=> On(alarm_mq, n)
    BY DEF Forward
  <1>4. On(taken[d], n)' <=> On(taken[d], n)
    BY DEF Forward
  <1>5. CASE d # p
    <2>1. mq'[d] = mq[d] /\ (<<n, d>> \in lost' <=> <<n, d>> \in lost) /\ ignored' = ignored
      BY <1>2, <1>5 DEF Forward, TypeOK
    <2>2. InHand(d)' = InHand(d)
      BY <1>1, <1>5, ToComeShrinks DEF Forward, InHand
    <2> QED BY <1>2, <1>3, <1>4, <2>1, <2>2 DEF Accounted, Settled, Underway
  <1>6. CASE d = p
    <2>1. InHand(d) = <<mail>>
      BY <1>6, ToComeValues DEF InHand, Forward, Flagged, Destination
    <2>2. InHand(d)' = <<>>
      BY <1>1, <1>6, ToComeShrinks DEF Forward, InHand
    <2>3. ~On(InHand(d)', n) /\ (On(InHand(d), n) <=> n = mail)
      BY <2>1, <2>2, OnOne
    <2>4. mq[d] \in Seq(Nat) /\ mail \in Nat
      BY <1>2, WayTypes
    <2>5. CASE Len(mq[d]) < MailMax
      <3>1. mq'[d] = Append(mq[d], mail) /\ lost' = lost /\ ignored' = ignored
        BY <1>6, <2>5 DEF Forward, rt_mq_send, TypeOK
      <3>2. On(mq'[d], n) <=> On(mq[d], n) \/ n = mail
        BY <2>4, <3>1, OnAppend
      <3> QED BY <1>2, <1>3, <1>4, <2>3, <3>1, <3>2 DEF Accounted, Settled, Underway
    <2>6. CASE ~(Len(mq[d]) < MailMax)
      <3>1. mq'[d] = mq[d] /\ lost' = lost \cup {<<mail, d>>} /\ ignored' = ignored
        BY <1>6, <2>6 DEF Forward, rt_mq_send, TypeOK
      <3>2. <<n, d>> \in lost' <=> n = mail \/ <<n, d>> \in lost
        BY <3>1
      <3>3. On(InHand(d), n) => ~On(mq[d], n) /\ ~On(alarm_mq, n)
        BY <1>2, Places
      <3>4. Settled(n, d)' <=> Settled(n, d) \/ n = mail
        BY <1>4, <3>1, <3>2 DEF Settled
      <3>5. Underway(n, d)' <=> On(alarm_mq, n) \/ On(mq[d], n)
        BY <1>3, <2>3, <3>1 DEF Underway
      <3> QED BY <1>2, <2>3, <3>3, <3>4, <3>5 DEF Accounted, Underway
    <2> QED BY <2>5, <2>6
  <1> QED BY <1>5, <1>6

LEMMA TakeAccounted ==
    ASSUME TypeOK, InOrder, NoneDisappears, NEW p \in Destination, Take(p)
    PROVE  NoneDisappears'
  <1>1. /\ MailNumber' = MailNumber /\ origin' = origin
        /\ alarm_mq' = alarm_mq /\ lost' = lost /\ ignored' = ignored
    BY DEF Take, sensorVars, MailNumber
  <1> SUFFICES ASSUME NEW n \in MailNumber, NEW d \in Flags[origin[n]]
               PROVE  Accounted(n, d)'
    BY <1>1 DEF NoneDisappears, Accounted
  <1>2. d \in Destination /\ Accounted(n, d)
    BY MailDestination, AccountedFor
  <1>3. InHand(d)' = InHand(d)
    BY DEF Take, InHand, sensorVars, alarmVars
  <1>4. n \in Nat /\ n > 0
    BY <1>2, Places
  <1>5. CASE d # p
    <2>1. mq'[d] = mq[d] /\ taken'[d] = taken[d]
      BY <1>2, <1>5 DEF Take, TypeOK
    <2> QED BY <1>1, <1>2, <1>3, <2>1 DEF Accounted, Settled, Underway
  <1>6. CASE d = p
    <2> DEFINE h == Head(mq[d])
    <2>1. mq[d] \in Seq(Nat) /\ mq[d] # <<>> /\ taken[d] \in Seq(Nat) /\ h \in Nat
      BY <1>2, <1>6, WayTypes, SMTT(40) DEF Take
    <2>2. mq'[d] = Tail(mq[d]) /\ taken'[d] = IF h = 0 THEN taken[d] ELSE Append(taken[d], h)
      BY <1>6 DEF Take, TypeOK
    <2>3. On(mq[d], n) <=> n = h \/ On(mq'[d], n)
      BY <2>1, <2>2, OnTail
    <2>4. On(taken'[d], n) <=> On(taken[d], n) \/ n = h
      <3>1. CASE h = 0
        BY <1>4, <2>2, <3>1
      <3>2. CASE h # 0
        BY <2>1, <2>2, <3>2, OnAppend
      <3> QED BY <3>1, <3>2
    <2>5. n = h => ~On(mq'[d], n)
      <3>1. Before(<<h>>, mq'[d])
        BY <1>2, <2>1, <2>2, HeadInOrder DEF InOrder
      <3>2. On(<<h>>, h)
        BY OnOne
      <3> QED BY <1>4, <3>1, <3>2, BeforeApart
    <2>6. On(mq[d], n) => ~On(alarm_mq, n) /\ ~On(InHand(d), n)
      BY <1>2, Places
    <2>7. Settled(n, d)' <=> Settled(n, d) \/ n = h
      BY <1>1, <2>4 DEF Settled
    <2>8. Underway(n, d)' <=> On(alarm_mq, n) \/ On(InHand(d), n) \/ On(mq'[d], n)
      BY <1>1, <1>3 DEF Underway
    <2> QED BY <1>2, <2>3, <2>5, <2>6, <2>7, <2>8 DEF Accounted, Underway
  <1> QED BY <1>5, <1>6

LEMMA RxIndAccounted ==
    ASSUME TypeOK, Recorded, InOrder, NoneDisappears, NEW s \in Sources, rx_ind(s)
    PROVE  NoneDisappears'
  <1> DEFINE new == Len(origin) + 1
  <1>1. /\ Len(origin) \in Nat /\ origin' = Append(origin, s) /\ MailNumber' = MailNumber \cup {new}
        /\ new \notin MailNumber /\ new \in Nat /\ new # 0
        /\ origin'[new] = s
    BY DEF rx_ind, MailNumber, TypeOK
  <1> SUFFICES ASSUME NEW n \in MailNumber', NEW d \in Flags[origin'[n]]
               PROVE  Accounted(n, d)'
    BY DEF NoneDisappears, Accounted
  <1>2. /\ taken' = taken /\ mq' = mq /\ ignored' = ignored
        /\ InHand(d)' = InHand(d)
        /\ \A i \in MailNumber : origin'[i] = origin[i]
    BY InHandKept DEF rx_ind
  <1>3. d \in Destination
    <2>1. origin'[n] \in Sources
      BY <1>1, <1>2 DEF TypeOK, MailNumber
    <2> QED BY <2>1, FlagsNameQueues
  <1>4. alarm_mq \in Seq(Nat)
    BY <1>3, WayTypes
  <1>5. \/ Len(alarm_mq) < AlarmMax /\ alarm_mq' = Append(alarm_mq, new) /\ lost' = lost
        \/ /\ ~(Len(alarm_mq) < AlarmMax) /\ alarm_mq' = alarm_mq
           /\ lost' = lost \cup ({new} \X Flags[s])
    BY DEF rx_ind, rt_mq_send
  <1>6. On(Append(alarm_mq, new), n) <=> On(alarm_mq, n) \/ n = new
    BY <1>1, <1>4, OnAppend
  <1>7. CASE n \in MailNumber
    <2>1. n # new /\ d \in Flags[origin[n]]
      BY <1>1, <1>2, <1>7
    <2>2. Accounted(n, d)
      BY <1>7, <2>1, AccountedFor
    <2>3. On(alarm_mq', n) <=> On(alarm_mq, n)
      BY <1>5, <1>6, <2>1
    <2>4. <<n, d>> \in lost' <=> <<n, d>> \in lost
      BY <1>5, <2>1
    <2> QED BY <1>2, <2>2, <2>3, <2>4 DEF Accounted, Settled, Underway
  <1>8. CASE n = new
    <2>1. d \in Flags[s]
      BY <1>1, <1>8
    <2>2. ~On(taken[d], n) /\ ~On(alarm_mq, n)
      <3>1. n \notin MailNumber
        BY <1>1, <1>8
      <3>2. taken[d] \in Seq(MailNumber) /\ alarm_mq \in Seq(MailNumber)
        BY <1>3 DEF TypeOK
      <3> QED BY <3>1, <3>2, OnElement
    <2>3. ~On(mq[d], n) /\ ~On(InHand(d), n)
      <3>1. n \notin MailNumber \cup {0}
        BY <1>1, <1>8
      <3>2. mq[d] \in Seq(MailNumber \cup {0}) /\ mail \in MailNumber \cup {0}
        BY <1>3 DEF TypeOK
      <3>3. ~On(mq[d], n)
        BY <3>1, <3>2, OnElement
      <3> QED BY <3>1, <3>2, <3>3, InHandType, OnAnother
    <2>4. n \notin ignored /\ <<n, d>> \notin lost
      BY <1>1, <1>8 DEF Recorded
    <2>5. CASE Len(alarm_mq) < AlarmMax
      BY <1>2, <1>5, <1>6, <1>8, <2>2, <2>3, <2>4, <2>5 DEF Accounted, Settled, Underway
    <2>6. CASE ~(Len(alarm_mq) < AlarmMax)
      <3>1. <<n, d>> \in lost' /\ alarm_mq' = alarm_mq
        BY <1>5, <1>8, <2>1, <2>6
      <3> QED BY <1>2, <2>2, <2>3, <3>1 DEF Accounted, Settled, Underway
    <2> QED BY <2>5, <2>6
  <1> QED BY <1>1, <1>7, <1>8

LEMMA NoneDisappearsStep ==
    ASSUME TypeOK, Recorded, Flagged, InOrder, NoneDisappears, [Next]_vars
    PROVE  NoneDisappears'
  <1> USE DEF sensorVars, alarmVars, serverVars
  <1>1. ASSUME UNCHANGED <<taken, mq, alarm_mq, origin, lost, ignored>>,
               \A d \in Destination : InHand(d)' = InHand(d)
        PROVE  NoneDisappears'
    <2>1. MailNumber' = MailNumber
      BY <1>1 DEF MailNumber
    <2> SUFFICES ASSUME NEW n \in MailNumber, NEW d \in Flags[origin[n]] PROVE Accounted(n, d)'
      BY <1>1, <2>1 DEF NoneDisappears, Accounted
    <2> QED BY <1>1, MailDestination, AccountedFor DEF Accounted, Settled, Underway
  <1>2. ASSUME NEW p \in Destination, mq' = [mq EXCEPT ![p] = rt_mq_send(@, MailMax, 0)],
               UNCHANGED <<taken, alarm_mq, place, mail, origin, lost, ignored>>
        PROVE  NoneDisappears'
    <2>1. MailNumber' = MailNumber
      BY <1>2 DEF MailNumber
    <2> SUFFICES ASSUME NEW n \in MailNumber, NEW d \in Flags[origin[n]] PROVE Accounted(n, d)'
      BY <1>2, <2>1 DEF NoneDisappears, Accounted
    <2>2. d \in Destination /\ Accounted(n, d)
      BY MailDestination, AccountedFor
    <2>3. On(rt_mq_send(mq[d], MailMax, 0), n) <=> On(mq[d], n)
      BY <2>2, OnZero, WayTypes, Places
    <2>4. mq'[d] = mq[d] \/ mq'[d] = rt_mq_send(mq[d], MailMax, 0)
      BY <1>2, <2>2 DEF TypeOK
    <2>5. On(mq'[d], n) <=> On(mq[d], n)
      BY <2>3, <2>4
    <2>6. InHand(d)' = InHand(d)
      BY <1>2 DEF InHand
    <2> QED BY <1>2, <2>2, <2>5, <2>6 DEF Accounted, Settled, Underway
  <1>3. CASE Tick \/ LocalStart \/ UNCHANGED vars
    BY <1>1, <1>3 DEF Tick, LocalStart, vars, InHand
  <1>4. ASSUME NEW s \in Sources, rx_ind(s) PROVE NoneDisappears'
    BY <1>4, RxIndAccounted
  <1>5. ASSUME NEW s \in Sources, rx_ind_dropped(s) PROVE NoneDisappears'
    BY <1>1, <1>5 DEF rx_ind_dropped, InHand
  <1>6. ASSUME NEW d \in Destination, OtherMail(d) PROVE NoneDisappears'
    BY <1>2, <1>6 DEF OtherMail
  <1>7. ASSUME NEW d \in Destination, Take(d) PROVE NoneDisappears'
    BY <1>7, TakeAccounted
  <1>8. CASE AlarmRecv
    BY <1>8, RecvAccounted
  <1>9. CASE AlarmCheck
    BY <1>9, CheckAccounted
  <1>10. ASSUME NEW d \in Destination, Forward(d) PROVE NoneDisappears'
    BY <1>10, ForwardAccounted
  <1>11. CASE ForwardToNull
    BY <1>1, <1>11, ToComeValues DEF ForwardToNull, InHand
  <1>12. ASSUME NEW t \in Handler, machine_status_deal(t) PROVE NoneDisappears'
    BY <1>1, <1>12 DEF machine_status_deal, InHand
  <1>13. ASSUME NEW t \in Handler, NEW what \in {"sleep", "wake_up"}, recv_gprs_frame(t, what)
         PROVE  NoneDisappears'
    BY <1>2, <1>13 DEF recv_gprs_frame, Destination
  <1> QED BY <1>3, <1>4, <1>5, <1>6, <1>7, <1>8, <1>9, <1>10, <1>11, <1>12, <1>13
          DEF Next, AlarmStep

LEMMA RecordedStep == ASSUME TypeOK, Recorded, [Next]_vars PROVE Recorded'
  <1> USE DEF sensorVars, alarmVars, serverVars
  <1>1. ASSUME UNCHANGED <<origin, lost, ignored>> PROVE Recorded'
    BY <1>1 DEF Recorded, MailNumber
  <1>2. CASE Tick \/ LocalStart \/ UNCHANGED vars \/ AlarmRecv \/ ForwardToNull
    BY <1>1, <1>2 DEF Tick, LocalStart, vars, AlarmRecv, ForwardToNull
  <1>3. ASSUME NEW s \in Sources, rx_ind(s) PROVE Recorded'
    <2>1. MailNumber \subseteq MailNumber' /\ Len(origin) + 1 \in MailNumber'
      BY <1>3 DEF rx_ind, MailNumber, TypeOK
    <2> QED BY <1>3, <2>1, FlagsNameQueues DEF rx_ind, Recorded
  <1>4. ASSUME NEW s \in Sources, rx_ind_dropped(s) PROVE Recorded'
    BY <1>1, <1>4 DEF rx_ind_dropped
  <1>5. ASSUME NEW d \in Destination, OtherMail(d) \/ Take(d) PROVE Recorded'
    BY <1>1, <1>5 DEF OtherMail, Take
  <1>6. CASE AlarmCheck
    BY <1>6 DEF AlarmCheck, Recorded, MailNumber, TypeOK
  <1>7. ASSUME NEW d \in Destination, Forward(d) PROVE Recorded'
    <2>1. mail \in MailNumber /\ MailNumber' = MailNumber
      BY <1>7 DEF Forward, TypeOK, MailNumber, Destination
    <2> QED BY <1>7, <2>1 DEF Forward, Recorded
  <1>8. ASSUME NEW t \in Handler, machine_status_deal(t) PROVE Recorded'
    BY <1>1, <1>8 DEF machine_status_deal
  <1>9. ASSUME NEW t \in Handler, NEW what \in {"sleep", "wake_up"}, recv_gprs_frame(t, what)
        PROVE  Recorded'
    BY <1>1, <1>9 DEF recv_gprs_frame
  <1> QED BY <1>2, <1>3, <1>4, <1>5, <1>6, <1>7, <1>8, <1>9 DEF Next, AlarmStep

(***************************************************************************)
(* The inductive invariant of the way from the sensors' handlers through   *)
(* alarm_mq and the three queues behind it.                                *)
(***************************************************************************)
THEOREM AlarmWayInvariant == Spec => []WayInv
  <1>1. Init => Recorded /\ Flagged /\ InOrder /\ NoneDisappears
    <2> SUFFICES ASSUME Init PROVE Recorded /\ Flagged /\ InOrder /\ NoneDisappears
      OBVIOUS
    <2>1. Recorded /\ Flagged
      BY DEF Init, Recorded, Flagged, Destination
    <2>2. InOrder
      <3>1. ASSUME NEW d \in Destination
            PROVE  taken[d] = <<>> /\ mq[d] = <<>> /\ InHand(d) = <<>> /\ alarm_mq = <<>>
        BY ToComeValues DEF Init, InHand
      <3> QED BY <3>1, EmptyInOrder DEF InOrder
    <2>3. MailNumber = {}
      BY DEF Init, MailNumber
    <2> QED BY <2>1, <2>2, <2>3 DEF NoneDisappears
  <1>2. TypeOK /\ Recorded /\ Flagged /\ InOrder /\ NoneDisappears /\ [Next]_vars
            => (Recorded /\ Flagged /\ InOrder /\ NoneDisappears)'
    BY RecordedStep, FlaggedStep, InOrderStep, NoneDisappearsStep
  <1> QED BY <1>1, <1>2, AlarmTypeCorrect, PTL DEF Spec, WayInv

(* Every thread takes the alarms in the order in which they happened, and none twice. *)
THEOREM AlarmsInOrder == Spec => []InOrder
  <1>1. WayInv => InOrder
    BY DEF WayInv
  <1> QED BY <1>1, AlarmWayInvariant, PTL

(***************************************************************************)
(* For each destination an alarm is under way or done with, never both and *)
(* never neither: a full queue or a machine asleep is the only loss.       *)
(***************************************************************************)
THEOREM AlarmsNeverDisappear == Spec => []NoneDisappears
  <1>1. WayInv => NoneDisappears
    BY DEF WayInv
  <1> QED BY <1>1, AlarmWayInvariant, PTL
=============================================================================
