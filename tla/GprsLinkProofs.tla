--------------------------- MODULE GprsLinkProofs ---------------------------
(***************************************************************************)
(* Proofs about the link to the server, for every number of orders from    *)
(* two, every queue length, any commands, alarms and faults.               *)
(*                                                                         *)
(* Every theorem follows from LinkInv, which is inductive.  That a request *)
(* counts as answered only if the server has got it rests on where answers *)
(* may be and which orders they may have (AnswersOld, AnswersFit); that    *)
(* the server is told the truth rests on a command arriving once, in one   *)
(* place, and being unknown until it is looked at (Apart, Unknown), and on *)
(* what an upload's frame says of the command it holds until it has been   *)
(* parsed there twice or wiped (HeldOnce).                                 *)
(***************************************************************************)
EXTENDS GprsLink, FiniteSetTheorems, TLAPS

(* Orders come round: the next one of an order is an order, a different one, and determines it. *)
LEMMA NextOrder ==
    /\ \A o \in Order : (o + 1) % Orders \in Order /\ (o + 1) % Orders # o
    /\ \A o, p \in Order : (o + 1) % Orders = (p + 1) % Orders => o = p
<1>1. Orders \in Nat /\ Orders > 1
    BY LinkAssumption
<1>2. \A o \in Order : (o + 1) % Orders = IF o + 1 = Orders THEN 0 ELSE o + 1
  <2>1. TAKE o \in Order
  <2>2. o \in Nat /\ o + 1 <= Orders
      BY <1>1 DEF Order
  <2>3. CASE o + 1 = Orders
    <3>1. Orders % Orders = 0
        BY <1>1
    <3> QED
        BY <2>3, <3>1
  <2>4. CASE o + 1 # Orders
    <3>1. o + 1 \in 0..Orders - 1
        BY <1>1, <2>2, <2>4
    <3>2. (o + 1) % Orders = o + 1
        BY <1>1, <3>1
    <3> QED
        BY <2>4, <3>2
  <2> QED
      BY <2>3, <2>4
<1> QED
    BY <1>1, <1>2 DEF Order

-----------------------------------------------------------------------------
(* What a sequence holds *)

LEMMA HoldsEmpty == \A f : ~Holds(<<>>, f)
    BY DEF Holds

LEMMA HoldsAppend ==
    ASSUME NEW S, NEW q \in Seq(S), NEW x \in S
    PROVE  /\ Append(q, x) \in Seq(S) /\ Len(Append(q, x)) = Len(q) + 1
           /\ \A f : Holds(Append(q, x), f) <=> Holds(q, f) \/ f = x
<1>1. /\ Append(q, x) \in Seq(S) /\ Len(q) \in Nat
      /\ Len(Append(q, x)) = Len(q) + 1
      /\ Append(q, x)[Len(q) + 1] = x
      /\ DOMAIN q = 1..Len(q) /\ DOMAIN Append(q, x) = 1..Len(q) + 1
      /\ \A i \in 1..Len(q) : Append(q, x)[i] = q[i]
    OBVIOUS
<1>2. \A i \in DOMAIN Append(q, x) : i = Len(q) + 1 \/ i \in DOMAIN q
    BY <1>1
<1>3. Len(q) + 1 \in DOMAIN Append(q, x) /\ DOMAIN q \subseteq DOMAIN Append(q, x)
    BY <1>1
<1>4. ASSUME NEW f PROVE Holds(Append(q, x), f) <=> Holds(q, f) \/ f = x
  <2>1. ASSUME Holds(Append(q, x), f) PROVE Holds(q, f) \/ f = x
      BY <1>1, <1>2, <2>1 DEF Holds
  <2>2. ASSUME Holds(q, f) PROVE Holds(Append(q, x), f)
      BY <1>1, <1>3, <2>2 DEF Holds
  <2>3. ASSUME f = x PROVE Holds(Append(q, x), f)
      BY <1>1, <1>3, <2>3 DEF Holds
  <2> QED
      BY <2>1, <2>2, <2>3
<1> QED
    BY <1>1, <1>4

LEMMA HoldsTail ==
    ASSUME NEW S, NEW q \in Seq(S), q # <<>>
    PROVE  /\ Tail(q) \in Seq(S) /\ Head(q) \in S /\ Len(Tail(q)) = Len(q) - 1
           /\ \A f : Holds(q, f) <=> f = Head(q) \/ Holds(Tail(q), f)
<1>1. /\ Tail(q) \in Seq(S) /\ Len(q) \in Nat \ {0} /\ Head(q) \in S
      /\ Len(Tail(q)) = Len(q) - 1 /\ Head(q) = q[1]
      /\ DOMAIN q = 1..Len(q) /\ DOMAIN Tail(q) = 1..Len(q) - 1
      /\ \A i \in 1..Len(q) - 1 : Tail(q)[i] = q[i + 1]
    OBVIOUS
<1>2. ASSUME NEW f PROVE Holds(q, f) <=> f = Head(q) \/ Holds(Tail(q), f)
  <2>1. ASSUME NEW i \in DOMAIN q, q[i] = f, f # Head(q) PROVE Holds(Tail(q), f)
    <3>1. i - 1 \in DOMAIN Tail(q) /\ Tail(q)[i - 1] = f
        BY <1>1, <2>1
    <3> QED
        BY <3>1 DEF Holds
  <2>2. ASSUME NEW i \in DOMAIN Tail(q), Tail(q)[i] = f PROVE Holds(q, f)
    <3>1. i + 1 \in DOMAIN q /\ q[i + 1] = f
        BY <1>1, <2>2
    <3> QED
        BY <3>1 DEF Holds
  <2>3. ASSUME f = Head(q) PROVE Holds(q, f)
    <3>1. 1 \in DOMAIN q
        BY <1>1
    <3> QED
        BY <1>1, <2>3, <3>1 DEF Holds
  <2> QED
      BY <2>1, <2>2, <2>3 DEF Holds
<1> QED
    BY <1>1, <1>2

(* A command occurs once if it did and another item is added, *)
LEMMA OnceAppend ==
    ASSUME NEW q \in Seq(Item), NEW x \in Item, Once(q), x[1] # "command" \/ ~Holds(q, x)
    PROVE  Once(Append(q, x))
<1>1. /\ Append(q, x) \in Seq(Item) /\ Len(q) \in Nat
      /\ Append(q, x)[Len(q) + 1] = x
      /\ DOMAIN q = 1..Len(q) /\ DOMAIN Append(q, x) = 1..Len(q) + 1
      /\ \A i \in 1..Len(q) : Append(q, x)[i] = q[i]
    OBVIOUS
<1>2. \A i \in DOMAIN Append(q, x) : i = Len(q) + 1 \/ i \in DOMAIN q
    BY <1>1
<1> SUFFICES ASSUME NEW i \in DOMAIN Append(q, x), NEW j \in DOMAIN Append(q, x),
                    Append(q, x)[i][1] = "command", Append(q, x)[i] = Append(q, x)[j]
             PROVE  i = j
    BY DEF Once
<1>3. CASE i \in DOMAIN q /\ j \in DOMAIN q
    BY <1>1, <1>3 DEF Once
<1>4. CASE i = Len(q) + 1 /\ j \in DOMAIN q
    BY <1>1, <1>4 DEF Holds
<1>5. CASE j = Len(q) + 1 /\ i \in DOMAIN q
    BY <1>1, <1>5 DEF Holds
<1> QED
    BY <1>2, <1>3, <1>4, <1>5

(* if the first is taken out, which then is gone, *)
LEMMA OnceTail ==
    ASSUME NEW q \in Seq(Item), q # <<>>, Once(q)
    PROVE  Once(Tail(q)) /\ (Head(q)[1] = "command" => ~Holds(Tail(q), Head(q)))
<1>1. /\ Len(q) \in Nat \ {0} /\ Head(q) = q[1]
      /\ DOMAIN q = 1..Len(q) /\ DOMAIN Tail(q) = 1..Len(q) - 1
      /\ \A i \in 1..Len(q) - 1 : Tail(q)[i] = q[i + 1]
    OBVIOUS
<1>2. \A i \in DOMAIN Tail(q) : i + 1 \in DOMAIN q /\ Tail(q)[i] = q[i + 1] /\ i + 1 # 1 /\ i \in Int
    BY <1>1
<1>3. Once(Tail(q))
  <2> SUFFICES ASSUME NEW i \in DOMAIN Tail(q), NEW j \in DOMAIN Tail(q),
                      Tail(q)[i][1] = "command", Tail(q)[i] = Tail(q)[j]
               PROVE  i = j
      BY DEF Once
  <2>1. i + 1 = j + 1
      BY <1>2 DEF Once
  <2> QED
      BY <1>2, <2>1
<1>4. Head(q)[1] = "command" => ~Holds(Tail(q), Head(q))
  <2> SUFFICES ASSUME q[1][1] = "command", NEW i \in DOMAIN Tail(q), Tail(q)[i] = q[1]
               PROVE  FALSE
      BY <1>1 DEF Holds
  <2>1. 1 \in DOMAIN q
      BY <1>1
  <2> QED
      BY <1>2, <2>1 DEF Once
<1> QED
    BY <1>3, <1>4

(* and if only some places are kept. *)
LEMMA RemainingKeeps ==
    ASSUME NEW q \in Seq(Item), NEW keep \in SUBSET DOMAIN q, NEW r \in Remaining(q, keep)
    PROVE  /\ r \in Seq(Item) /\ (Once(q) => Once(r))
           /\ \A f : Holds(r, f) => \E i \in keep : q[i] = f
<1> DEFINE n == Cardinality(keep)
<1>1. Len(q) \in Nat /\ DOMAIN q = 1..Len(q) /\ \A i \in DOMAIN q : q[i] \in Item
    OBVIOUS
<1>2. n \in Nat
  <2>1. IsFiniteSet(DOMAIN q)
      BY <1>1, FS_Interval
  <2> QED
      BY <2>1, FS_Subset, FS_CardinalityType
<1>3. PICK at \in [1..n -> keep] :
            /\ \A i, j \in 1..n : i < j => at[i] < at[j]
            /\ r = [i \in 1..n |-> q[at[i]]]
    BY DEF Remaining
<1> HIDE DEF n
<1>4. DOMAIN r = 1..n /\ \A i \in 1..n : at[i] \in keep /\ at[i] \in DOMAIN q /\ r[i] = q[at[i]]
    BY <1>3
<1>5. r \in Seq(Item)
    BY <1>1, <1>2, <1>3, <1>4
<1>6. Once(q) => Once(r)
  <2> SUFFICES ASSUME Once(q), NEW i \in 1..n, NEW j \in 1..n, r[i][1] = "command", r[i] = r[j]
               PROVE  i = j
      BY <1>4 DEF Once
  <2>1. at[i] = at[j]
      BY <1>4 DEF Once
  <2>2. at[i] \in Int /\ at[j] \in Int /\ i \in Int /\ j \in Int
      BY <1>1, <1>2, <1>4
  <2> QED
      BY <1>3, <2>1, <2>2
<1>7. \A f : Holds(r, f) => \E i \in keep : q[i] = f
    BY <1>4 DEF Holds
<1> QED
    BY <1>5, <1>6, <1>7

LEMMA NotOfOrderKeeps ==
    ASSUME NEW q \in Seq(Item), NEW os, NEW r \in NotOfOrder(q, os)
    PROVE  /\ r \in Seq(Item) /\ (Once(q) => Once(r))
           /\ \A f : Holds(r, f) => Holds(q, f)
           /\ \A o : HoldsAnswer(r, o) => HoldsAnswer(q, o) /\ o \notin os
<1> DEFINE keep == {i \in DOMAIN q : q[i][1] = "ack" => q[i][2] \notin os}
<1>1. keep \in SUBSET DOMAIN q /\ r \in Remaining(q, keep)
    BY DEF NotOfOrder
<1>2. r \in Seq(Item) /\ (Once(q) => Once(r)) /\ \A f : Holds(r, f) => \E i \in keep : q[i] = f
    BY <1>1, RemainingKeeps
<1>3. \A f : Holds(r, f) => Holds(q, f)
    BY <1>2 DEF Holds
<1>4. ASSUME NEW o, Holds(r, <<"ack", o>>) PROVE o \notin os
  <2>1. PICK i \in keep : q[i] = <<"ack", o>>
      BY <1>2, <1>4
  <2> QED
      BY <2>1
<1> QED
    BY <1>2, <1>3, <1>4 DEF HoldsAnswer

-----------------------------------------------------------------------------
(* Items and mails *)

LEMMA ItemShape ==
    ASSUME NEW x \in Item
    PROVE  /\ x[1] = "command" => x = <<"command", x[2]>> /\ x[2] \in Command
           /\ x[1] = "ack" => x = <<"ack", x[2]>> /\ x[2] \in Order
    BY DEF Item, Closed, AuthAnswer, Noise, Verdict

LEMMA ItemMembers ==
    /\ Closed \in Item /\ AuthAnswer \in Item /\ Noise \in Item /\ Verdict \in Item
    /\ \A o \in Order : <<"ack", o>> \in Item /\ <<"echo", o>> \in Item
    /\ \A c \in Command : <<"command", c>> \in Item
    BY DEF Item, Closed, AuthAnswer, Noise, Verdict

LEMMA MailMembers ==
    /\ Alarm \in Mail /\ Picture \in Mail
    /\ \A c \in Command : <<"done", c>> \in Mail /\ <<"failed", c>> \in Mail
    /\ \A m \in Mail : m \notin {Alarm, Picture} => m[1] \in {"done", "failed"} /\ m[2] \in Command /\ m = <<m[1], m[2]>>
    BY DEF Mail, Alarm, Picture

(* The type of what the modem, the threads and the server have, for the steps to be put together *)
LEMMA InitKeeps == Init => LinkInv
<1> SUFFICES ASSUME Init PROVE LinkInv
    OBVIOUS
<1>1. Orders \in Nat /\ Orders > 1 /\ MailMax \in Nat /\ ErrorLimit \in Nat /\ MailMax > 0
    BY LinkAssumption
<1>2. <<>> \in Seq(Item) /\ <<>> \in Seq(Mail) /\ Len(<<>>) = 0 /\ 0 \in Order /\ 0 \in 0..ErrorLimit
    BY <1>1 DEF Order
<1>3. TypeOK
  <2>1. told \in [Command -> {"nothing", "done", "failed"}] /\ request \in Mail \ {Picture}
      BY MailMembers DEF Init, Alarm, Picture
  <2>2. rx \in Seq(Item) /\ down \in Seq(Item) /\ response \in Seq(Item) /\ gprs_mq \in Seq(Mail)
        /\ Len(gprs_mq) <= MailMax
      BY <1>1, <1>2 DEF Init
  <2>3. gprs_order \in Order /\ error_counts \in 0..ErrorLimit /\ executed \subseteq sent /\ sent \subseteq Command
        /\ altered \subseteq sent /\ spoiled \subseteq sent
      BY <1>2 DEF Init
  <2>4. frame \in [held : SUBSET sent, length : {"right", "turned", "wrong"}, wiped : BOOLEAN]
      BY DEF Init, NoFrame
  <2> QED
      BY <2>1, <2>2, <2>3, <2>4 DEF Init, TypeOK
<1>4. Turns /\ AnsweredMeansReceived
    BY DEF Init, Turns, AnsweredMeansReceived, Numbered, Page, HasResponse, Alarm
<1>5. \A f : ~Holds(down, f) /\ ~Holds(rx, f) /\ ~Holds(response, f) /\ ~Holds(gprs_mq, f)
    BY HoldsEmpty DEF Init
<1>6. \A c : request # <<"done", c>> /\ request # <<"failed", c>>
    BY DEF Init, Alarm
<1>7. Apart /\ Unknown /\ HeldOnce
    BY <1>5 DEF Init, Apart, Unknown, HeldOnce, NoFrame, Once, Arriving, HoldsCommand
<1>8. MailedTheTruth /\ ToldTheTruth
    BY <1>5, <1>6 DEF Init, MailedTheTruth, ToldTheTruth, Mailed
<1>9. AnswersOld(down) /\ AnswersOld(rx) /\ AnswersOld(response) /\ AnswersFit
    BY <1>5 DEF AnswersOld, AnswersFit, HoldsAnswer
<1> QED
    BY <1>3, <1>4, <1>7, <1>8, <1>9 DEF LinkInv

(***************************************************************************)
(* A step that adds no mail but an alarm or a picture, and only moves      *)
(* items on or drops them, leaves the truth as it is.                      *)
(***************************************************************************)
LEMMA TruthStays ==
    ASSUME LinkInv, UNCHANGED <<executed, altered, told, sent, frame, spoiled>>,
           \A r \in {"done", "failed"}, c \in Command : Mailed(r, c)' => Mailed(r, c),
           \A c \in Command : Arriving(c)' => Arriving(c)
    PROVE  Unknown' /\ HeldOnce' /\ MailedTheTruth' /\ ToldTheTruth'
<1>1. \A c \in Command : Unread(c) => Unread(c)'
    BY DEF Unread
<1>2. Unknown'
    BY <1>1 DEF LinkInv, Unknown
<1>3. \A c \in frame.held : c \in Command
    BY DEF LinkInv, TypeOK
<1>4. HeldOnce'
    BY <1>1, <1>3 DEF LinkInv, HeldOnce
<1>5. MailedTheTruth' /\ ToldTheTruth'
    BY DEF LinkInv, MailedTheTruth, ToldTheTruth
<1> QED
    BY <1>2, <1>4, <1>5

(* If it also leaves the order and the server alone, it keeps the invariant. *)
LEMMA MovesOn ==
    ASSUME LinkInv, TypeOK', Turns', Apart',
           UNCHANGED <<gprs_order, executed, altered, told, sent, frame, spoiled, received>>,
           outcome' = "ok" => outcome = "ok",
           \A r \in {"done", "failed"}, c \in Command : Mailed(r, c)' => Mailed(r, c),
           \A c \in Command : Arriving(c)' => Arriving(c),
           \A o \in Order : HoldsAnswer(down, o)' => HoldsAnswer(down, o),
           \A o \in Order : HoldsAnswer(rx, o)' => HoldsAnswer(rx, o) \/ HoldsAnswer(down, o),
           \A o \in Order : HoldsAnswer(response, o)' => HoldsAnswer(response, o) \/ HoldsAnswer(rx, o),
           HoldsAnswer(rx, gprs_order)' => \/ gprs' = "wait" /\ Numbered'
                                           \/ ~(gprs = "wait" /\ Numbered)
    PROVE  LinkInv'
<1>1. gprs_order \in Order /\ gprs_order' = gprs_order
    BY DEF LinkInv, TypeOK
<1>2. Unknown' /\ HeldOnce' /\ MailedTheTruth' /\ ToldTheTruth'
    BY TruthStays
<1>4. AnswersOld(down)' /\ AnswersOld(rx)' /\ AnswersOld(response)'
    BY <1>1 DEF LinkInv, AnswersOld
<1>5. AnswersFit'
    BY <1>1 DEF LinkInv, AnswersFit
<1>6. AnsweredMeansReceived'
    BY DEF LinkInv, AnsweredMeansReceived
<1> QED
    BY <1>2, <1>4, <1>5, <1>6 DEF LinkInv

(* The same for a step that only drops what has arrived *)
LEMMA DropsOnly ==
    ASSUME LinkInv, TypeOK', Turns',
           UNCHANGED <<gprs_order, executed, altered, told, sent, frame, spoiled, received>>,
           outcome' = "ok" => outcome = "ok",
           \A r \in {"done", "failed"}, c \in Command : Mailed(r, c)' => Mailed(r, c),
           down' \in {down, <<>>}, rx' \in {rx, <<>>}, response' \in {response, <<>>},
           rx' # <<>> /\ gprs = "wait" /\ Numbered => gprs' = "wait" /\ Numbered'
    PROVE  LinkInv'
<1>1. \A f : /\ Holds(down, f)' => Holds(down, f)
             /\ Holds(rx, f)' => Holds(rx, f) /\ rx' # <<>>
             /\ Holds(response, f)' => Holds(response, f)
    BY HoldsEmpty DEF Holds
<1>2. Apart'
  <2>1. Once(down)'
      BY DEF LinkInv, Apart, Once
  <2> QED
      BY <1>1, <2>1 DEF LinkInv, Apart, HoldsCommand
<1>3. \A c \in Command : Arriving(c)' => Arriving(c)
    BY <1>1 DEF Arriving, HoldsCommand
<1>4. \A o : /\ HoldsAnswer(down, o)' => HoldsAnswer(down, o)
             /\ HoldsAnswer(rx, o)' => HoldsAnswer(rx, o) /\ rx' # <<>>
             /\ HoldsAnswer(response, o)' => HoldsAnswer(response, o)
    BY <1>1 DEF HoldsAnswer
<1>5. HoldsAnswer(rx, gprs_order)' => \/ gprs' = "wait" /\ Numbered'
                                      \/ ~(gprs = "wait" /\ Numbered)
    BY <1>4
<1> QED
    BY <1>2, <1>3, <1>4, <1>5, MovesOn

-----------------------------------------------------------------------------
(* The modem, the network and the server *)

LEMMA ServerCommandKeeps == ASSUME LinkInv, ServerCommand PROVE LinkInv'
<1>1. UNCHANGED <<modem, tcp, rx, gsm_mode, gsm, stale, gprs, gprs_order, error_counts, request, outcome,
                  gprs_mq, executed, altered, send_result, response, received, told, frame, spoiled>>
    BY DEF ServerCommand, gprsVars, mailVars, reportVars, serverVars, frameVars
<1>2. PICK c \in Command \ sent : sent' = sent \cup {c} /\ down' = Append(down, <<"command", c>>)
    BY DEF ServerCommand
<1>3. down \in Seq(Item) /\ <<"command", c>> \in Item
    BY ItemMembers DEF LinkInv, TypeOK
<1>4. down' \in Seq(Item) /\ \A f : Holds(down, f)' <=> Holds(down, f) \/ f = <<"command", c>>
    BY <1>2, <1>3, HoldsAppend DEF Holds
<1>5. TypeOK'
  <2>1. /\ executed' \subseteq sent' /\ altered' \subseteq sent' /\ spoiled' \subseteq sent' /\ sent' \subseteq Command
        /\ frame' \in [held : SUBSET sent', length : {"right", "turned", "wrong"}, wiped : BOOLEAN]
      BY <1>1, <1>2 DEF LinkInv, TypeOK
  <2> QED
      BY <1>1, <1>4, <2>1 DEF LinkInv, TypeOK
<1>6. \A f : Holds(rx, f)' = Holds(rx, f) /\ Holds(response, f)' = Holds(response, f)
             /\ Holds(gprs_mq, f)' = Holds(gprs_mq, f)
    BY <1>1 DEF Holds
<1>7. ~Arriving(c) /\ Unread(c) /\ c \notin frame.held
    BY DEF LinkInv, TypeOK, Unknown, MailedTheTruth, Unread
<1>8. Apart'
  <2>1. Once(down)'
    <3>1. ~Holds(down, <<"command", c>>)
        BY <1>7 DEF Arriving, HoldsCommand
    <3> QED
        BY <1>2, <1>3, <3>1, OnceAppend DEF LinkInv, Apart, Once
  <2>2. \A d \in Command : /\ HoldsCommand(down, d)' <=> HoldsCommand(down, d) \/ d = c
                           /\ HoldsCommand(rx, d)' <=> HoldsCommand(rx, d)
                           /\ HoldsCommand(response, d)' <=> HoldsCommand(response, d)
      BY <1>4, <1>6 DEF HoldsCommand
  <2> QED
      BY <1>7, <2>1, <2>2 DEF LinkInv, Apart, Arriving
<1>9. \A d \in Command : Arriving(d)' => Arriving(d) \/ d = c
    BY <1>4, <1>6 DEF Arriving, HoldsCommand
<1>10. \A d, r : Mailed(r, d)' <=> Mailed(r, d)
    BY <1>1, <1>6 DEF Mailed
<1>11. Unknown' /\ HeldOnce' /\ MailedTheTruth' /\ ToldTheTruth'
  <2>1. \A d \in Command : Unread(d) => Unread(d)'
      BY <1>1, <1>10 DEF Unread
  <2>2. Unknown'
      BY <1>2, <1>7, <1>9, <2>1 DEF LinkInv, Unknown
  <2>3. \A d \in frame.held : d \in Command /\ d # c
      BY <1>7 DEF LinkInv, TypeOK
  <2>4. HeldOnce'
      BY <1>1, <1>9, <2>1, <2>3 DEF LinkInv, HeldOnce
  <2>5. MailedTheTruth' /\ ToldTheTruth'
      BY <1>1, <1>2, <1>10 DEF LinkInv, MailedTheTruth, ToldTheTruth
  <2> QED
      BY <2>2, <2>4, <2>5
<1>12. \A o : /\ HoldsAnswer(down, o)' => HoldsAnswer(down, o)
              /\ HoldsAnswer(rx, o)' => HoldsAnswer(rx, o)
              /\ HoldsAnswer(response, o)' => HoldsAnswer(response, o)
    BY <1>4, <1>6 DEF HoldsAnswer
<1>13. AnswersOld(down)' /\ AnswersOld(rx)' /\ AnswersOld(response)' /\ AnswersFit'
    BY <1>1, <1>12 DEF LinkInv, AnswersOld, AnswersFit, HasResponse, Numbered, Page
<1> QED
    BY <1>1, <1>5, <1>8, <1>11, <1>13 DEF LinkInv, Turns, HasResponse, Numbered, Page, AnsweredMeansReceived

LEMMA DeliverKeeps == ASSUME LinkInv, Deliver PROVE LinkInv'
<1>1. UNCHANGED <<modem, tcp, gsm_mode, gsm, stale, gprs, gprs_order, error_counts, request, outcome,
                  gprs_mq, executed, altered, send_result, response, received, told, sent, frame, spoiled>>
    BY DEF Deliver, gprsVars, mailVars, reportVars, serverVars, frameVars
<1>2. down \in Seq(Item) /\ down # <<>> /\ rx \in Seq(Item) /\ Head(down) \in Item
    BY HoldsTail DEF LinkInv, TypeOK, Deliver
<1>3. /\ rx' \in Seq(Item) /\ \A f : Holds(rx, f)' <=> Holds(rx, f) \/ f = Head(down)
      /\ down' \in Seq(Item) /\ \A f : Holds(down, f) <=> f = Head(down) \/ Holds(down, f)'
  <2>1. rx' = Append(rx, Head(down)) /\ down' = Tail(down)
      BY DEF Deliver
  <2>2. \A f : (Holds(rx, f)' <=> Holds(Append(rx, Head(down)), f)) /\ (Holds(down, f)' <=> Holds(Tail(down), f))
      BY <2>1 DEF Holds
  <2>3. /\ Append(rx, Head(down)) \in Seq(Item)
        /\ \A f : Holds(Append(rx, Head(down)), f) <=> Holds(rx, f) \/ f = Head(down)
      BY <1>2, HoldsAppend
  <2>4. Tail(down) \in Seq(Item) /\ \A f : Holds(down, f) <=> f = Head(down) \/ Holds(Tail(down), f)
      BY <1>2, HoldsTail
  <2> QED
      BY <2>1, <2>2, <2>3, <2>4
<1>4. /\ Once(down)'
      /\ \A f : f = Head(down) /\ f[1] = "command" => ~Holds(down, f)'
  <2>1. Once(Tail(down)) /\ (Head(down)[1] = "command" => ~Holds(Tail(down), Head(down)))
      BY <1>2, OnceTail DEF LinkInv, Apart
  <2>2. down' = Tail(down)
      BY DEF Deliver
  <2> QED
      BY <2>1, <2>2 DEF Once, Holds
<1>5. TypeOK' /\ Turns'
    BY <1>1, <1>3 DEF LinkInv, TypeOK, Turns, HasResponse, Numbered, Page
<1>6. \A f : Holds(response, f)' = Holds(response, f) /\ Holds(gprs_mq, f)' = Holds(gprs_mq, f)
    BY <1>1 DEF Holds
<1>7. Apart'
  <2> SUFFICES ASSUME NEW c \in Command
               PROVE  /\ ~(HoldsCommand(down, c)' /\ HoldsCommand(rx, c)')
                      /\ ~(HoldsCommand(down, c)' /\ HoldsCommand(response, c)')
                      /\ ~(HoldsCommand(rx, c)' /\ HoldsCommand(response, c)')
      BY <1>4 DEF Apart
  <2>1. /\ HoldsCommand(down, c)' => HoldsCommand(down, c) /\ Head(down) # <<"command", c>>
        /\ HoldsCommand(rx, c)' => HoldsCommand(rx, c)
                                    \/ (Head(down) = <<"command", c>> /\ HoldsCommand(down, c))
        /\ HoldsCommand(response, c)' <=> HoldsCommand(response, c)
    <3>1. \A f : f = <<"command", c>> => f[1] = "command"
        OBVIOUS
    <3> QED
        BY <1>3, <1>4, <1>6, <3>1 DEF HoldsCommand
  <2> QED
      BY <2>1 DEF LinkInv, Apart
<1>8. \A c \in Command : Arriving(c)' => Arriving(c)
    BY <1>3, <1>6 DEF Arriving, HoldsCommand
<1>9. \A c, r : Mailed(r, c)' <=> Mailed(r, c)
    BY <1>1, <1>6 DEF Mailed
<1>10. \A o : /\ HoldsAnswer(down, o)' => HoldsAnswer(down, o)
              /\ HoldsAnswer(rx, o)' => HoldsAnswer(rx, o) \/ HoldsAnswer(down, o)
              /\ HoldsAnswer(response, o)' => HoldsAnswer(response, o)
    BY <1>3, <1>6 DEF HoldsAnswer
<1> QED
    BY <1>1, <1>5, <1>7, <1>8, <1>9, <1>10, MovesOn DEF HasResponse, Numbered, Page

LEMMA CloseKeeps == ASSUME LinkInv, Close PROVE LinkInv'
<1>1. UNCHANGED <<gsm_mode, gsm, stale, gprs, gprs_order, error_counts, request, outcome,
                  gprs_mq, executed, altered, send_result, response, received, told, sent, frame, spoiled>>
    BY DEF Close, gprsVars, mailVars, reportVars, serverVars, frameVars
<1>2. rx \in Seq(Item) /\ Closed \in Item /\ <<>> \in Seq(Item)
    BY ItemMembers DEF LinkInv, TypeOK
<1>3. /\ rx' \in Seq(Item) /\ \A f : Holds(rx, f)' <=> Holds(rx, f) \/ f = Closed
      /\ down' = <<>> /\ \A f : ~Holds(down, f)'
    BY <1>2, HoldsAppend, HoldsEmpty DEF Close, Holds
<1>4. TypeOK' /\ Turns'
  <2>1. modem' = "cmd"
      BY DEF Close
  <2>2. tcp' \in BOOLEAN
      BY Zenon DEF Close
  <2>3. TypeOK'
      BY <1>1, <1>2, <1>3, <2>1, <2>2 DEF LinkInv, TypeOK
  <2>4. Turns'
      BY <1>1 DEF LinkInv, Turns, HasResponse, Numbered, Page
  <2> QED
      BY <2>3, <2>4
<1>5. \A f : Holds(response, f)' = Holds(response, f) /\ Holds(gprs_mq, f)' = Holds(gprs_mq, f)
    BY <1>1 DEF Holds
<1>6. \A c : HoldsCommand(rx, c)' => HoldsCommand(rx, c)
    BY <1>3 DEF HoldsCommand, Closed
<1>7. Apart'
    BY <1>3, <1>5, <1>6 DEF LinkInv, Apart, Once, HoldsCommand
<1>8. \A c \in Command : Arriving(c)' => Arriving(c)
    BY <1>3, <1>5, <1>6 DEF Arriving, HoldsCommand
<1>9. \A c, r : Mailed(r, c)' <=> Mailed(r, c)
    BY <1>1, <1>5 DEF Mailed
<1>10. \A o : /\ ~HoldsAnswer(down, o)'
              /\ HoldsAnswer(rx, o)' => HoldsAnswer(rx, o)
              /\ HoldsAnswer(response, o)' => HoldsAnswer(response, o)
    BY <1>3, <1>5 DEF HoldsAnswer, Closed
<1> QED
    BY <1>1, <1>4, <1>7, <1>8, <1>9, <1>10, MovesOn DEF HasResponse, Numbered, Page

LEMMA PowerLossKeeps == ASSUME LinkInv, PowerLoss PROVE LinkInv'
<1>1. UNCHANGED <<rx, gsm_mode, gsm, stale, gprs, gprs_order, error_counts, request, outcome,
                  gprs_mq, executed, altered, send_result, response, received, told, sent, frame, spoiled>>
    BY DEF PowerLoss, gprsVars, mailVars, reportVars, serverVars, frameVars
<1>2. modem' = "off" /\ down' = <<>> /\ <<>> \in Seq(Item)
    BY DEF PowerLoss, Off
<1>3. TypeOK' /\ Turns'
  <2>1. tcp' \in BOOLEAN
      BY Zenon DEF PowerLoss, Off
  <2>2. TypeOK'
      BY <1>1, <1>2, <2>1 DEF LinkInv, TypeOK
  <2>3. Turns'
      BY <1>1 DEF LinkInv, Turns, HasResponse, Numbered, Page
  <2> QED
      BY <2>2, <2>3
<1>4. \A c, r : Mailed(r, c)' <=> Mailed(r, c)
    BY <1>1 DEF Mailed, Holds
<1> QED
    BY <1>1, <1>2, <1>3, <1>4, DropsOnly DEF HasResponse, Numbered, Page

(* A mail that is no acknowledgement *)
LEMMA AlarmMailed ==
    ASSUME NEW m \in {Alarm, Picture}, gprs_mq' = Append(gprs_mq, m) \/ gprs_mq' = <<m>>, LinkInv, UNCHANGED request
    PROVE  /\ gprs_mq' \in Seq(Mail)
           /\ \A r \in {"done", "failed"}, c \in Command : Mailed(r, c)' => Mailed(r, c)
<1>1. gprs_mq \in Seq(Mail) /\ <<>> \in Seq(Mail) /\ m \in Mail /\ <<m>> = Append(<<>>, m)
    BY MailMembers DEF LinkInv, TypeOK
<1>2. gprs_mq' \in Seq(Mail) /\ \A f : Holds(gprs_mq, f)' => Holds(gprs_mq, f) \/ f = m
  <2>1. CASE gprs_mq' = Append(gprs_mq, m)
      BY <1>1, <2>1, HoldsAppend DEF Holds
  <2>2. CASE gprs_mq' = Append(<<>>, m)
    <3>1. Append(<<>>, m) \in Seq(Mail) /\ \A f : Holds(Append(<<>>, m), f) => f = m
        BY <1>1, HoldsAppend, HoldsEmpty
    <3> QED
        BY <2>2, <3>1 DEF Holds
  <2> QED
      BY <1>1, <2>1, <2>2
<1>3. m[1] \notin {"done", "failed"}
    BY DEF Alarm, Picture
<1> QED
    BY <1>2, <1>3 DEF Mailed

LEMMA NewAlarmKeeps == ASSUME LinkInv, NewAlarm PROVE LinkInv'
<1>1. UNCHANGED <<modem, tcp, rx, down, gsm_mode, gsm, stale, gprs, gprs_order, error_counts, request, outcome,
                  executed, altered, send_result, response, received, told, sent, frame, spoiled>>
    BY DEF NewAlarm, modemVars, gprsVars, reportVars, serverVars, frameVars
<1>2. /\ gprs_mq' \in Seq(Mail)
      /\ \A r \in {"done", "failed"}, c \in Command : Mailed(r, c)' => Mailed(r, c)
  <2>1. PICK m \in {Alarm, Picture} : gprs_mq' = Append(gprs_mq, m)
      BY DEF NewAlarm
  <2> QED
      BY <1>1, <2>1, AlarmMailed
<1>3. Len(gprs_mq') <= MailMax
  <2>1. Len(gprs_mq) \in Nat /\ Len(gprs_mq') = Len(gprs_mq) + 1 /\ Len(gprs_mq) < MailMax /\ MailMax \in Nat
      BY LinkAssumption DEF LinkInv, TypeOK, NewAlarm
  <2> QED
      BY <2>1
<1>4. TypeOK' /\ Turns'
    BY <1>1, <1>2, <1>3 DEF LinkInv, TypeOK, Turns, HasResponse, Numbered, Page
<1> QED
    BY <1>1, <1>2, <1>4, DropsOnly DEF HasResponse, Numbered, Page

-----------------------------------------------------------------------------
(* Frames that are read *)

(* A mail that may be lost leaves the queue within its length. *)
LEMMA SendMailKeeps ==
    ASSUME LinkInv, NEW m \in Mail, SendMail(m)
    PROVE  /\ gprs_mq' \in Seq(Mail) /\ Len(gprs_mq') <= MailMax
           /\ \A f : Holds(gprs_mq, f)' => Holds(gprs_mq, f) \/ f = m
<1>1. gprs_mq \in Seq(Mail) /\ Len(gprs_mq) \in Nat /\ Len(gprs_mq) <= MailMax /\ MailMax \in Nat
    BY LinkAssumption DEF LinkInv, TypeOK
<1>2. CASE Len(gprs_mq) < MailMax /\ gprs_mq' = Append(gprs_mq, m)
  <2>1. /\ Append(gprs_mq, m) \in Seq(Mail) /\ Len(Append(gprs_mq, m)) = Len(gprs_mq) + 1
        /\ \A f : Holds(Append(gprs_mq, m), f) <=> Holds(gprs_mq, f) \/ f = m
      BY <1>1, HoldsAppend
  <2>2. Len(Append(gprs_mq, m)) <= MailMax
      BY <1>1, <1>2, <2>1
  <2> QED
      BY <1>2, <2>1, <2>2 DEF Holds
<1>3. CASE gprs_mq' = gprs_mq
    BY <1>1, <1>3 DEF Holds
<1> QED
    BY <1>2, <1>3 DEF SendMail

(***************************************************************************)
(* A command that is parsed: it is carried out, in some way, or not, and   *)
(* mailed accordingly.  Either nothing was known of it, or it was not and  *)
(* is not carried out, or it is spoiled.                                   *)
(***************************************************************************)
LEMMA ParseKeeps ==
    ASSUME LinkInv, NEW c \in Command, c \in sent, NEW right \in BOOLEAN, NEW whole \in BOOLEAN,
           ParseCommand(c, right, whole), UNCHANGED <<told, sent>>,
           \A r \in {"done", "failed"} : \A d : request' = <<r, d>> => request = <<r, d>>,
           spoiled \subseteq spoiled', right /\ ~whole => c \in spoiled',
           c \notin spoiled' => Unread(c) \/ (~right /\ c \notin executed \cup altered),
           \A d \in Command : Arriving(d)' => Arriving(d) /\ d # c
    PROVE  /\ gprs_mq' \in Seq(Mail) /\ Len(gprs_mq') <= MailMax /\ executed' \subseteq sent'
           /\ altered' \subseteq sent'
           /\ Unknown' /\ MailedTheTruth' /\ ToldTheTruth'
           /\ \A d \in Command : d # c => (Unread(d) => Unread(d)')
           /\ \A d \in executed' \cup altered' : d \in executed \cup altered \/ (d = c /\ right)
<1> DEFINE r == IF right THEN "done" ELSE "failed"
<1>1. /\ executed \subseteq executed' /\ executed' \subseteq executed \cup {c}
      /\ altered \subseteq altered' /\ altered' \subseteq altered \cup {c}
      /\ right => c \in executed' \cup altered' \cup TooMany
      /\ ~right => executed' = executed /\ altered' = altered
      /\ c \in altered' => c \in altered \cup Altered \cup spoiled'
      /\ SendMail(<<r, c>>)
  <2>1. CASE right /\ whole
    <3>1. /\ executed' = executed \cup ({c} \ (TooMany \cup Altered)) /\ altered' = altered \cup ({c} \cap Altered)
          /\ SendMail(<<"done", c>>)
        BY <2>1 DEF ParseCommand, CarryOut
    <3> QED
        BY <2>1, <3>1
  <2>2. CASE right /\ ~whole
    <3>1. executed' = executed \cup {} /\ altered' = altered \cup {c} /\ SendMail(<<"done", c>>)
        BY <2>2 DEF ParseCommand, CarryOut
    <3> QED
        BY <2>2, <3>1
  <2>3. CASE ~right
    <3>1. executed' = executed /\ altered' = altered /\ SendMail(<<"failed", c>>)
        BY <2>3 DEF ParseCommand
    <3> QED
        BY <2>3, <3>1
  <2> QED
      BY <2>1, <2>2, <2>3
<1>2. r \in {"done", "failed"} /\ (r = "done" <=> right)
    OBVIOUS
<1> HIDE DEF r
<1>3. /\ gprs_mq' \in Seq(Mail) /\ Len(gprs_mq') <= MailMax
      /\ \A f : Holds(gprs_mq, f)' => Holds(gprs_mq, f) \/ f = <<r, c>>
    BY <1>1, <1>2, MailMembers, SendMailKeeps
<1>4. \A q \in {"done", "failed"} : \A d : Mailed(q, d)' => Mailed(q, d) \/ (q = r /\ d = c)
    BY <1>3 DEF Mailed
<1>5. executed' \subseteq sent' /\ altered' \subseteq sent'
    BY <1>1 DEF LinkInv, TypeOK
<1>6. \A d \in Command : d # c => (Unread(d) => Unread(d)')
    BY <1>1, <1>4 DEF Unread
<1>7. Unknown'
    BY <1>6 DEF LinkInv, Unknown
<1>8. c \notin spoiled' => (right => Unread(c)) /\ (~right => c \notin executed /\ c \notin altered)
    BY DEF Unread
<1>9. MailedTheTruth'
  <2> SUFFICES ASSUME NEW d \in Command
               PROVE  /\ Mailed("done", d)' => d \in executed' \cup altered' \cup TooMany
                      /\ Mailed("failed", d)' /\ d \notin spoiled' => d \notin executed' \cup altered'
                      /\ Mailed("done", d)' \/ Mailed("failed", d)' \/ told'[d] # "nothing" => d \in sent'
      BY DEF MailedTheTruth
  <2>1. /\ Mailed("done", d) => d \in executed \cup altered \cup TooMany
        /\ Mailed("failed", d) /\ d \notin spoiled => d \notin executed \cup altered
        /\ Mailed("done", d) \/ Mailed("failed", d) \/ told[d] # "nothing" => d \in sent
      BY DEF LinkInv, MailedTheTruth
  <2>2. CASE d = c
    <3>1. Mailed("done", c)' => c \in executed' \cup altered' \cup TooMany
        BY <1>1, <1>2, <1>4, <2>1, <2>2
    <3>2. ASSUME Mailed("failed", c)', c \notin spoiled' PROVE c \notin executed' \cup altered'
      <4>1. CASE right
          BY <1>2, <1>4, <1>8, <3>2, <4>1 DEF Unread
      <4>2. CASE ~right
          BY <1>1, <1>8, <3>2, <4>2
      <4> QED
          BY <4>1, <4>2
    <3> QED
        BY <2>2, <3>1, <3>2
  <2>3. CASE d # c
      BY <1>1, <1>4, <2>1, <2>3
  <2> QED
      BY <2>2, <2>3
<1>10. ToldTheTruth'
  <2> SUFFICES ASSUME NEW d \in Command
               PROVE  /\ told[d] = "done" => d \in executed' \cup altered' \cup TooMany
                      /\ told[d] = "failed" /\ d \notin spoiled' => d \notin executed' \cup altered'
                      /\ d \in altered' => d \in Altered \cup spoiled'
      BY DEF ToldTheTruth
  <2>1. /\ told[d] = "done" => d \in executed \cup altered \cup TooMany
        /\ told[d] = "failed" /\ d \notin spoiled => d \notin executed \cup altered
        /\ d \in altered => d \in Altered \cup spoiled
      BY DEF LinkInv, ToldTheTruth
  <2>2. CASE d = c
    <3>1. told[c] = "failed" /\ c \notin spoiled' => ~right
        BY <1>8 DEF Unread
    <3> QED
        BY <1>1, <1>8, <2>1, <2>2, <3>1
  <2>3. CASE d # c
      BY <1>1, <2>1, <2>3
  <2> QED
      BY <2>2, <2>3
<1>11. \A d \in executed' \cup altered' : d \in executed \cup altered \/ (d = c /\ right)
    BY <1>1
<1>12. gprs_mq' \in Seq(Mail) /\ Len(gprs_mq') <= MailMax
    BY <1>3
<1> QED
    BY <1>5, <1>6, <1>7, <1>9, <1>10, <1>11, <1>12

(* recv_gprs_frame, when what it has read is no longer in a buffer *)
LEMMA RecvFrameKeeps ==
    ASSUME LinkInv, NEW STATE read, read = rx \/ read = response, RecvFrame(read),
           UNCHANGED <<told, sent, frame, spoiled>>,
           \A r \in {"done", "failed"} : \A d : request' = <<r, d>> => request = <<r, d>>,
           \A c \in Command : Arriving(c)' => Arriving(c) /\ ~HoldsCommand(read, c)
    PROVE  /\ gprs_mq' \in Seq(Mail) /\ Len(gprs_mq') <= MailMax /\ executed' \subseteq sent' /\ altered' \subseteq sent'
           /\ Unknown' /\ HeldOnce' /\ MailedTheTruth' /\ ToldTheTruth'
<1>1. CASE UNCHANGED <<gprs_mq, executed, altered>>
  <2>1. \A r \in {"done", "failed"} : \A c : Mailed(r, c)' => Mailed(r, c)
      BY <1>1 DEF Mailed, Holds
  <2>2. gprs_mq' \in Seq(Mail) /\ Len(gprs_mq') <= MailMax /\ executed' \subseteq sent' /\ altered' \subseteq sent'
      BY <1>1 DEF LinkInv, TypeOK
  <2> QED
      BY <1>1, <2>1, <2>2, TruthStays
<1>2. CASE read # <<>> /\ Head(read)[1] = "command"
  <2>1. read \in Seq(Item)
      BY DEF LinkInv, TypeOK
  <2>2. Head(read) \in Item /\ Holds(read, Head(read))
      BY <1>2, <2>1, HoldsTail
  <2>3. PICK c \in Command : c = Head(read)[2] /\ Head(read) = <<"command", c>>
      BY <1>2, <2>2, ItemShape
  <2>4. PICK right \in BOOLEAN : ParseCommand(c, right, TRUE)
      BY <1>2, <2>3 DEF RecvFrame
  <2>5. HoldsCommand(read, c) /\ Arriving(c)
      BY <2>2, <2>3 DEF HoldsCommand, Arriving
  <2>6. c \in sent /\ Unread(c) /\ c \notin frame.held
      BY <2>3, <2>5 DEF LinkInv, Unknown, HeldOnce
  <2>7. \A d \in Command : Arriving(d)' => Arriving(d) /\ d # c
      BY <2>5
  <2>8. /\ gprs_mq' \in Seq(Mail) /\ Len(gprs_mq') <= MailMax /\ executed' \subseteq sent'
        /\ altered' \subseteq sent'
        /\ Unknown' /\ MailedTheTruth' /\ ToldTheTruth'
        /\ \A d \in Command : d # c => (Unread(d) => Unread(d)')
        /\ \A d \in executed' \cup altered' : d \in executed \cup altered \/ (d = c /\ right)
      BY <2>3, <2>4, <2>6, <2>7, ParseKeeps
  <2>9. \A d \in frame.held : d \in Command /\ d # c
      BY <2>6 DEF LinkInv, TypeOK
  <2>10. HeldOnce'
      BY <2>7, <2>8, <2>9 DEF LinkInv, HeldOnce
  <2> QED
      BY <2>8, <2>10
<1> QED
    BY <1>1, <1>2 DEF RecvFrame, mailVars

-----------------------------------------------------------------------------
(* The gprs thread *)

LEMMA HeartKeeps == ASSUME LinkInv, Heart PROVE LinkInv'
<1>1. UNCHANGED <<modem, tcp, rx, down, gsm_mode, gsm, stale, gprs, gprs_order, error_counts, request, outcome,
                  executed, altered, send_result, response, received, told, sent, frame, spoiled>>
    BY DEF Heart, modemVars, gprsVars, reportVars, serverVars, frameVars
<1>2. /\ gprs_mq' \in Seq(Mail)
      /\ \A r \in {"done", "failed"}, c \in Command : Mailed(r, c)' => Mailed(r, c)
    BY <1>1, AlarmMailed DEF Heart
<1>3. Len(gprs_mq') <= MailMax
  <2>1. Len(gprs_mq') = 1 /\ MailMax \in Nat \ {0}
      BY LinkAssumption DEF Heart
  <2> QED
      BY <2>1
<1>4. TypeOK' /\ Turns'
    BY <1>1, <1>2, <1>3 DEF LinkInv, TypeOK, Turns, HasResponse, Numbered, Page
<1> QED
    BY <1>1, <1>2, <1>4, DropsOnly DEF HasResponse, Numbered, Page

LEMMA SendFrameKeeps == ASSUME LinkInv, SendFrame PROVE LinkInv'
<1>1. UNCHANGED <<modem, tcp, rx, gsm_mode, gsm, stale, error_counts, executed, altered, send_result, response, told,
                  sent, frame, spoiled>>
    BY DEF SendFrame, reportVars, frameVars
<1>2. /\ gprs = "recv" /\ gprs_mq # <<>> /\ gprs_mq' = Tail(gprs_mq) /\ response = <<>> /\ gsm = "top"
      /\ gprs' = IF Head(gprs_mq) = Picture THEN "page" ELSE "wait"
    BY DEF SendFrame, LinkInv, Turns
<1>3. gprs_mq \in Seq(Mail) /\ MailMax \in Nat /\ Len(gprs_mq) <= MailMax /\ Len(gprs_mq) \in Nat
    BY LinkAssumption DEF LinkInv, TypeOK
<1>4. /\ Tail(gprs_mq) \in Seq(Mail) /\ Head(gprs_mq) \in Mail /\ Len(Tail(gprs_mq)) = Len(gprs_mq) - 1
      /\ \A f : Holds(gprs_mq, f) <=> f = Head(gprs_mq) \/ Holds(Tail(gprs_mq), f)
    BY <1>2, <1>3, HoldsTail
<1>5. gprs_mq' \in Seq(Mail) /\ Len(gprs_mq') <= MailMax
    BY <1>2, <1>3, <1>4
<1>6. \A f : Holds(gprs_mq, f)' \/ f = Head(gprs_mq) => Holds(gprs_mq, f)
    BY <1>2, <1>4 DEF Holds
<1>7. \A f : Holds(rx, f)' = Holds(rx, f) /\ ~Holds(response, f)'
    BY <1>1, <1>2, HoldsEmpty DEF Holds
<1>8. CASE /\ Head(gprs_mq) = Alarm /\ request' = <<"alarm", gprs_order>>
           /\ gprs_order' = (gprs_order + 1) % Orders
           /\ down' \in NotOfOrder(down, {gprs_order, gprs_order'})
           /\ received' = FALSE /\ outcome' = "none"
  <2>0. gprs' = "wait"
      BY <1>2, <1>8 DEF Alarm, Picture
  <2>1. down \in Seq(Item) /\ Once(down) /\ gprs_order \in Order /\ gprs_order' \in Order
      BY <1>8, NextOrder DEF LinkInv, TypeOK, Apart
  <2>2. /\ down' \in Seq(Item) /\ Once(down') /\ \A f : Holds(down', f) => Holds(down, f)
        /\ \A o : HoldsAnswer(down', o) => o \notin {gprs_order, gprs_order'}
      BY <1>8, <2>1, NotOfOrderKeeps
  <2>4. \A f : Holds(down, f)' => Holds(down, f)
      BY <2>2 DEF Holds
  <2>5. \A o : HoldsAnswer(down, o)' => o # gprs_order /\ o # gprs_order'
      BY <2>2 DEF HoldsAnswer, Holds
  <2>6. TypeOK'
      BY <1>1, <2>0, <1>5, <1>8, <2>1, <2>2 DEF LinkInv, TypeOK
  <2>7. Turns'
      BY <1>1, <1>2, <2>0, <1>8, <2>1 DEF Turns, HasResponse, Numbered, Page
  <2>8. \A r \in {"done", "failed"}, c \in Command : Mailed(r, c)' => Mailed(r, c)
      BY <1>6, <1>8 DEF Mailed
  <2>9. Apart'
    <3>1. Once(down)'
        BY <2>2 DEF Once
    <3> QED
        BY <1>7, <2>4, <3>1 DEF LinkInv, Apart, HoldsCommand
  <2>10. \A c \in Command : Arriving(c)' => Arriving(c)
      BY <1>7, <2>4 DEF Arriving, HoldsCommand
  <2>11. Unknown' /\ HeldOnce' /\ MailedTheTruth' /\ ToldTheTruth'
      BY <1>1, <2>8, <2>10, TruthStays
  <2>12. \A o \in Order : gprs_order' = (o + 1) % Orders => o = gprs_order
      BY <1>8, <2>1, NextOrder
  <2>13. ~HoldsAnswer(rx, gprs_order)
      BY <1>2 DEF LinkInv, AnswersFit
  <2>14. \A o : HoldsAnswer(rx, o)' => HoldsAnswer(rx, o)
      BY <1>7 DEF HoldsAnswer
  <2>15. AnswersOld(down)' /\ AnswersOld(rx)' /\ AnswersOld(response)'
    <3>1. AnswersOld(down)'
        BY <2>5, <2>12 DEF AnswersOld
    <3>2. AnswersOld(rx)'
        BY <2>12, <2>13, <2>14 DEF AnswersOld
    <3>3. AnswersOld(response)'
        BY <1>7 DEF AnswersOld, HoldsAnswer
    <3> QED
        BY <3>1, <3>2, <3>3
  <2>16. AnswersFit'
    <3>1. ~HoldsAnswer(down, gprs_order)'
        BY <2>5 DEF HoldsAnswer
    <3> QED
        BY <2>0, <1>8, <3>1 DEF AnswersFit, Numbered
  <2> QED
      BY <1>8, <2>6, <2>7, <2>9, <2>11, <2>15, <2>16 DEF LinkInv, AnsweredMeansReceived
<1>9. CASE /\ Head(gprs_mq) \notin {Alarm, Picture} /\ request' = Head(gprs_mq)
           /\ UNCHANGED <<gprs_order, down, received, outcome>>
  <2>1. request'[1] \in {"done", "failed"} /\ request' \in Mail \ {Picture} /\ gprs' = "wait"
      BY <1>2, <1>4, <1>9, MailMembers
  <2>2. TypeOK' /\ Turns'
      BY <1>1, <1>2, <1>5, <1>9, <2>1 DEF LinkInv, TypeOK, Turns, HasResponse, Numbered, Page
  <2>3. \A r, c : Mailed(r, c)' => Mailed(r, c)
      BY <1>6, <1>9 DEF Mailed
  <2> QED
      BY <1>1, <1>2, <1>9, <2>2, <2>3, DropsOnly
<1>10. CASE Head(gprs_mq) = Picture /\ UNCHANGED <<request, gprs_order, down, received, outcome>>
  <2>1. gprs' = "page"
      BY <1>2, <1>10
  <2>2. TypeOK' /\ Turns'
      BY <1>1, <1>2, <1>5, <1>10, <2>1 DEF LinkInv, TypeOK, Turns, HasResponse, Numbered, Page
  <2>3. \A r, c : Mailed(r, c)' => Mailed(r, c)
      BY <1>6, <1>10 DEF Mailed
  <2> QED
      BY <1>1, <1>2, <1>10, <2>2, <2>3, DropsOnly
<1> QED
    BY <1>8, <1>9, <1>10 DEF SendFrame

(* The frame and its response are freed: nothing arrives by it any more, and no acknowledgement is left in it. *)
LEMMA FreeLeaves ==
    ASSUME LinkInv, Free, UNCHANGED <<rx, down>>
    PROVE  /\ request' \in Mail \ {Picture} /\ request'[1] = "alarm" /\ send_result' \in {1, -1}
           /\ response' = <<>> /\ response' \in Seq(Item)
           /\ \A f : Holds(down, f)' = Holds(down, f) /\ Holds(rx, f)' = Holds(rx, f) /\ ~Holds(response, f)'
           /\ \A c \in Command : Arriving(c)' => Arriving(c) /\ ~HoldsCommand(response, c)
           /\ \A r \in {"done", "failed"} : \A c : request' # <<r, c>>
           /\ Apart' /\ ~Page'
<1>1. request' = Alarm /\ send_result' = -1 /\ response' = <<>>
    BY DEF Free
<1>2. request' \in Mail \ {Picture} /\ request'[1] = "alarm" /\ response' \in Seq(Item) /\ ~Page'
      /\ \A r \in {"done", "failed"} : \A c : request' # <<r, c>>
    BY <1>1, MailMembers DEF Alarm, Picture, Page
<1>3. \A f : Holds(down, f)' = Holds(down, f) /\ Holds(rx, f)' = Holds(rx, f) /\ ~Holds(response, f)'
    BY <1>1, HoldsEmpty DEF Holds
<1>4. \A c \in Command : Arriving(c)' => Arriving(c) /\ ~HoldsCommand(response, c)
    BY <1>3 DEF LinkInv, Apart, Arriving, HoldsCommand
<1>5. Apart'
  <2>1. Once(down)'
      BY DEF LinkInv, Apart, Once
  <2> QED
      BY <1>3, <2>1 DEF LinkInv, Apart, HoldsCommand
<1> QED
    BY <1>1, <1>2, <1>3, <1>4, <1>5

LEMMA JudgeKeeps == ASSUME LinkInv, Judge PROVE LinkInv'
<1>1. UNCHANGED <<modem, tcp, rx, down, gsm_mode, gsm, stale, gprs_order, received, told, sent, frame, spoiled>>
    BY DEF Judge, modemVars, serverVars, frameVars
<1>2. /\ gprs = "report" /\ Numbered /\ gprs' \in {"recv", "failure"} /\ gsm = "top" /\ Free
      /\ outcome' \in {"ok", "failed"} /\ error_counts' \in {0, error_counts}
    BY DEF Judge, LinkInv, Turns
<1>3. /\ request' \in Mail \ {Picture} /\ request'[1] = "alarm" /\ send_result' \in {1, -1}
      /\ response' = <<>> /\ response' \in Seq(Item)
      /\ \A f : Holds(down, f)' = Holds(down, f) /\ Holds(rx, f)' = Holds(rx, f) /\ ~Holds(response, f)'
      /\ \A c \in Command : Arriving(c)' => Arriving(c) /\ ~HoldsCommand(response, c)
      /\ \A r \in {"done", "failed"} : \A c : request' # <<r, c>>
      /\ Apart' /\ ~Page'
    BY <1>1, <1>2, FreeLeaves
<1>4. \A r \in {"done", "failed"} : \A c : request # <<r, c>>
    BY <1>2 DEF Numbered
<1>5. /\ gprs_mq' \in Seq(Mail) /\ Len(gprs_mq') <= MailMax /\ executed' \subseteq sent' /\ altered' \subseteq sent'
      /\ Unknown' /\ HeldOnce' /\ MailedTheTruth' /\ ToldTheTruth'
  <2>1. CASE send_result = 1
      BY <1>1, <1>3, <1>4, <2>1, RecvFrameKeeps DEF Judge
  <2>2. CASE send_result # 1
    <3>1. UNCHANGED <<gprs_mq, executed, altered>>
        BY <2>2 DEF Judge, mailVars
    <3>2. \A r \in {"done", "failed"} : \A c : Mailed(r, c)' => Mailed(r, c)
        BY <1>3, <3>1 DEF Mailed, Holds
    <3>3. gprs_mq' \in Seq(Mail) /\ Len(gprs_mq') <= MailMax /\ executed' \subseteq sent' /\ altered' \subseteq sent'
        BY <1>1, <3>1 DEF LinkInv, TypeOK
    <3> QED
        BY <1>1, <1>3, <3>1, <3>2, <3>3, TruthStays
  <2> QED
      BY <2>1, <2>2
<1>6. TypeOK'
  <2>1. error_counts' \in 0..ErrorLimit
      BY <1>2, LinkAssumption DEF LinkInv, TypeOK
  <2> QED
      BY <1>1, <1>2, <1>3, <1>5, <2>1 DEF LinkInv, TypeOK
<1>7. Turns'
    BY <1>1, <1>2, <1>3 DEF LinkInv, Turns
<1>9. AnswersOld(down)' /\ AnswersOld(rx)' /\ AnswersOld(response)' /\ AnswersFit'
  <2>1. \A o : /\ HoldsAnswer(down, o)' <=> HoldsAnswer(down, o)
               /\ HoldsAnswer(rx, o)' <=> HoldsAnswer(rx, o)
               /\ ~HoldsAnswer(response, o)'
      BY <1>3 DEF HoldsAnswer
  <2> QED
      BY <1>1, <1>2, <2>1 DEF LinkInv, AnswersOld, AnswersFit
<1>10. AnsweredMeansReceived'
  <2> SUFFICES ASSUME outcome' = "ok" PROVE received
      BY <1>1 DEF AnsweredMeansReceived
  <2>1. response = << <<"ack", request[2]>> >>
      BY DEF Judge, Answers
  <2>2. HoldsAnswer(response, request[2])
    <3>1. 1 \in DOMAIN response /\ response[1] = <<"ack", request[2]>>
        BY <2>1
    <3> QED
        BY <3>1 DEF HoldsAnswer, Holds
  <2> QED
      BY <1>2, <2>2 DEF LinkInv, Turns, AnswersOld
<1> QED
    BY <1>3, <1>5, <1>6, <1>7, <1>9, <1>10 DEF LinkInv

(* A step by which the gprs thread is done with a frame, or with what was read for it *)
LEMMA DoneWithFrame ==
    ASSUME LinkInv, Free, gprs' \in {"recv", "page"}, gprs = "report", error_counts' \in 0..ErrorLimit,
           UNCHANGED <<modem, tcp, rx, down, gsm_mode, gsm, stale, gprs_order, outcome, gprs_mq, executed, altered,
                       received, told, sent, spoiled>>,
           frame' \in [held : SUBSET sent, length : {"right", "turned", "wrong"}, wiped : BOOLEAN],
           UNCHANGED frame \/ HeldOnce'
    PROVE  LinkInv'
<1>1. /\ request' \in Mail \ {Picture} /\ request'[1] = "alarm" /\ send_result' \in {1, -1}
      /\ response' = <<>> /\ response' \in Seq(Item)
      /\ \A f : Holds(down, f)' = Holds(down, f) /\ Holds(rx, f)' = Holds(rx, f) /\ ~Holds(response, f)'
      /\ \A c \in Command : Arriving(c)' => Arriving(c) /\ ~HoldsCommand(response, c)
      /\ \A r \in {"done", "failed"} : \A c : request' # <<r, c>>
      /\ Apart' /\ ~Page'
    BY FreeLeaves
<1>2. \A r \in {"done", "failed"} : \A c : Mailed(r, c)' => Mailed(r, c)
    BY <1>1 DEF Mailed, Holds
<1>3. TypeOK'
    BY <1>1 DEF LinkInv, TypeOK
<1>4. Turns'
    BY <1>1 DEF LinkInv, Turns
<1>5. Unknown' /\ MailedTheTruth' /\ ToldTheTruth' /\ HeldOnce'
  <2>1. \A c \in Command : Unread(c) => Unread(c)'
      BY <1>2 DEF Unread
  <2>2. Unknown' /\ MailedTheTruth' /\ ToldTheTruth'
      BY <1>1, <1>2, <2>1 DEF LinkInv, Unknown, MailedTheTruth, ToldTheTruth
  <2>3. \A c \in frame.held : c \in Command
      BY DEF LinkInv, TypeOK
  <2>4. UNCHANGED frame => HeldOnce'
      BY <1>1, <2>1, <2>3 DEF LinkInv, HeldOnce
  <2> QED
      BY <2>2, <2>4
<1>6. AnswersOld(down)' /\ AnswersOld(rx)' /\ AnswersOld(response)' /\ AnswersFit' /\ AnsweredMeansReceived'
  <2>1. \A o : /\ HoldsAnswer(down, o)' <=> HoldsAnswer(down, o)
               /\ HoldsAnswer(rx, o)' <=> HoldsAnswer(rx, o)
               /\ ~HoldsAnswer(response, o)'
      BY <1>1 DEF HoldsAnswer
  <2> QED
      BY <2>1 DEF LinkInv, AnswersOld, AnswersFit, AnsweredMeansReceived
<1> QED
    BY <1>1, <1>3, <1>4, <1>5, <1>6 DEF LinkInv

LEMMA JudgeNothingKeeps == ASSUME LinkInv, JudgeNothing PROVE LinkInv'
<1>1. UNCHANGED <<modem, tcp, rx, down, gsm_mode, gsm, stale, gprs_order, outcome, gprs_mq, executed, altered,
                  received, told, sent, frame, spoiled>>
    BY DEF JudgeNothing, modemVars, mailVars, serverVars, frameVars
<1>2. gprs = "report" /\ gprs' = "recv" /\ error_counts' \in 0..ErrorLimit /\ Free
    BY LinkAssumption DEF JudgeNothing
<1>3. frame' \in [held : SUBSET sent, length : {"right", "turned", "wrong"}, wiped : BOOLEAN]
    BY <1>1 DEF LinkInv, TypeOK
<1> QED
    BY <1>1, <1>2, <1>3, DoneWithFrame

LEMMA FailureKeeps == ASSUME LinkInv, Failure PROVE LinkInv'
<1>1. UNCHANGED <<rx, gsm_mode, gsm, stale, gprs_order, request, outcome, gprs_mq, executed, altered,
                  send_result, response, received, told, sent, frame, spoiled>>
    BY DEF Failure, mailVars, reportVars, serverVars, frameVars
<1>2. gprs = "failure" /\ gprs' = "recv" /\ gsm = "top" /\ response = <<>>
    BY DEF Failure, LinkInv, Turns
<1>3. error_counts' \in 0..ErrorLimit
  <2>1. error_counts \in 0..ErrorLimit /\ ErrorLimit \in Nat
      BY LinkAssumption DEF LinkInv, TypeOK
  <2>2. error_counts' = 0 \/ (error_counts < ErrorLimit /\ error_counts' = error_counts + 1)
      BY DEF Failure
  <2> QED
      BY <2>1, <2>2
<1>4. UNCHANGED <<modem, tcp, down>> \/ (modem' = "off" /\ tcp' = FALSE /\ down' = <<>>)
    BY DEF Failure, Off
<1>5. /\ modem' \in {"off", "cmd", "data"} /\ tcp' \in BOOLEAN /\ (modem' = "data" => tcp')
      /\ down' \in Seq(Item)
  <2>1. <<>> \in Seq(Item)
      OBVIOUS
  <2> QED
      BY <1>4, <2>1 DEF LinkInv, TypeOK
<1>6. TypeOK' /\ Turns'
    BY <1>1, <1>2, <1>3, <1>5 DEF LinkInv, TypeOK, Turns, HasResponse, Numbered, Page
<1>7. \A r, c : Mailed(r, c)' <=> Mailed(r, c)
    BY <1>1 DEF Mailed, Holds
<1> QED
    BY <1>1, <1>2, <1>4, <1>6, <1>7, DropsOnly

-----------------------------------------------------------------------------
(* The upload *)

LEMMA UploadPageKeeps == ASSUME LinkInv, UploadPage PROVE LinkInv'
<1>1. UNCHANGED <<modem, tcp, rx, down, gsm_mode, gsm, stale, gprs_order, error_counts, outcome, gprs_mq, executed,
                  altered, send_result, response, received, told, sent, frame, spoiled>>
    BY DEF UploadPage, modemVars, mailVars, reportVars, serverVars, frameVars
<1>2. gprs = "page" /\ gprs' = "wait" /\ response = <<>> /\ gsm = "top"
    BY DEF UploadPage, LinkInv, Turns
<1>3. PICK k \in {"page", "last"} : request' = <<k, gprs_order>>
    BY DEF UploadPage
<1>4. gprs_order \in Order
    BY DEF LinkInv, TypeOK
<1>5. request' \in (Mail \ {Picture}) \cup {"alarm", "page", "last"} \X Order
      /\ request'[1] = k /\ request'[2] = gprs_order
    BY <1>3, <1>4
<1>6. TypeOK' /\ Turns'
    BY <1>1, <1>2, <1>4, <1>5 DEF LinkInv, TypeOK, Turns, Numbered
<1>7. \A r \in {"done", "failed"} : \A c : Mailed(r, c)' => Mailed(r, c)
    BY <1>1, <1>3 DEF Mailed, Holds
<1> QED
    BY <1>1, <1>2, <1>6, <1>7, DropsOnly

LEMMA TakePageKeeps == ASSUME LinkInv, TakePage PROVE LinkInv'
<1>1. UNCHANGED <<modem, tcp, rx, down, gsm_mode, gsm, stale, gprs_order, error_counts, outcome, gprs_mq, executed,
                  altered, received, told, sent, spoiled>>
    BY DEF TakePage, modemVars, mailVars, serverVars
<1>2. gprs = "report" /\ gprs' = "page" /\ Free /\ error_counts' \in 0..ErrorLimit
    BY <1>1 DEF TakePage, LinkInv, TypeOK
<1>3. /\ \A c \in Command : Arriving(c)' => Arriving(c) /\ ~HoldsCommand(response, c)
      /\ \A r \in {"done", "failed"} : \A c : request' # <<r, c>>
    BY <1>1, <1>2, FreeLeaves
<1>4. \A c \in Command : Unread(c) => Unread(c)'
    BY <1>1, <1>3 DEF Unread, Mailed, Holds
<1>5. CASE UNCHANGED frame
  <2>1. frame' \in [held : SUBSET sent, length : {"right", "turned", "wrong"}, wiped : BOOLEAN]
      BY <1>5 DEF LinkInv, TypeOK
  <2> QED
      BY <1>1, <1>2, <1>5, <2>1, DoneWithFrame
<1>6. CASE frame' = NoFrame
  <2>1. frame' \in [held : SUBSET sent, length : {"right", "turned", "wrong"}, wiped : BOOLEAN] /\ frame'.held = {}
      BY <1>6 DEF NoFrame
  <2>2. HeldOnce'
      BY <2>1 DEF HeldOnce
  <2> QED
      BY <1>1, <1>2, <2>1, <2>2, DoneWithFrame
<1>7. CASE frame.length = "right" /\ frame' = [frame EXCEPT !.length = "wrong", !.wiped = FALSE]
  <2>1. /\ frame' \in [held : SUBSET sent, length : {"right", "turned", "wrong"}, wiped : BOOLEAN]
        /\ frame'.held = frame.held /\ frame'.length = "wrong"
      BY <1>7 DEF LinkInv, TypeOK
  <2>2. \A c \in frame.held : c \in Command
      BY DEF LinkInv, TypeOK
  <2>3. HeldOnce'
      BY <1>1, <1>3, <1>7, <2>1, <2>2 DEF LinkInv, HeldOnce, Unread
  <2> QED
      BY <1>1, <1>2, <2>1, <2>3, DoneWithFrame
<1>8. CASE /\ HasResponse /\ send_result = 1 /\ Head(response)[1] = "command"
           /\ frame' = [held |-> {Head(response)[2]}, wiped |-> FALSE,
                        length |-> IF Len(response) = 1 THEN "right" ELSE "wrong"]
  <2>1. response \in Seq(Item) /\ response # <<>>
      BY <1>2, <1>8 DEF LinkInv, TypeOK, Turns
  <2>2. Head(response) \in Item /\ Holds(response, Head(response))
      BY <2>1, HoldsTail
  <2>3. PICK c \in Command : c = Head(response)[2] /\ Head(response) = <<"command", c>>
      BY <1>8, <2>2, ItemShape
  <2>4. /\ frame'.held = {c} /\ frame'.length \in {"right", "wrong"}
        /\ frame' \in [held : {{c}}, length : {"right", "turned", "wrong"}, wiped : BOOLEAN]
      BY <1>8, <2>3
  <2>5. HoldsCommand(response, c) /\ Arriving(c)
      BY <2>2, <2>3 DEF HoldsCommand, Arriving
  <2>6. c \in sent /\ Unread(c) /\ ~Arriving(c)'
      BY <1>3, <2>3, <2>5 DEF LinkInv, Unknown
  <2>7. frame' \in [held : SUBSET sent, length : {"right", "turned", "wrong"}, wiped : BOOLEAN]
      BY <2>4, <2>6
  <2>8. HeldOnce'
      BY <1>4, <2>3, <2>4, <2>6 DEF HeldOnce, Unread
  <2> QED
      BY <1>1, <1>2, <2>7, <2>8, DoneWithFrame
<1> QED
    BY <1>5, <1>6, <1>7, <1>8 DEF TakePage

LEMMA RecvHeldKeeps == ASSUME LinkInv, RecvHeld PROVE LinkInv'
<1>1. UNCHANGED <<modem, tcp, rx, down, gsm_mode, gsm, stale, gprs, gprs_order, error_counts, request, outcome,
                  send_result, response, received, told, sent>>
    BY DEF RecvHeld, modemVars, gprsVars, reportVars, serverVars
<1>2. PICK c \in frame.held :
        /\ ParseCommand(c, frame.length = "right", ~frame.wiped)
        /\ spoiled' = IF frame.length = "turned" \/ frame.wiped THEN spoiled \cup {c} ELSE spoiled
    BY DEF RecvHeld
<1>3. /\ c \in sent /\ c \in Command /\ frame.held = {c} /\ ~Arriving(c)
      /\ frame.length = "right" /\ c \notin spoiled => Unread(c)
      /\ frame.length = "wrong" /\ c \notin spoiled => c \notin executed \cup altered
    BY <1>2 DEF LinkInv, TypeOK, HeldOnce
<1>4. /\ frame' \in [held : SUBSET sent, length : {"right", "turned", "wrong"}, wiped : BOOLEAN]
      /\ frame'.held = {c}
      /\ frame.length = "right" => frame'.length = "turned"
      /\ frame'.length = "right" => frame.length = "turned"
      /\ frame'.length = "wrong" => frame.length = "wrong"
    BY <1>3 DEF LinkInv, TypeOK, RecvHeld
<1>5. frame.length \in {"right", "turned", "wrong"} /\ frame.wiped \in BOOLEAN
    BY DEF LinkInv, TypeOK
<1>6. /\ spoiled \subseteq spoiled' /\ spoiled' \subseteq sent
      /\ frame.length = "turned" \/ frame.wiped => c \in spoiled'
    BY <1>2, <1>3 DEF LinkInv, TypeOK
<1>7. c \notin spoiled' => Unread(c) \/ (frame.length # "right" /\ c \notin executed \cup altered)
    BY <1>3, <1>5, <1>6
<1>8. \A f : /\ Holds(down, f)' = Holds(down, f) /\ Holds(rx, f)' = Holds(rx, f)
             /\ Holds(response, f)' = Holds(response, f)
    BY <1>1 DEF Holds
<1>9. \A d \in Command : Arriving(d)' => Arriving(d) /\ d # c
    BY <1>3, <1>8 DEF Arriving, HoldsCommand
<1>10. /\ gprs_mq' \in Seq(Mail) /\ Len(gprs_mq') <= MailMax /\ executed' \subseteq sent'
       /\ altered' \subseteq sent'
       /\ Unknown' /\ MailedTheTruth' /\ ToldTheTruth'
       /\ \A d \in executed' \cup altered' : d \in executed \cup altered \/ (d = c /\ frame.length = "right")
  <2>0. PICK right \in BOOLEAN, whole \in BOOLEAN : (right <=> frame.length = "right") /\ (whole <=> ~frame.wiped)
      OBVIOUS
  <2>1. ParseCommand(c, right, whole)
      BY <1>2, <2>0 DEF ParseCommand, CarryOut
  <2>2. right /\ ~whole => c \in spoiled'
      BY <2>0, <1>5, <1>6
  <2>3. c \notin spoiled' => Unread(c) \/ (~right /\ c \notin executed \cup altered)
      BY <2>0, <1>7
  <2>4. /\ gprs_mq' \in Seq(Mail) /\ Len(gprs_mq') <= MailMax /\ executed' \subseteq sent'
        /\ altered' \subseteq sent'
        /\ Unknown' /\ MailedTheTruth' /\ ToldTheTruth'
        /\ \A d \in executed' \cup altered' : d \in executed \cup altered \/ (d = c /\ right)
      BY <1>1, <1>3, <1>6, <1>9, <2>1, <2>2, <2>3, ParseKeeps
  <2> QED
      BY <2>0, <2>4
<1>11. HeldOnce'
  <2>1. frame'.length = "right" => c \in spoiled'
      BY <1>4, <1>6
  <2>2. frame'.length = "wrong" /\ c \notin spoiled' => c \notin executed' \cup altered'
      BY <1>3, <1>4, <1>6, <1>10
  <2>3. ~Arriving(c)'
      BY <1>3, <1>9
  <2> QED
      BY <1>4, <2>1, <2>2, <2>3 DEF HeldOnce
<1>12. TypeOK'
    BY <1>1, <1>4, <1>6, <1>10 DEF LinkInv, TypeOK
<1>13. Turns' /\ AnsweredMeansReceived'
    BY <1>1 DEF LinkInv, Turns, HasResponse, Numbered, Page, AnsweredMeansReceived
<1>14. Apart'
  <2>1. Once(down)'
      BY <1>1 DEF LinkInv, Apart, Once
  <2> QED
      BY <1>8, <2>1 DEF LinkInv, Apart, HoldsCommand
<1>15. AnswersOld(down)' /\ AnswersOld(rx)' /\ AnswersOld(response)' /\ AnswersFit'
    BY <1>1, <1>8 DEF LinkInv, AnswersOld, AnswersFit, HoldsAnswer, Numbered
<1> QED
    BY <1>10, <1>11, <1>12, <1>13, <1>14, <1>15 DEF LinkInv

LEMMA WipeKeeps == ASSUME LinkInv, Wipe PROVE LinkInv'
<1>1. UNCHANGED <<modem, tcp, rx, down, gsm_mode, gsm, stale, gprs, gprs_order, error_counts, request, outcome,
                  gprs_mq, executed, altered, send_result, response, received, told, sent, spoiled>>
    BY DEF Wipe, modemVars, gprsVars, mailVars, reportVars, serverVars
<1>2. /\ frame' \in [held : SUBSET sent, length : {"right", "turned", "wrong"}, wiped : BOOLEAN]
      /\ frame'.held = frame.held /\ frame'.length = frame.length
    BY DEF LinkInv, TypeOK, Wipe
<1>3. TypeOK'
    BY <1>1, <1>2 DEF LinkInv, TypeOK
<1>4. \A f : /\ Holds(down, f)' = Holds(down, f) /\ Holds(rx, f)' = Holds(rx, f)
             /\ Holds(response, f)' = Holds(response, f) /\ Holds(gprs_mq, f)' = Holds(gprs_mq, f)
    BY <1>1 DEF Holds
<1>5. \A c : (Arriving(c)' <=> Arriving(c)) /\ \A r : (Mailed(r, c)' <=> Mailed(r, c))
    BY <1>1, <1>4 DEF Arriving, HoldsCommand, Mailed
<1>6. \A c : Unread(c)' <=> Unread(c)
    BY <1>1, <1>5 DEF Unread
<1>7. Unknown' /\ HeldOnce' /\ MailedTheTruth' /\ ToldTheTruth'
    BY <1>1, <1>2, <1>5, <1>6 DEF LinkInv, Unknown, HeldOnce, MailedTheTruth, ToldTheTruth
<1>8. Turns' /\ AnsweredMeansReceived'
    BY <1>1 DEF LinkInv, Turns, HasResponse, Numbered, Page, AnsweredMeansReceived
<1>9. Apart'
  <2>1. Once(down)'
      BY <1>1 DEF LinkInv, Apart, Once
  <2> QED
      BY <1>4, <2>1 DEF LinkInv, Apart, HoldsCommand
<1>10. AnswersOld(down)' /\ AnswersOld(rx)' /\ AnswersOld(response)' /\ AnswersFit'
    BY <1>1, <1>4 DEF LinkInv, AnswersOld, AnswersFit, HoldsAnswer, Numbered
<1> QED
    BY <1>3, <1>7, <1>8, <1>9, <1>10 DEF LinkInv

LEMMA EndUploadKeeps == ASSUME LinkInv, EndUpload PROVE LinkInv'
<1>1. UNCHANGED <<modem, tcp, gsm_mode, gsm, stale, request, outcome, gprs_mq, executed, altered,
                  send_result, response,
                  received, told, sent, frame, spoiled>>
    BY DEF EndUpload, mailVars, reportVars, serverVars, frameVars
<1>2. /\ gprs = "page" /\ gprs' \in {"recv", "failure"} /\ error_counts' \in {0, error_counts}
      /\ gprs_order' = (gprs_order + 1) % Orders
      /\ down' \in NotOfOrder(down, {gprs_order'}) /\ rx' \in NotOfOrder(rx, {gprs_order'})
    BY DEF EndUpload
<1>3. response = <<>> /\ gsm = "top" /\ gprs_order \in Order /\ gprs_order' \in Order
    BY <1>2, NextOrder DEF LinkInv, Turns, TypeOK
<1>4. /\ down' \in Seq(Item) /\ Once(down') /\ \A f : Holds(down', f) => Holds(down, f)
      /\ \A o : HoldsAnswer(down', o) => HoldsAnswer(down, o) /\ o # gprs_order'
    BY <1>2, NotOfOrderKeeps DEF LinkInv, TypeOK, Apart
<1>5. /\ rx' \in Seq(Item) /\ \A f : Holds(rx', f) => Holds(rx, f)
      /\ \A o : HoldsAnswer(rx', o) => HoldsAnswer(rx, o) /\ o # gprs_order'
    BY <1>2, NotOfOrderKeeps DEF LinkInv, TypeOK
<1>6. \A f : (Holds(down, f)' => Holds(down, f)) /\ (Holds(rx, f)' => Holds(rx, f)) /\ ~Holds(response, f)'
    BY <1>1, <1>3, <1>4, <1>5, HoldsEmpty DEF Holds
<1>7. \A o : /\ HoldsAnswer(down, o)' => HoldsAnswer(down, o) /\ o # gprs_order'
             /\ HoldsAnswer(rx, o)' => HoldsAnswer(rx, o) /\ o # gprs_order'
             /\ ~HoldsAnswer(response, o)'
    BY <1>4, <1>5, <1>6 DEF HoldsAnswer, Holds
<1>8. TypeOK'
  <2>1. error_counts' \in 0..ErrorLimit
      BY <1>2, LinkAssumption DEF LinkInv, TypeOK
  <2> QED
      BY <1>1, <1>2, <1>3, <1>4, <1>5, <2>1 DEF LinkInv, TypeOK
<1>9. Turns' /\ AnsweredMeansReceived'
    BY <1>1, <1>2, <1>3 DEF LinkInv, Turns, HasResponse, Numbered, Page, AnsweredMeansReceived
<1>10. Apart' /\ \A c \in Command : Arriving(c)' => Arriving(c)
  <2>1. Once(down)'
      BY <1>4 DEF Once
  <2> QED
      BY <1>6, <2>1 DEF LinkInv, Apart, Arriving, HoldsCommand
<1>11. Unknown' /\ HeldOnce' /\ MailedTheTruth' /\ ToldTheTruth'
  <2>1. \A r, c : Mailed(r, c)' <=> Mailed(r, c)
      BY <1>1 DEF Mailed, Holds
  <2> QED
      BY <1>1, <1>10, <2>1, TruthStays
<1>12. ~HoldsAnswer(down, gprs_order) /\ ~HoldsAnswer(rx, gprs_order)
    BY <1>2 DEF LinkInv, AnswersFit
<1>13. \A o \in Order : gprs_order' = (o + 1) % Orders => o = gprs_order
    BY <1>2, <1>3, NextOrder
<1>14. AnswersOld(down)' /\ AnswersOld(rx)' /\ AnswersOld(response)'
    BY <1>7, <1>12, <1>13 DEF AnswersOld
<1>15. AnswersFit'
  <2>1. ~HoldsAnswer(down', gprs_order') /\ ~HoldsAnswer(rx', gprs_order')
      BY <1>4, <1>5
  <2> QED
      BY <2>1 DEF AnswersFit, HoldsAnswer, Holds
<1> QED
    BY <1>8, <1>9, <1>10, <1>11, <1>14, <1>15 DEF LinkInv

LEMMA UploadKeeps == ASSUME LinkInv, Upload PROVE LinkInv'
    BY UploadPageKeeps, TakePageKeeps, RecvHeldKeeps, WipeKeeps, EndUploadKeeps DEF Upload

-----------------------------------------------------------------------------
(* The gsm thread *)

(* gsm_mode_switch to command mode, with the types of what it leaves *)
LEMMA ToCmdLeaves ==
    ASSUME LinkInv, NEW STATE unread, ToCmd(unread)
    PROVE  /\ gsm_mode' = "cmd" /\ rx' = <<>> /\ rx' \in Seq(Item)
           /\ down' \in {down, <<>>} /\ down' \in Seq(Item)
           /\ modem' \in {"off", "cmd", "data"} /\ tcp' \in BOOLEAN /\ (modem' = "data" => tcp')
<1>1. <<>> \in Seq(Item)
    OBVIOUS
<1>2. gsm_mode' = "cmd" /\ rx' = <<>> /\ down' \in {down, <<>>}
    BY DEF ToCmd, Off
<1>3. modem' \in {"off", "cmd", "data"} /\ tcp' \in BOOLEAN /\ (modem' = "data" => tcp')
    BY DEF ToCmd, Off, LinkInv, TypeOK
<1>4. down' \in Seq(Item)
    BY <1>1, <1>2 DEF LinkInv, TypeOK
<1> QED
    BY <1>1, <1>2, <1>3, <1>4

LEMMA OtherMailKeeps == ASSUME LinkInv, OtherMail PROVE LinkInv'
<1>1. UNCHANGED <<gsm, stale, gprs, gprs_order, error_counts, request, outcome, gprs_mq, executed, altered,
                  send_result, response, received, told, sent, frame, spoiled>>
    BY DEF OtherMail, gprsVars, mailVars, reportVars, serverVars, frameVars
<1>2. /\ gsm_mode' \in {"cmd", "gprs"} /\ rx' = <<>> /\ rx' \in Seq(Item)
      /\ down' \in {down, <<>>} /\ down' \in Seq(Item)
      /\ modem' \in {"off", "cmd", "data"} /\ tcp' \in BOOLEAN /\ (modem' = "data" => tcp')
  <2>1. CASE ToCmd(rx)
      BY <2>1, ToCmdLeaves
  <2>2. CASE gsm_mode = "cmd" /\ rx' = <<>> /\ UNCHANGED <<modem, tcp, down, gsm_mode>>
    <3>1. <<>> \in Seq(Item)
        OBVIOUS
    <3> QED
        BY <2>2, <3>1 DEF LinkInv, TypeOK
  <2> QED
      BY <2>1, <2>2 DEF OtherMail
<1>3. TypeOK' /\ Turns'
    BY <1>1, <1>2 DEF LinkInv, TypeOK, Turns, HasResponse, Numbered, Page
<1>4. \A r, c : Mailed(r, c)' <=> Mailed(r, c)
    BY <1>1 DEF Mailed, Holds
<1> QED
    BY <1>1, <1>2, <1>3, <1>4, DropsOnly

LEMMA SwitchModeKeeps == ASSUME LinkInv, SwitchMode PROVE LinkInv'
<1>1. UNCHANGED <<stale, gprs_order, error_counts, request, outcome, gprs_mq, executed, altered, received,
                  told, sent, frame, spoiled>>
    BY DEF SwitchMode, mailVars, serverVars, frameVars
<1>2. gsm = "top" /\ gprs = "wait" /\ response = <<>>
    BY DEF SwitchMode, LinkInv, Turns
<1>3. \A r, c : Mailed(r, c)' <=> Mailed(r, c)
    BY <1>1 DEF Mailed, Holds
<1>4. <<>> \in Seq(Item) /\ <<AuthAnswer>> \in Seq(Item) /\ <<AuthAnswer>> = Append(<<>>, AuthAnswer)
    BY ItemMembers
<1>5. CASE /\ gsm_mode' \in {"cmd", "gprs"} /\ gsm' \in {"top", "write", "auth"}
           /\ \/ gprs' = "wait" /\ UNCHANGED <<send_result, response>>
              \/ gprs' = "report" /\ gsm' = "top" /\ send_result' = -1 /\ response' = <<>> /\ rx' = <<>>
           /\ modem' \in {modem, "data"} /\ tcp' \in {tcp, TRUE} /\ (modem' = "data" => modem = "data" \/ tcp')
           /\ down' \in {down, <<>>} /\ rx' \in {rx, <<>>} /\ (tcp => tcp')
  <2>1. modem' \in {"off", "cmd", "data"} /\ tcp' \in BOOLEAN /\ (modem' = "data" => tcp')
      BY <1>5 DEF LinkInv, TypeOK
  <2>2. rx' \in Seq(Item) /\ down' \in Seq(Item) /\ response' \in Seq(Item)
      BY <1>2, <1>4, <1>5 DEF LinkInv, TypeOK
  <2>3. TypeOK' /\ Turns'
      BY <1>1, <1>2, <1>5, <2>1, <2>2 DEF LinkInv, TypeOK, Turns, HasResponse, Numbered, Page
  <2> QED
      BY <1>1, <1>2, <1>3, <1>5, <2>3, DropsOnly DEF HasResponse, Numbered, Page
<1>6. CASE /\ modem' = "data" /\ tcp' = TRUE /\ gsm_mode' = "gprs" /\ gsm' = "auth" /\ rx' = <<>>
           /\ down' = <<AuthAnswer>> /\ UNCHANGED <<gprs, send_result, response>>
  <2>1. TypeOK' /\ Turns'
      BY <1>1, <1>2, <1>4, <1>6 DEF LinkInv, TypeOK, Turns, HasResponse, Numbered, Page
  <2>2. /\ \A f : (Holds(down, f)' => f = AuthAnswer) /\ ~Holds(rx, f)' /\ ~Holds(response, f)'
        /\ Once(down)'
    <3>1. down' = Append(<<>>, AuthAnswer) /\ AuthAnswer \in Item /\ AuthAnswer[1] # "command" /\ Once(<<>>)
        BY <1>4, <1>6, ItemMembers DEF AuthAnswer, Once
    <3>2. Once(down') /\ \A f : Holds(down', f) => f = AuthAnswer
        BY <1>4, <3>1, OnceAppend, HoldsAppend, HoldsEmpty
    <3>3. \A f : ~Holds(rx', f) /\ ~Holds(response', f)
        BY <1>2, <1>6, HoldsEmpty
    <3> QED
        BY <3>2, <3>3 DEF Holds, Once
  <2>3. \A c : ~HoldsCommand(down, c)' /\ ~HoldsCommand(rx, c)' /\ ~HoldsCommand(response, c)'
      BY <2>2 DEF HoldsCommand, AuthAnswer
  <2>4. \A o : ~HoldsAnswer(down, o)' /\ ~HoldsAnswer(rx, o)' /\ ~HoldsAnswer(response, o)'
      BY <2>2 DEF HoldsAnswer, AuthAnswer
  <2>5. Apart' /\ \A c \in Command : ~Arriving(c)'
      BY <2>2, <2>3 DEF Apart, Arriving
  <2>6. ~HoldsAnswer(rx, gprs_order)'
      BY <1>6, HoldsEmpty DEF HoldsAnswer, Holds
  <2> QED
      BY <1>1, <1>3, <2>1, <2>4, <2>5, <2>6, MovesOn
<1>7. \/ gsm_mode = "gprs" /\ gsm' = "write" /\ UNCHANGED <<modem, tcp, rx, down, gsm_mode, gprs,
                                                            send_result, response>>
      \/ /\ tcp /\ modem' = "data" /\ gsm_mode' = "gprs" /\ gsm' = "write" /\ rx' = <<>>
         /\ UNCHANGED <<tcp, down, gprs, send_result, response>>
      \/ /\ down' \in {<<>>, <<AuthAnswer>>}
         /\ modem' = "data" /\ tcp' = TRUE /\ gsm_mode' = "gprs" /\ gsm' = "auth" /\ rx' = <<>>
         /\ UNCHANGED <<gprs, send_result, response>>
      \/ /\ gsm_mode = "cmd" /\ rx' = <<>> /\ gsm' = "top" /\ gprs' = "report" /\ send_result' = -1 /\ response' = <<>>
         /\ UNCHANGED <<modem, tcp, down, gsm_mode>>
    BY DEF SwitchMode, modemVars, reportVars, Report
<1> QED
    BY <1>2, <1>5, <1>6, <1>7

LEMMA AuthReadKeeps == ASSUME LinkInv, AuthRead PROVE LinkInv'
<1>1. UNCHANGED <<modem, tcp, down, gsm_mode, stale, gprs, gprs_order, error_counts, request, outcome,
                  send_result, response, received, told, sent, frame, spoiled>>
    BY DEF AuthRead, gprsVars, reportVars, serverVars, frameVars
<1>2. gsm = "auth" /\ gsm' = "write" /\ gprs = "wait" /\ rx' = <<>> /\ response = <<>> /\ RecvFrame(rx)
    BY DEF AuthRead, LinkInv, Turns
<1>3. \A f : Holds(down, f)' = Holds(down, f) /\ ~Holds(rx, f)' /\ ~Holds(response, f)'
    BY <1>1, <1>2, HoldsEmpty DEF Holds
<1>4. \A c \in Command : Arriving(c)' => Arriving(c) /\ ~HoldsCommand(rx, c)
    BY <1>3 DEF LinkInv, Apart, Arriving, HoldsCommand
<1>5. /\ gprs_mq' \in Seq(Mail) /\ Len(gprs_mq') <= MailMax /\ executed' \subseteq sent' /\ altered' \subseteq sent'
      /\ Unknown' /\ HeldOnce' /\ MailedTheTruth' /\ ToldTheTruth'
    BY <1>1, <1>2, <1>4, RecvFrameKeeps
<1>6. TypeOK'
  <2>1. rx' \in Seq(Item)
      BY <1>2
  <2> QED
      BY <1>1, <1>2, <1>5, <2>1 DEF LinkInv, TypeOK
<1>7. Turns' /\ AnsweredMeansReceived'
    BY <1>1, <1>2 DEF LinkInv, Turns, HasResponse, Numbered, Page, AnsweredMeansReceived
<1>8. Apart'
  <2>1. Once(down)'
      BY <1>1 DEF LinkInv, Apart, Once
  <2> QED
      BY <1>3, <2>1 DEF LinkInv, Apart, HoldsCommand
<1>9. AnswersOld(down)' /\ AnswersOld(rx)' /\ AnswersOld(response)' /\ AnswersFit'
  <2>1. \A o : /\ HoldsAnswer(down, o)' <=> HoldsAnswer(down, o)
               /\ ~HoldsAnswer(rx, o)' /\ ~HoldsAnswer(response, o)'
      BY <1>3 DEF HoldsAnswer
  <2> QED
      BY <1>1, <2>1 DEF LinkInv, AnswersOld, AnswersFit
<1> QED
    BY <1>5, <1>6, <1>7, <1>8, <1>9 DEF LinkInv

LEMMA NoResponseKeeps == ASSUME LinkInv, NoResponse PROVE LinkInv'
<1>1. UNCHANGED <<modem, tcp, rx, down, gsm_mode, stale, gprs_order, error_counts, request, outcome,
                  gprs_mq, executed, altered, received, told, sent, frame, spoiled>>
    BY DEF NoResponse, modemVars, mailVars, serverVars, frameVars
<1>2. /\ gsm = "read" /\ rx = <<>> /\ gsm' = "top" /\ gprs' = "report" /\ send_result' = -1 /\ response' = <<>>
      /\ gprs = "wait"
    BY DEF NoResponse, Report, LinkInv, Turns
<1>3. TypeOK' /\ Turns'
  <2>1. response' \in Seq(Item)
      BY <1>2
  <2> QED
      BY <1>1, <1>2, <2>1 DEF LinkInv, TypeOK, Turns, HasResponse, Numbered, Page
<1>4. \A r, c : Mailed(r, c)' <=> Mailed(r, c)
    BY <1>1 DEF Mailed, Holds
<1> QED
    BY <1>1, <1>2, <1>3, <1>4, DropsOnly

LEMMA ReadResponseKeeps == ASSUME LinkInv, ReadResponse PROVE LinkInv'
<1>1. UNCHANGED <<stale, gprs_order, error_counts, request, outcome, gprs_mq, executed, altered, received,
                  told, sent, frame, spoiled>>
    BY DEF ReadResponse, mailVars, serverVars, frameVars
<1>2. gsm = "read" /\ gprs = "wait" /\ HasResponse /\ response = <<>> /\ rx # <<>> /\ gsm' = "top" /\ gprs' = "report"
    BY DEF ReadResponse, Report, LinkInv, Turns
<1>3. \A r, c : Mailed(r, c)' <=> Mailed(r, c)
    BY <1>1 DEF Mailed, Holds
<1>4. CASE ToCmd(<<>>) /\ send_result' = -1 /\ response' = <<>>
  <2>1. /\ gsm_mode' = "cmd" /\ rx' = <<>> /\ rx' \in Seq(Item)
        /\ down' \in {down, <<>>} /\ down' \in Seq(Item)
        /\ modem' \in {"off", "cmd", "data"} /\ tcp' \in BOOLEAN /\ (modem' = "data" => tcp')
      BY <1>4, ToCmdLeaves
  <2>2. TypeOK' /\ Turns'
    <3>1. response' \in Seq(Item)
        BY <1>4
    <3> QED
        BY <1>1, <1>2, <1>4, <2>1, <3>1 DEF LinkInv, TypeOK, Turns, HasResponse, Numbered, Page
  <2> QED
      BY <1>1, <1>2, <1>3, <1>4, <2>1, <2>2, DropsOnly
<1>5. CASE rx' = <<>> /\ send_result' = 1 /\ response' = rx /\ UNCHANGED <<modem, tcp, down, gsm_mode>>
  <2>1. rx' \in Seq(Item)
      BY <1>5
  <2>2. TypeOK' /\ Turns'
      BY <1>1, <1>2, <1>5, <2>1 DEF LinkInv, TypeOK, Turns, HasResponse, Numbered, Page
  <2>3. \A f : Holds(down, f)' = Holds(down, f) /\ ~Holds(rx, f)' /\ Holds(response, f)' = Holds(rx, f)
      BY <1>5, HoldsEmpty DEF Holds
  <2>4. Apart'
    <3>1. Once(down)'
        BY <1>5 DEF LinkInv, Apart, Once
    <3> QED
        BY <2>3, <3>1 DEF LinkInv, Apart, HoldsCommand
  <2>5. \A c \in Command : Arriving(c)' => Arriving(c)
      BY <2>3 DEF Arriving, HoldsCommand
  <2>6. \A o : /\ HoldsAnswer(down, o)' => HoldsAnswer(down, o)
               /\ ~HoldsAnswer(rx, o)'
               /\ HoldsAnswer(response, o)' => HoldsAnswer(rx, o)
      BY <2>3 DEF HoldsAnswer
  <2>7. ~HoldsAnswer(rx, gprs_order)'
      BY <1>1, <2>6 DEF HoldsAnswer
  <2> QED
      BY <1>1, <1>3, <2>2, <2>4, <2>5, <2>6, <2>7, MovesOn
<1> QED
    BY <1>4, <1>5 DEF ReadResponse, Report

LEMMA IdleReadKeeps == ASSUME LinkInv, IdleRead PROVE LinkInv'
<1>1. UNCHANGED <<gsm, gprs, gprs_order, error_counts, request, outcome, send_result, response, received,
                  told, sent, frame, spoiled>>
    BY DEF IdleRead, gprsVars, reportVars, serverVars, frameVars
<1>2. gsm = "top" /\ gprs # "wait"
    BY DEF IdleRead
<1>3. CASE ToCmd(<<>>) /\ stale' \in BOOLEAN /\ UNCHANGED <<gprs_mq, executed, altered>>
  <2>1. /\ gsm_mode' = "cmd" /\ rx' = <<>> /\ rx' \in Seq(Item)
        /\ down' \in {down, <<>>} /\ down' \in Seq(Item)
        /\ modem' \in {"off", "cmd", "data"} /\ tcp' \in BOOLEAN /\ (modem' = "data" => tcp')
      BY <1>3, ToCmdLeaves
  <2>2. TypeOK' /\ Turns'
      BY <1>1, <1>2, <1>3, <2>1 DEF LinkInv, TypeOK, Turns, HasResponse, Numbered, Page
  <2>3. \A r, c : Mailed(r, c)' <=> Mailed(r, c)
      BY <1>1, <1>3 DEF Mailed, Holds
  <2> QED
      BY <1>1, <1>2, <1>3, <2>1, <2>2, <2>3, DropsOnly
<1>4. CASE stale' = FALSE /\ RecvFrame(rx) /\ rx' = <<>> /\ UNCHANGED <<modem, tcp, down, gsm_mode>>
  <2>1. \A f : Holds(down, f)' = Holds(down, f) /\ ~Holds(rx, f)' /\ Holds(response, f)' = Holds(response, f)
      BY <1>1, <1>4, HoldsEmpty DEF Holds
  <2>2. \A c \in Command : Arriving(c)' => Arriving(c) /\ ~HoldsCommand(rx, c)
      BY <2>1 DEF LinkInv, Apart, Arriving, HoldsCommand
  <2>3. /\ gprs_mq' \in Seq(Mail) /\ Len(gprs_mq') <= MailMax /\ executed' \subseteq sent' /\ altered' \subseteq sent'
        /\ Unknown' /\ HeldOnce' /\ MailedTheTruth' /\ ToldTheTruth'
      BY <1>1, <1>4, <2>2, RecvFrameKeeps
  <2>4. TypeOK'
    <3>1. rx' \in Seq(Item) /\ UNCHANGED <<modem, tcp, down, gsm_mode>>
        BY <1>4
    <3>2. stale' \in BOOLEAN
        BY <1>4, Zenon
    <3> QED
        BY <1>1, <2>3, <3>1, <3>2 DEF LinkInv, TypeOK
  <2>5. Turns' /\ AnsweredMeansReceived'
      BY <1>1 DEF LinkInv, Turns, HasResponse, Numbered, Page, AnsweredMeansReceived
  <2>6. Apart'
    <3>1. Once(down)'
        BY <1>4 DEF LinkInv, Apart, Once
    <3> QED
        BY <2>1, <3>1 DEF LinkInv, Apart, HoldsCommand
  <2>7. AnswersOld(down)' /\ AnswersOld(rx)' /\ AnswersOld(response)' /\ AnswersFit'
    <3>1. \A o : /\ HoldsAnswer(down, o)' <=> HoldsAnswer(down, o)
                 /\ ~HoldsAnswer(rx, o)'
                 /\ HoldsAnswer(response, o)' <=> HoldsAnswer(response, o)
        BY <2>1 DEF HoldsAnswer
    <3> QED
        BY <1>1, <3>1 DEF LinkInv, AnswersOld, AnswersFit
  <2> QED
      BY <2>3, <2>4, <2>5, <2>6, <2>7 DEF LinkInv
<1>5. \/ ToCmd(<<>>) /\ stale' \in BOOLEAN /\ UNCHANGED <<gprs_mq, executed, altered>>
      \/ stale' = FALSE /\ RecvFrame(rx) /\ rx' = <<>> /\ UNCHANGED <<modem, tcp, down, gsm_mode>>
  <2>1. PICK i \in 0..Len(rx) :
            \/ (stale' = (i > 1) /\ ToCmd(<<>>) /\ UNCHANGED <<gprs_mq, executed, altered>>)
            \/ (UNCHANGED stale /\ ToCmd(<<>>) /\ UNCHANGED <<gprs_mq, executed, altered>>)
            \/ (stale' = FALSE /\ RecvFrame(rx) /\ rx' = <<>> /\ UNCHANGED <<modem, tcp, down, gsm_mode>>)
      BY DEF IdleRead, mailVars
  <2>2. (i > 1) \in BOOLEAN /\ stale \in BOOLEAN
      BY DEF LinkInv, TypeOK
  <2> QED
      BY <2>1, <2>2
<1> QED
    BY <1>3, <1>4, <1>5

LEMMA ResetKeeps == ASSUME LinkInv, Reset PROVE LinkInv'
<1>1. UNCHANGED <<tcp, down, gsm_mode, gsm, stale, gprs, gprs_order, error_counts, request, outcome, gprs_mq,
                  executed, altered,
                  send_result, response, received, told, sent, frame, spoiled>>
    BY DEF Reset, gprsVars, mailVars, reportVars, serverVars, frameVars
<1>2. modem = "off" /\ modem' \in {"off", "cmd"} /\ rx' \in {rx, <<>>}
    BY DEF Reset
<1>3. rx' \in Seq(Item)
  <2>1. <<>> \in Seq(Item)
      OBVIOUS
  <2> QED
      BY <1>2, <2>1 DEF LinkInv, TypeOK
<1>4. TypeOK' /\ Turns'
    BY <1>1, <1>2, <1>3 DEF LinkInv, TypeOK, Turns, HasResponse, Numbered, Page
<1>5. \A r, c : Mailed(r, c)' <=> Mailed(r, c)
    BY <1>1 DEF Mailed, Holds
<1>6. Numbered' <=> Numbered
    BY <1>1 DEF Numbered
<1>7. down' \in {down, <<>>} /\ response' \in {response, <<>>} /\ (outcome' = "ok" => outcome = "ok")
    BY <1>1
<1>8. rx' # <<>> /\ gprs = "wait" /\ Numbered => gprs' = "wait" /\ Numbered'
    BY <1>1, <1>6
<1>9. UNCHANGED <<gprs_order, executed, altered, told, sent, frame, spoiled, received>>
    BY <1>1
<1> QED
    BY <1>2, <1>4, <1>5, <1>7, <1>8, <1>9, DropsOnly

LEMMA WriteFrameKeeps == ASSUME LinkInv, WriteFrame PROVE LinkInv'
<1>1. UNCHANGED <<modem, tcp, gsm_mode, stale, gprs_order, error_counts, request, outcome, gprs_mq, executed,
                  altered, sent, frame, spoiled>>
    BY DEF WriteFrame, mailVars, frameVars
<1>2. /\ gsm = "write" /\ gprs = "wait" /\ response = <<>> /\ response' = <<>> /\ send_result' \in {1, -1}
      /\ \/ HasResponse /\ gsm' = "read" /\ gprs' = "wait"
         \/ ~HasResponse /\ gsm' = "top" /\ gprs' = "report"
  <2>1. gsm = "write" /\ gprs = "wait" /\ response = <<>> /\ send_result \in {1, -1}
      BY DEF WriteFrame, LinkInv, Turns, TypeOK
  <2>2. \/ HasResponse /\ gsm' = "read" /\ UNCHANGED <<gprs, send_result, response>>
        \/ ~HasResponse /\ gsm' = "top" /\ gprs' = "report" /\ send_result' = 1 /\ response' = <<>>
      BY DEF WriteFrame, Report, reportVars
  <2> QED
      BY <2>1, <2>2
<1>3. /\ (HasResponse' <=> HasResponse) /\ (Numbered' <=> Numbered) /\ (Page' <=> Page)
      /\ \A r, c : Mailed(r, c)' <=> Mailed(r, c)
      /\ response' \in Seq(Item) /\ (Numbered => gprs' = "wait")
    BY <1>1, <1>2 DEF HasResponse, Numbered, Page, Mailed, Holds
<1>4. Turns'
    BY <1>1, <1>2, <1>3 DEF LinkInv, Turns
<1>5. \A f : ~Holds(response, f)'
    BY <1>2, HoldsEmpty DEF Holds
<1>6. AnsweredMeansReceived' \/ ~(received => received')
    BY <1>1 DEF LinkInv, AnsweredMeansReceived
<1>7. CASE Numbered /\ received' = TRUE /\ UNCHANGED <<told, rx>>
           /\ (down' = Append(down, <<"ack", request[2]>>) \/ UNCHANGED down)
  <2>1. request[2] \in Order /\ gprs_order = (request[2] + 1) % Orders /\ request[2] # gprs_order
      BY <1>2, <1>7, NextOrder DEF LinkInv, Turns
  <2>2. down \in Seq(Item) /\ <<"ack", request[2]>> \in Item /\ Once(down)
      BY <2>1, ItemMembers DEF LinkInv, TypeOK, Apart
  <2>3. /\ down' \in Seq(Item) /\ Once(down)'
        /\ \A f : Holds(down, f)' => Holds(down, f) \/ f = <<"ack", request[2]>>
    <3>1. CASE down' = Append(down, <<"ack", request[2]>>)
      <4>1. /\ Append(down, <<"ack", request[2]>>) \in Seq(Item) /\ Once(Append(down, <<"ack", request[2]>>))
            /\ \A f : Holds(Append(down, <<"ack", request[2]>>), f) => Holds(down, f) \/ f = <<"ack", request[2]>>
          BY <2>2, OnceAppend, HoldsAppend
      <4> QED
          BY <3>1, <4>1 DEF Once, Holds
    <3>2. CASE UNCHANGED down
        BY <2>2, <3>2 DEF Once, Holds
    <3> QED
        BY <1>7, <3>1, <3>2
  <2>4. TypeOK'
      BY <1>1, <1>2, <1>3, <1>7, <2>3 DEF LinkInv, TypeOK
  <2>5. \A c : (HoldsCommand(down, c)' => HoldsCommand(down, c)) /\ (HoldsCommand(rx, c)' <=> HoldsCommand(rx, c))
               /\ ~HoldsCommand(response, c)'
      BY <1>5, <1>7, <2>3 DEF HoldsCommand, Holds
  <2>6. Apart' /\ \A c \in Command : Arriving(c)' => Arriving(c)
      BY <2>3, <2>5 DEF LinkInv, Apart, Arriving
  <2>7. Unknown' /\ HeldOnce' /\ MailedTheTruth' /\ ToldTheTruth'
      BY <1>1, <1>3, <1>7, <2>6, TruthStays
  <2>8. AnswersOld(down)' /\ AnswersOld(rx)' /\ AnswersOld(response)' /\ AnsweredMeansReceived'
      BY <1>7 DEF AnswersOld, AnsweredMeansReceived
  <2>9. AnswersFit'
    <3>1. ~HoldsAnswer(down, gprs_order)'
      <4>1. ~Holds(down, <<"ack", gprs_order>>) /\ <<"ack", gprs_order>> # <<"ack", request[2]>>
          BY <2>1 DEF LinkInv, AnswersFit, HoldsAnswer
      <4>2. ~Holds(down', <<"ack", gprs_order>>)
          BY <2>3, <4>1 DEF Holds
      <4> QED
          BY <1>1, <4>2 DEF HoldsAnswer, Holds
    <3> QED
        BY <1>2, <1>3, <1>7, <3>1 DEF AnswersFit
  <2> QED
      BY <1>4, <2>4, <2>6, <2>7, <2>8, <2>9 DEF LinkInv
<1>8. CASE ~Numbered /\ ~Page /\ told' = [told EXCEPT ![request[2]] = request[1]] /\ UNCHANGED <<received, down, rx>>
  <2>1. PICK r \in {"done", "failed"}, c \in Command : request = <<r, c>>
    <3>1. request \in Mail /\ request \notin {Alarm, Picture}
        BY <1>8 DEF LinkInv, TypeOK, Numbered, Page, Alarm
    <3> QED
        BY <3>1, MailMembers
  <2>2. told' = [told EXCEPT ![c] = r] /\ Mailed(r, c)
      BY <1>8, <2>1 DEF Mailed
  <2>3. /\ told' \in [Command -> {"nothing", "done", "failed"}] /\ told'[c] = r
        /\ \A d \in Command : d # c => told'[d] = told[d]
      BY <2>2 DEF LinkInv, TypeOK
  <2>4. TypeOK'
      BY <1>1, <1>2, <1>3, <1>8, <2>3 DEF LinkInv, TypeOK
  <2>5. Apart' /\ \A d \in Command : Arriving(d)' => Arriving(d)
    <3>1. Once(down)'
        BY <1>8 DEF LinkInv, Apart, Once
    <3>2. \A d : /\ HoldsCommand(down, d)' <=> HoldsCommand(down, d)
                 /\ HoldsCommand(rx, d)' <=> HoldsCommand(rx, d)
                 /\ ~HoldsCommand(response, d)'
        BY <1>5, <1>8 DEF HoldsCommand, Holds
    <3> QED
        BY <3>1, <3>2 DEF LinkInv, Apart, Arriving
  <2>6. /\ ~Arriving(c) /\ ~Unread(c) /\ c \in sent
        /\ r = "done" => c \in executed \cup altered \cup TooMany
        /\ r = "failed" /\ c \notin spoiled => c \notin executed \cup altered
      BY <2>2 DEF LinkInv, Unknown, Unread, MailedTheTruth
  <2>7. Unknown' /\ HeldOnce' /\ MailedTheTruth'
    <3>1. \A d \in Command : Unread(d) => Unread(d)'
        BY <1>1, <1>3, <2>3, <2>6 DEF Unread
    <3>2. \A d \in frame.held : d \in Command
        BY DEF LinkInv, TypeOK
    <3>3. Unknown'
        BY <1>1, <2>5, <3>1 DEF LinkInv, Unknown
    <3>4. HeldOnce'
        BY <1>1, <2>5, <3>1, <3>2 DEF LinkInv, HeldOnce
    <3>5. MailedTheTruth'
        BY <1>1, <1>3, <2>3, <2>6 DEF LinkInv, MailedTheTruth
    <3> QED
        BY <3>3, <3>4, <3>5
  <2>8. ToldTheTruth'
      BY <1>1, <2>3, <2>6 DEF LinkInv, ToldTheTruth
  <2>9. AnswersOld(down)' /\ AnswersOld(rx)' /\ AnswersOld(response)' /\ AnswersFit'
    <3>1. \A o : /\ HoldsAnswer(down, o)' <=> HoldsAnswer(down, o)
                 /\ HoldsAnswer(rx, o)' <=> HoldsAnswer(rx, o)
                 /\ ~HoldsAnswer(response, o)'
        BY <1>5, <1>8 DEF HoldsAnswer, Holds
    <3> QED
        BY <1>1, <1>8, <3>1 DEF LinkInv, AnswersOld, AnswersFit
  <2> QED
      BY <1>4, <1>6, <1>8, <2>4, <2>5, <2>7, <2>8, <2>9 DEF LinkInv
<1>9. CASE UNCHANGED <<received, told, down, rx>>
  <2>1. TypeOK'
      BY <1>1, <1>2, <1>3, <1>9 DEF LinkInv, TypeOK
  <2> QED
      BY <1>1, <1>2, <1>3, <1>4, <1>9, <2>1, DropsOnly
<1>10. CASE /\ rx' \in {Echoed(x) : x \in Echoes}
            /\ UNCHANGED <<down, received, told>>
  <2>1. PICK x \in Item : rx' \in {rx, Append(rx, x)} /\ x[1] \in {"echo", "noise"}
    <3>1. Numbered \/ Page => request[2] \in Order
        BY <1>2 DEF LinkInv, Turns
    <3>2. \A x \in Echoes : x \in Item /\ x[1] \in {"echo", "noise"}
      <4>1. \A x \in Echoes : x = Noise \/ (x = <<"echo", request[2]>> /\ (Numbered \/ Page))
          BY DEF Echoes
      <4>2. Noise \in Item /\ Noise[1] = "noise"
          BY DEF Item, Noise
      <4>3. \A o \in Order : <<"echo", o>> \in Item /\ <<"echo", o>>[1] = "echo"
          BY DEF Item
      <4> QED
          BY <3>1, <4>1, <4>2, <4>3
    <3>3. PICK x \in Echoes : rx' = Echoed(x)
        BY <1>10
    <3>4. rx' \in {rx, Append(rx, x)}
        BY <3>3 DEF Echoed
    <3> QED
        BY <3>2, <3>4
  <2>2. rx \in Seq(Item)
      BY DEF LinkInv, TypeOK
  <2>3. rx' \in Seq(Item) /\ \A f : Holds(rx', f) => Holds(rx, f) \/ f = x
    <3>1. CASE rx' = Append(rx, x)
        BY <2>2, <3>1, HoldsAppend
    <3>2. CASE rx' = rx
        BY <2>2, <3>2
    <3> QED
        BY <2>1, <3>1, <3>2
  <2>4. TypeOK'
      BY <1>1, <1>2, <1>3, <1>10, <2>3 DEF LinkInv, TypeOK
  <2>5. \A f : /\ Holds(rx, f)' => Holds(rx, f) \/ f = x
               /\ Holds(down, f)' <=> Holds(down, f)
      BY <1>10, <2>3 DEF Holds
  <2>6. \A c : /\ HoldsCommand(down, c)' <=> HoldsCommand(down, c)
               /\ HoldsCommand(rx, c)' => HoldsCommand(rx, c)
               /\ ~HoldsCommand(response, c)'
      BY <1>5, <2>1, <2>5 DEF HoldsCommand
  <2>7. \A o : /\ HoldsAnswer(down, o)' <=> HoldsAnswer(down, o)
               /\ HoldsAnswer(rx, o)' => HoldsAnswer(rx, o)
               /\ ~HoldsAnswer(response, o)'
      BY <1>5, <2>1, <2>5 DEF HoldsAnswer
  <2>8. Apart' /\ \A c \in Command : Arriving(c)' => Arriving(c)
    <3>1. Once(down)'
        BY <1>10 DEF LinkInv, Apart, Once
    <3> QED
        BY <2>6, <3>1 DEF LinkInv, Apart, Arriving
  <2> QED
      BY <1>1, <1>2, <1>3, <1>4, <1>10, <2>4, <2>7, <2>8, MovesOn
<1>11. CASE down' = Append(down, Verdict) /\ UNCHANGED <<received, told, rx>>
  <2>1. down \in Seq(Item) /\ Verdict \in Item /\ Once(down) /\ Verdict[1] = "verdict"
      BY ItemMembers DEF LinkInv, TypeOK, Apart, Verdict
  <2>2. /\ down' \in Seq(Item) /\ Once(down')
        /\ \A f : Holds(down', f) => Holds(down, f) \/ f = Verdict
      BY <1>11, <2>1, OnceAppend, HoldsAppend
  <2>3. TypeOK'
      BY <1>1, <1>2, <1>3, <1>11, <2>2 DEF LinkInv, TypeOK
  <2>4. \A f : (Holds(down, f)' => Holds(down, f) \/ f = Verdict) /\ (Holds(rx, f)' <=> Holds(rx, f))
      BY <1>11, <2>2 DEF Holds
  <2>5. \A c : /\ HoldsCommand(down, c)' => HoldsCommand(down, c)
               /\ HoldsCommand(rx, c)' => HoldsCommand(rx, c)
               /\ ~HoldsCommand(response, c)'
      BY <1>5, <2>4 DEF HoldsCommand, Verdict
  <2>6. \A o : /\ HoldsAnswer(down, o)' => HoldsAnswer(down, o)
               /\ HoldsAnswer(rx, o)' => HoldsAnswer(rx, o)
               /\ ~HoldsAnswer(response, o)'
      BY <1>5, <2>4 DEF HoldsAnswer, Verdict
  <2>7. Apart' /\ \A c \in Command : Arriving(c)' => Arriving(c)
    <3>1. Once(down)'
        BY <2>2 DEF Once
    <3> QED
        BY <2>5, <3>1 DEF LinkInv, Apart, Arriving
  <2>8. HoldsAnswer(rx, gprs_order)' => \/ gprs' = "wait" /\ Numbered'
                                        \/ ~(gprs = "wait" /\ Numbered)
      BY <1>3
  <2> QED
      BY <1>1, <1>3, <1>4, <1>11, <2>3, <2>6, <2>7, <2>8, MovesOn
<1> QED
    BY <1>7, <1>8, <1>9, <1>10, <1>11 DEF WriteFrame

-----------------------------------------------------------------------------
LEMMA StutterKeeps == ASSUME LinkInv, UNCHANGED vars PROVE LinkInv'
<1>1. UNCHANGED <<modem, tcp, rx, down, gsm_mode, gsm, stale, gprs, gprs_order, error_counts, request, outcome,
                  gprs_mq, executed, altered, send_result, response, received, told, sent, frame, spoiled>>
    BY DEF vars, modemVars, gprsVars, mailVars, reportVars, serverVars, frameVars
<1>2. TypeOK' /\ Turns'
    BY <1>1 DEF LinkInv, TypeOK, Turns, HasResponse, Numbered, Page
<1>3. \A r, c : Mailed(r, c)' <=> Mailed(r, c)
    BY <1>1 DEF Mailed, Holds
<1> QED
    BY <1>1, <1>2, <1>3, DropsOnly DEF HasResponse, Numbered, Page

(***************************************************************************)
(* LinkInv holds in every state, whatever closes the connection, loses the *)
(* modem or a frame, delays an answer or reads it with something else      *)
(* (gprs.c, gsm.c).                                                        *)
(***************************************************************************)
THEOREM LinkInvariant == Spec => []LinkInv
<1>1. LinkInv /\ [Next]_vars => LinkInv'
  <2> SUFFICES ASSUME LinkInv, [Next]_vars PROVE LinkInv'
      OBVIOUS
  <2>1. CASE Gprs
      BY <2>1, HeartKeeps, SendFrameKeeps, JudgeKeeps, JudgeNothingKeeps, FailureKeeps, UploadKeeps DEF Gprs
  <2>2. CASE Gsm
      BY <2>2, SwitchModeKeeps, AuthReadKeeps, WriteFrameKeeps, NoResponseKeeps, ReadResponseKeeps,
         IdleReadKeeps, ResetKeeps DEF Gsm
  <2>3. CASE ServerCommand \/ Deliver \/ Close \/ PowerLoss \/ NewAlarm \/ OtherMail
      BY <2>3, ServerCommandKeeps, DeliverKeeps, CloseKeeps, PowerLossKeeps, NewAlarmKeeps, OtherMailKeeps
  <2>4. CASE UNCHANGED vars
      BY <2>4, StutterKeeps
  <2> QED
      BY <2>1, <2>2, <2>3, <2>4 DEF Next
<1> QED
    BY InitKeeps, <1>1, PTL DEF Spec

(* The mail queue of the gprs thread keeps its length, and everything its type. *)
THEOREM LinkTypes == Spec => []TypeOK
<1>1. LinkInv => TypeOK
    BY DEF LinkInv
<1> QED
    BY LinkInvariant, <1>1, PTL

(***************************************************************************)
(* A request that send_gprs_frame and recv_gprs_frame count as answered    *)
(* has reached the server, however few orders there are and however late   *)
(* the answers come.                                                       *)
(***************************************************************************)
THEOREM AnswersBelong == Spec => []AnsweredMeansReceived
<1>1. LinkInv => AnsweredMeansReceived
    BY DEF LinkInv
<1> QED
    BY LinkInvariant, <1>1, PTL

(***************************************************************************)
(* What the server is told of a command by process_gprs_set_... and the    *)
(* acknowledgement after it is the truth: success only if it was carried   *)
(* out, perhaps otherwise than asked, or passed over; failure only if it   *)
(* was not, or if an upload has parsed it again (recv_gprs_frame turns the *)
(* length round in place).                                                 *)
(***************************************************************************)
THEOREM ServerToldTheTruth == Spec => []ToldTheTruth
<1>1. LinkInv => ToldTheTruth
    BY DEF LinkInv
<1> QED
    BY LinkInvariant, <1>1, PTL
=============================================================================
