---------------------------- MODULE MotorProofs ----------------------------
(***************************************************************************)
(* Proofs about Motor, for every number of polls, size of the bursts and   *)
(* travel of the mechanism, and for every set of callers.                  *)
(***************************************************************************)
EXTENDS Motor, TLAPS, FiniteSetTheorems

(* The threads that can call are few. *)
LEMMA CallersFinite == IsFiniteSet(Callers) /\ Cardinality(Callers) \in Nat /\ Cardinality(Callers) >= 1
  <1>1. IsFiniteSet({"gsm", "local", "gprs"})
    <2>1. IsFiniteSet({} \cup {"gsm"})
      BY FS_EmptySet, FS_AddElement
    <2>2. IsFiniteSet(({} \cup {"gsm"}) \cup {"local"})
      BY <2>1, FS_AddElement
    <2>3. IsFiniteSet((({} \cup {"gsm"}) \cup {"local"}) \cup {"gprs"})
      BY <2>2, FS_AddElement
    <2>4. {"gsm", "local", "gprs"} = (({} \cup {"gsm"}) \cup {"local"}) \cup {"gprs"}
      OBVIOUS
    <2> QED BY <2>3, <2>4
  <1>2. Callers \subseteq {"gsm", "local", "gprs"} /\ Callers # {}
    BY CallersAssumption DEF Priority
  <1>3. IsFiniteSet(Callers) /\ Cardinality(Callers) \in Nat
    BY <1>1, <1>2, FS_Subset, FS_CardinalityType
  <1> QED BY <1>2, <1>3, FS_EmptySet

(* The threads at some place of lock_output are counted by a number up to that of all. *)
LEMMA AtFinite ==
    ASSUME NEW m, NEW places
    PROVE  /\ IsFiniteSet(At(m, places))
           /\ Cardinality(At(m, places)) \in Nat
           /\ Cardinality(At(m, places)) <= Cardinality(Callers)
  BY CallersFinite, FS_Subset, FS_CardinalityType DEF At, Enabling

(* One of them fewer. *)
LEMMA OneLess ==
    ASSUME NEW S, IsFiniteSet(S), NEW c \in S
    PROVE  /\ Cardinality(S \ {c}) = Cardinality(S) - 1
           /\ Cardinality(S \ {c}) \in Nat
  BY FS_RemoveElement, FS_CardinalityType

(* Each direction has its motor. *)
LEMMA Motors ==
    /\ \A d \in Direction : /\ MotorOf(d) \in PulseMotor
                            /\ Opposite(d) \in PulseMotor
                            /\ MotorOf(d) # Opposite(d)
                            /\ \A m \in PulseMotor : m = MotorOf(d) \/ m = Opposite(d)
    /\ motor_status \in Direction
  BY DEF MotorOf, Opposite, Direction, PulseMotor, motor_status

(* The initial state. *)
LEMMA InitInv == Init => MotorInv
  <1> SUFFICES ASSUME Init PROVE MotorInv
    OBVIOUS
  <1>1. TypeOK
    <2>1. /\ tim_pulse_counts \in [PulseMotor -> Nat]
          /\ quota \in [PulseMotor -> Nat]
          /\ given \in [PulseMotor -> Nat]
          /\ pos \in 0..Top
          /\ counts \in [Callers -> 0..Loops]
      BY TravelAssumption, BurstAssumption DEF Init
    <2>2. /\ pc \in [Callers -> CallPC]
          /\ direction \in [Callers -> Direction]
      BY DEF Init, CallPC, Direction
    <2>3. /\ adjusting \in [Callers -> BOOLEAN]
          /\ alone \in [Callers -> BOOLEAN]
          /\ running \in BOOLEAN /\ high \in BOOLEAN /\ jammed \in BOOLEAN
      BY Zenon DEF Init
    <2>4. outcome \in Outcome
      BY DEF Init, Outcome, NoOutcome, Direction
    <2>5. /\ CCER \subseteq PulseMotor /\ erased \subseteq PulseMotor
          /\ loaded \in [Callers -> SUBSET PulseMotor]
      BY DEF Init
    <2> QED BY <2>1, <2>2, <2>3, <2>4, <2>5 DEF TypeOK
  <1>2. \A m \in PulseMotor : At(m, Enabling) = {}
    BY DEF Init, At, Enabling
  <1>3. Armed /\ ChannelsPaired /\ AloneUndisturbed /\ SuccessSettled
    BY DEF Init, Armed, ChannelsPaired, AloneUndisturbed, SuccessSettled, NoOutcome, PulseMotor
  <1>4. PulsesCounted
    BY <1>2, CallersFinite, FS_EmptySet DEF Init, PulsesCounted, ExtraPulse
  <1> QED BY <1>1, <1>3, <1>4 DEF MotorInv

-----------------------------------------------------------------------------
(***************************************************************************)
(* A thread moves between two places of lock_output other than those where *)
(* it holds a burst, and leaves timer and mechanism alone.                 *)
(***************************************************************************)
LEMMA PlainMove ==
    ASSUME MotorInv, NEW c \in Callers, NEW place \in CallPC,
           pc[c] \in {"loop", "read"}, place \in {"loop", "set", "final"},
           pc' = [pc EXCEPT ![c] = place],
           UNCHANGED <<timVars, mechVars, direction, obsVars>>
    PROVE  Armed' /\ ChannelsPaired' /\ AloneUndisturbed' /\ SuccessSettled' /\ PulsesCounted'
  <1> USE DEF timVars, mechVars, obsVars
  <1>1. /\ pc'[c] = place
        /\ \A d \in Callers \ {c} : pc'[d] = pc[d]
    BY DEF MotorInv, TypeOK
  <1>2. \A m \in PulseMotor : /\ At(m, Enabling)' = At(m, Enabling)
                             /\ At(m, {"start"})' = At(m, {"start"})
    BY <1>1 DEF At, Enabling
  <1>3. Armed'
    BY <1>2 DEF MotorInv, Armed
  <1>4. ChannelsPaired'
    <2> SUFFICES ASSUME ~running, CCER # {}, CCER # PulseMotor
                 PROVE  \E d \in Callers : pc'[d] \in Storing
      BY DEF ChannelsPaired
    <2>1. PICK d \in Callers : pc[d] \in Storing
      BY DEF MotorInv, ChannelsPaired
    <2> QED BY <1>1, <2>1 DEF Storing
  <1>5. AloneUndisturbed'
    BY <1>1 DEF MotorInv, AloneUndisturbed, Unopposed
  <1>6. SuccessSettled'
    BY <1>1 DEF MotorInv, SuccessSettled, Unopposed, motor_status
  <1>7. PulsesCounted'
    BY <1>2 DEF MotorInv, PulsesCounted, ExtraPulse
  <1> QED BY <1>3, <1>4, <1>5, <1>6, <1>7

(* Polling the pin. *)
LEMMA LoopStep == ASSUME MotorInv, NEW c \in Callers, Loop(c) PROVE MotorInv'
  <1>1. PICK place \in {"set", "final"} : pc' = [pc EXCEPT ![c] = place]
    BY DEF Loop
  <1>2. TypeOK'
    <2>1. pc' \in [Callers -> CallPC]
      BY <1>1 DEF MotorInv, TypeOK, CallPC
    <2>2. counts' \in [Callers -> 0..Loops]
      BY BurstAssumption DEF MotorInv, TypeOK, Loop
    <2> QED BY <2>1, <2>2 DEF MotorInv, TypeOK, Loop, timVars, mechVars, obsVars
  <1>3. Armed' /\ ChannelsPaired' /\ AloneUndisturbed' /\ SuccessSettled' /\ PulsesCounted'
    BY <1>1, PlainMove DEF Loop, CallPC
  <1> QED BY <1>2, <1>3 DEF MotorInv

(* Looking at the pin. *)
LEMMA ReadStatusStep == ASSUME MotorInv, NEW c \in Callers, ReadStatus(c) PROVE MotorInv'
  <1>1. PICK place \in {"set", "loop"} : pc' = [pc EXCEPT ![c] = place]
    BY DEF ReadStatus
  <1>2. TypeOK'
    <2>1. pc' \in [Callers -> CallPC]
      BY <1>1 DEF MotorInv, TypeOK, CallPC
    <2>2. adjusting' \in [Callers -> BOOLEAN]
      BY Zenon DEF MotorInv, TypeOK, ReadStatus
    <2> QED BY <2>1, <2>2 DEF MotorInv, TypeOK, ReadStatus, timVars, mechVars, obsVars
  <1>3. Armed' /\ ChannelsPaired' /\ AloneUndisturbed' /\ SuccessSettled' /\ PulsesCounted'
    BY <1>1, PlainMove DEF ReadStatus, CallPC
  <1> QED BY <1>2, <1>3 DEF MotorInv

(* A thread inside lock_output: nobody else is undisturbed, and no success stands. *)
LEMMA Inside ==
    ASSUME MotorInv, NEW c \in Callers, pc[c] # "idle"
    PROVE  /\ \A d \in Callers \ {c} : alone[d] => pc[d] = "idle"
           /\ ~(outcome.returned /\ outcome.ok /\ outcome.alone)
  BY DEF MotorInv, AloneUndisturbed, SuccessSettled

(* A new burst. *)
LEMMA SetPulseCountsStep == ASSUME MotorInv, NEW c \in Callers, SetPulseCounts(c) PROVE MotorInv'
  <1> DEFINE m == MotorOf(direction[c])
             n == IF adjusting[c] THEN Adjust ELSE Period
  <1>1. /\ m \in PulseMotor /\ direction[c] \in Direction
        /\ n \in Nat /\ n > 0
    BY Motors, BurstAssumption DEF MotorInv, TypeOK
  <1>2. /\ pc[c] = "set" /\ pc' = [pc EXCEPT ![c] = "test"]
        /\ tim_pulse_counts' = [tim_pulse_counts EXCEPT ![m] = n]
        /\ quota' = [quota EXCEPT ![m] = n]
        /\ given' = [given EXCEPT ![m] = 0]
        /\ UNCHANGED <<CCER, running, high, mechVars, direction, counts, adjusting, loaded,
                       erased, alone, outcome>>
    BY DEF SetPulseCounts
  <1> HIDE DEF n
  <1>3. TypeOK'
    <2>1. pc' \in [Callers -> CallPC]
      BY <1>2 DEF MotorInv, TypeOK, CallPC
    <2>2. /\ tim_pulse_counts' \in [PulseMotor -> Nat]
          /\ quota' \in [PulseMotor -> Nat]
          /\ given' \in [PulseMotor -> Nat]
      BY <1>1, <1>2 DEF MotorInv, TypeOK
    <2> QED BY <1>2, <2>1, <2>2 DEF MotorInv, TypeOK, mechVars
  <1>4. /\ pc'[c] = "test"
        /\ \A d \in Callers \ {c} : pc'[d] = pc[d]
    BY <1>2 DEF MotorInv, TypeOK
  <1>5. \A x \in PulseMotor \ {m} : /\ At(x, Enabling)' = At(x, Enabling)
                                   /\ tim_pulse_counts'[x] = tim_pulse_counts[x]
                                   /\ quota'[x] = quota[x] /\ given'[x] = given[x]
    BY <1>2, <1>4 DEF At, Enabling, MotorInv, TypeOK
  <1>6. \A x \in PulseMotor : At(x, {"start"})' = At(x, {"start"})
    BY <1>2, <1>4 DEF At, Enabling
  <1>7. Armed'
    <2>1. c \in At(m, Enabling)'
      BY <1>2, <1>4 DEF At, Enabling
    <2> QED BY <1>2, <1>5, <1>6, <2>1 DEF MotorInv, Armed
  <1>8. ChannelsPaired'
    BY <1>2, <1>4 DEF MotorInv, ChannelsPaired, Storing
  <1>9. AloneUndisturbed'
    <2>1. tim_pulse_counts'[Opposite(direction[c])] = tim_pulse_counts[Opposite(direction[c])]
      BY <1>1, <1>5, Motors
    <2> QED BY <1>2, <1>4, <2>1, Inside DEF MotorInv, AloneUndisturbed, Unopposed
  <1>10. SuccessSettled'
    BY <1>2, Inside DEF SuccessSettled
  <1>11. PulsesCounted'
    <2> SUFFICES ASSUME NEW x \in PulseMotor
                 PROVE  given'[x] + tim_pulse_counts'[x] + ExtraPulse(x)'
                          + Cardinality(At(x, Enabling)')
                            <= quota'[x] + Cardinality(Callers)
      BY DEF PulsesCounted
    <2>1. CASE x = m
      <3>1. given'[x] = 0 /\ tim_pulse_counts'[x] = n /\ quota'[x] = n
        BY <1>1, <1>2, <2>1 DEF MotorInv, TypeOK
      <3>2. ExtraPulse(x)' = 0
        BY <1>1, <3>1 DEF ExtraPulse
      <3>3. /\ Cardinality(At(x, Enabling)') <= Cardinality(Callers)
            /\ Cardinality(At(x, Enabling)') \in Nat
        <4>1. At(x, Enabling)' \subseteq Callers
          BY DEF At, Enabling
        <4> QED BY <4>1, CallersFinite, FS_Subset, FS_CardinalityType
      <3> QED BY <1>1, <3>1, <3>2, <3>3, CallersFinite
    <2>2. CASE x # m
      BY <1>2, <1>5, <2>2 DEF MotorInv, PulsesCounted, ExtraPulse
    <2> QED BY <2>1, <2>2
  <1> QED BY <1>3, <1>7, <1>8, <1>9, <1>10, <1>11 DEF MotorInv

(* The counter is tested: the burst goes on, or was already spent. *)
LEMMA TestPulseCountsStep == ASSUME MotorInv, NEW c \in Callers, TestPulseCounts(c) PROVE MotorInv'
  <1> DEFINE m == MotorOf(direction[c])
             place == IF tim_pulse_counts[m] > 0 THEN "channel" ELSE AfterPulse(c)
  <1>1. m \in PulseMotor /\ direction[c] \in Direction
    BY Motors DEF MotorInv, TypeOK
  <1>2. /\ pc[c] = "test" /\ pc' = [pc EXCEPT ![c] = place]
        /\ UNCHANGED <<timVars, mechVars, direction, counts, adjusting, loaded, obsVars>>
    BY DEF TestPulseCounts
  <1>3. /\ place \in CallPC /\ place \in {"channel", "read", "final"}
        /\ place # "channel" => ~(tim_pulse_counts[m] > 0)
    BY DEF AfterPulse, CallPC
  <1> HIDE DEF place
  <1>4. TypeOK'
    <2>1. pc' \in [Callers -> CallPC]
      BY <1>2, <1>3 DEF MotorInv, TypeOK
    <2> QED BY <1>2, <2>1 DEF MotorInv, TypeOK, timVars, mechVars, obsVars
  <1>5. /\ pc'[c] = place
        /\ \A d \in Callers \ {c} : pc'[d] = pc[d]
    BY <1>2 DEF MotorInv, TypeOK
  <1>6. \A x \in PulseMotor \ {m} : At(x, Enabling)' = At(x, Enabling)
    BY <1>2, <1>5 DEF At, Enabling
  <1>7. \A x \in PulseMotor : At(x, {"start"})' = At(x, {"start"})
    BY <1>2, <1>3, <1>5 DEF At, Enabling
  <1>8. \A x \in PulseMotor : x = m =>
            /\ At(x, Enabling)' \subseteq At(x, Enabling)
            /\ (place = "channel" => At(x, Enabling)' # {})
    BY <1>2, <1>3, <1>5 DEF At, Enabling
  <1>9. Armed'
    <2> SUFFICES ASSUME NEW x \in PulseMotor, tim_pulse_counts[x] > 0
                 PROVE  \/ At(x, Enabling)' # {}
                        \/ x \in CCER \cup erased /\ (running \/ At(x, {"start"})' # {})
      BY <1>2 DEF Armed, timVars, obsVars
    <2>1. CASE x = m
      BY <1>3, <1>8, <2>1
    <2>2. CASE x # m
      BY <1>6, <1>7, <2>2 DEF MotorInv, Armed
    <2> QED BY <2>1, <2>2
  <1>10. ChannelsPaired'
    BY <1>2, <1>5 DEF MotorInv, ChannelsPaired, Storing, timVars
  <1>11. AloneUndisturbed'
    BY <1>2, <1>5, Inside DEF MotorInv, AloneUndisturbed, Unopposed, timVars, obsVars
  <1>12. SuccessSettled'
    BY <1>2, Inside DEF SuccessSettled, obsVars
  <1>13. PulsesCounted'
    <2> SUFFICES ASSUME NEW x \in PulseMotor
                 PROVE  given[x] + tim_pulse_counts[x] + ExtraPulse(x)
                          + Cardinality(At(x, Enabling)')
                            <= quota[x] + Cardinality(Callers)
      BY <1>2 DEF PulsesCounted, ExtraPulse, timVars, obsVars
    <2>1. Cardinality(At(x, Enabling)') \in Nat
          /\ Cardinality(At(x, Enabling)') <= Cardinality(At(x, Enabling))
      <3>1. At(x, Enabling)' \subseteq At(x, Enabling)
        <4>1. CASE x = m
          BY <1>8, <4>1
        <4>2. CASE x # m
          BY <1>6, <4>2
        <4> QED BY <4>1, <4>2
      <3> QED BY <3>1, AtFinite, FS_Subset, FS_CardinalityType
    <2>2. ExtraPulse(x) \in Nat
      BY DEF ExtraPulse
    <2> QED BY <2>1, <2>2, AtFinite, CallersFinite DEF MotorInv, PulsesCounted, TypeOK
  <1> QED BY <1>4, <1>9, <1>10, <1>11, <1>12, <1>13 DEF MotorInv

(* CCER is loaded. *)
LEMMA LoadCCERStep == ASSUME MotorInv, NEW c \in Callers, LoadCCER(c) PROVE MotorInv'
  <1>1. PICK place \in {"clear", "enable"} :
            /\ pc' = [pc EXCEPT ![c] = place]
            /\ pc[c] = IF place = "clear" THEN "channel" ELSE "reload"
    BY DEF LoadCCER
  <1>2. /\ loaded' = [loaded EXCEPT ![c] = CCER]
        /\ UNCHANGED <<timVars, mechVars, direction, counts, adjusting, obsVars>>
    BY DEF LoadCCER
  <1>3. TypeOK'
    <2>1. pc' \in [Callers -> CallPC]
      BY <1>1 DEF MotorInv, TypeOK, CallPC
    <2>2. loaded' \in [Callers -> SUBSET PulseMotor]
      BY <1>2 DEF MotorInv, TypeOK
    <2> QED BY <1>2, <2>1, <2>2 DEF MotorInv, TypeOK, timVars, mechVars, obsVars
  <1>4. /\ pc'[c] = place
        /\ \A d \in Callers \ {c} : pc'[d] = pc[d]
    BY <1>1 DEF MotorInv, TypeOK
  <1>5. \A x \in PulseMotor : /\ At(x, Enabling)' = At(x, Enabling)
                             /\ At(x, {"start"})' = At(x, {"start"})
    BY <1>1, <1>2, <1>4 DEF At, Enabling
  <1>6. Armed' /\ PulsesCounted'
    BY <1>2, <1>5 DEF MotorInv, Armed, PulsesCounted, ExtraPulse, timVars, obsVars
  <1>7. ChannelsPaired'
    <2> SUFFICES ASSUME ~running, CCER # {}, CCER # PulseMotor
                 PROVE  \E d \in Callers : pc'[d] \in Storing
      BY <1>2 DEF ChannelsPaired, timVars
    <2>1. PICK d \in Callers : pc[d] \in Storing
      BY DEF MotorInv, ChannelsPaired
    <2> QED BY <1>1, <1>4, <2>1 DEF Storing
  <1>8. AloneUndisturbed'
    BY <1>1, <1>2, <1>4, Inside DEF MotorInv, AloneUndisturbed, Unopposed, timVars, obsVars
  <1>9. SuccessSettled'
    BY <1>1, <1>2, Inside DEF SuccessSettled, obsVars
  <1> QED BY <1>3, <1>6, <1>7, <1>8, <1>9 DEF MotorInv

(***************************************************************************)
(* CCER is stored, with the other motor's bit as it was loaded: that motor *)
(* is erased, keeps its channel, or begins a burst of one pulse.           *)
(***************************************************************************)
LEMMA StoreStep ==
    ASSUME MotorInv, NEW c \in Callers, NEW value, NEW place, StoreCCER(c, value),
           pc' = [pc EXCEPT ![c] = place],
           \/ /\ pc[c] = "clear" /\ place = "reload"
              /\ value = loaded[c] \ {MotorOf(direction[c])}
           \/ /\ pc[c] = "enable" /\ place = "start"
              /\ value = loaded[c] \cup {MotorOf(direction[c])}
    PROVE  MotorInv'
  <1> DEFINE m == MotorOf(direction[c])
             stray == {x \in Revived(c) : tim_pulse_counts[x] = 0}
  <1>1. /\ m \in PulseMotor /\ direction[c] \in Direction
        /\ loaded[c] \subseteq PulseMotor
    BY Motors DEF MotorInv, TypeOK
  <1>2. /\ CCER' = value
        /\ erased' = (erased \cup CCER) \ (loaded[c] \cup {m})
        /\ quota' = [x \in PulseMotor |-> IF x \in stray THEN 1 ELSE quota[x]]
        /\ given' = [x \in PulseMotor |-> IF x \in stray THEN 0 ELSE given[x]]
        /\ loaded' = [loaded EXCEPT ![c] = {}]
        /\ UNCHANGED <<tim_pulse_counts, running, high, mechVars, direction, counts, adjusting,
                       alone, outcome>>
    BY DEF StoreCCER
  <1>3. \A x : x \in stray <=> x \in loaded[c] /\ x \notin CCER /\ x # m /\ tim_pulse_counts[x] = 0
    BY DEF Revived
  <1> HIDE DEF stray
  <1>4. TypeOK'
    <2>1. pc' \in [Callers -> CallPC]
      BY DEF MotorInv, TypeOK, CallPC
    <2>2. /\ CCER' \subseteq PulseMotor /\ erased' \subseteq PulseMotor
          /\ loaded' \in [Callers -> SUBSET PulseMotor]
      BY <1>1, <1>2 DEF MotorInv, TypeOK
    <2>3. quota' \in [PulseMotor -> Nat] /\ given' \in [PulseMotor -> Nat]
      BY <1>2 DEF MotorInv, TypeOK
    <2> QED BY <1>2, <2>1, <2>2, <2>3 DEF MotorInv, TypeOK, mechVars
  <1>5. /\ pc'[c] = place
        /\ \A d \in Callers \ {c} : pc'[d] = pc[d]
    BY DEF MotorInv, TypeOK
  <1>6. \A x \in PulseMotor : x # m => /\ At(x, Enabling)' = At(x, Enabling)
                                      /\ At(x, {"start"})' = At(x, {"start"})
                                      /\ (x \in CCER' <=> x \in loaded[c])
    BY <1>2, <1>5 DEF At, Enabling
  <1>7. \A x \in PulseMotor : x = m /\ place = "reload" =>
            /\ At(x, Enabling)' = At(x, Enabling)
            /\ c \in At(x, Enabling)'
            /\ x \notin CCER'
    BY <1>2, <1>5 DEF At, Enabling
  <1>8. \A x \in PulseMotor : x = m /\ place = "start" =>
            /\ At(x, Enabling)' = At(x, Enabling) \ {c}
            /\ c \in At(x, Enabling)
            /\ c \in At(x, {"start"})'
            /\ x \in CCER'
    BY <1>2, <1>5 DEF At, Enabling
  <1>9. Armed'
    <2> SUFFICES ASSUME NEW x \in PulseMotor, tim_pulse_counts[x] > 0
                 PROVE  \/ At(x, Enabling)' # {}
                        \/ x \in CCER' \cup erased' /\ (running \/ At(x, {"start"})' # {})
      BY <1>2 DEF Armed
    <2>1. CASE x = m
      BY <1>7, <1>8, <2>1
    <2>2. CASE x # m
      <3>1. x \in CCER \cup erased => x \in CCER' \cup erased'
        BY <1>2, <1>6, <2>2
      <3> QED BY <1>6, <2>2, <3>1 DEF MotorInv, Armed
    <2> QED BY <2>1, <2>2
  <1>10. ChannelsPaired'
    BY <1>5 DEF ChannelsPaired, Storing
  <1>11. AloneUndisturbed'
    <2> SUFFICES ASSUME NEW x \in Callers, alone[x], pc'[x] # "idle"
                 PROVE  /\ tim_pulse_counts[Opposite(direction[x])] = 0
                        /\ \/ pc'[x] \in {"reload", "enable"}
                           \/ /\ tim_pulse_counts[Opposite(direction[x])] = 0
                              /\ Opposite(direction[x]) \in CCER' => MotorOf(direction[x]) \in CCER'
                        /\ \A d \in Callers \ {x} : pc'[d] = "idle"
      BY <1>2 DEF AloneUndisturbed, Unopposed
    <2>1. pc[c] # "idle"
      OBVIOUS
    <2>2. x = c
      BY <1>5, <2>1, Inside
    <2>3. /\ tim_pulse_counts[Opposite(direction[c])] = 0
          /\ \A d \in Callers \ {c} : pc[d] = "idle"
      BY <2>1, <2>2 DEF MotorInv, AloneUndisturbed
    <2> QED BY <1>1, <1>5, <1>8, <2>2, <2>3
  <1>12. SuccessSettled'
    BY <1>2, Inside DEF SuccessSettled
  <1>13. PulsesCounted'
    <2> SUFFICES ASSUME NEW x \in PulseMotor
                 PROVE  given'[x] + tim_pulse_counts[x] + ExtraPulse(x)' + Cardinality(At(x, Enabling)')
                            <= quota'[x] + Cardinality(Callers)
      BY <1>2 DEF PulsesCounted
    <2>1. /\ given[x] \in Nat /\ tim_pulse_counts[x] \in Nat /\ quota[x] \in Nat
          /\ ExtraPulse(x) \in {0, 1} /\ ExtraPulse(x)' \in {0, 1}
          /\ Cardinality(At(x, Enabling)) \in Nat /\ Cardinality(Callers) \in Nat
          /\ Cardinality(At(x, Enabling)) <= Cardinality(Callers)
          /\ given[x] + tim_pulse_counts[x] + ExtraPulse(x) + Cardinality(At(x, Enabling))
               <= quota[x] + Cardinality(Callers)
      BY AtFinite, CallersFinite DEF MotorInv, TypeOK, PulsesCounted, ExtraPulse
    <2>2. CASE x \in stray
      <3>1. /\ given'[x] = 0 /\ quota'[x] = 1 /\ tim_pulse_counts[x] = 0
            /\ At(x, Enabling)' = At(x, Enabling)
        BY <1>2, <1>3, <1>6, <2>2
      <3> QED BY <2>1, <3>1
    <2>3. CASE x # m /\ x \notin stray
      <3>1. /\ given'[x] = given[x] /\ quota'[x] = quota[x]
            /\ At(x, Enabling)' = At(x, Enabling)
        BY <1>2, <1>6, <2>3
      <3>2. x \in CCER' /\ tim_pulse_counts[x] = 0 => x \in CCER
        BY <1>3, <1>6, <2>3
      <3>3. ExtraPulse(x)' <= ExtraPulse(x)
        BY <1>2, <3>2 DEF ExtraPulse
      <3> QED BY <2>1, <3>1, <3>3
    <2>4. CASE x = m
      <3>1. given'[x] = given[x] /\ quota'[x] = quota[x]
        BY <1>2, <1>3, <2>4
      <3>2. CASE place = "reload"
        <4>1. ExtraPulse(x)' = 0 /\ At(x, Enabling)' = At(x, Enabling)
          BY <1>7, <2>4, <3>2 DEF ExtraPulse
        <4> QED BY <2>1, <3>1, <4>1
      <3>3. CASE place = "start"
        <4>1. /\ Cardinality(At(x, Enabling)') = Cardinality(At(x, Enabling)) - 1
              /\ Cardinality(At(x, Enabling)') \in Nat
          BY <1>8, <2>4, <3>3, OneLess, AtFinite
        <4> QED BY <2>1, <3>1, <4>1
      <3> QED BY <3>2, <3>3
    <2> QED BY <1>3, <2>2, <2>3, <2>4
  <1> QED BY <1>4, <1>9, <1>10, <1>11, <1>12, <1>13 DEF MotorInv

(* The motor's bit is cleared, and then set. *)
LEMMA ClearChannelStep == ASSUME MotorInv, NEW c \in Callers, ClearChannel(c) PROVE MotorInv'
  BY StoreStep DEF ClearChannel

LEMMA EnableChannelStep == ASSUME MotorInv, NEW c \in Callers, EnableChannel(c) PROVE MotorInv'
  BY StoreStep DEF EnableChannel

(* The timer is started. *)
LEMMA StartTimerStep == ASSUME MotorInv, NEW c \in Callers, StartTimer(c) PROVE MotorInv'
  <1> DEFINE place == AfterPulse(c)
  <1>1. /\ pc[c] = "start" /\ pc' = [pc EXCEPT ![c] = place]
        /\ running' = TRUE
        /\ UNCHANGED <<tim_pulse_counts, CCER, high, mechVars, direction, counts, adjusting, loaded, obsVars>>
    BY DEF StartTimer
  <1>2. place \in CallPC /\ place \in {"read", "final"}
    BY DEF AfterPulse, CallPC
  <1> HIDE DEF place
  <1>3. TypeOK'
    <2>1. pc' \in [Callers -> CallPC]
      BY <1>1, <1>2 DEF MotorInv, TypeOK
    <2> QED BY <1>1, <2>1 DEF MotorInv, TypeOK, mechVars, obsVars
  <1>4. /\ pc'[c] = place
        /\ \A d \in Callers \ {c} : pc'[d] = pc[d]
    BY <1>1 DEF MotorInv, TypeOK
  <1>5. \A x \in PulseMotor : At(x, Enabling)' = At(x, Enabling)
    BY <1>1, <1>2, <1>4 DEF At, Enabling
  <1>6. Armed' /\ ChannelsPaired'
    BY <1>1, <1>5 DEF MotorInv, Armed, ChannelsPaired, obsVars
  <1>7. AloneUndisturbed'
    BY <1>1, <1>4, Inside DEF MotorInv, AloneUndisturbed, Unopposed, obsVars
  <1>8. SuccessSettled'
    BY <1>1, Inside DEF SuccessSettled, obsVars
  <1>9. PulsesCounted'
    BY <1>1, <1>5 DEF MotorInv, PulsesCounted, ExtraPulse, obsVars
  <1> QED BY <1>3, <1>6, <1>7, <1>8, <1>9 DEF MotorInv

(* The call returns. *)
LEMMA JudgeStatusStep == ASSUME MotorInv, NEW c \in Callers, JudgeStatus(c) PROVE MotorInv'
  <1>1. /\ pc[c] = "final" /\ pc' = [pc EXCEPT ![c] = "idle"]
        /\ outcome' = [returned |-> TRUE, direction |-> direction[c],
                       ok |-> motor_status = direction[c], alone |-> alone[c]]
        /\ direction' = [direction EXCEPT ![c] = "unlock"]
        /\ counts' = [counts EXCEPT ![c] = 0]
        /\ adjusting' = [adjusting EXCEPT ![c] = FALSE]
        /\ alone' = [alone EXCEPT ![c] = FALSE]
        /\ UNCHANGED <<timVars, mechVars, loaded, quota, given, erased>>
    BY DEF JudgeStatus, Return
  <1>2. TypeOK'
    <2>1. pc' \in [Callers -> CallPC] /\ direction' \in [Callers -> Direction]
      BY <1>1 DEF MotorInv, TypeOK, CallPC, Direction
    <2>2. outcome' \in Outcome
      <3>1. direction[c] \in Direction /\ alone[c] \in BOOLEAN
        BY DEF MotorInv, TypeOK
      <3> QED BY <1>1, <3>1 DEF Outcome
    <2>3. counts' \in [Callers -> 0..Loops]
      BY <1>1, BurstAssumption DEF MotorInv, TypeOK
    <2>4. adjusting' \in [Callers -> BOOLEAN] /\ alone' \in [Callers -> BOOLEAN]
      BY <1>1, Zenon DEF MotorInv, TypeOK
    <2> QED BY <1>1, <2>1, <2>2, <2>3, <2>4 DEF MotorInv, TypeOK, timVars, mechVars
  <1>3. /\ pc'[c] = "idle"
        /\ \A d \in Callers \ {c} : pc'[d] = pc[d] /\ direction'[d] = direction[d]
    BY <1>1 DEF MotorInv, TypeOK
  <1>4. \A x \in PulseMotor : /\ At(x, Enabling)' = At(x, Enabling)
                             /\ At(x, {"start"})' = At(x, {"start"})
    BY <1>1, <1>3 DEF At, Enabling
  <1>5. Armed' /\ PulsesCounted'
    BY <1>1, <1>4 DEF MotorInv, Armed, PulsesCounted, ExtraPulse, timVars
  <1>6. ChannelsPaired'
    BY <1>1, <1>3 DEF MotorInv, ChannelsPaired, Storing, timVars
  <1>7. AloneUndisturbed'
    <2>1. \A x \in Callers : alone'[x] /\ pc'[x] # "idle" => x # c /\ alone[x]
      BY <1>1, <1>3 DEF MotorInv, TypeOK
    <2> QED BY <1>1, <1>3, <2>1, Inside DEF AloneUndisturbed
  <1>8. SuccessSettled'
    <2> SUFFICES ASSUME motor_status = direction[c], alone[c]
                 PROVE  /\ Unopposed(direction[c])
                        /\ \A d \in Callers : pc'[d] = "idle"
      BY <1>1 DEF SuccessSettled, Unopposed, motor_status, timVars, mechVars
    <2> QED BY <1>1, <1>3 DEF MotorInv, AloneUndisturbed
  <1> QED BY <1>2, <1>5, <1>6, <1>7, <1>8 DEF MotorInv

(* At rest no pulses are left, and the channels of both motors agree. *)
LEMMA RestUnopposed == ASSUME MotorInv, AtRest, NEW d \in Direction PROVE Unopposed(d)
  <1>1. \A m \in PulseMotor : tim_pulse_counts[m] = 0
    <2>1. \A m \in PulseMotor : At(m, Enabling) = {} /\ At(m, {"start"}) = {}
      BY DEF AtRest, At, Enabling
    <2>2. \A m \in PulseMotor : ~(tim_pulse_counts[m] > 0) /\ tim_pulse_counts[m] \in Nat
      BY <2>1 DEF MotorInv, Armed, AtRest, TypeOK
    <2> QED BY <2>2
  <1>2. CCER = {} \/ CCER = PulseMotor
    BY DEF MotorInv, ChannelsPaired, AtRest, Storing
  <1>3. Opposite(d) \in CCER => MotorOf(d) \in CCER
    BY <1>2, Motors
  <1> QED BY <1>1, <1>3, Motors DEF Unopposed

(* A call begins. *)
LEMMA LockOutputStep ==
    ASSUME MotorInv, NEW c \in Callers, NEW d \in Direction, lock_output(c, d)
    PROVE  MotorInv'
  <1>1. /\ pc[c] = "idle"
        /\ UNCHANGED <<timVars, mechVars, adjusting, loaded, quota, given, erased>>
    BY DEF lock_output
  <1>2. \/ /\ motor_status = d
           /\ outcome' = [returned |-> TRUE, direction |-> d, ok |-> TRUE, alone |-> AtRest]
           /\ alone' = [x \in Callers |-> FALSE]
           /\ UNCHANGED <<pc, direction, counts>>
        \/ /\ outcome' = NoOutcome
           /\ alone' = [x \in Callers |-> x = c /\ AtRest]
           /\ pc' = [pc EXCEPT ![c] = "loop"]
           /\ direction' = [direction EXCEPT ![c] = d]
           /\ counts' = [counts EXCEPT ![c] = Loops]
    BY DEF lock_output
  <1>3. AtRest \in BOOLEAN
    BY DEF AtRest, MotorInv, TypeOK
  <1>4. TypeOK'
    <2>1. pc' \in [Callers -> CallPC] /\ direction' \in [Callers -> Direction]
      BY <1>1, <1>2 DEF MotorInv, TypeOK, CallPC
    <2>2. counts' \in [Callers -> 0..Loops]
      BY <1>2, BurstAssumption DEF MotorInv, TypeOK
    <2>3. alone' \in [Callers -> BOOLEAN]
      BY <1>2, <1>3, Zenon
    <2>4. outcome' \in Outcome
      <3>1. \A b \in BOOLEAN : [returned |-> TRUE, direction |-> d, ok |-> TRUE, alone |-> b] \in Outcome
        BY DEF Outcome
      <3>2. NoOutcome \in Outcome
        BY DEF Outcome, NoOutcome, Direction
      <3> HIDE DEF AtRest
      <3> QED BY <1>2, <1>3, <3>1, <3>2
    <2> QED BY <1>1, <2>1, <2>2, <2>3, <2>4 DEF MotorInv, TypeOK, timVars, mechVars
  <1>5. /\ pc'[c] \in {"idle", "loop"}
        /\ pc'[c] = "loop" => direction'[c] = d
        /\ \A x \in Callers \ {c} : pc'[x] = pc[x] /\ direction'[x] = direction[x]
    BY <1>1, <1>2 DEF MotorInv, TypeOK
  <1>6. \A m \in PulseMotor : /\ At(m, Enabling)' = At(m, Enabling)
                             /\ At(m, {"start"})' = At(m, {"start"})
    BY <1>1, <1>5 DEF At, Enabling
  <1>7. Armed' /\ PulsesCounted'
    BY <1>1, <1>6 DEF MotorInv, Armed, PulsesCounted, ExtraPulse, timVars
  <1>8. ChannelsPaired'
    BY <1>1, <1>5 DEF MotorInv, ChannelsPaired, Storing, timVars
  <1>9. AloneUndisturbed'
    <2> SUFFICES ASSUME NEW x \in Callers, alone'[x], pc'[x] # "idle"
                 PROVE  /\ Unopposed(direction'[x])
                        /\ \A y \in Callers \ {x} : pc'[y] = "idle"
      BY <1>1 DEF AloneUndisturbed, Unopposed, timVars
    <2>1. x = c /\ AtRest
      BY <1>2
    <2>2. direction'[x] = d
      BY <1>5, <2>1
    <2>3. Unopposed(d)
      BY <2>1, RestUnopposed
    <2> QED BY <1>5, <2>1, <2>2, <2>3 DEF AtRest
  <1>10. SuccessSettled'
    <2>1. CASE motor_status = d /\ pc' = pc
               /\ outcome' = [returned |-> TRUE, direction |-> d, ok |-> TRUE, alone |-> AtRest]
      <3>1. AtRest => Unopposed(d)
        BY RestUnopposed
      <3> QED BY <1>1, <2>1, <3>1 DEF SuccessSettled, Unopposed, motor_status, AtRest, timVars, mechVars
    <2>2. CASE outcome' = NoOutcome
      BY <2>2 DEF SuccessSettled, NoOutcome
    <2> QED BY <1>2, <2>1, <2>2
  <1> QED BY <1>4, <1>7, <1>8, <1>9, <1>10 DEF MotorInv

-----------------------------------------------------------------------------
(* A direction without opposing pulses is kept by a compare match. *)
LEMMA MatchKeepsStatus ==
    ASSUME MotorInv, TIM8_CC_IRQHandler, NEW d \in Direction, Unopposed(d), motor_status = d
    PROVE  motor_status' = d
  <1>1. /\ pos \in 0..Top /\ Top \in Nat /\ Switch \in 1..Top
        /\ Pulse("a") \in {0, 1} /\ Pulse("b") \in {0, 1}
    BY TravelAssumption DEF MotorInv, TypeOK, Pulse
  <1>2. pos' = pos \/ pos' = Clamp(pos + Pulse("a") - Pulse("b"))
    BY DEF TIM8_CC_IRQHandler
  <1>3. CASE d = "lock"
    <2>1. Pulse("a") >= Pulse("b")
      BY <1>3 DEF Unopposed, Opposite, MotorOf, Pulse
    <2>2. pos >= Switch
      BY <1>3 DEF motor_status
    <2>3. pos' >= Switch
      BY <1>1, <1>2, <2>1, <2>2 DEF Clamp
    <2> QED BY <1>3, <2>3 DEF motor_status
  <1>4. CASE d = "unlock"
    <2>1. Pulse("b") >= Pulse("a")
      BY <1>4 DEF Unopposed, Opposite, MotorOf, Pulse
    <2>2. ~(pos >= Switch)
      BY <1>4 DEF motor_status
    <2>3. ~(pos' >= Switch)
      BY <1>1, <1>2, <2>1, <2>2 DEF Clamp
    <2> QED BY <1>4, <2>3 DEF motor_status
  <1> QED BY <1>3, <1>4 DEF Direction

(* Compare match. *)
LEMMA MatchStep == ASSUME MotorInv, TIM8_CC_IRQHandler PROVE MotorInv'
  <1>1. /\ running /\ ~high /\ high' = TRUE
        /\ given' = [m \in PulseMotor |-> given[m] + Pulse(m)]
        /\ tim_pulse_counts' = [m \in PulseMotor |->
               IF tim_pulse_counts[m] > 0 THEN tim_pulse_counts[m] - 1 ELSE 0]
        /\ UNCHANGED <<CCER, running, jammed, pc, direction, counts, adjusting, loaded,
                       quota, erased, alone, outcome>>
    BY DEF TIM8_CC_IRQHandler, callVars
  <1>2. \A m \in PulseMotor : /\ Pulse(m) \in Nat
                             /\ tim_pulse_counts[m] \in Nat /\ given[m] \in Nat /\ quota[m] \in Nat
                             /\ given'[m] = given[m] + Pulse(m)
                             /\ (tim_pulse_counts[m] > 0 => tim_pulse_counts'[m] = tim_pulse_counts[m] - 1)
                             /\ (tim_pulse_counts[m] = 0 => tim_pulse_counts'[m] = 0)
    BY <1>1 DEF MotorInv, TypeOK, Pulse
  <1>3. TypeOK'
    <2>1. /\ tim_pulse_counts' \in [PulseMotor -> Nat]
          /\ given' \in [PulseMotor -> Nat]
      BY <1>1, <1>2
    <2>2. pos' \in 0..Top
      <3>1. pos \in 0..Top /\ Top \in Nat /\ Pulse("a") \in {0, 1} /\ Pulse("b") \in {0, 1}
        BY TravelAssumption DEF MotorInv, TypeOK, Pulse
      <3>2. pos' = pos \/ pos' = Clamp(pos + Pulse("a") - Pulse("b"))
        BY DEF TIM8_CC_IRQHandler
      <3> QED BY <3>1, <3>2 DEF Clamp
    <2> QED BY <1>1, <2>1, <2>2 DEF MotorInv, TypeOK
  <1>4. \A m : /\ At(m, Enabling)' = At(m, Enabling)
              /\ At(m, {"start"})' = At(m, {"start"})
    BY <1>1 DEF At, Enabling
  <1>5. Armed'
    BY <1>1, <1>2, <1>4 DEF MotorInv, Armed
  <1>6. ChannelsPaired'
    BY <1>1 DEF ChannelsPaired
  <1>7. \A d \in Direction : Unopposed(d) => tim_pulse_counts'[Opposite(d)] = 0 /\ Unopposed(d)'
    BY <1>1, <1>2, Motors DEF Unopposed
  <1>8. AloneUndisturbed'
    <2> SUFFICES ASSUME NEW c \in Callers, alone[c], pc[c] # "idle"
                 PROVE  /\ tim_pulse_counts'[Opposite(direction[c])] = 0
                        /\ \/ pc[c] \in {"reload", "enable"}
                           \/ Opposite(direction[c]) \in CCER => MotorOf(direction[c]) \in CCER
                        /\ \A x \in Callers \ {c} : pc[x] = "idle"
      BY <1>1 DEF AloneUndisturbed, Unopposed
    <2>1. direction[c] \in Direction
      BY DEF MotorInv, TypeOK
    <2>2. /\ tim_pulse_counts[Opposite(direction[c])] = 0
          /\ pc[c] \in {"reload", "enable"} \/ Unopposed(direction[c])
          /\ \A x \in Callers \ {c} : pc[x] = "idle"
      BY DEF MotorInv, AloneUndisturbed
    <2>3. tim_pulse_counts'[Opposite(direction[c])] = 0
      BY <1>2, <2>1, <2>2, Motors
    <2> QED BY <2>2, <2>3 DEF Unopposed
  <1>9. SuccessSettled'
    <2> SUFFICES ASSUME outcome.returned, outcome.ok, outcome.alone
                 PROVE  /\ Unopposed(outcome.direction)'
                        /\ motor_status' = outcome.direction
                        /\ \A x \in Callers : pc[x] = "idle"
      BY <1>1 DEF SuccessSettled
    <2>1. outcome.direction \in Direction
      BY DEF MotorInv, TypeOK, Outcome
    <2>2. /\ Unopposed(outcome.direction)
          /\ motor_status = outcome.direction
          /\ \A x \in Callers : pc[x] = "idle"
      BY DEF MotorInv, SuccessSettled
    <2>3. motor_status' = outcome.direction
      BY <2>1, <2>2, MatchKeepsStatus
    <2>4. Unopposed(outcome.direction)'
      BY <1>1, <1>7, <2>1, <2>2 DEF Unopposed
    <2> QED BY <2>2, <2>3, <2>4
  <1>10. PulsesCounted'
    <2> SUFFICES ASSUME NEW m \in PulseMotor
                 PROVE  given'[m] + tim_pulse_counts'[m] + ExtraPulse(m)'
                          + Cardinality(At(m, Enabling))
                            <= quota[m] + Cardinality(Callers)
      BY <1>1, <1>4 DEF PulsesCounted
    <2>1. given[m] + tim_pulse_counts[m] + ExtraPulse(m) + Cardinality(At(m, Enabling))
            <= quota[m] + Cardinality(Callers)
      BY DEF MotorInv, PulsesCounted
    <2>2. ExtraPulse(m)' = 0
      BY <1>1 DEF ExtraPulse
    <2>3. Cardinality(At(m, Enabling)) \in Nat /\ Cardinality(Callers) \in Nat
      BY AtFinite, CallersFinite
    <2>4. CASE tim_pulse_counts[m] > 0
      <3>1. ExtraPulse(m) = 0 /\ Pulse(m) <= 1
        BY <1>2, <2>4 DEF ExtraPulse, Pulse
      <3> QED BY <1>2, <2>1, <2>2, <2>3, <2>4, <3>1
    <2>5. CASE tim_pulse_counts[m] = 0
      <3>1. ExtraPulse(m) = Pulse(m)
        BY <1>1, <2>5 DEF ExtraPulse, Pulse
      <3> QED BY <1>2, <2>1, <2>2, <2>3, <2>5, <3>1
    <2> QED BY <1>2, <2>4, <2>5
  <1> QED BY <1>3, <1>5, <1>6, <1>8, <1>9, <1>10 DEF MotorInv

(* Overflow. *)
LEMMA OverflowStep == ASSUME MotorInv, TIM8_UP_IRQHandler PROVE MotorInv'
  <1>1. /\ running /\ high /\ high' = FALSE
        /\ CCER' = {m \in CCER : tim_pulse_counts[m] > 0}
        /\ running' = (\E m \in PulseMotor : tim_pulse_counts[m] > 0)
        /\ UNCHANGED <<tim_pulse_counts, pos, jammed, pc, direction, counts, adjusting,
                       loaded, quota, given, erased, alone, outcome>>
    BY DEF TIM8_UP_IRQHandler, mechVars, callVars, obsVars
  <1>2. \A m \in PulseMotor : m \in CCER' <=> (m \in CCER /\ tim_pulse_counts[m] > 0)
    BY <1>1
  <1>3. TypeOK'
    <2>1. running' \in BOOLEAN /\ high' \in BOOLEAN
      BY <1>1, Zenon
    <2>2. CCER' \subseteq PulseMotor
      BY <1>1 DEF MotorInv, TypeOK
    <2> QED BY <1>1, <2>1, <2>2 DEF MotorInv, TypeOK
  <1>4. \A m : /\ At(m, Enabling)' = At(m, Enabling)
              /\ At(m, {"start"})' = At(m, {"start"})
    BY <1>1 DEF At, Enabling
  <1>5. Armed'
    BY <1>1, <1>2, <1>4 DEF MotorInv, Armed
  <1>6. ChannelsPaired'
    BY <1>1 DEF MotorInv, TypeOK, ChannelsPaired
  <1>7. \A d \in Direction : tim_pulse_counts[Opposite(d)] = 0 => Opposite(d) \notin CCER'
    BY <1>2, Motors
  <1>8. AloneUndisturbed'
    <2> SUFFICES ASSUME NEW c \in Callers, alone[c], pc[c] # "idle"
                 PROVE  /\ tim_pulse_counts[Opposite(direction[c])] = 0
                        /\ Opposite(direction[c]) \notin CCER'
                        /\ \A x \in Callers \ {c} : pc[x] = "idle"
      BY <1>1 DEF AloneUndisturbed, Unopposed
    <2>1. direction[c] \in Direction
      BY DEF MotorInv, TypeOK
    <2>2. /\ tim_pulse_counts[Opposite(direction[c])] = 0
          /\ \A x \in Callers \ {c} : pc[x] = "idle"
      BY DEF MotorInv, AloneUndisturbed
    <2> QED BY <1>7, <2>1, <2>2
  <1>9. SuccessSettled'
    <2> SUFFICES ASSUME outcome.returned, outcome.ok, outcome.alone
                 PROVE  /\ tim_pulse_counts[Opposite(outcome.direction)] = 0
                        /\ Opposite(outcome.direction) \notin CCER'
                        /\ motor_status = outcome.direction
                        /\ \A x \in Callers : pc[x] = "idle"
      BY <1>1 DEF SuccessSettled, Unopposed, motor_status
    <2>1. outcome.direction \in Direction
      BY DEF MotorInv, TypeOK, Outcome
    <2> QED BY <1>7, <2>1 DEF MotorInv, SuccessSettled, Unopposed
  <1>10. PulsesCounted'
    <2> SUFFICES ASSUME NEW m \in PulseMotor
                 PROVE  given[m] + tim_pulse_counts[m] + ExtraPulse(m)'
                          + Cardinality(At(m, Enabling))
                            <= quota[m] + Cardinality(Callers)
      BY <1>1, <1>4 DEF PulsesCounted
    <2>1. ExtraPulse(m)' = 0 /\ ExtraPulse(m) \in {0, 1}
      <3>1. ~(m \in CCER' /\ tim_pulse_counts'[m] = 0)
        BY <1>1, <1>2
      <3> QED BY <3>1 DEF ExtraPulse
    <2>2. Cardinality(At(m, Enabling)) \in Nat /\ Cardinality(Callers) \in Nat
      BY AtFinite, CallersFinite
    <2> QED BY <2>1, <2>2 DEF MotorInv, PulsesCounted, TypeOK
  <1> QED BY <1>3, <1>5, <1>6, <1>8, <1>9, <1>10 DEF MotorInv

(* The mechanism gets stuck or free. *)
LEMMA JamStep == ASSUME MotorInv, Jam PROVE MotorInv'
  <1>1. jammed' = ~jammed /\ UNCHANGED <<timVars, pos, callVars, obsVars>>
    BY DEF Jam
  <1> USE <1>1 DEF timVars, callVars, obsVars
  <1>2. TypeOK'
    BY DEF MotorInv, TypeOK
  <1>3. \A m : /\ At(m, Enabling)' = At(m, Enabling)
              /\ At(m, {"start"})' = At(m, {"start"})
    BY DEF At, Enabling
  <1>4. Armed' /\ PulsesCounted'
    BY <1>3 DEF MotorInv, Armed, PulsesCounted, ExtraPulse
  <1>5. ChannelsPaired' /\ AloneUndisturbed' /\ SuccessSettled'
    BY DEF MotorInv, ChannelsPaired, AloneUndisturbed, SuccessSettled, Unopposed, motor_status
  <1> QED BY <1>2, <1>4, <1>5 DEF MotorInv

(* Nothing moves. *)
LEMMA StutterStep == ASSUME MotorInv, UNCHANGED vars PROVE MotorInv'
  <1> USE DEF vars, timVars, mechVars, callVars, obsVars
  <1>1. TypeOK'
    BY DEF MotorInv, TypeOK
  <1>2. \A m : /\ At(m, Enabling)' = At(m, Enabling)
              /\ At(m, {"start"})' = At(m, {"start"})
    BY DEF At, Enabling
  <1>3. Armed' /\ PulsesCounted'
    BY <1>2 DEF MotorInv, Armed, PulsesCounted, ExtraPulse
  <1>4. ChannelsPaired' /\ AloneUndisturbed' /\ SuccessSettled'
    BY DEF MotorInv, ChannelsPaired, AloneUndisturbed, SuccessSettled, Unopposed, motor_status
  <1> QED BY <1>1, <1>3, <1>4 DEF MotorInv

-----------------------------------------------------------------------------
(***************************************************************************)
(* The invariant of motor, timer and callers holds in every reachable      *)
(* state, whatever the interrupt handlers and threads interleave.          *)
(***************************************************************************)
THEOREM MotorInvariant == Spec => []MotorInv
  <1>1. ASSUME MotorInv, [Next]_vars PROVE MotorInv'
    <2>1. CASE \E c \in Callers : CallStep(c)
      <3>1. PICK c \in Callers : CallStep(c)
        BY <2>1
      <3> QED BY <1>1, <3>1, LoopStep, SetPulseCountsStep, TestPulseCountsStep, LoadCCERStep,
                 ClearChannelStep, EnableChannelStep, StartTimerStep, ReadStatusStep, JudgeStatusStep DEF CallStep
    <2>2. CASE \E c \in Callers : \E d \in Direction : lock_output(c, d)
      BY <1>1, <2>2, LockOutputStep
    <2>3. CASE TimerStep
      BY <1>1, <2>3, MatchStep, OverflowStep DEF TimerStep
    <2>4. CASE Jam
      BY <1>1, <2>4, JamStep
    <2>5. CASE UNCHANGED vars
      BY <1>1, <2>5, StutterStep
    <2> QED BY <1>1, <2>1, <2>2, <2>3, <2>4, <2>5 DEF Next
  <1> QED BY <1>1, InitInv, PTL DEF Spec

(* Motor, timer, mechanism and calls keep their types. *)
THEOREM MotorTypeCorrect == Spec => []TypeOK
  <1>1. MotorInv => TypeOK
    BY DEF MotorInv
  <1> QED BY <1>1, MotorInvariant, PTL

(***************************************************************************)
(* Although handlers stop the shared timer while threads start it, no      *)
(* burst is left behind with the timer stopped, or with its channel off    *)
(* for any other reason than a stale store of CCER.                        *)
(***************************************************************************)
THEOREM BurstsNeverStranded == Spec => []NoStrandedBurst
  <1>1. MotorInv => NoStrandedBurst
    <2> SUFFICES ASSUME MotorInv, \A c \in Callers : pc[c] = "idle",
                        NEW m \in PulseMotor, tim_pulse_counts[m] > 0
                 PROVE  running /\ m \in CCER \cup erased
      BY DEF NoStrandedBurst
    <2>1. At(m, Enabling) = {} /\ At(m, {"start"}) = {}
      BY DEF At, Enabling
    <2> QED BY <2>1 DEF MotorInv, Armed
  <1> QED BY <1>1, MotorInvariant, PTL

(***************************************************************************)
(* However test, loads and stores of CCER race with the handlers, a burst  *)
(* exceeds what was asked for by at most one pulse per caller, and a stale *)
(* store adds one of its own.                                              *)
(***************************************************************************)
THEOREM BurstsBounded == Spec => []BurstBound
  <1>1. MotorInv => BurstBound
    <2> SUFFICES ASSUME MotorInv, NEW m \in PulseMotor
                 PROVE  given[m] <= quota[m] + Cardinality(Callers)
      BY DEF BurstBound
    <2>1. /\ given[m] + tim_pulse_counts[m] + ExtraPulse(m) + Cardinality(At(m, Enabling))
               <= quota[m] + Cardinality(Callers)
          /\ given[m] \in Nat /\ tim_pulse_counts[m] \in Nat /\ quota[m] \in Nat
      BY DEF MotorInv, PulsesCounted, TypeOK
    <2>2. /\ ExtraPulse(m) \in Nat /\ Cardinality(At(m, Enabling)) \in Nat
          /\ Cardinality(Callers) \in Nat
      BY AtFinite, CallersFinite DEF ExtraPulse
    <2> QED BY <2>1, <2>2
  <1> QED BY <1>1, MotorInvariant, PTL

(***************************************************************************)
(* A success of a call that began at rest and was not overlapped stands:   *)
(* the pulses still to come do not turn the lock back.                     *)
(***************************************************************************)
THEOREM SuccessStays == Spec => []SettledFromRest
  <1>1. MotorInv => SettledFromRest
    BY DEF MotorInv, SuccessSettled, SettledFromRest
  <1> QED BY <1>1, MotorInvariant, PTL
=============================================================================
