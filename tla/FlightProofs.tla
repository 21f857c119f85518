---------------------------- MODULE FlightProofs ----------------------------
(***************************************************************************)
(* Proofs about Flight, for every value of its constants.                  *)
(***************************************************************************)
EXTENDS Flight, TLAPS

-----------------------------------------------------------------------------
(***************************************************************************)
(* The arithmetic of the clock.                                            *)
(***************************************************************************)

\* Seconds are natural numbers, and later is not fewer seconds.
LEMMA SecMonotone ==
    ASSUME NEW a \in Nat, NEW b \in Nat, a <= b
    PROVE  Sec(a) \in Nat /\ Sec(b) \in Nat /\ Sec(a) <= Sec(b)
BY TimeAssumption DEF Sec

\* The truncation of tv_sec loses less than a second.
LEMMA SecTruncates ==
    ASSUME NEW a \in Nat
    PROVE  Sec(a) \in Nat /\ a < (Sec(a) + 1) * TicksPerSec
BY TimeAssumption DEF Sec

\* Later moves the clock forward, by at most its argument.
LEMMA LaterBounds ==
    ASSUME clock \in 0..Horizon, NEW d \in Nat
    PROVE  /\ Later(d) \in 0..Horizon
           /\ clock <= Later(d) /\ Later(d) <= clock + d
BY TimeAssumption DEF Later

\* What _alt returns.
LEMMA AltType ==
    ASSUME NEW p \in Pressures, NEW r \in Pressures
    PROVE  Alt(p, r) \in Int \cup {NegInf, PosInf, NaN}
BY SensorAssumption DEF Alt, Pressures

\* Every sleep before the chute cut is a duration.
LEMMA CutDelaysType ==
    ASSUME NEW h, NEW now \in Nat
    PROVE  CutDelays(h, now) \subseteq Nat
<1>1. ASSUME h \in Int, h > 0 PROVE (CutHeight * now) \div h \in Nat
  <2>1. CutHeight * now \in Nat  BY TimeAssumption
  <2>2. h \in Nat \ {0}  BY <1>1
  <2>. HIDE DEF CutDelays
  <2> QED BY <2>1, <2>2
<1> QED BY <1>1, TimeAssumption DEF CutDelays

-----------------------------------------------------------------------------
(***************************************************************************)
(* Type correctness.                                                       *)
(***************************************************************************)

MissionTypeOK ==
    /\ gr_state \in BOOTING..LANDED /\ chute_open_time \in Nat
    /\ spent \subseteq Charges /\ shots \in [Charges -> Nat]

\* _translate_state keeps its variables in their types.
LEMMA TranslateType ==
    ASSUME TypeOK, translate_state
    PROVE  MissionTypeOK'
<1>1. gr_state' \in BOOTING..LANDED
  BY DEF TypeOK, translate_state, BOOTING, LANDED
<1>2. chute_open_time' \in Nat
  <2>1. Sec(current_time) \in Nat  BY SecTruncates DEF TypeOK
  <2> QED BY <2>1 DEF TypeOK, translate_state, Fire
<1>3. spent' \subseteq Charges
  BY DEF TypeOK, translate_state, Fire, ChargesOf, Charges
<1>4. shots' \in [Charges -> Nat]
  BY DEF TypeOK, translate_state, Fire
<1> QED BY <1>1, <1>2, <1>3, <1>4 DEF MissionTypeOK

LEMMA TranslateIfType ==
    ASSUME TypeOK, NEW cond \in BOOLEAN, TranslateIf(cond)
    PROVE  MissionTypeOK'
BY TranslateType DEF TranslateIf, TypeOK, MissionTypeOK, mission

\* Every step of the loop, the start and a reset keep the types.
LEMMA TypeStep == TypeOK /\ [Next]_vars => TypeOK'
<1>. SUFFICES ASSUME TypeOK, [Next]_vars PROVE TypeOK'  OBVIOUS
<1>. USE DEF Goto, Locations
<1>1. CASE Boot
  <2>1. MissionTypeOK'  BY <1>1, TranslateType DEF Boot
  <2>2. BootDelay * TicksPerSec \in Nat  BY TimeAssumption
  <2>3. clock' \in 0..Horizon  BY <1>1, <2>2, LaterBounds DEF Boot, TypeOK
  <2>4. boottime' \in Nat  BY <1>1, <2>3, SecTruncates DEF Boot
  <2>5. bmp280_result' \in Pressures /\ ground_pressure' \in Pressures
    BY <1>1 DEF Boot, Pressures
  <2> QED BY <1>1, <2>1, <2>3, <2>4, <2>5
          DEF Boot, TypeOK, MissionTypeOK, descent, status
<1>2. CASE BootFail
  BY <1>2 DEF BootFail, TypeOK, sensors, descent, mission, status
<1>3. CASE LoadTimer
  <2>1. MissionTypeOK'  BY <1>3, TranslateIfType DEF LoadTimer, LoadDue
  <2> QED BY <1>3, <2>1 DEF LoadTimer, TypeOK, MissionTypeOK, sensors, descent, status
<1>4. CASE ChuteTimer
  <2>1. MissionTypeOK'  BY <1>4, TranslateIfType DEF ChuteTimer, ChuteDue
  <2> QED BY <1>4, <2>1 DEF ChuteTimer, TypeOK, MissionTypeOK, sensors, descent, status
<1>5. CASE ReadTsl
  <2>1. MissionTypeOK'  BY <1>5, TranslateIfType DEF ReadTsl
  <2> QED BY <1>5, <2>1 DEF ReadTsl, TypeOK, MissionTypeOK, descent, status
<1>6. CASE ReadBaro
  <2>1. MissionTypeOK'  BY <1>6, TranslateIfType DEF ReadBaro
  <2> QED BY <1>6, <2>1 DEF ReadBaro, TypeOK, MissionTypeOK, descent, status, Pressures
<1>7. CASE CheckLegs
  <2>1. MissionTypeOK'  BY <1>7, TranslateIfType DEF CheckLegs
  <2> QED BY <1>7, <2>1 DEF CheckLegs, TypeOK, MissionTypeOK, sensors, descent, status
<1>8. CASE CheckDescent
  <2>1. MissionTypeOK'
    BY <1>8, TranslateIfType DEF CheckDescent, SlowEnough, TypeOK, MissionTypeOK, mission
  <2>2. NextRepetitions \in 0..255  BY DEF NextRepetitions, TypeOK
  <2>3. Altitude \in Int \cup {NegInf, PosInf, NaN}
    BY AltType DEF Altitude, TypeOK
  <2> QED BY <1>8, <2>1, <2>2, <2>3
          DEF CheckDescent, TypeOK, MissionTypeOK, sensors, descent, status
<1>9. CASE ReadSonar
  <2>1. wake' \in 0..Horizon
    <3>1. CutDelays(Altitude, current_time) \subseteq Nat
      BY CutDelaysType DEF TypeOK
    <3> QED BY <1>9, <3>1, LaterBounds DEF ReadSonar, TypeOK
  <2> QED BY <1>9, <2>1
          DEF ReadSonar, TypeOK, descent, mission, status
<1>10. CASE Cut
  <2>1. MissionTypeOK'  BY <1>10, TranslateType DEF Cut
  <2> QED BY <1>10, <2>1 DEF Cut, TypeOK, MissionTypeOK, sensors, descent, status
<1>11. CASE Gps
  <2>1. clock' \in 0..Horizon  BY <1>11, LaterBounds, TimeAssumption DEF Gps, TypeOK
  <2> QED BY <1>11, <2>1 DEF Gps, TypeOK, sensors, descent, mission, status
<1>12. CASE Status
  <2>1. clock' \in 0..Horizon  BY <1>12, LaterBounds, TimeAssumption DEF Status, TypeOK
  <2>2. st_send_delay' \in 0..255 /\ reported' \in -1..LANDED
    BY <1>12 DEF Status, SendStatus, TypeOK, BOOTING, LANDED
  <2> QED BY <1>12, <2>1, <2>2 DEF Status, TypeOK, sensors, descent, mission
<1>13. CASE Reboot
  BY <1>13, TimeAssumption
  DEF Reboot, Reset, TypeOK, BOOTING, LANDED, Pressures
<1>14. CASE UNCHANGED vars
  BY <1>14 DEF vars, TypeOK, sensors, descent, mission, status
<1> QED BY <1>1, <1>2, <1>3, <1>4, <1>5, <1>6, <1>7, <1>8, <1>9, <1>10, <1>11,
           <1>12, <1>13, <1>14 DEF Next, Loop

LEMMA TypeInit == Init => TypeOK
BY TimeAssumption DEF Init, TypeOK, Locations, BOOTING, LANDED, Pressures, Charges

\* Every variable of the main loop keeps the type of its C declaration, and
\* the pressures come from the barometer or are the initial zero.
THEOREM TypeCorrect == Spec => []TypeOK
BY TypeInit, TypeStep, PTL DEF Spec
-----------------------------------------------------------------------------
(***************************************************************************)
(* The safety invariants.  None of them is inductive alone: each needs to  *)
(* know how far the mission has got at each location of the loop.          *)
(***************************************************************************)

\* Where the loop is tells the phase at the start and before the chute cut.
PhaseAt ==
    /\ pc \in {"boot", "exit"} <=> gr_state = BOOTING
    /\ pc = "cut" => gr_state = PRE_LANDING

\* The charges of the phases that have been left are spent.
SpentByPhase ==
    /\ gr_state > FREE_FALL => "CHUTE_DEPLOY" \in spent
    /\ gr_state > AWAITING_CHUTE => "LEGS_DEPLOY" \in spent

\* FiredOncePerPhase, charge by charge.
ShotsByPhase ==
    /\ shots["CHUTE_DEPLOY"] = IF gr_state > FREE_FALL THEN 1 ELSE 0
    /\ shots["LEGS_DEPLOY"] = IF gr_state > AWAITING_CHUTE THEN 1 ELSE 0
    /\ shots["CHUTE_CUT"] = IF gr_state > PRE_LANDING THEN 1 ELSE 0

\* The clock is not behind the sleep that is to end, and READY was not left
\* before its time.
ClockByPhase ==
    /\ pc = "cut" => clock <= wake
    /\ gr_state > READY => Sec(clock) - boottime >= LoadDelay

\* No time passes between the top of the loop and the sonar; how much has
\* passed when the chute is awaited, location by location.
InIteration == {"chute_timer", "tsl", "baro", "legs", "descent", "sonar"}

Deadline == (chute_open_time + ChuteTimeout + 1) * TicksPerSec + MaxGps + MaxIter

ClockAt ==
    /\ pc \in InIteration => clock = current_time
    /\ gr_state = AWAITING_CHUTE =>
          /\ pc # "chute_timer" => Sec(current_time) - chute_open_time <= ChuteTimeout
          /\ pc = "chute_timer" => clock < Deadline
          /\ pc = "gps" => clock = current_time
          /\ pc = "status" => clock <= current_time + MaxGps
          /\ pc = "top" => clock <= current_time + MaxGps + MaxIter

\* The counter is still below its limit before the chute is awaited at all.
CounterByPhase ==
    /\ repetitions <= SlowReps
    /\ gr_state <= AWAITING_CHUTE => repetitions < SlowReps

\* A barometer that never answered did not do so before the loop either.
BlindSinceBoot ==
    bmp280_result = ZeroPressure => ground_pressure = ZeroPressure /\ gr_state <= FREE_FALL

Inv ==
    /\ TypeOK
    /\ PhaseAt
    /\ PyroOrder /\ SpentByPhase
    /\ ShotsByPhase
    /\ ClockByPhase
    /\ ClockAt
    /\ CounterByPhase
    /\ BlindSinceBoot
    /\ StatusTruthful
-----------------------------------------------------------------------------
(***************************************************************************)
(* The charges.  A step that touches the mission is one call of            *)
(* _translate_state or a reset.                                            *)
(***************************************************************************)

LEMMA MissionSteps ==
    ASSUME [Next]_vars
    PROVE  translate_state \/ UNCHANGED mission \/ Reboot
<1>1. CASE Boot  BY <1>1 DEF Boot
<1>2. CASE BootFail  BY <1>2 DEF BootFail
<1>3. CASE LoadTimer  BY <1>3 DEF LoadTimer, TranslateIf
<1>4. CASE ChuteTimer  BY <1>4 DEF ChuteTimer, TranslateIf
<1>5. CASE ReadTsl  BY <1>5 DEF ReadTsl, TranslateIf
<1>6. CASE ReadBaro  BY <1>6 DEF ReadBaro, TranslateIf
<1>7. CASE CheckLegs  BY <1>7 DEF CheckLegs, TranslateIf
<1>8. CASE CheckDescent  BY <1>8 DEF CheckDescent, TranslateIf
<1>9. CASE ReadSonar  BY <1>9 DEF ReadSonar
<1>10. CASE Cut  BY <1>10 DEF Cut
<1>11. CASE Gps  BY <1>11 DEF Gps
<1>12. CASE Status  BY <1>12 DEF Status
<1>13. CASE Reboot  BY <1>13
<1>14. CASE UNCHANGED vars  BY <1>14 DEF vars
<1> QED BY <1>1, <1>2, <1>3, <1>4, <1>5, <1>6, <1>7, <1>8, <1>9, <1>10, <1>11,
           <1>12, <1>13, <1>14 DEF Next, Loop

PyroInv == PyroOrder /\ SpentByPhase /\ ShotsByPhase

LEMMA PyroStep ==
    ASSUME TypeOK, PyroInv, [Next]_vars
    PROVE  PyroInv'
<1>. USE DEF BOOTING, READY, LOADED, FREE_FALL, AWAITING_CHUTE, PRE_LANDING, LANDED
<1>1. CASE translate_state
  <2>1. PyroOrder' /\ SpentByPhase'
    BY <1>1 DEF TypeOK, PyroInv, PyroOrder, SpentByPhase, translate_state, Fire, ChargesOf
  <2>2. ShotsByPhase'
    <3>1. \A c \in Charges :
             shots'[c] = shots[c] + IF c \in ChargesOf(gr_state) THEN 1 ELSE 0
      BY <1>1 DEF translate_state, Fire
    <3>2. /\ "CHUTE_DEPLOY" \in ChargesOf(gr_state) <=> gr_state = FREE_FALL
          /\ "LEGS_DEPLOY" \in ChargesOf(gr_state) <=> gr_state = AWAITING_CHUTE
          /\ "CHUTE_CUT" \in ChargesOf(gr_state) <=> gr_state = PRE_LANDING
      BY DEF ChargesOf, TypeOK
    <3> QED BY <1>1, <3>1, <3>2
            DEF TypeOK, PyroInv, ShotsByPhase, translate_state, Charges
  <2> QED BY <2>1, <2>2 DEF PyroInv
<1>2. CASE UNCHANGED mission
  BY <1>2 DEF mission, PyroInv, PyroOrder, SpentByPhase, ShotsByPhase
<1>3. CASE Reboot
  BY <1>3 DEF Reboot, Reset, PyroInv, PyroOrder, SpentByPhase, ShotsByPhase, Charges
<1> QED BY <1>1, <1>2, <1>3, MissionSteps

\* The form of ShotsByPhase that the runs check.
LEMMA ShotsForm ==
    ASSUME TypeOK, ShotsByPhase
    PROVE  FiredOncePerPhase
<1>. USE DEF BOOTING, READY, LOADED, FREE_FALL, AWAITING_CHUTE, PRE_LANDING, LANDED
<1>1. ASSUME NEW c \in Charges
      PROVE  (\E s \in BOOTING..(gr_state - 1) : c \in ChargesOf(s))
                 <=> \/ c = "CHUTE_DEPLOY" /\ gr_state > FREE_FALL
                     \/ c = "LEGS_DEPLOY" /\ gr_state > AWAITING_CHUTE
                     \/ c = "CHUTE_CUT" /\ gr_state > PRE_LANDING
  <2>1. \A s \in Int : c \in ChargesOf(s) <=>
                 \/ c = "CHUTE_DEPLOY" /\ s = FREE_FALL
                 \/ c = "LEGS_DEPLOY" /\ s = AWAITING_CHUTE
                 \/ c = "CHUTE_CUT" /\ s = PRE_LANDING
    BY <1>1 DEF ChargesOf, Charges
  <2> QED BY <2>1 DEF TypeOK
<1> QED BY <1>1 DEF ShotsByPhase, FiredOncePerPhase, Charges

-----------------------------------------------------------------------------
(***************************************************************************)
(* The location of the loop and the phase.                                 *)
(***************************************************************************)

LEMMA PhaseStep ==
    ASSUME TypeOK, PhaseAt, [Next]_vars
    PROVE  PhaseAt'
<1>. USE DEF BOOTING, READY, LOADED, FREE_FALL, AWAITING_CHUTE, PRE_LANDING, LANDED,
             Goto, PhaseAt, TypeOK
<1>1. CASE Boot  BY <1>1 DEF Boot, translate_state
<1>2. CASE BootFail  BY <1>2 DEF BootFail, mission
<1>3. CASE LoadTimer  BY <1>3 DEF LoadTimer, TranslateIf, translate_state, mission
<1>4. CASE ChuteTimer  BY <1>4 DEF ChuteTimer, TranslateIf, translate_state, mission
<1>5. CASE ReadTsl  BY <1>5 DEF ReadTsl, TranslateIf, translate_state, mission
<1>6. CASE ReadBaro  BY <1>6 DEF ReadBaro, TranslateIf, translate_state, mission
<1>7. CASE CheckLegs  BY <1>7 DEF CheckLegs, TranslateIf, translate_state, mission
<1>8. CASE CheckDescent
  BY <1>8 DEF CheckDescent, TranslateIf, translate_state, mission
<1>9. CASE ReadSonar  BY <1>9 DEF ReadSonar, NearGround, mission
<1>10. CASE Cut  BY <1>10 DEF Cut, translate_state
<1>11. CASE Gps  BY <1>11 DEF Gps, mission
<1>12. CASE Status  BY <1>12 DEF Status, mission
<1>13. CASE Reboot  BY <1>13 DEF Reboot, Reset
<1>14. CASE UNCHANGED vars  BY <1>14 DEF vars, mission
<1> QED BY <1>1, <1>2, <1>3, <1>4, <1>5, <1>6, <1>7, <1>8, <1>9, <1>10, <1>11,
           <1>12, <1>13, <1>14 DEF Next, Loop
-----------------------------------------------------------------------------
(***************************************************************************)
(* The clock.                                                              *)
(***************************************************************************)

\* Only the start of a loop, the chute cut, the receiver and the sleep at the
\* end of an iteration let time pass, and a reset alone sets the clock back.
LEMMA ClockForward ==
    ASSUME TypeOK, ClockByPhase, [Next]_vars, ~Reboot
    PROVE  clock <= clock'
<1>1. CASE Boot
  <2>1. BootDelay * TicksPerSec \in Nat  BY TimeAssumption
  <2> QED BY <1>1, <2>1, LaterBounds DEF Boot, TypeOK
<1>2. CASE Cut  BY <1>2 DEF Cut, Goto, ClockByPhase, TypeOK
<1>3. CASE Gps  BY <1>3, LaterBounds, TimeAssumption DEF Gps, TypeOK
<1>4. CASE Status  BY <1>4, LaterBounds, TimeAssumption DEF Status, TypeOK
<1>5. CASE \/ BootFail \/ LoadTimer \/ ChuteTimer \/ ReadTsl \/ ReadBaro
           \/ CheckLegs \/ CheckDescent \/ ReadSonar \/ UNCHANGED vars
  <2>1. clock' = clock
    BY <1>5 DEF BootFail, LoadTimer, ChuteTimer, ReadTsl, ReadBaro, CheckLegs,
                CheckDescent, ReadSonar, vars
  <2> QED BY <2>1 DEF TypeOK
<1> QED BY <1>1, <1>2, <1>3, <1>4, <1>5 DEF Next, Loop

\* The load delay has passed before anything can be fired.
LEMMA ClockByPhaseStep ==
    ASSUME TypeOK, TypeOK', PhaseAt, ClockByPhase, [Next]_vars
    PROVE  ClockByPhase'
<1>. USE DEF BOOTING, READY, LOADED, FREE_FALL, AWAITING_CHUTE, PRE_LANDING, LANDED
<1>1. CASE Reboot  BY <1>1 DEF Reboot, Reset, ClockByPhase
<1>2. CASE ~Reboot
  <2>1. Sec(clock) <= Sec(clock') /\ Sec(clock) \in Nat /\ Sec(clock') \in Nat
    BY <1>2, ClockForward, SecMonotone DEF TypeOK
  <2>2. pc' = "cut" => clock' <= wake'
    <3>1. CASE ReadSonar
      <4>1. CutDelays(Altitude, current_time) \subseteq Nat
        BY CutDelaysType DEF TypeOK
      <4> QED BY <3>1, <4>1, LaterBounds DEF ReadSonar, TypeOK
    <3>2. CASE UNCHANGED vars  BY <3>2 DEF vars, ClockByPhase
    <3>3. CASE ~ReadSonar /\ ~UNCHANGED vars
      <4>1. pc' # "cut"
        BY <1>2, <3>3
        DEF Next, Loop, Boot, BootFail, LoadTimer, ChuteTimer, ReadTsl, ReadBaro,
            CheckLegs, CheckDescent, Cut, Gps, Status, Goto
      <4> QED BY <4>1
    <3> QED BY <3>1, <3>2, <3>3
  <2>3. gr_state' > READY => Sec(clock') - boottime' >= LoadDelay
    <3>1. CASE Boot  BY <3>1 DEF Boot, Goto, PhaseAt, translate_state, TypeOK
    <3>2. CASE LoadTimer
      <4>1. clock' = clock /\ boottime' = boottime  BY <3>2 DEF LoadTimer
      <4>2. CASE LoadDue  BY <4>1, <4>2 DEF LoadDue
      <4>3. CASE ~LoadDue
        BY <3>2, <4>1, <4>3 DEF LoadTimer, TranslateIf, mission, ClockByPhase
      <4> QED BY <4>2, <4>3
    <3>3. CASE ~Boot /\ ~LoadTimer
      <4>1. boottime' = boottime
        BY <1>2, <3>3
        DEF Next, Loop, BootFail, ChuteTimer, ReadTsl, ReadBaro, CheckLegs,
            CheckDescent, ReadSonar, Cut, Gps, Status, vars
      <4>2. gr_state' > READY => gr_state > READY
        BY <1>2, <3>3
        DEF Next, Loop, BootFail, ChuteTimer, ChuteDue, ReadTsl, ReadBaro,
            CheckLegs, CheckDescent, ReadSonar, Cut, Gps, Status, vars, TranslateIf,
            translate_state, mission, Goto, PhaseAt, TypeOK
      <4> QED BY <2>1, <4>1, <4>2, TimeAssumption DEF ClockByPhase, TypeOK
    <3> QED BY <3>1, <3>2, <3>3
  <2> QED BY <2>2, <2>3 DEF ClockByPhase
<1> QED BY <1>1, <1>2
\* A time whose seconds are within the timeout is before the deadline.
LEMMA BeforeDeadline ==
    ASSUME TypeOK, NEW t \in Nat, Sec(t) - chute_open_time <= ChuteTimeout,
           NEW u \in Nat, u <= t + MaxGps + MaxIter
    PROVE  u < Deadline
<1>. DEFINE m == Sec(t) + 1
            n == chute_open_time + ChuteTimeout + 1
<1>1. m \in Nat /\ n \in Nat /\ m <= n
  BY SecTruncates, TimeAssumption DEF TypeOK
<1>2. t < m * TicksPerSec  BY SecTruncates
<1>3. m * TicksPerSec <= n * TicksPerSec
  <2>. HIDE DEF m, n
  <2> QED BY <1>1, TimeAssumption
<1>4. m * TicksPerSec \in Nat /\ n * TicksPerSec \in Nat  BY <1>1, TimeAssumption
<1>5. t < n * TicksPerSec  BY <1>2, <1>3, <1>4
<1>6. Deadline = n * TicksPerSec + MaxGps + MaxIter  BY DEF Deadline
<1>. HIDE DEF n
<1> QED BY <1>4, <1>5, <1>6, TimeAssumption

\* How far the clock is ahead of current_time, location by location.
LEMMA ClockAtStep ==
    ASSUME TypeOK, TypeOK', PhaseAt, ClockAt, [Next]_vars
    PROVE  ClockAt'
<1>. USE DEF BOOTING, READY, LOADED, FREE_FALL, AWAITING_CHUTE, PRE_LANDING, LANDED,
             Goto, InIteration
<1>1. CASE Boot
  BY <1>1 DEF Boot, translate_state, PhaseAt, TypeOK, ClockAt
<1>2. CASE BootFail
  BY <1>2 DEF BootFail, mission, PhaseAt, ClockAt
<1>3. CASE LoadTimer
  <2>1. pc' = "chute_timer" /\ clock' = clock /\ current_time' = clock
    BY <1>3 DEF LoadTimer
  <2>2. ASSUME gr_state' = AWAITING_CHUTE PROVE clock' < Deadline'
    <3>1. gr_state = AWAITING_CHUTE /\ UNCHANGED mission
      BY <1>3, <2>2 DEF LoadTimer, LoadDue, TranslateIf, translate_state, mission, TypeOK
    <3>2. clock < Deadline
      BY <1>3, <3>1, BeforeDeadline DEF LoadTimer, ClockAt, TypeOK
    <3> QED BY <2>1, <3>1, <3>2 DEF mission, Deadline
  <2> QED BY <2>1, <2>2 DEF ClockAt
<1>4. CASE ChuteTimer
  <2>1. pc' = "tsl" /\ clock' = clock /\ current_time' = current_time
    BY <1>4 DEF ChuteTimer
  <2>2. ASSUME gr_state' = AWAITING_CHUTE
        PROVE  Sec(current_time') - chute_open_time' <= ChuteTimeout
    <3>1. gr_state = AWAITING_CHUTE /\ UNCHANGED mission /\ ~ChuteDue
      BY <1>4, <2>2
      DEF ChuteTimer, ChuteDue, TranslateIf, translate_state, mission, TypeOK
    <3>2. Sec(current_time) \in Nat  BY SecTruncates DEF TypeOK
    <3> QED BY <2>1, <3>1, <3>2, TimeAssumption DEF ChuteDue, mission, TypeOK
  <2> QED BY <1>4, <2>1, <2>2 DEF ClockAt, ChuteTimer
<1>5. CASE ReadTsl
  BY <1>5 DEF ReadTsl, TranslateIf, translate_state, mission, ClockAt
<1>6. CASE ReadBaro
  <2>1. pc' = "legs" /\ clock' = clock /\ current_time' = current_time
    BY <1>6 DEF ReadBaro
  <2>2. ASSUME gr_state' = AWAITING_CHUTE
        PROVE  Sec(current_time') - chute_open_time' <= ChuteTimeout
    <3>1. CASE gr_state = FREE_FALL
      <4>1. chute_open_time' = Sec(current_time)
        BY <1>6, <2>2, <3>1 DEF ReadBaro, TranslateIf, translate_state, Fire, mission
      <4>2. Sec(current_time) \in Nat  BY SecTruncates DEF TypeOK
      <4> QED BY <2>1, <4>1, <4>2, TimeAssumption
    <3>2. CASE gr_state # FREE_FALL
      BY <1>6, <2>1, <2>2, <3>2 DEF ReadBaro, TranslateIf, mission, ClockAt
    <3> QED BY <3>1, <3>2
  <2>3. clock' = current_time'  BY <1>6, <2>1 DEF ReadBaro, ClockAt
  <2> QED BY <2>1, <2>2, <2>3 DEF ClockAt
<1>7. CASE CheckLegs
  BY <1>7 DEF CheckLegs, TranslateIf, translate_state, mission, ClockAt
<1>8. CASE CheckDescent
  BY <1>8 DEF CheckDescent, TranslateIf, translate_state, mission, ClockAt
<1>9. CASE ReadSonar
  BY <1>9 DEF ReadSonar, NearGround, mission, ClockAt
<1>10. CASE Cut
  BY <1>10 DEF Cut, translate_state, PhaseAt, ClockAt
<1>11. CASE Gps
  <2>1. clock' <= clock + MaxGps
    BY <1>11, LaterBounds, TimeAssumption DEF Gps, TypeOK
  <2> QED BY <1>11, <2>1 DEF Gps, mission, ClockAt
<1>12. CASE Status
  <2>1. clock' <= clock + MaxIter
    BY <1>12, LaterBounds, TimeAssumption DEF Status, TypeOK
  <2>2. ASSUME gr_state' = AWAITING_CHUTE
        PROVE  clock' <= current_time' + MaxGps + MaxIter
    BY <1>12, <2>1, <2>2, TimeAssumption DEF Status, mission, ClockAt, TypeOK
  <2> QED BY <1>12, <2>2 DEF Status, mission, ClockAt
<1>13. CASE Reboot
  BY <1>13 DEF Reboot, Reset, ClockAt
<1>14. CASE UNCHANGED vars
  BY <1>14 DEF vars, mission, ClockAt, Deadline
<1> QED BY <1>1, <1>2, <1>3, <1>4, <1>5, <1>6, <1>7, <1>8, <1>9, <1>10, <1>11,
           <1>12, <1>13, <1>14 DEF Next, Loop

\* At every location the clock is before the deadline.
LEMMA DeadlineForm ==
    ASSUME TypeOK, PhaseAt, ClockAt
    PROVE  LegsDeadline
<1>. SUFFICES ASSUME gr_state = AWAITING_CHUTE
              PROVE  /\ pc \notin {"top", "chute_timer"} =>
                           Sec(current_time) - chute_open_time <= ChuteTimeout
                     /\ clock < Deadline
  BY DEF LegsDeadline, Deadline
<1>1. pc # "chute_timer" => Sec(current_time) - chute_open_time <= ChuteTimeout
  BY DEF ClockAt
<1>2. pc # "chute_timer" => clock <= current_time + MaxGps + MaxIter
  BY TimeAssumption
  DEF ClockAt, InIteration, PhaseAt, TypeOK, Locations, BOOTING, AWAITING_CHUTE,
      PRE_LANDING
<1>3. CASE pc = "chute_timer"  BY <1>1, <1>3 DEF ClockAt
<1>4. CASE pc # "chute_timer"  BY <1>1, <1>2, <1>4, BeforeDeadline DEF TypeOK
<1> QED BY <1>1, <1>3, <1>4
-----------------------------------------------------------------------------
(***************************************************************************)
(* The counters and the barometer.                                         *)
(***************************************************************************)

\* The phase is left when the counter of slow iterations gets to SlowReps.
LEMMA DescentStep ==
    ASSUME TypeOK, PhaseAt, CounterByPhase, [Next]_vars
    PROVE  CounterByPhase'
<1>. USE DEF BOOTING, READY, LOADED, FREE_FALL, AWAITING_CHUTE, PRE_LANDING, LANDED
<1>1. CASE CheckDescent
  <2>1. CASE gr_state = AWAITING_CHUTE
    <3>1. repetitions' = NextRepetitions /\ TranslateIf(SlowEnough(repetitions'))
      BY <1>1, <2>1 DEF CheckDescent
    <3>2. repetitions \in Nat /\ repetitions < SlowReps
      BY <2>1 DEF CounterByPhase, TypeOK
    <3>3. repetitions' \in 0..SlowReps
      BY <3>1, <3>2, CountAssumption DEF NextRepetitions
    <3>4. repetitions' = SlowReps => prev_height # 0
      BY <3>1, <3>2, CountAssumption DEF NextRepetitions
    <3>5. repetitions' = SlowReps => gr_state' = PRE_LANDING
      BY <2>1, <3>1, <3>4 DEF SlowEnough, TranslateIf, translate_state
    <3> QED BY <3>3, <3>5, CountAssumption DEF CounterByPhase
  <2>2. CASE gr_state # AWAITING_CHUTE
    BY <1>1, <2>2 DEF CheckDescent, CounterByPhase, descent, mission
  <2> QED BY <2>1, <2>2
<1>2. CASE Reboot
  BY <1>2, CountAssumption DEF Reboot, Reset, CounterByPhase
<1>3. CASE ~CheckDescent /\ ~Reboot
  <2>1. repetitions' = repetitions
    BY <1>3 DEF Next, Loop, Boot, BootFail, LoadTimer, ChuteTimer, ReadTsl, ReadBaro,
                CheckLegs, ReadSonar, Cut, Gps, Status, descent, vars
  <2>2. gr_state' <= AWAITING_CHUTE => gr_state <= AWAITING_CHUTE
    BY <1>3, MissionSteps DEF mission, translate_state, TypeOK
  <2> QED BY <2>1, <2>2 DEF CounterByPhase
<1> QED BY <1>1, <1>2, <1>3

\* No altitude is low while both pressures are zero, so FREE_FALL is not left
\* before the barometer has answered.
LEMMA BlindStep ==
    ASSUME TypeOK, PhaseAt, BlindSinceBoot, [Next]_vars
    PROVE  BlindSinceBoot'
<1>. USE DEF BOOTING, READY, LOADED, FREE_FALL, AWAITING_CHUTE, PRE_LANDING, LANDED
<1>1. ZeroPressure \notin Heights  BY SensorAssumption, FloatAssumption
<1>2. CASE Boot
  BY <1>2 DEF Boot, Goto, PhaseAt, translate_state, BlindSinceBoot, TypeOK
<1>3. CASE ReadBaro
  <2>1. SUFFICES ASSUME bmp280_result' = ZeroPressure
                 PROVE  ground_pressure' = ZeroPressure /\ gr_state' <= FREE_FALL
    BY DEF BlindSinceBoot
  <2>2. bmp280_result = ZeroPressure  BY <1>1, <1>3, <2>1 DEF ReadBaro
  <2>3. ground_pressure = ZeroPressure /\ gr_state <= FREE_FALL
    BY <2>2 DEF BlindSinceBoot
  <2>4. Alt(bmp280_result', ground_pressure) = NaN  BY <2>1, <2>3 DEF Alt
  <2>5. ~AtMost(NaN, AltChute)  BY FloatAssumption DEF AtMost
  <2>6. UNCHANGED mission  BY <1>3, <2>4, <2>5 DEF ReadBaro, TranslateIf
  <2> QED BY <1>3, <2>3, <2>6 DEF ReadBaro, mission
<1>4. CASE Reboot  BY <1>4 DEF Reboot, Reset, BlindSinceBoot
<1>5. CASE ~Boot /\ ~ReadBaro /\ ~Reboot
  <2>1. bmp280_result' = bmp280_result /\ ground_pressure' = ground_pressure
    BY <1>5 DEF Next, Loop, BootFail, LoadTimer, ChuteTimer, ReadTsl, CheckLegs,
                CheckDescent, ReadSonar, Cut, Gps, Status, sensors, vars
  <2>2. gr_state <= FREE_FALL => gr_state' <= FREE_FALL
    BY <1>5 DEF Next, Loop, BootFail, LoadTimer, LoadDue, ChuteTimer, ChuteDue,
                ReadTsl, CheckLegs, CheckDescent, ReadSonar, Cut, Gps, Status, vars,
                mission, TranslateIf, translate_state, Goto, PhaseAt, TypeOK
  <2> QED BY <2>1, <2>2 DEF BlindSinceBoot
<1> QED BY <1>2, <1>3, <1>4, <1>5

\* The status counter is reset when it gets to StatusPeriod.
LEMMA StatusStep ==
    ASSUME TypeOK, StatusTruthful, [Next]_vars
    PROVE  StatusTruthful'
<1>. USE DEF BOOTING, LANDED
<1>1. CASE Status
  <2>. DEFINE n == (st_send_delay + 1) % 256
  <2>1. n = st_send_delay + 1  BY CountAssumption DEF StatusTruthful, TypeOK
  <2>2. SendStatus(n) /\ gr_state' = gr_state  BY <1>1 DEF Status, mission
  <2>3. st_send_delay' < StatusPeriod
    <3>. HIDE DEF n
    <3> QED BY <2>1, <2>2, CountAssumption DEF SendStatus, StatusTruthful, TypeOK
  <2>4. reported' <= gr_state'
    <3>. HIDE DEF n
    <3> QED BY <2>2 DEF SendStatus, StatusTruthful, TypeOK
  <2> QED BY <2>3, <2>4 DEF StatusTruthful
<1>2. CASE Reboot  BY <1>2, CountAssumption DEF Reboot, Reset, StatusTruthful
<1>3. CASE ~Status /\ ~Reboot
  <2>1. st_send_delay' = st_send_delay /\ reported' = reported
    BY <1>3 DEF Next, Loop, Boot, BootFail, LoadTimer, ChuteTimer, ReadTsl, ReadBaro,
                CheckLegs, CheckDescent, ReadSonar, Cut, Gps, status, vars
  <2>2. gr_state <= gr_state'
    BY <1>3, MissionSteps DEF mission, translate_state, TypeOK
  <2>3. reported \in Int /\ gr_state \in Int /\ gr_state' \in Int
    BY TypeStep DEF TypeOK
  <2> QED BY <2>1, <2>2, <2>3 DEF StatusTruthful
<1> QED BY <1>1, <1>2, <1>3

-----------------------------------------------------------------------------
(***************************************************************************)
(* The theorems.                                                           *)
(***************************************************************************)

LEMMA InvInit == Init => Inv
<1>. SUFFICES ASSUME Init PROVE Inv  OBVIOUS
<1>1. TypeOK  BY TypeInit
<1>. USE DEF Init, BOOTING, READY, LOADED, FREE_FALL, AWAITING_CHUTE, PRE_LANDING, LANDED
<1>2. PhaseAt /\ PyroOrder /\ SpentByPhase /\ ShotsByPhase /\ ClockByPhase
  BY DEF PhaseAt, PyroOrder, SpentByPhase, ShotsByPhase, ClockByPhase, Charges
<1>3. ClockAt  BY DEF ClockAt, InIteration
<1>4. CounterByPhase /\ BlindSinceBoot /\ StatusTruthful
  BY CountAssumption DEF CounterByPhase, BlindSinceBoot, StatusTruthful
<1> QED BY <1>1, <1>2, <1>3, <1>4 DEF Inv

LEMMA InvStep == Inv /\ [Next]_vars => Inv'
<1>. SUFFICES ASSUME Inv, [Next]_vars PROVE Inv'  OBVIOUS
<1>1. TypeOK'  BY TypeStep DEF Inv
<1>2. PhaseAt'  BY PhaseStep DEF Inv
<1>3. PyroOrder' /\ SpentByPhase' /\ ShotsByPhase'  BY PyroStep DEF Inv, PyroInv
<1>4. ClockByPhase'  BY <1>1, ClockByPhaseStep DEF Inv
<1>5. ClockAt'  BY <1>1, ClockAtStep DEF Inv
<1>6. CounterByPhase'  BY DescentStep DEF Inv
<1>7. BlindSinceBoot'  BY BlindStep DEF Inv
<1>8. StatusTruthful'  BY StatusStep DEF Inv
<1> QED BY <1>1, <1>2, <1>3, <1>4, <1>5, <1>6, <1>7, <1>8 DEF Inv

\* The inductive invariant holds in every reachable state.
THEOREM Invariance == Spec => []Inv
BY InvInit, InvStep, PTL DEF Spec

\* The charges go off in the order of the mission, whatever the sensors return
\* and however often the board is reset.
THEOREM PyroOrderHolds == Spec => []PyroOrder
<1>1. Inv => PyroOrder  BY DEF Inv
<1> QED BY <1>1, Invariance, PTL

\* Between two resets each charge fires once if its phase has been left, and
\* not at all otherwise.
THEOREM FiredOnceHolds == Spec => []FiredOncePerPhase
<1>1. Inv => FiredOncePerPhase  BY ShotsForm DEF Inv
<1> QED BY <1>1, Invariance, PTL

\* No charge fires before the load delay has passed.
THEOREM SafeOnGroundHolds == Spec => []SafeOnGround
<1>1. Inv => SafeOnGround
  BY DEF Inv, ShotsByPhase, ClockByPhase, SafeOnGround, Charges, TypeOK, BOOTING,
         READY, FREE_FALL, AWAITING_CHUTE, PRE_LANDING, LANDED
<1> QED BY <1>1, Invariance, PTL

\* AWAITING_CHUTE ends within an iteration of its timeout.
THEOREM LegsDeadlineHolds == Spec => []LegsDeadline
<1>1. Inv => LegsDeadline  BY DeadlineForm DEF Inv
<1> QED BY <1>1, Invariance, PTL

\* The counter of slow iterations never passes the value it is compared with.
THEOREM DescentCounterHolds == Spec => []DescentCounterBounded
<1>1. Inv => DescentCounterBounded
  BY DEF Inv, CounterByPhase, DescentCounterBounded, AWAITING_CHUTE
<1> QED BY <1>1, Invariance, PTL

\* A barometer that never answered deploys nothing.
THEOREM BlindNeverDeploysHolds == Spec => []BlindNeverDeploys
<1>1. Inv => BlindNeverDeploys
  BY DEF Inv, BlindSinceBoot, ShotsByPhase, BlindNeverDeploys, Charges, TypeOK, BOOTING,
         FREE_FALL, AWAITING_CHUTE, PRE_LANDING, LANDED
<1> QED BY <1>1, Invariance, PTL

\* The ground is told only phases that have been reached.
THEOREM StatusTruthfulHolds == Spec => []StatusTruthful
<1>1. Inv => StatusTruthful  BY DEF Inv
<1> QED BY <1>1, Invariance, PTL

\* The phase goes back, and the ground is told an earlier phase, only by a reset.
THEOREM NeverBackHolds == Spec => NeverBack
<1>1. Inv /\ [Next]_vars =>
         [reboots' = reboots => gr_state' >= gr_state /\ reported' >= reported]_vars
  <2>. SUFFICES ASSUME Inv, [Next]_vars, reboots' = reboots
                PROVE  gr_state' >= gr_state /\ reported' >= reported
    OBVIOUS
  <2>1. ~Reboot  BY DEF Reboot, Inv, TypeOK
  <2>2. gr_state' >= gr_state
    BY <2>1, MissionSteps DEF Inv, TypeOK, mission, translate_state, BOOTING, LANDED
  <2>3. reported' >= reported
    <3>1. CASE Status
      BY <3>1 DEF Status, SendStatus, Inv, StatusTruthful, TypeOK, BOOTING, LANDED
    <3>2. CASE ~Status
      <4>1. reported' = reported
        BY <2>1, <3>2
        DEF Next, Loop, Boot, BootFail, LoadTimer, ChuteTimer, ReadTsl, ReadBaro,
            CheckLegs, CheckDescent, ReadSonar, Cut, Gps, status, vars
      <4> QED BY <4>1 DEF Inv, TypeOK
    <3> QED BY <3>1, <3>2
  <2> QED BY <2>2, <2>3
<1> QED BY <1>1, Invariance, PTL DEF Spec, NeverBack

\* Every step of the flight computer is a step of the abstract mission or
\* leaves its phase and its charges alone.
THEOREM Refinement == Spec => MissionSpec
<1>1. Init => M!Init  BY DEF Init, M!Init, BOOTING, M!BOOTING
<1>2. Inv /\ [Next]_vars => [M!Next]_(M!vars)
  <2>. SUFFICES ASSUME Inv, [Next]_vars PROVE [M!Next]_(M!vars)  OBVIOUS
  <2>. USE DEF M!Next, M!vars, M!BOOTING, M!READY, M!LOADED, M!FREE_FALL,
              M!AWAITING_CHUTE, M!PRE_LANDING, M!LANDED, BOOTING, READY, LOADED,
              FREE_FALL, AWAITING_CHUTE, PRE_LANDING, LANDED
  <2>1. CASE translate_state
    <3>1. ChargesOf(gr_state) = M!ChargesOf(gr_state)
      BY DEF ChargesOf, M!ChargesOf
    <3>2. CASE gr_state < LANDED
      BY <2>1, <3>1, <3>2 DEF translate_state, Fire, M!Advance
    <3>3. CASE ~(gr_state < LANDED)
      <4>1. gr_state = LANDED  BY <3>3 DEF Inv, TypeOK
      <4>2. ChargesOf(gr_state) = {}  BY <4>1 DEF ChargesOf
      <4> QED BY <2>1, <3>3, <4>2 DEF translate_state, Fire
    <3> QED BY <3>2, <3>3
  <2>2. CASE UNCHANGED mission  BY <2>2 DEF mission
  <2>3. CASE Reboot  BY <2>3 DEF Reboot, Reset, M!Restart
  <2> QED BY <2>1, <2>2, <2>3, MissionSteps
<1> QED BY <1>1, <1>2, Invariance, PTL DEF Spec, MissionSpec, M!Spec
=============================================================================
