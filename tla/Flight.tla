------------------------------- MODULE Flight -------------------------------
(***************************************************************************)
(* The main thread of the flight computer, granum_main.c: the mission      *)
(* state machine gr_state, driven by timers and by the light sensor, the   *)
(* barometer and the sonar, each polled once per iteration of one loop.    *)
(*                                                                         *)
(* A step of the model is one `if' of the loop, together with the sensor   *)
(* read before it.  The read() results are ignored by the code: a failed   *)
(* read leaves the previous value, for the first read an uninitialised     *)
(* one.  A pressure is represented by the height at which it prevails, or  *)
(* by ZeroPressure, the value bmp280_result holds until a read succeeds;   *)
(* altitudes are integers or the IEEE values -inf, +inf and NaN.           *)
(***************************************************************************)
EXTENDS Integers

CONSTANTS
    TicksPerSec,     \* resolution of the clock; tv_sec is truncated
    BootDelay,       \* seconds slept before anything is opened        (3)
    LoadDelay,       \* seconds in READY                             (300)
    ChuteTimeout,    \* seconds AWAITING_CHUTE may last               (30)
    LuxThreshold,    \* GR_CONFIG_LUX_THRESHOLD                     (1000)
    AltChute,        \* metres, the chute is deployed at or below    (250)
    AltLegs,         \* metres, the legs are deployed at or below     (50)
    SlowSpeed,       \* m/s, slower counts as hanging on the chute    (10)
    SlowReps,        \* slow iterations in a row that deploy the legs (10)
    NearDistance,    \* sonar reading that arms the chute cut       (1200)
    CutHeight,       \* numerator of the cut delay                    (10)
    UsleepMax,       \* ticks of the longest usleep  (2^32 - 1 microseconds)
    StatusPeriod,    \* iterations between two status messages        (10)
    Heights,         \* heights whose pressure the barometer may return
    Luxes,           \* values the light sensor may return
    Distances,       \* values the sonar may return
    ZeroPressure, NegInf, PosInf, NaN,
    \* bounds of the model
    MaxIter,         \* ticks the sleep at the end of an iteration takes
    MaxGps,          \* ticks the GPS receiver keeps the loop waiting
    Horizon,         \* the clock stops here
    MaxReboots       \* resets of the board

ASSUME TimeAssumption ==
    /\ TicksPerSec \in Nat \ {0}
    /\ BootDelay \in Nat /\ LoadDelay \in Nat /\ ChuteTimeout \in Nat
    /\ UsleepMax \in Nat /\ CutHeight \in Nat
    /\ MaxIter \in Nat \ {0} /\ MaxGps \in Nat
    /\ Horizon \in Nat /\ MaxReboots \in Nat

ASSUME CountAssumption == SlowReps \in 1..255 /\ StatusPeriod \in 1..255

ASSUME SensorAssumption ==
    /\ Heights \subseteq Int /\ Luxes \subseteq Nat /\ Distances \subseteq Nat
    /\ LuxThreshold \in Nat /\ NearDistance \in Nat
    /\ AltChute \in Int /\ AltLegs \in Int /\ SlowSpeed \in Nat

ASSUME FloatAssumption ==
    /\ ZeroPressure \notin Int
    /\ NegInf \notin Int /\ PosInf \notin Int /\ NaN \notin Int
    /\ NegInf # NaN /\ NegInf # PosInf

VARIABLES
    pc,               \* the statement of the loop that comes next
    gr_state,         \* the mission phase
    clock,            \* CLOCK_MONOTONIC, in ticks since the last reset
    current_time,     \* the clock as read at the top of the loop
    boottime,         \* tv_sec when the loop was entered
    chute_open_time,  \* tv_sec of the iteration that deployed the chute
    ground_pressure,  \* the pressure read before the loop
    bmp280_result,    \* the pressure read last
    luminosity,       \* the luminosity read last
    distance,         \* the sonar distance read last
    prev_height,      \* the statics of the descent check
    prev_time,
    repetitions,
    wake,             \* when the usleep before the chute cut ends
    st_send_delay,    \* iterations since the last status message
    reported,         \* the last status sent since the reset, -1 if none
    spent,            \* charges fired since the CanSat was packed
    shots,            \* number of times each charge was fired since the reset
    reboots           \* resets so far

sensors == <<ground_pressure, bmp280_result, luminosity, distance>>
descent == <<prev_height, prev_time, repetitions>>
mission == <<gr_state, chute_open_time, spent, shots>>
status  == <<st_send_delay, reported>>
vars == <<pc, clock, current_time, boottime, sensors, descent, mission,
          wake, status, reboots>>

-----------------------------------------------------------------------------
\* gr_state_t
BOOTING        == 0
READY          == 1
LOADED         == 2
FREE_FALL      == 3
AWAITING_CHUTE == 4
PRE_LANDING    == 5
LANDED         == 6

Charges == {"CHUTE_DEPLOY", "LEGS_DEPLOY", "CHUTE_CUT"}

Sec(t) == t \div TicksPerSec

\* _alt: log(p / ref) over a negative constant, which is the difference of
\* the two heights; a zero argument gives the infinities and NaN.
Alt(p, ref) ==
    IF ref = ZeroPressure
    THEN IF p = ZeroPressure THEN NaN ELSE NegInf
    ELSE IF p = ZeroPressure THEN PosInf ELSE p - ref

Altitude == Alt(bmp280_result, ground_pressure)

\* Mutant: the comparison negated, !(h > x), which NaN satisfies.
AtMost_Negated(h, x) == h # PosInf /\ (h \in Int => h <= x)

\* h <= x as the C comparison of doubles decides it.
AtMost(h, x) == h = NegInf \/ (h \in Int /\ h <= x)

Abs(n) == IF n < 0 THEN -n ELSE n

\* fabs((h - g) / d) < SlowSpeed: false when a height is not finite, and when
\* no time has passed.
Slow(h, g, d) ==
    h \in Int /\ g \in Int /\ Abs(h - g) * TicksPerSec < SlowSpeed * d

\* The durations usleep(t * 1000000) can take, where t = 10 / (h / now): the
\* statics prev_height and prev_time of this block are never assigned and stay
\* zero.  The conversion to useconds_t of a value that does not fit is
\* undefined; the soft-float routine saturates it.
CutDelays(h, now) ==
    IF h \in Int /\ h > 0 /\ (CutHeight * now) \div h <= UsleepMax
    THEN {(CutHeight * now) \div h}
    ELSE IF h \in {NegInf, PosInf} THEN {0} ELSE {0, UsleepMax}

\* The clock d ticks later; it stops at the horizon of the model.
Later(d) == IF clock + d <= Horizon THEN clock + d ELSE Horizon

-----------------------------------------------------------------------------
\* Mutants: the two deploy requests swapped; a request the board does not know.
ChargesOf_Swapped(s) == CASE s = FREE_FALL      -> {"LEGS_DEPLOY"}
                          [] s = AWAITING_CHUTE -> {"CHUTE_DEPLOY"}
                          [] s = PRE_LANDING    -> {"CHUTE_CUT"}
                          [] OTHER              -> {}

ChargesOf_Unknown(s) == CASE s = FREE_FALL      -> {"CHUTE_DEPLOY"}
                          [] s = AWAITING_CHUTE -> {"BOARDIOC_USER"}
                          [] s = PRE_LANDING    -> {"CHUTE_CUT"}
                          [] OTHER              -> {}

\* _translate_state: leave the current phase and fire its charge.
ChargesOf(s) == CASE s = FREE_FALL      -> {"CHUTE_DEPLOY"}
                  [] s = AWAITING_CHUTE -> {"LEGS_DEPLOY"}
                  [] s = PRE_LANDING    -> {"CHUTE_CUT"}
                  [] OTHER              -> {}

\* The boardctl calls, and the time that goes with the chute.
Fire(charges) ==
    /\ spent' = spent \cup charges
    /\ shots' = [c \in Charges |-> shots[c] + IF c \in charges THEN 1 ELSE 0]
    /\ chute_open_time' = IF gr_state = FREE_FALL THEN Sec(current_time)
                          ELSE chute_open_time

\* Mutants: gr_state++ forgotten in one case; the break of one case forgotten;
\* the phase kept in range by a modulus that is one too small.
translate_state_NoIncrement ==
    /\ gr_state' = IF gr_state \in {AWAITING_CHUTE, LANDED} THEN gr_state
                   ELSE gr_state + 1
    /\ Fire(ChargesOf(gr_state))

translate_state_NoBreak ==
    /\ gr_state' = IF gr_state = FREE_FALL THEN PRE_LANDING ELSE gr_state + 1
    /\ Fire(ChargesOf(gr_state) \cup
            IF gr_state = FREE_FALL THEN ChargesOf(AWAITING_CHUTE) ELSE {})

translate_state_Wraps ==
    /\ gr_state' = (gr_state + 1) % LANDED
    /\ Fire(ChargesOf(gr_state))

translate_state ==
    /\ gr_state' = IF gr_state < LANDED THEN gr_state + 1 ELSE gr_state
    /\ Fire(ChargesOf(gr_state))

TranslateIf(cond) == IF cond THEN translate_state ELSE UNCHANGED mission

Goto(from, to) == pc = from /\ pc' = to

-----------------------------------------------------------------------------
\* Start of main up to the loop.  The radio and the telemetry file are needed,
\* the sensors are not: a failed first read leaves bmp280_result zero.
Boot ==
    /\ Goto("boot", "top")
    /\ translate_state
    /\ \E p \in Heights \cup {ZeroPressure} :
          bmp280_result' = p /\ ground_pressure' = p
    /\ clock' = Later(BootDelay * TicksPerSec)
    /\ boottime' = Sec(clock')
    /\ UNCHANGED <<current_time, luminosity, distance, descent, wake, status,
                   reboots>>

\* main returns 1: no radio, or no telemetry file.
BootFail ==
    /\ Goto("boot", "exit")
    /\ UNCHANGED <<clock, current_time, boottime, sensors, descent, mission,
                   wake, status, reboots>>

\* Mutant: the time since the reset instead of the time since boottime.
LoadDue_NoBoottime == gr_state = READY /\ Sec(clock) >= LoadDelay

LoadDue == gr_state = READY /\ Sec(clock) - boottime >= LoadDelay

LoadTimer ==
    /\ Goto("top", "chute_timer")
    /\ current_time' = clock
    /\ TranslateIf(LoadDue)
    /\ UNCHANGED <<clock, boottime, sensors, descent, wake, status, reboots>>

\* Mutants: one second late; the statement missing.
ChuteDue_OffByOne == /\ gr_state = AWAITING_CHUTE
                     /\ Sec(current_time) - chute_open_time > ChuteTimeout + 1

ChuteDue_Missing == FALSE

ChuteDue == /\ gr_state = AWAITING_CHUTE
            /\ Sec(current_time) - chute_open_time > ChuteTimeout

ChuteTimer ==
    /\ Goto("chute_timer", "tsl")
    /\ TranslateIf(ChuteDue)
    /\ UNCHANGED <<clock, current_time, boottime, sensors, descent, wake,
                   status, reboots>>

ReadTsl ==
    /\ Goto("tsl", "baro")
    /\ luminosity' \in Luxes \cup {luminosity}
    /\ TranslateIf(gr_state = LOADED /\ luminosity' >= LuxThreshold)
    /\ UNCHANGED <<clock, current_time, boottime, ground_pressure,
                   bmp280_result, distance, descent, wake, status, reboots>>

ReadBaro ==
    /\ Goto("baro", "legs")
    /\ bmp280_result' \in Heights \cup {bmp280_result}
    /\ TranslateIf(/\ gr_state = FREE_FALL
                   /\ AtMost(Alt(bmp280_result', ground_pressure), AltChute))
    /\ UNCHANGED <<clock, current_time, boottime, ground_pressure, luminosity,
                   distance, descent, wake, status, reboots>>

CheckLegs ==
    /\ Goto("legs", "descent")
    /\ TranslateIf(gr_state = AWAITING_CHUTE /\ AtMost(Altitude, AltLegs))
    /\ UNCHANGED <<clock, current_time, boottime, sensors, descent, wake,
                   status, reboots>>

\* The descent check; prev_height = 0 stands for `no previous height'.
NextRepetitions ==
    IF prev_height = 0 THEN repetitions
    ELSE IF Slow(Altitude, prev_height, current_time - prev_time)
         THEN (repetitions + 1) % 256
         ELSE 0

\* Mutant: `more than' SlowReps instead of `equal'.
SlowEnough_More(reps) == prev_height # 0 /\ reps > SlowReps

SlowEnough(reps) == prev_height # 0 /\ reps = SlowReps

CheckDescent ==
    /\ Goto("descent", "sonar")
    /\ IF gr_state = AWAITING_CHUTE
       THEN /\ repetitions' = NextRepetitions
            /\ TranslateIf(SlowEnough(repetitions'))
            /\ prev_height' = Altitude
            /\ prev_time' = current_time
       ELSE UNCHANGED <<descent, mission>>
    /\ UNCHANGED <<clock, current_time, boottime, sensors, wake, status,
                   reboots>>

\* Mutant: the wrong phase in the guard.
NearGround_WrongPhase(d) == gr_state = AWAITING_CHUTE /\ d < NearDistance

NearGround(d) == gr_state = PRE_LANDING /\ d < NearDistance

ReadSonar ==
    /\ pc = "sonar"
    /\ distance' \in Distances \cup {distance}
    /\ IF NearGround(distance')
       THEN /\ pc' = "cut"
            /\ \E d \in CutDelays(Altitude, current_time) : wake' = Later(d)
       ELSE pc' = "gps" /\ UNCHANGED wake
    /\ UNCHANGED <<clock, current_time, boottime, ground_pressure,
                   bmp280_result, luminosity, descent, mission, status,
                   reboots>>

\* The usleep before the chute is cut ends.
Cut ==
    /\ Goto("cut", "gps")
    /\ clock' = wake
    /\ translate_state
    /\ UNCHANGED <<current_time, boottime, sensors, descent, wake, status,
                   reboots>>

\* _parseGPS blocks in read() until the receiver has sent enough bytes.
Gps ==
    /\ Goto("gps", "status")
    /\ \E d \in 0..MaxGps : clock' = Later(d)
    /\ UNCHANGED <<current_time, boottime, sensors, descent, mission, wake,
                   status, reboots>>

\* The status message: the new counter, and what has been reported.
\* Mutants: the counter is not reset; nothing is sent after the landing.
SendStatus_NoReset(n) ==
    st_send_delay' = n /\ reported' = IF n = StatusPeriod THEN gr_state ELSE reported

SendStatus_StopsAtLanding(n) ==
    IF n = StatusPeriod
    THEN st_send_delay' = 0 /\ reported' = IF gr_state < LANDED THEN gr_state ELSE reported
    ELSE st_send_delay' = n /\ UNCHANGED reported

SendStatus(n) ==
    IF n = StatusPeriod
    THEN st_send_delay' = 0 /\ reported' = gr_state
    ELSE st_send_delay' = n /\ UNCHANGED reported

\* The end of the iteration: the status message and the sleep.
Status ==
    /\ Goto("status", "top")
    /\ SendStatus((st_send_delay + 1) % 256)
    /\ \E d \in 1..MaxIter : clock' = Later(d)
    /\ UNCHANGED <<current_time, boottime, sensors, descent, mission, wake,
                   reboots>>

-----------------------------------------------------------------------------
\* The board starts: the contents of RAM, not of the charges.  luminosity and
\* distance are locals that nothing initialises.
Reset ==
    /\ pc' = "boot" /\ gr_state' = BOOTING
    /\ clock' = 0 /\ current_time' = 0 /\ boottime' = 0
    /\ chute_open_time' = 0
    /\ ground_pressure' = ZeroPressure /\ bmp280_result' = ZeroPressure
    /\ luminosity' \in Luxes /\ distance' \in Distances
    /\ prev_height' = 0 /\ prev_time' = 0 /\ repetitions' = 0
    /\ wake' = 0 /\ st_send_delay' = 0 /\ reported' = -1
    /\ shots' = [c \in Charges |-> 0]

Reboot ==
    /\ reboots < MaxReboots
    /\ reboots' = reboots + 1
    /\ Reset
    /\ UNCHANGED spent

Init ==
    /\ pc = "boot" /\ gr_state = BOOTING
    /\ clock = 0 /\ current_time = 0 /\ boottime = 0
    /\ chute_open_time = 0
    /\ ground_pressure = ZeroPressure /\ bmp280_result = ZeroPressure
    /\ luminosity \in Luxes /\ distance \in Distances
    /\ prev_height = 0 /\ prev_time = 0 /\ repetitions = 0
    /\ wake = 0 /\ st_send_delay = 0 /\ reported = -1
    /\ shots = [c \in Charges |-> 0]
    /\ spent = {} /\ reboots = 0

Loop == \/ LoadTimer \/ ChuteTimer \/ ReadTsl \/ ReadBaro \/ CheckLegs
        \/ CheckDescent \/ ReadSonar \/ Cut \/ Gps \/ Status

Next == Boot \/ BootFail \/ Loop \/ Reboot

Spec == Init /\ [][Next]_vars
-----------------------------------------------------------------------------
\* Every process step but the failing start is taken when it can be: the loop
\* never waits for anything but its own sleeps and the bytes of the receiver,
\* which sends sentences as long as it is powered.
LoopFairness == WF_vars(Boot) /\ WF_vars(Loop)

\* The flight itself: while the loop runs, the light sensor is sooner or later
\* in daylight, the barometer sooner or later answers near the ground, and so
\* does the sonar.
FlightFairness ==
    /\ SF_vars(ReadTsl /\ luminosity' >= LuxThreshold)
    /\ SF_vars(ReadBaro /\ AtMost(Alt(bmp280_result', ground_pressure), AltLegs))
    /\ SF_vars(ReadSonar /\ distance' < NearDistance)

LoopSpec == Spec /\ LoopFairness

-----------------------------------------------------------------------------
Locations == {"boot", "top", "chute_timer", "tsl", "baro", "legs", "descent",
              "sonar", "cut", "gps", "status", "exit"}

Pressures == Heights \cup {ZeroPressure}

\* Every variable has a value of its C type, and no pressure but the initial
\* zero comes from anywhere else than the barometer.
TypeOK ==
    /\ pc \in Locations
    /\ gr_state \in BOOTING..LANDED
    /\ clock \in 0..Horizon /\ current_time \in 0..Horizon
    /\ boottime \in Nat /\ chute_open_time \in Nat
    /\ ground_pressure \in Pressures /\ bmp280_result \in Pressures
    /\ luminosity \in Luxes /\ distance \in Distances
    /\ prev_height \in Int \cup {NegInf, PosInf, NaN}
    /\ prev_time \in 0..Horizon /\ repetitions \in 0..255
    /\ wake \in 0..Horizon
    /\ st_send_delay \in 0..255 /\ reported \in -1..LANDED
    /\ spent \subseteq Charges /\ shots \in [Charges -> Nat]
    /\ reboots \in 0..MaxReboots

\* The charges go off in the order of the mission, over any number of resets
\* in flight: the chute is never cut before the legs are out, and the legs
\* never come out before the chute (the cases of _translate_state).
PyroOrder ==
    /\ "CHUTE_CUT" \in spent => "LEGS_DEPLOY" \in spent
    /\ "LEGS_DEPLOY" \in spent => "CHUTE_DEPLOY" \in spent

\* Between two resets a charge is fired once if its phase has been left, and
\* not at all otherwise, although up to four calls of _translate_state in one
\* iteration, from five places of the loop, may fire it.
FiredOncePerPhase ==
    \A c \in Charges :
        shots[c] = IF \E s \in BOOTING..(gr_state - 1) : c \in ChargesOf(s)
                   THEN 1 ELSE 0

\* Nobody is hurt on the ground: no charge fires before LoadDelay seconds have
\* passed since the loop was entered, whatever the sensors say, after each
\* reset anew.
SafeOnGround ==
    (\E c \in Charges : shots[c] > 0) => Sec(clock) - boottime >= LoadDelay

\* The legs wait for the chute only so long: from the moment the timer has been
\* checked, the chute has been open for at most ChuteTimeout seconds by the
\* time of this iteration, and if the receiver delays an iteration by no more
\* than MaxGps, the phase ends within one iteration of the timeout, a second
\* for the truncation of tv_sec included.
LegsDeadline ==
    gr_state = AWAITING_CHUTE =>
        /\ pc \notin {"top", "chute_timer"} =>
              Sec(current_time) - chute_open_time <= ChuteTimeout
        /\ clock < (chute_open_time + ChuteTimeout + 1) * TicksPerSec
                       + MaxGps + MaxIter

\* The counter of slow iterations cannot run past SlowReps, where the test for
\* equality would miss it until the uint8_t wraps: the phase has been left when
\* it gets there.
DescentCounterBounded ==
    /\ repetitions <= SlowReps
    /\ gr_state = AWAITING_CHUTE => repetitions < SlowReps

\* A barometer that has not answered since the reset deploys nothing: both
\* pressures are then zero, the altitude is NaN, and no comparison with NaN
\* holds.  (With only the first read failed the altitude is -inf instead.)
BlindNeverDeploys ==
    bmp280_result = ZeroPressure =>
        /\ gr_state <= FREE_FALL
        /\ \A c \in Charges : shots[c] = 0

\* What the ground station was told is a phase the mission has really reached
\* since the reset, and the counter that triggers the status message never gets
\* beyond the value it is compared with (a test for equality on a uint8_t).
StatusTruthful ==
    /\ reported <= gr_state
    /\ st_send_delay < StatusPeriod

\* The flight computer implements the mission it promises.
M == INSTANCE Mission WITH phase <- gr_state
MissionSpec == M!Spec

\* Without a reset the mission never goes back, and what the ground has been
\* told never does either.
NeverBack ==
    [][reboots' = reboots => gr_state' >= gr_state /\ reported' >= reported]_vars

AwaitingInTime ==
    /\ gr_state = AWAITING_CHUTE
    /\ (chute_open_time + ChuteTimeout + 1) * TicksPerSec <= Horizon

\* AWAITING_CHUTE ends whatever the sensors return, as long as the loop runs;
\* only the horizon of the model must be far enough.
LegsTimeoutFires == AwaitingInTime ~> gr_state # AWAITING_CHUTE

\* The ground station learns of the landing, unless the board is reset.
LandingReported == gr_state = LANDED ~> reported = LANDED \/ pc = "boot"

\* A mission that starts ends on the ground, the chute cut, if the sensors see
\* daylight and the ground.
MissionCompletes ==
    FlightFairness =>
        (pc = "top" ~> gr_state = LANDED \/ pc = "boot")
=============================================================================
