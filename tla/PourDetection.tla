--------------------------- MODULE PourDetection ---------------------------
(***************************************************************************)
(* Pour detection and reporting of the Open Keg Scale firmware:            *)
(* readWeightGrams(), updatePourState() and the end of loop() of           *)
(* open_keg_scale.ino, with the operations that disturb them from outside: *)
(* doTare(), doCalibrateWithKnownWeight(), a login, a sync request, a lost *)
(* connection and a restart.                                               *)
(*                                                                         *)
(* Weights are whole grams.  millis() is a 32-bit counter of which the     *)
(* code only ever uses differences, so a time stamp x is kept as the value *)
(* of `millis() - x', modulo Period, and grows with every Tick.  The       *)
(* bodies of loop() are actions: the program is single-threaded, and what  *)
(* interleaves with a pass is the load on the platform, the clock, the     *)
(* server and the other parts of the same loop.                            *)
(***************************************************************************)
EXTENDS Integers

CONSTANTS
    Grams,         \* what the HX711 may read, in grams
    Recalibrated,  \* readings of the same load after a calibration; {}: none
    PourDelta,     \* POUR_DELTA_G
    ZeroDeadband,  \* ZERO_DEADBAND_G
    PourSettle,    \* POUR_SETTLE_MS
    PourArmDelay,  \* POUR_ARM_DELAY_MS
    SendInterval,  \* SEND_INTERVAL_MS
    Period,        \* 2^32, the number of values of millis()
    MaxGap         \* bound: longest time between two passes of a live loop()

ASSUME WeightAssumption ==
    /\ Grams \subseteq Int
    /\ Recalibrated \subseteq Int
    /\ PourDelta \in Nat \ {0}
    /\ ZeroDeadband \in Nat

ASSUME TimeAssumption ==
    /\ PourSettle \in Nat
    /\ SendInterval \in Nat
    /\ MaxGap \in Nat \ {0}
    /\ Period \in Nat \ {0}
    /\ PourArmDelay \in Nat \ {0}
    /\ 2 * PourArmDelay <= Period

\* The clock wraps after 49 days; a pass that blocks for so long is left out.
ASSUME PassAssumption ==
    /\ SendInterval + MaxGap <= Period
    /\ PourSettle + MaxGap < Period

VARIABLES
    load,            \* what the HX711 would read now, offset and factor applied
    authed,          \* blynk_authed
    have_baseline,
    last_stable_g,
    last_weight_g,
    is_pouring,
    pour_start_g,    \* kept only while is_pouring, 0 otherwise: dead in the code
    pour_start,      \* millis() - pour_start_ms, kept only while is_pouring
    pour_arm,        \* millis() - pour_arm_ms, as an unsigned difference
    last_send,       \* millis() - last_send_ms
    srv_is_pouring,  \* the last value written to pin 49 (VP_IS_POURING)
    srv_last_pour,   \* the last value written to pin 59 (VP_LAST_POUR), in grams
    gap,             \* time since the last pass, while authed
    armAge,          \* history: time since boot, tare or calibration, up to Period
    stale,           \* history: how long pin 49 has been wrong while authed
    calm,            \* history: how long the load has stayed put during a pour,
                     \* while authed
    peak             \* history: heaviest reading a pass took since boot, tare
                     \* or calibration

scale_vars == <<have_baseline, last_stable_g, last_weight_g>>
pour_vars  == <<is_pouring, pour_start_g, pour_start>>
srv_vars   == <<srv_is_pouring, srv_last_pour>>
vars == <<load, authed, scale_vars, pour_vars, pour_arm, last_send, srv_vars,
          gap, armAge, stale, calm, peak>>

Abs(x) == IF x < 0 THEN -x ELSE x

\* readWeightGrams(): a reading close to zero is zero.
Deadband(w) == IF Abs(w) < ZeroDeadband THEN 0 ELSE w

\* (int32_t)(millis() - pour_arm_ms) < 0
Negative(elapsed) == 2 * elapsed >= Period

\* fabsf(d) < POUR_DELTA_G / 3.0f
Small(d) == 3 * Abs(d) < PourDelta

Advance(elapsed) == IF elapsed + 1 = Period THEN 0 ELSE elapsed + 1

\* pour_arm_ms = millis() + POUR_ARM_DELAY_MS
Arm == pour_arm' = Period - PourArmDelay /\ armAge' = 0

NoPour == is_pouring' = FALSE /\ pour_start_g' = 0 /\ pour_start' = 0

Init ==
    /\ load \in Grams
    /\ authed = FALSE
    /\ have_baseline = FALSE
    /\ last_stable_g = 0
    /\ last_weight_g = 0
    /\ is_pouring = FALSE
    /\ pour_start_g = 0
    /\ pour_start = 0
    /\ pour_arm = Period - PourArmDelay
    /\ last_send = 0
    /\ srv_is_pouring = FALSE
    /\ srv_last_pour = 0
    /\ gap = 0
    /\ armAge = 0
    /\ stale = 0
    /\ calm = 0
    /\ peak = 0

-----------------------------------------------------------------------------
(***************************************************************************)
(* updatePourState(w): the returns and branches of the function.           *)
(***************************************************************************)
FirstBaseline(w) ==
    /\ ~have_baseline
    /\ have_baseline' = TRUE
    /\ last_stable_g' = w
    /\ last_weight_g' = w
    /\ UNCHANGED <<pour_vars, srv_last_pour>>

Arming(w) ==
    /\ have_baseline
    /\ Negative(pour_arm)
    /\ last_stable_g' = w
    /\ last_weight_g' = w
    /\ NoPour
    /\ UNCHANGED <<have_baseline, srv_last_pour>>

Armed == have_baseline /\ ~Negative(pour_arm)

\* Mutant of StartPour: measures from the previous reading, not the baseline.
StartPourFromLast(w) ==
    /\ Armed
    /\ ~is_pouring
    /\ w - last_stable_g < -PourDelta
    /\ is_pouring' = TRUE
    /\ pour_start_g' = last_weight_g
    /\ pour_start' = 0
    /\ last_weight_g' = w
    /\ UNCHANGED <<have_baseline, last_stable_g, srv_last_pour>>

StartPour(w) ==
    /\ Armed
    /\ ~is_pouring
    /\ w - last_stable_g < -PourDelta
    /\ is_pouring' = TRUE
    /\ pour_start_g' = last_stable_g
    /\ pour_start' = 0
    /\ last_weight_g' = w
    /\ UNCHANGED <<have_baseline, last_stable_g, srv_last_pour>>

Idle(w) ==
    /\ Armed
    /\ ~is_pouring
    /\ w - last_stable_g >= -PourDelta
    /\ last_stable_g' = IF Small(w - last_stable_g) THEN w ELSE last_stable_g
    /\ last_weight_g' = w
    /\ UNCHANGED <<have_baseline, pour_vars, srv_last_pour>>

PourMoving(w) ==
    /\ Armed
    /\ is_pouring
    /\ ~Small(w - last_weight_g)
    /\ pour_start' = 0
    /\ last_weight_g' = w
    /\ UNCHANGED <<have_baseline, last_stable_g, is_pouring, pour_start_g,
                   srv_last_pour>>

\* Mutant of PourSettling: a stable reading restarts the settle timer as well.
PourSettlingRestarts(w) ==
    /\ Armed
    /\ is_pouring
    /\ Small(w - last_weight_g)
    /\ pour_start <= PourSettle
    /\ pour_start' = 0
    /\ last_weight_g' = w
    /\ UNCHANGED <<have_baseline, last_stable_g, is_pouring, pour_start_g,
                   srv_last_pour>>

PourSettling(w) ==
    /\ Armed
    /\ is_pouring
    /\ Small(w - last_weight_g)
    /\ pour_start <= PourSettle
    /\ last_weight_g' = w
    /\ UNCHANGED <<have_baseline, last_stable_g, pour_vars, srv_last_pour>>

\* Mutant of EndPour: sends the volume whatever its sign.
EndPourAnySign(w) ==
    /\ Armed
    /\ is_pouring
    /\ Small(w - last_weight_g)
    /\ pour_start > PourSettle
    /\ srv_last_pour' = pour_start_g - w
    /\ NoPour
    /\ last_stable_g' = w
    /\ last_weight_g' = w
    /\ UNCHANGED have_baseline

EndPour(w) ==
    /\ Armed
    /\ is_pouring
    /\ Small(w - last_weight_g)
    /\ pour_start > PourSettle
    /\ srv_last_pour' = IF pour_start_g - w > 0 THEN pour_start_g - w
                                                ELSE srv_last_pour
    /\ NoPour
    /\ last_stable_g' = w
    /\ last_weight_g' = w
    /\ UNCHANGED have_baseline

UpdatePourState(w) ==
    \/ FirstBaseline(w)
    \/ Arming(w)
    \/ StartPour(w)
    \/ Idle(w)
    \/ PourMoving(w)
    \/ PourSettling(w)
    \/ EndPour(w)

\* Mutant of Push: last_send_ms is set on every pass.
PushRestarts ==
    /\ srv_is_pouring' = IF is_pouring' # is_pouring \/ last_send >= SendInterval
                         THEN is_pouring' ELSE srv_is_pouring
    /\ last_send' = 0

\* loop(): publishKegData() when the pour state changed or the interval is over.
Push ==
    IF is_pouring' # is_pouring \/ last_send >= SendInterval
    THEN srv_is_pouring' = is_pouring' /\ last_send' = 0
    ELSE UNCHANGED <<srv_is_pouring, last_send>>

\* The end of loop(), reached only while authenticated.  readWeightGrams()
\* measures the load, or returns last_weight_g when the HX711 has no new
\* conversion (which is the rule just after any other reading).
Iterate ==
    /\ authed
    /\ \E ready \in BOOLEAN :
         LET w == IF ready THEN Deadband(load) ELSE last_weight_g IN
         /\ UpdatePourState(w)
         /\ peak' = IF ready /\ w > peak THEN w ELSE peak
    /\ Push
    /\ gap' = 0
    /\ stale' = IF srv_is_pouring' = is_pouring' THEN 0 ELSE stale
    /\ calm' = IF is_pouring /\ is_pouring' THEN calm ELSE 0
    /\ UNCHANGED <<load, authed, pour_arm, armAge>>

-----------------------------------------------------------------------------
(***************************************************************************)
(* Operations outside the pass.                                            *)
(***************************************************************************)

\* Mutant of Tare: keeps the last reading of the scale before the tare.
TareKeepsReading ==
    /\ load' = 0
    /\ have_baseline' = FALSE
    /\ NoPour
    /\ Arm
    /\ calm' = 0
    /\ peak' = 0
    /\ UNCHANGED <<authed, last_stable_g, last_weight_g, last_send, srv_vars, gap,
                   stale>>

\* doTare(), from the button, the web page or the server: the load is the zero.
Tare ==
    /\ load' = 0
    /\ last_stable_g' = 0
    /\ last_weight_g' = 0
    /\ have_baseline' = FALSE
    /\ NoPour
    /\ Arm
    /\ calm' = 0
    /\ peak' = 0
    /\ UNCHANGED <<authed, last_send, srv_vars, gap, stale>>

\* Mutants of Calibrate: is_pouring is not reset; pour_arm_ms is not set.
CalibrateMidPour ==
    /\ load' \in Recalibrated
    /\ have_baseline' = FALSE
    /\ Arm
    /\ calm' = 0
    /\ peak' = 0
    /\ UNCHANGED <<authed, last_stable_g, last_weight_g, pour_vars, last_send,
                   srv_vars, gap, stale>>

CalibrateUnarmed ==
    /\ load' \in Recalibrated
    /\ have_baseline' = FALSE
    /\ NoPour
    /\ armAge' = 0
    /\ calm' = 0
    /\ peak' = 0
    /\ UNCHANGED <<authed, last_stable_g, last_weight_g, pour_arm, last_send,
                   srv_vars, gap, stale>>

\* doCalibrateWithKnownWeight(): the same load now reads something else.
Calibrate ==
    /\ load' \in Recalibrated
    /\ have_baseline' = FALSE
    /\ NoPour
    /\ Arm
    /\ calm' = 0
    /\ peak' = 0
    /\ UNCHANGED <<authed, last_stable_g, last_weight_g, last_send, srv_vars,
                   gap, stale>>

\* blynkProcessIncoming(), RESPONSE 200: publishKegData() and the static pins.
Connect ==
    /\ ~authed
    /\ authed' = TRUE
    /\ srv_is_pouring' = is_pouring
    /\ gap' = 0
    /\ stale' = 0
    /\ calm' = 0
    /\ UNCHANGED <<load, scale_vars, pour_vars, pour_arm, last_send,
                   srv_last_pour, armAge, peak>>

\* handleHardwareSync(): publishKegData() without touching last_send_ms.
Sync ==
    /\ authed
    /\ srv_is_pouring' = is_pouring
    /\ stale' = 0
    /\ UNCHANGED <<load, authed, scale_vars, pour_vars, pour_arm, last_send,
                   srv_last_pour, gap, armAge, calm, peak>>

\* The WiFi or TCP link is found down, a new login is sent, or an OTA starts.
Disconnect ==
    /\ authed
    /\ authed' = FALSE
    /\ gap' = 0
    /\ stale' = 0
    /\ calm' = 0
    /\ UNCHANGED <<load, scale_vars, pour_vars, pour_arm, last_send, srv_vars,
                   armAge, peak>>

\* Power loss or ESP.restart(), then setup(): the configuration survives, the
\* globals do not; the setup portal may have changed the factor meanwhile.
Reboot ==
    /\ load' \in {load} \cup Recalibrated
    /\ authed' = FALSE
    /\ have_baseline' = FALSE
    /\ last_stable_g' = 0
    /\ last_weight_g' = 0
    /\ NoPour
    /\ Arm
    /\ last_send' = 0
    /\ gap' = 0
    /\ stale' = 0
    /\ calm' = 0
    /\ peak' = 0
    /\ UNCHANGED srv_vars

\* A keg is placed or lifted, beer is poured: external.
LoadChange ==
    /\ load' \in Grams \ {load}
    /\ calm' = 0
    /\ UNCHANGED <<authed, scale_vars, pour_vars, pour_arm, last_send, srv_vars,
                   gap, armAge, stale, peak>>

\* One unit of time.  MaxGap bounds how long a live loop() stays away.
Tick ==
    /\ authed => gap < MaxGap
    /\ gap' = IF authed THEN gap + 1 ELSE 0
    /\ pour_start' = IF is_pouring THEN Advance(pour_start) ELSE 0
    /\ pour_arm' = Advance(pour_arm)
    /\ last_send' = Advance(last_send)
    /\ armAge' = IF armAge < Period THEN armAge + 1 ELSE Period
    /\ stale' = IF authed /\ srv_is_pouring # is_pouring THEN stale + 1 ELSE 0
    /\ calm' = IF authed /\ is_pouring THEN calm + 1 ELSE 0
    /\ UNCHANGED <<load, authed, scale_vars, is_pouring, pour_start_g, srv_vars,
                   peak>>

Next ==
    \/ Iterate
    \/ Tare
    \/ Calibrate
    \/ Connect
    \/ Sync
    \/ Disconnect
    \/ Reboot
    \/ LoadChange
    \/ Tick

Spec == Init /\ [][Next]_vars

-----------------------------------------------------------------------------
Weights == {0} \cup Grams \cup Recalibrated

\* Type correctness of the globals of open_keg_scale.ino:207-226 and the history.
TypeOK ==
    /\ load \in Weights
    /\ authed \in BOOLEAN
    /\ have_baseline \in BOOLEAN
    /\ last_stable_g \in Weights
    /\ last_weight_g \in Weights
    /\ is_pouring \in BOOLEAN
    /\ pour_start_g \in Weights
    /\ pour_start \in 0 .. Period - 1
    /\ pour_arm \in 0 .. Period - 1
    /\ last_send \in 0 .. Period - 1
    /\ srv_is_pouring \in BOOLEAN
    /\ srv_last_pour \in Nat
    /\ gap \in 0 .. MaxGap
    /\ armAge \in 0 .. Period
    /\ stale \in Nat
    /\ calm \in Nat
    /\ peak \in Weights

\* A pour in progress (updatePourState, ino:1194-1198) is measured from the
\* baseline, and neither a tare nor a calibration nor a disconnection in the
\* middle of it leaves a pour without its baseline.
PourFromBaseline == is_pouring => have_baseline /\ pour_start_g = last_stable_g

\* No pour starts within POUR_ARM_DELAY_MS of a boot, tare or calibration
\* (ino:1184), however the passes, the clock and its wrap-around interleave.
NoPourWhileArming ==
    [][~is_pouring /\ is_pouring' => armAge >= PourArmDelay]_vars

\* A pour volume is sent only at the end of a pour that is not resumed, is
\* positive, and is exactly how far the baseline moves down (ino:1207-1219):
\* successive reports neither overlap nor leave beer out.
ReportsAddUp ==
    [][srv_last_pour' # srv_last_pour =>
         /\ is_pouring /\ ~is_pouring'
         /\ srv_last_pour' > 0
         /\ srv_last_pour' = last_stable_g - last_stable_g']_vars

\* A pour is never measured from a weight heavier than everything the scale
\* read since it was started, zeroed or calibrated (ino:705, 810-811, 1178).
BaselineWasRead == is_pouring => pour_start_g <= peak

\* While logged in, pin 49 disagrees with is_pouring for less than the push
\* interval and two passes, also when a tare or a calibration ends a pour
\* outside the window in which loop() looks for a change (ino:1341-1348).
StaleBound == stale < SendInterval + 2 * MaxGap

\* Once the load stays put and the login lasts, a pour ends within two settle times
\* and three passes (ino:1201-1225).  The settle timer may start anew when its
\* unsigned difference wraps in the first pass, after a long time off line, and
\* once more with the conversion that shows the load after readings not ready.
PourEnds == calm <= 2 * PourSettle + 3 * MaxGap

\* ino:141, "Ignore pour detection briefly after tare/boot": detection is
\* suppressed only within POUR_ARM_DELAY_MS of a boot, tare or calibration.
ArmWindowBrief == Negative(pour_arm) => armAge < PourArmDelay

\* ino:1227, "Update stable reference when weight is not pouring and stable":
\* after a pass that read the same weight as the one before, outside a pour,
\* that weight is the baseline.
BaselineFollows ==
    [][Iterate /\ have_baseline /\ ~is_pouring /\ ~is_pouring'
         /\ last_weight_g' = last_weight_g => last_stable_g' = last_weight_g']_vars
=============================================================================
