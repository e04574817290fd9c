------------------------ MODULE PourDetectionProofs ------------------------
(***************************************************************************)
(* What holds of pour detection for every set of readings, every threshold *)
(* and every clock.                                                        *)
(***************************************************************************)
EXTENDS PourDetection, TLAPS

\* Until the arming delay is over, the age of the arming and the unsigned
\* difference the code computes from pour_arm_ms tell the same time.
ArmClock == armAge < PourArmDelay => pour_arm = armAge + Period - PourArmDelay

\* The inductive invariant behind the theorems of this module.
IInv == TypeOK /\ PourFromBaseline /\ ArmClock

-----------------------------------------------------------------------------
\* A weight the deadband returns is one the scale may show.
LEMMA DeadbandWeight ==
    ASSUME NEW w \in Weights
    PROVE  Deadband(w) \in Weights
  BY DEF Deadband, Weights

\* Weights are integers.
LEMMA WeightsAreIntegers == Weights \subseteq Int
  BY WeightAssumption DEF Weights

\* The unsigned millisecond difference stays within its width.
LEMMA AdvanceRange ==
    ASSUME NEW e \in 0 .. Period - 1
    PROVE  Advance(e) \in 0 .. Period - 1
  BY TimeAssumption DEF Advance

-----------------------------------------------------------------------------
\* The first state of a device satisfies the invariant.
LEMMA InitIInv == Init => IInv
  <1> SUFFICES ASSUME Init PROVE IInv
    OBVIOUS
  <1>1. /\ pour_arm \in 0 .. Period - 1
        /\ pour_start \in 0 .. Period - 1
        /\ last_send \in 0 .. Period - 1
        /\ gap \in 0 .. MaxGap
        /\ armAge \in 0 .. Period
        /\ stale \in Nat
        /\ srv_last_pour \in Nat
        /\ ArmClock
    BY TimeAssumption DEF Init, ArmClock
  <1>2. /\ load \in Weights
        /\ last_stable_g \in Weights
        /\ last_weight_g \in Weights
        /\ pour_start_g \in Weights
        /\ peak \in Weights
    BY DEF Init, Weights
  <1> QED
    BY <1>1, <1>2 DEF Init, IInv, TypeOK, PourFromBaseline

\* updatePourState() keeps the types and measures a pour from the baseline.
LEMMA UpdateTypes ==
    ASSUME TypeOK, PourFromBaseline, NEW w \in Weights, UpdatePourState(w)
    PROVE  /\ have_baseline' \in BOOLEAN
           /\ last_stable_g' \in Weights
           /\ last_weight_g' \in Weights
           /\ is_pouring' \in BOOLEAN
           /\ pour_start_g' \in Weights
           /\ pour_start' \in 0 .. Period - 1
           /\ srv_last_pour' \in Nat
           /\ PourFromBaseline'
  <1> USE DEF TypeOK, PourFromBaseline, pour_vars
  <1> 0 \in Weights BY DEF Weights
  <1> 0 \in 0 .. Period - 1 BY TimeAssumption
  <1>1. CASE FirstBaseline(w)
    BY <1>1 DEF FirstBaseline
  <1>2. CASE Arming(w)
    BY <1>2 DEF Arming, NoPour
  <1>3. CASE StartPour(w)
    BY <1>3 DEF StartPour, Armed
  <1>4. CASE Idle(w)
    BY <1>4 DEF Idle
  <1>5. CASE PourMoving(w)
    BY <1>5 DEF PourMoving
  <1>6. CASE PourSettling(w)
    BY <1>6 DEF PourSettling
  <1>7. CASE EndPour(w)
    <2>1. srv_last_pour' \in Nat
      BY <1>7, WeightsAreIntegers DEF EndPour
    <2> QED
      BY <1>7, <2>1 DEF EndPour, NoPour
  <1> QED
    BY <1>1, <1>2, <1>3, <1>4, <1>5, <1>6, <1>7 DEF UpdatePourState

\* Arming restarts both clocks together.
LEMMA ArmRestarts ==
    ASSUME Arm
    PROVE  /\ pour_arm' \in 0 .. Period - 1
           /\ armAge' \in 0 .. Period
           /\ ArmClock'
  BY TimeAssumption DEF Arm, ArmClock

\* Every step preserves the invariant.
LEMMA NextIInv == IInv /\ [Next]_vars => IInv'
  <1> SUFFICES ASSUME IInv, [Next]_vars
               PROVE  IInv'
    OBVIOUS
  <1> USE DEF IInv
  <1> 0 \in Weights BY DEF Weights
  <1> /\ 0 \in 0 .. Period - 1
      /\ Period - PourArmDelay \in 0 .. Period - 1
      /\ 0 \in 0 .. MaxGap
      /\ 0 \in 0 .. Period
    BY TimeAssumption
  <1>1. CASE Iterate
    <2>1. PICK ready \in BOOLEAN, w \in Weights :
            /\ UpdatePourState(w)
            /\ peak' = IF ready /\ w > peak THEN w ELSE peak
      BY <1>1, DeadbandWeight DEF Iterate, TypeOK
    <2>2. /\ have_baseline' \in BOOLEAN
          /\ last_stable_g' \in Weights
          /\ last_weight_g' \in Weights
          /\ is_pouring' \in BOOLEAN
          /\ pour_start_g' \in Weights
          /\ pour_start' \in 0 .. Period - 1
          /\ srv_last_pour' \in Nat
          /\ PourFromBaseline'
      BY <2>1, UpdateTypes
    <2>3. srv_is_pouring' \in BOOLEAN /\ last_send' \in 0 .. Period - 1
      BY <1>1, <2>2 DEF Iterate, Push, TypeOK
    <2>4. ArmClock'
      BY <1>1 DEF Iterate, ArmClock
    <2>5. /\ load' \in Weights /\ authed' \in BOOLEAN
          /\ pour_arm' \in 0 .. Period - 1 /\ armAge' \in 0 .. Period
          /\ gap' \in 0 .. MaxGap /\ stale' \in Nat /\ calm' \in Nat
          /\ peak' \in Weights
      BY <1>1, <2>1 DEF Iterate, TypeOK
    <2> QED
      BY <2>2, <2>3, <2>4, <2>5 DEF TypeOK
  <1>2. CASE Tare
    <2>1. Arm
      BY <1>2 DEF Tare
    <2> QED
      BY <1>2, <2>1, ArmRestarts
      DEF Tare, NoPour, TypeOK, PourFromBaseline, srv_vars
  <1>3. CASE Calibrate
    <2>1. load' \in Weights
      BY <1>3 DEF Calibrate, Weights
    <2>2. Arm
      BY <1>3 DEF Calibrate
    <2> QED
      BY <1>3, <2>1, <2>2, ArmRestarts
      DEF Calibrate, NoPour, TypeOK, PourFromBaseline, srv_vars
  <1>4. CASE Connect
    BY <1>4 DEF Connect, TypeOK, PourFromBaseline, ArmClock, scale_vars, pour_vars
  <1>5. CASE Sync
    BY <1>5 DEF Sync, TypeOK, PourFromBaseline, ArmClock, scale_vars, pour_vars
  <1>6. CASE Disconnect
    BY <1>6
    DEF Disconnect, TypeOK, PourFromBaseline, ArmClock, scale_vars, pour_vars,
        srv_vars
  <1>7. CASE Reboot
    <2>1. load' \in Weights
      BY <1>7 DEF Reboot, Weights, TypeOK
    <2>2. Arm
      BY <1>7 DEF Reboot
    <2> QED
      BY <1>7, <2>1, <2>2, ArmRestarts
      DEF Reboot, NoPour, TypeOK, PourFromBaseline, srv_vars
  <1>8. CASE LoadChange
    <2>1. load' \in Weights
      BY <1>8 DEF LoadChange, Weights
    <2> QED
      BY <1>8, <2>1
      DEF LoadChange, TypeOK, PourFromBaseline, ArmClock, scale_vars, pour_vars,
          srv_vars
  <1>9. CASE Tick
    <2>1. /\ pour_start' \in 0 .. Period - 1
          /\ pour_arm' \in 0 .. Period - 1
          /\ last_send' \in 0 .. Period - 1
      BY <1>9, AdvanceRange DEF Tick, TypeOK
    <2>2. armAge' \in 0 .. Period /\ gap' \in 0 .. MaxGap /\ stale' \in Nat
      BY <1>9, TimeAssumption DEF Tick, TypeOK
    <2>3. ArmClock'
      BY <1>9, TimeAssumption DEF Tick, TypeOK, ArmClock, Advance
    <2> QED
      BY <1>9, <2>1, <2>2, <2>3
      DEF Tick, TypeOK, PourFromBaseline, scale_vars, srv_vars
  <1>10. CASE UNCHANGED vars
    BY <1>10
    DEF vars, TypeOK, PourFromBaseline, ArmClock, scale_vars, pour_vars, srv_vars
  <1> QED
    BY <1>1, <1>2, <1>3, <1>4, <1>5, <1>6, <1>7, <1>8, <1>9, <1>10 DEF Next

\* The invariant holds of every behaviour.
LEMMA Inductive == Spec => []IInv
  BY InitIInv, NextIInv, PTL DEF Spec

-----------------------------------------------------------------------------
\* The globals of the firmware keep their types, the unsigned differences
\* their width and a reported volume its sign.
THEOREM TypeCorrect == Spec => []TypeOK
  BY Inductive, PTL DEF IInv

\* ino:1194-1198: a pour is measured from the baseline, whatever tares,
\* calibrations, logins and outages happen during it.
THEOREM PourKeepsBaseline == Spec => []PourFromBaseline
  BY Inductive, PTL DEF IInv

\* A step that starts a pour is a pass that took the branch of ino:1194.
LEMMA PourStarts ==
    ASSUME TypeOK, [Next]_vars, ~is_pouring, is_pouring'
    PROVE  Iterate /\ Armed
  <1>1. CASE Iterate
    <2>1. PICK w : UpdatePourState(w)
      BY <1>1 DEF Iterate
    <2>2. StartPour(w)
      BY <2>1
      DEF UpdatePourState, FirstBaseline, Arming, Idle, PourMoving, PourSettling,
          EndPour, NoPour, pour_vars
    <2> QED
      BY <1>1, <2>2 DEF StartPour
  <1>2. CASE Tare \/ Calibrate \/ Reboot
    BY <1>2 DEF Tare, Calibrate, Reboot, NoPour
  <1>3. CASE Connect \/ Sync \/ Disconnect \/ LoadChange \/ Tick
    BY <1>3 DEF Connect, Sync, Disconnect, LoadChange, Tick, pour_vars
  <1>4. CASE UNCHANGED vars
    BY <1>4 DEF vars, pour_vars
  <1> QED
    BY <1>1, <1>2, <1>3, <1>4 DEF Next

\* The comparison of ino:1184 suppresses every pass of the arming delay.
LEMMA ArmedIsOld ==
    ASSUME IInv, Armed
    PROVE  armAge >= PourArmDelay
  BY TimeAssumption DEF IInv, TypeOK, ArmClock, Armed, Negative

\* ino:1184: no pour starts within POUR_ARM_DELAY_MS of a boot, a tare or a
\* calibration, for every period of the clock of at least twice the delay.
THEOREM ArmingHolds == Spec => NoPourWhileArming
  <1>1. IInv /\ [Next]_vars => (~is_pouring /\ is_pouring' => armAge >= PourArmDelay)
    BY PourStarts, ArmedIsOld DEF IInv
  <1>2. IInv /\ [Next]_vars
          => [~is_pouring /\ is_pouring' => armAge >= PourArmDelay]_vars
    BY <1>1
  <1> QED
    BY Inductive, <1>2, PTL DEF Spec, NoPourWhileArming

-----------------------------------------------------------------------------
\* The step of updatePourState() that changes the reported volume.
LEMMA ReportStep ==
    ASSUME TypeOK, PourFromBaseline, NEW w \in Weights, UpdatePourState(w),
           srv_last_pour' # srv_last_pour
    PROVE  /\ is_pouring /\ ~is_pouring'
           /\ srv_last_pour' > 0
           /\ srv_last_pour' = last_stable_g - last_stable_g'
  <1>1. EndPour(w)
    BY DEF UpdatePourState, FirstBaseline, Arming, StartPour, Idle, PourMoving,
           PourSettling
  <1>2. is_pouring /\ ~is_pouring' /\ last_stable_g' = w
    BY <1>1 DEF EndPour, NoPour
  <1>3. pour_start_g = last_stable_g
    BY <1>2 DEF PourFromBaseline
  <1>4. srv_last_pour' = pour_start_g - w /\ pour_start_g - w > 0
    BY <1>1 DEF EndPour
  <1> QED
    BY <1>2, <1>3, <1>4

\* ino:1207-1219: the volumes reported to the server are positive and add up
\* to the movements of the baseline, for every sequence of readings.
THEOREM ReportsAreExact == Spec => ReportsAddUp
  <1> DEFINE Exact == srv_last_pour' # srv_last_pour =>
                        /\ is_pouring /\ ~is_pouring'
                        /\ srv_last_pour' > 0
                        /\ srv_last_pour' = last_stable_g - last_stable_g'
  <1>1. IInv /\ [Next]_vars => Exact
    <2> SUFFICES ASSUME IInv, [Next]_vars, srv_last_pour' # srv_last_pour
                 PROVE  Exact
      OBVIOUS
    <2>1. Iterate
      BY DEF Next, vars, srv_vars, Tare, Calibrate, Connect, Sync, Disconnect,
             Reboot, LoadChange, Tick
    <2>2. PICK w \in Weights : UpdatePourState(w)
      BY <2>1, DeadbandWeight DEF Iterate, IInv, TypeOK
    <2> QED
      BY <2>2, ReportStep DEF IInv
  <1>2. IInv /\ [Next]_vars => [Exact]_vars
    BY <1>1
  <1> QED
    BY Inductive, <1>2, PTL DEF Spec, ReportsAddUp

-----------------------------------------------------------------------------
\* What no pass has read is never the baseline of a scale that is not
\* calibrated while it runs.
PeakInv ==
    /\ last_stable_g <= peak
    /\ last_weight_g <= peak
    /\ is_pouring => pour_start_g <= peak

\* A pass reads at most the peak and takes its baseline from what it read.
LEMMA UpdatePeak ==
    ASSUME TypeOK, PeakInv, NEW w \in Weights, UpdatePourState(w),
           peak' \in Weights, peak <= peak', w <= peak'
    PROVE  PeakInv'
  <1> USE WeightsAreIntegers DEF TypeOK, PeakInv, pour_vars
  <1> 0 \in Weights BY DEF Weights
  <1>0. last_stable_g <= peak' /\ last_weight_g <= peak'
    OBVIOUS
  <1>1. CASE FirstBaseline(w)
    BY <1>0, <1>1 DEF FirstBaseline
  <1>2. CASE Arming(w)
    BY <1>0, <1>2 DEF Arming, NoPour
  <1>3. CASE StartPour(w)
    BY <1>0, <1>3 DEF StartPour
  <1>4. CASE Idle(w)
    BY <1>0, <1>4 DEF Idle
  <1>5. CASE PourMoving(w)
    BY <1>0, <1>5 DEF PourMoving
  <1>6. CASE PourSettling(w)
    BY <1>0, <1>6 DEF PourSettling
  <1>7. CASE EndPour(w)
    BY <1>0, <1>7 DEF EndPour, NoPour
  <1> QED
    BY <1>1, <1>2, <1>3, <1>4, <1>5, <1>6, <1>7 DEF UpdatePourState

\* Every step of a scale that is not calibrated preserves PeakInv.
LEMMA NextPeak ==
    ASSUME Recalibrated = {}
    PROVE  IInv /\ PeakInv /\ [Next]_vars => PeakInv'
  <1> SUFFICES ASSUME IInv, PeakInv, [Next]_vars
               PROVE  PeakInv'
    OBVIOUS
  <1>1. CASE Iterate
    <2>1. PICK ready \in BOOLEAN, w \in Weights :
            /\ w = (IF ready THEN Deadband(load) ELSE last_weight_g)
            /\ UpdatePourState(w)
            /\ peak' = IF ready /\ w > peak THEN w ELSE peak
      BY <1>1, DeadbandWeight DEF Iterate, IInv, TypeOK
    <2>2. peak' \in Weights /\ peak <= peak' /\ w <= peak'
      BY <2>1, WeightsAreIntegers DEF PeakInv, IInv, TypeOK
    <2> QED
      BY <2>1, <2>2, UpdatePeak DEF IInv
  <1>2. CASE Tare \/ Reboot
    BY <1>2 DEF Tare, Reboot, NoPour, PeakInv
  <1>3. CASE Calibrate
    BY <1>3 DEF Calibrate
  <1>4. CASE Connect \/ Sync \/ Disconnect \/ LoadChange
    BY <1>4
    DEF Connect, Sync, Disconnect, LoadChange, PeakInv, scale_vars, pour_vars
  <1>5. CASE Tick
    BY <1>5 DEF Tick, PeakInv, scale_vars
  <1>6. CASE UNCHANGED vars
    BY <1>6 DEF vars, PeakInv, scale_vars, pour_vars
  <1> QED
    BY <1>1, <1>2, <1>3, <1>4, <1>5, <1>6 DEF Next

\* ino:705, 810-811, 1178: a scale that is not calibrated while it runs never
\* measures a pour from a weight above everything it has read.
THEOREM NoPhantomPour ==
    ASSUME Recalibrated = {}
    PROVE  Spec => []BaselineWasRead
  <1>1. Init => PeakInv
    BY DEF Init, PeakInv
  <1>2. PeakInv => BaselineWasRead
    BY DEF PeakInv, BaselineWasRead
  <1> QED
    BY Inductive, NextPeak, <1>1, <1>2, PTL DEF Spec
-----------------------------------------------------------------------------
(***************************************************************************)
(* How long the server may be wrong about a pour.                          *)
(***************************************************************************)

\* The inductive invariant behind StaleBound: no pass was over since the login or
\* the last push, or the last one found the interval not over, since when the
\* clock has not wrapped.
StaleInv ==
    /\ ~authed => stale = 0
    /\ authed => \/ stale <= gap
                 \/ last_send < SendInterval + gap /\ stale <= last_send + MaxGap

\* A pass pushes, or finds that the interval is not over.
LEMMA PassPushes ==
    ASSUME TypeOK, StaleInv, Iterate
    PROVE  StaleInv'
  <1>1. authed /\ authed' = authed /\ gap' = 0
    BY DEF Iterate
  <1>2. /\ stale \in Nat /\ gap \in 0 .. MaxGap /\ last_send \in Nat
        /\ SendInterval \in Nat /\ MaxGap \in Nat
    BY TimeAssumption DEF TypeOK
  <1>3. CASE is_pouring' # is_pouring \/ last_send >= SendInterval
    <2>1. stale' = 0
      BY <1>3 DEF Iterate, Push
    <2> QED
      BY <1>1, <2>1 DEF StaleInv
  <1>4. CASE ~(is_pouring' # is_pouring \/ last_send >= SendInterval)
    <2>1. last_send' = last_send /\ last_send < SendInterval
      BY <1>2, <1>4 DEF Iterate, Push
    <2>2. stale' \in {0, stale}
      BY DEF Iterate
    <2>3. stale <= last_send + MaxGap
      BY <1>1, <1>2 DEF StaleInv
    <2> QED
      BY <1>1, <1>2, <2>1, <2>2, <2>3 DEF StaleInv
  <1> QED
    BY <1>3, <1>4

\* Time passes: last_send does not wrap between two passes.
LEMMA StaleWaits ==
    ASSUME TypeOK, StaleInv, Tick
    PROVE  StaleInv'
  <1>1. /\ stale \in Nat /\ gap \in Nat /\ last_send \in 0 .. Period - 1
        /\ SendInterval \in Nat /\ MaxGap \in Nat /\ Period \in Nat
    BY TimeAssumption DEF TypeOK
  <1>2. authed' = authed
    BY DEF Tick
  <1>3. CASE ~authed
    BY <1>2, <1>3 DEF Tick, StaleInv
  <1>4. CASE authed
    <2>1. gap < MaxGap /\ gap' = gap + 1 /\ stale' \in {0, stale + 1}
      BY <1>4 DEF Tick
    <2>2. CASE stale <= gap
      BY <1>1, <1>2, <1>4, <2>1, <2>2 DEF StaleInv
    <2>3. CASE last_send < SendInterval + gap /\ stale <= last_send + MaxGap
      <3>1. last_send + 1 < Period
        BY <1>1, <2>1, <2>3, PassAssumption
      <3>2. last_send' = last_send + 1
        BY <1>1, <3>1 DEF Tick, Advance
      <3> QED
        BY <1>1, <1>2, <1>4, <2>1, <2>3, <3>2 DEF StaleInv
    <2> QED
      BY <1>4, <2>2, <2>3 DEF StaleInv
  <1> QED
    BY <1>3, <1>4

\* Every step keeps the bound.
LEMMA NextStale == TypeOK /\ StaleInv /\ [Next]_vars => StaleInv'
  <1> SUFFICES ASSUME TypeOK, StaleInv, [Next]_vars
               PROVE  StaleInv'
    OBVIOUS
  <1>1. CASE Iterate
    BY <1>1, PassPushes
  <1>2. CASE Tick
    BY <1>2, StaleWaits
  <1>3. CASE Connect \/ Sync \/ Disconnect \/ Reboot
    <2>1. stale' = 0 /\ gap' \in Nat
      BY <1>3, TimeAssumption DEF Connect, Sync, Disconnect, Reboot, TypeOK
    <2> QED
      BY <2>1 DEF StaleInv
  <1>4. CASE Tare \/ Calibrate \/ LoadChange \/ UNCHANGED vars
    BY <1>4 DEF Tare, Calibrate, LoadChange, vars, StaleInv
  <1> QED
    BY <1>1, <1>2, <1>3, <1>4 DEF Next

\* ino:1341-1348: whatever ends a pour, and wherever last_send_ms stood at the
\* login, pin 49 is right again within the push interval and two passes.
THEOREM ServerCatchesUp == Spec => []StaleBound
  <1>1. Init => StaleInv
    BY DEF Init, StaleInv
  <1>2. TypeOK /\ StaleInv => StaleBound
    BY TimeAssumption DEF TypeOK, StaleInv, StaleBound
  <1> QED
    BY TypeCorrect, NextStale, <1>1, <1>2, PTL DEF Spec

-----------------------------------------------------------------------------
(***************************************************************************)
(* How long a pour lasts once the load stays put.                          *)
(***************************************************************************)

\* Where a pour stands since the load came to rest: no pass was over; the settle
\* timer was tested, or restarted by the first pass; or the conversion that shows
\* the load has restarted it.
Resting  == calm <= gap
Settling == pour_start <= PourSettle + gap /\ calm <= pour_start + MaxGap
Settled  == /\ last_weight_g = Deadband(load)
            /\ pour_start <= PourSettle + gap
            /\ calm <= pour_start + PourSettle + 2 * MaxGap

\* The inductive invariant behind PourEnds.
CalmInv ==
    /\ ~(authed /\ is_pouring) => calm = 0
    /\ authed /\ is_pouring => Resting \/ Settling \/ Settled

\* A reading that equals the one before is stable.
LEMMA SameIsSmall ==
    ASSUME NEW v \in Int
    PROVE  Small(v - v)
  BY WeightAssumption DEF Small, Abs

\* A pass in the middle of a pour restarts the settle timer on a reading that
\* moved, or finds the settle time not over.
LEMMA PourGoesOn ==
    ASSUME TypeOK, PourFromBaseline, Iterate, is_pouring, is_pouring'
    PROVE  \/ /\ pour_start' = 0 /\ last_weight_g' = Deadband(load)
              /\ last_weight_g # Deadband(load)
           \/ /\ pour_start <= PourSettle /\ pour_start' = pour_start
              /\ last_weight_g' \in {last_weight_g, Deadband(load)}
  <1>1. PICK w \in {last_weight_g, Deadband(load)} : UpdatePourState(w)
    BY DEF Iterate
  <1>2. last_weight_g \in Int
    BY WeightsAreIntegers DEF TypeOK
  <1>3. PourMoving(w) \/ PourSettling(w)
    BY <1>1
    DEF UpdatePourState, FirstBaseline, Arming, StartPour, Idle, EndPour, NoPour,
        PourFromBaseline
  <1>4. CASE PourMoving(w)
    <2>1. w # last_weight_g
      BY <1>2, <1>4, SameIsSmall DEF PourMoving
    <2> QED
      BY <1>1, <1>4, <2>1 DEF PourMoving
  <1>5. CASE PourSettling(w)
    BY <1>1, <1>5 DEF PourSettling, pour_vars
  <1> QED
    BY <1>3, <1>4, <1>5

\* A pass keeps the invariant.
LEMMA CalmPass ==
    ASSUME TypeOK, PourFromBaseline, CalmInv, Iterate
    PROVE  CalmInv'
  <1>1. CASE ~(is_pouring /\ is_pouring')
    <2>1. calm' = 0 /\ gap' = 0
      BY <1>1 DEF Iterate
    <2> QED
      BY <2>1 DEF CalmInv, Resting
  <1>2. CASE is_pouring /\ is_pouring'
    <2>1. /\ pour_start \in Nat /\ gap \in 0 .. MaxGap /\ calm \in Nat
          /\ PourSettle \in Nat /\ MaxGap \in Nat
      BY TimeAssumption DEF TypeOK
    <2>2. calm' = calm /\ gap' = 0 /\ Deadband(load)' = Deadband(load)
      BY <1>2 DEF Iterate
    <2>3. Resting \/ Settling \/ Settled
      BY <1>2 DEF Iterate, CalmInv
    <2> SUFFICES Resting' \/ Settling' \/ Settled'
      BY <1>2 DEF Iterate, CalmInv
    <2>4. CASE /\ pour_start' = 0 /\ last_weight_g' = Deadband(load)
               /\ last_weight_g # Deadband(load)
      <3>1. CASE Resting
        BY <2>1, <2>2, <2>4, <3>1 DEF Resting, Settling
      <3>2. CASE Settling
        BY <2>1, <2>2, <2>4, <3>2 DEF Settling, Settled
      <3> QED
        BY <2>3, <2>4, <3>1, <3>2 DEF Settled
    <2>5. CASE /\ pour_start <= PourSettle /\ pour_start' = pour_start
               /\ last_weight_g' \in {last_weight_g, Deadband(load)}
      <3>1. CASE Resting \/ Settling
        BY <2>1, <2>2, <2>5, <3>1 DEF Resting, Settling
      <3>2. CASE Settled
        BY <2>1, <2>2, <2>5, <3>2 DEF Settled
      <3> QED
        BY <2>3, <3>1, <3>2
    <2> QED
      BY <1>2, <2>4, <2>5, PourGoesOn
  <1> QED
    BY <1>1, <1>2

\* Time passes: a settle timer that was tested does not wrap between two passes.
LEMMA CalmWaits ==
    ASSUME TypeOK, CalmInv, Tick
    PROVE  CalmInv'
  <1>1. /\ pour_start \in 0 .. Period - 1 /\ gap \in Nat /\ calm \in Nat
        /\ PourSettle \in Nat /\ MaxGap \in Nat /\ Period \in Nat
    BY TimeAssumption DEF TypeOK
  <1>2. authed' = authed /\ is_pouring' = is_pouring
    BY DEF Tick
  <1>3. last_weight_g' = last_weight_g /\ Deadband(load)' = Deadband(load)
    BY DEF Tick, scale_vars
  <1>4. CASE ~(authed /\ is_pouring)
    BY <1>2, <1>4 DEF Tick, CalmInv
  <1>5. CASE authed /\ is_pouring
    <2>1. gap < MaxGap /\ gap' = gap + 1 /\ calm' = calm + 1
      BY <1>5 DEF Tick
    <2>2. CASE Resting
      BY <1>1, <1>2, <1>5, <2>1, <2>2 DEF CalmInv, Resting
    <2>3. CASE Settling \/ Settled
      <3>1. pour_start + 1 < Period
        BY <1>1, <2>1, <2>3, PassAssumption DEF Settling, Settled
      <3>2. pour_start' = pour_start + 1
        BY <1>1, <1>5, <3>1 DEF Tick, Advance
      <3>3. Settling' \/ Settled'
        BY <1>1, <1>3, <2>1, <2>3, <3>2 DEF Settling, Settled
      <3> QED
        BY <1>2, <1>5, <3>3 DEF CalmInv
    <2> QED
      BY <1>5, <2>2, <2>3 DEF CalmInv
  <1> QED
    BY <1>4, <1>5

\* Every step keeps the invariant.
LEMMA NextCalm == TypeOK /\ PourFromBaseline /\ CalmInv /\ [Next]_vars => CalmInv'
  <1> SUFFICES ASSUME TypeOK, PourFromBaseline, CalmInv, [Next]_vars
               PROVE  CalmInv'
    OBVIOUS
  <1>1. CASE Iterate
    BY <1>1, CalmPass
  <1>2. CASE Tick
    BY <1>2, CalmWaits
  <1>3. CASE Tare \/ Calibrate \/ Connect \/ Disconnect \/ Reboot \/ LoadChange
    <2>1. calm' = 0 /\ gap' \in Nat
      BY <1>3, TimeAssumption
      DEF Tare, Calibrate, Connect, Disconnect, Reboot, LoadChange, TypeOK
    <2> QED
      BY <2>1 DEF CalmInv, Resting
  <1>4. CASE Sync \/ UNCHANGED vars
    BY <1>4 DEF Sync, vars, scale_vars, pour_vars, CalmInv, Resting, Settling,
                Settled, Deadband, Abs
  <1> QED
    BY <1>1, <1>2, <1>3, <1>4 DEF Next

\* ino:1201-1225: a pour ends within two settle times and three passes of the load
\* coming to rest, for every sequence of readings, ready or not, and every value
\* of the settle timer at the login.
THEOREM PoursEnd == Spec => []PourEnds
  <1>1. Init => CalmInv
    BY DEF Init, CalmInv
  <1>2. TypeOK /\ CalmInv => PourEnds
    BY TimeAssumption
    DEF TypeOK, CalmInv, Resting, Settling, Settled, PourEnds
  <1> QED
    BY TypeCorrect, PourKeepsBaseline, NextCalm, <1>1, <1>2, PTL DEF Spec
=============================================================================
