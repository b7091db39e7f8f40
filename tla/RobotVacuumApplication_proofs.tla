-------------------- MODULE RobotVacuumApplication_proofs --------------------
(***************************************************************************)
(* Proofs about the application: the controller's invariant survives RESET *)
(* and the guard of POWER_TIMEOUT, and the application's own copy of the   *)
(* inputs stays true, for every increased level and every order of         *)
(* commands.  What the controller's methods do is cited from the proofs    *)
(* about the controller; only RESET and the shadows are new.               *)
(***************************************************************************)
EXTENDS RobotVacuumApplication, ControllerSteps_proofs

-----------------------------------------------------------------------------
(***************************************************************************)
(* The inductive invariant.  The two facts about the shadows are not       *)
(* inductive alone: an accepted POWER_TIMEOUT clears the dust shadow, which *)
(* is right only because a timer runs exactly while a response is active.  *)
(***************************************************************************)
AppInv ==
    /\ IInv
    /\ AppTypeOK
    /\ ShadowsMatchSensors
    /\ DustFlagShowsResponse

\* Init gives the controller's invariant in the next state as well.
LEMMA InitEstablishesIInvAfter == Init' => IInv'
  BY InitEstablishesIInv, PTL

\* A new application: what is known of the sensors is what it shows.
LEMMA InitEstablishesAppInv == AppInit => AppInv
<1> SUFFICES ASSUME AppInit PROVE AppInv
  OBVIOUS
<1>1. IInv /\ TypeOK
  BY InitEstablishesIInv DEF AppInit, IInv
<1>2. shadow \in SensorStates /\ accepted \in BOOLEAN
  BY DEF AppInit, InitSensorState, SensorStates, BackStates
<1> QED
  BY <1>1, <1>2
  DEF AppInit, Init, InitSensorState, InitAutomaticCleaning, AppInv, AppTypeOK,
      ShadowsMatchSensors, DustFlagShowsResponse

-----------------------------------------------------------------------------
(***************************************************************************)
(* One lemma per command.                                                  *)
(***************************************************************************)

\* The devices, the shadows and the controller start again.
LEMMA ResetKeepsAppInv ==
    ASSUME Reset
    PROVE  AppInv'
<1>1. Init'
  BY DEF Reset, Return, Init
<1>2. IInv' /\ TypeOK'
  BY <1>1, InitEstablishesIInvAfter DEF IInv
<1>3. shadow' = InitSensorState /\ accepted' = TRUE
  BY DEF Reset
<1>4. shadow' \in SensorStates
  BY <1>3 DEF InitSensorState, SensorStates, BackStates
<1> QED
  BY <1>1, <1>2, <1>3, <1>4
  DEF Init, InitSensorState, InitAutomaticCleaning, AppInv, AppTypeOK,
      ShadowsMatchSensors, DustFlagShowsResponse

(***************************************************************************)
(* An obstacle report that updates the shadow as it updates the sensors,   *)
(* and answers the dust response or leaves it alone.                       *)
(***************************************************************************)
LEMMA ReportKeepsAppInv ==
    ASSUME AppInv, IInv', Answers(ac'), accepted' = TRUE,
           shadow' \in SensorStates, shadow'.dust = shadow.dust,
           shadow'.front = sensor'.front, shadow'.back = sensor'.back,
           shadow'.left = sensor'.left
    PROVE  AppInv'
<1>1. (ac'.dustActive \/ ac'.pending) <=> (ac.dustActive \/ ac.pending)
  BY DEF Answers, SameResponse
<1>2. shadow.dust <=> ac.dustActive \/ ac.pending
  BY DEF AppInv, DustFlagShowsResponse
<1>3. ShadowsMatchSensors' /\ DustFlagShowsResponse'
  BY <1>1, <1>2 DEF ShadowsMatchSensors, DustFlagShowsResponse
<1> QED BY <1>3 DEF AppInv, AppTypeOK, IInv

\* What a report writes to the sensors, whichever path it takes.
LEMMA SensedValues ==
    /\ \A front : ReportFrontObstacleState(front) =>
                    sensor' = [sensor EXCEPT !.front = front]
    /\ \A back : ReportBackObstacleState(back) =>
                    sensor' = [sensor EXCEPT !.back = back]
    /\ \A left : ReportLeftObstacleState(left) =>
                    sensor' = [sensor EXCEPT !.left = left]
    /\ \A front, back, left :
         ReportObstacleState(front, back, left) =>
           sensor' = [sensor EXCEPT !.front = front, !.back = back,
                                    !.left = left]
<1>1. ASSUME NEW front, ReportFrontObstacleState(front)
      PROVE  sensor' = [sensor EXCEPT !.front = front]
  BY <1>1 DEF ReportFrontObstacleState, Return
<1>2. ASSUME NEW back, ReportBackObstacleState(back)
      PROVE  sensor' = [sensor EXCEPT !.back = back]
  BY <1>2 DEF ReportBackObstacleState, Return
<1>3. ASSUME NEW left, ReportLeftObstacleState(left)
      PROVE  sensor' = [sensor EXCEPT !.left = left]
  BY <1>3 DEF ReportLeftObstacleState, Return
<1>4. ASSUME NEW front, NEW back, NEW left,
             ReportObstacleState(front, back, left)
      PROVE  sensor' = [sensor EXCEPT !.front = front, !.back = back,
                                      !.left = left]
  BY <1>4 DEF ReportObstacleState, Return
<1> QED BY <1>1, <1>2, <1>3, <1>4

\* SET_FRONT
LEMMA SetFrontKeepsAppInv ==
    ASSUME AppInv, NEW front \in BOOLEAN, SetFrontObstacle(front)
    PROVE  AppInv'
<1>1. /\ ReportFrontObstacleState(front) /\ accepted' = TRUE
      /\ shadow' = [shadow EXCEPT !.front = front]
  BY DEF SetFrontObstacle
<1>2. IInv' /\ Answers(ac')
  BY <1>1, FrontKeepsIInv, FrontFits DEF AppInv
<1>3. sensor' = [sensor EXCEPT !.front = front]
  BY <1>1, SensedValues
<1> QED
  BY <1>1, <1>2, <1>3, ReportKeepsAppInv
  DEF AppInv, AppTypeOK, TypeOK, ShadowsMatchSensors, SensorStates

\* SET_BACK
LEMMA SetBackKeepsAppInv ==
    ASSUME AppInv, NEW back \in BackStates, SetBackObstacle(back)
    PROVE  AppInv'
<1>1. /\ ReportBackObstacleState(back) /\ accepted' = TRUE
      /\ shadow' = [shadow EXCEPT !.back = back]
  BY DEF SetBackObstacle
<1>2. IInv' /\ Answers(ac')
  BY <1>1, BackKeepsIInv, BackFits DEF AppInv
<1>3. sensor' = [sensor EXCEPT !.back = back]
  BY <1>1, SensedValues
<1> QED
  BY <1>1, <1>2, <1>3, ReportKeepsAppInv
  DEF AppInv, AppTypeOK, TypeOK, ShadowsMatchSensors, SensorStates

\* SET_LEFT
LEMMA SetLeftKeepsAppInv ==
    ASSUME AppInv, NEW left \in BOOLEAN, SetLeftObstacle(left)
    PROVE  AppInv'
<1>1. /\ ReportLeftObstacleState(left) /\ accepted' = TRUE
      /\ shadow' = [shadow EXCEPT !.left = left]
  BY DEF SetLeftObstacle
<1>2. IInv' /\ Answers(ac')
  BY <1>1, LeftKeepsIInv, LeftFits DEF AppInv
<1>3. sensor' = [sensor EXCEPT !.left = left]
  BY <1>1, SensedValues
<1> QED
  BY <1>1, <1>2, <1>3, ReportKeepsAppInv
  DEF AppInv, AppTypeOK, TypeOK, ShadowsMatchSensors, SensorStates

\* SET_OBSTACLES
LEMMA SetObstaclesKeepsAppInv ==
    ASSUME AppInv, NEW front \in BOOLEAN, NEW back \in BackStates,
           NEW left \in BOOLEAN, SetObstacleState(front, back, left)
    PROVE  AppInv'
<1>1. /\ ReportObstacleState(front, back, left) /\ accepted' = TRUE
      /\ shadow' = [shadow EXCEPT !.front = front, !.back = back,
                                  !.left = left]
  BY DEF SetObstacleState
<1>2. IInv' /\ Answers(ac')
  BY <1>1, SnapshotKeepsIInv, SnapshotFits DEF AppInv
<1>3. sensor' = [sensor EXCEPT !.front = front, !.back = back, !.left = left]
  BY <1>1, SensedValues
<1> QED
  BY <1>1, <1>2, <1>3, ReportKeepsAppInv
  DEF AppInv, AppTypeOK, TypeOK, ShadowsMatchSensors, SensorStates

\* DUST: served or put off, the flag shows it.
LEMMA AppDustKeepsAppInv ==
    ASSUME AppInv, AppReportDustDetected
    PROVE  AppInv'
<1>1. /\ ReportDustDetected /\ accepted' = TRUE
      /\ shadow' = [shadow EXCEPT !.dust = TRUE]
  BY DEF AppReportDustDetected
<1>2. IInv' /\ (ac'.dustActive \/ ac'.pending)
  BY <1>1, DustKeepsIInv, DustFits DEF AppInv
<1>3. sensor' = [sensor EXCEPT !.dust = TRUE]
  BY <1>1 DEF ReportDustDetected, Return
<1>4. shadow' \in SensorStates /\ shadow'.dust
  BY <1>1 DEF AppInv, AppTypeOK, SensorStates
<1>5. ShadowsMatchSensors'
  BY <1>1, <1>3
  DEF AppInv, AppTypeOK, TypeOK, ShadowsMatchSensors, SensorStates
<1> QED
  BY <1>1, <1>2, <1>4, <1>5 DEF AppInv, AppTypeOK, IInv, DustFlagShowsResponse

\* Under the invariant a timer runs exactly while a response is active.
LEMMA TimerMeansResponse ==
    ASSUME AppInv
    PROVE  timer <=> ac.dustActive
  BY DefaultPolicyAssumption DEF AppInv, IInv, TimerCoversResponse

\* A refused POWER_TIMEOUT only clears the list of calls.
LEMMA RefusedTimeout ==
    ASSUME AppInv, ExpirePowerTimer, ~timer
    PROVE  /\ UNCHANGED <<ac, sensor, drive, power, timer, shadow>>
           /\ calls' = <<>> /\ accepted' = FALSE
  BY DEF ExpirePowerTimer, Return, NothingToDo, Devices

\* POWER_TIMEOUT: refused, or the response and its flag end together.
LEMMA ExpireKeepsAppInv ==
    ASSUME AppInv, ExpirePowerTimer
    PROVE  AppInv'
<1>1. CASE ~timer
  <2>1. /\ UNCHANGED <<ac, sensor, drive, power, timer, shadow>>
        /\ calls' = <<>> /\ accepted' = FALSE
    BY <1>1, RefusedTimeout
  <2>2. calls' \in Seq(DeviceCalls)
    BY <2>1
  <2>3. IInv'
    BY <2>1, <2>2
    DEF AppInv, IInv, TypeOK, ForwardOnlyIntoClearSpace, StatusMatchesDrive,
        BlockRestsOnProbe, PowerFollowsResponse, TimerCoversResponse,
        PendingUnderResponse, NoTraceBeforeDrive
  <2> QED
    BY <2>1, <2>3
    DEF AppInv, AppTypeOK, IInv, ShadowsMatchSensors, DustFlagShowsResponse
<1>2. CASE timer
  <2>1. /\ IncreasedPowerDurationExpired /\ accepted' = TRUE
        /\ shadow' = [shadow EXCEPT !.dust = FALSE]
    BY <1>2 DEF ExpirePowerTimer
  <2>2. ac.dustActive
    BY <1>2, TimerMeansResponse
  <2>3. IInv' /\ ~ac'.dustActive /\ ac'.pending = FALSE
    BY <2>1, <2>2, TimeoutKeepsIInv, TimeoutFits DEF AppInv
  <2>4. sensor' = sensor
    BY <2>1 DEF IncreasedPowerDurationExpired, Return
  <2>5. shadow' \in SensorStates /\ ~shadow'.dust
    BY <2>1 DEF AppInv, AppTypeOK, SensorStates
  <2>6. ShadowsMatchSensors'
    BY <2>1, <2>4 DEF AppInv, AppTypeOK, ShadowsMatchSensors, SensorStates
  <2> QED
    BY <2>1, <2>3, <2>5, <2>6
    DEF AppInv, AppTypeOK, IInv, DustFlagShowsResponse
<1> QED BY <1>1, <1>2

-----------------------------------------------------------------------------
(***************************************************************************)
(* The theorems.                                                           *)
(***************************************************************************)

\* The invariant is inductive: every command, or none, keeps it.
LEMMA AppNextKeepsAppInv == AppInv /\ [AppNext]_appVars => AppInv'
<1> SUFFICES ASSUME AppInv, [AppNext]_appVars PROVE AppInv'
  OBVIOUS
<1>1. CASE Reset
  BY <1>1, ResetKeepsAppInv
<1>2. ASSUME NEW front \in BOOLEAN, SetFrontObstacle(front)
      PROVE  AppInv'
  BY <1>2, SetFrontKeepsAppInv
<1>3. ASSUME NEW back \in BackStates, SetBackObstacle(back)
      PROVE  AppInv'
  BY <1>3, SetBackKeepsAppInv
<1>4. ASSUME NEW left \in BOOLEAN, SetLeftObstacle(left)
      PROVE  AppInv'
  BY <1>4, SetLeftKeepsAppInv
<1>5. ASSUME NEW front \in BOOLEAN, NEW left \in BOOLEAN,
             NEW back \in BackStates, SetObstacleState(front, back, left)
      PROVE  AppInv'
  BY <1>5, SetObstaclesKeepsAppInv
<1>6. CASE AppReportDustDetected
  BY <1>6, AppDustKeepsAppInv
<1>7. CASE ExpirePowerTimer
  BY <1>7, ExpireKeepsAppInv
<1>8. CASE UNCHANGED appVars
  BY <1>8
  DEF appVars, vars, AppInv, AppTypeOK, ShadowsMatchSensors,
      DustFlagShowsResponse, IInv, TypeOK, ForwardOnlyIntoClearSpace,
      StatusMatchesDrive, BlockRestsOnProbe, PowerFollowsResponse,
      TimerCoversResponse, PendingUnderResponse, NoTraceBeforeDrive
<1> QED BY <1>1, <1>2, <1>3, <1>4, <1>5, <1>6, <1>7, <1>8 DEF AppNext

\* The invariant under every order of commands.
THEOREM AppInvariance == AppSpec => []AppInv
  BY InitEstablishesAppInv, AppNextKeepsAppInv, PTL DEF AppSpec

(***************************************************************************)
(* The controller that RESET replaces keeps the whole of its invariant:    *)
(* forward motion, power, timer, block and pending response fit each other *)
(* in every run of the application too.                                    *)
(***************************************************************************)
THEOREM ControllerSurvivesReset ==
    AppSpec => [](/\ ForwardOnlyIntoClearSpace /\ StatusMatchesDrive
                  /\ BlockRestsOnProbe /\ PowerFollowsResponse
                  /\ TimerCoversResponse /\ PendingUnderResponse)
<1>1. AppInv => /\ ForwardOnlyIntoClearSpace /\ StatusMatchesDrive
                /\ BlockRestsOnProbe /\ PowerFollowsResponse
                /\ TimerCoversResponse /\ PendingUnderResponse
  BY DEF AppInv, IInv
<1> QED BY <1>1, AppInvariance, PTL

(***************************************************************************)
(* Every variable of the application keeps its type.                       *)
(***************************************************************************)
THEOREM AppTypeCorrect == AppSpec => []AppTypeOK
<1>1. AppInv => AppTypeOK
  BY DEF AppInv
<1> QED BY <1>1, AppInvariance, PTL

(***************************************************************************)
(* GET_STATE shows the obstacles the controller acts on.                   *)
(***************************************************************************)
THEOREM ShadowsAreTrue == AppSpec => []ShadowsMatchSensors
<1>1. AppInv => ShadowsMatchSensors
  BY DEF AppInv
<1> QED BY <1>1, AppInvariance, PTL

(***************************************************************************)
(* The DUST field is set exactly while a response is active or pending.    *)
(***************************************************************************)
THEOREM DustFlagIsTrue == AppSpec => []DustFlagShowsResponse
<1>1. AppInv => DustFlagShowsResponse
  BY DEF AppInv
<1> QED BY <1>1, AppInvariance, PTL

(***************************************************************************)
(* Until the first drive command after a start or a RESET nothing of an    *)
(* earlier run is left.                                                    *)
(***************************************************************************)
THEOREM ResetLeavesNoTrace == AppSpec => []FreshUntilDriven
<1>1. AppInv => FreshUntilDriven
  BY DEF AppInv, IInv, NoTraceBeforeDrive, FreshUntilDriven
<1> QED BY <1>1, AppInvariance, PTL

(***************************************************************************)
(* POWER_TIMEOUT is accepted exactly during a response; a refused one      *)
(* changes nothing GET_STATE shows, and nothing else is ever refused.      *)
(***************************************************************************)
THEOREM TimeoutIsGuarded == AppSpec => TimeoutGuarded
<1>1. AppInv /\ [AppNext]_appVars =>
        [/\ ExpirePowerTimer => (accepted' <=> ac.dustActive)
         /\ ~accepted' => UNCHANGED <<ac, sensor, drive, power, timer, shadow>>
        ]_appVars
  <2> SUFFICES ASSUME AppInv, AppNext
               PROVE  /\ ExpirePowerTimer => (accepted' <=> ac.dustActive)
                      /\ ~accepted' => UNCHANGED <<ac, sensor, drive, power,
                                                   timer, shadow>>
    OBVIOUS
  <2>1. ExpirePowerTimer => (accepted' <=> ac.dustActive)
    BY TimerMeansResponse DEF ExpirePowerTimer
  <2>2. ~accepted' => ExpirePowerTimer /\ ~timer
    BY DEF AppNext, Reset, SetFrontObstacle, SetBackObstacle, SetLeftObstacle,
           SetObstacleState, AppReportDustDetected, ExpirePowerTimer
  <2> QED BY <2>1, <2>2, RefusedTimeout
<1> QED BY <1>1, AppInvariance, PTL DEF AppSpec, TimeoutGuarded

=============================================================================
