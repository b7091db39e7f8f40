----------------------- MODULE RobotVacuumApplication -----------------------
(***************************************************************************)
(* The application the TCP commands act on: it owns the devices and one    *)
(* controller, keeps its own copy of the inputs for GET_STATE, can be      *)
(* RESET at any time and lets the timer expire only while it runs.         *)
(***************************************************************************)
EXTENDS RVCSWController

\* The application never passes a policy: its controller has the default one.
ASSUME DefaultPolicyAssumption == IncreasedPowerDuration # 0

VARIABLES
    shadow,     \* the inputs as GET_STATE shows them (front, back, left, dust)
    accepted    \* the result of the last expirePowerTimer, TRUE for the rest

appVars == <<vars, shadow, accepted>>

AppTypeOK ==
    /\ TypeOK
    /\ shadow \in SensorStates
    /\ accepted \in BOOLEAN

AppInit ==
    /\ Init
    /\ shadow = InitSensorState
    /\ accepted = TRUE

\* Mutant: the reset forgets to switch the cleaning device off.
ResetLeavesPower ==
    /\ Return(InitSensorState,
              [ac |-> InitAutomaticCleaning,
               dev |-> [drive |-> "None", power |-> power, timer |-> FALSE,
                        calls |-> <<>>]])
    /\ shadow' = InitSensorState
    /\ accepted' = TRUE

\* Mutant: the reset forgets the drive.
ResetLeavesDrive ==
    /\ Return(InitSensorState,
              [ac |-> InitAutomaticCleaning,
               dev |-> [drive |-> drive, power |-> "Off", timer |-> FALSE,
                        calls |-> <<>>]])
    /\ shadow' = InitSensorState
    /\ accepted' = TRUE

\* The devices and the shadows are reset and a new controller is created.
Reset ==
    /\ Return(InitSensorState,
              [ac |-> InitAutomaticCleaning,
               dev |-> [drive |-> "None", power |-> "Off", timer |-> FALSE,
                        calls |-> <<>>]])
    /\ shadow' = InitSensorState
    /\ accepted' = TRUE

\* Mutant: the shadow of an unknown back state keeps the last known one.
SetBackKeepsKnown(back) ==
    /\ ReportBackObstacleState(back)
    /\ shadow' = [shadow EXCEPT !.back = IF back = "Unknown" THEN @ ELSE back]
    /\ accepted' = TRUE

SetFrontObstacle(front) ==
    /\ ReportFrontObstacleState(front)
    /\ shadow' = [shadow EXCEPT !.front = front]
    /\ accepted' = TRUE

SetBackObstacle(back) ==
    /\ ReportBackObstacleState(back)
    /\ shadow' = [shadow EXCEPT !.back = back]
    /\ accepted' = TRUE

SetLeftObstacle(left) ==
    /\ ReportLeftObstacleState(left)
    /\ shadow' = [shadow EXCEPT !.left = left]
    /\ accepted' = TRUE

SetObstacleState(front, back, left) ==
    /\ ReportObstacleState(front, back, left)
    /\ shadow' = [shadow EXCEPT !.front = front, !.back = back, !.left = left]
    /\ accepted' = TRUE

AppReportDustDetected ==
    /\ ReportDustDetected
    /\ shadow' = [shadow EXCEPT !.dust = TRUE]
    /\ accepted' = TRUE

\* Mutant: the timeout is taken whether or not a timer is running.
ExpireUnguarded ==
    /\ IncreasedPowerDurationExpired
    /\ shadow' = [shadow EXCEPT !.dust = FALSE]
    /\ accepted' = TRUE

\* The client's POWER_TIMEOUT: refused (ERR INVALID_STATE) without a timer.
ExpirePowerTimer ==
    \/ /\ ~timer
       /\ Return(sensor, NothingToDo)
       /\ shadow' = shadow
       /\ accepted' = FALSE
    \/ /\ timer
       /\ IncreasedPowerDurationExpired
       /\ shadow' = [shadow EXCEPT !.dust = FALSE]
       /\ accepted' = TRUE

(***************************************************************************)
(* snapshot: what GET_STATE is told.  The back state is an optional        *)
(* Boolean, written as the set of its at most one value.                   *)
(***************************************************************************)
ToOptionalBackState(back) ==
    IF back = "Unknown" THEN {} ELSE {back = "Blocked"}

Snapshot ==
    [movementStatus |-> ac.status,
     front |-> shadow.front, back |-> ToOptionalBackState(shadow.back),
     left |-> shadow.left, dust |-> shadow.dust,
     driveCommand |-> drive, cleaningPower |-> power, timerActive |-> timer]

AppNext ==
    \/ Reset
    \/ \E front \in BOOLEAN : SetFrontObstacle(front)
    \/ \E back \in BackStates : SetBackObstacle(back)
    \/ \E left \in BOOLEAN : SetLeftObstacle(left)
    \/ \E front, left \in BOOLEAN, back \in BackStates :
           SetObstacleState(front, back, left)
    \/ AppReportDustDetected
    \/ ExpirePowerTimer

AppSpec == AppInit /\ [][AppNext]_appVars

-----------------------------------------------------------------------------
(***************************************************************************)
(* What GET_STATE shows of the obstacles is what the controller acts on,   *)
(* the third value of the back sensor included: the application and its    *)
(* controller keep two copies, across single reports, snapshots and resets *)
(* (FR-015).                                                               *)
(***************************************************************************)
ShadowsMatchSensors ==
    /\ shadow.front = sensor.front
    /\ shadow.back = sensor.back
    /\ shadow.left = sensor.left

(***************************************************************************)
(* The DUST field shows the dust response: it is set exactly while a       *)
(* response is active or pending, although the application sets and clears *)
(* it without asking the controller.                                       *)
(***************************************************************************)
DustFlagShowsResponse == shadow.dust <=> ac.dustActive \/ ac.pending

(***************************************************************************)
(* As long as no drive command was given since the start or the last       *)
(* RESET, nothing else of an earlier run shows: the robot is stopped, the  *)
(* power off, no timer running and no block confirmed.                     *)
(***************************************************************************)
FreshUntilDriven ==
    drive = "None" =>
        /\ ac.status = "Stopped" /\ power = "Off" /\ ~timer
        /\ ~ac.probeActive /\ ~ac.confirmed /\ ~ac.dustActive
        /\ ~sensor.front

(***************************************************************************)
(* POWER_TIMEOUT is refused exactly when no response is active, and a      *)
(* refused one changes nothing GET_STATE shows.                            *)
(***************************************************************************)
TimeoutGuarded ==
    [][/\ ExpirePowerTimer => (accepted' <=> ac.dustActive)
       /\ ~accepted' => UNCHANGED <<ac, sensor, drive, power, timer, shadow>>
      ]_appVars

=============================================================================
