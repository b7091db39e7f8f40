------------------------- MODULE MCRVCSWController -------------------------
(***************************************************************************)
(* The controller for TLC.  Its inputs are Booleans and a three-valued     *)
(* back report, so the instance is the whole state space and no bound is   *)
(* needed.  The properties here are what the documents and the tests say   *)
(* of the controller and the code does not keep: each has a run of its own *)
(* in which TLC finds the calls that break it.                             *)
(***************************************************************************)
EXTENDS RVCSWController

Dust == INSTANCE DustService WITH
            owed <- ac.pending, boosted <- power = "Increased", timed <- timer

ObstacleReported ==
    \/ \E front \in BOOLEAN : ReportFrontObstacleState(front)
    \/ \E back \in BackStates : ReportBackObstacleState(back)
    \/ \E left \in BOOLEAN : ReportLeftObstacleState(left)
    \/ \E front, left \in BOOLEAN, back \in BackStates :
           ReportObstacleState(front, back, left)

(***************************************************************************)
(* Under the default policy the controller implements DustService, and     *)
(* each call only does what is its own to do there.  Through obstacles,    *)
(* probes, blocks and every order of calls, power and timer rise together, *)
(* and only in a dust report or in an obstacle report that finds one owed; *)
(* they fall together, and only in the end of the timer.  An obstacle      *)
(* report that starts or restarts a response nobody is owed breaks this.   *)
(***************************************************************************)
ImplementsDustService ==
    /\ Dust!Spec
    /\ [][/\ ReportDustDetected => Dust!Report
          /\ ObstacleReported => [Dust!Resume]_(Dust!dustVars)
          /\ IncreasedPowerDurationExpired =>
               [Dust!Expire]_(Dust!dustVars)]_vars

(***************************************************************************)
(* UC-005, steps 2 and 3: before the robot backs up it is stopped, by this *)
(* call or by an earlier one after which the drive was left alone.         *)
(***************************************************************************)
StopsBeforeReversing ==
    [][Issued("MoveBackward")' => drive = "Stop" \/ Issued("Stop")']_vars

(***************************************************************************)
(* FR-008: after backing out of a block the robot turns before it drives   *)
(* forward again.                                                          *)
(***************************************************************************)
TurnsAfterReversing ==
    [][drive = "MoveBackward" => drive' # "MoveForward"]_vars

(***************************************************************************)
(* FR-011: a dust report that was put off during an avoidance is answered  *)
(* with increased power when cleaning resumes, so nothing but that answer  *)
(* takes it back.                                                          *)
(***************************************************************************)
PendingOnlyServed ==
    [][ac.pending /\ ~ac'.pending => ac'.dustActive]_vars

(***************************************************************************)
(* Test BackSensorAloneDoesNotTriggerMovement: outside a confirmed block a *)
(* new report of the back sensor leaves the drive as it is.                *)
(***************************************************************************)
BackSensorAloneKeepsDrive ==
    [][(\E b \in BackStates \ {sensor.back} : ReportBackObstacleState(b))
         => ac.confirmed \/ drive' = drive]_vars

(***************************************************************************)
(* FR-013: with an obstacle behind it the robot does not go on backing up. *)
(***************************************************************************)
NeverReversingIntoObstacle ==
    drive = "MoveBackward" => sensor.back # "Blocked"

=============================================================================
