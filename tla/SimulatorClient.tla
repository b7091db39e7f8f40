-------------------------- MODULE SimulatorClient --------------------------
(***************************************************************************)
(* The simulator (simulator.py, protocol_client.py) with its world and the *)
(* application it drives: the closed loop of the whole system.             *)
(*                                                                         *)
(* The simulator is one thread.  In every frame it takes the keys, polls   *)
(* the deadline of the dust timer and, while it plays, makes a step.  Each *)
(* of these is one or two exchanges with the server; task says which       *)
(* GET_STATE is still to come.  An exchange is one action, since the       *)
(* client waits for the answer.  What may go wrong with it is a fault:     *)
(* the command is lost (no connection, or it broke), or it is executed and *)
(* its answer is not received (timeout, connection broken); in both cases  *)
(* send_command raises and the client goes on without a response.          *)
(* A command of another session may come between any two exchanges: it is  *)
(* another client's, or one this client has given up on.                   *)
(***************************************************************************)
EXTENDS RobotVacuumApplication, StateFormatter, GridWorld

CONSTANTS
    MaxKeys,     \* bound: the keys pressed in a session, by the map it is on
    MaxFaults    \* bound: how often something goes wrong, by the map it is on

ASSUME BudgetAssumption ==
    MaxKeys \in [Maps -> Nat] /\ MaxFaults \in [Maps -> Nat]

VARIABLES
    playing,    \* model.playing
    assist,     \* model.coverage_bias
    deadline,   \* model.power_timeout_deadline: unset, ahead or reached
    task,       \* what the GET_STATE to come is for
    keys,       \* keys left
    faults,     \* exchanges that went wrong and interferences so far
    handsOff    \* history: no manual command, change of the assist or new dust
                \* since the world and the controller were last reset

clientVars == <<playing, assist, deadline, task>>
simVars == <<appVars, worldVars, clientVars, keys, faults, handsOff>>

Deadlines == {"None", "Ahead", "Reached"}
Tasks == {"Idle", "Step", "Dust", "Refresh"}

SimTypeOK ==
    /\ AppTypeOK /\ WorldTypeOK
    /\ playing \in BOOLEAN /\ assist \in BOOLEAN
    /\ deadline \in Deadlines /\ task \in Tasks
    /\ keys \in Nat /\ faults \in Nat /\ handsOff \in BOOLEAN

SimInit ==
    /\ AppInit /\ WorldInit
    /\ playing = FALSE /\ assist = TRUE
    /\ deadline = "None" /\ task = "Idle"
    /\ keys = MaxKeys[map] /\ faults = 0 /\ handsOff = TRUE

-----------------------------------------------------------------------------
\* One more thing goes wrong.
Fault == faults < MaxFaults[map] /\ faults' = faults + 1

(***************************************************************************)
(* An exchange: the command is an action of the application, the other two *)
(* say what the client does with an answer and without one.                *)
(***************************************************************************)
Exchange(command, answered, failed) ==
    \/ command /\ answered /\ UNCHANGED faults
    \/ /\ Fault
       /\ command \/ UNCHANGED appVars
       /\ failed

GetState(answered, failed) == Exchange(UNCHANGED appVars, answered, failed)

Shown == Format(Snapshot)

\* Mutant: a deadline that was set is never taken back.
SyncNeverClears ==
    deadline' = IF deadline = "None" /\ Shown.TIMER_ACTIVE = "1" THEN "Ahead"
                ELSE deadline

(***************************************************************************)
(* sync_power_timer_tracking.  timer_active_observed is true exactly while *)
(* a deadline is set, so it is not kept.                                   *)
(***************************************************************************)
SyncPowerTimer ==
    deadline' = IF Shown.TIMER_ACTIVE = "0" THEN "None"
                ELSE IF deadline = "None" THEN "Ahead" ELSE deadline

ClearTracking == deadline' = "None"

\* stop_if_coverage_complete, after the world has changed.
StopIfCovered == playing' = (playing /\ ~CoverageComplete')

-----------------------------------------------------------------------------
(***************************************************************************)
(* A step of a map run (run_map_step), in one or two exchanges.            *)
(***************************************************************************)
ReportDust ==
    /\ robot \in dust
    /\ Exchange(AppReportDustDetected,
                task' = "Dust" /\ ClearTracking,
                UNCHANGED <<task, deadline>>)
    /\ UNCHANGED <<worldVars, playing, assist, handsOff>>

StopCovered ==
    /\ robot \notin dust /\ CoverageComplete
    /\ playing' = FALSE
    /\ UNCHANGED <<appVars, worldVars, assist, handsOff>>
    /\ UNCHANGED <<deadline, task, faults>>

ReportObstacles ==
    /\ robot \notin dust /\ ~CoverageComplete
    /\ \E sensed \in {SensorValues(assist)} :
           Exchange(SetObstacleState(sensed.front, sensed.back, sensed.left),
                    task' = "Step", UNCHANGED task)
    /\ UNCHANGED <<worldVars, playing, assist, handsOff, deadline>>

RunMapStep == task = "Idle" /\ (ReportDust \/ StopCovered \/ ReportObstacles)

Move ==
    /\ task = "Step" /\ task' = "Idle"
    /\ GetState(/\ SyncPowerTimer
                /\ ApplyDrive(Shown.DRIVE) /\ StopIfCovered,
                UNCHANGED <<worldVars, playing, deadline>>)
    /\ UNCHANGED <<assist, handsOff, keys>>

\* Mutant: the state that is read is not looked at for the timer.
ClearDustUnsynced ==
    /\ task = "Dust" /\ task' = "Idle"
    /\ GetState(IF Shown.CLEANING_POWER = "INCREASED" \/ Shown.DUST = "1"
                THEN ClearCurrentDust /\ StopIfCovered
                ELSE UNCHANGED <<worldVars, playing>>,
                UNCHANGED <<worldVars, playing>>)
    /\ UNCHANGED <<assist, handsOff, deadline, keys>>

\* The dust is gone once the controller shows that it took the report.
ClearDust ==
    /\ task = "Dust" /\ task' = "Idle"
    /\ GetState(/\ SyncPowerTimer
                /\ IF Shown.CLEANING_POWER = "INCREASED" \/ Shown.DUST = "1"
                   THEN ClearCurrentDust /\ StopIfCovered
                   ELSE UNCHANGED <<worldVars, playing>>,
                UNCHANGED <<worldVars, playing, deadline>>)
    /\ UNCHANGED <<assist, handsOff, keys>>

\* refresh_state_after_command on its own.
Refresh ==
    /\ task = "Refresh" /\ task' = "Idle"
    /\ GetState(SyncPowerTimer, UNCHANGED deadline)
    /\ UNCHANGED <<worldVars, playing, assist, handsOff, keys>>

-----------------------------------------------------------------------------
(***************************************************************************)
(* The other parts of a frame.                                             *)
(***************************************************************************)
\* The deadline is polled before the step in every frame.
Play == playing /\ deadline # "Reached" /\ RunMapStep /\ UNCHANGED keys

DeadlinePasses ==
    /\ deadline = "Ahead" /\ deadline' = "Reached"
    /\ UNCHANGED <<appVars, worldVars, playing, assist, handsOff>>
    /\ UNCHANGED <<task, keys, faults>>

\* process_power_timer: without an OK the deadline is given up.
PollPowerTimer ==
    /\ task = "Idle" /\ deadline = "Reached"
    /\ Exchange(ExpirePowerTimer,
                IF accepted' THEN task' = "Refresh" /\ UNCHANGED deadline
                ELSE UNCHANGED task /\ ClearTracking,
                UNCHANGED task /\ ClearTracking)
    /\ UNCHANGED <<worldVars, playing, assist, handsOff, keys>>

PressKey == task = "Idle" /\ keys > 0 /\ keys' = keys - 1

KeyEnter ==
    /\ PressKey /\ playing' = ~playing
    /\ UNCHANGED <<appVars, worldVars, assist, handsOff>>
    /\ UNCHANGED <<deadline, task, faults>>

KeySpace == PressKey /\ RunMapStep

\* The world is reset first, whatever becomes of the RESET.
ResetController ==
    /\ playing' = FALSE /\ ClearTracking /\ handsOff' = TRUE
    /\ Exchange(Reset, task' = "Refresh", UNCHANGED task)
    /\ UNCHANGED assist

KeyReset == PressKey /\ ResetWorld /\ ResetController

\* Bound: not to a map on which fewer keys are pressed than are left.
KeySwitchMap ==
    /\ PressKey
    /\ \E m \in Maps \ {map} : keys' <= MaxKeys[m] /\ ReplaceMap(m)
    /\ ResetController

KeyRestoreDust ==
    /\ PressKey /\ ResetDust /\ handsOff' = FALSE
    /\ UNCHANGED <<appVars, clientVars, faults>>

KeyAssist ==
    /\ PressKey /\ assist' = ~assist /\ handsOff' = FALSE
    /\ UNCHANGED <<appVars, worldVars, playing, deadline, task, faults>>

KeyGetState ==
    /\ PressKey
    /\ GetState(SyncPowerTimer, UNCHANGED deadline)
    /\ UNCHANGED <<worldVars, playing, assist, handsOff, task>>

(***************************************************************************)
(* Manual mode: switching to it stops the run, and each key sends one      *)
(* command and reads the state.  The mode itself is not kept: in the model *)
(* one key stands for the change of mode and the command.                  *)
(***************************************************************************)
ManualSnapshots ==
    {<<FALSE, "Unknown", FALSE>>, <<TRUE, "Unknown", FALSE>>,
     <<TRUE, "Clear", TRUE>>, <<TRUE, "Blocked", TRUE>>}

ManualReport ==
    \/ \E front \in BOOLEAN : SetFrontObstacle(front)
    \/ \E back \in BackStates : SetBackObstacle(back)
    \/ \E left \in BOOLEAN : SetLeftObstacle(left)
    \/ \E v \in ManualSnapshots : SetObstacleState(v[1], v[2], v[3])

KeyManual ==
    /\ PressKey /\ playing' = FALSE /\ handsOff' = FALSE
    /\ \/ Exchange(ManualReport, task' = "Refresh" /\ UNCHANGED deadline,
                   UNCHANGED <<task, deadline>>)
       \/ Exchange(AppReportDustDetected, task' = "Refresh" /\ ClearTracking,
                   UNCHANGED <<task, deadline>>)
       \/ Exchange(ExpirePowerTimer,
                   /\ task' = IF accepted' THEN "Refresh" ELSE task
                   /\ UNCHANGED deadline,
                   UNCHANGED <<task, deadline>>)
    /\ UNCHANGED <<worldVars, assist>>

\* Another session's command, or a late one of this client.
Intrude ==
    /\ Fault /\ AppNext
    /\ UNCHANGED <<worldVars, clientVars, keys, handsOff>>

PressAnyKey ==
    \/ KeyEnter \/ KeySpace \/ KeyReset \/ KeySwitchMap \/ KeyRestoreDust
    \/ KeyAssist \/ KeyGetState \/ KeyManual

SimNext ==
    \/ Play \/ Move \/ ClearDust \/ Refresh
    \/ DeadlinePasses \/ PollPowerTimer
    \/ PressAnyKey \/ Intrude

(***************************************************************************)
(* The frame loop never stops: an exchange that was begun is finished, a   *)
(* playing simulator makes its next step and a deadline that was reached   *)
(* is noticed.  Time passes.  Nobody is obliged to press a key, and        *)
(* nothing has to go wrong.                                                *)
(*                                                                         *)
(* An action that must happen is named here by the change it makes to the  *)
(* client: no other action makes it, but for the finitely many keys and    *)
(* faults, and it is possible whenever the action is.                      *)
(***************************************************************************)
Finishes(t) == task = t /\ task' = "Idle"

Steps ==
    /\ playing /\ task = "Idle" /\ deadline # "Reached"
    /\ task' \in {"Idle", "Step", "Dust"} /\ playing' \in BOOLEAN
    /\ faults' \in {faults, faults + 1}

Polls ==
    /\ deadline = "Reached" /\ task = "Idle"
    /\ \/ task' = "Refresh" /\ UNCHANGED deadline
       \/ UNCHANGED task /\ deadline' = "None"

SimFairness ==
    /\ \A t \in Tasks \ {"Idle"} : WF_task(Finishes(t))
    /\ WF_<<task, playing, faults>>(Steps)
    /\ WF_deadline(deadline = "Ahead" /\ deadline' = "Reached")
    /\ WF_<<task, deadline>>(Polls)

SimSpec == SimInit /\ [][SimNext]_simVars /\ SimFairness

-----------------------------------------------------------------------------
Undisturbed == faults = 0

(***************************************************************************)
(* The two sides agree on the timer: as long as no exchange failed and no  *)
(* other session interfered, an idle client waits for a deadline exactly   *)
(* while the controller's timer runs.                                      *)
(***************************************************************************)
DeadlineMatchesTimer ==
    Undisturbed /\ task = "Idle" => (timer <=> deadline # "None")

(***************************************************************************)
(* With both ends honest a dust response always ends, the run that started *)
(* it being over or not.                                                   *)
(***************************************************************************)
ResponseEnds == (timer /\ Undisturbed) ~> (~timer \/ ~Undisturbed)

(***************************************************************************)
(* A run ends: with the coverage assist the robot has cleaned all it can   *)
(* reach after finitely many steps, on every map, from every state that    *)
(* the keys and faults within MaxKeys and MaxFaults leave the two sides    *)
(* in: a world that was reset without its controller, a command that was   *)
(* given up and is executed later.                                         *)
(***************************************************************************)
RunEnds == playing ~> (~playing \/ ~assist)

(***************************************************************************)
(* The robot is never driven against a wall, unless an exchange failed or  *)
(* another session interfered: the drive command a step reads is the       *)
(* answer to the sensors it has just sent.                                 *)
(***************************************************************************)
NeverBumps ==
    [][task = "Step" /\ Undisturbed' => ~Bumps(Shown.DRIVE)]_simVars

(***************************************************************************)
(* The controller's map in the head is true.  Unless somebody interfered,  *)
(* a block confirmed by a probe is one in the world: once the robot has    *)
(* turned back there are obstacles on both of its sides, and ahead of it   *)
(* is an obstacle or, when it is still backing out of an earlier block, a  *)
(* cell it has cleaned already (UC-003, UC-005).                           *)
(***************************************************************************)
Beside(offset) == Step(robot, RelativeDirection(offset))
Obstructed(offset) ==
    ObstacleInRelativeDirection(offset, OpenNeighbours(assist))

BlockIsReal ==
    handsOff /\ Undisturbed /\ task = "Idle" /\ ac.confirmed =>
        /\ Obstructed(-1) /\ Obstructed(1)
        /\ Obstructed(0) \/ Beside(0) \in cleaned

=============================================================================
