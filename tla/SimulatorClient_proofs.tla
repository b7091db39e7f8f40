----------------------- MODULE SimulatorClient_proofs -----------------------
(***************************************************************************)
(* Proofs about the closed loop of simulator, world, application and       *)
(* controller: for every set of maps, every number of keys and every       *)
(* number of failed exchanges and foreign commands.                        *)
(***************************************************************************)
EXTENDS SimulatorClient, RobotVacuumApplication_proofs, GridWorld_proofs

-----------------------------------------------------------------------------
(***************************************************************************)
(* What GET_STATE shows, and what a snapshot does to the drive.            *)
(***************************************************************************)

\* The words of GET_STATE that the client acts on.
LEMMA ShownWords ==
    ASSUME AppInv
    PROVE  /\ Shown.TIMER_ACTIVE = "0" <=> ~timer
           /\ Shown.DRIVE = "MOVE_FORWARD" => drive = "MoveForward"
           /\ Shown.DRIVE = "MOVE_BACKWARD" => drive = "MoveBackward"
<1>1. timer \in BOOLEAN /\ drive \in DriveStates
  BY DEF AppInv, AppTypeOK, TypeOK
<1>2. Shown.TIMER_ACTIVE = ToBit(timer) /\ Shown.DRIVE = DriveText[drive]
  BY DEF Shown, Format, Snapshot
<1> QED
  BY <1>1, <1>2 DEF ToBit, DriveText, DriveStates, MovementCommands

\* The manual keys send commands of the application.
LEMMA ManualReportIsCommand == ManualReport => AppNext
<1>1. ASSUME NEW v \in ManualSnapshots, SetObstacleState(v[1], v[2], v[3])
      PROVE  AppNext
  <2>1. v \in BOOLEAN \X BackStates \X BOOLEAN
    <3>1. "Unknown" \in BackStates /\ "Clear" \in BackStates
          /\ "Blocked" \in BackStates
      BY DEF BackStates
    <3>2. \A f, l \in BOOLEAN, b \in BackStates :
            <<f, b, l>> \in BOOLEAN \X BackStates \X BOOLEAN
      OBVIOUS
    <3> QED BY <3>1, <3>2, Zenon DEF ManualSnapshots
  <2>2. v[1] \in BOOLEAN /\ v[2] \in BackStates /\ v[3] \in BOOLEAN
    BY <2>1
  <2> QED BY <1>1, <2>2 DEF AppNext
<1> QED BY <1>1 DEF ManualReport, AppNext

(***************************************************************************)
(* A decision that leaves the status Blocked without a confirmed block is  *)
(* the one to back out, taken with a clear back sensor.  The lemmas follow *)
(* the paths of ReportObstacleState.                                       *)
(***************************************************************************)
BacksOut(a) == a.status = "Blocked" /\ ~a.confirmed

\* The methods of AutomaticCleaning that decide.
LEMMA DecisionsThatBackOut ==
    ASSUME NEW a \in ACS, NEW s \in SensorStates
    PROVE  /\ ~BacksOut(HandleSensorState(a, s).ac)
           /\ ~BacksOut(ResumeAfterTurn(a, s).ac)
           /\ ~BacksOut(SelectAvoidanceDirection(a, s).ac)
           /\ a.confirmed /\ BacksOut(HandleThreeSideObstacle(a, s).ac)
                => s.back = "Clear"
           /\ BacksOut(HandleObstacleWhileDustResponse(a, s).ac)
                => s.back = "Clear"
<1>1. ~BacksOut(HandleSensorState(a, s).ac)
  BY DEF HandleSensorState, StopAndAvoid, NormalCleaningResult,
         ClearThreeSideBlock, BacksOut, ACS, AutomaticCleaningStates
<1>2. ~BacksOut(ResumeAfterTurn(a, s).ac)
  BY DEF ResumeAfterTurn, StopAndAvoid, DriveOn, BacksOut, ACS,
         AutomaticCleaningStates
<1>3. ~BacksOut(SelectAvoidanceDirection(a, s).ac)
  BY DEF SelectAvoidanceDirection, ProbeFoundBlocked, ProbeFoundOpen,
         StartRightProbe, TakeLeft, ClearThreeSideBlock, BacksOut, ACS,
         AutomaticCleaningStates
<1>4. a.confirmed /\ BacksOut(HandleThreeSideObstacle(a, s).ac)
        => s.back = "Clear"
  BY DEF HandleThreeSideObstacle, StopBlocked, BackOut, CanMoveBackward,
         BacksOut, ACS, AutomaticCleaningStates
<1>5. HandleObstacleWhileDustResponse(a, s).ac =
        IF a.confirmed THEN HandleThreeSideObstacle(a, s).ac
        ELSE HandleSensorState(a, s).ac
  BY DEF HandleObstacleWhileDustResponse, HandleThreeSideObstacle,
         HandleSensorState, StopBlocked, BackOut, StopAndAvoid,
         NormalCleaningResult
<1> QED BY <1>1, <1>2, <1>3, <1>4, <1>5

\* What the controller does with them leaves the decision as it is.
LEMMA CarriedOut ==
    /\ \A d, o : Apply(d, o).ac = o.ac
    /\ \A d, a, direction : Turn(d, a, direction).ac = a
    /\ \A d, s : ApplyAvoidanceDecision(d, s).ac =
                   SelectAvoidanceDirection(ac, s).ac
  BY DEF Apply, Turn, ApplyAvoidanceDecision

\* Serving a pending report leaves the status and the block as they are.
LEMMA ServingKeepsBlock ==
    ASSUME NEW st, st.ac \in ACS, NEW s
    PROVE  BacksOut(ApplyPendingDustResponseIfCleaning(st, s).ac)
             => BacksOut(st.ac)
<1>1. BacksOut(HandleDustDetected(st.ac, s).ac) => BacksOut(st.ac)
  BY DEF HandleDustDetected, BacksOut, ACS, AutomaticCleaningStates
<1>2. \A d, o : ApplyInitialDustResponse(d, o).ac = o.ac
  BY DEF ApplyInitialDustResponse
<1> QED BY <1>1, <1>2 DEF ApplyPendingDustResponseIfCleaning
\* After a snapshot the robot backs out only when its back sensor is clear.
LEMMA SnapshotBacksOut ==
    ASSUME IInv, NEW front \in BOOLEAN, NEW back \in BackStates,
           NEW left \in BOOLEAN, ReportObstacleState(front, back, left),
           BacksOut(ac')
    PROVE  back = "Clear"
<1> DEFINE s == [sensor EXCEPT !.front = front, !.back = back, !.left = left]
           leaves == Blocked /\ HasEffect(LeaveBlock(s).result)
<1>1. s \in SensorStates /\ s.back = back
  BY StartFacts DEF SensorStates
<1>2. ac \in ACS /\ Devices \in DeviceStates
  BY StartFacts
<1>3. PICK st : Return(s, st) /\ (BacksOut(st.ac) => s.back = "Clear")
  <2>1. CASE ac.probeActive
    <3> DEFINE c == SelectAvoidanceDirection(ac, s)
               o == ResumeAfterTurn(c.ac, s)
    <3>1. Return(s, ApplyRightProbeResult(Devices, s))
      BY <2>1 DEF ReportObstacleState
    <3> HIDE DEF s
    <3>2. c.ac \in ACS /\ ~BacksOut(c.ac)
      BY <1>1, <1>2, SelectContract, StartFacts, DecisionsThatBackOut
    <3>3. o.ac \in ACS /\ ~BacksOut(o.ac)
      BY <1>1, <3>2, DecisionsThatBackOut
      DEF ResumeAfterTurn, StopAndAvoid, DriveOn, ACS,
          AutomaticCleaningStates, MovementStatus
    <3>4. /\ Turn(Devices, c.ac, "Left").ac = c.ac
          /\ Apply(Devices, o).ac = o.ac
      BY CarriedOut
    <3>5. ~BacksOut(ApplyPendingDustResponseIfCleaning(
                      Apply(Devices, o), s).ac)
      BY <3>3, <3>4, ServingKeepsBlock
    <3>6. ~BacksOut(ApplyRightProbeResult(Devices, s).ac)
      <4> HIDE DEF o
      <4> QED BY <3>2, <3>4, <3>5 DEF ApplyRightProbeResult, o
    <3> QED BY <3>1, <3>6
  <2>2. CASE ~ac.probeActive /\ leaves
    <3>1. Return(s, Apply(Devices, LeaveBlock(s)))
      BY <2>2 DEF ReportObstacleState, Avoiding, Blocked
    <3>2. ac.dustActive \/ ac.confirmed
      BY <2>2 DEF LeaveBlock, HandleThreeSideObstacle, HasEffect, NoCommands
    <3> HIDE DEF s
    <3>3. BacksOut(LeaveBlock(s).ac) => s.back = "Clear"
      BY <1>1, <1>2, <3>2, DecisionsThatBackOut DEF LeaveBlock
    <3> QED BY <3>1, <3>3, CarriedOut
  <2>3. CASE ~ac.probeActive /\ ~leaves /\ (Blocked \/ (Avoiding /\ front))
    <3>1. Return(s, ApplyAvoidanceDecision(Devices, s))
      BY <2>3 DEF ReportObstacleState, Avoiding, Blocked
    <3> HIDE DEF s
    <3> QED BY <1>1, <1>2, <3>1, CarriedOut, DecisionsThatBackOut
  <2>4. CASE ~ac.probeActive /\ Avoiding /\ ~front
    <3>1. Return(s, Resumed(s))
      BY <2>4 DEF ReportObstacleState, Avoiding, Blocked
    <3> HIDE DEF s
    <3> DEFINE o == ResumeAfterTurn(ac, s)
    <3>2. o.ac \in ACS /\ ~BacksOut(o.ac)
      BY <1>1, <1>2, DecisionsThatBackOut
      DEF ResumeAfterTurn, StopAndAvoid, DriveOn, ACS,
          AutomaticCleaningStates, MovementStatus
    <3>3. Apply(Devices, o).ac = o.ac
      BY CarriedOut
    <3>4. ~BacksOut(Resumed(s).ac)
      BY <3>2, <3>3, ServingKeepsBlock DEF Resumed
    <3> QED BY <3>1, <3>4
  <2>5. CASE ~ac.probeActive /\ ~(Avoiding \/ Blocked) /\ ac.dustActive
    <3>1. Return(s, SensedWhileResponding(s))
      BY <2>5 DEF ReportObstacleState
    <3> HIDE DEF s
    <3> QED
      BY <1>1, <1>2, <3>1, CarriedOut, DecisionsThatBackOut
      DEF SensedWhileResponding
  <2>6. CASE ~ac.probeActive /\ ~(Avoiding \/ Blocked) /\ ~ac.dustActive
    <3>1. \/ Return(s, NewlySensed(s))
          \/ Return(s, ApplyPendingDustResponseIfCleaning(NewlySensed(s), s))
      BY <2>6 DEF ReportObstacleState
    <3> HIDE DEF s
    <3> DEFINE o == HandleSensorState(ac, s)
    <3>2. o.ac \in ACS /\ ~BacksOut(o.ac)
      BY <1>1, <1>2, StartFacts, SensorStateContract, DecisionsThatBackOut
    <3>3. NewlySensed(s).ac = o.ac
      BY CarriedOut DEF NewlySensed
    <3>4. ~BacksOut(ApplyPendingDustResponseIfCleaning(NewlySensed(s), s).ac)
      BY <3>2, <3>3, ServingKeepsBlock
    <3> QED BY <3>1, <3>2, <3>3, <3>4
  <2> HIDE DEF s, leaves
  <2> QED BY <2>1, <2>2, <2>3, <2>4, <2>5, <2>6
<1> HIDE DEF s
<1> QED BY <1>1, <1>3 DEF Return

(***************************************************************************)
(* The drive command a snapshot leaves fits the sensors it reported.       *)
(***************************************************************************)
LEMMA SnapshotDrivesFreely ==
    ASSUME AppInv, NEW front \in BOOLEAN, NEW back \in BackStates,
           NEW left \in BOOLEAN, SetObstacleState(front, back, left)
    PROVE  /\ drive' = "MoveForward" => ~front
           /\ drive' = "MoveBackward" => back = "Clear"
<1>1. AppInv' /\ ReportObstacleState(front, back, left) /\ IInv
  BY SetObstaclesKeepsAppInv DEF SetObstacleState, AppInv
<1>2. sensor'.front = front
  <2>1. sensor \in SensorStates
    BY DEF AppInv, AppTypeOK, TypeOK
  <2>2. sensor' = [sensor EXCEPT !.front = front, !.back = back,
                                 !.left = left]
    BY <1>1, SensedValues
  <2> QED BY <2>1, <2>2 DEF SensorStates
<1>3. drive' = "MoveForward" => ~front
  BY <1>1, <1>2 DEF AppInv, IInv, ForwardOnlyIntoClearSpace
<1>4. drive' = "MoveBackward" => BacksOut(ac')
  <2>1. ac'.status \in MovementStatus
    BY <1>1 DEF AppInv, AppTypeOK, TypeOK, AutomaticCleaningStates
  <2> QED
    BY <1>1, <2>1
    DEF AppInv, IInv, ForwardOnlyIntoClearSpace, StatusMatchesDrive,
        BacksOut, MovementStatus
<1>5. BacksOut(ac') => back = "Clear"
  BY <1>1, SnapshotBacksOut
<1> QED BY <1>3, <1>4, <1>5
-----------------------------------------------------------------------------
(***************************************************************************)
(* The inductive invariant: those of the application and of the world, the *)
(* types of the client, the agreement on the timer and, while a step waits *)
(* for its GET_STATE, that the drive command it will read leads onto floor *)
(* (nothing may come in between: any command that does is a fault).        *)
(***************************************************************************)
ClientTypeOK ==
    /\ playing \in BOOLEAN /\ assist \in BOOLEAN
    /\ deadline \in Deadlines /\ task \in Tasks
    /\ keys \in Nat /\ faults \in Nat /\ handsOff \in BOOLEAN

StepIsFree ==
    task = "Step" /\ Undisturbed =>
        /\ drive = "MoveForward" => Step(robot, heading) \in map.floor
        /\ drive = "MoveBackward" =>
             Step(robot, RelativeDirection(2)) \in map.floor

SimInv ==
    AppInv /\ WorldInv /\ ClientTypeOK /\ DeadlineMatchesTimer /\ StepIsFree

\* At the start.
LEMMA SimInitEstablishes == SimInit => SimInv
<1> SUFFICES ASSUME SimInit PROVE SimInv
  OBVIOUS
<1>1. AppInv /\ WorldInv
  BY InitEstablishesAppInv, WorldInitEstablishes DEF SimInit
<1>2. ClientTypeOK
  <2>1. map \in Maps /\ MaxKeys[map] \in Nat
    BY <1>1, BudgetAssumption DEF WorldInv, WorldTypeOK
  <2> QED BY <2>1 DEF SimInit, ClientTypeOK, Deadlines, Tasks
<1>3. ~timer /\ deadline = "None" /\ task = "Idle"
  BY DEF SimInit, AppInit, Init
<1> QED BY <1>1, <1>2, <1>3 DEF SimInv, DeadlineMatchesTimer, StepIsFree

\* Once something has gone wrong the run is disturbed, and stays so.
LEMMA DisturbedByFault ==
    ASSUME ClientTypeOK, Fault
    PROVE  ~Undisturbed' /\ faults' \in Nat
  BY SMT DEF ClientTypeOK, Fault, Undisturbed

(***************************************************************************)
(* A step after which the client is idle or waits for something else than  *)
(* the state of a step, with the timer and the deadline in agreement or a  *)
(* fault.  All steps but the sending of a step's snapshot are such.        *)
(***************************************************************************)
LEMMA StepKeepsSimInv ==
    ASSUME SimInv, [AppNext]_appVars, [WorldStep]_worldVars,
           playing' \in BOOLEAN, assist' \in BOOLEAN,
           deadline' \in Deadlines, task' \in Tasks,
           keys' \in Nat, handsOff' \in BOOLEAN, UNCHANGED faults \/ Fault,
           \/ Fault
           \/ task' # "Step" /\ (task' = "Idle" =>
                                   (timer' <=> deadline' # "None"))
    PROVE  SimInv'
<1>1. AppInv' /\ WorldInv'
  BY AppNextKeepsAppInv, WorldStepKeepsWorldInv DEF SimInv
<1>2. faults' \in Nat
  BY DisturbedByFault DEF SimInv, ClientTypeOK
<1>3. DeadlineMatchesTimer' /\ StepIsFree'
  <2>1. CASE Fault
    <3>1. ~Undisturbed'
      BY <2>1, DisturbedByFault DEF SimInv
    <3> QED BY <3>1 DEF DeadlineMatchesTimer, StepIsFree
  <2>2. CASE ~Fault
    BY <2>2 DEF DeadlineMatchesTimer, StepIsFree
  <2> QED BY <2>1, <2>2
<1> QED BY <1>1, <1>2, <1>3 DEF SimInv, ClientTypeOK

-----------------------------------------------------------------------------
(***************************************************************************)
(* One lemma per action.                                                   *)
(***************************************************************************)

\* Facts every action starts from.
LEMMA ClientFacts ==
    ASSUME SimInv
    PROVE  /\ AppInv /\ WorldInv /\ ClientTypeOK
           /\ playing \in BOOLEAN /\ assist \in BOOLEAN
           /\ deadline \in Deadlines /\ task \in Tasks /\ keys \in Nat
           /\ handsOff \in BOOLEAN
           /\ "None" \in Deadlines /\ "Ahead" \in Deadlines
           /\ "Reached" \in Deadlines
           /\ "Idle" \in Tasks /\ "Step" \in Tasks /\ "Dust" \in Tasks
           /\ "Refresh" \in Tasks
           /\ task = "Idle" /\ Undisturbed => (timer <=> deadline # "None")
  BY DEF SimInv, ClientTypeOK, Deadlines, Tasks, DeadlineMatchesTimer

\* After GET_STATE has been read the two sides agree on the timer.
LEMMA SyncAgrees ==
    ASSUME SimInv, SyncPowerTimer, UNCHANGED appVars
    PROVE  deadline' \in Deadlines /\ (timer' <=> deadline' # "None")
<1>1. Shown.TIMER_ACTIVE = "0" <=> ~timer
  BY ShownWords, ClientFacts
<1>2. timer' = timer
  BY DEF appVars, vars
<1> QED BY <1>1, <1>2, ClientFacts DEF SyncPowerTimer, Deadlines

\* A step begins with a dust report.
LEMMA ReportDustKeeps ==
    ASSUME SimInv, task = "Idle", ReportDust, keys' \in Nat
    PROVE  SimInv'
<1>1. UNCHANGED worldVars /\ playing' = playing /\ assist' = assist
      /\ handsOff' = handsOff
  BY DEF ReportDust
<1>2. CASE AppReportDustDetected /\ task' = "Dust" /\ ClearTracking
           /\ UNCHANGED faults
  BY <1>1, <1>2, ClientFacts, StepKeepsSimInv DEF AppNext, ClearTracking
<1>3. CASE Fault /\ (AppReportDustDetected \/ UNCHANGED appVars)
           /\ UNCHANGED <<task, deadline>>
  BY <1>1, <1>3, ClientFacts, StepKeepsSimInv DEF AppNext
<1> QED BY <1>2, <1>3 DEF ReportDust, Exchange

(***************************************************************************)
(* A step begins with a snapshot: its answer leaves a drive command that   *)
(* fits the world, which does not change before the client reads it.       *)
(***************************************************************************)
LEMMA ReportObstaclesKeeps ==
    ASSUME SimInv, task = "Idle", ReportObstacles, keys' \in Nat
    PROVE  SimInv'
<1> DEFINE sensed == SensorValues(assist)
<1>1. UNCHANGED worldVars /\ playing' = playing /\ assist' = assist
      /\ handsOff' = handsOff
      /\ deadline' = deadline
  BY DEF ReportObstacles
<1>2. /\ sensed.front \in BOOLEAN /\ sensed.left \in BOOLEAN
      /\ sensed.back \in {"Clear", "Blocked"}
      /\ ~sensed.front => Step(robot, heading) \in map.floor
      /\ sensed.back = "Clear" =>
           Step(robot, RelativeDirection(2)) \in map.floor
  BY ClearIsFloor, ClientFacts DEF WorldInv, WorldTypeOK
<1>3. \/ /\ SetObstacleState(sensed.front, sensed.back, sensed.left)
         /\ task' = "Step" /\ UNCHANGED faults
      \/ /\ Fault /\ UNCHANGED task
         /\ \/ SetObstacleState(sensed.front, sensed.back, sensed.left)
            \/ UNCHANGED appVars
  BY DEF ReportObstacles, Exchange
<1>4. sensed.back \in BackStates
  BY <1>2 DEF BackStates
<1> HIDE DEF sensed
<1>5. [AppNext]_appVars
  BY <1>2, <1>3, <1>4 DEF AppNext
<1>6. CASE /\ SetObstacleState(sensed.front, sensed.back, sensed.left)
           /\ task' = "Step" /\ UNCHANGED faults
  <2>1. /\ drive' = "MoveForward" => ~sensed.front
        /\ drive' = "MoveBackward" => sensed.back = "Clear"
    BY <1>2, <1>4, <1>6, ClientFacts, SnapshotDrivesFreely
  <2>2. /\ robot' = robot /\ heading' = heading /\ map' = map
        /\ RelativeDirection(2)' = RelativeDirection(2)
    BY <1>1 DEF worldVars, RelativeDirection
  <2>3. StepIsFree'
    <3>1. Step(robot, heading)' = Step(robot, heading)
      BY <2>2 DEF Step
    <3>2. Step(robot, RelativeDirection(2))' =
            Step(robot, RelativeDirection(2))
      BY <2>2 DEF Step
    <3> QED BY <1>2, <2>1, <2>2, <3>1, <3>2 DEF StepIsFree
  <2>4. DeadlineMatchesTimer'
    BY <1>6 DEF DeadlineMatchesTimer
  <2>5. AppInv' /\ WorldInv'
    BY <1>1, <1>5, ClientFacts, AppNextKeepsAppInv, WorldStepKeepsWorldInv
  <2>6. ClientTypeOK'
    BY <1>1, <1>6, ClientFacts DEF ClientTypeOK
  <2> QED BY <2>3, <2>4, <2>5, <2>6 DEF SimInv
<1>7. CASE Fault /\ UNCHANGED task
  BY <1>1, <1>5, <1>7, ClientFacts, StepKeepsSimInv
<1> QED BY <1>3, <1>6, <1>7

\* There is nothing left to do: the run stops.
LEMMA StopCoveredKeeps ==
    ASSUME SimInv, task = "Idle", StopCovered, keys' \in Nat
    PROVE  SimInv'
<1>1. /\ UNCHANGED <<appVars, worldVars>> /\ playing' = FALSE
      /\ assist' = assist
      /\ handsOff' = handsOff /\ deadline' = deadline /\ task' = task
      /\ UNCHANGED faults
  BY DEF StopCovered
<1>2. timer' = timer
  BY <1>1 DEF appVars, vars
<1>3. CASE Undisturbed
  BY <1>1, <1>2, <1>3, ClientFacts, StepKeepsSimInv
<1>4. CASE ~Undisturbed
  BY <1>1, <1>4, ClientFacts, AppNextKeepsAppInv, WorldStepKeepsWorldInv
  DEF SimInv, ClientTypeOK, Undisturbed, DeadlineMatchesTimer, StepIsFree
<1> QED BY <1>3, <1>4

\* run_map_step
LEMMA RunMapStepKeeps ==
    ASSUME SimInv, RunMapStep, keys' \in Nat
    PROVE  SimInv'
  BY ReportDustKeeps, ReportObstaclesKeeps, StopCoveredKeeps DEF RunMapStep

\* The step's state is read and its drive command applied.
LEMMA MoveKeeps ==
    ASSUME SimInv, Move
    PROVE  SimInv'
<1>1. task' = "Idle" /\ assist' = assist
      /\ handsOff' = handsOff /\ keys' = keys
  BY DEF Move
<1>2. CASE /\ UNCHANGED appVars /\ UNCHANGED faults
           /\ SyncPowerTimer /\ ApplyDrive(Shown.DRIVE) /\ StopIfCovered
  <2>1. deadline' \in Deadlines /\ (timer' <=> deadline' # "None")
    BY <1>2, SyncAgrees
  <2>2. playing' \in BOOLEAN /\ [WorldStep]_worldVars
    BY <1>2, ClientFacts DEF StopIfCovered, WorldStep
  <2> QED BY <1>1, <1>2, <2>1, <2>2, ClientFacts, StepKeepsSimInv
<1>3. CASE /\ Fault /\ UNCHANGED appVars
           /\ UNCHANGED <<worldVars, playing, deadline>>
  BY <1>1, <1>3, ClientFacts, StepKeepsSimInv
<1> QED BY <1>2, <1>3 DEF Move, GetState, Exchange

\* The state after a dust report is read and the dust taken away.
LEMMA ClearDustKeeps ==
    ASSUME SimInv, ClearDust
    PROVE  SimInv'
<1> DEFINE Cleared ==
             IF Shown.CLEANING_POWER = "INCREASED" \/ Shown.DUST = "1"
             THEN ClearCurrentDust /\ StopIfCovered
             ELSE UNCHANGED <<worldVars, playing>>
<1>1. task' = "Idle" /\ assist' = assist
      /\ handsOff' = handsOff /\ keys' = keys
  BY DEF ClearDust
<1>2. CASE UNCHANGED appVars /\ UNCHANGED faults /\ SyncPowerTimer /\ Cleared
  <2>1. deadline' \in Deadlines /\ (timer' <=> deadline' # "None")
    BY <1>2, SyncAgrees
  <2>2. playing' \in BOOLEAN /\ [WorldStep]_worldVars
    BY <1>2, ClientFacts DEF StopIfCovered, WorldStep
  <2> QED BY <1>1, <1>2, <2>1, <2>2, ClientFacts, StepKeepsSimInv
<1>3. CASE /\ Fault /\ UNCHANGED appVars
           /\ UNCHANGED <<worldVars, playing, deadline>>
  BY <1>1, <1>3, ClientFacts, StepKeepsSimInv
<1> QED BY <1>2, <1>3 DEF ClearDust, GetState, Exchange

\* The state is read and nothing else done with it.
LEMMA RefreshKeeps ==
    ASSUME SimInv, Refresh
    PROVE  SimInv'
<1>1. /\ task' = "Idle" /\ assist' = assist
      /\ handsOff' = handsOff /\ keys' = keys
      /\ UNCHANGED worldVars /\ playing' = playing
  BY DEF Refresh
<1>2. CASE UNCHANGED appVars /\ UNCHANGED faults /\ SyncPowerTimer
  <2>1. deadline' \in Deadlines /\ (timer' <=> deadline' # "None")
    BY <1>2, SyncAgrees
  <2> QED BY <1>1, <1>2, <2>1, ClientFacts, StepKeepsSimInv
<1>3. CASE Fault /\ UNCHANGED appVars /\ UNCHANGED deadline
  BY <1>1, <1>3, ClientFacts, StepKeepsSimInv
<1> QED BY <1>2, <1>3 DEF Refresh, GetState, Exchange

\* Time passes, whatever the client waits for.
LEMMA DeadlinePassesKeeps ==
    ASSUME SimInv, DeadlinePasses
    PROVE  SimInv'
<1>1. /\ UNCHANGED <<appVars, worldVars>> /\ playing' = playing
      /\ assist' = assist
      /\ handsOff' = handsOff /\ task' = task
      /\ keys' = keys /\ faults' = faults
      /\ deadline = "Ahead" /\ deadline' = "Reached"
  BY DEF DeadlinePasses
<1>2. AppInv' /\ WorldInv'
  BY <1>1, ClientFacts, AppNextKeepsAppInv, WorldStepKeepsWorldInv
<1>3. ClientTypeOK'
  BY <1>1, ClientFacts DEF ClientTypeOK
<1>4. timer' = timer /\ drive' = drive
  BY <1>1 DEF appVars, vars
<1>5. DeadlineMatchesTimer'
  BY <1>1, <1>4 DEF SimInv, DeadlineMatchesTimer, Undisturbed
<1>6. StepIsFree'
  <2>1. /\ Step(robot, heading)' = Step(robot, heading)
        /\ Step(robot, RelativeDirection(2))' =
             Step(robot, RelativeDirection(2))
        /\ map' = map
    BY <1>1 DEF worldVars, Step, RelativeDirection
  <2> QED BY <1>1, <1>4, <2>1 DEF SimInv, StepIsFree, Undisturbed
<1> QED BY <1>2, <1>3, <1>5, <1>6 DEF SimInv

(***************************************************************************)
(* The deadline is polled: an accepted POWER_TIMEOUT is followed by a read *)
(* of the state; a refused one means that no timer runs.                   *)
(***************************************************************************)
LEMMA PollPowerTimerKeeps ==
    ASSUME SimInv, PollPowerTimer
    PROVE  SimInv'
<1>1. /\ task = "Idle" /\ assist' = assist
      /\ handsOff' = handsOff /\ keys' = keys
      /\ UNCHANGED worldVars /\ playing' = playing
  BY DEF PollPowerTimer
<1>2. CASE /\ ExpirePowerTimer /\ UNCHANGED faults
           /\ IF accepted' THEN task' = "Refresh" /\ UNCHANGED deadline
              ELSE UNCHANGED task /\ ClearTracking
  <2>1. CASE accepted'
    BY <1>1, <1>2, <2>1, ClientFacts, StepKeepsSimInv DEF AppNext
  <2>2. CASE ~accepted'
    <3>1. ~timer
      BY <1>2, <2>2 DEF ExpirePowerTimer
    <3>2. timer' = FALSE
      BY <1>2, <3>1, RefusedTimeout, ClientFacts
    <3> QED
      BY <1>1, <1>2, <2>2, <3>2, ClientFacts, StepKeepsSimInv
      DEF AppNext, ClearTracking
  <2> QED BY <2>1, <2>2
<1>3. CASE /\ Fault /\ (ExpirePowerTimer \/ UNCHANGED appVars)
           /\ UNCHANGED task /\ ClearTracking
  BY <1>1, <1>3, ClientFacts, StepKeepsSimInv DEF AppNext, ClearTracking
<1> QED BY <1>2, <1>3 DEF PollPowerTimer, Exchange

\* Another session's command: whatever it does, it is a fault.
LEMMA IntrudeKeeps ==
    ASSUME SimInv, Intrude
    PROVE  SimInv'
<1>1. /\ Fault /\ AppNext /\ UNCHANGED worldVars /\ playing' = playing
      /\ assist' = assist
      /\ handsOff' = handsOff /\ deadline' = deadline /\ task' = task
      /\ keys' = keys
  BY DEF Intrude, clientVars
<1> QED BY <1>1, ClientFacts, StepKeepsSimInv

-----------------------------------------------------------------------------
(***************************************************************************)
(* One lemma per key.                                                      *)
(***************************************************************************)

\* Pressing a key uses it up; the client is between two tasks.
LEMMA KeyFacts ==
    ASSUME SimInv, PressKey
    PROVE  task = "Idle" /\ keys' \in Nat
  BY ClientFacts DEF PressKey

\* A key that leaves the timer, its deadline and the task alone.
LEMMA QuietKeyKeeps ==
    ASSUME SimInv, PressKey, UNCHANGED <<appVars, deadline, task, faults>>,
           [WorldStep]_worldVars, playing' \in BOOLEAN, assist' \in BOOLEAN,
           handsOff' \in BOOLEAN
    PROVE  SimInv'
<1>1. /\ deadline' = deadline /\ task' = "Idle" /\ task = "Idle"
      /\ faults' = faults /\ UNCHANGED appVars /\ keys' \in Nat
  BY KeyFacts
<1>2. timer' = timer
  BY <1>1 DEF appVars, vars
<1>3. CASE Undisturbed
  BY <1>1, <1>2, <1>3, ClientFacts, StepKeepsSimInv
<1>4. CASE ~Undisturbed
  BY <1>1, <1>4, ClientFacts, AppNextKeepsAppInv, WorldStepKeepsWorldInv
  DEF SimInv, ClientTypeOK, Undisturbed, DeadlineMatchesTimer, StepIsFree
<1> QED BY <1>3, <1>4

\* RESET after the world was reset: the deadline goes with the timer.
LEMMA ResetControllerKeeps ==
    ASSUME SimInv, PressKey, ResetController, [WorldStep]_worldVars
    PROVE  SimInv'
<1>1. playing' = FALSE /\ deadline' = "None" /\ assist' = assist
      /\ handsOff' = TRUE
  BY DEF ResetController, ClearTracking
<1>2. CASE Reset /\ task' = "Refresh" /\ UNCHANGED faults
  BY <1>1, <1>2, KeyFacts, ClientFacts, StepKeepsSimInv DEF AppNext
<1>3. CASE Fault /\ (Reset \/ UNCHANGED appVars) /\ UNCHANGED task
  BY <1>1, <1>3, KeyFacts, ClientFacts, StepKeepsSimInv DEF AppNext
<1> QED BY <1>2, <1>3 DEF ResetController, Exchange

\* GET_STATE by key.
LEMMA KeyGetStateKeeps ==
    ASSUME SimInv, KeyGetState
    PROVE  SimInv'
<1>1. /\ PressKey /\ task' = task /\ assist' = assist /\ handsOff' = handsOff
      /\ UNCHANGED worldVars /\ playing' = playing
  BY DEF KeyGetState
<1>2. CASE UNCHANGED appVars /\ UNCHANGED faults /\ SyncPowerTimer
  <2>1. deadline' \in Deadlines /\ (timer' <=> deadline' # "None")
    BY <1>2, SyncAgrees
  <2> QED BY <1>1, <1>2, <2>1, KeyFacts, ClientFacts, StepKeepsSimInv
<1>3. CASE Fault /\ UNCHANGED appVars /\ UNCHANGED deadline
  BY <1>1, <1>3, KeyFacts, ClientFacts, StepKeepsSimInv
<1> QED BY <1>2, <1>3 DEF KeyGetState, GetState, Exchange

(***************************************************************************)
(* A manual command is followed by a read of the state, unless it was a    *)
(* POWER_TIMEOUT that was refused.                                         *)
(***************************************************************************)
LEMMA KeyManualKeeps ==
    ASSUME SimInv, KeyManual
    PROVE  SimInv'
<1>1. /\ PressKey /\ assist' = assist /\ UNCHANGED worldVars
      /\ playing' = FALSE /\ handsOff' = FALSE
  BY DEF KeyManual
<1>2. CASE ManualReport /\ task' = "Refresh" /\ UNCHANGED deadline
           /\ UNCHANGED faults
  BY <1>1, <1>2, ManualReportIsCommand, KeyFacts, ClientFacts,
     StepKeepsSimInv
<1>3. CASE AppReportDustDetected /\ task' = "Refresh" /\ ClearTracking
           /\ UNCHANGED faults
  BY <1>1, <1>3, KeyFacts, ClientFacts, StepKeepsSimInv
  DEF AppNext, ClearTracking
<1>4. CASE /\ ExpirePowerTimer /\ UNCHANGED deadline /\ UNCHANGED faults
           /\ task' = IF accepted' THEN "Refresh" ELSE task
  <2>1. CASE accepted'
    BY <1>1, <1>4, <2>1, KeyFacts, ClientFacts, StepKeepsSimInv DEF AppNext
  <2>2. CASE ~accepted'
    <3>1. ~timer
      BY <1>4, <2>2 DEF ExpirePowerTimer
    <3>2. timer' = timer
      BY <1>4, <3>1, RefusedTimeout, ClientFacts
    <3>3. CASE Undisturbed
      BY <1>1, <1>4, <2>2, <3>2, <3>3, KeyFacts, ClientFacts,
         StepKeepsSimInv DEF AppNext
    <3>4. CASE ~Undisturbed
      <4>1. [AppNext]_appVars
        BY <1>4 DEF AppNext
      <4>2. AppInv' /\ WorldInv'
        BY <1>1, <4>1, ClientFacts, AppNextKeepsAppInv,
           WorldStepKeepsWorldInv
      <4> QED
        BY <1>1, <1>4, <2>2, <3>4, <4>2, KeyFacts, ClientFacts
        DEF SimInv, ClientTypeOK, Undisturbed, DeadlineMatchesTimer,
            StepIsFree
    <3> QED BY <3>3, <3>4
  <2> QED BY <2>1, <2>2
<1>5. CASE /\ Fault /\ UNCHANGED <<task, deadline>>
           /\ \/ ManualReport \/ AppReportDustDetected \/ ExpirePowerTimer
              \/ UNCHANGED appVars
  <2>1. [AppNext]_appVars
    BY <1>5, ManualReportIsCommand DEF AppNext
  <2> QED BY <1>1, <1>5, <2>1, KeyFacts, ClientFacts, StepKeepsSimInv
<1> QED BY <1>2, <1>3, <1>4, <1>5 DEF KeyManual, Exchange

\* Any key.
LEMMA PressAnyKeyKeeps ==
    ASSUME SimInv, PressAnyKey
    PROVE  SimInv'
<1>1. CASE KeyEnter
  BY <1>1, ClientFacts, QuietKeyKeeps DEF KeyEnter
<1>2. CASE KeySpace
  BY <1>2, KeyFacts, RunMapStepKeeps DEF KeySpace
<1>3. CASE KeyReset
  <2>1. [WorldStep]_worldVars
    BY <1>3, ClientFacts
    DEF KeyReset, ResetWorld, WorldStep, WorldInv, WorldTypeOK
  <2> QED BY <1>3, <2>1, ResetControllerKeeps DEF KeyReset
<1>4. CASE KeySwitchMap
  BY <1>4, ResetControllerKeeps DEF KeySwitchMap, WorldStep
<1>5. CASE KeyRestoreDust
  BY <1>5, ClientFacts, QuietKeyKeeps
  DEF KeyRestoreDust, WorldStep, clientVars
<1>6. CASE KeyAssist
  BY <1>6, ClientFacts, QuietKeyKeeps DEF KeyAssist
<1>7. CASE KeyGetState
  BY <1>7, KeyGetStateKeeps
<1>8. CASE KeyManual
  BY <1>8, KeyManualKeeps
<1> QED
  BY <1>1, <1>2, <1>3, <1>4, <1>5, <1>6, <1>7, <1>8 DEF PressAnyKey

-----------------------------------------------------------------------------
(***************************************************************************)
(* The theorems.                                                           *)
(***************************************************************************)

\* The invariant is inductive.
LEMMA SimNextKeepsSimInv == SimInv /\ [SimNext]_simVars => SimInv'
<1> SUFFICES ASSUME SimInv, [SimNext]_simVars PROVE SimInv'
  OBVIOUS
<1>1. CASE Play
  BY <1>1, ClientFacts, RunMapStepKeeps DEF Play
<1>2. CASE Move
  BY <1>2, MoveKeeps
<1>3. CASE ClearDust
  BY <1>3, ClearDustKeeps
<1>4. CASE Refresh
  BY <1>4, RefreshKeeps
<1>5. CASE DeadlinePasses
  BY <1>5, DeadlinePassesKeeps
<1>6. CASE PollPowerTimer
  BY <1>6, PollPowerTimerKeeps
<1>7. CASE PressAnyKey
  BY <1>7, PressAnyKeyKeeps
<1>8. CASE Intrude
  BY <1>8, IntrudeKeeps
<1>9. CASE UNCHANGED simVars
  <2>1. /\ UNCHANGED appVars /\ UNCHANGED worldVars /\ playing' = playing
        /\ assist' = assist
        /\ handsOff' = handsOff /\ deadline' = deadline /\ task' = task
        /\ keys' = keys /\ faults' = faults
    BY <1>9 DEF simVars, clientVars
  <2>2. AppInv' /\ WorldInv'
    BY <2>1, ClientFacts, AppNextKeepsAppInv, WorldStepKeepsWorldInv
  <2>3. timer' = timer /\ drive' = drive
    BY <2>1 DEF appVars, vars
  <2>4. /\ Step(robot, heading)' = Step(robot, heading)
        /\ Step(robot, RelativeDirection(2))' =
             Step(robot, RelativeDirection(2))
        /\ map' = map
    BY <2>1 DEF worldVars, Step, RelativeDirection
  <2> QED
    BY <2>1, <2>2, <2>3, <2>4
    DEF SimInv, ClientTypeOK, DeadlineMatchesTimer, StepIsFree, Undisturbed
<1> QED
  BY <1>1, <1>2, <1>3, <1>4, <1>5, <1>6, <1>7, <1>8, <1>9 DEF SimNext

\* The invariant in every run of the closed loop.
THEOREM SimInvariance == SimSpec => []SimInv
  BY SimInitEstablishes, SimNextKeepsSimInv, PTL DEF SimSpec

(***************************************************************************)
(* Every variable of the closed loop keeps its type; in particular the     *)
(* robot, what it has cleaned and the dust are on the floor of the map.    *)
(***************************************************************************)
THEOREM SimTypeCorrect == SimSpec => []SimTypeOK
<1>1. SimInv => SimTypeOK
  BY DEF SimInv, AppInv, WorldInv, ClientTypeOK, SimTypeOK
<1> QED BY <1>1, SimInvariance, PTL

(***************************************************************************)
(* Simulator and controller agree on whether a dust timer runs, as long as *)
(* no exchange failed and nobody else sent commands: for every map, any    *)
(* number of keys and any order of them.                                   *)
(***************************************************************************)
THEOREM TimersAgree == SimSpec => []DeadlineMatchesTimer
<1>1. SimInv => DeadlineMatchesTimer
  BY DEF SimInv
<1> QED BY <1>1, SimInvariance, PTL

(***************************************************************************)
(* The robot never leaves what it can reach from its first cell, and what  *)
(* has been cleaned is part of it: the run that cleans all of it covers    *)
(* exactly the reachable floor.                                            *)
(***************************************************************************)
THEOREM RobotKeepsToReachable == SimSpec => []KeepsToReachable
<1>1. SimInv => KeepsToReachable
  BY DEF SimInv, WorldInv
<1> QED BY <1>1, SimInvariance, PTL

(***************************************************************************)
(* The robot is not driven against a wall in an undisturbed session, with  *)
(* the assist or without it, on any map: the drive command that a step     *)
(* applies answers the sensors of that step (move_by_direction's guard is  *)
(* never what keeps the robot out of the wall).                            *)
(***************************************************************************)
THEOREM RobotNeverBumps == SimSpec => NeverBumps
<1>1. SimInv /\ [SimNext]_simVars =>
        [task = "Step" /\ Undisturbed' => ~Bumps(Shown.DRIVE)]_simVars
  <2> SUFFICES ASSUME SimInv, [SimNext]_simVars, task = "Step", Undisturbed'
               PROVE  ~Bumps(Shown.DRIVE)
    OBVIOUS
  <2>1. UNCHANGED faults \/ Fault
    <3>1. CASE Move \/ DeadlinePasses \/ Intrude \/ UNCHANGED simVars
      BY <3>1
      DEF Move, GetState, Exchange, DeadlinePasses, Intrude, simVars
    <3>2. task = "Idle" \/ Move \/ DeadlinePasses \/ Intrude
             \/ UNCHANGED simVars
      BY DEF SimNext, Play, RunMapStep, ClearDust, Refresh, PollPowerTimer,
             PressAnyKey, PressKey, KeyEnter, KeySpace, KeyReset,
             KeySwitchMap, KeyRestoreDust, KeyAssist, KeyGetState, KeyManual
    <3> QED BY <3>1, <3>2
  <2>2. Undisturbed
    BY <2>1, DisturbedByFault DEF SimInv, Undisturbed
  <2>3. /\ drive = "MoveForward" => Step(robot, heading) \in map.floor
        /\ drive = "MoveBackward" =>
             Step(robot, RelativeDirection(2)) \in map.floor
    BY <2>2 DEF SimInv, StepIsFree
  <2> QED BY <2>3, ShownWords, ClientFacts DEF Bumps
<1> QED BY <1>1, SimInvariance, PTL DEF SimSpec, NeverBumps

-----------------------------------------------------------------------------
(***************************************************************************)
(* What a snapshot of the sensors does to the avoidance, for the truth of  *)
(* a confirmed block: nothing is left of a block or a probe; the robot     *)
(* backs out; a probe found an obstacle; a probe is begun, ahead of an     *)
(* obstacle or while backing out; or a confirmed block is waited out, and  *)
(* avoided once more only with an obstacle ahead.                          *)
(***************************************************************************)
Outcome(front, left, a, drv) ==
    \/ ~a.confirmed /\ ~a.probeActive /\ ~BacksOut(a)
    \/ ~a.probeActive /\ BacksOut(a)
    \/ /\ ac.probeActive /\ front
       /\ a.confirmed /\ ~a.probeActive
       /\ a.status = "Blocked" /\ drv = "TurnLeft"
    \/ /\ ~ac.probeActive /\ left /\ (front \/ BacksOut(ac))
       /\ a.probeActive /\ ~a.confirmed
       /\ a.status = "AvoidingObstacle" /\ drv = "TurnRight"
    \/ /\ ac.confirmed /\ a.confirmed /\ ~a.probeActive
       /\ a.status # "Cleaning" /\ (a.status = "AvoidingObstacle" => front)
       /\ drv = "Stop"

\* The drive ends up with the last movement that was asked for.
LEMMA AppliedDrive ==
    ASSUME NEW d \in DeviceStates, NEW o
    PROVE  /\ o.result.moves = <<"Stop">> => Apply(d, o).dev.drive = "Stop"
           /\ o.result.moves = <<"TurnLeft">> =>
                Apply(d, o).dev.drive = "TurnLeft"
           /\ o.result.moves = <<"TurnRight">> =>
                Apply(d, o).dev.drive = "TurnRight"
<1> DEFINE ms == o.result.moves
           d1 == ExecuteCleaningCommand(d, o.ac, o.result.cleaning)
           d2 == ExecuteMovementCommands(d1, ms)
           d3 == StartTimerIfNeeded(d2, o.result.timer)
           Fields == {"drive", "power", "timer", "calls"}
<1>1. d = [d EXCEPT !.drive = d.drive] /\ DOMAIN d = Fields
  BY DEF DeviceStates
<1>2. DOMAIN d1 = Fields
  BY <1>1 DEF ExecuteCleaningCommand, SetCleaningPower
<1> HIDE DEF d1
<1>3. ms # <<>> => d2.drive = ms[Len(ms)] /\ DOMAIN d2 = Fields
  BY <1>2 DEF ExecuteMovementCommands
<1> HIDE DEF d2
<1>4. ms # <<>> => d3.drive = ms[Len(ms)]
  BY <1>3 DEF StartTimerIfNeeded
<1>5. Apply(d, o).dev = d3
  BY DEF Apply, d1, d2
<1> HIDE DEF d3
<1>6. \A x : <<x>> # <<>> /\ Len(<<x>>) = 1 /\ <<x>>[1] = x
  OBVIOUS
<1> QED BY <1>4, <1>5, <1>6

\* A turn.
LEMMA TurnedDrive ==
    ASSUME NEW d \in DeviceStates, NEW a
    PROVE  /\ Turn(d, a, "Left").dev.drive = "TurnLeft"
           /\ Turn(d, a, "RightProbe").dev.drive = "TurnRight"
<1>1. \A x : Moving(x).moves = x
  BY DEF Moving, NoCommands
<1> QED BY <1>1, AppliedDrive DEF Turn

\* Serving a pending report does not touch the avoidance.
LEMMA ServingKeepsAvoidance ==
    ASSUME NEW st, st.ac \in ACS, NEW s
    PROVE  LET a == ApplyPendingDustResponseIfCleaning(st, s).ac
           IN  /\ a.status = st.ac.status /\ a.confirmed = st.ac.confirmed
               /\ a.probeActive = st.ac.probeActive
<1>1. LET a == HandleDustDetected(st.ac, s).ac
      IN  /\ a.status = st.ac.status /\ a.confirmed = st.ac.confirmed
          /\ a.probeActive = st.ac.probeActive
  BY DEF HandleDustDetected, ACS, AutomaticCleaningStates
<1>2. \A d, o : ApplyInitialDustResponse(d, o).ac = o.ac
  BY DEF ApplyInitialDustResponse
<1> QED BY <1>1, <1>2 DEF ApplyPendingDustResponseIfCleaning

\* handleThreeSideObstacle behind a confirmed block.
LEMMA ThreeSideOutcome ==
    ASSUME NEW a \in ACS, NEW s \in SensorStates, a.confirmed,
           ~a.probeActive
    PROVE  LET o == HandleThreeSideObstacle(a, s)
           IN  /\ ~o.ac.probeActive
               /\ \/ BacksOut(o.ac)
                  \/ /\ o.ac.confirmed /\ o.ac.status \in {"Blocked", "Stopped"}
                     /\ o.result.moves = <<"Stop">>
  BY DEF HandleThreeSideObstacle, StopBlocked, BackOut, ClearThreeSideBlock,
         BacksOut, Moving, NoCommands, ACS, AutomaticCleaningStates

\* handleSensorState.
LEMMA SensorOutcome ==
    ASSUME NEW a \in ACS, NEW s \in SensorStates, ~a.probeActive
    PROVE  LET o == HandleSensorState(a, s)
           IN  /\ ~o.ac.probeActive
               /\ s.front => /\ o.ac.confirmed = a.confirmed
                             /\ o.ac.status = "AvoidingObstacle"
                             /\ o.result.moves = <<"Stop">>
               /\ ~s.front => ~o.ac.confirmed /\ o.ac.status = "Cleaning"
  BY DEF HandleSensorState, StopAndAvoid, NormalCleaningResult,
         ClearThreeSideBlock, Moving, NoCommands, ACS,
         AutomaticCleaningStates

\* handleObstacleWhileDustResponse differs in the power only.
LEMMA RespondingOutcome ==
    ASSUME NEW a \in ACS, NEW s \in SensorStates
    PROVE  LET o == HandleObstacleWhileDustResponse(a, s)
               p == IF a.confirmed THEN HandleThreeSideObstacle(a, s)
                    ELSE HandleSensorState(a, s)
           IN  o.ac = p.ac /\ o.result.moves = p.result.moves
  BY DEF HandleObstacleWhileDustResponse, HandleThreeSideObstacle,
         HandleSensorState, StopBlocked, BackOut, StopAndAvoid,
         NormalCleaningResult, MaintainCurrentCleaningPower, Moving,
         NoCommands

\* selectAvoidanceDirection, and what follows a probe that found it open.
LEMMA SelectOutcome ==
    ASSUME NEW a \in ACS, NEW s \in SensorStates
    PROVE  LET c == SelectAvoidanceDirection(a, s)
           IN  /\ a.probeActive /\ s.front =>
                    /\ c.decision = "Backward" /\ c.ac.status = "Blocked"
                    /\ c.ac.confirmed /\ ~c.ac.probeActive
               /\ a.probeActive /\ ~s.front =>
                    /\ c.decision = "Right"
                    /\ ~c.ac.confirmed /\ ~c.ac.probeActive
               /\ ~a.probeActive /\ s.left =>
                    /\ c.decision = "RightProbe"
                    /\ c.ac.status = "AvoidingObstacle"
                    /\ ~c.ac.confirmed /\ c.ac.probeActive
               /\ ~a.probeActive /\ ~s.left =>
                    /\ c.decision = "Left"
                    /\ c.ac.status = "AvoidingObstacle"
                    /\ ~c.ac.confirmed /\ ~c.ac.probeActive
  BY DEF SelectAvoidanceDirection, ProbeFoundBlocked, ProbeFoundOpen,
         StartRightProbe, TakeLeft, ClearThreeSideBlock, ACS,
         AutomaticCleaningStates

\* Driving on keeps the block; in front of an obstacle so does stopping.
LEMMA ResumeOutcome ==
    ASSUME NEW a \in ACS, NEW s \in SensorStates
    PROVE  LET o == ResumeAfterTurn(a, s)
           IN  /\ o.ac \in ACS
               /\ o.ac.confirmed = a.confirmed
               /\ o.ac.probeActive = a.probeActive
               /\ o.ac.status \in {"Cleaning", "AvoidingObstacle"}
  BY DEF ResumeAfterTurn, StopAndAvoid, DriveOn, ACS,
         AutomaticCleaningStates, MovementStatus

(***************************************************************************)
(* The outcome of a snapshot, path by path.  That a robot does not clean   *)
(* with a block still confirmed, and goes on avoiding behind one only with *)
(* an obstacle ahead, is what keeps resumeAfterTurn, which does not clear  *)
(* the block, from carrying it away.                                       *)
(***************************************************************************)
LEMMA SnapshotOutcome ==
    ASSUME IInv, NEW front \in BOOLEAN, NEW back \in BackStates,
           NEW left \in BOOLEAN, ReportObstacleState(front, back, left),
           ac.status = "Cleaning" => ~ac.confirmed,
           ac.status = "AvoidingObstacle" /\ ac.confirmed => front
    PROVE  Outcome(front, left, ac', drive')
<1> DEFINE s == [sensor EXCEPT !.front = front, !.back = back, !.left = left]
           leaves == Blocked /\ HasEffect(LeaveBlock(s).result)
           Good(st) == Outcome(front, left, st.ac, st.dev.drive)
<1>1. s \in SensorStates /\ s.front = front /\ s.left = left
  BY StartFacts DEF SensorStates
<1>2. ac \in ACS /\ Devices \in DeviceStates /\ BlockOK(ac)
      /\ ac.status \in MovementStatus
  BY StartFacts DEF ACS, AutomaticCleaningStates
<1> HIDE DEF s
<1>3. ASSUME NEW o, ~ac.probeActive, ac.confirmed,
             o.ac = HandleThreeSideObstacle(ac, s).ac,
             o.result.moves = HandleThreeSideObstacle(ac, s).result.moves
      PROVE  Good(Apply(Devices, o))
  <2>1. /\ ~o.ac.probeActive
        /\ \/ BacksOut(o.ac)
           \/ /\ o.ac.confirmed /\ o.ac.status \in {"Blocked", "Stopped"}
              /\ o.result.moves = <<"Stop">>
    BY <1>1, <1>2, <1>3, ThreeSideOutcome
  <2>2. Apply(Devices, o).ac = o.ac
    BY CarriedOut
  <2>3. CASE BacksOut(o.ac)
    BY <2>1, <2>2, <2>3 DEF Outcome
  <2>4. CASE ~BacksOut(o.ac)
    <3>1. Apply(Devices, o).dev.drive = "Stop"
      BY <1>2, <2>1, <2>4, AppliedDrive
    <3> QED BY <1>3, <2>1, <2>2, <2>4, <3>1 DEF Outcome
  <2> QED BY <2>3, <2>4
<1>4. ASSUME NEW o, ~ac.probeActive, ac.confirmed => ac.status = "Stopped",
             o.ac = HandleSensorState(ac, s).ac,
             o.result.moves = HandleSensorState(ac, s).result.moves
      PROVE  Good(Apply(Devices, o))
  <2>1. /\ ~o.ac.probeActive
        /\ s.front => /\ o.ac.confirmed = ac.confirmed
                      /\ o.ac.status = "AvoidingObstacle"
                      /\ o.result.moves = <<"Stop">>
        /\ ~s.front => ~o.ac.confirmed /\ o.ac.status = "Cleaning"
    BY <1>1, <1>2, <1>4, SensorOutcome
  <2>2. Apply(Devices, o).ac = o.ac
    BY CarriedOut
  <2>3. s.front => Apply(Devices, o).dev.drive = "Stop"
    BY <1>2, <2>1, AppliedDrive
  <2>4. ac.confirmed \in BOOLEAN
    BY <1>2 DEF ACS, AutomaticCleaningStates
  <2> QED BY <1>1, <2>1, <2>2, <2>3, <2>4 DEF Outcome, BacksOut
<1>5. PICK st : Return(s, st) /\ Good(st)
  <2>1. CASE ac.probeActive
    <3> DEFINE c == SelectAvoidanceDirection(ac, s)
               o == ResumeAfterTurn(c.ac, s)
    <3>1. Return(s, ApplyRightProbeResult(Devices, s))
      BY <2>1 DEF ReportObstacleState, s
    <3>2. CASE s.front
      <4>1. /\ c.decision = "Backward" /\ c.ac.status = "Blocked"
            /\ c.ac.confirmed /\ ~c.ac.probeActive
        BY <1>1, <1>2, <2>1, <3>2, SelectOutcome
      <4>2. ApplyRightProbeResult(Devices, s) = Turn(Devices, c.ac, "Left")
        BY <4>1 DEF ApplyRightProbeResult
      <4>3. /\ Turn(Devices, c.ac, "Left").ac = c.ac
            /\ Turn(Devices, c.ac, "Left").dev.drive = "TurnLeft"
        BY <1>2, CarriedOut, TurnedDrive
      <4> HIDE DEF c
      <4> QED BY <1>1, <2>1, <3>1, <3>2, <4>1, <4>2, <4>3 DEF Outcome
    <3>3. CASE ~s.front
      <4>1. /\ c.decision = "Right" /\ c.ac \in ACS
            /\ ~c.ac.confirmed /\ ~c.ac.probeActive
        BY <1>1, <1>2, <2>1, <3>3, SelectOutcome, SelectContract
      <4> DEFINE t == ApplyPendingDustResponseIfCleaning(
                        Apply(Devices, o), s)
      <4>2. ApplyRightProbeResult(Devices, s) = t
        BY <4>1 DEF ApplyRightProbeResult
      <4> HIDE DEF c
      <4>3. /\ o.ac \in ACS /\ ~o.ac.confirmed /\ ~o.ac.probeActive
            /\ o.ac.status \in {"Cleaning", "AvoidingObstacle"}
        BY <1>1, <4>1, ResumeOutcome
      <4>4. Apply(Devices, o).ac = o.ac
        BY CarriedOut
      <4>5. /\ t.ac.status = o.ac.status /\ t.ac.confirmed = o.ac.confirmed
            /\ t.ac.probeActive = o.ac.probeActive
        BY <4>3, <4>4, ServingKeepsAvoidance
      <4> HIDE DEF t, o
      <4> QED BY <3>1, <4>2, <4>3, <4>5 DEF Outcome, BacksOut
    <3> QED BY <3>2, <3>3
  <2>2. CASE ~ac.probeActive /\ leaves
    <3>1. Return(s, Apply(Devices, LeaveBlock(s)))
      BY <2>2 DEF ReportObstacleState, Avoiding, Blocked, s
    <3>2. ac.dustActive \/ ac.confirmed
      BY <2>2 DEF LeaveBlock, HandleThreeSideObstacle, HasEffect, NoCommands
    <3>3. CASE ac.confirmed
      <4>1. /\ LeaveBlock(s).ac = HandleThreeSideObstacle(ac, s).ac
            /\ LeaveBlock(s).result.moves =
                 HandleThreeSideObstacle(ac, s).result.moves
        BY <1>1, <1>2, <3>3, RespondingOutcome DEF LeaveBlock
      <4> QED BY <1>3, <2>2, <3>1, <3>3, <4>1
    <3>4. CASE ~ac.confirmed
      <4>1. /\ LeaveBlock(s).ac = HandleSensorState(ac, s).ac
            /\ LeaveBlock(s).result.moves =
                 HandleSensorState(ac, s).result.moves
        BY <1>1, <1>2, <3>2, <3>4, RespondingOutcome DEF LeaveBlock
      <4> QED BY <1>4, <2>2, <3>1, <3>4, <4>1
    <3> QED BY <3>3, <3>4
  <2>3. CASE ~ac.probeActive /\ ~leaves /\ (Blocked \/ (Avoiding /\ front))
    <3> DEFINE c == SelectAvoidanceDirection(ac, s)
    <3>1. Return(s, ApplyAvoidanceDecision(Devices, s))
      BY <2>3 DEF ReportObstacleState, Avoiding, Blocked, s
    <3>2. front \/ BacksOut(ac)
      <4>1. Blocked /\ ac.confirmed => leaves
        <5>1. ASSUME ac.confirmed
              PROVE  HandleThreeSideObstacle(ac, s).result.moves # <<>>
          BY <5>1
          DEF HandleThreeSideObstacle, StopBlocked, BackOut, Moving,
              NoCommands
        <5>2. ASSUME ac.confirmed
              PROVE  LeaveBlock(s).result.moves =
                       HandleThreeSideObstacle(ac, s).result.moves
          BY <1>1, <1>2, <5>2, RespondingOutcome DEF LeaveBlock
        <5> QED BY <5>1, <5>2 DEF HasEffect
      <4> QED BY <2>3, <4>1 DEF BacksOut, Blocked
    <3>3. CASE s.left
      <4>1. /\ c.decision = "RightProbe" /\ c.ac.status = "AvoidingObstacle"
            /\ ~c.ac.confirmed /\ c.ac.probeActive
        BY <1>1, <1>2, <2>3, <3>3, SelectOutcome
      <4>2. ApplyAvoidanceDecision(Devices, s) =
              Turn(Devices, c.ac, "RightProbe")
        BY <4>1 DEF ApplyAvoidanceDecision
      <4>3. /\ Turn(Devices, c.ac, "RightProbe").ac = c.ac
            /\ Turn(Devices, c.ac, "RightProbe").dev.drive = "TurnRight"
        BY <1>2, CarriedOut, TurnedDrive
      <4> HIDE DEF c
      <4> QED
        BY <1>1, <2>3, <3>1, <3>2, <3>3, <4>1, <4>2, <4>3 DEF Outcome
    <3>4. CASE ~s.left
      <4>1. /\ c.ac.status = "AvoidingObstacle"
            /\ ~c.ac.confirmed /\ ~c.ac.probeActive
        BY <1>1, <1>2, <2>3, <3>4, SelectOutcome
      <4>2. ApplyAvoidanceDecision(Devices, s).ac = c.ac
        BY CarriedOut
      <4> HIDE DEF c
      <4> QED BY <3>1, <4>1, <4>2 DEF Outcome, BacksOut
    <3> QED BY <3>3, <3>4
  <2>4. CASE ~ac.probeActive /\ Avoiding /\ ~front
    <3> DEFINE o == ResumeAfterTurn(ac, s)
    <3>1. Return(s, Resumed(s))
      BY <2>4 DEF ReportObstacleState, Avoiding, Blocked, s
    <3>2. ~ac.confirmed
      BY <2>4 DEF Avoiding
    <3>3. /\ o.ac \in ACS /\ ~o.ac.confirmed /\ ~o.ac.probeActive
          /\ o.ac.status \in {"Cleaning", "AvoidingObstacle"}
      BY <1>1, <1>2, <2>4, <3>2, ResumeOutcome
    <3>4. Apply(Devices, o).ac = o.ac
      BY CarriedOut
    <3>5. /\ Resumed(s).ac.status = o.ac.status
          /\ Resumed(s).ac.confirmed = o.ac.confirmed
          /\ Resumed(s).ac.probeActive = o.ac.probeActive
      BY <3>3, <3>4, ServingKeepsAvoidance DEF Resumed
    <3> HIDE DEF o
    <3> QED BY <3>1, <3>3, <3>5 DEF Outcome, BacksOut
  <2>5. CASE ~ac.probeActive /\ ~(Avoiding \/ Blocked) /\ ac.dustActive
    <3>1. Return(s, SensedWhileResponding(s))
      BY <2>5 DEF ReportObstacleState, s
    <3> DEFINE o == HandleObstacleWhileDustResponse(ac, s)
    <3>2. SensedWhileResponding(s) = Apply(Devices, o)
      BY DEF SensedWhileResponding
    <3>3. LET p == IF ac.confirmed THEN HandleThreeSideObstacle(ac, s)
                   ELSE HandleSensorState(ac, s)
          IN  o.ac = p.ac /\ o.result.moves = p.result.moves
      BY <1>1, <1>2, RespondingOutcome
    <3> HIDE DEF o
    <3> QED BY <1>3, <1>4, <2>5, <3>1, <3>2, <3>3
  <2>6. CASE ~ac.probeActive /\ ~(Avoiding \/ Blocked) /\ ~ac.dustActive
    <3> DEFINE o == HandleSensorState(ac, s)
               t == ApplyPendingDustResponseIfCleaning(NewlySensed(s), s)
    <3>1. \/ front /\ Return(s, NewlySensed(s))
          \/ ~front /\ Return(s, t)
      BY <2>6 DEF ReportObstacleState, s
    <3>2. NewlySensed(s) = Apply(Devices, o) /\ NewlySensed(s).ac = o.ac
      BY CarriedOut DEF NewlySensed
    <3>3. ac.confirmed => ac.status = "Stopped"
      BY <1>2, <2>6 DEF Avoiding, Blocked, MovementStatus
    <3>4. Good(NewlySensed(s))
      BY <1>4, <2>6, <3>2, <3>3
    <3>5. ~front => Good(t)
      <4>1. /\ o.ac \in ACS /\ ~o.ac.probeActive
            /\ ~s.front => ~o.ac.confirmed /\ o.ac.status = "Cleaning"
        BY <1>1, <1>2, <2>6, SensorStateContract, SensorOutcome
      <4>2. /\ t.ac.status = o.ac.status /\ t.ac.confirmed = o.ac.confirmed
            /\ t.ac.probeActive = o.ac.probeActive
        BY <3>2, <4>1, ServingKeepsAvoidance
      <4> HIDE DEF o, t
      <4> QED BY <1>1, <4>1, <4>2 DEF Outcome, BacksOut
    <3> HIDE DEF t, Good
    <3> QED BY <3>1, <3>4, <3>5
  <2> HIDE DEF leaves, Good
  <2> QED BY <2>1, <2>2, <2>3, <2>4, <2>5, <2>6
<1> QED BY <1>5 DEF Return

-----------------------------------------------------------------------------
(***************************************************************************)
(* The inductive invariant behind BlockIsReal.  It follows a block through *)
(* the turns that find it: the obstacle ahead is on the left while the     *)
(* robot looks to its right, and ahead again when it has turned back.  In  *)
(* between the world, which only a robot that moves or takes dust changes, *)
(* stays the same: a robot that probes or is blocked stands on a cell that *)
(* has no dust.                                                            *)
(***************************************************************************)
Passed(offset) == Obstructed(offset) \/ Beside(offset) \in cleaned

\* Between the drive commands.
IdleFits ==
    /\ ac.probeActive => Obstructed(-2) /\ Passed(-1)
    /\ ac.confirmed => Obstructed(-1) /\ Obstructed(1) /\ Passed(0)
    /\ ac.confirmed /\ ac.status = "AvoidingObstacle" => Obstructed(0)
    /\ BacksOut(ac) => Beside(0) \in cleaned

\* While the last drive command is still to be applied.
StepFits ==
    /\ ac.probeActive => drive = "TurnRight" /\ Obstructed(-1) /\ Passed(0)
    /\ ac.confirmed =>
         \/ /\ drive = "TurnLeft" /\ ac.status = "Blocked"
            /\ Obstructed(-2) /\ Obstructed(0) /\ Passed(-1)
         \/ /\ drive = "Stop" /\ Obstructed(-1) /\ Obstructed(1) /\ Passed(0)
            /\ ac.status = "AvoidingObstacle" => Obstructed(0)
    /\ BacksOut(ac) => drive = "MoveBackward"

BlockInv ==
    handsOff /\ Undisturbed =>
        /\ ac.status = "Cleaning" => ~ac.confirmed
        /\ ac.probeActive \/ ac.confirmed => robot \notin dust
        /\ task = "Dust" => ~ac.probeActive /\ ~ac.confirmed
        /\ IF task = "Step" THEN StepFits ELSE IdleFits

\* What the sensors see does not depend on the heading.
LEMMA SameOpen ==
    ASSUME UNCHANGED <<map, reachable, robot, dust, cleaned>>,
           assist' = assist
    PROVE  OpenNeighbours(assist)' = OpenNeighbours(assist)
<1>1. /\ map' = map /\ reachable' = reachable /\ robot' = robot
      /\ dust' = dust /\ cleaned' = cleaned
  OBVIOUS
<1>2. /\ FreeNeighbours' = FreeNeighbours
      /\ CoverageTargets' = CoverageTargets
  BY <1>1 DEF FreeNeighbours, CoverageTargets, Adjacent, Step
<1>3. CoverageOpenNeighbours' = CoverageOpenNeighbours
  BY <1>1, <1>2 DEF CoverageOpenNeighbours, Spread
<1> QED BY <1>2, <1>3 DEF OpenNeighbours

\* In the same world, with the same heading, everything looks the same.
LEMMA SameView ==
    ASSUME UNCHANGED worldVars, assist' = assist
    PROVE  /\ \A k : Obstructed(k)' <=> Obstructed(k)
           /\ \A k : Beside(k)' = Beside(k)
           /\ \A k : Passed(k)' <=> Passed(k)
<1>1. /\ map' = map /\ reachable' = reachable /\ robot' = robot
      /\ dust' = dust /\ cleaned' = cleaned /\ heading' = heading
  BY DEF worldVars
<1>2. \A k : Beside(k)' = Beside(k)
  BY <1>1 DEF Beside, Step, RelativeDirection
<1>3. OpenNeighbours(assist)' = OpenNeighbours(assist)
  BY <1>1, SameOpen
<1>4. \A k : Obstructed(k) <=> Beside(k) \notin OpenNeighbours(assist)
  BY DEF Obstructed, ObstacleInRelativeDirection, Beside
<1>5. \A k : Obstructed(k)' <=> Beside(k)' \notin OpenNeighbours(assist)'
  BY DEF Obstructed, ObstacleInRelativeDirection, Beside
<1>6. \A k : Obstructed(k)' <=> Obstructed(k)
  BY <1>2, <1>3, <1>4, <1>5
<1> QED BY <1>1, <1>2, <1>6 DEF Passed

\* After a quarter turn everything has moved on by one side.
LEMMA TurnedView ==
    ASSUME heading \in Headings, NEW j \in {-1, 1}, TurnBy(j),
           assist' = assist
    PROVE  \A k \in -2..2 : /\ Obstructed(k)' <=> Obstructed(j + k)
                            /\ Passed(k)' <=> Passed(j + k)
<1>1. /\ map' = map /\ reachable' = reachable /\ robot' = robot
      /\ dust' = dust /\ cleaned' = cleaned
      /\ heading' = RelativeDirection(j)
  BY DEF TurnBy
<1>2. ASSUME NEW k \in -2..2
      PROVE  Beside(k)' = Beside(j + k)
  <2>1. RelativeDirection(k)' = RelativeDirection(j + k)
    BY <1>1, QuarterTurn
  <2> QED BY <1>1, <2>1 DEF Beside, Step
<1>3. OpenNeighbours(assist)' = OpenNeighbours(assist)
  BY <1>1, SameOpen
<1>4. \A k : Obstructed(k) <=> Beside(k) \notin OpenNeighbours(assist)
  BY DEF Obstructed, ObstacleInRelativeDirection, Beside
<1>5. \A k : Obstructed(k)' <=> Beside(k)' \notin OpenNeighbours(assist)'
  BY DEF Obstructed, ObstacleInRelativeDirection, Beside
<1> QED BY <1>1, <1>2, <1>3, <1>4, <1>5 DEF Passed

-----------------------------------------------------------------------------
(***************************************************************************)
(* The steps.                                                              *)
(***************************************************************************)

\* A step that is a fault, or is an interference, promises nothing.
LEMMA DisturbedBlock ==
    ASSUME SimInv, Fault \/ handsOff' = FALSE
    PROVE  BlockInv'
  BY DisturbedByFault DEF SimInv, BlockInv

\* A step that leaves the world, the block and the probe alone.
LEMMA QuietKeepsBlock ==
    ASSUME BlockInv, UNCHANGED worldVars, assist' = assist,
           handsOff' = handsOff, faults' = faults,
           ac'.status = ac.status, ac'.confirmed = ac.confirmed,
           ac'.probeActive = ac.probeActive,
           task' = "Step" <=> task = "Step", task' = "Step" => drive' = drive,
           task' = "Dust" => robot \in dust \/ task = "Dust"
    PROVE  BlockInv'
<1> SUFFICES ASSUME handsOff', Undisturbed' PROVE BlockInv'
  BY DEF BlockInv
<1>1. handsOff /\ Undisturbed
  BY DEF Undisturbed
<1>2. /\ ac.status = "Cleaning" => ~ac.confirmed
      /\ ac.probeActive \/ ac.confirmed => robot \notin dust
      /\ task = "Dust" => ~ac.probeActive /\ ~ac.confirmed
      /\ IF task = "Step" THEN StepFits ELSE IdleFits
  BY <1>1 DEF BlockInv
<1>3. robot' = robot /\ dust' = dust /\ cleaned' = cleaned
  BY DEF worldVars
<1>4. BacksOut(ac)' <=> BacksOut(ac)
  BY DEF BacksOut
<1>5. task # "Step" => IdleFits'
  BY <1>2, <1>3, <1>4, SameView DEF IdleFits
<1>6. task = "Step" => StepFits'
  BY <1>2, <1>4, SameView DEF StepFits
<1> QED BY <1>2, <1>3, <1>5, <1>6 DEF BlockInv

\* Dust reports and timeouts leave the block and the probe alone.
LEMMA CleaningEventsKeepAvoidance ==
    ASSUME AppInv, AppReportDustDetected \/ ExpirePowerTimer
    PROVE  /\ ac'.status = ac.status /\ ac'.confirmed = ac.confirmed
           /\ ac'.probeActive = ac.probeActive
<1>1. ac \in AutomaticCleaningStates
  BY DEF AppInv, AppTypeOK, TypeOK
<1>2. CASE AppReportDustDetected
  <2>1. ac' = [ac EXCEPT !.dustActive = ac'.dustActive,
                         !.dustLevel = ac'.dustLevel,
                         !.pending = ac'.pending]
    BY <1>2, DustFits DEF AppReportDustDetected, AppInv
  <2> QED BY <1>1, <2>1 DEF AutomaticCleaningStates
<1>3. CASE ExpirePowerTimer /\ timer
  <2>1. ac' = [ac EXCEPT !.dustActive = ac'.dustActive,
                         !.dustLevel = ac'.dustLevel,
                         !.pending = ac'.pending]
    BY <1>3, TimeoutFits DEF ExpirePowerTimer, AppInv
  <2> QED BY <1>1, <2>1 DEF AutomaticCleaningStates
<1>4. CASE ExpirePowerTimer /\ ~timer
  BY <1>4, RefusedTimeout
<1> QED BY <1>2, <1>3, <1>4

\* At the start there is no block and no probe.
LEMMA SimInitHasNoBlock == SimInit => BlockInv
  BY DEF SimInit, AppInit, Init, InitAutomaticCleaning, BlockInv, IdleFits,
         BacksOut

\* A snapshot: what it finds out about the block is what the sensors saw.
LEMMA ReportObstaclesKeepsBlock ==
    ASSUME SimInv, BlockInv, task = "Idle", ReportObstacles
    PROVE  BlockInv'
<1> DEFINE sensed == SensorValues(assist)
<1>1. UNCHANGED worldVars /\ assist' = assist /\ handsOff' = handsOff
      /\ robot \notin dust
  BY DEF ReportObstacles
<1>2. \/ /\ SetObstacleState(sensed.front, sensed.back, sensed.left)
         /\ task' = "Step" /\ faults' = faults
      \/ Fault
  BY DEF ReportObstacles, Exchange
<1>3. /\ sensed.front = Obstructed(0) /\ sensed.left = Obstructed(-1)
      /\ sensed.front \in BOOLEAN /\ sensed.left \in BOOLEAN
      /\ sensed.back \in BackStates
  BY DEF SensorValues, Obstructed, ObstacleInRelativeDirection, BackStates
<1> HIDE DEF sensed
<1>4. CASE Fault
  BY <1>4, DisturbedBlock
<1>5. CASE /\ SetObstacleState(sensed.front, sensed.back, sensed.left)
           /\ task' = "Step" /\ faults' = faults
  <2> SUFFICES ASSUME handsOff', Undisturbed' PROVE BlockInv'
    BY DEF BlockInv
  <2>1. /\ ac.status = "Cleaning" => ~ac.confirmed
        /\ ac.probeActive \/ ac.confirmed => robot \notin dust
        /\ IdleFits
    BY <1>1, <1>5 DEF BlockInv, Undisturbed
  <2>2. ac.status = "AvoidingObstacle" /\ ac.confirmed => sensed.front
    BY <1>3, <2>1 DEF IdleFits
  <2>3. /\ IInv /\ AppInv'
        /\ ReportObstacleState(sensed.front, sensed.back, sensed.left)
    BY <1>3, <1>5, ClientFacts, SetObstaclesKeepsAppInv
    DEF SetObstacleState, AppInv
  <2>4. Outcome(sensed.front, sensed.left, ac', drive')
    BY <1>3, <2>1, <2>2, <2>3, SnapshotOutcome
  <2>5. BacksOut(ac') => drive' = "MoveBackward"
    BY <2>3 DEF AppInv, IInv, StatusMatchesDrive, BacksOut
  <2>6. /\ ac'.status = "Cleaning" => ~ac'.confirmed
        /\ ac'.confirmed => ~ac'.probeActive
    <3>1. ac'.confirmed => ~ac'.probeActive
      BY <2>3 DEF AppInv, IInv, BlockRestsOnProbe
    <3>2. ac'.status = "Cleaning" => ~ac'.confirmed
      BY <2>4 DEF Outcome, BacksOut
    <3> QED BY <3>1, <3>2
  <2>7. ac'.probeActive =>
          drive' = "TurnRight" /\ Obstructed(-1) /\ Passed(0)
    <3> SUFFICES ASSUME ac'.probeActive
                 PROVE  drive' = "TurnRight" /\ Obstructed(-1) /\ Passed(0)
      OBVIOUS
    <3>1. /\ sensed.left /\ (sensed.front \/ BacksOut(ac))
          /\ drive' = "TurnRight"
      BY <2>4 DEF Outcome
    <3> QED BY <1>3, <2>1, <3>1 DEF IdleFits, Passed
  <2>8. ac'.confirmed =>
          \/ /\ drive' = "TurnLeft" /\ ac'.status = "Blocked"
             /\ Obstructed(-2) /\ Obstructed(0) /\ Passed(-1)
          \/ /\ drive' = "Stop" /\ Obstructed(-1) /\ Obstructed(1)
             /\ Passed(0)
             /\ ac'.status = "AvoidingObstacle" => Obstructed(0)
    <3> SUFFICES ASSUME ac'.confirmed
                 PROVE  \/ /\ drive' = "TurnLeft" /\ ac'.status = "Blocked"
                           /\ Obstructed(-2) /\ Obstructed(0) /\ Passed(-1)
                        \/ /\ drive' = "Stop" /\ Obstructed(-1)
                           /\ Obstructed(1) /\ Passed(0)
                           /\ ac'.status = "AvoidingObstacle" => Obstructed(0)
      OBVIOUS
    <3>1. \/ /\ ac.probeActive /\ sensed.front /\ ac'.status = "Blocked"
             /\ drive' = "TurnLeft"
          \/ /\ ac.confirmed /\ drive' = "Stop"
             /\ ac'.status = "AvoidingObstacle" => sensed.front
      BY <2>4 DEF Outcome, BacksOut
    <3> QED BY <1>3, <2>1, <3>1 DEF IdleFits
  <2>9. StepFits'
    <3>1. BacksOut(ac)' <=> BacksOut(ac')
      BY DEF BacksOut
    <3> QED BY <1>1, <2>5, <2>7, <2>8, <3>1, SameView DEF StepFits
  <2> QED BY <1>1, <1>5, <2>6, <2>9 DEF BlockInv, worldVars
<1> QED BY <1>2, <1>4, <1>5

\* The drive command is applied: the robot turns, waits or backs out.
LEMMA MoveKeepsBlock ==
    ASSUME SimInv, BlockInv, Move
    PROVE  BlockInv'
<1>1. task = "Step" /\ task' = "Idle" /\ assist' = assist
      /\ handsOff' = handsOff
  BY DEF Move
<1>2. \/ UNCHANGED appVars /\ faults' = faults /\ ApplyDrive(Shown.DRIVE)
      \/ Fault
  BY DEF Move, GetState, Exchange
<1>3. CASE Fault
  BY <1>3, DisturbedBlock
<1>4. CASE UNCHANGED appVars /\ faults' = faults /\ ApplyDrive(Shown.DRIVE)
  <2> SUFFICES ASSUME handsOff', Undisturbed' PROVE BlockInv'
    BY DEF BlockInv
  <2>1. /\ ac.status = "Cleaning" => ~ac.confirmed
        /\ ac.probeActive \/ ac.confirmed => robot \notin dust
        /\ StepFits /\ Undisturbed
    BY <1>1, <1>4 DEF BlockInv, Undisturbed
  <2>2. ac' = ac /\ heading \in Headings
    BY <1>4, ClientFacts DEF appVars, vars, WorldInv, WorldTypeOK
  <2>3. ac.confirmed => ~ac.probeActive
    BY ClientFacts DEF AppInv, IInv, BlockRestsOnProbe
  <2>4. /\ drive = "TurnLeft" => Shown.DRIVE = "TURN_LEFT"
        /\ drive = "TurnRight" => Shown.DRIVE = "TURN_RIGHT"
        /\ drive = "Stop" => Shown.DRIVE = "STOP"
        /\ drive = "MoveBackward" => Shown.DRIVE = "MOVE_BACKWARD"
    BY DEF Shown, Format, Snapshot, DriveText
  <2>5. BacksOut(ac)' <=> BacksOut(ac)
    BY <2>2 DEF BacksOut
  <2>6. CASE ac.probeActive
    <3>1. TurnBy(1) /\ Obstructed(-1) /\ Passed(0)
      BY <1>4, <2>1, <2>4, <2>6 DEF StepFits, ApplyDrive
    <3>2. Obstructed(-2)' /\ Passed(-1)'
      <4>1. \A k \in -2..2 : /\ Obstructed(k)' <=> Obstructed(1 + k)
                             /\ Passed(k)' <=> Passed(1 + k)
        BY <1>1, <2>2, <3>1, TurnedView
      <4>2. -2 \in -2..2 /\ -1 \in -2..2 /\ 1 + (-2) = -1 /\ 1 + (-1) = 0
        OBVIOUS
      <4> QED BY <3>1, <4>1, <4>2
    <3>3. ~BacksOut(ac)
      BY <2>1, <2>6 DEF StepFits
    <3>4. robot' \notin dust'
      BY <2>1, <2>6, <3>1 DEF TurnBy
    <3> QED
      BY <1>1, <2>1, <2>2, <2>3, <2>5, <2>6, <3>2, <3>3, <3>4
      DEF BlockInv, IdleFits
  <2>7. CASE ac.confirmed /\ drive = "TurnLeft"
    <3>1. /\ TurnBy(-1) /\ ac.status = "Blocked"
          /\ Obstructed(-2) /\ Obstructed(0) /\ Passed(-1)
      BY <1>4, <2>1, <2>4, <2>7 DEF StepFits, ApplyDrive
    <3>2. Obstructed(-1)' /\ Obstructed(1)' /\ Passed(0)'
      <4>1. \A k \in -2..2 : /\ Obstructed(k)' <=> Obstructed(-1 + k)
                             /\ Passed(k)' <=> Passed(-1 + k)
        BY <1>1, <2>2, <3>1, TurnedView
      <4>2. /\ -1 \in -2..2 /\ 0 \in -2..2 /\ 1 \in -2..2
            /\ -1 + (-1) = -2 /\ -1 + 0 = -1 /\ -1 + 1 = 0
        OBVIOUS
      <4> QED BY <3>1, <4>1, <4>2
    <3>3. robot' \notin dust'
      BY <2>1, <2>7, <3>1 DEF TurnBy
    <3> QED
      BY <1>1, <2>1, <2>2, <2>3, <2>5, <2>7, <3>1, <3>2, <3>3
      DEF BlockInv, IdleFits, BacksOut
  <2>8. CASE ac.confirmed /\ drive # "TurnLeft"
    <3>1. /\ UNCHANGED worldVars
          /\ Obstructed(-1) /\ Obstructed(1) /\ Passed(0)
          /\ ac.status = "AvoidingObstacle" => Obstructed(0)
      BY <1>4, <2>1, <2>4, <2>8 DEF StepFits, ApplyDrive
    <3>2. /\ Obstructed(-1)' /\ Obstructed(1)' /\ Passed(0)'
          /\ ac.status = "AvoidingObstacle" => Obstructed(0)'
      BY <1>1, <3>1, SameView
    <3>3. robot' \notin dust'
      BY <2>1, <2>8, <3>1 DEF worldVars
    <3> QED
      BY <1>1, <2>1, <2>2, <2>3, <2>5, <2>8, <3>2, <3>3
      DEF BlockInv, IdleFits, BacksOut
  <2>9. CASE BacksOut(ac) /\ ~ac.probeActive
    <3>1. drive = "MoveBackward" /\ MoveByDirection(RelativeDirection(2))
      BY <1>4, <2>1, <2>4, <2>9 DEF StepFits, ApplyDrive
    <3>2. Step(robot, RelativeDirection(2)) \in map.floor
      BY <1>1, <2>1, <3>1 DEF SimInv, StepIsFree
    <3>3. /\ robot' = Step(robot, RelativeDirection(2))
          /\ heading' = heading /\ cleaned \subseteq cleaned'
      BY <3>1, <3>2 DEF MoveByDirection
    <3>4. robot \in Int \X Int /\ robot \in cleaned
      BY ClientFacts, MapsAssumption
      DEF WorldInv, WorldTypeOK, KeepsToReachable
    <3>5. Step(robot', heading) = robot
      BY <2>2, <3>3, <3>4, BehindAndAhead
    <3>6. Beside(0)' = Step(robot', heading')
      <4>1. RelativeDirection(0)' = RelativeDirection(0)
        BY <3>3 DEF RelativeDirection
      <4>2. RelativeDirection(0) = heading
        BY <2>2, RelativeDirections
      <4> QED BY <3>3, <4>1, <4>2 DEF Beside
    <3>7. Beside(0)' \in cleaned'
      BY <3>3, <3>4, <3>5, <3>6
    <3> QED
      BY <1>1, <2>2, <2>5, <2>9, <3>7 DEF BlockInv, IdleFits, BacksOut
  <2>10. CASE ~ac.probeActive /\ ~ac.confirmed /\ ~BacksOut(ac)
    BY <1>1, <2>2, <2>5, <2>10 DEF BlockInv, IdleFits
  <2> QED BY <2>6, <2>7, <2>8, <2>9, <2>10
<1> QED BY <1>2, <1>3, <1>4
\* Dust is taken from under a robot that is not blocked and does not probe.
LEMMA ClearDustKeepsBlock ==
    ASSUME SimInv, BlockInv, ClearDust
    PROVE  BlockInv'
<1> DEFINE Taken == Shown.CLEANING_POWER = "INCREASED" \/ Shown.DUST = "1"
<1>1. /\ task = "Dust" /\ task' = "Idle" /\ assist' = assist
      /\ handsOff' = handsOff
  BY DEF ClearDust
<1>2. \/ UNCHANGED appVars /\ faults' = faults /\ Taken /\ ClearCurrentDust
      \/ UNCHANGED appVars /\ faults' = faults /\ UNCHANGED worldVars
      \/ Fault
  BY DEF ClearDust, GetState, Exchange
<1> HIDE DEF Taken
<1>3. CASE UNCHANGED appVars /\ faults' = faults /\ ClearCurrentDust
  <2> SUFFICES ASSUME handsOff', Undisturbed' PROVE BlockInv'
    BY DEF BlockInv
  <2>1. ~ac.probeActive /\ ~ac.confirmed /\ IdleFits
    BY <1>1, <1>3 DEF BlockInv, Undisturbed
  <2>2. ac' = ac
    BY <1>3 DEF appVars, vars
  <2>3. Beside(0)' = Beside(0) /\ cleaned \subseteq cleaned'
    BY <1>3 DEF ClearCurrentDust, Beside, Step, RelativeDirection
  <2>4. BacksOut(ac)' <=> BacksOut(ac)
    BY <2>2 DEF BacksOut
  <2> QED BY <1>1, <2>1, <2>2, <2>3, <2>4 DEF BlockInv, IdleFits
<1>4. CASE UNCHANGED appVars /\ faults' = faults /\ UNCHANGED worldVars
  <2>1. ac' = ac
    BY <1>4 DEF appVars, vars
  <2> QED BY <1>1, <1>4, <2>1, QuietKeepsBlock
<1>5. CASE Fault
  BY <1>5, DisturbedBlock
<1> QED BY <1>2, <1>3, <1>4, <1>5

\* A dust report is made on dust, where nothing is blocked or probed.
LEMMA ReportDustKeepsBlock ==
    ASSUME SimInv, BlockInv, task = "Idle", ReportDust
    PROVE  BlockInv'
<1>1. UNCHANGED worldVars /\ assist' = assist /\ handsOff' = handsOff
      /\ robot \in dust
  BY DEF ReportDust
<1>2. \/ AppReportDustDetected /\ task' = "Dust" /\ faults' = faults
      \/ Fault
  BY DEF ReportDust, Exchange
<1>3. CASE AppReportDustDetected /\ task' = "Dust" /\ faults' = faults
  <2>1. /\ ac'.status = ac.status /\ ac'.confirmed = ac.confirmed
        /\ ac'.probeActive = ac.probeActive
    BY <1>3, ClientFacts, CleaningEventsKeepAvoidance
  <2> QED BY <1>1, <1>3, <2>1, QuietKeepsBlock
<1>4. CASE Fault
  BY <1>4, DisturbedBlock
<1> QED BY <1>2, <1>3, <1>4

\* A step of a run.
LEMMA RunMapStepKeepsBlock ==
    ASSUME SimInv, BlockInv, RunMapStep
    PROVE  BlockInv'
<1>1. task = "Idle"
  BY DEF RunMapStep
<1>2. CASE StopCovered
  <2>1. /\ UNCHANGED appVars /\ UNCHANGED worldVars /\ assist' = assist
        /\ handsOff' = handsOff /\ task' = task /\ faults' = faults
    BY <1>2 DEF StopCovered
  <2>2. ac' = ac
    BY <2>1 DEF appVars, vars
  <2> QED BY <1>1, <2>1, <2>2, QuietKeepsBlock
<1> QED
  BY <1>1, <1>2, ReportDustKeepsBlock, ReportObstaclesKeepsBlock
  DEF RunMapStep

\* The deadline is polled.
LEMMA PollPowerTimerKeepsBlock ==
    ASSUME SimInv, BlockInv, PollPowerTimer
    PROVE  BlockInv'
<1>1. /\ task = "Idle" /\ UNCHANGED worldVars /\ assist' = assist
      /\ handsOff' = handsOff
  BY DEF PollPowerTimer
<1>2. \/ ExpirePowerTimer /\ faults' = faults /\ task' \in {"Idle", "Refresh"}
      \/ Fault
  BY <1>1 DEF PollPowerTimer, Exchange
<1>3. CASE ExpirePowerTimer /\ faults' = faults
           /\ task' \in {"Idle", "Refresh"}
  <2>1. /\ ac'.status = ac.status /\ ac'.confirmed = ac.confirmed
        /\ ac'.probeActive = ac.probeActive
    BY <1>3, ClientFacts, CleaningEventsKeepAvoidance
  <2> QED BY <1>1, <1>3, <2>1, QuietKeepsBlock
<1>4. CASE Fault
  BY <1>4, DisturbedBlock
<1> QED BY <1>2, <1>3, <1>4

\* The state is read and nothing else done, or only time passes.
LEMMA ReadingKeepsBlock ==
    ASSUME SimInv, BlockInv,
           Refresh \/ KeyGetState \/ KeyEnter \/ DeadlinePasses
    PROVE  BlockInv'
<1>1. /\ UNCHANGED worldVars /\ assist' = assist /\ handsOff' = handsOff
      /\ task' = task \/ (task = "Refresh" /\ task' = "Idle")
  BY DEF Refresh, KeyGetState, KeyEnter, DeadlinePasses
<1>2. (UNCHANGED appVars /\ faults' = faults) \/ Fault
  BY DEF Refresh, KeyGetState, KeyEnter, DeadlinePasses, GetState, Exchange
<1>3. CASE UNCHANGED appVars /\ faults' = faults
  <2>1. ac' = ac /\ drive' = drive
    BY <1>3 DEF appVars, vars
  <2> QED BY <1>1, <1>3, <2>1, QuietKeepsBlock
<1>4. CASE Fault
  BY <1>4, DisturbedBlock
<1> QED BY <1>2, <1>3, <1>4

\* RESET: there is no block in a new controller; a lost one is a fault.
LEMMA ResetControllerKeepsBlock ==
    ASSUME SimInv, ResetController
    PROVE  BlockInv'
<1>1. (Reset /\ task' = "Refresh") \/ Fault
  BY DEF ResetController, Exchange
<1>2. CASE Reset /\ task' = "Refresh"
  <2>1. ac' = InitAutomaticCleaning
    BY <1>2 DEF Reset, Return
  <2> QED
    BY <1>2, <2>1 DEF BlockInv, IdleFits, BacksOut, InitAutomaticCleaning
<1>3. CASE Fault
  BY <1>3, DisturbedBlock
<1> QED BY <1>1, <1>2, <1>3

\* Every step keeps the truth of the block.
LEMMA SimNextKeepsBlockInv ==
    SimInv /\ BlockInv /\ [SimNext]_simVars => BlockInv'
<1> SUFFICES ASSUME SimInv, BlockInv, [SimNext]_simVars PROVE BlockInv'
  OBVIOUS
<1>1. CASE Play \/ KeySpace
  BY <1>1, RunMapStepKeepsBlock DEF Play, KeySpace
<1>2. CASE Move
  BY <1>2, MoveKeepsBlock
<1>3. CASE ClearDust
  BY <1>3, ClearDustKeepsBlock
<1>4. CASE Refresh \/ KeyGetState \/ KeyEnter \/ DeadlinePasses
  BY <1>4, ReadingKeepsBlock
<1>5. CASE PollPowerTimer
  BY <1>5, PollPowerTimerKeepsBlock
<1>6. CASE KeyReset \/ KeySwitchMap
  BY <1>6, ResetControllerKeepsBlock DEF KeyReset, KeySwitchMap
<1>7. CASE KeyRestoreDust \/ KeyAssist \/ KeyManual \/ Intrude
  BY <1>7, DisturbedBlock
  DEF KeyRestoreDust, KeyAssist, KeyManual, Intrude
<1>8. CASE UNCHANGED simVars
  <2>1. /\ UNCHANGED appVars /\ UNCHANGED worldVars /\ assist' = assist
        /\ handsOff' = handsOff /\ task' = task /\ faults' = faults
    BY <1>8 DEF simVars, clientVars
  <2>2. ac' = ac /\ drive' = drive
    BY <2>1 DEF appVars, vars
  <2> QED BY <2>1, <2>2, QuietKeepsBlock
<1> QED
  BY <1>1, <1>2, <1>3, <1>4, <1>5, <1>6, <1>7, <1>8
  DEF SimNext, PressAnyKey

(***************************************************************************)
(* A confirmed block is one in the world, on every map, with the assist or *)
(* without it: what the controller concludes from a front sensor, a left   *)
(* sensor and a turn (SelectAvoidanceDirection, the probe of               *)
(* applyThreeSideProbeResult) is true of the cells around the robot, as    *)
(* long as nobody else interferes.                                         *)
(***************************************************************************)
THEOREM BlocksAreReal == SimSpec => []BlockIsReal
<1>1. SimInit => SimInv /\ BlockInv
  BY SimInitEstablishes, SimInitHasNoBlock
<1>2. SimInv /\ BlockInv /\ [SimNext]_simVars => (SimInv /\ BlockInv)'
  BY SimNextKeepsSimInv, SimNextKeepsBlockInv
<1>3. BlockInv => BlockIsReal
  BY DEF BlockInv, IdleFits, BlockIsReal, Passed
<1> QED BY <1>1, <1>2, <1>3, PTL DEF SimSpec

(***************************************************************************)
(* In the closed loop the application only ever takes the steps of its own *)
(* specification: keys, lost answers and other sessions add nothing to it, *)
(* so every theorem about the application holds of the whole system.       *)
(***************************************************************************)
THEOREM SimulatorDrivesApplication == SimSpec => AppSpec
<1>1. SimInit => AppInit
  BY DEF SimInit
<1>2. SimNext => [AppNext]_appVars
  <2> SUFFICES ASSUME SimNext PROVE [AppNext]_appVars
    OBVIOUS
  <2>1. ASSUME RunMapStep
        PROVE  [AppNext]_appVars
    <3> DEFINE sensed == SensorValues(assist)
    <3>1. /\ sensed.front \in BOOLEAN /\ sensed.left \in BOOLEAN
          /\ sensed.back \in BackStates
      BY DEF SensorValues, ObstacleInRelativeDirection, BackStates
    <3>2. \/ AppReportDustDetected \/ UNCHANGED appVars
          \/ SetObstacleState(sensed.front, sensed.back, sensed.left)
      BY <2>1
      DEF RunMapStep, ReportDust, StopCovered, ReportObstacles, Exchange
    <3> HIDE DEF sensed
    <3> QED BY <3>1, <3>2 DEF AppNext
  <2>2. ASSUME ResetController
        PROVE  [AppNext]_appVars
    BY <2>2 DEF ResetController, Exchange, AppNext
  <2>3. ASSUME KeyManual
        PROVE  [AppNext]_appVars
    BY <2>3, ManualReportIsCommand DEF KeyManual, Exchange, AppNext
  <2>4. CASE Play \/ KeySpace \/ KeyReset \/ KeySwitchMap \/ KeyManual
    BY <2>1, <2>2, <2>3, <2>4 DEF Play, KeySpace, KeyReset, KeySwitchMap
  <2>5. CASE PollPowerTimer \/ Intrude
    BY <2>5 DEF PollPowerTimer, Exchange, Intrude, AppNext
  <2>6. CASE \/ Move \/ ClearDust \/ Refresh \/ DeadlinePasses
             \/ KeyEnter \/ KeyRestoreDust \/ KeyAssist \/ KeyGetState
    BY <2>6
    DEF Move, ClearDust, Refresh, DeadlinePasses, KeyEnter, KeyRestoreDust,
        KeyAssist, KeyGetState, GetState, Exchange
  <2> QED BY <2>4, <2>5, <2>6 DEF SimNext, PressAnyKey
<1>3. UNCHANGED simVars => UNCHANGED appVars
  BY DEF simVars
<1> QED BY <1>1, <1>2, <1>3, PTL DEF SimSpec, AppSpec

=============================================================================
