-------------------------- MODULE RVCSWController --------------------------
(***************************************************************************)
(* The controller: it receives sensor reports and the end of the dust      *)
(* timer, lets AutomaticCleaning decide, and calls the drive, the cleaning *)
(* device and the timer.                                                   *)
(*                                                                         *)
(* Every public method runs to completion in its caller's thread (the TCP  *)
(* server holds one mutex around it), so one call is one action.  The      *)
(* devices are those of src/sim/RecordingDevices.cpp, which keep the last  *)
(* command they were given.                                                *)
(***************************************************************************)
EXTENDS AutomaticCleaning

VARIABLES
    ac,       \* automaticCleaning_
    sensor,   \* sensorState_
    drive,    \* the drive's last command
    power,    \* the cleaning device's power
    timer,    \* is the dust timer running?
    calls     \* the device calls of the last method, in the order they were made

vars == <<ac, sensor, drive, power, timer, calls>>

DriveStates == MovementCommands \cup {"None"}
PowerStates == PowerLevels \cup {"Off"}
PowerCalls == {"SetNormal", "SetIncreased", "KeepIncreased"}
DeviceCalls == MovementCommands \cup PowerCalls \cup {"StartTimer"}

TypeOK ==
    /\ ac \in AutomaticCleaningStates
    /\ sensor \in SensorStates
    /\ drive \in DriveStates
    /\ power \in PowerStates
    /\ timer \in BOOLEAN
    /\ calls \in Seq(DeviceCalls)

Init ==
    /\ ac = InitAutomaticCleaning
    /\ sensor = InitSensorState
    /\ drive = "None"
    /\ power = "Off"
    /\ timer = FALSE
    /\ calls = <<>>

-----------------------------------------------------------------------------
(***************************************************************************)
(* Carrying out commands.  A method works on a record of the devices (d)   *)
(* that starts as Devices, with no call made yet.                          *)
(***************************************************************************)
Devices == [drive |-> drive, power |-> power, timer |-> timer, calls |-> <<>>]

ExecuteMovementCommands(d, ms) ==
    IF ms = <<>> THEN d
    ELSE [d EXCEPT !.drive = ms[Len(ms)], !.calls = @ \o ms]

SetCleaningPower(d, level) ==
    [d EXCEPT !.power = level,
              !.calls = Append(@, IF level = "Increased" THEN "SetIncreased"
                                  ELSE "SetNormal")]

\* Mutant: a result without a cleaning command is not told apart.
ExecuteUnguarded(d, a, level) == SetCleaningPower(d, level)

\* An increased level is kept, not set, while the dust response is active.
ExecuteCleaningCommand(d, a, level) ==
    IF level = NoLevel THEN d
    ELSE IF a.dustActive /\ level = "Increased"
    THEN [d EXCEPT !.power = level, !.calls = Append(@, "KeepIncreased")]
    ELSE SetCleaningPower(d, level)

StartTimerIfNeeded(d, wanted) ==
    IF ~wanted \/ IncreasedPowerDuration = 0 THEN d
    ELSE [d EXCEPT !.timer = TRUE, !.calls = Append(@, "StartTimer")]

\* Mutant: the drive moves before the power is set.
ApplyMovesFirst(d, o) ==
    [ac  |-> o.ac,
     dev |-> StartTimerIfNeeded(
               ExecuteCleaningCommand(
                 ExecuteMovementCommands(d, o.result.moves),
                 o.ac, o.result.cleaning),
               o.result.timer)]

\* apply: power first, then the movements, then the timer.
Apply(d, o) ==
    [ac  |-> o.ac,
     dev |-> StartTimerIfNeeded(
               ExecuteMovementCommands(
                 ExecuteCleaningCommand(d, o.ac, o.result.cleaning),
                 o.result.moves),
               o.result.timer)]

\* applyInitialDustResponse: movements, power (set, never kept), timer.
ApplyInitialDustResponse(d, o) ==
    LET moved == ExecuteMovementCommands(d, o.result.moves)
    IN  [ac  |-> o.ac,
         dev |-> StartTimerIfNeeded(
                   IF o.result.cleaning = NoLevel THEN moved
                   ELSE SetCleaningPower(moved, o.result.cleaning),
                   o.result.timer)]

\* Mutant: a pending response is not served when cleaning resumes.
ForgetPending(st, s) == st

\* Mutant: the resumption responds to dust that nobody reported meanwhile.
ServeUnasked(st, s) ==
    IF st.ac.status = "Cleaning"
    THEN ApplyInitialDustResponse(st.dev, HandleDustDetected(st.ac, s))
    ELSE st

ApplyPendingDustResponseIfCleaning(st, s) ==
    IF st.ac.pending /\ st.ac.status = "Cleaning"
    THEN ApplyInitialDustResponse(st.dev, HandleDustDetected(st.ac, s))
    ELSE st

\* createTurnCommand and apply for the direction that was decided.
Turn(d, a, direction) ==
    Apply(d, [ac |-> a,
              result |-> Moving(IF direction = "Left" THEN <<"TurnLeft">>
                                ELSE <<"TurnRight">>)])

\* A probe under way: turn back if it found an obstacle, drive on if not.
ApplyRightProbeResult(d, s) ==
    LET choice == SelectAvoidanceDirection(ac, s)
    IN  IF choice.decision = "Backward"
        THEN Turn(d, choice.ac, "Left")
        ELSE ApplyPendingDustResponseIfCleaning(
               Apply(d, ResumeAfterTurn(choice.ac, s)), s)

\* "Left" turns left; "RightProbe" and "Right" turn right.
ApplyAvoidanceDecision(d, s) ==
    LET choice == SelectAvoidanceDirection(ac, s)
    IN  IF choice.decision = "Backward" THEN [ac |-> choice.ac, dev |-> d]
        ELSE Turn(d, choice.ac, choice.decision)

-----------------------------------------------------------------------------
(***************************************************************************)
(* The public methods.  Each disjunct is one path to a return.             *)
(***************************************************************************)

\* The method ends with the sensors s and the decision state and devices st.
Return(s, st) ==
    /\ sensor' = s
    /\ ac' = st.ac
    /\ drive' = st.dev.drive
    /\ power' = st.dev.power
    /\ timer' = st.dev.timer
    /\ calls' = st.dev.calls

NothingToDo == [ac |-> ac, dev |-> Devices]
Resumed(s) ==
    ApplyPendingDustResponseIfCleaning(
        Apply(Devices, ResumeAfterTurn(ac, s)), s)
NewlySensed(s) == Apply(Devices, HandleSensorState(ac, s))
SensedWhileResponding(s) ==
    Apply(Devices, HandleObstacleWhileDustResponse(ac, s))

Avoiding == ac.status = "AvoidingObstacle"
Blocked == ac.status = "Blocked"

ReportFrontObstacleState(front) ==
    LET s == [sensor EXCEPT !.front = front]
    IN  \/ /\ ac.probeActive
           /\ Return(s, ApplyRightProbeResult(Devices, s))
        \/ /\ ~ac.probeActive /\ ~front /\ Avoiding
           /\ Return(s, Resumed(s))
        \/ /\ ~ac.probeActive /\ ~front /\ Blocked
           /\ Return(s, ApplyAvoidanceDecision(Devices, s))
        \/ /\ ~ac.probeActive /\ (front \/ ~(Avoiding \/ Blocked))
           /\ ac.dustActive
           /\ Return(s, SensedWhileResponding(s))
        \/ /\ ~ac.probeActive /\ (front \/ ~(Avoiding \/ Blocked))
           /\ ~ac.dustActive
           /\ Return(s, ApplyPendingDustResponseIfCleaning(NewlySensed(s), s))

ReportBackObstacleState(back) ==
    LET s == [sensor EXCEPT !.back = back]
    IN  \/ ac.dustActive /\ Return(s, SensedWhileResponding(s))
        \/ /\ ~ac.dustActive
           /\ Return(s, Apply(Devices, HandleThreeSideObstacle(ac, s)))

\* Mutant: a left report is acted on while the probe waits for the front.
ReportLeftDuringProbe(left) ==
    LET s == [sensor EXCEPT !.left = left]
    IN  \/ /\ ~(Avoiding \/ Blocked)
           /\ Return(s, NothingToDo)
        \/ /\ Avoiding \/ Blocked
           /\ Return(s, ApplyAvoidanceDecision(Devices, s))

ReportLeftObstacleState(left) ==
    LET s == [sensor EXCEPT !.left = left]
    IN  \/ /\ ac.probeActive \/ ~(Avoiding \/ Blocked)
           /\ Return(s, NothingToDo)
        \/ /\ ~ac.probeActive /\ (Avoiding \/ Blocked)
           /\ Return(s, ApplyAvoidanceDecision(Devices, s))

\* What a blocked robot tries first when a snapshot of the sensors arrives.
LeaveBlock(s) ==
    IF ac.dustActive THEN HandleObstacleWhileDustResponse(ac, s)
    ELSE HandleThreeSideObstacle(ac, s)

ReportObstacleState(front, back, left) ==
    LET s == [sensor EXCEPT !.front = front, !.back = back, !.left = left]
        leaves == Blocked /\ HasEffect(LeaveBlock(s).result)
    IN  \/ /\ ac.probeActive
           /\ Return(s, ApplyRightProbeResult(Devices, s))
        \/ /\ ~ac.probeActive /\ leaves
           /\ Return(s, Apply(Devices, LeaveBlock(s)))
        \/ /\ ~ac.probeActive /\ ~leaves /\ (Blocked \/ (Avoiding /\ front))
           /\ Return(s, ApplyAvoidanceDecision(Devices, s))
        \/ /\ ~ac.probeActive /\ Avoiding /\ ~front
           /\ Return(s, Resumed(s))
        \/ /\ ~ac.probeActive /\ ~(Avoiding \/ Blocked) /\ ac.dustActive
           /\ Return(s, SensedWhileResponding(s))
        \/ /\ ~ac.probeActive /\ ~(Avoiding \/ Blocked) /\ ~ac.dustActive
           /\ front
           /\ Return(s, NewlySensed(s))
        \/ /\ ~ac.probeActive /\ ~(Avoiding \/ Blocked) /\ ~ac.dustActive
           /\ ~front
           /\ Return(s, ApplyPendingDustResponseIfCleaning(NewlySensed(s), s))

\* The dust flag of the sensors is never taken back.
ReportDustDetected ==
    LET s == [sensor EXCEPT !.dust = TRUE]
    IN  \/ /\ ac.status # "Cleaning"
           /\ Return(s, [ac |-> MarkDustResponsePending(ac), dev |-> Devices])
        \/ /\ ac.status = "Cleaning"
           /\ Return(s, ApplyInitialDustResponse(
                          Devices, HandleDustDetected(ac, s)))

(***************************************************************************)
(* Whoever calls this has stopped the timer first (AppTime::expireTimer);  *)
(* with no timer running the call is spurious, as in the unit tests.       *)
(***************************************************************************)
IncreasedPowerDurationExpired ==
    Return(sensor, Apply([Devices EXCEPT !.timer = FALSE],
                         HandleDustResponseTimeout(ac)))

Next ==
    \/ \E front \in BOOLEAN : ReportFrontObstacleState(front)
    \/ \E back \in BackStates : ReportBackObstacleState(back)
    \/ \E left \in BOOLEAN : ReportLeftObstacleState(left)
    \/ \E front, left \in BOOLEAN, back \in BackStates :
           ReportObstacleState(front, back, left)
    \/ ReportDustDetected
    \/ IncreasedPowerDurationExpired

Spec == Init /\ [][Next]_vars

-----------------------------------------------------------------------------
(***************************************************************************)
(* Safety invariants.                                                      *)
(***************************************************************************)

(***************************************************************************)
(* Whatever reports arrive in whatever order, the drive is moving forward  *)
(* exactly in the status Cleaning, and never while the front sensor last   *)
(* reported an obstacle (UC-001, UC-002).                                  *)
(***************************************************************************)
ForwardOnlyIntoClearSpace ==
    /\ drive = "MoveForward" <=> ac.status = "Cleaning"
    /\ drive = "MoveForward" => ~sensor.front

(***************************************************************************)
(* The status and the drive agree: Stopped means a drive at rest, a        *)
(* confirmed block is waited out turned back or at rest, and Blocked       *)
(* without a confirmed block is the robot backing out of one.              *)
(***************************************************************************)
StatusMatchesDrive ==
    /\ ac.status = "Stopped" => drive \in {"None", "Stop"}
    /\ ac.status = "Blocked" =>
         IF ac.confirmed THEN drive \in {"TurnLeft", "Stop"}
         ELSE drive = "MoveBackward"
    /\ ac.status = "AvoidingObstacle" =>
         drive \in {"Stop", "TurnLeft", "TurnRight"}

(***************************************************************************)
(* A block on three sides is confirmed by a finished probe and by nothing  *)
(* else: the two records of it (threeSideBlockedConfirmed_ and the result  *)
(* of the probe) are set and forgotten together, and no probe is under way *)
(* meanwhile.                                                              *)
(***************************************************************************)
BlockRestsOnProbe ==
    /\ ac.confirmed <=> ac.probeResult = "Blocked"
    /\ ac.probeResult # "Open"
    /\ ac.stopIssued => ac.confirmed
    /\ ac.confirmed => ~ac.probeActive

(***************************************************************************)
(* The power is the one of the dust response exactly while it is active,   *)
(* across obstacles, probes and resumptions, and never the increased one   *)
(* outside it (FR-011, FR-012).  The robot never cleans with the power off.*)
(***************************************************************************)
PowerFollowsResponse ==
    /\ ac.dustActive =>
         power = IncreasedPowerLevel /\ ac.dustLevel = IncreasedPowerLevel
    /\ ~ac.dustActive => power \in {"Off", "Normal"}
    /\ ac.status = "Cleaning" => power # "Off"

(***************************************************************************)
(* A dust response always has a running timer that will end it, and the    *)
(* timer never runs without one (unless the policy's duration is zero).    *)
(***************************************************************************)
TimerCoversResponse ==
    IncreasedPowerDuration # 0 => (timer <=> ac.dustActive)

(***************************************************************************)
(* A robot never cleans at normal power over a dust report that was put    *)
(* off: while one is pending in the status Cleaning some response is       *)
(* active, and a pending one always goes back to a report.                 *)
(*                                                                         *)
(* This is less than FR-011 and UC-006 A1 say.  The response may be an     *)
(* older one: handleObstacleWhileDustResponse, which answers a back report *)
(* and a snapshot that finds the robot blocked, may make it drive on, and  *)
(* what is pending is not served then.  It is dropped when the older       *)
(* response ends (PendingOnlyServed in MCRVCSWController).                 *)
(***************************************************************************)
PendingUnderResponse ==
    ac.pending => sensor.dust /\ (ac.status = "Cleaning" => ac.dustActive)

(***************************************************************************)
(* Within one call the power is always set before the drive is told to     *)
(* move forward (test UC001AppliesCleaningCommandBeforeMovementCommand).   *)
(***************************************************************************)
PowerBeforeForward ==
    \A i \in 1..Len(calls) : calls[i] = "MoveForward" =>
        \E j \in 1..i-1 : calls[j] \in PowerCalls

-----------------------------------------------------------------------------
(***************************************************************************)
(* Action properties.                                                      *)
(***************************************************************************)
Issued(call) == \E i \in 1..Len(calls) : calls[i] = call

(***************************************************************************)
(* The robot backs up only out of a block that a probe confirmed before    *)
(* this call, and only with the back sensor known to be clear (UC-005).    *)
(***************************************************************************)
ReverseOnlyOutOfBlock ==
    [][Issued("MoveBackward")' => ac.confirmed /\ CanMoveBackward(sensor')]_vars

(***************************************************************************)
(* Left goes first: the robot turns right only to probe, with the left     *)
(* blocked, and turns left only when the left is clear or when it undoes   *)
(* the turn of a probe that found an obstacle (UC-003).                    *)
(***************************************************************************)
TurnsFollowLeftHandRule ==
    [][/\ Issued("TurnRight")' => sensor'.left /\ ac'.probeActive
       /\ Issued("TurnLeft")' =>
            ~sensor'.left \/ (ac.probeActive /\ ac'.confirmed)]_vars

(***************************************************************************)
(* Every turn to the right is accounted for: a probe ends only by driving  *)
(* on in the new heading or by turning back to the old one.                *)
(***************************************************************************)
ProbeEndsInHeading ==
    [][ac.probeActive /\ ~ac'.probeActive =>
         \/ ac'.status = "Cleaning" /\ Issued("MoveForward")'
         \/ ac'.confirmed /\ calls' = <<"TurnLeft">>]_vars

(***************************************************************************)
(* Every snapshot of the sensors is answered with a drive command, so the  *)
(* simulator, which applies DRIVE after each snapshot, never repeats an    *)
(* old one.                                                                *)
(***************************************************************************)
SnapshotMovesDrive ==
    [][(\E f, l \in BOOLEAN, b \in BackStates : ReportObstacleState(f, b, l))
         => \E m \in MovementCommands : Issued(m)']_vars

(***************************************************************************)
(* Dust reports and the end of the response never touch the motion: not    *)
(* the status, the drive or the avoidance under way (UC-001 A2, UC-007).   *)
(***************************************************************************)
CleaningEventsKeepMotion ==
    [][ReportDustDetected \/ IncreasedPowerDurationExpired =>
         /\ ac' = [ac EXCEPT !.dustActive = ac'.dustActive,
                             !.dustLevel = ac'.dustLevel,
                             !.pending = ac'.pending]
         /\ \A m \in MovementCommands : ~Issued(m)']_vars

=============================================================================
